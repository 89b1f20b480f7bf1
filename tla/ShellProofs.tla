---------------------------- MODULE ShellProofs -----------------------------
(***************************************************************************)
(* What holds of a session for input of any length, cut into packets in    *)
(* any way, and any limits: its events, the durability of its recording,   *)
(* the lines it makes of its input, and the faithfulness of the replay.    *)
(***************************************************************************)
EXTENDS SessionShell, SequenceTheorems, FiniteSetTheorems, TLAPS

\* The provers of a leaf that names none, in turn, and the seconds each has.
USE SMTT(20), ZenonT(20), Z3T(20)

\* What a terminal is sent or a record holds, and what is reported.
Shown == AllBytes \cup {"banner", "prompt", "newline", "response", "logout", "erase", "command",
                       "truncated"}
Event == {"SessionStart", "CommandRun", "PayloadCaptured", "SessionEnd"}

Record == [kind : {"o", "i"}, what : Shown]
Recorder == [cast : Seq(Record), buffered : Seq(Record), truncated : BOOLEAN]

ShellType ==
    /\ pc \in {"idle", "data", "fetch", "dropped"}
    /\ packet \in Seq(AllBytes) /\ input \in Seq(AllBytes)
    /\ escape_seq \in BOOLEAN /\ escape_len \in Nat
    /\ fetch_count \in Nat /\ is_ended \in BOOLEAN
    /\ rec \in Recorder
    /\ screen \in Seq(Shown) /\ events \in Seq(Event)

(***************************************************************************)
(* Sequences and counts.                                                   *)
(***************************************************************************)

\* A pair or a triple sent at once is sent one after the other.
LEMMA ConcatIsAppends ==
    ASSUME NEW S, NEW s \in Seq(S), NEW a \in S, NEW b \in S, NEW c \in S
    PROVE  /\ s \o <<a>> = Append(s, a)
           /\ s \o <<a, b>> = Append(Append(s, a), b)
           /\ s \o <<a, b, c>> = Append(Append(Append(s, a), b), c)
  <1>1. s \o <<a>> = Append(s, a)
    BY AppendIsConcat
  <1>2. s \o <<a, b>> = Append(Append(s, a), b)
    OBVIOUS
  <1>3. s \o <<a, b, c>> = Append(Append(Append(s, a), b), c)
    OBVIOUS
  <1> QED BY <1>1, <1>2, <1>3

\* The positions up to n that satisfy a test, one position later.
LEMMA OneMore ==
    ASSUME NEW n \in Nat, NEW A, NEW B, A \subseteq 1..n,
           B = A \/ B = A \cup {n + 1}
    PROVE  /\ IsFiniteSet(A) /\ Cardinality(A) \in Nat
           /\ Cardinality(B) = Cardinality(A) + (IF B = A THEN 0 ELSE 1)
  <1>1. IsFiniteSet(1..n)
    BY FS_Interval
  <1>2. IsFiniteSet(A)
    BY <1>1, FS_Subset, Zenon
  <1>3. Cardinality(A) \in Nat
    BY <1>2, FS_CardinalityType
  <1>4. CASE B = A
    BY <1>2, <1>3, <1>4
  <1>5. CASE B = A \cup {n + 1}
    <2>1. n + 1 \notin A
      OBVIOUS
    <2>2. Cardinality(A \cup {n + 1}) = Cardinality(A) + 1
      BY <1>2, <2>1, FS_AddElement
    <2>3. B # A
      BY <1>5, <2>1
    <2> QED BY <1>2, <1>3, <1>5, <2>2, <2>3
  <1> QED BY <1>4, <1>5

\* Count after one more element.
LEMMA CountAppend ==
    ASSUME NEW S, NEW s \in Seq(S), NEW x, NEW y \in S
    PROVE  /\ Count(s, x) \in Nat
           /\ Count(Append(s, y), x) = Count(s, x) + (IF y = x THEN 1 ELSE 0)
  <1> DEFINE n == Len(s)
             A == {i \in 1..n : s[i] = x}
             t == Append(s, y)
             B == {i \in 1..Len(t) : t[i] = x}
  <1>1. n \in Nat /\ Len(t) = n + 1 /\ t[n + 1] = y /\ \A i \in 1..n : t[i] = s[i]
    OBVIOUS
  <1> HIDE DEF n, t
  <1>2. A \subseteq 1..n /\ n + 1 \notin A
    BY <1>1
  <1>3. y = x => B = A \cup {n + 1}
    BY <1>1
  <1>4. y # x => B = A
    BY <1>1
  <1>5. Count(s, x) = Cardinality(A) /\ Count(t, x) = Cardinality(B)
    BY DEF Count, n
  <1> HIDE DEF A, B
  <1>6. /\ Cardinality(A) \in Nat
        /\ Cardinality(B) = Cardinality(A) + (IF B = A THEN 0 ELSE 1)
    BY <1>1, <1>2, <1>3, <1>4, OneMore, Zenon
  <1>7. (B = A) <=> (y # x)
    BY <1>2, <1>3, <1>4
  <1> QED BY <1>5, <1>6, <1>7 DEF t

\* Nothing is in an empty sequence.
LEMMA CountEmpty == \A x : Count(<<>>, x) = 0
  <1> SUFFICES ASSUME NEW x PROVE Count(<<>>, x) = 0
    OBVIOUS
  <1>1. {i \in 1..Len(<<>>) : <<>>[i] = x} = {}
    OBVIOUS
  <1> QED BY <1>1, FS_EmptySet DEF Count

(***************************************************************************)
(* Types.                                                                  *)
(***************************************************************************)

\* The recorder stays a recorder: records in, a mark at most, records out.
LEMMA RecorderType ==
    ASSUME NEW r \in Recorder, NEW records \in Seq(Record)
    PROVE  Recorded(r, records) \in Recorder /\ Flushed(r) \in Recorder
  <1> DEFINE all == r.cast \o r.buffered \o records
  <1>1. r.cast \in Seq(Record) /\ r.buffered \in Seq(Record) /\ <<>> \in Seq(Record)
    BY DEF Recorder
  <1>2. r.cast \o r.buffered \in Seq(Record) /\ r.buffered \o records \in Seq(Record)
    BY <1>1
  <1>3. all \in Seq(Record)
    BY <1>2
  <1>4. Truncation \in Record
    BY DEF Truncation, Out, Record, Shown
  <1> HIDE DEF all
  <1>5. Len(all) > CastCap => SubSeq(all, 1, CastCap) \in Seq(Record)
    BY <1>3, SessionShellAssumption
  <1>6. Len(all) \in Nat /\ CastCap \in Nat
    BY <1>3, SessionShellAssumption
  <1>f. Flushed(r) \in Recorder
    BY <1>1, <1>2, Zenon DEF Flushed, Recorder
  <1>7. CASE r.truncated
    BY <1>f, <1>7 DEF Recorded
  <1>8. CASE ~r.truncated /\ Len(all) <= CastCap
    BY <1>1, <1>2, <1>f, <1>8, Zenon DEF Recorded, Recorder, all
  <1>9. CASE ~r.truncated /\ ~(Len(all) <= CastCap)
    <2>1. Append(SubSeq(all, 1, CastCap), Truncation) \in Seq(Record)
      BY <1>4, <1>5, <1>6, <1>9
    <2>2. Recorded(r, records) = [cast |-> Append(SubSeq(all, 1, CastCap), Truncation),
                                  buffered |-> <<>>, truncated |-> TRUE]
      BY <1>9 DEF Recorded, all
    <2> QED BY <1>1, <1>f, <2>1, <2>2 DEF Recorder
  <1> QED BY <1>7, <1>8, <1>9

\* What send_output hands the recorder is a sequence of records.
LEMMA OutputRecords ==
    ASSUME NEW outputs \in Seq(Shown)
    PROVE  [i \in 1..Len(outputs) |-> Out(outputs[i])] \in Seq(Record)
  <1>1. Len(outputs) \in Nat /\ \A i \in 1..Len(outputs) : Out(outputs[i]) \in Record
    BY DEF Out, Record
  <1> QED BY <1>1

\* The packet being handled, its next byte and its rest.
LEMMA PacketType ==
    ASSUME ShellType, packet # <<>>
    PROVE  Byte \in AllBytes /\ Tail(packet) \in Seq(AllBytes) /\ Byte \in Shown
  <1>1. Byte \in AllBytes /\ Tail(packet) \in Seq(AllBytes)
    BY HeadTailProperties DEF ShellType, Byte
  <1>2. AllBytes \subseteq Shown
    BY DEF Shown
  <1> QED BY <1>1, <1>2

\* send_output keeps types.
LEMMA ShowType ==
    ASSUME ShellType, NEW outputs \in Seq(Shown), Show(outputs)
    PROVE  screen' \in Seq(Shown) /\ rec' \in Recorder
  <1>1. [i \in 1..Len(outputs) |-> Out(outputs[i])] \in Seq(Record)
    BY OutputRecords
  <1>2. rec' \in Recorder
    BY <1>1, RecorderType, Zenon DEF Show, ShellType
  <1>3. screen' \in Seq(Shown)
    BY ConcatProperties DEF Show, ShellType
  <1> QED BY <1>2, <1>3

\* teardown_session keeps types.
LEMMA TeardownType ==
    ASSUME ShellType, NEW sent \in Seq(Event), NEW r \in Recorder, Teardown(sent, r)
    PROVE  is_ended' \in BOOLEAN /\ events' \in Seq(Event) /\ rec' \in Recorder
  <1>1. Flushed(r) \in Recorder
    BY RecorderType, EmptySeq, Zenon
  <1>2. Append(sent, "SessionEnd") \in Seq(Event)
    BY DEF Event
  <1> QED BY <1>1, <1>2 DEF Teardown

\* The records of a command line and of what follows it.
LEMMA RunType ==
    /\ RunRecords \in Seq(Record)
    /\ RunRecords \o <<Out("response"), Out("prompt")>> \in Seq(Record)
    /\ Append(RunRecords, Out("logout")) \in Seq(Record)
    /\ <<Out("logout")>> \in Seq(Record)
  <1>1. \A w \in Shown : Out(w) \in Record /\ In(w) \in Record
    BY DEF Out, In, Record
  <1>2. /\ Out("newline") \in Record /\ In("command") \in Record /\ Out("response") \in Record
        /\ Out("prompt") \in Record /\ Out("logout") \in Record
    BY <1>1 DEF Shown
  <1>3. RunRecords \in Seq(Record)
    BY <1>2 DEF RunRecords
  <1>4. <<Out("response"), Out("prompt")>> \in Seq(Record)
    BY <1>2
  <1> HIDE DEF RunRecords
  <1> QED BY <1>2, <1>3, <1>4

\* A step of a session keeps its types.
LEMMA ShellTypeKept ==
    ASSUME ShellType, [Next]_vars
    PROVE  ShellType'
  <1>0. CASE UNCHANGED vars
    BY <1>0 DEF ShellType, vars, editor
  <1>a. /\ pc \in {"idle", "data", "fetch", "dropped"}
        /\ packet \in Seq(AllBytes) /\ input \in Seq(AllBytes)
        /\ escape_seq \in BOOLEAN /\ escape_len \in Nat
        /\ fetch_count \in Nat /\ is_ended \in BOOLEAN
        /\ rec \in Recorder
        /\ screen \in Seq(Shown) /\ events \in Seq(Event)
    BY DEF ShellType
  <1>b. <<"banner", "prompt">> \in Seq(Shown) /\ <<"newline", "prompt">> \in Seq(Shown)
        /\ <<"response", "prompt">> \in Seq(Shown) /\ <<"ctrl_c", "prompt">> \in Seq(Shown)
        /\ <<"erase">> \in Seq(Shown)
    BY DEF Shown, AllBytes
  <1>c. /\ screen \o <<"newline", "response", "prompt">> \in Seq(Shown)
        /\ screen \o <<"newline", "logout">> \in Seq(Shown)
        /\ Append(screen, "newline") \in Seq(Shown) /\ Append(screen, "logout") \in Seq(Shown)
        /\ RunEvents \in Seq(Event)
    BY <1>a DEF RunEvents, Shown, Event
  <1>d. \A r \in Recorder : \A records \in Seq(Record) : Recorded(r, records) \in Recorder
    BY RecorderType
  <1>1. CASE ShellRequest
    <2>1. screen' \in Seq(Shown) /\ rec' \in Recorder
      BY <1>1, <1>b, ShowType, Zenon DEF ShellRequest
    <2>2. events' \in Seq(Event)
      BY <1>1, <1>a DEF ShellRequest, Event
    <2> QED BY <1>1, <1>a, <2>1, <2>2 DEF ShellRequest, ShellType, editor
  <1>2. CASE Data
    <2>1. packet' \in Seq(AllBytes)
      <3>1. PICK n \in 1..MaxPacket : packet' \in [1..n -> Bytes]
        BY <1>2, Zenon DEF Data
      <3>2. n \in Nat /\ packet' \in [1..n -> AllBytes]
        BY <3>1, SessionShellAssumption
      <3> QED BY <3>2, SeqDef
    <2> QED BY <1>2, <1>a, <2>1 DEF Data, ShellType, editor
  <1>3. CASE ChannelClose
    <2>1. is_ended' \in BOOLEAN /\ events' \in Seq(Event) /\ rec' \in Recorder
      BY <1>3, <1>a, TeardownType, Zenon DEF ChannelClose
    <2> QED BY <1>3, <1>a, <2>1 DEF ChannelClose, ShellType, editor
  <1>4. CASE Drop
    <2>1. <<>> \in Seq(Record) /\ <<>> \in Seq(AllBytes)
      OBVIOUS
    <2>2. rec' \in Recorder
      BY <1>4, <1>a, <2>1, Zenon DEF Drop, Recorder
    <2> QED BY <1>4, <1>a, <2>1, <2>2 DEF Drop, ShellType, editor
  <1>5. CASE FetchDone
    <2>1. screen' \in Seq(Shown) /\ rec' \in Recorder
      BY <1>5, <1>b, ShowType, Zenon DEF FetchDone
    <2>2. events' \in Seq(Event)
      <3>1. "PayloadCaptured" \in Event
        BY DEF Event
      <3>2. Append(events, "PayloadCaptured") \in Seq(Event)
        BY <1>a, <3>1
      <3> QED BY <1>5, <1>a, <3>2, Zenon DEF FetchDone
    <2> QED BY <1>5, <1>a, <2>1, <2>2 DEF FetchDone, ShellType, editor
  <1>6. CASE EndOfPacket
    <2>1. rec' \in Recorder
      BY <1>6, <1>a, RecorderType, EmptySeq, Zenon DEF EndOfPacket
    <2> QED BY <1>6, <1>a, <2>1 DEF EndOfPacket, ShellType, editor
  <1>7. ASSUME Take PROVE Byte \in Shown /\ Byte \in AllBytes /\ Tail(packet) \in Seq(AllBytes)
                          /\ input' \in Seq(AllBytes)
    <2>1. Byte \in AllBytes /\ Tail(packet) \in Seq(AllBytes) /\ Byte \in Shown
      BY <1>7, PacketType DEF Take
    <2> QED BY <1>7, <1>a, <2>1 DEF Take
  <1>8. CASE Escape \/ EscapeByte
    <2>1. escape_len' \in Nat
      BY <1>8, <1>a DEF Escape, EscapeByte
    <2>2. escape_seq' \in BOOLEAN
      BY <1>8, Zenon DEF Escape, EscapeByte
    <2> QED BY <1>7, <1>8, <1>a, <2>1, <2>2, Zenon DEF Escape, EscapeByte, Skip, ShellType
  <1>9. CASE SkipNewline \/ Ignore
    BY <1>7, <1>9, <1>a, Zenon DEF SkipNewline, Ignore, Plain, Skip, ShellType
  <1>10. CASE BlankLine
    <2>1. screen' \in Seq(Shown) /\ rec' \in Recorder
      BY <1>10, <1>b, ShowType, Zenon DEF BlankLine
    <2> QED BY <1>7, <1>10, <1>a, <2>1 DEF BlankLine, EndLine, Plain, ShellType
  <1>11. CASE RunCommand
    <2>1. rec' \in Recorder
      BY <1>11, <1>a, <1>d, RunType, Zenon DEF RunCommand
    <2> QED BY <1>7, <1>11, <1>a, <1>c, <2>1
            DEF RunCommand, CommandLine, EndLine, Plain, ShellType
  <1>12. CASE RunExit
    <2>1. is_ended' \in BOOLEAN /\ events' \in Seq(Event) /\ rec' \in Recorder
      BY <1>12, <1>a, <1>c, <1>d, RunType, TeardownType, Zenon DEF RunExit
    <2>2. <<>> \in Seq(AllBytes)
      OBVIOUS
    <2> QED BY <1>7, <1>12, <1>a, <1>c, <2>1, <2>2
            DEF RunExit, CommandLine, EndLine, Plain, ShellType
  <1>13. CASE RunDownload
    <2>1. rec' \in Recorder
      BY <1>13, <1>a, <1>d, RunType, Zenon DEF RunDownload
    <2> QED BY <1>7, <1>13, <1>a, <1>c, <2>1
            DEF RunDownload, CommandLine, EndLine, Plain, ShellType
  <1>14. CASE Backspace \/ CtrlC
    <2>1. screen' \in Seq(Shown) /\ rec' \in Recorder
      BY <1>14, <1>b, ShowType, Zenon DEF Backspace, CtrlC
    <2> QED BY <1>7, <1>14, <1>a, <2>1, Zenon DEF Backspace, CtrlC, Plain, ShellType
  <1>15. CASE CtrlD
    <2>1. is_ended' \in BOOLEAN /\ events' \in Seq(Event) /\ rec' \in Recorder
      BY <1>15, <1>a, <1>d, RunType, TeardownType, Zenon DEF CtrlD
    <2> QED BY <1>7, <1>15, <1>a, <1>c, <2>1 DEF CtrlD, Plain, ShellType
  <1>16. CASE Type
    <2>1. <<Byte>> \in Seq(Shown)
      BY <1>7, <1>16 DEF Type, Plain
    <2>2. screen' \in Seq(Shown) /\ rec' \in Recorder
      BY <1>16, <2>1, ShowType, Zenon DEF Type
    <2> QED BY <1>7, <1>16, <1>a, <2>2 DEF Type, Plain, ShellType
  <1> QED BY <1>0, <1>1, <1>2, <1>3, <1>4, <1>5, <1>6, <1>8, <1>9, <1>10, <1>11, <1>12, <1>13,
             <1>14, <1>15, <1>16, Zenon DEF Next, Callback

\* The initial state of a session.
LEMMA ShellTypeInit == Init => ShellType
  <1>1. /\ <<>> \in Seq(AllBytes) /\ <<>> \in Seq(Shown) /\ <<>> \in Seq(Event)
        /\ <<>> \in Seq(Record)
    OBVIOUS
  <1>2. [cast |-> <<>>, buffered |-> <<>>, truncated |-> FALSE] \in Recorder
    BY <1>1 DEF Recorder
  <1>3. "idle" \in {"idle", "data", "fetch", "dropped"} /\ 0 \in Nat
    OBVIOUS
  <1> QED BY <1>1, <1>2, <1>3, Zenon DEF Init, ShellType

(***************************************************************************)
(* Events.                                                                 *)
(***************************************************************************)

\* EventsWellFormed is not inductive: a payload is reported from the wait for
\* its download, which follows the event of its command directly and has taken
\* one of the budget that no payload has used.
EventsInv ==
    /\ EventsWellFormed
    /\ pc = "fetch" =>
         /\ events # <<>> /\ events[Len(events)] = "CommandRun"
         /\ Count(events, "PayloadCaptured") < fetch_count

\* Every payload directly follows a command.
Paired(evs) ==
    \A i \in 1..Len(evs) : evs[i] = "PayloadCaptured" => i > 1 /\ evs[i - 1] = "CommandRun"

\* An event other than a payload, or a payload after its command, keeps pairs.
LEMMA PairedAppend ==
    ASSUME NEW s \in Seq(Event), NEW e \in Event, Paired(s),
           e = "PayloadCaptured" => s # <<>> /\ s[Len(s)] = "CommandRun"
    PROVE  Paired(Append(s, e))
  <1> DEFINE n == Len(s)
             t == Append(s, e)
  <1>1. n \in Nat /\ Len(t) = n + 1 /\ t[n + 1] = e /\ \A i \in 1..n : t[i] = s[i]
    OBVIOUS
  <1>2. s # <<>> => n > 0
    OBVIOUS
  <1> HIDE DEF n, t
  <1>3. ASSUME NEW i \in 1..Len(t), t[i] = "PayloadCaptured"
        PROVE  i > 1 /\ t[i - 1] = "CommandRun"
    <2>1. CASE i \in 1..n
      <3>1. i > 1 /\ s[i - 1] = "CommandRun"
        BY <1>1, <1>3, <2>1 DEF Paired, n
      <3> QED BY <1>1, <2>1, <3>1
    <2>2. CASE i = n + 1
      <3>1. n > 0 /\ s[n] = "CommandRun"
        BY <1>1, <1>2, <1>3, <2>2 DEF n
      <3> QED BY <1>1, <2>2, <3>1
    <2> QED BY <1>1, <2>1, <2>2
  <1> QED BY <1>3 DEF Paired, t

\* What one more event does to the counts the invariant is about.
LEMMA EventCounts ==
    ASSUME NEW s \in Seq(Event), NEW e \in Event
    PROVE  /\ Count(s, "SessionEnd") \in Nat /\ Count(s, "PayloadCaptured") \in Nat
           /\ Count(Append(s, e), "SessionEnd")
                = Count(s, "SessionEnd") + (IF e = "SessionEnd" THEN 1 ELSE 0)
           /\ Count(Append(s, e), "PayloadCaptured")
                = Count(s, "PayloadCaptured") + (IF e = "PayloadCaptured" THEN 1 ELSE 0)
  BY CountAppend

\* A step keeps the events well formed.
LEMMA EventsKept ==
    ASSUME ShellType, EventsInv, [Next]_vars
    PROVE  EventsInv'
  <1> DEFINE E(evs) == Count(evs, "SessionEnd")
             P(evs) == Count(evs, "PayloadCaptured")
             Good(evs, ended, fetches) ==
               /\ E(evs) = IF ended THEN 1 ELSE 0
               /\ P(evs) <= fetches
               /\ Paired(evs)
             Waits(evs, fetches) ==
               evs # <<>> /\ evs[Len(evs)] = "CommandRun" /\ P(evs) < fetches
  <1>a. /\ events \in Seq(Event) /\ fetch_count \in Nat /\ is_ended \in BOOLEAN
    BY DEF ShellType
  <1>b. Good(events, is_ended, fetch_count) /\ (pc = "fetch" => Waits(events, fetch_count))
    BY DEF EventsInv, EventsWellFormed, Paired
  <1>c. SUFFICES /\ Good(events', is_ended', fetch_count')
                 /\ pc' = "fetch" => Waits(events', fetch_count')
    BY DEF EventsInv, EventsWellFormed, Paired
  <1>d. \A e \in Event : Append(events, e) \in Seq(Event)
    BY <1>a
  <1>e. /\ "SessionStart" \in Event /\ "CommandRun" \in Event /\ "PayloadCaptured" \in Event
        /\ "SessionEnd" \in Event
    BY DEF Event
  <1>f. E(events) \in Nat /\ P(events) \in Nat
    BY <1>a, <1>e, EventCounts
  <1>1. CASE /\ UNCHANGED <<events, is_ended, fetch_count>>
             /\ pc' = "fetch" => pc = "fetch"
    <2> HIDE DEF Good, Waits
    <2> QED BY <1>1, <1>b
  <1>g. E(RunEvents) = E(events) /\ P(RunEvents) = P(events) /\ Paired(RunEvents)
        /\ RunEvents \in Seq(Event)
    <2>1. /\ E(RunEvents) = E(events) + (IF "CommandRun" = "SessionEnd" THEN 1 ELSE 0)
          /\ P(RunEvents) = P(events) + (IF "CommandRun" = "PayloadCaptured" THEN 1 ELSE 0)
      BY <1>a, <1>e, EventCounts, Zenon DEF RunEvents
    <2>2. Paired(RunEvents)
      BY <1>a, <1>b, <1>e, PairedAppend DEF RunEvents
    <2> HIDE DEF E, P
    <2> QED BY <1>d, <1>e, <1>f, <2>1, <2>2 DEF RunEvents
  <1>2. CASE ShellRequest
    <2>1. /\ E(events') = E(events) + (IF "SessionStart" = "SessionEnd" THEN 1 ELSE 0)
          /\ P(events') = P(events) + (IF "SessionStart" = "PayloadCaptured" THEN 1 ELSE 0)
      BY <1>2, <1>a, <1>e, EventCounts, Zenon DEF ShellRequest
    <2>2. Paired(events')
      BY <1>2, <1>a, <1>b, <1>e, PairedAppend DEF ShellRequest
    <2>3. pc' = "idle" /\ is_ended' = is_ended /\ fetch_count' = fetch_count
      BY <1>2 DEF ShellRequest
    <2> HIDE DEF E, P
    <2> QED BY <1>b, <1>f, <2>1, <2>2, <2>3
  <1>3. ASSUME NEW sent \in Seq(Event), NEW r, Teardown(sent, r), Good(sent, is_ended, fetch_count),
               fetch_count' = fetch_count, pc' # "fetch"
        PROVE  /\ Good(events', is_ended', fetch_count')
               /\ pc' = "fetch" => Waits(events', fetch_count')
    <2>1. CASE is_ended
      <3>1. events' = sent /\ is_ended' = TRUE
        BY <1>3, <2>1 DEF Teardown
      <3> QED BY <1>3, <2>1, <3>1
    <2>2. CASE ~is_ended
      <3>1. events' = Append(sent, "SessionEnd") /\ is_ended' = TRUE
        BY <1>3, <2>2 DEF Teardown
      <3>2. /\ E(events') = E(sent) + (IF "SessionEnd" = "SessionEnd" THEN 1 ELSE 0)
            /\ P(events') = P(sent) + (IF "SessionEnd" = "PayloadCaptured" THEN 1 ELSE 0)
            /\ E(sent) \in Nat /\ P(sent) \in Nat
        BY <1>3, <1>e, <3>1, EventCounts, Zenon
      <3>3. Paired(events')
        BY <1>3, <1>e, <3>1, PairedAppend
      <3> HIDE DEF E, P
      <3> QED BY <1>3, <2>2, <3>1, <3>2, <3>3
    <2> QED BY <2>1, <2>2
  <1>4. CASE ChannelClose
    <2>1. Teardown(events, rec) /\ fetch_count' = fetch_count /\ pc' # "fetch"
      BY <1>4 DEF ChannelClose
    <2> HIDE DEF Good, Waits
    <2> QED BY <1>3, <1>a, <1>b, <2>1
  <1>5. CASE CtrlD
    <2>1. PICK r : Teardown(events, r)
      BY <1>5, Zenon DEF CtrlD
    <2>2. fetch_count' = fetch_count /\ pc' # "fetch"
      BY <1>5 DEF CtrlD, Plain, Take
    <2> HIDE DEF Good, Waits
    <2> QED BY <1>3, <1>a, <1>b, <2>1, <2>2
  <1>6. CASE RunExit
    <2>1. PICK r : Teardown(RunEvents, r)
      BY <1>6, Zenon DEF RunExit
    <2>2. fetch_count' = fetch_count /\ pc' # "fetch"
      BY <1>6 DEF RunExit
    <2>3. Good(RunEvents, is_ended, fetch_count)
      BY <1>b, <1>g, Zenon
    <2> HIDE DEF Good, Waits
    <2> QED BY <1>3, <1>g, <2>1, <2>2, <2>3
  <1>7. CASE RunCommand
    <2>1. /\ events' = RunEvents /\ is_ended' = is_ended /\ fetch_count' = fetch_count
          /\ pc' # "fetch"
      BY <1>7 DEF RunCommand, CommandLine, EndLine, Plain, Take
    <2> HIDE DEF E, P
    <2> QED BY <1>b, <1>g, <2>1
  <1>8. CASE RunDownload
    <2>1. events' = RunEvents /\ is_ended' = is_ended /\ fetch_count' = fetch_count + 1
      BY <1>8 DEF RunDownload
    <2>2. RunEvents # <<>> /\ RunEvents[Len(RunEvents)] = "CommandRun"
      BY <1>a, <1>e DEF RunEvents
    <2> HIDE DEF E, P
    <2> QED BY <1>a, <1>b, <1>f, <1>g, <2>1, <2>2
  <1>9. CASE FetchDone
    <2>1. pc = "fetch" /\ pc' = "data" /\ is_ended' = is_ended /\ fetch_count' = fetch_count
      BY <1>9 DEF FetchDone
    <2>2. CASE events' = events
      BY <1>b, <2>1, <2>2
    <2>3. CASE events' = Append(events, "PayloadCaptured")
      <3>1. /\ E(events') = E(events) + (IF "PayloadCaptured" = "SessionEnd" THEN 1 ELSE 0)
            /\ P(events') = P(events) + (IF "PayloadCaptured" = "PayloadCaptured" THEN 1 ELSE 0)
        BY <1>a, <1>e, <2>3, EventCounts, Zenon
      <3>2. Paired(events')
        BY <1>a, <1>b, <1>e, <2>1, <2>3, PairedAppend, Zenon
      <3> HIDE DEF E, P
      <3> QED BY <1>a, <1>b, <1>f, <2>1, <3>1, <3>2
    <2> QED BY <1>9, <2>2, <2>3, Zenon DEF FetchDone
  <1>10. CASE UNCHANGED vars \/ Data \/ Drop \/ EndOfPacket
    <2>1. /\ UNCHANGED <<events, is_ended, fetch_count>>
          /\ pc' = "fetch" => pc = "fetch"
      BY <1>10 DEF vars, Data, Drop, EndOfPacket
    <2> QED BY <1>1, <2>1, Zenon
  <1>11. CASE \/ Escape \/ EscapeByte \/ SkipNewline \/ BlankLine \/ Backspace \/ CtrlC
              \/ Type \/ Ignore
    <2>1. /\ UNCHANGED <<events, is_ended, fetch_count>>
          /\ pc' = "fetch" => pc = "fetch"
      BY <1>11 DEF Escape, EscapeByte, SkipNewline, BlankLine, Backspace, CtrlC, Type, Ignore, Skip
    <2> QED BY <1>1, <2>1, Zenon
  <1> HIDE DEF Good, Waits
  <1> QED BY <1>2, <1>4, <1>5, <1>6, <1>7, <1>8, <1>9, <1>10, <1>11, Zenon DEF Next, Callback

\* EventsWellFormed: teardown_session announces one end however exit, Ctrl-D and
\* channel_close come together, and a payload follows its command within the
\* budget of fetches.
THEOREM EventsStayWellFormed == Spec => []EventsWellFormed
  <1>1. Init => EventsInv
    BY CountEmpty DEF Init, EventsInv, EventsWellFormed
  <1>2. Init => ShellType
    BY ShellTypeInit
  <1>3. ShellType /\ [Next]_vars => ShellType'
    BY ShellTypeKept
  <1>4. ShellType /\ EventsInv /\ [Next]_vars => EventsInv'
    BY EventsKept
  <1>5. EventsInv => EventsWellFormed
    BY DEF EventsInv
  <1> QED BY <1>1, <1>2, <1>3, <1>4, <1>5, PTL DEF Spec

(***************************************************************************)
(* The recording.                                                          *)
(***************************************************************************)

\* What send_output hands the recorder, for the outputs the handler sends.
LEMMA ShownRecords ==
    ASSUME NEW a, NEW b
    PROVE  /\ [i \in 1..Len(<<a>>) |-> Out(<<a>>[i])] = <<Out(a)>>
           /\ [i \in 1..Len(<<a, b>>) |-> Out(<<a, b>>[i])] = <<Out(a), Out(b)>>
  OBVIOUS

\* TypingIsDurable is inductive: between packets only a shell request buffers
\* anything, and a packet is left through a flush or the end of the session.
LEMMA DurableKept ==
    ASSUME ShellType, TypingIsDurable, [Next]_vars
    PROVE  TypingIsDurable'
  <1> DEFINE Plainly(seq) == \A i \in 1..Len(seq) : seq[i] \in {Out("banner"), Out("prompt")}
  <1>a. rec \in Recorder /\ rec.buffered \in Seq(Record)
    BY DEF ShellType, Recorder
  <1>1. CASE UNCHANGED <<pc, is_ended, rec>>
    BY <1>1 DEF TypingIsDurable
  <1>2. CASE pc' # "idle" \/ is_ended'
    BY <1>2 DEF TypingIsDurable
  <1>3. CASE rec'.buffered = <<>>
    BY <1>3 DEF TypingIsDurable
  <1>4. CASE ShellRequest
    <2> DEFINE new == <<Out("banner"), Out("prompt")>>
    <2>1. rec' = Recorded(rec, new) /\ pc = "idle" /\ is_ended' = is_ended
      BY <1>4, ShownRecords, Zenon DEF ShellRequest, Show
    <2>2. \/ rec'.buffered = rec.buffered \/ rec'.buffered = rec.buffered \o new
          \/ rec'.buffered = <<>>
      BY <1>a, <2>1 DEF Recorded, Recorder
    <2>3. ~is_ended => Plainly(rec.buffered)
      BY <2>1 DEF TypingIsDurable
    <2>4. ASSUME Plainly(rec.buffered) PROVE Plainly(rec.buffered \o new)
      <3> DEFINE b == rec.buffered
      <3>1. b \in Seq(Record) /\ Len(b) \in Nat
        BY <1>a
      <3>2. \A i \in 1..Len(b) : b[i] \in {Out("banner"), Out("prompt")}
        BY <2>4
      <3> DEFINE x == Out("banner")
                 y == Out("prompt")
      <3>3. x \in Record /\ y \in Record
        BY DEF Record, Out, Shown
      <3> HIDE DEF b, x, y
      <3>4. b \o <<x, y>> = Append(Append(b, x), y)
        BY <3>1, <3>3, ConcatIsAppends
      <3> DEFINE t == Append(Append(b, x), y)
      <3>5. /\ Len(t) = Len(b) + 2 /\ t[Len(b) + 1] = x /\ t[Len(b) + 2] = y
            /\ \A i \in 1..Len(b) : t[i] = b[i]
        BY <3>1, <3>3
      <3> HIDE DEF t
      <3>6. \A i \in 1..Len(t) : t[i] \in {x, y}
        <4> SUFFICES ASSUME NEW i \in 1..Len(t) PROVE t[i] \in {x, y}
          OBVIOUS
        <4>1. i \in 1..Len(b) \/ i = Len(b) + 1 \/ i = Len(b) + 2
          BY <3>1, <3>5
        <4>2. \A j \in 1..Len(b) : b[j] \in {x, y}
          BY <3>2 DEF x, y
        <4> QED BY <3>5, <4>1, <4>2
      <3> QED BY <3>4, <3>6 DEF b, x, y, t
    <2>5. Plainly(<<>>)
      OBVIOUS
    <2>6. ~is_ended => Plainly(rec'.buffered)
      <3> HIDE DEF Plainly
      <3> QED BY <2>2, <2>3, <2>4, <2>5, Zenon
    <2> QED BY <2>1, <2>6 DEF TypingIsDurable
  <1>5. CASE ChannelClose \/ CtrlD \/ RunExit
    BY <1>2, <1>5 DEF ChannelClose, CtrlD, RunExit, Teardown
  <1>6. CASE Data \/ Drop \/ RunDownload \/ FetchDone
    BY <1>2, <1>6 DEF Data, Drop, RunDownload, FetchDone
  <1>7. CASE EndOfPacket
    <2>1. rec'.buffered = <<>>
      BY <1>7, <1>a DEF EndOfPacket, Flushed, Recorder
    <2> QED BY <1>3, <2>1
  <1>8. CASE \/ Escape \/ EscapeByte \/ SkipNewline \/ BlankLine \/ RunCommand \/ Backspace
             \/ CtrlC \/ Type \/ Ignore
    <2>1. pc' = "data"
      BY <1>8 DEF Escape, EscapeByte, SkipNewline, BlankLine, RunCommand, CommandLine, EndLine,
                  Backspace, CtrlC, Type, Ignore, Plain, Take, Skip
    <2> QED BY <1>2, <2>1
  <1>9. CASE UNCHANGED vars
    BY <1>1, <1>9 DEF vars
  <1> QED BY <1>4, <1>5, <1>6, <1>7, <1>8, <1>9, Zenon DEF Next, Callback

\* TypingIsDurable: the flush at the end of every packet leaves nothing typed in
\* the writer's buffer between packets.
THEOREM TypingStaysDurable == Spec => []TypingIsDurable
  <1>1. Init => TypingIsDurable
    BY DEF Init, TypingIsDurable
  <1>2. Init => ShellType
    BY ShellTypeInit
  <1>3. ShellType /\ [Next]_vars => ShellType'
    BY ShellTypeKept
  <1>4. ShellType /\ TypingIsDurable /\ [Next]_vars => TypingIsDurable'
    BY DurableKept
  <1> QED BY <1>1, <1>2, <1>3, <1>4, PTL DEF Spec

(***************************************************************************)
(* Lines.                                                                  *)
(***************************************************************************)

\* InEscape and LineEnds, of any input.
Inside(inp, i) ==
    \E j \in 1..(i - 1) :
        /\ inp[j] = "esc" /\ i - j <= MaxEscapeLen
        /\ \A k \in (j + 1)..(i - 1) : inp[k] \notin {"esc", "letter"}

Ends(inp) ==
    {i \in 1..Len(inp) :
        /\ inp[i] \in {"cr", "lf"} /\ ~Inside(inp, i)
        /\ ~(i > 1 /\ inp[i] = "lf" /\ inp[i - 1] = "cr")}

\* The editor's state is a function of the input: the last byte, whether the
\* next position is inside an escape sequence, and how far its start is back.
Reads(inp, last, esc, len) ==
    LET n == Len(inp) IN
    /\ last = IF n = 0 THEN "other" ELSE inp[n]
    /\ esc => /\ len < n /\ len < MaxEscapeLen
              /\ inp[n - len] = "esc"
              /\ \A k \in (n - len + 1)..n : inp[k] \notin {"esc", "letter"}
    /\ ~esc => ~Inside(inp, n + 1)

\* LinesAsTyped is not inductive: it needs the editor to know where it is.
LinesInv ==
    /\ Reads(input, last_byte, escape_seq, escape_len)
    /\ Count(screen, "newline") = Cardinality(Ends(input))

\* A later byte does not change what an earlier one was inside of.
LEMMA InsideAppend ==
    ASSUME NEW s \in Seq(AllBytes), NEW b \in AllBytes, NEW i \in 1..(Len(s) + 1)
    PROVE  Inside(Append(s, b), i) <=> Inside(s, i)
  <1> DEFINE n == Len(s)
             t == Append(s, b)
  <1>1. n \in Nat /\ \A k \in 1..n : t[k] = s[k]
    OBVIOUS
  <1>2. i \in 1..(n + 1)
    OBVIOUS
  <1> HIDE DEF n, t
  <1>3. MaxEscapeLen \in Nat
    BY SessionShellAssumption
  <1>4. ASSUME NEW j \in 1..(i - 1)
        PROVE  t[j] = s[j] /\ \A k \in (j + 1)..(i - 1) : t[k] = s[k]
    BY <1>1, <1>2, <1>4
  <1> QED BY <1>4 DEF Inside, t

\* One more byte ends a line or does not.
LEMMA EndsAppend ==
    ASSUME NEW s \in Seq(AllBytes), NEW b \in AllBytes
    PROVE  LET n == Len(s)
               ends == /\ b \in {"cr", "lf"} /\ ~Inside(s, n + 1)
                       /\ ~(n > 0 /\ b = "lf" /\ s[n] = "cr")
           IN  /\ Cardinality(Ends(s)) \in Nat
               /\ Cardinality(Ends(Append(s, b)))
                    = Cardinality(Ends(s)) + (IF ends THEN 1 ELSE 0)
  <1> DEFINE n == Len(s)
             t == Append(s, b)
             ends == /\ b \in {"cr", "lf"} /\ ~Inside(s, n + 1)
                     /\ ~(n > 0 /\ b = "lf" /\ s[n] = "cr")
  <1>1. n \in Nat /\ Len(t) = n + 1 /\ t[n + 1] = b /\ \A k \in 1..n : t[k] = s[k]
    OBVIOUS
  <1>2. \A i \in 1..(n + 1) : Inside(t, i) <=> Inside(s, i)
    BY InsideAppend, Zenon
  <1> HIDE DEF t
  <1>3. \A i \in 1..n : i \in Ends(t) <=> i \in Ends(s)
    <2> SUFFICES ASSUME NEW i \in 1..n PROVE i \in Ends(t) <=> i \in Ends(s)
      OBVIOUS
    <2>1. t[i] = s[i] /\ (i > 1 => t[i - 1] = s[i - 1]) /\ i \in 1..Len(t) /\ i \in 1..(n + 1)
      BY <1>1
    <2>2. Inside(t, i) <=> Inside(s, i)
      BY <1>2, <2>1
    <2> QED BY <2>1, <2>2 DEF Ends
  <1>4. n + 1 \in Ends(t) <=> ends
    <2>1. /\ n + 1 \in 1..Len(t) /\ n + 1 \in 1..(n + 1) /\ (n + 1) - 1 = n
          /\ n + 1 > 1 <=> n > 0
          /\ n > 0 => t[n] = s[n]
      BY <1>1
    <2>2. Inside(t, n + 1) <=> Inside(s, n + 1)
      BY <1>2, <2>1
    <2> HIDE DEF n
    <2> QED BY <1>1, <2>1, <2>2 DEF Ends
  <1>5. Ends(s) \subseteq 1..n /\ Ends(t) \subseteq 1..(n + 1)
    BY <1>1 DEF Ends
  <1> HIDE DEF n, ends
  <1>6. Ends(t) = IF ends THEN Ends(s) \cup {n + 1} ELSE Ends(s)
    <2>1. \A i \in 1..(n + 1) : i \in 1..n \/ i = n + 1
      BY <1>1
    <2>2. \A i \in 1..n : i \in 1..(n + 1) /\ i # n + 1
      BY <1>1
    <2>3. \A i : i \in Ends(t) <=> i \in Ends(s) \/ (ends /\ i = n + 1)
      BY <1>3, <1>4, <1>5, <2>1, <2>2, Zenon
    <2> QED BY <2>3, Zenon
  <1>7. n + 1 \notin Ends(s)
    BY <1>1, <1>5
  <1>8. /\ Cardinality(Ends(s)) \in Nat
        /\ Cardinality(Ends(t)) = Cardinality(Ends(s)) + (IF Ends(t) = Ends(s) THEN 0 ELSE 1)
    BY <1>1, <1>5, <1>6, OneMore, Zenon
  <1>9. (Ends(t) = Ends(s)) <=> ~ends
    BY <1>6, <1>7
  <1> QED BY <1>8, <1>9 DEF n, t, ends

\* Where the editor is tells whether the next byte is inside a sequence.
LEMMA ReadsInside ==
    ASSUME NEW s \in Seq(AllBytes), NEW last, NEW esc \in BOOLEAN, NEW len \in Nat,
           Reads(s, last, esc, len)
    PROVE  Inside(s, Len(s) + 1) <=> esc
  <1> DEFINE n == Len(s)
  <1>1. n \in Nat /\ MaxEscapeLen \in Nat
    BY SessionShellAssumption
  <1>2. CASE esc
    <2>1. /\ len < n /\ len < MaxEscapeLen /\ s[n - len] = "esc"
          /\ \A k \in (n - len + 1)..n : s[k] \notin {"esc", "letter"}
      BY <1>2 DEF Reads
    <2> DEFINE j == n - len
    <2>2. j \in 1..((n + 1) - 1) /\ (n + 1) - j <= MaxEscapeLen /\ (n + 1) - 1 = n
      BY <1>1, <2>1
    <2> HIDE DEF n, j
    <2>3. s[j] = "esc" /\ \A k \in (j + 1)..((n + 1) - 1) : s[k] \notin {"esc", "letter"}
      BY <2>1, <2>2 DEF j
    <2>4. Inside(s, n + 1)
      BY <2>2, <2>3, Zenon DEF Inside
    <2> QED BY <1>2, <2>4 DEF n
  <1>3. CASE ~esc
    BY <1>3 DEF Reads
  <1> QED BY <1>2, <1>3

\* An escape byte starts a sequence wherever it stands.
LEMMA ReadsEscape ==
    ASSUME NEW s \in Seq(AllBytes)
    PROVE  Reads(Append(s, "esc"), "esc", TRUE, 0)
  <1> DEFINE n == Len(s)
             t == Append(s, "esc")
  <1>1. n \in Nat /\ Len(t) = n + 1 /\ t[n + 1] = "esc"
    BY DEF AllBytes
  <1> HIDE DEF n, t
  <1>2. MaxEscapeLen \in Nat \ {0}
    BY SessionShellAssumption
  <1> QED BY <1>1, <1>2 DEF Reads, t

\* A byte of a sequence goes on with it, or ends it: a letter, or the limit.
LEMMA ReadsEscapeByte ==
    ASSUME NEW s \in Seq(AllBytes), NEW b \in AllBytes, b # "esc",
           NEW last, NEW len \in Nat, Reads(s, last, TRUE, len), NEW esc \in BOOLEAN,
           esc <=> ~(b = "letter" \/ len + 1 >= MaxEscapeLen)
    PROVE  Reads(Append(s, b), b, esc, len + 1)
  <1> DEFINE n == Len(s)
             t == Append(s, b)
  <1>1. n \in Nat /\ Len(t) = n + 1 /\ t[n + 1] = b /\ \A k \in 1..n : t[k] = s[k]
    OBVIOUS
  <1>2. MaxEscapeLen \in Nat
    BY SessionShellAssumption
  <1>3. /\ len < n /\ len < MaxEscapeLen /\ s[n - len] = "esc"
        /\ \A k \in (n - len + 1)..n : s[k] \notin {"esc", "letter"}
    BY DEF Reads
  <1> HIDE DEF n, t
  <1> DEFINE j == n - len
  <1>4. j \in 1..n /\ t[j] = "esc" /\ \A k \in (j + 1)..n : t[k] \notin {"esc", "letter"}
    BY <1>1, <1>3
  <1>5. (n + 1) - (len + 1) = j /\ b = t[n + 1] /\ n + 1 # 0
    BY <1>1, <1>3
  <1>6. CASE esc
    <2>1. b # "letter" /\ len + 1 < MaxEscapeLen /\ len + 1 < n + 1
      BY <1>1, <1>2, <1>3, <1>6
    <2>2. ASSUME NEW k \in (j + 1)..(n + 1) PROVE t[k] \notin {"esc", "letter"}
      <3>1. k \in (j + 1)..n \/ k = n + 1
        BY <1>1, <1>4
      <3> QED BY <1>1, <1>4, <2>1, <3>1
    <2> HIDE DEF j
    <2> QED BY <1>1, <1>4, <1>5, <1>6, <2>1, <2>2 DEF Reads, t
  <1>7. CASE ~esc
    <2>1. ASSUME NEW i \in 1..(n + 1), t[i] = "esc", (n + 2) - i <= MaxEscapeLen,
                 \A k \in (i + 1)..(n + 1) : t[k] \notin {"esc", "letter"}
          PROVE  FALSE
      <3>1. i # n + 1
        BY <1>1, <2>1
      <3>2. i \in 1..n /\ n + 1 \in (i + 1)..(n + 1)
        BY <1>1, <2>1, <3>1
      <3>3. b # "letter"
        BY <1>1, <2>1, <3>2
      <3>4. len + 1 >= MaxEscapeLen
        BY <1>7, <3>3
      <3>5. ~(i < j)
        BY <1>1, <1>4, <2>1
      <3>6. ~(i > j)
        BY <1>1, <1>4, <2>1, <3>2
      <3>7. i = j
        BY <1>1, <1>4, <3>2, <3>5, <3>6
      <3> QED BY <1>1, <1>2, <1>3, <2>1, <3>4, <3>7
    <2>2. (n + 2) - 1 = n + 1 /\ (n + 1) + 1 = n + 2
      BY <1>1
    <2>3. ~Inside(t, n + 2)
      BY <2>1, <2>2 DEF Inside
    <2>4. ~Inside(t, Len(t) + 1)
      BY <1>1, <2>2, <2>3
    <2> QED BY <1>1, <1>5, <1>7, <2>4 DEF Reads, t
  <1> QED BY <1>6, <1>7

\* A byte outside of a sequence, other than an escape, stays outside.
LEMMA ReadsPlain ==
    ASSUME NEW s \in Seq(AllBytes), NEW b \in AllBytes, b # "esc",
           NEW last, NEW len \in Nat, Reads(s, last, FALSE, len)
    PROVE  Reads(Append(s, b), b, FALSE, len)
  <1> DEFINE n == Len(s)
             t == Append(s, b)
  <1>1. n \in Nat /\ Len(t) = n + 1 /\ t[n + 1] = b /\ \A k \in 1..n : t[k] = s[k]
    OBVIOUS
  <1>2. MaxEscapeLen \in Nat
    BY SessionShellAssumption
  <1>3. ~Inside(s, n + 1)
    BY DEF Reads
  <1> HIDE DEF n, t
  <1>4. ASSUME NEW i \in 1..(n + 1), t[i] = "esc", (n + 2) - i <= MaxEscapeLen,
               \A k \in (i + 1)..(n + 1) : t[k] \notin {"esc", "letter"}
        PROVE  FALSE
    <2>1. i \in 1..((n + 1) - 1) /\ (n + 1) - i <= MaxEscapeLen
      BY <1>1, <1>2, <1>4
    <2>2. s[i] = "esc" /\ \A k \in (i + 1)..((n + 1) - 1) : s[k] \notin {"esc", "letter"}
      BY <1>1, <1>4, <2>1
    <2> QED BY <1>3, <2>1, <2>2, Zenon DEF Inside
  <1>5. (n + 2) - 1 = n + 1 /\ (n + 1) + 1 = n + 2
    BY <1>1
  <1>6. ~Inside(t, n + 2)
    BY <1>4, <1>5 DEF Inside
  <1>7. ~Inside(t, Len(t) + 1) /\ n + 1 # 0
    BY <1>1, <1>5, <1>6
  <1> QED BY <1>1, <1>7 DEF Reads, t

\* A step keeps the lines.
LEMMA LinesKept ==
    ASSUME ShellType, LinesInv, [Next]_vars
    PROVE  LinesInv'
  <1> DEFINE C(q) == Count(q, "newline")
  <1>a. /\ input \in Seq(AllBytes) /\ screen \in Seq(Shown)
        /\ escape_seq \in BOOLEAN /\ escape_len \in Nat
    BY DEF ShellType
  <1>b. Reads(input, last_byte, escape_seq, escape_len) /\ C(screen) = Cardinality(Ends(input))
    BY DEF LinesInv
  <1>c. SUFFICES /\ Reads(input', last_byte', escape_seq', escape_len')
                 /\ C(screen') = Cardinality(Ends(input'))
    BY DEF LinesInv
  <1>d. /\ "banner" \in Shown /\ "prompt" \in Shown /\ "newline" \in Shown /\ "response" \in Shown
        /\ "logout" \in Shown /\ "erase" \in Shown /\ "ctrl_c" \in Shown
    BY DEF Shown, AllBytes
  <1>g. \A q \in Seq(Shown) : \A x \in Shown :
          /\ Append(q, x) \in Seq(Shown) /\ C(q) \in Nat
          /\ x = "newline" => C(Append(q, x)) = C(q) + 1
          /\ x # "newline" => C(Append(q, x)) = C(q)
    <2> TAKE q \in Seq(Shown)
    <2> TAKE x \in Shown
    <2>1. C(q) \in Nat /\ C(Append(q, x)) = C(q) + (IF x = "newline" THEN 1 ELSE 0)
      BY CountAppend
    <2> HIDE DEF C
    <2> QED BY <2>1
  <1> HIDE DEF C
  <1>e. ASSUME NEW x \in Shown, x # "newline"
        PROVE  /\ C(screen \o <<x, "prompt">>) = C(screen)
               /\ C(screen \o <<x>>) = C(screen) /\ C(Append(screen, x)) = C(screen)
    <2> DEFINE s1 == Append(screen, x)
    <2>1. s1 \in Seq(Shown) /\ C(s1) = C(screen) /\ C(screen) \in Nat
      BY <1>a, <1>e, <1>g
    <2>2. C(Append(s1, "prompt")) = C(s1)
      BY <1>d, <1>g, <2>1, Zenon
    <2>3. screen \o <<x>> = s1 /\ screen \o <<x, "prompt">> = Append(s1, "prompt")
      BY <1>a, <1>d, <1>e, ConcatIsAppends
    <2> HIDE DEF s1
    <2> QED BY <2>1, <2>2, <2>3, Zenon DEF s1
  <1>f. ASSUME NEW x \in Shown, NEW y \in Shown, x # "newline", y # "newline"
        PROVE  /\ C(screen \o <<"newline", x>>) = C(screen) + 1
               /\ C(screen \o <<"newline", x, y>>) = C(screen) + 1
               /\ C(Append(screen, "newline")) = C(screen) + 1
    <2> DEFINE s1 == Append(screen, "newline")
               s2 == Append(s1, x)
    <2>1. s1 \in Seq(Shown) /\ C(s1) = C(screen) + 1 /\ C(screen) \in Nat
      BY <1>a, <1>d, <1>g
    <2>2. screen \o <<"newline", x>> = s2 /\ screen \o <<"newline", x, y>> = Append(s2, y)
      BY <1>a, <1>d, <1>f, ConcatIsAppends
    <2> HIDE DEF s1
    <2>3. s2 \in Seq(Shown) /\ C(s2) = C(s1)
      BY <1>f, <1>g, <2>1
    <2> HIDE DEF s2
    <2>4. C(Append(s2, y)) = C(s2)
      BY <1>f, <1>g, <2>3
    <2> QED BY <2>1, <2>2, <2>3, <2>4, Zenon DEF s1
  <1>1. CASE UNCHANGED editor /\ UNCHANGED input /\ C(screen') = C(screen)
    BY <1>1, <1>b, Zenon DEF editor
  <1>2. CASE ShellRequest \/ FetchDone
    <2>1. screen' = screen \o <<"banner", "prompt">> \/ screen' = screen \o <<"response", "prompt">>
      BY <1>2, Zenon DEF ShellRequest, FetchDone, Show
    <2>2. /\ C(screen \o <<"banner", "prompt">>) = C(screen)
          /\ C(screen \o <<"response", "prompt">>) = C(screen)
      BY <1>d, <1>e, Zenon
    <2>3. C(screen') = C(screen)
      BY <2>1, <2>2, Zenon
    <2> QED BY <1>1, <1>2, <2>3, Zenon DEF ShellRequest, FetchDone
  <1>3. CASE UNCHANGED vars \/ Data \/ ChannelClose \/ Drop \/ EndOfPacket
    <2>1. UNCHANGED editor /\ UNCHANGED input /\ screen' = screen
      BY <1>3 DEF vars, Data, ChannelClose, Drop, EndOfPacket
    <2> QED BY <1>1, <2>1
  <1>4. ASSUME Take
        PROVE  /\ Byte \in AllBytes /\ Byte \in Shown
               /\ input' = Append(input, Byte) /\ last_byte' = Byte
    BY <1>4, PacketType DEF Take
  \* The cardinality after the byte, as the editor sees it.
  <1> DEFINE K(q) == Cardinality(Ends(q))
  <1>5. ASSUME Take
        PROVE  /\ K(input) \in Nat
               /\ K(input') = K(input) +
                    (IF Byte \in {"cr", "lf"} /\ ~escape_seq /\ ~SecondOfPair THEN 1 ELSE 0)
    <2> DEFINE n == Len(input)
               ends == /\ Byte \in {"cr", "lf"} /\ ~Inside(input, n + 1)
                       /\ ~(n > 0 /\ Byte = "lf" /\ input[n] = "cr")
    <2>1. K(input) \in Nat /\ K(input') = K(input) + (IF ends THEN 1 ELSE 0)
      BY <1>4, <1>5, <1>a, EndsAppend, Zenon
    <2>2. Inside(input, n + 1) <=> escape_seq
      BY <1>a, <1>b, ReadsInside, Zenon
    <2>3. (n > 0 /\ input[n] = "cr") <=> last_byte = "cr"
      BY <1>a, <1>b DEF Reads
    <2>4. ends <=> Byte \in {"cr", "lf"} /\ ~escape_seq /\ ~SecondOfPair
      <3> HIDE DEF n
      <3> QED BY <2>2, <2>3, Zenon DEF SecondOfPair
    <2> HIDE DEF ends, K
    <2> QED BY <2>1, <2>4
  <1> HIDE DEF K
  <1>6. CASE Escape
    <2>1. Take /\ Byte = "esc" /\ escape_seq' = TRUE /\ escape_len' = 0 /\ screen' = screen
      BY <1>6 DEF Escape, Skip
    <2>2. Reads(input', last_byte', escape_seq', escape_len')
      BY <1>4, <1>a, <2>1, ReadsEscape, Zenon
    <2>3. K(input') = K(input)
      BY <1>5, <2>1
    <2> QED BY <1>b, <2>1, <2>2, <2>3, Zenon DEF K
  <1>7. CASE EscapeByte
    <2>1. /\ Take /\ Byte # "esc" /\ escape_seq /\ escape_len' = escape_len + 1
          /\ screen' = screen
      BY <1>7 DEF EscapeByte, Skip
    <2>2. /\ escape_seq' \in BOOLEAN
          /\ escape_seq' <=> ~(Byte = "letter" \/ escape_len + 1 >= MaxEscapeLen)
      BY <1>7, Zenon DEF EscapeByte, EscapeEnds
    <2>3. Reads(input, last_byte, TRUE, escape_len)
      BY <1>a, <1>b, <2>1, Zenon
    <2>4. Reads(Append(input, Byte), Byte, escape_seq', escape_len + 1)
      BY <1>4, <1>a, <2>1, <2>2, <2>3, ReadsEscapeByte, Zenon
    <2>5. K(input') = K(input)
      BY <1>5, <2>1
    <2> QED BY <1>4, <1>b, <2>1, <2>4, <2>5, Zenon DEF K
  <1>8. ASSUME Plain PROVE Take /\ ~escape_seq /\ Reads(input', last_byte', escape_seq', escape_len')
    <2>1. Take /\ Byte # "esc" /\ ~escape_seq /\ escape_seq' = escape_seq /\ escape_len' = escape_len
      BY <1>8 DEF Plain
    <2>2. escape_seq = FALSE
      BY <1>a, <2>1
    <2>3. Reads(input, last_byte, FALSE, escape_len)
      BY <1>b, <2>2, Zenon
    <2>4. Reads(Append(input, Byte), Byte, FALSE, escape_len)
      BY <1>4, <1>a, <2>1, <2>3, ReadsPlain, Zenon
    <2> QED BY <1>4, <2>1, <2>2, <2>4, Zenon
  <1>9. ASSUME EndLine, C(screen') = C(screen) + 1
        PROVE  /\ Reads(input', last_byte', escape_seq', escape_len')
               /\ C(screen') = Cardinality(Ends(input'))
    <2>1. Plain /\ Byte \in {"cr", "lf"} /\ ~SecondOfPair
      BY <1>9 DEF EndLine
    <2>2. K(input') = K(input) + 1
      BY <1>5, <1>8, <2>1
    <2>3. C(screen) = K(input)
      BY <1>b DEF K
    <2> QED BY <1>8, <1>9, <2>1, <2>2, <2>3 DEF K
  <1>10. ASSUME Plain, Byte \notin {"cr", "lf"} \/ SecondOfPair, C(screen') = C(screen)
         PROVE  /\ Reads(input', last_byte', escape_seq', escape_len')
                /\ C(screen') = Cardinality(Ends(input'))
    <2>1. K(input') = K(input)
      BY <1>5, <1>8, <1>10
    <2> QED BY <1>8, <1>10, <1>b, <2>1 DEF K
  <1>11. CASE BlankLine
    <2>1. EndLine /\ screen' = screen \o <<"newline", "prompt">>
      BY <1>11, Zenon DEF BlankLine, Show
    <2>2. C(screen') = C(screen) + 1
      BY <1>d, <1>f, <2>1, Zenon
    <2> QED BY <1>9, <2>1, <2>2
  <1>12. CASE RunCommand \/ RunExit \/ RunDownload
    <2>1. EndLine
      BY <1>12, Zenon DEF RunCommand, RunExit, RunDownload, CommandLine
    <2>2. \/ screen' = screen \o <<"newline", "response", "prompt">>
          \/ screen' = screen \o <<"newline", "logout">>
          \/ screen' = Append(screen, "newline")
      BY <1>12, Zenon DEF RunCommand, RunExit, RunDownload
    <2>3. C(screen') = C(screen) + 1
      BY <1>d, <1>f, <2>2, Zenon
    <2> QED BY <1>9, <2>1, <2>3
  <1>13. CASE SkipNewline \/ Ignore
    <2>1. Plain /\ screen' = screen /\ (SecondOfPair \/ Byte \notin {"cr", "lf"})
      BY <1>13 DEF SkipNewline, Ignore, Skip, Printable
    <2> QED BY <1>10, <2>1
  <1>14. CASE Backspace \/ CtrlC \/ CtrlD
    <2>1. Plain /\ Byte \notin {"cr", "lf"}
      BY <1>14 DEF Backspace, CtrlC, CtrlD
    <2>2. \/ screen' = screen \o <<"erase">> \/ screen' = screen \o <<"ctrl_c", "prompt">>
          \/ screen' = Append(screen, "logout")
      BY <1>14, Zenon DEF Backspace, CtrlC, CtrlD, Show
    <2>3. /\ C(screen \o <<"erase">>) = C(screen)
          /\ C(screen \o <<"ctrl_c", "prompt">>) = C(screen)
          /\ C(Append(screen, "logout")) = C(screen)
      BY <1>d, <1>e, Zenon
    <2>4. C(screen') = C(screen)
      BY <2>2, <2>3, Zenon
    <2> QED BY <1>10, <2>1, <2>4
  <1>15. CASE Type
    <2>1. Plain /\ Byte \notin {"cr", "lf"} /\ Byte # "newline" /\ screen' = screen \o <<Byte>>
      BY <1>15 DEF Type, Printable, Show
    <2>2. C(screen') = C(screen)
      BY <1>4, <1>8, <1>e, <2>1, Zenon
    <2> QED BY <1>10, <2>1, <2>2
  <1> QED BY <1>2, <1>3, <1>6, <1>7, <1>11, <1>12, <1>13, <1>14, <1>15, Zenon DEF Next, Callback

\* LinesAsTyped: the line discipline of the data callback keeps its state across
\* packets, so the lines it submits are those the whole input spells.
THEOREM LinesStayAsTyped == Spec => []LinesAsTyped
  <1>1. Init => LinesInv
    <2> SUFFICES ASSUME Init PROVE LinesInv
      OBVIOUS
    <2>1. input = <<>> /\ screen = <<>> /\ last_byte = "other" /\ escape_seq = FALSE
      BY DEF Init
    <2>2. Ends(<<>>) = {} /\ ~Inside(<<>>, Len(<<>>) + 1)
      BY DEF Ends, Inside
    <2>3. Reads(input, last_byte, escape_seq, escape_len)
      BY <2>1, <2>2 DEF Reads
    <2>4. Cardinality(Ends(input)) = 0
      BY <2>1, <2>2, FS_EmptySet
    <2>5. Count(screen, "newline") = 0
      BY <2>1, CountEmpty
    <2> QED BY <2>3, <2>4, <2>5 DEF LinesInv
  <1>2. Init => ShellType
    BY ShellTypeInit
  <1>3. ShellType /\ [Next]_vars => ShellType'
    BY ShellTypeKept
  <1>4. ShellType /\ LinesInv /\ [Next]_vars => LinesInv'
    BY LinesKept
  <1>5. LinesInv => LinesAsTyped
    <2>1. LineEnds = Ends(input)
      BY DEF LineEnds, InEscape, Ends, Inside
    <2> QED BY <2>1 DEF LinesInv, LinesAsTyped
  <1> QED BY <1>1, <1>2, <1>3, <1>4, <1>5, PTL DEF Spec

(***************************************************************************)
(* The replay.                                                             *)
(***************************************************************************)

\* The outputs of some records are the first things of a screen, or all of it.
Follows(all, scr) ==
    \A i \in Outputs(all) : Rank(all, i) <= Len(scr) /\ all[i].what = scr[Rank(all, i)]

Exact(all, scr) == Follows(all, scr) /\ Cardinality(Outputs(all)) = Len(scr)

Extends(scr, more) ==
    Len(scr) <= Len(more) /\ \A k \in 1..Len(scr) : more[k] = scr[k]

\* What a record is, and its place among the outputs, depend on those before it.
LEMMA RankPrefix ==
    ASSUME NEW s \in Seq(Record), NEW t \in Seq(Record), Extends(s, t), NEW i \in 1..Len(s)
    PROVE  /\ i \in Outputs(t) <=> i \in Outputs(s)
           /\ t[i] = s[i] /\ Rank(t, i) = Rank(s, i)
  <1>1. /\ Len(s) \in Nat /\ Len(t) \in Nat /\ Len(s) <= Len(t)
        /\ \A k \in 1..Len(s) : t[k] = s[k] /\ k \in 1..Len(t)
    BY DEF Extends
  <1>2. \A k \in 1..Len(s) : k \in Outputs(t) <=> k \in Outputs(s)
    BY <1>1 DEF Outputs
  <1>3. Outputs(s) \subseteq 1..Len(s) /\ Outputs(t) \subseteq 1..Len(t)
    BY DEF Outputs
  <1>4. \A j \in 1..Len(t) : j <= i => j \in 1..Len(s)
    BY <1>1
  <1>5. {j \in Outputs(t) : j <= i} = {j \in Outputs(s) : j <= i}
    BY <1>1, <1>2, <1>3, <1>4
  <1> QED BY <1>1, <1>2, <1>5, Zenon DEF Rank

\* The place of an output is one of the places there are.
LEMMA RankBounds ==
    ASSUME NEW s \in Seq(Record), NEW i \in Outputs(s)
    PROVE  /\ Rank(s, i) \in Nat /\ Rank(s, i) >= 1
           /\ IsFiniteSet(Outputs(s)) /\ Cardinality(Outputs(s)) \in Nat
  <1> DEFINE R == {j \in Outputs(s) : j <= i}
  <1>1. Outputs(s) \in SUBSET (1..Len(s)) /\ Len(s) \in Nat
    BY DEF Outputs
  <1>2. IsFiniteSet(1..Len(s))
    BY <1>1, FS_Interval
  <1>3. IsFiniteSet(Outputs(s))
    BY <1>1, <1>2, FS_Subset, Zenon
  <1>4. R \in SUBSET Outputs(s) /\ i \in R
    BY <1>1
  <1> HIDE DEF R
  <1>5. IsFiniteSet(R)
    BY <1>3, <1>4, FS_Subset, Zenon
  <1>6. Cardinality(R) \in Nat /\ Cardinality(R) # 0
    BY <1>4, <1>5, FS_CardinalityType, FS_EmptySet
  <1>7. Rank(s, i) = Cardinality(R)
    BY DEF Rank, R
  <1> QED BY <1>3, <1>6, <1>7, FS_CardinalityType

\* A prefix of a recording replays what the recording does.
LEMMA FollowsPrefix ==
    ASSUME NEW s \in Seq(Record), NEW t \in Seq(Record), Extends(s, t), NEW scr, Follows(t, scr)
    PROVE  Follows(s, scr)
  <1> SUFFICES ASSUME NEW i \in Outputs(s)
               PROVE  Rank(s, i) <= Len(scr) /\ s[i].what = scr[Rank(s, i)]
    BY DEF Follows
  <1>1. i \in 1..Len(s)
    BY DEF Outputs
  <1>2. i \in Outputs(t) /\ t[i] = s[i] /\ Rank(t, i) = Rank(s, i)
    BY <1>1, RankPrefix
  <1> QED BY <1>2 DEF Follows

\* A recording that has stopped stays right while the screen goes on.
LEMMA FollowsLonger ==
    ASSUME NEW s \in Seq(Record), NEW scr \in Seq(Shown), NEW more \in Seq(Shown),
           Follows(s, scr), Extends(scr, more)
    PROVE  Follows(s, more)
  <1> SUFFICES ASSUME NEW i \in Outputs(s)
               PROVE  Rank(s, i) <= Len(more) /\ s[i].what = more[Rank(s, i)]
    BY DEF Follows
  <1> DEFINE k == Rank(s, i)
  <1>1. k \in Nat /\ k >= 1
    BY RankBounds
  <1>2. k <= Len(scr) /\ s[i].what = scr[k]
    BY DEF Follows
  <1> HIDE DEF k
  <1>3. Len(scr) \in Nat /\ Len(more) \in Nat /\ Len(scr) <= Len(more)
    BY DEF Extends
  <1>4. k \in 1..Len(scr) /\ k <= Len(more)
    BY <1>1, <1>2, <1>3
  <1>5. more[k] = scr[k]
    BY <1>4 DEF Extends
  <1> QED BY <1>2, <1>4, <1>5 DEF k

\* One more record is one more output, or none.
LEMMA OutputsAppend ==
    ASSUME NEW s \in Seq(Record), NEW r \in Record
    PROVE  LET t == Append(s, r)
               out == r.kind = "o" /\ r # Truncation
           IN  /\ t \in Seq(Record) /\ Extends(s, t) /\ Len(t) = Len(s) + 1
               /\ Outputs(t) = Outputs(s) \cup (IF out THEN {Len(s) + 1} ELSE {})
               /\ Cardinality(Outputs(s)) \in Nat
               /\ Cardinality(Outputs(t)) = Cardinality(Outputs(s)) + (IF out THEN 1 ELSE 0)
               /\ out => Rank(t, Len(s) + 1) = Cardinality(Outputs(t)) /\ t[Len(s) + 1] = r
  <1> DEFINE n == Len(s)
             t == Append(s, r)
             out == r.kind = "o" /\ r # Truncation
  <1>1. /\ n \in Nat /\ t \in Seq(Record) /\ Len(t) = n + 1 /\ t[n + 1] = r
        /\ \A k \in 1..n : t[k] = s[k]
    OBVIOUS
  <1>2. Extends(s, t)
    BY <1>1 DEF Extends
  <1> HIDE DEF t
  <1>3. \A k \in 1..n : k \in Outputs(t) <=> k \in Outputs(s)
    BY <1>1, <1>2, RankPrefix, Zenon
  <1>4. n + 1 \in Outputs(t) <=> out
    BY <1>1 DEF Outputs
  <1>5. Outputs(s) \subseteq 1..n /\ Outputs(t) \subseteq 1..(n + 1)
    BY <1>1 DEF Outputs
  <1> HIDE DEF n, out
  <1>6. \A i : i \in Outputs(t) <=> i \in Outputs(s) \/ (out /\ i = n + 1)
    <2>1. \A i \in 1..(n + 1) : i \in 1..n \/ i = n + 1
      BY <1>1
    <2>2. \A i \in 1..n : i \in 1..(n + 1) /\ i # n + 1
      BY <1>1
    <2> QED BY <1>3, <1>4, <1>5, <2>1, <2>2, Zenon
  <1>7. Outputs(t) = Outputs(s) \cup (IF out THEN {n + 1} ELSE {})
    BY <1>6
  <1>8. n + 1 \notin Outputs(s)
    BY <1>1, <1>5
  <1>9. Outputs(t) = Outputs(s) \/ Outputs(t) = Outputs(s) \cup {n + 1}
    BY <1>7
  <1>10. /\ Cardinality(Outputs(s)) \in Nat
         /\ Cardinality(Outputs(t))
              = Cardinality(Outputs(s)) + (IF Outputs(t) = Outputs(s) THEN 0 ELSE 1)
    BY <1>1, <1>5, <1>9, OneMore, Zenon
  <1>11. (Outputs(t) = Outputs(s)) <=> ~out
    BY <1>6, <1>7, <1>8
  <1>12. {j \in Outputs(t) : j <= n + 1} = Outputs(t)
    BY <1>1, <1>5
  <1>13. Rank(t, n + 1) = Cardinality(Outputs(t))
    BY <1>12, Zenon DEF Rank
  <1>14. Cardinality(Outputs(t)) = Cardinality(Outputs(s)) + (IF out THEN 1 ELSE 0)
    BY <1>10, <1>11
  <1> QED BY <1>1, <1>2, <1>7, <1>10, <1>13, <1>14, Zenon DEF n, t, out

\* An output that is shown is recorded in its place.
LEMMA ExactOutput ==
    ASSUME NEW s \in Seq(Record), NEW scr \in Seq(Shown), Exact(s, scr),
           NEW w \in Shown, w # "truncated"
    PROVE  Exact(Append(s, Out(w)), Append(scr, w))
  <1> DEFINE n == Len(s)
             r == Out(w)
             t == Append(s, r)
             more == Append(scr, w)
  <1>1. r \in Record /\ r.kind = "o" /\ r # Truncation /\ r.what = w
    BY DEF Out, Truncation, Record
  <1>2. /\ Len(scr) \in Nat /\ more \in Seq(Shown) /\ Len(more) = Len(scr) + 1
        /\ more[Len(scr) + 1] = w /\ Extends(scr, more)
    BY DEF Extends
  <1> HIDE DEF r, more
  <1>3. /\ t \in Seq(Record) /\ Extends(s, t)
        /\ Outputs(t) = Outputs(s) \cup {n + 1}
        /\ Cardinality(Outputs(s)) \in Nat
        /\ Cardinality(Outputs(t)) = Cardinality(Outputs(s)) + 1
        /\ Rank(t, n + 1) = Cardinality(Outputs(t)) /\ t[n + 1] = r
    BY <1>1, OutputsAppend
  <1> HIDE DEF t, n
  <1>4. Cardinality(Outputs(t)) = Len(more) /\ Len(more) = Len(scr) + 1
    BY <1>2, <1>3 DEF Exact
  <1>5. Follows(s, more)
    BY <1>2, FollowsLonger DEF Exact
  <1>6. ASSUME NEW i \in Outputs(t)
        PROVE  Rank(t, i) <= Len(more) /\ t[i].what = more[Rank(t, i)]
    <2>1. CASE i = n + 1
      BY <1>1, <1>2, <1>3, <1>4, <2>1
    <2>2. CASE i \in Outputs(s)
      <3>1. i \in 1..Len(s)
        BY <2>2 DEF Outputs
      <3>2. t[i] = s[i] /\ Rank(t, i) = Rank(s, i)
        BY <1>3, <3>1, RankPrefix, Zenon
      <3> QED BY <1>5, <2>2, <3>2 DEF Follows
    <2> QED BY <1>3, <2>1, <2>2
  <1> QED BY <1>4, <1>6, Zenon DEF Exact, Follows, t, r, more

\* A record of what was typed is no output.
LEMMA ExactInput ==
    ASSUME NEW s \in Seq(Record), NEW scr \in Seq(Shown), NEW r \in Record,
           r.kind # "o" \/ r = Truncation
    PROVE  /\ Exact(s, scr) => Exact(Append(s, r), scr)
           /\ Follows(s, scr) => Follows(Append(s, r), scr)
  <1> DEFINE t == Append(s, r)
  <1>1. /\ t \in Seq(Record) /\ Extends(s, t) /\ Outputs(t) = Outputs(s)
        /\ Cardinality(Outputs(t)) = Cardinality(Outputs(s))
    BY OutputsAppend, Zenon
  <1> HIDE DEF t
  <1>2. ASSUME Follows(s, scr), NEW i \in Outputs(t)
        PROVE  Rank(t, i) <= Len(scr) /\ t[i].what = scr[Rank(t, i)]
    <2>1. i \in Outputs(s) /\ i \in 1..Len(s)
      BY <1>1 DEF Outputs
    <2>2. t[i] = s[i] /\ Rank(t, i) = Rank(s, i)
      BY <1>1, <2>1, RankPrefix, Zenon
    <2> QED BY <1>2, <2>1, <2>2 DEF Follows
  <1>3. Follows(s, scr) => Follows(t, scr)
    BY <1>2 DEF Follows
  <1> QED BY <1>1, <1>3 DEF Exact, t

\* All a recorder holds, on disk and in its buffer.
Held(r) == r.cast \o r.buffered

Replays(r, scr) ==
    Follows(Held(r), scr) /\ (~r.truncated => Cardinality(Outputs(Held(r))) = Len(scr))

\* write_record: what is recorded follows what is shown, whether it fits or not.
LEMMA RecordedReplays ==
    ASSUME NEW r \in Recorder, NEW records \in Seq(Record),
           NEW scr \in Seq(Shown), NEW more \in Seq(Shown), Extends(scr, more),
           Replays(r, scr), Exact(Held(r), scr) => Exact(Held(r) \o records, more)
    PROVE  Replays(Recorded(r, records), more)
  <1> DEFINE q == Recorded(r, records)
             all == Held(r) \o records
  <1>1. /\ r.cast \in Seq(Record) /\ r.buffered \in Seq(Record) /\ r.truncated \in BOOLEAN
        /\ Held(r) \in Seq(Record)
    BY DEF Recorder, Held
  <1>2. all \in Seq(Record) /\ Len(all) \in Nat /\ CastCap \in Nat
    BY <1>1, SessionShellAssumption
  <1>3. all = r.cast \o (r.buffered \o records)
    <2> DEFINE c == r.cast
               b == r.buffered
    <2>1. c \in Seq(Record) /\ b \in Seq(Record)
      BY <1>1
    <2> HIDE DEF c, b
    <2>2. (c \o b) \o records = c \o (b \o records)
      BY <2>1, ConcatAssociative
    <2> QED BY <2>2 DEF Held, c, b
  <1>4. CASE r.truncated
    <2>1. q = r
      BY <1>4 DEF Recorded
    <2>2. Follows(Held(r), more)
      BY <1>1, FollowsLonger DEF Replays
    <2> HIDE DEF q
    <2> QED BY <1>4, <2>1, <2>2 DEF Replays, q
  <1>5. CASE ~r.truncated
    <2>1. Exact(all, more)
      BY <1>5 DEF Replays, Exact
    <2>2. CASE Len(all) <= CastCap
      <3>1. q = [r EXCEPT !.buffered = r.buffered \o records]
        BY <1>5, <2>2 DEF Recorded, Held
      <3>2. q.cast = r.cast /\ q.buffered = r.buffered \o records
        BY <1>1, <3>1 DEF Recorder
      <3> HIDE DEF q
      <3>3. Held(q) = all
        BY <1>3, <3>2 DEF Held
      <3> HIDE DEF all
      <3> QED BY <2>1, <3>3 DEF Replays, Exact, q
    <2>3. CASE ~(Len(all) <= CastCap)
      <3> DEFINE head == SubSeq(all, 1, CastCap)
      <3>1. q = [cast |-> Append(head, Truncation), buffered |-> <<>>, truncated |-> TRUE]
        BY <1>5, <2>3 DEF Recorded, Held
      <3> HIDE DEF all, q
      <3>2. head \in Seq(Record) /\ Len(head) = CastCap /\ \A k \in 1..CastCap : head[k] = all[k]
        BY <1>2, <2>3
      <3>3. Extends(head, all)
        BY <1>2, <2>3, <3>2 DEF Extends
      <3> HIDE DEF head
      <3>4. Follows(head, more)
        BY <1>2, <2>1, <3>2, <3>3, FollowsPrefix, Zenon DEF Exact
      <3>5. Truncation \in Record
        BY DEF Truncation, Out, Record, Shown
      <3>6. Follows(Append(head, Truncation), more)
        BY <3>2, <3>4, <3>5, ExactInput, Zenon
      <3>7. Append(head, Truncation) \in Seq(Record)
        BY <3>2, <3>5
      <3>8. q.cast = Append(head, Truncation) /\ q.buffered = <<>> /\ q.truncated
        BY <3>1
      <3>9. Held(q) = Append(head, Truncation)
        BY <3>7, <3>8 DEF Held
      <3> QED BY <3>6, <3>8, <3>9 DEF Replays, q
    <2> QED BY <2>2, <2>3
  <1> QED BY <1>1, <1>4, <1>5

\* A flush moves records and adds none.
LEMMA FlushedHolds ==
    ASSUME NEW r \in Recorder
    PROVE  Held(Flushed(r)) = Held(r) /\ Flushed(r).truncated = r.truncated
  <1>1. r.cast \o r.buffered \in Seq(Record)
    BY DEF Recorder
  <1>2. Flushed(r).cast = r.cast \o r.buffered /\ Flushed(r).buffered = <<>>
        /\ Flushed(r).truncated = r.truncated
    BY DEF Flushed, Recorder
  <1> QED BY <1>1, <1>2 DEF Held

\* The outputs of each step of the handler, shown and recorded.
LEMMA ExactSteps ==
    ASSUME NEW s \in Seq(Record), NEW scr \in Seq(Shown), Exact(s, scr)
    PROVE  /\ \A a \in Shown \ {"truncated"} : Exact(s \o <<Out(a)>>, scr \o <<a>>)
           /\ \A a, b \in Shown \ {"truncated"} : Exact(s \o <<Out(a), Out(b)>>, scr \o <<a, b>>)
           /\ Exact(s \o RunRecords, Append(scr, "newline"))
           /\ Exact(s \o Append(RunRecords, Out("logout")), scr \o <<"newline", "logout">>)
           /\ Exact(s \o (RunRecords \o <<Out("response"), Out("prompt")>>),
                    scr \o <<"newline", "response", "prompt">>)
  <1> DEFINE W == Shown \ {"truncated"}
  <1>1. \A w \in Shown : Out(w) \in Record /\ In(w) \in Record /\ In(w).kind # "o"
    BY DEF Out, In, Record
  <1>2. /\ "newline" \in W /\ "logout" \in W /\ "response" \in W /\ "prompt" \in W
        /\ "command" \in Shown
    BY DEF Shown
  <1>3. \A q \in Seq(Record), p \in Seq(Shown), w \in W :
          /\ Append(q, Out(w)) \in Seq(Record) /\ Append(p, w) \in Seq(Shown)
          /\ Exact(q, p) => Exact(Append(q, Out(w)), Append(p, w))
    <2> SUFFICES ASSUME NEW q \in Seq(Record), NEW p \in Seq(Shown), NEW w \in W
                 PROVE  /\ Append(q, Out(w)) \in Seq(Record) /\ Append(p, w) \in Seq(Shown)
                        /\ Exact(q, p) => Exact(Append(q, Out(w)), Append(p, w))
      BY Zenon
    <2>1. w \in Shown /\ w # "truncated" /\ Out(w) \in Record
      BY <1>1
    <2>2. Append(q, Out(w)) \in Seq(Record) /\ Append(p, w) \in Seq(Shown)
      BY <2>1
    <2> QED BY <2>1, <2>2, ExactOutput, Zenon
  <1> HIDE DEF W
  <1>w. \A w \in W : w \in Shown
    BY DEF W
  <1>4. ASSUME NEW a \in W, NEW b \in W
        PROVE  Exact(s \o <<Out(a)>>, scr \o <<a>>) /\ Exact(s \o <<Out(a), Out(b)>>, scr \o <<a, b>>)
    <2>1. Exact(Append(s, Out(a)), Append(scr, a))
      BY <1>3
    <2>2. Exact(Append(Append(s, Out(a)), Out(b)), Append(Append(scr, a), b))
      BY <1>3, <2>1, Zenon
    <2>3. scr \o <<a>> = Append(scr, a) /\ scr \o <<a, b>> = Append(Append(scr, a), b)
      BY <1>w, ConcatIsAppends
    <2> DEFINE x == Out(a)
               y == Out(b)
    <2>4. x \in Record /\ y \in Record
      BY <1>1, <1>w
    <2> HIDE DEF x, y
    <2>5. s \o <<x>> = Append(s, x) /\ s \o <<x, y>> = Append(Append(s, x), y)
      BY <2>4, ConcatIsAppends
    <2> QED BY <2>1, <2>2, <2>3, <2>5, Zenon DEF x, y
  \* The command line: what was typed is recorded after the newline.
  <1> DEFINE nl == Out("newline")
             cmd == In("command")
             s2 == Append(Append(s, nl), cmd)
             p2 == Append(scr, "newline")
  <1>5. s2 \in Seq(Record) /\ p2 \in Seq(Shown) /\ Exact(s2, p2)
    <2>1. Append(s, nl) \in Seq(Record) /\ p2 \in Seq(Shown) /\ Exact(Append(s, nl), p2)
      BY <1>2, <1>3
    <2>2. cmd \in Record /\ cmd.kind # "o"
      BY <1>1, <1>2
    <2> HIDE DEF cmd, nl, p2
    <2>3. s2 \in Seq(Record)
      BY <2>1, <2>2
    <2> QED BY <2>1, <2>2, <2>3, ExactInput, Zenon
  <1>6. nl \in Record /\ cmd \in Record /\ Out("logout") \in Record /\ Out("response") \in Record
        /\ Out("prompt") \in Record /\ RunRecords = <<nl, cmd>>
    BY <1>1, <1>2, <1>w DEF RunRecords
  <1> DEFINE lo == Out("logout")
             re == Out("response")
             pr == Out("prompt")
  <1>7. Exact(Append(s2, lo), Append(p2, "logout"))
    BY <1>2, <1>3, <1>5, Zenon
  <1>8. Exact(Append(Append(s2, re), pr), Append(Append(p2, "response"), "prompt"))
    <2> HIDE DEF s2, p2
    <2>1. /\ Append(s2, re) \in Seq(Record) /\ Append(p2, "response") \in Seq(Shown)
          /\ Exact(Append(s2, re), Append(p2, "response"))
      BY <1>2, <1>3, <1>5, Zenon
    <2> QED BY <1>2, <1>3, <2>1, Zenon
  <1>9. /\ scr \o <<"newline", "logout">> = Append(p2, "logout")
        /\ scr \o <<"newline", "response", "prompt">> = Append(Append(p2, "response"), "prompt")
    BY <1>2, <1>w, ConcatIsAppends
  <1> HIDE DEF nl, cmd, lo, re, pr
  <1>10. s \o RunRecords = s2
    BY <1>6, ConcatIsAppends
  <1>11. lo \in Record /\ re \in Record /\ pr \in Record /\ RunRecords \in Seq(Record)
    BY <1>6, RunType DEF lo, re, pr
  <1> HIDE DEF s2
  <1>12. /\ s \o Append(RunRecords, lo) = Append(s2, lo)
         /\ s \o (RunRecords \o <<re, pr>>) = Append(Append(s2, re), pr)
    <2>1. <<lo>> \in Seq(Record) /\ <<re, pr>> \in Seq(Record)
      BY <1>11
    <2>2. Append(RunRecords, lo) = RunRecords \o <<lo>>
      BY <1>11, AppendIsConcat
    <2>3. \A t \in Seq(Record) : s \o (RunRecords \o t) = (s \o RunRecords) \o t
      <3> TAKE t \in Seq(Record)
      <3> HIDE DEF RunRecords
      <3> QED BY <1>11, ConcatAssociative
    <2>4. s2 \o <<lo>> = Append(s2, lo) /\ s2 \o <<re, pr>> = Append(Append(s2, re), pr)
      BY <1>5, <1>11, ConcatIsAppends
    <2> QED BY <1>10, <2>1, <2>2, <2>3, <2>4, ZenonT(30)
  <1>13. Exact(s \o RunRecords, p2)
    BY <1>5, <1>10, Zenon
  <1>14. Exact(s \o Append(RunRecords, lo), scr \o <<"newline", "logout">>)
    BY <1>7, <1>9, <1>12, Zenon
  <1>15. Exact(s \o (RunRecords \o <<re, pr>>), scr \o <<"newline", "response", "prompt">>)
    BY <1>8, <1>9, <1>12, Zenon
  <1> QED BY <1>4, <1>13, <1>14, <1>15, Zenon DEF W, lo, re, pr

\* Whatever is sent goes after what was.
LEMMA ConcatExtends ==
    ASSUME NEW scr \in Seq(Shown), NEW more \in Seq(Shown)
    PROVE  scr \o more \in Seq(Shown) /\ Extends(scr, scr \o more)
  BY ConcatProperties DEF Extends

\* A step keeps the replay true to the screen.
LEMMA ReplayKept ==
    ASSUME ShellType, pc # "dropped" => Replays(rec, screen), [Next]_vars
    PROVE  pc' # "dropped" => Replays(rec', screen')
  <1>a. rec \in Recorder /\ screen \in Seq(Shown) /\ Held(rec) \in Seq(Record)
    BY DEF ShellType, Recorder, Held
  <1>b. ASSUME NEW records \in Seq(Record), NEW outputs \in Seq(Shown), pc # "dropped",
               Exact(Held(rec), screen) => Exact(Held(rec) \o records, screen \o outputs)
        PROVE  Replays(Recorded(rec, records), screen \o outputs)
    <2>1. screen \o outputs \in Seq(Shown) /\ Extends(screen, screen \o outputs)
      BY <1>a, ConcatExtends
    <2> QED BY <1>a, <1>b, <2>1, RecordedReplays, Zenon
  <1>c. \A w \in Shown : Out(w) \in Record
    BY DEF Out, Record
  <1>d. /\ "banner" \in Shown /\ "prompt" \in Shown /\ "newline" \in Shown /\ "response" \in Shown
        /\ "logout" \in Shown /\ "erase" \in Shown /\ "ctrl_c" \in Shown
    BY DEF Shown, AllBytes
  <1>e. ASSUME NEW a \in Shown, a # "truncated", pc # "dropped"
        PROVE  Replays(Recorded(rec, <<Out(a)>>), screen \o <<a>>)
    <2>1. <<Out(a)>> \in Seq(Record) /\ <<a>> \in Seq(Shown)
      BY <1>c
    <2>2. Exact(Held(rec), screen) => Exact(Held(rec) \o <<Out(a)>>, screen \o <<a>>)
      BY <1>a, <1>e, ExactSteps
    <2> QED BY <1>b, <1>e, <2>1, <2>2, Zenon
  <1>f. ASSUME NEW a \in Shown, NEW b \in Shown, a # "truncated", b # "truncated", pc # "dropped"
        PROVE  Replays(Recorded(rec, <<Out(a), Out(b)>>), screen \o <<a, b>>)
    <2>1. <<Out(a), Out(b)>> \in Seq(Record) /\ <<a, b>> \in Seq(Shown)
      BY <1>c
    <2>2. Exact(Held(rec), screen) => Exact(Held(rec) \o <<Out(a), Out(b)>>, screen \o <<a, b>>)
      BY <1>a, <1>f, ExactSteps
    <2> QED BY <1>b, <1>f, <2>1, <2>2, Zenon
  <1>g. ASSUME NEW r \in Recorder, NEW scr, NEW sent, Replays(r, scr), Teardown(sent, r)
        PROVE  Replays(rec', scr)
    <2>1. rec' = r \/ rec' = Flushed(r)
      BY <1>g DEF Teardown
    <2>2. Replays(Flushed(r), scr)
      BY <1>g, FlushedHolds DEF Replays
    <2> QED BY <1>g, <2>1, <2>2, Zenon
  <1>1. CASE UNCHANGED <<pc, rec, screen>>
    BY <1>1
  <1>2. CASE ShellRequest \/ FetchDone \/ BlankLine \/ CtrlC
    <2>1. PICK a \in {"banner", "response", "newline", "ctrl_c"} : Show(<<a, "prompt">>)
      BY <1>2, Zenon DEF ShellRequest, FetchDone, BlankLine, CtrlC
    <2>2. /\ screen' = screen \o <<a, "prompt">>
          /\ rec' = Recorded(rec, <<Out(a), Out("prompt")>>)
      BY <2>1, ShownRecords, Zenon DEF Show
    <2>3. pc # "dropped"
      BY <1>2 DEF ShellRequest, FetchDone, BlankLine, CtrlC, EndLine, Plain, Take
    <2>4. a \in Shown /\ a # "truncated"
      BY <1>d
    <2> QED BY <1>d, <1>f, <2>2, <2>3, <2>4
  <1>3. CASE Backspace \/ Type
    <2>1. PICK a : /\ Show(<<a>>)
                   /\ a = "erase" \/ (a = Byte /\ Byte \in Printable)
      BY <1>3, Zenon DEF Backspace, Type
    <2>2. screen' = screen \o <<a>> /\ rec' = Recorded(rec, <<Out(a)>>)
      BY <2>1, ShownRecords, Zenon DEF Show
    <2>3. pc # "dropped"
      BY <1>3 DEF Backspace, Type, Plain, Take
    <2>4. a \in Shown /\ a # "truncated"
      BY <1>d, <2>1 DEF Printable, AllBytes, Shown
    <2> QED BY <1>e, <2>2, <2>3, <2>4
  <1>4. CASE Data
    BY <1>4 DEF Data
  <1>5. CASE ChannelClose
    BY <1>5, <1>a, <1>g DEF ChannelClose
  <1>6. CASE Drop
    BY <1>6 DEF Drop
  <1>7. CASE EndOfPacket
    BY <1>7, <1>a, FlushedHolds DEF EndOfPacket, Replays
  <1>8. CASE Escape \/ EscapeByte \/ SkipNewline \/ Ignore
    BY <1>1, <1>8 DEF Escape, EscapeByte, SkipNewline, Ignore, Skip
  <1>9. ASSUME CommandLine PROVE pc # "dropped"
    BY <1>9 DEF CommandLine, EndLine, Plain, Take
  <1>10. /\ <<"newline", "response", "prompt">> \in Seq(Shown)
         /\ <<"newline", "logout">> \in Seq(Shown) /\ <<"newline">> \in Seq(Shown)
    BY <1>d
  <1>11. CASE RunCommand
    <2> DEFINE records == RunRecords \o <<Out("response"), Out("prompt")>>
               outputs == <<"newline", "response", "prompt">>
    <2>1. rec' = Recorded(rec, records) /\ screen' = screen \o outputs /\ pc # "dropped"
      BY <1>9, <1>11, Zenon DEF RunCommand
    <2>2. Exact(Held(rec), screen) => Exact(Held(rec) \o records, screen \o outputs)
      BY <1>a, ExactSteps, Zenon
    <2>3. records \in Seq(Record)
      BY RunType
    <2> HIDE DEF records, outputs
    <2> QED BY <1>10, <1>b, <2>1, <2>2, <2>3, Zenon DEF outputs
  <1>12. CASE RunExit
    <2> DEFINE records == Append(RunRecords, Out("logout"))
               outputs == <<"newline", "logout">>
    <2>1. Teardown(RunEvents, Recorded(rec, records)) /\ screen' = screen \o outputs /\ pc # "dropped"
      BY <1>9, <1>12, Zenon DEF RunExit
    <2>2. Exact(Held(rec), screen) => Exact(Held(rec) \o records, screen \o outputs)
      BY <1>a, ExactSteps, Zenon
    <2>3. records \in Seq(Record)
      BY RunType
    <2> HIDE DEF records, outputs
    <2>4. Replays(Recorded(rec, records), screen \o outputs) /\ Recorded(rec, records) \in Recorder
      BY <1>10, <1>a, <1>b, <2>1, <2>2, <2>3, RecorderType, ZenonT(30) DEF outputs
    <2> QED BY <1>g, <2>1, <2>4, Zenon
  <1>13. CASE RunDownload
    <2>1. rec' = Recorded(rec, RunRecords) /\ screen' = Append(screen, "newline") /\ pc # "dropped"
      BY <1>9, <1>13, Zenon DEF RunDownload
    <2>2. Append(screen, "newline") = screen \o <<"newline">>
      BY <1>a, <1>d, AppendIsConcat
    <2>3. Exact(Held(rec), screen) => Exact(Held(rec) \o RunRecords, screen \o <<"newline">>)
      BY <1>a, <2>2, ExactSteps, Zenon
    <2> QED BY <1>10, <1>b, <2>1, <2>2, <2>3, RunType, Zenon
  <1>14. CASE CtrlD
    <2>1. /\ Teardown(events, Recorded(rec, <<Out("logout")>>)) /\ screen' = Append(screen, "logout")
          /\ pc # "dropped"
      BY <1>14 DEF CtrlD, Plain, Take
    <2>2. Append(screen, "logout") = screen \o <<"logout">>
      BY <1>a, <1>d, AppendIsConcat
    <2>3. Replays(Recorded(rec, <<Out("logout")>>), screen \o <<"logout">>)
      BY <1>d, <1>e, <2>1
    <2>4. Recorded(rec, <<Out("logout")>>) \in Recorder
      BY <1>a, RunType, RecorderType, Zenon
    <2> QED BY <1>g, <2>1, <2>2, <2>3, <2>4, ZenonT(30)
  <1>15. CASE UNCHANGED vars
    BY <1>1, <1>15 DEF vars
  <1> QED BY <1>2, <1>3, <1>4, <1>5, <1>6, <1>7, <1>8, <1>11, <1>12, <1>13, <1>14, <1>15, ZenonT(30)
          DEF Next, Callback

\* ReplayFollowsScreen: send_output shows and records in the same order, the cap
\* cuts the recording at a record, and a drop loses only its end.
THEOREM ReplayIsFaithful == Spec => []ReplayFollowsScreen
  <1> DEFINE RInv == Follows(Held(rec), screen) /\ (pc # "dropped" => Replays(rec, screen))
  <1>1. RInv => ReplayFollowsScreen
    BY Zenon DEF ReplayFollowsScreen, Follows, Replays, Held
  <1>2. Init => RInv
    <2> SUFFICES ASSUME Init PROVE RInv
      OBVIOUS
    <2>1. Held(rec) = <<>> /\ screen = <<>>
      BY DEF Init, Held
    <2>2. Outputs(<<>>) = {}
      BY DEF Outputs
    <2>3. Cardinality(Outputs(Held(rec))) = Len(screen)
      BY <2>1, <2>2, FS_EmptySet
    <2>4. Follows(Held(rec), screen)
      BY <2>1, <2>2 DEF Follows
    <2> QED BY <2>3, <2>4 DEF Replays
  <1>3. ShellType /\ RInv /\ [Next]_vars => RInv'
    <2> SUFFICES ASSUME ShellType, RInv, [Next]_vars PROVE RInv'
      OBVIOUS
    <2>1. pc' # "dropped" => Replays(rec', screen')
      BY ReplayKept, Zenon
    <2>2. CASE pc' # "dropped"
      BY <2>1, <2>2 DEF Replays
    <2>3. CASE Drop
      <3> DEFINE c == rec.cast
                 b == rec.buffered
      <3>1. c \in Seq(Record) /\ b \in Seq(Record) /\ rec \in Recorder
        BY DEF ShellType, Recorder
      <3>2. rec'.cast = c /\ rec'.buffered = <<>> /\ screen' = screen /\ pc' = "dropped"
        BY <2>3, <3>1 DEF Drop, Recorder
      <3>3. Held(rec) = c \o b
        BY DEF Held
      <3> HIDE DEF c, b
      <3>4. c \o b \in Seq(Record) /\ Extends(c, c \o b)
        BY <3>1, ConcatProperties DEF Extends
      <3>5. Follows(c, screen)
        BY <3>1, <3>3, <3>4, FollowsPrefix, Zenon
      <3>6. c \o <<>> = c
        BY <3>1
      <3>7. Held(rec') = c
        BY <3>2, <3>6 DEF Held
      <3> QED BY <3>2, <3>5, <3>7
    <2>4. CASE UNCHANGED <<pc, rec, screen>>
      BY <2>4
    <2>5. \/ pc' # "dropped" \/ Drop \/ UNCHANGED <<pc, rec, screen>>
      BY Zenon DEF Next, Callback, vars, ShellRequest, Data, ChannelClose, Escape, EscapeByte,
             SkipNewline, BlankLine, RunCommand, RunExit, RunDownload, FetchDone, Backspace, CtrlC,
             CtrlD, Type, Ignore, EndOfPacket, CommandLine, EndLine, Plain, Take, Skip
    <2> QED BY <2>2, <2>3, <2>4, <2>5, Zenon
  <1>4. Init => ShellType
    BY ShellTypeInit
  <1>5. ShellType /\ [Next]_vars => ShellType'
    BY ShellTypeKept
  <1> QED BY <1>1, <1>2, <1>3, <1>4, <1>5, PTL DEF Spec
=============================================================================
