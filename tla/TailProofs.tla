----------------------------- MODULE TailProofs -----------------------------
(***************************************************************************)
(* What the dashboard's tailer makes of the log, for any number of events, *)
(* any sizes of their lines, any chunks read and any number of deaths of   *)
(* the two processes: every event at most once and in order, and if no     *)
(* write fails nothing but what was written as a line.                     *)
(***************************************************************************)
EXTENDS LogTail, CollectorProofs, FiniteSetTheorems

\* The provers of a leaf that names none, in turn, and the seconds each has.
USE SMTT(20), ZenonT(20), Z3T(20)

-----------------------------------------------------------------------------
(* The order of the log *)

\* The bytes of events come in the order of the events, and those of one event
\* lie within the length of its line.
Ordered ==
    /\ \A i, j \in 1..Len(stream) :
          i < j /\ stream[i] # 0 /\ stream[j] # 0 => stream[i] <= stream[j]
    /\ \A i, j \in 1..Len(stream) :
          stream[i] # 0 /\ stream[j] = stream[i] => j - i < Size[stream[i]]

\* What waits in the channel or is about to be written comes after all that was
\* written, and in order.
Queued ==
    /\ \A i \in 1..Len(stream) :
          /\ stream[i] <= sent
          /\ pc = "write" => stream[i] < hand[1]
          /\ \A k \in 1..Len(chan) : stream[i] < chan[k]
    /\ \A k \in 1..Len(chan) : chan[k] <= sent /\ \A j \in 1..(k - 1) : chan[j] < chan[k]
    /\ pc = "write" => hand[1] <= sent /\ \A k \in 1..Len(chan) : hand[1] < chan[k]

StreamInv == Ordered /\ Queued /\ (Exists(0) => files[0].hi = Len(stream))

\* What holds of the elements of two sequences holds of those of both together.
LEMMA ConcatIn ==
  ASSUME NEW S, NEW s \in Seq(S), NEW t \in Seq(S), NEW A,
         \A i \in 1..Len(s) : s[i] \in A, \A i \in 1..Len(t) : t[i] \in A
  PROVE  \A i \in 1..Len(s \o t) : (s \o t)[i] \in A
<1>1. /\ Len(s \o t) = Len(s) + Len(t) /\ Len(s) \in Nat /\ Len(t) \in Nat
      /\ \A i \in 1..(Len(s) + Len(t)) : (s \o t)[i] = IF i <= Len(s) THEN s[i] ELSE t[i - Len(s)]
  BY ConcatProperties, LenProperties, Zenon
<1>2. \A i \in 1..(Len(s) + Len(t)) : IF i <= Len(s) THEN i \in 1..Len(s) ELSE i - Len(s) \in 1..Len(t)
  BY <1>1
<1> QED
  BY <1>1, <1>2, Zenon

\* A write that fails leaves bytes of the line and perhaps a newline.
LEMMA FragmentBytes ==
  ASSUME NEW e \in Events, NEW k \in 0..Size[e], NEW nl \in {<<>>, << 0 >>},
         k < Size[e] \/ nl = <<>>,
         NEW b, b = SubSeq(Line(e), 1, k) \o nl
  PROVE  /\ b \in Seq(0..MaxEvents)
         /\ \A i \in 1..Len(b) : b[i] \in {0, e} /\ i <= Size[e]
<1> DEFINE l == Line(e)
           part == SubSeq(l, 1, k)
<1>1. /\ l \in Seq(0..MaxEvents) /\ Len(l) = Size[e] /\ (\A i \in 1..Size[e] : l[i] = e)
      /\ Size[e] \in Nat /\ k \in 0..Size[e] /\ e \in 0..MaxEvents
  BY LineFacts DEF Events
<1>2. b \in Seq(0..MaxEvents) /\ Len(b) <= Size[e] /\ Len(b) \in Nat
  <2> DEFINE c == SubSeq(Line(e), 1, k) \o nl
  <2>1. c \in Seq(0..MaxEvents) /\ Len(c) <= Size[e]
    BY FragmentFacts, Zenon
  <2>2. b = c
    OBVIOUS
  <2> HIDE DEF c
  <2> QED
    BY <2>1, <2>2, LenProperties, Zenon
<1>3. nl \in Seq(0..MaxEvents) /\ \A i \in 1..Len(nl) : nl[i] = 0
  <2>1. CASE nl = <<>>
    BY <2>1
  <2>2. CASE nl = <<0>>
    BY <2>2, CollectorAssumption
  <2> QED
    BY <2>1, <2>2
<1> HIDE DEF l
<1>4. part \in Seq(0..MaxEvents) /\ Len(part) = k /\ \A i \in 1..k : part[i] = e
  <2>1. \A i \in 1..k : l[i] = e /\ l[i] \in 0..MaxEvents /\ 1 + i - 1 = i /\ i \in 1..Size[e]
    BY <1>1
  <2>2. /\ part \in Seq(0..MaxEvents) /\ Len(part) = (IF 1 <= k THEN k - 1 + 1 ELSE 0)
        /\ \A i \in 1..(k - 1 + 1) : part[i] = l[1 + i - 1]
    BY <1>1, <2>1, SubSeqProperties
  <2>3. k - 1 + 1 = k /\ (IF 1 <= k THEN k - 1 + 1 ELSE 0) = k
    BY <1>1
  <2> QED
    BY <2>1, <2>2, <2>3, Zenon
<1> HIDE DEF part
<1>5. \A i \in 1..Len(part \o nl) : (part \o nl)[i] \in {0, e}
  <2>1. /\ \A i \in 1..Len(part) : part[i] \in {0, e}
        /\ \A i \in 1..Len(nl) : nl[i] \in {0, e}
    BY <1>3, <1>4
  <2> QED
    BY <1>3, <1>4, <2>1, ConcatIn
<1>6. \A i \in 1..Len(b) : i <= Size[e]
  BY <1>1, <1>2
<1> QED
  BY <1>2, <1>5, <1>6 DEF part, l

\* Each way of writing appends newlines and, if nothing of it was written
\* before, bytes of the event in hand.
LEMMA WritingBytes ==
  ASSUME CollectorInv, Writing
  PROVE  /\ Exists(0) /\ hand[1] \in Events /\ pc' # "write" /\ UNCHANGED <<sent, chan>>
         /\ \E b \in Seq(0..MaxEvents) :
              /\ Put(b)
              /\ \A i \in 1..Len(b) :
                   b[i] = 0 \/ (pc = "write" /\ b[i] = hand[1] /\ i <= Size[hand[1]])
<1>1. Exists(0) /\ hand[1] \in Events
  BY WritingPuts
<1> DEFINE e == hand[1]
           Fit(b) == \A i \in 1..Len(b) : b[i] = 0 \/ (pc = "write" /\ b[i] = e /\ i <= Size[e])
<1>2. /\ Line(e) \in Seq(0..MaxEvents) /\ Len(Line(e)) = Size[e] /\ Size[e] \in Nat
      /\ (\A i \in 1..Size[e] : Line(e)[i] = e)
      /\ Append(Line(e), 0) \in Seq(0..MaxEvents) /\ Len(Append(Line(e), 0)) = Size[e] + 1
  BY <1>1, LineFacts
<1>3. pc' # "write" /\ UNCHANGED <<sent, chan>>
  BY DEF Writing, WriteLine, WriteBody, WriteNewline, WriteFails, LineDone
<1>4. CASE WriteLine
  <2>1. Put(Append(Line(e), 0)) /\ pc = "write"
    BY <1>4 DEF WriteLine
  <2>2. \A i \in 1..(Size[e] + 1) :
            Append(Line(e), 0)[i] = 0 \/ (Append(Line(e), 0)[i] = e /\ i <= Size[e])
    BY <1>2, AppendProperties, CollectorAssumption
  <2>3. Fit(Append(Line(e), 0))
    BY <1>2, <2>1, <2>2, Zenon
  <2> QED
    BY <1>1, <1>2, <1>3, <2>1, <2>3, Zenon
<1>5. CASE WriteBody
  <2>1. Put(Line(e)) /\ pc = "write"
    BY <1>5 DEF WriteBody
  <2>2. \A i \in 1..Size[e] : i <= Size[e]
    BY <1>2
  <2>3. Fit(Line(e))
    BY <1>2, <2>1, <2>2, Zenon
  <2> QED
    BY <1>1, <1>2, <1>3, <2>1, <2>3, Zenon
<1>6. CASE WriteNewline
  <2>1. Put(<<0>>)
    BY <1>6 DEF WriteNewline
  <2>2. <<0>> \in Seq(0..MaxEvents) /\ \A i \in 1..Len(<<0>>) : <<0>>[i] = 0
    BY CollectorAssumption
  <2> QED
    BY <1>1, <1>3, <2>1, <2>2, Zenon
<1>7. CASE WriteFails
  <2>1. pc = "write" /\ \E k \in 0..Size[e], nl \in {<<>>, <<0>>} :
            (k < Size[e] \/ nl = <<>>) /\ Put(SubSeq(Line(e), 1, k) \o nl)
    BY <1>7, Zenon DEF WriteFails
  <2>2. PICK k \in 0..Size[e], nl \in {<<>>, <<0>>} :
            (k < Size[e] \/ nl = <<>>) /\ Put(SubSeq(Line(e), 1, k) \o nl)
    BY <2>1, Zenon
  <2> DEFINE b == SubSeq(Line(e), 1, k) \o nl
  <2>3. b \in Seq(0..MaxEvents) /\ \A i \in 1..Len(b) : b[i] \in {0, e} /\ i <= Size[e]
    BY <1>1, <2>2, FragmentBytes, Zenon
  <2>4. Put(b)
    BY <2>2
  <2> HIDE DEF b
  <2>5. Fit(b)
    BY <2>1, <2>3, Zenon
  <2> QED
    BY <1>1, <1>3, <2>3, <2>4, <2>5, Zenon
<1> QED
  BY <1>4, <1>5, <1>6, <1>7 DEF Writing

\* What waits in the channel and what is in hand are events.
LEMMA ChanFacts ==
  ASSUME CollectorInv
  PROVE  /\ Len(chan) \in Nat /\ \A k \in 1..Len(chan) : chan[k] \in Nat /\ 0 < chan[k]
         /\ pc \in {"write", "newline"} => hand[1] \in Nat /\ 0 < hand[1]
<1>1. /\ chan \in Seq(Events) /\ hand \in Seq(Events) /\ Len(hand) <= 1
      /\ pc \in {"write", "newline"} => hand # <<>>
  BY DEF CollectorInv, TypeOK
<1>2. \A k \in Events : k \in Nat /\ 0 < k
  BY CollectorAssumption DEF Events
<1>3. Len(chan) \in Nat /\ \A k \in 1..Len(chan) : chan[k] \in Events
  BY <1>1, LenProperties, Zenon
<1>4. pc \in {"write", "newline"} => hand[1] \in Events
  BY <1>1
<1> QED
  BY <1>2, <1>3, <1>4, Zenon

\* Writing keeps the order of the log.
LEMMA WritingOrdered ==
  ASSUME CollectorInv, StreamInv, Writing
  PROVE  StreamInv'
<1> DEFINE L == Len(stream)
           e == hand[1]
<1>1. PICK b \in Seq(0..MaxEvents) :
         /\ Put(b)
         /\ \A i \in 1..Len(b) : b[i] = 0 \/ (pc = "write" /\ b[i] = e /\ i <= Size[e])
  BY WritingBytes, Zenon
<1>2. /\ Exists(0) /\ e \in Events /\ pc' # "write" /\ sent' = sent /\ chan' = chan
      /\ Size[e] \in Nat /\ e \in Nat \ {0}
  <2>1. Exists(0) /\ e \in Events /\ pc' # "write" /\ sent' = sent /\ chan' = chan
    BY WritingBytes
  <2>2. Size[e] \in Nat
    BY <2>1, LineFacts, Zenon
  <2> QED
    BY <2>1, <2>2, CollectorAssumption DEF Events
<1>3. /\ Len(stream') = L + Len(b) /\ (\A i \in 1..L : stream'[i] = stream[i])
      /\ (\A i \in 1..Len(b) : stream'[L + i] = b[i])
      /\ files'[0].hi = files[0].hi + Len(b)
  BY <1>1, <1>2, PutFacts, Zenon DEF CollectorInv
<1>4. L \in Nat /\ Len(b) \in Nat /\ \A i \in 1..L : stream[i] \in Nat
  <2>1. stream \in Seq(0..MaxEvents)
    BY Zenon DEF CollectorInv, TypeOK
  <2>2. \A i \in 1..L : stream[i] \in 0..MaxEvents
    BY <2>1, LenProperties, Zenon
  <2>3. 0..MaxEvents \subseteq Nat
    OBVIOUS
  <2> QED
    BY <2>1, <2>2, <2>3, LenProperties, Zenon
<1> HIDE DEF L, e
<1>5. \A i \in 1..Len(stream') :
         \/ i \in 1..L /\ stream'[i] = stream[i]
         \/ stream'[i] = 0
         \/ pc = "write" /\ stream'[i] = e /\ i - L \in 1..Size[e]
  <2> SUFFICES ASSUME NEW i \in 1..Len(stream'), i \notin 1..L
               PROVE  \/ stream'[i] = 0
                      \/ pc = "write" /\ stream'[i] = e /\ i - L \in 1..Size[e]
    BY <1>3, Zenon
  <2>1. i - L \in 1..Len(b) /\ L + (i - L) = i
    BY <1>3, <1>4
  <2>2. stream'[i] = b[i - L]
    BY <1>3, <2>1, Zenon
  <2>3. b[i - L] = 0 \/ (pc = "write" /\ b[i - L] = e /\ i - L <= Size[e])
    BY <1>1, <2>1, Zenon DEF e
  <2> QED
    BY <1>2, <2>1, <2>2, <2>3
<1>6. /\ \A i, j \in 1..L : i < j /\ stream[i] # 0 /\ stream[j] # 0 => stream[i] <= stream[j]
      /\ \A i, j \in 1..L : stream[i] # 0 /\ stream[j] = stream[i] => j - i < Size[stream[i]]
      /\ \A i \in 1..L : stream[i] <= sent /\ (pc = "write" => stream[i] < e)
      /\ \A i \in 1..L : \A k \in 1..Len(chan) : stream[i] < chan[k]
      /\ \A k \in 1..Len(chan) : chan[k] <= sent /\ \A j \in 1..(k - 1) : chan[j] < chan[k]
      /\ pc = "write" => e <= sent /\ \A k \in 1..Len(chan) : e < chan[k]
  BY Zenon DEF StreamInv, Ordered, Queued, L, e
<1>7. Ordered'
  <2>1. ASSUME NEW i \in 1..Len(stream'), NEW j \in 1..Len(stream'),
               i < j, stream'[i] # 0, stream'[j] # 0
        PROVE  stream'[i] <= stream'[j]
    BY <1>2, <1>4, <1>5, <1>6, <2>1, <1>3
  <2>2. ASSUME NEW i \in 1..Len(stream'), NEW j \in 1..Len(stream'),
               stream'[i] # 0, stream'[j] = stream'[i]
        PROVE  j - i < Size[stream'[i]]
    BY <1>2, <1>3, <1>4, <1>5, <1>6, <2>2
  <2> QED
    BY <2>1, <2>2, Zenon DEF Ordered
<1>8. Queued'
  <2>1. \A i \in 1..Len(stream') : stream'[i] <= sent
    <3>1. 0 <= sent
      BY DEF CollectorInv, TypeOK
    <3> QED
      BY <1>5, <1>6, <3>1, Zenon
  <2>2. \A k \in 1..Len(chan) : 0 < chan[k]
    BY ChanFacts
  <2>3. \A i \in 1..Len(stream') : \A k \in 1..Len(chan) : stream'[i] < chan[k]
    BY <1>5, <1>6, <2>2, Zenon
  <2> QED
    BY <1>2, <1>6, <2>1, <2>3, Zenon DEF Queued
<1>9. files'[0].hi = Len(stream')
  BY <1>2, <1>3, <1>4 DEF StreamInv, L
<1> QED
  BY <1>7, <1>8, <1>9 DEF StreamInv

\* Every step of the gateway keeps the order of the log, whatever fails.
LEMMA StreamStep ==
  ASSUME CollectorInv, StreamInv
  PROVE  [Next]_vars => StreamInv'
<1>1. /\ stream \in Seq(0..MaxEvents) /\ chan \in Seq(Events) /\ sent \in Nat
      /\ Len(chan) \in Nat /\ (\A k \in 1..Len(chan) : chan[k] \in Nat)
      /\ Len(stream) \in Nat /\ (\A i \in 1..Len(stream) : stream[i] \in Nat)
      /\ files \in [0..Generations -> FileType] /\ 0 \in 0..Generations
  <2>1. /\ stream \in Seq(0..MaxEvents) /\ chan \in Seq(Events) /\ sent \in Nat
        /\ files \in [0..Generations -> FileType] /\ 0 \in 0..Generations
    BY CollectorAssumption DEF CollectorInv, TypeOK
  <2>2. Len(stream) \in Nat /\ \A i \in 1..Len(stream) : stream[i] \in 0..MaxEvents
    BY <2>1, LenProperties, Zenon
  <2> QED
    BY <2>1, <2>2, ChanFacts
<1>2. ASSUME UNCHANGED stream, Queued', Exists(0)' => files'[0].hi = Len(stream')
      PROVE  StreamInv'
  BY <1>2 DEF StreamInv, Ordered
<1>3. ASSUME UNCHANGED <<stream, sent>>, chan' = chan \/ chan' = <<>>, pc' # "write"
      PROVE  Queued'
  BY <1>3 DEF StreamInv, Queued
<1>4. ASSUME UNCHANGED <<stream, files>>
      PROVE  Exists(0)' => files'[0].hi = Len(stream')
  BY <1>4 DEF StreamInv, Exists
<1>5. CASE UNCHANGED vars
  BY <1>5 DEF vars, StreamInv, Ordered, Queued, Exists
<1>6. CASE Writing
  BY <1>6, WritingOrdered
<1>7. CASE Send
  <2>1. UNCHANGED <<stream, files, pc, hand>> /\ sent' = sent + 1 /\ chan' = Append(chan, sent + 1)
    BY <1>7 DEF Send
  <2>2. sent + 1 \in Events
    BY <1>7, <1>1, CollectorAssumption DEF Send, Events
  <2>3. /\ Len(chan') = Len(chan) + 1 /\ (\A k \in 1..Len(chan) : chan'[k] = chan[k])
        /\ chan'[Len(chan) + 1] = sent + 1
    BY <1>1, <2>1, <2>2, AppendProperties
  <2>4. \A k \in 1..Len(chan') : k \in 1..Len(chan) \/ k = Len(chan) + 1
    BY <1>1, <2>3
  <2>5. Queued'
    <3>1. \A i \in 1..Len(stream') :
            /\ stream'[i] <= sent' /\ (pc' = "write" => stream'[i] < hand'[1])
            /\ \A k \in 1..Len(chan') : stream'[i] < chan'[k]
      BY <1>1, <2>1, <2>3, <2>4 DEF StreamInv, Queued
    <3>2. \A k \in 1..Len(chan') : chan'[k] <= sent' /\ \A j \in 1..(k - 1) : chan'[j] < chan'[k]
      BY <1>1, <2>1, <2>3, <2>4 DEF StreamInv, Queued
    <3>3. pc' = "write" => hand'[1] <= sent' /\ \A k \in 1..Len(chan') : hand'[1] < chan'[k]
      <4>1. pc = "write" => hand[1] \in Nat /\ hand[1] <= sent /\ \A k \in 1..Len(chan) : hand[1] < chan[k]
        BY ChanFacts DEF StreamInv, Queued
      <4> QED
        BY <1>1, <2>1, <2>3, <2>4, <4>1
    <3> QED
      BY <3>1, <3>2, <3>3 DEF Queued
  <2> QED
    BY <1>2, <1>4, <2>1, <2>5
<1>8. CASE SendDropped
  <2>1. UNCHANGED <<stream, files, pc, hand, chan>> /\ sent' = sent + 1 /\ pc = "dead"
    BY <1>8 DEF SendDropped
  <2>2. Queued'
    BY <1>1, <2>1 DEF StreamInv, Queued
  <2> QED
    BY <1>2, <1>4, <2>1, <2>2
<1>9. CASE Recv
  <2>1. UNCHANGED <<stream, files, sent>> /\ hand' = <<Head(chan)>> /\ chan' = Tail(chan) /\ chan # <<>>
    BY <1>9 DEF Recv
  <2>2. /\ hand'[1] = chan[1] /\ 1 \in 1..Len(chan) /\ Len(chan') = Len(chan) - 1
        /\ \A k \in 1..Len(chan') : chan'[k] = chan[k + 1] /\ k + 1 \in 1..Len(chan) /\ 1 \in 1..(k + 1 - 1)
    BY <1>1, <2>1
  <2>3. Queued'
    <3>1. \A i \in 1..Len(stream') :
            /\ stream'[i] <= sent' /\ stream'[i] < hand'[1]
            /\ \A k \in 1..Len(chan') : stream'[i] < chan'[k]
      BY <1>1, <2>1, <2>2 DEF StreamInv, Queued
    <3>2. \A k \in 1..Len(chan') : chan'[k] <= sent' /\ \A j \in 1..(k - 1) : chan'[j] < chan'[k]
      <4> SUFFICES ASSUME NEW k \in 1..Len(chan')
                   PROVE  chan'[k] <= sent' /\ \A j \in 1..(k - 1) : chan'[j] < chan'[k]
        OBVIOUS
      <4>1. k + 1 \in 1..Len(chan) /\ chan'[k] = chan[k + 1]
        BY <2>2
      <4>2. chan[k + 1] <= sent /\ \A j \in 1..(k + 1 - 1) : chan[j] < chan[k + 1]
        BY <4>1 DEF StreamInv, Queued
      <4>3. \A j \in 1..(k - 1) : j \in 1..Len(chan') /\ j + 1 \in 1..(k + 1 - 1)
        BY <1>1, <2>2
      <4> QED
        BY <2>1, <2>2, <4>1, <4>2, <4>3, Zenon
    <3>3. hand'[1] <= sent' /\ \A k \in 1..Len(chan') : hand'[1] < chan'[k]
      BY <1>1, <2>1, <2>2 DEF StreamInv, Queued
    <3> QED
      BY <3>1, <3>2, <3>3 DEF Queued
  <2> QED
    BY <1>2, <1>4, <2>1, <2>3
<1>10. CASE OpenLog
  <2>1. UNCHANGED <<stream, sent, chan>> /\ pc' # "write"
    BY <1>10 DEF OpenLog
  <2>2. Exists(0)' => files'[0].hi = Len(stream')
    BY <1>1, <1>10 DEF OpenLog, StreamInv, Exists
  <2> QED
    BY <1>2, <1>3, <2>1, <2>2
<1>11. CASE OpenFails \/ Stop \/ Restart
  BY <1>2, <1>3, <1>4, <1>11 DEF OpenFails, Stop, Restart
<1>12. CASE RemoveOldest \/ Shift \/ RenameLog
  <2>1. UNCHANGED <<stream, sent, chan>> /\ pc' # "write"
    BY <1>12 DEF RemoveOldest, Shift, RenameLog
  <2>2. files'[0] = files[0] \/ files'[0] = NoFile
    <3>1. Generations \in Nat \ {0}
      BY CollectorAssumption
    <3>2. CASE RemoveOldest
      BY <1>1, <3>1, <3>2 DEF RemoveOldest
    <3>3. CASE Shift
      <4>1. shift \in 1..(Generations - 1)
        BY <3>3 DEF Shift, CollectorInv, StepInv
      <4>2. shift \in 0..(Generations - 1) /\ 0 # shift /\ 0 # shift + 1
        BY <4>1
      <4>3. Moved(shift)[0] = files[0]
        BY <1>1, <4>2, MovedFacts, Zenon
      <4> QED
        BY <3>3, <4>3 DEF Shift
    <3>4. CASE RenameLog
      <4>1. 0 \in 0..(Generations - 1)
        BY <3>1
      <4>2. Moved(0)[0] = NoFile
        BY <1>1, <4>1, MovedFacts, Zenon
      <4> QED
        BY <3>4, <4>2 DEF RenameLog
    <3> QED
      BY <1>12, <3>2, <3>3, <3>4
  <2>3. Exists(0)' => files'[0].hi = Len(stream')
    BY <2>1, <2>2 DEF StreamInv, Exists
  <2> QED
    BY <1>2, <1>3, <2>1, <2>3
<1> QED
  BY <1>5, <1>6, <1>7, <1>8, <1>9, <1>10, <1>11, <1>12 DEF Next, Run, Writing

-----------------------------------------------------------------------------
(* The tailer *)

\* The greatest of a bounded set of naturals that is not empty.
LEMMA MaxFacts ==
  ASSUME NEW n \in Nat, NEW S \in SUBSET (0..n), S # {}
  PROVE  Max(S) \in S /\ \A y \in S : Max(S) >= y
<1>1. \E x \in S : \A y \in S : x >= y
  BY GreatestNatural, Zenon
<1> QED
  BY <1>1, Zenon DEF Max

\* A bounded set of positive numbers can be put in ascending order.
LEMMA AscendingFacts ==
  ASSUME NEW m \in Nat, NEW S \in SUBSET (1..m)
  PROVE  /\ Cardinality(S) \in Nat
         /\ Ascending(S) \in [1..Cardinality(S) -> S]
         /\ \A i, j \in 1..Cardinality(S) : i < j => Ascending(S)[i] < Ascending(S)[j]
<1> DEFINE Up(s, n) == \A i, j \in 1..n : i < j => s[i] < s[j]
           Enum(T) == \E s \in [1..Cardinality(T) -> T] : Up(s, Cardinality(T))
           Bad == {n \in Nat : \E T \in SUBSET (1..m) : Cardinality(T) = n /\ ~Enum(T)}
<1>1. \A T \in SUBSET (1..m) : IsFiniteSet(T) /\ Cardinality(T) \in Nat
  <2>1. IsFiniteSet(1..m)
    BY FS_Interval
  <2> QED
    BY <2>1, FS_Subset, FS_CardinalityType, Zenon
<1>2. SUFFICES Bad = {}
  <2>1. Enum(S)
    BY <1>1, <1>2
  <2>2. Ascending(S) \in [1..Cardinality(S) -> S] /\ Up(Ascending(S), Cardinality(S))
    BY <2>1, Zenon DEF Ascending
  <2> QED
    BY <1>1, <2>2
<1> SUFFICES ASSUME Bad # {} PROVE FALSE
  OBVIOUS
<1>3. PICK n \in Bad : \A k \in Bad : n <= k
  <2>1. Bad \in SUBSET Nat
    OBVIOUS
  <2> HIDE DEF Bad
  <2> QED
    BY <2>1, LeastNatural, Zenon
<1>4. PICK T \in SUBSET (1..m) : Cardinality(T) = n /\ ~Enum(T)
  BY <1>3
<1>5. n \in Nat /\ IsFiniteSet(T)
  BY <1>1, <1>3
<1>6. T # {}
  <2> SUFFICES ASSUME T = {} PROVE Enum(T)
    BY <1>4
  <2>1. Cardinality(T) = 0
    BY FS_EmptySet
  <2> DEFINE none == [i \in 1..0 |-> i]
  <2>2. none \in [1..0 -> T] /\ Up(none, 0)
    OBVIOUS
  <2> HIDE DEF none
  <2> QED
    BY <2>1, <2>2, ZenonT(30)
<1>7. PICK x \in T : \A y \in T : x >= y
  <2>1. T \in SUBSET (0..m)
    OBVIOUS
  <2> QED
    BY <1>6, <2>1, GreatestNatural, Zenon
<1> DEFINE U == T \ {x}
<1>8. Cardinality(U) = n - 1 /\ n - 1 \in Nat
  <2>1. Cardinality(U) = Cardinality(T) - 1
    BY <1>5, <1>7, FS_RemoveElement, Zenon
  <2>2. Cardinality(U) \in Nat
    BY <1>1
  <2> QED
    BY <1>4, <1>5, <2>1, <2>2
<1>9. Enum(U)
  <2>1. n - 1 \notin Bad
    BY <1>3, <1>5
  <2> QED
    BY <1>8, <2>1, Zenon
<1>10. PICK s \in [1..(n - 1) -> U] : Up(s, n - 1)
  BY <1>8, <1>9, Zenon
<1> DEFINE r == [i \in 1..n |-> IF i = n THEN x ELSE s[i]]
<1>11. \A i \in 1..n : i # n => i \in 1..(n - 1)
  BY <1>5
<1>12. r \in [1..n -> T]
  BY <1>7, <1>10, <1>11
<1>13. \A i \in 1..(n - 1) : s[i] < x
  <2>1. \A i \in 1..(n - 1) : s[i] \in T /\ s[i] # x
    BY <1>10
  <2>2. \A y \in T : x >= y /\ y \in Nat /\ x \in Nat
    BY <1>7
  <2>3. \A y \in T : y # x => y < x
    BY <2>2
  <2> QED
    BY <2>1, <2>3, Zenon
<1>14. Up(r, n)
  BY <1>5, <1>10, <1>11, <1>13
<1> QED
  BY <1>4, <1>12, <1>14, Zenon

\* A line that parses: its bytes stand before its newline, after the newline
\* before.
LEMMA LineAtFacts ==
  ASSUME NEW text \in Seq(0..MaxEvents), NEW p \in Newlines(text), NEW e \in Events,
         LineAt(text, p) = Line(e)
  PROVE  /\ Head(LineAt(text, p)) = e
         /\ p \in 1..Len(text) /\ text[p] = 0 /\ p - Size[e] >= 1
         /\ \A j \in 1..Size[e] : text[p - j] = e
         /\ \A q \in Newlines(text) : q < p => q < p - Size[e]
<1> DEFINE S == {0} \cup {q \in Newlines(text) : q < p}
           m == Max(S)
           z == Size[e]
           l == Line(e)
<1>1. /\ l \in Seq(0..MaxEvents) /\ Len(l) = z /\ (\A j \in 1..z : l[j] = e) /\ z \in Nat \ {0}
  BY LineFacts
<1>2. /\ Len(text) \in Nat /\ p \in 1..Len(text) /\ text[p] = 0
      /\ \A j \in 1..Len(text) : text[j] \in 0..MaxEvents
  BY LenProperties, Zenon DEF Newlines
<1>3. S \in SUBSET (0..Len(text)) /\ S # {}
  BY <1>2 DEF Newlines
<1>4. m \in S /\ \A y \in S : m >= y
  BY <1>2, <1>3, MaxFacts, Zenon
<1>5. m \in Nat /\ m < p /\ \A q \in Newlines(text) : q < p => q <= m
  <2>1. m \in 0..Len(text)
    BY <1>3, <1>4, Zenon
  <2>2. m < p
    BY <1>2, <1>4
  <2>3. \A q \in Newlines(text) : q < p => m >= q /\ q \in Nat
    BY <1>4 DEF Newlines
  <2> QED
    BY <2>1, <2>2, <2>3
<1>6. SubSeq(text, m + 1, p - 1) = l
  BY DEF LineAt
<1> HIDE DEF S, m, l, z
<1>7. /\ SubSeq(text, m + 1, p - 1) \in Seq(0..MaxEvents)
      /\ Len(SubSeq(text, m + 1, p - 1)) = (IF m + 1 <= p - 1 THEN p - 1 - (m + 1) + 1 ELSE 0)
      /\ \A j \in 1..(p - 1 - (m + 1) + 1) : SubSeq(text, m + 1, p - 1)[j] = text[m + 1 + j - 1]
  <2>1. m + 1 \in Int /\ p - 1 \in Int /\ \A j \in (m + 1)..(p - 1) : j \in 1..Len(text)
    BY <1>2, <1>5
  <2>2. \A j \in (m + 1)..(p - 1) : text[j] \in 0..MaxEvents
    BY <1>2, <2>1, Zenon
  <2> QED
    BY <2>1, <2>2, SubSeqProperties
<1>8. p - 1 - m = z
  BY <1>1, <1>2, <1>5, <1>6, <1>7
<1>9. \A j \in 1..z : text[m + j] = e
  <2>1. \A j \in 1..z : j \in 1..(p - 1 - (m + 1) + 1) /\ m + 1 + j - 1 = m + j
    BY <1>1, <1>2, <1>5, <1>8
  <2> QED
    BY <1>1, <1>6, <1>7, <2>1, Zenon
<1>10. \A j \in 1..z : text[p - j] = e
  <2>1. \A j \in 1..z : p - j = m + (z + 1 - j) /\ z + 1 - j \in 1..z
    BY <1>1, <1>2, <1>5, <1>8
  <2> QED
    BY <1>9, <2>1
<1>11. Head(LineAt(text, p)) = e
  <2>1. Head(l) = l[1] /\ 1 \in 1..z
    BY <1>1
  <2> QED
    BY <1>1, <2>1, Zenon DEF l
<1>12. p - z >= 1 /\ \A q \in Newlines(text) : q < p => q < p - z
  BY <1>1, <1>2, <1>5, <1>8 DEF Newlines
<1> QED
  BY <1>2, <1>10, <1>11, <1>12 DEF z

\* What a poll makes of a text: the events of the lines that parse, each with
\* its bytes before its newline and after the newline of the one before.
LEMMA ParsedFacts ==
  ASSUME NEW text \in Seq(0..MaxEvents)
  PROVE  \E n \in Nat : \E ends \in [1..n -> 1..Len(text)] :
           /\ Parsed(text) \in [1..n -> Events]
           /\ \A i \in 1..n :
                LET e == Parsed(text)[i]
                    p == ends[i]
                IN  /\ text[p] = 0 /\ p - Size[e] >= 1
                    /\ \A j \in 1..Size[e] : text[p - j] = e
                    /\ \A k \in 1..(i - 1) : ends[k] < p - Size[e]
<1> DEFINE S == {p \in Newlines(text) : Parses(LineAt(text, p))}
           n == Cardinality(S)
           ends == Ascending(S)
<1>1. Len(text) \in Nat /\ S \in SUBSET (1..Len(text))
  BY LenProperties DEF Newlines
<1>2. n \in Nat /\ ends \in [1..n -> S] /\ \A i, j \in 1..n : i < j => ends[i] < ends[j]
  BY <1>1, AscendingFacts, Zenon
<1>3. Len(ends) = n
  <2> HIDE DEF S, n, ends
  <2>1. ends \in Seq(S)
    BY <1>2, FunctionIsSeq, Zenon
  <2>2. Len(ends) \in Nat /\ DOMAIN ends = 1..Len(ends) /\ DOMAIN ends = 1..n
    BY <1>2, <2>1, LenProperties
  <2> QED
    BY <1>2, <2>2
<1>4. Parsed(text) = [i \in 1..n |-> Head(LineAt(text, ends[i]))]
  BY <1>3 DEF Parsed
<1>5. \A p \in S : p \in Newlines(text) /\ \E e \in Events : LineAt(text, p) = Line(e)
  BY DEF Parses
<1> HIDE DEF S, n, ends
<1>6. ASSUME NEW i \in 1..n
      PROVE  /\ Parsed(text)[i] \in Events
             /\ LET e == Parsed(text)[i]
                    p == ends[i]
                IN  /\ text[p] = 0 /\ p - Size[e] >= 1
                    /\ \A j \in 1..Size[e] : text[p - j] = e
                    /\ \A k \in 1..(i - 1) : ends[k] < p - Size[e]
  <2> DEFINE p == ends[i]
  <2>1. p \in S /\ Parsed(text)[i] = Head(LineAt(text, p))
    BY <1>2, <1>4, <1>6, Zenon
  <2>2. PICK e \in Events : LineAt(text, p) = Line(e)
    BY <1>5, <2>1, Zenon
  <2>3. /\ Head(LineAt(text, p)) = e /\ text[p] = 0 /\ p - Size[e] >= 1
        /\ \A j \in 1..Size[e] : text[p - j] = e
        /\ \A q \in Newlines(text) : q < p => q < p - Size[e]
    <3>1. p \in Newlines(text)
      BY <1>5, <2>1, Zenon
    <3> HIDE DEF p
    <3> QED
      BY <2>2, <3>1, LineAtFacts
  <2>4. \A k \in 1..(i - 1) : k \in 1..n /\ k < i
    BY <1>2, <1>6
  <2>5. \A k \in 1..(i - 1) : ends[k] \in Newlines(text) /\ ends[k] < p
    BY <1>2, <1>5, <1>6, <2>4, Zenon
  <2>6. Parsed(text)[i] = e
    BY <2>1, <2>3, Zenon
  <2> HIDE DEF p
  <2> QED
    BY <2>3, <2>5, <2>6, Zenon DEF p
<1>7. ends \in [1..n -> 1..Len(text)]
  BY <1>1, <1>2, Zenon
<1>8. Parsed(text) \in [1..n -> Events]
  BY <1>4, <1>6, Zenon
<1> DEFINE Fine(m, es) ==
             /\ Parsed(text) \in [1..m -> Events]
             /\ \A i \in 1..m :
                  LET e == Parsed(text)[i]
                      p == es[i]
                  IN  /\ text[p] = 0 /\ p - Size[e] >= 1
                      /\ \A j \in 1..Size[e] : text[p - j] = e
                      /\ \A k \in 1..(i - 1) : es[k] < p - Size[e]
<1>9. Fine(n, ends)
  BY <1>6, <1>8, Zenon
<1>10. \E m \in Nat : \E es \in [1..m -> 1..Len(text)] : Fine(m, es)
  <2> HIDE DEF Fine
  <2> QED
    BY <1>2, <1>7, <1>9, Zenon
<1> QED
  BY <1>10, Zenon

\* What a poll reads lies in the log, from the offset on.
LEMMA TextFacts ==
  ASSUME CollectorInv, StreamInv, offset \in Nat, Exists(0),
         NEW text, text = Complete(Chunk(Bytes(files[0])))
  PROVE  LET from == StartOffset(Bytes(files[0]))
             c == files[0].lo + from
         IN  /\ from \in Nat /\ c \in Nat /\ text \in Seq(0..MaxEvents)
             /\ c + Len(text) <= Len(stream)
             /\ \A j \in 1..Len(text) : text[j] = stream[c + j]
<1> DEFINE lo == files[0].lo
           hi == files[0].hi
           len == Bytes(files[0])
           from == StartOffset(len)
           c == lo + from
           want == Min({len - from, MaxChunk})
           buf == SubSeq(stream, lo + from + 1, lo + from + want)
<1>1. /\ stream \in Seq(0..MaxEvents) /\ Len(stream) \in Nat
      /\ (\A j \in 1..Len(stream) : stream[j] \in 0..MaxEvents)
  <2>1. stream \in Seq(0..MaxEvents)
    BY Zenon DEF CollectorInv, TypeOK
  <2> QED
    BY <2>1, LenProperties, Zenon
<1>2. lo \in Nat /\ hi \in Nat /\ lo <= hi /\ hi = Len(stream)
  <2>1. 0 \in 0..Generations
    BY CollectorAssumption
  <2> QED
    BY <2>1, FileFacts DEF CollectorInv, StreamInv
<1>3. from \in Nat /\ from <= len /\ len = hi - lo /\ len \in Nat
  BY <1>2 DEF StartOffset, Bytes
<1> HIDE DEF lo, hi, len, from
<1>4. want \in Nat /\ want <= len - from
  <2> DEFINE d == len - from
  <2>1. d \in Nat /\ MaxChunk \in Nat
    BY <1>3, LogTailAssumption
  <2> HIDE DEF d
  <2>2. \E x \in {d, MaxChunk} : \A y \in {d, MaxChunk} : x <= y
    BY <2>1
  <2>3. Min({d, MaxChunk}) \in {d, MaxChunk} /\ \A y \in {d, MaxChunk} : Min({d, MaxChunk}) <= y
    BY <2>2, Zenon DEF Min
  <2>4. Min({d, MaxChunk}) \in Nat /\ Min({d, MaxChunk}) <= d
    BY <2>1, <2>3
  <2> QED
    BY <2>4 DEF d
<1> HIDE DEF want
<1>5. /\ buf \in Seq(0..MaxEvents) /\ Len(buf) = want
      /\ \A j \in 1..want : buf[j] = stream[c + j]
  <2> DEFINE a == lo + from + 1
             b == lo + from + want
  <2>1. a \in Int /\ b \in Int /\ (\A j \in a..b : j \in 1..Len(stream))
        /\ (IF a <= b THEN b - a + 1 ELSE 0) = want /\ b - a + 1 = want
        /\ \A j \in 1..want : a + j - 1 = c + j
    BY <1>1, <1>2, <1>3, <1>4
  <2> HIDE DEF a, b
  <2>2. \A j \in a..b : stream[j] \in 0..MaxEvents
    BY <1>1, <2>1, Zenon
  <2>3. /\ SubSeq(stream, a, b) \in Seq(0..MaxEvents)
        /\ Len(SubSeq(stream, a, b)) = (IF a <= b THEN b - a + 1 ELSE 0)
        /\ \A j \in 1..(b - a + 1) : SubSeq(stream, a, b)[j] = stream[a + j - 1]
    BY <2>1, <2>2, SubSeqProperties
  <2>4. /\ SubSeq(stream, a, b) \in Seq(0..MaxEvents) /\ Len(SubSeq(stream, a, b)) = want
        /\ \A j \in 1..want : SubSeq(stream, a, b)[j] = stream[c + j]
    BY <2>1, <2>3, Zenon
  <2> QED
    BY <2>4 DEF a, b
<1>6. text = Complete(buf)
  BY DEF Chunk, buf, want, lo, from, len
<1> HIDE DEF buf, c
<1> DEFINE z == Max({0} \cup Newlines(buf))
<1>7. z \in 0..want
  <2> DEFINE T == {0} \cup Newlines(buf)
  <2>1. T \in SUBSET (0..want) /\ T # {}
    BY <1>4, <1>5 DEF Newlines
  <2> HIDE DEF T
  <2>2. Max(T) \in T
    BY <1>4, <2>1, MaxFacts, Zenon
  <2> QED
    BY <2>1, <2>2, Zenon DEF T
<1> HIDE DEF z
<1>8. text = SubSeq(buf, 1, z)
  BY <1>6, Zenon DEF Complete, z
<1>9. /\ text \in Seq(0..MaxEvents) /\ Len(text) = z
      /\ \A j \in 1..z : text[j] = buf[j] /\ j \in 1..want
  <2>1. \A j \in 1..z : j \in 1..Len(buf) /\ 1 + j - 1 = j /\ j \in 1..want
    BY <1>4, <1>5, <1>7
  <2>2. \A j \in 1..z : buf[j] \in 0..MaxEvents
    BY <1>5, <2>1, LenProperties, Zenon
  <2>3. /\ SubSeq(buf, 1, z) \in Seq(0..MaxEvents)
        /\ Len(SubSeq(buf, 1, z)) = (IF 1 <= z THEN z - 1 + 1 ELSE 0)
        /\ \A j \in 1..(z - 1 + 1) : SubSeq(buf, 1, z)[j] = buf[1 + j - 1]
    BY <1>7, <2>2, SubSeqProperties
  <2>4. z - 1 + 1 = z /\ (IF 1 <= z THEN z - 1 + 1 ELSE 0) = z
    BY <1>4, <1>7
  <2> QED
    BY <1>8, <2>1, <2>3, <2>4, Zenon
<1>10. c \in Nat /\ c + z <= Len(stream)
  BY <1>2, <1>3, <1>4, <1>7 DEF c
<1>11. \A j \in 1..Len(text) : text[j] = stream[c + j]
  BY <1>5, <1>9, Zenon
<1> QED
  BY <1>3, <1>9, <1>10, <1>11 DEF c, lo, from, len

\* Every byte of the events the store has lies within the first q bytes.
Before(q) == \A k \in 1..Len(seen) : \A i \in 1..Len(stream) : stream[i] = seen[k] => i <= q

\* The tailer has passed what it has seen: either the log was created since, or
\* it is the one the offset was taken in, and has all of it before the offset.
SeenInv ==
    /\ offset \in Nat /\ seen \in Seq(Events)
    /\ \A k \in 1..Len(seen) : \E i \in 1..Len(stream) : stream[i] = seen[k]
    /\ Exists(0) => \/ Before(files[0].lo)
                    \/ offset <= Bytes(files[0]) /\ Before(files[0].lo + offset)
    /\ Increasing(seen)

\* The lines a poll reads stand in the log after position c, in order: at[i] is
\* the newline of the i-th.
Reads(c, n, es, at) ==
    /\ c = files[0].lo + StartOffset(Bytes(files[0]))
    /\ seen' \in Seq(Events) /\ Len(seen') = Len(seen) + n
    /\ \A k \in 1..(Len(seen) + n) :
          seen'[k] = IF k <= Len(seen) THEN seen[k] ELSE es[k - Len(seen)]
    /\ offset' \in Nat /\ c <= files[0].lo + offset' /\ files[0].lo + offset' <= Len(stream)
    /\ \A i \in 1..n :
          /\ at[i] <= files[0].lo + offset' /\ c < at[i] - Size[es[i]]
          /\ stream[at[i]] = 0
          /\ \A j \in 1..Size[es[i]] : stream[at[i] - j] = es[i]
          /\ \A k \in 1..(i - 1) : at[k] < at[i] - Size[es[i]]

\* A poll appends to seen exactly the lines it reads after its start offset, and
\* moves the offset to the end of the last complete one.
LEMMA PollReads ==
  ASSUME CollectorInv, StreamInv, offset \in Nat, seen \in Seq(Events), Poll
  PROVE  \E c, n \in Nat : \E es \in [1..n -> Events], at \in [1..n -> Nat] : Reads(c, n, es, at)
<1> DEFINE text == Complete(Chunk(Bytes(files[0])))
           from == StartOffset(Bytes(files[0]))
           lo == files[0].lo
           c == lo + from
           es == Parsed(text)
<1>1. Exists(0) /\ offset' = from + Len(text) /\ seen' = seen \o es
  BY DEF Poll
<1>2. /\ from \in Nat /\ c \in Nat /\ text \in Seq(0..MaxEvents)
      /\ c + Len(text) <= Len(stream) /\ \A j \in 1..Len(text) : text[j] = stream[c + j]
  BY <1>1, TextFacts
<1>3. lo \in Nat /\ Len(text) \in Nat /\ Len(seen) \in Nat
  <2>1. 0 \in 0..Generations
    BY CollectorAssumption
  <2>2. lo \in Nat
    BY <1>1, <2>1, FileFacts DEF CollectorInv
  <2> QED
    BY <1>2, <2>2, LenProperties, Zenon
<1> HIDE DEF text, from, lo
<1>4. PICK n \in Nat : \E ends \in [1..n -> 1..Len(text)] :
           /\ es \in [1..n -> Events]
           /\ \A i \in 1..n :
                /\ text[ends[i]] = 0 /\ ends[i] - Size[es[i]] >= 1
                /\ \A j \in 1..Size[es[i]] : text[ends[i] - j] = es[i]
                /\ \A k \in 1..(i - 1) : ends[k] < ends[i] - Size[es[i]]
  BY <1>2, ParsedFacts, Zenon
<1>5. PICK ends \in [1..n -> 1..Len(text)] :
           /\ es \in [1..n -> Events]
           /\ \A i \in 1..n :
                /\ text[ends[i]] = 0 /\ ends[i] - Size[es[i]] >= 1
                /\ \A j \in 1..Size[es[i]] : text[ends[i] - j] = es[i]
                /\ \A k \in 1..(i - 1) : ends[k] < ends[i] - Size[es[i]]
  BY <1>4, Zenon
<1> DEFINE at == [i \in 1..n |-> c + ends[i]]
<1> HIDE DEF es
<1>6. /\ es \in Seq(Events) /\ Len(es) = n
  <2>1. es \in Seq(Events)
    BY <1>5, FunctionIsSeq, Zenon
  <2>2. Len(es) \in Nat /\ DOMAIN es = 1..Len(es) /\ DOMAIN es = 1..n
    BY <1>5, <2>1, LenProperties
  <2>3. \A a, b \in Nat : 1..a = 1..b => a = b
    <3> SUFFICES ASSUME NEW a \in Nat, NEW b \in Nat, 1..a = 1..b, a # b PROVE FALSE
      OBVIOUS
    <3>1. a \in 1..a <=> a \in 1..b
      OBVIOUS
    <3>2. b \in 1..a <=> b \in 1..b
      OBVIOUS
    <3> QED
      BY <3>1, <3>2
  <2> QED
    BY <2>1, <2>2, <2>3, Zenon
<1>7. /\ seen' \in Seq(Events) /\ Len(seen') = Len(seen) + n
      /\ \A k \in 1..(Len(seen) + n) :
            seen'[k] = IF k <= Len(seen) THEN seen[k] ELSE es[k - Len(seen)]
  BY <1>1, <1>6, ConcatProperties, Zenon
<1>8. offset' \in Nat /\ c <= lo + offset' /\ lo + offset' <= Len(stream) /\ lo + offset' = c + Len(text)
  <2>1. Len(stream) \in Nat
    BY LenProperties DEF CollectorInv, TypeOK
  <2> QED
    BY <1>1, <1>2, <1>3, <2>1
<1>9. ASSUME NEW i \in 1..n
      PROVE  /\ at[i] \in Nat /\ at[i] <= lo + offset' /\ c < at[i] - Size[es[i]]
             /\ stream[at[i]] = 0
             /\ \A j \in 1..Size[es[i]] : stream[at[i] - j] = es[i]
             /\ \A k \in 1..(i - 1) : at[k] < at[i] - Size[es[i]]
  <2> DEFINE p == ends[i]
             z == Size[es[i]]
  <2>1. p \in 1..Len(text) /\ es[i] \in Events /\ at[i] = c + p
    BY <1>5, <1>9, Zenon
  <2>2. z \in Nat
    BY <2>1, LineFacts, Zenon
  <2>3. /\ text[p] = 0 /\ p - z >= 1 /\ (\A j \in 1..z : text[p - j] = es[i])
        /\ \A k \in 1..(i - 1) : ends[k] < p - z
    BY <1>5, <1>9, Zenon
  <2>4. \A k \in 1..(i - 1) : k \in 1..n
    BY <1>9
  <2>5. \A k \in 1..(i - 1) : at[k] = c + ends[k] /\ ends[k] \in 1..Len(text)
    BY <1>5, <2>4, Zenon
  <2> HIDE DEF p, z, at, c
  <2>6. at[i] \in Nat /\ at[i] <= lo + offset' /\ c < at[i] - z
    <3>1. c \in Nat /\ lo + offset' = c + Len(text)
      BY <1>2, <1>8
    <3> QED
      BY <1>3, <2>1, <2>2, <2>3, <3>1
  <2>7. stream[at[i]] = 0
    BY <1>2, <2>1, <2>3, Zenon DEF c
  <2>8. \A j \in 1..z : stream[at[i] - j] = es[i]
    <3>1. \A j \in 1..z : p - j \in 1..Len(text) /\ at[i] - j = c + (p - j)
      BY <1>2, <1>3, <2>1, <2>2, <2>3 DEF c
    <3> QED
      BY <1>2, <2>3, <3>1, Zenon DEF c
  <2>9. \A k \in 1..(i - 1) : at[k] < at[i] - z
    <3>1. c \in Nat /\ at[i] = c + p /\ p \in Nat
      BY <1>2, <1>3, <2>1
    <3>2. SUFFICES ASSUME NEW k \in 1..(i - 1)
                   PROVE  at[k] < at[i] - z
      OBVIOUS
    <3>3. at[k] = c + ends[k] /\ ends[k] \in 1..Len(text) /\ ends[k] < p - z
      BY <2>3, <2>5, Zenon
    <3>4. ends[k] \in Nat
      BY <1>2, <1>3, <3>3
    <3> QED
      BY <2>2, <3>1, <3>3, <3>4
  <2> QED
    BY <2>6, <2>7, <2>8, <2>9 DEF z
<1>10. at \in [1..n -> Nat]
  BY <1>9, Zenon
<1> HIDE DEF at
<1>11. Reads(c, n, es, at)
  BY <1>7, <1>8, <1>9, ZenonT(30) DEF Reads, lo, from
<1> QED
  BY <1>2, <1>5, <1>10, <1>11, ZenonT(30)

\* A poll takes what follows all it has seen, in the order of the log.
LEMMA PollKeeps ==
  ASSUME CollectorInv, StreamInv, SeenInv, Poll
  PROVE  SeenInv'
<1>1. /\ Exists(0) /\ UNCHANGED <<stream, files>>
      /\ offset \in Nat /\ seen \in Seq(Events) /\ Len(seen) \in Nat
      /\ \A k \in 1..Len(seen) : seen[k] \in Events
  BY LenProperties DEF Poll, vars, SeenInv
<1>2. PICK c \in Nat, n \in Nat : \E es \in [1..n -> Events], at \in [1..n -> Nat] : Reads(c, n, es, at)
  BY <1>1, PollReads, Zenon
<1>3. PICK es \in [1..n -> Events], at \in [1..n -> Nat] : Reads(c, n, es, at)
  BY <1>2, Zenon
<1>4. /\ Len(stream) \in Nat /\ (\A i \in 1..Len(stream) : stream[i] \in Nat)
      /\ files[0].lo \in Nat /\ files[0].hi \in Nat /\ files[0].lo <= files[0].hi
      /\ files[0].hi = Len(stream)
  <2>1. 0 \in 0..Generations
    BY CollectorAssumption
  <2>2. files[0].lo \in Nat /\ files[0].hi \in Nat /\ files[0].lo <= files[0].hi
    BY <1>1, <2>1, FileFacts DEF CollectorInv
  <2>3. stream \in Seq(0..MaxEvents)
    BY DEF CollectorInv, TypeOK
  <2>4. Len(stream) \in Nat /\ (\A i \in 1..Len(stream) : stream[i] \in 0..MaxEvents)
    BY <2>3, LenProperties, Zenon
  <2> QED
    BY <1>1, <2>2, <2>4 DEF StreamInv
<1>5. Before(c)
  <2>1. c = files[0].lo + StartOffset(Bytes(files[0]))
    BY <1>3 DEF Reads
  <2>2. CASE Before(files[0].lo)
    <3>1. files[0].lo <= c
      BY <1>1, <1>4, <2>1 DEF StartOffset
    <3> QED
      BY <1>4, <2>2, <3>1 DEF Before
  <2>3. CASE offset <= Bytes(files[0]) /\ Before(files[0].lo + offset)
    <3>1. c = files[0].lo + offset
      BY <1>1, <1>4, <2>1, <2>3 DEF StartOffset, Bytes
    <3> QED
      BY <2>3, <3>1
  <2> QED
    BY <1>1, <2>2, <2>3 DEF SeenInv
<1> DEFINE end == files[0].lo + offset'
<1>6. /\ seen' \in Seq(Events) /\ Len(seen') = Len(seen) + n
      /\ (\A k \in 1..(Len(seen) + n) :
            seen'[k] = IF k <= Len(seen) THEN seen[k] ELSE es[k - Len(seen)])
      /\ offset' \in Nat /\ end \in Nat /\ c <= end /\ end <= Len(stream)
  <2>1. offset' \in Nat /\ end \in Nat
    BY <1>3, <1>4 DEF Reads
  <2> QED
    BY <1>3, <2>1, Zenon DEF Reads
<1> HIDE DEF end
<1>7. ASSUME NEW i \in 1..n
      PROVE  /\ es[i] \in Nat \ {0} /\ at[i] \in Nat /\ at[i] - 1 \in 1..Len(stream)
             /\ stream[at[i] - 1] = es[i] /\ c < at[i] - 1 /\ at[i] <= end
             /\ \A m \in 1..Len(stream) : stream[m] = es[i] =>
                   at[i] - Size[es[i]] <= m /\ m < at[i]
             /\ Size[es[i]] \in Nat \ {0} /\ c < at[i] - Size[es[i]]
             /\ \A k \in 1..(i - 1) : at[k] < at[i] - Size[es[i]]
  <2> DEFINE z == Size[es[i]]
             p == at[i]
  <2>1. es[i] \in Events /\ p \in Nat
    BY <1>3, <1>7, Zenon
  <2>2. z \in Nat \ {0} /\ es[i] \in Nat \ {0}
    BY <2>1, LineFacts DEF Events
  <2>3. /\ p <= end /\ c < p - z /\ (\A j \in 1..z : stream[p - j] = es[i])
        /\ \A k \in 1..(i - 1) : at[k] < p - z
    BY <1>3, <1>7 DEF Reads, end
  <2> HIDE DEF z, p
  <2>4. p - 1 \in 1..Len(stream) /\ p - z \in 1..Len(stream) /\ c < p - 1
    BY <1>4, <1>6, <2>1, <2>2, <2>3
  <2>5. stream[p - 1] = es[i] /\ stream[p - z] = es[i]
    BY <2>2, <2>3
  <2>6. ASSUME NEW m \in 1..Len(stream), stream[m] = es[i]
        PROVE  p - z <= m /\ m < p
    <3>1. /\ (p - 1) - m < z /\ m - (p - z) < z
      BY <2>2, <2>4, <2>5, <2>6, ZenonT(30) DEF StreamInv, Ordered, z
    <3> QED
      BY <1>4, <2>1, <2>2, <2>4, <3>1
  <2> QED
    BY <2>1, <2>2, <2>3, <2>4, <2>5, <2>6 DEF z, p
<1>8. ASSUME NEW k \in 1..Len(seen')
      PROVE  \/ k \in 1..Len(seen) /\ seen'[k] = seen[k]
             \/ k - Len(seen) \in 1..n /\ seen'[k] = es[k - Len(seen)] /\ k > Len(seen)
  BY <1>1, <1>2, <1>6, <1>8
<1>9. \A k \in 1..Len(seen') : \E i \in 1..Len(stream') : stream'[i] = seen'[k]
  <2> SUFFICES ASSUME NEW k \in 1..Len(seen')
               PROVE  \E i \in 1..Len(stream) : stream[i] = seen'[k]
    BY <1>1
  <2>1. CASE k \in 1..Len(seen) /\ seen'[k] = seen[k]
    BY <2>1 DEF SeenInv
  <2>2. CASE k - Len(seen) \in 1..n /\ seen'[k] = es[k - Len(seen)]
    BY <1>7, <2>2, Zenon
  <2> QED
    BY <1>8, <2>1, <2>2
<1>10. ASSUME NEW k \in 1..Len(seen'), NEW m \in 1..Len(stream), stream[m] = seen'[k]
       PROVE  m <= end
  <2>1. CASE k \in 1..Len(seen) /\ seen'[k] = seen[k]
    <3>1. m <= c
      BY <1>5, <1>10, <2>1 DEF Before
    <3> QED
      BY <1>6, <3>1
  <2>2. CASE k - Len(seen) \in 1..n /\ seen'[k] = es[k - Len(seen)]
    <3>1. m < at[k - Len(seen)] /\ at[k - Len(seen)] <= end /\ at[k - Len(seen)] \in Nat
      BY <1>7, <1>10, <2>2
    <3> QED
      BY <1>6, <3>1
  <2> QED
    BY <1>8, <2>1, <2>2
<1>11. Increasing(seen)'
  <2> SUFFICES ASSUME NEW k \in 1..Len(seen'), NEW l \in 1..Len(seen'), k < l
               PROVE  seen'[k] < seen'[l]
    BY DEF Increasing
  <2> DEFINE a == k - Len(seen)
             b == l - Len(seen)
  <2>0. k \in Nat /\ l \in Nat
    BY <1>1, <1>2, <1>6
  <2>1. CASE k \in 1..Len(seen) /\ l \in 1..Len(seen)
    <3>1. seen'[k] = seen[k] /\ seen'[l] = seen[l]
      <4>1. ~(k > Len(seen)) /\ ~(l > Len(seen))
        BY <1>1, <2>0, <2>1
      <4> QED
        BY <1>8, <4>1, Zenon
    <3> QED
      BY <2>1, <3>1 DEF SeenInv, Increasing
  <2>2. CASE k \in 1..Len(seen) /\ l > Len(seen)
    <3>1. seen'[k] = seen[k] /\ b \in 1..n /\ seen'[l] = es[b]
      <4>1. ~(k > Len(seen)) /\ ~(l \in 1..Len(seen))
        BY <1>1, <2>0, <2>2
      <4> QED
        BY <1>8, <4>1, Zenon
    <3>2. PICK i \in 1..Len(stream) : stream[i] = seen[k]
      BY <2>2 DEF SeenInv
    <3>3. i <= c /\ seen[k] \in Nat \ {0}
      BY <1>1, <1>5, <2>2, <3>2 DEF Before, Events
    <3> HIDE DEF b
    <3>4. i < at[b] - 1 /\ at[b] - 1 \in 1..Len(stream) /\ stream[at[b] - 1] = es[b] /\ es[b] \in Nat \ {0}
      BY <1>7, <3>1, <3>3
    <3>5. seen[k] <= es[b]
      BY <3>2, <3>3, <3>4 DEF StreamInv, Ordered
    <3>6. seen[k] # es[b]
      <4> SUFFICES ASSUME seen[k] = es[b] PROVE FALSE
        OBVIOUS
      <4>1. at[b] - Size[es[b]] <= i /\ c < at[b] - Size[es[b]] /\ at[b] \in Nat /\ Size[es[b]] \in Nat
        BY <1>7, <3>1, <3>2
      <4> QED
        BY <3>3, <4>1
    <3> QED
      BY <3>1, <3>3, <3>4, <3>5, <3>6
  <2>3. CASE k > Len(seen) /\ l > Len(seen)
    <3>1. a \in 1..n /\ b \in 1..n /\ a \in 1..(b - 1) /\ seen'[k] = es[a] /\ seen'[l] = es[b]
      <4>1. k \notin 1..Len(seen) /\ l \notin 1..Len(seen)
        BY <1>1, <2>0, <2>3
      <4>2. a \in 1..n /\ b \in 1..n /\ seen'[k] = es[a] /\ seen'[l] = es[b]
        BY <1>8, <4>1, ZenonT(30)
      <4> QED
        BY <1>1, <2>0, <4>2
    <3> HIDE DEF a, b
    <3>2. /\ at[a] \in Nat /\ at[a] - 1 \in 1..Len(stream) /\ stream[at[a] - 1] = es[a] /\ es[a] \in Nat \ {0}
      BY <1>7, <3>1
    <3>3. /\ at[b] \in Nat /\ at[b] - 1 \in 1..Len(stream) /\ stream[at[b] - 1] = es[b] /\ es[b] \in Nat \ {0}
          /\ at[a] < at[b] - Size[es[b]] /\ Size[es[b]] \in Nat \ {0}
      BY <1>7, <3>1, Zenon
    <3>4. at[a] - 1 < at[b] - 1 /\ at[a] - 1 < at[b] - Size[es[b]]
      <4>1. \A x, y \in Nat, z \in Nat \ {0} : x < y - z => x - 1 < y - 1 /\ x - 1 < y - z
        OBVIOUS
      <4> QED
        BY <3>2, <3>3, <4>1, Zenon
    <3>5. es[a] <= es[b]
      BY <3>2, <3>3, <3>4, ZenonT(30) DEF StreamInv, Ordered
    <3>6. es[a] # es[b]
      <4> SUFFICES ASSUME es[a] = es[b] PROVE FALSE
        OBVIOUS
      <4>1. at[b] - Size[es[b]] <= at[a] - 1
        BY <1>7, <3>1, <3>2, Zenon
      <4> QED
        BY <3>2, <3>3, <3>4, <4>1
    <3> QED
      BY <3>1, <3>2, <3>3, <3>5, <3>6
  <2> QED
    BY <1>1, <1>6, <2>1, <2>2, <2>3
<1>12. offset' <= Bytes(files[0])
  <2>1. end = files[0].lo + offset'
    BY DEF end
  <2> QED
    BY <1>4, <1>6, <2>1 DEF Bytes
<1>13. Before(files[0].lo + offset)' /\ (offset <= Bytes(files[0]))'
  BY <1>1, <1>10, <1>12 DEF Before, end, Bytes
<1> QED
  BY <1>6, <1>9, <1>11, <1>13 DEF SeenInv

\* Writing appends to the log the newline and bytes of the event in hand.
LEMMA WritingAppends ==
  ASSUME CollectorInv, Writing
  PROVE  /\ Exists(0) /\ Exists(0)' /\ Len(stream) <= Len(stream')
         /\ Len(stream) \in Nat /\ Len(stream') \in Nat
         /\ \A i \in 1..Len(stream) : stream'[i] = stream[i]
         /\ \A i \in 1..Len(stream') : i \notin 1..Len(stream) =>
               stream'[i] = 0 \/ (pc = "write" /\ stream'[i] = hand[1])
         /\ files'[0].lo = files[0].lo /\ Bytes(files[0]) <= Bytes(files'[0])
         /\ Bytes(files[0]) \in Nat /\ Bytes(files'[0]) \in Nat
<1> DEFINE L == Len(stream)
           e == hand[1]
<1>1. PICK b \in Seq(0..MaxEvents) :
         /\ Put(b)
         /\ \A i \in 1..Len(b) : b[i] = 0 \/ (pc = "write" /\ b[i] = e /\ i <= Size[e])
  BY WritingBytes, Zenon
<1>2. Exists(0)
  BY WritingBytes, Zenon
<1>3. /\ Len(stream') = L + Len(b) /\ (\A i \in 1..L : stream'[i] = stream[i])
      /\ (\A i \in 1..Len(b) : stream'[L + i] = b[i]) /\ Exists(0)'
      /\ files'[0].lo = files[0].lo /\ files'[0].hi = files[0].hi + Len(b)
  BY <1>1, <1>2, PutFacts, Zenon DEF CollectorInv
<1>4. L \in Nat /\ Len(b) \in Nat
  BY LenProperties DEF CollectorInv, TypeOK
<1>5. files[0].lo \in Nat /\ files[0].hi \in Nat /\ files[0].lo <= files[0].hi
  <2>1. 0 \in 0..Generations
    BY CollectorAssumption
  <2> QED
    BY <1>2, <2>1, FileFacts DEF CollectorInv
<1> HIDE DEF L
<1>6. /\ L <= Len(stream') /\ Len(stream') \in Nat
      /\ Bytes(files[0]) \in Nat /\ Bytes(files'[0]) \in Nat
      /\ Bytes(files[0]) <= Bytes(files'[0])
  <2>1. L <= Len(stream') /\ Len(stream') \in Nat
    BY <1>3, <1>4
  <2>2. \A lo, hi, n \in Nat : lo <= hi =>
            hi - lo \in Nat /\ (hi + n) - lo \in Nat /\ hi - lo <= (hi + n) - lo
    OBVIOUS
  <2> QED
    BY <1>3, <1>4, <1>5, <2>1, <2>2, ZenonT(30) DEF Bytes
<1>7. ASSUME NEW i \in 1..Len(stream'), i \notin 1..L
      PROVE  stream'[i] = 0 \/ (pc = "write" /\ stream'[i] = e)
  <2>1. i - L \in 1..Len(b) /\ L + (i - L) = i
    BY <1>3, <1>4, <1>7
  <2> QED
    BY <1>1, <1>3, <2>1, Zenon
<1> QED
  BY <1>2, <1>3, <1>4, <1>6, <1>7, Zenon DEF L

\* Whatever the gateway does, the tailer has still passed what it has seen.
LEMMA GatewayKeeps ==
  ASSUME CollectorInv, StreamInv, SeenInv, [Next]_vars, UNCHANGED <<offset, seen>>
  PROVE  SeenInv'
<1>1. /\ offset \in Nat /\ seen \in Seq(Events) /\ Increasing(seen) /\ Len(seen) \in Nat
      /\ \A k \in 1..Len(seen) : seen[k] # 0 /\ \E i \in 1..Len(stream) : stream[i] = seen[k]
  <2>1. /\ offset \in Nat /\ seen \in Seq(Events) /\ Increasing(seen)
        /\ \A k \in 1..Len(seen) : \E i \in 1..Len(stream) : stream[i] = seen[k]
    BY DEF SeenInv
  <2>2. Len(seen) \in Nat /\ \A k \in 1..Len(seen) : seen[k] \in Events
    BY <2>1, LenProperties, Zenon
  <2> QED
    BY <2>1, <2>2 DEF Events
<1>2. Increasing(seen)' /\ offset' \in Nat /\ seen' \in Seq(Events)
  BY <1>1 DEF Increasing
<1>3. CASE Writing
  <2> DEFINE L == Len(stream)
             e == hand[1]
  <2>1. /\ Exists(0) /\ Exists(0)' /\ L <= Len(stream') /\ L \in Nat /\ Len(stream') \in Nat
        /\ (\A i \in 1..L : stream'[i] = stream[i])
        /\ \A i \in 1..Len(stream') : i \notin 1..L =>
              stream'[i] = 0 \/ (pc = "write" /\ stream'[i] = e)
        /\ files'[0].lo = files[0].lo /\ Bytes(files[0]) <= Bytes(files'[0])
        /\ Bytes(files[0]) \in Nat /\ Bytes(files'[0]) \in Nat
    BY <1>3, WritingAppends, Zenon
  <2>2. \A k \in 1..Len(seen) : pc = "write" => seen[k] # e
    <3>1. \A i \in 1..L : stream[i] \in Nat
      <4>1. stream \in Seq(0..MaxEvents) /\ 0..MaxEvents \subseteq Nat
        BY DEF CollectorInv, TypeOK
      <4> QED
        BY <4>1, LenProperties, Zenon
    <3>2. pc = "write" => e \in Nat
      BY ChanFacts
    <3>3. pc = "write" => \A i \in 1..L : stream[i] < e
      BY DEF StreamInv, Queued
    <3>4. pc = "write" => \A i \in 1..L : stream[i] # e
      BY <3>1, <3>2, <3>3
    <3> QED
      BY <1>1, <3>4, Zenon
  <2> HIDE DEF L, e
  <2>3. \A i \in 1..L : i \in 1..Len(stream')
    BY <2>1
  <2>4. \A k \in 1..Len(seen) : \A i \in 1..Len(stream') :
            stream'[i] = seen[k] => i \in 1..L /\ stream[i] = seen[k]
    BY <1>1, <2>1, <2>2, Zenon
  <2>5. ASSUME NEW q, Before(q)
        PROVE  \A k \in 1..Len(seen) : \A i \in 1..Len(stream') : stream'[i] = seen[k] => i <= q
    BY <2>4, <2>5, Zenon DEF Before, L
  <2>6. \A k \in 1..Len(seen) : \E i \in 1..Len(stream') : stream'[i] = seen[k]
    BY <1>1, <2>1, <2>3, ZenonT(30) DEF L
  <2>7. \/ Before(files[0].lo)'
        \/ (offset <= Bytes(files[0]))' /\ Before(files[0].lo + offset)'
    <3>1. CASE Before(files[0].lo)
      BY <2>1, <2>5, <3>1 DEF Before
    <3>2. CASE offset <= Bytes(files[0]) /\ Before(files[0].lo + offset)
      <4>1. (offset <= Bytes(files[0]))'
        BY <1>1, <2>1, <3>2 DEF Bytes
      <4>2. Before(files[0].lo + offset)'
        BY <2>1, <2>5, <3>2 DEF Before
      <4> QED
        BY <4>1, <4>2
    <3> QED
      BY <2>1, <3>1, <3>2 DEF SeenInv
  <2> QED
    BY <1>2, <2>6, <2>7 DEF SeenInv
<1>4. CASE UNCHANGED stream /\ (files'[0] = files[0] \/ files'[0] = NoFile)
  BY <1>4 DEF SeenInv, Increasing, Before, Exists, Bytes
<1>5. files \in [0..Generations -> FileType] /\ 0 \in 0..Generations /\ Generations \in Nat \ {0}
  BY CollectorAssumption DEF CollectorInv, TypeOK
<1>6. CASE OpenLog
  <2>1. CASE Exists(0)
    BY <1>4, <1>6, <2>1 DEF OpenLog
  <2>2. CASE ~Exists(0)
    <3>1. UNCHANGED stream /\ files'[0].lo = Len(stream)
      BY <1>5, <1>6, <2>2 DEF OpenLog
    <3>2. Len(stream) \in Nat
      BY LenProperties DEF CollectorInv, TypeOK
    <3>3. Before(files[0].lo)'
      BY <3>1, <3>2 DEF Before
    <3> QED
      BY <1>1, <1>2, <3>1, <3>3 DEF SeenInv
  <2> QED
    BY <2>1, <2>2
<1>7. CASE RemoveOldest
  BY <1>4, <1>5, <1>7 DEF RemoveOldest
<1>8. CASE Shift
  <2>1. shift \in 1..(Generations - 1)
    BY <1>8 DEF Shift, CollectorInv, StepInv
  <2>2. shift \in 0..(Generations - 1) /\ 0 # shift /\ 0 # shift + 1
    BY <2>1
  <2>3. Moved(shift)[0] = files[0]
    BY <1>5, <2>2, MovedFacts, ZenonT(30)
  <2> QED
    BY <1>4, <1>8, <2>3 DEF Shift
<1>9. CASE RenameLog
  <2>1. 0 \in 0..(Generations - 1)
    BY <1>5
  <2>2. Moved(0)[0] = NoFile
    BY <1>5, <2>1, MovedFacts, ZenonT(30)
  <2> QED
    BY <1>4, <1>9, <2>2 DEF RenameLog
<1>10. CASE UNCHANGED vars \/ Send \/ SendDropped \/ Recv \/ OpenFails \/ Stop \/ Restart
  BY <1>4, <1>10 DEF vars, Send, SendDropped, Recv, OpenFails, Stop, Restart
<1> QED
  BY <1>3, <1>6, <1>7, <1>8, <1>9, <1>10 DEF Next, Run, Writing

-----------------------------------------------------------------------------
(* What the store has is what was logged *)

\* A newline that follows a byte ends the line of an event that was logged, and
\* while a newline is due the log ends with the line it is due for.
NewlineInv ==
    /\ \A i \in 1..(Len(stream) - 1) :
          stream[i] # 0 /\ stream[i + 1] = 0 => stream[i] \in Range(logged)
    /\ pc = "newline" => Len(stream) > 0 /\ stream[Len(stream)] = hand[1]

\* What was logged stays so, and the event in hand joins it.
LEMMA LoggedGrows ==
  ASSUME CollectorInv, hand # <<>>, logged' = logged \o hand
  PROVE  Range(logged) \subseteq Range(logged') /\ hand[1] \in Range(logged')
<1>1. /\ Len(logged) \in Nat /\ logged' \in Seq(Events) /\ Len(logged') = Len(logged) + 1
      /\ (\A k \in 1..Len(logged) : logged'[k] = logged[k])
      /\ logged'[Len(logged) + 1] = hand[1]
  BY LoggedFacts, ZenonT(30)
<1>2. DOMAIN logged = 1..Len(logged) /\ DOMAIN logged' = 1..(Len(logged) + 1)
  BY <1>1, LenProperties DEF CollectorInv, TypeOK
<1>3. (\A k \in 1..Len(logged) : k \in 1..(Len(logged) + 1)) /\ Len(logged) + 1 \in 1..(Len(logged) + 1)
  BY <1>1
<1>4. Range(logged) = {logged[k] : k \in 1..Len(logged)}
  BY <1>2, Zenon DEF Range
<1>5. Range(logged') = {logged'[k] : k \in 1..(Len(logged) + 1)}
  BY <1>2, Zenon DEF Range
<1>6. ASSUME NEW x \in Range(logged) PROVE x \in Range(logged')
  <2>1. PICK k \in 1..Len(logged) : x = logged[k]
    BY <1>4, <1>6, Zenon
  <2>2. x = logged'[k] /\ k \in 1..(Len(logged) + 1)
    BY <1>1, <1>3, <2>1, ZenonT(30)
  <2> QED
    BY <1>5, <2>2, Zenon
<1>7. hand[1] \in Range(logged')
  BY <1>1, <1>3, <1>5, ZenonT(30)
<1> QED
  BY <1>6, <1>7, Zenon

\* Where writes do not fail, only the newline of an event that is then logged is
\* written after a byte: a line torn by the death of the process is never ended.
LEMMA NewlineStep ==
  ASSUME "write" \notin Faults, CollectorInv, NewlineInv
  PROVE  [Next]_vars => NewlineInv' /\ Range(logged) \subseteq Range(logged')
<1> DEFINE L == Len(stream)
           e == hand[1]
<1>1. L \in Nat /\ stream \in Seq(0..MaxEvents)
  BY LenProperties DEF CollectorInv, TypeOK
<1>2. CASE WriteLine \/ WriteBody \/ WriteNewline
  <2>1. /\ pc \in {"write", "newline"} /\ hand # <<>> /\ e \in Events /\ Exists(0)
        /\ Size[e] \in Nat \ {0} /\ e # 0
    <3>1. pc \in {"write", "newline"}
      BY <1>2 DEF WriteLine, WriteBody, WriteNewline
    <3>2. hand # <<>> /\ e \in Events /\ Exists(0)
      BY <1>2, <3>1, WritingPuts DEF Writing, CollectorInv, TypeOK
    <3> QED
      BY <3>1, <3>2, LineFacts DEF Events
  <2>2. ASSUME NEW b \in Seq(0..MaxEvents), Put(b)
        PROVE  /\ Len(stream') = L + Len(b) /\ Len(b) \in Nat
               /\ (\A i \in 1..L : stream'[i] = stream[i])
               /\ \A i \in 1..Len(b) : stream'[L + i] = b[i]
    BY <2>1, <2>2, PutFacts, LenProperties, ZenonT(30) DEF CollectorInv
  <2>3. ASSUME Range(logged) \subseteq Range(logged'), L <= Len(stream'), Len(stream') \in Nat,
               \A i \in 1..L : stream'[i] = stream[i],
               \A i \in L..(Len(stream') - 1) :
                   i # 0 /\ stream'[i] # 0 /\ stream'[i + 1] = 0 => stream'[i] \in Range(logged')
        PROVE  \A i \in 1..(Len(stream') - 1) :
                   stream'[i] # 0 /\ stream'[i + 1] = 0 => stream'[i] \in Range(logged')
    <3> SUFFICES ASSUME NEW i \in 1..(Len(stream') - 1), stream'[i] # 0, stream'[i + 1] = 0
                 PROVE  stream'[i] \in Range(logged')
      OBVIOUS
    <3>1. CASE i \in 1..(L - 1)
      <4>1. i \in 1..L /\ i + 1 \in 1..L
        BY <1>1, <3>1
      <4>2. stream'[i] = stream[i] /\ stream'[i + 1] = stream[i + 1]
        BY <2>3, <4>1
      <4> QED
        BY <2>3, <3>1, <4>2 DEF NewlineInv
    <3>2. CASE i \notin 1..(L - 1)
      <4>1. i \in L..(Len(stream') - 1) /\ i # 0
        BY <1>1, <2>3, <3>2
      <4> QED
        BY <2>3, <4>1
    <3> QED
      BY <3>1, <3>2
  <2>4. /\ Line(e) \in Seq(0..MaxEvents) /\ Len(Line(e)) = Size[e]
        /\ (\A i \in 1..Size[e] : Line(e)[i] = e)
        /\ Append(Line(e), 0) \in Seq(0..MaxEvents) /\ Len(Append(Line(e), 0)) = Size[e] + 1
    BY <2>1, LineFacts, Zenon
  <2>5. CASE WriteLine
    <3>1. /\ Put(Append(Line(e), 0)) /\ logged' = logged \o hand /\ pc' # "newline"
      BY <2>5 DEF WriteLine, LineDone
    <3>2. Range(logged) \subseteq Range(logged') /\ e \in Range(logged')
      BY <2>1, <3>1, LoggedGrows, Zenon
    <3>3. /\ Len(stream') = L + (Size[e] + 1) /\ (\A i \in 1..L : stream'[i] = stream[i])
          /\ \A i \in 1..(Size[e] + 1) : stream'[L + i] = Append(Line(e), 0)[i]
      BY <2>2, <2>4, <3>1, ZenonT(30)
    <3>4. \A i \in 1..Size[e] : Append(Line(e), 0)[i] = e
      BY <2>1, <2>4, CollectorAssumption, AppendProperties
    <3>5. \A i \in 1..Size[e] : stream'[L + i] = e
      <4>1. \A i \in 1..Size[e] : i \in 1..(Size[e] + 1)
        BY <2>1
      <4> QED
        BY <3>3, <3>4, <4>1, ZenonT(30)
    <3> HIDE DEF L, e
    <3>6. ASSUME NEW i \in L..(Len(stream') - 1), stream'[i + 1] = 0, stream'[i] # 0
          PROVE  stream'[i] \in Range(logged')
      <4>1. CASE i = L + Size[e]
        BY <2>1, <3>2, <3>5, <4>1
      <4>2. CASE i # L + Size[e]
        <5>1. i + 1 - L \in 1..Size[e] /\ L + (i + 1 - L) = i + 1
          <6>1. \A l \in Nat, z \in Nat \ {0}, j \in Int :
                    j \in l..(l + (z + 1) - 1) /\ j # l + z =>
                        j + 1 - l \in 1..z /\ l + (j + 1 - l) = j + 1
            OBVIOUS
          <6>2. i \in L..(L + (Size[e] + 1) - 1)
            <7>1. Len(stream') = L + (Size[e] + 1)
              BY <3>3
            <7>2. Len(stream') - 1 = L + (Size[e] + 1) - 1
              BY <1>1, <2>1, <7>1
            <7> QED
              BY <7>2
          <6>3. i \in Int
            BY <6>2
          <6> QED
            BY <1>1, <2>1, <4>2, <6>1, <6>2, <6>3, ZenonT(30)
        <5>2. stream'[L + (i + 1 - L)] = e
          BY <3>5, <5>1
        <5> QED
          BY <2>1, <3>6, <5>1, <5>2, ZenonT(30)
      <4> QED
        BY <4>1, <4>2
    <3>7. L <= Len(stream') /\ Len(stream') \in Nat
      BY <1>1, <2>1, <3>3
    <3> QED
      BY <2>3, <3>1, <3>2, <3>3, <3>6, <3>7, ZenonT(30) DEF NewlineInv
  <2>6. CASE WriteBody
    <3>1. Put(Line(e)) /\ UNCHANGED <<logged, hand>>
      BY <2>6 DEF WriteBody
    <3>2. /\ Len(stream') = L + Size[e] /\ (\A i \in 1..L : stream'[i] = stream[i])
          /\ \A i \in 1..Size[e] : stream'[L + i] = e
      BY <2>2, <2>4, <3>1, ZenonT(30)
    <3>3. Size[e] \in 1..Size[e]
      BY <2>1
    <3>4. stream'[Len(stream')] = hand'[1]
      BY <3>1, <3>2, <3>3, Zenon
    <3> HIDE DEF L, e
    <3>5. ASSUME NEW i \in L..(Len(stream') - 1)
          PROVE  stream'[i + 1] # 0
      <4>1. i + 1 - L \in 1..Size[e] /\ L + (i + 1 - L) = i + 1
        BY <1>1, <2>1, <3>2
      <4>2. stream'[L + (i + 1 - L)] = e
        BY <3>2, <4>1
      <4> QED
        BY <2>1, <4>1, <4>2, ZenonT(30)
    <3>6. L <= Len(stream') /\ Len(stream') \in Nat /\ Len(stream') > 0
      BY <1>1, <2>1, <3>2
    <3> QED
      BY <2>3, <3>1, <3>2, <3>4, <3>5, <3>6, ZenonT(30) DEF NewlineInv
  <2>7. CASE WriteNewline
    <3>1. Put(<<0>>) /\ logged' = logged \o hand /\ pc' # "newline" /\ pc = "newline"
      BY <2>7 DEF WriteNewline, LineDone
    <3>2. Range(logged) \subseteq Range(logged') /\ e \in Range(logged')
      BY <2>1, <3>1, LoggedGrows, ZenonT(30)
    <3>3. <<0>> \in Seq(0..MaxEvents) /\ Len(<<0>>) = 1
      BY CollectorAssumption
    <3>4. Len(stream') = L + 1 /\ \A i \in 1..L : stream'[i] = stream[i]
      BY <2>2, <3>1, <3>3, ZenonT(30)
    <3>5. L > 0 /\ stream[L] = e
      BY <3>1 DEF NewlineInv
    <3> HIDE DEF L, e
    <3>6. ASSUME NEW i \in L..(Len(stream') - 1)
          PROVE  stream'[i] = e
      BY <1>1, <3>4, <3>5
    <3>7. L <= Len(stream') /\ Len(stream') \in Nat
      BY <1>1, <3>4
    <3> QED
      BY <2>3, <3>1, <3>2, <3>4, <3>6, <3>7, ZenonT(30) DEF NewlineInv
  <2> QED
    BY <1>2, <2>5, <2>6, <2>7
<1>3. CASE UNCHANGED <<stream, logged>> /\ (pc' # "newline" \/ UNCHANGED <<pc, hand>>)
  BY <1>3, Zenon DEF NewlineInv
<1>4. CASE UNCHANGED vars \/ Send \/ SendDropped \/ OpenLog \/ OpenFails \/ Recv
           \/ RemoveOldest \/ Shift \/ RenameLog \/ Stop \/ Restart
  <2>1. UNCHANGED <<stream, logged>> /\ (pc' # "newline" \/ UNCHANGED <<pc, hand>>)
    BY <1>4 DEF vars, Send, SendDropped, OpenLog, OpenFails, Recv, RemoveOldest, Shift,
                RenameLog, Stop, Restart
  <2> QED
    BY <1>3, <2>1
<1>5. ~WriteFails
  BY DEF WriteFails
<1> QED
  BY <1>2, <1>4, <1>5 DEF Next, Run

-----------------------------------------------------------------------------
(* Theorems about the tailer *)

TailInv == CollectorInv /\ StreamInv /\ SeenInv

\* The gateway and the tailer keep what each relies on.
LEMMA TailStep == TailInv /\ [TailNext]_all_vars => TailInv'
<1> SUFFICES ASSUME TailInv, [TailNext]_all_vars
             PROVE  TailInv'
  OBVIOUS
<1>1. [Next]_vars /\ (Gateway \/ Poll \/ RestartDashboard \/ UNCHANGED all_vars)
  BY DEF TailNext, Gateway, Poll, RestartDashboard, all_vars
<1>2. CollectorInv' /\ StreamInv'
  BY <1>1, CollectorStep, StreamStep DEF TailInv
<1>3. SeenInv'
  <2>1. CASE UNCHANGED <<offset, seen>>
    BY <1>1, <2>1, GatewayKeeps DEF TailInv
  <2>2. CASE Poll
    BY <2>2, PollKeeps DEF TailInv
  <2>3. CASE RestartDashboard
    BY <2>3 DEF RestartDashboard, SeenInv, Increasing, Before
  <2> QED
    BY <1>1, <2>1, <2>2, <2>3 DEF Gateway, dash_vars, all_vars
<1> QED
  BY <1>2, <1>3 DEF TailInv

\* The tailer starts with nothing seen.
LEMMA TailStarts == TailInit => TailInv
<1> SUFFICES ASSUME TailInit PROVE TailInv
  OBVIOUS
<1>1. CollectorInv
  BY CollectorAssumption
  DEF TailInit, Init, CollectorInv, TypeOK, StepInv, FileType, NoFile
<1>2. StreamInv
  BY CollectorAssumption DEF TailInit, Init, StreamInv, Ordered, Queued, Exists
<1>3. SeenInv
  BY DEF TailInit, Init, SeenInv, Increasing, Before
<1> QED
  BY <1>1, <1>2, <1>3 DEF TailInv

\* The store ingests every event at most once and in the order of sending,
\* whatever tail_attacks_log meets: rotations, torn and overlong lines, failing
\* writes and renames, and the death of either process.
THEOREM SeenStaysInOrder == TailSpec => []SeenOnceInOrder
<1>1. TailInit => TailInv
  BY TailStarts
<1>2. TailInv /\ [TailNext]_all_vars => TailInv'
  BY TailStep
<1>3. TailInv => SeenOnceInOrder
  BY DEF TailInv, SeenInv, SeenOnceInOrder
<1> QED
  BY <1>1, <1>2, <1>3, PTL DEF TailSpec

\* Where the writes of the log do not fail, the store ingests only events whose
\* lines were written to their end: what a death of the gateway left of a line,
\* alone or run together with the next, is not taken for an event.
THEOREM SeenIsWritten ==
  ASSUME "write" \notin Faults
  PROVE  TailSpec => []SeenWasWritten
<1> DEFINE Inv == TailInv /\ NewlineInv /\ SeenWasWritten
<1>1. TailInit => Inv
  <2>1. TailInit => NewlineInv /\ SeenWasWritten
    BY DEF TailInit, Init, NewlineInv, SeenWasWritten
  <2> QED
    BY <2>1, TailStarts
<1>2. Inv /\ [TailNext]_all_vars => Inv'
  <2> SUFFICES ASSUME Inv, [TailNext]_all_vars
               PROVE  Inv'
    OBVIOUS
  <2>1. TailInv'
    BY TailStep
  <2>2. [Next]_vars /\ (Gateway \/ Poll \/ RestartDashboard \/ UNCHANGED all_vars)
    BY DEF TailNext, Gateway, Poll, RestartDashboard, all_vars
  <2>3. NewlineInv' /\ Range(logged) \subseteq Range(logged')
    BY <2>2, NewlineStep DEF TailInv
  <2>4. SeenWasWritten'
    <3>1. CASE UNCHANGED seen
      BY <2>3, <3>1 DEF SeenWasWritten
    <3>2. CASE RestartDashboard
      BY <3>2 DEF RestartDashboard, SeenWasWritten
    <3>3. CASE Poll
      <4>1. /\ CollectorInv /\ StreamInv /\ offset \in Nat /\ seen \in Seq(Events)
            /\ Len(seen) \in Nat /\ Len(stream) \in Nat
        BY LenProperties DEF TailInv, SeenInv, CollectorInv, TypeOK
      <4>2. PICK c \in Nat, n \in Nat :
                \E es \in [1..n -> Events], at \in [1..n -> Nat] : Reads(c, n, es, at)
        BY <3>3, <4>1, PollReads, Zenon
      <4>3. PICK es \in [1..n -> Events], at \in [1..n -> Nat] : Reads(c, n, es, at)
        BY <4>2, ZenonT(30)
      <4>4. Len(seen') = Len(seen) + n /\ \A k \in 1..(Len(seen) + n) :
                seen'[k] = IF k <= Len(seen) THEN seen[k] ELSE es[k - Len(seen)]
        BY <4>3 DEF Reads
      <4>5. ASSUME NEW i \in 1..n
            PROVE  es[i] \in Range(logged)
        <5> DEFINE p == at[i]
                   z == Size[es[i]]
                   end == files[0].lo + offset'
        <5>1. es[i] \in Events /\ p \in Nat
          BY <4>3, <4>5, ZenonT(30)
        <5>2. z \in Nat \ {0} /\ es[i] # 0
          BY <5>1, LineFacts DEF Events
        <5>3. /\ p <= end /\ end <= Len(stream) /\ c < p - z /\ stream[p] = 0
              /\ \A j \in 1..z : stream[p - j] = es[i]
          BY <4>3, <4>5, Zenon DEF Reads
        <5>4. end \in Int
          <6>1. Exists(0) /\ 0 \in 0..Generations
            BY <3>3, CollectorAssumption DEF Poll
          <6>2. files[0].lo \in Nat
            BY <4>1, <6>1, FileFacts DEF CollectorInv
          <6> QED
            BY <4>3, <6>2 DEF Reads
        <5> HIDE DEF p, z, end
        <5>5. p - 1 \in 1..(Len(stream) - 1) /\ (p - 1) + 1 = p /\ 1 \in 1..z
          BY <4>1, <4>2, <5>1, <5>2, <5>3, <5>4
        <5>6. stream[p - 1] = es[i] /\ stream[(p - 1) + 1] = 0
          BY <5>3, <5>5, ZenonT(30)
        <5> QED
          BY <5>2, <5>5, <5>6, ZenonT(30) DEF NewlineInv
      <4>6. ASSUME NEW k \in 1..Len(seen')
            PROVE  seen'[k] \in Range(logged)
        <5>1. CASE k <= Len(seen)
          <6>1. k \in 1..Len(seen) /\ seen'[k] = seen[k]
            BY <4>1, <4>2, <4>4, <5>1
          <6> QED
            BY <6>1, ZenonT(30) DEF SeenWasWritten
        <5>2. CASE ~(k <= Len(seen))
          <6>1. k - Len(seen) \in 1..n /\ seen'[k] = es[k - Len(seen)]
            BY <4>1, <4>2, <4>4, <5>2
          <6> QED
            BY <4>5, <6>1, ZenonT(30)
        <5> QED
          BY <5>1, <5>2
      <4> QED
        BY <2>3, <4>6, ZenonT(30) DEF SeenWasWritten
    <3> QED
      BY <2>2, <3>1, <3>2, <3>3 DEF Gateway, dash_vars, all_vars
  <2> QED
    BY <2>1, <2>3, <2>4
<1> QED
  BY <1>1, <1>2, PTL DEF TailSpec
=============================================================================
