---------------------------- MODULE SessionShell ----------------------------
(***************************************************************************)
(* One admitted SSH session as its connection's callbacks drive it: the    *)
(* shell request, the line discipline that turns packets of bytes into     *)
(* command lines, the budget of payload fetches, the recording of the      *)
(* terminal, the end of the session and the drop of its handler.           *)
(*                                                                         *)
(* A byte is its class. A printable byte is a letter (with the tilde: the  *)
(* bytes that end an escape sequence), a space, or any other.              *)
(***************************************************************************)
EXTENDS Integers, Sequences, FiniteSets

CONSTANTS
    MaxCommandLen,   \* MAX_COMMAND_LEN
    MaxEscapeLen,    \* MAX_ESCAPE_SEQ_LEN
    MaxFetches,      \* forensics.max_fetches_per_session
    CastCap,         \* MAX_CAST_BYTES, in records
    Bytes,           \* the classes of bytes a client sends
    MaxShells,       \* bound on the shell requests of a session
    MaxInput,        \* bound on the bytes of a session
    MaxPacket        \* bound on the bytes of a packet

Printable == {"letter", "mark", "space"}
AllBytes == Printable \cup {"cr", "lf", "esc", "del", "ctrl_c", "ctrl_d", "other"}

ASSUME SessionShellAssumption ==
    /\ MaxCommandLen \in Nat \ {0} /\ MaxEscapeLen \in Nat \ {0}
    /\ MaxFetches \in Nat /\ CastCap \in Nat
    /\ MaxShells \in Nat /\ MaxInput \in Nat /\ MaxPacket \in Nat
    /\ Bytes \subseteq AllBytes

VARIABLES
    pc,            \* "idle" between callbacks, "data" in one, "fetch" in its wait
                   \* for a download, "dropped" once the handler is gone
    packet,        \* the bytes of the data callback not handled yet
    escape_seq, escape_len, last_byte, cmd_buffer, fetch_count, is_ended,
    rec,           \* the recorder: records on disk, records buffered, truncated
    screen,        \* history: what was sent to the client's terminal
    events,        \* history: the events sent
    input          \* history: the bytes handled

editor == <<escape_seq, escape_len, last_byte, cmd_buffer>>
vars == <<pc, packet, editor, fetch_count, is_ended, rec, screen, events, input>>

Count(seq, x) == Cardinality({i \in 1..Len(seq) : seq[i] = x})

-----------------------------------------------------------------------------
(* SessionRecorder *)

\* A record is what it holds, tagged with the stream it is of.
Out(what) == [kind |-> "o", what |-> what]
In(what) == [kind |-> "i", what |-> what]
Truncation == Out("truncated")

\* write_record of each of some records: those that fit are buffered; the first
\* that does not puts a mark in its place, flushes, and ends the recording.
Recorded(r, records) ==
    LET all == r.cast \o r.buffered \o records IN
    IF r.truncated THEN r
    ELSE IF Len(all) <= CastCap THEN [r EXCEPT !.buffered = @ \o records]
    ELSE [cast |-> Append(SubSeq(all, 1, CastCap), Truncation),
          buffered |-> <<>>, truncated |-> TRUE]

Flushed(r) == [r EXCEPT !.cast = r.cast \o r.buffered, !.buffered = <<>>]

\* send_output: to the terminal, and to the recording.
Show(outputs) ==
    /\ screen' = screen \o outputs
    /\ rec' = Recorded(rec, [i \in 1..Len(outputs) |-> Out(outputs[i])])

\* Mutant: teardown_session does not look whether it has run before.
TeardownAgain(sent, r) ==
    /\ is_ended' = TRUE
    /\ events' = Append(sent, "SessionEnd")
    /\ rec' = Flushed(r)

\* teardown_session, after some events and records: the end is announced and
\* the recording closed, the first time only.
Teardown(sent, r) ==
    /\ is_ended' = TRUE
    /\ events' = IF is_ended THEN sent ELSE Append(sent, "SessionEnd")
    /\ rec' = IF is_ended THEN r ELSE Flushed(r)

-----------------------------------------------------------------------------
(* Callbacks between packets *)

\* shell_request: nothing keeps a client from asking again.
ShellRequest ==
    /\ pc = "idle" /\ Count(events, "SessionStart") < MaxShells
    /\ events' = Append(events, "SessionStart")
    /\ Show(<<"banner", "prompt">>)
    /\ UNCHANGED <<pc, packet, editor, fetch_count, is_ended, input>>

\* The data callback is entered with a packet. Bounds: MaxPacket, MaxInput.
Data ==
    /\ pc = "idle"
    /\ \E p \in UNION {[1..n -> Bytes] : n \in 1..MaxPacket} :
         /\ Len(input) + Len(p) <= MaxInput
         /\ packet' = p
    /\ pc' = "data"
    /\ UNCHANGED <<editor, fetch_count, is_ended, rec, screen, events, input>>

\* channel_close
ChannelClose ==
    /\ pc = "idle"
    /\ Teardown(events, rec)
    /\ UNCHANGED <<pc, packet, editor, fetch_count, screen, input>>

\* The connection is gone, a write to it failed in a callback, or the process
\* was killed: what the BufWriter held is not written.
Drop ==
    /\ pc # "dropped"
    /\ pc' = "dropped"
    /\ packet' = <<>>
    /\ rec' = [rec EXCEPT !.buffered = <<>>]
    /\ UNCHANGED <<editor, fetch_count, is_ended, screen, events, input>>

-----------------------------------------------------------------------------
(* data, byte by byte *)

Byte == Head(packet)

\* The next byte of the packet is handled.
Take ==
    /\ pc = "data" /\ packet # <<>>
    /\ input' = Append(input, Byte)
    /\ last_byte' = Byte

Skip ==
    /\ packet' = Tail(packet)
    /\ UNCHANGED <<pc, cmd_buffer, fetch_count, is_ended, rec, screen, events>>

Escape ==
    /\ Take /\ Byte = "esc"
    /\ escape_seq' = TRUE /\ escape_len' = 0
    /\ Skip

EscapeEnds == Byte = "letter" \/ escape_len + 1 >= MaxEscapeLen

EscapeByte ==
    /\ Take /\ Byte # "esc" /\ escape_seq
    /\ escape_len' = escape_len + 1
    /\ escape_seq' = ~EscapeEnds
    /\ Skip

\* A byte that reaches the match.
Plain == Take /\ Byte # "esc" /\ ~escape_seq /\ UNCHANGED <<escape_seq, escape_len>>

\* Mutant: every carriage return and every newline ends a line.
NeverSecondOfPair == FALSE

SecondOfPair == Byte = "lf" /\ last_byte = "cr"

SkipNewline == Plain /\ SecondOfPair /\ Skip

Blank(line) == \A i \in 1..Len(line) : line[i] = "space"

EndLine ==
    /\ Plain /\ Byte \in {"cr", "lf"} /\ ~SecondOfPair
    /\ cmd_buffer' = <<>>

BlankLine ==
    /\ EndLine /\ Blank(cmd_buffer)
    /\ packet' = Tail(packet)
    /\ Show(<<"newline", "prompt">>)
    /\ UNCHANGED <<pc, fetch_count, is_ended, events>>

CommandLine == EndLine /\ ~Blank(cmd_buffer)
RunEvents == Append(events, "CommandRun")
RunRecords == <<Out("newline"), In("command")>>

\* A command of the virtual shell; or a download without a URL, with downloads
\* switched off, or over the budget. Answered at once.
RunCommand ==
    /\ CommandLine
    /\ packet' = Tail(packet)
    /\ events' = RunEvents
    /\ screen' = screen \o <<"newline", "response", "prompt">>
    /\ rec' = Recorded(rec, RunRecords \o <<Out("response"), Out("prompt")>>)
    /\ UNCHANGED <<pc, fetch_count, is_ended>>

\* exit or logout: the session ends, and the rest of the packet is discarded.
RunExit ==
    /\ CommandLine
    /\ packet' = <<>> /\ pc' = "idle"
    /\ screen' = screen \o <<"newline", "logout">>
    /\ Teardown(RunEvents, Recorded(rec, Append(RunRecords, Out("logout"))))
    /\ UNCHANGED fetch_count

\* A download within the budget: the callback waits for it.
RunDownload ==
    /\ CommandLine /\ fetch_count < MaxFetches
    /\ packet' = Tail(packet) /\ pc' = "fetch"
    /\ fetch_count' = fetch_count + 1
    /\ events' = RunEvents
    /\ screen' = Append(screen, "newline")
    /\ rec' = Recorded(rec, RunRecords)
    /\ UNCHANGED is_ended

\* The download is in, or came to nothing, or took longer than the timeout.
FetchDone ==
    /\ pc = "fetch"
    /\ pc' = "data"
    /\ events' \in {events, Append(events, "PayloadCaptured")}
    /\ Show(<<"response", "prompt">>)
    /\ UNCHANGED <<packet, editor, fetch_count, is_ended, input>>

\* Mutant: the correction is shown but not recorded.
BackspaceUnrecorded ==
    /\ Plain /\ Byte = "del" /\ cmd_buffer # <<>>
    /\ packet' = Tail(packet)
    /\ cmd_buffer' = SubSeq(cmd_buffer, 1, Len(cmd_buffer) - 1)
    /\ screen' = Append(screen, "erase")
    /\ UNCHANGED <<pc, fetch_count, is_ended, rec, events>>

Backspace ==
    /\ Plain /\ Byte = "del" /\ cmd_buffer # <<>>
    /\ packet' = Tail(packet)
    /\ cmd_buffer' = SubSeq(cmd_buffer, 1, Len(cmd_buffer) - 1)
    /\ Show(<<"erase">>)
    /\ UNCHANGED <<pc, fetch_count, is_ended, events>>

CtrlC ==
    /\ Plain /\ Byte = "ctrl_c"
    /\ packet' = Tail(packet)
    /\ cmd_buffer' = <<>>
    /\ Show(<<"ctrl_c", "prompt">>)
    /\ UNCHANGED <<pc, fetch_count, is_ended, events>>

\* On an empty line the session ends; the rest of the packet is still handled.
CtrlD ==
    /\ Plain /\ Byte = "ctrl_d" /\ cmd_buffer = <<>>
    /\ packet' = Tail(packet)
    /\ screen' = Append(screen, "logout")
    /\ Teardown(events, Recorded(rec, <<Out("logout")>>))
    /\ UNCHANGED <<pc, cmd_buffer, fetch_count>>

Type ==
    /\ Plain /\ Byte \in Printable /\ Len(cmd_buffer) < MaxCommandLen
    /\ packet' = Tail(packet)
    /\ cmd_buffer' = Append(cmd_buffer, Byte)
    /\ Show(<<Byte>>)
    /\ UNCHANGED <<pc, fetch_count, is_ended, events>>

Ignore ==
    /\ Plain
    /\ \/ Byte = "other"
       \/ Byte = "del" /\ cmd_buffer = <<>>
       \/ Byte = "ctrl_d" /\ cmd_buffer # <<>>
       \/ Byte \in Printable /\ Len(cmd_buffer) >= MaxCommandLen
    /\ Skip

\* Mutant: the recorder is left to flush itself.
EndOfPacketUnflushed ==
    /\ pc = "data" /\ packet = <<>>
    /\ pc' = "idle"
    /\ UNCHANGED <<packet, editor, fetch_count, is_ended, rec, screen, events, input>>

\* The recorder is flushed once per packet.
EndOfPacket ==
    /\ pc = "data" /\ packet = <<>>
    /\ pc' = "idle"
    /\ rec' = Flushed(rec)
    /\ UNCHANGED <<packet, editor, fetch_count, is_ended, screen, events, input>>

Init ==
    /\ pc = "idle" /\ packet = <<>>
    /\ escape_seq = FALSE /\ escape_len = 0 /\ last_byte = "other"
    /\ cmd_buffer = <<>> /\ fetch_count = 0 /\ is_ended = FALSE
    /\ rec = [cast |-> <<>>, buffered |-> <<>>, truncated |-> FALSE]
    /\ screen = <<>> /\ events = <<>> /\ input = <<>>

Callback ==
    \/ Escape \/ EscapeByte \/ SkipNewline \/ BlankLine \/ RunCommand \/ RunExit
    \/ RunDownload \/ FetchDone \/ Backspace \/ CtrlC \/ CtrlD \/ Type \/ Ignore
    \/ EndOfPacket

Next == ShellRequest \/ Data \/ ChannelClose \/ Drop \/ Callback

Spec == Init /\ [][Next]_vars

-----------------------------------------------------------------------------
(* Properties *)

\* A position of the input inside an escape sequence: an escape byte precedes
\* it, no nearer one nor a letter comes between, and it is not too far behind.
InEscape(i) ==
    \E j \in 1..(i - 1) :
        /\ input[j] = "esc" /\ i - j <= MaxEscapeLen
        /\ \A k \in (j + 1)..(i - 1) : input[k] \notin {"esc", "letter"}

LineEnds ==
    {i \in 1..Len(input) :
        /\ input[i] \in {"cr", "lf"} /\ ~InEscape(i)
        /\ ~(i > 1 /\ input[i] = "lf" /\ input[i - 1] = "cr")}

\* However the input is cut into packets, the lines submitted are those the
\* whole of it spells: a pair of carriage return and newline ends one line even
\* across packets, and a broken escape sequence swallows no more than its limit.
LinesAsTyped == Count(screen, "newline") = Cardinality(LineEnds)

\* The records of a recording that replay output, and which of them one is.
Outputs(records) ==
    {i \in 1..Len(records) : records[i].kind = "o" /\ records[i] # Truncation}

Rank(records, i) == Cardinality({j \in Outputs(records) : j <= i})

\* The recording replays exactly what the terminal showed, in order: its n-th
\* output is the n-th thing shown, and it has them all, up to the cap or to the
\* moment the handler was dropped.
ReplayFollowsScreen ==
    LET all == rec.cast \o rec.buffered IN
    /\ \A i \in Outputs(all) :
         Rank(all, i) <= Len(screen) /\ all[i].what = screen[Rank(all, i)]
    /\ pc # "dropped" /\ ~rec.truncated => Cardinality(Outputs(all)) = Len(screen)

\* Between packets of a session that goes on, nothing typed is still in the
\* writer's buffer: an abrupt end costs at most the packet being handled.
TypingIsDurable ==
    pc = "idle" /\ ~is_ended =>
        \A i \in 1..Len(rec.buffered) : rec.buffered[i] \in {Out("banner"), Out("prompt")}

\* A session ends once, whichever of exit, Ctrl-D and the closing of the
\* channel come together; every payload follows the command that fetched it,
\* and there are no more of them than the budget allows.
EventsWellFormed ==
    /\ Count(events, "SessionEnd") = IF is_ended THEN 1 ELSE 0
    /\ Count(events, "PayloadCaptured") <= fetch_count
    /\ \A i \in 1..Len(events) : events[i] = "PayloadCaptured" =>
         i > 1 /\ events[i - 1] = "CommandRun"
=============================================================================
