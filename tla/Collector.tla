----------------------------- MODULE Collector -----------------------------
(***************************************************************************)
(* The event pipeline of the gateway: the bounded channel events are sent  *)
(* on, the collector task that writes each as a line of attacks.json, the  *)
(* rotation of the log, failures of the file system, and the death of the  *)
(* process at any step.                                                    *)
(*                                                                         *)
(* Bytes are the units of the history of everything ever appended to the   *)
(* log: an event's line is Size[e] bytes e and the newline 0. Only         *)
(* attacks.json is ever appended to and files are renamed whole, so a file *)
(* is the interval of that history it holds.                               *)
(***************************************************************************)
EXTENDS Integers, Sequences, FiniteSets

CONSTANTS
    MaxEvents,    \* bound on the events sent: they are 1..MaxEvents
    Size,         \* bytes of each event's JSON
    BufCap,       \* capacity of the BufWriter
    ChanCap,      \* channel_capacity of EventCollector::new
    MaxLog,       \* MAX_LOG_BYTES
    Generations,  \* LOG_GENERATIONS
    Faults,       \* which may fail: writes, renames and removals, opens
    MaxStops      \* bound on the modelled number of process deaths

Events == 1..MaxEvents

ASSUME CollectorAssumption ==
    /\ MaxEvents \in Nat
    /\ Size \in [Events -> Nat \ {0}]
    /\ BufCap \in Nat /\ ChanCap \in Nat \ {0} /\ MaxLog \in Nat \ {0}
    /\ Generations \in Nat \ {0}
    /\ Faults \subseteq {"write", "rename", "open"}
    /\ MaxStops \in Nat

VARIABLES
    sent,     \* events 1..sent have been sent
    chan,     \* the mpsc channel
    pc,       \* where EventCollector::run is
    hand,     \* the event it has received, a sequence of at most one
    shift,    \* the loop variable of rotate_log
    written,  \* run's count of the bytes in the log
    files,    \* 0 is attacks.json, n is attacks.json.n
    stream,   \* history: every byte ever appended to attacks.json
    logged,   \* history: the events whose writes all returned Ok
    stops     \* process deaths so far

vars == <<sent, chan, pc, hand, shift, written, files, stream, logged, stops>>

NoFile == [lo |-> 0, hi |-> -1]
Exists(n) == files[n] # NoFile
Bytes(f) == f.hi - f.lo

-----------------------------------------------------------------------------
(* Senders *)

\* Mutant: an event that finds the channel full is dropped.
SendOrDrop ==
    /\ pc \notin {"down", "dead"} /\ sent < MaxEvents
    /\ sent' = sent + 1
    /\ chan' = IF Len(chan) < ChanCap THEN Append(chan, sent + 1) ELSE chan
    /\ UNCHANGED <<pc, hand, shift, written, files, stream, logged, stops>>

\* EventSender::send waits for room in the channel.
Send ==
    /\ pc \notin {"down", "dead"} /\ sent < MaxEvents
    /\ Len(chan) < ChanCap
    /\ sent' = sent + 1
    /\ chan' = Append(chan, sent + 1)
    /\ UNCHANGED <<pc, hand, shift, written, files, stream, logged, stops>>

\* The receiver is gone: the event is dropped with a warning.
SendDropped ==
    /\ pc = "dead" /\ sent < MaxEvents
    /\ sent' = sent + 1
    /\ UNCHANGED <<chan, pc, hand, shift, written, files, stream, logged, stops>>

-----------------------------------------------------------------------------
(* EventCollector::run *)

\* Mutant: a restart counts from zero whatever the log already holds.
SizeOnOpenForgotten == 0

\* The metadata length open_log returns with the writer.
SizeOnOpen == IF Exists(0) THEN Bytes(files[0]) ELSE 0

OpenLog ==
    /\ pc = "open"
    /\ files' = IF Exists(0) THEN files
                ELSE [files EXCEPT ![0] = [lo |-> Len(stream), hi |-> Len(stream)]]
    /\ written' = SizeOnOpen
    /\ pc' = "recv"
    /\ UNCHANGED <<sent, chan, hand, shift, stream, logged, stops>>

\* open_log failed: run returns and the receiver is dropped with its queue.
OpenFails ==
    /\ pc = "open" /\ "open" \in Faults
    /\ pc' = "dead"
    /\ chan' = <<>>
    /\ UNCHANGED <<sent, hand, shift, written, files, stream, logged, stops>>

Recv ==
    /\ pc = "recv" /\ chan # <<>>
    /\ hand' = <<Head(chan)>>
    /\ chan' = Tail(chan)
    /\ pc' = "write"
    /\ UNCHANGED <<sent, shift, written, files, stream, logged, stops>>

Line(e) == [i \in 1..Size[e] |-> e]

\* Mutant: the writer is not reopened after a rotation.
PutStale(bytes) ==
    /\ stream' = stream \o bytes
    /\ files' = [files EXCEPT ![IF Exists(1) THEN 1 ELSE 0].hi = @ + Len(bytes)]

Put(bytes) ==
    /\ stream' = stream \o bytes
    /\ files' = [files EXCEPT ![0].hi = @ + Len(bytes)]

Counted == written + Size[hand[1]] + 1

\* The line is written: count it, and rotate when the log has grown enough.
LineDone ==
    /\ written' = Counted
    /\ pc' = IF Counted >= MaxLog THEN "remove" ELSE "recv"
    /\ hand' = <<>>

\* A line that fits the buffer reaches the file in one write.
WriteLine ==
    /\ pc = "write" /\ Size[hand[1]] < BufCap
    /\ Put(Append(Line(hand[1]), 0))
    /\ LineDone
    /\ logged' = logged \o hand
    /\ UNCHANGED <<sent, chan, shift, stops>>

\* A longer one is passed through, and its newline follows with the flush.
WriteBody ==
    /\ pc = "write" /\ Size[hand[1]] >= BufCap
    /\ Put(Line(hand[1]))
    /\ pc' = "newline"
    /\ UNCHANGED <<sent, chan, hand, shift, written, logged, stops>>

\* Mutant: the newline of a long line is left in the buffer.
WriteNewlineLost ==
    /\ pc = "newline"
    /\ Put(<<>>)
    /\ LineDone
    /\ logged' = logged \o hand
    /\ UNCHANGED <<sent, chan, shift, stops>>

WriteNewline ==
    /\ pc = "newline"
    /\ Put(<<0>>)
    /\ LineDone
    /\ logged' = logged \o hand
    /\ UNCHANGED <<sent, chan, shift, stops>>

\* A write failed part-way: it is reported, and the line counted all the same.
\* A newline the writer still buffers may yet reach the file.
WriteFails ==
    /\ pc = "write" /\ "write" \in Faults
    /\ \E k \in 0..Size[hand[1]], nl \in {<<>>, <<0>>} :
         /\ k < Size[hand[1]] \/ nl = <<>>
         /\ Put(SubSeq(Line(hand[1]), 1, k) \o nl)
    /\ LineDone
    /\ UNCHANGED <<sent, chan, shift, logged, stops>>

-----------------------------------------------------------------------------
(* rotate_log; every rename replaces its target *)

\* Mutant: the loop over the generations starts one too low.
RemoveOldestShortLoop ==
    /\ pc = "remove"
    /\ files' = [files EXCEPT ![Generations] = NoFile]
    /\ shift' = Generations - 2
    /\ pc' = IF Generations > 2 THEN "shift" ELSE "rename"
    /\ UNCHANGED <<sent, chan, hand, written, stream, logged, stops>>

RemoveOldest ==
    /\ pc = "remove"
    /\ \/ files' = [files EXCEPT ![Generations] = NoFile]
       \/ "rename" \in Faults /\ UNCHANGED files
    /\ shift' = Generations - 1
    /\ pc' = IF Generations > 1 THEN "shift" ELSE "rename"
    /\ UNCHANGED <<sent, chan, hand, written, stream, logged, stops>>

\* tokio::fs::rename of generation n to n + 1
Moved(n) == [files EXCEPT ![n + 1] = files[n], ![n] = NoFile]

\* for n in (1..LOG_GENERATIONS).rev(): a failed rename is ignored.
Shift ==
    /\ pc = "shift"
    /\ \/ files' = IF Exists(shift) THEN Moved(shift) ELSE files
       \/ "rename" \in Faults /\ UNCHANGED files
    /\ shift' = shift - 1
    /\ pc' = IF shift > 1 THEN "shift" ELSE "rename"
    /\ UNCHANGED <<sent, chan, hand, written, stream, logged, stops>>

\* The last rename; if it fails the log is reopened and goes on growing.
RenameLog ==
    /\ pc = "rename"
    /\ \/ files' = Moved(0)
       \/ "rename" \in Faults /\ UNCHANGED files
    /\ pc' = "open"
    /\ UNCHANGED <<sent, chan, hand, shift, written, stream, logged, stops>>

-----------------------------------------------------------------------------
(* The process *)

Stop ==
    /\ pc # "down" /\ stops < MaxStops
    /\ stops' = stops + 1
    /\ pc' = "down"
    /\ chan' = <<>>
    /\ hand' = <<>>
    /\ UNCHANGED <<sent, shift, written, files, stream, logged>>

Restart ==
    /\ pc = "down"
    /\ pc' = "open"
    /\ UNCHANGED <<sent, chan, hand, shift, written, files, stream, logged, stops>>

Init ==
    /\ sent = 0 /\ chan = <<>>
    /\ pc = "open" /\ hand = <<>> /\ shift = 0 /\ written = 0
    /\ files = [n \in 0..Generations |-> NoFile]
    /\ stream = <<>> /\ logged = <<>>
    /\ stops = 0

Run ==
    \/ OpenLog \/ OpenFails \/ Recv \/ WriteLine \/ WriteBody \/ WriteNewline
    \/ WriteFails \/ RemoveOldest \/ Shift \/ RenameLog

Next == Send \/ SendDropped \/ Run \/ Stop \/ Restart

\* The runtime polls the collector task; the supervisor restarts the gateway.
Fairness == WF_vars(Run) /\ WF_vars(Restart)

Spec == Init /\ [][Next]_vars /\ Fairness

-----------------------------------------------------------------------------
(* Properties *)

FileType == {NoFile} \cup {f \in [lo : Nat, hi : Nat] : f.lo <= f.hi}

\* Every variable has its type, and the channel keeps to its capacity.
TypeOK ==
    /\ sent \in 0..MaxEvents
    /\ chan \in Seq(Events) /\ Len(chan) <= ChanCap
    /\ pc \in {"open", "recv", "write", "newline", "remove", "shift", "rename",
               "dead", "down"}
    /\ hand \in Seq(Events) /\ Len(hand) <= 1
    /\ pc \in {"write", "newline"} => hand # <<>>
    /\ shift \in 0..Generations
    /\ written \in Nat
    /\ files \in [0..Generations -> FileType]
    /\ stream \in Seq(0..MaxEvents)
    /\ logged \in Seq(Events)
    /\ stops \in 0..MaxStops

\* What is retained on disk is one unbroken run of the log that ends with its
\* last byte: whatever rotation does, and wherever it is cut short, it drops
\* old events only, and never leaves a hole.
RetainedUnbroken ==
    \A n \in 0..Generations : Exists(n) =>
        LET newer == {m \in 0..(n - 1) : Exists(m)} IN
        files[n].hi = IF newer = {} THEN Len(stream)
                      ELSE LET m == CHOOSE x \in newer : \A y \in newer : x >= y
                           IN  files[m].lo

Held(f, g) == g.lo = f.lo /\ g.hi >= f.hi

\* Rotation gives up the oldest generation and no other: every other file of
\* the log outlives each step, under its own name or the next.
OnlyOldestDropped ==
    [][\A n \in 0..(Generations - 1) :
          Exists(n) => \E m \in 0..Generations : Held(files[n], files'[m])]_vars

MaxLine == LET S == {Size[e] + 1 : e \in Events}
           IN  IF S = {} THEN 0 ELSE CHOOSE x \in S : \A y \in S : x >= y

\* No file outgrows MAX_LOG_BYTES by more than the line that crossed it, plus
\* one line for every time the process died before it could rotate.
LogBounded ==
    \A n \in 0..Generations : Exists(n) =>
        Bytes(files[n]) < MaxLog + (stops + 1) * MaxLine

\* Every event whose writes succeeded is a line of its own in the log.
LoggedIntact ==
    \A k \in 1..Len(logged) :
        \E i \in 0..(Len(stream) - Size[logged[k]] - 1) :
            /\ i > 0 => stream[i] = 0
            /\ SubSeq(stream, i + 1, i + Size[logged[k]] + 1)
                 = Append(Line(logged[k]), 0)

\* The log is a reliable feed of the events sent.
LogFeed == INSTANCE Feed WITH delivered <- logged

\* With a file system that does its part and a process that lives, every event
\* sent is logged, in the order of sending, across rotations and while the
\* senders wait for a full channel.
LogIsReliable == LogFeed!Reliable
=============================================================================
