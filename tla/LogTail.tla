------------------------------ MODULE LogTail ------------------------------
(***************************************************************************)
(* The dashboard's side of the log: a separate process that polls the file *)
(* the collector appends to and rotates, remembers a byte offset and folds *)
(* every complete line into its store. The dashboard may be restarted: all *)
(* of its state is in memory. What becomes of an event once it is in the   *)
(* store is the subject of Store, Archive and Browser.                     *)
(***************************************************************************)
EXTENDS Collector, FiniteSetsExt, Functions

CONSTANTS
    MaxChunk,        \* MAX_TAIL_CHUNK_BYTES
    MaxDashStops     \* bound on the modelled restarts of the dashboard

ASSUME LogTailAssumption ==
    MaxChunk \in Nat \ {0} /\ MaxDashStops \in Nat

VARIABLES
    offset,      \* tail_attacks_log's offset
    seen,        \* the events ingested into the store, in order
    dash_stops   \* dashboard restarts so far

dash_vars == <<offset, seen, dash_stops>>
all_vars == <<vars, dash_vars>>

-----------------------------------------------------------------------------
(* read_new_lines and tail_attacks_log *)

Newlines(text) == {p \in 1..Len(text) : text[p] = 0}

\* The line that ends at newline p, without it.
LineAt(text, p) == SubSeq(text, Max({0} \cup {q \in Newlines(text) : q < p}) + 1, p - 1)

\* Does a line parse as an event; blank, torn and run-together lines do not.
Parses(line) == \E e \in Events : line = Line(e)

\* The elements of a set of numbers in ascending order.
Ascending(S) ==
    CHOOSE s \in [1..Cardinality(S) -> S] : \A i, j \in 1..Cardinality(S) : i < j => s[i] < s[j]

\* Mutant: lines that do not parse are not told from those that do.
ParsedLeniently(text) ==
    LET ends == Ascending({p \in Newlines(text) : LineAt(text, p) # <<>>})
    IN  [i \in 1..Len(ends) |-> Head(LineAt(text, ends[i]))]

\* The events of a text of complete lines, malformed lines skipped.
Parsed(text) ==
    LET ends == Ascending({p \in Newlines(text) : Parses(LineAt(text, p))})
    IN  [i \in 1..Len(ends) |-> Head(LineAt(text, ends[i]))]

\* Mutant: a file that has not grown is taken for one that was rotated.
StartOffsetEager(len) == IF len <= offset THEN 0 ELSE offset

\* Mutant: the offset outlives the file it was taken in.
StartOffsetKept(len) == offset

\* A file shorter than the offset was rotated or truncated: start over.
StartOffset(len) == IF len < offset THEN 0 ELSE offset

\* What one poll reads: at most a chunk of what lies beyond the offset.
Chunk(len) ==
    LET from == StartOffset(len)
        want == Min({len - from, MaxChunk})
    IN  SubSeq(stream, files[0].lo + from + 1, files[0].lo + from + want)

\* Up to the last newline; the rest is left for the next poll.
Complete(buf) == SubSeq(buf, 1, Max({0} \cup Newlines(buf)))

\* One turn of the loop. The file stays the one that was opened even if it is
\* renamed meanwhile, and bytes appended meanwhile are beyond the length taken:
\* a poll is one step.
Poll ==
    /\ Exists(0)
    /\ \E text \in {Complete(Chunk(Bytes(files[0])))} :
         /\ offset' = StartOffset(Bytes(files[0])) + Len(text)
         /\ seen' = seen \o Parsed(text)
    /\ UNCHANGED <<vars, dash_stops>>

\* The dashboard process dies and is started again.
RestartDashboard ==
    /\ dash_stops < MaxDashStops
    /\ dash_stops' = dash_stops + 1
    /\ offset' = 0 /\ seen' = <<>>
    /\ UNCHANGED vars

TailInit ==
    /\ Init
    /\ offset = 0 /\ seen = <<>> /\ dash_stops = 0

Gateway == Next /\ UNCHANGED dash_vars

TailNext == Gateway \/ Poll \/ RestartDashboard

\* The loop of the tailer never ends: it is polled by the runtime for ever.
TailSpec ==
    /\ TailInit /\ [][TailNext]_all_vars
    /\ Fairness /\ WF_all_vars(Poll)

-----------------------------------------------------------------------------
(* Properties *)

Increasing(events) == \A i, j \in 1..Len(events) : i < j => events[i] < events[j]

\* The store ingests an event at most once and in the order of sending, from
\* whatever offset the tailer reads after a rotation, a torn line, a failed
\* rename, or the restart of either process.
SeenOnceInOrder == Increasing(seen)

\* The store ingests only what was written: a fragment of a line, or two lines
\* run together, never counts as an event.
SeenWasWritten == \A i \in 1..Len(seen) : seen[i] \in Range(logged)

Log == SubSeq(stream, files[0].lo + 1, files[0].hi)

\* No complete line of the log is left unread.
CaughtUp == offset <= Len(Log) /\ \A p \in Newlines(Log) : p <= offset

\* The line it has come to does not end within a chunk.
Overlong ==
    /\ Len(Log) >= offset + MaxChunk
    /\ \A p \in offset + 1 .. offset + MaxChunk : p \notin Newlines(Log)

\* Once the log stops changing the tailer has read it to its last complete line,
\* or stands before a line that does not fit MAX_TAIL_CHUNK_BYTES, whatever
\* rotations, failed renames, torn lines and restarts came before.
\* It may have missed a file rotated away meanwhile.
TailCatchesUp == <>[](Exists(0) => CaughtUp \/ Overlong)
=============================================================================
