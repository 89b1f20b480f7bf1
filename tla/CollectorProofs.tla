-------------------------- MODULE CollectorProofs --------------------------
(***************************************************************************)
(* What holds of the event pipeline for any number of events, any sizes of *)
(* their lines, any limits and any number of deaths of the process.        *)
(***************************************************************************)
EXTENDS Collector, SequenceTheorems, WellFoundedInduction, TLAPS

\* The provers of a leaf that names none, in turn, and the seconds each has.
USE SMTT(20), ZenonT(20), Z3T(20)

-----------------------------------------------------------------------------
(* The invariants *)

\* Where run stands: it has a log from open_log until the rotation has renamed
\* it away, an event in hand only while it writes it, and a generation to move
\* in the loop of rotate_log.
StepInv ==
    /\ pc \in {"recv", "write", "newline", "remove", "shift", "rename"} => Exists(0)
    /\ pc \notin {"write", "newline"} => hand = <<>>
    /\ pc = "shift" => shift \in 1..(Generations - 1)

CollectorInv == TypeOK /\ StepInv

\* Every file ends where the next newer one begins, and the newest at the end
\* of the history.
Chained ==
    \A n \in 0..Generations : Exists(n) =>
        /\ (\A m \in 0..(n - 1) : ~Exists(m)) => files[n].hi = Len(stream)
        /\ \A m \in 0..(n - 1) :
              Exists(m) /\ (\A k \in (m + 1)..(n - 1) : ~Exists(k)) => files[n].hi = files[m].lo

\* The rotation renames only onto names that are free.
RotateInv ==
    /\ Chained
    /\ pc = "shift" => ~Exists(shift + 1)
    /\ pc = "rename" => ~Exists(1)

-----------------------------------------------------------------------------
(* The operators *)

\* A function on 1..n is a sequence.
LEMMA FunctionIsSeq ==
  ASSUME NEW S, NEW n \in Nat, NEW f \in [1..n -> S]
  PROVE  f \in Seq(S)
  BY SeqDef

\* A set of naturals that is not empty has a least element.
LEMMA LeastNatural ==
  ASSUME NEW S \in SUBSET Nat, S # {}
  PROVE  \E x \in S : \A y \in S : x <= y
<1>1. PICK x \in S : \A y \in S : ~(<<y, x>> \in OpToRel(<, Nat))
  BY WFMin, NatLessThanWellFounded, Zenon
<1>2. \A y \in S : ~(y < x)
  BY <1>1, Zenon DEF OpToRel
<1> QED
  BY <1>2

\* A set of naturals that is bounded and not empty has a greatest element.
LEMMA GreatestNatural ==
  ASSUME NEW n \in Nat, NEW S \in SUBSET (0..n), S # {}
  PROVE  \E x \in S : \A y \in S : x >= y
<1> DEFINE T == {k \in 0..n : n - k \in S}
<1>1. T \in SUBSET Nat /\ T # {}
  <2>1. PICK y \in S : TRUE
    BY Zenon
  <2>2. y \in 0..n /\ n - y \in 0..n /\ n - (n - y) = y
    BY <2>1
  <2>3. n - y \in T
    BY <2>1, <2>2
  <2>4. T \subseteq Nat
    OBVIOUS
  <2> QED
    BY <2>3, <2>4, Zenon
<1>2. PICK k \in T : \A j \in T : k <= j
  BY <1>1, LeastNatural, Zenon
<1>3. n - k \in S /\ \A y \in S : n - y \in T /\ y \in 0..n
  BY <1>2
<1>4. \A y \in S : n - k >= y
  BY <1>2, <1>3
<1> QED
  BY <1>3, <1>4

\* A file that exists is an interval of the history.
LEMMA FileFacts ==
  ASSUME TypeOK, NEW n \in 0..Generations, Exists(n)
  PROVE  files[n].lo \in Nat /\ files[n].hi \in Nat /\ files[n].lo <= files[n].hi
  BY DEF TypeOK, FileType, Exists

\* The bytes of a line.
LEMMA LineFacts ==
  ASSUME NEW e \in Events
  PROVE  /\ Line(e) \in Seq(0..MaxEvents) /\ Len(Line(e)) = Size[e]
         /\ \A i \in 1..Size[e] : Line(e)[i] = e
         /\ Size[e] \in Nat \ {0}
         /\ Append(Line(e), 0) \in Seq(0..MaxEvents)
         /\ Len(Append(Line(e), 0)) = Size[e] + 1
<1>1. Size[e] \in Nat \ {0} /\ e \in 0..MaxEvents /\ 0 \in 0..MaxEvents
  BY CollectorAssumption DEF Events
<1>2. Line(e) \in [1..Size[e] -> 0..MaxEvents] /\ \A i \in 1..Size[e] : Line(e)[i] = e
  BY <1>1 DEF Line
<1>3. Line(e) \in Seq(0..MaxEvents)
  BY <1>1, <1>2, FunctionIsSeq, Zenon
<1>4. Len(Line(e)) = Size[e]
  BY <1>1, <1>2, <1>3, LenProperties
<1> QED
  BY <1>1, <1>2, <1>3, <1>4, AppendProperties

\* What a write that fails leaves of a line, at most its size.
LEMMA FragmentFacts ==
  ASSUME NEW e \in Events, NEW k \in 0..Size[e], NEW nl \in {<<>>, << 0 >>},
         k < Size[e] \/ nl = <<>>
  PROVE  /\ SubSeq(Line(e), 1, k) \o nl \in Seq(0..MaxEvents)
         /\ Len(SubSeq(Line(e), 1, k) \o nl) <= Size[e]
<1> DEFINE l == Line(e)
           part == SubSeq(l, 1, k)
<1>1. l \in Seq(0..MaxEvents) /\ Len(l) = Size[e] /\ Size[e] \in Nat /\ k \in 0..Size[e]
  BY LineFacts
<1> HIDE DEF l
<1>2. \A i \in 1..k : l[i] \in 0..MaxEvents
  <2>1. l \in [1..Len(l) -> 0..MaxEvents]
    BY <1>1, LenProperties, Zenon
  <2>2. \A i \in 1..k : i \in 1..Len(l)
    BY <1>1
  <2> QED
    BY <2>1, <2>2, Zenon
<1>3. part \in Seq(0..MaxEvents) /\ Len(part) = k
  BY <1>1, <1>2, SubSeqProperties
<1> HIDE DEF part
<1>4. CASE nl = <<>>
  <2>1. part \o nl = part
    BY <1>3, <1>4, ConcatEmptySeq
  <2>2. Len(part) <= Size[e]
    BY <1>1, <1>3
  <2> QED
    BY <1>3, <2>1, <2>2, Zenon DEF part, l
<1>5. CASE nl = <<0>>
  <2>1. nl \in Seq(0..MaxEvents) /\ Len(nl) = 1
    BY <1>5, CollectorAssumption
  <2>2. part \o nl \in Seq(0..MaxEvents) /\ Len(part \o nl) = Len(part) + Len(nl)
    BY <1>3, <2>1, ConcatProperties, Zenon
  <2>3. k < Size[e]
    BY <1>5
  <2>4. Len(part) + Len(nl) <= Size[e]
    BY <1>1, <1>3, <2>1, <2>3
  <2> QED
    BY <2>2, <2>4, Zenon DEF part, l
<1> QED
  BY <1>4, <1>5

\* What an append to the log does to the history and to the files.
LEMMA PutFacts ==
  ASSUME TypeOK, Exists(0), NEW b \in Seq(0..MaxEvents), Put(b)
  PROVE  /\ stream' \in Seq(0..MaxEvents) /\ Len(stream') = Len(stream) + Len(b)
         /\ \A i \in 1..Len(stream) : stream'[i] = stream[i]
         /\ \A i \in 1..Len(b) : stream'[Len(stream) + i] = b[i]
         /\ files' \in [0..Generations -> FileType]
         /\ files'[0].lo = files[0].lo /\ files'[0].hi = files[0].hi + Len(b)
         /\ Exists(0)'
         /\ \A n \in 1..Generations : files'[n] = files[n]
<1>1. stream \in Seq(0..MaxEvents) /\ stream' = stream \o b
  BY DEF TypeOK, Put
<1>2. /\ stream' \in Seq(0..MaxEvents) /\ Len(stream') = Len(stream) + Len(b)
      /\ \A i \in 1..Len(stream) : stream'[i] = stream[i]
      /\ \A i \in 1..Len(b) : stream'[Len(stream) + i] = b[i]
  BY <1>1, ConcatProperties
<1>3. Len(b) \in Nat
  BY LenProperties
<1>4. files[0] \in [lo : Nat, hi : Nat] /\ files[0].lo <= files[0].hi /\ 0 \in 0..Generations
  BY CollectorAssumption DEF TypeOK, FileType, Exists
<1>5. files' = [files EXCEPT ![0].hi = @ + Len(b)]
  BY DEF Put
<1>6. files'[0] = [files[0] EXCEPT !.hi = files[0].hi + Len(b)]
  BY <1>4, <1>5 DEF TypeOK
<1>7. files'[0] \in [lo : Nat, hi : Nat] /\ files'[0].lo = files[0].lo
      /\ files'[0].hi = files[0].hi + Len(b)
  BY <1>3, <1>4, <1>6
<1>8. files' \in [0..Generations -> FileType] /\ \A n \in 1..Generations : files'[n] = files[n]
  <2>1. files'[0] \in FileType
    BY <1>3, <1>4, <1>7 DEF FileType
  <2>2. \A n \in 1..Generations : files'[n] = files[n]
    BY <1>5 DEF TypeOK
  <2>3. files' = [n \in 0..Generations |-> files'[n]]
    BY <1>5, Zenon DEF TypeOK
  <2>4. \A n \in 0..Generations : files'[n] \in FileType
    BY <2>1, <2>2 DEF TypeOK
  <2> QED
    BY <2>2, <2>3, <2>4
<1>9. Exists(0)'
  BY <1>3, <1>4, <1>7 DEF Exists, NoFile
<1> QED
  BY <1>2, <1>7, <1>8, <1>9, Zenon

\* What a rename of one generation to the next does to the files.
LEMMA MovedFacts ==
  ASSUME files \in [0..Generations -> FileType], NEW n \in 0..(Generations - 1)
  PROVE  /\ Moved(n) \in [0..Generations -> FileType]
         /\ Moved(n)[n + 1] = files[n] /\ Moved(n)[n] = NoFile
         /\ \A m \in 0..Generations : m # n /\ m # n + 1 => Moved(n)[m] = files[m]
<1>1. /\ Generations \in Nat /\ n \in 0..Generations /\ n + 1 \in 0..Generations
      /\ n # n + 1 /\ NoFile \in FileType /\ files[n] \in FileType
  BY CollectorAssumption DEF FileType
<1> QED
  BY <1>1, Zenon DEF Moved

Writing == WriteLine \/ WriteBody \/ WriteNewline \/ WriteFails

\* Each way of writing appends bytes of the event in hand, its line at most.
LEMMA WritingPuts ==
  ASSUME CollectorInv, Writing
  PROVE  /\ hand[1] \in Events /\ Exists(0)
         /\ \E b \in Seq(0..MaxEvents) : Put(b) /\ Len(b) <= Size[hand[1]] + 1
<1>1. pc \in {"write", "newline"}
  BY DEF Writing, WriteLine, WriteBody, WriteNewline, WriteFails
<1>2. hand[1] \in Events /\ Exists(0)
  BY <1>1 DEF CollectorInv, TypeOK, StepInv
<1> DEFINE e == hand[1]
<1>3. /\ Line(e) \in Seq(0..MaxEvents) /\ Len(Line(e)) = Size[e] /\ Size[e] \in Nat \ {0}
      /\ Append(Line(e), 0) \in Seq(0..MaxEvents) /\ Len(Append(Line(e), 0)) = Size[e] + 1
  BY <1>2, LineFacts
<1>4. <<0>> \in Seq(0..MaxEvents) /\ Len(<<0>>) = 1
  BY CollectorAssumption
<1>5. ASSUME WriteFails
      PROVE  \E b \in Seq(0..MaxEvents) : Put(b) /\ Len(b) <= Size[e]
  <2>1. PICK k \in 0..Size[e], nl \in {<<>>, <<0>>} :
            (k < Size[e] \/ nl = <<>>) /\ Put(SubSeq(Line(e), 1, k) \o nl)
    BY <1>5, Zenon DEF WriteFails
  <2> DEFINE b == SubSeq(Line(e), 1, k) \o nl
  <2>2. b \in Seq(0..MaxEvents) /\ Len(b) <= Size[e]
    BY <1>2, <2>1, FragmentFacts, Zenon
  <2> HIDE DEF b
  <2> QED
    BY <2>1, <2>2, Zenon DEF b
<1>e. e = hand[1]
  OBVIOUS
<1> HIDE DEF e
<1>6. ASSUME WriteLine PROVE Put(Append(Line(e), 0))
  BY <1>6 DEF WriteLine, e
<1>7. ASSUME WriteBody PROVE Put(Line(e))
  BY <1>7 DEF WriteBody, e
<1>8. ASSUME WriteNewline PROVE Put(<<0>>)
  BY <1>8 DEF WriteNewline
<1>b. /\ Len(Append(Line(e), 0)) <= Size[e] + 1
      /\ Len(Line(e)) <= Size[e] + 1 /\ Len(<<0>>) <= Size[e] + 1
  BY <1>3, <1>4
<1>9. \E b \in Seq(0..MaxEvents) : Put(b) /\ Len(b) <= Size[e] + 1
  <2>1. CASE WriteLine
    BY <1>3, <1>6, <1>b, <2>1, Zenon
  <2>2. CASE WriteBody
    BY <1>3, <1>7, <1>b, <2>2, Zenon
  <2>3. CASE WriteNewline
    BY <1>4, <1>8, <1>b, <2>3, Zenon
  <2>4. CASE WriteFails
    <3>1. PICK b \in Seq(0..MaxEvents) : Put(b) /\ Len(b) <= Size[e]
      BY <1>5, <2>4
    <3>2. Len(b) <= Size[e] + 1
      BY <1>3, <3>1, LenProperties
    <3> QED
      BY <3>1, <3>2
  <2> QED
    BY <2>1, <2>2, <2>3, <2>4 DEF Writing
<1> QED
  BY <1>2, <1>9, <1>e


-----------------------------------------------------------------------------
(* Types, and where run stands *)

\* Every step of the senders, of run and of the process keeps CollectorInv.
LEMMA CollectorStep ==
  ASSUME CollectorInv
  PROVE  [Next]_vars => CollectorInv'
<1>a. /\ sent \in 0..MaxEvents /\ chan \in Seq(Events) /\ Len(chan) <= ChanCap
      /\ hand \in Seq(Events) /\ Len(hand) <= 1
      /\ shift \in 0..Generations /\ written \in Nat
      /\ files \in [0..Generations -> FileType]
      /\ stream \in Seq(0..MaxEvents) /\ logged \in Seq(Events) /\ stops \in 0..MaxStops
      /\ MaxEvents \in Nat /\ ChanCap \in Nat \ {0} /\ Generations \in Nat \ {0} /\ MaxStops \in Nat
  BY CollectorAssumption DEF CollectorInv, TypeOK
<1>1. Send => CollectorInv'
  <2> SUFFICES ASSUME Send PROVE CollectorInv'
    OBVIOUS
  <2>1. sent + 1 \in Events /\ sent' = sent + 1 /\ chan' = Append(chan, sent + 1)
    BY <1>a DEF Send, Events
  <2>2. chan' \in Seq(Events) /\ Len(chan') = Len(chan) + 1
    BY <1>a, <2>1, AppendProperties
  <2>3. Len(chan') <= ChanCap
    BY <1>a, <2>2, LenProperties DEF Send
  <2> QED
    BY <1>a, <2>1, <2>2, <2>3 DEF Send, CollectorInv, TypeOK, StepInv, Exists
<1>2. SendDropped => CollectorInv'
  BY <1>a DEF SendDropped, CollectorInv, TypeOK, StepInv, Exists
<1>3. OpenLog => CollectorInv'
  <2> SUFFICES ASSUME OpenLog PROVE CollectorInv'
    OBVIOUS
  <2>1. files' \in [0..Generations -> FileType] /\ Exists(0)'
    <3>1. Len(stream) \in Nat
      BY <1>a, LenProperties
    <3>2. [lo |-> Len(stream), hi |-> Len(stream)] \in FileType \ {NoFile}
      BY <3>1 DEF FileType, NoFile
    <3> QED
      BY <1>a, <3>2 DEF OpenLog, Exists
  <2>2. written' \in Nat
    BY <1>a, FileFacts DEF OpenLog, SizeOnOpen, Bytes, CollectorInv
  <2> QED
    BY <1>a, <2>1, <2>2 DEF OpenLog, CollectorInv, TypeOK, StepInv
<1>4. OpenFails => CollectorInv'
  BY <1>a DEF OpenFails, CollectorInv, TypeOK, StepInv, Exists
<1>5. Recv => CollectorInv'
  <2> SUFFICES ASSUME Recv PROVE CollectorInv'
    OBVIOUS
  <2>1. Head(chan) \in Events /\ Tail(chan) \in Seq(Events) /\ Len(Tail(chan)) = Len(chan) - 1
    BY <1>a, HeadTailProperties DEF Recv
  <2>2. hand' \in Seq(Events) /\ Len(hand') = 1 /\ hand' # <<>>
    BY <2>1 DEF Recv
  <2>3. chan' \in Seq(Events) /\ Len(chan') <= ChanCap
    BY <1>a, <2>1, LenProperties DEF Recv
  <2> QED
    BY <1>a, <2>2, <2>3 DEF Recv, CollectorInv, TypeOK, StepInv, Exists
<1>6. Writing => CollectorInv'
  <2> SUFFICES ASSUME Writing PROVE CollectorInv'
    OBVIOUS
  <2>1. hand[1] \in Events /\ Exists(0)
        /\ \E b \in Seq(0..MaxEvents) : Put(b) /\ Len(b) <= Size[hand[1]] + 1
    BY WritingPuts
  <2>2. stream' \in Seq(0..MaxEvents) /\ files' \in [0..Generations -> FileType] /\ Exists(0)'
    BY <2>1, PutFacts, Zenon DEF CollectorInv
  <2>3. Counted \in Nat
    <3>1. written \in Nat /\ Size[hand[1]] \in Nat \ {0}
      BY <1>a, <2>1, LineFacts, Zenon
    <3> QED
      BY <3>1 DEF Counted
  <2>4. logged \o hand \in Seq(Events)
    BY <1>a, ConcatProperties
  <2>5. logged' \in Seq(Events) /\ UNCHANGED <<sent, chan, shift, stops>>
    BY <1>a, <2>4, Zenon DEF Writing, WriteLine, WriteBody, WriteNewline, WriteFails
  <2>6. \/ written' = Counted /\ pc' \in {"remove", "recv"} /\ hand' = <<>>
        \/ written' = written /\ pc' = "newline" /\ hand' = hand /\ pc = "write"
    BY Zenon DEF Writing, WriteLine, WriteBody, WriteNewline, WriteFails, LineDone
  <2>7. CASE written' = Counted /\ pc' \in {"remove", "recv"} /\ hand' = <<>>
    BY <1>a, <2>2, <2>3, <2>5, <2>7 DEF CollectorInv, TypeOK, StepInv
  <2>8. CASE written' = written /\ pc' = "newline" /\ hand' = hand /\ pc = "write"
    BY <1>a, <2>2, <2>5, <2>8 DEF CollectorInv, TypeOK, StepInv
  <2> QED
    BY <2>6, <2>7, <2>8
<1>7. RemoveOldest => CollectorInv'
  <2> SUFFICES ASSUME RemoveOldest PROVE CollectorInv'
    OBVIOUS
  <2>1. files' \in [0..Generations -> FileType] /\ files'[0] = files[0]
    BY <1>a DEF RemoveOldest, FileType
  <2> QED
    BY <1>a, <2>1 DEF RemoveOldest, CollectorInv, TypeOK, StepInv, Exists
<1>8. Shift => CollectorInv'
  <2> SUFFICES ASSUME Shift PROVE CollectorInv'
    OBVIOUS
  <2>1. shift \in 1..(Generations - 1)
    BY DEF Shift, CollectorInv, StepInv
  <2>2. files' \in [0..Generations -> FileType] /\ files'[0] = files[0]
    <3>1. shift \in 0..(Generations - 1) /\ 0 # shift /\ 0 # shift + 1 /\ 0 \in 0..Generations
      BY <1>a, <2>1
    <3>2. Moved(shift) \in [0..Generations -> FileType] /\ Moved(shift)[0] = files[0]
      BY <1>a, <3>1, MovedFacts, Zenon
    <3> QED
      BY <1>a, <3>2, Zenon DEF Shift
  <2> QED
    BY <1>a, <2>1, <2>2 DEF Shift, CollectorInv, TypeOK, StepInv, Exists
<1>9. RenameLog => CollectorInv'
  <2> SUFFICES ASSUME RenameLog PROVE CollectorInv'
    OBVIOUS
  <2>1. files' \in [0..Generations -> FileType]
    <3>1. 0 \in 0..(Generations - 1)
      BY <1>a
    <3> QED
      BY <1>a, <3>1, MovedFacts, Zenon DEF RenameLog
  <2> QED
    BY <1>a, <2>1 DEF RenameLog, CollectorInv, TypeOK, StepInv, Exists
<1>10. Stop => CollectorInv'
  <2> SUFFICES ASSUME Stop PROVE CollectorInv'
    OBVIOUS
  <2>1. <<>> \in Seq(Events) /\ Len(<<>>) <= ChanCap /\ Len(<<>>) <= 1 /\ stops' \in 0..MaxStops
    BY <1>a DEF Stop
  <2> QED
    BY <1>a, <2>1, Zenon DEF Stop, CollectorInv, TypeOK, StepInv
<1>11. Restart => CollectorInv'
  BY <1>a DEF Restart, CollectorInv, TypeOK, StepInv, Exists
<1>12. UNCHANGED vars => CollectorInv'
  BY <1>a DEF vars, CollectorInv, TypeOK, StepInv, Exists
<1> QED
  BY <1>1, <1>2, <1>3, <1>4, <1>5, <1>6, <1>7, <1>8, <1>9, <1>10, <1>11,
     <1>12, Zenon
  DEF Next, Run, Writing

\* The variables keep their types, the channel its capacity, and run writes to
\* a log that is there.
THEOREM CollectorKept == Spec => []CollectorInv
<1>1. Init => CollectorInv
  BY CollectorAssumption
  DEF Init, CollectorInv, TypeOK, StepInv, FileType, NoFile
<1>2. CollectorInv /\ [Next]_vars => CollectorInv'
  BY CollectorStep
<1> QED
  BY <1>1, <1>2, PTL DEF Spec

-----------------------------------------------------------------------------
(* Rotation *)

\* Without failing renames every step keeps the files chained, and the names
\* ahead of the rotation free.
LEMMA RotateStep ==
  ASSUME "rename" \notin Faults, CollectorInv, RotateInv
  PROVE  [Next]_vars => RotateInv'
<1>a. /\ Generations \in Nat \ {0} /\ files \in [0..Generations -> FileType]
      /\ stream \in Seq(0..MaxEvents) /\ Len(stream) \in Nat
      /\ TypeOK /\ StepInv /\ Chained
  BY CollectorAssumption, LenProperties DEF CollectorInv, TypeOK, RotateInv
<1>1. ASSUME UNCHANGED <<files, stream>>, pc' \notin {"shift", "rename"} \/ UNCHANGED <<pc, shift>>
      PROVE  RotateInv'
  BY <1>1 DEF RotateInv, Chained, Exists
<1>2. Writing => RotateInv'
  <2> SUFFICES ASSUME Writing PROVE RotateInv'
    OBVIOUS
  <2>1. Exists(0) /\ \E b \in Seq(0..MaxEvents) : Put(b)
    BY WritingPuts
  <2>2. PICK d \in Nat : /\ Len(stream') = Len(stream) + d
                         /\ files'[0].lo = files[0].lo /\ files'[0].hi = files[0].hi + d
                         /\ Exists(0)'
                         /\ \A n \in 1..Generations : files'[n] = files[n]
    BY <1>a, <2>1, PutFacts, LenProperties, ZenonT(30)
  <2>3. files[0].lo \in Nat /\ files[0].hi = Len(stream)
    BY <1>a, <2>1, FileFacts DEF Chained
  <2>4. Chained'
    <3>1. \A n \in 0..Generations : Exists(n)' <=> Exists(n)
      BY <1>a, <2>1, <2>2 DEF Exists
    <3>2. ASSUME NEW n \in 0..Generations, Exists(n)', \A m \in 0..(n - 1) : ~Exists(m)'
          PROVE  files'[n].hi = Len(stream')
      <4>1. n = 0
        BY <2>2, <3>2
      <4> QED
        BY <1>a, <2>2, <2>3, <4>1
    <3>3. ASSUME NEW n \in 0..Generations, Exists(n)', NEW m \in 0..(n - 1), Exists(m)',
                 \A k \in (m + 1)..(n - 1) : ~Exists(k)'
          PROVE  files'[n].hi = files'[m].lo
      <4>1. n \in 1..Generations /\ m \in 0..Generations /\ files'[n] = files[n]
            /\ files'[m].lo = files[m].lo
        BY <1>a, <2>2
      <4>2. Exists(n) /\ Exists(m) /\ \A k \in (m + 1)..(n - 1) : ~Exists(k)
        BY <1>a, <3>1, <3>3, <4>1
      <4> QED
        BY <1>a, <4>1, <4>2 DEF Chained
    <3> QED
      BY <3>2, <3>3, Zenon DEF Chained
  <2>5. pc' \notin {"shift", "rename"}
    BY DEF Writing, WriteLine, WriteBody, WriteNewline, WriteFails, LineDone
  <2> QED
    BY <2>4, <2>5 DEF RotateInv
<1>3. OpenLog => RotateInv'
  <2> SUFFICES ASSUME OpenLog PROVE RotateInv'
    OBVIOUS
  <2>1. CASE Exists(0)
    BY <1>1, <2>1 DEF OpenLog
  <2>2. CASE ~Exists(0)
    <3>1. /\ files'[0].lo = Len(stream) /\ files'[0].hi = Len(stream)
          /\ files'[0] # NoFile /\ stream' = stream
          /\ \A n \in 1..Generations : files'[n] = files[n]
      BY <1>a, <2>2 DEF OpenLog, NoFile
    <3>2. /\ Exists(0)' /\ \A n \in 1..Generations : Exists(n)' <=> Exists(n)
          /\ \A n \in 0..Generations : n = 0 \/ n \in 1..Generations
      BY <1>a, <3>1 DEF Exists
    <3>3. ASSUME NEW n \in 1..Generations, Exists(n)', NEW m \in 0..(n - 1), Exists(m)',
                 \A k \in (m + 1)..(n - 1) : ~Exists(k)'
          PROVE  files'[n].hi = files'[m].lo
      <4>1. /\ n \in 0..Generations /\ Exists(n) /\ files'[n] = files[n]
            /\ \A k \in (m + 1)..(n - 1) : ~Exists(k)
        BY <1>a, <3>1, <3>2, <3>3
      <4>2. CASE m = 0
        <5>1. \A k \in 0..(n - 1) : ~Exists(k)
          BY <2>2, <4>1, <4>2
        <5>2. files[n].hi = Len(stream)
          BY <4>1, <5>1, Zenon DEF Chained, RotateInv
        <5> QED
          BY <3>1, <4>1, <4>2, <5>2
      <4>3. CASE m # 0
        <5>1. m \in 1..Generations
          BY <1>a, <4>3
        <5>2. Exists(m) /\ files'[m] = files[m]
          BY <3>1, <3>2, <3>3, <5>1, Zenon
        <5> QED
          BY <1>a, <4>1, <5>2, Zenon DEF Chained
      <4> QED
        BY <4>2, <4>3
    <3>4. Chained'
      <4>1. \A n \in 1..Generations : 0 \in 0..(n - 1)
        BY <1>a
      <4>2. \A m \in 0..(0 - 1) : FALSE
        OBVIOUS
      <4> QED
        BY <3>1, <3>2, <3>3, <4>1, <4>2, Zenon DEF Chained
    <3> QED
      BY <3>4 DEF RotateInv, OpenLog
  <2> QED
    BY <2>1, <2>2
<1>4. RemoveOldest => RotateInv'
  <2> SUFFICES ASSUME RemoveOldest PROVE RotateInv'
    OBVIOUS
  <2>1. /\ files'[Generations] = NoFile /\ stream' = stream
        /\ \A n \in 0..(Generations - 1) : files'[n] = files[n]
    BY <1>a DEF RemoveOldest
  <2>2. Chained'
    <3>1. ASSUME NEW n \in 0..Generations, Exists(n)'
          PROVE  Exists(n) /\ \A m \in 0..n : files'[m] = files[m]
      <4>1. n \in 0..(Generations - 1)
        BY <1>a, <2>1, <3>1 DEF Exists
      <4> QED
        BY <1>a, <2>1, <3>1, <4>1 DEF Exists
    <3>2. ASSUME NEW n \in 0..Generations, Exists(n)', \A m \in 0..(n - 1) : ~Exists(m)'
          PROVE  files'[n].hi = Len(stream')
      <4>1. /\ Exists(n) /\ files'[n] = files[n]
            /\ \A m \in 0..(n - 1) : ~Exists(m)
        BY <1>a, <3>1, <3>2 DEF Exists
      <4> QED
        BY <1>a, <2>1, <4>1 DEF Chained
    <3>3. ASSUME NEW n \in 0..Generations, Exists(n)', NEW m \in 0..(n - 1), Exists(m)',
                 \A k \in (m + 1)..(n - 1) : ~Exists(k)'
          PROVE  files'[n].hi = files'[m].lo
      <4>1. /\ Exists(n) /\ files'[n] = files[n] /\ Exists(m) /\ files'[m] = files[m]
            /\ \A k \in (m + 1)..(n - 1) : ~Exists(k)
        BY <1>a, <3>1, <3>3 DEF Exists
      <4> QED
        BY <1>a, <4>1 DEF Chained
    <3> QED
      BY <3>2, <3>3, Zenon DEF Chained
  <2>3. (pc' = "shift" => shift' + 1 = Generations) /\ (pc' = "rename" => Generations = 1)
    BY <1>a DEF RemoveOldest
  <2>4. (pc' = "shift" => ~Exists(shift + 1)') /\ (pc' = "rename" => ~Exists(1)')
    BY <2>1, <2>3 DEF Exists
  <2> QED
    BY <2>2, <2>4, Zenon DEF RotateInv
<1>5. ASSUME NEW s \in 0..(Generations - 1), Exists(s), ~Exists(s + 1),
             files' = Moved(s), stream' = stream
      PROVE  Chained'
  <2>1. /\ files'[s + 1] = files[s] /\ files'[s] = NoFile
        /\ \A m \in 0..Generations : m # s /\ m # s + 1 => files'[m] = files[m]
    BY <1>a, <1>5, MovedFacts, Zenon
  <2>2. ASSUME NEW n \in 0..Generations, Exists(n)', \A m \in 0..(n - 1) : ~Exists(m)'
        PROVE  files'[n].hi = Len(stream)
    <3>1. CASE n = s + 1
      <4>1. \A m \in 0..(s - 1) : ~Exists(m)
        BY <1>a, <2>1, <2>2, <3>1 DEF Exists
      <4> QED
        BY <1>a, <1>5, <2>1, <3>1, <4>1 DEF Chained
    <3>2. CASE n < s
      <4>1. files'[n] = files[n] /\ Exists(n) /\ \A m \in 0..(n - 1) : ~Exists(m)
        BY <1>a, <2>1, <2>2, <3>2 DEF Exists
      <4> QED
        BY <1>a, <4>1 DEF Chained
    <3>3. CASE n > s + 1
      <4>1. s + 1 \in 0..(n - 1) /\ Exists(s + 1)'
        BY <1>a, <1>5, <2>1, <3>3 DEF Exists
      <4> QED
        BY <2>2, <4>1
    <3>4. n # s
      BY <2>1, <2>2 DEF Exists
    <3> QED
      BY <1>a, <3>1, <3>2, <3>3, <3>4
  <2>3. ASSUME NEW n \in 0..Generations, Exists(n)', NEW m \in 0..(n - 1), Exists(m)',
               \A k \in (m + 1)..(n - 1) : ~Exists(k)'
        PROVE  files'[n].hi = files'[m].lo
    <3>1. CASE n = s + 1
      <4>1. m \in 0..(s - 1) /\ Exists(m) /\ files'[m] = files[m]
            /\ \A k \in (m + 1)..(s - 1) : ~Exists(k)
        BY <1>a, <1>5, <2>1, <2>3, <3>1 DEF Exists
      <4>2. s \in 0..Generations
        BY <1>a
      <4>3. files[s].hi = files[m].lo
        BY <1>a, <1>5, <4>1, <4>2, Zenon DEF Chained
      <4> QED
        BY <2>1, <3>1, <4>1, <4>3, Zenon
    <3>2. CASE n > s + 1 /\ m = s + 1
      <4>1. Exists(n) /\ files'[n] = files[n] /\ s \in 0..(n - 1)
        BY <1>a, <1>5, <2>1, <2>3, <3>2 DEF Exists
      <4>2. \A k \in (s + 1)..(n - 1) : ~Exists(k)
        BY <1>a, <1>5, <2>1, <2>3, <3>2 DEF Exists
      <4> QED
        BY <1>a, <1>5, <2>1, <3>2, <4>1, <4>2 DEF Chained
    <3>3. CASE n > s + 1 /\ m < s
      <4>1. s + 1 \in (m + 1)..(n - 1) /\ Exists(s + 1)'
        BY <1>a, <1>5, <2>1, <3>3 DEF Exists
      <4> QED
        BY <2>3, <4>1
    <3>4. CASE (n > s + 1 /\ m > s + 1) \/ n < s
      <4>1. /\ Exists(n) /\ files'[n] = files[n] /\ Exists(m) /\ files'[m] = files[m]
            /\ \A k \in (m + 1)..(n - 1) : ~Exists(k)
        BY <1>a, <1>5, <2>1, <2>3, <3>4 DEF Exists
      <4> QED
        BY <1>a, <4>1 DEF Chained
    <3>5. n # s /\ m # s
      BY <2>1, <2>3 DEF Exists
    <3> QED
      BY <1>a, <3>1, <3>2, <3>3, <3>4, <3>5
  <2> QED
    BY <1>5, <2>2, <2>3, Zenon DEF Chained
<1>6. Shift => RotateInv'
  <2> SUFFICES ASSUME Shift PROVE RotateInv'
    OBVIOUS
  <2>1. shift \in 1..(Generations - 1) /\ shift \in 0..(Generations - 1) /\ ~Exists(shift + 1)
    BY <1>a DEF Shift, StepInv, RotateInv
  <2>2. Chained' /\ files'[shift] = NoFile
    <3>1. CASE Exists(shift)
      <4>1. files' = Moved(shift) /\ stream' = stream
        BY <3>1, Zenon DEF Shift
      <4>2. Moved(shift)[shift] = NoFile
        BY <1>a, <2>1, MovedFacts, Zenon
      <4>3. Chained'
        BY <1>5, <2>1, <3>1, <4>1, Zenon
      <4>4. files'[shift] = NoFile
        BY <4>1, <4>2, Zenon
      <4> QED
        BY <4>3, <4>4
    <3>2. CASE ~Exists(shift)
      <4>1. files' = files /\ stream' = stream
        BY <3>2, Zenon DEF Shift
      <4> QED
        BY <1>a, <3>2, <4>1, Zenon DEF Chained, Exists
    <3> QED
      BY <3>1, <3>2
  <2>3. (pc' = "shift" => shift' + 1 = shift) /\ (pc' = "rename" => shift = 1)
    BY <2>1 DEF Shift
  <2>4. (pc' = "shift" => ~Exists(shift + 1)') /\ (pc' = "rename" => ~Exists(1)')
    BY <2>2, <2>3 DEF Exists
  <2> QED
    BY <2>2, <2>4, Zenon DEF RotateInv
<1>7. RenameLog => RotateInv'
  <2> SUFFICES ASSUME RenameLog PROVE RotateInv'
    OBVIOUS
  <2>1. Exists(0) /\ ~Exists(0 + 1) /\ 0 \in 0..(Generations - 1)
    BY <1>a DEF RenameLog, StepInv, RotateInv
  <2>2. Chained'
    BY <1>5, <2>1 DEF RenameLog
  <2> QED
    BY <2>2 DEF RotateInv, RenameLog
<1>8. Send \/ SendDropped \/ OpenFails \/ Recv \/ Stop \/ Restart \/ UNCHANGED vars => RotateInv'
  BY <1>1, Zenon DEF Send, SendDropped, OpenFails, Recv, Stop, Restart, vars
<1> QED
  BY <1>2, <1>3, <1>4, <1>6, <1>7, <1>8, Zenon DEF Next, Run, Writing

\* Without failing renames, the files stay chained in every reachable state.
LEMMA RotateKept ==
  ASSUME "rename" \notin Faults
  PROVE  Spec => []RotateInv
<1>1. Init => RotateInv
  BY CollectorAssumption DEF Init, RotateInv, Chained, Exists
<1>2. CollectorInv /\ RotateInv /\ [Next]_vars => RotateInv'
  BY RotateStep
<1> QED
  BY <1>1, <1>2, CollectorKept, PTL DEF Spec

\* As long as no rename and no removal fails, what rotate_log leaves on disk is
\* one unbroken run of the log that ends with its last byte, whatever else
\* fails and wherever the rotation is cut short by the death of the process.
THEOREM RetainedIsUnbroken ==
  ASSUME "rename" \notin Faults
  PROVE  Spec => []RetainedUnbroken
<1>1. CollectorInv /\ RotateInv => RetainedUnbroken
  <2> SUFFICES ASSUME CollectorInv, Chained, NEW n \in 0..Generations, Exists(n)
               PROVE  LET newer == {m \in 0..(n - 1) : Exists(m)} IN
                      files[n].hi = IF newer = {} THEN Len(stream)
                                    ELSE LET m == CHOOSE x \in newer : \A y \in newer : x >= y
                                         IN  files[m].lo
    BY Zenon DEF RotateInv, RetainedUnbroken
  <2> DEFINE newer == {m \in 0..(n - 1) : Exists(m)}
             last == CHOOSE x \in newer : \A y \in newer : x >= y
  <2>1. CASE newer = {}
    BY <2>1 DEF Chained
  <2>2. CASE newer # {}
    <3>1. n \in Nat /\ newer \in SUBSET (0..n)
      BY CollectorAssumption
    <3>2. \E x \in newer : \A y \in newer : x >= y
      BY <2>2, <3>1, GreatestNatural, Zenon
    <3>3. last \in newer /\ \A y \in newer : last >= y
      BY <3>2
    <3>4. last \in 0..(n - 1) /\ Exists(last) /\ \A k \in (last + 1)..(n - 1) : ~Exists(k)
      BY <3>1, <3>3
    <3>5. files[n].hi = files[last].lo
      BY <3>4, Zenon DEF Chained
    <3> QED
      BY <2>2, <3>5
  <2> QED
    BY <2>1, <2>2
<1> QED
  BY <1>1, CollectorKept, RotateKept, PTL

\* As long as no rename and no removal fails, rotation gives up the oldest
\* generation and no other: in any step every other file outlives it, under its
\* own name or the next, with all it held.
THEOREM OnlyOldestIsDropped ==
  ASSUME "rename" \notin Faults
  PROVE  Spec => OnlyOldestDropped
<1> DEFINE Outlives(n) == \E m \in 0..Generations : Held(files[n], files'[m])
           Outlived == \A n \in 0..(Generations - 1) : Exists(n) => Outlives(n)
<1>1. ASSUME CollectorInv, RotateInv, Next
      PROVE  Outlived
  <2> SUFFICES ASSUME NEW n \in 0..(Generations - 1), Exists(n)
               PROVE  Outlives(n)
    OBVIOUS
  <2>a. /\ Generations \in Nat \ {0} /\ files \in [0..Generations -> FileType]
        /\ TypeOK /\ StepInv /\ n \in 0..Generations
        /\ files[n].lo \in Nat /\ files[n].hi \in Nat
    BY <1>1, CollectorAssumption, FileFacts DEF CollectorInv, TypeOK
  <2>1. ASSUME files'[n] = files[n]
        PROVE  Outlives(n)
    BY <2>1, <2>a DEF Held
  <2>2. ASSUME Writing
        PROVE  Outlives(n)
    <3>1. Exists(0) /\ \E b \in Seq(0..MaxEvents) : Put(b)
      BY <1>1, <2>2, WritingPuts, Zenon
    <3>2. PICK d \in Nat : /\ files'[0].lo = files[0].lo /\ files'[0].hi = files[0].hi + d
                           /\ \A k \in 1..Generations : files'[k] = files[k]
      BY <2>a, <3>1, PutFacts, LenProperties, ZenonT(30)
    <3>3. CASE n = 0
      BY <2>a, <3>2, <3>3 DEF Held
    <3>4. CASE n # 0
      BY <2>1, <2>a, <3>2, <3>4
    <3> QED
      BY <3>3, <3>4
  <2>3. ASSUME OpenLog
        PROVE  Outlives(n)
    <3>1. files'[n] = files[n]
      BY <2>3, <2>a DEF OpenLog
    <3> QED
      BY <2>1, <3>1
  <2>4. ASSUME RemoveOldest
        PROVE  Outlives(n)
    <3>1. files'[n] = files[n]
      BY <2>4, <2>a DEF RemoveOldest
    <3> QED
      BY <2>1, <3>1
  <2>5. ASSUME NEW s \in 0..(Generations - 1), ~Exists(s + 1), files' = Moved(s)
        PROVE  Outlives(n)
    <3>1. /\ files'[s + 1] = files[s]
          /\ \A m \in 0..Generations : m # s /\ m # s + 1 => files'[m] = files[m]
      BY <2>5, <2>a, MovedFacts, Zenon
    <3>2. n # s + 1
      BY <2>5
    <3>3. CASE n = s
      <4>1. s + 1 \in 0..Generations /\ Held(files[n], files'[s + 1])
        BY <2>a, <3>1, <3>3 DEF Held
      <4> QED
        BY <4>1, Zenon
    <3>4. CASE n # s
      <4>1. files'[n] = files[n]
        BY <2>a, <3>1, <3>2, <3>4
      <4> QED
        BY <2>1, <4>1
    <3> QED
      BY <3>3, <3>4
  <2>6. ASSUME Shift
        PROVE  Outlives(n)
    <3>1. shift \in 0..(Generations - 1) /\ ~Exists(shift + 1)
      BY <1>1, <2>6, <2>a DEF Shift, StepInv, RotateInv
    <3>2. files' = Moved(shift) \/ files' = files
      BY <2>6, Zenon DEF Shift
    <3> QED
      BY <2>1, <2>5, <3>1, <3>2, Zenon
  <2>7. ASSUME RenameLog
        PROVE  Outlives(n)
    <3>1. 0 \in 0..(Generations - 1) /\ ~Exists(0 + 1)
      BY <1>1, <2>7, <2>a DEF RenameLog, RotateInv
    <3>2. files' = Moved(0)
      BY <2>7, Zenon DEF RenameLog
    <3> QED
      BY <2>5, <3>1, <3>2, Zenon
  <2>8. ASSUME Send \/ SendDropped \/ OpenFails \/ Recv \/ Stop \/ Restart
        PROVE  Outlives(n)
    BY <2>1, <2>8, Zenon DEF Send, SendDropped, OpenFails, Recv, Stop, Restart
  <2> HIDE DEF Outlives
  <2> QED
    BY <1>1, <2>2, <2>3, <2>4, <2>6, <2>7, <2>8, Zenon DEF Next, Run, Writing
<1>2. CollectorInv /\ RotateInv /\ [Next]_vars => [Outlived]_vars
  <2> HIDE DEF Outlived
  <2> QED
    BY <1>1, Zenon
<1> QED
  BY <1>2, CollectorKept, RotateKept, PTL DEF Spec, OnlyOldestDropped

-----------------------------------------------------------------------------
(* The size of the log *)

\* What a file may hold after k times a line more than the limit.
Allowed(k) == MaxLog + k * MaxLine

\* What run knows of the log's size: its count never falls short of it while it
\* waits and writes, so only a line that crossed the limit, or a process that
\* died before it rotated, takes the log beyond.
BoundInv ==
    /\ \A n \in 0..Generations : Exists(n) => Bytes(files[n]) < Allowed(stops + 1)
    /\ pc \in {"open", "dead", "down", "recv", "write"} /\ Exists(0)
         => Bytes(files[0]) < Allowed(stops)
    /\ pc \in {"recv", "write"} => Bytes(files[0]) <= written
    /\ pc = "newline" => /\ Bytes(files[0]) <= written + Size[hand[1]]
                         /\ Bytes(files[0]) < Allowed(stops) + Size[hand[1]]

\* MaxLine is the size of the longest line with its newline.
LEMMA MaxLineFacts ==
  MaxLine \in Nat /\ \A e \in Events : Size[e] + 1 <= MaxLine
<1> DEFINE P(n) == \E b \in Nat : \A e \in 1..n : Size[e] + 1 <= b
           T == {n \in 0..MaxEvents : ~P(n)}
           S == {Size[e] + 1 : e \in Events}
<1>a. MaxEvents \in Nat /\ \A e \in 1..MaxEvents : Size[e] \in Nat
  BY CollectorAssumption DEF Events
<1>1. T = {}
  <2> SUFFICES ASSUME T # {} PROVE FALSE
    OBVIOUS
  <2>1. T \in SUBSET Nat
    BY <1>a
  <2>2. PICK n \in T : \A m \in T : n <= m
    BY <2>1, LeastNatural, Zenon
  <2>3. n \in 0..MaxEvents /\ ~P(n)
    BY <2>2, Zenon
  <2>4. n # 0
    <3>1. 0 \in Nat /\ \A e \in 1..0 : Size[e] + 1 <= 0
      OBVIOUS
    <3> QED
      BY <2>3, <3>1, Zenon
  <2>5. n - 1 \in 0..MaxEvents /\ ~(n <= n - 1)
    BY <1>a, <2>3, <2>4
  <2>6. P(n - 1)
    BY <2>2, <2>5, Zenon
  <2>7. PICK b \in Nat : \A e \in 1..(n - 1) : Size[e] + 1 <= b
    BY <2>6, Zenon
  <2>8. Size[n] \in Nat
    BY <1>a, <2>3, <2>4
  <2>9. PICK c \in Nat : c >= b /\ c >= Size[n] + 1
    <3>1. b + Size[n] + 1 \in Nat /\ b + Size[n] + 1 >= b /\ b + Size[n] + 1 >= Size[n] + 1
      BY <2>8
    <3> QED
      BY <3>1
  <2>10. \A e \in 1..n : Size[e] + 1 <= c
    <3> SUFFICES ASSUME NEW e \in 1..n PROVE Size[e] + 1 <= c
      OBVIOUS
    <3>1. CASE e = n
      BY <2>8, <2>9, <3>1
    <3>2. CASE e # n
      <4>1. e \in 1..(n - 1) /\ e \in 1..MaxEvents
        BY <2>3, <3>2, <1>a
      <4>2. Size[e] \in Nat /\ Size[e] + 1 <= b
        BY <1>a, <2>7, <4>1, Zenon
      <4> HIDE DEF T, P, S
      <4> QED
        BY <2>9, <4>2
    <3> QED
      BY <3>1, <3>2
  <2> QED
    BY <2>3, <2>10, Zenon
<1>2. PICK b \in Nat : \A e \in 1..MaxEvents : Size[e] + 1 <= b
  <2>1. MaxEvents \in 0..MaxEvents
    BY <1>a
  <2> QED
    BY <1>1, <2>1, Zenon
<1>3. S \in SUBSET (0..b)
  BY <1>a, <1>2 DEF Events
<1>4. CASE S = {}
  BY <1>4, Zenon DEF MaxLine
<1>5. CASE S # {}
  <2>1. \E x \in S : \A y \in S : x >= y
    BY <1>3, <1>5, GreatestNatural, Zenon
  <2>2. MaxLine = CHOOSE x \in S : \A y \in S : x >= y
    BY <1>5, Zenon DEF MaxLine
  <2>3. MaxLine \in S /\ \A y \in S : MaxLine >= y
    BY <2>1, <2>2, Zenon
  <2> HIDE DEF S
  <2>4. \A e \in Events : Size[e] + 1 \in S
    BY DEF S
  <2>5. MaxLine \in Nat
    BY <1>3, <2>3
  <2>6. \A y \in S : y \in Nat /\ y <= MaxLine
    BY <1>3, <2>3, <2>5
  <2> QED
    BY <2>4, <2>5, <2>6, Zenon
<1> QED
  BY <1>4, <1>5

\* Each death of the process allows one line more.
LEMMA AllowedFacts ==
  ASSUME NEW k \in Nat
  PROVE  /\ Allowed(k) \in Nat /\ Allowed(k) >= MaxLog
         /\ Allowed(k + 1) = Allowed(k) + MaxLine
<1>1. MaxLine \in Nat /\ MaxLog \in Nat
  BY MaxLineFacts, CollectorAssumption
<1>2. k * MaxLine \in Nat /\ (k + 1) * MaxLine = k * MaxLine + MaxLine
  BY <1>1
<1> QED
  BY <1>1, <1>2 DEF Allowed

\* A write that leaves the file within what its line allows keeps BoundInv.
LEMMA BoundWrite ==
  ASSUME CollectorInv, BoundInv, Writing
  PROVE  BoundInv'
<1> DEFINE a == Allowed(stops)
           z == Size[hand[1]]
           size == Bytes(files[0])
<1>a. /\ Generations \in Nat \ {0} /\ files \in [0..Generations -> FileType]
      /\ written \in Nat /\ stops \in Nat /\ MaxLog \in Nat \ {0} /\ TypeOK
  BY CollectorAssumption DEF CollectorInv, TypeOK
<1>b. /\ a \in Nat /\ a >= MaxLog /\ MaxLine \in Nat
      /\ Allowed(stops + 1) = a + MaxLine
  BY <1>a, AllowedFacts, MaxLineFacts, Zenon
<1>c. hand[1] \in Events /\ Exists(0)
  BY WritingPuts, Zenon
<1>d. z \in Nat \ {0} /\ z + 1 <= MaxLine
  BY <1>c, MaxLineFacts, LineFacts, Zenon
<1>e. size \in Nat
  BY <1>a, <1>c, FileFacts DEF Bytes
<1>f. /\ pc = "write" => size <= written /\ size < a
      /\ pc = "newline" => size <= written + z /\ size < a + z
  BY <1>c, Zenon DEF BoundInv
<1>k. Counted = written + z + 1
  BY Zenon DEF Counted
<1>g. ASSUME NEW b \in Seq(0..MaxEvents), Put(b)
      PROVE  /\ Bytes(files'[0]) = size + Len(b)
             /\ \A n \in 1..Generations : files'[n] = files[n]
             /\ Len(b) \in Nat
  <2>1. /\ files'[0].lo = files[0].lo /\ files'[0].hi = files[0].hi + Len(b)
        /\ \A n \in 1..Generations : files'[n] = files[n]
        /\ Len(b) \in Nat
    BY <1>a, <1>c, <1>g, PutFacts, LenProperties, Zenon
  <2>2. files[0].lo \in Nat /\ files[0].hi \in Nat
    BY <1>a, <1>c, FileFacts
  <2> QED
    BY <2>1, <2>2 DEF Bytes
<1>h. UNCHANGED stops
  BY Zenon DEF Writing, WriteLine, WriteBody, WriteNewline, WriteFails
<1>i. ASSUME \A n \in 1..Generations : files'[n] = files[n],
             Bytes(files'[0]) < a + MaxLine
      PROVE  \A n \in 0..Generations : Exists(n)' => Bytes(files'[n]) < Allowed(stops + 1)'
  <2>1. Allowed(stops + 1)' = a + MaxLine
    BY <1>b, <1>h, Zenon DEF Allowed
  <2>2. \A n \in 1..Generations : Exists(n) => Bytes(files[n]) < a + MaxLine
    BY <1>a, <1>b DEF BoundInv
  <2>3. \A n \in 0..Generations : n = 0 \/ n \in 1..Generations
    BY <1>a
  <2> QED
    BY <1>i, <2>1, <2>2, <2>3, Zenon DEF Exists
<1>1. ASSUME NEW d \in Nat, Bytes(files'[0]) = size + d, size + d <= Counted,
             \A n \in 1..Generations : files'[n] = files[n],
             size + d < a + MaxLine, LineDone
      PROVE  BoundInv'
  <2>1. \A n \in 0..Generations : Exists(n)' => Bytes(files'[n]) < Allowed(stops + 1)'
    BY <1>1, <1>i, Zenon
  <2>2. pc' \in {"remove", "recv"} /\ (pc' = "recv" => Counted < MaxLog) /\ written' = Counted
    BY <1>1, <1>a, <1>d DEF LineDone, Counted
  <2>3. Allowed(stops)' = a
    BY <1>h, Zenon DEF Allowed
  <2>4. pc' = "recv" => Bytes(files'[0]) < a /\ Bytes(files'[0]) <= written'
    BY <1>1, <1>a, <1>b, <1>d, <1>e, <2>2 DEF Counted
  <2> HIDE DEF a, size, z
  <2> QED
    BY <2>1, <2>2, <2>3, <2>4 DEF BoundInv
<1>2. WriteLine => BoundInv'
  <2> SUFFICES ASSUME WriteLine PROVE BoundInv'
    OBVIOUS
  <2> DEFINE b == Append(Line(hand[1]), 0)
  <2>1. b \in Seq(0..MaxEvents) /\ Len(b) = z + 1
    BY <1>c, LineFacts, Zenon
  <2>2. Put(b) /\ LineDone /\ pc = "write"
    BY Zenon DEF WriteLine
  <2> HIDE DEF b
  <2>3. /\ Bytes(files'[0]) = size + (z + 1)
        /\ \A n \in 1..Generations : files'[n] = files[n]
    BY <1>g, <2>1, <2>2, Zenon
  <2>4. z + 1 \in Nat /\ size + (z + 1) <= Counted /\ size + (z + 1) < a + MaxLine
    <3> HIDE DEF a, size, z
    <3> QED
      BY <1>a, <1>b, <1>d, <1>e, <1>f, <1>k, <2>2
  <2> HIDE DEF a, size, z
  <2> QED
    BY <1>1, <2>2, <2>3, <2>4, Zenon
<1>3. WriteFails => BoundInv'
  <2> SUFFICES ASSUME WriteFails PROVE BoundInv'
    OBVIOUS
  <2>1. PICK k \in 0..z, nl \in {<<>>, <<0>>} :
            (k < z \/ nl = <<>>) /\ Put(SubSeq(Line(hand[1]), 1, k) \o nl)
    BY Zenon DEF WriteFails
  <2> DEFINE b == SubSeq(Line(hand[1]), 1, k) \o nl
  <2>2. b \in Seq(0..MaxEvents) /\ Len(b) <= z
    BY <1>c, <2>1, FragmentFacts, Zenon
  <2>3. Put(b) /\ LineDone /\ pc = "write"
    BY <2>1, Zenon DEF WriteFails
  <2> HIDE DEF b
  <2>4. /\ Bytes(files'[0]) = size + Len(b) /\ Len(b) \in Nat
        /\ \A n \in 1..Generations : files'[n] = files[n]
    BY <1>g, <2>2, <2>3, Zenon
  <2>5. size + Len(b) <= Counted /\ size + Len(b) < a + MaxLine
    <3> HIDE DEF a, size, z
    <3> QED
      BY <1>a, <1>b, <1>d, <1>e, <1>f, <1>k, <2>2, <2>3, <2>4
  <2> HIDE DEF a, size, z
  <2> QED
    BY <1>1, <2>3, <2>4, <2>5, Zenon
<1>4. WriteNewline => BoundInv'
  <2> SUFFICES ASSUME WriteNewline PROVE BoundInv'
    OBVIOUS
  <2>1. <<0>> \in Seq(0..MaxEvents) /\ Len(<<0>>) = 1
    BY CollectorAssumption
  <2>2. Put(<<0>>) /\ LineDone /\ pc = "newline"
    BY Zenon DEF WriteNewline
  <2>3. /\ Bytes(files'[0]) = size + 1
        /\ \A n \in 1..Generations : files'[n] = files[n]
    BY <1>g, <2>1, <2>2, Zenon
  <2>4. 1 \in Nat /\ size + 1 <= Counted /\ size + 1 < a + MaxLine
    <3> HIDE DEF a, size, z
    <3> QED
      BY <1>a, <1>b, <1>d, <1>e, <1>f, <1>k, <2>2
  <2> HIDE DEF a, size, z
  <2> QED
    BY <1>1, <2>2, <2>3, <2>4, Zenon
<1>5. WriteBody => BoundInv'
  <2> SUFFICES ASSUME WriteBody PROVE BoundInv'
    OBVIOUS
  <2>1. Line(hand[1]) \in Seq(0..MaxEvents) /\ Len(Line(hand[1])) = z
    BY <1>c, LineFacts, Zenon
  <2>2. Put(Line(hand[1])) /\ pc = "write" /\ pc' = "newline" /\ written' = written /\ hand' = hand
    BY Zenon DEF WriteBody
  <2>3. /\ Bytes(files'[0]) = size + z
        /\ \A n \in 1..Generations : files'[n] = files[n]
    BY <1>g, <2>1, <2>2, Zenon
  <2>4. size + z < a + MaxLine /\ size + z <= written + z /\ size + z < a + z
    <3> HIDE DEF a, size, z
    <3> QED
      BY <1>a, <1>b, <1>d, <1>e, <1>f, <2>2
  <2>5. \A n \in 0..Generations : Exists(n)' => Bytes(files'[n]) < Allowed(stops + 1)'
    BY <1>i, <2>3, <2>4, Zenon
  <2>6. Allowed(stops)' = a /\ (Size[hand[1]])' = z
    BY <1>h, <2>2, Zenon DEF Allowed
  <2> HIDE DEF a, size, z
  <2> QED
    BY <2>2, <2>3, <2>4, <2>5, <2>6 DEF BoundInv
<1> QED
  BY <1>2, <1>3, <1>4, <1>5, Zenon DEF Writing

\* Without failing renames every step keeps BoundInv.
LEMMA BoundStep ==
  ASSUME "rename" \notin Faults, CollectorInv, BoundInv
  PROVE  [Next]_vars => BoundInv'
<1>a. /\ Generations \in Nat \ {0} /\ files \in [0..Generations -> FileType]
      /\ written \in Nat /\ stops \in Nat /\ MaxLog \in Nat \ {0}
      /\ TypeOK /\ StepInv /\ 0 \in 0..Generations
  BY CollectorAssumption DEF CollectorInv, TypeOK
<1>b. /\ Allowed(stops) \in Nat /\ Allowed(stops) >= MaxLog /\ MaxLine \in Nat
      /\ Allowed(stops + 1) = Allowed(stops) + MaxLine
  BY <1>a, AllowedFacts, MaxLineFacts, Zenon
<1>c. \A n \in 0..Generations : Exists(n) => Bytes(files[n]) < Allowed(stops + 1)
  BY Zenon DEF BoundInv
<1>1. Send \/ SendDropped \/ OpenFails \/ Restart \/ UNCHANGED vars => BoundInv'
  BY Zenon DEF Send, SendDropped, OpenFails, Restart, vars, BoundInv, Exists
<1>2. Recv => BoundInv'
  BY Zenon DEF Recv, BoundInv, Exists
<1>3. OpenLog => BoundInv'
  <2> SUFFICES ASSUME OpenLog PROVE BoundInv'
    OBVIOUS
  <2>1. pc = "open" /\ pc' = "recv" /\ stops' = stops
    BY DEF OpenLog
  <2>2. CASE Exists(0)
    <3>1. files' = files /\ written' = Bytes(files[0])
      BY <2>2, Zenon DEF OpenLog, SizeOnOpen
    <3>2. Bytes(files[0]) < Allowed(stops) /\ Bytes(files[0]) \in Nat
      BY <1>a, <2>1, <2>2, FileFacts DEF BoundInv, Bytes
    <3>3. Bytes(files[0]) <= Bytes(files[0])
      BY <3>2
    <3> QED
      BY <1>c, <2>1, <3>1, <3>2, <3>3 DEF BoundInv, Exists
  <2>3. CASE ~Exists(0)
    <3>1. Len(stream) \in Nat
      BY <1>a, LenProperties DEF TypeOK
    <3>2. files' = [files EXCEPT ![0] = [lo |-> Len(stream), hi |-> Len(stream)]]
      BY <2>3, Zenon DEF OpenLog
    <3>3. Bytes(files'[0]) = 0 /\ \A n \in 1..Generations : files'[n] = files[n]
      BY <1>a, <3>1, <3>2 DEF Bytes
    <3>4. written' = 0
      BY <2>3, Zenon DEF OpenLog, SizeOnOpen
    <3>5. 0 < Allowed(stops) /\ 0 < Allowed(stops + 1) /\ 0 <= 0
      BY <1>a, <1>b
    <3>6. \A n \in 0..Generations : n = 0 \/ n \in 1..Generations
      BY <1>a
    <3>7. \A n \in 0..Generations : Exists(n)' => Bytes(files'[n]) < Allowed(stops + 1)
      BY <1>c, <3>3, <3>5, <3>6, Zenon DEF Exists
    <3> QED
      BY <2>1, <3>3, <3>4, <3>5, <3>7 DEF BoundInv
  <2> QED
    BY <2>2, <2>3
<1>4. ASSUME \A n \in 0..Generations :
                files'[n] = NoFile \/ \E m \in 0..Generations : files'[n] = files[m],
             stops' = stops,
             pc' \in {"remove", "shift", "rename"} \/ (files'[0] = NoFile /\ pc' = "open")
      PROVE  BoundInv'
  <2>1. \A n \in 0..Generations : Exists(n)' => Bytes(files'[n]) < Allowed(stops + 1)
    BY <1>c, <1>4, Zenon DEF Exists
  <2> QED
    BY <1>4, <2>1 DEF BoundInv, Exists
<1>5. RemoveOldest => BoundInv'
  <2> SUFFICES ASSUME RemoveOldest PROVE BoundInv'
    OBVIOUS
  <2>1. \A n \in 0..Generations : files'[n] = NoFile \/ files'[n] = files[n]
    BY <1>a DEF RemoveOldest
  <2>2. stops' = stops /\ pc' \in {"remove", "shift", "rename"}
    BY DEF RemoveOldest
  <2> QED
    BY <1>4, <2>1, <2>2, Zenon
<1>6. ASSUME NEW s \in 0..(Generations - 1), files' = Moved(s)
      PROVE  \A n \in 0..Generations : files'[n] = NoFile \/ \E m \in 0..Generations : files'[n] = files[m]
  <2>1. /\ files'[s + 1] = files[s] /\ files'[s] = NoFile
        /\ \A m \in 0..Generations : m # s /\ m # s + 1 => files'[m] = files[m]
    BY <1>a, <1>6, MovedFacts, Zenon
  <2>2. s \in 0..Generations
    BY <1>a
  <2> QED
    BY <2>1, <2>2, Zenon
<1>7. Shift => BoundInv'
  <2> SUFFICES ASSUME Shift PROVE BoundInv'
    OBVIOUS
  <2>1. shift \in 0..(Generations - 1)
    BY <1>a DEF Shift, StepInv
  <2>2. files' = Moved(shift) \/ files' = files
    BY Zenon DEF Shift
  <2>3. stops' = stops /\ pc' \in {"remove", "shift", "rename"}
    BY DEF Shift
  <2>4. CASE files' = Moved(shift)
    BY <1>4, <1>6, <2>1, <2>3, <2>4, Zenon
  <2>5. CASE files' = files
    BY <1>4, <2>3, <2>5, Zenon
  <2> QED
    BY <2>2, <2>4, <2>5
<1>8. RenameLog => BoundInv'
  <2> SUFFICES ASSUME RenameLog PROVE BoundInv'
    OBVIOUS
  <2>1. files' = Moved(0) /\ stops' = stops /\ pc' = "open"
    BY Zenon DEF RenameLog
  <2>2. 0 \in 0..(Generations - 1)
    BY <1>a
  <2>3. files'[0] = NoFile
    BY <1>a, <2>1, <2>2, MovedFacts, Zenon
  <2> QED
    BY <1>4, <1>6, <2>1, <2>2, <2>3, Zenon
<1>9. Stop => BoundInv'
  <2> SUFFICES ASSUME Stop PROVE BoundInv'
    OBVIOUS
  <2>1. files' = files /\ stops' = stops + 1 /\ pc' = "down"
    BY Zenon DEF Stop
  <2>2. stops + 1 \in Nat
    BY <1>a
  <2>3. Allowed(stops + 2) = Allowed(stops + 1) + MaxLine /\ Allowed(stops + 1) \in Nat
    <3>1. (stops + 1) + 1 = stops + 2
      BY <1>a
    <3> QED
      BY <2>2, <3>1, AllowedFacts, Zenon
  <2>4. \A n \in 0..Generations : Exists(n) => Bytes(files[n]) \in Nat
    BY <1>a, FileFacts DEF Bytes
  <2>5. \A n \in 0..Generations : Exists(n) => Bytes(files[n]) < Allowed(stops + 2)
    BY <1>b, <1>c, <2>3, <2>4
  <2>6. Allowed(stops + 1)' = Allowed(stops + 2) /\ Allowed(stops)' = Allowed(stops + 1)
    <3>1. stops' + 1 = stops + 2
      BY <1>a, <2>1
    <3> QED
      BY <2>1, <3>1, Zenon DEF Allowed
  <2> QED
    BY <1>a, <1>c, <2>1, <2>5, <2>6 DEF BoundInv, Exists
<1> QED
  BY <1>1, <1>2, <1>3, <1>5, <1>7, <1>8, <1>9, BoundWrite, Zenon DEF Next, Run, Writing

\* As long as no rename and no removal fails, no file of the log outgrows
\* MAX_LOG_BYTES by more than the line that crossed it and one line for each
\* time the process died before rotate_log ran, whatever the sizes of the lines.
THEOREM LogStaysBounded ==
  ASSUME "rename" \notin Faults
  PROVE  Spec => []LogBounded
<1>1. Init => BoundInv
  BY CollectorAssumption DEF Init, BoundInv, Exists
<1>2. CollectorInv /\ BoundInv /\ [Next]_vars => BoundInv'
  BY BoundStep
<1>3. BoundInv => LogBounded
  BY Zenon DEF BoundInv, LogBounded, Allowed
<1> QED
  BY <1>1, <1>2, <1>3, CollectorKept, PTL DEF Spec

-----------------------------------------------------------------------------
(* The lines of the log *)

\* The line of event e stands after the first i bytes of the history.
StandsAt(i, e) ==
    /\ i > 0 => stream[i] = 0
    /\ \A j \in 1..Size[e] : stream[i + j] = e
    /\ stream[i + Size[e] + 1] = 0

Lined(e) == \E i \in 0..(Len(stream) - Size[e] - 1) : StandsAt(i, e)

\* The history ends with a line, or with the body of a long line that waits for
\* its newline.
EndInv ==
    /\ pc # "newline" /\ Len(stream) > 0 => stream[Len(stream)] = 0
    /\ pc = "newline" =>
         LET z == Size[hand[1]]
             i == Len(stream) - z
         IN  /\ z >= BufCap /\ i >= 0
             /\ i > 0 => stream[i] = 0
             /\ \A j \in 1..z : stream[i + j] = hand[1]

IntactInv == EndInv /\ \A k \in 1..Len(logged) : Lined(logged[k])

\* A line of the history stays one when more is appended.
LEMMA LinedKept ==
  ASSUME NEW e \in Events, Lined(e), Len(stream) \in Nat, Len(stream') \in Nat,
         Len(stream) <= Len(stream'), \A i \in 1..Len(stream) : stream'[i] = stream[i]
  PROVE  Lined(e)'
<1>1. PICK i \in 0..(Len(stream) - Size[e] - 1) : StandsAt(i, e)
  BY Zenon DEF Lined
<1>2. Size[e] \in Nat
  BY LineFacts
<1>3. i \in 0..(Len(stream') - Size[e] - 1)
  BY <1>2
<1>4. /\ i > 0 => i \in 1..Len(stream)
      /\ \A j \in 1..Size[e] : i + j \in 1..Len(stream)
      /\ i + Size[e] + 1 \in 1..Len(stream)
  <2> DEFINE L == Len(stream)
             z == Size[e]
  <2>1. L \in Nat /\ z \in Nat /\ i \in 0..(L - z - 1)
    BY <1>2
  <2> HIDE DEF L, z
  <2>2. /\ i > 0 => i \in 1..L
        /\ \A j \in 1..z : i + j \in 1..L
        /\ i + z + 1 \in 1..L
    BY <2>1
  <2> QED
    BY <2>2 DEF L, z
<1>5. StandsAt(i, e)'
  BY <1>1, <1>4, Zenon DEF StandsAt
<1> QED
  BY <1>3, <1>5, Zenon DEF Lined

\* What StandsAt says is what LoggedIntact says.
LEMMA LinedIntact ==
  ASSUME CollectorInv, IntactInv
  PROVE  LoggedIntact
<1> SUFFICES ASSUME NEW k \in 1..Len(logged)
             PROVE  \E i \in 0..(Len(stream) - Size[logged[k]] - 1) :
                      /\ i > 0 => stream[i] = 0
                      /\ SubSeq(stream, i + 1, i + Size[logged[k]] + 1)
                           = Append(Line(logged[k]), 0)
  BY Zenon DEF LoggedIntact
<1> DEFINE e == logged[k]
           z == Size[e]
           l == Line(e)
<1>1. e \in Events /\ Lined(e)
  <2>1. logged \in Seq(Events)
    BY Zenon DEF CollectorInv, TypeOK
  <2> QED
    BY <2>1, LenProperties, Zenon DEF IntactInv
<1> HIDE DEF e
<1>2. PICK i \in 0..(Len(stream) - z - 1) : StandsAt(i, e)
  BY <1>1, Zenon DEF Lined
<1>3. /\ l \in Seq(0..MaxEvents) /\ Len(l) = z /\ (\A j \in 1..z : l[j] = e)
      /\ z \in Nat \ {0} /\ 0 \in 0..MaxEvents
      /\ stream \in [1..Len(stream) -> 0..MaxEvents] /\ Len(stream) \in Nat
  <2>1. 0 \in 0..MaxEvents
    BY CollectorAssumption
  <2>2. stream \in Seq(0..MaxEvents)
    BY Zenon DEF CollectorInv, TypeOK
  <2> QED
    BY <1>1, <2>1, <2>2, LineFacts, LenProperties, Zenon
<1> DEFINE line == Append(l, 0)
           from == i + 1
           to == i + z + 1
           part == SubSeq(stream, from, to)
<1> HIDE DEF z, l
<1>4. line \in Seq(0..MaxEvents) /\ Len(line) = z + 1
      /\ (\A j \in 1..z : line[j] = e) /\ line[z + 1] = 0
  BY <1>3, AppendProperties
<1>5. /\ from \in Int /\ to \in Int /\ from <= to /\ to - from + 1 = z + 1
      /\ \A j \in from..to : j \in 1..Len(stream)
      /\ \A j \in 1..(z + 1) : from + j - 1 = i + j
  BY <1>3
<1> HIDE DEF from, to
<1>6. \A j \in from..to : stream[j] \in 0..MaxEvents
  BY <1>3, <1>5, Zenon
<1>7. /\ part \in Seq(0..MaxEvents)
      /\ Len(part) = (IF from <= to THEN to - from + 1 ELSE 0)
      /\ \A j \in 1..(to - from + 1) : part[j] = stream[from + j - 1]
  BY <1>5, <1>6, SubSeqProperties
<1> HIDE DEF part, line
<1>8. Len(part) = z + 1 /\ \A j \in 1..(z + 1) : part[j] = stream[i + j]
  BY <1>5, <1>7, Zenon
<1>9. \A j \in 1..(z + 1) : part[j] = line[j]
  <2> SUFFICES ASSUME NEW j \in 1..(z + 1) PROVE part[j] = line[j]
    OBVIOUS
  <2>1. CASE j \in 1..z
    BY <1>2, <1>4, <1>8, <2>1, Zenon DEF StandsAt, z
  <2>2. CASE j = z + 1
    <3>1. i + j = i + z + 1
      BY <1>3, <2>2
    <3> QED
      BY <1>2, <1>4, <1>8, <2>2, <3>1, Zenon DEF StandsAt, z
  <2>3. j \in 1..z \/ j = z + 1
    BY <1>3
  <2> QED
    BY <2>1, <2>2, <2>3
<1>10. part = line
  BY <1>4, <1>7, <1>8, <1>9, SeqEqual, Zenon
<1>11. i > 0 => stream[i] = 0
  BY <1>2, Zenon DEF StandsAt
<1> QED
  BY <1>10, <1>11, Zenon DEF part, from, to, line, z, l, e

\* Logging the event in hand adds it at the end of what was logged.
LEMMA LoggedFacts ==
  ASSUME CollectorInv, hand # <<>>, logged' = logged \o hand
  PROVE  /\ hand[1] \in Events /\ Len(logged) \in Nat /\ logged' \in Seq(Events)
         /\ Len(logged') = Len(logged) + 1
         /\ \A k \in 1..Len(logged) : logged[k] \in Events /\ logged'[k] = logged[k]
         /\ logged'[Len(logged) + 1] = hand[1]
<1>1. logged \in Seq(Events) /\ hand \in Seq(Events) /\ Len(hand) <= 1
  BY Zenon DEF CollectorInv, TypeOK
<1>2. Len(hand) = 1 /\ hand[1] \in Events /\ Len(logged) \in Nat
  <2>1. Len(hand) \in Nat /\ Len(hand) # 0 /\ Len(logged) \in Nat
    BY <1>1, LenProperties, EmptySeq, Zenon
  <2>2. (\A n \in Nat : n # 0 /\ n <= 1 => n = 1) /\ 1 \in 1..1
    OBVIOUS
  <2>3. Len(hand) = 1
    BY <1>1, <2>1, <2>2, Zenon
  <2> QED
    BY <1>1, <2>1, <2>2, <2>3, LenProperties, Zenon
<1>3. /\ logged' \in Seq(Events) /\ Len(logged') = Len(logged) + Len(hand)
      /\ \A k \in 1..(Len(logged) + Len(hand)) :
            logged'[k] = IF k <= Len(logged) THEN logged[k] ELSE hand[k - Len(logged)]
  BY <1>1, ConcatProperties, Zenon
<1>4. \A k \in 1..Len(logged) : logged[k] \in Events
  BY <1>1, LenProperties, Zenon
<1>5. /\ \A k \in 1..Len(logged) : k \in 1..(Len(logged) + 1) /\ k <= Len(logged)
      /\ Len(logged) + 1 \in 1..(Len(logged) + 1) /\ ~(Len(logged) + 1 <= Len(logged))
      /\ Len(logged) + 1 - Len(logged) = 1
  BY <1>2
<1>6. \A k \in 1..(Len(logged) + 1) :
          /\ k <= Len(logged) => logged'[k] = logged[k]
          /\ ~(k <= Len(logged)) => logged'[k] = hand[k - Len(logged)]
  BY <1>2, <1>3, Zenon
<1>7. \A k \in 1..Len(logged) : logged'[k] = logged[k]
  BY <1>5, <1>6, Zenon
<1>8. logged'[Len(logged) + 1] = hand[1]
  <2> DEFINE n == Len(logged) + 1
  <2>1. n \in 1..(Len(logged) + 1) /\ ~(n <= Len(logged)) /\ n - Len(logged) = 1
    BY <1>5
  <2> HIDE DEF n
  <2>2. logged'[n] = hand[n - Len(logged)]
    BY <1>6, <2>1, Zenon
  <2>3. logged'[n] = hand[1]
    BY <2>1, <2>2, Zenon
  <2> QED
    BY <2>3 DEF n
<1> QED
  BY <1>2, <1>3, <1>4, <1>7, <1>8, Zenon

\* Where writes do not fail, and no process dies between a line and its
\* newline, every step keeps the lines of the log whole.
LEMMA IntactStep ==
  ASSUME "write" \notin Faults, MaxStops = 0 \/ \A e \in Events : Size[e] < BufCap,
         CollectorInv, IntactInv
  PROVE  [Next]_vars => IntactInv'
<1> DEFINE L == Len(stream)
           e == hand[1]
           z == Size[hand[1]]
<1>a. /\ stream \in Seq(0..MaxEvents) /\ L \in Nat
      /\ logged \in Seq(Events) /\ Len(logged) \in Nat /\ TypeOK
      /\ \A k \in 1..Len(logged) : logged[k] \in Events
  <2>1. stream \in Seq(0..MaxEvents) /\ logged \in Seq(Events) /\ TypeOK
    BY Zenon DEF CollectorInv, TypeOK
  <2> QED
    BY <2>1, LenProperties, Zenon
<1>b. EndInv /\ \A k \in 1..Len(logged) : Lined(logged[k])
  BY Zenon DEF IntactInv
<1>c. Writing => /\ e \in Events /\ Exists(0) /\ hand # <<>>
                 /\ z \in Nat \ {0} /\ BufCap \in Nat
                 /\ 0 \in 0..MaxEvents
  <2>1. Writing => e \in Events /\ Exists(0)
    BY WritingPuts, Zenon
  <2>2. Writing => hand # <<>>
    BY DEF Writing, WriteLine, WriteBody, WriteNewline, WriteFails, CollectorInv, TypeOK
  <2>3. Writing => z \in Nat \ {0}
    BY <2>1, LineFacts, Zenon
  <2>4. BufCap \in Nat /\ 0 \in 0..MaxEvents
    BY CollectorAssumption
  <2> QED
    BY <2>1, <2>2, <2>3, <2>4
<1>d. ASSUME Writing, NEW b \in Seq(0..MaxEvents), Put(b)
      PROVE  /\ Len(stream') \in Nat /\ Len(stream') = L + Len(b) /\ L <= Len(stream')
             /\ \A i \in 1..L : stream'[i] = stream[i]
             /\ \A i \in 1..Len(b) : stream'[L + i] = b[i]
             /\ \A x \in Events : Lined(x) => Lined(x)'
  <2>1. /\ stream' \in Seq(0..MaxEvents) /\ Len(stream') = L + Len(b)
        /\ \A i \in 1..L : stream'[i] = stream[i]
        /\ \A i \in 1..Len(b) : stream'[L + i] = b[i]
    BY <1>a, <1>c, <1>d, PutFacts, Zenon
  <2>2. Len(b) \in Nat /\ Len(stream') \in Nat
    BY <2>1, LenProperties, Zenon
  <2>3. L <= L + Len(b)
    BY <1>a, <2>2
  <2>4. L <= Len(stream')
    BY <2>1, <2>3, Zenon
  <2>5. \A x \in Events : Lined(x) => Lined(x)'
    BY <1>a, <2>1, <2>2, <2>4, LinedKept, Zenon
  <2> QED
    BY <2>1, <2>2, <2>4, <2>5, Zenon
<1>e. ASSUME Writing, logged' = logged \o hand, NEW h, h = e, Lined(h)',
             \A x \in Events : Lined(x) => Lined(x)'
      PROVE  \A k \in 1..Len(logged') : Lined(logged[k])'
  <2> SUFFICES ASSUME NEW k \in 1..Len(logged') PROVE Lined(logged[k])'
    OBVIOUS
  <2>1. /\ Len(logged') = Len(logged) + 1
        /\ \A j \in 1..Len(logged) : logged'[j] = logged[j]
        /\ logged'[Len(logged) + 1] = h
    BY <1>c, <1>e, LoggedFacts, Zenon
  <2>2. ASSUME NEW x, x = logged'[k], Lined(x)'
        PROVE  Lined(logged[k])'
    BY <2>2, Zenon DEF Lined, StandsAt
  <2>3. CASE k \in 1..Len(logged)
    <3>1. PICK x \in Events : x = logged[k] /\ Lined(x)
      BY <1>a, <1>b, <2>3, Zenon
    <3> QED
      BY <1>e, <2>1, <2>2, <2>3, <3>1, Zenon
  <2>4. CASE k = Len(logged) + 1
    BY <1>e, <2>1, <2>2, <2>4, Zenon
  <2>5. k \in 1..Len(logged) \/ k = Len(logged) + 1
    BY <1>a, <2>1
  <2> QED
    BY <2>3, <2>4, <2>5
<1>1. ASSUME UNCHANGED <<stream, logged>>, EndInv'
      PROVE  IntactInv'
  BY <1>1, <1>b DEF IntactInv, Lined, StandsAt
<1>2. WriteLine => IntactInv'
  <2> SUFFICES ASSUME WriteLine PROVE IntactInv'
    OBVIOUS
  <2> DEFINE b == Append(Line(e), 0)
  <2>1. /\ Writing /\ pc = "write" /\ pc' \in {"remove", "recv"} /\ logged' = logged \o hand
        /\ Put(b)
    BY Zenon DEF Writing, WriteLine, LineDone
  <2>2. PICK h \in Events : h = e
    BY <1>c, <2>1, Zenon
  <2>3. /\ b \in Seq(0..MaxEvents) /\ Len(b) = z + 1 /\ z \in Nat
        /\ (\A i \in 1..z : b[i] = h) /\ b[z + 1] = 0
    <3> DEFINE l == Line(e)
    <3>1. /\ l \in Seq(0..MaxEvents) /\ Len(l) = z /\ z \in Nat
          /\ (\A i \in 1..z : l[i] = h)
      BY <2>2, LineFacts, Zenon
    <3>2. 0 \in 0..MaxEvents
      BY <1>c, <2>1
    <3> HIDE DEF l
    <3>3. /\ Append(l, 0) \in Seq(0..MaxEvents) /\ Len(Append(l, 0)) = Len(l) + 1
          /\ \A i \in 1..Len(l) : Append(l, 0)[i] = l[i]
          /\ Append(l, 0)[Len(l) + 1] = 0
      BY <3>1, <3>2, AppendProperties
    <3> QED
      BY <3>1, <3>3, Zenon DEF l
  <2> HIDE DEF b
  <2>4. /\ Len(stream') = L + Len(b)
        /\ \A i \in 1..L : stream'[i] = stream[i]
        /\ \A i \in 1..Len(b) : stream'[L + i] = b[i]
        /\ \A x \in Events : Lined(x) => Lined(x)'
    BY <1>d, <2>1, <2>3, Zenon
  <2>5. L > 0 => stream[L] = 0
    BY <1>b, <2>1 DEF EndInv
  <2>z. L \in Nat /\ z \in Nat
    BY <1>a, <2>3
  <2> HIDE DEF L, z, e
  <2>6. /\ \A i \in 1..z : i \in 1..(z + 1)
        /\ z + 1 \in 1..(z + 1) /\ L + (z + 1) = L + z + 1 /\ (L > 0 => L \in 1..L)
        /\ L \in 0..(L + (z + 1) - z - 1)
    BY <2>z
  <2>7. /\ \A j \in 1..z : stream'[L + j] = h
        /\ stream'[L + z + 1] = 0 /\ Len(stream') = L + z + 1
        /\ L > 0 => stream'[L] = 0
        /\ L \in 0..(Len(stream') - z - 1)
    <3>1. \A j \in 1..z : stream'[L + j] = h
      BY <2>3, <2>4, <2>6, Zenon
    <3>2. stream'[L + (z + 1)] = 0
      BY <2>3, <2>4, <2>6, Zenon
    <3>3. Len(stream') = L + (z + 1)
      BY <2>3, <2>4, Zenon
    <3>4. L > 0 => stream'[L] = 0
      BY <2>4, <2>5, <2>6, Zenon
    <3>5. stream'[L + z + 1] = 0
      BY <2>6, <3>2, Zenon
    <3>6. Len(stream') = L + z + 1
      BY <2>6, <3>3, Zenon
    <3>7. L \in 0..(Len(stream') - z - 1)
      BY <2>z, <3>6
    <3> QED
      BY <3>1, <3>4, <3>5, <3>6, <3>7, Zenon
  <2>8. Lined(h)'
    BY <2>2, <2>7, Zenon DEF Lined, StandsAt, z, e
  <2>9. EndInv'
    BY <2>1, <2>7 DEF EndInv
  <2> QED
    BY <1>e, <2>1, <2>2, <2>4, <2>8, <2>9, Zenon DEF IntactInv
<1>3. WriteBody => IntactInv'
  <2> SUFFICES ASSUME WriteBody PROVE IntactInv'
    OBVIOUS
  <2> DEFINE b == Line(e)
  <2>1. /\ Writing /\ pc = "write" /\ pc' = "newline" /\ z >= BufCap
        /\ logged' = logged /\ hand' = hand /\ Put(b)
    BY Zenon DEF Writing, WriteBody
  <2>2. e \in Events
    BY <1>c, <2>1, Zenon
  <2>3. /\ b \in Seq(0..MaxEvents) /\ Len(b) = z /\ z \in Nat
        /\ \A i \in 1..z : b[i] = e
    BY <2>2, LineFacts, Zenon
  <2> HIDE DEF b
  <2>4. /\ Len(stream') = L + Len(b)
        /\ \A i \in 1..L : stream'[i] = stream[i]
        /\ \A i \in 1..Len(b) : stream'[L + i] = b[i]
        /\ \A x \in Events : Lined(x) => Lined(x)'
    BY <1>d, <2>1, <2>3, Zenon
  <2>5. L > 0 => stream[L] = 0
    BY <1>b, <2>1 DEF EndInv
  <2>6. \A k \in 1..Len(logged') : Lined(logged[k])'
    <3> SUFFICES ASSUME NEW k \in 1..Len(logged) PROVE Lined(logged[k])'
      BY <2>1, Zenon
    <3>1. PICK x \in Events : x = logged[k] /\ Lined(x)
      BY <1>a, <1>b, Zenon
    <3>2. x = logged'[k] /\ Lined(x)'
      BY <2>1, <2>4, <3>1, Zenon
    <3> QED
      BY <3>2, Zenon DEF Lined, StandsAt
  <2>z. L \in Nat /\ z \in Nat
    BY <1>a, <2>3
  <2>7. /\ Len(stream') - z = L /\ L >= 0 /\ (L > 0 => stream'[L] = 0)
        /\ \A j \in 1..z : stream'[L + j] = e
    <3> HIDE DEF L, z, e
    <3>1. Len(stream') = L + z
      BY <2>3, <2>4, Zenon
    <3>2. Len(stream') - z = L /\ L >= 0 /\ (L > 0 => L \in 1..L)
      BY <2>z, <3>1
    <3>3. \A j \in 1..z : stream'[L + j] = e
      BY <2>3, <2>4, Zenon
    <3> QED
      BY <2>4, <2>5, <3>2, <3>3, Zenon
  <2>8. EndInv'
    <3>1. (hand[1])' = e /\ (Size[hand[1]])' = z
      BY <2>1, Zenon
    <3> HIDE DEF L, z, e
    <3> QED
      BY <2>1, <2>7, <3>1, Zenon DEF EndInv
  <2> QED
    BY <2>6, <2>8, Zenon DEF IntactInv
<1>4. WriteNewline => IntactInv'
  <2> SUFFICES ASSUME WriteNewline PROVE IntactInv'
    OBVIOUS
  <2>1. /\ Writing /\ pc = "newline" /\ pc' \in {"remove", "recv"} /\ logged' = logged \o hand
        /\ Put(<<0>>)
    BY Zenon DEF Writing, WriteNewline, LineDone
  <2>2. PICK h \in Events : h = e
    BY <1>c, <2>1, Zenon
  <2>3. <<0>> \in Seq(0..MaxEvents) /\ Len(<<0>>) = 1 /\ <<0>>[1] = 0 /\ z \in Nat
    BY <1>c, <2>1
  <2>4. /\ Len(stream') = L + 1
        /\ \A j \in 1..L : stream'[j] = stream[j]
        /\ \A j \in 1..1 : stream'[L + j] = <<0>>[j]
        /\ \A x \in Events : Lined(x) => Lined(x)'
    BY <1>d, <2>1, <2>3, Zenon
  <2> DEFINE i == L - z
  <2>5. i >= 0 /\ (i > 0 => stream[i] = 0) /\ \A j \in 1..z : stream[i + j] = h
    BY <1>b, <2>1, <2>2, Zenon DEF EndInv
  <2>z. L \in Nat /\ z \in Nat
    BY <1>a, <2>3
  <2>6. /\ i \in 0..((L + 1) - z - 1) /\ (i > 0 => i \in 1..L)
        /\ \A j \in 1..z : i + j \in 1..L
        /\ i + z + 1 = L + 1 /\ 1 \in 1..1
    <3> HIDE DEF L, z
    <3> QED
      BY <2>5, <2>z
  <2> HIDE DEF L, z, e, i
  <2>7. stream'[L + 1] = 0
    BY <2>3, <2>4, <2>6, Zenon
  <2>8. i > 0 => stream'[i] = 0
    BY <2>4, <2>5, <2>6, Zenon
  <2>9. \A j \in 1..z : stream'[i + j] = h
    BY <2>4, <2>5, <2>6, Zenon
  <2>10. i \in 0..(Len(stream') - z - 1) /\ stream'[i + z + 1] = 0
    BY <2>4, <2>6, <2>7, Zenon
  <2>11. Lined(h)'
    BY <2>2, <2>8, <2>9, <2>10, Zenon DEF Lined, StandsAt, z, e
  <2>12. EndInv'
    BY <2>1, <2>4, <2>7 DEF EndInv
  <2> QED
    BY <1>e, <2>1, <2>2, <2>4, <2>11, <2>12, Zenon DEF IntactInv
<1>5. Stop => IntactInv'
  <2> SUFFICES ASSUME Stop PROVE IntactInv'
    OBVIOUS
  <2>1. UNCHANGED <<stream, logged>> /\ pc' = "down"
    BY Zenon DEF Stop
  <2>2. pc # "newline"
    <3> SUFFICES ASSUME pc = "newline" PROVE FALSE
      OBVIOUS
    <3>1. MaxStops # 0
      BY <1>a DEF Stop, TypeOK
    <3>2. e \in Events
      BY <1>a DEF TypeOK
    <3>3. z >= BufCap /\ z \in Nat /\ BufCap \in Nat
      BY <1>b, <3>2, CollectorAssumption, LineFacts DEF EndInv
    <3> HIDE DEF z, e
    <3>4. z < BufCap
      BY <3>1, <3>2, Zenon DEF z, e
    <3> QED
      BY <3>3, <3>4
  <2> QED
    BY <1>1, <1>b, <2>1, <2>2 DEF EndInv
<1>6. Send \/ SendDropped \/ OpenLog \/ OpenFails \/ Recv \/ RemoveOldest \/ Shift \/ RenameLog
        \/ Restart \/ UNCHANGED vars => IntactInv'
  BY <1>1, <1>b
  DEF Send, SendDropped, OpenLog, OpenFails, Recv, RemoveOldest, Shift, RenameLog,
      Restart, vars, EndInv
<1>7. ~WriteFails
  BY Zenon DEF WriteFails
<1> QED
  BY <1>2, <1>3, <1>4, <1>5, <1>6, <1>7, Zenon DEF Next, Run

\* With writes that do not fail, every event the collector has logged is a line
\* of its own in the history of attacks.json, complete and between newlines:
\* when the process never dies, or when every line fits the BufWriter's buffer
\* and so reaches the file together with its newline.
THEOREM LinesStayIntact ==
  ASSUME "write" \notin Faults, MaxStops = 0 \/ \A e \in Events : Size[e] < BufCap
  PROVE  Spec => []LoggedIntact
<1>1. Init => IntactInv
  BY DEF Init, IntactInv, EndInv
<1>2. CollectorInv /\ IntactInv /\ [Next]_vars => IntactInv'
  BY IntactStep
<1>3. CollectorInv /\ IntactInv => LoggedIntact
  BY LinedIntact
<1> QED
  BY <1>1, <1>2, <1>3, CollectorKept, PTL DEF Spec

-----------------------------------------------------------------------------
(* The log as a feed of the events *)

\* The events logged are the first that were sent; the one in hand comes next,
\* then those in the channel, and while the receiver lives no event is missing.
FeedInv ==
    /\ \A i \in 1..Len(logged) : logged[i] = i
    /\ hand # <<>> => hand[1] = Len(logged) + 1
    /\ \A i \in 1..Len(chan) : chan[i] = Len(logged) + Len(hand) + i
    /\ pc # "dead" => Len(logged) + Len(hand) + Len(chan) = sent
    /\ Len(logged) + Len(hand) <= sent

\* Logging the event in hand keeps FeedInv, and is the next delivery.
LEMMA FeedLogs ==
  ASSUME CollectorInv, FeedInv, hand # <<>>, logged' = logged \o hand, hand' = <<>>,
         UNCHANGED <<sent, chan>>, pc # "dead"
  PROVE  FeedInv' /\ LogFeed!Next
<1> DEFINE n == Len(logged)
           c == Len(chan)
<1>1. /\ n \in Nat /\ logged' \in Seq(Events) /\ Len(logged') = n + 1
      /\ \A k \in 1..n : logged'[k] = logged[k]
      /\ logged'[n + 1] = hand[1]
  BY LoggedFacts, Zenon
<1>2. hand \in Seq(Events) /\ Len(hand) <= 1 /\ chan \in Seq(Events) /\ sent \in Nat
  BY CollectorAssumption DEF CollectorInv, TypeOK
<1>3. Len(hand) = 1 /\ c \in Nat /\ Len(<<>>) = 0
  <2>1. Len(hand) \in Nat \ {0} /\ c \in Nat /\ Len(<<>>) = 0
    BY <1>2, EmptySeq, LenProperties, Zenon
  <2>2. \A k \in Nat \ {0} : k <= 1 => k = 1
    OBVIOUS
  <2> QED
    BY <1>2, <2>1, <2>2, Zenon
<1>4. /\ \A k \in 1..n : logged[k] = k
      /\ hand[1] = n + 1
      /\ \A k \in 1..c : chan[k] = n + 1 + k
      /\ n + 1 + c = sent /\ n + 1 <= sent
  BY <1>3, Zenon DEF FeedInv
<1>5. \A k \in 1..(n + 1) : logged'[k] = k
  <2>1. \A k \in 1..(n + 1) : k \in 1..n \/ k = n + 1
    BY <1>1
  <2> QED
    BY <1>1, <1>4, <2>1, Zenon
<1>6. FeedInv'
  <2>1. n + 1 + 0 = n + 1
    BY <1>1
  <2> HIDE DEF n, c
  <2>2. Len(logged') + Len(hand') = n + 1
    BY <1>1, <1>3, <2>1, Zenon
  <2>3. Len(chan') = c /\ sent' = sent
    BY DEF c
  <2> QED
    BY <1>1, <1>4, <1>5, <2>2, <2>3, Zenon DEF FeedInv
<1>7. LogFeed!Deliver
  <2> DEFINE all == [i \in 1..(n + 1) |-> i]
  <2>s. sent \in 0..MaxEvents /\ MaxEvents \in Nat /\ n \in Nat /\ n + 1 <= sent
    BY <1>1, <1>4, CollectorAssumption, Zenon DEF CollectorInv, TypeOK
  <2>1. n + 1 \in (n + 1)..sent /\ n + 1 \in Nat /\ \A i \in 1..(n + 1) : i \in Events
    <3> HIDE DEF n
    <3> QED
      BY <2>s DEF Events
  <2>2. all \in [1..(n + 1) -> Events] /\ \A i \in 1..(n + 1) : all[i] = i
    BY <2>1, Zenon
  <2> HIDE DEF n
  <2>3. all \in Seq(Events) /\ Len(all) = n + 1
    <3>1. all \in Seq(Events)
      BY <2>1, <2>2, FunctionIsSeq, Zenon
    <3>2. DOMAIN all = 1..(n + 1)
      BY Zenon
    <3> HIDE DEF all
    <3> QED
      BY <2>1, <3>1, <3>2, LenProperties
  <2> HIDE DEF all
  <2>4. logged' = all
    BY <1>1, <1>5, <2>2, <2>3, SeqEqual, Zenon
  <2> QED
    BY <2>1, <2>4, Zenon DEF LogFeed!Deliver, n, all
<1> QED
  BY <1>6, <1>7, Zenon DEF LogFeed!Next

\* With writes that do not fail and a process that does not die, every step is
\* a step of the feed or changes neither what was sent nor what was logged.
LEMMA FeedStep ==
  ASSUME "write" \notin Faults, MaxStops = 0, CollectorInv, FeedInv
  PROVE  [Next]_vars => FeedInv' /\ [LogFeed!Next]_(LogFeed!feed)
<1> DEFINE n == Len(logged)
           h == Len(hand)
           c == Len(chan)
           Kept == FeedInv' /\ [LogFeed!Next]_(LogFeed!feed)
<1>a. /\ logged \in Seq(Events) /\ hand \in Seq(Events) /\ chan \in Seq(Events)
      /\ n \in Nat /\ h \in Nat /\ c \in Nat /\ Len(<<>>) = 0
  <2>1. logged \in Seq(Events) /\ hand \in Seq(Events) /\ chan \in Seq(Events)
    BY Zenon DEF CollectorInv, TypeOK
  <2> QED
    BY <2>1, LenProperties, EmptySeq, Zenon
<1>b. sent \in Nat /\ TypeOK /\ StepInv
  BY CollectorAssumption DEF CollectorInv, TypeOK
<1>c. /\ \A i \in 1..n : logged[i] = i
      /\ hand # <<>> => hand[1] = n + 1
      /\ \A i \in 1..c : chan[i] = n + h + i
      /\ pc # "dead" => n + h + c = sent
      /\ n + h <= sent
  BY Zenon DEF FeedInv
<1>1. Send => Kept
  <2> SUFFICES ASSUME Send PROVE Kept
    OBVIOUS
  <2>1. /\ pc # "dead" /\ pc' = pc /\ hand' = hand /\ logged' = logged
        /\ sent < MaxEvents /\ sent' = sent + 1 /\ chan' = Append(chan, sent + 1)
    BY Zenon DEF Send
  <2>2. sent + 1 \in Events
    BY <1>b, <2>1, CollectorAssumption DEF Events
  <2>3. /\ Len(chan') = c + 1
        /\ (\A i \in 1..c : chan'[i] = chan[i]) /\ chan'[c + 1] = sent + 1
    BY <1>a, <2>1, <2>2, AppendProperties
  <2> HIDE DEF n, h, c
  <2>4. \A i \in 1..(c + 1) : i \in 1..c \/ i = c + 1
    BY <1>a
  <2>5. n + h + (c + 1) = sent + 1 /\ n + h <= sent + 1
    BY <1>a, <1>b, <1>c, <2>1
  <2>6. \A i \in 1..(c + 1) : chan'[i] = n + h + i
    BY <1>c, <2>3, <2>4, <2>5, Zenon
  <2>7. FeedInv'
    <3>1. Len(logged') = n /\ Len(hand') = h /\ (hand' # <<>> => hand'[1] = n + 1)
      BY <1>c, <2>1, Zenon DEF n, h
    <3>2. \A i \in 1..n : logged'[i] = i
      BY <1>c, <2>1, Zenon
    <3> QED
      BY <2>1, <2>3, <2>5, <2>6, <3>1, <3>2, Zenon DEF FeedInv
  <2>8. LogFeed!Next
    BY <2>1, Zenon DEF LogFeed!Next, LogFeed!Produce
  <2> QED
    BY <2>7, <2>8, Zenon
<1>2. SendDropped => Kept
  <2> SUFFICES ASSUME SendDropped PROVE Kept
    OBVIOUS
  <2>1. /\ pc' = "dead" /\ UNCHANGED <<hand, logged, chan>>
        /\ sent < MaxEvents /\ sent' = sent + 1
    BY Zenon DEF SendDropped
  <2>2. n + h <= sent + 1
    BY <1>a, <1>b, <1>c
  <2>3. FeedInv'
    BY <1>c, <2>1, <2>2, Zenon DEF FeedInv
  <2>4. LogFeed!Next
    BY <2>1, Zenon DEF LogFeed!Next, LogFeed!Produce
  <2> QED
    BY <2>3, <2>4, Zenon
<1>3. ASSUME UNCHANGED <<sent, hand, logged, chan>>, pc # "dead" \/ pc' = "dead"
      PROVE  Kept
  BY <1>3, Zenon DEF FeedInv, LogFeed!feed
<1>4. OpenFails => Kept
  <2> SUFFICES ASSUME OpenFails PROVE Kept
    OBVIOUS
  <2>1. pc' = "dead" /\ chan' = <<>> /\ UNCHANGED <<sent, hand, logged>>
    BY Zenon DEF OpenFails
  <2>2. \A i \in 1..0 : FALSE
    OBVIOUS
  <2> QED
    BY <1>a, <1>c, <2>1, <2>2, Zenon DEF FeedInv, LogFeed!feed
<1>5. Recv => Kept
  <2> SUFFICES ASSUME Recv PROVE Kept
    OBVIOUS
  <2>1. /\ pc = "recv" /\ chan # <<>> /\ hand' = <<Head(chan)>> /\ chan' = Tail(chan)
        /\ pc' = "write" /\ UNCHANGED <<sent, logged>> /\ hand = <<>> /\ h = 0
    BY <1>a, <1>b DEF Recv, StepInv
  <2>2. c \in Nat \ {0} /\ Head(chan) = chan[1]
    BY <1>a, <2>1, EmptySeq
  <2>3. Len(chan') = c - 1 /\ \A i \in 1..Len(chan') : chan'[i] = chan[i + 1]
    BY <1>a, <2>1, HeadTailProperties, Zenon
  <2>4. Len(hand') = 1 /\ hand'[1] = chan[1] /\ hand' # <<>>
    BY <2>1, <2>2
  <2> HIDE DEF n, h, c
  <2>5. chan[1] = n + 1 /\ n + c = sent
    BY <1>a, <1>c, <2>1, <2>2
  <2>6. \A i \in 1..(c - 1) : i + 1 \in 1..c /\ n + h + (i + 1) = n + 1 + i
    BY <1>a, <2>1, <2>2
  <2>7. \A i \in 1..Len(chan') : chan'[i] = n + 1 + i
    BY <1>c, <2>3, <2>6, Zenon
  <2>8. n + 1 + (c - 1) = sent /\ n + 1 <= sent
    BY <1>a, <1>b, <2>2, <2>5
  <2>9. FeedInv'
    BY <1>c, <2>1, <2>3, <2>4, <2>5, <2>7, <2>8, Zenon DEF FeedInv, n
  <2> QED
    BY <2>1, <2>9, Zenon DEF LogFeed!feed
<1>6. WriteLine \/ WriteNewline => Kept
  <2> SUFFICES ASSUME WriteLine \/ WriteNewline PROVE Kept
    OBVIOUS
  <2>1. /\ pc \in {"write", "newline"} /\ logged' = logged \o hand /\ hand' = <<>>
        /\ UNCHANGED <<sent, chan>>
    BY Zenon DEF WriteLine, WriteNewline, LineDone
  <2>2. pc # "dead" /\ hand # <<>>
    BY <1>b, <2>1 DEF TypeOK
  <2> QED
    BY <2>1, <2>2, FeedLogs, Zenon
<1>7. WriteBody \/ OpenLog \/ RemoveOldest \/ Shift \/ RenameLog \/ Restart => Kept
  <2> SUFFICES ASSUME WriteBody \/ OpenLog \/ RemoveOldest \/ Shift \/ RenameLog \/ Restart
               PROVE  Kept
    OBVIOUS
  <2>1. UNCHANGED <<sent, hand, logged, chan>> /\ pc # "dead"
    BY DEF WriteBody, OpenLog, RemoveOldest, Shift, RenameLog, Restart
  <2> QED
    BY <1>3, <2>1, Zenon
<1>8. ~WriteFails /\ ~Stop
  BY <1>b DEF WriteFails, Stop, TypeOK
<1>9. UNCHANGED vars => Kept
  BY <1>3, Zenon DEF vars
<1> HIDE DEF Kept
<1> QED
  BY <1>1, <1>2, <1>4, <1>5, <1>6, <1>7, <1>8, <1>9, Zenon DEF Next, Run, Kept

\* With writes that do not fail and a process that does not die, attacks.json
\* and its generations implement the safety of the abstract feed, whatever
\* rotation, renames and opens do: the events come out in the order they were
\* sent, each exactly once and none passed over.
THEOREM LogImplementsFeed ==
  ASSUME "write" \notin Faults, MaxStops = 0
  PROVE  Spec => LogFeed!Safe
<1>1. Init => FeedInv /\ LogFeed!Init
  <2> SUFFICES ASSUME Init PROVE FeedInv /\ LogFeed!Init
    OBVIOUS
  <2>1. Len(<<>>) = 0 /\ (\A i \in 1..0 : FALSE) /\ 0 + 0 + 0 = 0 /\ 0 + 0 <= 0
    OBVIOUS
  <2> QED
    BY <2>1 DEF Init, FeedInv, LogFeed!Init
<1>2. CollectorInv /\ FeedInv /\ [Next]_vars => FeedInv' /\ [LogFeed!Next]_(LogFeed!feed)
  BY FeedStep
<1> QED
  BY <1>1, <1>2, CollectorKept, PTL DEF Spec, LogFeed!Safe

====
