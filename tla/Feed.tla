-------------------------------- MODULE Feed --------------------------------
(***************************************************************************)
(* What a reliable feed of events promises: the events produced come out   *)
(* in the order they were produced, each exactly once, none passed over,   *)
(* and each of them in the end.                                            *)
(***************************************************************************)
EXTENDS Naturals, Sequences

CONSTANT MaxEvents

VARIABLES sent,       \* the events produced so far are 1..sent
          delivered   \* the events that came out, in order

feed == <<sent, delivered>>

Produce ==
    /\ sent < MaxEvents
    /\ sent' = sent + 1
    /\ UNCHANGED delivered

\* One or more events come out together.
Deliver ==
    /\ \E n \in (Len(delivered) + 1)..sent : delivered' = [i \in 1..n |-> i]
    /\ UNCHANGED sent

Init == sent = 0 /\ delivered = <<>>

Next == Produce \/ Deliver

Safe == Init /\ [][Next]_feed

\* Everything produced comes out.
Drains == \A e \in 1..MaxEvents : sent >= e ~> Len(delivered) >= e

Reliable == Safe /\ Drains
=============================================================================
