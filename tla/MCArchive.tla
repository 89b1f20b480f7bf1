------------------------------ MODULE MCArchive ------------------------------
(***************************************************************************)
(* Two sessions from two addresses, one of which has a place.              *)
(***************************************************************************)
EXTENDS Archive, TLC

CONSTANTS s1, s2, a1, a2, w1, w2

TwoIds == {s1, s2}
TwoAddrs == (s1 :> a1) @@ (s2 :> a2)
TwoWords == {w1, w2}
OneAddr == {a2}
=============================================================================
