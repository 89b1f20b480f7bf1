---------------------------- MODULE MCAdmission ----------------------------
(***************************************************************************)
(* Admission with two connections from four addresses: two IPv4 sources    *)
(* and two addresses of one IPv6 /64, that is one source more than the     *)
(* table tracks.                                                           *)
(***************************************************************************)
EXTENDS Admission, TLC

SomeAddrs == {[fam |-> "v4", net |-> 1, host |-> 1],
              [fam |-> "v4", net |-> 1, host |-> 2],
              [fam |-> "v6", net |-> 1, host |-> 1],
              [fam |-> "v6", net |-> 1, host |-> 2]}

ConnSymmetry == Permutations(Conns)
=============================================================================
