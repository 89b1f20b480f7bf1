----------------------------- MODULE MCBrowser -----------------------------
EXTENDS Browser, TLC

CONSTANTS s1, s2, s3, a1, w1

SomeIds == {s1, s2, s3}
OneAddr == (s1 :> a1) @@ (s2 :> a1) @@ (s3 :> a1)
OneWord == {w1}
None == {}
FedKinds == {"SessionStart", "CommandRun"}
Renamings == Permutations(SomeIds)
=============================================================================
