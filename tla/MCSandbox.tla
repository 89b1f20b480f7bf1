----------------------------- MODULE MCSandbox -----------------------------
(***************************************************************************)
(* Sandbox with one or two sessions, a payload and a file that is none.    *)
(***************************************************************************)
EXTENDS Sandbox, TLC

CONSTANTS s1, s2, payload, note

OneSession == {s1}
TwoSessions == {s1, s2}
SomeFiles == {payload, note}
OnePayload == {payload}

NoFaults == {}
MountFaults == {"provision", "mount"}
AllFaults == {"provision", "dirs", "mount", "analysis", "late"}
=============================================================================
