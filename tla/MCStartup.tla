----------------------------- MODULE MCStartup -----------------------------
(***************************************************************************)
(* Startup with two sessions, two golden files, the configured and the     *)
(* default host key file, and one token file.                              *)
(***************************************************************************)
EXTENDS Startup

CONSTANTS s1, s2, configured, default, token, none

TwoSessions == {s1, s2}
SomeKeyPaths == {configured, default, none}
SomeTokenPaths == {token, none}
=============================================================================
