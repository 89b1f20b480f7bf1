------------------------------- MODULE MCVfs -------------------------------
(***************************************************************************)
(* Vfs with the home directory, one more name, a golden rootfs that has a  *)
(* directory and a file the default tree lacks, and a default tree that    *)
(* has a file the golden rootfs lacks.                                     *)
(***************************************************************************)
EXTENDS Vfs, TLC

AHome == "root"
GoldenTree ==
    (<<"root">> :> Dir) @@ (<<"etc">> :> Dir) @@ (<<"etc", "a">> :> File(<<"golden">>))
DefaultTree == (<<"root">> :> Dir) @@ (<<"root", "a">> :> File(<<"default">>))

Typed(from, comps) == [from |-> from, comps |-> comps]
SomeTargets ==
    { Typed("here", <<"a">>), Typed("here", <<"..">>), Typed("root", <<"etc", "a">>),
      Typed("home", <<"a", ".", "b">>) }
=============================================================================
