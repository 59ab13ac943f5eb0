-------------------------- MODULE MCToolInstaller --------------------------
(***************************************************************************)
(* Two setup processes of one tool, one kill, one act of the user.         *)
(***************************************************************************)
EXTENDS ToolInstaller, TLC

CONSTANTS first, second

MCInstallers == {first, second}
MCSymmetry   == Permutations(MCInstallers)
=============================================================================
