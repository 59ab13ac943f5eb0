-------------------------- MODULE MCQemuAcquisition --------------------------
(* Two callers, one directory, a window of two events, for TLC. *)
EXTENDS QemuAcquisition

CONSTANT Other

MCPc == {Entry, Other}

MCCodes == {Patched, 1, 2}

\* The window of the entry and its successor; MCTracePlugin checks the other
\* policies on the plugin alone.
MCDeclared == {[target |-> Entry, successors |-> 1, maximum |-> 2]}
=============================================================================
