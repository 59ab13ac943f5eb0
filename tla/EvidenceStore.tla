--------------------------- MODULE EvidenceStore ---------------------------
(***************************************************************************)
(* What a directory of runtime evidence promises to those who load it: it  *)
(* shows nothing, or one piece of genuine evidence, for ever the same.     *)
(***************************************************************************)
CONSTANTS
  Genuine,     \* the evidence that an acquisition may accept
  Nothing

VARIABLES
  shown,       \* what the directory shows
  returned     \* what loads have returned

storeVars == <<shown, returned>>

Init == shown = Nothing /\ returned = {}

Publish ==
  /\ shown = Nothing
  /\ shown' \in Genuine
  /\ UNCHANGED returned

Return ==
  /\ shown # Nothing
  /\ returned' = returned \cup {shown}
  /\ UNCHANGED shown

Next == Publish \/ Return

Spec == Init /\ [][Next]_storeVars
=============================================================================
