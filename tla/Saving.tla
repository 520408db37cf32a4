------------------------------- MODULE Saving -------------------------------
(***************************************************************************)
(* What vroom_write() promises of its output: it is always a beginning of  *)
(* the document, it only grows, and it is eventually the whole document,   *)
(* which nothing changes once the call has returned.                       *)
(***************************************************************************)
EXTENDS Sequences, SequencesExt

VARIABLES
  document,  \* what is to be written, a sequence of its parts
  saved,     \* what has been written
  returned   \* the call has returned

Init == saved = <<>> /\ returned = FALSE

Write ==
  /\ ~returned
  /\ IsStrictPrefix(saved, saved') /\ IsPrefix(saved', document)
  /\ UNCHANGED <<document, returned>>

Return ==
  /\ saved = document
  /\ returned' = TRUE
  /\ UNCHANGED <<document, saved>>

Spec == Init /\ [][Write \/ Return]_<<document, saved, returned>> /\ <>returned

=============================================================================
