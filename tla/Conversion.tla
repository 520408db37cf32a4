----------------------------- MODULE Conversion -----------------------------
(***************************************************************************)
(* What converting a file to UTF-8 promises: the output is the characters  *)
(* of the file, in their order and all of them, however the input comes    *)
(* in; and it is refused only if some of its bytes are no character.       *)
(***************************************************************************)
EXTENDS Sequences, SequencesExt

VARIABLES
  characters,  \* the characters of the file, as far as they are whole
  valid,       \* all of its bytes belong to characters
  text,        \* the characters that have been written
  result       \* how it ended

Init == text = <<>> /\ result = "none"

Write ==
  /\ result = "none"
  /\ IsStrictPrefix(text, text') /\ IsPrefix(text', characters)
  /\ UNCHANGED <<characters, valid, result>>

Finish ==
  /\ result = "none" /\ valid /\ text = characters
  /\ result' = "done"
  /\ UNCHANGED <<characters, valid, text>>

Refuse ==
  /\ result = "none" /\ ~valid
  /\ result' = "error"
  /\ UNCHANGED <<characters, valid, text>>

(* What a conversion does, and that it ends. *)
Converting == Init /\ [][Write \/ Finish \/ Refuse]_<<characters, valid, text, result>>

Spec == Converting /\ <>(result # "none")

=============================================================================
