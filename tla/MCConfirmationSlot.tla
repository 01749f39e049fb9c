------------------------- MODULE MCConfirmationSlot -------------------------
(* Two rounds of the comparison benchmark. *)
EXTENDS ConfirmationSlot
=============================================================================
