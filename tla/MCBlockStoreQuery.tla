------------------------- MODULE MCBlockStoreQuery -------------------------
(* Slots 0..3 in two epochs of two slots, blocks of two transactions (so   *)
(* the rows can arrive out of order), two client calls: enough for a call  *)
(* to span the writer's inserts and for an epoch to be partly filled.     *)
EXTENDS BlockStoreQuery
=============================================================================
