--------------------------- MODULE MCBulkConfirm ---------------------------
(* A batch of three transactions against one endpoint. *)
EXTENDS BulkConfirm

CONSTANTS s1, s2, s3

MCSigs == {s1, s2, s3}
MCSig == <<s1, s2, s3>>
=============================================================================
