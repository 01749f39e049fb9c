-------------------------- MODULE MCStreamPlugger --------------------------
(* Two receivers, four messages, a channel of two and an upstream buffer  *)
(* of two: a receiver can lag, subscribe late, or be the only one gone.   *)
EXTENDS StreamPlugger
CONSTANTS r1, r2
MCReceivers == {r1, r2}
=============================================================================
