-------------------------- MODULE MCPrioFeeStats --------------------------
(* Every block of up to four transactions with fees 0..2 and compute      *)
(* units 0..2: ties, zero compute units and the empty block all occur.    *)
EXTENDS PrioFeeStats
=============================================================================
