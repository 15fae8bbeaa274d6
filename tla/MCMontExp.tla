------------------------------ MODULE MCMontExp ------------------------------
(* Values for checking MontExp: every exponent of the given lengths.       *)
EXTENDS MontExp

MCPow2 == [j \in 0 .. ByteBits * (MaxLen + 1) |-> 2^j]

(* The windows the macro picks for one to four limbs of 64 bits, and for    *)
(* the exponent zero.                                                       *)
MCWindows == {ExpWindowSize(64 * limbs) : limbs \in 0 .. 4}
==============================================================================
