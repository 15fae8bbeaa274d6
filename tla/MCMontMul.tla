------------------------------ MODULE MCMontMul ------------------------------
(* Values for checking MontMul: every odd modulus of L limbs of W bits, with *)
(* the k0 that belongs to it.                                              *)
EXTENDS MontMul

CONSTANT W

MCB == 2^W

MCPow == [k \in 0 .. L |-> MCB^k]

MCContexts ==
  {[N |-> n, k0 |-> CHOOSE k \in 0 .. MCB - 1 : (n * k + 1) % MCB = 0] :
     n \in {x \in 1 .. MCB^L - 1 : x % 2 = 1}}
==============================================================================
