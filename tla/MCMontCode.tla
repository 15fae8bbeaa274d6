----------------------------- MODULE MCMontCode -----------------------------
(* Values for checking MontCode: operands around the moduli and around the *)
(* limits of the limbs.                                                    *)
EXTENDS MontCode

CONSTANT Moduli

MCContexts == {[N |-> n, k0 |-> InvertLimb(n % B)] : n \in Moduli}

(* Every limb 0, 1 or the largest, and the neighbours of the moduli.       *)
MCOperands ==
  {Val(x, Len) : x \in [0 .. Len - 1 -> {0, 1, B - 1}]}
    \cup UNION {{n - 1, n} : n \in Moduli}
==============================================================================
