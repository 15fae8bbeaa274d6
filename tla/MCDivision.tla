----------------------------- MODULE MCDivision -----------------------------
(***************************************************************************)
(* Operands for checking Division with limbs of five bits, the narrowest   *)
(* for which every combination of corrections in ll_reciprocal2,           *)
(* ll_div2by1_pi1 and ll_div3by2_pi1 that wider limbs meet occurs.         *)
(***************************************************************************)
EXTENDS Division

MCNumerators == [0 .. MaxN - 1 -> {0, 15, 30, 31}]

(* All divisors of one limb, those of two limbs whose upper limb is 3 or    *)
(* has its top bit set, and some of three limbs.                           *)
MCDivisors ==
  {[j \in 0 .. 2 |-> CASE j = 0 -> d0 [] j = 1 -> d1 [] j = 2 -> 0] :
     d0 \in Limb, d1 \in {0, 3} \cup 16 .. 31}
  \cup [0 .. 2 -> {0, 1, 16, 17, 31}]
==============================================================================
