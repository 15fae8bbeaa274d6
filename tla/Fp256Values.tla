------------------------------ MODULE Fp256Values ------------------------------
(***************************************************************************)
(* The struct fp256 of include/fp256/fp256.h as a value: d is the number   *)
(* in its four limbs, n its nlimbs field, which a caller may find larger   *)
(* or smaller than the number needs.  The four-limb routines are used here *)
(* with the meaning that LimbOps and MontCode check of their code.         *)
(***************************************************************************)
EXTENDS Integers

CONSTANT W     \* bits of a limb, 64 in the code

ASSUME WordAssumption == W \in Nat \ {0}

B == 2^W
M == B^4       \* 2^256

(* The powers that occur, for the proofs: tlapm does not know how a power  *)
(* follows from the one before.                                            *)
ASSUME PowersAssumption ==
  /\ 2^0 = 1 /\ \A s \in 0 .. 4 * W - 1 : 2^(s + 1) = 2 * 2^s
  /\ B^0 = 1 /\ \A k \in 0 .. 7 : B^(k + 1) = B * B^k

Limb == 0 .. B - 1
Numbers == 0 .. M - 1

(* LL_NUM_LIMBS *)
LimbCount(v) ==
  CASE v = 0 -> 0 [] v \in 1 .. B - 1 -> 1 [] v \in B .. B^2 - 1 -> 2
    [] v \in B^2 .. B^3 - 1 -> 3 [] OTHER -> 4

(* fp256_set_limbs, and the idiom "r->nlimbs = fp256_num_limbs(r)". *)
Obj(v) == [d |-> v, n |-> LimbCount(v)]

Zero == [d |-> 0, n |-> 0]
One == [d |-> 1, n |-> 1]

(* The number that a function sees when it is given d and nlimbs. *)
Seen(x) == IF x.n >= 4 THEN x.d ELSE x.d % B^x.n

IsZero(x) == x.n = 0
IsOne(x) == x.n = 1 /\ x.d % B = 1
IsOdd(x) == x.d % 2 = 1

Cmp(x, y) ==
  IF x.n # y.n THEN x.n - y.n
  ELSE CASE Seen(x) > Seen(y) -> 1 [] Seen(x) < Seen(y) -> -1 [] OTHER -> 0

------------------------------------------------------------------------------
(* The Montgomery routines with a modulus n and R = M.  Redc(x, n) is the  *)
(* number below n whose product with R is congruent to x (MontMul).        *)
Redc(x, n) == CHOOSE y \in 0 .. n - 1 : (M * y - x) % n = 0

(* ll_u256_mont_exp, multiplication by multiplication (MontExp): the power *)
(* zero is the number 1 in Montgomery form.                                *)
MontPower(x, e, RR, n) ==
  LET p[k \in 0 .. e] == IF k = 0 THEN Redc(RR, n) ELSE Redc(p[k - 1] * x, n)
  IN  p[e]

==============================================================================
