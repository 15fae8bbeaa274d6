------------------------------- MODULE MontMul -------------------------------
(***************************************************************************)
(* Montgomery multiplication, squaring and reduction as src/src/ll/        *)
(* ll_u256_mont.c and ll_mont.c perform them, on the numbers that the limb *)
(* arrays stand for: one iteration per limb adds one row of the product,   *)
(* adds the multiple of N that makes the lowest limb zero and drops that   *)
(* limb; one conditional subtraction ends the call.  B is the base of a    *)
(* limb, 2^64 in the code, and L the number of limbs, 4 in ll_u256_mont.c.  *)
(***************************************************************************)
EXTENDS Integers

CONSTANTS
  B,         \* base of a limb
  L,         \* number of limbs of N and of the operands
  Pow,       \* Pow[i] is B to the power i
  Contexts   \* the mont_ctx structures in use: [N |-> modulus, k0 |-> k0]

ASSUME BaseAssumption == B \in Nat /\ B > 1 /\ L \in Nat \ {0}

ASSUME PowAssumption ==
  /\ Pow \in [0 .. L -> Nat \ {0}]
  /\ Pow[0] = 1
  /\ \A i \in 0 .. L - 1 : Pow[i + 1] = B * Pow[i]

(* R = B^L; k0 = -1/N mod B, which exists because N is odd. *)
R == Pow[L]

ASSUME ContextAssumption ==
  \A c \in Contexts :
    /\ c.N \in 1 .. R - 1
    /\ c.k0 \in 0 .. B - 1
    /\ (c.N * c.k0 + 1) % B = 0

VARIABLES
  ctx,    \* modulus and k0
  op,     \* "mul", "sqr" or "reduce"
  a, b,   \* operands, any numbers below R; b is not used by sqr and reduce
  i,      \* limbs processed
  acc,    \* running sum, without the limbs already dropped
  rest,   \* limbs of the multiplier not processed yet
  high,   \* upper half of the square, added after the last reduction
  m,      \* history: the multiple of N added so far
  r,      \* result, valid once pc is "done"
  pc      \* "idle", "loop" or "done"

vars == <<ctx, op, a, b, i, acc, rest, high, m, r, pc>>

N == ctx.N

(* The context of no call. *)
NoContext == [N |-> 1, k0 |-> B - 1]

Init ==
  /\ ctx = NoContext
  /\ op = "none"
  /\ a = 0 /\ b = 0
  /\ i = 0 /\ m = 0 /\ r = 0
  /\ acc = 0 /\ rest = 0 /\ high = 0
  /\ pc = "idle"

Mul ==
  /\ op' = "mul" /\ b' \in 0 .. R - 1
  /\ acc' = 0 /\ rest' = b' /\ high' = 0

(* The square is computed in full, its lower half is reduced. *)
Sqr ==
  /\ op' = "sqr" /\ b' = 0
  /\ acc' = (a' * a') % R /\ rest' = 0 /\ high' = (a' * a') \div R

Reduce ==
  /\ op' = "reduce" /\ b' = 0
  /\ acc' = a' /\ rest' = 0 /\ high' = 0

Call ==
  /\ pc = "idle" /\ pc' = "loop"
  /\ ctx' \in Contexts
  /\ a' \in 0 .. R - 1
  /\ Mul \/ Sqr \/ Reduce
  /\ UNCHANGED <<i, m, r>>

(* Mutants of Quotient: not reduced to a limb; 1/N in place of -1/N.       *)
QuotientWide(t) == (t % B) * ctx.k0
QuotientWrongSign(t) == ((t % B) * (B - ctx.k0)) % B

(* The multiple of N that clears the lowest limb of t. *)
Quotient(t) == ((t % B) * ctx.k0) % B

(* One row of the product and one reduction step. *)
Iterate ==
  LET t == acc + a * (rest % B)
      y == Quotient(t)
  IN
    /\ pc = "loop" /\ i < L
    /\ acc' = (t + N * y) \div B
    /\ rest' = rest \div B
    /\ m' = m + y * Pow[i]
    /\ i' = i + 1
    /\ UNCHANGED <<ctx, op, a, b, high, r, pc>>

(* Mutant of CondSub: a result equal to N is left alone.                   *)
CondSubStrict(t) == (IF t > N THEN t - N ELSE t) % R

(* The conditional subtraction keeps L limbs. *)
CondSub(t) == (IF t >= N THEN t - N ELSE t) % R

Finish ==
  /\ pc = "loop" /\ i = L
  /\ r' = CondSub(acc + high)
  /\ pc' = "done"
  /\ UNCHANGED <<ctx, op, a, b, i, acc, rest, high, m>>

Return ==
  /\ pc = "done"
  /\ ctx' = NoContext
  /\ op' = "none"
  /\ a' = 0 /\ b' = 0
  /\ i' = 0 /\ m' = 0 /\ r' = 0
  /\ acc' = 0 /\ rest' = 0 /\ high' = 0
  /\ pc' = "idle"

Next == Call \/ Iterate \/ Finish \/ Return

Spec == Init /\ [][Next]_vars

------------------------------------------------------------------------------
(* The number that is reduced: a * b, a^2 or a. *)
Input == CASE op = "mul" -> a * b [] op = "sqr" -> a * a [] OTHER -> a

TypeOK ==
  /\ ctx \in Contexts \/ ctx = NoContext
  /\ op \in {"none", "mul", "sqr", "reduce"}
  /\ a \in 0 .. R - 1 /\ b \in 0 .. R - 1
  /\ i \in 0 .. L
  /\ acc \in Nat /\ rest \in Nat /\ high \in Nat /\ m \in Nat
  /\ r \in 0 .. R - 1
  /\ pc \in {"idle", "loop", "done"}

(* What is dropped was zero: input and accumulator stay congruent modulo N *)
(* and differ exactly by the multiple m of N.                              *)
Balanced ==
  Input + m * N = Pow[i] * (acc + a * rest) + R * high

(* The rows still to come, and the size of what was added. *)
RestFits == rest * Pow[i] < R
MultipleFits == m < Pow[i]

(* The registers are wide enough: a reduction leaves at most one carry bit *)
(* above L limbs in a product, and none in sqr and reduce, where the code  *)
(* keeps no limb for it.                                                   *)
NoCarryLost ==
  IF op = "mul" THEN acc < a + N ELSE acc < R

SquareSplit ==
  /\ op = "mul" => high = 0
  /\ op = "sqr" => high < R /\ R * high <= a * a /\ rest = 0
  /\ op \in {"none", "reduce"} => high = 0 /\ rest = 0

(* Between calls nothing is left over; after the subtraction the result    *)
(* belongs to the accumulator.                                             *)
PhaseState ==
  /\ pc = "idle" => i = 0 /\ m = 0
  /\ pc = "done" => i = L /\ r = CondSub(acc + high)

IInv == PhaseState /\ TypeOK /\ Balanced /\ RestFits /\ MultipleFits /\ NoCarryLost /\ SquareSplit

(* The result is input / R modulo N, whatever the operands: ll_u256_mont_* *)
(* must be right for operands that were never reduced, because             *)
(* fp256_to_mont and fp256_from_mont accept any 256-bit number.            *)
Congruent == pc = "done" => (R * r) % N = Input % N

(* A single conditional subtraction is enough as soon as one operand is    *)
(* reduced; a reduction always ends below N.                               *)
Reduced ==
  pc = "done" /\ (op = "mul" => a < N \/ b < N) /\ (op = "sqr" => a < N) => r < N
==============================================================================
