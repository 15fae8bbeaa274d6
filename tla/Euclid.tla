------------------------------- MODULE Euclid -------------------------------
(***************************************************************************)
(* Euclid's algorithm with cofactors, as ll_lehmer_exgcd performs it: two  *)
(* remainders a and b of the operands big and small, the cofactors v0 and  *)
(* v1 of small, and a matrix m of collected quotients that is applied to   *)
(* all of them at once.  Any unimodular matrix is good that leaves no      *)
(* remainder negative; which quotients it stands for does not matter.      *)
(***************************************************************************)
EXTENDS Integers

VARIABLES
  big, small,   \* the operands
  a, b,         \* the remainders
  v0, v1,       \* the sizes of the cofactors of small ...
  sign,         \* ... and the sign of v1; v0 has the other one
  m,            \* the collected matrix, <<m00, m01, m10, m11>>
  track,        \* whether the cofactors are asked for
  trusted       \* nothing has gone wrong yet

vars == <<big, small, a, b, v0, v1, sign, m, track, trusted>>

Matrices == Nat \X Nat \X Nat \X Nat

Det(x) == x[1] * x[4] - x[2] * x[3]

Unimodular(x) == x \in Matrices /\ Det(x) \in {1, -1}

Init ==
  /\ big \in Nat \ {0} /\ small \in Nat \ {0}
  /\ a = big /\ b = small
  /\ v0 = 0 /\ v1 = 1
  /\ sign = 1
  /\ m = <<1, 0, 0, 1>>
  /\ track \in BOOLEAN
  /\ trusted = TRUE

Collect ==
  /\ Unimodular(m')
  /\ UNCHANGED <<big, small, a, b, v0, v1, sign, track, trusted>>

Apply ==
  /\ a' = Det(m) * (m[1] * a - m[2] * b)
  /\ b' = Det(m) * (m[4] * b - m[3] * a)
  /\ a' \in Nat /\ b' \in Nat
  /\ IF track THEN /\ v0' = m[1] * v0 + m[2] * v1
                   /\ v1' = m[3] * v0 + m[4] * v1
     ELSE UNCHANGED <<v0, v1>>
  /\ sign' = Det(m) * sign
  /\ UNCHANGED <<big, small, m, track, trusted>>

Divide ==
  /\ b > 0
  /\ a' = b /\ b' = a % b
  /\ IF track THEN v0' = v1 /\ v1' = v0 + v1 * (a \div b)
     ELSE UNCHANGED <<v0, v1>>
  /\ sign' = -sign
  /\ UNCHANGED <<big, small, m, track, trusted>>

(* Once a wrong quotient has been collected nothing is promised any more.  *)
Lose == trusted' = FALSE

Next == (trusted /\ (Collect \/ Apply \/ Divide)) \/ Lose

Spec == Init /\ [][Next]_vars

------------------------------------------------------------------------------
Divides(d, x) == \E k \in Int : x = k * d

TypeOK ==
  /\ big \in Nat \ {0} /\ small \in Nat \ {0}
  /\ a \in Nat /\ b \in Nat /\ v0 \in Nat /\ v1 \in Nat
  /\ sign \in {1, -1}
  /\ Unimodular(m)
  /\ track \in BOOLEAN

(* The cofactors belong to the remainders: this bounds them, so that they  *)
(* never need more limbs than the larger operand.                          *)
CofactorsFit == track => a * v1 + b * v0 = big

(* The remainders are multiples of small, up to multiples of big.          *)
CofactorsMatch ==
  track => /\ Divides(big, a + sign * v0 * small)
           /\ Divides(big, b - sign * v1 * small)

(* The common divisors never change. *)
SameDivisors ==
  \A d \in Nat \ {0} :
    Divides(d, a) /\ Divides(d, b) <=> Divides(d, big) /\ Divides(d, small)

IInv == TypeOK /\ CofactorsFit /\ CofactorsMatch /\ SameDivisors

(* When b has become zero, a is the greatest common divisor: it divides    *)
(* both operands and every common divisor divides it; and v0 is the        *)
(* cofactor of small.                                                      *)
GcdFound ==
  trusted /\ b = 0 =>
    /\ \A d \in Nat \ {0} : Divides(d, a) <=> Divides(d, big) /\ Divides(d, small)
    /\ track => Divides(big, a + sign * v0 * small)
==============================================================================
