------------------------------ MODULE Division ------------------------------
(***************************************************************************)
(* ll_div: quotient and remainder of two limb arrays.  The divisor is      *)
(* shifted left until its top bit is set; then each quotient limb is       *)
(* estimated from the top limbs with a precomputed reciprocal, the product *)
(* is subtracted, and an estimate that was one too large is corrected by   *)
(* adding the divisor back.  One action per quotient limb.                 *)
(*                                                                         *)
(* ll_reciprocal1 looks up nine bits of a 64-bit limb in a table and runs  *)
(* Newton steps of that width; it enters with the value that these compute *)
(* (Reciprocal1).  Everything else is the code with limbs of W bits.       *)
(***************************************************************************)
EXTENDS Limbs

CONSTANTS
  MaxN, MaxD,             \* limbs of the operands, as the caller passes them
  Numerators, Divisors,   \* the operands that the caller chooses from
  Junk                    \* what memory from malloc holds

ASSUME DivisionAssumption ==
  /\ MaxN \in Nat /\ MaxD \in Nat
  /\ Numerators \subseteq Arrays(MaxN)
  /\ Divisors \subseteq Arrays(MaxD)
  /\ Junk \in Limb

(* The powers of the base that occur, for the proofs, as in PowersOfTwo.   *)
ASSUME BasePowers == B^0 = 1 /\ \A k \in 0 .. MaxN : B^(k + 1) = B * B^k

VARIABLES
  pc,      \* "idle", "check", "top", "digit", "finish", "done"
  num,     \* nd[0..nl-1] and dd[0..dl-1] of the caller
  div,
  n,       \* tnd: the shifted numerator, in which the remainder appears
  d,       \* tdd, or &d for a single limb: the shifted divisor
  q,       \* tqd: the limbs of the quotient
  tnl,     \* limbs of the shifted numerator
  i,       \* loop counter: limbs of the quotient still to be computed
  v,       \* the reciprocal of the top of d
  out      \* what the caller gets: rd, qd, *rl and *ql

vars == <<pc, num, div, n, d, q, tnl, i, v, out>>

work == <<n, d, q, tnl, i, v>>

Empty == Zeros(0)

(* nl and dl once ll_num_limbs has counted them. *)
nl == NumLimbs(num, MaxN)
dl == NumLimbs(div, MaxD)

------------------------------------------------------------------------------
(* Two limbs as one number, with the wrap-around of LL_ADD2 and LL_SUB2.   *)
Wide(h, l) == B * h + l
Wrap2(x) == x % (B * B)

LeadingZeros(a) == CHOOSE s \in 0 .. W - 1 : a * 2^s \in B \div 2 .. B - 1

(* ll_reciprocal1, for a limb with its top bit set.                        *)
Reciprocal1(d1) == ((B * B - 1) \div d1) - B

(* Mutant of Reciprocal2: p is not reduced before the lower limb enters.   *)
Reciprocal2Unreduced(d1, d0) ==
  LET v0 == Reciprocal1(d1)
      p0 == Wrap(d1 * v0 + d0)
      v1 == v0 - IF p0 < d0 THEN 1 + Bit(p0 >= d1) ELSE 0
      p2 == Wrap(p0 + Hi(v1 * d0))
  IN  v1 - IF p2 < Hi(v1 * d0) THEN 1 + Bit(Wide(p2, Lo(v1 * d0)) >= Wide(d1, d0)) ELSE 0

(* ll_reciprocal2: corrected for the second limb of the divisor.           *)
Reciprocal2(d1, d0) ==
  LET v0 == Reciprocal1(d1)
      p0 == Wrap(d1 * v0 + d0)
      steps == IF p0 < d0 THEN 1 + Bit(p0 >= d1) ELSE 0
      v1 == v0 - steps
      p1 == Wrap(p0 - steps * d1)
      t  == v1 * d0
      p2 == Wrap(p1 + Hi(t))
  IN  v1 - IF p2 < Hi(t) THEN 1 + Bit(Wide(p2, Lo(t)) >= Wide(d1, d0)) ELSE 0

(* ll_div2by1_pi1: n1,n0 by d1.  The comparison with q0 tells whether the  *)
(* estimate was too large, although t has wrapped.                         *)
Div2by1(n1, n0, d1) ==
  LET p == Wrap2(v * n1 + Wide(n1, n0))
      q1 == Wrap(Hi(p) + 1)
      t1 == Wrap(n0 - q1 * d1)
      over == Bit(t1 >= Lo(p))
      t2 == Wrap(t1 + over * d1)
      under == Bit(t2 >= d1)
  IN  [q |-> Wrap(q1 - over + under), r |-> t2 - under * d1]

(* ll_div3by2_pi1: n2,n1,n0 by the two limbs dd.                           *)
Div3by2(n2, n1, n0, dd) ==
  LET p == Wrap2(v * n2 + Wide(n2, n1))
      q1 == Hi(p)
      r1 == Wrap(n1 - q1 * Hi(dd))
      r2 == Wrap2(Wide(r1, n0) - Lo(dd) * q1 - dd)
      over == Bit(Hi(r2) >= Lo(p))
      r3 == Wrap2(r2 + over * dd)
      under == Bit(r3 >= dd)
  IN  [q |-> Wrap(q1 + 1 - over + under), r |-> r3 - under * dd]

------------------------------------------------------------------------------
Init ==
  /\ pc = "idle"
  /\ num = Zeros(MaxN) /\ div = Zeros(MaxD)
  /\ n = Empty /\ d = Empty /\ q = Empty
  /\ tnl = 0 /\ i = 0 /\ v = 0
  /\ out = <<>>

(* Leading zero limbs are allowed.  No caller divides by zero: dl would be *)
(* counted as 0 after the assertion on it, and dd[-1] read.                *)
Call ==
  /\ pc = "idle"
  /\ num' \in Numerators
  /\ div' \in Divisors \ {Zeros(MaxD)}
  /\ pc' = "check"
  /\ UNCHANGED out
  /\ UNCHANGED work

(* nd < dd: nd is the remainder and qd is nl zeros.                        *)
Smaller ==
  /\ pc = "check"
  /\ CmpLimbs(num, div, nl, dl) < 0
  /\ out' = [rd |-> From(num, 0, nl), qd |-> Zeros(nl), rl |-> nl, ql |-> 0]
  /\ pc' = "done"
  /\ UNCHANGED <<num, div>>
  /\ UNCHANGED work

(* Mutant of ShiftedLimbs: the limb shifted out is forgotten.              *)
ShiftedLimbsSame(top) == nl

(* The limb that ll_lshift returns belongs to the number if it is not zero. *)
ShiftedLimbs(top) == nl + Bit(top # 0)

(* Both operands are shifted; the numerator may grow by a limb, and the    *)
(* quotient then by one as well.  Each lies in a larger piece of memory,   *)
(* of which ll_rshift looks at one limb too many.                          *)
Normalise ==
  /\ pc = "check"
  /\ CmpLimbs(num, div, nl, dl) >= 0
  /\ LET shift == LeadingZeros(div[dl - 1])
         buffer(x, l) == [j \in 0 .. l + 1 |-> IF j < l THEN x[j] ELSE Junk]
         nd == LShift(buffer(num, nl), nl, shift)
         dd == LShift(buffer(div, dl), dl, shift).d
     IN  /\ n' = nd.d
         /\ d' = dd
         /\ tnl' = ShiftedLimbs(nd.c)
         /\ v' = IF dl = 1 THEN Reciprocal1(dd[0]) ELSE Reciprocal2(dd[dl - 1], dd[dl - 2])
  /\ i' = tnl' - dl
  /\ q' = [j \in 0 .. nl |-> Junk]
  /\ pc' = "top"
  /\ UNCHANGED <<num, div, out>>

(* The topmost quotient limb is 0 or 1; the three routines begin alike.    *)
TopDigit ==
  /\ pc = "top"
  /\ LET top == From(n, i, dl)
         fits == CmpLimbs(top, d, dl, dl) >= 0
     IN  /\ q' = [q EXCEPT ![i] = Bit(fits)]
         /\ n' = IF fits THEN Into(n, i, SubLimbs(top, d, dl).d) ELSE n
  /\ pc' = "digit"
  /\ UNCHANGED <<num, div, d, tnl, i, v, out>>

Store(digit, rest) ==
  /\ q' = [q EXCEPT ![i - 1] = digit]
  /\ n' = Into(n, i - 1, rest)
  /\ i' = i - 1
  /\ UNCHANGED <<pc, num, div, d, tnl, v, out>>

(* ll_div_1_limb_pi1 *)
Digit1 ==
  /\ pc = "digit" /\ i > 0 /\ dl = 1
  /\ LET e == Div2by1(n[i], n[i - 1], d[0])
     IN  Store(e.q, LimbsOf(e.r, 2))

(* ll_div_2_limbs_pi1 *)
Digit2 ==
  /\ pc = "digit" /\ i > 0 /\ dl = 2
  /\ LET e == Div3by2(n[i + 1], n[i], n[i - 1], Wide(d[1], d[0]))
     IN  Store(e.q, LimbsOf(e.r, 3))

(* Mutant of TopEqual: equal top limbs are not noticed.                    *)
TopEqualMissed == FALSE

TopEqual == n[i + dl - 1] = d[dl - 1] /\ n[i + dl - 2] = d[dl - 2]

(* ll_div_n_limbs_pi1, when the top two limbs equal those of the divisor:  *)
(* the digit is the largest, and the whole divisor is subtracted.          *)
DigitLargest ==
  /\ pc = "digit" /\ i > 0 /\ dl >= 3 /\ TopEqual
  /\ LET m == MulSubLimb(From(n, i - 1, dl + 1), d, B - 1, dl + 1, dl)
     IN  Store(B - 1, m.d)

(* The estimate from the top limbs, and the dl + 1 limbs from n[i - 1] once *)
(* it times the lower limbs of the divisor is subtracted.                  *)
Estimate ==
  Div3by2(n[i + dl - 1], n[i + dl - 2], n[i + dl - 3], Wide(d[dl - 1], d[dl - 2]))

Subtracted(e) ==
  MulSubLimb(From(Into(n, i + dl - 3, LimbsOf(e.r, 3)), i - 1, dl + 1), d, e.q, dl, dl - 2)

(* Mutant of DigitN: a digit that is one too large stays.                  *)
DigitNKept ==
  /\ pc = "digit" /\ i > 0 /\ dl >= 3 /\ ~TopEqual
  /\ Store(Estimate.q, Subtracted(Estimate).d)

(* ll_div_n_limbs_pi1 otherwise: a borrow means that the estimate was one  *)
(* too large, and the divisor is added back.  assert(borrow == 1) cannot   *)
(* fail: what runs over the last two limbs is a single bit.                *)
DigitN ==
  /\ pc = "digit" /\ i > 0 /\ dl >= 3 /\ ~TopEqual
  /\ LET e == Estimate
         m == Subtracted(e)
     IN  \/ m.c = 0 /\ Store(e.q, m.d)
         \/ m.c # 0 /\ Store(Wrap(e.q - 1), Into(m.d, 0, AddLimbs(m.d, d, dl).d))

(* The remainder is shifted back; of the quotient the first nl + 1 - dl    *)
(* limbs are copied, whether or not the shift made it one limb longer.     *)
Finish ==
  /\ pc = "digit" /\ i = 0
  /\ LET r == RShift(n, nl + 1, LeadingZeros(div[dl - 1])).d
     IN  out' = [rd |-> From(r, 0, dl), qd |-> From(q, 0, nl + 1 - dl),
                 rl |-> NumLimbs(r, dl), ql |-> NumLimbs(q, nl + 1 - dl)]
  /\ pc' = "done"
  /\ UNCHANGED <<num, div>>
  /\ UNCHANGED work

Return ==
  /\ pc = "done"
  /\ pc' = "idle"
  /\ num' = Zeros(MaxN) /\ div' = Zeros(MaxD)
  /\ n' = Empty /\ d' = Empty /\ q' = Empty
  /\ tnl' = 0 /\ i' = 0 /\ v' = 0
  /\ out' = <<>>

Digit == Digit1 \/ Digit2 \/ DigitLargest \/ DigitN

Next == Call \/ Smaller \/ Normalise \/ TopDigit \/ Digit \/ Finish \/ Return

Spec == Init /\ [][Next]_vars

------------------------------------------------------------------------------
(* Whatever digits were estimated and corrected, the quotient limbs found  *)
(* so far times the divisor plus what is left is the shifted numerator,    *)
(* and what is left is below the divisor at its present position: no digit *)
(* is too small by one, which nothing would correct.                       *)
PartialDivision ==
  pc = "digit" =>
    LET count == tnl - dl - i + 1
        rest == Val(n, nl + 1)
    IN  /\ rest + Val(From(q, i, count), count) * B^i * Val(d, dl)
             = Val(num, MaxN) * 2^LeadingZeros(div[dl - 1])
        /\ rest < B^i * Val(d, dl)

(* The digit estimated from the top limbs alone is right or one too large, *)
(* never two, so that adding the divisor back once is enough; equal top    *)
(* limbs, for which the estimate would wrap, must never get there.         *)
EstimateOneTooLarge ==
  pc = "digit" /\ i > 0 /\ dl >= 3 /\ ~TopEqual =>
    Estimate.q - (Val(n, nl + 1) \div (B^(i - 1) * Val(d, dl))) \in {0, 1}

(* The reciprocal that all estimates rest on is that of the top two limbs, *)
(* rounded down, whichever corrections ll_reciprocal2 takes.               *)
ReciprocalIsExact ==
  pc = "digit" /\ dl >= 2 => v = ((B^3 - 1) \div Wide(d[dl - 1], d[dl - 2])) - B

(* ll_div returns the quotient and the remainder of every numerator and    *)
(* divisor, with the lengths that ll_num_limbs would count: the limb of    *)
(* the quotient that is not copied was zero, no bit is lost in shifting    *)
(* back, and what nobody wrote does not reach the result.                    *)
DivisionIsExact ==
  pc = "done" =>
    LET rl == out.rl
        ql == out.ql
    IN  /\ Val(out.rd, rl) = Val(num, MaxN) % Val(div, MaxD)
        /\ Val(out.qd, ql) = Val(num, MaxN) \div Val(div, MaxD)
        /\ rl > 0 => out.rd[rl - 1] # 0
        /\ ql > 0 => out.qd[ql - 1] # 0
==============================================================================
