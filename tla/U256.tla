-------------------------------- MODULE U256 --------------------------------
(***************************************************************************)
(* The straight-line routines on numbers of exactly four limbs: the C      *)
(* versions in src/src/ll/ll_u256_add.c, ll_u256_mul.c and                 *)
(* ll_u256_shift.c, and the LL_U256_... macros of ll_local.h from which    *)
(* ll_u256_mont.c is made.  The code unrolls every loop; here a loop is a  *)
(* recursive function whose value is the carry limb that one unrolled      *)
(* block leaves in hi or t for the next.                                   *)
(***************************************************************************)
EXTENDS Limbs

U256s == Arrays(4)

Or(p, q) == IF p + q > 0 THEN 1 ELSE 0

(* Mutant of AddU256: only the first carry of a limb counts.               *)
AddU256OneCarry(ad, bd) == AddLimbsOneCarry(ad, bd, 4)

(* ll_u256_add, with the two carry bits of a limb combined by "|". *)
AddU256(ad, bd) ==
  LET c[i \in 0 .. 4] ==
        IF i = 0 THEN 0
        ELSE LET p == c[i - 1]
                 t == Wrap(ad[i - 1] + p)
             IN  Or(Bit(t < p), Bit(Wrap(t + bd[i - 1]) < t))
  IN  [d |-> [i \in 0 .. 3 |-> Wrap(ad[i] + c[i] + bd[i])], c |-> c[4]]

(* LL_U256_ADD detects the first carry of a limb by t < y, not by t < w. *)
AddMacro(y, x) ==
  LET c[i \in 0 .. 4] ==
        IF i = 0 THEN 0
        ELSE LET t == Wrap(y[i - 1] + c[i - 1])
             IN  Or(Bit(t < y[i - 1]), Bit(Wrap(t + x[i - 1]) < t))
  IN  [d |-> [i \in 0 .. 3 |-> Wrap(y[i] + c[i] + x[i])], c |-> c[4]]

SubU256(ad, bd) ==
  LET c[i \in 0 .. 4] ==
        IF i = 0 THEN 0
        ELSE LET t == Wrap(ad[i - 1] - c[i - 1])
             IN  Or(Bit(t > ad[i - 1]), Bit(Wrap(t - bd[i - 1]) > t))
  IN  [d |-> [i \in 0 .. 3 |-> Wrap(ad[i] - c[i] - bd[i])], c |-> c[4]]

AddLimbU256(ad, b) ==
  LET c[i \in 0 .. 4] ==
        IF i = 0 THEN b
        ELSE LET p == c[i - 1] IN Bit(Wrap(ad[i - 1] + p) < p)
  IN  [d |-> [i \in 0 .. 3 |-> Wrap(ad[i] + c[i])], c |-> c[4]]

SubLimbU256(ad, b) ==
  LET c[i \in 0 .. 4] == IF i = 0 THEN b ELSE Bit(c[i - 1] > ad[i - 1])
  IN  [d |-> [i \in 0 .. 3 |-> Wrap(ad[i] - c[i])], c |-> c[4]]

------------------------------------------------------------------------------
(* n limbs of y plus w times n limbs of x, the block that all products are *)
(* made of: the carry limb takes the upper half of one product and the     *)
(* carry bits of the two additions to y[i].                                *)
Row(y, x, w, n) ==
  LET c[i \in 0 .. n] ==
        IF i = 0 THEN 0
        ELSE LET p  == c[i - 1]
                 lo == Lo(x[i - 1] * w)
                 t1 == Wrap(y[i - 1] + p)
             IN  Wrap(Hi(x[i - 1] * w) + Bit(t1 < p) + Bit(Wrap(t1 + lo) < lo))
  IN  [d |-> [i \in 0 .. n - 1 |-> Wrap(y[i] + c[i] + x[i] * w)], c |-> c[n]]

MulLimbU256(ad, b) == Row(Zeros(4), ad, b, 4)

(* ll_u256_mul: four rows, each opens one more limb of the result. *)
MulU256(ad, bd) ==
  LET row[k \in 0 .. 4] ==
        IF k = 0 THEN Zeros(8)
        ELSE LET p == row[k - 1]
                 q == Row(From(p, k - 1, 4), ad, bd[k - 1], 4)
             IN  Into(Into(p, k - 1, q.d), k + 3, [i \in {0} |-> q.c])
  IN  row[4]

(* ll_u256_mullo: rows that end at the fourth limb, their carries dropped. *)
MulLoU256(ad, bd) ==
  LET row[k \in 0 .. 4] ==
        IF k = 0 THEN Zeros(4)
        ELSE Into(row[k - 1], k - 1,
                  Row(From(row[k - 1], k - 1, 5 - k), ad, bd[k - 1], 5 - k).d)
  IN  row[4]

(* The six products ad[i] * ad[j], i < j, of ll_u256_sqr, in limbs 1 to 6. *)
Cross(ad) ==
  LET P(i, j) == ad[i] * ad[j]
      r2  == Wrap(Hi(P(0, 1)) + Lo(P(0, 2)))
      r3  == Wrap(Hi(P(0, 2)) + Bit(r2 < Lo(P(0, 2))))
      r3a == Wrap(r3 + Lo(P(0, 3)))
      r4  == Wrap(Hi(P(0, 3)) + Bit(r3a < Lo(P(0, 3))))
      r3b == Wrap(r3a + Lo(P(1, 2)))
      hi  == Wrap(Hi(P(1, 2)) + Bit(r3b < Lo(P(1, 2))))
      r4a == Wrap(r4 + hi)
      r4b == Wrap(r4a + Lo(P(1, 3)))
      r5  == Wrap(Hi(P(1, 3)) + Bit(r4a < hi) + Bit(r4b < Lo(P(1, 3))))
      r5a == Wrap(r5 + Lo(P(2, 3)))
      r6  == Wrap(Hi(P(2, 3)) + Bit(r5a < Lo(P(2, 3))))
  IN  [i \in 0 .. 7 |-> CASE i = 1 -> Lo(P(0, 1))
                          [] i = 2 -> r2
                          [] i = 3 -> r3b
                          [] i = 4 -> r4b
                          [] i = 5 -> r5a
                          [] i = 6 -> r6
                          [] OTHER -> 0]

(* (x[i] << 1) | (x[i - 1] >> 63) *)
Doubled(x) ==
  [i \in DOMAIN x |-> Wrap(2 * x[i]) + (IF i = 0 THEN 0 ELSE x[i - 1] \div 2^(W - 1))]

(* The squares ad[k]^2 are added at limbs 2k and 2k+1; one carry bit goes  *)
(* from pair to pair, and out of the last pair nothing is kept.            *)
SqrU256(ad) ==
  LET x == Doubled(Cross(ad))
      even(k, t) ==
        LET lo == Lo(ad[k] * ad[k])
            s  == Wrap(x[2 * k] + t)
        IN  [d |-> Wrap(s + lo),
             h |-> Wrap(Hi(ad[k] * ad[k]) + Bit(s < t) + Bit(Wrap(s + lo) < lo))]
      t[k \in 0 .. 4] ==
        IF k = 0 THEN 0
        ELSE LET h == even(k - 1, t[k - 1]).h
             IN  Bit(Wrap(x[2 * k - 1] + h) < h)
  IN  [i \in 0 .. 7 |->
         LET e == even(i \div 2, t[i \div 2])
         IN  IF i % 2 = 0 THEN e.d ELSE Wrap(x[i] + e.h)]

(* ll_u256_sqrlo takes the same steps and stops after the fourth limb. *)
SqrLoU256(ad) == From(SqrU256(ad), 0, 4)

------------------------------------------------------------------------------
(* Shifts by less than a limb; n = 0 is a case of its own, because a C     *)
(* shift by 64 is undefined.                                               *)
LShiftU256(ad, n) ==
  IF n = 0 THEN [i \in 0 .. 4 |-> IF i = 4 THEN 0 ELSE ad[i]]
  ELSE [i \in 0 .. 4 |-> (IF i > 0 THEN ad[i - 1] \div 2^(W - n) ELSE 0)
                         + (IF i < 4 THEN Wrap(ad[i] * 2^n) ELSE 0)]

RShiftU256(ad, n) ==
  IF n = 0 THEN ad
  ELSE [i \in 0 .. 3 |-> (ad[i] \div 2^n)
                         + (IF i < 3 THEN Wrap(ad[i + 1] * 2^(W - n)) ELSE 0)]

------------------------------------------------------------------------------
(* LL_U256_MUL_ADD1: six registers y += x * w; a carry out of the sixth is *)
(* not kept.                                                               *)
MulAdd1(y, x, w) ==
  LET q  == Row(y, x, w, 4)
      y4 == Wrap(y[4] + q.c)
  IN  [i \in 0 .. 5 |-> CASE i < 4 -> q.d[i]
                          [] i = 4 -> y4
                          [] OTHER -> Wrap(y[5] + Bit(y4 < q.c))]

(* The register file after one position: the macros' callers pass the same *)
(* registers again, shifted by one.                                        *)
Rotate(y, top) ==
  [i \in DOMAIN y |-> IF i + 1 \in DOMAIN y THEN y[i + 1] ELSE top]

(* LL_U256_MONT_MUL_ADD clears the sixth register, LL_U256_MONT_REDC1 adds *)
(* the multiple of x that makes y0 zero.                                   *)
MontMulAdd(y, x, w) == MulAdd1([y EXCEPT ![5] = 0], x, w)
Redc1(y, x, k0) == MulAdd1(y, x, Wrap(y[0] * k0))

(* LL_U256_MONT_REDC2: the same with four registers, y0 takes the carry    *)
(* and becomes the top one.                                                *)
Redc2(y, x, k0) ==
  LET q == Row(y, x, Wrap(y[0] * k0), 4) IN Rotate(q.d, q.c)

(* Mutant of CondSubU256: the carry register y4 is not looked at.           *)
CondSubU256NoCarry(y4, y, x) ==
  LET s == SubLimbs(y, x, 4) IN IF s.c = 0 THEN s.d ELSE y

(* LL_U256_MONT_COND_SUB: the difference unless it borrows from y4. *)
CondSubU256(y4, y, x) ==
  LET c[i \in 0 .. 4] ==
        IF i = 0 THEN 0
        ELSE LET p == c[i - 1]
                 t == Wrap(y[i - 1] - p)
             IN  Or(Bit(y[i - 1] < p), Bit(t < x[i - 1]))
  IN  IF y4 >= c[4] THEN [i \in 0 .. 3 |-> Wrap(y[i] - c[i] - x[i])] ELSE y
==============================================================================
