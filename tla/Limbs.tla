-------------------------------- MODULE Limbs --------------------------------
(***************************************************************************)
(* Arithmetic on arrays of limbs: the C routines of src/src/ll/ll_add.c,   *)
(* ll_mul.c and parts of ll_utils.c and ll_local.h, with limbs of W bits   *)
(* instead of 64.  An array of n limbs is a function on 0..n-1, least      *)
(* significant limb first.  A routine that fills an array and returns a    *)
(* limb is an operator that returns both: d is the array after the call, c *)
(* the returned limb.  A loop is a recursive function of the number of     *)
(* iterations done, whose value is what one iteration hands to the next.   *)
(***************************************************************************)
EXTENDS Integers

CONSTANT W    \* bits of a limb

ASSUME WordAssumption == W \in Nat \ {0}

(* The powers up to the base, for the proofs: tlapm evaluates 2^0 but does *)
(* not know how a power follows from the one before.                       *)
ASSUME PowersOfTwo == \A s \in 0 .. W - 1 : 2^(s + 1) = 2 * 2^s

B == 2^W

Limb == 0 .. B - 1

Arrays(n) == [0 .. n - 1 -> Limb]

(* The number that the first n limbs of x stand for. *)
Val(x, n) ==
  LET v[k \in 0 .. n] == IF k = 0 THEN 0 ELSE x[n - k] + B * v[k - 1]
  IN  v[n]

(* The n limbs of the number a. *)
LimbsOf(a, n) == [i \in 0 .. n - 1 |-> (a \div B^i) % B]

(* n limbs of x from &x[i] on, and x after a call that wrote y to &x[i].   *)
From(x, i, n) == [j \in 0 .. n - 1 |-> x[i + j]]
Into(x, i, y) == [j \in DOMAIN x |-> IF j - i \in DOMAIN y THEN y[j - i] ELSE x[j]]

Zeros(n) == [i \in 0 .. n - 1 |-> 0]

(* Unsigned wrap-around; the two limbs of a product; a C comparison used   *)
(* as a number.                                                            *)
Wrap(x) == x % B
Lo(x) == x % B
Hi(x) == x \div B
Bit(cond) == IF cond THEN 1 ELSE 0

------------------------------------------------------------------------------
(* Mutant of MulWords: the carry of t1 is not added to the upper half.     *)
MulWordsNoCarry(a, b) ==
  LET H  == 2^(W \div 2)
      ah == a \div H    al == a % H
      bh == b \div H    bl == b % H
      t1 == Wrap(al * bh + ((al * bl) \div H) + ah * bl)
  IN  [hi |-> Wrap(ah * bh + (t1 \div H)), lo |-> Wrap(t1 * H) + ((al * bl) % H)]

(* LL_MUL64: the product of two limbs from four products of half limbs.    *)
MulWords(a, b) ==
  LET H  == 2^(W \div 2)
      ah == a \div H    al == a % H
      bh == b \div H    bl == b % H
      t0 == Wrap(al * bh) + ((al * bl) \div H)
      t1 == Wrap(t0 + ah * bl)
  IN  [hi |-> Wrap(ah * bh + (IF t1 < ah * bl THEN H ELSE 0) + (t1 \div H)),
       lo |-> Wrap(t1 * H) + ((al * bl) % H)]

(* ll_invert_limb: -1/a modulo B for odd a, by four Newton steps from an   *)
(* inverse modulo 16.  InvertSeed is ((a + 2) & 4) << 1) + a.              *)
InvertSeed(a) == Wrap(IF ((a + 2) \div 4) % 2 = 1 THEN 8 + a ELSE a)

NewtonStep(inv, a) == Wrap(inv * Wrap(2 - inv * a))

InvertLimb(a) ==
  LET inv[k \in 0 .. 4] == IF k = 0 THEN InvertSeed(a) ELSE NewtonStep(inv[k - 1], a)
  IN  Wrap(-inv[4])

------------------------------------------------------------------------------
(* ll_add_limb, ll_add_limbs and ll_add. *)
AddLimb(ad, b, al) ==
  LET c[i \in 0 .. al] ==
        IF i = 0 THEN b
        ELSE LET p == c[i - 1] IN Bit(Wrap(ad[i - 1] + p) < p)
  IN  [d |-> [i \in 0 .. al - 1 |-> Wrap(ad[i] + c[i])], c |-> c[al]]

(* Mutant of AddLimbs: only the first of the two carries of a limb counts. *)
AddLimbsOneCarry(ad, bd, l) ==
  LET c[i \in 0 .. l] ==
        IF i = 0 THEN 0 ELSE LET p == c[i - 1] IN Bit(Wrap(ad[i - 1] + p) < p)
  IN  [d |-> [i \in 0 .. l - 1 |-> Wrap(ad[i] + bd[i] + c[i])], c |-> c[l]]

AddLimbs(ad, bd, l) ==
  LET c[i \in 0 .. l] ==
        IF i = 0 THEN 0
        ELSE LET p  == c[i - 1]
                 t1 == Wrap(ad[i - 1] + p)
             IN  Bit(t1 < p) + Bit(Wrap(bd[i - 1] + t1) < t1)
  IN  [d |-> [i \in 0 .. l - 1 |-> Wrap(ad[i] + bd[i] + c[i])], c |-> c[l]]

Add(ad, bd, al, bl) ==
  LET short == IF al >= bl THEN bl ELSE al
      long  == IF al >= bl THEN al ELSE bl
      tad   == IF al >= bl THEN ad ELSE bd
      tbd   == IF al >= bl THEN bd ELSE ad
      low   == AddLimbs(tad, tbd, short)
      high  == AddLimb(From(tad, short, long - short), low.c, long - short)
  IN  [d |-> [i \in 0 .. long |->
                CASE i < short -> low.d[i]
                  [] i = long  -> high.c
                  [] OTHER     -> high.d[i - short]],
       c |-> high.c]

(* ll_sub_limb, ll_sub_limbs and ll_sub. *)
SubLimb(ad, b, al) ==
  LET c[i \in 0 .. al] == IF i = 0 THEN b ELSE Bit(ad[i - 1] < c[i - 1])
  IN  [d |-> [i \in 0 .. al - 1 |-> Wrap(ad[i] - c[i])], c |-> c[al]]

SubLimbs(ad, bd, l) ==
  LET c[i \in 0 .. l] ==
        IF i = 0 THEN 0
        ELSE LET p == c[i - 1]
             IN  Bit(ad[i - 1] < p) + Bit(Wrap(ad[i - 1] - p) < bd[i - 1])
  IN  [d |-> [i \in 0 .. l - 1 |-> Wrap(ad[i] - bd[i] - c[i])], c |-> c[l]]

Sub(ad, bd, al, bl) ==
  LET low  == SubLimbs(ad, bd, bl)
      high == SubLimb(From(ad, bl, al - bl), low.c, al - bl)
  IN  [d |-> [i \in 0 .. al - 1 |-> IF i < bl THEN low.d[i] ELSE high.d[i - bl]],
       c |-> high.c]

------------------------------------------------------------------------------
(* ll_mul_limb: al + 1 limbs. *)
MulLimb(ad, b, al) ==
  LET t[i \in 0 .. al] ==
        IF i = 0 THEN 0
        ELSE LET lo == Lo(ad[i - 1] * b)
             IN  Wrap(Hi(ad[i - 1] * b) + Bit(Wrap(t[i - 1] + lo) < lo))
  IN  [d |-> [i \in 0 .. al |-> IF i = al THEN t[al] ELSE Wrap(t[i] + Lo(ad[i] * b))],
       c |-> t[al]]

(* ll_muladd_limb: rd[0..rl-1] += ad * b, and rd[rl] is overwritten with   *)
(* the carry.                                                              *)
MulAddLimb(rd, ad, b, rl, al) ==
  LET product(i) == IF i < al THEN ad[i] * b ELSE 0
      t[i \in 0 .. rl] ==
        IF i = 0 THEN 0
        ELSE LET lo == Lo(product(i - 1))
                 t1 == Wrap(t[i - 1] + lo)
             IN  IF i <= al
                 THEN Wrap(Hi(product(i - 1)) + Bit(t1 < lo)
                             + Bit(Wrap(t1 + rd[i - 1]) < rd[i - 1]))
                 ELSE Bit(Wrap(rd[i - 1] + t1) < t1)
  IN  [d |-> [i \in DOMAIN rd |->
                CASE i < rl -> Wrap(rd[i] + t[i] + product(i))
                  [] i = rl -> t[rl]
                  [] OTHER  -> rd[i]],
       c |-> t[rl]]

(* ll_mulsub_limb: rd[0..rl-1] -= ad * b, the borrow is returned. *)
MulSubLimb(rd, ad, b, rl, al) ==
  LET product(i) == IF i < al THEN ad[i] * b ELSE 0
      t[i \in 0 .. rl] ==
        IF i = 0 THEN 0
        ELSE LET lo == Lo(product(i - 1))
                 t1 == Wrap(t[i - 1] + lo)
             IN  IF i <= al
                 THEN Wrap(Hi(product(i - 1)) + Bit(t1 < lo) + Bit(rd[i - 1] < t1))
                 ELSE Bit(rd[i - 1] < t1)
  IN  [d |-> [i \in DOMAIN rd |->
                IF i < rl THEN Wrap(rd[i] - Wrap(t[i] + product(i))) ELSE rd[i]],
       c |-> t[rl]]

(* ll_mul: schoolbook product; row i adds ad * bd[i] at rd[i] and stores   *)
(* its carry in rd[i + al], which no earlier row has written.              *)
Mul(rd, ad, bd, al, bl) ==
  LET row[i \in 0 .. bl] ==
        IF i = 0 THEN Into(rd, 0, Zeros(al))
        ELSE LET p == row[i - 1]
             IN  Into(p, i - 1,
                      MulAddLimb(From(p, i - 1, al + 1), ad, bd[i - 1], al, al).d)
  IN  row[bl]

------------------------------------------------------------------------------
(* ll_num_limbs, and ll_cmp_limbs for arrays of equal length. *)
NumLimbs(x, max) ==
  LET n[k \in 0 .. max] == IF k = 0 \/ x[k - 1] > 0 THEN k ELSE n[k - 1]
  IN  n[max]

(* ll_num_bits: while there is anything in its upper half, the number is    *)
(* replaced by it; the step is the width of that half.  ll_leading_zeros   *)
(* is what is left of the width.                                           *)
NumBits(a, width) ==
  LET n[s \in 0 .. width] ==
        [x \in 0 .. 2^width - 1 |->
           IF s = 0 THEN Bit(x # 0)
           ELSE IF x \div 2^s # 0 THEN s + n[s \div 2][x \div 2^s] ELSE n[s \div 2][x]]
  IN  n[width \div 2][a]

CmpLimbs(ad, bd, al, bl) ==
  LET differ == {i \in 0 .. al - 1 : ad[i] # bd[i]}
      top == CHOOSE i \in differ : \A j \in differ : j <= i
  IN  IF al # bl THEN IF al > bl THEN 1 ELSE -1
      ELSE IF differ = {} THEN 0
      ELSE IF ad[top] > bd[top] THEN 1 ELSE -1

------------------------------------------------------------------------------
(***************************************************************************)
(* Shifts within one array, by a * W + b bits: the loops run from the far  *)
(* end, so that a limb is read before it is overwritten.  x holds al limbs *)
(* and has room for the limbs above them that the routine writes.          *)
(***************************************************************************)
(* Mutant of LShift: the limbs are taken from the least significant one on. *)
LShiftUpwards(x, al, n) ==
  LET l == n \div W
      b == n % W
      s[k \in 0 .. al] ==
        IF k = 0 THEN [x |-> x, t |-> 0]
        ELSE LET p == s[k - 1]
             IN  [x |-> [p.x EXCEPT ![k - 1 + l] = Wrap(p.x[k - 1] * 2^b) + (p.t \div 2^(W - b))],
                  t |-> p.x[k - 1]]
  IN  [d |-> [j \in DOMAIN x |-> IF j < l THEN 0 ELSE s[al].x[j]], c |-> s[al].t \div 2^(W - b)]

(* ll_lshift, most significant limb first; a shift by whole limbs is a     *)
(* copy.  It returns the limb al + l of the result.                        *)
LShift(x, al, n) ==
  LET l == n \div W
      b == n % W
      s[k \in 0 .. al] ==
        IF k = 0 THEN [x |-> x, t |-> 0]
        ELSE LET p == s[k - 1]
                 w == p.x[al - k]
             IN  [x |-> [p.x EXCEPT ![al - k + l + 1] = Wrap(p.t * 2^b) + (w \div 2^(W - b))],
                  t |-> w]
      copy[k \in 0 .. al] ==
        IF k = 0 THEN [x EXCEPT ![al + l] = 0]
        ELSE LET p == copy[k - 1] IN [p EXCEPT ![al - k + l] = p[al - k]]
      moved == IF b = 0 THEN copy[al] ELSE [s[al].x EXCEPT ![l] = Wrap(s[al].t * 2^b)]
      d == [j \in DOMAIN x |-> IF j < l THEN 0 ELSE moved[j]]
  IN  IF al = 0 THEN [d |-> x, c |-> 0] ELSE [d |-> d, c |-> d[al + l]]

(* ll_rshift, least significant limb first; a shift beyond the operand     *)
(* clears as many limbs as it is long.  What the limb behind the result    *)
(* holds is returned, and no caller looks at it.                           *)
RShift(x, al, n) ==
  LET l == n \div W
      b == n % W
      s[k \in 0 .. al - l] ==
        IF k = 0 THEN x
        ELSE LET p == s[k - 1]
             IN  [p EXCEPT ![k - 1] = IF b = 0 THEN p[k - 1 + l]
                                      ELSE (p[k - 1 + l] \div 2^b)
                                             + IF k = al - l THEN 0
                                               ELSE Wrap(p[k + l] * 2^(W - b))]
      shifted == [j \in DOMAIN x |-> IF j \in al - l .. al - 1 THEN 0 ELSE s[al - l][j]]
      cleared == [j \in DOMAIN x |-> IF j < l THEN 0 ELSE x[j]]
  IN  IF al = 0 THEN [d |-> x, c |-> 0]
      ELSE IF l >= al THEN [d |-> cleared, c |-> cleared[0]]
      ELSE [d |-> shifted, c |-> shifted[al - l]]
==============================================================================
