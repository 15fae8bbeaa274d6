--------------------------- MODULE DivisionProofs ---------------------------
(***************************************************************************)
(* ll_div is right for limbs of every width and operands of every length.  *)
(***************************************************************************)
EXTENDS Division, LimbsProofs

(* B^k in the properties is the power that LimbsProofs reasons about. *)
LEMMA PowersAre == \A k \in 0 .. MaxN + 1 : B^k = Power(k)
<1> DEFINE T == {k \in 0 .. MaxN + 1 : B^k = Power(k)}
<1>1. MaxN \in Nat /\ MaxN + 1 \in Nat
  BY DivisionAssumption
<1>2. 0 \in T
  BY <1>1, PowerStep, BasePowers
<1>3. ASSUME NEW k \in 0 .. (MaxN + 1) - 1, k \in T PROVE k + 1 \in T
  <2>1. k \in 0 .. MaxN /\ k \in Nat /\ k + 1 \in 0 .. MaxN + 1
    BY <1>1
  <2>2. B^(k + 1) = B * B^k
    BY <2>1, BasePowers
  <2>3. Power(k + 1) = B * Power(k)
    BY <2>1, PowerStep
  <2> QED
    BY <1>3, <2>1, <2>2, <2>3
<1>4. 0 .. MaxN + 1 \subseteq T
  <2> HIDE DEF T
  <2> QED
    BY <1>1, <1>2, <1>3, InductionTo
<1> QED
  BY <1>4

(* There is a shift that sets the top bit, whatever the top limb of the    *)
(* divisor is.                                                             *)
LEMMA LeadingZerosIs ==
  ASSUME NEW a \in Limb \ {0}
  PROVE  /\ LeadingZeros(a) \in 0 .. W - 1
         /\ a * 2^LeadingZeros(a) \in B \div 2 .. B - 1
<1> DEFINE H == B \div 2
           T == {s \in 0 .. W - 1 : a * 2^s >= H}
<1>1. H \in Nat \ {0} /\ B = 2 * H /\ a \in Nat /\ a >= 1 /\ a <= B - 1
  BY Base DEF Limb
<1>2. W - 1 \in T /\ T \subseteq Nat
  <2>1. W - 1 \in 0 .. W - 1 /\ W - 1 \in 0 .. W /\ (W - 1) + 1 = W
    BY WordAssumption
  <2>2. 2^W = 2 * 2^(W - 1)
    BY <2>1, PowersOfTwo
  <2> DEFINE p == 2^(W - 1)
  <2>3. p \in Nat
    BY <2>1, TwoPowers
  <2>4. 2 * p = B
    BY <2>2 DEF B
  <2> HIDE DEF p, H
  <2>5. p = H
    BY <1>1, <2>3, <2>4
  <2>6. (a - 1) * p \in Nat /\ a * p = p + (a - 1) * p
    BY <1>1, <2>3
  <2>7. a * p >= H
    BY <1>1, <2>3, <2>5, <2>6
  <2> QED
    BY <2>1, <2>7, WordAssumption DEF p
<1>3. PICK m \in T : \A k \in T : m <= k
  <2> HIDE DEF T
  <2> QED
    BY <1>2, Least
<1>4. m \in 0 .. W - 1 /\ a * 2^m >= H
  OBVIOUS
<1>5. a * 2^m <= B - 1
  <2>1. CASE m = 0
    <3>1. a * 2^m = a
      BY <1>1, <2>1
    <3> QED
      BY <1>1, <3>1
  <2>2. CASE m # 0
    <3>1. m - 1 \in 0 .. W - 1 /\ (m - 1) + 1 = m /\ m - 1 \in 0 .. W
      BY <1>4, <2>2, WordAssumption
    <3>2. 2^m = 2 * 2^(m - 1)
      BY <3>1, PowersOfTwo
    <3>3. ~(a * 2^(m - 1) >= H)
      BY <1>3, <3>1, <2>2
    <3> DEFINE p == 2^(m - 1)
    <3>4. p \in Nat
      BY <3>1, TwoPowers
    <3>5. 2^m = 2 * p /\ ~(a * p >= H)
      BY <3>2, <3>3
    <3> HIDE DEF p, H
    <3>6. a * (2 * p) = 2 * (a * p) /\ a * p \in Nat
      BY <1>1, <3>4
    <3> QED
      BY <1>1, <3>5, <3>6
  <2> QED
    BY <2>1, <2>2
<1>6. a * 2^m \in Nat
  <2>1. 2^m \in Nat
    BY <1>4, TwoPowers, WordAssumption
  <2> QED
    BY <1>1, <2>1
<1>7. a * 2^m \in B \div 2 .. B - 1
  BY <1>1, <1>4, <1>5, <1>6
<1> QED
  BY <1>4, <1>7 DEF LeadingZeros

------------------------------------------------------------------------------
(* The correction that Div2by1 and Div3by2 share.  r is the remainder for  *)
(* an estimate, M the power of the base at which it wraps, and L the       *)
(* threshold; between these bounds two comparisons put it right.           *)
Over(r, M, L) == Bit(r % M >= L)
Raised(r, D, M, L) == ((r % M) + Over(r, M, L) * D) % M
Under(r, D, M, L) == Bit(Raised(r, D, M, L) >= D)

(* Between these bounds the two comparisons yield the remainder, and count *)
(* how often the divisor was added or subtracted.                          *)
LEMMA Corrected ==
  ASSUME NEW M \in Nat, NEW D \in Nat, D < M, M <= 2 * D, NEW L \in 0 .. M - 1,
         NEW r \in Int, r >= -D, r >= L - M, r < M - D \/ r < L
  PROVE  /\ Over(r, M, L) \in {0, 1} /\ Under(r, D, M, L) \in {0, 1}
         /\ Raised(r, D, M, L) - Under(r, D, M, L) * D \in 0 .. D - 1
         /\ Raised(r, D, M, L) - Under(r, D, M, L) * D
              = r + (Over(r, M, L) - Under(r, D, M, L)) * D
<1> DEFINE t1    == r % M
           over  == Bit(t1 >= L)
           t2    == (t1 + over * D) % M
           under == Bit(t2 >= D)
<1> SUFFICES /\ over \in {0, 1} /\ under \in {0, 1}
             /\ t2 - under * D \in 0 .. D - 1
             /\ t2 - under * D = r + (over - under) * D
  BY DEF Over, Raised, Under
<1>0. M \in Nat \ {0}
  OBVIOUS
<1>1. CASE r < 0
  <2>1. r + M \in 0 .. M - 1 /\ -1 \in Int /\ r = M * (-1) + (r + M)
    BY <1>1
  <2>2. t1 = r + M
    BY <1>0, <2>1, DivModIs
  <2>3. over = 1
    BY <1>1, <2>2 DEF Bit
  <2>4. t1 + over * D = r + M + D
    BY <2>2, <2>3
  <2>5. r + D \in 0 .. M - 1 /\ 1 \in Int /\ r + M + D \in Int /\ r + M + D = M * 1 + (r + D)
    BY <1>1
  <2>6. (r + M + D) % M = r + D
    BY <1>0, <2>5, DivModIs
  <2>7. t2 = r + D
    BY <2>4, <2>6
  <2>8. under = 0
    BY <1>1, <2>7 DEF Bit
  <2> HIDE DEF over, t2, under
  <2> QED
    BY <1>1, <2>3, <2>7, <2>8
<1>2. CASE r >= 0
  <2>1. r \in 0 .. M - 1 /\ 0 \in Int /\ r = M * 0 + r
    BY <1>2
  <2>2. t1 = r
    BY <1>0, <2>1, DivModIs
  <2>3. CASE r >= L
    <3>1. over = 1
      BY <2>2, <2>3 DEF Bit
    <3>2. t1 + over * D = r + D
      BY <2>2, <3>1
    <3>3. r + D \in 0 .. M - 1 /\ 0 \in Int /\ r + D \in Int /\ r + D = M * 0 + (r + D)
      BY <1>2, <2>3
    <3>4. (r + D) % M = r + D
      BY <1>0, <3>3, DivModIs
    <3>5. t2 = r + D
      BY <3>2, <3>4
    <3>6. under = 1
      BY <1>2, <3>5 DEF Bit
    <3> HIDE DEF over, t2, under
    <3> QED
      BY <1>2, <2>3, <3>1, <3>5, <3>6
  <2>4. CASE r < L
    <3>1. over = 0
      BY <2>2, <2>4 DEF Bit
    <3>2. t1 + over * D = r
      BY <2>2, <3>1
    <3>3. t2 = r
      BY <2>2, <3>2
    <3>4. under = IF r >= D THEN 1 ELSE 0
      BY <3>3 DEF Bit
    <3> HIDE DEF over, t2, under
    <3> QED
      BY <1>2, <2>4, <3>1, <3>3, <3>4
  <2> QED
    BY <2>3, <2>4
<1> HIDE DEF over, t2, under
<1> QED
  BY <1>1, <1>2

(* Two numbers that agree but for multiples of M wrap alike. *)
LEMMA ModSame ==
  ASSUME NEW M \in Nat \ {0}, NEW x \in Int, NEW y \in Int, NEW k \in Int, x = y + M * k
  PROVE  x % M = y % M
<1> DEFINE h == y \div M   r == y % M
<1>1. h \in Int /\ r \in 0 .. M - 1 /\ y = M * h + r
  BY DivMod
<1> HIDE DEF h, r
<1>2. h + k \in Int /\ x = M * (h + k) + r
  BY <1>1
<1>3. x % M = r
  BY <1>1, <1>2, DivModIs
<1> QED
  BY <1>3 DEF r

------------------------------------------------------------------------------
(* w is the reciprocal of D, for a divisor of one limb (M = B) or of two   *)
(* limbs (M = B * B): M * B divided by D and rounded down, but less than   *)
(* exact even if there is no remainder; B less, so that it fits a limb.    *)
IsReciprocal(w, D, M) == w \in Limb /\ M * B - (B + w) * D \in 1 .. D

(* ll_reciprocal1 returns such a reciprocal for a normalised limb. *)
LEMMA Reciprocal1Is ==
  ASSUME NEW d1 \in B \div 2 .. B - 1
  PROVE  IsReciprocal(Reciprocal1(d1), d1, B)
<1> DEFINE w == (B * B - 1) \div d1   r == (B * B - 1) % d1
<1>1. B \in Nat /\ B >= 2 /\ d1 \in Nat \ {0} /\ d1 <= B - 1 /\ B <= 2 * d1 /\ B * B - 1 \in Int
  BY Base
<1>2. w \in Int /\ r \in 0 .. d1 - 1 /\ B * B - 1 = d1 * w + r
  BY <1>1, DivMod
<1> HIDE DEF w, r
<1>3. w >= B
  <2> SUFFICES ASSUME w <= B - 1 PROVE FALSE
    BY <1>1, <1>2
  <2>1. d1 * (B - 1 - w) \in Nat /\ d1 * (B - 1 - w) = d1 * B - d1 - d1 * w
    BY <1>1, <1>2
  <2>2. B * (B - 1 - d1) \in Nat /\ B * (B - 1 - d1) = B * B - B - d1 * B
    BY <1>1
  <2>3. d1 * B \in Int /\ d1 * w \in Int /\ B * B \in Int
    BY <1>1, <1>2
  <2> QED
    BY <1>1, <1>2, <2>1, <2>2, <2>3
<1>4. w <= 2 * B - 1
  <2> SUFFICES ASSUME w >= 2 * B PROVE FALSE
    BY <1>1, <1>2
  <2>1. d1 * (w - 2 * B) \in Nat /\ d1 * (w - 2 * B) = d1 * w - B * (2 * d1)
    BY <1>1, <1>2
  <2>2. B * (2 * d1 - B) \in Nat /\ B * (2 * d1 - B) = B * (2 * d1) - B * B
    BY <1>1
  <2>3. d1 * w \in Int /\ B * B \in Int /\ B * (2 * d1) \in Int
    BY <1>1, <1>2
  <2> QED
    BY <1>1, <1>2, <2>1, <2>2, <2>3
<1>5. B * B - (B + (w - B)) * d1 = r + 1
  <2>1. (B + (w - B)) * d1 = d1 * w /\ d1 * w \in Int /\ B * B \in Int
    BY <1>1, <1>2
  <2> QED
    BY <1>2, <2>1
<1>6. w - B \in Limb
  BY <1>1, <1>2, <1>3, <1>4 DEF Limb
<1>7. IsReciprocal(w - B, d1, B)
  BY <1>1, <1>2, <1>5, <1>6 DEF IsReciprocal
<1> QED
  BY <1>7 DEF Reciprocal1, w

(* ll_div2by1_pi1 *)
LEMMA Div2by1Is ==
  ASSUME NEW d1 \in B \div 2 .. B - 1, IsReciprocal(v, d1, B),
         NEW n1 \in 0 .. d1 - 1, NEW n0 \in Limb
  PROVE  LET e == Div2by1(n1, n0, d1)
         IN  /\ e.q \in Limb
             /\ e.r \in 0 .. d1 - 1
             /\ Wide(n1, n0) = e.q * d1 + e.r
<1> DEFINE K == B * B - (B + v) * d1
           p == v * n1 + Wide(n1, n0)
           h == p \div B
           l == p % B
           r == Wide(n1, n0) - (h + 1) * d1
<1>1. /\ B \in Nat /\ B >= 2 /\ d1 \in Nat \ {0} /\ d1 <= B - 1 /\ B <= 2 * d1
      /\ v \in Nat /\ v <= B - 1 /\ n1 \in Nat /\ n1 <= d1 - 1 /\ n0 \in Nat /\ n0 <= B - 1
  BY Base DEF IsReciprocal, Limb
<1>2. K \in 1 .. d1 /\ (B + v) * d1 = B * B - K
  <2>1. K \in 1 .. d1
    BY DEF IsReciprocal
  <2>2. (B + v) * d1 \in Int /\ B * B \in Int
    BY <1>1
  <2> QED
    BY <2>1, <2>2
<1> HIDE DEF K
<1>3. p = (B + v) * n1 + n0 /\ p \in Nat
  BY <1>1 DEF Wide
<1>4. p < B * B
  <2>1. (B + v) * (d1 - 1 - n1) \in Nat
    BY <1>1
  <2>2. (B + v) * (d1 - 1 - n1) = (B + v) * d1 - (B + v) - (B + v) * n1
    BY <1>1
  <2>3. (B + v) * d1 \in Int /\ (B + v) * n1 \in Int /\ B * B \in Int
    BY <1>1
  <2> HIDE DEF p
  <2> QED
    BY <1>1, <1>2, <1>3, <2>1, <2>2, <2>3
<1>5. Wrap2(p) = p
  <2>1. p \in 0 .. B * B - 1 /\ B * B \in Nat \ {0} /\ p \in Int /\ p = (B * B) * 0 + p /\ 0 \in Int
    BY <1>1, <1>3, <1>4
  <2>2. p % (B * B) = p
    <3> DEFINE M == B * B
    <3> HIDE DEF p, M
    <3> QED
      BY <2>1, DivModIs DEF M
  <2> QED
    BY <2>2 DEF Wrap2
<1>6. h \in Nat /\ l \in 0 .. B - 1 /\ p = B * h + l
  <2> HIDE DEF p
  <2>1. B \in Nat \ {0} /\ p \in Int /\ p >= 0
    BY <1>1, <1>3
  <2>2. h \in Int /\ l \in 0 .. B - 1 /\ p = B * h + l
    BY <2>1, DivMod
  <2>3. h >= 0
    BY <2>1
  <2> QED
    BY <2>2, <2>3
<1>7. p \in Nat /\ (B + v) * n1 = B * h + l - n0
  <2>1. (B + v) * n1 \in Int /\ B * h \in Int
    BY <1>1, <1>6
  <2> HIDE DEF p, h, l
  <2> QED
    BY <1>1, <1>3, <1>6, <2>1
<1> HIDE DEF p, h, l
<1>8. r \in Int /\ B * r = n1 * K + n0 * (B - d1) + (l - B) * d1
  <2>1. r \in Int
    BY <1>1, <1>6 DEF Wide
  <2>2. K = B * B - (B + v) * d1
    BY DEF K
  <2>3. B * r = B * (B * n1 + n0) - (B * h) * d1 - B * d1
    BY <1>1, <1>6 DEF Wide
  <2>4. B * h = (B + v) * n1 + n0 - l
    <3>1. (B + v) * n1 \in Int /\ B * h \in Int
      BY <1>1, <1>6
    <3> QED
      BY <1>1, <1>6, <1>7, <3>1
  <2>5. B * r = B * (B * n1 + n0) - ((B + v) * n1 + n0 - l) * d1 - B * d1
    BY <2>3, <2>4
  <2>6. n1 * K = n1 * (B * B) - n1 * ((B + v) * d1)
    BY <1>1, <2>2
  <2>7. B * (B * n1 + n0) - ((B + v) * n1 + n0 - l) * d1 - B * d1
          = (n1 * (B * B) - n1 * ((B + v) * d1)) + n0 * (B - d1) + (l - B) * d1
    BY <1>1, <1>6
  <2> QED
    BY <2>1, <2>5, <2>6, <2>7
<1> HIDE DEF r
<1>9. r >= -d1 /\ r >= l - B
  <2>1. n1 * K \in Nat /\ n0 * (B - d1) \in Nat
    BY <1>1, <1>2
  <2>2. B * (r + d1) >= 0
    <3>1. l * d1 \in Nat /\ (l - B) * d1 = l * d1 - B * d1 /\ B * (r + d1) = B * r + B * d1
      BY <1>1, <1>6, <1>8
    <3>2. B * d1 \in Int /\ B * r \in Int /\ (l - B) * d1 \in Int /\ B * (r + d1) \in Int
      BY <1>1, <1>6, <1>8
    <3> QED
      BY <1>8, <2>1, <3>1, <3>2
  <2>3. B * (r - (l - B)) >= 0
    <3>1. (B - l) * (B - d1) \in Nat /\ (B - l) * (B - d1) = (l - B) * d1 - B * (l - B)
      BY <1>1, <1>6
    <3>2. B * (r - (l - B)) = B * r - B * (l - B)
      BY <1>1, <1>6, <1>8
    <3>3. B * r \in Int /\ (l - B) * d1 \in Int /\ B * (l - B) \in Int
      BY <1>1, <1>6, <1>8
    <3> QED
      BY <1>8, <2>1, <3>1, <3>2, <3>3
  <2>4. ASSUME NEW z \in Int, B * z >= 0 PROVE z >= 0
    <3> SUFFICES ASSUME z <= -1 PROVE FALSE
      OBVIOUS
    <3>1. B * (-1 - z) \in Nat /\ B * (-1 - z) = -B - B * z
      BY <1>1
    <3> QED
      BY <1>1, <2>4, <3>1
  <2>5. r + d1 \in Int /\ r - (l - B) \in Int
    BY <1>1, <1>6, <1>8
  <2>6. r + d1 >= 0 /\ r - (l - B) >= 0
    BY <2>2, <2>3, <2>4, <2>5
  <2> QED
    BY <1>1, <1>6, <1>8, <2>6
<1>10. r < B - d1 \/ r < l
  <2> DEFINE c == IF l <= B - d1 THEN B - d1 ELSE l
  <2>1. c \in Nat /\ l <= c /\ B - d1 <= c /\ (c = l \/ c = B - d1) /\ c >= 1
    BY <1>1, <1>6
  <2> HIDE DEF c
  <2>2. n1 * K <= (d1 - 1) * d1
    <3>1. n1 * (d1 - K) \in Nat /\ (d1 - 1 - n1) * d1 \in Nat
      BY <1>1, <1>2
    <3>2. n1 * (d1 - K) = n1 * d1 - n1 * K /\ (d1 - 1 - n1) * d1 = (d1 - 1) * d1 - n1 * d1
      BY <1>1, <1>2
    <3>3. n1 * K \in Int /\ n1 * d1 \in Int /\ (d1 - 1) * d1 \in Int
      BY <1>1, <1>2
    <3> QED
      BY <3>1, <3>2, <3>3
  <2>3. n0 * (B - d1) <= (B - 1) * (B - d1)
    <3>1. (B - 1 - n0) * (B - d1) \in Nat
      BY <1>1
    <3>2. (B - 1 - n0) * (B - d1) = (B - 1) * (B - d1) - n0 * (B - d1)
      BY <1>1
    <3>3. (B - 1) * (B - d1) \in Int /\ n0 * (B - d1) \in Int
      BY <1>1
    <3> QED
      BY <3>1, <3>2, <3>3
  <2>4. (d1 - 1) * d1 + (B - 1) * (B - d1) + (l - B) * d1 = (B - d1) * (B - d1) + l * d1 - B
    BY <1>1, <1>6
  <2>5. (B - d1) * (B - d1) <= c * (B - d1) /\ l * d1 <= c * d1
    <3>1. (c - (B - d1)) * (B - d1) \in Nat /\ (c - l) * d1 \in Nat
      BY <1>1, <1>6, <2>1
    <3>2. /\ (c - (B - d1)) * (B - d1) = c * (B - d1) - (B - d1) * (B - d1)
          /\ (c - l) * d1 = c * d1 - l * d1
      BY <1>1, <1>6, <2>1
    <3>3. /\ c * (B - d1) \in Int /\ (B - d1) * (B - d1) \in Int
          /\ c * d1 \in Int /\ l * d1 \in Int
      BY <1>1, <1>6, <2>1
    <3> QED
      BY <3>1, <3>2, <3>3
  <2>6. c * (B - d1) + c * d1 = B * c
    BY <1>1, <2>1
  <2>7. B * r < B * c
    <3>1. /\ n1 * K \in Int /\ (d1 - 1) * d1 \in Int /\ n0 * (B - d1) \in Int
          /\ (B - 1) * (B - d1) \in Int /\ (l - B) * d1 \in Int /\ (B - d1) * (B - d1) \in Int
          /\ l * d1 \in Int /\ c * (B - d1) \in Int /\ c * d1 \in Int /\ B * c \in Int
      BY <1>1, <1>2, <1>6, <2>1
    <3> QED
      BY <1>1, <1>8, <2>2, <2>3, <2>4, <2>5, <2>6, <3>1
  <2>8. r < c
    <3> SUFFICES ASSUME r >= c PROVE FALSE
      BY <1>8, <2>1
    <3>1. B * (r - c) \in Nat /\ B * (r - c) = B * r - B * c
      BY <1>1, <1>8, <2>1
    <3>2. B * r \in Int /\ B * c \in Int
      BY <1>1, <1>8, <2>1
    <3> QED
      BY <2>7, <3>1, <3>2
  <2> QED
    BY <2>1, <2>8
<1> DEFINE t1    == r % B
           over  == Over(r, B, l)
           t2    == Raised(r, d1, B, l)
           under == Under(r, d1, B, l)
<1>11. /\ over \in {0, 1} /\ under \in {0, 1}
       /\ t2 - under * d1 \in 0 .. d1 - 1
       /\ t2 - under * d1 = r + (over - under) * d1
  <2>1. d1 < B /\ B <= 2 * d1 /\ d1 \in Nat
    BY <1>1
  <2>2. B \in Nat /\ l \in 0 .. B - 1 /\ r \in Int /\ r >= -d1 /\ r >= l - B
    BY <1>1, <1>6, <1>8, <1>9
  <2> QED
    BY <1>10, <2>1, <2>2, Corrected
<1>12. Wrap(n0 - Wrap(h + 1) * d1) = t1
  <2> DEFINE g == Wrap(h + 1)  k == (h + 1) \div B
  <2>1. g \in 0 .. B - 1 /\ k \in Int /\ h + 1 = B * k + g
    <3>1. B \in Nat \ {0} /\ h + 1 \in Int
      BY <1>1, <1>6
    <3> QED
      BY <3>1, DivMod DEF Wrap
  <2> HIDE DEF g, k
  <2>2. r = B * n1 + n0 - (h + 1) * d1
    BY <1>1, <1>6 DEF r, Wide
  <2>3. n0 - g * d1 = r + B * (k * d1 - n1)
    BY <1>1, <1>6, <2>1, <2>2
  <2>4. n0 - g * d1 \in Int /\ k * d1 - n1 \in Int
    BY <1>1, <2>1
  <2>5. Wrap(n0 - g * d1) = Wrap(r)
    BY <1>8, <2>3, <2>4, WrapSame
  <2> QED
    BY <2>5 DEF Wrap, g
<1> DEFINE s == h + 1 - over + under  z == t2 - under * d1
<1>13. Div2by1(n1, n0, d1) = [q |-> Wrap(Wrap(h + 1) - over + under), r |-> z]
  <2>1. Hi(Wrap2(p)) = h /\ Lo(Wrap2(p)) = l
    BY <1>5 DEF Hi, Lo, h, l
  <2>2. over = Bit(t1 >= l) /\ under = Bit(t2 >= d1)
    BY DEF Over, Under
  <2>3. Wrap(t1 + over * d1) = t2
    BY DEF Wrap, Raised
  <2> HIDE DEF t1, over, t2, under
  <2> QED
    BY <1>12, <2>1, <2>2, <2>3 DEF Div2by1, p
<1> HIDE DEF t1, over, t2, under, z
<1>14. z \in 0 .. d1 - 1 /\ Wide(n1, n0) = s * d1 + z /\ s \in Int
  <2>1. z \in 0 .. d1 - 1 /\ z = r + (over - under) * d1
    BY <1>11 DEF z
  <2>2. s \in Int
    BY <1>6, <1>11
  <2>3. r = Wide(n1, n0) - (h + 1) * d1 /\ Wide(n1, n0) \in Int
    BY <1>1 DEF r, Wide
  <2>4. s * d1 = (h + 1) * d1 - (over - under) * d1
    BY <1>1, <1>6, <1>11
  <2>5. (h + 1) * d1 \in Int /\ (over - under) * d1 \in Int
    BY <1>1, <1>6, <1>11
  <2> HIDE DEF s
  <2> QED
    BY <1>1, <2>1, <2>2, <2>3, <2>4, <2>5
<1>15. s \in Limb
  <2> HIDE DEF s
  <2>0. s * d1 \in Int /\ Wide(n1, n0) = B * n1 + n0 /\ B * n1 \in Nat
    BY <1>1, <1>14 DEF Wide
  <2>1. s >= 0
    <3> SUFFICES ASSUME s <= -1 PROVE FALSE
      BY <1>14
    <3>1. d1 * (-1 - s) \in Nat /\ d1 * (-1 - s) = -d1 - s * d1
      BY <1>1, <1>14
    <3> QED
      BY <1>1, <1>14, <2>0, <3>1
  <2>2. s <= B - 1
    <3> SUFFICES ASSUME s >= B PROVE FALSE
      BY <1>1, <1>14
    <3>1. d1 * (s - B) \in Nat /\ d1 * (s - B) = s * d1 - B * d1
      BY <1>1, <1>14
    <3>2. B * (d1 - 1 - n1) \in Nat /\ B * (d1 - 1 - n1) = B * d1 - B - B * n1 /\ B * d1 \in Int
      BY <1>1
    <3> QED
      BY <1>1, <1>14, <2>0, <3>1, <3>2
  <2> QED
    BY <1>1, <1>14, <2>1, <2>2 DEF Limb
<1>16. Wrap(Wrap(h + 1) - over + under) = s
  <2> DEFINE g == Wrap(h + 1)  k == (h + 1) \div B
  <2>1. g \in 0 .. B - 1 /\ k \in Int /\ h + 1 = B * k + g
    <3>1. B \in Nat \ {0} /\ h + 1 \in Int
      BY <1>1, <1>6
    <3> QED
      BY <3>1, DivMod DEF Wrap
  <2> HIDE DEF g, k
  <2>2. g - over + under = B * (-k) + s /\ -k \in Int /\ g - over + under \in Int
    <3>1. B * (-k) = -(B * k) /\ B * k \in Int
      BY <1>1, <2>1
    <3> QED
      BY <1>1, <1>6, <1>11, <2>1, <3>1
  <2> HIDE DEF s
  <2>3. Wrap(g - over + under) = s
    BY <1>15, <2>2, WrapIs
  <2> QED
    BY <2>3 DEF g
<1> HIDE DEF s
<1> QED
  BY <1>13, <1>14, <1>15, <1>16

(* A number below B * B and its two limbs. *)
LEMMA TwoLimbs ==
  ASSUME NEW x \in 0 .. B * B - 1
  PROVE  /\ Hi(x) \in Limb /\ Lo(x) \in Limb /\ x = B * Hi(x) + Lo(x)
         /\ Wrap2(x) = x
<1> DEFINE h == Hi(x)   l == Lo(x)
<1>1. B \in Nat \ {0} /\ B * B \in Nat \ {0} /\ x \in Int /\ x >= 0 /\ x <= B * B - 1
  BY Base
<1>2. h \in Int /\ l \in 0 .. B - 1 /\ x = B * h + l
  BY <1>1, DivMod DEF Hi, Lo
<1> HIDE DEF h, l
<1>3. h >= 0
  <2> SUFFICES ASSUME h <= -1 PROVE FALSE
    BY <1>2
  <2>1. B * (-1 - h) \in Nat /\ B * (-1 - h) = -B - B * h
    BY <1>1, <1>2
  <2> QED
    BY <1>1, <1>2, <2>1
<1>4. h <= B - 1
  <2> SUFFICES ASSUME h >= B PROVE FALSE
    BY <1>1, <1>2
  <2>1. B * (h - B) \in Nat /\ B * (h - B) = B * h - B * B
    BY <1>1, <1>2
  <2> QED
    BY <1>1, <1>2, <2>1
<1>5. x % (B * B) = x
  <2> DEFINE M == B * B
  <2>1. M \in Nat \ {0} /\ x \in 0 .. M - 1 /\ x = M * 0 + x /\ 0 \in Int
    BY <1>1
  <2> HIDE DEF M
  <2>2. x % M = x
    BY <1>1, <2>1, DivModIs
  <2> QED
    BY <2>2 DEF M
<1> QED
  BY <1>1, <1>2, <1>3, <1>4, <1>5 DEF h, l, Limb, Wrap2

(* What the estimate leaves of n2,n1,n0, as a polynomial: it stays between *)
(* the bounds that Corrected needs.                                        *)
LEMMA EstimateBounds ==
  ASSUME NEW D \in B * (B \div 2) .. B * B - 1, NEW w, IsReciprocal(w, D, B * B),
         NEW n2 \in Limb, NEW n1 \in Limb, NEW n0 \in Limb, Wide(n2, n1) <= D - 1,
         NEW h \in Int, NEW l \in 0 .. B - 1, w * n2 + Wide(n2, n1) = B * h + l,
         NEW r \in Int, r = B * Wide(n2, n1) + n0 - (h + 1) * D
  PROVE  /\ r >= -D /\ r >= l * B - B * B
         /\ r < B * B - D \/ r < l * B
<1> DEFINE U == Wide(n2, n1)
           M == B * B
           E == M - D
           K == M * B - (B + w) * D
<1>1. /\ B \in Nat /\ B >= 2 /\ w \in Nat /\ w <= B - 1
      /\ n2 \in Nat /\ n1 \in Nat /\ n1 <= B - 1 /\ n0 \in Nat /\ n0 <= B - 1
  BY Base DEF IsReciprocal, Limb
<1>2. /\ M \in Nat /\ D \in Nat \ {0} /\ D <= M - 1 /\ M <= 2 * D /\ E \in Nat /\ E >= 1
      /\ U \in Nat /\ U <= D - 1
  <2>1. B * (B \div 2) \in Nat /\ B * B = 2 * (B * (B \div 2)) /\ B * (B \div 2) >= 1
    <3> DEFINE H == B \div 2
    <3>1. H \in Nat \ {0} /\ B = 2 * H
      BY Base
    <3> HIDE DEF H
    <3>2. B * H \in Nat /\ B * B = 2 * (B * H)
      BY <1>1, <3>1
    <3>3. B * (H - 1) \in Nat /\ B * (H - 1) = B * H - B
      BY <1>1, <3>1
    <3>4. B * H >= 1
      BY <1>1, <3>2, <3>3
    <3> QED
      BY <3>2, <3>4 DEF H
  <2> QED
    BY <1>1, <2>1 DEF Wide
<1>3. K \in 1 .. D /\ U = B * n2 + n1
  BY DEF IsReciprocal, Wide
<1>4. w * D = B * E - K
  <2>1. (B + w) * D = B * D + w * D /\ B * (M - D) = M * B - B * D
    BY <1>1, <1>2
  <2>2. w * D \in Int /\ B * D \in Int /\ M * B \in Int /\ (B + w) * D \in Int
    BY <1>1, <1>2
  <2> QED
    BY <2>1, <2>2
<1> HIDE DEF K
(* M * r, without the estimate *)
<1>5. M * r = (U - n1) * K + n1 * (B * E) + n0 * M + (l - B) * (D * B)
  <2>1. B * r = U * M + n0 * B - (B * h) * D - B * D
    BY <1>1, <1>2
  <2>2. B * h = w * n2 + U - l
    <3>1. B * h \in Int /\ w * n2 \in Int
      BY <1>1
    <3> QED
      BY <1>2, <3>1
  <2>3. B * r = U * M + n0 * B - (w * n2 + U - l) * D - B * D
    BY <2>1, <2>2
  <2> DEFINE wD == w * D
  <2>4. (w * n2 + U - l) * D = n2 * wD + (U - l) * D
    BY <1>1, <1>2
  <2>5. wD \in Int /\ wD = B * E - K
    BY <1>1, <1>2, <1>4
  <2> HIDE DEF wD
  <2>6. M * r = B * (U * M + n0 * B - (n2 * wD + (U - l) * D) - B * D)
    <3> DEFINE x == U * M + n0 * B - (n2 * wD + (U - l) * D) - B * D
    <3>1. B * r = x
      BY <2>3, <2>4
    <3>2. M * r = B * (B * r)
      BY <1>1
    <3> HIDE DEF x, M
    <3>3. M * r = B * x
      BY <3>1, <3>2
    <3> QED
      BY <3>3 DEF x
  <2>7. B * (U * M + n0 * B - (n2 * wD + (U - l) * D) - B * D)
          = U * (B * M) + n0 * M - (B * n2) * wD - U * (B * D) + l * (B * D) - M * D
    <3>1. U \in Int /\ B \in Int /\ l \in Int /\ D \in Int /\ n0 \in Int /\ n2 \in Int /\ wD \in Int
      BY <1>1, <1>2, <2>5
    <3> HIDE DEF U
    <3> QED
      BY <3>1
  <2>8. B * n2 = U - n1
    <3>1. B * n2 \in Int
      BY <1>1
    <3> QED
      BY <1>1, <1>2, <1>3, <3>1
  <2>9. U * (B * M) + n0 * M - (U - n1) * (B * E - K) - U * (B * D) + l * (B * D) - M * D
          = (U - n1) * K + n1 * (B * E) + n0 * M + (l - B) * (D * B)
    BY <1>1, <1>2, <1>3
  <2> QED
    BY <2>5, <2>6, <2>7, <2>8, <2>9
<1>6. U - n1 >= 0 /\ U - n1 \in Nat
  <2>1. B * n2 \in Nat
    BY <1>1
  <2> QED
    BY <1>1, <1>2, <1>3, <2>1
<1> HIDE DEF U
<1>7. /\ (U - n1) * K \in Nat /\ n1 * (B * E) \in Nat /\ n0 * M \in Nat
      /\ (l - B) * (D * B) \in Int /\ M * r \in Int
  <2>1. B * E \in Nat /\ K \in Nat
    BY <1>1, <1>2, <1>3
  <2> HIDE DEF E, M
  <2> QED
    BY <1>1, <1>2, <1>6, <2>1
<1>8. M * r >= (l - B) * (D * B)
  BY <1>5, <1>7
<1>9. r >= -D /\ r >= l * B - M
  <2>1. M * (r + D) >= 0
    <3>1. l * (D * B) \in Nat /\ (l - B) * (D * B) = l * (D * B) - M * D
      BY <1>1, <1>2
    <3>2. M * (r + D) = M * r + M * D /\ M * D \in Int /\ M * (r + D) \in Int
      BY <1>2
    <3> HIDE DEF M
    <3> QED
      BY <1>7, <1>8, <3>1, <3>2
  <2>2. M * (r - (l * B - M)) >= 0
    <3>1. (B - l) * (B * E) \in Nat /\ (B - l) * (B * E) = (l - B) * (D * B) - M * (l * B - M)
      BY <1>1, <1>2
    <3>2. M * (r - (l * B - M)) = M * r - M * (l * B - M)
      BY <1>1, <1>2
    <3>3. M * (r - (l * B - M)) \in Int /\ M * (l * B - M) \in Int
      BY <1>1, <1>2
    <3> HIDE DEF M, E
    <3> QED
      BY <1>7, <1>8, <3>1, <3>2, <3>3
  <2>3. ASSUME NEW z \in Int, M * z >= 0 PROVE z >= 0
    <3> HIDE DEF M
    <3> SUFFICES ASSUME z <= -1 PROVE FALSE
      OBVIOUS
    <3>1. M * (-1 - z) \in Nat /\ M * (-1 - z) = -M - M * z /\ M * z \in Int
      BY <1>2
    <3> QED
      BY <1>2, <2>3, <3>1
  <2> HIDE DEF M
  <2>4. r + D \in Int /\ r - (l * B - M) \in Int /\ l * B \in Int
    BY <1>1, <1>2
  <2>5. r + D >= 0 /\ r - (l * B - M) >= 0
    BY <2>1, <2>2, <2>3, <2>4
  <2> QED
    BY <1>2, <2>4, <2>5
(* The part of M * r that grows with the upper limbs. *)
<1>10. (U - n1) * K + n1 * (B * E) + B * M <= D * D + M * E
  <2>1. CASE w >= 1
    <3>1. B * E - D \in Nat
      <4>1. (w - 1) * D \in Nat /\ (w - 1) * D = w * D - D
        BY <1>1, <1>2, <2>1
      <4>2. B * E \in Int
        BY <1>1, <1>2
      <4> QED
        BY <1>2, <1>3, <1>4, <4>1, <4>2
    <3>2. (U - n1) * (D - K) \in Nat /\ (U - n1) * (D - K) = (U - n1) * D - (U - n1) * K
      BY <1>1, <1>2, <1>3, <1>6
    <3>3. (D - 1 - U) * D \in Nat /\ (D - 1 - U) * D = (D - 1 - n1) * D - (U - n1) * D
      BY <1>1, <1>2
    <3>4. (U - n1) * K <= (D - 1 - n1) * D
      <4>1. (U - n1) * K \in Int /\ (U - n1) * D \in Int /\ (D - 1 - n1) * D \in Int
        BY <1>1, <1>2, <1>7
      <4> QED
        BY <3>2, <3>3, <4>1
    <3>5. (B - 1 - n1) * (B * E - D) \in Nat
      BY <1>1, <3>1
    <3>6. (D - 1 - n1) * D + n1 * (B * E) + (B - 1 - n1) * (B * E - D)
            = (D - 1) * D + (B - 1) * (B * E - D)
      BY <1>1, <1>2
    <3>7. (D - 1) * D + (B - 1) * (B * E - D) = D * D + M * E - B * M
      BY <1>1, <1>2
    <3>8. /\ (D - 1 - n1) * D \in Int /\ n1 * (B * E) \in Int /\ D * D \in Int /\ M * E \in Int
          /\ B * M \in Int /\ (U - n1) * K \in Int /\ (B - 1 - n1) * (B * E - D) \in Int
      BY <1>1, <1>2, <1>7
    <3> HIDE DEF M, E
    <3> QED
      BY <3>4, <3>5, <3>6, <3>7, <3>8
  <2>2. CASE w = 0
    <3>1. K = B * E /\ B * E \in Nat
      <4>1. w * D = 0 /\ B * E \in Nat
        BY <1>1, <1>2, <2>2
      <4> QED
        BY <1>3, <1>4, <4>1
    <3>2. (U - n1) * K + n1 * (B * E) = U * (B * E)
      <4>1. (U - n1) * K + n1 * (B * E) = (U - n1) * (B * E) + n1 * (B * E)
        BY <3>1
      <4> DEFINE z == B * E
      <4>2. z \in Int
        BY <3>1
      <4> HIDE DEF z
      <4>3. (U - n1) * z + n1 * z = U * z
        BY <1>1, <1>2, <4>2
      <4> QED
        BY <4>1, <4>3 DEF z
    <3>3. U * (B * E) <= (D - 1) * (B * E)
      <4> DEFINE z == B * E
      <4>1. z \in Nat
        BY <3>1
      <4> HIDE DEF z
      <4>2. (D - 1 - U) * z \in Nat /\ (D - 1 - U) * z = (D - 1) * z - U * z
        BY <1>2, <4>1
      <4>3. (D - 1) * z \in Int /\ U * z \in Int
        BY <1>2, <4>1
      <4>4. U * z <= (D - 1) * z
        BY <4>2, <4>3
      <4> QED
        BY <4>4 DEF z
    <3> DEFINE g == B - 1 - E
    <3>4. E \in Nat /\ (B + 1) * E <= M /\ D = M - E
      <4>1. (B + 1) * E = B * E + E
        BY <1>1, <1>2
      <4> QED
        BY <1>2, <1>3, <3>1, <4>1
    <3>5. g \in Nat
      <4> SUFFICES ASSUME E >= B PROVE FALSE
        BY <1>1, <1>2
      <4>1. (B + 1) * (E - B) \in Nat /\ (B + 1) * (E - B) = (B + 1) * E - M - B
        BY <1>1, <1>2
      <4>2. (B + 1) * E \in Int
        BY <1>1, <1>2
      <4> HIDE DEF M, E
      <4> QED
        BY <1>1, <1>2, <3>4, <4>1, <4>2
    <3>6. g * (B * M - (B + 1) * E) + E * (B - 1) \in Nat
      <4>1. B * M - (B + 1) * E \in Nat
        <5>1. (B - 1) * M \in Nat /\ (B - 1) * M = B * M - M
          BY <1>1, <1>2
        <5>2. B * M \in Int /\ (B + 1) * E \in Int
          BY <1>1, <1>2
        <5> HIDE DEF M, E
        <5> QED
          BY <1>2, <3>4, <5>1, <5>2
      <4> DEFINE z == B * M - (B + 1) * E
      <4>2. z \in Nat /\ E \in Nat /\ B - 1 \in Nat
        BY <1>1, <1>2, <4>1
      <4> HIDE DEF z, E, g
      <4>3. g * z + E * (B - 1) \in Nat
        BY <3>5, <4>2
      <4> QED
        BY <4>3 DEF z
    <3>7. D * D + M * E - B * M = (D - 1) * (B * E) + (g * (B * M - (B + 1) * E) + E * (B - 1))
      <4> HIDE DEF E
      <4>1. (M - E) * (M - E) + M * E - B * M
              = ((M - E) - 1) * (B * E) + ((B - 1 - E) * (B * M - (B + 1) * E) + E * (B - 1))
        BY <1>1, <1>2
      <4> QED
        BY <3>4, <4>1
    <3>8. /\ (D - 1) * (B * E) \in Int /\ D * D \in Int /\ M * E \in Int /\ B * M \in Int
          /\ U * (B * E) \in Int
      BY <1>1, <1>2
    <3> DEFINE x == g * (B * M - (B + 1) * E) + E * (B - 1)
    <3>9. x \in Nat /\ D * D + M * E - B * M = (D - 1) * (B * E) + x
      BY <3>6, <3>7
    <3> HIDE DEF x, E, M
    <3> QED
      BY <3>2, <3>3, <3>8, <3>9
  <2> QED
    BY <1>1, <2>1, <2>2
<1>11. r < E \/ r < l * B
  <2> DEFINE L == l * B
             c == IF L <= E THEN E ELSE L
  <2>0. L \in Nat
    BY <1>1
  <2>1. c \in Nat /\ L <= c /\ E <= c /\ (c = L \/ c = E) /\ c >= 1
    BY <1>2, <2>0
  <2>2. (l - B) * (D * B) = L * D - M * D
    BY <1>1, <1>2
  <2>3. n0 * M <= B * M - M
    <3>1. (B - 1 - n0) * M \in Nat /\ (B - 1 - n0) * M = B * M - M - n0 * M
      BY <1>1, <1>2
    <3>2. B * M \in Int
      BY <1>1, <1>2
    <3> HIDE DEF M
    <3> QED
      BY <1>2, <1>7, <3>1, <3>2
  <2> HIDE DEF c, L
  <2>4. E * E <= c * E /\ L * D <= c * D
    <3>1. (c - E) * E \in Nat /\ (c - L) * D \in Nat
      BY <1>2, <2>0, <2>1
    <3>2. (c - E) * E = c * E - E * E /\ (c - L) * D = c * D - L * D
      BY <1>2, <2>0, <2>1
    <3>3. c * E \in Int /\ E * E \in Int /\ c * D \in Int /\ L * D \in Int
      BY <1>2, <2>0, <2>1
    <3> HIDE DEF E
    <3> QED
      BY <3>1, <3>2, <3>3
  <2>5. c * E + c * D = M * c
    BY <1>2, <2>1
  <2>6. D * D + M * E - M * D = E * E
    BY <1>2
  <2>7. M * r < M * c
    <3>1. /\ D * D \in Int /\ M * E \in Int /\ M * D \in Int /\ E * E \in Int /\ c * E \in Int
          /\ c * D \in Int /\ L * D \in Int /\ M * c \in Int /\ B * M \in Int
      BY <1>1, <1>2, <2>0, <2>1
    <3> HIDE DEF M, E
    <3> QED
      BY <1>2, <1>5, <1>7, <1>10, <2>2, <2>3, <2>4, <2>5, <2>6, <3>1
  <2>8. r < c
    <3> SUFFICES ASSUME r >= c PROVE FALSE
      BY <2>1
    <3>1. M * (r - c) \in Nat /\ M * (r - c) = M * r - M * c
      BY <1>2, <2>1
    <3>2. M * c \in Int
      BY <1>2, <2>1
    <3> HIDE DEF M
    <3> QED
      BY <1>7, <2>7, <3>1, <3>2
  <2> HIDE DEF E
  <2> QED
    BY <2>1, <2>8 DEF L
<1> QED
  BY <1>9, <1>11

(* ll_div3by2_pi1 *)
LEMMA Div3by2Is ==
  ASSUME NEW D \in B * (B \div 2) .. B * B - 1, IsReciprocal(v, D, B * B),
         NEW n2 \in Limb, NEW n1 \in Limb, NEW n0 \in Limb, Wide(n2, n1) <= D - 1
  PROVE  LET e == Div3by2(n2, n1, n0, D)
         IN  /\ e.q \in Limb
             /\ e.r \in 0 .. D - 1
             /\ B * Wide(n2, n1) + n0 = e.q * D + e.r
<1> DEFINE U == Wide(n2, n1)
           M == B * B
           p == v * n2 + U
           h == Hi(p)
           l == Lo(p)
           r == B * U + n0 - (h + 1) * D
           dh == Hi(D)
           dl0 == Lo(D)
<1>1. /\ B \in Nat /\ B >= 2 /\ v \in Nat /\ v <= B - 1
      /\ n2 \in Nat /\ n1 \in Nat /\ n1 <= B - 1 /\ n0 \in Nat /\ n0 <= B - 1
  BY Base DEF IsReciprocal, Limb
<1>2. /\ M \in Nat \ {0} /\ D \in Nat \ {0} /\ D < M /\ M <= 2 * D
      /\ U = B * n2 + n1 /\ U \in Nat /\ U <= D - 1
  <2>1. B * (B \div 2) \in Nat /\ B * B = 2 * (B * (B \div 2)) /\ B * (B \div 2) >= 1
    <3> DEFINE H == B \div 2
    <3>1. H \in Nat \ {0} /\ B = 2 * H
      BY Base
    <3> HIDE DEF H
    <3>2. B * H \in Nat /\ B * B = 2 * (B * H)
      BY <1>1, <3>1
    <3>3. B * (H - 1) \in Nat /\ B * (H - 1) = B * H - B
      BY <1>1, <3>1
    <3>4. B * H >= 1
      BY <1>1, <3>2, <3>3
    <3> QED
      BY <3>2, <3>4 DEF H
  <2> QED
    BY <1>1, <2>1 DEF Wide
<1> HIDE DEF U
<1>3. p \in 0 .. B * B - 1
  <2>1. p \in Nat /\ B * p = (B + v) * U - v * n1
    <3>1. v * n2 \in Nat
      BY <1>1
    <3>2. B * (v * n2 + (B * n2 + n1)) = (B + v) * (B * n2 + n1) - v * n1
      BY <1>1
    <3> QED
      BY <1>2, <3>1, <3>2
  <2>2. (B + v) * (D - 1 - U) \in Nat /\ (B + v) * (D - 1 - U) = (B + v) * D - (B + v) - (B + v) * U
    BY <1>1, <1>2
  <2>3. (B + v) * D <= M * B - 1 /\ (B + v) * D \in Int /\ M * B \in Int
    BY <1>1, <1>2 DEF IsReciprocal
  <2>4. v * n1 \in Nat /\ (B + v) * U \in Int
    BY <1>1, <1>2
  <2> HIDE DEF p
  <2>5. p < M
    <3> SUFFICES ASSUME p >= M PROVE FALSE
      BY <1>2, <2>1
    <3>1. B * (p - M) \in Nat /\ B * (p - M) = B * p - M * B
      BY <1>1, <1>2, <2>1
    <3> HIDE DEF M
    <3> QED
      BY <1>1, <2>1, <2>2, <2>3, <2>4, <3>1
  <2> QED
    BY <1>2, <2>1, <2>5
<1>4. /\ h \in Limb /\ h \in Nat /\ h <= B - 1 /\ l \in 0 .. B - 1
      /\ p = B * h + l /\ Wrap2(p) = p /\ p \in Int
  BY <1>1, <1>3, TwoLimbs DEF Limb
<1>5. dh \in Nat /\ dl0 \in Nat /\ D = B * dh + dl0
  <2>1. D \in 0 .. B * B - 1
    BY <1>2
  <2> QED
    BY <1>1, <2>1, TwoLimbs DEF Limb
<1>6. v * n2 + U = B * h + l
  BY <1>4
<1> HIDE DEF p, h, l, dh, dl0
<1>7. r \in Int
  BY <1>1, <1>2, <1>4
<1>8. /\ r >= -D /\ r >= l * B - M
      /\ r < M - D \/ r < l * B
  <2>1. h \in Int /\ r = B * U + n0 - (h + 1) * D
    BY <1>4
  <2> HIDE DEF r
  <2> QED
    BY <1>2, <1>4, <1>6, <1>7, <2>1, EstimateBounds DEF U
<1>9. l * B \in 0 .. M - 1
  <2>1. l * B \in Nat
    BY <1>1, <1>4
  <2>2. (B - 1 - l) * B \in Nat /\ (B - 1 - l) * B = M - B - l * B
    BY <1>1, <1>4
  <2> HIDE DEF M
  <2> QED
    BY <1>1, <1>2, <2>1, <2>2
<1> DEFINE L     == l * B
           t1    == r % M
           over  == Over(r, M, L)
           t2    == Raised(r, D, M, L)
           under == Under(r, D, M, L)
           s     == h + 1 - over + under
           z     == t2 - under * D
<1>10. over \in {0, 1} /\ under \in {0, 1} /\ z \in 0 .. D - 1 /\ z = r + (over - under) * D
  <2> HIDE DEF M, r, L
  <2>1. M \in Nat /\ D \in Nat /\ L \in 0 .. M - 1 /\ r >= L - M /\ (r < M - D \/ r < L)
    BY <1>2, <1>8, <1>9 DEF L
  <2> QED
    BY <1>2, <1>7, <1>8, <2>1, Corrected
<1>11. Wrap2(Wide(Wrap(n1 - h * dh), n0) - dl0 * h - D) = t1
  <2> DEFINE x == n1 - h * dh   g == Wrap(x)  k == x \div B
             y == B * g + n0 - dl0 * h - D
  <2>1. g \in 0 .. B - 1 /\ k \in Int /\ x = B * k + g /\ x \in Int
    <3>1. B \in Nat \ {0} /\ x \in Int
      BY <1>1, <1>4, <1>5
    <3> QED
      BY <3>1, DivMod DEF Wrap
  <2> HIDE DEF g, k
  <2>2. y = r + M * (-n2 - k)
    <3>1. B * g = B * (n1 - h * dh) - B * (B * k)
      <4>1. B * (x - B * k) = B * x - B * (B * k)
        BY <1>1, <2>1
      <4>2. g = x - B * k
        <5>1. B * k \in Int
          BY <1>1, <2>1
        <5> HIDE DEF x
        <5> QED
          BY <2>1, <5>1
      <4> QED
        BY <4>1, <4>2
    <3>2. B * (n1 - h * dh) - B * (B * k) + n0 - dl0 * h - (B * dh + dl0)
            = B * (B * n2 + n1) + n0 - (h + 1) * (B * dh + dl0) + M * (-n2 - k)
      BY <1>1, <1>4, <1>5, <2>1
    <3>3. r = B * (B * n2 + n1) + n0 - (h + 1) * (B * dh + dl0)
      BY <1>2, <1>5
    <3>4. y = B * (n1 - h * dh) - B * (B * k) + n0 - dl0 * h - (B * dh + dl0)
      <4>1. B * (n1 - h * dh) \in Int /\ B * (B * k) \in Int /\ dl0 * h \in Int /\ B * dh \in Int
        BY <1>1, <1>4, <1>5, <2>1
      <4> QED
        BY <1>1, <1>5, <3>1, <4>1
    <3> QED
      BY <3>2, <3>3, <3>4
  <2>3. y \in Int /\ -n2 - k \in Int
    BY <1>1, <1>2, <1>4, <1>5, <2>1
  <2>4. y % M = r % M
    <3> HIDE DEF y, r, M
    <3> QED
      BY <1>2, <1>7, <2>2, <2>3, ModSame
  <2>5. Wide(g, n0) - dl0 * h - D = y
    <3>1. B * g \in Int /\ dl0 * h \in Int
      BY <1>1, <1>4, <1>5, <2>1
    <3> QED
      BY <1>1, <1>2, <3>1 DEF Wide
  <2> QED
    BY <2>4, <2>5 DEF Wrap2, g
<1>12. t1 \in 0 .. B * B - 1
  <2>1. r % M \in 0 .. M - 1
    <3> HIDE DEF r, M
    <3> QED
      BY <1>2, <1>7, DivMod
  <2> QED
    BY <2>1
<1>13. (Hi(t1) >= l) <=> (t1 >= L)
  <2> DEFINE th == Hi(t1)   tl == Lo(t1)
  <2>1. th \in Limb /\ tl \in Limb /\ t1 = B * th + tl
    <3> HIDE DEF t1
    <3> QED
      BY <1>12, TwoLimbs
  <2>2. th \in Nat /\ tl \in Nat /\ tl <= B - 1 /\ t1 = B * th + tl
    BY <1>1, <2>1 DEF Limb
  <2> HIDE DEF th, tl, t1
  <2>3. CASE th >= l
    <3>1. B * (th - l) \in Nat /\ B * (th - l) = B * th - l * B /\ B * th \in Int /\ l * B \in Int
      BY <1>1, <1>4, <2>2, <2>3
    <3> QED
      BY <2>2, <2>3, <3>1 DEF th
  <2>4. CASE th < l
    <3>1. l - 1 - th \in Nat
      BY <1>4, <2>2, <2>4
    <3>2. B * (l - 1 - th) \in Nat /\ B * (l - 1 - th) = l * B - B - B * th /\ B * th \in Int /\ l * B \in Int
      BY <1>1, <1>4, <2>2, <3>1
    <3> QED
      BY <1>1, <1>4, <2>2, <2>4, <3>2 DEF th
  <2> QED
    BY <1>4, <2>2, <2>3, <2>4
<1>14. Div3by2(n2, n1, n0, D) = [q |-> Wrap(h + 1 - over + under), r |-> z]
  <2>1. Hi(Wrap2(p)) = h /\ Lo(Wrap2(p)) = l
    BY <1>4 DEF h, l
  <2>2. over = Bit(Hi(t1) >= l) /\ under = Bit(t2 >= D)
    BY <1>13 DEF Over, Under, Bit
  <2>3. Wrap2(t1 + over * D) = t2
    BY DEF Wrap2, Raised
  <2> HIDE DEF t1, over, t2, under
  <2> QED
    BY <1>11, <2>1, <2>2, <2>3 DEF Div3by2, p, U, dh, dl0
<1> HIDE DEF L, t1, over, t2, under, z
<1>15. B * U + n0 = s * D + z /\ s \in Int
  <2>1. s \in Int
    BY <1>4, <1>10
  <2>2. s * D = (h + 1) * D - (over - under) * D
    BY <1>2, <1>4, <1>10
  <2>3. (h + 1) * D \in Int /\ (over - under) * D \in Int /\ B * U \in Int
    BY <1>1, <1>2, <1>4, <1>10
  <2> HIDE DEF s
  <2> QED
    BY <1>1, <1>10, <2>1, <2>2, <2>3
<1> HIDE DEF s
<1>16. s \in Limb
  <2>0. s * D \in Int /\ B * U \in Nat /\ B * D \in Int
    BY <1>1, <1>2, <1>15
  <2>1. s >= 0
    <3> SUFFICES ASSUME s <= -1 PROVE FALSE
      BY <1>15
    <3>1. D * (-1 - s) \in Nat /\ D * (-1 - s) = -D - s * D
      BY <1>2, <1>15
    <3> QED
      BY <1>1, <1>2, <1>10, <1>15, <2>0, <3>1
  <2>2. s <= B - 1
    <3> SUFFICES ASSUME s >= B PROVE FALSE
      BY <1>1, <1>15
    <3>1. D * (s - B) \in Nat /\ D * (s - B) = s * D - B * D
      BY <1>1, <1>2, <1>15
    <3>2. B * (D - 1 - U) \in Nat /\ B * (D - 1 - U) = B * D - B - B * U
      BY <1>1, <1>2
    <3> QED
      BY <1>1, <1>2, <1>10, <1>15, <2>0, <3>1, <3>2
  <2> QED
    BY <1>1, <1>15, <2>1, <2>2 DEF Limb
<1>17. Wrap(h + 1 - over + under) = s
  <2>1. s \in Int /\ h + 1 - over + under = s
    BY <1>15 DEF s
  <2> QED
    BY <1>16, <2>1, WrapNear
<1> QED
  BY <1>10, <1>14, <1>15, <1>16, <1>17 DEF U

(* ll_reciprocal2: the reciprocal of the upper limb is corrected twice,    *)
(* for d1 * v0 + d0 and then for the product with the lower limb.          *)
LEMMA Reciprocal2Is ==
  ASSUME NEW d1 \in B \div 2 .. B - 1, NEW d0 \in Limb
  PROVE  /\ Wide(d1, d0) \in B * (B \div 2) .. B * B - 1
         /\ IsReciprocal(Reciprocal2(d1, d0), Wide(d1, d0), B * B)
<1> DEFINE D == Wide(d1, d0)   M == B * B
           v0 == Reciprocal1(d1)
           K == M - (B + v0) * d1
           p0 == Wrap(d1 * v0 + d0)
           steps == IF p0 < d0 THEN 1 + Bit(p0 >= d1) ELSE 0
           v1 == v0 - steps
           p1 == Wrap(p0 - steps * d1)
           t  == v1 * d0
           p2 == Wrap(p1 + Hi(t))
           down == IF p2 < Hi(t) THEN 1 + Bit(Wide(p2, Lo(t)) >= D) ELSE 0
<1>1. /\ B \in Nat /\ B >= 2 /\ d1 \in Nat \ {0} /\ d1 <= B - 1 /\ B <= 2 * d1
      /\ d0 \in Nat /\ d0 <= B - 1
  BY Base DEF Limb
<1>2. v0 \in Nat /\ v0 <= B - 1 /\ K \in 1 .. d1
  <2>1. IsReciprocal(v0, d1, B)
    BY Reciprocal1Is
  <2> HIDE DEF v0
  <2> QED
    BY <1>1, <2>1 DEF IsReciprocal, Limb
<1> HIDE DEF v0
<1>3. /\ D \in B * (B \div 2) .. B * B - 1
      /\ D = B * d1 + d0 /\ M \in Nat \ {0} /\ D \in Nat \ {0} /\ D <= M - 1 /\ M <= 2 * D
  <2> DEFINE H == B \div 2
  <2>1. H \in Nat \ {0} /\ B = 2 * H /\ H <= d1
    BY Base
  <2> HIDE DEF H
  <2>2. B * (d1 - H) \in Nat /\ B * (d1 - H) = B * d1 - B * H
    BY <1>1, <2>1
  <2>3. B * (B - 1 - d1) \in Nat /\ B * (B - 1 - d1) = B * B - B - B * d1
    BY <1>1
  <2>4. B * B = 2 * (B * H) /\ B * B \in Nat \ {0} /\ B * H \in Nat /\ B * d1 \in Nat
    BY <1>1, <2>1
  <2>5. D = B * d1 + d0
    BY DEF Wide
  <2> HIDE DEF D
  <2>6. D \in B * H .. B * B - 1 /\ D \in Nat \ {0} /\ D <= M - 1 /\ M <= 2 * D
    BY <1>1, <2>2, <2>3, <2>4, <2>5
  <2> QED
    BY <2>4, <2>5, <2>6 DEF H
<1>4. (B + v0) * d1 = M - K
  <2>1. (B + v0) * d1 \in Int
    BY <1>1, <1>2
  <2> QED
    BY <1>3, <2>1
<1> HIDE DEF K, D
<1> DEFINE P == d0 - K
<1>5. p0 = IF P >= 0 THEN P ELSE P + B
  <2>1. d1 * v0 + d0 = P + B * (B - d1)
    <3>1. (B + v0) * d1 = B * d1 + d1 * v0 /\ B * (B - d1) = M - B * d1
      BY <1>1, <1>2
    <3>2. B * d1 \in Int /\ d1 * v0 \in Int /\ M \in Int
      BY <1>1, <1>2
    <3> HIDE DEF M
    <3> QED
      BY <1>1, <1>2, <1>4, <3>1, <3>2
  <2>2. d1 * v0 + d0 \in Int /\ P \in Int /\ B - d1 \in Int
    BY <1>1, <1>2
  <2>3. Wrap(d1 * v0 + d0) = Wrap(P)
    <3> DEFINE x == d1 * v0 + d0
    <3>1. x = P + B * (B - d1) /\ x \in Int
      BY <2>1, <2>2
    <3> HIDE DEF x, P
    <3>2. Wrap(x) = Wrap(P)
      BY <2>2, <3>1, WrapSame
    <3> QED
      BY <3>2 DEF x
  <2>4. P >= 0 => P \in Limb
    BY <1>1, <1>2 DEF Limb
  <2>5. P < 0 => P + B \in Limb
    BY <1>1, <1>2 DEF Limb
  <2>6. P >= 0 => Wrap(P) = P
    BY <2>2, <2>4, WrapNear
  <2>7. P < 0 => Wrap(P) = P + B
    BY <2>2, <2>5, WrapNear
  <2> HIDE DEF P
  <2> QED
    BY <2>2, <2>3, <2>6, <2>7
<1> HIDE DEF p0
<1> DEFINE P1 == P - steps * d1
           x1 == p0 - steps * d1
<1>6. steps \in 0 .. 2 /\ P1 \in -d1 .. -1 /\ (x1 = P1 \/ x1 = P1 + B)
  <2>1. CASE P < 0
    <3>1. p0 = P + B /\ ~(p0 < d0)
      BY <1>1, <1>2, <1>5, <2>1
    <3>2. steps = 0
      BY <3>1
    <3> HIDE DEF steps
    <3> QED
      BY <1>1, <1>2, <2>1, <3>1, <3>2
  <2>2. CASE P >= 0
    <3>1. p0 = P /\ p0 < d0
      BY <1>1, <1>2, <1>5, <2>2
    <3>2. steps = 1 + Bit(P >= d1)
      BY <3>1
    <3>3. CASE P >= d1
      <4>1. steps = 2
        BY <3>2, <3>3 DEF Bit
      <4> HIDE DEF steps
      <4> QED
        BY <1>1, <1>2, <2>2, <3>1, <3>3, <4>1
    <3>4. CASE P < d1
      <4>1. steps = 1
        BY <1>1, <1>2, <3>2, <3>4 DEF Bit
      <4> HIDE DEF steps
      <4> QED
        BY <1>1, <1>2, <2>2, <3>1, <3>4, <4>1
    <3> QED
      BY <1>1, <1>2, <3>3, <3>4
  <2> QED
    BY <1>1, <1>2, <2>1, <2>2
<1>7. v1 \in Int /\ (B + v1) * d1 = P1 + M - d0
  <2>1. v1 = v0 - steps /\ P1 = d0 - K - steps * d1 /\ v1 \in Int
    BY <1>2, <1>6
  <2> HIDE DEF steps, v1, P1, P
  <2>2. (B + v1) * d1 = (B + v0) * d1 - steps * d1
    BY <1>1, <1>2, <1>6, <2>1
  <2>3. steps * d1 \in Int /\ (B + v0) * d1 \in Int
    BY <1>1, <1>2, <1>6
  <2> HIDE DEF M
  <2> QED
    BY <1>1, <1>2, <1>3, <1>4, <1>6, <2>1, <2>2, <2>3
<1>8. p1 = P1 + B
  <2>1. P1 + B \in Limb /\ P1 \in Int /\ P1 + B \in Int
    BY <1>1, <1>6 DEF Limb
  <2> HIDE DEF P1, steps
  <2>2. Wrap(P1) = P1 + B /\ Wrap(P1 + B) = P1 + B
    BY <2>1, WrapNear
  <2> HIDE DEF x1
  <2>3. Wrap(x1) = P1 + B
    BY <1>6, <2>2
  <2> QED
    BY <2>3 DEF x1
<1> HIDE DEF P, P1, x1, p1
<1>9. v1 \in Nat /\ v1 <= B - 1
  <2>1. v1 <= B - 1
    BY <1>1, <1>2, <1>6
  <2>2. v1 >= 0
    <3> SUFFICES ASSUME v1 <= -1 PROVE FALSE
      BY <1>7
    <3> HIDE DEF v1
    <3>1. (-1 - v1) * d1 \in Nat /\ (-1 - v1) * d1 = B * d1 - d1 - (B + v1) * d1
      BY <1>1, <1>7
    <3>2. B * (B - 1 - d1) \in Nat /\ B * (B - 1 - d1) = M - B - B * d1
      BY <1>1
    <3>3. (B + v1) * d1 \in Int /\ B * d1 \in Int
      BY <1>1, <1>7
    <3> HIDE DEF M
    <3> QED
      BY <1>1, <1>3, <1>6, <1>7, <3>1, <3>2, <3>3
  <2> QED
    BY <1>7, <2>1, <2>2
<1> HIDE DEF v1, steps
<1>10. t \in Nat /\ Lo(t) \in 0 .. B - 1 /\ Hi(t) \in Nat /\ Hi(t) <= B - 1 /\ t = B * Hi(t) + Lo(t)
  <2>1. v1 \in Limb /\ d0 \in Limb
    BY <1>1, <1>9 DEF Limb
  <2>2. t \in Nat /\ t <= (B - 1) * (B - 1)
    BY <2>1, ProductRange
  <2>3. (B - 1) * (B - 1) = M - 2 * B + 1
    BY <1>1
  <2>4. t \in 0 .. B * B - 1
    <3> DEFINE z == (B - 1) * (B - 1)
    <3>1. t <= z /\ z = M - 2 * B + 1
      BY <2>2, <2>3
    <3> HIDE DEF z, t
    <3> QED
      BY <1>1, <1>3, <2>2, <3>1
  <2> HIDE DEF t
  <2>5. Hi(t) \in Limb /\ Lo(t) \in Limb /\ t = B * Hi(t) + Lo(t)
    BY <2>4, TwoLimbs
  <2> QED
    BY <1>1, <2>2, <2>5 DEF Limb
<1> DEFINE hi == Hi(t)   lo == Lo(t)
           E == (B + v1) * D - M * B
<1>11. E = B * P1 + t
  <2> DEFINE y == (B + v1) * d1
  <2>1. (B + v1) * D = B * y + B * d0 + v1 * d0
    BY <1>1, <1>3, <1>9
  <2> DEFINE x == (B + v1) * D   z == B * (P1 + M - d0) + B * d0 + v1 * d0   u == M * B
  <2>2. z - u = B * P1 + t /\ z \in Int /\ u \in Int
    BY <1>1, <1>3, <1>6, <1>9
  <2>3. y = P1 + M - d0
    BY <1>7
  <2> HIDE DEF t, M, y
  <2>4. x = z /\ E = x - u
    BY <2>1, <2>3
  <2> HIDE DEF x, z, u, E
  <2> QED
    BY <2>2, <2>4
<1>12. E = B * (P1 + hi) + lo /\ E \in Int
  <2>1. B * (P1 + hi) = B * P1 + B * hi /\ B * P1 \in Int /\ B * hi \in Int
    BY <1>1, <1>6, <1>10
  <2> HIDE DEF E, t
  <2> QED
    BY <1>10, <1>11, <2>1
<1>13. B * P1 >= -(B * d1) /\ B * d1 <= D
  <2>1. B * (P1 + d1) \in Nat /\ B * (P1 + d1) = B * P1 + B * d1
    BY <1>1, <1>6
  <2>2. B * P1 \in Int /\ B * d1 \in Int
    BY <1>1, <1>6
  <2> QED
    BY <1>1, <1>3, <2>1, <2>2
<1> HIDE DEF t, hi, lo
<1>14. hi \in Nat /\ hi <= B - 1 /\ lo \in 0 .. B - 1 /\ t \in Nat /\ t = B * hi + lo
  BY <1>10 DEF hi, lo
<1> DEFINE w == v1 - down
<1>15. down \in 0 .. 2 /\ w \in Int /\ E - (0 - down) * (0 - D) \in -D .. -1
  <2>1. CASE P1 + hi >= 0
    <3>1. p2 = P1 + hi
      <4>1. p1 + hi - B \in Limb /\ p1 + hi \in Int /\ p1 + hi - B = P1 + hi
        BY <1>1, <1>6, <1>8, <1>14, <2>1 DEF Limb
      <4> DEFINE x == p1 + hi
      <4>2. x - B \in Limb /\ x \in Int /\ x - B = P1 + hi
        BY <1>1, <1>6, <1>8, <1>14, <4>1
      <4> HIDE DEF x
      <4>3. Wrap(x) = P1 + hi
        BY <4>2, WrapNear
      <4> QED
        BY <4>3 DEF hi, x
    <3>2. p2 < hi
      BY <1>6, <1>14, <3>1
    <3>3. Wide(p2, lo) = E
      BY <1>12, <3>1 DEF Wide
    <3>4. down = 1 + Bit(E >= D)
      <4> HIDE DEF p2, E
      <4> QED
        BY <3>2, <3>3 DEF hi, lo
    <3>5. E >= 0
      <4>1. B * (P1 + hi) \in Nat
        BY <1>1, <1>6, <1>14, <2>1
      <4> HIDE DEF E
      <4> QED
        BY <1>12, <1>14, <4>1
    <3>6. E < M
      <4>1. B * (B - 1 - (P1 + hi)) \in Nat /\ B * (B - 1 - (P1 + hi)) = M - B - B * (P1 + hi)
        BY <1>1, <1>6, <1>14, <2>1
      <4>2. B * (P1 + hi) \in Int
        BY <1>1, <1>6, <1>14
      <4> HIDE DEF E, M
      <4> QED
        BY <1>1, <1>3, <1>12, <1>14, <4>1, <4>2
    <3> HIDE DEF E, M, p2, down
    <3> QED
      BY <1>3, <1>9, <1>12, <3>4, <3>5, <3>6 DEF Bit
  <2>2. CASE P1 + hi < 0
    <3>1. p2 = P1 + hi + B
      <4>1. P1 + hi + B \in Limb /\ p1 + hi \in Int /\ p1 + hi = P1 + hi + B
        BY <1>1, <1>6, <1>8, <1>14, <2>2 DEF Limb
      <4>2. Wrap(p1 + hi) = P1 + hi + B
        BY <4>1, WrapNear
      <4> QED
        BY <4>2 DEF hi
    <3>2. ~(p2 < hi)
      BY <1>1, <1>6, <1>14, <3>1
    <3>3. down = 0
      <4> HIDE DEF p2
      <4> QED
        BY <3>2 DEF hi
    <3>4. E < 0
      <4>1. B * (-1 - (P1 + hi)) \in Nat /\ B * (-1 - (P1 + hi)) = -B - B * (P1 + hi)
        BY <1>1, <1>6, <1>14, <2>2
      <4>2. B * (P1 + hi) \in Int
        BY <1>1, <1>6, <1>14
      <4> HIDE DEF E
      <4> QED
        BY <1>1, <1>12, <1>14, <4>1, <4>2
    <3>5. E >= -D
      <4>1. B * P1 \in Int /\ B * d1 \in Int
        BY <1>1, <1>6
      <4> HIDE DEF E
      <4> QED
        BY <1>3, <1>11, <1>12, <1>13, <1>14, <4>1
    <3> HIDE DEF E, M, p2, down
    <3> QED
      BY <1>3, <1>9, <1>12, <3>3, <3>4, <3>5
  <2> QED
    BY <1>6, <1>14, <2>1, <2>2
<1> HIDE DEF down
<1>15a. E = (B + v1) * D - M * B
  OBVIOUS
<1> HIDE DEF E
<1>16. M * B - (B + w) * D \in 1 .. D /\ (B + w) * D \in Int
  <2>1. (B + w) * D = (B + v1) * D - down * D
    BY <1>1, <1>3, <1>9, <1>15
  <2>2. (0 - down) * (0 - D) = down * D
    BY <1>3, <1>15
  <2>3. (B + v1) * D \in Int /\ down * D \in Int /\ M * B \in Int
    BY <1>1, <1>3, <1>9, <1>15
  <2> DEFINE a == (B + v1) * D   b == down * D   c == M * B   e == (B + w) * D
  <2>4. e = a - b /\ E - b \in -D .. -1 /\ E = a - c /\ a \in Int /\ b \in Int /\ c \in Int
    BY <1>15, <1>15a, <2>1, <2>2, <2>3
  <2> HIDE DEF a, b, c, e
  <2>5. c - e \in 1 .. D /\ e \in Int
    BY <1>3, <2>4
  <2> QED
    BY <2>5 DEF c, e
<1>17. w \in Limb
  <2>1. w <= B - 1
    BY <1>1, <1>9, <1>15
  <2>2. w >= 0
    <3> SUFFICES ASSUME w <= -1 PROVE FALSE
      BY <1>15
    <3> HIDE DEF w
    <3>1. (-1 - w) * D \in Nat /\ (-1 - w) * D = B * D - D - (B + w) * D
      BY <1>1, <1>3, <1>15
    <3>2. B * (M - 1 - D) \in Nat /\ B * (M - 1 - D) = M * B - B - B * D
      BY <1>1, <1>3
    <3>3. B * D \in Int /\ M * B \in Int
      BY <1>1, <1>3
    <3> HIDE DEF M
    <3> QED
      BY <1>1, <1>3, <1>16, <3>1, <3>2, <3>3
  <2> QED
    BY <1>1, <1>15, <2>1, <2>2 DEF Limb
<1>18. Reciprocal2(d1, d0) = w
  BY DEF Reciprocal2, w, down, v0, p0, steps, v1, p1, t, p2, D, hi, lo
<1>19. IsReciprocal(w, D, B * B)
  <2> HIDE DEF w
  <2> QED
    BY <1>16, <1>17 DEF IsReciprocal
<1> QED
  BY <1>3, <1>18, <1>19 DEF D

------------------------------------------------------------------------------
(* A remainder of two limbs, written to two or three limbs. *)
LEMMA LimbsOfIs ==
  ASSUME MaxN >= 1, NEW z \in 0 .. B * B - 1, NEW l \in {2, 3}
  PROVE  LET y == LimbsOf(z, l)
         IN  /\ DOMAIN y = 0 .. l - 1 /\ Holds(y, l)
             /\ y[0] = Lo(z) /\ y[1] = Hi(z) /\ (l = 3 => y[2] = 0)
             /\ Val(y, l) = z
<1> DEFINE y == LimbsOf(z, l)
<1>1. B \in Nat \ {0} /\ B * B \in Nat \ {0} /\ z \in Int /\ MaxN \in Nat
  BY Base, DivisionAssumption
<1>2. B^0 = 1 /\ B^1 = B /\ B^2 = B * B
  <2>1. 0 \in 0 .. MaxN + 1 /\ 1 \in 0 .. MaxN + 1 /\ 2 \in 0 .. MaxN + 1
    BY <1>1
  <2>2. B^0 = Power(0) /\ B^1 = Power(1) /\ B^2 = Power(2)
    BY <2>1, PowersAre
  <2> QED
    BY <2>2, FewLimbs, PowerStep
<1>3. Hi(z) \in Limb /\ Lo(z) \in Limb /\ z = B * Hi(z) + Lo(z)
  BY TwoLimbs
<1>4. z \div (B * B) = 0
  <2> DEFINE M == B * B
  <2>1. M \in Nat \ {0} /\ z \in 0 .. M - 1 /\ 0 \in Int /\ z = M * 0 + z
    BY <1>1
  <2> HIDE DEF M
  <2>2. z \div M = 0
    BY <1>1, <2>1, DivModIs
  <2> QED
    BY <2>2 DEF M
<1>5. /\ (z \div B^0) % B = Lo(z)
      /\ (z \div B^1) % B = Hi(z)
      /\ (z \div B^2) % B = 0
  <2>1. z \div 1 = z /\ 0 % B = 0
    BY <1>1
  <2>2. Hi(z) % B = Hi(z)
    <3> DEFINE h == Hi(z)
    <3>1. h \in 0 .. B - 1 /\ h \in Int /\ h = B * 0 + h /\ 0 \in Int
      BY <1>1, <1>3 DEF Limb
    <3> HIDE DEF h
    <3>2. h % B = h
      BY <1>1, <3>1, DivModIs
    <3> QED
      BY <3>2 DEF h
  <2> QED
    BY <1>2, <1>4, <2>1, <2>2 DEF Lo, Hi
<1>6. DOMAIN y = 0 .. l - 1 /\ \A j \in 0 .. l - 1 : y[j] = (z \div B^j) % B
  BY DEF LimbsOf
<1>7. y[0] = Lo(z) /\ y[1] = Hi(z) /\ (l = 3 => y[2] = 0)
  <2> HIDE DEF y
  <2> QED
    BY <1>5, <1>6
<1>8. 0 \in Limb
  BY <1>1 DEF Limb
<1> HIDE DEF y
<1>9. Holds(y, l)
  <2>1. \A j \in 0 .. l - 1 : j = 0 \/ j = 1 \/ (l = 3 /\ j = 2)
    OBVIOUS
  <2> QED
    BY <1>3, <1>7, <1>8, <2>1 DEF Holds
<1>10. Val(y, l) = z
  <2>1. Lo(z) \in Nat /\ Hi(z) \in Nat /\ B * Hi(z) \in Nat
    BY <1>1, <1>3 DEF Limb
  <2>2. l = 2 => Val(y, l) = y[0] + B * y[1]
    BY <1>9, FewLimbs
  <2>3. l = 3 => Val(y, l) = y[0] + B * y[1] + (B * B) * y[2]
    BY <1>9, FewLimbs
  <2>4. (B * B) * 0 = 0
    BY <1>1
  <2> QED
    BY <1>1, <1>3, <1>7, <2>1, <2>2, <2>3, <2>4
<1> QED
  BY <1>6, <1>7, <1>9, <1>10 DEF y

------------------------------------------------------------------------------
(* The shift that normalises, the divisor and the numerator after it, and  *)
(* the divisor, of one limb or of two, that the reciprocal is of.          *)
Shift == LeadingZeros(div[dl - 1])
ShiftedDivisor == Val(d, dl)
ShiftedNumerator == Val(num, MaxN) * 2^Shift
Top2 == Wide(d[dl - 1], d[dl - 2])

(***************************************************************************)
(* The inductive invariant.  It says for every action what the properties  *)
(* say for their program points only, and adds what they rest on: how the  *)
(* arrays relate to the caller's numbers after the shift, that the divisor *)
(* is normalised, and that v is the reciprocal of its top.                 *)
(***************************************************************************)
Called ==
  /\ pc \in {"idle", "check", "top", "digit", "done"}
  /\ num \in Arrays(MaxN) /\ div \in Arrays(MaxD)
  /\ pc # "idle" => div # Zeros(MaxD)

Normalised ==
  pc \in {"top", "digit"} =>
    /\ nl >= dl
    /\ n \in [0 .. nl + 1 -> Limb] /\ d \in [0 .. dl + 1 -> Limb] /\ q \in [0 .. nl -> Limb]
    /\ d[dl - 1] >= B \div 2
    /\ ShiftedDivisor = 2^Shift * Val(div, MaxD)
    /\ tnl \in nl .. nl + 1 /\ i \in 0 .. tnl - dl
    /\ dl = 1 => IsReciprocal(v, d[0], B)
    /\ dl >= 2 => IsReciprocal(v, Top2, B * B)

Untouched ==
  pc = "top" =>
    /\ i = tnl - dl
    /\ Val(n, nl + 1) = ShiftedNumerator
    /\ tnl = nl => n[nl] = 0

Partial ==
  pc = "digit" =>
    LET count == tnl - dl - i + 1
    IN  /\ Val(n, nl + 1) + Power(i) * (Val(From(q, i, count), count) * ShiftedDivisor)
             = ShiftedNumerator
        /\ Val(n, nl + 1) < Power(i) * ShiftedDivisor

DivisionInv == Called /\ Normalised /\ Untouched /\ Partial /\ DivisionIsExact

(* The lengths without leading zero limbs, and that they lose nothing. *)
LEMMA Lengths ==
  ASSUME Called
  PROVE  /\ nl \in 0 .. MaxN /\ dl \in 0 .. MaxD /\ MaxN \in Nat /\ MaxD \in Nat
         /\ Holds(num, MaxN) /\ Holds(div, MaxD) /\ Holds(num, nl) /\ Holds(div, dl)
         /\ Val(num, MaxN) = Val(num, nl) /\ Val(div, MaxD) = Val(div, dl)
         /\ nl > 0 => num[nl - 1] \in Limb \ {0}
         /\ dl > 0 => div[dl - 1] \in Limb \ {0}
         /\ pc # "idle" => dl >= 1
<1>1. MaxN \in Nat /\ MaxD \in Nat /\ Holds(num, MaxN) /\ Holds(div, MaxD)
  BY DivisionAssumption DEF Called, Arrays, Holds
<1>2. /\ nl \in 0 .. MaxN /\ Holds(num, nl) /\ Val(num, MaxN) = Val(num, nl)
      /\ nl > 0 => num[nl - 1] \in Limb \ {0}
  BY <1>1, NumLimbsIs DEF nl
<1>3. /\ dl \in 0 .. MaxD /\ Holds(div, dl) /\ Val(div, MaxD) = Val(div, dl)
      /\ dl > 0 => div[dl - 1] \in Limb \ {0}
      /\ \A j \in dl .. MaxD - 1 : div[j] = 0
  BY <1>1, NumLimbsIs DEF dl
<1>4. ASSUME pc # "idle", dl = 0 PROVE FALSE
  <2>1. \A j \in 0 .. MaxD - 1 : div[j] = 0
    BY <1>3, <1>4
  <2>2. div = Zeros(MaxD)
    BY <2>1 DEF Called, Arrays, Zeros
  <2> QED
    BY <1>4, <2>2 DEF Called
<1> QED
  BY <1>1, <1>2, <1>3, <1>4

(* The shifted divisor, between half the power dl of the base and all of it. *)
LEMMA DivisorIs ==
  ASSUME Called, Normalised, pc \in {"top", "digit"}
  PROVE  /\ nl \in Nat /\ dl \in Nat /\ dl >= 1 /\ dl <= nl /\ nl <= MaxN /\ MaxN \in Nat
         /\ Holds(d, dl) /\ Holds(n, nl + 1) /\ Holds(q, nl + 1)
         /\ 0 .. nl \subseteq DOMAIN n
         /\ d[dl - 1] \in B \div 2 .. B - 1
         /\ ShiftedDivisor \in Nat \ {0} /\ ShiftedDivisor < Power(dl)
         /\ Power(dl) <= 2 * ShiftedDivisor
         /\ dl >= 2 => d[dl - 2] \in Limb
<1>1. /\ nl \in Nat /\ dl \in Nat /\ dl >= 1 /\ dl <= nl /\ nl <= MaxN /\ MaxN \in Nat
  BY Lengths DEF Normalised
<1>2. Holds(d, dl) /\ Holds(n, nl + 1) /\ Holds(q, nl + 1) /\ 0 .. nl \subseteq DOMAIN n
  BY <1>1 DEF Normalised, Holds
<1> DEFINE p == Power(dl - 1)   t == d[dl - 1]   D == ShiftedDivisor   H == B \div 2
<1>3. H \in Nat \ {0} /\ B = 2 * H /\ t \in H .. B - 1 /\ t \in Nat /\ t >= H
  <2>1. t \in Limb /\ t >= B \div 2
    BY <1>1, <1>2 DEF Normalised, Holds
  <2> QED
    BY <2>1, Base DEF Limb
<1>4. dl - 1 \in Nat /\ (dl - 1) + 1 = dl /\ Holds(d, dl - 1)
  BY <1>1, <1>2 DEF Holds
<1>5. D = Val(d, dl - 1) + p * t /\ Power(dl) = B * p /\ p \in Nat \ {0} /\ Val(d, dl - 1) \in Nat
  <2>1. Val(d, (dl - 1) + 1) = Val(d, dl - 1) + p * t
    BY <1>2, <1>4, ValStep
  <2>2. Power((dl - 1) + 1) = B * p /\ p \in Nat \ {0}
    BY <1>4, PowerStep
  <2>3. Val(d, dl - 1) \in Nat
    BY <1>4, ValRange
  <2> QED
    BY <1>4, <2>1, <2>2, <2>3 DEF ShiftedDivisor
<1>6. D \in Nat /\ D < Power(dl)
  BY <1>1, <1>2, ValRange DEF ShiftedDivisor
<1> HIDE DEF p, t, D, H
<1>7. Power(dl) <= 2 * D
  <2>1. p * (t - H) \in Nat /\ p * (t - H) = p * t - p * H /\ (2 * H) * p = 2 * (p * H)
    BY <1>3, <1>5
  <2>2. p * t \in Int /\ p * H \in Int
    BY <1>3, <1>5
  <2> QED
    BY <1>3, <1>5, <1>6, <2>1, <2>2
<1>8. Power(dl) \in Nat \ {0}
  BY <1>1, PowerStep
<1>9. D \in Nat \ {0}
  BY <1>6, <1>7, <1>8
<1>10. dl >= 2 => d[dl - 2] \in Limb
  BY <1>1, <1>2 DEF Holds
<1> QED
  BY <1>1, <1>2, <1>3, <1>6, <1>7, <1>9, <1>10 DEF D, H, t

(* The dl + 1 limbs that the next digit is computed from. *)
Window == From(n, i - 1, dl + 1)
WindowVal == Val(Window, dl + 1)

(* They are all that matters, and the digit fits a limb. *)
LEMMA WindowIs ==
  ASSUME Called, Normalised, Partial, pc = "digit", i > 0
  PROVE  /\ i \in Nat /\ i + dl <= nl + 1
         /\ Window \in Arrays(dl + 1) /\ Holds(Window, dl + 1)
         /\ WindowVal \in Nat /\ WindowVal < B * ShiftedDivisor
         /\ Val(n, i - 1) \in Nat /\ Val(n, i - 1) < Power(i - 1)
         /\ Power(i) = B * Power(i - 1) /\ Power(i - 1) \in Nat \ {0}
         /\ Val(n, nl + 1) = Val(n, i - 1) + Power(i - 1) * WindowVal
         /\ \A y : Holds(y, dl + 1) /\ DOMAIN y = 0 .. dl =>
              /\ Holds(Into(n, i - 1, y), nl + 1)
              /\ Val(Into(n, i - 1, y), nl + 1) = Val(n, i - 1) + Power(i - 1) * Val(y, dl + 1)
<1>1. /\ nl \in Nat /\ dl \in Nat /\ dl >= 1 /\ Holds(n, nl + 1) /\ 0 .. nl \subseteq DOMAIN n
      /\ ShiftedDivisor \in Nat \ {0} /\ ShiftedDivisor < Power(dl)
  BY DivisorIs
<1>2. i \in Nat /\ i + dl <= nl + 1 /\ i >= 1
  <2>1. tnl \in nl .. nl + 1 /\ i \in 0 .. tnl - dl
    BY DEF Normalised
  <2> QED
    BY <1>1, <2>1
<1> DEFINE m == i - 1   l == dl + 1   k == nl + 1 - i - dl   D == ShiftedDivisor
           p == Power(m)   rest == Val(n, nl + 1)
<1>3. m \in Nat /\ l \in Nat /\ k \in Nat /\ m + l + k = nl + 1 /\ m + l = i + dl /\ m + 1 = i
      /\ (i + dl) + k = nl + 1 /\ i + dl \in Nat
  BY <1>1, <1>2
<1>4. Window \in Arrays(l) /\ Holds(Window, l)
  <2>1. \A j \in 0 .. l - 1 : n[m + j] \in Limb
    BY <1>1, <1>3 DEF Holds
  <2> QED
    BY <1>3, <2>1 DEF Window, From, Arrays, Holds
<1>5. Power(i) = B * p /\ p \in Nat \ {0} /\ Power(i + dl) = Power(i) * Power(dl)
  <2>1. Power(m + 1) = B * Power(m) /\ Power(m) \in Nat \ {0}
    BY <1>3, PowerStep
  <2>2. Power(i + dl) = Power(i) * Power(dl)
    BY <1>1, <1>2, PowerSum
  <2> QED
    BY <1>3, <2>1, <2>2
<1>6. rest < Power(i) * D
  BY DEF Partial
<1>7. rest < Power(i + dl)
  <2>1. Power(i) \in Nat \ {0} /\ Power(dl) \in Nat /\ rest \in Nat
    BY <1>1, <1>2, PowerStep, ValRange
  <2>2. Power(i) * (Power(dl) - D) \in Nat
    BY <1>1, <2>1
  <2>3. Power(i) * (Power(dl) - D) = Power(i) * Power(dl) - Power(i) * D
    BY <1>1, <2>1
  <2>4. Power(i) * Power(dl) \in Int /\ Power(i) * D \in Int
    BY <1>1, <2>1
  <2> HIDE DEF D, rest
  <2> QED
    BY <1>5, <1>6, <2>1, <2>2, <2>3, <2>4
<1>8. Val(From(n, i + dl, k), k) = 0
  <2>1. Holds(n, (i + dl) + k) /\ Val(n, (i + dl) + k) < Power(i + dl)
    BY <1>1, <1>3, <1>7
  <2> HIDE DEF k
  <2> QED
    BY <1>3, <2>1, UpperZero
<1>9. ASSUME NEW y, Holds(y, l), DOMAIN y = 0 .. dl
      PROVE  /\ Holds(Into(n, m, y), nl + 1)
             /\ Val(Into(n, m, y), nl + 1) = Val(n, m) + p * Val(y, l)
             /\ rest = Val(n, m) + p * Val(From(n, m, l), l)
  <2>1. Fits(y, n, m, l, k) /\ m \in Nat /\ l \in Nat /\ k \in Nat
    BY <1>1, <1>3, <1>9 DEF Fits
  <2>2. Val(y, l) \in Nat /\ Val(From(n, m, l), l) \in Nat /\ Power(l) \in Nat
    <3>1. Holds(From(n, m, l), l) /\ Holds(y, l)
      BY <1>4, <1>9 DEF Window
    <3> HIDE DEF m, l
    <3> QED
      BY <1>3, <3>1, ValRange, PowerStep
  <2> HIDE DEF m, l, k
  <2>3. /\ Holds(Into(n, m, y), m + l + k)
        /\ Val(Into(n, m, y), m + l + k)
             = Val(n, m) + Power(m) * (Val(y, l) + Power(l) * Val(From(n, m + l, k), k))
        /\ Val(n, m + l + k)
             = Val(n, m) + Power(m) * (Val(From(n, m, l), l) + Power(l) * Val(From(n, m + l, k), k))
    BY <1>9, <2>1, IntoIs
  <2>4. Val(From(n, m + l, k), k) = 0
    BY <1>3, <1>8
  <2>5. Val(y, l) + Power(l) * 0 = Val(y, l) /\ Val(From(n, m, l), l) + Power(l) * 0 = Val(From(n, m, l), l)
    BY <2>2
  <2> QED
    BY <1>3, <2>3, <2>4, <2>5
<1>10. rest = Val(n, m) + p * WindowVal
  <2>1. DOMAIN Window = 0 .. dl
    BY <1>1 DEF Window, From
  <2> QED
    BY <1>4, <1>9, <2>1 DEF WindowVal, Window
<1>11. Val(n, m) \in Nat /\ Val(n, m) < p /\ WindowVal \in Nat
  <2>1. Holds(n, m)
    BY <1>1, <1>3 DEF Holds
  <2> QED
    BY <1>3, <1>4, <2>1, ValRange DEF WindowVal
<1>12. WindowVal < B * D
  <2> SUFFICES ASSUME WindowVal >= B * D PROVE FALSE
    BY <1>1, <1>11, Base
  <2>1. B * D \in Nat
    BY <1>1, Base
  <2> DEFINE w == WindowVal  a == B * D
  <2>2. w - a \in Nat /\ p \in Nat /\ a \in Nat /\ w \in Nat
    BY <1>5, <1>11, <2>1
  <2>3. (B * p) * D = p * (B * D)
    BY <1>1, <1>5, Base
  <2> HIDE DEF a, w, p, D, rest
  <2>4. p * (w - a) \in Nat /\ p * (w - a) = p * w - p * a /\ p * w \in Int /\ p * a \in Int
    BY <2>2
  <2>5. rest < p * a
    BY <1>5, <1>6, <2>3 DEF a
  <2> QED
    BY <1>10, <1>11, <2>4, <2>5 DEF w
<1> QED
  BY <1>2, <1>4, <1>5, <1>9, <1>10, <1>11, <1>12

(* e is the next digit of the quotient, and y is what it leaves of the     *)
(* limbs that it was computed from.                                        *)
IsDigit(e, y) ==
  /\ e \in Limb
  /\ DOMAIN y = 0 .. dl /\ Holds(y, dl + 1)
  /\ Val(y, dl + 1) \in 0 .. ShiftedDivisor - 1
  /\ WindowVal = e * ShiftedDivisor + Val(y, dl + 1)

(* What depends on the operands and the shifted divisor stays as it is. *)
LEMMA SameOperands ==
  ASSUME UNCHANGED <<num, div, d>>
  PROVE  /\ nl' = nl /\ dl' = dl /\ Shift' = Shift /\ Top2' = Top2
         /\ ShiftedDivisor' = ShiftedDivisor /\ ShiftedNumerator' = ShiftedNumerator
<1>1. nl' = nl /\ dl' = dl
  BY DEF nl, dl
<1>2. Shift' = Shift
  BY <1>1 DEF Shift
<1> QED
  BY <1>1, <1>2 DEF ShiftedDivisor, ShiftedNumerator, Top2

(* The next digit, stored with what it leaves, keeps the invariant. *)
LEMMA StoreKeeps ==
  ASSUME DivisionInv, pc = "digit", i > 0, NEW e, NEW y, IsDigit(e, y), Store(e, y)
  PROVE  DivisionInv'
<1> USE DEF DivisionInv
<1>1. /\ nl \in Nat /\ dl \in Nat /\ dl >= 1 /\ dl <= nl
      /\ ShiftedDivisor \in Nat \ {0} /\ Holds(q, nl + 1)
  BY DivisorIs
<1>2. /\ nl' = nl /\ dl' = dl /\ Shift' = Shift /\ Top2' = Top2
      /\ ShiftedDivisor' = ShiftedDivisor /\ ShiftedNumerator' = ShiftedNumerator
  BY SameOperands DEF Store
<1>3. /\ pc' = "digit" /\ num' = num /\ div' = div /\ d' = d /\ tnl' = tnl /\ v' = v
      /\ q' = [q EXCEPT ![i - 1] = e] /\ n' = Into(n, i - 1, y) /\ i' = i - 1
  BY DEF Store
<1>4. /\ e \in Limb /\ DOMAIN y = 0 .. dl /\ Holds(y, dl + 1)
      /\ Val(y, dl + 1) \in 0 .. ShiftedDivisor - 1
      /\ WindowVal = e * ShiftedDivisor + Val(y, dl + 1)
  BY DEF IsDigit
<1>5. /\ i \in Nat /\ i >= 1 /\ i \in 0 .. tnl - dl /\ tnl \in nl .. nl + 1 /\ tnl \in Nat
      /\ q \in [0 .. nl -> Limb] /\ n \in [0 .. nl + 1 -> Limb]
  BY <1>1 DEF Normalised
<1>6. Called'
  BY <1>3 DEF Called
<1>7. Normalised'
  <2>1. i - 1 \in 0 .. nl
    BY <1>1, <1>5
  <2>2. q' \in [0 .. nl -> Limb]
    BY <1>3, <1>4, <1>5, <2>1
  <2>3. n' \in [0 .. nl + 1 -> Limb]
    <3>1. \A j \in DOMAIN n : (IF j - (i - 1) \in DOMAIN y THEN y[j - (i - 1)] ELSE n[j]) \in Limb
      BY <1>1, <1>4, <1>5 DEF Holds
    <3> QED
      BY <1>3, <1>5, <3>1 DEF Into
  <2>4. i' \in 0 .. tnl' - dl'
    BY <1>1, <1>2, <1>3, <1>5
  <2> QED
    BY <1>2, <1>3, <2>2, <2>3, <2>4 DEF Normalised
<1>8. Partial'
  <2> DEFINE m == i - 1   p == Power(m)   D == ShiftedDivisor   r == Val(y, dl + 1)
             low == Val(n, m)   w == WindowVal
             count == tnl - dl - i + 1
             Q == Val(From(q, i, count), count)
             z == From(q', m, 1 + count)
             N == ShiftedNumerator
  <2>1. /\ low \in Nat /\ low < p /\ Power(i) = B * p /\ p \in Nat \ {0} /\ w \in Nat
        /\ Val(n, nl + 1) = low + p * w
        /\ Val(n', nl + 1) = low + p * r
    BY <1>3, <1>4, WindowIs
  <2>2. count \in Nat /\ m \in Nat /\ tnl' - dl' - i' + 1 = 1 + count /\ i' = m /\ 1 \in Nat
        /\ i + count <= nl + 1
    BY <1>1, <1>2, <1>3, <1>5
  <2>3. Holds(z, 1 + count) /\ z[0] = e /\ \A j \in 0 .. count - 1 : z[1 + j] = q[i + j]
    <3>1. \A j \in 0 .. count : z[j] = q'[m + j] /\ m + j \in 0 .. nl
      <4> SUFFICES ASSUME NEW j \in 0 .. count PROVE z[j] = q'[m + j] /\ m + j \in 0 .. nl
        OBVIOUS
      <4>1. j \in 0 .. (1 + count) - 1
        BY <2>2
      <4>2. m + j \in 0 .. nl
        BY <1>1, <1>5, <2>2
      <4> HIDE DEF m, count
      <4> QED
        BY <4>1, <4>2 DEF From
    <3>2. \A j \in 0 .. nl : q'[j] = IF j = m THEN e ELSE q[j]
      BY <1>3, <1>5
    <3> HIDE DEF z
    <3>3. \A j \in 0 .. count : z[j] = IF j = 0 THEN e ELSE q[m + j]
      BY <2>2, <3>1, <3>2
    <3>4. \A j \in 0 .. (1 + count) - 1 : z[j] \in Limb
      BY <1>4, <1>5, <2>2, <3>1, <3>3
    <3>5. \A j \in 0 .. count - 1 : z[1 + j] = q[i + j]
      <4> SUFFICES ASSUME NEW j \in 0 .. count - 1 PROVE z[1 + j] = q[i + j]
        OBVIOUS
      <4>1. 1 + j \in 0 .. count /\ 1 + j # 0 /\ m + (1 + j) = i + j
        BY <1>5, <2>2
      <4> HIDE DEF m, count
      <4> QED
        BY <3>3, <4>1
    <3>6. z[0] = e
      BY <2>2, <3>3
    <3> QED
      BY <3>4, <3>5, <3>6 DEF Holds
  <2>4. Val(z, 1 + count) = e + B * Q
    <3>1. From(z, 1, count) = From(q, i, count)
      <4> HIDE DEF z, count
      <4> QED
        BY <2>3 DEF From
    <3>2. Holds(z, 1)
      <4> HIDE DEF z, count
      <4> QED
        BY <2>2, <2>3 DEF Holds
    <3> HIDE DEF z
    <3>3. Val(z, 1) = e
      BY <2>3, <3>2, FewLimbs
    <3>4. Val(z, 1 + count) = Val(z, 1) + Power(1) * Val(From(z, 1, count), count)
      <4> HIDE DEF count
      <4> QED
        BY <2>2, <2>3, ValSplit
    <3> QED
      BY <3>1, <3>3, <3>4, FewLimbs
  <2>5. Q \in Nat /\ e \in Nat /\ B \in Nat /\ r \in Nat /\ r <= D - 1
    <3>1. Holds(From(q, i, count), count)
      BY <1>1, <1>5, <2>2 DEF From, Holds
    <3>2. Q \in Nat
      <4> HIDE DEF count
      <4> QED
        BY <2>2, <3>1, ValRange
    <3> HIDE DEF Q
    <3> QED
      BY <1>1, <1>4, <3>2, Base DEF Limb
  <2>6. Val(n, nl + 1) + Power(i) * (Q * D) = N
    BY DEF Partial
  <2>7. w = e * D + r
    BY <1>4
  <2> HIDE DEF low, p, D, r, w, Q, N
  <2>8. (low + p * r) + p * ((e + B * Q) * D) = N
    <3>1. low + p * (e * D + r) + (B * p) * (Q * D) = N
      BY <2>1, <2>6, <2>7
    <3>2. low + p * (e * D + r) + (B * p) * (Q * D) = (low + p * r) + p * ((e + B * Q) * D)
      BY <1>1, <2>1, <2>5 DEF D
    <3> QED
      BY <3>1, <3>2
  <2>9. low + p * r < p * D
    <3>1. p * (D - 1 - r) \in Nat /\ p * (D - 1 - r) = p * D - p - p * r
      BY <1>1, <2>1, <2>5 DEF D
    <3>2. p * D \in Int /\ p * r \in Int
      BY <1>1, <2>1, <2>5 DEF D
    <3> QED
      BY <2>1, <3>1, <3>2
  <2>10. Val(n', nl' + 1) = low + p * r
    BY <1>2, <2>1
  <2>11. Power(i') = p /\ ShiftedDivisor' = D /\ ShiftedNumerator' = N
    BY <1>2, <2>2 DEF p, D, N
  <2>12. Val(From(q', i', tnl' - dl' - i' + 1), tnl' - dl' - i' + 1) = e + B * Q
    BY <2>2, <2>4
  <2> QED
    BY <2>8, <2>9, <2>10, <2>11, <2>12 DEF Partial
<1>9. Untouched' /\ DivisionIsExact'
  BY <1>3 DEF Untouched, DivisionIsExact
<1> QED
  BY <1>6, <1>7, <1>8, <1>9

(* A divisor of one limb. *)
LEMMA Digit1Keeps == ASSUME DivisionInv, Digit1 PROVE DivisionInv'
<1> DEFINE n1 == n[i]   n0 == n[i - 1]   e == Div2by1(n1, n0, d[0])   y == LimbsOf(e.r, 2)
<1>1. pc = "digit" /\ i > 0 /\ dl = 1 /\ Store(e.q, y)
  BY DEF Digit1
<1>2. Called /\ Normalised /\ Partial /\ i \in Nat /\ MaxN >= 1
  BY <1>1, DivisorIs, WindowIs DEF DivisionInv
<1>3. d[0] \in B \div 2 .. B - 1 /\ ShiftedDivisor = d[0] /\ IsReciprocal(v, d[0], B)
  <2>1. d[dl - 1] \in B \div 2 .. B - 1 /\ Holds(d, dl)
    BY <1>1, <1>2, DivisorIs
  <2>2. dl - 1 = 0
    BY <1>1
  <2>3. Val(d, 1) = d[0]
    BY <1>1, <2>1, FewLimbs
  <2> QED
    BY <1>1, <1>2, <2>1, <2>2, <2>3 DEF ShiftedDivisor, Normalised
<1>4. n0 \in Limb /\ n1 \in Limb /\ WindowVal = n0 + B * n1 /\ WindowVal < B * d[0]
  <2>1. Holds(Window, dl + 1) /\ WindowVal < B * ShiftedDivisor
    BY <1>1, <1>2, WindowIs
  <2>2. dl + 1 = 2
    BY <1>1
  <2>3. Window[0] = n0 /\ Window[1] = n1
    BY <1>2, <2>2 DEF Window, From
  <2>4. Val(Window, 2) = Window[0] + B * Window[1]
    BY <2>1, <2>2, FewLimbs
  <2> QED
    BY <1>3, <2>1, <2>2, <2>3, <2>4 DEF WindowVal, Holds
<1> HIDE DEF n0, n1
<1>5. /\ B \in Nat /\ d[0] \in Nat /\ d[0] <= B - 1 /\ n0 \in Nat /\ n1 \in Nat
  BY <1>3, <1>4, Base DEF Limb
<1>6. n1 \in 0 .. d[0] - 1
  <2> SUFFICES ASSUME n1 >= d[0] PROVE FALSE
    BY <1>5
  <2>1. B * (n1 - d[0]) \in Nat /\ B * (n1 - d[0]) = B * n1 - B * d[0]
    BY <1>5
  <2>2. B * n1 \in Int /\ B * d[0] \in Int
    BY <1>5
  <2> QED
    BY <1>4, <1>5, <2>1, <2>2
<1>7. e.q \in Limb /\ e.r \in 0 .. d[0] - 1 /\ Wide(n1, n0) = e.q * d[0] + e.r
  BY <1>3, <1>4, <1>6, Div2by1Is
<1> HIDE DEF e
<1>8. e.r \in 0 .. B * B - 1
  <2>1. B * (B - 1) \in Nat /\ B * (B - 1) = B * B - B /\ B * B \in Nat
    BY <1>5, Base
  <2> QED
    BY <1>5, <1>7, <2>1
<1>9. DOMAIN y = 0 .. 1 /\ Holds(y, 2) /\ Val(y, 2) = e.r
  BY <1>2, <1>8, LimbsOfIs
<1>10. Wide(n1, n0) = WindowVal
  BY <1>4, <1>5 DEF Wide
<1> HIDE DEF y
<1>11. dl + 1 = 2
  BY <1>1
<1>12. IsDigit(e.q, y)
  BY <1>1, <1>3, <1>7, <1>9, <1>10, <1>11 DEF IsDigit
<1> QED
  BY <1>1, <1>12, StoreKeeps

(* Two limbs that are a divisor, or the top of one. *)
LEMMA TopIs ==
  ASSUME Called, Normalised, pc = "digit", dl >= 2
  PROVE  /\ Top2 \in B * (B \div 2) .. B * B - 1 /\ Top2 \in Nat /\ Top2 >= B
         /\ 0 .. Top2 - 1 \subseteq 0 .. B * B - 1
         /\ IsReciprocal(v, Top2, B * B)
<1>1. d[dl - 1] \in B \div 2 .. B - 1 /\ d[dl - 2] \in Limb
  BY DivisorIs
<1>2. Top2 \in B * (B \div 2) .. B * B - 1
  BY <1>1, Reciprocal2Is DEF Top2
<1>3. B * (B \div 2) \in Nat /\ B * (B \div 2) >= B /\ B * B \in Nat
  <2> DEFINE H == B \div 2
  <2>1. H - 1 \in Nat /\ H \in Nat /\ B \in Nat
    BY Base
  <2> HIDE DEF H
  <2>2. B * (H - 1) \in Nat /\ B * (H - 1) = B * H - B /\ B * H \in Int
    BY <2>1
  <2>3. B * H \in Nat /\ B * H >= B
    BY <2>1, <2>2
  <2> QED
    BY <2>1, <2>3 DEF H
<1>4. IsReciprocal(v, Top2, B * B)
  BY DEF Normalised
<1> DEFINE a == B * (B \div 2)   c == B * B
<1>5. a \in Nat /\ a >= B /\ c \in Nat /\ Top2 \in a .. c - 1 /\ B \in Nat
  BY <1>2, <1>3, Base
<1> HIDE DEF a, c
<1>6. Top2 \in Nat /\ Top2 >= B /\ 0 .. Top2 - 1 \subseteq 0 .. c - 1
  BY <1>5
<1> QED
  BY <1>2, <1>4, <1>6 DEF c

(* A divisor of two limbs. *)
LEMMA Digit2Keeps == ASSUME DivisionInv, Digit2 PROVE DivisionInv'
<1> DEFINE n2 == n[i + 1]   n1 == n[i]   n0 == n[i - 1]
           e == Div3by2(n2, n1, n0, Wide(d[1], d[0]))   y == LimbsOf(e.r, 3)
<1>1. pc = "digit" /\ i > 0 /\ dl = 2 /\ Store(e.q, y)
  BY DEF Digit2
<1>2. Called /\ Normalised /\ Partial /\ i \in Nat /\ MaxN >= 1
  BY <1>1, DivisorIs, WindowIs DEF DivisionInv
<1>3. dl - 1 = 1 /\ dl - 2 = 0 /\ dl + 1 = 3
  BY <1>1
<1>4. Top2 = Wide(d[1], d[0]) /\ ShiftedDivisor = Top2
  <2>1. Holds(d, dl)
    BY <1>1, <1>2, DivisorIs
  <2>2. Val(d, 2) = d[0] + B * d[1]
    BY <1>1, <2>1, FewLimbs
  <2>3. d[0] \in Nat /\ d[1] \in Nat /\ B \in Nat
    BY <1>1, <2>1, Base DEF Holds, Limb
  <2> QED
    BY <1>1, <1>3, <2>2, <2>3 DEF ShiftedDivisor, Top2, Wide
<1>5. /\ n0 \in Limb /\ n1 \in Limb /\ n2 \in Limb
      /\ WindowVal = n0 + B * n1 + (B * B) * n2 /\ WindowVal < B * Top2
  <2>1. Holds(Window, dl + 1) /\ WindowVal < B * ShiftedDivisor
    BY <1>1, <1>2, WindowIs
  <2>2. Window[0] = n0 /\ Window[1] = n1 /\ Window[2] = n2
    BY <1>2, <1>3 DEF Window, From
  <2>3. Val(Window, 3) = Window[0] + B * Window[1] + (B * B) * Window[2]
    BY <1>3, <2>1, FewLimbs
  <2> QED
    BY <1>3, <1>4, <2>1, <2>2, <2>3 DEF WindowVal, Holds
<1> HIDE DEF n0, n1, n2
<1>6. /\ Top2 \in B * (B \div 2) .. B * B - 1 /\ Top2 \in Nat /\ IsReciprocal(v, Top2, B * B)
  BY <1>1, <1>2, TopIs
<1>7. B \in Nat /\ n0 \in Nat /\ n1 \in Nat /\ n2 \in Nat /\ Wide(n2, n1) \in Nat
      /\ B * Wide(n2, n1) + n0 = WindowVal
  <2>1. B \in Nat /\ n0 \in Nat /\ n1 \in Nat /\ n2 \in Nat
    BY <1>5, Base DEF Limb
  <2>2. Wide(n2, n1) \in Nat /\ B * Wide(n2, n1) + n0 = n0 + B * n1 + (B * B) * n2
    BY <2>1 DEF Wide
  <2> QED
    BY <1>5, <2>1, <2>2
<1>8. Wide(n2, n1) <= Top2 - 1
  <2> DEFINE U == Wide(n2, n1)
  <2>0. U \in Nat /\ B * U + n0 = WindowVal
    BY <1>7
  <2> HIDE DEF U
  <2> SUFFICES ASSUME U >= Top2 PROVE FALSE
    BY <1>6, <2>0 DEF U
  <2>1. B * (U - Top2) \in Nat /\ B * (U - Top2) = B * U - B * Top2 /\ B * U \in Int /\ B * Top2 \in Int
    BY <1>6, <1>7, <2>0
  <2> QED
    BY <1>5, <1>7, <2>0, <2>1
<1>9. e.q \in Limb /\ e.r \in 0 .. Top2 - 1 /\ B * Wide(n2, n1) + n0 = e.q * Top2 + e.r
  <2>1. e = Div3by2(n2, n1, n0, Top2)
    BY <1>4
  <2> HIDE DEF e
  <2> QED
    BY <1>5, <1>6, <1>8, <2>1, Div3by2Is
<1> HIDE DEF e
<1>10. DOMAIN y = 0 .. 2 /\ Holds(y, 3) /\ Val(y, 3) = e.r
  <2>1. e.r \in 0 .. B * B - 1
    BY <1>1, <1>2, <1>9, TopIs
  <2> QED
    BY <1>2, <2>1, LimbsOfIs
<1> HIDE DEF y
<1>11. IsDigit(e.q, y)
  BY <1>1, <1>3, <1>4, <1>7, <1>9, <1>10 DEF IsDigit
<1> QED
  BY <1>1, <1>11, StoreKeeps

------------------------------------------------------------------------------
(* A number and its top two or three limbs. *)
LEMMA TopTwo ==
  ASSUME NEW m \in Nat, NEW x, Holds(x, m + 2)
  PROVE  Val(x, m + 2) = Val(x, m) + Power(m) * Wide(x[m + 1], x[m])
<1> DEFINE y == From(x, m, 2)
<1>1. Holds(y, 2) /\ y[0] = x[m] /\ y[1] = x[m + 1] /\ y[0] \in Int /\ y[1] \in Int /\ B \in Int
  BY Base DEF From, Holds, Limb
<1>2. Val(x, m + 2) = Val(x, m) + Power(m) * Val(y, 2)
  BY ValSplit
<1> HIDE DEF y
<1>3. Val(y, 2) = y[0] + B * y[1]
  BY <1>1, FewLimbs
<1>4. Val(y, 2) = Wide(x[m + 1], x[m])
  BY <1>1, <1>3 DEF Wide
<1> QED
  BY <1>2, <1>4

(* A number by its top three limbs. *)
LEMMA TopThree ==
  ASSUME NEW m \in Nat, NEW x, Holds(x, m + 3)
  PROVE  Val(x, m + 3) = Val(x, m) + Power(m) * (B * Wide(x[m + 2], x[m + 1]) + x[m])
<1> DEFINE y == From(x, m, 3)
<1>1. /\ Holds(y, 3) /\ y[0] = x[m] /\ y[1] = x[m + 1] /\ y[2] = x[m + 2]
      /\ y[0] \in Int /\ y[1] \in Int /\ y[2] \in Int /\ B \in Int
  BY Base DEF From, Holds, Limb
<1>2. Val(x, m + 3) = Val(x, m) + Power(m) * Val(y, 3)
  BY ValSplit
<1> HIDE DEF y
<1>3. Val(y, 3) = y[0] + B * y[1] + (B * B) * y[2]
  BY <1>1, FewLimbs
<1>4. y[0] + B * y[1] + (B * B) * y[2] = B * (B * y[2] + y[1]) + y[0]
  BY <1>1
<1>5. Val(y, 3) = B * Wide(x[m + 2], x[m + 1]) + x[m]
  BY <1>1, <1>3, <1>4 DEF Wide
<1> QED
  BY <1>2, <1>5

(* The two numbers of which a digit is the quotient, each with its top     *)
(* limbs apart.                                                            *)
Low2(x) == Val(x, dl - 2)
Top3 == Wide(n[i + dl - 1], n[i + dl - 2])
Third == n[i + dl - 3]
Place == Power(dl - 2)

(* The divisor and the window by their top limbs and what is below them. *)
LEMMA Tops ==
  ASSUME Called, Normalised, Partial, pc = "digit", i > 0, dl >= 3
  PROVE  /\ dl - 2 \in Nat /\ Place \in Nat \ {0} /\ Power(dl) = B * (B * Place)
         /\ Low2(d) \in 0 .. Place - 1 /\ Low2(Window) \in 0 .. Place - 1
         /\ ShiftedDivisor = Low2(d) + Place * Top2
         /\ WindowVal = Low2(Window) + Place * (B * Top3 + Third)
         /\ Top3 \in Nat /\ Third \in Limb /\ Top3 <= Top2
         /\ n[i + dl - 1] \in Limb /\ n[i + dl - 2] \in Limb
         /\ TopEqual <=> Top3 = Top2
<1> DEFINE m == dl - 2   n2 == n[i + dl - 1]   n1 == n[i + dl - 2]   n0 == n[i + dl - 3]
<1>1. /\ m \in Nat /\ i \in Nat /\ m + 2 = dl /\ m + 3 = dl + 1 /\ m + 1 = dl - 1
      /\ Holds(Window, m + 3) /\ Holds(d, m + 2) /\ Holds(Window, m) /\ Holds(d, m)
      /\ WindowVal < B * ShiftedDivisor /\ WindowVal \in Nat
      /\ ShiftedDivisor \in Nat \ {0} /\ dl \in Nat
  <2>1. /\ dl \in Nat /\ i \in Nat /\ Holds(Window, dl + 1) /\ Holds(d, dl)
        /\ WindowVal < B * ShiftedDivisor /\ WindowVal \in Nat
        /\ ShiftedDivisor \in Nat \ {0}
    BY DivisorIs, WindowIs
  <2>2. m \in Nat /\ m + 2 = dl /\ m + 3 = dl + 1 /\ m + 1 = dl - 1
    BY <2>1
  <2>3. Holds(Window, m) /\ Holds(d, m)
    BY <2>1 DEF Holds
  <2> QED
    BY <2>1, <2>2, <2>3
<1>2. Window[m] = n0 /\ Window[m + 1] = n1 /\ Window[m + 2] = n2
  BY <1>1 DEF Window, From
<1>3. n0 \in Limb /\ n1 \in Limb /\ n2 \in Limb
  BY <1>1, <1>2 DEF Holds
<1>4. Power(m) \in Nat \ {0} /\ Power(dl) = B * (B * Power(m))
  <2>1. Power(m) \in Nat \ {0} /\ Power(m + 1) = B * Power(m) /\ Power((m + 1) + 1) = B * Power(m + 1)
    BY <1>1, PowerStep
  <2>2. (m + 1) + 1 = dl
    BY <1>1
  <2> QED
    BY <2>1, <2>2
<1>5. Val(d, m) \in 0 .. Power(m) - 1 /\ Val(Window, m) \in 0 .. Power(m) - 1
  BY <1>1, <1>4, ValRange
<1>6. ShiftedDivisor = Val(d, m) + Power(m) * Top2
  <2>1. Val(d, m + 2) = Val(d, m) + Power(m) * Wide(d[m + 1], d[m])
    <3> HIDE DEF m
    <3> QED
      BY <1>1, TopTwo
  <2> QED
    BY <1>1, <2>1 DEF ShiftedDivisor, Top2
<1>7. WindowVal = Val(Window, m) + Power(m) * (B * Top3 + Third)
  <2>1. Val(Window, m + 3) = Val(Window, m) + Power(m) * (B * Wide(Window[m + 2], Window[m + 1]) + Window[m])
    <3> HIDE DEF m
    <3> QED
      BY <1>1, TopThree
  <2> QED
    BY <1>1, <1>2, <2>1 DEF WindowVal, Top3, Third
<1>8. /\ B \in Nat /\ B >= 2 /\ n0 \in Nat /\ n1 \in 0 .. B - 1 /\ n2 \in 0 .. B - 1
      /\ d[dl - 1] \in 0 .. B - 1 /\ d[dl - 2] \in 0 .. B - 1
  <2>1. d[dl - 1] \in Limb /\ d[dl - 2] \in Limb
    BY <1>1 DEF Holds
  <2> QED
    BY <1>3, <2>1, Base DEF Limb
<1>9. Top3 \in Nat /\ Top2 \in Nat
  BY <1>8 DEF Top3, Top2, Wide
<1>10. Top3 <= Top2
  <2> DEFINE p == Power(m)   D == ShiftedDivisor   ld == Val(d, m)   lw == Val(Window, m)
             T == Top2   U == Top3   w == WindowVal
  <2>1. /\ p \in Nat /\ ld \in 0 .. p - 1 /\ lw \in Nat /\ n0 \in Nat /\ D = ld + p * T
        /\ w = lw + p * (B * U + n0) /\ w < B * D /\ U \in Nat /\ T \in Nat /\ B \in Nat
    BY <1>1, <1>4, <1>5, <1>6, <1>7, <1>8, <1>9 DEF Third
  <2> HIDE DEF p, D, ld, lw, T, U, w, n0
  <2> SUFFICES ASSUME U >= T + 1 PROVE FALSE
    BY <2>1 DEF T, U
  <2>2. /\ (p * B) * (U - T - 1) \in Nat /\ p * n0 \in Nat /\ B * (p - 1 - ld) \in Nat
    BY <2>1
  <2>3. w = lw + B * (ld + p * T) + (p * B) * (U - T - 1) + p * n0 + B * (p - 1 - ld) + B
    BY <2>1
  <2>4. B * (ld + p * T) \in Int
    BY <2>1
  <2>5. w >= B * (ld + p * T)
    BY <2>1, <2>2, <2>3, <2>4
  <2>6. B * D = B * (ld + p * T)
    BY <2>1
  <2> QED
    BY <2>1, <2>4, <2>5, <2>6
<1>11. TopEqual <=> Top3 = Top2
  <2> DEFINE a == d[dl - 1]   b == d[dl - 2]
  <2>1. TopEqual <=> n2 = a /\ n1 = b
    BY DEF TopEqual
  <2>2. ASSUME B * n2 + n1 = B * a + b PROVE n2 = a /\ n1 = b
    <3> DEFINE z == B * a + b
    <3>1. B \in Nat \ {0} /\ z \in Int /\ z = B * n2 + n1 /\ z = B * a + b /\ n2 \in Int /\ a \in Int
          /\ n1 \in 0 .. B - 1 /\ b \in 0 .. B - 1
      BY <1>8, <2>2
    <3> HIDE DEF z, a, b, n1, n2
    <3>2. z \div B = n2 /\ z % B = n1 /\ z \div B = a /\ z % B = b
      BY <3>1, DivModIs
    <3> QED
      BY <3>2
  <2>3. Top3 = B * n2 + n1 /\ Top2 = B * a + b
    BY DEF Top3, Top2, Wide
  <2> HIDE DEF a, b, n1, n2
  <2> QED
    BY <2>1, <2>2, <2>3
<1> QED
  BY <1>1, <1>3, <1>4, <1>5, <1>6, <1>7, <1>9, <1>10, <1>11 DEF Low2, Place, Third

(* Equal top limbs: the digit is the largest there is. *)
LEMMA DigitLargestKeeps == ASSUME DivisionInv, DigitLargest PROVE DivisionInv'
<1> DEFINE s == MulSubLimb(Window, d, B - 1, dl + 1, dl)
           D == ShiftedDivisor   w == WindowVal   p == Place   T == Top2
           ld == Low2(d)   lw == Low2(Window)   n0 == Third
           u == Val(s.d, dl + 1)   o == Power(dl + 1)
<1>1. pc = "digit" /\ i > 0 /\ dl >= 3 /\ TopEqual /\ Store(B - 1, s.d)
  BY DEF DigitLargest, Window
<1>2. Called /\ Normalised /\ Partial
  BY DEF DivisionInv
<1>3. /\ dl \in Nat /\ Holds(d, dl) /\ Holds(Window, dl + 1) /\ DOMAIN Window = 0 .. dl
      /\ D \in Nat \ {0} /\ D < Power(dl) /\ w < B * D /\ w \in Nat
  <2>1. dl \in Nat /\ Holds(d, dl) /\ D \in Nat \ {0} /\ D < Power(dl)
    BY <1>1, <1>2, DivisorIs
  <2>2. Holds(Window, dl + 1) /\ w < B * D /\ w \in Nat
    BY <1>1, <1>2, WindowIs
  <2>3. DOMAIN Window = 0 .. dl
    BY <2>1 DEF Window, From
  <2> QED
    BY <2>1, <2>2, <2>3
<1>4. /\ s.c \in Limb /\ DOMAIN s.d = 0 .. dl /\ Holds(s.d, dl + 1)
      /\ u - o * s.c = w - (B - 1) * D
  <2> DEFINE l == dl + 1   b == B - 1
  <2>1. /\ l \in Nat /\ dl \in 0 .. l /\ b \in Limb /\ 0 .. l - 1 \subseteq DOMAIN Window
        /\ Holds(Window, l) /\ s = MulSubLimb(Window, d, b, l, dl)
    BY <1>3, Base DEF Limb
  <2> HIDE DEF s, l, b
  <2>2. /\ s.c \in Limb /\ DOMAIN s.d = DOMAIN Window /\ Holds(s.d, l)
        /\ Val(s.d, l) - Power(l) * s.c = Val(Window, l) - b * Val(d, dl)
    BY <1>3, <2>1, MulSubLimbIs
  <2> QED
    BY <1>3, <2>2 DEF ShiftedDivisor, WindowVal, l, b
<1> HIDE DEF s
<1>5. /\ p \in Nat \ {0} /\ ld \in 0 .. p - 1 /\ lw \in Nat /\ n0 \in Nat
      /\ T \in Nat /\ T >= B /\ D = ld + p * T /\ w = lw + p * (B * T + n0)
      /\ B \in Nat /\ B >= 2
  <2>1. /\ p \in Nat \ {0} /\ ld \in 0 .. p - 1 /\ lw \in 0 .. p - 1 /\ n0 \in Limb
        /\ D = ld + p * T /\ w = lw + p * (B * Top3 + n0) /\ Top3 = T
    BY <1>1, <1>2, Tops
  <2>2. T \in Nat /\ T >= B
    BY <1>1, <1>2, <1>3, TopIs
  <2>3. B \in Nat /\ B >= 2 /\ n0 \in Nat
    BY <2>1, Base DEF Limb
  <2> HIDE DEF p, ld, lw, n0, D, w, T
  <2> QED
    BY <2>1, <2>2, <2>3
<1>6. u \in Nat /\ u < o /\ o \in Nat
  <2>1. u \in Nat /\ u < o
    BY <1>3, <1>4, ValRange
  <2>2. o \in Nat
    BY <1>3, PowerStep
  <2> QED
    BY <2>1, <2>2
<1> HIDE DEF D, w, p, T, ld, lw, n0, u, o
<1>7. w - (B - 1) * D \in 0 .. D - 1
  <2>1. w - (B - 1) * D <= D - 1 /\ (B - 1) * D \in Int
    <3>1. (B - 1) * D = B * D - D /\ B * D \in Int
      BY <1>3, <1>5
    <3> QED
      BY <1>3, <3>1
  <2>2. w - (B - 1) * D = lw + p * n0 + B * (p - 1 - ld) + B + ld + p * (T - B)
    <3>1. lw + p * (B * T + n0) - (B - 1) * (ld + p * T)
            = lw + p * n0 + B * (p - 1 - ld) + B + ld + p * (T - B)
      BY <1>5
    <3> QED
      BY <1>5, <3>1
  <2>3. p * n0 \in Nat /\ B * (p - 1 - ld) \in Nat /\ p * (T - B) \in Nat
    BY <1>5
  <2>4. lw + p * n0 + B * (p - 1 - ld) + B + ld + p * (T - B) >= 0
    BY <1>5, <2>3
  <2> QED
    BY <1>3, <2>1, <2>2, <2>4
<1>8. s.c = 0
  <2>1. s.c \in Nat
    BY <1>4, <1>5 DEF Limb
  <2> SUFFICES ASSUME s.c >= 1 PROVE FALSE
    BY <2>1
  <2> DEFINE c == s.c
  <2>2. c \in Nat /\ c >= 1 /\ u - o * c = w - (B - 1) * D
    BY <1>4, <2>1
  <2> HIDE DEF c
  <2>3. o * (c - 1) \in Nat /\ o * (c - 1) = o * c - o /\ o * c \in Int
    BY <1>6, <2>2
  <2> QED
    BY <1>6, <1>7, <2>2, <2>3
<1>9. u = w - (B - 1) * D
  <2>1. o * 0 = 0
    BY <1>6
  <2>2. u - o * 0 = w - (B - 1) * D
    BY <1>4, <1>8
  <2> QED
    BY <1>6, <2>1, <2>2
<1>10. IsDigit(B - 1, s.d)
  <2>1. B - 1 \in Limb
    BY <1>5 DEF Limb
  <2>2. (B - 1) * D \in Int
    BY <1>3, <1>5
  <2>3. u \in 0 .. D - 1 /\ w = (B - 1) * D + u
    BY <1>3, <1>6, <1>7, <1>9, <2>2
  <2> QED
    BY <1>4, <2>1, <2>3 DEF IsDigit, u, w, D
<1> QED
  BY <1>1, <1>10, StoreKeeps

(* The estimate, and what is left when it times the lower limbs of the     *)
(* divisor is subtracted: a borrow runs out of the dl limbs exactly if the *)
(* estimate is one too large.                                              *)
LEMMA EstimateIs ==
  ASSUME Called, Normalised, Partial, pc = "digit", i > 0, dl >= 3, ~TopEqual
  PROVE  LET e == Estimate
             s == Subtracted(e)
         IN  /\ e.q \in Limb
             /\ WindowVal - e.q * ShiftedDivisor \in -ShiftedDivisor .. ShiftedDivisor - 1
             /\ s.c \in Limb /\ DOMAIN s.d = 0 .. dl /\ Holds(s.d, dl + 1) /\ s.d[dl] = 0
             /\ Val(s.d, dl) - Power(dl) * s.c = WindowVal - e.q * ShiftedDivisor
<1> DEFINE e == Estimate   y == LimbsOf(e.r, 3)   m == dl - 2
           x == From(Into(n, i + dl - 3, y), i - 1, dl + 1)
           s == MulSubLimb(x, d, e.q, dl, dl - 2)
           D == ShiftedDivisor   w == WindowVal   p == Place   T == Top2
           U == Top3   n0 == Third   ld == Low2(d)   lw == Low2(Window)
<1>1. /\ dl \in Nat /\ i \in Nat /\ i >= 1 /\ i + dl <= nl + 1 /\ nl \in Nat /\ MaxN >= 1
      /\ Holds(d, dl) /\ Holds(Window, dl + 1) /\ 0 .. nl \subseteq DOMAIN n
  <2>1. /\ dl \in Nat /\ nl \in Nat /\ dl >= 1 /\ dl <= nl /\ nl <= MaxN /\ MaxN \in Nat
        /\ Holds(d, dl) /\ 0 .. nl \subseteq DOMAIN n
    BY DivisorIs
  <2>2. i \in Nat /\ i + dl <= nl + 1 /\ Holds(Window, dl + 1)
    BY WindowIs
  <2> QED
    BY <2>1, <2>2
<1>2. /\ m \in Nat /\ p \in Nat \ {0} /\ Power(dl) = B * (B * p)
      /\ ld \in 0 .. p - 1 /\ lw \in 0 .. p - 1
      /\ D = ld + p * T /\ w = lw + p * (B * U + n0)
      /\ U \in Nat /\ n0 \in Limb /\ U <= T - 1
      /\ n[i + dl - 1] \in Limb /\ n[i + dl - 2] \in Limb
  <2>1. T \in Nat
    BY TopIs, <1>1
  <2>2. U <= T /\ U # T /\ U \in Nat
    BY Tops
  <2>3. U <= T - 1
    BY <2>1, <2>2
  <2> QED
    BY <2>3, Tops
<1>3. /\ T \in B * (B \div 2) .. B * B - 1 /\ T \in Nat /\ T >= B /\ IsReciprocal(v, T, B * B)
      /\ 0 .. T - 1 \subseteq 0 .. B * B - 1
  BY <1>1, TopIs
<1>4. B \in Nat /\ B >= 2 /\ n0 \in Nat
  BY <1>2, Base DEF Limb
<1>5. e.q \in Limb /\ e.r \in 0 .. T - 1 /\ B * U + n0 = e.q * T + e.r
  <2> DEFINE n2 == n[i + dl - 1]   n1 == n[i + dl - 2]
  <2>1. e = Div3by2(n2, n1, n0, T) /\ U = Wide(n2, n1) /\ n1 \in Limb /\ n2 \in Limb
    BY <1>2 DEF Estimate, Third, Top2, Top3
  <2> HIDE DEF e, n1, n2, T, U, n0
  <2> QED
    BY <1>2, <1>3, <2>1, Div3by2Is
<1>6. /\ DOMAIN y = 0 .. 2 /\ Holds(y, 3) /\ y[0] = Lo(e.r) /\ y[1] = Hi(e.r) /\ y[2] = 0
      /\ e.r \in 0 .. B * B - 1
  <2> HIDE DEF e, T
  <2>1. e.r \in 0 .. B * B - 1
    BY <1>3, <1>5
  <2> QED
    BY <1>1, <2>1, LimbsOfIs
<1>7. /\ \A j \in 0 .. dl : x[j] = IF j < m THEN Window[j] ELSE y[j - m]
      /\ DOMAIN x = 0 .. dl
  <2> HIDE DEF y
  <2>1. DOMAIN x = 0 .. dl
    BY <1>1 DEF From
  <2> SUFFICES ASSUME NEW j \in 0 .. dl
               PROVE  x[j] = IF j < m THEN Window[j] ELSE y[j - m]
    BY <2>1
  <2>2. j \in 0 .. (dl + 1) - 1 /\ i - 1 + j \in DOMAIN n
    BY <1>1
  <2>3. x[j] = Into(n, i + dl - 3, y)[i - 1 + j] /\ Window[j] = n[i - 1 + j]
    BY <2>2 DEF From, Window
  <2>4. (i - 1 + j) - (i + dl - 3) = j - m
    BY <1>1
  <2>5. x[j] = IF j - m \in 0 .. 2 THEN y[j - m] ELSE n[i - 1 + j]
    BY <1>6, <2>2, <2>3, <2>4 DEF Into
  <2>6. j - m \in 0 .. 2 <=> ~(j < m)
    BY <1>1
  <2> HIDE DEF m, x
  <2> QED
    BY <2>3, <2>5, <2>6
<1> HIDE DEF e, y
<1>8. Holds(x, dl + 1) /\ Holds(x, dl) /\ x[dl] = 0 /\ x[m] = Lo(e.r) /\ x[m + 1] = Hi(e.r)
  <2>1. ASSUME NEW j \in 0 .. dl PROVE x[j] \in Limb
    <3>1. j < m => Window[j] \in Limb
      BY <1>1 DEF Holds
    <3>2. ~(j < m) => y[j - m] \in Limb
      BY <1>1, <1>6 DEF Holds
    <3> HIDE DEF x, m
    <3> QED
      BY <1>7, <3>1, <3>2
  <2>2. x[dl] = y[2] /\ x[m] = y[0] /\ x[m + 1] = y[1]
    <3>1. dl \in 0 .. dl /\ ~(dl < m) /\ dl - m = 2
      BY <1>1
    <3>2. m \in 0 .. dl /\ ~(m < m) /\ m - m = 0 /\ m + 1 \in 0 .. dl /\ ~(m + 1 < m) /\ (m + 1) - m = 1
      BY <1>1
    <3> HIDE DEF x, m
    <3> QED
      BY <1>7, <3>1, <3>2
  <2> HIDE DEF x, m
  <2> QED
    BY <1>1, <1>6, <2>1, <2>2 DEF Holds
<1>9. Val(x, dl) = lw + p * e.r
  <2>1. Val(x, m + 2) = Val(x, m) + Power(m) * Wide(x[m + 1], x[m])
    <3>1. Holds(x, m + 2)
      BY <1>1, <1>8
    <3> HIDE DEF x, m
    <3> QED
      BY <1>2, <3>1, TopTwo
  <2>2. Wide(Hi(e.r), Lo(e.r)) = e.r
    <3> DEFINE z == e.r
    <3>1. z \in 0 .. B * B - 1
      BY <1>6
    <3> HIDE DEF z
    <3>2. z = B * Hi(z) + Lo(z)
      BY <3>1, TwoLimbs
    <3> QED
      BY <3>2 DEF Wide, z
  <2>3. Val(x, m) = lw
    <3>1. Holds(x, m) /\ \A j \in 0 .. m - 1 : x[j] = Window[j]
      <4>1. \A j \in 0 .. m - 1 : j \in 0 .. dl /\ j < m /\ j \in 0 .. dl - 1
        BY <1>1
      <4> HIDE DEF x, m
      <4> QED
        BY <1>7, <1>8, <4>1 DEF Holds
    <3> HIDE DEF x, m
    <3>2. Val(x, m) = Val(Window, m)
      BY <1>2, <3>1, ValSame
    <3> QED
      BY <3>2 DEF Low2, m
  <2>4. m + 2 = dl
    BY <1>1
  <2> HIDE DEF x
  <2> QED
    BY <1>8, <2>1, <2>2, <2>3, <2>4 DEF Place
<1>10. s = Subtracted(e)
  BY DEF Subtracted, y
<1>11. /\ s.c \in Limb /\ DOMAIN s.d = 0 .. dl /\ Holds(s.d, dl) /\ s.d[dl] = 0
       /\ Val(s.d, dl) - Power(dl) * s.c = Val(x, dl) - e.q * ld
  <2>1. dl - 2 \in 0 .. dl /\ Holds(d, dl - 2) /\ 0 .. dl - 1 \subseteq DOMAIN x /\ ~(dl < dl) /\ dl \in DOMAIN x
    BY <1>1, <1>7 DEF Holds
  <2> HIDE DEF s, x
  <2>2. /\ s.c \in Limb /\ DOMAIN s.d = DOMAIN x /\ Holds(s.d, dl)
        /\ \A j \in DOMAIN x : ~(j < dl) => s.d[j] = x[j]
        /\ Val(s.d, dl) - Power(dl) * s.c = Val(x, dl) - e.q * Val(d, dl - 2)
    BY <1>1, <1>5, <1>8, <2>1, MulSubLimbIs DEF s
  <2> QED
    BY <1>7, <1>8, <2>1, <2>2 DEF Low2
<1> HIDE DEF s, x
<1>12. Holds(s.d, dl + 1)
  <2>1. 0 \in Limb
    BY <1>4 DEF Limb
  <2> QED
    BY <1>1, <1>11, <2>1 DEF Holds
<1> DEFINE k == e.q   r == e.r
<1>13. k \in Nat /\ k <= B - 1 /\ r \in Nat /\ r <= T - 1 /\ B * U + n0 = k * T + r
  BY <1>3, <1>4, <1>5 DEF Limb
<1> HIDE DEF k, r, D, w, p, T, U, n0, ld, lw
<1>14. w - k * D = lw + p * r - k * ld /\ w - k * D \in Int
  <2> DEFINE z1 == lw + p * (k * T + r)   z2 == k * (ld + p * T)
  <2>1. w = z1 /\ k * D = z2
    BY <1>2, <1>13
  <2>2. z1 - z2 = lw + p * r - k * ld
    BY <1>2, <1>3, <1>13
  <2>3. w \in Int /\ D \in Int
    BY <1>2, <1>3, <1>4
  <2>4. w - k * D \in Int
    BY <1>13, <2>3
  <2> HIDE DEF z1, z2
  <2> QED
    BY <2>1, <2>2, <2>4
<1>15. w - k * D \in -D .. D - 1
  <2>1. p * (T - 1 - r) \in Nat /\ p * (T - 1 - r) = p * T - p - p * r
    BY <1>2, <1>3, <1>13
  <2>2. k * ld \in Nat
    BY <1>2, <1>13
  <2>3. /\ (B - 1 - k) * ld \in Nat /\ (B - 1 - k) * ld = B * ld - ld - k * ld
        /\ B * (p - 1 - ld) \in Nat /\ B * (p - 1 - ld) = p * B - B - B * ld
        /\ p * (T - B) \in Nat /\ p * (T - B) = p * T - p * B
    BY <1>2, <1>3, <1>4, <1>13
  <2>4. p * T \in Int /\ p * r \in Nat /\ B * ld \in Int /\ p * B \in Int
    BY <1>2, <1>3, <1>4, <1>13
  <2>5. lw + p * r - k * ld <= D - 1
    BY <1>2, <2>1, <2>2, <2>4
  <2>6. lw + p * r - k * ld >= -D
    BY <1>2, <1>4, <2>2, <2>3, <2>4
  <2> QED
    BY <1>14, <2>5, <2>6, <1>2, <2>4
<1>16. Val(s.d, dl) - Power(dl) * s.c = w - k * D
  <2>1. lw + p * r - k * ld = (lw + p * r) - k * ld
    BY <1>2, <1>13
  <2> QED
    BY <1>9, <1>11, <1>14, <2>1 DEF k, r
<1> QED
  BY <1>5, <1>10, <1>11, <1>12, <1>15, <1>16 DEF e, k, D, w

(* The estimate as it is, or corrected. *)
LEMMA DigitNKeeps == ASSUME DivisionInv, DigitN PROVE DivisionInv'
<1> DEFINE e == Estimate   s == Subtracted(e)   a == AddLimbs(s.d, d, dl)
           y == Into(s.d, 0, a.d)
           D == ShiftedDivisor   w == WindowVal   k == e.q   o == Power(dl)
           u == Val(s.d, dl)   c == s.c
<1>1. pc = "digit" /\ i > 0 /\ dl >= 3 /\ ~TopEqual
  BY DEF DigitN
<1>2. Called /\ Normalised /\ Partial
  BY DEF DivisionInv
<1>3. /\ dl \in Nat /\ Holds(d, dl) /\ D \in Nat \ {0} /\ D < o /\ o \in Nat /\ w \in Nat
  <2>1. dl \in Nat /\ Holds(d, dl) /\ D \in Nat \ {0} /\ D < o
    BY <1>1, <1>2, DivisorIs
  <2>2. o \in Nat /\ w \in Nat
    BY <1>1, <1>2, <2>1, PowerStep, WindowIs
  <2> QED
    BY <2>1, <2>2
<1>4. /\ k \in Limb /\ w - k * D \in -D .. D - 1 /\ c \in Limb
      /\ DOMAIN s.d = 0 .. dl /\ Holds(s.d, dl + 1) /\ s.d[dl] = 0
      /\ u - o * c = w - k * D
  BY <1>1, <1>2, EstimateIs
<1>5. (c = 0 /\ Store(k, s.d)) \/ (c # 0 /\ Store(Wrap(k - 1), y))
  BY DEF DigitN
<1> HIDE DEF e, s
<1>6. /\ k \in Nat /\ k <= B - 1 /\ c \in Nat /\ B \in Nat /\ B >= 2
  BY <1>4, Base DEF Limb
<1>7. Holds(s.d, dl) /\ dl + 1 \in Nat
  BY <1>3, <1>4 DEF Holds
<1>8. u \in Nat /\ u < o
  BY <1>3, <1>7, ValRange
(* A limb of zero above dl limbs changes nothing. *)
<1>9. ASSUME NEW z, Holds(z, dl + 1), z[dl] = 0
      PROVE  Val(z, dl + 1) = Val(z, dl) /\ Val(z, dl) \in Nat /\ Val(z, dl) < o
  <2>1. Val(z, dl + 1) = Val(z, dl) + o * z[dl]
    BY <1>3, <1>9, ValStep
  <2>2. Holds(z, dl)
    BY <1>3, <1>9 DEF Holds
  <2>3. Val(z, dl) \in Nat /\ Val(z, dl) < o
    BY <1>3, <2>2, ValRange
  <2>4. o * 0 = 0
    BY <1>3
  <2> HIDE DEF o
  <2> QED
    BY <1>9, <2>1, <2>3, <2>4
<1>10. CASE c = 0 /\ Store(k, s.d)
  <2>1. u = w - k * D
    <3>1. o * 0 = 0 /\ u - o * 0 = w - k * D
      BY <1>3, <1>4, <1>10
    <3> HIDE DEF o, u, w, D, k
    <3> QED
      BY <1>8, <3>1
  <2>2. u \in 0 .. D - 1 /\ w = k * D + u
    <3>1. k * D \in Int
      BY <1>3, <1>6
    <3> HIDE DEF u, w, D, k, o
    <3> QED
      BY <1>3, <1>4, <1>8, <2>1, <3>1
  <2>3. Val(s.d, dl + 1) = u
    BY <1>4, <1>9
  <2>4. IsDigit(k, s.d)
    BY <1>4, <2>2, <2>3 DEF IsDigit
  <2> QED
    BY <1>1, <1>10, <2>4, StoreKeeps
<1>11. CASE c # 0 /\ Store(Wrap(k - 1), y)
  <2> DEFINE t == Val(a.d, dl)   g == a.c   x == w - k * D + D
  <2>1. a.d \in Arrays(dl) /\ Holds(a.d, dl) /\ g \in {0, 1} /\ t + o * g = u + D
    BY <1>3, <1>7, AddLimbsIs DEF ShiftedDivisor
  <2> HIDE DEF a
  <2>2. t \in Nat /\ t < o
    BY <1>3, <2>1, ValRange
  <2>3. x \in 0 .. D - 1 /\ w - k * D < 0 /\ x \in Int /\ w - k * D \in Int
    <3>1. o * (c - 1) \in Nat /\ o * (c - 1) = o * c - o /\ o * c \in Int
      BY <1>3, <1>6, <1>11
    <3>2. k * D \in Int
      BY <1>3, <1>6
    <3> DEFINE oc == o * c   kD == k * D
    <3>3. oc >= o /\ oc \in Int /\ kD \in Int /\ u - oc = w - kD /\ w - kD \in -D .. D - 1
          /\ x = w - kD + D
      <4>1. o * c >= o
        <5> DEFINE times == o * c
        <5>1. times - o \in Nat /\ times \in Int
          BY <3>1
        <5> HIDE DEF times
        <5> QED
          BY <1>3, <5>1 DEF times
      <4> QED
        BY <1>4, <3>1, <3>2, <4>1
    <3>4. w - k * D = w - kD
      OBVIOUS
    <3> HIDE DEF u, w, D, k, o, x, oc, kD
    <3> QED
      BY <1>3, <1>8, <3>3, <3>4
  <2>4. t = x
    <3>1. t - x = o * (c - g)
      <4>1. o * (c - g) = o * c - o * g /\ o * c \in Int /\ o * g \in Int
        BY <1>3, <1>6, <2>1
      <4> DEFINE oc == o * c   og == o * g   kD == k * D
      <4>2. o * (c - g) = oc - og /\ oc \in Int /\ og \in Int /\ t + og = u + D
            /\ u - oc = w - kD /\ x = w - kD + D /\ w - kD \in Int
        BY <1>4, <2>1, <2>3, <4>1
      <4>3. kD \in Int
        BY <1>3, <1>6
      <4> HIDE DEF u, w, D, k, o, t, x, oc, og, kD
      <4> QED
        BY <1>3, <1>8, <2>2, <4>2, <4>3
    <3>2. t - x < o /\ t - x > -o
      <4> HIDE DEF x, D, o, t
      <4> QED
        BY <1>3, <2>2, <2>3
    <3>3. c - g = 0
      <4> DEFINE z == c - g
      <4>1. z \in Int /\ o * z < o /\ o * z > -o
        BY <1>6, <2>1, <3>1, <3>2
      <4> HIDE DEF z, o
      <4>2. ASSUME z >= 1 PROVE FALSE
        <5>1. o * (z - 1) \in Nat /\ o * (z - 1) = o * z - o /\ o * z \in Int
          BY <1>3, <4>1, <4>2
        <5> QED
          BY <1>3, <4>1, <5>1
      <4>3. ASSUME z <= -1 PROVE FALSE
        <5>1. o * (-1 - z) \in Nat /\ o * (-1 - z) = -o - o * z /\ o * z \in Int
          BY <1>3, <4>1, <4>3
        <5> QED
          BY <1>3, <4>1, <5>1
      <4>4. z = 0
        BY <4>1, <4>2, <4>3
      <4> QED
        BY <4>4 DEF z
    <3>4. o * 0 = 0 /\ t - x = o * 0
      BY <1>3, <3>1, <3>3
    <3> HIDE DEF x, t, o
    <3> QED
      BY <2>2, <2>3, <3>4
  <2>5. k >= 1
    <3> SUFFICES ASSUME k = 0 PROVE FALSE
      BY <1>6
    <3>1. 0 * D = 0 /\ w - 0 * D < 0
      BY <1>3, <2>3
    <3> HIDE DEF w, D
    <3> QED
      BY <1>3, <3>1
  <2>6. Wrap(k - 1) = k - 1 /\ k - 1 \in Limb
    <3>1. k - 1 \in Limb /\ k - 1 \in Int
      BY <1>6, <2>5 DEF Limb
    <3> HIDE DEF k
    <3> QED
      BY <3>1, WrapNear
  <2>7. /\ DOMAIN y = 0 .. dl
        /\ \A j \in 0 .. dl : y[j] = IF j \in 0 .. dl - 1 THEN a.d[j] ELSE s.d[j]
    <3>1. DOMAIN a.d = 0 .. dl - 1
      BY <2>1 DEF Arrays
    <3>2. \A j \in 0 .. dl : j - 0 = j
      BY <1>3
    <3> QED
      BY <1>4, <3>1, <3>2 DEF Into
  <2> HIDE DEF y
  <2>8. Holds(y, dl + 1) /\ y[dl] = 0 /\ \A j \in 0 .. dl - 1 : a.d[j] = y[j]
    <3>1. \A j \in 0 .. dl : y[j] \in Limb
      <4>1. \A j \in 0 .. dl : s.d[j] \in Limb
        BY <1>3, <1>4 DEF Holds
      <4>2. \A j \in 0 .. dl - 1 : a.d[j] \in Limb
        BY <2>1 DEF Holds
      <4> QED
        BY <2>7, <4>1, <4>2
    <3>2. y[dl] = s.d[dl] /\ \A j \in 0 .. dl - 1 : a.d[j] = y[j]
      BY <1>3, <2>7
    <3> QED
      BY <1>3, <1>4, <3>1, <3>2 DEF Holds
  <2>9. Val(y, dl + 1) = x
    <3>1. Val(a.d, dl) = Val(y, dl)
      BY <1>3, <2>1, <2>8, ValSame
    <3>2. Val(y, dl + 1) = Val(y, dl)
      BY <1>9, <2>8
    <3> QED
      BY <2>4, <3>1, <3>2
  <2>10. w = (k - 1) * D + x
    <3>1. (k - 1) * D = k * D - D /\ k * D \in Int
      BY <1>3, <1>6
    <3> HIDE DEF w, D, k
    <3> QED
      BY <1>3, <3>1
  <2>11. IsDigit(k - 1, y)
    <3>1. x \in 0 .. D - 1
      BY <2>3
    <3> HIDE DEF x, k
    <3> QED
      BY <2>6, <2>7, <2>8, <2>9, <2>10, <3>1 DEF IsDigit
  <2> QED
    BY <1>1, <1>11, <2>6, <2>11, StoreKeeps
<1> QED
  BY <1>5, <1>10, <1>11

------------------------------------------------------------------------------
(* A numerator below the divisor is its own remainder. *)
LEMMA SmallerKeeps == ASSUME DivisionInv, Smaller PROVE DivisionInv'
<1> DEFINE x == Val(num, MaxN)   y == Val(div, MaxD)
<1>1. /\ pc = "check" /\ CmpLimbs(num, div, nl, dl) < 0
      /\ out' = [rd |-> From(num, 0, nl), qd |-> Zeros(nl), rl |-> nl, ql |-> 0]
      /\ pc' = "done" /\ num' = num /\ div' = div
  BY DEF Smaller
<1>2. Called
  BY DEF DivisionInv
<1>3. /\ nl \in Nat /\ dl \in Nat /\ dl >= 1 /\ Holds(num, nl) /\ Holds(div, dl)
      /\ x = Val(num, nl) /\ y = Val(div, dl)
      /\ nl > 0 => num[nl - 1] \in Limb \ {0}
      /\ div[dl - 1] \in Limb \ {0}
  BY <1>1, <1>2, Lengths
<1>4. x \in Nat /\ y \in Nat /\ x < y
  <2>1. x \in Nat /\ y \in Nat
    BY <1>3, ValRange
  <2>2. /\ nl > 0 => num[nl - 1] # 0
        /\ dl > 0 => div[dl - 1] # 0
    BY <1>3
  <2>3. CmpLimbs(num, div, nl, dl)
          = IF Val(num, nl) > Val(div, dl) THEN 1 ELSE IF Val(num, nl) = Val(div, dl) THEN 0 ELSE -1
    BY <1>3, <2>2, CmpLimbsIs
  <2> QED
    BY <1>1, <1>3, <2>1, <2>3
<1>5. x \div y = 0 /\ x % y = x
  <2>1. y \in Nat \ {0} /\ x \in 0 .. y - 1 /\ 0 \in Int /\ x \in Int /\ x = y * 0 + x
    BY <1>4
  <2> HIDE DEF x, y
  <2> QED
    BY <2>1, DivModIs
<1>6. Val(From(num, 0, nl), nl) = x
  <2> DEFINE z == From(num, 0, nl)
  <2>1. \A j \in 0 .. nl - 1 : num[j] = z[j]
    BY <1>3 DEF From
  <2> HIDE DEF z
  <2>2. Val(num, nl) = Val(z, nl)
    BY <1>3, <2>1, ValSame
  <2> QED
    BY <1>3, <2>2 DEF z
<1>7. nl > 0 => From(num, 0, nl)[nl - 1] # 0
  BY <1>3 DEF From
<1>8. DivisionIsExact'
  <2>1. /\ num' = num /\ div' = div /\ out'.rl = nl /\ out'.ql = 0
        /\ out'.rd = From(num, 0, nl) /\ out'.qd = Zeros(nl)
    BY <1>1
  <2>2. Val(Zeros(nl), 0) = 0
    BY ValZero
  <2> QED
    BY <1>5, <1>6, <1>7, <2>1, <2>2 DEF DivisionIsExact
<1>9. Called' /\ Normalised' /\ Untouched' /\ Partial'
  BY <1>1, <1>2 DEF Called, Normalised, Untouched, Partial
<1> QED
  BY <1>8, <1>9 DEF DivisionInv

(* The shift that normalises loses no bit of the divisor and leaves its    *)
(* top bit set.                                                            *)
LEMMA DivisorShifts ==
  ASSUME Called, pc # "idle", NEW x \in [0 .. dl + 1 -> Limb],
         Val(x, dl + 1) = 2^Shift * Val(div, dl)
  PROVE  /\ Val(x, dl) = 2^Shift * Val(div, dl)
         /\ x[dl - 1] >= B \div 2
<1> DEFINE a == div[dl - 1]   s == 2^Shift   t == 2^(W - Shift)   p == Power(dl - 1)
           lo == Val(div, dl - 1)   H == B \div 2   y == Val(div, dl)
           xlo == Val(x, dl - 1)   top == x[dl - 1]
<1>1. /\ dl \in Nat /\ dl >= 1 /\ Holds(div, dl) /\ a \in Limb \ {0}
  BY Lengths
<1>2. /\ Shift \in 0 .. W - 1 /\ a * s \in H .. B - 1
  BY <1>1, LeadingZerosIs DEF Shift
<1>3. s \in Nat \ {0} /\ t \in Nat \ {0} /\ s * t = B /\ H \in Nat \ {0} /\ B = 2 * H /\ a \in Nat
  <2> DEFINE k == Shift
  <2>1. k \in 0 .. W /\ W - k \in 0 .. W
    BY <1>2, WordAssumption
  <2>2. s = 2^k /\ t = 2^(W - k)
    BY DEF s, t
  <2>3. H \in Nat \ {0} /\ B = 2 * H
    BY Base
  <2> HIDE DEF k, s, t, H
  <2>4. s \in Nat \ {0} /\ t \in Nat \ {0}
    BY <2>1, <2>2, TwoPowers
  <2>5. 2^k * 2^(W - k) = B
    BY <2>1, TwoSum
  <2>6. s * t = B
    BY <2>2, <2>5
  <2> QED
    BY <1>1, <2>3, <2>4, <2>6, Base DEF Limb
<1>4. /\ dl - 1 \in Nat /\ (dl - 1) + 1 = dl /\ Holds(div, dl - 1)
      /\ Holds(x, dl + 1) /\ Holds(x, dl) /\ Holds(x, dl - 1)
  BY <1>1 DEF Holds
<1>5. /\ y = lo + p * a /\ Power(dl) = B * p /\ p \in Nat \ {0} /\ lo \in Nat /\ lo < p
      /\ xlo \in Nat /\ xlo < p /\ Val(x, dl) = xlo + p * top
  <2>1. Val(div, (dl - 1) + 1) = lo + p * a
    BY <1>1, <1>4, ValStep
  <2>2. Power((dl - 1) + 1) = B * p /\ p \in Nat \ {0}
    BY <1>4, PowerStep
  <2>3. lo \in Nat /\ lo < p /\ xlo \in Nat /\ xlo < p
    BY <1>4, ValRange
  <2>4. Val(x, (dl - 1) + 1) = xlo + p * top
    BY <1>4, ValStep
  <2> QED
    BY <1>4, <2>1, <2>2, <2>3, <2>4
<1>6. top \in Nat
  BY <1>1, <1>4, Base DEF Holds, Limb
<1> HIDE DEF a, s, t, p, lo, H, y, xlo, top
<1>7. a + 1 <= t
  <2> SUFFICES ASSUME a >= t PROVE FALSE
    BY <1>3
  <2>1. s * (a - t) \in Nat /\ s * (a - t) = a * s - s * t /\ a * s \in Int
    BY <1>3
  <2> QED
    BY <1>2, <1>3, <2>1
<1>8. s * y < B * p /\ s * y \in Nat
  <2>1. s * (p - 1 - lo) \in Nat /\ (s * p) * (t - 1 - a) \in Nat
    BY <1>3, <1>5, <1>7
  <2>2. (s * t) * p = s * (lo + p * a) + s * (p - 1 - lo) + (s * p) * (t - 1 - a) + s
    BY <1>3, <1>5
  <2>3. s * (lo + p * a) \in Nat
    BY <1>3, <1>5
  <2>4. s * y = s * (lo + p * a) /\ B * p = (s * t) * p
    BY <1>3, <1>5
  <2> DEFINE z == s * (lo + p * a)   u == s * (p - 1 - lo)   w == (s * p) * (t - 1 - a)   c == (s * t) * p
  <2>5. c = z + u + w + s /\ u \in Nat /\ w \in Nat /\ z \in Nat /\ s * y = z /\ B * p = c
    BY <2>1, <2>2, <2>3, <2>4
  <2> HIDE DEF z, u, w, c
  <2> QED
    BY <1>3, <2>5
<1>9. Val(x, dl) = s * y
  <2>1. Val(x, dl + 1) = s * y
    BY DEF s, y
  <2>2. Val(x, dl + 1) < Power(dl)
    BY <1>5, <1>8, <2>1
  <2>3. Val(x, dl) = Val(x, dl + 1)
    BY <1>1, <1>4, <2>2, UpperZero
  <2> QED
    BY <2>1, <2>3
<1>10. top >= H
  <2> SUFFICES ASSUME top <= H - 1 PROVE FALSE
    BY <1>3, <1>6
  <2>1. p * (H - 1 - top) \in Nat /\ p * (H - 1 - top) = p * H - p - p * top
    BY <1>3, <1>5, <1>6
  <2>2. p * (a * s - H) \in Nat /\ p * (a * s - H) = p * (a * s) - p * H
    BY <1>2, <1>3, <1>5
  <2>3. s * y = s * lo + p * (a * s) /\ s * lo \in Nat
    <3>1. s * (lo + p * a) = s * lo + p * (a * s) /\ s * lo \in Nat
      BY <1>3, <1>5
    <3> QED
      BY <1>5, <3>1
  <2>4. p * H \in Int /\ p * top \in Int /\ p * (a * s) \in Int
    BY <1>2, <1>3, <1>5, <1>6
  <2>5. xlo + p * top = s * y
    BY <1>5, <1>9
  <2> DEFINE b1 == p * top   b2 == p * H   b3 == p * (a * s)   b4 == s * lo   b5 == s * y
             b6 == p * (H - 1 - top)   b7 == p * (a * s - H)
  <2>6. /\ b6 >= 0 /\ b6 = b2 - p - b1 /\ b7 >= 0 /\ b7 = b3 - b2 /\ b5 = b4 + b3 /\ b4 >= 0
        /\ b1 \in Int /\ b2 \in Int /\ b3 \in Int /\ b4 \in Int /\ xlo + b1 = b5
    BY <2>1, <2>2, <2>3, <2>4, <2>5
  <2> HIDE DEF b1, b2, b3, b4, b5, b6, b7
  <2> QED
    BY <1>5, <2>6
<1> QED
  BY <1>9, <1>10 DEF s, y, top, H

(* Shifting both operands establishes what the digits are computed from. *)
LEMMA NormaliseKeeps == ASSUME DivisionInv, Normalise PROVE DivisionInv'
<1> DEFINE s == Shift
           x == [j \in 0 .. nl + 1 |-> IF j < nl THEN num[j] ELSE Junk]
           y == [j \in 0 .. dl + 1 |-> IF j < dl THEN div[j] ELSE Junk]
           nd == LShift(x, nl, s)   dd == LShift(y, dl, s)
<1>1. /\ pc = "check" /\ CmpLimbs(num, div, nl, dl) >= 0
      /\ n' = nd.d /\ d' = dd.d /\ tnl' = nl + Bit(nd.c # 0)
      /\ v' = IF dl = 1 THEN Reciprocal1(d'[0]) ELSE Reciprocal2(d'[dl - 1], d'[dl - 2])
      /\ i' = tnl' - dl /\ q' = [j \in 0 .. nl |-> Junk] /\ pc' = "top"
      /\ num' = num /\ div' = div
  BY DEF Normalise, Shift, ShiftedLimbs
<1>2. Called /\ pc # "idle"
  BY <1>1 DEF DivisionInv
<1>3. /\ nl \in Nat /\ dl \in Nat /\ dl >= 1 /\ Holds(num, nl) /\ Holds(div, dl)
      /\ Val(num, MaxN) = Val(num, nl) /\ Val(div, MaxD) = Val(div, dl)
      /\ div[dl - 1] \in Limb \ {0}
  BY <1>2, Lengths
<1>4. nl >= dl
  BY <1>1, <1>3 DEF CmpLimbs
<1>5. s \in 0 .. W - 1
  BY <1>3, LeadingZerosIs DEF Shift
<1>6. nl' = nl /\ dl' = dl /\ Shift' = Shift
  <2>1. nl' = nl /\ dl' = dl
    BY <1>1 DEF nl, dl
  <2> QED
    BY <1>1, <2>1 DEF Shift
<1>7. /\ x \in [0 .. nl + 1 -> Limb] /\ Val(x, nl) = Val(num, nl)
      /\ y \in [0 .. dl + 1 -> Limb] /\ Val(y, dl) = Val(div, dl)
  <2>1. x \in [0 .. nl + 1 -> Limb] /\ y \in [0 .. dl + 1 -> Limb]
    BY <1>3, DivisionAssumption DEF Holds
  <2>2. (\A j \in 0 .. nl - 1 : num[j] = x[j]) /\ (\A j \in 0 .. dl - 1 : div[j] = y[j])
    BY <1>3
  <2> HIDE DEF x, y
  <2>3. Val(num, nl) = Val(x, nl) /\ Val(div, dl) = Val(y, dl)
    BY <1>3, <2>2, ValSame
  <2> QED
    BY <2>1, <2>3
<1> HIDE DEF x, y, s
<1>8. /\ nd.d \in [0 .. nl + 1 -> Limb] /\ nd.c = nd.d[nl]
      /\ Val(nd.d, nl + 1) = 2^s * Val(num, nl)
  <2>1. nl + 1 \in Nat /\ nl \in 1 .. nl + 1
    BY <1>3, <1>4
  <2> QED
    BY <1>5, <1>7, <2>1, LShiftIs
<1>9. dd.d \in [0 .. dl + 1 -> Limb] /\ Val(dd.d, dl + 1) = 2^s * Val(div, dl)
  <2>1. dl + 1 \in Nat /\ dl \in 1 .. dl + 1
    BY <1>3
  <2> QED
    BY <1>5, <1>7, <2>1, LShiftIs
<1> HIDE DEF nd, dd
<1>10. /\ n' \in [0 .. nl + 1 -> Limb] /\ Val(n', nl + 1) = 2^s * Val(num, nl)
       /\ tnl' = nl + Bit(n'[nl] # 0)
       /\ d' \in [0 .. dl + 1 -> Limb] /\ Val(d', dl + 1) = 2^s * Val(div, dl)
  BY <1>1, <1>8, <1>9
<1>11. Val(d', dl) = 2^s * Val(div, dl) /\ d'[dl - 1] >= B \div 2
  <2> DEFINE a == d'
  <2>1. a \in [0 .. dl + 1 -> Limb] /\ Val(a, dl + 1) = 2^Shift * Val(div, dl)
    BY <1>10 DEF s
  <2> HIDE DEF a
  <2>2. Val(a, dl) = 2^Shift * Val(div, dl) /\ a[dl - 1] >= B \div 2
    BY <1>2, <2>1, DivisorShifts
  <2> QED
    BY <2>2 DEF a, s
<1>12. /\ d'[dl - 1] \in B \div 2 .. B - 1 /\ d'[dl - 1] \in Limb
       /\ dl >= 2 => d'[dl - 2] \in Limb
  <2>1. d'[dl - 1] \in Limb /\ (dl >= 2 => d'[dl - 2] \in Limb)
    BY <1>3, <1>10
  <2> QED
    BY <1>11, <2>1, Base DEF Limb
<1>13. dl = 1 => IsReciprocal(v', d'[0], B)
  <2> SUFFICES ASSUME dl = 1 PROVE IsReciprocal(v', d'[0], B)
    OBVIOUS
  <2>1. dl - 1 = 0 /\ v' = Reciprocal1(d'[0])
    BY <1>1
  <2>2. d'[0] \in B \div 2 .. B - 1
    BY <1>12, <2>1
  <2> QED
    BY <2>1, <2>2, Reciprocal1Is
<1>14. dl >= 2 => IsReciprocal(v', Wide(d'[dl - 1], d'[dl - 2]), B * B)
  <2> SUFFICES ASSUME dl >= 2 PROVE IsReciprocal(v', Wide(d'[dl - 1], d'[dl - 2]), B * B)
    OBVIOUS
  <2> DEFINE d1 == d'[dl - 1]   d0 == d'[dl - 2]
  <2>1. v' = Reciprocal2(d1, d0) /\ d1 \in B \div 2 .. B - 1 /\ d0 \in Limb
    BY <1>1, <1>3, <1>12
  <2> HIDE DEF d1, d0
  <2>2. IsReciprocal(Reciprocal2(d1, d0), Wide(d1, d0), B * B)
    BY <2>1, Reciprocal2Is
  <2> QED
    BY <2>1, <2>2 DEF d1, d0
<1>15. /\ tnl' \in nl .. nl + 1 /\ i' \in 0 .. tnl' - dl
       /\ tnl' = nl => n'[nl] = 0
  BY <1>1, <1>3, <1>4, <1>10 DEF Bit
<1>16. q' \in [0 .. nl -> Limb]
  BY <1>1, DivisionAssumption
<1>17. Called'
  BY <1>1, <1>2 DEF Called
<1>18. Normalised'
  <2>1. ShiftedDivisor' = 2^s * Val(div, MaxD) /\ Top2' = Wide(d'[dl - 1], d'[dl - 2])
    BY <1>3, <1>6, <1>11 DEF ShiftedDivisor, Top2
  <2>2. 2^Shift' = 2^s /\ div' = div
    BY <1>1, <1>6 DEF s
  <2> QED
    BY <1>4, <1>6, <1>10, <1>11, <1>13, <1>14, <1>15, <1>16, <2>1, <2>2 DEF Normalised
<1>19. Untouched'
  <2>1. ShiftedNumerator' = Val(num, nl) * 2^s
    BY <1>1, <1>3, <1>6 DEF ShiftedNumerator, s
  <2>2. 2^s \in Nat /\ Val(num, nl) \in Nat
    <3>1. s \in 0 .. W
      BY <1>5, WordAssumption
    <3> QED
      BY <1>3, <3>1, TwoPowers, ValRange
  <2> DEFINE p == 2^s   z == Val(num, nl)
  <2>3. Val(n', nl + 1) = p * z /\ ShiftedNumerator' = z * p /\ p \in Nat /\ z \in Nat
    BY <1>10, <2>1, <2>2
  <2> HIDE DEF p, z
  <2>4. Val(n', nl + 1) = ShiftedNumerator'
    BY <2>3
  <2> QED
    BY <1>1, <1>6, <1>15, <2>4 DEF Untouched
<1>20. Partial' /\ DivisionIsExact'
  BY <1>1 DEF Partial, DivisionIsExact
<1> QED
  BY <1>17, <1>18, <1>19, <1>20 DEF DivisionInv

(* The topmost digit is 0 or 1, because the divisor is normalised; below   *)
(* it the numerator is less than the divisor in its place.                 *)
LEMMA TopDigitKeeps == ASSUME DivisionInv, TopDigit PROVE DivisionInv'
<1> USE DEF DivisionInv
<1> DEFINE x == From(n, i, dl)   s == SubLimbs(x, d, dl)
           fits == CmpLimbs(x, d, dl, dl) >= 0   b == Bit(fits)
           D == ShiftedDivisor   R == Val(x, dl)   o == Power(dl)
           k == nl + 1 - tnl   p == Power(i)   low == Val(n, i)   N == ShiftedNumerator
<1>1. /\ pc = "top" /\ pc' = "digit" /\ num' = num /\ div' = div /\ d' = d
      /\ tnl' = tnl /\ i' = i /\ v' = v /\ q' = [q EXCEPT ![i] = b]
      /\ n' = IF fits THEN Into(n, i, s.d) ELSE n
  BY DEF TopDigit
<1>2. /\ nl \in Nat /\ dl \in Nat /\ dl >= 1 /\ dl <= nl
      /\ Holds(d, dl) /\ Holds(n, nl + 1) /\ 0 .. nl \subseteq DOMAIN n
      /\ D \in Nat \ {0} /\ D < o /\ o <= 2 * D /\ o \in Nat
  BY <1>1, DivisorIs, PowerStep
<1>3. /\ nl' = nl /\ dl' = dl /\ Shift' = Shift /\ Top2' = Top2
      /\ ShiftedDivisor' = D /\ ShiftedNumerator' = N
  BY <1>1, SameOperands
<1>4. /\ i = tnl - dl /\ tnl \in nl .. nl + 1 /\ tnl \in Nat /\ i \in 0 .. nl /\ i \in Nat
      /\ k \in Nat /\ i + dl = tnl /\ i + dl + k = nl + 1
      /\ Val(n, nl + 1) = N
      /\ q \in [0 .. nl -> Limb] /\ n \in [0 .. nl + 1 -> Limb]
  <2>1. /\ tnl \in nl .. nl + 1 /\ i = tnl - dl /\ Val(n, nl + 1) = N
        /\ q \in [0 .. nl -> Limb] /\ n \in [0 .. nl + 1 -> Limb]
    BY <1>1 DEF Normalised, Untouched
  <2> QED
    BY <1>2, <2>1
<1>5. Holds(x, dl) /\ DOMAIN x = 0 .. dl - 1 /\ R \in Nat /\ R < o
  <2>1. \A j \in 0 .. dl - 1 : n[i + j] \in Limb
    BY <1>2, <1>4 DEF Holds
  <2>2. Holds(x, dl) /\ DOMAIN x = 0 .. dl - 1
    BY <2>1 DEF From, Holds
  <2> QED
    BY <1>2, <2>2, ValRange
<1>6. Val(From(n, i + dl, k), k) = 0
  <2>1. CASE tnl = nl
    <3> DEFINE z == From(n, i + dl, k)
    <3>1. k = 1 /\ n[nl] = 0 /\ i + dl = nl
      BY <1>1, <1>2, <1>4, <2>1 DEF Untouched
    <3>2. z[0] = 0 /\ 0 \in Limb
      BY <1>2, <3>1, Base DEF From, Limb
    <3> HIDE DEF z, k
    <3>3. Holds(z, 1)
      BY <3>2 DEF Holds
    <3> QED
      BY <3>1, <3>2, <3>3, FewLimbs DEF z
  <2>2. CASE tnl = nl + 1
    <3>1. k = 0
      BY <1>2, <2>2
    <3> HIDE DEF k
    <3> QED
      BY <3>1, ValZero
  <2>3. tnl = nl \/ tnl = nl + 1
    BY <1>2, <1>4
  <2> QED
    BY <2>1, <2>2, <2>3
<1>7. low \in Nat /\ low < p /\ p \in Nat \ {0}
  <2>1. Holds(n, i)
    BY <1>2, <1>4 DEF Holds
  <2> QED
    BY <1>4, <2>1, ValRange, PowerStep
<1>8. ASSUME NEW y, Holds(y, dl), DOMAIN y = 0 .. dl - 1
      PROVE  /\ Val(Into(n, i, y), nl + 1) = low + p * Val(y, dl)
             /\ N = low + p * R
  <2>1. Fits(y, n, i, dl, k)
    <3>1. 0 .. i + dl + k - 1 \subseteq DOMAIN n /\ Holds(n, i + dl + k)
      BY <1>2, <1>4
    <3> QED
      BY <1>8, <3>1 DEF Fits
  <2> HIDE DEF k, x
  <2>2. /\ Val(Into(n, i, y), i + dl + k)
             = Val(n, i) + Power(i) * (Val(y, dl) + Power(dl) * Val(From(n, i + dl, k), k))
        /\ Val(n, i + dl + k)
             = Val(n, i) + Power(i) * (Val(From(n, i, dl), dl) + Power(dl) * Val(From(n, i + dl, k), k))
    BY <1>2, <1>4, <2>1, IntoIs
  <2>3. Val(y, dl) \in Nat /\ Power(dl) \in Nat
    BY <1>2, <1>8, ValRange, PowerStep
  <2>4. Val(y, dl) + Power(dl) * 0 = Val(y, dl) /\ R + Power(dl) * 0 = R
    BY <1>5, <2>3
  <2> QED
    BY <1>4, <1>6, <2>2, <2>4 DEF x
<1>9. N = low + p * R
  BY <1>5, <1>8
<1>10. fits <=> R >= D
  <2>1. CmpLimbs(x, d, dl, dl) = IF R > D THEN 1 ELSE IF R = D THEN 0 ELSE -1
    BY <1>2, <1>5, CmpSameLength DEF ShiftedDivisor
  <2> HIDE DEF R, D
  <2> QED
    BY <1>2, <1>5, <2>1
<1>11. fits => s.c = 0 /\ Holds(s.d, dl) /\ DOMAIN s.d = 0 .. dl - 1 /\ Val(s.d, dl) = R - D
  <2> SUFFICES ASSUME R >= D
               PROVE  s.c = 0 /\ Holds(s.d, dl) /\ DOMAIN s.d = 0 .. dl - 1 /\ Val(s.d, dl) = R - D
    BY <1>10
  <2>1. /\ s.d \in Arrays(dl) /\ Holds(s.d, dl) /\ s.c \in {0, 1}
        /\ Val(s.d, dl) - o * s.c = R - D
    BY <1>2, <1>5, SubLimbsIs DEF ShiftedDivisor
  <2>2. Val(s.d, dl) \in Nat /\ Val(s.d, dl) < o /\ o \in Nat
    BY <1>2, <2>1, ValRange, PowerStep
  <2> DEFINE u == Val(s.d, dl)   c == s.c
  <2>3. u \in Nat /\ u < o /\ o \in Nat /\ c \in {0, 1} /\ u - o * c = R - D
    BY <2>1, <2>2
  <2>4. DOMAIN s.d = 0 .. dl - 1
    BY <2>1 DEF Arrays
  <2> HIDE DEF u, c, o, R, D, s
  <2>5. o * 0 = 0 /\ o * 1 = o
    BY <2>3
  <2>6. c = 0
    <3> SUFFICES ASSUME c = 1 PROVE FALSE
      BY <2>3
    <3> QED
      BY <1>2, <1>5, <2>3, <2>5
  <2>7. u = R - D
    BY <1>2, <1>5, <2>3, <2>5, <2>6
  <2> QED
    BY <2>1, <2>4, <2>6, <2>7 DEF u, c
<1> DEFINE r == R - b * D
<1>12. /\ b \in {0, 1} /\ r \in 0 .. D - 1
       /\ Val(n', nl + 1) = low + p * r
       /\ n' \in [0 .. nl + 1 -> Limb]
  <2>1. CASE fits
    <3>1. n' = Into(n, i, s.d) /\ b = 1 /\ Val(n', nl + 1) = low + p * Val(s.d, dl)
      BY <1>1, <1>8, <1>11, <2>1 DEF Bit
    <3>2. r = R - D
      <4> HIDE DEF b, R, D
      <4> QED
        BY <1>2, <3>1
    <3>3. \A j \in DOMAIN n : (IF j - i \in DOMAIN s.d THEN s.d[j - i] ELSE n[j]) \in Limb
      BY <1>2, <1>4, <1>11, <2>1 DEF Holds
    <3>4. n' \in [0 .. nl + 1 -> Limb]
      BY <1>4, <3>1, <3>3 DEF Into
    <3> HIDE DEF R, D, o
    <3>5. R >= D
      BY <1>10, <2>1
    <3>6. R - D \in 0 .. D - 1
      BY <1>2, <1>5, <3>5
    <3> QED
      BY <1>11, <2>1, <3>1, <3>2, <3>4, <3>6
  <2>2. CASE ~fits
    <3>1. n' = n /\ b = 0
      BY <1>1, <2>2 DEF Bit
    <3>2. Val(n', nl + 1) = low + p * R
      BY <1>4, <1>9, <3>1
    <3>3. r = R /\ R < D
      <4> HIDE DEF b, R, D
      <4> QED
        BY <1>2, <1>5, <1>10, <2>2, <3>1
    <3> HIDE DEF R, D
    <3> QED
      BY <1>2, <1>4, <1>5, <3>1, <3>2, <3>3
  <2> QED
    BY <2>1, <2>2
<1>13. b \in Limb
  BY <1>12, Base DEF Limb
<1> HIDE DEF b, x, s, fits
<1>14. Called'
  BY <1>1 DEF Called
<1>15. Normalised'
  <2>1. q' \in [0 .. nl -> Limb]
    BY <1>1, <1>4, <1>13
  <2> QED
    BY <1>1, <1>3, <1>12, <2>1 DEF Normalised
<1>16. Partial'
  <2> DEFINE z == From(q', i, 1)
  <2>1. z[0] = b /\ Holds(z, 1)
    <3>1. z[0] = q'[i]
      BY <1>4 DEF From
    <3>2. q'[i] = b
      BY <1>1, <1>4
    <3> HIDE DEF z
    <3> QED
      BY <1>13, <3>1, <3>2 DEF Holds
  <2>2. Val(z, 1) = b
    <3> HIDE DEF z
    <3> QED
      BY <2>1, FewLimbs
  <2>3. tnl' - dl' - i' + 1 = 1 /\ i' = i
    BY <1>1, <1>2, <1>3, <1>4
  <2>4. Val(From(q', i', tnl' - dl' - i' + 1), tnl' - dl' - i' + 1) = b
    BY <2>2, <2>3
  <2>5. r \in Int /\ R = b * D + r /\ D \in Nat /\ b \in Int
    <3> HIDE DEF R, D
    <3> QED
      BY <1>2, <1>5, <1>12
  <2> HIDE DEF r, R, D, p, low, N
  <2>6. low + p * r + p * (b * D) = N
    <3>1. p * (b * D + r) = p * (b * D) + p * r /\ p * (b * D) \in Int /\ p * r \in Int
      BY <1>7, <2>5
    <3>2. p * R = p * (b * D + r)
      BY <2>5
    <3> DEFINE f == p * (b * D)   g == p * r   h == p * R
    <3>3. h = f + g /\ f \in Int /\ g \in Int /\ N = low + h
      BY <1>9, <3>1, <3>2
    <3> HIDE DEF f, g, h
    <3> QED
      BY <1>7, <3>3 DEF f, g
  <2>7. low + p * r < p * D
    <3>1. p * (D - 1 - r) \in Nat /\ p * (D - 1 - r) = p * D - p - p * r
      BY <1>2, <1>7, <1>12 DEF D
    <3>2. p * D \in Int /\ p * r \in Int
      BY <1>7, <2>5
    <3> QED
      BY <1>7, <3>1, <3>2
  <2>8. /\ Val(n', nl' + 1) = low + p * r /\ Power(i') = p
        /\ ShiftedDivisor' = D /\ ShiftedNumerator' = N
    BY <1>3, <1>12, <2>3 DEF p
  <2> QED
    BY <2>4, <2>6, <2>7, <2>8 DEF Partial
<1>17. Untouched' /\ DivisionIsExact'
  BY <1>1 DEF Untouched, DivisionIsExact
<1> QED
  BY <1>14, <1>15, <1>16, <1>17

(* A result of l limbs, and its length as ll_num_limbs counts it. *)
LEMMA ResultIs ==
  ASSUME NEW l \in Nat, NEW x, Holds(x, l)
  PROVE  LET y == From(x, 0, l)
             k == NumLimbs(x, l)
         IN  /\ Val(y, k) = Val(x, l)
             /\ k > 0 => y[k - 1] # 0
<1> DEFINE y == From(x, 0, l)   k == NumLimbs(x, l)
<1>1. /\ k \in 0 .. l /\ Holds(x, k) /\ Val(x, l) = Val(x, k)
      /\ k > 0 => x[k - 1] \in Limb \ {0}
  BY NumLimbsIs
<1>2. \A j \in 0 .. l - 1 : y[j] = x[j]
  BY DEF From
<1> HIDE DEF y, k
<1>3. Val(x, k) = Val(y, k)
  <2>1. k \in Nat /\ \A j \in 0 .. k - 1 : x[j] = y[j]
    BY <1>1, <1>2
  <2> QED
    BY <1>1, <2>1, ValSame
<1>4. k > 0 => y[k - 1] # 0
  BY <1>1, <1>2
<1> QED
  BY <1>1, <1>3, <1>4 DEF y, k

(* s is the power of two that normalises, and V a divisor: what is left of *)
(* the shifted numerator is s times the remainder, and no bit besides.     *)
LEMMA ShiftsBack ==
  ASSUME NEW s \in Nat \ {0}, NEW V \in Nat \ {0}, NEW N \in Nat, NEW Q \in Nat,
         NEW r \in Nat, NEW t \in 0 .. s - 1,
         (s * r + t) + Q * (s * V) = N * s, s * r + t < s * V
  PROVE  N = V * Q + r /\ r < V
<1> DEFINE g == N - r - Q * V
<1>1. g \in Int /\ t = s * g
  <2>1. Q * (s * V) = s * (Q * V) /\ N * s = s * N
    OBVIOUS
  <2>2. s * (N - r - Q * V) = s * N - s * r - s * (Q * V)
    OBVIOUS
  <2>3. s * N \in Int /\ s * r \in Int /\ s * (Q * V) \in Int /\ Q * V \in Int /\ t \in Int
    OBVIOUS
  <2> DEFINE a == s * N   b == s * r   c == s * (Q * V)   e == s * (N - r - Q * V)
             f == Q * (s * V)   h == N * s
  <2>4. f = c /\ h = a /\ e = a - b - c /\ (b + t) + f = h /\ a \in Int /\ b \in Int /\ c \in Int
    BY <2>1, <2>2, <2>3
  <2> HIDE DEF a, b, c, e, f, h
  <2>5. t = e
    BY <2>3, <2>4
  <2> QED
    BY <2>3, <2>5 DEF e
<1> HIDE DEF g
<1>2. g = 0
  <2>1. ASSUME g >= 1 PROVE FALSE
    <3>1. s * (g - 1) \in Nat /\ s * (g - 1) = s * g - s /\ s * g \in Int
      BY <1>1, <2>1
    <3> QED
      BY <1>1, <3>1
  <2>2. ASSUME g <= -1 PROVE FALSE
    <3>1. s * (-1 - g) \in Nat /\ s * (-1 - g) = -s - s * g /\ s * g \in Int
      BY <1>1, <2>2
    <3> QED
      BY <1>1, <3>1
  <2> QED
    BY <1>1, <2>1, <2>2
<1>3. t = 0
  BY <1>1, <1>2
<1>4. r < V
  <2> SUFFICES ASSUME r >= V PROVE FALSE
    OBVIOUS
  <2>1. s * (r - V) \in Nat /\ s * (r - V) = s * r - s * V /\ s * r \in Int /\ s * V \in Int
    OBVIOUS
  <2> QED
    BY <1>3, <2>1
<1>5. N = V * Q + r
  <2>1. Q * V = V * Q /\ Q * V \in Int
    OBVIOUS
  <2> QED
    BY <1>2, <2>1 DEF g
<1> QED
  BY <1>4, <1>5

(* A quotient has no more limbs than are copied. *)
LEMMA QuotientFits ==
  ASSUME NEW a \in Nat, NEW b \in Nat, NEW V \in Nat, V >= Power(a),
         NEW N \in Nat, N < Power(a + b), NEW Q \in Nat, V * Q <= N
  PROVE  Q < Power(b)
<1> DEFINE p == Power(a)   k == Power(b)
<1>1. p \in Nat \ {0} /\ k \in Nat \ {0} /\ Power(a + b) = p * k
  BY PowerStep, PowerSum
<1> HIDE DEF p, k
<1> SUFFICES ASSUME Q >= k PROVE FALSE
  BY <1>1 DEF k
<1>2. V * (Q - k) \in Nat /\ V * (Q - k) = V * Q - V * k
  BY <1>1
<1>3. (V - p) * k \in Nat /\ (V - p) * k = V * k - p * k
  BY <1>1 DEF p
<1>4. V * Q \in Int /\ V * k \in Int /\ p * k \in Int
  BY <1>1
<1> QED
  BY <1>1, <1>2, <1>3, <1>4

(* Once there is no digit left, what is returned is the quotient and the   *)
(* remainder.                                                              *)
LEMMA FinishKeeps == ASSUME DivisionInv, Finish PROVE DivisionInv'
<1> USE DEF DivisionInv
<1> DEFINE s == 2^Shift   V == Val(div, dl)   U == Val(num, nl)   rest == Val(n, nl + 1)
           count == tnl - dl + 1   z == From(q, 0, count)   Q == Val(z, count)
           k == nl + 1 - dl
           x == RShift(n, nl + 1, Shift).d   r == Val(x, nl + 1)
<1>1. /\ pc = "digit" /\ i = 0 /\ pc' = "done" /\ num' = num /\ div' = div
      /\ out'.rd = From(x, 0, dl) /\ out'.rl = NumLimbs(x, dl)
      /\ out'.qd = From(q, 0, k) /\ out'.ql = NumLimbs(q, k)
  BY DEF Finish, Shift
<1>2. /\ nl \in Nat /\ dl \in Nat /\ dl >= 1 /\ dl <= nl
      /\ Holds(n, nl + 1) /\ Holds(q, nl + 1)
  BY <1>1, DivisorIs
<1>3. /\ tnl \in nl .. nl + 1 /\ n \in [0 .. nl + 1 -> Limb]
      /\ ShiftedDivisor = s * Val(div, MaxD)
  BY <1>1 DEF Normalised
<1>4. /\ Holds(num, nl) /\ Holds(div, dl)
      /\ Val(num, MaxN) = U /\ Val(div, MaxD) = V
      /\ div[dl - 1] \in Limb \ {0}
  BY <1>1, <1>2, Lengths
<1>5. Shift \in 0 .. W - 1 /\ s \in Nat \ {0}
  <2>1. Shift \in 0 .. W - 1 /\ Shift \in 0 .. W
    BY <1>4, LeadingZerosIs, WordAssumption DEF Shift
  <2> QED
    BY <2>1, TwoPowers
<1>6. /\ U \in Nat /\ U < Power(nl) /\ V \in Nat /\ V >= Power(dl - 1) /\ V < Power(dl)
  <2>1. dl - 1 \in Nat /\ (dl - 1) + 1 = dl /\ div[dl - 1] # 0
    BY <1>2, <1>4
  <2> DEFINE m == dl - 1
  <2>2. m \in Nat /\ m + 1 = dl /\ div[m] # 0
    BY <2>1
  <2> HIDE DEF m
  <2>3. Val(div, m + 1) >= Power(m)
    BY <1>4, <2>2, ValLower
  <2> QED
    BY <1>2, <1>4, <2>2, <2>3, ValRange DEF m
<1>7. Power(dl - 1) \in Nat \ {0} /\ V \in Nat \ {0}
  <2>1. Power(dl - 1) \in Nat \ {0}
    BY <1>2, PowerStep
  <2> HIDE DEF V
  <2> QED
    BY <1>6, <2>1
<1>8. /\ count \in Nat /\ count \in k .. k + 1 /\ k \in Nat /\ k \in 0 .. nl + 1
      /\ dl + k = nl + 1 /\ (dl - 1) + k = nl /\ k + (count - k) = count /\ count - k \in Nat
  BY <1>2, <1>3
<1>9. Holds(z, count) /\ (\A j \in 0 .. count - 1 : z[j] = q[j]) /\ Q \in Nat
  <2>1. \A j \in 0 .. count - 1 : z[j] = q[j] /\ j \in 0 .. (nl + 1) - 1
    BY <1>2, <1>3 DEF From
  <2> HIDE DEF z, count
  <2>2. Holds(z, count)
    BY <1>2, <2>1 DEF Holds
  <2> QED
    BY <1>8, <2>1, <2>2, ValRange
<1>10. rest + Q * (s * V) = U * s /\ rest < s * V
  <2>1. /\ rest + Power(0) * (Q * ShiftedDivisor) = U * s
        /\ rest < Power(0) * ShiftedDivisor
    <3>1. tnl - dl - i + 1 = count
      BY <1>1, <1>2, <1>3
    <3> HIDE DEF count, s
    <3> QED
      BY <1>1, <1>4, <3>1 DEF Partial, ShiftedNumerator, s
  <2>2. Power(0) = 1 /\ ShiftedDivisor = s * V
    BY <1>3, <1>4, PowerStep
  <2>3. s * V \in Int /\ Q * (s * V) \in Int
    <3> HIDE DEF s, V, Q
    <3> QED
      BY <1>5, <1>6, <1>9
  <2> DEFINE c == s * V   e == Q * c
  <2>4. /\ rest + 1 * e = U * s /\ rest < 1 * c /\ c \in Int /\ e \in Int
    BY <2>1, <2>2, <2>3
  <2> HIDE DEF c, e, s, V, Q, rest, U
  <2>5. 1 * e = e /\ 1 * c = c
    BY <2>4
  <2> QED
    BY <2>4, <2>5 DEF c, e
<1>11. x \in [0 .. nl + 1 -> Limb] /\ \E t \in 0 .. s - 1 : rest = s * r + t
  <2>1. nl + 1 \in Nat /\ nl + 1 \in 1 .. nl + 1
    BY <1>2
  <2> DEFINE m == nl + 1   h == Shift
  <2>2. m \in Nat /\ m \in 1 .. m /\ n \in [0 .. m -> Limb] /\ h \in 0 .. W - 1
    BY <1>3, <1>5, <2>1
  <2> HIDE DEF m, h
  <2>3. /\ RShift(n, m, h).d \in [0 .. m -> Limb]
        /\ \E t \in 0 .. 2^h - 1 : Val(n, m) = 2^h * Val(RShift(n, m, h).d, m) + t
    BY <2>2, RShiftIs
  <2> QED
    BY <2>3 DEF m, h
<1> HIDE DEF x
<1>12. Holds(x, nl + 1) /\ r \in Nat
  <2>1. Holds(x, nl + 1)
    BY <1>2, <1>11 DEF Holds
  <2> QED
    BY <1>2, <2>1, ValRange
<1>13. U = V * Q + r /\ r < V
  <2>1. PICK t \in 0 .. s - 1 : rest = s * r + t
    BY <1>11
  <2>2. (s * r + t) + Q * (s * V) = U * s /\ s * r + t < s * V
    BY <1>10, <2>1
  <2> HIDE DEF s, r, U, V, Q
  <2> QED
    BY <1>5, <1>6, <1>7, <1>9, <1>12, <2>2, ShiftsBack
<1>14. Holds(x, dl) /\ Val(x, dl) = r
  <2> DEFINE a == nl + 1
  <2>1. r < Power(dl) /\ Power(dl) \in Nat
    <3>1. Power(dl) \in Nat
      BY <1>2, PowerStep
    <3> HIDE DEF r, V
    <3> QED
      BY <1>6, <1>12, <1>13, <3>1
  <2>2. dl + k = a /\ Holds(x, a) /\ Val(x, a) < Power(dl)
    BY <1>8, <1>12, <2>1
  <2>3. Holds(x, dl)
    BY <1>2, <1>12 DEF Holds
  <2> HIDE DEF k, a
  <2>4. Val(x, dl) = Val(x, a)
    BY <1>2, <1>8, <2>2, UpperZero
  <2> QED
    BY <2>3, <2>4 DEF a
<1>15. Holds(q, k) /\ Val(q, k) = Q
  <2>1. Holds(q, k) /\ \A j \in 0 .. k - 1 : q[j] = z[j]
    <3> HIDE DEF z
    <3> QED
      BY <1>2, <1>8, <1>9 DEF Holds
  <2>2. Q < Power(k)
    <3> DEFINE a == dl - 1
    <3>1. a \in Nat /\ a + k = nl /\ V >= Power(a) /\ U < Power(nl)
      BY <1>2, <1>6, <1>8
    <3>2. V * Q <= U
      <4> HIDE DEF V, Q, U, r
      <4>1. V * Q \in Int
        BY <1>6, <1>9
      <4> QED
        BY <1>6, <1>12, <1>13, <4>1
    <3> HIDE DEF a, k, V, Q, U
    <3> QED
      BY <1>6, <1>8, <1>9, <3>1, <3>2, QuotientFits
  <2> DEFINE e == count - k
  <2>3. k + e = count /\ e \in Nat /\ k \in Nat
    BY <1>8
  <2> HIDE DEF e, k, count, z
  <2>4. Val(z, k) = Q
    <3>1. Holds(z, k + e) /\ Val(z, k + e) < Power(k)
      BY <1>9, <2>2, <2>3
    <3>2. Val(z, k) = Val(z, k + e)
      BY <2>3, <3>1, UpperZero
    <3> QED
      BY <2>3, <3>2
  <2>5. Val(q, k) = Val(z, k)
    BY <2>1, <2>3, ValSame
  <2> QED
    BY <2>1, <2>4, <2>5
<1> HIDE DEF s, rest, count, z, Q, r, V, U
<1>16. U \div V = Q /\ U % V = r
  <2>1. r \in 0 .. V - 1 /\ U \in Int /\ Q \in Int
    BY <1>6, <1>9, <1>12, <1>13
  <2> QED
    BY <1>7, <1>13, <2>1, DivModIs
<1>17. /\ Val(out'.rd, out'.rl) = r
       /\ out'.rl > 0 => out'.rd[out'.rl - 1] # 0
       /\ Val(out'.qd, out'.ql) = Q
       /\ out'.ql > 0 => out'.qd[out'.ql - 1] # 0
  <2>1. /\ Val(From(x, 0, dl), NumLimbs(x, dl)) = r
        /\ NumLimbs(x, dl) > 0 => From(x, 0, dl)[NumLimbs(x, dl) - 1] # 0
    BY <1>2, <1>14, ResultIs
  <2> HIDE DEF k
  <2>2. /\ Val(From(q, 0, k), NumLimbs(q, k)) = Q
        /\ NumLimbs(q, k) > 0 => From(q, 0, k)[NumLimbs(q, k) - 1] # 0
    BY <1>8, <1>15, ResultIs
  <2> QED
    BY <1>1, <2>1, <2>2
<1>18. DivisionIsExact'
  <2>1. Val(num', MaxN) = U /\ Val(div', MaxD) = V
    BY <1>1, <1>4
  <2> QED
    BY <1>16, <1>17, <2>1 DEF DivisionIsExact
<1>19. Called' /\ Normalised' /\ Untouched' /\ Partial'
  BY <1>1 DEF Called, Normalised, Untouched, Partial
<1> QED
  BY <1>18, <1>19

------------------------------------------------------------------------------
(* The invariant holds at the start and is kept by every step. *)
LEMMA InitHolds == Init => DivisionInv
<1> SUFFICES ASSUME Init PROVE DivisionInv
  OBVIOUS
<1>1. pc = "idle" /\ num = Zeros(MaxN) /\ div = Zeros(MaxD)
  BY DEF Init
<1>2. Zeros(MaxN) \in Arrays(MaxN) /\ Zeros(MaxD) \in Arrays(MaxD)
  <2>1. 0 \in Limb
    BY Base DEF Limb
  <2> QED
    BY <2>1 DEF Zeros, Arrays
<1>3. Called
  BY <1>1, <1>2 DEF Called
<1> QED
  BY <1>1, <1>3 DEF DivisionInv, Normalised, Untouched, Partial, DivisionIsExact

(* Every action keeps the invariant. *)
LEMMA NextKeeps == DivisionInv /\ [Next]_vars => DivisionInv'
<1> SUFFICES ASSUME DivisionInv, [Next]_vars PROVE DivisionInv'
  OBVIOUS
<1>1. ASSUME Call PROVE DivisionInv'
  <2>1. pc' = "check" /\ num' \in Numerators /\ div' \in Divisors \ {Zeros(MaxD)}
    BY <1>1 DEF Call
  <2>2. Called'
    BY <2>1, DivisionAssumption DEF Called
  <2> QED
    BY <2>1, <2>2 DEF DivisionInv, Normalised, Untouched, Partial, DivisionIsExact
<1>2. ASSUME Return PROVE DivisionInv'
  <2>1. pc' = "idle" /\ num' = Zeros(MaxN) /\ div' = Zeros(MaxD)
    BY <1>2 DEF Return
  <2>2. Zeros(MaxN) \in Arrays(MaxN) /\ Zeros(MaxD) \in Arrays(MaxD)
    <3>1. 0 \in Limb
      BY Base DEF Limb
    <3> QED
      BY <3>1 DEF Zeros, Arrays
  <2>3. Called'
    BY <2>1, <2>2 DEF Called
  <2> QED
    BY <2>1, <2>3 DEF DivisionInv, Normalised, Untouched, Partial, DivisionIsExact
<1>3. CASE UNCHANGED vars
  <2>1. /\ pc' = pc /\ num' = num /\ div' = div /\ n' = n /\ d' = d /\ q' = q
        /\ tnl' = tnl /\ i' = i /\ v' = v /\ out' = out
    BY <1>3 DEF vars
  <2>2. /\ nl' = nl /\ dl' = dl /\ Shift' = Shift /\ Top2' = Top2
        /\ ShiftedDivisor' = ShiftedDivisor /\ ShiftedNumerator' = ShiftedNumerator
    BY <2>1, SameOperands
  <2>3. Called' /\ DivisionIsExact'
    BY <2>1 DEF DivisionInv, Called, DivisionIsExact
  <2>4. Normalised'
    BY <2>1, <2>2 DEF DivisionInv, Normalised
  <2>5. Untouched'
    BY <2>1, <2>2 DEF DivisionInv, Untouched
  <2>6. Partial'
    BY <2>1, <2>2 DEF DivisionInv, Partial
  <2> QED
    BY <2>3, <2>4, <2>5, <2>6 DEF DivisionInv
<1>4. Smaller \/ Normalise \/ TopDigit \/ Finish => DivisionInv'
  BY SmallerKeeps, NormaliseKeeps, TopDigitKeeps, FinishKeeps
<1>5. Digit => DivisionInv'
  BY Digit1Keeps, Digit2Keeps, DigitLargestKeeps, DigitNKeeps DEF Digit
<1> QED
  BY <1>1, <1>2, <1>3, <1>4, <1>5 DEF Next

(* The invariant of ll_div: see DivisionInv. *)
THEOREM DivisionInvariant == Spec => []DivisionInv
  BY InitHolds, NextKeeps, PTL DEF Spec

(* ll_div returns the quotient and the remainder, for limbs of every width *)
(* and operands of every length.                                           *)
THEOREM DivisionAlwaysExact == Spec => []DivisionIsExact
<1>1. DivisionInv => DivisionIsExact
  BY DEF DivisionInv
<1> QED
  BY <1>1, DivisionInvariant, PTL

(* After every digit, what has been found and what is left make up the     *)
(* numerator, and what is left is below the divisor.                       *)
THEOREM AlwaysPartialDivision == Spec => []PartialDivision
<1>1. ASSUME DivisionInv PROVE PartialDivision
  <2> SUFFICES ASSUME pc = "digit"
      PROVE  LET count == tnl - dl - i + 1
                 rest == Val(n, nl + 1)
             IN  /\ rest + Val(From(q, i, count), count) * B^i * Val(d, dl)
                      = Val(num, MaxN) * 2^LeadingZeros(div[dl - 1])
                 /\ rest < B^i * Val(d, dl)
    BY DEF PartialDivision
  <2> DEFINE count == tnl - dl - i + 1   rest == Val(n, nl + 1)   Q == Val(From(q, i, count), count)
             D == ShiftedDivisor   p == Power(i)   N == ShiftedNumerator
  <2>1. /\ nl \in Nat /\ dl \in Nat /\ dl >= 1 /\ dl <= nl /\ nl <= MaxN /\ MaxN \in Nat
        /\ D \in Nat /\ Holds(q, nl + 1)
    BY <1>1, DivisorIs DEF DivisionInv
  <2>2. tnl \in nl .. nl + 1 /\ i \in 0 .. tnl - dl /\ tnl \in Nat
    BY <1>1, <2>1 DEF DivisionInv, Normalised
  <2>3. B^i = p /\ p \in Nat
    <3>1. i \in 0 .. MaxN + 1 /\ i \in Nat
      BY <2>1, <2>2
    <3> QED
      BY <3>1, PowersAre, PowerStep
  <2>4. rest + p * (Q * D) = N /\ rest < p * D
    BY <1>1 DEF DivisionInv, Partial
  <2>5. Q \in Nat
    <3> DEFINE y == From(q, i, count)
    <3>1. count \in Nat
      BY <2>1, <2>2
    <3>2. \A j \in 0 .. count - 1 : y[j] = q[i + j] /\ i + j \in 0 .. (nl + 1) - 1
      BY <2>1, <2>2 DEF From
    <3> HIDE DEF y, count
    <3>3. Holds(y, count)
      BY <2>1, <3>2 DEF Holds
    <3> QED
      BY <3>1, <3>3, ValRange DEF y
  <2>6. Val(d, dl) = D /\ Val(num, MaxN) * 2^LeadingZeros(div[dl - 1]) = N
    BY DEF ShiftedDivisor, ShiftedNumerator, Shift
  <2> HIDE DEF count, rest, Q, D, p, N
  <2>7. Q * p * D = p * (Q * D)
    BY <2>1, <2>3, <2>5
  <2>8. rest + Q * B^i * D = N
    BY <2>3, <2>4, <2>7
  <2> QED
    BY <2>3, <2>4, <2>6, <2>8 DEF count, rest, Q
<1> QED
  BY <1>1, DivisionInvariant, PTL

(* The digit estimated from three limbs is right or one too large. *)
THEOREM AlwaysOneTooLarge == Spec => []EstimateOneTooLarge
<1>1. ASSUME DivisionInv PROVE EstimateOneTooLarge
  <2> SUFFICES ASSUME pc = "digit", i > 0, dl >= 3, ~TopEqual
      PROVE  Estimate.q - (Val(n, nl + 1) \div (B^(i - 1) * Val(d, dl))) \in {0, 1}
    BY DEF EstimateOneTooLarge
  <2> DEFINE e == Estimate.q   w == WindowVal   D == ShiftedDivisor   p == Power(i - 1)
             low == Val(n, i - 1)   rest == Val(n, nl + 1)   a == w \div D   c == w % D
  <2>1. /\ D \in Nat \ {0} /\ nl \in Nat /\ dl \in Nat /\ nl <= MaxN /\ MaxN \in Nat
    BY <1>1, DivisorIs DEF DivisionInv
  <2>2. /\ i \in Nat /\ i + dl <= nl + 1 /\ w \in Nat
        /\ low \in Nat /\ low < p /\ p \in Nat \ {0} /\ rest = low + p * w
    BY <1>1, WindowIs DEF DivisionInv
  <2>3. e \in Limb /\ w - e * D \in -D .. D - 1
    BY <1>1, EstimateIs DEF DivisionInv
  <2>4. B^(i - 1) = p
    <3>1. i - 1 \in 0 .. MaxN + 1
      BY <2>1, <2>2
    <3> QED
      BY <3>1, PowersAre
  <2>5. e \in Int
    BY <2>3, Base DEF Limb
  <2> HIDE DEF e, w, D, p, low, rest
  <2>6. a \in Int /\ c \in 0 .. D - 1 /\ w = D * a + c
    BY <2>1, <2>2, DivMod
  <2> HIDE DEF a, c
  <2>7. rest \div (p * D) = a
    <3> DEFINE m == p * D   r == p * c + low
    <3>1. m \in Nat \ {0} /\ p * c \in Nat
      BY <2>1, <2>2, <2>6
    <3>2. p * (D - 1 - c) \in Nat /\ p * (D - 1 - c) = p * D - p - p * c
      BY <2>1, <2>2, <2>6
    <3>3. r \in 0 .. m - 1
      BY <2>2, <3>1, <3>2
    <3>4. p * w = m * a + p * c
      <4>1. p * (D * a + c) = (p * D) * a + p * c
        BY <2>1, <2>2, <2>6
      <4> QED
        BY <2>6, <4>1
    <3>5. rest = m * a + r /\ rest \in Int
      <4>1. m * a \in Int
        BY <2>6, <3>1
      <4> DEFINE f == m * a   g == p * c   h == p * w
      <4>2. f \in Int /\ g \in Nat /\ h = f + g /\ rest = low + h
        BY <2>2, <3>1, <3>4, <4>1
      <4> HIDE DEF f, g, h
      <4>3. rest = f + (g + low) /\ rest \in Int
        BY <2>2, <4>2
      <4> QED
        BY <4>3 DEF f, g
    <3> HIDE DEF m, r
    <3> QED
      BY <2>6, <3>1, <3>3, <3>5, DivModIs DEF m
  <2>8. e - a \in {0, 1}
    <3> DEFINE g == e - a
    <3>1. g \in Int /\ w - e * D = c - g * D
      <4>1. (e - a) * D = e * D - D * a
        BY <2>1, <2>5, <2>6
      <4>2. e * D \in Int /\ D * a \in Int
        BY <2>1, <2>5, <2>6
      <4> QED
        BY <2>5, <2>6, <4>1, <4>2
    <3> HIDE DEF g
    <3>2. ASSUME g >= 2 PROVE FALSE
      <4>1. (g - 2) * D \in Nat /\ (g - 2) * D = g * D - 2 * D /\ g * D \in Int
        BY <2>1, <3>1, <3>2
      <4> QED
        BY <2>1, <2>3, <2>6, <3>1, <4>1
    <3>3. ASSUME g <= -1 PROVE FALSE
      <4>1. (-1 - g) * D \in Nat /\ (-1 - g) * D = -D - g * D /\ g * D \in Int
        BY <2>1, <3>1, <3>3
      <4> QED
        BY <2>1, <2>3, <2>6, <3>1, <4>1
    <3>4. g \in {0, 1}
      BY <3>1, <3>2, <3>3
    <3> QED
      BY <3>4 DEF g
  <2> QED
    BY <2>4, <2>7, <2>8 DEF e, rest, D, ShiftedDivisor
<1> QED
  BY <1>1, DivisionInvariant, PTL

(* The reciprocal is that of the top two limbs of the divisor. *)
THEOREM AlwaysReciprocal == Spec => []ReciprocalIsExact
<1>1. ASSUME DivisionInv PROVE ReciprocalIsExact
  <2> SUFFICES ASSUME pc = "digit", dl >= 2 PROVE v = ((B^3 - 1) \div Wide(d[dl - 1], d[dl - 2])) - B
    BY DEF ReciprocalIsExact
  <2> DEFINE D == Top2   M == B * B   K == M * B - (B + v) * D
  <2>1. B^3 = M * B
    <3>1. 3 \in 0 .. MaxN + 1
      BY <1>1, DivisorIs DEF DivisionInv
    <3>2. 2 \in Nat /\ 2 + 1 = 3
      OBVIOUS
    <3>3. Power(2 + 1) = B * Power(2) /\ Power(2) = B * B
      BY <3>2, PowerStep, FewLimbs
    <3>4. Power(3) = B * (B * B)
      BY <3>2, <3>3
    <3>5. B * (B * B) = M * B
      BY Base
    <3> QED
      BY <3>1, <3>4, <3>5, PowersAre
  <2>2. D \in Nat /\ D >= B /\ v \in Limb /\ K \in 1 .. D
    BY <1>1, TopIs DEF DivisionInv, IsReciprocal
  <2>3. B \in Nat /\ B >= 2 /\ v \in Nat /\ M * B \in Nat
    BY <2>2, Base DEF Limb
  <2> DEFINE c == M * B
  <2> HIDE DEF D, c, M
  <2>4. c - 1 = D * (B + v) + (K - 1) /\ c \in Nat
    <3>1. (B + v) * D = D * (B + v) /\ (B + v) * D \in Int
      BY <2>2, <2>3
    <3> QED
      BY <2>2, <2>3, <3>1 DEF c
  <2>5. (c - 1) \div D = B + v
    <3>1. K - 1 \in 0 .. D - 1 /\ c - 1 \in Int /\ B + v \in Int /\ D \in Nat \ {0}
      BY <2>2, <2>3, <2>4
    <3> HIDE DEF K
    <3> QED
      BY <2>4, <3>1, DivModIs
  <2> QED
    BY <2>1, <2>3, <2>5 DEF c, D, Top2
<1> QED
  BY <1>1, DivisionInvariant, PTL
==============================================================================
