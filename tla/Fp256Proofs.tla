---------------------------- MODULE Fp256Proofs ----------------------------
(***************************************************************************)
(* The public functions on 256-bit numbers keep their objects in the form  *)
(* that all of them rely on, and those of fp256_mod.c return what their    *)
(* comments promise, for limbs of any width: the theorems of Fp256.  The   *)
(* client of fp256_mont.c never loses a factor R: the theorem of MontField, *)
(* whose objects are those of Fp256 here.                                  *)
(***************************************************************************)
EXTENDS Fp256, TLAPS, WellFoundedInduction

CONSTANTS Words, Moduli

(* The variables of MontField that Fp256 has not. *)
VARIABLES mctx, mont, num

Field == INSTANCE MontField

(* A set of numbers that is not empty has a least element.                 *)
LEMMA Least ==
  ASSUME NEW T, T \subseteq Nat, T # {}
  PROVE  \E m \in T : \A k \in T : m <= k
<1>1. IsWellFoundedOn(OpToRel(<, Nat), Nat)
  BY NatLessThanWellFounded
<1>2. PICK m \in T : \A k \in T : ~(<<k, m>> \in OpToRel(<, Nat))
  BY <1>1, WFMin
<1>3. \A k \in T : ~(k < m)
  BY <1>2 DEF OpToRel
<1> QED
  BY <1>3

(* A set that has 0 and with a number the next one has them all.           *)
LEMMA Induction ==
  ASSUME NEW T, 0 \in T, \A n \in Nat : n \in T => n + 1 \in T
  PROVE  Nat \subseteq T
<1> SUFFICES ASSUME Nat \ T # {} PROVE FALSE
  OBVIOUS
<1>1. PICK m \in Nat \ T : \A k \in Nat \ T : m <= k
  BY Least
<1>2. m - 1 \in Nat /\ m - 1 \in T
  BY <1>1
<1> QED
  BY <1>1, <1>2

(* The same for the numbers up to a bound.                                 *)
LEMMA InductionTo ==
  ASSUME NEW n \in Nat, NEW T, 0 \in T, \A k \in 0 .. n - 1 : k \in T => k + 1 \in T
  PROVE  0 .. n \subseteq T
<1> DEFINE S == {k \in Nat : k <= n => k \in T}
<1>1. 0 \in S
  OBVIOUS
<1>2. \A k \in Nat : k \in S => k + 1 \in S
  OBVIOUS
<1>3. Nat \subseteq S
  <2> HIDE DEF S
  <2> QED
    BY <1>1, <1>2, Induction
<1> QED
  BY <1>3

(* Steps from c that stay in S, and a function whose values they are.      *)
Steps(n, S, c, G) == c \in S /\ \A k \in 1 .. n : \A p \in S : G[k][p] \in S
Follows(g, n, c, G) == g[0] = c /\ \A k \in 1 .. n : g[k] = G[k][g[k - 1]]

(* A function that is defined by its first value and by how a value        *)
(* follows from the one before.                                            *)
LEMMA Recursion ==
  ASSUME NEW n \in Nat, NEW S, NEW c, NEW G, Steps(n, S, c, G)
  PROVE  \E g \in [0 .. n -> S] : Follows(g, n, c, G)
<1> USE DEF Steps, Follows
<1> DEFINE Body(g, m) == [k \in 0 .. m |-> IF k = 0 THEN c ELSE G[k][g[k - 1]]]
           T == {m \in Nat : m <= n => \E g \in [0 .. m -> S] : g = Body(g, m)}
<1>1. 0 \in T
  <2>1. [k \in 0 .. 0 |-> c] \in [0 .. 0 -> S]
    OBVIOUS
  <2>2. [k \in 0 .. 0 |-> c] = Body([k \in 0 .. 0 |-> c], 0)
    OBVIOUS
  <2> QED
    BY <2>1, <2>2
<1>2. ASSUME NEW m \in Nat, m \in T PROVE m + 1 \in T
  <2> SUFFICES ASSUME m + 1 <= n PROVE \E g \in [0 .. m + 1 -> S] : g = Body(g, m + 1)
    OBVIOUS
  <2>1. PICK g \in [0 .. m -> S] : g = Body(g, m)
    BY <1>2
  <2> DEFINE h == [k \in 0 .. m + 1 |-> IF k = m + 1 THEN G[m + 1][g[m]] ELSE g[k]]
  <2>2. G[m + 1][g[m]] \in S
    BY <2>1
  <2>3. h \in [0 .. m + 1 -> S]
    BY <2>2
  <2>4. ASSUME NEW k \in 0 .. m + 1
        PROVE  h[k] = IF k = 0 THEN c ELSE G[k][h[k - 1]]
    <3>1. CASE k = m + 1
      BY <3>1
    <3>2. CASE k \in 0 .. m
      <4>1. h[k] = g[k] /\ (k # 0 => h[k - 1] = g[k - 1])
        BY <3>2
      <4>2. g[k] = IF k = 0 THEN c ELSE G[k][g[k - 1]]
        BY <2>1, <3>2
      <4> QED
        BY <4>1, <4>2
    <3> QED
      BY <3>1, <3>2
  <2>5. h = Body(h, m + 1)
    <3> HIDE DEF h
    <3> QED
      BY <2>3, <2>4
  <2> QED
    BY <2>3, <2>5
<1>3. Nat \subseteq T
  <2> HIDE DEF T
  <2> QED
    BY <1>1, <1>2, Induction
<1>4. PICK g \in [0 .. n -> S] : g = Body(g, n)
  BY <1>3
<1> QED
  BY <1>4


------------------------------------------------------------------------------
(* Division with remainder.                                                *)
LEMMA DivMod ==
  ASSUME NEW x \in Int, NEW d \in Nat \ {0}
  PROVE  /\ x \div d \in Int /\ x % d \in 0 .. d - 1
         /\ x = d * (x \div d) + (x % d)
  OBVIOUS

(* Quotient and remainder are what a quotient and a remainder are.         *)
LEMMA DivModIs ==
  ASSUME NEW d \in Nat \ {0}, NEW x \in Int, NEW q \in Int, NEW s \in 0 .. d - 1,
         x = d * q + s
  PROVE  x \div d = q /\ x % d = s
  OBVIOUS

(* The quotient of a natural number is one, and not larger than it.        *)
LEMMA QuotientBelow ==
  ASSUME NEW x \in Nat, NEW d \in Nat \ {0}
  PROVE  x \div d \in 0 .. x
<1> DEFINE q == x \div d   s == x % d
<1>1. q \in Int /\ s \in 0 .. d - 1 /\ x = d * q + s
  BY DivMod
<1> HIDE DEF q, s
<1>2. q >= 0
  <2>1. CASE q < 0
    <3>1. d * q <= -d
      BY <1>1, <2>1
    <3> QED
      BY <1>1, <3>1
  <2> QED
    BY <1>1, <2>1
<1>3. d * q >= q
  BY <1>1, <1>2
<1>4. d * q \in Int
  BY <1>1
<1>5. q <= x
  BY <1>1, <1>3, <1>4
<1> QED
  BY <1>1, <1>2, <1>5 DEF q

(* The quotient of a product that is smaller than the divisor times y.     *)
LEMMA QuotientLess ==
  ASSUME NEW x \in Nat, NEW d \in Nat \ {0}, NEW y \in Nat, x < d * y
  PROVE  x \div d \in 0 .. y - 1
<1> DEFINE q == x \div d   s == x % d
<1>1. q \in Int /\ s \in 0 .. d - 1 /\ x = d * q + s
  BY DivMod
<1>2. q >= 0
  BY QuotientBelow
<1> HIDE DEF q, s
<1>3. q < y
  <2>1. CASE q >= y
    <3>1. d * q >= d * y
      BY <1>1, <2>1
    <3>2. d * q \in Int /\ d * y \in Int
      BY <1>1
    <3> QED
      BY <1>1, <3>1, <3>2
  <2> QED
    BY <1>1, <2>1
<1> QED
  BY <1>1, <1>2, <1>3 DEF q

(* x and y have the same remainder.                                        *)
Congruent(x, y, n) == \E k \in Int : x = y + n * k

(* Congruence is what the properties say with a remainder of zero.         *)
LEMMA ZeroRemainder ==
  ASSUME NEW n \in Nat \ {0}, NEW x \in Int, NEW y \in Int
  PROVE  (x - y) % n = 0 <=> Congruent(x, y, n)
<1> DEFINE z == x - y
<1>1. z \in Int /\ x = y + z
  OBVIOUS
<1>2. ASSUME z % n = 0 PROVE Congruent(x, y, n)
  <2>1. z \div n \in Int /\ z = n * (z \div n) + (z % n)
    BY <1>1, DivMod
  <2> HIDE DEF z
  <2>2. x = y + n * (z \div n)
    BY <1>1, <1>2, <2>1
  <2> QED
    BY <2>1, <2>2 DEF Congruent
<1>3. ASSUME Congruent(x, y, n) PROVE z % n = 0
  <2>1. PICK k \in Int : x = y + n * k
    BY <1>3 DEF Congruent
  <2>2. z = n * k + 0 /\ 0 \in 0 .. n - 1
    BY <2>1
  <2> HIDE DEF z
  <2> QED
    BY <1>1, <2>2, DivModIs
<1> QED
  BY <1>2, <1>3

(* It is an equivalence.                                                   *)
LEMMA Same ==
  ASSUME NEW n \in Int, NEW x \in Int
  PROVE  Congruent(x, x, n)
<1>1. 0 \in Int /\ x = x + n * 0
  OBVIOUS
<1> QED
  BY <1>1 DEF Congruent

(* ... in both directions                                                  *)
LEMMA Reversed ==
  ASSUME NEW n \in Int, NEW x \in Int, NEW y \in Int, Congruent(x, y, n)
  PROVE  Congruent(y, x, n)
<1>1. PICK k \in Int : x = y + n * k
  BY DEF Congruent
<1>2. -k \in Int /\ n * (-k) = -(n * k) /\ n * k \in Int
  OBVIOUS
<1>3. y = x + n * (-k)
  BY <1>1, <1>2
<1> QED
  BY <1>2, <1>3 DEF Congruent

(* ... and from one to the next.                                           *)
LEMMA Chain ==
  ASSUME NEW n \in Int, NEW x \in Int, NEW y \in Int, NEW z \in Int,
         Congruent(x, y, n), Congruent(y, z, n)
  PROVE  Congruent(x, z, n)
<1>1. PICK k \in Int : x = y + n * k
  BY DEF Congruent
<1>2. PICK l \in Int : y = z + n * l
  BY DEF Congruent
<1>3. k + l \in Int /\ n * (k + l) = n * k + n * l /\ n * k \in Int /\ n * l \in Int
  OBVIOUS
<1>4. x = z + n * (k + l)
  BY <1>1, <1>2, <1>3
<1> QED
  BY <1>3, <1>4 DEF Congruent

(* Sums, differences and products of congruent numbers.                    *)
LEMMA Sums ==
  ASSUME NEW n \in Int, NEW x \in Int, NEW y \in Int, NEW p \in Int, NEW q \in Int,
         Congruent(x, y, n), Congruent(p, q, n)
  PROVE  Congruent(x + p, y + q, n) /\ Congruent(x - p, y - q, n)
<1>1. PICK k \in Int : x = y + n * k
  BY DEF Congruent
<1>2. PICK l \in Int : p = q + n * l
  BY DEF Congruent
<1>3. /\ k + l \in Int /\ n * (k + l) = n * k + n * l /\ n * k \in Int /\ n * l \in Int
      /\ k - l \in Int /\ n * (k - l) = n * k - n * l
  OBVIOUS
<1>4. x + p = (y + q) + n * (k + l) /\ x - p = (y - q) + n * (k - l)
  BY <1>1, <1>2, <1>3
<1> QED
  BY <1>3, <1>4 DEF Congruent

(* One factor may be replaced.                                             *)
LEMMA Multiple ==
  ASSUME NEW n \in Int, NEW x \in Int, NEW y \in Int, NEW c \in Int, Congruent(x, y, n)
  PROVE  Congruent(c * x, c * y, n) /\ Congruent(x * c, y * c, n)
<1>1. PICK k \in Int : x = y + n * k
  BY DEF Congruent
<1>2. c * (y + n * k) = c * y + n * (c * k) /\ (y + n * k) * c = y * c + n * (c * k) /\ c * k \in Int
  OBVIOUS
<1>3. c * x = c * y + n * (c * k) /\ x * c = y * c + n * (c * k)
  BY <1>1, <1>2
<1> QED
  BY <1>2, <1>3 DEF Congruent

(* ... or both.                                                            *)
LEMMA Products ==
  ASSUME NEW n \in Int, NEW x \in Int, NEW y \in Int, NEW p \in Int, NEW q \in Int,
         Congruent(x, y, n), Congruent(p, q, n)
  PROVE  Congruent(x * p, y * q, n)
<1>1. Congruent(x * p, y * p, n) /\ Congruent(y * p, y * q, n)
  BY Multiple
<1>2. x * p \in Int /\ y * p \in Int /\ y * q \in Int
  OBVIOUS
<1> QED
  BY <1>1, <1>2, Chain

(* A number is congruent to its remainder, and to itself plus a multiple.  *)
LEMMA Remainder ==
  ASSUME NEW n \in Nat \ {0}, NEW x \in Int
  PROVE  /\ x % n \in 0 .. n - 1 /\ Congruent(x % n, x, n) /\ Congruent(x, x % n, n)
         /\ \A k \in Int : Congruent(x + n * k, x, n)
<1>1. x \div n \in Int /\ x % n \in 0 .. n - 1 /\ x = n * (x \div n) + (x % n)
  BY DivMod
<1> DEFINE s == x % n   q == x \div n
<1>2. q \in Int /\ s \in Int /\ n * q \in Int /\ x = s + n * q
  BY <1>1
<1> HIDE DEF s, q
<1>3. Congruent(x, s, n)
  BY <1>2 DEF Congruent
<1>4. Congruent(s, x, n)
  BY <1>2, <1>3, Reversed
<1>5. \A k \in Int : Congruent(x + n * k, x, n)
  BY DEF Congruent
<1> QED
  BY <1>1, <1>3, <1>4, <1>5 DEF s

(* Two remainders that are congruent are equal.                            *)
LEMMA EqualBelow ==
  ASSUME NEW n \in Nat \ {0}, NEW x \in 0 .. n - 1, NEW y \in 0 .. n - 1, Congruent(x, y, n)
  PROVE  x = y
<1>1. PICK k \in Int : x = y + n * k
  BY DEF Congruent
<1>2. k >= 1 => n * k >= n
  BY <1>1
<1>3. k <= -1 => n * k <= -n
  BY <1>1
<1>4. n * k \in Int /\ (k = 0 => n * k = 0)
  BY <1>1
<1> QED
  BY <1>1, <1>2, <1>3, <1>4

------------------------------------------------------------------------------
(* Powers.                                                                 *)

(* The bits of an object.                                                  *)
LEMMA Bits == 4 * W \in Nat \ {0} /\ W \in Nat \ {0} /\ W <= 4 * W
  BY WordAssumption

(* Powers of two up to M are positive numbers.                             *)
LEMMA TwoPowers == \A s \in 0 .. 4 * W : 2^s \in Nat \ {0}
<1> DEFINE m == 4 * W
           T == {s \in 0 .. m : 2^s \in Nat \ {0}}
<1>1. m \in Nat /\ \A s \in 0 .. m - 1 : 2^(s + 1) = 2 * 2^s
  BY Bits, PowersAssumption
<1>2. 2^0 = 1
  BY PowersAssumption
<1> HIDE DEF m
<1>3. 0 \in T
  BY <1>1, <1>2
<1>4. \A s \in 0 .. m - 1 : s \in T => s + 1 \in T
  BY <1>1
<1>5. 0 .. m \subseteq T
  <2> HIDE DEF T
  <2> QED
    BY <1>1, <1>3, <1>4, InductionTo
<1> QED
  BY <1>5 DEF m

(* The power of a sum.                                                     *)
LEMMA PowerSum ==
  ASSUME NEW s \in 0 .. 4 * W, NEW t \in 0 .. 4 * W, s + t \in 0 .. 4 * W
  PROVE  2^(s + t) = 2^s * 2^t
<1> DEFINE m == 4 * W
           T == {k \in 0 .. t : 2^(s + k) = 2^s * 2^k}
<1>1. m \in Nat /\ s \in Nat /\ t \in Nat /\ s + t <= m
  BY Bits
<1>2. 2^0 = 1 /\ \A k \in 0 .. m : 2^k \in Nat
  BY TwoPowers, PowersAssumption
<1>3. \A k \in 0 .. m - 1 : 2^(k + 1) = 2 * 2^k
  BY PowersAssumption
<1> HIDE DEF m
<1>4. 0 \in T
  <2>1. 2^s \in Nat /\ s \in 0 .. m /\ s + 0 = s
    BY <1>1, <1>2
  <2> QED
    BY <1>1, <1>2, <2>1
<1>5. ASSUME NEW k \in 0 .. t - 1, k \in T PROVE k + 1 \in T
  <2>1. /\ s + k \in 0 .. m - 1 /\ k \in 0 .. m - 1 /\ k \in 0 .. m /\ s \in 0 .. m
        /\ s + (k + 1) = (s + k) + 1 /\ k + 1 \in 0 .. t
    BY <1>1
  <2>2. 2^(s + (k + 1)) = 2 * 2^(s + k) /\ 2^(k + 1) = 2 * 2^k
    BY <1>3, <2>1
  <2>3. 2^(s + k) = 2^s * 2^k
    BY <1>5
  <2>4. 2^s \in Nat /\ 2^k \in Nat
    BY <1>2, <2>1
  <2> DEFINE p == 2^s  q == 2^k
  <2> HIDE DEF p, q
  <2>5. 2 * (p * q) = p * (2 * q)
    BY <2>4 DEF p, q
  <2> QED
    BY <2>1, <2>2, <2>3, <2>5 DEF p, q
<1>6. 0 .. t \subseteq T
  <2> HIDE DEF T
  <2> QED
    BY <1>1, <1>4, <1>5, InductionTo
<1> QED
  BY <1>1, <1>6

(* B is at least two, and its powers are those of two.                     *)
LEMMA BasePowers ==
  /\ B \in Nat /\ B >= 2
  /\ B^0 = 1 /\ B^1 = B /\ \A k \in 0 .. 7 : B^(k + 1) = B * B^k
  /\ \A k \in 0 .. 4 : B^k \in Nat \ {0} /\ W * k \in 0 .. 4 * W /\ B^k = 2^(W * k)
<1>1. B \in Nat /\ B >= 2
  <2>1. W - 1 \in 0 .. 4 * W - 1 /\ W - 1 \in 0 .. 4 * W /\ (W - 1) + 1 = W
    BY Bits
  <2>2. 2^((W - 1) + 1) = 2 * 2^(W - 1) /\ 2^(W - 1) \in Nat \ {0}
    BY <2>1, PowersAssumption, TwoPowers
  <2>3. B = 2 * 2^(W - 1)
    BY <2>1, <2>2 DEF B
  <2> HIDE DEF B
  <2> QED
    BY <2>2, <2>3
<1>2. B^0 = 1 /\ \A k \in 0 .. 7 : B^(k + 1) = B * B^k
  BY PowersAssumption
<1>3. B = 2^W
  BY DEF B
<1> HIDE DEF B
<1>4. B^1 = B
  BY <1>1, <1>2
<1> DEFINE T == {k \in 0 .. 4 : B^k \in Nat \ {0} /\ W * k \in 0 .. 4 * W /\ B^k = 2^(W * k)}
<1>5. 0 \in T
  <2>1. W * 0 = 0 /\ 0 \in 0 .. 4 * W
    BY Bits
  <2>2. 2^0 = 1
    BY PowersAssumption
  <2>3. 2^(W * 0) = 1
    BY <2>1, <2>2
  <2> QED
    BY <1>2, <2>1, <2>3
<1>6. ASSUME NEW k \in 0 .. 4 - 1, k \in T PROVE k + 1 \in T
  <2>1. W * (k + 1) = W * k + W /\ W * k \in 0 .. 3 * W /\ W * k \in 0 .. 4 * W /\ W \in 0 .. 4 * W
    <3>1. W * k <= W * 3 /\ W * k >= 0 /\ W * k \in Int
      BY Bits
    <3> QED
      BY <3>1, Bits
  <2>2. W * k + W \in 0 .. 4 * W
    BY <2>1, Bits
  <2>3. 2^(W * k + W) = 2^(W * k) * 2^W
    <3> DEFINE s == W * k
    <3> HIDE DEF s
    <3>1. s \in 0 .. 4 * W /\ s + W \in 0 .. 4 * W /\ W \in 0 .. 4 * W
      BY <2>1, <2>2 DEF s
    <3>2. 2^(s + W) = 2^s * 2^W
      BY <3>1, PowerSum
    <3> QED
      BY <3>2 DEF s
  <2>4. B^(k + 1) = B * B^k /\ B^k = 2^(W * k) /\ B^k \in Nat \ {0} /\ k + 1 \in 0 .. 4
    BY <1>2, <1>6
  <2> DEFINE p == B^k
  <2> HIDE DEF p
  <2>5. B * p = p * B /\ B * p \in Nat \ {0}
    BY <1>1, <2>4 DEF p
  <2>6. B^(k + 1) = 2^(W * k + W) /\ B^(k + 1) \in Nat \ {0}
    BY <1>3, <2>3, <2>4, <2>5 DEF p
  <2>7. W * (k + 1) = W * k + W
    BY <2>1
  <2> QED
    BY <2>2, <2>4, <2>6, <2>7
<1>7. 0 .. 4 \subseteq T
  <2> HIDE DEF T
  <2> QED
    BY <1>5, <1>6, InductionTo
<1> QED
  BY <1>1, <1>2, <1>4, <1>7

(* 2^256 is a power of two, its powers of B ascend.                        *)
LEMMA Modulus ==
  /\ M \in Nat \ {0} /\ M = 2^(4 * W) /\ B < M
  /\ B^1 < B^2 /\ B^2 < B^3 /\ B^3 < M
<1>1. M = B^4 /\ 4 \in 0 .. 4 /\ W * 4 = 4 * W
  BY Bits DEF M
<1>2. M \in Nat \ {0} /\ M = 2^(4 * W)
  <2>1. B^4 \in Nat \ {0} /\ B^4 = 2^(W * 4)
    BY <1>1, BasePowers
  <2> QED
    BY <1>1, <2>1
<1>3. /\ 1 \in 0 .. 7 /\ 2 \in 0 .. 7 /\ 3 \in 0 .. 7 /\ 1 + 1 = 2 /\ 2 + 1 = 3 /\ 3 + 1 = 4
      /\ 1 \in 0 .. 4 /\ 2 \in 0 .. 4 /\ 3 \in 0 .. 4
  OBVIOUS
<1>4. B^(1 + 1) = B * B^1 /\ B^(2 + 1) = B * B^2 /\ B^(3 + 1) = B * B^3
  BY <1>3, BasePowers
<1>5. B^1 \in Nat \ {0} /\ B^2 \in Nat \ {0} /\ B^3 \in Nat \ {0} /\ B^1 = B
  BY <1>3, BasePowers
<1> DEFINE p == B^1   q == B^2   s == B^3
<1>6. /\ p \in Nat \ {0} /\ q \in Nat \ {0} /\ s \in Nat \ {0} /\ p = B
      /\ q = B * p /\ s = B * q /\ M = B * s /\ B \in Nat /\ B >= 2
  BY <1>1, <1>3, <1>4, <1>5, BasePowers
<1> HIDE DEF p, q, s
<1>7. B * p >= 2 * p /\ B * q >= 2 * q /\ B * s >= 2 * s
  BY <1>6
<1>8. p < q /\ q < s /\ s < M
  <2> HIDE DEF B, M
  <2> QED
    BY <1>6, <1>7
<1>9. B < M
  <2> HIDE DEF B, M
  <2> QED
    BY <1>2, <1>6, <1>8
<1> QED
  BY <1>2, <1>8, <1>9 DEF p, q, s

------------------------------------------------------------------------------
(* Montgomery form.                                                        *)

(* An odd modulus has an inverse of R = M: one of 2 is (n + 1) / 2.        *)
LEMMA Invertible ==
  ASSUME NEW n \in Nat, n % 2 = 1
  PROVE  \E u \in Int : Congruent(M * u, 1, n)
<1> DEFINE m == 4 * W
           T == {s \in 0 .. m : \E u \in Int : Congruent(2^s * u, 1, n)}
<1>1. /\ m \in Nat /\ \A s \in 0 .. m : 2^s \in Nat
      /\ 2^0 = 1 /\ \A s \in 0 .. m - 1 : 2^(s + 1) = 2 * 2^s
  BY Bits, TwoPowers, PowersAssumption
<1>2. M = 2^m
  BY Modulus
<1> HIDE DEF m
<1>3. 0 \in T
  <2>1. 2^0 * 1 = 1 /\ 1 \in Int /\ Congruent(1, 1, n)
    BY <1>1, Same
  <2> QED
    BY <1>1, <2>1
<1>4. ASSUME NEW s \in 0 .. m - 1, s \in T PROVE s + 1 \in T
  <2>1. PICK u \in Int : Congruent(2^s * u, 1, n)
    BY <1>4
  <2>2. PICK k \in Int : 2^s * u = 1 + n * k
    BY <2>1 DEF Congruent
  <2> DEFINE h == (n \div 2) + 1   p == 2^s   c == 1 + k * (n + 1)
  <2>3. h \in Int /\ 2 * h = n + 1
    OBVIOUS
  <2>4. p \in Int /\ 2^(s + 1) = 2 * p /\ s + 1 \in 0 .. m
    BY <1>1
  <2>5. p * u = 1 + n * k
    BY <2>2
  <2> HIDE DEF h, p
  <2>6. (2 * p) * (u * h) = (p * u) * (2 * h)
    BY <2>3, <2>4
  <2>7. (1 + n * k) * (n + 1) = 1 + n * c /\ c \in Int
    OBVIOUS
  <2>8. (2 * p) * (u * h) = 1 + n * c /\ u * h \in Int
    BY <2>3, <2>5, <2>6, <2>7
  <2> HIDE DEF c
  <2>9. Congruent((2 * p) * (u * h), 1, n)
    BY <2>7, <2>8 DEF Congruent
  <2> QED
    BY <2>4, <2>8, <2>9
<1>5. 0 .. m \subseteq T
  <2> HIDE DEF T
  <2> QED
    BY <1>1, <1>3, <1>4, InductionTo
<1>6. m \in T
  <2>1. m \in 0 .. m
    BY <1>1
  <2> HIDE DEF T
  <2> QED
    BY <1>5, <2>1
<1> QED
  BY <1>2, <1>6

(* What is congruent to one may be left out.                               *)
LEMMA UnitFactor ==
  ASSUME NEW n \in Int, NEW c \in Int, NEW x \in Int, Congruent(c, 1, n)
  PROVE  Congruent(c * x, x, n)
<1>1. PICK k \in Int : c = 1 + n * k
  BY DEF Congruent
<1>2. (1 + n * k) * x = x + n * (k * x) /\ k * x \in Int
  OBVIOUS
<1>3. c * x = x + n * (k * x)
  BY <1>1, <1>2
<1> QED
  BY <1>2, <1>3 DEF Congruent

(* R may be cancelled.                                                     *)
LEMMA Cancelled ==
  ASSUME NEW n \in Nat, n % 2 = 1, NEW x \in Int, NEW y \in Int, Congruent(M * x, M * y, n)
  PROVE  Congruent(x, y, n)
<1>1. PICK u \in Int : Congruent(M * u, 1, n)
  BY Invertible
<1>2. M \in Int /\ M * u \in Int /\ M * x \in Int /\ M * y \in Int /\ n \in Int
  BY Modulus
<1> HIDE DEF M
<1>3. Congruent(u * (M * x), u * (M * y), n)
  BY <1>2, Multiple
<1>4. /\ u * (M * x) = (M * u) * x /\ u * (M * y) = (M * u) * y
      /\ (M * u) * x \in Int /\ (M * u) * y \in Int
  BY <1>2
<1>5. Congruent((M * u) * x, x, n) /\ Congruent((M * u) * y, y, n)
  <2> DEFINE c == M * u
  <2>1. c \in Int /\ Congruent(c, 1, n)
    BY <1>1, <1>2
  <2> HIDE DEF c
  <2>2. Congruent(c * x, x, n) /\ Congruent(c * y, y, n)
    BY <1>2, <2>1, UnitFactor
  <2> QED
    BY <2>2 DEF c
<1>6. Congruent((M * u) * x, x, n) /\ Congruent((M * u) * y, y, n) /\ Congruent((M * u) * x, (M * u) * y, n)
  BY <1>3, <1>4, <1>5
<1> DEFINE p == (M * u) * x   q == (M * u) * y
<1>7. p \in Int /\ q \in Int /\ Congruent(p, x, n) /\ Congruent(q, y, n) /\ Congruent(p, q, n)
  BY <1>4, <1>6
<1> HIDE DEF p, q
<1>8. Congruent(x, p, n)
  BY <1>2, <1>7, Reversed
<1>9. Congruent(x, q, n)
  BY <1>2, <1>7, <1>8, Chain
<1> QED
  BY <1>2, <1>7, <1>9, Chain

(* The reduced number that ll_u256_mont_reduce returns exists.             *)
LEMMA RedcIs ==
  ASSUME NEW n \in Nat, n % 2 = 1, NEW x \in Int
  PROVE  Redc(x, n) \in 0 .. n - 1 /\ Congruent(M * Redc(x, n), x, n)
<1>1. n \in Nat \ {0}
  OBVIOUS
<1>2. M \in Int
  BY Modulus
<1>3. \E y \in 0 .. n - 1 : (M * y - x) % n = 0
  <2>1. PICK u \in Int : Congruent(M * u, 1, n)
    BY Invertible
  <2> DEFINE z == u * x   y == z % n
  <2>2. z \in Int
    OBVIOUS
  <2>3. y \in 0 .. n - 1 /\ Congruent(y, z, n)
    <3> HIDE DEF z
    <3> QED
      BY <1>1, <2>2, Remainder
  <2> HIDE DEF y
  <2>4. y \in Int
    BY <2>3
  <2>5. Congruent(M * y, M * z, n)
    <3> HIDE DEF z, M
    <3> QED
      BY <1>1, <1>2, <2>2, <2>3, <2>4, Multiple
  <2>6. Congruent((M * u) * x, x, n)
    <3> DEFINE c == M * u
    <3>1. c \in Int /\ n \in Int /\ Congruent(c, 1, n)
      BY <1>2, <2>1
    <3> HIDE DEF c
    <3>2. Congruent(c * x, x, n)
      BY <3>1, UnitFactor
    <3> QED
      BY <3>2 DEF c
  <2>7. M * z = (M * u) * x /\ M * z \in Int /\ M * y \in Int
    <3> HIDE DEF M
    <3> QED
      BY <1>2, <2>4
  <2>8. Congruent(M * z, x, n)
    BY <2>6, <2>7
  <2> DEFINE p == M * y   q == M * z
  <2>9. p \in Int /\ q \in Int /\ Congruent(p, q, n) /\ Congruent(q, x, n)
    BY <2>5, <2>7, <2>8
  <2> HIDE DEF p, q
  <2>10. Congruent(p, x, n)
    BY <1>1, <2>9, Chain
  <2>11. (p - x) % n = 0
    BY <1>1, <2>9, <2>10, ZeroRemainder
  <2> QED
    BY <2>3, <2>11 DEF p
<1> DEFINE r == Redc(x, n)
<1>4. r \in 0 .. n - 1 /\ (M * r - x) % n = 0
  BY <1>3 DEF Redc
<1> HIDE DEF r, M
<1>5. M * r \in Int
  BY <1>2, <1>4
<1> DEFINE p == M * r
<1>6. p \in Int /\ (p - x) % n = 0
  BY <1>4, <1>5
<1> HIDE DEF p
<1>7. Congruent(p, x, n)
  BY <1>1, <1>6, ZeroRemainder
<1> QED
  BY <1>4, <1>7 DEF p, r

(* ... and there is only one.                                              *)
LEMMA RedcUnique ==
  ASSUME NEW n \in Nat, n % 2 = 1, NEW x \in Int, NEW y \in 0 .. n - 1, Congruent(M * y, x, n)
  PROVE  Redc(x, n) = y
<1> DEFINE r == Redc(x, n)
<1>1. r \in 0 .. n - 1 /\ Congruent(M * r, x, n)
  BY RedcIs
<1> HIDE DEF r
<1>2. n \in Int /\ n \in Nat \ {0} /\ r \in Int /\ y \in Int /\ M \in Int
  BY <1>1, Modulus
<1> DEFINE p == M * r   q == M * y
<1>3. p \in Int /\ q \in Int
  BY <1>2
<1>4. Congruent(p, x, n) /\ Congruent(q, x, n)
  BY <1>1
<1>5. Congruent(p, q, n)
  <2> HIDE DEF p, q
  <2>1. Congruent(x, q, n)
    BY <1>2, <1>3, <1>4, Reversed
  <2> QED
    BY <1>2, <1>3, <1>4, <2>1, Chain
<1>6. Congruent(r, y, n)
  BY <1>2, <1>5, Cancelled
<1>7. r = y
  BY <1>1, <1>2, <1>6, EqualBelow
<1> QED
  BY <1>7 DEF r

(* The Montgomery form of x.                                               *)
InForm(x, n) == (x * M) % n

(* One product with R too many is what ll_u256_mont_mul takes away: the    *)
(* product of two numbers in Montgomery form is the form of their product. *)
LEMMA ProductInForm ==
  ASSUME NEW n \in Nat, n % 2 = 1, NEW x \in Int, NEW y \in Int, NEW z \in Int, NEW v \in Int,
         Congruent(x, v * M, n), Congruent(y, z * M, n)
  PROVE  Redc(x * y, n) = InForm(v * z, n)
<1>1. n \in Nat \ {0} /\ n \in Int /\ M \in Int
  BY Modulus
<1> HIDE DEF M
<1> DEFINE p == v * M   q == z * M   t == v * z   s == t * M
<1>2. p \in Int /\ q \in Int /\ x * y \in Int /\ p * q \in Int /\ t \in Int /\ s \in Int
  BY <1>1
<1>3. Congruent(x * y, p * q, n)
  <2>1. Congruent(x, p, n) /\ Congruent(y, q, n)
    OBVIOUS
  <2> HIDE DEF p, q
  <2> QED
    BY <1>1, <1>2, <2>1, Products
<1>4. p * q = M * s
  BY <1>1
<1> DEFINE f == s % n
<1>5. f \in 0 .. n - 1 /\ Congruent(f, s, n) /\ f = InForm(t, n)
  <2>1. f = InForm(t, n)
    BY DEF InForm
  <2> HIDE DEF s
  <2>2. f \in 0 .. n - 1 /\ Congruent(f, s, n)
    BY <1>1, <1>2, Remainder
  <2> QED
    BY <2>1, <2>2
<1> HIDE DEF f
<1>6. f \in Int /\ M * f \in Int /\ M * s \in Int
  BY <1>1, <1>2, <1>5
<1>7. Congruent(M * f, M * s, n)
  <2> HIDE DEF s
  <2> QED
    BY <1>1, <1>2, <1>5, <1>6, Multiple
<1> DEFINE c == x * y   d == M * f   g == p * q
<1>8. c \in Int /\ d \in Int /\ g \in Int /\ Congruent(c, g, n) /\ Congruent(d, g, n)
  BY <1>2, <1>3, <1>4, <1>6, <1>7
<1>9. Congruent(d, c, n)
  <2> HIDE DEF c, d, g
  <2>1. Congruent(g, c, n)
    BY <1>1, <1>8, Reversed
  <2> QED
    BY <1>1, <1>8, <2>1, Chain
<1>10. Redc(c, n) = f
  <2>1. Congruent(M * f, c, n)
    BY <1>9
  <2> HIDE DEF c
  <2> QED
    BY <1>1, <1>5, <1>8, <2>1, RedcUnique
<1> QED
  BY <1>5, <1>10

(* The recursive function that PowerMod is defined by exists.              *)
LEMMA PowerModIs ==
  ASSUME NEW n \in Nat \ {0}, NEW x \in Int, NEW k \in Nat
  PROVE  \E p \in [0 .. k -> 0 .. n - 1] :
           /\ PowerMod(x, k, n) = p[k]
           /\ p[0] = 1 % n /\ \A j \in 1 .. k : p[j] = (p[j - 1] * x) % n
<1> DEFINE Body(p) == [j \in 0 .. k |-> IF j = 0 THEN 1 % n ELSE (p[j - 1] * x) % n]
           P == CHOOSE p : p = Body(p)
           S == 0 .. n - 1
           c == 1 % n
           G == [j \in 1 .. k |-> [p \in S |-> (p * x) % n]]
<1>1. PowerMod(x, k, n) = P[k]
  BY DEF PowerMod
<1>2. c \in S /\ \A y \in Int : y % n \in S
  OBVIOUS
<1>3. \A j \in 1 .. k, p \in S : G[j][p] = (p * x) % n /\ G[j][p] \in S
  <2> SUFFICES ASSUME NEW j \in 1 .. k, NEW p \in S PROVE G[j][p] = (p * x) % n /\ G[j][p] \in S
    OBVIOUS
  <2>1. G[j][p] = (p * x) % n
    OBVIOUS
  <2>2. p * x \in Int
    OBVIOUS
  <2> QED
    BY <1>2, <2>1, <2>2
<1> HIDE DEF c
<1>4. PICK g \in [0 .. k -> S] : Follows(g, k, c, G)
  <2>1. Steps(k, S, c, G)
    BY <1>2, <1>3 DEF Steps
  <2> HIDE DEF G, S
  <2> QED
    BY <2>1, Recursion
<1>5. g = Body(g)
  <2>1. \A j \in 1 .. k : g[j - 1] \in S
    OBVIOUS
  <2> HIDE DEF G, S
  <2>2. g[0] = 1 % n /\ \A j \in 1 .. k : g[j] = (g[j - 1] * x) % n
    BY <1>3, <1>4, <2>1 DEF Follows, c
  <2> QED
    BY <2>2
<1>6. P = Body(P)
  <2> HIDE DEF Body
  <2> QED
    BY <1>5
<1>7. P[0] = 1 % n /\ \A j \in 1 .. k : P[j] = (P[j - 1] * x) % n
  <2> HIDE DEF P
  <2> QED
    BY <1>6
<1>8. P \in [0 .. k -> S]
  <2> DEFINE T == {j \in 0 .. k : P[j] \in S}
  <2>4. P[0] = c /\ 0 \in 0 .. k
    BY <1>7 DEF c
  <2> HIDE DEF P, S
  <2>1. 0 \in T
    BY <1>2, <2>4
  <2>2. ASSUME NEW j \in 0 .. k - 1, j \in T PROVE j + 1 \in T
    <3>1. j + 1 \in 1 .. k /\ (j + 1) - 1 = j /\ P[j] \in S
      BY <2>2
    <3>2. P[j] * x \in Int
      BY <3>1 DEF S
    <3>3. P[j + 1] = (P[j] * x) % n
      BY <1>7, <3>1
    <3>4. P[j + 1] \in S
      BY <1>2, <3>2, <3>3
    <3>5. j + 1 \in 0 .. k
      OBVIOUS
    <3> QED
      BY <3>4, <3>5
  <2>3. 0 .. k \subseteq T
    <3> HIDE DEF T
    <3> QED
      BY <2>1, <2>2, InductionTo
  <2> QED
    BY <1>6, <2>3
<1> HIDE DEF P
<1> QED
  BY <1>1, <1>7, <1>8

(* The exponentiation in Montgomery form: every one of its products has    *)
(* the form of the power computed so far.                                  *)
LEMMA MontPowerIs ==
  ASSUME NEW n \in Nat, n % 2 = 1, NEW x \in Int, NEW v \in Int, NEW k \in Nat, NEW RR \in Int,
         Congruent(x, v * M, n), Congruent(RR, M * M, n)
  PROVE  /\ PowerMod(v, k, n) \in 0 .. n - 1
         /\ MontPower(x, k, RR, n) = InForm(PowerMod(v, k, n), n)
<1>1. n \in Nat \ {0} /\ n \in Int /\ M \in Int
  BY Modulus
<1>2. PICK q \in [0 .. k -> 0 .. n - 1] :
        /\ PowerMod(v, k, n) = q[k]
        /\ q[0] = 1 % n /\ \A j \in 1 .. k : q[j] = (q[j - 1] * v) % n
  BY <1>1, PowerModIs
<1>3. \A j \in 0 .. k : q[j] \in 0 .. n - 1 /\ q[j] \in Int
  OBVIOUS
<1>4. ASSUME NEW y \in Int, NEW z \in Int, Congruent(y, z, n)
      PROVE  InForm(y, n) = InForm(z, n) /\ InForm(y, n) \in 0 .. n - 1 /\ Congruent(InForm(y, n), z * M, n)
  <2> DEFINE s == y * M   t == z * M
  <2> HIDE DEF M
  <2>1. s \in Int /\ t \in Int
    BY <1>1
  <2>2. Congruent(s, t, n)
    BY <1>1, <1>4, Multiple
  <2>3. InForm(y, n) = s % n /\ InForm(z, n) = t % n
    BY DEF InForm
  <2> HIDE DEF s, t
  <2>4. s % n \in 0 .. n - 1 /\ Congruent(s % n, s, n) /\ t % n \in 0 .. n - 1 /\ Congruent(t, t % n, n)
    BY <1>1, <2>1, Remainder
  <2> DEFINE f == s % n   g == t % n
  <2>5. f \in 0 .. n - 1 /\ f \in Int /\ g \in 0 .. n - 1 /\ g \in Int /\ Congruent(f, s, n) /\ Congruent(t, g, n)
    BY <2>4
  <2> HIDE DEF f, g
  <2>6. Congruent(f, t, n)
    BY <1>1, <2>1, <2>2, <2>5, Chain
  <2>7. Congruent(f, g, n)
    BY <1>1, <2>1, <2>5, <2>6, Chain
  <2>8. f = g
    BY <1>1, <2>5, <2>7, EqualBelow
  <2> QED
    BY <2>3, <2>5, <2>6, <2>8 DEF f, g, t
<1>5. Redc(RR, n) = InForm(q[0], n)
  <2>1. Congruent(1 % n, 1, n) /\ q[0] = 1 % n
    <3> DEFINE one == 1
    <3>1. one \in Int /\ q[0] = one % n
      BY <1>2
    <3> HIDE DEF one
    <3>2. Congruent(one % n, one, n)
      BY <1>1, <3>1, Remainder
    <3> QED
      BY <3>1, <3>2 DEF one
  <2> DEFINE y == InForm(q[0], n)
  <2>2. y \in 0 .. n - 1 /\ Congruent(y, 1 * M, n)
    <3>1. q[0] \in Int /\ 1 \in Int /\ Congruent(q[0], 1, n)
      BY <1>3, <2>1
    <3> QED
      BY <1>4, <3>1
  <2> HIDE DEF y, M
  <2>3. y \in Int /\ 1 * M = M /\ M * y \in Int /\ M * M \in Int
    BY <1>1, <2>2
  <2>4. Congruent(M * y, M * M, n)
    BY <1>1, <2>2, <2>3, Multiple
  <2> DEFINE p == M * y   s == M * M
  <2>5. p \in Int /\ s \in Int /\ Congruent(p, s, n) /\ Congruent(RR, s, n)
    BY <2>3, <2>4
  <2> HIDE DEF p, s
  <2>6. Congruent(p, RR, n)
    <3>1. Congruent(s, RR, n)
      BY <1>1, <2>5, Reversed
    <3> QED
      BY <1>1, <2>5, <3>1, Chain
  <2>7. Congruent(M * y, RR, n)
    BY <2>6 DEF p
  <2>8. Redc(RR, n) = y
    BY <2>2, <2>7, RedcUnique
  <2> QED
    BY <2>8 DEF y
<1>6. ASSUME NEW j \in 1 .. k
      PROVE  Redc(InForm(q[j - 1], n) * x, n) = InForm(q[j], n)
  <2> DEFINE z == q[j - 1]   y == InForm(z, n)
  <2>1. z \in Int /\ q[j] = (z * v) % n /\ z * v \in Int
    BY <1>2, <1>3
  <2>2. y \in 0 .. n - 1 /\ Congruent(y, z * M, n)
    <3> HIDE DEF z
    <3>1. Congruent(z, z, n)
      BY <1>1, <2>1, Same
    <3> QED
      BY <1>4, <2>1, <3>1
  <2> HIDE DEF y, z
  <2>3. Redc(y * x, n) = InForm(z * v, n)
    <3>1. y \in Int
      BY <2>2
    <3> QED
      BY <2>1, <2>2, <3>1, ProductInForm
  <2>4. InForm(q[j], n) = InForm(z * v, n)
    <3> DEFINE t == z * v
    <3>1. t \in Int /\ q[j] = t % n
      BY <2>1
    <3> HIDE DEF t
    <3>2. t % n \in 0 .. n - 1 /\ Congruent(t % n, t, n)
      BY <1>1, <3>1, Remainder
    <3>3. t % n \in Int
      BY <3>2
    <3>4. InForm(t % n, n) = InForm(t, n)
      <4> DEFINE g == t % n
      <4> HIDE DEF g
      <4>1. g \in Int /\ Congruent(g, t, n)
        BY <3>2, <3>3 DEF g
      <4>2. InForm(g, n) = InForm(t, n)
        BY <1>4, <3>1, <4>1
      <4> QED
        BY <4>2 DEF g
    <3> QED
      BY <3>1, <3>4 DEF t
  <2> QED
    BY <2>3, <2>4 DEF y, z
<1> DEFINE Body(p) == [j \in 0 .. k |-> IF j = 0 THEN Redc(RR, n) ELSE Redc(p[j - 1] * x, n)]
           P == CHOOSE p : p = Body(p)
           g == [j \in 0 .. k |-> InForm(q[j], n)]
<1>7. MontPower(x, k, RR, n) = P[k]
  BY DEF MontPower
<1>8. g = Body(g)
  <2>1. \A j \in 0 .. k : g[j] = InForm(q[j], n)
    OBVIOUS
  <2>2. \A j \in 1 .. k : j - 1 \in 0 .. k
    OBVIOUS
  <2>3. g = [j \in 0 .. k |-> g[j]]
    OBVIOUS
  <2> HIDE DEF g
  <2>4. \A j \in 0 .. k : g[j] = IF j = 0 THEN Redc(RR, n) ELSE Redc(g[j - 1] * x, n)
    <3> SUFFICES ASSUME NEW j \in 0 .. k PROVE g[j] = IF j = 0 THEN Redc(RR, n) ELSE Redc(g[j - 1] * x, n)
      OBVIOUS
    <3>1. CASE j = 0
      BY <1>5, <2>1, <3>1
    <3>2. CASE j # 0
      <4>1. j \in 1 .. k
        BY <3>2
      <4>2. g[j - 1] = InForm(q[j - 1], n) /\ g[j] = InForm(q[j], n)
        BY <2>1, <2>2, <4>1
      <4> QED
        BY <1>6, <3>2, <4>1, <4>2
    <3> QED
      BY <3>1, <3>2
  <2> QED
    BY <2>3, <2>4
<1>9. P = Body(P)
  <2> HIDE DEF Body
  <2> QED
    BY <1>8
<1>10. P[0] = Redc(RR, n) /\ \A j \in 1 .. k : P[j] = Redc(P[j - 1] * x, n)
  <2> HIDE DEF P
  <2> QED
    BY <1>9
<1>11. P[k] = InForm(q[k], n)
  <2> HIDE DEF P
  <2> DEFINE T == {j \in 0 .. k : P[j] = InForm(q[j], n)}
  <2>1. 0 \in T
    BY <1>5, <1>10
  <2>2. ASSUME NEW j \in 0 .. k - 1, j \in T PROVE j + 1 \in T
    <3>1. j + 1 \in 1 .. k /\ (j + 1) - 1 = j /\ P[j] = InForm(q[j], n) /\ j + 1 \in 0 .. k
      BY <2>2
    <3>2. P[j + 1] = Redc(P[j] * x, n)
      BY <1>10, <3>1
    <3>3. Redc(InForm(q[j], n) * x, n) = InForm(q[j + 1], n)
      BY <1>6, <3>1
    <3> QED
      BY <3>1, <3>2, <3>3
  <2>3. 0 .. k \subseteq T
    <3> HIDE DEF T
    <3> QED
      BY <2>1, <2>2, InductionTo
  <2> QED
    BY <2>3
<1> HIDE DEF P
<1> QED
  BY <1>2, <1>3, <1>7, <1>11

(* Whatever the constant, the result is reduced.                           *)
LEMMA MontPowerBelow ==
  ASSUME NEW n \in Nat, n % 2 = 1, NEW x \in Int, NEW k \in Nat, NEW RR \in Int
  PROVE  MontPower(x, k, RR, n) \in 0 .. n - 1
<1> DEFINE Body(p) == [j \in 0 .. k |-> IF j = 0 THEN Redc(RR, n) ELSE Redc(p[j - 1] * x, n)]
           P == CHOOSE p : p = Body(p)
           S == 0 .. n - 1
           c == Redc(RR, n)
           G == [j \in 1 .. k |-> [p \in S |-> Redc(p * x, n)]]
<1>1. MontPower(x, k, RR, n) = P[k]
  BY DEF MontPower
<1>2. c \in S /\ \A y \in Int : Redc(y, n) \in S
  BY RedcIs
<1>3. \A j \in 1 .. k, p \in S : G[j][p] = Redc(p * x, n) /\ G[j][p] \in S
  <2> SUFFICES ASSUME NEW j \in 1 .. k, NEW p \in S PROVE G[j][p] = Redc(p * x, n) /\ G[j][p] \in S
    OBVIOUS
  <2>1. G[j][p] = Redc(p * x, n)
    OBVIOUS
  <2>2. p * x \in Int
    OBVIOUS
  <2> QED
    BY <1>2, <2>1, <2>2
<1> HIDE DEF c
<1>4. PICK g \in [0 .. k -> S] : Follows(g, k, c, G)
  <2>1. Steps(k, S, c, G)
    BY <1>2, <1>3 DEF Steps
  <2> HIDE DEF G, S
  <2> QED
    BY <2>1, Recursion
<1>5. g = Body(g)
  <2>1. \A j \in 1 .. k : g[j - 1] \in S
    OBVIOUS
  <2> HIDE DEF G, S
  <2>2. g[0] = Redc(RR, n) /\ \A j \in 1 .. k : g[j] = Redc(g[j - 1] * x, n)
    BY <1>3, <1>4, <2>1 DEF Follows, c
  <2> QED
    BY <2>2
<1>6. P = Body(P)
  <2> HIDE DEF Body
  <2> QED
    BY <1>5
<1>7. P[0] = Redc(RR, n) /\ \A j \in 1 .. k : P[j] = Redc(P[j - 1] * x, n)
  <2> HIDE DEF P
  <2> QED
    BY <1>6
<1>8. P[k] \in S
  <2> DEFINE T == {j \in 0 .. k : P[j] \in S}
  <2>1. P[0] = c /\ 0 \in 0 .. k
    BY <1>7 DEF c
  <2> HIDE DEF P, S
  <2>2. 0 \in T
    BY <1>2, <2>1
  <2>3. ASSUME NEW j \in 0 .. k - 1, j \in T PROVE j + 1 \in T
    <3>1. j + 1 \in 1 .. k /\ (j + 1) - 1 = j /\ P[j] \in S /\ j + 1 \in 0 .. k
      BY <2>3
    <3>2. P[j] * x \in Int
      BY <3>1 DEF S
    <3>3. P[j + 1] = Redc(P[j] * x, n)
      BY <1>7, <3>1
    <3> QED
      BY <1>2, <3>1, <3>2, <3>3
  <2>4. 0 .. k \subseteq T
    <3> HIDE DEF T
    <3> QED
      BY <2>2, <2>3, InductionTo
  <2> QED
    BY <2>4
<1> HIDE DEF P
<1> QED
  BY <1>1, <1>8

------------------------------------------------------------------------------
(* Objects.                                                                *)

(* There is a greatest common divisor.                                     *)
LEMMA GCDIs ==
  ASSUME NEW x \in Nat \ {0}, NEW y \in Nat
  PROVE  GCD(x, y) \in 1 .. x
<1> DEFINE T == {d \in 1 .. x : x % d = 0 /\ y % d = 0}
           S == {x - d : d \in T}
<1>1. 1 \in T
  BY DivModIs
<1>2. S \subseteq Nat /\ S # {}
  BY <1>1
<1>3. PICK l \in S : \A k \in S : l <= k
  <2> HIDE DEF S
  <2> QED
    BY <1>2, Least
<1>4. PICK d \in T : l = x - d
  BY <1>3
<1>5. \A e \in T : e <= d
  <2> SUFFICES ASSUME NEW e \in T PROVE e <= d
    OBVIOUS
  <2>1. x - e \in S
    OBVIOUS
  <2>2. x - d <= x - e
    BY <1>3, <1>4, <2>1
  <2> QED
    BY <2>2
<1>6. d \in 1 .. x /\ x % d = 0 /\ y % d = 0
  OBVIOUS
<1>7. \A e \in d + 1 .. x : ~(x % e = 0 /\ y % e = 0)
  <2> SUFFICES ASSUME NEW e \in d + 1 .. x, x % e = 0, y % e = 0 PROVE FALSE
    OBVIOUS
  <2>1. e \in 1 .. x
    BY <1>6
  <2>2. e \in T
    BY <2>1
  <2>3. e <= d
    BY <1>5, <2>2
  <2>4. d \in Int /\ e \in Int /\ e >= d + 1
    BY <1>6
  <2> QED
    BY <2>3, <2>4
<1> QED
  BY <1>6, <1>7 DEF GCD

(* nlimbs of a number.                                                     *)
LEMMA Counts ==
  ASSUME NEW v \in Numbers
  PROVE  /\ LimbCount(v) \in 0 .. 4
         /\ LimbCount(v) = 0 <=> v = 0
         /\ LimbCount(v) < 4 => v < B^LimbCount(v)
         /\ \A k \in 0 .. 3 : B^k <= v /\ v < B^(k + 1) => LimbCount(v) = k + 1
         /\ \A k \in 0 .. 3 : LimbCount(v) > k => v >= B^k
<1> DEFINE p == B^2   q == B^3
<1>1. /\ v \in Nat /\ v < M /\ M \in Nat /\ B \in Nat /\ B >= 2
      /\ p \in Nat /\ q \in Nat /\ B < p /\ p < q /\ q < M /\ M = B^4
      /\ B^0 = 1 /\ B^1 = B
  <2>1. 2 \in 0 .. 4 /\ 3 \in 0 .. 4
    OBVIOUS
  <2>2. B^2 \in Nat /\ B^3 \in Nat
    BY <2>1, BasePowers
  <2>3. v \in Nat /\ v < M
    BY Modulus DEF Numbers
  <2> QED
    BY <2>2, <2>3, BasePowers, Modulus DEF M
<1> DEFINE c == LimbCount(v)
<1>2. c = CASE v = 0 -> 0 [] v \in 1 .. B - 1 -> 1 [] v \in B .. p - 1 -> 2
             [] v \in p .. q - 1 -> 3 [] OTHER -> 4
  BY DEF LimbCount
<1>3. B^2 = p /\ B^3 = q
  OBVIOUS
<1> HIDE DEF p, q, c, B, M
<1>4. /\ (v = 0 => c = 0) /\ (v \in 1 .. B - 1 => c = 1) /\ (v \in B .. p - 1 => c = 2)
      /\ (v \in p .. q - 1 => c = 3) /\ (v \in q .. M - 1 => c = 4)
  BY <1>1, <1>2
<1>5. v = 0 \/ v \in 1 .. B - 1 \/ v \in B .. p - 1 \/ v \in p .. q - 1 \/ v \in q .. M - 1
  BY <1>1
<1>6. c \in 0 .. 4 /\ (c = 0 <=> v = 0)
  BY <1>1, <1>4, <1>5
<1>7. c < 4 => v < B^c
  <2>1. (c = 0 => v < 1) /\ (c = 1 => v < B) /\ (c = 2 => v < p) /\ (c = 3 => v < q)
    BY <1>1, <1>4, <1>5
  <2> QED
    BY <1>1, <1>3, <1>6, <2>1
<1>8. \A k \in 0 .. 3 : B^k <= v /\ v < B^(k + 1) => c = k + 1
  <2>1. /\ (1 <= v /\ v < B => c = 1) /\ (B <= v /\ v < p => c = 2)
        /\ (p <= v /\ v < q => c = 3) /\ (q <= v /\ v < M => c = 4)
    BY <1>1, <1>4
  <2>2. 0 + 1 = 1 /\ 1 + 1 = 2 /\ 2 + 1 = 3 /\ 3 + 1 = 4
    OBVIOUS
  <2> QED
    BY <1>1, <1>3, <2>1, <2>2
<1>9. \A k \in 0 .. 3 : c > k => v >= B^k
  <2>1. (c > 0 => v >= 1) /\ (c > 1 => v >= B) /\ (c > 2 => v >= p) /\ (c > 3 => v >= q)
    BY <1>1, <1>4, <1>5
  <2> QED
    BY <1>1, <1>3, <2>1
<1> QED
  BY <1>6, <1>7, <1>8, <1>9 DEF c

(* Fewer limbs, a smaller number.                                          *)
LEMMA FewerLimbs ==
  ASSUME NEW v \in Numbers, NEW w \in Numbers, LimbCount(v) < LimbCount(w)
  PROVE  v < w
<1> DEFINE k == LimbCount(v)   l == LimbCount(w)
<1>1. k \in 0 .. 4 /\ l \in 0 .. 4 /\ k < l
  BY Counts
<1>2. k < 4 => v < B^k
  BY Counts
<1>3. k \in 0 .. 3 /\ l > k => w >= B^k
  BY Counts
<1> HIDE DEF k, l
<1>4. k \in 0 .. 3 /\ k \in 0 .. 4
  BY <1>1
<1>5. B^k \in Nat /\ v \in Nat /\ w \in Nat
  BY <1>4, BasePowers, Modulus DEF Numbers
<1> DEFINE p == B^k
<1>6. p \in Nat /\ v < p /\ w >= p
  BY <1>1, <1>2, <1>3, <1>4, <1>5
<1> HIDE DEF p
<1> QED
  BY <1>5, <1>6

(* An object whose nlimbs is right, or a zero of one limb.                 *)
Proper(x) == x.d \in Numbers /\ x \in {Obj(x.d), LimbZero}

(* A number as an object.                                                  *)
LEMMA ObjProper ==
  ASSUME NEW v \in Numbers
  PROVE  Obj(v).d = v /\ Obj(v) \in [d : Numbers, n : 0 .. 4] /\ Proper(Obj(v))
<1>1. LimbCount(v) \in 0 .. 4
  BY Counts
<1>2. Obj(v).d = v
  BY DEF Obj
<1>3. Obj(v) \in [d : Numbers, n : 0 .. 4]
  BY <1>1 DEF Obj
<1> QED
  BY <1>2, <1>3 DEF Proper

(* Zero, one and a limb are objects.                                       *)
LEMMA Literals ==
  /\ \A v \in Limb : v \in Numbers /\ [d |-> v, n |-> 1] \in [d : Numbers, n : 0 .. 4] /\ Proper([d |-> v, n |-> 1])
  /\ Zero \in [d : Numbers, n : 0 .. 4] /\ Proper(Zero)
  /\ One \in [d : Numbers, n : 0 .. 4] /\ Proper(One)
<1>1. B \in Nat /\ B >= 2 /\ M \in Nat /\ B < M /\ B^0 = 1 /\ B^1 = B
  BY BasePowers, Modulus
<1>2. \A v \in Limb : v \in Numbers
  <2> HIDE DEF B, M
  <2> QED
    BY <1>1 DEF Limb, Numbers
<1>3. ASSUME NEW v \in Limb PROVE [d |-> v, n |-> 1] \in [d : Numbers, n : 0 .. 4] /\ Proper([d |-> v, n |-> 1])
  <2>1. v \in Numbers
    BY <1>2
  <2>2. CASE v = 0
    BY <2>1, <2>2 DEF Proper, LimbZero
  <2>3. CASE v # 0
    <3>1. 0 \in 0 .. 3 /\ 0 + 1 = 1 /\ B^0 <= v /\ v < B^1
      <4> HIDE DEF B
      <4> QED
        BY <1>1, <2>3 DEF Limb
    <3>2. \A k \in 0 .. 3 : B^k <= v /\ v < B^(k + 1) => LimbCount(v) = k + 1
      BY <2>1, Counts
    <3>3. LimbCount(v) = 1
      <4> HIDE DEF LimbCount, B
      <4>1. LimbCount(v) = 0 + 1
        BY <3>1, <3>2
      <4> QED
        BY <4>1
    <3>4. Obj(v) = [d |-> v, n |-> 1]
      BY <3>3 DEF Obj
    <3> QED
      BY <2>1, <3>4, ObjProper
  <2> QED
    BY <2>2, <2>3
<1>4. 1 \in Limb /\ 0 \in Numbers /\ One = [d |-> 1, n |-> 1]
  <2> HIDE DEF B, M
  <2> QED
    BY <1>1 DEF Limb, Numbers, One
<1>5. One \in [d : Numbers, n : 0 .. 4] /\ Proper(One)
  BY <1>3, <1>4
<1>6. Zero \in [d : Numbers, n : 0 .. 4] /\ Proper(Zero)
  <2>1. LimbCount(0) = 0
    BY <1>4, Counts
  <2>2. Obj(0) = Zero
    BY <2>1 DEF Obj, Zero
  <2> QED
    BY <1>4, <2>2, ObjProper
<1> QED
  BY <1>2, <1>3, <1>5, <1>6

(* Every function sees the number, whether it looks at d or at nlimbs too. *)
LEMMA SeenIs ==
  ASSUME NEW x, Proper(x)
  PROVE  Seen(x) = x.d /\ x.d \in Numbers /\ (IsZero(x) <=> x.d = 0 /\ x # LimbZero)
<1>1. x.d \in Numbers /\ (x = Obj(x.d) \/ x = LimbZero)
  BY DEF Proper
<1>2. CASE x = LimbZero
  <2>1. x.d = 0 /\ x.n = 1
    BY <1>2 DEF LimbZero
  <2>2. B \in Nat \ {0} /\ B^1 = B
    BY BasePowers
  <2>3. 0 % B = 0
    <3> HIDE DEF B
    <3>1. 0 = B * 0 + 0 /\ 0 \in 0 .. B - 1
      BY <2>2
    <3> QED
      BY <2>2, <3>1, DivModIs
  <2>4. Seen(x) = 0
    BY <2>1, <2>2, <2>3 DEF Seen
  <2> QED
    BY <1>1, <1>2, <2>1, <2>4 DEF IsZero
<1>3. CASE x # LimbZero
  <2> DEFINE v == x.d   k == LimbCount(v)
  <2>1. x.n = k /\ v \in Numbers
    BY <1>1, <1>3 DEF Obj
  <2>2. k \in 0 .. 4 /\ (k = 0 <=> v = 0) /\ (k < 4 => v < B^k)
    BY <2>1, Counts
  <2> HIDE DEF k
  <2>3. CASE k >= 4
    BY <1>3, <2>1, <2>2, <2>3 DEF Seen, IsZero
  <2>4. CASE k < 4
    <3> DEFINE p == B^k
    <3>1. p \in Nat \ {0}
      BY <2>2, BasePowers
    <3>2. v \in Nat /\ v < p
      BY <2>1, <2>2, <2>4, Modulus DEF Numbers
    <3>3. Seen(x) = v % p
      BY <2>1, <2>2, <2>4 DEF Seen
    <3> HIDE DEF p
    <3>4. v % p = v
      <4> HIDE DEF v
      <4>1. v = p * 0 + v /\ v \in 0 .. p - 1 /\ v \in Int
        BY <3>1, <3>2
      <4> QED
        BY <3>1, <4>1, DivModIs
    <3> QED
      BY <1>1, <1>3, <2>1, <2>2, <3>3, <3>4 DEF IsZero
  <2> QED
    BY <2>2, <2>3, <2>4
<1> QED
  BY <1>2, <1>3

(* A number of at most four limbs is a number.                             *)
LEMMA PowersBelow == \A l \in 0 .. 4 : 0 .. B^l - 1 \subseteq Numbers
<1> DEFINE p == B^2   q == B^3
<1>1. /\ M \in Nat /\ B \in Nat /\ B >= 2 /\ p \in Nat /\ q \in Nat
      /\ B < p /\ p < q /\ q < M /\ M = B^4 /\ B^0 = 1 /\ B^1 = B
  <2>1. 2 \in 0 .. 4 /\ 3 \in 0 .. 4
    OBVIOUS
  <2> QED
    BY <2>1, BasePowers, Modulus DEF M
<1>2. B^2 = p /\ B^3 = q
  OBVIOUS
<1> HIDE DEF p, q, B, M
<1> SUFFICES ASSUME NEW l \in 0 .. 4 PROVE 0 .. B^l - 1 \subseteq Numbers
  OBVIOUS
<1>3. l = 0 \/ l = 1 \/ l = 2 \/ l = 3 \/ l = 4
  OBVIOUS
<1>4. B^l \in Nat /\ B^l <= M
  BY <1>1, <1>2, <1>3
<1> QED
  BY <1>1, <1>4 DEF Numbers

(* fp256_cmp orders the numbers.                                           *)
LEMMA CmpIs ==
  ASSUME NEW x, NEW y, Proper(x), Proper(y)
  PROVE  (Cmp(x, y) < 0 => x.d <= y.d) /\ (~(Cmp(x, y) < 0) => y.d <= x.d)
<1> DEFINE p == x.d   q == y.d   k == x.n   l == y.n
<1>1. p \in Numbers /\ q \in Numbers /\ p \in Nat /\ q \in Nat /\ 0 \in Numbers
  BY Modulus DEF Proper, Numbers
<1>2. Seen(x) = p /\ Seen(y) = q
  BY SeenIs
<1>3. ASSUME NEW z, NEW w, Proper(z), Proper(w)
      PROVE  z.n \in 0 .. 4 /\ (z.n < w.n => z.d <= w.d)
  <2>1. z.d \in Numbers /\ (z = Obj(z.d) \/ z = LimbZero) /\ w.d \in Numbers /\ (w = Obj(w.d) \/ w = LimbZero)
    BY <1>3 DEF Proper
  <2>2. z.d \in Nat /\ w.d \in Nat
    BY <2>1, Modulus DEF Numbers
  <2>3. LimbCount(z.d) \in 0 .. 4 /\ (LimbCount(z.d) = 0 <=> z.d = 0)
    BY <2>1, Counts
  <2>4. CASE z = LimbZero
    BY <2>2, <2>4 DEF LimbZero
  <2>5. CASE z = Obj(z.d) /\ w = LimbZero
    <3>1. z.n = LimbCount(z.d) /\ w.n = 1
      BY <2>5 DEF Obj, LimbZero
    <3> HIDE DEF LimbCount
    <3>2. z.n < 1 => z.d = 0
      BY <2>3, <3>1
    <3> QED
      BY <2>2, <2>3, <3>1, <3>2
  <2>6. CASE z = Obj(z.d) /\ w = Obj(w.d)
    <3>1. z.n = LimbCount(z.d) /\ w.n = LimbCount(w.d)
      BY <2>6 DEF Obj
    <3> DEFINE u == z.d   v == w.d
    <3>2. u \in Numbers /\ v \in Numbers
      BY <2>1
    <3> HIDE DEF u, v
    <3>3. LimbCount(u) < LimbCount(v) => u < v
      BY <3>2, FewerLimbs
    <3> QED
      BY <2>2, <2>3, <3>1, <3>3 DEF u, v
  <2> QED
    BY <2>1, <2>4, <2>5, <2>6
<1>4. k \in 0 .. 4 /\ l \in 0 .. 4 /\ (k < l => p <= q) /\ (l < k => q <= p)
  BY <1>3
<1>5. CASE k # l
  <2>1. Cmp(x, y) = k - l
    BY <1>5 DEF Cmp
  <2> HIDE DEF p, q, k, l
  <2> QED
    BY <1>1, <1>4, <1>5, <2>1 DEF p, q
<1>6. CASE k = l
  <2>1. Cmp(x, y) = CASE p > q -> 1 [] p < q -> -1 [] OTHER -> 0
    BY <1>2, <1>6 DEF Cmp
  <2> HIDE DEF k, l, Cmp
  <2> QED
    BY <1>1, <2>1
<1> QED
  BY <1>5, <1>6

(* A larger exponent, a larger power.                                      *)
LEMMA PowersGrow ==
  ASSUME NEW s \in 0 .. 4 * W, NEW t \in 0 .. 4 * W, s < t
  PROVE  \E e \in Nat \ {0} : 2^t = 2^s * (2 * e)
<1> DEFINE k == t - s   j == t - s - 1
<1>1. k \in 0 .. 4 * W /\ j \in 0 .. 4 * W - 1 /\ j \in 0 .. 4 * W /\ j + 1 = k /\ s + k = t
  BY Bits
<1> HIDE DEF k, j
<1>2. 2^(s + k) = 2^s * 2^k
  BY <1>1, PowerSum
<1>3. 2^(j + 1) = 2 * 2^j /\ 2^j \in Nat \ {0}
  BY <1>1, PowersAssumption, TwoPowers
<1> QED
  BY <1>1, <1>2, <1>3

(* fp256_set_bit adds the power of a bit that is not set, which cannot     *)
(* carry.                                                                  *)
LEMMA BitSetFits ==
  ASSUME NEW v \in Numbers, NEW i \in 0 .. 4 * W - 1
  PROVE  BitSet(v, i) \in Numbers
<1>1. i \in 0 .. 4 * W /\ 4 * W \in 0 .. 4 * W /\ i < 4 * W
  BY Bits
<1>2. PICK e \in Nat \ {0} : 2^(4 * W) = 2^i * (2 * e)
  BY <1>1, PowersGrow
<1> DEFINE p == 2^i   q == v \div p   t == v % p   N == M
<1>3. p \in Nat \ {0} /\ N \in Nat /\ N = p * (2 * e) /\ v \in Nat /\ v < N
  BY <1>1, <1>2, TwoPowers, Modulus DEF Numbers
<1>4. BitSet(v, i) = IF q % 2 = 1 THEN v ELSE v + p
  BY DEF BitSet
<1>5. Numbers = 0 .. N - 1
  BY DEF Numbers
<1> HIDE DEF p, N
<1>6. q \in Int /\ t \in 0 .. p - 1 /\ v = p * q + t
  <2>1. v \in Int /\ p \in Nat \ {0}
    BY <1>3
  <2>2. v \div p \in Int /\ v % p \in 0 .. p - 1 /\ v = p * (v \div p) + (v % p)
    BY <2>1, DivMod
  <2> QED
    BY <2>2
<1> HIDE DEF q, t
<1>7. CASE q % 2 = 1
  BY <1>3, <1>4, <1>5, <1>7
<1>8. CASE q % 2 # 1
  <2>1. q = 2 * (q \div 2) /\ q \div 2 \in Int
    BY <1>6, <1>8
  <2>2. q < 2 * e
    <3>1. CASE q >= 2 * e
      <4>1. p * q >= p * (2 * e) /\ p * q \in Int
        BY <1>3, <1>6, <3>1
      <4> QED
        BY <1>3, <1>6, <4>1
    <3> QED
      BY <1>6, <3>1
  <2>3. q + 1 <= 2 * e - 1
    BY <1>6, <2>1, <2>2
  <2>4. p * (q + 1) <= p * (2 * e - 1) /\ p * (q + 1) = p * q + p /\ p * (2 * e - 1) = p * (2 * e) - p
    BY <1>3, <1>6, <2>3
  <2>5. p * q \in Int /\ p * (2 * e) \in Int
    BY <1>3, <1>6
  <2>6. v + p < N
    BY <1>3, <1>6, <2>4, <2>5
  <2> QED
    BY <1>3, <1>4, <1>5, <1>8, <2>6
<1> QED
  BY <1>7, <1>8

(* ... and fp256_clear_set_bit counts the limbs of a power of two.          *)
LEMMA SingleBit ==
  ASSUME NEW i \in 0 .. 4 * W - 1
  PROVE  /\ [d |-> 2^i, n |-> (i \div W) + 1] \in [d : Numbers, n : 0 .. 4]
         /\ Proper([d |-> 2^i, n |-> (i \div W) + 1])
<1> DEFINE l == i \div W   t == i % W
<1>1. W \in Nat \ {0} /\ i \in Nat /\ i < W * 4 /\ i \in Int
  BY Bits
<1>2. l \in 0 .. 4 - 1
  BY <1>1, QuotientLess
<1>3. t \in 0 .. W - 1 /\ i = W * l + t
  BY <1>1, DivMod
<1> HIDE DEF l, t
<1>4. l \in 0 .. 3 /\ l \in 0 .. 4 /\ l \in 0 .. 7
  BY <1>2
<1>5. B^l \in Nat \ {0} /\ W * l \in 0 .. 4 * W /\ B^l = 2^(W * l) /\ B^(l + 1) = B * B^l
  BY <1>4, BasePowers
<1>6. t \in 0 .. 4 * W /\ W \in 0 .. 4 * W /\ t < W /\ i \in 0 .. 4 * W /\ W * l + t \in 0 .. 4 * W
  BY <1>1, <1>3, Bits
<1>7. 2^i = B^l * 2^t
  <2> DEFINE s == W * l
  <2>1. s \in 0 .. 4 * W /\ s + t \in 0 .. 4 * W /\ i = s + t /\ B^l = 2^s
    BY <1>3, <1>5, <1>6
  <2> HIDE DEF s
  <2>2. 2^(s + t) = 2^s * 2^t
    BY <1>6, <2>1, PowerSum
  <2> QED
    BY <2>1, <2>2
<1>8. PICK e \in Nat \ {0} : 2^W = 2^t * (2 * e)
  BY <1>6, PowersGrow
<1> DEFINE p == B^l   q == 2^t   v == 2^i
<1>9. p \in Nat \ {0} /\ q \in Nat \ {0} /\ v = p * q /\ B = q * (2 * e) /\ v \in Nat /\ B \in Nat
  <2>1. q \in Nat \ {0} /\ 2^i \in Nat /\ B = 2^W
    BY <1>6, TwoPowers DEF B
  <2>2. B \in Nat
    BY BasePowers
  <2> QED
    BY <1>5, <1>7, <1>8, <2>1, <2>2
<1>10. B^(l + 1) = B * p /\ B^l = p
  BY <1>5
<1> HIDE DEF p, q, v, B
<1>11. q < B
  <2>1. q * (2 * e) >= q * 2
    BY <1>9
  <2> QED
    BY <1>9, <2>1
<1>12. p <= v /\ v < B * p
  <2>1. p * q >= p * 1
    BY <1>9
  <2>2. p * q < p * B
    BY <1>9, <1>11
  <2>3. p * B = B * p /\ p * 1 = p
    BY <1>9
  <2> QED
    BY <1>9, <2>1, <2>2, <2>3
<1>13. v \in Numbers
  <2>1. 4 * W \in 0 .. 4 * W /\ i < 4 * W
    BY <1>1, Bits
  <2>2. PICK f \in Nat \ {0} : 2^(4 * W) = 2^i * (2 * f)
    BY <1>6, <2>1, PowersGrow
  <2>3. M = v * (2 * f) /\ M \in Nat
    BY <2>2, Modulus DEF v
  <2>4. v > 0
    BY <1>9, <1>12
  <2> HIDE DEF M
  <2>5. v * (2 * f) >= v * 2
    BY <1>9
  <2>6. v < M
    BY <1>9, <2>3, <2>4, <2>5
  <2> QED
    BY <1>9, <2>3, <2>6 DEF Numbers
<1>14. LimbCount(v) = l + 1
  <2>1. \A k \in 0 .. 3 : B^k <= v /\ v < B^(k + 1) => LimbCount(v) = k + 1
    BY <1>13, Counts
  <2>2. B^l <= v /\ v < B^(l + 1)
    BY <1>10, <1>12
  <2> QED
    BY <1>4, <2>1, <2>2
<1>15. Obj(v) = [d |-> v, n |-> l + 1]
  BY <1>14 DEF Obj
<1>16. Obj(v) \in [d : Numbers, n : 0 .. 4] /\ Proper(Obj(v))
  BY <1>13, ObjProper
<1> QED
  BY <1>15, <1>16 DEF v, l

(* Objects that are all proper, and stay so.                               *)
Sound(f) == f \in [Objects -> [d : Numbers, n : 0 .. 4]] /\ \A x \in Objects : Proper(f[x])

(* Storing a number in an object.                                          *)
LEMMA Stored ==
  ASSUME NEW f, NEW k, NEW x, Sound(f), x \in [d : Numbers, n : 0 .. 4], Proper(x)
  PROVE  /\ Sound([f EXCEPT ![k] = x])
         /\ k \in Objects => [f EXCEPT ![k] = x][k] = x
         /\ \A l \in Objects : l # k => [f EXCEPT ![k] = x][l] = f[l]
<1> DEFINE g == [f EXCEPT ![k] = x]
<1>1. f \in [Objects -> [d : Numbers, n : 0 .. 4]] /\ \A l \in Objects : Proper(f[l])
  BY DEF Sound
<1>2. \A l \in Objects : g[l] = IF l = k THEN x ELSE f[l]
  BY <1>1
<1>3. g \in [Objects -> [d : Numbers, n : 0 .. 4]]
  BY <1>1
<1> HIDE DEF g
<1>4. \A l \in Objects : Proper(g[l])
  BY <1>1, <1>2
<1>5. Sound(g)
  BY <1>3, <1>4 DEF Sound
<1> QED
  BY <1>2, <1>5 DEF g

(* The objects are numbers.                                                *)
LEMMA ObjectIs ==
  ASSUME NEW f, Sound(f), NEW x \in Objects
  PROVE  /\ f[x].d \in Numbers /\ f[x].d \in Nat /\ f[x].d < M /\ Proper(f[x])
         /\ Seen(f[x]) = f[x].d /\ (IsZero(f[x]) <=> f[x].d = 0 /\ f[x] # LimbZero)
         /\ f[x] \in [d : Numbers, n : 0 .. 4]
<1>1. Proper(f[x]) /\ f[x] \in [d : Numbers, n : 0 .. 4]
  BY DEF Sound
<1> DEFINE y == f[x]
<1>2. Seen(y) = y.d /\ y.d \in Numbers /\ (IsZero(y) <=> y.d = 0 /\ y # LimbZero)
  <2> HIDE DEF y
  <2>1. Proper(y)
    BY <1>1 DEF y
  <2> QED
    BY <2>1, SeenIs
<1>3. y.d \in Nat /\ y.d < M
  BY <1>2, Modulus DEF Numbers
<1> QED
  BY <1>1, <1>2, <1>3

(* m minus what the result holds.                                          *)
LEMMA NegatedIs ==
  ASSUME NEW f, Sound(f), call.r \in Objects, call.m \in Objects
  PROVE  /\ Sound(Negated(f))
         /\ Negated(f)[call.r].d = (f[call.m].d - f[call.r].d) % M
<1> DEFINE v == (f[call.m].d - f[call.r].d) % M
<1>1. v \in Numbers
  <2> DEFINE z == f[call.m].d - f[call.r].d
  <2>1. z \in Int /\ M \in Nat \ {0}
    BY ObjectIs, Modulus
  <2> HIDE DEF z, M
  <2>2. z % M \in 0 .. M - 1
    BY <2>1, DivMod
  <2> QED
    BY <2>2 DEF z, Numbers
<1>2. Negated(f) = [f EXCEPT ![call.r] = Obj(v)]
  BY DEF Negated
<1> HIDE DEF v
<1>3. Obj(v).d = v /\ Obj(v) \in [d : Numbers, n : 0 .. 4] /\ Proper(Obj(v))
  BY <1>1, ObjProper
<1>4. Sound([f EXCEPT ![call.r] = Obj(v)]) /\ [f EXCEPT ![call.r] = Obj(v)][call.r] = Obj(v)
  BY <1>3, Stored
<1> QED
  BY <1>2, <1>3, <1>4 DEF v

------------------------------------------------------------------------------
(* The inductive invariant.                                                *)

(* The objects are all proper while nothing else than numbers is stored.   *)
LEMMA ProperObjects ==
  ASSUME Garbage = {}, IInv
  PROVE  Sound(obj)
<1>1. obj \in [Objects -> [d : Numbers, n : 0 .. 4]]
  BY DEF IInv, TypeOK
<1>2. ASSUME NEW x \in Objects PROVE Proper(obj[x])
  BY <1>1, <1>2 DEF IInv, NormalForm, Proper
<1> QED
  BY <1>1, <1>2 DEF Sound

(* A function that returns has forgotten its arguments.                    *)
LEMMA ReturnIInv ==
  ASSUME Garbage = {}, Sound(obj'), call' = NoCall
  PROVE  IInv'
<1>1. call'.f = "none"
  BY DEF NoCall
<1>2. /\ obj' \in [Objects -> [d : Numbers, n : 0 .. 4]]
      /\ \A x \in Objects : obj'[x] \in {Obj(obj'[x].d), LimbZero}
  BY DEF Sound, Proper
<1>3. TypeOK'
  <2>1. obj' \in [Objects -> [d : Numbers, n : 0 .. 4 \cup Garbage]]
    BY <1>2
  <2> QED
    BY <1>1, <2>1 DEF TypeOK, WithResult, WithTwo, WithOne, WithLimb, WithModulus, WithDivisor
<1>4. NormalForm'
  BY <1>2 DEF NormalForm, LimbZero
<1>5. CallFits'
  BY <1>1 DEF CallFits, WithModulus, WithDivisor
<1> QED
  BY <1>3, <1>4, <1>5 DEF IInv

(* Every object is zero at first.                                          *)
LEMMA InitIInv ==
  ASSUME Garbage = {}
  PROVE  Init => IInv
<1> SUFFICES ASSUME Init PROVE IInv
  OBVIOUS
<1>1. obj = [x \in Objects |-> Zero] /\ call.f = "none"
  BY DEF Init, NoCall
<1>2. Zero \in [d : Numbers, n : 0 .. 4] /\ Proper(Zero)
  BY Literals
<1>3. \A x \in Objects : obj[x] = Zero
  BY <1>1
<1>4. TypeOK
  <2>1. obj \in [Objects -> [d : Numbers, n : 0 .. 4 \cup Garbage]]
    BY <1>1, <1>2
  <2> QED
    BY <1>1, <2>1 DEF TypeOK, WithResult, WithTwo, WithOne, WithLimb, WithModulus, WithDivisor
<1>5. NormalForm
  BY <1>2, <1>3 DEF NormalForm, Proper
<1>6. CallFits
  BY <1>1 DEF CallFits, WithModulus, WithDivisor
<1> QED
  BY <1>4, <1>5, <1>6 DEF IInv

(* A call says which objects play its roles; the objects themselves are    *)
(* what they were.                                                         *)
LEMMA CallIInv == IInv /\ Call => IInv'
<1> SUFFICES ASSUME IInv, Call PROVE IInv'
  OBVIOUS
<1>1. obj' = obj /\ (CallSet \/ CallRing \/ CallModular \/ CallGcd)
  BY DEF Call
<1>2. NormalForm'
  BY <1>1 DEF IInv, NormalForm
<1>3. obj' \in [Objects -> [d : Numbers, n : 0 .. 4 \cup Garbage]]
  BY <1>1 DEF IInv, TypeOK
<1> USE DEF WithResult, WithTwo, WithOne, WithLimb, WithModulus, WithDivisor
<1>4. CASE CallSet
  <2>1. PICK r \in Objects :
          \/ \E f \in {"set_zero", "set_one", "cleanse"} : call' = [f |-> f, r |-> r]
          \/ \E v \in Limb : call' = [f |-> "set_limb", r |-> r, v |-> v]
          \/ \E l \in 0 .. 4 : \E v \in 0 .. B^l - 1 :
               call' = [f |-> "from_bytes", r |-> r, v |-> v, l |-> l]
          \/ \E v \in Numbers, good \in 0 .. 4 :
               /\ good < 4 => Garbage # {}
               /\ call' = [f |-> "from_hex", r |-> r, v |-> v, good |-> good]
          \/ \E f \in {"set_bit", "clear_set_bit"}, i \in 0 .. 4 * W - 1 :
               call' = [f |-> f, r |-> r, i |-> i]
          \/ \E x \in Objects : call' = [f |-> "copy", r |-> r, a |-> x]
    BY <1>4 DEF CallSet
  <2>2. CASE \E f \in {"set_zero", "set_one", "cleanse"} : call' = [f |-> f, r |-> r]
    BY <1>2, <1>3, <2>2 DEF IInv, TypeOK, CallFits
  <2>3. CASE \E v \in Limb : call' = [f |-> "set_limb", r |-> r, v |-> v]
    BY <1>2, <1>3, <2>3 DEF IInv, TypeOK, CallFits
  <2>4. CASE \E l \in 0 .. 4 : \E v \in 0 .. B^l - 1 :
               call' = [f |-> "from_bytes", r |-> r, v |-> v, l |-> l]
    <3>1. PICK l \in 0 .. 4 : \E v \in 0 .. B^l - 1 : call' = [f |-> "from_bytes", r |-> r, v |-> v, l |-> l]
      BY <2>4
    <3>2. PICK v \in 0 .. B^l - 1 : call' = [f |-> "from_bytes", r |-> r, v |-> v, l |-> l]
      BY <3>1
    <3>3. v \in Numbers
      BY PowersBelow DEF Numbers
    <3> QED
      BY <1>2, <1>3, <3>2, <3>3 DEF IInv, TypeOK, CallFits
  <2>5. CASE \E v \in Numbers, good \in 0 .. 4 :
               /\ good < 4 => Garbage # {}
               /\ call' = [f |-> "from_hex", r |-> r, v |-> v, good |-> good]
    BY <1>2, <1>3, <2>5 DEF IInv, TypeOK, CallFits
  <2>6. CASE \E f \in {"set_bit", "clear_set_bit"}, i \in 0 .. 4 * W - 1 :
               call' = [f |-> f, r |-> r, i |-> i]
    BY <1>2, <1>3, <2>6 DEF IInv, TypeOK, CallFits
  <2>7. CASE \E x \in Objects : call' = [f |-> "copy", r |-> r, a |-> x]
    BY <1>2, <1>3, <2>7 DEF IInv, TypeOK, CallFits
  <2> QED
    BY <2>1, <2>2, <2>3, <2>4, <2>5, <2>6, <2>7
<1>5. CASE CallRing
  <2>1. PICK r \in Objects, x \in Objects, y \in Objects :
          \/ \E f \in {"add", "sub", "mullo", "mulhi"} : call' = [f |-> f, r |-> r, a |-> x, b |-> y]
          \/ \E hi \in Objects : call' = [f |-> "mul", r |-> r, hi |-> hi, a |-> x, b |-> y]
          \/ \E f \in {"add_limb", "sub_limb"}, v \in Limb : call' = [f |-> f, r |-> r, a |-> x, v |-> v]
          \/ \E f \in {"lshift", "rshift"}, s \in 0 .. 4 * W : call' = [f |-> f, r |-> r, a |-> x, s |-> s]
    BY <1>5 DEF CallRing
  <2>2. CASE \E f \in {"add", "sub", "mullo", "mulhi"} : call' = [f |-> f, r |-> r, a |-> x, b |-> y]
    BY <1>2, <1>3, <2>2 DEF IInv, TypeOK, CallFits
  <2>3. CASE \E hi \in Objects : call' = [f |-> "mul", r |-> r, hi |-> hi, a |-> x, b |-> y]
    BY <1>2, <1>3, <2>3 DEF IInv, TypeOK, CallFits
  <2>4. CASE \E f \in {"add_limb", "sub_limb"}, v \in Limb : call' = [f |-> f, r |-> r, a |-> x, v |-> v]
    BY <1>2, <1>3, <2>4 DEF IInv, TypeOK, CallFits
  <2>5. CASE \E f \in {"lshift", "rshift"}, s \in 0 .. 4 * W : call' = [f |-> f, r |-> r, a |-> x, s |-> s]
    BY <1>2, <1>3, <2>5 DEF IInv, TypeOK, CallFits
  <2> QED
    BY <2>1, <2>2, <2>3, <2>4, <2>5
<1>6. CASE CallModular
  <2>1. PICK r \in Objects, x \in Objects, y \in Objects, m \in Divisors :
          \/ \E f \in {"mod", "mod_neg", "mod_sqr"} : call' = [f |-> f, r |-> r, a |-> x, m |-> m]
          \/ \E f \in {"mod_add", "mod_sub", "mod_mul"} :
               call' = [f |-> f, r |-> r, a |-> x, b |-> y, m |-> m]
          \/ ~IsZero(obj[y]) /\ call' = [f |-> "mod_exp", r |-> r, a |-> x, e |-> y, m |-> m]
          \/ \E q \in Objects \cup {NULL}, rem \in Objects \cup {NULL} :
               call' = [f |-> "div", rem |-> rem, q |-> q, a |-> x, m |-> m]
    BY <1>6 DEF CallModular
  <2>2. m \in Objects /\ Divisors' = Divisors
    BY <1>1 DEF Divisors
  <2>3. CASE \E f \in {"mod", "mod_neg", "mod_sqr"} : call' = [f |-> f, r |-> r, a |-> x, m |-> m]
    BY <1>2, <1>3, <2>2, <2>3 DEF IInv, TypeOK, CallFits
  <2>4. CASE \E f \in {"mod_add", "mod_sub", "mod_mul"} :
               call' = [f |-> f, r |-> r, a |-> x, b |-> y, m |-> m]
    BY <1>2, <1>3, <2>2, <2>4 DEF IInv, TypeOK, CallFits
  <2>5. CASE call' = [f |-> "mod_exp", r |-> r, a |-> x, e |-> y, m |-> m]
    BY <1>2, <1>3, <2>2, <2>5 DEF IInv, TypeOK, CallFits
  <2>6. CASE \E q \in Objects \cup {NULL}, rem \in Objects \cup {NULL} :
               call' = [f |-> "div", rem |-> rem, q |-> q, a |-> x, m |-> m]
    BY <1>2, <1>3, <2>2, <2>6 DEF IInv, TypeOK, CallFits
  <2> QED
    BY <2>1, <2>3, <2>4, <2>5, <2>6
<1>7. CASE CallGcd
  <2>1. PICK x \in Recognised, y \in Recognised :
          \/ \E r \in Objects : \/ call' = [f |-> "gcd", r |-> r, a |-> x, b |-> y]
                                \/ call' = [f |-> "mod_inv", r |-> r, a |-> x, m |-> y]
          \/ call' = [f |-> "is_coprime", a |-> x, b |-> y]
    BY <1>7 DEF CallGcd
  <2>2. x \in Objects /\ y \in Objects /\ Recognised' = Recognised
    BY <1>1 DEF Recognised
  <2>3. CASE \E r \in Objects : call' = [f |-> "gcd", r |-> r, a |-> x, b |-> y]
    BY <1>2, <1>3, <2>2, <2>3 DEF IInv, TypeOK, CallFits
  <2>4. CASE \E r \in Objects : call' = [f |-> "mod_inv", r |-> r, a |-> x, m |-> y]
    BY <1>2, <1>3, <2>2, <2>4 DEF IInv, TypeOK, CallFits
  <2>5. CASE call' = [f |-> "is_coprime", a |-> x, b |-> y]
    BY <1>2, <1>3, <2>2, <2>5 DEF IInv, TypeOK, CallFits
  <2> QED
    BY <2>1, <2>3, <2>4, <2>5
<1> QED
  BY <1>1, <1>4, <1>5, <1>6, <1>7

(* Numbers that are cut off to 256 bits are numbers.                       *)
LEMMA Wrapped ==
  /\ \A z \in Int : z % M \in Numbers
  /\ \A z \in Numbers : z % M = z
<1>1. M \in Nat \ {0}
  BY Modulus
<1> HIDE DEF M
<1>2. \A z \in Int : z % M \in Numbers
  BY <1>1, DivMod DEF Numbers
<1>3. ASSUME NEW z \in Numbers PROVE z % M = z
  <2>1. z \in Int /\ z \in 0 .. M - 1 /\ z = M * 0 + z
    BY <1>1 DEF Numbers
  <2> QED
    BY <1>1, <2>1, DivModIs
<1> QED
  BY <1>2, <1>3

(* A number is stored in the result.                                       *)
LEMMA PutNumber ==
  ASSUME Sound(obj), NEW v \in Numbers, Put(Obj(v))
  PROVE  /\ Sound(obj')
         /\ call.r \in Objects => obj'[call.r].d = v
         /\ \A x \in Objects : x # call.r => obj'[x] = obj[x]
<1>1. Obj(v).d = v /\ Obj(v) \in [d : Numbers, n : 0 .. 4] /\ Proper(Obj(v))
  BY ObjProper
<1>2. obj' = [obj EXCEPT ![call.r] = Obj(v)]
  BY DEF Put
<1>3. /\ Sound([obj EXCEPT ![call.r] = Obj(v)])
      /\ call.r \in Objects => [obj EXCEPT ![call.r] = Obj(v)][call.r] = Obj(v)
      /\ \A x \in Objects : x # call.r => [obj EXCEPT ![call.r] = Obj(v)][x] = obj[x]
  BY <1>1, Stored
<1> QED
  BY <1>1, <1>2, <1>3

(* The functions that set an object.                                       *)
LEMMA SettersKeep ==
  ASSUME Garbage = {}, IInv,
         \/ SetZero \/ Cleanse \/ SetOne \/ SetLimb \/ Copy \/ FromBytes \/ FromHex
         \/ SetBit \/ ClearSetBit
  PROVE  Sound(obj') /\ call' = NoCall
<1>1. Sound(obj)
  BY ProperObjects
<1>2. ASSUME NEW x, x \in [d : Numbers, n : 0 .. 4], Proper(x), Put(x) PROVE Sound(obj')
  <2>1. obj' = [obj EXCEPT ![call.r] = x]
    BY <1>2 DEF Put
  <2>2. Sound([obj EXCEPT ![call.r] = x])
    BY <1>1, <1>2, Stored
  <2> QED
    BY <2>1, <2>2
<1> USE DEF Doing
<1>3. CASE SetZero \/ Cleanse
  <2>1. Put(Zero) /\ call' = NoCall
    BY <1>3 DEF SetZero, Cleanse
  <2> QED
    BY <1>2, <2>1, Literals
<1>4. CASE SetOne
  <2>1. Put(One) /\ call' = NoCall
    BY <1>4 DEF SetOne
  <2> QED
    BY <1>2, <2>1, Literals
<1>5. CASE SetLimb
  <2>1. Put([d |-> call.v, n |-> 1]) /\ call.f = "set_limb" /\ call' = NoCall
    BY <1>5 DEF SetLimb
  <2>2. call.v \in Limb
    BY <2>1 DEF IInv, TypeOK, WithLimb
  <2>3. [d |-> call.v, n |-> 1] \in [d : Numbers, n : 0 .. 4] /\ Proper([d |-> call.v, n |-> 1])
    BY <2>2, Literals
  <2> QED
    BY <1>2, <2>1, <2>3
<1>6. CASE Copy
  <2>1. Put(a) /\ call.f = "copy" /\ call' = NoCall
    BY <1>6 DEF Copy
  <2>2. call.a \in Objects
    BY <2>1 DEF IInv, TypeOK, WithOne
  <2>3. a \in [d : Numbers, n : 0 .. 4] /\ Proper(a)
    BY <1>1, <2>2, ObjectIs DEF a
  <2> QED
    BY <1>2, <2>1, <2>3
<1>7. CASE FromBytes
  <2>1. Put(Obj(call.v)) /\ call.f = "from_bytes" /\ call' = NoCall
    BY <1>7 DEF FromBytes
  <2>2. call.v \in Numbers
    BY <2>1 DEF IInv, TypeOK
  <2> QED
    BY <1>1, <2>1, <2>2, PutNumber
<1>8. CASE FromHex
  <2>1. call.f = "from_hex" /\ call' = NoCall
    BY <1>8 DEF FromHex
  <2>2. call.v \in Numbers /\ call.good \in 0 .. 4 /\ ~(call.good < 4)
    BY <2>1 DEF IInv, TypeOK, CallFits
  <2>3. Put(Obj(call.v))
    BY <1>8, <2>2 DEF FromHex
  <2> QED
    BY <1>1, <2>1, <2>2, <2>3, PutNumber
<1>9. CASE SetBit
  <2>1. Put(Obj(BitSet(obj[call.r].d, call.i))) /\ call.f = "set_bit" /\ call' = NoCall
    BY <1>9 DEF SetBit
  <2>2. call.r \in Objects /\ call.i \in 0 .. 4 * W - 1
    BY <2>1 DEF IInv, TypeOK, WithResult
  <2> DEFINE v == obj[call.r].d   w == BitSet(v, call.i)
  <2>3. v \in Numbers
    BY <1>1, <2>2, ObjectIs
  <2>4. w \in Numbers
    <3> HIDE DEF v
    <3> QED
      BY <2>2, <2>3, BitSetFits
  <2>5. Put(Obj(w))
    BY <2>1
  <2> HIDE DEF w
  <2> QED
    BY <1>1, <2>1, <2>4, <2>5, PutNumber
<1>10. CASE ClearSetBit
  <2> DEFINE x == [d |-> 2^call.i, n |-> (call.i \div W) + 1]
  <2>1. Put(x) /\ call.f = "clear_set_bit" /\ call' = NoCall
    BY <1>10 DEF ClearSetBit
  <2>2. call.i \in 0 .. 4 * W - 1
    BY <2>1 DEF IInv, TypeOK
  <2>3. x \in [d : Numbers, n : 0 .. 4] /\ Proper(x)
    BY <2>2, SingleBit
  <2> HIDE DEF x
  <2> QED
    BY <1>2, <2>1, <2>3
<1> QED
  BY <1>3, <1>4, <1>5, <1>6, <1>7, <1>8, <1>9, <1>10

(* Both halves of a product are numbers, and make up the product.          *)
LEMMA Halves ==
  ASSUME NEW x \in Numbers, NEW y \in Numbers
  PROVE  /\ (x * y) % M \in Numbers /\ (x * y) \div M \in Numbers
         /\ ((x * y) \div M) * M + ((x * y) % M) = x * y
<1> DEFINE z == x * y   h == z \div M   l == z % M
<1>1. M \in Nat \ {0} /\ x \in Nat /\ y \in Nat /\ x < M /\ y < M
  BY Modulus DEF Numbers
<1>2. Numbers = 0 .. M - 1
  BY DEF Numbers
<1> HIDE DEF M
<1>3. z \in Nat /\ z < M * M
  <2>1. z \in Nat /\ x * M \in Nat /\ M * M \in Nat
    BY <1>1
  <2>2. x * y <= x * M
    BY <1>1
  <2>3. x * M < M * M
    BY <1>1
  <2> QED
    BY <2>1, <2>2, <2>3
<1> HIDE DEF z
<1>4. h \in 0 .. M - 1
  BY <1>1, <1>3, QuotientLess
<1>5. l \in 0 .. M - 1 /\ z = M * h + l
  <2>1. z \in Int
    BY <1>3
  <2> QED
    BY <1>1, <2>1, DivMod
<1> HIDE DEF h, l
<1>6. M * h = h * M
  BY <1>1, <1>4
<1>7. h * M + l = z
  BY <1>5, <1>6
<1> QED
  BY <1>2, <1>4, <1>5, <1>7 DEF z, h, l

(* Arithmetic modulo 2^256.                                                *)
LEMMA RingKeeps ==
  ASSUME Garbage = {}, IInv,
         Add \/ Sub \/ AddLimb \/ SubLimb \/ MulLo \/ MulHi \/ LShift \/ RShift
  PROVE  Sound(obj') /\ call' = NoCall
<1>1. Sound(obj)
  BY ProperObjects
<1>2. ASSUME NEW v \in Numbers, Put(Obj(v)) PROVE Sound(obj')
  BY <1>1, <1>2, PutNumber
<1>3. ASSUME NEW z \in Int, Put(Obj(z % M)) PROVE Sound(obj')
  <2> DEFINE v == z % M
  <2>1. v \in Numbers /\ Put(Obj(v))
    BY <1>3, Wrapped
  <2> HIDE DEF v
  <2> QED
    BY <1>2, <2>1
<1> USE DEF Doing
<1>4. CASE Add \/ Sub \/ MulLo \/ MulHi
  <2>1. call.f \in {"add", "sub", "mullo", "mulhi"} /\ call' = NoCall
    BY <1>4 DEF Add, Sub, MulLo, MulHi
  <2>2. call.a \in Objects /\ call.b \in Objects
    BY <2>1 DEF IInv, TypeOK, WithTwo
  <2> DEFINE x == a.d   y == b.d
  <2>3. x \in Numbers /\ y \in Numbers /\ x \in Int /\ y \in Int
    BY <1>1, <2>2, ObjectIs DEF a, b
  <2>4. Put(Obj((x + y) % M)) \/ Put(Obj((x - y) % M)) \/ Put(Obj((x * y) % M)) \/ Put(Obj((x * y) \div M))
    BY <1>4 DEF Add, Sub, MulLo, MulHi
  <2> HIDE DEF x, y
  <2>5. x + y \in Int /\ x - y \in Int /\ x * y \in Int /\ (x * y) \div M \in Numbers
    BY <2>3, Halves
  <2> DEFINE s == x + y   t == x - y   p == x * y   h == p \div M
  <2>6. /\ s \in Int /\ t \in Int /\ p \in Int /\ h \in Numbers
        /\ Put(Obj(s % M)) \/ Put(Obj(t % M)) \/ Put(Obj(p % M)) \/ Put(Obj(h))
    BY <2>4, <2>5
  <2> HIDE DEF s, t, p, h
  <2> QED
    BY <1>2, <1>3, <2>1, <2>6
<1>5. CASE AddLimb \/ SubLimb
  <2>1. call.f \in {"add_limb", "sub_limb"} /\ call' = NoCall
    BY <1>5 DEF AddLimb, SubLimb
  <2>2. call.a \in Objects /\ call.v \in Limb
    BY <2>1 DEF IInv, TypeOK, WithOne, WithLimb
  <2> DEFINE s == a.d + call.v   t == a.d - call.v
  <2>3. a.d \in Nat /\ call.v \in Nat
    <3>1. a.d \in Nat
      BY <1>1, <2>2, ObjectIs DEF a
    <3>2. call.v \in Nat
      BY <2>2, BasePowers DEF Limb
    <3> QED
      BY <3>1, <3>2
  <2>4. s \in Int /\ t \in Int
    BY <2>3
  <2>5. Put(Obj(s % M)) \/ Put(Obj(t % M))
    BY <1>5 DEF AddLimb, SubLimb
  <2> HIDE DEF s, t
  <2> QED
    BY <1>3, <2>1, <2>4, <2>5
<1>6. CASE LShift \/ RShift
  <2>1. call.f \in {"lshift", "rshift"} /\ call' = NoCall
    BY <1>6 DEF LShift, RShift
  <2>2. call.a \in Objects /\ call.s \in 0 .. 4 * W
    BY <2>1 DEF IInv, TypeOK, WithOne
  <2> DEFINE x == a.d   p == 2^call.s   z == x * p   q == x \div p
  <2>3. x \in Nat /\ x < M /\ p \in Nat \ {0} /\ M \in Nat
    BY <1>1, <2>2, ObjectIs, TwoPowers, Modulus DEF a
  <2>4. Put(Obj(z % M)) \/ Put(Obj(q))
    BY <1>6 DEF LShift, RShift
  <2> HIDE DEF x, p
  <2>5. z \in Int /\ q \in 0 .. x
    BY <2>3, QuotientBelow
  <2> HIDE DEF z, q
  <2>6. q \in Numbers
    <3> HIDE DEF M
    <3> QED
      BY <2>3, <2>5 DEF Numbers
  <2> QED
    BY <1>2, <1>3, <2>1, <2>4, <2>5, <2>6
<1> QED
  BY <1>4, <1>5, <1>6

(* The product of all bits goes to two objects.                            *)
LEMMA MulKeeps ==
  ASSUME Garbage = {}, IInv, Mul
  PROVE  /\ Sound(obj') /\ call' = NoCall
         /\ call.r # call.hi => obj'[call.hi].d * M + obj'[call.r].d = a.d * b.d
<1>1. Sound(obj)
  BY ProperObjects
<1>2. call.f = "mul" /\ call' = NoCall
  BY DEF Mul, Doing
<1>3. call.a \in Objects /\ call.b \in Objects /\ call.r \in Objects /\ call.hi \in Objects
  BY <1>2 DEF IInv, TypeOK, WithTwo
<1> DEFINE x == a.d   y == b.d   l == (x * y) % M   h == (x * y) \div M
<1>4. x \in Numbers /\ y \in Numbers
  BY <1>1, <1>3, ObjectIs DEF a, b
<1>5. obj' = [obj EXCEPT ![call.r] = Obj(l), ![call.hi] = Obj(h)]
  BY DEF Mul
<1> DEFINE z == x * y
<1>6. l \in Numbers /\ h \in Numbers /\ h * M + l = z
  <2> HIDE DEF x, y
  <2> QED
    BY <1>4, Halves
<1>7. z = a.d * b.d
  OBVIOUS
<1> HIDE DEF l, h, z
<1> DEFINE f == [obj EXCEPT ![call.r] = Obj(l)]
           g == [f EXCEPT ![call.hi] = Obj(h)]
<1>8. obj' = g
  BY <1>5
<1>9. /\ Obj(l).d = l /\ Obj(l) \in [d : Numbers, n : 0 .. 4] /\ Proper(Obj(l))
      /\ Obj(h).d = h /\ Obj(h) \in [d : Numbers, n : 0 .. 4] /\ Proper(Obj(h))
  BY <1>6, ObjProper
<1>10. Sound(f) /\ f[call.r] = Obj(l)
  BY <1>1, <1>3, <1>9, Stored
<1> HIDE DEF f
<1>11. Sound(g) /\ g[call.hi] = Obj(h) /\ (call.r # call.hi => g[call.r] = f[call.r])
  BY <1>3, <1>9, <1>10, Stored
<1> HIDE DEF g
<1> QED
  BY <1>2, <1>6, <1>7, <1>8, <1>9, <1>10, <1>11

------------------------------------------------------------------------------
(* Modular arithmetic.                                                     *)

(* What ModularResults says of the step that ends a call.                  *)
ResultIsRight ==
  Bounded(obj'[call.r].d, obj[call.m].d) /\ Right(obj'[call.r].d, obj[call.m].d)

(* The modulus of a call, and remainders by it.                            *)
LEMMA RemIs ==
  ASSUME Garbage = {}, IInv, call.f \in WithDivisor
  PROVE  /\ Sound(obj) /\ call.m \in Objects /\ call.a \in Objects
         /\ obj[call.m].d \in Nat \ {0} /\ obj[call.m].d < M /\ obj[call.m].d \in Numbers
         /\ Seen(obj[call.m]) = obj[call.m].d
         /\ \A v \in Int : /\ v % obj[call.m].d \in 0 .. obj[call.m].d - 1
                           /\ v % obj[call.m].d \in Numbers
                           /\ Rem(v) = Obj(v % obj[call.m].d)
                           /\ Congruent(v % obj[call.m].d, v, obj[call.m].d)
<1> DEFINE n == obj[call.m].d
<1>1. Sound(obj)
  BY ProperObjects
<1>2. call.m \in Divisors
  BY DEF IInv, CallFits
<1>3. call.m \in Objects /\ Seen(obj[call.m]) > 0
  BY <1>2 DEF Divisors
<1>4. call.a \in Objects
  BY DEF IInv, TypeOK, WithDivisor, WithModulus, WithOne, WithTwo
<1>5. n \in Nat \ {0} /\ n < M /\ n \in Numbers /\ Seen(obj[call.m]) = n
  BY <1>1, <1>3, ObjectIs
<1>6. \A v \in Int : Rem(v) = Obj(v % n)
  BY <1>5 DEF Rem
<1>7. \A k \in 0 .. n - 1 : k \in Numbers
  BY <1>5, Modulus DEF Numbers
<1> HIDE DEF n
<1>8. \A v \in Int : v % n \in 0 .. n - 1 /\ Congruent(v % n, v, n)
  BY <1>5, Remainder
<1> QED
  BY <1>1, <1>3, <1>4, <1>5, <1>6, <1>7, <1>8 DEF n

(* fp256_mod, fp256_mod_add, fp256_mod_mul and fp256_mod_sqr store the     *)
(* remainder of a number of up to eight limbs.                             *)
LEMMA ReductionsAreRight ==
  ASSUME Garbage = {}, IInv, Mod \/ ModAdd \/ ModMul \/ ModSqr
  PROVE  Sound(obj') /\ call' = NoCall /\ ResultIsRight
<1>1. call.f \in {"mod", "mod_add", "mod_mul", "mod_sqr"} /\ call' = NoCall
  BY DEF Mod, ModAdd, ModMul, ModSqr, Doing
<1>2. call.f \in WithDivisor /\ call.r \in Objects
  BY <1>1 DEF IInv, TypeOK, WithDivisor, WithResult, WithTwo
<1> DEFINE n == obj[call.m].d
<1>3. /\ Sound(obj) /\ call.m \in Objects /\ call.a \in Objects /\ n \in Nat \ {0}
      /\ \A v \in Int : /\ v % n \in 0 .. n - 1 /\ v % n \in Numbers
                        /\ Rem(v) = Obj(v % n) /\ Congruent(v % n, v, n)
  BY <1>2, RemIs
<1>4. PICK v \in Int : Put(Rem(v)) /\ Promised = v /\ call.f # "mod_neg" /\ call.f # "mod_inv"
  <2>1. a.d \in Int /\ Seen(a) = a.d
    BY <1>3, ObjectIs DEF a
  <2>2. call.f \in {"mod_add", "mod_mul"} => b.d \in Int
    <3>1. call.f \in {"mod_add", "mod_mul"} => call.b \in Objects
      BY DEF IInv, TypeOK, WithTwo
    <3> QED
      BY <1>3, <3>1, ObjectIs DEF b
  <2>3. CASE Mod
    BY <2>1, <2>3 DEF Mod, Doing, Promised
  <2>4. CASE ModAdd
    <3>1. a.d + b.d \in Int /\ call.f = "mod_add" /\ Put(Rem(a.d + b.d))
      BY <2>1, <2>2, <2>4 DEF ModAdd, Doing
    <3> QED
      BY <3>1 DEF Promised
  <2>5. CASE ModMul
    <3>1. a.d * b.d \in Int /\ call.f = "mod_mul" /\ Put(Rem(a.d * b.d))
      BY <2>1, <2>2, <2>5 DEF ModMul, Doing
    <3> QED
      BY <3>1 DEF Promised
  <2>6. CASE ModSqr
    <3>1. a.d * a.d \in Int /\ call.f = "mod_sqr" /\ Put(Rem(a.d * a.d))
      BY <2>1, <2>6 DEF ModSqr, Doing
    <3> QED
      BY <3>1 DEF Promised
  <2> QED
    BY <2>3, <2>4, <2>5, <2>6
<1> HIDE DEF n
<1> DEFINE s == v % n
<1>5. s \in 0 .. n - 1 /\ s \in Numbers /\ Put(Obj(s)) /\ Congruent(s, v, n)
  BY <1>3, <1>4
<1> HIDE DEF s
<1>6. Sound(obj') /\ obj'[call.r].d = s
  BY <1>2, <1>3, <1>5, PutNumber
<1>7. s < n /\ (s - v) % n = 0
  BY <1>3, <1>5, ZeroRemainder
<1> QED
  BY <1>1, <1>4, <1>6, <1>7 DEF ResultIsRight, Bounded, Right, n

(* What is left of n is congruent to the negative.                         *)
LEMMA Complement ==
  ASSUME NEW n \in Int, NEW s \in Int, NEW v \in Int, Congruent(s, v, n)
  PROVE  Congruent(n - s, -v, n)
<1>1. PICK k \in Int : s = v + n * k
  BY DEF Congruent
<1>2. n * k \in Int /\ 1 - k \in Int
  OBVIOUS
<1>3. n * (1 - k) = n - n * k
  OBVIOUS
<1>4. n - s = -v + n * (1 - k)
  BY <1>1, <1>2, <1>3
<1> QED
  BY <1>2, <1>4 DEF Congruent

(* The subtraction from m, when the result does not take its place.        *)
LEMMA NegatedRight ==
  ASSUME NEW f, Sound(f), call.r \in Objects, call.m \in Objects,
         NEW n \in Nat \ {0}, n = f[call.m].d, NEW s \in Int, s = f[call.r].d, s \in 0 .. n,
         NEW v \in Int, Congruent(s, v, n), s > 0
  PROVE  Negated(f)[call.r].d = n - s /\ n - s \in 0 .. n - 1 /\ Congruent(n - s, -v, n)
<1>1. n < M /\ M \in Nat
  BY ObjectIs, Modulus
<1>2. n - s \in 0 .. n - 1 /\ n - s \in Numbers
  BY <1>1 DEF Numbers
<1>3. Negated(f)[call.r].d = (n - s) % M
  BY NegatedIs
<1>4. (n - s) % M = n - s
  <2> DEFINE z == n - s
  <2>1. z \in Numbers
    BY <1>2
  <2> HIDE DEF z
  <2>2. z % M = z
    BY <2>1, Wrapped
  <2> QED
    BY <2>2 DEF z
<1>5. Congruent(n - s, -v, n)
  <2>1. n \in Int
    OBVIOUS
  <2> QED
    BY <2>1, Complement
<1> QED
  BY <1>2, <1>3, <1>4, <1>5

(* fp256_mod_neg subtracts the remainder from m.                           *)
LEMMA ModNegIsRight ==
  ASSUME Garbage = {}, IInv, ModNeg
  PROVE  Sound(obj') /\ call' = NoCall /\ (call.r # call.m => ResultIsRight)
<1>1. call.f = "mod_neg" /\ call' = NoCall
  BY DEF ModNeg, Doing
<1>2. call.f \in WithDivisor /\ call.r \in Objects
  BY <1>1 DEF IInv, TypeOK, WithDivisor, WithResult
<1> DEFINE n == obj[call.m].d   v == a.d   s == v % n   f == [obj EXCEPT ![call.r] = Obj(s)]
<1>3. /\ Sound(obj) /\ call.m \in Objects /\ call.a \in Objects /\ n \in Nat \ {0} /\ n < M
      /\ \A z \in Int : /\ z % n \in 0 .. n - 1 /\ z % n \in Numbers
                        /\ Rem(z) = Obj(z % n) /\ Congruent(z % n, z, n)
  BY <1>2, RemIs
<1>4. v \in Int /\ Seen(a) = v /\ (a.d % obj[call.m].d = 0 <=> s = 0)
  BY <1>3, ObjectIs DEF a
<1>5. obj' = Negated(f)
  BY <1>3, <1>4 DEF ModNeg
<1>6. s \in 0 .. n - 1 /\ s \in Numbers /\ Congruent(s, v, n)
  BY <1>3, <1>4
<1>7. Promised = -v
  BY <1>1 DEF Promised
<1> HIDE DEF n, v, s
<1>8. Obj(s).d = s /\ Obj(s) \in [d : Numbers, n : 0 .. 4] /\ Proper(Obj(s))
  BY <1>6, ObjProper
<1>9. Sound(f) /\ f[call.r] = Obj(s) /\ (call.m # call.r => f[call.m] = obj[call.m])
  <2> DEFINE o == Obj(s)
  <2>1. /\ o \in [d : Numbers, n : 0 .. 4] /\ Proper(o) /\ call.r \in Objects /\ call.m \in Objects
        /\ Sound(obj)
    BY <1>2, <1>3, <1>8
  <2> HIDE DEF o
  <2>2. Sound([obj EXCEPT ![call.r] = o]) /\ [obj EXCEPT ![call.r] = o][call.r] = o
        /\ (call.m # call.r => [obj EXCEPT ![call.r] = o][call.m] = obj[call.m])
    BY <2>1, Stored
  <2> QED
    BY <2>2 DEF o
<1> HIDE DEF f
<1>10. Sound(obj') /\ obj'[call.r].d = (f[call.m].d - s) % M
  BY <1>2, <1>3, <1>5, <1>8, <1>9, NegatedIs
<1>11. ASSUME call.r # call.m PROVE ResultIsRight
  <2>1. f[call.m].d = n /\ f[call.r].d = s
    BY <1>8, <1>9, <1>11 DEF n
  <2> DEFINE t == n - s
  <2>2. t \in Int /\ t \in 1 .. n /\ t \in Numbers
    <3>1. M \in Nat
      BY Modulus
    <3> QED
      BY <1>3, <1>6, <3>1 DEF Numbers
  <2>3. obj'[call.r].d = t % M
    BY <1>10, <2>1
  <2>4. Congruent(t, -v, n)
    <3>1. PICK k \in Int : s = v + n * k
      BY <1>6 DEF Congruent
    <3>2. n * (1 - k) = n - n * k /\ n * k \in Int /\ 1 - k \in Int
      <4>1. n \in Int
        BY <1>3
      <4> HIDE DEF t
      <4> QED
        BY <4>1
    <3>3. t = -v + n * (1 - k)
      BY <1>3, <1>4, <3>1, <3>2
    <3> QED
      BY <3>2, <3>3 DEF Congruent
  <2> HIDE DEF t
  <2>5. obj'[call.r].d = t
    BY <2>2, <2>3, Wrapped
  <2> DEFINE w == -v
  <2>6. w \in Int /\ Congruent(t, w, n) /\ Promised = w
    BY <1>4, <1>7, <2>4
  <2> HIDE DEF w
  <2>7. (t - w) % n = 0
    BY <1>3, <2>2, <2>6, ZeroRemainder
  <2>8. (s = 0 => t = n) /\ (s # 0 => t < n)
    BY <1>3, <1>6 DEF t
  <2>9. Bounded(t, n)
    BY <1>1, <1>4, <2>8 DEF Bounded, n
  <2> QED
    BY <1>1, <2>5, <2>6, <2>7, <2>9 DEF ResultIsRight, Right, n
<1> QED
  BY <1>1, <1>10, <1>11

(* fp256_mod_sub subtracts the smaller number from the larger one and      *)
(* negates what is left of it, if anything is.                             *)
LEMMA ModSubIsRight ==
  ASSUME Garbage = {}, IInv, ModSub
  PROVE  Sound(obj') /\ call' = NoCall /\ (call.r # call.m => ResultIsRight)
<1>1. call.f = "mod_sub" /\ call' = NoCall
  BY DEF ModSub, Doing
<1>2. call.f \in WithDivisor /\ call.r \in Objects /\ call.b \in Objects
  BY <1>1 DEF IInv, TypeOK, WithDivisor, WithTwo
<1> DEFINE n == obj[call.m].d   x == a.d   y == b.d
           neg == Cmp(a, b) < 0
           v == IF neg THEN y - x ELSE x - y
           s == v % n
           f == [obj EXCEPT ![call.r] = Obj(s)]
<1>3. /\ Sound(obj) /\ call.m \in Objects /\ call.a \in Objects /\ n \in Nat \ {0} /\ n < M
      /\ \A z \in Int : /\ z % n \in 0 .. n - 1 /\ z % n \in Numbers
                        /\ Rem(z) = Obj(z % n) /\ Congruent(z % n, z, n)
  BY <1>2, RemIs
<1>4. x \in Nat /\ y \in Nat /\ x < M /\ y < M /\ Proper(a) /\ Proper(b) /\ M \in Nat
  BY <1>2, <1>3, ObjectIs, Modulus DEF a, b
<1>5. (neg => x <= y) /\ (~neg => y <= x)
  <2>1. (Cmp(a, b) < 0 => a.d <= b.d) /\ (~(Cmp(a, b) < 0) => b.d <= a.d)
    BY <1>4, CmpIs
  <2> QED
    BY <2>1
<1>6. (IF neg THEN b.d - a.d ELSE a.d - b.d) % M = v % M
  OBVIOUS
<1>7. /\ neg /\ Rem(v % M).n # 0 => obj' = Negated([obj EXCEPT ![call.r] = Rem(v % M)])
      /\ ~(neg /\ Rem(v % M).n # 0) => obj' = [obj EXCEPT ![call.r] = Rem(v % M)]
  BY DEF ModSub
<1>8. Promised = x - y
  BY <1>1 DEF Promised
<1> HIDE DEF x, y, n, neg
<1>9. v \in Int /\ v \in Numbers
  BY <1>4, <1>5 DEF Numbers
<1>10. v % M = v
  <2> HIDE DEF v
  <2> QED
    BY <1>9, Wrapped
<1>11. (neg => x - y = -v) /\ (~neg => x - y = v)
  BY <1>4
<1> HIDE DEF v
<1>12. s \in 0 .. n - 1 /\ s \in Numbers /\ Congruent(s, v, n) /\ Rem(v % M) = Obj(s)
  BY <1>3, <1>9, <1>10
<1> HIDE DEF s
<1>13. LimbCount(s) = 0 <=> s = 0
  BY <1>12, Counts
<1>14. Obj(s).d = s /\ Obj(s).n = LimbCount(s) /\ Obj(s) \in [d : Numbers, n : 0 .. 4] /\ Proper(Obj(s))
  BY <1>12, ObjProper DEF Obj
<1>15. Sound(f) /\ f[call.r] = Obj(s) /\ (call.m # call.r => f[call.m] = obj[call.m])
  BY <1>2, <1>3, <1>14, Stored
<1>16. (neg /\ s # 0 => obj' = Negated(f)) /\ (~(neg /\ s # 0) => obj' = f)
  <2> HIDE DEF Obj, Rem
  <2> QED
    BY <1>7, <1>12, <1>13, <1>14
<1> HIDE DEF f
<1>17. Sound(obj')
  <2>1. Sound(Negated(f))
    BY <1>2, <1>3, <1>15, NegatedIs
  <2> QED
    BY <1>15, <1>16, <2>1
<1>18. ASSUME call.r # call.m PROVE ResultIsRight
  <2>1. f[call.m].d = n /\ f[call.r].d = s
    BY <1>14, <1>15, <1>18 DEF n
  <2> DEFINE w == x - y   r == obj'[call.r].d
  <2>2. w \in Int /\ Promised = w
    BY <1>4, <1>8
  <2>3. CASE neg /\ s # 0
    <3>1. /\ s \in Int /\ s \in 0 .. n /\ s > 0
      BY <1>3, <1>12, <2>3
    <3>2. Negated(f)[call.r].d = n - s /\ n - s \in 0 .. n - 1 /\ Congruent(n - s, -v, n)
      BY <1>2, <1>3, <1>9, <1>12, <1>15, <2>1, <3>1, NegatedRight
    <3>3. r = n - s /\ w = -v
      BY <1>11, <1>16, <2>3, <3>2
    <3>4. r \in Int /\ r < n /\ Congruent(r, w, n)
      BY <1>3, <3>1, <3>2, <3>3
    <3> HIDE DEF r, w
    <3>5. (r - w) % n = 0
      BY <1>3, <2>2, <3>4, ZeroRemainder
    <3> QED
      BY <1>1, <2>2, <3>4, <3>5 DEF ResultIsRight, Bounded, Right, n, r
  <2>4. CASE ~(neg /\ s # 0)
    <3>1. r = s /\ r \in Int /\ r < n
      BY <1>3, <1>12, <1>16, <2>1, <2>4
    <3>2. Congruent(r, w, n)
      <4>1. CASE ~neg
        BY <1>11, <1>12, <3>1, <4>1
      <4>2. CASE neg
        <5>1. s = 0 /\ w = -v
          BY <1>11, <2>4, <4>2
        <5>2. PICK k \in Int : s = v + n * k
          BY <1>12 DEF Congruent
        <5>3. n * k \in Int
          BY <1>3
        <5>4. s = w + n * (-k) /\ -k \in Int
          <6>1. n * (-k) = -(n * k)
            BY <1>3
          <6>2. v = -(n * k)
            BY <1>9, <5>1, <5>2, <5>3
          <6>3. w = n * k
            BY <5>1, <5>3, <6>2
          <6> QED
            BY <5>1, <5>3, <6>1, <6>3
        <5> QED
          BY <3>1, <5>4 DEF Congruent
      <4> QED
        BY <4>1, <4>2
    <3> HIDE DEF r, w
    <3>3. (r - w) % n = 0
      BY <1>3, <2>2, <3>1, <3>2, ZeroRemainder
    <3> QED
      BY <1>1, <2>2, <3>1, <3>3 DEF ResultIsRight, Bounded, Right, n, r
  <2> QED
    BY <2>3, <2>4
<1> QED
  BY <1>1, <1>17, <1>18

(* A number of the same class, or the number itself, is brought into       *)
(* Montgomery form.                                                        *)
LEMMA ToForm ==
  ASSUME NEW n \in Nat, n % 2 = 1, NEW x \in Int, NEW v \in Int, NEW RR \in Int,
         Congruent(x, v, n), Congruent(RR, M * M, n)
  PROVE  /\ Redc(x * RR, n) = InForm(v, n)
         /\ InForm(v, n) \in 0 .. n - 1 /\ Congruent(InForm(v, n), v * M, n)
<1>1. M \in Int /\ n \in Int /\ n \in Nat \ {0}
  BY Modulus
<1> DEFINE mm == M * M   z == v * M   y == z % n   p == x * RR   q == v * mm
<1>2. InForm(v, n) = y
  BY DEF InForm
<1> HIDE DEF M
<1>3. mm \in Int /\ z \in Int /\ p \in Int /\ Congruent(RR, mm, n)
  BY <1>1
<1>4. M * z = q
  <2>1. M * z = v * mm
    BY <1>1
  <2> QED
    BY <2>1
<1> HIDE DEF mm
<1>5. q \in Int /\ Congruent(p, q, n)
  BY <1>1, <1>3, Products
<1> HIDE DEF z
<1>6. y \in 0 .. n - 1 /\ Congruent(y, z, n)
  BY <1>1, <1>3, Remainder
<1> HIDE DEF y, p, q
<1>7. y \in Int /\ M * y \in Int
  BY <1>1, <1>6
<1>8. Congruent(M * y, M * z, n)
  BY <1>1, <1>3, <1>6, <1>7, Multiple
<1> DEFINE t == M * y
<1>9. t \in Int /\ Congruent(t, q, n)
  BY <1>4, <1>7, <1>8
<1> HIDE DEF t
<1>10. Congruent(t, p, n)
  <2>1. Congruent(q, p, n)
    BY <1>1, <1>3, <1>5, Reversed
  <2> QED
    BY <1>1, <1>3, <1>5, <1>9, <2>1, Chain
<1>11. Redc(p, n) = y
  <2>1. Congruent(M * y, p, n)
    BY <1>10 DEF t
  <2> QED
    BY <1>3, <1>6, <2>1, RedcUnique
<1> QED
  BY <1>2, <1>6, <1>11 DEF p, z

(* It is brought back as it was.                                           *)
LEMMA FromForm ==
  ASSUME NEW n \in Nat, n % 2 = 1, NEW v \in 0 .. n - 1
  PROVE  InForm(v, n) \in Nat /\ Redc(InForm(v, n), n) = v
<1>1. M \in Int /\ n \in Int /\ n \in Nat \ {0}
  BY Modulus
<1> DEFINE z == v * M   y == z % n   t == M * v
<1>2. InForm(v, n) = y
  BY DEF InForm
<1> HIDE DEF M
<1>3. z \in Int /\ t = z
  BY <1>1
<1> HIDE DEF z, t
<1>4. y \in 0 .. n - 1 /\ Congruent(z, y, n)
  BY <1>1, <1>3, Remainder
<1> HIDE DEF y
<1>5. y \in Int /\ Congruent(M * v, y, n)
  BY <1>3, <1>4 DEF t
<1>6. Redc(y, n) = v
  BY <1>5, RedcUnique
<1> QED
  BY <1>2, <1>4, <1>6

(* The exponentiation of fp256_mod_exp: in, power, and out again.          *)
LEMMA ExpIs ==
  ASSUME NEW n \in Nat, n % 2 = 1, NEW x \in Int, NEW v \in Int, NEW k \in Nat, NEW RR \in Int,
         Congruent(x, v, n), Congruent(RR, M * M, n)
  PROVE  /\ PowerMod(v, k, n) \in 0 .. n - 1
         /\ Redc(MontPower(Redc(x * RR, n), k, RR, n), n) = PowerMod(v, k, n)
<1> DEFINE y == InForm(v, n)   p == PowerMod(v, k, n)
<1>1. Redc(x * RR, n) = y /\ y \in 0 .. n - 1 /\ Congruent(y, v * M, n)
  BY ToForm
<1> HIDE DEF y
<1>2. y \in Int
  BY <1>1
<1>3. p \in 0 .. n - 1 /\ MontPower(y, k, RR, n) = InForm(p, n)
  BY <1>1, <1>2, MontPowerIs
<1> HIDE DEF p
<1>4. Redc(InForm(p, n), n) = p
  BY <1>3, FromForm
<1> QED
  BY <1>1, <1>3, <1>4 DEF p

(* fp256_mod_exp returns the power, and leaves r alone for an even modulus. *)
LEMMA ModExpIsRight ==
  ASSUME Garbage = {}, IInv, ModExp
  PROVE  Sound(obj') /\ call' = NoCall /\ (IsOdd(obj[call.m]) => ResultIsRight)
<1>1. call.f = "mod_exp" /\ call' = NoCall
  BY DEF ModExp, Doing
<1>2. call.f \in WithDivisor /\ call.r \in Objects /\ call.e \in Objects
  BY <1>1 DEF IInv, TypeOK, WithDivisor, WithResult
<1> DEFINE n == obj[call.m].d   v == a.d   k == obj[call.e].d   RR == (M * M) % n
           x == IF Cmp(a, obj[call.m]) >= 0 THEN v % n ELSE v
           pow == MontPower(Redc(x * RR, n), k, RR, n)
<1>3. /\ Sound(obj) /\ call.m \in Objects /\ call.a \in Objects /\ n \in Nat \ {0} /\ n < M
      /\ n \in Numbers /\ Seen(obj[call.m]) = n
      /\ \A z \in Int : /\ z % n \in 0 .. n - 1 /\ z % n \in Numbers
                        /\ Congruent(z % n, z, n)
  BY <1>2, RemIs
<1>4. /\ v \in Int /\ Seen(a) = v /\ k \in Nat /\ Seen(obj[call.e]) = k
  BY <1>2, <1>3, ObjectIs DEF a
<1>5. IF IsOdd(obj[call.m]) THEN Put(Obj(Redc(pow, n))) ELSE UNCHANGED obj
  BY <1>3, <1>4 DEF ModExp
<1>6. Promised = PowerMod(v, k, n)
  BY <1>1 DEF Promised
<1>7. IsOdd(obj[call.m]) <=> n % 2 = 1
  BY DEF IsOdd
<1>8. CASE n % 2 = 1
  <2>1. M * M \in Int
    BY Modulus
  <2>2. RR \in Int /\ Congruent(RR, M * M, n)
    <3> DEFINE mm == M * M
    <3>1. mm \in Int
      BY <2>1
    <3> HIDE DEF mm
    <3>2. mm % n \in 0 .. n - 1 /\ Congruent(mm % n, mm, n)
      BY <1>3, <3>1
    <3>3. mm % n \in Int
      BY <3>2
    <3> QED
      BY <3>2, <3>3 DEF mm
  <2>3. x \in Int /\ Congruent(x, v, n)
    <3>1. v % n \in Int /\ Congruent(v % n, v, n)
      BY <1>3, <1>4
    <3>2. Congruent(v, v, n)
      BY <1>3, <1>4, Same
    <3> HIDE DEF n, v
    <3> QED
      BY <1>4, <3>1, <3>2
  <2> DEFINE p == PowerMod(v, k, n)
  <2> HIDE DEF x, RR, n, v, k
  <2>4. p \in 0 .. n - 1 /\ Redc(pow, n) = p
    <3>1. n \in Nat
      BY <1>3
    <3> QED
      BY <1>4, <1>8, <2>2, <2>3, <3>1, ExpIs
  <2>5. p \in Numbers /\ Put(Obj(p))
    <3>1. Put(Obj(p))
      BY <1>5, <1>7, <1>8, <2>4
    <3>2. M \in Nat
      BY Modulus
    <3> HIDE DEF p
    <3>3. p \in Numbers
      BY <1>3, <2>4, <3>2 DEF Numbers
    <3> QED
      BY <3>1, <3>3
  <2> HIDE DEF p, pow
  <2>6. Sound(obj') /\ obj'[call.r].d = p
    BY <1>2, <1>3, <2>5, PutNumber
  <2>7. p < n /\ (p - p) % n = 0
    <3>1. p \in Int
      BY <2>4
    <3>2. Congruent(p, p, n)
      BY <1>3, <3>1, Same
    <3>3. (p - p) % n = 0
      BY <1>3, <3>1, <3>2, ZeroRemainder
    <3> QED
      BY <1>3, <2>4, <3>3
  <2> QED
    BY <1>1, <1>6, <2>6, <2>7 DEF ResultIsRight, Bounded, Right, n, p
<1>9. CASE n % 2 # 1
  <2>1. obj' = obj
    BY <1>5, <1>7, <1>9
  <2> QED
    BY <1>1, <1>3, <1>7, <1>9, <2>1
<1> QED
  BY <1>8, <1>9

(* A number of more than four limbs is not stored.                         *)
LEMMA SetLimbsIs ==
  ASSUME Sound(obj), call.r \in Objects, NEW v \in 0 .. M
  PROVE  /\ Sound(SetLimbs(v)) /\ (v < M => SetLimbs(v)[call.r].d = v)
         /\ \A x \in Objects : x # call.r => SetLimbs(v)[x] = obj[x]
<1>1. CASE v < M
  <2>1. v \in Numbers
    <3>1. M \in Nat
      BY Modulus
    <3> HIDE DEF M
    <3> QED
      BY <1>1, <3>1 DEF Numbers
  <2>2. Obj(v).d = v /\ Obj(v) \in [d : Numbers, n : 0 .. 4] /\ Proper(Obj(v))
    BY <2>1, ObjProper
  <2>3. SetLimbs(v) = [obj EXCEPT ![call.r] = Obj(v)]
    BY <1>1 DEF SetLimbs
  <2> DEFINE o == Obj(v)
  <2> HIDE DEF o
  <2>4. /\ Sound([obj EXCEPT ![call.r] = o]) /\ [obj EXCEPT ![call.r] = o][call.r] = o
        /\ \A x \in Objects : x # call.r => [obj EXCEPT ![call.r] = o][x] = obj[x]
    BY <2>2, Stored DEF o
  <2> QED
    BY <2>2, <2>3, <2>4 DEF o
<1>2. CASE ~(v < M)
  BY <1>2 DEF SetLimbs
<1> QED
  BY <1>1, <1>2

(* fp256_mod_inv returns the cofactor, or what is congruent to it, if both *)
(* numbers are there and ll_lehmer_exgcd has found one.                    *)
LEMMA ModInvIsRight ==
  ASSUME Garbage = {}, IInv, ModInv
  PROVE  /\ Sound(obj') /\ call' = NoCall
         /\ call.r # call.m /\ ~IsZero(a) /\ ~IsZero(obj[call.m])
            /\ <<a.d, obj[call.m].d>> \notin Borrowing \cup Losing => ResultIsRight
<1>1. call.f = "mod_inv" /\ call' = NoCall
  BY DEF ModInv
<1>2. call.r \in Objects /\ call.a \in Recognised /\ call.m \in Recognised
  BY <1>1 DEF IInv, TypeOK, CallFits, WithResult
<1> DEFINE n == obj[call.m].d   v == a.d   g == GCD(v, n)
<1>3. /\ Sound(obj) /\ call.m \in Objects /\ call.a \in Objects
  BY <1>2, ProperObjects DEF Recognised
<1>4. /\ n \in Nat /\ n < M /\ Seen(obj[call.m]) = n /\ (~IsZero(obj[call.m]) => n \in Nat \ {0})
      /\ v \in Nat /\ Seen(a) = v /\ (~IsZero(a) => v \in Nat \ {0})
  BY <1>2, <1>3, ObjectIs DEF a, Recognised
<1>5. CASE IsZero(a) \/ IsZero(obj[call.m])
  BY <1>1, <1>3, <1>5 DEF ModInv
<1>6. CASE ~(IsZero(a) \/ IsZero(obj[call.m]))
  <2>1. n \in Nat \ {0} /\ v \in Nat \ {0} /\ M \in Nat
    BY <1>4, <1>6, Modulus
  <2>2. PICK u \in FoundCofactors(v, n) :
          obj' = IF u < 0 THEN Negated(SetLimbs(-u)) ELSE SetLimbs(u)
    BY <1>4, <1>6 DEF ModInv
  <2> DEFINE Found == <<v, n>> \notin Borrowing \cup Losing
  <2>3. /\ Found => u \in 1 - n .. n - 1 /\ (u * v - g) % n = 0
        /\ ~Found => u \in -M .. M
    BY <2>2 DEF FoundCofactors
  <2>4. Found <=> <<a.d, obj[call.m].d>> \notin Borrowing \cup Losing
    OBVIOUS
  <2> HIDE DEF n, v, M, Found
  <2>5. u \in Int /\ u \in -M .. M
    BY <1>4, <2>1, <2>3 DEF n
  <2>6. g \in Int
    BY <2>1, GCDIs
  <2> HIDE DEF g
  <2> DEFINE c == IF u < 0 THEN -u ELSE u   f == SetLimbs(c)
  <2>7. c \in 0 .. M /\ c \in Int /\ (u < 0 => c = -u) /\ (~(u < 0) => c = u)
    BY <2>1, <2>5
  <2>8. obj' = IF u < 0 THEN Negated(f) ELSE f
    BY <2>2
  <2> HIDE DEF c
  <2>9. /\ Sound(f) /\ (c < M => f[call.r].d = c)
        /\ call.m # call.r => f[call.m] = obj[call.m]
    BY <1>2, <1>3, <2>7, SetLimbsIs
  <2> HIDE DEF f
  <2>10. Sound(Negated(f)) /\ Negated(f)[call.r].d = (f[call.m].d - f[call.r].d) % M
    BY <1>2, <1>3, <2>9, NegatedIs
  <2>11. ASSUME call.r # call.m, Found PROVE ResultIsRight
    <3> DEFINE t == obj'[call.r].d   x == t * v   y == u * v
    <3>1. u \in 1 - n .. n - 1 /\ (u * v - g) % n = 0
      BY <2>3, <2>11
    <3>2. c \in 0 .. n - 1 /\ f[call.r].d = c /\ f[call.m].d = n
      <4>1. c \in 0 .. n - 1 /\ n < M
        BY <1>4, <2>1, <2>7, <3>1 DEF n
      <4>2. c < M
        BY <2>1, <4>1
      <4> QED
        BY <2>9, <2>11, <4>1, <4>2 DEF n
    <3>3. t \in Int /\ t < n /\ Congruent(t, u, n)
      <4>1. CASE u < 0
        <5> DEFINE z == n - c
        <5>1. z \in Int /\ z \in Numbers /\ z < n /\ z = u + n * 1
          <6>1. z = u + n /\ n < M
            BY <1>4, <2>1, <2>7, <3>1, <4>1 DEF n
          <6> QED
            BY <2>1, <2>5, <3>1, <4>1, <6>1 DEF Numbers
        <5>2. t = z % M
          BY <2>8, <2>10, <3>2, <4>1
        <5> HIDE DEF z, t
        <5>3. t = z
          BY <5>1, <5>2, Wrapped
        <5> QED
          BY <5>1, <5>3 DEF Congruent
      <4>2. CASE ~(u < 0)
        <5>1. t = c /\ c = u
          BY <2>7, <2>8, <3>2, <4>2
        <5> HIDE DEF t
        <5>2. Congruent(u, u, n)
          BY <2>1, <2>5, Same
        <5> QED
          BY <2>1, <2>5, <3>2, <5>1, <5>2
      <4> QED
        BY <4>1, <4>2
    <3> HIDE DEF t
    <3>4. x \in Int /\ y \in Int /\ Congruent(x, y, n)
      <4>1. n \in Int /\ v \in Int /\ u \in Int
        BY <2>1, <2>5
      <4>2. Congruent(t * v, u * v, n)
        BY <3>3, <4>1, Multiple
      <4> QED
        BY <3>3, <4>1, <4>2
    <3>5. (y - g) % n = 0
      BY <3>1
    <3> HIDE DEF x, y
    <3>6. Congruent(y, g, n)
      BY <2>1, <2>6, <3>4, <3>5, ZeroRemainder
    <3>7. Congruent(x, g, n)
      BY <2>1, <2>6, <3>4, <3>6, Chain
    <3>8. (x - g) % n = 0
      BY <2>1, <2>6, <3>4, <3>7, ZeroRemainder
    <3> QED
      BY <1>1, <3>3, <3>8 DEF ResultIsRight, Bounded, Right, t, x, v, n, g
  <2> QED
    BY <1>1, <2>4, <2>8, <2>9, <2>10, <2>11
<1> QED
  BY <1>5, <1>6

------------------------------------------------------------------------------
(* Division and the greatest common divisor.                               *)

(* A result that is left out, or stored.                                   *)
LEMMA StoreIs ==
  ASSUME NEW f, Sound(f), NEW v \in Numbers, NEW x \in Objects \cup {NULL}
  PROVE  /\ Sound(Store(f, x, Obj(v)))
         /\ x # NULL => Store(f, x, Obj(v))[x].d = v
         /\ \A l \in Objects : l # x => Store(f, x, Obj(v))[l] = f[l]
<1> DEFINE o == Obj(v)   g == [f EXCEPT ![x] = o]
<1>1. o.d = v /\ o \in [d : Numbers, n : 0 .. 4] /\ Proper(o)
  BY ObjProper
<1> HIDE DEF o
<1>2. Sound(g) /\ (x \in Objects => g[x] = o) /\ \A l \in Objects : l # x => g[l] = f[l]
  BY <1>1, Stored
<1> HIDE DEF g
<1>3. CASE x = NULL
  BY <1>3 DEF Store
<1>4. CASE x # NULL
  <2>1. Store(f, x, Obj(v)) = g /\ x \in Objects
    BY <1>4 DEF Store, g, o
  <2> QED
    BY <1>1, <1>2, <1>4, <2>1
<1> QED
  BY <1>3, <1>4

(* fp256_div stores the quotient and the remainder of the dividend, which  *)
(* either of them may replace.                                             *)
LEMMA DivIsRight ==
  ASSUME Garbage = {}, IInv, Div
  PROVE  /\ Sound(obj') /\ call' = NoCall
         /\ call.q # NULL /\ call.rem \notin {NULL, call.q} =>
              /\ obj'[call.q].d * obj[call.m].d + obj'[call.rem].d = a.d
              /\ obj'[call.rem].d < obj[call.m].d
<1>1. call.f = "div" /\ call' = NoCall
  BY DEF Div
<1>2. call.f \in WithDivisor /\ call.q \in Objects \cup {NULL} /\ call.rem \in Objects \cup {NULL}
  BY <1>1 DEF IInv, TypeOK, WithDivisor
<1> DEFINE n == obj[call.m].d   v == a.d   s == v % n   q == v \div n
<1>3. /\ Sound(obj) /\ call.m \in Objects /\ call.a \in Objects /\ n \in Nat \ {0}
      /\ Seen(obj[call.m]) = n
      /\ \A z \in Int : Rem(z) = Obj(z % n)
  BY <1>2, RemIs
<1>4. v \in Nat /\ v < M /\ Seen(a) = v
  BY <1>3, ObjectIs DEF a
<1> DEFINE f == Store(obj, call.rem, Obj(s))   h == Store(f, call.q, Obj(q))
<1>5. obj' = h
  <2>1. Rem(Seen(a)) = Obj(s) /\ Quo(a, obj[call.m]) = Obj(q)
    BY <1>3, <1>4 DEF Quo
  <2> QED
    BY <2>1 DEF Div
<1> HIDE DEF n, v
<1>6. q \in Int /\ s \in 0 .. n - 1 /\ v = n * q + s
  <2>1. v \in Int /\ n \in Nat \ {0}
    BY <1>3, <1>4
  <2> QED
    BY <2>1, DivMod
<1>7. q \in 0 .. v
  BY <1>3, <1>4, QuotientBelow
<1>8. q \in Numbers /\ s \in Numbers /\ s \in Int
  <2>1. M \in Nat /\ n < M
    <3>1. M \in Nat /\ obj[call.m].d < M
      BY <1>3, ObjectIs, Modulus
    <3> QED
      BY <3>1 DEF n
  <2> HIDE DEF q, s
  <2> QED
    BY <1>3, <1>4, <1>6, <1>7, <2>1 DEF Numbers
<1> HIDE DEF q, s
<1>9. /\ Sound(f)
      /\ call.rem # NULL => f[call.rem].d = s
  BY <1>2, <1>3, <1>8, StoreIs
<1> HIDE DEF f
<1>10. /\ Sound(h) /\ (call.q # NULL => h[call.q].d = q)
       /\ \A l \in Objects : l # call.q => h[l] = f[l]
  BY <1>2, <1>8, <1>9, StoreIs
<1> HIDE DEF h
<1>11. q * n + s = v /\ s < n
  BY <1>3, <1>4, <1>6, <1>8
<1>12. ASSUME call.q # NULL, call.rem \notin {NULL, call.q}
       PROVE  obj'[call.q].d = q /\ obj'[call.rem].d = s
  BY <1>2, <1>5, <1>9, <1>10, <1>12
<1> QED
  BY <1>1, <1>5, <1>10, <1>11, <1>12 DEF n, v

(* The number zero has no limbs.                                           *)
LEMMA ZeroIs == Obj(0) = Zero /\ 0 \in Numbers
<1> DEFINE z == 0
<1>1. z \in Numbers /\ z = 0
  BY Modulus DEF Numbers
<1> HIDE DEF z
<1>2. LimbCount(z) = 0
  BY <1>1, Counts
<1> QED
  BY <1>1, <1>2 DEF Obj, Zero

(* fp256_gcd stores a number or none, fp256_is_coprime never one.          *)
LEMMA GcdKeeps ==
  ASSUME Garbage = {}, IInv, Gcd \/ IsCoprime
  PROVE  Sound(obj') /\ call' = NoCall
<1>1. Sound(obj)
  BY ProperObjects
<1>2. CASE Gcd
  <2>1. PICK g \in CommonDivisors : obj' = SetLimbs(g) /\ call.f = "gcd" /\ call' = NoCall
    BY <1>2 DEF Gcd, Doing
  <2>2. call.r \in Objects /\ call.a \in Objects /\ call.b \in Objects /\ call.a \in Recognised
    BY <2>1 DEF IInv, TypeOK, CallFits, WithTwo
  <2> DEFINE x == a.d   y == b.d
  <2>3. /\ x \in Nat /\ x < M /\ y \in Nat /\ M \in Nat /\ Seen(a) = x /\ Seen(b) = y
        /\ ~IsZero(a) => x \in Nat \ {0}
    BY <1>1, <2>2, ObjectIs, Modulus DEF a, b, Recognised
  <2>4. IF IsZero(a) \/ IsZero(b) THEN g = 0 ELSE g \in 0 .. M \/ g = GCD(x, y)
    BY <2>1, <2>3 DEF CommonDivisors, FoundDivisors
  <2> HIDE DEF x, y, M
  <2>5. g \in 0 .. M
    <3>1. CASE IsZero(a) \/ IsZero(b)
      BY <2>3, <2>4, <3>1
    <3>2. CASE ~(IsZero(a) \/ IsZero(b))
      <4>1. GCD(x, y) \in 1 .. x
        BY <2>3, <3>2, GCDIs
      <4> QED
        BY <2>3, <2>4, <3>2, <4>1
    <3> QED
      BY <3>1, <3>2
  <2> QED
    BY <1>1, <2>1, <2>2, <2>5, SetLimbsIs
<1>3. CASE IsCoprime
  BY <1>1, <1>3 DEF IsCoprime
<1> QED
  BY <1>2, <1>3

------------------------------------------------------------------------------
(* A step other than Call returns from a function.                         *)
LEMMA ReturnKeeps ==
  ASSUME Garbage = {}, IInv, Next, ~Call
  PROVE  Sound(obj') /\ call' = NoCall
<1>1. (SetZero \/ Cleanse \/ SetOne \/ SetLimb \/ Copy \/ FromBytes \/ FromHex
         \/ SetBit \/ ClearSetBit)
        => Sound(obj') /\ call' = NoCall
  BY SettersKeep
<1>2. Add \/ Sub \/ AddLimb \/ SubLimb \/ MulLo \/ MulHi \/ LShift \/ RShift
        => Sound(obj') /\ call' = NoCall
  BY RingKeeps
<1>3. Mul => Sound(obj') /\ call' = NoCall
  BY MulKeeps
<1>4. Div => Sound(obj') /\ call' = NoCall
  BY DivIsRight
<1>5. Mod \/ ModAdd \/ ModMul \/ ModSqr => Sound(obj') /\ call' = NoCall
  BY ReductionsAreRight
<1>6. ModNeg => Sound(obj') /\ call' = NoCall
  BY ModNegIsRight
<1>7. ModSub => Sound(obj') /\ call' = NoCall
  BY ModSubIsRight
<1>8. ModExp => Sound(obj') /\ call' = NoCall
  BY ModExpIsRight
<1>9. ModInv => Sound(obj') /\ call' = NoCall
  BY ModInvIsRight
<1>10. Gcd \/ IsCoprime => Sound(obj') /\ call' = NoCall
  BY GcdKeeps
<1> QED
  BY <1>1, <1>2, <1>3, <1>4, <1>5, <1>6, <1>7, <1>8, <1>9, <1>10 DEF Next

(* The invariant is inductive.  It needs no more than the property and     *)
(* what the client takes care of when it calls: every function leaves its  *)
(* results in normal form, whatever the roles of its arguments, because it *)
(* reads operands that are.                                                *)
LEMMA InductiveInvariant ==
  ASSUME Garbage = {}
  PROVE  Spec => []IInv
<1>1. Init => IInv
  BY InitIInv
<1>2. IInv /\ [Next]_vars => IInv'
  <2> SUFFICES ASSUME IInv, [Next]_vars PROVE IInv'
    OBVIOUS
  <2>1. CASE Call
    BY <2>1, CallIInv
  <2>2. CASE Next /\ ~Call
    BY <2>2, ReturnKeeps, ReturnIInv
  <2>3. CASE UNCHANGED vars
    BY <2>3 DEF vars, IInv, TypeOK, NormalForm, CallFits, Divisors, Recognised
  <2> QED
    BY <2>1, <2>2, <2>3
<1> QED
  BY <1>1, <1>2, PTL DEF Spec

(* No sequence of calls leaves an object whose nlimbs is not that of its   *)
(* number, if the client converts only text that is a number: so           *)
(* fp256_is_zero, fp256_cmp and ll_div may rely on it.  The one exception, *)
(* by the definition of NormalForm, is LimbZero, the zero of one limb that *)
(* fp256_set_limb makes.                                                   *)
THEOREM NormalForms ==
  ASSUME Garbage = {}
  PROVE  Spec => []NormalForm
<1>1. Spec => []IInv
  BY InductiveInvariant
<1>2. IInv => NormalForm
  BY DEF IInv
<1> QED
  BY <1>1, <1>2, PTL

(* The functions of fp256_mod.c leave a number below the modulus that is   *)
(* congruent to what their comments promise, for every number of objects,  *)
(* every number, every modulus that is not zero and every way to share     *)
(* objects between the arguments, with the exceptions of ModularResults:   *)
(* the modulus that fp256_mod_neg leaves of its multiples, a result of     *)
(* fp256_mod_neg, fp256_mod_sub or fp256_mod_inv in place of the modulus,  *)
(* an even modulus of fp256_mod_exp, which leaves the result alone, and    *)
(* for fp256_mod_inv a refused zero and the operands, whichever they are,  *)
(* that make ll_lehmer_exgcd drop a borrow or lose a limb.                 *)
THEOREM ModularResultsHold ==
  ASSUME Garbage = {}
  PROVE  Spec => ModularResults
<1> DEFINE A == call.f \in Modular /\ Careful => ResultIsRight
<1>1. Spec => []IInv
  BY InductiveInvariant
<1>2. IInv /\ [Next]_vars => [A]_vars
  <2> SUFFICES ASSUME IInv, Next, call.f \in Modular, Careful PROVE ResultIsRight
    OBVIOUS
  <2>1. Mod \/ ModAdd \/ ModMul \/ ModSqr \/ ModNeg \/ ModSub \/ ModExp \/ ModInv
    BY DEF Next, Modular, Doing, Call, NoCall, SetZero, Cleanse, SetOne, SetLimb, Copy, FromBytes,
           FromHex, SetBit, ClearSetBit, Add, Sub, AddLimb, SubLimb, MulLo, MulHi, Mul, LShift, RShift,
           Div, Gcd, IsCoprime
  <2>2. CASE Mod \/ ModAdd \/ ModMul \/ ModSqr
    BY <2>2, ReductionsAreRight
  <2>3. CASE ModNeg
    <3>1. call.r # call.m
      BY <2>3 DEF ModNeg, Doing, Careful
    <3> QED
      BY <2>3, <3>1, ModNegIsRight
  <2>4. CASE ModSub
    <3>1. call.r # call.m
      BY <2>4 DEF ModSub, Doing, Careful
    <3> QED
      BY <2>4, <3>1, ModSubIsRight
  <2>5. CASE ModExp
    <3>1. IsOdd(obj[call.m])
      BY <2>5 DEF ModExp, Doing, Careful
    <3> QED
      BY <2>5, <3>1, ModExpIsRight
  <2>6. CASE ModInv
    <3>1. call.r # call.m /\ ~IsZero(a) /\ ~IsZero(obj[call.m])
          /\ <<a.d, obj[call.m].d>> \notin Borrowing \cup Losing
      BY <2>6 DEF ModInv, Careful
    <3> QED
      BY <2>6, <3>1, ModInvIsRight
  <2> QED
    BY <2>1, <2>2, <2>3, <2>4, <2>5, <2>6
<1>3. Spec => [][A]_vars
  BY <1>1, <1>2, PTL DEF Spec
<1>4. ModularResults <=> [][A]_vars
  BY DEF ModularResults, ResultIsRight
<1> QED
  BY <1>3, <1>4

(* The two results of fp256_mul make up the product and those of fp256_div *)
(* the dividend, also when they replace the operands.                      *)
THEOREM PairedResultsHold ==
  ASSUME Garbage = {}
  PROVE  Spec => PairedResults
<1> DEFINE A == /\ call.f = "mul" /\ call.r # call.hi =>
                     obj'[call.hi].d * M + obj'[call.r].d = a.d * b.d
                /\ call.f = "div" /\ call.q # NULL /\ call.rem \notin {NULL, call.q} =>
                     /\ obj'[call.q].d * obj[call.m].d + obj'[call.rem].d = a.d
                     /\ obj'[call.rem].d < obj[call.m].d
<1>1. Spec => []IInv
  BY InductiveInvariant
<1>2. IInv /\ [Next]_vars => [A]_vars
  <2> SUFFICES ASSUME IInv, Next PROVE A
    OBVIOUS
  <2>1. call.f \in {"mul", "div"} => Mul \/ Div
    BY DEF Next, Doing, Call, NoCall, SetZero, Cleanse, SetOne, SetLimb, Copy, FromBytes,
           FromHex, SetBit, ClearSetBit, Add, Sub, AddLimb, SubLimb, MulLo, MulHi, LShift, RShift,
           Mod, ModNeg, ModAdd, ModSub, ModMul, ModSqr, ModExp, ModInv, Gcd, IsCoprime
  <2>2. CASE Mul
    <3>1. call.f = "mul"
      BY <2>2 DEF Mul, Doing
    <3> QED
      BY <2>2, <3>1, MulKeeps
  <2>3. CASE Div
    <3>1. call.f = "div"
      BY <2>3 DEF Div
    <3> QED
      BY <2>3, <3>1, DivIsRight
  <2>4. CASE call.f \notin {"mul", "div"}
    BY <2>4
  <2> QED
    BY <2>1, <2>2, <2>3, <2>4
<1>3. Spec => [][A]_vars
  BY <1>1, <1>2, PTL DEF Spec
<1>4. PairedResults <=> [][A]_vars
  BY DEF PairedResults
<1> QED
  BY <1>3, <1>4

------------------------------------------------------------------------------
(* The client of fp256_mont.c.                                             *)

(* MontField computes with the same numbers, objects and routines.         *)
LEMMA SameValues ==
  /\ Field!M = M /\ Field!B = B /\ Field!Numbers = Numbers /\ Field!Zero = Zero
  /\ \A v : Field!Obj(v) = Obj(v)
  /\ \A x : Field!Seen(x) = Seen(x)
  /\ \A x, n : Field!Redc(x, n) = Redc(x, n)
  /\ \A x, e, RR, n : Field!MontPower(x, e, RR, n) = MontPower(x, e, RR, n)
  /\ \A v, e : Field!PowerMod(v, e) = PowerMod(v, e, Field!N)
<1>1. Field!B = B
  BY DEF Field!B, B
<1>2. Field!M = M
  BY <1>1 DEF Field!M, M
<1>3. Field!Numbers = Numbers /\ Field!Zero = Zero
  BY <1>2 DEF Field!Numbers, Numbers, Field!Zero, Zero
<1>4. \A v : Field!LimbCount(v) = LimbCount(v)
  BY <1>1 DEF Field!LimbCount, LimbCount
<1>5. \A v : Field!Obj(v) = Obj(v)
  BY <1>4 DEF Field!Obj, Obj
<1>6. \A x : Field!Seen(x) = Seen(x)
  BY <1>1 DEF Field!Seen, Seen
<1>7. \A x, n : Field!Redc(x, n) = Redc(x, n)
  BY <1>2 DEF Field!Redc, Redc
<1>8. \A x, e, RR, n : Field!MontPower(x, e, RR, n) = MontPower(x, e, RR, n)
  BY ZenonT(30)
     DEF Field!MontPower, MontPower, Field!Redc, Redc, Field!M, M, Field!B, B
<1>9. \A v, e : Field!PowerMod(v, e) = PowerMod(v, e, Field!N)
  BY DEF Field!PowerMod, PowerMod
<1> QED
  BY <1>1, <1>2, <1>3, <1>5, <1>6, <1>7, <1>8, <1>9

(* 2^512 is the square of 2^256.                                           *)
LEMMA SquareOfR == B^8 = M * M /\ M * M \in Int
<1> DEFINE c == M   p(k) == B^k
<1>1. /\ \A k \in 0 .. 7 : p(k + 1) = B * p(k)
      /\ p(0) = 1 /\ c = p(4) /\ B \in Int /\ c \in Int
  BY BasePowers, Modulus DEF M
<1> HIDE DEF c, p, B
<1>2. p(5) = B * c
  BY <1>1
<1>3. p(6) = B * (B * c)
  BY <1>1, <1>2
<1>4. p(7) = B * (B * (B * c))
  BY <1>1, <1>3
<1>5. p(8) = B * (B * (B * (B * c)))
  BY <1>1, <1>4
<1>6. p(1) = B
  BY <1>1
<1>7. p(2) = B * B
  BY <1>1, <1>6
<1>8. p(3) = B * (B * B)
  BY <1>1, <1>7
<1>9. c = B * (B * (B * B))
  BY <1>1, <1>8
<1>10. B * (B * (B * (B * c))) = (B * (B * (B * B))) * c
  BY <1>1
<1> QED
  BY <1>1, <1>5, <1>9, <1>10 DEF c, p

(* The form of a number is the form of its remainder.                      *)
LEMMA FormOfRemainder ==
  ASSUME NEW n \in Nat, n % 2 = 1, NEW v \in Int
  PROVE  v % n \in 0 .. n - 1 /\ InForm(v % n, n) = InForm(v, n)
<1>1. n \in Nat \ {0} /\ n \in Int
  BY Modulus
<1> DEFINE RR == M * M   s == v % n
<1>2. RR \in Int
  BY SquareOfR
<1>3. Congruent(RR, M * M, n)
  <2> DEFINE z == M * M
  <2>1. z \in Int /\ RR = z
    BY SquareOfR
  <2> HIDE DEF z, RR
  <2>2. Congruent(z, z, n)
    BY <1>1, <2>1, Same
  <2> QED
    BY <2>1, <2>2 DEF z
<1>4. s \in 0 .. n - 1 /\ Congruent(v, s, n) /\ Congruent(v, v, n)
  BY <1>1, Remainder, Same
<1> HIDE DEF RR, s
<1>5. s \in Int
  BY <1>4
<1>6. Redc(v * RR, n) = InForm(s, n) /\ Redc(v * RR, n) = InForm(v, n)
  BY <1>2, <1>3, <1>4, <1>5, ToForm
<1> QED
  BY <1>4, <1>6 DEF s

(* What the invariant says of the context and of the objects.              *)
LEMMA FieldIs ==
  ASSUME Words \subseteq Nat, Moduli \subseteq Numbers, Field!IInv, Field!Ready
  PROVE  /\ Field!N \in Nat /\ Field!N % 2 = 1 /\ Field!N < M
         /\ mctx.RR \in Int /\ (Field!Matched => Congruent(mctx.RR, M * M, Field!N))
         /\ \A x \in Objects : /\ num[x] \in Nat /\ num[x] \in Numbers
                               /\ obj[x].d \in Nat /\ Seen(obj[x]) = obj[x].d
         /\ \A x \in Objects \ mont : Field!Matched => obj[x].d = num[x]
         /\ \A x \in mont : /\ x \in Objects /\ num[x] \in 0 .. Field!N - 1
                            /\ Field!Matched => obj[x].d = InForm(num[x], Field!N)
<1> DEFINE n == Field!N   mm == M * M   p == B^(2 * mctx.w)
<1>1. n \in Numbers /\ n % 2 = 1 /\ mctx.RR = p % n /\ mctx.w \in Words \cap 1 .. 4
  BY SameValues DEF Field!IInv, Field!ContextFits, Field!Ready, Field!B, B
<1>2. p \in Int /\ mm \in Int /\ (Field!Matched => p = mm)
  <2>1. 2 * mctx.w \in {2, 4, 6, 8} /\ (Field!Matched => 2 * mctx.w = 8)
    BY <1>1 DEF Field!Matched
  <2>2. \A l \in {2, 4, 6} : B^l \in Int
    BY BasePowers
  <2>3. B^8 = mm /\ mm \in Int
    BY SquareOfR
  <2> HIDE DEF mm
  <2> QED
    BY <2>1, <2>2, <2>3
<1>3. n \in Nat /\ n < M /\ M \in Nat /\ n \in Nat \ {0}
  <2>1. M \in Nat
    BY Modulus
  <2> HIDE DEF n, M, p
  <2> QED
    BY <1>1, <2>1 DEF Numbers
<1>4. mctx.RR \in Int /\ (Field!Matched => Congruent(mctx.RR, mm, n))
  <2> HIDE DEF mm, n, p
  <2>1. p % n \in 0 .. n - 1 /\ Congruent(p % n, p, n)
    BY <1>2, <1>3, Remainder
  <2> QED
    BY <1>1, <1>2, <1>3, <2>1
<1>5. /\ obj \in [Objects -> [d : Numbers, n : 0 .. 4]]
      /\ num \in [Objects -> Numbers] /\ mont \subseteq Objects
      /\ \A x \in mont : num[x] < n
      /\ \A x \in Objects :
           /\ Field!Matched => obj[x] = Obj(IF x \in mont THEN InForm(num[x], n) ELSE num[x])
           /\ ~Field!Matched => obj[x] = Obj(obj[x].d)
  BY SameValues DEF Field!IInv, Field!TypeOK, Field!Represents, InForm
<1> HIDE DEF n, mm, p
<1>6. \A x \in Objects : num[x] \in Nat /\ num[x] \in Numbers /\ obj[x].d \in Nat /\ obj[x].d \in Numbers
  BY <1>3, <1>5 DEF Numbers
<1>7. ASSUME NEW x \in Objects PROVE obj[x] = Obj(obj[x].d) /\ Seen(obj[x]) = obj[x].d
  <2>1. obj[x] = Obj(obj[x].d)
    BY <1>5 DEF Obj
  <2> DEFINE o == Obj(obj[x].d)
  <2>2. Proper(o) /\ o = obj[x]
    BY <1>6, <2>1, ObjProper
  <2> HIDE DEF o
  <2>3. Seen(o) = o.d
    BY <2>2, SeenIs
  <2> QED
    BY <2>1, <2>2, <2>3
<1>8. ASSUME NEW x \in Objects \ mont, Field!Matched PROVE obj[x].d = num[x]
  BY <1>5, <1>8 DEF Obj
<1>9. ASSUME NEW x \in mont
      PROVE  /\ x \in Objects /\ num[x] \in 0 .. n - 1
             /\ Field!Matched => obj[x].d = InForm(num[x], n)
  <2>1. x \in Objects /\ num[x] \in Nat /\ num[x] < n
    BY <1>5, <1>6
  <2>2. Field!Matched => obj[x].d = InForm(num[x], n)
    BY <1>5, <2>1 DEF Obj
  <2> QED
    BY <1>3, <2>1, <2>2
<1> QED
  BY <1>1, <1>3, <1>4, <1>6, <1>7, <1>8, <1>9 DEF n, mm

(* A result that stands for the number that the client has in mind, or, in *)
(* a context that does not fit, a result that is reduced if it should be.  *)
LEMMA PutKeeps ==
  ASSUME Words \subseteq Nat, Moduli \subseteq Numbers, Field!IInv, Field!Ready,
         NEW r \in Objects, NEW value \in Numbers, NEW meaning \in Numbers,
         Field!Put(r, value, meaning),
         \/ Field!Plain(r) /\ (Field!Matched => value = meaning)
         \/ /\ Field!InMont(r) /\ meaning < Field!N /\ value < Field!N
            /\ Field!Matched => value = InForm(meaning, Field!N)
  PROVE  Field!IInv'
<1> DEFINE n == Field!N   fits == Field!Matched
           kept == IF fits THEN meaning ELSE 0
<1>1. /\ obj' = [obj EXCEPT ![r] = Obj(value)] /\ num' = [num EXCEPT ![r] = kept]
      /\ mctx' = mctx /\ n' = n /\ (Field!Matched' <=> fits)
  BY SameValues DEF Field!Put, Field!N, Field!Matched
<1>2. /\ obj \in [Objects -> [d : Numbers, n : 0 .. 4]] /\ num \in [Objects -> Numbers]
      /\ mont \subseteq Objects
      /\ \A x \in mont : num[x] < n
      /\ fits => \A x \in Objects : obj[x] = Obj(IF x \in mont THEN InForm(num[x], n) ELSE num[x])
      /\ ~fits => \A x \in Objects : obj[x] = Obj(obj[x].d) /\ (x \in mont => obj[x].d < n)
  BY SameValues DEF Field!IInv, Field!TypeOK, Field!Represents, InForm
<1>3. \/ mont' = mont \ {r} /\ (fits => value = kept)
      \/ mont' = mont \cup {r} /\ kept < n /\ value < n /\ (fits => value = InForm(kept, n))
  <2>1. n \in Nat /\ n % 2 = 1
    BY FieldIs
  <2> HIDE DEF n, fits
  <2>2. 0 < n
    BY <2>1
  <2> QED
    BY <2>2 DEF Field!Plain, Field!InMont, n, fits
<1>4. Obj(value) \in [d : Numbers, n : 0 .. 4] /\ Obj(value).d = value /\ kept \in Numbers
  BY ObjProper, ZeroIs
<1>5. Field!ContextFits'
  BY <1>1 DEF Field!IInv, Field!ContextFits, Field!Ready, Field!N
<1> HIDE DEF kept
<1>6. /\ obj' \in [Objects -> [d : Numbers, n : 0 .. 4]] /\ num' \in [Objects -> Numbers]
      /\ mont' \subseteq Objects
      /\ \A x \in mont' : num'[x] < n
  <2> HIDE DEF n
  <2> QED
    BY <1>1, <1>2, <1>3, <1>4
<1>7. obj'[r] = Obj(value) /\ num'[r] = kept
  BY <1>1, <1>2
<1>8. ASSUME NEW x \in Objects, x # r
      PROVE  obj'[x] = obj[x] /\ num'[x] = num[x] /\ (x \in mont' <=> x \in mont)
  BY <1>1, <1>2, <1>3, <1>8
<1>9. fits => \A x \in Objects : obj'[x] = Obj(IF x \in mont' THEN InForm(num'[x], n) ELSE num'[x])
  <2> HIDE DEF n, fits
  <2> QED
    BY <1>2, <1>3, <1>7, <1>8
<1>10. ~fits => \A x \in Objects : obj'[x] = Obj(obj'[x].d) /\ (x \in mont' => obj'[x].d < n)
  <2> HIDE DEF n, fits
  <2> QED
    BY <1>2, <1>3, <1>4, <1>7, <1>8
<1>11. Field!TypeOK'
  BY <1>1, <1>6, SameValues DEF Field!TypeOK, Field!Numbers, Field!M, Field!B, Numbers, M, B
<1>12. Field!Represents'
  BY <1>1, <1>9, <1>10, SameValues DEF Field!Represents, InForm
<1> QED
  BY <1>5, <1>11, <1>12 DEF Field!IInv

(* All objects are zero, and none of them is in Montgomery form.           *)
LEMMA Cleared ==
  ASSUME obj' = [x \in Objects |-> Field!Zero], mont' = {}, num' = [x \in Objects |-> 0],
         Field!ContextFits'
  PROVE  Field!IInv'
<1>1. Field!Zero = Zero /\ Field!Numbers = Numbers /\ 0 \in Numbers /\ Field!Obj(0) = Zero
      /\ Zero \in [d : Numbers, n : 0 .. 4] /\ Zero.d = 0
  BY SameValues, ZeroIs, Literals DEF Zero
<1>2. obj' \in [Objects -> [d : Field!Numbers, n : 0 .. 4]] /\ num' \in [Objects -> Field!Numbers]
  BY <1>1
<1>3. \A x \in Objects : obj'[x] = Field!Obj(num'[x]) /\ obj'[x] = Field!Obj(obj'[x].d)
  BY <1>1
<1>4. Field!TypeOK'
  BY <1>2 DEF Field!TypeOK
<1>5. Field!Represents'
  BY <1>3 DEF Field!Represents
<1> QED
  BY <1>4, <1>5 DEF Field!IInv

(* A number in Montgomery form is one of some modulus.                     *)
LEMMA InUse ==
  ASSUME Field!IInv, NEW x \in mont
  PROVE  Field!Ready
<1>1. mctx.w \in 1 .. 4
  BY DEF Field!IInv, Field!ContextFits
<1>2. Field!NoContext.w = 0
  BY DEF Field!NoContext
<1> QED
  BY <1>1, <1>2 DEF Field!Ready

(* A number below the modulus in Montgomery form.                          *)
LEMMA FormFits ==
  ASSUME NEW n \in Nat, n % 2 = 1, n < M, NEW v \in Int
  PROVE  InForm(v, n) \in Numbers /\ \A k \in 0 .. n - 1 : k \in Numbers
<1>1. M \in Nat /\ n \in Nat \ {0}
  BY Modulus
<1> DEFINE z == v * M
<1>2. InForm(v, n) = z % n
  BY DEF InForm
<1> HIDE DEF M
<1>3. z \in Int
  BY <1>1
<1> HIDE DEF z
<1>4. z % n \in 0 .. n - 1
  BY <1>1, <1>3, Remainder
<1> QED
  BY <1>1, <1>2, <1>4 DEF Numbers

(* A result in Montgomery form, which is reduced whatever the context.     *)
LEMMA PutInForm ==
  ASSUME Words \subseteq Nat, Moduli \subseteq Numbers, Field!IInv, Field!Ready,
         NEW r \in Objects, NEW value, NEW meaning,
         value \in 0 .. Field!N - 1, meaning \in 0 .. Field!N - 1,
         Field!Matched => value = InForm(meaning, Field!N),
         Field!Put(r, value, meaning), Field!InMont(r)
  PROVE  Field!IInv'
<1> DEFINE n == Field!N
<1>1. n \in Nat /\ n % 2 = 1 /\ n < M
  BY FieldIs
<1>2. value \in 0 .. n - 1 /\ meaning \in 0 .. n - 1
  OBVIOUS
<1> HIDE DEF n
<1>3. value \in Numbers /\ meaning \in Numbers /\ value < n /\ meaning < n
  BY <1>1, <1>2, FormFits
<1> QED
  BY <1>3, PutKeeps DEF n

(* Into Montgomery form and back.                                          *)
LEMMA ConversionsKeep ==
  ASSUME Words \subseteq Nat, Moduli \subseteq Numbers, Field!IInv, Field!ToMont \/ Field!FromMont
  PROVE  Field!IInv'
<1> DEFINE n == Field!N   fits == Field!Matched
<1>1. CASE Field!ToMont
  <2>1. PICK r \in Objects, x \in Objects \ mont :
          /\ Field!Put(r, Redc(obj[x].d * mctx.RR, n), num[x] % n) /\ Field!InMont(r)
          /\ Field!Ready
    BY <1>1, SameValues DEF Field!ToMont
  <2> DEFINE v == num[x]   s == v % n   RR == mctx.RR   d == obj[x].d   z == Redc(d * RR, n)
  <2>2. /\ n \in Nat /\ n % 2 = 1 /\ n < M /\ RR \in Int /\ v \in Int /\ d \in Int
        /\ fits => Congruent(RR, M * M, n) /\ d = v
    BY <2>1, FieldIs
  <2>3. Field!Put(r, z, s) /\ Field!InMont(r) /\ Field!Ready
    BY <2>1
  <2> HIDE DEF v, n, RR, d, fits
  <2>4. s \in 0 .. n - 1 /\ InForm(s, n) = InForm(v, n)
    BY <2>2, FormOfRemainder
  <2>5. z \in 0 .. n - 1
    <3> DEFINE y == d * RR
    <3>1. y \in Int
      BY <2>2
    <3> HIDE DEF y
    <3>2. Redc(y, n) \in 0 .. n - 1
      BY <2>2, <3>1, RedcIs
    <3> QED
      BY <3>2 DEF y
  <2>6. fits => z = InForm(s, n)
    <3> SUFFICES ASSUME fits PROVE z = InForm(s, n)
      OBVIOUS
    <3>1. Congruent(v, v, n) /\ n \in Int
      BY <2>2, Same
    <3>2. Redc(v * RR, n) = InForm(v, n)
      BY <2>2, <3>1, ToForm
    <3> QED
      BY <2>2, <2>4, <3>2
  <2> HIDE DEF s, z
  <2> QED
    BY <2>1, <2>3, <2>4, <2>5, <2>6, PutInForm DEF n, fits
<1>2. CASE Field!FromMont
  <2>1. PICK r \in Objects, x \in mont :
          Field!Put(r, Redc(obj[x].d, n), num[x]) /\ Field!Plain(r)
    BY <1>2, SameValues DEF Field!FromMont
  <2>2. Field!Ready
    BY <2>1, InUse
  <2> DEFINE v == num[x]   d == obj[x].d   z == Redc(d, n)
  <2>3. /\ n \in Nat /\ n % 2 = 1 /\ n < M /\ v \in 0 .. n - 1 /\ v \in Numbers /\ d \in Int
        /\ fits => d = InForm(v, n)
    BY <2>1, <2>2, FieldIs
  <2>4. Field!Put(r, z, v)
    BY <2>1
  <2> HIDE DEF v, n, d, fits
  <2>5. z \in Numbers
    <3>1. z \in 0 .. n - 1
      BY <2>3, RedcIs
    <3> QED
      BY <2>3, <3>1, FormFits
  <2>6. fits => z = v
    BY <2>3, FromForm
  <2> HIDE DEF z
  <2> QED
    BY <2>1, <2>2, <2>3, <2>4, <2>5, <2>6, PutKeeps DEF fits
<1> QED
  BY <1>1, <1>2

(* Products and squares in Montgomery form.                                *)
LEMMA ProductsKeep ==
  ASSUME Words \subseteq Nat, Moduli \subseteq Numbers, Field!IInv, Field!Mul \/ Field!Sqr
  PROVE  Field!IInv'
<1> DEFINE n == Field!N   fits == Field!Matched
<1>1. PICK r \in Objects, x \in mont, y \in mont :
        Field!Put(r, Redc(obj[x].d * obj[y].d, n), (num[x] * num[y]) % n) /\ Field!InMont(r)
  BY SameValues DEF Field!Mul, Field!Sqr
<1>2. Field!Ready
  BY <1>1, InUse
<1> DEFINE v == num[x]   z == num[y]   t == v * z   s == t % n
           c == obj[x].d   d == obj[y].d   w == Redc(c * d, n)
<1>3. /\ n \in Nat /\ n % 2 = 1 /\ n < M /\ v \in Int /\ z \in Int /\ c \in Int /\ d \in Int
      /\ fits => c = InForm(v, n) /\ d = InForm(z, n)
  BY <1>1, <1>2, FieldIs
<1>4. Field!Put(r, w, s)
  BY <1>1
<1> HIDE DEF v, z, n, c, d, fits
<1>5. ASSUME NEW k \in Int PROVE InForm(k, n) \in Int /\ Congruent(InForm(k, n), k * M, n)
  <2> DEFINE RR == M * M
  <2>1. RR \in Int /\ Congruent(k, k, n) /\ n \in Int
    BY <1>3, <1>5, SquareOfR, Same
  <2>2. Congruent(RR, M * M, n)
    <3> DEFINE mm == M * M
    <3>1. mm \in Int /\ RR = mm
      BY SquareOfR
    <3> HIDE DEF mm, RR
    <3>2. Congruent(mm, mm, n)
      BY <2>1, <3>1, Same
    <3> QED
      BY <3>1, <3>2 DEF mm
  <2> HIDE DEF RR
  <2>3. InForm(k, n) \in 0 .. n - 1 /\ Congruent(InForm(k, n), k * M, n)
    BY <1>3, <1>5, <2>1, <2>2, ToForm
  <2> QED
    BY <1>3, <2>3
<1>6. Redc(InForm(v, n) * InForm(z, n), n) = InForm(t, n)
  <2> DEFINE p == InForm(v, n)   q == InForm(z, n)
  <2>1. p \in Int /\ q \in Int /\ Congruent(p, v * M, n) /\ Congruent(q, z * M, n)
    BY <1>3, <1>5
  <2> HIDE DEF p, q
  <2>2. Redc(p * q, n) = InForm(v * z, n)
    BY <1>3, <2>1, ProductInForm
  <2> QED
    BY <2>2 DEF p, q
<1>7. w \in 0 .. n - 1
  <2> DEFINE u == c * d
  <2>1. u \in Int
    BY <1>3
  <2> HIDE DEF u
  <2>2. Redc(u, n) \in 0 .. n - 1
    BY <1>3, <2>1, RedcIs
  <2> QED
    BY <2>2 DEF u
<1>8. t \in Int
  BY <1>3
<1>9. fits => w = InForm(t, n)
  BY <1>3, <1>6
<1> HIDE DEF t, w
<1>10. s \in 0 .. n - 1 /\ InForm(s, n) = InForm(t, n)
  BY <1>3, <1>8, FormOfRemainder
<1> HIDE DEF s
<1>11. fits => w = InForm(s, n)
  BY <1>9, <1>10
<1> QED
  BY <1>1, <1>2, <1>4, <1>7, <1>10, <1>11, PutInForm DEF n, fits

(* Powers in Montgomery form.                                              *)
LEMMA PowersKeep ==
  ASSUME Words \subseteq Nat, Moduli \subseteq Numbers, Field!IInv, Field!Exp
  PROVE  Field!IInv'
<1> DEFINE n == Field!N   fits == Field!Matched
<1>1. PICK r \in Objects, x \in mont, e \in Objects \ mont :
        /\ Field!Put(r, MontPower(obj[x].d, Seen(obj[e]), mctx.RR, n), PowerMod(num[x], num[e], n))
        /\ Field!InMont(r)
  BY SameValues DEF Field!Exp
<1>2. Field!Ready
  BY <1>1, InUse
<1> DEFINE v == num[x]   k == num[e]   p == PowerMod(v, k, n)   RR == mctx.RR
           d == obj[x].d   l == Seen(obj[e])   w == MontPower(d, l, RR, n)
<1>3. /\ n \in Nat /\ n % 2 = 1 /\ n < M /\ RR \in Int
      /\ v \in Int /\ k \in Nat /\ d \in Int /\ l \in Nat
      /\ fits => Congruent(RR, M * M, n) /\ d = InForm(v, n) /\ l = k
  BY <1>1, <1>2, FieldIs
<1>4. Field!Put(r, w, p)
  BY <1>1
<1> HIDE DEF v, k, n, RR, d, l, fits
<1>5. w \in 0 .. n - 1
  BY <1>3, MontPowerBelow
<1>6. p \in 0 .. n - 1
  <2>1. n \in Nat \ {0}
    BY <1>3
  <2>2. PICK q \in [0 .. k -> 0 .. n - 1] :
          /\ PowerMod(v, k, n) = q[k]
          /\ q[0] = 1 % n /\ \A j \in 1 .. k : q[j] = (q[j - 1] * v) % n
    BY <1>3, <2>1, PowerModIs
  <2>3. k \in 0 .. k
    BY <1>3
  <2>4. p = q[k]
    BY <2>2
  <2> HIDE DEF p
  <2>5. q[k] \in 0 .. n - 1
    BY <2>3
  <2> QED
    BY <2>4, <2>5
<1>7. fits => w = InForm(p, n)
  <2> SUFFICES ASSUME fits PROVE w = InForm(p, n)
    OBVIOUS
  <2> DEFINE y == InForm(v, n)
  <2>1. y \in 0 .. n - 1 /\ Congruent(y, v * M, n)
    <3>1. Congruent(v, v, n) /\ n \in Int
      BY <1>3, Same
    <3> QED
      BY <1>3, <3>1, ToForm
  <2> HIDE DEF y
  <2>2. y \in Int
    BY <1>3, <2>1
  <2>3. MontPower(y, k, RR, n) = InForm(PowerMod(v, k, n), n)
    BY <1>3, <2>1, <2>2, MontPowerIs
  <2> QED
    BY <1>3, <2>3 DEF y
<1> HIDE DEF w, p
<1> QED
  BY <1>1, <1>2, <1>4, <1>5, <1>6, <1>7, PutInForm DEF n, fits

(* For every word count that fp256_mont_ctx_init takes, every modulus,     *)
(* number of objects and width of limbs: no sequence of conversions,       *)
(* products and powers leaves an object in Montgomery form that is not     *)
(* below the modulus, and in a context with w = 4 none loses or gains a    *)
(* factor R, the property of MontField.  Two things are needed of the      *)
(* invariant beside the property: that a number whose object is in         *)
(* Montgomery form is below the modulus, or it could not be brought back,  *)
(* and that RR belongs to the modulus.  With w from 1 to 3 it is not the   *)
(* constant that ll_u256_mont_mul needs, and Represents says no more than  *)
(* that the results are reduced.                                           *)
THEOREM NoFactorLost ==
  ASSUME Words \subseteq Nat, Moduli \subseteq Numbers
  PROVE  Field!Spec => []Field!Represents
<1>1. Field!Init => Field!IInv
  <2> SUFFICES ASSUME Field!Init PROVE Field!IInv
    OBVIOUS
  <2>1. Field!Zero = Zero /\ Field!Numbers = Numbers /\ 0 \in Numbers /\ Field!Obj(0) = Zero
        /\ Zero \in [d : Numbers, n : 0 .. 4] /\ Zero.d = 0
    BY SameValues, ZeroIs, Literals DEF Zero
  <2>2. Field!TypeOK
    BY <2>1 DEF Field!Init, Field!TypeOK
  <2>3. Field!Represents
    BY <2>1 DEF Field!Init, Field!Represents
  <2>4. Field!ContextFits
    BY DEF Field!Init, Field!ContextFits
  <2> QED
    BY <2>2, <2>3, <2>4 DEF Field!IInv
<1>2. Field!IInv /\ [Field!Next]_Field!vars => Field!IInv'
  <2> SUFFICES ASSUME Field!IInv, [Field!Next]_Field!vars PROVE Field!IInv'
    OBVIOUS
  <2>1. CASE Field!CtxInit
    <3>1. Field!ContextFits'
      BY <2>1 DEF Field!CtxInit, Field!ContextFits, Field!N
    <3> QED
      BY <2>1, <3>1, Cleared DEF Field!CtxInit
  <2>2. CASE Field!CtxRefused \/ UNCHANGED Field!vars
    BY <2>2 DEF Field!CtxRefused, Field!vars, Field!IInv, Field!TypeOK, Field!ContextFits,
                Field!Represents, Field!N, Field!Matched
  <2>3. CASE Field!Set
    <3>1. PICK r \in Objects, v \in Numbers : Field!Put(r, v, v) /\ Field!Plain(r) /\ Field!Ready
      BY <2>3, SameValues DEF Field!Set
    <3> QED
      BY <3>1, PutKeeps
  <2>4. CASE Field!ToMont \/ Field!FromMont
    BY <2>4, ConversionsKeep
  <2>5. CASE Field!Mul \/ Field!Sqr
    BY <2>5, ProductsKeep
  <2>6. CASE Field!Exp
    BY <2>6, PowersKeep
  <2> QED
    BY <2>1, <2>2, <2>3, <2>4, <2>5, <2>6 DEF Field!Next
<1>3. Field!IInv => Field!Represents
  BY DEF Field!IInv
<1> QED
  BY <1>1, <1>2, <1>3, PTL DEF Field!Spec
==============================================================================
