----------------------------- MODULE LimbOpsProofs -----------------------------
(***************************************************************************)
(* The routines on arrays of limbs, on four limbs and on single limbs are  *)
(* exact: every call that a caller may make leaves what integer arithmetic *)
(* says, for limbs of any width and arrays of any length.  The lemmas of   *)
(* LimbsProofs say what the routines compute; here they meet the operands  *)
(* of a caller and the powers that the properties are written with.  So    *)
(* are the conversions between limbs, bytes and text, at the end.          *)
(***************************************************************************)
EXTENDS LimbOps, LimbsProofs

(* B^n is the n-th power of B.                                             *)
LEMMA BasePowers == \A n \in 0 .. MaxLen + 4 : B^n = Power(n)
<1> DEFINE m == MaxLen + 4   T == {n \in Nat : B^n = Power(n)}
<1>1. m \in Nat /\ MaxLen \in Nat
  BY MaxLenAssumption
<1>2. 0 \in T
  BY PowersAssumption, PowerStep
<1>3. \A k \in 0 .. m - 1 : k \in T => k + 1 \in T
  <2> SUFFICES ASSUME NEW k \in 0 .. m - 1, k \in T PROVE k + 1 \in T
    OBVIOUS
  <2>1. k \in Nat /\ k \in 0 .. MaxLen + 3 /\ k + 1 \in Nat
    BY <1>1
  <2>2. B^(k + 1) = B * B^k
    BY <2>1, PowersAssumption
  <2>3. Power(k + 1) = B * Power(k)
    BY <2>1, PowerStep
  <2> QED
    BY <2>1, <2>2, <2>3
<1>4. 0 .. m \subseteq T
  <2> HIDE DEF m, T
  <2> QED
    BY <1>1, <1>2, <1>3, InductionTo
<1> QED
  BY <1>4

(* A power of two, by limbs and bits.                                      *)
LEMMA ShiftPowers ==
  ASSUME NEW l \in Nat, NEW b \in 0 .. W - 1, W * l + b \in 0 .. (MaxLen + 1) * W
  PROVE  2^(W * l + b) = Power(l) * 2^b
<1> DEFINE m == (MaxLen + 1) * W
           T == {s \in Nat : \A i \in Nat, j \in 0 .. W - 1 : s = W * i + j => 2^s = Power(i) * 2^j}
<1>1. m \in Nat /\ W \in Nat \ {0} /\ W - 1 \in 0 .. W - 1 /\ 0 \in 0 .. W - 1 /\ 2^0 = 1
  BY MaxLenAssumption, WordAssumption
<1>2. \A j \in 0 .. W - 1 : 2^(j + 1) = 2 * 2^j /\ 2^j \in Int
  <2>1. \A j \in 0 .. W - 1 : j \in 0 .. W
    BY <1>1
  <2> QED
    BY <2>1, PowersOfTwo, TwoPowers
<1>3. \A i \in Nat : Power(i) \in Int /\ Power(i + 1) = B * Power(i)
  BY PowerStep
<1>4. 2^(W - 1) * 2 = B
  <2> DEFINE w == W - 1
  <2>1. w \in 0 .. W - 1 /\ w + 1 = W
    BY <1>1
  <2>2. 2^(w + 1) = 2 * 2^w /\ 2^w \in Int
    <3> HIDE DEF w
    <3> QED
      BY <1>2, <2>1
  <2> QED
    BY <2>1, <2>2 DEF B
<1>5. 0 \in T
  <2> SUFFICES ASSUME NEW i \in Nat, NEW j \in 0 .. W - 1, 0 = W * i + j
               PROVE  2^0 = Power(i) * 2^j
    OBVIOUS
  <2>1. W * i \in Nat /\ j \in Nat
    BY <1>1
  <2>2. j = 0 /\ W * i = 0
    BY <2>1
  <2>3. i = 0
    BY <1>1, <2>2
  <2>4. Power(0) = 1
    BY PowerStep
  <2> QED
    BY <1>1, <2>2, <2>3, <2>4
<1>6. \A s \in 0 .. m - 1 : s \in T => s + 1 \in T
  <2> SUFFICES ASSUME NEW s \in 0 .. m - 1, s \in T,
                      NEW i \in Nat, NEW j \in 0 .. W - 1, s + 1 = W * i + j
               PROVE  2^(s + 1) = Power(i) * 2^j
    <3>1. \A k \in Nat : k + 1 \in Nat
      OBVIOUS
    <3>2. 0 .. m - 1 \subseteq Nat
      OBVIOUS
    <3> QED
      BY <3>1, <3>2
  <2>1. 2^(s + 1) = 2 * 2^s
    BY <1>1, PowersAssumption
  <2>2. \A p \in Nat, q \in 0 .. W - 1 : s = W * p + q => 2^s = Power(p) * 2^q
    OBVIOUS
  <2>3. CASE j > 0
    <3> DEFINE q == j - 1
    <3>1. q \in 0 .. W - 1 /\ q + 1 = j
      BY <1>1, <2>3
    <3>2. s = W * i + q
      <4>1. W * i \in Int /\ s \in Int
        BY <1>1
      <4> QED
        BY <4>1
    <3> HIDE DEF q
    <3>3. 2^s = Power(i) * 2^q
      BY <2>2, <3>1, <3>2
    <3>4. 2^(q + 1) = 2 * 2^q /\ 2^q \in Int /\ Power(i) \in Int
      BY <1>2, <1>3, <3>1
    <3> DEFINE a == 2^q   c == Power(i)
    <3>5. 2 * (c * a) = c * (2 * a)
      <4> HIDE DEF a, c
      <4> QED
        BY <3>4 DEF a, c
    <3> QED
      BY <2>1, <3>1, <3>3, <3>4, <3>5
  <2>4. CASE ~(j > 0)
    <3> DEFINE p == i - 1   q == W - 1
    <3>1. j = 0
      BY <1>1, <2>4
    <3>2. i > 0
      <4>1. CASE i = 0
        <5>1. W * i = 0
          BY <1>1, <4>1
        <5> QED
          BY <3>1, <5>1
      <4> QED
        BY <4>1
    <3>3. p \in Nat /\ p + 1 = i /\ q \in 0 .. W - 1
      BY <1>1, <3>2
    <3>4. s = W * p + q
      <4>1. W * i = W * p + W /\ W * p \in Int /\ s \in Int
        BY <1>1, <3>3
      <4> QED
        BY <1>1, <3>1, <4>1
    <3> HIDE DEF p, q
    <3>5. 2^s = Power(p) * 2^q
      BY <2>2, <3>3, <3>4
    <3>6. Power(i) = B * Power(p) /\ Power(p) \in Int /\ 2^q \in Int /\ 2^q * 2 = B
      BY <1>2, <1>3, <1>4, <3>3 DEF q
    <3> DEFINE a == 2^q   c == Power(p)
    <3>7. 2 * (c * a) = ((a * 2) * c) * 1
      <4> HIDE DEF a, c
      <4> QED
        BY <3>6 DEF a, c
    <3> QED
      BY <1>1, <2>1, <3>1, <3>5, <3>6, <3>7
  <2> QED
    BY <2>3, <2>4
<1>7. 0 .. m \subseteq T
  <2> HIDE DEF m, T
  <2> QED
    BY <1>1, <1>5, <1>6, InductionTo
<1>8. W * l + b \in T
  BY <1>7
<1> QED
  BY <1>8

------------------------------------------------------------------------------
(* What a caller passes to the routines on arrays. *)
PairOfArrays(c) ==
  c.al \in Lengths /\ c.bl \in Lengths /\ c.ad \in Arrays(c.al) /\ c.bd \in Arrays(c.bl)

ArrayAndLimb(c) == c.al \in Lengths /\ c.ad \in Arrays(c.al) /\ c.b \in Limb

Accumulator(c) == c.rl \in Lengths /\ c.rl >= c.al /\ c.rd \in Arrays(c.rl + 1)

RoomForShift(c) ==
  /\ c.al \in Lengths /\ c.n \in 0 .. (MaxLen + 1) * W
  /\ c.x \in [0 .. c.al + (c.n \div W) -> Limb]

Operands(c) ==
  /\ c.f \in {"add", "sub", "cmp", "mul"} => PairOfArrays(c)
  /\ c.f = "sub" => c.al >= c.bl /\ Val(c.ad, c.al) >= Val(c.bd, c.bl)
  /\ c.f \in {"mul_limb", "muladd", "mulsub"} => ArrayAndLimb(c)
  /\ c.f \in {"muladd", "mulsub"} => Accumulator(c)
  /\ c.f \in {"lshift", "rshift"} => RoomForShift(c)
  /\ c.f \in {"u256", "u256_limb", "u256_shift"} => c.ad \in U256s
  /\ c.f = "u256" => c.bd \in U256s
  /\ c.f = "u256_limb" => c.b \in Limb
  /\ c.f = "u256_shift" => c.n \in 0 .. W - 1

(* An array of l limbs holds l limbs. *)
LEMMA ArraysHold ==
  ASSUME NEW l, NEW x \in Arrays(l)
  PROVE  Holds(x, l) /\ DOMAIN x = 0 .. l - 1
  BY DEF Arrays, Holds

(* The lengths are numbers, and the numbers that pairs of arrays stand for. *)
LEMMA PairIs ==
  ASSUME NEW c, PairOfArrays(c)
  PROVE  /\ c.al \in Nat /\ c.bl \in Nat /\ Holds(c.ad, c.al) /\ Holds(c.bd, c.bl)
         /\ Val(c.ad, c.al) \in Nat /\ Val(c.bd, c.bl) \in Nat
<1>1. c.al \in Nat /\ c.bl \in Nat
  BY MaxLenAssumption DEF PairOfArrays, Lengths
<1>2. Holds(c.ad, c.al) /\ Holds(c.bd, c.bl)
  BY ArraysHold DEF PairOfArrays
<1> QED
  BY <1>1, <1>2, ValRange

(* The sum of arrays of any two lengths. *)
LEMMA AddCall ==
  ASSUME NEW c, PairOfArrays(c)
  PROVE  LET long == IF c.al >= c.bl THEN c.al ELSE c.bl
         IN  Val(Add(c.ad, c.bd, c.al, c.bl).d, long + 1) = Val(c.ad, c.al) + Val(c.bd, c.bl)
  BY PairIs, AddIs

(* A difference that is a number needs no borrow.                          *)
LEMMA SubCall ==
  ASSUME NEW c, PairOfArrays(c), c.al >= c.bl, Val(c.ad, c.al) >= Val(c.bd, c.bl)
  PROVE  LET r == Sub(c.ad, c.bd, c.al, c.bl)
         IN  Val(r.d, c.al) = Val(c.ad, c.al) - Val(c.bd, c.bl) /\ r.c = 0
<1> DEFINE r == Sub(c.ad, c.bd, c.al, c.bl)   p == Power(c.al)   v == Val(r.d, c.al)
           x == Val(c.ad, c.al)   y == Val(c.bd, c.bl)
<1>1. c.al \in Nat /\ c.bl \in 0 .. c.al /\ Holds(c.ad, c.al) /\ Holds(c.bd, c.bl)
      /\ x \in Nat /\ y \in Nat /\ x >= y
  BY PairIs
<1>2. Holds(r.d, c.al) /\ r.c \in {0, 1} /\ v - p * r.c = x - y
  BY <1>1, SubIs
<1>3. v \in Nat /\ v < p /\ p \in Nat
  <2>1. Holds(r.d, c.al) /\ c.al \in Nat
    BY <1>1, <1>2
  <2> QED
    BY <2>1, ValRange, PowerStep
<1> DEFINE b == r.c
<1>4. b = 0 /\ v = x - y
  <2>1. b \in {0, 1} /\ v - p * b = x - y
    BY <1>2
  <2> HIDE DEF v, p, x, y, b
  <2> QED
    BY <1>1, <1>3, <2>1
<1> QED
  BY <1>4

(* The result array of ll_mul is an array. *)
LEMMA MulCall ==
  ASSUME NEW c, PairOfArrays(c)
  PROVE  Val(Mul(Garbage(c.al + c.bl), c.ad, c.bd, c.al, c.bl), c.al + c.bl)
           = Val(c.ad, c.al) * Val(c.bd, c.bl)
<1>1. B - 1 \in Limb
  BY Base DEF Limb
<1>2. Garbage(c.al + c.bl) \in Arrays(c.al + c.bl)
  BY <1>1 DEF Garbage, Arrays
<1> QED
  BY <1>2, PairIs, MulIs

(* Counting the limbs before the comparison makes it one of numbers. *)
LEMMA CmpCall ==
  ASSUME NEW c, PairOfArrays(c)
  PROVE  CmpNormalized(c.ad, c.bd, c.al, c.bl) =
           IF Val(c.ad, c.al) > Val(c.bd, c.bl) THEN 1
           ELSE IF Val(c.ad, c.al) < Val(c.bd, c.bl) THEN -1 ELSE 0
<1> DEFINE an == NumLimbs(c.ad, c.al)   bn == NumLimbs(c.bd, c.bl)
           a == From(c.ad, 0, an)       b == From(c.bd, 0, bn)
<1>1. c.al \in Nat /\ c.bl \in Nat /\ Holds(c.ad, c.al) /\ Holds(c.bd, c.bl)
      /\ Val(c.ad, c.al) \in Nat /\ Val(c.bd, c.bl) \in Nat
  BY PairIs
<1>2. /\ an \in 0 .. c.al /\ Holds(c.ad, an) /\ Val(c.ad, c.al) = Val(c.ad, an)
      /\ an > 0 => c.ad[an - 1] \in Limb \ {0}
  BY <1>1, NumLimbsIs
<1>3. /\ bn \in 0 .. c.bl /\ Holds(c.bd, bn) /\ Val(c.bd, c.bl) = Val(c.bd, bn)
      /\ bn > 0 => c.bd[bn - 1] \in Limb \ {0}
  BY <1>1, NumLimbsIs
<1>4. an \in Nat /\ bn \in Nat
  BY <1>1, <1>2, <1>3
<1>5. CmpNormalized(c.ad, c.bd, c.al, c.bl) = CmpLimbs(a, b, an, bn)
  BY DEF CmpNormalized
<1> HIDE DEF an, bn
<1>6. Holds(a, an) /\ \A i \in 0 .. an - 1 : a[i] = c.ad[i]
  BY <1>2, <1>4 DEF From, Holds
<1>7. Holds(b, bn) /\ \A i \in 0 .. bn - 1 : b[i] = c.bd[i]
  BY <1>3, <1>4 DEF From, Holds
<1> HIDE DEF a, b
<1>8. Val(a, an) = Val(c.ad, an) /\ Val(b, bn) = Val(c.bd, bn)
  BY <1>4, <1>6, <1>7, ValSame
<1>9. (an > 0 => a[an - 1] # 0) /\ (bn > 0 => b[bn - 1] # 0)
  <2>1. an > 0 => a[an - 1] = c.ad[an - 1]
    BY <1>4, <1>6
  <2>2. bn > 0 => b[bn - 1] = c.bd[bn - 1]
    BY <1>4, <1>7
  <2> QED
    BY <1>2, <1>3, <2>1, <2>2
<1>10. CmpLimbs(a, b, an, bn) =
         IF Val(a, an) > Val(b, bn) THEN 1 ELSE IF Val(a, an) = Val(b, bn) THEN 0 ELSE -1
  BY <1>4, <1>6, <1>7, <1>9, CmpLimbsIs
<1> DEFINE x == Val(c.ad, c.al)   y == Val(c.bd, c.bl)
<1>11. CmpNormalized(c.ad, c.bd, c.al, c.bl) = (IF x > y THEN 1 ELSE IF x = y THEN 0 ELSE -1)
       /\ x \in Nat /\ y \in Nat
  BY <1>1, <1>2, <1>3, <1>5, <1>8, <1>10
<1> HIDE DEF x, y
<1>12. (IF x > y THEN 1 ELSE IF x = y THEN 0 ELSE -1) = (IF x > y THEN 1 ELSE IF x < y THEN -1 ELSE 0)
  BY <1>11
<1> QED
  BY <1>11, <1>12 DEF x, y

(* A product by one limb. *)
LEMMA MulLimbCall ==
  ASSUME NEW c, ArrayAndLimb(c)
  PROVE  Val(MulLimb(c.ad, c.b, c.al).d, c.al + 1) = Val(c.ad, c.al) * c.b
<1>1. c.al \in Nat /\ Holds(c.ad, c.al) /\ c.b \in Limb
  BY MaxLenAssumption, ArraysHold DEF ArrayAndLimb, Lengths
<1>2. Val(c.ad, c.al) \in Int /\ c.b \in Int
  BY <1>1, ValRange, Base DEF Limb
<1>3. Val(MulLimb(c.ad, c.b, c.al).d, c.al + 1) = c.b * Val(c.ad, c.al)
  BY <1>1, MulLimbIs
<1> QED
  BY <1>2, <1>3

(* A multiple added to the old contents of the array. *)
LEMMA MulAddCall ==
  ASSUME NEW c, ArrayAndLimb(c), Accumulator(c)
  PROVE  Val(MulAddLimb(c.rd, c.ad, c.b, c.rl, c.al).d, c.rl + 1)
           = Val(c.rd, c.rl) + Val(c.ad, c.al) * c.b
<1>1. c.al \in Nat /\ Holds(c.ad, c.al) /\ c.b \in Limb /\ c.rl \in Nat /\ c.al \in 0 .. c.rl
  BY MaxLenAssumption, ArraysHold DEF ArrayAndLimb, Accumulator, Lengths
<1>2. Holds(c.rd, c.rl) /\ DOMAIN c.rd = 0 .. c.rl
  <2>1. Holds(c.rd, c.rl + 1) /\ DOMAIN c.rd = 0 .. (c.rl + 1) - 1
    BY ArraysHold DEF Accumulator
  <2>2. (c.rl + 1) - 1 = c.rl
    BY <1>1
  <2> QED
    BY <1>1, <2>1, <2>2 DEF Holds
<1>3. Val(c.ad, c.al) \in Int /\ c.b \in Int /\ Val(c.rd, c.rl) \in Int
  BY <1>1, <1>2, ValRange, Base DEF Limb
<1>4. Val(MulAddLimb(c.rd, c.ad, c.b, c.rl, c.al).d, c.rl + 1) = Val(c.rd, c.rl) + c.b * Val(c.ad, c.al)
  BY <1>1, <1>2, MulAddLimbIs
<1>5. c.b * Val(c.ad, c.al) = Val(c.ad, c.al) * c.b
  BY <1>3
<1> QED
  BY <1>4, <1>5

(* A multiple subtracted from them: the borrow is returned, and the limb   *)
(* behind the difference is left alone.                                    *)
LEMMA MulSubCall ==
  ASSUME NEW c, ArrayAndLimb(c), Accumulator(c)
  PROVE  LET r == MulSubLimb(c.rd, c.ad, c.b, c.rl, c.al)
         IN  /\ Val(r.d, c.rl) - B^c.rl * r.c = Val(c.rd, c.rl) - Val(c.ad, c.al) * c.b
             /\ r.d[c.rl] = c.rd[c.rl]
<1> DEFINE r == MulSubLimb(c.rd, c.ad, c.b, c.rl, c.al)
<1>1. c.al \in Nat /\ Holds(c.ad, c.al) /\ c.b \in Limb /\ c.rl \in Nat /\ c.al \in 0 .. c.rl
  BY MaxLenAssumption, ArraysHold DEF ArrayAndLimb, Accumulator, Lengths
<1>2. Holds(c.rd, c.rl) /\ DOMAIN c.rd = 0 .. c.rl
  <2>1. Holds(c.rd, c.rl + 1) /\ DOMAIN c.rd = 0 .. (c.rl + 1) - 1
    BY ArraysHold DEF Accumulator
  <2>2. (c.rl + 1) - 1 = c.rl
    BY <1>1
  <2> QED
    BY <1>1, <2>1, <2>2 DEF Holds
<1>3. B^c.rl = Power(c.rl)
  <2>1. c.rl \in 0 .. MaxLen + 4
    BY <1>1, MaxLenAssumption DEF Accumulator, Lengths
  <2> QED
    BY <2>1, BasePowers
<1>4. Val(c.ad, c.al) \in Int /\ c.b \in Int
  BY <1>1, ValRange, Base DEF Limb
<1>5. 0 .. c.rl - 1 \subseteq DOMAIN c.rd /\ c.rl \in DOMAIN c.rd /\ ~(c.rl < c.rl)
  BY <1>1, <1>2
<1>6. /\ Val(r.d, c.rl) - Power(c.rl) * r.c = Val(c.rd, c.rl) - c.b * Val(c.ad, c.al)
      /\ \A i \in DOMAIN c.rd : ~(i < c.rl) => r.d[i] = c.rd[i]
  BY <1>1, <1>2, <1>5, MulSubLimbIs
<1>7. c.b * Val(c.ad, c.al) = Val(c.ad, c.al) * c.b
  BY <1>4
<1> HIDE DEF r
<1>8. r.d[c.rl] = c.rd[c.rl]
  BY <1>5, <1>6
<1> QED
  BY <1>3, <1>6, <1>7, <1>8 DEF r

(* A shift is one by limbs and bits. *)
LEMMA ShiftDistance ==
  ASSUME NEW c, RoomForShift(c)
  PROVE  LET l == c.n \div W
             b == c.n % W
         IN  /\ c.al \in Nat /\ l \in Nat /\ b \in 0 .. W - 1 /\ Distance(c.n, l, b)
             /\ 2^c.n = Power(l) * 2^b /\ Power(l) * 2^b \in Nat \ {0}
             /\ c.x \in [0 .. c.al + l -> Limb] /\ Holds(c.x, c.al) /\ Val(c.x, c.al) \in Nat
<1> DEFINE l == c.n \div W   b == c.n % W   n == c.n   m == (MaxLen + 1) * W
<1>1. c.al \in Nat /\ n \in 0 .. m /\ m \in Nat /\ W \in Nat \ {0}
  BY MaxLenAssumption, WordAssumption DEF RoomForShift, Lengths
<1> HIDE DEF m
<1>2. n \in Nat /\ n \in Int
  BY <1>1
<1>3. l \in Int /\ b \in 0 .. W - 1 /\ n = W * l + b
  <2> HIDE DEF n
  <2>1. n \div W \in Int /\ n % W \in 0 .. W - 1 /\ n = W * (n \div W) + (n % W)
    BY <1>1, <1>2, DivMod
  <2> QED
    BY <2>1 DEF n
<1> HIDE DEF l, b
<1>4. l \in Nat
  <2> SUFFICES ASSUME ~(l >= 0) PROVE FALSE
    BY <1>3
  <2>1. -1 - l \in Nat /\ W * (-1 - l) \in Nat /\ W * (-1 - l) = -W - W * l /\ W * l \in Int
    BY <1>1, <1>3
  <2> QED
    BY <1>1, <1>2, <1>3, <2>1
<1>5. 2^n = Power(l) * 2^b
  <2>1. W * l + b \in 0 .. (MaxLen + 1) * W
    BY <1>1, <1>3 DEF m
  <2>2. 2^(W * l + b) = Power(l) * 2^b
    BY <1>3, <1>4, <2>1, ShiftPowers
  <2> QED
    BY <1>3, <2>2
<1>6. Power(l) * 2^b \in Nat \ {0}
  <2> DEFINE p == Power(l)   q == 2^b
  <2>1. b \in 0 .. W
    BY <1>1, <1>3
  <2>2. p \in Nat \ {0} /\ q \in Nat \ {0}
    BY <1>4, <2>1, PowerStep, TwoPowers
  <2> HIDE DEF p, q
  <2>3. p * q \in Nat \ {0}
    BY <2>2
  <2> QED
    BY <2>3 DEF p, q
<1>7. c.x \in [0 .. c.al + l -> Limb]
  BY DEF RoomForShift, l
<1>8. Holds(c.x, c.al)
  BY <1>1, <1>4, <1>7 DEF Holds
<1>9. Val(c.x, c.al) \in Nat
  BY <1>1, <1>8, ValRange
<1> QED
  BY <1>1, <1>2, <1>3, <1>4, <1>5, <1>6, <1>7, <1>8, <1>9 DEF Distance, l, b

(* ll_lshift multiplies by the power of two. *)
LEMMA LShiftCall ==
  ASSUME NEW c, RoomForShift(c), c.al > 0
  PROVE  LET r == LShift(c.x, c.al, c.n)
             l == c.n \div W
         IN  Val(r.d, c.al + l + 1) = Val(c.x, c.al) * 2^c.n /\ r.c = r.d[c.al + l]
<1> DEFINE l == c.n \div W   b == c.n % W   m == c.al + l   r == LShift(c.x, c.al, c.n)
           p == Power(l)   q == 2^b   v == Val(c.x, c.al)
<1>1. /\ c.al \in Nat /\ l \in Nat /\ b \in 0 .. W - 1 /\ Distance(c.n, l, b)
      /\ 2^c.n = p * q /\ c.x \in [0 .. m -> Limb] /\ Holds(c.x, c.al) /\ v \in Nat
  BY ShiftDistance
<1> HIDE DEF l, b
<1>2. Room(c.x, m, c.al, l) /\ m \in Nat
  BY <1>1 DEF Room
<1>3. r.c = r.d[c.al + l] /\ Val(r.d, c.al + l + 1) = p * (q * v)
  <2> HIDE DEF m
  <2> QED
    BY <1>1, <1>2, LShiftFar
<1>4. p \in Int /\ q \in Int
  <2>1. b \in 0 .. W
    BY <1>1, WordAssumption
  <2> QED
    BY <1>1, <2>1, PowerStep, TwoPowers
<1>5. p * (q * v) = v * (p * q)
  <2> HIDE DEF p, q, v
  <2> QED
    BY <1>1, <1>4
<1> QED
  BY <1>1, <1>3, <1>5 DEF l

(* ll_rshift divides by it. *)
LEMMA RShiftCall ==
  ASSUME NEW c, RoomForShift(c)
  PROVE  Val(RShift(c.x, c.al, c.n).d, c.al) = Val(c.x, c.al) \div 2^c.n
<1> DEFINE l == c.n \div W   b == c.n % W   m == c.al + l   r == RShift(c.x, c.al, c.n)
           p == Power(l) * 2^b   v == Val(c.x, c.al)   al == c.al
<1>1. /\ al \in Nat /\ l \in Nat /\ b \in 0 .. W - 1 /\ Distance(c.n, l, b)
      /\ 2^c.n = p /\ p \in Nat \ {0} /\ c.x \in [0 .. m -> Limb] /\ Holds(c.x, al) /\ v \in Nat
  BY ShiftDistance
<1> HIDE DEF l, b
<1>2. CASE al = 0
  <2>1. Val(r.d, al) = 0 /\ v = 0
    BY <1>2, ValZero
  <2>2. 0 \in 0 .. p - 1 /\ 0 = p * 0 + 0
    BY <1>1
  <2>3. 0 \div p = 0
    <3> HIDE DEF p
    <3> QED
      BY <1>1, <2>2, DivModIs
  <2> QED
    BY <1>1, <2>1, <2>3
<1>3. CASE al # 0
  <2>1. m \in Nat /\ al \in 1 .. m
    BY <1>1, <1>3
  <2>2. /\ r.d \in [0 .. m -> Limb]
        /\ \E t \in 0 .. Power(l) * 2^b - 1 : Val(c.x, al) = (Power(l) * 2^b) * Val(r.d, al) + t
    <3> DEFINE z == c.n   x == c.x
    <3>1. l \in Nat /\ b \in 0 .. W - 1 /\ Distance(z, l, b) /\ x \in [0 .. m -> Limb]
      BY <1>1
    <3> HIDE DEF m, z, x, al
    <3>2. LET y == RShift(x, al, z)
          IN  /\ y.d \in [0 .. m -> Limb]
              /\ \E t \in 0 .. Power(l) * 2^b - 1 : Val(x, al) = (Power(l) * 2^b) * Val(y.d, al) + t
      BY <2>1, <3>1, RShiftFar
    <3> QED
      BY <3>2 DEF x, z, al
  <2>3. Holds(r.d, al)
    BY <2>1, <2>2 DEF Holds
  <2> DEFINE u == Val(r.d, al)
  <2>4. u \in Int
    BY <1>1, <2>3, ValRange
  <2>5. PICK t \in 0 .. p - 1 : v = p * u + t
    BY <2>2
  <2>6. v \div p = u
    <3>1. p \in Nat \ {0} /\ v \in Int /\ u \in Int /\ t \in 0 .. p - 1 /\ v = p * u + t
      BY <1>1, <2>4, <2>5
    <3> HIDE DEF p, u, v
    <3> QED
      BY <3>1, DivModIs
  <2> QED
    BY <1>1, <2>6 DEF u, v
<1> QED
  BY <1>2, <1>3

------------------------------------------------------------------------------
(* B^4 is the power of four limbs.                                         *)
LEMMA FourthPower == B^4 = Power(4) /\ Power(4) \in Nat \ {0}
<1>1. 4 \in 0 .. MaxLen + 4 /\ 4 \in Nat
  BY MaxLenAssumption
<1> DEFINE n == 4
<1>2. Power(n) \in Nat \ {0}
  <2>1. n \in Nat
    OBVIOUS
  <2> HIDE DEF n
  <2> QED
    BY <2>1, PowerStep
<1> QED
  BY <1>1, <1>2, BasePowers

(* The routines on two numbers of four limbs. *)
LEMMA U256Call ==
  ASSUME NEW x \in U256s, NEW y \in U256s
  PROVE  LET s == AddU256(x, y)
             d == SubU256(x, y)
         IN  /\ Val(s.d, 4) + B^4 * s.c = Val(x, 4) + Val(y, 4)
             /\ AddMacro(x, y) = s
             /\ Val(d.d, 4) - B^4 * d.c = Val(x, 4) - Val(y, 4)
             /\ Val(MulU256(x, y), 8) = Val(x, 4) * Val(y, 4)
             /\ Val(MulLoU256(x, y), 4) = (Val(x, 4) * Val(y, 4)) % B^4
             /\ Val(SqrU256(x), 8) = Val(x, 4) * Val(x, 4)
             /\ Val(SqrLoU256(x), 4) = (Val(x, 4) * Val(x, 4)) % B^4
<1>1. Holds(x, 4) /\ Holds(y, 4)
  BY ArraysHold DEF U256s
<1>2. B^4 = Power(4)
  BY FourthPower
<1> QED
  BY <1>1, <1>2, AddU256Is, AddMacroIs, SubU256Is, MulU256Is, MulLoU256Is, SqrU256Is

(* The routines on four limbs and one. *)
LEMMA U256LimbCall ==
  ASSUME NEW x \in U256s, NEW b \in Limb
  PROVE  /\ LET s == AddLimbU256(x, b) IN Val(s.d, 4) + B^4 * s.c = Val(x, 4) + b
         /\ LET s == SubLimbU256(x, b) IN Val(s.d, 4) - B^4 * s.c = Val(x, 4) - b
         /\ LET s == MulLimbU256(x, b) IN Val(s.d, 4) + B^4 * s.c = Val(x, 4) * b
<1>1. Holds(x, 4)
  BY ArraysHold DEF U256s
<1>2. B^4 = Power(4)
  BY FourthPower
<1> QED
  BY <1>1, <1>2, LimbU256Is

(* The shifts of four limbs. *)
LEMMA U256ShiftCall ==
  ASSUME NEW x \in U256s, NEW n \in 0 .. W - 1
  PROVE  /\ Val(LShiftU256(x, n), 5) = Val(x, 4) * 2^n
         /\ Val(RShiftU256(x, n), 4) = Val(x, 4) \div 2^n
<1> DEFINE v == Val(x, 4)   p == 2^n   u == Val(RShiftU256(x, n), 4)
<1>1. Holds(x, 4)
  BY ArraysHold DEF U256s
<1>2. /\ Val(LShiftU256(x, n), 5) = p * v /\ Holds(RShiftU256(x, n), 4)
      /\ \E t \in 0 .. 2^n - 1 : Val(x, 4) = 2^n * u + t
  BY <1>1, LShiftU256Is, RShiftU256Is
<1>3. v \in Int /\ u \in Int
  <2> DEFINE l == 4
  <2>1. l \in Nat /\ Holds(x, l) /\ Holds(RShiftU256(x, n), l)
    BY <1>1, <1>2
  <2>2. Val(x, l) \in Nat /\ Val(RShiftU256(x, n), l) \in Nat
    <3> HIDE DEF l
    <3> QED
      BY <2>1, ValRange
  <2> QED
    BY <2>2
<1>4. p \in Nat \ {0}
  <2>1. n \in 0 .. W
    BY WordAssumption
  <2> QED
    BY <2>1, TwoPowers
<1>5. PICK t \in 0 .. p - 1 : v = p * u + t
  BY <1>2
<1>6. p * v = v * p /\ v \div p = u
  <2> HIDE DEF p, v, u
  <2>1. p * v = v * p
    BY <1>3, <1>4
  <2> QED
    BY <1>3, <1>4, <1>5, <2>1, DivModIs
<1> QED
  BY <1>2, <1>6

------------------------------------------------------------------------------
(***************************************************************************)
(* The inductive invariant.  Nothing is left over from an earlier call     *)
(* when a caller chooses the next one, and what it chooses is what the     *)
(* routine asks of its operands: without that nothing could be said of the *)
(* result.                                                                 *)
(***************************************************************************)
IInv ==
  /\ call = NoCall => out = NoOut
  /\ Operands(call)
  /\ ArraysAreExact
  /\ ShiftsAreExact
  /\ U256IsExact

(* Nothing has been returned, so the properties ask for nothing. *)
LEMMA NothingReturned ==
  ASSUME out = NoOut
  PROVE  ArraysAreExact /\ ShiftsAreExact /\ U256IsExact
  BY DEF ArraysAreExact, ShiftsAreExact, U256IsExact, Returned

(* The library is not in use at the start. *)
LEMMA InitIInv == Init => IInv
<1> SUFFICES ASSUME Init PROVE IInv
  OBVIOUS
<1>1. call = NoCall /\ out = NoOut /\ call.f = "none"
  BY DEF Init, NoCall
<1>2. Operands(call)
  BY <1>1 DEF Operands
<1> QED
  BY <1>1, <1>2, NothingReturned DEF IInv

(* The caller passes what the routines ask for. *)
LEMMA CallOperands == Call => Operands(call')
<1> SUFFICES ASSUME Call PROVE Operands(call')
  OBVIOUS
<1>1. CASE CallWords
  <2>1. call'.f \in {"mulwords", "invert", "num_bits"}
    BY <1>1 DEF CallWords
  <2> QED
    BY <2>1 DEF Operands
<1>2. CASE CallArrays
  <2> PICK al \in Lengths, bl \in Lengths :
        \E ad \in Arrays(al), bd \in Arrays(bl) :
          \/ call' = [f |-> "add", ad |-> ad, bd |-> bd, al |-> al, bl |-> bl]
          \/ /\ al >= bl /\ Val(ad, al) >= Val(bd, bl)
             /\ call' = [f |-> "sub", ad |-> ad, bd |-> bd, al |-> al, bl |-> bl]
          \/ call' = [f |-> "cmp", ad |-> ad, bd |-> bd, al |-> al, bl |-> bl]
          \/ call' = [f |-> "mul", ad |-> ad, bd |-> bd, al |-> al, bl |-> bl]
    BY <1>2 DEF CallArrays
  <2>1. PICK ad \in Arrays(al), bd \in Arrays(bl) :
          \/ call' = [f |-> "add", ad |-> ad, bd |-> bd, al |-> al, bl |-> bl]
          \/ /\ al >= bl /\ Val(ad, al) >= Val(bd, bl)
             /\ call' = [f |-> "sub", ad |-> ad, bd |-> bd, al |-> al, bl |-> bl]
          \/ call' = [f |-> "cmp", ad |-> ad, bd |-> bd, al |-> al, bl |-> bl]
          \/ call' = [f |-> "mul", ad |-> ad, bd |-> bd, al |-> al, bl |-> bl]
    OBVIOUS
  <2>2. call'.f \in {"add", "sub", "cmp", "mul"} /\ PairOfArrays(call')
        /\ (call'.f = "sub" => call'.al >= call'.bl /\ Val(call'.ad, call'.al) >= Val(call'.bd, call'.bl))
    BY <2>1 DEF PairOfArrays
  <2> QED
    BY <2>2 DEF Operands
<1>3. CASE CallRows
  <2> PICK al \in Lengths, rl \in Lengths :
        \E ad \in Arrays(al), rd \in Arrays(rl + 1), b \in Limb :
          \/ /\ rl = al
             /\ call' = [f |-> "mul_limb", ad |-> ad, al |-> al, b |-> b]
          \/ /\ rl >= al
             /\ \E f \in {"muladd", "mulsub"} :
                  call' = [f |-> f, rd |-> rd, ad |-> ad, b |-> b, rl |-> rl, al |-> al]
    BY <1>3 DEF CallRows
  <2>1. PICK ad \in Arrays(al), rd \in Arrays(rl + 1), b \in Limb :
          \/ /\ rl = al
             /\ call' = [f |-> "mul_limb", ad |-> ad, al |-> al, b |-> b]
          \/ /\ rl >= al
             /\ \E f \in {"muladd", "mulsub"} :
                  call' = [f |-> f, rd |-> rd, ad |-> ad, b |-> b, rl |-> rl, al |-> al]
    OBVIOUS
  <2>2. call'.f \in {"mul_limb", "muladd", "mulsub"} /\ ArrayAndLimb(call')
        /\ (call'.f \in {"muladd", "mulsub"} => Accumulator(call'))
    BY <2>1 DEF ArrayAndLimb, Accumulator
  <2> QED
    BY <2>2 DEF Operands
<1>4. CASE CallShifts
  <2> PICK al \in Lengths, n \in 0 .. (MaxLen + 1) * W :
        \E ad \in Arrays(al), old \in {0, B - 1}, f \in {"lshift", "rshift"} :
          call' = [f |-> f, al |-> al, n |-> n,
                   x |-> [j \in 0 .. al + (n \div W) |-> IF j < al THEN ad[j] ELSE old]]
    BY <1>4 DEF CallShifts
  <2>1. PICK ad \in Arrays(al), old \in {0, B - 1}, f \in {"lshift", "rshift"} :
          call' = [f |-> f, al |-> al, n |-> n,
                   x |-> [j \in 0 .. al + (n \div W) |-> IF j < al THEN ad[j] ELSE old]]
    OBVIOUS
  <2> DEFINE l == n \div W   x == [j \in 0 .. al + l |-> IF j < al THEN ad[j] ELSE old]
  <2>2. call'.f \in {"lshift", "rshift"} /\ call'.al = al /\ call'.n = n /\ call'.x = x
    BY <2>1
  <2>3. x \in [0 .. al + l -> Limb]
    <3>1. old \in Limb
      BY Base DEF Limb
    <3>2. Holds(ad, al) /\ al \in Nat
      BY ArraysHold, MaxLenAssumption DEF Lengths
    <3> HIDE DEF l
    <3>3. \A j \in 0 .. al + l : j < al => ad[j] \in Limb
      BY <3>2 DEF Holds
    <3> QED
      BY <3>1, <3>3
  <2>4. RoomForShift(call')
    <3> HIDE DEF x
    <3> QED
      BY <2>2, <2>3 DEF RoomForShift
  <2> QED
    BY <2>2, <2>4 DEF Operands
<1>5. CASE CallU256
  <2>1. PICK ad \in U256s :
          \/ \E bd \in U256s : call' = [f |-> "u256", ad |-> ad, bd |-> bd]
          \/ \E b \in Limb : call' = [f |-> "u256_limb", ad |-> ad, b |-> b]
          \/ \E n \in 0 .. W - 1 : call' = [f |-> "u256_shift", ad |-> ad, n |-> n]
    BY <1>5 DEF CallU256
  <2>2. /\ call'.f \in {"u256", "u256_limb", "u256_shift"} /\ call'.ad \in U256s
        /\ call'.f = "u256" => call'.bd \in U256s
        /\ call'.f = "u256_limb" => call'.b \in Limb
        /\ call'.f = "u256_shift" => call'.n \in 0 .. W - 1
    BY <2>1
  <2> QED
    BY <2>2 DEF Operands
<1>6. CASE CallText
  <2>1. call'.f \in {"text", "bytes", "word"}
    BY <1>6 DEF CallText
  <2> QED
    BY <2>1 DEF Operands
<1> QED
  BY <1>1, <1>2, <1>3, <1>4, <1>5, <1>6 DEF Call

(* What each routine leaves is what the properties ask for.                *)
LEMMA RunExact ==
  ASSUME Operands(call), Run
  PROVE  ArraysAreExact' /\ ShiftsAreExact' /\ U256IsExact'
<1>1. call' = call
  BY DEF Run
<1>2. ArraysAreExact'
  <2>1. ASSUME call.f = "add"
        PROVE  LET long == IF call.al >= call.bl THEN call.al ELSE call.bl
               IN  Val(out'.d, long + 1) = Val(call.ad, call.al) + Val(call.bd, call.bl)
    <3>1. out' = Add(call.ad, call.bd, call.al, call.bl)
      BY <2>1 DEF Run
    <3>2. PairOfArrays(call)
      BY <2>1 DEF Operands
    <3> QED
      BY <3>1, <3>2, AddCall
  <2>2. ASSUME call.f = "sub"
        PROVE  Val(out'.d, call.al) = Val(call.ad, call.al) - Val(call.bd, call.bl) /\ out'.c = 0
    <3>1. out' = Sub(call.ad, call.bd, call.al, call.bl)
      BY <2>2 DEF Run
    <3>2. PairOfArrays(call) /\ call.al >= call.bl /\ Val(call.ad, call.al) >= Val(call.bd, call.bl)
      BY <2>2 DEF Operands
    <3> QED
      BY <3>1, <3>2, SubCall
  <2>3. ASSUME call.f = "mul_limb"
        PROVE  Val(out'.d, call.al + 1) = Val(call.ad, call.al) * call.b
    <3>1. out' = MulLimb(call.ad, call.b, call.al)
      BY <2>3 DEF Run
    <3>2. ArrayAndLimb(call)
      BY <2>3 DEF Operands
    <3> QED
      BY <3>1, <3>2, MulLimbCall
  <2>4. ASSUME call.f = "muladd"
        PROVE  Val(out'.d, call.rl + 1) = Val(call.rd, call.rl) + Val(call.ad, call.al) * call.b
    <3>1. out' = MulAddLimb(call.rd, call.ad, call.b, call.rl, call.al)
      BY <2>4 DEF Run
    <3>2. ArrayAndLimb(call) /\ Accumulator(call)
      BY <2>4 DEF Operands
    <3> QED
      BY <3>1, <3>2, MulAddCall
  <2>5. ASSUME call.f = "mulsub"
        PROVE  /\ Val(out'.d, call.rl) - B^call.rl * out'.c
                    = Val(call.rd, call.rl) - Val(call.ad, call.al) * call.b
               /\ out'.d[call.rl] = call.rd[call.rl]
    <3>1. out' = MulSubLimb(call.rd, call.ad, call.b, call.rl, call.al)
      BY <2>5 DEF Run
    <3>2. ArrayAndLimb(call) /\ Accumulator(call)
      BY <2>5 DEF Operands
    <3> QED
      BY <3>1, <3>2, MulSubCall
  <2>6. ASSUME call.f = "mul"
        PROVE  Val(out'.d, call.al + call.bl) = Val(call.ad, call.al) * Val(call.bd, call.bl)
    <3>1. out' = [d |-> Mul(Garbage(call.al + call.bl), call.ad, call.bd, call.al, call.bl)]
      BY <2>6 DEF Run
    <3>2. PairOfArrays(call)
      BY <2>6 DEF Operands
    <3> QED
      BY <3>1, <3>2, MulCall
  <2>7. ASSUME call.f = "cmp"
        PROVE  out'.c = IF Val(call.ad, call.al) > Val(call.bd, call.bl) THEN 1
                        ELSE IF Val(call.ad, call.al) < Val(call.bd, call.bl) THEN -1 ELSE 0
    <3>1. out' = [c |-> CmpNormalized(call.ad, call.bd, call.al, call.bl)]
      BY <2>7 DEF Run
    <3>2. PairOfArrays(call)
      BY <2>7 DEF Operands
    <3>3. CmpNormalized(call.ad, call.bd, call.al, call.bl) =
            IF Val(call.ad, call.al) > Val(call.bd, call.bl) THEN 1
            ELSE IF Val(call.ad, call.al) < Val(call.bd, call.bl) THEN -1 ELSE 0
      BY <3>2, CmpCall
    <3> QED
      BY <3>1, <3>3
  <2> QED
    BY <1>1, <2>1, <2>2, <2>3, <2>4, <2>5, <2>6, <2>7 DEF ArraysAreExact, Returned
<1>3. ShiftsAreExact'
  <2>1. ASSUME call.f = "lshift", call.al > 0
        PROVE  LET l == call.n \div W
               IN  /\ Val(out'.d, call.al + l + 1) = Val(call.x, call.al) * 2^call.n
                   /\ out'.c = out'.d[call.al + l]
    <3>1. out' = LShift(call.x, call.al, call.n)
      BY <2>1 DEF Run
    <3>2. RoomForShift(call)
      BY <2>1 DEF Operands
    <3> QED
      BY <2>1, <3>1, <3>2, LShiftCall
  <2>2. ASSUME call.f = "rshift"
        PROVE  Val(out'.d, call.al) = Val(call.x, call.al) \div 2^call.n
    <3>1. out' = RShift(call.x, call.al, call.n)
      BY <2>2 DEF Run
    <3>2. RoomForShift(call)
      BY <2>2 DEF Operands
    <3> QED
      BY <3>1, <3>2, RShiftCall
  <2>3. ASSUME call.f = "u256_shift"
        PROVE  /\ Val(out'.left, 5) = Val(call.ad, 4) * 2^call.n
               /\ Val(out'.right, 4) = Val(call.ad, 4) \div 2^call.n
    <3>1. out' = [left |-> LShiftU256(call.ad, call.n), right |-> RShiftU256(call.ad, call.n)]
      BY <2>3 DEF Run, RunU256
    <3>2. call.ad \in U256s /\ call.n \in 0 .. W - 1
      BY <2>3 DEF Operands
    <3>3. out'.left = LShiftU256(call.ad, call.n) /\ out'.right = RShiftU256(call.ad, call.n)
      BY <3>1
    <3> QED
      BY <3>2, <3>3, U256ShiftCall
  <2> QED
    BY <1>1, <2>1, <2>2, <2>3 DEF ShiftsAreExact, Returned
<1>4. U256IsExact'
  <2>1. ASSUME call.f = "u256"
        PROVE  /\ Val(out'.sum.d, 4) + B^4 * out'.sum.c = Val(call.ad, 4) + Val(call.bd, 4)
               /\ out'.macro = out'.sum
               /\ Val(out'.dif.d, 4) - B^4 * out'.dif.c = Val(call.ad, 4) - Val(call.bd, 4)
               /\ Val(out'.mul, 8) = Val(call.ad, 4) * Val(call.bd, 4)
               /\ Val(out'.mullo, 4) = (Val(call.ad, 4) * Val(call.bd, 4)) % B^4
               /\ Val(out'.sqr, 8) = Val(call.ad, 4) * Val(call.ad, 4)
               /\ Val(out'.sqrlo, 4) = (Val(call.ad, 4) * Val(call.ad, 4)) % B^4
    <3>1. out' = RunU256(call)
      BY <2>1 DEF Run
    <3>2. /\ out'.sum = AddU256(call.ad, call.bd) /\ out'.macro = AddMacro(call.ad, call.bd)
          /\ out'.dif = SubU256(call.ad, call.bd) /\ out'.mul = MulU256(call.ad, call.bd)
          /\ out'.mullo = MulLoU256(call.ad, call.bd) /\ out'.sqr = SqrU256(call.ad)
          /\ out'.sqrlo = SqrLoU256(call.ad)
      BY <2>1, <3>1 DEF RunU256
    <3>3. call.ad \in U256s /\ call.bd \in U256s
      BY <2>1 DEF Operands
    <3> QED
      BY <3>2, <3>3, U256Call
  <2>2. ASSUME call.f = "u256_limb"
        PROVE  /\ Val(out'.sum.d, 4) + B^4 * out'.sum.c = Val(call.ad, 4) + call.b
               /\ Val(out'.dif.d, 4) - B^4 * out'.dif.c = Val(call.ad, 4) - call.b
               /\ Val(out'.mul.d, 4) + B^4 * out'.mul.c = Val(call.ad, 4) * call.b
    <3>1. out' = RunU256(call)
      BY <2>2 DEF Run
    <3>2. /\ out'.sum = AddLimbU256(call.ad, call.b) /\ out'.dif = SubLimbU256(call.ad, call.b)
          /\ out'.mul = MulLimbU256(call.ad, call.b)
      BY <2>2, <3>1 DEF RunU256
    <3>3. call.ad \in U256s /\ call.b \in Limb
      BY <2>2 DEF Operands
    <3> QED
      BY <3>2, <3>3, U256LimbCall
  <2> QED
    BY <1>1, <2>1, <2>2 DEF U256IsExact, Returned
<1> QED
  BY <1>2, <1>3, <1>4

(* A step preserves the invariant. *)
LEMMA NextIInv == IInv /\ [Next]_vars => IInv'
<1> SUFFICES ASSUME IInv, [Next]_vars PROVE IInv'
  OBVIOUS
<1>1. CASE Call
  <2>1. Operands(call')
    BY <1>1, CallOperands
  <2>2. out' = NoOut
    BY <1>1 DEF Call, IInv
  <2>3. ArraysAreExact' /\ ShiftsAreExact' /\ U256IsExact'
    BY <2>2 DEF ArraysAreExact, ShiftsAreExact, U256IsExact, Returned
  <2> QED
    BY <2>1, <2>2, <2>3 DEF IInv
<1>2. CASE Run
  <2>1. ArraysAreExact' /\ ShiftsAreExact' /\ U256IsExact'
    BY <1>2, RunExact DEF IInv
  <2>2. call' = call /\ call # NoCall
    BY <1>2 DEF Run
  <2> QED
    BY <2>1, <2>2 DEF IInv
<1>3. CASE Return
  <2>1. call' = NoCall /\ out' = NoOut /\ call'.f = "none"
    BY <1>3 DEF Return, NoCall
  <2>2. Operands(call')
    BY <2>1 DEF Operands
  <2>3. ArraysAreExact' /\ ShiftsAreExact' /\ U256IsExact'
    BY <2>1 DEF ArraysAreExact, ShiftsAreExact, U256IsExact, Returned
  <2> QED
    BY <2>1, <2>2, <2>3 DEF IInv
<1>4. CASE UNCHANGED vars
  BY <1>4 DEF vars, IInv, ArraysAreExact, ShiftsAreExact, U256IsExact, Returned
<1> QED
  BY <1>1, <1>2, <1>3, <1>4 DEF Next

(* So the invariant always holds. *)
THEOREM LimbOpsInvariant == Spec => []IInv
<1>1. Init => IInv
  BY InitIInv
<1>2. IInv /\ [Next]_vars => IInv'
  BY NextIInv
<1> QED
  BY <1>1, <1>2, PTL DEF Spec

(* The routines of ll_add.c and ll_mul.c, and the comparison of arrays,    *)
(* are exact for limbs of every width and arrays of every length.          *)
THEOREM ArraysExact == Spec => []ArraysAreExact
<1>1. IInv => ArraysAreExact
  BY DEF IInv
<1> QED
  BY <1>1, LimbOpsInvariant, PTL

(* So are the shifts, by any distance.                                     *)
THEOREM ShiftsExact == Spec => []ShiftsAreExact
<1>1. IInv => ShiftsAreExact
  BY DEF IInv
<1> QED
  BY <1>1, LimbOpsInvariant, PTL

(* And the straight-line routines on four limbs, carries included.         *)
THEOREM U256Exact == Spec => []U256IsExact
<1>1. IInv => U256IsExact
  BY DEF IInv
<1> QED
  BY <1>1, LimbOpsInvariant, PTL
------------------------------------------------------------------------------
(***************************************************************************)
(* Single limbs, of the widths that a limb may have: bytes to the 64 bits  *)
(* of the code.  The Newton iteration takes as many steps as 64 bits need, *)
(* and the bit count halves the width until it is one.                     *)
(***************************************************************************)
UsualWidth == WordBits \in {8, 16, 32, 64}

(* The powers of two up to the base, and their products.                   *)
LEMMA WordPowers ==
  /\ \A s \in 0 .. WordBits : 2^s \in Nat \ {0}
  /\ 2^0 = 1 /\ \A s \in 0 .. WordBits - 1 : 2^(s + 1) = 2 * 2^s
  /\ \A s, l \in 0 .. WordBits : s + l <= WordBits => 2^(s + l) = 2^s * 2^l
<1> DEFINE m == WordBits
           T == {s \in 0 .. m : 2^s \in Nat \ {0}}
           S == {l \in 0 .. m : \A s \in 0 .. m : s + l <= m => 2^(s + l) = 2^s * 2^l}
<1>1. m \in Nat
  BY WordBitsAssumption
<1>2. 2^0 = 1 /\ \A s \in 0 .. m - 1 : 2^(s + 1) = 2 * 2^s
  BY PowersAssumption
<1> HIDE DEF m
<1>3. 0 .. m \subseteq T
  <2>1. 0 \in T
    BY <1>1, <1>2
  <2>2. \A s \in 0 .. m - 1 : s \in T => s + 1 \in T
    BY <1>1, <1>2
  <2> HIDE DEF T
  <2> QED
    BY <1>1, <2>1, <2>2, InductionTo
<1>4. \A s \in 0 .. m : 2^s \in Nat \ {0}
  BY <1>3
<1>5. 0 .. m \subseteq S
  <2>1. 0 \in S
    <3>1. \A s \in 0 .. m : s + 0 = s /\ 2^s = 2^s * 1
      BY <1>1, <1>4
    <3> QED
      BY <1>1, <1>2, <3>1
  <2>2. ASSUME NEW l \in 0 .. m - 1, l \in S PROVE l + 1 \in S
    <3> SUFFICES ASSUME NEW s \in 0 .. m, s + (l + 1) <= m
                 PROVE  2^(s + (l + 1)) = 2^s * 2^(l + 1)
      BY <1>1
    <3>1. s + l \in 0 .. m - 1 /\ l \in 0 .. m /\ s + (l + 1) = (s + l) + 1
      BY <1>1
    <3>2. 2^((s + l) + 1) = 2 * 2^(s + l)
      BY <1>2, <3>1
    <3>3. 2^(s + l) = 2^s * 2^l
      BY <1>1, <2>2, <3>1
    <3>4. 2^(l + 1) = 2 * 2^l
      BY <1>2
    <3> DEFINE x == 2^s   y == 2^l
    <3>5. x \in Int /\ y \in Int
      BY <1>4, <3>1
    <3> HIDE DEF x, y
    <3>6. 2 * (x * y) = x * (2 * y)
      BY <3>5
    <3> QED
      BY <3>1, <3>2, <3>3, <3>4, <3>6 DEF x, y
  <2> HIDE DEF S
  <2> QED
    BY <1>1, <2>1, <2>2, InductionTo
<1>6. \A s, l \in 0 .. m : s + l <= m => 2^(s + l) = 2^s * 2^l
  BY <1>5
<1> QED
  BY <1>2, <1>4, <1>6 DEF m

(* A limb splits into halves, and has room for more than sixteen.          *)
LEMMA WordBase ==
  ASSUME UsualWidth
  PROVE  LET H == 2^(WordBits \div 2)
         IN  H \in Nat /\ H >= 2 /\ Word!B = H * H /\ Word!B \in Nat
<1> DEFINE h == WordBits \div 2   H == 2^h
<1>1. h \in 1 .. WordBits /\ h - 1 \in 0 .. WordBits - 1 /\ h + h = WordBits
  BY DEF UsualWidth
<1> HIDE DEF h
<1>2. h \in 0 .. WordBits /\ h + h <= WordBits /\ h - 1 \in 0 .. WordBits /\ (h - 1) + 1 = h
  BY <1>1
<1>3. H \in Nat \ {0} /\ 2^(h - 1) \in Nat \ {0}
  BY <1>2, WordPowers
<1>4. H = 2 * 2^(h - 1)
  <2> DEFINE g == h - 1
  <2>1. g \in 0 .. WordBits - 1 /\ g + 1 = h
    BY <1>1
  <2> HIDE DEF g
  <2>2. 2^(g + 1) = 2 * 2^g
    BY <2>1, WordPowers
  <2> QED
    BY <2>1, <2>2 DEF g
<1>5. 2^WordBits = H * H
  BY <1>1, <1>2, WordPowers
<1> QED
  BY <1>3, <1>4, <1>5 DEF h, Word!B

(* The product of two numbers below H is well below the square of H.       *)
LEMMA HalfProduct ==
  ASSUME NEW H \in Nat, H >= 2, NEW x \in 0 .. H - 1, NEW y \in 0 .. H - 1
  PROVE  x * y \in 0 .. H * H - 2 * H + 1
<1>1. x * y >= 0
  OBVIOUS
<1>2. x * y <= (H - 1) * y
  <2>1. (H - 1 - x) * y >= 0
    OBVIOUS
  <2>2. (H - 1 - x) * y = (H - 1) * y - x * y
    OBVIOUS
  <2> QED
    BY <2>1, <2>2
<1>3. (H - 1) * y <= (H - 1) * (H - 1)
  <2>1. (H - 1) * (H - 1 - y) >= 0
    OBVIOUS
  <2>2. (H - 1) * (H - 1 - y) = (H - 1) * (H - 1) - (H - 1) * y
    OBVIOUS
  <2> QED
    BY <2>1, <2>2
<1>4. (H - 1) * (H - 1) = H * H - 2 * H + 1
  OBVIOUS
<1>5. x * y \in Int /\ (H - 1) * y \in Int /\ (H - 1) * (H - 1) \in Int /\ H * H \in Int
  OBVIOUS
<1> QED
  BY <1>1, <1>2, <1>3, <1>4, <1>5

(* A limb is two halves.                                                   *)
LEMMA Halved ==
  ASSUME NEW H \in Nat, H >= 2, NEW x \in 0 .. H * H - 1
  PROVE  x \div H \in 0 .. H - 1 /\ x % H \in 0 .. H - 1 /\ x = H * (x \div H) + (x % H)
<1> DEFINE q == x \div H
<1>1. q \in Int /\ x % H \in 0 .. H - 1 /\ x = H * q + (x % H)
  BY DivMod
<1>2. q >= 0
  <2>1. x >= 0 /\ H > 0
    OBVIOUS
  <2> QED
    BY <2>1
<1> HIDE DEF q
<1>3. q < H
  <2> SUFFICES ASSUME q >= H PROVE FALSE
    BY <1>1
  <2>1. H * (q - H) >= 0
    BY <1>1
  <2>2. H * (q - H) = H * q - H * H
    BY <1>1
  <2>3. H * q \in Int /\ H * H \in Int
    BY <1>1
  <2> QED
    BY <1>1, <2>1, <2>2, <2>3
<1> QED
  BY <1>1, <1>2, <1>3 DEF q

(* The four products of the halves make up the product.                    *)
LEMMA FourProducts ==
  ASSUME NEW H \in Int, NEW ah \in Int, NEW al \in Int, NEW bh \in Int, NEW bl \in Int
  PROVE  (H * ah + al) * (H * bh + bl)
           = (H * H) * (ah * bh) + H * (ah * bl + al * bh) + al * bl
<1>1. (H * ah + al) * (H * bh + bl)
        = (H * ah) * (H * bh) + (H * ah) * bl + al * (H * bh) + al * bl
  OBVIOUS
<1>2. (H * ah) * (H * bh) = (H * H) * (ah * bh)
  OBVIOUS
<1>3. (H * ah) * bl = H * (ah * bl) /\ al * (H * bh) = H * (al * bh)
  OBVIOUS
<1>4. H * (ah * bl + al * bh) = H * (ah * bl) + H * (al * bh)
  OBVIOUS
<1> QED
  BY <1>1, <1>2, <1>3, <1>4

(* The sums of the middle: a carry of one limb at most, and the halves of  *)
(* the sum belong to different limbs.                                      *)
LEMMA Middle ==
  ASSUME NEW C \in Nat, NEW t \in 0 .. C - 1, NEW u \in 0 .. C - 1
  PROVE  /\ (t + u) % C \in 0 .. C - 1
         /\ t + u = C * (IF (t + u) % C < u THEN 1 ELSE 0) + ((t + u) % C)
<1>1. CASE t + u < C
  <2>1. (t + u) % C = t + u
    BY <1>1
  <2> QED
    BY <1>1, <2>1
<1>2. CASE ~(t + u < C)
  <2>1. t + u = C * 1 + (t + u - C) /\ t + u - C \in 0 .. C - 1 /\ C \in Nat \ {0}
    BY <1>2
  <2>2. (t + u) % C = t + u - C
    <3> DEFINE x == t + u   r == t + u - C
    <3>1. x \in Int /\ r \in 0 .. C - 1 /\ x = C * 1 + r /\ 1 \in Int
      BY <2>1
    <3> HIDE DEF x, r
    <3>2. x % C = r
      BY <2>1, <3>1, DivModIs
    <3> QED
      BY <3>2 DEF x, r
  <2> QED
    BY <1>2, <2>1, <2>2
<1> QED
  BY <1>1, <1>2

(* The limbs that are put together are the product: C times the upper sum  *)
(* and the lower limb.                                                     *)
LEMMA UpperLower ==
  ASSUME NEW H \in Int, NEW C \in Int, C = H * H, NEW p \in Int, NEW q \in Int, NEW u \in Int,
         NEW z \in Int, NEW k \in Int, NEW f \in Int, NEW g \in Int, NEW s \in Int,
         p + q + u = C * k + (H * f + g)
  PROVE  C * (s + k * H + f) + (g * H + z) = C * s + H * (u + p) + (H * q + z)
<1>1. H * (p + q + u) = H * (C * k + (H * f + g))
  OBVIOUS
<1>2. H * (p + q + u) = H * (u + p) + H * q
  OBVIOUS
<1>3. H * (C * k + (H * f + g)) = H * (C * k) + H * (H * f) + g * H
  <2>1. C * k \in Int /\ H * f \in Int
    OBVIOUS
  <2> DEFINE x == C * k   y == H * f
  <2> HIDE DEF x, y
  <2>2. H * (x + (y + g)) = H * x + H * y + g * H
    BY <2>1 DEF x, y
  <2> QED
    BY <2>2 DEF x, y
<1>4. H * (C * k) = C * (k * H) /\ H * (H * f) = C * f
  OBVIOUS
<1>5. C * (s + k * H + f) = C * s + C * (k * H) + C * f
  <2> DEFINE x == k * H
  <2>1. x \in Int
    OBVIOUS
  <2> HIDE DEF x
  <2>2. C * (s + x + f) = C * s + C * x + C * f
    BY <2>1
  <2> QED
    BY <2>2 DEF x
<1> QED
  BY <1>1, <1>2, <1>3, <1>4, <1>5

(* LL_MUL64 is exact.                                                      *)
LEMMA MulWordsIs ==
  ASSUME UsualWidth, NEW a \in Word!Limb, NEW b \in Word!Limb
  PROVE  Word!B * Word!MulWords(a, b).hi + Word!MulWords(a, b).lo = a * b
<1> DEFINE H == 2^(WordBits \div 2)   C == Word!B
           ah == a \div H   al == a % H   bh == b \div H   bl == b % H
           p == al * bh   u == ah * bl   v == al * bl   s == ah * bh
           q == v \div H   z == v % H
           t1 == (p + q + u) % C   f == t1 \div H   g == t1 % H
           k == IF t1 < u THEN 1 ELSE 0
<1>1. H \in Nat /\ H >= 2 /\ C = H * H /\ C \in Nat
  BY WordBase
<1>2. a \in 0 .. C - 1 /\ b \in 0 .. C - 1
  BY DEF Word!Limb
<1>3. /\ Word!MulWords(a, b).hi =
           (s + (IF ((p % C) + q + u) % C < u THEN H ELSE 0)
              + ((((p % C) + q + u) % C) \div H)) % C
      /\ Word!MulWords(a, b).lo = (((((p % C) + q + u) % C) * H) % C) + z
  BY DEF Word!MulWords, Word!Wrap
<1> HIDE DEF H, C
<1>4. /\ ah \in 0 .. H - 1 /\ al \in 0 .. H - 1 /\ bh \in 0 .. H - 1 /\ bl \in 0 .. H - 1
      /\ a = H * ah + al /\ b = H * bh + bl
  BY <1>1, <1>2, Halved
<1> HIDE DEF ah, al, bh, bl
<1> DEFINE n == H * H - 2 * H + 1
<1>5. p \in 0 .. n /\ u \in 0 .. n /\ v \in 0 .. n /\ s \in 0 .. n
  BY <1>1, <1>4, HalfProduct
<1>6. a * b = C * s + H * (u + p) + v
  <2>1. ah \in Int /\ al \in Int /\ bh \in Int /\ bl \in Int /\ H \in Int
    BY <1>1, <1>4
  <2>2. (H * ah + al) * (H * bh + bl) = (H * H) * s + H * (u + p) + v
    BY <2>1, FourProducts
  <2> QED
    BY <1>1, <1>4, <2>2
<1> HIDE DEF p, u, v, s
<1>7. n = C - 2 * H + 1 /\ n \in Int /\ p \in 0 .. C - 1 /\ u \in 0 .. C - 1 /\ v \in 0 .. C - 1
  <2> DEFINE c == H * H
  <2>1. c \in Int /\ c = C
    BY <1>1
  <2>2. n = c - 2 * H + 1
    OBVIOUS
  <2> HIDE DEF c, n
  <2> QED
    BY <1>1, <1>5, <2>1, <2>2
<1> HIDE DEF n
<1>8. q \in 0 .. H - 1 /\ z \in 0 .. H - 1 /\ v = H * q + z
  <2>1. v \in 0 .. H * H - 1
    BY <1>1, <1>7
  <2> QED
    BY <1>1, <2>1, Halved
<1> HIDE DEF q, z
<1>9. p + q \in 0 .. C - 1 /\ p % C = p
  <2>1. p \in Int /\ q \in Int /\ p <= C - 2 * H + 1 /\ q <= H - 1 /\ p >= 0 /\ q >= 0
    BY <1>5, <1>7, <1>8
  <2>2. p % C = p
    BY <1>1, <1>7
  <2> QED
    BY <1>1, <2>1, <2>2
<1>10. t1 \in 0 .. C - 1 /\ p + q + u = C * k + t1
  <2> DEFINE t == p + q
  <2>1. t \in 0 .. C - 1
    BY <1>9
  <2> HIDE DEF t
  <2>2. /\ (t + u) % C \in 0 .. C - 1
        /\ t + u = C * (IF (t + u) % C < u THEN 1 ELSE 0) + ((t + u) % C)
    BY <1>1, <1>7, <2>1, Middle
  <2> QED
    BY <2>2 DEF t, t1, k
<1>11. k \in {0, 1} /\ (IF t1 < u THEN H ELSE 0) = k * H
  BY <1>1
<1> HIDE DEF t1, k
<1>12. f \in 0 .. H - 1 /\ g \in 0 .. H - 1 /\ t1 = H * f + g
  BY <1>1, <1>10, Halved
<1> HIDE DEF f, g
<1>13. (t1 * H) % C = g * H
  <2> DEFINE x == t1 * H   r == g * H
  <2>1. x = C * f + r
    <3>1. f \in Int /\ g \in Int /\ H \in Int
      BY <1>1, <1>12
    <3>2. (H * f + g) * H = (H * H) * f + g * H
      BY <3>1
    <3> QED
      BY <1>1, <1>12, <3>2
  <2>2. r \in 0 .. C - 1
    <3>1. g \in Int /\ H \in Int /\ g >= 0 /\ g <= H - 1
      BY <1>1, <1>12
    <3>2. g * H >= 0
      BY <1>1, <3>1
    <3>3. (H - 1 - g) * H >= 0
      BY <1>1, <3>1
    <3>4. (H - 1 - g) * H = H * H - H - g * H
      BY <3>1
    <3>5. g * H \in Int /\ H * H \in Int
      BY <3>1
    <3> QED
      BY <1>1, <3>2, <3>3, <3>4, <3>5
  <2>3. x \in Int /\ f \in Int /\ C \in Nat \ {0}
    <3>1. C \in Nat \ {0}
      BY <1>7, <1>1
    <3>2. t1 \in Int /\ H \in Int /\ f \in Int
      BY <1>1, <1>10, <1>12
    <3> QED
      BY <3>1, <3>2
  <2> HIDE DEF x, r
  <2>4. x % C = r
    BY <2>1, <2>2, <2>3, DivModIs
  <2> QED
    BY <2>4 DEF x, r
<1> DEFINE w == s + k * H + f
<1>14. C * w + (g * H + z) = a * b
  <2>1. H \in Int /\ C \in Int /\ p \in Int /\ q \in Int /\ u \in Int /\ z \in Int /\ k \in Int
        /\ f \in Int /\ g \in Int /\ s \in Int
    BY <1>1, <1>5, <1>7, <1>8, <1>11, <1>12
  <2>2. C * w + (g * H + z) = C * s + H * (u + p) + (H * q + z)
    BY <1>1, <1>10, <1>12, <2>1, UpperLower
  <2> QED
    BY <1>6, <1>8, <2>2
<1>15. w \in 0 .. C - 1
  <2>1. k * H \in Nat /\ g * H \in Nat /\ w \in Nat
    BY <1>1, <1>5, <1>11, <1>12
  <2>2. a * b <= (C - 1) * (C - 1) /\ a * b \in Nat
    <3>1. a \in Int /\ b \in Int /\ C \in Int /\ a >= 0 /\ b >= 0 /\ a <= C - 1 /\ b <= C - 1
      BY <1>1, <1>2
    <3>2. (C - 1 - a) * b >= 0 /\ (C - 1) * (C - 1 - b) >= 0
      BY <3>1
    <3>3. /\ (C - 1 - a) * b = (C - 1) * b - a * b
          /\ (C - 1) * (C - 1 - b) = (C - 1) * (C - 1) - (C - 1) * b
      BY <3>1
    <3>4. a * b \in Nat /\ (C - 1) * b \in Int /\ (C - 1) * (C - 1) \in Int
      BY <3>1
    <3> QED
      BY <3>2, <3>3, <3>4
  <2> HIDE DEF w
  <2>3. w < C
    <3> SUFFICES ASSUME w >= C PROVE FALSE
      BY <1>1, <2>1
    <3>1. C * (w - C) >= 0
      BY <1>1, <2>1
    <3>2. C * (w - C) = C * w - C * C /\ (C - 1) * (C - 1) = C * C - 2 * C + 1
      BY <1>1, <2>1
    <3>3. C * w \in Int /\ C * C \in Int /\ C >= 1 /\ C \in Int
      BY <1>1, <1>7, <2>1
    <3>4. C * w <= a * b
      BY <1>8, <1>14, <2>1, <2>2, <3>3
    <3> QED
      BY <2>2, <3>1, <3>2, <3>3, <3>4
  <2> QED
    BY <1>1, <2>1, <2>3
<1>16. w % C = w
  <2> HIDE DEF w
  <2> QED
    BY <1>1, <1>15
<1>17. Word!MulWords(a, b).hi = w /\ Word!MulWords(a, b).lo = g * H + z
  <2>1. ((p % C) + q + u) % C = t1
    BY <1>9 DEF t1
  <2>2. Word!MulWords(a, b).hi = (s + (IF t1 < u THEN H ELSE 0) + (t1 \div H)) % C
    BY <1>3, <2>1
  <2>3. Word!MulWords(a, b).lo = ((t1 * H) % C) + z
    BY <1>3, <2>1
  <2> QED
    BY <1>11, <1>13, <1>16, <2>2, <2>3 DEF f
<1> QED
  BY <1>14, <1>17 DEF C

(* x times a is 1 modulo q.                                                *)
Inverse(x, a, q) == \E c \in Int : x * a = q * c + 1

(* A difference by a multiple of q does not matter.                        *)
LEMMA InverseSame ==
  ASSUME NEW x \in Int, NEW a \in Int, NEW q \in Int, NEW e \in Int, Inverse(x, a, q)
  PROVE  Inverse(x - q * e, a, q)
<1>1. PICK c \in Int : x * a = q * c + 1
  BY DEF Inverse
<1>2. (x - q * e) * a = x * a - q * (e * a)
  OBVIOUS
<1>3. q * (c - e * a) = q * c - q * (e * a)
  OBVIOUS
<1>4. c - e * a \in Int /\ x * a \in Int /\ q * c \in Int /\ q * (e * a) \in Int
  OBVIOUS
<1>5. (x - q * e) * a = q * (c - e * a) + 1
  BY <1>1, <1>2, <1>3, <1>4
<1> QED
  BY <1>4, <1>5 DEF Inverse

(* The first approximation is an inverse of every odd number modulo 16.    *)
LEMMA SeedInverse ==
  ASSUME NEW a \in Nat, a % 2 = 1
  PROVE  Inverse(IF ((a + 2) \div 4) % 2 = 1 THEN 8 + a ELSE a, a, 16)
<1> DEFINE u == a \div 16   r == a % 16
           d == IF r \in {3, 5, 11, 13} THEN 8 ELSE 0
           x == IF ((a + 2) \div 4) % 2 = 1 THEN 8 + a ELSE a
<1>1. u \in Int /\ r \in 0 .. 15 /\ a = 16 * u + r
  BY DivMod
<1> HIDE DEF u, r
<1>2. r \in {1, 3, 5, 7, 9, 11, 13, 15}
  BY <1>1
<1>3. x = a + d
  BY <1>1, <1>2
<1> HIDE DEF x
<1>4. PICK j \in 0 .. 20 : (r + d) * r = 16 * j + 1
  <2>1. CASE r = 1   BY <2>1
  <2>2. CASE r = 3   BY <2>2
  <2>3. CASE r = 5   BY <2>3
  <2>4. CASE r = 7   BY <2>4
  <2>5. CASE r = 9   BY <2>5
  <2>6. CASE r = 11  BY <2>6
  <2>7. CASE r = 13  BY <2>7
  <2>8. CASE r = 15  BY <2>8
  <2> QED
    BY <1>2, <2>1, <2>2, <2>3, <2>4, <2>5, <2>6, <2>7, <2>8
<1>5. d \in Int
  OBVIOUS
<1> HIDE DEF d
<1>6. (16 * u + r + d) * (16 * u + r)
        = 16 * (u * (16 * u + r) + (r + d) * u) + (r + d) * r
  <2> DEFINE s == r + d
  <2>1. s \in Int /\ r \in Int
    BY <1>1, <1>5
  <2> HIDE DEF s
  <2>2. (16 * u + s) * (16 * u + r) = 16 * (u * (16 * u + r) + s * u) + s * r
    BY <1>1, <2>1
  <2>3. 16 * u + r + d = 16 * u + s
    BY <1>1, <1>5 DEF s
  <2> QED
    BY <2>2, <2>3 DEF s
<1> DEFINE k == u * (16 * u + r) + (r + d) * u
<1>7. k \in Int
  BY <1>1, <1>5
<1>8. x * a = 16 * k + (16 * j + 1)
  BY <1>1, <1>3, <1>4, <1>6
<1> HIDE DEF k
<1>9. x * a = 16 * (k + j) + 1 /\ k + j \in Int
  BY <1>7, <1>8
<1> QED
  BY <1>9 DEF Inverse, x

(* One step of Newton's iteration, in limbs, doubles the bits that are     *)
(* right: q is their weight, q2 the weight after the step.                 *)
LEMMA NewtonIs ==
  ASSUME UsualWidth, NEW x \in Int, NEW a \in Int, NEW q \in Int,
         NEW q2 \in Int, NEW l \in Int, NEW j \in Int,
         q * q = q2 * l, Word!B = q2 * j, Inverse(x, a, q)
  PROVE  Word!NewtonStep(x, a) \in Int /\ Inverse(Word!NewtonStep(x, a), a, q2)
<1> DEFINE C == Word!B   t == x * a   z == 2 - t   d == z \div C   y == x * (z % C)
           e == y \div C
<1>1. PICK c \in Int : t = q * c + 1
  BY DEF Inverse
<1>2. Word!NewtonStep(x, a) = y % C
  BY DEF Word!NewtonStep, Word!Wrap
<1>3. C \in Nat \ {0}
  <2>1. C \in Nat /\ C = 2^(WordBits \div 2) * 2^(WordBits \div 2) /\ 2^(WordBits \div 2) >= 2
        /\ 2^(WordBits \div 2) \in Nat
    BY WordBase
  <2> DEFINE H == 2^(WordBits \div 2)
  <2> HIDE DEF H, C
  <2>2. H * H # 0
    BY <2>1 DEF H
  <2> QED
    BY <2>1, <2>2 DEF H
<1>4. C = q2 * j
  OBVIOUS
<1> HIDE DEF C
<1>5. t \in Int /\ z \in Int
  OBVIOUS
<1> HIDE DEF t, z
<1>6. d \in Int /\ z % C \in 0 .. C - 1 /\ z = C * d + (z % C)
  BY <1>3, <1>5, DivMod
<1>7. y \in Int
  BY <1>6
<1> HIDE DEF d, y
<1>8. e \in Int /\ y % C \in 0 .. C - 1 /\ y = C * e + (y % C)
  BY <1>3, <1>7, DivMod
<1> HIDE DEF e
<1>9. y = x * z - q2 * (j * (x * d))
  <2>1. z % C \in Int /\ z % C = z - C * d /\ C \in Int
    BY <1>3, <1>5, <1>6
  <2>2. x * (z - C * d) = x * z - C * (x * d)
    BY <1>5, <1>6, <2>1
  <2>3. (q2 * j) * (x * d) = q2 * (j * (x * d))
    BY <1>6
  <2> QED
    BY <1>4, <2>1, <2>2, <2>3 DEF y
<1>10. Inverse(x * z, a, q2)
  <2>1. (x * z) * a = t * z
    BY <1>5 DEF t
  <2>2. t * z = 1 - (q * c) * (q * c)
    <3>1. q * c \in Int
      OBVIOUS
    <3> DEFINE g == q * c
    <3> HIDE DEF g
    <3>2. (g + 1) * (2 - (g + 1)) = 1 - g * g
      BY <3>1 DEF g
    <3> QED
      BY <1>1, <3>2 DEF g, z
  <2>3. (q * c) * (q * c) = (q * q) * (c * c)
    OBVIOUS
  <2>4. (q2 * l) * (c * c) = q2 * (l * (c * c))
    OBVIOUS
  <2> DEFINE g == l * (c * c)
  <2>5. g \in Int
    OBVIOUS
  <2> HIDE DEF g
  <2>6. 1 - q2 * g = q2 * (-g) + 1 /\ -g \in Int
    BY <2>5
  <2> QED
    BY <2>1, <2>2, <2>3, <2>4, <2>6 DEF Inverse, g
<1>11. Inverse(y, a, q2)
  <2> DEFINE g == j * (x * d)   w == x * z
  <2>1. g \in Int /\ w \in Int
    BY <1>5, <1>6
  <2> HIDE DEF g, w
  <2>2. Inverse(w, a, q2)
    BY <1>10 DEF w
  <2>3. Inverse(w - q2 * g, a, q2)
    BY <2>1, <2>2, InverseSame
  <2> QED
    BY <1>9, <2>3 DEF g, w
<1>12. Inverse(y - q2 * (j * e), a, q2) /\ j * e \in Int
  <2> DEFINE g == j * e
  <2>1. g \in Int
    BY <1>8
  <2> HIDE DEF g
  <2>2. Inverse(y - q2 * g, a, q2)
    BY <1>7, <1>11, <2>1, InverseSame
  <2> QED
    BY <2>1, <2>2 DEF g
<1>13. y % C = y - q2 * (j * e)
  <2>1. (q2 * j) * e = q2 * (j * e) /\ q2 * (j * e) \in Int
    BY <1>8
  <2> DEFINE g == C * e   r == y % C
  <2>2. r \in Int /\ g \in Int /\ y = g + r
    BY <1>3, <1>8
  <2>3. g = q2 * (j * e)
    BY <1>4, <2>1
  <2> HIDE DEF g, r
  <2>4. r = y - g
    BY <1>7, <2>2
  <2> QED
    BY <2>3, <2>4 DEF r
<1> QED
  <2>1. y % C \in Int
    BY <1>8
  <2> QED
    BY <1>2, <1>12, <1>13, <2>1

(* The approximations, from the seed on.                                   *)
LEMMA NewtonFunction ==
  ASSUME UsualWidth, NEW a \in Nat
  PROVE  \E v \in [0 .. 4 -> Int] :
           /\ Word!InvertLimb(a) = (-v[4]) % Word!B
           /\ v[0] = Word!InvertSeed(a)
           /\ \A k \in 1 .. 4 : v[k] = Word!NewtonStep(v[k - 1], a)
<1> DEFINE c == Word!InvertSeed(a)
           Body(v) == [k \in 0 .. 4 |-> IF k = 0 THEN c ELSE Word!NewtonStep(v[k - 1], a)]
           P == CHOOSE v : v = Body(v)
           G == [k \in 1 .. 4 |-> [p \in Int |-> Word!NewtonStep(p, a)]]
           C == Word!B
<1>1. Word!InvertLimb(a) = (-P[4]) % C
  BY DEF Word!InvertLimb, Word!Wrap
<1>2. C \in Nat \ {0}
  <2> DEFINE H == 2^(WordBits \div 2)
  <2>1. H \in Nat /\ H >= 2 /\ C = H * H
    BY WordBase
  <2> HIDE DEF H, C
  <2> QED
    BY <2>1
<1>3. c \in Int
  <2>1. \A x \in Int : x % C \in Int
    BY <1>2
  <2> QED
    BY <2>1 DEF Word!InvertSeed, Word!Wrap
<1>4. \A p \in Int : Word!NewtonStep(p, a) \in Int
  <2>1. \A x \in Int : x % C \in Int
    BY <1>2
  <2> HIDE DEF C
  <2> QED
    BY <2>1 DEF Word!NewtonStep, Word!Wrap, C
<1> HIDE DEF c, C
<1>5. \A k \in 1 .. 4, p \in Int : G[k][p] = Word!NewtonStep(p, a) /\ G[k][p] \in Int
  BY <1>4
<1>6. PICK g \in [0 .. 4 -> Int] : Follows(g, 4, c, G)
  <2> DEFINE n == 4   S == Int
  <2>1. Steps(n, S, c, G) /\ n \in Nat
    BY <1>3, <1>5 DEF Steps
  <2> HIDE DEF G, n, S
  <2>2. \E g \in [0 .. n -> S] : Follows(g, n, c, G)
    BY <2>1, Recursion
  <2> QED
    BY <2>2 DEF n, S
<1>7. \A k \in 1 .. 4 : g[k - 1] \in Int
  OBVIOUS
<1>8. g = Body(g)
  <2> HIDE DEF G
  <2> QED
    BY <1>5, <1>6, <1>7 DEF Follows
<1>9. P = Body(P)
  <2> HIDE DEF Body
  <2> QED
    BY <1>8
<1>10. P[0] = c /\ \A k \in 1 .. 4 : P[k] = Word!NewtonStep(P[k - 1], a)
  <2> HIDE DEF P
  <2> QED
    BY <1>9
<1>11. P \in [0 .. 4 -> Int]
  <2> HIDE DEF P
  <2>1. P[0] \in Int /\ P[1] = Word!NewtonStep(P[0], a) /\ P[2] = Word!NewtonStep(P[1], a)
        /\ P[3] = Word!NewtonStep(P[2], a) /\ P[4] = Word!NewtonStep(P[3], a)
    BY <1>3, <1>10
  <2>2. P[1] \in Int /\ P[2] \in Int /\ P[3] \in Int /\ P[4] \in Int
    BY <1>4, <2>1
  <2>3. \A k \in 0 .. 4 : P[k] \in Int
    BY <2>1, <2>2
  <2> QED
    BY <1>9, <2>3
<1> QED
  <2> HIDE DEF P
  <2> QED
    BY <1>1, <1>10, <1>11 DEF c, C

(* Right in s bits before the step, right in 2 * s bits or all of them     *)
(* after it.                                                               *)
LEMMA NewtonDoubles ==
  ASSUME UsualWidth, NEW x \in Int, NEW a \in Int, NEW s \in 0 .. WordBits, Inverse(x, a, 2^s)
  PROVE  /\ s + s <= WordBits => Inverse(Word!NewtonStep(x, a), a, 2^(s + s))
         /\ s = WordBits => Inverse(Word!NewtonStep(x, a), a, 2^s)
<1>1. WordBits \in Nat /\ 2^s \in Nat
  BY WordPowers DEF UsualWidth
<1>2. CASE s + s <= WordBits
  <2> DEFINE d == s + s   f == WordBits - d   q == 2^s   q2 == 2^d   j == 2^f   o == 1
  <2>1. d \in 0 .. WordBits /\ f \in 0 .. WordBits /\ d + f = WordBits
    BY <1>1, <1>2
  <2>2. q2 = q * q
    BY <1>2, WordPowers
  <2> HIDE DEF d, f
  <2>3. 2^(d + f) = q2 * j /\ q2 \in Int /\ j \in Int
    <3>1. d + f <= WordBits
      BY <1>1, <2>1
    <3> QED
      BY <2>1, <3>1, WordPowers
  <2>4. Word!B = q2 * j
    BY <2>1, <2>3 DEF Word!B
  <2> HIDE DEF q, q2, j, o
  <2>5. q \in Int /\ o \in Int /\ q * q = q2 * o /\ Inverse(x, a, q)
    BY <1>1, <2>2, <2>3 DEF q, o
  <2>6. Inverse(Word!NewtonStep(x, a), a, q2)
    BY <2>3, <2>4, <2>5, NewtonIs
  <2>7. s + s <= WordBits => Inverse(Word!NewtonStep(x, a), a, 2^(s + s))
    BY <2>6 DEF q2, d
  <2>8. s # WordBits
    BY <1>2 DEF UsualWidth
  <2> QED
    BY <2>7, <2>8
<1>3. CASE s = WordBits
  <2> DEFINE q == 2^s   o == 1
  <2>1. Word!B = q
    BY <1>3 DEF Word!B
  <2>2. q \in Int /\ o \in Int /\ Inverse(x, a, q)
    BY <1>1
  <2> HIDE DEF q, o
  <2>3. Word!B = q * o
    BY <2>1, <2>2 DEF o
  <2>4. q * q = q * q
    OBVIOUS
  <2>5. Inverse(Word!NewtonStep(x, a), a, q)
    BY <2>2, <2>3, <2>4, NewtonIs
  <2>6. ~(s + s <= WordBits)
    BY <1>3 DEF UsualWidth
  <2> QED
    BY <2>5, <2>6 DEF q
<1> QED
  BY <1>2, <1>3

(* ll_invert_limb returns minus the inverse of an odd limb: four steps are *)
(* enough for up to 64 bits.                                               *)
LEMMA InvertLimbIs ==
  ASSUME UsualWidth, NEW a \in Word!Limb, a % 2 = 1
  PROVE  (a * Word!InvertLimb(a) + 1) % Word!B = 0
<1> DEFINE C == Word!B
           P(x, s) == x \in Int /\ Inverse(x, a, 2^s)
<1>1. C \in Nat \ {0} /\ a \in Nat
  <2> DEFINE H == 2^(WordBits \div 2)
  <2>1. H \in Nat /\ H >= 2 /\ C = H * H
    BY WordBase
  <2>2. a \in 0 .. C - 1
    BY DEF Word!Limb
  <2> HIDE DEF H, C
  <2> QED
    BY <2>1, <2>2
<1>2. PICK v \in [0 .. 4 -> Int] :
        /\ Word!InvertLimb(a) = (-v[4]) % C
        /\ v[0] = Word!InvertSeed(a)
        /\ \A k \in 1 .. 4 : v[k] = Word!NewtonStep(v[k - 1], a)
  BY <1>1, NewtonFunction
<1>3. P(v[0], 4)
  <2> DEFINE x == IF ((a + 2) \div 4) % 2 = 1 THEN 8 + a ELSE a
             f == WordBits - 4   e == x \div C
  <2>1. Inverse(x, a, 16) /\ x \in Int
    BY <1>1, SeedInverse
  <2>2. v[0] = x % C
    BY <1>2 DEF Word!InvertSeed, Word!Wrap
  <2> HIDE DEF x
  <2>3. f \in 0 .. WordBits /\ 4 \in 0 .. WordBits /\ 4 + f = WordBits /\ 4 + f <= WordBits
    BY DEF UsualWidth
  <2> HIDE DEF f
  <2>4. 2^(4 + f) = 2^4 * 2^f /\ 2^f \in Int
    BY <2>3, WordPowers
  <2>5. C = 16 * 2^f
    BY <2>3, <2>4 DEF Word!B
  <2> HIDE DEF C
  <2>6. e \in Int /\ x % C = x - C * e
    <3> DEFINE r == x % C   d == C * e
    <3>1. e \in Int /\ r \in 0 .. C - 1 /\ x = C * e + r
      BY <1>1, <2>1, DivMod
    <3>2. d \in Int /\ r \in Int
      BY <1>1, <3>1
    <3> HIDE DEF r, e
    <3>3. x = d + r
      BY <3>1
    <3> HIDE DEF d
    <3>4. r = x - d
      BY <2>1, <3>2, <3>3
    <3> QED
      BY <3>1, <3>4 DEF r, d
  <2> HIDE DEF e
  <2> DEFINE j == 2^f   h == 16   g == j * e
  <2>7. g \in Int /\ h \in Int /\ a \in Int
    BY <1>1, <2>4, <2>6
  <2>8. C * e = h * g
    BY <2>4, <2>5, <2>6
  <2>9. Inverse(x, a, h)
    BY <2>1
  <2> HIDE DEF g, h
  <2>10. Inverse(x - h * g, a, h)
    BY <2>1, <2>7, <2>9, InverseSame
  <2>11. Inverse(v[0], a, h)
    BY <2>2, <2>6, <2>8, <2>10
  <2>12. h = 2^4
    BY DEF h
  <2> QED
    BY <2>11, <2>12
<1>4. /\ v[0] \in Int /\ v[1] \in Int /\ v[2] \in Int /\ v[3] \in Int /\ v[4] \in Int
      /\ v[1] = Word!NewtonStep(v[0], a) /\ v[2] = Word!NewtonStep(v[1], a)
      /\ v[3] = Word!NewtonStep(v[2], a) /\ v[4] = Word!NewtonStep(v[3], a)
  BY <1>2
<1>5. \A x \in Int, s \in 0 .. WordBits :
        Inverse(x, a, 2^s) =>
          /\ \A d \in Nat : d = s + s /\ d <= WordBits => Inverse(Word!NewtonStep(x, a), a, 2^d)
          /\ s = WordBits => Inverse(Word!NewtonStep(x, a), a, 2^s)
  BY <1>1, NewtonDoubles
<1> HIDE DEF C
<1>6. Inverse(v[4], a, 2^WordBits)
  <2>1. Inverse(v[1], a, 2^8)
    <3>1. 4 \in 0 .. WordBits /\ 8 \in Nat /\ 8 = 4 + 4 /\ 8 <= WordBits
      BY DEF UsualWidth
    <3> QED
      BY <1>3, <1>4, <1>5, <3>1
  <2>2. WordBits = 8 \/ Inverse(v[2], a, 2^16)
    <3> SUFFICES ASSUME WordBits # 8 PROVE Inverse(v[2], a, 2^16)
      OBVIOUS
    <3>1. 8 \in 0 .. WordBits /\ 16 \in Nat /\ 16 = 8 + 8 /\ 16 <= WordBits
      BY DEF UsualWidth
    <3> QED
      BY <2>1, <1>4, <1>5, <3>1
  <2>3. WordBits \in {8, 16} \/ Inverse(v[3], a, 2^32)
    <3> SUFFICES ASSUME WordBits \notin {8, 16} PROVE Inverse(v[3], a, 2^32)
      OBVIOUS
    <3>1. 16 \in 0 .. WordBits /\ 32 \in Nat /\ 32 = 16 + 16 /\ 32 <= WordBits
      BY DEF UsualWidth
    <3> QED
      BY <2>2, <1>4, <1>5, <3>1
  <2>4. CASE WordBits = 64
    <3>1. /\ 32 \in 0 .. WordBits /\ WordBits \in Nat
          /\ WordBits = 32 + 32 /\ WordBits <= WordBits
      BY <2>4
    <3>2. Inverse(v[3], a, 2^32)
      BY <2>3, <2>4
    <3> QED
      BY <3>2, <1>4, <1>5, <3>1
  <2>5. CASE WordBits = 32
    <3>1. WordBits \in 0 .. WordBits
      BY <2>5
    <3> QED
      BY <2>3, <2>5, <1>4, <1>5, <3>1
  <2>6. CASE WordBits = 16
    <3>1. WordBits \in 0 .. WordBits
      BY <2>6
    <3>2. Inverse(v[3], a, 2^WordBits)
      BY <2>2, <2>6, <1>4, <1>5, <3>1
    <3> QED
      BY <3>2, <1>4, <1>5, <3>1
  <2>7. CASE WordBits = 8
    <3>1. WordBits \in 0 .. WordBits
      BY <2>7
    <3>2. Inverse(v[2], a, 2^WordBits)
      BY <2>1, <2>7, <1>4, <1>5, <3>1
    <3>3. Inverse(v[3], a, 2^WordBits)
      BY <3>2, <1>4, <1>5, <3>1
    <3> QED
      BY <3>3, <1>4, <1>5, <3>1
  <2> QED
    BY <2>4, <2>5, <2>6, <2>7 DEF UsualWidth
<1>7. PICK c \in Int : v[4] * a = C * c + 1
  BY <1>6 DEF Inverse, Word!B, C
<1> DEFINE y == v[4]   w == -y   e == w \div C   z == w % C
<1>8. e \in Int /\ z \in Int /\ w = C * e + z /\ y \in Int
  <2>1. w \in Int /\ y \in Int
    BY <1>4
  <2> HIDE DEF w, y
  <2> QED
    BY <1>1, <2>1, DivMod
<1> HIDE DEF e, z, y
<1>9. a * z + 1 = C * (-(c + a * e))
  <2>1. z = (-y) - C * e
    BY <1>1, <1>8
  <2>2. a * ((-y) - C * e) = -(y * a) - C * (a * e)
    BY <1>1, <1>8
  <2>3. C * (-(c + a * e)) = -(C * c) - C * (a * e)
    BY <1>1, <1>8
  <2>4. y * a = C * c + 1 /\ C * c \in Int /\ C * (a * e) \in Int
    BY <1>1, <1>7, <1>8 DEF y
  <2> QED
    BY <2>1, <2>2, <2>3, <2>4
<1>10. (a * z + 1) % C = 0
  <2> DEFINE x == a * z + 1   k == -(c + a * e)
  <2>1. x \in Int /\ k \in Int /\ 0 \in 0 .. C - 1
    BY <1>1, <1>8
  <2>2. x = C * k + 0
    BY <1>1, <1>9, <2>1
  <2> HIDE DEF x, k
  <2>3. x % C = 0
    BY <1>1, <2>1, <2>2, DivModIs
  <2> QED
    BY <2>3 DEF x
<1> QED
  BY <1>2, <1>10 DEF z, y, C

(* A function whose values follow from those at half the argument.         *)
FollowsHalf(g, n, c, G) == g[0] = c /\ \A k \in 1 .. n : g[k] = G[k][g[k \div 2]]

(* It exists: half an argument is a smaller one.                           *)
LEMMA HalvingRecursion ==
  ASSUME NEW n \in Nat, NEW S, NEW c, NEW G, Steps(n, S, c, G)
  PROVE  \E g \in [0 .. n -> S] : FollowsHalf(g, n, c, G)
<1> USE DEF Steps, FollowsHalf
<1> DEFINE Halves(g, m) == g[0] = c /\ \A k \in 1 .. m : g[k] = G[k][g[k \div 2]]
           T == {m \in Nat : m <= n => \E g \in [0 .. m -> S] : Halves(g, m)}
<1>1. 0 \in T
  <2> DEFINE g == [k \in 0 .. 0 |-> c]
  <2>1. g \in [0 .. 0 -> S] /\ Halves(g, 0)
    OBVIOUS
  <2> QED
    BY <2>1
<1>2. \A k \in Nat : k \div 2 \in Nat /\ (k > 0 => k \div 2 < k)
  OBVIOUS
<1>3. ASSUME NEW m \in Nat, m \in T PROVE m + 1 \in T
  <2> SUFFICES ASSUME m + 1 <= n PROVE \E g \in [0 .. m + 1 -> S] : Halves(g, m + 1)
    OBVIOUS
  <2>1. PICK g \in [0 .. m -> S] : Halves(g, m)
    BY <1>3
  <2> DEFINE j == (m + 1) \div 2
             h == [k \in 0 .. m + 1 |-> IF k = m + 1 THEN G[m + 1][g[j]] ELSE g[k]]
  <2>2. j \in 0 .. m
    BY <1>2
  <2>3. G[m + 1][g[j]] \in S
    BY <2>1, <2>2
  <2> HIDE DEF j
  <2>4. h \in [0 .. m + 1 -> S]
    BY <2>3
  <2>5. h[0] = c
    BY <2>1
  <2>6. ASSUME NEW k \in 1 .. m + 1 PROVE h[k] = G[k][h[k \div 2]]
    <3>1. CASE k = m + 1
      <4>1. h[j] = g[j] /\ k \div 2 = j
        BY <2>2, <3>1 DEF j
      <4>2. h[k] = G[m + 1][g[j]]
        BY <3>1
      <4> HIDE DEF h
      <4> QED
        BY <3>1, <4>1, <4>2
    <3>2. CASE k \in 1 .. m
      <4> DEFINE i == k \div 2
      <4>1. i \in 0 .. m
        BY <1>2, <3>2
      <4>2. g[k] = G[k][g[i]]
        BY <2>1, <3>2
      <4> HIDE DEF i
      <4>3. h[k] = g[k] /\ h[i] = g[i]
        BY <3>2, <4>1
      <4> HIDE DEF h
      <4>4. h[k] = G[k][h[i]]
        BY <4>2, <4>3
      <4> QED
        BY <4>4 DEF i
    <3> QED
      BY <3>1, <3>2
  <2> HIDE DEF h
  <2> QED
    BY <2>4, <2>5, <2>6
<1>4. Nat \subseteq T
  <2> HIDE DEF T
  <2> QED
    BY <1>1, <1>3, Induction
<1> QED
  BY <1>4

(* The counts of ll_num_bits for numbers below the base: nothing above the *)
(* s bits that are looked at is counted unless it is there.                *)
LEMMA NumBitsFunction ==
  ASSUME UsualWidth
  PROVE  \E n :
           /\ \A a : Word!NumBits(a, WordBits) = n[WordBits \div 2][a]
           /\ \A x \in Word!Limb : n[0][x] = IF x # 0 THEN 1 ELSE 0
           /\ \A s \in 1 .. WordBits, x \in Word!Limb :
                n[s][x] = IF x \div 2^s # 0 THEN s + n[s \div 2][x \div 2^s]
                          ELSE n[s \div 2][x]
<1> DEFINE m == WordBits
           X == 0 .. 2^m - 1
           S == [X -> Nat]
           c == [x \in X |-> IF x # 0 THEN 1 ELSE 0]
           G == [s \in 1 .. m |-> [p \in S |->
                   [x \in X |-> IF x \div 2^s # 0 THEN s + p[x \div 2^s] ELSE p[x]]]]
           Body(n) == [s \in 0 .. m |->
             [x \in X |->
                IF s = 0 THEN Word!Bit(x # 0)
                ELSE IF x \div 2^s # 0 THEN s + n[s \div 2][x \div 2^s] ELSE n[s \div 2][x]]]
           P == CHOOSE n : n = Body(n)
<1>1. \A a : Word!NumBits(a, m) = P[m \div 2][a]
  BY DEF Word!NumBits
<1>2. m \in Nat
  BY DEF UsualWidth
<1>3. ASSUME NEW s \in 0 .. m, NEW x \in X PROVE x \div 2^s \in X
  <2> DEFINE p == 2^s   q == x \div p
  <2>1. p \in Nat \ {0} /\ x \in Nat
    BY <1>2, WordPowers
  <2> HIDE DEF p
  <2>2. q \in Nat /\ q <= x
    BY <2>1
  <2>3. 2^m \in Nat
    BY <1>2, WordPowers
  <2> HIDE DEF q, m
  <2>4. q \in X
    BY <2>2, <2>3
  <2> QED
    BY <2>4 DEF p, q
<1>4. \A s \in 1 .. m, p \in S :
        G[s][p] = [x \in X |-> IF x \div 2^s # 0 THEN s + p[x \div 2^s] ELSE p[x]]
  OBVIOUS
<1>5. \A s \in 1 .. m : \A p \in S : G[s][p] \in S
  <2> SUFFICES ASSUME NEW s \in 1 .. m, NEW p \in S PROVE G[s][p] \in S
    OBVIOUS
  <2>1. \A x \in X : x \div 2^s \in X
    BY <1>2, <1>3
  <2>2. s \in Nat
    BY <1>2
  <2> HIDE DEF m, X, G
  <2>3. \A x \in X : (IF x \div 2^s # 0 THEN s + p[x \div 2^s] ELSE p[x]) \in Nat
    BY <2>1, <2>2
  <2>4. G[s][p] = [x \in X |-> IF x \div 2^s # 0 THEN s + p[x \div 2^s] ELSE p[x]]
    BY <1>4
  <2> QED
    BY <2>3, <2>4
<1>6. c \in S
  OBVIOUS
<1>7. PICK g \in [0 .. m -> S] : g[0] = c /\ \A s \in 1 .. m : g[s] = G[s][g[s \div 2]]
  <2> HIDE DEF m, S, c, G
  <2>1. Steps(m, S, c, G)
    BY <1>5, <1>6 DEF Steps
  <2>2. \E g \in [0 .. m -> S] : FollowsHalf(g, m, c, G)
    BY <1>2, <2>1, HalvingRecursion
  <2> QED
    BY <2>2 DEF FollowsHalf
<1>8. \A s \in 1 .. m : s \div 2 \in 0 .. m
  BY <1>2
<1>9. g = Body(g)
  <2>1. ASSUME NEW s \in 0 .. m PROVE g[s] = Body(g)[s]
    <3>1. CASE s = 0
      <4>1. g[s] = c
        BY <1>7, <3>1
      <4>2. Body(g)[s] = [x \in X |-> Word!Bit(x # 0)]
        BY <3>1
      <4> QED
        BY <4>1, <4>2 DEF Word!Bit
    <3>2. CASE s \in 1 .. m
      <4> DEFINE p == g[s \div 2]
      <4>1. p \in S
        <5> HIDE DEF S, m
        <5> QED
          BY <1>7, <1>8, <3>2
      <4>2. g[s] = G[s][p]
        BY <1>7, <3>2
      <4> HIDE DEF p, S, X
      <4>3. g[s] = [x \in X |-> IF x \div 2^s # 0 THEN s + p[x \div 2^s] ELSE p[x]]
        <5> HIDE DEF G
        <5> QED
          BY <1>4, <3>2, <4>1, <4>2
      <4>4. s # 0
        BY <3>2
      <4>5. Body(g)[s] = [x \in X |-> IF x \div 2^s # 0 THEN s + p[x \div 2^s] ELSE p[x]]
        BY <4>4 DEF p
      <4> QED
        BY <4>3, <4>5
    <3> QED
      BY <1>2, <3>1, <3>2
  <2>2. g = [s \in 0 .. m |-> g[s]]
    OBVIOUS
  <2>3. Body(g) = [s \in 0 .. m |-> Body(g)[s]]
    OBVIOUS
  <2> HIDE DEF Body, m, S
  <2> QED
    BY <2>1, <2>2, <2>3
<1>10. P = Body(P)
  <2> HIDE DEF Body
  <2> QED
    BY <1>9
<1>11. \A x \in Word!Limb : P[0][x] = IF x # 0 THEN 1 ELSE 0
  <2> HIDE DEF P
  <2>1. \A x \in X : P[0][x] = Word!Bit(x # 0)
    BY <1>2, <1>10
  <2> QED
    BY <2>1 DEF Word!Limb, Word!B, Word!Bit
<1>12. \A s \in 1 .. m, x \in Word!Limb :
         P[s][x] = IF x \div 2^s # 0 THEN s + P[s \div 2][x \div 2^s] ELSE P[s \div 2][x]
  <2> HIDE DEF P
  <2> SUFFICES ASSUME NEW s \in 1 .. m, NEW x \in X
               PROVE  P[s][x] = IF x \div 2^s # 0 THEN s + P[s \div 2][x \div 2^s]
                                ELSE P[s \div 2][x]
    BY DEF Word!Limb, Word!B
  <2>1. s \in 0 .. m /\ s # 0
    BY <1>2
  <2> HIDE DEF X, m
  <2> QED
    BY <1>10, <2>1
<1> QED
  <2> HIDE DEF P, Body
  <2> QED
    BY <1>1, <1>11, <1>12

(* b bits hold x and fewer do not.                                         *)
BitsOf(b, x) == b \in 0 .. WordBits /\ x < 2^b /\ (b > 0 => x >= 2^(b - 1))

(* Quotient and remainder of a natural number.                             *)
LEMMA Cut ==
  ASSUME NEW x \in Nat, NEW p \in Nat \ {0}
  PROVE  x \div p \in Nat /\ x % p \in 0 .. p - 1 /\ x = p * (x \div p) + (x % p)
<1>1. x \div p \in Int /\ x % p \in 0 .. p - 1 /\ x = p * (x \div p) + (x % p)
  BY DivMod
<1>2. x \div p >= 0
  OBVIOUS
<1> QED
  BY <1>1, <1>2

(* x and, counted with half as many steps, x or its upper part.            *)
LEMMA BitsAbove ==
  ASSUME UsualWidth, NEW s \in 1 .. WordBits, NEW x \in Nat, NEW b \in Nat,
         s + b <= WordBits, x \div 2^s # 0, BitsOf(b, x \div 2^s)
  PROVE  BitsOf(s + b, x)
<1> DEFINE p == 2^s   y == x \div p   r == x % p
<1>1. WordBits \in Nat
  BY DEF UsualWidth
<1>2. p \in Nat \ {0}
  BY <1>1, WordPowers
<1>3. y \in Nat /\ r \in 0 .. p - 1 /\ x = p * y + r /\ y # 0 /\ BitsOf(b, y)
  <2>1. y # 0 /\ BitsOf(b, y)
    OBVIOUS
  <2> HIDE DEF p
  <2> QED
    BY <1>2, <2>1, Cut
<1>4. s \in 0 .. WordBits /\ b \in 0 .. WordBits
  BY <1>1
<1> HIDE DEF y, r, p
<1>5. b > 0
  <2> SUFFICES ASSUME b = 0 PROVE FALSE
    OBVIOUS
  <2>1. y < 2^0
    BY <1>3 DEF BitsOf
  <2> QED
    BY <1>3, <2>1, WordPowers
<1> DEFINE c == b - 1   f == 2^b   h == 2^c
<1>6. c \in 0 .. WordBits /\ s + c <= WordBits /\ (s + b) - 1 = s + c /\ c + 1 = b
  BY <1>1, <1>4, <1>5
<1>7. y < f /\ y >= h
  BY <1>3, <1>5 DEF BitsOf
<1> HIDE DEF c
<1>8. f \in Nat /\ h \in Nat
  BY <1>4, <1>6, WordPowers
<1>9. 2^(s + b) = p * f /\ 2^(s + c) = p * h
  BY <1>4, <1>6, WordPowers DEF p
<1> HIDE DEF f, h
<1>10. x < p * f
  <2>1. p * (f - 1 - y) >= 0
    BY <1>2, <1>3, <1>7, <1>8
  <2>2. p * (f - 1 - y) = p * f - p - p * y
    BY <1>2, <1>3, <1>8
  <2>3. p * f \in Int /\ p * y \in Int
    BY <1>2, <1>3, <1>8
  <2> QED
    BY <1>2, <1>3, <2>1, <2>2, <2>3
<1>11. x >= p * h
  <2>1. p * (y - h) >= 0
    BY <1>2, <1>3, <1>7, <1>8
  <2>2. p * (y - h) = p * y - p * h
    BY <1>2, <1>3, <1>8
  <2>3. p * h \in Int /\ p * y \in Int
    BY <1>2, <1>3, <1>8
  <2> QED
    BY <1>2, <1>3, <2>1, <2>2, <2>3
<1> DEFINE t == s + b   u == s + c
<1>12. t \in 0 .. WordBits /\ t - 1 = u
  BY <1>1, <1>6
<1>13. x < 2^t /\ x >= 2^u
  BY <1>9, <1>10, <1>11
<1> HIDE DEF t, u
<1>14. BitsOf(t, x)
  BY <1>12, <1>13 DEF BitsOf
<1> QED
  BY <1>14 DEF t

(* The count of n[s] is right for numbers of t bits.                       *)
CountsTo(n, s, t) ==
  \A x \in Word!Limb : x < 2^t => n[s][x] \in 0 .. t /\ BitsOf(n[s][x], x)

(* Counting in twice as many bits.                                         *)
LEMMA CountsTwice ==
  ASSUME UsualWidth, NEW n, NEW s \in 1 .. WordBits, s + s <= WordBits,
         \A x \in Word!Limb : n[s][x] = IF x \div 2^s # 0 THEN s + n[s \div 2][x \div 2^s]
                                        ELSE n[s \div 2][x],
         CountsTo(n, s \div 2, s)
  PROVE  CountsTo(n, s, s + s)
<1> SUFFICES ASSUME NEW x \in Word!Limb, x < 2^(s + s)
             PROVE  n[s][x] \in 0 .. s + s /\ BitsOf(n[s][x], x)
  BY DEF CountsTo
<1> DEFINE p == 2^s   y == x \div p   r == x % p   h == s \div 2
<1>1. WordBits \in Nat /\ s \in Nat /\ s \in 0 .. WordBits
  BY DEF UsualWidth
<1>2. p \in Nat \ {0} /\ 2^(s + s) = p * p
  BY <1>1, WordPowers
<1>3. x \in Nat /\ x < Word!B /\ Word!B \in Nat
  BY WordPowers, WordBase DEF Word!Limb
<1>4. n[s][x] = IF y # 0 THEN s + n[h][y] ELSE n[h][x]
  OBVIOUS
<1>5. \A z \in Word!Limb : z < p => n[h][z] \in 0 .. s /\ BitsOf(n[h][z], z)
  BY DEF CountsTo
<1>6. x < p * p
  BY <1>2
<1> HIDE DEF p, h
<1>7. y \in Nat /\ r \in 0 .. p - 1 /\ x = p * y + r
  BY <1>2, <1>3, Cut
<1>8. y < p /\ y \in Word!Limb
  <2> HIDE DEF y, r
  <2>1. y < p
    <3> SUFFICES ASSUME y >= p PROVE FALSE
      BY <1>2, <1>7
    <3>1. p * (y - p) >= 0
      BY <1>2, <1>7
    <3>2. p * (y - p) = p * y - p * p
      BY <1>2, <1>7
    <3>3. p * y \in Int /\ p * p \in Int
      BY <1>2, <1>7
    <3> QED
      BY <1>2, <1>3, <1>6, <1>7, <3>1, <3>2, <3>3
  <2>2. y <= x
    <3>1. (p - 1) * y >= 0
      BY <1>2, <1>7
    <3>2. (p - 1) * y = p * y - y
      BY <1>2, <1>7
    <3>3. p * y \in Int
      BY <1>2, <1>7
    <3> QED
      BY <1>2, <1>7, <3>1, <3>2, <3>3
  <2> QED
    BY <1>3, <1>7, <2>1, <2>2 DEF Word!Limb
<1>9. CASE y # 0
  <2> DEFINE b == n[h][y]
  <2>1. b \in 0 .. s /\ BitsOf(b, y)
    BY <1>5, <1>8
  <2> HIDE DEF b
  <2>2. b \in Nat /\ s + b <= WordBits /\ s + b \in 0 .. s + s
    BY <1>1, <2>1
  <2>3. x \div 2^s # 0 /\ BitsOf(b, x \div 2^s)
    BY <1>9, <2>1 DEF p
  <2>4. BitsOf(s + b, x)
    BY <1>3, <2>2, <2>3, BitsAbove
  <2>5. n[s][x] = s + b
    BY <1>4, <1>9 DEF b
  <2> QED
    BY <2>2, <2>4, <2>5
<1>10. CASE y = 0
  <2>1. x < p
    <3>1. p * y = 0
      BY <1>2, <1>10
    <3> HIDE DEF y, r
    <3> QED
      BY <1>2, <1>7, <3>1
  <2>2. n[h][x] \in 0 .. s /\ BitsOf(n[h][x], x)
    BY <1>5, <2>1
  <2>3. n[s][x] = n[h][x]
    BY <1>4, <1>10
  <2> QED
    BY <1>1, <2>2, <2>3
<1> QED
  BY <1>9, <1>10

(* ll_num_bits counts the bits of a limb.                                  *)
LEMMA NumBitsIs ==
  ASSUME UsualWidth, NEW a \in Word!Limb
  PROVE  BitsOf(Word!NumBits(a, WordBits), a)
<1>1. PICK n :
        /\ \A x : Word!NumBits(x, WordBits) = n[WordBits \div 2][x]
        /\ \A x \in Word!Limb : n[0][x] = IF x # 0 THEN 1 ELSE 0
        /\ \A s \in 1 .. WordBits, x \in Word!Limb :
             n[s][x] = IF x \div 2^s # 0 THEN s + n[s \div 2][x \div 2^s]
                       ELSE n[s \div 2][x]
  BY NumBitsFunction
<1>2. /\ WordBits \in Nat /\ 1 \in 0 .. WordBits /\ 0 \in 0 .. WordBits /\ 0 \in 0 .. WordBits - 1
  BY DEF UsualWidth
<1>3. 2^0 = 1 /\ 2^1 = 2
  OBVIOUS
<1>4. CountsTo(n, 0, 1)
  <2> SUFFICES ASSUME NEW x \in Word!Limb, x < 2^1
               PROVE  n[0][x] \in 0 .. 1 /\ BitsOf(n[0][x], x)
    BY DEF CountsTo
  <2>1. x = 0 \/ x = 1
    BY <1>3, WordBase DEF Word!Limb
  <2>2. CASE x = 0
    <3>1. n[0][x] = 0
      BY <1>1, <2>2
    <3>2. BitsOf(0, x)
      BY <1>2, <1>3, <2>2 DEF BitsOf
    <3> QED
      BY <3>1, <3>2
  <2>3. CASE x = 1
    <3>1. n[0][x] = 1
      BY <1>1, <2>3
    <3>2. BitsOf(1, x)
      BY <1>2, <1>3, <2>3 DEF BitsOf
    <3> QED
      BY <3>1, <3>2
  <2> QED
    BY <2>1, <2>2, <2>3
<1>5. ASSUME NEW h \in Nat, NEW s \in Nat, NEW d \in Nat, s >= 1, h = s \div 2, d = s + s,
             d <= WordBits, CountsTo(n, h, s)
      PROVE  CountsTo(n, s, d)
  <2>1. s \in 1 .. WordBits /\ s + s <= WordBits
    BY <1>2, <1>5
  <2>2. \A x \in Word!Limb : n[s][x] = IF x \div 2^s # 0 THEN s + n[s \div 2][x \div 2^s]
                                       ELSE n[s \div 2][x]
    BY <1>1, <2>1
  <2>3. CountsTo(n, s \div 2, s)
    BY <1>5
  <2>4. CountsTo(n, s, s + s)
    BY <2>1, <2>2, <2>3, CountsTwice
  <2> QED
    BY <1>5, <2>4
<1>6. 8 <= WordBits
  BY DEF UsualWidth
<1>7. CountsTo(n, 1, 2)
  <2>1. 0 = 1 \div 2 /\ 2 = 1 + 1 /\ 2 <= WordBits
    BY <1>2, <1>6
  <2> QED
    BY <1>4, <1>5, <2>1
<1>8. CountsTo(n, 2, 4)
  <2>1. 1 = 2 \div 2 /\ 4 = 2 + 2 /\ 4 <= WordBits
    BY <1>2, <1>6
  <2> QED
    BY <1>5, <1>7, <2>1
<1>9. CountsTo(n, 4, 8)
  BY <1>5, <1>6, <1>8
<1>10. WordBits >= 16 => CountsTo(n, 8, 16)
  BY <1>5, <1>9
<1>11. WordBits >= 32 => CountsTo(n, 16, 32)
  BY <1>2, <1>5, <1>10
<1>12. WordBits >= 64 => CountsTo(n, 32, 64)
  BY <1>2, <1>5, <1>11
<1>13. CountsTo(n, WordBits \div 2, WordBits)
  <2>1. CASE WordBits = 8
    <3>1. WordBits \div 2 = 4
      BY <2>1
    <3> QED
      BY <1>9, <2>1, <3>1
  <2>2. CASE WordBits = 16
    <3>1. WordBits \div 2 = 8 /\ WordBits >= 16
      BY <2>2
    <3> QED
      BY <1>10, <2>2, <3>1
  <2>3. CASE WordBits = 32
    <3>1. WordBits \div 2 = 16 /\ WordBits >= 32
      BY <2>3
    <3> QED
      BY <1>11, <2>3, <3>1
  <2>4. CASE WordBits = 64
    <3>1. WordBits \div 2 = 32 /\ WordBits >= 64
      BY <2>4
    <3> QED
      BY <1>12, <2>4, <3>1
  <2> QED
    BY <2>1, <2>2, <2>3, <2>4 DEF UsualWidth
<1>14. a < 2^WordBits
  BY WordBase DEF Word!Limb, Word!B
<1> QED
  BY <1>1, <1>13, <1>14 DEF CountsTo

(* What a caller passes to the routines on single limbs.                   *)
WordOperands(c) ==
  /\ c.f \in {"mulwords", "invert", "num_bits"} => c.a \in Word!Limb
  /\ c.f = "mulwords" => c.b \in Word!Limb
  /\ c.f = "invert" => c.a % 2 = 1

WordInv ==
  /\ call = NoCall => out = NoOut
  /\ WordOperands(call)
  /\ ExactWords

(* The other routines are none of them.                                    *)
LEMMA CallWordOperands == Call => WordOperands(call')
<1> SUFFICES ASSUME Call PROVE WordOperands(call')
  OBVIOUS
<1>1. CASE CallWords
  <2> PICK a \in Word!Limb, b \in Word!Limb :
        \/ call' = [f |-> "mulwords", a |-> a, b |-> b]
        \/ a % 2 = 1 /\ b = 0 /\ call' = [f |-> "invert", a |-> a]
        \/ b = 0 /\ call' = [f |-> "num_bits", a |-> a]
    BY <1>1 DEF CallWords
  <2> QED
    BY DEF WordOperands
<1>2. ASSUME call'.f \notin {"mulwords", "invert", "num_bits"} PROVE WordOperands(call')
  BY <1>2 DEF WordOperands
<1>3. CASE CallArrays
  <2>1. call'.f \in {"add", "sub", "cmp", "mul"}
    BY <1>3 DEF CallArrays
  <2> QED
    BY <1>2, <2>1
<1>4. CASE CallRows
  <2>1. call'.f \in {"mul_limb", "muladd", "mulsub"}
    BY <1>4 DEF CallRows
  <2> QED
    BY <1>2, <2>1
<1>5. CASE CallShifts
  <2>1. call'.f \in {"lshift", "rshift"}
    BY <1>5 DEF CallShifts
  <2> QED
    BY <1>2, <2>1
<1>6. CASE CallU256
  <2>1. call'.f \in {"u256", "u256_limb", "u256_shift"}
    BY <1>6 DEF CallU256
  <2> QED
    BY <1>2, <2>1
<1>7. CASE CallText
  <2>1. call'.f \in {"text", "bytes", "word"}
    BY <1>7 DEF CallText
  <2> QED
    BY <1>2, <2>1
<1> QED
  BY <1>1, <1>3, <1>4, <1>5, <1>6, <1>7 DEF Call

(* What they leave is exact.                                               *)
LEMMA RunWordsExact ==
  ASSUME UsualWidth, WordOperands(call), Run
  PROVE  ExactWords'
<1>1. call' = call
  BY DEF Run
<1>2. ASSUME call.f = "num_bits"
      PROVE  call.a < 2^out'.c /\ (out'.c > 0 => call.a >= 2^(out'.c - 1))
  <2>1. out' = [c |-> Word!NumBits(call.a, WordBits)]
    BY <1>2 DEF Run
  <2>2. call.a \in Word!Limb
    BY <1>2 DEF WordOperands
  <2>3. BitsOf(Word!NumBits(call.a, WordBits), call.a)
    BY <2>2, NumBitsIs
  <2>4. out'.c = Word!NumBits(call.a, WordBits)
    BY <2>1
  <2> QED
    BY <2>3, <2>4 DEF BitsOf
<1>3. ASSUME call.f = "mulwords"
      PROVE  Word!B * out'.hi + out'.lo = call.a * call.b
  <2>1. out' = Word!MulWords(call.a, call.b)
    BY <1>3 DEF Run
  <2>2. call.a \in Word!Limb /\ call.b \in Word!Limb
    BY <1>3 DEF WordOperands
  <2> QED
    BY <2>1, <2>2, MulWordsIs
<1>4. ASSUME call.f = "invert"
      PROVE  (call.a * out'.c + 1) % Word!B = 0
  <2>1. out' = [c |-> Word!InvertLimb(call.a)]
    BY <1>4 DEF Run
  <2>2. call.a \in Word!Limb /\ call.a % 2 = 1
    BY <1>4 DEF WordOperands
  <2>3. (call.a * Word!InvertLimb(call.a) + 1) % Word!B = 0
    BY <2>2, InvertLimbIs
  <2>4. out'.c = Word!InvertLimb(call.a)
    BY <2>1
  <2> QED
    BY <2>3, <2>4
<1> QED
  BY <1>1, <1>2, <1>3, <1>4 DEF ExactWords, Returned, Word!B

(* LL_MUL64, ll_invert_limb and ll_num_bits are exact for every limb of 8, *)
(* 16, 32 or 64 bits.                                                      *)
THEOREM WordsExact ==
  ASSUME UsualWidth
  PROVE  Spec => []ExactWords
<1>1. Init => WordInv
  <2> SUFFICES ASSUME Init PROVE WordInv
    OBVIOUS
  <2>1. call = NoCall /\ out = NoOut /\ call.f = "none"
    BY DEF Init, NoCall
  <2> QED
    BY <2>1 DEF WordInv, WordOperands, ExactWords, Returned
<1>2. WordInv /\ [Next]_vars => WordInv'
  <2> SUFFICES ASSUME WordInv, [Next]_vars PROVE WordInv'
    OBVIOUS
  <2>1. CASE Call
    <3>1. WordOperands(call')
      BY <2>1, CallWordOperands
    <3>2. out' = NoOut
      BY <2>1 DEF Call, WordInv
    <3> QED
      BY <3>1, <3>2 DEF WordInv, ExactWords, Returned
  <2>2. CASE Run
    <3>1. ExactWords'
      BY <2>2, RunWordsExact DEF WordInv
    <3>2. call' = call /\ call # NoCall
      BY <2>2 DEF Run
    <3> QED
      BY <3>1, <3>2 DEF WordInv
  <2>3. CASE Return
    <3>1. call' = NoCall /\ out' = NoOut /\ call'.f = "none"
      BY <2>3 DEF Return, NoCall
    <3> QED
      BY <3>1 DEF WordInv, WordOperands, ExactWords, Returned
  <2>4. CASE UNCHANGED vars
    BY <2>4 DEF vars, WordInv, ExactWords, Returned
  <2> QED
    BY <2>1, <2>2, <2>3, <2>4 DEF Next
<1>3. WordInv => ExactWords
  BY DEF WordInv
<1> QED
  BY <1>1, <1>2, <1>3, PTL DEF Spec

------------------------------------------------------------------------------
(* Conversions between limbs, bytes and text. *)

------------------------------------------------------------------------------
(***************************************************************************)
(* Text.  Number is a sum of digits; a piece of a text is a number of its  *)
(* own, so the digits of a base may be grouped to the digits of a larger   *)
(* one: bits to bytes, bytes to limbs.                                     *)
(***************************************************************************)
IsText(x, n, base) == \A j \in 0 .. n - 1 : x[j] \in 0 .. base - 1

(* v[k] is what the first k of the n digits of x stand for.                *)
Reads(v, x, n, base) ==
  /\ Text!Number(x, n, base) = v[n]
  /\ v[0] = 0
  /\ \A k \in 1 .. n : v[k] = v[k - 1] * base + x[k - 1]

(* The recursive function of Number exists.                                *)
LEMMA NumberFunction ==
  ASSUME NEW n \in Nat, NEW base \in Nat, NEW x, IsText(x, n, base)
  PROVE  \E v \in [0 .. n -> Nat] : Reads(v, x, n, base)
<1> DEFINE Body(v) == [k \in 0 .. n |-> IF k = 0 THEN 0 ELSE v[k - 1] * base + x[k - 1]]
           V == CHOOSE v : v = Body(v)
           G == [k \in 1 .. n |-> [v \in Nat |-> v * base + x[k - 1]]]
<1>1. Text!Number(x, n, base) = V[n]
  BY DEF Text!Number
<1>2. \A k \in 1 .. n : x[k - 1] \in Nat
  <2> SUFFICES ASSUME NEW k \in 1 .. n PROVE x[k - 1] \in Nat
    OBVIOUS
  <2>1. k - 1 \in 0 .. n - 1
    OBVIOUS
  <2> QED
    BY <2>1 DEF IsText
<1>3. \A k \in 1 .. n, v \in Nat : G[k][v] = v * base + x[k - 1] /\ G[k][v] \in Nat
  <2> SUFFICES ASSUME NEW k \in 1 .. n, NEW v \in Nat
               PROVE  G[k][v] = v * base + x[k - 1] /\ G[k][v] \in Nat
    OBVIOUS
  <2>1. x[k - 1] \in Nat /\ v * base \in Nat
    BY <1>2
  <2> QED
    BY <2>1
<1>4. PICK g \in [0 .. n -> Nat] : Follows(g, n, 0, G)
  <2>1. Steps(n, Nat, 0, G)
    BY <1>3 DEF Steps
  <2> HIDE DEF G
  <2> QED
    BY <2>1, Recursion
<1>5. \A k \in 1 .. n : g[k] = g[k - 1] * base + x[k - 1]
  <2> HIDE DEF G
  <2>1. \A k \in 1 .. n : g[k - 1] \in Nat
    OBVIOUS
  <2> QED
    BY <1>3, <1>4, <2>1 DEF Follows
<1>6. g = Body(g)
  BY <1>4, <1>5 DEF Follows
<1>7. V = Body(V)
  <2> HIDE DEF Body
  <2> QED
    BY <1>6
<1>8. V[0] = 0 /\ \A k \in 1 .. n : V[k] = V[k - 1] * base + x[k - 1]
  <2> HIDE DEF V
  <2> QED
    BY <1>7
<1> HIDE DEF V
<1> DEFINE T == {k \in 0 .. n : V[k] = g[k]}
<1>9. 0 \in T
  BY <1>4, <1>8 DEF Follows
<1>10. \A k \in 0 .. n - 1 : k \in T => k + 1 \in T
  BY <1>5, <1>8
<1>11. V[n] = g[n]
  <2>1. 0 .. n \subseteq T
    <3> HIDE DEF T
    <3> QED
      BY <1>9, <1>10, InductionTo
  <2> QED
    BY <2>1
<1> QED
  BY <1>1, <1>4, <1>5, <1>11 DEF Follows, Reads

(* A number depends on the digits it has, and a digit more shifts it.      *)
LEMMA NumberSame ==
  ASSUME NEW n \in Nat, NEW base \in Nat, NEW x, NEW y, IsText(x, n, base),
         \A j \in 0 .. n - 1 : y[j] = x[j]
  PROVE  Text!Number(y, n, base) = Text!Number(x, n, base)
<1>1. IsText(y, n, base)
  BY DEF IsText
<1>2. PICK v \in [0 .. n -> Nat] : Reads(v, x, n, base)
  BY NumberFunction
<1>3. PICK w \in [0 .. n -> Nat] : Reads(w, y, n, base)
  BY <1>1, NumberFunction
<1> DEFINE T == {k \in 0 .. n : v[k] = w[k]}
<1>4. 0 \in T
  BY <1>2, <1>3 DEF Reads
<1>5. ASSUME NEW k \in 0 .. n - 1, k \in T PROVE k + 1 \in T
  <2>1. k + 1 \in 1 .. n /\ (k + 1) - 1 = k /\ y[k] = x[k] /\ v[k] = w[k]
    BY <1>5
  <2> QED
    BY <1>2, <1>3, <2>1 DEF Reads
<1>6. v[n] = w[n]
  <2>1. 0 .. n \subseteq T
    <3> HIDE DEF T
    <3> QED
      BY <1>4, <1>5, InductionTo
  <2> QED
    BY <2>1
<1> QED
  BY <1>2, <1>3, <1>6 DEF Reads

(* One more character: the number so far times the base, and the           *)
(* character.                                                              *)
LEMMA NumberStep ==
  ASSUME NEW n \in Nat, NEW base \in Nat, NEW x, IsText(x, n + 1, base)
  PROVE  /\ Text!Number(x, n, base) \in Nat /\ x[n] \in 0 .. base - 1
         /\ Text!Number(x, n + 1, base) = Text!Number(x, n, base) * base + x[n]
<1> DEFINE m == n + 1
<1>1. m \in Nat /\ IsText(x, n, base) /\ x[n] \in 0 .. base - 1
  BY DEF IsText
<1>2. PICK v \in [0 .. n -> Nat] : Reads(v, x, n, base)
  BY <1>1, NumberFunction
<1>3. PICK w \in [0 .. m -> Nat] : Reads(w, x, m, base)
  <2> HIDE DEF m
  <2>1. IsText(x, m, base)
    BY DEF m
  <2> QED
    BY <1>1, <2>1, NumberFunction
<1> DEFINE T == {k \in 0 .. n : v[k] = w[k]}
<1>4. 0 \in T
  BY <1>2, <1>3 DEF Reads
<1>5. ASSUME NEW k \in 0 .. n - 1, k \in T PROVE k + 1 \in T
  <2>1. k + 1 \in 1 .. n /\ k + 1 \in 1 .. m /\ (k + 1) - 1 = k /\ v[k] = w[k]
    BY <1>5
  <2> QED
    BY <1>2, <1>3, <2>1 DEF Reads
<1>6. v[n] = w[n]
  <2>1. 0 .. n \subseteq T
    <3> HIDE DEF T
    <3> QED
      BY <1>4, <1>5, InductionTo
  <2> QED
    BY <2>1
<1>7. m \in 1 .. m /\ m - 1 = n
  OBVIOUS
<1>8. w[m] = w[n] * base + x[n]
  BY <1>3, <1>7 DEF Reads
<1> QED
  BY <1>1, <1>2, <1>3, <1>6, <1>8 DEF Reads

(* No character stands for 0.                                              *)
LEMMA NumberEmpty ==
  ASSUME NEW base \in Nat, NEW x
  PROVE  Text!Number(x, 0, base) = 0
<1>1. IsText(x, 0, base)
  BY DEF IsText
<1> QED
  BY <1>1, NumberFunction DEF Reads

(* The first powers of a base.                                             *)
Ladder(P, base, m) ==
  /\ P[0] = 1
  /\ \A k \in 0 .. m : P[k] \in Nat \ {0}
  /\ \A k \in 0 .. m - 1 : P[k + 1] = base * P[k]

(* A number of n digits is below the power n.                              *)
LEMMA NumberRange ==
  ASSUME NEW n \in Nat, NEW base \in Nat, NEW x, IsText(x, n, base),
         NEW m \in Nat, n <= m, NEW P, Ladder(P, base, m)
  PROVE  Text!Number(x, n, base) \in Nat /\ Text!Number(x, n, base) < P[n]
<1> DEFINE T == {k \in 0 .. n : Text!Number(x, k, base) \in Nat /\ Text!Number(x, k, base) < P[k]}
<1>1. 0 \in T
  BY NumberEmpty DEF Ladder
<1>2. ASSUME NEW k \in 0 .. n - 1, k \in T PROVE k + 1 \in T
  <2> DEFINE v == Text!Number(x, k, base)  w == Text!Number(x, k + 1, base)  d == x[k]
             p == P[k]  q == P[k + 1]
  <2>1. k \in Nat /\ IsText(x, k + 1, base)
    BY DEF IsText
  <2>2. w = v * base + d /\ d \in 0 .. base - 1 /\ v \in Nat
    BY <2>1, NumberStep
  <2>3. v < p /\ p \in Nat /\ q \in Nat /\ q = base * p
    <3>1. k \in 0 .. m /\ k \in 0 .. m - 1 /\ k + 1 \in 0 .. m
      OBVIOUS
    <3> QED
      BY <1>2, <3>1 DEF Ladder
  <2> HIDE DEF v, w, d, p, q
  <2>4. v * base + base <= p * base
    <3>1. (p - (v + 1)) * base >= 0 /\ p - (v + 1) \in Nat
      BY <2>2, <2>3
    <3>2. (p - (v + 1)) * base = p * base - (v * base + base)
      BY <2>2, <2>3
    <3>3. p * base \in Int /\ v * base \in Int
      BY <2>2, <2>3
    <3> QED
      BY <3>1, <3>2, <3>3
  <2>5. v * base \in Nat /\ p * base = base * p /\ base * p \in Nat
    BY <2>2, <2>3
  <2>6. w \in Nat /\ w < q
    BY <2>2, <2>3, <2>4, <2>5
  <2> QED
    BY <2>6 DEF w, q
<1>3. 0 .. n \subseteq T
  <2> HIDE DEF T
  <2> QED
    BY <1>1, <1>2, InductionTo
<1>4. n \in T
  BY <1>3
<1> QED
  BY <1>4

(* The h digits of y are those of x from the n-th on.                      *)
Piece(y, x, n, h) == \A j \in 0 .. h - 1 : y[j] = x[n + j]

(* A text of two pieces.                                                   *)
LEMMA NumberSplit ==
  ASSUME NEW n \in Nat, NEW h \in Nat, NEW base \in Nat, NEW x, IsText(x, n + h, base),
         NEW y, Piece(y, x, n, h),
         NEW m \in Nat, h <= m, NEW P, Ladder(P, base, m)
  PROVE  /\ IsText(x, n, base) /\ IsText(y, h, base)
         /\ Text!Number(x, n + h, base) = Text!Number(x, n, base) * P[h] + Text!Number(y, h, base)
<1>1. IsText(x, n, base)
  BY DEF IsText
<1>2. IsText(y, h, base)
  <2> SUFFICES ASSUME NEW j \in 0 .. h - 1 PROVE y[j] \in 0 .. base - 1
    BY DEF IsText
  <2>1. n + j \in 0 .. (n + h) - 1
    OBVIOUS
  <2> QED
    BY <2>1 DEF IsText, Piece
<1> DEFINE u == Text!Number(x, n, base)
           T == {k \in 0 .. h : Text!Number(x, n + k, base) = u * P[k] + Text!Number(y, k, base)}
<1>3. u \in Nat
  <2>1. PICK v \in [0 .. n -> Nat] : Reads(v, x, n, base)
    BY <1>1, NumberFunction
  <2>2. u = v[n] /\ v[n] \in Nat
    BY <2>1 DEF Reads
  <2> QED
    BY <2>2
<1>4. 0 \in T
  <2> HIDE DEF u
  <2>1. u * 1 + 0 = u /\ n + 0 = n
    BY <1>3
  <2>2. Text!Number(y, 0, base) = 0
    BY NumberEmpty
  <2>3. P[0] = 1
    BY DEF Ladder
  <2>4. Text!Number(x, n + 0, base) = u
    BY <2>1 DEF u
  <2> QED
    BY <2>1, <2>2, <2>3, <2>4
<1>5. ASSUME NEW k \in 0 .. h - 1, k \in T PROVE k + 1 \in T
  <2> DEFINE v == Text!Number(x, n + k, base)  w == Text!Number(x, n + (k + 1), base)
             z == Text!Number(y, k, base)  t == Text!Number(y, k + 1, base)
             p == P[k]  q == P[k + 1]  d == y[k]
  <2>1. n + k \in Nat /\ n + (k + 1) = (n + k) + 1 /\ IsText(x, (n + k) + 1, base)
        /\ x[n + k] = d /\ IsText(y, k + 1, base)
    BY <1>2 DEF IsText, Piece
  <2>2. v \in Nat /\ w = v * base + d /\ d \in 0 .. base - 1
    BY <2>1, NumberStep
  <2>3. z \in Nat /\ t = z * base + d
    BY <2>1, NumberStep
  <2>4. p \in Nat /\ q = base * p
    <3>1. k \in 0 .. m /\ k \in 0 .. m - 1
      OBVIOUS
    <3> QED
      BY <3>1 DEF Ladder
  <2>5. v = u * p + z
    BY <1>5
  <2> HIDE DEF u, v, w, z, t, p, q, d
  <2>6. (u * p + z) * base = u * (base * p) + z * base
    BY <1>3, <2>3, <2>4
  <2>7. u * q \in Int /\ z * base \in Int /\ d \in Int
    BY <1>3, <2>2, <2>3, <2>4
  <2>8. w = u * q + t
    BY <2>2, <2>3, <2>4, <2>5, <2>6, <2>7
  <2> QED
    BY <2>8 DEF w, q, t
<1>6. 0 .. h \subseteq T
  <2> HIDE DEF T
  <2> QED
    BY <1>4, <1>5, InductionTo
<1>7. h \in T
  BY <1>6
<1> QED
  BY <1>1, <1>2, <1>7

(* The digits of a number.                                                 *)
LEMMA NumberDigit ==
  ASSUME NEW n \in Nat, NEW base \in Nat \ {0}, NEW x, IsText(x, n, base),
         NEW m \in Nat, n <= m, NEW P, Ladder(P, base, m), NEW j \in 0 .. n - 1
  PROVE  (Text!Number(x, n, base) \div P[n - 1 - j]) % base = x[j]
<1> DEFINE h == n - 1 - j  y == [i \in 0 .. h - 1 |-> x[(j + 1) + i]]
           v == Text!Number(x, n, base)  u == Text!Number(x, j, base)
           w == Text!Number(x, j + 1, base)  z == Text!Number(y, h, base)  p == P[h]  d == x[j]
<1>1. h \in Nat /\ j + 1 \in Nat /\ j \in Nat /\ (j + 1) + h = n /\ h <= m
  OBVIOUS
<1>2. Piece(y, x, j + 1, h)
  BY DEF Piece
<1>3. IsText(x, (j + 1) + h, base)
  BY <1>1
<1>4. v = w * p + z /\ IsText(x, j + 1, base) /\ IsText(y, h, base)
  <2> HIDE DEF h, y
  <2>0. base \in Nat /\ Ladder(P, base, m) /\ m \in Nat
    OBVIOUS
  <2>1. /\ Text!Number(x, (j + 1) + h, base) = Text!Number(x, j + 1, base) * P[h] + Text!Number(y, h, base)
        /\ IsText(x, j + 1, base) /\ IsText(y, h, base)
    BY <1>1, <1>2, <1>3, <2>0, NumberSplit
  <2> QED
    BY <1>1, <2>1
<1>5. w = u * base + d /\ u \in Nat /\ d \in 0 .. base - 1
  BY <1>1, <1>4, NumberStep
<1>6. z \in Nat /\ z < p
  <2> HIDE DEF h, y
  <2> QED
    BY <1>1, <1>4, NumberRange
<1>7. p \in Nat \ {0}
  <2>1. h \in 0 .. m
    BY <1>1
  <2> QED
    BY <2>1 DEF Ladder
<1> HIDE DEF v, u, w, z, p, d
<1>8. w \in Nat
  BY <1>5
<1>9. v \div p = w
  <2>1. v \in Int /\ w \in Int /\ z \in 0 .. p - 1 /\ v = p * w + z
    BY <1>4, <1>6, <1>7, <1>8
  <2> QED
    BY <1>7, <2>1, DivModIs
<1>10. w % base = d
  <2>1. w \in Int /\ u \in Int /\ w = base * u + d
    BY <1>5, <1>8
  <2> QED
    BY <1>5, <2>1, DivModIs
<1>11. (v \div p) % base = d
  BY <1>9, <1>10
<1> QED
  BY <1>11 DEF v, p, d, h

(* Zeros in front: y is x with h of them.                                  *)
Padded(y, x, h, n) == \A j \in 0 .. (h + n) - 1 : y[j] = IF j < h THEN 0 ELSE x[j - h]

(* Zeros in front change nothing.                                          *)
LEMMA NumberPad ==
  ASSUME NEW n \in Nat, NEW h \in Nat, NEW base \in Nat \ {0}, NEW x, IsText(x, n, base),
         NEW y, Padded(y, x, h, n)
  PROVE  IsText(y, h + n, base) /\ Text!Number(y, h + n, base) = Text!Number(x, n, base)
<1>1. IsText(y, h + n, base)
  <2> SUFFICES ASSUME NEW j \in 0 .. (h + n) - 1 PROVE y[j] \in 0 .. base - 1
    BY DEF IsText
  <2>1. CASE j < h
    BY <2>1 DEF Padded
  <2>2. CASE ~(j < h)
    <3>1. j - h \in 0 .. n - 1 /\ y[j] = x[j - h]
      BY <2>2 DEF Padded
    <3> QED
      BY <3>1 DEF IsText
  <2> QED
    BY <2>1, <2>2
<1> DEFINE T == {k \in 0 .. h : Text!Number(y, k, base) = 0}
<1>2. 0 \in T
  BY NumberEmpty
<1>3. ASSUME NEW k \in 0 .. h - 1, k \in T PROVE k + 1 \in T
  <2>1. k \in Nat /\ IsText(y, k + 1, base)
    BY <1>1 DEF IsText
  <2>2. Text!Number(y, k + 1, base) = Text!Number(y, k, base) * base + y[k]
    BY <2>1, NumberStep
  <2>3. y[k] = 0 /\ Text!Number(y, k, base) = 0
    <3>1. k \in 0 .. (h + n) - 1 /\ k < h
      OBVIOUS
    <3> QED
      BY <1>3, <3>1 DEF Padded
  <2>4. 0 * base + 0 = 0
    OBVIOUS
  <2> QED
    BY <2>2, <2>3, <2>4
<1>4. Text!Number(y, h, base) = 0
  <2>1. 0 .. h \subseteq T
    <3> HIDE DEF T
    <3> QED
      BY <1>2, <1>3, InductionTo
  <2>2. h \in T
    BY <2>1
  <2> QED
    BY <2>2
<1> DEFINE S == {k \in 0 .. n : Text!Number(y, h + k, base) = Text!Number(x, k, base)}
<1>5. 0 \in S
  <2>1. h + 0 = h /\ Text!Number(x, 0, base) = 0
    BY NumberEmpty
  <2> QED
    BY <1>4, <2>1
<1>6. ASSUME NEW k \in 0 .. n - 1, k \in S PROVE k + 1 \in S
  <2> DEFINE e == h + k
  <2>1. e \in Nat /\ k \in Nat /\ h + (k + 1) = e + 1 /\ base \in Nat
    OBVIOUS
  <2>2. IsText(y, e + 1, base) /\ IsText(x, k + 1, base)
    BY <1>1 DEF IsText
  <2>3. y[e] = x[k]
    <3>1. e \in 0 .. (h + n) - 1 /\ ~(e < h) /\ e - h = k
      OBVIOUS
    <3> QED
      BY <3>1 DEF Padded
  <2>4. Text!Number(y, e, base) = Text!Number(x, k, base)
    BY <1>6
  <2> HIDE DEF e
  <2>5. Text!Number(y, e + 1, base) = Text!Number(y, e, base) * base + y[e]
    BY <2>1, <2>2, NumberStep
  <2>6. Text!Number(x, k + 1, base) = Text!Number(x, k, base) * base + x[k]
    BY <2>1, <2>2, NumberStep
  <2>7. Text!Number(y, h + (k + 1), base) = Text!Number(x, k + 1, base)
    BY <2>1, <2>3, <2>4, <2>5, <2>6
  <2>8. k + 1 \in 0 .. n
    OBVIOUS
  <2> QED
    BY <2>7, <2>8
<1>7. 0 .. n \subseteq S
  <2> HIDE DEF S
  <2> QED
    BY <1>5, <1>6, InductionTo
<1>8. n \in S
  BY <1>7
<1> QED
  BY <1>1, <1>8

(* Texts y whose digit i is the number in the i-th group of h digits of x. *)
Grouped(y, x, h, n, base) ==
  \A i \in 0 .. n - 1 : \E z : Piece(z, x, h * i, h) /\ y[i] = Text!Number(z, h, base)

(* Groups of h digits are the digits of a number in the base P[h].         *)
LEMMA NumberGroups ==
  ASSUME NEW n \in Nat, NEW h \in Nat, NEW base \in Nat \ {0}, NEW x, IsText(x, h * n, base),
         NEW y, Grouped(y, x, h, n, base),
         NEW m \in Nat, h <= m, NEW P, Ladder(P, base, m)
  PROVE  IsText(y, n, P[h]) /\ Text!Number(x, h * n, base) = Text!Number(y, n, P[h])
<1> DEFINE q == P[h]
           T == {k \in 0 .. n : /\ IsText(y, k, q)
                                /\ Text!Number(x, h * k, base) = Text!Number(y, k, q)}
<1>1. q \in Nat \ {0} /\ base \in Nat
  BY DEF Ladder
<1>2. 0 \in T
  <2>1. h * 0 = 0 /\ IsText(y, 0, q)
    BY DEF IsText
  <2>2. Text!Number(x, h * 0, base) = 0 /\ Text!Number(y, 0, q) = 0
    <3> HIDE DEF q
    <3> QED
      BY <1>1, <2>1, NumberEmpty
  <2> QED
    BY <2>1, <2>2
<1>3. ASSUME NEW k \in 0 .. n - 1, k \in T PROVE k + 1 \in T
  <2> DEFINE c == h * k
  <2>1. c \in Nat /\ h * (k + 1) = c + h /\ c + h <= h * n
    <3>1. h * (n - (k + 1)) >= 0 /\ h * (n - (k + 1)) = h * n - h * (k + 1) /\ h * n \in Int
      OBVIOUS
    <3>2. h * (k + 1) = h * k + h /\ h * k \in Nat
      OBVIOUS
    <3> QED
      BY <3>1, <3>2
  <2>2. IsText(x, c + h, base)
    <3> HIDE DEF c
    <3>1. h * n \in Int
      OBVIOUS
    <3> QED
      BY <2>1, <3>1 DEF IsText
  <2>3. PICK z : Piece(z, x, c, h) /\ y[k] = Text!Number(z, h, base)
    BY DEF Grouped
  <2> HIDE DEF c
  <2>4. IsText(z, h, base)
        /\ Text!Number(x, c + h, base) = Text!Number(x, c, base) * q + Text!Number(z, h, base)
    BY <1>1, <2>1, <2>2, <2>3, NumberSplit
  <2>5. y[k] \in 0 .. q - 1
    <3>1. Text!Number(z, h, base) \in Nat /\ Text!Number(z, h, base) < q
      BY <1>1, <2>4, NumberRange
    <3> HIDE DEF q
    <3> QED
      BY <1>1, <2>3, <3>1
  <2>6. IsText(y, k + 1, q)
    <3>1. IsText(y, k, q)
      BY <1>3
    <3> HIDE DEF q
    <3>2. \A j \in 0 .. (k + 1) - 1 : j \in 0 .. k - 1 \/ j = k
      OBVIOUS
    <3> QED
      BY <2>5, <3>1, <3>2 DEF IsText
  <2>7. Text!Number(y, k + 1, q) = Text!Number(y, k, q) * q + y[k]
    <3> HIDE DEF q
    <3>1. k \in Nat
      OBVIOUS
    <3> QED
      BY <1>1, <2>6, <3>1, NumberStep
  <2>8. Text!Number(x, c, base) = Text!Number(y, k, q)
    BY <1>3 DEF c
  <2>9. Text!Number(x, h * (k + 1), base) = Text!Number(y, k + 1, q)
    <3> HIDE DEF q
    <3> QED
      BY <2>1, <2>3, <2>4, <2>7, <2>8
  <2>10. k + 1 \in 0 .. n
    OBVIOUS
  <2> QED
    BY <2>6, <2>9, <2>10
<1>4. 0 .. n \subseteq T
  <2> HIDE DEF T
  <2> QED
    BY <1>2, <1>3, InductionTo
<1>5. n \in T
  BY <1>4
<1> QED
  BY <1>5

(* Two digits. *)
LEMMA NumberOfTwo ==
  ASSUME NEW base \in Nat, NEW x, IsText(x, 2, base)
  PROVE  Text!Number(x, 2, base) = x[0] * base + x[1]
<1>1. IsText(x, 0 + 1, base) /\ IsText(x, 1 + 1, base)
  BY DEF IsText
<1>2. Text!Number(x, 0 + 1, base) = Text!Number(x, 0, base) * base + x[0] /\ x[0] \in Nat
  BY <1>1, NumberStep
<1>3. Text!Number(x, 1 + 1, base) = Text!Number(x, 1, base) * base + x[1]
  BY <1>1, NumberStep
<1>4. Text!Number(x, 0, base) = 0
  BY NumberEmpty
<1>5. 0 * base + x[0] = x[0]
  BY <1>2
<1>6. Text!Number(x, 1, base) = x[0]
  BY <1>2, <1>4, <1>5
<1> QED
  BY <1>3, <1>6

(* Pairs of digits.                                                        *)
LEMMA NumberPairs ==
  ASSUME NEW n \in Nat, NEW base \in Nat \ {0}, NEW x, IsText(x, 2 * n, base),
         NEW y, \A i \in 0 .. n - 1 : y[i] = x[2 * i] * base + x[2 * i + 1]
  PROVE  IsText(y, n, base * base) /\ Text!Number(x, 2 * n, base) = Text!Number(y, n, base * base)
<1> DEFINE P == [k \in 0 .. 2 |-> IF k = 0 THEN 1 ELSE IF k = 1 THEN base ELSE base * base]
<1>1. Ladder(P, base, 2) /\ P[2] = base * base
  <2>1. base * base \in Nat \ {0} /\ base * 1 = base
    <3>1. base * (base - 1) >= 0 /\ base * (base - 1) = base * base - base /\ base * base \in Int
      OBVIOUS
    <3> QED
      BY <3>1
  <2>2. P[0] = 1 /\ P[1] = base /\ P[2] = base * base
    OBVIOUS
  <2> HIDE DEF P
  <2>3. \A k \in 0 .. 2 : k = 0 \/ k = 1 \/ k = 2
    OBVIOUS
  <2>4. \A k \in 0 .. 2 : P[k] \in Nat \ {0}
    BY <2>1, <2>2, <2>3
  <2>5. \A k \in 0 .. 2 - 1 : P[k + 1] = base * P[k]
    <3> SUFFICES ASSUME NEW k \in 0 .. 1 PROVE P[k + 1] = base * P[k]
      OBVIOUS
    <3>1. CASE k = 0
      BY <2>1, <2>2, <3>1
    <3>2. CASE k = 1
      BY <2>2, <3>2
    <3> QED
      BY <3>1, <3>2
  <2> QED
    BY <2>2, <2>4, <2>5 DEF Ladder
<1> HIDE DEF P
<1>2. Grouped(y, x, 2, n, base)
  <2> SUFFICES ASSUME NEW i \in 0 .. n - 1
               PROVE  \E z : Piece(z, x, 2 * i, 2) /\ y[i] = Text!Number(z, 2, base)
    BY DEF Grouped
  <2> DEFINE z == [j \in 0 .. 1 |-> x[2 * i + j]]
  <2>1. z[0] = x[2 * i] /\ z[1] = x[2 * i + 1]
    <3>1. 2 * i + 0 = 2 * i
      OBVIOUS
    <3> QED
      BY <3>1
  <2>2. Piece(z, x, 2 * i, 2)
    BY DEF Piece
  <2>3. IsText(z, 2, base)
    <3>1. 2 * i \in 0 .. 2 * n - 1 /\ 2 * i + 1 \in 0 .. 2 * n - 1
      OBVIOUS
    <3>2. x[2 * i] \in 0 .. base - 1 /\ x[2 * i + 1] \in 0 .. base - 1
      BY <3>1 DEF IsText
    <3>3. \A j \in 0 .. 2 - 1 : j = 0 \/ j = 1
      OBVIOUS
    <3> HIDE DEF z
    <3> QED
      BY <2>1, <3>2, <3>3 DEF IsText
  <2>4. y[i] = x[2 * i] * base + x[2 * i + 1]
    OBVIOUS
  <2>5. y[i] = Text!Number(z, 2, base)
    <3> HIDE DEF z
    <3> QED
      BY <2>1, <2>3, <2>4, NumberOfTwo
  <2> HIDE DEF z
  <2> QED
    BY <2>2, <2>5
<1> QED
  BY <1>1, <1>2, NumberGroups

(* A base whose powers are multiplied step by step.                        *)
LEMMA LadderIs ==
  ASSUME NEW base \in Nat \ {0}, NEW m \in Nat, NEW P, P[0] = 1,
         \A k \in 0 .. m - 1 : P[k + 1] = base * P[k]
  PROVE  Ladder(P, base, m)
<1> DEFINE T == {k \in 0 .. m : P[k] \in Nat \ {0}}
<1>1. 0 \in T
  OBVIOUS
<1>2. ASSUME NEW k \in 0 .. m - 1, k \in T PROVE k + 1 \in T
  <2> DEFINE p == P[k]
  <2>1. p \in Nat \ {0}
    BY <1>2
  <2>2. base * p \in Nat \ {0}
    <3> HIDE DEF p
    <3>1. base * (p - 1) >= 0 /\ base * (p - 1) = base * p - base /\ base * p \in Int
      BY <2>1
    <3> QED
      BY <3>1
  <2> QED
    BY <2>2
<1>3. 0 .. m \subseteq T
  <2> HIDE DEF T
  <2> QED
    BY <1>1, <1>2, InductionTo
<1> QED
  BY <1>3 DEF Ladder

(* A byte has two digits, and a limb a whole number of bytes.              *)
LEMMA TextSizes ==
  /\ Text!D \in Nat \ {0} /\ Text!Byte \in Nat \ {0} /\ Text!Byte = Text!D * Text!D
  /\ Text!LimbBytes \in Nat \ {0} /\ Text!LimbDigits \in Nat \ {0}
  /\ Text!LimbDigits = 2 * Text!LimbBytes /\ DigitBits * Text!LimbDigits = WordBits
<1> DEFINE a == DigitBits  d == 2 * a  h == WordBits \div d
<1>1. a \in Nat \ {0} /\ d \in Nat \ {0} /\ WordBits \in Nat \ {0} /\ WordBits % d = 0
  BY WordBitsAssumption
<1>2. h \in Nat /\ WordBits = d * h
  <2> HIDE DEF d
  <2> QED
    BY <1>1
<1>3. Text!LimbBytes = h /\ Text!LimbDigits = 2 * h
  BY DEF Text!LimbBytes, Text!LimbDigits
<1> HIDE DEF h
<1>4. h # 0
  BY <1>1, <1>2
<1>5. a * (2 * h) = WordBits
  <2> HIDE DEF a
  <2> QED
    BY <1>1, <1>2
<1>6. a <= WordBits
  <2>1. a * (2 * h - 1) >= 0 /\ a * (2 * h - 1) = a * (2 * h) - a
    <3> HIDE DEF a
    <3> QED
      BY <1>1, <1>2, <1>4
  <2> QED
    BY <1>1, <1>5, <2>1
<1>7. Text!D \in Nat \ {0}
  BY <1>1, <1>6, WordPowers DEF Text!D
<1>8. Text!Byte = Text!D * Text!D /\ Text!D * Text!D \in Nat \ {0}
  <2> DEFINE b == Text!D
  <2>1. b \in Nat \ {0}
    BY <1>7
  <2> HIDE DEF b
  <2>2. b * b \in Nat \ {0}
    <3>1. b * (b - 1) >= 0 /\ b * (b - 1) = b * b - b /\ b * b \in Int
      BY <2>1
    <3> QED
      BY <2>1, <3>1
  <2> QED
    BY <2>2 DEF b, Text!Byte
<1> QED
  BY <1>2, <1>3, <1>4, <1>5, <1>7, <1>8

(* The powers of digit, byte and limb as far as texts need them.           *)
DigitPow == [k \in 0 .. Text!LimbDigits |-> Text!D^k]
BytePow == [k \in 0 .. Text!LimbBytes |-> Text!Byte^k]
LimbPow == [k \in 0 .. Text!Groups(MaxText, Text!LimbDigits) |-> Word!B^k]

(* The powers of the digit, up to the limb.                                *)
LEMMA DigitLadder ==
  Ladder(DigitPow, Text!D, Text!LimbDigits) /\ DigitPow[Text!LimbDigits] = Word!B
<1> DEFINE m == Text!LimbDigits
<1>1. m \in Nat /\ Text!D \in Nat \ {0} /\ 0 \in 0 .. m
  BY TextSizes
<1>2. DigitPow[0] = 1
  BY <1>1, TextPowersAssumption DEF DigitPow
<1>3. ASSUME NEW k \in 0 .. m - 1 PROVE DigitPow[k + 1] = Text!D * DigitPow[k]
  <2>1. k \in 0 .. m /\ k + 1 \in 0 .. m
    BY <1>1
  <2>2. Text!D^(k + 1) = Text!D * Text!D^k
    BY <2>1, TextPowersAssumption
  <2> QED
    BY <2>1, <2>2 DEF DigitPow
<1>4. DigitPow[m] = Word!B
  <2> DEFINE a == DigitBits  T == {k \in 0 .. m : DigitPow[k] = 2^(a * k)}
  <2>1. a \in Nat \ {0} /\ a * m = WordBits
    BY WordBitsAssumption, TextSizes
  <2> HIDE DEF a, m
  <2>2. 0 \in T
    <3>1. a * 0 = 0 /\ 2^0 = 1
      BY <2>1, WordPowers
    <3> QED
      BY <1>1, <1>2, <3>1
  <2>3. ASSUME NEW k \in 0 .. m - 1, k \in T PROVE k + 1 \in T
    <3>1. a * k \in Nat /\ a * (k + 1) = a + a * k /\ a * (k + 1) <= a * m
      <4>1. a * (m - (k + 1)) >= 0 /\ a * (m - (k + 1)) = a * m - a * (k + 1)
        BY <1>1, <2>1
      <4>2. a * k \in Nat /\ a * (k + 1) \in Nat /\ a * m \in Nat /\ a * (k + 1) = a + a * k
        BY <1>1, <2>1
      <4> QED
        BY <4>1, <4>2
    <3> DEFINE l == a * k
    <3> DEFINE u == a * (k + 1)
    <3>2. l \in Nat /\ u = a + l /\ u <= WordBits
      BY <2>1, <3>1
    <3> HIDE DEF l, u
    <3>3. l \in 0 .. WordBits /\ a \in 0 .. WordBits /\ a + l <= WordBits
      BY <2>1, <3>2, WordBitsAssumption
    <3>4. 2^(a + l) = 2^a * 2^l
      BY <3>3, WordPowers
    <3>5. DigitPow[k + 1] = Text!D * DigitPow[k] /\ DigitPow[k] = 2^l /\ k + 1 \in 0 .. m
      BY <1>1, <1>3, <2>3 DEF l
    <3>6. DigitPow[k + 1] = 2^(a + l)
      BY <3>4, <3>5 DEF Text!D, a
    <3> QED
      BY <3>5, <3>6, <3>2 DEF u
  <2>4. 0 .. m \subseteq T
    <3> HIDE DEF T
    <3> QED
      BY <1>1, <2>2, <2>3, InductionTo
  <2>5. DigitPow[m] = 2^(a * m)
    BY <1>1, <2>4
  <2> QED
    BY <2>1, <2>5 DEF Word!B
<1> QED
  <2> HIDE DEF m
  <2>1. Ladder(DigitPow, Text!D, m)
    BY <1>1, <1>2, <1>3, LadderIs
  <2> QED
    BY <1>4, <2>1 DEF m

(* The powers of the byte, up to the limb.                                 *)
LEMMA ByteLadder ==
  Ladder(BytePow, Text!Byte, Text!LimbBytes) /\ BytePow[Text!LimbBytes] = Word!B
<1> DEFINE m == Text!LimbBytes
<1>1. m \in Nat /\ Text!Byte \in Nat \ {0} /\ 0 \in 0 .. m /\ Text!LimbDigits = 2 * m
      /\ Text!D \in Nat /\ Text!Byte = Text!D * Text!D
  BY TextSizes
<1>2. BytePow[0] = 1
  BY <1>1, TextPowersAssumption DEF BytePow
<1>3. ASSUME NEW k \in 0 .. m - 1 PROVE BytePow[k + 1] = Text!Byte * BytePow[k]
  <2>1. k \in 0 .. m /\ k + 1 \in 0 .. m
    BY <1>1
  <2>2. Text!Byte^(k + 1) = Text!Byte * Text!Byte^k
    BY <2>1, TextPowersAssumption
  <2> QED
    BY <2>1, <2>2 DEF BytePow
<1> DEFINE T == {k \in 0 .. m : BytePow[k] = DigitPow[2 * k]}
<1> HIDE DEF m
<1>4. 0 \in T
  <2>1. DigitPow[0] = 1 /\ 2 * 0 = 0
    BY DigitLadder DEF Ladder
  <2> QED
    BY <1>1, <1>2, <2>1
<1>5. ASSUME NEW k \in 0 .. m - 1, k \in T PROVE k + 1 \in T
  <2> DEFINE p == DigitPow[2 * k]  q == DigitPow[2 * k + 1]  t == DigitPow[2 * (k + 1)]
  <2>1. /\ 2 * k \in 0 .. Text!LimbDigits - 1 /\ 2 * k + 1 \in 0 .. Text!LimbDigits - 1
        /\ 2 * (k + 1) = (2 * k + 1) + 1 /\ 2 * k \in 0 .. Text!LimbDigits
    BY <1>1
  <2>2. q = Text!D * p /\ t = Text!D * q /\ p \in Nat
    BY <2>1, DigitLadder DEF Ladder
  <2>3. BytePow[k + 1] = Text!Byte * p
    BY <1>3, <1>5
  <2> DEFINE c == Text!D
  <2>4. c \in Nat /\ t = c * (c * p) /\ BytePow[k + 1] = (c * c) * p
    BY <1>1, <2>2, <2>3
  <2> HIDE DEF p, q, t, c
  <2>5. BytePow[k + 1] = t
    BY <2>2, <2>4
  <2>6. k + 1 \in 0 .. m
    BY <1>1
  <2> QED
    BY <2>5, <2>6 DEF t
<1>6. 0 .. m \subseteq T
  <2> HIDE DEF T
  <2> QED
    BY <1>1, <1>4, <1>5, InductionTo
<1>7. BytePow[m] = DigitPow[2 * m]
  <2>1. m \in 0 .. m
    BY <1>1
  <2> QED
    BY <1>6, <2>1
<1>8. Ladder(BytePow, Text!Byte, m)
  BY <1>1, <1>2, <1>3, LadderIs
<1> QED
  BY <1>1, <1>7, <1>8, DigitLadder DEF m

(* A limb has at least one value, in both instances the same number.       *)
LEMMA WordRange == Word!B \in Nat \ {0} /\ Text!B = Word!B
<1>1. Text!LimbDigits \in 0 .. Text!LimbDigits
  BY TextSizes
<1>2. DigitPow[Text!LimbDigits] \in Nat \ {0}
  BY <1>1, DigitLadder DEF Ladder
<1> QED
  BY <1>2, DigitLadder DEF Text!B, Word!B

(* As many groups as it takes, and no more.                                *)
LEMMA GroupsIs ==
  ASSUME NEW n \in Nat, NEW g \in Nat \ {0}
  PROVE  LET c == Text!Groups(n, g)
         IN  /\ c \in Nat /\ g * c \in Nat /\ n <= g * c /\ g * c < n + g
             /\ \A k \in Nat : n <= g * k => c <= k
<1> DEFINE c == Text!Groups(n, g)  a == n + g - 1  r == a % g
<1>1. a \in Nat /\ c = a \div g
  BY DEF Text!Groups
<1>2. c \in Nat /\ r \in 0 .. g - 1 /\ a = g * c + r
  <2> HIDE DEF a
  <2> QED
    BY <1>1
<1> HIDE DEF c, r
<1>3. g * c \in Nat
  BY <1>2
<1>4. n <= g * c /\ g * c < n + g
  BY <1>2, <1>3
<1>5. ASSUME NEW k \in Nat, n <= g * k PROVE c <= k
  <2> SUFFICES ASSUME k + 1 <= c PROVE FALSE
    BY <1>2
  <2>1. g * (c - (k + 1)) >= 0
    BY <1>2
  <2>2. g * (c - (k + 1)) = g * c - (g * k + g) /\ g * k \in Int
    BY <1>2
  <2> QED
    BY <1>4, <1>3, <1>5, <2>1, <2>2
<1> QED
  BY <1>2, <1>3, <1>4, <1>5 DEF c

(* The powers of the limb, up to the longest text.                         *)
LEMMA LimbLadder ==
  Ladder(LimbPow, Word!B, Text!Groups(MaxText, Text!LimbDigits))
<1> DEFINE m == Text!Groups(MaxText, Text!LimbDigits)
<1>1. m \in Nat
  BY TextSizes, MaxLenAssumption, GroupsIs
<1>2. LimbPow[0] = 1
  <2>1. 0 \in 0 .. m
    BY <1>1
  <2> QED
    BY <2>1, TextPowersAssumption DEF LimbPow
<1>3. ASSUME NEW k \in 0 .. m - 1 PROVE LimbPow[k + 1] = Word!B * LimbPow[k]
  <2>1. k \in 0 .. m /\ k + 1 \in 0 .. m
    BY <1>1
  <2>2. Word!B^(k + 1) = Word!B * Word!B^k
    BY TextPowersAssumption
  <2> QED
    BY <2>1, <2>2 DEF LimbPow
<1> QED
  <2> HIDE DEF m
  <2>1. Ladder(LimbPow, Word!B, m)
    BY <1>1, <1>2, <1>3, WordRange, LadderIs
  <2> QED
    BY <2>1 DEF m

(* Val reads limbs as Number reads digits, from the last on.               *)
LEMMA WordValIs ==
  ASSUME NEW l \in Nat, NEW d, NEW x, \A j \in 0 .. l - 1 : x[j] = d[l - 1 - j],
         IsText(x, l, Word!B)
  PROVE  Word!Val(d, l) = Text!Number(x, l, Word!B)
<1> DEFINE Body(v) == [k \in 0 .. l |-> IF k = 0 THEN 0 ELSE d[l - k] + Word!B * v[k - 1]]
           V == CHOOSE v : v = Body(v)
<1>1. Word!Val(d, l) = V[l]
  BY DEF Word!Val
<1>2. PICK v \in [0 .. l -> Nat] : Reads(v, x, l, Word!B)
  BY WordRange, NumberFunction
<1>3. ASSUME NEW k \in 1 .. l PROVE v[k] = d[l - k] + Word!B * v[k - 1]
  <2>1. v[k - 1] \in Nat /\ k - 1 \in 0 .. l - 1 /\ l - 1 - (k - 1) = l - k
    BY <1>2
  <2>2. x[k - 1] = d[l - k] /\ x[k - 1] \in Int
    BY <2>1, WordRange DEF IsText
  <2> DEFINE p == v[k - 1]  q == x[k - 1]  b == Word!B
  <2>3. v[k] = p * b + q
    BY <1>2 DEF Reads
  <2>4. p \in Int /\ q \in Int /\ b \in Int
    BY <2>1, <2>2, WordRange
  <2> HIDE DEF p, q, b
  <2>5. p * b + q = q + b * p
    BY <2>4
  <2> QED
    BY <2>2, <2>3, <2>5 DEF p, q, b
<1>4. v = Body(v)
  BY <1>2, <1>3 DEF Reads
<1>5. V = Body(V)
  <2> HIDE DEF Body
  <2> QED
    BY <1>4
<1>6. V[0] = 0 /\ \A k \in 1 .. l : V[k] = d[l - k] + Word!B * V[k - 1]
  <2> HIDE DEF V
  <2> QED
    BY <1>5
<1> HIDE DEF V
<1> DEFINE T == {k \in 0 .. l : V[k] = v[k]}
<1>7. 0 \in T
  BY <1>2, <1>6 DEF Reads
<1>8. ASSUME NEW k \in 0 .. l - 1, k \in T PROVE k + 1 \in T
  <2>1. k + 1 \in 1 .. l /\ (k + 1) - 1 = k /\ V[k] = v[k]
    BY <1>8
  <2> QED
    BY <1>3, <1>6, <2>1
<1>9. 0 .. l \subseteq T
  <2> HIDE DEF T
  <2> QED
    BY <1>7, <1>8, InductionTo
<1>10. V[l] = v[l]
  BY <1>9
<1> QED
  BY <1>1, <1>2, <1>10 DEF Reads

(* Powers grow.                                                            *)
LEMMA LadderGrows ==
  ASSUME NEW base \in Nat \ {0}, NEW m \in Nat, NEW P, Ladder(P, base, m),
         NEW i \in 0 .. m, NEW j \in 0 .. m, i <= j
  PROVE  P[i] <= P[j]
<1> DEFINE T == {k \in 0 .. m - i : P[i] <= P[i + k]}
<1>1. 0 \in T
  <2>1. P[i] \in Nat /\ i + 0 = i
    BY DEF Ladder
  <2> QED
    BY <2>1
<1>2. ASSUME NEW k \in 0 .. (m - i) - 1, k \in T PROVE k + 1 \in T
  <2> DEFINE p == P[i + k]  q == P[i + (k + 1)]
  <2>1. i + k \in 0 .. m - 1 /\ i + k \in 0 .. m /\ i + (k + 1) = (i + k) + 1
    OBVIOUS
  <2>2. q = base * p /\ p \in Nat /\ P[i] \in Nat /\ P[i] <= p
    BY <1>2, <2>1 DEF Ladder
  <2> HIDE DEF p, q
  <2>3. base * p >= p
    <3>1. (base - 1) * p >= 0 /\ (base - 1) * p = base * p - p /\ base * p \in Int
      BY <2>2
    <3> QED
      BY <2>2, <3>1
  <2>4. P[i] <= q
    <3>1. base * p \in Int
      BY <2>2
    <3> QED
      BY <2>2, <2>3, <3>1
  <2> QED
    BY <2>4 DEF q
<1>3. 0 .. m - i \subseteq T
  <2>1. m - i \in Nat
    OBVIOUS
  <2> HIDE DEF T
  <2> QED
    BY <1>1, <1>2, <2>1, InductionTo
<1>4. j - i \in T /\ i + (j - i) = j
  BY <1>3
<1> QED
  BY <1>4

(* The zero limbs that the count leaves out.                               *)
LEMMA CountIs ==
  ASSUME NEW l \in Nat, NEW d, \A i \in 0 .. l - 1 : d[i] \in Nat
  PROVE  LET n == Text!NumLimbs(d, l)
         IN  /\ n \in 0 .. l
             /\ \A j \in n .. l - 1 : d[j] = 0
             /\ n > 0 => d[n - 1] > 0
<1>1. Text!NumLimbs(d, l) = NumLimbs(d, l)
  BY DEF Text!NumLimbs, NumLimbs
<1>2. PICK c : Counts(c, d, l)
  BY NumLimbsCounts
<1> DEFINE T == {k \in 0 .. l : /\ c[k] \in 0 .. k
                                /\ \A j \in c[k] .. k - 1 : d[j] = 0
                                /\ c[k] > 0 => d[c[k] - 1] > 0}
<1>3. 0 \in T
  BY <1>2 DEF Counts
<1>4. ASSUME NEW k \in 0 .. l - 1, k \in T PROVE k + 1 \in T
  <2>1. k + 1 \in 1 .. l /\ (k + 1) - 1 = k /\ k \in 0 .. l - 1
    OBVIOUS
  <2>2. c[k + 1] = IF d[k] > 0 THEN k + 1 ELSE c[k]
    BY <1>2, <2>1 DEF Counts
  <2>3. d[k] \in Nat
    OBVIOUS
  <2>4. CASE d[k] > 0
    BY <2>1, <2>2, <2>3, <2>4
  <2>5. CASE d[k] = 0
    <3>1. c[k + 1] = c[k] /\ c[k] \in 0 .. k
      BY <2>2, <2>5, <1>4
    <3>2. \A j \in c[k] .. (k + 1) - 1 : j \in c[k] .. k - 1 \/ j = k
      BY <3>1
    <3> QED
      BY <1>4, <2>1, <2>5, <3>1, <3>2
  <2> QED
    BY <2>3, <2>4, <2>5
<1>5. l \in T
  <2>1. 0 .. l \subseteq T
    <3> HIDE DEF T
    <3> QED
      BY <1>3, <1>4, InductionTo
  <2> QED
    BY <2>1
<1> QED
  BY <1>1, <1>2, <1>5 DEF Counts

(* The count is the position of the number among the powers of the limb.   *)
Top(v, limbs) ==
  IF v = 0 THEN 0 ELSE CHOOSE l \in 1 .. limbs : v \in Word!B^(l - 1) .. Word!B^l - 1

(* ll_num_limbs counts the limbs that the value needs.                     *)
LEMMA TopIs ==
  ASSUME NEW l \in Nat, l <= Text!Groups(MaxText, Text!LimbDigits),
         NEW d, \A i \in 0 .. l - 1 : d[i] \in 0 .. Word!B - 1
  PROVE  Text!NumLimbs(d, l) = Top(Word!Val(d, l), l)
<1> DEFINE WB == Word!B  n == Text!NumLimbs(d, l)  v == Word!Val(d, l)
           x == [j \in 0 .. l - 1 |-> d[l - 1 - j]]
           y == [j \in 0 .. n - 1 |-> d[n - 1 - j]]
           m == Text!Groups(MaxText, Text!LimbDigits)
<1>1. WB \in Nat \ {0}
  BY WordRange
<1>2. m \in Nat /\ Ladder(LimbPow, WB, m)
  BY TextSizes, MaxLenAssumption, GroupsIs, LimbLadder
<1>3. /\ n \in 0 .. l
      /\ \A j \in n .. l - 1 : d[j] = 0
      /\ n > 0 => d[n - 1] > 0
  <2>1. \A i \in 0 .. l - 1 : d[i] \in Nat
    BY <1>1
  <2> QED
    BY <2>1, CountIs
<1>4. IsText(x, l, WB) /\ v = Text!Number(x, l, WB)
  <2>1. \A j \in 0 .. l - 1 : x[j] = d[l - 1 - j]
    OBVIOUS
  <2>2. IsText(x, l, WB)
    <3> SUFFICES ASSUME NEW j \in 0 .. l - 1 PROVE x[j] \in 0 .. WB - 1
      BY DEF IsText
    <3>1. l - 1 - j \in 0 .. l - 1
      OBVIOUS
    <3> QED
      BY <3>1
  <2> HIDE DEF x
  <2> QED
    BY <2>1, <2>2, WordValIs
<1> HIDE DEF n, v, m
<1>5. IsText(y, n, WB)
  <2> SUFFICES ASSUME NEW j \in 0 .. n - 1 PROVE y[j] \in 0 .. WB - 1
    BY DEF IsText
  <2>1. n - 1 - j \in 0 .. l - 1
    BY <1>3
  <2> QED
    BY <2>1
<1>6. l <= m
  BY DEF m
<1>7. v = Text!Number(y, n, WB)
  <2> DEFINE h == l - n
  <2>1. h \in Nat /\ h + n = l /\ n \in Nat /\ n <= m
    BY <1>2, <1>3, <1>6
  <2>2. Padded(x, y, h, n)
    <3> SUFFICES ASSUME NEW j \in 0 .. l - 1 PROVE x[j] = IF j < h THEN 0 ELSE y[j - h]
      BY <2>1 DEF Padded
    <3>1. CASE j < h
      <4>1. l - 1 - j \in n .. l - 1
        BY <1>3, <3>1
      <4> QED
        BY <1>3, <3>1, <4>1
    <3>2. CASE ~(j < h)
      <4>1. j - h \in 0 .. n - 1 /\ n - 1 - (j - h) = l - 1 - j
        BY <1>3, <3>2
      <4> QED
        BY <3>2, <4>1
    <3> QED
      BY <3>1, <3>2
  <2> HIDE DEF h, x, y, WB
  <2>3. Text!Number(x, h + n, WB) = Text!Number(y, n, WB)
    BY <1>1, <1>2, <1>5, <2>1, <2>2, NumberPad
  <2> QED
    BY <1>4, <2>1, <2>3
<1>8. v \in Nat /\ v < LimbPow[n]
  <2> HIDE DEF y, WB
  <2>1. n \in Nat /\ n <= m /\ WB \in Nat
    BY <1>1, <1>2, <1>3, <1>6
  <2>2. Text!Number(y, n, WB) \in Nat /\ Text!Number(y, n, WB) < LimbPow[n]
    BY <1>2, <1>5, <2>1, NumberRange
  <2> QED
    BY <1>7, <2>2
<1>9. ASSUME n > 0 PROVE v >= LimbPow[n - 1] /\ LimbPow[n - 1] \in Nat \ {0}
  <2> DEFINE h == n - 1  z == [j \in 0 .. h - 1 |-> y[1 + j]]  q == LimbPow[h]
  <2>1. h \in Nat /\ 1 + h = n /\ h <= m /\ h \in 0 .. m
    BY <1>2, <1>3, <1>6, <1>9
  <2>2. Piece(z, y, 1, h)
    BY DEF Piece
  <2>3. y[0] = d[n - 1] /\ y[0] \in Nat \ {0}
    <3>1. 0 \in 0 .. n - 1 /\ n - 1 - 0 = n - 1 /\ n - 1 \in 0 .. l - 1
      BY <1>3, <1>9
    <3>2. y[0] = d[n - 1]
      BY <3>1
    <3>3. d[n - 1] \in Nat
      BY <1>1, <3>1
    <3> HIDE DEF y
    <3> QED
      BY <1>3, <1>9, <3>2, <3>3
  <2>4. q \in Nat \ {0}
    BY <1>2, <2>1 DEF Ladder
  <2> HIDE DEF h, z, y, WB
  <2>5. IsText(y, 1, WB) /\ IsText(z, h, WB)
        /\ Text!Number(y, 1 + h, WB) = Text!Number(y, 1, WB) * LimbPow[h] + Text!Number(z, h, WB)
    <3>1. IsText(y, 1 + h, WB) /\ WB \in Nat /\ 1 \in Nat
      BY <1>1, <1>5, <2>1
    <3> QED
      BY <1>2, <2>1, <2>2, <3>1, NumberSplit
  <2>6. Text!Number(z, h, WB) \in Nat
    <3>1. WB \in Nat
      BY <1>1
    <3> QED
      BY <1>2, <2>1, <2>5, <3>1, NumberRange
  <2>7. Text!Number(y, 1, WB) = y[0]
    <3>1. IsText(y, 0 + 1, WB) /\ 0 \in Nat /\ WB \in Nat
      BY <1>1, <2>5
    <3>2. Text!Number(y, 0 + 1, WB) = Text!Number(y, 0, WB) * WB + y[0]
      BY <3>1, NumberStep
    <3>3. Text!Number(y, 0, WB) = 0
      BY <3>1, NumberEmpty
    <3>4. 0 * WB + y[0] = y[0]
      BY <2>3, <3>1
    <3> QED
      BY <3>2, <3>3, <3>4
  <2> DEFINE e == y[0]  t == Text!Number(z, h, WB)
  <2>8. v = e * q + t /\ e \in Nat \ {0} /\ t \in Nat
    BY <1>7, <2>1, <2>3, <2>5, <2>6, <2>7
  <2> HIDE DEF e, t, q
  <2>9. (e - 1) * q >= 0 /\ (e - 1) * q = e * q - q /\ e * q \in Int
    BY <2>4, <2>8
  <2>10. v >= q
    BY <2>4, <2>8, <2>9
  <2> QED
    BY <2>4, <2>10 DEF q, h
<1>10. LimbPow[0] = 1
  BY <1>2 DEF Ladder
<1>11. CASE n = 0
  <2>1. v = 0
    BY <1>8, <1>10, <1>11
  <2> QED
    BY <1>11, <2>1 DEF Top, n, v
<1>12. CASE n > 0
  <2>1. v # 0 /\ n \in 1 .. l
    BY <1>3, <1>8, <1>9, <1>12
  <2>2. \A k \in 0 .. m : LimbPow[k] = WB^k /\ LimbPow[k] \in Nat
    BY <1>2 DEF LimbPow, m, Ladder
  <2>3. ASSUME NEW k \in 1 .. l PROVE k - 1 \in 0 .. m /\ k \in 0 .. m
    BY <1>2, <1>6
  <2>4. v \in WB^(n - 1) .. WB^n - 1
    <3>1. WB^(n - 1) = LimbPow[n - 1] /\ WB^n = LimbPow[n] /\ LimbPow[n] \in Nat
      BY <2>1, <2>2, <2>3
    <3> HIDE DEF WB
    <3> QED
      BY <1>8, <1>9, <1>12, <3>1
  <2>5. ASSUME NEW k \in 1 .. l, v \in WB^(k - 1) .. WB^k - 1 PROVE k = n
    <3>1. WB^(k - 1) = LimbPow[k - 1] /\ WB^k = LimbPow[k] /\ LimbPow[k] \in Nat
          /\ LimbPow[k - 1] \in Nat
      BY <2>2, <2>3
    <3>2. v >= LimbPow[k - 1] /\ v < LimbPow[k]
      <4> HIDE DEF WB
      <4> QED
        BY <1>8, <2>5, <3>1
    <3> HIDE DEF WB
    <3>3. ASSUME k < n PROVE FALSE
      <4>1. k \in 0 .. m /\ n - 1 \in 0 .. m /\ k <= n - 1
        BY <2>1, <2>3, <3>3
      <4>2. LimbPow[k] <= LimbPow[n - 1]
        BY <1>1, <1>2, <4>1, LadderGrows
      <4> QED
        BY <1>8, <1>9, <1>12, <3>1, <3>2, <4>2
    <3>4. ASSUME n < k PROVE FALSE
      <4>1. n \in 0 .. m /\ k - 1 \in 0 .. m /\ n <= k - 1
        BY <2>1, <2>3, <3>4
      <4>2. LimbPow[n] <= LimbPow[k - 1] /\ LimbPow[n] \in Nat
        BY <1>1, <1>2, <2>2, <4>1, LadderGrows
      <4> QED
        BY <1>8, <3>1, <3>2, <4>2
    <3> QED
      BY <1>3, <3>3, <3>4
  <2>6. n = CHOOSE k \in 1 .. l : v \in WB^(k - 1) .. WB^k - 1
    <3> HIDE DEF WB
    <3> QED
      BY <2>1, <2>4, <2>5
  <2> QED
    BY <2>1, <2>6 DEF Top, n, v
<1> QED
  BY <1>3, <1>11, <1>12 DEF n

(* The bytes of a word in the order of the addresses, or back to front.    *)
Reversed(y, x, k) == \A i \in 0 .. k - 1 : y[i] = x[k - 1 - i]
Ordered(y, x, k, order) ==
  \A i \in 0 .. k - 1 : y[i] = IF order = "big" THEN x[i] ELSE x[k - 1 - i]

(* The bytes of a number of k bytes, as a machine stores it.               *)
LEMMA BytesOfIs ==
  ASSUME NEW k \in Nat, k <= Text!LimbBytes, NEW y, IsText(y, k, Text!Byte),
         NEW end \in Text!Orders
  PROVE  Text!BytesOf(Text!Number(y, k, Text!Byte), k, end)
         = [i \in 0 .. k - 1 |-> IF end = "big" THEN y[i] ELSE y[k - 1 - i]]
<1> DEFINE m == Text!LimbBytes  b == Text!Byte  z == Text!Number(y, k, Text!Byte)
<1>1. m \in Nat /\ b \in Nat \ {0}
  BY TextSizes
<1>2. \A e \in 0 .. m : BytePow[e] = b^e
  BY DEF BytePow
<1>3. Ladder(BytePow, b, m)
  BY ByteLadder
<1>4. ASSUME NEW j \in 0 .. k - 1 PROVE (z \div b^(k - 1 - j)) % b = y[j]
  <2>1. k - 1 - j \in 0 .. m
    BY <1>1
  <2> HIDE DEF m, b
  <2>2. k <= m /\ IsText(y, k, b)
    BY DEF m, b
  <2>3. (Text!Number(y, k, b) \div BytePow[k - 1 - j]) % b = y[j]
    BY <1>1, <1>3, <2>2, NumberDigit
  <2> QED
    BY <1>2, <2>1, <2>3 DEF b
<1>5. ASSUME NEW i \in 0 .. k - 1
      PROVE  (z \div b^(IF end = "big" THEN k - 1 - i ELSE i)) % b
             = IF end = "big" THEN y[i] ELSE y[k - 1 - i]
  <2> HIDE DEF z, b
  <2>1. CASE end = "big"
    BY <1>4, <2>1
  <2>2. CASE end # "big"
    <3>1. k - 1 - i \in 0 .. k - 1 /\ k - 1 - (k - 1 - i) = i
      OBVIOUS
    <3>2. (z \div b^(k - 1 - (k - 1 - i))) % b = y[k - 1 - i]
      BY <1>4, <3>1
    <3> QED
      BY <2>2, <3>1, <3>2
  <2> QED
    BY <2>1, <2>2
<1> QED
  BY <1>5 DEF Text!BytesOf

(* What a machine loads from k bytes at p.                                 *)
LEMMA LoadIs ==
  ASSUME NEW k \in Nat, NEW t, NEW p, NEW y, NEW end \in Text!Orders,
         IsText(y, k, Text!Byte),
         \A i \in 0 .. k - 1 : y[i] = IF end = "big" THEN t[p + i] ELSE t[p + k - 1 - i]
  PROVE  Text!Load(t, p, k, end) = Text!Number(y, k, Text!Byte)
<1> DEFINE x == [i \in 0 .. k - 1 |-> IF end = "big" THEN t[p + i] ELSE t[p + k - 1 - i]]
<1>1. Text!Load(t, p, k, end) = Text!Number(x, k, Text!Byte)
  BY DEF Text!Load
<1>2. \A i \in 0 .. k - 1 : x[i] = y[i]
  OBVIOUS
<1> HIDE DEF x
<1>3. Text!Byte \in Nat
  BY TextSizes
<1>4. Text!Number(x, k, Text!Byte) = Text!Number(y, k, Text!Byte)
  BY <1>2, <1>3, NumberSame
<1> QED
  BY <1>1, <1>4

(* The bytes in the other order are bytes, and reversed twice they are     *)
(* the same.                                                               *)
LEMMA ReversedText ==
  ASSUME NEW k \in Nat, NEW base, NEW x, IsText(x, k, base), NEW y, Reversed(y, x, k)
  PROVE  IsText(y, k, base) /\ Reversed(x, y, k)
<1>1. \A i \in 0 .. k - 1 : k - 1 - i \in 0 .. k - 1 /\ k - 1 - (k - 1 - i) = i
  OBVIOUS
<1> QED
  BY <1>1 DEF IsText, Reversed

(* ll_bswap4 and ll_bswap8 put the last byte first.                        *)
LEMMA SwapIs ==
  ASSUME NEW k \in Nat, k <= Text!LimbBytes, NEW x, IsText(x, k, Text!Byte),
         NEW y, Reversed(y, x, k)
  PROVE  Text!Swap(Text!Number(x, k, Text!Byte), k) = Text!Number(y, k, Text!Byte)
<1> DEFINE t == Text!BytesOf(Text!Number(x, k, Text!Byte), k, "little")
<1>1. t = [i \in 0 .. k - 1 |-> IF "little" = "big" THEN x[i] ELSE x[k - 1 - i]]
  <2>1. "little" \in Text!Orders
    BY DEF Text!Orders
  <2> QED
    BY <2>1, BytesOfIs
<1>2. Text!Swap(Text!Number(x, k, Text!Byte), k) = Text!Load(t, 0, k, "big")
  BY DEF Text!Swap
<1> HIDE DEF t
<1>3. \A i \in 0 .. k - 1 : y[i] = IF "big" = "big" THEN t[0 + i] ELSE t[0 + k - 1 - i]
  BY <1>1 DEF Reversed
<1>4. IsText(y, k, Text!Byte)
  BY ReversedText
<1>5. Text!Load(t, 0, k, "big") = Text!Number(y, k, Text!Byte)
  <2>1. "big" \in Text!Orders
    BY DEF Text!Orders
  <2> QED
    BY <1>3, <1>4, <2>1, LoadIs
<1> QED
  BY <1>2, <1>5

(* u8_to_u32 and u8_to_u64: the number that the bytes stand for with zeros *)
(* in front, read forward or backward as the caller asks, whatever the     *)
(* byte order of the machine.                                              *)
LEMMA U8ToWordIs ==
  ASSUME NEW k \in Nat, k <= Text!LimbBytes, NEW n \in 0 .. k, NEW b, IsText(b, n, Text!Byte),
         NEW y, Padded(y, b, k - n, n), NEW w, NEW order \in Text!Orders, NEW end \in Text!Orders,
         Ordered(w, y, k, order)
  PROVE  /\ Text!U8ToWord(b, n, k, order, end).ok
         /\ Text!U8ToWord(b, n, k, order, end).z = Text!Number(w, k, Text!Byte)
         /\ IsText(y, k, Text!Byte) /\ IsText(w, k, Text!Byte)
<1> DEFINE t == [j \in 0 .. k + n - 1 |-> IF j < k THEN 0 ELSE b[j - k]]
           x == [i \in 0 .. k - 1 |-> y[k - 1 - i]]
           z == Text!Load(t, n, k, end)
<1>1. Text!U8ToWord(b, n, k, order, end).ok
  <2>1. Text!U8ToWord(b, n, k, order, end).ok = (n <= k)
    BY Zenon DEF Text!U8ToWord
  <2>2. n <= k
    OBVIOUS
  <2> QED
    BY <2>1, <2>2
<1>2. Text!U8ToWord(b, n, k, order, end).z = IF order = end THEN z ELSE Text!Swap(z, k)
  BY DEF Text!U8ToWord
<1>3. n \in Nat /\ k - n \in Nat /\ (k - n) + n = k /\ Text!Byte \in Nat \ {0}
  BY TextSizes
<1>4. IsText(y, k, Text!Byte)
  <2> SUFFICES ASSUME NEW j \in 0 .. k - 1 PROVE y[j] \in 0 .. Text!Byte - 1
    BY DEF IsText
  <2>1. y[j] = IF j < k - n THEN 0 ELSE b[j - (k - n)]
    BY <1>3 DEF Padded
  <2>2. CASE j < k - n
    BY <1>3, <2>1, <2>2
  <2>3. CASE ~(j < k - n)
    <3>1. j - (k - n) \in 0 .. n - 1
      BY <1>3, <2>3
    <3> QED
      BY <2>1, <2>3, <3>1 DEF IsText
  <2> QED
    BY <2>2, <2>3
<1>5. Reversed(x, y, k)
  BY DEF Reversed
<1>6. IsText(x, k, Text!Byte) /\ Reversed(y, x, k)
  <2> HIDE DEF x
  <2> QED
    BY <1>4, <1>5, ReversedText
<1>7. \A i \in 0 .. k - 1 : t[n + i] = y[i]
  <2> SUFFICES ASSUME NEW i \in 0 .. k - 1 PROVE t[n + i] = y[i]
    OBVIOUS
  <2>1. n + i \in 0 .. k + n - 1
    BY <1>3
  <2>2. y[i] = IF i < k - n THEN 0 ELSE b[i - (k - n)]
    BY <1>3 DEF Padded
  <2>3. (n + i < k) = (i < k - n) /\ (n + i) - k = i - (k - n)
    BY <1>3
  <2>4. t[n + i] = IF n + i < k THEN 0 ELSE b[(n + i) - k]
    BY <2>1
  <2> QED
    BY <2>2, <2>3, <2>4
<1>8. z = IF end = "big" THEN Text!Number(y, k, Text!Byte) ELSE Text!Number(x, k, Text!Byte)
  <2> HIDE DEF t, x
  <2>1. CASE end = "big"
    <3>1. \A i \in 0 .. k - 1 : y[i] = IF end = "big" THEN t[n + i] ELSE t[n + k - 1 - i]
      BY <1>7, <2>1
    <3>2. z = Text!Number(y, k, Text!Byte)
      BY <1>4, <3>1, LoadIs
    <3> QED
      BY <2>1, <3>2
  <2>2. CASE end # "big"
    <3>1. \A i \in 0 .. k - 1 : x[i] = IF end = "big" THEN t[n + i] ELSE t[n + k - 1 - i]
      <4> SUFFICES ASSUME NEW i \in 0 .. k - 1 PROVE x[i] = t[n + k - 1 - i]
        BY <2>2
      <4>1. k - 1 - i \in 0 .. k - 1 /\ n + (k - 1 - i) = n + k - 1 - i
        BY <1>3
      <4>2. t[n + k - 1 - i] = y[k - 1 - i]
        BY <1>7, <4>1
      <4> QED
        BY <1>5, <4>2 DEF Reversed
    <3>2. z = Text!Number(x, k, Text!Byte)
      BY <1>6, <3>1, LoadIs
    <3> QED
      BY <2>2, <3>2
  <2> QED
    BY <2>1, <2>2
<1> HIDE DEF z, x, t
<1>9. Text!Swap(Text!Number(y, k, Text!Byte), k) = Text!Number(x, k, Text!Byte)
  BY <1>4, <1>5, SwapIs
<1>10. Text!Swap(Text!Number(x, k, Text!Byte), k) = Text!Number(y, k, Text!Byte)
  BY <1>6, SwapIs
<1>11. order \in {"big", "little"} /\ end \in {"big", "little"}
  BY DEF Text!Orders
<1>12. CASE order = "big"
  <2>1. \A i \in 0 .. k - 1 : w[i] = y[i]
    BY <1>12 DEF Ordered
  <2>2. IsText(w, k, Text!Byte)
    BY <1>4, <2>1 DEF IsText
  <2>3. Text!Number(w, k, Text!Byte) = Text!Number(y, k, Text!Byte)
    BY <1>3, <1>4, <2>1, NumberSame
  <2>4. Text!U8ToWord(b, n, k, order, end).z = Text!Number(y, k, Text!Byte)
    BY <1>2, <1>8, <1>10, <1>11, <1>12
  <2> QED
    BY <1>1, <1>4, <2>2, <2>3, <2>4
<1>13. CASE order = "little"
  <2>1. \A i \in 0 .. k - 1 : w[i] = x[i]
    BY <1>5, <1>13 DEF Ordered, Reversed
  <2>2. IsText(w, k, Text!Byte)
    BY <1>6, <2>1 DEF IsText
  <2>3. Text!Number(w, k, Text!Byte) = Text!Number(x, k, Text!Byte)
    BY <1>3, <1>6, <2>1, NumberSame
  <2>4. Text!U8ToWord(b, n, k, order, end).z = Text!Number(x, k, Text!Byte)
    BY <1>2, <1>8, <1>9, <1>11, <1>13
  <2> QED
    BY <1>1, <1>4, <2>2, <2>3, <2>4
<1> QED
  BY <1>11, <1>12, <1>13

(* u32_to_u8 and u64_to_u8 give the bytes back.                            *)
LEMMA WordToU8Is ==
  ASSUME NEW k \in Nat, k <= Text!LimbBytes, NEW y, IsText(y, k, Text!Byte),
         NEW w, NEW order \in Text!Orders, NEW end \in Text!Orders, Ordered(w, y, k, order)
  PROVE  Text!WordToU8(Text!Number(w, k, Text!Byte), k, order, end)
         = [i \in 0 .. k - 1 |-> y[i]]
<1> DEFINE v == [i \in 0 .. k - 1 |-> w[k - 1 - i]]
           z == Text!Number(w, k, Text!Byte)
<1>1. Text!WordToU8(z, k, order, end) =
        Text!BytesOf(IF order = end THEN z ELSE Text!Swap(z, k), k, end)
  BY DEF Text!WordToU8
<1>2. \A i \in 0 .. k - 1 : k - 1 - i \in 0 .. k - 1 /\ k - 1 - (k - 1 - i) = i
  OBVIOUS
<1>3. IsText(w, k, Text!Byte)
  BY <1>2 DEF IsText, Ordered
<1>4. Reversed(v, w, k)
  BY DEF Reversed
<1>5. IsText(v, k, Text!Byte)
  <2> HIDE DEF v
  <2> QED
    BY <1>3, <1>4, ReversedText
<1> HIDE DEF v
<1>6. order \in {"big", "little"} /\ end \in {"big", "little"}
  BY DEF Text!Orders
<1>7. Text!BytesOf(z, k, end) = [i \in 0 .. k - 1 |-> IF end = "big" THEN w[i] ELSE w[k - 1 - i]]
  BY <1>3, BytesOfIs
<1>8. Text!Swap(z, k) = Text!Number(v, k, Text!Byte)
  BY <1>3, <1>4, SwapIs
<1>9. Text!BytesOf(Text!Number(v, k, Text!Byte), k, end)
        = [i \in 0 .. k - 1 |-> IF end = "big" THEN v[i] ELSE v[k - 1 - i]]
  BY <1>5, BytesOfIs
<1> HIDE DEF z
<1>10. CASE order = end
  <2>1. Text!WordToU8(z, k, order, end)
          = [i \in 0 .. k - 1 |-> IF end = "big" THEN w[i] ELSE w[k - 1 - i]]
    BY <1>1, <1>7, <1>10
  <2>2. \A i \in 0 .. k - 1 : (IF end = "big" THEN w[i] ELSE w[k - 1 - i]) = y[i]
    BY <1>2, <1>6, <1>10 DEF Ordered
  <2> QED
    BY <2>1, <2>2 DEF z
<1>11. CASE order # end
  <2>1. Text!WordToU8(z, k, order, end)
          = [i \in 0 .. k - 1 |-> IF end = "big" THEN v[i] ELSE v[k - 1 - i]]
    BY <1>1, <1>8, <1>9, <1>11
  <2>2. \A i \in 0 .. k - 1 : v[i] = w[k - 1 - i] /\ v[k - 1 - i] = w[i]
    BY <1>2, <1>4 DEF Reversed
  <2>3. \A i \in 0 .. k - 1 : (IF end = "big" THEN v[i] ELSE v[k - 1 - i]) = y[i]
    BY <1>2, <1>6, <1>11, <2>2 DEF Ordered
  <2> QED
    BY <2>1, <2>3 DEF z
<1> QED
  BY <1>10, <1>11

(* The digits of the bytes of a text, two for each.                        *)
HexOf(y, k) ==
  [j \in 0 .. 2 * k - 1 |->
     IF j % 2 = 0 THEN y[j \div 2] \div Text!D ELSE y[j \div 2] % Text!D]

(* A digit is one of the two of its byte.                                  *)
LEMMA HalvesOf ==
  ASSUME NEW k \in Nat, NEW j \in 0 .. 2 * k - 1
  PROVE  /\ j \div 2 \in 0 .. k - 1
         /\ j % 2 = 0 => j = 2 * (j \div 2)
         /\ j % 2 # 0 => j = 2 * (j \div 2) + 1
  OBVIOUS

(* The digits of some bytes stand for the number that the bytes stand      *)
(* for.                                                                    *)
LEMMA DigitsAre ==
  ASSUME NEW k \in Nat, NEW y, IsText(y, k, Text!Byte)
  PROVE  /\ IsText(HexOf(y, k), 2 * k, Text!D)
         /\ Text!Number(HexOf(y, k), 2 * k, Text!D) = Text!Number(y, k, Text!Byte)
<1> DEFINE x == HexOf(y, k)
           d == Text!D
<1>1. d \in Nat \ {0} /\ Text!Byte = d * d
  BY TextSizes
<1>2. \A i \in 0 .. k - 1 : y[i] \div d \in 0 .. d - 1 /\ y[i] % d \in 0 .. d - 1
                            /\ y[i] = (y[i] \div d) * d + (y[i] % d)
  <2> SUFFICES ASSUME NEW i \in 0 .. k - 1
               PROVE  y[i] \div d \in 0 .. d - 1 /\ y[i] % d \in 0 .. d - 1
                      /\ y[i] = (y[i] \div d) * d + (y[i] % d)
    OBVIOUS
  <2> DEFINE v == y[i]  q == v \div d  r == v % d
  <2>1. v \in 0 .. d * d - 1
    BY <1>1 DEF IsText
  <2> HIDE DEF v, d
  <2>2. q \in Int /\ r \in 0 .. d - 1 /\ v = d * q + r
    BY <1>1, <2>1
  <2> HIDE DEF q, r
  <2>3. d * q \in Int /\ d * q = q * d /\ d * d \in Int
    BY <1>1, <2>2
  <2>4. q >= 0
    <3> SUFFICES ASSUME q <= -1 PROVE FALSE
      BY <2>2
    <3>1. d * (-1 - q) >= 0 /\ d * (-1 - q) = -d - d * q
      BY <1>1, <2>2
    <3> QED
      BY <1>1, <2>1, <2>2, <2>3, <3>1
  <2>5. q < d
    <3> SUFFICES ASSUME q >= d PROVE FALSE
      BY <1>1, <2>2
    <3>1. d * (q - d) >= 0 /\ d * (q - d) = d * q - d * d
      BY <1>1, <2>2
    <3> QED
      BY <2>1, <2>2, <2>3, <3>1
  <2>6. q \in 0 .. d - 1 /\ r \in 0 .. d - 1 /\ v = q * d + r
    BY <1>1, <2>2, <2>3, <2>4, <2>5
  <2> QED
    BY <2>6 DEF q, r, v
<1>3. \A j \in 0 .. 2 * k - 1 : x[j] = IF j % 2 = 0 THEN y[j \div 2] \div d ELSE y[j \div 2] % d
  BY DEF HexOf
<1> HIDE DEF x
<1>4. IsText(x, 2 * k, Text!D)
  <2> SUFFICES ASSUME NEW j \in 0 .. 2 * k - 1 PROVE x[j] \in 0 .. Text!D - 1
    BY DEF IsText
  <2>1. j \div 2 \in 0 .. k - 1
    BY HalvesOf
  <2> QED
    BY <1>1, <1>2, <1>3, <2>1
<1>5. \A i \in 0 .. k - 1 : y[i] = x[2 * i] * Text!D + x[2 * i + 1]
  <2> SUFFICES ASSUME NEW i \in 0 .. k - 1 PROVE y[i] = x[2 * i] * Text!D + x[2 * i + 1]
    OBVIOUS
  <2>1. /\ 2 * i \in 0 .. 2 * k - 1 /\ (2 * i) % 2 = 0 /\ (2 * i) \div 2 = i
        /\ 2 * i + 1 \in 0 .. 2 * k - 1 /\ (2 * i + 1) % 2 = 1 /\ (2 * i + 1) \div 2 = i
    OBVIOUS
  <2>2. x[2 * i] = y[i] \div d /\ x[2 * i + 1] = y[i] % d
    BY <1>3, <2>1
  <2> QED
    BY <1>1, <1>2, <2>2
<1>6. Text!Number(x, 2 * k, Text!D) = Text!Number(y, k, Text!D * Text!D)
  <2>1. Text!D \in Nat \ {0}
    BY <1>1
  <2> QED
    BY <1>4, <1>5, <2>1, NumberPairs
<1>7. Text!Number(x, 2 * k, Text!D) = Text!Number(y, k, Text!Byte)
  <2>1. Text!D * Text!D = Text!Byte
    BY <1>1
  <2> HIDE DEF x
  <2> QED
    BY <1>6, <2>1
<1> QED
  BY <1>4, <1>7 DEF x

(* u8_to_hex, u64_to_hex *)
LEMMA U64ToHexIs ==
  ASSUME NEW k \in Nat, k <= Text!LimbBytes, NEW y, IsText(y, k, Text!Byte),
         NEW w, NEW order \in Text!Orders, NEW end \in Text!Orders, Ordered(w, y, k, order)
  PROVE  Text!U64ToHex(Text!Number(w, k, Text!Byte), k, order, end) = HexOf(y, k)
<1> DEFINE z == Text!Number(w, k, Text!Byte)  b == Text!WordToU8(z, k, order, end)
<1>1. b = [i \in 0 .. k - 1 |-> y[i]]
  BY WordToU8Is
<1>2. Text!U64ToHex(z, k, order, end) = Text!U8ToHex(b, k)
  BY DEF Text!U64ToHex
<1> HIDE DEF b
<1>3. \A j \in 0 .. 2 * k - 1 : b[j \div 2] = y[j \div 2]
  <2> SUFFICES ASSUME NEW j \in 0 .. 2 * k - 1 PROVE b[j \div 2] = y[j \div 2]
    OBVIOUS
  <2>1. j \div 2 \in 0 .. k - 1
    BY HalvesOf
  <2> QED
    BY <1>1, <2>1
<1>4. Text!U8ToHex(b, k) = HexOf(y, k)
  BY <1>3 DEF Text!U8ToHex, HexOf
<1> QED
  BY <1>2, <1>4

(* u32_to_hex: its table holds the places of the digits, for either order. *)
LEMMA U32ToHexIs ==
  ASSUME NEW k \in Nat, k <= Text!LimbBytes, NEW y, IsText(y, k, Text!Byte),
         NEW w, NEW order \in Text!Orders, Ordered(w, y, k, order)
  PROVE  Text!U32ToHex(Text!Number(w, k, Text!Byte), k, order) = HexOf(y, k)
<1> DEFINE z == Text!Number(w, k, Text!Byte)  d == Text!D  m == Text!LimbDigits
           x == HexOf(w, k)  n == 2 * k
           place(j) == IF order = "big" THEN 2 * k - 1 - j
                       ELSE IF j % 2 = 0 THEN j + 1 ELSE j - 1
<1>1. m \in Nat /\ n \in Nat /\ n <= m /\ d \in Nat \ {0} /\ Text!Byte \in Nat
  BY TextSizes
<1>2. \A i \in 0 .. k - 1 : k - 1 - i \in 0 .. k - 1
  OBVIOUS
<1>3. IsText(w, k, Text!Byte)
  BY <1>2 DEF IsText, Ordered
<1>4. IsText(x, n, d) /\ z = Text!Number(x, n, d)
  BY <1>3, DigitsAre
<1>5. Ladder(DigitPow, d, m)
  BY DigitLadder
<1>6. \A q \in 0 .. m : DigitPow[q] = d^q
  BY DEF DigitPow
<1>7. \A j \in 0 .. n - 1 :
        x[j] = IF j % 2 = 0 THEN w[j \div 2] \div d ELSE w[j \div 2] % d
  BY DEF HexOf
<1>8. ASSUME NEW q \in 0 .. n - 1 PROVE (z \div d^q) % d = x[n - 1 - q]
  <2>1. n - 1 - q \in 0 .. n - 1 /\ n - 1 - (n - 1 - q) = q /\ q \in 0 .. m
    BY <1>1
  <2> HIDE DEF x, n, d, m, z
  <2>2. (Text!Number(x, n, d) \div DigitPow[n - 1 - (n - 1 - q)]) % d = x[n - 1 - q]
    BY <1>1, <1>4, <1>5, <2>1, NumberDigit
  <2> QED
    BY <1>4, <1>6, <2>1, <2>2
<1> HIDE DEF x, d, m, z
<1>9. order \in {"big", "little"}
  BY DEF Text!Orders
<1>10. ASSUME NEW j \in 0 .. n - 1
       PROVE  (z \div d^(place(j))) % d = IF j % 2 = 0 THEN y[j \div 2] \div d ELSE y[j \div 2] % d
  <2>0. j \div 2 \in 0 .. k - 1 /\ (j % 2 = 0 => j = 2 * (j \div 2))
        /\ (j % 2 # 0 => j = 2 * (j \div 2) + 1)
    BY HalvesOf
  <2>1. CASE order = "big"
    <3>1. place(j) = n - 1 - j /\ n - 1 - j \in 0 .. n - 1 /\ n - 1 - (n - 1 - j) = j
      BY <2>1
    <3>2. (z \div d^(n - 1 - j)) % d = x[j]
      BY <1>8, <3>1
    <3>3. w[j \div 2] = y[j \div 2]
      BY <2>0, <2>1 DEF Ordered
    <3> QED
      BY <1>7, <3>1, <3>2, <3>3
  <2>2. CASE order = "little" /\ j % 2 = 0
    <3> DEFINE i == j \div 2  e == n - 1 - (j + 1)  p == k - 1 - i
    <3>1. i \in 0 .. k - 1 /\ j = 2 * i
      BY <2>0, <2>2
    <3> HIDE DEF i
    <3>2. /\ j + 1 \in 0 .. n - 1 /\ e \in 0 .. n - 1 /\ e = 2 * p /\ p \in 0 .. k - 1
          /\ e % 2 = 0 /\ e \div 2 = p /\ k - 1 - p = i
      BY <3>1
    <3>3. place(j) = j + 1
      BY <2>2
    <3>4. (z \div d^(j + 1)) % d = x[e]
      BY <1>8, <3>2
    <3>5. x[e] = w[p] \div d
      BY <1>7, <3>2
    <3>6. w[p] = y[i]
      BY <2>2, <3>2 DEF Ordered
    <3> QED
      BY <2>2, <3>3, <3>4, <3>5, <3>6 DEF i
  <2>3. CASE order = "little" /\ j % 2 # 0
    <3> DEFINE i == j \div 2  e == n - 1 - (j - 1)  p == k - 1 - i
    <3>1. i \in 0 .. k - 1 /\ j = 2 * i + 1
      BY <2>0, <2>3
    <3> HIDE DEF i
    <3>2. /\ j - 1 \in 0 .. n - 1 /\ e \in 0 .. n - 1 /\ e = 2 * p + 1 /\ p \in 0 .. k - 1
          /\ e % 2 # 0 /\ e \div 2 = p /\ k - 1 - p = i
      BY <3>1
    <3>3. place(j) = j - 1
      BY <2>3
    <3>4. (z \div d^(j - 1)) % d = x[e]
      BY <1>8, <3>2
    <3>5. x[e] = w[p] % d
      <4> HIDE DEF e, p, n
      <4> QED
        BY <1>7, <3>2
    <3>6. w[p] = y[i]
      BY <2>3, <3>2 DEF Ordered
    <3> QED
      BY <2>3, <3>3, <3>4, <3>5, <3>6 DEF i
  <2> QED
    BY <1>9, <2>1, <2>2, <2>3
<1>11. Text!U32ToHex(z, k, order) = [j \in 0 .. n - 1 |-> (z \div d^(place(j))) % d]
  BY DEF Text!U32ToHex, d
<1>12. HexOf(y, k) = [j \in 0 .. n - 1 |-> IF j % 2 = 0 THEN y[j \div 2] \div d ELSE y[j \div 2] % d]
  BY DEF HexOf, d
<1>13. Text!U32ToHex(z, k, order) = HexOf(y, k)
  <2> HIDE DEF place
  <2> QED
    BY <1>10, <1>11, <1>12
<1> QED
  BY <1>13 DEF z

(* A text in whole limbs of g digits, with zeros in front.                 *)
Pad(n, g) == g * Text!Groups(n, g) - n
Whole(s, n, g) ==
  [j \in 0 .. g * Text!Groups(n, g) - 1 |-> IF j < Pad(n, g) THEN 0 ELSE s[j - Pad(n, g)]]

(* The digits of limb i of a text of whole limbs.                          *)
Slice(x, g, limbs, i) == [j \in 0 .. g - 1 |-> x[g * (limbs - 1 - i) + j]]

(* A text padded to whole limbs stands for the same number.                *)
LEMMA WholeIs ==
  ASSUME NEW n \in Nat, NEW g \in Nat \ {0}, NEW s, NEW base \in Nat \ {0}, IsText(s, n, base)
  PROVE  /\ Text!Groups(n, g) \in Nat /\ g * Text!Groups(n, g) \in Nat
         /\ IsText(Whole(s, n, g), g * Text!Groups(n, g), base)
         /\ Text!Number(Whole(s, n, g), g * Text!Groups(n, g), base) = Text!Number(s, n, base)
<1> DEFINE c == Text!Groups(n, g)  t == g * c  h == Pad(n, g)  x == Whole(s, n, g)
<1>1. c \in Nat /\ t \in Nat /\ n <= t
  BY GroupsIs
<1>2. h = t - n
  BY DEF Pad
<1>3. \A j \in 0 .. t - 1 : x[j] = IF j < h THEN 0 ELSE s[j - h]
  BY DEF Whole
<1> HIDE DEF t, h, x
<1>4. h \in Nat /\ h + n = t
  BY <1>1, <1>2
<1>5. Padded(x, s, h, n)
  BY <1>3, <1>4 DEF Padded
<1>6. IsText(x, h + n, base) /\ Text!Number(x, h + n, base) = Text!Number(s, n, base)
  BY <1>4, <1>5, NumberPad
<1>7. IsText(x, t, base) /\ Text!Number(x, t, base) = Text!Number(s, n, base)
  BY <1>4, <1>6
<1> QED
  BY <1>1, <1>7 DEF t, x

(* Limb i has its digits in whole limbs, except the highest, which may     *)
(* have fewer.                                                             *)
LEMMA GroupIs ==
  ASSUME NEW n \in Nat, NEW g \in Nat \ {0}, NEW s, NEW i \in 0 .. Text!Groups(n, g) - 1
  PROVE  LET p == Text!Group(s, n, g, i)
         IN  /\ p.n \in 1 .. g /\ n - g * i - p.n \in Nat
             /\ p.n = g \/ n - g * i - p.n = 0
             /\ p.d = [j \in 0 .. p.n - 1 |-> s[(n - g * i - p.n) + j]]
             /\ Padded(Slice(Whole(s, n, g), g, Text!Groups(n, g), i), p.d, g - p.n, p.n)
<1> DEFINE c == Text!Groups(n, g)  t == g * c  a == g * i  e == g * (i + 1)
           first == IF n >= e THEN n - e ELSE 0
           len == n - a - first
           h == Pad(n, g)  x == Whole(s, n, g)
           p == Text!Group(s, n, g, i)  r == g * (c - 1 - i)
           d == [j \in 0 .. len - 1 |-> s[first + j]]
<1>1. c \in Nat /\ t \in Nat /\ n <= t /\ t < n + g /\ \A k \in Nat : n <= g * k => c <= k
  BY GroupsIs
<1>2. h = t - n /\ \A j \in 0 .. t - 1 : x[j] = IF j < h THEN 0 ELSE s[j - h]
  BY DEF Pad, Whole
<1>3. p.n = len /\ p.d = d
  BY DEF Text!Group, Text!From
<1>4. i \in Nat /\ i + 1 \in Nat
  BY <1>1
<1>5. ~(n <= a) /\ (n <= e => c = i + 1)
  BY <1>1, <1>4
<1>6. a \in Nat /\ e = a + g /\ r = t - e /\ r \in Int /\ r >= 0
  <2>1. a \in Nat /\ e = a + g
    BY <1>4
  <2>2. c - 1 - i \in Nat
    BY <1>1
  <2>3. r = t - e
    BY <1>1, <1>4
  <2>4. r \in Nat
    BY <2>2
  <2> QED
    BY <2>1, <2>3, <2>4
<1>7. c = i + 1 => e = t
  OBVIOUS
<1>8. \A j \in 0 .. g - 1 : Slice(x, g, c, i)[j] = x[r + j]
  BY DEF Slice
<1> DEFINE y == Slice(x, g, c, i)
<1> HIDE DEF c, t, a, e, r, x, h, y, p
<1>9. first \in Nat /\ len \in 1 .. g /\ first = n - a - len /\ (len = g \/ first = 0)
  BY <1>1, <1>5, <1>6, <1>7
<1>10. Padded(y, d, g - len, len)
  <2>0. ((g - len) + len) - 1 = g - 1
    BY <1>9
  <2> SUFFICES ASSUME NEW j \in 0 .. g - 1
               PROVE  y[j] = IF j < g - len THEN 0 ELSE d[j - (g - len)]
    BY <2>0 DEF Padded
  <2>1. r + j \in 0 .. t - 1 /\ y[j] = x[r + j]
    BY <1>1, <1>6, <1>8 DEF y
  <2>2. y[j] = IF r + j < h THEN 0 ELSE s[(r + j) - h]
    BY <1>2, <2>1
  <2>3. (r + j) - h = first + (j - (g - len))
    BY <1>1, <1>2, <1>5, <1>6, <1>7, <1>9
  <2>4. CASE j < g - len
    <3>1. len # g
      BY <1>9, <2>4
    <3>2. first = 0
      BY <1>9, <3>1
    <3>3. r + j < h
      BY <1>1, <1>2, <1>6, <1>9, <2>3, <2>4, <3>2
    <3> QED
      BY <2>2, <2>4, <3>3
  <2>5. CASE ~(j < g - len)
    <3>1. j - (g - len) \in 0 .. len - 1
      BY <1>9, <2>5
    <3>2. ~(r + j < h)
      BY <1>1, <1>2, <1>6, <1>9, <2>3, <3>1
    <3>3. y[j] = s[first + (j - (g - len))]
      BY <2>2, <2>3, <3>2
    <3>4. d[j - (g - len)] = s[first + (j - (g - len))]
      BY <3>1
    <3> QED
      BY <2>5, <3>3, <3>4
  <2> QED
    BY <2>4, <2>5
<1>11. d = [j \in 0 .. len - 1 |-> s[(n - a - len) + j]]
  BY <1>9
<1> HIDE DEF d, len, first
<1>12. p.n \in 1 .. g /\ n - a - p.n \in Nat /\ (p.n = g \/ n - a - p.n = 0)
  BY <1>3, <1>9
<1>13. p.d = [j \in 0 .. p.n - 1 |-> s[(n - a - p.n) + j]]
  BY <1>3, <1>11
<1>14. Padded(y, p.d, g - p.n, p.n)
  BY <1>3, <1>10
<1> QED
  BY <1>12, <1>13, <1>14 DEF p, a, y, x, c

(* Limb i of whole limbs of a text x in the given base.                    *)
LimbsOfText(d, x, g, c, base) ==
  \A i \in 0 .. c - 1 : d[i] = Text!Number(Slice(x, g, c, i), g, base)

(* Limbs that hold the numbers of their digits hold the number of the text.*)
LEMMA SlicesIs ==
  ASSUME NEW limbs \in Nat, NEW g \in Nat, NEW base \in Nat \ {0}, NEW x, IsText(x, g * limbs, base),
         NEW P, Ladder(P, base, g), P[g] = Word!B,
         NEW d, LimbsOfText(d, x, g, limbs, base)
  PROVE  /\ Word!Val(d, limbs) = Text!Number(x, g * limbs, base)
         /\ \A i \in 0 .. limbs - 1 : d[i] \in 0 .. Word!B - 1
<1> DEFINE y == [j \in 0 .. limbs - 1 |-> d[limbs - 1 - j]]
<1>1. Grouped(y, x, g, limbs, base)
  <2> SUFFICES ASSUME NEW j \in 0 .. limbs - 1
               PROVE  \E z : Piece(z, x, g * j, g) /\ y[j] = Text!Number(z, g, base)
    BY DEF Grouped
  <2>1. limbs - 1 - j \in 0 .. limbs - 1 /\ limbs - 1 - (limbs - 1 - j) = j
    OBVIOUS
  <2>2. y[j] = Text!Number(Slice(x, g, limbs, limbs - 1 - j), g, base)
    BY <2>1 DEF LimbsOfText
  <2>3. Piece(Slice(x, g, limbs, limbs - 1 - j), x, g * j, g)
    BY <2>1 DEF Slice, Piece
  <2> QED
    BY <2>2, <2>3
<1>2. \A j \in 0 .. limbs - 1 : y[j] = d[limbs - 1 - j]
  OBVIOUS
<1> HIDE DEF y
<1>3. IsText(y, limbs, P[g]) /\ Text!Number(x, g * limbs, base) = Text!Number(y, limbs, P[g])
  BY <1>1, NumberGroups
<1>4. IsText(y, limbs, Word!B) /\ Text!Number(x, g * limbs, base) = Text!Number(y, limbs, Word!B)
  BY <1>3
<1>5. Word!Val(d, limbs) = Text!Number(y, limbs, Word!B)
  BY <1>2, <1>4, WordValIs
<1>6. ASSUME NEW i \in 0 .. limbs - 1 PROVE d[i] \in 0 .. Word!B - 1
  <2>1. limbs - 1 - i \in 0 .. limbs - 1 /\ limbs - 1 - (limbs - 1 - i) = i
    OBVIOUS
  <2>2. y[limbs - 1 - i] = d[i]
    BY <1>2, <2>1
  <2>3. y[limbs - 1 - i] \in 0 .. Word!B - 1
    BY <1>4, <2>1 DEF IsText
  <2> QED
    BY <2>2, <2>3
<1> QED
  BY <1>4, <1>5, <1>6

(* Place j of a text of c limbs of g digits.                               *)
LEMMA PlaceIs ==
  ASSUME NEW c \in Nat, NEW g \in Nat \ {0}, NEW j \in 0 .. g * c - 1
  PROVE  /\ j \div g \in 0 .. c - 1 /\ j % g \in 0 .. g - 1
         /\ j = g * (j \div g) + (j % g)
         /\ c - 1 - (j \div g) \in 0 .. c - 1 /\ c - 1 - (c - 1 - (j \div g)) = j \div g
<1> DEFINE q == j \div g  r == j % g
<1>1. j \in Nat /\ g * c \in Nat
  OBVIOUS
<1>2. q \in Nat /\ r \in 0 .. g - 1 /\ j = g * q + r
  BY <1>1
<1> HIDE DEF q, r
<1>3. ASSUME c <= q PROVE FALSE
  <2>1. g * (q - c) >= 0 /\ g * (q - c) = g * q - g * c
    BY <1>2, <1>3
  <2>2. g * q \in Int /\ g * c \in Int
    BY <1>2
  <2> QED
    BY <1>2, <2>1, <2>2
<1>4. q \in 0 .. c - 1
  BY <1>2, <1>3
<1>5. c - 1 - q \in 0 .. c - 1 /\ c - 1 - (c - 1 - q) = q
  BY <1>4
<1> QED
  BY <1>2, <1>4, <1>5 DEF q, r

(* The characters of a limb are characters of the text.                    *)
LEMMA SliceText ==
  ASSUME NEW c \in Nat, NEW g \in Nat \ {0}, NEW x, NEW base, IsText(x, g * c, base),
         NEW i \in 0 .. c - 1
  PROVE  IsText(Slice(x, g, c, i), g, base)
<1> SUFFICES ASSUME NEW j \in 0 .. g - 1 PROVE x[g * (c - 1 - i) + j] \in 0 .. base - 1
  BY DEF IsText, Slice
<1> DEFINE q == g * (c - 1 - i)
<1>1. q >= 0 /\ q \in Int /\ q = g * c - (g * i + g)
  OBVIOUS
<1>2. g * i >= 0 /\ g * i \in Int /\ g * c \in Int
  OBVIOUS
<1> HIDE DEF q
<1>3. q + j \in 0 .. g * c - 1
  BY <1>1, <1>2
<1> QED
  BY <1>3 DEF IsText, q

(* The limbs of a text fit the powers that the properties speak of.        *)
LEMMA FewGroups ==
  ASSUME NEW n \in Nat, 2 * n <= MaxText
  PROVE  Text!Groups(n, Text!LimbBytes) <= Text!Groups(MaxText, Text!LimbDigits)
<1> DEFINE g == Text!LimbBytes  m == Text!Groups(MaxText, Text!LimbDigits)
<1>1. g \in Nat \ {0} /\ Text!LimbDigits = 2 * g /\ MaxText \in Nat
  BY TextSizes, MaxLenAssumption
<1>2. m \in Nat /\ MaxText <= Text!LimbDigits * m
  BY <1>1, GroupsIs
<1>3. n <= g * m
  <2> HIDE DEF g, m
  <2>1. (2 * g) * m = 2 * (g * m) /\ g * m \in Int
    BY <1>1, <1>2
  <2> QED
    BY <1>1, <1>2, <2>1
<1> QED
  <2> HIDE DEF m, g
  <2>1. Text!Groups(n, g) <= m
    BY <1>1, <1>2, <1>3, GroupsIs
  <2> QED
    BY <2>1 DEF m, g

(* ll_from_bytes: every limb, and the count of those that matter.          *)
LEMMA FromBytesIs ==
  ASSUME NEW n \in Nat, 2 * n <= MaxText, NEW b, IsText(b, n, Text!Byte),
         NEW end \in Text!Orders, NEW rd, DOMAIN rd = 0 .. Text!Groups(n, Text!LimbBytes) - 1
  PROVE  LET g == Text!LimbBytes
             c == Text!Groups(n, g)
             from == Text!FromBytes(rd, b, n, end)
             v == Text!Number(b, n, Text!Byte)
         IN  /\ LimbsOfText(from.d, Whole(b, n, g), g, c, Text!Byte)
             /\ Word!Val(from.d, c) = v /\ from.rl = Top(v, c)
<1> DEFINE g == Text!LimbBytes  c == Text!Groups(n, g)  from == Text!FromBytes(rd, b, n, end)
           v == Text!Number(b, n, Text!Byte)  x == Whole(b, n, g)  by == Text!Byte
<1>1. g \in Nat \ {0} /\ by \in Nat \ {0} /\ "big" \in Text!Orders
  BY TextSizes DEF Text!Orders
<1>2. c \in Nat /\ IsText(x, g * c, by) /\ Text!Number(x, g * c, by) = v
  <2> HIDE DEF g
  <2> QED
    BY <1>1, WholeIs
<1>3. ASSUME NEW i \in 0 .. c - 1
      PROVE  from.d[i] = Text!Number(Slice(x, g, c, i), g, by)
  <2> DEFINE p == Text!Group(b, n, g, i)  y == Slice(x, g, c, i)  pn == p.n  pd == p.d
             first == n - g * i - pn
  <2>1. from.d[i] = Text!U8ToWord(pd, pn, g, "big", end).z
    <3>1. i \in DOMAIN rd /\ ~(i >= c)
      BY <1>2
    <3> QED
      BY <3>1 DEF Text!FromBytes
  <2>2. /\ pn \in 1 .. g /\ first \in Nat
        /\ pd = [j \in 0 .. pn - 1 |-> b[first + j]]
        /\ Padded(y, pd, g - pn, pn)
    <3> HIDE DEF g
    <3> QED
      BY <1>1, GroupIs
  <2>3. g * i \in Nat
    BY <1>1, <1>2
  <2> DEFINE a == g * i
  <2>4. first = n - a - pn /\ a \in Nat
    BY <2>3
  <2> HIDE DEF p, y, pn, pd, first, a
  <2>5. IsText(pd, pn, by)
    <3> SUFFICES ASSUME NEW j \in 0 .. pn - 1 PROVE pd[j] \in 0 .. by - 1
      BY DEF IsText
    <3>1. first + j \in 0 .. n - 1
      BY <2>2, <2>4
    <3>2. pd[j] = b[first + j]
      BY <2>2
    <3> QED
      BY <3>1, <3>2 DEF IsText
  <2>6. Ordered(y, y, g, "big")
    BY DEF Ordered
  <2>7. g \in Nat /\ g <= Text!LimbBytes /\ pn \in 0 .. g
    BY <1>1, <2>2
  <2> HIDE DEF g
  <2>8. Text!U8ToWord(pd, pn, g, "big", end).z = Text!Number(y, g, Text!Byte)
    BY <1>1, <2>2, <2>5, <2>6, <2>7, U8ToWordIs
  <2> QED
    BY <2>1, <2>8 DEF y
<1>4. LimbsOfText(from.d, x, g, c, by)
  <2> HIDE DEF g, c, from, x, by
  <2> QED
    BY <1>3 DEF LimbsOfText
<1> DEFINE d == from.d
<1>5. from.rl = Text!NumLimbs(d, c)
  BY DEF Text!FromBytes
<1>6. Ladder(BytePow, by, g) /\ BytePow[g] = Word!B /\ g \in Nat
  BY <1>1, ByteLadder
<1> HIDE DEF d
<1>7. Word!Val(d, c) = v /\ \A i \in 0 .. c - 1 : d[i] \in 0 .. Word!B - 1
  <2>1. LimbsOfText(d, x, g, c, by)
    BY <1>4 DEF d
  <2> HIDE DEF c, g, x, by, from, v
  <2>2. Word!Val(d, c) = Text!Number(x, g * c, by) /\ \A i \in 0 .. c - 1 : d[i] \in 0 .. Word!B - 1
    BY <1>1, <1>2, <1>6, <2>1, SlicesIs
  <2> QED
    BY <1>2, <2>2
<1>8. c <= Text!Groups(MaxText, Text!LimbDigits)
  BY FewGroups
<1>9. Text!NumLimbs(d, c) = Top(v, c)
  <2> HIDE DEF c, v
  <2>1. Text!NumLimbs(d, c) = Top(Word!Val(d, c), c)
    BY <1>2, <1>7, <1>8, TopIs
  <2> QED
    BY <1>7, <2>1
<1> QED
  <2> HIDE DEF c, v, g, x, by
  <2>1. Word!Val(from.d, c) = v /\ from.rl = Top(v, c)
    BY <1>5, <1>7, <1>9 DEF d
  <2> QED
    BY <1>4, <2>1 DEF c, v, g, x, by

(* The first n characters of x. *)
Copy(x, n) == [j \in 0 .. n - 1 |-> x[j]]

(* ll_to_bytes gives the text back, in whole limbs.                        *)
LEMMA ToBytesIs ==
  ASSUME NEW c \in Nat, NEW x, IsText(x, Text!LimbBytes * c, Text!Byte), NEW d,
         LimbsOfText(d, x, Text!LimbBytes, c, Text!Byte), NEW end \in Text!Orders
  PROVE  Text!ToBytes(d, c, end) = Copy(x, Text!LimbBytes * c)
<1> DEFINE g == Text!LimbBytes
<1>1. g \in Nat \ {0} /\ g \in Nat /\ g <= Text!LimbBytes /\ "big" \in Text!Orders
  BY TextSizes DEF Text!Orders
<1>2. ASSUME NEW j \in 0 .. g * c - 1
      PROVE  Text!WordToU8(d[c - 1 - (j \div g)], g, "big", end)[j % g] = x[j]
  <2> DEFINE q == j \div g  r == j % g  i == c - 1 - q  y == Slice(x, g, c, i)
  <2>1. q \in 0 .. c - 1 /\ r \in 0 .. g - 1 /\ j = g * q + r /\ i \in 0 .. c - 1 /\ c - 1 - i = q
    <3> HIDE DEF g
    <3> QED
      BY <1>1, PlaceIs
  <2>2. d[i] = Text!Number(y, g, Text!Byte)
    BY <2>1 DEF LimbsOfText
  <2>3. IsText(y, g, Text!Byte)
    <3> HIDE DEF i
    <3> QED
      BY <1>1, <2>1, SliceText
  <2>4. Ordered(y, y, g, "big")
    BY DEF Ordered
  <2>5. y[r] = x[j]
    <3> HIDE DEF q, r, i, g
    <3>1. y[r] = x[g * (c - 1 - i) + r]
      BY <2>1 DEF Slice
    <3> QED
      BY <2>1, <3>1
  <2> HIDE DEF y, g
  <2>6. Text!WordToU8(Text!Number(y, g, Text!Byte), g, "big", end) = [k \in 0 .. g - 1 |-> y[k]]
    BY <1>1, <2>3, <2>4, WordToU8Is
  <2> HIDE DEF q, r, i
  <2>7. Text!WordToU8(d[i], g, "big", end)[r] = x[j]
    BY <2>1, <2>2, <2>5, <2>6
  <2> QED
    BY <2>7 DEF i, q, r
<1>3. Text!ToBytes(d, c, end)
        = [j \in 0 .. g * c - 1 |-> Text!WordToU8(d[c - 1 - (j \div g)], g, "big", end)[j % g]]
  BY DEF Text!ToBytes
<1> HIDE DEF g
<1>4. Text!ToBytes(d, c, end) = [j \in 0 .. g * c - 1 |-> x[j]]
  BY <1>2, <1>3
<1> QED
  BY <1>4 DEF g, Copy

(* The digits are the characters below the base.                           *)
LEMMA DigitsSet == Text!Digits = 0 .. Text!D - 1 /\ Text!D \in Nat \ {0} /\ Text!D \in Nat
  BY TextSizes DEF Text!Digits

(* hex_to_u64: it fails exactly when a character is no digit, and else     *)
(* leaves the number with zeros in front.                                  *)
LEMMA HexToWordOk ==
  ASSUME NEW k \in Nat, NEW n \in 0 .. 2 * k, NEW s, NEW end
  PROVE  Text!HexToWord(s, n, k, "big", end).ok <=> \A i \in 0 .. n - 1 : s[i] \in Text!Digits
<1> DEFINE good == \A i \in 0 .. n - 1 : s[i] \in Text!Digits
<1>1. Text!HexToU8(s, n).ok = good
  BY Zenon DEF Text!HexToU8
<1>2. Text!HexToWord(s, n, k, "big", end).ok = (n <= 2 * k /\ Text!HexToU8(s, n).ok)
  BY Zenon DEF Text!HexToWord
<1>3. n <= 2 * k
  OBVIOUS
<1> QED
  BY <1>1, <1>2, <1>3

(* hex_to_u8 pairs the digits from the end; an odd first digit is alone.   *)
LEMMA HexToU8Is ==
  ASSUME NEW n \in Nat, NEW s, IsText(s, n, Text!D)
  PROVE  LET h == Text!HexToU8(s, n)
             low(j) == (2 * j) + 1 - (n % 2)
         IN  /\ DOMAIN h.d = 0 .. ((n + 1) \div 2) - 1
             /\ \A j \in 0 .. ((n + 1) \div 2) - 1 :
                  h.d[j] = (IF low(j) = 0 THEN 0 ELSE s[low(j) - 1] * Text!D) + s[low(j)]
<1> DEFINE low(j) == (2 * j) + 1 - (n % 2)
           all == 0 .. ((n + 1) \div 2) - 1
           written == {j \in all : \A i \in 0 .. low(j) : s[i] \in Text!Digits}
           d == [j \in written |-> (IF low(j) = 0 THEN 0 ELSE s[low(j) - 1] * Text!D) + s[low(j)]]
<1>1. Text!HexToU8(s, n).d = d
  BY Zenon DEF Text!HexToU8
<1>2. ASSUME NEW j \in all PROVE low(j) \in 0 .. n - 1
  OBVIOUS
<1>3. \A i \in 0 .. n - 1 : s[i] \in Text!Digits
  BY DigitsSet DEF IsText
<1>4. written = all
  <2> SUFFICES ASSUME NEW j \in all, NEW i \in 0 .. low(j) PROVE s[i] \in Text!Digits
    OBVIOUS
  <2>1. i \in 0 .. n - 1
    BY <1>2
  <2> QED
    BY <1>3, <2>1
<1> HIDE DEF written, low
<1>5. DOMAIN d = all /\ \A j \in all : d[j] = (IF low(j) = 0 THEN 0 ELSE s[low(j) - 1] * Text!D) + s[low(j)]
  BY <1>4
<1> QED
  BY <1>1, <1>5 DEF low

(* hex_to_u64 returns the number that the digits stand for.                *)
LEMMA HexToWordIs ==
  ASSUME NEW k \in Nat, k <= Text!LimbBytes, NEW n \in 0 .. 2 * k, NEW s, IsText(s, n, Text!D),
         NEW y, Padded(y, s, 2 * k - n, n), NEW end \in Text!Orders
  PROVE  Text!HexToWord(s, n, k, "big", end).z = Text!Number(y, 2 * k, Text!D)
<1> DEFINE h == Text!HexToU8(s, n)  hb == (n + 1) \div 2  first == k - hb  pad == 2 * k - n
           low(j) == (2 * j) + 1 - (n % 2)  D == Text!D  hd == h.d
           t == [j \in 0 .. k - 1 |-> IF j - first \in DOMAIN hd THEN hd[j - first] ELSE 0]
<1>1. n \in Nat /\ pad \in Nat /\ pad + n = 2 * k /\ first \in Nat /\ hb \in Nat
      /\ "big" \in Text!Orders
  BY DEF Text!Orders
<1>2. D \in Nat \ {0} /\ Text!Byte = D * D
  BY DigitsSet DEF Text!Byte
<1>3. /\ DOMAIN hd = 0 .. hb - 1
      /\ \A j \in 0 .. hb - 1 : hd[j] = (IF low(j) = 0 THEN 0 ELSE s[low(j) - 1] * D) + s[low(j)]
  BY <1>1, HexToU8Is
<1>4. Text!HexToWord(s, n, k, "big", end).z = Text!U8ToWord(t, k, k, "big", end).z
  BY DEF Text!HexToWord
<1> HIDE DEF hd, D
<1>5. IsText(y, 2 * k, D)
  <2>1. IsText(y, pad + n, D)
    <3> HIDE DEF pad
    <3>1. IsText(s, n, D) /\ Padded(y, s, pad, n)
      BY DEF D, pad
    <3> QED
      BY <1>1, <1>2, <3>1, NumberPad
  <2> QED
    BY <1>1, <2>1
<1>6. ASSUME NEW j \in 0 .. k - 1 PROVE t[j] = y[2 * j] * D + y[2 * j + 1]
  <2> DEFINE q == j - first  e == low(q)
  <2>1. /\ 2 * j \in 0 .. (pad + n) - 1 /\ 2 * j + 1 \in 0 .. (pad + n) - 1
    BY <1>1
  <2>2. /\ y[2 * j] = IF 2 * j < pad THEN 0 ELSE s[2 * j - pad]
        /\ y[2 * j + 1] = IF 2 * j + 1 < pad THEN 0 ELSE s[(2 * j + 1) - pad]
    <3> HIDE DEF pad
    <3> QED
      BY <2>1 DEF Padded, pad
  <2>3. /\ y[2 * j] \in 0 .. D - 1 /\ y[2 * j + 1] \in 0 .. D - 1
    BY <1>1, <1>5, <2>1 DEF IsText
  <2>4. t[j] = IF q \in 0 .. hb - 1 THEN hd[q] ELSE 0
    BY <1>3
  <2>5. e = 2 * j + 1 - pad
    OBVIOUS
  <2>6. CASE q \in 0 .. hb - 1
    <3>1. e >= 0 /\ t[j] = (IF e = 0 THEN 0 ELSE s[e - 1] * D) + s[e]
      BY <1>3, <2>4, <2>6
    <3> HIDE DEF e, q, pad, t, low
    <3>2. y[2 * j + 1] = s[e]
      BY <1>1, <2>2, <2>5, <3>1
    <3>3. CASE e = 0
      <4>1. y[2 * j] = 0
        BY <1>1, <2>2, <2>5, <3>3
      <4>2. t[j] = 0 + y[2 * j + 1]
        BY <3>1, <3>2, <3>3
      <4>3. 0 * D + y[2 * j + 1] = 0 + y[2 * j + 1]
        BY <1>2
      <4> QED
        BY <4>1, <4>2, <4>3
    <3>4. CASE e # 0
      <4>1. y[2 * j] = s[e - 1]
        BY <1>1, <2>2, <2>5, <3>1, <3>4
      <4> QED
        BY <3>1, <3>2, <3>4, <4>1
    <3> QED
      BY <3>3, <3>4
  <2>7. CASE ~(q \in 0 .. hb - 1)
    <3>1. 2 * j + 1 < pad
      BY <1>1, <2>7
    <3>2. y[2 * j] = 0 /\ y[2 * j + 1] = 0 /\ t[j] = 0
      BY <1>1, <2>2, <2>4, <2>7, <3>1
    <3>3. 0 * D + 0 = 0
      BY <1>2
    <3> QED
      BY <3>2, <3>3
  <2> QED
    BY <2>6, <2>7
<1> HIDE DEF t
<1>7. IsText(t, k, D * D) /\ Text!Number(y, 2 * k, D) = Text!Number(t, k, D * D)
  BY <1>2, <1>5, <1>6, NumberPairs
<1>8. IsText(t, k, Text!Byte) /\ Text!Number(y, 2 * k, D) = Text!Number(t, k, Text!Byte)
  BY <1>2, <1>7
<1>9. Padded(t, t, k - k, k) /\ Ordered(t, t, k, "big") /\ k \in 0 .. k
  BY DEF Padded, Ordered
<1>10. Text!U8ToWord(t, k, k, "big", end).z = Text!Number(t, k, Text!Byte)
  BY <1>1, <1>8, <1>9, U8ToWordIs
<1> QED
  BY <1>4, <1>8, <1>10 DEF D

(* u64_to_hex gives the digits back.                                       *)
LEMMA WordDigits ==
  ASSUME NEW k \in Nat, k <= Text!LimbBytes, NEW y, IsText(y, 2 * k, Text!D),
         NEW end \in Text!Orders
  PROVE  Text!U64ToHex(Text!Number(y, 2 * k, Text!D), k, "big", end)
         = [j \in 0 .. 2 * k - 1 |-> y[j]]
<1> DEFINE w == [i \in 0 .. k - 1 |-> y[2 * i] * Text!D + y[2 * i + 1]]  d == Text!D
<1>1. d \in Nat \ {0} /\ Text!Byte = Text!D * Text!D /\ "big" \in Text!Orders
  BY TextSizes DEF Text!Orders
<1>2. \A i \in 0 .. k - 1 : w[i] = y[2 * i] * Text!D + y[2 * i + 1]
  OBVIOUS
<1>3. IsText(w, k, Text!D * Text!D) /\ Text!Number(y, 2 * k, Text!D) = Text!Number(w, k, Text!D * Text!D)
  <2> HIDE DEF w
  <2>1. Text!D \in Nat \ {0}
    BY <1>1
  <2> QED
    BY <1>2, <2>1, NumberPairs
<1> HIDE DEF w
<1>4. IsText(w, k, Text!Byte) /\ Text!Number(y, 2 * k, Text!D) = Text!Number(w, k, Text!Byte)
  BY <1>1, <1>3
<1>5. Ordered(w, w, k, "big")
  BY DEF Ordered
<1>6. Text!U64ToHex(Text!Number(w, k, Text!Byte), k, "big", end) = HexOf(w, k)
  BY <1>1, <1>4, <1>5, U64ToHexIs
<1>7. ASSUME NEW j \in 0 .. 2 * k - 1
      PROVE  (IF j % 2 = 0 THEN w[j \div 2] \div Text!D ELSE w[j \div 2] % Text!D) = y[j]
  <2> DEFINE i == j \div 2
  <2>1. i \in 0 .. k - 1 /\ (j % 2 = 0 => j = 2 * i) /\ (j % 2 # 0 => j = 2 * i + 1)
    BY HalvesOf
  <2> HIDE DEF i
  <2>2. 2 * i \in 0 .. 2 * k - 1 /\ 2 * i + 1 \in 0 .. 2 * k - 1
    BY <2>1
  <2> DEFINE a == y[2 * i]  b == y[2 * i + 1]
  <2>3. a \in 0 .. d - 1 /\ b \in 0 .. d - 1
    BY <1>1, <2>2 DEF IsText
  <2>4. w[i] = a * d + b
    BY <1>2, <2>1
  <2> HIDE DEF a, b, d
  <2>5. (a * d + b) \div d = a /\ (a * d + b) % d = b
    BY <1>1, <2>3
  <2>6. w[i] \div d = a /\ w[i] % d = b
    BY <2>4, <2>5
  <2>7. (IF j % 2 = 0 THEN w[i] \div Text!D ELSE w[i] % Text!D) = y[j]
    BY <2>1, <2>6 DEF a, b, d
  <2> QED
    BY <2>7 DEF i
<1>8. HexOf(w, k) = [j \in 0 .. 2 * k - 1 |-> y[j]]
  BY <1>7 DEF HexOf
<1> QED
  BY <1>4, <1>6, <1>8

(* The loop of ll_from_hex over the words of c limbs, and what it leaves   *)
(* after k of them: a word that is no number stops it.                     *)
HexNext(p, w, k) ==
  IF p.ok /\ w.ok THEN [ok |-> TRUE, d |-> [p.d EXCEPT ![k] = w.z]] ELSE [ok |-> FALSE, d |-> p.d]

HexLoop(f, rd, word, c) ==
  f = [i \in 0 .. c |->
        IF i = 0 THEN [ok |-> TRUE, d |-> rd] ELSE HexNext(f[i - 1], word[i - 1], i - 1)]

IsArray(rd, c) == rd = [m \in 0 .. c - 1 |-> rd[m]]

Good(word, k) == \A l \in 0 .. k - 1 : word[l].ok
Written(rd, word, c, k) ==
  [m \in 0 .. c - 1 |-> IF m < k /\ Good(word, m + 1) THEN word[m].z ELSE rd[m]]
HexState(rd, word, c, k) ==
  [ok |-> IF Good(word, k) THEN TRUE ELSE FALSE, d |-> Written(rd, word, c, k)]

(* One step of the loop.                                                   *)
LEMMA HexStateStep ==
  ASSUME NEW c \in Nat, NEW rd, NEW word, NEW k \in 0 .. c - 1
  PROVE  HexState(rd, word, c, k + 1) = HexNext(HexState(rd, word, c, k), word[k], k)
<1> DEFINE p == HexState(rd, word, c, k)  q == HexState(rd, word, c, k + 1)
           u == Written(rd, word, c, k)  v == Written(rd, word, c, k + 1)
<1>1. Good(word, k + 1) <=> Good(word, k) /\ word[k].ok
  <2>1. \A l : l \in 0 .. (k + 1) - 1 <=> l \in 0 .. k - 1 \/ l = k
    OBVIOUS
  <2> QED
    BY <2>1 DEF Good
<1>2. /\ u = [m \in 0 .. c - 1 |-> IF m < k /\ Good(word, m + 1) THEN word[m].z ELSE rd[m]]
      /\ v = [m \in 0 .. c - 1 |-> IF m < k + 1 /\ Good(word, m + 1) THEN word[m].z ELSE rd[m]]
  BY DEF Written
<1>3. \A m \in 0 .. c - 1 : (m < k + 1) <=> (m < k \/ m = k)
  OBVIOUS
<1>4. CASE Good(word, k + 1)
  <2>1. p = [ok |-> TRUE, d |-> u] /\ q = [ok |-> TRUE, d |-> v]
    BY <1>1, <1>4 DEF HexState
  <2>2. v = [u EXCEPT ![k] = word[k].z]
    BY <1>2, <1>3, <1>4
  <2> HIDE DEF u, v, p, q
  <2>3. p.d = u
    BY <2>1
  <2>4. p.ok
    BY <2>1
  <2>5. q = HexNext(p, word[k], k)
    BY <1>1, <1>4, <2>1, <2>2, <2>3, <2>4 DEF HexNext
  <2> QED
    BY <2>5 DEF p, q
<1>5. CASE ~Good(word, k + 1)
  <2>1. q = [ok |-> FALSE, d |-> v]
    BY <1>5 DEF HexState
  <2>2. v = u
    <3>1. \A m \in 0 .. c - 1 : (m < k + 1 /\ Good(word, m + 1)) <=> (m < k /\ Good(word, m + 1))
      BY <1>3, <1>5
    <3> QED
      BY <1>2, <3>1
  <2>3. p.d = u
    BY DEF HexState
  <2>4. ~(p.ok /\ word[k].ok)
    <3>1. CASE Good(word, k)
      BY <1>1, <1>5, <3>1
    <3>2. CASE ~Good(word, k)
      <4>1. p.ok = FALSE
        BY <3>2 DEF HexState
      <4> QED
        BY <4>1
    <3> QED
      BY <3>1, <3>2
  <2> HIDE DEF u, v, p, q
  <2>5. q = HexNext(p, word[k], k)
    BY <2>1, <2>2, <2>3, <2>4 DEF HexNext
  <2> QED
    BY <2>5 DEF p, q
<1> QED
  BY <1>4, <1>5

(* Before the first step nothing is written.                               *)
LEMMA HexStateFirst ==
  ASSUME NEW c \in Nat, NEW rd, IsArray(rd, c), NEW word
  PROVE  HexState(rd, word, c, 0) = [ok |-> TRUE, d |-> rd]
<1>1. Good(word, 0)
  BY DEF Good
<1>2. Written(rd, word, c, 0) = [m \in 0 .. c - 1 |-> rd[m]]
  BY DEF Written
<1> QED
  BY <1>1, <1>2 DEF HexState, IsArray

(* The loop leaves just that. *)
LEMMA HexLoopIs ==
  ASSUME NEW c \in Nat, NEW rd, IsArray(rd, c), NEW word
  PROVE  /\ \E f : HexLoop(f, rd, word, c)
         /\ \A f : HexLoop(f, rd, word, c) => f[c] = HexState(rd, word, c, c)
<1> DEFINE st == [k \in 0 .. c |-> HexState(rd, word, c, k)]
<1>1. ASSUME NEW i \in 0 .. c, i # 0
      PROVE  st[i] = HexNext(st[i - 1], word[i - 1], i - 1)
  <2> DEFINE k == i - 1
  <2>1. k \in 0 .. c - 1 /\ k + 1 = i /\ k \in 0 .. c
    BY <1>1
  <2>2. st[k] = HexState(rd, word, c, k) /\ st[i] = HexState(rd, word, c, k + 1)
    BY <2>1
  <2> HIDE DEF k, st
  <2>3. st[i] = HexNext(st[k], word[k], k)
    BY <2>1, <2>2, HexStateStep
  <2> QED
    BY <2>3 DEF k
<1>2. 0 \in 0 .. c /\ c \in 0 .. c
  OBVIOUS
<1>3. st = [k \in 0 .. c |-> st[k]]
  OBVIOUS
<1>4. \A k \in 0 .. c : st[k] = HexState(rd, word, c, k)
  OBVIOUS
<1> HIDE DEF st
<1>5. st[0] = [ok |-> TRUE, d |-> rd]
  <2>1. HexState(rd, word, c, 0) = [ok |-> TRUE, d |-> rd]
    BY HexStateFirst
  <2> QED
    BY <1>2, <1>4, <2>1
<1>6. HexLoop(st, rd, word, c)
  BY <1>1, <1>3, <1>5 DEF HexLoop
<1>7. ASSUME NEW f, HexLoop(f, rd, word, c) PROVE f[c] = st[c]
  <2> DEFINE T == {k \in 0 .. c : f[k] = st[k]}
  <2>1. 0 \in T
    <3>1. f[0] = [ok |-> TRUE, d |-> rd]
      BY <1>2, <1>7 DEF HexLoop
    <3> QED
      BY <1>2, <1>5, <3>1
  <2>2. ASSUME NEW k \in 0 .. c - 1, k \in T PROVE k + 1 \in T
    <3> DEFINE i == k + 1
    <3>1. i \in 0 .. c /\ i # 0 /\ i - 1 = k
      OBVIOUS
    <3>2. f[k] = st[k]
      BY <2>2
    <3> HIDE DEF i
    <3>3. f[i] = HexNext(f[i - 1], word[i - 1], i - 1)
      BY <1>7, <3>1 DEF HexLoop
    <3>4. f[i] = st[i]
      BY <1>1, <3>1, <3>2, <3>3
    <3> QED
      BY <3>1, <3>4 DEF i
  <2>3. 0 .. c \subseteq T
    <3> HIDE DEF T
    <3> QED
      BY <2>1, <2>2, InductionTo
  <2> QED
    BY <1>2, <2>3
<1> QED
  BY <1>2, <1>4, <1>6, <1>7

(* The words that ll_from_hex reads. *)
HexWords(s, n, end) ==
  [i \in 0 .. Text!Groups(n, Text!LimbDigits) - 1 |->
     Text!HexToWord(Text!Group(s, n, Text!LimbDigits, i).d, Text!Group(s, n, Text!LimbDigits, i).n,
                    Text!LimbBytes, "big", end)]

(* What the loop leaves for ll_from_hex to return. *)
HexResult(from, rd, word, c) ==
  /\ Good(word, c) => from.ok = TRUE
  /\ ~Good(word, c) => from.ok = FALSE
  /\ from.d = Written(rd, word, c, c)
  /\ Good(word, c) => from.rl = Text!NumLimbs(from.d, c)

(* ll_from_hex runs this loop over the words of the text.                  *)
LEMMA FromHexLoop ==
  ASSUME NEW n \in Nat, NEW s, NEW end, NEW rd, NEW c, c = Text!Groups(n, Text!LimbDigits),
         IsArray(rd, c)
  PROVE  HexResult(Text!FromHex(rd, s, n, end), rd, HexWords(s, n, end), c)
<1> DEFINE g == Text!LimbDigits
           w == HexWords(s, n, end)
           word(i) == LET p == Text!Group(s, n, g, i)
                      IN  Text!HexToWord(p.d, p.n, Text!LimbBytes, "big", end)
           Body(after) == [i \in 0 .. c |->
             IF i = 0 THEN [ok |-> TRUE, d |-> rd]
             ELSE IF after[i - 1].ok /\ word(i - 1).ok
             THEN [ok |-> TRUE, d |-> [after[i - 1].d EXCEPT ![i - 1] = word(i - 1).z]]
             ELSE [ok |-> FALSE, d |-> after[i - 1].d]]
           F == CHOOSE after : after = Body(after)
           last == F[c]
<1>1. Text!FromHex(rd, s, n, end) =
        [ok |-> last.ok, d |-> last.d, rl |-> IF last.ok THEN Text!NumLimbs(last.d, c) ELSE -1]
  BY DEF Text!FromHex
<1>2. c \in Nat
  BY TextSizes, GroupsIs
<1>3. \A i \in 0 .. c - 1 : w[i] = word(i)
  BY DEF HexWords
<1> HIDE DEF word, w
<1>4. \A f : f = Body(f) <=> HexLoop(f, rd, w, c)
  <2> SUFFICES ASSUME NEW f PROVE f = Body(f) <=> HexLoop(f, rd, w, c)
    OBVIOUS
  <2> DEFINE Next2(i) == IF i = 0 THEN [ok |-> TRUE, d |-> rd] ELSE HexNext(f[i - 1], w[i - 1], i - 1)
  <2>1. ASSUME NEW i \in 0 .. c
        PROVE  (IF i = 0 THEN [ok |-> TRUE, d |-> rd]
                ELSE IF f[i - 1].ok /\ word(i - 1).ok
                THEN [ok |-> TRUE, d |-> [f[i - 1].d EXCEPT ![i - 1] = word(i - 1).z]]
                ELSE [ok |-> FALSE, d |-> f[i - 1].d]) = Next2(i)
    <3>1. CASE i = 0
      BY <3>1
    <3>2. CASE i # 0
      <4>1. w[i - 1] = word(i - 1)
        BY <1>2, <1>3, <3>2
      <4> QED
        BY <3>2, <4>1 DEF HexNext
    <3> QED
      BY <3>1, <3>2
  <2>2. Body(f) = [i \in 0 .. c |-> Next2(i)]
    <3> HIDE DEF Next2
    <3> QED
      BY <2>1
  <2>3. HexLoop(f, rd, w, c) <=> f = [i \in 0 .. c |-> Next2(i)]
    BY DEF HexLoop
  <2> HIDE DEF Body, Next2
  <2> QED
    BY <2>2, <2>3
<1> HIDE DEF Body
<1>5. \E f : HexLoop(f, rd, w, c)
  BY <1>2, HexLoopIs
<1>6. F = Body(F)
  BY <1>4, <1>5
<1> HIDE DEF F
<1>7. F[c] = HexState(rd, w, c, c)
  BY <1>2, <1>4, <1>6, HexLoopIs
<1>8. last.d = Written(rd, w, c, c) /\ last.ok = IF Good(w, c) THEN TRUE ELSE FALSE
  BY <1>7 DEF HexState
<1> HIDE DEF last
<1>9. /\ Text!FromHex(rd, s, n, end).ok = last.ok
      /\ Text!FromHex(rd, s, n, end).d = last.d
      /\ Text!FromHex(rd, s, n, end).rl = IF last.ok THEN Text!NumLimbs(last.d, c) ELSE -1
  BY <1>1
<1>10. (Good(w, c) => last.ok = TRUE) /\ (~Good(w, c) => last.ok = FALSE)
  BY <1>8
<1>11. Good(w, c) => Text!FromHex(rd, s, n, end).rl = Text!NumLimbs(last.d, c)
  BY <1>9, <1>10
<1>12. /\ Good(w, c) => Text!FromHex(rd, s, n, end).ok = TRUE
       /\ ~Good(w, c) => Text!FromHex(rd, s, n, end).ok = FALSE
  BY Zenon, <1>9, <1>10
<1> QED
  BY <1>8, <1>9, <1>11, <1>12 DEF w, HexResult

(* Nothing but digits from place p on. *)
GoodFrom(s, n, p) == \A j \in 0 .. n - 1 : j >= p => s[j] \in Text!Digits

(* Nothing but digits from place p up to place q. *)
GoodIn(s, n, p, q) == \A j \in 0 .. n - 1 : j >= p /\ j < q => s[j] \in Text!Digits

(* The characters of the word of limb i.                                   *)
LEMMA HexWordOk ==
  ASSUME NEW n \in Nat, NEW s, NEW end, NEW c, c = Text!Groups(n, Text!LimbDigits),
         NEW i \in 0 .. c - 1
  PROVE  LET a == n - Text!LimbDigits * i
             e == a - Text!LimbDigits
         IN  /\ HexWords(s, n, end)[i].ok <=> \A j \in 0 .. n - 1 : j >= e /\ j < a => s[j] \in Text!Digits
             /\ a \in 1 .. n
<1> DEFINE g == Text!LimbDigits  p == Text!Group(s, n, g, i)  pn == p.n  pd == p.d
           first == n - g * i - pn  a == n - g * i  e == a - g
<1>1. g \in Nat \ {0} /\ Text!LimbBytes \in Nat /\ g = 2 * Text!LimbBytes
  BY TextSizes
<1>2. /\ pn \in 1 .. g /\ first \in Nat /\ (pn = g \/ first = 0)
      /\ pd = [j \in 0 .. pn - 1 |-> s[first + j]]
  <2>1. c = Text!Groups(n, g) /\ i \in 0 .. Text!Groups(n, g) - 1
    OBVIOUS
  <2> HIDE DEF g
  <2> QED
    BY <1>1, <2>1, GroupIs
<1>3. HexWords(s, n, end)[i] = Text!HexToWord(pd, pn, Text!LimbBytes, "big", end)
  BY DEF HexWords
<1>4. g * i \in Nat
  <2>1. c \in Nat
    BY <1>1, GroupsIs
  <2> QED
    BY <1>1, <2>1
<1>5. first = a - pn /\ a \in Int /\ a <= n
  BY <1>4
<1> HIDE DEF g, p, pn, pd, first, a
<1>6. Text!HexToWord(pd, pn, Text!LimbBytes, "big", end).ok
        <=> \A j \in 0 .. pn - 1 : pd[j] \in Text!Digits
  <2>1. pn \in 0 .. 2 * Text!LimbBytes
    BY <1>1, <1>2
  <2> QED
    BY <1>1, <2>1, HexToWordOk
<1>7. (\A j \in 0 .. pn - 1 : pd[j] \in Text!Digits)
        <=> \A j \in 0 .. n - 1 : j >= e /\ j < a => s[j] \in Text!Digits
  <2>1. ASSUME \A j \in 0 .. pn - 1 : pd[j] \in Text!Digits,
               NEW j \in 0 .. n - 1, j >= e, j < a
        PROVE  s[j] \in Text!Digits
    <3>1. j - first \in 0 .. pn - 1 /\ first + (j - first) = j
      BY <1>1, <1>2, <1>5, <2>1
    <3>2. pd[j - first] = s[j]
      BY <1>2, <3>1
    <3> QED
      BY <2>1, <3>1, <3>2
  <2>2. ASSUME \A j \in 0 .. n - 1 : j >= e /\ j < a => s[j] \in Text!Digits,
               NEW j \in 0 .. pn - 1
        PROVE  pd[j] \in Text!Digits
    <3>1. first + j \in 0 .. n - 1 /\ first + j >= e /\ first + j < a
      BY <1>1, <1>2, <1>5
    <3>2. pd[j] = s[first + j]
      BY <1>2
    <3> QED
      BY <2>2, <3>1, <3>2
  <2> QED
    BY <2>1, <2>2
<1>8. a \in 1 .. n
  BY <1>2, <1>5
<1> QED
  BY <1>3, <1>6, <1>7, <1>8 DEF a, g

(* The first k words are numbers iff their characters are digits.          *)
LEMMA GoodIs ==
  ASSUME NEW n \in Nat, NEW s, NEW end, NEW c, c = Text!Groups(n, Text!LimbDigits),
         NEW k \in 0 .. c
  PROVE  Good(HexWords(s, n, end), k) <=> GoodFrom(s, n, n - Text!LimbDigits * k)
<1> DEFINE g == Text!LimbDigits  w == HexWords(s, n, end)
           T == {m \in 0 .. c : Good(w, m) <=> GoodFrom(s, n, n - g * m)}
<1>1. g \in Nat \ {0} /\ c \in Nat
  BY TextSizes, GroupsIs
<1>2. 0 \in T
  <2>1. n - g * 0 = n
    BY <1>1
  <2>2. Good(w, 0)
    BY DEF Good
  <2>3. GoodFrom(s, n, n)
    BY DEF GoodFrom
  <2> HIDE DEF g
  <2> QED
    BY <1>1, <2>1, <2>2, <2>3
<1>3. ASSUME NEW m \in 0 .. c - 1, m \in T PROVE m + 1 \in T
  <2> DEFINE a == n - g * m  e == a - g
  <2>1. (w[m].ok <=> \A j \in 0 .. n - 1 : j >= e /\ j < a => s[j] \in Text!Digits) /\ a \in 1 .. n
    BY HexWordOk
  <2>2. n - g * (m + 1) = e
    BY <1>1
  <2>3. Good(w, m + 1) <=> Good(w, m) /\ w[m].ok
    <3>1. \A l : l \in 0 .. (m + 1) - 1 <=> l \in 0 .. m - 1 \/ l = m
      OBVIOUS
    <3> QED
      BY <3>1 DEF Good
  <2>4. Good(w, m) <=> GoodFrom(s, n, a)
    BY <1>3
  <2> HIDE DEF w, g, a
  <2>5. GoodFrom(s, n, e) <=>
          GoodFrom(s, n, a) /\ \A j \in 0 .. n - 1 : j >= e /\ j < a => s[j] \in Text!Digits
    <3>1. \A j \in 0 .. n - 1 : j >= e <=> (j >= a \/ (j >= e /\ j < a))
      BY <1>1, <2>1
    <3> QED
      BY <3>1 DEF GoodFrom
  <2>6. Good(w, m + 1) <=> GoodFrom(s, n, n - g * (m + 1))
    BY <2>1, <2>2, <2>3, <2>4, <2>5
  <2>7. m + 1 \in 0 .. c
    BY <1>1
  <2> QED
    BY <2>6, <2>7
<1>4. 0 .. c \subseteq T
  <2> HIDE DEF T
  <2> QED
    BY <1>1, <1>2, <1>3, InductionTo
<1>5. k \in T
  BY <1>4
<1> QED
  BY <1>5

(* Word i is the number that the digits x stand for. *)
ReadsAs(word, i, x) == word[i].z = Text!Number(x, Text!LimbDigits, Text!D)

(* The value of a word of digits: y has them with zeros in front.          *)
LEMMA HexWordIs ==
  ASSUME NEW n \in Nat, NEW s, NEW end \in Text!Orders, NEW c, c = Text!Groups(n, Text!LimbDigits),
         NEW i \in 0 .. c - 1, NEW e, e = n - Text!LimbDigits * i - Text!LimbDigits,
         GoodIn(s, n, e, e + Text!LimbDigits)
  PROVE  /\ ReadsAs(HexWords(s, n, end), i, Slice(Whole(s, n, Text!LimbDigits), Text!LimbDigits, c, i))
         /\ e >= 0 => HexWords(s, n, end)[i].z
              = Text!Number([j \in 0 .. Text!LimbDigits - 1 |-> s[e + j]], Text!LimbDigits, Text!D)
<1> DEFINE g == Text!LimbDigits  p == Text!Group(s, n, g, i)  pn == p.n  pd == p.d
           first == n - g * i - pn  a == n - g * i
           y == Slice(Whole(s, n, g), g, c, i)  x == [j \in 0 .. g - 1 |-> s[e + j]]
           h == Text!LimbBytes
<1>1. g \in Nat \ {0} /\ h \in Nat /\ g = 2 * h /\ h <= Text!LimbBytes
  BY TextSizes
<1>2. /\ pn \in 1 .. g /\ first \in Nat /\ (pn = g \/ first = 0)
      /\ pd = [j \in 0 .. pn - 1 |-> s[first + j]]
      /\ Padded(y, pd, g - pn, pn)
  <2>1. c = Text!Groups(n, g) /\ i \in 0 .. Text!Groups(n, g) - 1
    OBVIOUS
  <2> HIDE DEF g
  <2> QED
    BY <1>1, <2>1, GroupIs
<1>3. HexWords(s, n, end)[i] = Text!HexToWord(pd, pn, h, "big", end)
  BY DEF HexWords
<1>4. g * i \in Nat
  <2>1. c \in Nat
    BY <1>1, GroupsIs
  <2> QED
    BY <1>1, <2>1
<1>5. first = a - pn /\ a \in Int /\ a <= n /\ e = a - g
  BY <1>4
<1>6. \A j \in 0 .. g - 1 : x[j] = s[e + j]
  OBVIOUS
<1> HIDE DEF g, p, pn, pd, first, a, y, x, h
<1>7. IsText(pd, pn, Text!D)
  <2> SUFFICES ASSUME NEW j \in 0 .. pn - 1 PROVE pd[j] \in 0 .. Text!D - 1
    BY DEF IsText
  <2>1. first + j \in 0 .. n - 1 /\ first + j >= e /\ first + j < e + g
    BY <1>1, <1>2, <1>5
  <2>2. pd[j] = s[first + j]
    BY <1>2
  <2>3. s[first + j] \in Text!Digits
    BY <2>1 DEF g, GoodIn
  <2> QED
    BY <2>2, <2>3, DigitsSet
<1>8. pn \in 0 .. 2 * h /\ 2 * h - pn = g - pn
  BY <1>1, <1>2
<1>9. ASSUME NEW u, Padded(u, pd, g - pn, pn)
      PROVE  HexWords(s, n, end)[i].z = Text!Number(u, g, Text!D)
  <2>1. Padded(u, pd, 2 * h - pn, pn)
    BY <1>8, <1>9
  <2>2. Text!HexToWord(pd, pn, h, "big", end).z = Text!Number(u, 2 * h, Text!D)
    BY <1>1, <1>7, <1>8, <2>1, HexToWordIs
  <2> QED
    BY <1>1, <1>3, <2>2
<1>10. HexWords(s, n, end)[i].z = Text!Number(y, g, Text!D)
  BY <1>2, <1>9
<1>11. ASSUME e >= 0 PROVE HexWords(s, n, end)[i].z = Text!Number(x, g, Text!D)
  <2>1. pn = g /\ first = e
    BY <1>1, <1>2, <1>5, <1>11
  <2>2. Padded(x, pd, g - pn, pn)
    <3> SUFFICES ASSUME NEW j \in 0 .. (g - pn + pn) - 1
                 PROVE  x[j] = IF j < g - pn THEN 0 ELSE pd[j - (g - pn)]
      BY DEF Padded
    <3>1. j \in 0 .. g - 1 /\ j \in 0 .. pn - 1 /\ ~(j < g - pn) /\ j - (g - pn) = j
      BY <1>1, <1>2, <2>1
    <3>2. pd[j] = s[first + j] /\ x[j] = s[e + j]
      BY <1>2, <1>6, <3>1
    <3> QED
      BY <2>1, <3>1, <3>2
  <2> QED
    BY <1>9, <2>2
<1> QED
  BY <1>10, <1>11 DEF y, x, g, ReadsAs

(* The number of the text, in c limbs and their count.                     *)
HexRead(from, s, n, c) ==
  /\ from.ok = TRUE
  /\ LimbsOfText(from.d, Whole(s, n, Text!LimbDigits), Text!LimbDigits, c, Text!D)
  /\ Word!Val(from.d, c) = Text!Number(s, n, Text!D)
  /\ from.rl = Top(Text!Number(s, n, Text!D), c)

(* The limbs below the first character that is no digit, and no other.     *)
HexFailed(from, rd, s, n, c) ==
  /\ from.ok = FALSE /\ DOMAIN from.d = 0 .. c - 1
  /\ \A i \in 0 .. c - 1 :
       from.d[i] = IF GoodFrom(s, n, n - Text!LimbDigits * (i + 1))
                   THEN Text!Number([j \in 0 .. Text!LimbDigits - 1 |->
                                       s[n - Text!LimbDigits * (i + 1) + j]], Text!LimbDigits, Text!D)
                   ELSE rd[i]

(* ll_from_hex reads digits only: every limb, and the count of those that  *)
(* matter.                                                                 *)
LEMMA FromHexIs ==
  ASSUME NEW n \in Nat, n <= MaxText, NEW s, IsText(s, n, Text!D), NEW end \in Text!Orders,
         NEW c, c = Text!Groups(n, Text!LimbDigits), NEW rd, IsArray(rd, c)
  PROVE  HexRead(Text!FromHex(rd, s, n, end), s, n, c)
<1> DEFINE g == Text!LimbDigits  from == Text!FromHex(rd, s, n, end)  w == HexWords(s, n, end)
           v == Text!Number(s, n, Text!D)  x == Whole(s, n, g)  d == from.d
<1>1. g \in Nat \ {0} /\ Text!D \in Nat \ {0} /\ c \in Nat /\ MaxText \in Nat
  BY TextSizes, GroupsIs, MaxLenAssumption
<1>2. \A k \in 0 .. c : Good(w, k)
  <2> SUFFICES ASSUME NEW k \in 0 .. c PROVE Good(w, k)
    OBVIOUS
  <2>1. GoodFrom(s, n, n - g * k)
    BY DigitsSet DEF GoodFrom, IsText
  <2> QED
    BY <2>1, GoodIs
<1>3. /\ Good(w, c) => from.ok = TRUE
      /\ d = Written(rd, w, c, c)
      /\ Good(w, c) => from.rl = Text!NumLimbs(d, c)
  <2>1. HexResult(from, rd, w, c)
    BY Zenon, FromHexLoop
  <2> HIDE DEF from, w
  <2> QED
    BY <2>1 DEF HexResult
<1>4. from.ok = TRUE /\ from.rl = Text!NumLimbs(d, c)
  <2>1. Good(w, c)
    BY <1>1, <1>2
  <2> QED
    BY <1>3, <2>1
<1>5. ASSUME NEW i \in 0 .. c - 1 PROVE d[i] = Text!Number(Slice(x, g, c, i), g, Text!D)
  <2>1. d[i] = w[i].z
    <3>1. i < c /\ Good(w, i + 1)
      BY <1>1, <1>2
    <3> HIDE DEF d, w
    <3> QED
      BY <1>3, <3>1 DEF Written
  <2> DEFINE e == n - g * i - g
  <2>2. GoodIn(s, n, e, e + g)
    BY DigitsSet DEF IsText, GoodIn
  <2>3. w[i].z = Text!Number(Slice(x, g, c, i), g, Text!D)
    <3>1. e = n - g * i - g
      OBVIOUS
    <3> HIDE DEF e, w, x
    <3>2. ReadsAs(w, i, Slice(Whole(s, n, g), g, c, i))
      BY <2>2, <3>1, HexWordIs DEF w
    <3> QED
      BY Zenon, <3>2 DEF x, ReadsAs
  <2> QED
    BY <2>1, <2>3
<1>6. IsText(x, g * c, Text!D) /\ Text!Number(x, g * c, Text!D) = v
  <2>1. c = Text!Groups(n, g)
    OBVIOUS
  <2> HIDE DEF g
  <2> QED
    BY <1>1, <2>1, WholeIs
<1>7. Ladder(DigitPow, Text!D, g) /\ DigitPow[g] = Word!B /\ g \in Nat
  BY <1>1, DigitLadder
<1> HIDE DEF d, x, g, v, w, from
<1>8. LimbsOfText(d, x, g, c, Text!D)
  BY <1>5 DEF LimbsOfText
<1>9. Word!Val(d, c) = Text!Number(x, g * c, Text!D) /\ \A i \in 0 .. c - 1 : d[i] \in 0 .. Word!B - 1
  BY <1>1, <1>6, <1>7, <1>8, SlicesIs
<1>10. Word!Val(d, c) = v
  BY <1>6, <1>9
<1>11. c <= Text!Groups(MaxText, Text!LimbDigits)
  <2> DEFINE m == Text!Groups(MaxText, g)
  <2>1. m \in Nat /\ MaxText <= g * m /\ g * m \in Nat
    BY <1>1, GroupsIs
  <2>2. c = Text!Groups(n, g)
    BY DEF g
  <2> HIDE DEF m
  <2>3. n <= g * m
    BY <1>1, <2>1
  <2>4. c <= m
    BY <1>1, <2>1, <2>2, <2>3, GroupsIs
  <2> QED
    BY <2>4 DEF m, g
<1>12. Text!NumLimbs(d, c) = Top(Word!Val(d, c), c)
  BY <1>1, <1>9, <1>11, TopIs
<1>13. from.rl = Top(v, c)
  BY <1>4, <1>10, <1>12
<1> QED
  BY <1>4, <1>8, <1>10, <1>13 DEF d, x, g, v, from, HexRead

(* A character that is no digit: the limbs below it are written, no other. *)
LEMMA FromHexFails ==
  ASSUME NEW n \in Nat, NEW s, NEW end \in Text!Orders,
         NEW c, c = Text!Groups(n, Text!LimbDigits), NEW rd, IsArray(rd, c),
         ~GoodFrom(s, n, 0)
  PROVE  HexFailed(Text!FromHex(rd, s, n, end), rd, s, n, c)
<1> DEFINE g == Text!LimbDigits  from == Text!FromHex(rd, s, n, end)  w == HexWords(s, n, end)
           d == from.d
<1>1. g \in Nat \ {0} /\ c \in Nat /\ n <= g * c
  BY TextSizes, GroupsIs
<1>2. ~Good(w, c)
  <2>1. Good(w, c) <=> GoodFrom(s, n, n - g * c)
    <3>1. c \in 0 .. c
      BY <1>1
    <3> QED
      BY <3>1, GoodIs
  <2>2. n - g * c <= 0 /\ n - g * c \in Int
    BY <1>1
  <2> DEFINE p == n - g * c
  <2> HIDE DEF p, w
  <2>3. ASSUME GoodFrom(s, n, p), p <= 0, p \in Int PROVE FALSE
    BY <2>3 DEF GoodFrom
  <2> QED
    BY <2>1, <2>2, <2>3 DEF p
<1>3. (~Good(w, c) => from.ok = FALSE) /\ d = Written(rd, w, c, c)
  <2>1. HexResult(from, rd, w, c)
    BY Zenon, FromHexLoop
  <2> HIDE DEF from, w
  <2> QED
    BY <2>1 DEF HexResult
<1>4. from.ok = FALSE
  BY <1>2, <1>3
<1> HIDE DEF from, w, d
<1>5. DOMAIN d = 0 .. c - 1
  BY <1>3 DEF Written
<1>6. ASSUME NEW i \in 0 .. c - 1
      PROVE  d[i] = IF GoodFrom(s, n, n - g * (i + 1))
                    THEN Text!Number([j \in 0 .. g - 1 |-> s[n - g * (i + 1) + j]], g, Text!D)
                    ELSE rd[i]
  <2> DEFINE e == n - g * i - g  u == [j \in 0 .. g - 1 |-> s[n - g * (i + 1) + j]]
  <2>1. i + 1 \in 0 .. c /\ i < c
    BY <1>1
  <2>2. e = n - g * (i + 1) /\ e \in Int
    BY <1>1
  <2>3. Good(w, i + 1) <=> GoodFrom(s, n, n - g * (i + 1))
    BY <2>1, GoodIs DEF w
  <2>4. d[i] = IF Good(w, i + 1) THEN w[i].z ELSE rd[i]
    BY <1>3, <2>1 DEF Written
  <2>5. CASE GoodFrom(s, n, n - g * (i + 1))
    <3>1. GoodFrom(s, n, e)
      BY <2>2, <2>5
    <3>2. e >= 0
      <4> HIDE DEF e, g
      <4>1. ASSUME ~(e >= 0) PROVE FALSE
        <5>1. \A j \in 0 .. n - 1 : j >= 0 => j >= e
          BY <2>2, <4>1
        <5> QED
          BY <3>1, <5>1 DEF GoodFrom
      <4> QED
        BY <4>1
    <3>3. GoodIn(s, n, e, e + g)
      <4> HIDE DEF e, g
      <4> QED
        BY <3>1 DEF GoodFrom, GoodIn
    <3>4. w[i].z = Text!Number([j \in 0 .. g - 1 |-> s[e + j]], g, Text!D)
      BY <3>2, <3>3, HexWordIs DEF w
    <3>5. [j \in 0 .. g - 1 |-> s[e + j]] = u
      <4> HIDE DEF e
      <4> QED
        BY <2>2
    <3> HIDE DEF u
    <3> QED
      BY <2>3, <2>4, <2>5, <3>4, <3>5 DEF u
  <2>6. CASE ~GoodFrom(s, n, n - g * (i + 1))
    BY <2>3, <2>4, <2>6
  <2> QED
    BY <2>5, <2>6
<1> QED
  BY <1>4, <1>5, <1>6 DEF d, from, HexFailed

(* ll_to_hex gives the text back, in whole limbs.                          *)
LEMMA ToHexIs ==
  ASSUME NEW c \in Nat, NEW x, IsText(x, Text!LimbDigits * c, Text!D), NEW d,
         LimbsOfText(d, x, Text!LimbDigits, c, Text!D), NEW end \in Text!Orders
  PROVE  Text!ToHex(d, c, end) = Copy(x, Text!LimbDigits * c)
<1> DEFINE g == Text!LimbDigits  h == Text!LimbBytes
<1>1. g \in Nat \ {0} /\ g = 2 * h /\ h \in Nat /\ h <= Text!LimbBytes
  BY TextSizes
<1>2. ASSUME NEW j \in 0 .. g * c - 1
      PROVE  Text!U64ToHex(d[c - 1 - (j \div g)], h, "big", end)[j % g] = x[j]
  <2> DEFINE q == j \div g  r == j % g  i == c - 1 - q  y == Slice(x, g, c, i)
  <2>1. q \in 0 .. c - 1 /\ r \in 0 .. g - 1 /\ j = g * q + r /\ i \in 0 .. c - 1 /\ c - 1 - i = q
    <3>1. g \in Nat \ {0}
      BY <1>1
    <3> HIDE DEF g
    <3> QED
      BY <3>1, PlaceIs
  <2>2. d[i] = Text!Number(y, g, Text!D)
    BY <2>1 DEF LimbsOfText
  <2>3. IsText(y, g, Text!D)
    <3> HIDE DEF i
    <3> QED
      BY <1>1, <2>1, SliceText
  <2>4. y[r] = x[j]
    <3> HIDE DEF q, r, i, g
    <3>1. y[r] = x[g * (c - 1 - i) + r]
      BY <2>1 DEF Slice
    <3> QED
      BY <2>1, <3>1
  <2> HIDE DEF y, g, h
  <2>5. IsText(y, 2 * h, Text!D)
    BY <1>1, <2>3
  <2>6. Text!U64ToHex(Text!Number(y, 2 * h, Text!D), h, "big", end) = [k \in 0 .. 2 * h - 1 |-> y[k]]
    BY <1>1, <2>5, WordDigits
  <2> HIDE DEF q, r, i
  <2>7. Text!U64ToHex(d[i], h, "big", end)[r] = x[j]
    BY <1>1, <2>1, <2>2, <2>4, <2>6
  <2> QED
    BY <2>7 DEF i, q, r
<1>3. Text!ToHex(d, c, end)
        = [j \in 0 .. g * c - 1 |-> Text!U64ToHex(d[c - 1 - (j \div g)], h, "big", end)[j % g]]
  BY DEF Text!ToHex
<1> HIDE DEF g, h
<1>4. Text!ToHex(d, c, end) = [j \in 0 .. g * c - 1 |-> x[j]]
  BY <1>2, <1>3
<1> QED
  BY <1>4 DEF g, Copy

(* The array that the routines write into, before the call.                *)
Ones(l) == [i \in 0 .. l - 1 |-> Word!B - 1]

(* What ConversionsAreExact asks of limbs made of n characters, g to a     *)
(* limb, and of the characters made of these limbs.                        *)
ExactTo(s, n, g, base, from, back) ==
  /\ Word!Val(from.d, Text!Groups(n, g)) = Text!Number(s, n, base)
  /\ from.rl = Top(Text!Number(s, n, base), Text!Groups(n, g))
  /\ back = Whole(s, n, g)

(* Characters that are digits become limbs and come back.                  *)
LEMMA GoodTextIs ==
  ASSUME NEW n \in 0 .. MaxText, NEW s, IsText(s, n, Text!D), NEW end \in Text!Orders,
         NEW c, c = Text!Groups(n, Text!LimbDigits),
         NEW from, from = Text!FromHex(Ones(c), s, n, end)
  PROVE  /\ from.ok = TRUE
         /\ ExactTo(s, n, Text!LimbDigits, Text!D, from, Text!ToHex(from.d, c, end))
<1> DEFINE g == Text!LimbDigits  x == Whole(s, n, g)  rd == Ones(c)
<1>1. n \in Nat /\ n <= MaxText /\ g \in Nat \ {0} /\ Text!D \in Nat \ {0} /\ c \in Nat
  BY MaxLenAssumption, TextSizes, GroupsIs
<1>2. IsArray(rd, c)
  BY DEF IsArray, Ones
<1> HIDE DEF rd
<1>3. /\ Text!FromHex(rd, s, n, end).ok = TRUE
      /\ LimbsOfText(Text!FromHex(rd, s, n, end).d, x, g, c, Text!D)
      /\ Word!Val(Text!FromHex(rd, s, n, end).d, c) = Text!Number(s, n, Text!D)
      /\ Text!FromHex(rd, s, n, end).rl = Top(Text!Number(s, n, Text!D), c)
  <2>1. HexRead(Text!FromHex(rd, s, n, end), s, n, c)
    BY <1>1, <1>2, FromHexIs
  <2> QED
    BY Zenon, <2>1 DEF HexRead
<1>4. from = Text!FromHex(rd, s, n, end)
  BY DEF rd
<1>5. /\ from.ok = TRUE /\ LimbsOfText(from.d, x, g, c, Text!D)
      /\ Word!Val(from.d, c) = Text!Number(s, n, Text!D)
      /\ from.rl = Top(Text!Number(s, n, Text!D), c)
  BY <1>3, <1>4
<1>6. IsText(x, g * c, Text!D)
  <2>1. c = Text!Groups(n, g)
    OBVIOUS
  <2> HIDE DEF g
  <2> QED
    BY <1>1, <2>1, WholeIs
<1>7. Text!ToHex(from.d, c, end) = Copy(x, g * c)
  <2>1. ASSUME NEW d, LimbsOfText(d, x, g, c, Text!D)
        PROVE  Text!ToHex(d, c, end) = Copy(x, g * c)
    <3> HIDE DEF x
    <3> QED
      BY Zenon, <1>1, <1>6, <2>1, ToHexIs
  <2> QED
    BY <1>5, <2>1
<1>8. Copy(x, g * c) = x
  BY DEF Whole, Copy
<1> QED
  BY <1>5, <1>7, <1>8 DEF ExactTo

(* Bytes become limbs and come back.                                       *)
LEMMA GoodBytesIs ==
  ASSUME NEW n \in Nat, 2 * n <= MaxText, NEW s, IsText(s, n, Text!Byte), NEW end \in Text!Orders,
         NEW c, c = Text!Groups(n, Text!LimbBytes),
         NEW from, from = Text!FromBytes(Ones(c), s, n, end)
  PROVE  ExactTo(s, n, Text!LimbBytes, Text!Byte, from, Text!ToBytes(from.d, c, end))
<1> DEFINE g == Text!LimbBytes  x == Whole(s, n, g)  rd == Ones(c)
<1>1. g \in Nat \ {0} /\ Text!Byte \in Nat \ {0} /\ c \in Nat
  BY TextSizes, GroupsIs
<1>2. DOMAIN rd = 0 .. c - 1
  BY DEF Ones
<1> HIDE DEF rd
<1>3. /\ LimbsOfText(Text!FromBytes(rd, s, n, end).d, x, g, c, Text!Byte)
      /\ Word!Val(Text!FromBytes(rd, s, n, end).d, c) = Text!Number(s, n, Text!Byte)
      /\ Text!FromBytes(rd, s, n, end).rl = Top(Text!Number(s, n, Text!Byte), c)
  BY <1>2, FromBytesIs
<1>4. from = Text!FromBytes(rd, s, n, end)
  BY DEF rd
<1>5. /\ LimbsOfText(from.d, x, g, c, Text!Byte)
      /\ Word!Val(from.d, c) = Text!Number(s, n, Text!Byte)
      /\ from.rl = Top(Text!Number(s, n, Text!Byte), c)
  BY <1>3, <1>4
<1>6. IsText(x, g * c, Text!Byte)
  <2>1. c = Text!Groups(n, g)
    OBVIOUS
  <2> HIDE DEF g
  <2> QED
    BY <1>1, <2>1, WholeIs
<1>7. Text!ToBytes(from.d, c, end) = Copy(x, g * c)
  <2>1. ASSUME NEW d, LimbsOfText(d, x, g, c, Text!Byte)
        PROVE  Text!ToBytes(d, c, end) = Copy(x, g * c)
    <3> HIDE DEF x
    <3> QED
      BY Zenon, <1>1, <1>6, <2>1, ToBytesIs
  <2> QED
    BY <1>5, <2>1
<1>8. Copy(x, g * c) = x
  BY DEF Whole, Copy
<1> QED
  BY <1>5, <1>7, <1>8 DEF ExactTo

(* What ConversionsAreExact asks of a text with characters of no digit.    *)
FailedAt(s, n, from) ==
  LET bad == {j \in 0 .. n - 1 : s[j] = Text!Bad}
      below == {i \in DOMAIN from.d : \A j \in bad : j < n - Text!LimbDigits * (i + 1)}
  IN  \A i \in DOMAIN from.d :
        from.d[i] =
          IF i \notin below THEN Word!B - 1
          ELSE Text!Number([j \in 0 .. Text!LimbDigits - 1 |->
                              s[n - Text!LimbDigits * (i + 1) + j]],
                           Text!LimbDigits, Text!D)

(* A character that is no digit makes ll_from_hex fail, with the limbs     *)
(* below it written.                                                       *)
LEMMA BadTextIs ==
  ASSUME NEW n \in Nat, NEW s, \A j \in 0 .. n - 1 : s[j] \in 0 .. Text!D, ~IsText(s, n, Text!D),
         NEW end \in Text!Orders, NEW c, c = Text!Groups(n, Text!LimbDigits),
         NEW from, from = Text!FromHex(Ones(c), s, n, end)
  PROVE  from.ok = FALSE /\ FailedAt(s, n, from)
<1> DEFINE g == Text!LimbDigits  rd == Ones(c)
           bad == {j \in 0 .. n - 1 : s[j] = Text!Bad}
           u(i) == Text!Number([j \in 0 .. g - 1 |-> s[n - g * (i + 1) + j]], g, Text!D)
<1>1. IsArray(rd, c) /\ \A i \in 0 .. c - 1 : rd[i] = Word!B - 1
  BY DEF IsArray, Ones
<1>2. g \in Nat \ {0} /\ c \in Nat
  BY TextSizes, GroupsIs
<1>3. \A j \in 0 .. n - 1 : s[j] \in Text!Digits <=> j \notin bad
  <2> SUFFICES ASSUME NEW j \in 0 .. n - 1 PROVE s[j] \in Text!Digits <=> s[j] # Text!Bad
    OBVIOUS
  <2>1. s[j] \in 0 .. Text!D /\ Text!D \in Nat /\ Text!Digits = 0 .. Text!D - 1 /\ Text!Bad = Text!D
    BY DigitsSet DEF Text!Bad
  <2> QED
    BY <2>1
<1>4. ~GoodFrom(s, n, 0)
  BY DigitsSet DEF IsText, GoodFrom
<1> HIDE DEF rd
<1>5. /\ Text!FromHex(rd, s, n, end).ok = FALSE
      /\ DOMAIN Text!FromHex(rd, s, n, end).d = 0 .. c - 1
      /\ \A i \in 0 .. c - 1 :
           Text!FromHex(rd, s, n, end).d[i]
             = IF GoodFrom(s, n, n - g * (i + 1)) THEN u(i) ELSE rd[i]
  <2>1. HexFailed(Text!FromHex(rd, s, n, end), rd, s, n, c)
    BY <1>1, <1>4, FromHexFails
  <2> QED
    BY Zenon, <2>1 DEF HexFailed
<1>6. from = Text!FromHex(rd, s, n, end)
  BY DEF rd
<1> HIDE DEF u
<1>7. /\ from.ok = FALSE /\ DOMAIN from.d = 0 .. c - 1
      /\ \A i \in 0 .. c - 1 :
           from.d[i] = IF GoodFrom(s, n, n - g * (i + 1)) THEN u(i) ELSE Word!B - 1
  BY <1>1, <1>5, <1>6
<1>8. ASSUME NEW i \in 0 .. c - 1
      PROVE  GoodFrom(s, n, n - g * (i + 1)) <=> \A j \in bad : j < n - g * (i + 1)
  <2> DEFINE p == n - g * (i + 1)
  <2>1. p \in Int
    BY <1>2
  <2>2. bad \subseteq 0 .. n - 1
    OBVIOUS
  <2> HIDE DEF p, bad
  <2> QED
    BY <1>3, <2>1, <2>2 DEF GoodFrom, p
<1> HIDE DEF bad, g
<1>9. \A i \in DOMAIN from.d :
        from.d[i] = IF i \notin {k \in DOMAIN from.d : \A j \in bad : j < n - g * (k + 1)}
                    THEN Word!B - 1 ELSE u(i)
  BY <1>7, <1>8
<1> QED
  BY <1>7, <1>9 DEF FailedAt, bad, g, u

(* A short word with zero bytes in front, and its bytes in the other order. *)
PaddedWord(s, n, k) == [j \in 0 .. k - 1 |-> IF j < k - n THEN 0 ELSE s[j - (k - n)]]
InOrder(y, k, order) == IF order = "big" THEN y ELSE [j \in DOMAIN y |-> y[k - 1 - j]]

(* What ConversionsAreExact asks of the routines on single words.          *)
WordExact(s, n, k, order, end, z) ==
  /\ z = Text!Number(InOrder(PaddedWord(s, n, k), k, order), k, Text!Byte)
  /\ Text!WordToU8(z, k, order, end) = PaddedWord(s, n, k)
  /\ Text!U32ToHex(z, k, order) = HexOf(PaddedWord(s, n, k), k)
  /\ Text!U64ToHex(z, k, order, end) = HexOf(PaddedWord(s, n, k), k)

(* Bytes become a word, and the word bytes and digits.                     *)
LEMMA GoodWordIs ==
  ASSUME NEW k \in Nat, k <= Text!LimbBytes, NEW n \in 0 .. k, NEW s, IsText(s, n, Text!Byte),
         NEW order \in Text!Orders, NEW end \in Text!Orders
  PROVE  WordExact(s, n, k, order, end, Text!U8ToWord(s, n, k, order, end).z)
<1> DEFINE y == PaddedWord(s, n, k)  w == InOrder(y, k, order)
           z == Text!U8ToWord(s, n, k, order, end).z  v == Text!Number(w, k, Text!Byte)
<1>1. Padded(y, s, k - n, n)
  BY DEF Padded, PaddedWord
<1>2. Ordered(w, y, k, order) /\ [j \in 0 .. k - 1 |-> y[j]] = y
  BY DEF Ordered, InOrder, PaddedWord
<1> HIDE DEF y, w
<1>3. z = v /\ IsText(y, k, Text!Byte)
  BY <1>1, <1>2, U8ToWordIs
<1>4. Text!WordToU8(v, k, order, end) = y
  BY <1>2, <1>3, WordToU8Is
<1>5. Text!U32ToHex(v, k, order) = HexOf(y, k)
  BY <1>2, <1>3, U32ToHexIs
<1>6. Text!U64ToHex(v, k, order, end) = HexOf(y, k)
  BY <1>2, <1>3, U64ToHexIs
<1> HIDE DEF v, z
<1>7. /\ z = v
      /\ Text!WordToU8(z, k, order, end) = y
      /\ Text!U32ToHex(z, k, order) = HexOf(y, k)
      /\ Text!U64ToHex(z, k, order, end) = HexOf(y, k)
  BY <1>3, <1>4, <1>5, <1>6
<1> QED
  BY Zenon, <1>7 DEF WordExact, z, v, w, y

(* What a caller passes to the conversions.                                *)
TextOperands(c) ==
  /\ c.f = "text" =>
       /\ c.n \in 0 .. MaxText /\ c.end \in Text!Orders
       /\ \A j \in 0 .. c.n - 1 : c.s[j] \in 0 .. Text!D
  /\ c.f = "bytes" =>
       /\ c.n \in Nat /\ 2 * c.n <= MaxText /\ c.end \in Text!Orders
       /\ IsText(c.s, c.n, Text!Byte)
  /\ c.f = "word" =>
       /\ c.k \in Nat /\ c.k <= Text!LimbBytes /\ c.n \in 0 .. c.k
       /\ c.order \in Text!Orders /\ c.end \in Text!Orders
       /\ IsText(c.s, c.n, Text!Byte)

(* A pattern has a character of the alphabet in every place.               *)
LEMMA PatternHolds ==
  ASSUME NEW n \in Nat, NEW A, NEW P, P \subseteq A, NEW s \in Patterns(n, A, P)
  PROVE  \A j \in 0 .. n - 1 : s[j] \in A
<1> SUFFICES ASSUME NEW j \in 0 .. n - 1 PROVE s[j] \in A
  OBVIOUS
<1>1. n # 0
  OBVIOUS
<1>2. PICK p \in 0 .. n - 1, q \in 0 .. n - 1, x \in A, y \in A, z \in P :
        s = [i \in 0 .. n - 1 |-> IF i = p THEN x ELSE IF i = q THEN y ELSE z]
  BY <1>1 DEF Patterns
<1> QED
  BY <1>2

(* The other routines are none of them.                                    *)
LEMMA CallTextOperands == Call => TextOperands(call')
<1> SUFFICES ASSUME Call PROVE TextOperands(call')
  OBVIOUS
<1>1. CASE CallText
  <2> PICK end \in Text!Orders :
        \/ \E n \in 0 .. MaxText :
             \/ \E s \in Patterns(n, Text!Digits \cup {Text!Bad}, Text!Digits) :
                  call' = [f |-> "text", s |-> s, n |-> n, end |-> end]
             \/ /\ n % 2 = 0
                /\ \E s \in Patterns(n \div 2, 0 .. Text!Byte - 1, {0}) :
                     call' = [f |-> "bytes", s |-> s, n |-> n \div 2, end |-> end]
        \/ \E order \in Text!Orders, k \in {Text!LimbBytes \div 2, Text!LimbBytes} :
             \E n \in 0 .. k :
               \E s \in [0 .. n - 1 -> 0 .. Text!Byte - 1] :
                 call' = [f |-> "word", s |-> s, n |-> n, k |-> k, order |-> order, end |-> end]
    BY <1>1 DEF CallText
  <2>1. ASSUME NEW n \in 0 .. MaxText, NEW s \in Patterns(n, Text!Digits \cup {Text!Bad}, Text!Digits),
               call' = [f |-> "text", s |-> s, n |-> n, end |-> end]
        PROVE  TextOperands(call')
    <3>1. n \in Nat
      BY MaxLenAssumption
    <3>2. \A j \in 0 .. n - 1 : s[j] \in Text!Digits \cup {Text!Bad}
      BY <3>1, PatternHolds
    <3>3. Text!Digits \cup {Text!Bad} = 0 .. Text!D
      BY DigitsSet DEF Text!Bad
    <3>4. \A j \in 0 .. n - 1 : s[j] \in 0 .. Text!D
      BY <3>2, <3>3
    <3> QED
      BY <2>1, <3>4 DEF TextOperands
  <2>2. ASSUME NEW n \in 0 .. MaxText, n % 2 = 0, NEW s \in Patterns(n \div 2, 0 .. Text!Byte - 1, {0}),
               call' = [f |-> "bytes", s |-> s, n |-> n \div 2, end |-> end]
        PROVE  TextOperands(call')
    <3>1. n \div 2 \in Nat /\ 2 * (n \div 2) <= MaxText
      BY <2>2, MaxLenAssumption
    <3>2. {0} \subseteq 0 .. Text!Byte - 1
      BY TextSizes
    <3>3. IsText(s, n \div 2, Text!Byte)
      <4> DEFINE h == n \div 2  A == 0 .. Text!Byte - 1
      <4>1. h \in Nat /\ s \in Patterns(h, A, {0}) /\ {0} \subseteq A
        BY <3>1, <3>2
      <4> HIDE DEF h, A
      <4>2. \A j \in 0 .. h - 1 : s[j] \in A
        BY <4>1, PatternHolds
      <4> QED
        BY <4>2 DEF IsText, h, A
    <3> QED
      BY <2>2, <3>1, <3>3 DEF TextOperands
  <2>3. ASSUME NEW order \in Text!Orders, NEW k \in {Text!LimbBytes \div 2, Text!LimbBytes},
               NEW n \in 0 .. k, NEW s \in [0 .. n - 1 -> 0 .. Text!Byte - 1],
               call' = [f |-> "word", s |-> s, n |-> n, k |-> k, order |-> order, end |-> end]
        PROVE  TextOperands(call')
    <3>1. k \in Nat /\ k <= Text!LimbBytes
      BY TextSizes
    <3>2. IsText(s, n, Text!Byte)
      BY DEF IsText
    <3> QED
      BY <2>3, <3>1, <3>2 DEF TextOperands
  <2> QED
    BY <2>1, <2>2, <2>3
<1>2. ASSUME call'.f \notin {"text", "bytes", "word"} PROVE TextOperands(call')
  BY <1>2 DEF TextOperands
<1>3. CASE CallArrays
  <2>1. call'.f \in {"add", "sub", "cmp", "mul"}
    BY <1>3 DEF CallArrays
  <2> QED
    BY <1>2, <2>1
<1>4. CASE CallRows
  <2>1. call'.f \in {"mul_limb", "muladd", "mulsub"}
    BY <1>4 DEF CallRows
  <2> QED
    BY <1>2, <2>1
<1>5. CASE CallShifts
  <2>1. call'.f \in {"lshift", "rshift"}
    BY <1>5 DEF CallShifts
  <2> QED
    BY <1>2, <2>1
<1>6. CASE CallU256
  <2>1. call'.f \in {"u256", "u256_limb", "u256_shift"}
    BY <1>6 DEF CallU256
  <2> QED
    BY <1>2, <2>1
<1>7. CASE CallWords
  <2>1. call'.f \in {"mulwords", "invert", "num_bits"}
    BY <1>7 DEF CallWords
  <2> QED
    BY <1>2, <2>1
<1> QED
  BY <1>1, <1>3, <1>4, <1>5, <1>6, <1>7 DEF Call

(* What ConversionsAreExact says of the three kinds of call, as predicates *)
(* on the call c and on what it left, o.                                   *)
ExactFrom(c, o, g, base) ==
  LET limbs == Text!Groups(c.n, g)
      v == Text!Number(c.s, c.n, base)
      pad == g * limbs - c.n
  IN  /\ Word!Val(o.from.d, limbs) = v /\ o.from.rl = Top(v, limbs)
      /\ o.back = [j \in 0 .. g * limbs - 1 |-> IF j < pad THEN 0 ELSE c.s[j - pad]]

TextIs(c, o) ==
  LET bad == {j \in 0 .. c.n - 1 : c.s[j] = Text!Bad}
  IN  /\ o.from.ok = (bad = {})
      /\ bad = {} => ExactFrom(c, o, Text!LimbDigits, Text!D)
      /\ bad # {} => FailedAt(c.s, c.n, o.from)

WordIs(c, o) ==
  LET pad == c.k - c.n
      padded == [j \in 0 .. c.k - 1 |-> IF j < pad THEN 0 ELSE c.s[j - pad]]
      digits == [j \in 0 .. 2 * c.k - 1 |->
                   IF j % 2 = 0 THEN padded[j \div 2] \div Text!D
                   ELSE padded[j \div 2] % Text!D]
  IN  /\ o.z = Text!Number(IF c.order = "big" THEN padded
                           ELSE [j \in DOMAIN padded |-> padded[c.k - 1 - j]],
                           c.k, Text!Byte)
      /\ o.bytes = padded /\ o.hex32 = digits /\ o.hex64 = digits

ConversionsHold ==
  /\ Returned("text") => TextIs(call, out)
  /\ Returned("bytes") => ExactFrom(call, out, Text!LimbBytes, Text!Byte)
  /\ Returned("word") => WordIs(call, out)

TextInv ==
  /\ call = NoCall => out = NoOut
  /\ TextOperands(call)
  /\ ConversionsHold

(* Together they are what the runs check.                                  *)
LEMMA ConversionsHoldIs == ConversionsHold => ConversionsAreExact
<1>1. (Returned("text") => TextIs(call, out)) <=>
        (Returned("text") =>
           LET bad == {j \in 0 .. call.n - 1 : call.s[j] = Text!Bad}
               below == {i \in DOMAIN out.from.d :
                           \A j \in bad : j < call.n - Text!LimbDigits * (i + 1)}
           IN  /\ out.from.ok = (bad = {})
               /\ bad = {} => ExactFrom(call, out, Text!LimbDigits, Text!D)
               /\ bad # {} => \A i \in DOMAIN out.from.d :
                    out.from.d[i] =
                      IF i \notin below THEN Word!B - 1
                      ELSE Text!Number([j \in 0 .. Text!LimbDigits - 1 |->
                                          call.s[call.n - Text!LimbDigits * (i + 1) + j]],
                                       Text!LimbDigits, Text!D))
  BY Zenon DEF TextIs, FailedAt
<1> QED
  BY Zenon, <1>1 DEF ConversionsHold, ConversionsAreExact, ExactFrom, WordIs, Top

(* The limbs of a text or of bytes are those of RunText.                   *)
LEMMA RunTextIs ==
  ASSUME NEW c
  PROVE  /\ c.f = "text" =>
              RunText(c) =
                [from |-> Text!FromHex(Ones(Text!Groups(c.n, Text!LimbDigits)), c.s, c.n, c.end),
                 back |-> Text!ToHex(Text!FromHex(Ones(Text!Groups(c.n, Text!LimbDigits)), c.s, c.n, c.end).d,
                                     Text!Groups(c.n, Text!LimbDigits), c.end)]
         /\ c.f = "bytes" =>
              RunText(c) =
                [from |-> Text!FromBytes(Ones(Text!Groups(c.n, Text!LimbBytes)), c.s, c.n, c.end),
                 back |-> Text!ToBytes(Text!FromBytes(Ones(Text!Groups(c.n, Text!LimbBytes)), c.s, c.n, c.end).d,
                                       Text!Groups(c.n, Text!LimbBytes), c.end)]
         /\ c.f = "word" =>
              RunText(c) =
                [z |-> Text!U8ToWord(c.s, c.n, c.k, c.order, c.end).z,
                 bytes |-> Text!WordToU8(Text!U8ToWord(c.s, c.n, c.k, c.order, c.end).z, c.k, c.order, c.end),
                 hex32 |-> Text!U32ToHex(Text!U8ToWord(c.s, c.n, c.k, c.order, c.end).z, c.k, c.order),
                 hex64 |-> Text!U64ToHex(Text!U8ToWord(c.s, c.n, c.k, c.order, c.end).z, c.k, c.order, c.end)]
<1>1. CASE c.f = "text"
  BY <1>1 DEF RunText, Ones
<1>2. CASE c.f = "bytes"
  BY <1>2 DEF RunText, Ones
<1>3. CASE c.f = "word"
  BY <1>3 DEF RunText
<1> QED
  BY <1>1, <1>2, <1>3

(* What RunText leaves is what ConversionsAreExact asks for.               *)
LEMMA TextRunIs ==
  ASSUME NEW c, TextOperands(c), c.f = "text"
  PROVE  TextIs(c, RunText(c))
<1> DEFINE n == c.n  s == c.s  g == Text!LimbDigits  l == Text!Groups(n, g)
           from == Text!FromHex(Ones(l), s, n, c.end)  o == RunText(c)
           bad == {j \in 0 .. n - 1 : s[j] = Text!Bad}
<1>1. n \in 0 .. MaxText /\ c.end \in Text!Orders /\ \A j \in 0 .. n - 1 : s[j] \in 0 .. Text!D
  BY DEF TextOperands
<1>2. n \in Nat
  BY <1>1, MaxLenAssumption
<1>3. o.from = from /\ o.back = Text!ToHex(from.d, l, c.end)
  BY RunTextIs
<1>4. IsText(s, n, Text!D) <=> bad = {}
  <2>1. \A j \in 0 .. n - 1 : s[j] \in 0 .. Text!D - 1 <=> s[j] # Text!Bad
    BY <1>1, DigitsSet DEF Text!Bad
  <2> HIDE DEF n, s
  <2> QED
    BY <2>1 DEF IsText
<1> HIDE DEF o
<1>5. CASE IsText(s, n, Text!D)
  <2>1. from.ok = TRUE /\ ExactTo(s, n, g, Text!D, from, Text!ToHex(from.d, l, c.end))
    BY <1>1, <1>5, GoodTextIs
  <2>2. bad = {} /\ o.from.ok = TRUE
    BY <1>3, <1>4, <1>5, <2>1
  <2> HIDE DEF from, bad
  <2>3. ExactTo(s, n, g, Text!D, o.from, o.back)
    BY <1>3, <2>1
  <2>4. ExactFrom(c, o, g, Text!D)
    BY Zenon, <2>3 DEF ExactTo, ExactFrom, Whole, Pad
  <2> QED
    BY Zenon, <2>2, <2>4 DEF TextIs, bad, o
<1>6. CASE ~IsText(s, n, Text!D)
  <2>1. from.ok = FALSE /\ FailedAt(s, n, from)
    BY <1>1, <1>2, <1>6, BadTextIs
  <2>2. bad # {} /\ o.from.ok = FALSE
    BY <1>3, <1>4, <1>6, <2>1
  <2> HIDE DEF from, bad
  <2>3. FailedAt(s, n, o.from)
    BY <1>3, <2>1
  <2> QED
    BY Zenon, <2>2, <2>3 DEF TextIs, bad, o
<1> QED
  BY <1>5, <1>6

(* The same for bytes,                                                     *)
LEMMA BytesRunIs ==
  ASSUME NEW c, TextOperands(c), c.f = "bytes"
  PROVE  ExactFrom(c, RunText(c), Text!LimbBytes, Text!Byte)
<1> DEFINE n == c.n  s == c.s  g == Text!LimbBytes  l == Text!Groups(n, g)
           from == Text!FromBytes(Ones(l), s, n, c.end)  o == RunText(c)
<1>1. n \in Nat /\ 2 * n <= MaxText /\ c.end \in Text!Orders /\ IsText(s, n, Text!Byte)
  BY DEF TextOperands
<1>2. o.from = from /\ o.back = Text!ToBytes(from.d, l, c.end)
  BY RunTextIs
<1>3. ExactTo(s, n, g, Text!Byte, from, Text!ToBytes(from.d, l, c.end))
  BY <1>1, GoodBytesIs
<1> HIDE DEF o, from
<1>4. ExactTo(s, n, g, Text!Byte, o.from, o.back)
  BY <1>2, <1>3
<1>5. ExactFrom(c, o, g, Text!Byte)
  BY Zenon, <1>4 DEF ExactTo, ExactFrom, Whole, Pad
<1> QED
  BY <1>5 DEF o

(* and for the routines on single words.                                   *)
LEMMA WordRunIs ==
  ASSUME NEW c, TextOperands(c), c.f = "word"
  PROVE  WordIs(c, RunText(c))
<1> DEFINE z == Text!U8ToWord(c.s, c.n, c.k, c.order, c.end).z  o == RunText(c)
<1>1. /\ c.k \in Nat /\ c.k <= Text!LimbBytes /\ c.n \in 0 .. c.k
      /\ c.order \in Text!Orders /\ c.end \in Text!Orders /\ IsText(c.s, c.n, Text!Byte)
  BY DEF TextOperands
<1>2. /\ o.z = z /\ o.bytes = Text!WordToU8(z, c.k, c.order, c.end)
      /\ o.hex32 = Text!U32ToHex(z, c.k, c.order)
      /\ o.hex64 = Text!U64ToHex(z, c.k, c.order, c.end)
  BY RunTextIs
<1>3. WordExact(c.s, c.n, c.k, c.order, c.end, z)
  BY <1>1, GoodWordIs
<1> HIDE DEF o, z
<1>4. /\ o.z = Text!Number(InOrder(PaddedWord(c.s, c.n, c.k), c.k, c.order), c.k, Text!Byte)
      /\ o.bytes = PaddedWord(c.s, c.n, c.k)
      /\ o.hex32 = HexOf(PaddedWord(c.s, c.n, c.k), c.k)
      /\ o.hex64 = HexOf(PaddedWord(c.s, c.n, c.k), c.k)
  BY <1>2, <1>3 DEF WordExact
<1>5. WordIs(c, o)
  BY Zenon, <1>4 DEF WordIs, InOrder, PaddedWord, HexOf
<1> QED
  BY <1>5 DEF o

(* What the conversions leave is exact.                                    *)
LEMMA RunTextsExact ==
  ASSUME TextOperands(call), Run
  PROVE  ConversionsHold'
<1>1. call' = call
  BY DEF Run
<1>2. ASSUME call.f \in {"text", "bytes", "word"} PROVE out' = RunText(call)
  BY <1>2 DEF Run
<1>3. call.f = "text" => TextIs(call, out')
  BY <1>2, TextRunIs
<1>4. call.f = "bytes" => ExactFrom(call, out', Text!LimbBytes, Text!Byte)
  BY <1>2, BytesRunIs
<1>5. call.f = "word" => WordIs(call, out')
  BY <1>2, WordRunIs
<1> QED
  BY <1>1, <1>3, <1>4, <1>5 DEF ConversionsHold, Returned

(* The conversions between limbs, bytes and text are exact, on machines of *)
(* either byte order, for text up to any length and any even width.        *)
THEOREM TextsExact == Spec => []ConversionsAreExact
<1>1. Init => TextInv
  <2> SUFFICES ASSUME Init PROVE TextInv
    OBVIOUS
  <2>1. call = NoCall /\ out = NoOut /\ call.f = "none"
    BY DEF Init, NoCall
  <2> QED
    BY <2>1 DEF TextInv, TextOperands, ConversionsHold, Returned
<1>2. TextInv /\ [Next]_vars => TextInv'
  <2> SUFFICES ASSUME TextInv, [Next]_vars PROVE TextInv'
    OBVIOUS
  <2>1. CASE Call
    <3>1. TextOperands(call')
      BY <2>1, CallTextOperands
    <3>2. out' = NoOut
      BY <2>1 DEF Call, TextInv
    <3> QED
      BY <3>1, <3>2 DEF TextInv, ConversionsHold, Returned
  <2>2. CASE Run
    <3>1. ConversionsHold'
      BY <2>2, RunTextsExact DEF TextInv
    <3>2. call' = call /\ call # NoCall
      BY <2>2 DEF Run
    <3> QED
      BY <3>1, <3>2 DEF TextInv
  <2>3. CASE Return
    <3>1. call' = NoCall /\ out' = NoOut /\ call'.f = "none"
      BY <2>3 DEF Return, NoCall
    <3> QED
      BY <3>1 DEF TextInv, TextOperands, ConversionsHold, Returned
  <2>4. CASE UNCHANGED vars
    BY <2>4 DEF vars, TextInv, ConversionsHold, Returned
  <2> QED
    BY <2>1, <2>2, <2>3, <2>4 DEF Next
<1>3. TextInv => ConversionsAreExact
  BY ConversionsHoldIs DEF TextInv
<1> QED
  BY <1>1, <1>2, <1>3, PTL DEF Spec
================================================================================
