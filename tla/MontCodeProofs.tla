--------------------------- MODULE MontCodeProofs ---------------------------
(***************************************************************************)
(* Both implementations of Montgomery arithmetic keep every carry and do,  *)
(* iteration by iteration, what MontMul does, for every width of a limb,   *)
(* number of limbs, modulus and operand.  The routines are lemmas of       *)
(* LimbsProofs on arrays; here each action gets one lemma that says what   *)
(* it does to the numbers, one that it keeps the invariant and one that it *)
(* is a step of MontMul.                                                   *)
(***************************************************************************)
EXTENDS MontCode, LimbsProofs

(* B^n is the n-th power of B.                                             *)
LEMMA BasePowers == \A n \in 0 .. Len : B^n = Power(n)
<1> DEFINE T == {n \in Nat : B^n = Power(n)}
<1>1. Len \in Nat
  BY LenAssumption
<1>2. 0 \in T
  BY PowersAssumption, PowerStep
<1>3. \A k \in 0 .. Len - 1 : k \in T => k + 1 \in T
  <2> SUFFICES ASSUME NEW k \in 0 .. Len - 1, k \in T PROVE k + 1 \in T
    OBVIOUS
  <2>1. k \in Nat /\ k + 1 \in Nat
    BY <1>1
  <2>2. B^(k + 1) = B * B^k
    BY PowersAssumption
  <2>3. Power(k + 1) = B * Power(k)
    BY <2>1, PowerStep
  <2> QED
    BY <2>1, <2>2, <2>3
<1>4. 0 .. Len \subseteq T
  <2> HIDE DEF T
  <2> QED
    BY <1>1, <1>2, <1>3, InductionTo
<1> QED
  BY <1>4

(* A context belongs to a modulus of Len limbs, that of no call as well.   *)
LEMMA ContextFacts ==
  ASSUME NEW c \in Contexts \cup {NoContext}
  PROVE  /\ c.N \in Nat \ {0} /\ c.N < Power(Len)
         /\ Holds(LimbsOf(c.N, Len), Len) /\ Val(LimbsOf(c.N, Len), Len) = c.N
         /\ Clears(Val(LimbsOf(c.N, Len), Len), c.k0)
<1>1. Len \in Nat \ {0} /\ B^Len = Power(Len) /\ Power(Len) \in Nat \ {0} /\ B \in Nat /\ B >= 2
  BY LenAssumption, BasePowers, PowerStep, Base
<1>2. /\ c.N \in Nat \ {0} /\ c.N < Power(Len)
      /\ c.k0 \in Limb /\ (c.N * c.k0 + 1) % B = 0
  <2>1. CASE c \in Contexts
    BY <1>1, <2>1, ContextsAssumption
  <2>2. CASE c = NoContext
    <3>1. c.N = 1 /\ c.k0 = B - 1
      BY <2>2 DEF NoContext
    <3>2. 1 < Power(Len)
      <4> DEFINE k == Len - 1
      <4>1. k \in Nat /\ k + 1 = Len
        BY <1>1
      <4> HIDE DEF k
      <4>2. Power(k) \in Nat \ {0} /\ Power(k + 1) = B * Power(k)
        BY <4>1, PowerStep
      <4>3. B * Power(k) >= B
        BY <1>1, <4>2
      <4> QED
        BY <1>1, <4>1, <4>2, <4>3
    <3>3. 1 * (B - 1) + 1 = B /\ B % B = 0
      <4>1. B = B * 1 + 0 /\ B \in Nat \ {0}
        BY <1>1
      <4> DEFINE x == B   o == 0   n == 1
      <4>2. B \in Nat \ {0} /\ x \in Int /\ n \in Int /\ o \in 0 .. B - 1 /\ x = B * n + o
        BY <1>1
      <4> HIDE DEF x, o, n
      <4>3. x % B = o
        BY <4>2, DivModIs
      <4> QED
        BY <1>1, <4>3 DEF x, o
    <3> QED
      BY <1>1, <3>1, <3>2, <3>3 DEF Limb
  <2> QED
    BY <2>1, <2>2
<1>3. \A k \in 0 .. Len - 1 : B^k = Power(k)
  BY <1>1, BasePowers
<1> DEFINE n == c.N
<1>4. Holds(LimbsOf(n, Len), Len) /\ Val(LimbsOf(n, Len), Len) = n
  <2>1. Len \in Nat /\ n \in Nat /\ n < Power(Len)
    BY <1>1, <1>2
  <2> HIDE DEF n
  <2> QED
    BY <1>3, <2>1, DigitsOf
<1> QED
  BY <1>2, <1>4 DEF Clears

(* An operand fills an array.                                              *)
LEMMA OperandFacts ==
  ASSUME NEW x \in Operands \cup OldResults
  PROVE  /\ x \in 0 .. B^Len - 1
         /\ LimbsOf(x, Len) \in Arrays(Len) /\ Holds(LimbsOf(x, Len), Len)
         /\ Val(LimbsOf(x, Len), Len) = x
<1>1. Len \in Nat /\ B^Len = Power(Len) /\ Power(Len) \in Nat
  BY LenAssumption, BasePowers, PowerStep
<1>2. \A k \in 0 .. Len - 1 : B^k = Power(k)
  BY <1>1, BasePowers
<1>3. x \in 0 .. B^Len - 1
  BY OperandsAssumption
<1>4. x \in Nat /\ x < Power(Len)
  BY <1>1, <1>3
<1> QED
  BY <1>1, <1>2, <1>3, <1>4, DigitsOf

(* The bit-wise choice of the C code stays a limb, wrong or not.           *)
LEMMA MaskBitIs ==
  ASSUME NEW x \in Limb, NEW v \in Limb, NEW cond \in BOOLEAN
  PROVE  MaskBit(x, v, cond) \in Limb
<1> DEFINE h == v \div 2   r == v % 2   s == x % 2   g == B \div 2
<1>1. B \in Nat /\ B = 2 * g /\ g \in Nat /\ v \in Nat /\ x \in Nat /\ v <= B - 1
  BY Base DEF Limb
<1>2. h \in Int /\ r \in 0 .. 1 /\ v = 2 * h + r /\ s \in 0 .. 1
  BY <1>1
<1>3. (x % 2) + (v - (v % 2)) = s + 2 * h
  <2>1. v - r = 2 * h
    <3> HIDE DEF h, r
    <3> QED
      BY <1>1, <1>2
  <2> QED
    BY <2>1
<1>4. s + 2 * h \in Limb
  <2> HIDE DEF h, r, s, g
  <2> QED
    BY <1>1, <1>2 DEF Limb
<1> QED
  BY <1>3, <1>4 DEF MaskBit

(* ll_mont_cond_sub_limbs leaves limbs; the assembly version the number    *)
(* reduced once.                                                           *)
LEMMA CondSubLimbsIs ==
  ASSUME NEW x, Holds(x, Len + 1), NEW n, Holds(n, Len), Val(n, Len) # 0
  PROVE  /\ CondSubLimbs(x, n) \in Arrays(Len)
         /\ Build = "asm" =>
              Val(CondSubLimbs(x, n), Len) = Reduced(Val(x, Len + 1), Val(n, Len), Power(Len))
<1> DEFINE low == From(x, 0, Len)   s == SubLimbs(low, n, Len)   top == x[Len]
           r == CondSubLimbs(x, n)   d == s.d   c == s.c
<1>1. Len \in Nat /\ top \in Limb /\ top \in Nat /\ Holds(x, Len)
  BY LenAssumption, Base DEF Holds, Limb
<1>2. Holds(low, Len) /\ Val(low, Len) = Val(x, Len) /\ \A k \in 0 .. Len - 1 : low[k] = x[k]
  <2>1. \A k \in 0 .. Len - 1 : low[k] = x[k]
    BY <1>1 DEF From
  <2> HIDE DEF low
  <2> QED
    BY <1>1, <2>1, ValSame DEF Holds
<1>3. /\ d \in Arrays(Len) /\ c \in {0, 1}
      /\ Val(IF top >= c THEN d ELSE low, Len)
           = Reduced(Val(low, Len) + Power(Len) * top, Val(n, Len), Power(Len))
  <2> HIDE DEF low, top
  <2> QED
    BY <1>1, <1>2, SubtractsLimbs
<1>4. Val(x, Len + 1) = Val(low, Len) + Power(Len) * top
  <2> HIDE DEF low
  <2> QED
    BY <1>1, <1>2, ValStep
<1>5. r = [k \in 0 .. Len - 1 |->
             IF Build = "c" THEN MaskBit(d[k], x[k], top >= c)
             ELSE IF top >= c THEN d[k] ELSE x[k]]
  BY DEF CondSubLimbs
<1>6. \A k \in 0 .. Len - 1 : d[k] \in Limb /\ x[k] \in Limb
  <2> HIDE DEF d
  <2> QED
    BY <1>1, <1>3 DEF Arrays, Holds
<1>7. r \in Arrays(Len)
  <2>1. \A k \in 0 .. Len - 1 : MaskBit(d[k], x[k], top >= c) \in Limb
    <3> SUFFICES ASSUME NEW k \in 0 .. Len - 1 PROVE MaskBit(d[k], x[k], top >= c) \in Limb
      OBVIOUS
    <3> DEFINE e == top >= c   u == d[k]   v == x[k]
    <3>1. e \in BOOLEAN /\ u \in Limb /\ v \in Limb
      BY <1>6
    <3> HIDE DEF e, u, v
    <3>2. MaskBit(u, v, e) \in Limb
      BY <3>1, MaskBitIs
    <3> QED
      BY <3>2 DEF e, u, v
  <2> DEFINE f(k) == MaskBit(d[k], x[k], top >= c)
  <2>2. \A k \in 0 .. Len - 1 : f(k) \in Limb
    BY <2>1
  <2>3. r = [k \in 0 .. Len - 1 |->
             IF Build = "c" THEN f(k) ELSE IF top >= c THEN d[k] ELSE x[k]]
    BY <1>5
  <2> HIDE DEF d, c, r, f, top
  <2> QED
    BY <1>6, <2>2, <2>3 DEF Arrays
<1>8. ASSUME Build = "asm"
      PROVE  Val(r, Len) = Reduced(Val(x, Len + 1), Val(n, Len), Power(Len))
  <2> DEFINE e == IF top >= c THEN d ELSE low
  <2>1. \A k \in 0 .. Len - 1 : r[k] = e[k]
    <3>1. CASE top >= c
      BY <1>5, <1>8, <3>1
    <3>2. CASE ~(top >= c)
      <4>1. e = low
        BY <3>2
      <4> HIDE DEF e, low
      <4> QED
        BY <1>2, <1>5, <1>8, <3>2, <4>1
    <3> QED
      BY <3>1, <3>2
  <2>2. Holds(r, Len)
    <3> HIDE DEF r
    <3> QED
      BY <1>7 DEF Arrays, Holds
  <2>3. Val(r, Len) = Val(e, Len)
    <3> HIDE DEF r, e
    <3> QED
      BY <1>1, <2>1, <2>2, ValSame
  <2> QED
    BY <1>3, <1>4, <2>3
<1> QED
  BY <1>7, <1>8

------------------------------------------------------------------------------
(* The constants and the variables, as the routines see them.              *)
LEMMA StateFacts ==
  ASSUME IInv
  PROVE  /\ Len \in Nat \ {0} /\ B \in Nat \ {0} /\ Power(Len) \in Nat \ {0}
         /\ Holds(a, Len) /\ Holds(b, Len) /\ Holds(z, 4) /\ Holds(rd, Len)
         /\ Val(a, Len) \in Nat /\ Val(b, Len) \in Nat
         /\ ctx.N \in Nat \ {0} /\ ctx.N < Power(Len) /\ Holds(Nd, Len) /\ Val(Nd, Len) = ctx.N
         /\ Clears(Val(Nd, Len), ctx.k0)
         /\ (op \in U256Routines => Len = 4)
<1>1. Len \in Nat \ {0} /\ B \in Nat \ {0} /\ Power(Len) \in Nat \ {0}
  BY LenAssumption, Base, PowerStep
<1>2. Holds(a, Len) /\ Holds(b, Len) /\ Holds(z, 4) /\ Holds(rd, Len)
  BY DEF IInv, TypeOK, Arrays, Holds
<1>3. Val(a, Len) \in Nat /\ Val(b, Len) \in Nat
  BY <1>1, <1>2, ValRange
<1>4. /\ ctx.N \in Nat \ {0} /\ ctx.N < Power(Len) /\ Holds(Nd, Len) /\ Val(Nd, Len) = ctx.N
      /\ Clears(Val(Nd, Len), ctx.k0)
  BY ContextFacts DEF IInv, TypeOK, Nd
<1>5. op \in U256Routines => Len = 4
  <2>1. op \in U256Routines => op \in Routines
    BY DEF IInv, TypeOK, U256Routines
  <2> QED
    BY <2>1, RoutinesAssumption
<1> QED
  BY <1>1, <1>2, <1>3, <1>4, <1>5

(* One iteration as MontMul has it: a multiple of the modulus is added to  *)
(* t, which makes it divisible by B.                                       *)
Divided(t, v) ==
  LET q == ((t % B) * ctx.k0) % B
  IN  /\ t \in Nat /\ v \in Nat /\ q \in Nat
      /\ B * v = t + q * ctx.N
      /\ m' = m + q * B^i

(* The history variable grows by the same multiple.                        *)
LEMMA AddedIs ==
  ASSUME IInv, NEW t \in Nat, NEW t0 \in Limb, t % B = t0, NEW v \in Nat, Added(t0),
         B * v = t + Wrap(t0 * ctx.k0) * ctx.N
  PROVE  Divided(t, v)
<1> DEFINE q == Wrap(t0 * ctx.k0)
<1>1. q = ((t % B) * ctx.k0) % B
  BY DEF Wrap
<1>2. q \in Nat
  <2> DEFINE g == t0 * ctx.k0
  <2>1. g \in Int /\ B \in Nat \ {0}
    BY StateFacts, Base DEF Limb, Clears
  <2> HIDE DEF g
  <2>2. g % B \in 0 .. B - 1
    BY <2>1, DivMod
  <2>3. q = g % B
    BY DEF Wrap, g
  <2> QED
    BY <2>1, <2>2, <2>3
<1>3. m' = m + q * B^i
  BY DEF Added
<1> HIDE DEF q
<1> QED
  BY <1>1, <1>2, <1>3 DEF Divided, q

(* Between two iterations of ll_u256_mont_mul the sixth register is zero.  *)
LEMMA CarryRegister ==
  ASSUME IInv, op = "u256_mul"
  PROVE  y[5] = 0 /\ y[4] \in {0, 1}
<1>1. Len = 4 /\ y \in Arrays(6) /\ Val(y, 6) < Val(a, 4) + ctx.N
  BY StateFacts DEF IInv, TypeOK, ProductFits, U256Routines
<1>2. Holds(y, 6)
  BY <1>1 DEF Arrays, Holds
<1>3. Val(y, 6) < 2 * Power(4)
  BY <1>1, <1>2, StateFacts, ValRange, PowerStep
<1>4. /\ Val(y, 6) = Val(y, 4) + Power(4) * (y[4] + B * y[5])
      /\ y[4] \in Limb /\ y[5] \in Limb /\ Holds(y, 4)
  BY <1>2, SixLimbs
<1>5. Val(y, 4) \in Nat /\ Power(4) \in Nat \ {0}
  BY <1>4, ValRange, PowerStep
<1> DEFINE p == Power(4)   g == y[4]   h == y[5]
<1>6. g \in Nat /\ h \in Nat /\ B \in Nat /\ B >= 2
  BY <1>4, Base DEF Limb
<1>7. p * (g + B * h) < 2 * p
  <2> DEFINE s == p * (g + B * h)   v == Val(y, 4)   u == Val(y, 6)
  <2>1. s \in Nat /\ u = v + s /\ u < 2 * p /\ v \in Nat /\ p \in Nat
    BY <1>3, <1>4, <1>5, <1>6
  <2> HIDE DEF s, u, v, p
  <2>2. s < 2 * p
    BY <2>1
  <2> QED
    BY <2>2 DEF s
<1>8. g + B * h < 2
  <2> SUFFICES ASSUME g + B * h >= 2 PROVE FALSE
    BY <1>6
  <2> DEFINE s == g + B * h - 2
  <2>1. s \in Nat /\ g + B * h = s + 2
    BY <1>6
  <2> HIDE DEF s
  <2>2. p * (g + B * h) = p * s + 2 * p /\ p * s \in Nat
    <3> DEFINE e == g + B * h
    <3>1. p \in Nat /\ s \in Nat /\ e = s + 2
      BY <1>5, <2>1
    <3> HIDE DEF p, e
    <3>2. p * e = p * s + 2 * p /\ p * s \in Nat
      BY <3>1
    <3> QED
      BY <3>2 DEF e
  <2> HIDE DEF p
  <2> QED
    BY <1>5, <1>7, <2>2 DEF p
<1> HIDE DEF p, g, h
<1>9. h = 0
  <2> SUFFICES ASSUME h # 0 PROVE FALSE
    OBVIOUS
  <2>1. B * h >= B
    BY <1>6
  <2> QED
    BY <1>6, <1>8, <2>1
<1>10. g \in {0, 1}
  BY <1>6, <1>8, <1>9
<1> QED
  BY <1>9, <1>10 DEF g, h

(* One iteration of ll_u256_mont_mul.                                      *)
LEMMA IterateMulStep ==
  ASSUME IInv, IterateMul
  PROVE  /\ Len = 4 /\ op = "u256_mul" /\ y' \in Arrays(6)
         /\ Val(y', 6) < Val(a, 4) + ctx.N
         /\ Divided(Val(y, 6) + b[i] * Val(a, 4), Val(y', 6))
<1> DEFINE t == MontMulAdd(y, a, b[i])   T == Val(y, 6) + b[i] * Val(a, 4)
<1>1. op = "u256_mul" /\ i \in 0 .. 3 /\ y' = Rotate(Redc1(t, Nd, ctx.k0), 0) /\ Added(t[0])
  BY DEF IterateMul, In
<1>2. Len = 4
  BY <1>1, StateFacts DEF U256Routines
<1>3. /\ y \in Arrays(6) /\ y[5] = 0 /\ Holds(a, 4) /\ Holds(Nd, 4) /\ b[i] \in Limb
      /\ Clears(Val(Nd, 4), ctx.k0) /\ Val(y, 6) < Val(a, 4) + Val(Nd, 4)
      /\ Val(Nd, 4) = ctx.N
  <2>1. y \in Arrays(6) /\ Val(y, 6) < Val(a, 4) + ctx.N
    BY <1>1, <1>2 DEF IInv, TypeOK, ProductFits
  <2>2. y[5] = 0
    BY <1>1, CarryRegister
  <2>3. b[i] \in Limb
    BY <1>1, <1>2 DEF IInv, TypeOK, Arrays
  <2> QED
    BY <1>2, <2>1, <2>2, <2>3, StateFacts
<1> DEFINE d == b[i]   k0 == ctx.k0   n == Nd
<1>4. LET r == Rotate(Redc1(t, n, k0), 0)
      IN  /\ t[0] \in Limb /\ (Val(y, 6) + d * Val(a, 4)) % B = t[0]
          /\ r \in Arrays(6) /\ r[5] = 0
          /\ Val(r, 6) \in Nat /\ Val(r, 6) < Val(a, 4) + Val(n, 4)
          /\ B * Val(r, 6) = (Val(y, 6) + d * Val(a, 4)) + Wrap(t[0] * k0) * Val(n, 4)
  <2>1. /\ d \in Limb /\ Holds(n, 4) /\ Clears(Val(n, 4), k0)
        /\ Val(y, 6) < Val(a, 4) + Val(n, 4)
    BY <1>3
  <2> HIDE DEF d, k0, n
  <2> QED
    BY <1>3, <2>1, MontRowIs DEF d
<1>5. T \in Nat
  <2>1. Val(y, 6) \in Nat
    BY <1>3, ValRange DEF Arrays, Holds
  <2>2. d * Val(a, 4) \in Nat
    <3>1. d \in Nat /\ Val(a, 4) \in Nat
      BY <1>2, <1>3, StateFacts, Base DEF Limb
    <3> HIDE DEF d
    <3> QED
      BY <3>1
  <2> QED
    BY <2>1, <2>2
<1>6. Divided(T, Val(y', 6))
  <2> DEFINE t0 == t[0]   v == Val(y', 6)
  <2>1. /\ IInv /\ T \in Nat
        /\ t0 \in Limb /\ T % B = t0 /\ v \in Nat /\ Added(t0)
        /\ B * v = T + Wrap(t0 * ctx.k0) * ctx.N
    BY <1>1, <1>3, <1>4, <1>5
  <2> HIDE DEF T, t0, v
  <2>2. Divided(T, v)
    BY <2>1, AddedIs
  <2> QED
    BY <2>2 DEF v
<1> QED
  BY <1>1, <1>2, <1>3, <1>4, <1>6

(* One iteration of ll_u256_mont_reduce and ll_u256_mont_sqr.              *)
LEMMA IterateRedcStep ==
  ASSUME IInv, IterateRedc
  PROVE  /\ Len = 4 /\ op \in {"u256_sqr", "u256_reduce"} /\ i \in 0 .. 3
         /\ y' \in Arrays(4) /\ Divided(Val(y, 4), Val(y', 4))
<1> DEFINE n == Nd   k0 == ctx.k0   t0 == y[0]
<1>1. op \in {"u256_sqr", "u256_reduce"} /\ i \in 0 .. 3 /\ y' = Redc2(y, n, k0) /\ Added(t0)
  BY DEF IterateRedc, In
<1>2. Len = 4
  BY <1>1, StateFacts DEF U256Routines
<1>3. Holds(y, 4) /\ Holds(n, 4) /\ Clears(Val(n, 4), k0) /\ Val(n, 4) = ctx.N
  <2>1. y \in Arrays(4)
    BY <1>1 DEF IInv, TypeOK
  <2>2. Holds(y, 4)
    BY <2>1 DEF Arrays, Holds
  <2> QED
    BY <1>2, <2>2, StateFacts
<1>4. /\ y[0] \in Limb /\ Val(y, 4) % B = y[0]
      /\ Redc2(y, n, k0) \in Arrays(4) /\ Val(Redc2(y, n, k0), 4) \in Nat
      /\ B * Val(Redc2(y, n, k0), 4) = Val(y, 4) + Wrap(y[0] * k0) * Val(n, 4)
  <2> HIDE DEF n, k0
  <2> QED
    BY <1>3, Redc2Is
<1>5. Divided(Val(y, 4), Val(y', 4))
  <2> DEFINE T == Val(y, 4)   v == Val(y', 4)
  <2>1. /\ IInv /\ T \in Nat
        /\ t0 \in Limb /\ T % B = t0 /\ v \in Nat /\ Added(t0)
        /\ B * v = T + Wrap(t0 * ctx.k0) * ctx.N
    BY <1>1, <1>3, <1>4, ValRange
  <2> HIDE DEF T, t0, v
  <2>2. Divided(T, v)
    BY <2>1, AddedIs
  <2> QED
    BY <2>2 DEF T, v
<1> QED
  BY <1>1, <1>2, <1>4, <1>5

(* ll_muladd_limb and the quotient, as the actions use them.               *)
LEMMA ClearLimbIs ==
  ASSUME NEW t, NEW rl, ClearLimb(t, rl)
  PROVE  td' = RowAt(t, i, Nd, Wrap(t[i] * ctx.k0), rl, Len) /\ Added(t[i])
BY DEF ClearLimb, RowAt

(* The first iteration of ll_mont_mul.                                     *)
LEMMA FirstRowStep ==
  ASSUME IInv, FirstRow
  PROVE  /\ op = "mul" /\ i = 0
         /\ td' \in Arrays(2 * Len + 2)
         /\ Val(From(td', 1, Len + 1), Len + 1) < Val(a, Len) + ctx.N
         /\ Divided(b[0] * Val(a, Len), Val(From(td', 1, Len + 1), Len + 1))
<1> DEFINE n == Nd   k0 == ctx.k0   d == b[0]   t == Into(td, 0, MulLimb(a, d, Len).d)
           t0 == t[0]   u == RowAt(t, 0, n, Wrap(t0 * k0), Len + 1, Len)
           T == d * Val(a, Len)   v == Val(From(u, 1, Len + 1), Len + 1)
<1>1. op = "mul" /\ i = 0 /\ ClearLimb(t, Len + 1)
  BY DEF FirstRow, In
<1>2. td' = u /\ Added(t0)
  <2> HIDE DEF t
  <2> QED
    BY <1>1, ClearLimbIs
<1>3. /\ Len \in Nat \ {0} /\ td \in Arrays(2 * Len + 2) /\ Holds(a, Len) /\ Holds(n, Len)
      /\ d \in Limb /\ Clears(Val(n, Len), k0) /\ Val(n, Len) = ctx.N
  <2>1. td \in Arrays(2 * Len + 2) /\ b \in Arrays(Len)
    BY DEF IInv, TypeOK
  <2> QED
    BY <2>1, StateFacts DEF Arrays
<1>4. /\ u \in Arrays(2 * Len + 2) /\ T % B = t0 /\ t0 \in Limb
      /\ v \in Nat /\ v < Val(a, Len) + Val(n, Len)
      /\ B * v = T + Wrap(t0 * k0) * Val(n, Len)
  <2> HIDE DEF n, k0, d
  <2> QED
    BY <1>3, FirstRowIs
<1>5. T \in Nat
  <2>1. d \in Nat /\ Val(a, Len) \in Nat
    BY <1>3, StateFacts, Base DEF Limb
  <2> HIDE DEF d
  <2> QED
    BY <2>1
<1>6. Divided(T, v)
  <2>1. /\ IInv /\ T \in Nat
        /\ t0 \in Limb /\ T % B = t0 /\ v \in Nat /\ Added(t0)
        /\ B * v = T + Wrap(t0 * ctx.k0) * ctx.N
    BY <1>2, <1>3, <1>4, <1>5
  <2> HIDE DEF T, t0, v
  <2> QED
    BY <2>1, AddedIs
<1> HIDE DEF u
<1> QED
  BY <1>1, <1>2, <1>3, <1>4, <1>6

(* ... the others ...                                                      *)
LEMMA NextRowStep ==
  ASSUME IInv, NextRow
  PROVE  /\ op = "mul" /\ i \in 1 .. Len - 1
         /\ td' \in Arrays(2 * Len + 2) /\ td'[i + Len + 2] = 0
         /\ Val(From(td', i + 1, Len + 1), Len + 1) < Val(a, Len) + ctx.N
         /\ Divided(Val(From(td, i, Len + 1), Len + 1) + b[i] * Val(a, Len),
                    Val(From(td', i + 1, Len + 1), Len + 1))
<1> DEFINE n == Nd   k0 == ctx.k0   d == b[i]   t == RowAt(td, i, a, d, Len + 1, Len)
           t0 == t[i]   u == RowAt(t, i, n, Wrap(t0 * k0), Len + 2, Len)
           acc == Val(From(td, i, Len + 1), Len + 1)
           T == acc + d * Val(a, Len)   v == Val(From(u, i + 1, Len + 1), Len + 1)
<1>1. op = "mul" /\ i \in 1 .. Len - 1 /\ ClearLimb(RowOfProduct, Len + 2)
  BY DEF NextRow, In
<1>2. Len \in Nat \ {0}
  BY StateFacts
<1>3. RowOfProduct = t
  <2>1. (Len + 1) + 1 = Len + 2
    BY <1>2
  <2> QED
    BY <2>1 DEF RowOfProduct, RowAt
<1>4. td' = u /\ Added(t0)
  <2>1. ClearLimb(t, Len + 2)
    BY <1>1, <1>3
  <2> HIDE DEF t
  <2> QED
    BY <2>1, ClearLimbIs
<1>5. /\ i \in Nat /\ i <= Len - 1 /\ td \in Arrays(2 * Len + 2) /\ Holds(a, Len) /\ Holds(n, Len)
      /\ d \in Limb /\ Clears(Val(n, Len), k0) /\ Val(n, Len) = ctx.N
      /\ acc < Val(a, Len) + Val(n, Len)
  <2>1. td \in Arrays(2 * Len + 2) /\ b \in Arrays(Len)
    BY DEF IInv, TypeOK
  <2>2. acc < Val(a, Len) + ctx.N
    BY <1>1, <1>2 DEF IInv, ProductFits
  <2>3. d \in Limb
    BY <1>1, <1>2, <2>1 DEF Arrays
  <2> QED
    BY <1>1, <1>2, <2>1, <2>2, <2>3, StateFacts
<1>6. /\ u \in Arrays(2 * Len + 2) /\ acc \in Nat /\ T % B = t0 /\ t0 \in Limb
      /\ v \in Nat /\ v < Val(a, Len) + Val(n, Len) /\ u[i + Len + 2] = 0
      /\ B * v = T + Wrap(t0 * k0) * Val(n, Len)
  <2>1. /\ Len \in Nat /\ i \in Nat /\ i <= Len - 1 /\ td \in Arrays(2 * Len + 2)
        /\ Holds(a, Len) /\ Holds(n, Len) /\ d \in Limb /\ Clears(Val(n, Len), k0)
        /\ Val(From(td, i, Len + 1), Len + 1) < Val(a, Len) + Val(n, Len)
    BY <1>2, <1>5
  <2> HIDE DEF n, k0, d
  <2> QED
    BY <2>1, ArrayRowIs
<1>7. T \in Nat
  <2>1. d \in Nat /\ Val(a, Len) \in Nat
    BY <1>5, StateFacts, Base DEF Limb
  <2>2. d * Val(a, Len) \in Nat
    <3> HIDE DEF d
    <3> QED
      BY <2>1
  <2> HIDE DEF acc, d
  <2> QED
    BY <1>6, <2>2
<1>8. Divided(T, v)
  <2>1. /\ IInv /\ T \in Nat
        /\ t0 \in Limb /\ T % B = t0 /\ v \in Nat /\ Added(t0)
        /\ B * v = T + Wrap(t0 * ctx.k0) * ctx.N
    BY <1>4, <1>5, <1>6, <1>7
  <2> HIDE DEF T, t0, v
  <2> QED
    BY <2>1, AddedIs
<1> HIDE DEF u
<1> QED
  BY <1>1, <1>4, <1>5, <1>6, <1>8

(* ... and one iteration of ll_mont_reduce.                                *)
LEMMA ReduceRowStep ==
  ASSUME IInv, ReduceRow
  PROVE  /\ op = "reduce" /\ i \in 0 .. Len - 1
         /\ td' \in Arrays(2 * Len + 2)
         /\ Divided(Val(From(td, i, Len), Len), Val(From(td', i + 1, Len), Len))
<1> DEFINE n == Nd   k0 == ctx.k0   t0 == td[i]
           u == RowAt(td, i, n, Wrap(t0 * k0), Len, Len)
           T == Val(From(td, i, Len), Len)   v == Val(From(u, i + 1, Len), Len)
<1>1. op = "reduce" /\ i \in 0 .. Len - 1 /\ ClearLimb(td, Len)
  BY DEF ReduceRow, In
<1>2. td' = u /\ Added(t0)
  BY <1>1, ClearLimbIs
<1>3. /\ Len \in Nat \ {0} /\ Len <= Len /\ i \in Nat /\ 2 * Len + 2 \in Nat
      /\ i + Len + 1 <= 2 * Len + 2 /\ td \in Arrays(2 * Len + 2) /\ Holds(n, Len)
      /\ Clears(Val(n, Len), k0) /\ Val(n, Len) = ctx.N
  <2>1. td \in Arrays(2 * Len + 2)
    BY DEF IInv, TypeOK
  <2> QED
    BY <1>1, <2>1, StateFacts
<1>4. /\ u \in Arrays(2 * Len + 2) /\ t0 \in Limb /\ T \in Nat /\ T % B = t0 /\ v \in Nat
      /\ B * v = T + Wrap(t0 * k0) * Val(n, Len)
  <2> DEFINE D == 2 * Len + 2   rl == Len
  <2>1. /\ Len \in Nat /\ rl \in Nat \ {0} /\ Len <= rl /\ i \in Nat /\ D \in Nat
        /\ i + rl + 1 <= D /\ td \in Arrays(D) /\ Holds(n, Len) /\ Clears(Val(n, Len), k0)
    BY <1>3
  <2>2. LET w == Wrap(td[i] * k0)
            r == RowAt(td, i, n, w, rl, Len)
            x == Val(From(td, i, rl), rl)
            s == Val(From(r, i + 1, rl), rl)
        IN  /\ r \in Arrays(D) /\ td[i] \in Limb /\ x \in Nat /\ x % B = td[i] /\ s \in Nat
            /\ B * s = x + w * Val(n, Len)
    <3> HIDE DEF n, k0, D, rl
    <3> QED
      BY <2>1, ClearAtIs
  <2> QED
    BY <2>2
<1>5. Divided(T, v)
  <2>1. /\ IInv /\ T \in Nat
        /\ t0 \in Limb /\ T % B = t0 /\ v \in Nat /\ Added(t0)
        /\ B * v = T + Wrap(t0 * ctx.k0) * ctx.N
    BY <1>2, <1>3, <1>4
  <2> HIDE DEF T, t0, v
  <2> QED
    BY <2>1, AddedIs
<1> HIDE DEF u
<1> QED
  BY <1>1, <1>2, <1>4, <1>5

(* The invariant, for the state before the first call.                     *)
LEMMA InitIInv == Init => IInv
<1> SUFFICES ASSUME Init PROVE IInv
  OBVIOUS
<1>1. Len \in Nat \ {0} /\ 2 * Len + 2 \in Nat /\ B \in Nat /\ B >= 2
  BY LenAssumption, Base
<1>2. Zeros(Len) \in Arrays(Len) /\ Zeros(4) \in Arrays(4)
  BY <1>1, ZerosAre
<1>3. Scratch \in Arrays(2 * Len + 2)
  <2>1. B - 1 \in Limb
    BY <1>1 DEF Limb
  <2>2. 0 .. 2 * Len + 1 = 0 .. (2 * Len + 2) - 1
    BY <1>1
  <2> QED
    BY <2>1, <2>2 DEF Scratch, Arrays
<1>4. TypeOK
  BY <1>1, <1>2, <1>3 DEF Init, TypeOK
<1> QED
  BY <1>4 DEF Init, IInv, IdleIsClear, UnusedIsZero, ProductFits

(* What every call does.                                                   *)
Calls == CallU256Mul \/ CallU256Sqr \/ CallU256Reduce \/ CallMul \/ CallReduce

(* The operands of a call fill their arrays, and nothing has been added    *)
(* yet.                                                                    *)
LEMMA StartIs ==
  ASSUME IInv, pc = "idle", NEW o, NEW c \in Contexts, NEW x \in Operands, NEW bd,
         Start(o, c, LimbsOf(x, Len), bd)
  PROVE  /\ op = "none" /\ i = 0 /\ m = 0 /\ i' = 0 /\ m' = 0 /\ pc' = "loop"
         /\ ctx' = c /\ op' = o /\ op' \in Routines /\ b' = bd /\ z = Zeros(4)
         /\ a' \in Arrays(Len) /\ Holds(a', Len)
         /\ Val(a', Len) \in 0 .. B^Len - 1 /\ Val(a', Len) \in Nat
         /\ ctx'.N \in Nat \ {0} /\ ctx' \in Contexts
         /\ (op' \in U256Routines => Len = 4)
<1>1. op = "none" /\ i = 0 /\ m = 0 /\ z = Zeros(4)
  BY DEF IInv, IdleIsClear, UnusedIsZero
<1>2. i' = 0 /\ m' = 0 /\ pc' = "loop" /\ ctx' = c /\ op' = o /\ b' = bd /\ o \in Routines
      /\ a' = LimbsOf(x, Len)
  BY <1>1 DEF Start
<1>3. a' \in Arrays(Len) /\ Holds(a', Len) /\ Val(a', Len) = x /\ x \in 0 .. B^Len - 1
  BY <1>2, OperandFacts
<1>4. Val(a', Len) \in Nat
  BY <1>3, LenAssumption, ValRange
<1>5. ctx'.N \in Nat \ {0}
  BY <1>2, ContextFacts
<1>6. op' \in U256Routines => Len = 4
  BY <1>2, RoutinesAssumption
<1> QED
  BY <1>1, <1>2, <1>3, <1>4, <1>5, <1>6

(* A call leaves the registers or the scratch array in one of five states. *)
LEMMA CallFacts ==
  ASSUME IInv, Calls
  PROVE  /\ pc = "idle" /\ op = "none" /\ i = 0 /\ m = 0 /\ i' = 0 /\ m' = 0 /\ pc' = "loop"
         /\ ctx' \in Contexts /\ op' \in Routines /\ op' # "none"
         /\ a' \in Arrays(Len) /\ Holds(a', Len) /\ Val(a', Len) \in 0 .. B^Len - 1
         /\ b' \in Arrays(Len) /\ Val(b', Len) \in 0 .. B^Len - 1
         /\ \/ /\ op' = "u256_mul" /\ Len = 4
               /\ y' = Zeros(6) /\ z' = Zeros(4) /\ td' = td /\ rd' = rd
            \/ /\ op' = "u256_sqr" /\ Len = 4 /\ b' = Zeros(Len) /\ td' = td /\ rd' = rd
               /\ y' = From(SqrU256(a'), 0, 4) /\ z' = From(SqrU256(a'), 4, 4)
            \/ /\ op' = "u256_reduce" /\ Len = 4 /\ b' = Zeros(Len)
               /\ y' = a' /\ z' = Zeros(4) /\ td' = td /\ rd' = rd
            \/ op' = "mul" /\ y' = y /\ z' = Zeros(4) /\ td' = td /\ rd' = rd
            \/ /\ op' = "reduce" /\ b' = Zeros(Len) /\ y' = y /\ z' = Zeros(4)
               /\ td' = Into(Into(td, 0, a'), Len, Zeros(Len))
               /\ \E old \in OldResults : rd' = LimbsOf(old, Len)
<1>1. Len \in Nat \ {0} /\ Zeros(Len) \in Arrays(Len) /\ Val(Zeros(Len), Len) = 0
  BY LenAssumption, ZerosAre
<1>2. Val(Zeros(Len), Len) \in 0 .. B^Len - 1
  <2>1. B^Len \in Nat \ {0}
    BY <1>1, BasePowers, PowerStep
  <2> QED
    BY <1>1, <2>1
<1>3. (Routines \cap U256Routines # {}) => Len = 4
  BY RoutinesAssumption
<1>4. CASE CallU256Mul
  <2>1. PICK c \in Contexts, x \in Operands, w \in Operands :
          Start("u256_mul", c, LimbsOf(x, 4), LimbsOf(w, 4))
    BY <1>4 DEF CallU256Mul
  <2>2. Len = 4
    BY <1>3, <2>1 DEF Start, U256Routines
  <2>3. pc = "idle" /\ y' = Zeros(6) /\ z' = z /\ td' = td /\ rd' = rd
    BY <1>4 DEF CallU256Mul
  <2>4. LimbsOf(w, Len) \in Arrays(Len) /\ Val(LimbsOf(w, Len), Len) \in 0 .. B^Len - 1
    BY OperandFacts
  <2>5. Start("u256_mul", c, LimbsOf(x, Len), LimbsOf(w, Len))
    BY <2>1, <2>2
  <2> QED
    BY <2>2, <2>3, <2>4, <2>5, StartIs
<1>5. CASE CallU256Sqr
  <2>1. PICK c \in Contexts, x \in Operands : Start("u256_sqr", c, LimbsOf(x, 4), Zeros(4))
    BY <1>5 DEF CallU256Sqr
  <2>2. Len = 4
    BY <1>3, <2>1 DEF Start, U256Routines
  <2>3. /\ pc = "idle" /\ td' = td /\ rd' = rd
        /\ y' = From(SqrU256(a'), 0, 4) /\ z' = From(SqrU256(a'), 4, 4)
    BY <1>5 DEF CallU256Sqr
  <2>4. Start("u256_sqr", c, LimbsOf(x, Len), Zeros(Len))
    BY <2>1, <2>2
  <2> QED
    BY <1>1, <1>2, <2>2, <2>3, <2>4, StartIs
<1>6. CASE CallU256Reduce
  <2>1. PICK c \in Contexts, x \in Operands : Start("u256_reduce", c, LimbsOf(x, 4), Zeros(4))
    BY <1>6 DEF CallU256Reduce
  <2>2. Len = 4
    BY <1>3, <2>1 DEF Start, U256Routines
  <2>3. pc = "idle" /\ y' = a' /\ z' = z /\ td' = td /\ rd' = rd
    BY <1>6 DEF CallU256Reduce
  <2>4. Start("u256_reduce", c, LimbsOf(x, Len), Zeros(Len))
    BY <2>1, <2>2
  <2> QED
    BY <1>1, <1>2, <2>2, <2>3, <2>4, StartIs
<1>7. CASE CallMul
  <2>1. PICK c \in Contexts, x \in Operands, w \in Operands :
          Start("mul", c, LimbsOf(x, Len), LimbsOf(w, Len))
    BY <1>7 DEF CallMul
  <2>2. pc = "idle" /\ y' = y /\ z' = z /\ td' = td /\ rd' = rd
    BY <1>7 DEF CallMul
  <2>3. LimbsOf(w, Len) \in Arrays(Len) /\ Val(LimbsOf(w, Len), Len) \in 0 .. B^Len - 1
    BY OperandFacts
  <2> QED
    BY <2>1, <2>2, <2>3, StartIs
<1>8. CASE CallReduce
  <2>1. PICK c \in Contexts, x \in Operands, old \in OldResults :
          Start("reduce", c, LimbsOf(x, Len), Zeros(Len)) /\ rd' = LimbsOf(old, Len)
    BY <1>8 DEF CallReduce
  <2>2. /\ pc = "idle" /\ y' = y /\ z' = z
        /\ td' = Into(Into(td, 0, a'), Len, Zeros(Len))
    BY <1>8 DEF CallReduce
  <2> QED
    BY <1>1, <1>2, <2>1, <2>2, StartIs
<1> QED
  BY <1>4, <1>5, <1>6, <1>7, <1>8 DEF Calls

(* The invariant, for the state after a call ...                           *)
LEMMA CallsKeep ==
  ASSUME IInv, Calls
  PROVE  IInv'
<1>1. Len \in Nat \ {0} /\ Zeros(4) \in Arrays(4) /\ Zeros(6) \in Arrays(6) /\ Val(Zeros(6), 6) = 0
      /\ Zeros(Len) \in Arrays(Len)
  BY LenAssumption, ZerosAre
<1>2. /\ td \in Arrays(2 * Len + 2) /\ rd \in Arrays(Len)
      /\ y \in Arrays(IF op = "u256_mul" THEN 6 ELSE 4)
  BY DEF IInv, TypeOK
<1>3. /\ pc = "idle" /\ op = "none" /\ i' = 0 /\ m' = 0 /\ pc' = "loop"
      /\ ctx' \in Contexts /\ op' \in Routines /\ op' # "none"
      /\ a' \in Arrays(Len) /\ Holds(a', Len) /\ b' \in Arrays(Len)
  BY CallFacts
<1>4. y' \in Arrays(IF op' = "u256_mul" THEN 6 ELSE 4) /\ z' \in Arrays(4)
  <2>1. y \in Arrays(4)
    BY <1>2, <1>3
  <2>2. op' = "u256_sqr" /\ Len = 4 =>
          From(SqrU256(a'), 0, 4) \in Arrays(4) /\ From(SqrU256(a'), 4, 4) \in Arrays(4)
    BY <1>3, HalvesAre
  <2> QED
    BY <1>1, <1>3, <2>1, <2>2, CallFacts
<1>5. td' \in Arrays(2 * Len + 2)
  <2>1. Into(Into(td, 0, a'), Len, Zeros(Len)) \in Arrays(2 * Len + 2)
    BY <1>1, <1>2, <1>3, CopiedIs
  <2> QED
    BY <1>2, <2>1, CallFacts
<1>6. rd' \in Arrays(Len) /\ (op' = "reduce" => Val(rd', Len) \in OldResults)
  <2>1. \A old \in OldResults :
          LimbsOf(old, Len) \in Arrays(Len) /\ Val(LimbsOf(old, Len), Len) = old
    BY OperandFacts
  <2> QED
    BY <1>2, <2>1, CallFacts
<1>7. TypeOK'
  BY <1>1, <1>3, <1>4, <1>5, <1>6 DEF TypeOK
<1>8. IdleIsClear'
  BY <1>3 DEF IdleIsClear
<1>9. UnusedIsZero'
  BY <1>3, <1>6, CallFacts DEF UnusedIsZero
<1>10. ProductFits'
  <2>1. CASE op' = "u256_mul"
    <3>1. Val(y', 6) = 0 /\ Len = 4
      BY <1>1, <2>1, CallFacts
    <3>2. ctx'.N \in Nat \ {0} /\ Val(a', 4) \in Nat
      BY <1>3, <3>1, ContextFacts, ValRange
    <3> QED
      BY <2>1, <3>1, <3>2 DEF ProductFits
  <2>2. CASE op' # "u256_mul"
    BY <1>3, <2>2 DEF ProductFits
  <2> QED
    BY <2>1, <2>2
<1> QED
  BY <1>7, <1>8, <1>9, <1>10 DEF IInv

(* What every iteration does: the accumulator takes one row of the product *)
(* and is divided by B.                                                    *)
Iteration == IterateMul \/ IterateRedc \/ FirstRow \/ NextRow \/ ReduceRow

Digit == IF op \in {"mul", "u256_mul"} THEN b[i] ELSE 0

(* Every iteration of either implementation divides the accumulator by B   *)
(* and leaves room for the next one.                                       *)
LEMMA IterateFacts ==
  ASSUME IInv, Iteration
  PROVE  /\ pc = "loop" /\ op \in Routines /\ i \in 0 .. Len - 1 /\ i' = i + 1
         /\ UNCHANGED <<ctx, op, a, b, rd, pc, z>>
         /\ Divided(Accumulator + Digit * Val(a, Len), Accumulator')
         /\ y' \in Arrays(IF op = "u256_mul" THEN 6 ELSE 4) /\ td' \in Arrays(2 * Len + 2)
         /\ op = "u256_mul" => Val(y', 6) < Val(a, 4) + ctx.N
         /\ op = "mul" => /\ Val(From(td', i + 1, Len + 1), Len + 1) < Val(a, Len) + ctx.N
                          /\ i >= 1 => td'[i + Len + 2] = 0
<1>1. /\ Len \in Nat \ {0} /\ Val(a, Len) \in Nat
      /\ y \in Arrays(IF op = "u256_mul" THEN 6 ELSE 4) /\ td \in Arrays(2 * Len + 2)
      /\ op \in Routines \cup {"none"}
  BY StateFacts DEF IInv, TypeOK
<1>2. pc = "loop" /\ i' = i + 1 /\ UNCHANGED <<ctx, op, a, b, rd, pc, z>>
  BY DEF Iteration, IterateMul, IterateRedc, FirstRow, NextRow, ReduceRow, In, Iterated
<1>3. op \in Routines
  BY <1>1, <1>2 DEF IInv, IdleIsClear
<1>4. CASE IterateMul
  <2>1. /\ Len = 4 /\ op = "u256_mul" /\ y' \in Arrays(6) /\ i \in 0 .. 3
        /\ Val(y', 6) < Val(a, 4) + ctx.N
        /\ Divided(Val(y, 6) + b[i] * Val(a, 4), Val(y', 6))
    BY <1>4, IterateMulStep DEF IterateMul, In
  <2>2. Accumulator = Val(y, 6) /\ Accumulator' = Val(y', 6) /\ Digit = b[i]
    BY <1>2, <2>1 DEF Accumulator, Digit
  <2>3. td' = td
    BY <1>4 DEF IterateMul
  <2> QED
    BY <1>1, <1>2, <1>3, <2>1, <2>2, <2>3
<1>5. CASE IterateRedc
  <2>1. /\ Len = 4 /\ op \in {"u256_sqr", "u256_reduce"} /\ i \in 0 .. 3
        /\ y' \in Arrays(4) /\ Divided(Val(y, 4), Val(y', 4))
    BY <1>5, IterateRedcStep
  <2>2. Accumulator = Val(y, 4) /\ Accumulator' = Val(y', 4) /\ Digit = 0
    BY <1>2, <2>1 DEF Accumulator, Digit
  <2>3. td' = td
    BY <1>5 DEF IterateRedc
  <2>4. Accumulator + Digit * Val(a, Len) = Val(y, 4)
    <3>1. Val(y, 4) \in Nat
      BY <2>1 DEF Divided
    <3>2. 0 * Val(a, Len) = 0
      BY <1>1
    <3> QED
      BY <2>2, <3>1, <3>2
  <2> QED
    BY <1>1, <1>2, <1>3, <2>1, <2>2, <2>3, <2>4
<1>6. CASE FirstRow
  <2>1. /\ op = "mul" /\ i = 0
        /\ td' \in Arrays(2 * Len + 2)
        /\ Val(From(td', 1, Len + 1), Len + 1) < Val(a, Len) + ctx.N
        /\ Divided(b[0] * Val(a, Len), Val(From(td', 1, Len + 1), Len + 1))
    BY <1>6, FirstRowStep
  <2>2. Accumulator = 0 /\ Accumulator' = Val(From(td', 1, Len + 1), Len + 1) /\ Digit = b[0]
    BY <1>2, <2>1 DEF Accumulator, Digit
  <2>3. Accumulator + Digit * Val(a, Len) = b[0] * Val(a, Len)
    <3> DEFINE s == b[0] * Val(a, Len)
    <3>1. s \in Nat /\ Accumulator + Digit * Val(a, Len) = 0 + s
      BY <2>1, <2>2 DEF Divided
    <3> HIDE DEF s
    <3>2. Accumulator + Digit * Val(a, Len) = s
      BY <3>1
    <3> QED
      BY <3>2 DEF s
  <2>4. y' = y
    BY <1>6 DEF FirstRow
  <2> QED
    BY <1>1, <1>2, <1>3, <2>1, <2>2, <2>3, <2>4
<1>7. CASE NextRow
  <2>1. /\ op = "mul" /\ i \in 1 .. Len - 1
        /\ td' \in Arrays(2 * Len + 2) /\ td'[i + Len + 2] = 0
        /\ Val(From(td', i + 1, Len + 1), Len + 1) < Val(a, Len) + ctx.N
        /\ Divided(Val(From(td, i, Len + 1), Len + 1) + b[i] * Val(a, Len),
                   Val(From(td', i + 1, Len + 1), Len + 1))
    BY <1>7, NextRowStep
  <2>2. /\ Accumulator = Val(From(td, i, Len + 1), Len + 1)
        /\ Accumulator' = Val(From(td', i + 1, Len + 1), Len + 1) /\ Digit = b[i]
    BY <1>1, <1>2, <2>1 DEF Accumulator, Digit
  <2>3. y' = y
    BY <1>7 DEF NextRow
  <2>4. i \in 0 .. Len - 1
    BY <1>1, <2>1
  <2> QED
    BY <1>1, <1>2, <1>3, <2>1, <2>2, <2>3, <2>4
<1>8. CASE ReduceRow
  <2>1. /\ op = "reduce" /\ i \in 0 .. Len - 1
        /\ td' \in Arrays(2 * Len + 2)
        /\ Divided(Val(From(td, i, Len), Len), Val(From(td', i + 1, Len), Len))
    BY <1>8, ReduceRowStep
  <2>2. /\ Accumulator = Val(From(td, i, Len), Len)
        /\ Accumulator' = Val(From(td', i + 1, Len), Len) /\ Digit = 0
    BY <1>2, <2>1 DEF Accumulator, Digit
  <2>3. Accumulator + Digit * Val(a, Len) = Val(From(td, i, Len), Len)
    <3>1. Val(From(td, i, Len), Len) \in Nat
      BY <2>1 DEF Divided
    <3>2. 0 * Val(a, Len) = 0
      BY <1>1
    <3> QED
      BY <2>2, <3>1, <3>2
  <2>4. y' = y
    BY <1>8 DEF ReduceRow
  <2> QED
    BY <1>1, <1>2, <1>3, <2>1, <2>2, <2>3, <2>4
<1> QED
  BY <1>4, <1>5, <1>6, <1>7, <1>8 DEF Iteration

(* ... after an iteration ...                                              *)
LEMMA IteratesKeep ==
  ASSUME IInv, Iteration
  PROVE  IInv'
<1>1. /\ pc = "loop" /\ op \in Routines /\ i \in 0 .. Len - 1 /\ i' = i + 1
      /\ ctx' = ctx /\ op' = op /\ a' = a /\ b' = b /\ rd' = rd /\ pc' = pc /\ z' = z
  BY IterateFacts
<1>2. Len \in Nat \ {0} /\ Holds(a, Len)
  BY StateFacts
<1>3. m' \in Nat
  <2> DEFINE t == Accumulator + Digit * Val(a, Len)   q == ((t % B) * ctx.k0) % B   p == B^i
  <2>1. q \in Nat /\ m' = m + q * p
    BY IterateFacts DEF Divided
  <2>2. m \in Nat
    BY DEF IInv, TypeOK
  <2>3. p \in Nat
    <3>1. i \in 0 .. Len /\ i \in Nat
      BY <1>1, <1>2
    <3> QED
      BY <3>1, BasePowers, PowerStep
  <2> HIDE DEF q, p
  <2>4. q * p \in Nat
    BY <2>1, <2>3
  <2> QED
    BY <2>1, <2>2, <2>4
<1>4. TypeOK'
  <2>1. i' \in 0 .. Len
    BY <1>1, <1>2
  <2>2. /\ y' \in Arrays(IF op = "u256_mul" THEN 6 ELSE 4) /\ td' \in Arrays(2 * Len + 2)
    BY IterateFacts
  <2> QED
    BY <1>1, <1>3, <2>1, <2>2 DEF IInv, TypeOK
<1>5. IdleIsClear' /\ UnusedIsZero'
  BY <1>1 DEF IInv, IdleIsClear, UnusedIsZero
<1>6. ProductFits'
  <2>1. op' = "u256_mul" => Val(y', 6) < Val(a', 4) + ctx'.N
    BY <1>1, IterateFacts
  <2>2. op' = "mul" /\ i' > 0 => Val(From(td', i', Len + 1), Len + 1) < Val(a', Len) + ctx'.N
    BY <1>1, IterateFacts
  <2>3. op' = "mul" /\ i' \in 2 .. Len => td'[i' + Len + 1] = 0
    <3> SUFFICES ASSUME op' = "mul", i' \in 2 .. Len PROVE td'[i' + Len + 1] = 0
      OBVIOUS
    <3>1. i >= 1 /\ i' + Len + 1 = i + Len + 2
      BY <1>1, <1>2
    <3>2. td'[i + Len + 2] = 0
      BY <1>1, <3>1, IterateFacts
    <3> QED
      BY <3>1, <3>2
  <2> QED
    BY <2>1, <2>2, <2>3 DEF ProductFits
<1> QED
  BY <1>4, <1>5, <1>6 DEF IInv

(* LL_U256_MONT_COND_SUB as a number.                                      *)
LEMMA ReducedOnce ==
  ASSUME NEW x \in Arrays(4), NEW n, Holds(n, 4), Val(n, 4) # 0, NEW top \in Nat
  PROVE  /\ CondSubU256(top, x, n) \in Arrays(4)
         /\ Val(CondSubU256(top, x, n), 4) = Reduced(Val(x, 4) + Power(4) * top, Val(n, 4), Power(4))
<1> DEFINE s == SubLimbs(x, n, 4)   r == CondSubU256(top, x, n)   d == s.d   c == s.c
           o == 4   e == IF top >= c THEN d ELSE x
<1>1. o \in Nat /\ Holds(x, o) /\ Holds(n, o) /\ Val(n, o) # 0
  BY DEF Arrays, Holds
<1>2. LET f == SubLimbs(x, n, o)
      IN  /\ f.d \in Arrays(o) /\ f.c \in {0, 1}
          /\ Val(IF top >= f.c THEN f.d ELSE x, o)
               = Reduced(Val(x, o) + Power(o) * top, Val(n, o), Power(o))
  <2> HIDE DEF o
  <2> QED
    BY <1>1, SubtractsLimbs
<1>3. r = e
  BY <1>1, CondSubU256Is
<1>4. d \in Arrays(4) /\ Val(e, 4) = Reduced(Val(x, 4) + Power(4) * top, Val(n, 4), Power(4))
  BY <1>2
<1>5. e \in Arrays(4)
  <2> HIDE DEF d, c
  <2> QED
    BY <1>4
<1> HIDE DEF r, e
<1> QED
  BY <1>3, <1>4, <1>5 DEF r

(* What the end of every routine does: one conditional subtraction.        *)
Finishes == FinishU256Mul \/ FinishU256Sqr \/ FinishU256Reduce \/ FinishMul \/ FinishReduce

Once == Reduced(Accumulator + Val(z, 4), ctx.N, Power(Len))

(* The end of ll_u256_mont_mul: the fifth register is the carry.           *)
LEMMA FinishU256MulIs ==
  ASSUME IInv, FinishU256Mul
  PROVE  rd' \in Arrays(Len) /\ Val(rd', Len) = Once /\ Accumulator' = Accumulator
<1>1. op = "u256_mul" /\ Len = 4
  BY StateFacts DEF FinishU256Mul, In, U256Routines
<1> DEFINE x == From(y, 0, 4)   n == Nd   top == y[4]   p == Power(4)
<1>2. rd' = CondSubU256(top, x, n) /\ UNCHANGED <<op, i, y, td>>
  BY DEF FinishU256Mul, Finished
<1>3. Holds(n, 4) /\ Val(n, 4) = ctx.N /\ Val(n, 4) # 0 /\ p \in Nat
  BY <1>1, StateFacts
<1>4. y[5] = 0 /\ top \in Nat
  BY <1>1, CarryRegister
<1>5. y \in Arrays(6) /\ Holds(y, 6)
  BY <1>1 DEF IInv, TypeOK, Arrays, Holds
<1>6. Val(y, 6) = Val(y, 4) + p * top /\ Val(y, 6) \in Nat
  <2>1. Val(y, 6) = Val(y, 4) + p * (y[4] + B * y[5])
    BY <1>5, SixLimbs
  <2>2. y[4] + B * y[5] = top
    BY <1>4, Base
  <2>3. Val(y, 6) \in Nat
    BY <1>5, ValRange
  <2> QED
    BY <2>1, <2>2, <2>3
<1>7. x \in Arrays(4) /\ Val(x, 4) = Val(y, 4)
  <2>1. x \in Arrays(4) /\ \A k \in 0 .. 3 : x[k] = y[k]
    BY <1>5 DEF From, Arrays
  <2> DEFINE o == 4
  <2>2. o \in Nat /\ Holds(x, o) /\ \A k \in 0 .. o - 1 : x[k] = y[k]
    <3> HIDE DEF x
    <3> QED
      BY <2>1 DEF Arrays, Holds
  <2>3. Val(x, o) = Val(y, o)
    <3> HIDE DEF x, o
    <3> QED
      BY <2>2, ValSame
  <2> QED
    BY <2>1, <2>3
<1>8. /\ CondSubU256(top, x, n) \in Arrays(4)
      /\ Val(CondSubU256(top, x, n), 4) = Reduced(Val(x, 4) + p * top, Val(n, 4), p)
  <2> HIDE DEF x, n, top
  <2> QED
    BY <1>3, <1>4, <1>7, ReducedOnce
<1>9. Val(z, 4) = 0
  BY <1>1, ZerosAre DEF IInv, UnusedIsZero
<1>10. Accumulator = Val(y, 6) /\ Accumulator' = Val(y', 6)
  BY <1>1, <1>2 DEF Accumulator
<1>11. Accumulator + Val(z, 4) = Val(x, 4) + p * top
  <2> DEFINE s == p * top
  <2>1. Val(y, 6) = Val(x, 4) + s /\ Val(y, 6) \in Nat
    BY <1>6, <1>7
  <2> HIDE DEF s, x
  <2>2. Accumulator + Val(z, 4) = Val(x, 4) + s
    BY <1>9, <1>10, <2>1
  <2> QED
    BY <2>2 DEF s
<1> HIDE DEF x, n, top
<1> QED
  BY <1>1, <1>2, <1>3, <1>8, <1>10, <1>11 DEF Once

(* The end of ll_u256_mont_sqr: the carry is that of the upper half of the *)
(* square.                                                                 *)
LEMMA FinishU256SqrIs ==
  ASSUME IInv, FinishU256Sqr
  PROVE  rd' \in Arrays(Len) /\ Val(rd', Len) = Once /\ Accumulator' = Accumulator
<1>1. op = "u256_sqr" /\ Len = 4
  BY StateFacts DEF FinishU256Sqr, In, U256Routines
<1> DEFINE s == AddMacro(z, y)   x == s.d   n == Nd   top == s.c   p == Power(4)
<1>2. rd' = CondSubU256(top, x, n) /\ UNCHANGED <<op, i, y, td>>
  BY DEF FinishU256Sqr, Finished
<1>3. Holds(n, 4) /\ Val(n, 4) = ctx.N /\ Val(n, 4) # 0 /\ p \in Nat
  BY <1>1, StateFacts
<1>4. Holds(y, 4) /\ Holds(z, 4) /\ Val(y, 4) \in Nat /\ Val(z, 4) \in Nat
  <2>1. y \in Arrays(4) /\ z \in Arrays(4)
    BY <1>1 DEF IInv, TypeOK
  <2>2. Holds(y, 4) /\ Holds(z, 4)
    BY <2>1 DEF Arrays, Holds
  <2> QED
    BY <2>2, ValRange
<1>5. x \in Arrays(4) /\ top \in Nat /\ Val(x, 4) + p * top = Val(z, 4) + Val(y, 4)
  <2>1. s = AddU256(z, y)
    BY <1>4, AddMacroIs
  <2> HIDE DEF s
  <2> QED
    BY <1>4, <2>1, AddU256Is DEF U256s
<1>6. /\ CondSubU256(top, x, n) \in Arrays(4)
      /\ Val(CondSubU256(top, x, n), 4) = Reduced(Val(x, 4) + p * top, Val(n, 4), p)
  <2> HIDE DEF x, n, top
  <2> QED
    BY <1>3, <1>5, ReducedOnce
<1>7. Accumulator = Val(y, 4) /\ Accumulator' = Val(y', 4)
  BY <1>1, <1>2 DEF Accumulator
<1>8. Accumulator + Val(z, 4) = Val(x, 4) + p * top
  BY <1>4, <1>5, <1>7
<1> HIDE DEF x, n, top
<1> QED
  BY <1>1, <1>2, <1>3, <1>6, <1>7, <1>8 DEF Once

(* The end of ll_u256_mont_reduce: there is no carry.                      *)
LEMMA FinishU256ReduceIs ==
  ASSUME IInv, FinishU256Reduce
  PROVE  rd' \in Arrays(Len) /\ Val(rd', Len) = Once /\ Accumulator' = Accumulator
<1>1. op = "u256_reduce" /\ Len = 4
  BY StateFacts DEF FinishU256Reduce, In, U256Routines
<1> DEFINE n == Nd   p == Power(4)   top == 0
<1>2. rd' = CondSubU256(top, y, n) /\ UNCHANGED <<op, i, y, td>>
  BY DEF FinishU256Reduce, Finished
<1>3. Holds(n, 4) /\ Val(n, 4) = ctx.N /\ Val(n, 4) # 0 /\ p \in Nat /\ top \in Nat
  BY <1>1, StateFacts
<1>4. y \in Arrays(4) /\ Val(y, 4) \in Nat
  <2>1. y \in Arrays(4)
    BY <1>1 DEF IInv, TypeOK
  <2>2. Holds(y, 4)
    BY <2>1 DEF Arrays, Holds
  <2> QED
    BY <2>1, <2>2, ValRange
<1>5. /\ CondSubU256(top, y, n) \in Arrays(4)
      /\ Val(CondSubU256(top, y, n), 4) = Reduced(Val(y, 4) + p * top, Val(n, 4), p)
  <2> HIDE DEF n, top
  <2> QED
    BY <1>3, <1>4, ReducedOnce
<1>6. Val(z, 4) = 0
  BY <1>1, ZerosAre DEF IInv, UnusedIsZero
<1>7. Accumulator = Val(y, 4) /\ Accumulator' = Val(y', 4)
  BY <1>1, <1>2 DEF Accumulator
<1>8. Accumulator + Val(z, 4) = Val(y, 4) + p * top
  BY <1>3, <1>4, <1>6, <1>7
<1> HIDE DEF n, top
<1> QED
  BY <1>1, <1>2, <1>3, <1>5, <1>7, <1>8 DEF Once

(* The end of ll_mont_mul; the C version of the conditional subtraction    *)
(* leaves limbs, but not this number.                                      *)
LEMMA FinishMulIs ==
  ASSUME IInv, FinishMul
  PROVE  /\ rd' \in Arrays(Len) /\ Accumulator' = Accumulator
         /\ Build = "asm" => Val(rd', Len) = Once
<1>1. op = "mul" /\ i = Len /\ Len \in Nat \ {0}
  BY StateFacts DEF FinishMul, In
<1> DEFINE x == From(td, Len, Len + 1)   n == Nd   r == CondSubLimbs(x, n)
<1>2. rd' = r /\ UNCHANGED <<op, i, y, td>>
  BY DEF FinishMul, Finished
<1>3. Holds(n, Len) /\ Val(n, Len) = ctx.N /\ Val(n, Len) # 0
  BY StateFacts
<1>4. Holds(x, Len + 1) /\ Val(x, Len + 1) \in Nat
  <2>1. td \in Arrays(2 * Len + 2)
    BY DEF IInv, TypeOK
  <2>2. \A k \in 0 .. (Len + 1) - 1 : x[k] = td[Len + k] /\ Len + k \in 0 .. (2 * Len + 2) - 1
    BY <1>1 DEF From
  <2> HIDE DEF x
  <2>3. Holds(x, Len + 1)
    BY <2>1, <2>2 DEF Arrays, Holds
  <2> QED
    BY <1>1, <2>3, ValRange
<1>5. /\ r \in Arrays(Len)
      /\ Build = "asm" => Val(r, Len) = Reduced(Val(x, Len + 1), Val(n, Len), Power(Len))
  <2> HIDE DEF x, n
  <2> QED
    BY <1>3, <1>4, CondSubLimbsIs
<1>6. Val(z, 4) = 0
  BY <1>1, ZerosAre DEF IInv, UnusedIsZero
<1>7. Accumulator = Val(x, Len + 1) /\ Accumulator' = Val(x, Len + 1)
  BY <1>1, <1>2 DEF Accumulator
<1>8. Accumulator + Val(z, 4) = Val(x, Len + 1)
  BY <1>4, <1>6, <1>7
<1> HIDE DEF x, n, r
<1> QED
  BY <1>2, <1>3, <1>5, <1>7, <1>8 DEF Once

(* The end of ll_mont_reduce: with zeros in the result array the sum is    *)
(* the accumulator.                                                        *)
LEMMA FinishReduceIs ==
  ASSUME IInv, FinishReduce
  PROVE  /\ rd' \in Arrays(Len) /\ td' \in Arrays(2 * Len + 2)
         /\ Build = "asm" /\ OldResults \subseteq {0} =>
              Val(rd', Len) = Once /\ Accumulator' = Accumulator
<1>1. op = "reduce" /\ i = Len /\ pc = "loop" /\ Len \in Nat \ {0}
  BY StateFacts DEF FinishReduce, In
<1> DEFINE f == From(td, Len, Len)   n == Nd   s == AddLimbs(f, rd, Len)   d == s.d   c == s.c
           t == Stored(td, Len, d, c)
           x == From(t, Len, Len + 1)   r == CondSubLimbs(x, n)   p == Power(Len)
<1>2. td' = t /\ rd' = r /\ UNCHANGED <<op, i, y>>
  <2>1. td' = t /\ rd' = CondSubLimbs(From(td', Len, Len + 1), Nd) /\ UNCHANGED <<op, i, y>>
    BY DEF FinishReduce, Finished, Stored
  <2> HIDE DEF t
  <2> QED
    BY <2>1
<1>3. Holds(n, Len) /\ Val(n, Len) = ctx.N /\ Val(n, Len) # 0 /\ Holds(rd, Len) /\ p \in Nat \ {0}
  BY StateFacts
<1>4. td \in Arrays(2 * Len + 2)
  BY DEF IInv, TypeOK
<1>5. Holds(f, Len) /\ Val(f, Len) \in Nat /\ Val(f, Len) < p
  <2>1. \A k \in 0 .. Len - 1 : f[k] = td[Len + k] /\ Len + k \in 0 .. (2 * Len + 2) - 1
    BY <1>1 DEF From
  <2> HIDE DEF f
  <2>2. Holds(f, Len)
    BY <1>4, <2>1 DEF Arrays, Holds
  <2> QED
    BY <1>1, <2>2, ValRange
<1>6. /\ d \in Arrays(Len) /\ Holds(d, Len) /\ c \in {0, 1}
      /\ Val(d, Len) + p * c = Val(f, Len) + Val(rd, Len)
  <2> HIDE DEF f
  <2> QED
    BY <1>1, <1>3, <1>5, AddLimbsIs
<1>7. /\ t \in Arrays(2 * Len + 2)
      /\ Val(From(t, Len, Len), Len) = Val(d, Len)
      /\ Holds(x, Len + 1)
      /\ Val(x, Len + 1) = Val(d, Len) + p * c
  <2>1. Len \in Nat \ {0} /\ td \in Arrays(2 * Len + 2) /\ d \in Arrays(Len) /\ c \in {0, 1}
    BY <1>1, <1>4, <1>6
  <2> HIDE DEF d, c
  <2>2. LET u == Stored(td, Len, d, c)
        IN  /\ u \in Arrays(2 * Len + 2)
            /\ Val(From(u, Len, Len), Len) = Val(d, Len)
            /\ Holds(From(u, Len, Len + 1), Len + 1)
            /\ Val(From(u, Len, Len + 1), Len + 1) = Val(d, Len) + Power(Len) * c
    BY <2>1, StoredIs
  <2> QED
    BY <2>2
<1>8. /\ r \in Arrays(Len)
      /\ Build = "asm" => Val(r, Len) = Reduced(Val(x, Len + 1), Val(n, Len), p)
  <2> HIDE DEF x, n
  <2> QED
    BY <1>3, <1>7, CondSubLimbsIs
<1>9. Val(z, 4) = 0
  BY <1>1, ZerosAre DEF IInv, UnusedIsZero
<1>10. Accumulator = Val(f, Len)
  BY <1>1 DEF Accumulator
<1>11. Accumulator' = Val(From(td', Len, Len), Len)
  BY <1>1, <1>2 DEF Accumulator
<1>12. ASSUME Build = "asm", OldResults \subseteq {0}
       PROVE  Val(rd', Len) = Once /\ Accumulator' = Accumulator
  <2>1. Val(rd, Len) = 0
    BY <1>1, <1>12 DEF IInv, UnusedIsZero
  <2>2. c = 0
    <3> DEFINE v == Val(d, Len)   u == Val(f, Len)
    <3>1. v \in Nat /\ u \in Nat /\ u < p /\ v + p * c = u /\ p \in Nat
      BY <1>1, <1>3, <1>5, <1>6, <2>1, ValRange
    <3>2. c = 1 => p * c = p
      BY <1>3
    <3> HIDE DEF v, u, p, c, d, f
    <3>3. c \in {0, 1}
      BY <1>6
    <3> SUFFICES ASSUME c = 1 PROVE FALSE
      BY <3>3
    <3>4. v + p = u
      BY <3>1, <3>2
    <3> QED
      BY <3>1, <3>4
  <2>3. Val(x, Len + 1) = Val(f, Len) /\ Val(d, Len) = Val(f, Len)
    <3> DEFINE v == Val(d, Len)   u == Val(f, Len)
    <3>1. v \in Nat /\ u \in Nat /\ v + p * c = u /\ Val(x, Len + 1) = v + p * c
      BY <1>1, <1>5, <1>6, <1>7, <2>1, ValRange
    <3>2. p * c = 0
      BY <1>3, <2>2
    <3> HIDE DEF v, u, p, c, x, d, f
    <3> QED
      BY <3>1, <3>2 DEF v, u
  <2>4. Val(rd', Len) = Reduced(Val(f, Len), ctx.N, p)
    <3> HIDE DEF x, n, r, f, p
    <3> QED
      BY <1>2, <1>3, <1>8, <1>12, <2>3
  <2>5. Accumulator + Val(z, 4) = Val(f, Len)
    <3> HIDE DEF f
    <3> QED
      BY <1>5, <1>9, <1>10
  <2>6. Accumulator' = Accumulator
    <3> HIDE DEF t, d, f
    <3> QED
      BY <1>2, <1>7, <1>10, <1>11, <2>3
  <2> HIDE DEF f
  <2> QED
    BY <2>4, <2>5, <2>6 DEF Once
<1> HIDE DEF t, r
<1> QED
  BY <1>2, <1>7, <1>8, <1>12

(* Every end leaves a result of Len limbs and everything else as it was.   *)
LEMMA FinishFacts ==
  ASSUME IInv, Finishes
  PROVE  /\ pc = "loop" /\ op \in Routines /\ i = Len /\ pc' = "done"
         /\ UNCHANGED <<ctx, op, a, b, i, y, z, m>>
         /\ rd' \in Arrays(Len) /\ td' \in Arrays(2 * Len + 2) /\ (op # "reduce" => td' = td)
         /\ Build = "asm" /\ OldResults \subseteq {0} =>
              Val(rd', Len) = Once /\ Accumulator' = Accumulator
<1>1. pc = "loop" /\ pc' = "done" /\ UNCHANGED <<ctx, op, a, b, i, y, z, m>>
  BY DEF Finishes, FinishU256Mul, FinishU256Sqr, FinishU256Reduce, FinishMul, FinishReduce, In, Finished
<1>2. op \in Routines /\ (op \in U256Routines => Len = 4) /\ td \in Arrays(2 * Len + 2)
  BY <1>1, StateFacts DEF IInv, TypeOK, IdleIsClear
<1>3. i = Len
  BY <1>2 DEF Finishes, FinishU256Mul, FinishU256Sqr, FinishU256Reduce, FinishMul, FinishReduce, In,
              U256Routines
<1>4. CASE FinishU256Mul
  <2>1. td' = td
    BY <1>4 DEF FinishU256Mul
  <2> QED
    BY <1>1, <1>2, <1>3, <1>4, <2>1, FinishU256MulIs
<1>5. CASE FinishU256Sqr
  <2>1. td' = td
    BY <1>5 DEF FinishU256Sqr
  <2> QED
    BY <1>1, <1>2, <1>3, <1>5, <2>1, FinishU256SqrIs
<1>6. CASE FinishU256Reduce
  <2>1. td' = td
    BY <1>6 DEF FinishU256Reduce
  <2> QED
    BY <1>1, <1>2, <1>3, <1>6, <2>1, FinishU256ReduceIs
<1>7. CASE FinishMul
  <2>1. td' = td
    BY <1>7 DEF FinishMul
  <2> QED
    BY <1>1, <1>2, <1>3, <1>7, <2>1, FinishMulIs
<1>8. CASE FinishReduce
  <2>1. op = "reduce"
    BY <1>8 DEF FinishReduce, In
  <2> QED
    BY <1>1, <1>2, <1>3, <1>8, <2>1, FinishReduceIs
<1> QED
  BY <1>4, <1>5, <1>6, <1>7, <1>8 DEF Finishes

(* ... after the end ...                                                   *)
LEMMA FinishesKeep ==
  ASSUME IInv, Finishes
  PROVE  IInv'
<1>1. /\ pc = "loop" /\ op \in Routines /\ i = Len /\ pc' = "done" /\ ctx' = ctx /\ op' = op
      /\ a' = a /\ b' = b /\ i' = i /\ y' = y /\ z' = z /\ m' = m
      /\ rd' \in Arrays(Len) /\ td' \in Arrays(2 * Len + 2) /\ (op # "reduce" => td' = td)
  BY FinishFacts
<1>2. TypeOK'
  BY <1>1 DEF IInv, TypeOK
<1>3. IdleIsClear' /\ UnusedIsZero'
  BY <1>1 DEF IInv, IdleIsClear, UnusedIsZero
<1>4. ProductFits'
  BY <1>1 DEF IInv, ProductFits
<1> QED
  BY <1>2, <1>3, <1>4 DEF IInv

(* ... and after the return.                                               *)
LEMMA ReturnKeeps ==
  ASSUME IInv, Return
  PROVE  IInv'
<1>1. Init'
  BY DEF Return, Init
<1>2. Init' => IInv'
  BY InitIInv, PTL
<1> QED
  BY <1>1, <1>2

(* Every step is a call, an iteration, an end or a return.                 *)
LEMMA NextSteps == Next => Calls \/ Iteration \/ Finishes \/ Return
BY DEF Next, Calls, Iteration, Finishes

(* No step breaks the invariant.                                           *)
LEMMA NextIInv == IInv /\ [Next]_vars => IInv'
<1> SUFFICES ASSUME IInv, [Next]_vars PROVE IInv'
  OBVIOUS
<1>1. CASE Calls
  BY <1>1, CallsKeep
<1>2. CASE Iteration
  BY <1>2, IteratesKeep
<1>3. CASE Finishes
  BY <1>3, FinishesKeep
<1>4. CASE Return
  BY <1>4, ReturnKeeps
<1>5. CASE UNCHANGED vars
  BY <1>5 DEF vars, IInv, TypeOK, IdleIsClear, UnusedIsZero, ProductFits
<1> QED
  BY <1>1, <1>2, <1>3, <1>4, <1>5, NextSteps

(* The invariant of both implementations.                                  *)
THEOREM MontCodeInvariant == Spec => []IInv
<1> QED
  BY InitIInv, NextIInv, PTL DEF Spec

(* No carry is lost, whatever the operands and whichever conditional       *)
(* subtraction is built.                                                   *)
THEOREM CarriesKept == Spec => []CarryKept
<1>1. IInv => CarryKept
  <2> SUFFICES ASSUME IInv PROVE CarryKept
    OBVIOUS
  <2>1. op = "u256_mul" => y[5] = 0 /\ y[4] \in {0, 1}
    BY CarryRegister
  <2>2. op = "mul" /\ i \in 2 .. Len => td[i + Len + 1] = 0
    BY DEF IInv, ProductFits
  <2> QED
    BY <2>1, <2>2 DEF CarryKept
<1> QED
  BY <1>1, MontCodeInvariant, PTL
------------------------------------------------------------------------------
(* The variables of MontMul that are not variables here.                   *)
Operation ==
  CASE op \in {"mul", "u256_mul"} -> "mul"
    [] op \in {"reduce", "u256_reduce"} -> "reduce"
    [] op = "u256_sqr" -> "sqr"
    [] OTHER -> op
Remaining == IF op \in {"mul", "u256_mul"} THEN Val(b, Len) \div B^i ELSE 0
Result == IF pc = "done" THEN Val(rd, Len) ELSE 0
Powers == [k \in 0 .. Len |-> B^k]

(* Cleared arrays are zero.                                                *)
LEMMA ZeroValues ==
  /\ Val(Zeros(Len), Len) = 0 /\ Val(Zeros(4), 4) = 0 /\ Val(Zeros(6), 6) = 0
  /\ 0 % B = 0 /\ 0 \div B = 0
<1>1. Len \in Nat /\ B \in Nat \ {0}
  BY LenAssumption, Base
<1>2. 0 % B = 0 /\ 0 \div B = 0
  <2> DEFINE x == 0   o == 0
  <2>1. B \in Nat \ {0} /\ x \in Int /\ o \in Int /\ o \in 0 .. B - 1 /\ x = B * o + o
    BY <1>1
  <2> HIDE DEF x, o
  <2>2. x \div B = o /\ x % B = o
    BY <2>1, DivModIs
  <2> QED
    BY <2>2 DEF x, o
<1> QED
  BY <1>1, <1>2, ZerosAre

(* Before the first call MontMul is in its initial state.                  *)
LEMMA AbstractInit == Init => Abstract!Init
<1> SUFFICES ASSUME Init PROVE Abstract!Init
  OBVIOUS
<1>1. /\ Operation = "none" /\ Remaining = 0 /\ Result = 0 /\ Accumulator = 0
      /\ ctx = NoContext /\ Val(a, Len) = 0 /\ Val(b, Len) = 0 /\ i = 0 /\ m = 0
      /\ Val(z, 4) = 0 /\ pc = "idle"
  BY ZeroValues DEF Init, Operation, Remaining, Result, Accumulator
<1> QED
  BY <1>1 DEF Abstract!Init, Abstract!NoContext, NoContext, Operation, Remaining, Result

(* The next limb of bd is the lowest digit of what remains of the          *)
(* multiplier.                                                             *)
LEMMA RemainingIs ==
  ASSUME IInv, Iteration
  PROVE  Remaining % B = Digit /\ Remaining' = Remaining \div B /\ Digit \in Nat
<1>1. i \in 0 .. Len - 1 /\ i' = i + 1 /\ op' = op /\ b' = b
  BY IterateFacts
<1>2. Len \in Nat /\ Holds(b, Len)
  BY StateFacts
<1>3. i \in 0 .. Len /\ i + 1 \in 0 .. Len
  BY <1>1, <1>2
<1>4. CASE op \in {"mul", "u256_mul"}
  <2>1. B^i = Power(i) /\ B^(i + 1) = Power(i + 1)
    BY <1>3, BasePowers
  <2>2. LET r == Val(b, Len) \div Power(i)
        IN  r \in Nat /\ r % B = b[i] /\ r \div B = Val(b, Len) \div Power(i + 1)
    BY <1>1, <1>2, Multiplier
  <2>3. Remaining = Val(b, Len) \div B^i /\ Remaining' = Val(b, Len) \div B^(i + 1) /\ Digit = b[i]
    BY <1>1, <1>4 DEF Remaining, Digit
  <2>4. b[i] \in Nat
    BY <1>1, <1>2, Base DEF Holds, Limb
  <2> QED
    BY <2>1, <2>2, <2>3, <2>4
<1>5. CASE op \notin {"mul", "u256_mul"}
  BY <1>1, <1>5, ZeroValues DEF Remaining, Digit
<1> QED
  BY <1>4, <1>5

(* An iteration is an Iterate of MontMul ...                               *)
LEMMA AbstractIterate ==
  ASSUME IInv, Iteration
  PROVE  Abstract!Iterate
<1> DEFINE t == Accumulator + Val(a, Len) * (Remaining % B)   q == ((t % B) * ctx.k0) % B
           v == Accumulator'
<1>1. /\ pc = "loop" /\ i \in 0 .. Len - 1 /\ i' = i + 1
      /\ UNCHANGED <<ctx, op, a, b, rd, pc, z>>
      /\ Divided(Accumulator + Digit * Val(a, Len), v)
  BY IterateFacts
<1>2. t = Accumulator + Digit * Val(a, Len)
  <2>1. Remaining % B = Digit /\ Digit \in Nat /\ Val(a, Len) \in Nat
    BY RemainingIs, StateFacts
  <2>2. Val(a, Len) * Digit = Digit * Val(a, Len)
    BY <2>1
  <2> QED
    BY <2>1, <2>2
<1>3. t \in Nat /\ v \in Nat /\ q \in Nat /\ B * v = t + q * ctx.N /\ m' = m + q * B^i
  BY <1>1, <1>2 DEF Divided
<1>4. v = (t + ctx.N * q) \div B
  <2> DEFINE s == t + ctx.N * q   o == 0
  <2>1. ctx.N \in Nat /\ B \in Nat \ {0}
    BY StateFacts
  <2>2. s = t + q * ctx.N
    <3> HIDE DEF q, t
    <3> QED
      BY <1>3, <2>1
  <2>3. B \in Nat \ {0} /\ s \in Int /\ v \in Int /\ o \in 0 .. B - 1 /\ s = B * v + o
    <3> HIDE DEF s, v, q, t
    <3>1. B * v \in Nat
      BY <1>3, <2>1
    <3> QED
      BY <1>3, <2>1, <2>2, <3>1 DEF o
  <2> HIDE DEF s, v, o
  <2>4. s \div B = v
    BY <2>3, DivModIs
  <2> QED
    BY <2>4 DEF s
<1>5. Powers[i] = B^i /\ i < Len
  <2>1. Len \in Nat
    BY LenAssumption
  <2> QED
    BY <1>1, <2>1 DEF Powers
<1>6. Remaining' = Remaining \div B /\ Operation' = Operation /\ Result' = Result
  BY <1>1, RemainingIs DEF Operation, Result
<1>7. /\ Accumulator' = (t + ctx.N * q) \div B /\ m' = m + q * Powers[i]
      /\ ctx' = ctx /\ Val(a', Len) = Val(a, Len) /\ Val(b', Len) = Val(b, Len)
      /\ Val(z', 4) = Val(z, 4) /\ pc' = pc
  BY <1>1, <1>3, <1>4, <1>5
<1> QED
  BY <1>1, <1>5, <1>6, <1>7
     DEF Abstract!Iterate, Abstract!Quotient, Abstract!N, Remaining, Operation, Result, Powers

(* ... a call one of its calls ...                                         *)
LEMMA AbstractCall ==
  ASSUME IInv, Calls
  PROVE  Abstract!Call
<1> DEFINE r == B^Len   x == Val(a', Len)
<1>1. Len \in Nat \ {0} /\ r = Power(Len) /\ Powers[Len] = r
  <2>1. Len \in Nat \ {0}
    BY LenAssumption
  <2> QED
    BY <2>1, BasePowers DEF Powers
<1>2. /\ pc = "idle" /\ op = "none" /\ i' = i /\ m' = m /\ i' = 0 /\ pc' = "loop"
      /\ ctx' \in Contexts /\ op' \in Routines
      /\ a' \in Arrays(Len) /\ Holds(a', Len) /\ x \in 0 .. r - 1 /\ Val(b', Len) \in 0 .. r - 1
  BY CallFacts
<1>3. Result' = Result
  BY <1>2 DEF Result
<1>4. CASE op' \in {"mul", "u256_mul"}
  <2>1. Operation' = "mul"
    BY <1>4 DEF Operation
  <2>2. Remaining' = Val(b', Len)
    <3>1. Remaining' = Val(b', Len) \div B^0
      BY <1>2, <1>4 DEF Remaining
    <3>2. B^0 = 1
      BY PowersAssumption
    <3> DEFINE v == Val(b', Len)   o == 1   e == 0
    <3>3. o \in Nat \ {0} /\ v \in Int /\ e \in 0 .. o - 1 /\ v = o * v + e
      BY <1>2
    <3> HIDE DEF v, o, e
    <3>4. v \div o = v
      BY <3>3, DivModIs
    <3> QED
      BY <3>1, <3>2, <3>4 DEF v, o
  <2>3. Val(z', 4) = 0 /\ Accumulator' = 0
    BY <1>2, <1>4, CallFacts, ZeroValues DEF Accumulator
  <2> QED
    BY <1>1, <1>2, <1>3, <2>1, <2>2, <2>3
       DEF Abstract!Call, Abstract!Mul, Abstract!R, Operation, Remaining, Result, Powers
<1>5. CASE op' = "u256_sqr"
  <2>1. Operation' = "sqr" /\ Remaining' = 0
    BY <1>5 DEF Operation, Remaining
  <2>2. Len = 4 /\ Val(b', Len) = 0 /\ y' = From(SqrU256(a'), 0, 4) /\ z' = From(SqrU256(a'), 4, 4)
    BY <1>5, CallFacts, ZeroValues
  <2>3. Accumulator' = Val(y', 4)
    BY <1>5 DEF Accumulator
  <2>4. Accumulator' = (x * x) % r /\ Val(z', 4) = (x * x) \div r
    BY <1>1, <1>2, <2>2, <2>3, HalvesAre
  <2> QED
    BY <1>1, <1>2, <1>3, <2>1, <2>2, <2>4
       DEF Abstract!Call, Abstract!Sqr, Abstract!R, Operation, Remaining, Result, Powers
<1>6. CASE op' \in {"reduce", "u256_reduce"}
  <2>1. Operation' = "reduce" /\ Remaining' = 0
    BY <1>6 DEF Operation, Remaining
  <2>2. Val(b', Len) = 0 /\ Val(z', 4) = 0
    BY <1>6, CallFacts, ZeroValues
  <2>3. Accumulator' = x
    <3>1. CASE op' = "u256_reduce"
      BY <3>1, CallFacts DEF Accumulator
    <3>2. CASE op' = "reduce"
      <4>1. td' = Into(Into(td, 0, a'), Len, Zeros(Len)) /\ td \in Arrays(2 * Len + 2)
        BY <3>2, CallFacts DEF IInv, TypeOK
      <4>2. Val(From(td', 0, Len), Len) = x
        BY <1>1, <1>2, <4>1, CopiedIs
      <4> QED
        BY <1>2, <3>2, <4>2 DEF Accumulator
    <3> QED
      BY <1>6, <3>1, <3>2
  <2> QED
    BY <1>1, <1>2, <1>3, <2>1, <2>2, <2>3
       DEF Abstract!Call, Abstract!Reduce, Abstract!R, Operation, Remaining, Result, Powers
<1> QED
  BY <1>4, <1>5, <1>6, CallFacts

(* ... the end its Finish ...                                              *)
LEMMA AbstractFinish ==
  ASSUME IInv, Finishes, Build = "asm", OldResults \subseteq {0}
  PROVE  Abstract!Finish
<1>1. /\ pc = "loop" /\ i = Len /\ pc' = "done" /\ op' = op
      /\ ctx' = ctx /\ a' = a /\ b' = b /\ i' = i /\ z' = z /\ m' = m
      /\ Val(rd', Len) = Once /\ Accumulator' = Accumulator
  BY FinishFacts
<1>2. Powers[Len] = Power(Len)
  <2>1. Len \in 0 .. Len
    BY LenAssumption
  <2> QED
    BY <2>1, BasePowers DEF Powers
<1>3. Operation' = Operation /\ Remaining' = Remaining /\ Result' = Once
  BY <1>1 DEF Operation, Remaining, Result
<1>4. Once = (IF Accumulator + Val(z, 4) >= ctx.N
              THEN (Accumulator + Val(z, 4)) - ctx.N
              ELSE Accumulator + Val(z, 4)) % Powers[Len]
  BY <1>2 DEF Once, Reduced
<1> QED
  BY <1>1, <1>3, <1>4
     DEF Abstract!Finish, Abstract!CondSub, Abstract!N, Abstract!R, Operation, Remaining, Result, Powers

(* ... the return its Return, ...                                          *)
LEMMA AbstractReturn == Return => Abstract!Return
<1> SUFFICES ASSUME Return PROVE Abstract!Return
  OBVIOUS
<1>1. /\ Operation' = "none" /\ Remaining' = 0 /\ Result' = 0 /\ Accumulator' = 0
      /\ ctx' = NoContext /\ Val(a', Len) = 0 /\ Val(b', Len) = 0 /\ i' = 0 /\ m' = 0
      /\ Val(z', 4) = 0 /\ pc = "done" /\ pc' = "idle"
  BY ZeroValues DEF Return, Operation, Remaining, Result, Accumulator
<1> QED
  BY <1>1 DEF Abstract!Return, Abstract!NoContext, NoContext, Operation, Remaining, Result

(* ... and there is no other step.                                         *)
LEMMA AbstractNext ==
  ASSUME IInv, [Next]_vars, Build = "asm", OldResults \subseteq {0}
  PROVE  [Abstract!Next]_(Abstract!vars)
<1>1. CASE Calls
  BY <1>1, AbstractCall DEF Abstract!Next
<1>2. CASE Iteration
  BY <1>2, AbstractIterate DEF Abstract!Next
<1>3. CASE Finishes
  BY <1>3, AbstractFinish DEF Abstract!Next
<1>4. CASE Return
  BY <1>4, AbstractReturn DEF Abstract!Next
<1>5. CASE UNCHANGED vars
  BY <1>5 DEF vars, Abstract!vars, Accumulator
<1> QED
  BY <1>1, <1>2, <1>3, <1>4, <1>5, NextSteps

(* Both implementations perform the arithmetic of MontMul, for every width *)
(* of a limb, number of limbs, modulus and operand: with the assembly      *)
(* version of the conditional subtraction and, for ll_mont_reduce, a       *)
(* result array full of zeros.                                             *)
THEOREM CodeImplementsMontMul ==
  ASSUME Build = "asm", OldResults \subseteq {0}
  PROVE  Spec => ImplementsMontMul
<1>1. Init => Abstract!Init
  BY AbstractInit
<1>2. IInv /\ [Next]_vars => [Abstract!Next]_(Abstract!vars)
  BY AbstractNext
<1> QED
  BY <1>1, <1>2, MontCodeInvariant, PTL DEF Spec, ImplementsMontMul, Abstract!Spec
==============================================================================
