---------------------------- MODULE NumbersProofs ----------------------------
(***************************************************************************)
(* The theorems of MontExp, Lehmer, Euclid and MontMul, the modules about  *)
(* numbers and not limbs: ll_u256_mont_exp reads every exponent exactly,   *)
(* for every width of a byte, length of the exponent and window that fits  *)
(* a byte; ll_lehmer_exgcd, the simulation on leading limbs included,      *)
(* finds the greatest common divisor and the cofactors, for every even     *)
(* width of a limb and all operands, and implements Euclid; Euclid does so *)
(* for any sequence of unimodular matrices; and Montgomery multiplication  *)
(* is right for every base of a limb, number of limbs, odd modulus and all *)
(* operands.  The modules have nothing to do with each other but that      *)
(* Lehmer implements Euclid: a theorem is about one of them, and a name    *)
(* that two of them have is only shared.                                   *)
(***************************************************************************)
EXTENDS MontExp, Lehmer, TLAPS, WellFoundedInduction

(* Division with remainder, and that only one quotient and one remainder   *)
(* satisfy its equation.                                                   *)
LEMMA DivMod ==
  ASSUME NEW x \in Nat, NEW d \in Nat \ {0}
  PROVE  /\ x \div d \in Nat
         /\ x % d \in 0 .. d - 1
         /\ x = d * (x \div d) + (x % d)
<1>1. x \div d \in Int /\ x % d \in 0 .. d - 1 /\ x = d * (x \div d) + (x % d)
  OBVIOUS
<1>2. x \div d >= 0
  OBVIOUS
<1> QED
  BY <1>1, <1>2

(* A quotient and a remainder are determined by their equation.            *)
LEMMA Unique ==
  ASSUME NEW d \in Nat \ {0}, NEW q \in Int, NEW s \in 0 .. d - 1
  PROVE  (d * q + s) \div d = q /\ (d * q + s) % d = s
<1>1. (d * q + s) \div d = q
  OBVIOUS
<1>2. (d * q + s) % d = s
  OBVIOUS
<1> QED
  BY <1>1, <1>2

(* Dividing by a and then by b is dividing by their product; the remainder *)
(* is made of the two remainders.                                          *)
LEMMA DivDiv ==
  ASSUME NEW x \in Nat, NEW a \in Nat \ {0}, NEW b \in Nat \ {0}
  PROVE  /\ (x \div a) \div b = x \div (a * b)
         /\ x % (a * b) = a * ((x \div a) % b) + (x % a)
<1> DEFINE y == x \div a
           q == y \div b
           r == y % b
           s == x % a
<1>1. y \in Nat /\ s \in 0 .. a - 1 /\ x = a * y + s
  BY DivMod
<1>2. q \in Nat /\ r \in 0 .. b - 1 /\ y = b * q + r
  BY <1>1, DivMod
<1> HIDE DEF q, r, s
<1>3. x = (a * b) * q + (a * r + s)
  <2>1. x = a * (b * q + r) + s
    BY <1>1, <1>2
  <2>2. a * (b * q + r) = (a * b) * q + a * r
    BY <1>1, <1>2
  <2> QED
    BY <2>1, <2>2, <1>1, <1>2
<1>4. a * b \in Nat \ {0}
  OBVIOUS
<1>5. a * r + s \in 0 .. (a * b) - 1
  <2>1. a * r \in Nat /\ a * (b - 1 - r) \in Nat
    BY <1>2
  <2>2. a * (b - 1 - r) = (a * b) - a - a * r
    BY <1>2
  <2> QED
    BY <2>1, <2>2, <1>1, <1>4
<1> DEFINE d == a * b
           t == a * r + s
<1>6. d \in Nat \ {0} /\ t \in 0 .. d - 1 /\ x = d * q + t
  BY <1>3, <1>4, <1>5
<1> HIDE DEF d, t, y
<1>7. x \div d = q /\ x % d = t
  BY <1>6, <1>2, Unique
<1> QED
  BY <1>7 DEF d, t, q, r, s, y

(* Cutting off digits above does not change those below. *)
LEMMA CutAbove ==
  ASSUME NEW x \in Nat, NEW a \in Nat \ {0}, NEW b \in Nat \ {0}
  PROVE  /\ (x % (a * b)) \div a = (x \div a) % b
         /\ (x % (a * b)) % a = x % a
<1> DEFINE r == (x \div a) % b
           s == x % a
<1>1. x \div a \in Nat /\ s \in 0 .. a - 1
  BY DivMod
<1>2. r \in Nat
  BY <1>1, DivMod
<1>3. x % (a * b) = a * r + s
  BY DivDiv
<1> HIDE DEF r, s
<1>4. (a * r + s) \div a = r /\ (a * r + s) % a = s
  BY <1>1, <1>2, Unique
<1> QED
  BY <1>3, <1>4 DEF r, s

(* A number below d is its own remainder, and its quotient is zero.        *)
LEMMA Below ==
  ASSUME NEW d \in Nat \ {0}, NEW x \in 0 .. d - 1
  PROVE  x \div d = 0 /\ x % d = x
<1>1. x = d * 0 + x
  OBVIOUS
<1> QED
  BY <1>1, Unique

(* A quotient is below b when the number is below a * b. *)
LEMMA QuotientBelow ==
  ASSUME NEW x \in Nat, NEW a \in Nat \ {0}, NEW b \in Nat \ {0}, x < a * b
  PROVE  x \div a \in 0 .. b - 1
<1>1. x \div a \in Nat /\ x % a \in 0 .. a - 1 /\ x = a * (x \div a) + (x % a)
  BY DivMod
<1> DEFINE q == x \div a
<1> HIDE DEF q
<1>2. SUFFICES ASSUME q >= b PROVE FALSE
  BY <1>1 DEF q
<1>3. a * (q - b) \in Nat /\ a * (q - b) = a * q - a * b
  BY <1>1, <1>2 DEF q
<1>4. x >= a * q
  BY <1>1 DEF q
<1> QED
  BY <1>3, <1>4, <1>1 DEF q

(* Multiples of d: a positive one is not below d, and taking d away leaves *)
(* a multiple.                                                             *)
LEMMA Multiples ==
  ASSUME NEW x \in Nat \ {0}, NEW d \in Nat \ {0}, x % d = 0
  PROVE  x >= d /\ (x - d) % d = 0
<1>1. x \div d \in Nat /\ x = d * (x \div d)
  BY DivMod
<1>2. PICK p \in Int : p = (x \div d) - 1
  BY <1>1
<1>3. p >= 0
  <2>1. x \div d # 0
    BY <1>1
  <2> QED
    BY <2>1, <1>1, <1>2
<1>4. x - d = d * p + 0 /\ d * p >= 0
  <2>1. d * (p + 1) = d * p + d /\ d * p >= 0
    BY <1>3
  <2> QED
    BY <2>1, <1>1, <1>2
<1>5. (d * p + 0) % d = 0
  <2>1. 0 \in 0 .. d - 1
    OBVIOUS
  <2> QED
    BY <2>1, Unique
<1> QED
  BY <1>4, <1>5

------------------------------------------------------------------------------
(* The powers of two that the model is given. *)
Exponents == 0 .. ByteBits * (MaxLen + 1)

(* The equations of Pow2.                                                  *)
LEMMA Powers ==
  /\ \A j \in Exponents : Pow2[j] \in Nat \ {0}
  /\ Pow2[0] = 1 /\ Pow2[1] = 2
  /\ \A j, h \in Exponents : j + h \in Exponents => Pow2[j + h] = Pow2[j] * Pow2[h]
  BY Pow2Assumption DEF Exponents

(* A sum of exponents is a product of powers.                              *)
LEMMA PowersGrow ==
  ASSUME NEW j \in Exponents, NEW h \in Exponents, j <= h
  PROVE  Pow2[j] <= Pow2[h]
<1>1. ByteBits * (MaxLen + 1) \in Nat
  BY SizesAssumption
<1>2. h - j \in Exponents /\ j + (h - j) = h
  BY <1>1 DEF Exponents
<1>3. Pow2[h] = Pow2[j] * Pow2[h - j] /\ Pow2[j] \in Nat \ {0} /\ Pow2[h - j] \in Nat \ {0}
  BY <1>2, Powers
<1>4. \A a, b \in Nat \ {0} : a <= a * b
  <2> TAKE a, b \in Nat \ {0}
  <2>1. a * (b - 1) >= 0 /\ a * (b - 1) = a * b - a
    OBVIOUS
  <2> QED
    BY <2>1
<1> QED
  BY <1>3, <1>4

(* The powers of smaller exponents are not greater.                        *)
LEMMA SmallerExponents ==
  ASSUME NEW h \in Exponents, NEW j \in 0 .. h
  PROVE  j \in Exponents
<1>1. ByteBits * (MaxLen + 1) \in Nat
  BY SizesAssumption
<1> QED
  BY <1>1 DEF Exponents

(* The bits of an exponent, of the longest one, and of a byte more.        *)
LEMMA ExpSizes ==
  ASSUME NEW n \in 0 .. MaxLen
  PROVE  /\ n * ByteBits \in Nat /\ n * ByteBits \in Exponents
         /\ n * ByteBits + ByteBits \in Exponents
         /\ ByteBits \in Exponents /\ 2 * ByteBits \in Exponents
         /\ n # 0 => n * ByteBits >= ByteBits
<1>1. ByteBits \in Nat \ {0} /\ MaxLen \in Nat \ {0}
  BY SizesAssumption
<1>2. ByteBits * (MaxLen - n) >= 0 /\ ByteBits * (MaxLen - n) = ByteBits * MaxLen - n * ByteBits
  BY <1>1
<1>3. n * ByteBits >= 0 /\ n * ByteBits \in Int
  BY <1>1
<1>4. ByteBits * (MaxLen - 1) >= 0 /\ ByteBits * (MaxLen - 1) = ByteBits * MaxLen - ByteBits
  BY <1>1
<1>5. ByteBits * (MaxLen + 1) = ByteBits * MaxLen + ByteBits
  BY <1>1
<1>6. n # 0 => (n - 1) * ByteBits >= 0 /\ (n - 1) * ByteBits = n * ByteBits - ByteBits
  BY <1>1
<1> DEFINE x == n * ByteBits
           y == ByteBits * MaxLen
<1> HIDE DEF x, y
<1>7. x \in Nat /\ x <= y /\ ByteBits <= y /\ y \in Int
  BY <1>1, <1>2, <1>3, <1>4 DEF x, y
<1>8. n # 0 => x >= ByteBits
  BY <1>6, <1>3, <1>1 DEF x
<1>9. Exponents = 0 .. y + ByteBits
  BY <1>5 DEF Exponents, y
<1> QED
  BY <1>7, <1>8, <1>9, <1>1 DEF x

------------------------------------------------------------------------------
(* A window cut out of two adjacent bytes is w bits of the exponent, also  *)
(* when it begins in the byte that is always zero, before the first one.   *)
LEMMA IndexIsExact ==
  ASSUME len \in 0 .. MaxLen, exponent \in 0 .. Pow2[ByteBits * len] - 1,
         window \in 1 .. ByteBits, NEW end \in window .. ebits
  PROVE  Index(end) = (exponent \div Pow2[ebits - end]) % Pow2[window]
<1>1. ByteBits \in Nat \ {0} /\ MaxLen \in Nat \ {0}
  BY SizesAssumption
<1> DEFINE off == (end - 1) \div ByteBits
           s == (end - 1) % ByteBits
           rest == ByteBits - 1 - s
<1>2. off \in Nat /\ s \in 0 .. ByteBits - 1 /\ end - 1 = ByteBits * off + s
  <2>1. end - 1 \in Nat
    OBVIOUS
  <2> QED
    BY <2>1, <1>1, DivMod
<1> HIDE DEF off, s
<1>3. off + 1 \in 1 .. len
  <2>1. ByteBits * off < ByteBits * len
    BY <1>1, <1>2 DEF ebits
  <2>2. off >= len => ByteBits * (off - len) >= 0 /\ ByteBits * (off - len) = ByteBits * off - ByteBits * len
    BY <1>1, <1>2
  <2> QED
    BY <2>1, <2>2, <1>2, <1>1
<1> DEFINE above == ByteBits * (len - (off + 1))
           c == len - (off + 1)
<1>4. c \in 0 .. MaxLen /\ above = c * ByteBits
  BY <1>2, <1>3, <1>1
<1>5. above \in Exponents /\ above + ByteBits \in Exponents /\ above \in Nat
  BY <1>4, ExpSizes
<1>6. /\ ByteBits * (len - off) = above + ByteBits
      /\ ebits - end = above + rest
      /\ rest \in 0 .. ByteBits - 1
  <2>1. ByteBits * (len - (off + 1)) = ByteBits * len - ByteBits * off - ByteBits
    BY <1>1, <1>2
  <2>2. ByteBits * (len - off) = ByteBits * len - ByteBits * off
    BY <1>1, <1>2
  <2> QED
    BY <2>1, <2>2, <1>1, <1>2 DEF ebits
<1> HIDE DEF above, c, rest
<1>7. (ebits - end) % ByteBits = rest
  <2>1. ebits - end = ByteBits * c + rest
    BY <1>4, <1>6, <1>1
  <2>2. (ByteBits * c + rest) % ByteBits = rest
    <3>1. ByteBits \in Nat \ {0} /\ c \in Int /\ rest \in 0 .. ByteBits - 1
      BY <1>4, <1>6, <1>1
    <3>2. \A d \in Nat \ {0}, q \in Int : \A r \in 0 .. d - 1 : (d * q + r) % d = r
      BY Unique
    <3> QED
      BY <3>1, <3>2
  <2> QED
    BY <2>1, <2>2
<1> DEFINE P(j) == Pow2[j]
           y == exponent \div Pow2[above]
           D == Pow2[ByteBits]
<1>8. D \in Nat \ {0} /\ Pow2[above] \in Nat \ {0} /\ y \in Nat /\ exponent \in Nat
  <2>1. D \in Nat \ {0} /\ Pow2[above] \in Nat \ {0}
    BY <1>5, <1>4, ExpSizes, Powers
  <2>2. exponent \in Nat
    OBVIOUS
  <2> QED
    BY <2>1, <2>2, DivMod
<1>9. eb(off + 1) = y % D
  BY <1>3 DEF eb, above
<1> HIDE DEF D, y
<1> DEFINE two == (eb(off) * D) + eb(off + 1)
<1>10. two % Pow2[2 * ByteBits] = y % Pow2[2 * ByteBits] /\ two \in Nat
  <2>1. Pow2[2 * ByteBits] = D * D
    <3>1. 2 * ByteBits = ByteBits + ByteBits
      BY <1>1
    <3> QED
      BY <3>1, <1>4, ExpSizes, Powers DEF D
  <2>2. CASE off = 0
    <3>1. eb(off) = 0
      BY <2>2 DEF eb
    <3>2. y \in 0 .. D - 1
      <4>1. above + ByteBits = ByteBits * len
        BY <2>2, <1>6, <1>1
      <4>2. Pow2[ByteBits * len] = Pow2[above] * D
        BY <4>1, <1>5, <1>4, ExpSizes, Powers DEF D
      <4> QED
        BY <4>2, <1>8, QuotientBelow DEF y
    <3>3. eb(off + 1) = y
      BY <3>2, <1>9, <1>8, Below
    <3>4. two = y
      BY <3>1, <3>3, <1>8
    <3> QED
      BY <3>4, <1>8
  <2>3. CASE off # 0
    <3>1. eb(off) = (exponent \div Pow2[above + ByteBits]) % D
      BY <2>3, <1>2, <1>3, <1>6 DEF eb, D
    <3>2. exponent \div Pow2[above + ByteBits] = y \div D
      <4>1. Pow2[above + ByteBits] = Pow2[above] * D
        BY <1>5, <1>4, ExpSizes, Powers DEF D
      <4>2. (exponent \div Pow2[above]) \div D = exponent \div (Pow2[above] * D)
        BY <1>8, DivDiv
      <4> QED
        BY <4>1, <4>2 DEF y
    <3>3. two = y % (D * D)
      <4>1. y % (D * D) = D * ((y \div D) % D) + (y % D)
        BY <1>8, DivDiv
      <4>2. (y \div D) % D \in Nat /\ y % D \in Nat
        BY <1>8, DivMod
      <4> QED
        BY <4>1, <4>2, <3>1, <3>2, <1>9, <1>8
    <3>4. D * D \in Nat \ {0}
      BY <1>8
    <3>5. y % (D * D) \in 0 .. (D * D) - 1
      BY <3>4, <1>8, DivMod
    <3> QED
      BY <3>3, <3>4, <3>5, <2>1, Below
  <2> QED
    BY <2>2, <2>3
<1> DEFINE low == Pow2[rest]
           high == Pow2[ByteBits + 1 + s]
           mid == Pow2[ByteBits + 1 + s - window]
           F == Pow2[window]
<1>11. /\ low \in Nat \ {0} /\ high \in Nat \ {0} /\ mid \in Nat \ {0} /\ F \in Nat \ {0}
       /\ Pow2[2 * ByteBits] = low * high
       /\ high = F * mid
       /\ Pow2[ebits - end] = Pow2[above] * low
  <2>1. /\ rest \in Exponents /\ ByteBits + 1 + s \in Exponents
        /\ ByteBits + 1 + s - window \in Exponents /\ window \in Exponents
        /\ rest + (ByteBits + 1 + s) = 2 * ByteBits
        /\ window + (ByteBits + 1 + s - window) = ByteBits + 1 + s
    <3>1. 2 * ByteBits \in Exponents
      BY <1>4, ExpSizes
    <3> QED
      BY <3>1, <1>1, <1>2 DEF Exponents, rest
  <2>2. ebits - end \in Exponents
    BY <1>6, <1>5, <1>1 DEF Exponents
  <2>3. Pow2[2 * ByteBits] = low * high
    BY <2>1, <1>4, ExpSizes, Powers
  <2>4. high = F * mid
    BY <2>1, Powers
  <2>5. Pow2[ebits - end] = Pow2[above] * low
    BY <2>1, <2>2, <1>6, <1>5, Powers
  <2>6. low \in Nat \ {0} /\ high \in Nat \ {0} /\ mid \in Nat \ {0} /\ F \in Nat \ {0}
    BY <2>1, Powers
  <2> HIDE DEF low, high, mid, F
  <2> QED
    BY <2>3, <2>4, <2>5, <2>6
<1> HIDE DEF low, high, mid, F, two
<1>12. Index(end) = (two \div low) % F
  BY <1>7 DEF Index, two, low, F, off, D
<1>13. \A x \in Nat : (x \div low) % F = ((x % Pow2[2 * ByteBits]) \div low) % F
  <2> TAKE x \in Nat
  <2>1. (x % (low * high)) \div low = (x \div low) % high
    BY <1>11, CutAbove
  <2>2. x \div low \in Nat
    BY <1>11, DivMod
  <2>3. ((x \div low) % (F * mid)) % F = (x \div low) % F
    BY <2>2, <1>11, CutAbove
  <2> QED
    BY <2>1, <2>3, <1>11
<1>14. (two \div low) % F = (y \div low) % F
  BY <1>13, <1>10, <1>8
<1>15. y \div low = exponent \div Pow2[ebits - end]
  <2>1. (exponent \div Pow2[above]) \div low = exponent \div (Pow2[above] * low)
    BY <1>8, <1>11, DivDiv
  <2> QED
    BY <2>1, <1>11 DEF y
<1> QED
  BY <1>12, <1>14, <1>15 DEF F

------------------------------------------------------------------------------
(* What the type invariant says of the sizes in terms of the constants.    *)
LEMMA StateFacts ==
  ASSUME ExpTypeOK
  PROVE  /\ len \in 0 .. MaxLen /\ window \in 1 .. ByteBits
         /\ ebits \in Nat /\ ebits = ByteBits * len
         /\ \A j \in 0 .. ebits : j \in Exponents
         /\ \A j \in 0 .. ByteBits : j \in Exponents
         /\ exponent \in Nat /\ exponent < Pow2[ebits]
         /\ Pow2[window] \in Nat \ {0}
<1>1. ByteBits \in Nat \ {0} /\ MaxLen \in Nat \ {0}
      /\ Lengths \subseteq 0 .. MaxLen /\ Windows \subseteq 1 .. ByteBits
  BY SizesAssumption
<1>2. len \in 0 .. MaxLen /\ window \in 1 .. ByteBits
  BY <1>1 DEF ExpTypeOK
<1>3. ebits \in Nat /\ ebits = ByteBits * len /\ ebits \in Exponents
  BY <1>1, <1>2, ExpSizes DEF ebits
<1>4. ByteBits \in Exponents
  BY <1>2, ExpSizes
<1>5. \A j \in 0 .. ebits : j \in Exponents
  BY <1>3, SmallerExponents
<1>6. \A j \in 0 .. ByteBits : j \in Exponents
  BY <1>4, SmallerExponents
<1>7. Pow2[window] \in Nat \ {0} /\ Pow2[ebits] \in Nat \ {0}
  BY <1>2, <1>6, <1>3, Powers
<1>8. exponent \in Nat /\ exponent < Pow2[ebits]
  BY <1>3, <1>7 DEF ExpTypeOK
<1> QED
  BY <1>2, <1>3, <1>5, <1>6, <1>7, <1>8

(* Nothing has happened yet. *)
LEMMA InitIInv == ExpInit => IInv
<1> SUFFICES ASSUME ExpInit PROVE IInv
  OBVIOUS
<1>1. Pow2[0] = 1 /\ Pow2[1] = 2
  BY Powers
<1>2. ByteBits * len = 0 /\ ebits = 0
  BY SizesAssumption DEF ExpInit, ebits
<1>3. ExpTypeOK
  BY <1>1, <1>2 DEF ExpInit, ExpTypeOK
<1>4. IdleIsClear /\ TableHolds /\ PrefixPower /\ WindowsFit
  BY DEF ExpInit, IdleIsClear, TableHolds, PrefixPower, WindowsFit
<1> QED
  BY <1>3, <1>4 DEF IInv

(* A call begins with an empty table and no bit read.                      *)
LEMMA CallIInv == IInv /\ Call => IInv'
<1> SUFFICES ASSUME IInv, Call PROVE IInv'
  OBVIOUS
<1>1. filled = 0 /\ read = 0 /\ trd = 0
  BY DEF IInv, IdleIsClear, Call
<1>2. len' \in 0 .. MaxLen /\ window' \in 1 .. ByteBits
  BY SizesAssumption DEF Call
<1>3. window' \in Exponents /\ ebits' \in Nat
  <2>1. ByteBits \in Exponents /\ len' * ByteBits \in Nat
    BY <1>2, ExpSizes
  <2>2. window' \in 0 .. ByteBits
    BY <1>2, SizesAssumption
  <2> QED
    BY <2>1, <2>2, SmallerExponents DEF ebits
<1>4. Pow2[window'] \in Nat
  BY <1>3, Powers
<1>5. at' \in {"aborted", "table"}
  BY DEF Call
<1>6. ExpTypeOK'
  <2>1. filled' \in 0 .. Pow2[window'] /\ read' \in 0 .. ebits' /\ trd' \in Nat
    BY <1>1, <1>3, <1>4 DEF Call
  <2>2. /\ asserts' \in Builds /\ len' \in Lengths \cup {0}
        /\ exponent' \in 0 .. Pow2[ByteBits * len'] - 1 /\ window' \in Windows \cup {1}
    BY DEF IInv, ExpTypeOK, Call
  <2> QED
    BY <2>1, <2>2, <1>5 DEF ExpTypeOK
<1>7. TableHolds'
  BY <1>1, <1>5 DEF Call, TableHolds
<1>8. IdleIsClear' /\ PrefixPower' /\ WindowsFit'
  BY <1>5 DEF IdleIsClear, PrefixPower, WindowsFit
<1> QED
  BY <1>6, <1>7, <1>8 DEF IInv

(* The next power of the base is written above the ones that are there.    *)
LEMMA FillTableIInv == IInv /\ FillTable => IInv'
<1> SUFFICES ASSUME IInv, FillTable PROVE IInv'
  OBVIOUS
<1>1. Pow2[window] \in Nat \ {0}
  BY StateFacts DEF IInv
<1>2. ExpTypeOK'
  BY <1>1 DEF IInv, ExpTypeOK, FillTable, ebits
<1>3. TableHolds'
  <2>1. DOMAIN table' = 0 .. Pow2[window]
    BY DEF IInv, TableHolds, FillTable
  <2>2. \A j \in 0 .. filled : table'[j] = j
    <3> TAKE j \in 0 .. filled
    <3>1. filled \in 0 .. Pow2[window] - 1
      BY <1>1 DEF IInv, ExpTypeOK, FillTable
    <3>2. \A h \in 0 .. filled - 1 : table[h] = h
      BY DEF IInv, TableHolds, FillTable
    <3>3. CASE j = filled
      BY <3>1, <3>2, <3>3, <1>1 DEF IInv, TableHolds, FillTable
    <3>4. CASE j # filled
      BY <3>1, <3>2, <3>4, <1>1 DEF IInv, TableHolds, FillTable
    <3> QED
      BY <3>3, <3>4
  <2>3. filled' = filled + 1 /\ window' = window /\ at' = "table" /\ filled \in Nat
    BY <1>1 DEF FillTable, IInv, ExpTypeOK
  <2> QED
    BY <2>1, <2>2, <2>3 DEF TableHolds
<1>4. IdleIsClear' /\ PrefixPower' /\ WindowsFit'
  BY DEF FillTable, IdleIsClear, PrefixPower, WindowsFit
<1> QED
  BY <1>2, <1>3, <1>4 DEF IInv

(* A window is an index into the table, which holds that power.            *)
LEMMA SelectIsIndex ==
  ASSUME TableHolds, at \in {"table", "loop"}, filled = Pow2[window], Pow2[window] \in Nat \ {0},
         NEW x \in 0 .. Pow2[window] - 1
  PROVE  Select(x) = x
  BY DEF TableHolds, Select

(* The first window is what is left over when the others are cut off.      *)
LEMMA FirstWindowIInv == IInv /\ FirstWindow => IInv'
<1> SUFFICES ASSUME IInv, FirstWindow PROVE IInv'
  OBVIOUS
<1> DEFINE r == ebits % window
<1>1. /\ len \in 0 .. MaxLen /\ window \in 1 .. ByteBits
      /\ ebits \in Nat /\ ebits = ByteBits * len
      /\ \A j \in 0 .. ebits : j \in Exponents
      /\ \A j \in 0 .. ByteBits : j \in Exponents
      /\ exponent \in Nat /\ exponent < Pow2[ebits]
      /\ Pow2[window] \in Nat \ {0}
  BY StateFacts DEF IInv
<1>2. ByteBits \in Nat \ {0}
  BY SizesAssumption
<1>3. r \in 0 .. window - 1 /\ r <= ebits /\ (ebits - r) % window = 0
  <2>1. ebits \div window \in Nat /\ r \in 0 .. window - 1 /\ ebits = window * (ebits \div window) + r
    <3>1. ebits \in Nat /\ window \in Nat \ {0}
      BY <1>1
    <3> QED
      BY <3>1, DivMod
  <2>2. PICK q \in Nat : q = ebits \div window
    BY <2>1
  <2> HIDE DEF r
  <2>3. window * q \in Nat /\ ebits - r = window * q + 0
    BY <2>1, <2>2, <1>1
  <2>4. (window * q + 0) % window = 0
    <3>1. window \in Nat \ {0} /\ 0 \in 0 .. window - 1
      BY <1>1
    <3> QED
      BY <3>1, Unique
  <2> QED
    BY <2>1, <2>3, <2>4, <1>1
<1> DEFINE x == eb(1) \div Pow2[ByteBits - r]
<1> HIDE DEF r
<1>4. x = exponent \div Pow2[ebits - r] /\ x \in 0 .. Pow2[r] - 1
  <2>1. /\ Pow2[ByteBits - r] \in Nat \ {0} /\ Pow2[r] \in Nat \ {0}
        /\ Pow2[ebits - r] \in Nat \ {0}
        /\ ebits - r \in Exponents /\ r \in Exponents /\ ByteBits - r \in Exponents
    <3>1. ebits - r \in 0 .. ebits /\ r \in 0 .. ByteBits /\ ByteBits - r \in 0 .. ByteBits
      BY <1>1, <1>2, <1>3
    <3> QED
      BY <3>1, <1>1, Powers
  <2>2. exponent \div Pow2[ebits - r] \in 0 .. Pow2[r] - 1
    <3>1. Pow2[ebits] = Pow2[ebits - r] * Pow2[r]
      <4>1. (ebits - r) + r = ebits
        BY <1>1, <1>3
      <4>2. ebits \in Exponents
        BY <1>1
      <4> QED
        BY <2>1, <4>1, <4>2, Powers
    <3> QED
      BY <3>1, <2>1, <1>1, QuotientBelow
  <2>3. CASE len = 0
    <3>1. eb(1) = 0 /\ ebits = 0 /\ exponent = 0 /\ r = 0
      BY <2>3, <1>1, <1>2, <1>3, Powers DEF eb
    <3>2. 0 \div Pow2[ByteBits - r] = 0 /\ 0 \div Pow2[ebits - r] = 0
      BY <2>1, Below
    <3> QED
      BY <3>1, <3>2, <2>2
  <2>4. CASE len # 0
    <3> DEFINE top == ByteBits * (len - 1)
    <3>1. top + ByteBits = ebits /\ top \in 0 .. ebits
      <4>1. top = ByteBits * len - ByteBits
        BY <1>1, <1>2
      <4>2. top >= 0
        BY <2>4, <1>1, <1>2
      <4> QED
        BY <4>1, <4>2, <1>1, <1>2
    <3> HIDE DEF top
    <3>2. /\ Pow2[ebits] = Pow2[top] * Pow2[ByteBits]
          /\ Pow2[ebits - r] = Pow2[top] * Pow2[ByteBits - r]
          /\ Pow2[top] \in Nat \ {0} /\ Pow2[ByteBits] \in Nat \ {0}
      <4>1. top \in Exponents /\ ByteBits \in Exponents /\ ebits \in Exponents
        BY <3>1, <1>1, <1>2
      <4>2. top + (ByteBits - r) = ebits - r
        BY <3>1, <1>1, <1>2, <1>3
      <4>3. Pow2[ebits] = Pow2[top] * Pow2[ByteBits]
        BY <4>1, <3>1, Powers
      <4>4. Pow2[ebits - r] = Pow2[top] * Pow2[ByteBits - r]
        BY <4>1, <4>2, <2>1, Powers
      <4> QED
        BY <4>1, <4>3, <4>4, Powers
    <3>3. eb(1) = exponent \div Pow2[top]
      <4>1. eb(1) = (exponent \div Pow2[top]) % Pow2[ByteBits]
        BY <2>4, <1>1 DEF eb, top
      <4>2. exponent \div Pow2[top] \in 0 .. Pow2[ByteBits] - 1
        BY <3>2, <1>1, QuotientBelow
      <4> QED
        BY <4>1, <4>2, <3>2, Below
    <3>4. (exponent \div Pow2[top]) \div Pow2[ByteBits - r] = exponent \div (Pow2[top] * Pow2[ByteBits - r])
      <4>1. exponent \in Nat /\ Pow2[top] \in Nat \ {0} /\ Pow2[ByteBits - r] \in Nat \ {0}
        BY <3>2, <2>1, <1>1
      <4> QED
        BY <4>1, DivDiv
    <3> QED
      BY <3>2, <3>3, <3>4, <2>2
  <2> QED
    BY <2>3, <2>4
<1>5. x \in 0 .. Pow2[window] - 1
  <2>1. Pow2[r] <= Pow2[window] /\ Pow2[r] \in Nat
    <3>1. r \in Exponents /\ window \in Exponents /\ r <= window
      BY <1>1, <1>3
    <3> QED
      BY <3>1, PowersGrow, Powers
  <2> QED
    BY <2>1, <1>4, <1>1
<1> HIDE DEF x
<1>6. trd' = x /\ read' = r /\ at' = "loop"
      /\ UNCHANGED <<asserts, exponent, len, window, table, filled>>
  <2>1. read' = r
    BY DEF FirstWindow, r
  <2>2. trd' = Select(x)
    BY <2>1 DEF FirstWindow, x
  <2>3. Select(x) = x
    BY <1>5, <1>1, SelectIsIndex DEF FirstWindow, IInv
  <2> QED
    BY <2>1, <2>2, <2>3 DEF FirstWindow
<1>7. ebits' = ebits
  BY <1>6 DEF ebits
<1>8. ExpTypeOK'
  BY <1>6, <1>7, <1>3, <1>5, <1>1 DEF IInv, ExpTypeOK
<1>9. TableHolds'
  BY <1>6 DEF IInv, TableHolds, FirstWindow
<1>10. PrefixPower'
  BY <1>4, <1>6, <1>7 DEF PrefixPower
<1>11. IdleIsClear' /\ WindowsFit'
  BY <1>3, <1>6, <1>7 DEF IdleIsClear, WindowsFit
<1> QED
  BY <1>8, <1>9, <1>10, <1>11 DEF IInv

(* w squarings make room for the next w bits of the exponent.              *)
LEMMA WindowIInv == IInv /\ Window => IInv'
<1> SUFFICES ASSUME IInv, Window PROVE IInv'
  OBVIOUS
<1>1. /\ len \in 0 .. MaxLen /\ window \in 1 .. ByteBits
      /\ ebits \in Nat /\ ebits = ByteBits * len
      /\ \A j \in 0 .. ebits : j \in Exponents
      /\ \A j \in 0 .. ByteBits : j \in Exponents
      /\ exponent \in Nat /\ exponent < Pow2[ebits]
      /\ Pow2[window] \in Nat \ {0}
  BY StateFacts DEF IInv
<1>2. read \in 0 .. ebits /\ trd \in Nat /\ at = "loop" /\ read < ebits
  BY DEF IInv, ExpTypeOK, Window
<1>3. read + window <= ebits /\ (ebits - (read + window)) % window = 0
  <2>1. ebits - read \in Nat \ {0} /\ (ebits - read) % window = 0 /\ window \in Nat \ {0}
    BY <1>1, <1>2 DEF IInv, WindowsFit
  <2>2. ebits - read >= window /\ ((ebits - read) - window) % window = 0
    BY <2>1, Multiples
  <2>3. ebits - (read + window) = (ebits - read) - window
    BY <1>1, <1>2
  <2> QED
    BY <2>2, <2>3, <1>1, <1>2
<1> DEFINE z == exponent \div Pow2[ebits - (read + window)]
           F == Pow2[window]
<1>4. /\ ebits - (read + window) \in Exponents /\ window \in Exponents /\ ebits - read \in Exponents
      /\ Pow2[ebits - (read + window)] \in Nat \ {0}
      /\ Pow2[ebits - read] = Pow2[ebits - (read + window)] * F
  <2>1. ebits - (read + window) \in 0 .. ebits /\ ebits - read \in 0 .. ebits
        /\ (ebits - (read + window)) + window = ebits - read /\ window \in 0 .. ByteBits
    BY <1>1, <1>2, <1>3
  <2>2. ebits - (read + window) \in Exponents /\ window \in Exponents /\ ebits - read \in Exponents
    BY <2>1, <1>1
  <2>3. Pow2[ebits - (read + window)] \in Nat \ {0}
    BY <2>2, Powers
  <2>4. Pow2[ebits - read] = Pow2[ebits - (read + window)] * F
    BY <2>1, <2>2, Powers
  <2> QED
    BY <2>2, <2>3, <2>4
<1>5. z \in Nat
  BY <1>1, <1>4, DivMod
<1>6. trd = z \div F
  <2>1. trd = exponent \div Pow2[ebits - read]
    BY <1>2 DEF IInv, PrefixPower
  <2>2. (exponent \div Pow2[ebits - (read + window)]) \div F = exponent \div (Pow2[ebits - (read + window)] * F)
    BY <1>1, <1>4, DivDiv
  <2> QED
    BY <2>1, <2>2, <1>4
<1>7. Index(read + window) = z % F
  <2>1. read + window \in window .. ebits
    BY <1>1, <1>2, <1>3
  <2>2. exponent \in 0 .. Pow2[ByteBits * len] - 1
    BY DEF IInv, ExpTypeOK
  <2> QED
    BY <2>1, <2>2, <1>1, IndexIsExact
<1>8. z % F \in 0 .. F - 1 /\ z = F * (z \div F) + (z % F) /\ z \div F \in Nat
  BY <1>5, <1>1, DivMod
<1>9. filled = F
  BY <1>2 DEF IInv, TableHolds
<1> HIDE DEF z, F
<1>10. Select(z % F) = z % F
  BY <1>8, <1>9, <1>1, <1>2, SelectIsIndex DEF IInv, F
<1>11. /\ read' = read + window /\ trd' = z /\ at' = "loop"
       /\ table' = [table EXCEPT ![F] = z % F]
       /\ UNCHANGED <<asserts, exponent, len, window, filled>>
  <2>1. trd' = trd * F + (z % F)
    BY <1>7, <1>10 DEF Window, F
  <2>2. trd * F = F * (z \div F)
    BY <1>6, <1>8, <1>1 DEF F
  <2>3. trd' = z
    BY <2>1, <2>2, <1>8
  <2>4. table' = [table EXCEPT ![F] = z % F]
    BY <1>7, <1>10 DEF Window, F
  <2> QED
    BY <2>3, <2>4 DEF Window
<1>12. ebits' = ebits
  BY <1>11 DEF ebits
<1>13. ExpTypeOK'
  <2>1. read' \in 0 .. ebits' /\ trd' \in Nat
    BY <1>1, <1>2, <1>3, <1>5, <1>11, <1>12
  <2> QED
    BY <2>1, <1>11 DEF IInv, ExpTypeOK
<1>14. TableHolds'
  <2>1. DOMAIN table = 0 .. F /\ \A j \in 0 .. F - 1 : table[j] = j
    BY <1>2, <1>9 DEF IInv, TableHolds, F
  <2>2. \A j \in 0 .. F - 1 : j # F /\ j \in 0 .. F
    BY <1>1 DEF F
  <2>3. DOMAIN table' = 0 .. F /\ \A j \in 0 .. F - 1 : table'[j] = j
    BY <2>1, <2>2, <1>11
  <2> QED
    BY <2>3, <1>9, <1>11 DEF TableHolds, F
<1>15. PrefixPower'
  BY <1>11, <1>12 DEF PrefixPower, z
<1>16. IdleIsClear' /\ WindowsFit'
  BY <1>3, <1>11, <1>12 DEF IdleIsClear, WindowsFit
<1> QED
  BY <1>13, <1>14, <1>15, <1>16 DEF IInv

(* The last window ends with the exponent.                                 *)
LEMMA FinishIInv == IInv /\ Finish => IInv'
<1> SUFFICES ASSUME IInv, Finish PROVE IInv'
  OBVIOUS
<1>1. read = ebits
  BY StateFacts DEF IInv, ExpTypeOK, Finish
<1>2. at = "loop" /\ at' = "done" /\ UNCHANGED <<asserts, exponent, len, window, table, filled, read, trd>>
  BY DEF Finish
<1>3. ebits' = ebits
  BY <1>2 DEF ebits
<1>4. ExpTypeOK'
  BY <1>2, <1>3 DEF IInv, ExpTypeOK
<1>5. TableHolds'
  BY <1>2 DEF IInv, TableHolds
<1>6. PrefixPower'
  BY <1>2, <1>3 DEF IInv, PrefixPower
<1>7. IdleIsClear' /\ WindowsFit'
  BY <1>1, <1>2, <1>3 DEF IdleIsClear, WindowsFit
<1> QED
  BY <1>4, <1>5, <1>6, <1>7 DEF IInv

(* The call returns and its scratch is forgotten.                          *)
LEMMA ReturnIInv == IInv /\ Return => IInv'
<1> SUFFICES ASSUME IInv, Return PROVE IInv'
  OBVIOUS
<1>1. Pow2[0] = 1 /\ Pow2[1] = 2
  BY Powers
<1>2. (ByteBits * len)' = 0 /\ ebits' = 0
  BY SizesAssumption DEF Return, ebits
<1>3. ExpTypeOK'
  BY <1>1, <1>2 DEF IInv, Return, ExpTypeOK
<1>4. IdleIsClear' /\ TableHolds' /\ PrefixPower' /\ WindowsFit'
  BY DEF Return, IdleIsClear, TableHolds, PrefixPower, WindowsFit
<1> QED
  BY <1>3, <1>4 DEF IInv

------------------------------------------------------------------------------
(* The accumulator is the base to the bits read so far, the table holds    *)
(* the powers, and the windows fit the bits that are left, always.         *)
THEOREM InductiveInvariant == ExpSpec => []IInv
<1>1. IInv /\ [ExpNext]_expVars => IInv'
  <2> SUFFICES ASSUME IInv, [ExpNext]_expVars PROVE IInv'
    OBVIOUS
  <2>1. CASE UNCHANGED expVars
    BY <2>1 DEF expVars, IInv, ExpTypeOK, IdleIsClear, TableHolds, PrefixPower, WindowsFit, ebits
  <2> QED
    BY <2>1, CallIInv, FillTableIInv, FirstWindowIInv, WindowIInv, FinishIInv, ReturnIInv
       DEF ExpNext, Dead
<1> QED
  BY InitIInv, <1>1, PTL DEF ExpSpec

(* ll_u256_mont_exp returns the base to the exponent, whatever the length  *)
(* of the exponent and the size of the windows.                            *)
THEOREM ExactPower == ExpSpec => []PowerIsExact
<1>1. IInv => PowerIsExact
  <2> SUFFICES ASSUME IInv, at = "done" PROVE trd = exponent
    BY DEF PowerIsExact
  <2>1. exponent \in Nat /\ ebits \in Nat
    BY StateFacts DEF IInv
  <2>2. trd = exponent \div Pow2[0]
    BY <2>1 DEF IInv, PrefixPower, WindowsFit
  <2>3. exponent \div 1 = exponent
    BY <2>1
  <2> QED
    BY <2>2, <2>3, Powers
<1> QED
  BY <1>1, InductiveInvariant, PTL

------------------------------------------------------------------------------
(***************************************************************************)
(* Lehmer.  The argument, in the order of what follows:                    *)
(*   - arithmetic, powers, limb counts and leading limbs;                  *)
(*   - Shape: the types, and that every count and size fits its array;     *)
(*   - the simulation on leading limbs collects only quotients that are    *)
(*     right for every pair of operands with these leading limbs           *)
(*     (FirstPhase and SecondPhase), so a matrix applied to the            *)
(*     whole operands leaves no negative remainder and no limb too many    *)
(*     (Leads, Applied);                                                   *)
(*   - Inner: the remainders, cofactors and signs belong together (Linked) *)
(*     and stay in bounds (Sizes, Units), in every stage of a call;        *)
(*   - LehmerIInv, the invariant, and the theorems that follow from it;    *)
(*   - every step is a step of Euclid or a stutter.                        *)
(***************************************************************************)

(* A set of numbers that is not empty has a least element.                 *)
LEMMA Least ==
  ASSUME NEW T, T \subseteq Nat, T # {}
  PROVE  \E m \in T : \A k \in T : m <= k
<1>1. IsWellFoundedOn(OpToRel(<, Nat), Nat)
  BY NatLessThanWellFounded
<1>2. PICK m \in T : \A k \in T : ~(<<k, m>> \in OpToRel(<, Nat))
  BY <1>1, WFMin
<1>3. \A k \in T : ~(k < m)
  BY <1>2 DEF OpToRel
<1> QED
  BY <1>3

(* A set that has 0 and with a number the next one has them all.           *)
LEMMA Induction ==
  ASSUME NEW T, 0 \in T, \A n \in Nat : n \in T => n + 1 \in T
  PROVE  Nat \subseteq T
<1> SUFFICES ASSUME Nat \ T # {} PROVE FALSE
  OBVIOUS
<1>1. PICK m \in Nat \ T : \A k \in Nat \ T : m <= k
  BY Least
<1>2. m - 1 \in Nat /\ m - 1 \in T
  BY <1>1
<1> QED
  BY <1>1, <1>2

(* The same for the numbers up to a bound.                                 *)
LEMMA InductionTo ==
  ASSUME NEW n \in Nat, NEW T, 0 \in T, \A k \in 0 .. n - 1 : k \in T => k + 1 \in T
  PROVE  0 .. n \subseteq T
<1> DEFINE S == {k \in Nat : k <= n => k \in T}
<1>1. 0 \in S
  OBVIOUS
<1>2. \A k \in Nat : k \in S => k + 1 \in S
  OBVIOUS
<1>3. Nat \subseteq S
  <2> HIDE DEF S
  <2> QED
    BY <1>1, <1>2, Induction
<1> QED
  BY <1>3

(* The numbers of limbs in use: two more than the longest operand has.     *)
Limits == 0 .. MaxLimbs + 2

(* The powers of two up to the base: sums of exponents.                    *)
LEMMA TwoPowers ==
  /\ W \in Nat
  /\ \A c \in 0 .. W : 2^c \in Nat \ {0}
  /\ \A c \in 0 .. W - 1 : 2^(c + 1) = 2 * 2^c
<1>1. W \in Nat /\ 2^0 = 1 /\ \A s \in 0 .. W - 1 : 2^(s + 1) = 2 * 2^s
  BY WidthAssumption, PowersAssumption
<1> DEFINE f == [c \in 0 .. W |-> 2^c]
           T == {c \in 0 .. W : f[c] \in Nat \ {0}}
<1>2. f[0] = 1 /\ \A s \in 0 .. W - 1 : f[s + 1] = 2 * f[s]
  <2>1. \A c \in 0 .. W : f[c] = 2^c
    OBVIOUS
  <2>2. \A s \in 0 .. W - 1 : s + 1 \in 0 .. W /\ s \in 0 .. W
    BY <1>1
  <2>3. 0 \in 0 .. W
    BY <1>1
  <2> HIDE DEF f
  <2> QED
    BY <1>1, <2>1, <2>2, <2>3
<1> HIDE DEF f
<1>3. 0 \in T
  BY <1>1, <1>2
<1>4. \A c \in 0 .. W - 1 : c \in T => c + 1 \in T
  BY <1>1, <1>2
<1>5. 0 .. W \subseteq T
  <2> HIDE DEF T
  <2> QED
    BY <1>1, <1>3, <1>4, InductionTo
<1>6. \A c \in 0 .. W : f[c] \in Nat \ {0}
  BY <1>5
<1>7. \A c \in 0 .. W : f[c] = 2^c
  BY DEF f
<1> QED
  BY <1>1, <1>6, <1>7

(* The two parts of a limb that is cut at bit c.                           *)
LEMMA TwoProduct ==
  ASSUME NEW c \in 0 .. W
  PROVE  2^c \in Nat \ {0} /\ 2^(W - c) \in Nat \ {0} /\ 2^(W - c) * 2^c = B
<1> DEFINE f == [d \in 0 .. W |-> 2^d]
           T == {d \in 0 .. W : f[W - d] * f[d] = f[W]}
<1>1. /\ W \in Nat
      /\ f \in [0 .. W -> Nat \ {0}] /\ f[0] = 1
      /\ \A s \in 0 .. W - 1 : f[s + 1] = 2 * f[s]
  <2>1. \A d \in 0 .. W : f[d] = 2^d
    OBVIOUS
  <2>2. \A d \in 0 .. W : 2^d \in Nat \ {0}
    BY TwoPowers
  <2>3. f \in [0 .. W -> Nat \ {0}]
    BY <2>2
  <2>4. W \in Nat /\ 2^0 = 1 /\ \A s \in 0 .. W - 1 : 2^(s + 1) = 2 * 2^s
    BY TwoPowers, PowersAssumption
  <2>5. 0 \in 0 .. W /\ \A s \in 0 .. W - 1 : s + 1 \in 0 .. W /\ s \in 0 .. W
    BY <2>4
  <2> HIDE DEF f
  <2> QED
    BY <2>1, <2>3, <2>4, <2>5
<1>2. \A d \in 0 .. W : f[d] = 2^d
  OBVIOUS
<1> HIDE DEF f
<1>3. 0 \in T
  BY <1>1
<1>4. ASSUME NEW d \in 0 .. W - 1, d \in T PROVE d + 1 \in T
  <2>1. f[W - d] * f[d] = f[W]
    BY <1>4
  <2>2. W - d - 1 \in 0 .. W - 1 /\ W - d - 1 + 1 = W - d /\ d + 1 \in 0 .. W
        /\ d \in 0 .. W /\ W - d \in 0 .. W /\ W - (d + 1) = W - d - 1 /\ W - d - 1 \in 0 .. W
    BY <1>1
  <2>3. f[W - d] = 2 * f[W - d - 1] /\ f[d + 1] = 2 * f[d]
    BY <1>1, <2>2
  <2>4. f[d] \in Nat /\ f[W - d - 1] \in Nat
    BY <1>1, <2>2
  <2> DEFINE x == f[d]  y == f[W - d - 1]
  <2>5. (2 * y) * x = y * (2 * x)
    BY <2>4
  <2>6. f[W - (d + 1)] * f[d + 1] = f[W]
    BY <2>1, <2>2, <2>3, <2>5
  <2> QED
    BY <2>2, <2>6
<1>5. 0 .. W \subseteq T
  <2> HIDE DEF T
  <2> QED
    BY <1>1, <1>3, <1>4, InductionTo
<1>6. f[W - c] * f[c] = f[W] /\ W - c \in 0 .. W /\ W \in 0 .. W
  BY <1>1, <1>5
<1>7. f[W - c] = 2^(W - c) /\ f[c] = 2^c /\ f[W] = 2^W
  BY <1>2, <1>6
<1> QED
  BY <1>1, <1>6, <1>7 DEF B

(* What the assumptions say of the base and of its half width.             *)
LEMMA Bases ==
  /\ B \in Nat /\ H \in Nat /\ B = H * H /\ H >= 4 /\ B >= 16 /\ 4 * H <= B
  /\ MaxLimbs \in Nat
  /\ B^0 = 1 /\ B^1 = B /\ B^2 = B * B
<1>1. W \in Nat /\ W >= 4 /\ H \in Nat /\ B = H * H /\ MaxLimbs \in Nat
  BY WidthAssumption, PowersAssumption, OperandsAssumption
<1>2. B >= 16
  <2>1. 2^0 = 1 /\ 2^1 = 2 * 2^0 /\ 2^2 = 2 * 2^1 /\ 2^3 = 2 * 2^2 /\ 2^4 = 2 * 2^3
    BY <1>1, PowersAssumption
  <2>2. 4 \in 0 .. W
    BY <1>1
  <2>3. 2^(W - 4) \in Nat \ {0} /\ 2^(W - 4) * 2^4 = B
    BY <2>2, TwoProduct
  <2> DEFINE p == 2^(W - 4)
  <2>4. p \in Nat /\ p >= 1 /\ p * 16 = B
    BY <2>1, <2>3
  <2> HIDE DEF p
  <2> QED
    BY <2>4
<1>3. H >= 4
  <2> SUFFICES ASSUME H <= 3 PROVE FALSE
    BY <1>1
  <2>1. H \in 0 .. 3
    BY <1>1
  <2> HIDE DEF H, B
  <2>2. H = 0 \/ H = 1 \/ H = 2 \/ H = 3
    BY <2>1
  <2> QED
    BY <1>1, <1>2, <2>2
<1>4. 4 * H <= B
  <2> HIDE DEF H, B
  <2>1. H * (H - 4) >= 0 /\ H * (H - 4) = H * H - 4 * H
    BY <1>1, <1>3
  <2> QED
    BY <1>1, <2>1
<1>5. B^0 = 1 /\ B^1 = B * B^0 /\ B^2 = B * B^1
  <2>1. 0 \in 0 .. MaxLimbs + 1 /\ 1 \in 0 .. MaxLimbs + 1
    BY <1>1
  <2>2. B^0 = 1 /\ B^(0 + 1) = B * B^0 /\ B^(1 + 1) = B * B^1
    BY <2>1, PowersAssumption
  <2> QED
    BY <2>2
<1>6. B \in Nat
  BY <1>1
<1> HIDE DEF B, H
<1> QED
  BY <1>1, <1>2, <1>3, <1>4, <1>5, <1>6

(* PowersAssumption for the counts in use.                                 *)
LEMMA BasePowers ==
  /\ \A j \in Limits : B^j \in Nat \ {0}
  /\ \A j \in 0 .. MaxLimbs + 1 : B^(j + 1) = B * B^j
<1>1. /\ B \in Nat \ {0} /\ MaxLimbs \in Nat /\ B^0 = 1
      /\ \A j \in 0 .. MaxLimbs + 1 : B^(j + 1) = B * B^j
  BY Bases, PowersAssumption
<1> HIDE DEF B
<1> DEFINE n == MaxLimbs + 2
           f == [c \in 0 .. n |-> B^c]
           T == {c \in 0 .. n : f[c] \in Nat \ {0}}
<1>2. n \in Nat /\ f[0] = 1 /\ \A s \in 0 .. n - 1 : f[s + 1] = B * f[s]
  <2>1. \A c \in 0 .. n : f[c] = B^c
    OBVIOUS
  <2>2. n \in Nat /\ 0 \in 0 .. n
    BY <1>1
  <2>3. \A s \in 0 .. n - 1 : s + 1 \in 0 .. n /\ s \in 0 .. n /\ s \in 0 .. MaxLimbs + 1
    BY <1>1
  <2> HIDE DEF f, n
  <2> QED
    BY <1>1, <2>1, <2>2, <2>3
<1> HIDE DEF f
<1>3. 0 \in T
  BY <1>1, <1>2
<1>4. \A c \in 0 .. n - 1 : c \in T => c + 1 \in T
  BY <1>1, <1>2
<1>5. 0 .. n \subseteq T
  <2> HIDE DEF T, n
  <2> QED
    BY <1>2, <1>3, <1>4, InductionTo
<1>6. \A c \in 0 .. n : f[c] \in Nat \ {0}
  BY <1>5
<1>7. \A c \in 0 .. n : f[c] = B^c
  BY DEF f
<1> QED
  BY <1>1, <1>6, <1>7 DEF Limits

(* A power of the base is the product of two as long as it is in use.      *)
LEMMA BaseSum ==
  ASSUME NEW j \in Nat, NEW l \in Nat, j + l \in Limits
  PROVE  B^(j + l) = B^j * B^l
<1>1. /\ \A c \in Limits : B^c \in Nat \ {0} /\ MaxLimbs \in Nat
      /\ \A c \in 0 .. MaxLimbs + 1 : B^(c + 1) = B * B^c
      /\ B \in Nat /\ B^0 = 1
  BY BasePowers, Bases
<1> HIDE DEF B
<1> DEFINE f == [c \in Limits |-> B^c]
           T == {c \in 0 .. l : f[j + c] = f[j] * f[c]}
<1>2. \A c \in 0 .. l : j + c \in Limits /\ c \in Limits
  BY <1>1 DEF Limits
<1>3. /\ f[0] = 1 /\ \A c \in Limits : f[c] \in Nat
      /\ \A c \in 0 .. MaxLimbs + 1 : f[c + 1] = B * f[c]
  BY <1>1 DEF Limits
<1>4. \A c \in Limits : f[c] = B^c
  OBVIOUS
<1> HIDE DEF f
<1>5. 0 \in T
  BY <1>2, <1>3
<1>6. ASSUME NEW c \in 0 .. l - 1, c \in T PROVE c + 1 \in T
  <2>1. f[j + c] = f[j] * f[c] /\ c \in 0 .. l /\ c + 1 \in 0 .. l
    BY <1>6
  <2>2. f[j] \in Nat /\ f[c] \in Nat /\ f[j + c] \in Nat
    BY <1>1, <1>2, <1>3, <2>1 DEF Limits
  <2>3. j + c \in 0 .. MaxLimbs + 1 /\ c \in 0 .. MaxLimbs + 1
    BY <1>1, <1>2, <1>6 DEF Limits
  <2>4. f[(j + c) + 1] = B * f[j + c] /\ f[c + 1] = B * f[c]
    BY <1>3, <2>3
  <2>5. (j + c) + 1 = j + (c + 1)
    BY <1>6
  <2> DEFINE x == f[j]  y == f[c]
  <2>6. B * (x * y) = x * (B * y)
    BY <1>1, <2>2
  <2>7. f[j + (c + 1)] = f[j] * f[c + 1]
    BY <2>1, <2>4, <2>5, <2>6
  <2> QED
    BY <2>1, <2>7
<1>7. 0 .. l \subseteq T
  <2> HIDE DEF T
  <2> QED
    BY <1>5, <1>6, InductionTo
<1>8. f[j + l] = f[j] * f[l] /\ j \in Limits /\ l \in Limits
  BY <1>1, <1>7 DEF Limits
<1> QED
  BY <1>4, <1>8

(* ... and they grow, at least by a factor of the base.                    *)
LEMMA BaseGrows ==
  ASSUME NEW j \in Limits, NEW l \in Limits
  PROVE  (j <= l => B^j <= B^l) /\ (j < l => B * B^j <= B^l)
<1>1. /\ B^j \in Nat \ {0} /\ B \in Nat /\ B >= 16 /\ j \in Nat /\ l \in Nat /\ MaxLimbs \in Nat
  BY BasePowers, Bases DEF Limits
<1>2. CASE j < l
  <2>1. j + 1 \in Limits /\ j \in 0 .. MaxLimbs + 1 /\ l - (j + 1) \in Nat /\ (j + 1) + (l - (j + 1)) = l
        /\ l - (j + 1) \in Limits
    BY <1>1, <1>2 DEF Limits
  <2>2. B^(j + 1) = B * B^j /\ B^(l - (j + 1)) \in Nat \ {0}
    BY <2>1, BasePowers
  <2>3. j + 1 \in Nat
    BY <1>1
  <2>4. B^l = B^(j + 1) * B^(l - (j + 1))
    <3> DEFINE s == j + 1  d == l - (j + 1)
    <3>1. s \in Nat /\ d \in Nat /\ s + d = l /\ s + d \in Limits
      BY <2>1, <2>3
    <3> HIDE DEF s, d
    <3>2. B^(s + d) = B^s * B^d
      BY <3>1, BaseSum
    <3>3. B^l = B^s * B^d
      BY <3>1, <3>2
    <3> QED
      BY <3>3 DEF s, d
  <2> DEFINE x == B^j  y == B^(l - (j + 1))  z == B^l
  <2>5. x \in Nat \ {0} /\ y \in Nat \ {0} /\ z = (B * x) * y
    BY <1>1, <2>2, <2>4
  <2> HIDE DEF x, y, z, B
  <2>6. (B * x) * (y - 1) >= 0 /\ (B * x) * (y - 1) = (B * x) * y - B * x
    BY <1>1, <2>5
  <2>7. B * x <= z /\ x <= B * x
    BY <1>1, <2>5, <2>6
  <2>8. B * x <= z /\ x <= z
    BY <2>5, <2>7, <1>1
  <2> QED
    BY <1>2, <2>8 DEF x, z
<1>3. CASE j = l
  BY <1>1, <1>3
<1>4. CASE j > l
  BY <1>1, <1>4
<1> QED
  BY <1>1, <1>2, <1>3, <1>4

(* Dividing again and again by d, until nothing is left: how often, for    *)
(* the numbers up to n.                                                    *)
Divisions(f, n, d) == f[0] = 0 /\ \A y \in 1 .. n : f[y] = 1 + f[y \div d]

(* A division by two or more makes a number smaller.                       *)
LEMMA Smaller ==
  ASSUME NEW d \in Nat, d >= 2, NEW y \in Nat
  PROVE  y \div d \in Nat /\ (y > 0 => y \div d < y)
<1>0. d \in Nat \ {0}
  OBVIOUS
<1>1. y \div d \in Nat /\ y % d \in 0 .. d - 1 /\ y = d * (y \div d) + (y % d)
  BY <1>0, DivMod
<1> DEFINE q == y \div d  t == y % d
<1>2. q \in Nat /\ t \in Nat /\ y = d * q + t
  BY <1>1
<1> HIDE DEF q, t
<1>3. q \in Nat /\ y >= 2 * q
  <2>1. (d - 2) * q >= 0 /\ (d - 2) * q = d * q - 2 * q
    BY <1>2
  <2> QED
    BY <1>2, <2>1
<1>4. q \in Nat /\ (y > 0 => q < y)
  BY <1>3
<1> QED
  BY <1>4 DEF q

(* Counting by divisions has one result below any bound.                   *)
LEMMA DivisionsAgree ==
  ASSUME NEW d \in Nat, d >= 2, NEW n \in Nat, NEW l \in Nat, NEW f, NEW g,
         Divisions(f, n, d), Divisions(g, l, d), n <= l
  PROVE  \A y \in 0 .. n : f[y] = g[y]
<1> DEFINE T == {y \in 0 .. n : f[y] # g[y]}
<1> SUFFICES ASSUME T # {} PROVE FALSE
  OBVIOUS
<1>1. PICK y \in T : \A z \in T : y <= z
  <2>1. T \subseteq Nat
    OBVIOUS
  <2> HIDE DEF T
  <2> QED
    BY <2>1, Least
<1>2. y \in Nat /\ y <= n /\ f[y] # g[y] /\ f[0] = g[0]
  BY <1>1 DEF Divisions
<1>3. y > 0
  BY <1>2
<1>4. y \div d \in Nat /\ y \div d < y
  BY <1>2, <1>3, Smaller
<1> DEFINE z == y \div d
<1>5. f[y] = 1 + f[z] /\ g[y] = 1 + g[z]
  <2>1. y \in 1 .. n /\ y \in 1 .. l
    BY <1>2, <1>3
  <2> QED
    BY <2>1 DEF Divisions
<1>6. z \in 0 .. n /\ z \notin T
  BY <1>1, <1>2, <1>4
<1>7. f[z] = g[z]
  BY <1>6
<1> QED
  BY <1>2, <1>5, <1>7

(* Counting by divisions has a result below every bound.                   *)
LEMMA DivisionsExist ==
  ASSUME NEW d \in Nat, d >= 2, NEW n \in Nat
  PROVE  \E f \in [0 .. n -> Nat] : Divisions(f, n, d)
<1> DEFINE T == {l \in Nat : \E f \in [0 .. l -> Nat] : Divisions(f, l, d)}
<1>1. 0 \in T
  <2> DEFINE f == [y \in 0 .. 0 |-> 0]
  <2>1. f \in [0 .. 0 -> Nat] /\ f[0] = 0 /\ 1 .. 0 = {}
    OBVIOUS
  <2> HIDE DEF f
  <2>2. Divisions(f, 0, d)
    BY <2>1 DEF Divisions
  <2> QED
    BY <2>1, <2>2
<1>2. ASSUME NEW l \in Nat, l \in T PROVE l + 1 \in T
  <2>1. PICK f \in [0 .. l -> Nat] : Divisions(f, l, d)
    BY <1>2
  <2> DEFINE q == (l + 1) \div d
  <2>2. q \in 0 .. l
    <3>1. l + 1 \in Nat /\ l + 1 > 0
      OBVIOUS
    <3>2. q \in Nat /\ q < l + 1
      BY <3>1, Smaller
    <3> HIDE DEF q
    <3> QED
      BY <3>2
  <2> DEFINE h == [y \in 0 .. l + 1 |-> IF y = l + 1 THEN 1 + f[q] ELSE f[y]]
  <2>3. \A y \in 0 .. l : h[y] = f[y]
    OBVIOUS
  <2>4. h[l + 1] = 1 + f[q]
    <3>1. l + 1 \in 0 .. l + 1
      OBVIOUS
    <3> QED
      BY <3>1
  <2>5. h \in [0 .. l + 1 -> Nat]
    <3> HIDE DEF q
    <3> QED
      BY <2>1, <2>2
  <2> HIDE DEF h
  <2>6. ASSUME NEW y \in 1 .. l + 1 PROVE h[y] = 1 + h[y \div d]
    <3>1. CASE y = l + 1
      BY <2>2, <2>3, <2>4, <3>1
    <3>2. CASE y \in 1 .. l
      <4>1. f[y] = 1 + f[y \div d]
        BY <2>1, <3>2 DEF Divisions
      <4>2. y \in Nat /\ y > 0
        BY <3>2
      <4>3. y \div d \in Nat /\ y \div d < y
        BY <4>2, Smaller
      <4> DEFINE z == y \div d
      <4>4. z \in 0 .. l /\ y \in 0 .. l
        BY <3>2, <4>3
      <4> HIDE DEF z
      <4>5. h[y] = f[y] /\ h[z] = f[z]
        BY <2>3, <4>4
      <4> QED
        BY <4>1, <4>5 DEF z
    <3> QED
      BY <3>1, <3>2
  <2>7. h[0] = 0
    <3>1. 0 \in 0 .. l
      OBVIOUS
    <3> QED
      BY <2>1, <2>3, <3>1 DEF Divisions
  <2>8. Divisions(h, l + 1, d)
    BY <2>6, <2>7 DEF Divisions
  <2> QED
    BY <2>5, <2>8
<1>3. Nat \subseteq T
  <2> HIDE DEF T
  <2> QED
    BY <1>1, <1>2, Induction
<1> QED
  BY <1>3

(* The recursive function that counts them is defined.                     *)
LEMMA CountFunction ==
  ASSUME NEW d \in Nat, d >= 2,
         NEW c, c = CHOOSE f : f = [y \in Nat |-> IF y = 0 THEN 0 ELSE 1 + f[y \div d]]
  PROVE  /\ c[0] = 0
         /\ \A y \in Nat \ {0} : c[y] = 1 + c[y \div d]
         /\ \A y \in Nat : c[y] \in Nat
<1> DEFINE Body(f) == [y \in Nat |-> IF y = 0 THEN 0 ELSE 1 + f[y \div d]]
           g(y) == CHOOSE f \in [0 .. y -> Nat] : Divisions(f, y, d)
           h == [y \in Nat |-> g(y)[y]]
<1>1. \A y \in Nat : g(y) \in [0 .. y -> Nat] /\ Divisions(g(y), y, d)
  BY DivisionsExist
<1>2. \A y \in Nat : h[y] = g(y)[y]
  OBVIOUS
<1> HIDE DEF g
<1>3. h[0] = 0
  BY <1>1, <1>2 DEF Divisions
<1>4. ASSUME NEW y \in Nat \ {0} PROVE h[y] = 1 + h[y \div d]
  <2> DEFINE z == y \div d
  <2>1. z \in Nat /\ z < y /\ y > 0
    BY Smaller
  <2> HIDE DEF z
  <2>2. Divisions(g(z), z, d) /\ Divisions(g(y), y, d) /\ z <= y
    BY <1>1, <2>1
  <2>3. \A u \in 0 .. z : g(z)[u] = g(y)[u]
    <3> DEFINE p == g(z)  q == g(y)
    <3>1. Divisions(p, z, d) /\ Divisions(q, y, d) /\ z <= y
      BY <2>2
    <3> HIDE DEF p, q
    <3>2. \A u \in 0 .. z : p[u] = q[u]
      BY <2>1, <3>1, DivisionsAgree
    <3> QED
      BY <3>2 DEF p, q
  <2>4. g(z)[z] = g(y)[z]
    BY <2>1, <2>3
  <2>5. g(y)[y] = 1 + g(y)[z]
    BY <2>1, <2>2 DEF Divisions, z
  <2>6. h[y] = g(y)[y] /\ h[z] = g(z)[z]
    BY <1>2, <2>1
  <2> HIDE DEF h
  <2>7. h[y] = 1 + h[z]
    BY <2>4, <2>5, <2>6
  <2> QED
    BY <2>7 DEF z
<1>5. h = Body(h)
  <2>1. h = [y \in Nat |-> h[y]]
    OBVIOUS
  <2> HIDE DEF h
  <2>2. \A y \in Nat : h[y] = IF y = 0 THEN 0 ELSE 1 + h[y \div d]
    BY <1>3, <1>4
  <2> QED
    BY <2>1, <2>2
<1> HIDE DEF h
<1>6. c = Body(c)
  BY <1>5
<1>7. \A y \in Nat : c[y] = IF y = 0 THEN 0 ELSE 1 + c[y \div d]
  BY <1>6
<1> HIDE DEF Body
<1>8. \A y \in Nat : c[y] \in Nat
  <2> DEFINE T == {y \in Nat : c[y] \notin Nat}
  <2> SUFFICES ASSUME T # {} PROVE FALSE
    OBVIOUS
  <2>1. PICK y \in T : \A z \in T : y <= z
    <3>1. T \subseteq Nat
      OBVIOUS
    <3> HIDE DEF T
    <3> QED
      BY <3>1, Least
  <2>2. y \in Nat /\ c[y] \notin Nat
    BY <2>1
  <2>3. y # 0
    BY <1>7, <2>2
  <2> DEFINE z == y \div d
  <2>4. z \in Nat /\ z < y /\ y > 0
    BY <2>2, <2>3, Smaller
  <2>5. c[y] = 1 + c[z]
    BY <1>7, <2>2, <2>3
  <2> HIDE DEF z
  <2>6. z \notin T
    BY <2>1, <2>2, <2>4
  <2>7. c[z] \in Nat
    BY <2>4, <2>6
  <2> QED
    BY <2>2, <2>5, <2>7
<1> QED
  BY <1>7, <1>8

(* The equations of LimbCount.                                             *)
LEMMA LimbCountIs ==
  /\ LimbCount(0) = 0
  /\ \A x \in Nat \ {0} : LimbCount(x) = 1 + LimbCount(x \div B)
  /\ \A x \in Nat : LimbCount(x) \in Nat
<1> DEFINE c == CHOOSE f : f = [y \in Nat |-> IF y = 0 THEN 0 ELSE 1 + f[y \div B]]
<1>1. \A x : LimbCount(x) = c[x]
  BY DEF LimbCount
<1>2. B \in Nat /\ B >= 2
  BY Bases
<1>3. /\ c[0] = 0
      /\ \A y \in Nat \ {0} : c[y] = 1 + c[y \div B]
      /\ \A y \in Nat : c[y] \in Nat
  <2> HIDE DEF B
  <2> QED
    BY <1>2, CountFunction
<1> HIDE DEF c
<1> QED
  BY <1>1, <1>3

(* The equations of BitCount.                                              *)
LEMMA BitCountIs ==
  /\ BitCount(0) = 0
  /\ \A x \in Nat \ {0} : BitCount(x) = 1 + BitCount(x \div 2)
  /\ \A x \in Nat : BitCount(x) \in Nat
<1> DEFINE c == CHOOSE f : f = [y \in Nat |-> IF y = 0 THEN 0 ELSE 1 + f[y \div 2]]
<1>1. \A x : BitCount(x) = c[x]
  BY DEF BitCount
<1>3. /\ c[0] = 0
      /\ \A y \in Nat \ {0} : c[y] = 1 + c[y \div 2]
      /\ \A y \in Nat : c[y] \in Nat
  <2>1. 2 \in Nat /\ 2 >= 2
    OBVIOUS
  <2> QED
    BY <2>1, CountFunction
<1> HIDE DEF c
<1> QED
  BY <1>1, <1>3

(* A quotient compared with u compares the number with d * u.              *)
LEMMA QuotientCompares ==
  ASSUME NEW d \in Nat \ {0}, NEW x \in Nat, NEW u \in Nat
  PROVE  /\ x \div d \in Nat
         /\ x \div d < u => x < d * u
         /\ u <= x \div d => d * u <= x
         /\ x < d * u => x \div d < u
<1> DEFINE q == x \div d  t == x % d
<1>1. q \in Nat /\ t \in 0 .. d - 1 /\ x = d * q + t
  BY DivMod
<1> HIDE DEF q, t
<1>2. CASE q < u
  <2>1. d * (u - (q + 1)) >= 0 /\ d * (u - (q + 1)) = d * u - (d * q + d)
    BY <1>1, <1>2
  <2>2. x < d * u
    BY <1>1, <2>1
  <2> QED
    BY <1>1, <1>2, <2>2 DEF q
<1>3. CASE u <= q
  <2>1. d * (q - u) >= 0 /\ d * (q - u) = d * q - d * u
    BY <1>1, <1>3
  <2>2. d * u <= x /\ ~(x < d * u)
    BY <1>1, <2>1
  <2> QED
    BY <1>1, <1>3, <2>2 DEF q
<1> QED
  BY <1>1, <1>2, <1>3

(* The count of divisions by d until nothing is left is the number of      *)
(* digits in base d; P holds the powers of d.                              *)
LEMMA DigitCount ==
  ASSUME NEW d \in Nat, d >= 2, NEW n \in Nat, NEW P \in [0 .. n -> Nat \ {0}],
         P[0] = 1, \A l \in 0 .. n - 1 : P[l + 1] = d * P[l],
         NEW c, c[0] = 0, \A y \in Nat \ {0} : c[y] = 1 + c[y \div d],
         \A y \in Nat : c[y] \in Nat
  PROVE  \A l \in 0 .. n : \A x \in Nat : x < P[l] =>
           /\ c[x] <= l /\ x < P[c[x]]
           /\ x > 0 => c[x] >= 1 /\ P[c[x] - 1] <= x
<1> DEFINE Fits(x, l) == /\ c[x] <= l /\ x < P[c[x]]
                         /\ x > 0 => c[x] >= 1 /\ P[c[x] - 1] <= x
           T == {l \in 0 .. n : \A x \in Nat : x < P[l] => Fits(x, l)}
<1>1. \A l \in 0 .. n : Fits(0, l)
  OBVIOUS
<1>2. 0 \in T
  <2>1. \A x \in Nat : x < P[0] => x = 0
    OBVIOUS
  <2>2. 0 \in 0 .. n
    OBVIOUS
  <2> QED
    BY <1>1, <2>1, <2>2
<1>3. ASSUME NEW l \in 0 .. n - 1, l \in T PROVE l + 1 \in T
  <2>1. l + 1 \in 0 .. n /\ l \in 0 .. n
    OBVIOUS
  <2> SUFFICES ASSUME NEW x \in Nat, x < P[l + 1] PROVE Fits(x, l + 1)
    BY <2>1
  <2>2. CASE x = 0
    BY <1>1, <2>1, <2>2
  <2>3. CASE x > 0
    <3> DEFINE q == x \div d  s == c[q]
    <3>1. d \in Nat \ {0} /\ P[l] \in Nat \ {0} /\ P[l + 1] = d * P[l]
      BY <2>1
    <3>2. q \in Nat /\ q < P[l]
      <4> DEFINE p == P[l]
      <4>1. p \in Nat /\ x < d * p
        BY <3>1
      <4> HIDE DEF p
      <4> QED
        BY <3>1, <4>1, QuotientCompares DEF p
    <3>3. c[x] = 1 + s
      BY <2>3
    <3>4. Fits(q, l) /\ s \in Nat
      BY <1>3, <3>2
    <3>5. s \in 0 .. n - 1 /\ s \in 0 .. n /\ s + 1 \in 0 .. n /\ s <= l
      <4>1. l \in Nat /\ l <= n - 1
        BY <2>1
      <4>2. s \in Nat /\ s <= l
        BY <3>4 DEF Fits
      <4> HIDE DEF s, T
      <4> QED
        BY <4>1, <4>2
    <3>6. P[s + 1] = d * P[s] /\ P[s] \in Nat \ {0} /\ q < P[s]
      BY <3>4, <3>5
    <3>7. x < P[s + 1]
      <4> DEFINE u == P[s]
      <4>1. u \in Nat /\ x \div d < u
        BY <3>6
      <4> HIDE DEF u
      <4>2. x < d * u
        BY <3>1, <4>1, QuotientCompares
      <4> QED
        BY <3>6, <4>2 DEF u
    <3>8. P[s] <= x
      <4>1. CASE q = 0
        <5>1. s = 0
          BY <4>1
        <5> QED
          BY <2>3, <5>1
      <4>2. CASE q > 0
        <5>1. s >= 1 /\ P[s - 1] <= q
          BY <3>4, <4>2
        <5>2. s - 1 \in 0 .. n - 1 /\ (s - 1) + 1 = s /\ s - 1 \in 0 .. n
          <6> HIDE DEF s
          <6> QED
            BY <3>5, <5>1
        <5>3. P[s] = d * P[s - 1] /\ P[s - 1] \in Nat
          <6> HIDE DEF s
          <6> QED
            BY <5>2
        <5> DEFINE z == P[s - 1]
        <5>4. z \in Nat /\ z <= x \div d
          BY <5>1, <5>3
        <5> HIDE DEF z
        <5>5. d * z <= x
          BY <3>1, <5>4, QuotientCompares
        <5> QED
          BY <5>3, <5>5 DEF z
      <4> QED
        BY <3>2, <4>1, <4>2
    <3> HIDE DEF s
    <3>9. c[x] <= l + 1 /\ c[x] = s + 1 /\ c[x] - 1 = s /\ c[x] >= 1
      BY <3>3, <3>5
    <3> QED
      BY <3>7, <3>8, <3>9
  <2> QED
    BY <2>2, <2>3
<1>4. 0 .. n \subseteq T
  <2> HIDE DEF T
  <2> QED
    BY <1>2, <1>3, InductionTo
<1> QED
  BY <1>4

(* A number that needs l limbs is below B^l and not below B^(l - 1), as    *)
(* long as it is in the range of the arrays.                               *)
LEMMA CountFits ==
  ASSUME NEW l \in Limits, NEW x \in Nat, x < B^l
  PROVE  /\ LimbCount(x) \in 0 .. l /\ LimbCount(x) \in Limits
         /\ x < B^LimbCount(x)
         /\ x > 0 => LimbCount(x) >= 1 /\ B^(LimbCount(x) - 1) <= x
<1> DEFINE n == MaxLimbs + 2
           P == [j \in 0 .. n |-> B^j]
           c == [y \in Nat |-> LimbCount(y)]
<1>1. \A j \in 0 .. n : P[j] = B^j
  OBVIOUS
<1>2. n \in Nat /\ B \in Nat /\ B >= 2 /\ l \in 0 .. n
  BY Bases DEF Limits
<1>3. P \in [0 .. n -> Nat \ {0}]
  BY BasePowers DEF Limits
<1>4. P[0] = 1 /\ \A j \in 0 .. n - 1 : P[j + 1] = B * P[j]
  <2>1. \A j \in 0 .. n - 1 : j + 1 \in 0 .. n /\ j \in 0 .. n /\ j \in 0 .. MaxLimbs + 1
    BY <1>2, Bases
  <2>2. 0 \in 0 .. n
    BY <1>2
  <2> HIDE DEF P, B, n
  <2> QED
    BY <1>1, <2>1, <2>2, BasePowers, Bases
<1>5. c[0] = 0
  BY LimbCountIs
<1>6. ASSUME NEW y \in Nat \ {0} PROVE c[y] = 1 + c[y \div B]
  <2>1. y \div B \in Nat
    BY <1>2, Smaller
  <2> QED
    BY <2>1, LimbCountIs
<1>7. \A y \in Nat : c[y] \in Nat /\ c[y] = LimbCount(y)
  BY LimbCountIs
<1> HIDE DEF c, P, n, B
<1>8. \A j \in 0 .. n : \A y \in Nat : y < P[j] =>
           /\ c[y] <= j /\ y < P[c[y]]
           /\ y > 0 => c[y] >= 1 /\ P[c[y] - 1] <= y
  BY <1>2, <1>3, <1>4, <1>5, <1>6, <1>7, DigitCount
<1>9. x < P[l]
  BY <1>1, <1>2
<1>10. c[x] <= l /\ x < P[c[x]] /\ (x > 0 => c[x] >= 1 /\ P[c[x] - 1] <= x)
  BY <1>2, <1>8, <1>9
<1> DEFINE s == c[x]
<1>11. s = LimbCount(x) /\ s \in Nat /\ s <= l
  BY <1>7, <1>10
<1> HIDE DEF s
<1>12. s \in 0 .. n /\ (s >= 1 => s - 1 \in 0 .. n)
  BY <1>2, <1>11
<1>13. P[s] = B^s /\ (s >= 1 => P[s - 1] = B^(s - 1))
  BY <1>1, <1>12
<1>14. x < B^s /\ (x > 0 => s >= 1 /\ B^(s - 1) <= x)
  BY <1>10, <1>13 DEF s
<1>15. s \in Limits /\ s \in 0 .. l
  BY <1>11, <1>12, <1>2 DEF Limits, n
<1> QED
  BY <1>11, <1>14, <1>15

(* The same for bits.                                                      *)
LEMMA BitsFit ==
  ASSUME NEW x \in Nat, x < B
  PROVE  /\ BitCount(x) \in 0 .. W
         /\ x < 2^BitCount(x)
         /\ x > 0 => BitCount(x) >= 1 /\ 2^(BitCount(x) - 1) <= x
<1> DEFINE P == [j \in 0 .. W |-> 2^j]
           c == [y \in Nat |-> BitCount(y)]
<1>1. \A j \in 0 .. W : P[j] = 2^j
  OBVIOUS
<1>2. W \in Nat /\ W \in 0 .. W
  BY TwoPowers
<1>3. P \in [0 .. W -> Nat \ {0}]
  BY TwoPowers
<1>4. P[0] = 1 /\ \A j \in 0 .. W - 1 : P[j + 1] = 2 * P[j]
  <2>1. \A j \in 0 .. W - 1 : j + 1 \in 0 .. W /\ j \in 0 .. W
    BY <1>2
  <2>2. 0 \in 0 .. W /\ 2^0 = 1
    BY <1>2, PowersAssumption
  <2> HIDE DEF P
  <2> QED
    BY <1>1, <2>1, <2>2, TwoPowers
<1>5. c[0] = 0
  BY BitCountIs
<1>6. ASSUME NEW y \in Nat \ {0} PROVE c[y] = 1 + c[y \div 2]
  <2>1. y \div 2 \in Nat
    OBVIOUS
  <2> QED
    BY <2>1, BitCountIs
<1>7. \A y \in Nat : c[y] \in Nat /\ c[y] = BitCount(y)
  BY BitCountIs
<1> HIDE DEF c, P
<1>8. \A j \in 0 .. W : \A y \in Nat : y < P[j] =>
           /\ c[y] <= j /\ y < P[c[y]]
           /\ y > 0 => c[y] >= 1 /\ P[c[y] - 1] <= y
  <2>1. 2 \in Nat /\ 2 >= 2
    OBVIOUS
  <2> QED
    BY <2>1, <1>2, <1>3, <1>4, <1>5, <1>6, <1>7, DigitCount
<1>9. x < P[W]
  BY <1>1, <1>2 DEF B
<1>10. c[x] <= W /\ x < P[c[x]] /\ (x > 0 => c[x] >= 1 /\ P[c[x] - 1] <= x)
  BY <1>2, <1>8, <1>9
<1> DEFINE s == c[x]
<1>11. s = BitCount(x) /\ s \in Nat /\ s <= W
  BY <1>7, <1>10
<1> HIDE DEF s
<1>12. s \in 0 .. W /\ (s >= 1 => s - 1 \in 0 .. W)
  BY <1>2, <1>11
<1>13. P[s] = 2^s /\ (s >= 1 => P[s - 1] = 2^(s - 1))
  BY <1>1, <1>12
<1>14. x < 2^s /\ (x > 0 => s >= 1 /\ 2^(s - 1) <= x)
  BY <1>10, <1>13 DEF s
<1> QED
  BY <1>11, <1>12, <1>14

(* A number is below B^j if and only if it needs at most j limbs.          *)
LEMMA CountMeans ==
  ASSUME NEW l \in Limits, NEW x \in Nat, x < B^l, NEW j \in Limits
  PROVE  x < B^j <=> LimbCount(x) <= j
<1>1. /\ LimbCount(x) \in 0 .. l /\ LimbCount(x) \in Limits
      /\ x < B^LimbCount(x)
      /\ x > 0 => LimbCount(x) >= 1 /\ B^(LimbCount(x) - 1) <= x
  BY CountFits
<1>2. x < B^j => LimbCount(x) <= j
  BY CountFits
<1>3. LimbCount(x) <= j => B^LimbCount(x) <= B^j
  BY <1>1, BaseGrows
<1>4. B^LimbCount(x) \in Nat /\ B^j \in Nat
  BY <1>1, BasePowers
<1> HIDE DEF B
<1> QED
  BY <1>1, <1>2, <1>3, <1>4

(* A smaller number does not need more limbs.                              *)
LEMMA CountGrows ==
  ASSUME NEW l \in Limits, NEW x \in Nat, NEW y \in Nat, x <= y, y < B^l
  PROVE  LimbCount(x) <= LimbCount(y)
<1>1. LimbCount(y) \in Limits /\ y < B^LimbCount(y) /\ B^LimbCount(y) \in Nat
  BY CountFits, BasePowers
<1>2. x < B^LimbCount(y)
  BY <1>1
<1> DEFINE s == LimbCount(y)
<1>3. s \in Limits /\ x < B^s
  BY <1>1, <1>2
<1> HIDE DEF s
<1>4. LimbCount(x) \in 0 .. s
  BY <1>3, CountFits
<1> QED
  BY <1>3, <1>4 DEF s, Limits

(* Numbers of no limb, one limb and more.                                  *)
LEMMA CountSmall ==
  ASSUME NEW l \in Limits, NEW x \in Nat, x < B^l
  PROVE  /\ LimbCount(x) = 0 <=> x = 0
         /\ LimbCount(x) <= 1 <=> x < B
<1>1. /\ LimbCount(x) \in 0 .. l
      /\ x > 0 => LimbCount(x) >= 1
  BY CountFits
<1>2. 1 \in Limits /\ B^1 = B
  BY Bases DEF Limits
<1>3. x < B^1 <=> LimbCount(x) <= 1
  BY <1>2, CountMeans
<1> HIDE DEF B
<1> QED
  BY <1>1, <1>2, <1>3, LimbCountIs

(* Half the base is a whole number, at least 2 * H.                        *)
LEMMA HalfBase == \E h \in Nat : B = 2 * h /\ 2 * H <= h
<1>1. W \in Nat /\ W >= 4
  BY WidthAssumption
<1>2. W - 1 \in 0 .. W /\ W - (W - 1) = 1
  BY <1>1
<1>3. 2^(W - 1) \in Nat \ {0} /\ 2^(W - (W - 1)) * 2^(W - 1) = B /\ 2^1 = 2
  <2>1. 0 \in 0 .. W - 1 /\ 2^0 = 1
    BY <1>1, PowersAssumption
  <2>2. 2^(0 + 1) = 2 * 2^0
    BY <2>1, TwoPowers
  <2> QED
    BY <1>2, <2>1, <2>2, TwoProduct
<1>4. 2 * 2^(W - 1) = B
  BY <1>2, <1>3
<1> DEFINE h == 2^(W - 1)
<1>5. h \in Nat /\ B = 2 * h /\ 4 * H <= B /\ H \in Nat
  BY <1>3, <1>4, Bases
<1> HIDE DEF h, B, H
<1>6. 2 * H <= h
  BY <1>5
<1> QED
  BY <1>5, <1>6

(* The quotient of a number below c * d by c.                              *)
LEMMA QuotientMod ==
  ASSUME NEW x \in Nat, NEW c \in Nat \ {0}, NEW d \in Nat \ {0}, x < c * d
  PROVE  (x \div c) % d = x \div c /\ x \div c \in 0 .. d - 1
<1>1. x \div c \in 0 .. d - 1
  BY QuotientBelow
<1> QED
  BY <1>1, Below

(* A number cut at limb j below its l limbs, shifted by s bits: nothing is *)
(* shifted out if the top limb has no more than W - s bits.                *)
LEMMA ShiftedBelow ==
  ASSUME NEW x \in Nat, NEW p \in Nat \ {0}, NEW t \in Nat \ {0}, NEW s \in Nat \ {0},
         NEW d \in Nat \ {0}, s * t = d, x \div p < t
  PROVE  x * s < d * p
<1>1. x < p * t
  BY QuotientCompares
<1>2. s * (p * t - x) > 0 /\ s * (p * t - x) = s * (p * t) - x * s
  <2>1. p * t - x \in Nat /\ p * t - x > 0
    BY <1>1
  <2> DEFINE z == p * t
  <2>2. z \in Int
    OBVIOUS
  <2> HIDE DEF z
  <2>3. s * (z - x) = s * z - x * s /\ (z - x > 0 => s * (z - x) > 0)
    BY <2>2
  <2> QED
    BY <2>1, <2>3 DEF z
<1>3. s * (p * t) = (s * t) * p
  OBVIOUS
<1>4. s * (p * t) = d * p
  BY <1>3
<1> DEFINE y == s * (p * t)  z == x * s  u == d * p
<1>5. y \in Nat /\ z \in Nat /\ u \in Nat /\ y - z > 0 /\ y = u
  BY <1>2, <1>4
<1> HIDE DEF y, z, u
<1>6. z < u
  BY <1>5
<1> QED
  BY <1>6 DEF z, u

(* A number that is shifted until its leading part is d reaches d.         *)
LEMMA ShiftedAbove ==
  ASSUME NEW x \in Nat, NEW p \in Nat \ {0}, NEW t \in Nat \ {0}, NEW s \in Nat \ {0},
         NEW d \in Nat \ {0}, s * t = d, t <= x \div p
  PROVE  d * p <= x * s
<1>1. p * t <= x
  BY QuotientCompares
<1> DEFINE z == p * t
<1>2. z \in Nat /\ z <= x
  BY <1>1
<1>3. s * z = (s * t) * p
  OBVIOUS
<1> HIDE DEF z
<1>4. s * (x - z) >= 0 /\ s * (x - z) = x * s - s * z
  BY <1>2
<1> QED
  BY <1>2, <1>3, <1>4

(* The two leading limbs of the larger operand, and what stands in the     *)
(* same place of the smaller one.                                          *)
LEMMA LeadingLimbs ==
  ASSUME tad \in Nat, tbd \in Nat, tal \in 2 .. MaxLimbs + 1, tbl \in Nat,
         tad < B^tal, tbd < B^tal,
         LimbCount(tad) = tal \/ LimbCount(tbd) = tal,
         tal - tbl <= 1
  PROVE  \E s, p \in Nat \ {0} :
           /\ Leading(tad) \in 0 .. B * B - 1 /\ Leading(tbd) \in 0 .. B * B - 1
           /\ tad * s - p * Leading(tad) \in 0 .. p - 1
           /\ tbd * s - p * Leading(tbd) \in 0 .. p - 1
           /\ B * B <= 2 * Leading(tad) \/ B * B <= 2 * Leading(tbd)
<1> DEFINE p == B^(tal - 2)
           q == B^(tal - 1)
           ta == tad \div q
           tb == tbd \div q
           c == Larger(BitCount(ta), BitCount(tb))
           t == 2^c
           s == 2^(W - c)
<1>1. B \in Nat \ {0} /\ B >= 16 /\ MaxLimbs \in Nat /\ B^2 = B * B /\ W \in Nat
  BY Bases, TwoPowers
<1>2. tal \in Limits /\ tal - 1 \in Limits /\ tal - 2 \in Limits /\ tal - 2 \in 0 .. MaxLimbs + 1
      /\ tal - 1 \in 0 .. MaxLimbs + 1 /\ (tal - 1) + 1 = tal /\ (tal - 2) + 1 = tal - 1
  BY <1>1 DEF Limits
<1>3. /\ p \in Nat \ {0} /\ q \in Nat \ {0} /\ B^tal \in Nat \ {0}
      /\ B^tal = B * q /\ q = B * p
  BY <1>2, BasePowers
<1> HIDE DEF p, q
<1>4. /\ tad < q * B /\ tbd < q * B
      /\ ta \in 0 .. B - 1 /\ tb \in 0 .. B - 1
      /\ ta % B = ta /\ tb % B = tb
  <2>1. B * q = q * B
    BY <1>1, <1>3
  <2>2. tad < q * B /\ tbd < q * B
    BY <1>3, <2>1
  <2> HIDE DEF B
  <2> QED
    BY <1>1, <1>3, <2>2, QuotientMod
<1>5. LimbAt(tad, tal - 1) = ta /\ LimbAt(tbd, tal - 1) = tb
  BY <1>4 DEF LimbAt, q
<1>6. ASSUME NEW z \in {ta, tb}
      PROVE  /\ z \in Nat /\ BitCount(z) \in 0 .. W /\ z < 2^BitCount(z)
             /\ z > 0 => BitCount(z) >= 1 /\ 2^(BitCount(z) - 1) <= z
  <2>1. z \in Nat /\ z < B
    BY <1>1, <1>4
  <2> HIDE DEF B
  <2> QED
    BY <2>1, BitsFit
<1>7. c \in 0 .. W /\ BitCount(ta) <= c /\ BitCount(tb) <= c /\ c \in {BitCount(ta), BitCount(tb)}
      /\ BitCount(ta) \in 0 .. W /\ BitCount(tb) \in 0 .. W
  <2>1. BitCount(ta) \in 0 .. W /\ BitCount(tb) \in 0 .. W
    BY <1>6
  <2> HIDE DEF ta, tb
  <2> QED
    BY <2>1, <1>1 DEF Larger
<1> HIDE DEF c
<1>8. s \in Nat \ {0} /\ t \in Nat \ {0} /\ s * t = B
  BY <1>7, TwoProduct
<1>9. ASSUME NEW y \in 0 .. W, NEW z \in 0 .. W, y <= z PROVE 2^y <= 2^z
  <2> DEFINE f == [d \in 0 .. W |-> 2^d]
             T == {d \in 0 .. W : y <= d => f[y] <= f[d]}
  <2>1. \A d \in 0 .. W : f[d] = 2^d /\ 2^d \in Nat
    BY TwoPowers
  <2>2. \A d \in 0 .. W - 1 : d + 1 \in 0 .. W /\ d \in 0 .. W /\ f[d + 1] = 2 * f[d]
    <3>1. \A d \in 0 .. W - 1 : d + 1 \in 0 .. W /\ d \in 0 .. W
      BY <1>1
    <3> HIDE DEF f
    <3> QED
      BY <2>1, <3>1, TwoPowers
  <2> HIDE DEF f
  <2>3. \A d \in 0 .. W : f[d] \in Nat
    BY <2>1
  <2>4. 0 \in T
    BY <1>1, <2>3
  <2>5. \A d \in 0 .. W - 1 : d \in T => d + 1 \in T
    BY <1>1, <2>2, <2>3
  <2>6. 0 .. W \subseteq T
    <3> HIDE DEF T
    <3> QED
      BY <1>1, <2>4, <2>5, InductionTo
  <2>7. f[y] <= f[z]
    BY <1>9, <2>6
  <2> QED
    BY <2>1, <2>7
<1>10. ta < t /\ tb < t
  <2>1. 2^BitCount(ta) <= t /\ 2^BitCount(tb) <= t
    BY <1>7, <1>9
  <2>2. ta < 2^BitCount(ta) /\ tb < 2^BitCount(tb) /\ ta \in Nat /\ tb \in Nat
    BY <1>6
  <2>3. 2^BitCount(ta) \in Nat /\ 2^BitCount(tb) \in Nat
    BY <1>7, TwoPowers
  <2> DEFINE x == 2^BitCount(ta)  y == 2^BitCount(tb)
  <2>4. x <= t /\ y <= t /\ ta < x /\ tb < y /\ x \in Nat /\ y \in Nat /\ ta \in Nat /\ tb \in Nat /\ t \in Nat
    BY <2>1, <2>2, <2>3, <1>8
  <2> HIDE DEF x, y, ta, tb, t
  <2> QED
    BY <2>4
<1>11. ta > 0 \/ tb > 0
  <2>1. q <= tad \/ q <= tbd
    <3>1. LimbCount(tad) = tal => q <= tad
      <4>1. tad > 0 => LimbCount(tad) >= 1 /\ B^(LimbCount(tad) - 1) <= tad
        BY <1>2, CountFits
      <4>2. LimbCount(tad) = tal => tad # 0
        BY LimbCountIs, <1>2
      <4> QED
        BY <4>1, <4>2 DEF q
    <3>2. LimbCount(tbd) = tal => q <= tbd
      <4>1. tbd > 0 => LimbCount(tbd) >= 1 /\ B^(LimbCount(tbd) - 1) <= tbd
        BY <1>2, CountFits
      <4>2. LimbCount(tbd) = tal => tbd # 0
        BY LimbCountIs, <1>2
      <4> QED
        BY <4>1, <4>2 DEF q
    <3> QED
      BY <3>1, <3>2
  <2>2. ASSUME NEW x \in Nat, q <= x PROVE x \div q > 0
    <3>1. q * 1 = q /\ 1 \in Nat /\ 0 \in Nat
      BY <1>3
    <3>2. x \div q < 1 => x < q * 1
      BY <1>3, <3>1, QuotientCompares
    <3>3. x \div q \in Nat
      BY <1>3, DivMod
    <3> DEFINE y == x \div q
    <3>4. y \in Nat /\ (y < 1 => x < q)
      BY <3>1, <3>2, <3>3
    <3> HIDE DEF y
    <3>5. y > 0
      BY <3>4, <2>2, <1>3
    <3> QED
      BY <3>5 DEF y
  <2> QED
    BY <2>1, <2>2
<1>12. PICK h \in Nat \ {0} : t = 2 * h /\ (h <= ta \/ h <= tb)
  <2>0. c \in Nat /\ (ta > 0 => BitCount(ta) >= 1) /\ (tb > 0 => BitCount(tb) >= 1)
    BY <1>6, <1>7
  <2>1. c >= 1
    <3> HIDE DEF ta, tb
    <3> QED
      BY <1>7, <1>11, <2>0
  <2>2. c - 1 \in 0 .. W - 1 /\ (c - 1) + 1 = c /\ c - 1 \in 0 .. W
    BY <1>7, <2>1, <1>1
  <2>3. 2^(c - 1) \in Nat \ {0} /\ t = 2 * 2^(c - 1)
    BY <2>2, TwoPowers
  <2>4. 2^(c - 1) <= ta \/ 2^(c - 1) <= tb
    <3>1. BitCount(0) = 0
      BY BitCountIs
    <3>2. CASE c = BitCount(ta)
      <4>1. ta > 0
        <5>1. ta \in Nat /\ ta # 0
          BY <3>1, <3>2, <2>1, <1>6
        <5> HIDE DEF ta
        <5> QED
          BY <5>1
      <4> QED
        BY <3>2, <4>1, <1>6
    <3>3. CASE c = BitCount(tb)
      <4>1. tb > 0
        <5>1. tb \in Nat /\ tb # 0
          BY <3>1, <3>3, <2>1, <1>6
        <5> HIDE DEF tb
        <5> QED
          BY <5>1
      <4> QED
        BY <3>3, <4>1, <1>6
    <3> QED
      BY <1>7, <3>2, <3>3
  <2> QED
    BY <2>3, <2>4
<1>13. \A x : Leading(x) = ((x * s) \div p) % (B * B)
  BY <1>1, <1>5 DEF Leading, c, p
<1> HIDE DEF ta, tb, t, s
<1>14. ASSUME NEW x \in Nat, x \div q < t
       PROVE  /\ Leading(x) = (x * s) \div p
              /\ Leading(x) \in 0 .. B * B - 1
              /\ x * s - p * Leading(x) \in 0 .. p - 1
  <2>1. x * s < B * q
    <3> HIDE DEF B
    <3> QED
      BY <1>1, <1>3, <1>8, <1>14, ShiftedBelow
  <2>2. B * q = p * (B * B)
    BY <1>1, <1>3
  <2> DEFINE z == x * s  d == B * B
  <2>3. z \in Nat /\ d \in Nat \ {0} /\ z < p * d
    BY <1>1, <1>8, <2>1, <2>2
  <2>4. Leading(x) = (z \div p) % d
    BY <1>13
  <2> HIDE DEF z, d
  <2>5. Leading(x) = z \div p /\ z \div p \in 0 .. d - 1
    BY <2>3, <2>4, <1>3, QuotientMod
  <2>6. z \div p \in Nat /\ z % p \in 0 .. p - 1 /\ z = p * (z \div p) + (z % p)
    BY <2>3, <1>3, DivMod
  <2>7. z - p * (z \div p) \in 0 .. p - 1
    <3> DEFINE u == p * (z \div p)  v == z % p
    <3>1. u \in Int /\ v \in 0 .. p - 1 /\ z = u + v
      BY <2>6, <1>3
    <3> HIDE DEF u, v
    <3>2. z - u \in 0 .. p - 1
      BY <3>1
    <3> QED
      BY <3>2 DEF u
  <2> QED
    BY <2>5, <2>7 DEF z, d
<1>15. ASSUME NEW x \in Nat, x \div q < t, h <= x \div q
       PROVE  B * B <= 2 * Leading(x)
  <2>1. PICK d \in Nat \ {0} : B = 2 * d /\ s * h = d
    <3>1. s * (2 * h) = 2 * (s * h) /\ s * h \in Nat
      BY <1>8
    <3>2. B = 2 * (s * h)
      BY <1>8, <1>12, <3>1
    <3> DEFINE d == s * h
    <3>3. B = 2 * d /\ d \in Nat
      BY <3>1, <3>2
    <3> HIDE DEF d, B
    <3>4. d \in Nat \ {0} /\ B = 2 * d
      BY <3>3, <1>1
    <3> QED
      BY <3>4 DEF d
  <2>2. d * q <= x * s
    BY <1>3, <1>8, <1>15, <2>1, ShiftedAbove
  <2>3. d * q = p * (d * B)
    BY <1>1, <1>3, <2>1
  <2> DEFINE z == x * s  u == d * B
  <2>4. z \in Nat /\ u \in Nat /\ p * u <= z
    BY <1>1, <1>8, <2>1, <2>2, <2>3
  <2> HIDE DEF z, u
  <2>5. u <= z \div p
    <3>1. z \div p \in Nat /\ (z \div p < u => z < p * u)
      BY <2>4, <1>3, QuotientCompares
    <3> DEFINE v == z \div p  g == p * u
    <3>2. v \in Nat /\ (v < u => z < g) /\ g <= z /\ g \in Nat
      BY <3>1, <2>4, <1>3
    <3> HIDE DEF v, g
    <3>3. u <= v
      BY <3>2, <2>4
    <3> QED
      BY <3>3 DEF v
  <2>6. B * B = 2 * u
    BY <1>1, <2>1 DEF u
  <2>7. Leading(x) = z \div p /\ Leading(x) \in Nat
    <3>1. Leading(x) = z \div p
      BY <1>14, <1>15 DEF z
    <3>2. z \div p \in Nat
      BY <2>4, <1>3, DivMod
    <3> QED
      BY <3>1, <3>2
  <2> QED
    BY <2>4, <2>5, <2>6, <2>7
<1>16. ta = tad \div q /\ tb = tbd \div q
  BY DEF ta, tb
<1>17. /\ Leading(tad) \in 0 .. B * B - 1 /\ Leading(tbd) \in 0 .. B * B - 1
       /\ tad * s - p * Leading(tad) \in 0 .. p - 1
       /\ tbd * s - p * Leading(tbd) \in 0 .. p - 1
  BY <1>10, <1>14, <1>16
<1>18. B * B <= 2 * Leading(tad) \/ B * B <= 2 * Leading(tbd)
  BY <1>10, <1>12, <1>15, <1>16
<1> QED
  BY <1>3, <1>8, <1>17, <1>18

LimbValues == 0 .. B - 1
Entries == LimbValues \X LimbValues \X LimbValues \X LimbValues
Pairs == 0 .. B * B - 1
Sims == [a : Pairs, b : Pairs, m : Entries, n : Nat]
Top == MaxLimbs + 2

(* The values that the variables always have, ...                          *)
Values ==
  /\ call \in {"gcd", "inv", "both"}
  /\ ad \in 1 .. B^MaxLimbs - 1 /\ bd \in 1 .. B^MaxLimbs - 1
  /\ tad \in Nat /\ tbd \in Nat /\ v0 \in Nat /\ v1 \in Nat
  /\ nc \in {0, 1} /\ borrowed \in BOOLEAN /\ lost \in BOOLEAN
  /\ sim \in Sims
  /\ pc \in {"loop", "phase1", "phase2", "simulated", "word", "limbs", "last",
            "done", "overrun"}

(* ... the limb counts beside the numbers until the results are stored,    *)
(* ...                                                                     *)
Counts ==
  pc # "done" =>
    /\ tal \in 0 .. MaxLimbs + 1 /\ tad < B^tal /\ tbd < B^tal
    /\ tbl = LimbCount(tbd)
    /\ vl \in Limits /\ v0 < B^Top /\ v1 < B^Top

(* ... and where in the code they are: phase one has a limb to divide by   *)
(* or the loop over it is left at once, and phase two never divides by     *)
(* zero.                                                                   *)
Places ==
  /\ pc \in {"loop", "phase1", "phase2", "simulated"} => tal = Larger(LimbCount(tad), tbl)
  /\ pc \in {"phase1", "phase2", "simulated"} => tbl >= 2
  /\ pc \in {"word", "limbs"} => tal = 1
  /\ pc = "phase1" => /\ sim.b \div B <= sim.a \div B
                      /\ B <= sim.b \/ H <= sim.a \div B
  /\ pc = "phase2" => sim.a \in LimbValues /\ sim.b \in LimbValues \ {0}

Shape == Values /\ Counts /\ Places

(* The sizes of a limb, of half a limb and of two limbs, and the two       *)
(* matrices without entries.                                               *)
LEMMA Ranges ==
  /\ Top \in Limits /\ MaxLimbs \in Limits
  /\ B \in Nat \ {0} /\ B >= 16 /\ H \in Nat /\ H >= 4 /\ B = H * H /\ 4 * H <= B
  /\ B * B \in Nat \ {0} /\ B < B * B /\ B^2 = B * B
  /\ Identity \in Entries /\ Exchange \in Entries
<1>1. B \in Nat /\ B >= 16 /\ H \in Nat /\ H >= 4 /\ B = H * H /\ 4 * H <= B /\ B^2 = B * B
      /\ MaxLimbs \in Nat
  BY Bases
<1>2. B * B \in Nat \ {0} /\ B < B * B
  <2> HIDE DEF B
  <2>1. B * (B - 2) >= 0 /\ B * (B - 2) = B * B - 2 * B
    BY <1>1
  <2> QED
    BY <1>1, <2>1
<1>3. Identity \in Entries /\ Exchange \in Entries
  <2>1. 0 \in LimbValues /\ 1 \in LimbValues
    BY <1>1 DEF LimbValues
  <2> QED
    BY <2>1 DEF Identity, Exchange, Entries
<1> HIDE DEF B, H
<1> QED
  BY <1>1, <1>2, <1>3 DEF Top, Limits

(* Quotients by one divisor keep the order.                                *)
LEMMA DivGrows ==
  ASSUME NEW d \in Nat \ {0}, NEW x \in Nat, NEW y \in Nat, x <= y
  PROVE  x \div d <= y \div d
<1> DEFINE q == x \div d  z == y \div d
<1>1. z \in Nat /\ q \in Nat
  BY DivMod
<1>2. z + 1 <= q => d * (z + 1) <= x
  <2>1. z + 1 \in Nat
    BY <1>1
  <2> DEFINE u == z + 1
  <2> HIDE DEF u
  <2> QED
    BY <2>1, QuotientCompares DEF u
<1>3. y < d * (z + 1)
  <2>1. z + 1 \in Nat /\ z < z + 1
    BY <1>1
  <2> DEFINE u == z + 1
  <2> HIDE DEF u
  <2> QED
    BY <2>1, QuotientCompares DEF u
<1> DEFINE v == d * (z + 1)
<1>4. v \in Int /\ y < v /\ (z + 1 <= q => v <= x)
  BY <1>1, <1>2, <1>3
<1> HIDE DEF v, z, q
<1>5. q <= z
  BY <1>1, <1>4
<1> QED
  BY <1>5 DEF z, q

(* A step of the simulation or of the last limbs. *)
LEMMA TimesEntries ==
  ASSUME NEW mat \in Entries, NEW q \in Nat
  PROVE  Times(q, mat) \in Entries
<1>1. mat[1] \in LimbValues /\ mat[2] \in LimbValues /\ mat[3] \in LimbValues /\ mat[4] \in LimbValues
  BY DEF Entries
<1>2. B \in Nat \ {0}
  BY Ranges
<1>3. ASSUME NEW x \in LimbValues, NEW y \in LimbValues PROVE (x + y * q) % B \in LimbValues
  <2>1. x + y * q \in Nat
    BY <1>2 DEF LimbValues
  <2> QED
    BY <1>2, <2>1, DivMod DEF LimbValues
<1> QED
  BY <1>1, <1>3 DEF Times, Entries

(* A step of the simulation, written out as a record.                      *)
LEMMA StepShape ==
  ASSUME sim \in Sims, NEW q \in Nat, NEW z \in Pairs
  PROVE  /\ [StepBy(sim, q) EXCEPT !.b = z]
               = [a |-> sim.b, b |-> z, m |-> Times(q, sim.m), n |-> sim.n + 1]
         /\ [StepBy(sim, q) EXCEPT !.b = z] \in Sims
<1>1. sim.b \in Pairs /\ sim.m \in Entries /\ sim.n \in Nat
  BY DEF Sims
<1>2. [StepBy(sim, q) EXCEPT !.b = z]
               = [a |-> sim.b, b |-> z, m |-> Times(q, sim.m), n |-> sim.n + 1]
  BY DEF StepBy
<1>3. Times(q, sim.m) \in Entries /\ sim.n + 1 \in Nat
  BY <1>1, TimesEntries
<1> QED
  BY <1>1, <1>2, <1>3 DEF Sims

(* Nothing has been called: every count is zero.                           *)
LEMMA InitShape == Init => Shape
<1> SUFFICES ASSUME Init PROVE Shape
  OBVIOUS
<1>1. /\ Top \in Limits /\ MaxLimbs \in Limits /\ B^MaxLimbs \in Nat /\ B^Top \in Nat
      /\ B \in Nat \ {0} /\ B >= 16 /\ 0 \in Pairs
      /\ MaxLimbs \in Nat /\ 0 \in Limits /\ 1 \in Limits
  BY Ranges, BasePowers, Bases DEF Pairs, Limits
<1>2. call \in {"gcd", "inv", "both"}
  BY CallsAssumption DEF Init
<1>3. ad \in 1 .. B^MaxLimbs - 1 /\ bd \in 1 .. B^MaxLimbs - 1
  <2>1. PICK p \in Operands : ad = p[1] /\ bd = p[2]
    BY DEF Init
  <2>2. p \in (1 .. B^MaxLimbs - 1) \X (1 .. B^MaxLimbs - 1)
    BY <2>1, OperandsAssumption
  <2> QED
    BY <2>1, <2>2
<1>4. /\ tad \in {ad, bd} /\ tbd \in {ad, bd} /\ tbd <= tad
      /\ tad \in Nat /\ tbd \in Nat /\ tad < B^MaxLimbs /\ tbd < B^MaxLimbs
  BY <1>1, <1>3 DEF Init
<1>5. sim \in Sims
  BY <1>1, Ranges DEF Init, Start, Sims
<1>6. Values
  BY <1>2, <1>3, <1>4, <1>5 DEF Init, Values
<1>7. /\ LimbCount(tad) \in 0 .. MaxLimbs /\ tad < B^LimbCount(tad)
      /\ LimbCount(tbd) <= LimbCount(tad) /\ LimbCount(tbd) \in Nat
      /\ LimbCount(tad) \in Limits /\ B^LimbCount(tad) \in Nat
  <2>1. LimbCount(tad) \in 0 .. MaxLimbs /\ tad < B^LimbCount(tad) /\ LimbCount(tad) \in Limits
    BY <1>1, <1>4, CountFits
  <2>2. LimbCount(tbd) <= LimbCount(tad)
    BY <1>1, <1>4, CountGrows
  <2> QED
    BY <2>1, <2>2, <1>4, LimbCountIs, BasePowers
<1>8. tal = LimbCount(tad) /\ tbl = LimbCount(tbd) /\ v0 = 0 /\ v1 = 1 /\ vl = 1 /\ pc = "loop"
  BY DEF Init
<1>9. 0 < B^Top /\ 1 < B^Top
  <2>1. B^1 <= B^Top /\ B^1 = B
    <3>1. 1 <= Top
      BY <1>1 DEF Top
    <3> QED
      BY <1>1, <3>1, BaseGrows, Bases
  <2> DEFINE p == B^Top
  <2>2. p \in Nat /\ B <= p
    BY <1>1, <2>1
  <2> HIDE DEF p, B
  <2>3. 0 < p /\ 1 < p
    BY <1>1, <2>2
  <2> QED
    BY <2>3 DEF p
<1>10. Counts
  <2>1. tad < B^tal /\ tbd < B^tal
    <3> DEFINE p == B^LimbCount(tad)
    <3>1. p \in Nat /\ tad < p /\ tbd <= tad /\ B^tal = p
      BY <1>4, <1>7, <1>8
    <3> HIDE DEF p
    <3>2. tad < p /\ tbd < p
      BY <1>4, <3>1
    <3> QED
      BY <3>1, <3>2
  <2>2. tal \in 0 .. MaxLimbs + 1
    <3> HIDE DEF B
    <3> QED
      BY <1>1, <1>7, <1>8
  <2> QED
    BY <1>1, <1>8, <1>9, <2>1, <2>2 DEF Counts
<1>11. Places
  <2>1. tal = Larger(LimbCount(tad), tbl)
    <3> DEFINE x == LimbCount(tad)  y == LimbCount(tbd)
    <3>1. x \in Nat /\ y \in Nat /\ y <= x /\ tal = x /\ tbl = y
      BY <1>7, <1>8
    <3> HIDE DEF x, y
    <3>2. tal = Larger(x, tbl)
      BY <3>1 DEF Larger
    <3> QED
      BY <3>2 DEF x
  <2> QED
    BY <1>8, <2>1 DEF Places
<1> QED
  BY <1>6, <1>10, <1>11 DEF Shape

(* The simulation starts from pairs and a matrix of limbs.                 *)
LEMMA StartSimulationShape == Shape /\ StartSimulation => Shape'
<1> SUFFICES ASSUME Shape, StartSimulation PROVE Shape'
  OBVIOUS
<1> DEFINE x == Leading(tad)  y == Leading(tbd)
<1>1. /\ pc = "loop" /\ tbl >= 2
      /\ pc' = (IF y < B THEN "simulated" ELSE "phase1")
      /\ sim' = IF y < B \/ x >= y THEN Start(x, y) ELSE StartExchanged(x, y)
      /\ UNCHANGED <<call, ad, bd, tad, tbd, tal, tbl, v0, v1, vl, nc, res, borrowed, lost>>
  BY DEF StartSimulation, operands, remainders, cofactors, history
<1>2. /\ tad \in Nat /\ tbd \in Nat /\ tal \in 0 .. MaxLimbs + 1 /\ tad < B^tal /\ tbd < B^tal
      /\ tbl = LimbCount(tbd) /\ tal = Larger(LimbCount(tad), tbl)
      /\ LimbCount(tad) \in Nat /\ tbl \in Nat /\ MaxLimbs \in Nat
  BY <1>1, LimbCountIs, Bases DEF Shape, Values, Counts, Places
<1>3. /\ tal \in 2 .. MaxLimbs + 1 /\ tal >= tbl
      /\ LimbCount(tad) = tal \/ LimbCount(tbd) = tal
  <2> DEFINE u == LimbCount(tad)
  <2>1. u \in Nat /\ tal = Larger(u, tbl) /\ tbl >= 2 /\ tbl \in Nat /\ tal \in 0 .. MaxLimbs + 1
        /\ MaxLimbs \in Nat
    BY <1>1, <1>2
  <2> HIDE DEF u
  <2>2. tal \in 2 .. MaxLimbs + 1 /\ tal >= tbl /\ (u = tal \/ tbl = tal)
    BY <2>1 DEF Larger
  <2> QED
    BY <1>2, <2>2 DEF u
<1>4. /\ B \in Nat \ {0} /\ H \in Nat /\ B * B \in Nat \ {0} /\ 0 \in Pairs
      /\ Identity \in Entries /\ Exchange \in Entries
  BY Ranges DEF Pairs
<1>5. x \in Pairs /\ y \in Pairs /\ (y >= B => B * B <= 2 * x \/ B * B <= 2 * y)
  <2>1. CASE tal - tbl <= 1
    BY <1>2, <1>3, <2>1, LeadingLimbs DEF Pairs
  <2>2. CASE ~(tal - tbl <= 1)
    <3>1. x = 0 /\ y = 0
      BY <2>2 DEF Leading
    <3> QED
      BY <1>4, <3>1
  <2> QED
    BY <2>1, <2>2
<1> HIDE DEF x, y
<1>6. x \in Nat /\ y \in Nat
  BY <1>4, <1>5 DEF Pairs
<1>7. sim' \in Sims
  <2>1. 0 \in Nat /\ 1 \in Nat
    OBVIOUS
  <2>2. Start(x, y) \in Sims /\ StartExchanged(x, y) \in Sims
    BY <1>4, <1>5, <2>1 DEF Start, StartExchanged, Sims
  <2> QED
    BY <1>1, <2>2
<1>8. Values'
  BY <1>1, <1>7 DEF Shape, Values
<1>9. Counts'
  BY <1>1 DEF Shape, Counts
<1>10. Places'
  <2>1. tal' = Larger(LimbCount(tad), tbl)' /\ tbl' >= 2
    BY <1>1, <1>2
  <2>2. ASSUME pc' = "phase1"
        PROVE  /\ sim'.b \div B <= sim'.a \div B
               /\ B <= sim'.b \/ H <= sim'.a \div B
    <3>1. y >= B
      BY <1>1, <1>4, <1>6, <2>2
    <3>2. CASE x >= y
      <4>1. sim'.a = x /\ sim'.b = y
        BY <1>1, <3>2 DEF Start
      <4>2. y \div B <= x \div B
        BY <1>4, <1>6, <3>2, DivGrows
      <4> QED
        BY <3>1, <4>1, <4>2, <1>4, <1>6
    <3>3. CASE x < y
      <4>1. sim'.a = y /\ sim'.b = x
        BY <1>1, <1>4, <1>6, <3>1, <3>3 DEF StartExchanged
      <4>2. x \div B <= y \div B
        BY <1>4, <1>6, <3>3, DivGrows
      <4>3. B * B <= 2 * y
        BY <1>4, <1>5, <1>6, <3>1, <3>3
      <4>4. PICK h \in Nat : B = 2 * h /\ 2 * H <= h
        BY HalfBase
      <4>5. B * H <= y
        <5> HIDE DEF B, H
        <5>1. B * (h - 2 * H) >= 0 /\ B * (h - 2 * H) = B * h - 2 * (B * H)
          BY <1>4, <4>4
        <5>2. B * B = 2 * (B * h)
          BY <1>4, <4>4
        <5>3. B * h \in Nat /\ B * H \in Nat
          BY <1>4, <4>4
        <5> QED
          BY <1>6, <4>3, <5>1, <5>2, <5>3
      <4>6. H <= y \div B
        <5> HIDE DEF B, H
        <5>1. y \div B \in Nat /\ (y \div B < H => y < B * H)
          BY <1>4, <1>6, QuotientCompares
        <5> DEFINE u == y \div B  g == B * H
        <5>2. u \in Nat /\ g \in Nat /\ g <= y /\ (u < H => y < g)
          BY <1>4, <4>5, <5>1
        <5> HIDE DEF u, g
        <5>3. H <= u
          BY <1>4, <1>6, <5>2
        <5> QED
          BY <5>3 DEF u
      <4> QED
        BY <4>1, <4>2, <4>6
    <3> QED
      BY <1>6, <3>2, <3>3
  <2> QED
    BY <1>1, <2>1, <2>2 DEF Places
<1> QED
  BY <1>8, <1>9, <1>10 DEF Shape

(* A step of either loop of the simulation: the smaller pair keeps its     *)
(* size, and sim.n counts one more.                                        *)
LEMMA SimulateShape ==
  ASSUME Shape, pc \in {"phase1", "phase2"}, borrowed' \in BOOLEAN,
         NEW q \in Nat, NEW z \in Pairs, NEW least \in Nat, Simulate(q, z, least),
         pc = "phase1" /\ ~(z < least) => z >= B /\ z \div B <= sim.b \div B,
         pc = "phase2" /\ ~(z < least) => z \in LimbValues \ {0}
  PROVE  Shape'
<1>1. UNCHANGED <<call, ad, bd, tad, tbd, tal, tbl, v0, v1, vl, nc, res, lost>>
  BY DEF Simulate, operands, remainders, cofactors
<1>2. /\ sim \in Sims /\ B \in Nat
  BY Ranges DEF Shape, Values
<1>3. CASE z < least
  <2>1. pc' = "simulated" /\ sim' = sim
    BY <1>3 DEF Simulate
  <2>2. Values'
    BY <1>1, <2>1 DEF Shape, Values
  <2>3. Counts'
    BY <1>1, <2>1 DEF Shape, Counts
  <2>4. Places'
    <3>1. tal = Larger(LimbCount(tad), tbl) /\ tbl >= 2
      BY DEF Shape, Places
    <3>2. Larger(LimbCount(tad), tbl)' = Larger(LimbCount(tad), tbl)
      BY <1>1
    <3> QED
      BY <1>1, <2>1, <3>1, <3>2 DEF Places
  <2> QED
    BY <2>2, <2>3, <2>4 DEF Shape
<1>4. CASE ~(z < least)
  <2>1. pc' = pc /\ sim' = [StepBy(sim, q) EXCEPT !.b = z]
    BY <1>4 DEF Simulate
  <2>2. sim' \in Sims /\ sim'.a = sim.b /\ sim'.b = z
    <3>1. /\ [StepBy(sim, q) EXCEPT !.b = z]
               = [a |-> sim.b, b |-> z, m |-> Times(q, sim.m), n |-> sim.n + 1]
          /\ [StepBy(sim, q) EXCEPT !.b = z] \in Sims
      BY <1>2, StepShape
    <3> QED
      BY <2>1, <3>1
  <2>3. Values'
    BY <1>1, <2>1, <2>2 DEF Shape, Values
  <2>4. Counts'
    BY <1>1, <2>1 DEF Shape, Counts
  <2>5. Places'
    <3>1. tal = Larger(LimbCount(tad), tbl) /\ tbl >= 2
      BY DEF Shape, Places
    <3>2. Larger(LimbCount(tad), tbl)' = Larger(LimbCount(tad), tbl)
      BY <1>1
    <3>3. pc = "phase2" => sim.b \in LimbValues
      BY DEF Shape, Places
    <3> QED
      BY <1>1, <1>4, <2>1, <2>2, <3>1, <3>2, <3>3 DEF Places
  <2> QED
    BY <2>3, <2>4, <2>5 DEF Shape
<1> QED
  BY <1>3, <1>4

(* The two numbers of the simulation and its wrapped differences.          *)
LEMMA SimulationTypes ==
  ASSUME Shape
  PROVE  /\ sim \in Sims /\ sim.a \in Pairs /\ sim.b \in Pairs /\ sim.a \in Nat /\ sim.b \in Nat
         /\ sim.m \in Entries /\ sim.n \in Nat
         /\ Difference2 \in Pairs /\ Difference1 \in LimbValues /\ Difference1 \in Pairs
         /\ sim.b > 0 => /\ sim.a \div sim.b \in Nat
                         /\ sim.a % sim.b \in Pairs /\ sim.a % sim.b \in Nat
                         /\ sim.a % sim.b < sim.b
<1>1. sim \in Sims /\ sim.a \in Pairs /\ sim.b \in Pairs /\ sim.m \in Entries /\ sim.n \in Nat
  BY DEF Shape, Values, Sims
<1>2. B \in Nat \ {0} /\ B * B \in Nat \ {0} /\ B < B * B /\ B^2 = B * B
  BY Ranges
<1> DEFINE x == sim.a  y == sim.b  d == B * B
<1>3. x \in Nat /\ y \in Nat /\ d \in Nat \ {0} /\ x \in 0 .. d - 1 /\ y \in 0 .. d - 1 /\ B < d
  BY <1>1, <1>2 DEF Pairs
<1>4. Difference2 = (x - y) % d /\ Difference1 = (x - y) % B
  BY <1>2 DEF Difference2, Difference1
<1> HIDE DEF x, y, d, B
<1>5. x - y \in Int
  BY <1>3
<1>6. (x - y) % d \in 0 .. d - 1 /\ (x - y) % B \in 0 .. B - 1 /\ (x - y) % B \in 0 .. d - 1
  <2> DEFINE z == x - y
  <2>1. z \in Int
    BY <1>3
  <2> HIDE DEF z
  <2>2. z % d \in 0 .. d - 1 /\ z % B \in 0 .. B - 1
    BY <1>2, <1>3, <2>1
  <2>3. z % B \in 0 .. d - 1
    BY <2>2, <1>2, <1>3
  <2> QED
    BY <2>2, <2>3 DEF z
<1>7. y > 0 => /\ x \div y \in Nat /\ x % y \in 0 .. y - 1 /\ x % y \in 0 .. d - 1
               /\ x % y \in Nat /\ x % y < y
  <2> SUFFICES ASSUME y > 0
               PROVE  /\ x \div y \in Nat /\ x % y \in 0 .. y - 1 /\ x % y \in 0 .. d - 1
                      /\ x % y \in Nat /\ x % y < y
    OBVIOUS
  <2>1. y \in Nat \ {0}
    BY <1>3
  <2>2. x \div y \in Nat /\ x % y \in 0 .. y - 1
    BY <1>3, <2>1, DivMod
  <2> QED
    BY <1>3, <2>2
<1> QED
  BY <1>1, <1>3, <1>4, <1>6, <1>7 DEF x, y, d, LimbValues, Pairs

(* Both steps of phase one are such steps.                                 *)
LEMMA Phase1Shape == Shape /\ (Phase1Divide \/ Phase1Subtract) => Shape'
<1> SUFFICES ASSUME Shape, Phase1Divide \/ Phase1Subtract PROVE Shape'
  OBVIOUS
<1>1. pc = "phase1" /\ sim.b >= B /\ borrowed' = borrowed
  BY DEF Phase1Divide, Phase1Subtract
<1>2. B \in Nat /\ B > 0 /\ borrowed \in BOOLEAN
  BY Ranges DEF Shape, Values
<1>3. sim.a \in Nat /\ sim.b \in Nat /\ sim.b > 0
  BY <1>1, <1>2, SimulationTypes
<1>4. CASE Phase1Divide
  <2> DEFINE q == sim.a \div sim.b  z == sim.a % sim.b
  <2>1. q \in Nat /\ z \in Pairs /\ z \in Nat /\ z < sim.b /\ Simulate(q, z, B)
    BY <1>3, <1>4, SimulationTypes DEF Phase1Divide
  <2> HIDE DEF q, z
  <2>2. ~(z < B) => z >= B /\ z \div B <= sim.b \div B
    <3> SUFFICES ASSUME z >= B PROVE z \div B <= sim.b \div B
      BY <1>2, <2>1
    <3>1. B \in Nat \ {0} /\ z <= sim.b
      BY <1>2, <1>3, <2>1
    <3> QED
      BY <1>3, <2>1, <3>1, DivGrows
  <2> QED
    BY <1>1, <1>2, <2>1, <2>2, SimulateShape
<1>5. CASE Phase1Subtract
  <2> DEFINE z == Difference2
  <2>1. z \in Pairs /\ Simulate(1, z, B) /\ z \div B <= sim.b \div B
    BY <1>5, SimulationTypes DEF Phase1Subtract
  <2>2. z \in Nat
    BY <2>1, Ranges DEF Pairs
  <2> HIDE DEF z
  <2>3. ~(z < B) => z >= B
    BY <1>2, <2>2
  <2>4. 1 \in Nat /\ pc # "phase2"
    BY <1>1
  <2> HIDE DEF B
  <2> QED
    BY <1>1, <1>2, <2>1, <2>3, <2>4, SimulateShape
<1> QED
  BY <1>4, <1>5

(* The upper limbs of pairs are limbs.                                     *)
LEMMA NarrowShape == Shape /\ Narrow => Shape'
<1> SUFFICES ASSUME Shape, Narrow PROVE Shape'
  OBVIOUS
<1>1. /\ pc = "phase1" /\ sim.a \div B < H /\ pc' = "phase2"
      /\ sim' = [sim EXCEPT !.a = (sim.a \div H) % B, !.b = (sim.b \div H) % B]
      /\ UNCHANGED <<call, ad, bd, tad, tbd, tal, tbl, v0, v1, vl, nc, res, borrowed, lost>>
  BY DEF Narrow, operands, remainders, cofactors, history
<1>2. /\ sim \in Sims /\ sim.a \in Nat /\ sim.b \in Nat /\ sim.m \in Entries /\ sim.n \in Nat
  BY SimulationTypes
<1>3. /\ B \in Nat \ {0} /\ H \in Nat \ {0} /\ H >= 4 /\ B = H * H /\ B < B * B /\ B * B \in Nat
  BY Ranges
<1> DEFINE x == sim.a  y == sim.b
<1>4. x \in Nat /\ y \in Nat /\ x \div B < H /\ y \div B <= x \div B /\ B <= y
  <2>1. sim.b \div B <= sim.a \div B /\ (B <= sim.b \/ H <= sim.a \div B)
    BY <1>1 DEF Shape, Places
  <2>2. sim.a \div B \in Nat
    BY <1>2, <1>3, DivMod
  <2> DEFINE q == sim.a \div B
  <2>3. ~(H <= q)
    BY <1>1, <1>3, <2>2
  <2> QED
    BY <1>1, <1>2, <2>1, <2>3
<1> HIDE DEF x, y
<1>5. x \div B \in Nat /\ y \div B \in Nat
  BY <1>3, <1>4, DivMod
<1>6. x < B * H /\ y < B * H
  <2>1. y \div B < H
    <3> DEFINE q == x \div B  s == y \div B
    <3>1. q \in Nat /\ s \in Nat /\ q < H /\ s <= q
      BY <1>4, <1>5
    <3> HIDE DEF q, s, H
    <3>2. s < H
      BY <1>3, <3>1
    <3> QED
      BY <3>2 DEF s
  <2> HIDE DEF B, H
  <2> QED
    BY <1>3, <1>4, <2>1, QuotientCompares
<1>7. B * H = H * B
  BY <1>3
<1>8. (x \div H) % B \in LimbValues /\ (y \div H) % B = y \div H /\ y \div H \in LimbValues
  <2> HIDE DEF B, H
  <2>1. x < H * B /\ y < H * B
    BY <1>6, <1>7
  <2>2. (x \div H) % B = x \div H /\ x \div H \in 0 .. B - 1
    BY <1>3, <1>4, <2>1, QuotientMod
  <2>3. (y \div H) % B = y \div H /\ y \div H \in 0 .. B - 1
    BY <1>3, <1>4, <2>1, QuotientMod
  <2> QED
    BY <2>2, <2>3 DEF LimbValues
<1>9. y \div H > 0
  <2>1. H * H <= y
    BY <1>3, <1>4
  <2> HIDE DEF B, H
  <2>2. y \div H \in Nat /\ (y \div H < H => y < H * H)
    BY <1>3, <1>4, QuotientCompares
  <2> DEFINE q == y \div H  s == H * H
  <2>3. q \in Nat /\ s \in Nat /\ s <= y /\ (q < H => y < s)
    BY <1>3, <2>1, <2>2
  <2> HIDE DEF q, s
  <2>4. q > 0
    BY <1>3, <1>4, <2>3
  <2> QED
    BY <2>4 DEF q
<1>10. sim'.a \in LimbValues /\ sim'.b \in LimbValues \ {0}
  <2>1. sim'.a = (x \div H) % B /\ sim'.b = (y \div H) % B
    BY <1>1, <1>2 DEF Sims, x, y
  <2>2. y \div H # 0
    BY <1>9
  <2> QED
    BY <1>8, <2>1, <2>2
<1>11. sim' \in Sims
  <2>1. LimbValues \subseteq Pairs
    <3> HIDE DEF B
    <3> QED
      BY <1>3 DEF LimbValues, Pairs
  <2>2. (x \div H) % B \in Pairs /\ (y \div H) % B \in Pairs
    BY <1>8, <2>1
  <2> HIDE DEF B, H
  <2> QED
    BY <1>1, <1>2, <2>2 DEF Sims, x, y
<1>12. Values'
  BY <1>1, <1>11 DEF Shape, Values
<1>13. Counts'
  BY <1>1 DEF Shape, Counts
<1>14. Places'
  <2>1. tal = Larger(LimbCount(tad), tbl) /\ tbl >= 2
    BY <1>1 DEF Shape, Places
  <2>2. Larger(LimbCount(tad), tbl)' = Larger(LimbCount(tad), tbl)
    BY <1>1
  <2> QED
    BY <1>1, <1>10, <2>1, <2>2 DEF Places
<1> QED
  BY <1>12, <1>13, <1>14 DEF Shape

(* Both steps of phase two are such steps.                                 *)
LEMMA Phase2Shape == Shape /\ (Phase2Divide \/ Phase2Subtract) => Shape'
<1> SUFFICES ASSUME Shape, Phase2Divide \/ Phase2Subtract PROVE Shape'
  OBVIOUS
<1>1. pc = "phase2"
  BY DEF Phase2Divide, Phase2Subtract
<1>2. borrowed' \in BOOLEAN
  <2>1. CASE Phase2Divide
    BY <2>1 DEF Phase2Divide, Shape, Values
  <2>2. CASE Phase2Subtract
    BY <2>2 DEF Phase2Subtract, Shape, Values
  <2> QED
    BY <2>1, <2>2
<1>3. sim.a \in LimbValues /\ sim.b \in LimbValues \ {0} /\ B \in Nat \ {0} /\ H \in Nat
      /\ H >= 4 /\ 2 * H \in Nat
  BY <1>1, Ranges DEF Shape, Places
<1>4. sim.b \in Nat /\ sim.b > 0 /\ sim.b < B
  BY <1>3 DEF LimbValues
<1>5. CASE Phase2Divide
  <2> DEFINE q == sim.a \div sim.b  z == sim.a % sim.b
  <2>1. q \in Nat /\ z \in Pairs /\ z \in Nat /\ z < sim.b /\ Simulate(q, z, 2 * H)
    BY <1>4, <1>5, SimulationTypes DEF Phase2Divide
  <2> HIDE DEF q, z, B, H
  <2>2. ~(z < 2 * H) => z \in LimbValues \ {0}
    BY <1>3, <1>4, <2>1 DEF LimbValues
  <2>3. pc # "phase1"
    BY <1>1
  <2> DEFINE g == 2 * H
  <2>4. g \in Nat /\ Simulate(q, z, g) /\ (~(z < g) => z \in LimbValues \ {0})
    BY <1>3, <2>1, <2>2
  <2> HIDE DEF g
  <2> QED
    BY <1>1, <1>2, <2>1, <2>3, <2>4, SimulateShape
<1>6. CASE Phase2Subtract
  <2> DEFINE z == Difference1
  <2>1. z \in Pairs /\ z \in LimbValues /\ Simulate(1, z, 2 * H)
    BY <1>6, SimulationTypes DEF Phase2Subtract
  <2> HIDE DEF z, B, H
  <2>2. ~(z < 2 * H) => z \in LimbValues \ {0}
    BY <1>3, <2>1 DEF LimbValues
  <2>3. pc # "phase1" /\ 1 \in Nat
    BY <1>1
  <2> DEFINE g == 2 * H
  <2>4. g \in Nat /\ Simulate(1, z, g) /\ (~(z < g) => z \in LimbValues \ {0})
    BY <1>3, <2>1, <2>2
  <2> HIDE DEF g
  <2> QED
    BY <1>1, <1>2, <2>1, <2>3, <2>4, SimulateShape
<1> QED
  BY <1>5, <1>6

(* Signed changes at most the sign.                                        *)
LEMMA SignedInt ==
  ASSUME NEW n \in Nat, NEW z \in Int
  PROVE  Signed(n, z) \in {z, -z} /\ Signed(n, z) \in Int
  BY DEF Signed

(* The scratch arrays.                                                     *)
LEMMA RoomIs ==
  ASSUME Shape
  PROVE  /\ LimbCount(ad) \in 0 .. MaxLimbs /\ LimbCount(bd) \in 0 .. MaxLimbs
         /\ Room = Larger(LimbCount(ad), LimbCount(bd)) + 2
         /\ Room \in Nat /\ Room <= Top /\ MaxLimbs \in Nat
<1>1. /\ MaxLimbs \in Limits /\ MaxLimbs \in Nat /\ B^MaxLimbs \in Nat
      /\ ad \in 1 .. B^MaxLimbs - 1 /\ bd \in 1 .. B^MaxLimbs - 1
  BY Ranges, Bases, BasePowers DEF Shape, Values
<1> DEFINE p == B^MaxLimbs
<1>2. ad \in Nat /\ bd \in Nat /\ ad < p /\ bd < p
  <2>1. p \in Nat /\ ad \in 1 .. p - 1 /\ bd \in 1 .. p - 1
    BY <1>1
  <2> HIDE DEF p
  <2> QED
    BY <2>1
<1>3. LimbCount(ad) \in 0 .. MaxLimbs /\ LimbCount(bd) \in 0 .. MaxLimbs
  BY <1>1, <1>2, CountFits
<1> DEFINE x == LimbCount(ad)  y == LimbCount(bd)
<1>4. x \in 0 .. MaxLimbs /\ y \in 0 .. MaxLimbs /\ Room = Larger(x, y) + 2
  BY <1>3 DEF Room
<1> HIDE DEF x, y
<1>5. Room \in Nat /\ Room <= MaxLimbs + 2
  BY <1>1, <1>4 DEF Larger
<1> QED
  BY <1>1, <1>3, <1>5 DEF Top, Room

(* What an update writes.                                                  *)
LEMMA ReduceTypes ==
  ASSUME NEW s \in Sims, NEW x \in Nat, NEW y \in Nat, NEW l \in Nat, l + 1 \in Limits
  PROVE  /\ ReduceBy(s, x, y, l).a \in Nat /\ ReduceBy(s, x, y, l).a < B^(l + 1)
         /\ ReduceBy(s, x, y, l).b \in Nat /\ ReduceBy(s, x, y, l).b < B^(l + 1)
         /\ CountOfBoth(ReduceBy(s, x, y, l))
              = Larger(LimbCount(ReduceBy(s, x, y, l).a), LimbCount(ReduceBy(s, x, y, l).b))
<1> DEFINE p == B^(l + 1)
           c == s.m[1] * x - s.m[2] * y
           d == s.m[4] * y - s.m[3] * x
<1>1. p \in Nat \ {0}
  BY BasePowers
<1>2. /\ s.m[1] \in Nat /\ s.m[2] \in Nat /\ s.m[3] \in Nat /\ s.m[4] \in Nat /\ s.n \in Nat
  BY Ranges DEF Sims, Entries, LimbValues
<1>3. c \in Int /\ d \in Int
  BY <1>2
<1> DEFINE e1 == Signed(s.n, c)  e2 == Signed(s.n, d)
<1>4. ReduceBy(s, x, y, l).a = e1 % p /\ ReduceBy(s, x, y, l).b = e2 % p
  BY DEF ReduceBy
<1> HIDE DEF c, d, p
<1>5. e1 \in Int /\ e2 \in Int
  BY <1>2, <1>3, SignedInt
<1> HIDE DEF e1, e2
<1>6. e1 % p \in 0 .. p - 1 /\ e2 % p \in 0 .. p - 1
  BY <1>1, <1>5
<1>7. e1 % p \in Nat /\ e1 % p < p /\ e2 % p \in Nat /\ e2 % p < p
  BY <1>1, <1>6
<1> QED
  BY <1>4, <1>7 DEF CountOfBoth, p

(* The cofactors that UPDATE_COFACTOR leaves fit the limbs cleared for     *)
(* them.                                                                   *)
LEMMA ExtendTypes ==
  ASSUME v0 \in Nat, v1 \in Nat, NEW s \in Sims, vl \in Nat, vl + 2 \in Limits
  PROVE  /\ ExtendBy(s).v0 \in Nat /\ ExtendBy(s).v0 < B^(vl + 2)
         /\ ExtendBy(s).v1 \in Nat /\ ExtendBy(s).v1 < B^(vl + 2)
<1> DEFINE p == B^vl  x == v0 % p  y == v1 % p
<1>1. vl \in Limits /\ vl + 1 \in Limits /\ vl \in 0 .. MaxLimbs + 1 /\ vl + 1 \in 0 .. MaxLimbs + 1
      /\ (vl + 1) + 1 = vl + 2
  BY Bases DEF Limits
<1>2. p \in Nat \ {0} /\ B^(vl + 2) = B * (B * p) /\ B \in Nat /\ B >= 16
  <2>1. B^vl \in Nat \ {0}
    BY <1>1, BasePowers
  <2>2. B^(vl + 1) = B * B^vl
    BY <1>1, BasePowers
  <2>3. B^((vl + 1) + 1) = B * B^(vl + 1)
    BY <1>1, BasePowers
  <2> QED
    BY <1>1, <2>1, <2>2, <2>3, Bases
<1>3. x \in 0 .. p - 1 /\ y \in 0 .. p - 1
  <2> HIDE DEF p
  <2> QED
    BY <1>2, DivMod
<1>4. /\ s.m[1] \in 0 .. B - 1 /\ s.m[2] \in 0 .. B - 1
      /\ s.m[3] \in 0 .. B - 1 /\ s.m[4] \in 0 .. B - 1
  BY DEF Sims, Entries, LimbValues
<1>5. ExtendBy(s).v0 = s.m[1] * x + s.m[2] * y /\ ExtendBy(s).v1 = s.m[3] * x + s.m[4] * y
  BY DEF ExtendBy
<1> DEFINE z == B * (B * p)
<1>6. z = B^(vl + 2)
  BY <1>2
<1> HIDE DEF p, x, y
<1>7. ASSUME NEW c \in 0 .. B - 1, NEW d \in 0 .. B - 1
      PROVE  c * x + d * y \in Nat /\ c * x + d * y < z
  <2> HIDE DEF B
  <2>1. c * x <= B * p
    <3>1. (B - c) * p >= 0 /\ (B - c) * p = B * p - c * p
      BY <1>2
    <3>2. c * (p - x) >= 0 /\ c * (p - x) = c * p - c * x
      BY <1>2, <1>3
    <3>3. c * p \in Int /\ c * x \in Int /\ B * p \in Int
      BY <1>2, <1>3
    <3> QED
      BY <3>1, <3>2, <3>3
  <2>2. d * y <= B * p
    <3>1. (B - d) * p >= 0 /\ (B - d) * p = B * p - d * p
      BY <1>2
    <3>2. d * (p - y) >= 0 /\ d * (p - y) = d * p - d * y
      BY <1>2, <1>3
    <3>3. d * p \in Int /\ d * y \in Int /\ B * p \in Int
      BY <1>2, <1>3
    <3> QED
      BY <3>1, <3>2, <3>3
  <2>3. c * x \in Nat /\ d * y \in Nat
    BY <1>2, <1>3
  <2>4. B * p > 0 /\ B * p \in Nat
    BY <1>2
  <2> DEFINE g == B * p
  <2>5. g \in Nat /\ g > 0 /\ z = B * g
    BY <2>4
  <2> HIDE DEF g
  <2>6. (B - 3) * g >= 0 /\ (B - 3) * g = B * g - 3 * g
    BY <1>2, <2>5
  <2>7. 3 * g <= z
    BY <2>5, <2>6, <1>2
  <2> DEFINE e1 == c * x  e2 == d * y
  <2>8. e1 \in Nat /\ e2 \in Nat /\ e1 <= g /\ e2 <= g
    BY <2>1, <2>2, <2>3 DEF g
  <2> HIDE DEF e1, e2, z
  <2>9. e1 + e2 \in Nat /\ e1 + e2 < z
    BY <2>5, <2>7, <2>8
  <2> QED
    BY <2>9 DEF e1, e2
<1> HIDE DEF z
<1>8. s.m[1] * x + s.m[2] * y \in Nat /\ s.m[1] * x + s.m[2] * y < z
  BY <1>4, <1>7
<1>9. s.m[3] * x + s.m[4] * y \in Nat /\ s.m[3] * x + s.m[4] * y < z
  BY <1>4, <1>7
<1> QED
  BY <1>5, <1>6, <1>8, <1>9

(* The new counts are those of the new remainders and cofactors, and vl    *)
(* rises by at most two.                                                   *)
LEMMA UpdateShape == Shape /\ Update => Shape'
<1> SUFFICES ASSUME Shape, Update PROVE Shape'
  OBVIOUS
<1> DEFINE r == ReduceBy(sim, tad, tbd, tal)
           v == ExtendBy(sim)
<1>1. /\ pc = "simulated" /\ sim.n > 0 /\ tal + 2 <= Room /\ vl + 2 <= Room
      /\ tad' = r.a /\ tbd' = r.b /\ tal' = CountOfBoth(r) /\ tbl' = LimbCount(r.b)
      /\ extended => /\ v0' = v.v0 /\ v1' = v.v1
                     /\ vl' = vl + (IF LimbAt(v.v0, vl) + LimbAt(v.v1, vl) > 0 THEN 1 ELSE 0)
      /\ ~extended => v0' = v0 /\ v1' = v1 /\ vl' = vl
      /\ lost' = (lost \/ ~Counted(v0', v1', vl'))
      /\ nc' = (nc + sim.n) % 2 /\ pc' = "loop"
      /\ UNCHANGED <<call, ad, bd, sim, res, borrowed>>
  BY DEF Update, operands, cofactors
<1>2. /\ tad \in Nat /\ tbd \in Nat /\ v0 \in Nat /\ v1 \in Nat /\ sim \in Sims /\ sim.n \in Nat
      /\ tal \in Nat /\ vl \in Nat /\ v0 < B^Top /\ v1 < B^Top /\ nc \in {0, 1} /\ MaxLimbs \in Nat
      /\ lost \in BOOLEAN /\ vl \in Limits
  BY <1>1, Bases DEF Shape, Values, Counts, Sims, Limits
<1>3. tal <= MaxLimbs /\ vl <= MaxLimbs /\ tal + 1 \in Limits /\ vl + 2 \in Limits /\ vl + 1 \in Limits
  BY <1>1, <1>2, RoomIs DEF Top, Limits
<1>4. /\ r.a \in Nat /\ r.a < B^(tal + 1) /\ r.b \in Nat /\ r.b < B^(tal + 1)
      /\ CountOfBoth(r) = Larger(LimbCount(r.a), LimbCount(r.b))
  BY <1>2, <1>3, ReduceTypes
<1>5. /\ v.v0 \in Nat /\ v.v0 < B^(vl + 2) /\ v.v1 \in Nat /\ v.v1 < B^(vl + 2)
  BY <1>2, <1>3, ExtendTypes
<1>6. /\ vl' \in Limits /\ v0' \in Nat /\ v1' \in Nat /\ v0' < B^Top /\ v1' < B^Top
  <2>1. CASE extended
    <3>1. vl' \in Limits
      <4> DEFINE d == IF LimbAt(v.v0, vl) + LimbAt(v.v1, vl) > 0 THEN 1 ELSE 0
      <4>1. d \in {0, 1} /\ vl' = vl + d
        BY <1>1, <2>1
      <4> HIDE DEF d
      <4> QED
        BY <1>2, <1>3, <4>1
    <3>2. v.v0 < B^Top /\ v.v1 < B^Top
      <4>1. vl + 2 <= Top /\ Top \in Limits
        BY <1>2, <1>3, Ranges DEF Top
      <4> DEFINE g == vl + 2
      <4>2. g \in Limits /\ g <= Top
        BY <1>3, <4>1
      <4>3. B^g <= B^Top /\ B^g \in Nat /\ B^Top \in Nat
        <5> HIDE DEF g
        <5> QED
          BY <4>1, <4>2, BaseGrows, BasePowers
      <4> DEFINE x == v.v0  y == v.v1  f1 == B^g  f2 == B^Top
      <4>4. x \in Nat /\ y \in Nat /\ f1 \in Nat /\ f2 \in Nat /\ x < f1 /\ y < f1 /\ f1 <= f2
        BY <1>5, <4>3
      <4> HIDE DEF x, y, f1, f2
      <4>5. x < f2 /\ y < f2
        BY <4>4
      <4> QED
        BY <4>5 DEF x, y, f2
    <3> HIDE DEF v
    <3> QED
      BY <1>1, <1>5, <2>1, <3>1, <3>2
  <2>2. CASE ~extended
    BY <1>1, <1>2, <2>2
  <2> QED
    BY <2>1, <2>2
<1> HIDE DEF r, v
<1>7. /\ LimbCount(r.a) \in 0 .. tal + 1 /\ LimbCount(r.b) \in 0 .. tal + 1
      /\ LimbCount(r.a) \in Limits /\ LimbCount(r.b) \in Limits
      /\ r.a < B^LimbCount(r.a) /\ r.b < B^LimbCount(r.b)
  <2> DEFINE g == tal + 1
  <2>1. g \in Limits /\ r.a < B^g /\ r.b < B^g
    BY <1>3, <1>4
  <2> HIDE DEF g
  <2>2. LimbCount(r.a) \in 0 .. g /\ LimbCount(r.b) \in 0 .. g
      /\ LimbCount(r.a) \in Limits /\ LimbCount(r.b) \in Limits
      /\ r.a < B^LimbCount(r.a) /\ r.b < B^LimbCount(r.b)
    BY <1>4, <2>1, CountFits
  <2> QED
    BY <2>2 DEF g
<1>8. /\ tal' \in 0 .. MaxLimbs + 1 /\ tad' < B^tal' /\ tbd' < B^tal'
      /\ tal' = Larger(LimbCount(tad'), tbl')
  <2> DEFINE x == LimbCount(r.a)  y == LimbCount(r.b)  g == Larger(x, y)
  <2>1. x \in 0 .. tal + 1 /\ y \in 0 .. tal + 1 /\ x \in Limits /\ y \in Limits
    BY <1>7
  <2>2. tal' = g /\ tad' = r.a /\ tbd' = r.b /\ tbl' = y
    BY <1>1, <1>4
  <2>3. r.a < B^x /\ r.b < B^y
    BY <1>7
  <2> HIDE DEF x, y
  <2>4. g \in 0 .. MaxLimbs + 1 /\ g \in Limits /\ x <= g /\ y <= g
    BY <1>2, <1>3, <2>1 DEF Larger, Limits
  <2>5. B^x <= B^g /\ B^y <= B^g /\ B^x \in Nat /\ B^y \in Nat /\ B^g \in Nat
    <3> HIDE DEF g
    <3> QED
      BY <2>1, <2>4, BaseGrows, BasePowers
  <2>6. r.a < B^g /\ r.b < B^g
    <3> DEFINE f1 == B^x  f2 == B^y  f3 == B^g
    <3>1. f1 \in Nat /\ f2 \in Nat /\ f3 \in Nat /\ f1 <= f3 /\ f2 <= f3 /\ r.a < f1 /\ r.b < f2
          /\ r.a \in Nat /\ r.b \in Nat
      BY <1>4, <2>3, <2>5
    <3> HIDE DEF f1, f2, f3
    <3>2. r.a < f3 /\ r.b < f3
      BY <3>1
    <3> QED
      BY <3>2 DEF f3
  <2>7. LimbCount(tad') = x
    BY <2>2 DEF x
  <2> HIDE DEF g
  <2>8. tal' = Larger(LimbCount(tad'), tbl')
    BY <2>2, <2>7 DEF g
  <2>9. tad' < B^tal' /\ tbd' < B^tal' /\ tal' \in 0 .. MaxLimbs + 1
    BY <2>2, <2>4, <2>6
  <2> QED
    BY <2>8, <2>9
<1>9. Values'
  <2>1. nc' \in {0, 1}
    <3> DEFINE g == nc + sim.n
    <3>1. g \in Nat /\ nc' = g % 2
      BY <1>1, <1>2
    <3> HIDE DEF g
    <3> QED
      BY <3>1
  <2>2. lost' \in BOOLEAN
    BY <1>1, <1>2 DEF Counted
  <2>3. tad' \in Nat /\ tbd' \in Nat
    BY <1>1, <1>4
  <2> QED
    BY <1>1, <1>6, <2>1, <2>2, <2>3 DEF Shape, Values
<1>10. Counts'
  <2>1. tbl' = LimbCount(tbd')
    BY <1>1
  <2> QED
    BY <1>6, <1>8, <2>1 DEF Counts, Limits
<1>11. Places'
  BY <1>1, <1>8 DEF Places
<1> QED
  BY <1>9, <1>10, <1>11 DEF Shape

(* The new cofactor of a division fits into as many limbs as its operands  *)
(* have together.                                                          *)
LEMMA CofactorFits ==
  ASSUME NEW x \in Nat, NEW y \in Nat, NEW c \in Nat, NEW d \in Nat, NEW j \in Nat,
         NEW l \in Nat, j + l \in Limits, c < B^l, d \in Nat \ {0}
  PROVE  /\ (x % B^j) + (y % B^j) * (c \div d) \in Nat
         /\ (x % B^j) + (y % B^j) * (c \div d) < B^(j + l)
<1>1. /\ j \in Limits /\ l \in Limits /\ B^j \in Nat \ {0} /\ B^l \in Nat \ {0}
      /\ B^(j + l) = B^j * B^l
  <2>1. j \in Limits /\ l \in Limits
    BY Bases DEF Limits
  <2> QED
    BY <2>1, BasePowers, BaseSum
<1> DEFINE p == B^j  f == B^l  x1 == x % p  y1 == y % p  q == c \div d
<1>2. p \in Nat \ {0} /\ f \in Nat \ {0} /\ B^(j + l) = p * f /\ c < f
  BY <1>1
<1> HIDE DEF p, f
<1>3. x1 \in 0 .. p - 1 /\ y1 \in 0 .. p - 1
  BY <1>2, DivMod
<1>4. q \in Nat /\ q <= c
  <2>1. q \in Nat /\ c % d \in 0 .. d - 1 /\ c = d * q + (c % d)
    BY DivMod
  <2> DEFINE s == c % d
  <2>2. s \in Nat /\ c = d * q + s
    BY <2>1
  <2> HIDE DEF q, s
  <2>3. (d - 1) * q >= 0 /\ (d - 1) * q = d * q - q /\ d * q \in Int
    BY <2>1
  <2> QED
    BY <2>1, <2>2, <2>3
<1> HIDE DEF x1, y1, q
<1>5. y1 * q <= (p - 1) * (f - 1) /\ y1 * q \in Nat
  <2>1. (p - 1 - y1) * q >= 0 /\ (p - 1 - y1) * q = (p - 1) * q - y1 * q
    BY <1>2, <1>3, <1>4
  <2>2. (p - 1) * (f - 1 - q) >= 0 /\ (p - 1) * (f - 1 - q) = (p - 1) * (f - 1) - (p - 1) * q
    BY <1>2, <1>4
  <2>3. (p - 1) * q \in Int /\ y1 * q \in Nat /\ (p - 1) * (f - 1) \in Int
    BY <1>2, <1>3, <1>4
  <2> QED
    BY <2>1, <2>2, <2>3
<1>6. (p - 1) * (f - 1) = p * f - p - f + 1 /\ p * f \in Int
  BY <1>2
<1> DEFINE g == y1 * q  z == p * f
<1>7. g \in Nat /\ z \in Int /\ g <= z - p - f + 1
  BY <1>5, <1>6
<1> HIDE DEF g, z
<1>8. x1 + g \in Nat /\ x1 + g < z
  BY <1>2, <1>3, <1>7
<1> QED
  BY <1>2, <1>8 DEF g, z, x1, y1, q, p

(* The division of whole operands keeps the counts.                        *)
LEMMA EuclidStepShape == Shape /\ EuclidStep => Shape'
<1> SUFFICES ASSUME Shape, EuclidStep PROVE Shape'
  OBVIOUS
<1> DEFINE v == IF tad < tbd THEN v0
                ELSE (v0 % B^vl) + (v1 % B^vl) * (tad \div tbd)
<1>1. /\ \/ pc = "simulated" /\ sim.n = 0 /\ pc' = "loop"
         \/ pc = "loop" /\ tbl = 1 /\ tal > 1 /\ pc' = "word"
      /\ vl + tal <= Room
      /\ tad' = tbd /\ tal' = tbl
      /\ tbd' = tad % tbd /\ tbl' = LimbCount(tad % tbd)
      /\ extended => v0' = v1 /\ v1' = v /\ vl' = LimbCount(v)
      /\ ~extended => v0' = v0 /\ v1' = v1 /\ vl' = vl
      /\ lost' = (lost \/ ~Counted(v0', v1', vl'))
      /\ nc' = 1 - nc
      /\ UNCHANGED <<call, ad, bd, sim, res, borrowed>>
  BY DEF EuclidStep, operands, cofactors
<1>2. /\ tad \in Nat /\ tbd \in Nat /\ v0 \in Nat /\ v1 \in Nat /\ sim \in Sims
      /\ tal \in 0 .. MaxLimbs + 1 /\ vl \in Limits /\ v0 < B^Top /\ v1 < B^Top /\ nc \in {0, 1}
      /\ MaxLimbs \in Nat /\ tad < B^tal /\ tbd < B^tal /\ tbl = LimbCount(tbd)
      /\ lost \in BOOLEAN /\ tal \in Limits /\ tal \in Nat /\ vl \in Nat
  BY <1>1, Bases DEF Shape, Values, Counts, Limits
<1>3. tbl >= 1
  <2>1. tbl \in Nat
    BY <1>2, LimbCountIs
  <2>2. tbl >= 2 \/ tbl = 1
    BY <1>1 DEF Shape, Places
  <2> QED
    BY <2>1, <2>2
<1>4. tbd \in Nat \ {0}
  BY <1>2, <1>3, LimbCountIs
<1>5. tbl \in 0 .. tal /\ tbl \in Limits /\ tbd < B^tbl
  BY <1>2, CountFits
<1>6. tbd' \in Nat /\ tbd' < tbd
  BY <1>1, <1>2, <1>4, DivMod
<1>7. tbd' < B^tbl /\ B^tbl \in Nat
  <2>1. B^tbl \in Nat
    BY <1>5, BasePowers
  <2> DEFINE f == B^tbl
  <2>2. f \in Nat /\ tbd < f
    BY <1>5, <2>1
  <2> HIDE DEF f
  <2>3. tbd' < f
    BY <1>2, <1>6, <2>2
  <2> QED
    BY <2>1, <2>3 DEF f
<1>8. tbl' \in 0 .. tbl
  BY <1>1, <1>5, <1>6, <1>7, CountFits
<1>9. v \in Nat /\ v < B^Top
  <2>1. CASE tad < tbd
    BY <1>2, <2>1
  <2>2. CASE ~(tad < tbd)
    <3>1. vl + tal \in Limits /\ vl + tal <= Top /\ Top \in Limits
      BY <1>1, <1>2, RoomIs, Ranges DEF Top, Limits
    <3>2. v = (v0 % B^vl) + (v1 % B^vl) * (tad \div tbd)
      BY <2>2
    <3> HIDE DEF v
    <3>3. v \in Nat /\ v < B^(vl + tal)
      <4>1. /\ (v0 % B^vl) + (v1 % B^vl) * (tad \div tbd) \in Nat
            /\ (v0 % B^vl) + (v1 % B^vl) * (tad \div tbd) < B^(vl + tal)
        BY <1>2, <1>4, <3>1, CofactorFits
      <4> QED
        BY <3>2, <4>1
    <3> DEFINE g == vl + tal
    <3>4. g \in Limits /\ g <= Top /\ v < B^g
      BY <3>1, <3>3
    <3> HIDE DEF g, v
    <3>5. B^g <= B^Top /\ B^g \in Nat /\ B^Top \in Nat
      BY <3>1, <3>4, BaseGrows, BasePowers
    <3> DEFINE x == B^g  y == B^Top
    <3>6. x \in Nat /\ y \in Nat /\ x <= y /\ v < x
      BY <3>4, <3>5
    <3> HIDE DEF x, y
    <3>7. v < y
      BY <3>3, <3>6
    <3> QED
      BY <3>3, <3>7 DEF y
  <2> QED
    BY <2>1, <2>2
<1> HIDE DEF v
<1>10. LimbCount(v) \in Limits
  BY <1>9, Ranges, CountFits
<1>11. vl' \in Limits /\ v0' \in Nat /\ v1' \in Nat /\ v0' < B^Top /\ v1' < B^Top
  BY <1>1, <1>2, <1>9, <1>10
<1>12. nc' \in {0, 1} /\ lost' \in BOOLEAN
  BY <1>1, <1>2 DEF Counted
<1>13. Values'
  BY <1>1, <1>4, <1>6, <1>11, <1>12 DEF Shape, Values
<1>14. tal' \in 0 .. MaxLimbs + 1 /\ tad' < B^tal' /\ tbd' < B^tal' /\ tbl' = LimbCount(tbd')
  BY <1>1, <1>2, <1>5, <1>7
<1>15. Counts'
  BY <1>11, <1>14 DEF Counts
<1>16. tal' = Larger(LimbCount(tad'), tbl')
  <2>1. LimbCount(tad') = tbl
    BY <1>1, <1>2
  <2> QED
    BY <1>1, <1>5, <1>8, <2>1 DEF Larger
<1>17. Places'
  BY <1>1, <1>16 DEF Places
<1> QED
  BY <1>13, <1>15, <1>17 DEF Shape

(* The operands of one limb are the remainders.                            *)
LEMMA StartWordShape == Shape /\ StartWord => Shape'
<1> SUFFICES ASSUME Shape, StartWord PROVE Shape'
  OBVIOUS
<1> DEFINE x == tad % B  y == tbd % B
<1>1. /\ pc = "word" \/ (pc = "loop" /\ tbl = 1 /\ tal = 1)
      /\ sim' = (IF x >= y THEN Start(x, y) ELSE StartExchanged(x, y))
      /\ pc' = "limbs"
      /\ UNCHANGED <<call, ad, bd, tad, tbd, tal, tbl, v0, v1, vl, nc, res, borrowed, lost>>
  BY DEF StartWord, operands, remainders, cofactors, history
<1>2. x \in Pairs /\ y \in Pairs
  <2>1. tad \in Nat /\ tbd \in Nat /\ B \in Nat \ {0} /\ B < B * B /\ B * B \in Nat
    BY Ranges DEF Shape, Values
  <2> DEFINE f == B * B
  <2>2. x \in 0 .. B - 1 /\ y \in 0 .. B - 1 /\ f \in Nat /\ B < f
    BY <2>1, DivMod
  <2> HIDE DEF f, x, y, B
  <2>3. x \in 0 .. f - 1 /\ y \in 0 .. f - 1
    BY <2>1, <2>2
  <2> QED
    BY <2>3 DEF f, Pairs
<1> HIDE DEF x, y
<1>3. sim' \in Sims
  BY <1>1, <1>2, Ranges DEF Sims, Start, StartExchanged
<1>4. Values'
  BY <1>1, <1>3 DEF Shape, Values
<1>5. tal = 1
  BY <1>1 DEF Shape, Places
<1>6. Counts'
  BY <1>1 DEF Shape, Counts
<1>7. Places'
  BY <1>1, <1>5 DEF Places
<1> QED
  BY <1>4, <1>6, <1>7 DEF Shape

(* A remainder of limbs is a limb.                                         *)
LEMMA WordDivideShape == Shape /\ WordDivide => Shape'
<1> SUFFICES ASSUME Shape, WordDivide PROVE Shape'
  OBVIOUS
<1>1. /\ pc = "limbs" /\ pc' = "limbs" /\ sim.b > 0
      /\ sim' = StepBy(sim, sim.a \div sim.b)
      /\ UNCHANGED <<call, ad, bd, tad, tbd, tal, tbl, v0, v1, vl, nc, res, borrowed, lost>>
  BY DEF WordDivide, operands, remainders, cofactors, history
<1>2. /\ sim \in Sims /\ sim.a \in Nat /\ sim.b \in Nat /\ sim.a \div sim.b \in Nat
      /\ sim.a % sim.b \in Pairs /\ sim.m \in Entries /\ sim.n \in Nat
      /\ sim.b \in Pairs
  BY <1>1, SimulationTypes
<1> DEFINE q == sim.a \div sim.b
<1>3. sim.a - q * sim.b = sim.a % sim.b
  <2>1. sim.a = sim.b * q + (sim.a % sim.b) /\ sim.a % sim.b \in Nat
    <3> DEFINE x == sim.a  y == sim.b
    <3>1. y \in Nat \ {0} /\ x \in Nat
      BY <1>1, <1>2
    <3> HIDE DEF x, y
    <3>2. x = y * (x \div y) + (x % y) /\ x % y \in 0 .. y - 1
      BY <3>1, DivMod
    <3>3. x % y \in Nat
      BY <3>1, <3>2
    <3> QED
      BY <3>2, <3>3 DEF x, y
  <2> DEFINE g == sim.b * q  s == sim.a % sim.b
  <2>2. g \in Nat /\ g = q * sim.b /\ sim.a = g + s /\ s \in Nat
    BY <1>2, <2>1
  <2> HIDE DEF g, s, q
  <2>3. sim.a - g = s
    BY <1>2, <2>2
  <2> QED
    BY <2>2, <2>3 DEF s
<1>4. sim' = [a |-> sim.b, b |-> sim.a % sim.b, m |-> Times(q, sim.m), n |-> sim.n + 1]
  BY <1>1, <1>3 DEF StepBy
<1>5. Times(q, sim.m) \in Entries
  BY <1>2, TimesEntries
<1> HIDE DEF q
<1>6. sim' \in Sims
  BY <1>2, <1>4, <1>5 DEF Sims
<1>7. Values'
  BY <1>1, <1>6 DEF Shape, Values
<1>8. Counts'
  BY <1>1 DEF Shape, Counts
<1>9. Places'
  BY <1>1 DEF Shape, Places
<1> QED
  BY <1>7, <1>8, <1>9 DEF Shape

(* Both ways out of the loop on limbs lead to the last update.             *)
LEMMA WordDoneShape == Shape /\ (WordDone \/ NoWord) => Shape'
<1> SUFFICES ASSUME Shape, WordDone \/ NoWord PROVE Shape'
  OBVIOUS
<1>1. /\ pc \in {"limbs", "loop"} /\ pc' = "last"
      /\ nc' = (nc + sim.n) % 2 \/ nc' = nc
      /\ UNCHANGED <<call, ad, bd, tad, tbd, tal, tbl, v0, v1, vl, sim, res, borrowed, lost>>
  BY DEF WordDone, NoWord, operands, remainders, cofactors, history
<1>2. nc \in {0, 1} /\ sim.n \in Nat
  BY SimulationTypes DEF Shape, Values
<1>3. nc' \in {0, 1}
  <2> DEFINE g == nc + sim.n
  <2>1. g \in Nat /\ (nc' = g % 2 \/ nc' = nc)
    BY <1>1, <1>2
  <2> HIDE DEF g
  <2> QED
    BY <1>2, <2>1
<1>4. Values'
  BY <1>1, <1>3 DEF Shape, Values
<1>5. Counts'
  BY <1>1 DEF Shape, Counts
<1>6. Places'
  BY <1>1 DEF Places
<1> QED
  BY <1>4, <1>5, <1>6 DEF Shape

(* The results have the types of results, and the scratch arrays room for  *)
(* the last cofactors.                                                     *)
LEMMA LastShape == Shape /\ Last => Shape'
<1> SUFFICES ASSUME Shape, Last PROVE Shape'
  OBVIOUS
<1> DEFINE r == ReduceBy(sim, tad, tbd, tal)
           x == ExtendBy(sim)
           v == x.v0 % B^(vl + 1)
<1>1. /\ pc = "last" /\ tal + 2 <= Room /\ vl + 2 <= Room
      /\ tad' = r.a /\ tbd' = r.b
      /\ extended => v0' = v /\ v1' = x.v1
      /\ ~extended => v0' = v0 /\ v1' = v1
      /\ pc' = "done"
      /\ UNCHANGED <<call, ad, bd, nc, sim, borrowed, lost>>
  BY DEF Last, operands, cofactors, history
<1>2. /\ tad \in Nat /\ tbd \in Nat /\ v0 \in Nat /\ v1 \in Nat /\ sim \in Sims
      /\ tal \in Nat /\ vl \in Nat /\ MaxLimbs \in Nat
  BY <1>1, Bases DEF Shape, Values, Counts, Limits
<1>3. tal + 1 \in Limits /\ vl + 2 \in Limits /\ vl + 1 \in Limits
  BY <1>1, <1>2, RoomIs DEF Top, Limits
<1>4. r.a \in Nat /\ r.b \in Nat
  BY <1>2, <1>3, ReduceTypes
<1>5. x.v0 \in Nat /\ x.v1 \in Nat
  BY <1>2, <1>3, ExtendTypes
<1>6. v \in Nat
  <2> DEFINE f == B^(vl + 1)  z == x.v0
  <2>1. f \in Nat \ {0} /\ z \in Nat /\ v = z % f
    BY <1>3, <1>5, BasePowers
  <2> HIDE DEF f, z, v
  <2> QED
    BY <2>1, DivMod
<1> HIDE DEF r, x, v
<1>7. Values'
  BY <1>1, <1>2, <1>4, <1>5, <1>6 DEF Shape, Values
<1>8. Counts' /\ Places'
  BY <1>1 DEF Counts, Places
<1> QED
  BY <1>7, <1>8 DEF Shape

(* After a write past an array nothing is promised but the types.          *)
LEMMA OverrunShape == Shape /\ Overrun => Shape'
<1> SUFFICES ASSUME Shape, Overrun PROVE Shape'
  OBVIOUS
<1>1. /\ pc' = "overrun" /\ pc # "done"
      /\ UNCHANGED <<call, ad, bd, tad, tbd, tal, tbl, v0, v1, vl, nc, sim, res, borrowed, lost>>
  BY DEF Overrun, operands, remainders, cofactors, history
<1> QED
  BY <1>1 DEF Shape, Values, Counts, Places

(* Shape holds from the first state on.                                    *)
LEMMA ShapeInvariant == Spec => []Shape
<1>1. Init => Shape
  BY InitShape
<1>2. Shape /\ [Next]_vars => Shape'
  <2> SUFFICES ASSUME Shape, [Next]_vars PROVE Shape'
    OBVIOUS
  <2>1. CASE UNCHANGED vars
    BY <2>1 DEF vars, Shape, Values, Counts, Places
  <2>2. CASE Done
    BY <2>2 DEF Done, vars, Shape, Values, Counts, Places
  <2>3. CASE Step
    BY <2>3, StartSimulationShape, Phase1Shape, NarrowShape, Phase2Shape, UpdateShape,
       EuclidStepShape, StartWordShape, WordDivideShape, WordDoneShape, LastShape, OverrunShape
       DEF Step
  <2> QED
    BY <2>1, <2>2, <2>3 DEF Next
<1> QED
  BY <1>1, <1>2, PTL DEF Spec

(* TypeOK: the limbs, counts, matrix entries and results stay in their     *)
(* ranges, for every call of ll_lehmer_exgcd, every even width of a limb   *)
(* and all operands.                                                       *)
THEOREM LehmerTypes == Spec => []TypeOK
<1>1. Shape => TypeOK
  <2> SUFFICES ASSUME Shape PROVE TypeOK
    OBVIOUS
  <2>1. sim \in [a : 0 .. B^2 - 1, b : 0 .. B^2 - 1, m : Matrices, n : Nat]
    <3>1. /\ sim \in Sims /\ sim.a \in Pairs /\ sim.b \in Pairs /\ sim.m \in Entries /\ sim.n \in Nat
      BY SimulationTypes
    <3>2. sim = [a |-> sim.a, b |-> sim.b, m |-> sim.m, n |-> sim.n]
      BY <3>1 DEF Sims
    <3>3. 0 .. B^2 - 1 = Pairs
      BY Ranges DEF Pairs
    <3>4. sim.m \in Matrices
      BY <3>1, Ranges DEF Matrices, Entries, LimbValues
    <3> QED
      BY <3>1, <3>2, <3>3, <3>4
  <2>2. pc # "done" => tal >= LimbCount(tad) /\ tal >= tbl /\ tbl = LimbCount(tbd)
    <3> SUFFICES ASSUME pc # "done" PROVE tal >= LimbCount(tad) /\ tal >= tbl /\ tbl = LimbCount(tbd)
      OBVIOUS
    <3>1. /\ tal \in 0 .. MaxLimbs + 1 /\ tad < B^tal /\ tbd < B^tal /\ tbl = LimbCount(tbd)
          /\ tad \in Nat /\ tbd \in Nat /\ MaxLimbs \in Nat
      BY Bases DEF Shape, Counts, Values
    <3>2. tal \in Limits
      BY <3>1 DEF Limits
    <3>3. LimbCount(tad) \in 0 .. tal /\ LimbCount(tbd) \in 0 .. tal
      BY <3>1, <3>2, CountFits
    <3> QED
      BY <3>1, <3>3
  <2> QED
    BY <2>1, <2>2 DEF Shape, Values, TypeOK
<1> QED
  BY <1>1, ShapeInvariant, PTL

(* A common factor of an inequality.                                       *)
LEMMA SmallerFactor ==
  ASSUME NEW c \in Int, NEW d \in Int, NEW z \in Nat
  PROVE  /\ c * z < d * z => c < d
         /\ c <= d => c * z <= d * z
         /\ c < d /\ z > 0 => c * z < d * z
<1>1. (d - c) * z = d * z - c * z /\ c * z \in Int /\ d * z \in Int
  OBVIOUS
<1>2. (c - d) * z = c * z - d * z
  OBVIOUS
<1>3. d >= c => (d - c) * z >= 0
  OBVIOUS
<1>4. c >= d => (c - d) * z >= 0
  OBVIOUS
<1>5. d > c /\ z > 0 => (d - c) * z > 0
  OBVIOUS
<1> QED
  BY <1>1, <1>2, <1>3, <1>4, <1>5

(* The four entries of a matrix.                                           *)
LEMMA EntryTypes ==
  ASSUME NEW mat \in Entries
  PROVE  /\ mat[1] \in Nat /\ mat[2] \in Nat /\ mat[3] \in Nat /\ mat[4] \in Nat
         /\ mat[1] < B /\ mat[2] < B /\ mat[3] < B /\ mat[4] < B
         /\ mat = <<mat[1], mat[2], mat[3], mat[4]>>
<1>1. /\ mat[1] \in 0 .. B - 1 /\ mat[2] \in 0 .. B - 1
      /\ mat[3] \in 0 .. B - 1 /\ mat[4] \in 0 .. B - 1
      /\ mat = <<mat[1], mat[2], mat[3], mat[4]>>
  BY DEF Entries, LimbValues
<1>2. B \in Nat
  BY Ranges
<1> QED
  BY <1>1, <1>2

(* A step of the simulation changes the sign, and the first sign is 1.     *)
LEMMA OneStep ==
  ASSUME NEW n \in Nat
  PROVE  /\ Signed(n, 1) \in {1, -1} /\ Signed(n + 1, 1) = -Signed(n, 1)
         /\ Signed(0, 1) = 1 /\ Signed(1, 1) = -1
<1>1. n % 2 \in {0, 1} /\ (n + 1) % 2 = 1 - (n % 2)
  OBVIOUS
<1>2. 0 % 2 = 0 /\ 1 % 2 = 1
  OBVIOUS
<1> QED
  BY <1>1, <1>2 DEF Signed

------------------------------------------------------------------------------
(* The matrix mat of n quotients has led from x and y to u and z; its      *)
(* inverse leads back.                                                     *)
Remains(mat, n, x, y, u, z) ==
  /\ mat \in Entries /\ n \in Nat /\ u \in Nat /\ z \in Nat
  /\ x = mat[4] * u + mat[2] * z
  /\ y = mat[3] * u + mat[1] * z
  /\ mat[1] * mat[4] - mat[2] * mat[3] = Signed(n, 1)
  /\ n = 0 => mat = Identity

(* The matrix that one more quotient makes of mat.                         *)
Grown(mat, q) == <<mat[3], mat[4], mat[1] + mat[3] * q, mat[2] + mat[4] * q>>

(* The quotient q leaves a remainder, and z is large enough for it.        *)
Enough(x, y, u, z, q) == q * z <= u /\ x < B * z /\ y < B * z

(* One more quotient: no entry of the matrix outgrows its limb.            *)
LEMMA RemainsStep ==
  ASSUME NEW mat \in Entries, NEW n \in Nat, NEW x \in Nat, NEW y \in Nat,
         NEW u \in Nat, NEW z \in Nat, Remains(mat, n, x, y, u, z),
         NEW q \in Nat, Enough(x, y, u, z, q)
  PROVE  /\ Remains(Times(q, mat), n + 1, x, y, z, u - q * z)
         /\ Times(q, mat) = Grown(mat, q)
<1> DEFINE m1 == mat[1]  m2 == mat[2]  m3 == mat[3]  m4 == mat[4]
           c1 == m1 + m3 * q  c2 == m2 + m4 * q
<1>1. /\ mat \in Entries /\ n \in Nat /\ u \in Nat /\ z \in Nat
      /\ x = m4 * u + m2 * z
      /\ y = m3 * u + m1 * z
      /\ m1 * m4 - m2 * m3 = Signed(n, 1)
  BY DEF Remains
<1>2. m1 \in Nat /\ m2 \in Nat /\ m3 \in Nat /\ m4 \in Nat /\ B \in Nat /\ B > 0
  BY <1>1, EntryTypes, Ranges
<1>3. Times(q, mat) = <<m3, m4, c1 % B, c2 % B>>
  BY DEF Times
<1>4. c1 \in Nat /\ c2 \in Nat
  BY <1>2
<1> DEFINE rest == u - q * z
<1>0. q * z <= u /\ x < B * z /\ y < B * z
  BY DEF Enough
<1>5. rest \in Nat /\ q * z \in Nat
  BY <1>0, <1>1
<1>6. x = m4 * rest + c2 * z /\ y = m3 * rest + c1 * z
  <2> HIDE DEF m1, m2, m3, m4
  <2>1. m4 * (u - q * z) + (m2 + m4 * q) * z = m4 * u + m2 * z
    BY <1>1, <1>2
  <2>2. m3 * (u - q * z) + (m1 + m3 * q) * z = m3 * u + m1 * z
    BY <1>1, <1>2
  <2> QED
    BY <1>1, <2>1, <2>2
<1>7. c1 * m2 \in Int /\ m3 * c2 - m4 * c1 = -(m1 * m4 - m2 * m3)
  <2> HIDE DEF m1, m2, m3, m4
  <2>1. m3 * (m2 + m4 * q) - m4 * (m1 + m3 * q) = -(m1 * m4 - m2 * m3)
    BY <1>2
  <2> QED
    BY <2>1, <1>2, <1>4
<1> HIDE DEF m1, m2, m3, m4, c1, c2, rest
<1>8. c1 < B /\ c2 < B
  <2>1. m4 * rest \in Nat /\ c2 * z \in Nat /\ m3 * rest \in Nat /\ c1 * z \in Nat /\ B * z \in Nat
    BY <1>1, <1>2, <1>4, <1>5
  <2>2. c2 * z < B * z /\ c1 * z < B * z
    BY <1>0, <1>6, <2>1
  <2> QED
    BY <1>1, <1>2, <1>4, <2>2, SmallerFactor
<1>9. c1 % B = c1 /\ c2 % B = c2
  BY <1>2, <1>4, <1>8
<1> DEFINE new == <<m3, m4, c1, c2>>
<1>10. Times(q, mat) = new
  BY <1>3, <1>9
<1>11. m3 \in LimbValues /\ m4 \in LimbValues /\ c1 \in LimbValues /\ c2 \in LimbValues
  <2>1. m3 < B /\ m4 < B
    BY <1>1, EntryTypes DEF m3, m4
  <2> QED
    BY <1>2, <1>4, <1>8, <2>1 DEF LimbValues
<1>12. new \in Entries /\ new[1] = m3 /\ new[2] = m4 /\ new[3] = c1 /\ new[4] = c2
  BY <1>11 DEF Entries
<1>13. Signed(n + 1, 1) = -Signed(n, 1)
  BY <1>1, OneStep
<1>14. n + 1 \in Nat /\ n + 1 # 0
  BY <1>1
<1>15. x = c2 * z + m4 * rest /\ y = c1 * z + m3 * rest
  BY <1>1, <1>2, <1>4, <1>5, <1>6
<1>16. m3 * c2 - m4 * c1 = Signed(n + 1, 1)
  BY <1>1, <1>7, <1>13
<1> HIDE DEF new
<1>17. Remains(new, n + 1, x, y, z, rest)
  BY <1>1, <1>5, <1>12, <1>14, <1>15, <1>16 DEF Remains
<1> QED
  BY <1>10, <1>17 DEF Grown, rest, new, m1, m2, m3, m4, c1, c2

(* Where a simulation begins.                                              *)
LEMMA RemainsStart ==
  ASSUME NEW x \in Nat, NEW y \in Nat
  PROVE  Remains(Identity, 0, x, y, x, y) /\ Remains(Exchange, 1, x, y, y, x)
<1>1. Identity \in Entries /\ Exchange \in Entries
  BY Ranges
<1>2. /\ Identity[1] = 1 /\ Identity[2] = 0 /\ Identity[3] = 0 /\ Identity[4] = 1
      /\ Exchange[1] = 0 /\ Exchange[2] = 1 /\ Exchange[3] = 1 /\ Exchange[4] = 0
  BY DEF Identity, Exchange
<1>3. Signed(0, 1) = 1 /\ Signed(1, 1) = -1
  BY OneStep
<1>4. Remains(Identity, 0, x, y, x, y)
  BY <1>1, <1>2, <1>3 DEF Remains
<1>5. Remains(Exchange, 1, x, y, y, x)
  BY <1>1, <1>2, <1>3 DEF Remains
<1> QED
  BY <1>4, <1>5

(* The entries of the second row, against the remainders they belong to.   *)
LEMMA RowIsSmall ==
  ASSUME NEW mat, NEW n, NEW x \in Nat, NEW y \in Nat, NEW u, NEW z,
         Remains(mat, n, x, y, u, z), NEW l \in Nat, x < l * u, y < l * u
  PROVE  mat[3] < l /\ mat[4] < l
<1> DEFINE m1 == mat[1]  m2 == mat[2]  m3 == mat[3]  m4 == mat[4]
<1>1. /\ mat \in Entries /\ n \in Nat /\ u \in Nat /\ z \in Nat
      /\ x = m4 * u + m2 * z
      /\ y = m3 * u + m1 * z
  BY DEF Remains
<1>2. m1 \in Nat /\ m2 \in Nat /\ m3 \in Nat /\ m4 \in Nat
  BY <1>1, EntryTypes
<1> HIDE DEF m1, m2, m3, m4
<1>3. m4 * u \in Nat /\ m2 * z \in Nat /\ m3 * u \in Nat /\ m1 * z \in Nat /\ l * u \in Nat
  BY <1>1, <1>2
<1>4. m4 * u < l * u /\ m3 * u < l * u
  BY <1>1, <1>3
<1>5. m4 < l /\ m3 < l
  BY <1>1, <1>2, <1>4, SmallerFactor
<1> QED
  BY <1>5 DEF m3, m4

FirstRow(mat, p) == mat[1] <= p /\ mat[2] <= p
SecondRow(mat, p) == mat[3] <= p /\ mat[4] <= p

(* Applied to whole operands, whose lower limbs were never looked at, the  *)
(* matrix leaves no remainder that is zero or negative, and a second one   *)
(* of at most eight times the first.                                       *)
Safe(mat, u, z) ==
  \E p, q \in Nat : /\ FirstRow(mat, p) /\ SecondRow(mat, q)
                    /\ p < u /\ q < z /\ z + q <= 8 * (u - p)

(* It leaves a first one of at most eight times the second.                *)
Near(mat, u, z) ==
  \E p, q \in Nat : /\ FirstRow(mat, p) /\ SecondRow(mat, q)
                    /\ q < z /\ u + p <= 8 * (z - q)

Ordered(mat) == mat[1] <= mat[3] /\ mat[2] <= mat[4]

(* The second cofactor is the larger one, or not much smaller.             *)
Rows(mat, n, u, z) ==
  n = 0 \/ (mat = Exchange /\ n = 1) \/ Ordered(mat) \/ Near(mat, u, z)

(* A quotient that is not zero orders the rows; a zero exchanges them.     *)
LEMMA RowsStep ==
  ASSUME NEW mat, NEW n, NEW u, NEW z, mat \in Entries, NEW q \in Nat,
         Times(q, mat) = Grown(mat, q),
         q >= 1 \/ Safe(mat, u, z)
  PROVE  Rows(Times(q, mat), n + 1, z, u)
<1> DEFINE m1 == mat[1]  m2 == mat[2]  m3 == mat[3]  m4 == mat[4]
           new == Times(q, mat)
<1>1. m1 \in Nat /\ m2 \in Nat /\ m3 \in Nat /\ m4 \in Nat
  BY EntryTypes
<1>2. new[1] = m3 /\ new[2] = m4 /\ new[3] = m1 + m3 * q /\ new[4] = m2 + m4 * q
  BY DEF Grown
<1> HIDE DEF new
<1>3. CASE q >= 1
  <2> HIDE DEF m1, m2, m3, m4
  <2>1. m3 * q >= m3 /\ m4 * q >= m4 /\ m3 * q \in Nat /\ m4 * q \in Nat
    <3>1. m3 * q = m3 * (q - 1) + m3 /\ m4 * q = m4 * (q - 1) + m4
      BY <1>1
    <3>2. m3 * (q - 1) >= 0 /\ m4 * (q - 1) >= 0 /\ m3 * (q - 1) \in Int /\ m4 * (q - 1) \in Int
      BY <1>1, <1>3
    <3> QED
      BY <1>1, <3>1, <3>2
  <2>2. new[1] <= new[3] /\ new[2] <= new[4]
    BY <1>1, <1>2, <2>1
  <2> QED
    BY <2>2 DEF Rows, Ordered, new
<1>4. CASE q = 0 /\ Safe(mat, u, z)
  <2>1. PICK f, g \in Nat : /\ FirstRow(mat, f) /\ SecondRow(mat, g)
                            /\ f < u /\ g < z /\ z + g <= 8 * (u - f)
    BY <1>4 DEF Safe
  <2>2. FirstRow(new, g) /\ SecondRow(new, f)
    BY <1>1, <1>2, <1>4, <2>1 DEF FirstRow, SecondRow
  <2>3. Near(new, z, u)
    BY <2>1, <2>2 DEF Near
  <2> QED
    BY <2>3 DEF Rows, new
<1> QED
  BY <1>3, <1>4

------------------------------------------------------------------------------
(* Phase one keeps the remainders as they are.                             *)
FirstPhase(s, x, y) ==
  /\ Remains(s.m, s.n, x, y, s.a, s.b)
  /\ B <= s.b
  /\ FirstRow(s.m, H)
  /\ s.b <= s.a \/ s.a + s.b < B * B
  /\ Rows(s.m, s.n, s.a, s.b)

(* Both ways to start the simulation: the smaller pair is second, and an   *)
(* exchange counts as a step.                                              *)
LEMMA FirstPhaseStart ==
  ASSUME NEW x \in Pairs, NEW y \in Pairs, B <= y
  PROVE  /\ y <= x => FirstPhase(Start(x, y), x, y)
         /\ x < y /\ B <= x => FirstPhase(StartExchanged(x, y), x, y)
<1>1. x \in Nat /\ y \in Nat /\ H \in Nat /\ H >= 4
  BY Ranges DEF Pairs
<1>2. Remains(Identity, 0, x, y, x, y) /\ Remains(Exchange, 1, x, y, y, x)
  BY <1>1, RemainsStart
<1>3. FirstRow(Identity, H) /\ FirstRow(Exchange, H)
  <2>1. Identity[1] = 1 /\ Identity[2] = 0 /\ Exchange[1] = 0 /\ Exchange[2] = 1
    BY DEF Identity, Exchange
  <2> QED
    BY <1>1, <2>1 DEF FirstRow
<1>4. Rows(Identity, 0, x, y) /\ Rows(Exchange, 1, y, x)
  BY DEF Rows
<1>5. ASSUME y <= x PROVE FirstPhase(Start(x, y), x, y)
  <2>1. /\ Start(x, y).a = x /\ Start(x, y).b = y /\ Start(x, y).m = Identity
        /\ Start(x, y).n = 0
    BY DEF Start
  <2> QED
    BY <1>2, <1>3, <1>4, <1>5, <2>1 DEF FirstPhase
<1>6. ASSUME x < y, B <= x PROVE FirstPhase(StartExchanged(x, y), x, y)
  <2>1. /\ StartExchanged(x, y).a = y /\ StartExchanged(x, y).b = x
        /\ StartExchanged(x, y).m = Exchange /\ StartExchanged(x, y).n = 1
    BY DEF StartExchanged
  <2>2. x <= y
    BY <1>1, <1>6
  <2> QED
    BY <1>2, <1>3, <1>4, <1>6, <2>1, <2>2 DEF FirstPhase
<1> QED
  BY <1>5, <1>6

(* While the first remainder has an upper half, the matrix has none.       *)
LEMMA FirstPhaseBounds ==
  ASSUME NEW s \in Sims, NEW x \in Pairs, NEW y \in Pairs, FirstPhase(s, x, y),
         H * B <= s.a, s.b < s.a + B
  PROVE  /\ FirstRow(s.m, H) /\ SecondRow(s.m, H)
         /\ Safe(s.m, s.a, s.b)
<1>1. /\ s.a \in Nat /\ s.b \in Nat /\ x \in Nat /\ y \in Nat /\ s.m \in Entries
      /\ B \in Nat /\ H \in Nat /\ H >= 4 /\ B = H * H /\ 4 * H <= B /\ B >= 16
      /\ x < B * B /\ y < B * B /\ B <= s.b /\ FirstRow(s.m, H)
  BY Ranges DEF Sims, Pairs, FirstPhase
<1> DEFINE u == s.a  z == s.b
<1>2. x < H * u /\ y < H * u
  <2>1. H * u >= H * (H * B) /\ H * (H * B) = B * B
    <3>1. H * (u - H * B) >= 0 /\ H * (u - H * B) = H * u - H * (H * B)
      BY <1>1
    <3>2. H * (H * B) = (H * H) * B
      BY <1>1
    <3>3. H * u \in Int /\ H * (H * B) \in Int
      BY <1>1
    <3>4. H * (H * B) = B * B
      BY <1>1, <3>2
    <3> QED
      BY <3>1, <3>3, <3>4
  <2> DEFINE f == H * u  g == B * B
  <2>2. f \in Nat /\ g \in Nat /\ f >= g /\ x < g /\ y < g
    BY <1>1, <2>1
  <2> HIDE DEF f, g
  <2>3. x < f /\ y < f
    BY <1>1, <2>2
  <2> QED
    BY <2>3 DEF f
<1>3. s.m[3] < H /\ s.m[4] < H
  BY <1>1, <1>2, RowIsSmall DEF FirstPhase
<1>4. SecondRow(s.m, H)
  <2>1. s.m[3] \in Nat /\ s.m[4] \in Nat
    BY <1>1, EntryTypes
  <2> QED
    BY <1>1, <1>3, <2>1 DEF SecondRow
<1>5. u >= 4 * B
  <2>1. (H - 4) * B >= 0 /\ (H - 4) * B = H * B - 4 * B /\ H * B \in Int
    BY <1>1
  <2> QED
    BY <1>1, <2>1
<1>6. H < u /\ H < z /\ z + H <= 8 * (u - H)
  BY <1>1, <1>5
<1> QED
  BY <1>1, <1>4, <1>6 DEF Safe

(* The fields of a step of the simulation.                                 *)
LEMMA SimStep ==
  ASSUME NEW s \in Sims, NEW q \in Nat, NEW z
  PROVE  /\ [StepBy(s, q) EXCEPT !.b = z].a = s.b
         /\ [StepBy(s, q) EXCEPT !.b = z].b = z
         /\ [StepBy(s, q) EXCEPT !.b = z].m = Times(q, s.m)
         /\ [StepBy(s, q) EXCEPT !.b = z].n = s.n + 1
  BY DEF StepBy

(* The steps of phase one: q is the quotient, or one instead of it.        *)
LEMMA FirstPhaseStep ==
  ASSUME NEW s \in Sims, NEW x \in Pairs, NEW y \in Pairs, FirstPhase(s, x, y),
         H * B <= s.a, s.b < s.a + B,
         NEW q \in Nat, NEW z \in Nat, s.a = q * s.b + z, B <= z,
         z <= s.b \/ s.b + z < B * B
  PROVE  FirstPhase([StepBy(s, q) EXCEPT !.b = z], x, y)
<1>1. /\ s.a \in Nat /\ s.b \in Nat /\ x \in Nat /\ y \in Nat /\ s.m \in Entries
      /\ B \in Nat /\ B >= 16 /\ x < B * B /\ y < B * B /\ B <= s.b
  BY Ranges DEF Sims, Pairs, FirstPhase
<1> DEFINE new == [StepBy(s, q) EXCEPT !.b = z]
<1>2. new.a = s.b /\ new.b = z /\ new.m = Times(q, s.m) /\ new.n = s.n + 1
  BY SimStep
<1> HIDE DEF new
<1>3. FirstRow(s.m, H) /\ SecondRow(s.m, H) /\ Safe(s.m, s.a, s.b)
  BY FirstPhaseBounds
<1>4. q * s.b <= s.a /\ s.a - q * s.b = z
  <2>1. q * s.b \in Nat
    BY <1>1
  <2> QED
    BY <1>1, <2>1
<1>5. x < B * s.b /\ y < B * s.b
  <2>1. B * s.b >= B * B
    <3>1. B * (s.b - B) >= 0 /\ B * (s.b - B) = B * s.b - B * B /\ B * s.b \in Int /\ B * B \in Int
      BY <1>1
    <3> QED
      BY <3>1
  <2> DEFINE f == B * s.b  g == B * B
  <2>2. f \in Nat /\ g \in Nat /\ f >= g /\ x < g /\ y < g
    BY <1>1, <2>1
  <2> HIDE DEF f, g
  <2>3. x < f /\ y < f
    BY <1>1, <2>2
  <2> QED
    BY <2>3 DEF f
<1>6. /\ Remains(Times(q, s.m), s.n + 1, x, y, s.b, z)
      /\ Times(q, s.m) = Grown(s.m, q)
  <2>1. Remains(s.m, s.n, x, y, s.a, s.b)
    BY DEF FirstPhase
  <2>2. /\ Remains(Times(q, s.m), s.n + 1, x, y, s.b, s.a - q * s.b)
        /\ Times(q, s.m) = Grown(s.m, q)
    <3> DEFINE mat == s.m  n == s.n  u == s.a  c == s.b
    <3>1. Remains(mat, n, x, y, u, c) /\ Enough(x, y, u, c, q)
      BY <1>4, <1>5, <2>1 DEF Enough
    <3> HIDE DEF mat, n, u, c
    <3>2. /\ Remains(Times(q, mat), n + 1, x, y, c, u - q * c)
          /\ Times(q, mat) = Grown(mat, q)
      <4>1. x \in Nat /\ y \in Nat /\ mat \in Entries /\ n \in Nat /\ u \in Nat /\ c \in Nat
        BY <1>1, <3>1 DEF Remains
      <4> QED
        BY <3>1, <4>1, RemainsStep
    <3> QED
      BY <3>2 DEF mat, n, u, c
  <2> QED
    BY <1>4, <2>2
<1>7. Rows(Times(q, s.m), s.n + 1, s.b, z)
  <2>1. CASE q >= 1
    BY <1>1, <1>6, <2>1, RowsStep
  <2>2. CASE q = 0
    <3>1. z = s.a
      BY <1>1, <1>4, <2>2
    <3> QED
      BY <1>1, <1>3, <1>6, <3>1, RowsStep
  <2> QED
    BY <2>1, <2>2
<1>8. FirstRow(Times(q, s.m), H)
  BY <1>3, <1>6 DEF FirstRow, SecondRow, Grown
<1> QED
  BY <1>2, <1>6, <1>7, <1>8 DEF FirstPhase, new

(* A pair with no larger upper limb is larger by less than a limb.         *)
LEMMA UpperLimbs ==
  ASSUME NEW u \in Nat, NEW z \in Nat, z \div B <= u \div B
  PROVE  z < u + B
<1> DEFINE f == u \div B  g == z \div B  f1 == u % B  g1 == z % B
<1>1. B \in Nat \ {0}
  BY Ranges
<1>2. f \in Nat /\ g \in Nat /\ f1 \in 0 .. B - 1 /\ g1 \in 0 .. B - 1
      /\ u = B * f + f1 /\ z = B * g + g1
  BY <1>1, DivMod
<1>3. g <= f
  OBVIOUS
<1> HIDE DEF f, g, f1, g1
<1>4. B * (f - g) >= 0 /\ B * (f - g) = B * f - B * g /\ B * f \in Int /\ B * g \in Int
  BY <1>1, <1>2, <1>3
<1> QED
  BY <1>1, <1>2, <1>4

(* The division of phase one, while the upper limb has half its bits: no   *)
(* entry of the matrix overflows.                                          *)
LEMMA FirstPhaseDivide ==
  ASSUME NEW s \in Sims, NEW x \in Pairs, NEW y \in Pairs, FirstPhase(s, x, y),
         H * B <= s.a, s.b < s.a + B, B <= s.a % s.b
  PROVE  FirstPhase([StepBy(s, s.a \div s.b) EXCEPT !.b = s.a % s.b], x, y)
<1> DEFINE u == s.a  z == s.b  q == u \div z  r == u % z
<1>1. u \in Nat /\ z \in Nat \ {0} /\ B \in Nat \ {0}
  BY Ranges DEF Sims, Pairs, FirstPhase
<1>2. q \in Nat /\ r \in 0 .. z - 1 /\ u = z * q + r
  <2> HIDE DEF u, z
  <2> QED
    BY <1>1, DivMod
<1> HIDE DEF q, r
<1>3. r \in Nat /\ r <= z
  BY <1>1, <1>2
<1>4. u = q * z + r
  <2> HIDE DEF u, z
  <2> QED
    BY <1>1, <1>2
<1>5. B <= r
  BY DEF r
<1> QED
  BY <1>2, <1>3, <1>4, <1>5, FirstPhaseStep DEF q, r

(* The subtraction of phase one: the upper limbs tell that it did not      *)
(* borrow.                                                                 *)
LEMMA FirstPhaseSubtract ==
  ASSUME NEW s \in Sims, NEW x \in Pairs, NEW y \in Pairs, FirstPhase(s, x, y),
         H * B <= s.a, s.b < s.a + B,
         NEW z, z = (s.a - s.b) % B^2, z \div B <= s.b \div B, B <= z
  PROVE  FirstPhase([StepBy(s, 1) EXCEPT !.b = z], x, y)
<1> DEFINE u == s.a  c == s.b  f == B * B
<1>1. /\ u \in 0 .. f - 1 /\ c \in 0 .. f - 1 /\ f \in Nat /\ B \in Nat /\ B >= 16
      /\ B <= c /\ B^2 = f /\ c < u + B
      /\ c <= u \/ u + c < f
  BY Ranges DEF Sims, Pairs, FirstPhase
<1>2. 16 * B <= f
  <2>1. (B - 16) * B >= 0 /\ (B - 16) * B = B * B - 16 * B /\ B * B \in Int
    BY <1>1
  <2> QED
    BY <2>1, <1>1
<1>3. z = (u - c) % f
  BY <1>1
<1> HIDE DEF u, c, f
<1>4. z \in Nat /\ z < f
  BY <1>1, <1>3
<1>5. z < c + B
  BY <1>1, <1>4, UpperLimbs DEF c
<1>6. c <= u
  <2> SUFFICES ASSUME u < c PROVE FALSE
    BY <1>1
  <2>1. z = u - c + f
    BY <1>1, <1>3
  <2> QED
    BY <1>1, <1>2, <1>5, <2>1
<1>7. z = u - c
  BY <1>1, <1>3, <1>6
<1>8. u = 1 * c + z /\ c + z < f
  BY <1>1, <1>7
<1> QED
  BY <1>4, <1>8, FirstPhaseStep DEF u, c, f

------------------------------------------------------------------------------
(* Phase two looks at the upper halves a and b of the remainders u and z,  *)
(* at first without any loss ...                                           *)
Fresh(s, u, z) ==
  /\ H * s.a <= u /\ u < H * s.a + H
  /\ H * s.b <= z /\ z < H * s.b + H
  /\ B <= u /\ B <= z /\ z < u + B
  /\ FirstRow(s.m, H)

(* ... and then with errors that grow as the quotients do.                 *)
Run(s, u, z) ==
  \E f, g \in Nat :
    /\ H * s.a - H * f <= u /\ u <= H * s.a + H * f
    /\ H * s.b - H * g <= z /\ z <= H * s.b + H * g
    /\ g * s.a + f * s.b < 2 * B
    /\ 2 * f <= H
    /\ 2 * H <= s.b /\ s.b <= s.a
    /\ 2 * s.m[1] <= B /\ 2 * s.m[2] <= B

SecondPhase(s, x, y) ==
  \E u, z \in Nat :
    /\ Remains(s.m, s.n, x, y, u, z)
    /\ Rows(s.m, s.n, u, z)
    /\ Fresh(s, u, z) \/ Run(s, u, z)

(* Where phase one ends.                                                   *)
LEMMA SecondPhaseStart ==
  ASSUME NEW s \in Sims, NEW x \in Pairs, NEW y \in Pairs, FirstPhase(s, x, y),
         s.b \div B <= s.a \div B, s.a \div B < H
  PROVE  SecondPhase([s EXCEPT !.a = (s.a \div H) % B, !.b = (s.b \div H) % B], x, y)
<1> DEFINE u == s.a  z == s.b
           new == [s EXCEPT !.a = (s.a \div H) % B, !.b = (s.b \div H) % B]
<1>1. /\ u \in Nat /\ z \in Nat /\ B \in Nat \ {0} /\ H \in Nat \ {0} /\ B >= 16 /\ H >= 4
      /\ B <= z
  BY Ranges DEF Sims, Pairs, FirstPhase
<1>2. u < B * H /\ z < B * H
  <2>1. u \div B < H /\ z \div B < H
    <3> DEFINE f == u \div B  g == z \div B
    <3>1. f \in Nat /\ g \in Nat /\ g <= f /\ f < H
      BY <1>1, QuotientCompares
    <3> HIDE DEF f, g
    <3>2. g < H
      BY <1>1, <3>1
    <3> QED
      BY <3>1, <3>2 DEF f, g
  <2> QED
    BY <1>1, <2>1, QuotientCompares
<1>3. z < u + B
  BY <1>1, UpperLimbs
<1>4. u < H * B /\ z < H * B
  BY <1>1, <1>2
<1>5. (u \div H) % B = u \div H /\ (z \div H) % B = z \div H
  BY <1>1, <1>4, QuotientMod
<1> DEFINE f == u \div H  g == z \div H  f1 == u % H  g1 == z % H
<1>6. new.a = f /\ new.b = g /\ new.m = s.m /\ new.n = s.n
  BY <1>5 DEF Sims
<1>7. /\ f \in Nat /\ g \in Nat /\ f1 \in 0 .. H - 1 /\ g1 \in 0 .. H - 1
      /\ u = H * f + f1 /\ z = H * g + g1
  BY <1>1, DivMod
<1>8. B <= u
  <2>1. z \div B >= 1
    <3>1. 1 \in Nat /\ B \in Nat \ {0}
      BY <1>1
    <3>2. ~(z < B * 1)
      BY <1>1
    <3>3. z \div B \in Nat /\ ~(z \div B < 1)
      BY <1>1, <3>1, <3>2, QuotientCompares
    <3> QED
      BY <3>3
  <2> DEFINE d == z \div B  d1 == u \div B
  <2>2. d >= 1 /\ d <= d1 /\ d1 \in Nat /\ d \in Nat
    BY <1>1, <2>1, QuotientCompares
  <2>3. 1 <= d1
    <3> HIDE DEF d, d1
    <3> QED
      BY <2>2
  <2>4. B * 1 <= u
    BY <1>1, <2>3, QuotientCompares
  <2> QED
    BY <1>1, <2>4
<1> HIDE DEF f, g, f1, g1, new
<1>9. H * f <= u /\ u < H * f + H /\ H * g <= z /\ z < H * g + H
  <2> DEFINE d == H * f  d1 == H * g
  <2>1. d \in Nat /\ d1 \in Nat /\ u = d + f1 /\ z = d1 + g1
    BY <1>1, <1>7
  <2> HIDE DEF d, d1
  <2>2. d <= u /\ u < d + H /\ d1 <= z /\ z < d1 + H
    BY <1>1, <1>7, <2>1
  <2> QED
    BY <2>2 DEF d, d1
<1>10. Fresh(new, u, z)
  BY <1>1, <1>3, <1>6, <1>8, <1>9 DEF Fresh, FirstPhase
<1>11. Remains(new.m, new.n, x, y, u, z) /\ Rows(new.m, new.n, u, z)
  BY <1>6 DEF FirstPhase
<1> QED
  BY <1>1, <1>10, <1>11 DEF SecondPhase, new

(* The errors of u and z, in units of H.                                   *)
Errors(c, d, u, z, f, g) ==
  /\ H * c - H * f <= u /\ u <= H * c + H * f
  /\ H * d - H * g <= z /\ z <= H * d + H * g
  /\ g * c + f * d < 2 * B

(* A simulated step of phase two that is not the last.                     *)
Reduces(c, d, q, r) == c = q * d + r /\ r <= d /\ 2 * H <= r

(* How far the two rows of the matrix can be off: one step of a division   *)
(* keeps the account of both.                                              *)
LEMMA ErrorsStep ==
  ASSUME NEW c \in Nat, NEW d \in Nat, NEW u \in Nat, NEW z \in Nat,
         NEW f \in Nat, NEW g \in Nat, Errors(c, d, u, z, f, g),
         NEW q \in Nat, NEW r \in Nat, Reduces(c, d, q, r)
  PROVE  /\ q * z <= u
         /\ Errors(d, r, z, u - q * z, g, f + q * g)
         /\ f + q * g < H
<1> DEFINE j == f + q * g
<1>1. H \in Nat /\ H >= 4 /\ B = H * H /\ B \in Nat
  BY Ranges
<1>2. /\ H * c - H * f <= u /\ u <= H * c + H * f
      /\ H * d - H * g <= z /\ z <= H * d + H * g
      /\ g * c + f * d < 2 * B
      /\ c = q * d + r /\ r <= d /\ 2 * H <= r
  BY DEF Errors, Reduces
<1>3. j \in Nat
  OBVIOUS
<1>4. j * d + g * r = g * c + f * d
  <2>1. (f + q * g) * d + g * r = g * (q * d + r) + f * d
    OBVIOUS
  <2> QED
    BY <1>2, <2>1
<1>5. H * j = H * f + q * (H * g) /\ H * c = q * (H * d) + H * r
  <2>1. H * (f + q * g) = H * f + q * (H * g)
    BY <1>1
  <2>2. H * (q * d + r) = q * (H * d) + H * r
    BY <1>1
  <2> QED
    BY <1>2, <2>1, <2>2
<1> HIDE DEF j
<1>6. j < H
  <2>1. j * d \in Nat /\ g * r \in Nat /\ j * d < 2 * B
    BY <1>1, <1>2, <1>3, <1>4
  <2>2. (2 * H) * j <= d * j
    <3>1. 2 * H <= d /\ 2 * H \in Nat
      BY <1>1, <1>2
    <3> QED
      BY <1>3, <3>1, SmallerFactor
  <2>3. (2 * H) * j = j * (2 * H) /\ d * j = j * d /\ H * (2 * H) = 2 * B
    BY <1>1, <1>3
  <2>4. j * (2 * H) < H * (2 * H)
    BY <2>1, <2>2, <2>3, <1>1, <1>3
  <2> QED
    BY <2>4, <1>1, <1>3, SmallerFactor
<1> DEFINE hc == H * c  hf == H * f  hd == H * d  hg == H * g  hr == H * r  hj == H * j
           qd == q * hd  qg == q * hg  qz == q * z
<1>7. /\ hc \in Nat /\ hf \in Nat /\ hd \in Nat /\ hg \in Nat /\ hr \in Nat /\ hj \in Nat
      /\ qd \in Nat /\ qg \in Nat /\ qz \in Nat
      /\ hc - hf <= u /\ u <= hc + hf /\ hd - hg <= z /\ z <= hd + hg
      /\ hj = hf + qg /\ hc = qd + hr
  BY <1>1, <1>2, <1>3, <1>5
<1>8. qd - qg <= qz /\ qz <= qd + qg
  <2> HIDE DEF hd, hg
  <2>1. q * (z - (hd - hg)) >= 0 /\ q * ((hd + hg) - z) >= 0
    BY <1>7
  <2>2. q * (z - (hd - hg)) = qz - qd + qg /\ q * ((hd + hg) - z) = qd + qg - qz
    BY <1>7
  <2> HIDE DEF qd, qg, qz
  <2> QED
    BY <1>7, <2>1, <2>2
<1>9. hj <= hr
  <2>1. H * (r - j) >= 0 /\ H * (r - j) = hr - hj
    BY <1>1, <1>2, <1>3, <1>6
  <2> HIDE DEF hr, hj
  <2> QED
    BY <1>7, <2>1
<1> HIDE DEF hc, hf, hd, hg, hr, hj, qd, qg, qz
<1>10. /\ qz <= u
       /\ hr - hj <= u - qz /\ u - qz <= hr + hj
       /\ hd - hg <= z /\ z <= hd + hg
  BY <1>7, <1>8, <1>9
<1>11. j * d + g * r < 2 * B
  BY <1>2, <1>4
<1>12. Errors(d, r, z, u - q * z, g, j)
  BY <1>10, <1>11 DEF Errors, hd, hg, hr, hj, qz
<1> QED
  BY <1>6, <1>10, <1>12 DEF j, qz

(* The errors phase two begins and goes on with.                           *)
LEMMA ErrorsAre ==
  ASSUME NEW s \in Sims, NEW u \in Nat, NEW z \in Nat
  PROVE  /\ s.a < B /\ s.b < B /\ Fresh(s, u, z) => Errors(s.a, s.b, u, z, 1, 1)
         /\ Run(s, u, z) => \E f, g \in Nat : Errors(s.a, s.b, u, z, f, g) /\ 2 * f <= H /\ g < H
<1>1. /\ H \in Nat /\ H >= 4 /\ B = H * H /\ B \in Nat /\ s.a \in Nat /\ s.b \in Nat
  BY Ranges DEF Sims, Pairs
<1>2. ASSUME s.a < B, s.b < B, Fresh(s, u, z)
      PROVE  Errors(s.a, s.b, u, z, 1, 1)
  <2> DEFINE hc == H * s.a  hd == H * s.b
  <2>1. hc \in Nat /\ hd \in Nat /\ hc <= u /\ u < hc + H /\ hd <= z /\ z < hd + H
    BY <1>1, <1>2 DEF Fresh
  <2>2. 1 * s.a + 1 * s.b < 2 * B
    BY <1>1, <1>2
  <2>3. H * 1 = H
    BY <1>1
  <2> HIDE DEF hc, hd
  <2>4. hc - H <= u /\ u <= hc + H /\ hd - H <= z /\ z <= hd + H
    BY <1>1, <2>1
  <2> QED
    BY <2>2, <2>3, <2>4 DEF Errors, hc, hd
<1>3. ASSUME Run(s, u, z)
      PROVE  \E f, g \in Nat : Errors(s.a, s.b, u, z, f, g) /\ 2 * f <= H /\ g < H
  <2>1. PICK f, g \in Nat :
          /\ H * s.a - H * f <= u /\ u <= H * s.a + H * f
          /\ H * s.b - H * g <= z /\ z <= H * s.b + H * g
          /\ g * s.a + f * s.b < 2 * B
          /\ 2 * f <= H
          /\ 2 * H <= s.b /\ s.b <= s.a
    BY <1>3 DEF Run
  <2>2. Errors(s.a, s.b, u, z, f, g)
    BY <2>1 DEF Errors
  <2>3. g < H
    <3> DEFINE c == s.a  d == s.b
    <3>1. c \in Nat /\ d \in Nat /\ 2 * H <= c /\ g * c + f * d < 2 * B
      BY <1>1, <2>1
    <3> HIDE DEF c, d
    <3>2. f * d \in Nat /\ g * c \in Nat /\ g * c < 2 * B
      BY <1>1, <3>1
    <3>3. (2 * H) * g <= c * g
      BY <1>1, <3>1, SmallerFactor
    <3>4. (2 * H) * g = g * (2 * H) /\ c * g = g * c /\ H * (2 * H) = 2 * B
      BY <1>1, <3>1
    <3>5. g * (2 * H) < H * (2 * H)
      BY <3>1, <3>2, <3>3, <3>4, <1>1
    <3> QED
      BY <3>5, <1>1, SmallerFactor
  <2> QED
    BY <2>1, <2>2, <2>3
<1> QED
  BY <1>2, <1>3

(* Both are safe places to stop.                                           *)
LEMMA FreshIsSafe ==
  ASSUME NEW s \in Sims, NEW u \in Nat, NEW z \in Nat, Fresh(s, u, z)
  PROVE  Safe(s.m, u, z)
<1>1. /\ H \in Nat /\ H >= 4 /\ 4 * H <= B /\ B \in Nat /\ s.m \in Entries
      /\ B <= u /\ B <= z /\ z < u + B /\ FirstRow(s.m, H)
  BY Ranges DEF Sims, Fresh
<1>2. SecondRow(s.m, B - 1)
  <2>1. s.m[3] \in Nat /\ s.m[4] \in Nat /\ s.m[3] < B /\ s.m[4] < B
    BY <1>1, EntryTypes
  <2> QED
    BY <1>1, <2>1 DEF SecondRow
<1>3. B - 1 \in Nat /\ H < u /\ B - 1 < z /\ z + (B - 1) <= 8 * (u - H)
  BY <1>1
<1> QED
  BY <1>1, <1>2, <1>3 DEF Safe

(* While the account is kept no row takes more than there is.              *)
LEMMA RunIsSafe ==
  ASSUME NEW s \in Sims, NEW u \in Nat, NEW z \in Nat, Run(s, u, z)
  PROVE  Safe(s.m, u, z)
<1>1. /\ H \in Nat /\ H >= 4 /\ 4 * H <= B /\ B \in Nat /\ B = H * H
      /\ s.m \in Entries /\ s.a \in Nat /\ s.b \in Nat
  BY Ranges DEF Sims, Pairs
<1>2. PICK f, g \in Nat : Errors(s.a, s.b, u, z, f, g) /\ 2 * f <= H /\ g < H
  BY ErrorsAre
<1>3. /\ 2 * H <= s.b /\ s.b <= s.a
      /\ 2 * s.m[1] <= B /\ 2 * s.m[2] <= B
  BY DEF Run
<1>4. PICK h \in Nat : B = 2 * h /\ 2 * H <= h
  BY HalfBase
<1>5. /\ s.m[1] \in Nat /\ s.m[2] \in Nat /\ s.m[3] \in Nat /\ s.m[4] \in Nat
      /\ s.m[3] < B /\ s.m[4] < B
  BY <1>1, EntryTypes
<1>6. FirstRow(s.m, h) /\ SecondRow(s.m, B - 1)
  BY <1>1, <1>3, <1>4, <1>5 DEF FirstRow, SecondRow
<1> DEFINE hc == H * s.a  hf == H * f  hd == H * s.b  hg == H * g
<1>7. /\ hc - hf <= u /\ u <= hc + hf /\ hd - hg <= z /\ z <= hd + hg
      /\ hc \in Nat /\ hd \in Nat /\ hf \in Nat /\ hg \in Nat
  BY <1>1, <1>2 DEF Errors
<1>8. 2 * hf <= B /\ hg <= B - H /\ 2 * B <= hd /\ hd <= hc
  <2>1. H * (H - 2 * f) >= 0 /\ H * (H - 2 * f) = B - 2 * hf
    BY <1>1, <1>2
  <2>2. H * (H - 1 - g) >= 0 /\ H * (H - 1 - g) = B - H - hg
    BY <1>1, <1>2
  <2>3. H * (s.b - 2 * H) >= 0 /\ H * (s.b - 2 * H) = hd - 2 * B
    BY <1>1, <1>3
  <2>4. H * (s.a - s.b) >= 0 /\ H * (s.a - s.b) = hc - hd
    BY <1>1, <1>3
  <2> HIDE DEF hc, hf, hd, hg
  <2> QED
    BY <1>1, <1>7, <2>1, <2>2, <2>3, <2>4
<1> HIDE DEF hc, hf, hd, hg
<1>9. h < u /\ B - 1 < z /\ z + (B - 1) <= 8 * (u - h) /\ B - 1 \in Nat
  BY <1>1, <1>4, <1>7, <1>8
<1> QED
  BY <1>4, <1>6, <1>9 DEF Safe

(* The remainders themselves are above B, and above 2 * B before a step.   *)
LEMMA SecondPhaseSizes ==
  ASSUME NEW s \in Sims, NEW u \in Nat, NEW z \in Nat, s.a < B, s.b < B,
         Fresh(s, u, z) \/ Run(s, u, z)
  PROVE  /\ B <= z
         /\ Fresh(s, u, z) /\ 2 * H <= s.a => 2 * B <= u
         /\ Run(s, u, z) /\ 4 * H <= s.a => 2 * B <= u
<1>1. /\ H \in Nat /\ H >= 4 /\ 4 * H <= B /\ B \in Nat /\ B = H * H
      /\ s.a \in Nat /\ s.b \in Nat
  BY Ranges DEF Sims, Pairs
<1> DEFINE hc == H * s.a  hd == H * s.b
<1>2. hc \in Nat /\ hd \in Nat
  BY <1>1
<1>3. CASE Fresh(s, u, z)
  <2>1. B <= z /\ hc <= u
    BY <1>3 DEF Fresh
  <2>2. 2 * H <= s.a => 2 * B <= hc
    <3>1. 2 * H <= s.a => H * (s.a - 2 * H) >= 0
      BY <1>1
    <3>2. H * (s.a - 2 * H) = hc - 2 * B
      BY <1>1
    <3> HIDE DEF hc
    <3> QED
      BY <1>1, <1>2, <3>1, <3>2
  <2>3. 4 * H <= s.a => 2 * H <= s.a
    BY <1>1
  <2> HIDE DEF hc
  <2>4. ~Run(s, u, z) \/ ~(4 * H <= s.a) \/ 2 * B <= u
    BY <1>1, <1>2, <2>1, <2>2, <2>3
  <2>5. ~(2 * H <= s.a) \/ 2 * B <= u
    BY <1>1, <1>2, <2>1, <2>2
  <2> QED
    BY <2>1, <2>4, <2>5
<1>4. CASE ~Fresh(s, u, z)
  <2>1. PICK f, g \in Nat : Errors(s.a, s.b, u, z, f, g) /\ 2 * f <= H /\ g < H
    BY <1>4, ErrorsAre
  <2>2. 2 * H <= s.b
    BY <1>4 DEF Run
  <2> DEFINE hf == H * f  hg == H * g
  <2>3. hc - hf <= u /\ hd - hg <= z /\ hf \in Nat /\ hg \in Nat
    BY <1>1, <2>1 DEF Errors
  <2>4. 2 * hf <= B /\ hg <= B - H /\ 2 * B <= hd
    <3>1. H * (H - 2 * f) >= 0 /\ H * (H - 2 * f) = B - 2 * hf
      BY <1>1, <2>1
    <3>2. H * (H - 1 - g) >= 0 /\ H * (H - 1 - g) = B - H - hg
      BY <1>1, <2>1
    <3>3. H * (s.b - 2 * H) >= 0 /\ H * (s.b - 2 * H) = hd - 2 * B
      BY <1>1, <2>2
    <3> HIDE DEF hd, hf, hg
    <3> QED
      BY <1>1, <1>2, <2>3, <3>1, <3>2, <3>3
  <2>5. 4 * H <= s.a => 4 * B <= hc
    <3>1. 4 * H <= s.a => H * (s.a - 4 * H) >= 0
      BY <1>1
    <3>2. H * (s.a - 4 * H) = hc - 4 * B
      BY <1>1
    <3> HIDE DEF hc
    <3> QED
      BY <1>1, <1>2, <3>1, <3>2
  <2> HIDE DEF hc, hd, hf, hg
  <2>6. B <= z /\ (4 * H <= s.a => 2 * B <= u)
    BY <1>1, <1>2, <2>3, <2>4, <2>5
  <2> QED
    BY <1>4, <2>6
<1> QED
  BY <1>3, <1>4

(* A step of phase two that stays above 2 * H: the matrix stays right for  *)
(* every pair with these upper limbs.                                      *)
LEMMA SecondPhaseStep ==
  ASSUME NEW s \in Sims, NEW x \in Pairs, NEW y \in Pairs, SecondPhase(s, x, y),
         s.a < B, s.b < B, NEW q \in Nat, NEW r \in Nat, s.a = q * s.b + r, r <= s.b,
         2 * H <= r, q >= 1 \/ s.a < s.b
  PROVE  SecondPhase([StepBy(s, q) EXCEPT !.b = r], x, y)
<1>1. /\ H \in Nat /\ H >= 4 /\ 4 * H <= B /\ B \in Nat /\ B = H * H /\ s.a \in Nat /\ s.b \in Nat
      /\ x \in Nat /\ y \in Nat /\ x < B * B /\ y < B * B /\ s.m \in Entries /\ s.n \in Nat
  BY Ranges DEF Sims, Pairs
<1>2. PICK u, z \in Nat : /\ Remains(s.m, s.n, x, y, u, z)
                          /\ Rows(s.m, s.n, u, z)
                          /\ Fresh(s, u, z) \/ Run(s, u, z)
  BY DEF SecondPhase
<1> DEFINE new == [StepBy(s, q) EXCEPT !.b = r]  rest == u - q * z
<1>3. new.a = s.b /\ new.b = r /\ new.m = Times(q, s.m) /\ new.n = s.n + 1
  BY SimStep
<1> HIDE DEF new
<1>4. q >= 1 => 4 * H <= s.a
  <2> DEFINE c == s.a  d == s.b
  <2>1. c \in Nat /\ d \in Nat /\ c = q * d + r /\ r <= d /\ 2 * H <= r
    BY <1>1
  <2> HIDE DEF c, d
  <2>2. q >= 1 => (q - 1) * d >= 0
    BY <2>1
  <2>3. (q - 1) * d = q * d - d /\ q * d \in Int
    BY <2>1
  <2>4. q >= 1 => 4 * H <= c
    BY <1>1, <2>1, <2>2, <2>3
  <2> QED
    BY <2>4 DEF c
<1>5. q = 0 => s.a = r /\ Fresh(s, u, z) /\ ~Run(s, u, z)
  <2>1. Run(s, u, z) => s.b <= s.a
    BY DEF Run
  <2>2. q = 0 => s.a < s.b
    OBVIOUS
  <2>3. q = 0 => s.a = r
    BY <1>1
  <2>4. ~(s.a < s.b /\ s.b <= s.a)
    BY <1>1
  <2> QED
    BY <1>2, <2>1, <2>2, <2>3, <2>4
<1>6. 2 * B <= u /\ B <= z
  <2>1. CASE q >= 1
    <3>1. 4 * H <= s.a /\ 2 * H <= s.a
      BY <1>1, <1>4, <2>1
    <3> QED
      BY <1>2, <3>1, SecondPhaseSizes
  <2>2. CASE q = 0
    <3>1. Fresh(s, u, z) /\ 2 * H <= s.a
      BY <1>5, <2>2
    <3> QED
      BY <1>2, <3>1, SecondPhaseSizes
  <2> QED
    BY <2>1, <2>2
<1>7. \E f, g \in Nat : Errors(s.a, s.b, u, z, f, g) /\ 2 * g <= H
  <2>1. CASE Fresh(s, u, z)
    <3>1. Errors(s.a, s.b, u, z, 1, 1)
      BY <2>1, ErrorsAre
    <3>2. 1 \in Nat /\ 2 * 1 <= H
      BY <1>1
    <3> QED
      BY <3>1, <3>2
  <2>2. CASE ~Fresh(s, u, z)
    <3>1. PICK f, g \in Nat : Errors(s.a, s.b, u, z, f, g)
      BY <1>2, <2>2, ErrorsAre
    <3>2. 4 * H <= s.a
      BY <1>4, <1>5, <2>2
    <3>3. 2 * g <= H
      <4> DEFINE c == s.a  d == s.b
      <4>1. c \in Nat /\ d \in Nat /\ 4 * H <= c /\ g * c + f * d < 2 * B
        BY <1>1, <3>1, <3>2 DEF Errors
      <4> HIDE DEF c, d
      <4>2. f * d \in Nat /\ g * c \in Nat /\ g * c < 2 * B
        BY <1>1, <4>1
      <4>3. (4 * H) * g <= c * g
        BY <1>1, <4>1, SmallerFactor
      <4>4. (4 * H) * g = (2 * g) * (2 * H) /\ c * g = g * c /\ H * (2 * H) = 2 * B
        BY <1>1, <4>1
      <4>5. (2 * g) * (2 * H) < H * (2 * H)
        BY <4>1, <4>2, <4>3, <4>4, <1>1
      <4>6. 2 * g < H
        BY <4>5, <1>1, SmallerFactor
      <4> QED
        BY <1>1, <4>6
    <3> QED
      BY <3>1, <3>3
  <2> QED
    BY <2>1, <2>2
<1>8. PICK f, g \in Nat : Errors(s.a, s.b, u, z, f, g) /\ 2 * g <= H
  BY <1>7
<1>9. q * z <= u /\ Errors(s.b, r, z, rest, g, f + q * g)
  <2> DEFINE c == s.a  d == s.b
  <2>1. c \in Nat /\ d \in Nat /\ Reduces(c, d, q, r)
    BY <1>1 DEF Reduces
  <2>2. Errors(c, d, u, z, f, g) /\ u \in Nat /\ z \in Nat /\ f \in Nat /\ g \in Nat
    BY <1>2, <1>8
  <2> HIDE DEF c, d
  <2>3. q * z <= u /\ Errors(d, r, z, u - q * z, g, f + q * g)
    BY <2>1, <2>2, ErrorsStep
  <2> QED
    BY <2>3 DEF d
<1>10. rest \in Nat /\ f + q * g \in Nat
  BY <1>9
<1>11. x < B * z /\ y < B * z
  <2>1. B * z >= B * B
    <3>1. B * (z - B) >= 0 /\ B * (z - B) = B * z - B * B /\ B * z \in Int /\ B * B \in Int
      BY <1>1, <1>6
    <3> QED
      BY <3>1
  <2> DEFINE j == B * z  l == B * B
  <2>2. j \in Nat /\ l \in Nat /\ j >= l /\ x < l /\ y < l
    BY <1>1, <2>1
  <2> HIDE DEF j, l
  <2>3. x < j /\ y < j
    BY <1>1, <2>2
  <2> QED
    BY <2>3 DEF j
<1>12. /\ Remains(Times(q, s.m), s.n + 1, x, y, z, rest)
       /\ Times(q, s.m) = Grown(s.m, q)
  <2> DEFINE mat == s.m  n == s.n
  <2>1. mat \in Entries /\ n \in Nat /\ Remains(mat, n, x, y, u, z)
    BY <1>1, <1>2
  <2> HIDE DEF mat, n
  <2>3. Enough(x, y, u, z, q) /\ u \in Nat /\ z \in Nat /\ x \in Nat /\ y \in Nat
    BY <1>1, <1>2, <1>9, <1>11 DEF Enough
  <2>2. Remains(Times(q, mat), n + 1, x, y, z, u - q * z)
    BY <2>1, <2>3, RemainsStep
  <2>4. Times(q, mat) = Grown(mat, q)
    BY <2>1, <2>3, RemainsStep
  <2> QED
    BY <2>2, <2>4 DEF mat, n
<1> HIDE DEF rest
<1>13. Rows(Times(q, s.m), s.n + 1, z, rest)
  <2>1. CASE q >= 1
    <3>1. Rows(Times(q, s.m), s.n + 1, z, u)
      BY <1>1, <1>12, <2>1, RowsStep
    <3>2. Ordered(Times(q, s.m))
      <4> DEFINE m1 == s.m[1]  m2 == s.m[2]  m3 == s.m[3]  m4 == s.m[4]
      <4>1. m1 \in Nat /\ m2 \in Nat /\ m3 \in Nat /\ m4 \in Nat
        BY <1>1, EntryTypes
      <4>2. Times(q, s.m) = <<m3, m4, m1 + m3 * q, m2 + m4 * q>>
        BY <1>12 DEF Grown
      <4> HIDE DEF m1, m2, m3, m4
      <4>3. m3 <= m1 + m3 * q /\ m4 <= m2 + m4 * q
        <5>1. m3 * (q - 1) >= 0 /\ m4 * (q - 1) >= 0
          BY <2>1, <4>1
        <5>2. m3 * (q - 1) = m3 * q - m3 /\ m4 * (q - 1) = m4 * q - m4 /\ m3 * q \in Int /\ m4 * q \in Int
          BY <4>1
        <5> QED
          BY <4>1, <5>1, <5>2
      <4> QED
        BY <4>2, <4>3 DEF Ordered
    <3> QED
      BY <3>2 DEF Rows
  <2>2. CASE q = 0
    <3>1. rest = u
      BY <2>2 DEF rest
    <3>2. Safe(s.m, u, z)
      BY <1>5, <2>2, FreshIsSafe
    <3> QED
      BY <1>1, <1>12, <3>1, <3>2, RowsStep
  <2> QED
    BY <2>1, <2>2
<1>14. 2 * s.m[3] <= B /\ 2 * s.m[4] <= B
  <2>1. PICK h \in Nat : B = 2 * h /\ 2 * H <= h
    BY HalfBase
  <2>2. x < h * u /\ y < h * u
    <3>1. h * (u - 2 * B) >= 0 /\ h * (u - 2 * B) = h * u - h * (2 * B) /\ h * u \in Int
      BY <1>1, <1>6, <2>1
    <3>2. h * (2 * B) = B * B
      BY <1>1, <2>1
    <3> DEFINE j == h * u  l == B * B
    <3>3. j \in Int /\ l \in Int /\ j >= l /\ x < l /\ y < l
      BY <1>1, <3>1, <3>2
    <3> HIDE DEF j, l
    <3>4. x < j /\ y < j
      BY <1>1, <3>3
    <3> QED
      BY <3>4 DEF j
  <2>3. s.m[3] < h /\ s.m[4] < h
    BY <1>1, <1>2, <2>1, <2>2, RowIsSmall
  <2>4. s.m[3] \in Nat /\ s.m[4] \in Nat
    BY <1>1, EntryTypes
  <2> QED
    BY <2>1, <2>3, <2>4
<1>15. Run(new, z, rest)
  <2>1. new.m[1] = s.m[3] /\ new.m[2] = s.m[4]
    BY <1>3, <1>12 DEF Grown
  <2> DEFINE j == f + q * g
  <2>2. j \in Nat /\ Errors(new.a, new.b, z, rest, g, j)
    BY <1>3, <1>9, <1>10
  <2> HIDE DEF j
  <2>3. /\ H * new.a - H * g <= z /\ z <= H * new.a + H * g
        /\ H * new.b - H * j <= rest /\ rest <= H * new.b + H * j
        /\ j * new.a + g * new.b < 2 * B
    BY <2>2 DEF Errors
  <2>4. 2 * g <= H /\ 2 * H <= new.b /\ new.b <= new.a /\ 2 * new.m[1] <= B /\ 2 * new.m[2] <= B
    BY <1>3, <1>8, <1>14, <2>1
  <2> QED
    BY <1>8, <2>2, <2>3, <2>4 DEF Run
<1>16. Remains(new.m, new.n, x, y, z, rest) /\ Rows(new.m, new.n, z, rest)
  BY <1>3, <1>12, <1>13
<1> QED
  BY <1>10, <1>15, <1>16 DEF SecondPhase, new, rest

(* The matrix q leads from x and y to u and z, with the sign g of its      *)
(* determinant; its entries may have any size.                             *)
Leads(q, g, x, y, u, z) ==
  /\ q \in Matrices /\ g \in {1, -1} /\ u \in Nat /\ z \in Nat
  /\ x = q[4] * u + q[2] * z
  /\ y = q[3] * u + q[1] * z
  /\ q[1] * q[4] - q[2] * q[3] = g

Product(p, q) ==
  <<p[1] * q[1] + p[2] * q[3], p[1] * q[2] + p[2] * q[4],
    p[3] * q[1] + p[4] * q[3], p[3] * q[2] + p[4] * q[4]>>

(* A matrix is its four entries.                                           *)
LEMMA MatrixTypes ==
  ASSUME NEW q \in Matrices
  PROVE  /\ q[1] \in Nat /\ q[2] \in Nat /\ q[3] \in Nat /\ q[4] \in Nat
         /\ q = <<q[1], q[2], q[3], q[4]>>
  BY DEF Matrices

(* A pair left over from x and y satisfies the inverse equations too.      *)
LEMMA RemainsLeads ==
  ASSUME NEW mat, NEW n, NEW x, NEW y, NEW u, NEW z, Remains(mat, n, x, y, u, z)
  PROVE  Leads(mat, Signed(n, 1), x, y, u, z)
<1>1. mat \in Entries /\ n \in Nat
  BY DEF Remains
<1>2. mat \in Matrices
  BY <1>1, EntryTypes DEF Matrices
<1>3. Signed(n, 1) \in {1, -1}
  BY <1>1, OneStep
<1> QED
  BY <1>2, <1>3 DEF Remains, Leads

(* Signed is the product with a sign.                                      *)
LEMMA SignedIs ==
  ASSUME NEW n \in Nat, NEW z \in Int
  PROVE  Signed(n, z) = Signed(n, 1) * z
  BY DEF Signed

(* Signs multiply as the parities of their counts add.                     *)
LEMMA SignsMultiply ==
  ASSUME NEW c \in Nat, NEW d \in Nat
  PROVE  /\ Signed(c, 1) * Signed(d, 1) = Signed(c + d, 1)
         /\ Signed((c + d) % 2, 1) = Signed(c + d, 1)
         /\ Signed(c + d + d, 1) = Signed(c, 1)
<1>1. c % 2 \in {0, 1} /\ d % 2 \in {0, 1}
  OBVIOUS
<1>2. (c + d) % 2 = IF c % 2 = d % 2 THEN 0 ELSE 1
  OBVIOUS
<1>3. ((c + d) % 2) % 2 = (c + d) % 2
  OBVIOUS
<1>4. (c + d + d) % 2 = c % 2
  OBVIOUS
<1> QED
  BY <1>1, <1>2, <1>3, <1>4 DEF Signed

(* Two matrices, one after the other.                                      *)
LEMMA LeadsOn ==
  ASSUME NEW q, NEW g, NEW x, NEW y, NEW u, NEW z, NEW p, NEW h, NEW u1, NEW z1,
         Leads(q, g, x, y, u, z), Leads(p, h, u, z, u1, z1)
  PROVE  Leads(Product(p, q), g * h, x, y, u1, z1) /\ Product(p, q) \in Matrices
<1> DEFINE q1 == q[1]  q2 == q[2]  q3 == q[3]  q4 == q[4]
           p1 == p[1]  p2 == p[2]  p3 == p[3]  p4 == p[4]
           new == Product(p, q)
<1>1. /\ q \in Matrices /\ g \in {1, -1} /\ u \in Nat /\ z \in Nat
      /\ x = q4 * u + q2 * z /\ y = q3 * u + q1 * z
      /\ q1 * q4 - q2 * q3 = g
      /\ p \in Matrices /\ h \in {1, -1} /\ u1 \in Nat /\ z1 \in Nat
      /\ u = p4 * u1 + p2 * z1 /\ z = p3 * u1 + p1 * z1
      /\ p1 * p4 - p2 * p3 = h
  BY DEF Leads
<1>2. /\ q1 \in Nat /\ q2 \in Nat /\ q3 \in Nat /\ q4 \in Nat
      /\ p1 \in Nat /\ p2 \in Nat /\ p3 \in Nat /\ p4 \in Nat
  BY <1>1, MatrixTypes
<1>3. /\ new = <<p1 * q1 + p2 * q3, p1 * q2 + p2 * q4, p3 * q1 + p4 * q3, p3 * q2 + p4 * q4>>
      /\ new[1] = p1 * q1 + p2 * q3 /\ new[2] = p1 * q2 + p2 * q4
      /\ new[3] = p3 * q1 + p4 * q3 /\ new[4] = p3 * q2 + p4 * q4
  BY DEF Product
<1> HIDE DEF q1, q2, q3, q4, p1, p2, p3, p4, new
<1>4. /\ p1 * q1 + p2 * q3 \in Nat /\ p1 * q2 + p2 * q4 \in Nat
      /\ p3 * q1 + p4 * q3 \in Nat /\ p3 * q2 + p4 * q4 \in Nat
  BY <1>2
<1>5. new \in Matrices
  BY <1>3, <1>4 DEF Matrices
<1>6. x = (p3 * q2 + p4 * q4) * u1 + (p1 * q2 + p2 * q4) * z1
  <2>1. q4 * (p4 * u1 + p2 * z1) + q2 * (p3 * u1 + p1 * z1)
          = (p3 * q2 + p4 * q4) * u1 + (p1 * q2 + p2 * q4) * z1
    BY <1>1, <1>2
  <2> QED
    BY <1>1, <2>1
<1>7. y = (p3 * q1 + p4 * q3) * u1 + (p1 * q1 + p2 * q3) * z1
  <2>1. q3 * (p4 * u1 + p2 * z1) + q1 * (p3 * u1 + p1 * z1)
          = (p3 * q1 + p4 * q3) * u1 + (p1 * q1 + p2 * q3) * z1
    BY <1>1, <1>2
  <2> QED
    BY <1>1, <2>1
<1>8. (p1 * q1 + p2 * q3) * (p3 * q2 + p4 * q4) - (p1 * q2 + p2 * q4) * (p3 * q1 + p4 * q3)
        = g * h
  <2>1. (p1 * q1 + p2 * q3) * (p3 * q2 + p4 * q4) - (p1 * q2 + p2 * q4) * (p3 * q1 + p4 * q3)
          = (q1 * q4 - q2 * q3) * (p1 * p4 - p2 * p3)
    BY <1>2
  <2> QED
    BY <1>1, <2>1
<1>9. g * h \in {1, -1}
  BY <1>1
<1> QED
  BY <1>1, <1>3, <1>5, <1>6, <1>7, <1>8, <1>9 DEF Leads, new

(* The remainders are those of the matrix, and no larger than the larger   *)
(* of the numbers it was applied to.                                       *)
LEMMA LeadsBack ==
  ASSUME NEW q, NEW g, NEW x, NEW y, NEW u, NEW z, Leads(q, g, x, y, u, z)
  PROVE  g * (q[1] * x - q[2] * y) = u /\ g * (q[4] * y - q[3] * x) = z
<1> DEFINE q1 == q[1]  q2 == q[2]  q3 == q[3]  q4 == q[4]
<1>1. /\ q \in Matrices /\ g \in {1, -1} /\ u \in Nat /\ z \in Nat
      /\ x = q4 * u + q2 * z /\ y = q3 * u + q1 * z
      /\ q1 * q4 - q2 * q3 = g
  BY DEF Leads
<1>2. q1 \in Nat /\ q2 \in Nat /\ q3 \in Nat /\ q4 \in Nat
  BY <1>1, MatrixTypes
<1> HIDE DEF q1, q2, q3, q4
<1>3. q1 * x - q2 * y = g * u
  <2>1. q1 * (q4 * u + q2 * z) - q2 * (q3 * u + q1 * z) = (q1 * q4 - q2 * q3) * u
    BY <1>1, <1>2
  <2> QED
    BY <1>1, <2>1
<1>4. q4 * y - q3 * x = g * z
  <2>1. q4 * (q3 * u + q1 * z) - q3 * (q4 * u + q2 * z) = (q1 * q4 - q2 * q3) * z
    BY <1>1, <1>2
  <2> QED
    BY <1>1, <2>1
<1>5. g * (g * u) = u /\ g * (g * z) = z
  BY <1>1
<1> QED
  BY <1>3, <1>4, <1>5 DEF q1, q2, q3, q4

(* No column of the matrix is zero: it would have no determinant.          *)
LEMMA Columns ==
  ASSUME NEW q \in Matrices, q[1] * q[4] - q[2] * q[3] \in {1, -1}
  PROVE  (q[1] >= 1 \/ q[3] >= 1) /\ (q[2] >= 1 \/ q[4] >= 1)
<1> DEFINE q1 == q[1]  q2 == q[2]  q3 == q[3]  q4 == q[4]
<1>1. /\ q1 \in Nat /\ q2 \in Nat /\ q3 \in Nat /\ q4 \in Nat
      /\ q1 * q4 - q2 * q3 \in {1, -1}
  BY MatrixTypes
<1> HIDE DEF q1, q2, q3, q4
<1>2. q1 = 0 /\ q3 = 0 => q1 * q4 = 0 /\ q2 * q3 = 0
  BY <1>1
<1>3. q2 = 0 /\ q4 = 0 => q1 * q4 = 0 /\ q2 * q3 = 0
  BY <1>1
<1>4. (q1 >= 1 \/ q3 >= 1) /\ (q2 >= 1 \/ q4 >= 1)
  BY <1>1, <1>2, <1>3
<1> QED
  BY <1>4 DEF q1, q2, q3, q4

(* A remainder is not larger than both operands.                           *)
LEMMA LeadsBounds ==
  ASSUME NEW q, NEW g, NEW x, NEW y, NEW u, NEW z, Leads(q, g, x, y, u, z)
  PROVE  /\ x \in Nat /\ y \in Nat
         /\ u <= x \/ u <= y
         /\ z <= x \/ z <= y
<1> DEFINE q1 == q[1]  q2 == q[2]  q3 == q[3]  q4 == q[4]
<1>1. /\ q \in Matrices /\ g \in {1, -1} /\ u \in Nat /\ z \in Nat
      /\ x = q4 * u + q2 * z /\ y = q3 * u + q1 * z
      /\ q1 * q4 - q2 * q3 = g
  BY DEF Leads
<1>2. q1 \in Nat /\ q2 \in Nat /\ q3 \in Nat /\ q4 \in Nat
  BY <1>1, MatrixTypes
<1>3. (q1 >= 1 \/ q3 >= 1) /\ (q2 >= 1 \/ q4 >= 1)
  BY <1>1, Columns
<1> HIDE DEF q1, q2, q3, q4
<1> DEFINE c1 == q4 * u  c2 == q2 * z  c3 == q3 * u  c4 == q1 * z
<1>4. /\ c1 \in Nat /\ c2 \in Nat /\ c3 \in Nat /\ c4 \in Nat
      /\ x = c1 + c2 /\ y = c3 + c4
  BY <1>1, <1>2
<1>5. ASSUME NEW c \in Nat, NEW d \in Nat, c >= 1 PROVE c * d >= d
  <2>1. (c - 1) * d >= 0 /\ (c - 1) * d = c * d - d /\ c * d \in Nat
    BY <1>5
  <2> QED
    BY <2>1
<1>6. /\ q4 >= 1 => c1 >= u
      /\ q2 >= 1 => c2 >= z
      /\ q3 >= 1 => c3 >= u
      /\ q1 >= 1 => c4 >= z
  BY <1>1, <1>2, <1>5
<1> HIDE DEF c1, c2, c3, c4
<1>7. q3 >= 1 \/ q4 >= 1
  <2>1. q3 = 0 /\ q4 = 0 => q1 * q4 = 0 /\ q2 * q3 = 0
    BY <1>2
  <2> QED
    BY <1>1, <1>2, <2>1
<1>8. q1 >= 1 \/ q2 >= 1
  <2>1. q1 = 0 /\ q2 = 0 => q1 * q4 = 0 /\ q2 * q3 = 0
    BY <1>2
  <2> QED
    BY <1>1, <1>2, <2>1
<1> QED
  BY <1>1, <1>4, <1>6, <1>7, <1>8

(* The other way round.                                                    *)
LEMMA LeadsForward ==
  ASSUME NEW q \in Matrices, NEW g \in {1, -1}, q[1] * q[4] - q[2] * q[3] = g,
         NEW x \in Int, NEW y \in Int, NEW u \in Nat, NEW z \in Nat,
         u = g * (q[1] * x - q[2] * y), z = g * (q[4] * y - q[3] * x)
  PROVE  Leads(q, g, x, y, u, z)
<1> DEFINE q1 == q[1]  q2 == q[2]  q3 == q[3]  q4 == q[4]
<1>1. /\ q1 \in Nat /\ q2 \in Nat /\ q3 \in Nat /\ q4 \in Nat
      /\ q1 * q4 - q2 * q3 = g
      /\ u = g * (q1 * x - q2 * y) /\ z = g * (q4 * y - q3 * x)
  BY MatrixTypes
<1> HIDE DEF q1, q2, q3, q4
<1> DEFINE c == q1 * x - q2 * y  d == q4 * y - q3 * x
<1>2. c \in Int /\ d \in Int /\ q4 * c + q2 * d = g * x /\ q3 * c + q1 * d = g * y
  <2>1. q4 * (q1 * x - q2 * y) + q2 * (q4 * y - q3 * x) = (q1 * q4 - q2 * q3) * x
    BY <1>1
  <2>2. q3 * (q1 * x - q2 * y) + q1 * (q4 * y - q3 * x) = (q1 * q4 - q2 * q3) * y
    BY <1>1
  <2> QED
    BY <1>1, <2>1, <2>2
<1>3. u = g * c /\ z = g * d
  BY <1>1
<1> HIDE DEF c, d
<1>4. q4 * (g * c) + q2 * (g * d) = g * (q4 * c + q2 * d)
      /\ q3 * (g * c) + q1 * (g * d) = g * (q3 * c + q1 * d)
  BY <1>1, <1>2
<1>5. g * (g * x) = x /\ g * (g * y) = y
  OBVIOUS
<1>6. x = q4 * u + q2 * z /\ y = q3 * u + q1 * z
  BY <1>2, <1>3, <1>4, <1>5
<1> QED
  BY <1>1, <1>6 DEF Leads, q1, q2, q3, q4

(* X and Y are the leading parts of x and y.                               *)
Leads2(s, p, x, y, X, Y) ==
  x * s - p * X \in 0 .. p - 1 /\ y * s - p * Y \in 0 .. p - 1

(* A row c, d of a matrix, with the sign g, applied to two numbers.        *)
Applied(c, d, g, x, y) == g * (c * x - d * y)

RowOf(c, d, f, g, X, Y, u) == g \in {1, -1} /\ c <= f /\ d <= f /\ u = Applied(c, d, g, X, Y)

(* s times v is p times u, up to p times f.                                *)
Scaled(s, p, v, u, f) == v \in Int /\ p * (u - f) <= s * v /\ s * v <= p * (u + f)

(* A row that is safe for the leading limbs is safe for the whole          *)
(* operands: what the limbs below add is smaller than one unit of the      *)
(* leading ones.                                                           *)
LEMMA RowApplied ==
  ASSUME NEW s \in Nat, NEW p \in Nat, NEW x \in Nat, NEW y \in Nat,
         NEW X \in Nat, NEW Y \in Nat, Leads2(s, p, x, y, X, Y),
         NEW c \in Nat, NEW d \in Nat, NEW f \in Nat, NEW g \in Int,
         NEW u \in Int, RowOf(c, d, f, g, X, Y, u)
  PROVE  Scaled(s, p, Applied(c, d, g, x, y), u, f)
<1> DEFINE e1 == x * s - p * X  e2 == y * s - p * Y  a1 == c * x - d * y
<1>1. e1 \in 0 .. p - 1 /\ e2 \in 0 .. p - 1
  BY DEF Leads2
<1>0. g \in {1, -1} /\ c <= f /\ d <= f /\ u = g * (c * X - d * Y)
  BY DEF RowOf, Applied
<1>2. s * a1 = p * (c * X - d * Y) + (c * e1 - d * e2)
  <2>1. s * (c * x - d * y)
          = p * (c * X - d * Y) + (c * (x * s - p * X) - d * (y * s - p * Y))
    OBVIOUS
  <2> QED
    BY <2>1
<1>3. a1 \in Int
  OBVIOUS
<1> DEFINE j == c * e1 - d * e2  pu == c * X - d * Y
<1>4. pu \in Int /\ u = g * pu
  BY <1>0
<1> HIDE DEF e1, e2
<1>5. j \in Int /\ -(p * f) <= j /\ j <= p * f
  <2>1. c * e1 <= p * f /\ c * e1 >= 0
    <3>1. c * (p - e1) >= 0 /\ c * (p - e1) = c * p - c * e1
      BY <1>1
    <3>2. p * (f - c) >= 0 /\ p * (f - c) = p * f - p * c
      BY <1>0
    <3>3. c * e1 >= 0 /\ c * e1 \in Int /\ c * p = p * c /\ c * p \in Int /\ p * f \in Int
      BY <1>1
    <3> QED
      BY <3>1, <3>2, <3>3
  <2>2. d * e2 <= p * f /\ d * e2 >= 0
    <3>1. d * (p - e2) >= 0 /\ d * (p - e2) = d * p - d * e2
      BY <1>1
    <3>2. p * (f - d) >= 0 /\ p * (f - d) = p * f - p * d
      BY <1>0
    <3>3. d * e2 >= 0 /\ d * e2 \in Int /\ d * p = p * d /\ d * p \in Int /\ p * f \in Int
      BY <1>1
    <3> QED
      BY <3>1, <3>2, <3>3
  <2>3. c * e1 \in Int /\ d * e2 \in Int /\ p * f \in Int
    BY <1>1
  <2> QED
    BY <2>1, <2>2, <2>3
<1>6. s * a1 = p * pu + j
  BY <1>2 DEF j
<1> HIDE DEF a1, j, pu
<1>7. s * (g * a1) = p * u + g * j
  <2>1. s * (g * a1) = g * (s * a1)
    BY <1>3
  <2>2. g * (p * pu + j) = p * (g * pu) + g * j
    BY <1>4, <1>5
  <2> QED
    BY <1>4, <1>6, <2>1, <2>2
<1>8. -(p * f) <= g * j /\ g * j <= p * f /\ g * j \in Int
  <2> DEFINE l == p * f
  <2>1. l \in Int /\ -l <= j /\ j <= l
    BY <1>5
  <2> HIDE DEF l
  <2>2. -l <= g * j /\ g * j <= l
    BY <1>0, <1>5, <2>1
  <2> QED
    BY <1>0, <1>5, <2>2 DEF l
<1>9. p * (u - f) = p * u - p * f /\ p * (u + f) = p * u + p * f
  OBVIOUS
<1>10. p * u \in Int /\ p * f \in Int /\ g * a1 \in Int
  BY <1>3
<1>11. p * (u - f) <= s * (g * a1) /\ s * (g * a1) <= p * (u + f)
  BY <1>7, <1>8, <1>9, <1>10
<1> QED
  BY <1>10, <1>11 DEF a1, Applied, Scaled

(* A matrix of leading parts that is safe for them is safe for the whole.  *)
LEMMA WholeOperands ==
  ASSUME NEW s \in Nat \ {0}, NEW p \in Nat \ {0}, NEW x \in Nat, NEW y \in Nat,
         NEW X \in Nat, NEW Y \in Nat, Leads2(s, p, x, y, X, Y),
         NEW mat, NEW n, NEW u \in Nat, NEW z \in Nat, Remains(mat, n, X, Y, u, z),
         Safe(mat, u, z)
  PROVE  /\ Signed(n, mat[1] * x - mat[2] * y) \in Nat \ {0}
         /\ Signed(n, mat[4] * y - mat[3] * x) \in Nat \ {0}
         /\ Signed(n, mat[4] * y - mat[3] * x) <= 8 * Signed(n, mat[1] * x - mat[2] * y)
         /\ Near(mat, u, z) =>
              Signed(n, mat[1] * x - mat[2] * y) <= 8 * Signed(n, mat[4] * y - mat[3] * x)
<1> DEFINE g == Signed(n, 1)  m1 == mat[1]  m2 == mat[2]  m3 == mat[3]  m4 == mat[4]
<1>1. /\ mat \in Entries /\ n \in Nat /\ g \in {1, -1}
  BY OneStep DEF Remains
<1>2. m1 \in Nat /\ m2 \in Nat /\ m3 \in Nat /\ m4 \in Nat /\ s \in Nat /\ p \in Nat
      /\ g \in Int /\ u \in Int /\ z \in Int
  BY <1>1, EntryTypes
<1>3. u = g * (m1 * X - m2 * Y) /\ z = g * (m4 * Y - m3 * X)
  BY RemainsLeads, LeadsBack
<1>4. /\ Signed(n, m1 * x - m2 * y) = g * (m1 * x - m2 * y)
      /\ Signed(n, m4 * y - m3 * x) = g * (m4 * y - m3 * x)
  <2>1. m1 * x - m2 * y \in Int /\ m4 * y - m3 * x \in Int
    BY <1>2
  <2> QED
    BY <1>1, <2>1, SignedIs
<1> HIDE DEF g, m1, m2, m3, m4
<1> DEFINE h == -g  a1 == Applied(m1, m2, g, x, y)  b1 == Applied(m3, m4, h, x, y)
<1>5. b1 = g * (m4 * y - m3 * x) /\ a1 = g * (m1 * x - m2 * y)
  BY <1>1, <1>2 DEF Applied
<1>6. ASSUME NEW f \in Nat, FirstRow(mat, f)
      PROVE  a1 \in Int /\ p * (u - f) <= s * a1 /\ s * a1 <= p * (u + f)
  <2>1. m1 <= f /\ m2 <= f
    BY <1>6 DEF FirstRow, m1, m2
  <2>2. RowOf(m1, m2, f, g, X, Y, u)
    BY <1>1, <1>3, <2>1 DEF RowOf, Applied
  <2>3. Scaled(s, p, Applied(m1, m2, g, x, y), u, f)
    BY <1>2, <1>6, <2>2, RowApplied, Zenon
  <2> QED
    BY <2>3 DEF Scaled
<1>7. ASSUME NEW f \in Nat, SecondRow(mat, f)
      PROVE  b1 \in Int /\ p * (z - f) <= s * b1 /\ s * b1 <= p * (z + f)
  <2>1. m3 <= f /\ m4 <= f
    BY <1>7 DEF SecondRow, m3, m4
  <2>2. h \in {1, -1}
    BY <1>1
  <2>6. h \in Int
    BY <2>2
  <2>3. z = h * (m3 * X - m4 * Y)
    <3>1. g * (m4 * Y - m3 * X) = (-g) * (m3 * X - m4 * Y)
      BY <1>1, <1>2
    <3> QED
      BY <1>3, <3>1
  <2> HIDE DEF h
  <2>4. RowOf(m3, m4, f, h, X, Y, z)
    BY <2>1, <2>2, <2>3 DEF RowOf, Applied
  <2>5. Scaled(s, p, Applied(m3, m4, h, x, y), z, f)
    BY <1>2, <1>7, <2>4, <2>6, RowApplied, Zenon
  <2> QED
    BY <2>5 DEF Scaled
<1>8. PICK f1, f2 \in Nat : /\ FirstRow(mat, f1) /\ SecondRow(mat, f2)
                            /\ f1 < u /\ f2 < z /\ z + f2 <= 8 * (u - f1)
  BY DEF Safe
<1>9. /\ a1 \in Int /\ p * (u - f1) <= s * a1
      /\ b1 \in Int /\ p * (z - f2) <= s * b1 /\ s * b1 <= p * (z + f2)
  BY <1>6, <1>7, <1>8
<1> HIDE DEF a1, b1
<1>10. ASSUME NEW c \in Int, c > 0, NEW d \in Int, p * c <= s * d
       PROVE  d > 0
  <2>1. p * c > 0 /\ p * c \in Int /\ s * d \in Int
    BY <1>10
  <2>2. s * d > 0
    BY <1>10, <2>1
  <2>3. d <= 0 => s * (0 - d) >= 0
    OBVIOUS
  <2>4. s * (0 - d) = 0 - s * d
    OBVIOUS
  <2> QED
    BY <2>1, <2>2, <2>3, <2>4
<1>11. a1 > 0 /\ b1 > 0
  <2>1. u - f1 \in Int /\ u - f1 > 0 /\ z - f2 \in Int /\ z - f2 > 0
    BY <1>8
  <2> QED
    BY <1>9, <1>10, <2>1
<1>12. ASSUME NEW c \in Int, NEW d \in Int, NEW c1 \in Int, NEW d1 \in Int,
              s * c <= p * c1, p * d1 <= s * d, c1 <= 8 * d1
       PROVE  c <= 8 * d
  <2>1. p * (8 * d1 - c1) >= 0 /\ p * (8 * d1 - c1) = 8 * (p * d1) - p * c1
    BY <1>12
  <2>2. p * d1 \in Int /\ p * c1 \in Int /\ s * c \in Int /\ s * d \in Int
    BY <1>12
  <2>3. s * c <= 8 * (s * d)
    BY <1>12, <2>1, <2>2
  <2>4. 8 * (s * d) = (8 * d) * s /\ s * c = c * s /\ s \in Nat /\ s > 0
    BY <1>12
  <2>5. c > 8 * d => (c - 8 * d) * s > 0
    BY <1>12, <2>4
  <2>6. (c - 8 * d) * s = c * s - (8 * d) * s
    BY <1>12
  <2> QED
    BY <1>12, <2>2, <2>3, <2>4, <2>5, <2>6
<1>13. b1 <= 8 * a1
  <2> DEFINE c1 == z + f2  d1 == u - f1
  <2>1. c1 \in Int /\ d1 \in Int /\ c1 <= 8 * d1 /\ s * b1 <= p * c1 /\ p * d1 <= s * a1
    BY <1>8, <1>9
  <2> HIDE DEF c1, d1
  <2> QED
    BY <1>9, <1>12, <2>1
<1>14. ASSUME Near(mat, u, z) PROVE a1 <= 8 * b1
  <2>1. PICK h1, h2 \in Nat : /\ FirstRow(mat, h1) /\ SecondRow(mat, h2)
                              /\ h2 < z /\ u + h1 <= 8 * (z - h2)
    BY <1>14 DEF Near
  <2>2. s * a1 <= p * (u + h1) /\ p * (z - h2) <= s * b1
    BY <1>6, <1>7, <2>1 DEF a1, b1
  <2> DEFINE c1 == u + h1  d1 == z - h2
  <2>3. c1 \in Int /\ d1 \in Int /\ c1 <= 8 * d1 /\ s * a1 <= p * c1 /\ p * d1 <= s * b1
    BY <2>1, <2>2
  <2> HIDE DEF c1, d1
  <2> QED
    BY <1>9, <1>12, <2>3
<1>15. a1 \in Nat \ {0} /\ b1 \in Nat \ {0}
  BY <1>9, <1>11
<1>16. Signed(n, m1 * x - m2 * y) = a1 /\ Signed(n, m4 * y - m3 * x) = b1
  BY <1>4, <1>5
<1> QED
  BY <1>13, <1>14, <1>15, <1>16 DEF m1, m2, m3, m4

(* What the collected matrices have made of the operands: this matrix      *)
(* holds the cofactors of both.                                            *)
Sign == Signed(IF pc = "last" THEN nc + sim.n ELSE nc, 1)

Linked ==
  \E q \in Matrices :
    /\ Leads(q, Sign, Big, Small, tad, tbd)
    /\ Trusted /\ extended => v0 = q[2] /\ v1 = q[4]
    /\ tbd = 0 => Ordered(q)

(* Remainders and cofactors in their arrays.                               *)
Sizes ==
  /\ tad > 0 /\ tbd <= 8 * tad /\ tal <= LimbCount(Big)
  /\ ~extended => v0 = 0 /\ v1 = 1 /\ vl = 1
  /\ Trusted /\ extended =>
       /\ Counted(v0, v1, vl)
       /\ vl <= 1 \/ B^(vl - 1) <= v0 \/ B^(vl - 1) <= v1
       /\ v0 <= v1 \/ tad <= 8 * tbd

(* The simulation when it has stopped ...                                  *)
Stopped(s, x, y) ==
  IF s.n = 0 THEN s.m = Identity
  ELSE \E u, z \in Nat : /\ Remains(s.m, s.n, x, y, u, z)
                         /\ Rows(s.m, s.n, u, z) /\ Safe(s.m, u, z)

(* ... Euclid's algorithm on single limbs ...                              *)
OnLimbs(s, x, y) ==
  /\ Remains(s.m, s.n, x, y, s.a, s.b)
  /\ s.b <= s.a /\ 0 < s.a
  /\ s.b < s.a \/ s.n = 0
  /\ s.n = 0 \/ Ordered(s.m) \/ (s.m = Exchange /\ s.b > 0)
  /\ s.b = 0 => s.m[1] + s.m[2] <= B

(* ... and when g is left of it.                                           *)
Final(s, x, y, g) ==
  /\ Remains(s.m, s.n, x, y, g, 0)
  /\ s.n = 0 \/ Ordered(s.m)
  /\ s.m[1] + s.m[2] <= B

Simulating == pc \in {"phase1", "phase2"} \/ (pc = "simulated" /\ sim.n > 0)

Stages ==
  /\ pc = "loop" /\ tbd = 0 => sim.n = 0 /\ sim.m = Identity
  /\ Simulating => B <= Leading(tbd)
  /\ pc = "phase1" => FirstPhase(sim, Leading(tad), Leading(tbd))
  /\ pc = "phase2" => SecondPhase(sim, Leading(tad), Leading(tbd))
  /\ pc = "simulated" => Stopped(sim, Leading(tad), Leading(tbd))
  /\ pc = "word" => tbd < tad
  /\ pc = "limbs" => OnLimbs(sim, tad, tbd)
  /\ pc = "last" => \E g \in Nat \ {0} : Final(sim, tad, tbd, g)

(* If one operand is one, the other is divided by it once, and no more:    *)
(* the sign of the cofactor depends on that.                               *)
Units ==
  Small = 1 =>
    /\ pc = "loop" => nc = 0 /\ tbd = 1
    /\ pc \notin {"phase1", "phase2", "simulated"}
    /\ pc = "word" => nc = 1 /\ tbd = 0
    /\ pc = "limbs" => \/ nc = 1 /\ sim.n = 0 /\ sim.b = 0
                       \/ nc = 0 /\ sim.n = 0 /\ sim.b = 1
                       \/ nc = 0 /\ sim.n = 1 /\ sim.b = 0
    /\ pc = "last" => nc = 1

Work == {"loop", "phase1", "phase2", "simulated", "word", "limbs", "last"}

Inner ==
  /\ pc # "overrun" => Linked
  /\ pc \in Work => Sizes /\ Stages /\ Units

(* Operands.                                                               *)
LEMMA OperandTypes ==
  ASSUME Shape
  PROVE  /\ ad \in Nat \ {0} /\ bd \in Nat \ {0}
         /\ Big \in Nat \ {0} /\ Small \in Nat \ {0} /\ Small <= Big
         /\ Big < B^MaxLimbs /\ LimbCount(Big) \in 1 .. MaxLimbs
         /\ Big < B^LimbCount(Big)
         /\ Room = LimbCount(Big) + 2
         /\ Signed(nc, 1) \in {1, -1}
<1>1. /\ MaxLimbs \in Limits /\ MaxLimbs \in Nat /\ B^MaxLimbs \in Nat /\ nc \in {0, 1}
      /\ ad \in 1 .. B^MaxLimbs - 1 /\ bd \in 1 .. B^MaxLimbs - 1
  BY Ranges, Bases, BasePowers DEF Shape, Values
<1> DEFINE p == B^MaxLimbs
<1>2. ad \in Nat \ {0} /\ bd \in Nat \ {0} /\ ad < p /\ bd < p
  <2>1. p \in Nat /\ ad \in 1 .. p - 1 /\ bd \in 1 .. p - 1
    BY <1>1
  <2> HIDE DEF p
  <2> QED
    BY <2>1
<1>3. Big \in Nat \ {0} /\ Small \in Nat \ {0} /\ Small <= Big /\ Big < p
      /\ ((Big = ad /\ bd <= ad) \/ (Big = bd /\ ad <= bd))
  <2> HIDE DEF p
  <2> QED
    BY <1>2 DEF Big, Small, swap
<1>4. Big \in Nat /\ Big > 0 /\ Big < B^MaxLimbs
  BY <1>3
<1>5. LimbCount(Big) \in 0 .. MaxLimbs /\ Big < B^LimbCount(Big) /\ LimbCount(Big) >= 1
  BY <1>1, <1>4, CountFits
<1>6. LimbCount(ad) <= LimbCount(Big) /\ LimbCount(bd) <= LimbCount(Big)
  <2>1. ad <= Big /\ bd <= Big /\ ad \in Nat /\ bd \in Nat
    BY <1>2, <1>3
  <2> QED
    BY <1>1, <1>4, <2>1, CountGrows
<1>7. LimbCount(ad) \in Nat /\ LimbCount(bd) \in Nat
  BY <1>2, LimbCountIs
<1>8. Larger(LimbCount(ad), LimbCount(bd)) = LimbCount(Big)
  <2> DEFINE x == LimbCount(ad)  y == LimbCount(bd)  z == LimbCount(Big)
  <2>1. x \in Nat /\ y \in Nat /\ x <= z /\ y <= z /\ (z = x \/ z = y)
    BY <1>3, <1>6, <1>7
  <2> HIDE DEF x, y, z
  <2>2. Larger(x, y) = z
    BY <2>1 DEF Larger
  <2> QED
    BY <2>2 DEF x, y, z
<1>9. Signed(nc, 1) \in {1, -1}
  BY <1>1, OneStep
<1> QED
  BY <1>1, <1>2, <1>3, <1>4, <1>5, <1>8, <1>9 DEF Room

(* Nothing has been called.                                                *)
LEMMA InitInner == Init => Inner
<1> SUFFICES ASSUME Init PROVE Inner
  OBVIOUS
<1>1. Shape
  BY InitShape
<1>2. /\ tad = Big /\ tbd = Small /\ tal = LimbCount(Big) /\ tbl = LimbCount(Small)
      /\ v0 = 0 /\ v1 = 1 /\ vl = 1 /\ nc = 0 /\ sim.n = 0 /\ sim.m = Identity /\ pc = "loop"
      /\ Trusted
  BY DEF Init, Start, Big, Small, swap, Trusted
<1>3. Big \in Nat \ {0} /\ Small \in Nat \ {0} /\ Small <= Big
  BY <1>1, OperandTypes
<1>4. Sign = 1
  <2>1. 0 \in Nat
    OBVIOUS
  <2>2. Sign = Signed(0, 1)
    BY <1>2 DEF Sign
  <2> QED
    BY <2>1, <2>2, OneStep
<1>5. Identity \in Matrices
  BY DEF Identity, Matrices
<1>6. Identity[1] = 1 /\ Identity[2] = 0 /\ Identity[3] = 0 /\ Identity[4] = 1
  BY DEF Identity
<1>7. Leads(Identity, Sign, Big, Small, tad, tbd)
  BY <1>2, <1>3, <1>4, <1>5, <1>6 DEF Leads
<1>8. Linked
  BY <1>2, <1>3, <1>5, <1>6, <1>7 DEF Linked
<1>9. Sizes
  <2>1. LimbCount(Big) \in Nat
    BY <1>3, LimbCountIs
  <2>2. Counted(v0, v1, vl)
    BY <1>2, Bases DEF Counted
  <2> QED
    BY <1>2, <1>3, <2>1, <2>2 DEF Sizes
<1>10. Stages /\ Units
  BY <1>2, <1>3 DEF Stages, Units, Simulating
<1> QED
  BY <1>8, <1>9, <1>10 DEF Inner

(* The leading limbs that Leading cuts out: two pairs, taken at the same   *)
(* place of both operands, one of them with its highest bit.               *)
LEMMA LeadingFacts ==
  ASSUME Shape, pc \in {"loop", "phase1", "phase2", "simulated"}, tbl >= 2, B <= Leading(tbd)
  PROVE  /\ Leading(tad) \in Pairs /\ Leading(tbd) \in Pairs
         /\ \E s, p \in Nat \ {0} : Leads2(s, p, tad, tbd, Leading(tad), Leading(tbd))
         /\ B * B <= 2 * Leading(tad) \/ B * B <= 2 * Leading(tbd)
<1>1. /\ tad \in Nat /\ tbd \in Nat /\ tal \in 0 .. MaxLimbs + 1 /\ tad < B^tal /\ tbd < B^tal
      /\ tbl = LimbCount(tbd) /\ tal = Larger(LimbCount(tad), tbl) /\ MaxLimbs \in Nat
  BY Bases DEF Shape, Values, Counts, Places
<1>2. tbl \in Nat /\ LimbCount(tad) \in Nat
  BY <1>1, LimbCountIs
<1>3. tal - tbl <= 1
  <2> SUFFICES ASSUME ~(tal - tbl <= 1) PROVE FALSE
    OBVIOUS
  <2>1. Leading(tbd) = 0
    BY DEF Leading
  <2>2. B \in Nat /\ B >= 16
    BY Ranges
  <2> QED
    BY <2>1, <2>2
<1>4. tal \in 2 .. MaxLimbs + 1 /\ (LimbCount(tad) = tal \/ LimbCount(tbd) = tal)
  <2> DEFINE x == LimbCount(tad)  y == LimbCount(tbd)
  <2>1. x \in Nat /\ y \in Nat /\ tal = Larger(x, y) /\ y >= 2
    BY <1>1, <1>2
  <2> HIDE DEF x, y
  <2>2. tal >= 2 /\ (x = tal \/ y = tal)
    BY <2>1 DEF Larger
  <2> QED
    BY <1>1, <2>2 DEF x, y
<1>5. PICK s, p \in Nat \ {0} :
           /\ Leading(tad) \in 0 .. B * B - 1 /\ Leading(tbd) \in 0 .. B * B - 1
           /\ tad * s - p * Leading(tad) \in 0 .. p - 1
           /\ tbd * s - p * Leading(tbd) \in 0 .. p - 1
           /\ B * B <= 2 * Leading(tad) \/ B * B <= 2 * Leading(tbd)
  BY <1>1, <1>2, <1>3, <1>4, LeadingLimbs
<1>6. Leads2(s, p, tad, tbd, Leading(tad), Leading(tbd))
  BY <1>5 DEF Leads2
<1> QED
  BY <1>5, <1>6 DEF Pairs

(* The smaller one of two exchanged operands has an upper limb as well.    *)
LEMMA ExchangedUpper ==
  ASSUME NEW s \in Nat \ {0}, NEW p \in Nat \ {0}, NEW x \in Nat, NEW y \in Nat,
         NEW X \in Nat, NEW Y \in Nat, Leads2(s, p, x, y, X, Y), y <= 8 * x,
         B * B <= 2 * X \/ B * B <= 2 * Y
  PROVE  B <= X
<1>1. B \in Nat /\ B >= 16 /\ B * B \in Nat
  BY Ranges
<1>2. 16 * B <= B * B
  <2>1. (B - 16) * B >= 0 /\ (B - 16) * B = B * B - 16 * B
    BY <1>1
  <2> QED
    BY <1>1, <2>1
<1> DEFINE l == B * B
<1>3. l \in Nat /\ 16 * B <= l /\ (l <= 2 * X \/ l <= 2 * Y)
  BY <1>1, <1>2
<1>4. Y < 8 * (X + 1)
  <2>1. x * s - p * X \in 0 .. p - 1 /\ y * s - p * Y \in 0 .. p - 1
    BY DEF Leads2
  <2> DEFINE e1 == x * s  e2 == y * s  e3 == p * X  e4 == p * Y
  <2>2. e1 \in Nat /\ e2 \in Nat /\ e3 \in Nat /\ e4 \in Nat
    OBVIOUS
  <2>3. e2 <= 8 * e1
    <3>1. (8 * x - y) * s >= 0 /\ (8 * x - y) * s = 8 * (x * s) - y * s
      OBVIOUS
    <3> QED
      BY <2>2, <3>1
  <2>4. p * (8 * (X + 1)) = 8 * e3 + 8 * p
    OBVIOUS
  <2>5. e4 <= e2 /\ e1 < e3 + p
    BY <2>1, <2>2
  <2>6. p * Y < p * (8 * (X + 1))
    <3> HIDE DEF e1, e2, e3
    <3>1. e4 < 8 * e3 + 8 * p
      BY <2>2, <2>3, <2>5
    <3> QED
      BY <2>4, <3>1
  <2> DEFINE c == 8 * (X + 1)
  <2>7. c \in Nat /\ Y * p < c * p
    BY <2>6
  <2> HIDE DEF c
  <2>8. Y < c
    BY <2>7, SmallerFactor
  <2> QED
    BY <2>8 DEF c
<1> HIDE DEF l
<1> QED
  BY <1>1, <1>3, <1>4

(* Steps that leave operands, remainders and cofactors alone.              *)
Still ==
  /\ call' = call /\ ad' = ad /\ bd' = bd
  /\ tad' = tad /\ tbd' = tbd /\ tal' = tal /\ tbl' = tbl
  /\ v0' = v0 /\ v1' = v1 /\ vl' = vl /\ lost' = lost

(* A step of the simulation changes nothing that Inner says of the         *)
(* operands and the cofactors.                                             *)
LEMMA StillKeeps ==
  ASSUME Still, ~borrowed, ~borrowed'
  PROVE  /\ Big' = Big /\ Small' = Small /\ extended' = extended /\ Trusted' = Trusted
         /\ Sizes => Sizes'
         /\ Linked /\ Sign' = Sign => Linked'
         /\ Leading(tad)' = Leading(tad) /\ Leading(tbd)' = Leading(tbd)
<1>1. Big' = Big /\ Small' = Small /\ (extended <=> extended') /\ (Trusted <=> Trusted')
  BY DEF Still, Big, Small, swap, extended, Trusted
<1>2. extended' = extended /\ Trusted' = Trusted
  BY <1>1 DEF extended, Trusted
<1>3. Sizes => Sizes'
  BY <1>1 DEF Still, Sizes, Counted
<1>4. Linked /\ Sign' = Sign => Linked'
  <2> SUFFICES ASSUME Linked, Sign' = Sign PROVE Linked'
    OBVIOUS
  <2>1. PICK q \in Matrices : /\ Leads(q, Sign, Big, Small, tad, tbd)
                              /\ Trusted /\ extended => v0 = q[2] /\ v1 = q[4]
                              /\ tbd = 0 => Ordered(q)
    BY DEF Linked
  <2>2. Leads(q, Sign', Big', Small', tad', tbd')
    BY <1>1, <2>1 DEF Still
  <2> QED
    BY <1>1, <2>1, <2>2 DEF Still, Linked
<1>5. Leading(tad)' = Leading(tad) /\ Leading(tbd)' = Leading(tbd)
  BY DEF Still, Leading
<1> QED
  BY <1>1, <1>2, <1>3, <1>4, <1>5

(* The simulation starts in agreement with the leading limbs.              *)
LEMMA StartSimulationInner ==
  ASSUME Shape, Inner, StartSimulation, ~borrowed, ~borrowed'
  PROVE  Inner'
<1> DEFINE x == Leading(tad)  y == Leading(tbd)
<1>1. /\ pc = "loop" /\ tbl >= 2
      /\ pc' = (IF y < B THEN "simulated" ELSE "phase1")
      /\ sim' = (IF y < B \/ x >= y THEN Start(x, y) ELSE StartExchanged(x, y))
      /\ Still /\ nc' = nc
  BY DEF StartSimulation, operands, remainders, cofactors, history, Still
<1>2. Linked /\ Sizes /\ Units
  BY <1>1 DEF Inner, Work
<1>3. Sign' = Sign
  BY <1>1 DEF Sign
<1>4. Linked' /\ Sizes' /\ Leading(tad)' = x /\ Leading(tbd)' = y /\ Small' = Small
  BY <1>1, <1>2, <1>3, StillKeeps
<1> HIDE DEF x, y
<1>5. B \in Nat
  BY Ranges
<1>6. Units'
  <2> SUFFICES ASSUME Small = 1 PROVE FALSE
    BY <1>4 DEF Units
  <2>1. tbd = 1
    BY <1>1, <1>2 DEF Units
  <2>2. LimbCount(1) <= 1
    BY Ranges, Bases, CountSmall DEF Limits
  <2>3. tbl = LimbCount(tbd)
    BY <1>1 DEF Shape, Counts
  <2>4. LimbCount(1) \in Nat
    BY LimbCountIs
  <2> QED
    BY <1>1, <2>1, <2>2, <2>3, <2>4
<1>7. CASE y < B
  <2>1. sim'.n = 0 /\ sim'.m = Identity /\ pc' = "simulated"
    BY <1>1, <1>7 DEF Start
  <2>2. Stopped(sim', x, y)
    BY <2>1 DEF Stopped
  <2>3. ~Simulating'
    BY <2>1 DEF Simulating
  <2>4. Stages'
    BY <1>4, <2>1, <2>2, <2>3 DEF Stages
  <2> QED
    BY <1>4, <1>6, <2>1, <2>4 DEF Inner
<1>8. CASE ~(y < B)
  <2>1. B <= y
    <3>1. y \in Int
      <4>1. Shape'
        BY StartSimulationShape
      <4>2. sim'.a \in Pairs /\ sim'.b \in Pairs
        BY <4>1 DEF Shape, Values, Sims
      <4>3. y = sim'.a \/ y = sim'.b
        BY <1>1 DEF Start, StartExchanged
      <4>4. y \in Pairs
        BY <4>2, <4>3
      <4> QED
        BY <4>4 DEF Pairs
    <3> QED
      BY <1>5, <1>8, <3>1
  <2>2. /\ x \in Pairs /\ y \in Pairs /\ x \in Nat /\ y \in Nat
        /\ \E s, p \in Nat \ {0} : Leads2(s, p, tad, tbd, x, y)
        /\ B * B <= 2 * x \/ B * B <= 2 * y
    BY <1>1, <2>1, LeadingFacts DEF x, y, Pairs
  <2>3. x < y => B <= x
    <3>1. PICK s, p \in Nat \ {0} : Leads2(s, p, tad, tbd, x, y)
      BY <2>2
    <3>2. tad \in Nat /\ tbd \in Nat /\ tbd <= 8 * tad
      BY <1>2 DEF Shape, Values, Sizes
    <3> QED
      BY <2>2, <3>1, <3>2, ExchangedUpper
  <2>4. FirstPhase(sim', x, y)
    <3>1. CASE x >= y
      <4>1. sim' = Start(x, y) /\ y <= x
        BY <1>1, <2>2, <3>1
      <4> QED
        BY <2>1, <2>2, <4>1, FirstPhaseStart
    <3>2. CASE ~(x >= y)
      <4>1. sim' = StartExchanged(x, y) /\ x < y
        BY <1>1, <1>8, <2>2, <3>2
      <4> QED
        BY <2>1, <2>2, <2>3, <4>1, FirstPhaseStart
    <3> QED
      BY <3>1, <3>2
  <2>5. pc' = "phase1"
    BY <1>1, <1>8
  <2>6. Stages'
    BY <1>4, <2>1, <2>4, <2>5 DEF Stages
  <2> QED
    BY <1>4, <1>6, <2>5, <2>6 DEF Inner
<1> QED
  BY <1>7, <1>8

(* The leading parts are numbers as soon as one is simulated with.         *)
LEMMA LeadingTypes ==
  ASSUME Shape, Inner, pc \in {"phase1", "phase2"}
  PROVE  /\ Leading(tad) \in Pairs /\ Leading(tbd) \in Pairs
         /\ Linked /\ Sizes /\ Stages /\ Small # 1
<1>1. Linked /\ Sizes /\ Stages /\ Units
  BY DEF Inner, Work
<1>2. B <= Leading(tbd)
  BY <1>1 DEF Stages, Simulating
<1>3. tbl >= 2
  BY DEF Shape, Places
<1>4. Leading(tad) \in Pairs /\ Leading(tbd) \in Pairs
  BY <1>2, <1>3, LeadingFacts
<1>5. Small # 1
  BY <1>1 DEF Units
<1> QED
  BY <1>1, <1>4, <1>5

(* A simulated step, or the stop in its place.                             *)
LEMMA SimulateInner ==
  ASSUME Shape, Inner, pc \in {"phase1", "phase2"}, ~borrowed, ~borrowed',
         NEW q, NEW r, NEW least, Simulate(q, r, least),
         r < least => Stopped(sim, Leading(tad), Leading(tbd)),
         ~(r < least) /\ pc = "phase1" =>
           FirstPhase([StepBy(sim, q) EXCEPT !.b = r], Leading(tad), Leading(tbd)),
         ~(r < least) /\ pc = "phase2" =>
           SecondPhase([StepBy(sim, q) EXCEPT !.b = r], Leading(tad), Leading(tbd))
  PROVE  Inner'
<1>1. Linked /\ Sizes /\ Stages /\ Small # 1
  BY LeadingTypes
<1>2. Still /\ nc' = nc
  BY DEF Simulate, operands, remainders, cofactors, Still
<1>3. pc # "last" /\ pc' # "last" /\ pc' \in {pc, "simulated"}
  BY DEF Simulate
<1>4. Sign' = Sign
  BY <1>2, <1>3 DEF Sign
<1>5. Linked' /\ Sizes' /\ Leading(tad)' = Leading(tad) /\ Leading(tbd)' = Leading(tbd) /\ Small' = Small
  BY <1>1, <1>2, <1>4, StillKeeps
<1>6. Units'
  BY <1>1, <1>5 DEF Units
<1>7. B <= Leading(tbd)
  BY <1>1 DEF Stages, Simulating
<1>8. CASE r < least
  <2>1. pc' = "simulated" /\ sim' = sim /\ Stopped(sim, Leading(tad), Leading(tbd))
    BY <1>8 DEF Simulate
  <2>2. Stages'
    BY <1>5, <1>7, <2>1 DEF Stages
  <2> QED
    BY <1>5, <1>6, <2>1, <2>2 DEF Inner
<1>9. CASE ~(r < least)
  <2>1. pc' = pc /\ sim' = [StepBy(sim, q) EXCEPT !.b = r]
    BY <1>9 DEF Simulate
  <2>2. Stages'
    BY <1>5, <1>7, <1>9, <2>1 DEF Stages
  <2> QED
    BY <1>5, <1>6, <2>1, <2>2 DEF Inner
<1> QED
  BY <1>8, <1>9

(* What holds of the simulation when it stops.                             *)
LEMMA StoppedIs ==
  ASSUME NEW s, NEW x, NEW y, NEW u \in Nat, NEW z \in Nat, Remains(s.m, s.n, x, y, u, z),
         Rows(s.m, s.n, u, z), Safe(s.m, u, z)
  PROVE  Stopped(s, x, y)
BY DEF Stopped, Remains

(* Inner inside the loop of phase one, and what stopping there leaves.     *)
LEMMA FirstPhaseFacts ==
  ASSUME Shape, Inner, pc = "phase1", sim.a \div B >= H
  PROVE  /\ FirstPhase(sim, Leading(tad), Leading(tbd))
         /\ H * B <= sim.a /\ sim.b < sim.a + B
         /\ Stopped(sim, Leading(tad), Leading(tbd))
<1>1. Leading(tad) \in Pairs /\ Leading(tbd) \in Pairs /\ Stages
  BY LeadingTypes
<1>2. FirstPhase(sim, Leading(tad), Leading(tbd))
  BY <1>1 DEF Stages
<1>3. sim \in Sims /\ sim.a \in Nat /\ sim.b \in Nat /\ B \in Nat \ {0} /\ H \in Nat
  BY SimulationTypes, Ranges
<1>4. H * B <= sim.a
  <2>1. B * H <= sim.a
    BY <1>3, QuotientCompares
  <2> QED
    BY <1>3, <2>1
<1>5. sim.b < sim.a + B
  <2>1. sim.b \div B <= sim.a \div B
    BY DEF Shape, Places
  <2> QED
    BY <1>3, <2>1, UpperLimbs
<1>6. Safe(sim.m, sim.a, sim.b)
  BY <1>1, <1>2, <1>3, <1>4, <1>5, FirstPhaseBounds
<1>7. Stopped(sim, Leading(tad), Leading(tbd))
  <2>1. /\ Remains(sim.m, sim.n, Leading(tad), Leading(tbd), sim.a, sim.b)
        /\ Rows(sim.m, sim.n, sim.a, sim.b)
    BY <1>2 DEF FirstPhase
  <2> QED
    BY <1>3, <1>6, <2>1, StoppedIs
<1> QED
  BY <1>2, <1>4, <1>5, <1>7

(* Phase one keeps Inner, whether it goes on or stops.                     *)
LEMMA Phase1Inner ==
  ASSUME Shape, Inner, Phase1Divide \/ Phase1Subtract, ~borrowed, ~borrowed'
  PROVE  Inner'
<1>1. pc = "phase1" /\ sim.a \div B >= H
  BY DEF Phase1Divide, Phase1Subtract
<1>2. /\ FirstPhase(sim, Leading(tad), Leading(tbd))
      /\ H * B <= sim.a /\ sim.b < sim.a + B
      /\ Stopped(sim, Leading(tad), Leading(tbd))
  BY <1>1, FirstPhaseFacts
<1>3. Leading(tad) \in Pairs /\ Leading(tbd) \in Pairs
  BY <1>1, LeadingTypes
<1>4. sim \in Sims /\ sim.a \in Nat /\ sim.b \in Nat /\ B \in Nat \ {0} /\ Difference2 \in Nat
  BY SimulationTypes, Ranges DEF Pairs
<1>5. CASE Phase1Divide
  <2> DEFINE r == sim.a % sim.b
  <2>1. Simulate(sim.a \div sim.b, r, B) /\ sim.b > 0 /\ B <= sim.b
    BY <1>4, <1>5 DEF Phase1Divide
  <2>2. r \in Nat
    BY <1>4, <2>1, DivMod
  <2>3. ~(r < B) => FirstPhase([StepBy(sim, sim.a \div sim.b) EXCEPT !.b = r],
                               Leading(tad), Leading(tbd))
    <3> SUFFICES ASSUME ~(r < B) PROVE FirstPhase([StepBy(sim, sim.a \div sim.b) EXCEPT !.b = r],
                               Leading(tad), Leading(tbd))
      OBVIOUS
    <3>1. B <= sim.a % sim.b
      BY <1>4, <2>2
    <3> QED
      BY <1>2, <1>3, <1>4, <3>1, FirstPhaseDivide
  <2> QED
    BY <1>1, <1>2, <2>1, <2>3, SimulateInner
<1>6. CASE Phase1Subtract
  <2>1. Simulate(1, Difference2, B) /\ Difference2 \div B <= sim.b \div B
    BY <1>6 DEF Phase1Subtract
  <2>2. ~(Difference2 < B) => FirstPhase([StepBy(sim, 1) EXCEPT !.b = Difference2],
                                       Leading(tad), Leading(tbd))
    <3> SUFFICES ASSUME ~(Difference2 < B)
                 PROVE  FirstPhase([StepBy(sim, 1) EXCEPT !.b = Difference2],
                                   Leading(tad), Leading(tbd))
      OBVIOUS
    <3>1. B <= Difference2
      BY <1>4
    <3>2. Difference2 = (sim.a - sim.b) % B^2
      BY DEF Difference2
    <3> QED
      BY <1>2, <1>3, <1>4, <2>1, <3>1, <3>2, FirstPhaseSubtract
  <2> QED
    BY <1>1, <1>2, <2>1, <2>2, SimulateInner
<1> QED
  BY <1>5, <1>6

(* The upper limbs are enough to go on with: Narrow begins phase two.      *)
LEMMA NarrowInner ==
  ASSUME Shape, Inner, Narrow, ~borrowed, ~borrowed'
  PROVE  Inner'
<1>1. /\ pc = "phase1" /\ sim.a \div B < H
      /\ sim' = [sim EXCEPT !.a = (sim.a \div H) % B, !.b = (sim.b \div H) % B]
      /\ pc' = "phase2" /\ Still /\ nc' = nc
  BY DEF Narrow, operands, remainders, cofactors, history, Still
<1>2. Linked /\ Sizes /\ Stages /\ Small # 1 /\ Leading(tad) \in Pairs /\ Leading(tbd) \in Pairs
  BY <1>1, LeadingTypes
<1>3. Sign' = Sign
  BY <1>1 DEF Sign
<1>4. Linked' /\ Sizes' /\ Leading(tad)' = Leading(tad) /\ Leading(tbd)' = Leading(tbd) /\ Small' = Small
  BY <1>1, <1>2, <1>3, StillKeeps
<1>5. Units'
  BY <1>2, <1>4 DEF Units
<1>6. B <= Leading(tbd) /\ FirstPhase(sim, Leading(tad), Leading(tbd))
  BY <1>1, <1>2 DEF Stages, Simulating
<1>7. SecondPhase(sim', Leading(tad), Leading(tbd))
  <2>1. sim \in Sims
    BY SimulationTypes
  <2>2. sim.b \div B <= sim.a \div B
    BY <1>1 DEF Shape, Places
  <2> QED
    BY <1>1, <1>2, <1>6, <2>1, <2>2, SecondPhaseStart
<1>8. Stages'
  BY <1>1, <1>4, <1>6, <1>7 DEF Stages
<1> QED
  BY <1>1, <1>4, <1>5, <1>8 DEF Inner

(* Phase two keeps Inner, whether it goes on or stops.                     *)
LEMMA Phase2Inner ==
  ASSUME Shape, Inner, Phase2Divide \/ Phase2Subtract, ~borrowed, ~borrowed'
  PROVE  Inner'
<1>1. pc = "phase2"
  BY DEF Phase2Divide, Phase2Subtract
<1>2. Stages /\ Leading(tad) \in Pairs /\ Leading(tbd) \in Pairs
  BY <1>1, LeadingTypes
<1>3. SecondPhase(sim, Leading(tad), Leading(tbd))
  BY <1>1, <1>2 DEF Stages
<1>4. /\ sim \in Sims /\ sim.a \in Nat /\ sim.b \in Nat /\ B \in Nat \ {0} /\ H \in Nat
      /\ sim.a < B /\ sim.b < B /\ sim.b > 0 /\ Difference1 \in Nat
  BY <1>1, SimulationTypes, Ranges DEF Shape, Places, LimbValues
<1>5. Stopped(sim, Leading(tad), Leading(tbd))
  <2>1. PICK u, z \in Nat :
           /\ Remains(sim.m, sim.n, Leading(tad), Leading(tbd), u, z)
           /\ Rows(sim.m, sim.n, u, z)
           /\ Fresh(sim, u, z) \/ Run(sim, u, z)
    BY <1>3 DEF SecondPhase
  <2>2. Safe(sim.m, u, z)
    BY <1>4, <2>1, FreshIsSafe, RunIsSafe
  <2> QED
    BY <2>1, <2>2, StoppedIs
<1>6. CASE Phase2Divide
  <2> DEFINE q == sim.a \div sim.b  r == sim.a % sim.b
  <2>1. Simulate(q, r, 2 * H) /\ Difference1 > sim.b
    BY <1>6 DEF Phase2Divide
  <2>2. q \in Nat /\ r \in 0 .. sim.b - 1 /\ sim.a = sim.b * q + r
    <3> DEFINE x == sim.a  d == sim.b
    <3>1. x \in Nat /\ d \in Nat \ {0}
      BY <1>4
    <3> HIDE DEF x, d
    <3>2. x \div d \in Nat /\ x % d \in 0 .. d - 1 /\ x = d * (x \div d) + (x % d)
      BY <3>1, DivMod
    <3> QED
      BY <3>2 DEF x, d
  <2>3. r \in Nat /\ r <= sim.b /\ sim.a = q * sim.b + r
    <3>1. sim.b * q = q * sim.b
      BY <1>4, <2>2
    <3> HIDE DEF q, r
    <3> QED
      BY <1>4, <2>2, <3>1
  <2>4. q >= 1 \/ sim.a < sim.b
    <3> SUFFICES ASSUME ~(q >= 1) PROVE sim.a < sim.b
      OBVIOUS
    <3>1. q = 0
      BY <2>2
    <3>2. sim.a = r
      BY <1>4, <2>2, <3>1
    <3> HIDE DEF q, r
    <3> QED
      BY <1>4, <2>2, <3>2
  <2> HIDE DEF q, r
  <2>5. ~(r < 2 * H) => SecondPhase([StepBy(sim, q) EXCEPT !.b = r], Leading(tad), Leading(tbd))
    <3> SUFFICES ASSUME ~(r < 2 * H)
                 PROVE SecondPhase([StepBy(sim, q) EXCEPT !.b = r], Leading(tad), Leading(tbd))
      OBVIOUS
    <3>1. 2 * H <= r
      BY <1>4, <2>3
    <3> QED
      BY <1>2, <1>3, <1>4, <2>2, <2>3, <2>4, <3>1, SecondPhaseStep
  <2> QED
    BY <1>1, <1>5, <2>1, <2>5, SimulateInner
<1>7. CASE Phase2Subtract
  <2>1. Simulate(1, Difference1, 2 * H) /\ Difference1 <= sim.b /\ ~(sim.a < sim.b)
    BY <1>7 DEF Phase2Subtract
  <2>2. Difference1 = sim.a - sim.b
    <3> DEFINE c == sim.a - sim.b
    <3>1. c \in 0 .. B - 1
      BY <1>4, <2>1
    <3> HIDE DEF c
    <3>2. c % B = c
      BY <1>4, <3>1, Below
    <3> QED
      BY <3>2 DEF c, Difference1
  <2> DEFINE r == Difference1
  <2>3. r \in Nat /\ 1 \in Nat /\ sim.a = 1 * sim.b + r /\ r <= sim.b /\ 1 >= 1
    BY <1>4, <2>1, <2>2
  <2>4. ~(r < 2 * H) => SecondPhase([StepBy(sim, 1) EXCEPT !.b = r], Leading(tad), Leading(tbd))
    <3> SUFFICES ASSUME ~(r < 2 * H)
                 PROVE SecondPhase([StepBy(sim, 1) EXCEPT !.b = r], Leading(tad), Leading(tbd))
      OBVIOUS
    <3>1. 2 * H <= r
      BY <1>4, <2>3
    <3> HIDE DEF r
    <3> QED
      BY <1>2, <1>3, <1>4, <2>3, <3>1, SecondPhaseStep
  <2> QED
    BY <1>1, <1>5, <2>1, <2>4, SimulateInner
<1> QED
  BY <1>6, <1>7

(* The remainders are no larger than the operand they come from.           *)
LEMMA RemaindersAreSmall ==
  ASSUME Shape, Linked
  PROVE  tad \in Nat /\ tbd \in Nat /\ tad <= Big /\ tbd <= Big
<1>1. PICK q \in Matrices : Leads(q, Sign, Big, Small, tad, tbd)
  BY DEF Linked
<1>2. /\ Big \in Nat /\ Small \in Nat /\ Small <= Big /\ tad \in Nat /\ tbd \in Nat
  BY OperandTypes DEF Shape, Values
<1>3. (tad <= Big \/ tad <= Small) /\ (tbd <= Big \/ tbd <= Small)
  BY <1>1, LeadsBounds
<1> QED
  BY <1>2, <1>3

(* The count of what is no larger than the larger operand.                 *)
LEMMA CountOfSmall ==
  ASSUME Shape, NEW x \in Nat, x <= Big
  PROVE  /\ LimbCount(x) \in Nat /\ LimbCount(x) <= LimbCount(Big)
         /\ x < B^LimbCount(Big) /\ LimbCount(Big) \in 1 .. MaxLimbs /\ MaxLimbs \in Nat
<1>1. Big \in Nat /\ Big < B^MaxLimbs /\ LimbCount(Big) \in 1 .. MaxLimbs /\ Big < B^LimbCount(Big)
  BY OperandTypes
<1>2. MaxLimbs \in Limits /\ MaxLimbs \in Nat /\ B^LimbCount(Big) \in Nat
  BY <1>1, Ranges, Bases, BasePowers DEF Limits
<1>3. LimbCount(x) <= LimbCount(Big)
  BY <1>1, <1>2, CountGrows
<1>4. x < B^LimbCount(Big)
  <2> DEFINE p == B^LimbCount(Big)
  <2>1. p \in Nat /\ Big < p
    BY <1>1, <1>2
  <2> HIDE DEF p
  <2>2. x < p
    BY <1>1, <2>1
  <2> QED
    BY <2>2 DEF p
<1> QED
  BY <1>1, <1>2, <1>3, <1>4, LimbCountIs

(* A number below a limb boundary is not changed when it is cut above it.  *)
LEMMA CutNothing ==
  ASSUME NEW l \in 0 .. MaxLimbs + 1, NEW x \in Nat, x < B^l
  PROVE  x % B^(l + 1) = x
<1>1. MaxLimbs \in Nat /\ l \in Limits /\ l + 1 \in Limits
  BY Bases DEF Limits
<1> DEFINE p == B^l  r == B^(l + 1)
<1>2. p \in Nat \ {0} /\ r \in Nat \ {0} /\ p <= r
  <2>1. B^l \in Nat \ {0} /\ B^(l + 1) \in Nat \ {0}
    BY <1>1, BasePowers
  <2>2. l <= l + 1
    BY <1>1 DEF Limits
  <2>3. B^l <= B^(l + 1)
    <3> DEFINE k == l + 1
    <3>1. k \in Limits /\ l <= k
      BY <1>1, <2>2
    <3> HIDE DEF k
    <3>2. B^l <= B^k
      BY <1>1, <3>1, BaseGrows
    <3> QED
      BY <3>2 DEF k
  <2> QED
    BY <2>1, <2>3
<1>3. x < p
  OBVIOUS
<1> HIDE DEF p, r
<1>4. x \in 0 .. r - 1
  BY <1>2, <1>3
<1>5. x % r = x
  BY <1>2, <1>4, Below
<1> QED
  BY <1>5 DEF r

(* The two remainders that the matrix of a simulation makes of x and y.    *)
Applies(s, x, y, u, z) ==
  /\ u = Signed(s.n, s.m[1] * x - s.m[2] * y)
  /\ z = Signed(s.n, s.m[4] * y - s.m[3] * x)

(* The inverse of a unimodular matrix: the old operands in terms of the    *)
(* new ones.                                                               *)
LEMMA AppliesLeads ==
  ASSUME NEW s, s.m \in Matrices, s.n \in Nat, NEW x \in Nat, NEW y \in Nat,
         s.m[1] * s.m[4] - s.m[2] * s.m[3] = Signed(s.n, 1),
         NEW u \in Nat, NEW z \in Nat, Applies(s, x, y, u, z)
  PROVE  Leads(s.m, Signed(s.n, 1), x, y, u, z)
<1> DEFINE q == s.m  g == Signed(s.n, 1)
<1>1. q[1] \in Nat /\ q[2] \in Nat /\ q[3] \in Nat /\ q[4] \in Nat /\ q \in Matrices
  BY MatrixTypes
<1>2. g \in {1, -1}
  BY OneStep
<1> DEFINE e == q[1] * x - q[2] * y  f == q[4] * y - q[3] * x
<1>3. e \in Int /\ f \in Int
  BY <1>1
<1>4. u = g * e /\ z = g * f
  <2>1. u = Signed(s.n, e) /\ z = Signed(s.n, f)
    BY DEF Applies
  <2> HIDE DEF e, f
  <2>2. Signed(s.n, e) = Signed(s.n, 1) * e /\ Signed(s.n, f) = Signed(s.n, 1) * f
    BY <1>3, SignedIs
  <2> QED
    BY <2>1, <2>2
<1>5. u = g * (q[1] * x - q[2] * y) /\ z = g * (q[4] * y - q[3] * x)
  BY <1>4
<1>6. q[1] * q[4] - q[2] * q[3] = g
  OBVIOUS
<1>7. x \in Int /\ y \in Int
  OBVIOUS
<1> HIDE DEF q, g
<1>8. Leads(q, g, x, y, u, z)
  BY <1>1, <1>2, <1>5, <1>6, <1>7, LeadsForward
<1> QED
  BY <1>8 DEF q, g

(* What ll_lehmer_update_ab makes of the remainders when the matrix is the *)
(* right one for them: nothing is cut off.                                 *)
LEMMA ReduceExact ==
  ASSUME NEW s, NEW x \in Nat, NEW y \in Nat, NEW u \in Nat, NEW z \in Nat,
         NEW l \in 0 .. MaxLimbs + 1, x < B^l, y < B^l,
         Leads(s.m, Signed(s.n, 1), x, y, u, z), Applies(s, x, y, u, z)
  PROVE  ReduceBy(s, x, y, l).a = u /\ ReduceBy(s, x, y, l).b = z
<1>1. (u <= x \/ u <= y) /\ (z <= x \/ z <= y)
  BY LeadsBounds
<1> DEFINE p == B^l
<1>2. u < p /\ z < p
  <2>1. p \in Nat /\ x < p /\ y < p
    BY Bases, BasePowers DEF Limits
  <2> HIDE DEF p
  <2> QED
    BY <1>1, <2>1
<1>3. u % B^(l + 1) = u /\ z % B^(l + 1) = z
  BY <1>2, CutNothing
<1> QED
  BY <1>3 DEF ReduceBy, Applies

(* The remainders after an update.                                         *)
LEMMA UpdateRemainders ==
  ASSUME Shape, Inner, pc = "simulated", sim.n > 0
  PROVE  \E u, z \in Nat \ {0} :
           /\ ReduceBy(sim, tad, tbd, tal).a = u /\ ReduceBy(sim, tad, tbd, tal).b = z
           /\ Leads(sim.m, Signed(sim.n, 1), tad, tbd, u, z)
           /\ z <= 8 * u
           /\ u <= 8 * z \/ Ordered(sim.m) \/ (sim.m = Exchange /\ u = tbd /\ z = tad)
<1>1. Linked /\ Sizes /\ Stages
  BY DEF Inner, Work
<1>2. /\ sim \in Sims /\ sim.m \in Entries /\ sim.n \in Nat
      /\ tad \in Nat /\ tbd \in Nat
      /\ tal \in 0 .. MaxLimbs + 1 /\ tad < B^tal /\ tbd < B^tal /\ tbl >= 2
  BY DEF Shape, Values, Counts, Places, Sims
<1>3. PICK U \in Nat, Z \in Nat :
        /\ Remains(sim.m, sim.n, Leading(tad), Leading(tbd), U, Z)
        /\ Rows(sim.m, sim.n, U, Z) /\ Safe(sim.m, U, Z)
  <2>1. Stopped(sim, Leading(tad), Leading(tbd)) /\ sim.n # 0
    BY <1>1, <1>2 DEF Stages
  <2> QED
    BY <2>1 DEF Stopped
<1>4. B <= Leading(tbd)
  BY <1>1 DEF Stages, Simulating
<1>5. /\ Leading(tad) \in Nat /\ Leading(tbd) \in Nat
      /\ \E s, p \in Nat \ {0} : Leads2(s, p, tad, tbd, Leading(tad), Leading(tbd))
  BY <1>2, <1>4, LeadingFacts DEF Pairs
<1>6. PICK s \in Nat \ {0}, p \in Nat \ {0} : Leads2(s, p, tad, tbd, Leading(tad), Leading(tbd))
  BY <1>5
<1> DEFINE u == Signed(sim.n, sim.m[1] * tad - sim.m[2] * tbd)
           z == Signed(sim.n, sim.m[4] * tbd - sim.m[3] * tad)
<1>7. u \in Nat \ {0} /\ z \in Nat \ {0} /\ z <= 8 * u /\ (Near(sim.m, U, Z) => u <= 8 * z)
  BY <1>2, <1>3, <1>5, <1>6, WholeOperands
<1>8. Leads(sim.m, Signed(sim.n, 1), tad, tbd, u, z)
  <2>1. /\ sim.m[1] \in Nat /\ sim.m[2] \in Nat /\ sim.m[3] \in Nat /\ sim.m[4] \in Nat
        /\ sim.m \in Matrices
    BY <1>2, EntryTypes DEF Matrices, Entries, LimbValues
  <2>2. sim.m[1] * sim.m[4] - sim.m[2] * sim.m[3] = Signed(sim.n, 1)
    BY <1>3 DEF Remains
  <2>3. Applies(sim, tad, tbd, u, z)
    BY DEF Applies
  <2> HIDE DEF u, z
  <2> QED
    BY <1>2, <1>7, <2>1, <2>2, <2>3, AppliesLeads
<1>9. ReduceBy(sim, tad, tbd, tal).a = u /\ ReduceBy(sim, tad, tbd, tal).b = z
  <2>1. Applies(sim, tad, tbd, u, z)
    BY DEF Applies
  <2>2. u \in Nat /\ z \in Nat
    BY <1>7
  <2> HIDE DEF u, z
  <2> QED
    BY <1>2, <1>8, <2>1, <2>2, ReduceExact
<1>10. u <= 8 * z \/ Ordered(sim.m) \/ (sim.m = Exchange /\ u = tbd /\ z = tad)
  <2>1. CASE Near(sim.m, U, Z) \/ Ordered(sim.m)
    BY <1>7, <2>1
  <2>2. CASE sim.m = Exchange /\ sim.n = 1
    <3>1. sim.m[1] = 0 /\ sim.m[2] = 1 /\ sim.m[3] = 1 /\ sim.m[4] = 0
      BY <2>2 DEF Exchange
    <3>2. u = Signed(1, -tbd) /\ z = Signed(1, -tad)
      BY <1>2, <2>2, <3>1
    <3>3. 1 % 2 = 1
      OBVIOUS
    <3>4. u = tbd /\ z = tad
      <4>1. u = -(-tbd) /\ z = -(-tad)
        BY <3>2, <3>3 DEF Signed
      <4> QED
        BY <1>2, <4>1
    <3> QED
      BY <2>2, <3>4
  <2> QED
    BY <1>2, <1>3, <2>1, <2>2 DEF Rows
<1> HIDE DEF u, z
<1> QED
  BY <1>7, <1>8, <1>9, <1>10

(* The cofactors an update makes of those that are counted.                *)
LEMMA ExtendExact ==
  ASSUME NEW s, s.m \in Matrices, v0 \in Nat, v1 \in Nat, vl \in Limits, Counted(v0, v1, vl)
  PROVE  /\ ExtendBy(s).v0 = s.m[1] * v0 + s.m[2] * v1
         /\ ExtendBy(s).v1 = s.m[3] * v0 + s.m[4] * v1
<1> DEFINE p == B^vl
<1>1. p \in Nat \ {0} /\ v0 < p /\ v1 < p
  BY BasePowers DEF Counted
<1> HIDE DEF p
<1>2. v0 \in 0 .. p - 1 /\ v1 \in 0 .. p - 1
  BY <1>1
<1>3. v0 % p = v0 /\ v1 % p = v1
  BY <1>1, <1>2, Below
<1>4. v0 % B^vl = v0 /\ v1 % B^vl = v1
  BY <1>3 DEF p
<1> QED
  BY <1>4 DEF ExtendBy

(* Limb l of a number is not zero: the number has more than l limbs.       *)
LEMMA UpperLimb ==
  ASSUME NEW l \in Limits, NEW x \in Nat
  PROVE  LimbAt(x, l) \in Nat /\ (LimbAt(x, l) > 0 => B^l <= x)
<1> DEFINE p == B^l
<1>1. p \in Nat \ {0} /\ B \in Nat \ {0}
  BY BasePowers, Ranges
<1>2. LimbAt(x, l) = (x \div p) % B
  BY DEF LimbAt
<1> HIDE DEF p
<1>3. x \div p \in Nat /\ (x < p => x \div p = 0)
  <2>1. x \div p \in Nat
    BY <1>1, DivMod
  <2>2. x < p => x \in 0 .. p - 1
    BY <1>1
  <2> QED
    BY <1>1, <2>1, <2>2, Below
<1>4. (x \div p) % B \in Nat /\ (x \div p = 0 => (x \div p) % B = 0)
  <2>1. (x \div p) % B \in 0 .. B - 1
    BY <1>1, <1>3, DivMod
  <2>2. 0 \in 0 .. B - 1 /\ 0 \in Nat
    BY <1>1
  <2>3. 0 % B = 0
    BY <1>1, <2>2, Below
  <2> QED
    BY <1>1, <2>1, <2>3
<1>5. LimbAt(x, l) > 0 => p <= x
  BY <1>1, <1>2, <1>3, <1>4
<1> QED
  BY <1>2, <1>4, <1>5 DEF p

(* An update of two cofactors, one of which is not below p: no column of   *)
(* the matrix is zero, so one of the new ones is not below p either.       *)
LEMMA CofactorsGrow ==
  ASSUME NEW mat \in Matrices, mat[1] * mat[4] - mat[2] * mat[3] \in {1, -1},
         NEW x \in Nat, NEW y \in Nat, NEW c, NEW d,
         c = mat[1] * x + mat[2] * y, d = mat[3] * x + mat[4] * y
  PROVE  /\ c \in Nat /\ d \in Nat
         /\ x <= c \/ x <= d
         /\ y <= c \/ y <= d
         /\ Ordered(mat) => c <= d
<1> DEFINE m1 == mat[1]  m2 == mat[2]  m3 == mat[3]  m4 == mat[4]
<1>1. m1 \in Nat /\ m2 \in Nat /\ m3 \in Nat /\ m4 \in Nat /\ c = m1 * x + m2 * y /\ d = m3 * x + m4 * y
  BY MatrixTypes
<1>2. (m1 >= 1 \/ m3 >= 1) /\ (m2 >= 1 \/ m4 >= 1)
  BY Columns
<1>3. Ordered(mat) => m1 <= m3 /\ m2 <= m4
  BY DEF Ordered
<1> HIDE DEF m1, m2, m3, m4
<1> DEFINE e1 == m1 * x  e2 == m2 * y  e3 == m3 * x  e4 == m4 * y
<1>4. e1 \in Nat /\ e2 \in Nat /\ e3 \in Nat /\ e4 \in Nat /\ c = e1 + e2 /\ d = e3 + e4
  BY <1>1
<1>5. (m1 >= 1 => x <= e1) /\ (m3 >= 1 => x <= e3) /\ (m2 >= 1 => y <= e2) /\ (m4 >= 1 => y <= e4)
  <2>1. 1 * x = x /\ 1 * y = y
    OBVIOUS
  <2>2. (1 <= m1 => 1 * x <= m1 * x) /\ (1 <= m3 => 1 * x <= m3 * x)
    BY <1>1, SmallerFactor
  <2>3. (1 <= m2 => 1 * y <= m2 * y) /\ (1 <= m4 => 1 * y <= m4 * y)
    BY <1>1, SmallerFactor
  <2> QED
    BY <1>1, <2>1, <2>2, <2>3
<1>6. (m1 <= m3 => e1 <= e3) /\ (m2 <= m4 => e2 <= e4)
  BY <1>1, SmallerFactor
<1> HIDE DEF e1, e2, e3, e4
<1>7. c \in Nat /\ d \in Nat
  BY <1>4
<1>8. x <= c \/ x <= d
  BY <1>1, <1>2, <1>4, <1>5
<1>9. y <= c \/ y <= d
  BY <1>1, <1>2, <1>4, <1>5
<1>10. Ordered(mat) => c <= d
  BY <1>1, <1>3, <1>4, <1>6
<1> QED
  BY <1>7, <1>8, <1>9, <1>10

(* The operands stay the operands.                                         *)
LEMMA OperandsKept ==
  ASSUME call' = call, ad' = ad, bd' = bd
  PROVE  Big' = Big /\ Small' = Small /\ (extended' <=> extended)
BY DEF Big, Small, swap, extended

(* The cofactors and the sign after an update.                             *)
LEMMA UpdateFacts ==
  ASSUME Shape, Inner, Update, ~borrowed, ~borrowed'
  PROVE  /\ Trusted' /\ extended' =>
              /\ Trusted /\ extended /\ Counted(v0, v1, vl) /\ Counted(v0', v1', vl')
              /\ v0' = sim.m[1] * v0 + sim.m[2] * v1
              /\ v1' = sim.m[3] * v0 + sim.m[4] * v1
         /\ Sign' = Sign * Signed(sim.n, 1)
<1>1. /\ pc = "simulated" /\ sim.n > 0 /\ pc' = "loop"
      /\ call' = call /\ ad' = ad /\ bd' = bd /\ nc' = (nc + sim.n) % 2
      /\ tad' = ReduceBy(sim, tad, tbd, tal).a /\ tbd' = ReduceBy(sim, tad, tbd, tal).b
      /\ tal' = CountOfBoth(ReduceBy(sim, tad, tbd, tal))
      /\ lost' = (lost \/ ~Counted(v0', v1', vl'))
  BY DEF Update, operands
<1>2. Linked /\ Sizes /\ Units
  BY <1>1 DEF Inner, Work
<1>3. Big' = Big /\ Small' = Small /\ (extended' <=> extended)
  BY <1>1, OperandsKept
<1>4. /\ sim.m \in Matrices /\ sim.m \in Entries /\ sim.n \in Nat /\ nc \in {0, 1}
      /\ v0 \in Nat /\ v1 \in Nat /\ vl \in Limits /\ tad \in Nat /\ tbd \in Nat
  BY <1>1 DEF Shape, Values, Counts, Sims, Entries, Matrices, LimbValues
<1>5. Trusted' /\ extended' => /\ Trusted /\ extended /\ Counted(v0, v1, vl) /\ Counted(v0', v1', vl')
                               /\ v0' = sim.m[1] * v0 + sim.m[2] * v1
                               /\ v1' = sim.m[3] * v0 + sim.m[4] * v1
  <2> SUFFICES ASSUME Trusted', extended' PROVE /\ Trusted /\ extended /\ Counted(v0, v1, vl)
                               /\ Counted(v0', v1', vl')
                               /\ v0' = sim.m[1] * v0 + sim.m[2] * v1
                               /\ v1' = sim.m[3] * v0 + sim.m[4] * v1
    OBVIOUS
  <2>1. Trusted /\ extended /\ Counted(v0', v1', vl')
    BY <1>1, <1>3 DEF Trusted
  <2>2. Counted(v0, v1, vl)
    BY <1>2, <2>1 DEF Sizes
  <2>3. v0' = ExtendBy(sim).v0 /\ v1' = ExtendBy(sim).v1
    BY <2>1 DEF Update
  <2> QED
    BY <1>4, <2>1, <2>2, <2>3, ExtendExact
<1>6. Sign' = Sign * Signed(sim.n, 1)
  <2>1. nc \in Nat
    BY <1>4
  <2>2. Sign = Signed(nc, 1) /\ Sign' = Signed((nc + sim.n) % 2, 1)
    BY <1>1 DEF Sign
  <2>3. Signed(nc, 1) * Signed(sim.n, 1) = Signed((nc + sim.n) % 2, 1)
    <3> DEFINE c == nc  d == sim.n
    <3>1. c \in Nat /\ d \in Nat
      BY <1>4, <2>1
    <3> HIDE DEF c, d
    <3>2. Signed(c, 1) * Signed(d, 1) = Signed(c + d, 1) /\ Signed((c + d) % 2, 1) = Signed(c + d, 1)
      BY <3>1, SignsMultiply
    <3>3. Signed(c, 1) * Signed(d, 1) = Signed((c + d) % 2, 1)
      BY <3>2
    <3> QED
      BY <3>3 DEF c, d
  <2> QED
    BY <2>2, <2>3
<1> QED
  BY <1>5, <1>6

(* The collected matrix applied to remainders and cofactors keeps their    *)
(* equations, their order and their sizes.                                 *)
LEMMA UpdateInner ==
  ASSUME Shape, Shape', Inner, Update, ~borrowed, ~borrowed'
  PROVE  Inner'
<1>1. /\ pc = "simulated" /\ sim.n > 0 /\ pc' = "loop"
      /\ call' = call /\ ad' = ad /\ bd' = bd /\ nc' = (nc + sim.n) % 2
      /\ tad' = ReduceBy(sim, tad, tbd, tal).a /\ tbd' = ReduceBy(sim, tad, tbd, tal).b
      /\ tal' = CountOfBoth(ReduceBy(sim, tad, tbd, tal))
      /\ lost' = (lost \/ ~Counted(v0', v1', vl'))
  BY DEF Update, operands
<1>2. Linked /\ Sizes /\ Units
  BY <1>1 DEF Inner, Work
<1>3. Big' = Big /\ Small' = Small /\ (extended' <=> extended)
  BY <1>1, OperandsKept
<1>4. /\ sim.m \in Matrices /\ sim.m \in Entries /\ sim.n \in Nat /\ nc \in {0, 1}
      /\ v0 \in Nat /\ v1 \in Nat /\ vl \in Limits /\ tad \in Nat /\ tbd \in Nat
  BY <1>1 DEF Shape, Values, Counts, Sims, Entries, Matrices, LimbValues
<1>5. PICK u \in Nat \ {0}, z \in Nat \ {0} :
           /\ ReduceBy(sim, tad, tbd, tal).a = u /\ ReduceBy(sim, tad, tbd, tal).b = z
           /\ Leads(sim.m, Signed(sim.n, 1), tad, tbd, u, z)
           /\ z <= 8 * u
           /\ u <= 8 * z \/ Ordered(sim.m) \/ (sim.m = Exchange /\ u = tbd /\ z = tad)
  BY <1>1, UpdateRemainders
<1>6. tad' = u /\ tbd' = z
  BY <1>1, <1>5
<1>7. PICK q \in Matrices : /\ Leads(q, Sign, Big, Small, tad, tbd)
                            /\ Trusted /\ extended => v0 = q[2] /\ v1 = q[4]
  BY <1>2 DEF Linked
<1>8. Trusted' /\ extended' => /\ Trusted /\ extended /\ Counted(v0, v1, vl) /\ Counted(v0', v1', vl')
                               /\ v0' = sim.m[1] * v0 + sim.m[2] * v1
                               /\ v1' = sim.m[3] * v0 + sim.m[4] * v1
  BY UpdateFacts
<1>9. Sign' = Sign * Signed(sim.n, 1)
  BY UpdateFacts
<1>10. Linked'
  <2> DEFINE r == Product(sim.m, q)
  <2>1. Leads(r, Sign', Big', Small', tad', tbd') /\ r \in Matrices
    BY <1>3, <1>5, <1>6, <1>7, <1>9, LeadsOn
  <2>2. r[2] = sim.m[1] * q[2] + sim.m[2] * q[4] /\ r[4] = sim.m[3] * q[2] + sim.m[4] * q[4]
    BY DEF Product
  <2> HIDE DEF r
  <2>3. Trusted' /\ extended' => v0' = r[2] /\ v1' = r[4]
    BY <1>7, <1>8, <2>2
  <2>4. tbd' # 0
    BY <1>6
  <2> QED
    BY <2>1, <2>3, <2>4 DEF Linked
<1>11. tal' <= LimbCount(Big')
  <2>1. u <= Big /\ z <= Big /\ Big \in Nat
    <3>1. tad <= Big /\ tbd <= Big /\ Big \in Nat
      BY <1>2, RemaindersAreSmall, OperandTypes
    <3>2. (u <= tad \/ u <= tbd) /\ (z <= tad \/ z <= tbd)
      BY <1>5, LeadsBounds
    <3> QED
      BY <1>4, <3>1, <3>2
  <2> DEFINE c == LimbCount(u)  d == LimbCount(z)  e == LimbCount(Big)
  <2>2. c \in Nat /\ d \in Nat /\ e \in Nat /\ c <= e /\ d <= e
    BY <2>1, CountOfSmall
  <2>3. tal' = Larger(c, d)
    BY <1>1, <1>5 DEF CountOfBoth
  <2> HIDE DEF c, d, e
  <2>4. tal' <= e
    BY <2>2, <2>3 DEF Larger
  <2> QED
    BY <1>3, <2>4 DEF e
<1>12. ~extended' => v0' = 0 /\ v1' = 1 /\ vl' = 1
  BY <1>2, <1>3 DEF Update, cofactors, Sizes
<1>13. Trusted' /\ extended' =>
         /\ vl' <= 1 \/ B^(vl' - 1) <= v0' \/ B^(vl' - 1) <= v1'
         /\ v0' <= v1' \/ tad' <= 8 * tbd'
  <2> SUFFICES ASSUME Trusted', extended'
               PROVE  /\ vl' <= 1 \/ B^(vl' - 1) <= v0' \/ B^(vl' - 1) <= v1'
                      /\ v0' <= v1' \/ tad' <= 8 * tbd'
    OBVIOUS
  <2>1. /\ v0' = sim.m[1] * v0 + sim.m[2] * v1 /\ v1' = sim.m[3] * v0 + sim.m[4] * v1
        /\ Trusted /\ extended
    BY <1>8
  <2>2. sim.m[1] * sim.m[4] - sim.m[2] * sim.m[3] \in {1, -1}
    <3>1. Signed(sim.n, 1) \in {1, -1}
      BY <1>4, OneStep
    <3> QED
      BY <1>5, <3>1 DEF Leads
  <2>3. /\ v0' \in Nat /\ v1' \in Nat
        /\ v0 <= v0' \/ v0 <= v1'
        /\ v1 <= v0' \/ v1 <= v1'
        /\ Ordered(sim.m) => v0' <= v1'
    BY <1>4, <2>1, <2>2, CofactorsGrow
  <2>4. /\ vl <= 1 \/ B^(vl - 1) <= v0 \/ B^(vl - 1) <= v1
        /\ v0 <= v1 \/ tad <= 8 * tbd
    BY <1>2, <2>1 DEF Sizes
  <2>5. vl' <= 1 \/ B^(vl' - 1) <= v0' \/ B^(vl' - 1) <= v1'
    <3>1. vl' = vl + (IF LimbAt(v0', vl) + LimbAt(v1', vl) > 0 THEN 1 ELSE 0)
      BY <2>1 DEF Update
    <3>2. vl \in Nat
      BY <1>4 DEF Limits
    <3>3. CASE LimbAt(v0', vl) + LimbAt(v1', vl) > 0
      <4>1. /\ LimbAt(v0', vl) \in Nat /\ (LimbAt(v0', vl) > 0 => B^vl <= v0')
            /\ LimbAt(v1', vl) \in Nat /\ (LimbAt(v1', vl) > 0 => B^vl <= v1')
        BY <1>4, <2>3, UpperLimb
      <4>2. B^vl <= v0' \/ B^vl <= v1'
        <5> DEFINE c == LimbAt(v0', vl)  d == LimbAt(v1', vl)
        <5>1. c \in Nat /\ d \in Nat /\ c + d > 0
          BY <3>3, <4>1
        <5> HIDE DEF c, d
        <5>2. c > 0 \/ d > 0
          BY <5>1
        <5> QED
          BY <4>1, <5>2 DEF c, d
      <4>3. vl' - 1 = vl
        BY <3>1, <3>2, <3>3
      <4> QED
        BY <4>2, <4>3
    <3>4. CASE ~(LimbAt(v0', vl) + LimbAt(v1', vl) > 0)
      <4>1. vl' = vl
        BY <3>1, <3>2, <3>4
      <4> DEFINE p == B^(vl - 1)
      <4>2. vl <= 1 \/ (p \in Nat /\ (p <= v0 \/ p <= v1))
        <5>1. ~(vl <= 1) => vl - 1 \in Limits
          BY <1>4, Bases DEF Limits
        <5> QED
          BY <2>4, <5>1, BasePowers
      <4> HIDE DEF p
      <4>3. vl <= 1 \/ p <= v0' \/ p <= v1'
        BY <1>4, <2>3, <4>2
      <4> QED
        BY <4>1, <4>3 DEF p
    <3> QED
      BY <3>3, <3>4
  <2>6. v0' <= v1' \/ tad' <= 8 * tbd'
    <3>1. CASE u <= 8 * z
      BY <1>6, <3>1
    <3>2. CASE Ordered(sim.m)
      BY <2>3, <3>2
    <3>3. CASE sim.m = Exchange /\ u = tbd /\ z = tad
      <4>1. tbd <= 8 * tad
        BY <1>2 DEF Sizes
      <4> QED
        BY <1>6, <3>3, <4>1
    <3> QED
      BY <1>5, <3>1, <3>2, <3>3
  <2> QED
    BY <2>5, <2>6
<1>14. Sizes'
  <2>1. tad' > 0 /\ tbd' <= 8 * tad'
    BY <1>5, <1>6
  <2> QED
    BY <1>8, <1>11, <1>12, <1>13, <2>1 DEF Sizes
<1>15. Stages'
  BY <1>1, <1>5, <1>6 DEF Stages, Simulating
<1>16. Units'
  BY <1>1, <1>2, <1>3 DEF Units
<1> QED
  BY <1>10, <1>14, <1>15, <1>16 DEF Inner

(* The matrix of one division.                                             *)
Quotient(q) == <<0, 1, 1, q>>

(* A division is a matrix of determinant -1.                               *)
LEMMA DivisionLeads ==
  ASSUME NEW x \in Nat, NEW y \in Nat \ {0}
  PROVE  /\ Leads(Quotient(x \div y), -1, x, y, y, x % y)
         /\ x \div y \in Nat /\ x % y \in Nat /\ x % y < y
         /\ x < y => x \div y = 0 /\ x % y = x
         /\ x % y = 0 /\ x > 0 => x \div y >= 1
<1> DEFINE q == x \div y  r == x % y
<1>1. q \in Nat /\ r \in 0 .. y - 1 /\ x = y * q + r
  BY DivMod
<1>2. x < y => q = 0 /\ r = x
  <2>1. x < y => x \in 0 .. y - 1
    OBVIOUS
  <2> QED
    BY <2>1, Below
<1> HIDE DEF q, r
<1>3. x = q * y + 1 * r /\ y = 1 * y + 0 * r /\ 0 * q - 1 * 1 = -1
  <2>1. y * q = q * y
    BY <1>1
  <2> QED
    BY <1>1, <2>1
<1>4. Leads(Quotient(q), -1, x, y, y, r)
  <2>1. /\ Quotient(q)[1] = 0 /\ Quotient(q)[2] = 1 /\ Quotient(q)[3] = 1 /\ Quotient(q)[4] = q
        /\ Quotient(q) \in Matrices
    BY <1>1 DEF Quotient, Matrices
  <2>2. r \in Nat
    BY <1>1
  <2> QED
    BY <1>3, <2>1, <2>2 DEF Leads
<1>5. r = 0 /\ x > 0 => q >= 1
  <2> SUFFICES ASSUME r = 0, x > 0, ~(q >= 1) PROVE FALSE
    OBVIOUS
  <2>1. q = 0
    BY <1>1
  <2>2. y * q = 0
    BY <2>1
  <2> QED
    BY <1>1, <2>2
<1>6. r \in Nat /\ r < y
  BY <1>1
<1> QED
  BY <1>1, <1>2, <1>4, <1>5, <1>6 DEF q, r

(* A division as a product, and its rows.                                  *)
LEMMA QuotientProduct ==
  ASSUME NEW q \in Matrices, NEW c \in Nat
  PROVE  /\ Product(Quotient(c), q)[2] = q[4]
         /\ Product(Quotient(c), q)[4] = q[2] + q[4] * c
         /\ c >= 1 => Ordered(Product(Quotient(c), q))
<1> DEFINE q1 == q[1]  q2 == q[2]  q3 == q[3]  q4 == q[4]  r == Product(Quotient(c), q)
<1>1. q1 \in Nat /\ q2 \in Nat /\ q3 \in Nat /\ q4 \in Nat
  BY MatrixTypes
<1>2. r = <<0 * q1 + 1 * q3, 0 * q2 + 1 * q4, 1 * q1 + c * q3, 1 * q2 + c * q4>>
  BY DEF Product, Quotient
<1> HIDE DEF q1, q2, q3, q4
<1>3. r[1] = q3 /\ r[2] = q4 /\ r[3] = q1 + c * q3 /\ r[4] = q2 + c * q4
  BY <1>1, <1>2
<1>4. c * q4 = q4 * c
  BY <1>1
<1>5. c >= 1 => q3 <= c * q3 /\ q4 <= c * q4
  <2>1. 1 * q3 = q3 /\ 1 * q4 = q4
    BY <1>1
  <2>2. (1 <= c => 1 * q3 <= c * q3) /\ (1 <= c => 1 * q4 <= c * q4)
    BY <1>1, SmallerFactor
  <2> QED
    BY <2>1, <2>2
<1> DEFINE e3 == c * q3  e4 == c * q4
<1>6. e3 \in Nat /\ e4 \in Nat
  BY <1>1
<1>7. c >= 1 => Ordered(r)
  <2> HIDE DEF r
  <2>1. c >= 1 => q3 <= e3 /\ q4 <= e4
    BY <1>5
  <2>2. r[1] = q3 /\ r[2] = q4 /\ r[3] = q1 + e3 /\ r[4] = q2 + e4
    BY <1>3
  <2> HIDE DEF e3, e4
  <2> QED
    BY <1>1, <1>6, <2>1, <2>2 DEF Ordered
<1>8. r[2] = q[4] /\ r[4] = q[2] + q[4] * c
  BY <1>3, <1>4 DEF q2, q4
<1> QED
  BY <1>7, <1>8 DEF r

(* What a division leaves.                                                 *)
LEMMA EuclidStepFacts ==
  ASSUME Shape, Inner, EuclidStep, ~borrowed, ~borrowed'
  PROVE  /\ tbd # 0
         /\ Trusted' /\ extended' =>
              /\ Trusted /\ extended /\ Counted(v0', v1', vl')
              /\ v0' = v1 /\ v1' = v0 + v1 * (tad \div tbd) /\ vl' = LimbCount(v1')
         /\ Sign' = Sign * (-1)
<1> DEFINE c == tad \div tbd
<1>1. /\ \/ pc = "simulated" /\ sim.n = 0 /\ pc' = "loop"
         \/ pc = "loop" /\ tbl = 1 /\ tal > 1 /\ pc' = "word"
      /\ call' = call /\ ad' = ad /\ bd' = bd /\ nc' = 1 - nc /\ sim' = sim
      /\ tad' = tbd /\ tbd' = tad % tbd /\ tal' = tbl
      /\ lost' = (lost \/ ~Counted(v0', v1', vl'))
  BY DEF EuclidStep, operands
<1>2. Linked /\ Sizes /\ Units /\ Stages
  BY <1>1 DEF Inner, Work
<1>3. Big' = Big /\ Small' = Small /\ (extended' <=> extended)
  BY <1>1, OperandsKept
<1>4. /\ nc \in {0, 1} /\ v0 \in Nat /\ v1 \in Nat /\ vl \in Limits
      /\ tad \in Nat /\ tbd \in Nat /\ tbl = LimbCount(tbd)
  BY <1>1 DEF Shape, Values, Counts
<1>5. tbd # 0
  <2>1. tbl >= 1
    <3>1. tbl \in Nat
      BY <1>4, LimbCountIs
    <3>2. tbl = 1 \/ tbl >= 2
      BY <1>1 DEF Shape, Places
    <3> QED
      BY <3>1, <3>2
  <2> QED
    BY <1>4, <2>1, LimbCountIs
<1>6. /\ Leads(Quotient(c), -1, tad, tbd, tbd, tad % tbd)
      /\ c \in Nat /\ tad % tbd \in Nat /\ tad % tbd < tbd
      /\ tad < tbd => c = 0 /\ tad % tbd = tad
      /\ tad % tbd = 0 /\ tad > 0 => c >= 1
  <2>1. tbd \in Nat \ {0}
    BY <1>4, <1>5
  <2> QED
    BY <1>4, <2>1, DivisionLeads
<1> HIDE DEF c
<1>7. Trusted' /\ extended' => /\ Trusted /\ extended /\ Counted(v0', v1', vl')
                               /\ v0' = v1 /\ v1' = v0 + v1 * c /\ vl' = LimbCount(v1')
  <2> SUFFICES ASSUME Trusted', extended'
               PROVE  /\ Trusted /\ extended /\ Counted(v0', v1', vl')
                      /\ v0' = v1 /\ v1' = v0 + v1 * c /\ vl' = LimbCount(v1')
    OBVIOUS
  <2>1. Trusted /\ extended /\ Counted(v0', v1', vl')
    BY <1>1, <1>3 DEF Trusted
  <2>2. Counted(v0, v1, vl)
    BY <1>2, <2>1 DEF Sizes
  <2>3. v0 % B^vl = v0 /\ v1 % B^vl = v1
    <3> DEFINE p == B^vl
    <3>1. p \in Nat \ {0} /\ v0 < p /\ v1 < p
      BY <1>4, <2>2, BasePowers DEF Counted
    <3> HIDE DEF p
    <3>2. v0 \in 0 .. p - 1 /\ v1 \in 0 .. p - 1
      BY <1>4, <3>1
    <3>3. v0 % p = v0 /\ v1 % p = v1
      BY <3>1, <3>2, Below
    <3> QED
      BY <3>3 DEF p
  <2>4. /\ v0' = v1 /\ vl' = LimbCount(v1')
        /\ v1' = IF tad < tbd THEN v0 ELSE (v0 % B^vl) + (v1 % B^vl) * (tad \div tbd)
    BY <2>1 DEF EuclidStep
  <2>5. v1' = v0 + v1 * c
    <3>1. CASE tad < tbd
      <4>1. c = 0 /\ v1' = v0
        BY <1>6, <2>4, <3>1
      <4> QED
        BY <1>4, <4>1
    <3>2. CASE ~(tad < tbd)
      BY <2>3, <2>4, <3>2 DEF c
    <3> QED
      BY <3>1, <3>2
  <2> QED
    BY <2>1, <2>4, <2>5
<1>8. Sign' = Sign * (-1)
  <2>1. Sign = Signed(nc, 1) /\ Sign' = Signed(1 - nc, 1)
    BY <1>1 DEF Sign
  <2>2. Signed(0, 1) = 1 /\ Signed(1, 1) = -1
    <3>1. 0 \in Nat
      OBVIOUS
    <3> QED
      BY <3>1, OneStep
  <2>3. 1 - 0 = 1 /\ 1 - 1 = 0
    OBVIOUS
  <2>4. CASE nc = 0
    BY <2>1, <2>2, <2>3, <2>4
  <2>5. CASE nc = 1
    BY <2>1, <2>2, <2>3, <2>5
  <2> QED
    BY <1>4, <2>4, <2>5
<1> QED
  BY <1>5, <1>7, <1>8 DEF c

(* The division of whole operands, with the update of the cofactors, keeps *)
(* the equations; one that counts a step too late is excluded by Sign.     *)
LEMMA EuclidStepInner ==
  ASSUME Shape, Shape', Inner, EuclidStep, ~borrowed, ~borrowed'
  PROVE  Inner'
<1> DEFINE c == tad \div tbd
<1>1. /\ \/ pc = "simulated" /\ sim.n = 0 /\ pc' = "loop"
         \/ pc = "loop" /\ tbl = 1 /\ tal > 1 /\ pc' = "word"
      /\ call' = call /\ ad' = ad /\ bd' = bd /\ nc' = 1 - nc /\ sim' = sim
      /\ tad' = tbd /\ tbd' = tad % tbd /\ tal' = tbl
      /\ lost' = (lost \/ ~Counted(v0', v1', vl'))
  BY DEF EuclidStep, operands
<1>2. Linked /\ Sizes /\ Units /\ Stages
  BY <1>1 DEF Inner, Work
<1>3. Big' = Big /\ Small' = Small /\ (extended' <=> extended)
  BY <1>1, OperandsKept
<1>4. /\ nc \in {0, 1} /\ v0 \in Nat /\ v1 \in Nat /\ vl \in Limits
      /\ tad \in Nat /\ tbd \in Nat /\ tbl = LimbCount(tbd)
  BY <1>1 DEF Shape, Values, Counts
<1>5. tbd # 0
  BY EuclidStepFacts
<1>6. /\ Leads(Quotient(c), -1, tad, tbd, tbd, tad % tbd)
      /\ c \in Nat /\ tad % tbd \in Nat /\ tad % tbd < tbd
      /\ tad < tbd => c = 0 /\ tad % tbd = tad
      /\ tad % tbd = 0 /\ tad > 0 => c >= 1
  <2>1. tbd \in Nat \ {0}
    BY <1>4, <1>5
  <2> QED
    BY <1>4, <2>1, DivisionLeads
<1> HIDE DEF c
<1>7. PICK q \in Matrices : /\ Leads(q, Sign, Big, Small, tad, tbd)
                            /\ Trusted /\ extended => v0 = q[2] /\ v1 = q[4]
  BY <1>2 DEF Linked
<1>8. Trusted' /\ extended' => /\ Trusted /\ extended /\ Counted(v0', v1', vl')
                               /\ v0' = v1 /\ v1' = v0 + v1 * c /\ vl' = LimbCount(v1')
  BY EuclidStepFacts DEF c
<1>9. Sign' = Sign * (-1)
  BY EuclidStepFacts
<1>10. Linked'
  <2> DEFINE r == Product(Quotient(c), q)
  <2>1. Leads(r, Sign', Big', Small', tad', tbd') /\ r \in Matrices
    BY <1>1, <1>3, <1>6, <1>7, <1>9, LeadsOn
  <2>2. r[2] = q[4] /\ r[4] = q[2] + q[4] * c /\ (c >= 1 => Ordered(r))
    BY <1>6, <1>7, QuotientProduct
  <2> HIDE DEF r
  <2>3. Trusted' /\ extended' => v0' = r[2] /\ v1' = r[4]
    BY <1>7, <1>8, <2>2
  <2>4. tbd' = 0 => Ordered(r)
    BY <1>1, <1>2, <1>6, <2>2 DEF Sizes
  <2> QED
    BY <2>1, <2>3, <2>4 DEF Linked
<1>11. tal' <= LimbCount(Big')
  <2>1. tbd <= Big
    BY <1>2, RemaindersAreSmall
  <2>2. LimbCount(tbd) <= LimbCount(Big)
    BY <1>4, <2>1, CountOfSmall
  <2> QED
    BY <1>1, <1>3, <1>4, <2>2
<1>12. ~extended' => v0' = 0 /\ v1' = 1 /\ vl' = 1
  BY <1>2, <1>3 DEF EuclidStep, cofactors, Sizes
<1>13. Trusted' /\ extended' =>
         /\ vl' <= 1 \/ B^(vl' - 1) <= v0' \/ B^(vl' - 1) <= v1'
         /\ v0' <= v1' \/ tad' <= 8 * tbd'
  <2> SUFFICES ASSUME Trusted', extended'
               PROVE  /\ vl' <= 1 \/ B^(vl' - 1) <= v0' \/ B^(vl' - 1) <= v1'
                      /\ v0' <= v1' \/ tad' <= 8 * tbd'
    OBVIOUS
  <2>1. v0' = v1 /\ v1' = v0 + v1 * c /\ vl' = LimbCount(v1')
    BY <1>8
  <2>2. vl' <= 1 \/ B^(vl' - 1) <= v1'
    <3>1. v1' \in Nat /\ v1' < B^Top /\ Top \in Limits
      BY <1>1, Ranges DEF Shape, Values, Counts
    <3>2. v1' > 0 => B^(LimbCount(v1') - 1) <= v1'
      BY <3>1, CountFits
    <3>3. LimbCount(0) = 0
      BY LimbCountIs
    <3> QED
      BY <2>1, <3>1, <3>2, <3>3
  <2>3. v0' <= v1' \/ tad' <= 8 * tbd'
    <3>1. CASE c >= 1
      <4>1. 1 * v1 = v1 /\ 1 * v1 <= c * v1 /\ c * v1 = v1 * c
        BY <1>4, <1>6, <3>1, SmallerFactor
      <4> DEFINE e == v1 * c
      <4>2. e \in Nat /\ v1 <= e /\ v1' = v0 + e
        BY <1>4, <1>6, <2>1, <4>1
      <4> HIDE DEF e
      <4> QED
        BY <1>4, <2>1, <4>2
    <3>2. CASE ~(c >= 1)
      <4>1. tad < tbd
        <5> SUFFICES ASSUME ~(tad < tbd) PROVE FALSE
          OBVIOUS
        <5>1. c = 0
          BY <1>6, <3>2
        <5>2. tad = tbd * c + (tad % tbd)
          <6>1. tbd \in Nat \ {0}
            BY <1>4, <1>5
          <6> QED
            BY <1>4, <6>1, DivMod DEF c
        <5>3. tbd * c = 0
          BY <1>4, <5>1
        <5> DEFINE e == tad % tbd
        <5>4. e \in Nat /\ e < tbd /\ tad = 0 + e
          BY <1>6, <5>2, <5>3
        <5> HIDE DEF e
        <5> QED
          BY <1>4, <5>4
      <4>2. tbd' = tad /\ tad' = tbd /\ tbd <= 8 * tad
        BY <1>1, <1>2, <1>6, <4>1 DEF Sizes
      <4> QED
        BY <4>2
    <3> QED
      BY <3>1, <3>2
  <2> QED
    BY <2>2, <2>3
<1>14. Sizes'
  <2>1. tad' > 0 /\ tbd' <= 8 * tad'
    BY <1>1, <1>4, <1>5, <1>6
  <2> QED
    BY <1>8, <1>11, <1>12, <1>13, <2>1 DEF Sizes
<1>15. Stages'
  <2>1. pc' = "loop" /\ tbd' = 0 => sim'.n = 0 /\ sim'.m = Identity
    BY <1>1, <1>2 DEF Stages, Stopped
  <2>2. tbd' < tad'
    BY <1>1, <1>6
  <2> QED
    BY <1>1, <2>1, <2>2 DEF Stages, Simulating
<1>16. Units'
  <2> SUFFICES ASSUME Small = 1 PROVE pc' = "word" /\ nc' = 1 /\ tbd' = 0
    BY <1>3 DEF Units
  <2>1. pc = "loop" /\ nc = 0 /\ tbd = 1 /\ pc' = "word"
    BY <1>1, <1>2 DEF Units
  <2> QED
    BY <1>1, <1>4, <1>6, <2>1
<1> QED
  BY <1>1, <1>10, <1>14, <1>15, <1>16 DEF Inner, Work

(* On the last limbs the remainders have one limb each.                    *)
LEMMA OneLimb ==
  ASSUME Shape, pc \in {"word", "limbs"} \/ (pc = "loop" /\ tal = 1)
  PROVE  tad \in Nat /\ tbd \in Nat /\ tad < B /\ tbd < B /\ tad % B = tad /\ tbd % B = tbd
<1>1. tad \in Nat /\ tbd \in Nat /\ tad < B^tal /\ tbd < B^tal /\ tal = 1
  BY DEF Shape, Values, Counts, Places
<1>2. B^1 = B /\ B \in Nat \ {0}
  BY Bases, Ranges
<1>3. tad \in 0 .. B - 1 /\ tbd \in 0 .. B - 1
  BY <1>1, <1>2
<1>4. tad % B = tad /\ tbd % B = tbd
  BY <1>2, <1>3, Below
<1> QED
  BY <1>1, <1>2, <1>4

(* The operands of one limb and the identity matrix.                       *)
LEMMA StartWordInner ==
  ASSUME Shape, Inner, StartWord, ~borrowed, ~borrowed'
  PROVE  Inner'
<1>1. /\ pc = "word" \/ (pc = "loop" /\ tbl = 1 /\ tal = 1)
      /\ pc' = "limbs" /\ Still /\ nc' = nc
      /\ sim' = (IF tad % B >= tbd % B THEN Start(tad % B, tbd % B)
                 ELSE StartExchanged(tad % B, tbd % B))
  BY DEF StartWord, operands, remainders, cofactors, history, Still
<1>2. Linked /\ Sizes /\ Units
  BY <1>1 DEF Inner, Work
<1>3. tad \in Nat /\ tbd \in Nat /\ tad < B /\ tbd < B /\ tad % B = tad /\ tbd % B = tbd
  BY <1>1, OneLimb
<1>4. sim' = IF tad >= tbd THEN Start(tad, tbd) ELSE StartExchanged(tad, tbd)
  BY <1>1, <1>3
<1>5. Sign' = Sign
  BY <1>1 DEF Sign
<1>6. Linked' /\ Sizes' /\ Small' = Small
  BY <1>1, <1>2, <1>5, StillKeeps
<1>7. tad > 0
  BY <1>2 DEF Sizes
<1>8. Remains(Identity, 0, tad, tbd, tad, tbd) /\ Remains(Exchange, 1, tad, tbd, tbd, tad)
  BY <1>3, RemainsStart
<1>9. B >= 16 /\ B \in Nat
  BY Ranges
<1>10. OnLimbs(sim', tad, tbd)
  <2>1. CASE tad >= tbd
    <3>1. sim'.a = tad /\ sim'.b = tbd /\ sim'.m = Identity /\ sim'.n = 0
      BY <1>4, <2>1 DEF Start
    <3>2. sim'.m[1] + sim'.m[2] = 1
      BY <3>1 DEF Identity
    <3>3. Remains(sim'.m, sim'.n, tad, tbd, sim'.a, sim'.b)
      BY <1>8, <3>1
    <3> QED
      BY <1>3, <1>7, <1>9, <2>1, <3>1, <3>2, <3>3 DEF OnLimbs
  <2>2. CASE ~(tad >= tbd)
    <3>1. sim'.a = tbd /\ sim'.b = tad /\ sim'.m = Exchange /\ sim'.n = 1
      BY <1>4, <2>2 DEF StartExchanged
    <3>2. Remains(sim'.m, sim'.n, tad, tbd, sim'.a, sim'.b)
      BY <1>8, <3>1
    <3>3. tad < tbd
      BY <1>3, <2>2
    <3> QED
      BY <1>3, <1>7, <3>1, <3>2, <3>3 DEF OnLimbs
  <2> QED
    BY <2>1, <2>2
<1>11. Stages'
  <2>1. tad' = tad /\ tbd' = tbd
    BY <1>1 DEF Still
  <2> QED
    BY <1>1, <1>10, <2>1 DEF Stages, Simulating
<1>12. Units'
  <2> SUFFICES ASSUME Small = 1
               PROVE \/ nc' = 1 /\ sim'.n = 0 /\ sim'.b = 0
                     \/ nc' = 0 /\ sim'.n = 0 /\ sim'.b = 1
    BY <1>1, <1>6 DEF Units
  <2>1. (nc = 1 /\ tbd = 0) \/ (nc = 0 /\ tbd = 1)
    BY <1>1, <1>2 DEF Units
  <2>2. tad >= tbd
    BY <1>3, <1>7, <2>1
  <2>3. sim'.n = 0 /\ sim'.b = tbd
    BY <1>4, <2>2 DEF Start
  <2> QED
    BY <1>1, <2>1, <2>3
<1> QED
  BY <1>1, <1>6, <1>11, <1>12 DEF Inner, Work

(* A division of the last limbs.                                           *)
LEMMA OnLimbsStep ==
  ASSUME NEW s \in Sims, NEW x \in Nat, NEW y \in Nat, x < B, y < B, OnLimbs(s, x, y),
         s.b > 0, NEW q \in Nat, NEW r \in Nat, s.a = q * s.b + r, r < s.b,
         NEW t, t.a = s.b, t.b = r, t.m = Times(q, s.m), t.n = s.n + 1
  PROVE  OnLimbs(t, x, y)
<1> DEFINE u == s.a  z == s.b  mat == s.m  n == s.n
<1>1. /\ u \in Nat /\ z \in Nat \ {0} /\ mat \in Entries /\ n \in Nat
      /\ Remains(mat, n, x, y, u, z) /\ z <= u /\ u = q * z + r /\ r < z
      /\ z < u \/ n = 0
      /\ t.a = z /\ t.b = r /\ t.m = Times(q, mat) /\ t.n = n + 1
  BY DEF Sims, Pairs, OnLimbs
<1>2. B \in Nat /\ B >= 16
  BY Ranges
<1> HIDE DEF u, z, mat, n
<1>3. Enough(x, y, u, z, q)
  <2>1. B * 1 <= B * z
    <3>1. 1 * B <= z * B /\ 1 * B = B * 1 /\ z * B = B * z
      BY <1>1, <1>2, SmallerFactor
    <3> QED
      BY <3>1
  <2> DEFINE e == B * z  f == q * z
  <2>2. e \in Nat /\ B <= e /\ f \in Nat /\ u = f + r
    BY <1>1, <1>2, <2>1
  <2> HIDE DEF e, f
  <2>3. x < e /\ y < e /\ f <= u
    BY <1>1, <1>2, <2>2
  <2> QED
    BY <2>3 DEF Enough, e, f
<1>4. Remains(Times(q, mat), n + 1, x, y, z, u - q * z) /\ Times(q, mat) = Grown(mat, q)
  BY <1>1, <1>3, RemainsStep
<1>5. u - q * z = r
  <2> DEFINE f == q * z
  <2>1. f \in Nat /\ u = f + r
    BY <1>1
  <2> HIDE DEF f
  <2>2. u - f = r
    BY <1>1, <2>1
  <2> QED
    BY <2>2 DEF f
<1>6. q >= 1
  <2> SUFFICES ASSUME ~(q >= 1) PROVE FALSE
    OBVIOUS
  <2>1. q = 0
    OBVIOUS
  <2>2. q * z = 0
    BY <1>1, <2>1
  <2> QED
    BY <1>1, <2>2
<1> DEFINE m1 == mat[1]  m2 == mat[2]  m3 == mat[3]  m4 == mat[4]
<1>7. /\ m1 \in Nat /\ m2 \in Nat /\ m3 \in Nat /\ m4 \in Nat
      /\ Grown(mat, q) = <<m3, m4, m1 + m3 * q, m2 + m4 * q>>
  BY <1>1, EntryTypes DEF Grown
<1>8. Ordered(t.m)
  <2>1. t.m[1] = m3 /\ t.m[2] = m4 /\ t.m[3] = m1 + m3 * q /\ t.m[4] = m2 + m4 * q
    BY <1>1, <1>4, <1>7
  <2>2. m3 <= m3 * q /\ m4 <= m4 * q
    <3> HIDE DEF m1, m2, m3, m4
    <3>1. 1 * m3 <= q * m3 /\ 1 * m4 <= q * m4
      BY <1>6, <1>7, SmallerFactor
    <3>2. 1 * m3 = m3 /\ 1 * m4 = m4 /\ q * m3 = m3 * q /\ q * m4 = m4 * q
      BY <1>7
    <3> QED
      BY <3>1, <3>2
  <2> DEFINE e3 == m3 * q  e4 == m4 * q
  <2>3. e3 \in Nat /\ e4 \in Nat /\ m3 <= e3 /\ m4 <= e4
    BY <1>7, <2>2
  <2>4. m3 <= m1 + e3 /\ m4 <= m2 + e4
    <3> HIDE DEF e3, e4, m1, m2, m3, m4
    <3> QED
      BY <1>7, <2>3
  <2> QED
    BY <2>1, <2>4 DEF Ordered
<1>9. t.m[1] + t.m[2] <= B
  <2>1. t.m[1] = m3 /\ t.m[2] = m4
    BY <1>1, <1>4, <1>7
  <2>2. CASE n = 0
    <3>1. mat = Identity
      BY <1>1, <2>2 DEF Remains
    <3>2. m3 = 0 /\ m4 = 1
      BY <3>1 DEF Identity
    <3> QED
      BY <1>2, <2>1, <3>2
  <2>3. CASE z < u
    <3>1. x = m4 * u + m2 * z /\ y = m3 * u + m1 * z
      BY <1>1 DEF Remains
    <3> HIDE DEF m1, m2, m3, m4
    <3>2. 2 <= u
      BY <1>1, <2>3
    <3>3. 2 * m4 <= u * m4 /\ 2 * m3 <= u * m3
      BY <1>1, <1>7, <3>2, SmallerFactor
    <3> DEFINE e3 == m3 * u  e4 == m4 * u  e1 == m1 * z  e2 == m2 * z
    <3>4. /\ e1 \in Nat /\ e2 \in Nat /\ e3 \in Nat /\ e4 \in Nat /\ x = e4 + e2 /\ y = e3 + e1
          /\ 2 * m4 <= e4 /\ 2 * m3 <= e3
      <4>1. u * m4 = m4 * u /\ u * m3 = m3 * u
        BY <1>1, <1>7
      <4> QED
        BY <1>1, <1>7, <3>1, <3>3, <4>1
    <3> HIDE DEF e1, e2, e3, e4
    <3>5. m3 + m4 <= B
      BY <1>2, <1>7, <3>4
    <3> QED
      BY <2>1, <3>5 DEF m3, m4
  <2> QED
    BY <1>1, <2>2, <2>3
<1>10. Remains(t.m, t.n, x, y, t.a, t.b)
  BY <1>1, <1>4, <1>5
<1>11. t.b <= t.a /\ 0 < t.a /\ t.b < t.a
  BY <1>1
<1> QED
  BY <1>8, <1>9, <1>10, <1>11 DEF OnLimbs

(* A division of limbs, collected in the matrix, keeps the account.        *)
LEMMA WordDivideInner ==
  ASSUME Shape, Inner, WordDivide, ~borrowed, ~borrowed'
  PROVE  Inner'
<1> DEFINE q == sim.a \div sim.b  r == sim.a % sim.b
<1>1. /\ pc = "limbs" /\ pc' = "limbs" /\ sim.b > 0 /\ sim' = StepBy(sim, q)
      /\ Still /\ nc' = nc
  BY DEF WordDivide, operands, remainders, cofactors, history, Still
<1>2. Linked /\ Sizes /\ Units /\ Stages
  BY <1>1 DEF Inner, Work
<1>3. tad \in Nat /\ tbd \in Nat /\ tad < B /\ tbd < B
  BY <1>1, OneLimb
<1>4. sim \in Sims /\ sim.a \in Nat /\ sim.b \in Nat /\ sim.n \in Nat
  BY SimulationTypes
<1>5. q \in Nat /\ r \in Nat /\ r < sim.b /\ sim.a = q * sim.b + r /\ sim.a - q * sim.b = r
  <2> DEFINE x == sim.a  d == sim.b
  <2>1. x \in Nat /\ d \in Nat \ {0}
    BY <1>1, <1>4
  <2> HIDE DEF x, d
  <2>2. x \div d \in Nat /\ x % d \in 0 .. d - 1 /\ x = d * (x \div d) + (x % d)
    BY <2>1, DivMod
  <2> DEFINE s == x \div d  e == x % d
  <2>3. s \in Nat /\ e \in 0 .. d - 1 /\ x = d * s + e
    BY <2>2
  <2> HIDE DEF s, e
  <2>4. d * s = s * d
    BY <2>1, <2>3
  <2> DEFINE f == s * d
  <2>5. f \in Nat /\ x = f + e
    BY <2>1, <2>3, <2>4
  <2> HIDE DEF f
  <2>6. e \in Nat /\ e < d /\ x - f = e
    BY <2>1, <2>3, <2>5
  <2> QED
    BY <2>3, <2>5, <2>6 DEF x, d, s, e, f
<1>6. sim'.a = sim.b /\ sim'.b = r /\ sim'.m = Times(q, sim.m) /\ sim'.n = sim.n + 1
  BY <1>1, <1>5 DEF StepBy
<1> HIDE DEF q, r
<1>7. OnLimbs(sim', tad, tbd)
  <2>1. OnLimbs(sim, tad, tbd)
    BY <1>1, <1>2 DEF Stages
  <2> QED
    BY <1>1, <1>3, <1>4, <1>5, <1>6, <2>1, OnLimbsStep
<1>8. Sign' = Sign
  BY <1>1 DEF Sign
<1>9. Linked' /\ Sizes' /\ Small' = Small
  BY <1>1, <1>2, <1>8, StillKeeps
<1>10. Stages'
  <2>1. tad' = tad /\ tbd' = tbd
    BY <1>1 DEF Still
  <2> QED
    BY <1>1, <1>7, <2>1 DEF Stages, Simulating
<1>11. Units'
  <2> SUFFICES ASSUME Small = 1 PROVE nc' = 0 /\ sim'.n = 1 /\ sim'.b = 0
    BY <1>1, <1>9 DEF Units
  <2>1. nc = 0 /\ sim.n = 0 /\ sim.b = 1
    BY <1>1, <1>2 DEF Units
  <2>2. r = 0
    BY <1>5, <2>1
  <2> QED
    BY <1>1, <1>6, <2>1, <2>2
<1> QED
  BY <1>1, <1>9, <1>10, <1>11 DEF Inner, Work

(* The sign that the last update is going to leave.                        *)
LEMMA WordDoneSign ==
  ASSUME Shape, WordDone
  PROVE  Sign' = Sign
<1>1. /\ pc = "limbs" /\ pc' = "last" /\ sim' = sim /\ nc' = (nc + sim.n) % 2
  BY DEF WordDone
<1>2. nc \in Nat /\ sim.n \in Nat
  BY SimulationTypes DEF Shape, Values
<1>3. Sign' = Sign
  <2>1. Sign = Signed(nc, 1) /\ Sign' = Signed(((nc + sim.n) % 2) + sim.n, 1)
    BY <1>1 DEF Sign
  <2> DEFINE c == nc  d == sim.n  f == (c + d) % 2
  <2>2. c \in Nat /\ d \in Nat
    BY <1>2
  <2> HIDE DEF c, d
  <2>3. f \in Nat
    BY <2>2
  <2>4. /\ Signed(c, 1) * Signed(d, 1) = Signed(c + d, 1)
        /\ Signed(f, 1) = Signed(c + d, 1)
        /\ Signed(c + d + d, 1) = Signed(c, 1)
    BY <2>2, SignsMultiply
  <2> HIDE DEF f
  <2>5. Signed(f, 1) * Signed(d, 1) = Signed(f + d, 1)
    BY <2>2, <2>3, SignsMultiply
  <2> DEFINE e == c + d
  <2>6. e \in Nat /\ Signed(e, 1) * Signed(d, 1) = Signed(e + d, 1)
    <3>1. e \in Nat
      BY <2>2
    <3> HIDE DEF e
    <3> QED
      BY <2>2, <3>1, SignsMultiply
  <2>7. Signed(f + d, 1) = Signed(c, 1)
    BY <2>4, <2>5, <2>6
  <2> QED
    BY <2>1, <2>7 DEF c, d, f
<1> QED
  BY <1>3

(* The loop on limbs ends with a zero remainder.                           *)
LEMMA WordDoneInner ==
  ASSUME Shape, Inner, WordDone, ~borrowed, ~borrowed'
  PROVE  Inner'
<1>1. /\ pc = "limbs" /\ pc' = "last" /\ sim.b = 0 /\ sim' = sim
      /\ nc' = (nc + sim.n) % 2 /\ Still
  BY DEF WordDone, operands, remainders, cofactors, history, Still
<1>2. Linked /\ Sizes /\ Units /\ Stages
  BY <1>1 DEF Inner, Work
<1>3. sim \in Sims /\ sim.n \in Nat /\ sim.a \in Nat /\ nc \in {0, 1} /\ nc \in Nat
  BY SimulationTypes DEF Shape, Values
<1>4. OnLimbs(sim, tad, tbd)
  BY <1>1, <1>2 DEF Stages
<1>5. Final(sim, tad, tbd, sim.a) /\ sim.a \in Nat \ {0}
  BY <1>1, <1>3, <1>4 DEF OnLimbs, Final
<1>6. Sign' = Sign
  BY WordDoneSign
<1>7. Linked' /\ Sizes' /\ Small' = Small
  BY <1>1, <1>2, <1>6, StillKeeps
<1>8. Stages'
  <2>1. tad' = tad /\ tbd' = tbd
    BY <1>1 DEF Still
  <2> QED
    BY <1>1, <1>5, <2>1 DEF Stages, Simulating
<1>9. Units'
  <2> SUFFICES ASSUME Small = 1 PROVE nc' = 1
    BY <1>1, <1>7 DEF Units
  <2>1. (nc = 1 /\ sim.n = 0) \/ (nc = 0 /\ sim.n = 1)
    BY <1>1, <1>2 DEF Units
  <2> QED
    BY <1>1, <2>1
<1> QED
  BY <1>1, <1>7, <1>8, <1>9 DEF Inner, Work

(* No loop on limbs: the smaller remainder is zero already and the matrix  *)
(* collects nothing.                                                       *)
LEMMA NoWordFacts ==
  ASSUME Shape, Inner, NoWord
  PROVE  /\ tbd = 0 /\ sim.n = 0 /\ sim.m = Identity
         /\ Sign' = Sign
<1>1. /\ pc = "loop" /\ pc' = "last" /\ tbl = 0 /\ sim' = sim /\ nc' = nc
  BY DEF NoWord
<1>2. Stages
  BY <1>1 DEF Inner, Work
<1>3. tad \in Nat /\ tbd \in Nat /\ nc \in Nat
  BY DEF Shape, Values
<1>4. tbd = 0
  <2>1. LimbCount(tbd) = 0
    BY <1>1 DEF Shape, Counts
  <2> SUFFICES ASSUME tbd # 0 PROVE FALSE
    OBVIOUS
  <2>2. LimbCount(tbd) = 1 + LimbCount(tbd \div B) /\ LimbCount(tbd \div B) \in Nat
    <3>1. tbd \div B \in Nat
      BY <1>3, Ranges, DivMod
    <3> QED
      BY <1>3, <3>1, LimbCountIs
  <2> DEFINE e == LimbCount(tbd \div B)
  <2>3. e \in Nat /\ 0 = 1 + e
    BY <2>1, <2>2
  <2> HIDE DEF e
  <2> QED
    BY <2>3
<1>5. sim.n = 0 /\ sim.m = Identity
  BY <1>1, <1>2, <1>4 DEF Stages
<1>7. Sign' = Sign
  <2>1. Sign = Signed(nc, 1) /\ Sign' = Signed(nc + 0, 1)
    BY <1>1, <1>5 DEF Sign
  <2> QED
    BY <1>3, <2>1
<1> QED
  BY <1>4, <1>5, <1>7

(* Then the last update is the identity.                                   *)
LEMMA NoWordInner ==
  ASSUME Shape, Inner, NoWord, ~borrowed, ~borrowed'
  PROVE  Inner'
<1>1. /\ pc = "loop" /\ pc' = "last" /\ tbl = 0 /\ sim' = sim /\ nc' = nc /\ Still
  BY DEF NoWord, operands, remainders, cofactors, history, Still
<1>2. Linked /\ Sizes /\ Units /\ Stages
  BY <1>1 DEF Inner, Work
<1>3. tad \in Nat /\ tbd \in Nat /\ nc \in Nat
  BY DEF Shape, Values
<1>4. tbd = 0
  BY NoWordFacts
<1>5. sim.n = 0 /\ sim.m = Identity
  BY NoWordFacts
<1>6. Final(sim, tad, tbd, tad) /\ tad \in Nat \ {0}
  <2>1. Remains(Identity, 0, tad, tbd, tad, tbd)
    BY <1>3, RemainsStart
  <2>2. Identity[1] + Identity[2] = 1
    BY DEF Identity
  <2>3. tad \in Nat \ {0} /\ B >= 16 /\ B \in Nat
    BY <1>2, <1>3, Ranges DEF Sizes
  <2> QED
    BY <1>4, <1>5, <2>1, <2>2, <2>3 DEF Final
<1>7. Sign' = Sign
  BY NoWordFacts
<1>8. Linked' /\ Sizes' /\ Small' = Small
  BY <1>1, <1>2, <1>7, StillKeeps
<1>9. Stages'
  <2>1. tad' = tad /\ tbd' = tbd
    BY <1>1 DEF Still
  <2> QED
    BY <1>1, <1>6, <2>1 DEF Stages, Simulating
<1>10. Small # 1
  BY <1>1, <1>2, <1>4 DEF Units
<1>11. Units'
  BY <1>8, <1>10 DEF Units
<1> QED
  BY <1>1, <1>8, <1>9, <1>11 DEF Inner, Work

(* The cofactor that the last update makes has at most one limb more.      *)
LEMMA LastCofactor ==
  ASSUME NEW m1 \in Nat, NEW m2 \in Nat, m1 + m2 <= B, NEW p \in Nat \ {0},
         NEW x \in Nat, NEW y \in Nat, x < p, y < p
  PROVE  m1 * x + m2 * y < B * p
<1>1. x <= p - 1 /\ y <= p - 1 /\ p - 1 \in Nat /\ B \in Nat \ {0}
  BY Ranges
<1> DEFINE d == p - 1
<1>2. d \in Nat /\ x <= d /\ y <= d /\ p = d + 1
  BY <1>1
<1> HIDE DEF d
<1>3. (d - x) * m1 >= 0 /\ (d - y) * m2 >= 0 /\ (B - (m1 + m2)) * d >= 0
  <2>1. d - x \in Nat /\ d - y \in Nat /\ B - (m1 + m2) \in Nat
    BY <1>1, <1>2
  <2> DEFINE c1 == d - x  c2 == d - y  c3 == B - (m1 + m2)
  <2>2. c1 \in Nat /\ c2 \in Nat /\ c3 \in Nat
    BY <2>1
  <2> HIDE DEF c1, c2, c3
  <2>3. c1 * m1 >= 0 /\ c2 * m2 >= 0 /\ c3 * d >= 0
    BY <1>2, <2>2
  <2> QED
    BY <2>3 DEF c1, c2, c3
<1>4. /\ (d - x) * m1 = d * m1 - m1 * x /\ (d - y) * m2 = d * m2 - m2 * y
      /\ (B - (m1 + m2)) * d = B * d - (d * m1 + d * m2)
      /\ B * p = B * d + B
  BY <1>1, <1>2
<1> DEFINE e1 == m1 * x  e2 == m2 * y  f1 == d * m1  f2 == d * m2  g == B * d  h == B * p
<1>5. e1 \in Nat /\ e2 \in Nat /\ f1 \in Nat /\ f2 \in Nat /\ g \in Nat /\ h \in Nat
  BY <1>1, <1>2
<1>6. f1 - e1 >= 0 /\ f2 - e2 >= 0 /\ g - (f1 + f2) >= 0 /\ h = g + B
  BY <1>3, <1>4
<1> HIDE DEF e1, e2, f1, f2, g, h
<1>7. e1 + e2 < h
  BY <1>1, <1>5, <1>6
<1> QED
  BY <1>7 DEF e1, e2, h

(* What the last update leaves.                                            *)
LEMMA LastFacts ==
  ASSUME Shape, Inner, Last, ~borrowed
  PROVE  \E q \in Matrices, g \in Nat \ {0} :
           /\ Leads(q, Signed(nc, 1), Big, Small, g, 0) /\ Ordered(q)
           /\ ReduceBy(sim, tad, tbd, tal).a = g /\ ReduceBy(sim, tad, tbd, tal).b = 0
           /\ Trusted /\ extended =>
                ExtendBy(sim).v0 % B^(vl + 1) = q[2] /\ ExtendBy(sim).v1 = q[4]
           /\ Leads(sim.m, Signed(sim.n, 1), tad, tbd, g, 0)
           /\ Trusted /\ extended => /\ q[2] = sim.m[1] * v0 + sim.m[2] * v1
                                     /\ q[4] = sim.m[3] * v0 + sim.m[4] * v1
           /\ Sign * Signed(sim.n, 1) = Signed(nc, 1)
<1>1. pc = "last" /\ vl + 2 <= Room
  BY DEF Last
<1>2. Linked /\ Sizes /\ Stages
  BY <1>1 DEF Inner, Work
<1>3. /\ sim \in Sims /\ sim.m \in Entries /\ sim.m \in Matrices /\ sim.n \in Nat /\ nc \in Nat
      /\ v0 \in Nat /\ v1 \in Nat /\ vl \in Limits /\ tad \in Nat /\ tbd \in Nat
      /\ tal \in 0 .. MaxLimbs + 1 /\ tad < B^tal /\ tbd < B^tal
  BY <1>1 DEF Shape, Values, Counts, Sims, Entries, Matrices, LimbValues
<1>4. PICK g \in Nat \ {0} : Final(sim, tad, tbd, g)
  BY <1>1, <1>2 DEF Stages
<1>5. Remains(sim.m, sim.n, tad, tbd, g, 0) /\ sim.m[1] + sim.m[2] <= B
  BY <1>4 DEF Final
<1>6. Leads(sim.m, Signed(sim.n, 1), tad, tbd, g, 0)
  BY <1>5, RemainsLeads
<1>7. ReduceBy(sim, tad, tbd, tal).a = g /\ ReduceBy(sim, tad, tbd, tal).b = 0
  <2> DEFINE m == sim.m  n == sim.n  c == Signed(n, 1)
             e == m[1] * tad - m[2] * tbd  f == m[4] * tbd - m[3] * tad
  <2>1. c * e = g /\ c * f = 0
    BY <1>6, LeadsBack
  <2>2. e \in Int /\ f \in Int /\ n \in Nat
    BY <1>3, EntryTypes
  <2>3. g = Signed(n, e) /\ 0 = Signed(n, f)
    <3> HIDE DEF e, f, n
    <3>1. Signed(n, e) = Signed(n, 1) * e /\ Signed(n, f) = Signed(n, 1) * f
      BY <2>2, SignedIs
    <3> QED
      BY <2>1, <3>1
  <2>4. Applies(sim, tad, tbd, g, 0)
    BY <2>3 DEF Applies
  <2>5. 0 \in Nat /\ g \in Nat
    OBVIOUS
  <2> HIDE DEF m, n, c, e, f
  <2> QED
    BY <1>3, <1>6, <2>4, <2>5, ReduceExact
<1>8. PICK q \in Matrices : /\ Leads(q, Sign, Big, Small, tad, tbd)
                            /\ Trusted /\ extended => v0 = q[2] /\ v1 = q[4]
                            /\ tbd = 0 => Ordered(q)
  BY <1>2 DEF Linked
<1> DEFINE r == Product(sim.m, q)
<1>9. Leads(r, Sign * Signed(sim.n, 1), Big, Small, g, 0) /\ r \in Matrices
  BY <1>6, <1>8, LeadsOn
<1>10. Sign * Signed(sim.n, 1) = Signed(nc, 1)
  <2>1. Sign = Signed(nc + sim.n, 1)
    BY <1>1 DEF Sign
  <2> DEFINE c == nc  d == sim.n  e == c + d
  <2>2. c \in Nat /\ d \in Nat /\ e \in Nat
    BY <1>3
  <2> HIDE DEF c, d
  <2>3. Signed(c + d + d, 1) = Signed(c, 1)
    BY <2>2, SignsMultiply
  <2>4. e + d = c + d + d
    BY <2>2
  <2> HIDE DEF e
  <2>5. Signed(e, 1) * Signed(d, 1) = Signed(e + d, 1)
    BY <2>2, SignsMultiply
  <2>6. Signed(e, 1) * Signed(d, 1) = Signed(c, 1)
    BY <2>3, <2>4, <2>5
  <2> QED
    BY <2>1, <2>6 DEF c, d, e
<1>11. Ordered(r)
  <2>1. CASE Ordered(sim.m)
    <3> DEFINE m1 == sim.m[1]  m2 == sim.m[2]  m3 == sim.m[3]  m4 == sim.m[4]
               q1 == q[1]  q2 == q[2]  q3 == q[3]  q4 == q[4]
    <3>1. /\ m1 \in Nat /\ m2 \in Nat /\ m3 \in Nat /\ m4 \in Nat
          /\ q1 \in Nat /\ q2 \in Nat /\ q3 \in Nat /\ q4 \in Nat
      BY <1>3, <1>8, MatrixTypes
    <3>2. /\ r[1] = m1 * q1 + m2 * q3 /\ r[2] = m1 * q2 + m2 * q4
          /\ r[3] = m3 * q1 + m4 * q3 /\ r[4] = m3 * q2 + m4 * q4
      BY DEF Product
    <3>3. m1 <= m3 /\ m2 <= m4
      BY <2>1 DEF Ordered
    <3> HIDE DEF r, m1, m2, m3, m4, q1, q2, q3, q4
    <3>4. m1 * q1 <= m3 * q1 /\ m1 * q2 <= m3 * q2 /\ m2 * q3 <= m4 * q3 /\ m2 * q4 <= m4 * q4
      BY <3>1, <3>3, SmallerFactor
    <3> DEFINE a1 == m1 * q1  a2 == m1 * q2  a3 == m2 * q3  a4 == m2 * q4
               b1 == m3 * q1  b2 == m3 * q2  b3 == m4 * q3  b4 == m4 * q4
    <3>5. /\ a1 \in Nat /\ a2 \in Nat /\ a3 \in Nat /\ a4 \in Nat
          /\ b1 \in Nat /\ b2 \in Nat /\ b3 \in Nat /\ b4 \in Nat
          /\ a1 <= b1 /\ a2 <= b2 /\ a3 <= b3 /\ a4 <= b4
      BY <3>1, <3>4
    <3>6. r[1] = a1 + a3 /\ r[2] = a2 + a4 /\ r[3] = b1 + b3 /\ r[4] = b2 + b4
      BY <3>2
    <3> HIDE DEF a1, a2, a3, a4, b1, b2, b3, b4
    <3> QED
      BY <3>5, <3>6 DEF Ordered
  <2>2. CASE sim.n = 0
    <3>1. sim.m = Identity
      BY <1>5, <2>2 DEF Remains
    <3>2. sim.m[1] = 1 /\ sim.m[2] = 0 /\ sim.m[3] = 0 /\ sim.m[4] = 1
      BY <3>1 DEF Identity
    <3>3. tbd = 0 * g + 1 * 0
      BY <1>5, <3>2 DEF Remains
    <3>4. Ordered(q)
      BY <1>3, <1>8, <3>3
    <3>5. r[1] = q[1] /\ r[2] = q[2] /\ r[3] = q[3] /\ r[4] = q[4]
      <4> DEFINE q1 == q[1]  q2 == q[2]  q3 == q[3]  q4 == q[4]
      <4>1. q1 \in Nat /\ q2 \in Nat /\ q3 \in Nat /\ q4 \in Nat
        BY <1>8, MatrixTypes
      <4>2. r = <<1 * q1 + 0 * q3, 1 * q2 + 0 * q4, 0 * q1 + 1 * q3, 0 * q2 + 1 * q4>>
        BY <3>2 DEF Product
      <4> HIDE DEF q1, q2, q3, q4, r
      <4>3. r[1] = q1 /\ r[2] = q2 /\ r[3] = q3 /\ r[4] = q4
        BY <4>1, <4>2
      <4> QED
        BY <4>3 DEF q1, q2, q3, q4
    <3> QED
      BY <3>4, <3>5 DEF Ordered
  <2> QED
    BY <1>4, <2>1, <2>2 DEF Final
<1>12. Trusted /\ extended =>
         ExtendBy(sim).v0 % B^(vl + 1) = r[2] /\ ExtendBy(sim).v1 = r[4]
  <2> SUFFICES ASSUME Trusted, extended
               PROVE  ExtendBy(sim).v0 % B^(vl + 1) = r[2] /\ ExtendBy(sim).v1 = r[4]
    OBVIOUS
  <2>1. Counted(v0, v1, vl)
    BY <1>2 DEF Sizes
  <2>2. /\ ExtendBy(sim).v0 = sim.m[1] * v0 + sim.m[2] * v1
        /\ ExtendBy(sim).v1 = sim.m[3] * v0 + sim.m[4] * v1
    BY <1>3, <2>1, ExtendExact
  <2>3. ExtendBy(sim).v0 = r[2] /\ ExtendBy(sim).v1 = r[4]
    BY <1>8, <2>2 DEF Product
  <2>4. ExtendBy(sim).v0 < B^(vl + 1)
    <3>1. vl \in 0 .. MaxLimbs + 1
      <4>1. Room \in Nat /\ Room <= Top /\ MaxLimbs \in Nat /\ vl \in Nat
        BY <1>3, RoomIs DEF Limits
      <4> QED
        BY <1>1, <4>1 DEF Top
    <3> DEFINE p == B^vl  m1 == sim.m[1]  m2 == sim.m[2]
    <3>2. p \in Nat \ {0} /\ v0 < p /\ v1 < p /\ m1 \in Nat /\ m2 \in Nat /\ m1 + m2 <= B
      BY <1>3, <1>5, <2>1, BasePowers, EntryTypes DEF Counted
    <3>3. B^(vl + 1) = B * p
      BY <3>1, BasePowers
    <3>4. ExtendBy(sim).v0 = m1 * v0 + m2 * v1
      BY <2>2
    <3> HIDE DEF p, m1, m2
    <3>5. m1 * v0 + m2 * v1 < B * p
      BY <1>3, <3>2, LastCofactor
    <3> QED
      BY <3>3, <3>4, <3>5
  <2>5. ExtendBy(sim).v0 % B^(vl + 1) = ExtendBy(sim).v0
    <3> DEFINE p == B^(vl + 1)  x == ExtendBy(sim).v0
    <3>1. p \in Nat \ {0}
      <4>1. vl + 1 \in Limits
        <5>1. Room \in Nat /\ Room <= Top /\ MaxLimbs \in Nat /\ vl \in Nat
          BY <1>3, RoomIs DEF Limits
        <5> QED
          BY <1>1, <5>1 DEF Top, Limits
      <4> QED
        BY <4>1, BasePowers
    <3>2. x \in Nat
      BY <1>9, <2>3, MatrixTypes
    <3>3. x < p
      BY <2>4
    <3> HIDE DEF p, x
    <3>4. x \in 0 .. p - 1
      BY <3>1, <3>2, <3>3
    <3>5. x % p = x
      BY <3>1, <3>4, Below
    <3> QED
      BY <3>5 DEF p, x
  <2> QED
    BY <2>3, <2>5
<1>13. Leads(r, Signed(nc, 1), Big, Small, g, 0)
  BY <1>9, <1>10
<1>14. Trusted /\ extended => /\ r[2] = sim.m[1] * v0 + sim.m[2] * v1
                               /\ r[4] = sim.m[3] * v0 + sim.m[4] * v1
  BY <1>8 DEF Product
<1> HIDE DEF r
<1> QED
  BY <1>6, <1>7, <1>9, <1>10, <1>11, <1>12, <1>13, <1>14

(* What the last update stores is the remainder and the cofactor that      *)
(* belongs to it.                                                          *)
LEMMA LastInner ==
  ASSUME Shape, Inner, Last, ~borrowed, ~borrowed'
  PROVE  Inner'
<1>1. /\ pc' = "done" /\ nc' = nc /\ call' = call /\ ad' = ad /\ bd' = bd
      /\ borrowed' = borrowed /\ lost' = lost
      /\ tad' = ReduceBy(sim, tad, tbd, tal).a /\ tbd' = ReduceBy(sim, tad, tbd, tal).b
      /\ extended => v0' = ExtendBy(sim).v0 % B^(vl + 1) /\ v1' = ExtendBy(sim).v1
  BY DEF Last, operands, history
<1>2. Big' = Big /\ Small' = Small /\ (extended' <=> extended) /\ (Trusted' <=> Trusted)
  BY <1>1, OperandsKept DEF Trusted
<1>3. PICK q \in Matrices, g \in Nat \ {0} :
           /\ Leads(q, Signed(nc, 1), Big, Small, g, 0) /\ Ordered(q)
           /\ ReduceBy(sim, tad, tbd, tal).a = g /\ ReduceBy(sim, tad, tbd, tal).b = 0
           /\ Trusted /\ extended =>
                ExtendBy(sim).v0 % B^(vl + 1) = q[2] /\ ExtendBy(sim).v1 = q[4]
  BY LastFacts
<1>4. Sign' = Signed(nc, 1)
  BY <1>1 DEF Sign
<1>5. Leads(q, Sign', Big', Small', tad', tbd')
  BY <1>1, <1>2, <1>3, <1>4
<1>6. Linked'
  BY <1>1, <1>2, <1>3, <1>5 DEF Linked
<1> QED
  BY <1>1, <1>6 DEF Inner, Work

(* A factor of a product that is not below c is reached by the product.    *)
LEMMA ProductReaches ==
  ASSUME NEW c \in Nat, NEW d \in Nat, NEW x \in Nat, NEW y \in Nat, c <= x, d <= y
  PROVE  c * d <= x * y
<1>1. c * d <= x * d
  BY SmallerFactor
<1>2. d * x <= y * x
  BY SmallerFactor
<1> DEFINE e == c * d  f == x * d  g == x * y
<1>3. e \in Nat /\ f \in Nat /\ g \in Nat /\ d * x = f /\ y * x = g
  OBVIOUS
<1>4. e <= f /\ f <= g
  BY <1>1, <1>2, <1>3
<1> HIDE DEF e, f, g
<1>5. e <= g
  BY <1>3, <1>4
<1> QED
  BY <1>5 DEF e, g

(* The cofactors against the operand they belong to.                       *)
LEMMA CofactorsAgainstBig ==
  ASSUME Shape, Linked, Sizes, Trusted, extended
  PROVE  /\ Big = v1 * tad + v0 * tbd
         /\ v1 <= Big
         /\ v0 <= Big
<1>1. PICK q \in Matrices : /\ Leads(q, Sign, Big, Small, tad, tbd)
                            /\ v0 = q[2] /\ v1 = q[4]
  BY DEF Linked
<1>2. Big = v1 * tad + v0 * tbd
  BY <1>1 DEF Leads
<1>3. /\ v0 \in Nat /\ v1 \in Nat /\ tad \in Nat /\ tbd \in Nat /\ tad > 0 /\ tbd <= 8 * tad
      /\ v0 <= v1 \/ tad <= 8 * tbd
  BY DEF Shape, Values, Sizes
<1> DEFINE e == v1 * tad  f == v0 * tbd
<1>4. e \in Nat /\ f \in Nat /\ Big = e + f
  BY <1>2, <1>3
<1>5. v1 <= e
  <2>1. 1 * v1 <= tad * v1
    BY <1>3, SmallerFactor
  <2>2. 1 * v1 = v1 /\ tad * v1 = v1 * tad
    BY <1>3
  <2> QED
    BY <2>1, <2>2
<1>6. v0 <= v1 \/ v0 <= f
  <2>1. CASE v0 <= v1
    BY <2>1
  <2>2. CASE tad <= 8 * tbd
    <3>1. 1 <= tbd
      BY <1>3, <2>2
    <3>2. 1 * v0 <= tbd * v0
      BY <1>3, <3>1, SmallerFactor
    <3>3. 1 * v0 = v0 /\ tbd * v0 = v0 * tbd
      BY <1>3
    <3> QED
      BY <3>2, <3>3
  <2> QED
    BY <1>3, <2>1, <2>2
<1> HIDE DEF e, f
<1>7. v1 <= Big /\ v0 <= Big
  BY <1>3, <1>4, <1>5, <1>6
<1> QED
  BY <1>2, <1>7

(* vl leaves the two limbs that an update writes.                          *)
LEMMA CountLeavesRoom ==
  ASSUME Shape, Linked, Sizes, Trusted, vl \in Limits
  PROVE  vl <= LimbCount(Big)
<1>1. /\ Big \in Nat \ {0} /\ LimbCount(Big) \in 1 .. MaxLimbs /\ Big < B^LimbCount(Big)
      /\ MaxLimbs \in Nat /\ MaxLimbs \in Limits
  BY OperandTypes, Bases, Ranges
<1>2. v0 \in Nat /\ v1 \in Nat /\ vl \in Nat
  BY DEF Shape, Values, Limits
<1>3. CASE vl <= 1
  BY <1>1, <1>2, <1>3
<1>4. CASE ~(vl <= 1)
  <2>1. extended
    <3> SUFFICES ASSUME ~extended PROVE FALSE
      OBVIOUS
    <3>1. vl = 1
      BY DEF Sizes
    <3> QED
      BY <1>4, <3>1
  <2>2. B^(vl - 1) <= v0 \/ B^(vl - 1) <= v1
    BY <1>4, <2>1 DEF Sizes
  <2>3. v1 <= Big /\ v0 <= Big
    BY <2>1, CofactorsAgainstBig
  <2> SUFFICES ASSUME ~(vl <= LimbCount(Big)) PROVE FALSE
    OBVIOUS
  <2> DEFINE l == LimbCount(Big)  j == vl - 1
  <2>4. l \in Limits /\ j \in Limits /\ l <= j
    BY <1>1, <1>2, <1>4 DEF Limits
  <2> HIDE DEF l, j
  <2>5. B^l <= B^j
    BY <2>4, BaseGrows
  <2> DEFINE c == B^l  d == B^j
  <2>6. c \in Nat /\ d \in Nat /\ c <= d
    BY <2>4, <2>5, BasePowers
  <2>7. (d <= v0 \/ d <= v1) /\ Big < c
    BY <1>1, <2>2 DEF l, j
  <2> HIDE DEF c, d
  <2> QED
    BY <1>1, <1>2, <2>3, <2>6, <2>7
<1> QED
  BY <1>3, <1>4

(* One of the remainders is as long as tal says.                           *)
LEMMA LongRemainder ==
  ASSUME Shape, pc \in {"loop", "simulated"}, tal > 1
  PROVE  tal - 1 \in Limits /\ (B^(tal - 1) <= tad \/ B^(tal - 1) <= tbd)
<1>1. /\ tal = Larger(LimbCount(tad), tbl) /\ tbl = LimbCount(tbd)
      /\ tad \in Nat /\ tbd \in Nat /\ tal \in 0 .. MaxLimbs + 1 /\ tad < B^tal /\ tbd < B^tal
  BY DEF Shape, Values, Counts, Places
<1>2. MaxLimbs \in Nat /\ LimbCount(tad) \in Nat /\ LimbCount(tbd) \in Nat
  BY <1>1, Bases, LimbCountIs
<1>3. tal \in Limits /\ tal - 1 \in Limits
  BY <1>1, <1>2 DEF Limits
<1>4. /\ tad > 0 => B^(LimbCount(tad) - 1) <= tad
      /\ tbd > 0 => B^(LimbCount(tbd) - 1) <= tbd
  BY <1>1, <1>3, CountFits
<1>5. tal = LimbCount(tad) \/ tal = LimbCount(tbd)
  <2> DEFINE c == LimbCount(tad)  d == LimbCount(tbd)
  <2>1. c \in Nat /\ d \in Nat /\ tal = Larger(c, d)
    BY <1>1, <1>2
  <2> HIDE DEF c, d
  <2>2. tal = c \/ tal = d
    BY <2>1 DEF Larger
  <2> QED
    BY <2>2 DEF c, d
<1>6. LimbCount(0) = 0
  BY LimbCountIs
<1> QED
  BY <1>1, <1>3, <1>4, <1>5, <1>6

(* ... and the two counts leave room for the product of a quotient and a   *)
(* cofactor.                                                               *)
LEMMA CountsLeaveRoom ==
  ASSUME Shape, Linked, Sizes, Trusted, pc \in {"loop", "simulated"}, tal > 1
  PROVE  vl + tal <= LimbCount(Big) + 2
<1>1. /\ Big \in Nat \ {0} /\ LimbCount(Big) \in 1 .. MaxLimbs /\ Big < B^LimbCount(Big)
      /\ MaxLimbs \in Nat
  BY OperandTypes, Bases
<1>2. v0 \in Nat /\ v1 \in Nat /\ vl \in Nat /\ vl \in Limits /\ tal \in Nat /\ tad \in Nat /\ tbd \in Nat
  BY <1>1 DEF Shape, Values, Counts, Limits
<1>3. tal <= LimbCount(Big) /\ tad > 0 /\ tbd <= 8 * tad
  BY DEF Sizes
<1>4. CASE vl <= 1
  BY <1>1, <1>2, <1>3, <1>4
<1>5. CASE ~(vl <= 1)
  <2>1. extended
    <3> SUFFICES ASSUME ~extended PROVE FALSE
      OBVIOUS
    <3>1. vl = 1
      BY DEF Sizes
    <3> QED
      BY <1>5, <3>1
  <2>2. /\ B^(vl - 1) <= v0 \/ B^(vl - 1) <= v1
        /\ v0 <= v1 \/ tad <= 8 * tbd
    BY <1>5, <2>1 DEF Sizes
  <2>3. Big = v1 * tad + v0 * tbd
    BY <2>1, CofactorsAgainstBig
  <2>4. tal - 1 \in Limits /\ (B^(tal - 1) <= tad \/ B^(tal - 1) <= tbd)
    BY LongRemainder
  <2> SUFFICES ASSUME ~(vl + tal <= LimbCount(Big) + 2) PROVE FALSE
    OBVIOUS
  <2> DEFINE l == LimbCount(Big)  i == tal - 1  j == l + 1 - i  h == vl - 1
  <2>5. /\ l \in Limits /\ i \in Limits /\ j \in Nat /\ j \in Limits /\ h \in Limits /\ j <= h
        /\ i + j = l + 1 /\ i + j \in Limits /\ l \in 0 .. MaxLimbs + 1 /\ i \in Nat
    BY <1>1, <1>2, <1>3, <1>5, <2>4 DEF Limits
  <2> DEFINE P == B^i  Q == B^h  R == B^j  T == B^l
  <2>6. (Q <= v0 \/ Q <= v1) /\ (P <= tad \/ P <= tbd) /\ Big < T
    BY <1>1, <2>2, <2>4
  <2> HIDE DEF l, i, j, h
  <2>7. P \in Nat \ {0} /\ Q \in Nat \ {0} /\ R \in Nat \ {0} /\ T \in Nat \ {0}
    BY <2>5, BasePowers
  <2>8. R <= Q
    BY <2>5, BaseGrows
  <2>9. P * R = B * T
    <3>1. B^(i + j) = B^i * B^j
      BY <2>5, BaseSum
    <3>2. B^(l + 1) = B * B^l
      BY <2>5, BasePowers
    <3> QED
      BY <2>5, <3>1, <3>2
  <2> HIDE DEF P, Q, R, T
  <2>10. P * Q >= B * T
    <3>1. P <= P
      BY <2>7
    <3>2. P * R <= P * Q
      BY <2>7, <2>8, <3>1, ProductReaches
    <3> QED
      BY <2>9, <3>2
  <2>11. P <= 8 * tad
    BY <1>2, <1>3, <2>6, <2>7
  <2> DEFINE e == v1 * tad  f == v0 * tbd  g == P * Q
  <2>12. e \in Nat /\ f \in Nat /\ g \in Nat /\ Big = e + f
    BY <1>2, <2>3, <2>7
  <2>13. g <= 8 * e \/ g <= 8 * f
    <3>1. CASE Q <= v1
      <4> DEFINE d == 8 * tad
      <4>1. d \in Nat /\ P <= d
        BY <1>2, <2>11
      <4> HIDE DEF d
      <4>2. P * Q <= d * v1
        BY <1>2, <2>7, <3>1, <4>1, ProductReaches
      <4>3. d * v1 = 8 * e
        BY <1>2 DEF d
      <4> QED
        BY <4>2, <4>3
    <3>2. CASE Q <= v0 /\ v0 <= v1
      <4>1. Q <= v1
        BY <1>2, <2>7, <3>2
      <4> QED
        BY <3>1, <4>1
    <3>3. CASE Q <= v0 /\ tad <= 8 * tbd
      <4> DEFINE d == 8 * tbd
      <4>1. d \in Nat /\ P <= d
        BY <1>2, <2>6, <2>7, <3>3
      <4> HIDE DEF d
      <4>2. P * Q <= d * v0
        BY <1>2, <2>7, <3>3, <4>1, ProductReaches
      <4>3. d * v0 = 8 * f
        BY <1>2 DEF d
      <4> QED
        BY <4>2, <4>3
    <3> QED
      BY <2>2, <2>6, <3>1, <3>2, <3>3
  <2> HIDE DEF e, f, g
  <2>14. g <= 8 * Big
    BY <1>1, <2>12, <2>13
  <2>15. 16 * T <= B * T
    <3>1. 16 * T <= B * T
      BY <2>7, Ranges, SmallerFactor
    <3> QED
      BY <3>1
  <2> DEFINE k == B * T
  <2>16. k \in Nat /\ 16 * T <= k /\ k <= g
    BY <2>7, <2>10, <2>15, Ranges DEF g
  <2> HIDE DEF k
  <2> QED
    BY <1>1, <2>6, <2>7, <2>12, <2>14, <2>16
<1> QED
  BY <1>4, <1>5

(* Nothing is written or read beyond a scratch array, and phase one does   *)
(* not divide by a number without an upper limb.                           *)
LEMMA NoOverrun ==
  ASSUME Shape, Inner, Trusted
  PROVE  ~Overrun
<1> SUFFICES ASSUME Overrun PROVE FALSE
  OBVIOUS
<1>1. pc \in Work
  BY DEF Overrun, Work
<1>2. Linked /\ Sizes /\ Stages
  BY <1>1 DEF Inner, Work
<1>3. Room = LimbCount(Big) + 2 /\ LimbCount(Big) \in 1 .. MaxLimbs /\ MaxLimbs \in Nat
  BY OperandTypes, Bases
<1>4. vl \in Limits /\ vl \in Nat /\ tal \in Nat /\ tal <= LimbCount(Big) /\ vl <= LimbCount(Big)
  <2>1. vl \in Limits /\ tal \in 0 .. MaxLimbs + 1
    BY <1>1 DEF Shape, Counts, Work
  <2>2. vl <= LimbCount(Big)
    BY <1>2, <2>1, CountLeavesRoom
  <2> QED
    BY <1>2, <1>3, <2>1, <2>2 DEF Sizes, Limits
<1>5. CASE tal + 2 > Room \/ vl + 2 > Room
  BY <1>3, <1>4, <1>5
<1>6. CASE /\ (pc = "simulated" /\ sim.n = 0) \/ (pc = "loop" /\ tbl = 1 /\ tal > 1)
           /\ vl + tal > Room
  <2>1. tal > 1
    <3>1. CASE pc = "simulated"
      <4>1. tal = Larger(LimbCount(tad), tbl) /\ tbl >= 2 /\ tad \in Nat /\ tbd \in Nat
            /\ tbl = LimbCount(tbd)
        BY <3>1 DEF Shape, Values, Places, Counts
      <4> DEFINE c == LimbCount(tad)
      <4>2. c \in Nat /\ tbl \in Nat
        BY <4>1, LimbCountIs
      <4> HIDE DEF c
      <4>3. tal = Larger(c, tbl)
        BY <4>1 DEF c
      <4> QED
        BY <4>1, <4>2, <4>3 DEF Larger
    <3> QED
      BY <1>6, <3>1
  <2>2. vl + tal <= LimbCount(Big) + 2
    BY <1>2, <1>6, <2>1, CountsLeaveRoom
  <2> QED
    BY <1>3, <1>4, <1>6, <2>2
<1>7. CASE pc = "phase1" /\ sim.a \div B >= H /\ sim.b < B
  <2>1. B <= sim.b
    BY <1>2, <1>7 DEF Stages, FirstPhase
  <2>2. sim.b \in Nat /\ B \in Nat
    BY SimulationTypes, Ranges
  <2> QED
    BY <1>7, <2>1, <2>2
<1> QED
  BY <1>5, <1>6, <1>7 DEF Overrun

(* Multiples of d. *)
LEMMA DividesIs ==
  ASSUME NEW d \in Nat \ {0}, NEW x \in Nat
  PROVE  Divides(d, x) => \E k \in Nat : x = d * k
<1> SUFFICES ASSUME Divides(d, x) PROVE \E k \in Nat : x = d * k
  OBVIOUS
<1> DEFINE k == x \div d  r == x % d
<1>1. k \in Nat /\ x = d * k + r
  BY DivMod
<1>2. r = 0
  BY DEF Divides
<1> HIDE DEF k, r
<1>3. d * k \in Nat
  BY <1>1
<1>4. x = d * k
  BY <1>1, <1>2, <1>3
<1> QED
  BY <1>1, <1>4

(* Divides, of a multiple.                                                 *)
LEMMA MultiplesDivide ==
  ASSUME NEW d \in Nat \ {0}, NEW k \in Int
  PROVE  Divides(d, d * k)
<1>1. 0 \in 0 .. d - 1
  OBVIOUS
<1>2. (d * k + 0) % d = 0
  BY <1>1, Unique
<1> DEFINE e == d * k
<1>3. e \in Int /\ (e + 0) % d = 0
  BY <1>2
<1> HIDE DEF e
<1>4. e + 0 = e
  BY <1>3
<1>5. e % d = 0
  BY <1>3, <1>4
<1> QED
  BY <1>5 DEF e, Divides

(* The greatest common divisor is the one that every other divides.        *)
LEMMA GcdIs ==
  ASSUME NEW x \in Nat \ {0}, NEW y \in Nat \ {0}, NEW g \in Nat \ {0},
         Divides(g, x), Divides(g, y),
         \A e \in Nat \ {0} : Divides(e, x) /\ Divides(e, y) => e <= g
  PROVE  GCD(x, y) = g
<1> DEFINE Good(d) == /\ Divides(d, x) /\ Divides(d, y)
                      /\ \A e \in d + 1 .. x : ~(Divides(e, x) /\ Divides(e, y))
           c == CHOOSE d \in 1 .. x : Good(d)
<1>1. g \in 1 .. x
  <2>1. PICK k \in Nat : x = g * k
    BY DividesIs
  <2>2. k >= 1
    <3> SUFFICES ASSUME ~(k >= 1) PROVE FALSE
      OBVIOUS
    <3>1. k = 0
      BY <2>1
    <3> QED
      BY <2>1, <3>1
  <2>3. 1 * g <= k * g
    BY <2>1, <2>2, SmallerFactor
  <2>4. 1 * g = g /\ k * g = x
    BY <2>1
  <2> QED
    BY <2>3, <2>4
<1>2. Good(g)
  <2>1. ASSUME NEW e \in g + 1 .. x, Divides(e, x), Divides(e, y) PROVE FALSE
    <3>1. e \in Nat \ {0} /\ e > g
      OBVIOUS
    <3>2. e <= g
      BY <2>1, <3>1
    <3> QED
      BY <3>1, <3>2
  <2> QED
    BY <2>1
<1>3. c \in 1 .. x /\ Good(c)
  <2> HIDE DEF Good
  <2> QED
    BY <1>1, <1>2
<1>4. c = g
  <2> HIDE DEF c
  <2>1. c <= g
    <3>1. c \in Nat \ {0} /\ Divides(c, x) /\ Divides(c, y)
      BY <1>3
    <3> QED
      BY <3>1
  <2>2. ~(c < g)
    <3> SUFFICES ASSUME c < g PROVE FALSE
      OBVIOUS
    <3>1. g \in c + 1 .. x
      BY <1>1, <1>3
    <3> QED
      BY <1>3, <3>1
  <2> QED
    BY <1>1, <1>3, <2>1, <2>2
<1> QED
  BY <1>4 DEF GCD

------------------------------------------------------------------------------
(* What the cofactors are when nothing is left of the second remainder.    *)
LEMMA FinalCofactors ==
  ASSUME NEW q \in Matrices, NEW s, NEW x \in Nat \ {0}, NEW y \in Nat \ {0}, NEW g \in Nat \ {0},
         Leads(q, s, x, y, g, 0), Ordered(q)
  PROVE  /\ q[1] \in Nat /\ q[2] \in Nat /\ q[3] \in Nat /\ q[4] \in Nat /\ s \in {1, -1}
         /\ x = q[4] * g /\ y = q[3] * g
         /\ q[1] * x - q[2] * y = s * g
         /\ q[1] <= y /\ q[2] <= x /\ g <= y
         /\ q[1] = y => y = 1 /\ s = 1
         /\ q[2] = x => x = 1 /\ s = -1
<1> DEFINE c1 == q[1]  c2 == q[2]  c3 == q[3]  c4 == q[4]
<1>1. /\ c1 \in Nat /\ c2 \in Nat /\ c3 \in Nat /\ c4 \in Nat /\ s \in {1, -1}
      /\ x = c4 * g + c2 * 0 /\ y = c3 * g + c1 * 0 /\ c1 * c4 - c2 * c3 = s
      /\ c1 <= c3 /\ c2 <= c4
  BY MatrixTypes DEF Leads, Ordered
<1>2. s * (c1 * x - c2 * y) = g
  BY LeadsBack
<1> HIDE DEF c1, c2, c3, c4
<1>3. x = c4 * g /\ y = c3 * g
  <2> DEFINE e == c4 * g  f == c3 * g
  <2>1. e \in Nat /\ f \in Nat /\ x = e + 0 /\ y = f + 0
    BY <1>1
  <2> HIDE DEF e, f
  <2>2. x = e /\ y = f
    BY <2>1
  <2> QED
    BY <2>2 DEF e, f
<1>4. c1 * x - c2 * y = s * g
  <2> DEFINE e == c1 * x - c2 * y
  <2>1. e \in Int /\ s * e = g /\ s \in {1, -1}
    BY <1>1, <1>2
  <2> HIDE DEF e
  <2>2. s = 1 => e = s * g
    BY <2>1
  <2>3. s = -1 => e = s * g
    BY <2>1
  <2>4. e = s * g
    BY <2>1, <2>2, <2>3
  <2> QED
    BY <2>4 DEF e
<1>5. c3 >= 1 /\ c4 >= 1
  <2>1. c3 = 0 => y = 0
    BY <1>3
  <2>2. c4 = 0 => x = 0
    BY <1>3
  <2> QED
    BY <1>1, <2>1, <2>2
<1>6. c3 <= y /\ c4 <= x /\ g <= y
  <2>1. 1 * c3 <= g * c3 /\ 1 * c4 <= g * c4 /\ 1 * g <= c3 * g
    BY <1>1, <1>5, SmallerFactor
  <2>2. 1 * c3 = c3 /\ g * c3 = y /\ 1 * c4 = c4 /\ g * c4 = x /\ 1 * g = g
    BY <1>1, <1>3
  <2> QED
    BY <1>3, <2>1, <2>2
<1>7. c1 <= y /\ c2 <= x
  BY <1>1, <1>6
<1>8. c1 = y => y = 1 /\ s = 1
  <2> SUFFICES ASSUME c1 = y PROVE y = 1 /\ s = 1
    OBVIOUS
  <2>1. c3 = y
    BY <1>1, <1>6
  <2> DEFINE d == c4 - c2
  <2>2. d \in Nat /\ y * d = s
    <3>1. c1 * c4 - c2 * c3 = y * (c4 - c2)
      BY <1>1, <2>1
    <3> QED
      BY <1>1, <3>1
  <2> HIDE DEF d
  <2>3. y * d \in Nat
    BY <2>2
  <2>4. s = 1
    BY <1>1, <2>2, <2>3
  <2>5. d >= 1
    <3> SUFFICES ASSUME ~(d >= 1) PROVE FALSE
      OBVIOUS
    <3>1. d = 0
      BY <2>2
    <3>2. y * d = 0
      BY <3>1
    <3> QED
      BY <2>2, <2>4, <3>2
  <2>6. 1 * y <= d * y
    BY <2>2, <2>5, SmallerFactor
  <2>7. d * y = y * d /\ 1 * y = y
    BY <2>2
  <2>8. y <= 1
    BY <2>2, <2>4, <2>6, <2>7
  <2> QED
    BY <2>4, <2>8
<1>9. c2 = x => x = 1 /\ s = -1
  <2> SUFFICES ASSUME c2 = x PROVE x = 1 /\ s = -1
    OBVIOUS
  <2>1. c4 = x
    BY <1>1, <1>6
  <2> DEFINE d == c3 - c1
  <2>2. d \in Nat /\ x * d = -s
    <3>1. c1 * c4 - c2 * c3 = -(x * (c3 - c1))
      BY <1>1, <2>1
    <3> DEFINE e == x * d
    <3>2. e \in Int /\ s = -e
      BY <1>1, <3>1
    <3>3. d \in Nat
      BY <1>1
    <3> HIDE DEF e
    <3>4. e = -s
      BY <3>2
    <3> QED
      BY <3>3, <3>4 DEF e
  <2> HIDE DEF d
  <2>3. x * d \in Nat
    BY <2>2
  <2>4. s = -1
    BY <1>1, <2>2, <2>3
  <2>5. d >= 1
    <3> SUFFICES ASSUME ~(d >= 1) PROVE FALSE
      OBVIOUS
    <3>1. d = 0
      BY <2>2
    <3>2. x * d = 0
      BY <3>1
    <3> QED
      BY <2>2, <2>4, <3>2
  <2>6. 1 * x <= d * x
    BY <2>2, <2>5, SmallerFactor
  <2>7. d * x = x * d /\ 1 * x = x
    BY <2>2
  <2>8. x <= 1
    BY <2>2, <2>4, <2>6, <2>7
  <2> QED
    BY <2>4, <2>8
<1> QED
  BY <1>1, <1>3, <1>4, <1>6, <1>7, <1>8, <1>9 DEF c1, c2, c3, c4

(* What is left is the greatest common divisor.                            *)
LEMMA FinalDivisor ==
  ASSUME NEW q \in Matrices, NEW s, NEW x \in Nat \ {0}, NEW y \in Nat \ {0}, NEW g \in Nat \ {0},
         Leads(q, s, x, y, g, 0)
  PROVE  GCD(x, y) = g /\ GCD(y, x) = g
<1> DEFINE c1 == q[1]  c2 == q[2]  c3 == q[3]  c4 == q[4]
<1>1. /\ c1 \in Nat /\ c2 \in Nat /\ c3 \in Nat /\ c4 \in Nat /\ s \in {1, -1}
      /\ x = c4 * g + c2 * 0 /\ y = c3 * g + c1 * 0
  BY MatrixTypes DEF Leads
<1>2. s * (c1 * x - c2 * y) = g
  BY LeadsBack
<1> HIDE DEF c1, c2, c3, c4
<1>3. x = g * c4 /\ y = g * c3
  <2> DEFINE e == c4 * g  f == c3 * g
  <2>1. e \in Nat /\ f \in Nat /\ x = e + 0 /\ y = f + 0 /\ e = g * c4 /\ f = g * c3
    BY <1>1
  <2> HIDE DEF e, f
  <2>2. x = e /\ y = f
    BY <2>1
  <2> QED
    BY <2>1, <2>2
<1>4. Divides(g, x) /\ Divides(g, y)
  <2>1. c3 \in Int /\ c4 \in Int
    BY <1>1
  <2>2. Divides(g, g * c4) /\ Divides(g, g * c3)
    BY <2>1, MultiplesDivide
  <2> QED
    BY <1>3, <2>2
<1>5. ASSUME NEW e \in Nat \ {0}, Divides(e, x), Divides(e, y) PROVE e <= g
  <2>1. PICK k \in Nat : x = e * k
    BY <1>5, DividesIs
  <2>2. PICK l \in Nat : y = e * l
    BY <1>5, DividesIs
  <2> DEFINE d == s * (c1 * k - c2 * l)
  <2>3. d \in Int /\ e * d = s * (c1 * (e * k) - c2 * (e * l))
    BY <1>1, <2>1, <2>2
  <2>4. e * d = g
    BY <1>2, <2>1, <2>2, <2>3
  <2> HIDE DEF d
  <2>5. d >= 1
    <3> SUFFICES ASSUME ~(d >= 1) PROVE FALSE
      OBVIOUS
    <3>1. d <= 0
      BY <2>3
    <3>2. d * e <= 0 * e
      BY <2>3, <3>1, SmallerFactor
    <3>3. d * e = g /\ 0 * e = 0
      BY <2>3, <2>4
    <3> QED
      BY <3>2, <3>3
  <2>6. 1 * e <= d * e
    BY <2>3, <2>5, SmallerFactor
  <2>7. 1 * e = e /\ d * e = g
    BY <2>3, <2>4
  <2> QED
    BY <2>6, <2>7
<1>6. GCD(x, y) = g
  BY <1>4, <1>5, GcdIs
<1>7. GCD(y, x) = g
  BY <1>4, <1>5, GcdIs
<1> QED
  BY <1>6, <1>7

(* A cofactor with its sign, brought into the range of the modulus.        *)
Residue(z, m) == IF z < 0 THEN m + z ELSE z

(* A cofactor of absolute value at most m, reduced the way fp256_mod_inv   *)
(* does it, is the residue of the signed cofactor.                         *)
LEMMA ResidueIs ==
  ASSUME NEW m \in Nat \ {0}, NEW s \in {1, -1}, NEW c \in Nat, c <= m, c = m => s = -1,
         NEW x \in Nat, NEW g \in Nat, NEW k \in Int, (s * c) * x - g = m * k
  PROVE  Divides(m, Residue(s * c, m) * x - g) /\ Residue(s * c, m) \in 0 .. m - 1
<1> DEFINE z == s * c
<1>1. z \in Int /\ z * x - g = m * k
  OBVIOUS
<1>2. s = 1 => z = c
  OBVIOUS
<1>3. s = -1 => z = -c
  OBVIOUS
<1> HIDE DEF z
<1>4. Residue(z, m) \in 0 .. m - 1
  BY <1>1, <1>2, <1>3 DEF Residue
<1>5. Divides(m, Residue(z, m) * x - g)
  <2>1. CASE z < 0
    <3>1. Residue(z, m) * x - g = m * (x + k)
      <4>1. Residue(z, m) = m + z
        BY <2>1 DEF Residue
      <4>2. (m + z) * x = m * x + z * x /\ m * (x + k) = m * x + m * k
        BY <1>1
      <4> DEFINE e == m * x  f == z * x  h == m * k  w == Residue(z, m) * x  d == m * (x + k)
      <4>3. e \in Int /\ f \in Int /\ h \in Int /\ f - g = h
        BY <1>1
      <4>4. w = e + f /\ d = e + h
        BY <4>1, <4>2
      <4> HIDE DEF e, f, h, w, d
      <4>5. w - g = d
        BY <4>3, <4>4
      <4> QED
        BY <4>5 DEF w, d
    <3>2. x + k \in Int
      OBVIOUS
    <3>3. Divides(m, m * (x + k))
      BY <3>2, MultiplesDivide
    <3> QED
      BY <3>1, <3>3
  <2>2. CASE ~(z < 0)
    <3>1. Residue(z, m) * x - g = m * k
      BY <1>1, <2>2 DEF Residue
    <3>2. Divides(m, m * k)
      BY MultiplesDivide
    <3> QED
      BY <3>1, <3>2
  <2> QED
    BY <2>1, <2>2
<1> QED
  BY <1>4, <1>5 DEF z

(* A number below c and one below d have a product below c * d.            *)
LEMMA ProductFits ==
  ASSUME NEW y \in Nat, NEW v \in Nat, NEW g \in Nat, g <= y, NEW c \in Nat, NEW d \in Nat,
         y < c, v < d
  PROVE  y * v + g < c * d
<1>1. y * (v + 1) <= y * d
  <2>1. v + 1 <= d /\ v + 1 \in Nat
    OBVIOUS
  <2>2. (v + 1) * y <= d * y
    BY <2>1, SmallerFactor
  <2>3. (v + 1) * y = y * (v + 1) /\ d * y = y * d
    OBVIOUS
  <2> QED
    BY <2>2, <2>3
<1>2. d > 0
  OBVIOUS
<1>3. y * d < c * d
  BY <1>2, SmallerFactor
<1>4. y * (v + 1) = y * v + y
  OBVIOUS
<1> DEFINE e == y * v  f == y * d  h == c * d
<1>5. e \in Nat /\ f \in Nat /\ h \in Nat /\ e + y <= f /\ f < h
  BY <1>1, <1>3, <1>4
<1> HIDE DEF e, f, h
<1>6. e + g < h
  BY <1>5
<1> QED
  BY <1>6 DEF e, h

(* The other cofactor comes out of its division exactly.                   *)
LEMMA OtherExact ==
  ASSUME ad \in Nat \ {0}, bd \in Nat \ {0}, nc \in Nat, NEW v \in Nat, NEW l,
         NEW g \in Nat \ {0}, g <= bd, NEW c \in Nat,
         c * ad - v * bd = Signed(nc, 1) * g,
         B^LimbCount(bd) \in Nat \ {0}, bd < B^LimbCount(bd),
         B^l \in Nat \ {0}, v < B^l
  PROVE  Other(v, l, g) = c
<1> DEFINE s == Signed(nc, g)  p == B^LimbCount(bd)  r == B^l  e == c * ad  f == bd * v
<1>1. s \in {g, -g} /\ s = Signed(nc, 1) * g
  BY SignedInt, SignedIs
<1>2. p \in Nat \ {0} /\ r \in Nat \ {0} /\ p * r \in Nat \ {0} /\ e \in Nat /\ f \in Nat
  <2>1. p \in Nat \ {0} /\ r \in Nat \ {0} /\ e \in Nat /\ f \in Nat
    OBVIOUS
  <2> HIDE DEF p, r
  <2> QED
    BY <2>1
<1>3. f + s = e
  <2>1. v * bd = f
    OBVIOUS
  <2>2. e - f = s
    BY <1>1, <2>1
  <2> HIDE DEF e, f, s
  <2> QED
    BY <1>1, <1>2, <2>2
<1>4. f + g < p * r
  <2>1. bd < p /\ v < r /\ bd \in Nat /\ g \in Nat /\ p \in Nat /\ r \in Nat
    BY <1>2
  <2> HIDE DEF p, r
  <2>2. bd * v + g < p * r
    BY <2>1, ProductFits
  <2> QED
    BY <2>2
<1>5. Other(v, l, g) = ((f + s) % (p * r)) \div ad
  BY DEF Other
<1> DEFINE h == p * r
<1>6. h \in Nat \ {0} /\ f + g < h
  BY <1>2, <1>4
<1> HIDE DEF h, s, p, r, f
<1>7. e \in 0 .. h - 1
  BY <1>1, <1>2, <1>3, <1>6
<1>8. e % h = e
  BY <1>6, <1>7, Below
<1>9. e \div ad = c
  <2>1. e = ad * c
    OBVIOUS
  <2>2. 0 \in 0 .. ad - 1 /\ c \in Int
    OBVIOUS
  <2>3. (ad * c + 0) \div ad = c
    BY <2>2, Unique
  <2>4. ad * c + 0 = e
    BY <1>2, <2>1
  <2> QED
    BY <2>3, <2>4
<1> HIDE DEF e
<1> QED
  BY <1>3, <1>5, <1>8, <1>9 DEF h

(* What a call answers.                                                    *)
LEMMA AnswerFacts ==
  ASSUME Shape, Inner, Last, ~borrowed
  PROVE  /\ res'.gcd = GCD(ad, bd)
         /\ call = "both" /\ Trusted /\ ~swap => ad * res'.sd + bd * res'.td = res'.gcd
         /\ call = "inv" /\ Trusted =>
              /\ Divides(bd, Residue(res'.sd, bd) * ad - GCD(ad, bd))
              /\ Residue(res'.sd, bd) \in 0 .. bd - 1
<1>1. PICK q \in Matrices, g \in Nat \ {0} :
           /\ Leads(q, Signed(nc, 1), Big, Small, g, 0) /\ Ordered(q)
           /\ ReduceBy(sim, tad, tbd, tal).a = g /\ ReduceBy(sim, tad, tbd, tal).b = 0
           /\ Trusted /\ extended =>
                ExtendBy(sim).v0 % B^(vl + 1) = q[2] /\ ExtendBy(sim).v1 = q[4]
  BY LastFacts
<1> DEFINE s == Signed(nc, 1)  U == q[1]  V == q[2]
<1>2. /\ ad \in Nat \ {0} /\ bd \in Nat \ {0} /\ Big \in Nat \ {0} /\ Small \in Nat \ {0}
      /\ nc \in Nat /\ nc \in {0, 1} /\ pc = "last"
  BY OperandTypes DEF Shape, Values, Last
<1>3. (swap => Big = bd /\ Small = ad) /\ (~swap => Big = ad /\ Small = bd)
  BY DEF Big, Small
<1>4. /\ U \in Nat /\ V \in Nat /\ s \in {1, -1}
      /\ U * Big - V * Small = s * g
      /\ U <= Small /\ V <= Big /\ g <= Small
      /\ U = Small => Small = 1 /\ s = 1
      /\ V = Big => Big = 1 /\ s = -1
  <2>1. Leads(q, s, Big, Small, g, 0) /\ Ordered(q)
    BY <1>1
  <2> HIDE DEF s
  <2> QED
    BY <1>2, <2>1, FinalCofactors
<1>5. GCD(ad, bd) = g
  <2>1. GCD(Big, Small) = g /\ GCD(Small, Big) = g
    BY <1>1, <1>2, FinalDivisor
  <2> QED
    BY <1>3, <2>1
<1> DEFINE v == ExtendBy(sim).v0 % B^(vl + 1)
           c == Signed(nc + 1, v)
           o == Signed(nc, Other(v, LimbCount(v), g))
<1>6. /\ res'.gcd = g
      /\ res'.sd = (IF ~extended THEN 0 ELSE IF swap THEN c ELSE o)
      /\ res'.td = (IF call # "both" THEN 0 ELSE IF swap THEN o ELSE c)
  BY <1>1 DEF Last
<1>7. ASSUME Trusted, extended
      PROVE  /\ c = (-s) * V
             /\ ~swap => o = s * U
  <2>1. v = V
    BY <1>1, <1>7
  <2>2. c = (-s) * V
    <3>1. Signed(nc + 1, V) = Signed(nc + 1, 1) * V
      <4> DEFINE n == nc + 1
      <4>1. n \in Nat /\ V \in Int
        BY <1>2, <1>4
      <4> HIDE DEF n, V
      <4>2. Signed(n, V) = Signed(n, 1) * V
        BY <4>1, SignedIs
      <4> QED
        BY <4>2 DEF n
    <3>2. Signed(nc + 1, 1) = -s
      BY <1>2, OneStep
    <3> QED
      BY <2>1, <3>1, <3>2
  <2>3. ASSUME ~swap PROVE o = s * U
    <3>1. Big = ad /\ Small = bd
      BY <1>3, <2>3
    <3>2. B^LimbCount(bd) \in Nat \ {0} /\ bd < B^LimbCount(bd)
      <4>1. bd \in Nat /\ bd < B^MaxLimbs /\ MaxLimbs \in Limits
        <5>1. Big < B^MaxLimbs /\ Small <= Big /\ bd = Small /\ MaxLimbs \in Limits
          BY <3>1, OperandTypes, Ranges
        <5> DEFINE p == B^MaxLimbs
        <5>2. p \in Nat
          BY <5>1, BasePowers
        <5> HIDE DEF p
        <5>3. bd < p
          BY <1>2, <5>1, <5>2 DEF p
        <5> QED
          BY <1>2, <5>1, <5>3 DEF p
      <4>2. LimbCount(bd) \in Limits /\ bd < B^LimbCount(bd)
        BY <4>1, CountFits
      <4> QED
        BY <4>2, BasePowers
    <3>3. B^LimbCount(V) \in Nat \ {0} /\ V < B^LimbCount(V)
      <4>1. V < B^Top /\ Top \in Limits
        <5>1. V <= Big /\ Big < B^MaxLimbs /\ Top \in Limits /\ MaxLimbs \in Limits
          BY <1>4, OperandTypes, Ranges
        <5>2. B^MaxLimbs <= B^Top
          <6>1. MaxLimbs <= Top
            BY Bases DEF Top
          <6> QED
            BY <5>1, <6>1, BaseGrows
        <5> DEFINE p == B^MaxLimbs  r == B^Top
        <5>3. p \in Nat /\ r \in Nat /\ p <= r /\ Big < p
          BY <5>1, <5>2, BasePowers
        <5> HIDE DEF p, r
        <5>4. V < r
          BY <1>2, <1>4, <5>1, <5>3
        <5> QED
          BY <5>1, <5>4 DEF r
      <4>2. LimbCount(V) \in Limits /\ V < B^LimbCount(V)
        BY <1>4, <4>1, CountFits
      <4> QED
        BY <4>2, BasePowers
    <3>4. Other(V, LimbCount(V), g) = U
      <4> DEFINE l == LimbCount(V)
      <4>1. B^l \in Nat \ {0} /\ V < B^l
        BY <3>3
      <4>2. U * ad - V * bd = Signed(nc, 1) * g /\ g <= bd
        BY <1>4, <3>1
      <4> HIDE DEF l, U, V
      <4>3. Other(V, l, g) = U
        BY <1>2, <1>4, <3>2, <4>1, <4>2, OtherExact
      <4> QED
        BY <4>3 DEF l
    <3>5. Signed(nc, U) = s * U
      <4>1. U \in Int
        BY <1>4
      <4> HIDE DEF U
      <4> QED
        BY <1>2, <4>1, SignedIs
    <3> QED
      BY <2>1, <3>4, <3>5
  <2> QED
    BY <2>2, <2>3
<1>8. call = "both" /\ Trusted /\ ~swap => ad * res'.sd + bd * res'.td = res'.gcd
  <2> SUFFICES ASSUME call = "both", Trusted, ~swap PROVE ad * res'.sd + bd * res'.td = res'.gcd
    OBVIOUS
  <2>1. extended
    BY DEF extended
  <2>2. res'.sd = s * U /\ res'.td = (-s) * V /\ res'.gcd = g
    BY <1>6, <1>7, <2>1
  <2>3. Big = ad /\ Small = bd
    BY <1>3
  <2>4. U * ad - V * bd = s * g
    BY <1>4, <2>3
  <2> HIDE DEF U, V, s
  <2>5. ad * (s * U) + bd * ((-s) * V) = s * (U * ad - V * bd)
    BY <1>2, <1>4
  <2>6. s * (s * g) = g
    BY <1>4
  <2> QED
    BY <2>2, <2>4, <2>5, <2>6
<1>9. call = "inv" /\ Trusted =>
        /\ Divides(bd, Residue(res'.sd, bd) * ad - g)
        /\ Residue(res'.sd, bd) \in 0 .. bd - 1
  <2> SUFFICES ASSUME call = "inv", Trusted
               PROVE  /\ Divides(bd, Residue(res'.sd, bd) * ad - g)
                      /\ Residue(res'.sd, bd) \in 0 .. bd - 1
    OBVIOUS
  <2>1. extended
    BY DEF extended
  <2>2. CASE swap
    <3>1. res'.sd = (-s) * V /\ Big = bd /\ Small = ad
      BY <1>3, <1>6, <1>7, <2>1, <2>2
    <3>2. ad < bd
      BY <2>2 DEF swap
    <3> HIDE DEF U, V, s
    <3> DEFINE t == -s  k == -(s * U)
    <3>3. t \in {1, -1} /\ k \in Int /\ t = -s
      BY <1>4
    <3>4. V <= bd /\ (V = bd => t = -1)
      BY <1>2, <1>4, <3>1, <3>2
    <3>5. (t * V) * ad - g = bd * k
      <4>1. U * bd - V * ad = s * g
        BY <1>4, <3>1
      <4>2. s = 1 => (t * V) * ad = -(V * ad) /\ bd * k = -(U * bd) /\ s * g = g
        BY <1>2, <1>4
      <4>3. s = -1 => (t * V) * ad = V * ad /\ bd * k = U * bd /\ s * g = -g
        BY <1>2, <1>4
      <4> DEFINE e1 == U * bd  e2 == V * ad  e3 == s * g  e4 == (t * V) * ad  e5 == bd * k
      <4>4. e1 \in Int /\ e2 \in Int /\ e1 - e2 = e3
        BY <1>2, <1>4, <4>1
      <4>5. s = 1 => e4 = -e2 /\ e5 = -e1 /\ e3 = g
        BY <4>2
      <4>6. s = -1 => e4 = e2 /\ e5 = e1 /\ e3 = -g
        BY <4>3
      <4> HIDE DEF e1, e2, e3, e4, e5
      <4>7. e4 - g = e5
        BY <1>4, <4>4, <4>5, <4>6
      <4> QED
        BY <4>7 DEF e4, e5
    <3> HIDE DEF t, k
    <3>6. ad \in Nat /\ g \in Nat
      BY <1>2
    <3>7. Divides(bd, Residue(t * V, bd) * ad - g) /\ Residue(t * V, bd) \in 0 .. bd - 1
      BY <1>2, <1>4, <3>3, <3>4, <3>5, <3>6, ResidueIs
    <3> QED
      BY <3>1, <3>7 DEF t
  <2>3. CASE ~swap
    <3>1. res'.sd = s * U /\ Big = ad /\ Small = bd
      BY <1>3, <1>6, <1>7, <2>1, <2>3
    <3>2. bd = 1 => s = -1
      <4> SUFFICES ASSUME bd = 1 PROVE s = -1
        OBVIOUS
      <4>1. nc = 1
        BY <1>2, <3>1 DEF Inner, Work, Units
      <4>2. 0 \in Nat
        OBVIOUS
      <4> QED
        BY <4>1, <4>2, OneStep
    <3> HIDE DEF U, V, s
    <3> DEFINE k == s * V
    <3>3. k \in Int
      BY <1>4
    <3>4. U <= bd /\ (U = bd => s = -1)
      BY <1>2, <1>4, <3>1, <3>2
    <3>5. (s * U) * ad - g = bd * k
      <4>1. U * ad - V * bd = s * g
        BY <1>4, <3>1
      <4>2. s = 1 => (s * U) * ad = U * ad /\ bd * k = V * bd /\ s * g = g
        BY <1>2, <1>4
      <4>3. s = -1 => (s * U) * ad = -(U * ad) /\ bd * k = -(V * bd) /\ s * g = -g
        BY <1>2, <1>4
      <4> DEFINE e1 == U * ad  e2 == V * bd  e3 == s * g  e4 == (s * U) * ad  e5 == bd * k
      <4>4. e1 \in Int /\ e2 \in Int /\ e1 - e2 = e3
        BY <1>2, <1>4, <4>1
      <4>5. s = 1 => e4 = e1 /\ e5 = e2 /\ e3 = g
        BY <4>2
      <4>6. s = -1 => e4 = -e1 /\ e5 = -e2 /\ e3 = -g
        BY <4>3
      <4> HIDE DEF e1, e2, e3, e4, e5
      <4>7. e4 - g = e5
        BY <1>4, <4>4, <4>5, <4>6
      <4> QED
        BY <4>7 DEF e4, e5
    <3> HIDE DEF k
    <3>6. ad \in Nat /\ g \in Nat
      BY <1>2
    <3>7. Divides(bd, Residue(s * U, bd) * ad - g) /\ Residue(s * U, bd) \in 0 .. bd - 1
      BY <1>2, <1>4, <3>3, <3>4, <3>5, <3>6, ResidueIs
    <3> QED
      BY <3>1, <3>7
  <2> QED
    BY <2>2, <2>3
<1> QED
  BY <1>5, <1>6, <1>8, <1>9

(* What the defects leave alone: whatever was not met before this step.    *)
LEMMA DefectsStay ==
  ASSUME Next \/ UNCHANGED vars
  PROVE  (~borrowed' => ~borrowed) /\ (Trusted' => Trusted /\ ~borrowed')
<1>1. /\ borrowed => borrowed'
      /\ lost => lost'
  <2>1. CASE StartSimulation
    BY <2>1 DEF StartSimulation, history
  <2>2. CASE Phase1Divide
    BY <2>2 DEF Phase1Divide, Simulate
  <2>3. CASE Phase1Subtract
    BY <2>3 DEF Phase1Subtract, Simulate
  <2>4. CASE Narrow
    BY <2>4 DEF Narrow, history
  <2>5. CASE Phase2Divide
    BY <2>5 DEF Phase2Divide, Simulate
  <2>6. CASE Phase2Subtract
    BY <2>6 DEF Phase2Subtract, Simulate
  <2>7. CASE Update
    BY <2>7 DEF Update
  <2>8. CASE EuclidStep
    BY <2>8 DEF EuclidStep
  <2>9. CASE StartWord
    BY <2>9 DEF StartWord, history
  <2>10. CASE WordDivide
    BY <2>10 DEF WordDivide, history
  <2>11. CASE WordDone \/ NoWord
    BY <2>11 DEF WordDone, NoWord, history
  <2>12. CASE Last
    BY <2>12 DEF Last, history
  <2>13. CASE Overrun
    BY <2>13 DEF Overrun, history
  <2>14. CASE Done \/ UNCHANGED vars
    BY <2>14 DEF Done, vars
  <2> QED
    BY <2>1, <2>2, <2>3, <2>4, <2>5, <2>6, <2>7, <2>8, <2>9, <2>10, <2>11, <2>12, <2>13, <2>14
       DEF Next, Step
<1> QED
  BY <1>1 DEF Trusted

(* Every step keeps Inner, unless it borrows.                              *)
LEMMA StepInner ==
  ASSUME Shape, Shape', Inner, Next \/ UNCHANGED vars, ~borrowed, ~borrowed'
  PROVE  Inner'
<1>1. CASE StartSimulation
  BY <1>1, StartSimulationInner
<1>2. CASE Phase1Divide \/ Phase1Subtract
  BY <1>2, Phase1Inner
<1>3. CASE Narrow
  BY <1>3, NarrowInner
<1>4. CASE Phase2Divide \/ Phase2Subtract
  BY <1>4, Phase2Inner
<1>5. CASE Update
  BY <1>5, UpdateInner
<1>6. CASE EuclidStep
  BY <1>6, EuclidStepInner
<1>7. CASE StartWord
  BY <1>7, StartWordInner
<1>8. CASE WordDivide
  BY <1>8, WordDivideInner
<1>9. CASE WordDone
  BY <1>9, WordDoneInner
<1>10. CASE NoWord
  BY <1>10, NoWordInner
<1>11. CASE Last
  BY <1>11, LastInner
<1>12. CASE Overrun
  <2>1. pc' = "overrun"
    BY <1>12 DEF Overrun
  <2> QED
    BY <2>1 DEF Inner, Work
<1>13. CASE Done \/ UNCHANGED vars
  <2>1. UNCHANGED vars
    BY <1>13 DEF Done
  <2>2. /\ call' = call /\ ad' = ad /\ bd' = bd /\ tad' = tad /\ tbd' = tbd /\ tal' = tal
        /\ tbl' = tbl /\ v0' = v0 /\ v1' = v1 /\ vl' = vl /\ nc' = nc /\ sim' = sim /\ pc' = pc
        /\ borrowed' = borrowed /\ lost' = lost
    BY <2>1 DEF vars
  <2>3. Still
    BY <2>2 DEF Still
  <2>4. Sign' = Sign
    BY <2>2 DEF Sign
  <2>5. /\ Small' = Small /\ (Sizes => Sizes') /\ (Linked => Linked')
        /\ Leading(tad)' = Leading(tad) /\ Leading(tbd)' = Leading(tbd)
    BY <2>3, <2>4, StillKeeps
  <2>6. Stages => Stages'
    BY <2>2, <2>5 DEF Stages, Simulating
  <2>7. Units => Units'
    BY <2>2, <2>5 DEF Units
  <2> QED
    BY <2>2, <2>5, <2>6, <2>7 DEF Inner
<1> QED
  BY <1>1, <1>2, <1>3, <1>4, <1>5, <1>6, <1>7, <1>8, <1>9, <1>10, <1>11, <1>12, <1>13
     DEF Next, Step

(* A call answers in its last step only.                                   *)
LEMMA AnswersLast ==
  ASSUME Next \/ UNCHANGED vars, pc' = "done"
  PROVE  Last \/ UNCHANGED vars
<1>1. CASE Done \/ UNCHANGED vars
  BY <1>1 DEF Done
<1>2. CASE Step
  BY <1>2 DEF Step, StartSimulation, Phase1Divide, Phase1Subtract, Simulate, Narrow,
              Phase2Divide, Phase2Subtract, Update, EuclidStep, StartWord, WordDivide,
              WordDone, NoWord, Overrun
<1> QED
  BY <1>1, <1>2 DEF Next

Answered == GcdUnlessBorrowed /\ InverseTimesNumber /\ IdentityUnlessSwapped

(* The results are right when they are stored and stay as they are.        *)
LEMMA StepAnswered ==
  ASSUME Shape, ~borrowed => Inner, Answered, Next \/ UNCHANGED vars
  PROVE  Answered'
<1>1. CASE pc' # "done"
  BY <1>1 DEF Answered, GcdUnlessBorrowed, InverseTimesNumber, IdentityUnlessSwapped
<1>2. CASE UNCHANGED vars
  <2>1. /\ call' = call /\ ad' = ad /\ bd' = bd /\ res' = res /\ pc' = pc
        /\ borrowed' = borrowed /\ lost' = lost
    BY <1>2 DEF vars
  <2>2. GcdUnlessBorrowed'
    BY <2>1 DEF Answered, GcdUnlessBorrowed, Gcd, GCD, Divides
  <2>3. InverseTimesNumber'
    BY <2>1 DEF Answered, InverseTimesNumber, InverseIsExact, Inverse, Trusted, GCD, Divides
  <2>4. IdentityUnlessSwapped'
    BY <2>1 DEF Answered, IdentityUnlessSwapped, IdentityIsExact, Gcd, Trusted, swap
  <2> QED
    BY <2>2, <2>3, <2>4 DEF Answered
<1>3. CASE Last
  <2>1. call' = call /\ ad' = ad /\ bd' = bd /\ borrowed' = borrowed /\ lost' = lost
    BY <1>3 DEF Last, operands, history
  <2>2. ~borrowed => /\ res'.gcd = GCD(ad, bd)
                     /\ call = "both" /\ Trusted /\ ~swap => ad * res'.sd + bd * res'.td = res'.gcd
                     /\ call = "inv" /\ Trusted =>
                          /\ Divides(bd, Residue(res'.sd, bd) * ad - GCD(ad, bd))
                          /\ Residue(res'.sd, bd) \in 0 .. bd - 1
    BY <1>3, AnswerFacts
  <2>3. GcdUnlessBorrowed'
    BY <2>1, <2>2 DEF GcdUnlessBorrowed, Gcd
  <2>4. InverseTimesNumber'
    <3>1. (Trusted' <=> Trusted) /\ Inverse' = Residue(res'.sd, bd)
      BY <2>1 DEF Trusted, Inverse, Residue
    <3>2. Trusted => ~borrowed
      BY DEF Trusted
    <3> QED
      BY <2>1, <2>2, <3>1, <3>2 DEF InverseTimesNumber, InverseIsExact
  <2>5. IdentityUnlessSwapped'
    <3>1. (Trusted' <=> Trusted) /\ (swap' <=> swap) /\ (Trusted => ~borrowed)
      BY <2>1 DEF Trusted, swap
    <3> QED
      BY <2>1, <2>2, <3>1 DEF IdentityUnlessSwapped, IdentityIsExact, Gcd
  <2> QED
    BY <2>3, <2>4, <2>5 DEF Answered
<1> QED
  BY <1>1, <1>2, <1>3, AnswersLast

(* The strengthening.                                                      *)
LehmerIInv ==
  /\ Shape
  /\ ~borrowed => Inner
  /\ Trusted => pc # "overrun"
  /\ Answered

(* LehmerIInv is inductive relative to Shape.                              *)
LEMMA LehmerInductive ==
  ASSUME LehmerIInv, Shape', Next \/ UNCHANGED vars
  PROVE  LehmerIInv'
<1>1. (~borrowed' => ~borrowed) /\ (Trusted' => Trusted /\ ~borrowed')
  BY DefectsStay
<1>2. ~borrowed' => Inner'
  BY <1>1, StepInner DEF LehmerIInv
<1>3. Answered'
  BY StepAnswered DEF LehmerIInv
<1>4. Trusted' => pc' # "overrun"
  <2> SUFFICES ASSUME Trusted', pc' = "overrun" PROVE FALSE
    OBVIOUS
  <2>1. Trusted /\ Inner /\ pc # "overrun" /\ Shape
    BY <1>1 DEF LehmerIInv
  <2>2. Overrun
    <3>1. CASE Done \/ UNCHANGED vars
      BY <2>1, <3>1 DEF Done, vars
    <3>2. CASE Step
      BY <2>1, <3>2 DEF Step, StartSimulation, Phase1Divide, Phase1Subtract, Simulate, Narrow,
              Phase2Divide, Phase2Subtract, Update, EuclidStep, StartWord, WordDivide,
              WordDone, NoWord, Last
    <3> QED
      BY <3>1, <3>2 DEF Next
  <2> QED
    BY <2>1, <2>2, NoOverrun
<1> QED
  BY <1>2, <1>3, <1>4 DEF LehmerIInv

(* LehmerIInv holds from the first state on.                               *)
LEMMA LehmerInvariant == Spec => []LehmerIInv
<1>1. Init => LehmerIInv
  <2> SUFFICES ASSUME Init PROVE LehmerIInv
    OBVIOUS
  <2>1. pc = "loop" /\ Shape /\ Inner
    BY InitShape, InitInner DEF Init
  <2> QED
    BY <2>1 DEF LehmerIInv, Answered, GcdUnlessBorrowed, InverseTimesNumber, IdentityUnlessSwapped
<1>2. LehmerIInv /\ Shape' /\ [Next]_vars => LehmerIInv'
  BY LehmerInductive
<1>3. Spec => []Shape
  BY ShapeInvariant
<1> QED
  BY <1>1, <1>2, <1>3, PTL DEF Spec

(* GcdUnlessBorrowed: what ll_lehmer_exgcd stores is the greatest common   *)
(* divisor, for all operands, in every call in which no subtraction of     *)
(* phase two borrowed; the lost limb of a cofactor does not matter for it. *)
THEOREM LehmerDivisor == Spec => []GcdUnlessBorrowed
<1>1. LehmerIInv => GcdUnlessBorrowed
  BY DEF LehmerIInv, Answered
<1> QED
  BY <1>1, LehmerInvariant, PTL

(* InverseTimesNumber: what fp256_mod_inv returns is below the modulus     *)
(* and, times the number, congruent to the divisor, for all operands in    *)
(* either order, as long as neither defect has been met.                   *)
THEOREM LehmerInverse == Spec => []InverseTimesNumber
<1>1. LehmerIInv => InverseTimesNumber
  BY DEF LehmerIInv, Answered
<1> QED
  BY <1>1, LehmerInvariant, PTL

(* IdentityUnlessSwapped: the two cofactors of ll_lehmer_exgcd satisfy gcd *)
(* = ad * sd + bd * td if ad is not the smaller operand and neither defect *)
(* has been met.                                                           *)
THEOREM LehmerIdentity == Spec => []IdentityUnlessSwapped
<1>1. LehmerIInv => IdentityUnlessSwapped
  BY DEF LehmerIInv, Answered
<1> QED
  BY <1>1, LehmerInvariant, PTL

(* ScratchSuffices: as long as no subtraction has borrowed and every limb  *)
(* of a cofactor was counted, ll_lehmer_exgcd makes no access past a       *)
(* scratch array of l + 2 limbs, and the two cofactors are those of the    *)
(* two remainders.                                                         *)
THEOREM LehmerScratch == Spec => []ScratchSuffices
<1>1. LehmerIInv => ScratchSuffices
  <2> SUFFICES ASSUME LehmerIInv, Trusted PROVE pc # "overrun" /\ Promise!CofactorsFit
    BY DEF ScratchSuffices
  <2>1. pc # "overrun" /\ Inner /\ Shape
    BY DEF LehmerIInv, Trusted
  <2>2. PICK q \in Matrices : /\ Leads(q, Sign, Big, Small, tad, tbd)
                              /\ Trusted /\ extended => v0 = q[2] /\ v1 = q[4]
    BY <2>1 DEF Inner, Linked
  <2>3. extended => tad * v1 + tbd * v0 = Big
    <3> SUFFICES ASSUME extended PROVE tad * v1 + tbd * v0 = Big
      OBVIOUS
    <3>1. Big = v1 * tad + v0 * tbd
      BY <2>2 DEF Leads
    <3>2. v0 \in Nat /\ v1 \in Nat /\ tad \in Nat /\ tbd \in Nat
      BY <2>1 DEF Shape, Values
    <3>3. v1 * tad = tad * v1 /\ v0 * tbd = tbd * v0
      BY <3>2
    <3> QED
      BY <3>1, <3>3
  <2> QED
    BY <2>1, <2>3 DEF Promise!CofactorsFit
<1> QED
  BY <1>1, LehmerInvariant, PTL

(* Every matrix that is collected is unimodular.                           *)
LEMMA CollectedUnimodular ==
  ASSUME NEW s \in Sims, NEW x, NEW y,
         FirstPhase(s, x, y) \/ SecondPhase(s, x, y) \/ Stopped(s, x, y) \/ OnLimbs(s, x, y)
  PROVE  Promise!Unimodular(s.m)
<1>1. s.m = Identity \/ \E u, z : Remains(s.m, s.n, x, y, u, z)
  BY DEF FirstPhase, SecondPhase, Stopped, OnLimbs
<1>2. s.m \in Entries /\ s.n \in Nat /\ s.m \in Promise!Matrices
  BY DEF Sims, Entries, LimbValues, Promise!Matrices
<1>3. CASE s.m = Identity
  <2>1. Promise!Det(s.m) = 1
    <3>1. s.m[1] = 1 /\ s.m[2] = 0 /\ s.m[3] = 0 /\ s.m[4] = 1
      BY <1>3 DEF Identity
    <3> QED
      BY <3>1 DEF Promise!Det
  <2> QED
    BY <1>2, <2>1 DEF Promise!Unimodular
<1>4. CASE \E u, z : Remains(s.m, s.n, x, y, u, z)
  <2>1. s.m[1] * s.m[4] - s.m[2] * s.m[3] = Signed(s.n, 1)
    BY <1>4 DEF Remains
  <2>2. Promise!Det(s.m) \in {1, -1}
    BY <1>2, <2>1, OneStep DEF Promise!Det
  <2> QED
    BY <1>2, <2>2 DEF Promise!Unimodular
<1> QED
  BY <1>1, <1>3, <1>4

(* The variables of the promise.                                           *)
PromiseVars == <<Big, Small, tad, tbd, v0, v1, Sign, sim.m, extended, Trusted>>

(* No call is a call of Euclid that has not begun.                         *)
LEMMA PromiseBegins == Init => Promise!Init
<1> SUFFICES ASSUME Init PROVE Promise!Init
  OBVIOUS
<1>1. Shape
  BY InitShape
<1>2. /\ tad = Big /\ tbd = Small /\ v0 = 0 /\ v1 = 1 /\ nc = 0 /\ sim.m = Identity /\ pc = "loop"
      /\ borrowed = FALSE /\ lost = FALSE
  BY DEF Init, Start, Big, Small, swap
<1>3. Big \in Nat \ {0} /\ Small \in Nat \ {0}
  BY <1>1, OperandTypes
<1>4. Sign = 1
  <2>1. 0 \in Nat
    OBVIOUS
  <2>2. Sign = Signed(0, 1)
    BY <1>2 DEF Sign
  <2> QED
    BY <2>1, <2>2, OneStep
<1>5. Trusted = TRUE /\ extended \in BOOLEAN
  BY <1>2 DEF Trusted, extended
<1>6. Signed(IF pc = "last" THEN nc + sim.n ELSE nc, 1) = 1
  BY <1>4 DEF Sign
<1> QED
  BY <1>2, <1>3, <1>5, <1>6 DEF Promise!Init, Identity

(* A step that collects.                                                   *)
LEMMA StillCollects ==
  ASSUME Still, ~borrowed, ~borrowed', Sign' = Sign, Promise!Unimodular(sim.m)'
  PROVE  Promise!Collect
<1>1. Big' = Big /\ Small' = Small /\ extended' = extended /\ Trusted' = Trusted
  BY StillKeeps
<1>2. tad' = tad /\ tbd' = tbd /\ v0' = v0 /\ v1' = v1
  BY DEF Still
<1>3. UNCHANGED Signed(IF pc = "last" THEN nc + sim.n ELSE nc, 1)
  BY DEF Sign
<1> QED
  BY <1>1, <1>2, <1>3 DEF Promise!Collect

(* The update after a simulation is Apply of Euclid, with the collected    *)
(* matrix.                                                                 *)
LEMMA UpdateApplies ==
  ASSUME Shape, Inner, Update, Trusted, Trusted', ~borrowed, ~borrowed'
  PROVE  Promise!Apply
<1>1. /\ pc = "simulated" /\ sim.n > 0 /\ pc' = "loop" /\ sim' = sim
      /\ call' = call /\ ad' = ad /\ bd' = bd
      /\ tad' = ReduceBy(sim, tad, tbd, tal).a /\ tbd' = ReduceBy(sim, tad, tbd, tal).b
      /\ ~extended => v0' = v0 /\ v1' = v1
  BY DEF Update, operands, cofactors
<1>2. Big' = Big /\ Small' = Small /\ (extended' <=> extended)
  BY <1>1, OperandsKept
<1>3. PICK u \in Nat \ {0}, z \in Nat \ {0} :
           /\ ReduceBy(sim, tad, tbd, tal).a = u /\ ReduceBy(sim, tad, tbd, tal).b = z
           /\ Leads(sim.m, Signed(sim.n, 1), tad, tbd, u, z)
  BY <1>1, UpdateRemainders
<1>4. Promise!Det(sim.m) = Signed(sim.n, 1)
  BY <1>3 DEF Leads, Promise!Det
<1>5. /\ tad' = Promise!Det(sim.m) * (sim.m[1] * tad - sim.m[2] * tbd)
      /\ tbd' = Promise!Det(sim.m) * (sim.m[4] * tbd - sim.m[3] * tad)
      /\ tad' \in Nat /\ tbd' \in Nat
  BY <1>1, <1>3, <1>4, LeadsBack
<1>6. extended => v0' = sim.m[1] * v0 + sim.m[2] * v1 /\ v1' = sim.m[3] * v0 + sim.m[4] * v1
  BY <1>2, UpdateFacts
<1>7. Sign' = Promise!Det(sim.m) * Sign
  <2> DEFINE d == Promise!Det(sim.m)  s == Sign
  <2>1. Sign' = s * d
    BY <1>4, UpdateFacts
  <2>2. d \in Int /\ s \in Int
    <3>1. d \in {1, -1}
      BY <1>3, <1>4 DEF Leads
    <3>2. Linked
      BY <1>1 DEF Inner, Work
    <3>3. s \in {1, -1}
      BY <3>2 DEF Linked, Leads
    <3> QED
      BY <3>1, <3>3
  <2> HIDE DEF d, s
  <2>3. s * d = d * s
    BY <2>2
  <2> QED
    BY <2>1, <2>3 DEF d, s
<1>8. extended' = extended /\ Trusted' = Trusted
  BY <1>2 DEF extended, Trusted
<1> QED
  BY <1>1, <1>2, <1>5, <1>6, <1>7, <1>8 DEF Promise!Apply, Sign

(* The last update is Apply of Euclid.                                     *)
LEMMA LastApplies ==
  ASSUME Shape, Inner, Last, Trusted, ~borrowed
  PROVE  Promise!Apply
<1>1. /\ pc = "last" /\ pc' = "done" /\ sim' = sim /\ nc' = nc
      /\ call' = call /\ ad' = ad /\ bd' = bd /\ borrowed' = borrowed /\ lost' = lost
      /\ tad' = ReduceBy(sim, tad, tbd, tal).a /\ tbd' = ReduceBy(sim, tad, tbd, tal).b
      /\ ~extended => v0' = v0 /\ v1' = v1
      /\ extended => v0' = ExtendBy(sim).v0 % B^(vl + 1) /\ v1' = ExtendBy(sim).v1
  BY DEF Last, operands, cofactors, history
<1>2. Big' = Big /\ Small' = Small /\ (extended' <=> extended) /\ Trusted' = Trusted
  BY <1>1, OperandsKept DEF Trusted
<1>3. PICK q \in Matrices, g \in Nat \ {0} :
           /\ ReduceBy(sim, tad, tbd, tal).a = g /\ ReduceBy(sim, tad, tbd, tal).b = 0
           /\ Trusted /\ extended =>
                ExtendBy(sim).v0 % B^(vl + 1) = q[2] /\ ExtendBy(sim).v1 = q[4]
           /\ Leads(sim.m, Signed(sim.n, 1), tad, tbd, g, 0)
           /\ Trusted /\ extended => /\ q[2] = sim.m[1] * v0 + sim.m[2] * v1
                                     /\ q[4] = sim.m[3] * v0 + sim.m[4] * v1
           /\ Sign * Signed(sim.n, 1) = Signed(nc, 1)
  BY LastFacts
<1>4. Promise!Det(sim.m) = Signed(sim.n, 1)
  BY <1>3 DEF Leads, Promise!Det
<1>5. /\ tad' = Promise!Det(sim.m) * (sim.m[1] * tad - sim.m[2] * tbd)
      /\ tbd' = Promise!Det(sim.m) * (sim.m[4] * tbd - sim.m[3] * tad)
      /\ tad' \in Nat /\ tbd' \in Nat
  BY <1>1, <1>3, <1>4, LeadsBack
<1>6. extended => v0' = sim.m[1] * v0 + sim.m[2] * v1 /\ v1' = sim.m[3] * v0 + sim.m[4] * v1
  BY <1>1, <1>3
<1>7. Sign' = Promise!Det(sim.m) * Sign
  <2> DEFINE d == Promise!Det(sim.m)  s == Sign
  <2>1. Sign' = s * d
    <3>1. Sign' = Signed(nc, 1)
      BY <1>1 DEF Sign
    <3> QED
      BY <1>3, <1>4, <3>1
  <2>2. d \in Int /\ s \in Int
    <3>1. d \in {1, -1}
      BY <1>3, <1>4 DEF Leads
    <3>2. Linked
      BY <1>1 DEF Inner, Work
    <3>3. s \in {1, -1}
      BY <3>2 DEF Linked, Leads
    <3> QED
      BY <3>1, <3>3
  <2> HIDE DEF d, s
  <2>3. s * d = d * s
    BY <2>2
  <2> QED
    BY <2>1, <2>3 DEF d, s
<1>8. extended' = extended
  BY <1>2 DEF extended
<1> QED
  BY <1>1, <1>2, <1>5, <1>6, <1>7, <1>8 DEF Promise!Apply, Sign

(* The division of whole operands is Divide of Euclid.                     *)
LEMMA EuclidStepDivides ==
  ASSUME Shape, Inner, EuclidStep, Trusted, Trusted', ~borrowed, ~borrowed'
  PROVE  Promise!Divide
<1>1. /\ call' = call /\ ad' = ad /\ bd' = bd /\ sim' = sim
      /\ tad' = tbd /\ tbd' = tad % tbd
      /\ ~extended => v0' = v0 /\ v1' = v1
  BY DEF EuclidStep, operands, cofactors
<1>2. Big' = Big /\ Small' = Small /\ (extended' <=> extended)
  BY <1>1, OperandsKept
<1>3. tbd # 0 /\ Sign' = Sign * (-1)
      /\ (extended => v0' = v1 /\ v1' = v0 + v1 * (tad \div tbd))
  BY <1>2, EuclidStepFacts
<1>4. tbd > 0
  BY <1>3 DEF Shape, Values
<1>5. Sign' = -Sign
  <2>1. Sign \in {1, -1}
    <3>1. Linked
      BY DEF EuclidStep, Inner, Work
    <3> QED
      BY <3>1 DEF Linked, Leads
  <2> DEFINE s == Sign
  <2>2. s \in {1, -1} /\ Sign' = s * (-1)
    BY <1>3, <2>1
  <2> HIDE DEF s
  <2>3. s * (-1) = -s
    BY <2>2
  <2> QED
    BY <2>2, <2>3 DEF s
<1>6. extended' = extended /\ Trusted' = Trusted
  BY <1>2 DEF extended, Trusted
<1> QED
  BY <1>1, <1>2, <1>3, <1>4, <1>5, <1>6 DEF Promise!Divide, Sign

(* Every step is a step of Euclid or leaves its variables alone.           *)
LEMMA PromiseStep ==
  ASSUME LehmerIInv, LehmerIInv', Next \/ UNCHANGED vars
  PROVE  Promise!Next \/ UNCHANGED Promise!vars
<1>1. (~borrowed' => ~borrowed) /\ (Trusted' => Trusted /\ ~borrowed')
  BY DefectsStay
<1>2. CASE ~Trusted'
  <2>1. Trusted' = FALSE
    BY <1>2 DEF Trusted
  <2> QED
    BY <2>1 DEF Promise!Next, Promise!Lose
<1>3. CASE Trusted'
  <2>1. /\ Trusted /\ ~borrowed /\ ~borrowed' /\ Shape /\ Inner /\ Shape' /\ Inner'
        /\ pc' # "overrun"
    BY <1>1, <1>3 DEF LehmerIInv
  <2>2. sim' \in Sims
    BY <2>1 DEF Shape, Values
  <2>3. pc' \in {"phase1", "phase2", "simulated", "limbs"} => Promise!Unimodular(sim.m)'
    <3>1. ASSUME pc' \in {"phase1", "phase2", "simulated", "limbs"}
          PROVE  \E x, y : \/ FirstPhase(sim', x, y) \/ SecondPhase(sim', x, y)
                           \/ Stopped(sim', x, y) \/ OnLimbs(sim', x, y)
      BY <2>1, <3>1 DEF Inner, Work, Stages
    <3> SUFFICES ASSUME pc' \in {"phase1", "phase2", "simulated", "limbs"}
                 PROVE  Promise!Unimodular(sim'.m)
      BY DEF Promise!Unimodular, Promise!Det, Promise!Matrices
    <3> QED
      BY <2>2, <3>1, CollectedUnimodular
  <2>4. CASE StartSimulation \/ Phase1Divide \/ Phase1Subtract \/ Narrow
             \/ Phase2Divide \/ Phase2Subtract \/ StartWord \/ WordDivide
    <3>1. Still /\ nc' = nc /\ pc # "last" /\ pc' \in {"phase1", "phase2", "simulated", "limbs"}
      BY <2>4 DEF StartSimulation, Phase1Divide, Phase1Subtract, Narrow, Phase2Divide,
                  Phase2Subtract, StartWord, WordDivide, Simulate, Still, operands, remainders,
                  cofactors, history
    <3>2. Sign' = Sign
      BY <3>1 DEF Sign
    <3>3. Promise!Collect
      BY <2>1, <2>3, <3>1, <3>2, StillCollects
    <3> QED
      BY <2>1, <3>3 DEF Promise!Next
  <2>5. CASE Update
    <3>1. Promise!Apply
      BY <1>3, <2>1, <2>5, UpdateApplies
    <3> QED
      BY <2>1, <3>1 DEF Promise!Next
  <2>6. CASE EuclidStep
    <3>1. Promise!Divide
      BY <1>3, <2>1, <2>6, EuclidStepDivides
    <3> QED
      BY <2>1, <3>1 DEF Promise!Next
  <2>7. CASE Last
    <3>1. Promise!Apply
      BY <2>1, <2>7, LastApplies
    <3> QED
      BY <2>1, <3>1 DEF Promise!Next
  <2>8. CASE WordDone \/ NoWord
    <3>1. Still /\ sim' = sim
      BY <2>8 DEF WordDone, NoWord, operands, remainders, cofactors, history, Still
    <3>2. Sign' = Sign
      <4>1. CASE WordDone
        BY <2>1, <4>1, WordDoneSign
      <4>2. CASE NoWord
        BY <2>1, <4>2, NoWordFacts
      <4> QED
        BY <2>8, <4>1, <4>2
    <3>3. Big' = Big /\ Small' = Small /\ extended' = extended /\ Trusted' = Trusted
      BY <2>1, <3>1, StillKeeps
    <3>4. PromiseVars' = PromiseVars
      BY <3>1, <3>2, <3>3 DEF PromiseVars, Still
    <3> QED
      BY <3>1, <3>2, <3>3 DEF Still, Sign, Promise!vars
  <2>9. CASE Overrun
    BY <2>1, <2>9 DEF Overrun
  <2>10. CASE Done \/ UNCHANGED vars
    <3>1. UNCHANGED vars
      BY <2>10 DEF Done
    <3> QED
      BY <3>1 DEF vars, Promise!vars, Big, Small, swap, extended, Trusted
  <2> QED
    BY <2>4, <2>5, <2>6, <2>7, <2>8, <2>9, <2>10 DEF Next, Step
<1> QED
  BY <1>2, <1>3

(* ImplementsEuclid: ll_lehmer_exgcd implements Euclid with unimodular     *)
(* matrices: a simulation on the leading limbs, its update, the divisions  *)
(* of whole operands and the loop on limbs are divisions and matrices that *)
(* leave the greatest common divisor and the cofactors in agreement.       *)
THEOREM LehmerRefines == Spec => ImplementsEuclid
<1>1. LehmerIInv /\ LehmerIInv' /\ [Next]_vars => [Promise!Next]_Promise!vars
  BY PromiseStep
<1> QED
  BY <1>1, PromiseBegins, LehmerInvariant, PTL DEF Spec, ImplementsEuclid, Promise!Spec

------------------------------------------------------------------------------
(* The variables of Euclid.                                                *)
VARIABLES big, small, a, b, sign, m, track, trusted

Abstract == INSTANCE Euclid

(* A common divisor of two numbers divides every combination of them.      *)
LEMMA DividesCombination ==
  ASSUME NEW d \in Int, NEW x \in Int, NEW y \in Int, NEW p \in Int, NEW q \in Int,
         Abstract!Divides(d, x), Abstract!Divides(d, y)
  PROVE  Abstract!Divides(d, p * x + q * y)
<1>1. PICK n \in Int : x = n * d
  BY DEF Abstract!Divides
<1>2. PICK l \in Int : y = l * d
  BY DEF Abstract!Divides
<1>3. p * (n * d) = (p * n) * d /\ q * (l * d) = (q * l) * d
  OBVIOUS
<1>4. (p * n) * d + (q * l) * d = (p * n + q * l) * d
  OBVIOUS
<1>5. p * n + q * l \in Int
  OBVIOUS
<1>6. p * x + q * y = (p * n + q * l) * d
  BY <1>1, <1>2, <1>3, <1>4
<1> QED
  BY <1>5, <1>6 DEF Abstract!Divides

(* ... and the remainder of one by the other.                              *)
LEMMA DividesRemainder ==
  ASSUME NEW d \in Int, NEW x \in Int, NEW y \in Int, NEW q \in Int,
         Abstract!Divides(d, x), Abstract!Divides(d, y)
  PROVE  Abstract!Divides(d, x - q * y) /\ Abstract!Divides(d, q * y + x)
<1>1. PICK n \in Int : x = n * d
  BY DEF Abstract!Divides
<1>2. PICK l \in Int : y = l * d
  BY DEF Abstract!Divides
<1>3. q * (l * d) = (q * l) * d
  OBVIOUS
<1>4. n * d - (q * l) * d = (n - q * l) * d /\ (q * l) * d + n * d = (q * l + n) * d
  OBVIOUS
<1>5. n - q * l \in Int /\ q * l + n \in Int
  OBVIOUS
<1>6. x - q * y = (n - q * l) * d /\ q * y + x = (q * l + n) * d
  BY <1>1, <1>2, <1>3, <1>4
<1> QED
  BY <1>5, <1>6 DEF Abstract!Divides

------------------------------------------------------------------------------
(* The matrix keeps the sum of remainders times cofactors.                 *)
LEMMA ApplyKeepsSum ==
  ASSUME NEW p \in Int, NEW q \in Int, NEW r \in Int, NEW t \in Int,
         NEW x \in Int, NEW y \in Int, NEW u \in Int, NEW z \in Int,
         NEW s \in Int, s = p * t - q * r, s * s = 1,
         NEW x1, x1 = s * (p * x - q * y), NEW y1, y1 = s * (t * y - r * x),
         NEW u1, u1 = p * u + q * z, NEW w1, w1 = r * u + t * z
  PROVE  x1 * w1 + y1 * u1 = x * z + y * u
<1>1. (p * x - q * y) * (r * u + t * z) + (t * y - r * x) * (p * u + q * z)
        = (p * t - q * r) * (x * z + y * u)
  OBVIOUS
<1>2. (p * x - q * y) * (r * u + t * z) + (t * y - r * x) * (p * u + q * z)
        = s * (x * z + y * u)
  BY <1>1
<1> DEFINE X == p * x - q * y
           Y == t * y - r * x
           U == r * u + t * z
           V == p * u + q * z
           Z == x * z + y * u
<1>3. X \in Int /\ Y \in Int /\ U \in Int /\ V \in Int /\ Z \in Int
  OBVIOUS
<1>4. X * U + Y * V = s * Z
  BY <1>2
<1> HIDE DEF X, Y, U, V, Z
<1>5. (s * X) * U + (s * Y) * V = s * (X * U + Y * V)
  BY <1>3
<1>6. s * (s * Z) = (s * s) * Z
  BY <1>3
<1>7. (s * X) * U + (s * Y) * V = Z
  BY <1>3, <1>4, <1>5, <1>6
<1> QED
  BY <1>7 DEF X, Y, U, V, Z

(* Its inverse is made of its own entries: the old remainders are          *)
(* combinations of the new ones.                                           *)
LEMMA ApplyIsInvertible ==
  ASSUME NEW p \in Int, NEW q \in Int, NEW r \in Int, NEW t \in Int,
         NEW x \in Int, NEW y \in Int,
         NEW s \in Int, s = p * t - q * r, s * s = 1
  PROVE  /\ x = t * (s * (p * x - q * y)) + q * (s * (t * y - r * x))
         /\ y = r * (s * (p * x - q * y)) + p * (s * (t * y - r * x))
<1>1. t * (p * x - q * y) + q * (t * y - r * x) = (p * t - q * r) * x
  OBVIOUS
<1>2. r * (p * x - q * y) + p * (t * y - r * x) = (p * t - q * r) * y
  OBVIOUS
<1> DEFINE X == p * x - q * y
           Y == t * y - r * x
<1>3. X \in Int /\ Y \in Int /\ t * X + q * Y = s * x /\ r * X + p * Y = s * y
  BY <1>1, <1>2
<1> HIDE DEF X, Y
<1>4. t * (s * X) + q * (s * Y) = s * (t * X + q * Y)
  BY <1>3
<1>5. r * (s * X) + p * (s * Y) = s * (r * X + p * Y)
  BY <1>3
<1>6. s * (s * x) = (s * s) * x /\ s * (s * y) = (s * s) * y
  OBVIOUS
<1>7. x = t * (s * X) + q * (s * Y) /\ y = r * (s * X) + p * (s * Y)
  BY <1>3, <1>4, <1>5, <1>6
<1> QED
  BY <1>7 DEF X, Y

(* The new remainders with their cofactors are combinations of the old     *)
(* ones with theirs; g is the sign, c the number the cofactors belong to.  *)
LEMMA ApplyKeepsCofactors ==
  ASSUME NEW p \in Int, NEW q \in Int, NEW r \in Int, NEW t \in Int,
         NEW x \in Int, NEW y \in Int, NEW u \in Int, NEW z \in Int,
         NEW s \in Int, NEW g \in Int, NEW c \in Int
  PROVE  /\ s * (p * x - q * y) + (s * g) * (p * u + q * z) * c
               = (s * p) * (x + g * u * c) + (-(s * q)) * (y - g * z * c)
         /\ s * (t * y - r * x) - (s * g) * (r * u + t * z) * c
               = (s * t) * (y - g * z * c) + (-(s * r)) * (x + g * u * c)
  OBVIOUS

(* A division is the application of the quotient's matrix.                 *)
LEMMA DivisionIdentity ==
  ASSUME NEW x \in Nat, NEW y \in Nat, y > 0
  PROVE  /\ x % y \in Nat /\ x \div y \in Nat
         /\ x = ((x \div y) * y) + (x % y)
  OBVIOUS

------------------------------------------------------------------------------
(* The entries of the matrix and its sign as integers.                     *)
LEMMA MatrixEntries ==
  ASSUME Abstract!Unimodular(m)
  PROVE  /\ m[1] \in Nat /\ m[2] \in Nat /\ m[3] \in Nat /\ m[4] \in Nat
         /\ Abstract!Det(m) \in Int /\ Abstract!Det(m) = m[1] * m[4] - m[2] * m[3]
         /\ Abstract!Det(m) * Abstract!Det(m) = 1
<1>1. m \in Nat \X Nat \X Nat \X Nat /\ Abstract!Det(m) \in {1, -1}
  BY DEF Abstract!Unimodular, Abstract!Matrices
<1>2. m[1] \in Nat /\ m[2] \in Nat /\ m[3] \in Nat /\ m[4] \in Nat
  BY <1>1
<1>3. Abstract!Det(m) = m[1] * m[4] - m[2] * m[3]
  BY DEF Abstract!Det
<1> QED
  BY <1>1, <1>2, <1>3

(* The initial remainders are the operands. *)
LEMMA InitEstablishesIInv == Abstract!Init => trusted /\ Abstract!IInv
<1> SUFFICES ASSUME Abstract!Init PROVE trusted /\ Abstract!IInv
  OBVIOUS
<1>1. Abstract!TypeOK
  <2>1. <<1, 0, 0, 1>> \in Nat \X Nat \X Nat \X Nat
    OBVIOUS
  <2>2. Abstract!Det(<<1, 0, 0, 1>>) = 1
    BY DEF Abstract!Det
  <2>3. Abstract!Unimodular(m)
    BY <2>1, <2>2 DEF Abstract!Init, Abstract!Unimodular, Abstract!Matrices
  <2> QED
    BY <2>3 DEF Abstract!Init, Abstract!TypeOK
<1>2. Abstract!CofactorsFit
  BY DEF Abstract!Init, Abstract!CofactorsFit
<1>3. Abstract!CofactorsMatch
  <2>1. big = 1 * big /\ 0 = 0 * big /\ big \in Int /\ small \in Int
    BY DEF Abstract!Init
  <2>2. a + sign * v0 * small = big /\ b - sign * v1 * small = 0
    BY <2>1 DEF Abstract!Init
  <2>3. Abstract!Divides(big, big)
    <3>1. 1 \in Int
      OBVIOUS
    <3> QED
      BY <2>1, <3>1 DEF Abstract!Divides
  <2>4. Abstract!Divides(big, 0)
    <3>1. 0 \in Int
      OBVIOUS
    <3> QED
      BY <2>1, <3>1 DEF Abstract!Divides
  <2> QED
    BY <2>2, <2>3, <2>4 DEF Abstract!CofactorsMatch
<1>4. Abstract!SameDivisors
  BY DEF Abstract!Init, Abstract!SameDivisors
<1> QED
  BY <1>1, <1>2, <1>3, <1>4 DEF Abstract!IInv, Abstract!Init

------------------------------------------------------------------------------
(* Applying the matrix preserves the invariant. *)
LEMMA ApplyPreservesIInv == Abstract!IInv /\ Abstract!Apply => Abstract!IInv'
<1> SUFFICES ASSUME Abstract!IInv, Abstract!Apply PROVE Abstract!IInv'
  OBVIOUS
<1> DEFINE p == m[1]  q == m[2]  r == m[3]  t == m[4]  s == Abstract!Det(m)
<1>1. /\ p \in Int /\ q \in Int /\ r \in Int /\ t \in Int
      /\ s \in Int /\ s = p * t - q * r /\ s * s = 1
  BY MatrixEntries DEF Abstract!IInv, Abstract!TypeOK
<1>2. p \in Nat /\ q \in Nat /\ r \in Nat /\ t \in Nat /\ s \in {1, -1}
  BY MatrixEntries DEF Abstract!IInv, Abstract!TypeOK, Abstract!Unimodular
<1>3. /\ a \in Int /\ b \in Int /\ v0 \in Nat /\ v1 \in Nat /\ v0 \in Int /\ v1 \in Int /\ big \in Int
      /\ small \in Int /\ sign \in {1, -1} /\ sign \in Int
  BY DEF Abstract!IInv, Abstract!TypeOK
<1>4. /\ a' = s * (p * a - q * b) /\ b' = s * (t * b - r * a)
      /\ a' \in Nat /\ b' \in Nat /\ sign' = s * sign
      /\ big' = big /\ small' = small /\ m' = m /\ track' = track
  BY DEF Abstract!Apply
<1>5. /\ track => v0' = p * v0 + q * v1 /\ v1' = r * v0 + t * v1
      /\ ~track => v0' = v0 /\ v1' = v1
  BY DEF Abstract!Apply
<1> HIDE DEF p, q, r, t, s
<1>6. Abstract!TypeOK'
  <2>1. v0' \in Nat /\ v1' \in Nat
    BY <1>2, <1>3, <1>5
  <2>2. sign' \in {1, -1}
    BY <1>2, <1>3, <1>4
  <2>3. Abstract!Unimodular(m')
    BY <1>4 DEF Abstract!IInv, Abstract!TypeOK
  <2> QED
    BY <1>4, <2>1, <2>2, <2>3 DEF Abstract!IInv, Abstract!TypeOK
<1>7. Abstract!CofactorsFit'
  <2> SUFFICES ASSUME track PROVE a' * v1' + b' * v0' = big
    BY <1>4 DEF Abstract!CofactorsFit
  <2>1. a' * v1' + b' * v0' = a * v1 + b * v0
    <3>1. /\ a \in Int /\ b \in Int /\ v0 \in Int /\ v1 \in Int
          /\ a' = s * (p * a - q * b) /\ b' = s * (t * b - r * a)
          /\ v0' = p * v0 + q * v1 /\ v1' = r * v0 + t * v1
      BY <1>3, <1>4, <1>5
    <3> QED
      BY <1>1, <3>1, ApplyKeepsSum
  <2>2. a * v1 + b * v0 = big
    BY DEF Abstract!IInv, Abstract!CofactorsFit
  <2> QED
    BY <2>1, <2>2
<1>8. Abstract!CofactorsMatch'
  <2> SUFFICES ASSUME track
               PROVE  /\ Abstract!Divides(big, a' + sign' * v0' * small)
                      /\ Abstract!Divides(big, b' - sign' * v1' * small)
    BY <1>4 DEF Abstract!CofactorsMatch
  <2>1. /\ Abstract!Divides(big, a + sign * v0 * small)
        /\ Abstract!Divides(big, b - sign * v1 * small)
    BY DEF Abstract!IInv, Abstract!CofactorsMatch
  <2>2. a + sign * v0 * small \in Int /\ b - sign * v1 * small \in Int
    BY <1>3
  <2>3. s * p \in Int /\ s * t \in Int /\ -(s * q) \in Int /\ -(s * r) \in Int
    BY <1>1
  <2>4. Abstract!Divides(big, (s * p) * (a + sign * v0 * small) + (-(s * q)) * (b - sign * v1 * small))
    BY <1>3, <2>1, <2>2, <2>3, DividesCombination
  <2>5. Abstract!Divides(big, (s * t) * (b - sign * v1 * small) + (-(s * r)) * (a + sign * v0 * small))
    BY <1>3, <2>1, <2>2, <2>3, DividesCombination
  <2>6. /\ a' + sign' * v0' * small
             = (s * p) * (a + sign * v0 * small) + (-(s * q)) * (b - sign * v1 * small)
        /\ b' - sign' * v1' * small
             = (s * t) * (b - sign * v1 * small) + (-(s * r)) * (a + sign * v0 * small)
    <3>1. v0 \in Int /\ v1 \in Int
      BY <1>3
    <3> QED
      BY <1>1, <1>3, <1>4, <1>5, <3>1, ApplyKeepsCofactors
  <2> QED
    BY <2>4, <2>5, <2>6
<1>9. Abstract!SameDivisors'
  <2> SUFFICES ASSUME NEW d \in Nat \ {0}
               PROVE  Abstract!Divides(d, a') /\ Abstract!Divides(d, b') <=> Abstract!Divides(d, big) /\ Abstract!Divides(d, small)
    BY <1>4 DEF Abstract!SameDivisors
  <2>1. Abstract!Divides(d, a) /\ Abstract!Divides(d, b) <=> Abstract!Divides(d, big) /\ Abstract!Divides(d, small)
    BY DEF Abstract!IInv, Abstract!SameDivisors
  <2>2. a = t * a' + q * b' /\ b = r * a' + p * b'
    BY <1>1, <1>3, <1>4, ApplyIsInvertible
  <2>3. /\ a' = (s * p) * a + (-(s * q)) * b
        /\ b' = (-(s * r)) * a + (s * t) * b
    BY <1>1, <1>3, <1>4
  <2>4. s * p \in Int /\ s * t \in Int /\ -(s * q) \in Int /\ -(s * r) \in Int
    BY <1>1
  <2>5. a' \in Int /\ b' \in Int /\ d \in Int
    BY <1>4
  <2>6. Abstract!Divides(d, a) /\ Abstract!Divides(d, b) => Abstract!Divides(d, a') /\ Abstract!Divides(d, b')
    <3> SUFFICES ASSUME Abstract!Divides(d, a), Abstract!Divides(d, b)
                 PROVE  Abstract!Divides(d, a') /\ Abstract!Divides(d, b')
      OBVIOUS
    <3>1. Abstract!Divides(d, (s * p) * a + (-(s * q)) * b)
      BY <1>3, <2>4, <2>5, DividesCombination
    <3>2. Abstract!Divides(d, (-(s * r)) * a + (s * t) * b)
      BY <1>3, <2>4, <2>5, DividesCombination
    <3> QED
      BY <2>3, <3>1, <3>2
  <2>7. Abstract!Divides(d, a') /\ Abstract!Divides(d, b') => Abstract!Divides(d, a) /\ Abstract!Divides(d, b)
    <3> SUFFICES ASSUME Abstract!Divides(d, a'), Abstract!Divides(d, b')
                 PROVE  Abstract!Divides(d, a) /\ Abstract!Divides(d, b)
      OBVIOUS
    <3>1. Abstract!Divides(d, t * a' + q * b')
      BY <1>1, <2>5, DividesCombination
    <3>2. Abstract!Divides(d, r * a' + p * b')
      BY <1>1, <2>5, DividesCombination
    <3> QED
      BY <2>2, <3>1, <3>2
  <2> QED
    BY <2>1, <2>6, <2>7
<1> QED
  BY <1>6, <1>7, <1>8, <1>9 DEF Abstract!IInv

(* Dividing preserves the invariant. *)
LEMMA DividePreservesIInv == Abstract!IInv /\ Abstract!Divide => Abstract!IInv'
<1> SUFFICES ASSUME Abstract!IInv, Abstract!Divide PROVE Abstract!IInv'
  OBVIOUS
<1> DEFINE q == a \div b
<1>1. /\ a \in Nat /\ b \in Nat /\ v0 \in Nat /\ v1 \in Nat /\ v0 \in Int /\ v1 \in Int /\ big \in Int
      /\ small \in Int /\ sign \in {1, -1} /\ sign \in Int /\ b > 0
  BY DEF Abstract!IInv, Abstract!TypeOK, Abstract!Divide
<1>2. /\ a' = b /\ b' = a % b /\ sign' = -sign
      /\ big' = big /\ small' = small /\ m' = m /\ track' = track
  BY DEF Abstract!Divide
<1>3. /\ track => v0' = v1 /\ v1' = v0 + v1 * q
      /\ ~track => v0' = v0 /\ v1' = v1
  BY DEF Abstract!Divide
<1>4. a % b \in Nat /\ q \in Nat /\ a = (q * b) + (a % b)
  BY <1>1, DivisionIdentity
<1> HIDE DEF q
<1>5. b' = a - q * b /\ b' \in Nat
  BY <1>1, <1>2, <1>4
<1>6. Abstract!TypeOK'
  <2>1. v0' \in Nat /\ v1' \in Nat
    BY <1>1, <1>3, <1>4
  <2>2. sign' \in {1, -1}
    BY <1>1, <1>2
  <2>3. Abstract!Unimodular(m')
    BY <1>2 DEF Abstract!IInv, Abstract!TypeOK
  <2> QED
    BY <1>1, <1>2, <1>5, <2>1, <2>2, <2>3 DEF Abstract!IInv, Abstract!TypeOK
<1>7. Abstract!CofactorsFit'
  <2> SUFFICES ASSUME track PROVE a' * v1' + b' * v0' = big
    BY <1>2 DEF Abstract!CofactorsFit
  <2>1. a * v1 + b * v0 = big
    BY DEF Abstract!IInv, Abstract!CofactorsFit
  <2>2. b * (v0 + v1 * q) + (a - q * b) * v1 = a * v1 + b * v0
    BY <1>1, <1>4
  <2> QED
    BY <1>2, <1>3, <1>5, <2>1, <2>2
<1>8. Abstract!CofactorsMatch'
  <2> SUFFICES ASSUME track
               PROVE  /\ Abstract!Divides(big, a' + sign' * v0' * small)
                      /\ Abstract!Divides(big, b' - sign' * v1' * small)
    BY <1>2 DEF Abstract!CofactorsMatch
  <2>1. /\ Abstract!Divides(big, a + sign * v0 * small)
        /\ Abstract!Divides(big, b - sign * v1 * small)
    BY DEF Abstract!IInv, Abstract!CofactorsMatch
  <2>2. a + sign * v0 * small \in Int /\ b - sign * v1 * small \in Int
    BY <1>1, <1>4
  <2>3. Abstract!Divides(big, (a + sign * v0 * small) - q * (b - sign * v1 * small))
    <3> DEFINE X == a + sign * v0 * small
               Y == b - sign * v1 * small
    <3>1. X \in Int /\ Y \in Int /\ Abstract!Divides(big, X) /\ Abstract!Divides(big, Y)
      BY <2>1, <2>2
    <3> HIDE DEF X, Y
    <3>2. big \in Int /\ q \in Int
      BY <1>1, <1>4
    <3>3. Abstract!Divides(big, X - q * Y)
      BY <3>1, <3>2, DividesRemainder
    <3> QED
      BY <3>3 DEF X, Y
  <2>4. a' + sign' * v0' * small = b - sign * v1 * small
    BY <1>1, <1>2, <1>3
  <2>5. b' - sign' * v1' * small
          = (a + sign * v0 * small) - q * (b - sign * v1 * small)
    <3>1. (a - q * b) - (-sign) * (v0 + v1 * q) * small
            = (a + sign * v0 * small) - q * (b - sign * v1 * small)
      BY <1>1, <1>4
    <3> QED
      BY <1>2, <1>3, <1>5, <3>1
  <2> QED
    BY <2>1, <2>3, <2>4, <2>5
<1>9. Abstract!SameDivisors'
  <2> SUFFICES ASSUME NEW d \in Nat \ {0}
               PROVE  Abstract!Divides(d, a') /\ Abstract!Divides(d, b') <=> Abstract!Divides(d, big) /\ Abstract!Divides(d, small)
    BY <1>2 DEF Abstract!SameDivisors
  <2>1. Abstract!Divides(d, a) /\ Abstract!Divides(d, b) <=> Abstract!Divides(d, big) /\ Abstract!Divides(d, small)
    BY DEF Abstract!IInv, Abstract!SameDivisors
  <2>2. /\ a \in Int /\ b \in Int /\ a' \in Int /\ b' \in Int /\ q \in Int /\ d \in Int
        /\ a' = b /\ b' = a - q * b /\ a = q * a' + b'
    BY <1>1, <1>2, <1>4, <1>5
  <2>3. Abstract!Divides(d, a) /\ Abstract!Divides(d, b) => Abstract!Divides(d, a') /\ Abstract!Divides(d, b')
    BY <2>2, DividesRemainder
  <2>4. Abstract!Divides(d, a') /\ Abstract!Divides(d, b') => Abstract!Divides(d, a) /\ Abstract!Divides(d, b)
    BY <2>2, DividesRemainder
  <2> QED
    BY <2>1, <2>3, <2>4
<1> QED
  BY <1>6, <1>7, <1>8, <1>9 DEF Abstract!IInv

------------------------------------------------------------------------------
(* As long as every collected matrix is unimodular and leaves no negative  *)
(* remainder, remainders and cofactors belong to the operands.             *)
THEOREM RemaindersBelong == Abstract!Spec => [](trusted => Abstract!IInv)
<1>1. Abstract!Init => (trusted => Abstract!IInv)
  BY InitEstablishesIInv
<1>2. (trusted => Abstract!IInv) /\ [Abstract!Next]_(Abstract!vars) => (trusted => Abstract!IInv)'
  <2> SUFFICES ASSUME trusted => Abstract!IInv, [Abstract!Next]_(Abstract!vars), trusted' PROVE Abstract!IInv'
    OBVIOUS
  <2>1. CASE trusted /\ Abstract!Collect
    <3>1. Abstract!Unimodular(m')
      BY <2>1 DEF Abstract!Collect
    <3>2. UNCHANGED <<big, small, a, b, v0, v1, sign, track, trusted>>
      BY <2>1 DEF Abstract!Collect
    <3> QED
      BY <2>1, <3>1, <3>2 DEF Abstract!IInv, Abstract!TypeOK, Abstract!CofactorsFit, Abstract!CofactorsMatch, Abstract!SameDivisors
  <2>2. CASE trusted /\ Abstract!Apply
    BY <2>2, ApplyPreservesIInv
  <2>3. CASE trusted /\ Abstract!Divide
    BY <2>3, DividePreservesIInv
  <2>4. CASE Abstract!Lose
    BY <2>4 DEF Abstract!Lose
  <2>5. CASE UNCHANGED Abstract!vars
    BY <2>5 DEF Abstract!vars, Abstract!IInv, Abstract!TypeOK, Abstract!CofactorsFit, Abstract!CofactorsMatch, Abstract!SameDivisors
  <2> QED
    BY <2>1, <2>2, <2>3, <2>4, <2>5 DEF Abstract!Next
<1> QED
  BY <1>1, <1>2, PTL DEF Abstract!Spec

(* The last remainder is the greatest common divisor of the operands, and  *)
(* a cofactor comes with it: what ll_lehmer_exgcd returns is right for     *)
(* operands of any size, provided its simulation collects no wrong         *)
(* quotient.                                                               *)
THEOREM GcdIsFound == Abstract!Spec => []Abstract!GcdFound
<1>1. (trusted => Abstract!IInv) => Abstract!GcdFound
  <2> SUFFICES ASSUME Abstract!IInv, b = 0
               PROVE  /\ \A d \in Nat \ {0} :
                           Abstract!Divides(d, a) <=> Abstract!Divides(d, big) /\ Abstract!Divides(d, small)
                      /\ track => Abstract!Divides(big, a + sign * v0 * small)
    BY DEF Abstract!GcdFound
  <2>1. ASSUME NEW d \in Nat \ {0}
        PROVE  Abstract!Divides(d, a) <=> Abstract!Divides(d, big) /\ Abstract!Divides(d, small)
    <3>1. 0 = 0 * d
      OBVIOUS
    <3>2. Abstract!Divides(d, b)
      BY <3>1 DEF Abstract!Divides
    <3> QED
      BY <3>2 DEF Abstract!IInv, Abstract!SameDivisors
  <2>2. track => Abstract!Divides(big, a + sign * v0 * small)
    BY DEF Abstract!IInv, Abstract!CofactorsMatch
  <2> QED
    BY <2>1, <2>2
<1> QED
  BY <1>1, RemaindersBelong, PTL

------------------------------------------------------------------------------
(* MontMul.  Its variables a, b, i, m and pc have been declared for the    *)
(* other two; its constants are what its assumptions say.                  *)
CONSTANTS Radix, L, Pow, Contexts
VARIABLES i, ctx, op, acc, rest, high, r

Mont == INSTANCE MontMul WITH B <- Radix

(* BaseAssumption, PowAssumption and ContextAssumption of MontMul.         *)
BaseIs == Radix \in Nat /\ Radix > 1 /\ L \in Nat \ {0}

PowIs ==
  /\ Pow \in [0 .. L -> Nat \ {0}]
  /\ Pow[0] = 1
  /\ \A j \in 0 .. L - 1 : Pow[j + 1] = Radix * Pow[j]

ContextsAre ==
  \A c \in Contexts :
    /\ c.N \in 1 .. Pow[L] - 1
    /\ c.k0 \in 0 .. Radix - 1
    /\ (c.N * c.k0 + 1) % Radix = 0

USE DEF BaseIs

(* Division with remainder, of negative numbers too.                       *)
LEMMA DivModInt ==
  ASSUME NEW x \in Int, NEW d \in Nat \ {0}
  PROVE  /\ x \div d \in Int
         /\ x % d \in 0 .. d - 1
         /\ x = d * (x \div d) + (x % d)
  OBVIOUS

(* A natural number is split into its lowest limb and the others.          *)
LEMMA DivModBase ==
  ASSUME BaseIs, NEW x \in Nat
  PROVE  x \div Radix \in Nat /\ x % Radix \in 0 .. Radix - 1 /\ x = Radix * (x \div Radix) + (x % Radix)
<1>1. Radix \in Nat \ {0} /\ x \in Int
  OBVIOUS
<1> HIDE DEF BaseIs
<1>2. x \div Radix \in Int /\ x % Radix \in 0 .. Radix - 1 /\ x = Radix * (x \div Radix) + (x % Radix)
  BY <1>1, DivModInt
<1>3. x \div Radix >= 0
  BY <1>1
<1> QED
  BY <1>2, <1>3

(* A multiple of the modulus does not change a remainder. *)
LEMMA ModAddMultiple ==
  ASSUME NEW d \in Nat \ {0}, NEW x \in Int, NEW j \in Int
  PROVE  (x + j * d) % d = x % d
<1> DEFINE q == (x \div d) + j   s == x % d
<1>1. x + j * d = d * q + s
  BY DivModInt
<1>2. q \in Int /\ s \in 0 .. d - 1
  BY DivModInt
<1> HIDE DEF q, s
<1>3. (d * q + s) % d = s
  BY <1>2, Unique
<1> QED
  BY <1>1, <1>3 DEF s

(* The choice of the quotient digit: N times it clears the lowest limb.    *)
LEMMA QuotientClears ==
  ASSUME BaseIs, NEW n \in Nat, NEW j \in Nat, NEW t \in Nat, NEW y \in Int,
         (n * j + 1) % Radix = 0, y = ((t % Radix) * j) % Radix
  PROVE  /\ y \in 0 .. Radix - 1
         /\ (t + n * y) \div Radix \in Nat
         /\ Radix * ((t + n * y) \div Radix) = t + n * y
<1> DEFINE t0 == t % Radix
           t1 == t \div Radix
           z == (t0 * j) \div Radix
           c == (n * j + 1) \div Radix
<1>1. t0 \in 0 .. Radix - 1 /\ t1 \in Int /\ t = Radix * t1 + t0
  BY DivModInt
<1>2. y = (t0 * j) % Radix
  OBVIOUS
<1> HIDE DEF t0, t1
<1>3. y \in 0 .. Radix - 1 /\ z \in Int /\ t0 * j = Radix * z + y
  <2> DEFINE p == t0 * j
  <2>1. p \in Int /\ y = p % Radix /\ z = p \div Radix
    BY <1>1, <1>2
  <2> HIDE DEF p, z
  <2>2. y \in 0 .. Radix - 1 /\ z \in Int /\ p = Radix * z + y
    BY <2>1, DivModInt
  <2> QED
    BY <2>2 DEF p
<1>4. c \in Int /\ n * j + 1 = Radix * c
  BY DivModInt
<1> HIDE DEF z, c
<1>5. n * (t0 * j) = t0 * (Radix * c - 1)
  BY <1>1, <1>4
<1>6. n * (t0 * j) = n * (Radix * z) + n * y
  BY <1>1, <1>3
<1>7. n * y = Radix * (t0 * c) - t0 - Radix * (n * z)
  BY <1>1, <1>3, <1>4, <1>5, <1>6
<1>8. t + n * y = Radix * (t1 + t0 * c - n * z)
  BY <1>1, <1>3, <1>4, <1>7
<1>9. t1 + t0 * c - n * z \in Int
  BY <1>1, <1>3, <1>4
<1>10. (t + n * y) \div Radix = t1 + t0 * c - n * z
  <2> DEFINE q == t1 + t0 * c - n * z
  <2>1. t + n * y = Radix * q + 0
    BY <1>8, <1>9
  <2>2. q \in Int
    BY <1>9
  <2> HIDE DEF q
  <2>3. (Radix * q + 0) \div Radix = q
    BY <2>2, Unique
  <2> QED
    BY <2>1, <2>3 DEF q
<1>11. t + n * y >= 0
  BY <1>3
<1>12. (t + n * y) \div Radix >= 0
  BY <1>8, <1>9, <1>10, <1>11
<1> QED
  BY <1>3, <1>8, <1>9, <1>10, <1>12

------------------------------------------------------------------------------
(* The bounds of one iteration, on plain numbers.                          *)
LEMMA ProductBound ==
  ASSUME BaseIs, NEW n \in Nat, NEW x \in Nat, NEW t0 \in Nat, NEW t1 \in Nat,
         NEW q0 \in 0 .. Radix - 1, NEW y \in 0 .. Radix - 1,
         Radix * t1 = (t0 + x * q0) + n * y, t0 < x + n
  PROVE  t1 < x + n
<1>1. x * q0 <= x * (Radix - 1) /\ n * y <= n * (Radix - 1)
  OBVIOUS
<1>2. x * (Radix - 1) = x * Radix - x /\ n * (Radix - 1) = n * Radix - n
  OBVIOUS
<1>3. Radix * t1 < Radix * (x + n)
  BY <1>1, <1>2
<1> QED
  BY <1>3

(* Once no limb of the multiplier is left, none is taken.                  *)
LEMMA NothingLeft ==
  ASSUME BaseIs, NEW q1 \in Nat, NEW q0 \in Nat, Radix * q1 + q0 = 0
  PROVE  q1 = 0 /\ q0 = 0
<1>1. Radix * q1 >= q1
  OBVIOUS
<1> QED
  BY <1>1

(* Dividing by B after adding a multiple of N keeps a number below w.      *)
LEMMA ReductionBound ==
  ASSUME BaseIs, NEW n \in Nat, NEW u \in Nat, NEW t0 \in Nat, NEW t1 \in Nat,
         NEW y \in 0 .. Radix - 1, Radix * t1 = t0 + n * y, t0 < u, n < u
  PROVE  t1 < u
<1>1. n * y <= (u - 1) * (Radix - 1)
  <2>1. n * y <= (u - 1) * y
    OBVIOUS
  <2>2. (u - 1) * y <= (u - 1) * (Radix - 1)
    OBVIOUS
  <2> QED
    BY <2>1, <2>2
<1>2. (u - 1) * (Radix - 1) = Radix * (u - 1) - (u - 1)
  OBVIOUS
<1>3. Radix * t1 <= Radix * (u - 1)
  BY <1>1, <1>2
<1> QED
  BY <1>3

------------------------------------------------------------------------------
(* What the assumptions on the constants say of R, of the powers and of the *)
(* context of the call.                                                     *)
LEMMA LimbPowers ==
  ASSUME BaseIs, PowIs, ContextsAre
  PROVE  /\ Mont!R \in Nat /\ Mont!R > 1
         /\ \A j \in 0 .. L : Pow[j] \in Nat \ {0}
         /\ \A j \in 0 .. L - 1 : Pow[j + 1] = Radix * Pow[j]
<1>1. /\ \A j \in 0 .. L : Pow[j] \in Nat \ {0}
      /\ \A j \in 0 .. L - 1 : Pow[j + 1] = Radix * Pow[j]
  BY DEF PowIs
<1>2. L - 1 \in 0 .. L - 1 /\ L \in 0 .. L /\ L - 1 \in 0 .. L /\ (L - 1) + 1 = L
  OBVIOUS
<1>3. Mont!R = Radix * Pow[L - 1]
  BY <1>1, <1>2 DEF Mont!R
<1>4. Pow[L - 1] >= 1 /\ Pow[L - 1] \in Nat
  BY <1>1, <1>2
<1>5. Radix * Pow[L - 1] >= Radix
  BY <1>4
<1> QED
  BY <1>1, <1>2, <1>3, <1>4, <1>5 DEF Mont!R

(* The modulus and k0 of a call, and of the state between two calls.       *)
LEMMA ContextFacts ==
  ASSUME BaseIs, PowIs, ContextsAre, ctx \in Contexts \/ ctx = Mont!NoContext
  PROVE  /\ Mont!N \in 1 .. Mont!R - 1
         /\ ctx.k0 \in 0 .. Radix - 1
         /\ (Mont!N * ctx.k0 + 1) % Radix = 0
<1>1. CASE ctx \in Contexts
  BY <1>1 DEF Mont!N, Mont!R, ContextsAre
<1>2. CASE ctx = Mont!NoContext
  <2>1. ctx.N = 1 /\ ctx.k0 = Radix - 1
    BY <1>2 DEF Mont!NoContext
  <2>2. (Radix * 1 + 0) % Radix = 0
    BY Unique
  <2>3. ctx.N * ctx.k0 + 1 = Radix * 1 + 0
    BY <2>1
  <2> QED
    BY <2>1, <2>2, <2>3, LimbPowers DEF Mont!N
<1> QED
  BY <1>1, <1>2

(* One iteration, in terms of the limb it takes and the digit it adds.     *)
LEMMA IterateFacts ==
  ASSUME BaseIs, PowIs, ContextsAre, Mont!TypeOK, Mont!Iterate
  PROVE  \E q0 \in 0 .. Radix - 1, y \in 0 .. Radix - 1 :
           /\ rest' \in Nat /\ rest = Radix * rest' + q0
           /\ acc' \in Nat /\ Radix * acc' = (acc + a * q0) + Mont!N * y
           /\ m' = m + y * Pow[i]
           /\ i \in 0 .. L - 1 /\ i' = i + 1 /\ Pow[i'] = Radix * Pow[i]
           /\ Pow[i] \in Nat \ {0}
<1> DEFINE q0 == rest % Radix
           t == acc + a * q0
           y == Mont!Quotient(t)
<1>1. /\ acc \in Nat /\ a \in Nat /\ rest \in Nat /\ m \in Nat /\ i \in 0 .. L
      /\ Mont!N \in 1 .. Mont!R - 1 /\ ctx.k0 \in 0 .. Radix - 1 /\ (Mont!N * ctx.k0 + 1) % Radix = 0
      /\ Mont!R \in Nat
  BY ContextFacts, LimbPowers DEF Mont!TypeOK
<1>2. /\ i < L /\ i' = i + 1
      /\ acc' = (t + Mont!N * y) \div Radix
      /\ rest' = rest \div Radix
      /\ m' = m + y * Pow[i]
  BY DEF Mont!Iterate
<1>3. q0 \in 0 .. Radix - 1 /\ rest' \in Nat /\ rest = Radix * rest' + q0
  BY <1>1, <1>2, DivModBase
<1> HIDE DEF q0
<1>4. t \in Nat
  BY <1>1, <1>3
<1>5. y = ((t % Radix) * ctx.k0) % Radix
  BY DEF Mont!Quotient
<1> HIDE DEF t, y
<1>6. /\ y \in 0 .. Radix - 1
      /\ (t + Mont!N * y) \div Radix \in Nat
      /\ Radix * ((t + Mont!N * y) \div Radix) = t + Mont!N * y
  <2>1. Mont!N \in Nat /\ ctx.k0 \in Nat /\ (Mont!N * ctx.k0 + 1) % Radix = 0
    BY <1>1
  <2>2. y \in Int
    BY <1>4, <1>5, <2>1
  <2> HIDE DEF BaseIs
  <2> QED
    BY <1>4, <1>5, <2>1, <2>2, QuotientClears
<1>7. acc' \in Nat /\ Radix * acc' = (acc + a * q0) + Mont!N * y
  BY <1>2, <1>6 DEF t
<1>8. i \in 0 .. L - 1 /\ Pow[i'] = Radix * Pow[i] /\ Pow[i] \in Nat \ {0}
  BY <1>1, <1>2, LimbPowers
<1> QED
  BY <1>2, <1>3, <1>6, <1>7, <1>8

------------------------------------------------------------------------------
(* The square of an operand is below the square of its bound.              *)
LEMMA SquareBelow ==
  ASSUME NEW x \in Nat, NEW u \in Nat, x < u
  PROVE  x * x \in Nat /\ x * x < u * u
<1>1. x * x \in Nat /\ x * u \in Nat /\ u * u \in Nat
  OBVIOUS
<1>2. x * x <= x * u
  OBVIOUS
<1>3. x * u < u * u
  OBVIOUS
<1> QED
  BY <1>1, <1>2, <1>3

(* Between calls nothing is in the registers.                              *)
LEMMA MontInitIInv ==
  ASSUME BaseIs, PowIs, ContextsAre
  PROVE  Mont!Init => Mont!IInv
<1> SUFFICES ASSUME Mont!Init PROVE Mont!IInv
  OBVIOUS
<1>1. ctx = Mont!NoContext /\ Mont!N = 1
  BY DEF Mont!Init, Mont!NoContext, Mont!N
<1>2. Mont!TypeOK
  BY LimbPowers DEF Mont!Init, Mont!TypeOK
<1>3. Mont!Balanced
  BY LimbPowers DEF Mont!Init, Mont!Balanced, Mont!Input, Mont!N, Mont!NoContext, PowIs
<1>4. Mont!PhaseState /\ Mont!RestFits /\ Mont!MultipleFits /\ Mont!NoCarryLost /\ Mont!SquareSplit
  BY LimbPowers
     DEF Mont!Init, Mont!PhaseState, Mont!RestFits, Mont!MultipleFits, Mont!NoCarryLost,
         Mont!SquareSplit, PowIs
<1> QED
  BY <1>2, <1>3, <1>4 DEF Mont!IInv

(* The state in which a call starts, by what the caller hands over.        *)
LEMMA MontCallIInv ==
  ASSUME BaseIs, PowIs, ContextsAre
  PROVE  Mont!IInv /\ Mont!Call => Mont!IInv'
<1> SUFFICES ASSUME Mont!IInv, Mont!Call PROVE Mont!IInv'
  OBVIOUS
<1> DEFINE c == ctx'
           x == a'
<1>1. c \in Contexts /\ x \in 0 .. Mont!R - 1 /\ (Mont!Mul \/ Mont!Sqr \/ Mont!Reduce)
  BY DEF Mont!Call
<1>2. pc = "idle" /\ i = 0 /\ m = 0 /\ r \in 0 .. Mont!R - 1
  BY DEF Mont!Call, Mont!IInv, Mont!PhaseState, Mont!TypeOK
<1>3. /\ x \in Nat /\ x < Mont!R /\ Mont!R \in Nat /\ Mont!R > 1 /\ Pow[0] = 1
      /\ c.N \in Nat /\ c.N >= 1
  BY <1>1, LimbPowers DEF PowIs, ContextsAre
<1>4. CASE Mont!Mul
  <2> DEFINE y == b'
  <2>1. y \in 0 .. Mont!R - 1
    BY <1>4 DEF Mont!Mul
  <2>2. /\ op' = "mul" /\ pc' = "loop"
        /\ i' = 0 /\ m' = 0 /\ r' = r /\ acc' = 0 /\ rest' = y /\ high' = 0
    BY <1>2, <1>4 DEF Mont!Mul, Mont!Call
  <2>3. Mont!TypeOK'
    BY <1>1, <1>2, <1>3, <2>1, <2>2 DEF Mont!TypeOK, Mont!R
  <2>4. Mont!Balanced'
    BY <1>3, <2>1, <2>2 DEF Mont!Balanced, Mont!Input, Mont!N, Mont!R
  <2>5. (Mont!PhaseState /\ Mont!RestFits /\ Mont!MultipleFits
         /\ Mont!NoCarryLost /\ Mont!SquareSplit)'
    BY <1>3, <2>1, <2>2
       DEF Mont!PhaseState, Mont!RestFits, Mont!MultipleFits, Mont!NoCarryLost, Mont!SquareSplit,
           Mont!N, Mont!R
  <2> QED
    BY <2>3, <2>4, <2>5 DEF Mont!IInv
<1>5. CASE Mont!Sqr
  <2> DEFINE p == x * x
  <2>1. /\ op' = "sqr" /\ b' = 0 /\ pc' = "loop"
        /\ i' = 0 /\ m' = 0 /\ r' = r /\ acc' = p % Mont!R /\ rest' = 0 /\ high' = p \div Mont!R
    BY <1>2, <1>5 DEF Mont!Sqr, Mont!Call
  <2>2. p \in Nat /\ p < Mont!R * Mont!R
    <3>1. x \in Nat /\ x < Mont!R /\ Mont!R \in Nat
      BY <1>3
    <3> HIDE DEF x
    <3> QED
      BY <3>1, SquareBelow DEF p
  <2>3. Mont!Input' = p
    BY <2>1 DEF Mont!Input
  <2> HIDE DEF p
  <2>4. p % Mont!R \in 0 .. Mont!R - 1 /\ p \div Mont!R \in Int
        /\ p = Mont!R * (p \div Mont!R) + (p % Mont!R)
    <3>1. Mont!R \in Nat \ {0} /\ p \in Int
      BY <1>3, <2>2
    <3> QED
      BY <3>1, DivModInt, Zenon
  <2> DEFINE h == p \div Mont!R
             l == p % Mont!R
  <2>5. h \in Int /\ l \in 0 .. Mont!R - 1 /\ p = Mont!R * h + l
    BY <2>4, Zenon
  <2> HIDE DEF h, l
  <2>6. h >= 0
    <3>1. Mont!R * h > Mont!R * (0 - 1)
      BY <1>3, <2>2, <2>5
    <3> QED
      BY <1>3, <2>5, <3>1
  <2>7. h < Mont!R
    <3>1. Mont!R * h < Mont!R * Mont!R
      BY <1>3, <2>2, <2>5
    <3> QED
      BY <1>3, <2>5, <3>1
  <2>8. Mont!R * h <= p
    BY <1>3, <2>5
  <2>9. acc' = l /\ high' = h
    BY <2>1 DEF h, l
  <2>10. Mont!TypeOK'
    <3>1. l \in Nat /\ h \in Nat
      BY <1>3, <2>5, <2>6
    <3> QED
      BY <1>1, <1>2, <1>3, <2>1, <2>9, <3>1 DEF Mont!TypeOK, Mont!R
  <2>11. Mont!Balanced'
    <3>1. Pow[i'] * (acc' + a' * rest') = l
      BY <1>3, <2>1, <2>5, <2>9
    <3>2. m' * Mont!N' = 0
      BY <1>3, <2>1 DEF Mont!N
    <3> QED
      BY <1>3, <2>2, <2>3, <2>5, <2>9, <3>1, <3>2 DEF Mont!Balanced, Mont!R
  <2>12. Mont!SquareSplit'
    BY <1>3, <2>1, <2>7, <2>8, <2>9 DEF Mont!SquareSplit, Mont!R, p
  <2>13. (Mont!PhaseState /\ Mont!RestFits /\ Mont!MultipleFits)'
    BY <1>3, <2>1 DEF Mont!PhaseState, Mont!RestFits, Mont!MultipleFits, Mont!R
  <2>14. Mont!NoCarryLost'
    BY <1>3, <2>1, <2>5, <2>9 DEF Mont!NoCarryLost, Mont!R
  <2> QED
    BY <2>10, <2>11, <2>12, <2>13, <2>14 DEF Mont!IInv
<1>6. CASE Mont!Reduce
  <2>1. /\ op' = "reduce" /\ b' = 0 /\ pc' = "loop"
        /\ i' = 0 /\ m' = 0 /\ r' = r /\ acc' = x /\ rest' = 0 /\ high' = 0
    BY <1>2, <1>6 DEF Mont!Reduce, Mont!Call
  <2>2. Mont!TypeOK'
    BY <1>1, <1>2, <1>3, <2>1 DEF Mont!TypeOK, Mont!R
  <2>3. Mont!Balanced'
    BY <1>3, <2>1 DEF Mont!Balanced, Mont!Input, Mont!N, Mont!R
  <2>4. (Mont!PhaseState /\ Mont!RestFits /\ Mont!MultipleFits
         /\ Mont!NoCarryLost /\ Mont!SquareSplit)'
    BY <1>3, <2>1
       DEF Mont!PhaseState, Mont!RestFits, Mont!MultipleFits, Mont!NoCarryLost, Mont!SquareSplit,
           Mont!R
  <2> QED
    BY <2>2, <2>3, <2>4 DEF Mont!IInv
<1> QED
  BY <1>1, <1>4, <1>5, <1>6

(* One row and one reduction step keep the balance and stay in bounds.     *)
LEMMA IterateIInv ==
  ASSUME BaseIs, PowIs, ContextsAre
  PROVE  Mont!IInv /\ Mont!Iterate => Mont!IInv'
<1> SUFFICES ASSUME Mont!IInv, Mont!Iterate PROVE Mont!IInv'
  OBVIOUS
<1>1. PICK q0 \in 0 .. Radix - 1, y \in 0 .. Radix - 1 :
        /\ rest' \in Nat /\ rest = Radix * rest' + q0
        /\ acc' \in Nat /\ Radix * acc' = (acc + a * q0) + Mont!N * y
        /\ m' = m + y * Pow[i]
        /\ i \in 0 .. L - 1 /\ i' = i + 1 /\ Pow[i'] = Radix * Pow[i]
        /\ Pow[i] \in Nat \ {0}
  BY IterateFacts DEF Mont!IInv
<1>2. /\ a \in Nat /\ a < Mont!R /\ acc \in Nat /\ rest \in Nat /\ high \in Nat /\ m \in Nat
      /\ Mont!N \in Nat /\ 0 < Mont!N /\ Mont!N < Mont!R /\ Mont!R \in Nat /\ Mont!R > 1
  BY ContextFacts, LimbPowers DEF Mont!IInv, Mont!TypeOK
<1>3. /\ UNCHANGED <<ctx, op, a, b, high, r, pc>> /\ Mont!N' = Mont!N /\ Mont!Input' = Mont!Input
      /\ pc = "loop"
  BY DEF Mont!Iterate, Mont!N, Mont!Input
<1> DEFINE s == Pow[i]
<1>4. s \in Nat /\ s > 0 /\ Pow[i'] = Radix * s /\ m' = m + y * s
  BY <1>1
<1>5. Mont!Input \in Nat
  BY DEF Mont!IInv, Mont!TypeOK, Mont!Input
<1> HIDE DEF s
<1>6. Mont!TypeOK'
  <2>1. y * s \in Nat
    BY <1>4
  <2>2. i' \in 0 .. L /\ m' \in Nat
    BY <1>1, <1>2, <1>4, <2>1
  <2> QED
    BY <1>1, <1>3, <2>2 DEF Mont!IInv, Mont!TypeOK, Mont!R
<1>7. Mont!Balanced'
  <2>1. Mont!R * high \in Nat
    BY <1>2
  <2> DEFINE h == Mont!R * high
  <2>2. Mont!Input + m * Mont!N = s * (acc + a * rest) + h
    BY DEF Mont!IInv, Mont!Balanced, s
  <2> HIDE DEF h
  <2>3. Mont!Input + (m + y * s) * Mont!N = (Radix * s) * (acc' + a * rest') + h
    <3>1. (Radix * s) * (acc' + a * rest') = s * (acc + a * rest) + s * (Mont!N * y)
      <4>1. rest' \in Nat /\ rest = Radix * rest' + q0
        BY <1>1
      <4>2. acc' \in Nat /\ Radix * acc' = (acc + a * q0) + Mont!N * y
        BY <1>1
      <4>3. a \in Nat /\ acc \in Nat /\ rest \in Nat /\ s \in Nat
        BY <1>2, <1>4
      <4> DEFINE z == Mont!N * y
                 t1 == acc'
                 q1 == rest'
      <4>4. z \in Nat
        BY <1>1, <1>2
      <4>5. q0 \in Nat
        OBVIOUS
      <4>6. q1 \in Nat /\ t1 \in Nat /\ rest = Radix * q1 + q0 /\ Radix * t1 = (acc + a * q0) + z
        BY <4>1, <4>2
      <4> HIDE DEF z, t1, q1
      <4>7. (Radix * s) * (t1 + a * q1) = s * (Radix * t1) + s * (a * (Radix * q1))
        BY <4>3, <4>6
      <4>8. s * (Radix * t1) = s * (acc + a * q0) + s * z
        BY <4>3, <4>4, <4>5, <4>6
      <4>9. a * rest = a * (Radix * q1) + a * q0
        BY <4>3, <4>5, <4>6
      <4>10. s * (acc + a * rest) = s * (acc + a * q0) + s * (a * (Radix * q1))
        BY <4>3, <4>5, <4>6, <4>9
      <4>11. (Radix * s) * (t1 + a * q1) = s * (acc + a * rest) + s * z
        BY <4>3, <4>4, <4>5, <4>6, <4>7, <4>8, <4>10
      <4> QED
        BY <4>11 DEF z, t1, q1
    <3>2. (m + y * s) * Mont!N = m * Mont!N + s * (Mont!N * y)
      BY <1>1, <1>2, <1>4
    <3>3. /\ m * Mont!N \in Int /\ s * (Mont!N * y) \in Int /\ h \in Int
          /\ s * (acc + a * rest) \in Int
      BY <1>1, <1>2, <1>4, <2>1 DEF h
    <3> QED
      BY <1>5, <2>2, <3>1, <3>2, <3>3
  <2> QED
    BY <1>3, <1>4, <2>3 DEF Mont!Balanced, Mont!R, h
<1>8. Mont!RestFits'
  <2>1. rest * s < Mont!R
    BY DEF Mont!IInv, Mont!RestFits, s
  <2>2. rest' * (Radix * s) <= rest * s
    <3>1. rest * s = rest' * (Radix * s) + q0 * s
      BY <1>1, <1>4
    <3>2. q0 * s >= 0 /\ q0 * s \in Int /\ rest' * (Radix * s) \in Int
      BY <1>1, <1>4
    <3> QED
      BY <3>1, <3>2
  <2>3. rest' * (Radix * s) \in Int /\ rest * s \in Int
    BY <1>1, <1>2, <1>4
  <2>4. rest' * (Radix * s) < Mont!R
    BY <1>2, <2>1, <2>2, <2>3
  <2> QED
    BY <1>4, <2>4 DEF Mont!RestFits, Mont!R
<1>9. Mont!MultipleFits'
  <2>1. m < s
    BY DEF Mont!IInv, Mont!MultipleFits, s
  <2>2. y * s <= (Radix - 1) * s
    BY <1>1, <1>4
  <2>3. (Radix - 1) * s = Radix * s - s
    BY <1>4
  <2>4. y * s \in Int /\ Radix * s \in Int
    BY <1>1, <1>4
  <2>5. m + y * s < Radix * s
    BY <1>2, <1>4, <2>1, <2>2, <2>3, <2>4
  <2> QED
    BY <1>4, <2>5 DEF Mont!MultipleFits
<1>10. Mont!NoCarryLost'
  <2>1. CASE op = "mul"
    <3>1. acc < a + Mont!N
      BY <2>1 DEF Mont!IInv, Mont!NoCarryLost
    <3>2. acc' < a + Mont!N
      BY <1>1, <1>2, <3>1, ProductBound
    <3> QED
      BY <1>3, <2>1, <3>2 DEF Mont!NoCarryLost
  <2>2. CASE op # "mul"
    <3>1. acc < Mont!R /\ rest = 0
      BY <2>2 DEF Mont!IInv, Mont!NoCarryLost, Mont!SquareSplit, Mont!TypeOK
    <3>2. q0 = 0
      <4>1. rest' \in Nat /\ q0 \in Nat /\ rest = Radix * rest' + q0
        BY <1>1
      <4>2. Radix * rest' + q0 = 0
        BY <3>1, <4>1
      <4> QED
        BY <4>1, <4>2, NothingLeft
    <3>3. Radix * acc' = acc + Mont!N * y
      <4>1. a * q0 = 0
        BY <1>2, <3>2
      <4>2. Radix * acc' = (acc + a * q0) + Mont!N * y
        BY <1>1
      <4> QED
        BY <1>2, <4>1, <4>2
    <3>4. acc' < Mont!R
      BY <1>1, <1>2, <3>1, <3>3, ReductionBound
    <3> QED
      BY <1>3, <2>2, <3>4 DEF Mont!NoCarryLost, Mont!R
  <2> QED
    BY <2>1, <2>2
<1>11. Mont!SquareSplit'
  <2>1. rest = 0 => rest' = 0
    <3>1. rest' \in Nat /\ q0 \in Nat /\ rest = Radix * rest' + q0
      BY <1>1
    <3> QED
      BY <3>1, NothingLeft
  <2> QED
    BY <1>3, <2>1 DEF Mont!IInv, Mont!SquareSplit, Mont!R
<1>12. Mont!PhaseState'
  BY <1>3 DEF Mont!PhaseState
<1> QED
  BY <1>6, <1>7, <1>8, <1>9, <1>10, <1>11, <1>12 DEF Mont!IInv

(* The subtraction touches nothing but the result.                         *)
LEMMA MontFinishIInv ==
  ASSUME BaseIs, PowIs, ContextsAre
  PROVE  Mont!IInv /\ Mont!Finish => Mont!IInv'
<1> SUFFICES ASSUME Mont!IInv, Mont!Finish PROVE Mont!IInv'
  OBVIOUS
<1>1. /\ pc' = "done" /\ i = L /\ r' = Mont!CondSub(acc + high)
      /\ UNCHANGED <<ctx, op, a, b, i, acc, rest, high, m>>
      /\ Mont!N' = Mont!N /\ Mont!Input' = Mont!Input
  BY DEF Mont!Finish, Mont!N, Mont!Input
<1>2. r' \in 0 .. Mont!R - 1
  <2> DEFINE t == acc + high
             v == IF t >= Mont!N THEN t - Mont!N ELSE t
  <2>1. Mont!N \in Int /\ t \in Int /\ Mont!R \in Nat \ {0}
    BY ContextFacts, LimbPowers DEF Mont!IInv, Mont!TypeOK
  <2>2. r' = Mont!CondSub(t)
    BY <1>1
  <2> HIDE DEF t
  <2>3. r' = v % Mont!R
    BY <2>2 DEF Mont!CondSub
  <2>4. v \in Int
    BY <2>1
  <2> HIDE DEF v
  <2> QED
    BY <2>1, <2>3, <2>4, DivModInt
<1>3. Mont!TypeOK'
  BY <1>1, <1>2 DEF Mont!IInv, Mont!TypeOK, Mont!R
<1>4. Mont!PhaseState'
  BY <1>1 DEF Mont!PhaseState, Mont!CondSub, Mont!R, Mont!N
<1>5. Mont!Balanced' /\ Mont!RestFits' /\ Mont!MultipleFits'
  BY <1>1 DEF Mont!IInv, Mont!Balanced, Mont!RestFits, Mont!MultipleFits, Mont!R
<1>6. Mont!NoCarryLost' /\ Mont!SquareSplit'
  BY <1>1 DEF Mont!IInv, Mont!NoCarryLost, Mont!SquareSplit, Mont!R
<1> QED
  BY <1>3, <1>4, <1>5, <1>6 DEF Mont!IInv

(* Returning clears everything that belonged to the call.                  *)
LEMMA MontReturnIInv ==
  ASSUME BaseIs, PowIs, ContextsAre
  PROVE  Mont!IInv /\ Mont!Return => Mont!IInv'
<1> SUFFICES ASSUME Mont!IInv, Mont!Return PROVE Mont!IInv'
  OBVIOUS
<1>1. /\ ctx' = Mont!NoContext /\ op' = "none" /\ a' = 0 /\ b' = 0 /\ i' = 0 /\ m' = 0
      /\ r' = 0 /\ acc' = 0 /\ rest' = 0 /\ high' = 0 /\ pc' = "idle"
  BY DEF Mont!Return
<1>2. Mont!N' = 1 /\ Mont!Input' = 0
  BY <1>1 DEF Mont!N, Mont!NoContext, Mont!Input
<1>3. Mont!TypeOK'
  BY <1>1, LimbPowers DEF Mont!TypeOK, Mont!R
<1>4. Mont!Balanced'
  BY <1>1, <1>2, LimbPowers DEF Mont!Balanced, Mont!R, PowIs
<1>5. (Mont!PhaseState /\ Mont!RestFits /\ Mont!MultipleFits
       /\ Mont!NoCarryLost /\ Mont!SquareSplit)'
  BY <1>1, <1>2, LimbPowers
     DEF Mont!PhaseState, Mont!RestFits, Mont!MultipleFits, Mont!NoCarryLost, Mont!SquareSplit,
         Mont!R, PowIs
<1> QED
  BY <1>3, <1>4, <1>5 DEF Mont!IInv

(* The invariant of the three loops: the accumulator and the limbs still to *)
(* come stand for the input plus a multiple of N, and every register is     *)
(* wide enough for what ll_u256_mont_mul, _sqr and _reduce keep in it.      *)
THEOREM MontInductiveInvariant ==
  ASSUME BaseIs, PowIs, ContextsAre
  PROVE  Mont!Spec => []Mont!IInv
<1>0. Mont!Init => Mont!IInv
  BY MontInitIInv
<1>1. Mont!IInv /\ [Mont!Next]_(Mont!vars) => Mont!IInv'
  <2> SUFFICES ASSUME Mont!IInv, [Mont!Next]_(Mont!vars) PROVE Mont!IInv'
    OBVIOUS
  <2>1. CASE Mont!Call
    BY <2>1, MontCallIInv
  <2>2. CASE Mont!Iterate
    BY <2>2, IterateIInv
  <2>3. CASE Mont!Finish
    BY <2>3, MontFinishIInv
  <2>4. CASE Mont!Return
    BY <2>4, MontReturnIInv
  <2>5. CASE UNCHANGED Mont!vars
    <3>1. /\ UNCHANGED <<ctx, op, a, b, i, acc, rest, high, m, r, pc>>
          /\ Mont!N' = Mont!N /\ Mont!Input' = Mont!Input
      BY <2>5 DEF Mont!vars, Mont!N, Mont!Input
    <3>2. Mont!TypeOK' /\ Mont!PhaseState'
      BY <3>1 DEF Mont!IInv, Mont!TypeOK, Mont!PhaseState, Mont!CondSub, Mont!R, Mont!N
    <3>3. (Mont!Balanced /\ Mont!RestFits /\ Mont!MultipleFits /\ Mont!NoCarryLost
           /\ Mont!SquareSplit)'
      BY <3>1
         DEF Mont!IInv, Mont!Balanced, Mont!RestFits, Mont!MultipleFits, Mont!NoCarryLost,
             Mont!SquareSplit, Mont!R
    <3> QED
      BY <3>2, <3>3 DEF Mont!IInv
  <2> QED
    BY <2>1, <2>2, <2>3, <2>4, <2>5 DEF Mont!Next
<1> QED
  BY <1>0, <1>1, PTL DEF Mont!Spec

(* Type correctness: the result always fits L limbs, the accumulator and   *)
(* what is left of the multiplier never become negative.                   *)
THEOREM MontTypeCorrect ==
  ASSUME BaseIs, PowIs, ContextsAre
  PROVE  Mont!Spec => []Mont!TypeOK
<1>0. Mont!Spec => []Mont!IInv
  BY MontInductiveInvariant
<1>1. Mont!IInv => Mont!TypeOK
  BY DEF Mont!IInv
<1> QED
  BY <1>0, <1>1, PTL

------------------------------------------------------------------------------
(* A multiple of the modulus smaller than another one.                     *)
LEMMA Cancel ==
  ASSUME NEW d \in Nat \ {0}, NEW x \in Int, NEW y \in Int, d * x < d * y
  PROVE  x < y
<1>1. ASSUME x >= y PROVE FALSE
  <2>1. d * x >= d * y
    BY <1>1
  <2> QED
    BY <2>1
<1> QED
  BY <1>1

(* What the accumulator holds before the conditional subtraction.          *)
LEMMA BeforeSubtraction ==
  ASSUME BaseIs, PowIs, ContextsAre, Mont!IInv, pc = "done", NEW t, t = acc + high
  PROVE  /\ t \in Nat /\ Mont!N \in 1 .. Mont!R - 1 /\ m \in 0 .. Mont!R - 1 /\ Mont!Input \in Nat
         /\ Mont!R * t = Mont!Input + m * Mont!N
         /\ t < Mont!R + Mont!N
         /\ r = IF t >= Mont!N THEN t - Mont!N ELSE t
<1>1. /\ a \in 0 .. Mont!R - 1 /\ b \in 0 .. Mont!R - 1 /\ acc \in Nat /\ rest \in Nat
      /\ high \in Nat /\ m \in Nat /\ Mont!R \in Nat /\ Mont!R > 1
         /\ Mont!N \in 1 .. Mont!R - 1 /\ t \in Nat
  BY ContextFacts, LimbPowers DEF Mont!IInv, Mont!TypeOK
<1>2. i = L /\ Pow[i] = Mont!R /\ r = Mont!CondSub(t)
  BY DEF Mont!IInv, Mont!PhaseState, Mont!R
<1>3. m < Mont!R
  BY <1>2 DEF Mont!IInv, Mont!MultipleFits
<1>4. rest = 0
  <2>1. rest * Mont!R < Mont!R
    BY <1>2 DEF Mont!IInv, Mont!RestFits
  <2>2. rest >= 1 => rest * Mont!R >= Mont!R
    BY <1>1
  <2>3. rest * Mont!R \in Int
    BY <1>1
  <2> QED
    BY <1>1, <2>1, <2>2, <2>3
<1>5. Mont!Input \in Nat
  BY <1>1 DEF Mont!Input
<1>6. Mont!R * t = Mont!Input + m * Mont!N
  <2>1. Mont!Input + m * Mont!N = Mont!R * (acc + a * rest) + Mont!R * high
    BY <1>2 DEF Mont!IInv, Mont!Balanced
  <2>2. a * rest = 0
    BY <1>1, <1>4
  <2> QED
    BY <1>1, <2>1, <2>2
<1>7. t < Mont!R + Mont!N
  <2>1. CASE op = "mul"
    <3>1. acc < a + Mont!N /\ high = 0
      BY <2>1 DEF Mont!IInv, Mont!NoCarryLost, Mont!SquareSplit
    <3> QED
      BY <1>1, <3>1
  <2>2. CASE op = "sqr"
    <3>1. Mont!Input = a * a
      BY <2>2 DEF Mont!Input
    <3>2. a * a < Mont!R * Mont!R
      BY <1>1, SquareBelow
    <3>3. m * Mont!N < Mont!R * Mont!N
      BY <1>1, <1>3
    <3>4. Mont!R * t < Mont!R * (Mont!R + Mont!N)
      BY <1>1, <1>6, <3>1, <3>2, <3>3
    <3>5. Mont!R \in Nat \ {0} /\ t \in Int /\ Mont!R + Mont!N \in Int
      BY <1>1
    <3> QED
      BY <3>4, <3>5, Cancel
  <2>3. CASE op \notin {"mul", "sqr"}
    <3>1. acc < Mont!R /\ high = 0
      BY <2>3 DEF Mont!IInv, Mont!NoCarryLost, Mont!SquareSplit, Mont!TypeOK
    <3> QED
      BY <1>1, <3>1
  <2> QED
    BY <2>1, <2>2, <2>3
<1>8. r = IF t >= Mont!N THEN t - Mont!N ELSE t
  <2> DEFINE v == IF t >= Mont!N THEN t - Mont!N ELSE t
  <2>1. v \in 0 .. Mont!R - 1
    BY <1>1, <1>7
  <2>2. r = v % Mont!R
    BY <1>2 DEF Mont!CondSub
  <2> HIDE DEF v
  <2>3. Mont!R \in Nat \ {0} /\ Mont!R * 0 + v = v
    BY <1>1, <2>1
  <2>4. (Mont!R * 0 + v) % Mont!R = v
    BY <2>1, <2>3, Unique
  <2> QED
    BY <2>2, <2>3, <2>4 DEF v
<1> QED
  BY <1>1, <1>3, <1>5, <1>6, <1>7, <1>8

(* The functional correctness of ll_u256_mont_mul, ll_u256_mont_sqr and     *)
(* ll_u256_mont_reduce: R times the result is the product, the square or    *)
(* the number itself modulo N, for all operands, the unreduced ones too.    *)
THEOREM MontgomeryCongruence ==
  ASSUME BaseIs, PowIs, ContextsAre
  PROVE  Mont!Spec => []Mont!Congruent
<1>0. Mont!Spec => []Mont!IInv
  BY MontInductiveInvariant
<1>1. Mont!IInv => Mont!Congruent
  <2> SUFFICES ASSUME Mont!IInv, pc = "done" PROVE (Mont!R * r) % Mont!N = Mont!Input % Mont!N
    BY DEF Mont!Congruent
  <2> DEFINE t == acc + high
  <2>1. /\ t \in Nat /\ Mont!N \in 1 .. Mont!R - 1 /\ m \in 0 .. Mont!R - 1 /\ Mont!Input \in Nat
        /\ Mont!R * t = Mont!Input + m * Mont!N
        /\ r = IF t >= Mont!N THEN t - Mont!N ELSE t
    BY BeforeSubtraction
  <2> HIDE DEF t
  <2>2. Mont!R \in Nat
    BY LimbPowers
  <2>3. \E j \in Int : Mont!R * r = Mont!Input + j * Mont!N
    <3>1. CASE t >= Mont!N
      <4>1. Mont!R * r = Mont!R * t - Mont!R * Mont!N
        BY <2>1, <2>2, <3>1
      <4>2. (m - Mont!R) * Mont!N = m * Mont!N - Mont!R * Mont!N /\ m - Mont!R \in Int
             /\ m * Mont!N \in Int /\ Mont!R * Mont!N \in Int
        BY <2>1, <2>2
      <4>3. Mont!R * r = Mont!Input + (m - Mont!R) * Mont!N
        BY <2>1, <4>1, <4>2
      <4> QED
        BY <4>2, <4>3
    <3>2. CASE ~(t >= Mont!N)
      <4>1. Mont!R * r = Mont!Input + m * Mont!N /\ m \in Int
        BY <2>1, <3>2
      <4> QED
        BY <4>1, Zenon
    <3> QED
      BY <3>1, <3>2
  <2>4. Mont!N \in Nat \ {0} /\ Mont!Input \in Int
    BY <2>1
  <2>5. \A j \in Int : (Mont!Input + j * Mont!N) % Mont!N = Mont!Input % Mont!N
    BY <2>4, ModAddMultiple, Zenon
  <2> QED
    BY <2>3, <2>5
<1> QED
  BY <1>0, <1>1, PTL

(* One conditional subtraction ends below N as soon as one operand was      *)
(* reduced; a reduction always does.  This is what lets fp256_mont_exp and  *)
(* fp256_from_mont return a residue without another reduction.              *)
THEOREM ResultReduced ==
  ASSUME BaseIs, PowIs, ContextsAre
  PROVE  Mont!Spec => []Mont!Reduced
<1>0. Mont!Spec => []Mont!IInv
  BY MontInductiveInvariant
<1>1. Mont!IInv => Mont!Reduced
  <2> SUFFICES ASSUME Mont!IInv, pc = "done",
                      op = "mul" => a < Mont!N \/ b < Mont!N, op = "sqr" => a < Mont!N
               PROVE  r < Mont!N
    BY DEF Mont!Reduced
  <2> DEFINE t == acc + high
  <2>1. /\ t \in Nat /\ Mont!N \in 1 .. Mont!R - 1 /\ m \in 0 .. Mont!R - 1 /\ Mont!Input \in Nat
        /\ Mont!R * t = Mont!Input + m * Mont!N
        /\ r = IF t >= Mont!N THEN t - Mont!N ELSE t
    BY BeforeSubtraction
  <2> HIDE DEF t
  <2>2. Mont!R \in Nat /\ Mont!R > 1 /\ a \in 0 .. Mont!R - 1 /\ b \in 0 .. Mont!R - 1
    BY LimbPowers DEF Mont!IInv, Mont!TypeOK
  <2>3. m * Mont!N <= Mont!R * Mont!N - Mont!N
    <3>1. m * Mont!N <= (Mont!R - 1) * Mont!N
      BY <2>1, <2>2
    <3>2. (Mont!R - 1) * Mont!N = Mont!R * Mont!N - Mont!N
      BY <2>1, <2>2
    <3> QED
      BY <3>1, <3>2
  <2>4. Mont!Input <= Mont!R * Mont!N
    <3>1. CASE op = "mul"
      <4>1. Mont!Input = a * b
        BY <3>1 DEF Mont!Input
      <4>2. a < Mont!N => a * b <= Mont!N * Mont!R
        BY <2>1, <2>2
      <4>3. b < Mont!N => a * b <= Mont!R * Mont!N
        BY <2>1, <2>2
      <4>4. Mont!N * Mont!R = Mont!R * Mont!N
        BY <2>1, <2>2
      <4> QED
        BY <3>1, <4>1, <4>2, <4>3, <4>4
    <3>2. CASE op = "sqr"
      <4>1. Mont!Input = a * a /\ a < Mont!N
        BY <3>2 DEF Mont!Input
      <4>2. a * a <= Mont!R * Mont!N
        BY <2>1, <2>2, <4>1
      <4> QED
        BY <4>1, <4>2
    <3>3. CASE op \notin {"mul", "sqr"}
      <4>1. Mont!Input = a
        BY <3>3 DEF Mont!Input
      <4>2. Mont!R <= Mont!R * Mont!N
        BY <2>1, <2>2
      <4> QED
        BY <2>1, <2>2, <4>1, <4>2
    <3> QED
      BY <3>1, <3>2, <3>3
  <2>5. Mont!R * t < Mont!R * (2 * Mont!N)
    <3>1. Mont!R * (2 * Mont!N) = Mont!R * Mont!N + Mont!R * Mont!N /\ Mont!R * Mont!N \in Int
          /\ m * Mont!N \in Int
      BY <2>1, <2>2
    <3> QED
      BY <2>1, <2>3, <2>4, <3>1
  <2>6. t < 2 * Mont!N
    <3>1. Mont!R \in Nat \ {0} /\ t \in Int /\ 2 * Mont!N \in Int
      BY <2>1, <2>2
    <3> QED
      BY <2>5, <3>1, Cancel
  <2> QED
    BY <2>1, <2>6
<1> QED
  BY <1>0, <1>1, PTL
==============================================================================
