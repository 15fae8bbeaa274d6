---------------------------- MODULE LimbsProofs ----------------------------
(***************************************************************************)
(* The routines of Limbs and U256 compute what their names say, for limbs  *)
(* of any width and arrays of any length.  Their loops are recursive       *)
(* functions; induction over the iterations is done with sets of numbers,  *)
(* because an operator cannot be handed to the induction theorems of the   *)
(* library.                                                                *)
(***************************************************************************)
EXTENDS U256, TLAPS, WellFoundedInduction

(* A set of numbers that is not empty has a least element.                 *)
LEMMA Least ==
  ASSUME NEW T, T \subseteq Nat, T # {}
  PROVE  \E m \in T : \A k \in T : m <= k
<1>1. IsWellFoundedOn(OpToRel(<, Nat), Nat)
  BY NatLessThanWellFounded
<1>2. PICK m \in T : \A k \in T : ~(<<k, m>> \in OpToRel(<, Nat))
  BY <1>1, WFMin
<1>3. \A k \in T : ~(k < m)
  BY <1>2 DEF OpToRel
<1> QED
  BY <1>3

(* A set that has 0 and with a number the next one has them all.           *)
LEMMA Induction ==
  ASSUME NEW T, 0 \in T, \A n \in Nat : n \in T => n + 1 \in T
  PROVE  Nat \subseteq T
<1> SUFFICES ASSUME Nat \ T # {} PROVE FALSE
  OBVIOUS
<1>1. PICK m \in Nat \ T : \A k \in Nat \ T : m <= k
  BY Least
<1>2. m - 1 \in Nat /\ m - 1 \in T
  BY <1>1
<1> QED
  BY <1>1, <1>2

(* The same for the numbers up to a bound.                                 *)
LEMMA InductionTo ==
  ASSUME NEW n \in Nat, NEW T, 0 \in T, \A k \in 0 .. n - 1 : k \in T => k + 1 \in T
  PROVE  0 .. n \subseteq T
<1> DEFINE S == {k \in Nat : k <= n => k \in T}
<1>1. 0 \in S
  OBVIOUS
<1>2. \A k \in Nat : k \in S => k + 1 \in S
  OBVIOUS
<1>3. Nat \subseteq S
  <2> HIDE DEF S
  <2> QED
    BY <1>1, <1>2, Induction
<1> QED
  BY <1>3

(* Steps from c that stay in S, and a function whose values they are.      *)
Steps(n, S, c, G) == c \in S /\ \A k \in 1 .. n : \A p \in S : G[k][p] \in S
Follows(g, n, c, G) == g[0] = c /\ \A k \in 1 .. n : g[k] = G[k][g[k - 1]]

(* A function that is defined by its first value and by how a value        *)
(* follows from the one before.                                            *)
LEMMA Recursion ==
  ASSUME NEW n \in Nat, NEW S, NEW c, NEW G, Steps(n, S, c, G)
  PROVE  \E g \in [0 .. n -> S] : Follows(g, n, c, G)
<1> USE DEF Steps, Follows
<1> DEFINE Body(g, m) == [k \in 0 .. m |-> IF k = 0 THEN c ELSE G[k][g[k - 1]]]
           T == {m \in Nat : m <= n => \E g \in [0 .. m -> S] : g = Body(g, m)}
<1>1. 0 \in T
  <2>1. [k \in 0 .. 0 |-> c] \in [0 .. 0 -> S]
    OBVIOUS
  <2>2. [k \in 0 .. 0 |-> c] = Body([k \in 0 .. 0 |-> c], 0)
    OBVIOUS
  <2> QED
    BY <2>1, <2>2
<1>2. ASSUME NEW m \in Nat, m \in T PROVE m + 1 \in T
  <2> SUFFICES ASSUME m + 1 <= n PROVE \E g \in [0 .. m + 1 -> S] : g = Body(g, m + 1)
    OBVIOUS
  <2>1. PICK g \in [0 .. m -> S] : g = Body(g, m)
    BY <1>2
  <2> DEFINE h == [k \in 0 .. m + 1 |-> IF k = m + 1 THEN G[m + 1][g[m]] ELSE g[k]]
  <2>2. G[m + 1][g[m]] \in S
    BY <2>1
  <2>3. h \in [0 .. m + 1 -> S]
    BY <2>2
  <2>4. ASSUME NEW k \in 0 .. m + 1
        PROVE  h[k] = IF k = 0 THEN c ELSE G[k][h[k - 1]]
    <3>1. CASE k = m + 1
      BY <3>1
    <3>2. CASE k \in 0 .. m
      <4>1. h[k] = g[k] /\ (k # 0 => h[k - 1] = g[k - 1])
        BY <3>2
      <4>2. g[k] = IF k = 0 THEN c ELSE G[k][g[k - 1]]
        BY <2>1, <3>2
      <4> QED
        BY <4>1, <4>2
    <3> QED
      BY <3>1, <3>2
  <2>5. h = Body(h, m + 1)
    <3> HIDE DEF h
    <3> QED
      BY <2>3, <2>4
  <2> QED
    BY <2>3, <2>5
<1>3. Nat \subseteq T
  <2> HIDE DEF T
  <2> QED
    BY <1>1, <1>2, Induction
<1>4. PICK g \in [0 .. n -> S] : g = Body(g, n)
  BY <1>3
<1> QED
  BY <1>4

------------------------------------------------------------------------------
(* B to the power n. *)
Power(n) == LET p[k \in 0 .. n] == IF k = 0 THEN 1 ELSE B * p[k - 1] IN p[n]

(* x begins with n limbs. *)
Holds(x, n) == \A i \in 0 .. n - 1 : x[i] \in Limb

(* Powers of two up to the base are positive numbers. *)
LEMMA TwoPowers == \A s \in 0 .. W : 2^s \in Nat \ {0}
<1> DEFINE T == {s \in 0 .. W : 2^s \in Nat \ {0}}
<1>1. 0 \in T
  BY WordAssumption
<1>2. \A s \in 0 .. W - 1 : s \in T => s + 1 \in T
  BY WordAssumption, PowersOfTwo
<1>3. 0 .. W \subseteq T
  <2> HIDE DEF T
  <2> QED
    BY <1>1, <1>2, InductionTo, WordAssumption
<1> QED
  BY <1>3

(* B is at least 2 and even. *)
LEMMA Base == B \in Nat /\ B >= 2 /\ B = 2 * (B \div 2) /\ B \div 2 \in Nat \ {0}
<1>1. W - 1 \in 0 .. W - 1 /\ W - 1 \in 0 .. W
  BY WordAssumption
<1>2. 2^((W - 1) + 1) = 2 * 2^(W - 1)
  BY <1>1, PowersOfTwo
<1>3. (W - 1) + 1 = W
  BY WordAssumption
<1>4. B = 2 * 2^(W - 1) /\ 2^(W - 1) \in Nat \ {0}
  BY <1>1, <1>2, <1>3, TwoPowers DEF B
<1> HIDE DEF B
<1> QED
  BY <1>4

(* The recursive function that Power is defined by exists, and has the     *)
(* values that its equation gives.                                         *)
LEMMA PowerFunction ==
  ASSUME NEW n \in Nat
  PROVE  \E p \in [0 .. n -> Nat \ {0}] :
           /\ Power(n) = p[n]
           /\ p[0] = 1 /\ \A k \in 1 .. n : p[k] = B * p[k - 1]
<1> DEFINE Body(p) == [k \in 0 .. n |-> IF k = 0 THEN 1 ELSE B * p[k - 1]]
           P == CHOOSE p : p = Body(p)
           S == Nat \ {0}
           G == [k \in 1 .. n |-> [p \in S |-> B * p]]
<1>1. Power(n) = P[n]
  BY DEF Power
<1>2. \A k \in 1 .. n, p \in S : G[k][p] = B * p /\ G[k][p] \in S
  BY Base
<1>3. PICK g \in [0 .. n -> S] : Follows(g, n, 1, G)
  <2>1. Steps(n, S, 1, G)
    BY <1>2 DEF Steps
  <2> HIDE DEF G, S
  <2> QED
    BY <2>1, Recursion
<1>4. \A k \in 1 .. n : g[k - 1] \in S
  OBVIOUS
<1>5. g = Body(g)
  <2> HIDE DEF G, S
  <2> QED
    BY <1>2, <1>3, <1>4 DEF Follows
<1>6. P = Body(P)
  <2> HIDE DEF Body
  <2> QED
    BY <1>5
<1>7. P[0] = 1 /\ \A k \in 1 .. n : P[k] = B * P[k - 1]
  <2> HIDE DEF P
  <2> QED
    BY <1>6
<1> HIDE DEF P
<1>8. P \in [0 .. n -> S]
  <2> DEFINE T == {k \in 0 .. n : P[k] \in S}
  <2>1. 0 \in T
    BY <1>7
  <2>3. ASSUME NEW k \in 0 .. n - 1, k \in T PROVE k + 1 \in T
    <3>1. k + 1 \in 1 .. n /\ (k + 1) - 1 = k /\ P[k] \in S
      BY <2>3
    <3>2. P[k + 1] = B * P[k]
      BY <1>7, <3>1
    <3> QED
      BY <3>1, <3>2, Base
  <2>2. 0 .. n \subseteq T
    <3> HIDE DEF T
    <3> QED
      BY <2>1, <2>3, InductionTo
  <2> HIDE DEF P
  <2> QED
    BY <1>6, <2>2
<1> QED
  <2> HIDE DEF P
  <2> QED
    BY <1>1, <1>7, <1>8

(* Power(n) is a positive number, and B times the one before. *)
LEMMA PowerStep ==
  ASSUME NEW n \in Nat
  PROVE  /\ Power(0) = 1
         /\ Power(n) \in Nat \ {0}
         /\ Power(n + 1) = B * Power(n)
<1>1. Power(0) = 1
  BY PowerFunction
<1>2. PICK p \in [0 .. n -> Nat \ {0}] :
        Power(n) = p[n] /\ p[0] = 1 /\ \A k \in 1 .. n : p[k] = B * p[k - 1]
  BY PowerFunction
<1>3. PICK r \in [0 .. n + 1 -> Nat \ {0}] :
        Power(n + 1) = r[n + 1] /\ r[0] = 1 /\ \A k \in 1 .. n + 1 : r[k] = B * r[k - 1]
  <2> DEFINE m == n + 1
  <2>1. m \in Nat
    OBVIOUS
  <2> HIDE DEF m
  <2>2. \E r \in [0 .. m -> Nat \ {0}] :
          Power(m) = r[m] /\ r[0] = 1 /\ \A k \in 1 .. m : r[k] = B * r[k - 1]
    BY <2>1, PowerFunction
  <2> QED
    BY <2>2 DEF m
<1> DEFINE T == {k \in 0 .. n : p[k] = r[k]}
<1>4. 0 \in T
  BY <1>2, <1>3
<1>5. ASSUME NEW k \in 0 .. n - 1, k \in T PROVE k + 1 \in T
  <2>1. k + 1 \in 1 .. n /\ k + 1 \in 1 .. n + 1 /\ (k + 1) - 1 = k /\ p[k] = r[k]
    BY <1>5
  <2> QED
    BY <2>1, <1>2, <1>3
<1>6. p[n] = r[n]
  <2>1. 0 .. n \subseteq T
    <3> HIDE DEF T
    <3> QED
      BY <1>4, <1>5, InductionTo
  <2> QED
    BY <2>1
<1>7. n + 1 \in 1 .. n + 1 /\ (n + 1) - 1 = n
  OBVIOUS
<1>8. r[n + 1] = B * r[n]
  BY <1>3, <1>7
<1> QED
  BY <1>1, <1>2, <1>3, <1>6, <1>8

(* v[k] is what the k uppermost of the n limbs of x stand for. *)
Horner(v, x, n) ==
  /\ Val(x, n) = v[n]
  /\ v[0] = 0
  /\ \A k \in 1 .. n : v[k] = x[n - k] + B * v[k - 1]

(* The recursive function that Val is defined by exists, and is what       *)
(* Horner says.                                                            *)
LEMMA ValFunction ==
  ASSUME NEW n \in Nat, NEW x, Holds(x, n)
  PROVE  \E v \in [0 .. n -> Int] : Horner(v, x, n)
<1> DEFINE Body(v) == [k \in 0 .. n |-> IF k = 0 THEN 0 ELSE x[n - k] + B * v[k - 1]]
           V == CHOOSE v : v = Body(v)
           G == [k \in 1 .. n |-> [v \in Int |-> x[n - k] + B * v]]
<1>1. Val(x, n) = V[n]
  BY DEF Val
<1>2. \A k \in 1 .. n : x[n - k] \in Int
  BY Base DEF Holds, Limb
<1>3. \A k \in 1 .. n, v \in Int : G[k][v] = x[n - k] + B * v /\ G[k][v] \in Int
  BY <1>2, Base
<1>4. PICK g \in [0 .. n -> Int] : Follows(g, n, 0, G)
  <2>1. Steps(n, Int, 0, G)
    BY <1>3 DEF Steps
  <2> HIDE DEF G
  <2> QED
    BY <2>1, Recursion
<1>5. \A k \in 1 .. n : g[k] = x[n - k] + B * g[k - 1]
  <2> HIDE DEF G
  <2>1. \A k \in 1 .. n : g[k - 1] \in Int
    OBVIOUS
  <2> QED
    BY <1>3, <1>4, <2>1 DEF Follows
<1>6. g = Body(g)
  BY <1>4, <1>5 DEF Follows
<1>7. V = Body(V)
  <2> HIDE DEF Body
  <2> QED
    BY <1>6
<1>8. V[0] = 0 /\ \A k \in 1 .. n : V[k] = x[n - k] + B * V[k - 1]
  <2> HIDE DEF V
  <2> QED
    BY <1>7
<1> HIDE DEF V
<1> DEFINE T == {k \in 0 .. n : V[k] = g[k]}
<1>9. 0 \in T
  BY <1>4, <1>8 DEF Follows
<1>10. \A k \in 0 .. n - 1 : k \in T => k + 1 \in T
  BY <1>5, <1>8
<1>11. V[n] = g[n]
  <2>1. 0 .. n \subseteq T
    <3> HIDE DEF T
    <3> QED
      BY <1>9, <1>10, InductionTo
  <2> QED
    BY <2>1
<1> QED
  BY <1>1, <1>4, <1>5, <1>11 DEF Follows, Horner

(* One more limb. *)
LEMMA ValZero == ASSUME NEW x PROVE Val(x, 0) = 0
<1>1. Holds(x, 0)
  BY DEF Holds
<1> QED
  BY <1>1, ValFunction DEF Horner

(* A number of one limb more. *)
LEMMA ValStep ==
  ASSUME NEW n \in Nat, NEW x, Holds(x, n + 1)
  PROVE  Val(x, n + 1) = Val(x, n) + Power(n) * x[n]
<1> DEFINE m == n + 1
<1>1. m \in Nat /\ m - 1 = n /\ Holds(x, m) /\ Holds(x, n)
  BY DEF Holds
<1>2. PICK v \in [0 .. n -> Int] : Horner(v, x, n)
  BY <1>1, ValFunction
<1>3. PICK w \in [0 .. m -> Int] : Horner(w, x, m)
  <2> HIDE DEF m
  <2>1. m \in Nat
    BY <1>1
  <2>2. Holds(x, m)
    BY <1>1
  <2> QED
    BY <2>1, <2>2, ValFunction
<1>4. \A k \in 0 .. n : x[k] \in Int
  BY Base DEF Holds, Limb
<1> DEFINE T == {k \in 0 .. n : w[k + 1] = v[k] + Power(k) * x[n]}
<1>5. 0 \in T
  <2>1. 1 \in 1 .. m /\ m - 1 = n /\ 1 - 1 = 0
    OBVIOUS
  <2>2. w[1] = x[m - 1] + B * w[1 - 1]
    BY <1>3, <2>1 DEF Horner
  <2>3. Power(0) = 1
    BY PowerStep
  <2>4. B \in Int /\ x[n] \in Int
    BY Base, <1>4
  <2> HIDE DEF m
  <2> QED
    BY <1>2, <1>3, <2>1, <2>2, <2>3, <2>4 DEF Horner
<1>6. ASSUME NEW k \in 0 .. n - 1, k \in T PROVE k + 1 \in T
  <2>1. /\ k + 1 \in 1 .. n /\ (k + 1) - 1 = k
        /\ k + 2 \in 1 .. m /\ (k + 2) - 1 = k + 1 /\ (k + 1) + 1 = k + 2
        /\ m - (k + 2) = n - (k + 1)
        /\ n - (k + 1) \in 0 .. n /\ k \in Nat /\ k \in 0 .. n
    OBVIOUS
  <2>2. v[k + 1] = x[n - (k + 1)] + B * v[k]
    BY <1>2, <2>1 DEF Horner
  <2>3. w[k + 2] = x[n - (k + 1)] + B * w[k + 1]
    BY <1>3, <2>1 DEF Horner
  <2>4. w[k + 1] = v[k] + Power(k) * x[n]
    BY <1>6
  <2>5. Power(k + 1) = B * Power(k) /\ Power(k) \in Nat
    BY PowerStep, <2>1
  <2>6. x[n - (k + 1)] \in Int /\ x[n] \in Int /\ v[k] \in Int /\ B \in Int
    BY <1>2, <1>4, <2>1, Base
  <2>7. w[k + 2] = v[k + 1] + Power(k + 1) * x[n]
    <3> DEFINE a == x[n - (k + 1)]   b == x[n]   c == v[k]   p == Power(k)
    <3>1. a \in Int /\ b \in Int /\ c \in Int /\ p \in Int /\ B \in Int
      BY <2>6, <2>5
    <3>2. w[k + 2] = a + B * (c + p * b)
      BY <2>3, <2>4
    <3>3. v[k + 1] = a + B * c
      BY <2>2
    <3> HIDE DEF a, b, c, p
    <3>4. a + B * (c + p * b) = (a + B * c) + (B * p) * b
      BY <3>1
    <3> QED
      BY <3>2, <3>3, <3>4, <2>5 DEF b, p
  <2> QED
    BY <2>1, <2>7
<1>7. w[n + 1] = v[n] + Power(n) * x[n]
  <2>1. 0 .. n \subseteq T
    <3> HIDE DEF T
    <3> QED
      BY <1>5, <1>6, InductionTo
  <2> QED
    BY <2>1
<1> QED
  BY <1>2, <1>3, <1>7 DEF Horner

(* n limbs stand for a number below B to the power n. *)
LEMMA ValRange ==
  ASSUME NEW n \in Nat, NEW x, Holds(x, n)
  PROVE  Val(x, n) \in Nat /\ Val(x, n) < Power(n)
<1> DEFINE T == {k \in 0 .. n : Val(x, k) \in Nat /\ Val(x, k) < Power(k)}
<1>1. 0 \in T
  BY ValZero, PowerStep
<1>2. ASSUME NEW k \in 0 .. n - 1, k \in T PROVE k + 1 \in T
  <2>1. k \in Nat /\ Holds(x, k + 1) /\ x[k] \in 0 .. B - 1 /\ B \in Nat
    BY Base DEF Holds, Limb
  <2>2. Val(x, k + 1) = Val(x, k) + Power(k) * x[k]
    BY <2>1, ValStep
  <2>3. Power(k + 1) = B * Power(k) /\ Power(k) \in Nat
    BY PowerStep, <2>1
  <2>4. Val(x, k) \in Nat /\ Val(x, k) <= Power(k) - 1
    BY <1>2, <2>3
  <2> DEFINE a == Val(x, k)   p == Power(k)   b == x[k]
  <2>5. a \in Nat /\ p \in Nat /\ b \in Nat /\ B - 1 - b \in Nat /\ a <= p - 1
    BY <2>1, <2>3, <2>4
  <2> HIDE DEF a, p, b
  <2>6. p * b \in Nat /\ p * (B - 1 - b) \in Nat
    BY <2>5
  <2>7. p * (B - 1 - b) = B * p - p - p * b
    BY <2>5, <2>1
  <2>8. B * p \in Nat
    BY <2>5, <2>1
  <2>9. a + p * b \in Nat /\ a + p * b < B * p
    BY <2>5, <2>6, <2>7, <2>8
  <2> QED
    BY <2>2, <2>3, <2>9 DEF a, p, b
<1> QED
  <2>1. 0 .. n \subseteq T
    <3> HIDE DEF T
    <3> QED
      BY <1>1, <1>2, InductionTo
  <2> QED
    BY <2>1

(* The value depends on the n limbs alone. *)
LEMMA ValSame ==
  ASSUME NEW n \in Nat, NEW x, NEW y, Holds(x, n), \A i \in 0 .. n - 1 : x[i] = y[i]
  PROVE  Val(x, n) = Val(y, n)
<1> DEFINE T == {k \in 0 .. n : Val(x, k) = Val(y, k)}
<1>1. 0 \in T
  BY ValZero
<1>2. ASSUME NEW k \in 0 .. n - 1, k \in T PROVE k + 1 \in T
  <2>1. k \in Nat /\ Holds(x, k + 1) /\ Holds(y, k + 1) /\ x[k] = y[k]
    BY DEF Holds
  <2>2. Val(x, k + 1) = Val(x, k) + Power(k) * x[k]
    BY <2>1, ValStep
  <2>3. Val(y, k + 1) = Val(y, k) + Power(k) * y[k]
    BY <2>1, ValStep
  <2> QED
    BY <2>1, <2>2, <2>3, <1>2
<1> QED
  <2>1. 0 .. n \subseteq T
    <3> HIDE DEF T
    <3> QED
      BY <1>1, <1>2, InductionTo
  <2> QED
    BY <2>1

(* The limbs from m on, times the power of their position, and those below. *)
LEMMA ValSplit ==
  ASSUME NEW m \in Nat, NEW n \in Nat, NEW x, Holds(x, m + n)
  PROVE  Val(x, m + n) = Val(x, m) + Power(m) * Val(From(x, m, n), n)
<1> DEFINE y == From(x, m, n)
           T == {k \in 0 .. n : /\ Val(x, m + k) = Val(x, m) + Power(m) * Val(y, k)
                                /\ Power(m + k) = Power(m) * Power(k)}
<1>0. Holds(y, n) /\ Holds(x, m)
  BY DEF Holds, From
<1>1. 0 \in T
  <2>1. Val(x, m) \in Int /\ Power(m) \in Int
    BY <1>0, ValRange, PowerStep
  <2> QED
    BY <2>1, ValZero, PowerStep
<1>2. ASSUME NEW k \in 0 .. n - 1, k \in T PROVE k + 1 \in T
  <2>1. /\ k \in Nat /\ m + k \in Nat /\ (m + k) + 1 = m + (k + 1)
        /\ Holds(x, (m + k) + 1) /\ Holds(y, k + 1) /\ Holds(y, k) /\ y[k] = x[m + k]
        /\ y[k] \in Int /\ B \in Nat
    BY Base DEF Holds, From, Limb
  <2>2. Val(x, (m + k) + 1) = Val(x, m + k) + Power(m + k) * y[k]
    BY <2>1, ValStep
  <2>3. Val(y, k + 1) = Val(y, k) + Power(k) * y[k]
    BY <2>1, ValStep
  <2>4. Power(k + 1) = B * Power(k) /\ Power(k) \in Nat
    BY PowerStep, <2>1
  <2>5. Power((m + k) + 1) = B * Power(m + k)
    BY PowerStep, <2>1
  <2>6. Val(x, m) \in Int /\ Val(y, k) \in Int /\ Power(m) \in Int
    BY <1>0, <2>1, ValRange, PowerStep
  <2> DEFINE a == Val(x, m)   b == Val(y, k)   p == Power(m)   q == Power(k)   z == y[k]
  <2>7. Val(x, m + k) = a + p * b /\ Power(m + k) = p * q
    BY <1>2
  <2>8. a \in Int /\ b \in Int /\ p \in Int /\ q \in Int /\ z \in Int /\ B \in Int
    BY <2>1, <2>4, <2>6
  <2> HIDE DEF a, b, p, q, z
  <2>9. (a + p * b) + (p * q) * z = a + p * (b + q * z) /\ B * (p * q) = p * (B * q)
    BY <2>8
  <2>10. Val(x, m + (k + 1)) = a + p * (b + q * z)
    BY <2>1, <2>2, <2>7, <2>9 DEF z
  <2>11. Power(m + (k + 1)) = p * (B * q)
    BY <2>1, <2>5, <2>7, <2>9
  <2> QED
    BY <2>3, <2>4, <2>10, <2>11 DEF a, b, p, q, z
<1> QED
  <2>1. 0 .. n \subseteq T
    <3> HIDE DEF T
    <3> QED
      BY <1>1, <1>2, InductionTo
  <2> QED
    BY <2>1

(* Powers of sums of exponents. *)
LEMMA PowerSum ==
  ASSUME NEW m \in Nat, NEW n \in Nat
  PROVE  Power(m + n) = Power(m) * Power(n)
<1> DEFINE T == {k \in Nat : Power(m + k) = Power(m) * Power(k)}
<1>1. 0 \in T
  BY PowerStep
<1>2. ASSUME NEW k \in Nat, k \in T PROVE k + 1 \in T
  <2>1. m + k \in Nat /\ (m + k) + 1 = m + (k + 1) /\ B \in Nat
    BY Base
  <2>2. Power(k + 1) = B * Power(k) /\ Power(k) \in Nat /\ Power(m) \in Nat
    BY PowerStep
  <2>3. Power((m + k) + 1) = B * Power(m + k)
    BY PowerStep, <2>1
  <2> QED
    BY <1>2, <2>1, <2>2, <2>3
<1> QED
  <2>1. Nat \subseteq T
    <3> HIDE DEF T
    <3> QED
      BY <1>1, <1>2, Induction
  <2> QED
    BY <2>1

------------------------------------------------------------------------------
(* Quotient and remainder, and that nothing else is. *)
LEMMA DivMod ==
  ASSUME NEW b \in Nat \ {0}, NEW a \in Int
  PROVE  a \div b \in Int /\ a % b \in 0 .. b - 1 /\ a = b * (a \div b) + (a % b)
  OBVIOUS

(* A quotient and a remainder are known by their equation. *)
LEMMA DivModIs ==
  ASSUME NEW b \in Nat \ {0}, NEW a \in Int, NEW q \in Int, NEW r \in 0 .. b - 1,
         a = b * q + r
  PROVE  a \div b = q /\ a % b = r
  OBVIOUS

(* Wrap-around, by the multiple of B that brings a number into a limb.     *)
LEMMA WrapIs ==
  ASSUME NEW x \in Int, NEW k \in Int, NEW r \in Limb, x = B * k + r
  PROVE  Wrap(x) = r
<1>1. B \in Nat \ {0} /\ r \in 0 .. B - 1
  BY Base DEF Limb
<1>2. x % B = r
  BY <1>1, DivModIs
<1> QED
  BY <1>2 DEF Wrap

(* Wrap-around by one multiple of B at most. *)
LEMMA WrapNear ==
  ASSUME NEW x \in Int
  PROVE  /\ x \in Limb => Wrap(x) = x
         /\ x - B \in Limb => Wrap(x) = x - B
         /\ x + B \in Limb => Wrap(x) = x + B
<1>1. B \in Nat \ {0}
  BY Base
<1>2. ASSUME NEW k \in {0, 1, -1}, x - B * k \in Limb PROVE Wrap(x) = x - B * k
  <2> DEFINE r == x - B * k
  <2>1. r \in Limb /\ k \in Int /\ x = B * k + r
    BY <1>1, <1>2
  <2> HIDE DEF r
  <2>2. Wrap(x) = r
    BY <2>1, WrapIs
  <2> QED
    BY <2>2 DEF r
<1>3. x - B * 0 = x /\ x - B * 1 = x - B /\ x - B * (-1) = x + B
  BY <1>1
<1> QED
  BY <1>2, <1>3

(* The routines decide by comparisons whether a sum or a difference has    *)
(* wrapped.                                                                *)
LEMMA WrapSum ==
  ASSUME NEW x \in Limb, NEW y \in Limb
  PROVE  /\ Wrap(x + y) \in Limb
         /\ Bit(Wrap(x + y) < y) \in {0, 1}
         /\ Wrap(x + y) + B * Bit(Wrap(x + y) < y) = x + y
<1>1. x \in Nat /\ y \in Nat /\ x < B /\ y < B /\ B \in Nat
  BY Base DEF Limb
<1>2. CASE x + y < B
  <2>1. x + y \in Limb
    BY <1>1, <1>2 DEF Limb
  <2>2. Wrap(x + y) = x + y
    BY <1>1, <2>1, WrapNear
  <2> QED
    BY <1>1, <2>1, <2>2 DEF Bit
<1>3. CASE x + y >= B
  <2>1. x + y - B \in Limb
    BY <1>1, <1>3 DEF Limb
  <2>2. Wrap(x + y) = x + y - B
    BY <1>1, <2>1, WrapNear
  <2> QED
    BY <1>1, <2>1, <2>2 DEF Bit
<1> QED
  BY <1>1, <1>2, <1>3

(* A difference of two limbs wraps exactly when the comparison says so. *)
LEMMA WrapDifference ==
  ASSUME NEW x \in Limb, NEW y \in Limb
  PROVE  /\ Wrap(x - y) \in Limb
         /\ Bit(x < y) \in {0, 1}
         /\ Wrap(x - y) - B * Bit(x < y) = x - y
<1>1. x \in Nat /\ y \in Nat /\ x < B /\ y < B /\ B \in Nat
  BY Base DEF Limb
<1>2. CASE x >= y
  <2>1. x - y \in Limb
    BY <1>1, <1>2 DEF Limb
  <2>2. Wrap(x - y) = x - y
    BY <1>1, <2>1, WrapNear
  <2> QED
    BY <1>1, <1>2, <2>1, <2>2 DEF Bit
<1>3. CASE x < y
  <2>1. x - y + B \in Limb
    BY <1>1, <1>3 DEF Limb
  <2>2. Wrap(x - y) = x - y + B
    BY <1>1, <2>1, WrapNear
  <2> QED
    BY <1>1, <1>3, <2>1, <2>2 DEF Bit
<1> QED
  BY <1>1, <1>2, <1>3

(* Congruent numbers wrap alike. *)
LEMMA WrapSame ==
  ASSUME NEW x \in Int, NEW y \in Int, NEW k \in Int, x = y + B * k
  PROVE  Wrap(x) = Wrap(y)
<1> DEFINE q == y \div B   r == y % B
<1>1. B \in Nat \ {0}
  BY Base
<1>2. q \in Int /\ r \in 0 .. B - 1 /\ y = B * q + r
  BY <1>1, DivMod
<1> HIDE DEF q, r
<1>3. q + k \in Int /\ x = B * (q + k) + r
  BY <1>1, <1>2
<1>4. x % B = r
  BY <1>1, <1>2, <1>3, DivModIs
<1> QED
  BY <1>4 DEF Wrap, r

------------------------------------------------------------------------------
(***************************************************************************)
(* What an iteration hands to the next is a carry: if at every place the   *)
(* limb written and the carry out stand for x[k] + m * y[k] + the carry    *)
(* in, then so do the arrays.  All loops over limbs are of this kind, with *)
(* negative carries for borrows.                                           *)
(***************************************************************************)
Carried(d, x, m, y, c, l) ==
  /\ Holds(d, l) /\ Holds(x, l) /\ Holds(y, l)
  /\ \A k \in 0 .. l : c[k] \in Int
  /\ \A k \in 0 .. l - 1 : d[k] + B * c[k + 1] = x[k] + m * y[k] + c[k]

(* So the arrays stand for the sum, up to the carry out of the last limb. *)
LEMMA Carries ==
  ASSUME NEW l \in Nat, NEW d, NEW x, NEW y, NEW c, NEW m \in Int, Carried(d, x, m, y, c, l)
  PROVE  Val(d, l) + Power(l) * c[l] = Val(x, l) + m * Val(y, l) + c[0]
<1> USE DEF Carried
<1> DEFINE T == {k \in 0 .. l : Val(d, k) + Power(k) * c[k] = Val(x, k) + m * Val(y, k) + c[0]}
<1>1. 0 \in T
  <2>1. c[0] \in Int /\ Power(0) = 1 /\ Val(d, 0) = 0 /\ Val(x, 0) = 0 /\ Val(y, 0) = 0
    BY PowerStep, ValZero
  <2>2. Val(d, 0) + Power(0) * c[0] = Val(x, 0) + m * Val(y, 0) + c[0]
    BY <2>1
  <2> QED
    BY <2>2
<1>2. ASSUME NEW k \in 0 .. l - 1, k \in T PROVE k + 1 \in T
  <2>1. /\ k \in Nat /\ k + 1 \in 0 .. l /\ k \in 0 .. l
        /\ Holds(d, k + 1) /\ Holds(x, k + 1) /\ Holds(y, k + 1)
        /\ Holds(d, k) /\ Holds(x, k) /\ Holds(y, k)
        /\ d[k] \in Int /\ x[k] \in Int /\ y[k] \in Int
    BY Base DEF Holds, Limb
  <2>2. /\ Val(d, k + 1) = Val(d, k) + Power(k) * d[k]
        /\ Val(x, k + 1) = Val(x, k) + Power(k) * x[k]
        /\ Val(y, k + 1) = Val(y, k) + Power(k) * y[k]
    BY <2>1, ValStep
  <2>3. Power(k + 1) = B * Power(k) /\ Power(k) \in Int /\ B \in Int
    BY <2>1, PowerStep, Base
  <2>4. Val(d, k) \in Int /\ Val(x, k) \in Int /\ Val(y, k) \in Int
    BY <2>1, ValRange
  <2> DEFINE p == Power(k)
             dv == Val(d, k)  xv == Val(x, k)  yv == Val(y, k)
             dk == d[k]  xk == x[k]  yk == y[k]  ck == c[k]  cn == c[k + 1]  cz == c[0]
  <2>5. /\ p \in Int /\ dv \in Int /\ xv \in Int /\ yv \in Int /\ B \in Int
        /\ dk \in Int /\ xk \in Int /\ yk \in Int /\ ck \in Int /\ cn \in Int /\ cz \in Int
    BY <2>1, <2>3, <2>4
  <2>6. dv + p * ck = xv + m * yv + cz
    BY <1>2
  <2>7. dk + B * cn = xk + m * yk + ck
    OBVIOUS
  <2> HIDE DEF p, dv, xv, yv, dk, xk, yk, ck, cn, cz
  <2>8. (dv + p * dk) + (B * p) * cn = dv + p * (dk + B * cn)
    BY <2>5
  <2>9. p * (xk + m * yk + ck) = p * xk + m * (p * yk) + p * ck
    BY <2>5
  <2>10. xv + p * xk + m * (yv + p * yk) + cz = (xv + m * yv + cz) + p * xk + m * (p * yk)
    BY <2>5
  <2>11. /\ p * ck \in Int /\ p * xk \in Int /\ m * (p * yk) \in Int
         /\ p * (dk + B * cn) = p * xk + m * (p * yk) + p * ck
    BY <2>5, <2>7, <2>9
  <2>12. (dv + p * dk) + (B * p) * cn = xv + p * xk + m * (yv + p * yk) + cz
    BY <2>5, <2>6, <2>8, <2>10, <2>11
  <2>13. Val(d, k + 1) + Power(k + 1) * c[k + 1] = Val(x, k + 1) + m * Val(y, k + 1) + c[0]
    BY <2>2, <2>3, <2>12 DEF p, dv, xv, yv, dk, xk, yk, cn, cz
  <2> QED
    BY <2>1, <2>13
<1> QED
  <2>1. 0 .. l \subseteq T
    <3> HIDE DEF T
    <3> QED
      BY <1>1, <1>2, InductionTo
  <2> QED
    BY <2>1

(* A function that takes the steps G stays where they stay. *)
Takes(f, n, S, c, G) ==
  f[0] = c /\ \A k \in 1 .. n : f[k - 1] \in S => f[k] = G[k][f[k - 1]]

(* Induction along the steps. *)
LEMMA Iterates ==
  ASSUME NEW n \in Nat, NEW S, NEW c, NEW G, Steps(n, S, c, G), NEW f, Takes(f, n, S, c, G)
  PROVE  \A k \in 0 .. n : f[k] \in S
<1> DEFINE T == {k \in 0 .. n : f[k] \in S}
<1>1. 0 \in T
  BY DEF Steps, Takes
<1>2. ASSUME NEW k \in 0 .. n - 1, k \in T PROVE k + 1 \in T
  <2>1. k + 1 \in 1 .. n /\ (k + 1) - 1 = k /\ f[k] \in S
    BY <1>2
  <2>2. f[k + 1] = G[k + 1][f[k]]
    BY <2>1 DEF Takes
  <2>3. G[k + 1][f[k]] \in S
    BY <2>1 DEF Steps
  <2> QED
    BY <2>1, <2>2, <2>3
<1>3. 0 .. n \subseteq T
  <2> HIDE DEF T
  <2> QED
    BY <1>1, <1>2, InductionTo
<1> QED
  BY <1>3

(* The carry of an addition, and what ll_add_limbs leaves. *)
CarryOut(a, b, p) == Bit(Wrap(a + p) < p) + Bit(Wrap(b + Wrap(a + p)) < Wrap(a + p))

(* One iteration of ll_add_limbs: the two comparisons find the carry. *)
LEMMA CarryOutIs ==
  ASSUME NEW a \in Limb, NEW b \in Limb, NEW p \in {0, 1}
  PROVE  /\ CarryOut(a, b, p) \in {0, 1}
         /\ Wrap(a + b + p) \in Limb
         /\ Wrap(a + b + p) + B * CarryOut(a, b, p) = a + b + p
<1>1. /\ p \in Limb /\ B \in Nat /\ B >= 2
      /\ a \in Nat /\ b \in Nat /\ a <= B - 1 /\ b <= B - 1 /\ p \in Nat /\ p <= 1
  BY Base DEF Limb
<1> DEFINE t == Wrap(a + p)   u == Wrap(b + t)   e == Bit(t < p)   f == Bit(u < t)
<1>2. t \in Limb /\ e \in {0, 1} /\ t + B * e = a + p
  BY <1>1, WrapSum
<1>3. u \in Limb /\ f \in {0, 1} /\ u + B * f = b + t
  <2> HIDE DEF t
  <2> QED
    BY <1>2, WrapSum
<1>4. CarryOut(a, b, p) = e + f
  BY DEF CarryOut
<1>5. Wrap(a + b + p) = u
  <2> HIDE DEF t, u, e, f
  <2>1. e + f \in Int /\ a + b + p \in Int /\ a + b + p = B * (e + f) + u
    BY <1>1, <1>2, <1>3 DEF Limb
  <2> QED
    BY <1>3, <2>1, WrapIs
<1> HIDE DEF t, u, e, f
<1>6. u \in Nat /\ u + B * (e + f) = a + b + p
  BY <1>1, <1>2, <1>3 DEF Limb
<1>7. ~(e = 1 /\ f = 1)
  BY <1>1, <1>6
<1> QED
  BY <1>1, <1>2, <1>3, <1>4, <1>5, <1>6, <1>7

AddCarries(c, ad, bd, l) ==
  /\ c[0] = 0
  /\ \A k \in 1 .. l : c[k] = CarryOut(ad[k - 1], bd[k - 1], c[k - 1])
  /\ \A k \in 0 .. l : c[k] \in {0, 1}
  /\ AddLimbs(ad, bd, l) =
       [d |-> [i \in 0 .. l - 1 |-> Wrap(ad[i] + bd[i] + c[i])], c |-> c[l]]

(* The recursive function of AddLimbs exists and yields carries. *)
LEMMA AddLimbsCarries ==
  ASSUME NEW l \in Nat, NEW ad, NEW bd, Holds(ad, l), Holds(bd, l)
  PROVE  \E c : AddCarries(c, ad, bd, l)
<1> DEFINE Body(c) == [i \in 0 .. l |->
                         IF i = 0 THEN 0
                         ELSE LET p  == c[i - 1]
                                  t1 == Wrap(ad[i - 1] + p)
                              IN  Bit(t1 < p) + Bit(Wrap(bd[i - 1] + t1) < t1)]
           C == CHOOSE c : c = Body(c)
           G == [k \in 1 .. l |-> [p \in {0, 1} |-> CarryOut(ad[k - 1], bd[k - 1], p)]]
<1>1. AddLimbs(ad, bd, l) =
        [d |-> [i \in 0 .. l - 1 |-> Wrap(ad[i] + bd[i] + C[i])], c |-> C[l]]
  BY DEF AddLimbs
<1>2. \A k \in 1 .. l, p \in {0, 1} :
        G[k][p] = CarryOut(ad[k - 1], bd[k - 1], p) /\ G[k][p] \in {0, 1}
  <2>1. \A k \in 1 .. l : ad[k - 1] \in Limb /\ bd[k - 1] \in Limb
    BY DEF Holds
  <2> QED
    BY <2>1, CarryOutIs
<1>3. Steps(l, {0, 1}, 0, G)
  BY <1>2 DEF Steps
<1>4. PICK g \in [0 .. l -> {0, 1}] : Follows(g, l, 0, G)
  <2> HIDE DEF G
  <2> QED
    BY <1>3, Recursion
<1>5. \A k \in 1 .. l : g[k - 1] \in {0, 1}
  OBVIOUS
<1>6. \A k \in 1 .. l : g[k] = CarryOut(ad[k - 1], bd[k - 1], g[k - 1])
  <2> HIDE DEF G
  <2> QED
    BY <1>2, <1>4, <1>5 DEF Follows
<1>7. g = Body(g)
  BY <1>4, <1>6 DEF Follows, CarryOut
<1>8. C = Body(C)
  <2> HIDE DEF Body
  <2> QED
    BY <1>7
<1>9. C[0] = 0 /\ \A k \in 1 .. l : C[k] = CarryOut(ad[k - 1], bd[k - 1], C[k - 1])
  <2> HIDE DEF C
  <2> QED
    BY <1>8 DEF CarryOut
<1>10. \A k \in 0 .. l : C[k] \in {0, 1}
  <2> HIDE DEF C, G
  <2>1. Takes(C, l, {0, 1}, 0, G)
    BY <1>2, <1>9 DEF Takes
  <2> QED
    BY <1>3, <2>1, Iterates
<1> QED
  <2> HIDE DEF C
  <2> QED
    BY <1>1, <1>9, <1>10 DEF AddCarries

(* ll_add_limbs adds, and returns the carry. *)
LEMMA AddLimbsIs ==
  ASSUME NEW l \in Nat, NEW ad, NEW bd, Holds(ad, l), Holds(bd, l)
  PROVE  LET s == AddLimbs(ad, bd, l)
         IN  /\ s.d \in Arrays(l) /\ Holds(s.d, l)
             /\ s.c \in {0, 1}
             /\ Val(s.d, l) + Power(l) * s.c = Val(ad, l) + Val(bd, l)
<1>1. PICK c : AddCarries(c, ad, bd, l)
  BY AddLimbsCarries
<1> DEFINE d == [i \in 0 .. l - 1 |-> Wrap(ad[i] + bd[i] + c[i])]
<1>2. ASSUME NEW k \in 0 .. l - 1
      PROVE  /\ d[k] \in Limb
             /\ d[k] + B * c[k + 1] = ad[k] + 1 * bd[k] + c[k]
  <2>1. ad[k] \in Limb /\ bd[k] \in Limb /\ c[k] \in {0, 1} /\ bd[k] \in Int
    BY <1>1 DEF AddCarries, Holds, Limb
  <2>2. k + 1 \in 1 .. l /\ (k + 1) - 1 = k
    OBVIOUS
  <2>3. c[k + 1] = CarryOut(ad[k], bd[k], c[k])
    BY <1>1, <2>2 DEF AddCarries
  <2> QED
    BY <2>1, <2>3, CarryOutIs
<1>3. d \in Arrays(l) /\ Holds(d, l)
  BY <1>2 DEF Arrays, Holds
<1>4. \A k \in 0 .. l : c[k] \in Int
  BY <1>1 DEF AddCarries
<1> HIDE DEF d
<1>5. Val(d, l) + Power(l) * c[l] = Val(ad, l) + 1 * Val(bd, l) + c[0]
  <2>1. 1 \in Int /\ Carried(d, ad, 1, bd, c, l)
    BY <1>2, <1>3, <1>4 DEF Carried
  <2> QED
    BY <2>1, Carries
<1>6. Val(ad, l) \in Int /\ Val(bd, l) \in Int
  BY ValRange
<1>7. AddLimbs(ad, bd, l) = [d |-> d, c |-> c[l]]
  BY <1>1 DEF AddCarries, d
<1>8. c[l] \in {0, 1} /\ c[0] = 0
  BY <1>1 DEF AddCarries
<1>9. Val(d, l) + Power(l) * c[l] = Val(ad, l) + Val(bd, l)
  BY <1>5, <1>6, <1>8
<1> QED
  BY <1>3, <1>7, <1>8, <1>9

(* The borrow of a subtraction, and what ll_sub_limbs leaves. *)
BorrowOut(a, b, p) == Bit(a < p) + Bit(Wrap(a - p) < b)

(* One iteration of ll_sub_limbs: the two comparisons find the borrow. *)
LEMMA BorrowOutIs ==
  ASSUME NEW a \in Limb, NEW b \in Limb, NEW p \in {0, 1}
  PROVE  /\ BorrowOut(a, b, p) \in {0, 1}
         /\ Wrap(a - b - p) \in Limb
         /\ Wrap(a - b - p) - B * BorrowOut(a, b, p) = a - b - p
<1>1. /\ p \in Limb /\ B \in Nat /\ B >= 2
      /\ a \in Nat /\ b \in Nat /\ a <= B - 1 /\ b <= B - 1 /\ p \in Nat /\ p <= 1
  BY Base DEF Limb
<1> DEFINE t == Wrap(a - p)   u == Wrap(t - b)   e == Bit(a < p)   f == Bit(t < b)
<1>2. t \in Limb /\ e \in {0, 1} /\ t - B * e = a - p
  BY <1>1, WrapDifference
<1>3. u \in Limb /\ f \in {0, 1} /\ u - B * f = t - b
  <2> HIDE DEF t
  <2> QED
    BY <1>2, WrapDifference
<1>4. BorrowOut(a, b, p) = e + f
  BY DEF BorrowOut
<1>5. Wrap(a - b - p) = u
  <2> HIDE DEF t, u, e, f
  <2>1. -(e + f) \in Int /\ a - b - p \in Int /\ a - b - p = B * (-(e + f)) + u
    BY <1>1, <1>2, <1>3 DEF Limb
  <2> QED
    BY <1>3, <2>1, WrapIs
<1> HIDE DEF t, u, e, f
<1>6. u \in Nat /\ u <= B - 1 /\ u - B * (e + f) = a - b - p
  BY <1>1, <1>2, <1>3 DEF Limb
<1>7. ~(e = 1 /\ f = 1)
  BY <1>1, <1>6
<1> QED
  BY <1>1, <1>2, <1>3, <1>4, <1>5, <1>6, <1>7

SubCarries(c, ad, bd, l) ==
  /\ c[0] = 0
  /\ \A k \in 1 .. l : c[k] = BorrowOut(ad[k - 1], bd[k - 1], c[k - 1])
  /\ \A k \in 0 .. l : c[k] \in {0, 1}
  /\ SubLimbs(ad, bd, l) =
       [d |-> [i \in 0 .. l - 1 |-> Wrap(ad[i] - bd[i] - c[i])], c |-> c[l]]

(* The recursive function of SubLimbs exists and yields borrows. *)
LEMMA SubLimbsCarries ==
  ASSUME NEW l \in Nat, NEW ad, NEW bd, Holds(ad, l), Holds(bd, l)
  PROVE  \E c : SubCarries(c, ad, bd, l)
<1> DEFINE Body(c) == [i \in 0 .. l |->
                         IF i = 0 THEN 0
                         ELSE LET p == c[i - 1]
                              IN  Bit(ad[i - 1] < p) + Bit(Wrap(ad[i - 1] - p) < bd[i - 1])]
           C == CHOOSE c : c = Body(c)
           G == [k \in 1 .. l |-> [p \in {0, 1} |-> BorrowOut(ad[k - 1], bd[k - 1], p)]]
<1>1. SubLimbs(ad, bd, l) =
        [d |-> [i \in 0 .. l - 1 |-> Wrap(ad[i] - bd[i] - C[i])], c |-> C[l]]
  BY DEF SubLimbs
<1>2. \A k \in 1 .. l, p \in {0, 1} :
        G[k][p] = BorrowOut(ad[k - 1], bd[k - 1], p) /\ G[k][p] \in {0, 1}
  <2>1. \A k \in 1 .. l : ad[k - 1] \in Limb /\ bd[k - 1] \in Limb
    BY DEF Holds
  <2> QED
    BY <2>1, BorrowOutIs
<1>3. Steps(l, {0, 1}, 0, G)
  BY <1>2 DEF Steps
<1>4. PICK g \in [0 .. l -> {0, 1}] : Follows(g, l, 0, G)
  <2> HIDE DEF G
  <2> QED
    BY <1>3, Recursion
<1>5. \A k \in 1 .. l : g[k - 1] \in {0, 1}
  OBVIOUS
<1>6. \A k \in 1 .. l : g[k] = BorrowOut(ad[k - 1], bd[k - 1], g[k - 1])
  <2> HIDE DEF G
  <2> QED
    BY <1>2, <1>4, <1>5 DEF Follows
<1>7. g = Body(g)
  BY <1>4, <1>6 DEF Follows, BorrowOut
<1>8. C = Body(C)
  <2> HIDE DEF Body
  <2> QED
    BY <1>7
<1>9. C[0] = 0 /\ \A k \in 1 .. l : C[k] = BorrowOut(ad[k - 1], bd[k - 1], C[k - 1])
  <2> HIDE DEF C
  <2> QED
    BY <1>8 DEF BorrowOut
<1>10. \A k \in 0 .. l : C[k] \in {0, 1}
  <2> HIDE DEF C, G
  <2>1. Takes(C, l, {0, 1}, 0, G)
    BY <1>2, <1>9 DEF Takes
  <2> QED
    BY <1>3, <2>1, Iterates
<1> QED
  <2> HIDE DEF C
  <2> QED
    BY <1>1, <1>9, <1>10 DEF SubCarries

(* ll_sub_limbs subtracts, and returns the borrow. *)
LEMMA SubLimbsIs ==
  ASSUME NEW l \in Nat, NEW ad, NEW bd, Holds(ad, l), Holds(bd, l)
  PROVE  LET s == SubLimbs(ad, bd, l)
         IN  /\ s.d \in Arrays(l) /\ Holds(s.d, l)
             /\ s.c \in {0, 1}
             /\ Val(s.d, l) - Power(l) * s.c = Val(ad, l) - Val(bd, l)
<1>1. PICK c : SubCarries(c, ad, bd, l)
  BY SubLimbsCarries
<1> DEFINE d == [i \in 0 .. l - 1 |-> Wrap(ad[i] - bd[i] - c[i])]
           e == [i \in 0 .. l |-> -c[i]]
<1>2. ASSUME NEW k \in 0 .. l - 1
      PROVE  /\ d[k] \in Limb
             /\ d[k] + B * e[k + 1] = ad[k] + (-1) * bd[k] + e[k]
  <2>1. ad[k] \in Limb /\ bd[k] \in Limb /\ c[k] \in {0, 1} /\ ad[k] \in Int /\ bd[k] \in Int
    BY <1>1 DEF SubCarries, Holds, Limb
  <2>2. k + 1 \in 1 .. l /\ (k + 1) - 1 = k /\ k + 1 \in 0 .. l /\ k \in 0 .. l
    OBVIOUS
  <2>3. c[k + 1] = BorrowOut(ad[k], bd[k], c[k])
    BY <1>1, <2>2 DEF SubCarries
  <2>4. /\ d[k] = Wrap(ad[k] - bd[k] - c[k]) /\ d[k] \in Limb
        /\ c[k + 1] \in {0, 1}
        /\ d[k] - B * c[k + 1] = ad[k] - bd[k] - c[k]
    BY <2>1, <2>3, BorrowOutIs
  <2>5. e[k + 1] = -c[k + 1] /\ e[k] = -c[k]
    BY <2>2
  <2> HIDE DEF d, e
  <2>6. d[k] \in Int
    BY <2>4, Base DEF Limb
  <2> QED
    BY <2>1, <2>4, <2>5, <2>6, Base
<1>3. d \in Arrays(l) /\ Holds(d, l)
  BY <1>2 DEF Arrays, Holds
<1>4. \A k \in 0 .. l : c[k] \in Int /\ e[k] \in Int /\ e[k] = -c[k]
  BY <1>1 DEF SubCarries
<1> DEFINE m == -1
<1> HIDE DEF d, e
<1>5. Val(d, l) + Power(l) * e[l] = Val(ad, l) + m * Val(bd, l) + e[0]
  <2>1. m \in Int /\ \A k \in 0 .. l - 1 : d[k] + B * e[k + 1] = ad[k] + m * bd[k] + e[k]
    BY <1>2
  <2> HIDE DEF m
  <2>2. Carried(d, ad, m, bd, e, l)
    BY <2>1, <1>3, <1>4 DEF Carried
  <2> QED
    BY <2>1, <2>2, Carries
<1>6. Val(ad, l) \in Int /\ Val(bd, l) \in Int /\ Val(d, l) \in Int /\ Power(l) \in Int
  BY <1>3, ValRange, PowerStep
<1>7. SubLimbs(ad, bd, l) = [d |-> d, c |-> c[l]]
  BY <1>1 DEF SubCarries, d
<1>8. c[l] \in {0, 1} /\ c[0] = 0 /\ e[l] = -c[l] /\ e[0] = -c[0]
  BY <1>1, <1>4 DEF SubCarries
<1>9. Val(d, l) - Power(l) * c[l] = Val(ad, l) - Val(bd, l)
  BY <1>5, <1>6, <1>8
<1> QED
  BY <1>3, <1>7, <1>8, <1>9

------------------------------------------------------------------------------
(* A product of two limbs leaves room for two more limbs to be added.      *)
LEMMA ProductRange ==
  ASSUME NEW a \in Limb, NEW b \in Limb
  PROVE  a * b \in Nat /\ a * b <= (B - 1) * (B - 1)
<1>1. a \in Nat /\ b \in Nat /\ B \in Nat /\ B - 1 - a \in Nat /\ B - 1 - b \in Nat /\ B - 1 \in Nat
  BY Base DEF Limb
<1>2. a * b \in Nat /\ (B - 1 - a) * b \in Nat /\ (B - 1) * (B - 1 - b) \in Nat
  BY <1>1
<1>3. (B - 1) * (B - 1) = a * b + (B - 1 - a) * b + (B - 1) * (B - 1 - b)
  BY <1>1
<1>4. (B - 1) * (B - 1) \in Nat
  BY <1>1
<1> DEFINE z == a * b  p == (B - 1 - a) * b  q == (B - 1) * (B - 1 - b)  s == (B - 1) * (B - 1)
<1> HIDE DEF z, p, q, s
<1>5. z \in Nat /\ z <= s
  BY <1>2, <1>3, <1>4 DEF z, p, q, s
<1> QED
  BY <1>5 DEF z, s

(* The two limbs of a product. *)
LEMMA LowHigh ==
  ASSUME NEW z \in Nat, z <= (B - 1) * (B - 1)
  PROVE  Lo(z) \in Limb /\ Hi(z) \in Nat /\ z = B * Hi(z) + Lo(z)
<1>1. B \in Nat \ {0}
  BY Base
<1>2. z \div B \in Int /\ z % B \in 0 .. B - 1 /\ z = B * (z \div B) + (z % B)
  BY <1>1, DivMod
<1>3. z \div B >= 0
  BY <1>1
<1> QED
  BY <1>2, <1>3 DEF Lo, Hi, Limb

(* What is below a square of B has an upper half below B. *)
LEMMA CarryFits ==
  ASSUME NEW h \in Nat, NEW e \in Limb, B * h <= e + (B - 1) * (B - 1) + (B - 1)
  PROVE  h \in Limb /\ Wrap(h) = h
<1>1. B \in Nat /\ B >= 2 /\ e \in Nat /\ e <= B - 1
  BY Base DEF Limb
<1>2. CASE h >= B
  <2>1. h - B \in Nat
    BY <1>1, <1>2
  <2>2. B * (h - B) \in Nat /\ B * h = B * (h - B) + B * B
    BY <1>1, <2>1
  <2>3. (B - 1) * (B - 1) = B * B - 2 * B + 1 /\ B * B \in Nat /\ B * h \in Nat
    BY <1>1
  <2> QED
    BY <1>1, <2>2, <2>3
<1>3. CASE h < B
  <2>1. h \in Limb /\ h \in Int
    BY <1>1, <1>3 DEF Limb
  <2> QED
    BY <2>1, WrapNear
<1> QED
  BY <1>1, <1>2, <1>3

(* One iteration of ll_mulsub_limb: r - z, with z the product and t the    *)
(* carry of the iteration before.                                          *)
MulSubOut(r, z, t) ==
  Wrap(Hi(z) + Bit(Wrap(t + Lo(z)) < Lo(z)) + Bit(r < Wrap(t + Lo(z))))

(* It leaves the difference modulo B and hands on what was borrowed. *)
LEMMA MulSubOutIs ==
  ASSUME NEW r \in Limb, NEW z \in Nat, z <= (B - 1) * (B - 1), NEW t \in Limb
  PROVE  /\ MulSubOut(r, z, t) \in Limb
         /\ Wrap(r - Wrap(t + z)) \in Limb
         /\ Wrap(r - Wrap(t + z)) - B * MulSubOut(r, z, t) = r - z - t
<1> DEFINE lo == Lo(z)   hi == Hi(z)   u == Wrap(t + lo)
           e == Bit(u < lo)   f == Bit(r < u)   d == Wrap(r - u)
<1>1. lo \in Limb /\ hi \in Nat /\ z = B * hi + lo /\ B \in Nat
  BY LowHigh, Base
<1>2. u \in Limb /\ e \in {0, 1} /\ u + B * e = t + lo
  <2> HIDE DEF lo, hi
  <2> QED
    BY <1>1, WrapSum
<1>3. d \in Limb /\ f \in {0, 1} /\ d - B * f = r - u
  <2> HIDE DEF u
  <2> QED
    BY <1>2, WrapDifference
<1>4. MulSubOut(r, z, t) = Wrap(hi + e + f)
  BY DEF MulSubOut
<1>5. Wrap(t + z) = u
  <2> HIDE DEF lo, hi, u, e
  <2>1. hi + e \in Int /\ t + z \in Int /\ t + z = B * (hi + e) + u
    BY <1>1, <1>2 DEF Limb
  <2> QED
    BY <1>2, <2>1, WrapIs
<1> HIDE DEF lo, hi, u, e, f, d
<1>6. /\ r \in Nat /\ t \in Nat /\ u \in Nat /\ d \in Nat /\ lo \in Nat /\ r <= B - 1 /\ t <= B - 1
      /\ e \in Nat /\ f \in Nat /\ hi \in Nat
  BY <1>1, <1>2, <1>3 DEF Limb
<1>7. d - B * (hi + e + f) = r - z - t
  BY <1>1, <1>2, <1>3, <1>6
<1>8. hi + e + f \in Limb /\ Wrap(hi + e + f) = hi + e + f
  <2>1. hi + e + f \in Nat
    BY <1>6
  <2> DEFINE h == hi + e + f   s == (B - 1) * (B - 1)
  <2>2. d - B * h = r - z - t /\ h \in Nat /\ z <= s /\ B * h \in Int /\ s \in Int
    BY <1>1, <1>7, <2>1
  <2>3. d <= B - 1
    BY <1>3 DEF Limb
  <2> HIDE DEF h
  <2>4. B * h <= d + s + (B - 1)
    <3> HIDE DEF s
    <3> QED
      BY <1>1, <1>6, <2>2
  <2> QED
    BY <1>3, <2>2, <2>4, CarryFits DEF h
<1> QED
  BY <1>3, <1>4, <1>5, <1>7, <1>8 DEF d

(* Zero limbs on top do not change the value. *)
LEMMA ValPad ==
  ASSUME NEW m \in Nat, NEW n \in Nat, m <= n, NEW x, Holds(x, m),
         \A i \in m .. n - 1 : x[i] = 0
  PROVE  Holds(x, n) /\ Val(x, n) = Val(x, m)
<1> DEFINE T == {k \in 0 .. n - m : Val(x, m + k) = Val(x, m)}
<1>1. Holds(x, n)
  <2>1. \A i \in 0 .. n - 1 : i \in 0 .. m - 1 \/ i \in m .. n - 1
    OBVIOUS
  <2>2. 0 \in Limb
    BY Base DEF Limb
  <2> QED
    BY <2>1, <2>2 DEF Holds
<1>2. n - m \in Nat /\ 0 \in T
  OBVIOUS
<1>3. ASSUME NEW k \in 0 .. (n - m) - 1, k \in T PROVE k + 1 \in T
  <2>1. m + k \in Nat /\ m + k \in m .. n - 1 /\ (m + k) + 1 = m + (k + 1) /\ Holds(x, (m + k) + 1)
    BY <1>1 DEF Holds
  <2>2. Val(x, (m + k) + 1) = Val(x, m + k) + Power(m + k) * x[m + k]
    BY <2>1, ValStep
  <2>3. x[m + k] = 0 /\ Power(m + k) \in Int /\ Val(x, m) \in Int
    BY <2>1, PowerStep, ValRange
  <2>4. Val(x, m + k) = Val(x, m)
    BY <1>3
  <2> QED
    BY <2>1, <2>2, <2>3, <2>4
<1>4. Val(x, m + (n - m)) = Val(x, m)
  <2>1. 0 .. n - m \subseteq T
    <3> HIDE DEF T
    <3> QED
      BY <1>2, <1>3, InductionTo
  <2> QED
    BY <2>1, <1>2
<1>5. m + (n - m) = n
  OBVIOUS
<1> QED
  BY <1>1, <1>4, <1>5

(* The product of place k in a row of length rl. *)
Product(ad, b, al, k) == IF k < al THEN ad[k] * b ELSE 0

(* A limb product, or 0 beyond the end of the factor. *)
LEMMA ProductIs ==
  ASSUME NEW al \in Nat, NEW ad, Holds(ad, al), NEW b \in Limb, NEW k \in Nat
  PROVE  Product(ad, b, al, k) \in Nat /\ Product(ad, b, al, k) <= (B - 1) * (B - 1)
<1>1. CASE k < al
  <2>1. ad[k] \in Limb
    BY <1>1 DEF Holds
  <2>2. ad[k] * b \in Nat /\ ad[k] * b <= (B - 1) * (B - 1)
    BY <2>1, ProductRange
  <2> QED
    BY <1>1, <2>2 DEF Product
<1>2. CASE ~(k < al)
  <2>1. (B - 1) * (B - 1) \in Nat
    BY Base
  <2> QED
    BY <1>2, <2>1 DEF Product
<1> QED
  BY <1>1, <1>2

(* Beyond the operand the product is zero, and the code looks at the       *)
(* borrow alone.                                                           *)
LEMMA MulSubOutZero ==
  ASSUME NEW r \in Limb, NEW t \in Limb
  PROVE  MulSubOut(r, 0, t) = Bit(r < Wrap(t + Lo(0)))
<1>1. B \in Nat \ {0} /\ B >= 2 /\ 0 = B * 0 + 0 /\ 0 \in 0 .. B - 1
  BY Base
<1>2. Lo(0) = 0 /\ Hi(0) = 0
  <2> DEFINE z == 0
  <2>1. z \in Int /\ z \in 0 .. B - 1 /\ z = B * z + z
    BY <1>1
  <2> HIDE DEF z
  <2>2. z % B = z /\ z \div B = z
    BY <1>1, <2>1, DivModIs
  <2> QED
    BY <2>2 DEF Lo, Hi, z
<1>3. t + 0 = t /\ t \in Int /\ t >= 0
  BY DEF Limb
<1>4. Wrap(t + 0) = t
  BY <1>3, WrapNear
<1>5. Bit(t < 0) = 0 /\ Bit(r < t) \in {0, 1}
  BY <1>3 DEF Bit
<1>6. 0 + 0 + Bit(r < t) \in Limb /\ 0 + 0 + Bit(r < t) \in Int
  BY <1>1, <1>5 DEF Limb
<1>7. Wrap(0 + 0 + Bit(r < t)) = 0 + 0 + Bit(r < t)
  BY <1>6, WrapNear
<1>8. MulSubOut(r, 0, t) = Wrap(0 + Bit(t < 0) + Bit(r < t))
  BY <1>2, <1>4 DEF MulSubOut
<1>9. MulSubOut(r, 0, t) = 0 + 0 + Bit(r < t)
  BY <1>5, <1>7, <1>8
<1> QED
  BY <1>2, <1>4, <1>5, <1>9

MulSubCarries(c, rd, ad, b, rl, al) ==
  /\ c[0] = 0
  /\ \A k \in 1 .. rl : c[k] = MulSubOut(rd[k - 1], Product(ad, b, al, k - 1), c[k - 1])
  /\ \A k \in 0 .. rl : c[k] \in Limb
  /\ MulSubLimb(rd, ad, b, rl, al) =
       [d |-> [i \in DOMAIN rd |->
                 IF i < rl THEN Wrap(rd[i] - Wrap(c[i] + Product(ad, b, al, i))) ELSE rd[i]],
        c |-> c[rl]]

(* The recursive function of MulSubLimb exists and yields carries. *)
LEMMA MulSubLimbCarries ==
  ASSUME NEW rl \in Nat, NEW al \in 0 .. rl, NEW rd, NEW ad, NEW b \in Limb,
         Holds(rd, rl), Holds(ad, al)
  PROVE  \E c : MulSubCarries(c, rd, ad, b, rl, al)
<1> DEFINE product(i) == IF i < al THEN ad[i] * b ELSE 0
           Step(t, i) == LET lo == Lo(product(i - 1))
                             t1 == Wrap(t[i - 1] + lo)
                         IN  IF i <= al
                             THEN Wrap(Hi(product(i - 1)) + Bit(t1 < lo) + Bit(rd[i - 1] < t1))
                             ELSE Bit(rd[i - 1] < t1)
           Body(t) == [i \in 0 .. rl |-> IF i = 0 THEN 0 ELSE Step(t, i)]
           C == CHOOSE t : t = Body(t)
           G == [k \in 1 .. rl |-> [t \in Limb |->
                   MulSubOut(rd[k - 1], Product(ad, b, al, k - 1), t)]]
<1>1. MulSubLimb(rd, ad, b, rl, al) =
        [d |-> [i \in DOMAIN rd |->
                  IF i < rl THEN Wrap(rd[i] - Wrap(C[i] + Product(ad, b, al, i))) ELSE rd[i]],
         c |-> C[rl]]
  BY DEF MulSubLimb, Product
<1>2. \A k \in 1 .. rl, t \in Limb :
        /\ G[k][t] = MulSubOut(rd[k - 1], Product(ad, b, al, k - 1), t)
        /\ G[k][t] \in Limb
        /\ k > al => G[k][t] = Bit(rd[k - 1] < Wrap(t + Lo(Product(ad, b, al, k - 1))))
  <2> TAKE k \in 1 .. rl, t \in Limb
  <2>1. rd[k - 1] \in Limb /\ k - 1 \in Nat
    BY DEF Holds
  <2>2. MulSubOut(rd[k - 1], Product(ad, b, al, k - 1), t) \in Limb
    BY <2>1, ProductIs, MulSubOutIs
  <2>3. k > al => Product(ad, b, al, k - 1) = 0
    BY DEF Product
  <2> QED
    BY <2>1, <2>2, <2>3, MulSubOutZero
<1>3. Steps(rl, Limb, 0, G)
  <2>1. 0 \in Limb
    BY Base DEF Limb
  <2> QED
    BY <1>2, <2>1 DEF Steps
<1>4. PICK g \in [0 .. rl -> Limb] : Follows(g, rl, 0, G)
  <2> HIDE DEF G
  <2> QED
    BY <1>3, Recursion
<1>5. ASSUME NEW f, NEW k \in 1 .. rl, f[k - 1] \in Limb
      PROVE  G[k][f[k - 1]] = Step(f, k)
  <2>1. CASE k <= al
    <3>1. G[k][f[k - 1]] = MulSubOut(rd[k - 1], Product(ad, b, al, k - 1), f[k - 1])
      BY <1>2, <1>5
    <3> HIDE DEF G
    <3> QED
      BY <3>1, <2>1 DEF MulSubOut, Product
  <2>2. CASE k > al
    <3>1. G[k][f[k - 1]] = Bit(rd[k - 1] < Wrap(f[k - 1] + Lo(Product(ad, b, al, k - 1))))
      BY <1>2, <1>5, <2>2
    <3> HIDE DEF G
    <3> QED
      BY <3>1, <2>2 DEF Product
  <2> QED
    BY <2>1, <2>2
<1>6. g = Body(g)
  <2>1. \A k \in 1 .. rl : g[k - 1] \in Limb /\ g[k] = G[k][g[k - 1]]
    BY <1>4 DEF Follows
  <2>2. g[0] = 0
    BY <1>4 DEF Follows
  <2> HIDE DEF G, Step
  <2>3. \A k \in 1 .. rl : g[k] = Step(g, k)
    BY <1>5, <2>1
  <2> QED
    BY <2>2, <2>3
<1>7. C = Body(C)
  <2> HIDE DEF Body
  <2> QED
    BY <1>6
<1>8. Takes(C, rl, Limb, 0, G)
  <2> HIDE DEF C, G
  <2>1. C[0] = 0
    BY <1>7
  <2>2. ASSUME NEW k \in 1 .. rl, C[k - 1] \in Limb PROVE C[k] = G[k][C[k - 1]]
    <3> HIDE DEF Step
    <3>1. C[k] = Step(C, k)
      BY <1>7
    <3> QED
      BY <1>5, <2>2, <3>1
  <2> QED
    BY <2>1, <2>2 DEF Takes
<1>9. \A k \in 0 .. rl : C[k] \in Limb
  <2> HIDE DEF C, G
  <2> QED
    BY <1>3, <1>8, Iterates
<1> QED
  <2> HIDE DEF C, G
  <2>1. \A k \in 1 .. rl : C[k] = MulSubOut(rd[k - 1], Product(ad, b, al, k - 1), C[k - 1])
    BY <1>2, <1>8, <1>9 DEF Takes
  <2> QED
    BY <1>1, <1>8, <1>9, <2>1 DEF MulSubCarries, Takes

(* ll_mulsub_limb subtracts the product, and returns what was borrowed. *)
LEMMA MulSubLimbIs ==
  ASSUME NEW rl \in Nat, NEW al \in 0 .. rl, NEW rd, NEW ad, NEW b \in Limb,
         Holds(rd, rl), Holds(ad, al), 0 .. rl - 1 \subseteq DOMAIN rd
  PROVE  LET m == MulSubLimb(rd, ad, b, rl, al)
         IN  /\ m.c \in Limb
             /\ DOMAIN m.d = DOMAIN rd
             /\ Holds(m.d, rl)
             /\ \A i \in DOMAIN rd : ~(i < rl) => m.d[i] = rd[i]
             /\ Val(m.d, rl) - Power(rl) * m.c = Val(rd, rl) - b * Val(ad, al)
<1>1. PICK c : MulSubCarries(c, rd, ad, b, rl, al)
  BY MulSubLimbCarries
<1> DEFINE d == [i \in DOMAIN rd |->
                   IF i < rl THEN Wrap(rd[i] - Wrap(c[i] + Product(ad, b, al, i))) ELSE rd[i]]
           e == [i \in 0 .. rl |-> -c[i]]
           y == [i \in 0 .. rl - 1 |-> IF i < al THEN ad[i] ELSE 0]
           m == -b
<1>2. Holds(y, al) /\ Holds(y, rl) /\ Val(y, rl) = Val(ad, al)
  <2>1. Holds(y, al) /\ (\A i \in 0 .. al - 1 : ad[i] = y[i]) /\ \A i \in al .. rl - 1 : y[i] = 0
    BY DEF Holds
  <2> HIDE DEF y
  <2>2. Val(ad, al) = Val(y, al)
    BY <2>1, ValSame
  <2> QED
    BY <2>1, <2>2, ValPad
<1>3. ASSUME NEW k \in 0 .. rl - 1
      PROVE  d[k] \in Limb /\ d[k] + B * e[k + 1] = rd[k] + m * y[k] + e[k]
  <2>1. /\ k + 1 \in 1 .. rl /\ (k + 1) - 1 = k /\ k + 1 \in 0 .. rl /\ k \in 0 .. rl
        /\ k \in Nat /\ k \in DOMAIN rd /\ k < rl
    OBVIOUS
  <2>2. rd[k] \in Limb /\ c[k] \in Limb /\ c[k + 1] \in Limb
    BY <1>1, <2>1 DEF MulSubCarries, Holds
  <2> DEFINE z == Product(ad, b, al, k)
  <2>3. z \in Nat /\ z <= (B - 1) * (B - 1)
    BY <2>1, ProductIs
  <2>4. c[k + 1] = MulSubOut(rd[k], z, c[k])
    BY <1>1, <2>1 DEF MulSubCarries
  <2>5. d[k] = Wrap(rd[k] - Wrap(c[k] + z))
    BY <2>1
  <2>6. b \in Int /\ y[k] \in Int /\ z = b * y[k] /\ m * y[k] = -(b * y[k])
    <3>1. b \in Int /\ y[k] \in Int
      BY <1>2, Base DEF Holds, Limb
    <3>2. k < al => ad[k] \in Int
      BY Base DEF Holds, Limb
    <3>3. z = b * y[k]
      BY <3>1, <3>2, <2>1 DEF Product
    <3> QED
      BY <3>1, <3>3
  <2> HIDE DEF z, d
  <2>7. d[k] \in Limb /\ d[k] - B * c[k + 1] = rd[k] - z - c[k]
    BY <2>2, <2>3, <2>4, <2>5, MulSubOutIs
  <2>8. e[k + 1] = -c[k + 1] /\ e[k] = -c[k]
    BY <2>1
  <2> HIDE DEF e, m, y
  <2>9. rd[k] \in Int /\ c[k] \in Int /\ c[k + 1] \in Int /\ d[k] \in Int /\ B \in Int
    BY <2>2, <2>7, Base DEF Limb
  <2> QED
    BY <2>3, <2>6, <2>7, <2>8, <2>9
<1>4. Holds(d, rl) /\ DOMAIN d = DOMAIN rd
  BY <1>3 DEF Holds
<1>5. \A k \in 0 .. rl : c[k] \in Limb /\ e[k] \in Int /\ e[k] = -c[k]
  BY <1>1, Base DEF MulSubCarries, Limb
<1>6. \A i \in DOMAIN rd : ~(i < rl) => d[i] = rd[i]
  OBVIOUS
<1>7. m \in Int /\ b \in Int
  BY Base DEF Limb
<1>8. MulSubLimb(rd, ad, b, rl, al) = [d |-> d, c |-> c[rl]]
  BY <1>1 DEF MulSubCarries
<1>9. c[0] = 0
  BY <1>1 DEF MulSubCarries
<1>10. m * Val(y, rl) = -(b * Val(y, rl)) /\ Val(y, rl) \in Int
  <2>1. Val(y, rl) \in Int
    BY <1>2, ValRange
  <2> HIDE DEF y
  <2> QED
    BY <2>1, <1>7
<1> HIDE DEF d, e, y, m
<1>11. Val(d, rl) + Power(rl) * e[rl] = Val(rd, rl) + m * Val(y, rl) + e[0]
  <2>1. Carried(d, rd, m, y, e, rl)
    BY <1>2, <1>3, <1>4, <1>5 DEF Carried
  <2> QED
    BY <2>1, <1>7, Carries
<1>12. Val(d, rl) - Power(rl) * c[rl] = Val(rd, rl) - b * Val(ad, al)
  <2>1. Val(d, rl) \in Int /\ Power(rl) \in Int /\ Val(rd, rl) \in Int /\ c[rl] \in Int
    BY <1>4, <1>5, ValRange, PowerStep, Base DEF Limb
  <2>2. e[rl] = -c[rl] /\ e[0] = 0
    BY <1>5, <1>9
  <2>3. Power(rl) * e[rl] = -(Power(rl) * c[rl])
    BY <2>1, <2>2
  <2>4. Val(ad, al) \in Int /\ b * Val(ad, al) \in Int
    BY <1>2, <1>10, <1>7
  <2> QED
    BY <1>2, <1>10, <1>11, <2>1, <2>2, <2>3, <2>4
<1> QED
  BY <1>4, <1>5, <1>6, <1>8, <1>12

------------------------------------------------------------------------------
(* Lengths and comparisons. *)
LEMMA PowerMonotone ==
  ASSUME NEW m \in Nat, NEW n \in Nat, m <= n
  PROVE  Power(m) <= Power(n)
<1>1. Power(m + (n - m)) = Power(m) * Power(n - m) /\ m + (n - m) = n
  <2>1. n - m \in Nat
    OBVIOUS
  <2> QED
    BY <2>1, PowerSum
<1>2. Power(m) \in Nat /\ Power(n - m) \in Nat \ {0}
  BY PowerStep
<1>3. Power(n - m) - 1 \in Nat
  BY <1>2
<1>4. Power(m) * (Power(n - m) - 1) \in Nat
  BY <1>2, <1>3
<1>5. Power(m) * Power(n - m) = Power(m) + Power(m) * (Power(n - m) - 1)
  BY <1>2
<1> QED
  BY <1>1, <1>2, <1>4, <1>5

(* A number with n limbs, the last of which is not zero, is not below the  *)
(* power of that limb.                                                     *)
LEMMA ValLower ==
  ASSUME NEW n \in Nat, NEW x, Holds(x, n + 1), x[n] # 0
  PROVE  Val(x, n + 1) >= Power(n)
<1>1. x[n] \in Nat \ {0} /\ Holds(x, n)
  BY Base DEF Holds, Limb
<1>2. Val(x, n + 1) = Val(x, n) + Power(n) * x[n]
  BY ValStep
<1>3. Val(x, n) \in Nat /\ Power(n) \in Nat
  BY <1>1, ValRange, PowerStep
<1>4. x[n] - 1 \in Nat /\ Power(n) * (x[n] - 1) \in Nat
  BY <1>1, <1>3
<1>5. Power(n) * x[n] = Power(n) + Power(n) * (x[n] - 1)
  BY <1>1, <1>3
<1> QED
  BY <1>2, <1>3, <1>4, <1>5

Counts(n, x, max) ==
  /\ n[0] = 0
  /\ \A k \in 1 .. max : n[k] = IF x[k - 1] > 0 THEN k ELSE n[k - 1]
  /\ \A k \in 0 .. max : n[k] \in 0 .. max
  /\ NumLimbs(x, max) = n[max]

(* The recursive function of NumLimbs exists. *)
LEMMA NumLimbsCounts ==
  ASSUME NEW max \in Nat, NEW x
  PROVE  \E n : Counts(n, x, max)
<1> DEFINE Body(n) == [k \in 0 .. max |-> IF k = 0 \/ x[k - 1] > 0 THEN k ELSE n[k - 1]]
           C == CHOOSE n : n = Body(n)
           S == 0 .. max
           G == [k \in 1 .. max |-> [p \in S |-> IF x[k - 1] > 0 THEN k ELSE p]]
<1>1. NumLimbs(x, max) = C[max]
  BY DEF NumLimbs
<1>2. \A k \in 1 .. max, p \in S : G[k][p] = (IF x[k - 1] > 0 THEN k ELSE p) /\ G[k][p] \in S
  OBVIOUS
<1>3. Steps(max, S, 0, G)
  BY <1>2 DEF Steps
<1>4. PICK g \in [0 .. max -> S] : Follows(g, max, 0, G)
  <2> HIDE DEF G, S
  <2> QED
    BY <1>3, Recursion
<1>5. \A k \in 1 .. max : g[k - 1] \in S
  OBVIOUS
<1>6. g = Body(g)
  <2>1. \A k \in 1 .. max : g[k] = IF x[k - 1] > 0 THEN k ELSE g[k - 1]
    <3> HIDE DEF G, S
    <3> QED
      BY <1>2, <1>4, <1>5 DEF Follows
  <2> QED
    BY <1>4, <2>1 DEF Follows
<1>7. C = Body(C)
  <2> HIDE DEF Body
  <2> QED
    BY <1>6
<1>8. C[0] = 0 /\ \A k \in 1 .. max : C[k] = IF x[k - 1] > 0 THEN k ELSE C[k - 1]
  <2> HIDE DEF C
  <2> QED
    BY <1>7
<1>9. \A k \in 0 .. max : C[k] \in S
  <2> HIDE DEF C, G, S
  <2>1. Takes(C, max, S, 0, G)
    BY <1>2, <1>8 DEF Takes
  <2> QED
    BY <1>3, <2>1, Iterates
<1> QED
  <2> HIDE DEF C
  <2> QED
    BY <1>1, <1>8, <1>9 DEF Counts

(* ll_num_limbs cuts zero limbs off the top, and nothing else. *)
LEMMA NumLimbsIs ==
  ASSUME NEW max \in Nat, NEW x, Holds(x, max)
  PROVE  LET n == NumLimbs(x, max)
         IN  /\ n \in 0 .. max
             /\ \A j \in n .. max - 1 : x[j] = 0
             /\ n > 0 => x[n - 1] \in Limb \ {0}
             /\ Holds(x, n)
             /\ Val(x, max) = Val(x, n)
<1>1. PICK c : Counts(c, x, max)
  BY NumLimbsCounts
<1> DEFINE T == {k \in 0 .. max : /\ c[k] \in 0 .. k
                                  /\ \A j \in c[k] .. k - 1 : x[j] = 0
                                  /\ c[k] > 0 => x[c[k] - 1] \in Limb \ {0}}
<1>2. 0 \in T
  BY <1>1 DEF Counts
<1>3. ASSUME NEW k \in 0 .. max - 1, k \in T PROVE k + 1 \in T
  <2>1. k + 1 \in 1 .. max /\ (k + 1) - 1 = k /\ k \in 0 .. max - 1
    OBVIOUS
  <2>2. c[k + 1] = IF x[k] > 0 THEN k + 1 ELSE c[k]
    BY <1>1, <2>1 DEF Counts
  <2>3. x[k] \in Limb /\ x[k] \in Nat
    BY Base DEF Holds, Limb
  <2>4. CASE x[k] > 0
    BY <2>1, <2>2, <2>3, <2>4
  <2>5. CASE x[k] = 0
    <3>1. c[k + 1] = c[k] /\ c[k] \in 0 .. k
      BY <2>2, <2>5, <1>3
    <3>2. \A j \in c[k] .. (k + 1) - 1 : j \in c[k] .. k - 1 \/ j = k
      BY <3>1
    <3> QED
      BY <1>3, <2>1, <2>5, <3>1, <3>2
  <2> QED
    BY <2>3, <2>4, <2>5
<1>4. max \in T
  <2>1. 0 .. max \subseteq T
    <3> HIDE DEF T
    <3> QED
      BY <1>2, <1>3, InductionTo
  <2> QED
    BY <2>1
<1> DEFINE n == NumLimbs(x, max)
<1>5. /\ n \in 0 .. max
      /\ \A j \in n .. max - 1 : x[j] = 0
      /\ n > 0 => x[n - 1] \in Limb \ {0}
  BY <1>1, <1>4 DEF Counts
<1> HIDE DEF n
<1>6. Holds(x, n)
  BY <1>5 DEF Holds
<1>7. Val(x, max) = Val(x, n)
  BY <1>5, <1>6, ValPad
<1> QED
  BY <1>5, <1>6, <1>7 DEF n

(* ll_cmp_limbs compares the numbers of two arrays of equal length, ... *)
LEMMA CmpSameLength ==
  ASSUME NEW l \in Nat, NEW ad, NEW bd, Holds(ad, l), Holds(bd, l)
  PROVE  CmpLimbs(ad, bd, l, l) =
           IF Val(ad, l) > Val(bd, l) THEN 1 ELSE IF Val(ad, l) = Val(bd, l) THEN 0 ELSE -1
<1> DEFINE differ == {i \in 0 .. l - 1 : ad[i] # bd[i]}
           top == CHOOSE i \in differ : \A j \in differ : j <= i
<1>1. CmpLimbs(ad, bd, l, l) = IF differ = {} THEN 0 ELSE IF ad[top] > bd[top] THEN 1 ELSE -1
  BY DEF CmpLimbs
<1>2. CASE differ = {}
  <2>1. Val(ad, l) = Val(bd, l) /\ Val(ad, l) \in Nat
    BY <1>2, ValSame, ValRange
  <2> QED
    BY <1>1, <1>2, <2>1
<1>3. CASE differ # {}
  <2> DEFINE T == {(l - 1) - i : i \in differ}
  <2>1. T \subseteq Nat /\ T # {}
    BY <1>3
  <2>2. PICK m \in T : \A k \in T : m <= k
    <3> HIDE DEF T
    <3> QED
      BY <2>1, Least
  <2>3. PICK i \in differ : m = (l - 1) - i
    BY <2>2
  <2>4. ASSUME NEW j \in differ PROVE j <= i
    <3>1. (l - 1) - j \in T
      OBVIOUS
    <3>2. m <= (l - 1) - j
      BY <2>2, <3>1
    <3> QED
      BY <2>3, <3>2
  <2>5. top \in differ /\ \A j \in differ : j <= top
    <3> HIDE DEF differ
    <3> QED
      BY <2>3, <2>4
  <2> HIDE DEF top
  <2> DEFINE t == top + 1   r == l - t   x == ad[top]  y == bd[top]
             u == Val(ad, top)  w == Val(bd, top)  p == Power(top)
  <2>6. /\ top \in 0 .. l - 1 /\ top \in Nat /\ t \in Nat /\ r \in Nat /\ t + r = l
        /\ x # y /\ x \in Limb /\ y \in Limb
    BY <2>5 DEF Holds
  <2>7. /\ Holds(ad, top) /\ Holds(bd, top) /\ Holds(ad, top + 1) /\ Holds(bd, top + 1)
        /\ Holds(From(ad, t, r), r)
    BY <2>6 DEF Holds, From
  <2>8. Val(From(ad, t, r), r) = Val(From(bd, t, r), r) /\ Val(From(ad, t, r), r) \in Int
    <3>1. ASSUME NEW k \in 0 .. r - 1 PROVE From(ad, t, r)[k] = From(bd, t, r)[k]
      <4>1. t + k \in 0 .. l - 1 /\ ~(t + k <= top)
        BY <2>6
      <4>2. t + k \notin differ
        BY <2>5, <4>1
      <4>3. ad[t + k] = bd[t + k]
        BY <4>1, <4>2
      <4> HIDE DEF t, r
      <4> QED
        BY <4>3 DEF From
    <3> HIDE DEF t, r
    <3> QED
      BY <2>6, <2>7, <3>1, ValSame, ValRange
  <2>9. /\ Val(ad, t + r) = Val(ad, t) + Power(t) * Val(From(ad, t, r), r)
        /\ Val(bd, t + r) = Val(bd, t) + Power(t) * Val(From(bd, t, r), r)
    <3>1. Holds(ad, t + r) /\ Holds(bd, t + r)
      BY <2>6
    <3> HIDE DEF t, r
    <3> QED
      BY <2>6, <3>1, ValSplit
  <2>10. Val(ad, t) = u + p * x /\ Val(bd, t) = w + p * y
    BY <2>6, <2>7, ValStep
  <2>11. /\ u \in Nat /\ w \in Nat /\ p \in Nat /\ u < p /\ w < p
         /\ x \in Nat /\ y \in Nat /\ Power(t) \in Int
    BY <2>6, <2>7, ValRange, PowerStep, Base DEF Limb
  <2> DEFINE s == Power(t) * Val(From(ad, t, r), r)
  <2>12. s \in Int /\ Val(ad, l) = u + p * x + s /\ Val(bd, l) = w + p * y + s
    BY <2>6, <2>8, <2>9, <2>10, <2>11
  <2>13. CmpLimbs(ad, bd, l, l) = IF x > y THEN 1 ELSE -1
    BY <1>1, <1>3 DEF top
  <2> HIDE DEF t, r, x, y, u, w, p, s
  <2>14. CASE x > y
    <3>1. x - y - 1 \in Nat /\ p * (x - y - 1) \in Nat /\ p * x \in Nat /\ p * y \in Nat
      BY <2>11, <2>14
    <3>2. p * x = p * y + p + p * (x - y - 1)
      BY <2>11
    <3>3. Val(ad, l) > Val(bd, l)
      BY <2>11, <2>12, <3>1, <3>2
    <3> QED
      BY <2>13, <2>14, <3>3
  <2>15. CASE y > x
    <3>1. y - x - 1 \in Nat /\ p * (y - x - 1) \in Nat /\ p * x \in Nat /\ p * y \in Nat
      BY <2>11, <2>15
    <3>2. p * y = p * x + p + p * (y - x - 1)
      BY <2>11
    <3>3. Val(ad, l) < Val(bd, l) /\ Val(ad, l) \in Int /\ Val(bd, l) \in Int
      BY <2>11, <2>12, <3>1, <3>2
    <3> QED
      BY <2>11, <2>13, <2>15, <3>3
  <2> QED
    BY <2>6, <2>11, <2>14, <2>15
<1> QED
  BY <1>2, <1>3

(* ... and of arrays of any length without leading zero limbs. *)
LEMMA CmpLimbsIs ==
  ASSUME NEW al \in Nat, NEW bl \in Nat, NEW ad, NEW bd, Holds(ad, al), Holds(bd, bl),
         al > 0 => ad[al - 1] # 0, bl > 0 => bd[bl - 1] # 0
  PROVE  CmpLimbs(ad, bd, al, bl) =
           IF Val(ad, al) > Val(bd, bl) THEN 1 ELSE IF Val(ad, al) = Val(bd, bl) THEN 0 ELSE -1
<1>1. CASE al = bl
  BY <1>1, CmpSameLength
<1>2. ASSUME NEW m \in Nat, NEW n \in Nat, NEW x, NEW y, Holds(x, m), Holds(y, n),
             m > n, x[m - 1] # 0
      PROVE  Val(x, m) > Val(y, n) /\ Val(x, m) \in Int /\ Val(y, n) \in Int
  <2> DEFINE k == m - 1
  <2>1. k \in Nat /\ k + 1 = m /\ n <= k
    BY <1>2
  <2> HIDE DEF k
  <2>2. Val(x, k + 1) >= Power(k) /\ Val(x, k + 1) \in Nat
    BY <1>2, <2>1, ValLower, ValRange DEF k
  <2>3. Power(n) <= Power(k) /\ Val(y, n) < Power(n) /\ Val(y, n) \in Nat
    BY <1>2, <2>1, PowerMonotone, ValRange
  <2>4. Power(n) \in Nat /\ Power(k) \in Nat
    BY <2>1, PowerStep
  <2> QED
    BY <2>1, <2>2, <2>3, <2>4
<1>3. CASE al > bl
  <2>1. Val(ad, al) > Val(bd, bl)
    BY <1>2, <1>3
  <2> QED
    BY <1>3, <2>1 DEF CmpLimbs
<1>4. CASE bl > al
  <2>1. Val(bd, bl) > Val(ad, al) /\ Val(ad, al) \in Int /\ Val(bd, bl) \in Int
    BY <1>2, <1>4
  <2>2. CmpLimbs(ad, bd, al, bl) = -1
    BY <1>4 DEF CmpLimbs
  <2> QED
    BY <2>1, <2>2
<1> QED
  BY <1>1, <1>3, <1>4

------------------------------------------------------------------------------
(* Shifts by less than a limb. *)
LEMMA TwoSum == \A b \in 0 .. W : 2^b * 2^(W - b) = B
<1> DEFINE T == {b \in 0 .. W : 2^b * 2^(W - b) = B}
<1>1. 0 \in T
  <2>1. W - 0 = W /\ 0 \in 0 .. W /\ W \in 0 .. W
    BY WordAssumption
  <2>2. 2^W \in Int
    BY <2>1, TwoPowers
  <2>3. 2^0 * 2^(W - 0) = B
    BY <2>1, <2>2 DEF B
  <2> QED
    BY <2>1, <2>3
<1>2. ASSUME NEW b \in 0 .. W - 1, b \in T PROVE b + 1 \in T
  <2> DEFINE s == W - (b + 1)
  <2>1. s \in 0 .. W - 1 /\ s + 1 = W - b /\ b + 1 \in 0 .. W /\ b \in 0 .. W /\ s \in 0 .. W
    BY WordAssumption
  <2> HIDE DEF s
  <2>2. 2^(s + 1) = 2 * 2^s /\ 2^(b + 1) = 2 * 2^b
    BY <2>1, PowersOfTwo
  <2>3. 2^b \in Nat /\ 2^s \in Nat
    BY <2>1, TwoPowers
  <2> DEFINE p == 2^b   q == 2^s
  <2>4. p * (2 * q) = B
    BY <1>2, <2>1, <2>2
  <2>5. p \in Nat /\ q \in Nat
    BY <2>3
  <2> HIDE DEF p, q
  <2>6. (2 * p) * q = B
    BY <2>4, <2>5
  <2>7. 2^(b + 1) * 2^(W - (b + 1)) = B
    BY <2>2, <2>6 DEF p, q, s
  <2> QED
    BY <2>1, <2>7
<1> QED
  <2>1. 0 .. W \subseteq T
    <3> HIDE DEF T
    <3> QED
      BY <1>1, <1>2, InductionTo, WordAssumption
  <2> QED
    BY <2>1

(* A limb times 2^b: what stays and what goes to the next limb. *)
LEMMA ShiftParts ==
  ASSUME NEW b \in 0 .. W, NEW t \in Limb
  PROVE  LET p == 2^b
             q == 2^(W - b)
         IN  /\ p \in Nat \ {0} /\ q \in Nat \ {0} /\ p * q = B
             /\ t \div q \in 0 .. p - 1
             /\ t % q \in 0 .. q - 1
             /\ t = q * (t \div q) + (t % q)
             /\ Wrap(t * p) = p * (t % q)
             /\ Wrap(t * p) \in 0 .. B - p
             /\ t * p = B * (t \div q) + Wrap(t * p)
<1> DEFINE p == 2^b   q == 2^(W - b)   h == t \div q   r == t % q
<1>1. b \in 0 .. W /\ W - b \in 0 .. W
  BY WordAssumption
<1>2. p \in Nat \ {0} /\ q \in Nat \ {0} /\ p * q = B /\ B \in Nat
  BY <1>1, TwoPowers, TwoSum, Base
<1> HIDE DEF p, q
<1>3. h \in Int /\ r \in 0 .. q - 1 /\ t = q * h + r /\ t \in 0 .. B - 1
  BY <1>2, DivMod DEF Limb
<1> HIDE DEF h, r
<1>4. h >= 0
  <2> SUFFICES ASSUME h <= -1 PROVE FALSE
    BY <1>3
  <2>1. -h - 1 \in Nat /\ q * (-h - 1) \in Nat /\ q * (-h - 1) = -(q * h) - q
    BY <1>2, <1>3
  <2> QED
    BY <1>2, <1>3, <2>1
<1>5. h <= p - 1
  <2> SUFFICES ASSUME h >= p PROVE FALSE
    BY <1>2, <1>3
  <2>1. h - p \in Nat /\ q * (h - p) \in Nat /\ q * (h - p) = q * h - p * q
    BY <1>2, <1>3
  <2> QED
    BY <1>2, <1>3, <2>1
<1>6. p * r \in Nat /\ p * r <= B - p
  <2>1. q - 1 - r \in Nat /\ p * (q - 1 - r) \in Nat /\ p * (q - 1 - r) = p * q - p - p * r
    BY <1>2, <1>3
  <2> QED
    BY <1>2, <1>3, <2>1
<1>7. t * p = B * h + p * r
  <2>1. (q * h + r) * p = (p * q) * h + p * r
    BY <1>2, <1>3
  <2> QED
    BY <1>2, <1>3, <2>1
<1>8. Wrap(t * p) = p * r
  <2> DEFINE z == p * r  y == t * p
  <2>1. z \in Limb /\ y \in Int /\ y = B * h + z /\ h \in Int
    BY <1>2, <1>3, <1>6, <1>7 DEF Limb
  <2> HIDE DEF z, y
  <2>2. Wrap(y) = z
    BY <2>1, WrapIs
  <2> QED
    BY <2>2 DEF z, y
<1>9. h \in 0 .. p - 1 /\ Wrap(t * p) \in 0 .. B - p /\ t * p = B * h + Wrap(t * p)
  BY <1>2, <1>3, <1>4, <1>5, <1>6, <1>7, <1>8
<1> QED
  BY <1>2, <1>3, <1>8, <1>9 DEF p, q, h, r

(* The limb j of a shifted array, for j = 0 .. al. *)
Low(x, al, b, j) == IF j < al THEN Wrap(x[j] * 2^b) ELSE 0
High(x, b, j) == IF j > 0 THEN x[j - 1] \div 2^(W - b) ELSE 0

(* The two parts of a shifted limb do not overlap, and the part that       *)
(* leaves it is the one that enters the next.                              *)
LEMMA ShiftedLimb ==
  ASSUME NEW al \in Nat, NEW x, Holds(x, al), NEW b \in 0 .. W, NEW j \in 0 .. al
  PROVE  /\ Low(x, al, b, j) \in Nat /\ High(x, b, j) \in Nat
         /\ Low(x, al, b, j) + High(x, b, j) \in Limb
         /\ j < al => Low(x, al, b, j) + B * High(x, b, j + 1) = 2^b * x[j]
<1>1. 2^b \in Nat \ {0} /\ B - 2^b \in Nat /\ B \in Nat
  <2>1. 0 \in Limb
    BY Base DEF Limb
  <2>2. 2^b \in Nat \ {0} /\ Wrap(0 * 2^b) \in 0 .. B - 2^b
    BY <2>1, ShiftParts
  <2> QED
    BY <2>2, Base
<1>2. Low(x, al, b, j) \in 0 .. B - 2^b
  <2>1. CASE j < al
    <3>1. x[j] \in Limb
      BY <2>1 DEF Holds
    <3> QED
      BY <2>1, <3>1, ShiftParts DEF Low
  <2>2. CASE ~(j < al)
    BY <1>1, <2>2 DEF Low
  <2> QED
    BY <2>1, <2>2
<1>3. High(x, b, j) \in 0 .. 2^b - 1
  <2>1. CASE j > 0
    <3>1. x[j - 1] \in Limb
      BY <2>1 DEF Holds
    <3> QED
      BY <2>1, <3>1, ShiftParts DEF High
  <2>2. CASE ~(j > 0)
    BY <1>1, <2>2 DEF High
  <2> QED
    BY <2>1, <2>2
<1>4. ASSUME j < al PROVE Low(x, al, b, j) + B * High(x, b, j + 1) = 2^b * x[j]
  <2>1. x[j] \in Limb /\ (j + 1) - 1 = j /\ j + 1 > 0
    BY <1>4 DEF Holds
  <2> DEFINE h == x[j] \div 2^(W - b)   u == Wrap(x[j] * 2^b)   p == 2^b
  <2>2. Low(x, al, b, j) = u /\ High(x, b, j + 1) = h
    BY <1>4, <2>1 DEF Low, High
  <2>3. x[j] * p = B * h + u /\ u \in 0 .. B - p /\ h \in 0 .. p - 1
    BY <2>1, ShiftParts
  <2>4. x[j] \in Int /\ p \in Int /\ B \in Int
    BY <1>1, <2>1 DEF Limb
  <2> HIDE DEF h, u, p
  <2>5. u + B * h = p * x[j]
    BY <2>3, <2>4
  <2> QED
    BY <2>2, <2>5 DEF p
<1> DEFINE lo == Low(x, al, b, j)  hi == High(x, b, j)  p == 2^b
<1>5. lo \in 0 .. B - p /\ hi \in 0 .. p - 1 /\ p \in Nat \ {0} /\ B \in Nat
  BY <1>1, <1>2, <1>3
<1> HIDE DEF lo, hi, p
<1>6. lo \in Nat /\ hi \in Nat /\ lo + hi \in Limb
  BY <1>5 DEF Limb
<1> QED
  BY <1>4, <1>6 DEF lo, hi, p

(* A shift by no bit leaves every limb as it is. *)
LEMMA Unshifted ==
  ASSUME NEW al \in Nat, NEW x, Holds(x, al), NEW j \in 0 .. al
  PROVE  Low(x, al, 0, j) + High(x, 0, j) = IF j < al THEN x[j] ELSE 0
<1>1. 2^0 = 1 /\ W - 0 = W /\ 2^(W - 0) = B
  <2>1. W - 0 = W
    BY WordAssumption
  <2> QED
    BY <2>1 DEF B
<1>2. B \in Nat \ {0}
  BY Base
<1>3. High(x, 0, j) = 0
  <2>1. CASE j > 0
    <3> DEFINE y == x[j - 1]
    <3>1. y \in 0 .. B - 1 /\ y \in Int
      BY <2>1, <1>2 DEF Holds, Limb
    <3> HIDE DEF y
    <3>2. y = B * 0 + y /\ 0 \in Int
      BY <3>1, <1>2
    <3>3. y \div B = 0
      BY <3>1, <3>2, <1>2, DivModIs
    <3> QED
      BY <1>1, <2>1, <3>3 DEF High, y
  <2>2. CASE ~(j > 0)
    BY <2>2 DEF High
  <2> QED
    BY <2>1, <2>2
<1>4. Low(x, al, 0, j) = (IF j < al THEN x[j] ELSE 0)
  <2>1. CASE j < al
    <3>1. x[j] \in Limb /\ x[j] \in Int
      BY <2>1, <1>2 DEF Holds, Limb
    <3>2. x[j] * 1 = x[j] /\ Wrap(x[j]) = x[j]
      BY <3>1, WrapNear
    <3> QED
      BY <1>1, <2>1, <3>2 DEF Low
  <2>2. CASE ~(j < al)
    BY <2>2 DEF Low
  <2> QED
    BY <2>1, <2>2
<1>5. j < al => x[j] \in Int
  BY Base DEF Holds, Limb
<1> QED
  BY <1>3, <1>4, <1>5

(* The limbs that a shift to the left makes are 2^n times the number. *)
LEMMA ShiftedVal ==
  ASSUME NEW al \in Nat, NEW x, Holds(x, al), NEW n \in 0 .. W, NEW f, Holds(f, al + 1),
         \A j \in 0 .. al : f[j] = Low(x, al, n, j) + High(x, n, j)
  PROVE  Val(f, al + 1) = 2^n * Val(x, al)
<1> DEFINE c == [j \in 0 .. al |-> High(x, n, j)]
           y == [j \in 0 .. al - 1 |-> 0]
           p == 2^n
<1>1. p \in Int /\ B \in Int
  BY TwoPowers, Base
<1>2. Holds(f, al) /\ Holds(f, al + 1) /\ Holds(y, al) /\ Holds(y, 0) /\ al \in Nat
  <2>1. 0 \in Limb
    BY Base DEF Limb
  <2> QED
    BY <2>1 DEF Holds
<1>3. \A j \in 0 .. al : c[j] \in Int /\ Low(x, al, n, j) \in Int
  <2> TAKE j \in 0 .. al
  <2>1. c[j] = High(x, n, j)
    OBVIOUS
  <2>2. Low(x, al, n, j) \in Nat /\ High(x, n, j) \in Nat
    BY <1>2, ShiftedLimb
  <2> QED
    BY <2>1, <2>2
<1>4. ASSUME NEW j \in 0 .. al - 1 PROVE f[j] + B * c[j + 1] = y[j] + p * x[j] + c[j]
  <2>1. j \in 0 .. al /\ j + 1 \in 0 .. al /\ j < al
    OBVIOUS
  <2>2. f[j] = Low(x, al, n, j) + c[j] /\ c[j + 1] = High(x, n, j + 1) /\ y[j] = 0
    BY <2>1
  <2>3. Low(x, al, n, j) + B * High(x, n, j + 1) = p * x[j]
    BY <2>1, <1>2, ShiftedLimb
  <2>4. Low(x, al, n, j) \in Int /\ c[j] \in Int /\ c[j + 1] \in Int
    BY <1>3, <2>1
  <2>5. p * x[j] \in Int
    BY <1>1 DEF Limb, Holds
  <2> HIDE DEF c, y, p
  <2> QED
    BY <2>2, <2>3, <2>4, <2>5, <1>1
<1>5. c[0] = 0 /\ c[al] = f[al]
  <2>1. High(x, n, 0) = 0 /\ Low(x, al, n, al) = 0
    BY DEF High, Low
  <2>2. f[al] = Low(x, al, n, al) + High(x, n, al) /\ al \in 0 .. al /\ 0 \in 0 .. al
    OBVIOUS
  <2> QED
    BY <1>3, <2>1, <2>2
<1>6. Val(y, al) = 0
  <2>1. \A j \in 0 .. al - 1 : y[j] = 0
    OBVIOUS
  <2> HIDE DEF y
  <2>2. Val(y, al) = Val(y, 0)
    <3>1. 0 \in Nat /\ 0 <= al
      OBVIOUS
    <3> QED
      BY <1>2, <2>1, <3>1, ValPad
  <2> QED
    BY <2>2, ValZero
<1> HIDE DEF c, y, p
<1>7. Val(f, al) + Power(al) * c[al] = Val(y, al) + p * Val(x, al) + c[0]
  <2>1. Carried(f, y, p, x, c, al)
    BY <1>2, <1>3, <1>4 DEF Carried
  <2> QED
    BY <1>1, <1>2, <2>1, Carries
<1>8. Val(f, al + 1) = Val(f, al) + Power(al) * f[al]
  BY <1>2, ValStep
<1>9. Val(x, al) \in Int /\ p * Val(x, al) \in Int
  BY <1>1, <1>2, ValRange
<1> QED
  BY <1>5, <1>6, <1>7, <1>8, <1>9 DEF p

(* An array with room for al limbs at limb l. *)
Room(x, m, al, l) == al >= 1 /\ al + l <= m /\ x \in [0 .. m -> Limb]

(* A distance of l limbs and n bits. *)
Distance(z, l, n) == z \in Nat /\ z = W * l + n

(* ll_lshift by l limbs and n bits multiplies by B^l * 2^n. *)
LEMMA LShiftFar ==
  ASSUME NEW m \in Nat, NEW al \in Nat, NEW l \in Nat, NEW x, Room(x, m, al, l),
         NEW n \in 0 .. W - 1, NEW z, Distance(z, l, n)
  PROVE  LET r == LShift(x, al, z)
         IN  /\ r.d \in [0 .. m -> Limb]
             /\ r.c = r.d[al + l]
             /\ Val(r.d, al + l + 1) = Power(l) * (2^n * Val(x, al))
             /\ \A j \in al + l + 1 .. m : r.d[j] = x[j]
<1> DEFINE zl == z \div W   b == z % W
           shifted(k) == [j \in 0 .. m |-> IF j \in al + l - k + 1 .. al + l
                                           THEN Low(x, al, n, j - l) + High(x, n, j - l) ELSE x[j]]
           state(k) == [x |-> shifted(k), t |-> IF k = 0 THEN 0 ELSE x[al - k]]
           sNext(p, k) == [x |-> [p.x EXCEPT ![al - k + zl + 1] =
                                    Wrap(p.t * 2^b) + (p.x[al - k] \div 2^(W - b))],
                           t |-> p.x[al - k]]
           sBody(s) == [k \in 0 .. al |-> IF k = 0 THEN [x |-> x, t |-> 0] ELSE sNext(s[k - 1], k)]
           S == CHOOSE s : s = sBody(s)
           copied(k) == [j \in 0 .. m |-> IF j = al + l THEN 0
                                          ELSE IF j \in al + l - k .. al + l - 1 THEN x[j - l]
                                          ELSE x[j]]
           cNext(p, k) == [p EXCEPT ![al - k + zl] = p[al - k]]
           cBody(c) == [k \in 0 .. al |->
               IF k = 0 THEN [x EXCEPT ![al + zl] = 0]
               ELSE cNext(c[k - 1], k)]
           C == CHOOSE c : c = cBody(c)
           moved == IF b = 0 THEN C[al] ELSE [S[al].x EXCEPT ![zl] = Wrap(S[al].t * 2^b)]
           d == [j \in DOMAIN x |-> IF j < zl THEN 0 ELSE moved[j]]
<1>0. al \in Nat /\ al >= 1 /\ al + l <= m /\ x \in [0 .. m -> Limb] /\ z \in Nat
  BY DEF Room, Distance
<1>1. LShift(x, al, z) = [d |-> d, c |-> d[al + zl]]
  <2>1. LShift(x, al, z) = IF al = 0 THEN [d |-> x, c |-> 0] ELSE [d |-> d, c |-> d[al + zl]]
    BY DEF LShift
  <2> HIDE DEF d
  <2> QED
    BY <2>1, <1>0
<1>2. zl = l /\ b = n
  <2>1. W \in Nat \ {0} /\ z = W * l + n /\ z \in Int /\ l \in Int
    BY <1>0, WordAssumption DEF Distance
  <2>2. z \div W = l /\ z % W = n
    BY <2>1, DivModIs
  <2> QED
    BY <2>2
<1> HIDE DEF zl, b
<1>3. Holds(x, al)
  BY <1>0 DEF Holds
<1>4. n \in 0 .. W
  BY WordAssumption
<1>5. \A j \in 0 .. m : x[j] \in Limb
  BY <1>0
<1>6. \A j \in 0 .. al : Low(x, al, n, j) + High(x, n, j) \in Limb
  BY <1>3, <1>4, ShiftedLimb
<1>7. \A k \in 0 .. al : shifted(k) \in [0 .. m -> Limb]
  <2> TAKE k \in 0 .. al
  <2>1. ASSUME NEW j \in 0 .. m, j \in al + l - k + 1 .. al + l
        PROVE  Low(x, al, n, j - l) + High(x, n, j - l) \in Limb
    <3>1. j - l \in 0 .. al
      BY <2>1
    <3> QED
      BY <3>1, <1>6
  <2> QED
    BY <1>5, <2>1
<1>8. ASSUME NEW k \in 1 .. al PROVE sNext(state(k - 1), k) = state(k)
  <2> DEFINE p == state(k - 1)   i == al + l - k + 1   h == al - k + 1
  <2>1. /\ i \in 0 .. m /\ i - l = h /\ h \in 1 .. al /\ al - k + zl + 1 = i
        /\ al - k \in 0 .. m /\ al - k = h - 1
        /\ ~(al - k \in al + l - (k - 1) + 1 .. al + l)
    BY <1>0, <1>2
  <2>2. p.x = shifted(k - 1) /\ p.t = IF k = 1 THEN 0 ELSE x[h]
    OBVIOUS
  <2>3. shifted(k - 1)[al - k] = x[al - k]
    BY <2>1
  <2>4. Wrap(p.t * 2^b) = Low(x, al, n, h)
    <3>1. CASE k = 1
      <4>1. 0 \in Limb /\ 0 \in Int
        BY Base DEF Limb
      <4>2. 2^n \in Int
        BY <1>4, TwoPowers
      <4>3. 0 * 2^n = 0 /\ Wrap(0) = 0
        BY <4>1, <4>2, WrapNear
      <4>4. ~(h < al) /\ p.t = 0
        BY <3>1
      <4> HIDE DEF p, h
      <4> QED
        BY <1>2, <4>3, <4>4 DEF Low
    <3>2. CASE k # 1
      <4>1. h < al /\ p.t = x[h]
        BY <3>2
      <4> HIDE DEF p, h
      <4> QED
        BY <1>2, <4>1 DEF Low
    <3> QED
      BY <3>1, <3>2
  <2>5. x[al - k] \div 2^(W - b) = High(x, n, h)
    BY <1>2, <2>1 DEF High
  <2>6. sNext(p, k) = [x |-> [shifted(k - 1) EXCEPT ![i] = Low(x, al, n, h) + High(x, n, h)],
                       t |-> x[al - k]]
    <3> HIDE DEF p, i, h, shifted
    <3> QED
      BY <2>1, <2>2, <2>3, <2>4, <2>5
  <2>7. [shifted(k - 1) EXCEPT ![i] = Low(x, al, n, h) + High(x, n, h)] = shifted(k)
    <3> DEFINE f == [shifted(k - 1) EXCEPT ![i] = Low(x, al, n, h) + High(x, n, h)]
    <3>1. \A j \in 0 .. m : f[j] = shifted(k)[j]
      <4> TAKE j \in 0 .. m
      <4>1. j \in al + l - k + 1 .. al + l <=> (j = i \/ j \in al + l - (k - 1) + 1 .. al + l)
        BY <2>1
      <4>2. f[j] = IF j = i THEN Low(x, al, n, h) + High(x, n, h) ELSE shifted(k - 1)[j]
        BY <2>1
      <4>3. CASE j = i
        <5>1. j - l = h
          BY <4>3, <2>1
        <5> HIDE DEF h, i
        <5> QED
          BY <4>1, <4>2, <4>3, <5>1
      <4>4. CASE j # i
        BY <4>1, <4>2, <4>4
      <4> QED
        BY <4>3, <4>4
    <3> QED
      BY <3>1
  <2>8. state(k) = [x |-> shifted(k), t |-> x[al - k]]
    <3>1. k # 0
      OBVIOUS
    <3> HIDE DEF shifted
    <3> QED
      BY <3>1
  <2> HIDE DEF state, sNext, shifted
  <2> QED
    BY <2>6, <2>7, <2>8 DEF p
<1>9. state(0) = [x |-> x, t |-> 0]
  <2>1. \A j \in 0 .. m : ~(j \in al + l - 0 + 1 .. al + l)
    OBVIOUS
  <2>2. shifted(0) = x
    BY <1>0, <2>1
  <2> QED
    BY <2>2
<1>10. \A k \in 0 .. al : S[k] = state(k)
  <2> DEFINE g == [k \in 0 .. al |-> state(k)]
  <2>1. g = sBody(g)
    <3> HIDE DEF state, sNext
    <3> QED
      BY <1>8, <1>9
  <2>2. S = sBody(S)
    <3> HIDE DEF sBody, g
    <3> QED
      BY <2>1
  <2> HIDE DEF S, state, sNext
  <2>3. S[0] = state(0) /\ \A k \in 1 .. al : S[k] = sNext(S[k - 1], k)
    BY <1>9, <2>2
  <2> DEFINE T == {k \in 0 .. al : S[k] = state(k)}
  <2>4. 0 \in T
    BY <2>3
  <2>5. ASSUME NEW k \in 0 .. al - 1, k \in T PROVE k + 1 \in T
    <3>1. k + 1 \in 1 .. al /\ (k + 1) - 1 = k /\ S[k] = state(k)
      BY <2>5
    <3>2. S[k + 1] = sNext(S[k], k + 1) /\ sNext(state(k), k + 1) = state(k + 1)
      BY <1>8, <2>3, <3>1
    <3> QED
      BY <3>1, <3>2
  <2>6. 0 .. al \subseteq T
    <3> HIDE DEF T
    <3> QED
      BY <2>4, <2>5, InductionTo
  <2> QED
    BY <2>6
<1> HIDE DEF S, sNext, sBody
<1>11. \A k \in 0 .. al : C[k] = copied(k) /\ copied(k) \in [0 .. m -> Limb]
  <2> DEFINE g == [k \in 0 .. al |-> copied(k)]
  <2>1. \A k \in 0 .. al : copied(k) \in [0 .. m -> Limb]
    <3> TAKE k \in 0 .. al
    <3>1. 0 \in Limb
      BY Base DEF Limb
    <3>2. \A j \in al + l - k .. al + l - 1 : j - l \in 0 .. m
      BY <1>0
    <3> QED
      BY <3>1, <3>2, <1>5
  <2>2. [x EXCEPT ![al + zl] = 0] = copied(0)
    <3>1. \A j \in 0 .. m : ~(j \in al + l - 0 .. al + l - 1)
      BY <1>0
    <3> QED
      BY <1>0, <1>2, <3>1
  <2>3. \A k \in 1 .. al : cNext(copied(k - 1), k) = copied(k)
    <3> TAKE k \in 1 .. al
    <3> DEFINE i == al + l - k   p == copied(k - 1)
    <3>1. /\ al - k + zl = i /\ i \in 0 .. m /\ i - l = al - k /\ al - k \in 0 .. m
          /\ al - k # al + l /\ ~(al - k \in al + l - (k - 1) .. al + l - 1)
          /\ i # al + l
      BY <1>0, <1>2
    <3>2. p[al - k] = x[al - k] /\ p \in [0 .. m -> Limb]
      <4>1. p[al - k] = x[al - k]
        BY <3>1
      <4>2. k - 1 \in 0 .. al
        OBVIOUS
      <4> HIDE DEF copied
      <4> QED
        BY <2>1, <4>1, <4>2
    <3>3. cNext(p, k) = [p EXCEPT ![i] = x[al - k]]
      <4> HIDE DEF p, i
      <4> QED
        BY <3>1, <3>2
    <3> DEFINE f == [p EXCEPT ![i] = x[al - k]]
    <3>4. \A j \in 0 .. m : f[j] = copied(k)[j]
      <4> TAKE j \in 0 .. m
      <4>1. j \in al + l - k .. al + l - 1 <=> (j = i \/ j \in al + l - (k - 1) .. al + l - 1)
        BY <3>1
      <4>2. f[j] = IF j = i THEN x[al - k] ELSE p[j]
        BY <3>1
      <4>3. CASE j = i
        <5>1. j - l = al - k /\ j # al + l
          BY <4>3, <3>1
        <5> HIDE DEF i
        <5> QED
          BY <4>1, <4>2, <4>3, <5>1
      <4>4. CASE j # i
        BY <4>1, <4>2, <4>4
      <4> QED
        BY <4>3, <4>4
    <3>5. f = copied(k)
      BY <3>4
    <3> HIDE DEF cNext, copied
    <3> QED
      BY <3>3, <3>5
  <2>4. g = cBody(g)
    <3> HIDE DEF copied, cNext
    <3> QED
      BY <2>2, <2>3
  <2>5. C = cBody(C)
    <3> HIDE DEF cBody, g
    <3> QED
      BY <2>4
  <2> HIDE DEF C, copied, cNext
  <2>6. C[0] = copied(0) /\ \A k \in 1 .. al : C[k] = cNext(C[k - 1], k)
    <3> HIDE DEF g
    <3>1. cBody(C)[0] = copied(0) /\ \A k \in 1 .. al : cBody(C)[k] = cNext(C[k - 1], k)
      BY <2>2
    <3> HIDE DEF cBody
    <3> QED
      BY <2>5, <3>1
  <2> DEFINE T == {k \in 0 .. al : C[k] = copied(k)}
  <2>7. 0 \in T
    BY <2>6
  <2>8. ASSUME NEW k \in 0 .. al - 1, k \in T PROVE k + 1 \in T
    <3>1. k + 1 \in 1 .. al /\ (k + 1) - 1 = k /\ C[k] = copied(k)
      BY <2>8
    <3>2. C[k + 1] = cNext(C[k], k + 1) /\ cNext(copied(k), k + 1) = copied(k + 1)
      BY <2>3, <2>6, <3>1
    <3> QED
      BY <3>1, <3>2
  <2>9. 0 .. al \subseteq T
    <3> HIDE DEF T
    <3> QED
      BY <2>7, <2>8, InductionTo
  <2> QED
    BY <2>1, <2>9
<1> HIDE DEF C, cNext, cBody
<1>12. moved \in [0 .. m -> Limb] /\ \A j \in al + l + 1 .. m : moved[j] = x[j]
  <2>1. CASE b = 0
    <3>1. moved = C[al]
      BY <2>1
    <3>2. C[al] = copied(al) /\ copied(al) \in [0 .. m -> Limb]
      <4> HIDE DEF copied
      <4> QED
        BY <1>11
    <3>3. \A j \in al + l + 1 .. m : copied(al)[j] = x[j]
      BY <1>0
    <3> HIDE DEF moved, copied
    <3> QED
      BY <3>1, <3>2, <3>3
  <2>2. CASE b # 0
    <3>1. S[al].x = shifted(al) /\ shifted(al) \in [0 .. m -> Limb] /\ S[al].t = x[0]
      <4>1. S[al] = state(al) /\ al - al = 0 /\ al # 0 /\ al \in 0 .. al
        BY <1>0, <1>10
      <4> HIDE DEF shifted
      <4> QED
        BY <1>7, <4>1
    <3>2. Wrap(S[al].t * 2^b) \in Limb
      <4>1. x[0] \in Limb
        BY <1>0, <1>5
      <4>2. Wrap(x[0] * 2^n) \in 0 .. B - 2^n /\ 2^n \in Nat \ {0} /\ B \in Nat
        BY <4>1, <1>4, ShiftParts, Base
      <4>3. Wrap(x[0] * 2^n) \in Limb
        BY <4>2 DEF Limb
      <4> HIDE DEF S, shifted
      <4> QED
        BY <3>1, <4>3, <1>2
    <3>3. moved = [shifted(al) EXCEPT ![l] = Wrap(S[al].t * 2^b)]
      <4> HIDE DEF S, C, shifted
      <4> QED
        BY <2>2, <3>1, <1>2
    <3>4. \A j \in al + l + 1 .. m : shifted(al)[j] = x[j] /\ j # l
      BY <1>0
    <3>5. l \in 0 .. m
      BY <1>0
    <3> HIDE DEF S, C, shifted, moved
    <3> QED
      BY <3>1, <3>2, <3>3, <3>4, <3>5
  <2> QED
    BY <2>1, <2>2
<1>13. \A j \in 0 .. al : moved[j + l] = Low(x, al, n, j) + High(x, n, j)
  <2> TAKE j \in 0 .. al
  <2>1. j + l \in 0 .. m /\ (j + l) - l = j /\ j \in Nat
    BY <1>0
  <2>2. x[j] \in Nat /\ x[j] \in Limb
    BY <1>0, <1>5, Base DEF Limb
  <2>3. CASE b = 0
    <3>1. moved[j + l] = IF j = al THEN 0 ELSE x[j]
      <4>1. moved = C[al]
        BY <2>3
      <4>2. C[al] = copied(al)
        <5> HIDE DEF copied
        <5> QED
          BY <1>0, <1>11
      <4>3. copied(al)[j + l] = IF j = al THEN 0 ELSE x[j]
        <5>1. j + l = al + l <=> j = al
          BY <2>1, <1>0
        <5>2. j # al => j + l \in al + l - al .. al + l - 1
          BY <2>1, <1>0
        <5> QED
          BY <2>1, <5>1, <5>2
      <4> HIDE DEF moved, copied
      <4> QED
        BY <4>1, <4>2, <4>3
    <3>2. n = 0
      BY <1>2, <2>3
    <3>3. Low(x, al, n, j) + High(x, n, j) = IF j < al THEN x[j] ELSE 0
      BY <1>0, <1>3, <3>2, Unshifted
    <3>4. j < al <=> j # al
      BY <2>1
    <3> HIDE DEF d, moved
    <3> QED
      BY <3>1, <3>3, <3>4
  <2>4. CASE b # 0
    <3>1. S[al].x = shifted(al) /\ S[al].t = x[0]
      <4>1. S[al] = state(al) /\ al - al = 0 /\ al # 0
        BY <1>0, <1>10
      <4> HIDE DEF shifted
      <4> QED
        BY <4>1
    <3>2. CASE j = 0
      <4>1. moved[j + l] = Wrap(x[0] * 2^n)
        <5>1. l \in DOMAIN shifted(al) /\ j + l = l
          BY <2>1, <3>2
        <5> HIDE DEF S, C, shifted
        <5> QED
          BY <1>2, <2>4, <3>1, <3>2, <5>1
      <4>2. High(x, n, j) = 0 /\ Low(x, al, n, j) = Wrap(x[0] * 2^n)
        BY <1>0, <3>2 DEF High, Low
      <4>3. Wrap(x[0] * 2^n) \in Int
        BY <2>2, <3>2, <1>4, <1>3, <4>2, ShiftedLimb
      <4> HIDE DEF d, moved
      <4> QED
        BY <2>1, <4>1, <4>2, <4>3
    <3>3. CASE j # 0
      <4>1. moved[j + l] = shifted(al)[j + l]
        <5>1. j + l # l
          BY <2>1, <3>3
        <5>2. j + l \in DOMAIN shifted(al)
          BY <2>1
        <5> HIDE DEF S, C, shifted
        <5> QED
          BY <1>2, <2>1, <2>4, <3>1, <5>1, <5>2
      <4>2. j + l \in al + l - al + 1 .. al + l
        BY <2>1, <3>3
      <4> HIDE DEF d, moved
      <4> QED
        BY <2>1, <4>1, <4>2
    <3> QED
      BY <3>2, <3>3
  <2> QED
    BY <2>3, <2>4
<1> HIDE DEF moved, state, shifted, copied
<1>14. /\ d \in [0 .. m -> Limb]
       /\ \A j \in al + l + 1 .. m : d[j] = x[j]
       /\ \A j \in 0 .. l - 1 : d[j] = 0
       /\ \A j \in 0 .. al : d[j + l] = Low(x, al, n, j) + High(x, n, j)
  <2>1. 0 \in Limb
    BY Base DEF Limb
  <2>2. d \in [0 .. m -> Limb] /\ \A j \in 0 .. m : d[j] = IF j < l THEN 0 ELSE moved[j]
    BY <1>0, <1>2, <1>12, <2>1
  <2>3. \A j \in 0 .. al : j + l \in 0 .. m /\ ~(j + l < l)
    BY <1>0
  <2>4. (\A j \in al + l + 1 .. m : j \in 0 .. m /\ ~(j < l)) /\ \A j \in 0 .. l - 1 : j \in 0 .. m /\ j < l
    BY <1>0
  <2> HIDE DEF d
  <2> QED
    BY <2>2, <2>3, <2>4, <1>12, <1>13
<1>15. LShift(x, al, z) = [d |-> d, c |-> d[al + l]]
  BY <1>1, <1>2
<1> HIDE DEF d
<1>16. Holds(d, l) /\ Holds(d, l + (al + 1)) /\ l + (al + 1) = al + l + 1
  BY <1>0, <1>14 DEF Holds
<1> DEFINE f == From(d, l, al + 1)
<1>17. f \in [0 .. al -> Limb] /\ \A j \in 0 .. al : f[j] = Low(x, al, n, j) + High(x, n, j)
  <2>1. DOMAIN f = 0 .. al /\ \A j \in 0 .. al : f[j] = d[l + j]
    BY <1>0 DEF From
  <2>2. \A j \in 0 .. al : l + j = j + l
    BY <1>0
  <2>3. \A j \in 0 .. al : f[j] = Low(x, al, n, j) + High(x, n, j)
    BY <2>1, <2>2, <1>14
  <2>4. f = [j \in 0 .. al |-> f[j]]
    BY <2>1 DEF From
  <2> HIDE DEF f
  <2> QED
    BY <2>3, <2>4, <1>6
<1> HIDE DEF f
<1>18. Val(f, al + 1) = 2^n * Val(x, al)
  <2>1. Holds(f, al + 1)
    BY <1>17 DEF Holds
  <2> QED
    BY <1>0, <1>3, <1>4, <1>17, <2>1, ShiftedVal
<1>19. Val(d, l) = 0
  <2>1. 0 \in Nat /\ 0 <= l /\ Holds(d, 0) /\ \A j \in 0 .. l - 1 : d[j] = 0
    BY <1>14 DEF Holds
  <2>2. Val(d, l) = Val(d, 0)
    BY <2>1, ValPad
  <2> QED
    BY <2>2, ValZero
<1>20. Val(d, al + l + 1) = Power(l) * (2^n * Val(x, al))
  <2>1. al + 1 \in Nat
    BY <1>0
  <2>2. Val(d, l + (al + 1)) = Val(d, l) + Power(l) * Val(f, al + 1)
    BY <1>16, <2>1, ValSplit DEF f
  <2> DEFINE v == 2^n * Val(x, al)
  <2>3. v \in Int /\ Power(l) \in Int
    <3>1. 2^n \in Int /\ Val(x, al) \in Int
      BY <1>0, <1>3, <1>4, TwoPowers, ValRange
    <3> QED
      BY <3>1, PowerStep
  <2>4. Val(d, al + l + 1) = 0 + Power(l) * v
    BY <1>16, <1>18, <1>19, <2>2
  <2> HIDE DEF v
  <2>5. Val(d, al + l + 1) = Power(l) * v
    BY <2>3, <2>4
  <2> QED
    BY <2>5 DEF v
<1> QED
  BY <1>14, <1>15, <1>20

(* ll_lshift by less than a limb multiplies by 2^n. *)
LEMMA LShiftIs ==
  ASSUME NEW m \in Nat, NEW al \in 1 .. m, NEW x \in [0 .. m -> Limb], NEW n \in 0 .. W - 1
  PROVE  LET r == LShift(x, al, n)
         IN  /\ r.d \in [0 .. m -> Limb]
             /\ r.c = r.d[al]
             /\ Val(r.d, al + 1) = 2^n * Val(x, al)
             /\ \A j \in al + 1 .. m : r.d[j] = x[j]
<1> DEFINE r == LShift(x, al, n)
<1>1. Room(x, m, al, 0) /\ al \in Nat /\ al + 0 = al
  BY DEF Room
<1>2. Distance(n, 0, n) /\ 0 \in Nat
  BY WordAssumption DEF Distance
<1>3. /\ r.d \in [0 .. m -> Limb]
      /\ r.c = r.d[al + 0]
      /\ Val(r.d, al + 0 + 1) = Power(0) * (2^n * Val(x, al))
      /\ \A j \in al + 0 + 1 .. m : r.d[j] = x[j]
  BY <1>1, <1>2, LShiftFar
<1>4. 2^n \in Int /\ Val(x, al) \in Int /\ Power(0) = 1
  <2>1. n \in 0 .. W /\ Holds(x, al)
    BY WordAssumption DEF Holds
  <2> QED
    BY <1>1, <2>1, TwoPowers, ValRange, PowerStep
<1> HIDE DEF r
<1>5. 1 * (2^n * Val(x, al)) = 2^n * Val(x, al)
  <2> DEFINE p == 2^n
  <2> HIDE DEF p
  <2>1. 1 * (p * Val(x, al)) = p * Val(x, al)
    BY <1>4 DEF p
  <2> QED
    BY <2>1 DEF p
<1>6. /\ r.d \in [0 .. m -> Limb]
      /\ r.c = r.d[al]
      /\ Val(r.d, al + 1) = 2^n * Val(x, al)
      /\ \A j \in al + 1 .. m : r.d[j] = x[j]
  BY <1>1, <1>3, <1>4, <1>5
<1> QED
  BY <1>6 DEF r

(* ll_rshift: what is shifted out is below 2^n. *)
Right(x, al, b, j) ==
  (x[j] \div 2^b) + IF j + 1 = al THEN 0 ELSE Wrap(x[j + 1] * 2^(W - b))

Rest(x, al, b, j) == IF j = al THEN 0 ELSE x[j] % 2^b

(* The limb that ll_rshift writes, and the bits that it hands on. *)
LEMMA RightLimb ==
  ASSUME NEW al \in Nat, NEW x, Holds(x, al), NEW b \in 0 .. W - 1, NEW j \in 0 .. al - 1
  PROVE  /\ Right(x, al, b, j) \in Limb
         /\ Rest(x, al, b, j) \in 0 .. 2^b - 1
         /\ x[j] + B * Rest(x, al, b, j + 1) = 2^b * Right(x, al, b, j) + Rest(x, al, b, j)
<1> DEFINE p == 2^b   q == 2^(W - b)   h == x[j] \div p   r == x[j] % p
           y == IF j + 1 = al THEN 0 ELSE x[j + 1]
           u == y % p
<1>1. x[j] \in Limb /\ y \in Limb /\ 0 \in Limb
  BY Base DEF Holds, Limb
<1>2. W - b \in 0 .. W /\ W - (W - b) = b
  BY WordAssumption
<1>3. ASSUME NEW z \in Limb
      PROVE  /\ q \in Nat \ {0} /\ p \in Nat \ {0} /\ q * p = B
             /\ z \div p \in 0 .. q - 1 /\ z % p \in 0 .. p - 1
             /\ z = p * (z \div p) + (z % p)
             /\ Wrap(z * q) = q * (z % p) /\ Wrap(z * q) \in 0 .. B - q
  BY <1>2, ShiftParts
<1>4. /\ p \in Nat \ {0} /\ q \in Nat \ {0} /\ q * p = B /\ B \in Nat
      /\ h \in 0 .. q - 1 /\ r \in 0 .. p - 1 /\ x[j] = p * h + r
      /\ Wrap(y * q) = q * u /\ Wrap(y * q) \in 0 .. B - q /\ u \in 0 .. p - 1
  <2> HIDE DEF p, q, y
  <2> QED
    BY <1>1, <1>3, Base
<1>5. /\ Right(x, al, b, j) = h + Wrap(y * q)
      /\ Rest(x, al, b, j + 1) = u
  <2>1. CASE j + 1 = al
    <3>1. y = 0
      BY <2>1
    <3>2. u = 0 /\ Wrap(y * q) = 0
      <4> HIDE DEF p, q, y
      <4>1. 0 * q = 0 /\ 0 \in Int /\ 0 \in 0 .. p - 1 /\ 0 = p * 0 + 0
        BY <1>4
      <4>2. Wrap(0) = 0
        BY <1>1, <4>1, WrapNear
      <4>3. 0 % p = 0
        <5> DEFINE z == 0
        <5>1. z \in Int /\ z \in 0 .. p - 1 /\ z = p * z + z
          BY <4>1
        <5> HIDE DEF z
        <5>2. z % p = z
          BY <1>4, <5>1, DivModIs
        <5> QED
          BY <5>2 DEF z
      <4> QED
        BY <3>1, <4>1, <4>2, <4>3
    <3> HIDE DEF y, u
    <3>3. Right(x, al, b, j) = h + 0 /\ h \in Int /\ Rest(x, al, b, j + 1) = 0
      BY <2>1, <1>4 DEF Right, Rest
    <3> HIDE DEF h
    <3> QED
      BY <2>1, <3>2, <3>3
  <2>2. CASE j + 1 # al
    BY <2>2 DEF Right, Rest
  <2> QED
    BY <2>1, <2>2
<1>12. Rest(x, al, b, j) = r
  BY DEF Rest
<1> DEFINE w == q * u
<1> HIDE DEF p, q, h, r, y, u
<1>6. w \in 0 .. B - q
  BY <1>4
<1>7. h + w \in Limb
  <2> HIDE DEF w
  <2> QED
    BY <1>4, <1>6 DEF Limb
<1>8. p * h + r + B * u = p * (h + w) + r
  <2>1. h \in Int /\ r \in Int /\ u \in Int /\ p \in Int /\ q \in Int
    BY <1>4
  <2>2. p * h + r + (q * p) * u = p * (h + q * u) + r
    BY <2>1
  <2> QED
    BY <1>4, <2>2
<1>9. Right(x, al, b, j) = h + w
  BY <1>4, <1>5
<1>10. x[j] + B * u = p * Right(x, al, b, j) + r
  BY <1>4, <1>8, <1>9
<1>11. r \in 0 .. p - 1
  BY <1>4
<1> QED
  BY <1>5, <1>7, <1>9, <1>10, <1>11, <1>12 DEF p

(* A shift by no bit leaves every limb as it is. *)
LEMMA UnshiftedRight ==
  ASSUME NEW al \in Nat, NEW x, Holds(x, al), NEW j \in 0 .. al - 1
  PROVE  Right(x, al, 0, j) = x[j]
<1>1. 0 \in 0 .. W - 1 /\ 2^0 = 1
  BY WordAssumption
<1>2. ASSUME NEW i \in 0 .. al PROVE Rest(x, al, 0, i) = 0
  <2>1. CASE i = al
    BY <2>1 DEF Rest
  <2>2. CASE i # al
    <3>1. i \in 0 .. al - 1
      BY <2>2
    <3>2. Rest(x, al, 0, i) \in 0 .. 2^0 - 1
      BY <1>1, <3>1, RightLimb
    <3> QED
      BY <1>1, <3>2
  <2> QED
    BY <2>1, <2>2
<1>3. /\ Right(x, al, 0, j) \in Limb
      /\ x[j] + B * Rest(x, al, 0, j + 1) = 2^0 * Right(x, al, 0, j) + Rest(x, al, 0, j)
  BY <1>1, RightLimb
<1>4. Rest(x, al, 0, j) = 0 /\ Rest(x, al, 0, j + 1) = 0
  BY <1>2
<1>5. x[j] \in Limb
  BY DEF Holds
<1>6. x[j] + B * 0 = 1 * Right(x, al, 0, j) + 0
  BY <1>1, <1>3, <1>4
<1>7. x[j] \in Int /\ Right(x, al, 0, j) \in Int /\ B \in Int
  BY <1>3, <1>5, Base DEF Limb
<1> QED
  BY <1>6, <1>7

(* The limbs that a shift to the right makes are the quotient by 2^n. *)
LEMMA RightVal ==
  ASSUME NEW al \in Nat, NEW x, Holds(x, al), NEW n \in 0 .. W - 1, NEW d, Holds(d, al),
         \A j \in 0 .. al - 1 : d[j] = Right(x, al, n, j)
  PROVE  \E t \in 0 .. 2^n - 1 : Val(x, al) = 2^n * Val(d, al) + t
<1> DEFINE c == [j \in 0 .. al |-> Rest(x, al, n, j)]
           z == [j \in 0 .. al - 1 |-> 0]
           p == 2^n
<1>12. p \in Nat \ {0} /\ B \in Int /\ n \in 0 .. W
  BY WordAssumption, TwoPowers, Base
<1>13. Holds(d, al) /\ Holds(z, al) /\ Holds(z, 0)
  <2>1. 0 \in Limb
    BY Base DEF Limb
  <2> QED
    BY <2>1 DEF Holds
<1>14. \A j \in 0 .. al : c[j] \in 0 .. p - 1
  <2> TAKE j \in 0 .. al
  <2>1. c[j] = Rest(x, al, n, j)
    OBVIOUS
  <2>2. CASE j = al
    BY <1>12, <2>1, <2>2 DEF Rest
  <2>3. CASE j # al
    <3>1. j \in 0 .. al - 1
      BY <2>3
    <3> QED
      BY <2>1, <3>1, RightLimb
  <2> QED
    BY <2>2, <2>3
<1>15. ASSUME NEW j \in 0 .. al - 1 PROVE x[j] + B * c[j + 1] = z[j] + p * d[j] + c[j]
  <2>1. c[j] = Rest(x, al, n, j) /\ c[j + 1] = Rest(x, al, n, j + 1) /\ z[j] = 0
    OBVIOUS
  <2>2. x[j] + B * Rest(x, al, n, j + 1) = 2^n * Right(x, al, n, j) + Rest(x, al, n, j)
    BY RightLimb
  <2>3. d[j] = Right(x, al, n, j) /\ d[j] \in Int
    BY <1>13, Base DEF Holds, Limb
  <2>4. c[j] \in 0 .. p - 1
    BY <1>14
  <2> HIDE DEF c, z
  <2>5. x[j] + B * c[j + 1] = p * d[j] + c[j]
    BY <2>1, <2>2, <2>3
  <2> HIDE DEF p
  <2> QED
    BY <2>1, <2>3, <2>4, <2>5, <1>12
<1>16. Val(z, al) = 0
  <2>1. (\A j \in 0 .. al - 1 : z[j] = 0) /\ 0 \in Nat /\ 0 <= al
    OBVIOUS
  <2> HIDE DEF z
  <2>2. Val(z, al) = Val(z, 0)
    BY <1>13, <2>1, ValPad
  <2> QED
    BY <2>2, ValZero
<1>17. c[al] = 0 /\ c[0] \in 0 .. p - 1
  BY <1>14 DEF Rest
<1> HIDE DEF c, z, p
<1>18. Val(x, al) + Power(al) * c[al] = Val(z, al) + p * Val(d, al) + c[0]
  <2>1. \A j \in 0 .. al : c[j] \in Int
    BY <1>12, <1>14
  <2>2. Carried(x, z, p, d, c, al)
    BY <2>1, <1>13, <1>14, <1>15 DEF Carried
  <2> QED
    BY <1>12, <2>2, Carries
<1>19. Val(x, al) = p * Val(d, al) + c[0]
  <2>1. Val(x, al) \in Int /\ Val(d, al) \in Int /\ Power(al) \in Int /\ p * Val(d, al) \in Int
    <3>1. Val(x, al) \in Int /\ Val(d, al) \in Int /\ Power(al) \in Int
      BY <1>13, ValRange, PowerStep
    <3> QED
      BY <1>12, <3>1
  <2> QED
    BY <1>16, <1>17, <1>18, <2>1
<1> QED
  BY <1>17, <1>19 DEF p

(* ll_rshift by l limbs and n bits divides by B^l * 2^n and rounds down. *)
LEMMA RShiftFar ==
  ASSUME NEW m \in Nat, NEW al \in 1 .. m, NEW l \in Nat, NEW x \in [0 .. m -> Limb],
         NEW n \in 0 .. W - 1, NEW z, Distance(z, l, n)
  PROVE  LET r == RShift(x, al, z)
         IN  /\ r.d \in [0 .. m -> Limb]
             /\ \E t \in 0 .. Power(l) * 2^n - 1 :
                  Val(x, al) = (Power(l) * 2^n) * Val(r.d, al) + t
<1> DEFINE zl == z \div W   b == z % W
           Next(p, k) == [p EXCEPT ![k - 1] = IF b = 0 THEN p[k - 1 + zl]
                                              ELSE (p[k - 1 + zl] \div 2^b)
                                                     + IF k = al - zl THEN 0
                                                       ELSE Wrap(p[k + zl] * 2^(W - b))]
           Body(s) == [k \in 0 .. al - zl |-> IF k = 0 THEN x ELSE Next(s[k - 1], k)]
           S == CHOOSE s : s = Body(s)
           d == [j \in DOMAIN x |-> IF j \in al - zl .. al - 1 THEN 0 ELSE S[al - zl][j]]
           cleared == [j \in DOMAIN x |-> IF j < zl THEN 0 ELSE x[j]]
           y == From(x, l, al - l)
           state(k) == [j \in 0 .. m |-> IF j < k THEN Right(y, al - l, n, j) ELSE x[j]]
<1>0. al \in Nat /\ z \in Nat /\ Holds(x, al)
  BY DEF Distance, Holds
<1>1. RShift(x, al, z) =
        IF al = 0 THEN [d |-> x, c |-> 0]
        ELSE IF zl >= al THEN [d |-> cleared, c |-> cleared[0]]
        ELSE [d |-> d, c |-> d[al - zl]]
  BY DEF RShift
<1>2. zl = l /\ b = n
  <2>1. W \in Nat \ {0} /\ z = W * l + n /\ z \in Int /\ l \in Int
    BY <1>0, WordAssumption DEF Distance
  <2>2. z \div W = l /\ z % W = n
    BY <2>1, DivModIs
  <2> QED
    BY <2>2
<1> HIDE DEF zl, b
<1> DEFINE p == 2^n   v == Val(x, al)
<1>3. p \in Nat \ {0} /\ Power(l) \in Nat \ {0} /\ v \in Nat /\ v < Power(al) /\ n \in 0 .. W
  <2>1. n \in 0 .. W
    BY WordAssumption
  <2> QED
    BY <1>0, <2>1, TwoPowers, PowerStep, ValRange
<1>4. \A j \in 0 .. m : x[j] \in Limb
  OBVIOUS
<1>5. 0 \in Limb
  BY Base DEF Limb
<1>6. CASE l >= al
  <2>1. RShift(x, al, z).d = cleared
    <3>1. al # 0 /\ zl >= al
      BY <1>2, <1>6
    <3> HIDE DEF cleared, d
    <3> QED
      BY <1>1, <3>1
  <2>2. cleared \in [0 .. m -> Limb] /\ \A j \in 0 .. al - 1 : cleared[j] = 0
    BY <1>2, <1>4, <1>5, <1>6
  <2> HIDE DEF cleared, d, v, p
  <2>3. Val(cleared, al) = 0
    <3>1. 0 \in Nat /\ 0 <= al /\ Holds(cleared, 0) /\ \A j \in 0 .. al - 1 : cleared[j] = 0
      BY <2>2, <1>0 DEF Holds
    <3>2. Val(cleared, al) = Val(cleared, 0)
      BY <1>0, <3>1, ValPad
    <3> QED
      BY <3>2, ValZero
  <2>4. v \in 0 .. Power(l) * p - 1
    <3>1. Power(al) <= Power(l)
      BY <1>0, <1>6, PowerMonotone
    <3>2. Power(l) * (p - 1) \in Nat /\ Power(l) * (p - 1) = Power(l) * p - Power(l)
      <4>1. p - 1 \in Nat
        BY <1>3
      <4> QED
        BY <1>3, <4>1
    <3> DEFINE a == Power(l)   c == a * p   e == Power(al)
    <3>3. c \in Int /\ a \in Int /\ c >= a /\ e \in Int
      <4>1. Power(al) \in Int
        BY <1>0, PowerStep
      <4>2. a * p \in Int
        BY <1>3
      <4> HIDE DEF c, a
      <4> QED
        BY <1>3, <3>2, <4>1, <4>2 DEF a, c
    <3>4. v < e /\ e <= a /\ v \in Nat
      BY <1>3, <3>1
    <3> HIDE DEF a, c, e
    <3>5. v \in 0 .. c - 1
      BY <3>3, <3>4
    <3> QED
      BY <3>5 DEF a, c
  <2>5. (Power(l) * p) * 0 = 0
    <3>1. Power(l) * p \in Int
      BY <1>3
    <3> QED
      BY <3>1
  <2>6. v = (Power(l) * p) * Val(cleared, al) + v
    BY <2>3, <2>5, <1>3
  <2> QED
    BY <2>1, <2>2, <2>4, <2>6 DEF v, p
<1>7. CASE l < al
  <2> DEFINE k0 == al - l
  <2>1. k0 \in Nat /\ k0 >= 1 /\ k0 <= al /\ al - zl = k0 /\ al = l + k0 /\ l \in Nat
    BY <1>0, <1>2, <1>7
  <2>2. /\ Holds(y, k0) /\ Holds(x, l) /\ Holds(x, l + k0)
        /\ \A j \in 0 .. k0 - 1 : y[j] = x[l + j] /\ y[j] \in Limb
    <3>1. \A j \in 0 .. k0 - 1 : y[j] = x[l + j] /\ l + j \in 0 .. m
      BY <2>1 DEF From
    <3> HIDE DEF y, k0
    <3> QED
      BY <1>0, <1>4, <2>1, <3>1 DEF Holds
  <2>3. \A j \in 0 .. k0 - 1 : Right(y, k0, n, j) \in Limb
    BY <2>1, <2>2, RightLimb
  <2>4. \A k \in 0 .. k0 : state(k) \in [0 .. m -> Limb]
    <3> TAKE k \in 0 .. k0
    <3>1. \A j \in 0 .. m : j < k => j \in 0 .. k0 - 1
      BY <2>1
    <3> HIDE DEF y
    <3> QED
      BY <1>4, <2>3, <3>1
  <2>5. ASSUME NEW k \in 1 .. k0 PROVE Next(state(k - 1), k) = state(k)
    <3> DEFINE q == state(k - 1)   i == k - 1
    <3>1. /\ i \in 0 .. m /\ i \in 0 .. k0 - 1 /\ i + 1 = k /\ k - 1 + zl = l + i /\ k + zl = l + k
          /\ l + i \in 0 .. m /\ ~(l + i < i) /\ l + k \in 0 .. m /\ ~(l + k < i)
      BY <1>2, <2>1
    <3>2. q[l + i] = y[i] /\ q \in [0 .. m -> Limb]
      <4>1. q[l + i] = x[l + i]
        BY <3>1
      <4>2. k - 1 \in 0 .. k0
        BY <2>1
      <4>3. y[i] = x[l + i]
        BY <2>2, <3>1
      <4> HIDE DEF state, y
      <4> QED
        BY <2>4, <4>1, <4>2, <4>3
    <3>3. k # k0 => q[l + k] = y[k]
      <4>1. q[l + k] = x[l + k]
        BY <3>1
      <4>2. k # k0 => k \in 0 .. k0 - 1
        BY <2>1
      <4> HIDE DEF state, y, q
      <4> QED
        BY <2>2, <4>1, <4>2
    <3>4. (IF b = 0 THEN q[k - 1 + zl]
           ELSE (q[k - 1 + zl] \div 2^b) + IF k = al - zl THEN 0 ELSE Wrap(q[k + zl] * 2^(W - b)))
            = Right(y, k0, n, i)
      <4> HIDE DEF q, state, y, i, k0
      <4>1. CASE b = 0
        <5>1. n = 0
          BY <1>2, <4>1
        <5>2. y[i] = Right(y, k0, n, i)
          BY <2>1, <2>2, <3>1, <5>1, UnshiftedRight
        <5> QED
          BY <3>1, <3>2, <4>1, <5>2
      <4>2. CASE b # 0
        BY <1>2, <2>1, <3>1, <3>2, <3>3, <4>2 DEF Right
      <4> QED
        BY <4>1, <4>2
    <3>5. Next(q, k) = [q EXCEPT ![i] = Right(y, k0, n, i)]
      <4> HIDE DEF q, state, y, k0
      <4> QED
        BY <3>4
    <3>6. [q EXCEPT ![i] = Right(y, k0, n, i)] = state(k)
      <4> HIDE DEF y
      <4> DEFINE f == [q EXCEPT ![i] = Right(y, k0, n, i)]
      <4>1. \A j \in 0 .. m : f[j] = state(k)[j]
        <5> TAKE j \in 0 .. m
        <5>1. j < k <=> (j = i \/ j < k - 1)
          BY <3>1
        <5>2. f[j] = IF j = i THEN Right(y, k0, n, i) ELSE q[j]
          BY <3>1
        <5> QED
          BY <5>1, <5>2
      <4> QED
        BY <4>1
    <3> HIDE DEF Next, state, y, k0, i
    <3> QED
      BY <3>5, <3>6 DEF q
  <2>6. state(0) = x
    <3>1. \A j \in 0 .. m : ~(j < 0)
      OBVIOUS
    <3> HIDE DEF y
    <3> QED
      BY <3>1
  <2>7. S[k0] = state(k0)
    <3> DEFINE g == [k \in 0 .. al - zl |-> state(k)]
    <3>1. g = Body(g)
      <4> HIDE DEF state, Next, k0, y
      <4> QED
        BY <2>1, <2>5, <2>6
    <3>2. S = Body(S)
      <4> HIDE DEF Body, g
      <4> QED
        BY <3>1
    <3> HIDE DEF S, state, Next, y, k0
    <3>3. S[0] = state(0) /\ \A k \in 1 .. k0 : S[k] = Next(S[k - 1], k)
      <4>1. Body(S)[0] = state(0) /\ \A k \in 1 .. k0 : Body(S)[k] = Next(S[k - 1], k)
        BY <2>1, <2>6
      <4> HIDE DEF Body
      <4> QED
        BY <3>2, <4>1
    <3> DEFINE T == {k \in 0 .. k0 : S[k] = state(k)}
    <3>4. 0 \in T
      BY <2>1, <3>3
    <3>5. ASSUME NEW k \in 0 .. k0 - 1, k \in T PROVE k + 1 \in T
      <4>1. k + 1 \in 1 .. k0 /\ k + 1 \in 0 .. k0 /\ (k + 1) - 1 = k /\ S[k] = state(k)
        BY <2>1, <3>5
      <4>2. S[k + 1] = Next(S[k], k + 1) /\ Next(state(k), k + 1) = state(k + 1)
        BY <2>5, <3>3, <4>1
      <4> QED
        BY <4>1, <4>2
    <3>6. 0 .. k0 \subseteq T
      <4> HIDE DEF T
      <4> QED
        BY <3>4, <3>5, <2>1, InductionTo
    <3>7. k0 \in 0 .. k0
      BY <2>1
    <3> QED
      BY <3>6, <3>7
  <2> HIDE DEF S, y
  <2>8. /\ d \in [0 .. m -> Limb]
        /\ \A j \in 0 .. k0 - 1 : d[j] = Right(y, k0, n, j)
        /\ \A j \in k0 .. al - 1 : d[j] = 0
    <3>1. \A j \in 0 .. m : d[j] = IF j \in k0 .. al - 1 THEN 0 ELSE state(k0)[j]
      <4> HIDE DEF state, k0
      <4> QED
        BY <2>1, <2>7
    <3>2. DOMAIN d = 0 .. m /\ d = [j \in 0 .. m |-> d[j]]
      OBVIOUS
    <3>3. \A j \in 0 .. k0 - 1 : state(k0)[j] = Right(y, k0, n, j)
      BY <2>1
    <3>4. state(k0) \in [0 .. m -> Limb]
      <4>1. k0 \in 0 .. k0
        BY <2>1
      <4> HIDE DEF state, k0
      <4> QED
        BY <2>4, <4>1
    <3>5. (\A j \in 0 .. k0 - 1 : j \in 0 .. m /\ ~(j \in k0 .. al - 1)) /\ \A j \in k0 .. al - 1 : j \in 0 .. m
      BY <2>1
    <3> HIDE DEF d, state, k0
    <3>6. \A j \in 0 .. m : d[j] \in Limb
      BY <3>1, <3>4, <1>5
    <3> QED
      BY <3>1, <3>2, <3>3, <3>5, <3>6
  <2>9. RShift(x, al, z).d = d
    <3>1. al # 0 /\ ~(zl >= al)
      BY <1>2, <1>7
    <3> HIDE DEF cleared, d
    <3> QED
      BY <1>1, <3>1
  <2> HIDE DEF d, state, cleared, k0
  <2>10. PICK t \in 0 .. p - 1 : Val(y, k0) = p * Val(d, k0) + t
    <3>1. Holds(d, k0)
      BY <2>1, <2>8 DEF Holds
    <3>2. k0 \in Nat /\ Holds(y, k0) /\ \A j \in 0 .. k0 - 1 : d[j] = Right(y, k0, n, j)
      BY <2>1, <2>2, <2>8
    <3> HIDE DEF p
    <3>3. \E t \in 0 .. 2^n - 1 : Val(y, k0) = 2^n * Val(d, k0) + t
      BY <3>1, <3>2, RightVal
    <3> QED
      BY <3>3 DEF p
  <2>11. Val(d, al) = Val(d, k0) /\ Holds(d, k0) /\ Val(d, k0) \in Nat
    <3>1. Holds(d, k0)
      BY <2>1, <2>8 DEF Holds
    <3> QED
      BY <1>0, <2>1, <2>8, <3>1, ValPad, ValRange
  <2>12. v = Val(x, l) + Power(l) * Val(y, k0) /\ Val(x, l) \in Nat /\ Val(x, l) < Power(l)
    <3>1. Val(x, l + k0) = Val(x, l) + Power(l) * Val(From(x, l, k0), k0)
      BY <2>1, <2>2, ValSplit
    <3>2. From(x, l, k0) = y
      BY DEF y, k0
    <3> QED
      BY <2>1, <2>2, <3>1, <3>2, ValRange
  <2> DEFINE a == Power(l)   u == Val(d, k0)   w == Val(x, l)
  <2>13. a \in Nat \ {0} /\ u \in Nat /\ w \in 0 .. a - 1 /\ t \in 0 .. p - 1 /\ p \in Nat \ {0}
    BY <1>3, <2>11, <2>12
  <2>14. v = w + a * (p * u + t)
    BY <2>10, <2>12
  <2> HIDE DEF a, u, w, p, v
  <2>15. v = (a * p) * u + (w + a * t)
    <3>1. a * (p * u + t) = (a * p) * u + a * t
      BY <2>13
    <3> DEFINE e == a * t   f == (a * p) * u
    <3>2. e \in Int /\ f \in Int
      BY <2>13
    <3>3. v = w + (f + e)
      BY <2>14, <3>1
    <3> HIDE DEF e, f
    <3>4. v = f + (w + e)
      BY <2>13, <3>2, <3>3
    <3> QED
      BY <3>4 DEF e, f
  <2>16. w + a * t \in 0 .. a * p - 1
    <3>1. p - 1 - t \in Nat /\ a * (p - 1 - t) \in Nat /\ a * (p - 1 - t) = a * p - a - a * t
      BY <2>13
    <3> DEFINE e == a * t   f == a * p
    <3>2. e \in Nat /\ f \in Nat
      BY <2>13
    <3>3. f - a - e >= 0
      <4> HIDE DEF e, f
      <4> QED
        BY <3>1 DEF e, f
    <3> HIDE DEF e, f
    <3>4. w + e \in 0 .. f - 1
      BY <2>13, <3>2, <3>3
    <3> QED
      BY <3>4 DEF e, f
  <2>17. Val(d, al) = u
    BY <2>11 DEF u
  <2>18. \E r \in 0 .. a * p - 1 : v = (a * p) * Val(d, al) + r
    BY <2>15, <2>16, <2>17
  <2> QED
    BY <2>8, <2>9, <2>18 DEF a, p, v
<1> QED
  BY <1>6, <1>7

(* ll_rshift by less than a limb divides by 2^n and rounds down. *)
LEMMA RShiftIs ==
  ASSUME NEW m \in Nat, NEW al \in 1 .. m, NEW x \in [0 .. m -> Limb], NEW n \in 0 .. W - 1
  PROVE  LET r == RShift(x, al, n)
         IN  /\ r.d \in [0 .. m -> Limb]
             /\ \E t \in 0 .. 2^n - 1 : Val(x, al) = 2^n * Val(r.d, al) + t
<1> DEFINE r == RShift(x, al, n)   p == 2^n
<1>1. Distance(n, 0, n) /\ 0 \in Nat
  BY WordAssumption DEF Distance
<1>2. /\ r.d \in [0 .. m -> Limb]
      /\ \E t \in 0 .. Power(0) * p - 1 : Val(x, al) = (Power(0) * p) * Val(r.d, al) + t
  <2> DEFINE o == 0
  <2>1. o \in Nat /\ Distance(n, o, n)
    BY <1>1
  <2> HIDE DEF o
  <2>2. LET y == RShift(x, al, n)
        IN  /\ y.d \in [0 .. m -> Limb]
            /\ \E t \in 0 .. Power(o) * 2^n - 1 :
                 Val(x, al) = (Power(o) * 2^n) * Val(y.d, al) + t
    BY <2>1, RShiftFar
  <2> QED
    BY <2>2 DEF o
<1>3. Power(0) * p = p
  <2>1. n \in 0 .. W
    BY WordAssumption
  <2>2. p \in Nat /\ Power(0) = 1
    BY <2>1, TwoPowers, PowerStep
  <2> HIDE DEF p
  <2> QED
    BY <2>2
<1> HIDE DEF r, p
<1> QED
  BY <1>2, <1>3 DEF r, p

------------------------------------------------------------------------------
(* y has l limbs, and x has m limbs, l limbs and k limbs. *)
Fits(y, x, m, l, k) ==
  /\ Holds(x, m + l + k) /\ 0 .. m + l + k - 1 \subseteq DOMAIN x
  /\ Holds(y, l) /\ DOMAIN y = 0 .. l - 1

(* Writing l limbs at place m changes the number by what they change. *)
LEMMA IntoIs ==
  ASSUME NEW m \in Nat, NEW l \in Nat, NEW k \in Nat, NEW x, NEW y, Fits(y, x, m, l, k)
  PROVE  /\ Holds(Into(x, m, y), m + l + k)
         /\ Val(Into(x, m, y), m + l + k)
              = Val(x, m) + Power(m) * (Val(y, l) + Power(l) * Val(From(x, m + l, k), k))
         /\ Val(x, m + l + k)
              = Val(x, m) + Power(m) * (Val(From(x, m, l), l) + Power(l) * Val(From(x, m + l, k), k))
<1> DEFINE z == Into(x, m, y)
<1>0. /\ Holds(x, m + l + k) /\ 0 .. m + l + k - 1 \subseteq DOMAIN x
      /\ Holds(y, l) /\ DOMAIN y = 0 .. l - 1
  BY DEF Fits
<1>1. \A j \in 0 .. m + l + k - 1 :
        z[j] = IF j - m \in 0 .. l - 1 THEN y[j - m] ELSE x[j]
  BY <1>0 DEF Into
<1>2. Holds(z, m + l + k)
  <2> HIDE DEF z
  <2> QED
    BY <1>0, <1>1 DEF Holds
<1>3. ASSUME NEW w, Holds(w, m + l + k)
      PROVE  Val(w, m + l + k)
               = Val(w, m) + Power(m) * (Val(From(w, m, l), l) + Power(l) * Val(From(w, m + l, k), k))
  <2> DEFINE u == From(w, m, l + k)
  <2>1. l + k \in Nat /\ m + (l + k) = m + l + k
    OBVIOUS
  <2>2. Val(w, m + (l + k)) = Val(w, m) + Power(m) * Val(u, l + k)
    BY <1>3, <2>1, ValSplit
  <2>3. Holds(u, l + k) /\ \A j \in 0 .. l + k - 1 : u[j] = w[m + j]
    BY <1>3 DEF Holds, From
  <2>4. From(u, l, k) = From(w, m + l, k)
    <3>1. \A j \in 0 .. k - 1 : u[l + j] = w[m + l + j]
      BY <2>3
    <3> HIDE DEF u
    <3> QED
      BY <3>1 DEF From
  <2>5. Val(u, l) = Val(From(w, m, l), l)
    <3> HIDE DEF u
    <3>1. Holds(u, l) /\ \A j \in 0 .. l - 1 : u[j] = w[m + j]
      BY <2>3 DEF Holds
    <3>2. \A j \in 0 .. l - 1 : u[j] = From(w, m, l)[j]
      BY <3>1 DEF From
    <3> QED
      BY <3>1, <3>2, ValSame
  <2> HIDE DEF u
  <2>6. Val(u, l + k) = Val(u, l) + Power(l) * Val(From(u, l, k), k)
    BY <2>3, ValSplit
  <2> QED
    BY <2>1, <2>2, <2>4, <2>5, <2>6
<1>4. Val(z, m) = Val(x, m)
  <2>1. Holds(x, m) /\ \A j \in 0 .. m - 1 : x[j] = z[j]
    <3> HIDE DEF z
    <3> QED
      BY <1>0, <1>1 DEF Holds
  <2> HIDE DEF z
  <2> QED
    BY <2>1, ValSame
<1>5. Val(From(z, m, l), l) = Val(y, l)
  <2>1. \A j \in 0 .. l - 1 : y[j] = From(z, m, l)[j]
    <3> HIDE DEF z
    <3> QED
      BY <1>0, <1>1 DEF From
  <2> HIDE DEF z
  <2> QED
    BY <1>0, <2>1, ValSame
<1>6. From(z, m + l, k) = From(x, m + l, k)
  <2> HIDE DEF z
  <2>1. \A j \in 0 .. k - 1 : z[m + l + j] = x[m + l + j]
    BY <1>1
  <2> QED
    BY <2>1 DEF From
<1>7. Val(z, m + l + k) = Val(z, m) + Power(m) * (Val(From(z, m, l), l) + Power(l) * Val(From(z, m + l, k), k))
  <2> HIDE DEF z
  <2> QED
    BY <1>2, <1>3
<1>8. Val(x, m + l + k) = Val(x, m) + Power(m) * (Val(From(x, m, l), l) + Power(l) * Val(From(x, m + l, k), k))
  BY <1>0, <1>3
<1> HIDE DEF z
<1>9. /\ Holds(z, m + l + k)
      /\ Val(z, m + l + k) = Val(x, m) + Power(m) * (Val(y, l) + Power(l) * Val(From(x, m + l, k), k))
  BY <1>2, <1>4, <1>5, <1>6, <1>7
<1> QED
  BY <1>8, <1>9 DEF z

(* Nothing is above place m of a number below the power m of the base. *)
LEMMA UpperZero ==
  ASSUME NEW m \in Nat, NEW k \in Nat, NEW x, Holds(x, m + k), Val(x, m + k) < Power(m)
  PROVE  Val(From(x, m, k), k) = 0 /\ Val(x, m) = Val(x, m + k)
<1> DEFINE h == Val(From(x, m, k), k)   p == Power(m)   l == Val(x, m)
<1>1. Val(x, m + k) = l + p * h
  BY ValSplit
<1>2. Holds(From(x, m, k), k) /\ Holds(x, m)
  BY DEF Holds, From
<1>3. h \in Nat /\ l \in Nat /\ p \in Nat \ {0}
  BY <1>2, ValRange, PowerStep
<1> HIDE DEF h, l, p
<1>4. h = 0
  <2> SUFFICES ASSUME h >= 1 PROVE FALSE
    BY <1>3
  <2>1. p * (h - 1) \in Nat /\ p * (h - 1) = p * h - p /\ p * h \in Int
    BY <1>3
  <2> QED
    BY <1>1, <1>3, <2>1 DEF p
<1>5. p * h = 0
  BY <1>3, <1>4
<1> QED
  BY <1>1, <1>3, <1>4, <1>5 DEF h, l

(* The numbers of up to three limbs. *)
LEMMA FewLimbs ==
  ASSUME NEW x
  PROVE  /\ Holds(x, 1) => Val(x, 1) = x[0]
         /\ Holds(x, 2) => Val(x, 2) = x[0] + B * x[1]
         /\ Holds(x, 3) => Val(x, 3) = x[0] + B * x[1] + (B * B) * x[2]
         /\ Power(1) = B /\ Power(2) = B * B
<1>0. B \in Nat /\ 0 \in Nat /\ 1 \in Nat /\ 2 \in Nat
  BY Base
<1>1. Power(1) = B /\ Power(2) = B * B
  <2>1. Power(0) = 1 /\ Power(0 + 1) = B * Power(0) /\ Power(1 + 1) = B * Power(1)
    BY <1>0, PowerStep
  <2> QED
    BY <1>0, <2>1
<1>2. ASSUME Holds(x, 1) PROVE Val(x, 1) = x[0]
  <2>1. x[0] \in Nat
    BY <1>0, <1>2 DEF Holds, Limb
  <2>2. Val(x, 0 + 1) = Val(x, 0) + Power(0) * x[0]
    BY <1>0, <1>2, ValStep
  <2> QED
    BY <2>1, <2>2, ValZero, PowerStep
<1>3. ASSUME Holds(x, 2) PROVE Val(x, 2) = x[0] + B * x[1]
  <2>1. Holds(x, 1)
    BY <1>3 DEF Holds
  <2>2. Val(x, 1 + 1) = Val(x, 1) + Power(1) * x[1]
    BY <1>0, <1>3, ValStep
  <2> QED
    BY <1>1, <1>2, <2>1, <2>2
<1>4. ASSUME Holds(x, 3) PROVE Val(x, 3) = x[0] + B * x[1] + (B * B) * x[2]
  <2>1. Holds(x, 2)
    BY <1>4 DEF Holds
  <2>2. Val(x, 2 + 1) = Val(x, 2) + Power(2) * x[2]
    BY <1>0, <1>4, ValStep
  <2> QED
    BY <1>1, <1>3, <2>1, <2>2
<1> QED
  BY <1>1, <1>2, <1>3, <1>4

------------------------------------------------------------------------------
(* The carry of a limb in ll_add_limb, whose operand may be a whole limb.   *)
LimbCarryOut(a, p) == Bit(Wrap(a + p) < p)

(* The comparison finds it. *)
LEMMA LimbCarryOutIs ==
  ASSUME NEW a \in Limb, NEW p \in Limb
  PROVE  /\ LimbCarryOut(a, p) \in {0, 1} /\ Wrap(a + p) \in Limb
         /\ Wrap(a + p) + B * LimbCarryOut(a, p) = a + p
  BY WrapSum DEF LimbCarryOut

AddLimbLoop(ad, b, al, c) ==
  /\ c[0] = b
  /\ \A k \in 1 .. al : c[k] = LimbCarryOut(ad[k - 1], c[k - 1])
  /\ \A k \in 0 .. al : c[k] \in {b, 0, 1}
  /\ AddLimb(ad, b, al) = [d |-> [i \in 0 .. al - 1 |-> Wrap(ad[i] + c[i])], c |-> c[al]]

(* The recursive function of AddLimb exists and yields carries. *)
LEMMA AddLimbLoops ==
  ASSUME NEW al \in Nat, NEW ad, Holds(ad, al), NEW b \in Limb
  PROVE  \E c : AddLimbLoop(ad, b, al, c)
<1> DEFINE Body(c) == [i \in 0 .. al |->
               IF i = 0 THEN b
               ELSE LET p == c[i - 1] IN Bit(Wrap(ad[i - 1] + p) < p)]
           C == CHOOSE c : c = Body(c)
           S == {b, 0, 1}
           G == [k \in 1 .. al |-> [p \in S |-> LimbCarryOut(ad[k - 1], p)]]
<1>1. AddLimb(ad, b, al) = [d |-> [i \in 0 .. al - 1 |-> Wrap(ad[i] + C[i])], c |-> C[al]]
  BY DEF AddLimb
<1>2. \A k \in 1 .. al, p \in S : G[k][p] = LimbCarryOut(ad[k - 1], p) /\ G[k][p] \in S
  <2>1. \A k \in 1 .. al : ad[k - 1] \in Limb /\ S \subseteq Limb
    BY Base DEF Holds, Limb
  <2> QED
    BY <2>1, LimbCarryOutIs
<1>3. Steps(al, S, b, G)
  BY <1>2 DEF Steps
<1>4. PICK g \in [0 .. al -> S] : Follows(g, al, b, G)
  <2> HIDE DEF G, S
  <2> QED
    BY <1>3, Recursion
<1>5. g[0] = b /\ \A k \in 1 .. al : g[k] = LimbCarryOut(ad[k - 1], g[k - 1])
  <2>1. \A k \in 1 .. al : g[k - 1] \in S
    OBVIOUS
  <2> HIDE DEF G, S
  <2> QED
    BY <1>2, <1>4, <2>1 DEF Follows
<1>6. g = Body(g)
  BY <1>5 DEF LimbCarryOut
<1>7. C = Body(C)
  <2> HIDE DEF Body
  <2> QED
    BY <1>6
<1>8. C[0] = b /\ \A k \in 1 .. al : C[k] = LimbCarryOut(ad[k - 1], C[k - 1])
  <2> HIDE DEF C
  <2> QED
    BY <1>7 DEF LimbCarryOut
<1>9. \A k \in 0 .. al : C[k] \in S
  <2> HIDE DEF C, G, S
  <2>1. Takes(C, al, S, b, G)
    BY <1>2, <1>8 DEF Takes
  <2> QED
    BY <1>3, <2>1, Iterates
<1> QED
  <2> HIDE DEF C
  <2> QED
    BY <1>1, <1>8, <1>9 DEF AddLimbLoop

(* The borrow of a limb in ll_sub_limb. *)
LimbBorrowOut(a, p) == Bit(a < p)

(* The comparison finds it. *)
LEMMA LimbBorrowOutIs ==
  ASSUME NEW a \in Limb, NEW p \in Limb
  PROVE  /\ LimbBorrowOut(a, p) \in {0, 1} /\ Wrap(a - p) \in Limb
         /\ Wrap(a - p) - B * LimbBorrowOut(a, p) = a - p
  BY WrapDifference DEF LimbBorrowOut

SubLimbLoop(ad, b, al, c) ==
  /\ c[0] = b
  /\ \A k \in 1 .. al : c[k] = LimbBorrowOut(ad[k - 1], c[k - 1])
  /\ \A k \in 0 .. al : c[k] \in {b, 0, 1}
  /\ SubLimb(ad, b, al) = [d |-> [i \in 0 .. al - 1 |-> Wrap(ad[i] - c[i])], c |-> c[al]]

(* The recursive function of SubLimb exists and yields borrows. *)
LEMMA SubLimbLoops ==
  ASSUME NEW al \in Nat, NEW ad, Holds(ad, al), NEW b \in Limb
  PROVE  \E c : SubLimbLoop(ad, b, al, c)
<1> DEFINE Body(c) == [i \in 0 .. al |-> IF i = 0 THEN b ELSE Bit(ad[i - 1] < c[i - 1])]
           C == CHOOSE c : c = Body(c)
           S == {b, 0, 1}
           G == [k \in 1 .. al |-> [p \in S |-> LimbBorrowOut(ad[k - 1], p)]]
<1>1. SubLimb(ad, b, al) = [d |-> [i \in 0 .. al - 1 |-> Wrap(ad[i] - C[i])], c |-> C[al]]
  BY DEF SubLimb
<1>2. \A k \in 1 .. al, p \in S : G[k][p] = LimbBorrowOut(ad[k - 1], p) /\ G[k][p] \in S
  <2>1. \A k \in 1 .. al : ad[k - 1] \in Limb /\ S \subseteq Limb
    BY Base DEF Holds, Limb
  <2> QED
    BY <2>1, LimbBorrowOutIs
<1>3. Steps(al, S, b, G)
  BY <1>2 DEF Steps
<1>4. PICK g \in [0 .. al -> S] : Follows(g, al, b, G)
  <2> HIDE DEF G, S
  <2> QED
    BY <1>3, Recursion
<1>5. g[0] = b /\ \A k \in 1 .. al : g[k] = LimbBorrowOut(ad[k - 1], g[k - 1])
  <2>1. \A k \in 1 .. al : g[k - 1] \in S
    OBVIOUS
  <2> HIDE DEF G, S
  <2> QED
    BY <1>2, <1>4, <2>1 DEF Follows
<1>6. g = Body(g)
  BY <1>5 DEF LimbBorrowOut
<1>7. C = Body(C)
  <2> HIDE DEF Body
  <2> QED
    BY <1>6
<1>8. C[0] = b /\ \A k \in 1 .. al : C[k] = LimbBorrowOut(ad[k - 1], C[k - 1])
  <2> HIDE DEF C
  <2> QED
    BY <1>7 DEF LimbBorrowOut
<1>9. \A k \in 0 .. al : C[k] \in S
  <2> HIDE DEF C, G, S
  <2>1. Takes(C, al, S, b, G)
    BY <1>2, <1>8 DEF Takes
  <2> QED
    BY <1>3, <2>1, Iterates
<1> QED
  <2> HIDE DEF C
  <2> QED
    BY <1>1, <1>8, <1>9 DEF SubLimbLoop

(* The same for borrows. *)
Borrowed(d, x, m, y, c, l) ==
  /\ Holds(d, l) /\ Holds(x, l) /\ Holds(y, l)
  /\ \A k \in 0 .. l : c[k] \in Int
  /\ \A k \in 0 .. l - 1 : d[k] - B * c[k + 1] = x[k] - m * y[k] - c[k]

(* The arrays stand for the difference, up to the borrow out of the last. *)
LEMMA Borrows ==
  ASSUME NEW l \in Nat, NEW d, NEW x, NEW y, NEW c, NEW m \in Int, Borrowed(d, x, m, y, c, l)
  PROVE  Val(d, l) - Power(l) * c[l] = Val(x, l) - m * Val(y, l) - c[0]
<1> DEFINE e == [k \in 0 .. l |-> -c[k]]   w == -m
<1>1. ASSUME NEW k \in 0 .. l - 1 PROVE d[k] + B * e[k + 1] = x[k] + w * y[k] + e[k]
  <2>1. k + 1 \in 0 .. l /\ k \in 0 .. l
    OBVIOUS
  <2>2. e[k + 1] = -c[k + 1] /\ e[k] = -c[k] /\ c[k + 1] \in Int /\ c[k] \in Int
    BY <2>1 DEF Borrowed
  <2>3. d[k] \in Int /\ x[k] \in Int /\ y[k] \in Int /\ B \in Int
    BY Base DEF Borrowed, Holds, Limb
  <2>4. d[k] - B * c[k + 1] = x[k] - m * y[k] - c[k]
    BY DEF Borrowed
  <2>5. w * y[k] = -(m * y[k]) /\ m * y[k] \in Int
    BY <2>3
  <2> HIDE DEF e, w
  <2>6. B * e[k + 1] = -(B * c[k + 1]) /\ B * c[k + 1] \in Int
    BY <2>2, <2>3
  <2> QED
    BY <2>2, <2>3, <2>4, <2>5, <2>6
<1>2. \A k \in 0 .. l : e[k] \in Int /\ e[k] = -c[k] /\ c[k] \in Int
  BY DEF Borrowed
<1>3. w \in Int /\ w * Val(y, l) = -(m * Val(y, l)) /\ m * Val(y, l) \in Int
  <2>1. Val(y, l) \in Int
    BY ValRange DEF Borrowed
  <2> QED
    BY <2>1
<1> HIDE DEF e, w
<1>4. Carried(d, x, w, y, e, l)
  BY <1>1, <1>2 DEF Borrowed, Carried
<1>5. Val(d, l) + Power(l) * e[l] = Val(x, l) + w * Val(y, l) + e[0]
  BY <1>3, <1>4, Carries
<1>6. Val(d, l) \in Int /\ Val(x, l) \in Int /\ Power(l) \in Int /\ l \in 0 .. l /\ 0 \in 0 .. l
  BY ValRange, PowerStep DEF Borrowed
<1>7. Power(l) * e[l] = -(Power(l) * c[l]) /\ Power(l) * c[l] \in Int
  BY <1>2, <1>6
<1> QED
  BY <1>2, <1>3, <1>5, <1>6, <1>7

(* ll_add_limb adds a limb, and returns the carry. *)
LEMMA AddLimbIs ==
  ASSUME NEW al \in Nat, NEW ad, Holds(ad, al), NEW b \in Limb
  PROVE  LET s == AddLimb(ad, b, al)
         IN  /\ s.d \in Arrays(al) /\ Holds(s.d, al)
             /\ s.c \in {b, 0, 1}
             /\ Val(s.d, al) + Power(al) * s.c = Val(ad, al) + b
<1>1. PICK c : AddLimbLoop(ad, b, al, c)
  BY AddLimbLoops
<1> DEFINE d == [i \in 0 .. al - 1 |-> Wrap(ad[i] + c[i])]
<1>2. \A k \in 0 .. al : c[k] \in {b, 0, 1} /\ c[k] \in Limb /\ c[k] \in Int
  BY <1>1, Base DEF AddLimbLoop, Limb
<1>3. ASSUME NEW k \in 0 .. al - 1
      PROVE  d[k] \in Limb /\ d[k] + B * c[k + 1] = ad[k] + 0 * ad[k] + c[k]
  <2>1. ad[k] \in Limb /\ c[k] \in Limb /\ ad[k] \in Int /\ c[k] \in Int /\ 0 * ad[k] = 0
    BY <1>2 DEF Holds, Limb
  <2>2. k + 1 \in 1 .. al /\ (k + 1) - 1 = k
    OBVIOUS
  <2>3. c[k + 1] = LimbCarryOut(ad[k], c[k])
    BY <1>1, <2>2 DEF AddLimbLoop
  <2>4. Wrap(ad[k] + c[k]) \in Limb /\ Wrap(ad[k] + c[k]) + B * c[k + 1] = ad[k] + c[k]
    BY <2>1, <2>3, LimbCarryOutIs
  <2> QED
    BY <2>1, <2>4
<1>4. d \in Arrays(al) /\ Holds(d, al)
  BY <1>3 DEF Arrays, Holds
<1> HIDE DEF d
<1>5. Val(d, al) + Power(al) * c[al] = Val(ad, al) + 0 * Val(ad, al) + c[0]
  <2>1. 0 \in Int /\ Carried(d, ad, 0, ad, c, al)
    BY <1>2, <1>3, <1>4 DEF Carried
  <2> QED
    BY <2>1, Carries
<1>6. AddLimb(ad, b, al) = [d |-> d, c |-> c[al]] /\ c[0] = b
  BY <1>1 DEF AddLimbLoop, d
<1>7. Val(ad, al) \in Int /\ 0 * Val(ad, al) = 0 /\ c[0] \in Int
  BY <1>2, ValRange
<1>8. Val(d, al) + Power(al) * c[al] = Val(ad, al) + b
  BY <1>5, <1>6, <1>7
<1> QED
  BY <1>2, <1>4, <1>6, <1>8

(* ll_sub_limb subtracts a limb, and returns the borrow. *)
LEMMA SubLimbIs ==
  ASSUME NEW al \in Nat, NEW ad, Holds(ad, al), NEW b \in Limb
  PROVE  LET s == SubLimb(ad, b, al)
         IN  /\ s.d \in Arrays(al) /\ Holds(s.d, al)
             /\ s.c \in {b, 0, 1}
             /\ Val(s.d, al) - Power(al) * s.c = Val(ad, al) - b
<1>1. PICK c : SubLimbLoop(ad, b, al, c)
  BY SubLimbLoops
<1> DEFINE d == [i \in 0 .. al - 1 |-> Wrap(ad[i] - c[i])]
<1>2. \A k \in 0 .. al : c[k] \in {b, 0, 1} /\ c[k] \in Limb /\ c[k] \in Int
  BY <1>1, Base DEF SubLimbLoop, Limb
<1>3. ASSUME NEW k \in 0 .. al - 1
      PROVE  d[k] \in Limb /\ d[k] - B * c[k + 1] = ad[k] - 0 * ad[k] - c[k]
  <2>1. ad[k] \in Limb /\ c[k] \in Limb /\ ad[k] \in Int /\ c[k] \in Int /\ 0 * ad[k] = 0
    BY <1>2 DEF Holds, Limb
  <2>2. k + 1 \in 1 .. al /\ (k + 1) - 1 = k
    OBVIOUS
  <2>3. c[k + 1] = LimbBorrowOut(ad[k], c[k])
    BY <1>1, <2>2 DEF SubLimbLoop
  <2>4. Wrap(ad[k] - c[k]) \in Limb /\ Wrap(ad[k] - c[k]) - B * c[k + 1] = ad[k] - c[k]
    BY <2>1, <2>3, LimbBorrowOutIs
  <2> QED
    BY <2>1, <2>4
<1>4. d \in Arrays(al) /\ Holds(d, al)
  BY <1>3 DEF Arrays, Holds
<1> HIDE DEF d
<1>5. Val(d, al) - Power(al) * c[al] = Val(ad, al) - 0 * Val(ad, al) - c[0]
  <2>1. 0 \in Int /\ Borrowed(d, ad, 0, ad, c, al)
    BY <1>2, <1>3, <1>4 DEF Borrowed
  <2> QED
    BY <2>1, Borrows
<1>6. SubLimb(ad, b, al) = [d |-> d, c |-> c[al]] /\ c[0] = b
  BY <1>1 DEF SubLimbLoop, d
<1>7. Val(ad, al) \in Int /\ 0 * Val(ad, al) = 0 /\ c[0] \in Int
  BY <1>2, ValRange
<1>8. Val(d, al) - Power(al) * c[al] = Val(ad, al) - b
  BY <1>5, <1>6, <1>7
<1> QED
  BY <1>2, <1>4, <1>6, <1>8

(* ll_add with the operands in the order of their lengths. *)
Summed(xd, yd, xl, yl) ==
  LET low  == AddLimbs(xd, yd, yl)
      high == AddLimb(From(xd, yl, xl - yl), low.c, xl - yl)
  IN  [d |-> [i \in 0 .. xl |->
                CASE i < yl -> low.d[i]
                  [] i = xl -> high.c
                  [] OTHER  -> high.d[i - yl]],
       c |-> high.c]

(* The carry of the common limbs goes through the others of the longer     *)
(* operand, and the last one is the limb on top.                           *)
LEMMA SummedIs ==
  ASSUME NEW xl \in Nat, NEW yl \in 0 .. xl, NEW xd, NEW yd, Holds(xd, xl), Holds(yd, yl)
  PROVE  LET s == Summed(xd, yd, xl, yl)
         IN  /\ s.d \in Arrays(xl + 1) /\ Holds(s.d, xl + 1)
             /\ s.c = s.d[xl] /\ s.c \in {0, 1}
             /\ Val(s.d, xl + 1) = Val(xd, xl) + Val(yd, yl)
<1> DEFINE r == xl - yl
           low  == AddLimbs(xd, yd, yl)
           up == From(xd, yl, r)
           high == AddLimb(up, low.c, r)
           d == [i \in 0 .. xl |->
                CASE i < yl -> low.d[i]
                  [] i = xl -> high.c
                  [] OTHER  -> high.d[i - yl]]
<1>1. Summed(xd, yd, xl, yl) = [d |-> d, c |-> high.c]
  BY DEF Summed
<1>2. r \in Nat /\ yl \in Nat /\ yl + r = xl /\ Holds(xd, yl) /\ Holds(up, r)
  BY DEF Holds, From
<1>3. Val(xd, xl) = Val(xd, yl) + Power(yl) * Val(up, r) /\ Power(xl) = Power(yl) * Power(r)
  <2> HIDE DEF r
  <2>1. Holds(xd, yl + r)
    BY <1>2
  <2>2. Val(xd, yl + r) = Val(xd, yl) + Power(yl) * Val(From(xd, yl, r), r)
    BY <1>2, <2>1, ValSplit
  <2> QED
    BY <1>2, <2>2, PowerSum DEF up
<1>4. /\ Holds(low.d, yl) /\ low.c \in {0, 1}
      /\ Val(low.d, yl) + Power(yl) * low.c = Val(xd, yl) + Val(yd, yl)
  BY <1>2, AddLimbsIs
<1>5. low.c \in Limb
  BY <1>4, Base DEF Limb
<1> HIDE DEF r, low, up
<1>6. /\ Holds(high.d, r) /\ high.c \in {0, 1}
      /\ Val(high.d, r) + Power(r) * high.c = Val(up, r) + low.c
  BY <1>2, <1>4, <1>5, AddLimbIs
<1> HIDE DEF high
<1>7. /\ \A i \in 0 .. yl - 1 : d[i] = low.d[i]
      /\ \A i \in 0 .. r - 1 : d[yl + i] = high.d[i]
      /\ d[xl] = high.c
  BY <1>2
<1>8. \A i \in 0 .. xl : d[i] \in Limb
  <2>1. high.c \in Limb
    BY <1>6, Base DEF Limb
  <2>2. ASSUME NEW i \in 0 .. xl PROVE i < yl \/ i = xl \/ (i - yl \in 0 .. r - 1 /\ yl + (i - yl) = i)
    BY <1>2
  <2> HIDE DEF d
  <2> QED
    BY <1>4, <1>6, <1>7, <2>1, <2>2 DEF Holds
<1>9. d \in Arrays(xl + 1) /\ Holds(d, xl + 1) /\ Holds(d, xl) /\ Holds(d, yl)
  BY <1>8 DEF Arrays, Holds
<1> HIDE DEF d
<1>10. Val(d, yl) = Val(low.d, yl)
  BY <1>7, <1>9, ValSame
<1>11. Val(From(d, yl, r), r) = Val(high.d, r)
  <2>1. \A i \in 0 .. r - 1 : From(d, yl, r)[i] = high.d[i]
    BY <1>7 DEF From
  <2> QED
    BY <1>2, <1>6, <2>1, ValSame
<1>12. Val(d, xl) = Val(d, yl) + Power(yl) * Val(From(d, yl, r), r)
  BY <1>2, <1>9, ValSplit
<1>13. Val(d, xl + 1) = Val(d, xl) + Power(xl) * d[xl]
  BY <1>9, ValStep
<1> DEFINE p == Power(yl)  q == Power(r)  a == Val(low.d, yl)  b == Val(high.d, r)
           u == Val(xd, yl)  v == Val(up, r)  w == Val(yd, yl)  lc == low.c  hc == high.c
<1>14. p \in Int /\ q \in Int /\ a \in Int /\ b \in Int /\ u \in Int /\ v \in Int /\ w \in Int
       /\ lc \in Int /\ hc \in Int
  BY <1>2, <1>4, <1>6, ValRange, PowerStep
<1>15. /\ a + p * lc = u + w /\ b + q * hc = v + lc
       /\ Val(d, xl + 1) = a + p * b + (p * q) * hc
       /\ Val(xd, xl) = u + p * v
  BY <1>3, <1>4, <1>6, <1>7, <1>10, <1>11, <1>12, <1>13
<1> HIDE DEF p, q, a, b, u, v, w, lc, hc
<1>16. a + p * b + (p * q) * hc = u + p * v + w
  <2>1. a + p * b + (p * q) * hc = a + p * (b + q * hc)
    BY <1>14
  <2>2. p * (v + lc) = p * v + p * lc /\ p * v \in Int /\ p * lc \in Int
    BY <1>14
  <2> QED
    BY <1>14, <1>15, <2>1, <2>2
<1>17. Val(d, xl + 1) = Val(xd, xl) + Val(yd, yl)
  BY <1>14, <1>15, <1>16 DEF w
<1> QED
  BY <1>1, <1>6, <1>7, <1>9, <1>17

(* ll_add adds arrays of any two lengths. *)
LEMMA AddIs ==
  ASSUME NEW al \in Nat, NEW bl \in Nat, NEW ad, NEW bd, Holds(ad, al), Holds(bd, bl)
  PROVE  LET s == Add(ad, bd, al, bl)
             long == IF al >= bl THEN al ELSE bl
         IN  /\ s.d \in Arrays(long + 1) /\ Holds(s.d, long + 1)
             /\ s.c = s.d[long]
             /\ Val(s.d, long + 1) = Val(ad, al) + Val(bd, bl)
<1>1. CASE al >= bl
  <2>1. Add(ad, bd, al, bl) = Summed(ad, bd, al, bl)
    BY <1>1 DEF Add, Summed
  <2> QED
    BY <1>1, <2>1, SummedIs
<1>2. CASE ~(al >= bl)
  <2>1. Add(ad, bd, al, bl) = Summed(bd, ad, bl, al)
    BY <1>2 DEF Add, Summed
  <2>2. al \in 0 .. bl
    BY <1>2
  <2>3. Val(ad, al) \in Int /\ Val(bd, bl) \in Int
    BY ValRange
  <2> QED
    BY <1>2, <2>1, <2>2, <2>3, SummedIs
<1> QED
  BY <1>1, <1>2

(* ll_sub subtracts a number that is not larger, of any length that is not *)
(* larger, and no borrow is left.                                          *)
LEMMA SubIs ==
  ASSUME NEW al \in Nat, NEW bl \in 0 .. al, NEW ad, NEW bd, Holds(ad, al), Holds(bd, bl)
  PROVE  LET s == Sub(ad, bd, al, bl)
         IN  /\ s.d \in Arrays(al) /\ Holds(s.d, al) /\ s.c \in {0, 1}
             /\ Val(s.d, al) - Power(al) * s.c = Val(ad, al) - Val(bd, bl)
<1> DEFINE r == al - bl
           low  == SubLimbs(ad, bd, bl)
           up == From(ad, bl, r)
           high == SubLimb(up, low.c, r)
           d == [i \in 0 .. al - 1 |-> IF i < bl THEN low.d[i] ELSE high.d[i - bl]]
<1>1. Sub(ad, bd, al, bl) = [d |-> d, c |-> high.c]
  BY DEF Sub
<1>2. r \in Nat /\ bl \in Nat /\ bl + r = al /\ Holds(ad, bl) /\ Holds(up, r)
  BY DEF Holds, From
<1>3. Val(ad, al) = Val(ad, bl) + Power(bl) * Val(up, r) /\ Power(al) = Power(bl) * Power(r)
  <2> HIDE DEF r
  <2>1. Holds(ad, bl + r)
    BY <1>2
  <2>2. Val(ad, bl + r) = Val(ad, bl) + Power(bl) * Val(From(ad, bl, r), r)
    BY <1>2, <2>1, ValSplit
  <2> QED
    BY <1>2, <2>2, PowerSum DEF up
<1>4. /\ Holds(low.d, bl) /\ low.c \in {0, 1}
      /\ Val(low.d, bl) - Power(bl) * low.c = Val(ad, bl) - Val(bd, bl)
  BY <1>2, SubLimbsIs
<1>5. low.c \in Limb
  BY <1>4, Base DEF Limb
<1> HIDE DEF r, low, up
<1>6. /\ Holds(high.d, r) /\ high.c \in {0, 1}
      /\ Val(high.d, r) - Power(r) * high.c = Val(up, r) - low.c
  BY <1>2, <1>4, <1>5, SubLimbIs
<1> HIDE DEF high
<1>7. /\ \A i \in 0 .. bl - 1 : d[i] = low.d[i]
      /\ \A i \in 0 .. r - 1 : d[bl + i] = high.d[i]
  <2>1. \A i \in 0 .. bl - 1 : i \in 0 .. al - 1 /\ i < bl
    BY <1>2
  <2>2. \A i \in 0 .. r - 1 : bl + i \in 0 .. al - 1 /\ ~(bl + i < bl) /\ (bl + i) - bl = i
    BY <1>2
  <2> QED
    BY <2>1, <2>2
<1>8. \A i \in 0 .. al - 1 : d[i] \in Limb
  <2>1. ASSUME NEW i \in 0 .. al - 1 PROVE i < bl \/ (i - bl \in 0 .. r - 1 /\ bl + (i - bl) = i)
    BY <1>2
  <2> HIDE DEF d
  <2> QED
    BY <1>4, <1>6, <1>7, <2>1 DEF Holds
<1>9. d \in Arrays(al) /\ Holds(d, al) /\ Holds(d, bl)
  BY <1>8 DEF Arrays, Holds
<1> HIDE DEF d
<1>10. Val(d, bl) = Val(low.d, bl)
  BY <1>7, <1>9, ValSame
<1>11. Val(From(d, bl, r), r) = Val(high.d, r)
  <2>1. \A i \in 0 .. r - 1 : From(d, bl, r)[i] = high.d[i]
    BY <1>7 DEF From
  <2> QED
    BY <1>2, <1>6, <2>1, ValSame
<1>12. Val(d, al) = Val(d, bl) + Power(bl) * Val(From(d, bl, r), r)
  <2>1. Holds(d, bl + r)
    BY <1>2, <1>9
  <2>2. Val(d, bl + r) = Val(d, bl) + Power(bl) * Val(From(d, bl, r), r)
    BY <1>2, <2>1, ValSplit
  <2> QED
    BY <1>2, <2>2
<1> DEFINE p == Power(bl)  q == Power(r)  a == Val(low.d, bl)  b == Val(high.d, r)
           u == Val(ad, bl)  v == Val(up, r)  w == Val(bd, bl)  lc == low.c  hc == high.c
<1>14. p \in Int /\ q \in Int /\ a \in Int /\ b \in Int /\ u \in Int /\ v \in Int /\ w \in Int
       /\ lc \in Int /\ hc \in Int
  <2>1. /\ Power(bl) \in Int /\ Power(r) \in Int /\ Val(low.d, bl) \in Int /\ Val(high.d, r) \in Int
        /\ Val(ad, bl) \in Int /\ Val(up, r) \in Int /\ Val(bd, bl) \in Int
    BY <1>2, <1>4, <1>6, ValRange, PowerStep
  <2> QED
    BY <2>1, <1>4, <1>6
<1>15. /\ a - p * lc = u - w /\ b - q * hc = v - lc
       /\ Val(d, al) = a + p * b /\ Power(al) = p * q
       /\ Val(ad, al) = u + p * v
  BY <1>3, <1>4, <1>6, <1>10, <1>11, <1>12
<1> HIDE DEF p, q, a, b, u, v, w, lc, hc
<1>16. a + p * b - (p * q) * hc = u + p * v - w
  <2>1. a + p * b - (p * q) * hc = a + p * (b - q * hc)
    BY <1>14
  <2>2. p * (v - lc) = p * v - p * lc /\ p * v \in Int /\ p * lc \in Int
    BY <1>14
  <2> QED
    BY <1>14, <1>15, <2>1, <2>2
<1>17. Val(d, al) - Power(al) * high.c = Val(ad, al) - Val(bd, bl)
  BY <1>14, <1>15, <1>16 DEF w, hc
<1> QED
  BY <1>1, <1>6, <1>9, <1>17

------------------------------------------------------------------------------
(* Two limbs added to a product of limbs: the carry is a limb, whichever   *)
(* way the two carry bits were found.                                      *)
LEMMA RowSum ==
  ASSUME NEW r \in Limb, NEW t \in Limb, NEW z \in Nat, z <= (B - 1) * (B - 1),
         NEW e \in {0, 1}, NEW f \in {0, 1}, NEW u \in Limb,
         u + B * (Hi(z) + e + f) = r + z + t
  PROVE  /\ Wrap(Hi(z) + e + f) \in Limb
         /\ Wrap(r + t + z) = u
         /\ u + B * Wrap(Hi(z) + e + f) = r + z + t
<1> DEFINE h == Hi(z) + e + f   s == (B - 1) * (B - 1)
<1>1. Hi(z) \in Nat /\ B \in Nat
  BY LowHigh, Base
<1>2. h \in Nat /\ B * h \in Nat /\ s \in Int
  BY <1>1
<1>3. u + B * h = r + z + t /\ z <= s
  OBVIOUS
<1>4. /\ r \in Nat /\ t \in Nat /\ u \in Nat /\ r <= B - 1 /\ t <= B - 1 /\ r \in Limb
  BY <1>1 DEF Limb
<1> HIDE DEF h
<1>5. B * h <= r + (B - 1) * (B - 1) + (B - 1)
  <2> HIDE DEF s
  <2>1. B * h <= r + s + (B - 1)
    BY <1>1, <1>2, <1>3, <1>4
  <2> QED
    BY <2>1 DEF s
<1>6. h \in Limb /\ Wrap(h) = h
  BY <1>2, <1>4, <1>5, CarryFits
<1>7. Wrap(r + t + z) = u
  <2>1. r + t + z \in Int /\ h \in Int /\ r + t + z = B * h + u
    BY <1>1, <1>2, <1>3, <1>4
  <2> QED
    BY <2>1, WrapIs
<1> QED
  BY <1>3, <1>6, <1>7 DEF h

(* One iteration of ll_mul_limb. *)
MulOut(z, t) == Wrap(Hi(z) + Bit(Wrap(t + Lo(z)) < Lo(z)))

(* It leaves the product modulo B and hands on the rest. *)
LEMMA MulOutIs ==
  ASSUME NEW z \in Nat, z <= (B - 1) * (B - 1), NEW t \in Limb
  PROVE  /\ MulOut(z, t) \in Limb
         /\ Wrap(t + Lo(z)) \in Limb
         /\ Wrap(t + Lo(z)) + B * MulOut(z, t) = z + t
<1> DEFINE lo == Lo(z)   hi == Hi(z)   u == Wrap(t + lo)   e == Bit(u < lo)
<1>1. lo \in Limb /\ hi \in Nat /\ z = B * hi + lo /\ B \in Nat /\ 0 \in Limb /\ t \in Nat /\ lo \in Nat
  BY LowHigh, Base DEF Limb
<1>2. u \in Limb /\ e \in {0, 1} /\ u + B * e = t + lo
  <2> HIDE DEF lo, hi
  <2> QED
    BY <1>1, WrapSum
<1>3. u \in Nat /\ e \in Nat
  BY <1>1, <1>2 DEF Limb
<1>4. MulOut(z, t) = Wrap(hi + e)
  BY DEF MulOut
<1> HIDE DEF u, e, lo
<1>5. u + B * (Hi(z) + e + 0) = 0 + z + t /\ Hi(z) + e + 0 = hi + e
  BY <1>1, <1>2, <1>3
<1>6. Wrap(Hi(z) + e + 0) \in Limb /\ u + B * Wrap(Hi(z) + e + 0) = 0 + z + t
  BY <1>1, <1>2, <1>5, RowSum
<1>7. Wrap(hi + e) \in Limb /\ u + B * Wrap(hi + e) = z + t
  BY <1>1, <1>5, <1>6
<1> QED
  BY <1>2, <1>4, <1>7 DEF u, lo

(* One iteration of ll_muladd_limb. *)
MulAddOut(r, z, t) ==
  Wrap(Hi(z) + Bit(Wrap(t + Lo(z)) < Lo(z)) + Bit(Wrap(Wrap(t + Lo(z)) + r) < r))

(* It leaves the sum modulo B and hands on the rest. *)
LEMMA MulAddOutIs ==
  ASSUME NEW r \in Limb, NEW z \in Nat, z <= (B - 1) * (B - 1), NEW t \in Limb
  PROVE  /\ MulAddOut(r, z, t) \in Limb
         /\ Wrap(r + t + z) \in Limb
         /\ Wrap(r + t + z) + B * MulAddOut(r, z, t) = r + z + t
<1> DEFINE lo == Lo(z)   hi == Hi(z)   v == Wrap(t + lo)   e == Bit(v < lo)
           u == Wrap(v + r)   f == Bit(u < r)
<1>1. lo \in Limb /\ hi \in Nat /\ z = B * hi + lo /\ B \in Nat
  BY LowHigh, Base
<1>2. v \in Limb /\ e \in {0, 1} /\ v + B * e = t + lo
  <2> HIDE DEF lo, hi
  <2> QED
    BY <1>1, WrapSum
<1>3. u \in Limb /\ f \in {0, 1} /\ u + B * f = v + r
  <2> HIDE DEF v
  <2> QED
    BY <1>2, WrapSum
<1>4. MulAddOut(r, z, t) = Wrap(Hi(z) + e + f)
  BY DEF MulAddOut
<1> HIDE DEF u, e, f, v, lo
<1>5. /\ u \in Nat /\ v \in Nat /\ e \in Nat /\ f \in Nat /\ lo \in Nat /\ r \in Nat /\ t \in Nat
  BY <1>1, <1>2, <1>3 DEF Limb
<1>6. u + B * (Hi(z) + e + f) = r + z + t
  <2> HIDE DEF hi
  <2>1. B * (hi + e + f) = B * hi + B * e + B * f
    BY <1>1, <1>5
  <2>2. B * hi \in Int /\ B * e \in Int /\ B * f \in Int
    BY <1>1, <1>5
  <2>3. u + B * (hi + e + f) = r + z + t
    BY <1>1, <1>2, <1>3, <1>5, <2>1, <2>2
  <2> QED
    BY <2>3 DEF hi
<1>7. /\ Wrap(Hi(z) + e + f) \in Limb
      /\ Wrap(r + t + z) = u
      /\ u + B * Wrap(Hi(z) + e + f) = r + z + t
  BY <1>2, <1>3, <1>6, RowSum
<1> QED
  BY <1>3, <1>4, <1>7

(* One block of the rows of ll_u256_mul. *)
RowOut(r, z, t) ==
  Wrap(Hi(z) + Bit(Wrap(r + t) < t) + Bit(Wrap(Wrap(r + t) + Lo(z)) < Lo(z)))

(* It leaves the same sum, and finds the carry in another order. *)
LEMMA RowOutIs ==
  ASSUME NEW r \in Limb, NEW z \in Nat, z <= (B - 1) * (B - 1), NEW t \in Limb
  PROVE  /\ RowOut(r, z, t) \in Limb
         /\ Wrap(r + t + z) \in Limb
         /\ Wrap(r + t + z) + B * RowOut(r, z, t) = r + z + t
         /\ Wrap(Wrap(r + t) + Lo(z)) = Wrap(r + t + z)
<1> DEFINE lo == Lo(z)   hi == Hi(z)   v == Wrap(r + t)   e == Bit(v < t)
           u == Wrap(v + lo)   f == Bit(u < lo)
<1>1. lo \in Limb /\ hi \in Nat /\ z = B * hi + lo /\ B \in Nat
  BY LowHigh, Base
<1>2. v \in Limb /\ e \in {0, 1} /\ v + B * e = r + t
  BY WrapSum
<1>3. u \in Limb /\ f \in {0, 1} /\ u + B * f = v + lo
  <2> HIDE DEF v, lo
  <2> QED
    BY <1>1, <1>2, WrapSum
<1>4. RowOut(r, z, t) = Wrap(Hi(z) + e + f)
  BY DEF RowOut
<1> HIDE DEF u, e, f, v, lo
<1>5. /\ u \in Nat /\ v \in Nat /\ e \in Nat /\ f \in Nat /\ lo \in Nat /\ r \in Nat /\ t \in Nat
  BY <1>1, <1>2, <1>3 DEF Limb
<1>6. u + B * (Hi(z) + e + f) = r + z + t
  <2> HIDE DEF hi
  <2>1. B * (hi + e + f) = B * hi + B * e + B * f
    BY <1>1, <1>5
  <2>2. B * hi \in Int /\ B * e \in Int /\ B * f \in Int
    BY <1>1, <1>5
  <2>3. u + B * (hi + e + f) = r + z + t
    BY <1>1, <1>2, <1>3, <1>5, <2>1, <2>2
  <2> QED
    BY <2>3 DEF hi
<1>7. /\ Wrap(Hi(z) + e + f) \in Limb
      /\ Wrap(r + t + z) = u
      /\ u + B * Wrap(Hi(z) + e + f) = r + z + t
  BY <1>2, <1>3, <1>6, RowSum
<1> QED
  BY <1>3, <1>4, <1>7 DEF u, v, lo

MulLimbLoop(ad, b, al, c) ==
  /\ c[0] = 0
  /\ \A k \in 1 .. al : c[k] = MulOut(ad[k - 1] * b, c[k - 1])
  /\ \A k \in 0 .. al : c[k] \in Limb
  /\ MulLimb(ad, b, al) = [d |-> [i \in 0 .. al |->
                                  IF i = al THEN c[al] ELSE Wrap(c[i] + Lo(ad[i] * b))],
                           c |-> c[al]]

(* The recursive function of MulLimb exists and yields limbs. *)
LEMMA MulLimbLoops ==
  ASSUME NEW al \in Nat, NEW ad, Holds(ad, al), NEW b \in Limb
  PROVE  \E c : MulLimbLoop(ad, b, al, c)
<1> DEFINE Body(c) == [i \in 0 .. al |->
               IF i = 0 THEN 0
               ELSE LET lo == Lo(ad[i - 1] * b)
                    IN  Wrap(Hi(ad[i - 1] * b) + Bit(Wrap(c[i - 1] + lo) < lo))]
           C == CHOOSE c : c = Body(c)
           S == Limb
           G == [k \in 1 .. al |-> [p \in S |-> MulOut(ad[k - 1] * b, p)]]
<1>1. MulLimb(ad, b, al) = [d |-> [i \in 0 .. al |->
                                   IF i = al THEN C[al] ELSE Wrap(C[i] + Lo(ad[i] * b))],
                            c |-> C[al]]
  BY DEF MulLimb
<1>2. \A k \in 1 .. al, p \in S : G[k][p] = MulOut(ad[k - 1] * b, p) /\ G[k][p] \in S
  <2>1. \A k \in 1 .. al : (ad[k - 1] * b \in Nat /\ ad[k - 1] * b <= (B - 1) * (B - 1))
    BY ProductRange DEF Holds
  <2> QED
    BY <2>1, MulOutIs
<1>3. Steps(al, S, 0, G)
  BY <1>2, Base DEF Steps, Limb
<1>4. PICK g \in [0 .. al -> S] : Follows(g, al, 0, G)
  <2> HIDE DEF G, S
  <2> QED
    BY <1>3, Recursion
<1>5. g[0] = 0 /\ \A k \in 1 .. al : g[k] = MulOut(ad[k - 1] * b, g[k - 1])
  <2>1. \A k \in 1 .. al : g[k - 1] \in S
    OBVIOUS
  <2> HIDE DEF G, S
  <2> QED
    BY <1>2, <1>4, <2>1 DEF Follows
<1>6. g = Body(g)
  BY <1>5 DEF MulOut
<1>7. C = Body(C)
  <2> HIDE DEF Body
  <2> QED
    BY <1>6
<1>8. C[0] = 0 /\ \A k \in 1 .. al : C[k] = MulOut(ad[k - 1] * b, C[k - 1])
  <2> HIDE DEF C
  <2> QED
    BY <1>7 DEF MulOut
<1>9. \A k \in 0 .. al : C[k] \in S
  <2> HIDE DEF C, G, S
  <2>1. Takes(C, al, S, 0, G)
    BY <1>2, <1>8 DEF Takes
  <2> QED
    BY <1>3, <2>1, Iterates
<1> QED
  <2> HIDE DEF C
  <2> QED
    BY <1>1, <1>8, <1>9 DEF MulLimbLoop

RowLoop(y, x, w, n, c) ==
  /\ c[0] = 0
  /\ \A k \in 1 .. n : c[k] = RowOut(y[k - 1], x[k - 1] * w, c[k - 1])
  /\ \A k \in 0 .. n : c[k] \in Limb
  /\ Row(y, x, w, n) = [d |-> [i \in 0 .. n - 1 |-> Wrap(y[i] + c[i] + x[i] * w)], c |-> c[n]]

(* The recursive function of Row exists and yields limbs. *)
LEMMA RowLoops ==
  ASSUME NEW n \in Nat, NEW y, NEW x, Holds(y, n), Holds(x, n), NEW w \in Limb
  PROVE  \E c : RowLoop(y, x, w, n, c)
<1> DEFINE Body(c) == [i \in 0 .. n |-> IF i = 0 THEN 0 ELSE LET p  == c[i - 1]
                               lo == Lo(x[i - 1] * w)
                               t1 == Wrap(y[i - 1] + p)
                           IN  Wrap(Hi(x[i - 1] * w) + Bit(t1 < p) + Bit(Wrap(t1 + lo) < lo))]
           C == CHOOSE c : c = Body(c)
           S == Limb
           G == [k \in 1 .. n |-> [p \in S |-> RowOut(y[k - 1], x[k - 1] * w, p)]]
<1>1. Row(y, x, w, n) = [d |-> [i \in 0 .. n - 1 |-> Wrap(y[i] + C[i] + x[i] * w)], c |-> C[n]]
  BY DEF Row
<1>2. \A k \in 1 .. n, p \in S : G[k][p] = RowOut(y[k - 1], x[k - 1] * w, p) /\ G[k][p] \in S
  <2>1. \A k \in 1 .. n : y[k - 1] \in Limb /\ x[k - 1] * w \in Nat /\ x[k - 1] * w <= (B - 1) * (B - 1)
    BY ProductRange DEF Holds
  <2> QED
    BY <2>1, RowOutIs
<1>3. Steps(n, S, 0, G)
  BY <1>2, Base DEF Steps, Limb
<1>4. PICK g \in [0 .. n -> S] : Follows(g, n, 0, G)
  <2> HIDE DEF G, S
  <2> QED
    BY <1>3, Recursion
<1>5. g[0] = 0 /\ \A k \in 1 .. n : g[k] = RowOut(y[k - 1], x[k - 1] * w, g[k - 1])
  <2>1. \A k \in 1 .. n : g[k - 1] \in S
    OBVIOUS
  <2> HIDE DEF G, S
  <2> QED
    BY <1>2, <1>4, <2>1 DEF Follows
<1>6. g = Body(g)
  BY <1>5 DEF RowOut
<1>7. C = Body(C)
  <2> HIDE DEF Body
  <2> QED
    BY <1>6
<1>8. C[0] = 0 /\ \A k \in 1 .. n : C[k] = RowOut(y[k - 1], x[k - 1] * w, C[k - 1])
  <2> HIDE DEF C
  <2> QED
    BY <1>7 DEF RowOut
<1>9. \A k \in 0 .. n : C[k] \in S
  <2> HIDE DEF C, G, S
  <2>1. Takes(C, n, S, 0, G)
    BY <1>2, <1>8 DEF Takes
  <2> QED
    BY <1>3, <2>1, Iterates
<1> QED
  <2> HIDE DEF C
  <2> QED
    BY <1>1, <1>8, <1>9 DEF RowLoop

(* Zero limbs stand for zero. *)
LEMMA ZerosAre ==
  ASSUME NEW n \in Nat
  PROVE  Holds(Zeros(n), n) /\ Val(Zeros(n), n) = 0 /\ Zeros(n) \in Arrays(n)
<1>1. \A i \in 0 .. n - 1 : Zeros(n)[i] = 0
  BY DEF Zeros
<1>2. Holds(Zeros(n), 0) /\ 0 \in Limb /\ Zeros(n) \in Arrays(n)
  BY Base DEF Holds, Limb, Zeros, Arrays
<1>3. Holds(Zeros(n), n) /\ Val(Zeros(n), n) = Val(Zeros(n), 0)
  <2> DEFINE x == Zeros(n)   m == 0
  <2>1. m \in Nat /\ m <= n /\ Holds(x, m) /\ \A i \in m .. n - 1 : x[i] = 0
    BY <1>1, <1>2
  <2> HIDE DEF x, m
  <2>2. Holds(x, n) /\ Val(x, n) = Val(x, m)
    BY <2>1, ValPad
  <2> QED
    BY <2>2 DEF x, m
<1> QED
  BY <1>2, <1>3, ValZero

(* ll_mul_limb multiplies by a limb. *)
LEMMA MulLimbIs ==
  ASSUME NEW al \in Nat, NEW ad, Holds(ad, al), NEW b \in Limb
  PROVE  LET s == MulLimb(ad, b, al)
         IN  /\ s.d \in Arrays(al + 1) /\ Holds(s.d, al + 1)
             /\ s.c = s.d[al]
             /\ Val(s.d, al + 1) = b * Val(ad, al)
<1>1. PICK c : MulLimbLoop(ad, b, al, c)
  BY MulLimbLoops
<1> DEFINE d == [i \in 0 .. al |-> IF i = al THEN c[al] ELSE Wrap(c[i] + Lo(ad[i] * b))]
           z == Zeros(al)
<1>2. \A k \in 0 .. al : c[k] \in Limb /\ c[k] \in Int
  BY <1>1, Base DEF MulLimbLoop, Limb
<1>3. ASSUME NEW k \in 0 .. al - 1
      PROVE  d[k] \in Limb /\ d[k] + B * c[k + 1] = z[k] + b * ad[k] + c[k]
  <2>1. /\ ad[k] \in Limb /\ c[k] \in Limb /\ ad[k] \in Int /\ b \in Int /\ c[k] \in Int
        /\ z[k] = 0
    BY <1>2, Base DEF Holds, Limb, Zeros
  <2>2. k + 1 \in 1 .. al /\ (k + 1) - 1 = k /\ k \in 0 .. al /\ k # al
    OBVIOUS
  <2>3. c[k + 1] = MulOut(ad[k] * b, c[k])
    BY <1>1, <2>2 DEF MulLimbLoop
  <2>4. ad[k] * b \in Nat /\ ad[k] * b <= (B - 1) * (B - 1) /\ ad[k] * b = b * ad[k]
    BY <2>1, ProductRange
  <2> DEFINE w == ad[k] * b
  <2>5. w \in Nat /\ w <= (B - 1) * (B - 1) /\ c[k + 1] = MulOut(w, c[k]) /\ d[k] = Wrap(c[k] + Lo(w))
    BY <2>2, <2>3, <2>4
  <2> HIDE DEF w, d, z
  <2>6. d[k] \in Limb /\ d[k] + B * c[k + 1] = w + c[k]
    BY <2>1, <2>5, MulOutIs
  <2>7. w = b * ad[k] /\ w \in Int
    BY <2>4 DEF w
  <2> QED
    BY <2>1, <2>6, <2>7
<1>4. d \in Arrays(al + 1) /\ Holds(d, al + 1) /\ Holds(d, al) /\ d[al] = c[al]
  <2>1. c[al] \in Limb /\ d[al] = c[al] /\ DOMAIN d = 0 .. al
    BY <1>2
  <2>2. \A k \in 0 .. al : k = al \/ k \in 0 .. al - 1
    OBVIOUS
  <2> HIDE DEF d
  <2>3. \A k \in 0 .. al : d[k] \in Limb
    BY <1>3, <2>1, <2>2
  <2>4. d \in Arrays(al + 1)
    BY <2>3 DEF d, Arrays
  <2> QED
    BY <2>1, <2>3, <2>4 DEF Holds
<1> HIDE DEF d
<1>5. Val(d, al) + Power(al) * c[al] = Val(z, al) + b * Val(ad, al) + c[0]
  <2>1. Carried(d, z, b, ad, c, al)
    <3> HIDE DEF z
    <3> QED
      BY <1>2, <1>3, <1>4, ZerosAre DEF Carried, z
  <2>2. b \in Int
    BY Base DEF Limb
  <2> QED
    BY <2>1, <2>2, Carries
<1>6. MulLimb(ad, b, al) = [d |-> d, c |-> c[al]] /\ c[0] = 0
  BY <1>1 DEF MulLimbLoop, d
<1>7. Val(d, al + 1) = Val(d, al) + Power(al) * d[al]
  BY <1>4, ValStep
<1>8. Val(ad, al) \in Int /\ b \in Int /\ Val(z, al) = 0 /\ b * Val(ad, al) \in Int
  BY ValRange, ZerosAre, Base DEF Limb
<1>9. Val(d, al + 1) = b * Val(ad, al)
  BY <1>4, <1>5, <1>6, <1>7, <1>8
<1> QED
  BY <1>4, <1>6, <1>9

(* A row adds a multiple of an array. *)
LEMMA RowIs ==
  ASSUME NEW n \in Nat, NEW y, NEW x, Holds(y, n), Holds(x, n), NEW w \in Limb
  PROVE  LET s == Row(y, x, w, n)
         IN  /\ s.d \in Arrays(n) /\ Holds(s.d, n) /\ DOMAIN s.d = 0 .. n - 1
             /\ s.c \in Limb
             /\ Val(s.d, n) + Power(n) * s.c = Val(y, n) + w * Val(x, n)
<1>1. PICK c : RowLoop(y, x, w, n, c)
  BY RowLoops
<1> DEFINE d == [i \in 0 .. n - 1 |-> Wrap(y[i] + c[i] + x[i] * w)]
<1>2. \A k \in 0 .. n : c[k] \in Limb /\ c[k] \in Int
  BY <1>1, Base DEF RowLoop, Limb
<1>3. ASSUME NEW k \in 0 .. n - 1
      PROVE  d[k] \in Limb /\ d[k] + B * c[k + 1] = y[k] + w * x[k] + c[k]
  <2>1. /\ y[k] \in Limb /\ x[k] \in Limb /\ c[k] \in Limb
        /\ y[k] \in Int /\ x[k] \in Int /\ w \in Int /\ c[k] \in Int
    BY <1>2, Base DEF Holds, Limb
  <2>2. k + 1 \in 1 .. n /\ (k + 1) - 1 = k
    OBVIOUS
  <2>3. c[k + 1] = RowOut(y[k], x[k] * w, c[k])
    BY <1>1, <2>2 DEF RowLoop
  <2>4. x[k] * w \in Nat /\ x[k] * w <= (B - 1) * (B - 1) /\ x[k] * w = w * x[k]
    BY <2>1, ProductRange
  <2> DEFINE z == x[k] * w
  <2>5. z \in Nat /\ z <= (B - 1) * (B - 1) /\ c[k + 1] = RowOut(y[k], z, c[k])
        /\ d[k] = Wrap(y[k] + c[k] + z)
    BY <2>2, <2>3, <2>4
  <2> HIDE DEF z, d
  <2>6. d[k] \in Limb /\ d[k] + B * c[k + 1] = y[k] + z + c[k]
    BY <2>1, <2>5, RowOutIs
  <2>7. z = w * x[k]
    BY <2>4 DEF z
  <2> QED
    BY <2>6, <2>7
<1>4. d \in Arrays(n) /\ Holds(d, n) /\ DOMAIN d = 0 .. n - 1
  BY <1>3 DEF Arrays, Holds
<1> HIDE DEF d
<1>5. Val(d, n) + Power(n) * c[n] = Val(y, n) + w * Val(x, n) + c[0]
  <2>1. w \in Int /\ Carried(d, y, w, x, c, n)
    BY <1>2, <1>3, <1>4, Base DEF Carried, Limb
  <2> QED
    BY <2>1, Carries
<1>6. Row(y, x, w, n) = [d |-> d, c |-> c[n]] /\ c[0] = 0
  BY <1>1 DEF RowLoop, d
<1>7. Val(y, n) \in Int /\ w * Val(x, n) \in Int
  BY ValRange, Base DEF Limb
<1>8. Val(d, n) + Power(n) * c[n] = Val(y, n) + w * Val(x, n)
  BY <1>5, <1>6, <1>7
<1> QED
  BY <1>2, <1>4, <1>6, <1>8

(* Beyond the operand the product is zero, and ll_muladd_limb looks at the *)
(* carry alone.                                                            *)
LEMMA MulAddOutZero ==
  ASSUME NEW r \in Limb, NEW t \in Limb
  PROVE  MulAddOut(r, 0, t) = Bit(Wrap(r + Wrap(t + Lo(0))) < Wrap(t + Lo(0)))
<1>1. B \in Nat \ {0} /\ B >= 2 /\ 0 = B * 0 + 0 /\ 0 \in 0 .. B - 1
  BY Base
<1>2. Lo(0) = 0 /\ Hi(0) = 0
  <2> DEFINE z == 0
  <2>1. z \in Int /\ z \in 0 .. B - 1 /\ z = B * z + z
    BY <1>1
  <2> HIDE DEF z
  <2>2. z % B = z /\ z \div B = z
    BY <1>1, <2>1, DivModIs
  <2> QED
    BY <2>2 DEF Lo, Hi, z
<1>3. t + 0 = t /\ t \in Int /\ t >= 0 /\ r \in Int
  BY <1>1 DEF Limb
<1>4. Wrap(t + 0) = t
  BY <1>3, WrapNear
<1> DEFINE u == Wrap(r + t)   e == Bit(u < t)   f == Bit(u < r)
<1>5. /\ u \in Limb /\ e \in {0, 1} /\ u + B * e = r + t
      /\ f \in {0, 1} /\ u + B * f = r + t
  <2>1. r + t = t + r
    BY <1>3
  <2>2. u \in Limb /\ e \in {0, 1} /\ u + B * e = r + t
    BY WrapSum
  <2>3. Wrap(t + r) \in Limb /\ Bit(Wrap(t + r) < r) \in {0, 1}
        /\ Wrap(t + r) + B * Bit(Wrap(t + r) < r) = t + r
    BY WrapSum
  <2> QED
    BY <2>1, <2>2, <2>3
<1>6. MulAddOut(r, 0, t) = Wrap(0 + Bit(t < 0) + f)
  <2>1. t + r = r + t
    BY <1>3
  <2> QED
    BY <1>2, <1>4, <2>1 DEF MulAddOut
<1>7. Bit(t < 0) = 0
  BY <1>3 DEF Bit
<1>8. Bit(Wrap(r + Wrap(t + Lo(0))) < Wrap(t + Lo(0))) = e
  BY <1>2, <1>4
<1> HIDE DEF u, e, f
<1>9. e = f
  <2>1. u \in Int
    BY <1>1, <1>5 DEF Limb
  <2>2. B * e = B * f
    BY <1>1, <1>5, <2>1
  <2> QED
    BY <1>1, <1>5, <2>2
<1>10. 0 + 0 + f \in Limb /\ 0 + 0 + f \in Int /\ 0 + 0 + f = f
  BY <1>1, <1>5 DEF Limb
<1>11. Wrap(0 + 0 + f) = f
  BY <1>10, WrapNear
<1> QED
  BY <1>6, <1>7, <1>8, <1>9, <1>11

MulAddCarries(c, rd, ad, b, rl, al) ==
  /\ c[0] = 0
  /\ \A k \in 1 .. rl : c[k] = MulAddOut(rd[k - 1], Product(ad, b, al, k - 1), c[k - 1])
  /\ \A k \in 0 .. rl : c[k] \in Limb
  /\ MulAddLimb(rd, ad, b, rl, al) =
       [d |-> [i \in DOMAIN rd |->
                 CASE i < rl -> Wrap(rd[i] + c[i] + Product(ad, b, al, i))
                   [] i = rl -> c[rl]
                   [] OTHER  -> rd[i]],
        c |-> c[rl]]

(* The recursive function of MulAddLimb exists and yields limbs. *)
LEMMA MulAddLimbCarries ==
  ASSUME NEW rl \in Nat, NEW al \in 0 .. rl, NEW rd, NEW ad, NEW b \in Limb,
         Holds(rd, rl), Holds(ad, al)
  PROVE  \E c : MulAddCarries(c, rd, ad, b, rl, al)
<1> DEFINE product(i) == IF i < al THEN ad[i] * b ELSE 0
           Step(t, i) == LET lo == Lo(product(i - 1))
                             t1 == Wrap(t[i - 1] + lo)
                         IN  IF i <= al
                             THEN Wrap(Hi(product(i - 1)) + Bit(t1 < lo)
                                         + Bit(Wrap(t1 + rd[i - 1]) < rd[i - 1]))
                             ELSE Bit(Wrap(rd[i - 1] + t1) < t1)
           Body(t) == [i \in 0 .. rl |-> IF i = 0 THEN 0 ELSE Step(t, i)]
           C == CHOOSE t : t = Body(t)
           G == [k \in 1 .. rl |-> [t \in Limb |->
                   MulAddOut(rd[k - 1], Product(ad, b, al, k - 1), t)]]
<1>1. MulAddLimb(rd, ad, b, rl, al) =
        [d |-> [i \in DOMAIN rd |->
                  CASE i < rl -> Wrap(rd[i] + C[i] + Product(ad, b, al, i))
                    [] i = rl -> C[rl]
                    [] OTHER  -> rd[i]],
         c |-> C[rl]]
  BY DEF MulAddLimb, Product
<1>2. \A k \in 1 .. rl, t \in Limb :
        /\ G[k][t] = MulAddOut(rd[k - 1], Product(ad, b, al, k - 1), t)
        /\ G[k][t] \in Limb
        /\ k > al => G[k][t] = Bit(Wrap(rd[k - 1] + Wrap(t + Lo(Product(ad, b, al, k - 1))))
                                     < Wrap(t + Lo(Product(ad, b, al, k - 1))))
  <2> TAKE k \in 1 .. rl, t \in Limb
  <2>1. rd[k - 1] \in Limb /\ k - 1 \in Nat
    BY DEF Holds
  <2>2. MulAddOut(rd[k - 1], Product(ad, b, al, k - 1), t) \in Limb
    BY <2>1, ProductIs, MulAddOutIs
  <2>3. k > al => Product(ad, b, al, k - 1) = 0
    BY DEF Product
  <2> QED
    BY <2>1, <2>2, <2>3, MulAddOutZero
<1>3. Steps(rl, Limb, 0, G)
  <2>1. 0 \in Limb
    BY Base DEF Limb
  <2> QED
    BY <1>2, <2>1 DEF Steps
<1>4. PICK g \in [0 .. rl -> Limb] : Follows(g, rl, 0, G)
  <2> HIDE DEF G
  <2> QED
    BY <1>3, Recursion
<1>5. ASSUME NEW f, NEW k \in 1 .. rl, f[k - 1] \in Limb
      PROVE  G[k][f[k - 1]] = Step(f, k)
  <2>1. CASE k <= al
    <3>1. G[k][f[k - 1]] = MulAddOut(rd[k - 1], Product(ad, b, al, k - 1), f[k - 1])
      BY <1>2, <1>5
    <3> HIDE DEF G
    <3> QED
      BY <3>1, <2>1 DEF MulAddOut, Product
  <2>2. CASE k > al
    <3>1. G[k][f[k - 1]] = Bit(Wrap(rd[k - 1] + Wrap(f[k - 1] + Lo(Product(ad, b, al, k - 1))))
                                 < Wrap(f[k - 1] + Lo(Product(ad, b, al, k - 1))))
      BY <1>2, <1>5, <2>2
    <3> HIDE DEF G
    <3> QED
      BY <3>1, <2>2 DEF Product
  <2> QED
    BY <2>1, <2>2
<1>6. g = Body(g)
  <2>1. \A k \in 1 .. rl : g[k - 1] \in Limb /\ g[k] = G[k][g[k - 1]]
    BY <1>4 DEF Follows
  <2>2. g[0] = 0
    BY <1>4 DEF Follows
  <2> HIDE DEF G, Step
  <2>3. \A k \in 1 .. rl : g[k] = Step(g, k)
    BY <1>5, <2>1
  <2> QED
    BY <2>2, <2>3
<1>7. C = Body(C)
  <2> HIDE DEF Body
  <2> QED
    BY <1>6
<1>8. Takes(C, rl, Limb, 0, G)
  <2> HIDE DEF C, G
  <2>1. C[0] = 0
    BY <1>7
  <2>2. ASSUME NEW k \in 1 .. rl, C[k - 1] \in Limb PROVE C[k] = G[k][C[k - 1]]
    <3> HIDE DEF Step
    <3>1. C[k] = Step(C, k)
      BY <1>7
    <3> QED
      BY <1>5, <2>2, <3>1
  <2> QED
    BY <2>1, <2>2 DEF Takes
<1>9. \A k \in 0 .. rl : C[k] \in Limb
  <2> HIDE DEF C, G
  <2> QED
    BY <1>3, <1>8, Iterates
<1> QED
  <2> HIDE DEF C, G
  <2>1. \A k \in 1 .. rl : C[k] = MulAddOut(rd[k - 1], Product(ad, b, al, k - 1), C[k - 1])
    BY <1>2, <1>8, <1>9 DEF Takes
  <2> QED
    BY <1>1, <1>8, <1>9, <2>1 DEF MulAddCarries, Takes

(* ll_muladd_limb adds the product, and the limb after the sum is the      *)
(* carry.                                                                  *)
LEMMA MulAddLimbIs ==
  ASSUME NEW rl \in Nat, NEW al \in 0 .. rl, NEW rd, NEW ad, NEW b \in Limb,
         Holds(rd, rl), Holds(ad, al), DOMAIN rd = 0 .. rl
  PROVE  LET m == MulAddLimb(rd, ad, b, rl, al)
         IN  /\ m.d \in Arrays(rl + 1) /\ DOMAIN m.d = 0 .. rl /\ Holds(m.d, rl + 1)
             /\ m.c = m.d[rl]
             /\ Val(m.d, rl + 1) = Val(rd, rl) + b * Val(ad, al)
<1>1. PICK c : MulAddCarries(c, rd, ad, b, rl, al)
  BY MulAddLimbCarries
<1> DEFINE d == [i \in DOMAIN rd |->
                   CASE i < rl -> Wrap(rd[i] + c[i] + Product(ad, b, al, i))
                     [] i = rl -> c[rl]
                     [] OTHER  -> rd[i]]
           y == [i \in 0 .. rl - 1 |-> IF i < al THEN ad[i] ELSE 0]
<1>2. Holds(y, al) /\ Holds(y, rl) /\ Val(y, rl) = Val(ad, al)
  <2>1. Holds(y, al) /\ (\A i \in 0 .. al - 1 : ad[i] = y[i]) /\ \A i \in al .. rl - 1 : y[i] = 0
    BY DEF Holds
  <2> HIDE DEF y
  <2>2. Val(ad, al) = Val(y, al)
    BY <2>1, ValSame
  <2> QED
    BY <2>1, <2>2, ValPad
<1>3. ASSUME NEW k \in 0 .. rl - 1
      PROVE  d[k] \in Limb /\ d[k] + B * c[k + 1] = rd[k] + b * y[k] + c[k]
  <2>1. /\ k + 1 \in 1 .. rl /\ (k + 1) - 1 = k /\ k + 1 \in 0 .. rl /\ k \in 0 .. rl
        /\ k \in Nat /\ k \in DOMAIN rd /\ k < rl /\ al \in Nat
    OBVIOUS
  <2>2. rd[k] \in Limb /\ c[k] \in Limb /\ c[k + 1] \in Limb
    BY <1>1, <2>1 DEF MulAddCarries, Holds
  <2> DEFINE z == Product(ad, b, al, k)
  <2>3. z \in Nat /\ z <= (B - 1) * (B - 1)
    <3> HIDE DEF d, y
    <3> QED
      BY <2>1, ProductIs
  <2>4. c[k + 1] = MulAddOut(rd[k], z, c[k])
    BY <1>1, <2>1 DEF MulAddCarries
  <2>5. d[k] = Wrap(rd[k] + c[k] + z)
    BY <2>1
  <2>6. b \in Int /\ y[k] \in Int /\ z = b * y[k]
    <3>1. b \in Int /\ y[k] \in Int
      BY <1>2, Base DEF Holds, Limb
    <3>2. k < al => ad[k] \in Int
      BY Base DEF Holds, Limb
    <3> QED
      BY <3>1, <3>2, <2>1 DEF Product
  <2> HIDE DEF z, d, y
  <2>7. d[k] \in Limb /\ d[k] + B * c[k + 1] = rd[k] + z + c[k]
    BY <2>2, <2>3, <2>4, <2>5, MulAddOutIs
  <2> QED
    BY <2>6, <2>7
<1>4. DOMAIN d = 0 .. rl /\ d[rl] = c[rl]
  OBVIOUS
<1>5. \A k \in 0 .. rl : c[k] \in Limb /\ c[k] \in Int
  BY <1>1, Base DEF MulAddCarries, Limb
<1>6. d \in Arrays(rl + 1) /\ Holds(d, rl + 1) /\ Holds(d, rl)
  <2>1. \A k \in 0 .. rl : k = rl \/ k \in 0 .. rl - 1
    OBVIOUS
  <2>2. d = [k \in 0 .. rl |-> d[k]]
    BY <1>4
  <2> HIDE DEF d
  <2>3. \A k \in 0 .. rl : d[k] \in Limb
    BY <1>3, <1>4, <1>5, <2>1
  <2> QED
    BY <1>4, <2>2, <2>3 DEF Holds, Arrays
<1>7. MulAddLimb(rd, ad, b, rl, al) = [d |-> d, c |-> c[rl]] /\ c[0] = 0
  BY <1>1 DEF MulAddCarries
<1>8. b \in Int /\ Val(rd, rl) \in Int /\ Val(ad, al) \in Int /\ b * Val(ad, al) \in Int
  BY ValRange, Base DEF Limb
<1> HIDE DEF d, y
<1>9. Val(d, rl) + Power(rl) * c[rl] = Val(rd, rl) + b * Val(y, rl) + c[0]
  <2>1. Carried(d, rd, b, y, c, rl)
    BY <1>2, <1>3, <1>5, <1>6 DEF Carried
  <2> QED
    BY <2>1, <1>8, Carries
<1>10. Val(d, rl + 1) = Val(d, rl) + Power(rl) * d[rl]
  BY <1>6, ValStep
<1>11. Val(d, rl + 1) = Val(rd, rl) + b * Val(ad, al)
  BY <1>2, <1>4, <1>7, <1>8, <1>9, <1>10
<1> QED
  BY <1>4, <1>6, <1>7, <1>11

(* Row i of ll_mul. *)
MulRow(ad, b, al, i, p) == Into(p, i, MulAddLimb(From(p, i, al + 1), ad, b, al, al).d)

(* It adds a multiple of the factor at place i, and opens the limb i + al. *)
LEMMA MulRowIs ==
  ASSUME NEW al \in Nat, NEW bl \in Nat, NEW ad, Holds(ad, al), NEW b \in Limb,
         NEW i \in 0 .. bl - 1, NEW p \in Arrays(al + bl)
  PROVE  /\ MulRow(ad, b, al, i, p) \in Arrays(al + bl)
         /\ Val(MulRow(ad, b, al, i, p), i + 1 + al)
              = Val(p, i + al) + Power(i) * (b * Val(ad, al))
<1> DEFINE l == al + 1   u == From(p, i, l)   q == MulAddLimb(u, ad, b, al, al).d
           r == Into(p, i, q)
<1>1. /\ l \in Nat /\ i \in Nat /\ al \in 0 .. al /\ i + l <= al + bl
      /\ \A j \in 0 .. al + bl - 1 : p[j] \in Limb
      /\ DOMAIN p = 0 .. al + bl - 1
  BY DEF Arrays
<1>2. Holds(u, al) /\ DOMAIN u = 0 .. al /\ \A j \in 0 .. al : u[j] = p[i + j]
  BY <1>1 DEF From, Holds
<1> HIDE DEF u
<1>3. /\ DOMAIN q = 0 .. al /\ Holds(q, al + 1)
      /\ Val(q, al + 1) = Val(u, al) + b * Val(ad, al)
  BY <1>1, <1>2, MulAddLimbIs
<1> HIDE DEF q
<1>4. \A j \in 0 .. al + bl - 1 : r[j] = (IF j - i \in 0 .. al THEN q[j - i] ELSE p[j]) /\ r[j] \in Limb
  BY <1>1, <1>3 DEF Into, Holds
<1>5. r \in Arrays(al + bl)
  <2>1. r = [j \in 0 .. al + bl - 1 |-> r[j]]
    BY <1>1 DEF Into
  <2> HIDE DEF r
  <2> QED
    BY <1>4, <2>1 DEF Arrays
<1>6. Fits(q, p, i, l, 0)
  <2>1. \A j \in 0 .. i + l + 0 - 1 : j \in 0 .. al + bl - 1
    BY <1>1
  <2> QED
    BY <1>1, <1>3, <2>1 DEF Fits, Holds
<1>7. Val(r, i + l + 0) = Val(p, i) + Power(i) * (Val(q, l) + Power(l) * Val(From(p, i + l, 0), 0))
  <2> HIDE DEF l, r
  <2> QED
    BY <1>1, <1>6, IntoIs DEF r
<1>8. Val(p, i + al) = Val(p, i) + Power(i) * Val(u, al)
  <2>1. Holds(p, i + al)
    BY <1>1 DEF Holds
  <2>2. Val(p, i + al) = Val(p, i) + Power(i) * Val(From(p, i, al), al)
    BY <1>1, <2>1, ValSplit
  <2>3. Val(u, al) = Val(From(p, i, al), al)
    <3>1. \A j \in 0 .. al - 1 : u[j] = From(p, i, al)[j]
      BY <1>2 DEF From
    <3> QED
      BY <1>2, <3>1, ValSame
  <2> QED
    BY <2>2, <2>3
<1>9. i + l + 0 = i + 1 + al /\ Holds(p, i)
  BY <1>1 DEF Holds
<1>10. Val(From(p, i + l, 0), 0) = 0
  BY ValZero
<1>11. /\ Val(p, i) \in Int /\ Power(i) \in Int /\ Val(u, al) \in Int /\ b * Val(ad, al) \in Int
       /\ Power(l) \in Int
  <2>1. /\ Val(p, i) \in Int /\ Power(i) \in Int /\ Val(u, al) \in Int /\ Val(ad, al) \in Int
        /\ b \in Int
    BY <1>1, <1>2, <1>9, ValRange, PowerStep, Base DEF Limb
  <2>2. Power(l) \in Int
    BY <1>1, PowerStep
  <2> QED
    BY <2>1, <2>2
<1> DEFINE e == Val(p, i)  f == Power(i)  g == Val(u, al)  h == b * Val(ad, al)
<1>12. Val(r, i + 1 + al) = e + f * (g + h)
  <2>1. Power(l) * 0 = 0
    BY <1>11
  <2> HIDE DEF r
  <2> QED
    BY <1>3, <1>7, <1>9, <1>10, <1>11, <2>1
<1> HIDE DEF r
<1>13. Val(p, i + al) = e + f * g
  BY <1>8
<1>14. e \in Int /\ f \in Int /\ g \in Int /\ h \in Int
  BY <1>11
<1> HIDE DEF e, f, g, h
<1>15. e + f * (g + h) = (e + f * g) + f * h
  BY <1>14
<1>16. Val(r, i + 1 + al) = Val(p, i + al) + Power(i) * (b * Val(ad, al))
  BY <1>12, <1>13, <1>15 DEF f, h
<1> QED
  BY <1>5, <1>16 DEF r, q, u, l, MulRow

MulLoop(rd, ad, bd, al, bl, c) ==
  /\ c[0] = Into(rd, 0, Zeros(al))
  /\ \A k \in 1 .. bl : c[k] = MulRow(ad, bd[k - 1], al, k - 1, c[k - 1])
  /\ \A k \in 0 .. bl : c[k] \in Arrays(al + bl)
  /\ Mul(rd, ad, bd, al, bl) = c[bl]

(* The recursive function of Mul exists and yields arrays. *)
LEMMA MulLoops ==
  ASSUME NEW al \in Nat, NEW bl \in Nat, NEW rd \in Arrays(al + bl), NEW ad, NEW bd, Holds(ad, al), Holds(bd, bl)
  PROVE  \E c : MulLoop(rd, ad, bd, al, bl, c)
<1> DEFINE Body(c) == [i \in 0 .. bl |-> IF i = 0 THEN Into(rd, 0, Zeros(al)) ELSE LET p == c[i - 1]
                           IN  Into(p, i - 1,
                                    MulAddLimb(From(p, i - 1, al + 1), ad, bd[i - 1], al, al).d)]
           C == CHOOSE c : c = Body(c)
           S == Arrays(al + bl)
           G == [k \in 1 .. bl |-> [p \in S |-> MulRow(ad, bd[k - 1], al, k - 1, p)]]
<1>1. Mul(rd, ad, bd, al, bl) = C[bl]
  BY DEF Mul
<1>2. \A k \in 1 .. bl, p \in S : G[k][p] = MulRow(ad, bd[k - 1], al, k - 1, p) /\ G[k][p] \in S
  <2>1. \A k \in 1 .. bl : bd[k - 1] \in Limb /\ k - 1 \in 0 .. bl - 1
    BY DEF Holds
  <2> QED
    BY <2>1, MulRowIs
<1>3. Steps(bl, S, Into(rd, 0, Zeros(al)), G)
  <2>1. Into(rd, 0, Zeros(al)) \in S
    <3> DEFINE r == Into(rd, 0, Zeros(al))
    <3>1. /\ DOMAIN Zeros(al) = 0 .. al - 1 /\ DOMAIN rd = 0 .. al + bl - 1
          /\ r = [j \in 0 .. al + bl - 1 |-> r[j]]
      BY DEF Zeros, Into, Arrays
    <3>2. \A j \in 0 .. al + bl - 1 : r[j] \in {0, rd[j]} /\ rd[j] \in Limb /\ 0 \in Limb
      BY <3>1, Base DEF Zeros, Into, Arrays, Limb
    <3> HIDE DEF r
    <3>3. r \in Arrays(al + bl)
      BY <3>1, <3>2 DEF Arrays
    <3> QED
      BY <3>3 DEF r
  <2> QED
    BY <1>2, <2>1 DEF Steps
<1>4. PICK g \in [0 .. bl -> S] : Follows(g, bl, Into(rd, 0, Zeros(al)), G)
  <2> HIDE DEF G, S
  <2> QED
    BY <1>3, Recursion
<1>5. g[0] = Into(rd, 0, Zeros(al)) /\ \A k \in 1 .. bl : g[k] = MulRow(ad, bd[k - 1], al, k - 1, g[k - 1])
  <2>1. \A k \in 1 .. bl : g[k - 1] \in S
    OBVIOUS
  <2> HIDE DEF G, S
  <2> QED
    BY <1>2, <1>4, <2>1 DEF Follows
<1>6. g = Body(g)
  BY <1>5 DEF MulRow
<1>7. C = Body(C)
  <2> HIDE DEF Body
  <2> QED
    BY <1>6
<1>8. C[0] = Into(rd, 0, Zeros(al)) /\ \A k \in 1 .. bl : C[k] = MulRow(ad, bd[k - 1], al, k - 1, C[k - 1])
  <2> HIDE DEF C
  <2> QED
    BY <1>7 DEF MulRow
<1>9. \A k \in 0 .. bl : C[k] \in S
  <2> HIDE DEF C, G, S
  <2>1. Takes(C, bl, S, Into(rd, 0, Zeros(al)), G)
    BY <1>2, <1>8 DEF Takes
  <2> QED
    BY <1>3, <2>1, Iterates
<1> QED
  <2> HIDE DEF C
  <2> QED
    BY <1>1, <1>8, <1>9 DEF MulLoop

(* ll_mul multiplies, whatever was in the result array. *)
LEMMA MulIs ==
  ASSUME NEW al \in Nat, NEW bl \in Nat, NEW rd \in Arrays(al + bl), NEW ad, NEW bd,
         Holds(ad, al), Holds(bd, bl)
  PROVE  LET r == Mul(rd, ad, bd, al, bl)
         IN  /\ r \in Arrays(al + bl)
             /\ Val(r, al + bl) = Val(ad, al) * Val(bd, bl)
<1>1. PICK c : MulLoop(rd, ad, bd, al, bl, c)
  BY MulLoops
<1> DEFINE T == {k \in 0 .. bl : Val(c[k], k + al) = Val(ad, al) * Val(bd, k)}
<1>2. \A k \in 0 .. bl : c[k] \in Arrays(al + bl)
  BY <1>1 DEF MulLoop
<1>3. 0 \in T
  <2>1. c[0] = Into(rd, 0, Zeros(al)) /\ DOMAIN rd = 0 .. al + bl - 1
    BY <1>1 DEF MulLoop, Arrays
  <2>2. DOMAIN Zeros(al) = 0 .. al - 1
    BY DEF Zeros
  <2>3. \A j \in 0 .. al - 1 : Zeros(al)[j] = c[0][j]
    BY <2>1, <2>2 DEF Into
  <2>4. Val(c[0], al) = 0
    BY <2>3, ZerosAre, ValSame
  <2>5. Val(ad, al) * Val(bd, 0) = 0
    BY ValZero, ValRange
  <2> QED
    BY <2>4, <2>5
<1>4. ASSUME NEW k \in 0 .. bl - 1, k \in T PROVE k + 1 \in T
  <2>1. /\ k + 1 \in 1 .. bl /\ (k + 1) - 1 = k /\ c[k] \in Arrays(al + bl) /\ bd[k] \in Limb
        /\ k \in Nat /\ Holds(bd, k + 1) /\ Holds(bd, k)
    BY <1>2 DEF Holds
  <2>2. c[k + 1] = MulRow(ad, bd[k], al, k, c[k])
    BY <1>1, <2>1 DEF MulLoop
  <2>3. Val(c[k + 1], k + 1 + al) = Val(c[k], k + al) + Power(k) * (bd[k] * Val(ad, al))
    BY <2>1, <2>2, MulRowIs
  <2>4. Val(c[k], k + al) = Val(ad, al) * Val(bd, k)
    BY <1>4
  <2>5. Val(bd, k + 1) = Val(bd, k) + Power(k) * bd[k]
    BY <2>1, ValStep
  <2> DEFINE x == Val(ad, al)  y == Val(bd, k)  p == Power(k)  b == bd[k]
  <2>6. x \in Int /\ y \in Int /\ p \in Int /\ b \in Int
    BY <2>1, ValRange, PowerStep, Base DEF Limb
  <2> HIDE DEF x, y, p, b
  <2>7. x * (y + p * b) = x * y + p * (b * x)
    BY <2>6
  <2>8. Val(c[k + 1], k + 1 + al) = Val(ad, al) * Val(bd, k + 1)
    BY <2>3, <2>4, <2>5, <2>7 DEF x, y, p, b
  <2> QED
    BY <2>1, <2>8
<1>5. bl \in T
  <2>1. 0 .. bl \subseteq T
    <3> HIDE DEF T
    <3> QED
      BY <1>3, <1>4, InductionTo
  <2> QED
    BY <2>1
<1>6. Mul(rd, ad, bd, al, bl) = c[bl] /\ c[bl] \in Arrays(al + bl)
  BY <1>1, <1>2 DEF MulLoop
<1>7. Val(c[bl], bl + al) = Val(ad, al) * Val(bd, bl) /\ bl + al = al + bl
  BY <1>5
<1> QED
  BY <1>6, <1>7

------------------------------------------------------------------------------
(* Four limbs.  The carry and the borrow of a limb are put together by "or". *)
AddOutU256(a, b, p) == LET t == Wrap(a + p) IN Or(Bit(t < p), Bit(Wrap(t + b) < t))
AddOutMacro(a, b, p) == LET t == Wrap(a + p) IN Or(Bit(t < a), Bit(Wrap(t + b) < t))
SubOutU256(a, b, p) == LET t == Wrap(a - p) IN Or(Bit(t > a), Bit(Wrap(t - b) > t))

(* At most one of two bits is set when their sum is a bit.                 *)
LEMMA OrIs == ASSUME NEW p \in {0, 1}, NEW q \in {0, 1}, p + q \in {0, 1} PROVE Or(p, q) = p + q
  BY DEF Or

(* Both additions leave the carry that the sum of the carries is.          *)
LEMMA AddOutU256Is ==
  ASSUME NEW a \in Limb, NEW b \in Limb, NEW p \in {0, 1}
  PROVE  /\ AddOutU256(a, b, p) = CarryOut(a, b, p)
         /\ AddOutMacro(a, b, p) = CarryOut(a, b, p)
         /\ AddOutU256(a, b, p) \in {0, 1} /\ AddOutMacro(a, b, p) \in {0, 1}
         /\ Wrap(a + p + b) = Wrap(a + b + p)
<1>1. p \in Limb /\ a \in Int /\ b \in Int /\ p \in Int
  BY Base DEF Limb
<1> DEFINE t == Wrap(a + p)   e == Bit(t < p)   f == Bit(Wrap(b + t) < t)   g == Bit(t < a)
<1>2. t \in Limb /\ e \in {0, 1} /\ t + B * e = a + p
  BY <1>1, WrapSum
<1>3. f \in {0, 1}
  BY DEF Bit
<1>4. g \in {0, 1} /\ t + B * g = a + p
  <2>1. Wrap(p + a) + B * Bit(Wrap(p + a) < a) = p + a /\ Bit(Wrap(p + a) < a) \in {0, 1}
    BY <1>1, WrapSum
  <2>2. p + a = a + p
    BY <1>1
  <2> QED
    BY <2>1, <2>2
<1>5. CarryOut(a, b, p) = e + f /\ CarryOut(a, b, p) \in {0, 1}
  BY CarryOutIs DEF CarryOut
<1>6. t + b = b + t
  BY <1>1, <1>2 DEF Limb
<1>7. AddOutU256(a, b, p) = Or(e, f) /\ AddOutMacro(a, b, p) = Or(g, f)
  BY <1>6 DEF AddOutU256, AddOutMacro
<1>8. g = e
  <2>1. B \in Nat /\ B >= 2 /\ t \in Int
    BY <1>2, Base DEF Limb
  <2> HIDE DEF t, e, g
  <2> QED
    BY <1>1, <1>2, <1>4, <2>1
<1>9. a + p + b = a + b + p
  BY <1>1
<1> HIDE DEF t, e, f, g
<1>10. Or(e, f) = e + f
  BY <1>2, <1>3, <1>5, OrIs
<1> QED
  BY <1>5, <1>7, <1>8, <1>9, <1>10

(* The same for the borrow of the subtraction.                             *)
LEMMA SubOutU256Is ==
  ASSUME NEW a \in Limb, NEW b \in Limb, NEW p \in {0, 1}
  PROVE  /\ SubOutU256(a, b, p) \in {0, 1}
         /\ Wrap(a - p - b) \in Limb
         /\ Wrap(a - p - b) - B * SubOutU256(a, b, p) = a - b - p
<1>1. p \in Limb /\ a \in Int /\ b \in Int /\ p \in Int /\ B \in Nat /\ B >= 2
      /\ a \in 0 .. B - 1 /\ b \in 0 .. B - 1
  BY Base DEF Limb
<1> DEFINE t == Wrap(a - p)   e == Bit(a < p)   u == Wrap(t - b)   f == Bit(t < b)
<1>2. t \in Limb /\ e \in {0, 1} /\ t - B * e = a - p
  BY <1>1, WrapDifference
<1>3. u \in Limb /\ f \in {0, 1} /\ u - B * f = t - b
  <2> HIDE DEF t
  <2> QED
    BY <1>2, WrapDifference
<1>4. t \in 0 .. B - 1 /\ u \in 0 .. B - 1
  BY <1>2, <1>3 DEF Limb
<1>5. SubOutU256(a, b, p) = Or(Bit(t > a), Bit(u > t))
  BY DEF SubOutU256
<1>6. Bit(t > a) = e /\ Bit(u > t) = f
  <2>1. (t > a <=> e = 1) /\ (u > t <=> f = 1)
    <3> HIDE DEF t, u, e, f
    <3> QED
      BY <1>1, <1>2, <1>3, <1>4
  <2> HIDE DEF t, u, e, f
  <2> QED
    BY <1>2, <1>3, <2>1 DEF Bit
<1>7. Or(e, f) = e + f /\ e + f \in {0, 1} /\ u - B * (e + f) = a - b - p
  <2> HIDE DEF t, u, e, f
  <2>1. u - B * (e + f) = a - b - p
    BY <1>1, <1>2, <1>3, <1>4
  <2>2. ~(e = 1 /\ f = 1)
    BY <1>1, <1>2, <1>3, <1>4
  <2>3. e + f \in {0, 1}
    BY <1>2, <1>3, <2>2
  <2> QED
    BY <1>2, <1>3, <2>1, <2>3, OrIs
<1>8. Wrap(a - p - b) = u
  <2> DEFINE y == a - p - b
  <2>1. y \in Int /\ -(e + f) \in Int /\ y = B * (-(e + f)) + u
    <3> HIDE DEF t, u, e, f
    <3>1. e + f \in {0, 1} /\ y \in Int /\ y = a - b - p
      BY <1>1, <1>7
    <3> HIDE DEF y
    <3> QED
      BY <1>1, <1>4, <1>7, <3>1
  <2> HIDE DEF y, t, u, e, f
  <2>2. Wrap(y) = u
    BY <1>3, <2>1, WrapIs
  <2> QED
    BY <2>2 DEF y
<1> HIDE DEF t, u, e, f
<1> QED
  BY <1>3, <1>5, <1>6, <1>7, <1>8

AddU256Loop(ad, bd, c) ==
  /\ c[0] = 0
  /\ \A k \in 1 .. 4 : c[k] = AddOutU256(ad[k - 1], bd[k - 1], c[k - 1])
  /\ \A k \in 0 .. 4 : c[k] \in {0, 1}
  /\ AddU256(ad, bd) = [d |-> [i \in 0 .. 3 |-> Wrap(ad[i] + c[i] + bd[i])], c |-> c[4]]

(* The recursive function of AddU256 exists and yields carries. *)
LEMMA AddU256Loops ==
  ASSUME NEW ad, NEW bd, Holds(ad, 4), Holds(bd, 4)
  PROVE  \E c : AddU256Loop(ad, bd, c)
<1> DEFINE Body(c) == [i \in 0 .. 4 |->
               IF i = 0 THEN 0
               ELSE LET p == c[i - 1]
                        t == Wrap(ad[i - 1] + p)
                    IN  Or(Bit(t < p), Bit(Wrap(t + bd[i - 1]) < t))]
           C == CHOOSE c : c = Body(c)
           S == {0, 1}
           G == [k \in 1 .. 4 |-> [p \in S |-> AddOutU256(ad[k - 1], bd[k - 1], p)]]
<1>1. AddU256(ad, bd) = [d |-> [i \in 0 .. 3 |-> Wrap(ad[i] + C[i] + bd[i])], c |-> C[4]]
  BY DEF AddU256
<1>2. \A k \in 1 .. 4, p \in S : G[k][p] = AddOutU256(ad[k - 1], bd[k - 1], p) /\ G[k][p] \in S
  <2>1. \A k \in 1 .. 4 : ad[k - 1] \in Limb /\ bd[k - 1] \in Limb
    BY DEF Holds
  <2> QED
    BY <2>1, AddOutU256Is
<1>3. Steps(4, S, 0, G)
  BY <1>2 DEF Steps
<1>4. PICK g \in [0 .. 4 -> S] : Follows(g, 4, 0, G)
  <2> HIDE DEF G, S
  <2> QED
    BY <1>3, Recursion
<1>5. g[0] = 0 /\ \A k \in 1 .. 4 : g[k] = AddOutU256(ad[k - 1], bd[k - 1], g[k - 1])
  <2>1. \A k \in 1 .. 4 : g[k - 1] \in S
    OBVIOUS
  <2> HIDE DEF G, S
  <2> QED
    BY <1>2, <1>4, <2>1 DEF Follows
<1>6. g = Body(g)
  BY <1>5 DEF AddOutU256
<1>7. C = Body(C)
  <2> HIDE DEF Body
  <2> QED
    BY <1>6
<1>8. C[0] = 0 /\ \A k \in 1 .. 4 : C[k] = AddOutU256(ad[k - 1], bd[k - 1], C[k - 1])
  <2> HIDE DEF C
  <2> QED
    BY <1>7 DEF AddOutU256
<1>9. \A k \in 0 .. 4 : C[k] \in S
  <2> HIDE DEF C, G, S
  <2>1. Takes(C, 4, S, 0, G)
    BY <1>2, <1>8 DEF Takes
  <2> QED
    BY <1>3, <2>1, Iterates
<1> QED
  <2> HIDE DEF C
  <2> QED
    BY <1>1, <1>8, <1>9 DEF AddU256Loop

AddMacroLoop(ad, bd, c) ==
  /\ c[0] = 0
  /\ \A k \in 1 .. 4 : c[k] = AddOutMacro(ad[k - 1], bd[k - 1], c[k - 1])
  /\ \A k \in 0 .. 4 : c[k] \in {0, 1}
  /\ AddMacro(ad, bd) = [d |-> [i \in 0 .. 3 |-> Wrap(ad[i] + c[i] + bd[i])], c |-> c[4]]

(* The recursive function of AddMacro exists and yields carries. *)
LEMMA AddMacroLoops ==
  ASSUME NEW ad, NEW bd, Holds(ad, 4), Holds(bd, 4)
  PROVE  \E c : AddMacroLoop(ad, bd, c)
<1> DEFINE Body(c) == [i \in 0 .. 4 |->
               IF i = 0 THEN 0
               ELSE LET t == Wrap(ad[i - 1] + c[i - 1])
                    IN  Or(Bit(t < ad[i - 1]), Bit(Wrap(t + bd[i - 1]) < t))]
           C == CHOOSE c : c = Body(c)
           S == {0, 1}
           G == [k \in 1 .. 4 |-> [p \in S |-> AddOutMacro(ad[k - 1], bd[k - 1], p)]]
<1>1. AddMacro(ad, bd) = [d |-> [i \in 0 .. 3 |-> Wrap(ad[i] + C[i] + bd[i])], c |-> C[4]]
  BY DEF AddMacro
<1>2. \A k \in 1 .. 4, p \in S : G[k][p] = AddOutMacro(ad[k - 1], bd[k - 1], p) /\ G[k][p] \in S
  <2>1. \A k \in 1 .. 4 : ad[k - 1] \in Limb /\ bd[k - 1] \in Limb
    BY DEF Holds
  <2> QED
    BY <2>1, AddOutU256Is
<1>3. Steps(4, S, 0, G)
  BY <1>2 DEF Steps
<1>4. PICK g \in [0 .. 4 -> S] : Follows(g, 4, 0, G)
  <2> HIDE DEF G, S
  <2> QED
    BY <1>3, Recursion
<1>5. g[0] = 0 /\ \A k \in 1 .. 4 : g[k] = AddOutMacro(ad[k - 1], bd[k - 1], g[k - 1])
  <2>1. \A k \in 1 .. 4 : g[k - 1] \in S
    OBVIOUS
  <2> HIDE DEF G, S
  <2> QED
    BY <1>2, <1>4, <2>1 DEF Follows
<1>6. g = Body(g)
  BY <1>5 DEF AddOutMacro
<1>7. C = Body(C)
  <2> HIDE DEF Body
  <2> QED
    BY <1>6
<1>8. C[0] = 0 /\ \A k \in 1 .. 4 : C[k] = AddOutMacro(ad[k - 1], bd[k - 1], C[k - 1])
  <2> HIDE DEF C
  <2> QED
    BY <1>7 DEF AddOutMacro
<1>9. \A k \in 0 .. 4 : C[k] \in S
  <2> HIDE DEF C, G, S
  <2>1. Takes(C, 4, S, 0, G)
    BY <1>2, <1>8 DEF Takes
  <2> QED
    BY <1>3, <2>1, Iterates
<1> QED
  <2> HIDE DEF C
  <2> QED
    BY <1>1, <1>8, <1>9 DEF AddMacroLoop

SubU256Loop(ad, bd, c) ==
  /\ c[0] = 0
  /\ \A k \in 1 .. 4 : c[k] = SubOutU256(ad[k - 1], bd[k - 1], c[k - 1])
  /\ \A k \in 0 .. 4 : c[k] \in {0, 1}
  /\ SubU256(ad, bd) = [d |-> [i \in 0 .. 3 |-> Wrap(ad[i] - c[i] - bd[i])], c |-> c[4]]

(* The recursive function of SubU256 exists and yields borrows. *)
LEMMA SubU256Loops ==
  ASSUME NEW ad, NEW bd, Holds(ad, 4), Holds(bd, 4)
  PROVE  \E c : SubU256Loop(ad, bd, c)
<1> DEFINE Body(c) == [i \in 0 .. 4 |->
               IF i = 0 THEN 0
               ELSE LET t == Wrap(ad[i - 1] - c[i - 1])
                    IN  Or(Bit(t > ad[i - 1]), Bit(Wrap(t - bd[i - 1]) > t))]
           C == CHOOSE c : c = Body(c)
           S == {0, 1}
           G == [k \in 1 .. 4 |-> [p \in S |-> SubOutU256(ad[k - 1], bd[k - 1], p)]]
<1>1. SubU256(ad, bd) = [d |-> [i \in 0 .. 3 |-> Wrap(ad[i] - C[i] - bd[i])], c |-> C[4]]
  BY DEF SubU256
<1>2. \A k \in 1 .. 4, p \in S : G[k][p] = SubOutU256(ad[k - 1], bd[k - 1], p) /\ G[k][p] \in S
  <2>1. \A k \in 1 .. 4 : ad[k - 1] \in Limb /\ bd[k - 1] \in Limb
    BY DEF Holds
  <2> QED
    BY <2>1, SubOutU256Is
<1>3. Steps(4, S, 0, G)
  BY <1>2 DEF Steps
<1>4. PICK g \in [0 .. 4 -> S] : Follows(g, 4, 0, G)
  <2> HIDE DEF G, S
  <2> QED
    BY <1>3, Recursion
<1>5. g[0] = 0 /\ \A k \in 1 .. 4 : g[k] = SubOutU256(ad[k - 1], bd[k - 1], g[k - 1])
  <2>1. \A k \in 1 .. 4 : g[k - 1] \in S
    OBVIOUS
  <2> HIDE DEF G, S
  <2> QED
    BY <1>2, <1>4, <2>1 DEF Follows
<1>6. g = Body(g)
  BY <1>5 DEF SubOutU256
<1>7. C = Body(C)
  <2> HIDE DEF Body
  <2> QED
    BY <1>6
<1>8. C[0] = 0 /\ \A k \in 1 .. 4 : C[k] = SubOutU256(ad[k - 1], bd[k - 1], C[k - 1])
  <2> HIDE DEF C
  <2> QED
    BY <1>7 DEF SubOutU256
<1>9. \A k \in 0 .. 4 : C[k] \in S
  <2> HIDE DEF C, G, S
  <2>1. Takes(C, 4, S, 0, G)
    BY <1>2, <1>8 DEF Takes
  <2> QED
    BY <1>3, <2>1, Iterates
<1> QED
  <2> HIDE DEF C
  <2> QED
    BY <1>1, <1>8, <1>9 DEF SubU256Loop

(* ll_u256_add adds, and returns the carry. *)
LEMMA AddU256Is ==
  ASSUME NEW ad, NEW bd, Holds(ad, 4), Holds(bd, 4)
  PROVE  LET s == AddU256(ad, bd)
         IN  /\ s.d \in U256s /\ Holds(s.d, 4) /\ s.c \in {0, 1}
             /\ Val(s.d, 4) + Power(4) * s.c = Val(ad, 4) + Val(bd, 4)
<1>1. PICK c : AddU256Loop(ad, bd, c)
  BY AddU256Loops
<1> DEFINE d == [i \in 0 .. 3 |-> Wrap(ad[i] + c[i] + bd[i])]
<1>2. ASSUME NEW k \in 0 .. 3
      PROVE  /\ d[k] \in Limb
             /\ d[k] + B * c[k + 1] = ad[k] + 1 * bd[k] + c[k]
  <2>1. ad[k] \in Limb /\ bd[k] \in Limb /\ c[k] \in {0, 1} /\ bd[k] \in Int
    BY <1>1 DEF AddU256Loop, Holds, Limb
  <2>2. k + 1 \in 1 .. 4 /\ (k + 1) - 1 = k
    OBVIOUS
  <2>3. c[k + 1] = AddOutU256(ad[k], bd[k], c[k])
    BY <1>1, <2>2 DEF AddU256Loop
  <2>4. c[k + 1] = CarryOut(ad[k], bd[k], c[k]) /\ d[k] = Wrap(ad[k] + bd[k] + c[k])
    BY <2>1, <2>3, AddOutU256Is
  <2> HIDE DEF d
  <2> QED
    BY <2>1, <2>4, CarryOutIs
<1>3. d \in Arrays(4) /\ Holds(d, 4)
  <2>1. 4 - 1 = 3
    OBVIOUS
  <2> QED
    BY <1>2, <2>1 DEF Arrays, Holds
<1>4. \A k \in 0 .. 4 : c[k] \in Int
  BY <1>1 DEF AddU256Loop
<1> HIDE DEF d
<1>5. Val(d, 4) + Power(4) * c[4] = Val(ad, 4) + 1 * Val(bd, 4) + c[0]
  <2>1. 1 \in Int /\ 4 \in Nat /\ 4 - 1 = 3
    OBVIOUS
  <2>2. Carried(d, ad, 1, bd, c, 4)
    BY <1>2, <1>3, <1>4, <2>1 DEF Carried
  <2> QED
    BY <2>1, <2>2, Carries
<1>6. Val(ad, 4) \in Int /\ Val(bd, 4) \in Int
  BY ValRange
<1>7. AddU256(ad, bd) = [d |-> d, c |-> c[4]]
  BY <1>1 DEF AddU256Loop, d
<1>8. c[4] \in {0, 1} /\ c[0] = 0
  BY <1>1 DEF AddU256Loop
<1>9. Val(d, 4) + Power(4) * c[4] = Val(ad, 4) + Val(bd, 4)
  BY <1>5, <1>6, <1>8
<1> QED
  BY <1>3, <1>7, <1>8, <1>9 DEF U256s

(* The macro LL_U256_ADD does what ll_u256_add does. *)
LEMMA AddMacroIs ==
  ASSUME NEW ad, NEW bd, Holds(ad, 4), Holds(bd, 4)
  PROVE  AddMacro(ad, bd) = AddU256(ad, bd)
<1>1. PICK c : AddU256Loop(ad, bd, c)
  BY AddU256Loops
<1>2. PICK g : AddMacroLoop(ad, bd, g)
  BY AddMacroLoops
<1> DEFINE T == {k \in 0 .. 4 : g[k] = c[k]}
<1>3. 0 \in T
  BY <1>1, <1>2 DEF AddU256Loop, AddMacroLoop
<1>4. ASSUME NEW k \in 0 .. 4 - 1, k \in T PROVE k + 1 \in T
  <2>1. /\ k + 1 \in 1 .. 4 /\ (k + 1) - 1 = k /\ g[k] = c[k] /\ c[k] \in {0, 1}
        /\ ad[k] \in Limb /\ bd[k] \in Limb
    BY <1>1, <1>4 DEF AddU256Loop, Holds
  <2>2. c[k + 1] = AddOutU256(ad[k], bd[k], c[k]) /\ g[k + 1] = AddOutMacro(ad[k], bd[k], c[k])
    BY <1>1, <1>2, <2>1 DEF AddU256Loop, AddMacroLoop
  <2>3. g[k + 1] = c[k + 1]
    BY <2>1, <2>2, AddOutU256Is
  <2> QED
    BY <2>1, <2>3
<1>5. \A k \in 0 .. 4 : g[k] = c[k]
  <2>1. 0 .. 4 \subseteq T
    <3> HIDE DEF T
    <3> QED
      BY <1>3, <1>4, InductionTo
  <2> QED
    BY <2>1
<1>6. [i \in 0 .. 3 |-> Wrap(ad[i] + g[i] + bd[i])] = [i \in 0 .. 3 |-> Wrap(ad[i] + c[i] + bd[i])]
  BY <1>5
<1>7. g[4] = c[4]
  BY <1>5
<1> QED
  BY <1>1, <1>2, <1>6, <1>7 DEF AddU256Loop, AddMacroLoop

(* ll_u256_sub subtracts, and returns the borrow. *)
LEMMA SubU256Is ==
  ASSUME NEW ad, NEW bd, Holds(ad, 4), Holds(bd, 4)
  PROVE  LET s == SubU256(ad, bd)
         IN  /\ s.d \in U256s /\ Holds(s.d, 4) /\ s.c \in {0, 1}
             /\ Val(s.d, 4) - Power(4) * s.c = Val(ad, 4) - Val(bd, 4)
<1>1. PICK c : SubU256Loop(ad, bd, c)
  BY SubU256Loops
<1> DEFINE d == [i \in 0 .. 3 |-> Wrap(ad[i] - c[i] - bd[i])]
<1>2. ASSUME NEW k \in 0 .. 3
      PROVE  /\ d[k] \in Limb
             /\ d[k] - B * c[k + 1] = ad[k] - 1 * bd[k] - c[k]
  <2>1. ad[k] \in Limb /\ bd[k] \in Limb /\ c[k] \in {0, 1} /\ bd[k] \in Int
    BY <1>1 DEF SubU256Loop, Holds, Limb
  <2>2. k + 1 \in 1 .. 4 /\ (k + 1) - 1 = k
    OBVIOUS
  <2>3. c[k + 1] = SubOutU256(ad[k], bd[k], c[k])
    BY <1>1, <2>2 DEF SubU256Loop
  <2>4. d[k] \in Limb /\ d[k] - B * c[k + 1] = ad[k] - bd[k] - c[k]
    BY <2>1, <2>3, SubOutU256Is
  <2>5. 1 * bd[k] = bd[k]
    BY <2>1
  <2> HIDE DEF d
  <2> QED
    BY <2>4, <2>5
<1>3. d \in Arrays(4) /\ Holds(d, 4)
  <2>1. 4 - 1 = 3
    OBVIOUS
  <2> QED
    BY <1>2, <2>1 DEF Arrays, Holds
<1>4. \A k \in 0 .. 4 : c[k] \in Int
  BY <1>1 DEF SubU256Loop
<1> HIDE DEF d
<1>5. Val(d, 4) - Power(4) * c[4] = Val(ad, 4) - 1 * Val(bd, 4) - c[0]
  <2>1. 1 \in Int /\ 4 \in Nat /\ 4 - 1 = 3
    OBVIOUS
  <2>2. Borrowed(d, ad, 1, bd, c, 4)
    BY <1>2, <1>3, <1>4, <2>1 DEF Borrowed
  <2> QED
    BY <2>1, <2>2, Borrows
<1>6. Val(ad, 4) \in Int /\ Val(bd, 4) \in Int
  BY ValRange
<1>7. SubU256(ad, bd) = [d |-> d, c |-> c[4]]
  BY <1>1 DEF SubU256Loop, d
<1>8. c[4] \in {0, 1} /\ c[0] = 0
  BY <1>1 DEF SubU256Loop
<1>9. Val(d, 4) - Power(4) * c[4] = Val(ad, 4) - Val(bd, 4)
  <2>1. 1 * Val(bd, 4) = Val(bd, 4)
    BY <1>6
  <2>2. Val(ad, 4) - Val(bd, 4) - c[0] = Val(ad, 4) - Val(bd, 4)
    BY <1>6, <1>8
  <2> QED
    BY <1>5, <2>1, <2>2
<1> QED
  BY <1>3, <1>7, <1>8, <1>9 DEF U256s

(* The routines for one limb. *)
LEMMA LimbU256Is ==
  ASSUME NEW ad, Holds(ad, 4), NEW b \in Limb
  PROVE  /\ AddLimbU256(ad, b) = AddLimb(ad, b, 4)
         /\ SubLimbU256(ad, b) = SubLimb(ad, b, 4)
         /\ LET s == AddLimbU256(ad, b)
            IN  Val(s.d, 4) + Power(4) * s.c = Val(ad, 4) + b
         /\ LET s == SubLimbU256(ad, b)
            IN  Val(s.d, 4) - Power(4) * s.c = Val(ad, 4) - b
         /\ LET s == MulLimbU256(ad, b)
            IN  Val(s.d, 4) + Power(4) * s.c = Val(ad, 4) * b
<1>1. 4 - 1 = 3 /\ 4 \in Nat
  OBVIOUS
<1>2. AddLimbU256(ad, b) = AddLimb(ad, b, 4)
  BY <1>1 DEF AddLimbU256, AddLimb
<1>3. SubLimbU256(ad, b) = SubLimb(ad, b, 4)
  <2> DEFINE S1 == CHOOSE c : c = [i \in 0 .. 4 |-> IF i = 0 THEN b ELSE Bit(c[i - 1] > ad[i - 1])]
             S2 == CHOOSE c : c = [i \in 0 .. 4 |-> IF i = 0 THEN b ELSE Bit(ad[i - 1] < c[i - 1])]
  <2>1. S1 = S2
    OBVIOUS
  <2>2. SubLimbU256(ad, b) = [d |-> [i \in 0 .. 3 |-> Wrap(ad[i] - S1[i])], c |-> S1[4]]
    BY DEF SubLimbU256
  <2>3. SubLimb(ad, b, 4) = [d |-> [i \in 0 .. 3 |-> Wrap(ad[i] - S2[i])], c |-> S2[4]]
    BY <1>1 DEF SubLimb
  <2> HIDE DEF S1, S2
  <2> QED
    BY <2>1, <2>2, <2>3
<1>4. /\ LET s == AddLimb(ad, b, 4) IN Val(s.d, 4) + Power(4) * s.c = Val(ad, 4) + b
      /\ LET s == SubLimb(ad, b, 4) IN Val(s.d, 4) - Power(4) * s.c = Val(ad, 4) - b
  BY <1>1, AddLimbIs, SubLimbIs
<1>5. LET s == MulLimbU256(ad, b)
      IN  Val(s.d, 4) + Power(4) * s.c = Val(ad, 4) * b
  <2> DEFINE z == Zeros(4)
  <2>1. Holds(z, 4) /\ Val(z, 4) = 0
    BY <1>1, ZerosAre
  <2> HIDE DEF z
  <2>2. LET s == Row(z, ad, b, 4)
        IN  Val(s.d, 4) + Power(4) * s.c = Val(z, 4) + b * Val(ad, 4)
    BY <1>1, <2>1, RowIs
  <2>3. Val(z, 4) + b * Val(ad, 4) = Val(ad, 4) * b
    <3>1. Val(ad, 4) \in Int /\ b \in Int
      BY <1>1, ValRange, Base DEF Limb
    <3> QED
      BY <2>1, <3>1
  <2> QED
    BY <2>2, <2>3 DEF MulLimbU256, z
<1> QED
  BY <1>2, <1>3, <1>4, <1>5

(* ll_u256_lshift multiplies by 2^n. *)
LEMMA LShiftU256Is ==
  ASSUME NEW ad, Holds(ad, 4), NEW n \in 0 .. W - 1
  PROVE  Holds(LShiftU256(ad, n), 5) /\ Val(LShiftU256(ad, n), 5) = 2^n * Val(ad, 4)
<1> DEFINE f == LShiftU256(ad, n)   l == 4
<1>1. n \in 0 .. W /\ l \in Nat /\ l + 1 = 5 /\ Holds(ad, l)
  BY WordAssumption
<1>2. \A j \in 0 .. 4 : f[j] = Low(ad, 4, n, j) + High(ad, n, j)
  <2> TAKE j \in 0 .. 4
  <2>1. CASE n = 0
    <3>1. f[j] = IF j = 4 THEN 0 ELSE ad[j]
      BY <2>1 DEF LShiftU256
    <3>2. Low(ad, l, 0, j) + High(ad, 0, j) = IF j < l THEN ad[j] ELSE 0
      <4>1. j \in 0 .. l
        OBVIOUS
      <4> HIDE DEF l
      <4> QED
        BY <1>1, <4>1, Unshifted
    <3> HIDE DEF f
    <3> QED
      BY <2>1, <3>1, <3>2
  <2>2. CASE n # 0
    <3>1. f[j] = (IF j > 0 THEN ad[j - 1] \div 2^(W - n) ELSE 0)
                 + (IF j < 4 THEN Wrap(ad[j] * 2^n) ELSE 0)
      BY <2>2 DEF LShiftU256
    <3>2. Low(ad, l, n, j) \in Nat /\ High(ad, n, j) \in Nat
      <4>1. j \in 0 .. l
        OBVIOUS
      <4> HIDE DEF l
      <4> QED
        BY <1>1, <4>1, ShiftedLimb
    <3>3. f[j] = High(ad, n, j) + Low(ad, 4, n, j)
      <4> HIDE DEF f
      <4> QED
        BY <3>1 DEF High, Low
    <3> HIDE DEF f
    <3> QED
      BY <3>2, <3>3
  <2> QED
    BY <2>1, <2>2
<1> HIDE DEF f
<1>3. Holds(f, l + 1)
  <2>1. \A j \in 0 .. l : Low(ad, l, n, j) + High(ad, n, j) \in Limb
    <3> HIDE DEF l
    <3> QED
      BY <1>1, ShiftedLimb
  <2> QED
    BY <1>2, <2>1 DEF Holds
<1>4. Val(f, l + 1) = 2^n * Val(ad, l)
  <2>1. \A j \in 0 .. l : f[j] = Low(ad, l, n, j) + High(ad, n, j)
    BY <1>2
  <2> HIDE DEF l
  <2> QED
    BY <1>1, <1>3, <2>1, ShiftedVal
<1> QED
  BY <1>3, <1>4 DEF f

(* ll_u256_rshift divides by 2^n and rounds down. *)
LEMMA RShiftU256Is ==
  ASSUME NEW ad \in U256s, Holds(ad, 4), NEW n \in 0 .. W - 1
  PROVE  /\ Holds(RShiftU256(ad, n), 4)
         /\ \E t \in 0 .. 2^n - 1 : Val(ad, 4) = 2^n * Val(RShiftU256(ad, n), 4) + t
<1> DEFINE f == RShiftU256(ad, n)   l == 4
<1>1. l \in Nat /\ Holds(ad, l)
  OBVIOUS
<1>2. \A j \in 0 .. 3 : f[j] = Right(ad, 4, n, j)
  <2> TAKE j \in 0 .. 3
  <2>1. CASE n = 0
    <3>1. f[j] = ad[j]
      BY <2>1 DEF RShiftU256
    <3>2. Right(ad, l, 0, j) = ad[j]
      <4>1. j \in 0 .. l - 1
        OBVIOUS
      <4> HIDE DEF l
      <4> QED
        BY <1>1, <4>1, UnshiftedRight
    <3> HIDE DEF f
    <3> QED
      BY <2>1, <3>1, <3>2
  <2>2. CASE n # 0
    <3>1. f[j] = (ad[j] \div 2^n) + (IF j < 3 THEN Wrap(ad[j + 1] * 2^(W - n)) ELSE 0)
      BY <2>2 DEF RShiftU256
    <3>2. j + 1 = 4 <=> ~(j < 3)
      OBVIOUS
    <3> HIDE DEF f
    <3> QED
      BY <3>1, <3>2 DEF Right
  <2> QED
    BY <2>1, <2>2
<1> HIDE DEF f
<1>3. \A j \in 0 .. l - 1 : f[j] = Right(ad, l, n, j) /\ Right(ad, l, n, j) \in Limb
  <2>1. \A j \in 0 .. l - 1 : f[j] = Right(ad, l, n, j)
    BY <1>2
  <2> HIDE DEF l
  <2> QED
    BY <1>1, <2>1, RightLimb
<1>4. Holds(f, l)
  <2> HIDE DEF l
  <2> QED
    BY <1>3 DEF Holds
<1>5. \E t \in 0 .. 2^n - 1 : Val(ad, l) = 2^n * Val(f, l) + t
  <2> HIDE DEF l
  <2> QED
    BY <1>1, <1>3, <1>4, RightVal
<1> QED
  BY <1>4, <1>5 DEF f

(* The number that al + 1 limbs written at place i stand for, together     *)
(* with the limbs below: they open one more limb.                          *)
LEMMA RowInto ==
  ASSUME NEW al \in Nat, NEW m \in Nat, NEW i \in Nat, i + al + 1 <= m, NEW p \in Arrays(m),
         NEW q, DOMAIN q = 0 .. al, Holds(q, al + 1),
         NEW h \in Int, Val(q, al + 1) = Val(From(p, i, al), al) + h
  PROVE  /\ Into(p, i, q) \in Arrays(m)
         /\ Val(Into(p, i, q), i + 1 + al) = Val(p, i + al) + Power(i) * h
<1> DEFINE l == al + 1   u == From(p, i, al)   r == Into(p, i, q)
<1>1. /\ l \in Nat /\ i + l <= m /\ DOMAIN p = 0 .. m - 1
      /\ \A j \in 0 .. m - 1 : p[j] \in Limb
  BY DEF Arrays
<1>2. Holds(u, al)
  BY <1>1 DEF From, Holds
<1>3. \A j \in 0 .. m - 1 : r[j] = (IF j - i \in 0 .. al THEN q[j - i] ELSE p[j]) /\ r[j] \in Limb
  BY <1>1 DEF Into, Holds
<1>4. r \in Arrays(m)
  <2>1. r = [j \in 0 .. m - 1 |-> r[j]]
    BY <1>1 DEF Into
  <2> HIDE DEF r
  <2> QED
    BY <1>3, <2>1 DEF Arrays
<1>5. Fits(q, p, i, l, 0)
  <2>1. \A j \in 0 .. i + l + 0 - 1 : j \in 0 .. m - 1
    BY <1>1
  <2> QED
    BY <1>1, <2>1 DEF Fits, Holds
<1>6. Val(r, i + l + 0) = Val(p, i) + Power(i) * (Val(q, l) + Power(l) * Val(From(p, i + l, 0), 0))
  <2> HIDE DEF l, r
  <2> QED
    BY <1>1, <1>5, IntoIs DEF r
<1>7. Val(p, i + al) = Val(p, i) + Power(i) * Val(u, al)
  <2>1. Holds(p, i + al)
    BY <1>1 DEF Holds
  <2> QED
    BY <2>1, ValSplit
<1>8. i + l + 0 = i + 1 + al /\ Holds(p, i)
  BY <1>1 DEF Holds
<1>9. Val(From(p, i + l, 0), 0) = 0
  BY ValZero
<1>10. Val(p, i) \in Int /\ Power(i) \in Int /\ Val(u, al) \in Int /\ Power(l) \in Int
  BY <1>1, <1>2, <1>8, ValRange, PowerStep
<1> DEFINE e == Val(p, i)  f == Power(i)  g == Val(u, al)
<1>11. Val(r, i + 1 + al) = e + f * (g + h)
  <2>1. Power(l) * 0 = 0
    BY <1>10
  <2> HIDE DEF r
  <2> QED
    BY <1>6, <1>8, <1>9, <1>10, <2>1
<1> HIDE DEF r
<1>12. Val(p, i + al) = e + f * g /\ e \in Int /\ f \in Int /\ g \in Int
  BY <1>7, <1>10
<1> HIDE DEF e, f, g
<1>13. e + f * (g + h) = (e + f * g) + f * h
  BY <1>12
<1>14. Val(r, i + 1 + al) = Val(p, i + al) + Power(i) * h
  BY <1>11, <1>12, <1>13 DEF f
<1> QED
  BY <1>4, <1>14 DEF r

(* Row i of ll_u256_mul. *)
RowU256(ad, b, i, p) ==
  LET q == Row(From(p, i, 4), ad, b, 4)
  IN  Into(Into(p, i, q.d), i + 4, [j \in {0} |-> q.c])

(* It adds a multiple of the factor at place i. *)
LEMMA RowU256Is ==
  ASSUME NEW ad, Holds(ad, 4), NEW b \in Limb, NEW i \in 0 .. 3, NEW p \in Arrays(8)
  PROVE  /\ RowU256(ad, b, i, p) \in Arrays(8)
         /\ Val(RowU256(ad, b, i, p), i + 1 + 4) = Val(p, i + 4) + Power(i) * (b * Val(ad, 4))
<1> DEFINE u == From(p, i, 4)   s == Row(u, ad, b, 4)
           q == [j \in 0 .. 4 |-> IF j = 4 THEN s.c ELSE s.d[j]]
<1>1. 4 \in Nat /\ 8 \in Nat /\ i \in Nat /\ i + 4 + 1 <= 8 /\ DOMAIN p = 0 .. 7
      /\ \A j \in 0 .. 7 : p[j] \in Limb
  BY DEF Arrays
<1>2. Holds(u, 4)
  BY <1>1 DEF From, Holds
<1> HIDE DEF u
<1>3. /\ Holds(s.d, 4) /\ DOMAIN s.d = 0 .. 3 /\ s.c \in Limb
      /\ Val(s.d, 4) + Power(4) * s.c = Val(u, 4) + b * Val(ad, 4)
  <2> DEFINE n == 4
  <2>1. n \in Nat /\ Holds(u, n) /\ Holds(ad, n) /\ n - 1 = 3
    BY <1>2
  <2> HIDE DEF n
  <2>2. LET y == Row(u, ad, b, n)
        IN  /\ Holds(y.d, n) /\ DOMAIN y.d = 0 .. n - 1 /\ y.c \in Limb
            /\ Val(y.d, n) + Power(n) * y.c = Val(u, n) + b * Val(ad, n)
    BY <2>1, RowIs
  <2> QED
    BY <2>1, <2>2 DEF n
<1> HIDE DEF s
<1>4. DOMAIN q = 0 .. 4 /\ Holds(q, 4 + 1) /\ Holds(q, 4) /\ q[4] = s.c /\ \A j \in 0 .. 3 : q[j] = s.d[j]
  BY <1>3 DEF Holds
<1>5. RowU256(ad, b, i, p) = Into(p, i, q)
  <2> DEFINE y == Into(p, i, s.d)   z == [j \in {0} |-> s.c]
             r == Into(y, i + 4, z)   f == Into(p, i, q)
  <2>1. DOMAIN y = 0 .. 7 /\ DOMAIN r = 0 .. 7 /\ DOMAIN f = 0 .. 7
    BY <1>1 DEF Into
  <2>2. \A j \in 0 .. 7 : r[j] = f[j]
    <3> TAKE j \in 0 .. 7
    <3>1. r[j] = IF j - (i + 4) = 0 THEN s.c ELSE y[j]
      BY <2>1 DEF Into
    <3>2. y[j] = IF j - i \in 0 .. 3 THEN s.d[j - i] ELSE p[j]
      BY <1>1, <1>3 DEF Into
    <3>3. f[j] = IF j - i \in 0 .. 4 THEN q[j - i] ELSE p[j]
      BY <1>1, <1>4 DEF Into
    <3> HIDE DEF r, y, f, q
    <3> QED
      BY <1>1, <1>4, <3>1, <3>2, <3>3
  <2>3. r = [j \in 0 .. 7 |-> r[j]] /\ f = [j \in 0 .. 7 |-> f[j]]
    BY <2>1 DEF Into
  <2>4. RowU256(ad, b, i, p) = r
    BY DEF RowU256, s, u
  <2> HIDE DEF r, f
  <2>5. r = f
    BY <2>2, <2>3
  <2> QED
    BY <2>4, <2>5 DEF f
<1> HIDE DEF q
<1> DEFINE h == b * Val(ad, 4)
<1>6. h \in Int
  <2>1. Val(ad, 4) \in Int /\ b \in Int
    BY <1>1, ValRange, Base DEF Limb
  <2> QED
    BY <2>1
<1>7. Val(q, 4 + 1) = Val(u, 4) + h
  <2>1. Val(q, 4 + 1) = Val(q, 4) + Power(4) * q[4]
    BY <1>1, <1>4, ValStep
  <2>2. Val(q, 4) = Val(s.d, 4)
    BY <1>1, <1>4, ValSame
  <2> HIDE DEF h
  <2> QED
    BY <1>3, <1>4, <2>1, <2>2 DEF h
<1>8. /\ Into(p, i, q) \in Arrays(8)
      /\ Val(Into(p, i, q), i + 1 + 4) = Val(p, i + 4) + Power(i) * h
  <2> DEFINE al == 4   m == 8
  <2>1. /\ al \in Nat /\ m \in Nat /\ i \in Nat /\ i + al + 1 <= m /\ p \in Arrays(m)
        /\ DOMAIN q = 0 .. al /\ Holds(q, al + 1) /\ Val(q, al + 1) = Val(From(p, i, al), al) + h
    BY <1>1, <1>4, <1>7 DEF u
  <2> HIDE DEF al, m, h
  <2>2. /\ Into(p, i, q) \in Arrays(m)
        /\ Val(Into(p, i, q), i + 1 + al) = Val(p, i + al) + Power(i) * h
    BY <1>6, <2>1, RowInto DEF h
  <2> QED
    BY <2>2 DEF al, m
<1> QED
  BY <1>5, <1>8

MulU256Loop(ad, bd, c) ==
  /\ c[0] = Zeros(8)
  /\ \A k \in 1 .. 4 : c[k] = RowU256(ad, bd[k - 1], k - 1, c[k - 1])
  /\ \A k \in 0 .. 4 : c[k] \in Arrays(8)
  /\ MulU256(ad, bd) = c[4]

(* The recursive function of MulU256 exists and yields arrays. *)
LEMMA MulU256Loops ==
  ASSUME NEW ad, NEW bd, Holds(ad, 4), Holds(bd, 4)
  PROVE  \E c : MulU256Loop(ad, bd, c)
<1> DEFINE Body(c) == [i \in 0 .. 4 |-> IF i = 0 THEN Zeros(8) ELSE LET p == c[i - 1]
                              q == Row(From(p, i - 1, 4), ad, bd[i - 1], 4)
                          IN  Into(Into(p, i - 1, q.d), i + 3, [j \in {0} |-> q.c])]
           C == CHOOSE c : c = Body(c)
           S == Arrays(8)
           G == [k \in 1 .. 4 |-> [p \in S |-> RowU256(ad, bd[k - 1], k - 1, p)]]
<1>1. MulU256(ad, bd) = C[4]
  BY DEF MulU256
<1>2. \A k \in 1 .. 4, p \in S : G[k][p] = RowU256(ad, bd[k - 1], k - 1, p) /\ G[k][p] \in S
  <2>1. \A k \in 1 .. 4 : bd[k - 1] \in Limb /\ k - 1 \in 0 .. 3
    BY DEF Holds
  <2> QED
    BY <2>1, RowU256Is
<1>3. Steps(4, S, Zeros(8), G)
  <2>1. Zeros(8) \in S
    BY ZerosAre
  <2> QED
    BY <1>2, <2>1 DEF Steps
<1>4. PICK g \in [0 .. 4 -> S] : Follows(g, 4, Zeros(8), G)
  <2> HIDE DEF G, S
  <2> QED
    BY <1>3, Recursion
<1>5. g[0] = Zeros(8) /\ \A k \in 1 .. 4 : g[k] = RowU256(ad, bd[k - 1], k - 1, g[k - 1])
  <2>1. \A k \in 1 .. 4 : g[k - 1] \in S
    OBVIOUS
  <2> HIDE DEF G, S
  <2> QED
    BY <1>2, <1>4, <2>1 DEF Follows
<1>6. g = Body(g)
  <2>1. \A k \in 1 .. 4 : (k - 1) + 4 = k + 3
    OBVIOUS
  <2> QED
    BY <1>5, <2>1 DEF RowU256
<1>7. C = Body(C)
  <2> HIDE DEF Body
  <2> QED
    BY <1>6
<1>8. C[0] = Zeros(8) /\ \A k \in 1 .. 4 : C[k] = RowU256(ad, bd[k - 1], k - 1, C[k - 1])
  <2> HIDE DEF C
  <2> QED
    <3>1. \A k \in 1 .. 4 : (k - 1) + 4 = k + 3
      OBVIOUS
    <3> QED
      BY <1>7, <3>1 DEF RowU256
<1>9. \A k \in 0 .. 4 : C[k] \in S
  <2> HIDE DEF C, G, S
  <2>1. Takes(C, 4, S, Zeros(8), G)
    BY <1>2, <1>8 DEF Takes
  <2> QED
    BY <1>3, <2>1, Iterates
<1> QED
  <2> HIDE DEF C
  <2> QED
    BY <1>1, <1>8, <1>9 DEF MulU256Loop

(* ll_u256_mul multiplies. *)
LEMMA MulU256Is ==
  ASSUME NEW ad, NEW bd, Holds(ad, 4), Holds(bd, 4)
  PROVE  MulU256(ad, bd) \in Arrays(8) /\ Val(MulU256(ad, bd), 8) = Val(ad, 4) * Val(bd, 4)
<1>1. PICK c : MulU256Loop(ad, bd, c)
  BY MulU256Loops
<1> DEFINE T == {k \in 0 .. 4 : Val(c[k], k + 4) = Val(ad, 4) * Val(bd, k)}
<1>2. (\A k \in 0 .. 4 : c[k] \in Arrays(8)) /\ 4 \in Nat /\ 8 \in Nat
  BY <1>1 DEF MulU256Loop
<1>3. 0 \in T
  <2>1. \A j \in 0 .. 4 - 1 : Zeros(4)[j] = c[0][j]
    BY <1>1 DEF MulU256Loop, Zeros
  <2>2. Val(c[0], 4) = 0
    BY <1>2, <2>1, ZerosAre, ValSame
  <2>3. Val(ad, 4) * Val(bd, 0) = 0
    BY <1>2, ValZero, ValRange
  <2> QED
    BY <2>2, <2>3
<1>4. ASSUME NEW k \in 0 .. 4 - 1, k \in T PROVE k + 1 \in T
  <2>1. /\ k + 1 \in 1 .. 4 /\ (k + 1) - 1 = k /\ k \in 0 .. 3 /\ c[k] \in Arrays(8) /\ bd[k] \in Limb
        /\ k \in Nat /\ Holds(bd, k + 1) /\ Holds(bd, k)
    BY <1>2 DEF Holds
  <2>2. c[k + 1] = RowU256(ad, bd[k], k, c[k])
    BY <1>1, <2>1 DEF MulU256Loop
  <2>3. Val(c[k + 1], k + 1 + 4) = Val(c[k], k + 4) + Power(k) * (bd[k] * Val(ad, 4))
    BY <2>1, <2>2, RowU256Is
  <2>4. Val(c[k], k + 4) = Val(ad, 4) * Val(bd, k)
    BY <1>4
  <2>5. Val(bd, k + 1) = Val(bd, k) + Power(k) * bd[k]
    BY <2>1, ValStep
  <2> DEFINE x == Val(ad, 4)  y == Val(bd, k)  p == Power(k)  b == bd[k]
  <2>6. x \in Int /\ y \in Int /\ p \in Int /\ b \in Int
    BY <1>2, <2>1, ValRange, PowerStep, Base DEF Limb
  <2> HIDE DEF x, y, p, b
  <2>7. x * (y + p * b) = x * y + p * (b * x)
    BY <2>6
  <2>8. Val(c[k + 1], k + 1 + 4) = Val(ad, 4) * Val(bd, k + 1)
    BY <2>3, <2>4, <2>5, <2>7 DEF x, y, p, b
  <2> QED
    BY <2>1, <2>8
<1>5. 4 \in T
  <2>1. 0 .. 4 \subseteq T
    <3> HIDE DEF T
    <3> QED
      BY <1>3, <1>4, InductionTo
  <2> QED
    BY <2>1
<1>6. MulU256(ad, bd) = c[4] /\ c[4] \in Arrays(8)
  BY <1>1, <1>2 DEF MulU256Loop
<1>7. Val(c[4], 4 + 4) = Val(ad, 4) * Val(bd, 4) /\ 4 + 4 = 8
  BY <1>5
<1> QED
  BY <1>6, <1>7

(* Row i of ll_u256_mullo, which ends at the fourth limb. *)
RowLo(ad, b, i, p) == Into(p, i, Row(From(p, i, 4 - i), ad, b, 4 - i).d)

(* It adds a multiple of the factor at place i, up to a multiple of B^4.   *)
LEMMA RowLoIs ==
  ASSUME NEW ad, Holds(ad, 4), NEW b \in Limb, NEW i \in 0 .. 3, NEW p \in Arrays(4)
  PROVE  /\ RowLo(ad, b, i, p) \in Arrays(4)
         /\ \E e \in Int : Val(RowLo(ad, b, i, p), 4) + Power(4) * e
                             = Val(p, 4) + Power(i) * (b * Val(ad, 4))
<1> DEFINE n == 4 - i   u == From(p, i, n)   s == Row(u, ad, b, n)   r == Into(p, i, s.d)
           m == 4
<1>1. /\ n \in Nat /\ i \in Nat /\ i + n = m /\ n + i = m /\ i + n + 0 = m /\ n \in 1 .. 4 /\ m \in Nat
      /\ DOMAIN p = 0 .. m - 1 /\ \A j \in 0 .. m - 1 : p[j] \in Limb
  BY DEF Arrays
<1>2. Holds(ad, m)
  OBVIOUS
<1>3. r = RowLo(ad, b, i, p)
  BY DEF RowLo
<1> HIDE DEF n, m
<1>4. Holds(u, n) /\ Holds(ad, n) /\ Holds(ad, n + i) /\ Holds(p, i) /\ Holds(p, i + n)
  BY <1>1, <1>2 DEF From, Holds
<1> HIDE DEF u
<1>5. /\ Holds(s.d, n) /\ DOMAIN s.d = 0 .. n - 1 /\ s.c \in Limb
      /\ Val(s.d, n) + Power(n) * s.c = Val(u, n) + b * Val(ad, n)
  BY <1>1, <1>4, RowIs
<1> HIDE DEF s
<1>6. r \in Arrays(m)
  <2>1. r = [j \in 0 .. m - 1 |-> r[j]]
    BY <1>1 DEF Into
  <2>2. \A j \in 0 .. m - 1 : r[j] \in Limb
    BY <1>1, <1>5 DEF Into, Holds
  <2> HIDE DEF r
  <2> QED
    BY <2>1, <2>2 DEF Arrays
<1>7. Val(r, m) = Val(p, i) + Power(i) * Val(s.d, n)
  <2>1. Fits(s.d, p, i, n, 0)
    <3>1. i + n + 0 = m
      BY <1>1
    <3> QED
      BY <1>1, <1>5, <3>1 DEF Fits, Holds
  <2>2. Val(r, i + n + 0) = Val(p, i) + Power(i) * (Val(s.d, n) + Power(n) * Val(From(p, i + n, 0), 0))
    <3> HIDE DEF r
    <3> QED
      BY <1>1, <2>1, IntoIs DEF r
  <2>3. Val(From(p, i + n, 0), 0) = 0 /\ Val(s.d, n) \in Int /\ Power(n) \in Int
    BY <1>1, <1>5, ValZero, ValRange, PowerStep
  <2>4. Val(s.d, n) + Power(n) * 0 = Val(s.d, n)
    BY <2>3
  <2> HIDE DEF r
  <2> QED
    BY <1>1, <2>2, <2>3, <2>4
<1> HIDE DEF r
<1>8. Val(p, m) = Val(p, i) + Power(i) * Val(u, n)
  BY <1>1, <1>4, ValSplit DEF u
<1>9. Val(ad, m) = Val(ad, n) + Power(n) * Val(From(ad, n, i), i)
  BY <1>1, <1>4, ValSplit
<1>10. Power(m) = Power(i) * Power(n)
  BY <1>1, PowerSum
<1>11. Holds(From(ad, n, i), i)
  BY <1>1, <1>4 DEF From, Holds
<1> DEFINE pi == Power(i)  pn == Power(n)  pl == Val(p, i)  q == Val(s.d, n)  v == Val(u, n)
           a0 == Val(ad, n)  a1 == Val(From(ad, n, i), i)  c == s.c
<1>12. /\ pi \in Int /\ pn \in Int /\ pl \in Int /\ q \in Int /\ v \in Int /\ a0 \in Int /\ a1 \in Int
       /\ c \in Int /\ b \in Int
  <2>1. pi \in Int /\ pn \in Int
    <3>1. i \in Nat /\ n \in Nat
      BY <1>1
    <3>2. Power(i) \in Nat /\ Power(n) \in Nat
      BY <3>1, PowerStep
    <3> QED
      BY <3>2
  <2>2. pl \in Int /\ q \in Int /\ v \in Int /\ a0 \in Int /\ a1 \in Int
    BY <1>1, <1>4, <1>5, <1>11, ValRange
  <2>3. c \in Int /\ b \in Int
    BY <1>5, Base DEF Limb
  <2> QED
    BY <2>1, <2>2, <2>3
<1>13. /\ Val(r, m) = pl + pi * q /\ Val(p, m) = pl + pi * v /\ Val(ad, m) = a0 + pn * a1
       /\ Power(m) = pi * pn /\ q + pn * c = v + b * a0
  BY <1>5, <1>7, <1>8, <1>9, <1>10
<1> HIDE DEF pi, pn, pl, q, v, a0, a1, c
<1>14. (pl + pi * q) + (pi * pn) * (c + b * a1) = (pl + pi * v) + pi * (b * (a0 + pn * a1))
  <2>1. q = v + b * a0 - pn * c
    <3>1. b * a0 \in Int /\ pn * c \in Int
      BY <1>12
    <3> QED
      BY <1>12, <1>13, <3>1
  <2>2. (pl + pi * (v + b * a0 - pn * c)) + (pi * pn) * (c + b * a1)
          = (pl + pi * v) + pi * (b * (a0 + pn * a1))
    BY <1>12
  <2> QED
    BY <2>1, <2>2
<1>15. c + b * a1 \in Int
  BY <1>12
<1>16. Val(r, m) + Power(m) * (c + b * a1) = Val(p, m) + pi * (b * Val(ad, m))
  BY <1>13, <1>14
<1>17. \E e \in Int : Val(r, m) + Power(m) * e = Val(p, m) + Power(i) * (b * Val(ad, m))
  BY <1>15, <1>16 DEF pi
<1> QED
  BY <1>3, <1>6, <1>17 DEF m

MulLoLoop(ad, bd, c) ==
  /\ c[0] = Zeros(4)
  /\ \A k \in 1 .. 4 : c[k] = RowLo(ad, bd[k - 1], k - 1, c[k - 1])
  /\ \A k \in 0 .. 4 : c[k] \in Arrays(4)
  /\ MulLoU256(ad, bd) = c[4]

(* The recursive function of MulLoU256 exists and yields arrays. *)
LEMMA MulLoLoops ==
  ASSUME NEW ad, NEW bd, Holds(ad, 4), Holds(bd, 4)
  PROVE  \E c : MulLoLoop(ad, bd, c)
<1> DEFINE Body(c) == [i \in 0 .. 4 |->
               IF i = 0 THEN Zeros(4)
               ELSE Into(c[i - 1], i - 1, Row(From(c[i - 1], i - 1, 5 - i), ad, bd[i - 1], 5 - i).d)]
           C == CHOOSE c : c = Body(c)
           S == Arrays(4)
           G == [k \in 1 .. 4 |-> [p \in S |-> RowLo(ad, bd[k - 1], k - 1, p)]]
<1>1. MulLoU256(ad, bd) = C[4]
  BY DEF MulLoU256
<1>2. \A k \in 1 .. 4, p \in S : G[k][p] = RowLo(ad, bd[k - 1], k - 1, p) /\ G[k][p] \in S
  <2>1. \A k \in 1 .. 4 : bd[k - 1] \in Limb /\ k - 1 \in 0 .. 3
    BY DEF Holds
  <2> QED
    BY <2>1, RowLoIs
<1>3. Steps(4, S, Zeros(4), G)
  <2>1. Zeros(4) \in S
    BY ZerosAre
  <2> QED
    BY <1>2, <2>1 DEF Steps
<1>4. PICK g \in [0 .. 4 -> S] : Follows(g, 4, Zeros(4), G)
  <2> HIDE DEF G, S
  <2> QED
    BY <1>3, Recursion
<1>5. g[0] = Zeros(4) /\ \A k \in 1 .. 4 : g[k] = RowLo(ad, bd[k - 1], k - 1, g[k - 1])
  <2>1. \A k \in 1 .. 4 : g[k - 1] \in S
    OBVIOUS
  <2> HIDE DEF G, S
  <2> QED
    BY <1>2, <1>4, <2>1 DEF Follows
<1>6. g = Body(g)
  <2>1. \A k \in 1 .. 4 : 4 - (k - 1) = 5 - k
    OBVIOUS
  <2> QED
    BY <1>5, <2>1 DEF RowLo
<1>7. C = Body(C)
  <2> HIDE DEF Body
  <2> QED
    BY <1>6
<1>8. C[0] = Zeros(4) /\ \A k \in 1 .. 4 : C[k] = RowLo(ad, bd[k - 1], k - 1, C[k - 1])
  <2> HIDE DEF C
  <2> QED
    <3>1. \A k \in 1 .. 4 : 4 - (k - 1) = 5 - k
      OBVIOUS
    <3> QED
      BY <1>7, <3>1 DEF RowLo
<1>9. \A k \in 0 .. 4 : C[k] \in S
  <2> HIDE DEF C, G, S
  <2>1. Takes(C, 4, S, Zeros(4), G)
    BY <1>2, <1>8 DEF Takes
  <2> QED
    BY <1>3, <2>1, Iterates
<1> QED
  <2> HIDE DEF C
  <2> QED
    BY <1>1, <1>8, <1>9 DEF MulLoLoop

(* ll_u256_mullo multiplies modulo B^4. *)
LEMMA MulLoU256Is ==
  ASSUME NEW ad, NEW bd, Holds(ad, 4), Holds(bd, 4)
  PROVE  Val(MulLoU256(ad, bd), 4) = (Val(ad, 4) * Val(bd, 4)) % Power(4)
<1>1. PICK c : MulLoLoop(ad, bd, c)
  BY MulLoLoops
<1> DEFINE T == {k \in 0 .. 4 : \E e \in Int : Val(c[k], 4) + Power(4) * e = Val(ad, 4) * Val(bd, k)}
<1>2. (\A k \in 0 .. 4 : c[k] \in Arrays(4) /\ Holds(c[k], 4)) /\ 4 \in Nat
  BY <1>1 DEF MulLoLoop, Arrays, Holds
<1>3. 0 \in T
  <2>1. Val(c[0], 4) = 0
    BY <1>1, <1>2, ZerosAre DEF MulLoLoop
  <2>2. Val(ad, 4) * Val(bd, 0) = 0 /\ Power(4) * 0 = 0
    BY <1>2, ValZero, ValRange, PowerStep
  <2> QED
    BY <2>1, <2>2
<1>4. ASSUME NEW k \in 0 .. 4 - 1, k \in T PROVE k + 1 \in T
  <2>1. /\ k + 1 \in 1 .. 4 /\ (k + 1) - 1 = k /\ k \in 0 .. 3 /\ c[k] \in Arrays(4) /\ bd[k] \in Limb
        /\ k \in Nat /\ Holds(bd, k + 1) /\ Holds(bd, k)
    BY <1>2 DEF Holds
  <2>2. c[k + 1] = RowLo(ad, bd[k], k, c[k])
    BY <1>1, <2>1 DEF MulLoLoop
  <2>3. PICK e \in Int : Val(c[k + 1], 4) + Power(4) * e = Val(c[k], 4) + Power(k) * (bd[k] * Val(ad, 4))
    BY <2>1, <2>2, RowLoIs
  <2>4. PICK f \in Int : Val(c[k], 4) + Power(4) * f = Val(ad, 4) * Val(bd, k)
    BY <1>4
  <2>5. Val(bd, k + 1) = Val(bd, k) + Power(k) * bd[k]
    BY <2>1, ValStep
  <2> DEFINE x == Val(ad, 4)  y == Val(bd, k)  p == Power(k)  b == bd[k]  q == Power(4)
             z == Val(c[k], 4)   w == Val(c[k + 1], 4)
  <2>6. x \in Int /\ y \in Int /\ p \in Int /\ b \in Int /\ q \in Int /\ z \in Int /\ w \in Int
    <3>1. k + 1 \in 0 .. 4 /\ k \in 0 .. 4
      BY <2>1
    <3>2. Holds(c[k], 4) /\ Holds(c[k + 1], 4)
      BY <1>2, <3>1
    <3>3. x \in Int /\ y \in Int /\ z \in Int /\ w \in Int
      BY <1>2, <2>1, <3>2, ValRange
    <3>4. p \in Int /\ b \in Int /\ q \in Int
      BY <1>2, <2>1, PowerStep, Base DEF Limb
    <3> QED
      BY <3>3, <3>4
  <2>7. w + q * e = z + p * (b * x) /\ z + q * f = x * y
    BY <2>3, <2>4
  <2> HIDE DEF x, y, p, b, q, z, w
  <2>8. x * (y + p * b) = x * y + p * (b * x) /\ q * (e + f) = q * e + q * f
        /\ q * e \in Int /\ q * f \in Int /\ p * (b * x) \in Int /\ x * y \in Int
    BY <2>6
  <2>9. w + q * (e + f) = x * (y + p * b)
    BY <2>6, <2>7, <2>8
  <2>10. e + f \in Int /\ Val(c[k + 1], 4) + Power(4) * (e + f) = Val(ad, 4) * Val(bd, k + 1)
    BY <2>5, <2>9 DEF x, y, p, b, q, w
  <2> QED
    BY <2>1, <2>10
<1>5. 4 \in T
  <2>1. 0 .. 4 \subseteq T
    <3> HIDE DEF T
    <3> QED
      BY <1>3, <1>4, InductionTo
  <2> QED
    BY <2>1
<1>6. PICK e \in Int : Val(c[4], 4) + Power(4) * e = Val(ad, 4) * Val(bd, 4)
  BY <1>5
<1>7. Val(c[4], 4) \in Nat /\ Val(c[4], 4) < Power(4) /\ Power(4) \in Nat \ {0}
      /\ Val(ad, 4) \in Int /\ Val(bd, 4) \in Int
  BY <1>2, ValRange, PowerStep
<1>8. MulLoU256(ad, bd) = c[4]
  BY <1>1 DEF MulLoLoop
<1> DEFINE v == Val(c[4], 4)  q == Power(4)  z == Val(ad, 4) * Val(bd, 4)
<1>9. v \in 0 .. q - 1 /\ q \in Nat \ {0} /\ z \in Int /\ z = q * e + v
  <2>1. z \in Int
    BY <1>7
  <2>2. q * e \in Int /\ v + q * e = z
    BY <1>6, <1>7
  <2> HIDE DEF v, q, z
  <2> QED
    BY <1>7, <2>1, <2>2 DEF v, q
<1> HIDE DEF v, q, z
<1>10. z % q = v
  BY <1>9, DivModIs
<1> QED
  BY <1>8, <1>10 DEF z, q, v

(* The upper half of a product is a limb. *)
LEMMA HighFits ==
  ASSUME NEW z \in Nat, z <= (B - 1) * (B - 1)
  PROVE  Hi(z) \in Limb
<1> DEFINE s == (B - 1) * (B - 1)   h == Hi(z)
<1>1. Lo(z) \in Limb /\ h \in Nat /\ z = B * h + Lo(z) /\ B \in Nat /\ B >= 1 /\ 0 \in Limb
  BY LowHigh, Base DEF Limb
<1>2. z <= s /\ s \in Int /\ Lo(z) \in Nat /\ B * h \in Int
  BY <1>1 DEF Limb
<1> HIDE DEF h
<1>3. B * h <= 0 + (B - 1) * (B - 1) + (B - 1)
  <2> HIDE DEF s
  <2>1. B * h <= 0 + s + (B - 1)
    BY <1>1, <1>2
  <2> QED
    BY <2>1 DEF s
<1>4. h \in Limb
  BY <1>1, <1>3, CarryFits
<1> QED
  BY <1>4 DEF h

(* The number that four limbs stand for, limb by limb. *)
LEMMA FourLimbs ==
  ASSUME NEW x, Holds(x, 4)
  PROVE  Val(x, 4) = x[0] + B * (x[1] + B * (x[2] + B * x[3]))
<1> DEFINE n == 4
<1>1. n \in Nat /\ Holds(x, n)
  OBVIOUS
<1>2. PICK v \in [0 .. n -> Int] : Horner(v, x, n)
  <2> HIDE DEF n
  <2> QED
    BY <1>1, ValFunction
<1>3. v[0] = 0 /\ Val(x, 4) = v[4] /\ \A k \in 1 .. 4 : v[k] = x[4 - k] + B * v[k - 1]
  BY <1>2 DEF Horner
<1>4. x[3] \in Int /\ B \in Int
  BY Base DEF Holds, Limb
<1>5. v[1] = x[3]
  BY <1>3, <1>4
<1>6. v[2] = x[2] + B * v[1] /\ v[3] = x[1] + B * v[2] /\ v[4] = x[0] + B * v[3]
  BY <1>3
<1> QED
  BY <1>3, <1>5, <1>6

(* The same for eight limbs. *)
LEMMA EightLimbs ==
  ASSUME NEW x, Holds(x, 8)
  PROVE  Val(x, 8) =
           x[0] + B * (x[1] + B * (x[2] + B * (x[3] + B * (x[4] + B * (x[5] + B * (x[6] + B * x[7]))))))
<1> DEFINE n == 8
<1>1. n \in Nat /\ Holds(x, n)
  OBVIOUS
<1>2. PICK v \in [0 .. n -> Int] : Horner(v, x, n)
  <2> HIDE DEF n
  <2> QED
    BY <1>1, ValFunction
<1>3. v[0] = 0 /\ Val(x, 8) = v[8] /\ \A k \in 1 .. 8 : v[k] = x[8 - k] + B * v[k - 1]
  BY <1>2 DEF Horner
<1>4. x[7] \in Int /\ B \in Int
  BY Base DEF Holds, Limb
<1>5. v[1] = x[7]
  BY <1>3, <1>4
<1>6. /\ v[2] = x[6] + B * v[1] /\ v[3] = x[5] + B * v[2] /\ v[4] = x[4] + B * v[3]
      /\ v[5] = x[3] + B * v[4] /\ v[6] = x[2] + B * v[5] /\ v[7] = x[1] + B * v[6]
      /\ v[8] = x[0] + B * v[7]
  BY <1>3
<1> QED
  BY <1>3, <1>5, <1>6

(* The products of different limbs of a square, each once. *)
Mixed(a, b, c, d) == B * (a * b + B * (a * c + B * (a * d + b * c + B * (b * d + B * (c * d)))))

(* The six products lose no carry, and limb 7 is left 0. *)
LEMMA CrossIs ==
  ASSUME NEW ad, Holds(ad, 4)
  PROVE  /\ Cross(ad) \in Arrays(8) /\ Cross(ad)[7] = 0
         /\ Val(Cross(ad), 8) = Mixed(ad[0], ad[1], ad[2], ad[3])
<1> DEFINE P(i, j) == ad[i] * ad[j]
           r2  == Wrap(Hi(P(0, 1)) + Lo(P(0, 2)))
           r3  == Wrap(Hi(P(0, 2)) + Bit(r2 < Lo(P(0, 2))))
           r3a == Wrap(r3 + Lo(P(0, 3)))
           r4  == Wrap(Hi(P(0, 3)) + Bit(r3a < Lo(P(0, 3))))
           r3b == Wrap(r3a + Lo(P(1, 2)))
           hi  == Wrap(Hi(P(1, 2)) + Bit(r3b < Lo(P(1, 2))))
           r4a == Wrap(r4 + hi)
           r4b == Wrap(r4a + Lo(P(1, 3)))
           r5  == Wrap(Hi(P(1, 3)) + Bit(r4a < hi) + Bit(r4b < Lo(P(1, 3))))
           r5a == Wrap(r5 + Lo(P(2, 3)))
           r6  == Wrap(Hi(P(2, 3)) + Bit(r5a < Lo(P(2, 3))))
           x   == [i \in 0 .. 7 |-> CASE i = 1 -> Lo(P(0, 1))
                                      [] i = 2 -> r2
                                      [] i = 3 -> r3b
                                      [] i = 4 -> r4b
                                      [] i = 5 -> r5a
                                      [] i = 6 -> r6
                                      [] OTHER -> 0]
<1>1. Cross(ad) = x
  BY DEF Cross
<1>2. /\ x[0] = 0 /\ x[1] = Lo(P(0, 1)) /\ x[2] = r2 /\ x[3] = r3b /\ x[4] = r4b /\ x[5] = r5a
      /\ x[6] = r6 /\ x[7] = 0
  <2> HIDE DEF r2, r3, r3a, r4, r3b, hi, r4a, r4b, r5, r5a, r6, P
  <2> QED
    OBVIOUS
<1>3. \A i \in 0 .. 7 : x[i] \in {x[0], x[1], x[2], x[3], x[4], x[5], x[6], x[7]}
  <2> HIDE DEF x
  <2> QED
    OBVIOUS
<1>4. DOMAIN x = 0 .. 7 /\ x = [i \in 0 .. 7 |-> x[i]]
  <2> HIDE DEF r2, r3, r3a, r4, r3b, hi, r4a, r4b, r5, r5a, r6, P
  <2> QED
    OBVIOUS
<1> HIDE DEF x
<1>5. ASSUME NEW i \in 0 .. 3, NEW j \in 0 .. 3
      PROVE  P(i, j) \in Nat /\ P(i, j) <= (B - 1) * (B - 1)
  <2>1. ad[i] \in Limb /\ ad[j] \in Limb
    BY DEF Holds
  <2> QED
    BY <2>1, ProductRange
<1> DEFINE p01 == P(0, 1)  p02 == P(0, 2)  p03 == P(0, 3)  p12 == P(1, 2)  p13 == P(1, 3)  p23 == P(2, 3)
           s == (B - 1) * (B - 1)
<1>6. /\ p01 \in Nat /\ p01 <= s /\ p02 \in Nat /\ p02 <= s /\ p03 \in Nat /\ p03 <= s
      /\ p12 \in Nat /\ p12 <= s /\ p13 \in Nat /\ p13 <= s /\ p23 \in Nat /\ p23 <= s
  BY <1>5
<1>7. /\ r3 = MulOut(p02, Hi(p01)) /\ r2 = Wrap(Hi(p01) + Lo(p02))
      /\ r4 = MulOut(p03, r3) /\ r3a = Wrap(r3 + Lo(p03))
      /\ hi = MulOut(p12, r3a) /\ r3b = Wrap(r3a + Lo(p12))
      /\ r5 = RowOut(r4, p13, hi) /\ r4b = Wrap(Wrap(r4 + hi) + Lo(p13))
      /\ r6 = MulOut(p23, r5) /\ r5a = Wrap(r5 + Lo(p23))
  BY DEF MulOut, RowOut
<1>8. x[1] = Lo(p01)
  BY <1>2
<1> DEFINE h == Hi(p01)
<1>9. h \in Limb /\ Lo(p01) \in Limb /\ p01 = B * h + Lo(p01)
  <2> HIDE DEF p01
  <2> QED
    BY <1>6, HighFits, LowHigh DEF s
<1> HIDE DEF h, p01, p02, p03, p12, p13, p23, r2, r3, r3a, r4, r3b, hi, r4a, r4b, r5, r5a, r6
<1>10. r3 \in Limb /\ r2 \in Limb /\ r2 + B * r3 = p02 + h
  BY <1>6, <1>7, <1>9, MulOutIs DEF s, h
<1>11. r4 \in Limb /\ r3a \in Limb /\ r3a + B * r4 = p03 + r3
  BY <1>6, <1>7, <1>10, MulOutIs DEF s
<1>12. hi \in Limb /\ r3b \in Limb /\ r3b + B * hi = p12 + r3a
  BY <1>6, <1>7, <1>11, MulOutIs DEF s
<1>13. r5 \in Limb /\ r4b \in Limb /\ r4b + B * r5 = r4 + p13 + hi
  BY <1>6, <1>7, <1>11, <1>12, RowOutIs DEF s
<1>14. r6 \in Limb /\ r5a \in Limb /\ r5a + B * r6 = p23 + r5
  BY <1>6, <1>7, <1>13, MulOutIs DEF s
<1>15. x \in Arrays(8) /\ Holds(x, 8)
  <2>1. 0 \in Limb
    BY Base DEF Limb
  <2>2. \A i \in 0 .. 7 : x[i] \in Limb
    BY <1>2, <1>3, <1>8, <1>9, <1>10, <1>12, <1>13, <1>14, <2>1
  <2>3. 8 - 1 = 7
    OBVIOUS
  <2> QED
    BY <1>4, <2>2, <2>3 DEF Arrays, Holds
<1>16. Val(x, 8) = 0 + B * (Lo(p01) + B * (r2 + B * (r3b + B * (r4b + B * (r5a + B * (r6 + B * 0))))))
  BY <1>2, <1>8, <1>15, EightLimbs
<1> DEFINE l == Lo(p01)
<1>17. /\ l \in Int /\ h \in Int /\ r2 \in Int /\ r3 \in Int /\ r3a \in Int /\ r4 \in Int /\ r3b \in Int
       /\ hi \in Int /\ r4b \in Int /\ r5 \in Int /\ r5a \in Int /\ r6 \in Int /\ B \in Int
       /\ p01 \in Int /\ p02 \in Int /\ p03 \in Int /\ p12 \in Int /\ p13 \in Int /\ p23 \in Int
  BY <1>6, <1>9, <1>10, <1>11, <1>12, <1>13, <1>14, Base DEF Limb
<1>18. l + B * h = p01
  BY <1>9, <1>17
<1> HIDE DEF l
<1> DEFINE v6 == r6   v5 == r5a + B * v6   v4 == r4b + B * v5   v3 == r3b + B * v4   v2 == r2 + B * v3
           v1 == l + B * v2
           m5 == p23   m4 == p13 + B * m5   m3 == p03 + p12 + B * m4   m2 == p02 + B * m3
<1>19. v5 = m5 + r5
  BY <1>14, <1>17
<1>20. v4 = m4 + r4 + hi
  <2>1. B * (m5 + r5) = B * m5 + B * r5 /\ B * m5 \in Int /\ B * r5 \in Int /\ m5 \in Int
    BY <1>17
  <2> HIDE DEF v5, m5
  <2> QED
    BY <1>13, <1>17, <1>19, <2>1
<1>21. v3 = m3 + r3
  <2>1. m4 \in Int
    BY <1>17
  <2> HIDE DEF m4, v4
  <2>2. B * (m4 + r4 + hi) = B * m4 + B * r4 + B * hi /\ B * m4 \in Int /\ B * r4 \in Int /\ B * hi \in Int
    BY <1>17, <2>1
  <2> QED
    BY <1>11, <1>12, <1>17, <1>20, <2>2
<1>22. v2 = m2 + h
  <2>1. m3 \in Int
    BY <1>17
  <2> HIDE DEF m3, v3
  <2>2. B * (m3 + r3) = B * m3 + B * r3 /\ B * m3 \in Int /\ B * r3 \in Int
    BY <1>17, <2>1
  <2> QED
    BY <1>10, <1>17, <1>21, <2>2
<1>23. v1 = p01 + B * m2
  <2>1. m2 \in Int
    BY <1>17
  <2> HIDE DEF m2, v2
  <2>2. B * (m2 + h) = B * m2 + B * h /\ B * m2 \in Int /\ B * h \in Int
    BY <1>17, <2>1
  <2> QED
    BY <1>17, <1>18, <1>22, <2>2
<1>24. Val(x, 8) = B * v1
  <2>1. r6 + B * 0 = r6
    BY <1>17
  <2>2. Val(x, 8) = 0 + B * v1
    BY <1>16, <2>1 DEF l
  <2>3. v1 \in Int
    BY <1>17
  <2> HIDE DEF v1
  <2> QED
    BY <1>17, <2>2, <2>3
<1>25. Val(x, 8) = Mixed(ad[0], ad[1], ad[2], ad[3])
  BY <1>23, <1>24 DEF Mixed, p01, p02, p03, p12, p13, p23
<1> QED
  BY <1>1, <1>2, <1>15, <1>25

(* A shift by one bit doubles a number whose last limb is 0. *)
LEMMA DoubledIs ==
  ASSUME NEW x \in Arrays(8), x[7] = 0
  PROVE  Doubled(x) \in Arrays(8) /\ Val(Doubled(x), 8) = 2 * Val(x, 8)
<1> DEFINE f == Doubled(x)   l == 7   n == 1
<1>1. 2^n = 2 /\ n \in 0 .. W /\ W \in Nat /\ W >= 1
  <2>1. 0 \in 0 .. W - 1 /\ W \in Nat /\ W >= 1
    BY WordAssumption
  <2>2. 2^(0 + 1) = 2 * 2^0
    BY <2>1, PowersOfTwo
  <2>3. 0 + 1 = 1 /\ 2^0 = 1
    OBVIOUS
  <2> QED
    BY <2>1, <2>2, <2>3
<1>2. /\ DOMAIN x = 0 .. 7 /\ Holds(x, 7) /\ Holds(x, 8) /\ l \in Nat /\ l + 1 = 8 /\ 0 \in Limb
      /\ \A j \in 0 .. 7 : x[j] \in Limb /\ x[j] \in Int
  <2>1. 8 - 1 = 7 /\ 0 \in Limb
    BY Base DEF Limb
  <2>2. \A j \in 0 .. 7 : x[j] \in Limb
    BY <2>1 DEF Arrays
  <2>3. \A j \in 0 .. 7 : x[j] \in Int
    BY <2>2, Base DEF Limb
  <2> QED
    BY <2>1, <2>2, <2>3 DEF Arrays, Holds
<1>3. /\ f = [j \in 0 .. 7 |-> f[j]]
      /\ \A j \in 0 .. 7 : f[j] = Wrap(2 * x[j]) + (IF j = 0 THEN 0 ELSE x[j - 1] \div 2^(W - 1))
  BY <1>2 DEF Doubled
<1> HIDE DEF f
<1>4. \A j \in 0 .. l : f[j] = Low(x, l, n, j) + High(x, n, j)
  <2> TAKE j \in 0 .. l
  <2>1. High(x, n, j) = IF j = 0 THEN 0 ELSE x[j - 1] \div 2^(W - 1)
    <3>1. (j > 0) <=> ~(j = 0)
      OBVIOUS
    <3> QED
      BY <3>1 DEF High
  <2>2. Low(x, l, n, j) = Wrap(2 * x[j])
    <3>1. CASE j < l
      <4>1. x[j] * 2^n = 2 * x[j]
        BY <1>1, <1>2
      <4> QED
        BY <3>1, <4>1 DEF Low
    <3>2. CASE ~(j < l)
      <4>1. j = 7 /\ 2 * x[j] = 0
        BY <1>2, <3>2
      <4>2. Wrap(0) = 0
        BY <1>2, WrapNear
      <4> QED
        BY <3>2, <4>1, <4>2 DEF Low
    <3> QED
      BY <3>1, <3>2
  <2> QED
    BY <1>3, <2>1, <2>2
<1>5. \A j \in 0 .. l : f[j] \in Limb
  <2>1. Holds(x, l)
    BY <1>2
  <2> HIDE DEF l, n
  <2> QED
    BY <1>1, <1>2, <1>4, <2>1, ShiftedLimb
<1>6. f \in Arrays(8) /\ Holds(f, l + 1)
  <2>1. 8 - 1 = 7
    OBVIOUS
  <2>2. f \in Arrays(8)
    BY <1>3, <1>5, <2>1 DEF Arrays
  <2> QED
    BY <1>5, <2>2 DEF Holds
<1>7. Val(f, l + 1) = 2^n * Val(x, l)
  <2>1. Holds(x, l)
    BY <1>2
  <2> HIDE DEF l, n
  <2> QED
    BY <1>1, <1>2, <1>4, <1>6, <2>1, ShiftedVal
<1>8. Val(x, 8) = Val(x, 7)
  <2> DEFINE m == 8
  <2>1. l \in Nat /\ m \in Nat /\ l <= m /\ Holds(x, l) /\ \A i \in l .. m - 1 : x[i] = 0
    BY <1>2
  <2>2. Val(x, m) = Val(x, l)
    <3> HIDE DEF l, m
    <3> QED
      BY <2>1, ValPad
  <2> QED
    BY <2>2
<1>9. Val(f, 8) = 2 * Val(x, 8)
  BY <1>1, <1>2, <1>7, <1>8
<1> QED
  BY <1>6, <1>9 DEF f

(* What the squares add to limbs 2k and 2k+1 of x, and the carry out.      *)
SqrOut(x, a, k, t) == LimbCarryOut(x[2 * k + 1], RowOut(x[2 * k], a[k] * a[k], t))

SqrLoop(ad, x, t) ==
  LET h(k) == RowOut(x[2 * k], ad[k] * ad[k], t[k])
  IN  /\ t[0] = 0
      /\ \A k \in 0 .. 3 : t[k + 1] = SqrOut(x, ad, k, t[k])
      /\ \A k \in 0 .. 4 : t[k] \in {0, 1}
      /\ SqrU256(ad) = [i \in 0 .. 7 |->
                          LET k == i \div 2
                          IN  IF i % 2 = 0 THEN Wrap(Wrap(x[2 * k] + t[k]) + Lo(ad[k] * ad[k]))
                              ELSE Wrap(x[i] + h(k))]

(* One square: two limbs and the carry hold its sum with two limbs. *)
LEMMA SqrOutIs ==
  ASSUME NEW x, Holds(x, 8), NEW ad, Holds(ad, 4), NEW k \in 0 .. 3, NEW t \in {0, 1}
  PROVE  LET z == ad[k] * ad[k]
             h == RowOut(x[2 * k], z, t)
             d == Wrap(Wrap(x[2 * k] + t) + Lo(z))
             e == Wrap(x[2 * k + 1] + h)
         IN  /\ SqrOut(x, ad, k, t) \in {0, 1}
             /\ d \in Limb /\ e \in Limb
             /\ (d + B * e) + (B * B) * SqrOut(x, ad, k, t)
                  = (x[2 * k] + B * x[2 * k + 1]) + t + z
<1> DEFINE z == ad[k] * ad[k]   h == RowOut(x[2 * k], z, t)   d == Wrap(Wrap(x[2 * k] + t) + Lo(z))
           e == Wrap(x[2 * k + 1] + h)   c == SqrOut(x, ad, k, t)   x0 == x[2 * k]   x1 == x[2 * k + 1]
<1>1. 2 * k \in 0 .. 7 /\ 2 * k + 1 \in 0 .. 7 /\ ad[k] \in Limb
  BY DEF Holds
<1>2. x0 \in Limb /\ x1 \in Limb /\ t \in Limb
  BY <1>1, Base DEF Holds, Limb
<1>3. z \in Nat /\ z <= (B - 1) * (B - 1)
  BY <1>1, ProductRange
<1>4. h \in Limb /\ d \in Limb /\ d + B * h = x0 + z + t
  <2> HIDE DEF z, x0
  <2>1. RowOut(x0, z, t) \in Limb /\ Wrap(Wrap(x0 + t) + Lo(z)) \in Limb
        /\ Wrap(Wrap(x0 + t) + Lo(z)) + B * RowOut(x0, z, t) = x0 + z + t
    BY <1>2, <1>3, RowOutIs
  <2> QED
    BY <2>1 DEF x0
<1>5. c = LimbCarryOut(x1, h)
  BY DEF SqrOut
<1>6. c \in {0, 1} /\ e \in Limb /\ e + B * c = x1 + h
  <2> HIDE DEF h, x1, c
  <2> QED
    BY <1>2, <1>4, <1>5, LimbCarryOutIs DEF x1
<1>7. x0 \in Int /\ x1 \in Int /\ t \in Int /\ z \in Int /\ h \in Int /\ d \in Int /\ e \in Int /\ c \in Int /\ B \in Int
  <2> HIDE DEF x0, x1, z, h, d, e, c
  <2> QED
    BY <1>2, <1>3, <1>4, <1>6, Base DEF Limb
<1>8. (d + B * e) + (B * B) * c = (x0 + B * x1) + t + z
  <2> HIDE DEF x0, x1, z, h, d, e, c
  <2>1. e = x1 + h - B * c /\ d = x0 + z + t - B * h
    <3>1. B * c \in Int /\ B * h \in Int
      BY <1>7
    <3> QED
      BY <1>4, <1>6, <1>7, <3>1
  <2>2. (x0 + z + t - B * h + B * (x1 + h - B * c)) + (B * B) * c = (x0 + B * x1) + t + z
    BY <1>7
  <2> QED
    BY <2>1, <2>2
<1> HIDE DEF h, d, e, c
<1> QED
  BY <1>4, <1>6, <1>8 DEF h, d, e, c

(* The recursive function of SqrU256 exists and yields carries. *)
LEMMA SqrLoops ==
  ASSUME NEW ad, Holds(ad, 4), NEW x, x = Doubled(Cross(ad)), Holds(x, 8)
  PROVE  \E t : SqrLoop(ad, x, t)
<1> DEFINE even(k, t) ==
             LET lo == Lo(ad[k] * ad[k])
                 s  == Wrap(x[2 * k] + t)
             IN  [d |-> Wrap(s + lo),
                  h |-> Wrap(Hi(ad[k] * ad[k]) + Bit(s < t) + Bit(Wrap(s + lo) < lo))]
           Body(t) == [k \in 0 .. 4 |->
                         IF k = 0 THEN 0
                         ELSE LET h == even(k - 1, t[k - 1]).h
                              IN  Bit(Wrap(x[2 * k - 1] + h) < h)]
           C == CHOOSE t : t = Body(t)
           S == {0, 1}
           G == [k \in 1 .. 4 |-> [p \in S |-> SqrOut(x, ad, k - 1, p)]]
<1>1. SqrU256(ad) = [i \in 0 .. 7 |->
                       LET e == even(i \div 2, C[i \div 2])
                       IN  IF i % 2 = 0 THEN e.d ELSE Wrap(x[i] + e.h)]
  BY DEF SqrU256
<1>2. \A k \in 1 .. 4, p \in S : G[k][p] = SqrOut(x, ad, k - 1, p) /\ G[k][p] \in S
  <2>1. \A k \in 1 .. 4 : k - 1 \in 0 .. 3
    OBVIOUS
  <2> QED
    BY <2>1, SqrOutIs
<1>3. Steps(4, S, 0, G)
  BY <1>2 DEF Steps
<1>4. PICK g \in [0 .. 4 -> S] : Follows(g, 4, 0, G)
  <2> HIDE DEF G, S
  <2> QED
    BY <1>3, Recursion
<1>5. g[0] = 0 /\ \A k \in 1 .. 4 : g[k] = SqrOut(x, ad, k - 1, g[k - 1])
  <2>1. \A k \in 1 .. 4 : g[k - 1] \in S
    OBVIOUS
  <2> HIDE DEF G, S
  <2> QED
    BY <1>2, <1>4, <2>1 DEF Follows
<1>6. \A k \in 0 .. 4 : \A p :
         /\ even(k, p).h = RowOut(x[2 * k], ad[k] * ad[k], p)
         /\ even(k, p).d = Wrap(Wrap(x[2 * k] + p) + Lo(ad[k] * ad[k]))
  BY DEF RowOut
<1>7. \A k \in 1 .. 4 : \A p :
         LET h == even(k - 1, p).h
         IN  Bit(Wrap(x[2 * k - 1] + h) < h) = SqrOut(x, ad, k - 1, p)
  <2> TAKE k \in 1 .. 4
  <2> TAKE p
  <2>1. 2 * (k - 1) + 1 = 2 * k - 1 /\ k - 1 \in 0 .. 4
    OBVIOUS
  <2> DEFINE h == even(k - 1, p).h
  <2>2. h = RowOut(x[2 * (k - 1)], ad[k - 1] * ad[k - 1], p)
    <3> HIDE DEF even
    <3> QED
      BY <1>6, <2>1
  <2> HIDE DEF h
  <2>3. Bit(Wrap(x[2 * k - 1] + h) < h) = SqrOut(x, ad, k - 1, p)
    BY <2>1, <2>2 DEF SqrOut, LimbCarryOut
  <2> QED
    BY <2>3 DEF h
<1>8. g = Body(g)
  <2> HIDE DEF even
  <2> QED
    BY <1>5, <1>7
<1>9. C = Body(C)
  <2> HIDE DEF Body
  <2> QED
    BY <1>8
<1>10. C[0] = 0 /\ \A k \in 1 .. 4 : C[k] = SqrOut(x, ad, k - 1, C[k - 1])
  <2> HIDE DEF C, even
  <2> QED
    BY <1>7, <1>9
<1>11. \A k \in 0 .. 4 : C[k] \in S
  <2> HIDE DEF C, G, S
  <2>1. Takes(C, 4, S, 0, G)
    BY <1>2, <1>10 DEF Takes
  <2> QED
    BY <1>3, <2>1, Iterates
<1>12. \A k \in 0 .. 3 : C[k + 1] = SqrOut(x, ad, k, C[k])
  <2> HIDE DEF C
  <2> TAKE k \in 0 .. 3
  <2> DEFINE n == k + 1
  <2>1. n \in 1 .. 4 /\ n - 1 = k
    OBVIOUS
  <2> HIDE DEF n
  <2>2. C[n] = SqrOut(x, ad, k, C[k])
    BY <1>10, <2>1
  <2> QED
    BY <2>2 DEF n
<1>13. SqrU256(ad) = [i \in 0 .. 7 |->
                        LET k == i \div 2
                        IN  IF i % 2 = 0 THEN Wrap(Wrap(x[2 * k] + C[k]) + Lo(ad[k] * ad[k]))
                            ELSE Wrap(x[i] + RowOut(x[2 * k], ad[k] * ad[k], C[k]))]
  <2>1. \A i \in 0 .. 7 : i \div 2 \in 0 .. 4
    OBVIOUS
  <2> HIDE DEF C, even
  <2> QED
    BY <1>1, <1>6, <2>1
<1> QED
  <2> HIDE DEF C
  <2> QED
    BY <1>10, <1>11, <1>12, <1>13 DEF SqrLoop

(* Two limbs more: what is left over goes to the limbs behind them.        *)
LEMMA PairStep ==
  ASSUME NEW d \in Int, NEW D \in Int, NEW x \in Int, NEW X \in Int, NEW z \in Int, NEW Z \in Int,
         NEW s \in Int, NEW t \in Int, NEW u \in Int, NEW c \in Int, NEW P \in Int,
         d + c * t = x + s + z, D + P * u = X + t + Z
  PROVE  (d + c * D) + (c * P) * u = (x + c * X) + s + (z + c * Z)
<1>1. c * t \in Int /\ P * u \in Int
  OBVIOUS
<1>2. d = x + s + z - c * t /\ D = X + t + Z - P * u
  BY <1>1
<1>3. (x + s + z - c * t + c * (X + t + Z - P * u)) + (c * P) * u = (x + c * X) + s + (z + c * Z)
  OBVIOUS
<1> QED
  BY <1>2, <1>3

(* The square of a number of four limbs, by its mixed products. *)
LEMMA SquareOf ==
  ASSUME NEW a \in Int, NEW b \in Int, NEW c \in Int, NEW d \in Int, NEW v,
         v = a + B * (b + B * (c + B * d))
  PROVE  v * v = 2 * Mixed(a, b, c, d)
                 + (a * a + (B * B) * (b * b + (B * B) * (c * c + (B * B) * (d * d))))
<1>1. B \in Int
  BY Base
<1> QED
  BY <1>1 DEF Mixed

(* Two digits taken together. *)
LEMMA PairOf ==
  ASSUME NEW a \in Int, NEW b \in Int, NEW n \in Int
  PROVE  a + B * (b + B * n) = (a + B * b) + (B * B) * n
<1>1. B \in Int
  BY Base
<1> QED
  BY <1>1

(* ll_u256_sqr squares, and ll_u256_sqrlo leaves the lower half. *)
LEMMA SqrU256Is ==
  ASSUME NEW ad, Holds(ad, 4)
  PROVE  /\ Holds(SqrU256(ad), 8) /\ Val(SqrU256(ad), 8) = Val(ad, 4) * Val(ad, 4)
         /\ Holds(SqrLoU256(ad), 4)
         /\ Val(SqrLoU256(ad), 4) = (Val(ad, 4) * Val(ad, 4)) % Power(4)
<1> DEFINE x == Doubled(Cross(ad))   r == SqrU256(ad)   v == Val(ad, 4)   c == B * B
           mx == Mixed(ad[0], ad[1], ad[2], ad[3])
<1>1. Cross(ad) \in Arrays(8) /\ Cross(ad)[7] = 0 /\ Val(Cross(ad), 8) = mx
  BY CrossIs
<1>2. x \in Arrays(8) /\ Val(x, 8) = 2 * mx
  BY <1>1, DoubledIs
<1>3. Holds(x, 8)
  BY <1>2 DEF Arrays, Holds
<1>4. PICK t : SqrLoop(ad, x, t)
  <2>1. \A y : y = x /\ Holds(y, 8) => \E t : SqrLoop(ad, y, t)
    BY SqrLoops
  <2> QED
    BY <1>3, <2>1
<1> HIDE DEF x, r, mx
<1>5. ad[0] \in Int /\ ad[1] \in Int /\ ad[2] \in Int /\ ad[3] \in Int /\ B \in Int /\ c \in Int
  BY Base DEF Holds, Limb
<1> DEFINE z(k) == ad[k] * ad[k]
           dd(k) == r[2 * k] + B * r[2 * k + 1]
           xx(k) == x[2 * k] + B * x[2 * k + 1]
<1>6. ASSUME NEW k \in 0 .. 3
      PROVE  /\ r[2 * k] \in Limb /\ r[2 * k + 1] \in Limb
             /\ t[k] \in {0, 1} /\ t[k + 1] \in {0, 1}
             /\ dd(k) + c * t[k + 1] = xx(k) + t[k] + z(k)
             /\ dd(k) \in Int /\ xx(k) \in Int /\ z(k) \in Int
  <2> DEFINE h == RowOut(x[2 * k], z(k), t[k])
  <2>1. /\ 2 * k \in 0 .. 7 /\ 2 * k + 1 \in 0 .. 7 /\ (2 * k) \div 2 = k /\ (2 * k + 1) \div 2 = k
        /\ (2 * k) % 2 = 0 /\ (2 * k + 1) % 2 = 1 /\ k + 1 \in 0 .. 4 /\ k \in 0 .. 4
    OBVIOUS
  <2>2. t[k] \in {0, 1} /\ t[k + 1] \in {0, 1} /\ t[k + 1] = SqrOut(x, ad, k, t[k])
    BY <1>4, <2>1 DEF SqrLoop
  <2>3. r = [i \in 0 .. 7 |->
               LET n == i \div 2
               IN  IF i % 2 = 0 THEN Wrap(Wrap(x[2 * n] + t[n]) + Lo(ad[n] * ad[n]))
                   ELSE Wrap(x[i] + RowOut(x[2 * n], ad[n] * ad[n], t[n]))]
    BY <1>4 DEF SqrLoop, r
  <2>4. r[2 * k] = Wrap(Wrap(x[2 * k] + t[k]) + Lo(z(k))) /\ r[2 * k + 1] = Wrap(x[2 * k + 1] + h)
    BY <2>1, <2>3
  <2>5. /\ Wrap(Wrap(x[2 * k] + t[k]) + Lo(z(k))) \in Limb /\ Wrap(x[2 * k + 1] + h) \in Limb
        /\ (Wrap(Wrap(x[2 * k] + t[k]) + Lo(z(k))) + B * Wrap(x[2 * k + 1] + h))
             + (B * B) * SqrOut(x, ad, k, t[k]) = (x[2 * k] + B * x[2 * k + 1]) + t[k] + z(k)
    BY <1>3, <2>2, SqrOutIs
  <2>6. x[2 * k] \in Int /\ x[2 * k + 1] \in Int /\ ad[k] \in Int
    BY <1>3, <2>1, Base DEF Holds, Limb
  <2>7. r[2 * k] \in Limb /\ r[2 * k + 1] \in Limb
    BY <2>4, <2>5
  <2>8. r[2 * k] \in Int /\ r[2 * k + 1] \in Int
    BY <2>7, Base DEF Limb
  <2>9. dd(k) \in Int /\ xx(k) \in Int /\ z(k) \in Int
    BY <1>5, <2>6, <2>8
  <2>10. dd(k) + c * t[k + 1] = xx(k) + t[k] + z(k)
    <3> HIDE DEF z, h
    <3> QED
      BY <2>2, <2>4, <2>5
  <2> QED
    BY <2>2, <2>7, <2>9, <2>10
<1>7. Holds(r, 8)
  <2>1. /\ r[0] \in Limb /\ r[1] \in Limb /\ r[2] \in Limb /\ r[3] \in Limb
        /\ r[4] \in Limb /\ r[5] \in Limb /\ r[6] \in Limb /\ r[7] \in Limb
    <3>1. \A k \in 0 .. 3 : r[2 * k] \in Limb /\ r[2 * k + 1] \in Limb
      BY <1>6
    <3>2. /\ r[2 * 0] \in Limb /\ r[2 * 0 + 1] \in Limb /\ r[2 * 1] \in Limb /\ r[2 * 1 + 1] \in Limb
          /\ r[2 * 2] \in Limb /\ r[2 * 2 + 1] \in Limb /\ r[2 * 3] \in Limb /\ r[2 * 3 + 1] \in Limb
      BY <3>1
    <3> QED
      BY <3>2
  <2>2. \A i \in 0 .. 7 : i \in {0, 1, 2, 3, 4, 5, 6, 7}
    OBVIOUS
  <2>3. 8 - 1 = 7
    OBVIOUS
  <2> QED
    BY <2>1, <2>2, <2>3 DEF Holds
<1> DEFINE d0 == dd(0)  d1 == dd(1)  d2 == dd(2)  d3 == dd(3)
           x0 == xx(0)  x1 == xx(1)  x2 == xx(2)  x3 == xx(3)
           z0 == z(0)   z1 == z(1)   z2 == z(2)   z3 == z(3)
           t1 == t[1]   t2 == t[2]   t3 == t[3]   t4 == t[4]
<1>8. /\ d0 + c * t1 = x0 + 0 + z0 /\ d1 + c * t2 = x1 + t1 + z1
      /\ d2 + c * t3 = x2 + t2 + z2 /\ d3 + c * t4 = x3 + t3 + z3
      /\ d0 \in Int /\ d1 \in Int /\ d2 \in Int /\ d3 \in Int
      /\ x0 \in Int /\ x1 \in Int /\ x2 \in Int /\ x3 \in Int
      /\ z0 \in Int /\ z1 \in Int /\ z2 \in Int /\ z3 \in Int
      /\ t1 \in {0, 1} /\ t2 \in {0, 1} /\ t3 \in {0, 1} /\ t4 \in {0, 1}
  <2>1. t[0] = 0
    BY <1>4 DEF SqrLoop
  <2>2. 0 + 1 = 1 /\ 1 + 1 = 2 /\ 2 + 1 = 3 /\ 3 + 1 = 4
    OBVIOUS
  <2>3. 0 \in 0 .. 3 /\ 1 \in 0 .. 3 /\ 2 \in 0 .. 3 /\ 3 \in 0 .. 3
    OBVIOUS
  <2> HIDE DEF dd, xx, z, c
  <2> QED
    BY <1>6, <2>1, <2>2, <2>3
<1>9. /\ Val(r, 8) = d0 + c * (d1 + c * (d2 + c * d3))
      /\ Val(x, 8) = x0 + c * (x1 + c * (x2 + c * x3))
  <2>1. /\ r[0] \in Int /\ r[1] \in Int /\ r[2] \in Int /\ r[3] \in Int
        /\ r[4] \in Int /\ r[5] \in Int /\ r[6] \in Int /\ r[7] \in Int
    BY <1>7, Base DEF Holds, Limb
  <2>2. /\ x[0] \in Int /\ x[1] \in Int /\ x[2] \in Int /\ x[3] \in Int
        /\ x[4] \in Int /\ x[5] \in Int /\ x[6] \in Int /\ x[7] \in Int
    BY <1>3, Base DEF Holds, Limb
  <2>3. /\ d0 = r[0] + B * r[1] /\ d1 = r[2] + B * r[3] /\ d2 = r[4] + B * r[5] /\ d3 = r[6] + B * r[7]
        /\ x0 = x[0] + B * x[1] /\ x1 = x[2] + B * x[3] /\ x2 = x[4] + B * x[5] /\ x3 = x[6] + B * x[7]
    OBVIOUS
  <2>4. /\ Val(r, 8) = r[0] + B * (r[1] + B * (r[2] + B * (r[3] + B * (r[4] + B * (r[5] + B * (r[6] + B * r[7]))))))
        /\ Val(x, 8) = x[0] + B * (x[1] + B * (x[2] + B * (x[3] + B * (x[4] + B * (x[5] + B * (x[6] + B * x[7]))))))
    BY <1>3, <1>7, EightLimbs
  <2>5. Val(r, 8) = (r[0] + B * r[1]) + c * ((r[2] + B * r[3]) + c * ((r[4] + B * r[5]) + c * (r[6] + B * r[7])))
    <3>1. r[4] + B * (r[5] + B * (r[6] + B * r[7])) = (r[4] + B * r[5]) + c * (r[6] + B * r[7])
      <4>1. r[6] + B * r[7] \in Int
        BY <1>5, <2>1
      <4> QED
        BY <2>1, <4>1, PairOf
    <3> DEFINE p == (r[4] + B * r[5]) + c * (r[6] + B * r[7])
    <3>2. p \in Int
      BY <1>5, <2>1
    <3> HIDE DEF p
    <3>3. r[2] + B * (r[3] + B * p) = (r[2] + B * r[3]) + c * p
      BY <2>1, <3>2, PairOf
    <3> DEFINE q == (r[2] + B * r[3]) + c * p
    <3>4. q \in Int
      BY <1>5, <2>1, <3>2
    <3> HIDE DEF q
    <3>5. r[0] + B * (r[1] + B * q) = (r[0] + B * r[1]) + c * q
      BY <2>1, <3>4, PairOf
    <3>6. Val(r, 8) = r[0] + B * (r[1] + B * q)
      BY <2>4, <3>1, <3>3 DEF p, q
    <3> QED
      BY <3>5, <3>6 DEF p, q
  <2>6. Val(x, 8) = (x[0] + B * x[1]) + c * ((x[2] + B * x[3]) + c * ((x[4] + B * x[5]) + c * (x[6] + B * x[7])))
    <3>1. x[4] + B * (x[5] + B * (x[6] + B * x[7])) = (x[4] + B * x[5]) + c * (x[6] + B * x[7])
      <4>1. x[6] + B * x[7] \in Int
        BY <1>5, <2>2
      <4> QED
        BY <2>2, <4>1, PairOf
    <3> DEFINE p == (x[4] + B * x[5]) + c * (x[6] + B * x[7])
    <3>2. p \in Int
      BY <1>5, <2>2
    <3> HIDE DEF p
    <3>3. x[2] + B * (x[3] + B * p) = (x[2] + B * x[3]) + c * p
      BY <2>2, <3>2, PairOf
    <3> DEFINE q == (x[2] + B * x[3]) + c * p
    <3>4. q \in Int
      BY <1>5, <2>2, <3>2
    <3> HIDE DEF q
    <3>5. x[0] + B * (x[1] + B * q) = (x[0] + B * x[1]) + c * q
      BY <2>2, <3>4, PairOf
    <3>6. Val(x, 8) = x[0] + B * (x[1] + B * q)
      BY <2>4, <3>1, <3>3 DEF p, q
    <3> QED
      BY <3>5, <3>6 DEF p, q
  <2> HIDE DEF c, d0, d1, d2, d3, x0, x1, x2, x3
  <2> QED
    BY <2>3, <2>5, <2>6
<1> DEFINE dx == Val(r, 8)   vx == Val(x, 8)   zz == z0 + c * (z1 + c * (z2 + c * z3))
<1>10. dx + (c * (c * (c * c))) * t4 = vx + zz
  <2> HIDE DEF c, d0, d1, d2, d3, x0, x1, x2, x3, z0, z1, z2, z3, t1, t2, t3, t4
  <2>1. /\ t1 \in Int /\ t2 \in Int /\ t3 \in Int /\ t4 \in Int /\ c * c \in Int /\ c * (c * c) \in Int
        /\ d2 + c * d3 \in Int /\ x2 + c * x3 \in Int /\ z2 + c * z3 \in Int
    BY <1>5, <1>8
  <2>2. (d2 + c * d3) + (c * c) * t4 = (x2 + c * x3) + t2 + (z2 + c * z3)
    BY <1>5, <1>8, <2>1, PairStep
  <2> DEFINE D2 == d2 + c * d3   X2 == x2 + c * x3   Z2 == z2 + c * z3   c2 == c * c
  <2>3. D2 + c2 * t4 = X2 + t2 + Z2 /\ D2 \in Int /\ X2 \in Int /\ Z2 \in Int /\ c2 \in Int
    BY <2>1, <2>2
  <2> HIDE DEF D2, X2, Z2, c2
  <2>4. (d1 + c * D2) + (c * c2) * t4 = (x1 + c * X2) + t1 + (z1 + c * Z2)
    BY <1>5, <1>8, <2>1, <2>3, PairStep
  <2>5. d1 + c * D2 \in Int /\ x1 + c * X2 \in Int /\ z1 + c * Z2 \in Int /\ c * c2 \in Int
    BY <1>5, <1>8, <2>3
  <2> DEFINE D1 == d1 + c * D2   X1 == x1 + c * X2   Z1 == z1 + c * Z2   c3 == c * c2
  <2>6. D1 + c3 * t4 = X1 + t1 + Z1 /\ D1 \in Int /\ X1 \in Int /\ Z1 \in Int /\ c3 \in Int
    BY <2>4, <2>5
  <2> HIDE DEF D1, X1, Z1, c3
  <2>7. (d0 + c * D1) + (c * c3) * t4 = (x0 + c * X1) + 0 + (z0 + c * Z1)
    BY <1>5, <1>8, <2>1, <2>6, PairStep
  <2>8. dx = d0 + c * D1 /\ vx = x0 + c * X1 /\ zz = z0 + c * Z1 /\ c * (c * (c * c)) = c * c3
    BY <1>9 DEF D1, X1, Z1, c3, D2, X2, Z2, c2
  <2>9. vx \in Int /\ x0 + c * X1 \in Int
    BY <1>5, <1>8, <2>6, <2>8
  <2> HIDE DEF dx, vx, zz
  <2> QED
    BY <2>7, <2>8, <2>9
<1>11. vx + zz = v * v
  <2>1. v = ad[0] + B * (ad[1] + B * (ad[2] + B * ad[3]))
    BY FourLimbs
  <2>2. v * v = 2 * mx + (ad[0] * ad[0] + (B * B) * (ad[1] * ad[1] + (B * B) * (ad[2] * ad[2] + (B * B) * (ad[3] * ad[3]))))
    <3> DEFINE a0 == ad[0]   a1 == ad[1]   a2 == ad[2]   a3 == ad[3]
    <3>1. v = a0 + B * (a1 + B * (a2 + B * a3)) /\ a0 \in Int /\ a1 \in Int /\ a2 \in Int /\ a3 \in Int
      BY <1>5, <2>1
    <3> HIDE DEF v, a0, a1, a2, a3
    <3>2. v * v = 2 * Mixed(a0, a1, a2, a3)
                  + (a0 * a0 + (B * B) * (a1 * a1 + (B * B) * (a2 * a2 + (B * B) * (a3 * a3))))
      BY <3>1, SquareOf
    <3> QED
      BY <3>2 DEF mx, a0, a1, a2, a3
  <2>3. zz = ad[0] * ad[0] + (B * B) * (ad[1] * ad[1] + (B * B) * (ad[2] * ad[2] + (B * B) * (ad[3] * ad[3])))
    OBVIOUS
  <2> HIDE DEF zz, v
  <2> QED
    BY <1>2, <2>2, <2>3
<1> DEFINE w == Power(4)
<1>12. w \in Nat \ {0} /\ w * w = c * (c * (c * c)) /\ Power(8) = w * w
  <2>1. Power(2) = c
    BY FewLimbs
  <2>2. Power(2 + 2) = Power(2) * Power(2) /\ Power(4 + 4) = Power(4) * Power(4) /\ Power(4) \in Nat \ {0}
    <3>1. \A a \in Nat, b \in Nat : Power(a + b) = Power(a) * Power(b)
      BY PowerSum
    <3>2. \A a \in Nat : Power(a) \in Nat \ {0}
      BY PowerStep
    <3>3. 2 \in Nat /\ 4 \in Nat
      OBVIOUS
    <3> QED
      BY <3>1, <3>2, <3>3
  <2>3. 2 + 2 = 4 /\ 4 + 4 = 8
    OBVIOUS
  <2>4. w = c * c /\ Power(8) = w * w /\ w \in Nat \ {0}
    BY <2>1, <2>2, <2>3
  <2>5. (c * c) * (c * c) = c * (c * (c * c))
    BY <1>5
  <2> QED
    BY <2>4, <2>5
<1>13. v \in Nat /\ v < w /\ dx \in Nat /\ dx < Power(8)
  <2> DEFINE n == 4   m == 8
  <2>1. n \in Nat /\ m \in Nat /\ Holds(ad, n) /\ Holds(r, m)
    BY <1>7
  <2>2. Val(ad, n) \in Nat /\ Val(ad, n) < Power(n) /\ Val(r, m) \in Nat /\ Val(r, m) < Power(m)
    <3> HIDE DEF n, m
    <3> QED
      BY <2>1, ValRange
  <2> QED
    BY <2>2
<1>14. t4 = 0 /\ dx = v * v
  <2> HIDE DEF v, dx, vx, zz, w, c, t4
  <2>1. dx + (w * w) * t4 = v * v
    BY <1>10, <1>11, <1>12
  <2>2. v * v < w * w
    <3>1. v \in Nat /\ w - v \in Nat /\ w - v > 0 /\ w \in Nat
      BY <1>12, <1>13
    <3>2. (w - v) * w \in Nat /\ v * (w - v) \in Nat /\ (w - v) * w > 0
          /\ (w - v) * w = w * w - v * w /\ v * (w - v) = v * w - v * v
      BY <3>1
    <3> QED
      BY <3>1, <3>2
  <2>3. w * w \in Nat /\ v * v \in Nat
    BY <1>12, <1>13
  <2>4. t4 = 0 \/ t4 = 1
    BY <1>8
  <2>5. (w * w) * 0 = 0 /\ (w * w) * 1 = w * w
    BY <2>3
  <2> DEFINE ww == w * w   vv == v * v
  <2> HIDE DEF ww, vv
  <2>6. dx + ww * t4 = vv /\ vv < ww /\ ww \in Nat /\ vv \in Nat /\ ww * 0 = 0 /\ ww * 1 = ww
    BY <2>1, <2>2, <2>3, <2>5 DEF ww, vv
  <2>7. t4 = 0
    BY <1>13, <2>4, <2>6
  <2>8. dx = vv
    BY <1>13, <2>6, <2>7
  <2> QED
    BY <2>7, <2>8 DEF vv
<1>15. /\ Holds(SqrLoU256(ad), 4)
       /\ Val(SqrLoU256(ad), 4) = (v * v) % w
  <2> DEFINE n == 4   y == SqrLoU256(ad)
  <2>1. y = [j \in 0 .. 3 |-> r[0 + j]]
    BY DEF SqrLoU256, From, r
  <2>2. n \in Nat /\ Holds(r, n + n) /\ Holds(r, n) /\ Holds(From(r, n, n), n) /\ n + n = 8
    BY <1>7 DEF From, Holds
  <2> HIDE DEF y
  <2>3. Holds(y, n) /\ \A j \in 0 .. n - 1 : y[j] = r[j]
    BY <1>7, <2>1 DEF Holds
  <2>4. Val(y, n) = Val(r, n) /\ Val(r, n) \in Nat /\ Val(r, n) < Power(n)
        /\ Val(r, n + n) = Val(r, n) + Power(n) * Val(From(r, n, n), n)
        /\ Val(From(r, n, n), n) \in Nat
    <3> HIDE DEF n
    <3>1. Val(y, n) = Val(r, n)
      BY <2>2, <2>3, ValSame
    <3>2. Val(r, n) \in Nat /\ Val(r, n) < Power(n) /\ Val(From(r, n, n), n) \in Nat
      BY <2>2, ValRange
    <3>3. Val(r, n + n) = Val(r, n) + Power(n) * Val(From(r, n, n), n)
      BY <2>2, ValSplit
    <3> QED
      BY <3>1, <3>2, <3>3
  <2> DEFINE lo == Val(r, 4)   hi == Val(From(r, n, n), n)
  <2>5. Val(y, 4) = lo /\ lo \in Nat /\ lo < w /\ dx = lo + w * hi /\ hi \in Nat
    BY <2>2, <2>4
  <2> HIDE DEF lo, hi, dx, w, v
  <2>6. lo \in 0 .. w - 1 /\ v * v \in Int /\ v * v = w * hi + lo
    <3>1. w * hi \in Int
      BY <1>12, <2>5
    <3> QED
      BY <1>12, <1>13, <1>14, <2>5, <3>1
  <2> DEFINE vv == v * v
  <2>7. vv \in Int /\ vv = w * hi + lo
    BY <2>6
  <2> HIDE DEF vv
  <2>8. vv % w = lo
    <3>1. w \in Nat \ {0} /\ vv \in Int /\ hi \in Int /\ lo \in 0 .. w - 1 /\ vv = w * hi + lo
      BY <1>12, <2>5, <2>6, <2>7
    <3> QED
      BY <3>1, DivModIs
  <2> QED
    BY <2>3, <2>5, <2>8 DEF vv, y
<1> QED
  BY <1>7, <1>14, <1>15 DEF r

------------------------------------------------------------------------------
(* Montgomery arithmetic: digits of a multiplier, one row of the product   *)
(* and one of the modulus in registers and in an array, the conditional    *)
(* subtraction.                                                            *)

(* The digits of a number make the number again.                           *)
LEMMA DigitsOf ==
  ASSUME NEW n \in Nat, NEW x \in Nat, x < Power(n),
         \A k \in 0 .. n - 1 : B^k = Power(k)
  PROVE  /\ LimbsOf(x, n) \in Arrays(n) /\ Holds(LimbsOf(x, n), n)
         /\ Val(LimbsOf(x, n), n) = x
<1> DEFINE d == LimbsOf(x, n)   q(k) == x \div Power(k)
<1>1. B \in Nat \ {0}
  BY Base
<1>2. ASSUME NEW k \in Nat
      PROVE  /\ q(k) \in Nat /\ x = Power(k) * q(k) + (x % Power(k))
             /\ x % Power(k) \in 0 .. Power(k) - 1
  <2> DEFINE p == Power(k)
  <2>1. p \in Nat \ {0} /\ x \in Int
    BY PowerStep
  <2> HIDE DEF p
  <2>2. x \div p \in Int /\ x % p \in 0 .. p - 1 /\ x = p * (x \div p) + (x % p)
    BY <2>1, DivMod
  <2>3. x \div p >= 0
    BY <2>1, <2>2
  <2> QED
    BY <2>2, <2>3 DEF p
<1>3. ASSUME NEW k \in 0 .. n - 1
      PROVE  d[k] = q(k) % B
  <2>1. B^k = Power(k)
    OBVIOUS
  <2> QED
    BY <2>1 DEF LimbsOf
<1>4. ASSUME NEW k \in Nat
      PROVE  q(k) % B \in Limb /\ q(k) = B * q(k + 1) + (q(k) % B)
  <2> DEFINE p == Power(k)   r == x % p   s == q(k)
  <2>1. p \in Nat \ {0} /\ s \in Nat /\ x = p * s + r /\ r \in 0 .. p - 1
    BY <1>2, PowerStep
  <2>2. Power(k + 1) = B * p
    BY PowerStep
  <2> DEFINE t == s \div B   u == s % B
  <2> HIDE DEF p, r, s
  <2>3. t \in Int /\ u \in 0 .. B - 1 /\ s = B * t + u
    BY <1>1, <2>1, DivMod
  <2> HIDE DEF t, u
  <2>4. p * s = p * (B * t) + p * u /\ p * (B * t) = (B * p) * t
    BY <1>1, <2>1, <2>3
  <2>5. p * u + r \in 0 .. B * p - 1
    <3>1. u \in Nat /\ (B - 1) - u \in Nat /\ B \in Nat
      BY <1>1, <2>3
    <3>2. p * u \in Nat /\ p * ((B - 1) - u) \in Nat
      BY <2>1, <3>1
    <3>3. p * ((B - 1) - u) = B * p - p - p * u
      BY <2>1, <3>1
    <3> QED
      BY <1>1, <2>1, <3>2, <3>3
  <2>6. x = (B * p) * t + (p * u + r) /\ B * p \in Nat \ {0}
    BY <1>1, <2>1, <2>3, <2>4
  <2> DEFINE M == B * p   v == p * u + r
  <2>7. x \div M = t
    <3>1. M \in Nat \ {0} /\ v \in 0 .. M - 1 /\ x = M * t + v /\ x \in Int
      BY <2>5, <2>6
    <3> HIDE DEF M, v
    <3> QED
      BY <3>1, <2>3, DivModIs
  <2>8. q(k + 1) = t
    BY <2>2, <2>7
  <2>9. s % B = u
    BY <2>3 DEF u
  <2> QED
    BY <2>3, <2>8, <2>9 DEF s, Limb
<1>5. Holds(d, n)
  BY <1>3, <1>4 DEF Holds
<1>6. d \in Arrays(n)
  BY <1>3, <1>4 DEF Arrays, LimbsOf
<1> DEFINE T == {k \in Nat : k <= n => Val(d, k) + Power(k) * q(k) = x}
<1>7. 0 \in T
  <2>1. Val(d, 0) = 0 /\ Power(0) = 1 /\ q(0) \in Nat /\ x % Power(0) \in 0 .. Power(0) - 1
    BY ValZero, PowerStep, <1>2
  <2>2. x = Power(0) * q(0) + (x % Power(0))
    BY <1>2
  <2> HIDE DEF q
  <2> QED
    BY <2>1, <2>2
<1>8. \A k \in 0 .. n - 1 : k \in T => k + 1 \in T
  <2> SUFFICES ASSUME NEW k \in 0 .. n - 1, k \in T PROVE Val(d, k + 1) + Power(k + 1) * q(k + 1) = x
    OBVIOUS
  <2>1. k \in Nat /\ Holds(d, k + 1) /\ Holds(d, k)
    BY <1>5 DEF Holds
  <2> DEFINE p == Power(k)   v == Val(d, k)   r == q(k) % B   g == q(k + 1)   h == q(k)
  <2>2. Val(d, k + 1) = v + p * r
    BY <1>3, <2>1, ValStep
  <2>3. v + p * h = x
    OBVIOUS
  <2>4. p \in Nat /\ v \in Nat /\ Power(k + 1) = B * p
    BY <2>1, PowerStep, ValRange
  <2>5. r \in Nat /\ h \in Nat /\ g \in Nat /\ h = B * g + r
    BY <1>1, <1>2, <1>4, <2>1 DEF Limb
  <2> HIDE DEF p, v, r, g, h
  <2>6. p * h = p * (B * g) + p * r /\ p * (B * g) = (B * p) * g
    BY <1>1, <2>4, <2>5
  <2>7. v + p * r + (B * p) * g = x
    BY <1>1, <2>3, <2>4, <2>5, <2>6
  <2> QED
    BY <2>2, <2>4, <2>7 DEF g
<1>9. Val(d, n) + Power(n) * q(n) = x
  <2>1. 0 .. n \subseteq T
    <3> HIDE DEF T
    <3> QED
      BY <1>7, <1>8, InductionTo
  <2> QED
    BY <2>1
<1>10. q(n) = 0
  <2> DEFINE p == Power(n)
  <2>1. p \in Nat \ {0} /\ x \in 0 .. p - 1 /\ x \in Int /\ 0 \in Int /\ x = p * 0 + x
    BY PowerStep
  <2> HIDE DEF p
  <2>2. x \div p = 0
    BY <2>1, DivModIs
  <2> QED
    BY <2>2 DEF p
<1>11. Val(d, n) \in Nat /\ Power(n) \in Nat
  BY <1>5, ValRange, PowerStep
<1> QED
  BY <1>5, <1>6, <1>9, <1>10, <1>11

(* One limb of x and those above it.                                       *)
LEMMA FirstLimb ==
  ASSUME NEW k \in Nat, NEW x, Holds(x, k + 1)
  PROVE  Val(x, k + 1) = x[0] + B * Val(From(x, 1, k), k) /\ x[0] \in Limb
<1>1. 1 \in Nat /\ 1 + k = k + 1 /\ Holds(x, 1 + k) /\ Holds(x, 1) /\ x[0] \in Limb
  BY DEF Holds
<1>2. Val(x, 1 + k) = Val(x, 1) + Power(1) * Val(From(x, 1, k), k)
  <2> DEFINE one == 1
  <2>1. one \in Nat /\ Holds(x, one + k)
    BY <1>1
  <2> HIDE DEF one
  <2>2. Val(x, one + k) = Val(x, one) + Power(one) * Val(From(x, one, k), k)
    BY <2>1, ValSplit
  <2> QED
    BY <2>2 DEF one
<1>3. Val(x, 1) = x[0] /\ Power(1) = B
  BY <1>1, FewLimbs
<1> QED
  BY <1>1, <1>2, <1>3

(* The part of an array from limb i on, less its first limb.               *)
LEMMA NextLimb ==
  ASSUME NEW i \in Nat, NEW k \in Nat, NEW x, Holds(From(x, i, k + 1), k + 1)
  PROVE  /\ Val(From(x, i, k + 1), k + 1) = x[i] + B * Val(From(x, i + 1, k), k)
         /\ x[i] \in Limb /\ Holds(From(x, i + 1, k), k)
<1> DEFINE f == From(x, i, k + 1)   g == From(f, 1, k)   h == From(x, i + 1, k)
<1>1. Val(f, k + 1) = f[0] + B * Val(g, k) /\ f[0] \in Limb
  <2> HIDE DEF f
  <2> QED
    BY FirstLimb DEF f
<1>2. f[0] = x[i]
  BY DEF From
<1>3. \A j \in 0 .. k - 1 : j + 1 \in 0 .. k /\ f[j + 1] = x[i + 1 + j] /\ g[j] = f[j + 1] /\ h[j] = x[i + 1 + j]
  <2>1. \A j \in 0 .. k - 1 : j + 1 \in 0 .. k /\ i + (j + 1) = i + 1 + j /\ 1 + j = j + 1
    OBVIOUS
  <2> QED
    BY <2>1 DEF From
<1>4. Holds(g, k) /\ Holds(h, k) /\ \A j \in 0 .. k - 1 : g[j] = h[j]
  <2>1. \A j \in 0 .. k : f[j] \in Limb
    BY DEF Holds
  <2> HIDE DEF f, g, h
  <2> QED
    BY <1>3, <2>1 DEF Holds
<1>5. Val(g, k) = Val(h, k)
  <2> HIDE DEF g, h
  <2> QED
    BY <1>4, ValSame
<1> QED
  BY <1>1, <1>2, <1>4, <1>5

(* The multiplier without the limbs that have been used: its lowest limb,  *)
(* and what is left of it.                                                 *)
LEMMA Multiplier ==
  ASSUME NEW n \in Nat, NEW x, Holds(x, n), NEW i \in 0 .. n - 1
  PROVE  LET rest == Val(x, n) \div Power(i)
         IN  rest \in Nat /\ rest % B = x[i] /\ rest \div B = Val(x, n) \div Power(i + 1)
<1> DEFINE Above(k) == Val(From(x, k, n - k), n - k)
<1>1. ASSUME NEW k \in 0 .. n
      PROVE  Val(x, n) \div Power(k) = Above(k) /\ Above(k) \in Nat /\ Holds(From(x, k, n - k), n - k)
  <2> DEFINE l == n - k
  <2>1. k \in Nat /\ l \in Nat /\ k + l = n
    OBVIOUS
  <2>2. Val(x, k + l) = Val(x, k) + Power(k) * Val(From(x, k, l), l)
    <3>1. Holds(x, k + l)
      BY <2>1
    <3> HIDE DEF l
    <3> QED
      BY <2>1, <3>1, ValSplit
  <2>3. Holds(x, k) /\ Holds(From(x, k, l), l)
    <3>1. \A j \in 0 .. l - 1 : k + j \in 0 .. n - 1 /\ From(x, k, l)[j] = x[k + j]
      BY <2>1 DEF From
    <3>2. \A j \in 0 .. k - 1 : j \in 0 .. n - 1
      OBVIOUS
    <3> QED
      BY <3>1, <3>2 DEF Holds
  <2> DEFINE f == From(x, k, l)   p == Power(k)   u == Val(x, k)   v == Val(f, l)
  <2>4. p \in Nat \ {0} /\ u \in 0 .. p - 1 /\ v \in Nat
    <3>1. u \in Nat /\ u < p /\ p \in Nat \ {0}
      BY <2>1, <2>3, ValRange, PowerStep
    <3>2. v \in Nat
      <4> HIDE DEF f, l
      <4> QED
        BY <2>1, <2>3, ValRange DEF f
    <3> QED
      BY <3>1, <3>2
  <2>5. Val(x, n) = p * v + u
    <3>1. Val(x, n) = u + p * v
      BY <2>1, <2>2
    <3> HIDE DEF p, u, v
    <3> QED
      BY <2>4, <3>1
  <2> HIDE DEF p, u, v
  <2>6. Val(x, n) \div p = v
    <3> DEFINE w == Val(x, n)
    <3>1. w \in Int /\ w = p * v + u
      BY <2>4, <2>5
    <3> HIDE DEF w
    <3>2. w \div p = v
      BY <2>4, <3>1, DivModIs
    <3> QED
      BY <3>2 DEF w
  <2> QED
    BY <2>3, <2>4, <2>6 DEF p, v
<1> DEFINE k == n - (i + 1)
<1>2. i \in 0 .. n /\ i + 1 \in 0 .. n /\ k \in Nat /\ n - i = k + 1 /\ i \in Nat
  OBVIOUS
<1>3. Above(i) = x[i] + B * Above(i + 1) /\ x[i] \in Limb
  <2>1. Holds(From(x, i, k + 1), k + 1)
    <3>1. Holds(From(x, i, n - i), n - i)
      BY <1>1, <1>2
    <3> QED
      BY <1>2, <3>1
  <2>2. Val(From(x, i, k + 1), k + 1) = x[i] + B * Val(From(x, i + 1, k), k) /\ x[i] \in Limb
    <3> HIDE DEF k
    <3> QED
      BY <1>2, <2>1, NextLimb
  <2> QED
    BY <1>2, <2>2
<1> DEFINE r == Above(i)   s == Above(i + 1)
<1>4. r \in Nat /\ s \in Nat /\ Val(x, n) \div Power(i) = r /\ Val(x, n) \div Power(i + 1) = s
  BY <1>1, <1>2
<1>5. r % B = x[i] /\ r \div B = s
  <2> DEFINE u == x[i]
  <2>1. B \in Nat \ {0} /\ u \in 0 .. B - 1 /\ r = B * s + u /\ r \in Int /\ s \in Int
    <3>1. r = u + B * s /\ u \in Limb
      BY <1>3
    <3> HIDE DEF r, s, u
    <3> QED
      BY <1>4, <3>1, Base DEF Limb
  <2> HIDE DEF r, s, u
  <2>2. r \div B = s /\ r % B = u
    BY <2>1, DivModIs
  <2> QED
    BY <2>2 DEF u
<1> QED
  BY <1>4, <1>5

(* The choice of the quotient digit: the multiple of N clears the lowest   *)
(* limb.                                                                   *)
LEMMA LowestIsZero ==
  ASSUME NEW N \in Nat, NEW k0 \in Limb, (N * k0 + 1) % B = 0,
         NEW t0 \in Limb, NEW t1 \in Int, NEW x0 \in Limb, NEW x1 \in Int,
         x0 + B * x1 = (t0 + B * t1) + Wrap(t0 * k0) * N
  PROVE  x0 = 0
<1> DEFINE u == N * k0 + 1   c == u \div B   v == t0 * k0   q == v \div B   w == Wrap(v)
<1>1. B \in Nat \ {0} /\ t0 \in Nat /\ k0 \in Nat /\ x0 \in 0 .. B - 1
  BY Base DEF Limb
<1>2. u \in Int /\ v \in Int
  BY <1>1
<1>3. c \in Int /\ u = B * c
  <2> HIDE DEF u
  <2>1. u % B = 0
    BY DEF u
  <2>2. c \in Int /\ u = B * c + (u % B)
    BY <1>1, <1>2, DivMod
  <2> QED
    BY <1>1, <2>1, <2>2
<1>4. q \in Int /\ w \in Int /\ v = B * q + w
  <2> HIDE DEF v
  <2> QED
    BY <1>1, <1>2, DivMod DEF Wrap
<1>5. w * N = v * N - B * (q * N)
  <2> HIDE DEF v, q, w
  <2>1. w = v - B * q
    BY <1>1, <1>2, <1>4
  <2>2. (v - B * q) * N = v * N - (B * q) * N /\ (B * q) * N = B * (q * N)
    BY <1>1, <1>2, <1>4
  <2> QED
    BY <2>1, <2>2
<1>6. v * N + t0 = t0 * u /\ t0 * u = B * (t0 * c)
  <2>1. v * N + t0 = t0 * u
    <3>1. (t0 * k0) * N = t0 * (N * k0) /\ t0 * (N * k0 + 1) = t0 * (N * k0) + t0
      BY <1>1
    <3> QED
      BY <3>1
  <2>2. t0 * (B * c) = B * (t0 * c)
    <3> HIDE DEF c
    <3> QED
      BY <1>1, <1>3
  <2> QED
    BY <1>3, <2>1, <2>2
<1> DEFINE g == t0 * c   h == q * N   y == w * N   z == v * N
<1>7. /\ g \in Int /\ h \in Int /\ y \in Int /\ z \in Int
      /\ y = z - B * h /\ z + t0 = B * g
      /\ x0 + B * x1 = (t0 + B * t1) + y
  <2>1. g \in Int /\ h \in Int /\ y \in Int /\ z \in Int
    <3> HIDE DEF c, q, w, v
    <3> QED
      BY <1>1, <1>2, <1>3, <1>4
  <2> QED
    BY <1>5, <1>6, <2>1
<1> HIDE DEF g, h, y, z
<1> DEFINE e == g + t1 - h - x1
<1>8. e \in Int /\ x0 = B * e
  <2>1. B * (g + t1 - h - x1) = B * g + B * t1 - B * h - B * x1
    BY <1>1, <1>7
  <2> QED
    BY <1>1, <1>7, <2>1
<1> HIDE DEF e
<1>9. 0 \in 0 .. B - 1 /\ x0 = B * e + 0 /\ x0 = B * 0 + x0
  BY <1>1, <1>8
<1>10. x0 % B = 0
  <2> DEFINE o == 0
  <2>1. B \in Nat \ {0} /\ x0 \in Int /\ e \in Int /\ o \in 0 .. B - 1 /\ x0 = B * e + o
    BY <1>1, <1>8, <1>9
  <2> HIDE DEF o
  <2>2. x0 % B = o
    BY <2>1, DivModIs
  <2> QED
    BY <2>2 DEF o
<1>11. x0 % B = x0
  BY <1>1, <1>9, DivModIs
<1> QED
  BY <1>10, <1>11

(* Six limbs: four and the two above them.                                 *)
LEMMA SixLimbs ==
  ASSUME NEW x, Holds(x, 6)
  PROVE  /\ Val(x, 6) = Val(x, 4) + Power(4) * (x[4] + B * x[5])
         /\ Holds(x, 4) /\ x[4] \in Limb /\ x[5] \in Limb
         /\ Power(6) = (B * B) * Power(4)
<1>1. Holds(x, 4) /\ x[4] \in Limb /\ x[5] \in Limb
  BY DEF Holds
<1> DEFINE f == From(x, 4, 2)   m == 4   n == 2
<1>2. f[0] = x[4] /\ f[1] = x[5] /\ Holds(f, 2)
  BY <1>1 DEF From, Holds
<1>3. Val(f, 2) = x[4] + B * x[5]
  <2> HIDE DEF f
  <2> QED
    BY <1>2, FewLimbs
<1>4. m \in Nat /\ n \in Nat /\ m + n = 6 /\ Holds(x, m + n)
  OBVIOUS
<1>5. Val(x, m + n) = Val(x, m) + Power(m) * Val(From(x, m, n), n)
  <2> HIDE DEF m, n
  <2> QED
    BY <1>4, ValSplit
<1>6. Power(m + n) = Power(m) * Power(n)
  <2> HIDE DEF m, n
  <2> QED
    BY <1>4, PowerSum
<1>7. Power(6) = Power(4) * (B * B)
  BY <1>6, FewLimbs
<1>8. Power(4) * (B * B) = (B * B) * Power(4)
  BY PowerStep, Base
<1> QED
  BY <1>1, <1>3, <1>5, <1>7, <1>8

(* LL_U256_MUL_ADD1 adds a multiple of four limbs to six registers, as     *)
(* long as the sum fits them.                                              *)
LEMMA MulAdd1Is ==
  ASSUME NEW y, Holds(y, 6), NEW x, Holds(x, 4), NEW w \in Limb,
         Val(y, 6) + w * Val(x, 4) < Power(6)
  PROVE  LET t == MulAdd1(y, x, w)
         IN  /\ t \in Arrays(6) /\ DOMAIN t = 0 .. 5 /\ Holds(t, 6)
             /\ Val(t, 6) = Val(y, 6) + w * Val(x, 4)
             /\ (y[5] = 0 => t[5] \in {0, 1})
<1> DEFINE q == Row(y, x, w, 4)   y4 == Wrap(y[4] + q.c)   e == Bit(y4 < q.c)
           y5 == Wrap(y[5] + e)   t == MulAdd1(y, x, w)
<1>1. Holds(y, 4) /\ y[4] \in Limb /\ y[5] \in Limb /\ Power(6) = (B * B) * Power(4)
      /\ Val(y, 6) = Val(y, 4) + Power(4) * (y[4] + B * y[5])
  BY SixLimbs
<1>2. /\ q.d \in Arrays(4) /\ Holds(q.d, 4) /\ DOMAIN q.d = 0 .. 3
      /\ q.c \in Limb
      /\ Val(q.d, 4) + Power(4) * q.c = Val(y, 4) + w * Val(x, 4)
  <2> DEFINE n == 4
  <2>1. n \in Nat /\ Holds(y, n) /\ Holds(x, n) /\ n - 1 = 3
    BY <1>1
  <2> HIDE DEF n
  <2>2. LET s == Row(y, x, w, n)
         IN  /\ s.d \in Arrays(n) /\ Holds(s.d, n) /\ DOMAIN s.d = 0 .. n - 1
             /\ s.c \in Limb
             /\ Val(s.d, n) + Power(n) * s.c = Val(y, n) + w * Val(x, n)
    BY <2>1, RowIs
  <2> QED
    BY <2>1, <2>2 DEF n
<1>3. y4 \in Limb /\ e \in {0, 1} /\ y4 + B * e = y[4] + q.c
  <2> HIDE DEF q
  <2> QED
    BY <1>1, <1>2, WrapSum
<1>4. t = [i \in 0 .. 5 |-> CASE i < 4 -> q.d[i] [] i = 4 -> y4 [] OTHER -> y5]
  BY DEF MulAdd1
<1>5. /\ B \in Nat /\ B >= 2 /\ Power(4) \in Nat \ {0} /\ w \in Nat
      /\ Val(q.d, 4) \in Nat /\ Val(y, 4) \in Nat /\ Val(x, 4) \in Nat
  BY <1>1, <1>2, Base, ValRange, PowerStep DEF Limb
<1>6. y[5] + e \in Limb /\ y5 = y[5] + e
  <2> HIDE DEF q, y4, e
  <2> DEFINE p == Power(4)   v == Val(q.d, 4)   u == w * Val(x, 4)   yy == Val(y, 4)
             c == q.c   g == y[4]   h == y[5]
  <2>1. /\ p \in Nat \ {0} /\ v \in Nat /\ u \in Nat /\ yy \in Nat
        /\ c \in Limb /\ g \in Limb /\ h \in Limb
        /\ v + p * c = yy + u /\ y4 + B * e = g + c
        /\ (yy + p * (g + B * h)) + u < (B * B) * p
    BY <1>1, <1>2, <1>3, <1>5
  <2> HIDE DEF p, v, u, yy, c, g, h
  <2>2. p * (g + B * h) = p * g + p * (B * h) /\ p * (g + c) = p * g + p * c
        /\ p * (y4 + B * e) = p * y4 + p * (B * e)
        /\ p * (B * (h + e)) = p * (B * h) + p * (B * e)
    BY <1>3, <1>5, <2>1 DEF Limb
  <2> DEFINE pg == p * g   pc == p * c   pbh == p * (B * h)   pbe == p * (B * e)   py == p * y4
  <2>3. pg \in Nat /\ pc \in Nat /\ pbh \in Nat /\ pbe \in Nat /\ py \in Nat
    BY <1>3, <1>5, <2>1 DEF Limb
  <2>4. p * (B * (h + e)) < (B * B) * p
    <3>1. p * (g + B * h) = pg + pbh /\ pg + pc = py + pbe /\ p * (B * (h + e)) = pbh + pbe
      BY <2>1, <2>2
    <3>2. (yy + (pg + pbh)) + u < (B * B) * p /\ (B * B) * p \in Nat
      BY <1>5, <2>1, <3>1
    <3>3. v + pc = yy + u
      BY <2>1
    <3> HIDE DEF pg, pc, pbh, pbe, py
    <3> QED
      BY <2>1, <2>3, <3>1, <3>2, <3>3
  <2>5. h + e <= B - 1
    <3> SUFFICES ASSUME h + e >= B PROVE FALSE
      BY <1>3, <1>5, <2>1 DEF Limb
    <3> DEFINE s == (h + e) - B
    <3>1. s \in Nat /\ h + e = B + s
      BY <1>3, <1>5, <2>1 DEF Limb
    <3> HIDE DEF s
    <3>2. p * (B * (B + s)) = (B * B) * p + p * (B * s) /\ p * (B * s) \in Nat /\ (B * B) * p \in Nat
      BY <1>5, <2>1, <3>1
    <3> QED
      BY <2>4, <3>1, <3>2
  <2>6. h + e \in Limb
    BY <1>3, <1>5, <2>1, <2>5 DEF Limb
  <2>7. Wrap(h + e) = h + e
    <3> DEFINE s == h + e
    <3>1. s \in Int /\ s \in Limb
      BY <1>5, <2>6 DEF Limb
    <3> HIDE DEF s
    <3>2. Wrap(s) = s
      BY <3>1, WrapNear
    <3> QED
      BY <3>2 DEF s
  <2> QED
    BY <2>6, <2>7 DEF h
<1>7. Holds(t, 6) /\ DOMAIN t = 0 .. 5 /\ t \in Arrays(6)
      /\ (\A i \in 0 .. 3 : t[i] = q.d[i]) /\ t[4] = y4 /\ t[5] = y5
  <2>1. \A i \in 0 .. 3 : q.d[i] \in Limb
    BY <1>2 DEF Holds
  <2> HIDE DEF q, y4, y5
  <2>2. DOMAIN t = 0 .. 5
        /\ (\A i \in 0 .. 3 : t[i] = q.d[i]) /\ t[4] = y4 /\ t[5] = y5
    BY <1>4
  <2>3. y5 \in Limb
    BY <1>6
  <2>4. \A i \in 0 .. 5 : t[i] \in Limb
    <3>1. \A i \in 0 .. 5 : i \in 0 .. 3 \/ i = 4 \/ i = 5
      OBVIOUS
    <3> HIDE DEF t
    <3> QED
      BY <1>3, <2>1, <2>2, <2>3, <3>1
  <2>5. t = [i \in 0 .. 5 |-> t[i]]
    BY <1>4
  <2> HIDE DEF t
  <2> QED
    BY <2>2, <2>4, <2>5 DEF Holds, Arrays
<1>8. Val(t, 4) = Val(q.d, 4)
  <2> DEFINE n == 4
  <2>1. n \in Nat /\ Holds(q.d, n) /\ \A i \in 0 .. n - 1 : q.d[i] = t[i]
    BY <1>2, <1>7
  <2> HIDE DEF n, t, q
  <2>2. Val(q.d, n) = Val(t, n)
    BY <2>1, ValSame
  <2> QED
    BY <2>2 DEF n
<1>9. Val(t, 6) = Val(t, 4) + Power(4) * (y4 + B * (y[5] + e))
  <2> HIDE DEF t
  <2>1. Val(t, 6) = Val(t, 4) + Power(4) * (t[4] + B * t[5])
    BY <1>7, SixLimbs
  <2> QED
    BY <1>6, <1>7, <2>1
<1>10. Val(t, 6) = Val(y, 6) + w * Val(x, 4)
  <2> HIDE DEF q, y4, e, t
  <2> DEFINE p == Power(4)   v == Val(q.d, 4)   u == w * Val(x, 4)   yy == Val(y, 4)
             c == q.c   g == y[4]   h == y[5]
  <2>1. /\ p \in Nat \ {0} /\ v \in Nat /\ u \in Nat /\ yy \in Nat
        /\ c \in Nat /\ g \in Nat /\ h \in Nat /\ y4 \in Nat /\ e \in Nat
        /\ v + p * c = yy + u /\ y4 + B * e = g + c
        /\ Val(y, 6) = yy + p * (g + B * h)
        /\ Val(t, 6) = v + p * (y4 + B * (h + e))
    BY <1>1, <1>2, <1>3, <1>5, <1>8, <1>9, Base DEF Limb
  <2> HIDE DEF p, v, u, yy, c, g, h
  <2>2. y4 + B * (h + e) = (g + c) + B * h
    <3>1. B * (h + e) = B * h + B * e
      BY <1>5, <2>1
    <3> QED
      BY <1>5, <2>1, <3>1
  <2>3. p * ((g + c) + B * h) = p * (g + B * h) + p * c
    BY <1>5, <2>1
  <2> DEFINE d == p * (g + B * h)   f == p * c
  <2>4. d \in Nat /\ f \in Nat /\ Val(t, 6) = v + (d + f) /\ v + f = yy + u /\ Val(y, 6) = yy + d
    <3>1. v + f = yy + u /\ Val(y, 6) = yy + d
      BY <2>1
    <3>2. d \in Nat /\ f \in Nat
      BY <1>5, <2>1
    <3>3. Val(t, 6) = v + p * ((g + c) + B * h)
      BY <2>1, <2>2
    <3>4. p * ((g + c) + B * h) = d + f
      BY <2>3
    <3> HIDE DEF d, f
    <3> QED
      BY <3>1, <3>2, <3>3, <3>4
  <2> HIDE DEF d, f
  <2>5. Val(t, 6) = Val(y, 6) + u
    BY <2>1, <2>4
  <2> QED
    BY <2>5 DEF u
<1>11. y[5] = 0 => t[5] \in {0, 1}
  <2> HIDE DEF t, q, y4, e
  <2> QED
    BY <1>3, <1>6, <1>7
<1> QED
  BY <1>7, <1>10, <1>11

(* The registers after one position, with a new topmost one.               *)
LEMMA RotateIs ==
  ASSUME NEW k \in Nat, NEW y, DOMAIN y = 0 .. k, Holds(y, k + 1), NEW top \in Limb
  PROVE  LET r == Rotate(y, top)
         IN  /\ r \in Arrays(k + 1) /\ DOMAIN r = 0 .. k /\ Holds(r, k + 1)
             /\ Val(r, k + 1) = Val(From(y, 1, k), k) + Power(k) * top
             /\ r[k] = top
<1> DEFINE r == Rotate(y, top)   f == From(y, 1, k)
<1>1. r = [i \in 0 .. k |-> IF i + 1 \in 0 .. k THEN y[i + 1] ELSE top]
  BY DEF Rotate
<1>2. \A i \in 0 .. k - 1 : i \in 0 .. k /\ r[i] = y[i + 1] /\ f[i] = y[i + 1] /\ i + 1 \in 0 .. k
  <2>1. \A i \in 0 .. k - 1 : i \in 0 .. k /\ i + 1 \in 0 .. k /\ 1 + i = i + 1
    OBVIOUS
  <2> QED
    BY <1>1, <2>1 DEF From
<1>3. r[k] = top /\ k \in 0 .. k /\ k + 1 \notin 0 .. k
  <2>1. k \in 0 .. k /\ k + 1 \notin 0 .. k
    OBVIOUS
  <2> QED
    BY <1>1, <2>1
<1>4. \A i \in 0 .. k : y[i] \in Limb
  BY DEF Holds
<1>5. \A i \in 0 .. k : r[i] \in Limb
  <2>1. \A i \in 0 .. k : i = k \/ i \in 0 .. k - 1
    OBVIOUS
  <2> HIDE DEF r, f
  <2> QED
    BY <1>2, <1>3, <1>4, <2>1
<1>6. DOMAIN r = 0 .. k /\ r = [i \in 0 .. k |-> r[i]] /\ (k + 1) - 1 = k
  BY <1>1
<1>7. r \in Arrays(k + 1) /\ Holds(r, k + 1) /\ Holds(r, k) /\ Holds(f, k)
  <2> HIDE DEF r, f
  <2>1. \A i \in 0 .. k - 1 : i \in 0 .. k
    OBVIOUS
  <2> QED
    BY <1>2, <1>5, <1>6, <2>1 DEF Arrays, Holds
<1>8. Val(r, k) = Val(f, k)
  <2> HIDE DEF r, f
  <2> QED
    BY <1>2, <1>7, ValSame
<1>9. Val(r, k + 1) = Val(r, k) + Power(k) * r[k]
  <2> HIDE DEF r
  <2> QED
    BY <1>7, ValStep
<1> QED
  BY <1>3, <1>6, <1>7, <1>8, <1>9

(* A row of the product and a reduction, with one limb dropped, keep an    *)
(* accumulator below the sum of multiplicand and modulus.                  *)
LEMMA RowFits ==
  ASSUME NEW a \in Nat, NEW n \in Nat, NEW t \in Nat, NEW q \in Limb, NEW w \in Limb,
         NEW u \in Nat, t < a + n, u = (t + q * a) + w * n
  PROVE  /\ u < B * (a + n) /\ t + q * a < B * (a + n)
         /\ \A v \in Int : B * v = u => v < a + n
<1>1. /\ B \in Nat /\ B >= 2 /\ q \in Nat /\ w \in Nat
      /\ (B - 1) - q \in Nat /\ (B - 1) - w \in Nat
  BY Base DEF Limb
<1>2. /\ q * a \in Nat /\ w * n \in Nat
      /\ ((B - 1) - q) * a \in Nat /\ ((B - 1) - w) * n \in Nat
  BY <1>1
<1>3. /\ ((B - 1) - q) * a = B * a - a - q * a
      /\ ((B - 1) - w) * n = B * n - n - w * n
      /\ B * (a + n) = B * a + B * n
  BY <1>1
<1> DEFINE qa == q * a   wn == w * n   ba == B * a   bn == B * n
<1>4. /\ qa \in Nat /\ wn \in Nat /\ ba \in Int /\ bn \in Int
      /\ qa <= ba - a /\ wn <= bn - n /\ u = (t + qa) + wn /\ B * (a + n) = ba + bn
  BY <1>1, <1>2, <1>3
<1>5. u < B * (a + n) /\ t + qa < B * (a + n)
  <2> HIDE DEF qa, wn, ba, bn
  <2> QED
    BY <1>4
<1>6. \A v \in Int : B * v = u => v < a + n
  <2> SUFFICES ASSUME NEW v \in Int, B * v = u, v >= a + n PROVE FALSE
    OBVIOUS
  <2> DEFINE s == v - (a + n)
  <2>1. s \in Nat /\ B * s \in Nat /\ B * s = B * v - B * (a + n)
    BY <1>1
  <2> HIDE DEF s
  <2>2. B * v < B * (a + n) /\ B * v \in Int /\ B * (a + n) \in Int
    BY <1>1, <1>5
  <2> QED
    BY <2>1, <2>2
<1> QED
  BY <1>5, <1>6

(* What the reductions have in common: digits that clear the lowest limb.  *)
Clears(n, k0) == n \in Nat /\ k0 \in Limb /\ (n * k0 + 1) % B = 0

(* LL_U256_MONT_MUL_ADD and LL_U256_MONT_REDC1: one iteration of           *)
(* ll_u256_mont_mul.  The sixth register holds a bit at most and loses it. *)
LEMMA MontRowIs ==
  ASSUME NEW y, y \in Arrays(6), y[5] = 0, NEW x, Holds(x, 4), NEW n, Holds(n, 4),
         NEW d \in Limb, NEW k0, Clears(Val(n, 4), k0),
         Val(y, 6) < Val(x, 4) + Val(n, 4)
  PROVE  LET t == MontMulAdd(y, x, d)
             r == Rotate(Redc1(t, n, k0), 0)
         IN  /\ t[0] \in Limb /\ (Val(y, 6) + d * Val(x, 4)) % B = t[0]
             /\ r \in Arrays(6) /\ r[5] = 0
             /\ Val(r, 6) \in Nat /\ Val(r, 6) < Val(x, 4) + Val(n, 4)
             /\ B * Val(r, 6) = (Val(y, 6) + d * Val(x, 4)) + Wrap(t[0] * k0) * Val(n, 4)
<1> DEFINE t == MontMulAdd(y, x, d)   w == Wrap(t[0] * k0)   u == Redc1(t, n, k0)
           r == Rotate(u, 0)
           X == Val(x, 4)   N == Val(n, 4)   Y == Val(y, 6)   T == Y + d * X   S == T + w * N
<1>1. /\ Holds(y, 6) /\ X \in Nat /\ N \in Nat /\ Y \in Nat /\ B \in Nat /\ B >= 2
      /\ X < Power(4) /\ N < Power(4) /\ Power(6) = (B * B) * Power(4) /\ Power(4) \in Nat
      /\ d \in Nat /\ k0 \in Nat
  <2>1. Holds(y, 6)
    BY DEF Arrays, Holds
  <2>2. k0 \in Limb
    BY DEF Clears
  <2> QED
    BY <2>1, <2>2, SixLimbs, ValRange, PowerStep, Base DEF Limb
<1>2. T \in Nat
  BY <1>1
<1>3. B * (X + N) <= Power(6)
  <2> DEFINE p == Power(4)   g == (p - X) + (p - N)   h == B - 2
  <2>1. g \in Nat /\ h \in Nat /\ p \in Nat
    BY <1>1
  <2>2. B * g \in Nat /\ (h * B) * p \in Nat
    BY <1>1, <2>1
  <2>3. B * g = (2 * B) * p - B * (X + N) /\ (h * B) * p = (B * B) * p - (2 * B) * p
    BY <1>1, <2>1
  <2> DEFINE b2p == (2 * B) * p   bx == B * (X + N)   bbp == (B * B) * p
  <2>4. b2p \in Int /\ bx \in Int /\ bbp \in Int
    BY <1>1
  <2> HIDE DEF b2p, bx, bbp
  <2>5. bx <= b2p /\ b2p <= bbp
    BY <2>2, <2>3, <2>4 DEF b2p, bx, bbp
  <2> QED
    BY <1>1, <2>4, <2>5 DEF bx, bbp
<1>4. T < B * (X + N)
  <2> DEFINE o == 0
  <2>1. o \in Limb /\ T = (Y + d * X) + o * N
    BY <1>1, <1>2, Base DEF Limb
  <2> HIDE DEF o, T, X, Y, N
  <2> QED
    BY <1>1, <1>2, <2>1, RowFits DEF T, X, Y, N
<1>5. t \in Arrays(6) /\ DOMAIN t = 0 .. 5 /\ Holds(t, 6) /\ Val(t, 6) = T
  <2>1. [y EXCEPT ![5] = 0] = y
    BY DEF Arrays
  <2>2. t = MulAdd1(y, x, d)
    BY <2>1 DEF MontMulAdd
  <2>3. T < Power(6)
    <3> DEFINE q == B * (X + N)   p == Power(6)
    <3>1. q \in Int /\ p \in Int
      BY <1>1
    <3> HIDE DEF q, p, T
    <3>2. T < q /\ q <= p
      BY <1>3, <1>4 DEF q, p
    <3> QED
      BY <1>2, <3>1, <3>2 DEF p
  <2> HIDE DEF t
  <2> QED
    BY <1>1, <2>2, <2>3, MulAdd1Is
<1>6. t[0] \in Limb /\ w \in Limb /\ w \in Nat
  <2>1. t[0] \in Limb
    BY <1>5 DEF Holds
  <2> DEFINE g == t[0] * k0
  <2>2. g \in Int /\ B \in Nat \ {0}
    BY <1>1, <2>1, Base DEF Limb
  <2> HIDE DEF g, t
  <2>3. g % B \in 0 .. B - 1
    BY <2>2, DivMod
  <2> QED
    BY <1>1, <2>1, <2>3 DEF Wrap, Limb, g
<1>7. S \in Nat /\ S < B * (X + N) /\ \A v \in Int : B * v = S => v < X + N
  <2>1. S \in Nat
    <3> HIDE DEF w, T, N
    <3> QED
      BY <1>1, <1>2, <1>6
  <2>2. /\ X \in Nat /\ N \in Nat /\ Y \in Nat /\ d \in Limb /\ w \in Limb /\ S \in Nat
        /\ S = (Y + d * X) + w * N /\ Y < X + N
    BY <1>1, <1>6, <2>1
  <2> HIDE DEF S, X, N, Y, w
  <2> QED
    BY <2>2, RowFits
<1>8. u \in Arrays(6) /\ DOMAIN u = 0 .. 5 /\ Holds(u, 6) /\ Val(u, 6) = S
  <2>1. u = MulAdd1(t, n, w)
    BY DEF Redc1
  <2>2. S < Power(6)
    <3> DEFINE q == B * (X + N)   p == Power(6)
    <3>1. q \in Int /\ p \in Int
      BY <1>1
    <3> HIDE DEF q, p, S
    <3>2. S < q /\ q <= p
      BY <1>3, <1>7 DEF q, p
    <3> QED
      BY <1>7, <3>1, <3>2 DEF p
  <2>3. Val(t, 6) + w * Val(n, 4) = S
    BY <1>5
  <2> HIDE DEF t, u, w, S
  <2> QED
    BY <1>5, <1>6, <2>1, <2>2, <2>3, MulAdd1Is
<1> DEFINE f == From(t, 1, 5)   g == From(u, 1, 5)   F == Val(f, 5)   G == Val(g, 5)
<1>9. T = t[0] + B * F /\ S = u[0] + B * G /\ u[0] \in Limb /\ F \in Nat /\ G \in Nat
      /\ Holds(g, 5)
  <2> DEFINE k == 5
  <2>1. k \in Nat /\ k + 1 = 6
    OBVIOUS
  <2> HIDE DEF k, t, u
  <2>2. /\ Val(t, k + 1) = t[0] + B * Val(From(t, 1, k), k)
        /\ Val(u, k + 1) = u[0] + B * Val(From(u, 1, k), k) /\ u[0] \in Limb
    BY <1>5, <1>8, <2>1, FirstLimb
  <2>3. Holds(From(t, 1, k), k) /\ Holds(From(u, 1, k), k)
    <3>1. \A j \in 0 .. k - 1 : 1 + j \in 0 .. 5 /\ From(t, 1, k)[j] = t[1 + j]
                                 /\ From(u, 1, k)[j] = u[1 + j]
      BY DEF From, k
    <3> QED
      BY <1>5, <1>8, <3>1 DEF Holds
  <2>4. Val(From(t, 1, k), k) \in Nat /\ Val(From(u, 1, k), k) \in Nat
    <3> DEFINE e1 == From(t, 1, k)   e2 == From(u, 1, k)
    <3> HIDE DEF e1, e2
    <3>1. Val(e1, k) \in Nat /\ Val(e2, k) \in Nat
      BY <2>1, <2>3, ValRange DEF e1, e2
    <3> QED
      BY <3>1 DEF e1, e2
  <2> QED
    BY <1>5, <1>8, <2>2, <2>3, <2>4 DEF k
<1>10. u[0] = 0
  <2> DEFINE t0 == t[0]   x0 == u[0]
  <2>1. N \in Nat /\ k0 \in Limb /\ (N * k0 + 1) % B = 0
    BY DEF Clears
  <2>2. x0 + B * G = (t0 + B * F) + Wrap(t0 * k0) * N
    BY <1>9
  <2>3. t0 \in Limb /\ x0 \in Limb /\ F \in Int /\ G \in Int
    BY <1>6, <1>9
  <2> HIDE DEF t0, x0, F, G, N
  <2>4. x0 = 0
    BY <2>1, <2>2, <2>3, LowestIsZero
  <2> QED
    BY <2>4 DEF x0
<1>11. r \in Arrays(6) /\ Val(r, 6) = G /\ r[5] = 0
  <2> DEFINE k == 5   o == 0
  <2>1. k \in Nat /\ k + 1 = 6 /\ DOMAIN u = 0 .. k /\ Holds(u, k + 1) /\ o \in Limb
    BY <1>8, Base DEF Limb
  <2> HIDE DEF k, u, o
  <2>2. LET rr == Rotate(u, o)
        IN  /\ rr \in Arrays(k + 1) /\ DOMAIN rr = 0 .. k /\ Holds(rr, k + 1)
            /\ Val(rr, k + 1) = Val(From(u, 1, k), k) + Power(k) * o
            /\ rr[k] = o
    BY <2>1, RotateIs
  <2>3. Power(k) * o = 0
    BY <2>1, PowerStep DEF o
  <2>4. Val(From(u, 1, k), k) = G
    BY DEF k
  <2> QED
    BY <1>9, <2>1, <2>2, <2>3, <2>4 DEF o, k
<1>12. T % B = t[0]
  <2> DEFINE t0 == t[0]
  <2>1. B \in Nat \ {0} /\ T \in Int /\ F \in Int /\ t0 \in 0 .. B - 1 /\ T = B * F + t0
    <3>1. T = t0 + B * F /\ t0 \in Limb
      BY <1>6, <1>9
    <3>2. T \in Int /\ F \in Int /\ B \in Nat \ {0}
      BY <1>1, <1>2, <1>9
    <3> HIDE DEF T, F, t0
    <3>3. t0 \in 0 .. B - 1
      BY <3>1 DEF Limb
    <3> QED
      BY <3>1, <3>2, <3>3
  <2> HIDE DEF T, F, t0
  <2>2. T % B = t0
    BY <2>1, DivModIs
  <2> QED
    BY <2>2 DEF t0
<1>13. B * G = S /\ G < X + N
  <2>1. B * G = S
    <3> HIDE DEF S, G
    <3> QED
      BY <1>1, <1>7, <1>9, <1>10
  <2> HIDE DEF S, G, X, N
  <2> QED
    BY <1>7, <1>9, <2>1
<1> QED
  BY <1>6, <1>9, <1>11, <1>12, <1>13

(* LL_U256_MONT_REDC2: one iteration of ll_u256_mont_reduce and            *)
(* ll_u256_mont_sqr.                                                       *)
LEMMA Redc2Is ==
  ASSUME NEW y, Holds(y, 4), NEW n, Holds(n, 4), NEW k0, Clears(Val(n, 4), k0)
  PROVE  LET r == Redc2(y, n, k0)
         IN  /\ y[0] \in Limb /\ Val(y, 4) % B = y[0]
             /\ r \in Arrays(4) /\ Holds(r, 4) /\ Val(r, 4) \in Nat
             /\ B * Val(r, 4) = Val(y, 4) + Wrap(y[0] * k0) * Val(n, 4)
<1> DEFINE w == Wrap(y[0] * k0)   q == Row(y, n, w, 4)   r == Redc2(y, n, k0)
           N == Val(n, 4)   Y == Val(y, 4)   k == 3
<1>1. /\ B \in Nat \ {0} /\ Y \in Nat /\ N \in Nat /\ k \in Nat /\ k + 1 = 4
      /\ y[0] \in Limb /\ k0 \in Limb /\ (N * k0 + 1) % B = 0
  BY Base, ValRange DEF Clears, Holds
<1>2. w \in Limb
  <2> DEFINE g == y[0] * k0
  <2>1. g \in Int /\ B \in Nat \ {0}
    BY <1>1 DEF Limb
  <2> HIDE DEF g
  <2>2. g % B \in 0 .. B - 1
    BY <2>1, DivMod
  <2> QED
    BY <2>2 DEF Wrap, Limb, g
<1>3. /\ Holds(q.d, k + 1) /\ DOMAIN q.d = 0 .. k /\ q.c \in Limb
      /\ Val(q.d, k + 1) + Power(k + 1) * q.c = Y + w * N
  <2> HIDE DEF w
  <2> DEFINE l == 4
  <2>1. l \in Nat /\ Holds(y, l) /\ Holds(n, l) /\ w \in Limb
    BY <1>2
  <2>3. l - 1 = k /\ l = k + 1
    OBVIOUS
  <2> HIDE DEF l
  <2>2. LET s == Row(y, n, w, l)
        IN  /\ s.d \in Arrays(l) /\ Holds(s.d, l) /\ DOMAIN s.d = 0 .. l - 1
            /\ s.c \in Limb
            /\ Val(s.d, l) + Power(l) * s.c = Val(y, l) + w * Val(n, l)
    BY <2>1, RowIs
  <2> QED
    BY <2>2, <2>3 DEF l
<1> DEFINE f == From(y, 1, k)   g == From(q.d, 1, k)   F == Val(f, k)   G == Val(g, k)
           x0 == q.d[0]   y0 == y[0]   c == q.c
<1>4. Y = y0 + B * F /\ Val(q.d, k + 1) = x0 + B * G /\ x0 \in Limb
  <2>1. Holds(y, k + 1)
    OBVIOUS
  <2> HIDE DEF k, q
  <2>2. Val(y, k + 1) = y[0] + B * Val(From(y, 1, k), k)
    BY <1>1, <2>1, FirstLimb
  <2> DEFINE qd == q.d
  <2> HIDE DEF qd
  <2>3. Val(qd, k + 1) = qd[0] + B * Val(From(qd, 1, k), k) /\ qd[0] \in Limb
    BY <1>1, <1>3, FirstLimb DEF qd
  <2> QED
    BY <1>1, <2>2, <2>3 DEF qd
<1>5. F \in Nat /\ G \in Nat
  <2>1. Holds(f, k) /\ Holds(g, k)
    <3>1. \A j \in 0 .. k - 1 : 1 + j \in 0 .. 3 /\ f[j] = y[1 + j] /\ g[j] = q.d[1 + j]
      BY DEF From
    <3>2. \A j \in 0 .. 3 : q.d[j] \in Limb /\ y[j] \in Limb
      BY <1>3 DEF Holds
    <3> HIDE DEF f, g
    <3> QED
      BY <3>1, <3>2 DEF Holds
  <2> HIDE DEF f, g, k
  <2> QED
    BY <1>1, <2>1, ValRange
<1> DEFINE p == Power(k)   H == G + p * c
<1>6. /\ x0 + B * H = (y0 + B * F) + w * N
      /\ H \in Nat /\ c \in Nat /\ p \in Nat
  <2>1. p \in Nat /\ c \in Nat /\ Power(k + 1) = B * p
    <3>1. p \in Nat /\ Power(k + 1) = B * p
      <4> HIDE DEF k
      <4> QED
        BY <1>1, PowerStep
    <3> QED
      BY <1>1, <1>3, <3>1 DEF Limb
  <2>2. (x0 + B * G) + (B * p) * c = (y0 + B * F) + w * N
    BY <1>3, <1>4, <2>1
  <2> HIDE DEF p, c, G, F, x0, y0, w
  <2>3. B * (G + p * c) = B * G + (B * p) * c /\ p * c \in Nat
    BY <1>1, <1>5, <2>1
  <2>4. (x0 + B * G) + (B * p) * c = x0 + (B * G + (B * p) * c)
    BY <1>1, <1>4, <1>5, <2>1 DEF Limb
  <2> QED
    BY <1>5, <2>1, <2>2, <2>3, <2>4
<1>7. x0 = 0
  <2>1. /\ N \in Nat /\ k0 \in Limb /\ (N * k0 + 1) % B = 0
        /\ y0 \in Limb /\ x0 \in Limb /\ F \in Int /\ H \in Int
        /\ x0 + B * H = (y0 + B * F) + Wrap(y0 * k0) * N
    BY <1>1, <1>4, <1>5, <1>6
  <2> HIDE DEF N, y0, x0, F, H
  <2> QED
    BY <2>1, LowestIsZero
<1>8. r \in Arrays(4) /\ Holds(r, 4) /\ Val(r, 4) = H
  <2>1. r = Rotate(q.d, c)
    BY DEF Redc2
  <2> DEFINE qd == q.d
  <2>2. k \in Nat /\ DOMAIN qd = 0 .. k /\ Holds(qd, k + 1) /\ c \in Limb
    BY <1>3
  <2> HIDE DEF k, qd, c, r
  <2>3. LET rr == Rotate(qd, c)
        IN  /\ rr \in Arrays(k + 1) /\ DOMAIN rr = 0 .. k /\ Holds(rr, k + 1)
            /\ Val(rr, k + 1) = Val(From(qd, 1, k), k) + Power(k) * c
            /\ rr[k] = c
    BY <2>2, RotateIs
  <2> QED
    BY <1>1, <2>1, <2>3 DEF qd
<1>9. B * H = Y + w * N
  <2>1. Y = y0 + B * F
    BY <1>4
  <2> HIDE DEF x0, H, y0, F, w, N, Y
  <2> QED
    BY <1>1, <1>6, <1>7, <2>1
<1>10. Y % B = y0
  <2>1. B \in Nat \ {0} /\ Y \in Int /\ F \in Int
    BY <1>1, <1>5
  <2>2. y0 \in 0 .. B - 1
    BY <1>1 DEF Limb
  <2>3. Y = B * F + y0
    <3>1. Y = y0 + B * F
      BY <1>4
    <3> HIDE DEF Y, y0, F
    <3> QED
      BY <2>1, <2>2, <3>1
  <2> HIDE DEF Y, y0, F
  <2> QED
    BY <2>1, <2>2, <2>3, DivModIs
<1> QED
  BY <1>1, <1>6, <1>8, <1>9, <1>10

(* What a conditional subtraction makes of t.                              *)
Reduced(t, n, p) == (IF t >= n THEN t - n ELSE t) % p

(* s is low - n, with the borrow c beyond p.                               *)
Difference(low, n, p, s, c) ==
  /\ p \in Nat \ {0} /\ n \in 1 .. p - 1 /\ low \in 0 .. p - 1
  /\ s \in 0 .. p - 1 /\ c \in {0, 1} /\ s - p * c = low - n

(* A conditional subtraction of n from a number with a limb on top of it:  *)
(* the borrow is covered by the top limb exactly if n can be subtracted.   *)
LEMMA Subtracts ==
  ASSUME NEW p, NEW n, NEW low, NEW s, NEW c, Difference(low, n, p, s, c), NEW top \in Nat
  PROVE  Reduced(low + p * top, n, p) = IF top >= c THEN s ELSE low
<1> DEFINE pt == p * top   t == low + pt
<1> USE DEF Difference
<1>1. pt \in Nat /\ t \in Nat /\ (top = 0 => pt = 0)
  BY SMT
<1>2. CASE top >= c
  <2> DEFINE k == top - c   pk == p * k
  <2>1. k \in Nat /\ pk \in Nat /\ pk = pt - p * c
    BY <1>2
  <2> HIDE DEF k, pk, pt
  <2>2. t - n = pk + s /\ t >= n
    BY <1>1, <2>1
  <2> DEFINE x == t - n
  <2>3. x \in Int /\ x = p * k + s
    BY <1>1, <2>1, <2>2 DEF pk
  <2> HIDE DEF x
  <2>4. x % p = s
    BY <2>1, <2>3, DivModIs
  <2> QED
    BY <1>1, <1>2, <2>2, <2>4 DEF x, pt, Reduced
<1>3. CASE ~(top >= c)
  <2>1. top = 0 /\ c = 1
    BY <1>3
  <2>2. t = low /\ low < n
    <3> HIDE DEF pt
    <3> QED
      BY <1>1, <2>1
  <2>3. low % p = low
    <3>1. low = p * 0 + low /\ low \in Int /\ 0 \in Int
      OBVIOUS
    <3> QED
      BY <3>1, DivModIs
  <2> HIDE DEF pt
  <2>4. ~(t >= n)
    BY <1>1, <2>2
  <2> QED
    BY <1>3, <2>2, <2>3, <2>4 DEF pt, Reduced
<1> QED
  BY <1>2, <1>3

(* ... for arrays, with the difference and the borrow of ll_sub_limbs.     *)
LEMMA SubtractsLimbs ==
  ASSUME NEW l \in Nat, NEW y, Holds(y, l), NEW n, Holds(n, l), Val(n, l) # 0, NEW top \in Nat
  PROVE  LET s == SubLimbs(y, n, l)
         IN  /\ s.d \in Arrays(l) /\ s.c \in {0, 1}
             /\ Val(IF top >= s.c THEN s.d ELSE y, l)
                  = Reduced(Val(y, l) + Power(l) * top, Val(n, l), Power(l))
<1> DEFINE s == SubLimbs(y, n, l)   p == Power(l)   N == Val(n, l)   Y == Val(y, l)
           V == Val(s.d, l)   c == s.c
<1>1. s.d \in Arrays(l) /\ Holds(s.d, l) /\ c \in {0, 1} /\ V - p * c = Y - N
  BY SubLimbsIs
<1>2. p \in Nat \ {0} /\ N \in 1 .. p - 1 /\ Y \in 0 .. p - 1 /\ V \in 0 .. p - 1
  <2>1. p \in Nat \ {0} /\ N \in Nat /\ N < p /\ Y \in Nat /\ Y < p
    BY ValRange, PowerStep
  <2>2. V \in Nat /\ V < p
    <3> DEFINE d == s.d
    <3> HIDE DEF s, d
    <3>1. Val(d, l) \in Nat /\ Val(d, l) < Power(l)
      BY <1>1, ValRange DEF d
    <3> QED
      BY <3>1 DEF d
  <2> HIDE DEF p, N, Y, V
  <2> QED
    BY <2>1, <2>2 DEF N
<1>3. Reduced(Y + p * top, N, p) = IF top >= c THEN V ELSE Y
  <2>1. /\ p \in Nat \ {0} /\ N \in 1 .. p - 1 /\ Y \in 0 .. p - 1 /\ V \in 0 .. p - 1
        /\ c \in {0, 1} /\ V - p * c = Y - N
    BY <1>1, <1>2
  <2> HIDE DEF p, N, Y, V, c
  <2>2. Difference(Y, N, p, V, c)
    BY <2>1 DEF Difference
  <2> QED
    BY <2>2, Subtracts
<1>4. Val(IF top >= c THEN s.d ELSE y, l) = IF top >= c THEN V ELSE Y
  <2>1. CASE top >= c
    BY <2>1
  <2>2. CASE ~(top >= c)
    BY <2>2
  <2> QED
    BY <2>1, <2>2
<1>5. Val(IF top >= c THEN s.d ELSE y, l) = Reduced(Y + p * top, N, p)
  <2> HIDE DEF s
  <2> QED
    BY <1>3, <1>4
<1> QED
  BY <1>1, <1>5

(* The borrow that LL_U256_MONT_COND_SUB finds by "or". *)
BorrowOutCond(y, x, p) == Or(Bit(y < p), Bit(Wrap(y - p) < x))

CondSubLoop(top, y, x, c) ==
  /\ c[0] = 0
  /\ \A k \in 1 .. 4 : c[k] = BorrowOutCond(y[k - 1], x[k - 1], c[k - 1])
  /\ CondSubU256(top, y, x) =
       IF top >= c[4] THEN [i \in 0 .. 3 |-> Wrap(y[i] - c[i] - x[i])] ELSE y

(* The two borrows of a limb are never both set. *)
LEMMA BorrowOutCondIs ==
  ASSUME NEW a \in Limb, NEW b \in Limb, NEW p \in {0, 1}
  PROVE  BorrowOutCond(a, b, p) = BorrowOut(a, b, p) /\ BorrowOut(a, b, p) \in {0, 1}
<1>1. Bit(a < p) + Bit(Wrap(a - p) < b) \in {0, 1}
  BY BorrowOutIs DEF BorrowOut
<1>2. Bit(a < p) \in {0, 1} /\ Bit(Wrap(a - p) < b) \in {0, 1}
  BY DEF Bit
<1> DEFINE e == Bit(a < p)   f == Bit(Wrap(a - p) < b)
<1> HIDE DEF e, f
<1>3. Or(e, f) = e + f
  BY <1>1, <1>2, OrIs DEF e, f
<1> QED
  BY <1>1, <1>3 DEF e, f, BorrowOut, BorrowOutCond

(* The recursive function of CondSubU256 exists.                           *)
LEMMA CondSubLoops ==
  ASSUME NEW y, NEW x, Holds(y, 4), Holds(x, 4), NEW top
  PROVE  \E c : CondSubLoop(top, y, x, c)
<1> DEFINE Body(c) == [i \in 0 .. 4 |->
               IF i = 0 THEN 0
               ELSE LET p == c[i - 1]
                        t == Wrap(y[i - 1] - p)
                    IN  Or(Bit(y[i - 1] < p), Bit(t < x[i - 1]))]
           C == CHOOSE c : c = Body(c)
           S == {0, 1}
           G == [k \in 1 .. 4 |-> [p \in S |-> BorrowOutCond(y[k - 1], x[k - 1], p)]]
<1>1. CondSubU256(top, y, x) =
        IF top >= C[4] THEN [i \in 0 .. 3 |-> Wrap(y[i] - C[i] - x[i])] ELSE y
  BY DEF CondSubU256
<1>2. \A k \in 1 .. 4, p \in S : G[k][p] = BorrowOutCond(y[k - 1], x[k - 1], p) /\ G[k][p] \in S
  <2>1. \A k \in 1 .. 4 : y[k - 1] \in Limb /\ x[k - 1] \in Limb
    BY DEF Holds
  <2> QED
    BY <2>1, BorrowOutCondIs
<1>3. Steps(4, S, 0, G)
  BY <1>2 DEF Steps
<1>4. PICK g \in [0 .. 4 -> S] : Follows(g, 4, 0, G)
  <2> HIDE DEF G, S
  <2> QED
    BY <1>3, Recursion
<1>5. g[0] = 0 /\ \A k \in 1 .. 4 : g[k] = BorrowOutCond(y[k - 1], x[k - 1], g[k - 1])
  <2>1. \A k \in 1 .. 4 : g[k - 1] \in S
    OBVIOUS
  <2> HIDE DEF G, S
  <2> QED
    BY <1>2, <1>4, <2>1 DEF Follows
<1>6. g = Body(g)
  BY <1>5 DEF BorrowOutCond
<1>7. C = Body(C)
  <2> HIDE DEF Body
  <2> QED
    BY <1>6
<1>8. C[0] = 0 /\ \A k \in 1 .. 4 : C[k] = BorrowOutCond(y[k - 1], x[k - 1], C[k - 1])
  <2> HIDE DEF C
  <2> QED
    BY <1>7 DEF BorrowOutCond
<1> QED
  <2> HIDE DEF C
  <2> QED
    BY <1>1, <1>8 DEF CondSubLoop

(* LL_U256_MONT_COND_SUB takes the difference that ll_sub_limbs computes.  *)
LEMMA CondSubU256Is ==
  ASSUME NEW y, NEW x, Holds(y, 4), Holds(x, 4), NEW top
  PROVE  LET s == SubLimbs(y, x, 4)
         IN  CondSubU256(top, y, x) = IF top >= s.c THEN s.d ELSE y
<1>1. PICK c : SubCarries(c, y, x, 4)
  BY SubLimbsCarries
<1>2. PICK g : CondSubLoop(top, y, x, g)
  BY CondSubLoops
<1> DEFINE T == {k \in 0 .. 4 : g[k] = c[k]}
<1>3. 0 \in T
  BY <1>1, <1>2 DEF SubCarries, CondSubLoop
<1>4. ASSUME NEW k \in 0 .. 4 - 1, k \in T PROVE k + 1 \in T
  <2>1. /\ k + 1 \in 1 .. 4 /\ (k + 1) - 1 = k /\ g[k] = c[k] /\ c[k] \in {0, 1}
        /\ y[k] \in Limb /\ x[k] \in Limb
    BY <1>1, <1>4 DEF SubCarries, Holds
  <2>2. c[k + 1] = BorrowOut(y[k], x[k], c[k]) /\ g[k + 1] = BorrowOutCond(y[k], x[k], c[k])
    BY <1>1, <1>2, <2>1 DEF SubCarries, CondSubLoop
  <2>3. g[k + 1] = c[k + 1]
    BY <2>1, <2>2, BorrowOutCondIs
  <2> QED
    BY <2>1, <2>3
<1>5. \A k \in 0 .. 4 : g[k] = c[k] /\ c[k] \in {0, 1}
  <2>1. 0 .. 4 \subseteq T
    <3> HIDE DEF T
    <3> QED
      BY <1>3, <1>4, InductionTo
  <2> QED
    BY <1>1, <2>1 DEF SubCarries
<1>6. \A k \in 0 .. 3 : Wrap(y[k] - g[k] - x[k]) = Wrap(y[k] - x[k] - c[k])
  <2> SUFFICES ASSUME NEW k \in 0 .. 3 PROVE Wrap(y[k] - g[k] - x[k]) = Wrap(y[k] - x[k] - c[k])
    OBVIOUS
  <2>1. y[k] \in Int /\ x[k] \in Int /\ c[k] \in Int /\ g[k] = c[k]
    BY <1>5, Base DEF Holds, Limb
  <2>2. y[k] - g[k] - x[k] = y[k] - x[k] - c[k]
    BY <2>1
  <2> QED
    BY <2>2
<1>7. [i \in 0 .. 3 |-> Wrap(y[i] - g[i] - x[i])] = [i \in 0 .. 3 |-> Wrap(y[i] - x[i] - c[i])]
  BY <1>6
<1>8. g[4] = c[4] /\ 4 - 1 = 3
  BY <1>5
<1> QED
  BY <1>1, <1>2, <1>7, <1>8 DEF SubCarries, CondSubLoop

(* ll_muladd_limb on a part of an array: rl limbs from limb k on, and the  *)
(* carry into the limb above them.                                         *)
RowAt(t, k, n, w, rl, l) == Into(t, k, MulAddLimb(From(t, k, rl + 1), n, w, rl, l).d)

(* The row changes the limbs from k to k + rl only and leaves the sum      *)
(* there.                                                                  *)
LEMMA RowAtIs ==
  ASSUME NEW l \in Nat, NEW rl \in Nat, l <= rl, NEW k \in Nat, NEW D \in Nat, k + rl + 1 <= D,
         NEW t, t \in Arrays(D), NEW n, Holds(n, l), NEW w \in Limb
  PROVE  LET u == RowAt(t, k, n, w, rl, l)
         IN  /\ u \in Arrays(D)
             /\ \A j \in 0 .. D - 1 : j \notin k .. k + rl => u[j] = t[j]
             /\ Holds(From(u, k, rl + 1), rl + 1)
             /\ Val(From(u, k, rl + 1), rl + 1) = Val(From(t, k, rl), rl) + w * Val(n, l)
<1> DEFINE f == From(t, k, rl + 1)   g == From(t, k, rl)   p == MulAddLimb(f, n, w, rl, l)
           u == RowAt(t, k, n, w, rl, l)   h == From(u, k, rl + 1)
<1>1. DOMAIN t = 0 .. D - 1 /\ (\A j \in 0 .. D - 1 : t[j] \in Limb)
  BY DEF Arrays
<1>2. \A j \in 0 .. rl : k + j \in 0 .. D - 1
  OBVIOUS
<1>3. /\ DOMAIN f = 0 .. rl /\ (\A j \in 0 .. rl : f[j] = t[k + j] /\ f[j] \in Limb)
      /\ (\A j \in 0 .. rl - 1 : g[j] = t[k + j])
  <2>1. (rl + 1) - 1 = rl
    OBVIOUS
  <2> QED
    BY <1>1, <1>2, <2>1 DEF From
<1>4. Holds(f, rl) /\ Val(f, rl) = Val(g, rl)
  <2> HIDE DEF f, g
  <2>1. \A j \in 0 .. rl - 1 : j \in 0 .. rl
    OBVIOUS
  <2>2. Holds(f, rl) /\ \A j \in 0 .. rl - 1 : f[j] = g[j]
    BY <1>3, <2>1 DEF Holds
  <2> QED
    BY <2>2, ValSame
<1>5. /\ p.d \in Arrays(rl + 1) /\ DOMAIN p.d = 0 .. rl /\ Holds(p.d, rl + 1)
      /\ Val(p.d, rl + 1) = Val(g, rl) + w * Val(n, l)
  <2> HIDE DEF f, g
  <2>1. l \in 0 .. rl /\ DOMAIN f = 0 .. rl /\ Holds(f, rl)
    BY <1>3, <1>4
  <2>2. LET m == MulAddLimb(f, n, w, rl, l)
        IN  /\ m.d \in Arrays(rl + 1) /\ DOMAIN m.d = 0 .. rl /\ Holds(m.d, rl + 1)
            /\ m.c = m.d[rl]
            /\ Val(m.d, rl + 1) = Val(f, rl) + w * Val(n, l)
    BY <2>1, MulAddLimbIs
  <2> QED
    BY <1>4, <2>2
<1>6. u = [j \in 0 .. D - 1 |-> IF j - k \in 0 .. rl THEN p.d[j - k] ELSE t[j]]
  <2> HIDE DEF p, f
  <2> QED
    BY <1>1, <1>5 DEF RowAt, Into, p, f
<1>7. \A j \in 0 .. rl : p.d[j] \in Limb
  <2> HIDE DEF p
  <2> QED
    BY <1>5 DEF Holds
<1>8. /\ u \in Arrays(D)
      /\ \A j \in 0 .. D - 1 : j \notin k .. k + rl => u[j] = t[j]
      /\ \A j \in 0 .. rl : u[k + j] = p.d[j]
  <2> HIDE DEF p, u
  <2>1. \A j \in 0 .. D - 1 : j \notin k .. k + rl => j - k \notin 0 .. rl
    OBVIOUS
  <2>2. \A j \in 0 .. rl : k + j \in 0 .. D - 1 /\ (k + j) - k = j
    OBVIOUS
  <2>3. \A j \in 0 .. D - 1 : u[j] \in Limb
    BY <1>1, <1>6, <1>7
  <2> QED
    BY <1>6, <2>1, <2>2, <2>3 DEF Arrays
<1>9. Holds(h, rl + 1) /\ Val(h, rl + 1) = Val(p.d, rl + 1)
  <2>1. \A j \in 0 .. (rl + 1) - 1 : p.d[j] = h[j]
    <3>1. (rl + 1) - 1 = rl
      OBVIOUS
    <3> HIDE DEF u, p
    <3> QED
      BY <1>8, <3>1 DEF From
  <2> DEFINE pd == p.d   r == rl + 1
  <2>2. Holds(pd, r) /\ r \in Nat /\ \A j \in 0 .. r - 1 : pd[j] = h[j]
    BY <1>5, <2>1
  <2> HIDE DEF pd, h, r
  <2>3. Val(pd, r) = Val(h, r) /\ Holds(h, r)
    BY <2>2, ValSame DEF Holds
  <2> QED
    BY <2>3 DEF pd, r
<1> QED
  BY <1>5, <1>8, <1>9

(* The row of the modulus that clears limb k; what is above it is the      *)
(* number divided by B.                                                    *)
LEMMA ClearAtIs ==
  ASSUME NEW l \in Nat, NEW rl \in Nat \ {0}, l <= rl, NEW k \in Nat, NEW D \in Nat,
         k + rl + 1 <= D, NEW t, t \in Arrays(D), NEW n, Holds(n, l),
         NEW k0, Clears(Val(n, l), k0)
  PROVE  LET w == Wrap(t[k] * k0)
             u == RowAt(t, k, n, w, rl, l)
             x == Val(From(t, k, rl), rl)
             v == Val(From(u, k + 1, rl), rl)
         IN  /\ u \in Arrays(D)
             /\ \A j \in 0 .. D - 1 : j \notin k .. k + rl => u[j] = t[j]
             /\ t[k] \in Limb /\ w \in Limb /\ x \in Nat /\ x % B = t[k]
             /\ Holds(From(u, k + 1, rl), rl) /\ v \in Nat
             /\ B * v = x + w * Val(n, l)
<1> DEFINE w == Wrap(t[k] * k0)   u == RowAt(t, k, n, w, rl, l)
           f == From(t, k, rl)   g == From(u, k, rl + 1)   h == From(u, k + 1, rl)
           x == Val(f, rl)   v == Val(h, rl)   N == Val(n, l)   r == rl - 1
           e == Val(From(t, k + 1, r), r)
<1>1. t[k] \in Limb /\ k0 \in Limb /\ N \in Nat /\ (N * k0 + 1) % B = 0 /\ B \in Nat \ {0}
  BY Base, ValRange DEF Arrays, Clears
<1>2. w \in Limb
  <2> DEFINE z == t[k] * k0
  <2>1. z \in Int
    BY <1>1 DEF Limb
  <2> HIDE DEF z
  <2>2. z % B \in 0 .. B - 1
    BY <1>1, <2>1, DivMod
  <2> QED
    BY <2>2 DEF Wrap, Limb, z
<1>3. /\ u \in Arrays(D)
      /\ \A j \in 0 .. D - 1 : j \notin k .. k + rl => u[j] = t[j]
      /\ Holds(g, rl + 1) /\ Val(g, rl + 1) = x + w * N
  <2> HIDE DEF w
  <2> QED
    BY <1>2, RowAtIs
<1>4. Val(g, rl + 1) = u[k] + B * v /\ u[k] \in Limb /\ Holds(h, rl) /\ v \in Nat
  <2> HIDE DEF u
  <2>1. Val(g, rl + 1) = u[k] + B * v /\ u[k] \in Limb /\ Holds(h, rl)
    BY <1>3, NextLimb
  <2>2. v \in Nat
    <3> HIDE DEF h
    <3> QED
      BY <2>1, ValRange
  <2> QED
    BY <2>1, <2>2
<1>5. x = t[k] + B * e /\ Holds(f, rl) /\ x \in Nat /\ e \in Nat
  <2>1. r \in Nat /\ r + 1 = rl
    OBVIOUS
  <2>2. Holds(f, rl)
    <3>1. \A j \in 0 .. rl - 1 : f[j] = t[k + j] /\ k + j \in 0 .. D - 1
      BY DEF From
    <3> HIDE DEF f
    <3> QED
      BY <3>1 DEF Holds, Arrays
  <2>3. Holds(From(t, k, r + 1), r + 1)
    BY <2>1, <2>2
  <2> HIDE DEF r
  <2>4. Val(From(t, k, r + 1), r + 1) = t[k] + B * Val(From(t, k + 1, r), r)
        /\ Holds(From(t, k + 1, r), r)
    BY <2>1, <2>3, NextLimb
  <2>5. Val(From(t, k + 1, r), r) \in Nat
    <3> DEFINE q == From(t, k + 1, r)
    <3> HIDE DEF q
    <3> QED
      BY <2>1, <2>4, ValRange DEF q
  <2>6. x \in Nat
    <3> HIDE DEF f
    <3> QED
      BY <2>2, ValRange
  <2> QED
    BY <2>1, <2>2, <2>4, <2>5, <2>6
<1>6. u[k] = 0
  <2> DEFINE t0 == t[k]   x0 == u[k]
  <2>1. /\ N \in Nat /\ k0 \in Limb /\ (N * k0 + 1) % B = 0
        /\ t0 \in Limb /\ x0 \in Limb /\ e \in Int /\ v \in Int
        /\ x0 + B * v = (t0 + B * e) + Wrap(t0 * k0) * N
    BY <1>1, <1>3, <1>4, <1>5
  <2> HIDE DEF N, t0, x0, e, v
  <2>2. x0 = 0
    BY <2>1, LowestIsZero
  <2> QED
    BY <2>2 DEF x0
<1>7. B * v = x + w * N
  <2>1. 0 + B * v = x + w * N
    BY <1>3, <1>4, <1>6
  <2> HIDE DEF x, w, N, v
  <2> QED
    BY <1>1, <1>4, <2>1 DEF v
<1>8. x % B = t[k]
  <2> DEFINE t0 == t[k]
  <2>1. t0 \in 0 .. B - 1
    BY <1>1 DEF Limb
  <2>2. B \in Nat \ {0} /\ x \in Int /\ e \in Int /\ x = t0 + B * e
    BY <1>1, <1>5
  <2> HIDE DEF x, e, t0
  <2>3. x = B * e + t0
    BY <2>1, <2>2
  <2>4. x % B = t0
    BY <2>1, <2>2, <2>3, DivModIs
  <2> QED
    BY <2>4 DEF t0
<1> QED
  BY <1>1, <1>2, <1>3, <1>4, <1>5, <1>7, <1>8

(* An accumulator below the sum of two numbers of l limbs needs no more    *)
(* than l + 1 limbs.                                                       *)
LEMMA SumFits ==
  ASSUME NEW l \in Nat, NEW x, Holds(x, l), NEW n, Holds(n, l), NEW v \in Nat,
         v < Val(x, l) + Val(n, l)
  PROVE  v < Power(l + 1)
<1>1. /\ Val(x, l) < Power(l) /\ Val(n, l) < Power(l) /\ Power(l) \in Nat
      /\ Val(x, l) \in Nat /\ Val(n, l) \in Nat /\ Power(l + 1) = B * Power(l)
      /\ B - 2 \in Nat /\ B \in Nat
  BY ValRange, PowerStep, Base
<1>2. (B - 2) * Power(l) \in Nat /\ (B - 2) * Power(l) = B * Power(l) - 2 * Power(l)
  BY <1>1
<1> DEFINE p == Power(l)   bp == B * p   cp == (B - 2) * p
<1>3. p \in Nat /\ bp \in Int /\ cp \in Nat /\ cp = bp - 2 * p /\ Power(l + 1) = bp
  BY <1>1, <1>2
<1> HIDE DEF p, bp, cp
<1> QED
  BY <1>1, <1>3 DEF p

(* ll_mont_mul, after the first iteration: a row of the product is added   *)
(* to l + 1 limbs, then a row of the modulus to l + 2.                     *)
LEMMA ArrayRowIs ==
  ASSUME NEW l \in Nat, NEW k \in Nat, k <= l - 1, NEW td, td \in Arrays(2 * l + 2),
         NEW x, Holds(x, l), NEW n, Holds(n, l), NEW d \in Limb,
         NEW k0, Clears(Val(n, l), k0),
         Val(From(td, k, l + 1), l + 1) < Val(x, l) + Val(n, l)
  PROVE  LET t == RowAt(td, k, x, d, l + 1, l)
             u == RowAt(t, k, n, Wrap(t[k] * k0), l + 2, l)
             acc == Val(From(td, k, l + 1), l + 1)
             v == Val(From(u, k + 1, l + 1), l + 1)
         IN  /\ t \in Arrays(2 * l + 2) /\ u \in Arrays(2 * l + 2)
             /\ acc \in Nat /\ (acc + d * Val(x, l)) % B = t[k]
             /\ t[k] \in Limb /\ v \in Nat /\ v < Val(x, l) + Val(n, l)
             /\ u[k + l + 2] = 0
             /\ B * v = (acc + d * Val(x, l)) + Wrap(t[k] * k0) * Val(n, l)
<1> DEFINE D == 2 * l + 2   t == RowAt(td, k, x, d, l + 1, l)   w == Wrap(t[k] * k0)
           u == RowAt(t, k, n, w, l + 2, l)
           f == From(td, k, l + 1)   acc == Val(f, l + 1)
           g == From(t, k, l + 2)   G == Val(g, l + 2)
           h == From(u, k + 1, l + 2)   H == Val(h, l + 2)
           e == From(u, k + 1, l + 1)   v == Val(e, l + 1)
           X == Val(x, l)   N == Val(n, l)
<1>1. /\ D \in Nat /\ l + 1 \in Nat /\ l + 2 \in Nat \ {0} /\ l <= l + 1 /\ l <= l + 2
      /\ k + (l + 1) + 1 <= D /\ k + (l + 2) + 1 <= D /\ (l + 1) + 1 = l + 2
      /\ B \in Nat \ {0} /\ X \in Nat /\ N \in Nat
  BY Base, ValRange
<1>2. t \in Arrays(D) /\ G = acc + d * X
  <2> DEFINE r == l + 1
  <2>1. r \in Nat /\ l <= r /\ k + r + 1 <= D /\ td \in Arrays(D) /\ D \in Nat
    BY <1>1
  <2> HIDE DEF r, D
  <2>2. LET uu == RowAt(td, k, x, d, r, l)
        IN  /\ uu \in Arrays(D)
            /\ \A j \in 0 .. D - 1 : j \notin k .. k + r => uu[j] = td[j]
            /\ Holds(From(uu, k, r + 1), r + 1)
            /\ Val(From(uu, k, r + 1), r + 1) = Val(From(td, k, r), r) + d * Val(x, l)
    BY <2>1, RowAtIs
  <2> QED
    BY <1>1, <2>2 DEF r
<1>3. /\ u \in Arrays(D) /\ t[k] \in Limb /\ w \in Limb /\ G \in Nat /\ G % B = t[k]
      /\ Holds(h, l + 2) /\ H \in Nat /\ B * H = G + w * N
  <2> DEFINE r == l + 2
  <2>1. r \in Nat \ {0} /\ l <= r /\ k + r + 1 <= D /\ t \in Arrays(D) /\ D \in Nat
    BY <1>1, <1>2
  <2> HIDE DEF r, D, t
  <2>2. LET ww == Wrap(t[k] * k0)
            uu == RowAt(t, k, n, ww, r, l)
            xx == Val(From(t, k, r), r)
            vv == Val(From(uu, k + 1, r), r)
        IN  /\ uu \in Arrays(D)
            /\ \A j \in 0 .. D - 1 : j \notin k .. k + r => uu[j] = t[j]
            /\ t[k] \in Limb /\ ww \in Limb /\ xx \in Nat /\ xx % B = t[k]
            /\ Holds(From(uu, k + 1, r), r) /\ vv \in Nat
            /\ B * vv = xx + ww * Val(n, l)
    BY <2>1, ClearAtIs
  <2> QED
    BY <2>2 DEF r
<1>4. acc \in Nat
  <2>1. Holds(f, l + 1)
    <3>1. \A j \in 0 .. (l + 1) - 1 : f[j] = td[k + j] /\ k + j \in 0 .. D - 1
      BY DEF From
    <3> HIDE DEF f
    <3> QED
      BY <3>1 DEF Holds, Arrays
  <2> HIDE DEF f
  <2> QED
    BY <1>1, <2>1, ValRange
<1>5. H < X + N
  <2> DEFINE s == (acc + d * X) + w * N
  <2>1. s \in Nat /\ B * H = s
    <3>1. d * X \in Nat /\ w * N \in Nat
      <4> HIDE DEF X, N, w
      <4> QED
        BY <1>1, <1>3 DEF Limb
    <3> HIDE DEF X, N, w, acc, G, H
    <3> QED
      BY <1>2, <1>3, <1>4, <3>1
  <2>2. /\ X \in Nat /\ N \in Nat /\ acc \in Nat /\ d \in Limb /\ w \in Limb /\ s \in Nat
        /\ acc < X + N /\ s = (acc + d * X) + w * N
    BY <1>1, <1>3, <1>4, <2>1
  <2> HIDE DEF s, X, N, acc, w
  <2>3. \A q \in Int : B * q = s => q < X + N
    BY <2>2, RowFits
  <2> QED
    BY <1>3, <2>1, <2>3
<1>6. v = H /\ u[k + l + 2] = 0
  <2> DEFINE r == l + 1   o == 1   c == From(h, r, o)
  <2>1. r \in Nat /\ o \in Nat /\ r + o = l + 2 /\ Holds(h, r + o)
    BY <1>1, <1>3
  <2>2. Val(h, r + o) < Power(r)
    <3> HIDE DEF h, H
    <3>1. H < Power(l + 1)
      BY <1>1, <1>3, <1>5, SumFits
    <3> QED
      BY <2>1, <3>1 DEF H
  <2>3. Val(c, o) = 0 /\ Val(h, r) = Val(h, r + o)
    <3> HIDE DEF h, r, o
    <3> QED
      BY <2>1, <2>2, UpperZero
  <2>4. c[0] = u[k + l + 2] /\ Holds(c, 1)
    <3>1. r + 0 \in 0 .. (l + 2) - 1 /\ (k + 1) + (r + 0) = k + l + 2
      OBVIOUS
    <3>2. c[0] = h[r + 0] /\ h[r + 0] = u[(k + 1) + (r + 0)]
      <4>1. 0 \in 0 .. o - 1
        OBVIOUS
      <4> HIDE DEF r, u, o
      <4> QED
        BY <3>1, <4>1 DEF From, c, h
    <3>3. h[r + 0] \in Limb
      <4> HIDE DEF h
      <4> QED
        BY <1>3, <3>1 DEF Holds
    <3> HIDE DEF c, h
    <3> QED
      BY <3>1, <3>2, <3>3 DEF Holds
  <2>5. Val(c, 1) = c[0]
    <3> HIDE DEF c
    <3> QED
      BY <2>4, FewLimbs
  <2>6. Val(h, r) = v
    <3>1. \A j \in 0 .. r - 1 : h[j] = e[j]
      <4>1. \A j \in 0 .. r - 1 : j \in 0 .. (l + 2) - 1
        OBVIOUS
      <4> HIDE DEF u
      <4> QED
        BY <4>1 DEF From
    <3>2. Holds(h, r)
      <4> HIDE DEF h
      <4> QED
        BY <1>3 DEF Holds
    <3> HIDE DEF h, e, r
    <3>3. Val(h, r) = Val(e, r)
      BY <2>1, <3>1, <3>2, ValSame
    <3> QED
      BY <3>3 DEF r
  <2> HIDE DEF u, c, h
  <2> QED
    BY <2>1, <2>3, <2>4, <2>5, <2>6
<1> HIDE DEF t, u, w, acc, v, G, H
<1> QED
  BY <1>2, <1>3, <1>4, <1>5, <1>6 DEF t, u, w, acc, v

(* ... and the first iteration, which needs no row to add to.              *)
LEMMA FirstRowIs ==
  ASSUME NEW l \in Nat \ {0}, NEW td, td \in Arrays(2 * l + 2),
         NEW x, Holds(x, l), NEW n, Holds(n, l), NEW d \in Limb,
         NEW k0, Clears(Val(n, l), k0)
  PROVE  LET t == Into(td, 0, MulLimb(x, d, l).d)
             u == RowAt(t, 0, n, Wrap(t[0] * k0), l + 1, l)
             v == Val(From(u, 1, l + 1), l + 1)
         IN  /\ u \in Arrays(2 * l + 2)
             /\ (d * Val(x, l)) % B = t[0] /\ t[0] \in Limb
             /\ v \in Nat /\ v < Val(x, l) + Val(n, l)
             /\ B * v = d * Val(x, l) + Wrap(t[0] * k0) * Val(n, l)
<1> DEFINE D == 2 * l + 2   p == MulLimb(x, d, l).d   t == Into(td, 0, p)   w == Wrap(t[0] * k0)
           u == RowAt(t, 0, n, w, l + 1, l)   r == l + 1
           g == From(t, 0, r)   G == Val(g, r)
           h == From(u, 1, r)   v == Val(h, r)
           X == Val(x, l)   N == Val(n, l)
<1>1. /\ D \in Nat /\ r \in Nat \ {0} /\ l <= r /\ 0 + r + 1 <= D
      /\ B \in Nat \ {0} /\ X \in Nat /\ N \in Nat /\ r - 1 = l
  BY Base, ValRange
<1>2. p \in Arrays(r) /\ Holds(p, r) /\ Val(p, r) = d * X
  BY MulLimbIs
<1>3. t = [j \in 0 .. D - 1 |-> IF j - 0 \in 0 .. l THEN p[j - 0] ELSE td[j]]
  <2>1. DOMAIN td = 0 .. D - 1 /\ DOMAIN p = 0 .. l
    BY <1>1, <1>2 DEF Arrays
  <2> HIDE DEF p, D
  <2> QED
    BY <2>1 DEF Into
<1>4. t \in Arrays(D) /\ \A j \in 0 .. r - 1 : g[j] = p[j]
  <2>1. (\A j \in 0 .. D - 1 : td[j] \in Limb) /\ (\A j \in 0 .. l : p[j] \in Limb)
    BY <1>1, <1>2 DEF Arrays
  <2>2. \A j \in 0 .. D - 1 : t[j] \in Limb
    <3> HIDE DEF p, D
    <3> QED
      BY <1>3, <2>1
  <2>3. \A j \in 0 .. r - 1 : j \in 0 .. D - 1 /\ j \in 0 .. l /\ j - 0 = j /\ 0 + j = j
    OBVIOUS
  <2>4. \A j \in 0 .. r - 1 : g[j] = t[j] /\ t[j] = p[j]
    <3> HIDE DEF p, D, t, r
    <3> QED
      BY <1>3, <2>3 DEF From
  <2>5. t = [j \in 0 .. D - 1 |-> t[j]]
    BY <1>3
  <2> HIDE DEF t, g, D
  <2> QED
    BY <2>2, <2>4, <2>5 DEF Arrays
<1>5. G = d * X
  <2> HIDE DEF p, g, r, X
  <2>1. \A j \in 0 .. r - 1 : p[j] = g[j]
    BY <1>4
  <2>2. Val(p, r) = Val(g, r)
    BY <1>1, <1>2, <2>1, ValSame
  <2> QED
    BY <1>2, <2>2
<1>6. /\ u \in Arrays(D) /\ t[0] \in Limb /\ w \in Limb /\ G % B = t[0]
      /\ v \in Nat /\ B * v = G + w * N
  <2> DEFINE z == 0
  <2>1. /\ z \in Nat /\ r \in Nat \ {0} /\ l <= r /\ z + r + 1 <= D /\ t \in Arrays(D)
        /\ D \in Nat /\ z + 1 = 1
    BY <1>1, <1>4
  <2> HIDE DEF r, D, t, z
  <2>2. LET ww == Wrap(t[z] * k0)
            uu == RowAt(t, z, n, ww, r, l)
            xx == Val(From(t, z, r), r)
            vv == Val(From(uu, z + 1, r), r)
        IN  /\ uu \in Arrays(D)
            /\ \A j \in 0 .. D - 1 : j \notin z .. z + r => uu[j] = t[j]
            /\ t[z] \in Limb /\ ww \in Limb /\ xx \in Nat /\ xx % B = t[z]
            /\ Holds(From(uu, z + 1, r), r) /\ vv \in Nat
            /\ B * vv = xx + ww * Val(n, l)
    BY <2>1, ClearAtIs
  <2> QED
    BY <2>1, <2>2 DEF r, z
<1>7. v < X + N
  <2> DEFINE o == 0   s == (o + d * X) + w * N
  <2>1. d * X \in Nat /\ w * N \in Nat
    <3> HIDE DEF X, N, w
    <3> QED
      BY <1>1, <1>6 DEF Limb
  <2>2. s \in Nat /\ B * v = s
    <3> HIDE DEF X, N, w, v, G
    <3> QED
      BY <1>5, <1>6, <2>1
  <2>3. o \in Nat /\ s = (o + d * X) + w * N
    OBVIOUS
  <2>4. CASE X + N = 0
    <3>1. X = 0 /\ N = 0
      <4> HIDE DEF X, N
      <4> QED
        BY <1>1, <2>4
    <3>2. (N * k0 + 1) % B = 0 /\ k0 \in Limb
      BY DEF Clears
    <3>3. N * k0 + 1 = 1
      <4> HIDE DEF X, N
      <4> QED
        BY <3>1, <3>2, Base DEF Limb
    <3>4. 1 % B = 0
      <4> HIDE DEF N
      <4> QED
        BY <3>2, <3>3
    <3>5. 1 \in 0 .. B - 1 /\ 1 = B * 0 + 1 /\ B \in Nat \ {0} /\ 0 \in Int /\ 1 \in Int
      BY Base
    <3> DEFINE q == 1   z == 0
    <3>6. q \in 0 .. B - 1 /\ q = B * z + q /\ B \in Nat \ {0} /\ z \in Int /\ q \in Int
      BY <3>5
    <3> HIDE DEF q, z
    <3>7. q % B = q
      BY <3>6, DivModIs
    <3> QED
      BY <3>4, <3>7 DEF q
  <2>5. CASE X + N # 0
    <3>1. /\ X \in Nat /\ N \in Nat /\ o \in Nat /\ d \in Limb /\ w \in Limb /\ s \in Nat
          /\ o < X + N /\ s = (o + d * X) + w * N
      <4>1. o < X + N
        <5> HIDE DEF X, N
        <5> QED
          BY <1>1, <2>5
      <4> QED
        BY <1>1, <1>6, <2>2, <2>3, <4>1
    <3> HIDE DEF s, X, N, o, w
    <3>2. \A q \in Int : B * q = s => q < X + N
      BY <3>1, RowFits
    <3> QED
      BY <1>6, <2>2, <3>2
  <2> QED
    BY <2>4, <2>5
<1> HIDE DEF t, u, w, v, G
<1> QED
  BY <1>5, <1>6, <1>7 DEF t, u, w, v

(* ll_mont_reduce, before the loop: the number and, above it, zeros.       *)
LEMMA CopiedIs ==
  ASSUME NEW l \in Nat, NEW t, t \in Arrays(2 * l + 2), NEW x, x \in Arrays(l)
  PROVE  LET u == Into(Into(t, 0, x), l, Zeros(l))
         IN  u \in Arrays(2 * l + 2) /\ Val(From(u, 0, l), l) = Val(x, l)
<1> DEFINE D == 2 * l + 2   s == Into(t, 0, x)   z == Zeros(l)   u == Into(s, l, z)
           f == From(u, 0, l)
<1>1. z \in Arrays(l)
  BY ZerosAre
<1>2. s = [k \in 0 .. D - 1 |-> IF k - 0 \in 0 .. l - 1 THEN x[k - 0] ELSE t[k]]
  BY DEF Into, Arrays
<1>3. \A k \in 0 .. D - 1 : s[k] \in Limb
  <2> SUFFICES ASSUME NEW k \in 0 .. D - 1 PROVE s[k] \in Limb
    OBVIOUS
  <2>1. CASE k - 0 \in 0 .. l - 1
    BY <1>2, <2>1 DEF Arrays
  <2>2. CASE k - 0 \notin 0 .. l - 1
    BY <1>2, <2>2 DEF Arrays
  <2> QED
    BY <2>1, <2>2
<1>4. u = [k \in 0 .. D - 1 |-> IF k - l \in 0 .. l - 1 THEN z[k - l] ELSE s[k]]
  <2>1. DOMAIN s = 0 .. D - 1 /\ DOMAIN z = 0 .. l - 1
    BY <1>1, <1>2 DEF Arrays
  <2> HIDE DEF s, z
  <2> QED
    BY <2>1 DEF Into
<1>5. u \in Arrays(D)
  <2>1. \A k \in 0 .. D - 1 : u[k] \in Limb
    <3> SUFFICES ASSUME NEW k \in 0 .. D - 1 PROVE u[k] \in Limb
      OBVIOUS
    <3> HIDE DEF z, s, u
    <3>1. CASE k - l \in 0 .. l - 1
      BY <1>1, <1>4, <3>1 DEF Arrays
    <3>2. CASE k - l \notin 0 .. l - 1
      BY <1>3, <1>4, <3>2
    <3> QED
      BY <3>1, <3>2
  <2> HIDE DEF u, z, s
  <2> QED
    BY <1>4, <2>1 DEF Arrays
<1>6. \A k \in 0 .. l - 1 : f[k] = x[k] /\ f[k] \in Limb
  <2> SUFFICES ASSUME NEW k \in 0 .. l - 1 PROVE f[k] = x[k] /\ f[k] \in Limb
    OBVIOUS
  <2>1. f[k] = u[0 + k] /\ 0 + k = k
    BY DEF From
  <2>2. k \in 0 .. D - 1 /\ k - l \notin 0 .. l - 1 /\ k - 0 \in 0 .. l - 1 /\ k - 0 = k
    OBVIOUS
  <2>3. u[k] = s[k]
    <3> HIDE DEF u, s, z
    <3> QED
      BY <1>4, <2>2
  <2>4. s[k] = x[k]
    BY <1>2, <2>2
  <2> HIDE DEF u, s, f
  <2> QED
    BY <1>3, <2>1, <2>2, <2>3, <2>4
<1>7. Val(f, l) = Val(x, l)
  <2> HIDE DEF f
  <2>1. Holds(f, l)
    BY <1>6 DEF Holds
  <2> QED
    BY <1>6, <2>1, ValSame
<1> QED
  BY <1>5, <1>7

(* ... and after it: the sum with its carry, in the upper half.            *)
Stored(t, l, s, c) == [Into(t, l, s) EXCEPT ![2 * l] = c]

(* ... is a number one limb longer: the one ll_mont_cond_sub_limbs         *)
(* compares.                                                               *)
LEMMA StoredIs ==
  ASSUME NEW l \in Nat \ {0}, NEW t, t \in Arrays(2 * l + 2), NEW s, s \in Arrays(l), NEW c \in {0, 1}
  PROVE  LET u == Stored(t, l, s, c)
         IN  /\ u \in Arrays(2 * l + 2)
             /\ Val(From(u, l, l), l) = Val(s, l)
             /\ Holds(From(u, l, l + 1), l + 1)
             /\ Val(From(u, l, l + 1), l + 1) = Val(s, l) + Power(l) * c
<1> DEFINE D == 2 * l + 2   v == Into(t, l, s)   u == Stored(t, l, s, c)
           f == From(u, l, l)   g == From(u, l, l + 1)
<1>1. v = [k \in 0 .. D - 1 |-> IF k - l \in 0 .. l - 1 THEN s[k - l] ELSE t[k]]
  BY DEF Into, Arrays
<1>2. \A k \in 0 .. D - 1 : v[k] \in Limb
  <2> SUFFICES ASSUME NEW k \in 0 .. D - 1 PROVE v[k] \in Limb
    OBVIOUS
  <2>1. CASE k - l \in 0 .. l - 1
    BY <1>1, <2>1 DEF Arrays
  <2>2. CASE k - l \notin 0 .. l - 1
    BY <1>1, <2>2 DEF Arrays
  <2> QED
    BY <2>1, <2>2
<1>3. c \in Limb
  BY Base DEF Limb
<1>4. /\ u = [k \in 0 .. D - 1 |-> IF k = 2 * l THEN c ELSE v[k]]
      /\ u \in Arrays(D)
  <2>1. v = [k \in 0 .. D - 1 |-> v[k]] /\ 2 * l \in 0 .. D - 1
    BY <1>1
  <2>2. u = [v EXCEPT ![2 * l] = c]
    BY DEF Stored
  <2> HIDE DEF v, u
  <2> QED
    BY <1>2, <1>3, <2>1, <2>2 DEF Arrays
<1>5. \A k \in 0 .. l - 1 : u[l + k] = s[k] /\ s[k] \in Limb
  <2> SUFFICES ASSUME NEW k \in 0 .. l - 1 PROVE u[l + k] = s[k] /\ s[k] \in Limb
    OBVIOUS
  <2>1. l + k \in 0 .. D - 1 /\ l + k # 2 * l /\ (l + k) - l = k
    OBVIOUS
  <2>2. v[l + k] = s[k]
    BY <1>1, <2>1
  <2>3. s[k] \in Limb
    BY DEF Arrays
  <2> HIDE DEF v, u
  <2> QED
    BY <1>4, <2>1, <2>2, <2>3
<1>6. u[l + l] = c
  <2>1. l + l = 2 * l /\ l + l \in 0 .. D - 1
    OBVIOUS
  <2> HIDE DEF v, u
  <2> QED
    BY <1>4, <2>1
<1>7. Val(f, l) = Val(s, l)
  <2>1. \A k \in 0 .. l - 1 : f[k] = s[k] /\ f[k] \in Limb
    BY <1>5 DEF From
  <2> HIDE DEF f
  <2> QED
    BY <2>1, ValSame DEF Holds
<1>8. (\A k \in 0 .. l - 1 : g[k] = s[k]) /\ g[l] = c /\ Holds(g, l + 1)
  <2> HIDE DEF u
  <2>1. \A k \in 0 .. l : g[k] = u[l + k]
    BY DEF From
  <2>2. \A k \in 0 .. l - 1 : k \in 0 .. l
    OBVIOUS
  <2>3. l \in 0 .. l /\ \A k \in 0 .. (l + 1) - 1 : k = l \/ k \in 0 .. l - 1
    OBVIOUS
  <2> HIDE DEF g
  <2> QED
    BY <1>3, <1>5, <1>6, <2>1, <2>2, <2>3 DEF Holds
<1>9. Val(g, l + 1) = Val(s, l) + Power(l) * c
  <2> HIDE DEF g
  <2>1. Val(g, l) = Val(s, l)
    <3>1. Holds(g, l)
      BY <1>8 DEF Holds
    <3> QED
      BY <1>8, <3>1, ValSame
  <2> QED
    BY <1>8, <2>1, ValStep
<1> QED
  BY <1>4, <1>7, <1>8, <1>9

(* The halves of the square.                                               *)
LEMMA HalvesAre ==
  ASSUME NEW x, Holds(x, 4)
  PROVE  LET s == SqrU256(x)
         IN  /\ From(s, 0, 4) \in Arrays(4) /\ From(s, 4, 4) \in Arrays(4)
             /\ Val(From(s, 0, 4), 4) = (Val(x, 4) * Val(x, 4)) % Power(4)
             /\ Val(From(s, 4, 4), 4) = (Val(x, 4) * Val(x, 4)) \div Power(4)
<1> DEFINE s == SqrU256(x)   g == From(s, 0, 4)   h == From(s, 4, 4)
           X == Val(x, 4)   p == Power(4)
<1>1. Holds(s, 8) /\ Val(s, 8) = X * X
  BY SqrU256Is
<1>2. /\ \A k \in 0 .. 3 : g[k] = s[k] /\ g[k] \in Limb /\ h[k] \in Limb
      /\ g \in Arrays(4) /\ h \in Arrays(4) /\ Holds(g, 4) /\ Holds(h, 4)
  <2> HIDE DEF s
  <2> QED
    BY <1>1 DEF From, Arrays, Holds
<1>3. Val(s, 4) = Val(g, 4)
  <2> DEFINE o == 4
  <2>1. o \in Nat /\ Holds(g, o) /\ \A k \in 0 .. o - 1 : g[k] = s[k]
    BY <1>2
  <2>2. Val(g, o) = Val(s, o)
    <3> HIDE DEF s, g, o
    <3> QED
      BY <2>1, ValSame
  <2> QED
    BY <2>2
<1>4. Val(s, 8) = Val(s, 4) + p * Val(h, 4)
  <2> DEFINE o == 4
  <2>1. o \in Nat /\ o + o = 8 /\ Holds(s, o + o)
    BY <1>1
  <2>2. Val(s, o + o) = Val(s, o) + Power(o) * Val(From(s, o, o), o)
    <3> HIDE DEF s, o
    <3> QED
      BY <2>1, ValSplit
  <2> QED
    BY <2>1, <2>2
<1>5. (X * X) % p = Val(g, 4) /\ (X * X) \div p = Val(h, 4)
  <2> DEFINE q == Val(h, 4)   r == Val(g, 4)   v == X * X
  <2>1. /\ p \in Nat \ {0} /\ v \in Int /\ q \in Int /\ r \in 0 .. p - 1 /\ v = p * q + r
    <3>1. r \in Nat /\ r < p /\ q \in Nat /\ p \in Nat \ {0}
      BY <1>2, ValRange, PowerStep
    <3>2. v = r + p * q
      BY <1>1, <1>3, <1>4
    <3>3. p * q \in Nat
      <4> HIDE DEF p, q
      <4> QED
        BY <3>1
    <3> HIDE DEF v, r, p, q
    <3> QED
      BY <3>1, <3>2, <3>3
  <2> HIDE DEF v, r, p, q
  <2>2. v \div p = q /\ v % p = r
    BY <2>1, DivModIs
  <2> QED
    BY <2>2 DEF v, r, q
<1> QED
  BY <1>2, <1>5
==============================================================================
