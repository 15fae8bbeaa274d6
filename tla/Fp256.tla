-------------------------------- MODULE Fp256 --------------------------------
(***************************************************************************)
(* A client that calls the fp256_... functions of src/src/fp256_utils.c,   *)
(* fp256_add.c, fp256_mul.c, fp256_shift.c, fp256_div.c, fp256_mod.c and   *)
(* fp256_gcd.c on a few objects, in any order, with any object in any      *)
(* role: the same object may be result, operand and modulus of one call.   *)
(***************************************************************************)
EXTENDS Fp256Values

CONSTANTS
  Objects,  \* the fp256 objects of the client
  NULL,     \* the null pointer
  Garbage,  \* what an uninitialised nlimbs may hold; empty when the client
            \* converts only text that is a number
  Borrowing,  \* operands for which ll_lehmer_exgcd drops a borrow, and ...
  Losing      \* ... for which it loses a limb of a cofactor (Lehmer)

ASSUME ObjectsAssumption == NULL \notin Objects
ASSUME GarbageAssumption == Garbage \subseteq Nat
ASSUME DefectsAssumption == Borrowing \cup Losing \subseteq Numbers \X Numbers

VARIABLES
  obj,    \* obj[x]: the object x
  call,   \* the call under way
  ret     \* what the last call returned, "none" while one is under way

vars == <<obj, call, ret>>

NoCall == [f |-> "none"]

Init ==
  /\ obj = [x \in Objects |-> Zero]
  /\ call = NoCall
  /\ ret = "none"

------------------------------------------------------------------------------
(* The client.  A modulus or divisor is never zero: the code does not      *)
(* handle one (dd[dl - 1] is read with dl = 0).  The exponent zero is the  *)
(* matter of module MontExp.  The gcd and the inverse look for zeros, but  *)
(* a zero of one limb, which fp256_is_zero takes for a number, would be    *)
(* divided by as well.                                                     *)
LimbZero == [d |-> 0, n |-> 1]
Divisors == {x \in Objects : Seen(obj[x]) > 0}
Recognised == {x \in Objects : IsZero(obj[x]) \/ Seen(obj[x]) > 0}

CallSet ==
  \E r \in Objects :
    \/ \E f \in {"set_zero", "set_one", "cleanse"} : call' = [f |-> f, r |-> r]
    \/ \E v \in Limb : call' = [f |-> "set_limb", r |-> r, v |-> v]
    \/ \E l \in 0 .. 4 : \E v \in 0 .. B^l - 1 :
         call' = [f |-> "from_bytes", r |-> r, v |-> v, l |-> l]
    \/ \E v \in Numbers, good \in 0 .. 4 :
         /\ good < 4 => Garbage # {}
         /\ call' = [f |-> "from_hex", r |-> r, v |-> v, good |-> good]
    \/ \E f \in {"set_bit", "clear_set_bit"}, i \in 0 .. 4 * W - 1 :
         call' = [f |-> f, r |-> r, i |-> i]
    \/ \E a \in Objects : call' = [f |-> "copy", r |-> r, a |-> a]

CallRing ==
  \E r, a, b \in Objects :
    \/ \E f \in {"add", "sub", "mullo", "mulhi"} :
         call' = [f |-> f, r |-> r, a |-> a, b |-> b]
    \/ \E hi \in Objects : call' = [f |-> "mul", r |-> r, hi |-> hi, a |-> a, b |-> b]
    \/ \E f \in {"add_limb", "sub_limb"}, v \in Limb :
         call' = [f |-> f, r |-> r, a |-> a, v |-> v]
    \/ \E f \in {"lshift", "rshift"}, s \in 0 .. 4 * W :
         call' = [f |-> f, r |-> r, a |-> a, s |-> s]

CallModular ==
  \E r, a, b \in Objects, m \in Divisors :
    \/ \E f \in {"mod", "mod_neg", "mod_sqr"} :
         call' = [f |-> f, r |-> r, a |-> a, m |-> m]
    \/ \E f \in {"mod_add", "mod_sub", "mod_mul"} :
         call' = [f |-> f, r |-> r, a |-> a, b |-> b, m |-> m]
    \/ ~IsZero(obj[b]) /\ call' = [f |-> "mod_exp", r |-> r, a |-> a, e |-> b, m |-> m]
    \/ \E q \in Objects \cup {NULL}, rem \in Objects \cup {NULL} :
         call' = [f |-> "div", rem |-> rem, q |-> q, a |-> a, m |-> m]

CallGcd ==
  \E x, y \in Recognised :
    \/ \E r \in Objects : \/ call' = [f |-> "gcd", r |-> r, a |-> x, b |-> y]
                          \/ call' = [f |-> "mod_inv", r |-> r, a |-> x, m |-> y]
    \/ call' = [f |-> "is_coprime", a |-> x, b |-> y]

Call ==
  /\ call = NoCall
  /\ CallSet \/ CallRing \/ CallModular \/ CallGcd
  /\ ret' = "none"
  /\ UNCHANGED obj

------------------------------------------------------------------------------
Doing(f) == call.f = f /\ call' = NoCall /\ ret' = "ok"

Put(x) == obj' = [obj EXCEPT ![call.r] = x]

a == obj[call.a]
b == obj[call.b]

SetZero == Doing("set_zero") /\ Put(Zero)

(* fp256_cleanse clears the bytes of the struct, nlimbs among them.        *)
Cleanse == Doing("cleanse") /\ Put(Zero)

SetOne == Doing("set_one") /\ Put(One)

(* nlimbs is 1 whatever the limb. *)
SetLimb == Doing("set_limb") /\ Put([d |-> call.v, n |-> 1])

Copy == Doing("copy") /\ Put(a)

(* ll_from_bytes counts the limbs among those the bytes fill. *)
FromBytes == Doing("from_bytes") /\ Put(Obj(call.v))

(* ll_from_hex stops at the first group of digits that is no number, the   *)
(* least significant group first; what it returns is ignored, and then     *)
(* nlimbs is the local rl that nobody has set.                             *)
FromHex ==
  /\ Doing("from_hex")
  /\ IF call.good = 4 THEN Put(Obj(call.v))
     ELSE \E n \in Garbage : Put([d |-> call.v % B^call.good, n |-> n])

BitSet(v, i) == IF (v \div 2^i) % 2 = 1 THEN v ELSE v + 2^i

SetBit ==
  /\ Doing("set_bit")
  /\ Put(Obj(BitSet(obj[call.r].d, call.i)))

ClearSetBit ==
  /\ Doing("clear_set_bit")
  /\ Put([d |-> 2^call.i, n |-> (call.i \div W) + 1])

(* Mutant of Add: nlimbs is taken from the first operand.                   *)
AddKeepsCount == Doing("add") /\ Put([d |-> (a.d + b.d) % M, n |-> a.n])

(* Carry and borrow are discarded. *)
Add == Doing("add") /\ Put(Obj((a.d + b.d) % M))
Sub == Doing("sub") /\ Put(Obj((a.d - b.d) % M))
AddLimb == Doing("add_limb") /\ Put(Obj((a.d + call.v) % M))
SubLimb == Doing("sub_limb") /\ Put(Obj((a.d - call.v) % M))

MulLo == Doing("mullo") /\ Put(Obj((a.d * b.d) % M))
MulHi == Doing("mulhi") /\ Put(Obj((a.d * b.d) \div M))

(* The lower half is stored first, from an array that holds both.          *)
Mul ==
  /\ Doing("mul")
  /\ obj' = [obj EXCEPT ![call.r] = Obj((a.d * b.d) % M),
                        ![call.hi] = Obj((a.d * b.d) \div M)]

LShift == Doing("lshift") /\ Put(Obj((a.d * 2^call.s) % M))
RShift == Doing("rshift") /\ Put(Obj(a.d \div 2^call.s))

(* ll_div counts the limbs of its operands again, among the first nlimbs.  *)
Rem(v) == Obj(v % Seen(obj[call.m]))

(* The remainder is stored first; either result may be left out, not both. *)
Quo(x, y) == Obj(Seen(x) \div Seen(y))

Store(after, x, value) == IF x = NULL THEN after ELSE [after EXCEPT ![x] = value]

(* Mutant of Div: the dividend is read again after the first result.       *)
DivReadsLate ==
  LET after == Store(obj, call.rem, Rem(Seen(a)))
  IN  /\ call.f = "div" /\ call' = NoCall
      /\ obj' = Store(after, call.q, Quo(after[call.a], obj[call.m]))
      /\ ret' = IF call.rem = NULL /\ call.q = NULL THEN "err" ELSE "ok"

Div ==
  /\ call.f = "div" /\ call' = NoCall
  /\ obj' = Store(Store(obj, call.rem, Rem(Seen(a))), call.q, Quo(a, obj[call.m]))
  /\ ret' = IF call.rem = NULL /\ call.q = NULL THEN "err" ELSE "ok"

Mod == Doing("mod") /\ Put(Rem(Seen(a)))

(* The remainder is stored in r before m is read for the subtraction.      *)
Negated(after) ==
  [after EXCEPT ![call.r] = Obj((after[call.m].d - after[call.r].d) % M)]

ModNeg ==
  /\ Doing("mod_neg")
  /\ obj' = Negated([obj EXCEPT ![call.r] = Rem(Seen(a))])

ModAdd == Doing("mod_add") /\ Put(Rem(a.d + b.d))

(* Mutant of ModSub: a remainder of zero is subtracted from m as well.     *)
ModSubUnchecked ==
  LET neg == Cmp(a, b) < 0
      after == [obj EXCEPT ![call.r] = Rem((IF neg THEN b.d - a.d ELSE a.d - b.d) % M)]
  IN  Doing("mod_sub") /\ obj' = IF neg THEN Negated(after) ELSE after

ModSub ==
  LET neg == Cmp(a, b) < 0
      rem == Rem((IF neg THEN b.d - a.d ELSE a.d - b.d) % M)
      after == [obj EXCEPT ![call.r] = rem]
  IN  /\ Doing("mod_sub")
      /\ obj' = IF neg /\ rem.n # 0 THEN Negated(after) ELSE after

ModMul == Doing("mod_mul") /\ Put(Rem(a.d * b.d))
ModSqr == Doing("mod_sqr") /\ Put(Rem(a.d * a.d))

(* A local mont_ctx, the operand reduced when it is not below m, into      *)
(* Montgomery form and back; r is untouched for an even modulus.           *)
ModExp ==
  LET m   == obj[call.m]
      RR  == (M * M) % Seen(m)
      x   == IF Cmp(a, m) >= 0 THEN Seen(a) % Seen(m) ELSE a.d
      pow == MontPower(Redc(x * RR, m.d), Seen(obj[call.e]), RR, m.d)
  IN  /\ Doing("mod_exp")
      /\ IF IsOdd(m) THEN Put(Obj(Redc(pow, m.d))) ELSE UNCHANGED obj

(* The greatest common divisor, by definition. *)
GCD(x, y) ==
  CHOOSE d \in 1 .. x : /\ x % d = 0 /\ y % d = 0
                        /\ \A e \in d + 1 .. x : ~(x % e = 0 /\ y % e = 0)

(* The divisors and the signed cofactors that ll_lehmer_exgcd may find.  A *)
(* dropped borrow may make it find any, a lost limb any cofactor, and M    *)
(* stands for all numbers of more than four limbs.  The call that leaves   *)
(* its scratch arrays and does not come back is Overrun of Lehmer.         *)
FoundDivisors(x, y) == IF <<x, y>> \in Borrowing THEN 0 .. M ELSE {GCD(x, y)}

FoundCofactors(x, m) ==
  IF <<x, m>> \in Borrowing \cup Losing THEN -M .. M
  ELSE {u \in 1 - m .. m - 1 : (u * x - GCD(x, m)) % m = 0}

(* fp256_set_limbs refuses what has more than four limbs; nobody looks.    *)
SetLimbs(v) == IF v < M THEN [obj EXCEPT ![call.r] = Obj(v)] ELSE obj

(* A negative cofactor is stored in r before m is read for the             *)
(* subtraction.  That a has no inverse is not reported.                    *)
ModInv ==
  /\ call.f = "mod_inv" /\ call' = NoCall
  /\ IF IsZero(a) \/ IsZero(obj[call.m]) THEN ret' = "err" /\ UNCHANGED obj
     ELSE /\ ret' = "ok"
          /\ \E u \in FoundCofactors(Seen(a), Seen(obj[call.m])) :
               obj' = IF u < 0 THEN Negated(SetLimbs(-u)) ELSE SetLimbs(u)

(* The divisor of zero and anything is zero here. *)
CommonDivisors ==
  IF IsZero(a) \/ IsZero(b) THEN {0} ELSE FoundDivisors(Seen(a), Seen(b))

Gcd == Doing("gcd") /\ \E g \in CommonDivisors : obj' = SetLimbs(g)

IsCoprime ==
  /\ call.f = "is_coprime" /\ call' = NoCall
  /\ \E g \in CommonDivisors : ret' = IF IsOne(Obj(g)) THEN "yes" ELSE "no"
  /\ UNCHANGED obj

Next ==
  \/ Call
  \/ SetZero \/ Cleanse \/ SetOne \/ SetLimb \/ Copy \/ FromBytes \/ FromHex
  \/ SetBit \/ ClearSetBit
  \/ Add \/ Sub \/ AddLimb \/ SubLimb \/ MulLo \/ MulHi \/ Mul
  \/ LShift \/ RShift
  \/ Div \/ Mod \/ ModNeg \/ ModAdd \/ ModSub \/ ModMul \/ ModSqr \/ ModExp
  \/ ModInv \/ Gcd \/ IsCoprime

Spec == Init /\ [][Next]_vars

------------------------------------------------------------------------------
(* The roles that the arguments of a call have.                            *)
WithResult == {"set_zero", "set_one", "cleanse", "set_limb", "from_bytes", "from_hex",
               "set_bit", "clear_set_bit", "copy", "add_limb", "sub_limb", "lshift", "rshift",
               "mod", "mod_neg", "mod_sqr", "mod_inv", "mod_exp"}
WithTwo == {"add", "sub", "mullo", "mulhi", "mul", "mod_add", "mod_sub", "mod_mul", "gcd"}
WithLimb == {"set_limb", "add_limb", "sub_limb"}
WithOne == {"copy", "add_limb", "sub_limb", "lshift", "rshift",
            "mod", "mod_neg", "mod_sqr", "mod_inv", "mod_exp", "div"}
WithDivisor == {"mod", "mod_neg", "mod_sqr", "mod_exp",
                "mod_add", "mod_sub", "mod_mul", "div"}
WithModulus == WithDivisor \cup {"mod_inv"}

TypeOK ==
  /\ obj \in [Objects -> [d : Numbers, n : 0 .. 4 \cup Garbage]]
  /\ call.f \in WithResult \cup WithTwo => call.r \in Objects
  /\ call.f \in WithOne \cup WithTwo \cup {"is_coprime"} => call.a \in Objects
  /\ call.f \in WithTwo \cup {"is_coprime"} => call.b \in Objects
  /\ call.f \in WithModulus => call.m \in Objects
  /\ call.f \in WithLimb => call.v \in Limb
  /\ call.f \in {"from_bytes", "from_hex"} => call.v \in Numbers
  /\ call.f = "from_hex" => call.good \in 0 .. 4
  /\ call.f \in {"set_bit", "clear_set_bit"} => call.i \in 0 .. 4 * W - 1
  /\ call.f \in {"lshift", "rshift"} => call.s \in 0 .. 4 * W
  /\ call.f = "mul" => call.hi \in Objects
  /\ call.f = "mod_exp" => call.e \in Objects
  /\ call.f = "div" => call.q \in Objects \cup {NULL} /\ call.rem \in Objects \cup {NULL}

(* What the client takes care of still holds when the call runs.           *)
CallFits ==
  /\ call.f \in WithDivisor => call.m \in Divisors
  /\ call.f \in {"mod_inv", "gcd", "is_coprime"} => call.a \in Recognised
  /\ call.f = "mod_inv" => call.m \in Recognised
  /\ call.f \in {"gcd", "is_coprime"} => call.b \in Recognised
  /\ call.f = "from_hex" /\ call.good < 4 => Garbage # {}

(* nlimbs counts the limbs of d, in every object after every sequence of   *)
(* calls: fp256_is_zero, fp256_is_one, fp256_cmp and ll_div read it in     *)
(* place of the number.  The one exception is a zero of one limb that      *)
(* fp256_set_limb has made, LimbZero: fp256_is_zero denies that it is.     *)
NormalForm == \A x \in Objects : obj[x] \in {Obj(obj[x].d), LimbZero}

IInv == TypeOK /\ NormalForm /\ CallFits

(* The functions of fp256_mod.c leave a number below the modulus that is   *)
(* congruent to what their comments promise, also when the carry of a sum  *)
(* is in a fifth limb, the difference is negative, an operand is a zero of *)
(* one limb, or the result replaces an operand or the modulus.  There are  *)
(* exceptions.  fp256_mod_neg of a multiple of the modulus leaves the      *)
(* modulus, not 0 (Bounded).  Careful names calls of which nothing is      *)
(* promised: the result replaces a modulus that is read afterwards, an     *)
(* even modulus of fp256_mod_exp, a refused fp256_mod_inv, and one whose   *)
(* operands make ll_lehmer_exgcd drop a borrow or lose a limb.             *)
PowerMod(x, e, m) ==
  LET p[k \in 0 .. e] == IF k = 0 THEN 1 % m ELSE (p[k - 1] * x) % m IN p[e]

Promised ==
  CASE call.f = "mod" -> a.d
    [] call.f = "mod_neg" -> -a.d
    [] call.f = "mod_add" -> a.d + b.d
    [] call.f = "mod_sub" -> a.d - b.d
    [] call.f = "mod_mul" -> a.d * b.d
    [] call.f = "mod_sqr" -> a.d * a.d
    [] call.f = "mod_exp" -> PowerMod(a.d, obj[call.e].d, obj[call.m].d)

Modular ==
  {"mod", "mod_neg", "mod_add", "mod_sub", "mod_mul", "mod_sqr", "mod_exp", "mod_inv"}

Careful ==
  /\ call.f \in {"mod_neg", "mod_sub", "mod_inv"} => call.r # call.m
  /\ call.f = "mod_inv" => /\ ~IsZero(a) /\ ~IsZero(obj[call.m])
                           /\ <<a.d, obj[call.m].d>> \notin Borrowing \cup Losing
  /\ call.f = "mod_exp" => IsOdd(obj[call.m])

(* fp256.h promises -a % m for every a.                                    *)
Bounded(v, m) == IF call.f = "mod_neg" /\ a.d % m = 0 THEN v = m ELSE v < m

(* The inverse times the number is their divisor, which is 1 if a has an   *)
(* inverse (test/modinv_test.c).                                           *)
Right(v, m) ==
  IF call.f = "mod_inv" THEN (v * a.d - GCD(a.d, m)) % m = 0 ELSE (v - Promised) % m = 0

ModularResults ==
  [][call.f \in Modular /\ Careful =>
       LET v == obj'[call.r].d
           m == obj[call.m].d
       IN  Bounded(v, m) /\ Right(v, m)]_vars

(* fp256_mul and fp256_div have two results, which may replace their       *)
(* operands: together they still make up the product, or the dividend.     *)
PairedResults ==
  [][/\ call.f = "mul" /\ call.r # call.hi =>
          obj'[call.hi].d * M + obj'[call.r].d = a.d * b.d
     /\ call.f = "div" /\ call.q # NULL /\ call.rem \notin {NULL, call.q} =>
          /\ obj'[call.q].d * obj[call.m].d + obj'[call.rem].d = a.d
          /\ obj'[call.rem].d < obj[call.m].d]_vars
==============================================================================
