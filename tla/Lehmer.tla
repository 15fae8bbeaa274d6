------------------------------- MODULE Lehmer -------------------------------
(***************************************************************************)
(* src/src/ll/ll_lehmer.c: the greatest common divisor of two numbers and  *)
(* one or both of its cofactors, as fp256_gcd and fp256_mod_inv ask for    *)
(* them.  Euclid's algorithm is simulated on the two leading limbs of the  *)
(* operands; the quotients are collected in a matrix of four limbs, which  *)
(* is applied to the whole operands when the simulation stops.             *)
(*                                                                         *)
(* An array is the number in its limbs, together with the limb count that  *)
(* the code keeps for it; what the routines of ll_mul.c and ll_div.c leave *)
(* in their arrays is checked in LimbOps and Division.  A step is one      *)
(* iteration of a loop.                                                    *)
(***************************************************************************)
EXTENDS Integers

CONSTANTS
  W,          \* bits of a limb
  MaxLimbs,   \* limbs of the longest operand
  Operands,   \* the pairs of operands
  Calls       \* who calls ll_lehmer_exgcd, and for which of its results

B == 2^W
H == 2^(W \div 2)     \* thres of phase one is H, of phase two 2 * H

ASSUME WidthAssumption == W \in Nat /\ W >= 4 /\ W % 2 = 0
ASSUME OperandsAssumption ==
  /\ MaxLimbs \in Nat
  /\ Operands \subseteq (1 .. B^MaxLimbs - 1) \X (1 .. B^MaxLimbs - 1)
(* The powers that the proofs need: tlapm does not know how a power follows *)
(* from the one before.                                                    *)
ASSUME PowersAssumption ==
  /\ B = H * H /\ H \in Nat \ {0, 1}
  /\ 2^0 = 1 /\ \A s \in 0 .. W - 1 : 2^(s + 1) = 2 * 2^s
  /\ B^0 = 1 /\ \A k \in 0 .. MaxLimbs + 1 : B^(k + 1) = B * B^k

ASSUME CallsAssumption == Calls \subseteq {"gcd", "inv", "both"}

VARIABLES
  call, ad, bd,    \* the call: fp256_gcd, fp256_mod_inv, or gcd, sd and td
  tad, tbd,        \* the current remainders ...
  tal, tbl,        \* ... and their limb counts
  v0, v1, vl,      \* the cofactors of the smaller operand
  nc,              \* the lowest bit of nc; no other is read
  sim,             \* the simulation: a1:a0, b1:b0, the matrix and n
  res,             \* what the call stores
  pc,
  borrowed,        \* history: phase two subtracted the larger number
  lost             \* history: a cofactor had more limbs than vl counts

history == <<borrowed, lost>>
vars == <<call, ad, bd, tad, tbd, tal, tbl, v0, v1, vl, nc, sim, res, pc, borrowed, lost>>
operands == <<call, ad, bd>>
remainders == <<tad, tbd, tal, tbl>>
cofactors == <<v0, v1, vl>>

Larger(x, y) == IF x > y THEN x ELSE y

(* ll_num_limbs, ll_num_bits *)
LimbCount(x) == LET c[y \in Nat] == IF y = 0 THEN 0 ELSE 1 + c[y \div B] IN c[x]
BitCount(x) == LET c[y \in Nat] == IF y = 0 THEN 0 ELSE 1 + c[y \div 2] IN c[x]

LimbAt(x, i) == (x \div B^i) % B

------------------------------------------------------------------------------
(* A matrix is <<m00, m01, m10, m11>>, its entries are limbs.              *)
Matrices == Nat \X Nat \X Nat \X Nat
Identity == <<1, 0, 0, 1>>
Exchange == <<0, 1, 1, 0>>

(* mat = [0, 1; 1, q] * mat *)
Times(q, m) == <<m[3], m[4], (m[1] + m[3] * q) % B, (m[2] + m[4] * q) % B>>

(* Mutant of ReduceBy: the products stay in the temporary arrays.          *)
ReduceByKept(s, x, y, l) == [a |-> x, b |-> y]

(* [m00, -m01; -m10, m11] * (x, y), negated after an odd number of factors, *)
(* in l + 1 limbs: ll_lehmer_update_ab.                                    *)
Signed(n, z) == IF n % 2 = 1 THEN -z ELSE z

ReduceBy(s, x, y, l) ==
  [a |-> Signed(s.n, s.m[1] * x - s.m[2] * y) % B^(l + 1),
   b |-> Signed(s.n, s.m[4] * y - s.m[3] * x) % B^(l + 1)]

(* The limb count that ll_lehmer_update_ab returns covers both.            *)
CountOfFirst(r) == LimbCount(r.a)     \* a mutant: it covers the first only
CountOfBoth(r) == Larger(LimbCount(r.a), LimbCount(r.b))

(* Mutant of ExtendBy: the rows of the matrix are exchanged.               *)
ExtendByExchanged(s) ==
  LET x == v0 % B^vl  y == v1 % B^vl
  IN  [v0 |-> s.m[3] * x + s.m[4] * y, v1 |-> s.m[1] * x + s.m[2] * y]

(* mat * (v0, v1): ll_lehmer_update_v writes two more limbs than it reads. *)
ExtendBy(s) ==
  LET x == v0 % B^vl  y == v1 % B^vl
  IN  [v0 |-> s.m[1] * x + s.m[2] * y, v1 |-> s.m[3] * x + s.m[4] * y]

Start(x, y) == [a |-> x, b |-> y, m |-> Identity, n |-> 0]
StartExchanged(x, y) == [a |-> y, b |-> x, m |-> Exchange, n |-> 1]

StepBy(s, q) ==
  [a |-> s.b, b |-> s.a - q * s.b, m |-> Times(q, s.m), n |-> s.n + 1]

------------------------------------------------------------------------------
swap == ad < bd
extended == call # "gcd"

(* Each scratch array has l + 2 limbs.                                     *)
Room == Larger(LimbCount(ad), LimbCount(bd)) + 2

Init ==
  /\ call \in Calls
  /\ \E p \in Operands : ad = p[1] /\ bd = p[2]
  /\ tad = (IF ad < bd THEN bd ELSE ad) /\ tal = LimbCount(tad)
  /\ tbd = (IF ad < bd THEN ad ELSE bd) /\ tbl = LimbCount(tbd)
  /\ v0 = 0 /\ v1 = 1 /\ vl = 1
  /\ nc = 0
  /\ sim = Start(0, 0)
  /\ res = [gcd |-> 0, sd |-> 0, td |-> 0]
  /\ pc = "loop"
  /\ borrowed = FALSE /\ lost = FALSE

(* The two leading limbs, shifted until the larger one of the top limbs    *)
(* has its highest bit set; nothing when the lengths are too different.    *)
Leading(x) ==
  LET shift == W - Larger(BitCount(LimbAt(tad, tal - 1)), BitCount(LimbAt(tbd, tal - 1)))
  IN  IF tal - tbl <= 1 THEN ((x * 2^shift) \div B^(tal - 2)) % B^2 ELSE 0

StartSimulation ==
  /\ pc = "loop" /\ tbl >= 2
  /\ LET x == Leading(tad)  y == Leading(tbd)
     IN  /\ pc' = IF y < B THEN "simulated" ELSE "phase1"
         /\ sim' = IF y < B \/ x >= y THEN Start(x, y) ELSE StartExchanged(x, y)
  /\ UNCHANGED <<operands, remainders, cofactors, nc, res, history>>

(* A simulated step, unless the remainder is too small: then the           *)
(* simulation ends with the matrix it had before.                          *)
Simulate(q, r, least) ==
  /\ IF r < least THEN pc' = "simulated" /\ UNCHANGED sim
     ELSE sim' = [StepBy(sim, q) EXCEPT !.b = r] /\ UNCHANGED pc
  /\ UNCHANGED <<operands, remainders, cofactors, nc, res, lost>>

(* Phase one, on two limbs, while a1 has an upper half.  LL_SUB2 wraps.    *)
Difference2 == (sim.a - sim.b) % B^2

Phase1Divide ==
  /\ pc = "phase1" /\ sim.a \div B >= H /\ sim.b >= B
  /\ Difference2 \div B > sim.b \div B
  /\ Simulate(sim.a \div sim.b, sim.a % sim.b, B)
  /\ UNCHANGED borrowed

Phase1Subtract ==
  /\ pc = "phase1" /\ sim.a \div B >= H /\ sim.b >= B
  /\ Difference2 \div B <= sim.b \div B
  /\ Simulate(1, Difference2, B)
  /\ UNCHANGED borrowed

(* The middle of two limbs goes on as one limb. *)
Narrow ==
  /\ pc = "phase1" /\ sim.a \div B < H
  /\ sim' = [sim EXCEPT !.a = (sim.a \div H) % B, !.b = (sim.b \div H) % B]
  /\ pc' = "phase2"
  /\ UNCHANGED <<operands, remainders, cofactors, nc, res, history>>

Difference1 == (sim.a - sim.b) % B

(* Mutant of Phase2Divide: no test of the remainder but for zero.          *)
Phase2DivideToOne ==
  /\ pc = "phase2"
  /\ Difference1 > sim.b
  /\ Simulate(sim.a \div sim.b, sim.a % sim.b, 1)
  /\ UNCHANGED borrowed

(* Phase two, on one limb. *)
Phase2Divide ==
  /\ pc = "phase2"
  /\ Difference1 > sim.b
  /\ Simulate(sim.a \div sim.b, sim.a % sim.b, 2 * H)
  /\ UNCHANGED borrowed

(* After a last subtraction in phase one a0 may be smaller than b0; when   *)
(* b0 is so large that the wrapped difference does not exceed it either,   *)
(* this is no step of Euclid's algorithm.                                  *)
Phase2Subtract ==
  /\ pc = "phase2"
  /\ Difference1 <= sim.b
  /\ Simulate(1, Difference1, 2 * H)
  /\ borrowed' = (borrowed \/ sim.a < sim.b)

------------------------------------------------------------------------------
(* Both cofactors are below B^vl: no limb of them is left out of the count *)
(* vl.  ll_lehmer_update_v counts one limb more at most, of the two that   *)
(* it writes, and ll_euclid_update counts those of the new cofactor only,  *)
(* which is the shorter one if the division had no quotient.               *)
Counted(x, y, l) == x < B^l /\ y < B^l

(* The matrix applied to remainders and cofactors.                         *)
Update ==
  /\ pc = "simulated" /\ sim.n > 0
  /\ tal + 2 <= Room /\ vl + 2 <= Room
  /\ LET r == ReduceBy(sim, tad, tbd, tal)
     IN  /\ tad' = r.a /\ tbd' = r.b
         /\ tal' = CountOfBoth(r)
         /\ tbl' = LimbCount(r.b)
  /\ IF extended
     THEN LET v == ExtendBy(sim)
          IN  /\ v0' = v.v0 /\ v1' = v.v1
              /\ vl' = vl + (IF LimbAt(v.v0, vl) + LimbAt(v.v1, vl) > 0 THEN 1 ELSE 0)
     ELSE UNCHANGED cofactors
  /\ lost' = (lost \/ ~Counted(v0', v1', vl'))
  /\ nc' = (nc + sim.n) % 2
  /\ pc' = "loop"
  /\ UNCHANGED <<operands, sim, res, borrowed>>

(* Mutant of EuclidStep: the cofactors change places before the update.    *)
EuclidStepLate ==
  /\ \/ pc = "simulated" /\ sim.n = 0 /\ pc' = "loop"
     \/ pc = "loop" /\ tbl = 1 /\ tal > 1 /\ pc' = "word"
  /\ vl + tal <= Room
  /\ tad' = tbd /\ tal' = tbl
  /\ tbd' = tad % tbd /\ tbl' = LimbCount(tad % tbd)
  /\ IF extended
     THEN LET v == v1 + v0 * (tad \div tbd)
          IN  v0' = v0 /\ v1' = v /\ vl' = LimbCount(v)
     ELSE UNCHANGED cofactors
  /\ lost' = (lost \/ ~Counted(v0', v1', vl'))
  /\ nc' = 1 - nc
  /\ UNCHANGED <<operands, sim, res, borrowed>>

(* ll_euclid_update: one division of the whole operands, when nothing was  *)
(* simulated and to bring the larger one down to one limb.  The count of   *)
(* v0 is taken over vl + l limbs.                                          *)
EuclidStep ==
  /\ \/ pc = "simulated" /\ sim.n = 0 /\ pc' = "loop"
     \/ pc = "loop" /\ tbl = 1 /\ tal > 1 /\ pc' = "word"
  /\ vl + tal <= Room
  /\ tad' = tbd /\ tal' = tbl
  /\ tbd' = tad % tbd /\ tbl' = LimbCount(tad % tbd)
  /\ IF extended
     THEN LET v == IF tad < tbd THEN v0
                   ELSE (v0 % B^vl) + (v1 % B^vl) * (tad \div tbd)
          IN  v0' = v1 /\ v1' = v /\ vl' = LimbCount(v)
     ELSE UNCHANGED cofactors
  /\ lost' = (lost \/ ~Counted(v0', v1', vl'))
  /\ nc' = 1 - nc
  /\ UNCHANGED <<operands, sim, res, borrowed>>

(* ll_lehmer_exgcd11: Euclid's algorithm on the last limbs.                *)
StartWord ==
  /\ pc = "word" \/ (pc = "loop" /\ tbl = 1 /\ tal = 1)
  /\ LET x == tad % B  y == tbd % B
     IN  sim' = IF x >= y THEN Start(x, y) ELSE StartExchanged(x, y)
  /\ pc' = "limbs"
  /\ UNCHANGED <<operands, remainders, cofactors, nc, res, history>>

WordDivide ==
  /\ pc = "limbs" /\ sim.b > 0
  /\ sim' = StepBy(sim, sim.a \div sim.b)
  /\ UNCHANGED <<operands, remainders, cofactors, nc, res, pc, history>>

WordDone ==
  /\ pc = "limbs" /\ sim.b = 0
  /\ nc' = (nc + sim.n) % 2
  /\ pc' = "last"
  /\ UNCHANGED <<operands, remainders, cofactors, sim, res, history>>

(* The loop left no second remainder: the last matrix is used again.       *)
NoWord ==
  /\ pc = "loop" /\ tbl = 0
  /\ pc' = "last"
  /\ UNCHANGED <<operands, remainders, cofactors, nc, sim, res, history>>

(* The arrays that ll_lehmer_update_ab and _v fill here, tmp1, tmp2, v0    *)
(* and v1, are called by the names of what they replace.  The other        *)
(* cofactor is (bd * v0 -+ gcd) / ad, whichever operand v0 is the cofactor *)
(* of.                                                                     *)
Other(v, l, g) ==
  ((bd * v + Signed(nc, g)) % (B^LimbCount(bd) * B^l)) \div ad

Last ==
  /\ pc = "last"
  /\ tal + 2 <= Room /\ vl + 2 <= Room
  /\ LET r == ReduceBy(sim, tad, tbd, tal)
         x == ExtendBy(sim)
         v == x.v0 % B^(vl + 1)
         c == Signed(nc + 1, v)
         o == Signed(nc, Other(v, LimbCount(v), r.a))
     IN  /\ tad' = r.a /\ tbd' = r.b
         /\ IF extended THEN v0' = v /\ v1' = x.v1 /\ vl' = LimbCount(v)
            ELSE UNCHANGED cofactors
         /\ res' = [gcd |-> r.a,
                    sd |-> IF ~extended THEN 0 ELSE IF swap THEN c ELSE o,
                    td |-> IF call # "both" THEN 0 ELSE IF swap THEN o ELSE c]
  /\ pc' = "done"
  /\ UNCHANGED <<operands, tal, tbl, nc, sim, history>>

(* A write, or the scan of v0, that does not stay in its scratch array, or *)
(* a division by a number without upper limb: the rest is not defined.     *)
Overrun ==
  /\ \/ /\ pc = "last" \/ (pc = "simulated" /\ sim.n > 0)
        /\ tal + 2 > Room \/ vl + 2 > Room
     \/ /\ (pc = "simulated" /\ sim.n = 0) \/ (pc = "loop" /\ tbl = 1 /\ tal > 1)
        /\ vl + tal > Room
     \/ pc = "phase1" /\ sim.a \div B >= H /\ sim.b < B
  /\ pc' = "overrun"
  /\ UNCHANGED <<operands, remainders, cofactors, nc, sim, res, history>>

Done == pc \in {"done", "overrun"} /\ UNCHANGED vars

Step ==
  \/ StartSimulation \/ Phase1Divide \/ Phase1Subtract
  \/ Narrow \/ Phase2Divide \/ Phase2Subtract
  \/ Update \/ EuclidStep
  \/ StartWord \/ WordDivide \/ WordDone \/ NoWord \/ Last \/ Overrun

Next == Step \/ Done

Spec == Init /\ [][Next]_vars /\ WF_vars(Step)

------------------------------------------------------------------------------
Divides(d, x) == x % d = 0

(* The greatest common divisor, by definition. *)
GCD(x, y) ==
  CHOOSE d \in 1 .. x : /\ Divides(d, x) /\ Divides(d, y)
                        /\ \A e \in d + 1 .. x : ~(Divides(e, x) /\ Divides(e, y))

Big == IF swap THEN bd ELSE ad
Small == IF swap THEN ad ELSE bd

TypeOK ==
  /\ tad \in Nat /\ tbd \in Nat /\ v0 \in Nat /\ v1 \in Nat
  /\ nc \in {0, 1} /\ borrowed \in BOOLEAN /\ lost \in BOOLEAN
  /\ sim \in [a : 0 .. B^2 - 1, b : 0 .. B^2 - 1, m : Matrices, n : Nat]
  /\ pc # "done" => tal >= LimbCount(tad) /\ tal >= tbl /\ tbl = LimbCount(tbd)
  /\ pc \in {"loop", "phase1", "phase2", "simulated", "word", "limbs", "last",
            "done", "overrun"}

(* fp256_gcd and fp256_mod_inv, when ll_lehmer_exgcd is back.              *)
Gcd == res.gcd
Inverse == IF res.sd < 0 THEN bd + res.sd ELSE res.sd

(* Neither of the two defects of the code has been met. *)
Trusted == ~borrowed /\ ~lost

(* ad * inverse = gcd modulo bd.                                           *)
InverseIsExact ==
  Divides(bd, Inverse * ad - GCD(ad, bd)) /\ Inverse \in 0 .. bd - 1

IdentityIsExact == ad * res.sd + bd * res.td = Gcd

(* include/fp256/fp256_ll.h on ll_lehmer_exgcd: "gcd = greatest comon      *)
(* divisor of ad and bd, gcd = ad * sd + bd * td", for all operands; and   *)
(* it always comes back.                                                   *)
ExgcdIsExact ==
  /\ pc = "done" =>
       /\ Gcd = GCD(ad, bd)
       /\ call = "both" /\ ~swap => IdentityIsExact
       /\ call = "inv" => InverseIsExact
  /\ pc # "overrun"

(* The divisor is right unless phase two has subtracted a larger number    *)
(* from a smaller one: nothing else, no stopping of the simulation too     *)
(* early or too late, no overflow of the matrix, can make it wrong.        *)
GcdUnlessBorrowed == pc = "done" /\ ~borrowed => Gcd = GCD(ad, bd)

(* test/modinv_test.c: "a * inv mod m should be equal to gcd(a, m)", and   *)
(* the inverse is below the modulus, whichever operand is larger and       *)
(* whichever sign the cofactor has, as long as every limb is counted.      *)
InverseTimesNumber == pc = "done" /\ call = "inv" /\ Trusted => InverseIsExact

(* "gcd = ad * sd + bd * td" when both are asked for; if ad is the smaller *)
(* operand the code divides by the wrong one, which no caller meets.       *)
IdentityUnlessSwapped ==
  pc = "done" /\ call = "both" /\ Trusted /\ ~swap => IdentityIsExact

(* The collected matrix is unimodular and leaves no negative remainder,    *)
(* which is all that Euclid needs: no entry of it overflows its limb.      *)
Promise == INSTANCE Euclid WITH
  big     <- Big,
  small   <- Small,
  a       <- tad,
  b       <- tbd,
  sign    <- Signed(IF pc = "last" THEN nc + sim.n ELSE nc, 1),
  m       <- sim.m,
  track   <- extended,
  trusted <- Trusted

ImplementsEuclid == Promise!Spec

(* Every access to a scratch array of l + 2 limbs stays inside it: the     *)
(* matrix is applied only to remainders and cofactors that leave the two   *)
(* limbs that the routines of ll_mul.c write beyond their operands, and a  *)
(* quotient never carries a cofactor out of its array.  The cofactors are  *)
(* those of the remainders kept beside them after every update and every   *)
(* division.                                                               *)
ScratchSuffices == Trusted => pc # "overrun" /\ Promise!CofactorsFit

(* The loop ends: every iteration makes the remainders smaller.            *)
Answers == <>(pc = "done" \/ ~Trusted)
==============================================================================
