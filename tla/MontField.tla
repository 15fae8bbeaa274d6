------------------------------- MODULE MontField -------------------------------
(***************************************************************************)
(* A client of src/src/fp256_mont.c: it sets up a mont_ctx, brings numbers *)
(* into Montgomery form, multiplies, squares and exponentiates them there  *)
(* and brings them back, with any object as result and operand.            *)
(***************************************************************************)
EXTENDS Fp256Values

CONSTANTS
  Objects,   \* the fp256 objects of the client
  Words,     \* the arguments w that it gives to fp256_mont_ctx_init
  Moduli     \* the moduli that it gives to it, even ones and zero included

ASSUME ArgumentsAssumption == Words \subseteq Nat /\ Moduli \subseteq Numbers

VARIABLES
  mctx,   \* the mont_ctx
  obj,    \* obj[x]: the object x
  mont,   \* history: the objects in Montgomery form
  num,    \* history: num[x] is the number that the client has in mind for x
  ret     \* what the last call returned

vars == <<mctx, obj, mont, num, ret>>

NoContext == [w |-> 0, N |-> 1, RR |-> 0]

Init ==
  /\ mctx = NoContext
  /\ obj = [x \in Objects |-> Zero]
  /\ mont = {}
  /\ num = [x \in Objects |-> 0]
  /\ ret = "ok"

N == mctx.N
Ready == mctx # NoContext

(* The context is one for fp256_mont_mul, which works with R = 2^256.      *)
Matched == mctx.w \notin 1 .. 3

------------------------------------------------------------------------------
(* Mutant of CtxInit: RR is R, not its square.                             *)
CtxInitOnce ==
  /\ obj' = [x \in Objects |-> Zero]
  /\ mont' = {}
  /\ num' = [x \in Objects |-> 0]
  /\ \E w \in Words, n \in Moduli :
       /\ w \in 1 .. 4 /\ n % 2 = 1
       /\ mctx' = [w |-> w, N |-> n, RR |-> B^w % n]
  /\ ret' = "ok"

(* fp256_mont_ctx_init: RR = 2^(2 * 64 * w) mod N.  Numbers in Montgomery  *)
(* form belong to their modulus: the client starts again with a new one.   *)
CtxInit ==
  /\ obj' = [x \in Objects |-> Zero]
  /\ mont' = {}
  /\ num' = [x \in Objects |-> 0]
  /\ \E w \in Words, n \in Moduli :
       /\ w \in 1 .. 4 /\ n % 2 = 1
       /\ mctx' = [w |-> w, N |-> n, RR |-> B^(2 * w) % n]
  /\ ret' = "ok"

CtxRefused ==
  /\ \E w \in Words, n \in Moduli : w \notin 1 .. 4 \/ n % 2 = 0
  /\ ret' = "err"
  /\ UNCHANGED <<mctx, obj, mont, num>>

(* Without a context that fits, the client loses track of its numbers.     *)
Put(r, value, meaning) ==
  /\ obj' = [obj EXCEPT ![r] = Obj(value)]
  /\ num' = [num EXCEPT ![r] = IF Matched THEN meaning ELSE 0]
  /\ ret' = "ok"
  /\ UNCHANGED mctx

Plain(r) == mont' = mont \ {r}
InMont(r) == mont' = mont \cup {r}

(* The client computes a number, below N or not. *)
Set == Ready /\ \E r \in Objects, v \in Numbers : Put(r, v, v) /\ Plain(r)

(* The product with RR by fp256_mont_mul.                                  *)
ToMont ==
  /\ Ready
  /\ \E r \in Objects, x \in Objects \ mont :
       Put(r, Redc(obj[x].d * mctx.RR, N), num[x] % N) /\ InMont(r)

FromMont ==
  \E r \in Objects, x \in mont : Put(r, Redc(obj[x].d, N), num[x]) /\ Plain(r)

Mul ==
  \E r \in Objects, x, y \in mont :
    Put(r, Redc(obj[x].d * obj[y].d, N), (num[x] * num[y]) % N) /\ InMont(r)

Sqr ==
  \E r \in Objects, x \in mont :
    Put(r, Redc(obj[x].d * obj[x].d, N), (num[x] * num[x]) % N) /\ InMont(r)

PowerMod(v, e) ==
  LET p[k \in 0 .. e] == IF k = 0 THEN 1 % N ELSE (p[k - 1] * v) % N IN p[e]

(* A nonzero exponent, see MontExp. *)
Exp ==
  \E r \in Objects, x \in mont, e \in Objects \ mont :
    /\ ~IsZero(obj[e])
    /\ Put(r, MontPower(obj[x].d, Seen(obj[e]), mctx.RR, N), PowerMod(num[x], num[e]))
    /\ InMont(r)

Next == CtxInit \/ CtxRefused \/ Set \/ ToMont \/ FromMont \/ Mul \/ Sqr \/ Exp

Spec == Init /\ [][Next]_vars

------------------------------------------------------------------------------
(* The context is the one that the client asked for, and its constant RR   *)
(* belongs to the modulus that is in use.                                  *)
ContextFits ==
  \/ mctx = NoContext /\ mont = {}
  \/ /\ mctx.w \in Words \cap 1 .. 4 /\ N \in Moduli /\ N % 2 = 1
     /\ mctx.RR = B^(2 * mctx.w) % N

TypeOK ==
  /\ obj \in [Objects -> [d : Numbers, n : 0 .. 4]]
  /\ num \in [Objects -> Numbers]
  /\ mont \subseteq Objects
  /\ \A x \in mont : num[x] < N

(* An object in Montgomery form is reduced and stands for the number that  *)
(* the client has in mind, times 2^256, and an object that was brought     *)
(* back is that number: no sequence of conversions, products and powers    *)
(* loses or gains a factor R, whichever objects its calls share.  This is  *)
(* so in a context with w = 4.  fp256_mont_ctx_init takes w from 1 to 3 as *)
(* well, for which RR need not be the square of the 2^256 that             *)
(* fp256_mont_mul works with: then objects in Montgomery form are reduced, *)
(* and no more is promised.                                                *)
Represents ==
  \A x \in Objects :
    IF Matched THEN obj[x] = Obj(IF x \in mont THEN (num[x] * M) % N ELSE num[x])
    ELSE obj[x] = Obj(obj[x].d) /\ (x \in mont => obj[x].d < N)

IInv == TypeOK /\ ContextFits /\ Represents
==============================================================================
