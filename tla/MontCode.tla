------------------------------ MODULE MontCode ------------------------------
(***************************************************************************)
(* The two implementations of Montgomery arithmetic, one step per          *)
(* iteration: ll_u256_mont_mul, ll_u256_mont_sqr and ll_u256_mont_reduce   *)
(* of src/src/ll/ll_u256_mont.c on four limbs in registers, and            *)
(* ll_mont_mul and ll_mont_reduce of src/src/ll/ll_mont.c on arrays of Len *)
(* limbs in a scratch array.  ll_mont_sqr and ll_to_mont call ll_mont_mul, *)
(* ll_from_mont calls ll_mont_reduce.                                      *)
(***************************************************************************)
EXTENDS U256

CONSTANTS
  Len,        \* l of ll_mont.c
  Routines,   \* the functions that the caller uses
  Build,      \* "c": ll_mont_cond_sub_limbs in C; "asm": the assembly one
  Contexts,   \* the mont_ctx structures in use: [N |-> modulus, k0 |-> k0]
  Operands,   \* the operands, as numbers; they need not be below N
  OldResults  \* what the result array may hold before a reduction

ASSUME LenAssumption == Len \in Nat \ {0}
ASSUME BuildAssumption == Build \in {"c", "asm"}

U256Routines == {"u256_mul", "u256_sqr", "u256_reduce"}
ArrayRoutines == {"mul", "reduce"}

ASSUME RoutinesAssumption ==
  /\ Routines \subseteq U256Routines \cup ArrayRoutines
  /\ Routines \cap U256Routines # {} => Len = 4

ASSUME ContextsAssumption ==
  \A c \in Contexts :
    /\ c.N \in 1 .. B^Len - 1 /\ c.N % 2 = 1
    /\ c.k0 \in Limb /\ (c.N * c.k0 + 1) % B = 0

ASSUME OperandsAssumption ==
  Operands \subseteq 0 .. B^Len - 1 /\ OldResults \subseteq 0 .. B^Len - 1

(* The powers in use, for the proofs. *)
ASSUME PowersAssumption == B^0 = 1 /\ \A k \in 0 .. Len - 1 : B^(k + 1) = B * B^k

VARIABLES
  ctx,   \* modulus and k0
  op,    \* the routine
  a, b,  \* ad and bd
  i,     \* iterations done
  y,     \* the registers of the macros, y0 first: six for u256_mul, else four
  z,     \* r4 to r7 of ll_u256_mont_sqr: the upper half of the square
  td,    \* the scratch array of ll_mont.c, 2 * Len + 2 limbs from alloca
  rd,    \* the result array
  pc,    \* "idle", "loop" or "done"
  m      \* history: the multiple of N added so far, as a number

vars == <<ctx, op, a, b, i, y, z, td, rd, pc, m>>

NoContext == [N |-> 1, k0 |-> B - 1]

Nd == LimbsOf(ctx.N, Len)

(* What alloca returns: never read before it is written.                   *)
Scratch == [k \in 0 .. 2 * Len + 1 |-> B - 1]

Init ==
  /\ ctx = NoContext /\ op = "none"
  /\ a = Zeros(Len) /\ b = Zeros(Len)
  /\ i = 0 /\ y = Zeros(4) /\ z = Zeros(4) /\ td = Scratch /\ rd = Zeros(Len)
  /\ pc = "idle" /\ m = 0

Start(o, c, ad, bd) ==
  /\ o \in Routines
  /\ op' = o /\ ctx' = c /\ a' = ad /\ b' = bd
  /\ pc' = "loop"
  /\ UNCHANGED <<i, m>>

In(o, iterations) == pc = "loop" /\ op = o /\ i \in iterations

Iterated == i' = i + 1 /\ UNCHANGED <<ctx, op, a, b, rd, pc>>

Finished == pc' = "done" /\ UNCHANGED <<ctx, op, a, b, i, y, z, m>>

------------------------------------------------------------------------------
(***************************************************************************)
(* Four limbs.  The code names the registers r0 to r5 and passes them to   *)
(* the macros in an order that rotates with the iteration; y is the file   *)
(* in the order of the macro, y[0] the register that becomes zero.  The    *)
(* first row, LL_U256_MUL_U64, is a row added to registers that are zero,  *)
(* so the first iteration is like the others.                              *)
(***************************************************************************)
CallU256Mul ==
  /\ pc = "idle"
  /\ \E c \in Contexts, x, w \in Operands :
       Start("u256_mul", c, LimbsOf(x, 4), LimbsOf(w, 4))
  /\ y' = Zeros(6)
  /\ UNCHANGED <<z, td, rd>>

CallU256Sqr ==
  /\ pc = "idle"
  /\ \E c \in Contexts, x \in Operands : Start("u256_sqr", c, LimbsOf(x, 4), Zeros(4))
  /\ y' = From(SqrU256(a'), 0, 4) /\ z' = From(SqrU256(a'), 4, 4)
  /\ UNCHANGED <<td, rd>>

CallU256Reduce ==
  /\ pc = "idle"
  /\ \E c \in Contexts, x \in Operands : Start("u256_reduce", c, LimbsOf(x, 4), Zeros(4))
  /\ y' = a'
  /\ UNCHANGED <<z, td, rd>>

(* The multiple of N of this iteration, for the history variable.          *)
Added(y0) == m' = m + Wrap(y0 * ctx.k0) * B^i

IterateMul ==
  LET t == MontMulAdd(y, a, b[i])
  IN  /\ In("u256_mul", 0 .. 3)
      /\ y' = Rotate(Redc1(t, Nd, ctx.k0), 0)
      /\ Added(t[0])
      /\ Iterated /\ UNCHANGED <<z, td>>

IterateRedc ==
  /\ In("u256_sqr", 0 .. 3) \/ In("u256_reduce", 0 .. 3)
  /\ y' = Redc2(y, Nd, ctx.k0)
  /\ Added(y[0])
  /\ Iterated /\ UNCHANGED <<z, td>>

FinishU256Mul ==
  /\ In("u256_mul", {4})
  /\ rd' = CondSubU256(y[4], From(y, 0, 4), Nd)
  /\ Finished /\ UNCHANGED td

(* The square adds its upper half before the conditional subtraction.      *)
FinishU256Sqr ==
  LET s == AddMacro(z, y)
  IN  /\ In("u256_sqr", {4})
      /\ rd' = CondSubU256(s.c, s.d, Nd)
      /\ Finished /\ UNCHANGED td

(* The reduction passes the constant 0 as carry.                           *)
FinishU256Reduce ==
  /\ In("u256_reduce", {4})
  /\ rd' = CondSubU256(0, y, Nd)
  /\ Finished /\ UNCHANGED td

------------------------------------------------------------------------------
(***************************************************************************)
(* Arrays.  The scratch array is never shifted: iteration i works on td[i] *)
(* and the limbs above it.                                                 *)
(***************************************************************************)
CallMul ==
  /\ pc = "idle"
  /\ \E c \in Contexts, x, w \in Operands :
       Start("mul", c, LimbsOf(x, Len), LimbsOf(w, Len))
  /\ UNCHANGED <<y, z, td, rd>>

(* The lower Len limbs of td are the operand, the next Len are cleared.    *)
CallReduce ==
  /\ pc = "idle"
  /\ \E c \in Contexts, x \in Operands, old \in OldResults :
       Start("reduce", c, LimbsOf(x, Len), Zeros(Len)) /\ rd' = LimbsOf(old, Len)
  /\ td' = Into(Into(td, 0, a'), Len, Zeros(Len))
  /\ UNCHANGED <<y, z>>

(* t plus the multiple of N that clears t[i]; the row is rl limbs long and *)
(* its carry replaces t[i + rl].                                           *)
ClearLimb(t, rl) ==
  /\ td' = Into(t, i, MulAddLimb(From(t, i, rl + 1), Nd, Wrap(t[i] * ctx.k0), rl, Len).d)
  /\ Added(t[i])

FirstRow ==
  /\ In("mul", {0})
  /\ ClearLimb(Into(td, 0, MulLimb(a, b[0], Len).d), Len + 1)
  /\ Iterated /\ UNCHANGED <<y, z>>

RowOfProduct == Into(td, i, MulAddLimb(From(td, i, Len + 2), a, b[i], Len + 1, Len).d)

(* Mutant of NextRow: the row of N is one limb short.                      *)
NextRowShort ==
  /\ In("mul", 1 .. Len - 1)
  /\ ClearLimb(RowOfProduct, Len + 1)
  /\ Iterated /\ UNCHANGED <<y, z>>

NextRow ==
  /\ In("mul", 1 .. Len - 1)
  /\ ClearLimb(RowOfProduct, Len + 2)
  /\ Iterated /\ UNCHANGED <<y, z>>

ReduceRow ==
  /\ In("reduce", 0 .. Len - 1)
  /\ ClearLimb(td, Len)
  /\ Iterated /\ UNCHANGED <<y, z>>

(* The bit-wise choice of the C code between the difference and ad; the    *)
(* mask is the comparison itself, 1 or 0, not a limb of ones or zeros.     *)
MaskBit(x, v, cond) == IF cond THEN (x % 2) + (v - (v % 2)) ELSE v

CondSubLimbs(ad, bd) ==
  LET s == SubLimbs(From(ad, 0, Len), bd, Len)
  IN  [k \in 0 .. Len - 1 |->
         IF Build = "c" THEN MaskBit(s.d[k], ad[k], ad[Len] >= s.c)
         ELSE IF ad[Len] >= s.c THEN s.d[k] ELSE ad[k]]

FinishMul ==
  /\ In("mul", {Len})
  /\ rd' = CondSubLimbs(From(td, Len, Len + 1), Nd)
  /\ Finished /\ UNCHANGED td

(* The reduction adds the array it is about to overwrite.                  *)
FinishReduce ==
  LET s == AddLimbs(From(td, Len, Len), rd, Len)
  IN  /\ In("reduce", {Len})
      /\ td' = [Into(td, Len, s.d) EXCEPT ![2 * Len] = s.c]
      /\ rd' = CondSubLimbs(From(td', Len, Len + 1), Nd)
      /\ Finished

------------------------------------------------------------------------------
Return ==
  /\ pc = "done"
  /\ ctx' = NoContext /\ op' = "none"
  /\ a' = Zeros(Len) /\ b' = Zeros(Len)
  /\ i' = 0 /\ y' = Zeros(4) /\ z' = Zeros(4) /\ td' = Scratch /\ rd' = Zeros(Len)
  /\ pc' = "idle" /\ m' = 0

Next ==
  \/ CallU256Mul \/ CallU256Sqr \/ CallU256Reduce
  \/ IterateMul \/ IterateRedc
  \/ FinishU256Mul \/ FinishU256Sqr \/ FinishU256Reduce
  \/ CallMul \/ CallReduce
  \/ FirstRow \/ NextRow \/ ReduceRow
  \/ FinishMul \/ FinishReduce
  \/ Return

Spec == Init /\ [][Next]_vars

------------------------------------------------------------------------------
(* The sixth register of ll_u256_mont_mul is a carry that is shifted down  *)
(* before the next row is added: it must then be at most one, and gone     *)
(* after the reduction.  ll_muladd_limb stores its carry over whatever the *)
(* limb above the row held, and ll_mont_cond_sub_limbs looks at one limb   *)
(* above the result: in ll_mont_mul the limb after that holds the carry of *)
(* the last reduction and must be zero, or a bit would disappear.          *)
CarryKept ==
  /\ op = "u256_mul" => y[5] = 0 /\ y[4] \in {0, 1}
  /\ op = "mul" /\ i \in 2 .. Len => td[i + Len + 1] = 0

TypeOK ==
  /\ ctx \in Contexts \cup {NoContext} /\ op \in Routines \cup {"none"}
  /\ a \in Arrays(Len) /\ b \in Arrays(Len) /\ i \in 0 .. Len /\ m \in Nat
  /\ y \in Arrays(IF op = "u256_mul" THEN 6 ELSE 4) /\ z \in Arrays(4)
  /\ td \in Arrays(2 * Len + 2)
  /\ pc \in {"idle", "loop", "done"} /\ rd \in Arrays(Len)

(* Between calls nothing is left over.                                     *)
IdleIsClear ==
  /\ pc = "idle" <=> op = "none"
  /\ pc = "idle" => /\ ctx = NoContext /\ a = Zeros(Len) /\ b = Zeros(Len)
                    /\ i = 0 /\ m = 0

(* What a routine does not use is zero, and a result array holds what it   *)
(* held before the call until the end.                                     *)
UnusedIsZero ==
  /\ op # "u256_sqr" => z = Zeros(4)
  /\ op \notin {"mul", "u256_mul"} => b = Zeros(Len)
  /\ op = "reduce" /\ pc = "loop" => Val(rd, Len) \in OldResults
  /\ pc = "done" => i = Len

(* A product stays below a + N: one limb and one bit above it are enough.  *)
ProductFits ==
  /\ op = "u256_mul" => Val(y, 6) < Val(a, 4) + ctx.N
  /\ op = "mul" /\ i > 0 => Val(From(td, i, Len + 1), Len + 1) < Val(a, Len) + ctx.N
  /\ op = "mul" /\ i \in 2 .. Len => td[i + Len + 1] = 0

IInv == TypeOK /\ IdleIsClear /\ UnusedIsZero /\ ProductFits

(* Iteration by iteration, registers and scratch array are the accumulator *)
(* of MontMul, the limbs of bd that no iteration has used yet are its      *)
(* multiplier: every step of either implementation is a step of MontMul,   *)
(* so the results are the ones proved there.                               *)
Accumulator ==
  CASE op = "u256_mul" -> Val(y, 6)
    [] op \in {"u256_sqr", "u256_reduce"} -> Val(y, 4)
    [] op = "mul" /\ i > 0 -> Val(From(td, i, Len + 1), Len + 1)
    [] op = "reduce" -> Val(From(td, i, Len), Len)
    [] OTHER -> 0

Abstract == INSTANCE MontMul WITH
  B    <- B,
  L    <- Len,
  Pow  <- [k \in 0 .. Len |-> B^k],
  op   <- CASE op \in {"mul", "u256_mul"} -> "mul"
            [] op \in {"reduce", "u256_reduce"} -> "reduce"
            [] op = "u256_sqr" -> "sqr"
            [] OTHER -> op,
  a    <- Val(a, Len),
  b    <- Val(b, Len),
  acc  <- Accumulator,
  rest <- IF op \in {"mul", "u256_mul"} THEN Val(b, Len) \div B^i ELSE 0,
  high <- Val(z, 4),
  r    <- IF pc = "done" THEN Val(rd, Len) ELSE 0

ImplementsMontMul == Abstract!Spec
==============================================================================
