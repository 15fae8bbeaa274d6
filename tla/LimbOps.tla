------------------------------- MODULE LimbOps -------------------------------
(***************************************************************************)
(* A caller of the routines of Limbs, U256 and Convert: it picks a routine *)
(* and operands, lengths included, and compares what the routine leaves in *)
(* memory with integer arithmetic.                                         *)
(***************************************************************************)
EXTENDS U256

CONSTANTS
  MaxLen,    \* longest array
  WordBits,  \* width of the limbs for routines on single limbs and on text
  DigitBits, \* width of a digit of text
  MaxText    \* longest text, in digits

ASSUME MaxLenAssumption == MaxLen \in Nat /\ MaxText \in Nat

(* A limb has a whole number of bytes, a byte two digits. *)
ASSUME WordBitsAssumption ==
  /\ WordBits \in Nat \ {0} /\ DigitBits \in Nat \ {0}
  /\ WordBits % (2 * DigitBits) = 0

(* The powers that the properties speak of, for the proofs: tlapm does not *)
(* know how a power follows from the one before.                           *)
ASSUME PowersAssumption ==
  /\ B^0 = 1 /\ \A k \in 0 .. MaxLen + 3 : B^(k + 1) = B * B^k
  /\ \A s \in 0 .. (MaxLen + 1) * W : 2^(s + 1) = 2 * 2^s
  /\ \A s \in 0 .. WordBits - 1 : 2^(s + 1) = 2 * 2^s

(* The routines on single limbs need limbs that split in halves, and enough *)
(* bits for the iteration to take more than one step.                       *)
Word == INSTANCE Limbs WITH W <- WordBits

(* Text, in these limbs.                                                   *)
Text == INSTANCE Convert WITH W <- WordBits

(* The powers of the limb, of the byte and of the digit, for texts.        *)
ASSUME TextPowersAssumption ==
  /\ Word!B^0 = 1
  /\ \A k \in 0 .. Text!Groups(MaxText, Text!LimbDigits) - 1 : Word!B^(k + 1) = Word!B * Word!B^k
  /\ Text!Byte^0 = 1 /\ \A k \in 0 .. Text!LimbBytes : Text!Byte^(k + 1) = Text!Byte * Text!Byte^k
  /\ Text!D^0 = 1 /\ \A k \in 0 .. Text!LimbDigits : Text!D^(k + 1) = Text!D * Text!D^k

VARIABLES
  call,   \* the call: routine, operands and lengths
  out     \* what it left in memory and returned, NoOut before it ran

vars == <<call, out>>

Lengths == 0 .. MaxLen

(* ad has al limbs and bd has bl; b is the single-limb operand, and rd the *)
(* old contents of the result of muladd, mulsub and mul.                   *)
NoCall == [f |-> "none"]
NoOut == [none |-> TRUE]

Init == call = NoCall /\ out = NoOut

CallWords ==
  \E a, b \in Word!Limb :
    \/ call' = [f |-> "mulwords", a |-> a, b |-> b]
    \/ a % 2 = 1 /\ b = 0 /\ call' = [f |-> "invert", a |-> a]
    \/ b = 0 /\ call' = [f |-> "num_bits", a |-> a]

CallArrays ==
  \E al, bl \in Lengths : \E ad \in Arrays(al), bd \in Arrays(bl) :
    \/ call' = [f |-> "add", ad |-> ad, bd |-> bd, al |-> al, bl |-> bl]
    \/ /\ al >= bl /\ Val(ad, al) >= Val(bd, bl)
       /\ call' = [f |-> "sub", ad |-> ad, bd |-> bd, al |-> al, bl |-> bl]
    \/ call' = [f |-> "cmp", ad |-> ad, bd |-> bd, al |-> al, bl |-> bl]
    \/ call' = [f |-> "mul", ad |-> ad, bd |-> bd, al |-> al, bl |-> bl]

(* muladd and mulsub update rl >= al limbs of rd by ad * b; muladd also    *)
(* writes rd[rl], whatever it held.                                        *)
CallRows ==
  \E al, rl \in Lengths :
    \E ad \in Arrays(al), rd \in Arrays(rl + 1), b \in Limb :
      \/ /\ rl = al
         /\ call' = [f |-> "mul_limb", ad |-> ad, al |-> al, b |-> b]
      \/ /\ rl >= al
         /\ \E f \in {"muladd", "mulsub"} :
              call' = [f |-> f, rd |-> rd, ad |-> ad, b |-> b, rl |-> rl, al |-> al]

(* The array has room for what a shift by n bits writes. *)
CallShifts ==
  \E al \in Lengths, n \in 0 .. (MaxLen + 1) * W :
    \E ad \in Arrays(al), old \in {0, B - 1}, f \in {"lshift", "rshift"} :
      call' = [f |-> f, al |-> al, n |-> n,
               x |-> [j \in 0 .. al + (n \div W) |-> IF j < al THEN ad[j] ELSE old]]

(* The routines on four limbs: one call stands for one of each of them.    *)
CallU256 ==
  \E ad \in U256s :
    \/ \E bd \in U256s : call' = [f |-> "u256", ad |-> ad, bd |-> bd]
    \/ \E b \in Limb : call' = [f |-> "u256_limb", ad |-> ad, b |-> b]
    \/ \E n \in 0 .. W - 1 : call' = [f |-> "u256_shift", ad |-> ad, n |-> n]

(* Texts of every length that are uniform except in two places: a         *)
(* character only has to get to its place and no other.                    *)
Patterns(n, alphabet, plain) ==
  IF n = 0 THEN {<<>>}
  ELSE {[i \in 0 .. n - 1 |-> IF i = p THEN x ELSE IF i = q THEN y ELSE z] :
          p, q \in 0 .. n - 1, x, y \in alphabet, z \in plain}

CallText ==
  \E end \in Text!Orders :
    \/ \E n \in 0 .. MaxText :
         \/ \E s \in Patterns(n, Text!Digits \cup {Text!Bad}, Text!Digits) :
              call' = [f |-> "text", s |-> s, n |-> n, end |-> end]
         \/ /\ n % 2 = 0
            /\ \E s \in Patterns(n \div 2, 0 .. Text!Byte - 1, {0}) :
                 call' = [f |-> "bytes", s |-> s, n |-> n \div 2, end |-> end]
    \/ \E order \in Text!Orders, k \in {Text!LimbBytes \div 2, Text!LimbBytes} :
         \E n \in 0 .. k :
           \E s \in [0 .. n - 1 -> 0 .. Text!Byte - 1] :
             call' = [f |-> "word", s |-> s, n |-> n, k |-> k, order |-> order, end |-> end]

Call ==
  /\ call = NoCall
  /\ CallWords \/ CallArrays \/ CallRows \/ CallShifts \/ CallU256 \/ CallText
  /\ UNCHANGED out

(* The callers of ll_cmp_limbs pass the lengths that ll_num_limbs counts.  *)
CmpNormalized(ad, bd, al, bl) ==
  LET an == NumLimbs(ad, al)
      bn == NumLimbs(bd, bl)
  IN  CmpLimbs(From(ad, 0, an), From(bd, 0, bn), an, bn)

(* The result array of ll_mul before the call. *)
Garbage(n) == [i \in 0 .. n - 1 |-> B - 1]

RunU256(c) ==
  CASE c.f = "u256" ->
         [sum |-> AddU256(c.ad, c.bd), macro |-> AddMacro(c.ad, c.bd),
          dif |-> SubU256(c.ad, c.bd),
          mul |-> MulU256(c.ad, c.bd), mullo |-> MulLoU256(c.ad, c.bd),
          sqr |-> SqrU256(c.ad), sqrlo |-> SqrLoU256(c.ad)]
    [] c.f = "u256_limb" ->
         [sum |-> AddLimbU256(c.ad, c.b), dif |-> SubLimbU256(c.ad, c.b),
          mul |-> MulLimbU256(c.ad, c.b)]
    [] c.f = "u256_shift" -> [left |-> LShiftU256(c.ad, c.n), right |-> RShiftU256(c.ad, c.n)]

(* A text is turned into limbs, over an array of ones, and back.  A call   *)
(* "word" stands for one of each of the routines on single words.          *)
RunText(c) ==
  LET limbs == Text!Groups(c.n, IF c.f = "text" THEN Text!LimbDigits ELSE Text!LimbBytes)
      ones == [i \in 0 .. limbs - 1 |-> Word!B - 1]
  IN
    CASE c.f = "text" ->
           LET from == Text!FromHex(ones, c.s, c.n, c.end)
           IN  [from |-> from, back |-> Text!ToHex(from.d, limbs, c.end)]
      [] c.f = "bytes" ->
           LET from == Text!FromBytes(ones, c.s, c.n, c.end)
           IN  [from |-> from, back |-> Text!ToBytes(from.d, limbs, c.end)]
      [] c.f = "word" ->
           LET z == Text!U8ToWord(c.s, c.n, c.k, c.order, c.end).z
           IN  [z |-> z,
                bytes |-> Text!WordToU8(z, c.k, c.order, c.end),
                hex32 |-> Text!U32ToHex(z, c.k, c.order),
                hex64 |-> Text!U64ToHex(z, c.k, c.order, c.end)]

Run ==
  /\ call # NoCall
  /\ out = NoOut
  /\ LET c == call IN
     out' = CASE c.f = "mulwords" -> Word!MulWords(c.a, c.b)
              [] c.f = "invert"   -> [c |-> Word!InvertLimb(c.a)]
              [] c.f = "num_bits" -> [c |-> Word!NumBits(c.a, WordBits)]
              [] c.f = "add"      -> Add(c.ad, c.bd, c.al, c.bl)
              [] c.f = "sub"      -> Sub(c.ad, c.bd, c.al, c.bl)
              [] c.f = "mul_limb" -> MulLimb(c.ad, c.b, c.al)
              [] c.f = "muladd"   -> MulAddLimb(c.rd, c.ad, c.b, c.rl, c.al)
              [] c.f = "mulsub"   -> MulSubLimb(c.rd, c.ad, c.b, c.rl, c.al)
              [] c.f = "cmp"      -> [c |-> CmpNormalized(c.ad, c.bd, c.al, c.bl)]
              [] c.f = "mul"      -> [d |-> Mul(Garbage(c.al + c.bl), c.ad, c.bd, c.al, c.bl)]
              [] c.f = "lshift"   -> LShift(c.x, c.al, c.n)
              [] c.f = "rshift"   -> RShift(c.x, c.al, c.n)
              [] c.f \in {"text", "bytes", "word"} -> RunText(c)
              [] OTHER            -> RunU256(c)
  /\ UNCHANGED call

Return == out # NoOut /\ call' = NoCall /\ out' = NoOut

Next == Call \/ Run \/ Return

Spec == Init /\ [][Next]_vars

------------------------------------------------------------------------------
Returned(f) == out # NoOut /\ call.f = f

(* The product of two limbs built from half limbs (LL_MUL64), the negated  *)
(* inverse of an odd limb (ll_invert_limb) and the bit count (ll_num_bits) *)
(* are exact: no partial sum loses a carry, the Newton iteration has       *)
(* converged, and the halving has found the highest bit.                   *)
ExactWords ==
  /\ Returned("num_bits") => call.a < 2^out.c /\ (out.c > 0 => call.a >= 2^(out.c - 1))
  /\ Returned("mulwords") => Word!B * out.hi + out.lo = call.a * call.b
  /\ Returned("invert") => (call.a * out.c + 1) % Word!B = 0

(* Arrays.  ll_add and ll_sub propagate carries and borrows through        *)
(* operands of different lengths, and the last carry lands in the limb     *)
(* after the sum.  The rows of a product lose no carry or borrow although  *)
(* each iteration hands only one limb to the next, muladd's last limb      *)
(* replaces whatever the array held there, and mulsub returns the borrow.  *)
(* ll_mul leaves the full product from any contents of the result array.   *)
(* ll_num_limbs and ll_cmp_limbs order arrays like the numbers they stand  *)
(* for, whatever zero limbs lie above their last nonzero limb.             *)
ArraysAreExact ==
  LET x == Val(call.ad, call.al)
      y == Val(call.bd, call.bl)
  IN
    /\ Returned("add") =>
         LET long == IF call.al >= call.bl THEN call.al ELSE call.bl
         IN  Val(out.d, long + 1) = x + y
    /\ Returned("sub") => Val(out.d, call.al) = x - y /\ out.c = 0
    /\ Returned("mul_limb") => Val(out.d, call.al + 1) = x * call.b
    /\ Returned("muladd") =>
         Val(out.d, call.rl + 1) = Val(call.rd, call.rl) + x * call.b
    /\ Returned("mulsub") =>
         /\ Val(out.d, call.rl) - B^call.rl * out.c = Val(call.rd, call.rl) - x * call.b
         /\ out.d[call.rl] = call.rd[call.rl]
    /\ Returned("mul") => Val(out.d, call.al + call.bl) = x * y
    /\ Returned("cmp") => out.c = (IF x > y THEN 1 ELSE IF x < y THEN -1 ELSE 0)

(* Shifts move bits between neighbouring limbs of one array, by any         *)
(* distance, without losing one or reading a limb they have overwritten;    *)
(* a distance of whole limbs and one beyond the operand are paths of their  *)
(* own.  The limb above the result is what ll_lshift returns.               *)
ShiftsAreExact ==
  LET v == Val(call.x, call.al)
      l == call.n \div W
  IN
    /\ Returned("lshift") /\ call.al > 0 =>
         /\ Val(out.d, call.al + l + 1) = v * 2^call.n
         /\ out.c = out.d[call.al + l]
    /\ Returned("rshift") => Val(out.d, call.al) = v \div 2^call.n
    /\ Returned("u256_shift") =>
         /\ Val(out.left, 5) = Val(call.ad, 4) * 2^call.n
         /\ Val(out.right, 4) = Val(call.ad, 4) \div 2^call.n

(* Four limbs.  The carry that ll_u256_add, ll_u256_sub and the macro      *)
(* LL_U256_ADD leave is the bit that four limbs cannot hold, although each *)
(* limb combines its two carries by "or" and tests the wrapped sum.  Every *)
(* carry of the sixteen limb products and of the doubling in the square    *)
(* reaches the limb it belongs to, and the routines for the lower half may *)
(* drop exactly what lies above it.                                        *)
U256IsExact ==
  LET x == Val(call.ad, 4)
      y == Val(call.bd, 4)
  IN
    /\ Returned("u256") =>
         /\ Val(out.sum.d, 4) + B^4 * out.sum.c = x + y
         /\ out.macro = out.sum
         /\ Val(out.dif.d, 4) - B^4 * out.dif.c = x - y
         /\ Val(out.mul, 8) = x * y /\ Val(out.mullo, 4) = (x * y) % B^4
         /\ Val(out.sqr, 8) = x * x /\ Val(out.sqrlo, 4) = (x * x) % B^4
    /\ Returned("u256_limb") =>
         /\ Val(out.sum.d, 4) + B^4 * out.sum.c = x + call.b
         /\ Val(out.dif.d, 4) - B^4 * out.dif.c = x - call.b
         /\ Val(out.mul.d, 4) + B^4 * out.mul.c = x * call.b

(* Text and bytes of every length become the number they stand for and     *)
(* come back as they were, padded to whole limbs; the limb count has no    *)
(* zero limb on top; and a character that is no digit, wherever it is,     *)
(* makes ll_from_hex fail with nothing but the limbs below written.  On a  *)
(* machine of either byte order.  A short little endian word comes out as  *)
(* if it had zero bytes in front (ll_convert.c:119).                       *)
ConversionsAreExact ==
  LET top(v, limbs) ==
        IF v = 0 THEN 0 ELSE CHOOSE l \in 1 .. limbs : v \in Word!B^(l - 1) .. Word!B^l - 1
      exact(g, base) ==
        LET limbs == Text!Groups(call.n, g)
            v == Text!Number(call.s, call.n, base)
            pad == g * limbs - call.n
        IN  /\ Word!Val(out.from.d, limbs) = v /\ out.from.rl = top(v, limbs)
            /\ out.back = [j \in 0 .. g * limbs - 1 |-> IF j < pad THEN 0 ELSE call.s[j - pad]]
  IN
    /\ Returned("text") =>
         LET bad == {j \in 0 .. call.n - 1 : call.s[j] = Text!Bad}
             below == {i \in DOMAIN out.from.d :
                         \A j \in bad : j < call.n - Text!LimbDigits * (i + 1)}
         IN  /\ out.from.ok = (bad = {})
             /\ bad = {} => exact(Text!LimbDigits, Text!D)
             /\ bad # {} => \A i \in DOMAIN out.from.d :
                  out.from.d[i] =
                    IF i \notin below THEN Word!B - 1
                    ELSE Text!Number([j \in 0 .. Text!LimbDigits - 1 |->
                                        call.s[call.n - Text!LimbDigits * (i + 1) + j]],
                                     Text!LimbDigits, Text!D)
    /\ Returned("bytes") => exact(Text!LimbBytes, Text!Byte)
    /\ Returned("word") =>
         LET pad == call.k - call.n
             padded == [j \in 0 .. call.k - 1 |-> IF j < pad THEN 0 ELSE call.s[j - pad]]
             digits == [j \in 0 .. 2 * call.k - 1 |->
                          IF j % 2 = 0 THEN padded[j \div 2] \div Text!D
                          ELSE padded[j \div 2] % Text!D]
         IN  /\ out.z = Text!Number(IF call.order = "big" THEN padded
                                    ELSE [j \in DOMAIN padded |-> padded[call.k - 1 - j]],
                                    call.k, Text!Byte)
             /\ out.bytes = padded /\ out.hex32 = digits /\ out.hex64 = digits
==============================================================================
