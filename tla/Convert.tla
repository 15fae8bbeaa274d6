------------------------------- MODULE Convert -------------------------------
(***************************************************************************)
(* Bytes and hexadecimal text to limbs and back: src/src/ll/ll_convert.c   *)
(* and the loops of ll_utils.c over it.  A digit has DigitBits bits        *)
(* instead of four, a byte two digits; "order" is the byte order asked     *)
(* for, "end" that of the machine.  Characters are the digits they stand   *)
(* for, upper and lower case being the same digit.                         *)
(***************************************************************************)
EXTENDS Limbs

CONSTANT DigitBits   \* bits of a digit; a limb has an even number of digits

D == 2^DigitBits
Byte == D * D
LimbBytes == W \div (2 * DigitBits)
LimbDigits == 2 * LimbBytes

Digits == 0 .. D - 1
Bad == D          \* any character that is not a digit
Orders == {"big", "little"}

(* The number that n digits of the given base stand for, highest first. *)
Number(x, n, base) ==
  LET v[k \in 0 .. n] == IF k = 0 THEN 0 ELSE v[k - 1] * base + x[k - 1]
  IN  v[n]

(* A k-byte word in memory, of a machine with the given byte order. *)
Load(t, p, k, end) ==
  Number([i \in 0 .. k - 1 |-> IF end = "big" THEN t[p + i] ELSE t[p + k - 1 - i]], k, Byte)
BytesOf(z, k, end) ==
  [i \in 0 .. k - 1 |-> (z \div Byte^(IF end = "big" THEN k - 1 - i ELSE i)) % Byte]

(* ll_bswap4 and ll_bswap8 *)
Swap(z, k) == Load(BytesOf(z, k, "little"), 0, k, "big")

(* u8_to_u32 and u8_to_u64 on n bytes: the word is read from a buffer that *)
(* has k zero bytes in front of them, so that the n bytes come last.       *)
U8ToWord(b, n, k, order, end) ==
  LET t == [j \in 0 .. k + n - 1 |-> IF j < k THEN 0 ELSE b[j - k]]
  IN  [ok |-> n <= k,
       z  |-> IF order = end THEN Load(t, n, k, end) ELSE Swap(Load(t, n, k, end), k)]

WordToU8(z, k, order, end) == BytesOf(IF order = end THEN z ELSE Swap(z, k), k, end)

U8ToHex(b, n) ==
  [j \in 0 .. 2 * n - 1 |-> IF j % 2 = 0 THEN b[j \div 2] \div D ELSE b[j \div 2] % D]

(* u32_to_hex, by a table for either order *)
U32ToHex(z, k, order) ==
  [j \in 0 .. 2 * k - 1 |->
     LET place == IF order = "big" THEN 2 * k - 1 - j
                  ELSE IF j % 2 = 0 THEN j + 1 ELSE j - 1
     IN  (z \div D^place) % D]

(* hex_to_u8: the first of an odd number of digits is a byte of its own;   *)
(* the bytes before the first character that is not a digit are written.   *)
HexToU8(s, n) ==
  LET low(j) == (2 * j) + 1 - (n % 2)
      written == {j \in 0 .. ((n + 1) \div 2) - 1 : \A i \in 0 .. low(j) : s[i] \in Digits}
  IN  [ok |-> \A i \in 0 .. n - 1 : s[i] \in Digits,
       d  |-> [j \in written |-> (IF low(j) = 0 THEN 0 ELSE s[low(j) - 1] * D) + s[low(j)]]]

(* Mutant of HexToWord: the bytes are put at the start of the word.        *)
HexToWordInFront(s, n, k, order, end) ==
  LET h == HexToU8(s, n)
      tmp == [j \in 0 .. k - 1 |-> IF j \in DOMAIN h.d THEN h.d[j] ELSE 0]
  IN  [ok |-> n <= 2 * k /\ h.ok, z |-> U8ToWord(tmp, k, k, order, end).z]

(* hex_to_u64: the bytes are put at the end of a cleared word. *)
HexToWord(s, n, k, order, end) ==
  LET h == HexToU8(s, n)
      first == k - ((n + 1) \div 2)
      tmp == [j \in 0 .. k - 1 |-> IF j - first \in DOMAIN h.d THEN h.d[j - first] ELSE 0]
  IN  [ok |-> n <= 2 * k /\ h.ok, z |-> U8ToWord(tmp, k, k, order, end).z]

U64ToHex(z, k, order, end) == U8ToHex(WordToU8(z, k, order, end), k)

(***************************************************************************)
(* ll_from_hex and ll_from_bytes take whole limbs from the end of the text *)
(* while there are any, and then what is left in front; Group is the piece *)
(* for limb i, of a text of n characters, g to a limb.                     *)
(***************************************************************************)
Groups(n, g) == (n + g - 1) \div g

Group(s, n, g, i) ==
  LET first == IF n >= g * (i + 1) THEN n - (g * (i + 1)) ELSE 0
      len == n - (g * i) - first
  IN  [d |-> From(s, first, len), n |-> len]

(* A group that is no number ends ll_from_hex, with the limbs below        *)
(* written and *rl left alone.                                             *)
FromHex(rd, s, n, end) ==
  LET word(i) == LET p == Group(s, n, LimbDigits, i)
                 IN  HexToWord(p.d, p.n, LimbBytes, "big", end)
      after[i \in 0 .. Groups(n, LimbDigits)] ==
        IF i = 0 THEN [ok |-> TRUE, d |-> rd]
        ELSE IF after[i - 1].ok /\ word(i - 1).ok
        THEN [ok |-> TRUE, d |-> [after[i - 1].d EXCEPT ![i - 1] = word(i - 1).z]]
        ELSE [ok |-> FALSE, d |-> after[i - 1].d]
      last == after[Groups(n, LimbDigits)]
  IN  [ok |-> last.ok, d |-> last.d,
       rl |-> IF last.ok THEN NumLimbs(last.d, Groups(n, LimbDigits)) ELSE -1]

FromBytes(rd, b, n, end) ==
  LET d == [i \in DOMAIN rd |->
              IF i >= Groups(n, LimbBytes) THEN rd[i]
              ELSE LET p == Group(b, n, LimbBytes, i)
                   IN  U8ToWord(p.d, p.n, LimbBytes, "big", end).z]
  IN  [d |-> d, rl |-> NumLimbs(d, Groups(n, LimbBytes))]

(* ll_to_hex and ll_to_bytes write all limbs, the highest first.           *)
ToHex(rd, rl, end) ==
  [j \in 0 .. LimbDigits * rl - 1 |->
     U64ToHex(rd[rl - 1 - (j \div LimbDigits)], LimbBytes, "big", end)[j % LimbDigits]]

ToBytes(rd, rl, end) ==
  [j \in 0 .. LimbBytes * rl - 1 |->
     WordToU8(rd[rl - 1 - (j \div LimbBytes)], LimbBytes, "big", end)[j % LimbBytes]]
==============================================================================
