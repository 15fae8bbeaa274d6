------------------------------- MODULE MontExp -------------------------------
(***************************************************************************)
(* ll_u256_mont_exp of src/src/ll/ll_u256_mont.c: exponentiation by fixed  *)
(* windows.  A Montgomery residue is represented by the exponent of the    *)
(* base it stands for: ll_u256_mont_mul adds two exponents and             *)
(* ll_u256_mont_sqr doubles one, because R * r = x * y modulo N for their  *)
(* results (module MontMul).  What is left is what the function itself     *)
(* does: bytes, windows, the table and its scratch slot.                   *)
(***************************************************************************)
EXTENDS Integers

CONSTANTS
  ByteBits,  \* bits of a byte, 8 in the code
  MaxLen,    \* bytes of the longest exponent, 32 in the code (u8 eb[33])
  Pow2,      \* Pow2[j] is 2 to the power j
  Lengths,   \* lengths of exponents in bytes, 8 * e->nlimbs in the code
  Windows,   \* window sizes in use, for every length: see ExpWindowSize
  Builds     \* is assert() compiled in: a build has it or not

ASSUME SizesAssumption ==
  /\ ByteBits \in Nat \ {0} /\ MaxLen \in Nat \ {0}
  /\ Lengths \subseteq 0 .. MaxLen
  /\ Windows \subseteq 1 .. ByteBits
  /\ Builds \subseteq BOOLEAN

ASSUME Pow2Assumption ==
  /\ Pow2 \in [0 .. ByteBits * (MaxLen + 1) -> Nat \ {0}]
  /\ Pow2[0] = 1 /\ Pow2[1] = 2
  /\ \A j, h \in DOMAIN Pow2 :
       j + h \in DOMAIN Pow2 => Pow2[j + h] = Pow2[j] * Pow2[h]

(* LL_EXP_WINDOW_SIZE *)
ExpWindowSize(b) ==
  CASE b > 937 -> 6 [] b \in 307 .. 937 -> 5 [] b \in 90 .. 306 -> 4
    [] b \in 23 .. 89 -> 3 [] OTHER -> 1

VARIABLES
  asserts,  \* TRUE when assert() is compiled in
  exponent, \* the exponent e, as a number
  len,      \* its length in bytes
  window,   \* window_size
  table,    \* pre_table: 2^window residues and one scratch slot, -1 unwritten
  filled,   \* entries of the table computed
  read,     \* i: bits of the exponent processed, from the most significant one
  trd,      \* the accumulator
  at        \* "idle", "table", "loop", "done" or "aborted"

expVars == <<asserts, exponent, len, window, table, filled, read, trd, at>>

ebits == len * ByteBits

(* eb[1] to eb[len] are the bytes of e, most significant first; the other   *)
(* bytes were cleared, and eb[MaxLen] is the last one there is.             *)
eb(j) ==
  IF j \in 1 .. len THEN (exponent \div Pow2[ByteBits * (len - j)]) % Pow2[ByteBits]
                    ELSE 0

ExpInit ==
  /\ asserts \in Builds
  /\ exponent = 0 /\ len = 0 /\ window = 1
  /\ table = [j \in {} |-> 0] /\ filled = 0 /\ read = 0 /\ trd = 0
  /\ at = "idle"

(* The exponent is zero in length when it is the number zero: its nlimbs   *)
(* is 0, and assert(ebits > 0) stops a build that has assertions.          *)
Call ==
  /\ at = "idle"
  /\ len' \in Lengths
  /\ exponent' \in 0 .. Pow2[ByteBits * len'] - 1
  /\ window' \in Windows
  /\ at' = IF asserts /\ len' = 0 THEN "aborted" ELSE "table"
  /\ table' = [j \in 0 .. Pow2[window'] |-> -1]
  /\ UNCHANGED <<asserts, filled, read, trd>>

(* Entry 0 is 1 in Montgomery form; every other entry is the one before it *)
(* times the base.                                                         *)
FillTable ==
  /\ at = "table" /\ filled < Pow2[window]
  /\ table' = [table EXCEPT ![filled] = IF filled = 0 THEN 0 ELSE table[filled - 1] + 1]
  /\ filled' = filled + 1
  /\ UNCHANGED <<asserts, exponent, len, window, read, trd, at>>

(* ll_u256_select reads the whole table, and gives 0 past its end. *)
Select(index) == IF index < Pow2[window] THEN table[index] ELSE -1

(* The bits that are too many for whole windows come first. *)
FirstWindow ==
  /\ at = "table" /\ filled = Pow2[window]
  /\ read' = ebits % window
  /\ trd' = Select(eb(1) \div Pow2[ByteBits - read'])
  /\ at' = "loop"
  /\ UNCHANGED <<asserts, exponent, len, window, table, filled>>

(* Mutant of Index: off = i / 8.                                           *)
IndexNextByte(end) ==
  LET off == end \div ByteBits
      two == (eb(off) * Pow2[ByteBits]) + eb(off + 1)
  IN  (two \div Pow2[(ebits - end) % ByteBits]) % Pow2[window]

(* The index is cut out of two adjacent bytes. *)
Index(end) ==
  LET off == (end - 1) \div ByteBits
      two == (eb(off) * Pow2[ByteBits]) + eb(off + 1)
  IN  (two \div Pow2[(ebits - end) % ByteBits]) % Pow2[window]

(* Mutant of Window: the scratch slot is the last entry of the table.       *)
WindowOverTable ==
  /\ at = "loop" /\ read < ebits
  /\ LET entry == Select(Index(read + window)) IN
      /\ read' = read + window
      /\ table' = [table EXCEPT ![Pow2[window] - 1] = entry]
      /\ trd' = (trd * Pow2[window]) + entry
  /\ UNCHANGED <<asserts, exponent, len, window, filled, at>>

(* One squaring for every bit of the window and one multiplication by the  *)
(* entry, copied to tmp first.                                             *)
Window ==
  /\ at = "loop" /\ read < ebits
  /\ LET entry == Select(Index(read + window)) IN
      /\ read' = read + window
      /\ table' = [table EXCEPT ![Pow2[window]] = entry]
      /\ trd' = (trd * Pow2[window]) + entry
  /\ UNCHANGED <<asserts, exponent, len, window, filled, at>>

Finish ==
  /\ at = "loop" /\ read >= ebits
  /\ at' = "done"
  /\ UNCHANGED <<asserts, exponent, len, window, table, filled, read, trd>>

Return ==
  /\ at = "done"
  /\ exponent' = 0 /\ len' = 0 /\ window' = 1
  /\ table' = [j \in {} |-> 0] /\ filled' = 0 /\ read' = 0 /\ trd' = 0
  /\ at' = "idle"
  /\ UNCHANGED asserts

(* After abort() nothing happens any more. *)
Dead == at = "aborted" /\ UNCHANGED expVars

ExpNext ==
  \/ Call \/ FillTable \/ FirstWindow \/ Window \/ Finish \/ Return
  \/ Dead

ExpSpec == ExpInit /\ [][ExpNext]_expVars

------------------------------------------------------------------------------
ExpTypeOK ==
  /\ asserts \in Builds
  /\ len \in Lengths \cup {0} /\ exponent \in 0 .. Pow2[ByteBits * len] - 1
  /\ window \in Windows \cup {1}
  /\ filled \in 0 .. Pow2[window] /\ read \in 0 .. ebits
  /\ trd \in Nat
  /\ at \in {"idle", "table", "loop", "done", "aborted"}

(* Between two calls nothing is left of the last one. *)
IdleIsClear == at = "idle" => len = 0 /\ exponent = 0 /\ window = 1 /\ filled = 0 /\ read = 0 /\ trd = 0

(* Entry j is the j-th power for ever: the scratch slot into which the code *)
(* copies the selected entry is not one of them.                            *)
TableHolds ==
  at # "idle" =>
    /\ DOMAIN table = 0 .. Pow2[window]
    /\ \A j \in 0 .. filled - 1 : table[j] = j
    /\ at \in {"loop", "done"} => filled = Pow2[window]

(* The accumulator is the power whose exponent is the bits read so far, no *)
(* matter how the windows lie across the bytes.                            *)
PrefixPower ==
  at \in {"loop", "done"} => trd = exponent \div Pow2[ebits - read]

(* The windows end exactly with the exponent: no step reads the byte after *)
(* the last one, and the function returns the base to the exponent.        *)
WindowsFit ==
  /\ at = "loop" => (ebits - read) % window = 0
  /\ at = "done" => read = ebits

PowerIsExact == at = "done" => trd = exponent

IInv == ExpTypeOK /\ IdleIsClear /\ TableHolds /\ PrefixPower /\ WindowsFit
==============================================================================
