\* Limbs of two bits, arrays of up to three limbs, and of four; words of eight bits.
CONSTANTS
  W = 2
  MaxLen = 3
  WordBits = 8
  DigitBits = 1
  MaxText = 18
SPECIFICATION Spec
INVARIANT ExactWords
INVARIANT ArraysAreExact
INVARIANT ShiftsAreExact
INVARIANT U256IsExact
INVARIANT ConversionsAreExact
