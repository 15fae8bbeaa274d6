\* Four limbs of two bits, moduli from 1 to the largest, with and without zero
\* limbs; the assembly conditional subtraction, result arrays full of zeros.
CONSTANTS
  W = 2
  Len = 4
  Routines = {"u256_mul", "u256_sqr", "u256_reduce", "mul", "reduce"}
  Build = "asm"
  Moduli = {1, 3, 65, 127, 171, 193, 253, 255}
  Contexts <- MCContexts
  Operands <- MCOperands
  OldResults = {0}
SPECIFICATION Spec
INVARIANT CarryKept
PROPERTY ImplementsMontMul
