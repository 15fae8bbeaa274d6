\* Two limbs of two bits: every odd modulus below 16, every pair of operands.
CONSTANTS
  W = 2
  L = 2
  B <- MCB
  Pow <- MCPow
  Contexts <- MCContexts
SPECIFICATION Spec
INVARIANT IInv
INVARIANT Congruent
INVARIANT Reduced
