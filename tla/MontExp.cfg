SPECIFICATION ExpSpec
CONSTANTS
  ByteBits = 4
  MaxLen = 3
  Pow2 <- MCPow2
  Lengths = {0, 1, 2, 3}
  Windows <- MCWindows
  Builds = {TRUE, FALSE}
INVARIANTS
  IInv
  PowerIsExact
