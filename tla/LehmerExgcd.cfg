\* Operands for which the simulation goes wrong or a cofactor loses a limb.
CONSTANTS
  W = 4
  MaxLimbs = 4
  Operands <- Defects
  Calls = {"gcd", "inv", "both"}
SPECIFICATION Spec
INVARIANT ExgcdIsExact
