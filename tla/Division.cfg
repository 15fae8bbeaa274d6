\* Limbs of five bits; numerators of up to four limbs, divisors of up to three.
CONSTANTS
  W = 5
  MaxN = 4
  MaxD = 3
  Numerators <- MCNumerators
  Divisors <- MCDivisors
  Junk = 21
SPECIFICATION Spec
INVARIANT PartialDivision
INVARIANT EstimateOneTooLarge
INVARIANT ReciprocalIsExact
INVARIANT DivisionIsExact
