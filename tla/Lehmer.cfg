CONSTANTS
  W = 4
  MaxLimbs = 4
  Operands <- Pairs
  Calls = {"gcd", "inv", "both"}
SPECIFICATION Spec
INVARIANT TypeOK
INVARIANT ScratchSuffices
INVARIANT GcdUnlessBorrowed
INVARIANT InverseTimesNumber
INVARIANT IdentityUnlessSwapped
PROPERTY ImplementsEuclid
PROPERTY Answers
