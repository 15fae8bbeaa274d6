\* Every number of four one-bit limbs in three objects; text is always a number.
CONSTANTS
  W = 1
  Objects = {x1, x2, x3}
  NULL = NULL
  Garbage = {}
  Borrowing <- MCBorrowing
  Losing <- MCLosing
SPECIFICATION Spec
SYMMETRY MCSymmetry
INVARIANT NormalForm
PROPERTY ModularResults
PROPERTY PairedResults
