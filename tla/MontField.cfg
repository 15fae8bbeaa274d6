\* Numbers of four one-bit limbs; every w and some that are refused.
CONSTANTS
  W = 1
  Objects = {x1, x2, x3}
  Words = {0, 1, 2, 3, 4, 5}
  Moduli = {0, 1, 3, 6, 7, 9, 15}
SPECIFICATION Spec
SYMMETRY MCSymmetry
INVARIANT Represents
