CONSTANTS
  Threads = {t1, t2}
  Drawers = {t1}
  Sources = {"getrandom", "urandom"}
  Policies = {"ready", "any"}
  ByteBits = 2
  LimbBytes = 2
  MaxLimbs = 2
  Tries = 3
  Bits = {0, 1, 3, 4, 5, 9}
  Bounds <- MCBounds
SPECIFICATION Spec
INVARIANT BufferFilled
INVARIANT NumbersInRange
INVARIANT NothingMissing
INVARIANT OneDescriptor
INVARIANT IInv
PROPERTY CallsReturn
CHECK_DEADLOCK FALSE
