CONSTANTS
  Sessions = {s1, s2}
  None = None
  MaxWire = 2
SPECIFICATION Spec
SYMMETRY SessionSymmetry
INVARIANT ReleaseEndsCapture
