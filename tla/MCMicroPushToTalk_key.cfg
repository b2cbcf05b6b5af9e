CONSTANT MaxWire = 2
SPECIFICATION Spec
INVARIANT KeyUpOnRelease
