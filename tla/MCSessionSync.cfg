SPECIFICATION Spec
CONSTANTS
  Ids = {a, b}
  Contents = {short, brief, long}
  Oversize = {long}
  NoCall = NoCall
  Capacity = 2
  MaxKey = 7
  MaxGeneration = 2
  MaxSequence = 2
  MaxWire = 3
  MaxInfos = 1
  MaxChanges = 2
  MaxDrops = 2
SYMMETRY Interchange
INVARIANTS TypeOK KeysIdentify CountedListIsCurrent SettledListIsCurrent
CHECK_DEADLOCK FALSE
