SPECIFICATION Spec
CONSTANTS
  l1 = l1
  l2 = l2
  t1 = t1
  Launchers = {l1, l2}
  Terminals = {t1}
  TerminalOf <- SameTerminal
  MaxEvents = 2
  MaxLives = 2
  None = None
INVARIANTS NothingLost ReplayOnlyAfterCut
PROPERTIES ImplementsDurableQueue StartupOrder CommandsEnd
CHECK_DEADLOCK FALSE
