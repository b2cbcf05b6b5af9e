CONSTANTS
  Launchers = {l1, l2}
  Terminals = {t1, t2}
  Providers = {p1, p2}
  RemoteIDs = {r1, r2, r3}
  None = None
SPECIFICATION Spec
INVARIANTS RegistryConsistent
PROPERTIES ImplementsDirectory
