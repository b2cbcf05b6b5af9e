CONSTANTS
  DebounceTicks = 4
  HoldTicks = 70
  DoubleClickTicks = 50
  Periods = {2, 3, 5, 60}
SPECIFICATION Spec
PROPERTIES ImplementsGestures ReplacedOnlyByAJump PendingClickResolves
