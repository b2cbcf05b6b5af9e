CONSTANTS
  PRE_ROLL_FRAME_COUNT = 2
  AlertChunks = 2
  MaxSequence = 5
SPECIFICATION Spec
INVARIANTS TypeOK RingIsNewest LastSequenceTracksWire CodecsOpenInUse AlertYields
PROPERTIES FramesAnnounced ImplementsControl AlertEnds
