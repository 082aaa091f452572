SPECIFICATION HFairSpec
CONSTANTS
  Streams <- ShortStreams
INVARIANTS TypeOK
PROPERTIES KeepsStream AllDelivered
CHECK_DEADLOCK FALSE
