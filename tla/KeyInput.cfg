SPECIFICATION Spec
CONSTANTS
  KBD_QUEUE_CAP = 3
  Key <- Keys
  Letters <- LetterKeys
  ShiftKeys <- Shifts
  Unmapped <- NoCodeKeys
  QueueSize = 3
  MaxPushes = 1
  MaxPeep = 2
  MaxTyped = 4
INVARIANTS
  TypeOK
  TypedAsStruck
  StrokesInOrder
  KeyStateTracks
PROPERTIES
  RingIsQueue
