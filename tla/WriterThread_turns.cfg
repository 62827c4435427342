SPECIFICATION Spec
CONSTANTS
  QueueCap = 2
  BATCH_SIZE = 1
  WordSize = 3
CHECK_DEADLOCK FALSE
INVARIANTS CountedOnce
PROPERTIES Served ThreadsStop
