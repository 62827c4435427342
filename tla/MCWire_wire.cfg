SPECIFICATION WireSpec
CONSTANTS
  Lengths <- MCLengths
  MaxMessages = 2
  Lost = {0, 1, 24}
  ContractCounts = {1, 128}
  MaxFrames = 3
  CountsAll = {"Options"}
CHECK_DEADLOCK FALSE
INVARIANTS DeliveredExactly InStep
PROPERTIES PacketDone AllRead
