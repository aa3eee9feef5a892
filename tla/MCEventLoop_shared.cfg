SPECIFICATION Spec
CONSTANTS
  c1 = c1
  Conns = {c1}
  Listen = Listen
  MaxEvents = 2
  MaxIn = 1
  MaxRoom = 1
  HeaderSize = 1
  SendSizes = {1}
  AcceptFails = FALSE
  SharedListener = TRUE
  NestedRewake = TRUE
INVARIANT
  InnerWaitNeverBlocks
CHECK_DEADLOCK FALSE
