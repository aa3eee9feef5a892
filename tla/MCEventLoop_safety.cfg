SPECIFICATION Spec
CONSTANTS
  c1 = c1
  c2 = c2
  Conns = {c1, c2}
  Listen = Listen
  MaxEvents = 2
  MaxIn = 2
  MaxRoom = 1
  HeaderSize = 1
  SendSizes = {0, 2}
  AcceptFails = FALSE
  SharedListener = TRUE
  NestedRewake = TRUE
SYMMETRY Symmetry
INVARIANTS
  TypeOK
  NoUseAfterFree
  NoDoubleFree
  ClientsCounted
  OnlySharingBlocks
  WriteNeverStalls
  ResetNeverMissed
  AcceptNeverStalls
  ExpiryNeverMissed
PROPERTY
  OnlyPipelinedUnheard
CHECK_DEADLOCK FALSE
