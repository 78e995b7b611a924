CONSTANTS
  MaxQueue = 1
  MaxQueueNum = 2
  IdxMod = 4
  HiVals = {0}
  LoVals = {0}
  QueueVals = {0, 1}
  NumVals = {1, 3}
  ReadyVals = {0, 1}
  StatusVals = {0, 1}
  AckVals = {{0}}
  Outcomes = {"sync", "async"}
  DescIdx <- MCDescIdx
  Heads <- MCHeads
  DescMem <- MCDescMemGood
SPECIFICATION Spec
INVARIANT TypeOK HeadsAnswered IrqReflectsIntStatus
PROPERTY PushbackResumed
