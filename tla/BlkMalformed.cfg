CONSTANTS
  MaxQueue = 1
  MaxQueueNum = 2
  IdxMod = 4
  HiVals = {0}
  LoVals = {0}
  QueueVals = {0}
  NumVals = {1}
  ReadyVals = {1}
  StatusVals = {0}
  AckVals = {{0}}
  Outcomes = {"sync", "async"}
  DescIdx <- MixedDescIdx
  Heads <- MixedHeads
  DescMem <- MixedDescMem
SPECIFICATION Spec
VIEW ServedView
PROPERTY NotifyLoopEnds
CHECK_DEADLOCK FALSE
