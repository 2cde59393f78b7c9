SPECIFICATION EngineSpec
CONSTANTS
  i1 = i1
  i2 = i2
  b1 = b1
  c1 = c1
  c2 = c2
  CallIds = {i1, i2}
  CallBodies = {b1}
  NoId = NoId
  NoCall = NoCall
  NoBatch = NoBatch
  NoAction = NoAction
  Batches <- MCBatches
  Transcripts <- MCTranscripts
  InitialMessages <- MCInitialMessages
  MaxMessages = 4
  Turn = Turn
  Commands = {c1}
  MaxRuns = 2
CHECK_DEADLOCK FALSE
PROPERTIES
  CancelledContextEndsRun
