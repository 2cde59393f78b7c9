SPECIFICATION MachineSpec
CONSTANTS
  i1 = i1
  i2 = i2
  b1 = b1
  b2 = b2
  CallIds = {i1, i2}
  CallBodies = {b1, b2}
  NoId = NoId
  NoCall = NoCall
  NoBatch = NoBatch
  NoAction = NoAction
  Batches <- MCBatches
  Transcripts <- MCTranscripts
  InitialMessages <- MCInitialMessages
  MaxMessages = 5
INVARIANTS
  TypeOK
  TranscriptIsSound
