SPECIFICATION Spec
CONSTANTS
  started = started
  r1 = r1
  r2 = r2
  Sessions = {s1, s2}
  Records = {started, r1, r2}
  Started = started
  InitialRecords <- MCInitialRecords
  Residues = {"nothing", "partial", "whole"}
  Corrupt = Corrupt
  Clean = Clean
  Torn = Torn
  NoFile = NoFile
  NoLog = NoLog
  MaxRecords = 3
INVARIANTS
  LogsAreSound
  ListedIsWhole
PROPERTIES
  StoreIsDurableLog
  RecordIsKept
