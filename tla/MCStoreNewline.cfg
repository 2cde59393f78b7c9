SPECIFICATION Spec
CONSTANTS
  started = started
  r1 = r1
  r2 = r2
  Sessions = {s1}
  Records = {started, r1, r2}
  Started = started
  InitialRecords <- MCInitialRecords
  Residues = {"nothing", "partial", "noNewline", "whole"}
  Corrupt = Corrupt
  Clean = Clean
  Torn = Torn
  NoFile = NoFile
  NoLog = NoLog
  MaxRecords = 3
PROPERTIES
  AppendIsKept
