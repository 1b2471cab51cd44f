SPECIFICATION FairSpec
CONSTANTS
  j1 = j1 j2 = j2 t1 = t1
  Jobs = {j1, j2}
  Torrents = {t1}
  TorrentOf <- OneShared
  MaxStops = 2
  MaxCrashes = 1
  NoJob = NoJob
  Pieces <- ThreePieces
  NumFiles = 2
  PiecesOf <- Spanning
  MultiFile = TRUE
  none = none bad = bad
  NoFile = {none}
  BadLength = {bad}
  OldOutputs <- SomeOutput
INVARIANTS
  TypeOK
  NoFalseComplete
  CrashLosesNothing
  ActiveHasTask
  TaskHasTorrent
  WrittenIsWhole
PROPERTIES
  ResumeNeverShrinks
  CompleteSurvives
  StopSettles
