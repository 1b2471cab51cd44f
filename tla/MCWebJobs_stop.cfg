SPECIFICATION Spec
CONSTANTS
  j1 = j1 j2 = j2 t1 = t1
  Jobs = {j1}
  Torrents = {t1}
  TorrentOf <- OneShared
  MaxStops = 1
  MaxCrashes = 0
  NoJob = NoJob
  Pieces <- ThreePieces
  NumFiles = 2
  PiecesOf <- Spanning
  MultiFile = TRUE
  none = none bad = bad
  NoFile = {none}
  BadLength = {bad}
  OldOutputs <- NoOutput
PROPERTIES
  StopIsHonest
CHECK_DEADLOCK FALSE
