SPECIFICATION FairSpec
CONSTANTS
  Chapters = {c1}
  Workers = {w1, w2}
  NoChapter = NoChapter
  MaxAttempts = 2
  MaxBatches = 2
  MaxEdits = 2
  MaxCrashes = 1
INVARIANTS IndexedTextIsCurrent
PROPERTIES RunsEnd VectorsArrive LastClaimWins
CHECK_DEADLOCK FALSE
