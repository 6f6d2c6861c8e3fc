SPECIFICATION FairPapersSpec
CONSTANTS
  Papers = {p1, p2}
  Teachers = {t1}
  Workers = {w1, w2}
  NoPaper = NoPaper
  PaperSlots <- OneOfEach
  Answers <- Attempts
  MaxAttempts = 2
  MaxQuestions = 3
  MaxEdits = 2
  MaxCrashes = 1
INVARIANTS PaperIsInOrder
PROPERTY PapersEnd
CHECK_DEADLOCK FALSE
