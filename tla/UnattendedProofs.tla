--------------------------- MODULE UnattendedProofs ---------------------------
(***************************************************************************)
(* The work nobody watches.  Any number of chapters, workers, batches and  *)
(* edits: the chapters' rows keep the promise of ClaimedWork, and indexed  *)
(* text is never that of an older upload.  Any number of organizations,    *)
(* years, classes, students, passes and operators: a night bills every     *)
(* campus whose day it is, and a month that is marked is billed.           *)
(***************************************************************************)
EXTENDS BookChapters, MonthlyBilling, FiniteSetTheorems, WellFoundedInduction, TLAPS

Holding == {"claimed", "submitted", "read"}

\* A worker knows which chapter it works on, and its claim is not of the future.
Aimed(w) == /\ worker[w].pc \in Holding \cup {"embedding"} => worker[w].chapter \in Chapters
            /\ worker[w].pc \in Holding => worker[w].locked_at <= clock

\* While its claim stands, the files are those it was claimed with.
Current(w) == worker[w].pc \in Holding /\ StillOurs(w)
              => chapter[worker[w].chapter].files = worker[w].files

BookInv == /\ TypeOK
           /\ \A w \in Workers : Aimed(w) /\ Current(w)
           /\ IndexedTextIsCurrent

-----------------------------------------------------------------------------
(* Rows.                                                                   *)

LEMMA NewRowType == NewRow \in Row /\ [NewRow EXCEPT !.status = "deleted"] \in Row
  <1>1. 0 \in 0..MaxBatches /\ 0 \in Nat
    BY BookConstants DEF BookConstants
  <1> QED BY <1>1 DEF NewRow, Row, Status

LEMMA RestingType == Resting \in Hand
  BY BookConstants DEF Resting, Hand, BookConstants

\* One row is rewritten.
LEMMA RowWritten ==
  ASSUME TypeOK, NEW c \in Chapters, NEW new \in Row, chapter' = [chapter EXCEPT ![c] = new],
         clock' \in Nat, clock <= clock', new.locked_at <= clock', new.run <= clock'
  PROVE  /\ chapter' \in [Chapters -> Row]
         /\ \A d \in Chapters : chapter'[d].locked_at <= clock' /\ chapter'[d].run <= clock'
  <1>1. \A d \in Chapters : chapter'[d] = IF d = c THEN new ELSE chapter[d]
    BY DEF TypeOK
  <1>2. chapter' \in [Chapters -> Row]
    BY DEF TypeOK
  <1>3. ASSUME NEW d \in Chapters, d # c
        PROVE  chapter'[d].locked_at <= clock' /\ chapter'[d].run <= clock'
    <2>1. chapter[d].locked_at <= clock /\ chapter[d].run <= clock
      BY DEF TypeOK
    <2>2. chapter[d] \in Row /\ clock \in Nat
      BY DEF TypeOK
    <2>3. chapter[d].locked_at \in Nat /\ chapter[d].run \in Nat
      BY <2>2 DEF Row
    <2> QED BY <1>1, <1>3, <2>1, <2>2, <2>3
  <1> QED BY <1>1, <1>2, <1>3

\* What the properties see of a row.
Same(new, old) == /\ new.status = old.status /\ new.locked_at = old.locked_at
                  /\ new.run = old.run /\ new.files = old.files /\ new.pages = old.pages

\* What a step makes of one row: nothing that matters, a teacher's request, a deletion, a
\* claim, its end without a result, and with one.
Requested(new, old) ==
    /\ old.status \notin {"reading", "processing", "deleted"}
    /\ new.status \in {"queued", "uploaded", "empty", "ready"} /\ new.locked_at = old.locked_at
    /\ \/ new.run = 0 /\ new.pages = 0
       \/ new.run = old.run /\ new.files = old.files /\ new.pages = old.pages
Deleted(new, old) == old.status # "deleted" /\ new = [NewRow EXCEPT !.status = "deleted"]
Taken(new, old) ==
    /\ old.status \in {"queued", "reading", "processing"} /\ new.status = "processing"
    /\ new.locked_at = clock + 1
    /\ new.run = old.run /\ new.files = old.files /\ new.pages = old.pages
Released(new, old) ==
    /\ old.status = "processing" /\ new.status \in {"failed", "reading"} /\ new.locked_at = 0
    /\ new.run = old.run /\ new.files = old.files /\ new.pages = old.pages
Finished(new, old) ==
    /\ old.status = "processing" /\ new.status \in {"ready", "needs_review"}
    /\ new.locked_at = 0 /\ new.run = old.locked_at
    /\ new.files = old.files /\ new.pages = old.files

Moves(c, new) ==
    /\ chapter' = [chapter EXCEPT ![c] = new]
    /\ \/ /\ clock' = clock
          /\ \/ Same(new, chapter[c])
             \/ Requested(new, chapter[c])
             \/ Deleted(new, chapter[c])
             \/ Released(new, chapter[c])
             \/ Finished(new, chapter[c])
       \/ /\ clock' = clock + 1
          /\ Taken(new, chapter[c])

RowsMove == \/ UNCHANGED <<chapter, clock>>
            \/ \E c \in Chapters, new \in Row : Moves(c, new)

\* What a step makes of what a worker has in hand.
HandMoves(v) ==
    \/ worker'[v] = worker[v]
    \/ worker'[v].pc \notin Holding \cup {"embedding"}
    \/ worker'[v].pc = "embedding" /\ worker'[v].chapter \in Chapters
    \/ /\ UNCHANGED <<chapter, clock>>
       /\ worker[v].pc \in Holding /\ worker'[v].chapter = worker[v].chapter
       /\ worker'[v].locked_at = worker[v].locked_at /\ worker'[v].files = worker[v].files
    \/ /\ worker'[v].chapter \in Chapters /\ worker'[v].locked_at <= clock'
       /\ chapter'[worker'[v].chapter].files = worker'[v].files

OthersTyped == /\ worker' \in [Workers -> Hand] /\ batch' \in [1..MaxBatches -> BatchState]
               /\ edits' \in 0..MaxEdits /\ crashes' \in 0..MaxCrashes

StepsAside == RowsMove /\ OthersTyped /\ \A v \in Workers : HandMoves(v)

LEMMA TeacherWrites ==
  ASSUME TypeOK, NEW c \in Chapters, Teach(c)
  PROVE  \E new \in Row :
            /\ chapter' = [chapter EXCEPT ![c] = new]
            /\ Requested(new, chapter[c]) \/ Deleted(new, chapter[c])
            /\ UNCHANGED <<worker, batch, clock, crashes>> /\ edits' \in 0..MaxEdits
  <1>1. PICK old \in Row : old = chapter[c]
    BY DEF TypeOK
  <1>2. edits \in 0..MaxEdits /\ MaxEdits \in Nat
    BY BookConstants DEF TypeOK, BookConstants
  <1>3. ASSUME NEW files \in Nat, NEW status \in Status, FilesChanged(c, files, status)
        PROVE  \E new \in Row : /\ chapter' = [chapter EXCEPT ![c] = new]
                                /\ new.status = status /\ new.locked_at = old.locked_at
                                /\ new.run = 0 /\ new.pages = 0
    <2> DEFINE new == [old EXCEPT !.status = status, !.files = files, !.pages = 0, !.run = 0,
                                  !.vectors = "none"]
    <2>1. new \in Row
      BY DEF Row
    <2>2. chapter' = [chapter EXCEPT ![c] = new]
      BY <1>1, <1>3 DEF FilesChanged, TypeOK
    <2>3. /\ new.status = status /\ new.locked_at = old.locked_at
          /\ new.run = 0 /\ new.pages = 0
      BY DEF Row
    <2> HIDE DEF new
    <2> QED BY <2>1, <2>2, <2>3
  <1>4. CASE Upload(c)
    <2>1. PICK status \in {"queued", "uploaded"} : FilesChanged(c, edits + 1, status)
      BY <1>4 DEF Upload
    <2>2. edits + 1 \in Nat /\ status \in Status /\ edits' \in 0..MaxEdits
      BY <1>2, <1>4 DEF Upload, Status
    <2>3. NotProcessing(c) /\ UNCHANGED <<worker, batch, clock, crashes>>
      BY <1>4 DEF Upload
    <2> QED BY <1>1, <1>3, <2>1, <2>2, <2>3 DEF NotProcessing, Requested
  <1>5. CASE DeleteFile(c)
    <2>1. FilesChanged(c, 0, "empty") \/ FilesChanged(c, edits + 1, "uploaded")
      BY <1>5 DEF DeleteFile
    <2>2. /\ 0 \in Nat /\ edits + 1 \in Nat /\ "empty" \in Status /\ "uploaded" \in Status
          /\ edits' \in 0..MaxEdits
      BY <1>2, <1>5 DEF DeleteFile, Status
    <2>3. NotProcessing(c) /\ UNCHANGED <<worker, batch, clock, crashes>>
      BY <1>5 DEF DeleteFile
    <2> QED BY <1>1, <1>3, <2>1, <2>2, <2>3 DEF NotProcessing, Requested
  <1>6. CASE Queue(c)
    <2> DEFINE new == [old EXCEPT !.status = "queued"]
    <2>1. new \in Row /\ edits' \in 0..MaxEdits
      BY <1>2, <1>6 DEF Row, Status, Queue
    <2>2. chapter' = [chapter EXCEPT ![c] = new]
      BY <1>1, <1>6 DEF Queue, TypeOK
    <2>3. /\ new.status = "queued" /\ new.locked_at = old.locked_at /\ new.run = old.run
          /\ new.files = old.files /\ new.pages = old.pages
      BY DEF Row
    <2>4. NotProcessing(c) /\ UNCHANGED <<worker, batch, clock, crashes>>
      BY <1>6 DEF Queue
    <2> HIDE DEF new
    <2> QED BY <1>1, <2>1, <2>2, <2>3, <2>4 DEF NotProcessing, Requested
  <1>7. CASE Accept(c)
    <2> DEFINE new == [old EXCEPT !.status = "ready"]
    <2>1. new \in Row /\ edits' \in 0..MaxEdits
      BY <1>2, <1>7 DEF Row, Status, Accept
    <2>2. chapter' = [chapter EXCEPT ![c] = new]
      BY <1>1, <1>7 DEF Accept, TypeOK
    <2>3. /\ new.status = "ready" /\ new.locked_at = old.locked_at /\ new.run = old.run
          /\ new.files = old.files /\ new.pages = old.pages
      BY DEF Row
    <2>4. NotProcessing(c) /\ UNCHANGED <<worker, batch, clock, crashes>>
      BY <1>7 DEF Accept, NotProcessing
    <2> HIDE DEF new
    <2> QED BY <1>1, <2>1, <2>2, <2>3, <2>4 DEF NotProcessing, Requested
  <1>8. CASE DeleteChapter(c)
    BY <1>2, <1>8, NewRowType DEF DeleteChapter, Deleted
  <1> QED BY <1>4, <1>5, <1>6, <1>7, <1>8 DEF Teach

LEMMA TeacherSteps ==
  ASSUME BookInv, NEW c \in Chapters, Teach(c) \/ Overdue(c)
  PROVE  StepsAside
  <1>1. CASE Teach(c)
    <2>1. TypeOK
      BY DEF BookInv
    <2>2. RowsMove /\ UNCHANGED <<worker, batch, crashes>> /\ edits' \in 0..MaxEdits
      BY <1>1, <2>1, TeacherWrites DEF RowsMove, Moves
    <2> QED BY <2>1, <2>2 DEF StepsAside, OthersTyped, HandMoves, TypeOK
  <1>2. CASE Overdue(c)
    <2>1. PICK old \in Row : old = chapter[c]
      BY DEF BookInv, TypeOK
    <2> DEFINE new == [old EXCEPT !.overdue = TRUE]
    <2>2. new \in Row /\ Same(new, old)
      BY DEF Row, Same
    <2>3. chapter' = [chapter EXCEPT ![c] = new]
      BY <1>2, <2>1 DEF Overdue, BookInv, TypeOK
    <2>4. UNCHANGED <<worker, batch, clock, edits, crashes>>
      BY <1>2 DEF Overdue
    <2> HIDE DEF new
    <2>5. RowsMove
      BY <2>1, <2>2, <2>3, <2>4 DEF RowsMove, Moves
    <2> QED BY <2>4, <2>5 DEF StepsAside, OthersTyped, HandMoves, BookInv, TypeOK
  <1> QED BY <1>1, <1>2

-----------------------------------------------------------------------------
(* Workers.                                                                *)

LEMMA DiscardType ==
  ASSUME TypeOK, NEW bs, Discard(bs)
  PROVE  batch' \in [1..MaxBatches -> BatchState]
  BY DEF TypeOK, Discard, BatchState

LEMMA OnwardType ==
  ASSUME TypeOK, NEW w \in Workers, NEW c
  PROVE  Onward(w, c) \in Hand /\ Onward(w, c).pc \notin Holding \cup {"embedding"}
  <1>1. worker[w].todo \ {c} \subseteq Chapters
    BY DEF TypeOK, Hand
  <1>2. 0 \in 0..MaxBatches
    BY BookConstants DEF BookConstants
  <1> QED BY <1>1, <1>2 DEF Onward, Resting, Hand, Holding

\* One hand is refilled.
LEMMA HandRefilled ==
  ASSUME TypeOK, NEW w \in Workers, NEW h \in Hand, worker' = [worker EXCEPT ![w] = h]
  PROVE  /\ worker' \in [Workers -> Hand]
         /\ \A v \in Workers : worker'[v] = IF v = w THEN h ELSE worker[v]
  BY DEF TypeOK

\* Steps that leave the rows alone.
LEMMA HandSteps ==
  ASSUME BookInv, NEW w \in Workers,
         \/ ListFinished(w) \/ ListPending(w) \/ SubmitReads(w) \/ Read(w) \/ Crash(w)
         \/ \E c \in Chapters : PassOver(w, c) \/ CollectVectors(w, c)
  PROVE  StepsAside
  <1>0. TypeOK /\ 0 \in 0..MaxBatches
    BY BookConstants DEF BookInv, BookConstants
  <1>1. PICK mine \in Hand : mine = worker[w]
    BY <1>0 DEF TypeOK
  <1>2. RowsMove /\ UNCHANGED <<chapter, clock>>
    BY DEF RowsMove, ListFinished, ListPending, SubmitReads, Read, Crash, PassOver, CollectVectors
  <1>3. edits' \in 0..MaxEdits /\ crashes' \in 0..MaxCrashes
    <2>1. edits' = edits
      BY DEF ListFinished, ListPending, SubmitReads, Read, Crash, PassOver, CollectVectors
    <2>3. crashes' = crashes \/ (crashes < MaxCrashes /\ crashes' = crashes + 1)
      <3>1. CASE Crash(w)
        BY <3>1 DEF Crash
      <3>2. ASSUME ~Crash(w) PROVE crashes' = crashes
        BY <3>2 DEF ListFinished, ListPending, SubmitReads, Read, PassOver, CollectVectors
      <3> QED BY <3>1, <3>2
    <2>2. MaxCrashes \in Nat
      BY BookConstants DEF BookConstants
    <2> QED BY <1>0, <2>1, <2>2, <2>3 DEF TypeOK
  <1>4. batch' \in [1..MaxBatches -> BatchState]
    <2>1. batch' = batch \/ \E b \in 1..MaxBatches : batch' = [batch EXCEPT ![b] = "running"]
      BY DEF ListFinished, ListPending, SubmitReads, Read, Crash, PassOver, CollectVectors
    <2> QED BY <1>0, <2>1 DEF TypeOK, BatchState
  <1>5. ASSUME NEW h \in Hand, worker' = [worker EXCEPT ![w] = h],
               \/ h.pc \notin Holding \cup {"embedding"}
               \/ h.pc = "embedding" /\ h.chapter \in Chapters
               \/ /\ mine.pc \in Holding /\ h.chapter = mine.chapter
                  /\ h.locked_at = mine.locked_at /\ h.files = mine.files
        PROVE  StepsAside
    <2>1. /\ worker' \in [Workers -> Hand]
          /\ \A v \in Workers : worker'[v] = IF v = w THEN h ELSE worker[v]
      BY <1>0, <1>5, HandRefilled
    <2>2. \A v \in Workers : HandMoves(v)
      BY <1>1, <1>2, <1>5, <2>1 DEF HandMoves
    <2> QED BY <1>2, <1>3, <1>4, <2>1, <2>2 DEF StepsAside, OthersTyped
  <1>6. CASE ListFinished(w) \/ ListPending(w)
    <2>1. PICK todo \in SUBSET Chapters, pc \in {"listing", "pass", "idle"} :
             worker' = [worker EXCEPT ![w].pc = pc, ![w].todo = todo]
      <3>1. CASE ListFinished(w)
        BY <3>1 DEF ListFinished
      <3>2. CASE ListPending(w)
        <4>1. mine.todo \subseteq Chapters
          BY DEF Hand
        <4>2. PICK todo \in SUBSET Chapters :
                 todo = mine.todo \cup {c \in Chapters : chapter[c].status = "queued" \/ Silent(c)}
          BY <4>1
        <4>3. worker' = [worker EXCEPT ![w].todo = todo,
                                       ![w].pc = IF todo = {} THEN "idle" ELSE "pass"]
          BY <1>1, <3>2, <4>2 DEF ListPending
        <4>4. PICK pc \in {"idle", "pass"} : pc = IF todo = {} THEN "idle" ELSE "pass"
          OBVIOUS
        <4>5. worker' = [worker EXCEPT ![w].pc = pc, ![w].todo = todo]
          BY <1>0, <4>3, <4>4 DEF TypeOK, Hand
        <4> QED BY <4>5
      <3> QED BY <1>6, <3>1, <3>2
    <2> DEFINE h == [mine EXCEPT !.pc = pc, !.todo = todo]
    <2>2. h \in Hand /\ h.pc = pc
      BY DEF Hand
    <2>3. worker' = [worker EXCEPT ![w] = h]
      BY <1>0, <1>1, <2>1 DEF TypeOK
    <2> HIDE DEF h
    <2> QED BY <1>5, <2>2, <2>3 DEF Holding
  <1>7. CASE SubmitReads(w) \/ Read(w)
    <2>1. PICK sent \in 0..MaxBatches, pc \in {"submitted", "read"} :
             /\ \/ worker' = [worker EXCEPT ![w].pc = pc, ![w].sent = sent]
                \/ worker' = [worker EXCEPT ![w].pc = pc]
             /\ mine.pc = "claimed"
      BY <1>0, <1>1, <1>7 DEF SubmitReads, Read
    <2> DEFINE h == [mine EXCEPT !.pc = pc, !.sent = sent]
               g == [mine EXCEPT !.pc = pc]
    <2>2. /\ h \in Hand /\ g \in Hand
          /\ h.chapter = mine.chapter /\ h.locked_at = mine.locked_at /\ h.files = mine.files
          /\ g.chapter = mine.chapter /\ g.locked_at = mine.locked_at /\ g.files = mine.files
      BY DEF Hand
    <2>3. worker' = [worker EXCEPT ![w] = h] \/ worker' = [worker EXCEPT ![w] = g]
      BY <1>0, <1>1, <2>1 DEF TypeOK
    <2> HIDE DEF h, g
    <2> QED BY <1>5, <2>1, <2>2, <2>3 DEF Holding
  <1>8. CASE Crash(w)
    BY <1>5, <1>8, RestingType DEF Crash, Resting, Holding
  <1>9. ASSUME NEW c \in Chapters, PassOver(w, c)
        PROVE  StepsAside
    BY <1>0, <1>5, <1>9, OnwardType DEF PassOver
  <1>10. ASSUME NEW c \in Chapters, CollectVectors(w, c)
         PROVE  StepsAside
    <2>1. PICK old \in Row : old = chapter[c]
      BY <1>0 DEF TypeOK
    <2> DEFINE h == [mine EXCEPT !.pc = "embedding", !.chapter = c, !.sent = old.embed_batch,
                                 !.locked_at = old.run]
    <2>2. h \in Hand /\ h.pc = "embedding" /\ h.chapter = c
      BY DEF Hand, Row
    <2>3. worker' = [worker EXCEPT ![w] = h]
      BY <1>0, <1>1, <1>10, <2>1 DEF TypeOK, CollectVectors
    <2> HIDE DEF h
    <2> QED BY <1>5, <2>2, <2>3
  <1> QED BY <1>6, <1>7, <1>8, <1>9, <1>10

\* Steps that write the row of the chapter in hand.
LEMMA ClaimSteps ==
  ASSUME BookInv, NEW w \in Workers, NEW c \in Chapters, Claim(w, c)
  PROVE  StepsAside
  <1>0. TypeOK
    BY DEF BookInv
  <1>1. PICK mine \in Hand, old \in Row : mine = worker[w] /\ old = chapter[c]
    BY <1>0 DEF TypeOK
  <1>2. clock \in Nat /\ old.files \in Nat /\ old.read_batch \in 0..MaxBatches
    BY <1>0 DEF TypeOK, Row
  <1>11. PICK stamp \in Nat : stamp = clock + 1
    BY <1>2
  <1>12. PICK tries \in Nat :
            tries = IF old.status = "reading" THEN old.attempts ELSE old.attempts + 1
    <2>1. old.attempts \in Nat
      BY DEF Row
    <2> QED BY <2>1
  <1> DEFINE new == [old EXCEPT !.status = "processing", !.locked_at = stamp, !.overdue = FALSE,
                                !.attempts = tries]
             h == [mine EXCEPT !.pc = "claimed", !.chapter = c, !.locked_at = stamp,
                               !.files = old.files, !.reads = old.read_batch]
  <1>3. /\ new \in Row /\ new.status = "processing" /\ new.locked_at = stamp
        /\ new.run = old.run /\ new.files = old.files /\ new.pages = old.pages
    BY <1>2 DEF Row, Status
  <1>4. /\ h \in Hand /\ h.pc = "claimed" /\ h.chapter = c /\ h.locked_at = stamp
        /\ h.files = old.files
    BY <1>2 DEF Hand
  <1>5. chapter' = [chapter EXCEPT ![c] = new] /\ worker' = [worker EXCEPT ![w] = h]
        /\ clock' = clock + 1 /\ UNCHANGED <<batch, edits, crashes>>
    BY <1>0, <1>1, <1>11, <1>12 DEF Claim, TypeOK
  <1>6. old.status \in {"queued", "reading", "processing"}
    BY <1>1 DEF Claim, Claimable, Silent
  <1> HIDE DEF new, h
  <1>7. RowsMove
    BY <1>1, <1>3, <1>5, <1>6, <1>11 DEF RowsMove, Moves, Taken
  <1>8. chapter'[c] = new
    BY <1>0, <1>5 DEF TypeOK
  <1>9. /\ worker' \in [Workers -> Hand]
        /\ \A v \in Workers : worker'[v] = IF v = w THEN h ELSE worker[v]
    BY <1>0, <1>4, <1>5, HandRefilled
  <1>10. \A v \in Workers : HandMoves(v)
    <2>1. stamp <= clock'
      BY <1>2, <1>5, <1>11
    <2> QED BY <1>3, <1>4, <1>8, <1>9, <2>1 DEF HandMoves
  <1> QED BY <1>0, <1>5, <1>7, <1>9, <1>10 DEF StepsAside, OthersTyped, TypeOK

\* A step that ends what the worker was doing.
LEMMA LettingGo ==
  ASSUME BookInv, NEW w \in Workers, NEW h \in Hand, worker' = [worker EXCEPT ![w] = h],
         h.pc \notin Holding \cup {"embedding"}, UNCHANGED <<edits, crashes>>,
         batch' = batch \/ (\E bs \in SUBSET (0..MaxBatches) : Discard(bs)), RowsMove
  PROVE  StepsAside
  <1>0. TypeOK
    BY DEF BookInv
  <1>1. batch' \in [1..MaxBatches -> BatchState]
    BY <1>0, DiscardType DEF TypeOK
  <1>2. /\ worker' \in [Workers -> Hand]
        /\ \A v \in Workers : worker'[v] = IF v = w THEN h ELSE worker[v]
    BY <1>0, HandRefilled
  <1>3. \A v \in Workers : HandMoves(v)
    BY <1>2 DEF HandMoves
  <1> QED BY <1>0, <1>1, <1>2, <1>3 DEF StepsAside, OthersTyped, TypeOK

LEMMA GiveUpSteps ==
  ASSUME BookInv, NEW w \in Workers, NEW c \in Chapters, GiveUp(w, c)
  PROVE  StepsAside
  <1>0. TypeOK
    BY DEF BookInv
  <1>1. PICK old \in Row : old = chapter[c]
    BY <1>0 DEF TypeOK
  <1> DEFINE new == [old EXCEPT !.status = "failed", !.locked_at = 0, !.overdue = FALSE]
  <1>2. new \in Row /\ new.status = "failed" /\ new.locked_at = 0
        /\ new.run = old.run /\ new.files = old.files /\ new.pages = old.pages
    BY DEF Row, Status
  <1>3. chapter' = [chapter EXCEPT ![c] = new] /\ UNCHANGED <<batch, clock, edits, crashes>>
    BY <1>0, <1>1 DEF GiveUp, TypeOK
  <1>4. old.status = "processing"
    BY <1>1 DEF GiveUp, Exhausted
  <1> HIDE DEF new
  <1>5. RowsMove
    BY <1>1, <1>2, <1>3, <1>4 DEF RowsMove, Moves, Released
  <1>6. worker' = [worker EXCEPT ![w] = Onward(w, c)]
    BY DEF GiveUp
  <1> QED BY <1>0, <1>3, <1>5, <1>6, OnwardType, LettingGo

LEMMA ReleaseSteps ==
  ASSUME BookInv, NEW w \in Workers, Park(w) \/ Fail(w) \/ Save(w)
  PROVE  StepsAside
  <1>0. TypeOK
    BY DEF BookInv
  <1>1. PICK mine \in Hand : mine = worker[w]
    BY <1>0 DEF TypeOK
  <1>2. mine.pc \in Holding /\ mine.chapter \in Chapters
    BY <1>1 DEF Park, Fail, Save, Holding, BookInv, Aimed
  <1>3. PICK c \in Chapters, old \in Row : c = mine.chapter /\ old = chapter[c]
    BY <1>0, <1>2 DEF TypeOK
  <1>4. /\ mine.sent \in 0..MaxBatches /\ mine.reads \in 0..MaxBatches /\ mine.files \in Nat
        /\ mine.locked_at \in Nat /\ old.embed_batch \in 0..MaxBatches /\ 0 \in 0..MaxBatches
    BY BookConstants DEF Hand, Row, BookConstants
  <1>5. /\ worker' = [worker EXCEPT ![w] = Onward(w, c)] /\ UNCHANGED <<clock, edits, crashes>>
    BY <1>1, <1>3 DEF Park, Fail, Save
  <1>6. batch' = batch \/ \E bs \in SUBSET (0..MaxBatches) : Discard(bs)
    <2>1. /\ {mine.sent} \in SUBSET (0..MaxBatches)
          /\ {mine.sent, mine.reads} \in SUBSET (0..MaxBatches)
          /\ {mine.reads, old.embed_batch} \in SUBSET (0..MaxBatches)
      BY <1>4
    <2> QED BY <1>1, <1>3, <2>1 DEF Park, Fail, Save
  <1>7. CASE ~StillOurs(w)
    <2>1. RowsMove
      BY <1>7 DEF Park, Fail, Save, RowsMove
    <2> QED BY <1>0, <1>5, <1>6, <2>1, OnwardType, LettingGo
  <1>8. CASE StillOurs(w)
    <2>1. /\ old.status = "processing" /\ old.locked_at = mine.locked_at
          /\ old.files = mine.files
      BY <1>1, <1>2, <1>3, <1>8 DEF StillOurs, BookInv, Current
    <2>2. CASE Park(w)
      <3> DEFINE new == [old EXCEPT !.status = "reading", !.locked_at = 0, !.overdue = FALSE,
                                    !.read_batch = mine.sent]
      <3>1. new \in Row /\ new.status = "reading" /\ new.locked_at = 0
            /\ new.run = old.run /\ new.files = old.files /\ new.pages = old.pages
        BY <1>4 DEF Row, Status
      <3>2. chapter' = [chapter EXCEPT ![c] = new]
        BY <1>0, <1>1, <1>3, <1>8, <2>2 DEF Park, TypeOK
      <3> HIDE DEF new
      <3>3. RowsMove
        BY <1>3, <1>5, <2>1, <3>1, <3>2 DEF RowsMove, Moves, Released
      <3> QED BY <1>0, <1>5, <1>6, <3>3, OnwardType, LettingGo
    <2>3. CASE Fail(w)
      <3> DEFINE new == [old EXCEPT !.status = "failed", !.locked_at = 0, !.overdue = FALSE,
                                    !.read_batch = 0]
      <3>1. new \in Row /\ new.status = "failed" /\ new.locked_at = 0
            /\ new.run = old.run /\ new.files = old.files /\ new.pages = old.pages
        BY <1>4 DEF Row, Status
      <3>2. chapter' = [chapter EXCEPT ![c] = new]
        BY <1>0, <1>1, <1>3, <1>8, <2>3 DEF Fail, TypeOK
      <3> HIDE DEF new
      <3>3. RowsMove
        BY <1>3, <1>5, <2>1, <3>1, <3>2 DEF RowsMove, Moves, Released
      <3> QED BY <1>0, <1>5, <1>6, <3>3, OnwardType, LettingGo
    <2>4. CASE Save(w)
      <3>1. PICK status \in {"ready", "needs_review"}, vectors \in {"stored", "waiting"} :
               chapter' = [chapter EXCEPT ![c].status = status,
                             ![c].pages = mine.files, ![c].run = mine.locked_at,
                             ![c].vectors = vectors,
                             ![c].locked_at = 0, ![c].overdue = FALSE, ![c].read_batch = 0,
                             ![c].embed_batch = mine.sent]
        <4>1. PICK vectors \in {"stored", "waiting"} :
                 vectors = IF mine.sent = 0 THEN "stored" ELSE "waiting"
          OBVIOUS
        <4>2. PICK status \in {"ready", "needs_review"} :
                 chapter' = [chapter EXCEPT ![worker[w].chapter].status = status,
                     ![worker[w].chapter].pages = worker[w].files,
                     ![worker[w].chapter].run = worker[w].locked_at,
                     ![worker[w].chapter].vectors = IF worker[w].sent = 0 THEN "stored"
                                                    ELSE "waiting",
                     ![worker[w].chapter].locked_at = 0, ![worker[w].chapter].overdue = FALSE,
                     ![worker[w].chapter].read_batch = 0,
                     ![worker[w].chapter].embed_batch = worker[w].sent]
          BY <1>8, <2>4 DEF Save
        <4> QED BY <1>1, <1>3, <4>1, <4>2
      <3> DEFINE new == [old EXCEPT !.status = status, !.pages = mine.files,
                            !.run = mine.locked_at, !.vectors = vectors, !.locked_at = 0,
                            !.overdue = FALSE, !.read_batch = 0, !.embed_batch = mine.sent]
      <3>2. new \in Row /\ new.status = status /\ new.locked_at = 0
            /\ new.run = mine.locked_at /\ new.files = old.files /\ new.pages = mine.files
        BY <1>4 DEF Row, Status
      <3>3. chapter' = [chapter EXCEPT ![c] = new]
        BY <1>0, <1>3, <3>1 DEF TypeOK
      <3> HIDE DEF new
      <3>4. RowsMove
        BY <1>3, <1>5, <2>1, <3>2, <3>3 DEF RowsMove, Moves, Finished
      <3> QED BY <1>0, <1>5, <1>6, <3>4, OnwardType, LettingGo
    <2> QED BY <2>2, <2>3, <2>4
  <1> QED BY <1>7, <1>8

LEMMA StoreSteps ==
  ASSUME BookInv, NEW w \in Workers, StoreVectors(w)
  PROVE  StepsAside
  <1>0. TypeOK
    BY DEF BookInv
  <1>1. PICK mine \in Hand : mine = worker[w]
    BY <1>0 DEF TypeOK
  <1>2. PICK c \in Chapters, old \in Row : c = mine.chapter /\ old = chapter[c]
    BY <1>0, <1>1 DEF StoreVectors, BookInv, Aimed, TypeOK
  <1>3. worker' = [worker EXCEPT ![w] = Resting] /\ UNCHANGED <<clock, edits, crashes>>
    BY DEF StoreVectors
  <1>4. Resting.pc \notin Holding \cup {"embedding"}
    BY DEF Resting, Holding
  <1>5. mine.sent \in 0..MaxBatches /\ 0 \in 0..MaxBatches
    BY BookConstants DEF Hand, BookConstants
  <1>6. batch' = batch \/ \E bs \in SUBSET (0..MaxBatches) : Discard(bs)
    <2>1. {mine.sent} \in SUBSET (0..MaxBatches)
      BY <1>5
    <2> QED BY <1>1, <2>1 DEF StoreVectors
  <1>7. CASE chapter' = chapter
    BY <1>3, <1>4, <1>6, <1>7, RestingType, LettingGo DEF RowsMove
  <1>8. CASE chapter' # chapter
    <2>1. PICK vectors \in {"none", "waiting", "stored"} :
             chapter' = [chapter EXCEPT ![c].embed_batch = 0, ![c].vectors = vectors]
      <3>1. old.vectors \in {"none", "waiting", "stored"}
        BY DEF Row
      <3>2. chapter' = [chapter EXCEPT ![c].embed_batch = 0,
                          ![c].vectors = IF chapter[c].run = mine.locked_at /\ @ = "waiting"
                                         THEN "stored" ELSE @]
        BY <1>1, <1>2, <1>8 DEF StoreVectors
      <3> QED BY <1>0, <1>2, <3>1, <3>2 DEF TypeOK
    <2> DEFINE new == [old EXCEPT !.embed_batch = 0, !.vectors = vectors]
    <2>2. new \in Row /\ Same(new, old)
      BY <1>5 DEF Row, Same
    <2>3. chapter' = [chapter EXCEPT ![c] = new]
      BY <1>0, <1>2, <2>1 DEF TypeOK
    <2> HIDE DEF new
    <2>4. RowsMove
      BY <1>2, <1>3, <2>2, <2>3 DEF RowsMove, Moves
    <2> QED BY <1>3, <1>4, <1>6, <2>4, RestingType, LettingGo
  <1> QED BY <1>7, <1>8

LEMMA EveryStep ==
  ASSUME BookInv, [Next]_vars
  PROVE  StepsAside
  <1>1. CASE UNCHANGED vars
    BY <1>1 DEF vars, StepsAside, RowsMove, OthersTyped, HandMoves, BookInv, TypeOK
  <1>2. ASSUME NEW b \in 1..MaxBatches, BatchEnds(b)
        PROVE  StepsAside
    BY <1>2 DEF BatchEnds, StepsAside, RowsMove, OthersTyped, HandMoves, BookInv, TypeOK, BatchState
  <1>3. ASSUME NEW w \in Workers, Work(w) \/ Crash(w)
        PROVE  StepsAside
    BY <1>3, HandSteps, ClaimSteps, GiveUpSteps, ReleaseSteps, StoreSteps DEF Work
  <1> QED BY <1>1, <1>2, <1>3, TeacherSteps DEF Next

-----------------------------------------------------------------------------
(* The invariant.                                                          *)

LEMMA InitBookInv ==
  ASSUME Init
  PROVE  BookInv
  <1>1. /\ 0 \in 0..MaxEdits /\ 0 \in 0..MaxCrashes
    BY BookConstants DEF BookConstants
  <1>2. chapter \in [Chapters -> Row] /\ \A c \in Chapters : chapter[c] = NewRow
    BY NewRowType DEF Init
  <1>3. worker \in [Workers -> Hand] /\ \A w \in Workers : worker[w].pc \notin Holding \cup {"embedding"}
    BY RestingType DEF Init, Resting, Holding
  <1>4. batch \in [1..MaxBatches -> BatchState]
    BY DEF Init, BatchState
  <1>5. NewRow.locked_at = 0 /\ NewRow.run = 0 /\ NewRow.pages = 0
    BY DEF NewRow
  <1>6. TypeOK
    BY <1>1, <1>2, <1>3, <1>4, <1>5 DEF Init, TypeOK
  <1>7. IndexedTextIsCurrent
    BY <1>2, <1>5 DEF IndexedTextIsCurrent
  <1>8. \A w \in Workers : Aimed(w) /\ Current(w)
    BY <1>3 DEF Aimed, Current
  <1> QED BY <1>6, <1>7, <1>8 DEF BookInv

LEMMA BookInvKept ==
  ASSUME BookInv, [Next]_vars
  PROVE  BookInv'
  <1>0. TypeOK /\ StepsAside /\ clock \in Nat
    BY EveryStep DEF BookInv, TypeOK
  <1>1. clock' \in Nat /\ clock <= clock'
    <2>1. RowsMove
      BY <1>0 DEF StepsAside
    <2>2. clock' = clock \/ clock' = clock + 1
      BY <2>1 DEF RowsMove, Moves
    <2> QED BY <1>0, <2>2
  <1>2. CASE UNCHANGED <<chapter, clock>>
    <2>1. TypeOK' /\ IndexedTextIsCurrent'
      BY <1>0, <1>2 DEF StepsAside, OthersTyped, TypeOK, BookInv, IndexedTextIsCurrent
    <2>2. ASSUME NEW v \in Workers PROVE Aimed(v)' /\ Current(v)'
      <3>1. HandMoves(v) /\ Aimed(v) /\ Current(v)
        BY <1>0 DEF StepsAside, BookInv
      <3> QED BY <1>2, <3>1 DEF HandMoves, Aimed, Current, StillOurs, Holding
    <2> QED BY <2>1, <2>2 DEF BookInv
  <1>3. ASSUME NEW c \in Chapters, NEW new \in Row, Moves(c, new)
        PROVE  BookInv'
    <2>1. PICK old \in Row : old = chapter[c]
      BY <1>0 DEF TypeOK
    <2>2. chapter' = [chapter EXCEPT ![c] = new]
      BY <1>3 DEF Moves
    <2>3. \A d \in Chapters : chapter'[d] = IF d = c THEN new ELSE chapter[d]
      BY <1>0, <2>2 DEF TypeOK
    <2>4. /\ old.locked_at <= clock /\ old.run <= clock
          /\ old.locked_at \in Nat /\ old.run \in Nat
      BY <1>0, <2>1 DEF TypeOK, Row
    <2>5. new.locked_at <= clock' /\ new.run <= clock'
      BY <1>0, <1>1, <1>3, <2>1, <2>4
         DEF Moves, Same, Requested, Deleted, Taken, Released, Finished, NewRow
    <2>6. TypeOK'
      <3>1. /\ chapter' \in [Chapters -> Row]
            /\ \A d \in Chapters : chapter'[d].locked_at <= clock' /\ chapter'[d].run <= clock'
        BY <1>0, <1>1, <2>2, <2>5, RowWritten
      <3> QED BY <1>0, <1>1, <3>1 DEF StepsAside, OthersTyped, TypeOK
    <2>7. new.pages \in {0, new.files}
      <3>1. old.pages \in {0, old.files}
        BY <2>1 DEF BookInv, IndexedTextIsCurrent
      <3> QED BY <1>3, <2>1, <3>1
              DEF Moves, Same, Requested, Deleted, Taken, Released, Finished, NewRow
    <2>8. IndexedTextIsCurrent'
      BY <2>3, <2>7 DEF BookInv, IndexedTextIsCurrent
    <2>9. ASSUME NEW v \in Workers PROVE Aimed(v)' /\ Current(v)'
      <3>0. PICK mine \in Hand, next \in Hand : mine = worker[v] /\ next = worker'[v]
        BY <1>0 DEF TypeOK, StepsAside, OthersTyped
      <3>1. HandMoves(v) /\ Aimed(v) /\ Current(v)
        BY <1>0 DEF StepsAside, BookInv
      <3>2. CASE next = mine
        <4>1. mine.locked_at \in Nat
          BY DEF Hand
        <4>2. Aimed(v)'
          BY <1>0, <1>1, <3>0, <3>1, <3>2, <4>1 DEF Aimed
        <4>3. ASSUME mine.pc \in Holding, StillOurs(v)'
              PROVE  chapter'[mine.chapter].files = mine.files
          <5>1. CASE mine.chapter # c
            BY <2>3, <3>0, <3>1, <3>2, <4>3, <5>1 DEF Aimed, Current, StillOurs
          <5>2. CASE mine.chapter = c
            <6>1. new.status = "processing" /\ new.locked_at = mine.locked_at
              BY <2>3, <3>0, <3>2, <4>3, <5>2 DEF StillOurs
            <6>2. mine.locked_at <= clock
              BY <3>0, <3>1, <4>3 DEF Aimed
            <6>3. Same(new, old)
              BY <1>0, <1>3, <2>1, <4>1, <6>1, <6>2
                 DEF Moves, Requested, Deleted, Taken, Released, Finished, NewRow
            <6> QED BY <2>1, <2>3, <3>0, <3>1, <4>3, <5>2, <6>1, <6>3
                    DEF Same, Current, StillOurs
          <5> QED BY <5>1, <5>2
        <4> QED BY <3>0, <3>2, <4>2, <4>3 DEF Current
      <3>3. CASE next # mine
        <4>1. \/ next.pc \notin Holding \cup {"embedding"}
              \/ next.pc = "embedding" /\ next.chapter \in Chapters
              \/ /\ UNCHANGED <<chapter, clock>>
                 /\ mine.pc \in Holding /\ next.chapter = mine.chapter
                 /\ next.locked_at = mine.locked_at /\ next.files = mine.files
              \/ /\ next.chapter \in Chapters /\ next.locked_at <= clock'
                 /\ chapter'[next.chapter].files = next.files
          BY <3>0, <3>1, <3>3 DEF HandMoves
        <4> QED BY <3>0, <3>1, <4>1 DEF Aimed, Current, StillOurs, Holding
      <3> QED BY <3>2, <3>3
    <2> QED BY <2>6, <2>8, <2>9 DEF BookInv
  <1> QED BY <1>0, <1>2, <1>3 DEF StepsAside, RowsMove

LEMMA BookInvHolds == Spec => []BookInv
  <1>1. Init => BookInv
    BY InitBookInv
  <1>2. BookInv /\ [Next]_vars => BookInv'
    BY BookInvKept
  <1> QED BY <1>1, <1>2, PTL DEF Spec

-----------------------------------------------------------------------------
(* Theorems.                                                               *)

\* Chapters, workers and batches keep their types (modules/books/models.py).
THEOREM TypeCorrect == Spec => []TypeOK
  <1>1. BookInv => TypeOK
    BY DEF BookInv
  <1> QED BY <1>1, BookInvHolds, PTL

\* Whatever is uploaded, however late a worker saves and however often a chapter is taken
\* over, indexed text is of the files that are there (modules/books/jobs.py, _save).
THEOREM TextIsCurrent == Spec => []IndexedTextIsCurrent
  <1>1. BookInv => IndexedTextIsCurrent
    BY DEF BookInv
  <1> QED BY <1>1, BookInvHolds, PTL

\* What ClaimedWork sees of a row.
LEMMA PhaseOf ==
  ASSUME TypeOK, NEW c \in Chapters
  PROVE  /\ chapter[c].status \in Idle => phaseOf(c) = "free"
         /\ chapter[c].status \in {"queued", "reading"} => phaseOf(c) = "waiting"
         /\ chapter[c].status = "processing" => phaseOf(c) = "held"
         /\ chapter[c].status = "deleted" => phaseOf(c) = "gone"
  BY DEF phaseOf, Idle

LEMMA ClaimsInit ==
  ASSUME Init
  PROVE  ChapterClaims!CInit
  <1>1. TypeOK /\ \A c \in Chapters : chapter[c] = NewRow
    BY InitBookInv DEF BookInv, Init
  <1>2. \A c \in Chapters : phaseOf(c) = "free" /\ chapter[c].locked_at = 0 /\ chapter[c].run = 0
    BY <1>1 DEF NewRow, phaseOf, Idle
  <1> QED BY <1>2 DEF ChapterClaims!CInit, Init

\* One row's step, as ClaimedWork sees it: the other rows look as before.
LEMMA SeenUpdate ==
  ASSUME TypeOK, NEW c \in Chapters, NEW new \in Row, chapter' = [chapter EXCEPT ![c] = new],
         NEW p, phaseOf(c)' = p
  PROVE  /\ [d \in Chapters |-> phaseOf(d)]' = [[d \in Chapters |-> phaseOf(d)] EXCEPT ![c] = p]
         /\ [d \in Chapters |-> chapter[d].locked_at]'
              = [[d \in Chapters |-> chapter[d].locked_at] EXCEPT ![c] = new.locked_at]
         /\ [d \in Chapters |-> chapter[d].run]'
              = [[d \in Chapters |-> chapter[d].run] EXCEPT ![c] = new.run]
  <1>1. \A d \in Chapters : chapter'[d] = IF d = c THEN new ELSE chapter[d]
    BY DEF TypeOK
  <1>2. \A d \in Chapters : d # c => phaseOf(d)' = phaseOf(d)
    BY <1>1 DEF phaseOf
  <1>3. [d \in Chapters |-> phaseOf(d)]' = [[d \in Chapters |-> phaseOf(d)] EXCEPT ![c] = p]
    BY <1>2
  <1>4. [d \in Chapters |-> chapter[d].locked_at]'
         = [[d \in Chapters |-> chapter[d].locked_at] EXCEPT ![c] = new.locked_at]
    <2>1. chapter'[c].locked_at = new.locked_at
      BY <1>1
    <2>2. \A d \in Chapters : d # c => chapter'[d].locked_at = chapter[d].locked_at
      BY <1>1
    <2> QED BY <2>1, <2>2
  <1>5. [d \in Chapters |-> chapter[d].run]'
         = [[d \in Chapters |-> chapter[d].run] EXCEPT ![c] = new.run]
    <2>1. chapter'[c].run = new.run
      BY <1>1
    <2>2. \A d \in Chapters : d # c => chapter'[d].run = chapter[d].run
      BY <1>1
    <2> QED BY <2>1, <2>2
  <1> QED BY <1>3, <1>4, <1>5

LEMMA ClaimsStep ==
  ASSUME BookInv, [Next]_vars
  PROVE  [ChapterClaims!CNext]_(ChapterClaims!cvars)
  <1>0. TypeOK /\ RowsMove /\ TypeOK'
    BY EveryStep, BookInvKept DEF BookInv, StepsAside
  <1>1. CASE UNCHANGED <<chapter, clock>>
    BY <1>1 DEF ChapterClaims!cvars, phaseOf
  <1>2. ASSUME NEW c \in Chapters, NEW new \in Row, Moves(c, new)
        PROVE  [ChapterClaims!CNext]_(ChapterClaims!cvars)
    <2>1. PICK old \in Row : old = chapter[c]
      BY <1>0 DEF TypeOK
    <2>2. chapter' = [chapter EXCEPT ![c] = new] /\ chapter'[c] = new
      BY <1>0, <1>2 DEF Moves, TypeOK
    <2>3. PICK p : p = phaseOf(c)'
      OBVIOUS
    <2>4. /\ [d \in Chapters |-> phaseOf(d)]' = [[d \in Chapters |-> phaseOf(d)] EXCEPT ![c] = p]
          /\ [d \in Chapters |-> chapter[d].locked_at]'
               = [[d \in Chapters |-> chapter[d].locked_at] EXCEPT ![c] = new.locked_at]
          /\ [d \in Chapters |-> chapter[d].run]'
               = [[d \in Chapters |-> chapter[d].run] EXCEPT ![c] = new.run]
      BY <1>0, <2>2, <2>3, SeenUpdate
    <2>5. /\ new.status \in Idle => p = "free"
          /\ new.status \in {"queued", "reading"} => p = "waiting"
          /\ new.status = "processing" => p = "held"
          /\ new.status = "deleted" => p = "gone"
      BY <1>0, <2>2, <2>3 DEF phaseOf, Idle
    <2>6. /\ old.status \in Idle => phaseOf(c) = "free"
          /\ old.status \in {"queued", "reading"} => phaseOf(c) = "waiting"
          /\ old.status = "processing" => phaseOf(c) = "held"
          /\ old.status = "deleted" => phaseOf(c) = "gone"
      BY <1>0, <2>1, PhaseOf
    <2>7. old.status \in Status /\ new.status \in Status
      BY DEF Row
    <2>8. CASE clock' = clock /\ Same(new, old)
      <3>1. phaseOf(c)' = phaseOf(c)
        BY <2>1, <2>2, <2>8 DEF phaseOf, Same
      <3>2. UNCHANGED ChapterClaims!cvars
        BY <2>1, <2>3, <2>4, <2>8, <3>1 DEF ChapterClaims!cvars, Same
      <3> QED BY <3>2
    <2>9. CASE clock' = clock /\ Requested(new, old)
      <3>1. phaseOf(c) \in {"free", "waiting"} /\ p \in {"free", "waiting"}
        BY <2>5, <2>6, <2>7, <2>9 DEF Requested, Status, Idle
      <3>2. new.run \in {0, old.run} /\ new.locked_at = old.locked_at
        BY <2>9 DEF Requested
      <3>3. ChapterClaims!Ask(c)
        BY <2>1, <2>4, <2>9, <3>1, <3>2 DEF ChapterClaims!Ask
      <3> QED BY <3>3 DEF ChapterClaims!CNext
    <2>10. CASE clock' = clock /\ Deleted(new, old)
      <3>1. phaseOf(c) # "gone" /\ p = "gone" /\ new.locked_at = 0 /\ new.run = 0
        BY <2>5, <2>6, <2>7, <2>10 DEF Deleted, NewRow, Status, Idle
      <3>2. ChapterClaims!Drop(c)
        BY <2>4, <2>10, <3>1 DEF ChapterClaims!Drop
      <3> QED BY <3>2 DEF ChapterClaims!CNext
    <2>11. CASE clock' = clock /\ (Released(new, old) \/ Finished(new, old))
      <3>1. /\ phaseOf(c) = "held" /\ p \in {"free", "waiting"} /\ new.locked_at = 0
            /\ new.run \in {old.run, old.locked_at}
        BY <2>5, <2>6, <2>7, <2>11 DEF Released, Finished, Idle
      <3>2. ChapterClaims!Settle(c)
        BY <2>1, <2>4, <2>11, <3>1 DEF ChapterClaims!Settle
      <3> QED BY <3>2 DEF ChapterClaims!CNext
    <2>12. CASE clock' = clock + 1 /\ Taken(new, old)
      <3>1. /\ phaseOf(c) \in {"waiting", "held"} /\ p = "held" /\ new.locked_at = clock + 1
            /\ new.run = old.run
        BY <2>5, <2>6, <2>12 DEF Taken
      <3>2. ChapterClaims!Take(c)
        BY <2>1, <2>4, <2>12, <3>1 DEF ChapterClaims!Take
      <3> QED BY <3>2 DEF ChapterClaims!CNext
    <2> QED BY <1>2, <2>1, <2>8, <2>9, <2>10, <2>11, <2>12 DEF Moves
  <1> QED BY <1>0, <1>1, <1>2 DEF RowsMove

\* The chapters' rows implement ClaimedWork: only the claim that holds a chapter leaves a
\* result, and an older claim never replaces it (modules/books/jobs.py, _still_ours).
THEOREM ChaptersAreClaimedWork == Spec => LastClaimWins
  <1>1. Init => ChapterClaims!CInit
    BY ClaimsInit
  <1>2. BookInv /\ [Next]_vars => [ChapterClaims!CNext]_(ChapterClaims!cvars)
    BY ClaimsStep
  <1> QED BY <1>1, <1>2, BookInvHolds, PTL DEF Spec, LastClaimWins, ChapterClaims!CSpec

-----------------------------------------------------------------------------
(* Campuses billed at night (MonthlyBilling).                              *)

Working == {"ask", "bill", "insert"}

\* What a run is at each step of it.
WellFormed(p, r) ==
    /\ r \in Run
    /\ r.pc # "idle" => (r.kind = "pass" <=> p \in Passes) /\ r.kind # "none"
    /\ r.pc \in {"idle", "walk"} => r.org = None /\ r.marks = {}
    /\ r.pc \in Working => r.org \in Orgs
    /\ r.pc \in {"idle", "walk", "ask"} => r.year = None
    /\ r.pc \in {"bill", "insert"} => r.year \in Years /\ r.month = Month(date) /\ r.left # {}
    /\ r.pc = "insert" => r.at \in r.left
    /\ r.kind = "class" => r.marks = {}
    /\ \A y \in Years, m \in Months : <<y, m>> \in r.marks => m = Month(date)

\* A schedule whose day it is and that is not marked.
Waits(o, y) == DueToday(o, y) /\ schedule[o][y].bookmark # Month(date)

\* A pass has before it, or among its own marks, whatever waits.
Covers(p, r) ==
    p \in Passes /\ r.pc # "idle" =>
        \A o \in Orgs \ touched, y \in Years : Waits(o, y) =>
            /\ o \in r.todo
            /\ r.org = o => y \in r.years \/ y = r.year \/ <<y, Month(date)>> \in r.marks

\* A pass that will fail on the challans of another pass.
Doomed(r) == r.pc = "insert" /\ r.clash = "pass"

\* Tonight is done, or a pass is under way that no other pass makes fail.
Alive ==
    begun # {} /\ ~ended =>
        \/ \A o \in Orgs \ touched, y \in Years : ~Waits(o, y)
        \/ \E p \in Passes : run[p].pc # "idle" /\ ~Doomed(run[p])

Has(r, y, m, s) == \/ <<y, m, s>> \in billed[r.org] \cup r.made
                   \/ Excused(r.org, y, place[r.org][s])

Served(r, y, m, classes) ==
    \A s \in Students : place[r.org][s] \in classes => Has(r, y, m, s)

\* What a run marks, and the classes it is past, have their challans.
Serves(r) ==
    r.pc \in Working /\ r.kind # "class" /\ r.org \notin touched =>
        /\ \A y \in Years, m \in Months :
              <<y, m>> \in r.marks => Served(r, y, m, Active(r.org, y))
        /\ r.pc \in {"bill", "insert"} =>
              Served(r, r.year, r.month, Active(r.org, r.year) \ r.left)
        /\ r.pc = "insert" /\ r.at \in Active(r.org, r.year) =>
              \A s \in Students : place[r.org][s] = r.at =>
                  s \in r.new \/ Has(r, r.year, r.month, s)

MonthlyInv == /\ BillingTypeOK
              /\ \A p \in Runs : /\ WellFormed(p, run[p])
                                 /\ Covers(p, run[p])
                                 /\ Serves(run[p])
              /\ Alive
-----------------------------------------------------------------------------
(* Dates, and the least of a set.                                          *)

LEMMA MonthType == BillingTypeOK => Month(date) \in Months
  <1> SUFFICES ASSUME BillingTypeOK PROVE Month(date) \in Months
    OBVIOUS
  <1>1. date \in Nat /\ LastDate \in Nat /\ date <= LastDate /\ Days \in Nat /\ Days > 0
    BY BillingConstants DEF BillingConstants, BillingTypeOK
  <1> DEFINE d == date \div Days
             l == LastDate \div Days
  <1>2. d \in Nat /\ l \in Nat
    BY <1>1
  <1>3. d <= l
    BY <1>1
  <1> QED BY <1>2, <1>3 DEF Months, Month

LEMMA FirstIsIn ==
  ASSUME NEW S \in SUBSET Classes, S # {}
  PROVE  First(S) \in S
  <1>1. S \subseteq Nat
    BY BillingConstants DEF BillingConstants
  <1>2. OpToRel(<, Nat) = {ss \in Nat \X Nat : ss[1] < ss[2]}
    BY DEF OpToRel
  <1>3. IsWellFoundedOn({ss \in Nat \X Nat : ss[1] < ss[2]}, Nat)
    BY <1>2, NatLessThanWellFounded, Zenon
  <1>4. PICK c \in S : \A d \in S : <<d, c>> \notin {ss \in Nat \X Nat : ss[1] < ss[2]}
    BY <1>1, <1>3, WFMin
  <1>5. ASSUME NEW d \in S, d < c
        PROVE  FALSE
    <2>1. <<d, c>> \in Nat \X Nat /\ <<d, c>>[1] < <<d, c>>[2]
      BY <1>1, <1>5
    <2> QED BY <1>4, <2>1
  <1>6. \A d \in S : c <= d
    BY <1>1, <1>5
  <1> QED BY <1>6 DEF First

\* Whoever is not eligible is in a class larger than a batch.
LEMMA EligibleOrMany ==
  ASSUME NEW o, NEW c, NEW s \in Students, place[o][s] = c, s \notin Eligible(o, c)
  PROVE  Cardinality({t \in Students : place[o][t] = c}) > Batch
  <1> DEFINE in == {t \in Students : place[o][t] = c}
             before == {t \in in : t < s}
  <1>1. IsFiniteSet(in) /\ IsFiniteSet(before)
    <2>1. in \subseteq Students /\ before \subseteq Students
      OBVIOUS
    <2> QED BY <2>1, FS_Subset, BillingConstants DEF BillingConstants
  <1>2. s \notin before /\ before \cup {s} \subseteq in
    BY BillingConstants DEF BillingConstants
  <1>3. IsFiniteSet(before \cup {s}) /\ Cardinality(before \cup {s}) = Cardinality(before) + 1
    BY <1>1, <1>2, FS_AddElement
  <1>4. Cardinality(before \cup {s}) <= Cardinality(in)
    BY <1>1, <1>2, FS_Subset
  <1>5. Cardinality(before) \in Nat /\ Cardinality(in) \in Nat
    BY <1>1, FS_CardinalityType
  <1>6. ~(Cardinality(before) < Batch)
    BY DEF Eligible
  <1>7. Batch \in Nat
    BY BillingConstants DEF BillingConstants
  <1> HIDE DEF in, before
  <1>8. Cardinality(in) > Batch
    BY <1>3, <1>4, <1>5, <1>6, <1>7
  <1> QED BY <1>8 DEF in
-----------------------------------------------------------------------------
(* A step of one run.                                                      *)

LEMMA NoRunIsFine ==
  ASSUME BillingTypeOK, NEW p \in Runs
  PROVE  WellFormed(p, NoRun) /\ Covers(p, NoRun) /\ Serves(NoRun)
  <1>1. NoRun \in Run
    BY DEF NoRun, Run
  <1> QED BY <1>1 DEF WellFormed, Covers, Serves, NoRun, Working

\* The run that goes on is as it should be, and nothing else changed.
LEMMA OneRun ==
  ASSUME MonthlyInv, NEW p \in Runs, NEW new, run' = [run EXCEPT ![p] = new],
         UNCHANGED <<date, Settings, billed, touched>>,
         begun' \subseteq Passes, ended' \in BOOLEAN, events' \in 0..MaxEvents,
         WellFormed(p, new), Covers(p, new), Serves(new), Alive'
  PROVE  MonthlyInv'
  <1>1. run \in [Runs -> Run] /\ new \in Run
    BY DEF MonthlyInv, BillingTypeOK, WellFormed
  <1>2. run'[p] = new /\ \A q \in Runs \ {p} : run'[q] = run[q]
    BY <1>1
  <1>3. BillingTypeOK'
    <2>1. run' \in [Runs -> Run]
      BY <1>1
    <2> QED BY <2>1 DEF MonthlyInv, BillingTypeOK, Settings
  <1>4. ASSUME NEW q \in Runs PROVE (WellFormed(q, run[q]) /\ Covers(q, run[q]) /\ Serves(run[q]))'
    <2> DEFINE r == run'[q]
    <2>1. WellFormed(q, r) /\ Covers(q, r) /\ Serves(r)
      <3>1. CASE q = p
        BY <1>2, <3>1
      <3>2. CASE q # p
        BY <1>2, <3>2 DEF MonthlyInv
      <3> QED BY <3>1, <3>2
    <2>2. PICK x : x = r
      OBVIOUS
    <2>3. WellFormed(q, x) /\ Covers(q, x) /\ Serves(x)
      BY <2>1, <2>2
    <2> HIDE DEF r
    <2>4. WellFormed(q, x)'
      BY <2>3 DEF WellFormed
    <2>5. Covers(q, x)'
      BY <2>3 DEF Covers, Waits, DueToday, Active, Settings
    <2>6. Serves(x)'
      BY <2>3 DEF Serves, Served, Has, Excused, Active, Settings
    <2> QED BY <2>2, <2>4, <2>5, <2>6 DEF r
  <1> QED BY <1>3, <1>4 DEF MonthlyInv

\* A pass that is under way and not doomed stays so.
LEMMA AliveKept ==
  ASSUME MonthlyInv, NEW p \in Runs, NEW new, run' = [run EXCEPT ![p] = new],
         UNCHANGED <<date, Settings, begun, touched, ended>>,
         p \in Passes /\ run[p].pc # "idle" /\ ~Doomed(run[p]) => new.pc # "idle" /\ ~Doomed(new)
  PROVE  Alive'
  <1>1. run \in [Runs -> Run] /\ Passes \subseteq Runs
    BY DEF MonthlyInv, BillingTypeOK, Runs
  <1>2. SUFFICES ASSUME begun # {}, ~ended,
                        ~(\A o \in Orgs \ touched, y \in Years : ~Waits(o, y))
                 PROVE  \E q \in Passes : run'[q].pc # "idle" /\ ~Doomed(run'[q])
    BY DEF Alive, Waits, DueToday, Active, Settings, Doomed
  <1>3. PICK q \in Passes : run[q].pc # "idle" /\ ~Doomed(run[q])
    BY <1>2 DEF MonthlyInv, Alive
  <1>4. run'[q] = IF q = p THEN new ELSE run[q]
    BY <1>1
  <1> QED BY <1>3, <1>4

\* What the steps of one run leave alone.
LEMMA StepOfOne ==
  ASSUME MonthlyInv, NEW p \in Runs, NEW new, Sets(p, new),
         UNCHANGED <<date, Settings, billed, begun, touched, ended>>,
         events' \in 0..MaxEvents,
         WellFormed(p, new), Covers(p, new), Serves(new),
         p \in Passes /\ run[p].pc # "idle" => new.pc # "idle" /\ ~Doomed(new)
  PROVE  MonthlyInv'
  <1>1. run' = [run EXCEPT ![p] = new]
    BY DEF Sets
  <1>2. Alive'
    BY <1>1, AliveKept
  <1>3. begun' \subseteq Passes /\ ended' \in BOOLEAN
    BY DEF MonthlyInv, BillingTypeOK
  <1> QED BY <1>1, <1>2, <1>3, OneRun

LEMMA OpensKeeps ==
  ASSUME MonthlyInv, NEW p \in Runs, Opens(p)
  PROVE  MonthlyInv'
  <1>1. PICK o \in run[p].todo :
            Sets(p, [run[p] EXCEPT !.pc = "ask", !.org = o,
                                   !.years = {y \in Years : schedule[o][y].on}])
    BY DEF Opens
  <1>2. PICK new : new = [run[p] EXCEPT !.pc = "ask", !.org = o,
                                        !.years = {y \in Years : schedule[o][y].on}]
    OBVIOUS
  <1>3. /\ WellFormed(p, run[p]) /\ Covers(p, run[p])
        /\ run[p] \in Run /\ run[p].pc = "walk"
    BY DEF MonthlyInv, Opens, WellFormed
  <1>4. o \in Orgs
    BY <1>3 DEF Run
  <1>5. /\ new \in Run /\ new.pc = "ask" /\ new.org = o /\ new.kind = run[p].kind
        /\ new.years = {y \in Years : schedule[o][y].on} /\ new.marks = run[p].marks
        /\ new.todo = run[p].todo /\ new.year = run[p].year
    BY <1>2, <1>3, <1>4 DEF Run
  <1>6. WellFormed(p, new)
    BY <1>3, <1>4, <1>5 DEF WellFormed, Working
  <1>7. Covers(p, new)
    BY <1>3, <1>5 DEF Covers, Waits, DueToday
  <1>8. Serves(new)
    BY <1>3, <1>5 DEF Serves, WellFormed
  <1>9. Sets(p, new) /\ UNCHANGED <<date, Settings, billed, begun, touched, ended>>
    BY <1>1, <1>2 DEF Opens
  <1>10. events' \in 0..MaxEvents
    BY DEF Opens, MonthlyInv, BillingTypeOK
  <1> QED BY <1>5, <1>6, <1>7, <1>8, <1>9, <1>10, StepOfOne DEF Doomed

LEMMA AsksKeeps ==
  ASSUME MonthlyInv, NEW p \in Runs, Asks(p)
  PROVE  MonthlyInv'
  <1> DEFINE r == run[p]
  <1>1. PICK y \in r.years :
            Sets(p, IF IsDue(p, y)
                    THEN [r EXCEPT !.pc = "bill", !.years = @ \ {y}, !.year = y,
                                   !.month = Month(date), !.left = Active(r.org, y)]
                    ELSE [r EXCEPT !.years = @ \ {y}])
    BY DEF Asks
  <1>2. /\ WellFormed(p, r) /\ Covers(p, r) /\ Serves(r)
        /\ r \in Run /\ r.pc = "ask" /\ r.org \in Orgs /\ r.year = None
    BY DEF MonthlyInv, Asks, WellFormed, Working
  <1>3. y \in Years
    BY <1>2 DEF Run
  <1>4. Month(date) \in Months
    BY MonthType DEF MonthlyInv
  <1>5. /\ UNCHANGED <<date, Settings, billed, begun, touched, ended>>
        /\ events' \in 0..MaxEvents
    BY DEF Asks, MonthlyInv, BillingTypeOK
  <1>6. CASE IsDue(p, y)
    <2>1. PICK new : new = [r EXCEPT !.pc = "bill", !.years = @ \ {y}, !.year = y,
                                     !.month = Month(date), !.left = Active(r.org, y)]
      OBVIOUS
    <2>2. Active(r.org, y) \subseteq Classes /\ Active(r.org, y) # {}
      BY <1>6 DEF Active, IsDue
    <2>3. /\ new \in Run /\ new.pc = "bill" /\ new.org = r.org /\ new.kind = r.kind
          /\ new.years = r.years \ {y} /\ new.marks = r.marks /\ new.made = r.made
          /\ new.todo = r.todo /\ new.year = y /\ new.month = Month(date)
          /\ new.left = Active(r.org, y)
      BY <1>2, <1>3, <1>4, <2>1, <2>2 DEF Run
    <2>4. WellFormed(p, new)
      BY <1>2, <1>3, <2>2, <2>3 DEF WellFormed, Working
    <2>5. Covers(p, new)
      BY <1>2, <2>3, BillingConstants DEF Covers, BillingConstants
    <2>6. Serves(new)
      BY <1>2, <2>3 DEF Serves, Served, Has, Working
    <2>7. Sets(p, new)
      BY <1>1, <1>6, <2>1
    <2> QED BY <1>5, <2>3, <2>4, <2>5, <2>6, <2>7, StepOfOne DEF Doomed
  <1>7. CASE ~IsDue(p, y)
    <2>1. PICK new : new = [r EXCEPT !.years = @ \ {y}]
      OBVIOUS
    <2>2. /\ new \in Run /\ new.pc = "ask" /\ new.org = r.org /\ new.kind = r.kind
          /\ new.years = r.years \ {y} /\ new.marks = r.marks /\ new.made = r.made
          /\ new.todo = r.todo /\ new.year = None
      BY <1>2, <1>3, <2>1 DEF Run
    <2>3. WellFormed(p, new)
      BY <1>2, <2>2 DEF WellFormed, Working
    <2>4. ~Waits(r.org, y) \/ p \notin Passes
      BY <1>2, <1>7 DEF Waits, DueToday, IsDue, WellFormed
    <2>5. Covers(p, new)
      BY <1>2, <2>2, <2>4 DEF Covers
    <2>6. Serves(new)
      BY <1>2, <2>2 DEF Serves, Served, Has, Working
    <2>7. Sets(p, new)
      BY <1>1, <1>7, <2>1
    <2> QED BY <1>5, <2>2, <2>3, <2>5, <2>6, <2>7, StepOfOne DEF Doomed
  <1> QED BY <1>6, <1>7

\* The class it was at is done.
LEMMA PastIsFine ==
  ASSUME MonthlyInv, NEW p \in Runs, NEW c, NEW got \in SUBSET Students,
         run[p].pc \in {"bill", "insert"}, c \in run[p].left,
         run[p].kind # "class" /\ run[p].org \notin touched
            /\ c \in Active(run[p].org, run[p].year) =>
             \A s \in Students : place[run[p].org][s] = c =>
                 s \in got \/ Has(run[p], run[p].year, run[p].month, s)
  PROVE  LET new == Past(run[p], c, got)
         IN /\ WellFormed(p, new) /\ Covers(p, new) /\ Serves(new)
            /\ new.pc \in {"ask", "bill"}
  <1> DEFINE r == run[p]
             made == r.made \cup {<<r.year, r.month, s>> : s \in got}
  <1>1. /\ WellFormed(p, r) /\ Covers(p, r) /\ Serves(r) /\ r \in Run /\ r.org \in Orgs
        /\ r.year \in Years /\ r.month = Month(date) /\ r.month \in Months
    BY MonthType DEF MonthlyInv, WellFormed, Working
  <1>2. made \subseteq Years \X Months \X Students
    BY <1>1 DEF Run
  <1>3. PICK done : done = [r EXCEPT !.left = @ \ {c}, !.at = None, !.new = {}, !.made = made]
    OBVIOUS
  <1>4. /\ done \in Run /\ done.left = r.left \ {c} /\ done.made = made /\ done.org = r.org
        /\ done.kind = r.kind /\ done.years = r.years /\ done.marks = r.marks
        /\ done.todo = r.todo /\ done.year = r.year /\ done.month = r.month
    BY <1>1, <1>2, <1>3 DEF Run
  <1>5. r.kind # "class" /\ r.org \notin touched =>
            Served(done, r.year, r.month, Active(r.org, r.year) \ done.left)
    <2> SUFFICES ASSUME r.kind # "class", r.org \notin touched, NEW s \in Students,
                        place[r.org][s] \in Active(r.org, r.year) \ done.left
                 PROVE  Has(done, r.year, r.month, s)
      BY <1>4 DEF Served
    <2>1. CASE place[r.org][s] = c
      BY <1>4, <2>1 DEF Has
    <2>2. CASE place[r.org][s] # c
      <3>1. Served(r, r.year, r.month, Active(r.org, r.year) \ r.left)
        BY <1>1 DEF Serves, Working
      <3>2. place[r.org][s] \in Active(r.org, r.year) \ r.left
        BY <1>4, <2>2
      <3> QED BY <1>4, <3>1, <3>2 DEF Served, Has
    <2> QED BY <2>1, <2>2
  <1>6. r.kind # "class" /\ r.org \notin touched =>
            \A y \in Years, m \in Months :
                <<y, m>> \in r.marks => Served(done, y, m, Active(r.org, y))
    BY <1>1, <1>4 DEF Serves, Served, Has, Working
  <1>7. CASE done.left # {}
    <2>1. PICK new : new = [done EXCEPT !.pc = "bill"]
      OBVIOUS
    <2>2. Past(r, c, got) = new
      BY <1>3, <1>7, <2>1 DEF Past
    <2>3. /\ new \in Run /\ new.pc = "bill" /\ new.left = done.left /\ new.made = done.made
          /\ new.org = r.org /\ new.kind = r.kind /\ new.years = r.years /\ new.marks = r.marks
          /\ new.todo = r.todo /\ new.year = r.year /\ new.month = r.month
      BY <1>4, <2>1 DEF Run
    <2>4. WellFormed(p, new)
      BY <1>1, <1>7, <2>3 DEF WellFormed, Working
    <2>5. Covers(p, new)
      BY <1>1, <2>3 DEF Covers
    <2>6. Serves(new)
      BY <1>4, <1>5, <1>6, <2>3 DEF Serves, Served, Has
    <2> QED BY <2>2, <2>3, <2>4, <2>5, <2>6
  <1>8. CASE done.left = {}
    <2> DEFINE marks == IF r.kind = "class" THEN r.marks ELSE r.marks \cup {<<r.year, r.month>>}
    <2>1. marks \subseteq Years \X Months
      BY <1>1 DEF Run
    <2>2. PICK new : new = [done EXCEPT !.pc = "ask", !.year = None, !.month = None,
                                        !.marks = marks]
      OBVIOUS
    <2>3. Past(r, c, got) = new
      BY <1>3, <1>4, <1>8, <2>2 DEF Past
    <2>4. /\ new \in Run /\ new.pc = "ask" /\ new.made = done.made
          /\ new.org = r.org /\ new.kind = r.kind /\ new.years = r.years
          /\ new.marks = IF r.kind = "class" THEN r.marks ELSE r.marks \cup {<<r.year, r.month>>}
          /\ new.todo = r.todo /\ new.year = None
      BY <1>1, <1>4, <2>1, <2>2 DEF Run
    <2>5. WellFormed(p, new)
      BY <1>1, <2>4 DEF WellFormed, Working
    <2>6. Covers(p, new)
      BY <1>1, <2>4 DEF Covers, WellFormed
    <2>7. Serves(new)
      BY <1>4, <1>5, <1>6, <1>8, <2>4 DEF Serves, Served, Has
    <2> QED BY <2>3, <2>4, <2>5, <2>6, <2>7
  <1> QED BY <1>7, <1>8

LEMMA ReadsKeeps ==
  ASSUME MonthlyInv, NEW p \in Runs, Reads(p)
  PROVE  MonthlyInv'
  <1> DEFINE r == run[p]
             c == First(r.left)
             refused == Empty(p, c) \/ (Carries(p) /\ dues[r.org] = "inactive")
             found == IF refused THEN {} ELSE Billable(p, c)
  <1>1. /\ WellFormed(p, r) /\ Covers(p, r) /\ Serves(r) /\ r \in Run /\ r.pc = "bill"
        /\ r.org \in Orgs /\ r.year \in Years /\ r.left # {} /\ r.left \subseteq Classes
        /\ r.month \in Months /\ r.kind # "none"
    BY MonthType DEF MonthlyInv, Reads, WellFormed, Working, Run
  <1>2. c \in r.left
    BY <1>1, FirstIsIn
  <1>3. found \in SUBSET Students
    BY DEF Billable, Eligible
  <1>4. /\ UNCHANGED <<date, Settings, billed, begun, touched, ended>>
        /\ events' \in 0..MaxEvents
    BY DEF Reads, MonthlyInv, BillingTypeOK
  <1>5. Sets(p, IF found = {} THEN Past(r, c, {})
                ELSE [r EXCEPT !.pc = "insert", !.at = c, !.new = found, !.clash = "no"])
    BY DEF Reads
  <1>6. ASSUME r.kind # "class", NEW s \in Students, place[r.org][s] = c,
               c \in Active(r.org, r.year), s \notin found
        PROVE  Has(r, r.year, r.month, s)
    <2>1. CASE Empty(p, c)
      <3>1. structure[r.org][r.year][c] \in {"none", "active", "empty"}
        BY <1>1, <1>2 DEF MonthlyInv, BillingTypeOK
      <3> QED BY <1>6, <2>1, <3>1 DEF Empty, Active, Has, Excused
    <2>2. CASE Carries(p) /\ dues[r.org] = "inactive"
      BY <1>6, <2>2 DEF Carries, Has, Excused
    <2>3. CASE ~refused /\ s \notin Eligible(r.org, c)
      BY <1>6, <2>3, EligibleOrMany DEF Has, Excused
    <2>4. CASE ~refused /\ s \in Eligible(r.org, c)
      BY <1>6, <2>4 DEF Billable, Has
    <2> QED BY <2>1, <2>2, <2>3, <2>4
  <1> HIDE DEF found, c
  <1>7. CASE found = {}
    <2>1. PICK new : new = Past(r, c, {})
      OBVIOUS
    <2>2. WellFormed(p, new) /\ Covers(p, new) /\ Serves(new) /\ new.pc \in {"ask", "bill"}
      BY <1>1, <1>2, <1>6, <1>7, <2>1, PastIsFine
    <2>3. Sets(p, new)
      BY <1>5, <1>7, <2>1
    <2> QED BY <1>4, <2>2, <2>3, StepOfOne DEF Doomed
  <1>8. CASE found # {}
    <2>1. PICK new : new = [r EXCEPT !.pc = "insert", !.at = c, !.new = found, !.clash = "no"]
      OBVIOUS
    <2>2. /\ new \in Run /\ new.pc = "insert" /\ new.at = c /\ new.new = found
          /\ new.clash = "no" /\ new.org = r.org /\ new.kind = r.kind /\ new.years = r.years
          /\ new.marks = r.marks /\ new.made = r.made /\ new.left = r.left
          /\ new.todo = r.todo /\ new.year = r.year /\ new.month = r.month
      BY <1>1, <1>2, <1>3, <2>1 DEF Run
    <2>3. WellFormed(p, new)
      BY <1>1, <1>2, <2>2 DEF WellFormed, Working
    <2>4. Covers(p, new)
      BY <1>1, <2>2 DEF Covers
    <2>5. Serves(new)
      BY <1>1, <1>6, <2>2 DEF Serves, Served, Has, Working
    <2>6. Sets(p, new)
      BY <1>5, <1>8, <2>1
    <2> QED BY <1>4, <2>2, <2>3, <2>4, <2>5, <2>6, StepOfOne DEF Doomed
  <1> QED BY <1>7, <1>8

LEMMA InsertsKeeps ==
  ASSUME MonthlyInv, NEW p \in Runs, Inserts(p)
  PROVE  MonthlyInv'
  <1> DEFINE r == run[p]
  <1>1. /\ WellFormed(p, r) /\ Serves(r) /\ r \in Run /\ r.pc = "insert" /\ r.at \in r.left
        /\ r.new \in SUBSET Students
    BY DEF MonthlyInv, Inserts, WellFormed, Run
  <1>2. PICK new : new = Past(r, r.at, r.new)
    OBVIOUS
  <1>3. WellFormed(p, new) /\ Covers(p, new) /\ Serves(new) /\ new.pc \in {"ask", "bill"}
    <2>1. r.kind # "class" /\ r.org \notin touched /\ r.at \in Active(r.org, r.year) =>
              \A s \in Students : place[r.org][s] = r.at =>
                  s \in r.new \/ Has(r, r.year, r.month, s)
      BY <1>1 DEF Serves, Working
    <2> QED BY <1>1, <1>2, <2>1, PastIsFine
  <1>4. /\ UNCHANGED <<date, Settings, billed, begun, touched, ended>>
        /\ events' \in 0..MaxEvents /\ Sets(p, new)
    BY <1>2 DEF Inserts, MonthlyInv, BillingTypeOK
  <1> QED BY <1>3, <1>4, StepOfOne DEF Doomed

-----------------------------------------------------------------------------
(* The end of a run.                                                       *)

\* A run that ends leaves tonight to another pass, or tonight is spoilt, or it was doomed.
LEMMA StopsKeeps ==
  ASSUME MonthlyInv, NEW p \in Runs, NEW outside \in BOOLEAN, Stops(p, outside),
         events' \in 0..MaxEvents,
         p \in Passes /\ ~outside => Doomed(run[p]) \/ run[p].pc = "idle"
  PROVE  MonthlyInv'
  <1>1. run' = [run EXCEPT ![p] = NoRun]
    BY DEF Stops, Sets
  <1>2. UNCHANGED <<date, Settings, billed, begun, touched>>
    BY DEF Stops
  <1>3. ended' \in BOOLEAN /\ begun' \subseteq Passes
    BY DEF Stops, MonthlyInv, BillingTypeOK
  <1>4. Alive'
    <2>1. CASE p \in Passes /\ outside
      BY <2>1 DEF Stops, Alive
    <2>2. CASE ~(p \in Passes /\ outside)
      <3>1. ended' = ended
        BY <2>2 DEF Stops, MonthlyInv, BillingTypeOK
      <3> QED BY <1>1, <1>2, <2>2, <3>1, AliveKept
    <2> QED BY <2>1, <2>2
  <1>5. WellFormed(p, NoRun) /\ Covers(p, NoRun) /\ Serves(NoRun)
    BY NoRunIsFine DEF MonthlyInv
  <1> QED BY <1>1, <1>2, <1>3, <1>4, <1>5, OneRun DEF NoRun

LEMMA EventsType == BillingTypeOK /\ (Happens \/ UNCHANGED events) => events' \in 0..MaxEvents
  <1>1. MaxEvents \in Nat
    BY BillingConstants DEF BillingConstants
  <1> QED BY <1>1 DEF BillingTypeOK, Happens

LEMMA CutShortKeeps ==
  ASSUME MonthlyInv, NEW p \in Runs, Clashes(p) \/ MissesHead(p) \/ Crashes(p)
  PROVE  MonthlyInv'
  <1>1. events' \in 0..MaxEvents
    BY EventsType DEF Clashes, MissesHead, Crashes, MonthlyInv
  <1>2. run[p] \in Run
    BY DEF MonthlyInv, BillingTypeOK
  <1>3. CASE Clashes(p)
    <2>1. PICK b \in BOOLEAN : b = (run[p].clash = "office")
      OBVIOUS
    <2>2. ~b => Doomed(run[p])
      BY <1>2, <1>3, <2>1 DEF Clashes, Doomed, Run
    <2>3. Stops(p, b)
      BY <1>3, <2>1 DEF Clashes
    <2> QED BY <1>1, <2>2, <2>3, StopsKeeps
  <1>4. CASE MissesHead(p)
    BY <1>1, <1>4, StopsKeeps DEF MissesHead
  <1>5. CASE Crashes(p)
    BY <1>1, <1>5, StopsKeeps DEF Crashes
  <1> QED BY <1>3, <1>4, <1>5

\* A pass that has walked through all organizations has nothing left that waits.
LEMMA WalkEndsKeeps ==
  ASSUME MonthlyInv, NEW p \in Runs, WalkEnds(p)
  PROVE  MonthlyInv'
  <1>1. /\ run' = [run EXCEPT ![p] = NoRun] /\ events' \in 0..MaxEvents
        /\ UNCHANGED <<date, Settings, billed, begun, touched, ended>>
        /\ begun' \subseteq Passes /\ ended' \in BOOLEAN
    BY DEF WalkEnds, Sets, MonthlyInv, BillingTypeOK
  <1>2. WellFormed(p, NoRun) /\ Covers(p, NoRun) /\ Serves(NoRun)
    BY NoRunIsFine DEF MonthlyInv
  <1>3. Alive'
    <2>1. CASE p \in Passes
      <3>1. \A o \in Orgs \ touched, y \in Years : ~Waits(o, y)
        BY <2>1 DEF MonthlyInv, Covers, WalkEnds
      <3> QED BY <1>1, <3>1 DEF Alive, Waits, DueToday, Active, Settings
    <2>2. CASE p \notin Passes
      BY <1>1, <2>2, AliveKept
    <2> QED BY <2>1, <2>2
  <1> QED BY <1>1, <1>2, <1>3, OneRun

-----------------------------------------------------------------------------
(* The commit of one campus.                                               *)

\* Marks are written, and nothing else of a schedule.
LEMMA Marked ==
  ASSUME MonthlyInv, NEW p \in Runs, Commits(p), NEW o \in Orgs, NEW y \in Years
  PROVE  /\ schedule'[o][y] \in Schedule
         /\ schedule'[o][y].on = schedule[o][y].on
         /\ schedule'[o][y].day = schedule[o][y].day
         /\ schedule'[o][y].carry = schedule[o][y].carry
         /\ schedule'[o][y].bookmark =
                IF o = run[p].org /\ <<y, Month(date)>> \in run[p].marks
                THEN Month(date) ELSE schedule[o][y].bookmark
  <1> DEFINE r == run[p]
             mark == IF \E m \in Months : <<y, m>> \in r.marks
                     THEN CHOOSE m \in Months : <<y, m>> \in r.marks
                     ELSE schedule[o][y].bookmark
  <1>1. /\ WellFormed(p, r) /\ r \in Run /\ schedule \in [Orgs -> [Years -> Schedule]]
        /\ Month(date) \in Months
    BY MonthType DEF MonthlyInv, WellFormed, BillingTypeOK
  <1>2. schedule[o][y] \in Schedule
    BY <1>1
  <1>3. mark = IF <<y, Month(date)>> \in r.marks THEN Month(date) ELSE schedule[o][y].bookmark
    <2>1. \A m \in Months : <<y, m>> \in r.marks => m = Month(date)
      BY <1>1 DEF WellFormed
    <2> QED BY <1>1, <2>1
  <1>4. schedule'[o][y] = IF o = r.org THEN [schedule[o][y] EXCEPT !.bookmark = mark]
                                       ELSE schedule[o][y]
    BY <1>1 DEF Commits
  <1>5. PICK m : m = mark
    OBVIOUS
  <1>6. m \in Months \cup {None}
    BY <1>1, <1>2, <1>3, <1>5 DEF Schedule
  <1> HIDE DEF mark
  <1> QED BY <1>2, <1>3, <1>4, <1>5, <1>6 DEF Schedule

LEMMA CommitsKeeps ==
  ASSUME MonthlyInv, NEW p \in Runs, Commits(p)
  PROVE  MonthlyInv'
  <1> DEFINE r == run[p]
             o == r.org
  <1>1. /\ WellFormed(p, r) /\ Covers(p, r) /\ r \in Run /\ r.pc = "ask" /\ o \in Orgs
        /\ r.years = {} /\ r.year = None
    BY DEF MonthlyInv, Commits, WellFormed, Working
  <1>2. UNCHANGED <<date, dues, structure, place, begun, touched, ended, events>>
    BY DEF Commits
  <1>3. BillingTypeOK
    BY DEF MonthlyInv
  <1>4. schedule' \in [Orgs -> [Years -> Schedule]]
    <2>1. schedule \in [Orgs -> [Years -> Schedule]]
      BY <1>3 DEF BillingTypeOK
    <2>2. \A x \in Orgs, y \in Years : schedule'[x][y] \in Schedule
      BY Marked
    <2>3. /\ schedule' = [x \in Orgs |-> schedule'[x]]
          /\ \A x \in Orgs : schedule'[x] = [y \in Years |-> schedule'[x][y]]
      BY <2>1 DEF Commits
    <2> QED BY <2>2, <2>3
  <1>5. /\ billed' \in [Orgs -> SUBSET (Years \X Months \X Students)]
        /\ \A x \in Orgs : billed[x] \subseteq billed'[x]
    BY <1>1, <1>3 DEF BillingTypeOK, Commits, Run
  <1>6. ASSUME NEW x \in Orgs, NEW y \in Years, Waits(x, y)'
        PROVE  Waits(x, y) /\ (x = o => <<y, Month(date)>> \notin r.marks)
    BY <1>2, <1>6, Marked DEF Waits, DueToday, Active, Month, Day
  <1>7. \A x \in Orgs, y \in Years : \A c : Excused(x, y, c) => Excused(x, y, c)'
    BY <1>2, Marked DEF Excused
  <1>8. \A x \in Orgs, y \in Years : Active(x, y)' = Active(x, y)
    BY <1>2 DEF Active
  <1>9. PICK mine : mine = After(p)
    OBVIOUS
  <1>10. /\ mine \in Run /\ mine.org = None /\ mine.year = None /\ mine.marks = {}
         /\ IF r.kind = "pass"
            THEN mine.pc = "walk" /\ mine.kind = "pass" /\ mine.todo = r.todo \ {o}
            ELSE mine = NoRun /\ mine.pc = "idle"
    <2>1. r.todo \ {o} \subseteq Orgs
      BY <1>1 DEF Run
    <2> QED BY <1>9, <2>1 DEF After, NoRun, Run
  <1>11. (WellFormed(p, mine) /\ Covers(p, mine) /\ Serves(mine))'
    <2>1. r.kind = "pass" <=> p \in Passes
      BY <1>1 DEF WellFormed
    <2>2. WellFormed(p, mine)'
      BY <1>10, <2>1 DEF WellFormed, Working
    <2>3. Covers(p, mine)'
      <3> SUFFICES ASSUME p \in Passes, NEW x \in Orgs \ touched, NEW y \in Years, Waits(x, y)'
                   PROVE  x \in mine.todo
        BY <1>2, <1>10, BillingConstants DEF Covers, BillingConstants
      <3>1. Waits(x, y) /\ (x = o => <<y, Month(date)>> \notin r.marks)
        BY <1>6
      <3>2. x \in r.todo /\ (o = x => y \in r.years \/ y = r.year \/ <<y, Month(date)>> \in r.marks)
        BY <1>1, <3>1 DEF Covers
      <3>3. x # o
        BY <1>1, <3>1, <3>2, BillingConstants DEF BillingConstants
      <3> QED BY <1>10, <2>1, <3>2, <3>3
    <2>4. Serves(mine)'
      BY <1>10 DEF Serves, Working
    <2> QED BY <2>2, <2>3, <2>4
  <1>12. ASSUME NEW q \in Runs, q # p
         PROVE  /\ run'[q] \in Run
                /\ run'[q] # run[q] => run'[q].clash = IF p \in Passes THEN "pass" ELSE "office"
                /\ (WellFormed(q, run[q]) /\ Covers(q, run[q]) /\ Serves(run[q]))'
                /\ run'[q].pc = run[q].pc
    <2>1. run[q] \in Run /\ WellFormed(q, run[q]) /\ Covers(q, run[q]) /\ Serves(run[q])
      BY DEF MonthlyInv, WellFormed
    <2>2. PICK his : his = run'[q]
      OBVIOUS
    <2>3. his = run[q] \/ his = [run[q] EXCEPT !.clash = IF p \in Passes THEN "pass" ELSE "office"]
      BY <1>12, <2>2 DEF Commits
    <2>4. PICK was : was = run[q]
      OBVIOUS
    <2>5. /\ his \in Run /\ his.pc = was.pc /\ his.kind = was.kind /\ his.org = was.org
          /\ his.todo = was.todo /\ his.years = was.years /\ his.year = was.year
          /\ his.month = was.month /\ his.left = was.left /\ his.at = was.at /\ his.new = was.new
          /\ his.made = was.made /\ his.marks = was.marks
          /\ his # was => his.clash = IF p \in Passes THEN "pass" ELSE "office"
      BY <2>1, <2>3, <2>4 DEF Run
    <2>6. WellFormed(q, his)'
      BY <1>2, <2>1, <2>4, <2>5 DEF WellFormed, Month
    <2>7. Covers(q, his)'
      BY <1>2, <1>6, <2>1, <2>4, <2>5 DEF Covers, Month
    <2>8. Serves(his)'
      <3>1. was.org \in Orgs => \A y \in Years, s \in Students : \A m :
                Has(was, y, m, s) => Has(his, y, m, s)'
        BY <1>2, <1>5, <1>7, <2>5 DEF Has
      <3>2. was.pc \in Working => was.org \in Orgs
        BY <2>1, <2>4 DEF WellFormed
      <3>3. was.pc \in {"bill", "insert"} => was.year \in Years
        BY <2>1, <2>4 DEF WellFormed
      <3>4. Serves(was)
        BY <2>1, <2>4
      <3> QED BY <1>2, <1>8, <2>5, <3>1, <3>2, <3>3, <3>4 DEF Serves, Served, Working
    <2> QED BY <2>2, <2>4, <2>5, <2>6, <2>7, <2>8
  <1>13. run'[p] = mine
    BY <1>9 DEF Commits
  <1>14. Alive'
    <2> SUFFICES ASSUME begun # {}, ~ended,
                        ~(\A x \in Orgs \ touched, y \in Years : ~Waits(x, y)')
                 PROVE  \E q \in Passes : run'[q].pc # "idle" /\ ~Doomed(run'[q])
      BY <1>2 DEF Alive, Doomed
    <2>1. CASE p \in Passes
      BY <1>1, <1>10, <1>13, <2>1 DEF WellFormed, Doomed
    <2>2. CASE p \notin Passes
      <3>1. PICK q \in Passes : run[q].pc # "idle" /\ ~Doomed(run[q])
        BY <1>6 DEF MonthlyInv, Alive
      <3>2. q \in Runs /\ q # p
        BY <2>2 DEF Runs
      <3> QED BY <1>12, <2>2, <3>1, <3>2 DEF Doomed
    <2> QED BY <2>1, <2>2
  <1>15. run' \in [Runs -> Run]
    BY <1>10, <1>12, <1>13 DEF Commits
  <1>16. BillingTypeOK'
    BY <1>2, <1>3, <1>4, <1>5, <1>15 DEF BillingTypeOK
  <1>17. ASSUME NEW q \in Runs
         PROVE  (WellFormed(q, run[q]) /\ Covers(q, run[q]) /\ Serves(run[q]))'
    <2>1. CASE q = p
      BY <1>11, <1>13, <2>1
    <2>2. CASE q # p
      BY <1>12, <2>2
    <2> QED BY <2>1, <2>2
  <1> QED BY <1>14, <1>16, <1>17 DEF MonthlyInv

-----------------------------------------------------------------------------
(* The beginning of a run, the day's end, and what is changed meanwhile.   *)

LEMMA PassBeginsKeeps ==
  ASSUME MonthlyInv, NEW p \in Passes, PassBegins(p)
  PROVE  MonthlyInv'
  <1>1. p \in Runs
    BY DEF Runs
  <1>2. PICK new : new = [NoRun EXCEPT !.pc = "walk", !.kind = "pass", !.todo = Orgs]
    OBVIOUS
  <1>3. /\ new \in Run /\ new.pc = "walk" /\ new.kind = "pass" /\ new.todo = Orgs
        /\ new.org = None /\ new.year = None /\ new.marks = {}
    BY <1>2 DEF NoRun, Run
  <1>4. WellFormed(p, new) /\ Covers(p, new) /\ Serves(new)
    BY <1>3, BillingConstants DEF WellFormed, Covers, Serves, Working, BillingConstants
  <1>5. /\ run' = [run EXCEPT ![p] = new] /\ events' \in 0..MaxEvents
        /\ UNCHANGED <<date, Settings, billed, touched>>
        /\ begun' \subseteq Passes /\ ended' \in BOOLEAN
    BY <1>2 DEF PassBegins, Sets, MonthlyInv, BillingTypeOK
  <1>6. Alive'
    <2>1. run'[p] = new
      BY <1>1, <1>5 DEF MonthlyInv, BillingTypeOK
    <2> QED BY <1>3, <2>1 DEF Alive, Doomed
  <1> QED BY <1>1, <1>4, <1>5, <1>6, OneRun

LEMMA ClicksKeeps ==
  ASSUME MonthlyInv, NEW f \in Offices, NEW o \in Orgs, NEW y \in Years,
         RunNow(f, o, y) \/ \E c \in Classes : GeneratesClass(f, o, y, c)
  PROVE  MonthlyInv'
  <1>1. f \in Runs /\ f \notin Passes
    BY BillingConstants DEF Runs, BillingConstants
  <1>2. Month(date) \in Months
    BY MonthType DEF MonthlyInv
  <1>3. CASE RunNow(f, o, y)
    <2>1. PICK new : new = [NoRun EXCEPT !.pc = "ask", !.kind = "now", !.org = o, !.years = {y}]
      OBVIOUS
    <2>2. /\ new \in Run /\ new.pc = "ask" /\ new.kind = "now" /\ new.org = o
          /\ new.year = None /\ new.marks = {}
      BY <2>1 DEF NoRun, Run
    <2>3. WellFormed(f, new) /\ Covers(f, new) /\ Serves(new)
      BY <1>1, <2>2 DEF WellFormed, Covers, Serves, Working
    <2>4. /\ Sets(f, new) /\ events' \in 0..MaxEvents
          /\ UNCHANGED <<date, Settings, billed, begun, touched, ended>>
      BY <1>3, <2>1, EventsType DEF RunNow, Clicks, MonthlyInv
    <2> QED BY <1>1, <2>3, <2>4, StepOfOne
  <1>4. ASSUME NEW c \in Classes, GeneratesClass(f, o, y, c)
        PROVE  MonthlyInv'
    <2>1. PICK new : new = [NoRun EXCEPT !.pc = "bill", !.kind = "class", !.org = o, !.year = y,
                                         !.month = Month(date), !.left = {c}]
      OBVIOUS
    <2>2. /\ new \in Run /\ new.pc = "bill" /\ new.kind = "class" /\ new.org = o
          /\ new.year = y /\ new.month = Month(date) /\ new.left = {c} /\ new.marks = {}
      BY <1>2, <2>1 DEF NoRun, Run
    <2>3. WellFormed(f, new) /\ Covers(f, new) /\ Serves(new)
      BY <1>1, <2>2 DEF WellFormed, Covers, Serves, Working
    <2>4. /\ Sets(f, new) /\ events' \in 0..MaxEvents
          /\ UNCHANGED <<date, Settings, billed, begun, touched, ended>>
      BY <1>4, <2>1, EventsType DEF GeneratesClass, Clicks, MonthlyInv
    <2> QED BY <1>1, <2>3, <2>4, StepOfOne
  <1> QED BY <1>3, <1>4

LEMMA NextDayKeeps ==
  ASSUME MonthlyInv, NextDay
  PROVE  MonthlyInv'
  <1>1. BillingTypeOK /\ UNCHANGED <<Settings, billed, run>>
    BY DEF NextDay, MonthlyInv
  <1>2. date' \in FirstDate..LastDate
    BY <1>1, BillingConstants DEF NextDay, BillingTypeOK, BillingConstants
  <1>3. events' \in 0..MaxEvents
    BY <1>1, EventsType DEF NextDay
  <1>4. BillingTypeOK'
    BY <1>1, <1>2, <1>3 DEF NextDay, BillingTypeOK, Settings
  <1>5. ASSUME NEW p \in Runs
        PROVE  (WellFormed(p, run[p]) /\ Covers(p, run[p]) /\ Serves(run[p]))'
    <2>1. run'[p] = run[p] /\ run[p].pc = "idle" /\ WellFormed(p, run[p])
      BY <1>1 DEF NextDay, MonthlyInv
    <2> QED BY <2>1 DEF WellFormed, Covers, Serves, Working
  <1>6. Alive'
    BY DEF NextDay, Alive
  <1> QED BY <1>4, <1>5, <1>6 DEF MonthlyInv

\* The promise of tonight is about what nobody touched today.
LEMMA EditsKeeps ==
  ASSUME MonthlyInv, NEW o \in Orgs, Edits(o), BillingTypeOK',
         \A x \in Orgs \ {o}, y \in Years : /\ schedule'[x][y] = schedule[x][y]
                                           /\ structure'[x][y] = structure[x][y],
         \A x \in Orgs \ {o} : dues'[x] = dues[x] /\ place'[x] = place[x]
  PROVE  MonthlyInv'
  <1>1. UNCHANGED <<date, billed, run, begun, ended>> /\ touched' = touched \cup {o}
    BY DEF Edits
  <1>2. \A x \in Orgs \ touched', y \in Years : Waits(x, y)' => Waits(x, y)
    BY <1>1 DEF Waits, DueToday, Active
  <1>3. ASSUME NEW p \in Runs
        PROVE  (WellFormed(p, run[p]) /\ Covers(p, run[p]) /\ Serves(run[p]))'
    <2>1. PICK r : r = run[p]
      OBVIOUS
    <2>2. WellFormed(p, r) /\ Covers(p, r) /\ Serves(r)
      BY <2>1 DEF MonthlyInv
    <2>3. WellFormed(p, r)'
      BY <1>1, <2>2 DEF WellFormed
    <2>4. Covers(p, r)'
      BY <1>1, <1>2, <2>2 DEF Covers
    <2>5. Serves(r)'
      <3>1. CASE r.pc \in Working /\ r.org \notin touched'
        <4>1. r.org \in Orgs \ {o} /\ r.org \notin touched
          BY <1>1, <2>2, <3>1 DEF WellFormed
        <4>2. \A y \in Years : Active(r.org, y)' = Active(r.org, y)
          BY <4>1 DEF Active
        <4>3. place'[r.org] = place[r.org] /\ dues'[r.org] = dues[r.org]
          BY <4>1
        <4>4. ASSUME NEW y \in Years, NEW s \in Students, NEW m
              PROVE  Has(r, y, m, s)' <=> Has(r, y, m, s)
          <5>1. /\ schedule'[r.org][y] = schedule[r.org][y]
                /\ structure'[r.org][y] = structure[r.org][y]
            BY <4>1
          <5>2. PICK c : c = place[r.org][s]
            OBVIOUS
          <5>3. {t \in Students : place'[r.org][t] = c} = {t \in Students : place[r.org][t] = c}
            BY <4>3
          <5>4. Excused(r.org, y, c)' <=> Excused(r.org, y, c)
            BY <4>3, <5>1, <5>3 DEF Excused
          <5> QED BY <1>1, <4>3, <5>2, <5>4 DEF Has
        <4>5. r.pc \in {"bill", "insert"} => r.year \in Years
          BY <2>2 DEF WellFormed
        <4> QED BY <1>1, <2>2, <4>1, <4>2, <4>3, <4>4, <4>5 DEF Serves, Served
      <3>2. CASE ~(r.pc \in Working /\ r.org \notin touched')
        BY <3>2 DEF Serves
      <3> QED BY <3>1, <3>2
    <2> QED BY <1>1, <2>1, <2>3, <2>4, <2>5
  <1>4. Alive'
    BY <1>1, <1>2 DEF MonthlyInv, Alive, Doomed
  <1> QED BY <1>3, <1>4 DEF MonthlyInv

LEMMA SettingsKeep ==
  ASSUME MonthlyInv, NEW o \in Orgs,
         \/ \E y \in Years, new \in Setting : SetSchedule(o, y, new)
         \/ \E to \in {"active", "inactive", "deleted"} : RetireHead(o, to)
         \/ \E y \in Years, c \in Classes, to \in {"none", "active", "empty"} :
               ReviseStructure(o, y, c, to)
         \/ \E s \in Students, c \in Classes \cup {None} : MoveStudent(o, s, c)
  PROVE  MonthlyInv'
  <1>1. BillingTypeOK
    BY DEF MonthlyInv
  <1>2. ASSUME Edits(o) PROVE touched' \subseteq Orgs /\ events' \in 0..MaxEvents
    BY <1>1, <1>2, EventsType DEF Edits, BillingTypeOK
  <1>3. ASSUME NEW y \in Years, NEW new \in Setting, SetSchedule(o, y, new)
        PROVE  MonthlyInv'
    <2>1. PICK entry : entry = [on |-> new.on, day |-> new.day, carry |-> new.carry,
                                bookmark |-> schedule[o][y].bookmark]
      OBVIOUS
    <2>2. schedule' = [schedule EXCEPT ![o][y] = entry]
      BY <1>3, <2>1 DEF SetSchedule
    <2>3. entry \in Schedule
      BY <1>1, <2>1 DEF BillingTypeOK, Schedule, Setting
    <2>4. schedule' \in [Orgs -> [Years -> Schedule]]
      BY <1>1, <2>2, <2>3 DEF BillingTypeOK
    <2>5. BillingTypeOK'
      BY <1>1, <1>2, <1>3, <2>4 DEF SetSchedule, Edits, BillingTypeOK
    <2> QED BY <1>1, <1>3, <2>2, <2>5, EditsKeeps DEF SetSchedule, BillingTypeOK
  <1>4. ASSUME NEW to \in {"active", "inactive", "deleted"}, RetireHead(o, to)
        PROVE  MonthlyInv'
    <2>1. BillingTypeOK'
      BY <1>1, <1>2, <1>4 DEF RetireHead, Edits, BillingTypeOK
    <2> QED BY <1>1, <1>4, <2>1, EditsKeeps DEF RetireHead, BillingTypeOK
  <1>5. ASSUME NEW y \in Years, NEW c \in Classes, NEW to \in {"none", "active", "empty"},
               ReviseStructure(o, y, c, to)
        PROVE  MonthlyInv'
    <2>1. BillingTypeOK'
      BY <1>1, <1>2, <1>5 DEF ReviseStructure, Edits, BillingTypeOK
    <2> QED BY <1>1, <1>5, <2>1, EditsKeeps DEF ReviseStructure, BillingTypeOK
  <1>6. ASSUME NEW s \in Students, NEW c \in Classes \cup {None}, MoveStudent(o, s, c)
        PROVE  MonthlyInv'
    <2>1. BillingTypeOK'
      BY <1>1, <1>2, <1>6 DEF MoveStudent, Edits, BillingTypeOK
    <2> QED BY <1>1, <1>6, <2>1, EditsKeeps DEF MoveStudent, BillingTypeOK
  <1> QED BY <1>3, <1>4, <1>5, <1>6

-----------------------------------------------------------------------------
(* Nights.                                                                 *)

LEMMA InitMonthly == BillingInit => MonthlyInv
  <1> SUFFICES ASSUME BillingInit PROVE MonthlyInv
    OBVIOUS
  <1>1. FirstDate \in FirstDate..LastDate /\ 0 \in 0..MaxEvents /\ NoRun \in Run
    BY BillingConstants DEF BillingConstants, NoRun, Run
  <1>2. BillingTypeOK
    <2>1. schedule \in [Orgs -> [Years -> Schedule]]
      <3>1. PICK day \in [Orgs -> 1..Days], carry \in BOOLEAN :
                schedule = [o \in Orgs |-> [y \in Years |->
                               [on |-> TRUE, day |-> day[o], carry |-> carry, bookmark |-> None]]]
        BY DEF BillingInit
      <3> QED BY <3>1 DEF Schedule
    <2>2. place \in [Orgs -> [Students -> Classes \cup {None}]]
      <3>1. PICK c \in [Students -> Classes] : place = [o \in Orgs |-> c]
        BY DEF BillingInit
      <3> QED BY <3>1
    <2> QED BY <1>1, <2>1, <2>2 DEF BillingInit, BillingTypeOK
  <1>3. ASSUME NEW p \in Runs
        PROVE  WellFormed(p, run[p]) /\ Covers(p, run[p]) /\ Serves(run[p])
    BY <1>2, NoRunIsFine DEF BillingInit
  <1> QED BY <1>2, <1>3 DEF BillingInit, MonthlyInv, Alive

LEMMA NextMonthly == MonthlyInv /\ [BillingNext]_billingVars => MonthlyInv'
  <1> SUFFICES ASSUME MonthlyInv, [BillingNext]_billingVars PROVE MonthlyInv'
    OBVIOUS
  <1>1. CASE BillingNext
    <2>1. ASSUME NEW p \in Runs, Works(p) \/ Crashes(p) PROVE MonthlyInv'
      BY <2>1, OpensKeeps, WalkEndsKeeps, AsksKeeps, ReadsKeeps, InsertsKeeps, CommitsKeeps,
         CutShortKeeps DEF Works
    <2>2. ASSUME NEW p \in Passes, PassBegins(p) PROVE MonthlyInv'
      BY <2>2, PassBeginsKeeps
    <2>3. ASSUME NEW f \in Offices, NEW o \in Orgs, NEW y \in Years,
                 RunNow(f, o, y) \/ \E c \in Classes : GeneratesClass(f, o, y, c)
          PROVE  MonthlyInv'
      BY <2>3, ClicksKeeps
    <2>4. CASE NextDay
      BY <2>4, NextDayKeeps
    <2> QED BY <1>1, <2>1, <2>2, <2>3, <2>4, SettingsKeep DEF BillingNext
  <1>2. CASE UNCHANGED billingVars
    <2>1. UNCHANGED <<date, Settings, billed, run, begun, touched, ended, events>>
      BY <1>2 DEF billingVars, Settings
    <2>2. BillingTypeOK'
      BY <2>1 DEF MonthlyInv, BillingTypeOK, Settings
    <2>3. ASSUME NEW p \in Runs
          PROVE  (WellFormed(p, run[p]) /\ Covers(p, run[p]) /\ Serves(run[p]))'
      <3>1. PICK r : r = run[p]
        OBVIOUS
      <3>2. WellFormed(p, r) /\ Covers(p, r) /\ Serves(r)
        BY <3>1 DEF MonthlyInv
      <3>3. WellFormed(p, r)' /\ Covers(p, r)'
        BY <2>1, <3>2 DEF WellFormed, Covers, Waits, DueToday, Active, Settings
      <3>4. Serves(r)'
        BY <2>1, <3>2 DEF Serves, Served, Has, Excused, Active, Settings
      <3> QED BY <2>1, <3>1, <3>3, <3>4
    <2>4. Alive'
      BY <2>1 DEF MonthlyInv, Alive, Waits, DueToday, Active, Doomed, Settings
    <2> QED BY <2>2, <2>3, <2>4 DEF MonthlyInv
  <1> QED BY <1>1, <1>2

\* What the nights keep is an invariant of every schedule.
LEMMA MonthlyHolds == BillingSpec => []MonthlyInv
  BY InitMonthly, NextMonthly, PTL DEF BillingSpec

\* Schedules, runs and challans keep their types, for any numbers of organizations, years,
\* classes, students and processes (fees/service.py, run_scheduled_generation).
THEOREM BillingTyped == BillingSpec => []BillingTypeOK
  <1>1. MonthlyInv => BillingTypeOK
    BY DEF MonthlyInv
  <1> QED BY <1>1, MonthlyHolds, PTL

\* However many passes overlap, whichever of them fail on each other's challan numbers, and
\* whatever an operator generates beside them: a night that no pass was cut short in from
\* outside has billed every campus whose day it was (cli.py, _run_maintenance).
THEOREM CampusesReached == BillingSpec => []EveryCampusReached
  <1>1. MonthlyInv => EveryCampusReached
    BY DEF MonthlyInv, Alive, EveryCampusReached, Waits
  <1> QED BY <1>1, MonthlyHolds, PTL

\* Nothing but the commit of a run moves a bookmark.
LEMMA OnlyCommitsMark ==
  ASSUME MonthlyInv, BillingNext, NEW o \in Orgs, NEW y \in Years,
         schedule'[o][y].bookmark # schedule[o][y].bookmark
  PROVE  \E p \in Runs : Commits(p)
  <1>1. schedule \in [Orgs -> [Years -> Schedule]]
    BY DEF MonthlyInv, BillingTypeOK
  <1>2. schedule' # schedule
    OBVIOUS
  <1>3. ASSUME NEW p \in Runs, Works(p) \/ Crashes(p) PROVE Commits(p)
    BY <1>2, <1>3 DEF Works, Crashes, Stops, Opens, WalkEnds, Asks, Reads, Inserts, Clashes,
       MissesHead, Settings
  <1>4. ~ \E p \in Passes : PassBegins(p)
    BY <1>2 DEF PassBegins, Settings
  <1>5. ~ \E f \in Offices, x \in Orgs, z \in Years :
             RunNow(f, x, z) \/ \E c \in Classes : GeneratesClass(f, x, z, c)
    BY <1>2 DEF RunNow, GeneratesClass, Clicks, Settings
  <1>6. ~NextDay
    BY <1>2 DEF NextDay, Settings
  <1>7. ASSUME NEW x \in Orgs, NEW z \in Years, NEW new \in Setting, SetSchedule(x, z, new)
        PROVE  FALSE
    <2>1. PICK entry : entry = [on |-> new.on, day |-> new.day, carry |-> new.carry,
                                bookmark |-> schedule[x][z].bookmark]
      OBVIOUS
    <2>2. schedule' = [schedule EXCEPT ![x][z] = entry]
      BY <1>7, <2>1 DEF SetSchedule
    <2>3. entry.bookmark = schedule[x][z].bookmark
      BY <2>1
    <2> QED BY <1>1, <2>2, <2>3
  <1>8. ASSUME NEW x \in Orgs,
               \/ \E to \in {"active", "inactive", "deleted"} : RetireHead(x, to)
               \/ \E z \in Years, c \in Classes, to \in {"none", "active", "empty"} :
                     ReviseStructure(x, z, c, to)
               \/ \E s \in Students, c \in Classes \cup {None} : MoveStudent(x, s, c)
        PROVE  FALSE
    BY <1>2, <1>8 DEF RetireHead, ReviseStructure, MoveStudent
  <1> QED BY <1>3, <1>4, <1>5, <1>6, <1>7, <1>8 DEF BillingNext

\* The bookmark of a month is written over challans for every student of every class that was
\* not refused and is not larger than a batch (service.py, run_scheduled_generation).
THEOREM MarkedMonthsAreBilled == BillingSpec => MarkedIsBilled
  <1>1. MonthlyInv /\ [BillingNext]_billingVars =>
            [\A o \in Orgs \ touched, y \in Years :
                schedule'[o][y].bookmark # schedule[o][y].bookmark =>
                    \A s \in Students : place[o][s] \in Active(o, y) =>
                        \/ <<y, schedule'[o][y].bookmark, s>> \in billed'[o]
                        \/ Excused(o, y, place[o][s])]_billingVars
    <2> SUFFICES ASSUME MonthlyInv, BillingNext, NEW o \in Orgs \ touched, NEW y \in Years,
                        schedule'[o][y].bookmark # schedule[o][y].bookmark,
                        NEW s \in Students, place[o][s] \in Active(o, y)
                 PROVE  \/ <<y, schedule'[o][y].bookmark, s>> \in billed'[o]
                        \/ Excused(o, y, place[o][s])
      OBVIOUS
    <2>1. PICK p \in Runs : Commits(p)
      BY OnlyCommitsMark
    <2>2. /\ o = run[p].org /\ <<y, Month(date)>> \in run[p].marks
          /\ schedule'[o][y].bookmark = Month(date)
      BY <2>1, Marked
    <2>3. Month(date) \in Months
      BY MonthType DEF MonthlyInv
    <2>4. /\ Serves(run[p]) /\ run[p].pc = "ask" /\ WellFormed(p, run[p])
      BY <2>1 DEF MonthlyInv, Commits
    <2>5. run[p].kind # "class"
      BY <2>2, <2>4 DEF WellFormed
    <2>6. Has(run[p], y, Month(date), s)
      BY <2>2, <2>3, <2>4, <2>5 DEF Serves, Served, Working
    <2>7. billed'[o] = billed[o] \cup run[p].made
      BY <2>1, <2>2 DEF Commits, MonthlyInv, BillingTypeOK
    <2> QED BY <2>2, <2>6, <2>7 DEF Has
  <1> QED BY <1>1, MonthlyHolds, PTL DEF BillingSpec, MarkedIsBilled
=============================================================================
