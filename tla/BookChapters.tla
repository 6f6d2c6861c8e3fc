---------------------------- MODULE BookChapters ----------------------------
(***************************************************************************)
(* Chapters of textbooks and the workers that read them                    *)
(* (modules/books/jobs.py, service.py).  A chapter's row is its own queue: *)
(* a worker stamps it with a claim, works for minutes with no transaction  *)
(* open, and writes only if the stamp is still its own.  Page readings and *)
(* chunk vectors may go through batches that another company answers       *)
(* hours later.  Teachers change files and ask for runs meanwhile; a       *)
(* worker may die at any point, or be slow enough to look dead.            *)
(***************************************************************************)
EXTENDS Naturals, FiniteSets

CONSTANTS Chapters,      \* chapters of the book's list
          Workers,       \* processes running process-books
          NoChapter,     \* a worker between chapters
          MaxAttempts,   \* MAX_ATTEMPTS: claims before a silent chapter is failed
          MaxBatches,    \* bound: batches submitted in a behaviour
          MaxEdits,      \* bound: file changes and runs asked for by teachers
          MaxCrashes     \* bound: workers that die in mid-run

ASSUME BookConstants == /\ NoChapter \notin Chapters
                        /\ MaxAttempts \in Nat \ {0}
                        /\ MaxBatches \in Nat
                        /\ MaxEdits \in Nat
                        /\ MaxCrashes \in Nat

VARIABLES chapter,       \* the rows of book_chapters, with what hangs off them
          worker,        \* what each worker knows and is doing
          batch,         \* the batches at OpenAI
          clock,         \* the latest claim stamp: locked_at, as a number
          edits,         \* editions of files and requests so far (bound)
          crashes        \* workers that died so far (bound)

vars == <<chapter, worker, batch, clock, edits, crashes>>

Status == {"empty", "uploaded", "queued", "reading", "processing", "ready",
           "needs_review", "failed", "deleted"}
Idle == {"empty", "uploaded", "ready", "needs_review", "failed"}
Busy == {"queued", "reading", "processing"}

\* 0 is SQL NULL throughout.  files: which edition of the uploads (0: no files);
\* pages: the edition the saved pages were read from; run: the claim that saved them.
Row == [status: Status, files: Nat, pages: Nat, run: Nat,
        vectors: {"none", "waiting", "stored"}, attempts: Nat, locked_at: Nat,
        overdue: BOOLEAN, read_batch: 0..MaxBatches, embed_batch: 0..MaxBatches]

NewRow == [status |-> "empty", files |-> 0, pages |-> 0, run |-> 0, vectors |-> "none",
           attempts |-> 0, locked_at |-> 0, overdue |-> FALSE, read_batch |-> 0,
           embed_batch |-> 0]

\* _Claim, the local list of a pass, and the batch a step has in its hands.
Hand == [pc: {"idle", "listing", "pass", "claimed", "submitted", "read", "embedding"},
         todo: SUBSET Chapters, chapter: Chapters \cup {NoChapter}, locked_at: Nat,
         files: Nat, reads: 0..MaxBatches, sent: 0..MaxBatches]

Resting == [pc |-> "idle", todo |-> {}, chapter |-> NoChapter, locked_at |-> 0,
            files |-> 0, reads |-> 0, sent |-> 0]

BatchState == {"unused", "running", "done", "discarded"}

TypeOK == /\ chapter \in [Chapters -> Row]
          /\ \A c \in Chapters : chapter[c].locked_at <= clock /\ chapter[c].run <= clock
          /\ worker \in [Workers -> Hand]
          /\ batch \in [1..MaxBatches -> BatchState]
          /\ clock \in Nat
          /\ edits \in 0..MaxEdits
          /\ crashes \in 0..MaxCrashes

Init == /\ chapter = [c \in Chapters |-> NewRow]
        /\ worker = [w \in Workers |-> Resting]
        /\ batch = [b \in 1..MaxBatches |-> "unused"]
        /\ clock = 0
        /\ edits = 0
        /\ crashes = 0

-----------------------------------------------------------------------------
(* Teachers.  Each request locks the chapter's row for its transaction.    *)

NotProcessing(c) == chapter[c].status \notin {"reading", "processing", "deleted"}

\* _files_changed: pages, vectors and report go with the files they described.
FilesChanged(c, files, status) ==
    chapter' = [chapter EXCEPT ![c].status = status, ![c].files = files,
                               ![c].pages = 0, ![c].run = 0, ![c].vectors = "none"]

Upload(c) == /\ NotProcessing(c)
             /\ edits < MaxEdits
             /\ edits' = edits + 1
             /\ \E status \in {"queued", "uploaded"} : FilesChanged(c, edits + 1, status)
             /\ UNCHANGED <<worker, batch, clock, crashes>>

\* Deleting the last file empties the chapter; deleting another leaves a new edition.
DeleteFile(c) == /\ NotProcessing(c)
                 /\ chapter[c].files # 0
                 /\ edits < MaxEdits
                 /\ edits' = edits + 1
                 /\ \/ FilesChanged(c, 0, "empty")
                    \/ FilesChanged(c, edits + 1, "uploaded")
                 /\ UNCHANGED <<worker, batch, clock, crashes>>

Queue(c) == /\ NotProcessing(c)
            /\ chapter[c].status # "empty"
            /\ edits < MaxEdits
            /\ edits' = edits + 1
            /\ chapter' = [chapter EXCEPT ![c].status = "queued"]
            /\ UNCHANGED <<worker, batch, clock, crashes>>

Accept(c) == /\ chapter[c].status = "needs_review"
             /\ chapter' = [chapter EXCEPT ![c].status = "ready"]
             /\ UNCHANGED <<worker, batch, clock, edits, crashes>>

DeleteChapter(c) == /\ chapter[c].status # "deleted"
                    /\ chapter' = [chapter EXCEPT ![c] = [NewRow EXCEPT !.status = "deleted"]]
                    /\ UNCHANGED <<worker, batch, clock, edits, crashes>>

-----------------------------------------------------------------------------
(* One pass of a worker: list, then claim what was listed one by one.      *)

Ready(b) == b = 0 \/ batch[b] # "running"

\* What a worker turns to when it is done with a chapter.
Onward(w, c) == LET rest == worker[w].todo \ {c}
                IN [Resting EXCEPT !.pc = IF rest = {} THEN "idle" ELSE "pass", !.todo = rest]

\* finished_reading_chapters: rows in `reading` whose batches are all over.
ListFinished(w) ==
    /\ worker[w].pc = "idle"
    /\ worker' = [worker EXCEPT ![w].pc = "listing",
           ![w].todo = {c \in Chapters : /\ chapter[c].status = "reading"
                                         /\ Ready(chapter[c].read_batch)}]
    /\ UNCHANGED <<chapter, batch, clock, edits, crashes>>

Silent(c) == chapter[c].status = "processing" /\ chapter[c].overdue

\* pending_chapters, added to what the pass collects first.
ListPending(w) ==
    LET all == worker[w].todo \cup
               {c \in Chapters : chapter[c].status = "queued" \/ Silent(c)}
    IN /\ worker[w].pc = "listing"
       /\ worker' = [worker EXCEPT ![w].todo = all,
                                   ![w].pc = IF all = {} THEN "idle" ELSE "pass"]
       /\ UNCHANGED <<chapter, batch, clock, edits, crashes>>

\* Mutant: a chapter whose worker fell silent is not taken again.
ClaimableIfAsked(c) == chapter[c].status \in {"queued", "reading"}
Claimable(c) == chapter[c].status \in {"queued", "reading"} \/ Silent(c)
Exhausted(c) == chapter[c].status = "processing" /\ chapter[c].attempts >= MaxAttempts

\* _claim finds nothing to do: the row is gone, busy elsewhere or finished.
PassOver(w, c) == /\ worker[w].pc = "pass"
                  /\ c \in worker[w].todo
                  /\ ~Claimable(c)
                  /\ worker' = [worker EXCEPT ![w] = Onward(w, c)]
                  /\ UNCHANGED <<chapter, batch, clock, edits, crashes>>

\* _claim gives up on a chapter that fell silent too often.
GiveUp(w, c) == /\ worker[w].pc = "pass"
                /\ c \in worker[w].todo
                /\ Claimable(c)
                /\ Exhausted(c)
                /\ chapter' = [chapter EXCEPT ![c].status = "failed", ![c].locked_at = 0,
                                              ![c].overdue = FALSE]
                /\ worker' = [worker EXCEPT ![w] = Onward(w, c)]
                /\ UNCHANGED <<batch, clock, edits, crashes>>

\* _claim: collecting a batch is the same attempt that sent it.
Claim(w, c) ==
    /\ worker[w].pc = "pass"
    /\ c \in worker[w].todo
    /\ Claimable(c)
    /\ ~Exhausted(c)
    /\ chapter[c].files # 0
    /\ clock' = clock + 1
    /\ chapter' = [chapter EXCEPT ![c].status = "processing", ![c].locked_at = clock + 1,
           ![c].overdue = FALSE,
           ![c].attempts = IF chapter[c].status = "reading" THEN @ ELSE @ + 1]
    /\ worker' = [worker EXCEPT ![w].pc = "claimed", ![w].chapter = c,
           ![w].locked_at = clock + 1, ![w].files = chapter[c].files,
           ![w].reads = chapter[c].read_batch]
    /\ UNCHANGED <<batch, edits, crashes>>

\* Mutant: any claim of the chapter will do.
StillProcessing(w) == chapter[worker[w].chapter].status = "processing"
\* _still_ours
StillOurs(w) == LET mine == worker[w]
                IN /\ chapter[mine.chapter].status = "processing"
                   /\ chapter[mine.chapter].locked_at = mine.locked_at

\* Batches deleted at OpenAI: b = 0 names none.
Discard(bs) == batch' = [b \in 1..MaxBatches |-> IF b \in bs THEN "discarded" ELSE batch[b]]

Fresh(b) == b \in 1..MaxBatches /\ batch[b] = "unused" /\ \A a \in 1..(b - 1) : batch[a] # "unused"

\* The pages that need vision are sent as a batch ...
SubmitReads(w) == /\ worker[w].pc = "claimed"
                  /\ worker[w].reads = 0
                  /\ \E b \in 1..MaxBatches :
                        /\ Fresh(b)
                        /\ batch' = [batch EXCEPT ![b] = "running"]
                        /\ worker' = [worker EXCEPT ![w].pc = "submitted", ![w].sent = b]
                  /\ UNCHANGED <<chapter, clock, edits, crashes>>

\* ... and _park releases the claim with the batch on the row.
Park(w) == LET c == worker[w].chapter IN
    /\ worker[w].pc = "submitted"
    /\ IF StillOurs(w)
       THEN /\ chapter' = [chapter EXCEPT ![c].status = "reading", ![c].locked_at = 0,
                                          ![c].overdue = FALSE,
                                          ![c].read_batch = worker[w].sent]
            /\ UNCHANGED batch
       ELSE /\ Discard({worker[w].sent})
            /\ UNCHANGED chapter
    /\ worker' = [worker EXCEPT ![w] = Onward(w, c)]
    /\ UNCHANGED <<clock, edits, crashes>>

\* run_pipeline, with the vectors computed at once or left to a batch.
Read(w) == /\ worker[w].pc = "claimed"
           /\ \/ /\ worker' = [worker EXCEPT ![w].pc = "read"]
                 /\ UNCHANGED batch
              \/ \E b \in 1..MaxBatches :
                    /\ Fresh(b)
                    /\ batch' = [batch EXCEPT ![b] = "running"]
                    /\ worker' = [worker EXCEPT ![w].pc = "read", ![w].sent = b]
           /\ UNCHANGED <<chapter, clock, edits, crashes>>

\* _save: the run replaces the chapter's pages and chunks, if the claim still stands.
Save(w) ==
    LET mine == worker[w]
        c == mine.chapter
    IN /\ mine.pc = "read"
       /\ IF StillOurs(w)
          THEN /\ \E status \in {"ready", "needs_review"} :
                     chapter' = [chapter EXCEPT ![c].status = status,
                         ![c].pages = mine.files, ![c].run = mine.locked_at,
                         ![c].vectors = IF mine.sent = 0 THEN "stored" ELSE "waiting",
                         ![c].locked_at = 0, ![c].overdue = FALSE, ![c].read_batch = 0,
                         ![c].embed_batch = mine.sent]
               /\ Discard({mine.reads, chapter[c].embed_batch})
          ELSE /\ Discard({mine.sent})
               /\ UNCHANGED chapter
       /\ worker' = [worker EXCEPT ![w] = Onward(w, c)]
       /\ UNCHANGED <<clock, edits, crashes>>

\* Any exception of the run: _fail, if the claim still stands.
Fail(w) ==
    LET mine == worker[w]
        c == mine.chapter
    IN /\ mine.pc \in {"claimed", "read"}
       /\ IF StillOurs(w)
          THEN /\ chapter' = [chapter EXCEPT ![c].status = "failed", ![c].locked_at = 0,
                                             ![c].overdue = FALSE, ![c].read_batch = 0]
               /\ Discard({mine.sent, mine.reads})
          ELSE /\ Discard({mine.sent})
               /\ UNCHANGED chapter
       /\ worker' = [worker EXCEPT ![w] = Onward(w, c)]
       /\ UNCHANGED <<clock, edits, crashes>>

-----------------------------------------------------------------------------
(* Embedding batches are collected without a claim.                        *)

\* Mutant: only chapters that passed their checks are looked at.
CollectReady(w, c) ==
    /\ worker[w].pc = "idle"
    /\ chapter[c].status = "ready"
    /\ chapter[c].embed_batch # 0
    /\ Ready(chapter[c].embed_batch)
    /\ worker' = [worker EXCEPT ![w].pc = "embedding", ![w].chapter = c,
                     ![w].sent = chapter[c].embed_batch, ![w].locked_at = chapter[c].run]
    /\ UNCHANGED <<chapter, batch, clock, edits, crashes>>

\* collect_embeddings finds a finished batch; _fill_embeddings reads the waiting chunks.
CollectVectors(w, c) ==
    /\ worker[w].pc = "idle"
    /\ chapter[c].embed_batch # 0
    /\ Ready(chapter[c].embed_batch)
    /\ worker' = [worker EXCEPT ![w].pc = "embedding", ![w].chapter = c,
                     ![w].sent = chapter[c].embed_batch, ![w].locked_at = chapter[c].run]
    /\ UNCHANGED <<chapter, batch, clock, edits, crashes>>

\* The vectors are written only if the row still waits on these batches; a chunk
\* replaced meanwhile is gone.
StoreVectors(w) ==
    LET mine == worker[w]
        c == mine.chapter
    IN /\ mine.pc = "embedding"
       /\ IF chapter[c].embed_batch = mine.sent
          THEN /\ chapter' = [chapter EXCEPT ![c].embed_batch = 0,
                      ![c].vectors = IF chapter[c].run = mine.locked_at /\ @ = "waiting"
                                     THEN "stored" ELSE @]
               /\ Discard({mine.sent})
          ELSE UNCHANGED <<chapter, batch>>
       /\ worker' = [worker EXCEPT ![w] = Resting]
       /\ UNCHANGED <<clock, edits, crashes>>

-----------------------------------------------------------------------------
(* Time, failures and OpenAI.                                              *)

\* STALE_AFTER passes with the chapter still claimed: its worker died, or is slow.
Overdue(c) == /\ chapter[c].status = "processing"
              /\ ~chapter[c].overdue
              /\ chapter' = [chapter EXCEPT ![c].overdue = TRUE]
              /\ UNCHANGED <<worker, batch, clock, edits, crashes>>

Crash(w) == /\ worker[w].pc # "idle"
            /\ crashes < MaxCrashes
            /\ crashes' = crashes + 1
            /\ worker' = [worker EXCEPT ![w] = Resting]
            /\ UNCHANGED <<chapter, batch, clock, edits>>

\* A batch finishes, fails or expires: each ends the wait for it.
BatchEnds(b) == /\ batch[b] = "running"
                /\ batch' = [batch EXCEPT ![b] = "done"]
                /\ UNCHANGED <<chapter, worker, clock, edits, crashes>>

Teach(c) == Upload(c) \/ DeleteFile(c) \/ Queue(c) \/ Accept(c) \/ DeleteChapter(c)

Work(w) == \/ ListFinished(w) \/ ListPending(w)
           \/ \E c \in Chapters : PassOver(w, c) \/ GiveUp(w, c) \/ Claim(w, c)
           \/ SubmitReads(w) \/ Park(w) \/ Read(w) \/ Save(w) \/ Fail(w)
           \/ \E c \in Chapters : CollectVectors(w, c)
           \/ StoreVectors(w)

Next == \/ \E c \in Chapters : Teach(c) \/ Overdue(c)
        \/ \E w \in Workers : Work(w) \/ Crash(w)
        \/ \E b \in 1..MaxBatches : BatchEnds(b)

Spec == Init /\ [][Next]_vars

\* process-books keeps polling in every worker, every pass starts by collecting vectors,
\* time passes, and a batch is answered or expires within a day.
FairSpec == /\ Spec
            /\ \A w \in Workers : WF_vars(Work(w))
            /\ \A w \in Workers, c \in Chapters : SF_vars(CollectVectors(w, c))
            /\ \A c \in Chapters : WF_vars(Overdue(c))
            /\ \A b \in 1..MaxBatches : WF_vars(BatchEnds(b))

-----------------------------------------------------------------------------
(* Properties                                                              *)

\* Indexed text describes the files that are uploaded now, never an earlier upload,
\* whichever worker saved it and however late (service.py, "Any change to a chapter's
\* files DROPS its pages and vectors at once").
IndexedTextIsCurrent == \A c \in Chapters : chapter[c].pages \in {0, chapter[c].files}

\* A chapter that was queued, handed to a batch or claimed comes to rest, although
\* workers die and answers are late (jobs.py, "A worker that dies mid-run leaves the
\* row `processing`").
RunsEnd == \A c \in Chapters :
              (chapter[c].status \in Busy) ~> (chapter[c].status \notin Busy)

\* Chunks left to an embedding batch get their vectors or are replaced.
VectorsArrive == \A c \in Chapters :
                    (chapter[c].vectors = "waiting") ~> (chapter[c].vectors # "waiting")

\* The rows keep the promise of ClaimedWork: a result is left by the claim that holds
\* the chapter now, and an older claim never replaces it.
phaseOf(c) == CASE chapter[c].status \in Idle -> "free"
                [] chapter[c].status \in {"queued", "reading"} -> "waiting"
                [] chapter[c].status = "processing" -> "held"
                [] chapter[c].status = "deleted" -> "gone"

ChapterClaims == INSTANCE ClaimedWork WITH
    Jobs <- Chapters,
    phase <- [c \in Chapters |-> phaseOf(c)],
    holder <- [c \in Chapters |-> chapter[c].locked_at],
    result <- [c \in Chapters |-> chapter[c].run],
    taken <- clock

LastClaimWins == ChapterClaims!CSpec
=============================================================================
