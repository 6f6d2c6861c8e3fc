----------------------------- MODULE TestPapers -----------------------------
(***************************************************************************)
(* Test papers, the question bank and the workers that write the papers    *)
(* (modules/papers/service.py, jobs.py).  A paper is queued by a teacher,  *)
(* claimed by a worker, written from its chapters' text by models, and     *)
(* saved only if the claim still stands.  A finished paper's questions can *)
(* be edited, moved and replaced; a question may sit on several papers.    *)
(***************************************************************************)
EXTENDS PaperPlan

CONSTANTS Papers,        \* the papers of one class
          Teachers,      \* requests that edit a question
          Workers,       \* processes running process-books
          NoPaper,       \* a worker or an editor between papers
          PaperSlots,    \* the slots each paper asks for
          Answers,       \* what the models may answer: sequences of drafts
          MaxAttempts,   \* MAX_ATTEMPTS: claims before a silent paper is failed
          MaxQuestions,  \* bound: questions in the bank
          MaxEdits,      \* bound: requests of teachers
          MaxCrashes     \* bound: workers that die in mid-run

\* plan_slots lays the slots out by type.
ASSUME PaperConstants ==
    /\ NoPaper \notin Papers
    /\ PaperSlots \in Seq([type: Types, level: Levels])
    /\ \A i, j \in DOMAIN PaperSlots :
          i < j => Rank(PaperSlots[i].type) <= Rank(PaperSlots[j].type)
    /\ MaxAttempts \in Nat \ {0}
    /\ {MaxQuestions, MaxEdits, MaxCrashes} \subseteq Nat

VARIABLES paper,         \* the rows of papers
          place,         \* the rows of paper_questions of each paper
          bank,          \* the rows of questions, in the order they were written
          readable,      \* papers whose chapters have text (kept by the book worker)
          worker,        \* what each worker knows and is doing
          editor,        \* requests between reading a question's use and editing it
          clock,         \* the latest claim stamp
          edits,         \* requests so far (bound)
          crashes        \* workers that died so far (bound)

papersVars == <<paper, place, bank, readable, worker, editor, clock, edits, crashes>>

Status == {"none", "queued", "generating", "ready", "needs_review", "failed", "deleted"}
Busy == {"queued", "generating"}
Settled == {"ready", "needs_review", "failed"}

\* run: the claim whose questions are on the paper, 0 for none (a history).
Paper == [status: Status, attempts: Nat, locked_at: Nat, overdue: BOOLEAN, run: Nat]
Question == [kind: 1..Len(TypeOrder), edition: Nat]
Place == [question: 1..MaxQuestions, position: 1..MaxQuestions]
Hand == [pc: {"idle", "picked", "refused", "claimed", "written"}, paper: Papers \cup {NoPaper},
         locked_at: Nat, kinds: Seq(1..Len(TypeOrder)), complete: BOOLEAN]
Edit == [paper: Papers \cup {NoPaper}, question: 0..MaxQuestions, shared: BOOLEAN]

Resting == [pc |-> "idle", paper |-> NoPaper, locked_at |-> 0, kinds |-> <<>>,
            complete |-> FALSE]
NoEdit == [paper |-> NoPaper, question |-> 0, shared |-> FALSE]
NewPaper == [status |-> "queued", attempts |-> 0, locked_at |-> 0, overdue |-> FALSE, run |-> 0]

PapersTypeOK == /\ paper \in [Papers -> Paper]
                /\ place \in [Papers -> SUBSET Place]
                /\ bank \in Seq(Question)
                /\ readable \subseteq Papers
                /\ worker \in [Workers -> Hand]
                /\ editor \in [Teachers -> Edit]
                /\ clock \in Nat
                /\ edits \in 0..MaxEdits
                /\ crashes \in 0..MaxCrashes

PapersInit == /\ paper = [p \in Papers |-> [NewPaper EXCEPT !.status = "none"]]
              /\ place = [p \in Papers |-> {}]
              /\ bank = <<>>
              /\ readable = Papers
              /\ worker = [w \in Workers |-> Resting]
              /\ editor = [t \in Teachers |-> NoEdit]
              /\ clock = 0
              /\ edits = 0
              /\ crashes = 0

-----------------------------------------------------------------------------
(* Teachers.                                                               *)

\* papers.for_update: an edit in progress holds the row.
Locked(p) == \E t \in Teachers : editor[t].paper = p

Asked == edits < MaxEdits /\ edits' = edits + 1

\* create: the chosen chapters must have been read.
Create(p) == /\ paper[p].status = "none"
             /\ p \in readable
             /\ Asked
             /\ paper' = [paper EXCEPT ![p] = NewPaper]
             /\ UNCHANGED <<place, bank, readable, worker, editor, clock, crashes>>

\* _editable
Editable(p) == paper[p].status \in Settled /\ ~Locked(p)

Regenerate(p) == /\ Editable(p)
                 /\ Asked
                 /\ paper' = [paper EXCEPT ![p] = NewPaper]
                 /\ place' = [place EXCEPT ![p] = {}]
                 /\ UNCHANGED <<bank, readable, worker, editor, clock, crashes>>

\* delete, allowed while the paper is busy.
Delete(p) == /\ paper[p].status \in Busy \cup Settled
             /\ ~Locked(p)
             /\ paper' = [paper EXCEPT ![p] = [NewPaper EXCEPT !.status = "deleted"]]
             /\ place' = [place EXCEPT ![p] = {}]
             /\ UNCHANGED <<bank, readable, worker, editor, clock, edits, crashes>>

\* close_gap and make_room: the places from `at` on, moved by one.
MovedBy(by, places, at) ==
    {IF e.position >= at THEN [e EXCEPT !.position = @ + by] ELSE e : e \in places}

RemoveEntry(p) == /\ Editable(p)
                  /\ Asked
                  /\ \E e \in place[p] :
                        place' = [place EXCEPT ![p] = MovedBy(0 - 1, @ \ {e}, e.position)]
                  /\ UNCHANGED <<paper, bank, readable, worker, editor, clock, crashes>>

\* Mutant: at the end of the paper.
PaperEnd(p, kind) == 1 + Cardinality(place[p])
\* add_entry: at the end of the question's section.
SectionEnd(p, kind) ==
    1 + Max({0} \cup {e.position : e \in {x \in place[p] : bank[x.question].kind <= kind}})

AddEntry(p) ==
    /\ Editable(p)
    /\ Cardinality(place[p]) < MaxQuestions
    /\ \E q \in DOMAIN bank :
          LET at == SectionEnd(p, bank[q].kind)
          IN /\ \A e \in place[p] : e.question # q
             /\ place' = [place EXCEPT ![p] = MovedBy(1, @, at) \cup
                                              {[question |-> q, position |-> at]}]
    /\ UNCHANGED <<paper, bank, readable, worker, editor, clock, edits, crashes>>

\* replace_entry: one new question of the same type for this place.
ReplaceEntry(p) ==
    /\ Editable(p)
    /\ p \in readable
    /\ Asked
    /\ Len(bank) < MaxQuestions
    /\ \E e \in place[p] :
          /\ bank' = Append(bank, [kind |-> bank[e.question].kind, edition |-> 0])
          /\ place' = [place EXCEPT ![p] = (@ \ {e}) \cup
                          {[question |-> Len(bank) + 1, position |-> e.position]}]
    /\ UNCHANGED <<paper, readable, worker, editor, clock, crashes>>

\* edit_entry looks for other papers that use the question ...
LookUpUse(t, p) ==
    /\ editor[t] = NoEdit
    /\ Editable(p)
    /\ Asked
    /\ \E e \in place[p] :
          editor' = [editor EXCEPT ![t] =
              [paper |-> p, question |-> e.question,
               shared |-> \E o \in Papers \ {p} : \E x \in place[o] : x.question = e.question]]
    /\ UNCHANGED <<paper, place, bank, readable, worker, clock, crashes>>

\* ... and edits a copy, or the question itself when it found none.
WriteEdit(t) ==
    LET p == editor[t].paper
        q == editor[t].question
    IN /\ editor[t] # NoEdit
       /\ editor' = [editor EXCEPT ![t] = NoEdit]
       /\ IF editor[t].shared
          THEN /\ Len(bank) < MaxQuestions
               /\ bank' = Append(bank, [bank[q] EXCEPT !.edition = @ + 1])
               /\ place' = [place EXCEPT ![p] =
                     {IF e.question = q THEN [e EXCEPT !.question = Len(bank) + 1] ELSE e : e \in @}]
          ELSE /\ bank' = [bank EXCEPT ![q].edition = @ + 1]
               /\ UNCHANGED place
       /\ UNCHANGED <<paper, readable, worker, clock, edits, crashes>>

-----------------------------------------------------------------------------
(* Workers.                                                                *)

Silent(p) == paper[p].status = "generating" /\ paper[p].overdue

\* pending_papers; the papers of one pass are taken one at a time.
PickPending(w, p) == /\ worker[w].pc = "idle"
                     /\ paper[p].status = "queued" \/ Silent(p)
                     /\ worker' = [worker EXCEPT ![w].pc = "picked", ![w].paper = p]
                     /\ UNCHANGED <<paper, place, bank, readable, editor, clock, edits, crashes>>

\* Mutant: a paper whose worker fell silent is not taken again.
ClaimableIfQueued(p) == ~Locked(p) /\ paper[p].status = "queued"
Claimable(p) == ~Locked(p) /\ (paper[p].status = "queued" \/ Silent(p))
Exhausted(p) == paper[p].status = "generating" /\ paper[p].attempts >= MaxAttempts

\* _claim finds the row locked, gone or not to be claimed.
PassOver(w) == /\ worker[w].pc = "picked"
               /\ ~Claimable(worker[w].paper)
               /\ worker' = [worker EXCEPT ![w] = Resting]
               /\ UNCHANGED <<paper, place, bank, readable, editor, clock, edits, crashes>>

GiveUp(w) == LET p == worker[w].paper IN
    /\ worker[w].pc = "picked"
    /\ Claimable(p)
    /\ Exhausted(p)
    /\ paper' = [paper EXCEPT ![p].status = "failed", ![p].locked_at = 0, ![p].overdue = FALSE]
    /\ worker' = [worker EXCEPT ![w] = Resting]
    /\ UNCHANGED <<place, bank, readable, editor, clock, edits, crashes>>

\* build_source raises: the claim is rolled back with its attempt ...
ClaimRefused(w) == /\ worker[w].pc = "picked"
                   /\ Claimable(worker[w].paper)
                   /\ ~Exhausted(worker[w].paper)
                   /\ worker[w].paper \notin readable
                   /\ worker' = [worker EXCEPT ![w].pc = "refused"]
                   /\ UNCHANGED <<paper, place, bank, readable, editor, clock, edits, crashes>>

\* ... and _fail_unclaimed fails the paper if it is still queued.
FailUnclaimed(w) == LET p == worker[w].paper IN
    /\ worker[w].pc = "refused"
    /\ ~Locked(p)
    /\ paper' = IF paper[p].status = "queued"
                THEN [paper EXCEPT ![p].status = "failed"] ELSE paper
    /\ worker' = [worker EXCEPT ![w] = Resting]
    /\ UNCHANGED <<place, bank, readable, editor, clock, edits, crashes>>

Claim(w) == LET p == worker[w].paper IN
    /\ worker[w].pc = "picked"
    /\ Claimable(p)
    /\ ~Exhausted(p)
    /\ p \in readable
    /\ clock' = clock + 1
    /\ paper' = [paper EXCEPT ![p].status = "generating", ![p].locked_at = clock + 1,
                              ![p].overdue = FALSE, ![p].attempts = @ + 1]
    /\ worker' = [worker EXCEPT ![w].pc = "claimed", ![w].locked_at = clock + 1]
    /\ UNCHANGED <<place, bank, readable, editor, edits, crashes>>

\* generate, with no transaction open: the filled slots, in the order of the slots.
Write(w) ==
    /\ worker[w].pc = "claimed"
    /\ \E drafts \in Answers :
          LET chosen == Choose(PaperSlots, drafts, {})
              full == {i \in DOMAIN PaperSlots : chosen[i] # 0}
          IN \E filled \in [1..Cardinality(full) -> full] :
                /\ \A i, j \in DOMAIN filled : i < j => filled[i] < filled[j]
                /\ worker' = [worker EXCEPT ![w].pc = "written",
                       ![w].kinds = [i \in DOMAIN filled |-> Rank(PaperSlots[filled[i]].type)],
                       ![w].complete = Complete(PaperSlots, drafts, chosen)]
    /\ UNCHANGED <<paper, place, bank, readable, editor, clock, edits, crashes>>

\* _still_ours
StillOurs(w) == /\ paper[worker[w].paper].status = "generating"
                /\ paper[worker[w].paper].locked_at = worker[w].locked_at

\* _save: the paper's questions are the run's, in slot order.
Save(w) ==
    LET p == worker[w].paper
        kinds == worker[w].kinds
        n == Len(kinds)
        done(status) == [paper EXCEPT ![p].status = status, ![p].locked_at = 0,
                                      ![p].overdue = FALSE, ![p].run = worker[w].locked_at]
    IN /\ worker[w].pc = "written"
       /\ Len(bank) + n <= MaxQuestions
       /\ IF StillOurs(w)
          THEN /\ bank' = bank \o [i \in 1..n |-> [kind |-> kinds[i], edition |-> 0]]
               /\ place' = [place EXCEPT ![p] =
                               {[question |-> Len(bank) + i, position |-> i] : i \in 1..n}]
               /\ paper' = done(IF n = 0 THEN "failed"
                                ELSE IF worker[w].complete THEN "ready" ELSE "needs_review")
          ELSE UNCHANGED <<paper, place, bank>>
       /\ worker' = [worker EXCEPT ![w] = Resting]
       /\ UNCHANGED <<readable, editor, clock, edits, crashes>>

\* Any exception of the run: _fail, if the claim still stands.
Fail(w) == LET p == worker[w].paper IN
    /\ worker[w].pc \in {"claimed", "written"}
    /\ paper' = IF StillOurs(w)
                THEN [paper EXCEPT ![p].status = "failed", ![p].locked_at = 0, ![p].overdue = FALSE]
                ELSE paper
    /\ worker' = [worker EXCEPT ![w] = Resting]
    /\ UNCHANGED <<place, bank, readable, editor, clock, edits, crashes>>

-----------------------------------------------------------------------------
(* Time, failures, and the chapters beneath.                               *)

\* STALE_AFTER passes with the paper still claimed.
Overdue(p) == /\ paper[p].status = "generating"
              /\ ~paper[p].overdue
              /\ paper' = [paper EXCEPT ![p].overdue = TRUE]
              /\ UNCHANGED <<place, bank, readable, worker, editor, clock, edits, crashes>>

Crash(w) == /\ worker[w].pc # "idle"
            /\ crashes < MaxCrashes
            /\ crashes' = crashes + 1
            /\ worker' = [worker EXCEPT ![w] = Resting]
            /\ UNCHANGED <<paper, place, bank, readable, editor, clock, edits>>

\* The chapters' files change or go (BookChapters!FilesChanged), and are read again.
ChaptersChange(p) == /\ readable' = SymDiff(readable, {p})
                     /\ Asked
                     /\ UNCHANGED <<paper, place, bank, worker, editor, clock, crashes>>

Teach(p) == \/ Create(p) \/ Regenerate(p) \/ Delete(p) \/ RemoveEntry(p) \/ AddEntry(p)
            \/ ReplaceEntry(p) \/ \E t \in Teachers : LookUpUse(t, p)

Work(w) == \/ \E p \in Papers : PickPending(w, p)
           \/ PassOver(w) \/ GiveUp(w) \/ ClaimRefused(w) \/ FailUnclaimed(w) \/ Claim(w)
           \/ Write(w) \/ Save(w) \/ Fail(w)

PapersNext == \/ \E p \in Papers : Teach(p) \/ Overdue(p) \/ ChaptersChange(p)
              \/ \E t \in Teachers : WriteEdit(t)
              \/ \E w \in Workers : Work(w) \/ Crash(w)

PapersSpec == PapersInit /\ [][PapersNext]_papersVars

\* process-books keeps polling, a request in progress ends, and time passes.
FairPapersSpec == /\ PapersSpec
                  /\ \A w \in Workers : WF_papersVars(Work(w))
                  /\ \A t \in Teachers : WF_papersVars(WriteEdit(t))
                  /\ \A p \in Papers : WF_papersVars(Overdue(p))

-----------------------------------------------------------------------------
(* Properties.                                                             *)

\* A paper prints its questions once each, numbered without a gap, objective sections
\* before subjective ones, whatever was added, moved or replaced (PaperQuestion.position:
\* "1-based across the whole paper; objective sections come first").
PaperIsInOrder ==
    \A p \in Papers :
        /\ {e.position : e \in place[p]} = 1..Cardinality(place[p])
        /\ \A e, f \in place[p] :
              /\ e.question = f.question => e = f
              /\ e.position < f.position => bank[e.question].kind <= bank[f.question].kind

\* A paper that was asked for comes to rest although workers die, as long as its chapters
\* keep their text (jobs.py, "A run that dies is retried after `STALE_AFTER`, at most
\* `MAX_ATTEMPTS` times").
PapersEnd == \A p \in Papers :
                (paper[p].status \in Busy) ~> (paper[p].status \notin Busy \/ p \notin readable)
=============================================================================
