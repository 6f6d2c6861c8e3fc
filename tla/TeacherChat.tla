---------------------------- MODULE TeacherChat -----------------------------
(***************************************************************************)
(* A teacher's WhatsApp conversation (diary_agent and attendance_agent,    *)
(* conversation.py).  A list of absent students starts a register, a photo *)
(* a diary; the agent shows what it understood, the teacher corrects it,   *)
(* cancels it or answers OK, and OK submits the register or queues the     *)
(* diary.  Every message is handled by a background task of its own, in    *)
(* several short transactions with calls of a language model between.  The *)
(* teacher may mark and post, and has one class.                           *)
(***************************************************************************)
EXTENDS Registers, Sequences, FiniteSetsExt

CONSTANTS Handlers,      \* background tasks
          MaxMails,      \* bound: messages the teacher sends
          MaxDrafts,     \* bound: drafts
          MaxMishaps     \* bound: repeated deliveries, losses, waits, web requests

ASSUME ChatConstants ==
    /\ "nothing" \notin Students
    /\ {MaxRegisters, MaxMails, MaxDrafts, MaxMishaps} \subseteq Nat

VARIABLES draft,         \* attendance_chat_drafts and diary_drafts, in the order created
          clock,         \* updated_at of the draft that changed last
          mail,          \* the messages the teacher sent, by what they say
          task,          \* what each handler has in hand
          mishaps        \* bound

chatVars == <<registerVars, draft, clock, mail, task, mishaps>>

Words == {"list", "photo", "class", "change", "ok", "cancel"}

Texts == SUBSET Students           \* what a list says; of a diary, which text it is
NoText == Students \cup {"nothing"}

\* age: how long it has not changed -- "stale" for a reading that must have been lost,
\* "lapsed" after DIARY_DRAFT_TTL_MINUTES.  shown: history, the last preview the teacher
\* got of it.  excused: history, messages about it were handled at one time, or a preview
\* was lost.
Draft == [kind: {"register", "diary"}, mail: 1..MaxMails, at: Nat,
          age: {"fresh", "stale", "lapsed"},
          status: {"reading", "needs_class", "awaiting", "done", "cancelled", "failed"},
          text: Texts \cup {NoText}, shown: Texts \cup {NoText}, excused: BOOLEAN]
OpenStatuses == {"reading", "needs_class", "awaiting"}

\* diary: when the open diary last changed, 0 without one.  n: the draft in hand.  text:
\* the draft's as it was read, or the one to show.  read: the register to be submitted.
\* alone: history, no other task ran since it began.
Task == [pc: {"idle", "offered", "list", "answer", "submit", "submitting", "revise",
              "text", "photo", "reading", "post", "correct", "reply"},
         mail: 0..MaxMails, diary: Nat, n: 0..MaxDrafts, text: Texts \cup {NoText},
         read: Register, alone: BOOLEAN]
NoTask == [pc |-> "idle", mail |-> 0, diary |-> 0, n |-> 0, text |-> NoText,
           read |-> NoRegister, alone |-> TRUE]

ChatTypeOK == /\ RegistersTypeOK
              /\ draft \in Seq(Draft) /\ Len(draft) <= MaxDrafts
              /\ \A n \in DOMAIN draft :
                    draft[n].status \in {"needs_class", "awaiting", "done"} =>
                        draft[n].text # NoText
              /\ clock \in Nat
              /\ mail \in Seq(Words) /\ Len(mail) <= MaxMails
              /\ task \in [Handlers -> Task]
              /\ mishaps \in 0..MaxMishaps

ChatInit == /\ RegistersInit
            /\ draft = <<>>
            /\ clock = 0
            /\ mail = <<>>
            /\ task = [h \in Handlers |-> NoTask]
            /\ mishaps = 0

-----------------------------------------------------------------------------
(* Drafts and tasks.                                                       *)

IsOpen(d, kind) == d.kind = kind /\ d.status \in OpenStatuses

\* open_for: the newest one still in conversation, 0 without one.
OpenFor(kind) == Max({0} \cup {n \in DOMAIN draft : /\ IsOpen(draft[n], kind)
                                                     /\ draft[n].age # "lapsed"})

\* _submit keeps the row lock while it writes the register.
Unlocked(n) == \A h \in Handlers : task[h].pc = "submitting" => task[h].n # n

\* _diary_open_at.
DiaryOpenAt == IF OpenFor("diary") = 0 THEN 0 ELSE draft[OpenFor("diary")].at

Word(h) == mail[task[h].mail]
Ends(h) == task' = [task EXCEPT ![h] = NoTask]
Goes(h, pc) == task' = [task EXCEPT ![h].pc = pc]
Shows(h, n, text) == task' = [task EXCEPT ![h].pc = "reply", ![h].n = n, ![h].text = text]

\* When a draft last changed matters while it is open.
Changed(d, h, status, text) ==
    [d EXCEPT !.status = status, !.text = text, !.age = "fresh",
              !.at = IF status \in OpenStatuses THEN clock + 1 ELSE 0,
              !.excused = @ \/ ~task[h].alone]

Sets(h, n, status, text) == /\ draft' = [draft EXCEPT ![n] = Changed(@, h, status, text)]
                            /\ clock' = clock + 1

Started(h, kind, status, text) ==
    [kind |-> kind, mail |-> task[h].mail, at |-> clock + 1, age |-> "fresh",
     status |-> status, text |-> text, shown |-> NoText, excused |-> ~task[h].alone]

\* cancel_open: what was not confirmed is replaced.
CancelOpen(h, kind) == [n \in DOMAIN draft |-> IF IsOpen(draft[n], kind)
                                               THEN Changed(draft[n], h, "cancelled", draft[n].text)
                                               ELSE draft[n]]
Unlocks(kind) == \A n \in DOMAIN draft : IsOpen(draft[n], kind) => Unlocked(n)

\* by_inbound_id, and the unique constraint on it.
Known(h, kind) == \E n \in DOMAIN draft : draft[n].kind = kind /\ draft[n].mail = task[h].mail

Quiet == UNCHANGED <<draft, clock>>
Aside == UNCHANGED <<registerVars, mail, mishaps>>
Mishap == mishaps < MaxMishaps /\ mishaps' = mishaps + 1

-----------------------------------------------------------------------------
(* A message arrives, once or again.                                       *)

\* _handle: identifies the sender and reads when an unfinished diary last changed.
Takes(h, i, word) ==
    /\ task[h].pc = "idle"
    /\ task' = [k \in Handlers |->
                  IF k = h
                  THEN [NoTask EXCEPT !.pc = IF word = "photo" THEN "photo" ELSE "offered",
                                      !.mail = i, !.diary = DiaryOpenAt,
                                      !.alone = \A j \in Handlers : task[j].pc = "idle"]
                  ELSE [task[k] EXCEPT !.alone = @ /\ task[k].pc = "idle"]]
    /\ UNCHANGED <<registerVars, draft, clock>>

Sends(h, word) == /\ Len(mail) < MaxMails
                  /\ mail' = Append(mail, word)
                  /\ Takes(h, Len(mail) + 1, word)
                  /\ UNCHANGED mishaps

Redelivers(h, i) == Mishap /\ Takes(h, i, mail[i]) /\ UNCHANGED mail

-----------------------------------------------------------------------------
(* A register by message (attendance_agent).                               *)

\* handle: about attendance when it looks like a list, or when the newest register waits
\* for an answer and no diary changed after it.
Answering(h, n) == n # 0 /\ (task[h].diary = 0 \/ draft[n].at >= task[h].diary)

Offered(h) ==
    LET n == OpenFor("register") IN
    /\ task[h].pc = "offered"
    /\ n # 0 => Unlocked(n)
    /\ IF Known(h, "register")
       THEN Ends(h)
       ELSE task' = [task EXCEPT ![h].n = n,
                                 ![h].text = IF n = 0 THEN NoText ELSE draft[n].text,
                                 ![h].pc = CASE Word(h) = "list" -> "list"
                                             [] Word(h) # "list" /\ Answering(h, n) -> "answer"
                                             [] OTHER -> "text"]
    /\ Quiet /\ Aside

\* _resolve: matches the list to the roster, or fails the draft.
Resolves(text) == IF register.state = "submitted"
                  THEN {<<"failed", text>>}
                  ELSE {<<"failed", text>>, <<"awaiting", text>>}

\* What a message about the class comes to: a preview, a question for the class, a refusal.
Readings == UNION {Resolves(t) \cup {<<"needs_class", t>>} : t \in Texts}

\* The answer to the teacher; only a preview is one they can confirm.
Answers(h, n, status, text) == IF status = "awaiting" THEN Shows(h, n, text) ELSE Ends(h)

\* _register: the list is not understood, or not one after all.
NotAList(h) == /\ task[h].pc = "list"
               /\ Ends(h) \/ Goes(h, "text")
               /\ Quiet /\ Aside

\* _register: what was open is cancelled, also when a concurrent delivery of the message
\* made the draft already.
NewRegister(h) ==
    /\ task[h].pc = "list"
    /\ Unlocks("register")
    /\ IF Known(h, "register")
       THEN draft' = CancelOpen(h, "register") /\ clock' = clock /\ Ends(h)
       ELSE /\ Len(draft) < MaxDrafts
            /\ \E r \in Readings :
                  /\ draft' = Append(CancelOpen(h, "register"), Started(h, "register", r[1], r[2]))
                  /\ Answers(h, Len(draft) + 1, r[1], r[2])
            /\ clock' = clock + 1
    /\ Aside

\* _answer: locks the draft it had found and looks again.
Answer(h) ==
    LET n == task[h].n IN
    /\ task[h].pc = "answer"
    /\ Unlocked(n)
    /\ \/ draft[n].status \notin {"needs_class", "awaiting"} /\ Ends(h) /\ Quiet
       \/ /\ draft[n].status \in {"needs_class", "awaiting"}
          /\ \/ /\ Word(h) = "cancel"
                /\ Sets(h, n, "cancelled", draft[n].text)
                /\ Ends(h)
             \/ /\ Word(h) # "cancel"
                /\ draft[n].status = "needs_class" \/ Word(h) = "class"
                /\ \/ Ends(h) /\ Quiet
                   \/ \E r \in Resolves(task[h].text) :
                         Sets(h, n, r[1], r[2]) /\ Answers(h, n, r[1], r[2])
             \/ /\ draft[n].status = "awaiting" /\ Word(h) \notin {"cancel", "class"}
                /\ Goes(h, IF Word(h) = "ok" THEN "submit" ELSE "revise")
                /\ Quiet
    /\ Aside

\* _revise: the model could not apply it, or the whole new list.
Revise(h) ==
    LET n == task[h].n IN
    /\ task[h].pc = "revise"
    /\ \/ Ends(h) /\ Quiet
       \/ /\ Unlocked(n) /\ draft[n].status = "awaiting"
          /\ \E r \in Readings : Sets(h, n, r[1], r[2]) /\ Answers(h, n, r[1], r[2])
    /\ Aside

\* _submit: locks the draft, looks again, and opens the register; a refusal fails the draft.
Submit(h) ==
    LET n == task[h].n IN
    /\ task[h].pc = "submit"
    /\ Unlocked(n)
    /\ \/ draft[n].status # "awaiting" /\ Ends(h) /\ Quiet
       \/ draft[n].status = "awaiting" /\ Sets(h, n, "failed", draft[n].text) /\ Ends(h)
       \/ /\ draft[n].status = "awaiting" /\ ~late /\ register.state # "submitted"
          /\ register.state = "none" => register.id < MaxRegisters
          /\ task' = [task EXCEPT ![h].pc = "submitting", ![h].read = register]
          /\ Quiet
    /\ Aside

\* mutant: only the students of the list are marked
WritesNamed(g, read, text) ==
    LET base == IF read.state = "none" THEN Opened(g) ELSE read
        now == IF read.state = "none" THEN base ELSE g
        wanted == base.absent \cup text
    IN  Submitted(Marked(now, base, wanted), [base EXCEPT !.absent = wanted])

\* What open, mark and submit make of the register: the message is the whole of it.
WritesRegister(g, read, text) ==
    LET base == IF read.state = "none" THEN Opened(g) ELSE read
        now == IF read.state = "none" THEN base ELSE g
    IN  Submitted(Marked(now, base, text), [base EXCEPT !.absent = text])

\* A register opened, or deleted, meanwhile refuses the write, and the task is lost.
Clashes(read) == \/ register.id # read.id
                 \/ (register.state = "none") # (read.state = "none")

Confirmed(h) ==
    LET n == task[h].n
        read == task[h].read
    IN  /\ task[h].pc = "submitting"
        /\ IF Clashes(read)
           THEN Quiet /\ UNCHANGED register
           ELSE /\ register' = WritesRegister(register, read, draft[n].text)
                /\ Sets(h, n, "done", draft[n].text)
        /\ Ends(h)
        /\ UNCHANGED <<office, late, mail, mishaps>>

-----------------------------------------------------------------------------
(* A diary by message (diary_agent).                                       *)

\* _photo: a newer photo replaces the open diary.  Two deliveries of one photo may both
\* find it new; the second replaces what was open and then finds the draft made.
Photo(h) ==
    /\ task[h].pc = "photo"
    /\ \/ Ends(h) /\ Quiet
       \/ /\ ~Known(h, "diary") /\ Len(draft) < MaxDrafts
          /\ draft' = Append(CancelOpen(h, "diary"), Started(h, "diary", "reading", NoText))
          /\ clock' = clock + 1
          /\ task' = [task EXCEPT ![h].pc = "reading", ![h].n = Len(draft) + 1]
       \/ /\ Known(h, "diary")
          /\ \E k \in Handlers \ {h} : task[k].pc = "reading" /\ task[k].mail = task[h].mail
          /\ draft' = CancelOpen(h, "diary") /\ clock' = clock
          /\ Ends(h)
    /\ Aside

\* _text: a message for the open diary, if there is one.
Text(h) ==
    LET n == OpenFor("diary") IN
    /\ task[h].pc = "text"
    /\ \/ /\ n # 0 => draft[n].status = "reading" /\ draft[n].age = "fresh"
          /\ Ends(h) /\ Quiet
       \/ /\ n # 0 /\ draft[n].status = "reading" /\ draft[n].age = "stale"
          /\ Sets(h, n, "failed", draft[n].text) /\ Ends(h)
       \/ /\ n # 0 /\ draft[n].status # "reading"
          /\ \/ /\ Word(h) = "cancel"
                /\ Sets(h, n, "cancelled", draft[n].text) /\ Ends(h)
             \/ /\ Word(h) # "cancel"
                /\ draft[n].status = "needs_class" \/ Word(h) = "class"
                /\ \/ Ends(h) /\ Quiet
                   \/ Sets(h, n, "awaiting", draft[n].text) /\ Shows(h, n, draft[n].text)
             \/ /\ draft[n].status = "awaiting" /\ Word(h) \notin {"cancel", "class"}
                /\ task' = [task EXCEPT ![h].pc = IF Word(h) = "ok" THEN "post" ELSE "correct",
                                        ![h].n = n, ![h].text = draft[n].text]
                /\ Quiet
    /\ Aside

\* mutant: the preview is rendered before the reading is stored
ApplyShowsOld(h) ==
    LET n == task[h].n IN
    /\ task[h].pc \in {"reading", "correct"}
    /\ draft[n].status \in OpenStatuses
    /\ \E t \in Texts : Sets(h, n, "awaiting", t) /\ Shows(h, n, draft[n].text)
    /\ Aside

\* _apply: a reading, first or corrected, unless the diary was settled meanwhile.
Apply(h) ==
    LET n == task[h].n IN
    /\ task[h].pc \in {"reading", "correct"}
    /\ \/ /\ draft[n].status \notin OpenStatuses \/ task[h].pc = "correct"
          /\ Ends(h) /\ Quiet
       \/ /\ draft[n].status \in OpenStatuses
          /\ \/ Sets(h, n, "failed", draft[n].text) /\ Ends(h)
             \/ \E t \in Texts : \/ Sets(h, n, "needs_class", t) /\ Ends(h)
                                 \/ Sets(h, n, "awaiting", t) /\ Shows(h, n, t)
    /\ Aside

\* _post: queues the text they saw, if the group is still theirs.
Post(h) ==
    LET n == task[h].n IN
    /\ task[h].pc = "post"
    /\ \/ draft[n].status # "awaiting" /\ Quiet
       \/ draft[n].status = "awaiting" /\ Sets(h, n, "needs_class", draft[n].text)
       \/ draft[n].status = "awaiting" /\ Sets(h, n, "done", draft[n].text)
    /\ Ends(h)
    /\ Aside

-----------------------------------------------------------------------------
(* Replies, losses and time.                                               *)

Reply(h) == /\ task[h].pc = "reply"
            /\ draft' = [draft EXCEPT ![task[h].n].shown = task[h].text]
            /\ Ends(h)
            /\ UNCHANGED clock /\ Aside

\* The reply is not accepted, or the process stops: what was committed stays.
Lost(h) == /\ task[h].pc # "idle"
           /\ draft' = IF task[h].pc = "reply"
                       THEN [draft EXCEPT ![task[h].n].excused = TRUE] ELSE draft
           /\ Ends(h)
           /\ Mishap
           /\ UNCHANGED <<registerVars, clock, mail>>

Waits(n) == /\ draft[n].status \in OpenStatuses
            /\ draft[n].age # "lapsed"
            /\ draft' = [draft EXCEPT ![n].age = IF @ = "fresh" THEN "stale" ELSE "lapsed"]
            /\ Mishap
            /\ UNCHANGED <<registerVars, clock, mail, task>>

Web == /\ WebNext
       /\ IF late' # late \/ \E o \in Office : office'[o].pc # "idle"
          THEN Mishap ELSE UNCHANGED mishaps
       /\ UNCHANGED <<draft, clock, mail, task>>

ChatNext == \/ Web
            \/ \E n \in DOMAIN draft : Waits(n)
            \/ \E h \in Handlers :
                  \/ Offered(h) \/ NotAList(h) \/ NewRegister(h) \/ Answer(h) \/ Revise(h)
                  \/ Submit(h) \/ Confirmed(h)
                  \/ Photo(h) \/ Text(h) \/ Apply(h) \/ Post(h)
                  \/ Reply(h) \/ Lost(h)
                  \/ \E word \in Words : Sends(h, word)
                  \/ \E i \in DOMAIN mail : Redelivers(h, i)

ChatSpec == ChatInit /\ [][ChatNext]_chatVars

-----------------------------------------------------------------------------
(* Properties                                                              *)

\* What an OK submits or posts is the text the teacher was last shown of that draft
\* (_submit, "exactly as previewed -- or none of it"; _post, "exactly the text they saw"),
\* unless messages were handled at one time or a preview was lost.
SettledAsShown ==
    \A n \in DOMAIN draft :
        draft[n].status = "done" /\ ~draft[n].excused => draft[n].text = draft[n].shown

\* A confirmed list is the whole register: what somebody had marked on the web stays only
\* if it was marked while the register was being written (_write_register).
RegisterIsTheList ==
    [][\A n \in DOMAIN draft :
          /\ draft[n].kind = "register" /\ draft[n].status # "done"
          /\ draft'[n].status = "done"
          => /\ register'.state = "submitted"
             /\ register'.overlap \/ register'.absent = draft[n].text]_chatVars

\* A submitted register changes by the hand of somebody who may amend and had seen it
\* submitted, and is not deleted, however messages and requests follow each other; a
\* request that overlapped another is recorded as such (attendance/service.py, rules 2, 3).
AmendedNotOverwritten ==
    [][register.state = "submitted" /\ register' # register
       => \/ register'.overlap
          \/ \E o \in Office : /\ office[o].amend /\ office[o].read.state = "submitted"
                               /\ office'[o].pc = "idle" /\ register'.state # "none"]_chatVars
=============================================================================
