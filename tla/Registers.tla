----------------------------- MODULE Registers ------------------------------
(***************************************************************************)
(* One section's whole-day attendance register (modules/attendance):       *)
(* opened with everybody present, marked, submitted, then amended or       *)
(* reopened by the few who may amend.  A request reads the register in one *)
(* statement and writes it in a later one, with no lock between.           *)
(***************************************************************************)
EXTENDS Naturals, FiniteSets

CONSTANTS Students,      \* the roster of the section
          Office,        \* requests of the web application in flight
          MaxRegisters   \* bound: how often the register is opened anew

VARIABLES register,      \* the attendance_sessions row with its records
          office,        \* what each request has read
          late           \* the marking window of the day is over

registerVars == <<register, office, late>>

RegisterStates == {"none", "draft", "submitted"}

\* absent: the students whose record is not `present`.  overlap: history, a request that
\* wrote the register had read another state of it.
Register == [id: 0..MaxRegisters, state: RegisterStates, absent: SUBSET Students, overlap: BOOLEAN]
NoRegister == [id |-> 0, state |-> "none", absent |-> {}, overlap |-> FALSE]

\* read: the register it looked up.  wanted: the records as it means to leave them.
\* amend: the caller holds attendance:amend.
WebRequest == [pc: {"idle", "mark", "submit", "reopen", "discard"}, read: Register,
               wanted: SUBSET Students, amend: BOOLEAN]
NoWebRequest == [pc |-> "idle", read |-> NoRegister, wanted |-> {}, amend |-> FALSE]

RegistersTypeOK == /\ register \in Register
                   /\ office \in [Office -> WebRequest]
                   /\ late \in BOOLEAN

RegistersInit == /\ register = NoRegister
                 /\ office = [o \in Office |-> NoWebRequest]
                 /\ late = FALSE

-----------------------------------------------------------------------------
(* What one transaction makes of the register g, given what it read.       *)

\* open_session: the register that is there, or a new one with everybody present.
Opened(g) == IF g.state = "none"
             THEN [NoRegister EXCEPT !.id = g.id + 1, !.state = "draft"]
             ELSE g

Overlaps(g, read) == g.state # read.state \/ g.absent # read.absent

\* mark: writes the lines that differ from the ones it read, and leaves the status alone.
Marked(g, read, wanted) ==
    [g EXCEPT !.absent = (g.absent \ (read.absent \ wanted)) \cup (wanted \ read.absent),
              !.overlap = @ \/ Overlaps(g, read)]

\* submit: asserts the records it has read.
Submitted(g, read) == [g EXCEPT !.state = "submitted", !.overlap = @ \/ Overlaps(g, read)]

Unsubmitted(g) == [g EXCEPT !.state = "draft", !.overlap = FALSE]

\* discard: a hard delete of the row and its lines.
Discarded(g, read) == [NoRegister EXCEPT !.id = g.id, !.overlap = Overlaps(g, read)]

-----------------------------------------------------------------------------
(* The web application.                                                    *)

Open(amend) == /\ late => amend
               /\ register.id < MaxRegisters
               /\ register' = Opened(register)
               /\ UNCHANGED <<office, late>>

\* The window closes a register to attendance:mark; so does its submission.
MayWrite(amend) == late => amend

\* mutant: only the window closes it
MayMarkInTime(amend) == MayWrite(amend)

MayMark(amend) == late \/ register.state = "submitted" => amend

LooksUp(o, pc, wanted, amend) ==
    /\ office[o].pc = "idle"
    /\ register.state # "none"
    /\ office' = [office EXCEPT ![o] =
                     [pc |-> pc, read |-> register, wanted |-> wanted, amend |-> amend]]
    /\ UNCHANGED <<register, late>>

MarkReads(o, amend, wanted) == MayMark(amend) /\ LooksUp(o, "mark", wanted, amend)

SubmitReads(o, amend) == /\ register.state = "draft"
                         /\ MayWrite(amend)
                         /\ LooksUp(o, "submit", register.absent, amend)

\* The route asks for attendance:amend.
ReopenReads(o) == register.state = "submitted" /\ LooksUp(o, "reopen", {}, TRUE)

DiscardReads(o, amend) == /\ register.state = "draft"
                          /\ MayWrite(amend)
                          /\ LooksUp(o, "discard", {}, amend)

\* A row that was deleted meanwhile refuses the write.
Stores(o, pc, g) ==
    /\ office[o].pc = pc
    /\ register' = IF register.state # "none" /\ register.id = office[o].read.id
                   THEN g ELSE register
    /\ office' = [office EXCEPT ![o] = NoWebRequest]
    /\ UNCHANGED late

MarkWrites(o) == Stores(o, "mark", Marked(register, office[o].read, office[o].wanted))
SubmitWrites(o) == Stores(o, "submit", Submitted(register, office[o].read))
ReopenWrites(o) == Stores(o, "reopen", Unsubmitted(register))
DiscardWrites(o) == Stores(o, "discard", Discarded(register, office[o].read))

WindowEnds == ~late /\ late' = TRUE /\ UNCHANGED <<register, office>>

WebNext == \/ WindowEnds
           \/ \E amend \in BOOLEAN : Open(amend)
           \/ \E o \in Office :
                 \/ MarkWrites(o) \/ SubmitWrites(o) \/ ReopenWrites(o) \/ DiscardWrites(o)
                 \/ ReopenReads(o)
                 \/ \E amend \in BOOLEAN :
                       \/ SubmitReads(o, amend) \/ DiscardReads(o, amend)
                       \/ \E wanted \in SUBSET Students : MarkReads(o, amend, wanted)
=============================================================================
