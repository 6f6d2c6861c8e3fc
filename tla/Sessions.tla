------------------------------ MODULE Sessions ------------------------------
(***************************************************************************)
(* Sign-in sessions of staff, guardians and platform operators, all rows   *)
(* of one table (modules/auth/service.py, guardians/auth_service.py).  A   *)
(* sign-in starts a family of sessions; a refresh ends one session of the  *)
(* family and starts the next; a session that was ended and is presented   *)
(* again ends the family.  A request reads in one statement and writes in  *)
(* a later one, and other requests commit in between.                      *)
(***************************************************************************)
EXTENDS Naturals, FiniteSets

CONSTANTS Holders,       \* of an account
          Calls,         \* requests in flight
          Nobody,        \* the person of a request or a row not in use
          MaxFailures,   \* LOGIN_MAX_FAILURES
          MaxTries,      \* GUARDIAN_OTP_MAX_ATTEMPTS
          MaxSessions,   \* bound: rows of sessions
          MaxEvents      \* bound: codes, resets, sign-outs everywhere, access changes

ASSUME SessionConstants == /\ Nobody \notin Holders
                           /\ MaxFailures \in Nat \ {0}
                           /\ MaxTries \in Nat \ {0}
                           /\ MaxSessions \in Nat
                           /\ MaxEvents \in Nat

VARIABLES session,       \* the rows of sessions
          person,        \* the rows of users, guardian_identities and platform_admins
          call,          \* what each request in flight has read
          ended,         \* families a caller was told are over (history)
          events         \* bound

sessionVars == <<session, person, call, ended, events>>

SessionIds == 1..MaxSessions

\* family: the first row of the sign-in.  era and code: history, which sign-out-everywhere
\* the row follows and which one-time code opened it.  raced: history, somebody else's
\* write came between what the row was decided on and the row, here or in an ancestor.
Session == [state: {"none", "live", "revoked"}, family: 0..MaxSessions,
            person: Holders \cup {Nobody}, era: Nat, code: Nat, raced: BOOLEAN]
NoSession == [state |-> "none", family |-> 0, person |-> Nobody, era |-> 0, code |-> 0,
              raced |-> FALSE]

\* allowed: a usable membership, an enabled portal, an active operator.  code: the latest
\* one-time code, 0 before the first; spent: it was consumed; tries: submissions of it.
Kinds == {"staff", "guardian", "operator"}
Person == [kind: Kinds, allowed: BOOLEAN, era: Nat, failed: 0..(MaxFailures - 1), locked: BOOLEAN,
           code: Nat, spent: BOOLEAN, tries: Nat]
NewPerson(k) == [kind |-> k, allowed |-> TRUE, era |-> 0, failed |-> 0, locked |-> FALSE,
                 code |-> 0, spent |-> FALSE, tries |-> 0]

Call == [pc: {"idle", "password", "code", "rotate", "reused", "expelled"},
            person: Holders \cup {Nobody}, row: 0..MaxSessions, count: Nat,
            era: Nat, code: Nat]
NoRequest == [pc |-> "idle", person |-> Nobody, row |-> 0, count |-> 0,
         era |-> 0, code |-> 0]

SessionsTypeOK == /\ session \in [SessionIds -> Session]
                  /\ person \in [Holders -> Person]
                  /\ call \in [Calls -> Call]
                  /\ ended \subseteq SessionIds
                  /\ events \in 0..MaxEvents

SessionsInit == /\ session = [t \in SessionIds |-> NoSession]
                /\ \E kind \in [Holders -> Kinds] : person = [p \in Holders |-> NewPerson(kind[p])]
                /\ call = [r \in Calls |-> NoRequest]
                /\ ended = {}
                /\ events = 0

-----------------------------------------------------------------------------
Used == {t \in SessionIds : session[t].state # "none"}
LiveSessions == {t \in SessionIds : session[t].state = "live"}
Fresh(t) == t \in SessionIds /\ Used = 1..(t - 1)
Answered(r) == call' = [call EXCEPT ![r] = NoRequest]
Event == events < MaxEvents /\ events' = events + 1

\* UPDATE sessions SET revoked_at ... WHERE ... AND revoked_at IS NULL
Revoked(S) == [t \in SessionIds |-> IF t \in S \cap LiveSessions
                                    THEN [session[t] EXCEPT !.state = "revoked"]
                                    ELSE session[t]]

\* issue_session at a sign-in: a new family.
Issued(t, p, era, code, raced) ==
    [state |-> "live", family |-> t, person |-> p, era |-> era, code |-> code, raced |-> raced]

-----------------------------------------------------------------------------
(* Signing in with a password.                                             *)

\* authenticate loads the account and checks the password, which takes a while; the
\* next two actions are a wrong and a right one.
PasswordReads(r, p) ==
    /\ call[r].pc = "idle"
    /\ person[p].kind \in {"staff", "operator"}
    /\ ~person[p].locked
    /\ call' = [call EXCEPT ![r] = [NoRequest EXCEPT !.pc = "password", !.person = p,
          !.count = person[p].failed, !.era = person[p].era]]
    /\ UNCHANGED <<session, person, ended, events>>

\* _register_failed_login: the count is written from the row loaded earlier.
PasswordFails(r) ==
    LET p == call[r].person
        count == call[r].count + 1
    IN /\ call[r].pc = "password"
       /\ person' = [person EXCEPT
             ![p].failed = IF count >= MaxFailures THEN 0 ELSE count,
             ![p].locked = @ \/ count >= MaxFailures]
       /\ Answered(r)
       /\ UNCHANGED <<session, ended, events>>

\* The counters are cleared if they were loaded set, and the session issued if the
\* person may enter anywhere.
PasswordPasses(r) ==
    LET p == call[r].person
    IN /\ call[r].pc = "password"
       /\ person' = [person EXCEPT ![p].failed = IF call[r].count = 0 THEN @ ELSE 0]
       /\ \E t \in SessionIds :
             /\ Fresh(t)
             /\ session' = IF person[p].allowed
                           THEN [session EXCEPT ![t] = Issued(t, p, call[r].era, 0,
                                     person[p].era # call[r].era)]
                           ELSE session
       /\ Answered(r)
       /\ UNCHANGED <<ended, events>>

LockEnds(p) == /\ person[p].locked
               /\ person' = [person EXCEPT ![p].locked = FALSE]
               /\ UNCHANGED <<session, call, ended, events>>

-----------------------------------------------------------------------------
(* Signing in with a one-time code.                                        *)

\* request_code, after the cooldown and within the day's limit.
RequestCode(p) == /\ person[p].kind = "guardian"
                  /\ Event
                  /\ person' = [person EXCEPT ![p].code = @ + 1, ![p].spent = FALSE,
                                              ![p].tries = 0]
                  /\ UNCHANGED <<session, call, ended>>

\* verify_code loads the latest code, if there is one to be spent.
CodeReads(r, p) ==
    /\ call[r].pc = "idle"
    /\ person[p].kind = "guardian"
    /\ ~person[p].locked
    /\ person[p].code # 0
    /\ ~person[p].spent
    /\ call' = [call EXCEPT ![r] = [NoRequest EXCEPT !.pc = "code", !.person = p,
          !.count = person[p].tries + 1, !.era = person[p].era, !.code = person[p].code]]
    /\ UNCHANGED <<session, person, ended, events>>

\* The code's row is written as it was loaded: tries, and consumed_at when it is over.
CodeWritten(p, r, spent) ==
    IF person[p].code = call[r].code
    THEN [person[p] EXCEPT !.tries = call[r].count, !.spent = @ \/ spent]
    ELSE person[p]

\* A wrong code, or any code beyond the last try: the router commits the count.
CodeFails(r) ==
    LET p == call[r].person
        over == call[r].count > MaxTries
    IN /\ call[r].pc = "code"
       /\ person' = [person EXCEPT ![p] =
                        [CodeWritten(p, r, over) EXCEPT !.locked = @ \/ over]]
       /\ Answered(r)
       /\ UNCHANGED <<session, ended, events>>

CodePasses(r) ==
    LET p == call[r].person
    IN /\ call[r].pc = "code"
       /\ call[r].count <= MaxTries
       /\ person' = [person EXCEPT ![p] = CodeWritten(p, r, TRUE)]
       /\ \E t \in SessionIds :
             /\ Fresh(t)
             /\ session' = IF person[p].allowed
                           THEN [session EXCEPT ![t] =
                                   Issued(t, p, call[r].era, call[r].code,
                                       \/ person[p].era # call[r].era
                                       \/ person[p].code # call[r].code
                                       \/ person[p].spent)]
                           ELSE session
       /\ Answered(r)
       /\ UNCHANGED <<ended, events>>

\* select_context: an access token that is still good opens a family in another school
\* group, and the session it came from ends.
SelectContext(t) ==
    LET p == session[t].person
    IN /\ t \in Used
       /\ person[p].kind = "guardian"
       /\ person[p].allowed
       /\ \E n \in SessionIds :
             /\ Fresh(n)
             /\ session' = [Revoked({t}) EXCEPT ![n] = Issued(n, p, person[p].era, 0, FALSE)]
       /\ UNCHANGED <<person, call, ended, events>>

-----------------------------------------------------------------------------
(* Refreshing and switching.                                               *)

\* refresh_session reads the presented session and what its holder may still do.
RefreshReads(r, t) ==
    LET p == session[t].person
    IN /\ call[r].pc = "idle"
       /\ t \in Used
       /\ call' = [call EXCEPT ![r] = [NoRequest EXCEPT !.row = t, !.person = p,
              !.pc = IF session[t].state = "revoked" THEN "reused"
                     ELSE IF person[p].allowed THEN "rotate" ELSE "expelled"]]
       /\ UNCHANGED <<session, person, ended, events>>

\* Mutant: only the session presented is ended.
EndPresented(r) ==
    /\ call[r].pc \in {"reused", "expelled"}
    /\ session' = Revoked({call[r].row})
    /\ ended' = ended \cup {session[call[r].row].family}
    /\ Answered(r)
    /\ UNCHANGED <<person, events>>

\* The family is revoked and the caller refused.  The staff's and operators' route commits
\* before it raises; the guardians' does not, and get_db rolls the revocation back.
EndFamily(r) ==
    LET f == session[call[r].row].family
    IN /\ call[r].pc \in {"reused", "expelled"}
       /\ session' = IF person[call[r].person].kind = "guardian" THEN session
                     ELSE Revoked({t \in SessionIds : session[t].family = f})
       /\ ended' = ended \cup {f}
       /\ Answered(r)
       /\ UNCHANGED <<person, events>>

\* The presented row is written whatever became of it since, and the next one added.
Successor(t) == [session[t] EXCEPT !.state = "live", !.raced = @ \/ session[t].state # "live"]

Rotate(r) ==
    LET t == call[r].row
    IN /\ call[r].pc = "rotate"
       /\ \E n \in SessionIds :
             /\ Fresh(n)
             /\ session' = [session EXCEPT ![t].state = "revoked", ![n] = Successor(t)]
       /\ Answered(r)
       /\ UNCHANGED <<person, ended, events>>

\* switch_context: only from a session that is live.
SwitchReads(r, t) ==
    LET p == session[t].person
    IN /\ call[r].pc = "idle"
       /\ t \in LiveSessions
       /\ person[p].kind = "staff"
       /\ person[p].allowed
       /\ call' = [call EXCEPT ![r] = [NoRequest EXCEPT !.row = t, !.person = p,
                                                        !.pc = "rotate"]]
       /\ UNCHANGED <<session, person, ended, events>>

-----------------------------------------------------------------------------
(* Signing out.                                                            *)

Logout(t) == /\ t \in LiveSessions
             /\ session' = Revoked({t})
             /\ UNCHANGED <<person, call, ended, events>>

OfPerson(p) == {t \in SessionIds : session[t].person = p}

\* logout_all; of guardians, logout with all_devices.
LogoutAll(p) == /\ person[p].kind \in {"staff", "guardian"}
                /\ Event
                /\ session' = Revoked(OfPerson(p))
                /\ person' = [person EXCEPT ![p].era = @ + 1]
                /\ UNCHANGED <<call, ended>>

ResetPassword(p) == /\ person[p].kind = "staff"
                    /\ Event
                    /\ session' = Revoked(OfPerson(p))
                    /\ person' = [person EXCEPT ![p].era = @ + 1, ![p].failed = 0,
                                                ![p].locked = FALSE]
                    /\ UNCHANGED <<call, ended>>

\* A membership, the portal switch or an operator's account is turned off or on.
SetAccess(p) == /\ Event
                /\ person' = [person EXCEPT ![p].allowed = ~@]
                /\ UNCHANGED <<session, call, ended>>

\* The server dies with a request in flight: nothing of it was committed.
Abandon(r) == /\ call[r].pc # "idle"
              /\ Answered(r)
              /\ UNCHANGED <<session, person, ended, events>>

SessionsNext == \/ \E r \in Calls : \/ PasswordFails(r) \/ PasswordPasses(r)
                                    \/ CodeFails(r) \/ CodePasses(r)
                                    \/ EndFamily(r) \/ Rotate(r) \/ Abandon(r)
                                    \/ \E p \in Holders : PasswordReads(r, p) \/ CodeReads(r, p)
                                    \/ \E t \in SessionIds : RefreshReads(r, t) \/ SwitchReads(r, t)
                \/ \E t \in SessionIds : SelectContext(t) \/ Logout(t)
                \/ \E p \in Holders : \/ LockEnds(p) \/ RequestCode(p) \/ LogoutAll(p)
                                      \/ ResetPassword(p) \/ SetAccess(p)

SessionsSpec == SessionsInit /\ [][SessionsNext]_sessionVars

-----------------------------------------------------------------------------
(* Properties                                                              *)

Plain == {t \in LiveSessions : ~session[t].raced}

\* One sign-in is one session, a one-time code opens one sign-in, and a session does not
\* outlive a sign-out everywhere, a password reset or -- of staff and operators -- the end
\* of its family, unless a request that overlapped another is among its ancestors
\* (auth/service.py, "Rotation makes every refresh token valid exactly once"; "REVOKING
\* ALL SESSIONS IS NOT OPTIONAL").
OnlyRacesSurvive ==
    \A t \in Plain :
        LET p == session[t].person
        IN /\ session[t].era = person[p].era
           /\ person[p].kind # "guardian" => session[t].family \notin ended
           /\ \A u \in Plain : \/ session[u].family = session[t].family
                               \/ session[u].person = p /\ session[t].code # 0
                                     /\ session[u].code = session[t].code
                              => u = t

\* A caller who was told that the session was ended is right: none of its family is live,
\* but for races (guardians/auth_service.py, "Revoking the whole family forces both
\* parties back through a code").
ReplayEndsFamily == \A t \in Plain : session[t].family \notin ended
=============================================================================
