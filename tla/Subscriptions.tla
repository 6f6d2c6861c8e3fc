--------------------------- MODULE Subscriptions ----------------------------
(***************************************************************************)
(* One organization's subscription (modules/billing): the owner chooses a  *)
(* plan or cancels, the payment gateway's webhooks arrive in any order and *)
(* more than once, a platform administrator steps in, and the nightly pass *)
(* ends trials, suspends, closes and deletes.  A request, a webhook and a  *)
(* pass read the subscription and the organization, may call the gateway   *)
(* or send an email, and then write the columns they changed: no lock is   *)
(* held.                                                                   *)
(* A plan here is a plan with its billing cycle.                           *)
(***************************************************************************)
EXTENDS Naturals

CONSTANTS Trialled,      \* public plans with trial days
          Plain,         \* public plans without
          Keys,          \* idempotency keys
          Requests,      \* the owner's requests in flight
          Webhooks,      \* the gateway's requests in flight
          Never,         \* of a date that is not set
          Trial,         \* Plan.trial_days
          Grace,         \* TRIAL_GRACE_DAYS
          Notice,        \* TRIAL_DELETION_NOTICE_DAYS
          PastDueGrace,  \* PAST_DUE_GRACE
          Period,        \* days of a billing period
          Retention,     \* CANCELLATION_RETENTION
          MaxEvents,     \* bound: events of the gateway
          MaxTrouble     \* bound: interventions of the platform, and requests and passes
                         \* that fail

Plans == Trialled \cup Plain

ASSUME SubscriptionConstants ==
    /\ Trialled \cap Plain = {} /\ Plans # {}
    /\ Never \notin Nat
    /\ Trial \in Nat \ {0} /\ Grace \in Nat /\ Notice \in 0..Grace
    /\ {PastDueGrace, Period, Retention, MaxEvents, MaxTrouble} \subseteq Nat

VARIABLES sub,           \* the subscriptions row
          org,           \* the organizations row
          warned,        \* days since the deletion warning of this trial was sent
          failed,        \* days since the last failed payment
          done,          \* idempotency keys with a recorded response
          request,       \* what each request has read
          webhook,       \* what each webhook has read
          pass,          \* what the nightly pass has read
          calls,         \* history: calls of the gateway, by idempotency key
          seen,          \* webhook_events: how many were received
          trouble,       \* bound
          history        \* what happened, for the properties

vars == <<sub, org, warned, failed, done, request, webhook, pass, calls, seen, trouble,
          history>>

-----------------------------------------------------------------------------
(* A date is the days since it, or until it, up to the limit that matters. *)

Days(limit) == 0..limit \cup {Never}
Later(d, limit) == IF d \in 0..(limit - 1) THEN d + 1 ELSE d
Nearer(d) == IF d = Never \/ d = 0 THEN d ELSE d - 1

TrialLimit == Trial + Grace
PeriodLimit == IF Trial > Period THEN Trial ELSE Period

SubStatuses == {"trialing", "active", "past_due", "suspended", "cancelled", "expired"}
OrgStatuses == {"trialing", "active", "past_due", "over_limit", "suspended", "cancelled"}
Ended == {"expired", "suspended", "cancelled"}

\* remote: the gateway knows it.  trial: since trial_ends_at was set.  period: until
\* current_period_end.  ending: cancel_at_period_end.  closing: since cancelled_at.
Subscription == [status: SubStatuses, plan: Plans, remote: BOOLEAN, trial: Days(TrialLimit),
                 period: Days(PeriodLimit), ending: BOOLEAN, closing: Days(Retention)]

\* gone: `deleted_at`, or the row and everything of the organization is deleted.
Organization == [status: OrgStatuses, gone: {"no", "anonymized", "purged"}]

Request == [pc: {"idle", "begun", "called"}, key: Keys \cup {Never},
            plan: Plans \cup {Never}, sub: Subscription \cup {Never},
            org: Organization \cup {Never}]
Idle == [pc |-> "idle", key |-> Never, plan |-> Never, sub |-> Never, org |-> Never]

Event == {"renewed", "paid", "failed", "cancelled"}
Webhook == [event: Event \cup {Never}, sub: Subscription \cup {Never},
            org: Organization \cup {Never}]
NoWebhook == [event |-> Never, sub |-> Never, org |-> Never]

Pass == [pc: {"idle", "working"}, sub: Subscription \cup {Never}, org: Organization \cup {Never}]
Asleep == [pc |-> "idle", sub |-> Never, org |-> Never]

\* raced: a request, webhook or pass wrote rows that another had changed since it read them.
\* lifted: the platform or a usage reconciliation reopened an ended organization.
\* chosen: a plan was chosen after a trial expired.  lost: keys of requests that failed
\* after they had called the gateway.
History == [raced: BOOLEAN, lifted: BOOLEAN, chosen: BOOLEAN, lost: SUBSET Keys]

TypeOK == /\ sub \in Subscription
          /\ org \in Organization
          /\ warned \in Days(Notice)
          /\ failed \in Days(PastDueGrace)
          /\ done \subseteq Keys
          /\ request \in [Requests -> Request]
          /\ webhook \in [Webhooks -> Webhook]
          /\ pass \in Pass
          /\ calls \in [Keys -> Nat]
          /\ seen \in 0..MaxEvents
          /\ trouble \in 0..MaxTrouble
          /\ history \in History

\* ensure_free_subscription, when the owner's address is verified.
Created(plan) ==
    [status |-> IF plan \in Trialled THEN "trialing" ELSE "active", plan |-> plan,
     remote |-> FALSE, trial |-> IF plan \in Trialled THEN 0 ELSE Never,
     period |-> IF plan \in Trialled THEN Trial ELSE Never, ending |-> FALSE,
     closing |-> Never]

Init == /\ \E plan \in Plans : sub = Created(plan)
        /\ org = [status |-> "trialing", gone |-> "no"]
        /\ warned = Never
        /\ failed = Never
        /\ done = {}
        /\ request = [r \in Requests |-> Idle]
        /\ webhook = [w \in Webhooks |-> NoWebhook]
        /\ pass = Asleep
        /\ calls = [k \in Keys |-> 0]
        /\ seen = 0
        /\ trouble = 0
        /\ history = [raced |-> FALSE, lifted |-> FALSE, chosen |-> FALSE, lost |-> {}]

\* A flush writes the columns that differ from what was read.
Flush(now, read, new) == [c \in DOMAIN now |-> IF new[c] = read[c] THEN now[c] ELSE new[c]]

Races(read) == [history EXCEPT !.raced = @ \/ sub # read.sub \/ org # read.org]

-----------------------------------------------------------------------------
(* The owner chooses a plan or cancels (BillingService, through the        *)
(* idempotency keys).                                                      *)

\* mutant: the key is not locked
KeyFreeAnyway(k) == k \notin done

\* BillingIdempotencyService.begin: holds the key's lock until the transaction ends, and
\* replays a recorded response.
KeyFree(k) == /\ k \notin done
              /\ \A r \in Requests : request[r].key # k

Begins(r, k, plan) ==
    /\ request[r].pc = "idle"
    /\ KeyFree(k)
    /\ request' = [request EXCEPT ![r] = [pc |-> "begun", key |-> k, plan |-> plan,
                                          sub |-> sub, org |-> org]]
    /\ UNCHANGED <<sub, org, warned, failed, done, webhook, pass, calls, seen, trouble, history>>

Reachable == org.gone = "no" /\ org.status # "cancelled"

\* subscribe and change_plan: to another plan, or again to the one whose trial expired;
\* a suspension that is not the trial's stays.
Chooses(r, k, plan) == /\ Reachable
                       /\ sub.plan # plan \/ sub.status = "expired"
                       /\ org.status = "suspended" => sub.status = "expired"
                       /\ Begins(r, k, plan)

\* cancel: at the period's end, and not of a read-only organization.
Cancels(r, k) == Reachable /\ org.status # "suspended" /\ Begins(r, k, Never)

CallsGateway(r) ==
    /\ request[r].pc = "begun"
    /\ request[r].plan # Never \/ request[r].sub.remote
    /\ request' = [request EXCEPT ![r].pc = "called"]
    /\ calls' = [calls EXCEPT ![request[r].key] = @ + 1]
    /\ UNCHANGED <<sub, org, warned, failed, done, webhook, pass, seen, trouble, history>>

\* One free trial: none once a trial expired.
WithTrial(s, plan) == s.status # "expired" /\ plan \in Trialled

Restarts(s, plan) == WithTrial(s, plan) /\ ~s.remote

Chosen(s, plan) ==
    [s EXCEPT !.plan = plan, !.remote = TRUE, !.ending = FALSE, !.closing = Never,
              !.status = IF WithTrial(s, plan) THEN "trialing" ELSE "active",
              !.trial = IF Restarts(s, plan) THEN 0 ELSE @,
              !.period = IF Restarts(s, plan) THEN Trial ELSE Period]

Cancelling(s) == [s EXCEPT !.ending = TRUE, !.closing = 0]

\* over: usage exceeds the new plan's limits.
Reopened(s, o, over) ==
    LET status == IF s.status = "expired" THEN "active" ELSE o.status
    IN  [o EXCEPT !.status = CASE over -> "over_limit"
                               [] ~over /\ status = "over_limit" -> "active"
                               [] OTHER -> status]

Commits(r) ==
    LET read == request[r]
        new == IF read.plan = Never THEN Cancelling(read.sub) ELSE Chosen(read.sub, read.plan)
    IN  /\ \/ read.pc = "called"
           \/ read.pc = "begun" /\ read.plan = Never /\ ~read.sub.remote
        /\ org.gone # "purged"
        /\ sub' = Flush(sub, read.sub, new)
        /\ \E over \in BOOLEAN :
              org' = IF read.plan = Never THEN org
                     ELSE Flush(org, read.org, Reopened(read.sub, read.org, over))
        /\ done' = done \cup {read.key}
        /\ request' = [request EXCEPT ![r] = Idle]
        /\ history' = [Races(read) EXCEPT
                          !.chosen = @ \/ (read.plan # Never /\ read.sub.status = "expired")]
        /\ warned' = IF read.plan # Never /\ Restarts(read.sub, read.plan) THEN Never
                     ELSE warned
        /\ UNCHANGED <<failed, webhook, pass, calls, seen, trouble>>

\* An error, or the server stops: the transaction is rolled back, the gateway was called.
Fails(r) ==
    /\ request[r].pc # "idle"
    /\ trouble < MaxTrouble \/ org.gone = "purged"
    /\ trouble' = IF org.gone = "purged" THEN trouble ELSE trouble + 1
    /\ history' = [history EXCEPT !.lost = IF request[r].pc = "called"
                                           THEN @ \cup {request[r].key} ELSE @]
    /\ request' = [request EXCEPT ![r] = Idle]
    /\ UNCHANGED <<sub, org, warned, failed, done, webhook, pass, calls, seen>>

-----------------------------------------------------------------------------
(* The gateway's webhooks (WebhookService).                                *)

\* mutant: the organization stays as it was
SubOnly(event, o) == [o EXCEPT !.status = IF event = "failed" THEN "past_due" ELSE @]

\* _apply.
OrgAfter(event, o) ==
    [o EXCEPT !.status =
        CASE event = "renewed" /\ @ \in {"trialing", "past_due", "suspended"} -> "active"
          [] event = "paid" /\ @ = "past_due" -> "active"
          [] event = "failed" -> "past_due"
          [] event = "cancelled" -> "cancelled"
          [] OTHER -> @]

SubAfter(event, s) ==
    [s EXCEPT !.status = CASE event \in {"renewed", "paid"} -> "active"
                             [] event = "failed" -> "past_due"
                             [] event = "cancelled" -> "cancelled",
                !.closing = IF event = "cancelled" THEN 0 ELSE @]

\* handle, of an event the gateway sends about a change it was told of, whenever it
\* arrives: recorded, though its subscription may not be known yet.  A redelivery finds the
\* record and changes nothing; after an error there is none, and the event comes later.
Delivers(w, event) ==
    /\ \E k \in Keys : calls[k] > 0
    /\ webhook[w] = NoWebhook
    /\ seen < MaxEvents
    /\ seen' = seen + 1
    /\ webhook' = IF sub.remote /\ org.gone # "purged"
                  THEN [webhook EXCEPT ![w] = [event |-> event, sub |-> sub, org |-> org]]
                  ELSE webhook
    /\ UNCHANGED <<sub, org, warned, failed, done, request, pass, calls, trouble, history>>

\* The flush of what _apply changed.
Applies(w) ==
    LET read == webhook[w]
        s == SubAfter(read.event, read.sub)
        o == OrgAfter(read.event, read.org)
    IN  /\ read # NoWebhook
        /\ org.gone # "purged"
        /\ sub' = Flush(sub, read.sub, s)
        /\ org' = Flush(org, read.org, o)
        /\ failed' = IF read.event = "failed" THEN 0 ELSE failed
        /\ history' = IF s = read.sub /\ o = read.org THEN history ELSE Races(read)
        /\ webhook' = [webhook EXCEPT ![w] = NoWebhook]
        /\ UNCHANGED <<warned, done, request, pass, calls, seen, trouble>>

\* The rows are gone; when the event comes again its subscription is unknown.
FindsNoRow(w) ==
    /\ webhook[w] # NoWebhook
    /\ org.gone = "purged"
    /\ webhook' = [webhook EXCEPT ![w] = NoWebhook]
    /\ UNCHANGED <<sub, org, warned, failed, done, request, pass, calls, seen, trouble, history>>

-----------------------------------------------------------------------------
(* The platform.                                                           *)

StepsIn == /\ trouble < MaxTrouble
           /\ trouble' = trouble + 1
           /\ org.gone # "purged"
           /\ UNCHANGED <<warned, failed, done, request, webhook, pass, calls, seen>>

\* set_organization_status, whatever the status was.
SetSuspended(suspend) ==
    /\ StepsIn
    /\ org' = [org EXCEPT !.status = IF suspend THEN "suspended" ELSE "active"]
    /\ history' = [history EXCEPT !.lifted = @ \/ (~suspend /\ sub.status \in Ended)]
    /\ UNCHANGED sub

\* override_plan: without the gateway, and without the trial, the cancellation or a
\* suspension.
OverridesPlan(plan) ==
    /\ StepsIn
    /\ sub' = [sub EXCEPT !.plan = plan, !.status = "active"]
    /\ org' = [org EXCEPT !.status = IF @ \in {"trialing", "over_limit", "past_due"}
                                     THEN "active" ELSE @]
    /\ UNCHANGED history

\* reconcile_usage: whatever the status was.
Reconciles ==
    /\ StepsIn
    /\ \E over \in BOOLEAN :
          /\ org' = [org EXCEPT !.status = CASE over -> "over_limit"
                                             [] ~over /\ @ = "over_limit" -> "active"
                                             [] OTHER -> @]
          /\ history' = [history EXCEPT !.lifted = @ \/ (over /\ sub.status \in Ended)]
    /\ UNCHANGED sub

-----------------------------------------------------------------------------
(* The nightly pass: process_billing_lifecycle, then                       *)
(* process_trial_retention, in one transaction for the organization.       *)

PeriodOver(s) == s.ending /\ s.period = 0 /\ s.status # "cancelled"
TrialOver(s) == s.status = "trialing" /\ s.trial # Never /\ s.trial >= Trial
GraceOver(s) == s.status = "past_due" /\ failed # Never /\ failed >= PastDueGrace

SubByNight(s) == CASE PeriodOver(s) -> [s EXCEPT !.status = "cancelled", !.closing = 0]
                   [] ~PeriodOver(s) /\ TrialOver(s) -> [s EXCEPT !.status = "expired"]
                   [] ~PeriodOver(s) /\ GraceOver(s) -> [s EXCEPT !.status = "suspended"]
                   [] OTHER -> s

Anonymizes(s) == s.status = "cancelled" /\ s.closing # Never /\ s.closing >= Retention

OrgByNight(s, o) ==
    [status |-> CASE PeriodOver(s) -> "cancelled"
                  [] ~PeriodOver(s) /\ (TrialOver(s) \/ GraceOver(s)) -> "suspended"
                  [] OTHER -> o.status,
     gone |-> IF Anonymizes(SubByNight(s)) THEN "anonymized" ELSE o.gone]

\* A trial that ended and was left alone; anything else is not the retention's business.
Retained(s, o) == /\ o.gone = "no" /\ o.status = "suspended"
                  /\ s.status = "expired" /\ s.trial # Never

WarningDue(s, o) == Retained(s, o) /\ warned = Never /\ s.trial >= Trial + Grace - Notice

\* mutant: by the calendar alone
DeletionByDate(s, o) == Retained(s, o) /\ s.trial >= Trial + Grace

\* Not before the warning is Notice days old.
DeletionDue(s, o) == /\ Retained(s, o)
                     /\ warned # Never
                     /\ s.trial >= Trial + Grace
                     /\ warned >= Notice

Wakes == /\ pass.pc = "idle"
         /\ org.gone = "no"
         /\ pass' = [pc |-> "working", sub |-> sub, org |-> org]
         /\ UNCHANGED <<sub, org, warned, failed, done, request, webhook, calls, seen, trouble,
                        history>>

\* mutant: the email that was sent leaves no marker
WarnsUnmarked(s, o, accepted) == warned' = warned

\* _notify: a failed send records nothing.
Warns(s, o, accepted) == warned' = IF WarningDue(s, o) /\ accepted THEN 0 ELSE warned

Works(accepted) ==
    LET s == SubByNight(pass.sub)
        o == OrgByNight(pass.sub, pass.org)
    IN  /\ pass.pc = "working"
        /\ sub' = Flush(sub, pass.sub, s)
        /\ org' = IF DeletionDue(s, o) THEN [org EXCEPT !.gone = "purged"]
                  ELSE Flush(org, pass.org, o)
        /\ Warns(s, o, accepted)
        /\ history' = IF s = pass.sub /\ o = pass.org /\ ~DeletionDue(s, o)
                      THEN history ELSE Races(pass)
        /\ pass' = Asleep
        /\ UNCHANGED <<failed, done, request, webhook, calls, seen, trouble>>

\* The pass fails for this organization, or for one before it in the walk.
Misses == /\ pass.pc = "working"
          /\ trouble < MaxTrouble
          /\ trouble' = trouble + 1
          /\ pass' = Asleep
          /\ UNCHANGED <<sub, org, warned, failed, done, request, webhook, calls, seen, history>>

\* Requests, webhooks and passes take less than a day.
DayPasses ==
    /\ pass.pc = "idle"
    /\ \A r \in Requests : request[r].pc = "idle"
    /\ \A w \in Webhooks : webhook[w] = NoWebhook
    /\ sub' = [sub EXCEPT !.trial = Later(@, TrialLimit), !.period = Nearer(@),
                          !.closing = Later(@, Retention)]
    /\ warned' = Later(warned, Notice)
    /\ failed' = Later(failed, PastDueGrace)
    /\ UNCHANGED <<org, done, request, webhook, pass, calls, seen, trouble, history>>

-----------------------------------------------------------------------------
Next == \/ \E r \in Requests :
              \/ \E k \in Keys : \/ Cancels(r, k)
                                 \/ \E plan \in Plans : Chooses(r, k, plan)
              \/ CallsGateway(r) \/ Commits(r) \/ Fails(r)
        \/ \E w \in Webhooks : (\E event \in Event : Delivers(w, event)) \/ Applies(w)
                               \/ FindsNoRow(w)
        \/ \E suspend \in BOOLEAN : SetSuspended(suspend)
        \/ \E plan \in Plans : OverridesPlan(plan)
        \/ Reconciles
        \/ Wakes \/ Misses \/ DayPasses
        \/ \E accepted \in BOOLEAN : Works(accepted)

Spec == Init /\ [][Next]_vars

\* Days pass, requests end, the pass runs every night and an email is accepted at times.
FairSpec == /\ Spec
            /\ WF_vars(\E r \in Requests : CallsGateway(r) \/ Commits(r) \/ Fails(r))
            /\ WF_vars(\E w \in Webhooks : Applies(w) \/ FindsNoRow(w))
            /\ SF_vars(DayPasses)
            /\ WF_vars(Wakes)
            /\ SF_vars(Works(TRUE))

-----------------------------------------------------------------------------
(* Properties                                                              *)

\* An organization whose subscription ended has no write access, however requests,
\* webhooks and nights follow each other, unless the platform or a usage reconciliation
\* reopened it or two of them overlapped (jobs.py, process_billing_lifecycle).
EndedMeansClosed ==
    sub.status \in Ended =>
        \/ org.status \in {"suspended", "cancelled"}
        \/ org.gone = "purged"
        \/ history.lifted \/ history.raced

\* A deletion comes Grace days after the trial ended and Notice days after the warning
\* was sent, and never to an organization that chose a plan before the pass looked
\* (trial_retention.py, "WHY THE DELETION WAITS FOR THE WARNING").
DeletedAfterWarning ==
    [][org'.gone = "purged" /\ org.gone # "purged"
       => /\ warned # Never /\ warned >= Notice
          /\ sub.trial # Never /\ sub.trial >= Trial + Grace
          /\ sub'.status = "expired" \/ history'.raced]_vars

\* One idempotency key is one change at the gateway, but for a request that failed after
\* it had called it (idempotency.py, "Serialize equal keys").
ChangedOnce == \A k \in Keys \ history.lost : calls[k] <= 1

\* A trial that ended is deleted in the end, or somebody acted.
Abandoned == Retained(sub, org)
TrialsEnd == Abandoned ~> ~Abandoned

\* Who chose a plan when the trial had expired is not deleted as a trial afterwards
\* (trial_retention.py, "Choosing a plan at any point before day G moves the subscription
\* off EXPIRED and this module never touches the organization again").
ChoosingEndsIt == org.gone = "purged" => ~history.chosen \/ history.raced
=============================================================================
