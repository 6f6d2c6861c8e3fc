-------------------------- MODULE PlanPaperProofs ---------------------------
(***************************************************************************)
(* What is proved of the organization's subscription and of its teachers'  *)
(* test papers, for any values of the constants.                           *)
(* Subscriptions: however requests, webhooks, nights and the platform      *)
(* follow each other, one key changes the gateway once, an ended           *)
(* subscription is closed, and nothing is deleted before its warning is    *)
(* old enough.                                                             *)
(* TestPapers: a paper prints its questions once each, numbered without a  *)
(* gap, section by section, whatever was added, removed, replaced, edited  *)
(* or written again, and only the claim that holds it last leaves them.    *)
(***************************************************************************)
EXTENDS Subscriptions, TestPapers, FiniteSetTheorems, WellFoundedInduction, TLAPS

-----------------------------------------------------------------------------
(* Types.                                                                  *)

\* A request at work has read rows; so have a webhook and a pass.
Reads == /\ \A r \in Requests : request[r].pc # "idle" =>
               /\ request[r].key \in Keys
               /\ request[r].sub \in Subscription /\ request[r].org \in Organization
               /\ request[r].plan \in Plans \cup {Never}
         /\ \A w \in Webhooks : webhook[w] # NoWebhook =>
               /\ webhook[w].event \in Event
               /\ webhook[w].sub \in Subscription /\ webhook[w].org \in Organization
         /\ pass.pc # "idle" => pass.sub \in Subscription /\ pass.org \in Organization
Typed == TypeOK /\ Reads

LEMMA ConstantsTypes ==
  /\ Never \notin Nat /\ Trial \in Nat \ {0} /\ Grace \in Nat /\ Notice \in Nat
  /\ PastDueGrace \in Nat /\ Period \in Nat /\ Retention \in Nat
  /\ MaxEvents \in Nat /\ MaxTrouble \in Nat
  /\ 0..TrialLimit \subseteq Nat /\ 0..PeriodLimit \subseteq Nat
  /\ Trial \in 0..PeriodLimit /\ Period \in 0..PeriodLimit
  /\ TrialLimit \in Nat /\ PeriodLimit \in Nat
  BY SubscriptionConstants DEF SubscriptionConstants, TrialLimit, PeriodLimit

LEMMA DaysPass ==
  ASSUME NEW limit \in Nat, NEW d \in Days(limit)
  PROVE  Later(d, limit) \in Days(limit) /\ Nearer(d) \in Days(limit) /\ 0 \in Days(limit)
         /\ Never \in Days(limit)
  BY ConstantsTypes DEF Days, Later, Nearer

LEMMA CreatedType == ASSUME NEW plan \in Plans PROVE Created(plan) \in Subscription
  <1>1. 0 \in Days(TrialLimit) /\ Trial \in Days(PeriodLimit) /\ Never \in Days(TrialLimit)
        /\ Never \in Days(PeriodLimit) /\ Never \in Days(Retention)
    BY ConstantsTypes DEF Days
  <1> QED BY <1>1 DEF Created, Subscription, SubStatuses

LEMMA FlushedSub ==
  ASSUME NEW now \in Subscription, NEW read \in Subscription, NEW new \in Subscription
  PROVE  Flush(now, read, new) \in Subscription
  <1>1. DOMAIN now = {"status", "plan", "remote", "trial", "period", "ending", "closing"}
    BY DEF Subscription
  <1> QED BY <1>1 DEF Flush, Subscription

LEMMA FlushedOrg ==
  ASSUME NEW now \in Organization, NEW read \in Organization, NEW new \in Organization
  PROVE  Flush(now, read, new) \in Organization
  <1>1. DOMAIN now = {"status", "gone"}
    BY DEF Organization
  <1> QED BY <1>1 DEF Flush, Organization

LEMMA ChosenType ==
  ASSUME NEW s \in Subscription, NEW plan \in Plans
  PROVE  Chosen(s, plan) \in Subscription /\ Cancelling(s) \in Subscription
  <1>1. 0 \in Days(TrialLimit) /\ {Trial, Period} \subseteq Days(PeriodLimit)
        /\ {0, Never} \subseteq Days(Retention)
    BY ConstantsTypes DEF Days
  <1> QED BY <1>1 DEF Chosen, Cancelling, Subscription, SubStatuses

LEMMA ReopenedType ==
  ASSUME NEW s, NEW o \in Organization, NEW over \in BOOLEAN
  PROVE  Reopened(s, o, over) \in Organization
  BY DEF Reopened, Organization, OrgStatuses

LEMMA NightTypes ==
  ASSUME NEW s \in Subscription, NEW o \in Organization
  PROVE  SubByNight(s) \in Subscription /\ OrgByNight(s, o) \in Organization
  <1>1. 0 \in Days(Retention)
    BY ConstantsTypes DEF Days
  <1>2. SubByNight(s) \in Subscription
    BY <1>1 DEF SubByNight, Subscription, SubStatuses
  <1>3. OrgByNight(s, o) \in Organization
    BY DEF OrgByNight, Organization, OrgStatuses
  <1> QED BY <1>2, <1>3

LEMMA EventTypes ==
  ASSUME NEW s \in Subscription, NEW o \in Organization, NEW event \in Event
  PROVE  SubAfter(event, s) \in Subscription /\ OrgAfter(event, o) \in Organization
  <1>1. 0 \in Days(Retention)
    BY ConstantsTypes DEF Days
  <1>2. SubAfter(event, s) \in Subscription
    BY <1>1 DEF SubAfter, Subscription, SubStatuses, Event
  <1>3. OrgAfter(event, o) \in Organization
    BY DEF OrgAfter, Organization, OrgStatuses, Event
  <1> QED BY <1>2, <1>3

LEMMA RacesType ==
  ASSUME history \in History, NEW read
  PROVE  Races(read) \in History
  BY DEF Races, History

LEMMA InitTypes == ASSUME Init PROVE Typed
  <1>1. PICK plan \in Plans : sub = Created(plan)
    BY DEF Init
  <1>2. sub \in Subscription
    BY <1>1, CreatedType
  <1>3. org \in Organization
    BY DEF Init, Organization, OrgStatuses
  <1>4. Never \in Days(Notice) /\ Never \in Days(PastDueGrace)
    BY DEF Days
  <1>5. Idle \in Request /\ Asleep \in Pass /\ NoWebhook \in Webhook
    BY DEF Idle, Request, Asleep, Pass, NoWebhook, Webhook
  <1>6. TypeOK
    BY <1>2, <1>3, <1>4, <1>5, ConstantsTypes DEF Init, TypeOK, History
  <1>7. Reads
    BY DEF Init, Reads, Idle, Asleep
  <1> QED BY <1>6, <1>7 DEF Typed

LEMMA BeginsTypes ==
  ASSUME Typed, NEW r \in Requests, NEW k \in Keys, NEW plan \in Plans \cup {Never},
         Begins(r, k, plan)
  PROVE  Typed'
  <1> DEFINE new == [pc |-> "begun", key |-> k, plan |-> plan, sub |-> sub, org |-> org]
  <1>1. new \in Request /\ request' = [request EXCEPT ![r] = new]
    BY DEF Begins, Request, Typed, TypeOK
  <1>2. TypeOK'
    BY <1>1 DEF Begins, Typed, TypeOK
  <1>3. Reads'
    BY <1>1 DEF Begins, Typed, TypeOK, Reads
  <1> QED BY <1>2, <1>3 DEF Typed

LEMMA CallsGatewayTypes ==
  ASSUME Typed, NEW r \in Requests, CallsGateway(r)
  PROVE  Typed'
  <1>1. request[r].key \in Keys
    BY DEF CallsGateway, Typed, Reads
  <1>2. calls' \in [Keys -> Nat]
    BY <1>1 DEF CallsGateway, Typed, TypeOK
  <1>3. [request[r] EXCEPT !.pc = "called"] \in Request
    BY DEF Typed, TypeOK, Request
  <1>4. request' \in [Requests -> Request]
    BY <1>3 DEF CallsGateway, Typed, TypeOK
  <1>5. TypeOK'
    BY <1>2, <1>4 DEF CallsGateway, Typed, TypeOK
  <1>6. request[r] \in Request
    BY DEF Typed, TypeOK
  <1>7. Reads'
    BY <1>6 DEF CallsGateway, Typed, TypeOK, Reads, Request
  <1> QED BY <1>5, <1>7 DEF Typed

LEMMA CommitsTypes ==
  ASSUME Typed, NEW r \in Requests, Commits(r)
  PROVE  Typed'
  <1> DEFINE read == request[r]
             new == IF read.plan = Never THEN Cancelling(read.sub)
                    ELSE Chosen(read.sub, read.plan)
  <1>1. /\ read.pc # "idle" /\ read.key \in Keys /\ read.sub \in Subscription
        /\ read.org \in Organization /\ read.plan \in Plans \cup {Never}
    BY DEF Commits, Typed, Reads
  <1>2. Plans # {}
    BY SubscriptionConstants DEF SubscriptionConstants
  <1>3. new \in Subscription
    BY <1>1, <1>2, ChosenType
  <1>4. sub' \in Subscription
    <2>1. sub' = Flush(sub, read.sub, new) /\ sub \in Subscription
      BY DEF Commits, Typed, TypeOK
    <2> QED BY <2>1, <1>1, <1>3, FlushedSub
  <1>5. org' \in Organization
    <2>1. org \in Organization
      BY DEF Typed, TypeOK
    <2>2. PICK over \in BOOLEAN :
             org' = IF read.plan = Never THEN org
                    ELSE Flush(org, read.org, Reopened(read.sub, read.org, over))
      BY DEF Commits
    <2>3. Reopened(read.sub, read.org, over) \in Organization
      BY <1>1, ReopenedType
    <2> QED BY <2>1, <2>2, <2>3, <1>1, FlushedOrg
  <1>6. request' \in [Requests -> Request] /\ Idle \in Request /\ Idle.pc = "idle"
    BY DEF Commits, Typed, TypeOK, Idle, Request
  <1>7. history' \in History
    <2>1. Races(read) \in History
      BY RacesType DEF Typed, TypeOK
    <2>2. history' = [Races(read) EXCEPT
                         !.chosen = @ \/ (read.plan # Never /\ read.sub.status = "expired")]
      BY DEF Commits
    <2> HIDE DEF read
    <2> QED BY <2>1, <2>2 DEF History
  <1>8. warned' \in Days(Notice)
    <2>1. warned' \in {warned, Never}
      BY DEF Commits
    <2> QED BY <2>1 DEF Typed, TypeOK, Days
  <1>9. done' \subseteq Keys
    BY <1>1 DEF Commits, Typed, TypeOK
  <1>10. UNCHANGED <<failed, webhook, pass, calls, seen, trouble>>
    BY DEF Commits
  <1>11. TypeOK'
    BY <1>4, <1>5, <1>6, <1>7, <1>8, <1>9, <1>10 DEF Typed, TypeOK
  <1>12. \A q \in Requests : request'[q] = IF q = r THEN Idle ELSE request[q]
    BY DEF Commits, Typed, TypeOK
  <1>13. Reads'
    BY <1>6, <1>10, <1>12 DEF Typed, Reads
  <1> QED BY <1>11, <1>13 DEF Typed

LEMMA FailsTypes ==
  ASSUME Typed, NEW r \in Requests, Fails(r)
  PROVE  Typed'
  <1>1. Idle \in Request /\ Idle.pc = "idle"
    BY DEF Idle, Request
  <1>2. request' \in [Requests -> Request]
    BY <1>1 DEF Fails, Typed, TypeOK
  <1>3. history' \in History
    BY DEF Fails, Typed, TypeOK, Reads, History
  <1>4. trouble' \in 0..MaxTrouble
    BY ConstantsTypes DEF Fails, Typed, TypeOK
  <1>5. TypeOK'
    BY <1>2, <1>3, <1>4 DEF Fails, Typed, TypeOK
  <1>6. \A q \in Requests : request'[q] = IF q = r THEN Idle ELSE request[q]
    BY DEF Fails, Typed, TypeOK
  <1>7. Reads'
    BY <1>1, <1>6 DEF Fails, Typed, Reads
  <1> QED BY <1>5, <1>7 DEF Typed

\* A webhook has read nothing, or the rows it read are rows.
LEMMA WebhookRead ==
  ASSUME Typed, NEW w \in Webhooks, NEW new \in Webhook,
         webhook' = [webhook EXCEPT ![w] = new],
         new # NoWebhook => /\ new.event \in Event
                            /\ new.sub \in Subscription /\ new.org \in Organization,
         UNCHANGED <<request, pass>>
  PROVE  webhook' \in [Webhooks -> Webhook] /\ Reads'
  <1>1. webhook' \in [Webhooks -> Webhook]
    BY DEF Typed, TypeOK
  <1>2. \A v \in Webhooks : webhook'[v] = IF v = w THEN new ELSE webhook[v]
    BY DEF Typed, TypeOK
  <1>3. Reads'
    BY <1>2 DEF Typed, Reads
  <1> QED BY <1>1, <1>3

LEMMA DeliversTypes ==
  ASSUME Typed, NEW w \in Webhooks, NEW event \in Event, Delivers(w, event)
  PROVE  Typed'
  <1> DEFINE read == [event |-> event, sub |-> sub, org |-> org]
  <1>1. read \in Webhook
    BY DEF Typed, TypeOK, Webhook
  <1>2. webhook' \in [Webhooks -> Webhook] /\ Reads'
    <2>1. CASE webhook' = webhook
      BY <2>1 DEF Delivers, Typed, TypeOK, Reads
    <2>2. CASE webhook' = [webhook EXCEPT ![w] = read]
      <3>1. read.event \in Event /\ read.sub \in Subscription /\ read.org \in Organization
        BY DEF Typed, TypeOK
      <3> HIDE DEF read
      <3> QED BY <1>1, <2>2, <3>1, WebhookRead DEF Delivers
    <2> QED BY <2>1, <2>2 DEF Delivers
  <1>3. seen' \in 0..MaxEvents
    BY ConstantsTypes DEF Delivers, Typed, TypeOK
  <1>4. TypeOK'
    BY <1>2, <1>3 DEF Delivers, Typed, TypeOK
  <1> QED BY <1>2, <1>4 DEF Typed

LEMMA AppliesTypes ==
  ASSUME Typed, NEW w \in Webhooks, Applies(w)
  PROVE  Typed'
  <1> DEFINE read == webhook[w]
             s == SubAfter(read.event, read.sub)
             o == OrgAfter(read.event, read.org)
  <1>1. /\ read.event \in Event /\ read.sub \in Subscription /\ read.org \in Organization
        /\ sub \in Subscription /\ org \in Organization
    BY DEF Applies, Typed, TypeOK, Reads
  <1>2. s \in Subscription /\ o \in Organization
    BY <1>1, EventTypes
  <1>3. sub' \in Subscription /\ org' \in Organization
    <2>1. sub' = Flush(sub, read.sub, s) /\ org' = Flush(org, read.org, o)
      BY DEF Applies
    <2> HIDE DEF read, s, o
    <2> QED BY <1>1, <1>2, <2>1, FlushedSub, FlushedOrg
  <1>4. failed' \in Days(PastDueGrace)
    BY ConstantsTypes DEF Applies, Typed, TypeOK, Days
  <1>5. history' \in History
    <2>1. Races(read) \in History
      BY RacesType DEF Typed, TypeOK
    <2>2. history' \in {history, Races(read)}
      BY DEF Applies
    <2> QED BY <2>1, <2>2 DEF Typed, TypeOK
  <1>6. webhook' \in [Webhooks -> Webhook] /\ Reads'
    <2>1. NoWebhook \in Webhook
      BY DEF NoWebhook, Webhook
    <2> QED BY <2>1, WebhookRead DEF Applies
  <1>7. UNCHANGED <<warned, done, request, pass, calls, seen, trouble>>
    BY DEF Applies
  <1>8. TypeOK'
    BY <1>3, <1>4, <1>5, <1>6, <1>7 DEF Typed, TypeOK
  <1> QED BY <1>6, <1>8 DEF Typed

LEMMA FindsNoRowTypes ==
  ASSUME Typed, NEW w \in Webhooks, FindsNoRow(w)
  PROVE  Typed'
  <1>1. webhook' \in [Webhooks -> Webhook] /\ Reads'
    <2>1. NoWebhook \in Webhook
      BY DEF NoWebhook, Webhook
    <2> QED BY <2>1, WebhookRead DEF FindsNoRow
  <1>2. TypeOK'
    BY <1>1 DEF FindsNoRow, Typed, TypeOK
  <1> QED BY <1>1, <1>2 DEF Typed

\* What the platform does changes the two rows, the history and the bound.
LEMMA PlatformTypes ==
  ASSUME Typed, StepsIn, sub' \in Subscription, org' \in Organization, history' \in History
  PROVE  Typed'
  <1>1. trouble' \in 0..MaxTrouble
    BY ConstantsTypes DEF StepsIn, Typed, TypeOK
  <1>2. TypeOK'
    BY <1>1 DEF StepsIn, Typed, TypeOK
  <1>3. Reads'
    BY DEF StepsIn, Typed, Reads
  <1> QED BY <1>2, <1>3 DEF Typed

LEMMA SetSuspendedTypes ==
  ASSUME Typed, NEW suspend \in BOOLEAN, SetSuspended(suspend)
  PROVE  Typed'
  <1>1. org' \in Organization /\ sub' \in Subscription
    BY DEF SetSuspended, Typed, TypeOK, Organization, OrgStatuses
  <1>2. history' \in History
    BY DEF SetSuspended, Typed, TypeOK, History
  <1> QED BY <1>1, <1>2, PlatformTypes DEF SetSuspended

LEMMA OverridesPlanTypes ==
  ASSUME Typed, NEW plan \in Plans, OverridesPlan(plan)
  PROVE  Typed'
  <1>1. org' \in Organization
    BY DEF OverridesPlan, Typed, TypeOK, Organization, OrgStatuses
  <1>2. sub' \in Subscription
    BY DEF OverridesPlan, Typed, TypeOK, Subscription, SubStatuses
  <1>3. history' \in History
    BY DEF OverridesPlan, Typed, TypeOK
  <1> QED BY <1>1, <1>2, <1>3, PlatformTypes DEF OverridesPlan

LEMMA ReconcilesTypes ==
  ASSUME Typed, Reconciles
  PROVE  Typed'
  <1>1. PICK over \in BOOLEAN :
           /\ org' = [org EXCEPT !.status = CASE over -> "over_limit"
                                              [] ~over /\ @ = "over_limit" -> "active"
                                              [] OTHER -> @]
           /\ history' = [history EXCEPT !.lifted = @ \/ (over /\ sub.status \in Ended)]
    BY DEF Reconciles
  <1>2. org' \in Organization
    BY <1>1 DEF Typed, TypeOK, Organization, OrgStatuses
  <1>3. history' \in History
    BY <1>1 DEF Typed, TypeOK, History
  <1> QED BY <1>2, <1>3, PlatformTypes DEF Reconciles, Typed, TypeOK

LEMMA WakesTypes ==
  ASSUME Typed, Wakes
  PROVE  Typed'
  <1>1. pass' \in Pass
    BY DEF Wakes, Typed, TypeOK, Pass
  <1>2. TypeOK' /\ Reads'
    BY <1>1 DEF Wakes, Typed, TypeOK, Reads
  <1> QED BY <1>2 DEF Typed

LEMMA MissesTypes ==
  ASSUME Typed, Misses
  PROVE  Typed'
  <1>1. pass' \in Pass /\ pass'.pc = "idle"
    BY DEF Misses, Asleep, Pass
  <1>2. trouble' \in 0..MaxTrouble
    BY ConstantsTypes DEF Misses, Typed, TypeOK
  <1>3. TypeOK' /\ Reads'
    BY <1>1, <1>2 DEF Misses, Typed, TypeOK, Reads
  <1> QED BY <1>3 DEF Typed

LEMMA DayPassesTypes ==
  ASSUME Typed, DayPasses
  PROVE  Typed'
  <1>1. /\ Later(sub.trial, TrialLimit) \in Days(TrialLimit)
        /\ Nearer(sub.period) \in Days(PeriodLimit)
        /\ Later(sub.closing, Retention) \in Days(Retention)
        /\ Later(warned, Notice) \in Days(Notice)
        /\ Later(failed, PastDueGrace) \in Days(PastDueGrace)
    BY DaysPass, ConstantsTypes DEF Typed, TypeOK, Subscription
  <1>2. sub' \in Subscription
    BY <1>1 DEF DayPasses, Typed, TypeOK, Subscription
  <1>3. TypeOK' /\ Reads'
    BY <1>1, <1>2 DEF DayPasses, Typed, TypeOK, Reads
  <1> QED BY <1>3 DEF Typed

LEMMA WorksTypes ==
  ASSUME Typed, NEW accepted \in BOOLEAN, Works(accepted)
  PROVE  Typed'
  <1> DEFINE s == SubByNight(pass.sub)
             o == OrgByNight(pass.sub, pass.org)
  <1>1. /\ pass.sub \in Subscription /\ pass.org \in Organization
        /\ sub \in Subscription /\ org \in Organization
    BY DEF Works, Typed, TypeOK, Reads
  <1>2. s \in Subscription /\ o \in Organization
    BY <1>1, NightTypes
  <1>3. sub' \in Subscription
    BY <1>1, <1>2, FlushedSub DEF Works
  <1>4. org' \in Organization
    <2>1. [org EXCEPT !.gone = "purged"] \in Organization
      BY <1>1 DEF Organization
    <2> QED BY <2>1, <1>1, <1>2, FlushedOrg DEF Works
  <1>5. warned' \in Days(Notice)
    <2>1. warned' \in {warned, 0}
      BY DEF Works, Warns
    <2> QED BY <2>1, ConstantsTypes DEF Typed, TypeOK, Days
  <1>6. history' \in History
    <2>1. Races(pass) \in History /\ history \in History
      BY RacesType DEF Typed, TypeOK
    <2> QED BY <2>1 DEF Works
  <1>7. pass' \in Pass /\ pass'.pc = "idle"
    BY DEF Works, Asleep, Pass
  <1>8. UNCHANGED <<failed, done, request, webhook, calls, seen, trouble>>
    BY DEF Works
  <1>9. TypeOK' /\ Reads'
    BY <1>3, <1>4, <1>5, <1>6, <1>7, <1>8 DEF Typed, TypeOK, Reads
  <1> QED BY <1>9 DEF Typed

LEMMA TypesStep == ASSUME Typed, [Next]_vars PROVE Typed'
  <1>1. ASSUME NEW r \in Requests, NEW k \in Keys, Cancels(r, k)
        PROVE  Typed'
    BY <1>1, BeginsTypes DEF Cancels
  <1>2. ASSUME NEW r \in Requests, NEW k \in Keys, NEW plan \in Plans, Chooses(r, k, plan)
        PROVE  Typed'
    BY <1>2, BeginsTypes DEF Chooses
  <1>3. CASE UNCHANGED vars
    BY <1>3 DEF vars, Typed, TypeOK, Reads
  <1> QED
    BY <1>1, <1>2, <1>3, CallsGatewayTypes, CommitsTypes, FailsTypes, DeliversTypes,
       AppliesTypes, FindsNoRowTypes, SetSuspendedTypes, OverridesPlanTypes,
       ReconcilesTypes, WakesTypes, MissesTypes, DayPassesTypes, WorksTypes DEF Next

\* Every state is of its type, whatever the plans, the days and the number of requests.
THEOREM TypeCorrect == Spec => []TypeOK
  <1>1. Typed => TypeOK
    BY DEF Typed
  <1> QED BY <1>1, InitTypes, TypesStep, PTL DEF Spec

-----------------------------------------------------------------------------
(* One key, one change.                                                    *)

\* A key that the gateway was called with is recorded, lost, or held by the one request
\* that called.
Calling(r, k) == request[r].key = k /\ request[r].pc = "called"
Accounted(k) == k \in done \cup history.lost \/ \E r \in Requests : Calling(r, k)

\* A request that works holds a key of its own that is not recorded yet.
Holding == /\ \A r \in Requests :
                 request[r].pc # "idle" => request[r].key \in Keys \ done
           /\ \A r, q \in Requests :
                 /\ request[r].pc # "idle" /\ request[q].pc # "idle"
                 /\ request[r].key = request[q].key
                 => r = q

KeyInv == /\ Holding
          /\ \A k \in Keys : calls[k] = 0 \/ Accounted(k)
          /\ ChangedOnce

LEMMA KeyInvInit == ASSUME Init PROVE KeyInv
  BY DEF Init, KeyInv, Idle, ChangedOnce, Accounted, Calling, Holding

\* A key that is accounted for stays so while no request that called ends.
LEMMA KeysKept ==
  ASSUME Typed, KeyInv, UNCHANGED calls, history'.lost = history.lost, done \subseteq done',
         Holding',
         \A r \in Requests : \A k \in Keys :
            Calling(r, k) => Calling(r, k)' \/ k \in done'
  PROVE  KeyInv'
  <1>1. \A k \in Keys : Accounted(k) => Accounted(k)'
    BY DEF Accounted
  <1> QED BY <1>1 DEF KeyInv, ChangedOnce

LEMMA BeginsKeepsKeys ==
  ASSUME Typed, KeyInv, NEW r \in Requests, NEW k \in Keys, NEW plan, Begins(r, k, plan)
  PROVE  KeyInv'
  <1>1. /\ request[r].pc = "idle" /\ k \notin done
        /\ \A q \in Requests : request[q].key # k
        /\ UNCHANGED <<done, calls, history>>
    BY DEF Begins, KeyFree
  <1>2. PICK new : /\ new.pc = "begun" /\ new.key = k
                   /\ request' = [request EXCEPT ![r] = new]
    BY DEF Begins
  <1>3. /\ request'[r].pc = "begun" /\ request'[r].key = k
        /\ \A q \in Requests \ {r} : request'[q] = request[q]
    BY <1>2 DEF Typed, TypeOK
  <1>4. Holding'
    BY <1>1, <1>3 DEF KeyInv, Holding
  <1>5. \A q \in Requests : \A l \in Keys : Calling(q, l) => Calling(q, l)'
    BY <1>1, <1>3 DEF Calling
  <1> QED BY <1>1, <1>4, <1>5, KeysKept

LEMMA CallsGatewayKeepsKeys ==
  ASSUME Typed, KeyInv, NEW r \in Requests, CallsGateway(r)
  PROVE  KeyInv'
  <1>0. PICK k \in Keys \ done : k = request[r].key
    BY DEF CallsGateway, KeyInv, Holding
  <1>1. /\ request[r].pc = "begun" /\ k = request[r].key
        /\ request' = [request EXCEPT ![r].pc = "called"]
        /\ calls' = [calls EXCEPT ![k] = @ + 1]
        /\ UNCHANGED <<done, history>>
    BY <1>0 DEF CallsGateway, KeyInv, Holding
  <1>2. /\ request'[r].pc = "called" /\ request'[r].key = k
        /\ \A q \in Requests \ {r} : request'[q] = request[q]
    BY <1>1 DEF Typed, TypeOK, Request
  <1>3. Holding'
    BY <1>1, <1>2 DEF KeyInv, Holding
  <1>4. ~ \E q \in Requests : Calling(q, k)
    BY <1>1 DEF Calling, KeyInv, Holding
  <1>5. calls[k] = 0 \/ k \in history.lost
    BY <1>1, <1>4 DEF KeyInv, Accounted
  <1>6. Accounted(k)'
    BY <1>2 DEF Accounted, Calling
  <1>7. \A l \in Keys \ {k} : calls'[l] = calls[l] /\ (Accounted(l) => Accounted(l)')
    <2>1. \A q \in Requests : \A l \in Keys : Calling(q, l) => Calling(q, l)'
      BY <1>1, <1>2 DEF Calling
    <2>2. \A l \in Keys \ {k} : calls'[l] = calls[l]
      BY <1>1 DEF Typed, TypeOK
    <2> QED BY <1>1, <2>1, <2>2 DEF Accounted
  <1>8. calls' \in [Keys -> Nat] /\ calls'[k] = calls[k] + 1
    BY <1>1 DEF Typed, TypeOK
  <1>9. \A l \in Keys : calls'[l] = 0 \/ Accounted(l)'
    <2>1. ASSUME NEW l \in Keys, l = k PROVE Accounted(l)'
      BY <1>6, <2>1
    <2>2. ASSUME NEW l \in Keys, l # k PROVE calls'[l] = 0 \/ Accounted(l)'
      BY <1>7, <2>2 DEF KeyInv
    <2> QED BY <2>1, <2>2
  <1>10. ChangedOnce'
    BY <1>1, <1>5, <1>7, <1>8 DEF KeyInv, ChangedOnce, Typed, TypeOK
  <1> QED BY <1>3, <1>8, <1>9, <1>10 DEF KeyInv

LEMMA CommitsKeepsKeys ==
  ASSUME Typed, KeyInv, NEW r \in Requests, Commits(r)
  PROVE  KeyInv'
  <1>1. /\ done' = done \cup {request[r].key}
        /\ request' = [request EXCEPT ![r] = Idle]
        /\ calls' = calls
        /\ history'.lost = history.lost
        /\ request[r].pc # "idle"
    BY DEF Commits, Races, Typed, TypeOK, History
  <1>2. /\ request'[r].pc = "idle"
        /\ \A q \in Requests \ {r} : request'[q] = request[q]
    BY <1>1 DEF Typed, TypeOK, Idle
  <1>3. Holding'
    BY <1>1, <1>2 DEF KeyInv, Holding
  <1>4. \A q \in Requests : \A k \in Keys :
           Calling(q, k) => Calling(q, k)' \/ k \in done'
    BY <1>1, <1>2 DEF Calling
  <1> QED BY <1>1, <1>3, <1>4, KeysKept

LEMMA FailsKeepsKeys ==
  ASSUME Typed, KeyInv, NEW r \in Requests, Fails(r)
  PROVE  KeyInv'
  <1>1. /\ done' = done
        /\ request' = [request EXCEPT ![r] = Idle]
        /\ calls' = calls
        /\ history.lost \subseteq history'.lost
        /\ request[r].pc = "called" => request[r].key \in history'.lost
    <2>1. history' = [history EXCEPT !.lost = IF request[r].pc = "called"
                                              THEN @ \cup {request[r].key} ELSE @]
      BY DEF Fails
    <2> QED BY <2>1 DEF Fails, Typed, TypeOK, History
  <1>2. /\ request'[r].pc = "idle"
        /\ \A q \in Requests \ {r} : request'[q] = request[q]
    BY <1>1 DEF Typed, TypeOK, Idle
  <1>3. Holding'
    BY <1>1, <1>2 DEF KeyInv, Holding
  <1>4. \A k \in Keys : Accounted(k) => Accounted(k)'
    BY <1>1, <1>2 DEF Accounted, Calling
  <1> QED BY <1>1, <1>3, <1>4 DEF KeyInv, ChangedOnce

\* Webhooks, the platform, the nights and the calendar touch no request.
LEMMA OthersKeepKeys ==
  ASSUME Typed, KeyInv, UNCHANGED <<request, done, calls>>, history'.lost = history.lost
  PROVE  KeyInv'
  <1>1. Holding'
    BY DEF KeyInv, Holding
  <1>2. \A r \in Requests : \A k \in Keys : Calling(r, k) => Calling(r, k)'
    BY DEF Calling
  <1> QED BY <1>1, <1>2, KeysKept

LEMMA KeyInvStep == ASSUME Typed, KeyInv, [Next]_vars PROVE KeyInv'
  <1>1. ASSUME NEW r \in Requests, NEW k \in Keys, Cancels(r, k)
        PROVE  KeyInv'
    BY <1>1, BeginsKeepsKeys DEF Cancels
  <1>2. ASSUME NEW r \in Requests, NEW k \in Keys, NEW plan \in Plans, Chooses(r, k, plan)
        PROVE  KeyInv'
    BY <1>2, BeginsKeepsKeys DEF Chooses
  <1>3. ASSUME NEW w, NEW event, Delivers(w, event) \/ Applies(w) \/ FindsNoRow(w)
        PROVE  KeyInv'
    <2>1. history'.lost = history.lost
      BY <1>3 DEF Delivers, Applies, FindsNoRow, Races, Typed, TypeOK, History
    <2> QED BY <1>3, <2>1, OthersKeepKeys DEF Delivers, Applies, FindsNoRow
  <1>4. ASSUME NEW suspend, SetSuspended(suspend) PROVE KeyInv'
    BY <1>4, OthersKeepKeys DEF SetSuspended, StepsIn
  <1>5. ASSUME NEW plan, OverridesPlan(plan) PROVE KeyInv'
    BY <1>5, OthersKeepKeys DEF OverridesPlan, StepsIn
  <1>6. ASSUME Reconciles PROVE KeyInv'
    BY <1>6, OthersKeepKeys DEF Reconciles, StepsIn
  <1>7. ASSUME Wakes \/ Misses \/ DayPasses PROVE KeyInv'
    BY <1>7, OthersKeepKeys DEF Wakes, Misses, DayPasses
  <1>8. ASSUME NEW accepted, Works(accepted) PROVE KeyInv'
    BY <1>8, OthersKeepKeys DEF Works, Races
  <1>9. CASE UNCHANGED vars
    BY <1>9, OthersKeepKeys DEF vars
  <1> QED
    BY <1>1, <1>2, <1>3, <1>4, <1>5, <1>6, <1>7, <1>8, <1>9, CallsGatewayKeepsKeys,
       CommitsKeepsKeys, FailsKeepsKeys DEF Next

\* One idempotency key is one change at the gateway, whatever the number of keys and of
\* requests in flight (idempotency.py, BillingIdempotencyService.begin).
THEOREM KeysChangeOnce == Spec => []ChangedOnce
  <1>1. Init => Typed /\ KeyInv
    BY InitTypes, KeyInvInit
  <1>2. Typed /\ KeyInv /\ [Next]_vars => (Typed /\ KeyInv)'
    BY TypesStep, KeyInvStep
  <1>3. KeyInv => ChangedOnce
    BY DEF KeyInv
  <1> QED BY <1>1, <1>2, <1>3, PTL DEF Spec
-----------------------------------------------------------------------------
(* An ended subscription is closed.                                        *)

Closed(s, o) == s.status \in Ended => \/ o.status \in {"suspended", "cancelled"}
                                      \/ o.gone = "purged"
Excused == history.lifted \/ history.raced

\* The nightly pass is only for organizations that are there.
EndedInv == /\ Excused \/ Closed(sub, org)
            /\ pass.pc # "idle" => pass.org.gone = "no"

LEMMA EndedInvInit == ASSUME Init PROVE EndedInv
  BY DEF Init, EndedInv, Closed, Created, Asleep, Ended

\* A flush over what was read writes what was meant.
LEMMA FlushOverRead ==
  /\ \A s, new \in Subscription : Flush(s, s, new) = new
  /\ \A o, new \in Organization : Flush(o, o, new) = new
  <1>1. ASSUME NEW s \in Subscription, NEW new \in Subscription
        PROVE  Flush(s, s, new) = new
    <2>1. DOMAIN s = DOMAIN new /\ new = [c \in DOMAIN new |-> new[c]]
      BY DEF Subscription
    <2> QED BY <2>1 DEF Flush
  <1>2. ASSUME NEW o \in Organization, NEW new \in Organization
        PROVE  Flush(o, o, new) = new
    <2>1. DOMAIN o = DOMAIN new /\ new = [c \in DOMAIN new |-> new[c]]
      BY DEF Organization
    <2> QED BY <2>1 DEF Flush
  <1> QED BY <1>1, <1>2

LEMMA ExcusesStay ==
  ASSUME history \in History, NEW read
  PROVE  /\ Races(read).lifted = history.lifted
         /\ Races(read).raced <=> history.raced \/ sub # read.sub \/ org # read.org
  BY DEF Races, History

\* Requests that do not write the rows, and the calendar.
LEMMA StatusKept ==
  ASSUME Typed, EndedInv, sub'.status = sub.status, UNCHANGED org, Excused => Excused',
         pass' = pass \/ pass' = Asleep
  PROVE  EndedInv'
  <1>1. pass'.pc # "idle" => pass'.org.gone = "no"
    BY DEF EndedInv, Asleep
  <1>2. Closed(sub, org) => Closed(sub, org)'
    BY DEF Closed
  <1> QED BY <1>1, <1>2 DEF EndedInv

LEMMA CommitsKeepsEnded ==
  ASSUME Typed, EndedInv, NEW r \in Requests, Commits(r)
  PROVE  EndedInv'
  <1> DEFINE read == request[r]
             new == IF read.plan = Never THEN Cancelling(read.sub)
                    ELSE Chosen(read.sub, read.plan)
  <1>1. /\ read.sub \in Subscription /\ read.org \in Organization
        /\ read.plan \in Plans \cup {Never}
        /\ sub \in Subscription /\ org \in Organization /\ history \in History
    BY DEF Commits, Typed, TypeOK, Reads
  <1>2. /\ history'.lifted = history.lifted
        /\ history'.raced <=> history.raced \/ sub # read.sub \/ org # read.org
    <2>1. history' = [Races(read) EXCEPT
                         !.chosen = @ \/ (read.plan # Never /\ read.sub.status = "expired")]
      BY DEF Commits
    <2> HIDE DEF read
    <2>2. history'.lifted = Races(read).lifted /\ history'.raced = Races(read).raced
      BY <2>1
    <2> QED BY <1>1, <2>2, ExcusesStay
  <1>3. UNCHANGED pass
    BY DEF Commits
  <1>4. CASE Excused \/ sub # read.sub \/ org # read.org
    BY <1>2, <1>3, <1>4 DEF EndedInv, Excused
  <1>5. CASE ~Excused /\ sub = read.sub /\ org = read.org
    <2>1. Plans # {} /\ Closed(sub, org)
      BY <1>5, SubscriptionConstants DEF SubscriptionConstants, EndedInv
    <2>2. new \in Subscription
      BY <1>1, <2>1, ChosenType
    <2>3. sub' = new
      <3>1. sub' = Flush(sub, read.sub, new)
        BY DEF Commits
      <3> QED BY <3>1, <2>2, <1>1, <1>5, FlushOverRead
    <2>4. CASE read.plan = Never
      <3>1. org' = org /\ sub'.status = sub.status
        BY <2>3, <2>4, <1>1, <1>5 DEF Commits, Cancelling, Subscription
      <3> QED BY <2>1, <3>1, <1>3 DEF EndedInv, Closed
    <2>5. CASE read.plan # Never
      <3>1. sub'.status \in {"trialing", "active"}
        BY <2>3, <2>5, <1>1 DEF Chosen, Subscription
      <3> QED BY <3>1, <1>3 DEF EndedInv, Closed, Ended
    <2> QED BY <2>4, <2>5
  <1> QED BY <1>4, <1>5

LEMMA EventCloses ==
  ASSUME NEW s \in Subscription, NEW o \in Organization, NEW event \in Event
  PROVE  Closed(SubAfter(event, s), OrgAfter(event, o))
  BY DEF Closed, SubAfter, OrgAfter, Ended, Event, Subscription, Organization

LEMMA AppliesKeepsEnded ==
  ASSUME Typed, EndedInv, NEW w \in Webhooks, Applies(w)
  PROVE  EndedInv'
  <1> DEFINE read == webhook[w]
             s == SubAfter(read.event, read.sub)
             o == OrgAfter(read.event, read.org)
  <1>1. /\ read.event \in Event /\ read.sub \in Subscription /\ read.org \in Organization
        /\ sub \in Subscription /\ org \in Organization /\ history \in History
    BY DEF Applies, Typed, TypeOK, Reads
  <1>2. s \in Subscription /\ o \in Organization /\ Closed(s, o)
    BY <1>1, EventTypes, EventCloses
  <1>3. /\ sub' = Flush(sub, read.sub, s) /\ org' = Flush(org, read.org, o)
        /\ history' = IF s = read.sub /\ o = read.org THEN history ELSE Races(read)
        /\ pass' = pass
    BY DEF Applies
  <1> HIDE DEF read, s, o
  <1>4. CASE s = read.sub /\ o = read.org
    <2>1. sub' = sub /\ org' = org
      <3>1. \A x \in Subscription : Flush(sub, x, x) = sub
        BY <1>1 DEF Flush, Subscription
      <3>2. \A x \in Organization : Flush(org, x, x) = org
        BY <1>1 DEF Flush, Organization
      <3> QED BY <1>1, <1>3, <1>4, <3>1, <3>2
    <2> QED BY <1>3, <1>4, <2>1, StatusKept DEF Excused
  <1>5. CASE ~(s = read.sub /\ o = read.org)
    <2>1. history' = Races(read)
      BY <1>3, <1>5
    <2>2. CASE Excused \/ sub # read.sub \/ org # read.org
      BY <1>1, <1>3, <2>1, <2>2, ExcusesStay DEF EndedInv, Excused
    <2>3. CASE sub = read.sub /\ org = read.org
      <3>1. sub' = s /\ org' = o
        BY <1>1, <1>2, <1>3, <2>3, FlushOverRead
      <3>2. Closed(sub, org)'
        BY <1>2, <3>1 DEF Closed
      <3> QED BY <1>3, <3>2 DEF EndedInv
    <2> QED BY <2>2, <2>3
  <1> QED BY <1>4, <1>5

LEMMA PlatformKeepsEnded ==
  ASSUME Typed, EndedInv,
         \/ \E suspend \in BOOLEAN : SetSuspended(suspend)
         \/ \E plan \in Plans : OverridesPlan(plan)
         \/ Reconciles
  PROVE  EndedInv'
  <1>1. UNCHANGED pass
    BY DEF SetSuspended, OverridesPlan, Reconciles, StepsIn
  <1>2. ASSUME NEW suspend \in BOOLEAN, SetSuspended(suspend) PROVE EndedInv'
    <2>1. sub' = sub /\ org.gone # "purged" /\ history'.raced = history.raced
      BY <1>2 DEF SetSuspended, StepsIn, Typed, TypeOK, History
    <2>2. history'.lifted <=> history.lifted \/ (~suspend /\ sub.status \in Ended)
      BY <1>2 DEF SetSuspended, Typed, TypeOK, History
    <2>3. org'.status = IF suspend THEN "suspended" ELSE "active"
      BY <1>2 DEF SetSuspended, Typed, TypeOK, Organization
    <2> QED BY <1>1, <2>1, <2>2, <2>3 DEF EndedInv, Closed, Excused
  <1>3. ASSUME NEW plan \in Plans, OverridesPlan(plan) PROVE EndedInv'
    <2>1. sub'.status = "active"
      BY <1>3 DEF OverridesPlan, Typed, TypeOK, Subscription
    <2> QED BY <1>1, <2>1 DEF EndedInv, Closed, Ended
  <1>4. ASSUME Reconciles PROVE EndedInv'
    <2>1. PICK over \in BOOLEAN :
             /\ org' = [org EXCEPT !.status = CASE over -> "over_limit"
                                                [] ~over /\ @ = "over_limit" -> "active"
                                                [] OTHER -> @]
             /\ history' = [history EXCEPT !.lifted = @ \/ (over /\ sub.status \in Ended)]
      BY <1>4 DEF Reconciles
    <2>2. sub' = sub /\ org.gone # "purged"
      BY <1>4 DEF Reconciles, StepsIn
    <2>3. /\ history'.raced = history.raced
          /\ history'.lifted <=> history.lifted \/ (over /\ sub.status \in Ended)
      BY <2>1 DEF Typed, TypeOK, History
    <2>4. org'.status = CASE over -> "over_limit"
                          [] ~over /\ org.status = "over_limit" -> "active"
                          [] OTHER -> org.status
      BY <2>1 DEF Typed, TypeOK, Organization
    <2>5. CASE over
      BY <1>1, <2>2, <2>3, <2>5 DEF EndedInv, Closed, Excused
    <2>6. CASE ~over
      <3>1. org.status \in {"suspended", "cancelled"} => org'.status = org.status
        BY <2>4, <2>6
      <3> QED BY <1>1, <2>2, <2>3, <3>1 DEF EndedInv, Closed, Excused
    <2> QED BY <2>5, <2>6
  <1> QED BY <1>2, <1>3, <1>4

LEMMA NightCloses ==
  ASSUME NEW s \in Subscription, NEW o \in Organization, Closed(s, o), o.gone = "no"
  PROVE  Closed(SubByNight(s), OrgByNight(s, o))
  <1>1. SubByNight(s).status = CASE PeriodOver(s) -> "cancelled"
                                 [] ~PeriodOver(s) /\ TrialOver(s) -> "expired"
                                 [] ~PeriodOver(s) /\ GraceOver(s) -> "suspended"
                                 [] OTHER -> s.status
    BY DEF SubByNight, Subscription, TrialOver, GraceOver
  <1>2. OrgByNight(s, o).status = CASE PeriodOver(s) -> "cancelled"
                                    [] ~PeriodOver(s) /\ (TrialOver(s) \/ GraceOver(s)) -> "suspended"
                                    [] OTHER -> o.status
    BY DEF OrgByNight
  <1>3. CASE PeriodOver(s) \/ TrialOver(s) \/ GraceOver(s)
    BY <1>2, <1>3 DEF Closed
  <1>4. CASE ~(PeriodOver(s) \/ TrialOver(s) \/ GraceOver(s))
    <2>1. SubByNight(s).status = s.status /\ OrgByNight(s, o).status = o.status
      BY <1>1, <1>2, <1>4
    <2> QED BY <2>1 DEF Closed
  <1> QED BY <1>3, <1>4

LEMMA WorksKeepsEnded ==
  ASSUME Typed, EndedInv, NEW accepted \in BOOLEAN, Works(accepted)
  PROVE  EndedInv'
  <1> DEFINE s == SubByNight(pass.sub)
             o == OrgByNight(pass.sub, pass.org)
  <1>1. /\ pass.sub \in Subscription /\ pass.org \in Organization /\ pass.org.gone = "no"
        /\ sub \in Subscription /\ org \in Organization /\ history \in History
        /\ pass'.pc = "idle"
    BY DEF Works, Typed, TypeOK, Reads, EndedInv, Asleep
  <1>2. s \in Subscription /\ o \in Organization
    BY <1>1, NightTypes
  <1>3. sub' = Flush(sub, pass.sub, s)
    BY DEF Works
  <1>4. CASE DeletionDue(s, o)
    <2>1. org'.gone = "purged"
      BY <1>1, <1>4 DEF Works, Organization
    <2> QED BY <1>1, <2>1 DEF EndedInv, Closed
  <1>5. CASE ~DeletionDue(s, o) /\ s = pass.sub /\ o = pass.org
    <2>1. org' = Flush(org, pass.org, o) /\ history' = history
      BY <1>5 DEF Works
    <2>2. sub' = sub /\ org' = org
      <3>1. \A x \in Subscription : Flush(sub, x, x) = sub
        BY <1>1 DEF Flush, Subscription
      <3>2. \A x \in Organization : Flush(org, x, x) = org
        BY <1>1 DEF Flush, Organization
      <3> QED BY <1>1, <1>3, <1>5, <2>1, <3>1, <3>2
    <2> QED BY <1>1, <2>1, <2>2 DEF EndedInv, Closed, Excused
  <1>6. CASE ~DeletionDue(s, o) /\ ~(s = pass.sub /\ o = pass.org)
    <2>1. org' = Flush(org, pass.org, o) /\ history' = Races(pass)
      BY <1>6 DEF Works
    <2>2. CASE Excused \/ sub # pass.sub \/ org # pass.org
      BY <1>1, <2>1, <2>2, ExcusesStay DEF EndedInv, Excused
    <2>3. CASE ~Excused /\ sub = pass.sub /\ org = pass.org
      <3>1. sub' = s /\ org' = o
        BY <1>1, <1>2, <1>3, <2>1, <2>3, FlushOverRead
      <3>2. Closed(sub, org)
        BY <2>3 DEF EndedInv
      <3>3. Closed(s, o)
        BY <1>1, <2>3, <3>2, NightCloses
      <3> HIDE DEF s, o
      <3>4. Closed(sub, org)'
        BY <3>1, <3>3 DEF Closed
      <3> QED BY <1>1, <3>4 DEF EndedInv
    <2> QED BY <2>2, <2>3
  <1> QED BY <1>4, <1>5, <1>6

LEMMA EndedStep == ASSUME Typed, EndedInv, [Next]_vars PROVE EndedInv'
  <1>1. ASSUME NEW r \in Requests, NEW k, NEW plan, Begins(r, k, plan) PROVE EndedInv'
    BY <1>1, StatusKept DEF Begins, Excused
  <1>2. ASSUME NEW r \in Requests, CallsGateway(r) PROVE EndedInv'
    BY <1>2, StatusKept DEF CallsGateway, Excused
  <1>3. ASSUME NEW r \in Requests, Fails(r) PROVE EndedInv'
    <2>1. history'.lifted = history.lifted /\ history'.raced = history.raced
      BY <1>3 DEF Fails, Typed, TypeOK, History
    <2> QED BY <1>3, <2>1, StatusKept DEF Fails, Excused
  <1>4. ASSUME Wakes PROVE EndedInv'
    BY <1>4 DEF Wakes, EndedInv, Closed, Excused
  <1>5. ASSUME NEW w, NEW event, Misses \/ Delivers(w, event) \/ FindsNoRow(w) PROVE EndedInv'
    BY <1>5, StatusKept DEF Misses, Delivers, FindsNoRow, Excused
  <1>6. ASSUME DayPasses PROVE EndedInv'
    <2>1. sub'.status = sub.status
      BY <1>6 DEF DayPasses, Typed, TypeOK, Subscription
    <2> QED BY <1>6, <2>1, StatusKept DEF DayPasses, Excused
  <1>7. CASE UNCHANGED vars
    BY <1>7, StatusKept DEF vars, Excused
  <1> QED
    BY <1>1, <1>2, <1>3, <1>4, <1>5, <1>6, <1>7, CommitsKeepsEnded, AppliesKeepsEnded,
       PlatformKeepsEnded, WorksKeepsEnded DEF Next, Cancels, Chooses

\* Write access ends with the subscription, in every interleaving of requests, webhooks and
\* nights whose rows nobody else changed meanwhile (jobs.py, process_billing_lifecycle).
THEOREM EndedStaysClosed == Spec => []EndedMeansClosed
  <1>1. Init => Typed /\ EndedInv
    BY InitTypes, EndedInvInit
  <1>2. Typed /\ EndedInv /\ [Next]_vars => (Typed /\ EndedInv)'
    BY TypesStep, EndedStep
  <1>3. EndedInv => EndedMeansClosed
    BY DEF EndedInv, EndedMeansClosed, Closed, Excused
  <1> QED BY <1>1, <1>2, <1>3, PTL DEF Spec

-----------------------------------------------------------------------------
(* A deletion waits for its warning.                                       *)

\* While a pass is at work, the trial that was warned about stays the one it read.
SameTrial == pass.pc # "idle" /\ warned # Never => sub.trial = pass.sub.trial

LEMMA SameTrialInit == ASSUME Init PROVE SameTrial
  BY DEF Init, SameTrial, Asleep

LEMMA TrialKept ==
  ASSUME SameTrial, UNCHANGED <<pass, warned>>, sub'.trial = sub.trial
  PROVE  SameTrial'
  BY DEF SameTrial

LEMMA FlushedTrial ==
  ASSUME NEW now \in Subscription, NEW read \in Subscription, NEW new \in Subscription,
         new.trial = read.trial
  PROVE  Flush(now, read, new).trial = now.trial
  BY DEF Flush, Subscription

LEMMA CommitsKeepsTrial ==
  ASSUME Typed, SameTrial, NEW r \in Requests, Commits(r)
  PROVE  SameTrial'
  <1> DEFINE read == request[r]
             new == IF read.plan = Never THEN Cancelling(read.sub)
                    ELSE Chosen(read.sub, read.plan)
  <1>1. /\ read.sub \in Subscription /\ read.plan \in Plans \cup {Never}
        /\ sub \in Subscription /\ Plans # {}
    BY SubscriptionConstants DEF Commits, Typed, TypeOK, Reads, SubscriptionConstants
  <1>2. new \in Subscription
    BY <1>1, ChosenType
  <1>3. sub' = Flush(sub, read.sub, new) /\ pass' = pass
    BY DEF Commits
  <1>4. CASE read.plan # Never /\ Restarts(read.sub, read.plan)
    <2>1. warned' = Never
      BY <1>4 DEF Commits
    <2> QED BY <2>1 DEF SameTrial
  <1>5. CASE ~(read.plan # Never /\ Restarts(read.sub, read.plan))
    <2>1. warned' = warned
      BY <1>5 DEF Commits
    <2>2. new.trial = read.sub.trial
      BY <1>1, <1>5 DEF Chosen, Cancelling, Subscription
    <2>3. sub'.trial = sub.trial
      BY <1>1, <1>2, <1>3, <2>2, FlushedTrial
    <2> QED BY <1>3, <2>1, <2>3, TrialKept
  <1> QED BY <1>4, <1>5

LEMMA TrialStep == ASSUME Typed, SameTrial, [Next]_vars PROVE SameTrial'
  <1>1. ASSUME NEW r \in Requests, NEW k, NEW plan,
               Begins(r, k, plan) \/ CallsGateway(r) \/ Fails(r)
        PROVE  SameTrial'
    BY <1>1, TrialKept DEF Begins, CallsGateway, Fails
  <1>2. ASSUME NEW w \in Webhooks, NEW event,
               Delivers(w, event) \/ Applies(w) \/ FindsNoRow(w)
        PROVE  SameTrial'
    <2>1. CASE Delivers(w, event) \/ FindsNoRow(w)
      BY <2>1, TrialKept DEF Delivers, FindsNoRow
    <2>2. CASE Applies(w)
      <3> DEFINE read == webhook[w]
                 s == SubAfter(read.event, read.sub)
      <3>1. /\ read.event \in Event /\ read.sub \in Subscription /\ read.org \in Organization
            /\ sub \in Subscription
        BY <2>2 DEF Applies, Typed, TypeOK, Reads
      <3>2. s \in Subscription /\ s.trial = read.sub.trial
        <4>1. \A x \in Subscription, e \in Event : SubAfter(e, x).trial = x.trial
          BY DEF SubAfter, Subscription
        <4> HIDE DEF read
        <4> QED BY <3>1, <4>1, EventTypes
      <3>3. sub' = Flush(sub, read.sub, s)
        BY <2>2 DEF Applies
      <3> HIDE DEF read, s
      <3>4. sub'.trial = sub.trial
        BY <3>1, <3>2, <3>3, FlushedTrial
      <3> QED BY <2>2, <3>4, TrialKept DEF Applies
    <2> QED BY <1>2, <2>1, <2>2
  <1>3. ASSUME NEW suspend, NEW plan,
               SetSuspended(suspend) \/ OverridesPlan(plan) \/ Reconciles
        PROVE  SameTrial'
    <2>1. sub'.trial = sub.trial
      BY <1>3 DEF SetSuspended, OverridesPlan, Reconciles, Typed, TypeOK, Subscription
    <2> QED BY <1>3, <2>1, TrialKept DEF SetSuspended, OverridesPlan, Reconciles, StepsIn
  <1>4. ASSUME Wakes PROVE SameTrial'
    BY <1>4 DEF Wakes, SameTrial
  <1>5. ASSUME NEW accepted, Misses \/ DayPasses \/ Works(accepted) PROVE SameTrial'
    BY <1>5 DEF Misses, DayPasses, Works, Asleep, SameTrial
  <1>6. CASE UNCHANGED vars
    BY <1>6, TrialKept DEF vars
  <1> QED
    BY <1>1, <1>2, <1>3, <1>4, <1>5, <1>6, CommitsKeepsTrial DEF Next, Cancels, Chooses

LEMMA OnlyNightsDelete ==
  ASSUME Typed, [Next]_vars, org'.gone = "purged", org.gone # "purged"
  PROVE  \E accepted \in BOOLEAN : Works(accepted)
  <1>1. ASSUME NEW r \in Requests, Commits(r) PROVE FALSE
    <2> DEFINE read == request[r]
    <2>1. /\ read.sub \in Subscription /\ read.org \in Organization
          /\ org \in Organization
      BY <1>1 DEF Commits, Typed, TypeOK, Reads
    <2>2. PICK over \in BOOLEAN :
             org' = IF read.plan = Never THEN org
                    ELSE Flush(org, read.org, Reopened(read.sub, read.org, over))
      BY <1>1 DEF Commits
    <2>3. Reopened(read.sub, read.org, over).gone = read.org.gone
          /\ Reopened(read.sub, read.org, over) \in Organization
      BY <2>1, ReopenedType DEF Reopened, Organization
    <2>4. org'.gone = org.gone
      BY <2>1, <2>2, <2>3 DEF Flush, Organization
    <2> QED BY <2>4
  <1>2. ASSUME NEW r, NEW k, NEW plan, Begins(r, k, plan) \/ CallsGateway(r) \/ Fails(r)
        PROVE  FALSE
    BY <1>2 DEF Begins, CallsGateway, Fails
  <1>3. ASSUME NEW w \in Webhooks, NEW event,
               Delivers(w, event) \/ Applies(w) \/ FindsNoRow(w)
        PROVE  FALSE
    <2>1. CASE Delivers(w, event) \/ FindsNoRow(w)
      BY <2>1 DEF Delivers, FindsNoRow
    <2>2. CASE Applies(w)
      <3> DEFINE read == webhook[w]
                 o == OrgAfter(read.event, read.org)
      <3>1. /\ read.event \in Event /\ read.sub \in Subscription /\ read.org \in Organization
            /\ org \in Organization
        BY <2>2 DEF Applies, Typed, TypeOK, Reads
      <3>2. o \in Organization /\ o.gone = read.org.gone
        BY <3>1, EventTypes DEF OrgAfter, Organization
      <3>3. org' = Flush(org, read.org, o)
        BY <2>2 DEF Applies
      <3> HIDE DEF read, o
      <3>4. org'.gone = org.gone
        BY <3>1, <3>2, <3>3 DEF Flush, Organization
      <3> QED BY <3>4
    <2> QED BY <1>3, <2>1, <2>2
  <1>4. ASSUME NEW suspend, NEW plan,
               SetSuspended(suspend) \/ OverridesPlan(plan) \/ Reconciles
        PROVE  FALSE
    <2>1. \A x : [org EXCEPT !.status = x].gone = org.gone
      BY DEF Typed, TypeOK, Organization
    <2>2. org'.gone = org.gone
      BY <1>4, <2>1 DEF SetSuspended, OverridesPlan, Reconciles
    <2> QED BY <2>2
  <1>5. ASSUME Wakes \/ Misses \/ DayPasses \/ UNCHANGED vars PROVE FALSE
    BY <1>5 DEF Wakes, Misses, DayPasses, vars
  <1> QED BY <1>1, <1>2, <1>3, <1>4, <1>5 DEF Next, Cancels, Chooses

LEMMA DeletionWaits ==
  ASSUME Typed, EndedInv, SameTrial, [Next]_vars, org'.gone = "purged", org.gone # "purged"
  PROVE  /\ warned # Never /\ warned >= Notice
         /\ sub.trial # Never /\ sub.trial >= Trial + Grace
         /\ sub'.status = "expired" \/ history'.raced
  <1>1. PICK accepted \in BOOLEAN : Works(accepted)
    BY OnlyNightsDelete
  <1> DEFINE s == SubByNight(pass.sub)
             o == OrgByNight(pass.sub, pass.org)
  <1>2. /\ pass.sub \in Subscription /\ pass.org \in Organization /\ pass.org.gone = "no"
        /\ sub \in Subscription /\ org \in Organization /\ history \in History
        /\ pass.pc # "idle"
    BY <1>1 DEF Works, Typed, TypeOK, Reads, EndedInv
  <1>3. s \in Subscription /\ o \in Organization
    BY <1>2, NightTypes
  <1>4. DeletionDue(s, o)
    <2>1. ASSUME ~DeletionDue(s, o) PROVE FALSE
      <3>1. org' = Flush(org, pass.org, o)
        BY <1>1, <2>1 DEF Works
      <3>2. o.gone # "purged"
        BY <1>2 DEF OrgByNight
      <3>3. org'.gone # "purged"
        BY <1>2, <1>3, <3>1, <3>2 DEF Flush, Organization
      <3> QED BY <3>3
    <2> QED BY <2>1
  <1>5. s.trial = pass.sub.trial
    BY <1>2 DEF SubByNight, Subscription
  <1>6. /\ warned # Never /\ warned >= Notice
        /\ s.status = "expired" /\ s.trial # Never /\ s.trial >= Trial + Grace
    BY <1>4 DEF DeletionDue, Retained
  <1>7. sub.trial = pass.sub.trial
    BY <1>2, <1>6 DEF SameTrial
  <1>8. sub'.status = "expired" \/ history'.raced
    <2>1. sub' = Flush(sub, pass.sub, s) /\ history' = Races(pass)
      BY <1>1, <1>4 DEF Works
    <2>2. CASE sub = pass.sub
      BY <1>2, <1>3, <1>6, <2>1, <2>2, FlushOverRead
    <2>3. CASE sub # pass.sub
      BY <1>2, <2>1, <2>3, ExcusesStay
    <2> QED BY <2>2, <2>3
  <1> QED BY <1>5, <1>6, <1>7, <1>8

\* No trial is deleted before its warning was sent and is Notice days old, nor, unless the
\* pass and a request overlapped, once a plan was chosen (trial_retention.py, "WHY THE
\* DELETION WAITS FOR THE WARNING").
THEOREM DeletionsWait == Spec => DeletedAfterWarning
  <1>1. Init => Typed /\ EndedInv /\ SameTrial
    BY InitTypes, EndedInvInit, SameTrialInit
  <1>2. Typed /\ EndedInv /\ SameTrial /\ [Next]_vars => (Typed /\ EndedInv /\ SameTrial)'
    BY TypesStep, EndedStep, TrialStep
  <1>3. Typed /\ EndedInv /\ SameTrial /\ [Next]_vars
        => [org'.gone = "purged" /\ org.gone # "purged"
            => /\ warned # Never /\ warned >= Notice
               /\ sub.trial # Never /\ sub.trial >= Trial + Grace
               /\ sub'.status = "expired" \/ history'.raced]_vars
    <2> SUFFICES ASSUME Typed, EndedInv, SameTrial, [Next]_vars,
                        org'.gone = "purged", org.gone # "purged"
                 PROVE  /\ warned # Never /\ warned >= Notice
                        /\ sub.trial # Never /\ sub.trial >= Trial + Grace
                        /\ sub'.status = "expired" \/ history'.raced
      OBVIOUS
    <2> QED BY DeletionWaits
  <1> QED BY <1>1, <1>2, <1>3, PTL DEF Spec, DeletedAfterWarning

-----------------------------------------------------------------------------
(* Test papers (TestPapers): the invariant.                                *)

Sorted(kinds) == \A i, j \in DOMAIN kinds : i < j => kinds[i] <= kinds[j]

\* The places P of a paper over the questions B: existing questions, once each, numbered
\* without a gap, in the order of their sections.
Laid(P, B) ==
    /\ P \subseteq Place
    /\ \A e \in P : e.question \in DOMAIN B
    /\ \E n \in 0..MaxQuestions : {e.position : e \in P} = 1..n
    /\ \A e, f \in P : e.question = f.question \/ e.position = f.position => e = f
    /\ \A e, f \in P : e.position < f.position => B[e.question].kind <= B[f.question].kind

\* An edit knows a question that exists.
Editing(t) == editor[t] # NoEdit =>
                  editor[t].paper \in Papers /\ editor[t].question \in DOMAIN bank

\* A worker knows its paper, and writes the sections in their order.
Writing(w) == /\ worker[w].pc # "idle" => worker[w].paper \in Papers
              /\ worker[w].pc = "written" => Sorted(worker[w].kinds)

PaperInv == /\ PapersTypeOK
            /\ Len(bank) <= MaxQuestions
            /\ \A p \in Papers : Laid(place[p], bank)
            /\ \A t \in Teachers : Editing(t)
            /\ \A w \in Workers : Writing(w)

-----------------------------------------------------------------------------
(* Places.                                                                 *)

LEMMA RankType == \A type \in Types : Rank(type) \in 1..Len(TypeOrder)
  <1>1. \A type \in Types : \E i \in DOMAIN TypeOrder : TypeOrder[i] = type
    BY DEF Types, ToSet
  <1>2. DOMAIN TypeOrder = 1..Len(TypeOrder)
    BY DEF TypeOrder
  <1> QED BY <1>1, <1>2 DEF Rank

LEMMA SlotType == \A i \in DOMAIN PaperSlots : PaperSlots[i].type \in Types
  <1>1. PICK T : T = [type: Types, level: Levels]
    OBVIOUS
  <1>2. PaperSlots \in Seq(T)
    BY <1>1, PaperConstants DEF PaperConstants
  <1>3. \A i \in DOMAIN PaperSlots : PaperSlots[i] \in T
    BY <1>2
  <1> QED BY <1>1, <1>3

\* The questions that fill slots, in the order of the slots, are in that of the sections.
LEMMA SectionsInOrder ==
  ASSUME NEW full \in SUBSET DOMAIN PaperSlots, NEW filled \in [1..Cardinality(full) -> full],
         \A i, j \in DOMAIN filled : i < j => filled[i] < filled[j]
  PROVE  LET kinds == [i \in DOMAIN filled |-> Rank(PaperSlots[filled[i]].type)]
         IN kinds \in Seq(1..Len(TypeOrder)) /\ Sorted(kinds)
  <1> DEFINE kinds == [i \in DOMAIN filled |-> Rank(PaperSlots[filled[i]].type)]
  <1>1. PaperSlots \in Seq([type: Types, level: Levels])
    BY PaperConstants DEF PaperConstants
  <1>2. Cardinality(full) \in Nat
    <2>1. Len(PaperSlots) \in Nat /\ DOMAIN PaperSlots = 1..Len(PaperSlots)
      BY <1>1
    <2>2. IsFiniteSet(1..Len(PaperSlots))
      BY <2>1, FS_Interval
    <2>3. IsFiniteSet(full)
      BY <2>1, <2>2, FS_Subset
    <2> QED BY <2>3, FS_CardinalityType
  <1>3. DOMAIN filled = 1..Cardinality(full)
    OBVIOUS
  <1>4. ASSUME NEW i \in DOMAIN filled
        PROVE  filled[i] \in DOMAIN PaperSlots /\ kinds[i] \in 1..Len(TypeOrder)
    <2>1. filled[i] \in DOMAIN PaperSlots
      BY <1>3
    <2> QED BY <2>1, SlotType, RankType
  <1>5. kinds \in Seq(1..Len(TypeOrder))
    <2>1. kinds \in [1..Cardinality(full) -> 1..Len(TypeOrder)]
      BY <1>3, <1>4
    <2> QED BY <1>2, <2>1
  <1>6. Sorted(kinds)
    <2>1. ASSUME NEW i \in DOMAIN filled, NEW j \in DOMAIN filled, i < j
          PROVE  kinds[i] <= kinds[j]
      <3>1. filled[i] < filled[j]
        BY <2>1
      <3>2. Rank(PaperSlots[filled[i]].type) <= Rank(PaperSlots[filled[j]].type)
        BY <1>4, <3>1, PaperConstants DEF PaperConstants
      <3> QED BY <3>2
    <2>2. DOMAIN kinds = DOMAIN filled
      OBVIOUS
    <2> HIDE DEF kinds
    <2> QED BY <2>1, <2>2 DEF Sorted
  <1> QED BY <1>5, <1>6

\* As many places as positions.
LEMMA LaidCount ==
  ASSUME NEW P, NEW B, Laid(P, B), NEW n \in Nat, {e.position : e \in P} = 1..n
  PROVE  IsFiniteSet(P) /\ Cardinality(P) = n
  <1>1. IsFiniteSet(1..n) /\ Cardinality(1..n) = n
    BY FS_Interval
  <1> DEFINE at == [i \in 1..n |-> CHOOSE e \in P : e.position = i]
  <1>2. \A i \in 1..n : at[i] \in P /\ at[i].position = i
    <2>1. \A i \in 1..n : \E e \in P : e.position = i
      OBVIOUS
    <2> QED BY <2>1
  <1>3. \A e \in P : e.position \in 1..n /\ at[e.position] = e
    <2>1. \A e \in P : e.position \in 1..n
      OBVIOUS
    <2> QED BY <1>2, <2>1 DEF Laid
  <1>4. at \in [1..n -> P]
    BY <1>2
  <1> HIDE DEF at
  <1>5. at \in Bijection(1..n, P)
    <2>1. at \in Injection(1..n, P)
      BY <1>2, <1>4 DEF Injection, IsInjective
    <2>2. at \in Surjection(1..n, P)
      BY <1>3, <1>4 DEF Surjection
    <2> QED BY <2>1, <2>2 DEF Bijection
  <1>6. ExistsBijection(1..n, P)
    BY <1>5 DEF ExistsBijection
  <1> QED BY <1>1, <1>6, FS_Bijection

LEMMA LaidIsInOrder ==
  ASSUME NEW P, NEW B, Laid(P, B)
  PROVE  /\ {e.position : e \in P} = 1..Cardinality(P)
         /\ Cardinality(P) \in 0..MaxQuestions
  <1>1. PICK n \in 0..MaxQuestions : {e.position : e \in P} = 1..n
    BY DEF Laid
  <1>2. Cardinality(P) = n
    BY <1>1, LaidCount
  <1> QED BY <1>1, <1>2

\* Questions of the same kind where there were questions: the places stay good.
LEMMA LaidOver ==
  ASSUME NEW P, NEW B, NEW C, Laid(P, B), DOMAIN B \subseteq DOMAIN C,
         \A q \in DOMAIN B : C[q].kind = B[q].kind
  PROVE  Laid(P, C)
  BY DEF Laid

LEMMA NothingLaid ==
  ASSUME NEW B
  PROVE  Laid({}, B)
  <1>1. 0 \in 0..MaxQuestions /\ {e.position : e \in {}} = 1..0
    BY PaperConstants DEF PaperConstants
  <1> QED BY <1>1 DEF Laid

\* What is asked of the places Q is asked of their questions and positions only.
LEMMA LaidBy ==
  ASSUME NEW Q, NEW B, Q \subseteq Place, NEW n \in 0..MaxQuestions,
         \A e \in Q : e.question \in DOMAIN B /\ e.position \in 1..n,
         \A i \in 1..n : \E e \in Q : e.position = i,
         \A e, f \in Q : e.question = f.question \/ e.position = f.position => e = f,
         \A e, f \in Q : e.position < f.position => B[e.question].kind <= B[f.question].kind
  PROVE  Laid(Q, B)
  <1>1. {e.position : e \in Q} = 1..n
    OBVIOUS
  <1> QED BY <1>1 DEF Laid

\* A place after others were opened or closed before it.
At(by, x, at) == IF x.position >= at THEN x.position + by ELSE x.position

LEMMA MovedIs ==
  ASSUME NEW Q, Q \subseteq Place, NEW by \in Int, NEW at \in Int,
         \A x \in Q : At(by, x, at) \in 1..MaxQuestions
  PROVE  /\ MovedBy(by, Q, at) \subseteq Place
         /\ \A y \in MovedBy(by, Q, at) :
               \E x \in Q : y.question = x.question /\ y.position = At(by, x, at)
         /\ \A x \in Q : \E y \in MovedBy(by, Q, at) :
               y.question = x.question /\ y.position = At(by, x, at)
  <1> DEFINE moved(x) == IF x.position >= at THEN [x EXCEPT !.position = @ + by] ELSE x
  <1>1. ASSUME NEW x \in Q
        PROVE  /\ moved(x) \in Place /\ moved(x).question = x.question
               /\ moved(x).position = At(by, x, at)
    <2>1. x \in Place
      OBVIOUS
    <2>2. CASE x.position >= at
      <3>1. PICK i \in 1..MaxQuestions : i = x.position + by
        BY <2>2 DEF At
      <3>2. moved(x) = [x EXCEPT !.position = i]
        BY <2>1, <2>2, <3>1 DEF Place
      <3> QED BY <2>1, <2>2, <3>1, <3>2 DEF Place, At
    <2>3. CASE ~(x.position >= at)
      BY <2>1, <2>3 DEF At
    <2> QED BY <2>2, <2>3
  <1>2. MovedBy(by, Q, at) = {moved(x) : x \in Q}
    BY DEF MovedBy
  <1> HIDE DEF moved
  <1> QED BY <1>1, <1>2

LEMMA MovedUpIs ==
  ASSUME NEW Q, Q \subseteq Place, NEW at \in Int,
         \A x \in Q : At(1, x, at) \in 1..MaxQuestions
  PROVE  /\ MovedBy(1, Q, at) \subseteq Place
         /\ \A y \in MovedBy(1, Q, at) :
               \E x \in Q : y.question = x.question /\ y.position = At(1, x, at)
         /\ \A x \in Q : \E y \in MovedBy(1, Q, at) :
               y.question = x.question /\ y.position = At(1, x, at)
  <1>1. PICK by \in Int : by = 1
    OBVIOUS
  <1>2. \A x \in Q : At(by, x, at) \in 1..MaxQuestions
    BY <1>1
  <1>3. /\ MovedBy(by, Q, at) \subseteq Place
        /\ \A y \in MovedBy(by, Q, at) :
              \E x \in Q : y.question = x.question /\ y.position = At(by, x, at)
        /\ \A x \in Q : \E y \in MovedBy(by, Q, at) :
              y.question = x.question /\ y.position = At(by, x, at)
    BY <1>2, MovedIs
  <1> QED BY <1>1, <1>3

LEMMA RemovedIsLaid ==
  ASSUME NEW P, NEW B, Laid(P, B), NEW e \in P
  PROVE  Laid(MovedBy(0 - 1, P \ {e}, e.position), B)
  <1>1. PICK n \in 0..MaxQuestions : {x.position : x \in P} = 1..n
    BY DEF Laid
  <1>2. MaxQuestions \in Nat
    BY PaperConstants DEF PaperConstants
  <1>3. P \subseteq Place /\ \A x \in P : x.position \in 1..n /\ x.question \in DOMAIN B
    BY <1>1 DEF Laid
  <1>4. PICK at \in 1..n : at = e.position
    BY <1>3
  <1>5. PICK Q : Q = P \ {e}
    OBVIOUS
  <1>6. ASSUME NEW x \in Q
        PROVE  /\ x.position # at
               /\ At(0 - 1, x, at) \in 1..(n - 1)
               /\ x.position < at => At(0 - 1, x, at) = x.position
               /\ x.position > at => At(0 - 1, x, at) = x.position - 1
    <2>1. x.position # at
      BY <1>4, <1>5 DEF Laid
    <2> QED BY <1>3, <1>5, <2>1 DEF At
  <1>7. PICK M : M = MovedBy(0 - 1, Q, at)
    OBVIOUS
  <1>8. /\ M \subseteq Place
        /\ \A y \in M : \E x \in Q : y.question = x.question /\ y.position = At(0 - 1, x, at)
        /\ \A x \in Q : \E y \in M : y.question = x.question /\ y.position = At(0 - 1, x, at)
    <2>1. \A x \in Q : At(0 - 1, x, at) \in 1..MaxQuestions
      BY <1>2, <1>6
    <2>2. Q \subseteq Place
      BY <1>3, <1>5
    <2> QED BY <1>7, <2>1, <2>2, MovedIs
  <1>9. n - 1 \in 0..MaxQuestions
    BY <1>2
  <1>10. \A y \in M : y.question \in DOMAIN B /\ y.position \in 1..(n - 1)
    BY <1>3, <1>5, <1>6, <1>8
  <1>11. ASSUME NEW i \in 1..(n - 1) PROVE \E y \in M : y.position = i
    <2> \A j \in 1..n : \E x \in P : x.position = j
      BY <1>1
    <2>1. CASE i < at
      <3>1. PICK x \in P : x.position = i
        BY <1>2
      <3>2. x \in Q /\ At(0 - 1, x, at) = i
        BY <1>4, <1>5, <1>6, <2>1, <3>1
      <3> QED BY <1>8, <3>2
    <2>2. CASE i >= at
      <3>1. PICK x \in P : x.position = i + 1
        BY <1>2
      <3>2. x \in Q /\ At(0 - 1, x, at) = i
        BY <1>4, <1>5, <1>6, <2>2, <3>1
      <3> QED BY <1>8, <3>2
    <2> QED BY <2>1, <2>2
  <1>12. ASSUME NEW x \in Q, NEW y \in Q
         PROVE  /\ At(0 - 1, x, at) = At(0 - 1, y, at) => x = y
                /\ At(0 - 1, x, at) < At(0 - 1, y, at) => x.position < y.position
    <2>1. x.position \in Nat /\ y.position \in Nat
      BY <1>3, <1>5
    <2>2. At(0 - 1, x, at) = At(0 - 1, y, at) => x.position = y.position
      BY <1>6, <2>1
    <2> QED BY <1>5, <1>6, <2>1, <2>2 DEF Laid
  <1>13. \A y, z \in M : y.question = z.question \/ y.position = z.position => y = z
    <2> SUFFICES ASSUME NEW y \in M, NEW z \in M, y.question = z.question \/ y.position = z.position
                 PROVE  y = z
      OBVIOUS
    <2>1. PICK x \in Q : y.question = x.question /\ y.position = At(0 - 1, x, at)
      BY <1>8
    <2>2. PICK u \in Q : z.question = u.question /\ z.position = At(0 - 1, u, at)
      BY <1>8
    <2>3. x = u
      BY <1>5, <1>12, <2>1, <2>2 DEF Laid
    <2>4. y \in Place /\ z \in Place
      BY <1>8
    <2> QED BY <2>1, <2>2, <2>3, <2>4 DEF Place
  <1>14. \A y, z \in M : y.position < z.position => B[y.question].kind <= B[z.question].kind
    <2> SUFFICES ASSUME NEW y \in M, NEW z \in M, y.position < z.position
                 PROVE  B[y.question].kind <= B[z.question].kind
      OBVIOUS
    <2>1. PICK x \in Q : y.question = x.question /\ y.position = At(0 - 1, x, at)
      BY <1>8
    <2>2. PICK u \in Q : z.question = u.question /\ z.position = At(0 - 1, u, at)
      BY <1>8
    <2>3. x.position < u.position
      BY <1>12, <2>1, <2>2
    <2> QED BY <1>5, <2>1, <2>2, <2>3 DEF Laid
  <1>15. Laid(M, B)
    BY <1>8, <1>9, <1>10, <1>11, <1>13, <1>14, LaidBy
  <1> QED BY <1>4, <1>5, <1>7, <1>15

\* The greatest of some numbers.
LEMMA MaxIs ==
  ASSUME NEW N \in Nat, NEW S \in SUBSET (0..N), S # {}
  PROVE  Max(S) \in S /\ \A y \in S : Max(S) >= y
  <1> DEFINE R == {ss \in Nat \X Nat : ss[1] < ss[2]}
             T == {N - x : x \in S}
  <1>1. OpToRel(<, Nat) = R
    BY DEF OpToRel
  <1>2. IsWellFoundedOn(R, Nat)
    BY <1>1, NatLessThanWellFounded, Zenon
  <1>3. T \subseteq Nat /\ T # {}
    <2>1. \A x \in S : x \in Nat /\ N - x \in Nat
      OBVIOUS
    <2>2. PICK x : x \in S
      OBVIOUS
    <2> QED BY <2>1, <2>2
  <1> HIDE DEF T, R
  <1>4. PICK t \in T : \A u \in T : <<u, t>> \notin R
    BY <1>2, <1>3, WFMin
  <1>5. PICK x \in S : t = N - x
    BY <1>4 DEF T
  <1>6. ASSUME NEW y \in S, x < y
        PROVE  FALSE
    <2>1. N - y \in T /\ N - y \in Nat /\ N - x \in Nat /\ N - y < N - x
      BY <1>6 DEF T
    <2>2. <<N - y, N - x>> \in R
      BY <2>1 DEF R
    <2> QED BY <1>4, <1>5, <2>1, <2>2
  <1>7. \A y \in S : x >= y
    BY <1>6
  <1> QED BY <1>5, <1>7 DEF Max

LEMMA KindIs ==
  ASSUME NEW B \in Seq(Question)
  PROVE  \A b \in DOMAIN B : B[b].kind \in 1..Len(TypeOrder) /\ B[b].kind \in Int
  <1>1. \A b \in DOMAIN B : B[b] \in Question
    OBVIOUS
  <1>2. \A b \in DOMAIN B : B[b].kind \in 1..Len(TypeOrder)
    BY <1>1 DEF Question
  <1> QED BY <1>2

\* Everything before the end of a section is of it or of an earlier one, everything after
\* it is of a later one.
LEMMA SectionEndIs ==
  ASSUME NEW P, NEW B \in Seq(Question), Laid(P, B), NEW q \in DOMAIN B,
         NEW n \in 0..MaxQuestions, {x.position : x \in P} = 1..n, NEW at,
         at = 1 + Max({0} \cup {e.position : e \in {x \in P : B[x.question].kind <= B[q].kind}})
  PROVE  /\ at \in 1..(n + 1)
         /\ \A x \in P : /\ x.position < at => B[x.question].kind <= B[q].kind
                         /\ x.position >= at => B[q].kind <= B[x.question].kind
  <1> DEFINE S == {0} \cup {e.position : e \in {x \in P : B[x.question].kind <= B[q].kind}}
  <1>1. MaxQuestions \in Nat /\ n \in Nat
    BY PaperConstants DEF PaperConstants
  <1>2. \A x \in P : x.position \in 1..n
    OBVIOUS
  <1>3. S \in SUBSET (0..n) /\ S # {}
    BY <1>1, <1>2
  <1>4. \A x \in P : B[x.question].kind <= B[q].kind => x.position \in S
    OBVIOUS
  <1>5. \A y \in S : y = 0 \/ \E z \in P : y = z.position /\ B[z.question].kind <= B[q].kind
    OBVIOUS
  <1>6. PICK m : m = Max(S)
    OBVIOUS
  <1>7. at = 1 + m
    BY <1>6
  <1> HIDE DEF S
  <1>8. m \in S /\ \A y \in S : m >= y
    BY <1>1, <1>3, <1>6, MaxIs
  <1>9. m \in 0..n
    BY <1>3, <1>8
  <1>10. \A x \in P : B[x.question].kind \in Int
    <2>1. \A x \in P : x.question \in DOMAIN B
      BY DEF Laid
    <2> QED BY <2>1, KindIs
  <1>11. ASSUME NEW x \in P, x.position < at PROVE B[x.question].kind <= B[q].kind
    <2>1. x.position <= m /\ x.position \in 1..n
      BY <1>2, <1>7, <1>9, <1>11
    <2>2. PICK z \in P : m = z.position /\ B[z.question].kind <= B[q].kind
      BY <1>5, <1>8, <2>1
    <2>3. x = z \/ x.position < z.position
      BY <1>2, <2>1, <2>2 DEF Laid
    <2>4. B[x.question].kind <= B[z.question].kind
      BY <1>10, <2>3 DEF Laid
    <2> QED BY <1>10, <2>2, <2>4, KindIs
  <1>12. ASSUME NEW x \in P, x.position >= at PROVE B[q].kind <= B[x.question].kind
    <2>1. ~(m >= x.position)
      BY <1>2, <1>7, <1>9, <1>12
    <2>2. ~(B[x.question].kind <= B[q].kind)
      BY <1>4, <1>8, <2>1
    <2> QED BY <1>10, <2>2, KindIs
  <1> QED BY <1>7, <1>9, <1>11, <1>12

\* A question takes a place between the sections before it and those after it.
LEMMA InsertedIsLaid ==
  ASSUME NEW P, NEW B \in Seq(Question), Laid(P, B), NEW q \in DOMAIN B, q \in 1..MaxQuestions,
         \A e \in P : e.question # q, NEW n \in Nat, n < MaxQuestions,
         {x.position : x \in P} = 1..n, NEW at \in 1..(n + 1),
         \A x \in P : /\ x.position < at => B[x.question].kind <= B[q].kind
                      /\ x.position >= at => B[q].kind <= B[x.question].kind
  PROVE  Laid(MovedBy(1, P, at) \cup {[question |-> q, position |-> at]}, B)
  <1>1. {x.position : x \in P} = 1..n
    OBVIOUS
  <1>2. MaxQuestions \in Nat /\ n \in Nat /\ n < MaxQuestions
    BY PaperConstants DEF PaperConstants
  <1>3. P \subseteq Place /\ \A x \in P : x.position \in 1..n /\ x.question \in DOMAIN B
    BY <1>1 DEF Laid
  <1>4. PICK k \in Int : k = B[q].kind
    BY KindIs
  <1>5. /\ at \in 1..(n + 1)
        /\ \A x \in P : /\ x.position < at => B[x.question].kind <= k
                        /\ x.position >= at => k <= B[x.question].kind
    BY <1>4
  <1>6. ASSUME NEW x \in P
        PROVE  /\ At(1, x, at) \in 1..(n + 1) /\ At(1, x, at) # at
               /\ At(1, x, at) < at => x.position < at
               /\ At(1, x, at) > at => x.position >= at
               /\ x.position < at => At(1, x, at) = x.position
               /\ x.position >= at => At(1, x, at) = x.position + 1
    BY <1>2, <1>3, <1>5 DEF At
  <1>7. PICK M : M = MovedBy(1, P, at)
    OBVIOUS
  <1>8. /\ M \subseteq Place
        /\ \A y \in M : \E x \in P : y.question = x.question /\ y.position = At(1, x, at)
        /\ \A x \in P : \E y \in M : y.question = x.question /\ y.position = At(1, x, at)
    <2>1. \A x \in P : At(1, x, at) \in 1..MaxQuestions
      BY <1>2, <1>6
    <2>2. at \in Int
      BY <1>2, <1>5
    <2>3. /\ MovedBy(1, P, at) \subseteq Place
          /\ \A y \in MovedBy(1, P, at) :
                \E x \in P : y.question = x.question /\ y.position = At(1, x, at)
          /\ \A x \in P : \E y \in MovedBy(1, P, at) :
                y.question = x.question /\ y.position = At(1, x, at)
      BY <1>3, <2>1, <2>2, MovedUpIs
    <2> QED BY <1>7, <2>3
  <1>9. PICK new : new = [question |-> q, position |-> at]
    OBVIOUS
  <1>10. new \in Place /\ new.question = q /\ new.position = at
    BY <1>2, <1>5, <1>9 DEF Place
  <1>11. PICK Q : Q = M \cup {new}
    OBVIOUS
  <1>12. Q \subseteq Place /\ n + 1 \in 0..MaxQuestions
    BY <1>2, <1>8, <1>10, <1>11
  <1>13. ASSUME NEW y \in Q PROVE y.question \in DOMAIN B /\ y.position \in 1..(n + 1)
    BY <1>3, <1>5, <1>6, <1>8, <1>10, <1>11
  <1>14. ASSUME NEW i \in 1..(n + 1) PROVE \E y \in Q : y.position = i
    <2> \A j \in 1..n : \E x \in P : x.position = j
      BY <1>1
    <2>1. CASE i = at
      BY <1>10, <1>11, <2>1
    <2>2. CASE i < at
      <3>1. PICK x \in P : x.position = i
        BY <1>2, <1>5, <2>2
      <3>2. PICK y \in M : y.position = At(1, x, at)
        BY <1>8
      <3> QED BY <1>6, <1>11, <2>2, <3>1, <3>2
    <2>3. CASE i > at
      <3>1. PICK x \in P : x.position = i - 1
        BY <1>2, <1>5, <2>3
      <3>2. PICK y \in M : y.position = At(1, x, at)
        BY <1>8
      <3>3. x.position >= at /\ i - 1 + 1 = i
        BY <1>5, <2>3, <3>1
      <3> QED BY <1>6, <1>11, <3>1, <3>2, <3>3
    <2> QED BY <1>5, <2>1, <2>2, <2>3
  <1>15. ASSUME NEW x \in P, NEW y \in P
         PROVE  /\ At(1, x, at) = At(1, y, at) => x = y
                /\ At(1, x, at) < At(1, y, at) => x.position < y.position
    <2>1. x.position \in Nat /\ y.position \in Nat /\ at \in Nat
      BY <1>3, <1>5
    <2>2. At(1, x, at) = At(1, y, at) => x.position = y.position
      BY <1>6, <2>1
    <2>3. At(1, x, at) < At(1, y, at) => x.position < y.position
      BY <1>6, <2>1
    <2> QED BY <2>2, <2>3 DEF Laid
  <1>16. ASSUME NEW y \in M
         PROVE  /\ y.question # q /\ y.position # at
                /\ y.position < at => B[y.question].kind <= k
                /\ at < y.position => k <= B[y.question].kind
    <2>1. PICK x \in P : y.question = x.question /\ y.position = At(1, x, at)
      BY <1>8
    <2>2. at < y.position => At(1, x, at) > at
      BY <1>5, <1>6, <2>1
    <2> QED BY <1>5, <1>6, <2>1, <2>2
  <1>17. \A y, z \in Q : y.question = z.question \/ y.position = z.position => y = z
    <2> SUFFICES ASSUME NEW y \in Q, NEW z \in Q, y.question = z.question \/ y.position = z.position
                 PROVE  y = z
      OBVIOUS
    <2>1. CASE y \in M /\ z \in M
      <3>1. PICK x \in P : y.question = x.question /\ y.position = At(1, x, at)
        BY <1>8, <2>1
      <3>2. PICK u \in P : z.question = u.question /\ z.position = At(1, u, at)
        BY <1>8, <2>1
      <3>3. x = u
        BY <1>15, <3>1, <3>2 DEF Laid
      <3>4. y \in Place /\ z \in Place
        BY <1>12
      <3> QED BY <3>1, <3>2, <3>3, <3>4 DEF Place
    <2>2. CASE y = new \/ z = new
      BY <1>10, <1>11, <1>16, <2>2
    <2> QED BY <1>11, <2>1, <2>2
  <1>18. \A y, z \in Q : y.position < z.position => B[y.question].kind <= B[z.question].kind
    <2> SUFFICES ASSUME NEW y \in Q, NEW z \in Q, y.position < z.position
                 PROVE  B[y.question].kind <= B[z.question].kind
      OBVIOUS
    <2>1. CASE y \in M /\ z \in M
      <3>1. PICK x \in P : y.question = x.question /\ y.position = At(1, x, at)
        BY <1>8, <2>1
      <3>2. PICK u \in P : z.question = u.question /\ z.position = At(1, u, at)
        BY <1>8, <2>1
      <3>3. x.position < u.position
        BY <1>15, <3>1, <3>2
      <3> QED BY <3>1, <3>2, <3>3 DEF Laid
    <2>2. CASE y = new /\ z \in M
      BY <1>4, <1>10, <1>16, <2>2
    <2>3. CASE y \in M /\ z = new
      BY <1>4, <1>10, <1>16, <2>3
    <2>4. CASE y = new /\ z = new
      BY <1>5, <1>10, <2>4
    <2> QED BY <1>11, <2>1, <2>2, <2>3, <2>4
  <1>19. Laid(Q, B)
    BY <1>12, <1>13, <1>14, <1>17, <1>18, LaidBy
  <1> QED BY <1>7, <1>9, <1>11, <1>19

LEMMA AddedIsLaid ==
  ASSUME NEW P, NEW B \in Seq(Question), Laid(P, B), Cardinality(P) < MaxQuestions,
         NEW q \in DOMAIN B, q \in 1..MaxQuestions, \A e \in P : e.question # q, NEW at,
         at = 1 + Max({0} \cup {e.position : e \in {x \in P : B[x.question].kind <= B[q].kind}})
  PROVE  Laid(MovedBy(1, P, at) \cup {[question |-> q, position |-> at]}, B)
  <1>1. PICK n \in 0..MaxQuestions : {x.position : x \in P} = 1..n
    BY DEF Laid
  <1>2. n \in Nat /\ n < MaxQuestions
    BY <1>1, LaidCount, PaperConstants DEF PaperConstants
  <1>3. /\ at \in 1..(n + 1)
        /\ \A x \in P : /\ x.position < at => B[x.question].kind <= B[q].kind
                        /\ x.position >= at => B[q].kind <= B[x.question].kind
    BY <1>1, SectionEndIs
  <1> QED BY <1>1, <1>2, <1>3, InsertedIsLaid

\* One place gets another question of its kind.
LEMMA ReplacedIsLaid ==
  ASSUME NEW P, NEW B, NEW C, Laid(P, B), NEW e \in P, NEW q \in 1..MaxQuestions,
         q \notin DOMAIN B, DOMAIN C = DOMAIN B \cup {q},
         \A b \in DOMAIN B : C[b].kind = B[b].kind, C[q].kind = B[e.question].kind
  PROVE  Laid((P \ {e}) \cup {[question |-> q, position |-> e.position]}, C)
  <1>1. PICK n \in 0..MaxQuestions : {x.position : x \in P} = 1..n
    BY DEF Laid
  <1>2. P \subseteq Place /\ \A x \in P : x.position \in 1..n /\ x.question \in DOMAIN B
    BY <1>1 DEF Laid
  <1>3. PICK new : new = [question |-> q, position |-> e.position]
    OBVIOUS
  <1>4. new \in Place /\ new.question = q /\ new.position = e.position
    BY <1>2, <1>3 DEF Place
  <1>5. PICK Q : Q = (P \ {e}) \cup {new}
    OBVIOUS
  <1>6. \A i \in 1..n : \E y \in Q : y.position = i
    <2>1. \A i \in 1..n : \E x \in P : x.position = i
      BY <1>1
    <2> QED BY <1>4, <1>5, <2>1
  <1>7. \A y \in Q : y.question \in DOMAIN C /\ y.position \in 1..n
    BY <1>2, <1>4, <1>5
  <1>8. \A x \in P \ {e} : x.question # q /\ x.position # e.position
    BY <1>2 DEF Laid
  <1>9. \A y, z \in Q : y.question = z.question \/ y.position = z.position => y = z
    BY <1>4, <1>5, <1>8 DEF Laid
  <1>10. ASSUME NEW y \in Q PROVE \E x \in P : /\ y.position = x.position
                                               /\ C[y.question].kind = B[x.question].kind
    BY <1>2, <1>4, <1>5
  <1>11. ASSUME NEW y \in Q, NEW z \in Q, y.position < z.position
         PROVE  C[y.question].kind <= C[z.question].kind
    <2>1. PICK x \in P : y.position = x.position /\ C[y.question].kind = B[x.question].kind
      BY <1>10
    <2>2. PICK u \in P : z.position = u.position /\ C[z.question].kind = B[u.question].kind
      BY <1>10
    <2> QED BY <1>11, <2>1, <2>2 DEF Laid
  <1>12. Q \subseteq Place
    BY <1>2, <1>4, <1>5
  <1>13. Laid(Q, C)
    BY <1>6, <1>7, <1>9, <1>11, <1>12, LaidBy
  <1> QED BY <1>3, <1>5, <1>13

\* The question q gives way to a copy of its kind, if it is on the paper at all.
LEMMA CopiedIsLaid ==
  ASSUME NEW P, NEW B, NEW C, Laid(P, B), NEW q, NEW new \in 1..MaxQuestions,
         new \notin DOMAIN B, DOMAIN C = DOMAIN B \cup {new},
         \A b \in DOMAIN B : C[b].kind = B[b].kind, C[new].kind = B[q].kind
  PROVE  Laid({IF e.question = q THEN [e EXCEPT !.question = new] ELSE e : e \in P}, C)
  <1> DEFINE copied(x) == IF x.question = q THEN [x EXCEPT !.question = new] ELSE x
             Q == {copied(x) : x \in P}
  <1>1. CASE \A x \in P : x.question # q
    <2>1. Q = P
      BY <1>1
    <2>2. Laid(P, C)
      BY LaidOver
    <2> QED BY <2>1, <2>2
  <1>2. CASE \E x \in P : x.question = q
    <2>1. PICK e \in P : e.question = q
      BY <1>2
    <2>2. \A x \in P : x.question = q => x = e
      BY <2>1 DEF Laid
    <2>3. e \in Place
      BY DEF Laid
    <2>4. copied(e) = [question |-> new, position |-> e.position]
      BY <2>1, <2>3 DEF Place
    <2>5. \A x \in P \ {e} : copied(x) = x
      BY <2>2
    <2>6. Q = {copied(x) : x \in P \ {e}} \cup {copied(e)}
      OBVIOUS
    <2>7. {copied(x) : x \in P \ {e}} = P \ {e}
      BY <2>5
    <2>8. Laid((P \ {e}) \cup {[question |-> new, position |-> e.position]}, C)
      BY <2>1, ReplacedIsLaid
    <2> HIDE DEF copied, Q
    <2>9. Laid(Q, C)
      BY <2>4, <2>6, <2>7, <2>8
    <2> QED BY <2>9 DEF Q, copied
  <1> QED BY <1>1, <1>2

\* What a run leaves.
LEMMA SavedIsLaid ==
  ASSUME NEW B, NEW b \in Nat, DOMAIN B = 1..b, NEW kinds, NEW n \in Nat, DOMAIN kinds = 1..n,
         NEW C, DOMAIN C = 1..(b + n), \A i \in 1..n : C[b + i].kind = kinds[i],
         Sorted(kinds), b + n <= MaxQuestions,
         \A i \in 1..n : kinds[i] \in Int
  PROVE  Laid({[question |-> b + i, position |-> i] : i \in 1..n}, C)
  <1>1. MaxQuestions \in Nat
    BY PaperConstants DEF PaperConstants
  <1> DEFINE line(i) == [question |-> b + i, position |-> i]
             Q == {line(i) : i \in 1..n}
  <1>2. \A i \in 1..n : line(i) \in Place
    BY <1>1 DEF Place
  <1>3. \A i \in 1..n : line(i).question = b + i /\ line(i).position = i
    OBVIOUS
  <1>4. Q \subseteq Place /\ n \in 0..MaxQuestions
    BY <1>1, <1>2
  <1> HIDE DEF line
  <1>5. \A y \in Q : \E i \in 1..n : y = line(i)
    OBVIOUS
  <1>6. \A i \in 1..n : line(i) \in Q
    OBVIOUS
  <1> HIDE DEF Q
  <1>7. ASSUME NEW y \in Q PROVE y.question \in DOMAIN C /\ y.position \in 1..n
    <2>1. PICK i \in 1..n : y = line(i)
      BY <1>5
    <2> QED BY <1>3, <2>1
  <1>8. \A i \in 1..n : \E y \in Q : y.position = i
    BY <1>3, <1>6
  <1>9. ASSUME NEW y \in Q, NEW z \in Q
        PROVE  /\ y.question = z.question \/ y.position = z.position => y = z
               /\ y.position < z.position => C[y.question].kind <= C[z.question].kind
    <2>1. PICK i \in 1..n : y = line(i)
      BY <1>5
    <2>2. PICK j \in 1..n : z = line(j)
      BY <1>5
    <2>3. i < j => kinds[i] <= kinds[j]
      BY DEF Sorted
    <2>4. /\ y.question = b + i /\ y.position = i /\ z.question = b + j /\ z.position = j
          /\ i \in Int /\ j \in Int
      BY <1>3, <2>1, <2>2
    <2>5. y.question = z.question \/ y.position = z.position => i = j
      BY <2>4
    <2>6. C[y.question].kind = kinds[i] /\ C[z.question].kind = kinds[j]
      BY <2>4
    <2> QED BY <2>1, <2>2, <2>3, <2>4, <2>5, <2>6
  <1>10. Laid(Q, C)
    BY <1>4, <1>7, <1>8, <1>9, LaidBy
  <1> QED BY <1>10 DEF Q, line

-----------------------------------------------------------------------------
(* Steps.                                                                  *)

\* What the questions of the papers were, they stay.
BankStays == /\ DOMAIN bank \subseteq DOMAIN bank'
             /\ \A q \in DOMAIN bank : bank'[q].kind = bank[q].kind

\* What a step leaves that touches the places of one paper.
LEMMA PaperStep ==
  ASSUME PaperInv, PapersTypeOK', Len(bank') <= MaxQuestions, BankStays, NEW p \in Papers,
         \A o \in Papers \ {p} : place'[o] = place[o], Laid(place'[p], bank'),
         \A t \in Teachers : Editing(t)', \A w \in Workers : Writing(w)'
  PROVE  PaperInv'
  <1>1. ASSUME NEW o \in Papers PROVE Laid(place[o], bank')
    BY LaidOver DEF PaperInv, BankStays
  <1>2. \A o \in Papers : Laid(place'[o], bank')
    BY <1>1
  <1> QED BY <1>2 DEF PaperInv

\* What a step leaves that only looks at the papers.
LEMMA RowStep ==
  ASSUME PaperInv, PapersTypeOK', UNCHANGED <<place, bank>>,
         \A t \in Teachers : Editing(t)', \A w \in Workers : Writing(w)'
  PROVE  PaperInv'
  BY DEF PaperInv

LEMMA Kinds ==
  ASSUME PaperInv
  PROVE  /\ PapersTypeOK /\ bank \in Seq(Question) /\ Len(bank) \in 0..MaxQuestions
         /\ DOMAIN bank = 1..Len(bank) /\ MaxQuestions \in Nat
         /\ \A p \in Papers : Laid(place[p], bank)
  BY PaperConstants DEF PaperInv, PapersTypeOK, PaperConstants

\* Requests and workers that a step does not touch.
LEMMA Others ==
  ASSUME PaperInv, BankStays
  PROVE  /\ UNCHANGED editor => \A t \in Teachers : Editing(t)'
         /\ UNCHANGED worker => \A w \in Workers : Writing(w)'
  BY DEF PaperInv, Editing, Writing, BankStays

LEMMA RowWritten ==
  ASSUME PapersTypeOK, NEW p \in Papers, NEW new \in Paper, paper' = [paper EXCEPT ![p] = new]
  PROVE  paper' \in [Papers -> Paper]
  BY DEF PapersTypeOK

LEMMA RowIs ==
    NewPaper \in Paper /\ \A status \in Status : [NewPaper EXCEPT !.status = status] \in Paper
  BY DEF NewPaper, Paper, Status

LEMMA BankSame == ASSUME UNCHANGED bank PROVE BankStays
  BY DEF BankStays

LEMMA PlaceType ==
  ASSUME PapersTypeOK, NEW p \in Papers, NEW P, NEW B, place' = [place EXCEPT ![p] = P], Laid(P, B)
  PROVE  /\ place' \in [Papers -> SUBSET Place] /\ place'[p] = P
         /\ \A o \in Papers \ {p} : place'[o] = place[o]
  BY DEF PapersTypeOK, Laid

LEMMA AskedType ==
  ASSUME PapersTypeOK, Asked
  PROVE  edits' \in 0..MaxEdits
  BY PaperConstants DEF PapersTypeOK, Asked, PaperConstants

LEMMA TeachKeeps ==
  ASSUME PaperInv, NEW p \in Papers, Teach(p)
  PROVE  PaperInv'
  <1>1. /\ PapersTypeOK /\ bank \in Seq(Question) /\ Len(bank) \in 0..MaxQuestions
        /\ DOMAIN bank = 1..Len(bank) /\ MaxQuestions \in Nat
        /\ \A o \in Papers : Laid(place[o], bank)
    BY Kinds
  <1>2. CASE Create(p)
    <2>1. UNCHANGED <<place, bank, readable, worker, editor, clock, crashes>>
      BY <1>2 DEF Create
    <2>2. paper' \in [Papers -> Paper] /\ edits' \in 0..MaxEdits
      BY <1>1, <1>2, RowIs, RowWritten, AskedType DEF Create
    <2>3. PapersTypeOK'
      BY <1>1, <2>1, <2>2 DEF PapersTypeOK
    <2> QED BY <2>1, <2>3, BankSame, Others, RowStep
  <1>3. CASE Regenerate(p) \/ Delete(p)
    <2>1. UNCHANGED <<bank, readable, worker, editor, clock, crashes>>
      BY <1>3 DEF Regenerate, Delete
    <2>2. paper' \in [Papers -> Paper] /\ edits' \in 0..MaxEdits
      <3>1. \E new \in Paper : paper' = [paper EXCEPT ![p] = new]
        BY <1>3, RowIs DEF Regenerate, Delete, Status
      <3>2. paper' \in [Papers -> Paper]
        BY <1>1, <3>1, RowWritten
      <3>3. edits' \in 0..MaxEdits
        BY <1>1, <1>3, AskedType DEF Regenerate, Delete, PapersTypeOK
      <3> QED BY <3>2, <3>3
    <2>3. place' = [place EXCEPT ![p] = {}]
      BY <1>3 DEF Regenerate, Delete
    <2>4. Laid({}, bank)
      BY NothingLaid
    <2>5. /\ place' \in [Papers -> SUBSET Place] /\ place'[p] = {}
          /\ \A o \in Papers \ {p} : place'[o] = place[o]
      BY <1>1, <2>3, <2>4, PlaceType
    <2>6. PapersTypeOK'
      BY <1>1, <2>1, <2>2, <2>5 DEF PapersTypeOK
    <2>7. BankStays /\ Len(bank') <= MaxQuestions /\ Laid(place'[p], bank')
      BY <1>1, <2>1, <2>4, <2>5, BankSame
    <2> QED BY <2>1, <2>5, <2>6, <2>7, Others, PaperStep
  <1>4. CASE RemoveEntry(p)
    <2>1. /\ UNCHANGED <<paper, bank, readable, worker, editor, clock, crashes>>
          /\ edits' \in 0..MaxEdits
      BY <1>1, <1>4, AskedType DEF RemoveEntry
    <2>2. PICK e \in place[p] :
             place' = [place EXCEPT ![p] = MovedBy(0 - 1, place[p] \ {e}, e.position)]
      BY <1>4 DEF RemoveEntry
    <2>3. PICK P : P = MovedBy(0 - 1, place[p] \ {e}, e.position)
      OBVIOUS
    <2>4. Laid(P, bank)
      BY <1>1, <2>3, RemovedIsLaid
    <2>5. /\ place' \in [Papers -> SUBSET Place] /\ place'[p] = P
          /\ \A o \in Papers \ {p} : place'[o] = place[o]
      BY <1>1, <2>2, <2>3, <2>4, PlaceType
    <2>6. PapersTypeOK'
      BY <1>1, <2>1, <2>5 DEF PapersTypeOK
    <2>7. BankStays /\ Len(bank') <= MaxQuestions /\ Laid(place'[p], bank')
      BY <1>1, <2>1, <2>4, <2>5, BankSame
    <2> QED BY <2>1, <2>5, <2>6, <2>7, Others, PaperStep
  <1>5. CASE AddEntry(p)
    <2>1. UNCHANGED <<paper, bank, readable, worker, editor, clock, edits, crashes>>
      BY <1>5 DEF AddEntry
    <2>2. PICK q \in DOMAIN bank :
             LET at == SectionEnd(p, bank[q].kind)
             IN /\ \A e \in place[p] : e.question # q
                /\ place' = [place EXCEPT ![p] = MovedBy(1, place[p], at) \cup
                                                 {[question |-> q, position |-> at]}]
      BY <1>5 DEF AddEntry
    <2>3. PICK at : at = SectionEnd(p, bank[q].kind)
      OBVIOUS
    <2>4. PICK P : P = MovedBy(1, place[p], at) \cup {[question |-> q, position |-> at]}
      OBVIOUS
    <2>5. Laid(P, bank)
      <3>1. q \in 1..MaxQuestions /\ Cardinality(place[p]) < MaxQuestions
        BY <1>1, <1>5 DEF AddEntry
      <3> QED BY <1>1, <2>2, <2>3, <2>4, <3>1, AddedIsLaid DEF SectionEnd
    <2>6. /\ place' \in [Papers -> SUBSET Place] /\ place'[p] = P
          /\ \A o \in Papers \ {p} : place'[o] = place[o]
      BY <1>1, <2>2, <2>3, <2>4, <2>5, PlaceType
    <2>7. PapersTypeOK'
      BY <1>1, <2>1, <2>6 DEF PapersTypeOK
    <2>8. BankStays /\ Len(bank') <= MaxQuestions /\ Laid(place'[p], bank')
      BY <1>1, <2>1, <2>5, <2>6, BankSame
    <2> QED BY <2>1, <2>6, <2>7, <2>8, Others, PaperStep
  <1>6. CASE ReplaceEntry(p)
    <2>1. UNCHANGED <<paper, readable, worker, editor, clock, crashes>> /\ edits' \in 0..MaxEdits
      BY <1>1, <1>6, AskedType DEF ReplaceEntry
    <2>2. PICK e \in place[p] :
             /\ bank' = Append(bank, [kind |-> bank[e.question].kind, edition |-> 0])
             /\ place' = [place EXCEPT ![p] = (place[p] \ {e}) \cup
                             {[question |-> Len(bank) + 1, position |-> e.position]}]
      BY <1>6 DEF ReplaceEntry
    <2>3. e.question \in DOMAIN bank /\ bank[e.question] \in Question
      <3>1. e.question \in DOMAIN bank
        BY <1>1 DEF Laid
      <3> QED BY <1>1, <3>1
    <2>4. PICK new : new = [kind |-> bank[e.question].kind, edition |-> 0]
      OBVIOUS
    <2>5. new \in Question /\ new.kind = bank[e.question].kind
      BY <2>3, <2>4 DEF Question
    <2>6. /\ bank' \in Seq(Question) /\ Len(bank') = Len(bank) + 1 /\ Len(bank') <= MaxQuestions
          /\ DOMAIN bank' = DOMAIN bank \cup {Len(bank) + 1}
          /\ Len(bank) + 1 \in 1..MaxQuestions /\ Len(bank) + 1 \notin DOMAIN bank
          /\ \A b \in DOMAIN bank : bank'[b] = bank[b]
          /\ bank'[Len(bank) + 1] = new
      BY <1>1, <1>6, <2>2, <2>4, <2>5 DEF ReplaceEntry
    <2>7. PICK P, B :
             /\ P = (place[p] \ {e}) \cup
                       {[question |-> Len(bank) + 1, position |-> e.position]}
             /\ B = bank'
      OBVIOUS
    <2>8. Laid(P, B)
      BY <1>1, <2>5, <2>6, <2>7, ReplacedIsLaid
    <2>9. /\ place' \in [Papers -> SUBSET Place] /\ place'[p] = P
          /\ \A o \in Papers \ {p} : place'[o] = place[o]
      BY <1>1, <2>2, <2>7, <2>8, PlaceType
    <2>10. PapersTypeOK'
      BY <1>1, <2>1, <2>6, <2>9 DEF PapersTypeOK
    <2>11. BankStays
      BY <2>6 DEF BankStays
    <2> QED BY <2>1, <2>6, <2>7, <2>8, <2>9, <2>10, <2>11, Others, PaperStep
  <1>7. ASSUME NEW t \in Teachers, LookUpUse(t, p) PROVE PaperInv'
    <2>1. /\ UNCHANGED <<paper, place, bank, readable, worker, clock, crashes>>
          /\ edits' \in 0..MaxEdits
      BY <1>1, <1>7, AskedType DEF LookUpUse
    <2>2. PICK e \in place[p] :
             editor' = [editor EXCEPT ![t] =
               [paper |-> p, question |-> e.question,
                shared |-> \E o \in Papers \ {p} : \E x \in place[o] : x.question = e.question]]
      BY <1>7 DEF LookUpUse
    <2>3. PICK b \in BOOLEAN :
             b = \E o \in Papers \ {p} : \E x \in place[o] : x.question = e.question
      OBVIOUS
    <2>4. PICK new : new = [paper |-> p, question |-> e.question, shared |-> b]
      OBVIOUS
    <2>5. e.question \in DOMAIN bank /\ e.question \in 0..MaxQuestions
      <3>1. e.question \in DOMAIN bank
        BY <1>1 DEF Laid
      <3> QED BY <1>1, <3>1
    <2>6. new \in Edit /\ new.paper = p /\ new.question \in DOMAIN bank
      BY <2>4, <2>5 DEF Edit
    <2>7. editor' = [editor EXCEPT ![t] = new]
      BY <2>2, <2>3, <2>4
    <2>8. PapersTypeOK'
      BY <1>1, <2>1, <2>6, <2>7 DEF PapersTypeOK
    <2>9. \A u \in Teachers : Editing(u)'
      BY <1>1, <2>1, <2>6, <2>7 DEF PaperInv, Editing, PapersTypeOK
    <2> QED BY <2>1, <2>8, <2>9, BankSame, Others, RowStep
  <1> QED BY <1>2, <1>3, <1>4, <1>5, <1>6, <1>7 DEF Teach

LEMMA WriteEditKeeps ==
  ASSUME PaperInv, NEW t \in Teachers, WriteEdit(t)
  PROVE  PaperInv'
  <1>1. /\ PapersTypeOK /\ bank \in Seq(Question) /\ Len(bank) \in 0..MaxQuestions
        /\ DOMAIN bank = 1..Len(bank) /\ MaxQuestions \in Nat
        /\ \A o \in Papers : Laid(place[o], bank)
    BY Kinds
  <1>2. PICK p, q : p = editor[t].paper /\ q = editor[t].question
    OBVIOUS
  <1>3. /\ editor[t] # NoEdit /\ editor' = [editor EXCEPT ![t] = NoEdit]
        /\ UNCHANGED <<paper, readable, worker, clock, edits, crashes>>
    BY DEF WriteEdit
  <1>4. p \in Papers /\ q \in DOMAIN bank /\ bank[q] \in Question
    <2>1. p \in Papers /\ q \in DOMAIN bank
      BY <1>2, <1>3 DEF PaperInv, Editing
    <2> QED BY <1>1, <2>1
  <1>5. editor' \in [Teachers -> Edit]
    <2>1. NoEdit \in Edit
      BY <1>1 DEF NoEdit, Edit
    <2> QED BY <1>1, <1>3, <2>1 DEF PapersTypeOK
  <1>6. ASSUME BankStays PROVE \A u \in Teachers : Editing(u)'
    BY <1>1, <1>3, <1>6 DEF PaperInv, Editing, BankStays, PapersTypeOK
  <1>7. PICK new : new = [bank[q] EXCEPT !.edition = @ + 1]
    OBVIOUS
  <1>8. new \in Question /\ new.kind = bank[q].kind
    BY <1>4, <1>7 DEF Question
  <1>9. CASE editor[t].shared
    <2>1. /\ Len(bank) < MaxQuestions /\ bank' = Append(bank, new)
          /\ place' = [place EXCEPT ![p] =
                {IF e.question = q THEN [e EXCEPT !.question = Len(bank) + 1] ELSE e :
                    e \in place[p]}]
      BY <1>2, <1>7, <1>9 DEF WriteEdit
    <2>2. /\ bank' \in Seq(Question) /\ Len(bank') = Len(bank) + 1 /\ Len(bank') <= MaxQuestions
          /\ DOMAIN bank' = DOMAIN bank \cup {Len(bank) + 1}
          /\ Len(bank) + 1 \in 1..MaxQuestions /\ Len(bank) + 1 \notin DOMAIN bank
          /\ \A b \in DOMAIN bank : bank'[b] = bank[b]
          /\ bank'[Len(bank) + 1] = new
      BY <1>1, <1>8, <2>1
    <2>3. PICK R, A, B, n : R = place[p] /\ A = bank /\ B = bank' /\ n = Len(bank) + 1
      OBVIOUS
    <2>4. PICK P : P = {IF e.question = q THEN [e EXCEPT !.question = n] ELSE e : e \in R}
      OBVIOUS
    <2>5. Laid(P, B)
      <3>1. /\ n \in 1..MaxQuestions /\ n \notin DOMAIN A /\ DOMAIN B = DOMAIN A \cup {n}
            /\ \A b \in DOMAIN A : B[b].kind = A[b].kind
            /\ B[n].kind = A[q].kind /\ Laid(R, A)
        BY <1>1, <1>4, <1>8, <2>2, <2>3
      <3>2. Laid({IF e.question = q THEN [e EXCEPT !.question = n] ELSE e : e \in R}, B)
        BY <3>1, CopiedIsLaid
      <3> QED BY <2>4, <3>2
    <2>6. place' = [place EXCEPT ![p] = P]
      BY <2>1, <2>3, <2>4
    <2>7. /\ place' \in [Papers -> SUBSET Place] /\ place'[p] = P
          /\ \A o \in Papers \ {p} : place'[o] = place[o]
      BY <1>1, <1>4, <2>5, <2>6, PlaceType
    <2>8. PapersTypeOK'
      BY <1>1, <1>3, <1>5, <2>2, <2>7 DEF PapersTypeOK
    <2>9. BankStays
      BY <2>2 DEF BankStays
    <2> QED BY <1>3, <1>4, <1>6, <2>2, <2>3, <2>5, <2>7, <2>8, <2>9, Others, PaperStep
  <1>10. CASE ~editor[t].shared
    <2>1. bank' = [bank EXCEPT ![q] = new] /\ place' = place
      BY <1>1, <1>2, <1>4, <1>7, <1>10 DEF WriteEdit
    <2>2. /\ bank' \in Seq(Question) /\ Len(bank') = Len(bank) /\ DOMAIN bank' = DOMAIN bank
          /\ \A b \in DOMAIN bank : bank'[b].kind = bank[b].kind
      BY <1>1, <1>4, <1>8, <2>1
    <2>3. BankStays /\ Len(bank') <= MaxQuestions
      BY <1>1, <2>2 DEF BankStays
    <2>4. PapersTypeOK'
      BY <1>1, <1>3, <1>5, <2>1, <2>2 DEF PapersTypeOK
    <2>5. Laid(place'[p], bank')
      BY <1>1, <1>4, <2>1, <2>2, LaidOver
    <2> QED BY <1>3, <1>4, <1>6, <2>1, <2>3, <2>4, <2>5, Others, PaperStep
  <1> QED BY <1>9, <1>10

\* A worker that has a hand on a paper of the class, its sections in order, or on none.
LEMMA HandTaken ==
  ASSUME PaperInv, NEW w \in Workers, NEW new \in Hand, worker' = [worker EXCEPT ![w] = new],
         new.pc # "idle" => new.paper \in Papers,
         new.pc = "written" => Sorted(new.kinds)
  PROVE  worker' \in [Workers -> Hand] /\ \A u \in Workers : Writing(u)'
  BY DEF PaperInv, PapersTypeOK, Writing

LEMMA RestingIs == Resting \in Hand /\ Resting.pc = "idle"
  <1>1. <<>> \in Seq(1..Len(TypeOrder))
    OBVIOUS
  <1> QED BY <1>1 DEF Resting, Hand

\* A step of a worker that leaves the questions alone.
LEMMA WorkerStep ==
  ASSUME PaperInv, NEW w \in Workers, NEW new \in Hand, worker' = [worker EXCEPT ![w] = new],
         new.pc # "idle" => new.paper \in Papers,
         new.pc = "written" => Sorted(new.kinds),
         paper' \in [Papers -> Paper], clock' \in Nat, crashes' \in 0..MaxCrashes,
         UNCHANGED <<place, bank, readable, editor, edits>>
  PROVE  PaperInv'
  <1>1. worker' \in [Workers -> Hand] /\ \A u \in Workers : Writing(u)'
    BY HandTaken
  <1>2. PapersTypeOK'
    BY <1>1, Kinds DEF PapersTypeOK
  <1>3. \A t \in Teachers : Editing(t)'
    BY BankSame, Others
  <1> QED BY <1>1, <1>2, <1>3, RowStep

LEMMA RowChanged ==
  ASSUME PapersTypeOK, NEW p \in Papers, NEW status \in Status, NEW locked \in Nat,
         NEW late \in BOOLEAN, NEW run \in Nat,
         \/ paper' = [paper EXCEPT ![p].status = status]
         \/ paper' = [paper EXCEPT ![p].status = status, ![p].locked_at = locked,
                                   ![p].overdue = late]
         \/ paper' = [paper EXCEPT ![p].status = status, ![p].locked_at = locked,
                                   ![p].overdue = late, ![p].attempts = @ + 1]
         \/ paper' = [paper EXCEPT ![p].status = status, ![p].locked_at = locked,
                                   ![p].overdue = late, ![p].run = run]
         \/ paper' = paper
  PROVE  paper' \in [Papers -> Paper]
  <1>1. paper \in [Papers -> Paper] /\ paper[p] \in Paper
    BY DEF PapersTypeOK
  <1>2. paper' = paper \/ \E new \in Paper : paper' = [paper EXCEPT ![p] = new]
    BY <1>1 DEF Paper
  <1> QED BY <1>1, <1>2

LEMMA Appended ==
  ASSUME NEW A \in Seq(Question), NEW E \in Seq(Question), NEW b \in Nat, NEW n \in Nat,
         Len(A) = b, Len(E) = n
  PROVE  /\ A \o E \in Seq(Question) /\ Len(A \o E) = b + n /\ DOMAIN (A \o E) = 1..(b + n)
         /\ \A i \in 1..b : (A \o E)[i] = A[i]
         /\ \A i \in 1..n : (A \o E)[b + i] = E[i]
  <1>1. A \o E \in Seq(Question) /\ Len(A \o E) = b + n
    OBVIOUS
  <1>2. DOMAIN (A \o E) = 1..(b + n)
    BY <1>1
  <1>3. \A i \in 1..b : (A \o E)[i] = A[i]
    OBVIOUS
  <1>4. ASSUME NEW i \in 1..n PROVE (A \o E)[b + i] = E[i]
    <2>1. b + i \in 1..(b + n) /\ b + i > b /\ (b + i) - b = i
      OBVIOUS
    <2> QED BY <2>1
  <1> QED BY <1>1, <1>2, <1>3, <1>4

LEMMA WorkKeeps ==
  ASSUME PaperInv, NEW w \in Workers, Work(w), ~Save(w)
  PROVE  PaperInv'
  <1>1. /\ PapersTypeOK /\ paper \in [Papers -> Paper] /\ worker[w] \in Hand
        /\ clock \in Nat /\ crashes \in 0..MaxCrashes
    BY Kinds DEF PapersTypeOK
  <1>2. PICK p : p = worker[w].paper
    OBVIOUS
  <1>3. worker[w].pc # "idle" => p \in Papers
    BY <1>2 DEF PaperInv, Writing
  <1>4. ASSUME NEW o \in Papers, PickPending(w, o) PROVE PaperInv'
    <2>1. PICK new : new = [worker[w] EXCEPT !.pc = "picked", !.paper = o]
      OBVIOUS
    <2>2. new \in Hand /\ new.pc = "picked" /\ new.paper \in Papers
      BY <1>1, <2>1 DEF Hand
    <2>3. /\ worker' = [worker EXCEPT ![w] = new]
          /\ UNCHANGED <<paper, place, bank, readable, editor, clock, edits, crashes>>
      BY <1>4, <2>1 DEF PickPending
    <2> QED BY <1>1, <2>2, <2>3, WorkerStep
  <1>5. CASE ClaimRefused(w)
    <2>1. PICK new : new = [worker[w] EXCEPT !.pc = "refused"]
      OBVIOUS
    <2>2. new \in Hand /\ new.pc = "refused" /\ new.paper = p
      BY <1>1, <1>2, <2>1 DEF Hand
    <2>3. /\ worker' = [worker EXCEPT ![w] = new] /\ p \in Papers
          /\ UNCHANGED <<paper, place, bank, readable, editor, clock, edits, crashes>>
      BY <1>3, <1>5, <2>1 DEF ClaimRefused
    <2> QED BY <1>1, <2>2, <2>3, WorkerStep
  <1>6. CASE PassOver(w) \/ GiveUp(w) \/ FailUnclaimed(w) \/ Fail(w)
    <2>1. /\ worker' = [worker EXCEPT ![w] = Resting] /\ p \in Papers
          /\ UNCHANGED <<place, bank, readable, editor, clock, edits, crashes>>
      BY <1>3, <1>6 DEF PassOver, GiveUp, FailUnclaimed, Fail
    <2>2. \/ paper' = paper
          \/ paper' = [paper EXCEPT ![p].status = "failed"]
          \/ paper' = [paper EXCEPT ![p].status = "failed", ![p].locked_at = 0,
                                    ![p].overdue = FALSE]
      BY <1>2, <1>6 DEF PassOver, GiveUp, FailUnclaimed, Fail
    <2>3. "failed" \in Status /\ 0 \in Nat /\ FALSE \in BOOLEAN
      BY DEF Status
    <2>4. paper' \in [Papers -> Paper]
      <3>1. CASE paper' = paper
        BY <1>1, <3>1
      <3>2. CASE paper' = [paper EXCEPT ![p].status = "failed"]
        BY <1>1, <2>1, <2>3, <3>2, RowChanged
      <3>3. CASE paper' = [paper EXCEPT ![p].status = "failed", ![p].locked_at = 0,
                                        ![p].overdue = FALSE]
        BY <1>1, <2>1, <2>3, <3>3, RowChanged
      <3> QED BY <2>2, <3>1, <3>2, <3>3
    <2> QED BY <1>1, <2>1, <2>4, RestingIs, WorkerStep
  <1>7. CASE Claim(w)
    <2>1. PICK n \in Nat : n = clock + 1
      BY <1>1
    <2>2. PICK new : new = [worker[w] EXCEPT !.pc = "claimed", !.locked_at = n]
      OBVIOUS
    <2>3. new \in Hand /\ new.pc = "claimed" /\ new.paper = p
      BY <1>1, <1>2, <2>1, <2>2 DEF Hand
    <2>4. /\ worker' = [worker EXCEPT ![w] = new] /\ p \in Papers /\ clock' = n
          /\ paper' = [paper EXCEPT ![p].status = "generating", ![p].locked_at = n,
                                    ![p].overdue = FALSE, ![p].attempts = @ + 1]
          /\ UNCHANGED <<place, bank, readable, editor, edits, crashes>>
      BY <1>2, <1>3, <1>7, <2>1, <2>2 DEF Claim
    <2>5. paper' \in [Papers -> Paper]
      <3>1. "generating" \in Status /\ FALSE \in BOOLEAN /\ n \in Nat /\ 0 \in Nat
        BY DEF Status
      <3> QED BY <1>1, <2>4, <3>1, RowChanged
    <2> QED BY <1>1, <2>3, <2>4, <2>5, WorkerStep
  <1>8. CASE Write(w)
    <2> DEFINE chosen(d) == Choose(PaperSlots, d, {})
               full(d) == {i \in DOMAIN PaperSlots : chosen(d)[i] # 0}
    <2>1. PICK drafts \in Answers :
            \E filled \in [1..Cardinality(full(drafts)) -> full(drafts)] :
               /\ \A i, j \in DOMAIN filled : i < j => filled[i] < filled[j]
               /\ worker' = [worker EXCEPT ![w].pc = "written",
                      ![w].kinds = [i \in DOMAIN filled |-> Rank(PaperSlots[filled[i]].type)],
                      ![w].complete = Complete(PaperSlots, drafts, chosen(drafts))]
      BY <1>8 DEF Write
    <2>2. full(drafts) \in SUBSET DOMAIN PaperSlots
      OBVIOUS
    <2> HIDE DEF chosen, full
    <2>3. PICK F : F = full(drafts)
      OBVIOUS
    <2>4. PICK filled \in [1..Cardinality(F) -> F] :
            /\ \A i, j \in DOMAIN filled : i < j => filled[i] < filled[j]
            /\ worker' = [worker EXCEPT ![w].pc = "written",
                   ![w].kinds = [i \in DOMAIN filled |-> Rank(PaperSlots[filled[i]].type)],
                   ![w].complete = Complete(PaperSlots, drafts, chosen(drafts))]
      BY <2>1, <2>3
    <2>5. PICK kinds : kinds = [i \in DOMAIN filled |-> Rank(PaperSlots[filled[i]].type)]
      OBVIOUS
    <2>6. kinds \in Seq(1..Len(TypeOrder)) /\ Sorted(kinds)
      <3>1. F \in SUBSET DOMAIN PaperSlots
        BY <2>2, <2>3
      <3> QED BY <2>4, <2>5, <3>1, SectionsInOrder
    <2>7. PICK b \in BOOLEAN : b = Complete(PaperSlots, drafts, chosen(drafts))
      BY DEF Complete
    <2>8. PICK new : new = [worker[w] EXCEPT !.pc = "written", !.kinds = kinds, !.complete = b]
      OBVIOUS
    <2>9. new \in Hand /\ new.pc = "written" /\ new.paper = p /\ new.kinds = kinds
      BY <1>1, <1>2, <2>6, <2>8 DEF Hand
    <2>10. worker' = [worker EXCEPT ![w] = new]
      BY <2>4, <2>5, <2>7, <2>8
    <2>11. /\ p \in Papers
           /\ UNCHANGED <<paper, place, bank, readable, editor, clock, edits, crashes>>
      BY <1>3, <1>8 DEF Write
    <2> QED BY <1>1, <2>6, <2>9, <2>10, <2>11, WorkerStep
  <1> QED BY <1>4, <1>5, <1>6, <1>7, <1>8 DEF Work

LEMMA SaveKeeps ==
  ASSUME PaperInv, NEW w \in Workers, Save(w)
  PROVE  PaperInv'
  <1>1. /\ PapersTypeOK /\ bank \in Seq(Question) /\ Len(bank) \in 0..MaxQuestions
        /\ DOMAIN bank = 1..Len(bank) /\ MaxQuestions \in Nat
        /\ \A o \in Papers : Laid(place[o], bank)
    BY Kinds
  <1>2. worker[w] \in Hand /\ crashes \in 0..MaxCrashes /\ clock \in Nat
    BY <1>1 DEF PapersTypeOK
  <1>3. /\ worker[w].pc = "written" /\ worker' = [worker EXCEPT ![w] = Resting]
        /\ UNCHANGED <<readable, editor, clock, edits, crashes>>
    BY DEF Save
  <1>4. PICK p, kinds : p = worker[w].paper /\ kinds = worker[w].kinds
    OBVIOUS
  <1>5. p \in Papers /\ Sorted(kinds) /\ kinds \in Seq(1..Len(TypeOrder))
    BY <1>2, <1>3, <1>4 DEF PaperInv, Writing, Hand
  <1>6. CASE ~StillOurs(w)
    <2>1. UNCHANGED <<paper, place, bank>>
      BY <1>6 DEF Save
    <2>2. paper' \in [Papers -> Paper]
      BY <1>1, <2>1 DEF PapersTypeOK
    <2> QED BY <1>2, <1>3, <2>1, <2>2, RestingIs, WorkerStep
  <1>7. CASE StillOurs(w)
    <2>1. PICK n \in Nat : n = Len(kinds)
      BY <1>5
    <2>2. PICK A, b : A = bank /\ b = Len(bank)
      OBVIOUS
    <2> DEFINE questions(k) == [i \in 1..Len(k) |-> [kind |-> k[i], edition |-> 0]]
               places(m, k) == {[question |-> m + i, position |-> i] : i \in 1..Len(k)}
    <2>3. PICK new : /\ new = questions(kinds)
                     /\ new = [i \in 1..n |-> [kind |-> kinds[i], edition |-> 0]]
      BY <2>1
    <2>4. PICK P : /\ P = places(b, kinds)
                   /\ P = {[question |-> b + i, position |-> i] : i \in 1..n}
      BY <2>1
    <2>5. b + n <= MaxQuestions /\ bank' = bank \o new /\ place' = [place EXCEPT ![p] = P]
      <3>1. /\ Len(bank) + Len(worker[w].kinds) <= MaxQuestions
            /\ bank' = bank \o questions(worker[w].kinds)
            /\ place' = [place EXCEPT ![worker[w].paper] = places(Len(bank), worker[w].kinds)]
        BY <1>7 DEF Save
      <3> HIDE DEF questions, places
      <3> QED BY <1>4, <2>1, <2>2, <2>3, <2>4, <3>1
    <2>6. DOMAIN kinds = 1..n /\ \A i \in 1..n : kinds[i] \in 1..Len(TypeOrder)
      BY <1>5, <2>1
    <2>7. new \in Seq(Question) /\ Len(new) = n /\ \A i \in 1..n : new[i].kind = kinds[i]
      <3>1. \A i \in 1..n : [kind |-> kinds[i], edition |-> 0] \in Question
        BY <2>6 DEF Question
      <3>2. new \in [1..n -> Question]
        BY <2>3, <3>1
      <3> QED BY <2>3, <3>2
    <2>8. /\ bank' \in Seq(Question) /\ Len(bank') = b + n /\ DOMAIN bank' = 1..(b + n)
          /\ \A i \in 1..b : bank'[i] = bank[i]
          /\ \A i \in 1..n : bank'[b + i] = new[i]
      <3>1. A \in Seq(Question) /\ Len(A) = b /\ b \in Nat
        BY <1>1, <2>2
      <3>2. new \in Seq(Question) /\ Len(new) = n /\ n \in Nat
        BY <2>7
      <3> HIDE DEF questions, places
      <3>3. /\ A \o new \in Seq(Question) /\ Len(A \o new) = b + n
            /\ DOMAIN (A \o new) = 1..(b + n)
            /\ \A i \in 1..b : (A \o new)[i] = A[i]
            /\ \A i \in 1..n : (A \o new)[b + i] = new[i]
        BY <3>1, <3>2, Appended
      <3> QED BY <2>2, <2>5, <3>3
    <2>9. PICK C : C = bank'
      OBVIOUS
    <2>10. Laid(P, C)
      <3>1. DOMAIN A = 1..b /\ b \in Nat /\ DOMAIN C = 1..(b + n)
        BY <1>1, <2>2, <2>8, <2>9
      <3>2. \A i \in 1..n : C[b + i].kind = kinds[i] /\ kinds[i] \in Int
        BY <2>6, <2>7, <2>8, <2>9
      <3> QED BY <1>5, <2>4, <2>5, <2>6, <3>1, <3>2, SavedIsLaid
    <2>11. /\ place' \in [Papers -> SUBSET Place] /\ place'[p] = P
           /\ \A o \in Papers \ {p} : place'[o] = place[o]
      BY <1>1, <1>5, <2>5, <2>10, PlaceType
    <2>12. paper' \in [Papers -> Paper]
      <3>1. PICK status \in Status :
               paper' = [paper EXCEPT ![p].status = status, ![p].locked_at = 0,
                                      ![p].overdue = FALSE, ![p].run = worker[w].locked_at]
        BY <1>4, <1>7 DEF Save, Status
      <3>2. 0 \in Nat /\ FALSE \in BOOLEAN /\ worker[w].locked_at \in Nat
        BY <1>2 DEF Hand
      <3> QED BY <1>1, <1>5, <3>1, <3>2, RowChanged
    <2>13. worker' \in [Workers -> Hand] /\ \A u \in Workers : Writing(u)'
      BY <1>3, RestingIs, HandTaken
    <2>14. PapersTypeOK'
      BY <1>1, <1>3, <2>8, <2>11, <2>12, <2>13 DEF PapersTypeOK
    <2>15. BankStays
      BY <1>1, <2>2, <2>8 DEF BankStays
    <2> QED BY <1>3, <1>5, <2>5, <2>8, <2>9, <2>10, <2>11, <2>13, <2>14, <2>15, Others, PaperStep
  <1> QED BY <1>6, <1>7

LEMMA InitIsKept ==
  ASSUME PapersInit
  PROVE  PaperInv
  <1>1. PapersTypeOK
    <2>1. [NewPaper EXCEPT !.status = "none"] \in Paper
      BY RowIs DEF Status
    <2>2. paper \in [Papers -> Paper] /\ place \in [Papers -> SUBSET Place]
      BY <2>1 DEF PapersInit
    <2>3. worker \in [Workers -> Hand]
      BY RestingIs DEF PapersInit
    <2>4. NoEdit \in Edit
      BY PaperConstants DEF NoEdit, Edit, PaperConstants
    <2>5. editor \in [Teachers -> Edit] /\ bank \in Seq(Question)
      BY <2>4 DEF PapersInit
    <2> QED BY <2>2, <2>3, <2>5, PaperConstants DEF PapersInit, PapersTypeOK, PaperConstants
  <1>2. Len(bank) <= MaxQuestions
    BY PaperConstants DEF PapersInit, PaperConstants
  <1>3. \A p \in Papers : Laid(place[p], bank)
    BY NothingLaid DEF PapersInit
  <1>4. \A w \in Workers : Writing(w)
    BY RestingIs DEF PapersInit, Writing
  <1>5. \A t \in Teachers : Editing(t)
    BY DEF PapersInit, Editing
  <1> QED BY <1>1, <1>2, <1>3, <1>4, <1>5 DEF PaperInv

LEMMA StepIsKept ==
  ASSUME PaperInv, [PapersNext]_papersVars
  PROVE  PaperInv'
  <1>1. PapersTypeOK /\ paper \in [Papers -> Paper] /\ crashes \in 0..MaxCrashes /\ clock \in Nat
    BY Kinds DEF PapersTypeOK
  <1>2. ASSUME NEW p \in Papers, Overdue(p) PROVE PaperInv'
    <2>1. /\ paper' = [paper EXCEPT ![p].overdue = TRUE]
          /\ UNCHANGED <<place, bank, readable, worker, editor, clock, edits, crashes>>
      BY <1>2 DEF Overdue
    <2>2. paper' \in [Papers -> Paper]
      BY <1>1, <2>1 DEF Paper
    <2>3. PapersTypeOK'
      BY <1>1, <2>1, <2>2 DEF PapersTypeOK
    <2> QED BY <2>1, <2>3, BankSame, Others, RowStep
  <1>3. ASSUME NEW p \in Papers, ChaptersChange(p) PROVE PaperInv'
    <2>1. /\ UNCHANGED <<paper, place, bank, worker, editor, clock, crashes>>
          /\ edits' \in 0..MaxEdits
      BY <1>1, <1>3, AskedType DEF ChaptersChange
    <2>2. readable' \subseteq Papers
      BY <1>1, <1>3 DEF ChaptersChange, SymDiff, PapersTypeOK
    <2>3. PapersTypeOK'
      BY <1>1, <2>1, <2>2 DEF PapersTypeOK
    <2> QED BY <2>1, <2>3, BankSame, Others, RowStep
  <1>4. ASSUME NEW w \in Workers, Crash(w) PROVE PaperInv'
    <2>1. /\ worker' = [worker EXCEPT ![w] = Resting] /\ crashes' \in 0..MaxCrashes
          /\ UNCHANGED <<paper, place, bank, readable, editor, clock, edits>>
      BY <1>1, <1>4, PaperConstants DEF Crash, PaperConstants
    <2> QED BY <1>1, <2>1, RestingIs, WorkerStep
  <1>5. CASE UNCHANGED papersVars
    <2>1. UNCHANGED <<paper, place, bank, readable, worker, editor, clock, edits, crashes>>
      BY <1>5 DEF papersVars
    <2>2. PapersTypeOK'
      BY <1>1, <2>1 DEF PapersTypeOK
    <2> QED BY <2>1, <2>2, BankSame, Others, RowStep
  <1> QED BY <1>2, <1>3, <1>4, <1>5, TeachKeeps, WriteEditKeeps, WorkKeeps, SaveKeeps DEF PapersNext

\* Every paper stays laid out, every request and worker knows what it works on (papers/service.py).
THEOREM PapersAreKept == PapersSpec => []PaperInv
  <1> QED BY InitIsKept, StepIsKept, PTL DEF PapersSpec

\* The rows of papers, paper_questions and questions keep their types; in particular no paper
\* and no edit points past the questions that were written.
THEOREM PapersTyped == PapersSpec => []PapersTypeOK
  <1>1. PaperInv => PapersTypeOK
    BY DEF PaperInv
  <1> QED BY <1>1, PapersAreKept, PTL

\* A paper prints its questions once each, numbered without a gap, objective sections before
\* subjective ones, after any additions, removals, replacements, edits of shared questions,
\* regenerations and late saves (PaperQuestion.position; create to _save in papers/service.py).
THEOREM PapersArePrintable == PapersSpec => []PaperIsInOrder
  <1>1. PaperInv => PaperIsInOrder
    <2> SUFFICES ASSUME PaperInv, NEW p \in Papers
                 PROVE  /\ {e.position : e \in place[p]} = 1..Cardinality(place[p])
                        /\ \A e, f \in place[p] :
                              /\ e.question = f.question => e = f
                              /\ e.position < f.position =>
                                    bank[e.question].kind <= bank[f.question].kind
      BY DEF PaperIsInOrder
    <2>1. Laid(place[p], bank)
      BY DEF PaperInv
    <2>2. {e.position : e \in place[p]} = 1..Cardinality(place[p])
      BY <2>1, LaidIsInOrder
    <2> QED BY <2>1, <2>2 DEF Laid
  <1> QED BY <1>1, PapersAreKept, PTL

-----------------------------------------------------------------------------
(* The rows as ClaimedWork.                                                *)

\* A paper waits while it is queued, and is held while it is written.
phaseOf(p) == CASE paper[p].status \in {"none"} \cup Settled -> "free"
                [] paper[p].status = "queued" -> "waiting"
                [] paper[p].status = "generating" -> "held"
                [] paper[p].status = "deleted" -> "gone"

PaperClaims == INSTANCE ClaimedWork WITH
    Jobs <- Papers,
    phase <- [p \in Papers |-> phaseOf(p)],
    holder <- [p \in Papers |-> paper[p].locked_at],
    result <- [p \in Papers |-> paper[p].run],
    taken <- clock

\* Only the claim that holds a paper leaves questions on it, and an older one never
\* replaces them (jobs.py, _still_ours).
LastPaperClaimWins == PaperClaims!CSpec

\* A paper that nobody writes carries no claim.
Unheld(p) == paper[p].status # "generating" => paper[p].locked_at = 0

\* What becomes of a row.
Queued(new, old) == old.status \in {"none"} \cup Settled /\ new = NewPaper
Removed(new, old) == /\ old.status \in Busy \cup Settled
                     /\ new = [NewPaper EXCEPT !.status = "deleted"]
Refused(new, old) == old.status = "queued" /\ new = [old EXCEPT !.status = "failed"]
Late(new, old) == old.status = "generating" /\ new = [old EXCEPT !.overdue = TRUE]
RunEnded(new, old) == /\ old.status = "generating"
                      /\ new.status \in Settled
                      /\ new.locked_at = 0
                      /\ new.run \in {old.run, old.locked_at}
Taken(new, old) == /\ old.status \in Busy
                   /\ new.status = "generating"
                   /\ new.locked_at = clock + 1
                   /\ new.run = old.run

RowMoves(p, new) ==
    /\ paper' = [paper EXCEPT ![p] = new]
    /\ \/ /\ clock' = clock
          /\ \/ Queued(new, paper[p]) \/ Removed(new, paper[p]) \/ Refused(new, paper[p])
             \/ Late(new, paper[p]) \/ RunEnded(new, paper[p])
       \/ clock' = clock + 1 /\ Taken(new, paper[p])

Moves == \/ UNCHANGED <<paper, clock>>
         \/ \E p \in Papers : \E new \in Paper : RowMoves(p, new)

\* The run that saves holds the claim that the row carries.
LEMMA SaveMoves ==
  ASSUME PaperInv, NEW w \in Workers, Save(w)
  PROVE  Moves
  <1>1. PICK p : p = worker[w].paper
    OBVIOUS
  <1>2. p \in Papers /\ paper[p] \in Paper /\ worker[w] \in Hand /\ clock' = clock
    BY <1>1 DEF PaperInv, PapersTypeOK, Writing, Save
  <1>3. CASE ~StillOurs(w)
    BY <1>2, <1>3 DEF Save, Moves
  <1>4. CASE StillOurs(w)
    <2>1. PICK status \in {"ready", "needs_review", "failed"} :
             paper' = [paper EXCEPT ![p].status = status, ![p].locked_at = 0,
                                    ![p].overdue = FALSE, ![p].run = worker[w].locked_at]
      BY <1>1, <1>4 DEF Save
    <2>2. PICK new : new = [paper[p] EXCEPT !.status = status, !.locked_at = 0,
                                            !.overdue = FALSE, !.run = worker[w].locked_at]
      OBVIOUS
    <2>3. paper[p].status = "generating" /\ paper[p].locked_at = worker[w].locked_at
      BY <1>1, <1>4 DEF StillOurs
    <2>4. new \in Paper /\ RunEnded(new, paper[p])
      BY <1>2, <2>2, <2>3 DEF Paper, Hand, Status, Settled, RunEnded
    <2>5. paper' = [paper EXCEPT ![p] = new]
      BY <2>1, <2>2
    <2> QED BY <1>2, <2>4, <2>5 DEF RowMoves, Moves
  <1> QED BY <1>3, <1>4

LEMMA WorkMoves ==
  ASSUME PaperInv, NEW w \in Workers, Work(w), ~Save(w)
  PROVE  Moves
  <1>1. PICK p : p = worker[w].paper
    OBVIOUS
  <1>2. worker[w].pc # "idle" => p \in Papers /\ paper[p] \in Paper
    BY <1>1 DEF PaperInv, PapersTypeOK, Writing
  <1>3. clock \in Nat
    BY DEF PaperInv, PapersTypeOK
  <1>4. ASSUME \/ \E o \in Papers : PickPending(w, o)
               \/ PassOver(w) \/ ClaimRefused(w) \/ Write(w)
        PROVE  Moves
    BY <1>4 DEF PickPending, PassOver, ClaimRefused, Write, Moves
  <1>5. CASE GiveUp(w) \/ Fail(w)
    <2>1. p \in Papers /\ paper[p] \in Paper /\ clock' = clock
      BY <1>2, <1>5 DEF GiveUp, Fail
    <2>2. \/ paper' = paper
          \/ /\ paper[p].status = "generating"
             /\ paper' = [paper EXCEPT ![p].status = "failed", ![p].locked_at = 0,
                                       ![p].overdue = FALSE]
      BY <1>1, <1>5 DEF GiveUp, Fail, Exhausted, StillOurs
    <2>3. CASE paper' = paper
      BY <2>1, <2>3 DEF Moves
    <2>4. CASE paper' # paper
      <3>1. PICK new : new = [paper[p] EXCEPT !.status = "failed", !.locked_at = 0,
                                              !.overdue = FALSE]
        OBVIOUS
      <3>2. new \in Paper /\ RunEnded(new, paper[p])
        BY <2>1, <2>2, <2>4, <3>1 DEF Paper, Status, Settled, RunEnded
      <3>3. paper' = [paper EXCEPT ![p] = new]
        BY <2>2, <2>4, <3>1
      <3> QED BY <2>1, <3>2, <3>3 DEF RowMoves, Moves
    <2> QED BY <2>3, <2>4
  <1>6. CASE FailUnclaimed(w)
    <2>1. p \in Papers /\ paper[p] \in Paper /\ clock' = clock
      BY <1>2, <1>6 DEF FailUnclaimed
    <2>2. \/ paper' = paper
          \/ /\ paper[p].status = "queued"
             /\ paper' = [paper EXCEPT ![p].status = "failed"]
      BY <1>1, <1>6 DEF FailUnclaimed
    <2>3. CASE paper' = paper
      BY <2>1, <2>3 DEF Moves
    <2>4. CASE paper' # paper
      <3>1. PICK new : new = [paper[p] EXCEPT !.status = "failed"]
        OBVIOUS
      <3>2. new \in Paper /\ Refused(new, paper[p])
        BY <2>1, <2>2, <2>4, <3>1 DEF Paper, Status, Refused
      <3>3. paper' = [paper EXCEPT ![p] = new]
        BY <2>2, <2>4, <3>1
      <3> QED BY <2>1, <3>2, <3>3 DEF RowMoves, Moves
    <2> QED BY <2>3, <2>4
  <1>7. CASE Claim(w)
    <2>1. p \in Papers /\ paper[p] \in Paper /\ clock' = clock + 1
      BY <1>2, <1>7 DEF Claim
    <2>2. /\ paper[p].status \in {"queued", "generating"}
          /\ paper' = [paper EXCEPT ![p].status = "generating", ![p].locked_at = clock + 1,
                                    ![p].overdue = FALSE, ![p].attempts = @ + 1]
      BY <1>1, <1>7 DEF Claim, Claimable, Silent
    <2>3. PICK new : new = [paper[p] EXCEPT !.status = "generating", !.locked_at = clock + 1,
                                            !.overdue = FALSE, !.attempts = @ + 1]
      OBVIOUS
    <2>4. new \in Paper /\ Taken(new, paper[p])
      <3>1. PICK n \in Nat : n = clock + 1
        BY <1>3
      <3>2. PICK old \in Paper, m \in Nat : old = paper[p] /\ m = old.attempts + 1
        BY <2>1 DEF Paper
      <3>3. new = [old EXCEPT !.status = "generating", !.locked_at = n,
                              !.overdue = FALSE, !.attempts = m]
        BY <2>3, <3>1, <3>2
      <3>4. new \in Paper
        BY <3>3 DEF Paper, Status
      <3> QED BY <2>2, <3>1, <3>2, <3>3, <3>4 DEF Taken, Busy, Paper
    <2>5. paper' = [paper EXCEPT ![p] = new]
      BY <2>2, <2>3
    <2> QED BY <2>1, <2>4, <2>5 DEF RowMoves, Moves
  <1> QED BY <1>4, <1>5, <1>6, <1>7 DEF Work

LEMMA EveryStepMoves ==
  ASSUME PaperInv, [PapersNext]_papersVars
  PROVE  Moves
  <1>1. /\ paper \in [Papers -> Paper] /\ NewPaper \in Paper
        /\ [NewPaper EXCEPT !.status = "deleted"] \in Paper
    BY RowIs DEF PaperInv, PapersTypeOK, Status
  <1>2. ASSUME NEW p \in Papers, Create(p) \/ Regenerate(p) PROVE Moves
    <2>1. /\ paper' = [paper EXCEPT ![p] = NewPaper] /\ clock' = clock
          /\ Queued(NewPaper, paper[p])
      BY <1>2 DEF Create, Regenerate, Editable, Queued
    <2> QED BY <1>1, <2>1 DEF RowMoves, Moves
  <1>3. ASSUME NEW p \in Papers, Delete(p) PROVE Moves
    <2>1. PICK new : new = [NewPaper EXCEPT !.status = "deleted"]
      OBVIOUS
    <2>2. /\ paper' = [paper EXCEPT ![p] = new] /\ clock' = clock /\ new \in Paper
          /\ Removed(new, paper[p])
      BY <1>1, <1>3, <2>1 DEF Delete, Removed
    <2> QED BY <2>2 DEF RowMoves, Moves
  <1>4. ASSUME NEW p \in Papers, Overdue(p) PROVE Moves
    <2>1. PICK new : new = [paper[p] EXCEPT !.overdue = TRUE]
      OBVIOUS
    <2>2. /\ paper' = [paper EXCEPT ![p] = new] /\ clock' = clock /\ new \in Paper
          /\ Late(new, paper[p])
      BY <1>1, <1>4, <2>1 DEF Overdue, Late, Paper
    <2> QED BY <2>2 DEF RowMoves, Moves
  <1>5. ASSUME NEW p \in Papers,
               \/ RemoveEntry(p) \/ AddEntry(p) \/ ReplaceEntry(p) \/ ChaptersChange(p)
               \/ \E t \in Teachers : LookUpUse(t, p)
        PROVE  Moves
    BY <1>5 DEF RemoveEntry, AddEntry, ReplaceEntry, LookUpUse, ChaptersChange, Moves
  <1>6. ASSUME NEW t \in Teachers, WriteEdit(t) PROVE Moves
    BY <1>6 DEF WriteEdit, Moves
  <1>7. ASSUME NEW w \in Workers, Crash(w) PROVE Moves
    BY <1>7 DEF Crash, Moves
  <1>8. CASE UNCHANGED papersVars
    BY <1>8 DEF papersVars, Moves
  <1> QED BY <1>2, <1>3, <1>4, <1>5, <1>6, <1>7, <1>8, WorkMoves, SaveMoves DEF PapersNext, Teach

\* What ClaimedWork sees of one row's step.
LEMMA RowSeen ==
  ASSUME paper \in [Papers -> Paper], NEW p \in Papers, NEW new \in Paper,
         paper' = [paper EXCEPT ![p] = new]
  PROVE  \A s : phaseOf(p)' = s =>
           /\ [o \in Papers |-> phaseOf(o)]' = [[o \in Papers |-> phaseOf(o)] EXCEPT ![p] = s]
           /\ [o \in Papers |-> paper[o].locked_at]'
                = [[o \in Papers |-> paper[o].locked_at] EXCEPT ![p] = new.locked_at]
           /\ [o \in Papers |-> paper[o].run]'
                = [[o \in Papers |-> paper[o].run] EXCEPT ![p] = new.run]
  <1>1. \A o \in Papers : paper'[o] = IF o = p THEN new ELSE paper[o]
    OBVIOUS
  <1>2. \A o \in Papers : o # p => phaseOf(o)' = phaseOf(o)
    BY <1>1 DEF phaseOf
  <1>3. ASSUME NEW s, phaseOf(p)' = s
        PROVE  [o \in Papers |-> phaseOf(o)]' = [[o \in Papers |-> phaseOf(o)] EXCEPT ![p] = s]
    BY <1>2, <1>3
  <1>4. [o \in Papers |-> paper[o].locked_at]'
          = [[o \in Papers |-> paper[o].locked_at] EXCEPT ![p] = new.locked_at]
    <2>1. paper'[p].locked_at = new.locked_at
      BY <1>1
    <2>2. \A o \in Papers : o # p => paper'[o].locked_at = paper[o].locked_at
      BY <1>1
    <2> QED BY <2>1, <2>2
  <1>5. [o \in Papers |-> paper[o].run]'
          = [[o \in Papers |-> paper[o].run] EXCEPT ![p] = new.run]
    <2>1. paper'[p].run = new.run
      BY <1>1
    <2>2. \A o \in Papers : o # p => paper'[o].run = paper[o].run
      BY <1>1
    <2> QED BY <2>1, <2>2
  <1> QED BY <1>3, <1>4, <1>5

LEMMA RowsUnheld ==
  ASSUME PaperInv, Moves, \A p \in Papers : Unheld(p)
  PROVE  \A p \in Papers : Unheld(p)'
  <1>1. paper \in [Papers -> Paper]
    BY DEF PaperInv, PapersTypeOK
  <1>2. CASE UNCHANGED <<paper, clock>>
    BY <1>2 DEF Unheld
  <1>3. ASSUME NEW p \in Papers, NEW new \in Paper, RowMoves(p, new)
        PROVE  \A o \in Papers : Unheld(o)'
    <2>1. \A o \in Papers : paper'[o] = IF o = p THEN new ELSE paper[o]
      BY <1>1, <1>3 DEF RowMoves
    <2>2. new.status # "generating" => new.locked_at = 0
      <3>1. paper[p] \in Paper /\ Unheld(p)
        BY <1>1
      <3> QED BY <1>3, <3>1
              DEF RowMoves, Queued, Removed, Refused, Late, RunEnded, Taken, NewPaper, Paper, Unheld
    <2> QED BY <2>1, <2>2 DEF Unheld
  <1> QED BY <1>2, <1>3 DEF Moves

LEMMA PaperClaimsStep ==
  ASSUME PaperInv, Moves, \A p \in Papers : Unheld(p)
  PROVE  [PaperClaims!CNext]_(PaperClaims!cvars)
  <1>1. paper \in [Papers -> Paper]
    BY DEF PaperInv, PapersTypeOK
  <1>2. CASE UNCHANGED <<paper, clock>>
    BY <1>2 DEF PaperClaims!cvars, phaseOf
  <1>3. ASSUME NEW p \in Papers, NEW new \in Paper, RowMoves(p, new)
        PROVE  [PaperClaims!CNext]_(PaperClaims!cvars)
    <2>1. PICK old \in Paper : old = paper[p]
      BY <1>1
    <2>2. paper' = [paper EXCEPT ![p] = new] /\ paper'[p] = new
      BY <1>1, <1>3 DEF RowMoves
    <2>3. PICK s : s = phaseOf(p)'
      OBVIOUS
    <2>4. /\ [o \in Papers |-> phaseOf(o)]' = [[o \in Papers |-> phaseOf(o)] EXCEPT ![p] = s]
          /\ [o \in Papers |-> paper[o].locked_at]'
               = [[o \in Papers |-> paper[o].locked_at] EXCEPT ![p] = new.locked_at]
          /\ [o \in Papers |-> paper[o].run]'
               = [[o \in Papers |-> paper[o].run] EXCEPT ![p] = new.run]
      BY <1>1, <2>2, <2>3, RowSeen
    <2>5. /\ new.status \in {"none"} \cup Settled => s = "free"
          /\ new.status = "queued" => s = "waiting"
          /\ new.status = "generating" => s = "held"
          /\ new.status = "deleted" => s = "gone"
      BY <2>2, <2>3 DEF phaseOf, Settled
    <2>6. /\ old.status \in {"none"} \cup Settled => phaseOf(p) = "free"
          /\ old.status = "queued" => phaseOf(p) = "waiting"
          /\ old.status = "generating" => phaseOf(p) = "held"
          /\ old.status = "deleted" => phaseOf(p) = "gone"
      BY <2>1 DEF phaseOf, Settled
    <2>7. old.status # "generating" => old.locked_at = 0
      BY <2>1 DEF Unheld
    <2>8. CASE clock' = clock /\ Late(new, old)
      <3>1. new.status = old.status /\ new.locked_at = old.locked_at /\ new.run = old.run
        BY <2>8 DEF Late, Paper
      <3>2. phaseOf(p)' = phaseOf(p)
        BY <2>1, <2>2, <3>1 DEF phaseOf
      <3>3. UNCHANGED PaperClaims!cvars
        BY <2>1, <2>3, <2>4, <2>8, <3>1, <3>2 DEF PaperClaims!cvars
      <3> QED BY <3>3
    <2>9. CASE clock' = clock /\ (Queued(new, old) \/ Refused(new, old))
      <3>1. phaseOf(p) \in {"free", "waiting"} /\ s \in {"free", "waiting"}
        BY <2>5, <2>6, <2>9 DEF Queued, Refused, NewPaper, Settled, Paper
      <3>2. new.run \in {0, old.run} /\ new.locked_at = old.locked_at
        BY <2>7, <2>9 DEF Queued, Refused, NewPaper, Settled, Paper
      <3>3. PaperClaims!Ask(p)
        BY <2>1, <2>4, <2>9, <3>1, <3>2 DEF PaperClaims!Ask
      <3> QED BY <3>3 DEF PaperClaims!CNext
    <2>10. CASE clock' = clock /\ Removed(new, old)
      <3>1. phaseOf(p) # "gone" /\ s = "gone" /\ new.locked_at = 0 /\ new.run = 0
        BY <2>5, <2>6, <2>10 DEF Removed, NewPaper, Busy, Settled
      <3>2. PaperClaims!Drop(p)
        BY <2>4, <2>10, <3>1 DEF PaperClaims!Drop
      <3> QED BY <3>2 DEF PaperClaims!CNext
    <2>11. CASE clock' = clock /\ RunEnded(new, old)
      <3>1. /\ phaseOf(p) = "held" /\ s = "free" /\ new.locked_at = 0
            /\ new.run \in {old.run, old.locked_at}
        BY <2>5, <2>6, <2>11 DEF RunEnded
      <3>2. PaperClaims!Settle(p)
        BY <2>1, <2>4, <2>11, <3>1 DEF PaperClaims!Settle
      <3> QED BY <3>2 DEF PaperClaims!CNext
    <2>12. CASE clock' = clock + 1 /\ Taken(new, old)
      <3>1. /\ phaseOf(p) \in {"waiting", "held"} /\ s = "held" /\ new.locked_at = clock + 1
            /\ new.run = old.run
        BY <2>5, <2>6, <2>12 DEF Taken, Busy
      <3>2. PaperClaims!Take(p)
        BY <2>1, <2>4, <2>12, <3>1 DEF PaperClaims!Take
      <3> QED BY <3>2 DEF PaperClaims!CNext
    <2> QED BY <1>3, <2>1, <2>8, <2>9, <2>10, <2>11, <2>12 DEF RowMoves
  <1> QED BY <1>2, <1>3 DEF Moves

LEMMA PaperClaimsInit ==
  ASSUME PapersInit
  PROVE  PaperClaims!CInit /\ \A p \in Papers : Unheld(p)
  <1>1. \A p \in Papers : paper[p] = [NewPaper EXCEPT !.status = "none"]
    BY DEF PapersInit
  <1>2. \A p \in Papers : phaseOf(p) = "free" /\ paper[p].locked_at = 0 /\ paper[p].run = 0
    BY <1>1 DEF NewPaper, phaseOf
  <1> QED BY <1>2 DEF PaperClaims!CInit, PapersInit, Unheld

\* The papers' rows implement ClaimedWork: a paper carries the questions of the claim that
\* held it last, however late a run that was taken over comes back (jobs.py, _still_ours).
THEOREM PapersAreClaimedWork == PapersSpec => LastPaperClaimWins
  <1> DEFINE Rows == PaperInv /\ \A p \in Papers : Unheld(p)
  <1>1. PapersInit => PaperClaims!CInit /\ Rows
    BY PaperClaimsInit, InitIsKept
  <1>2. Rows /\ [PapersNext]_papersVars => [PaperClaims!CNext]_(PaperClaims!cvars) /\ Rows'
    <2> SUFFICES ASSUME PaperInv, \A p \in Papers : Unheld(p), [PapersNext]_papersVars
                 PROVE  [PaperClaims!CNext]_(PaperClaims!cvars) /\ Rows'
      OBVIOUS
    <2>1. Moves
      BY EveryStepMoves
    <2> QED BY <2>1, PaperClaimsStep, RowsUnheld, StepIsKept
  <1> HIDE DEF Rows
  <1> QED BY <1>1, <1>2, PTL DEF PapersSpec, LastPaperClaimWins, PaperClaims!CSpec
=============================================================================
