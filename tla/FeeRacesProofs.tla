---------------------------- MODULE FeeRacesProofs ----------------------------
(***************************************************************************)
(* For any number of concurrent requests, challans and receipts: the       *)
(* running balance of the statement never breaks, and no challan is        *)
(* charged twice.  Both rest on locks kept to the commit: the student row  *)
(* for the balance, the challan's row for its charge.                      *)
(***************************************************************************)
EXTENDS FeeRaces, SumFacts

Fields == {"pc", "began", "seen", "locks", "wrote", "number", "money", "todo",
           "drops", "absorbs", "victim", "due", "own", "moved"}
Columns == {"status", "paid", "reservedBy", "carried"}

\* Every session is a record, and every row it has seen a row.
Shape ==
  /\ DOMAIN tx = Requests /\ DOMAIN voucher = Vouchers
  /\ \A v \in Vouchers : DOMAIN voucher[v] = Columns
  /\ \A r \in Requests :
       /\ DOMAIN tx[r] = Fields /\ DOMAIN tx[r].seen = Vouchers
       /\ \A v \in Vouchers : DOMAIN tx[r].seen[v] = Columns

StudentLock == <<"student", 0>>
RowLock(v) == <<"voucher", v>>

Exclusive ==
  \A q, r \in Requests : q # r => tx[q].locks \cap tx[r].locks = {}

\* What a session appends continues the committed statement, and nobody else
\* can append until it commits.
Chained(t) ==
  /\ t.own = <<>> => t.moved = 0
  /\ t.own # <<>> => StudentLock \in t.locks /\ t.own[Len(t.own)].after = balance + t.moved
  /\ \A i \in 1..Len(t.own) :
       t.own[i].after = (IF i = 1 THEN balance ELSE t.own[i - 1].after) + t.own[i].amount

Charges(s, v) == \E i \in 1..Len(s) : s[i].type = "charge" /\ s[i].voucher = v

\* A charge is only ever written by the holder of the challan's row.
Charging(t) ==
  /\ \A v \in Vouchers : Charges(t.own, v) => RowLock(v) \in t.locks /\ ~Charges(entries, v)
  /\ \A i, j \in 1..Len(t.own) :
       t.own[i].type = "charge" /\ t.own[j].type = "charge"
         /\ t.own[i].voucher = t.own[j].voucher => i = j
  /\ t.pc = "append" /\ t.due.type = "charge" =>
       /\ RowLock(t.due.voucher) \in t.locks
       /\ ~Charges(entries, t.due.voucher) /\ ~Charges(t.own, t.due.voucher)

\* Charges are appended under the challan's row lock, and by nothing but an issue.
Ready(r, t) ==
  /\ t.pc = "charge" => RowLock(Job[r].voucher) \in t.locks
  /\ t.pc \in {"load", "sum", "write", "append"} => t.due \in Movement
  /\ t.pc \in {"load", "sum", "write"} => t.due.type # "charge"

IInv ==
  /\ TypeOK /\ Shape /\ Exclusive /\ RunningBalance /\ ChargedOnce
  /\ \A r \in Requests : Chained(tx[r]) /\ Charging(tx[r]) /\ Ready(r, tx[r])

SessionOK(t) ==
  /\ DOMAIN t = Fields /\ DOMAIN t.seen = Vouchers
  /\ t.moved \in Int /\ t.due \in Movement \cup {NoEntry} /\ t.own \in Seq(Line) /\ t.began \in Nat
  /\ t.wrote \in {"nothing", "recorded", "reversed"}
  /\ \A v \in Vouchers : DOMAIN t.seen[v] = Columns /\ t.seen[v].carried \in Amount

\* The locks a step may leave r with: some of its own, or those and a free one.
Locking(r, t) ==
  t.locks \subseteq tx[r].locks \/ (Unblocked(r) /\ t.locks = tx[r].locks \cup Wants(r))

\* A step of one session disturbs none of the others.
LEMMA MoveKeeps ==
  ASSUME IInv, NEW r \in Requests, NEW t, Move(r, t), SessionOK(t), Locking(r, t),
         Chained(t), Charging(t), Ready(r, t)
  PROVE  IInv'
<1>1. /\ DOMAIN tx' = Requests /\ tx'[r] = t
      /\ \A q \in Requests : q # r => tx'[q] = tx[q]
      /\ UNCHANGED <<voucher, receipt, entries, balance>>
  BY DEF Move, IInv, Shape
<1>2. TypeOK' /\ Shape'
  <2>1. SessionOK(t) /\ \A q \in Requests : q # r => SessionOK(tx[q])
    BY DEF IInv, TypeOK, Shape, SessionOK
  <2>2. \A q \in Requests : SessionOK(tx[q])'
    BY <1>1, <2>1 DEF SessionOK
  <2>3. /\ balance' \in Int /\ entries' \in Seq(Line)
        /\ receipt' \in [Receipts -> {"none", "recorded", "reversed"}]
        /\ DOMAIN voucher' = Vouchers
        /\ \A v \in Vouchers : /\ voucher'[v].carried \in Amount
                               /\ DOMAIN voucher'[v] = Columns
    BY <1>1 DEF IInv, TypeOK, Shape
  <2> QED BY <1>1, <2>2, <2>3 DEF TypeOK, Shape, SessionOK
<1>3. Exclusive'
  <2>1. \A q \in Requests : q # r => tx[q].locks \cap t.locks = {}
    <3>1. CASE t.locks \subseteq tx[r].locks
      BY <3>1 DEF IInv, Exclusive
    <3>2. CASE Unblocked(r) /\ t.locks = tx[r].locks \cup Wants(r)
      <4>1. \A q \in Requests : q # r => Wants(r) \cap tx[q].locks = {}
        BY <3>2 DEF Unblocked, WaitsFor
      <4> QED BY <3>2, <4>1 DEF IInv, Exclusive
    <3> QED BY <3>1, <3>2 DEF Locking
  <2> QED BY <1>1, <2>1 DEF Exclusive, IInv
<1>4. RunningBalance' /\ ChargedOnce'
  BY <1>1 DEF IInv, RunningBalance, ChargedOnce
<1>5. ASSUME NEW s, Chained(s), Charging(s)
      PROVE  Chained(s)' /\ Charging(s)'
  BY <1>1, <1>5 DEF Chained, Charging, Charges
<1>6. ASSUME NEW q \in Requests
      PROVE  Chained(tx[q])' /\ Charging(tx[q])' /\ Ready(q, tx[q])'
  <2>1. CASE q = r
    <3>1. Chained(t)' /\ Charging(t)' /\ Ready(r, t)'
      BY <1>5 DEF Ready
    <3> QED BY <1>1, <2>1, <3>1 DEF Chained, Charging, Ready
  <2>2. CASE q # r
    <3>1. Chained(tx[q]) /\ Charging(tx[q]) /\ Ready(q, tx[q])
      BY DEF IInv
    <3>2. tx'[q] = tx[q] /\ balance' = balance /\ entries' = entries
      BY <1>1, <2>2
    <3>3. Chained(tx[q])'
      BY <3>1, <3>2 DEF Chained
    <3>4. Charging(tx[q])'
      BY <3>1, <3>2 DEF Charging, Charges
    <3> QED BY <3>1, <3>2, <3>3, <3>4 DEF Ready
  <2> QED BY <2>1, <2>2
<1> QED BY <1>2, <1>3, <1>4, <1>6 DEF IInv

\* A session that has appended nothing and holds nothing is always in order.
LEMMA IdleSession ==
  ASSUME NEW pc \in {"start", "refused", "answered"}, NEW r \in Requests
  PROVE  SessionOK(Idle(pc)) /\ Chained(Idle(pc)) /\ Charging(Idle(pc)) /\ Ready(r, Idle(pc))
<1>1. Idle(pc).own = <<>> /\ Idle(pc).moved = 0 /\ Idle(pc).pc = pc /\ Idle(pc).due = NoEntry
  BY DEF Idle
<1>2. SessionOK(Idle(pc))
  BY RacesAssumption DEF SessionOK, Idle, Fields, Columns, Unread, NoEntry, Movement, Amount
<1> QED BY <1>1, <1>2 DEF Chained, Charging, Charges, Ready

LEMMA IdleKeeps ==
  ASSUME IInv, NEW r \in Requests, Refuse(r) \/ Answer(r)
  PROVE  IInv'
<1>1. PICK pc \in {"refused", "answered"} : Move(r, Idle(pc))
  BY DEF Refuse, Answer
<1>2. Locking(r, Idle(pc))
  BY DEF Locking, Idle
<1> QED BY <1>1, <1>2, IdleSession, MoveKeeps

\* A step of r that leaves what it has appended alone.
Quiet(r, t) ==
  /\ SessionOK(t) /\ Locking(r, t) /\ Ready(r, t)
  /\ tx[r].locks \subseteq t.locks
  /\ t.own = tx[r].own /\ t.moved = tx[r].moved
  /\ t.pc = "append" /\ t.due.type = "charge" =>
       /\ RowLock(t.due.voucher) \in t.locks
       /\ ~Charges(entries, t.due.voucher) /\ ~Charges(t.own, t.due.voucher)

LEMMA QuietKeeps ==
  ASSUME IInv, NEW r \in Requests, NEW t, Quiet(r, t), Move(r, t)
  PROVE  IInv'
<1>1. Chained(tx[r]) /\ Charging(tx[r])
  BY DEF IInv
<1>2. Chained(t)
  BY <1>1 DEF Quiet, Chained
<1>3. Charging(t)
  BY <1>1 DEF Quiet, Charging
<1> QED BY <1>2, <1>3, MoveKeeps DEF Quiet

LEMMA SessionNow ==
  ASSUME IInv, NEW r \in Requests
  PROVE  /\ SessionOK(tx[r]) /\ Chained(tx[r]) /\ Charging(tx[r]) /\ Ready(r, tx[r])
         /\ Job[r].voucher \in Vouchers /\ Job[r].receipt \in Receipts
         /\ \A v \in Vouchers : Own[v] \in Nat /\ voucher[v].carried \in Nat
         /\ \A p \in Receipts : AmountOf(p) \in Nat
<1>1. SessionOK(tx[r]) /\ Chained(tx[r]) /\ Charging(tx[r]) /\ Ready(r, tx[r])
  BY DEF IInv, TypeOK, Shape, SessionOK
<1>2. Job[r].voucher \in Vouchers /\ Job[r].receipt \in Receipts
  BY RacesAssumption
<1>3. \A v \in Vouchers : Own[v] \in Nat /\ voucher[v].carried \in Nat
  BY RacesAssumption DEF IInv, TypeOK, Amount
<1>4. \A p \in Receipts : AmountOf(p) \in Nat
  BY RacesAssumption DEF Amount, AmountOf
<1> QED BY <1>1, <1>2, <1>3, <1>4

\* No UPDATE writes a carried line too wide for its column.
LEMMA MeantFits ==
  ASSUME IInv, NEW r \in Requests, Target(r) \in Vouchers,
         tx[r].pc = "reprice" => tx[r].money \in Amount
  PROVE  Meant(r).carried \in Amount
<1> DEFINE old == tx[r].seen[Target(r)]
<1>1. old.carried \in Amount /\ DOMAIN old = Columns
  BY DEF IInv, TypeOK, Shape
<1> HIDE DEF old
<1>2. /\ [old EXCEPT !.reservedBy = NoVoucher].carried = old.carried
      /\ [old EXCEPT !.status = "void"].carried = old.carried
      /\ [old EXCEPT !.status = "issued"].carried = old.carried
      /\ [old EXCEPT !.carried = tx[r].money].carried = tx[r].money
      /\ Recalculated(Target(r), old, tx[r].money).carried = old.carried
  BY <1>1 DEF Columns, Recalculated
<1>3. Meant(r) = CASE tx[r].pc = "write"    -> Recalculated(Target(r), old, tx[r].money)
        [] tx[r].pc \in {"release", "drop"} -> [old EXCEPT !.reservedBy = NoVoucher]
        [] tx[r].pc = "reprice" /\ CarriesDues(r) -> [old EXCEPT !.carried = tx[r].money]
        [] tx[r].pc = "strike"             -> [old EXCEPT !.status = "void"]
        [] tx[r].pc = "issue"              -> [old EXCEPT !.status = "issued"]
        [] OTHER                           -> old
  BY DEF Meant, old
<1> QED BY <1>1, <1>2, <1>3

LEMMA UpdateKeeps ==
  ASSUME IInv, NEW r \in Requests, NEW t, Update(r, t), SessionOK(t),
         t.own = tx[r].own, t.moved = tx[r].moved, t.locks = tx[r].locks,
         tx[r].pc = "reprice" => tx[r].money \in Amount,
         t.pc \notin {"load", "sum", "write"},
         t.pc = "append" => t.due \in Movement /\ t.due.type # "charge",
         t.pc = "charge" => RowLock(Job[r].voucher) \in Wants(r)
  PROVE  IInv'
<1> DEFINE v == Target(r)
           merged == [c \in DOMAIN Unread |->
                        IF Meant(r)[c] = tx[r].seen[v][c] THEN Current(r, v)[c]
                        ELSE Meant(r)[c]]
           u == [t EXCEPT !.seen[v] = merged, !.locks = @ \cup Wants(r)]
<1>1. Unblocked(r) /\ Move(r, u)
  BY DEF Update
<1>2. v \in Vouchers => merged.carried \in Amount
  <2> SUFFICES ASSUME v \in Vouchers PROVE merged.carried \in Amount
    OBVIOUS
  <2>1. Current(r, v).carried \in Amount
    BY DEF Current, IInv, TypeOK
  <2>2. Meant(r).carried \in Amount
    BY MeantFits
  <2> QED BY <2>1, <2>2 DEF Unread
<1>3. DOMAIN merged = Columns
  BY DEF Unread, Columns
<1> HIDE DEF merged, v
<1>4. /\ u.own = tx[r].own /\ u.moved = tx[r].moved /\ u.pc = t.pc /\ u.due = t.due
      /\ u.began = t.began /\ u.wrote = t.wrote /\ u.locks = tx[r].locks \cup Wants(r) /\ DOMAIN u = Fields
      /\ u.seen = [t.seen EXCEPT ![v] = merged]
  BY DEF SessionOK, Fields
<1> HIDE DEF u
<1>5. SessionOK(u)
  BY <1>2, <1>3, <1>4 DEF SessionOK
<1>6. Quiet(r, u)
  BY <1>1, <1>4, <1>5 DEF Quiet, Locking, Ready
<1> QED BY <1>1, <1>6, QuietKeeps

-----------------------------------------------------------------------------
LEMMA BeganTypes == ASSUME NEW r \in Requests
                    PROVE  Cardinality({q \in Requests : ~At(q, "start")}) \in Nat
BY RacesAssumption, FS_Subset, FS_CardinalityType

LEMMA PaymentsKeep ==
  ASSUME IInv, NEW r \in Requests,
         PayLoads(r) \/ PayNumbers(r) \/ PayInserts(r) \/ Sums(r) \/ Writes(r)
  PROVE  IInv'
<1> USE SessionNow
<1>1. CASE PayLoads(r)
  <2> DEFINE t == [Begun(r) EXCEPT !.pc = "number",
                                   !.seen[Job[r].voucher] = voucher[Job[r].voucher]]
  <2>1. CASE Move(r, t)
    <3>0. DOMAIN voucher = Vouchers /\ \A u \in Vouchers : /\ DOMAIN voucher[u] = Columns
                                                        /\ voucher[u].carried \in Amount
      BY DEF IInv, TypeOK, Shape
    <3>1. SessionOK(t)
      BY <3>0, BeganTypes DEF Begun, SessionOK, Fields
    <3>2. Quiet(r, t)
      BY <3>1 DEF Begun, Quiet, Locking, Ready, SessionOK, Fields
    <3> QED BY <2>1, <3>2, QuietKeeps
  <2>2. CASE Refuse(r)
    BY <2>2, IdleKeeps
  <2> QED BY <1>1, <2>1, <2>2 DEF PayLoads
<1>2. CASE PayNumbers(r)
  <2> DEFINE t == [tx[r] EXCEPT !.pc = "insert",
                                !.number = Used(Slip[Job[r].receipt].book) + 1]
  <2>1. Quiet(r, t)
    BY DEF Quiet, Locking, Ready, SessionOK, Fields
  <2> QED BY <1>2, <2>1, QuietKeeps DEF PayNumbers
<1>3. CASE PayInserts(r)
  <2> DEFINE due == Entry("payment", Job[r].voucher, -AmountOf(Job[r].receipt))
             t == [tx[r] EXCEPT !.pc = "sum", !.wrote = "recorded",
                                !.locks = @ \cup Wants(r), !.due = due]
  <2>1. CASE Unblocked(r) /\ Move(r, t)
    <3>1. due \in Movement /\ due.type = "payment"
      BY DEF Entry, Movement, Types
    <3>2. Quiet(r, t)
      BY <2>1, <3>1 DEF Quiet, Locking, Ready, SessionOK, Fields
    <3> QED BY <2>1, <3>2, QuietKeeps
  <2>2. CASE Refuse(r)
    BY <2>2, IdleKeeps
  <2> QED BY <1>3, <2>1, <2>2 DEF PayInserts
<1>4. CASE Sums(r)
  <2> DEFINE t == [tx[r] EXCEPT !.pc = "write", !.money = Collected(r, Job[r].voucher)]
  <2>1. Quiet(r, t)
    BY <1>4 DEF Sums, At, Quiet, Locking, Ready, SessionOK, Fields
  <2> QED BY <1>4, <2>1, QuietKeeps DEF Sums
<1>5. CASE Writes(r)
  <2> DEFINE t == [tx[r] EXCEPT !.pc = "append"]
  <2>1. /\ SessionOK(t) /\ t.own = tx[r].own /\ t.moved = tx[r].moved
        /\ t.locks = tx[r].locks /\ t.pc = "append"
    BY DEF SessionOK, Fields
  <2>2. /\ tx[r].pc = "write" /\ Update(r, t)
        /\ t.due \in Movement /\ t.due.type # "charge"
    BY <1>5 DEF Writes, At, Ready, SessionOK, Fields
  <2> HIDE DEF t
  <2> QED BY <2>1, <2>2, UpdateKeeps
<1> QED BY <1>1, <1>2, <1>3, <1>4, <1>5

LEMMA ReversalsKeep ==
  ASSUME IInv, NEW r \in Requests, ReverseLoads(r) \/ ReverseFlips(r) \/ ReverseReads(r)
  PROVE  IInv'
<1> USE SessionNow
<1>1. CASE ReverseLoads(r)
  <2> DEFINE t == [Begun(r) EXCEPT !.pc = "flip"]
  <2>1. CASE Move(r, t)
    <3>1. Quiet(r, t)
      BY BeganTypes DEF Begun, Quiet, Locking, Ready, SessionOK, Fields
    <3> QED BY <2>1, <3>1, QuietKeeps
  <2>2. CASE Refuse(r)
    BY <2>2, IdleKeeps
  <2> QED BY <1>1, <2>1, <2>2 DEF ReverseLoads
<1>2. CASE ReverseFlips(r)
  <2> DEFINE due == Entry("payment_reversed", Job[r].voucher, AmountOf(Job[r].receipt))
             t == [tx[r] EXCEPT !.pc = "load", !.wrote = "reversed",
                                !.locks = @ \cup Wants(r), !.due = due]
  <2>1. due \in Movement /\ due.type = "payment_reversed"
    BY DEF Entry, Movement, Types
  <2>2. Quiet(r, t)
    BY <1>2, <2>1 DEF ReverseFlips, Quiet, Locking, Ready, SessionOK, Fields
  <2> QED BY <1>2, <2>2, QuietKeeps DEF ReverseFlips
<1>3. CASE ReverseReads(r)
  <2> DEFINE t == [tx[r] EXCEPT !.pc = "sum", !.seen = Loading(r, {Job[r].voucher})]
  <2>1. SessionOK(t)
    BY DEF Loading, Loaded, Current, IInv, TypeOK, Shape, SessionOK, Fields
  <2>2. Quiet(r, t)
    BY <1>3, <2>1 DEF ReverseReads, At, Quiet, Locking, Ready, SessionOK, Fields
  <2> QED BY <1>3, <2>2, QuietKeeps DEF ReverseReads
<1> QED BY <1>1, <1>2, <1>3

LEMMA LoadingFits ==
  ASSUME IInv, NEW r \in Requests, NEW S
  PROVE  /\ DOMAIN Loading(r, S) = Vouchers
         /\ \A v \in Vouchers : /\ DOMAIN Loading(r, S)[v] = Columns
                                /\ Loading(r, S)[v].carried \in Amount
BY DEF Loading, Loaded, Current, IInv, TypeOK, Shape

LEMMA VoidsKeep ==
  ASSUME IInv, NEW r \in Requests,
         VoidLoads(r) \/ VoidChecks(r) \/ VoidFinds(r) \/ VoidReleases(r) \/ VoidStrikes(r)
           \/ VoidCredits(r)
  PROVE  IInv'
<1> USE SessionNow
<1>1. CASE VoidLoads(r)
  <2> DEFINE v == Job[r].voucher
             t == [Begun(r) EXCEPT !.pc = "check", !.seen[v] = voucher[v], !.absorbs = {v}]
  <2>1. CASE Move(r, t)
    <3>0. DOMAIN voucher = Vouchers /\ \A u \in Vouchers : /\ DOMAIN voucher[u] = Columns
                                                        /\ voucher[u].carried \in Amount
      BY DEF IInv, TypeOK, Shape
    <3>1. SessionOK(t)
      BY <3>0, BeganTypes DEF Begun, SessionOK, Fields
    <3>2. Quiet(r, t)
      BY <3>1 DEF Begun, Quiet, Locking, Ready, SessionOK, Fields
    <3> QED BY <2>1, <3>2, QuietKeeps
  <2>2. CASE Refuse(r) \/ Answer(r)
    BY <2>2, IdleKeeps
  <2> QED BY <1>1, <2>1, <2>2 DEF VoidLoads
<1>2. CASE VoidChecks(r)
  <2> DEFINE v == Min(tx[r].absorbs)
             t == [tx[r] EXCEPT !.pc = "holdings", !.victim = v, !.absorbs = @ \ {v}]
  <2>1. CASE Move(r, t)
    <3>1. Quiet(r, t)
      BY DEF Quiet, Locking, Ready, SessionOK, Fields
    <3> QED BY <2>1, <3>1, QuietKeeps
  <2>2. CASE Refuse(r)
    BY <2>2, IdleKeeps
  <2> QED BY <1>2, <2>1, <2>2 DEF VoidChecks
<1>3. CASE VoidFinds(r)
  <2> DEFINE held == ReservedBy(r, tx[r].victim)
             t == [tx[r] EXCEPT !.pc = IF held = {} THEN "strike" ELSE "release",
                                !.todo = held, !.seen = Loading(r, held)]
  <2>1. SessionOK(t)
    BY LoadingFits DEF SessionOK, Fields
  <2>2. Quiet(r, t)
    BY <2>1 DEF Quiet, Locking, Ready, SessionOK, Fields
  <2> QED BY <1>3, <2>2, QuietKeeps DEF VoidFinds
<1>4. CASE VoidReleases(r)
  <2> DEFINE left == tx[r].todo \ {Min(tx[r].todo)}
             t == [tx[r] EXCEPT !.pc = IF left = {} THEN "strike" ELSE "release",
                                !.todo = left]
  <2>1. /\ SessionOK(t) /\ t.own = tx[r].own /\ t.moved = tx[r].moved
        /\ t.locks = tx[r].locks /\ t.pc \in {"strike", "release"}
    BY DEF SessionOK, Fields
  <2>2. tx[r].pc = "release" /\ Update(r, t)
    BY <1>4 DEF VoidReleases, At
  <2> HIDE DEF t
  <2> QED BY <2>1, <2>2, UpdateKeeps
<1>5. CASE VoidStrikes(r)
  <2> DEFINE t == [tx[r] EXCEPT !.pc = "debit"]
  <2>1. /\ SessionOK(t) /\ t.own = tx[r].own /\ t.moved = tx[r].moved
        /\ t.locks = tx[r].locks /\ t.pc = "debit"
    BY DEF SessionOK, Fields
  <2>2. tx[r].pc = "strike" /\ Update(r, t)
    BY <1>5 DEF VoidStrikes, At
  <2> HIDE DEF t
  <2> QED BY <2>1, <2>2, UpdateKeeps
<1>6. CASE VoidCredits(r)
  <2> DEFINE v == tx[r].victim
             next == IF Does(r, "void") THEN "commit"
                     ELSE IF tx[r].absorbs = {} THEN "issue" ELSE "check"
             due == Entry("voucher_voided", v, -Total(v, tx[r].seen[v]))
             t == [tx[r] EXCEPT !.pc = "append", !.due = due]
             u == [tx[r] EXCEPT !.pc = next]
  <2>1. CASE HasCharge(r, v) /\ Move(r, t)
    <3>1. v \in Vouchers
      <4>1. CASE v \in Billed
        BY <4>1, RacesAssumption
      <4>2. CASE \E e \in ToSet(entries \o tx[r].own) : e.voucher = v
        <5>1. entries \o tx[r].own \in Seq(Line)
          BY DEF IInv, TypeOK
        <5>2. PICK i \in DOMAIN (entries \o tx[r].own) : (entries \o tx[r].own)[i].voucher = v
          BY <4>2 DEF ToSet
        <5>3. (entries \o tx[r].own)[i] \in Line
          BY <5>1, <5>2
        <5> QED BY <5>2, <5>3 DEF Line
      <4> QED BY <2>1, <4>1, <4>2 DEF HasCharge
    <3>2. due \in Movement /\ due.type = "voucher_voided"
      BY <3>1 DEF Entry, Movement, Types, Total, Amount, SessionOK
    <3>3. Quiet(r, t)
      BY <3>2 DEF Quiet, Locking, Ready, SessionOK, Fields
    <3> QED BY <2>1, <3>3, QuietKeeps
  <2>2. CASE Move(r, u)
    <3>1. Quiet(r, u)
      BY DEF Quiet, Locking, Ready, SessionOK, Fields
    <3> QED BY <2>2, <3>1, QuietKeeps
  <2> QED BY <1>6, <2>1, <2>2 DEF VoidCredits
<1> QED BY <1>1, <1>2, <1>3, <1>4, <1>5, <1>6

LEMMA IssuesKeep ==
  ASSUME IInv, NEW r \in Requests,
         IssueLoads(r) \/ IssueFinds(r) \/ IssueSorts(r) \/ IssueDrops(r) \/ IssueReprices(r)
           \/ IssueIssues(r) \/ IssueCharges(r)
  PROVE  IInv'
<1> USE SessionNow
<1>1. CASE IssueLoads(r)
  <2> DEFINE v == Job[r].voucher
             t == [Begun(r) EXCEPT !.pc = "reserved", !.seen[v] = voucher[v]]
  <2>1. CASE Move(r, t)
    <3>0. DOMAIN voucher = Vouchers /\ \A u \in Vouchers : /\ DOMAIN voucher[u] = Columns
                                                        /\ voucher[u].carried \in Amount
      BY DEF IInv, TypeOK, Shape
    <3>1. SessionOK(t)
      BY <3>0, BeganTypes DEF Begun, SessionOK, Fields
    <3>2. Quiet(r, t)
      BY <3>1 DEF Begun, Quiet, Locking, Ready, SessionOK, Fields
    <3> QED BY <2>1, <3>2, QuietKeeps
  <2>2. CASE Refuse(r) \/ Answer(r)
    BY <2>2, IdleKeeps
  <2> QED BY <1>1, <2>1, <2>2 DEF IssueLoads
<1>2. CASE IssueFinds(r)
  <2> DEFINE held == ReservedBy(r, Job[r].voucher)
             t == [tx[r] EXCEPT !.pc = IF held = {} THEN "issue" ELSE "sort",
                                !.todo = held, !.seen = Loading(r, held)]
  <2>1. SessionOK(t)
    BY LoadingFits DEF SessionOK, Fields
  <2>2. Quiet(r, t)
    BY <2>1 DEF Quiet, Locking, Ready, SessionOK, Fields
  <2> QED BY <1>2, <2>2, QuietKeeps DEF IssueFinds
<1>3. CASE IssueSorts(r)
  <2> DEFINE v == Min(tx[r].todo)
             left == tx[r].todo \ {v}
             gone == Collected(r, v) > 0 \/ tx[r].seen[v].status \in {"void", "paid"}
             drops == IF gone THEN tx[r].drops \cup {v} ELSE tx[r].drops
             absorbs == IF gone THEN tx[r].absorbs ELSE tx[r].absorbs \cup {v}
             next == IF left # {} THEN "sort" ELSE IF drops # {} THEN "drop" ELSE "check"
             t == [tx[r] EXCEPT !.pc = next, !.todo = left, !.drops = drops,
                                !.absorbs = absorbs]
  <2>1. Move(r, t)
    BY <1>3 DEF IssueSorts
  <2> HIDE DEF left, drops, absorbs
  <2>2. Quiet(r, t)
    BY <2>1 DEF Quiet, Locking, Ready, SessionOK, Fields
  <2> QED BY <2>1, <2>2, QuietKeeps
<1>4. CASE IssueDrops(r)
  <2> DEFINE left == tx[r].drops \ {Min(tx[r].drops)}
             remains == SumOver(LAMBDA v : Total(v, tx[r].seen[v]), tx[r].absorbs)
             t == [tx[r] EXCEPT !.pc = IF left = {} THEN "reprice" ELSE "drop",
                                !.drops = left, !.money = remains]
  <2>1. tx[r].pc = "drop" /\ Update(r, t)
    BY <1>4 DEF IssueDrops, At
  <2> HIDE DEF left, remains
  <2>2. /\ SessionOK(t) /\ t.own = tx[r].own /\ t.moved = tx[r].moved
        /\ t.locks = tx[r].locks /\ t.pc \in {"reprice", "drop"}
    BY DEF SessionOK, Fields
  <2> HIDE DEF t
  <2> QED BY <2>1, <2>2, UpdateKeeps
<1>5. CASE IssueReprices(r)
  <2> DEFINE t == [tx[r] EXCEPT !.pc = IF tx[r].absorbs = {} THEN "issue" ELSE "check"]
  <2>1. /\ SessionOK(t) /\ t.own = tx[r].own /\ t.moved = tx[r].moved
        /\ t.locks = tx[r].locks /\ t.pc \in {"issue", "check"}
    BY DEF SessionOK, Fields
  <2>2. CASE Move(r, t)
    <3>1. Quiet(r, t)
      BY DEF Quiet, Locking, Ready, SessionOK, Fields
    <3> QED BY <2>2, <3>1, QuietKeeps
  <2>3. CASE Refuse(r)
    BY <2>3, IdleKeeps
  <2>4. CASE tx[r].money \in Amount /\ Update(r, t)
    <3> HIDE DEF t
    <3> QED BY <2>1, <2>4, UpdateKeeps
  <2> QED BY <1>5, <2>2, <2>3, <2>4 DEF IssueReprices
<1>6. CASE IssueIssues(r)
  <2> DEFINE t == [tx[r] EXCEPT !.pc = "charge"]
  <2>1. /\ SessionOK(t) /\ t.own = tx[r].own /\ t.moved = tx[r].moved
        /\ t.locks = tx[r].locks /\ t.pc = "charge"
    BY DEF SessionOK, Fields
  <2>2. tx[r].pc = "issue" /\ Update(r, t)
    BY <1>6 DEF IssueIssues, At
  <2>3. RowLock(Job[r].voucher) \in Wants(r)
    BY <2>2 DEF Wants, Stamps, Target, RowLock
  <2> HIDE DEF t
  <2> QED BY <2>1, <2>2, <2>3, UpdateKeeps
<1>7. CASE IssueCharges(r)
  <2> DEFINE v == Job[r].voucher
             total == Total(v, tx[r].seen[v])
             t == [tx[r] EXCEPT !.pc = "commit"]
             u == [tx[r] EXCEPT !.pc = "append", !.due = Entry("charge", v, total)]
  <2>1. CASE Move(r, t)
    <3>1. Quiet(r, t)
      BY DEF Quiet, Locking, Ready, SessionOK, Fields
    <3> QED BY <2>1, <3>1, QuietKeeps
  <2>2. CASE ~HasCharge(r, v) /\ Move(r, u)
    <3>1. RowLock(v) \in tx[r].locks
      BY <1>7 DEF IssueCharges, At, Ready
    <3>2. ~Charges(entries, v) /\ ~Charges(tx[r].own, v)
      <4>1. entries \in Seq(Line) /\ tx[r].own \in Seq(Line)
        BY DEF IInv, TypeOK
      <4> DEFINE all == entries \o tx[r].own
      <4>2. /\ DOMAIN all = 1..(Len(entries) + Len(tx[r].own))
            /\ \A i \in 1..Len(entries) : all[i] = entries[i]
            /\ \A i \in 1..Len(tx[r].own) : all[Len(entries) + i] = tx[r].own[i]
        BY <4>1
      <4>3. \A i \in DOMAIN all : ~(all[i].type = "charge" /\ all[i].voucher = v)
        BY <2>2 DEF HasCharge, ToSet
      <4> HIDE DEF all
      <4>4. Len(entries) \in Nat /\ Len(tx[r].own) \in Nat
        BY <4>1
      <4>5. \A i \in 1..Len(entries) : i \in DOMAIN all
        BY <4>2, <4>4
      <4>6. \A i \in 1..Len(tx[r].own) : Len(entries) + i \in DOMAIN all
        BY <4>2, <4>4
      <4>7. ~Charges(entries, v)
        BY <4>2, <4>3, <4>5, Zenon DEF Charges
      <4>8. ~Charges(tx[r].own, v)
        BY <4>2, <4>3, <4>6, Zenon DEF Charges
      <4> QED BY <4>7, <4>8
    <3>3. Entry("charge", v, total) \in Movement
      BY DEF Entry, Movement, Types, Total, Amount, SessionOK
    <3>4. Quiet(r, u)
      BY <3>1, <3>2, <3>3 DEF Quiet, Locking, Ready, SessionOK, Fields, Entry
    <3> QED BY <2>2, <3>4, QuietKeeps
  <2> QED BY <1>7, <2>1, <2>2 DEF IssueCharges
<1> QED BY <1>1, <1>2, <1>3, <1>4, <1>5, <1>6, <1>7

-----------------------------------------------------------------------------
LEMMA AppendsKeep ==
  ASSUME IInv, NEW r \in Requests, Appends(r)
  PROVE  IInv'
<1> DEFINE old == tx[r]
           moved == old.moved + old.due.amount
           line == [type |-> old.due.type, voucher |-> old.due.voucher,
                    amount |-> old.due.amount, after |-> balance + moved,
                    began |-> old.began]
           next == IF ~Does(r, "issue") \/ old.due.type = "charge" THEN "commit"
                   ELSE IF old.absorbs = {} THEN "issue" ELSE "check"
           t == [old EXCEPT !.pc = next, !.own = Append(@, line), !.moved = moved,
                            !.locks = @ \cup Wants(r)]
<1>1. /\ SessionOK(old) /\ Chained(old) /\ Charging(old) /\ balance \in Int
      /\ old.pc = "append" /\ old.due \in Movement /\ Unblocked(r) /\ Move(r, t)
  BY SessionNow DEF Appends, At, Ready, IInv, TypeOK
<1>2. Wants(r) = {StudentLock}
  BY <1>1 DEF Wants, Stamps, Meant, StudentLock
<1>3. /\ old.own \in Seq(Line) /\ old.moved \in Int /\ line \in Line /\ moved \in Int
      /\ line.amount = old.due.amount /\ line.after = balance + moved
      /\ line.type = old.due.type /\ line.voucher = old.due.voucher
  BY <1>1 DEF SessionOK, Movement, Line
<1> HIDE DEF line
<1>4. /\ t.own = Append(old.own, line) /\ t.moved = moved /\ t.due = old.due
      /\ t.pc \in {"commit", "issue", "check"} /\ t.locks = old.locks \cup {StudentLock}
      /\ SessionOK(t)
  BY <1>1, <1>2, <1>3 DEF SessionOK, Fields
<1> HIDE DEF t, moved, next
<1>5. /\ Len(t.own) = Len(old.own) + 1 /\ t.own # <<>> /\ Len(old.own) \in Nat
      /\ \A i \in 1..Len(old.own) : t.own[i] = old.own[i]
      /\ t.own[Len(old.own) + 1] = line
      /\ old.own = <<>> <=> Len(old.own) = 0
  BY <1>3, <1>4
<1>6. Chained(t)
  <2>1. moved = old.moved + old.due.amount
    BY DEF moved
  <2>2. line.after = (IF old.own = <<>> THEN balance ELSE old.own[Len(old.own)].after)
                       + line.amount
    BY <1>1, <1>3, <2>1 DEF Chained, Movement
  <2>3. ASSUME NEW i \in 1..Len(t.own)
        PROVE  t.own[i].after
                 = (IF i = 1 THEN balance ELSE t.own[i - 1].after) + t.own[i].amount
    <3>1. CASE i = Len(old.own) + 1
      BY <1>5, <2>2, <3>1
    <3>2. CASE i \in 1..Len(old.own)
      <4> HIDE DEF old
      <4>1. t.own[i] = old.own[i] /\ (i # 1 => t.own[i - 1] = old.own[i - 1])
        <5>1. i # 1 => i - 1 \in 1..Len(old.own)
          BY <1>5, <3>2
        <5> QED BY <1>5, <3>2, <5>1
      <4>2. old.own[i].after
              = (IF i = 1 THEN balance ELSE old.own[i - 1].after) + old.own[i].amount
        BY <1>1, <3>2 DEF Chained
      <4> QED BY <4>1, <4>2
    <3> QED BY <1>5, <3>1, <3>2
  <2> QED BY <1>3, <1>4, <1>5, <2>3 DEF Chained
<1>7. Charging(t)
  <2>1. ASSUME NEW v \in Vouchers, Charges(t.own, v)
        PROVE  RowLock(v) \in t.locks /\ ~Charges(entries, v)
    <3>1. Charges(old.own, v) \/ (old.due.type = "charge" /\ old.due.voucher = v)
      BY <1>3, <1>5, <2>1 DEF Charges
    <3> QED BY <1>1, <1>4, <3>1 DEF Charging
  <2>2. old.due.type = "charge" => ~Charges(old.own, old.due.voucher)
    BY <1>1 DEF Charging
  <2>3. \A i, j \in 1..Len(t.own) :
          t.own[i].type = "charge" /\ t.own[j].type = "charge"
            /\ t.own[i].voucher = t.own[j].voucher => i = j
    <3>1. \A i, j \in 1..Len(old.own) :
            old.own[i].type = "charge" /\ old.own[j].type = "charge"
              /\ old.own[i].voucher = old.own[j].voucher => i = j
      BY <1>1 DEF Charging
    <3>2. line.type = "charge" =>
            ~\E i \in 1..Len(old.own) :
               old.own[i].type = "charge" /\ old.own[i].voucher = line.voucher
      BY <1>3, <2>2 DEF Charges
    <3>3. \A i \in 1..Len(t.own) : i \in 1..Len(old.own) \/ i = Len(old.own) + 1
      BY <1>5
    <3> HIDE DEF old
    <3> QED BY <1>5, <3>1, <3>2, <3>3
  <2> QED BY <1>4, <2>1, <2>3 DEF Charging
<1>8. Locking(r, t) /\ Ready(r, t)
  BY <1>1, <1>2, <1>4 DEF Locking, Ready
<1> QED BY <1>1, <1>4, <1>6, <1>7, <1>8, MoveKeeps

LEMMA CommitsKeep ==
  ASSUME IInv, NEW r \in Requests, Commits(r)
  PROVE  IInv'
<1> DEFINE own == tx[r].own
<1>1. /\ entries \in Seq(Line) /\ own \in Seq(Line) /\ balance \in Int
      /\ tx[r].moved \in Int /\ entries' = entries \o own
      /\ balance' = balance + tx[r].moved /\ tx' = [tx EXCEPT ![r] = Idle("answered")]
      /\ Chained(tx[r]) /\ Charging(tx[r])
  BY DEF Commits, IInv, TypeOK
<1>2. /\ DOMAIN tx' = Requests /\ tx'[r] = Idle("answered")
      /\ \A q \in Requests : q # r => tx'[q] = tx[q]
  BY <1>1 DEF IInv, Shape
<1> HIDE DEF own
<1>3. /\ Len(entries') = Len(entries) + Len(own)
      /\ Len(entries) \in Nat /\ Len(own) \in Nat /\ (own = <<>> <=> Len(own) = 0)
      /\ \A i \in 1..Len(entries) : entries'[i] = entries[i]
      /\ \A i \in 1..Len(own) : entries'[Len(entries) + i] = own[i]
  BY <1>1
<1>4. \A v : Charges(entries', v) => Charges(entries, v) \/ Charges(own, v)
  <2> SUFFICES ASSUME NEW v, NEW k \in 1..Len(entries'), entries'[k].type = "charge",
                      entries'[k].voucher = v
               PROVE  Charges(entries, v) \/ Charges(own, v)
    BY DEF Charges
  <2>1. CASE k \in 1..Len(entries)
    BY <1>3, <2>1 DEF Charges
  <2>2. CASE k - Len(entries) \in 1..Len(own)
    <3>1. PICK j \in 1..Len(own) : k = Len(entries) + j
      BY <1>3, <2>2
    <3> QED BY <1>3, <3>1 DEF Charges
  <2> QED BY <1>3, <2>1, <2>2
<1>5. TypeOK' /\ Shape'
  <2>1. SessionOK(Idle("answered"))
    BY IdleSession
  <2>2. \A q \in Requests : SessionOK(tx[q])'
    <3>1. \A q \in Requests : q # r => SessionOK(tx[q])
      BY SessionNow
    <3> QED BY <1>2, <2>1, <3>1 DEF SessionOK
  <2>3. /\ DOMAIN voucher' = Vouchers
        /\ \A v \in Vouchers : DOMAIN voucher'[v] = Columns /\ voucher'[v].carried \in Amount
    BY DEF Commits, Current, IInv, TypeOK, Shape
  <2>4. receipt' \in [Receipts -> {"none", "recorded", "reversed"}]
    BY DEF Commits, IInv, TypeOK
  <2>5. balance' \in Int /\ entries' \in Seq(Line)
    BY <1>1
  <2> QED BY <1>2, <2>2, <2>3, <2>4, <2>5 DEF TypeOK, Shape, SessionOK
<1>6. Exclusive'
  BY <1>2 DEF Exclusive, IInv, Idle
<1>7. RunningBalance'
  <2>0. DOMAIN entries = 1..Len(entries) /\ RunningBalance
    BY <1>1 DEF IInv
  <2>1. ASSUME NEW i \in 1..Len(entries), i > 1
        PROVE  entries[i].after = entries[i - 1].after + entries[i].amount
    BY <2>0, <2>1 DEF RunningBalance
  <2>2. Len(entries) > 0 => entries[Len(entries)].after = balance
    <3>1. Len(entries) > 0 => Len(entries) \in 1..Len(entries)
      BY <1>3
    <3> QED BY <2>0, <3>1 DEF RunningBalance
  <2>3. /\ Len(own) > 0 => own[Len(own)].after = balance'
        /\ Len(own) = 0 => balance' = balance
        /\ \A i \in 1..Len(own) :
             own[i].after = (IF i = 1 THEN balance ELSE own[i - 1].after) + own[i].amount
    BY <1>1, <1>3 DEF Chained, own
  <2>4. ASSUME NEW i \in 1..Len(entries'), i > 1
        PROVE  entries'[i].after = entries'[i - 1].after + entries'[i].amount
    <3>1. CASE i \in 1..Len(entries)
      <4>1. i - 1 \in 1..Len(entries)
        BY <1>3, <2>4, <3>1
      <4> QED BY <1>3, <2>1, <2>4, <3>1, <4>1
    <3>2. CASE i = Len(entries) + 1
      <4>1. 1 \in 1..Len(own) /\ Len(entries) \in 1..Len(entries) /\ Len(entries) > 0
            /\ i - 1 = Len(entries)
        BY <1>3, <2>4, <3>2
      <4>2. entries'[i] = own[1] /\ entries'[i - 1] = entries[Len(entries)]
        BY <1>3, <3>2, <4>1
      <4> QED BY <2>2, <2>3, <4>1, <4>2
    <3>3. CASE i - Len(entries) \in 2..Len(own)
      <4> DEFINE j == i - Len(entries)
      <4>1. j \in 1..Len(own) /\ j - 1 \in 1..Len(own) /\ j # 1
            /\ i = Len(entries) + j /\ i - 1 = Len(entries) + (j - 1)
        BY <1>3, <3>3
      <4>2. entries'[i] = own[j] /\ entries'[i - 1] = own[j - 1]
        BY <1>3, <4>1
      <4> HIDE DEF j
      <4> QED BY <2>3, <4>1, <4>2
    <3> QED BY <1>3, <3>1, <3>2, <3>3
  <2>5. ASSUME NEW i \in 1..Len(entries'), i = Len(entries')
        PROVE  entries'[i].after = balance'
    <3>1. CASE Len(own) = 0
      BY <1>3, <2>2, <2>3, <2>5, <3>1
    <3>2. CASE Len(own) > 0
      <4>1. Len(own) \in 1..Len(own) /\ i = Len(entries) + Len(own)
        BY <1>3, <2>5, <3>2
      <4> QED BY <1>3, <2>3, <3>2, <4>1
    <3> QED BY <1>3, <3>1, <3>2
  <2>6. DOMAIN entries' = 1..Len(entries')
    BY <1>1
  <2> QED BY <2>4, <2>5, <2>6 DEF RunningBalance
<1>8. ChargedOnce'
  <2> SUFFICES ASSUME NEW i \in 1..Len(entries'), NEW j \in 1..Len(entries'), i < j,
                      entries'[i].type = "charge", entries'[j].type = "charge",
                      entries'[i].voucher = entries'[j].voucher
               PROVE  FALSE
    BY <1>1, <1>3 DEF ChargedOnce
  <2>1. CASE j \in 1..Len(entries)
    <3>1. i \in 1..Len(entries)
      BY <1>3, <2>1
    <3> QED BY <1>1, <1>3, <2>1, <3>1 DEF IInv, ChargedOnce
  <2>2. CASE j - Len(entries) \in 1..Len(own) /\ i \in 1..Len(entries)
    <3> DEFINE v == entries'[j].voucher
    <3>0. PICK k \in 1..Len(own) : j = Len(entries) + k
      BY <1>3, <2>2
    <3>1. Charges(own, v) /\ Charges(entries, v)
      BY <1>3, <2>2, <3>0 DEF Charges
    <3>2. v \in Vouchers
      <4>1. own[k] \in Line /\ entries'[j] = own[k]
        BY <1>1, <1>3, <3>0
      <4> QED BY <4>1 DEF Line
    <3> QED BY <1>1, <3>1, <3>2 DEF Charging, own
  <2>3. CASE j - Len(entries) \in 1..Len(own) /\ i - Len(entries) \in 1..Len(own)
    <3>1. PICK k \in 1..Len(own), l \in 1..Len(own) :
            i = Len(entries) + k /\ j = Len(entries) + l
      BY <1>3, <2>3
    <3>2. entries'[i] = own[k] /\ entries'[j] = own[l] /\ k # l
      BY <1>3, <3>1
    <3> QED BY <1>1, <3>2 DEF Charging, own
  <2> QED BY <1>3, <2>1, <2>2, <2>3
<1>9. ASSUME NEW q \in Requests
      PROVE  Chained(tx[q])' /\ Charging(tx[q])' /\ Ready(q, tx[q])'
  <2>1. CASE q = r
    BY <1>2, <2>1, IdleSession DEF Chained, Charging, Charges, Ready, Idle
  <2>2. CASE q # r
    <3>1. tx'[q] = tx[q] /\ Chained(tx[q]) /\ Charging(tx[q]) /\ Ready(q, tx[q])
          /\ tx[q].own \in Seq(Line) /\ tx[q].locks \cap tx[r].locks = {}
      BY <1>2, <2>2 DEF IInv, TypeOK, Exclusive
    <3>2. CASE own = <<>>
      <4>1. entries' = entries /\ balance' = balance
        BY <1>1, <3>2 DEF Chained, own
      <4> QED BY <3>1, <4>1 DEF Chained, Charging, Charges, Ready
    <3>3. CASE own # <<>>
      <4>1. tx[q].own = <<>> /\ tx[q].moved = 0
        BY <1>1, <3>1, <3>3 DEF Chained, own
      <4>2. Chained(tx[q])'
        BY <3>1, <4>1 DEF Chained
      <4>3. \A v \in Vouchers : Charges(own, v) => RowLock(v) \notin tx[q].locks
        BY <1>1, <3>1 DEF Charging, own
      <4>4. tx[q].pc = "append" => tx[q].due \in Movement
        BY <3>1 DEF Ready
      <4>5. Charging(tx[q])'
        BY <1>4, <3>1, <4>1, <4>3, <4>4 DEF Charging, Charges, Movement
      <4> QED BY <3>1, <4>2, <4>5 DEF Ready
    <3> QED BY <3>2, <3>3
  <2> QED BY <2>1, <2>2
<1> QED BY <1>5, <1>6, <1>7, <1>8, <1>9 DEF IInv

LEMMA InitIInv == Init => IInv
<1> SUFFICES ASSUME Init PROVE IInv
  OBVIOUS
<1>1. PICK pc \in [Requests -> {"start", "refused"}] :
        /\ tx = [r \in Requests |-> Idle(pc[r])] /\ entries = <<>>
        /\ \A r \in Requests : tx[r] = Idle(pc[r]) /\ pc[r] \in {"start", "refused"}
  <2>1. PICK crowd \in Crowds :
          tx = [r \in Requests |-> Idle(IF r \in crowd THEN "start" ELSE "refused")]
    BY DEF Init
  <2> DEFINE came == [r \in Requests |-> IF r \in crowd THEN "start" ELSE "refused"]
  <2>2. came \in [Requests -> {"start", "refused"}] /\ entries = <<>>
    BY DEF Init
  <2>3. \A r \in Requests : tx[r] = Idle(came[r])
    BY <2>1
  <2>4. tx = [r \in Requests |-> Idle(came[r])]
    BY <2>1
  <2> QED BY <2>2, <2>3, <2>4
<1>2. ASSUME NEW v \in Vouchers
      PROVE  DOMAIN voucher[v] = Columns /\ voucher[v].carried \in Amount
  <2>1. voucher[v] = OpeningRow(v)
    BY DEF Init
  <2>2. OpeningRow(v).carried \in Amount
    BY OpeningAssumption
  <2>3. DOMAIN OpeningRow(v) = Columns
    BY DEF OpeningRow, Recalculated, Columns
  <2> QED BY <2>1, <2>2, <2>3
<1>3. DOMAIN voucher = Vouchers /\ receipt \in [Receipts -> {"none", "recorded", "reversed"}]
  BY DEF Init
<1>4. balance \in Int
  BY OpeningAssumption DEF Init
<1>5. \A r \in Requests :
        SessionOK(tx[r]) /\ Chained(tx[r]) /\ Charging(tx[r]) /\ Ready(r, tx[r])
  BY <1>1, IdleSession
<1>6. TypeOK /\ Shape
  BY <1>1, <1>2, <1>3, <1>4, <1>5 DEF TypeOK, Shape, SessionOK
<1>7. Exclusive
  BY <1>1 DEF Exclusive, Idle
<1>8. RunningBalance /\ ChargedOnce
  BY <1>1 DEF RunningBalance, ChargedOnce
<1> QED BY <1>5, <1>6, <1>7, <1>8 DEF IInv

LEMMA NextIInv == IInv /\ [Next]_vars => IInv'
<1> SUFFICES ASSUME IInv, [Next]_vars PROVE IInv'
  OBVIOUS
<1>1. ASSUME NEW r \in Requests, Step(r) PROVE IInv'
  <2>1. CASE DeadlockAborts(r)
    BY <2>1, IdleKeeps DEF DeadlockAborts
  <2> QED BY <1>1, <2>1, PaymentsKeep, ReversalsKeep, VoidsKeep, IssuesKeep, AppendsKeep,
             CommitsKeep DEF Step
<1>2. CASE UNCHANGED vars
  BY <1>2 DEF vars, IInv, TypeOK, Shape, Exclusive, RunningBalance, ChargedOnce, Chained,
              Charging, Charges, Ready
<1> QED BY <1>1, <1>2 DEF Next

\* The rows, the movements and the sessions of the requests keep the types that
\* the ledger's arithmetic needs (`StudentLedgerRepository.append`).
THEOREM TypeCorrect == Spec => []TypeOK
<1>1. IInv => TypeOK
  BY DEF IInv
<1> QED BY <1>1, InitIInv, NextIInv, PTL DEF Spec

\* However many requests of a family run at once, every line of its statement
\* continues the line committed before it and the last one is the balance:
\* the FOR UPDATE on the student row is held from the SUM to the commit.
THEOREM BalanceRuns == Spec => []RunningBalance
<1>1. IInv => RunningBalance
  BY DEF IInv
<1> QED BY <1>1, InitIInv, NextIInv, PTL DEF Spec

\* However many requests issue, absorb and cancel it at once, a challan is
\* charged once: `has_entry_for` is asked under the lock of the challan's row.
THEOREM ChargesOnce == Spec => []ChargedOnce
<1>1. IInv => ChargedOnce
  BY DEF IInv
<1> QED BY <1>1, InitIInv, NextIInv, PTL DEF Spec

-----------------------------------------------------------------------------
(* The money of a challan.                                                   *)

Mover(r) == Does(r, "pay") \/ Does(r, "reverse")
\* Receipts of one challan are moved in turn: the requests that move them are payments of
\* one year, which the receipt numbers keep apart, or there is one such request.
InTurn ==
  \A q, r \in Requests :
    Mover(q) /\ Mover(r) /\ q # r /\ Job[q].voucher = Job[r].voucher =>
      /\ Does(q, "pay") /\ Does(r, "pay")
      /\ Slip[Job[q].receipt].book = Slip[Job[r].receipt].book

\* What request r adds to the money received for its challan.
Delta(r) == IF Does(r, "pay") THEN AmountOf(Job[r].receipt) ELSE 0 - AmountOf(Job[r].receipt)
BookOf(r) == Slip[Job[r].receipt].book
NumberLock(b, n) == <<"number", b, n>>

\* Which request is where.
Paced(r, t) ==
  /\ t.pc \in {"number", "insert"} => Does(r, "pay")
  /\ t.pc \in {"flip", "load"} => Does(r, "reverse")
  /\ t.pc \in {"sum", "write"} => Mover(r)
  /\ Mover(r) => t.pc \in {"start", "number", "insert", "flip", "load", "sum", "write",
                           "append", "commit", "answered", "refused"}
  /\ t.wrote # "nothing" <=> Mover(r) /\ t.pc \in {"load", "sum", "write", "append", "commit"}
  /\ t.wrote # "nothing" => t.wrote = IF Does(r, "pay") THEN "recorded" ELSE "reversed"
\* What a session holds of a row it has locked is what is committed, but for what it writes.
Held(r, t) ==
  \A v \in Vouchers : RowLock(v) \in t.locks =>
    \/ Mover(r) /\ v = Job[r].voucher /\ t.pc \in {"append", "commit"}
    \/ ~Mover(r) /\ t.seen[v].paid = voucher[v].paid
\* A payment holds its number, which is the next of its year.
Numbered(r, t) ==
  /\ t.pc = "insert" => t.number \in Nat /\ t.number <= Used(BookOf(r)) + 1
  /\ Does(r, "pay") /\ t.wrote # "nothing" =>
       t.number = Used(BookOf(r)) + 1 /\ NumberLock(BookOf(r), t.number) \in t.locks
\* What a payment or a reversal knows of the money received for its challan.
Counting(r, t) ==
  LET v == Job[r].voucher
      now == voucher[v].paid
  IN  /\ Does(r, "pay") /\ t.pc \notin {"answered", "refused"} =>
           receipt[Job[r].receipt] = "none"
      /\ Does(r, "reverse") /\ t.pc \in {"flip", "load", "sum", "write", "append", "commit"} =>
           receipt[Job[r].receipt] = "recorded"
      /\ Does(r, "pay") /\ t.pc \in {"number", "insert", "sum", "write"} =>
           t.seen[v].paid \in Int /\ t.seen[v].paid <= now
      /\ Does(r, "reverse") /\ t.pc \in {"start", "flip", "load"} => t.seen[v].status = "unread"
      /\ Does(r, "reverse") /\ t.pc \in {"sum", "write"} => t.seen[v].paid = now
      /\ t.pc = "write" => t.money = now + Delta(r)
      /\ Mover(r) /\ t.pc \in {"append", "commit"} =>
           (IF RowLock(v) \in t.locks THEN t.seen[v].paid ELSE now) = now + Delta(r)
Session(r, t) == Paced(r, t) /\ Held(r, t) /\ Numbered(r, t) /\ Counting(r, t)
Till == PaidIsReceipts /\ \A r \in Requests : Session(r, tx[r])

-----------------------------------------------------------------------------
\* What the receipts of challan v come to, when st says how each stands.
Weight(v, st, p) == IF Slip[p].voucher = v /\ st[p] = "recorded" THEN Slip[p].amount ELSE 0
Taken(v, st) == SumFunctionOnSet([p \in Receipts |-> Weight(v, st, p)], Receipts)

\* The sum over the receipts that count is the sum in which the others weigh nothing.
LEMMA TakenIsSum ==
  ASSUME NEW v, NEW st
  PROVE  /\ SumOver(AmountOf, {p \in Receipts : Slip[p].voucher = v /\ st[p] = "recorded"})
              = Taken(v, st)
         /\ Taken(v, st) \in Nat
<1> DEFINE f == [p \in {p \in Receipts : Slip[p].voucher = v /\ st[p] = "recorded"}
                    |-> AmountOf(p)]
           g == [p \in Receipts |-> Weight(v, st, p)]
<1>1. \A p \in Receipts : g[p] \in Nat
  BY RacesAssumption DEF Weight, Amount
<1>2. \A p \in Receipts : g[p] = IF p \in DOMAIN f THEN f[p] ELSE 0
  BY DEF Weight, AmountOf
<1>3. DOMAIN f \subseteq Receipts /\ IsFiniteSet(Receipts)
  BY SlipsAssumption
<1>4. Taken(v, st) = SumFunctionOnSet(g, Receipts)
  BY DEF Taken
<1>5. SumOver(AmountOf, {p \in Receipts : Slip[p].voucher = v /\ st[p] = "recorded"})
        = SumFunction(f)
  BY DEF SumOver
<1> HIDE DEF f, g
<1>6. \A p \in Receipts : g[p] \in Int /\ g[p] = IF p \in DOMAIN f THEN f[p] ELSE 0
  BY <1>1, <1>2
<1>7. SumFunction(f) = SumFunctionOnSet(g, Receipts)
  BY ONLY <1>3, <1>6, SumWhere
<1>8. SumFunctionOnSet(g, Receipts) \in Nat
  BY ONLY <1>1, <1>3, SumNat
<1> QED BY <1>4, <1>5, <1>7, <1>8

\* One receipt that changes moves the money by its own weight.
LEMMA TakenMoves ==
  ASSUME NEW v, NEW st, NEW su, NEW y \in Receipts, \A p \in Receipts \ {y} : su[p] = st[p]
  PROVE  Taken(v, su) = Taken(v, st) + (Weight(v, su, y) - Weight(v, st, y))
<1> DEFINE f == [p \in Receipts |-> Weight(v, st, p)]
           g == [p \in Receipts |-> Weight(v, su, p)]
<1>1. \A p \in Receipts : f[p] \in Int /\ g[p] \in Int
  BY RacesAssumption DEF Weight, Amount
<1>2. \A p \in Receipts \ {y} : g[p] = f[p]
  BY DEF Weight
<1>3. g[y] = Weight(v, su, y) /\ f[y] = Weight(v, st, y)
  OBVIOUS
<1>4. Taken(v, st) = SumFunctionOnSet(f, Receipts) /\ Taken(v, su) = SumFunctionOnSet(g, Receipts)
  BY DEF Taken
<1>5. y \in Receipts /\ IsFiniteSet(Receipts)
  BY SlipsAssumption
<1> HIDE DEF f, g
<1>6. SumFunctionOnSet(g, Receipts) = SumFunctionOnSet(f, Receipts) + (g[y] - f[y])
  BY ONLY <1>1, <1>2, <1>5, SumChange
<1> QED BY <1>3, <1>4, <1>6

\* The money received for a challan, as committed and as request r sees it.
LEMMA BanksIsTaken == ASSUME NEW v PROVE Banks(v) = Taken(v, receipt) /\ Banks(v) \in Nat
BY TakenIsSum DEF Banks

StatusSeen(r) ==
  [p \in Receipts |-> IF p = Job[r].receipt /\ tx[r].wrote # "nothing" THEN tx[r].wrote
                      ELSE receipt[p]]
LEMMA CollectedIsTaken ==
  ASSUME NEW r \in Requests, NEW v
  PROVE  Collected(r, v) = Taken(v, StatusSeen(r)) /\ Collected(r, v) \in Nat
<1> DEFINE st == StatusSeen(r)
           counted == {p \in Receipts : Slip[p].voucher = v
                         /\ (IF p = Job[r].receipt /\ tx[r].wrote # "nothing" THEN tx[r].wrote
                             ELSE receipt[p]) = "recorded"}
<1>1. counted = {p \in Receipts : Slip[p].voucher = v /\ st[p] = "recorded"}
  BY DEF StatusSeen
<1>2. Collected(r, v) = SumOver(AmountOf, counted)
  BY DEF Collected
<1> HIDE DEF counted, st
<1>3. SumOver(AmountOf, {p \in Receipts : Slip[p].voucher = v /\ st[p] = "recorded"})
        = Taken(v, st) /\ Taken(v, st) \in Nat
  BY TakenIsSum
<1>4. SumOver(AmountOf, counted) = Taken(v, st)
  BY <1>1, <1>3
<1> QED BY <1>2, <1>3, <1>4 DEF st

\* What a request that moves a receipt knows of it.
LEMMA MoverFacts ==
  ASSUME NEW r \in Requests, Mover(r)
  PROVE  /\ Job[r].receipt \in Receipts /\ Job[r].voucher \in Vouchers
         /\ Slip[Job[r].receipt].voucher = Job[r].voucher
         /\ Slip[Job[r].receipt].amount \in Nat /\ Delta(r) \in Int
         /\ Does(r, "pay") => Delta(r) = Slip[Job[r].receipt].amount /\ ~Does(r, "reverse")
         /\ Does(r, "reverse") => Delta(r) = 0 - Slip[Job[r].receipt].amount
BY RacesAssumption, SlipsAssumption DEF Mover, Does, Delta, AmountOf, Amount

\* Two requests never move the same receipt.
LEMMA ReceiptsApart ==
  ASSUME InTurn, NEW q \in Requests, NEW r \in Requests, q # r, Mover(q), Mover(r)
  PROVE  Job[q].receipt # Job[r].receipt
<1>1. CASE Job[q].voucher = Job[r].voucher
  <2>1. Does(q, "pay") /\ Does(r, "pay")
    BY <1>1 DEF InTurn
  <2> QED BY <2>1, SlipsAssumption DEF Does
<1>2. CASE Job[q].voucher # Job[r].voucher
  BY <1>2, MoverFacts
<1> QED BY <1>1, <1>2

\* Of the requests that move receipts of one challan, one at a time has written
\* to its own: two payments would hold the same receipt number.
LEMMA OneAtATime ==
  ASSUME InTurn, IInv, Till, NEW q \in Requests, NEW r \in Requests, q # r,
         tx[q].wrote # "nothing", tx[r].wrote # "nothing"
  PROVE  /\ Mover(q) /\ Mover(r) /\ Job[q].voucher # Job[r].voucher
         /\ Does(q, "pay") /\ Does(r, "pay") => BookOf(q) # BookOf(r)
<1>1. Session(q, tx[q]) /\ Session(r, tx[r])
  BY DEF Till
<1>2. Mover(q) /\ Mover(r)
  BY <1>1 DEF Session, Paced
<1>3. Does(q, "pay") /\ Does(r, "pay") => BookOf(q) # BookOf(r)
  <2> SUFFICES ASSUME Does(q, "pay"), Does(r, "pay"), BookOf(q) = BookOf(r) PROVE FALSE
    OBVIOUS
  <2>1. /\ NumberLock(BookOf(q), tx[q].number) \in tx[q].locks
        /\ NumberLock(BookOf(r), tx[r].number) \in tx[r].locks
        /\ tx[q].number = tx[r].number
    BY <1>1 DEF Session, Numbered
  <2>2. tx[q].locks \cap tx[r].locks = {}
    BY DEF IInv, Exclusive
  <2> QED BY <2>1, <2>2
<1>4. Job[q].voucher # Job[r].voucher
  <2> SUFFICES ASSUME Job[q].voucher = Job[r].voucher PROVE FALSE
    OBVIOUS
  <2>1. Does(q, "pay") /\ Does(r, "pay") /\ BookOf(q) = BookOf(r)
    BY <1>2 DEF InTurn, BookOf
  <2> QED BY <1>3, <2>1
<1> QED BY <1>2, <1>3, <1>4

\* What is received for a challan, counted by a request that moved a receipt of it.
LEMMA CountingOwn ==
  ASSUME IInv, Till, NEW r \in Requests, tx[r].wrote # "nothing"
  PROVE  Collected(r, Job[r].voucher) = voucher[Job[r].voucher].paid + Delta(r)
<1> DEFINE v == Job[r].voucher
           y == Job[r].receipt
           su == StatusSeen(r)
<1>1. Mover(r) /\ Session(r, tx[r])
  BY DEF Till, Session, Paced
<1>2. y \in Receipts /\ Slip[y].voucher = v /\ v \in Vouchers /\ Slip[y].amount \in Nat
  BY <1>1, MoverFacts
<1>3. \A p \in Receipts \ {y} : su[p] = receipt[p]
  BY DEF StatusSeen
<1>4. su[y] = tx[r].wrote
  BY <1>2 DEF StatusSeen
<1> HIDE DEF su
<1>5. Taken(v, su) = Taken(v, receipt) + (Weight(v, su, y) - Weight(v, receipt, y))
  BY <1>2, <1>3, TakenMoves
<1>6. Weight(v, su, y) - Weight(v, receipt, y) = Delta(r)
  <2>1. CASE Does(r, "pay")
    <3>1. tx[r].wrote = "recorded" /\ receipt[y] = "none"
      BY <1>1, <2>1 DEF Session, Paced, Counting
    <3>2. Weight(v, su, y) = Slip[y].amount /\ Weight(v, receipt, y) = 0
      BY <1>2, <1>4, <3>1 DEF Weight
    <3>3. Delta(r) = Slip[y].amount
      BY <1>1, <2>1, MoverFacts
    <3> QED BY <1>2, <3>2, <3>3
  <2>2. CASE Does(r, "reverse") /\ ~Does(r, "pay")
    <3>1. tx[r].wrote = "reversed" /\ receipt[y] = "recorded"
      BY <1>1, <2>2 DEF Session, Paced, Counting
    <3>2. Weight(v, su, y) = 0 /\ Weight(v, receipt, y) = Slip[y].amount
      BY <1>2, <1>4, <3>1 DEF Weight
    <3>3. Delta(r) = 0 - Slip[y].amount
      BY <1>1, <2>2, MoverFacts
    <3> QED BY <1>2, <3>2, <3>3
  <2> QED BY <1>1, <2>1, <2>2 DEF Mover
<1>7. voucher[v].paid = Taken(v, receipt)
  BY <1>2, BanksIsTaken DEF Till, PaidIsReceipts
<1>8. Collected(r, v) = Taken(v, su)
  BY CollectedIsTaken DEF su
<1> HIDE DEF v
<1> QED BY <1>5, <1>6, <1>7, <1>8 DEF v

\* A step of one request that writes no table disturbs nobody's count.
LEMMA SessionStays ==
  ASSUME NEW q \in Requests, Session(q, tx'[q]), UNCHANGED <<voucher, receipt>>
  PROVE  Session(q, tx[q])'
<1>1. Paced(q, tx[q])'
  BY DEF Session, Paced, Mover, Does
<1>2. Held(q, tx[q])'
  BY DEF Session, Held, Mover, Does
<1>3. Numbered(q, tx[q])'
  BY DEF Session, Numbered, Used, Does, BookOf
<1>4. Counting(q, tx[q])'
  BY DEF Session, Counting, Mover, Does, Delta
<1> QED BY <1>1, <1>2, <1>3, <1>4 DEF Session

LEMMA TillMoves ==
  ASSUME IInv, Till, NEW r \in Requests, NEW t, Move(r, t), Session(r, t)
  PROVE  Till'
<1>1. /\ tx'[r] = t /\ \A q \in Requests : q # r => tx'[q] = tx[q]
      /\ UNCHANGED <<voucher, receipt>>
  BY DEF Move, IInv, Shape
<1>2. \A q \in Requests : Session(q, tx'[q])
  BY <1>1 DEF Till
<1>3. \A q \in Requests : Session(q, tx[q])'
  BY <1>1, <1>2, SessionStays
<1>4. PaidIsReceipts'
  BY <1>1 DEF Till, PaidIsReceipts, Banks
<1> QED BY <1>3, <1>4 DEF Till

LEMMA TillIdles ==
  ASSUME IInv, Till, NEW r \in Requests, Refuse(r) \/ Answer(r)
  PROVE  Till'
<1>1. PICK pc \in {"refused", "answered"} : Move(r, Idle(pc))
  BY DEF Refuse, Answer
<1>2. /\ Idle(pc).pc = pc /\ Idle(pc).wrote = "nothing" /\ Idle(pc).locks = {}
      /\ pc \in {"refused", "answered"}
  BY DEF Idle
<1>3. Session(r, Idle(pc))
  BY <1>2 DEF Session, Paced, Held, Numbered, Counting
<1> QED BY <1>1, <1>3, TillMoves

\* A request that moves no receipt changes nothing of what it holds of the money.
LEMMA BystanderMoves ==
  ASSUME IInv, Till, NEW r \in Requests, ~Mover(r), NEW t, Move(r, t),
         t.pc \notin {"number", "insert", "flip", "load", "sum", "write"},
         t.wrote = tx[r].wrote,
         \A v \in Vouchers : RowLock(v) \in t.locks => t.seen[v].paid = voucher[v].paid
  PROVE  Till'
<1>1. Session(r, t)
  BY DEF Session, Paced, Held, Numbered, Counting, Till, Mover
<1> QED BY <1>1, TillMoves

\* What a request holds of a locked row stays what is committed when it loads rows.
LEMMA LoadingKeeps ==
  ASSUME IInv, NEW r \in Requests, NEW S, NEW v \in Vouchers
  PROVE  /\ RowLock(v) \in tx[r].locks => Loading(r, S)[v] = tx[r].seen[v]
         /\ v \in S /\ tx[r].seen[v].status = "unread" /\ RowLock(v) \notin tx[r].locks =>
              Loading(r, S)[v] = voucher[v]
BY DEF Loading, Loaded, Current, RowLock

LEMMA UsedIsNat == ASSUME NEW b PROVE Used(b) \in Nat
<1>1. IsFiniteSet({p \in Receipts : Slip[p].book = b /\ receipt[p] # "none"})
  BY SlipsAssumption, FS_Subset
<1> QED BY <1>1, FS_CardinalityType DEF Used

\* What the next statement of a request locks, by where the request is.
LEMMA WantsOnly ==
  ASSUME NEW r \in Requests
  PROVE  /\ tx[r].pc = "insert" => Wants(r) = {NumberLock(BookOf(r), tx[r].number)}
         /\ tx[r].pc = "flip" => Wants(r) = {<<"receipt", Job[r].receipt>>}
         /\ tx[r].pc = "append" => Wants(r) = {StudentLock}
         /\ tx[r].pc \in {"write", "release", "drop", "reprice", "strike", "issue"} =>
              Wants(r) \subseteq {RowLock(Target(r))}
BY DEF Wants, Stamps, Meant, NumberLock, BookOf, StudentLock, RowLock

\* A payment, statement by statement.
LEMMA TillPays ==
  ASSUME IInv, Till, NEW r \in Requests,
         PayLoads(r) \/ PayNumbers(r) \/ PayInserts(r) \/ Sums(r)
  PROVE  Till'
<1> DEFINE v == Job[r].voucher
<1>0. /\ SessionOK(tx[r]) /\ Session(r, tx[r]) /\ v \in Vouchers
      /\ \A u \in Vouchers : voucher[u].paid \in Nat
      /\ DOMAIN voucher = Vouchers
      /\ \A u \in Vouchers : DOMAIN voucher[u] = Columns
  BY SessionNow, BanksIsTaken DEF Till, PaidIsReceipts, IInv, Shape
<1>1. CASE PayLoads(r)
  <2> DEFINE t == [Begun(r) EXCEPT !.pc = "number", !.seen[v] = voucher[v]]
  <2>1. CASE Move(r, t)
    <3>0. Does(r, "pay") /\ tx[r].pc = "start" /\ Mover(r) /\ ~Does(r, "reverse")
      BY <1>1 DEF PayLoads, At, Mover, Does
    <3>1. /\ t.pc = "number" /\ t.wrote = tx[r].wrote /\ t.locks = tx[r].locks
          /\ t.seen[v] = voucher[v]
      BY <1>0 DEF Begun, SessionOK, Fields
    <3> HIDE DEF t
    <3>2. Session(r, t)
      BY <1>0, <3>0, <3>1 DEF Session, Paced, Held, Numbered, Counting
    <3> QED BY <2>1, <3>2, TillMoves
  <2>2. CASE Refuse(r)
    BY <2>2, TillIdles
  <2> QED BY <1>1, <2>1, <2>2 DEF PayLoads
<1>2. CASE PayNumbers(r)
  <2> DEFINE t == [tx[r] EXCEPT !.pc = "insert", !.number = Used(BookOf(r)) + 1]
  <2>1. Move(r, t) /\ tx[r].pc = "number"
    BY <1>2 DEF PayNumbers, At, BookOf
  <2>2. /\ t.pc = "insert" /\ t.wrote = tx[r].wrote /\ t.locks = tx[r].locks
        /\ t.seen = tx[r].seen /\ t.number = Used(BookOf(r)) + 1
    BY <1>0 DEF SessionOK, Fields
  <2> HIDE DEF t
  <2>3. Does(r, "pay") /\ ~Does(r, "reverse") /\ Mover(r)
    BY <1>0, <2>1 DEF Session, Paced, Mover, Does
  <2>4. Session(r, t)
    BY <1>0, <2>1, <2>2, <2>3, UsedIsNat DEF Session, Paced, Held, Numbered, Counting
  <2> QED BY <2>1, <2>4, TillMoves
<1>3. CASE PayInserts(r)
  <2> DEFINE due == Entry("payment", Job[r].voucher, -AmountOf(Job[r].receipt))
             t == [tx[r] EXCEPT !.pc = "sum", !.wrote = "recorded",
                                !.locks = @ \cup Wants(r), !.due = due]
  <2>0. tx[r].pc = "insert" /\ Does(r, "pay") /\ ~Does(r, "reverse") /\ Mover(r)
    BY <1>0, <1>3 DEF PayInserts, At, Session, Paced, Mover, Does
  <2>1. CASE Move(r, t) /\ ~(tx[r].number <= Used(BookOf(r)))
    <3>1. Wants(r) = {NumberLock(BookOf(r), tx[r].number)}
      BY <2>0, WantsOnly
    <3>2. /\ t.pc = "sum" /\ t.wrote = "recorded" /\ t.seen = tx[r].seen
          /\ t.number = tx[r].number
          /\ t.locks = tx[r].locks \cup {NumberLock(BookOf(r), tx[r].number)}
      BY <1>0, <3>1 DEF SessionOK, Fields
    <3> HIDE DEF t
    <3>3. t.number = Used(BookOf(r)) + 1
      BY <1>0, <2>0, <2>1, <3>2, UsedIsNat DEF Session, Numbered
    <3>4. \A u \in Vouchers : RowLock(u) \in t.locks => RowLock(u) \in tx[r].locks
      BY <3>2 DEF RowLock, NumberLock
    <3>5. Session(r, t)
      BY <1>0, <2>0, <3>2, <3>3, <3>4 DEF Session, Paced, Held, Numbered, Counting
    <3> QED BY <2>1, <3>5, TillMoves
  <2>2. CASE Refuse(r)
    BY <2>2, TillIdles
  <2> QED BY <1>3, <2>1, <2>2 DEF PayInserts, BookOf
<1>4. CASE Sums(r)
  <2> DEFINE t == [tx[r] EXCEPT !.pc = "write", !.money = Collected(r, v)]
  <2>1. Move(r, t) /\ tx[r].pc = "sum"
    BY <1>4 DEF Sums, At
  <2>2. /\ t.pc = "write" /\ t.wrote = tx[r].wrote /\ t.locks = tx[r].locks
        /\ t.seen = tx[r].seen /\ t.number = tx[r].number /\ t.money = Collected(r, v)
    BY <1>0 DEF SessionOK, Fields
  <2> HIDE DEF t
  <2>3. Mover(r) /\ tx[r].wrote # "nothing"
    BY <1>0, <2>1 DEF Session, Paced
  <2>4. t.money = voucher[v].paid + Delta(r)
    BY <2>2, <2>3, CountingOwn
  <2>5. Session(r, t)
    BY <1>0, <2>1, <2>2, <2>3, <2>4 DEF Session, Paced, Held, Numbered, Counting
  <2> QED BY <2>1, <2>5, TillMoves
<1> QED BY <1>1, <1>2, <1>3, <1>4

\* A reversal, up to the count.
LEMMA TillReverses ==
  ASSUME IInv, Till, NEW r \in Requests, ReverseLoads(r) \/ ReverseFlips(r) \/ ReverseReads(r)
  PROVE  Till'
<1> DEFINE v == Job[r].voucher
<1>0. SessionOK(tx[r]) /\ Session(r, tx[r]) /\ v \in Vouchers
  BY SessionNow DEF Till
<1>1. CASE ReverseLoads(r)
  <2> DEFINE t == [Begun(r) EXCEPT !.pc = "flip"]
  <2>1. CASE Move(r, t) /\ receipt[Job[r].receipt] = "recorded"
    <3>0. Does(r, "reverse") /\ tx[r].pc = "start" /\ Mover(r) /\ ~Does(r, "pay")
      BY <1>1 DEF ReverseLoads, At, Mover, Does
    <3>1. /\ t.pc = "flip" /\ t.wrote = tx[r].wrote /\ t.locks = tx[r].locks
          /\ t.seen = tx[r].seen
      BY <1>0 DEF Begun, SessionOK, Fields
    <3> HIDE DEF t
    <3>2. Session(r, t)
      BY <1>0, <2>1, <3>0, <3>1 DEF Session, Paced, Held, Numbered, Counting
    <3> QED BY <2>1, <3>2, TillMoves
  <2>2. CASE Refuse(r)
    BY <2>2, TillIdles
  <2> QED BY <1>1, <2>1, <2>2 DEF ReverseLoads
<1>2. CASE ReverseFlips(r)
  <2> DEFINE due == Entry("payment_reversed", Job[r].voucher, AmountOf(Job[r].receipt))
             t == [tx[r] EXCEPT !.pc = "load", !.wrote = "reversed",
                                !.locks = @ \cup Wants(r), !.due = due]
  <2>1. Move(r, t) /\ tx[r].pc = "flip"
    BY <1>2 DEF ReverseFlips, At
  <2>2. Does(r, "reverse") /\ ~Does(r, "pay") /\ Mover(r)
    BY <1>0, <2>1 DEF Session, Paced, Mover, Does
  <2>3. Wants(r) = {<<"receipt", Job[r].receipt>>}
    BY <2>1, WantsOnly
  <2>4. /\ t.pc = "load" /\ t.wrote = "reversed" /\ t.seen = tx[r].seen
        /\ t.locks = tx[r].locks \cup {<<"receipt", Job[r].receipt>>}
    BY <1>0, <2>3 DEF SessionOK, Fields
  <2> HIDE DEF t
  <2>5. \A u \in Vouchers : RowLock(u) \in t.locks => RowLock(u) \in tx[r].locks
    BY <2>4 DEF RowLock
  <2>6. Session(r, t)
    BY <1>0, <2>1, <2>2, <2>4, <2>5 DEF Session, Paced, Held, Numbered, Counting
  <2> QED BY <2>1, <2>6, TillMoves
<1>3. CASE ReverseReads(r)
  <2> DEFINE loaded == Loading(r, {v})
             t == [tx[r] EXCEPT !.pc = "sum", !.seen = loaded]
  <2>1. Move(r, t) /\ tx[r].pc = "load"
    BY <1>3 DEF ReverseReads, At
  <2>2. Does(r, "reverse") /\ ~Does(r, "pay") /\ Mover(r)
    BY <1>0, <2>1 DEF Session, Paced, Mover, Does
  <2>3. RowLock(v) \notin tx[r].locks /\ tx[r].seen[v].status = "unread"
    BY <1>0, <2>1, <2>2 DEF Session, Held, Counting
  <2>4. loaded[v] = voucher[v]
    BY <1>0, <2>3, LoadingKeeps
  <2> HIDE DEF loaded
  <2>5. /\ t.pc = "sum" /\ t.wrote = tx[r].wrote /\ t.locks = tx[r].locks /\ t.seen = loaded
    BY <1>0 DEF SessionOK, Fields
  <2> HIDE DEF t
  <2>6. Session(r, t)
    BY <1>0, <2>1, <2>2, <2>4, <2>5 DEF Session, Paced, Held, Numbered, Counting
  <2> QED BY <2>1, <2>6, TillMoves
<1> QED BY <1>1, <1>2, <1>3

\* The count is written over the challan's row unless it says what the session
\* loaded; then what was loaded is still what is committed, and nothing changes.
LEMMA TillWrites ==
  ASSUME IInv, Till, NEW r \in Requests, Writes(r)
  PROVE  Till'
<1> DEFINE v == Job[r].voucher
           s == tx[r].seen[v]
           now == voucher[v].paid
           merged == [c \in DOMAIN Unread |->
                        IF Meant(r)[c] = s[c] THEN Current(r, v)[c] ELSE Meant(r)[c]]
           u == [[tx[r] EXCEPT !.pc = "append"] EXCEPT !.seen[v] = merged,
                                                       !.locks = @ \cup Wants(r)]
<1>0. /\ SessionOK(tx[r]) /\ Session(r, tx[r]) /\ v \in Vouchers /\ now \in Nat
      /\ tx[r].pc = "write" /\ DOMAIN s = Columns
  BY SessionNow, BanksIsTaken DEF Till, PaidIsReceipts, Writes, At, SessionOK
<1>1. Target(r) = v
  BY <1>0 DEF Target
<1>2. Move(r, u)
  BY <1>1 DEF Writes, Update
<1>3. Mover(r) /\ tx[r].wrote # "nothing" /\ RowLock(v) \notin tx[r].locks
  BY <1>0 DEF Session, Paced, Held
<1>4. tx[r].money = now + Delta(r) /\ Delta(r) \in Int
  BY <1>0, <1>3, MoverFacts DEF Session, Counting
<1>5. s.paid = tx[r].money => Delta(r) = 0
  <2>1. CASE Does(r, "pay")
    <3>1. s.paid \in Int /\ s.paid <= now
      BY <1>0, <2>1 DEF Session, Counting
    <3>2. Delta(r) \in Nat
      BY <1>3, <2>1, MoverFacts
    <3> HIDE DEF s, now
    <3> QED BY <1>0, <1>4, <3>1, <3>2
  <2>2. CASE Does(r, "reverse")
    <3>1. s.paid = now
      BY <1>0, <2>2 DEF Session, Counting
    <3> HIDE DEF s, now
    <3> QED BY <1>0, <1>4, <3>1
  <2> QED BY <1>3, <2>1, <2>2 DEF Mover
<1>6. Meant(r) = Recalculated(v, s, tx[r].money)
  BY <1>0, <1>1 DEF Meant
<1>7. Meant(r).paid = tx[r].money
  BY <1>0, <1>6 DEF Recalculated, Columns
<1>8. Current(r, v) = voucher[v]
  BY <1>3 DEF Current, RowLock
<1>9. merged.paid = now + Delta(r)
  <2>1. merged.paid = IF Meant(r).paid = s.paid THEN Current(r, v).paid ELSE Meant(r).paid
    BY DEF Unread
  <2> HIDE DEF merged, s, now
  <2>2. Current(r, v).paid = now
    BY <1>8 DEF now
  <2> QED BY <1>0, <1>4, <1>5, <1>7, <2>1, <2>2
<1>10. RowLock(v) \in Wants(r) \/ Delta(r) = 0
  <2>1. Wants(r) = {RowLock(v)} \/ Meant(r) = s
    BY <1>0, <1>1 DEF Wants, RowLock
  <2> QED BY <1>5, <1>7, <2>1
<1>11. Wants(r) \subseteq {RowLock(v)}
  BY <1>0, <1>1, WantsOnly
<1>12. /\ u.pc = "append" /\ u.wrote = tx[r].wrote /\ u.locks = tx[r].locks \cup Wants(r)
       /\ u.seen[v] = merged /\ u.number = tx[r].number
  <2> HIDE DEF merged
  <2> QED BY <1>0 DEF SessionOK, Fields
<1>13. \A w \in Vouchers : RowLock(w) \in u.locks => w = v
  <2>1. \A w \in Vouchers : RowLock(w) \in tx[r].locks => w = v
    BY <1>0, <1>3 DEF Session, Held
  <2>2. \A w \in Vouchers : RowLock(w) = RowLock(v) => w = v
    BY DEF RowLock
  <2> HIDE DEF u, v
  <2> QED BY <1>11, <1>12, <2>1, <2>2
<1>14. (IF RowLock(v) \in u.locks THEN u.seen[v].paid ELSE now) = now + Delta(r)
  <2> HIDE DEF u, v, merged, now
  <2> QED BY <1>0, <1>4, <1>9, <1>10, <1>12
<1> HIDE DEF u
<1>15. Held(r, u) /\ Numbered(r, u)
  BY <1>0, <1>3, <1>12, <1>13 DEF Session, Held, Numbered
<1>16. Paced(r, u) /\ Counting(r, u)
  BY <1>0, <1>3, <1>12, <1>14 DEF Session, Paced, Counting
<1> QED BY <1>2, <1>15, <1>16, TillMoves DEF Session

\* What an UPDATE by a request that moves no receipt leaves in a row is the money
\* that is committed there.
LEMMA TillUpdates ==
  ASSUME IInv, Till, NEW r \in Requests,
         tx[r].pc \in {"release", "drop", "strike", "reprice", "issue"},
         NEW t, Update(r, t), SessionOK(t), t.seen = tx[r].seen, t.locks = tx[r].locks,
         t.wrote = tx[r].wrote,
         t.pc \notin {"number", "insert", "flip", "load", "sum", "write"}
  PROVE  Till'
<1> DEFINE v == Target(r)
           merged == [c \in DOMAIN Unread |->
                        IF Meant(r)[c] = tx[r].seen[v][c] THEN Current(r, v)[c]
                        ELSE Meant(r)[c]]
           u == [t EXCEPT !.seen[v] = merged, !.locks = @ \cup Wants(r)]
<1>0. SessionOK(tx[r]) /\ Session(r, tx[r])
  BY SessionNow DEF Till
<1>1. Move(r, u) /\ ~Mover(r)
  BY <1>0 DEF Update, Session, Paced
<1>2. Wants(r) \subseteq {RowLock(v)}
  BY WantsOnly
<1>3. v \in Vouchers => Meant(r).paid = tx[r].seen[v].paid
  <2> SUFFICES ASSUME v \in Vouchers PROVE Meant(r).paid = tx[r].seen[v].paid
    OBVIOUS
  <2> DEFINE old == tx[r].seen[v]
  <2>1. DOMAIN old = Columns
    BY <1>0 DEF SessionOK
  <2>2. Meant(r) \in {old, [old EXCEPT !.reservedBy = NoVoucher],
                      [old EXCEPT !.carried = tx[r].money], [old EXCEPT !.status = "void"],
                      [old EXCEPT !.status = "issued"]}
    BY DEF Meant
  <2> HIDE DEF old
  <2> QED BY <2>1, <2>2 DEF Columns, old
<1>4. v \in Vouchers => merged.paid = voucher[v].paid
  <2> SUFFICES ASSUME v \in Vouchers PROVE merged.paid = voucher[v].paid
    OBVIOUS
  <2>1. merged.paid = Current(r, v).paid
    BY <1>3 DEF Unread
  <2>2. Current(r, v).paid = voucher[v].paid
    BY <1>0, <1>1 DEF Current, Session, Held, RowLock
  <2> QED BY <2>1, <2>2
<1>5. /\ u.pc = t.pc /\ u.wrote = t.wrote /\ u.locks = tx[r].locks \cup Wants(r)
      /\ u.seen = [tx[r].seen EXCEPT ![v] = merged] /\ DOMAIN tx[r].seen = Vouchers
  <2> HIDE DEF merged
  <2> QED BY <1>0 DEF SessionOK, Fields
<1> HIDE DEF merged, u, v
<1>6. ASSUME NEW w \in Vouchers, RowLock(w) \in u.locks
      PROVE  u.seen[w].paid = voucher[w].paid
  <2>1. CASE w = v
    BY <1>4, <1>5, <2>1
  <2>2. CASE w # v
    <3>1. RowLock(w) \in tx[r].locks
      BY <1>2, <1>5, <1>6, <2>2 DEF RowLock
    <3> QED BY <1>0, <1>1, <1>5, <2>2, <3>1 DEF Session, Held
  <2> QED BY <2>1, <2>2
<1>7. u.pc \notin {"number", "insert", "flip", "load", "sum", "write"} /\ u.wrote = tx[r].wrote
  BY <1>5
<1> QED BY <1>1, <1>6, <1>7, BystanderMoves

\* Cancelling and issuing move no receipt.
LEMMA TillVoids ==
  ASSUME IInv, Till, NEW r \in Requests,
         VoidLoads(r) \/ VoidChecks(r) \/ VoidFinds(r) \/ VoidReleases(r) \/ VoidStrikes(r)
           \/ VoidCredits(r)
  PROVE  Till'
<1>0. SessionOK(tx[r]) /\ Session(r, tx[r]) /\ DOMAIN voucher = Vouchers
  BY SessionNow DEF Till, IInv, Shape
<1>1. ~Mover(r)
  BY <1>0 DEF VoidLoads, VoidChecks, VoidFinds, VoidReleases, VoidStrikes, VoidCredits,
              At, Session, Paced, Mover, Does
<1>2. \A w \in Vouchers : RowLock(w) \in tx[r].locks => tx[r].seen[w].paid = voucher[w].paid
  BY <1>0, <1>1 DEF Session, Held
<1>3. CASE VoidLoads(r)
  <2> DEFINE v == Job[r].voucher
             t == [Begun(r) EXCEPT !.pc = "check", !.seen[v] = voucher[v], !.absorbs = {v}]
  <2>1. CASE Move(r, t)
    <3>1. /\ t.pc = "check" /\ t.wrote = tx[r].wrote /\ t.locks = tx[r].locks
          /\ \A w \in Vouchers : t.seen[w] = IF w = v THEN voucher[w] ELSE tx[r].seen[w]
      BY <1>0 DEF Begun, SessionOK, Fields
    <3> HIDE DEF t
    <3>2. \A w \in Vouchers : RowLock(w) \in t.locks => t.seen[w].paid = voucher[w].paid
      BY <1>2, <3>1
    <3> QED BY <1>1, <2>1, <3>1, <3>2, BystanderMoves
  <2>2. CASE Refuse(r) \/ Answer(r)
    BY <2>2, TillIdles
  <2> QED BY <1>3, <2>1, <2>2 DEF VoidLoads
<1>4. CASE VoidChecks(r)
  <2> DEFINE w == Min(tx[r].absorbs)
             t == [tx[r] EXCEPT !.pc = "holdings", !.victim = w, !.absorbs = @ \ {w}]
  <2>1. CASE Move(r, t)
    <3>1. /\ t.pc = "holdings" /\ t.wrote = tx[r].wrote /\ t.locks = tx[r].locks
          /\ t.seen = tx[r].seen
      BY <1>0 DEF SessionOK, Fields
    <3> HIDE DEF t
    <3> QED BY <1>1, <1>2, <2>1, <3>1, BystanderMoves
  <2>2. CASE Refuse(r)
    BY <2>2, TillIdles
  <2> QED BY <1>4, <2>1, <2>2 DEF VoidChecks
<1>5. CASE VoidFinds(r)
  <2> DEFINE held == ReservedBy(r, tx[r].victim)
             loaded == Loading(r, held)
             next == IF held = {} THEN "strike" ELSE "release"
             t == [tx[r] EXCEPT !.pc = next, !.todo = held, !.seen = loaded]
  <2>1. Move(r, t)
    BY <1>5 DEF VoidFinds
  <2>2. \A w \in Vouchers : RowLock(w) \in tx[r].locks => loaded[w] = tx[r].seen[w]
    BY LoadingKeeps
  <2>3. next \in {"strike", "release"}
    OBVIOUS
  <2> HIDE DEF held, loaded, next
  <2>4. /\ t.pc = next /\ t.wrote = tx[r].wrote /\ t.locks = tx[r].locks /\ t.seen = loaded
    BY <1>0 DEF SessionOK, Fields
  <2> HIDE DEF t
  <2>5. \A w \in Vouchers : RowLock(w) \in t.locks => t.seen[w].paid = voucher[w].paid
    BY <1>2, <2>2, <2>4
  <2> QED BY <1>1, <2>1, <2>3, <2>4, <2>5, BystanderMoves
<1>6. CASE VoidReleases(r)
  <2> DEFINE left == tx[r].todo \ {Min(tx[r].todo)}
             next == IF left = {} THEN "strike" ELSE "release"
             t == [tx[r] EXCEPT !.pc = next, !.todo = left]
  <2>1. Update(r, t) /\ tx[r].pc = "release"
    BY <1>6 DEF VoidReleases, At
  <2>2. next \in {"strike", "release"}
    OBVIOUS
  <2> HIDE DEF left, next
  <2>3. SessionOK(t) /\ t.pc = next /\ t.seen = tx[r].seen /\ t.locks = tx[r].locks
        /\ t.wrote = tx[r].wrote
    BY <1>0 DEF SessionOK, Fields
  <2> HIDE DEF t
  <2> QED BY <2>1, <2>2, <2>3, TillUpdates
<1>7. CASE VoidStrikes(r)
  <2> DEFINE t == [tx[r] EXCEPT !.pc = "debit"]
  <2>1. Update(r, t) /\ tx[r].pc = "strike"
    BY <1>7 DEF VoidStrikes, At
  <2>2. SessionOK(t) /\ t.pc = "debit" /\ t.seen = tx[r].seen /\ t.locks = tx[r].locks
        /\ t.wrote = tx[r].wrote
    BY <1>0 DEF SessionOK, Fields
  <2> HIDE DEF t
  <2> QED BY <2>1, <2>2, TillUpdates
<1>8. CASE VoidCredits(r)
  <2> DEFINE w == tx[r].victim
             due == Entry("voucher_voided", w, -Total(w, tx[r].seen[w]))
             next == IF Does(r, "void") THEN "commit"
                     ELSE IF tx[r].absorbs = {} THEN "issue" ELSE "check"
             t == [tx[r] EXCEPT !.pc = "append", !.due = due]
             u == [tx[r] EXCEPT !.pc = next]
  <2>0. next \in {"commit", "issue", "check"}
    OBVIOUS
  <2>1. Move(r, t) \/ Move(r, u)
    BY <1>8 DEF VoidCredits
  <2> HIDE DEF due, next
  <2>2. /\ t.pc = "append" /\ t.wrote = tx[r].wrote /\ t.locks = tx[r].locks
        /\ t.seen = tx[r].seen
        /\ u.pc = next /\ u.wrote = tx[r].wrote /\ u.locks = tx[r].locks
        /\ u.seen = tx[r].seen
    BY <1>0 DEF SessionOK, Fields
  <2> HIDE DEF t, u
  <2>3. CASE Move(r, t)
    BY <1>1, <1>2, <2>2, <2>3, BystanderMoves
  <2>4. CASE Move(r, u)
    BY <1>1, <1>2, <2>0, <2>2, <2>4, BystanderMoves
  <2> QED BY <2>1, <2>3, <2>4
<1> QED BY <1>3, <1>4, <1>5, <1>6, <1>7, <1>8

LEMMA TillIssues ==
  ASSUME IInv, Till, NEW r \in Requests,
         IssueLoads(r) \/ IssueFinds(r) \/ IssueSorts(r) \/ IssueDrops(r)
           \/ IssueReprices(r) \/ IssueIssues(r) \/ IssueCharges(r)
  PROVE  Till'
<1>0. SessionOK(tx[r]) /\ Session(r, tx[r]) /\ DOMAIN voucher = Vouchers
  BY SessionNow DEF Till, IInv, Shape
<1>1. ~Mover(r)
  BY <1>0 DEF IssueLoads, IssueFinds, IssueSorts, IssueDrops, IssueReprices, IssueIssues,
              IssueCharges, At, Session, Paced, Mover, Does
<1>2. \A w \in Vouchers : RowLock(w) \in tx[r].locks => tx[r].seen[w].paid = voucher[w].paid
  BY <1>0, <1>1 DEF Session, Held
<1>3. CASE IssueLoads(r)
  <2> DEFINE v == Job[r].voucher
             t == [Begun(r) EXCEPT !.pc = "reserved", !.seen[v] = voucher[v]]
  <2>1. CASE Move(r, t)
    <3>1. /\ t.pc = "reserved" /\ t.wrote = tx[r].wrote /\ t.locks = tx[r].locks
          /\ \A w \in Vouchers : t.seen[w] = IF w = v THEN voucher[w] ELSE tx[r].seen[w]
      BY <1>0 DEF Begun, SessionOK, Fields
    <3> HIDE DEF t
    <3>2. \A w \in Vouchers : RowLock(w) \in t.locks => t.seen[w].paid = voucher[w].paid
      BY <1>2, <3>1
    <3> QED BY <1>1, <2>1, <3>1, <3>2, BystanderMoves
  <2>2. CASE Refuse(r) \/ Answer(r)
    BY <2>2, TillIdles
  <2> QED BY <1>3, <2>1, <2>2 DEF IssueLoads
<1>4. CASE IssueFinds(r)
  <2> DEFINE held == ReservedBy(r, Job[r].voucher)
             loaded == Loading(r, held)
             next == IF held = {} THEN "issue" ELSE "sort"
             t == [tx[r] EXCEPT !.pc = next, !.todo = held, !.seen = loaded]
  <2>1. Move(r, t)
    BY <1>4 DEF IssueFinds
  <2>2. \A w \in Vouchers : RowLock(w) \in tx[r].locks => loaded[w] = tx[r].seen[w]
    BY LoadingKeeps
  <2>3. next \in {"issue", "sort"}
    OBVIOUS
  <2> HIDE DEF held, loaded, next
  <2>4. /\ t.pc = next /\ t.wrote = tx[r].wrote /\ t.locks = tx[r].locks /\ t.seen = loaded
    BY <1>0 DEF SessionOK, Fields
  <2> HIDE DEF t
  <2>5. \A w \in Vouchers : RowLock(w) \in t.locks => t.seen[w].paid = voucher[w].paid
    BY <1>2, <2>2, <2>4
  <2> QED BY <1>1, <2>1, <2>3, <2>4, <2>5, BystanderMoves
<1>5. CASE IssueSorts(r)
  <2> DEFINE v == Min(tx[r].todo)
             left == tx[r].todo \ {v}
             gone == Collected(r, v) > 0 \/ tx[r].seen[v].status \in {"void", "paid"}
             drops == IF gone THEN tx[r].drops \cup {v} ELSE tx[r].drops
             absorbs == IF gone THEN tx[r].absorbs ELSE tx[r].absorbs \cup {v}
             next == IF left # {} THEN "sort" ELSE IF drops # {} THEN "drop" ELSE "check"
             t == [tx[r] EXCEPT !.pc = next, !.todo = left, !.drops = drops,
                                !.absorbs = absorbs]
  <2>1. Move(r, t)
    BY <1>5 DEF IssueSorts
  <2>2. next \in {"sort", "drop", "check"}
    OBVIOUS
  <2> HIDE DEF left, gone, drops, absorbs, next
  <2>3. /\ t.pc = next /\ t.wrote = tx[r].wrote /\ t.locks = tx[r].locks
        /\ t.seen = tx[r].seen
    BY <1>0 DEF SessionOK, Fields
  <2> HIDE DEF t
  <2> QED BY <1>1, <1>2, <2>1, <2>2, <2>3, BystanderMoves
<1>6. CASE IssueDrops(r)
  <2> DEFINE left == tx[r].drops \ {Min(tx[r].drops)}
             remains == SumOver(LAMBDA v : Total(v, tx[r].seen[v]), tx[r].absorbs)
             next == IF left = {} THEN "reprice" ELSE "drop"
             t == [tx[r] EXCEPT !.pc = next, !.drops = left, !.money = remains]
  <2>1. Update(r, t) /\ tx[r].pc = "drop"
    BY <1>6 DEF IssueDrops, At
  <2>2. next \in {"reprice", "drop"}
    OBVIOUS
  <2> HIDE DEF left, remains, next
  <2>3. SessionOK(t) /\ t.pc = next /\ t.seen = tx[r].seen /\ t.locks = tx[r].locks
        /\ t.wrote = tx[r].wrote
    BY <1>0 DEF SessionOK, Fields
  <2> HIDE DEF t
  <2> QED BY <2>1, <2>2, <2>3, TillUpdates
<1>7. CASE IssueReprices(r)
  <2> DEFINE next == IF tx[r].absorbs = {} THEN "issue" ELSE "check"
             t == [tx[r] EXCEPT !.pc = next]
  <2>0. next \in {"issue", "check"} /\ tx[r].pc = "reprice"
    BY <1>7 DEF IssueReprices, At
  <2>1. Move(r, t) \/ Refuse(r) \/ Update(r, t)
    BY <1>7 DEF IssueReprices
  <2> HIDE DEF next
  <2>2. SessionOK(t) /\ t.pc = next /\ t.seen = tx[r].seen /\ t.locks = tx[r].locks
        /\ t.wrote = tx[r].wrote
    BY <1>0 DEF SessionOK, Fields
  <2> HIDE DEF t
  <2>3. CASE Move(r, t)
    BY <1>1, <1>2, <2>0, <2>2, <2>3, BystanderMoves
  <2>4. CASE Refuse(r)
    BY <2>4, TillIdles
  <2>5. CASE Update(r, t)
    BY <2>0, <2>2, <2>5, TillUpdates
  <2> QED BY <2>1, <2>3, <2>4, <2>5
<1>8. CASE IssueIssues(r)
  <2> DEFINE t == [tx[r] EXCEPT !.pc = "charge"]
  <2>1. Update(r, t) /\ tx[r].pc = "issue"
    BY <1>8 DEF IssueIssues, At
  <2>2. SessionOK(t) /\ t.pc = "charge" /\ t.seen = tx[r].seen /\ t.locks = tx[r].locks
        /\ t.wrote = tx[r].wrote
    BY <1>0 DEF SessionOK, Fields
  <2> HIDE DEF t
  <2> QED BY <2>1, <2>2, TillUpdates
<1>9. CASE IssueCharges(r)
  <2> DEFINE v == Job[r].voucher
             due == Entry("charge", v, Total(v, tx[r].seen[v]))
             t == [tx[r] EXCEPT !.pc = "append", !.due = due]
             u == [tx[r] EXCEPT !.pc = "commit"]
  <2>1. Move(r, t) \/ Move(r, u)
    BY <1>9 DEF IssueCharges
  <2> HIDE DEF due
  <2>2. /\ t.pc = "append" /\ t.wrote = tx[r].wrote /\ t.locks = tx[r].locks
        /\ t.seen = tx[r].seen
        /\ u.pc = "commit" /\ u.wrote = tx[r].wrote /\ u.locks = tx[r].locks
        /\ u.seen = tx[r].seen
    BY <1>0 DEF SessionOK, Fields
  <2> HIDE DEF t, u
  <2>3. CASE Move(r, t)
    BY <1>1, <1>2, <2>2, <2>3, BystanderMoves
  <2>4. CASE Move(r, u)
    BY <1>1, <1>2, <2>2, <2>4, BystanderMoves
  <2> QED BY <2>1, <2>3, <2>4
<1> QED BY <1>3, <1>4, <1>5, <1>6, <1>7, <1>8, <1>9

\* A line on the statement leaves the rows the request has written as they are.
LEMMA TillAppends ==
  ASSUME IInv, Till, NEW r \in Requests, Appends(r)
  PROVE  Till'
<1>0. SessionOK(tx[r]) /\ Session(r, tx[r]) /\ tx[r].pc = "append"
  BY SessionNow DEF Till, Appends, At
<1> DEFINE old == tx[r]
           moved == old.moved + old.due.amount
           line == [type |-> old.due.type, voucher |-> old.due.voucher,
                    amount |-> old.due.amount, after |-> balance + moved,
                    began |-> old.began]
           next == IF ~Does(r, "issue") \/ old.due.type = "charge" THEN "commit"
                   ELSE IF old.absorbs = {} THEN "issue" ELSE "check"
           t == [old EXCEPT !.pc = next, !.own = Append(@, line), !.moved = moved,
                            !.locks = @ \cup Wants(r)]
<1>1. Move(r, t)
  BY DEF Appends
<1>2. next \in {"commit", "issue", "check"} /\ (~Does(r, "issue") => next = "commit")
  OBVIOUS
<1> HIDE DEF moved, line, next
<1>3. Wants(r) = {StudentLock}
  BY <1>0, WantsOnly
<1>4. /\ t.pc = next /\ t.wrote = tx[r].wrote /\ t.locks = tx[r].locks \cup {StudentLock}
      /\ t.seen = tx[r].seen /\ t.number = tx[r].number /\ Move(r, t)
  BY <1>0, <1>1, <1>3 DEF SessionOK, Fields
<1> HIDE DEF t
<1>5. \A w \in Vouchers : RowLock(w) \in t.locks <=> RowLock(w) \in tx[r].locks
  BY <1>4 DEF RowLock, StudentLock
<1>6. CASE Mover(r)
  <2>1. next = "commit"
    BY <1>6, <1>2 DEF Mover, Does
  <2>2. Held(r, t) /\ Numbered(r, t)
    BY <1>0, <1>4, <1>5, <1>6, <2>1 DEF Session, Held, Numbered
  <2>3. Paced(r, t)
    BY <1>0, <1>4, <1>6, <2>1 DEF Session, Paced
  <2>4. Job[r].voucher \in Vouchers
    BY RacesAssumption
  <2>5. Counting(r, t)
    BY <1>0, <1>4, <1>5, <1>6, <2>1, <2>4 DEF Session, Counting
  <2> QED BY <1>4, <2>2, <2>3, <2>5, TillMoves DEF Session
<1>7. CASE ~Mover(r)
  <2>1. \A w \in Vouchers : RowLock(w) \in t.locks => t.seen[w].paid = voucher[w].paid
    BY <1>0, <1>4, <1>5, <1>7 DEF Session, Held
  <2> QED BY <1>4, <1>7, <1>2, <2>1, BystanderMoves
<1> QED BY <1>6, <1>7

\* A commit of a request that moves no receipt leaves the money as it was.
LEMMA BystanderCommits ==
  ASSUME IInv, Till, NEW r \in Requests, Commits(r), tx[r].wrote = "nothing"
  PROVE  Till'
<1>0. SessionOK(tx[r]) /\ Session(r, tx[r])
  BY SessionNow DEF Till
<1>1. ~Mover(r)
  BY <1>0 DEF Commits, At, Session, Paced
<1>2. /\ DOMAIN voucher' = Vouchers
      /\ \A v \in Vouchers : voucher'[v] = Current(r, v)
      /\ tx' = [tx EXCEPT ![r] = Idle("answered")] /\ DOMAIN tx = Requests
  BY DEF Commits, IInv, Shape
<1>3. receipt' = receipt
  <2>1. receipt' = [receipt EXCEPT ![Job[r].receipt] = receipt[Job[r].receipt]]
    BY DEF Commits
  <2>2. receipt \in [Receipts -> {"none", "recorded", "reversed"}]
    BY DEF IInv, TypeOK
  <2> QED BY <2>1, <2>2
<1>4. \A v \in Vouchers : voucher'[v].paid = voucher[v].paid
  BY <1>0, <1>1, <1>2 DEF Current, Session, Held, RowLock
<1>5. PaidIsReceipts'
  BY <1>3, <1>4 DEF Till, PaidIsReceipts, Banks
<1>6. ASSUME NEW q \in Requests PROVE Session(q, tx[q])'
  <2>1. CASE q = r
    <3>1. /\ tx'[q].pc = "answered" /\ tx'[q].wrote = "nothing" /\ tx'[q].locks = {}
      BY <1>2, <2>1 DEF Idle
    <3> QED BY <3>1 DEF Session, Paced, Held, Numbered, Counting, Mover, Does
  <2>2. CASE q # r
    <3>1. tx'[q] = tx[q] /\ Session(q, tx[q]) /\ Job[q].voucher \in Vouchers
      BY <1>2, <2>2, RacesAssumption DEF Till
    <3>2. Paced(q, tx[q])' /\ Numbered(q, tx[q])'
      BY <1>3, <3>1 DEF Session, Paced, Numbered, Used, Mover, Does, BookOf
    <3>3. Held(q, tx[q])'
      BY <1>4, <3>1 DEF Session, Held, Mover, Does
    <3>4. Counting(q, tx[q])'
      BY <1>3, <1>4, <3>1 DEF Session, Counting, Mover, Does, Delta
    <3> QED BY <3>1, <3>2, <3>3, <3>4 DEF Session
  <2> QED BY <2>1, <2>2
<1> QED BY <1>5, <1>6 DEF Till

\* The next number of a year, after one more receipt is written or reversed.
LEMMA NumbersRun ==
  ASSUME IInv, Till, NEW r \in Requests, Commits(r), NEW b
  PROVE  /\ Used(b)' \in Nat /\ Used(b) <= Used(b)'
         /\ ~Does(r, "pay") \/ BookOf(r) # b => Used(b)' = Used(b)
<1> DEFINE used == {p \in Receipts : Slip[p].book = b /\ receipt[p] # "none"}
           then == {p \in Receipts : Slip[p].book = b /\ receipt'[p] # "none"}
           y == Job[r].receipt
<1>1. /\ receipt \in [Receipts -> {"none", "recorded", "reversed"}]
      /\ tx[r].wrote \in {"nothing", "recorded", "reversed"} /\ y \in Receipts
  BY RacesAssumption DEF IInv, TypeOK
<1>2. receipt' = [receipt EXCEPT ![y] = IF tx[r].wrote = "nothing" THEN @ ELSE tx[r].wrote]
  BY DEF Commits
<1>3. \A p \in Receipts : receipt[p] # "none" => receipt'[p] # "none"
  BY <1>1, <1>2
<1>4. used \subseteq then
  BY <1>3
<1>5. IsFiniteSet(used) /\ IsFiniteSet(then)
  BY SlipsAssumption, FS_Subset
<1>6. ~Does(r, "pay") \/ BookOf(r) # b => then = used
  <2>1. \A p \in Receipts : p # y => receipt'[p] = receipt[p]
    BY <1>1, <1>2
  <2>2. BookOf(r) # b => Slip[y].book # b
    BY DEF BookOf
  <2>3. ~Does(r, "pay") => receipt[y] # "none" \/ receipt'[y] = receipt[y]
    <3>1. Session(r, tx[r]) /\ tx[r].pc = "commit"
      BY DEF Till, Commits, At
    <3>2. tx[r].wrote = "nothing" => receipt'[y] = receipt[y]
      BY <1>1, <1>2
    <3>3. tx[r].wrote # "nothing" /\ ~Does(r, "pay") => receipt[y] = "recorded"
      BY <3>1 DEF Session, Paced, Counting, Mover
    <3> QED BY <3>2, <3>3
  <2> QED BY <1>3, <2>1, <2>2, <2>3
<1>7. Used(b) = Cardinality(used) /\ Used(b)' = Cardinality(then)
  BY DEF Used
<1> HIDE DEF used, then
<1>8. /\ Cardinality(used) \in Nat /\ Cardinality(then) \in Nat
      /\ Cardinality(used) <= Cardinality(then)
  BY <1>4, <1>5, FS_Subset, FS_CardinalityType
<1> QED BY <1>6, <1>7, <1>8

\* The commit of a payment or a reversal brings its receipt and the challan's
\* figure together.
LEMMA MoverCommits ==
  ASSUME InTurn, IInv, Till, NEW r \in Requests, Commits(r), tx[r].wrote # "nothing"
  PROVE  Till'
<1> DEFINE v == Job[r].voucher
           y == Job[r].receipt
<1>0. SessionOK(tx[r]) /\ Session(r, tx[r]) /\ tx[r].pc = "commit"
  BY SessionNow DEF Till, Commits, At
<1>1. Mover(r) /\ y \in Receipts /\ v \in Vouchers /\ Slip[y].voucher = v
      /\ Slip[y].amount \in Nat /\ Delta(r) \in Int
  <2>1. Mover(r)
    BY <1>0 DEF Session, Paced
  <2> QED BY <2>1, MoverFacts
<1>2. /\ DOMAIN voucher' = Vouchers
      /\ \A u \in Vouchers : voucher'[u] = Current(r, u)
      /\ tx' = [tx EXCEPT ![r] = Idle("answered")] /\ DOMAIN tx = Requests
  BY DEF Commits, IInv, Shape
<1>3. /\ receipt'[y] = tx[r].wrote
      /\ \A p \in Receipts \ {y} : receipt'[p] = receipt[p]
  <2>1. receipt' = [receipt EXCEPT ![y] = tx[r].wrote]
    BY DEF Commits
  <2>2. receipt \in [Receipts -> {"none", "recorded", "reversed"}]
    BY DEF IInv, TypeOK
  <2> QED BY <1>1, <2>1, <2>2
<1>4. \A u \in Vouchers : u # v => voucher'[u].paid = voucher[u].paid
  BY <1>0, <1>1, <1>2 DEF Current, Session, Held, RowLock
<1>5. voucher'[v].paid = voucher[v].paid + Delta(r)
  <2>1. (IF RowLock(v) \in tx[r].locks THEN tx[r].seen[v].paid ELSE voucher[v].paid)
          = voucher[v].paid + Delta(r)
    BY <1>0, <1>1 DEF Session, Counting
  <2> QED BY <1>1, <1>2, <2>1 DEF Current, RowLock
<1>6. RowLock(v) \notin tx[r].locks => Delta(r) = 0
  <2>1. voucher[v].paid \in Nat
    BY <1>1, BanksIsTaken DEF Till, PaidIsReceipts
  <2>2. RowLock(v) \notin tx[r].locks => voucher[v].paid = voucher[v].paid + Delta(r)
    BY <1>0, <1>1 DEF Session, Counting
  <2> QED BY <1>1, <2>1, <2>2
<1>7. ASSUME NEW u \in Vouchers
      PROVE  Banks(u)' = Banks(u) + (IF u = v THEN Delta(r) ELSE 0)
  <2>1. Taken(u, receipt') = Taken(u, receipt)
          + (Weight(u, receipt', y) - Weight(u, receipt, y))
    BY <1>1, <1>3, TakenMoves
  <2>2. Banks(u) = Taken(u, receipt) /\ Taken(u, receipt) \in Nat
    BY BanksIsTaken
  <2>3. Banks(u)' = Taken(u, receipt')
    BY TakenIsSum DEF Banks
  <2>4. CASE u # v
    BY <1>1, <2>1, <2>2, <2>3, <2>4 DEF Weight
  <2>5. CASE u = v
    <3>1. Weight(u, receipt', y) - Weight(u, receipt, y) = Delta(r)
      <4>1. CASE Does(r, "pay")
        <5>1. tx[r].wrote = "recorded" /\ receipt[y] = "none"
          BY <1>0, <1>1, <4>1 DEF Session, Paced, Counting
        <5>2. Delta(r) = Slip[y].amount
          BY <1>1, <4>1, MoverFacts
        <5> QED BY <1>1, <1>3, <2>5, <5>1, <5>2 DEF Weight
      <4>2. CASE Does(r, "reverse") /\ ~Does(r, "pay")
        <5>1. tx[r].wrote = "reversed" /\ receipt[y] = "recorded"
          BY <1>0, <1>1, <4>2 DEF Session, Paced, Counting
        <5>2. Delta(r) = 0 - Slip[y].amount
          BY <1>1, <4>2, MoverFacts
        <5> QED BY <1>1, <1>3, <2>5, <5>1, <5>2 DEF Weight
      <4> QED BY <1>1, <4>1, <4>2 DEF Mover
    <3> QED BY <2>1, <2>2, <2>3, <2>5, <3>1
  <2> QED BY <2>4, <2>5
<1>8. PaidIsReceipts'
  <2>1. \A u \in Vouchers : voucher[u].paid = Banks(u) /\ Banks(u) \in Nat
    BY BanksIsTaken DEF Till, PaidIsReceipts
  <2>2. \A u \in Vouchers : voucher'[u].paid = Banks(u)'
    BY <1>4, <1>5, <1>7, <2>1
  <2> QED BY <2>2 DEF PaidIsReceipts
<1>9. ASSUME NEW q \in Requests PROVE Session(q, tx[q])'
  <2>1. CASE q = r
    <3>1. /\ tx'[q].pc = "answered" /\ tx'[q].wrote = "nothing" /\ tx'[q].locks = {}
      BY <1>2, <2>1 DEF Idle
    <3> QED BY <3>1 DEF Session, Paced, Held, Numbered, Counting, Mover, Does
  <2>2. CASE q # r
    <3>0. tx'[q] = tx[q] /\ Session(q, tx[q]) /\ Job[q].voucher \in Vouchers
          /\ tx[q].locks \cap tx[r].locks = {}
      BY <1>2, <2>2, RacesAssumption DEF Till, IInv, Exclusive
    <3>1. Paced(q, tx[q])'
      BY <3>0 DEF Session, Paced, Mover, Does
    <3>2. Held(q, tx[q])'
      <4> SUFFICES ASSUME NEW w \in Vouchers, RowLock(w) \in tx[q].locks, ~Mover(q)
                   PROVE  tx[q].seen[w].paid = voucher'[w].paid
        <5>1. \A w \in Vouchers : RowLock(w) \in tx[q].locks /\ Mover(q) =>
                w = Job[q].voucher /\ tx[q].pc \in {"append", "commit"}
          BY <3>0 DEF Session, Held
        <5> QED BY <3>0, <5>1 DEF Held, Mover, Does
      <4>1. tx[q].seen[w].paid = voucher[w].paid
        BY <3>0 DEF Session, Held
      <4>2. CASE w = v
        <5>1. Delta(r) = 0
          BY <1>6, <3>0, <4>2
        <5>2. voucher[v].paid \in Nat
          BY <1>1, BanksIsTaken DEF Till, PaidIsReceipts
        <5> QED BY <1>5, <4>1, <4>2, <5>1, <5>2
      <4>3. CASE w # v
        BY <1>4, <4>1, <4>3
      <4> QED BY <4>2, <4>3
    <3>3. Numbered(q, tx[q])'
      <4> DEFINE b == BookOf(q)
      <4>1. Used(b) \in Nat /\ Used(b)' \in Nat /\ Used(b) <= Used(b)'
        BY UsedIsNat, NumbersRun
      <4>2. Does(q, "pay") /\ tx[q].wrote # "nothing" => Used(b)' = Used(b)
        <5>1. Does(q, "pay") /\ tx[q].wrote # "nothing" =>
                ~Does(r, "pay") \/ BookOf(r) # b
          BY <2>2, OneAtATime
        <5> QED BY <5>1, NumbersRun
      <4>3. Numbered(q, tx[q])
        BY <3>0 DEF Session
      <4>4. /\ tx[q].pc = "insert" => tx[q].number \in Nat /\ tx[q].number <= Used(b)' + 1
            /\ Does(q, "pay") /\ tx[q].wrote # "nothing" =>
                 tx[q].number = Used(b)' + 1 /\ NumberLock(b, tx[q].number) \in tx[q].locks
        <5> HIDE DEF b
        <5>1. tx[q].pc = "insert" => tx[q].number \in Nat /\ tx[q].number <= Used(b) + 1
          BY <4>3 DEF Numbered, b
        <5>2. Does(q, "pay") /\ tx[q].wrote # "nothing" =>
                tx[q].number = Used(b) + 1 /\ NumberLock(b, tx[q].number) \in tx[q].locks
          BY <4>3 DEF Numbered, b
        <5> QED BY <4>1, <4>2, <5>1, <5>2
      <4> QED BY <3>0, <4>4 DEF Numbered, Does, BookOf
    <3>4. Counting(q, tx[q])'
      <4>1. CASE ~Mover(q)
        <5>1. ~Does(q, "pay") /\ ~Does(q, "reverse") /\ tx'[q].pc # "write"
          BY <3>0, <4>1 DEF Session, Paced, Mover
        <5> QED BY <4>1, <5>1 DEF Counting, Mover, Does
      <4>2. CASE Mover(q)
        <5> DEFINE u == Job[q].voucher
        <5>1. Job[q].receipt \in Receipts /\ Job[q].receipt # y
          BY <1>1, <2>2, <4>2, MoverFacts, ReceiptsApart
        <5>2. receipt'[Job[q].receipt] = receipt[Job[q].receipt]
          BY <1>3, <5>1
        <5>3. CASE u # v
          <6>1. voucher'[u].paid = voucher[u].paid
            BY <1>4, <3>0, <5>3
          <6> QED BY <3>0, <5>2, <6>1 DEF Session, Counting, Mover, Does, Delta
        <5>4. CASE u = v
          <6>1. Does(q, "pay") /\ Does(r, "pay") /\ tx[q].wrote = "nothing"
            BY <1>1, <2>2, <4>2, <5>4, OneAtATime DEF InTurn
          <6>2. ~Does(q, "reverse")
            BY <4>2, <6>1, MoverFacts
          <6>3. tx[q].pc \notin {"sum", "write", "append", "commit"}
            BY <3>0, <4>2, <6>1 DEF Session, Paced
          <6>4. voucher[v].paid \in Nat /\ Delta(r) \in Nat
            <7>1. voucher[v].paid \in Nat
              BY <1>1, BanksIsTaken DEF Till, PaidIsReceipts
            <7>2. Delta(r) = Slip[y].amount
              BY <1>1, <6>1, MoverFacts
            <7> QED BY <1>1, <7>1, <7>2
          <6>5. tx[q].pc \in {"number", "insert"} =>
                  tx[q].seen[v].paid \in Int /\ tx[q].seen[v].paid <= voucher[v].paid
            BY <3>0, <5>4, <6>1 DEF Session, Counting
          <6>6. tx[q].pc \in {"number", "insert"} =>
                  tx[q].seen[v].paid \in Int /\ tx[q].seen[v].paid <= voucher'[v].paid
            <7> HIDE DEF v
            <7> QED BY <1>5, <6>4, <6>5
          <6>7. tx[q].pc \notin {"answered", "refused"} => receipt[Job[q].receipt] = "none"
            BY <3>0, <6>1 DEF Session, Counting
          <6> QED BY <3>0, <5>2, <5>4, <6>1, <6>2, <6>3, <6>6, <6>7 DEF Counting, Mover, Does
        <5> QED BY <5>3, <5>4
      <4> QED BY <4>1, <4>2
    <3> QED BY <3>1, <3>2, <3>3, <3>4 DEF Session
  <2> QED BY <2>1, <2>2
<1> QED BY <1>8, <1>9 DEF Till

\* Every challan starts with what was banked for it, and no request has begun.
LEMMA InitTill == Init => Till
<1> SUFFICES ASSUME Init PROVE Till
  OBVIOUS
<1>1. ASSUME NEW v \in Vouchers PROVE voucher[v].paid = Banks(v)
  <2> DEFINE banked == {p \in Banked : Slip[p].voucher = v}
             counted == {p \in Receipts : Slip[p].voucher = v /\ receipt[p] = "recorded"}
  <2>1. counted = banked
    BY RacesAssumption DEF Init
  <2>2. Banks(v) = SumOver(AmountOf, counted)
    BY DEF Banks
  <2>3. voucher[v] = OpeningRow(v)
    BY DEF Init
  <2>4. CASE v \in Billed
    <3>1. OpeningRow(v).paid = SumOver(AmountOf, banked)
      BY <2>4 DEF OpeningRow, Recalculated
    <3> QED BY <2>1, <2>2, <2>3, <3>1
  <2>5. CASE v \notin Billed
    <3>1. OpeningRow(v).paid = 0
      BY <2>5 DEF OpeningRow
    <3>2. \A p \in Receipts : ~(Slip[p].voucher = v /\ receipt[p] = "recorded")
      BY <2>5, SlipsAssumption DEF Init
    <3>3. Taken(v, receipt) = 0
      <4> DEFINE g == [p \in Receipts |-> Weight(v, receipt, p)]
      <4>1. \A p \in Receipts : g[p] = 0
        BY <3>2 DEF Weight
      <4>2. Taken(v, receipt) = SumFunctionOnSet(g, Receipts) /\ IsFiniteSet(Receipts)
        BY SlipsAssumption DEF Taken
      <4> HIDE DEF g
      <4> QED BY <4>1, <4>2, SumZero
    <3> QED BY <2>3, <3>1, <3>3, BanksIsTaken
  <2> QED BY <2>4, <2>5
<1>2. ASSUME NEW r \in Requests PROVE Session(r, tx[r])
  <2>1. PICK pc \in {"start", "refused"} : tx[r] = Idle(pc)
    BY DEF Init
  <2>2. /\ tx[r].pc \in {"start", "refused"} /\ tx[r].wrote = "nothing" /\ tx[r].locks = {}
        /\ \A v \in Vouchers : tx[r].seen[v].status = "unread"
    BY <2>1 DEF Idle, Unread
  <2>3. Paced(r, tx[r]) /\ Held(r, tx[r]) /\ Numbered(r, tx[r])
    BY <2>2 DEF Paced, Held, Numbered
  <2>4. Does(r, "pay") => receipt[Job[r].receipt] = "none"
    BY RacesAssumption, SlipsAssumption DEF Init, Does
  <2>5. Job[r].voucher \in Vouchers
    BY RacesAssumption
  <2>6. Counting(r, tx[r])
    BY <2>2, <2>4, <2>5 DEF Counting
  <2> QED BY <2>3, <2>6 DEF Session
<1> QED BY <1>1, <1>2 DEF Till, PaidIsReceipts

LEMMA NextTill == ASSUME InTurn PROVE IInv /\ Till /\ [Next]_vars => Till'
<1> SUFFICES ASSUME IInv, Till, [Next]_vars PROVE Till'
  OBVIOUS
<1>1. ASSUME NEW r \in Requests, Step(r) PROVE Till'
  <2>1. CASE DeadlockAborts(r)
    BY <2>1, TillIdles DEF DeadlockAborts
  <2>2. CASE Commits(r)
    BY <2>2, BystanderCommits, MoverCommits
  <2> QED BY <1>1, <2>1, <2>2, TillPays, TillWrites, TillReverses, TillVoids, TillIssues,
             TillAppends DEF Step
<1>2. CASE UNCHANGED vars
  <2>1. UNCHANGED <<voucher, receipt>> /\ tx' = tx
    BY <1>2 DEF vars
  <2>2. \A q \in Requests : Session(q, tx[q])'
    BY <2>1, SessionStays DEF Till
  <2>3. PaidIsReceipts'
    BY <2>1 DEF Till, PaidIsReceipts, Banks
  <2> QED BY <2>2, <2>3 DEF Till
<1> QED BY <1>1, <1>2 DEF Next

\* Where the receipts of a challan are moved in turn, `paid_total` is at every moment
\* the sum of its recorded receipts, whatever else is issued, absorbed, cancelled or
\* rolled back meanwhile.  A reversal beside a payment is not in turn: see
\* MCFeeRaces_pay_reverse, where the later count is taken before the earlier commit.
THEOREM PaidKeepsReceipts == ASSUME InTurn PROVE Spec => []PaidIsReceipts
<1>1. Till => PaidIsReceipts
  BY DEF Till
<1> QED BY <1>1, InitIInv, NextIInv, InitTill, NextTill, PTL DEF Spec
=============================================================================
