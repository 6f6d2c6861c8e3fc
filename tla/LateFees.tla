------------------------------- MODULE LateFees -------------------------------
(***************************************************************************)
(* The late-fee policy of one school and year, and the pass that fines     *)
(* what is overdue, run nightly or by hand (apply_late_fees).  A fine is a *)
(* challan of its own, kept with the bill that earned it.                  *)
(*                                                                         *)
(* A pass is one transaction.  Billing is reduced to what a pass can see   *)
(* of it: a challan is generated and issued in one step, possibly          *)
(* absorbing what the family has not begun to pay; receipts are of one     *)
(* amount, a fine's receipt is of the whole fine.                          *)
(***************************************************************************)
EXTENDS Integers, FiniteSets, Sequences, SequencesExt

CONSTANTS
  Bills,         \* challan numbers, in the order they are given out
  Family,        \* per bill, whose it is
  Period,        \* per bill, the period it bills
  Spare,         \* per period, the characters its label leaves free of 40
  Own,           \* per bill, what its own lines add up to
  Due,           \* per bill, the day it is due
  Instalment,    \* the amount of every receipt against a bill
  Policies,      \* the rules the office may set
  MaxRevisions,  \* bound: how often the office sets or retires the rule
  BatchLimit,    \* MAX_LATE_FEE_BATCH
  LastDay,       \* bound: the last day modelled
  NoBill, NoCap, NoPolicy

\* `every` is 0 for a rule that fires once, else the days between two fines.
Policy == [kind: {"fixed", "percent"}, value: Nat \ {0}, every: Nat, grace: Nat,
           cap: (Nat \ {0}) \cup {NoCap}, least: Nat]

ASSUME LateFeesAssumption ==
  /\ IsFiniteSet(Bills) /\ Bills \subseteq Nat /\ NoBill \notin Bills
  /\ Own \in [Bills -> Nat] /\ Due \in [Bills -> Nat]
  /\ DOMAIN Family = Bills /\ DOMAIN Period = Bills
  /\ \A b \in Bills : Spare[Period[b]] \in 0..39
  /\ Policies \subseteq Policy /\ NoPolicy \notin Policy /\ NoCap \notin Nat
  /\ Instalment \in Nat \ {0} /\ MaxRevisions \in Nat
  /\ BatchLimit \in Nat \ {0} /\ LastDay \in Nat

VARIABLES
  day,
  policies,  \* every rule set so far, NoPolicy where it was retired
  bill,      \* fee_vouchers of origin REGULAR
  fine,      \* per bill, the challans that fine it, oldest first
  quiet      \* nothing has happened today since a pass that covered everything
vars == <<day, policies, bill, fine, quiet>>

\* The bill that absorbed a challan, and the (year's) label it is filed under.
Label == [family: {Family[b] : b \in Bills}, period: {Period[b] : b \in Bills},
          fine: BOOLEAN, nth: Nat]
Bill == [status: {"none", "issued", "void"}, total: Nat, paid: Nat,
         into: Bills \cup {NoBill}]
Fine == [status: {"issued", "paid", "void"}, amount: Nat \ {0},
         into: Bills \cup {NoBill}, label: Label]

Active == IF policies = <<>> THEN NoPolicy ELSE Last(policies)
Outstanding(b) == bill[b].total - bill[b].paid
Sum(f(_), S) == SumFunction([x \in S |-> f(x)])
Charged(b, S) == Sum(LAMBDA k : fine[b][k].amount, S)
\* `fines_for_source`: the fines that are not void.
Standing(b) == {k \in DOMAIN fine[b] : fine[b][k].status # "void"}

Init ==
  /\ day = 0
  /\ policies = <<>>
  /\ bill = [b \in Bills |-> [status |-> "none", total |-> 0, paid |-> 0, into |-> NoBill]]
  /\ fine = [b \in Bills |-> <<>>]
  /\ quiet = FALSE

-----------------------------------------------------------------------------
(* The pass.                                                                *)

BillLabel(b) == [family |-> Family[b], period |-> Period[b], fine |-> FALSE, nth |-> 0]
\* Cut at 40 characters: " late fee" takes nine of them, the number two more.
FineLabel(p, b) ==
  LET room == Spare[Period[b]]
      nth == IF p.every = 0 THEN 0 ELSE Len(fine[b]) + 1
  IN  [family |-> Family[b], period |-> Period[b], fine |-> room > 0,
       nth |-> IF room > 10 THEN nth ELSE 0]

\* uq_fee_vouchers_student_period looks at every challan that is not void.
LiveLabels ==
  {BillLabel(b) : b \in {c \in Bills : bill[c].status = "issued"}}
    \cup UNION {{fine[b][k].label : k \in Standing(b)} : b \in Bills}

\* Mutant: the first interval is counted before it has begun.
EarnedAhead(p, b) ==
  LET late == day - Due[b] - p.grace
  IN  IF late < 0 THEN 0 ELSE IF p.every = 0 THEN 1 ELSE late \div p.every + 2
\* `_assessments_earned`
Earned(p, b) ==
  LET late == day - Due[b] - p.grace
  IN  IF late < 0 THEN 0 ELSE IF p.every = 0 THEN 1 ELSE late \div p.every + 1

Overdue(p) ==
  {b \in Bills : bill[b].status = "issued" /\ Outstanding(b) > 0 /\ Due[b] < day - p.grace}
Before(b, c) == Due[b] < Due[c] \/ (Due[b] = Due[c] /\ b < c)
\* Mutant: only what nobody has paid anything on, as for a consolidation.
CandidatesUnpaid(p) ==
  {b \in Overdue(p) : Cardinality({c \in Overdue(p) : Before(c, b)}) < BatchLimit
                      /\ bill[b].paid = 0}
\* `overdue_candidates`: the longest overdue, up to the limit.
Candidates(p) ==
  {b \in Overdue(p) : Cardinality({c \in Overdue(p) : Before(c, b)}) < BatchLimit}

\* What has been taken on the challan so far.
Taken(b) == Charged(b, Standing(b))

\* A percentage is rounded to the nearest unit, halves up (`_money`).
Rate(p, b) ==
  IF p.kind = "fixed" THEN p.value ELSE (2 * Outstanding(b) * p.value + 100) \div 200
\* Mutant: the cap is measured against this fine alone.
LevyAlone(p, b) == IF p.cap = NoCap THEN Rate(p, b) ELSE Min({Rate(p, b), p.cap})
Levy(p, b) == IF p.cap = NoCap THEN Rate(p, b) ELSE Min({Rate(p, b), p.cap - Taken(b)})
\* Mutant: fines that were cancelled are not counted.
FinesAgain(p, b) ==
  /\ Outstanding(b) >= p.least
  /\ Cardinality(Standing(b)) < Earned(p, b)
  /\ Levy(p, b) > 0
Fines(p, b) ==
  /\ Outstanding(b) >= p.least
  /\ Len(fine[b]) < Earned(p, b)
  /\ Levy(p, b) > 0

\* A label that is taken fails the flush, and with it the whole pass.
Collides(p, S) ==
  \E b \in S : \/ FineLabel(p, b) \in LiveLabels
               \/ \E c \in S \ {b} : FineLabel(p, c) = FineLabel(p, b)

ApplyLateFees ==
  /\ Active # NoPolicy
  /\ LET p == Active
         fined == {b \in Candidates(p) : Fines(p, b)}
         Minted(b) == [status |-> "issued", amount |-> Levy(p, b), into |-> NoBill,
                       label |-> FineLabel(p, b)]
     IN  IF Collides(p, fined)
         THEN UNCHANGED <<fine, quiet>>
         ELSE /\ fine' = [b \in Bills |-> IF b \in fined THEN Append(fine[b], Minted(b))
                                          ELSE fine[b]]
              /\ quiet' = (Candidates(p) = Overdue(p))
  /\ UNCHANGED <<day, policies, bill>>

-----------------------------------------------------------------------------
(* What the office and the families do in between.                          *)

\* `absorbable_for_students`: nothing has been paid yet, of a bill or a fine.
AbsorbableBills(b) ==
  {c \in Bills : Family[c] = Family[b] /\ bill[c].status = "issued" /\ bill[c].paid = 0}
AbsorbsFine(b, c, f) == Family[c] = Family[b] /\ f.status = "issued"

\* `generate_vouchers` with and without consolidation, then `issue_voucher`.
IssueBill(b, consolidates) ==
  LET gone == IF consolidates THEN AbsorbableBills(b) ELSE {}
      Goes(c, k) == consolidates /\ AbsorbsFine(b, c, fine[c][k])
      dues == Sum(LAMBDA c : bill[c].total, gone)
      fines == Sum(LAMBDA c : Charged(c, {k \in DOMAIN fine[c] : Goes(c, k)}), Bills)
  IN  /\ bill[b].status = "none" /\ BillLabel(b) \notin LiveLabels
      /\ bill' = [c \in Bills |->
                    IF c = b THEN [bill[c] EXCEPT !.status = "issued",
                                                  !.total = Own[b] + dues + fines]
                    ELSE IF c \in gone THEN [bill[c] EXCEPT !.status = "void", !.into = b]
                    ELSE bill[c]]
      /\ fine' = [c \in Bills |-> [k \in DOMAIN fine[c] |->
                    IF Goes(c, k) THEN [fine[c][k] EXCEPT !.status = "void", !.into = b]
                    ELSE fine[c][k]]]
      /\ quiet' = FALSE
      /\ UNCHANGED <<day, policies>>

Edits(newBill, newFine) ==
  /\ bill' = newBill /\ fine' = newFine /\ quiet' = FALSE
  /\ UNCHANGED <<day, policies>>

PayBill(b) ==
  /\ bill[b].status = "issued" /\ Instalment <= Outstanding(b)
  /\ Edits([bill EXCEPT ![b].paid = @ + Instalment], fine)

ReturnReceipt(b) ==
  /\ bill[b].paid > 0
  /\ Edits([bill EXCEPT ![b].paid = @ - Instalment], fine)

\* `void_voucher`: what the challan had absorbed loses the pointer to it.
VoidBill(b) ==
  LET Freed(row) == [row EXCEPT !.into = IF @ = b THEN NoBill ELSE @]
  IN  /\ bill[b].status = "issued" /\ bill[b].paid = 0
      /\ Edits([c \in Bills |-> IF c = b THEN [bill[b] EXCEPT !.status = "void"]
                                ELSE Freed(bill[c])],
               [c \in Bills |-> [k \in DOMAIN fine[c] |-> Freed(fine[c][k])]])

\* A fine is settled, its receipt reversed, or the family let off.
FineMoves(b, k, from, to) ==
  /\ fine[b][k].status = from
  /\ Edits(bill, [fine EXCEPT ![b][k].status = to])
PayFine(b, k) == FineMoves(b, k, "issued", "paid")
ReturnFine(b, k) == FineMoves(b, k, "paid", "issued")
WaiveFine(b, k) == FineMoves(b, k, "issued", "void")

Revise(p) ==
  /\ Len(policies) < MaxRevisions
  /\ policies' = Append(policies, p)
  /\ quiet' = FALSE
  /\ UNCHANGED <<day, bill, fine>>
\* `set_late_fee_policy` replaces the year's rule.
SetLateFeePolicy == \E p \in Policies : Revise(p)
DeleteLateFeePolicy == Active # NoPolicy /\ Revise(NoPolicy)

DayEnds ==
  /\ day < LastDay
  /\ day' = day + 1
  /\ quiet' = FALSE
  /\ UNCHANGED <<policies, bill, fine>>

Next ==
  \/ ApplyLateFees
  \/ \E b \in Bills, c \in BOOLEAN : IssueBill(b, c)
  \/ \E b \in Bills : PayBill(b) \/ ReturnReceipt(b) \/ VoidBill(b)
  \/ \E b \in Bills : \E k \in DOMAIN fine[b] :
       PayFine(b, k) \/ ReturnFine(b, k) \/ WaiveFine(b, k)
  \/ SetLateFeePolicy
  \/ DeleteLateFeePolicy
  \/ DayEnds

\* Days go by, and cron runs the pass again and again.
Spec == Init /\ [][Next]_vars /\ WF_vars(DayEnds) /\ WF_vars(ApplyLateFees)

-----------------------------------------------------------------------------
(* Properties.                                                              *)

\* Fines are numbered from the oldest, and a rule is a rule the schema accepts.
TypeOK ==
  /\ day \in 0..LastDay
  /\ policies \in Seq(Policies \cup {NoPolicy})
  /\ bill \in [Bills -> Bill]
  /\ fine \in [Bills -> Seq(Fine)]
  /\ quiet \in BOOLEAN

Rules == ToSet(policies) \ {NoPolicy}

\* By today rule p allows as many fines as challan b has.
Allows(p, b) ==
  /\ Due[b] + p.grace <= day
  /\ IF p.every = 0 THEN Len(fine[b]) = 1
     ELSE p.every * (Len(fine[b]) - 1) <= day - Due[b] - p.grace
\* However often the pass runs, however the rule was revised and whatever was
\* cancelled, a challan is fined at most as often as some rule so far allows:
\* once, or once an interval, and not within the grace.
NeverAheadOfSchedule ==
  \A b \in Bills : fine[b] # <<>> => \E p \in Rules : Allows(p, b)

\* Fines that stand against a challan stay within the widest ceiling so far.
WithinCap ==
  \A b \in Bills : fine[b] # <<>> => \E p \in Rules : p.cap = NoCap \/ Taken(b) <= p.cap

\* What a family is asked for on account of one late challan stays within the
\* ceiling, under whatever number it is asked: a fine carried onto a later
\* challan is still asked for.
AskedWithinCap ==
  \A b \in Bills :
    LET carriedOn == {k \in DOMAIN fine[b] :
                        fine[b][k].into # NoBill /\ bill[fine[b][k].into].status = "issued"}
    IN  fine[b] # <<>> =>
          \E p \in Rules : p.cap = NoCap \/ Charged(b, Standing(b) \cup carriedOn) <= p.cap

\* A second pass of a day on which nothing else happened fines nothing.
SecondPassFinesNothing == [][quiet /\ ApplyLateFees => UNCHANGED fine]_vars

\* A challan that goes on deserving a fine gets it in the end: the rule is
\* applied to everyone it matches.
NobodyOverlooked ==
  \A b \in Bills : []<>~(Active # NoPolicy /\ b \in Overdue(Active) /\ Fines(Active, b))
=============================================================================
