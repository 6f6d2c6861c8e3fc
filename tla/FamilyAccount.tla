---------------------------- MODULE FamilyAccount ----------------------------
(***************************************************************************)
(* What the fee office promises a family, with no challans in it.          *)
(*                                                                         *)
(* An account has three running figures: what the school has charged, what *)
(* it has received, and what it has knowingly let the family off.  A       *)
(* billing run may charge several families at once, but it neither         *)
(* receives nor forgives anything: moving old dues onto a new challan      *)
(* leaves them due.                                                        *)
(***************************************************************************)
EXTENDS Integers

CONSTANT Students   \* the families with an account

VARIABLES billed, received, forgiven
account == <<billed, received, forgiven>>

Amounts == [Students -> Nat]

Owes(s) == billed[s] - received[s] - forgiven[s]

Init == /\ billed = [s \in Students |-> 0]
        /\ received = [s \in Students |-> 0]
        /\ forgiven = [s \in Students |-> 0]

\* The school charges any set of families for something new.
Bill == /\ billed' \in Amounts
        /\ \A s \in Students : billed'[s] >= billed[s]
        /\ UNCHANGED <<received, forgiven>>

\* One family pays at most what it owes.
Receive(s) == /\ received' \in Amounts
              /\ received'[s] - received[s] \in 1..Owes(s)
              /\ \A t \in Students \ {s} : received'[t] = received[t]
              /\ UNCHANGED <<billed, forgiven>>

\* A receipt is undone: the money is owed again.
Refund(s) == /\ received' \in Amounts
             /\ received'[s] < received[s]
             /\ \A t \in Students \ {s} : received'[t] = received[t]
             /\ UNCHANGED <<billed, forgiven>>

\* Somebody cancels a bill: the only way a debt goes away unpaid.
Forgive(s) == /\ forgiven' \in Amounts
              /\ forgiven'[s] - forgiven[s] \in 1..Owes(s)
              /\ \A t \in Students \ {s} : forgiven'[t] = forgiven[t]
              /\ UNCHANGED <<billed, received>>

Next == Bill \/ \E s \in Students : Receive(s) \/ Refund(s) \/ Forgive(s)

Spec == Init /\ [][Next]_account
=============================================================================
