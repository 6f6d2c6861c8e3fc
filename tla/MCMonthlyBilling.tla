-------------------------- MODULE MCMonthlyBilling --------------------------
(* Instances of MonthlyBilling for TLC: two campuses of two classes, and   *)
(* months of two days, the last day of one and the first of the next.      *)
EXTENDS MonthlyBilling

\* Every schedule carries dues at first, and the students are in different classes.
MCInit == /\ BillingInit
          /\ \A o \in Orgs, y \in Years : schedule[o][y].carry
          /\ \A o \in Orgs, s \in Students \cap Classes : place[o][s] = s

MCSpec == MCInit /\ [][BillingNext]_billingVars /\ \A p \in Runs : WF_billingVars(Works(p))
=============================================================================
