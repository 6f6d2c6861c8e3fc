----------------------------- MODULE MCFeeLedger -----------------------------
(***************************************************************************)
(* FeeLedger on a small office: identities are model values, amounts are   *)
(* small numbers, and the due date may pass for every challan.             *)
(***************************************************************************)
EXTENDS FeeLedger, TLC

\* Families, periods, challans and receipts are each interchangeable.
Identities == Permutations(Students) \cup Permutations(Periods)
                \cup Permutations(Vouchers) \cup Permutations(Payments)
\* A correction in either direction (a cfg cannot write a negative number).
EitherWay == {-1, 1}
Downwards == {-1}
NoCorrections == {}
\* A bound: a corrected family's history goes on to at most two challans.
FewCorrected == (\E s \in Students : adjusted[s] # 0) =>
                    Cardinality({v \in Vouchers : row[v].status # "none"}) <= 2
=============================================================================
