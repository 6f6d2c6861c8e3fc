------------------------------ MODULE MCLateFees ------------------------------
(***************************************************************************)
(* LateFees on two bills of one family, with intervals of two days in      *)
(* place of 7 and 30.                                                      *)
(***************************************************************************)
EXTENDS LateFees

Two == 1..2
OneFamily == [b \in Bills |-> "ali"]
EachItsOwn == [b \in Bills |-> IF b = 2 THEN "june" ELSE "may"]
SpareOf == [may |-> 33, june |-> 33]
OwnOf == [b \in Bills |-> IF b = 2 THEN 2 ELSE 4]
DueOf == [b \in Bills |-> b - 1]

Once == [kind |-> "percent", value |-> 50, every |-> 0, grace |-> 1, cap |-> NoCap, least |-> 2]
Weekly == [kind |-> "fixed", value |-> 4, every |-> 2, grace |-> 0, cap |-> 3, least |-> 1]
Either == {Once, Weekly}
OnlyOnce == {Once}
Uncapped == [Weekly EXCEPT !.value = 1, !.cap = NoCap]
OnlyUncapped == {Uncapped}
OnlyWeekly == {Weekly}
=============================================================================
