----------------------------- MODULE MCSessions -----------------------------
(* Instances of Sessions for TLC.  Two people share no row, so one, of any *)
(* kind, is enough.                                                        *)
EXTENDS Sessions, TLC

Alike == Permutations(Calls)
=============================================================================
