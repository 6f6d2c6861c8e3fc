---------------------------- MODULE ClaimedWork ----------------------------
(***************************************************************************)
(* What a row that doubles as its own work queue promises.  A job is       *)
(* free, waiting for a worker, or held under a claim; claims are numbered  *)
(* in the order they are taken.  Whoever asked for the work may throw its  *)
(* result away or ask again while nobody holds the job; only the claim     *)
(* that holds the job now can leave a result, and a result once left is    *)
(* never replaced by that of an older claim.                               *)
(***************************************************************************)
EXTENDS Naturals

CONSTANT Jobs            \* the rows

VARIABLES phase,         \* where each job stands
          holder,        \* the claim that holds it, 0 for none
          result,        \* the claim whose result stands, 0 for none
          taken          \* how many claims have been taken

cvars == <<phase, holder, result, taken>>

CInit == /\ phase = [j \in Jobs |-> "free"]
         /\ holder = [j \in Jobs |-> 0]
         /\ result = [j \in Jobs |-> 0]
         /\ taken = 0

\* The owner changes what the job is about, or queues it, or both.
Ask(j) == /\ phase[j] \in {"free", "waiting"}
          /\ \E p \in {"free", "waiting"} : phase' = [phase EXCEPT ![j] = p]
          /\ \E r \in {0, result[j]} : result' = [result EXCEPT ![j] = r]
          /\ UNCHANGED <<holder, taken>>

\* A worker takes a waiting job, or one whose holder went silent.
Take(j) == /\ phase[j] \in {"waiting", "held"}
           /\ phase' = [phase EXCEPT ![j] = "held"]
           /\ holder' = [holder EXCEPT ![j] = taken + 1]
           /\ taken' = taken + 1
           /\ UNCHANGED result

\* The claim ends: with a result, without one, or handed back to be taken again.
Settle(j) == /\ phase[j] = "held"
             /\ \E p \in {"free", "waiting"} : phase' = [phase EXCEPT ![j] = p]
             /\ \E r \in {result[j], holder[j]} : result' = [result EXCEPT ![j] = r]
             /\ holder' = [holder EXCEPT ![j] = 0]
             /\ UNCHANGED taken

\* The owner may remove the job at any moment, held or not.
Drop(j) == /\ phase[j] # "gone"
           /\ phase' = [phase EXCEPT ![j] = "gone"]
           /\ holder' = [holder EXCEPT ![j] = 0]
           /\ result' = [result EXCEPT ![j] = 0]
           /\ UNCHANGED taken

CNext == \E j \in Jobs : Ask(j) \/ Take(j) \/ Settle(j) \/ Drop(j)

CSpec == CInit /\ [][CNext]_cvars
=============================================================================
