----------------------------- MODULE PaperPlan -----------------------------
(***************************************************************************)
(* How a test paper is planned and filled (modules/papers/generator.py):   *)
(* the questions asked for are split into slots by type and difficulty,    *)
(* drafts are requested for them with some to spare, and every slot is     *)
(* filled from the drafts that pass the checks.  Pure operators: what the  *)
(* writing and the checking model answer is external.                      *)
(***************************************************************************)
EXTENDS Integers, SequencesExt, FiniteSetsExt, Functions

\* TYPE_ORDER: sections on the paper, objective types first.
TypeOrder == <<"mcq", "true_false", "fill_blank", "short", "long">>
Types == ToSet(TypeOrder)
Rank(type) == CHOOSE i \in DOMAIN TypeOrder : TypeOrder[i] = type

\* _DIFFICULTY_RANK: easy, medium, hard.  A paper asks for one of them or for a mixture.
Levels == 1..3
Mixed == 0

-----------------------------------------------------------------------------
(* Planning.                                                               *)

MixedShare == <<3, 5, 2>>      \* MIXED_SHARES, in tenths
Preference == <<1, 2, 0>>      \* ties go to medium, then easy

\* split_difficulty: every level gets the whole part of its share, and the largest
\* remainders get what is left.
SplitDifficulty(n, level) ==
    LET whole(d) == (n * MixedShare[d]) \div 10
        rest(d) == (n * MixedShare[d]) % 10
        spare == n - (whole(1) + whole(2) + whole(3))
        ahead(d) == {e \in Levels : \/ rest(e) > rest(d)
                                    \/ rest(e) = rest(d) /\ Preference[e] > Preference[d]}
    IN [d \in Levels |->
           IF level = Mixed THEN whole(d) + (IF Cardinality(ahead(d)) < spare THEN 1 ELSE 0)
           ELSE IF d = level THEN n ELSE 0]

\* plan_slots: by type, then from easy to hard.  wanted: how many questions of each type.
PlanSlots(wanted, level) ==
    FlattenSeq([i \in DOMAIN TypeOrder |->
        FlattenSeq([d \in Levels |->
            [k \in 1..SplitDifficulty(wanted[TypeOrder[i]], level)[d] |->
                [type |-> TypeOrder[i], level |-> d]]])])

\* write_requests: two fifths more than needed of each kind, and one at the least.
Extra(n) == IF n = 0 THEN 0 ELSE Max({1, (2 * n + 4) \div 5})
WriteRequests(slots) ==
    LET needed(t, d) == Cardinality({i \in DOMAIN slots : slots[i] = [type |-> t, level |-> d]})
    IN [t \in Types |-> [d \in Levels |-> needed(t, d) + Extra(needed(t, d))]]

-----------------------------------------------------------------------------
(* Choosing.  A draft: its text, its type, the level its writer meant, if  *)
(* it is formed as its type demands, and what the checker says of it.      *)

Draft == [text: Nat, type: Types, meant: Levels, formed: BOOLEAN,
          answerable: 0..10, agrees: BOOLEAN, judged: Levels \cup {0}]

AnswerableMin == 6             \* ANSWERABLE_MIN, in tenths

Passes(d) == d.answerable >= AnswerableMin /\ d.agrees

\* generate: the formed drafts, each text once, not one of those to avoid.
Unique(drafts, avoid) ==
    LET kept(i) == /\ drafts[i].formed
                   /\ drafts[i].text \notin avoid
                   /\ \A j \in 1..(i - 1) : drafts[j].formed => drafts[j].text # drafts[i].text
    IN {i \in DOMAIN drafts : kept(i)}

\* What the question is: the checker's verdict over the writer's intent.
LevelOf(d) == IF d.judged = 0 THEN d.meant ELSE d.judged

\* _fit, smaller is better.
Distance(a, b) == IF a > b THEN a - b ELSE b - a
Fit(slot, d) == <<Distance(LevelOf(d), slot.level),
                  IF d.meant = slot.level THEN 0 ELSE 1,
                  10 - d.answerable>>
Worse(f, g) == \/ f[1] > g[1]
               \/ f[1] = g[1] /\ f[2] > g[2]
               \/ f[1] = g[1] /\ f[2] = g[2] /\ f[3] > g[3]

\* select: each slot in print order takes the best draft of its type still left.
Pick(slot, drafts, left) ==
    CHOOSE i \in left : \A j \in left :
        \/ Worse(Fit(slot, drafts[j]), Fit(slot, drafts[i]))
        \/ Fit(slot, drafts[j]) = Fit(slot, drafts[i]) /\ i <= j

Choose(slots, drafts, avoid) ==
    LET pool == {i \in Unique(drafts, avoid) : Passes(drafts[i])}
        take(acc, slot) ==
            LET left == {i \in pool \ ToSet(acc) : drafts[i].type = slot.type}
            IN Append(acc, IF left = {} THEN 0 ELSE Pick(slot, drafts, left))
    IN FoldLeft(take, <<>>, slots)      \* per slot the draft chosen, 0 for none

\* Generation.complete: nothing missing and nothing off its level.
Missing(slots, chosen) == {i \in DOMAIN slots : chosen[i] = 0}
OffLevel(slots, drafts, chosen) ==
    {i \in DOMAIN slots \ Missing(slots, chosen) :
        LevelOf(drafts[chosen[i]]) # slots[i].level}
Complete(slots, drafts, chosen) ==
    Missing(slots, chosen) = {} /\ OffLevel(slots, drafts, chosen) = {}

-----------------------------------------------------------------------------
(* What planning and choosing must come to; an instance assumes it of the    *)
(* inputs it can try, and TLC evaluates it.                                *)

\* A mixed paper splits its questions so that none is lost and each level is within one
\* question of its exact share.
SplitIsFair ==
    \A n \in 0..50 :
        LET split == SplitDifficulty(n, Mixed)
        IN /\ split[1] + split[2] + split[3] = n
           /\ \A d \in Levels : Distance(10 * split[d], n * MixedShare[d]) < 10

\* The answers a writer gives that follows its requests, every draft good.
Answered(slots) ==
    LET asked == WriteRequests(slots)
        kinds == FlattenSeq([i \in DOMAIN TypeOrder |-> FlattenSeq([d \in Levels |->
                    [k \in 1..asked[TypeOrder[i]][d] |-> <<TypeOrder[i], d>>]])])
    IN [i \in DOMAIN kinds |->
          [text |-> i, type |-> kinds[i][1], meant |-> kinds[i][2], formed |-> TRUE,
           answerable |-> 9, agrees |-> TRUE, judged |-> 0]]

\* A paper whose writer delivers what it was asked for is complete, and stays complete
\* of its types when any one of the drafts fails its check: the request has one to spare.
RequestsSuffice(Wanted) ==
    \A wanted \in Wanted, level \in Levels \cup {Mixed} :
        LET slots == PlanSlots(wanted, level)
            drafts == Answered(slots)
        IN /\ Len(slots) = SumFunction(wanted)
           /\ Complete(slots, drafts, Choose(slots, drafts, {}))
           /\ \A i \in DOMAIN drafts :
                 LET spoiled == [drafts EXCEPT ![i].answerable = 0]
                 IN Missing(slots, Choose(slots, spoiled, {})) = {}

\* No slot stays empty while a good draft of its type is left over, and no draft or text
\* is printed twice: for each type the greedy choice fills as many slots as any could.
\* Of drafts with one text the first speaks for all of them.
NothingGoodIsLeft(Slots, Drafts) ==
    \A slots \in Slots, drafts \in Drafts :
        LET chosen == Choose(slots, drafts, {})
            used == ToSet(chosen) \ {0}
            first(i) == \A j \in 1..(i - 1) :
                           drafts[j].formed => drafts[j].text # drafts[i].text
            texts(t) == {drafts[i].text : i \in {k \in DOMAIN drafts :
                           /\ drafts[k].type = t /\ drafts[k].formed /\ first(k)
                           /\ Passes(drafts[k])}}
        IN /\ Cardinality({drafts[i].text : i \in used}) = Cardinality({s \in DOMAIN slots : chosen[s] # 0})
           /\ \A t \in Types :
                 Cardinality({s \in DOMAIN slots : chosen[s] # 0 /\ slots[s].type = t})
                    = Min({Cardinality({s \in DOMAIN slots : slots[s].type = t}),
                           Cardinality(texts(t))})
=============================================================================
