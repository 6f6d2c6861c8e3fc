---------------------------- MODULE MCTestPapers ----------------------------
(* An instance of TestPapers, and PaperPlan on all inputs up to a size.    *)
EXTENDS TestPapers

\* One multiple-choice question and one long one, both of medium difficulty.
OneOfEach == <<[type |-> "mcq", level |-> 2], [type |-> "long", level |-> 2]>>

Good(text, type, level) ==
    [text |-> text, type |-> type, meant |-> level, formed |-> TRUE,
     answerable |-> 9, agrees |-> TRUE, judged |-> 0]

\* The models answer nothing of use, half of it, all of it, or all of it off its level.
Attempts == {<<>>, <<Good(1, "long", 2)>>,
             <<Good(1, "mcq", 2), Good(2, "long", 2)>>,
             <<Good(1, "mcq", 2), Good(2, "long", 3)>>}

\* Counts of two types up to three each.
FewOfTwo == {[t \in Types |-> IF t = "mcq" THEN m ELSE IF t = "long" THEN l ELSE 0] :
                m \in 0..3, l \in 0..3}

\* Up to three slots of two types and any level.
Slot == [type : {"mcq", "long"}, level : {1, 3}]
UpToThreeSlots == BoundedSeq(Slot, 3)

\* Up to two drafts that differ in text, type, level, form and verdict.
SomeDraft == {[text |-> x, type |-> t, meant |-> l, formed |-> f, answerable |-> a,
               agrees |-> TRUE, judged |-> 0] :
                x \in {1, 2, 3}, t \in {"mcq", "long"}, l \in {1, 3}, f \in {TRUE},
                a \in {5, 6}}
UpToTwoDrafts == BoundedSeq(SomeDraft, 2)
ASSUME PlansHold == /\ SplitIsFair
                    /\ RequestsSuffice(FewOfTwo)
                    /\ NothingGoodIsLeft(UpToThreeSlots, UpToTwoDrafts)
=============================================================================
