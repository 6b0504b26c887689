----------------------------- MODULE MCDecision -----------------------------
(* Model checking of Decision: rules, results and scores around the        *)
(* thresholds 40, 70 and 100 of config.py.                                 *)
EXTENDS Decision

CONSTANTS c1, c2

TwoCalls == {c1, c2}

Fires(action, value) == [action |-> action, value |-> value]

SampleRules == {Fires("block", 0), Fires("block", 90), Fires("allow", 0),
                Fires("verify", 0), Fires("verify", 60),
                Fires("score_adjustment", 35), Fires("score_adjustment", -50)}

\* Every list of at most two of them for one call, a block rule for the other.
ManyLists == UNION {[1..n -> SampleRules] : n \in 0..2}
FewLists == {<<Fires("block", 0)>>}
MCRuleLists == [c \in TwoCalls |-> IF c = c1 THEN ManyLists ELSE FewLists]

Result(adjustment, actions, decision) ==
    [adjustment |-> adjustment, actions |-> actions, decision |-> decision]

\* A client's result need not be one the rule engine can produce.
AnyResults == {Result(a, acts, d) : a \in {-40, 71}, acts \in SUBSET Actions,
                                    d \in Decisions}
FewResults == {Result(0, {}, "block")}
MCClientResults == [c \in TwoCalls |-> IF c = c1 THEN AnyResults ELSE FewResults]

MCClientFlaws == [c \in TwoCalls |-> IF c = c1 THEN {"none"} ELSE Flaws]

MCBaseScores == {-30, 40, 41, 70, 71, 130}
Blends == {0, 41, 71}
=============================================================================
