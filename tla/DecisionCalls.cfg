SPECIFICATION Spec
CONSTANTS
    c1 = c1
    c2 = c2
    Calls <- TwoCalls
    NoCall = NoCall
    RuleLists <- MCRuleLists
    ClientResults <- MCClientResults
    ClientFlaws <- MCClientFlaws
    BaseScores <- MCBaseScores
    ModelScores <- Blends
    ApproveThreshold = 40
    VerifyThreshold = 70
    BlockThreshold = 100
    Oversize = {c2}
    Overrides = TRUE
    MaxFaults = 2
INVARIANTS
    ScoreMatchesDecision
    BlockRuleDecides
    VerifyRuleHolds
    OneBlockRow
    BlockLeavesRow
    OneFaultIsAbsorbed
CHECK_DEADLOCK FALSE
