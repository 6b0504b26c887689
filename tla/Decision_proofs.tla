--------------------------- MODULE Decision_proofs ---------------------------
(***************************************************************************)
(* Proofs about Decision, for every set of calls, rule lists, results,     *)
(* scores and thresholds, and any number of faults.                        *)
(***************************************************************************)
EXTENDS Decision, TLAPS

-----------------------------------------------------------------------------
(* What the helpers compute. *)

\* A score and a decision that tell the same story and obey the rules' result.
Verdict(score, decision, result) ==
    /\ score \in 0..100
    /\ decision \in Decisions
    /\ decision = Determine(score)
    /\ Blocks(result) => decision = "block"
    /\ Verifies(result) /\ decision = "approve" => Allows(result)

(* A clamped score is a score. *)
LEMMA ClampFacts ==
    ASSUME NEW raw \in Int
    PROVE  Clamp(raw) \in 0..100
  BY DEF Clamp, Least, Most

(* The override of a score's own decision is a verdict. *)
LEMMA OverrideFacts ==
    ASSUME NEW score \in 0..100, NEW result \in RuleResult
    PROVE  LET v == Override(score, Determine(score), result)
           IN  Verdict(v.score, v.decision, result)
<1> DEFINE v == Override(score, Determine(score), result)
<1>1. CASE Blocks(result)
  <2>1. v = [score |-> Most(score, BlockThreshold), decision |-> "block"]
    BY <1>1 DEF Override
  <2>2. v.score = Most(score, BlockThreshold) /\ v.decision = "block"
    BY <2>1
  <2>3. QED
    BY <1>1, <2>2, ThresholdsAssumption DEF Verdict, Determine, Most, Decisions
<1>2. CASE ~Blocks(result) /\ Verifies(result) /\ Determine(score) # "block"
  <2>1. v = [score |-> Most(score, ApproveThreshold + 1), decision |-> "verify"]
    BY <1>2 DEF Override
  <2>2. v.score = Most(score, ApproveThreshold + 1) /\ v.decision = "verify"
    BY <2>1
  <2>3. QED
    BY <1>2, <2>2, ThresholdsAssumption DEF Verdict, Determine, Most, Decisions
<1>3. CASE /\ ~Blocks(result) /\ ~(Verifies(result) /\ Determine(score) # "block")
           /\ Allows(result)
  <2>1. v = [score |-> Least(score, ApproveThreshold), decision |-> "approve"]
    BY <1>3 DEF Override
  <2>2. v.score = Least(score, ApproveThreshold) /\ v.decision = "approve"
    BY <2>1
  <2>3. QED
    BY <1>3, <2>2, ThresholdsAssumption DEF Verdict, Determine, Least, Decisions
<1>4. CASE /\ ~Blocks(result) /\ ~(Verifies(result) /\ Determine(score) # "block")
           /\ ~Allows(result)
  <2>1. v = [score |-> score, decision |-> Determine(score)]
    BY <1>4 DEF Override
  <2>2. v.score = score /\ v.decision = Determine(score)
    BY <2>1
  <2>3. Determine(score) \in Decisions
    BY DEF Determine, Decisions
  <2>4. Verifies(result) => Determine(score) # "approve"
    BY <1>4
  <2>5. QED
    BY <1>4, <2>2, <2>3, <2>4 DEF Verdict
<1>5. QED
  BY <1>1, <1>2, <1>3, <1>4

(* So is the fallback's answer. *)
LEMMA FallbackFacts ==
    ASSUME NEW result \in RuleResult
    PROVE  LET v == FallbackFrom(result)
           IN  Verdict(v.score, v.decision, result)
<1> DEFINE v == FallbackFrom(result)
<1>1. CASE Blocks(result)
  <2>1. v = [score |-> Most(VerifyThreshold + 1, BlockThreshold), decision |-> "block"]
    BY <1>1 DEF FallbackFrom
  <2>2. v.score = BlockThreshold /\ v.decision = "block"
    BY <2>1, ThresholdsAssumption DEF Most
  <2>3. QED
    BY <1>1, <2>2, ThresholdsAssumption DEF Verdict, Determine, Decisions
<1>2. CASE ~Blocks(result) /\ Verifies(result)
  <2>1. v = [score |-> ApproveThreshold + 1, decision |-> "verify"]
    BY <1>2 DEF FallbackFrom
  <2>2. QED
    BY <1>2, <2>1, ThresholdsAssumption DEF Verdict, Determine, Decisions
<1>3. CASE ~Blocks(result) /\ ~Verifies(result) /\ Allows(result)
  <2>1. v = [score |-> ApproveThreshold, decision |-> "approve"]
    BY <1>3 DEF FallbackFrom
  <2>2. QED
    BY <1>3, <2>1, ThresholdsAssumption DEF Verdict, Determine, Decisions
<1>4. CASE ~Blocks(result) /\ ~Verifies(result) /\ ~Allows(result)
  <2>1. v = [score |-> 50, decision |-> "verify"]
    BY <1>4 DEF FallbackFrom
  <2>2. QED
    BY <1>4, <2>1, ThresholdsAssumption DEF Verdict, Determine, Decisions
<1>5. QED
  BY <1>1, <1>2, <1>3, <1>4

(* A rule that fires adds its action to the result. *)
LEMMA EffectFacts ==
    ASSUME NEW result \in RuleResult, NEW rule \in Rule
    PROVE  /\ Effect(result, rule) \in RuleResult
           /\ Effect(result, rule).actions = result.actions \union {rule.action}
<1>1. ASSUME NEW points \in Int, NEW decision \in Decisions,
             Effect(result, rule) =
               [adjustment |-> result.adjustment + points,
                actions |-> result.actions \union {rule.action},
                decision |-> decision]
      PROVE  /\ Effect(result, rule) \in RuleResult
             /\ Effect(result, rule).actions = result.actions \union {rule.action}
  <2>1. result.adjustment + points \in Int
    BY DEF RuleResult
  <2>2. result.actions \union {rule.action} \in SUBSET Actions
    BY DEF RuleResult, Rule
  <2>3. QED
    BY <1>1, <2>1, <2>2 DEF RuleResult
<1>2. /\ rule.action \in Actions /\ rule.value \in Int
      /\ result.decision \in Decisions
  BY DEF Rule, RuleResult
<1>3. CASE rule.action = "block"
  <2>1. Most(rule.value, VerifyThreshold + 1) \in Int
    BY <1>2, ThresholdsAssumption DEF Most
  <2>2. QED
    BY <1>1, <1>3, <2>1 DEF Effect, Decisions
<1>4. CASE rule.action = "allow"
  <2>1. /\ Effect(result, rule) = [adjustment |-> result.adjustment + 0,
                                   actions |-> result.actions \union {rule.action},
                                   decision |-> "approve"]
        /\ "approve" \in Decisions
    BY <1>4, Zenon DEF Effect, Decisions
  <2>2. QED
    BY <1>1, <2>1
<1>5. CASE rule.action = "verify"
  <2>1. Most(rule.value, ApproveThreshold + 1) \in Int
    BY <1>2, ThresholdsAssumption DEF Most
  <2>2. QED
    BY <1>1, <1>5, <2>1 DEF Effect, Decisions
<1>6. CASE rule.action = "score_adjustment"
  BY <1>1, <1>2, <1>6 DEF Effect
<1>7. QED
  BY <1>2, <1>3, <1>4, <1>5, <1>6 DEF Actions

-----------------------------------------------------------------------------
(* What a call remembers. *)

(* The rules before the next one ended nothing; once the rules are done, a *)
(* block rule that no allow rule preceded is among the actions.            *)
RulesOK(r) ==
    /\ r.pc = "rules" =>
         \A i \in DOMAIN r.rules : i < r.next => ~Final(r.rules[i])
    /\ r.pc # "rules" =>
         \A i \in DOMAIN r.rules :
             (/\ r.rules[i].action = "block"
              /\ \A j \in 1..(i - 1) : r.rules[j].action # "allow")
             => "block" \in r.result.actions

(* Whoever has decided has a verdict. *)
VerdictOK(r) ==
    r.pc \in {"read", "stage", "commit", "done"}
      => Verdict(r.score, r.decision, r.result)

(* Every failure a call has met is a fault, its reason's length or a flaw  *)
(* of the client's result.                                                 *)
FaultsOK(r, n) ==
    /\ r.pc = "fallback" \/ r.retried => n >= 1 \/ r.long \/ r.flaw # "none"
    /\ r.pc = "error" => n >= 2 \/ r.long \/ r.flaw # "none"

CallOK(r, n) == r \in Call /\ RulesOK(r) /\ VerdictOK(r) /\ FaultsOK(r, n)

CallInv == /\ call \in [Calls -> Call]
           /\ status \in Decisions \union {"pending", "missing"}
           /\ faults \in Nat
           /\ \A c \in Calls : CallOK(call[c], faults)

Acts(c) ==
    \/ Ingest(c) \/ Evaluate(c) \/ ApplyRule(c) \/ RulesDone(c)
    \/ Score(c) \/ ScoreFails(c) \/ Fallback(c) \/ FallbackFails(c)
    \/ TransactionMissing(c) \/ ReadTx(c) \/ StageBlock(c) \/ StageAborts(c)
    \/ Commit(c) \/ UpdateFails(c)

(* A fresh call is in order. *)
LEMMA FreshFacts == Fresh \in Call /\ NoResult \in RuleResult
<1>1. NoResult \in RuleResult
  BY DEF NoResult, RuleResult, Decisions
<1>2. 0 \in 0..100 /\ 1 \in Nat \ {0} /\ <<>> \in Seq(Rule)
  OBVIOUS
<1>3. QED
  BY <1>1, <1>2 DEF Fresh, Call, Steps, Decisions, Flaws

(* Whether the reason is long is a truth value. *)
LEMMA LengthsFacts == ASSUME NEW c PROVE Lengths(c) \subseteq BOOLEAN
<1>1. ASSUME NEW b, b = FALSE \/ b = (c \in Oversize)
      PROVE  b \in BOOLEAN
  <2>1. (c \in Oversize) \in BOOLEAN
    OBVIOUS
  <2>2. QED
    BY <1>1, <2>1
<1>2. QED
  BY <1>1, Zenon DEF Lengths

(* Every step of a call changes that call only, and leaves it in order. *)
LEMMA CallStep ==
    ASSUME CallInv, NEW c \in Calls, Acts(c)
    PROVE  /\ call' = [call EXCEPT ![c] = call'[c]]
           /\ faults' \in Nat /\ faults <= faults'
           /\ CallOK(call'[c], faults')
<1> USE DEF CallInv
<1> DEFINE Goal == /\ call' = [call EXCEPT ![c] = call'[c]]
                   /\ faults' \in Nat /\ faults <= faults'
                   /\ CallOK(call'[c], faults')
           r == call[c]
<1>0. r \in Call /\ CallOK(r, faults)
  OBVIOUS
<1>enter. ASSUME NEW s, Enter(c, s), faults' \in Nat, faults <= faults', CallOK(s, faults')
          PROVE  Goal
  BY <1>enter DEF Enter
<1>fault. ASSUME UNCHANGED faults \/ Fault
          PROVE  faults' \in Nat /\ faults <= faults'
  BY <1>fault DEF Fault
<1>1. ASSUME Ingest(c)
      PROVE  Goal
  <2>1. PICK list \in RuleLists[c], long \in Lengths(c) :
          Enter(c, [Fresh EXCEPT !.pc = "rules", !.rules = list, !.long = long])
    BY <1>1 DEF Ingest
  <2>2. list \in Seq(Rule) /\ long \in BOOLEAN
    <3>1. list \in Seq(Rule)
      BY InputsAssumption
    <3>2. long \in BOOLEAN
      BY LengthsFacts
    <3>3. QED
      BY <3>1, <3>2
  <2> DEFINE s == [Fresh EXCEPT !.pc = "rules", !.rules = list, !.long = long]
  <2>3. s \in Call
    BY <2>2, FreshFacts DEF Call, Steps
  <2>4. s.pc = "rules" /\ s.next = 1 /\ s.retried = FALSE /\ s.rules = list
    BY DEF Fresh
  <2>5. \A i \in DOMAIN s.rules : i \in Nat /\ i >= 1
    BY <2>2, <2>4
  <2>6. CallOK(s, faults)
    <3> HIDE DEF s
    <3>1. RulesOK(s)
      BY <2>4, <2>5 DEF RulesOK
    <3>2. QED
      BY <2>3, <2>4, <3>1 DEF CallOK, VerdictOK, FaultsOK
  <2>7. QED
    BY <1>1, <1>enter, <2>1, <2>6 DEF Ingest
<1>2. ASSUME Evaluate(c)
      PROVE  Goal
  <2>1. PICK result \in ClientResults[c], flaw \in ClientFlaws[c], long \in Lengths(c) :
          Enter(c, [Fresh EXCEPT !.pc = "score", !.result = result, !.flaw = flaw, !.long = long])
    BY <1>2 DEF Evaluate
  <2>2. result \in RuleResult /\ flaw \in Flaws /\ long \in BOOLEAN
    <3>1. result \in RuleResult /\ flaw \in Flaws
      BY InputsAssumption
    <3>2. long \in BOOLEAN
      BY LengthsFacts
    <3>3. QED
      BY <3>1, <3>2
  <2> DEFINE s == [Fresh EXCEPT !.pc = "score", !.result = result, !.flaw = flaw, !.long = long]
  <2>3. s \in Call
    BY <2>2, FreshFacts DEF Call, Steps
  <2>4. s.pc = "score" /\ s.retried = FALSE /\ s.rules = <<>>
    BY DEF Fresh
  <2>5. CallOK(s, faults)
    <3> HIDE DEF s
    <3>1. RulesOK(s)
      BY <2>4 DEF RulesOK
    <3>2. QED
      BY <2>3, <2>4, <3>1 DEF CallOK, VerdictOK, FaultsOK
  <2>6. QED
    BY <1>2, <1>enter, <2>1, <2>5 DEF Evaluate
<1>3. ASSUME ApplyRule(c)
      PROVE  Goal
  <2> DEFINE rule == r.rules[r.next]
             s == [r EXCEPT !.result = Effect(r.result, rule),
                            !.next = r.next + 1,
                            !.pc = IF Final(rule) THEN "score" ELSE "rules"]
  <2>1. /\ Enter(c, s) /\ UNCHANGED faults
        /\ r.pc = "rules" /\ r.next <= Len(r.rules)
    BY <1>3 DEF ApplyRule
  <2>2. /\ r.rules \in Seq(Rule) /\ r.next \in Nat /\ r.next >= 1
        /\ r.result \in RuleResult
    BY <1>0 DEF Call
  <2>3. rule \in Rule /\ r.next \in DOMAIN r.rules
    BY <2>1, <2>2
  <2>4. /\ Effect(r.result, rule) \in RuleResult
        /\ Effect(r.result, rule).actions = r.result.actions \union {rule.action}
    BY <2>2, <2>3, EffectFacts
  <2>5. s \in Call
    <3> DEFINE p == IF Final(rule) THEN "score" ELSE "rules"
               e == Effect(r.result, rule)
    <3>1. p \in Steps /\ r.next + 1 \in Nat \ {0} /\ e \in RuleResult
      BY <2>2, <2>4 DEF Steps
    <3> HIDE DEF p, e
    <3>2. [r EXCEPT !.result = e, !.next = r.next + 1, !.pc = p] \in Call
      BY <1>0, <3>1 DEF Call
    <3>3. QED
      BY <3>2 DEF p, e
  <2>6. /\ s.rules = r.rules /\ s.next = r.next + 1
        /\ s.result = Effect(r.result, rule)
        /\ s.pc = (IF Final(rule) THEN "score" ELSE "rules")
        /\ s.retried = r.retried /\ s.long = r.long /\ s.flaw = r.flaw
    BY <1>0 DEF Call
  <2>7. RulesOK(s)
    <3> HIDE DEF s
    <3>0. \A i \in DOMAIN r.rules : i \in Nat /\ i >= 1
      BY <2>2
    <3>1. \A i \in DOMAIN r.rules : i < r.next => ~Final(r.rules[i])
      BY <1>0, <2>1 DEF CallOK, RulesOK
    <3>2. CASE ~Final(rule)
      <4>1. \A i \in DOMAIN r.rules : i < r.next + 1 => i < r.next \/ i = r.next
        BY <2>2, <3>0
      <4>2. QED
        BY <2>6, <3>1, <3>2, <4>1 DEF RulesOK
    <3>3. CASE Final(rule)
      <4> SUFFICES ASSUME NEW i \in DOMAIN r.rules,
                          r.rules[i].action = "block",
                          \A j \in 1..(i - 1) : r.rules[j].action # "allow"
                   PROVE  "block" \in Effect(r.result, rule).actions
        BY <2>6, <3>3 DEF RulesOK
      <4>1. i >= r.next
        BY <2>2, <3>0, <3>1 DEF Final
      <4>2. CASE i = r.next
        BY <2>4, <4>2
      <4>3. CASE i > r.next
        <5>1. r.next \in 1..(i - 1)
          BY <2>2, <3>0, <4>3
        <5>2. rule.action = "block"
          BY <3>3, <5>1 DEF Final
        <5>3. QED
          BY <2>4, <5>2
      <4>4. QED
        BY <2>2, <3>0, <4>1, <4>2, <4>3
    <3>4. QED
      BY <3>2, <3>3
  <2>8. CallOK(s, faults)
    <3> HIDE DEF s
    <3>1. FaultsOK(s, faults)
      BY <1>0, <2>6 DEF CallOK, FaultsOK
    <3>2. QED
      BY <2>5, <2>6, <2>7, <3>1 DEF CallOK, VerdictOK
  <2>9. QED
    <3> HIDE DEF s
    <3> QED  BY <1>enter, <2>1, <2>8
<1>4. ASSUME RulesDone(c)
      PROVE  Goal
  <2> DEFINE s == [r EXCEPT !.pc = "score"]
  <2>1. /\ Enter(c, s) /\ UNCHANGED faults
        /\ r.pc = "rules" /\ r.next > Len(r.rules)
    BY <1>4 DEF RulesDone, Goto
  <2>2. s \in Call /\ s.pc = "score"
        /\ s.rules = r.rules /\ s.retried = r.retried /\ s.long = r.long
        /\ s.flaw = r.flaw
    BY <1>0 DEF Call, Steps
  <2>3. \A i \in DOMAIN r.rules : ~Final(r.rules[i])
    <3>1. r.rules \in Seq(Rule) /\ r.next \in Nat
      BY <1>0 DEF Call
    <3>2. \A i \in DOMAIN r.rules : i < r.next
      BY <2>1, <3>1
    <3>3. QED
      BY <1>0, <2>1, <3>2 DEF CallOK, RulesOK
  <2>4. CallOK(s, faults)
    <3> HIDE DEF s
    <3>1. RulesOK(s)
      BY <2>2, <2>3 DEF RulesOK, Final
    <3>2. FaultsOK(s, faults)
      BY <1>0, <2>2 DEF CallOK, FaultsOK
    <3>3. QED
      BY <2>2, <3>1, <3>2 DEF CallOK, VerdictOK
  <2>5. QED
    <3> HIDE DEF s
    <3> QED  BY <1>enter, <2>1, <2>4
\* A call that has its rules behind it keeps them and their result.
<1>on. ASSUME NEW s, s \in Call, Enter(c, s), r.pc \notin {"new", "rules"},
              s.pc \notin {"new", "rules"},
              s.rules = r.rules, s.result = r.result, UNCHANGED faults \/ Fault,
              VerdictOK(s), FaultsOK(s, faults')
       PROVE  Goal
  <2>1. RulesOK(s)
    BY <1>0, <1>on DEF CallOK, RulesOK
  <2>2. QED
    BY <1>enter, <1>fault, <1>on, <2>1 DEF CallOK
<1>5. ASSUME NEW v, Verdict(v.score, v.decision, r.result), UNCHANGED faults,
             r.pc \in {"score", "fallback"},
             \/ r.pc = "score" /\ Enter(c, Decides(r, v))
             \/ r.pc = "fallback" /\ Enter(c, [Decides(r, v) EXCEPT !.retried = TRUE])
      PROVE  Goal
  <2>1. v.score \in 0..100 /\ v.decision \in Decisions
    BY <1>5 DEF Verdict
  <2> DEFINE s == Decides(r, v)
             t == [s EXCEPT !.retried = TRUE]
  <2>2. /\ s \in Call /\ s.pc = "read" /\ s.score = v.score /\ s.decision = v.decision
        /\ s.rules = r.rules /\ s.result = r.result
        /\ s.retried = r.retried /\ s.long = r.long /\ s.flaw = r.flaw
    BY <1>0, <2>1 DEF Decides, Call, Steps
  <2>3. /\ t \in Call /\ t.pc = "read" /\ t.score = v.score /\ t.decision = v.decision
        /\ t.rules = r.rules /\ t.result = r.result /\ t.long = r.long /\ t.flaw = r.flaw
    <3> HIDE DEF s
    <3> QED  BY <2>2 DEF Call
  <2> HIDE DEF s, t
  <2>4. VerdictOK(s) /\ VerdictOK(t)
    BY <1>5, <2>2, <2>3 DEF VerdictOK
  <2>5. FaultsOK(s, faults')
    BY <1>0, <1>5, <2>2 DEF CallOK, FaultsOK
  <2>6. r.pc = "fallback" => FaultsOK(t, faults')
    BY <1>0, <1>5, <2>3 DEF CallOK, FaultsOK
  <2>7. QED
    <3>1. CASE r.pc = "score" /\ Enter(c, s)
      BY <1>on, <1>5, <2>2, <2>4, <2>5, <3>1
    <3>2. CASE r.pc = "fallback" /\ Enter(c, t)
      BY <1>on, <1>5, <2>3, <2>4, <2>6, <3>2
    <3>3. QED
      BY <1>5, <3>1, <3>2 DEF s, t
<1>6. ASSUME Score(c)
      PROVE  Goal
  <2>0. r.result \in RuleResult
    BY <1>0 DEF Call
  <2>1. PICK score \in {Clamp(base + r.result.adjustment) : base \in BaseScores}
                         \union {0} \union ModelScores :
          Enter(c, Decides(r, Override(score, Determine(score), r.result)))
    BY <1>6 DEF Score
  <2>2. score \in 0..100
    <3>1. r.result.adjustment \in Int
      BY <2>0 DEF RuleResult
    <3>2. BaseScores \subseteq Int /\ ModelScores \subseteq 0..100
      BY InputsAssumption
    <3>3. \A base \in BaseScores : Clamp(base + r.result.adjustment) \in 0..100
      <4>1. \A base \in BaseScores : base + r.result.adjustment \in Int
        BY <3>1, <3>2
      <4>2. QED
        BY <4>1, ClampFacts
    <3>4. CASE score \in ModelScores \/ score = 0
      <4>1. 0 \in 0..100
        OBVIOUS
      <4>2. QED
        BY <3>2, <3>4, <4>1, Zenon
    <3>5. CASE \E base \in BaseScores : score = Clamp(base + r.result.adjustment)
      BY <3>3, <3>5
    <3>6. QED
      BY <3>4, <3>5
  <2>3. Verdict(Override(score, Determine(score), r.result).score,
                Override(score, Determine(score), r.result).decision, r.result)
    BY <2>0, <2>2, OverrideFacts
  <2>4. r.pc = "score" /\ UNCHANGED faults
    BY <1>6 DEF Score
  <2>5. QED
    BY <1>5, <2>1, <2>3, <2>4
<1>7. ASSUME Fallback(c)
      PROVE  Goal
  <2>1. Verdict(FallbackFrom(r.result).score, FallbackFrom(r.result).decision, r.result)
    BY <1>0, FallbackFacts DEF Call
  <2>2. /\ r.pc = "fallback" /\ UNCHANGED faults
        /\ Enter(c, [Decides(r, FallbackFrom(r.result)) EXCEPT !.retried = TRUE])
    BY <1>7 DEF Fallback
  <2>3. QED
    BY <1>5, <2>1, <2>2
<1>8. ASSUME ScoreFails(c)
      PROVE  Goal
  <2> DEFINE s == [r EXCEPT !.pc = "fallback"]
  <2>1. /\ s \in Call /\ s.pc = "fallback" /\ s.rules = r.rules /\ s.result = r.result
        /\ s.retried = r.retried /\ s.long = r.long /\ s.flaw = r.flaw
    BY <1>0 DEF Call, Steps
  <2>2. Enter(c, s) /\ r.pc = "score" /\ (Fault \/ (r.flaw # "none" /\ UNCHANGED faults))
    BY <1>8 DEF ScoreFails, Goto
  <2> HIDE DEF s
  <2>3. FaultsOK(s, faults')
    BY <2>1, <2>2 DEF FaultsOK, Fault
  <2>4. QED
    BY <1>on, <2>1, <2>2, <2>3 DEF VerdictOK
<1>9. ASSUME ReadTx(c)
      PROVE  Goal
  <2> DEFINE s == [r EXCEPT !.seen = status, !.adds = FALSE, !.aborted = FALSE,
                            !.pc = IF r.decision = "block" THEN "stage" ELSE "commit"]
  <2>0. status \in Decisions \union {"pending"}
    BY <1>9 DEF ReadTx
  <2>1. /\ s \in Call /\ s.pc \in {"stage", "commit"} /\ s.rules = r.rules
        /\ s.result = r.result /\ s.score = r.score /\ s.decision = r.decision
        /\ s.retried = r.retried /\ s.long = r.long /\ s.flaw = r.flaw
    <3>1. ASSUME NEW p \in {"stage", "commit"},
                 NEW t, t = [r EXCEPT !.seen = status, !.adds = FALSE, !.aborted = FALSE, !.pc = p]
          PROVE  /\ t \in Call /\ t.pc = p /\ t.rules = r.rules
                 /\ t.result = r.result /\ t.score = r.score /\ t.decision = r.decision
                 /\ t.retried = r.retried /\ t.long = r.long /\ t.flaw = r.flaw
      <4>1. r \in Call /\ p \in Steps
        BY <1>0 DEF Steps
      <4>2. t \in Call
        BY <2>0, <3>1, <4>1 DEF Call
      <4>3. QED
        BY <3>1, <4>1, <4>2 DEF Call
    <3>2. CASE r.decision = "block"
      <4>1. s = [r EXCEPT !.seen = status, !.adds = FALSE, !.aborted = FALSE, !.pc = "stage"]
        BY <3>2
      <4> HIDE DEF s
      <4>2. QED
        BY <3>1, <4>1
    <3>3. CASE r.decision # "block"
      <4>1. s = [r EXCEPT !.seen = status, !.adds = FALSE, !.aborted = FALSE, !.pc = "commit"]
        BY <3>3
      <4> HIDE DEF s
      <4>2. QED
        BY <3>1, <4>1
    <3>4. QED
      BY <3>2, <3>3
  <2>2. Enter(c, s) /\ r.pc = "read" /\ UNCHANGED faults
    BY <1>9 DEF ReadTx
  <2> HIDE DEF s
  <2>3. VerdictOK(s) /\ FaultsOK(s, faults')
    BY <1>0, <2>1, <2>2 DEF CallOK, VerdictOK, FaultsOK
  <2>4. QED
    BY <1>on, <2>1, <2>2, <2>3
<1>10. ASSUME StageBlock(c)
       PROVE  Goal
  <2> DEFINE s == [r EXCEPT !.pc = "commit", !.adds = (blocks = 0)]
  <2>1. /\ s \in Call /\ s.pc = "commit" /\ s.rules = r.rules
        /\ s.result = r.result /\ s.score = r.score /\ s.decision = r.decision
        /\ s.retried = r.retried /\ s.long = r.long /\ s.flaw = r.flaw
    BY <1>0 DEF Call, Steps
  <2>2. Enter(c, s) /\ r.pc = "stage" /\ UNCHANGED faults
    BY <1>10 DEF StageBlock
  <2> HIDE DEF s
  <2>3. VerdictOK(s) /\ FaultsOK(s, faults')
    BY <1>0, <2>1, <2>2 DEF CallOK, VerdictOK, FaultsOK
  <2>4. QED
    BY <1>on, <2>1, <2>2, <2>3
<1>10a. ASSUME StageAborts(c)
        PROVE  Goal
  <2> DEFINE s == [r EXCEPT !.pc = "commit", !.aborted = TRUE]
  <2>1. /\ s \in Call /\ s.pc = "commit" /\ s.rules = r.rules
        /\ s.result = r.result /\ s.score = r.score /\ s.decision = r.decision
        /\ s.retried = r.retried /\ s.long = r.long /\ s.flaw = r.flaw
    BY <1>0 DEF Call, Steps
  <2>2. Enter(c, s) /\ r.pc = "stage" /\ Fault
    BY <1>10a DEF StageAborts
  <2> HIDE DEF s
  <2>3. VerdictOK(s) /\ FaultsOK(s, faults')
    BY <1>0, <2>1, <2>2 DEF CallOK, VerdictOK, FaultsOK, Fault
  <2>4. QED
    BY <1>on, <2>1, <2>2, <2>3
\* A call that ends its update: done, or raising for a reason.
<1>11. ASSUME NEW pc \in {"done", "error", "fallback"}, Goto(c, pc),
              r.pc \in {"read", "stage", "commit"},
              UNCHANGED faults \/ Fault,
              pc # "done" => faults' >= 1 \/ r.long \/ r.flaw # "none",
              pc = "error" => r.retried /\ (r.long \/ r.flaw # "none" \/ Fault)
       PROVE  Goal
  <2> DEFINE s == [r EXCEPT !.pc = pc]
  <2>1. /\ s \in Call /\ s.pc = pc /\ s.rules = r.rules
        /\ s.result = r.result /\ s.score = r.score /\ s.decision = r.decision
        /\ s.retried = r.retried /\ s.long = r.long /\ s.flaw = r.flaw
    BY <1>0, <1>11 DEF Call, Steps
  <2>2. Enter(c, s)
    BY <1>11 DEF Goto
  <2> HIDE DEF s
  <2>3. VerdictOK(s)
    BY <1>0, <1>11, <2>1 DEF CallOK, VerdictOK
  <2>4. FaultsOK(s, faults')
    <3>1. r.retried => faults >= 1 \/ r.long \/ r.flaw # "none"
      BY <1>0 DEF CallOK, FaultsOK
    <3>2. QED
      BY <1>11, <2>1, <3>1 DEF FaultsOK, Fault
  <2>5. QED
    BY <1>on, <1>11, <2>1, <2>2, <2>3, <2>4
<1>raise. ASSUME Raise(c), r.pc \in {"read", "stage", "commit"},
                 \/ (r.long \/ r.flaw # "none") /\ UNCHANGED faults
                 \/ Fault
          PROVE  Goal
  <2>1. faults' >= 1 \/ r.long \/ r.flaw # "none"
    BY <1>raise DEF Fault
  <2>2. QED
    BY <1>11, <1>raise, <2>1 DEF Raise
<1>answer. ASSUME Answer(c), r.pc \in {"read", "stage", "commit"}
           PROVE  Goal
  <2>1. CASE Goto(c, "done") /\ UNCHANGED faults
    BY <1>11, <1>answer, <2>1
  <2>2. CASE r.flaw = "list" /\ Raise(c) /\ UNCHANGED faults
    BY <1>raise, <1>answer, <2>2
  <2>3. CASE Fault /\ Raise(c)
    BY <1>raise, <1>answer, <2>3
  <2>4. QED
    BY <1>answer, <2>1, <2>2, <2>3 DEF Answer
<1>12. ASSUME Commit(c) \/ TransactionMissing(c)
       PROVE  Goal
  <2>1. r.pc \in {"read", "commit"} /\ Answer(c)
    BY <1>12 DEF Commit, Apply, TransactionMissing
  <2>2. QED
    BY <1>answer, <2>1
<1>13. ASSUME UpdateFails(c)
       PROVE  Goal
  <2>1. /\ r.pc \in {"read", "stage", "commit"} /\ Raise(c)
        /\ (r.long /\ UNCHANGED faults) \/ Fault
    BY <1>13 DEF UpdateFails
  <2>2. QED
    BY <1>raise, <2>1
<1>13a. ASSUME FallbackFails(c)
        PROVE  Goal
  <2> DEFINE s == [r EXCEPT !.pc = "error"]
  <2>1. /\ s \in Call /\ s.pc = "error" /\ s.rules = r.rules /\ s.result = r.result
        /\ s.retried = r.retried /\ s.long = r.long /\ s.flaw = r.flaw
    BY <1>0 DEF Call, Steps
  <2>2. /\ Enter(c, s) /\ r.pc = "fallback"
        /\ Fault \/ (r.flaw # "none" /\ UNCHANGED faults)
    BY <1>13a DEF FallbackFails, Goto
  <2> HIDE DEF s
  <2>3. FaultsOK(s, faults')
    BY <1>0, <2>1, <2>2 DEF CallOK, FaultsOK, Fault
  <2>4. QED
    BY <1>on, <2>1, <2>2, <2>3 DEF VerdictOK
<1>14. QED
  <2> HIDE DEF Goal
  <2>1. Goal
    BY <1>1, <1>2, <1>3, <1>4, <1>6, <1>7, <1>8, <1>9, <1>10, <1>10a, <1>12, <1>13,
       <1>13a DEF Acts
  <2>2. QED
    BY <2>1 DEF Goal

(* The calls stay in order. *)
LEMMA CallInvStep ==
    ASSUME CallInv, [Next]_vars
    PROVE  CallInv'
<1>1. ASSUME NEW c \in Calls, Acts(c)
      PROVE  CallInv'
  <2>1. /\ call' = [call EXCEPT ![c] = call'[c]]
        /\ faults' \in Nat /\ faults <= faults'
        /\ CallOK(call'[c], faults')
    BY <1>1, CallStep
  <2>2. \A d \in Calls : CallOK(call[d], faults')
    BY <2>1 DEF CallInv, CallOK, FaultsOK
  <2>3. \A d \in Calls : CallOK(call'[d], faults')
    BY <2>1, <2>2 DEF CallInv
  <2>4. call' \in [Calls -> Call]
    BY <2>1 DEF CallInv, CallOK
  <2>5. status' \in Decisions \union {"pending", "missing"}
    <3>1. CASE Commit(c)
      <4>1. call[c].decision \in Decisions
        BY DEF CallInv, Call
      <4>2. QED
        BY <3>1, <4>1 DEF Commit, Apply, CallInv
    <3>2. CASE ~Commit(c)
      <4>1. UNCHANGED status
        BY <1>1, <3>2 DEF Acts, Ingest, Evaluate, ApplyRule, RulesDone, Score,
                          ScoreFails, Fallback, FallbackFails, TransactionMissing,
                          ReadTx, StageBlock, StageAborts, UpdateFails
      <4>2. QED
        BY <4>1 DEF CallInv
    <3>3. QED
      BY <3>1, <3>2
  <2>6. QED
    BY <2>1, <2>3, <2>4, <2>5 DEF CallInv
<1>2. CASE BlockElsewhere
  BY <1>2 DEF BlockElsewhere, CallInv, Decisions
<1>3. CASE UNCHANGED vars
  BY <1>3 DEF vars, CallInv
<1>4. QED
  BY <1>1, <1>2, <1>3 DEF Next, Acts

(* The initial calls are. *)
LEMMA CallInvInit == Init => CallInv
<1> SUFFICES ASSUME Init PROVE CallInv
  OBVIOUS
<1>1. Fresh.pc = "new" /\ Fresh.retried = FALSE /\ Fresh.rules = <<>>
  BY DEF Fresh
<1>2. CallOK(Fresh, 0)
  BY <1>1, FreshFacts DEF CallOK, RulesOK, VerdictOK, FaultsOK
<1>3. QED
  BY <1>2, FreshFacts DEF Init, CallInv

-----------------------------------------------------------------------------
(* The rows of blocked_transactions. *)

SharedOK == /\ blocks \in Nat
            /\ txLock \in Calls \union {NoCall}
            /\ foreign \in BOOLEAN

(* What a call knows of the rows.  A call that has found none holds the    *)
(* row lock until it commits or rolls back, unless the status was blocked  *)
(* before by somebody who leaves no row.                                   *)
RowOK(c, r) ==
    /\ r.pc \in {"stage", "commit"} => status # "missing"
    /\ r.pc = "stage" => r.decision = "block" /\ r.adds = FALSE
    /\ r.pc = "commit" /\ r.decision = "block" => r.adds \/ blocks > 0 \/ r.aborted
    /\ r.pc \in {"stage", "commit"} /\ r.seen = "block" => foreign \/ blocks > 0
    /\ r.pc = "commit" /\ r.adds => foreign \/ (txLock = c /\ blocks = 0)
    /\ r.pc = "done" /\ r.decision = "block" =>
         blocks > 0 \/ status = "missing" \/ r.aborted

RowInv ==
    /\ SharedOK
    /\ status = "block" => foreign \/ blocks > 0
    /\ foreign \/ blocks <= 1
    /\ \A c \in Calls : RowOK(c, call[c])

(* A step of a call that touches neither lock nor rows. *)
LEMMA QuietRowStep ==
    ASSUME CallInv, RowInv, NEW c \in Calls,
           UNCHANGED <<status, blocks, txLock, foreign>>,
           \A d \in Calls : d # c => call'[d] = call[d],
           RowOK(c, call'[c])
    PROVE  RowInv'
  BY DEF RowInv, RowOK, SharedOK

(* Every step keeps what the calls know of the rows true. *)
LEMMA RowStep ==
    ASSUME CallInv, RowInv, [Next]_vars
    PROVE  RowInv'
<1>0. /\ call \in [Calls -> Call] /\ blocks \in Nat
      /\ \A c \in Calls : call[c] \in Call /\ RowOK(c, call[c])
      /\ NoCall \notin Calls
  BY CallsAssumption DEF CallInv, RowInv, SharedOK
<1>1. ASSUME NEW c \in Calls, Acts(c)
      PROVE  RowInv'
  <2> DEFINE r == call[c]
  <2>0. \A d \in Calls : d # c => call'[d] = call[d]
    BY <1>0, <1>1, CallStep
  <2>1. ASSUME UNCHANGED <<status, blocks, txLock, foreign>>,
               call'[c].pc \notin {"stage", "commit", "done"}
        PROVE  RowInv'
    <3>1. RowOK(c, call'[c])
      BY <2>1 DEF RowOK
    <3>2. QED
      BY <2>0, <2>1, <3>1, QuietRowStep
  <2>2. CASE Ingest(c) \/ Evaluate(c)
    <3>1. call'[c].pc \in {"rules", "score"}
      BY <1>0, <2>2 DEF Ingest, Evaluate, Enter, Fresh
    <3>2. QED
      BY <2>1, <2>2, <3>1 DEF Ingest, Evaluate
  <2>3. CASE ApplyRule(c) \/ RulesDone(c) \/ ScoreFails(c) \/ FallbackFails(c)
    <3>1. ASSUME NEW p, NEW q, NEW n, Enter(c, [r EXCEPT !.result = q, !.next = n, !.pc = p])
          PROVE  call'[c].pc = p
      BY <1>0, <3>1 DEF Enter, Call
    <3>2. ASSUME NEW p, Goto(c, p)
          PROVE  call'[c].pc = p
      BY <1>0, <3>2 DEF Goto, Enter, Call
    <3>3. call'[c].pc \in {"rules", "score", "fallback", "error"}
      BY <2>3, <3>1, <3>2 DEF ApplyRule, RulesDone, ScoreFails, FallbackFails
    <3>4. QED
      BY <2>1, <2>3, <3>3 DEF ApplyRule, RulesDone, ScoreFails, FallbackFails
  <2>4. CASE Score(c) \/ Fallback(c)
    <3>1. ASSUME NEW v
          PROVE  /\ Decides(r, v).pc = "read"
                 /\ [Decides(r, v) EXCEPT !.retried = TRUE].pc = "read"
      BY <1>0 DEF Decides, Call
    <3>2. ASSUME NEW v, Enter(c, Decides(r, v))
                        \/ Enter(c, [Decides(r, v) EXCEPT !.retried = TRUE])
          PROVE  call'[c].pc = "read"
      BY <1>0, <3>1, <3>2 DEF Enter
    <3>3. call'[c].pc = "read"
      BY <2>4, <3>2 DEF Score, Fallback
    <3>4. QED
      BY <2>1, <2>4, <3>3 DEF Score, Fallback
  <2>5. CASE ReadTx(c)
    <3>1. PICK s : s = call'[c]
      OBVIOUS
    <3>2. /\ s.seen = status /\ s.adds = FALSE /\ s.decision = r.decision
          /\ s.pc = IF r.decision = "block" THEN "stage" ELSE "commit"
          /\ status # "missing"
      BY <1>0, <2>5, <3>1 DEF ReadTx, Enter, Call
    <3>3. RowOK(c, s)
      BY <3>2 DEF RowOK, RowInv
    <3>4. QED
      BY <2>0, <2>5, <3>1, <3>3, QuietRowStep DEF ReadTx
  <2>6. CASE StageBlock(c)
    <3>1. PICK s : s = call'[c]
      OBVIOUS
    <3>2. /\ s.pc = "commit" /\ (s.adds <=> blocks = 0)
          /\ s.seen = r.seen /\ s.decision = r.decision /\ s.aborted = r.aborted
          /\ r.pc = "stage" /\ UNCHANGED <<status, blocks, foreign>>
      <4>1. PICK b \in BOOLEAN : b = (blocks = 0)
        BY Zenon
      <4>2. s = [r EXCEPT !.pc = "commit", !.adds = b]
        <5>1. s = [r EXCEPT !.pc = "commit", !.adds = (blocks = 0)]
          BY <1>0, <2>6, <3>1 DEF StageBlock, Enter
        <5>2. QED
          BY <4>1, <5>1, Zenon
      <4>3. s.pc = "commit" /\ s.adds = b /\ s.seen = r.seen /\ s.decision = r.decision
            /\ s.aborted = r.aborted
        BY <1>0, <4>2 DEF Call
      <4>4. r.pc = "stage" /\ UNCHANGED <<status, blocks, foreign>>
        BY <2>6 DEF StageBlock
      <4>5. s.adds <=> blocks = 0
        BY <4>1, <4>3, Zenon
      <4>6. QED
        BY <4>3, <4>4, <4>5
    <3>3. \/ r.seen = "block" /\ UNCHANGED txLock
          \/ txLock = NoCall /\ txLock' = c
      BY <2>6 DEF StageBlock
    <3>4. RowOK(c, s)'
      BY <1>0, <3>2, <3>3 DEF RowOK
    <3>5. \A d \in Calls : d # c => RowOK(d, call[d])'
      BY <1>0, <2>0, <3>2, <3>3 DEF RowOK
    <3>6. \A d \in Calls : RowOK(d, call[d])'
      BY <3>1, <3>4, <3>5 DEF RowOK
    <3>7. txLock' \in Calls \union {NoCall}
      BY <3>3 DEF RowInv, SharedOK
    <3>8. QED
      BY <3>2, <3>6, <3>7 DEF RowInv, SharedOK
  <2>unlock. ASSUME Unlock(c)
             PROVE  /\ txLock' \in Calls \union {NoCall}
                    /\ \A d \in Calls : d # c /\ txLock = d => txLock' = d
    BY <2>unlock DEF Unlock, RowInv, SharedOK
  <2>goto. ASSUME NEW p, Goto(c, p)
           PROVE  /\ call'[c].pc = p /\ call'[c].decision = r.decision
                  /\ call'[c].aborted = r.aborted
    BY <1>0, <2>goto DEF Goto, Enter, Call
  <2>6a. CASE StageAborts(c)
    <3>1. PICK s : s = call'[c]
      OBVIOUS
    <3>2. /\ s.pc = "commit" /\ s.aborted = TRUE /\ s.seen = r.seen /\ s.adds = r.adds
          /\ r.pc = "stage" /\ UNCHANGED <<status, blocks, txLock, foreign>>
      BY <1>0, <2>6a, <3>1 DEF StageAborts, Enter, Call
    <3>3. RowOK(c, s)
      BY <1>0, <3>2 DEF RowOK
    <3>4. QED
      BY <2>0, <3>1, <3>2, <3>3, QuietRowStep
  <2>raise. ASSUME Raise(c)
            PROVE  call'[c].pc \in {"error", "fallback"}
    <3>1. \E p \in {"error", "fallback"} : Goto(c, p)
      BY <2>raise DEF Raise
    <3>2. QED
      BY <3>1, <2>goto
  <2>answer. ASSUME Answer(c)
             PROVE  \/ /\ call'[c].pc = "done" /\ call'[c].decision = r.decision
                       /\ call'[c].aborted = r.aborted
                    \/ call'[c].pc \in {"error", "fallback"}
    BY <2>answer, <2>goto, <2>raise DEF Answer
  <2>6b. CASE TransactionMissing(c)
    <3>1. UNCHANGED <<status, blocks, txLock, foreign>> /\ status = "missing"
      BY <2>6b DEF TransactionMissing
    <3>2. RowOK(c, call'[c])
      BY <2>6b, <2>answer, <3>1 DEF TransactionMissing, RowOK
    <3>3. QED
      BY <2>0, <3>1, <3>2, QuietRowStep
  <2>7. CASE Commit(c)
    <3>1. /\ r.pc = "commit" /\ Unlock(c) /\ UNCHANGED foreign
          /\ status' = IF Changes(r) THEN r.decision ELSE status
          /\ blocks' = IF r.adds THEN blocks + 1 ELSE blocks
      BY <2>7 DEF Commit, Apply
    <3>2. \/ /\ call'[c].pc = "done" /\ call'[c].decision = r.decision
             /\ call'[c].aborted = r.aborted
          \/ call'[c].pc \in {"error", "fallback"}
      BY <2>7, <2>answer DEF Commit
    <3>3. r.decision = "block" => blocks' > 0 \/ r.aborted
      BY <1>0, <3>1 DEF RowOK
    <3>3a. status # "missing" /\ status' # "missing"
      <4>1. status # "missing"
        BY <1>0, <3>1 DEF RowOK
      <4>2. r.decision # "missing"
        BY <1>0 DEF Call, Decisions
      <4>3. QED
        BY <3>1, <4>1, <4>2
    <3>4. foreign \/ blocks' <= 1
      BY <1>0, <3>1 DEF RowOK, RowInv
    <3>5. status' = "block" => foreign \/ blocks' > 0
      BY <1>0, <3>1, <3>3 DEF RowInv, Changes
    <3>6. RowOK(c, call[c])'
      BY <3>2, <3>3, <3>3a DEF RowOK
    <3>7. \A d \in Calls : d # c => RowOK(d, call[d])'
      <4>1. ASSUME NEW d \in Calls, d # c, NEW s, s = call[d]
            PROVE  RowOK(d, s)'
        <5>1. RowOK(d, s) /\ RowOK(c, r)
          BY <1>0, <4>1
        <5>2. s.pc = "commit" /\ s.adds /\ ~foreign => UNCHANGED <<blocks, txLock>>
          BY <1>0, <3>1, <4>1, <5>1, <2>unlock DEF RowOK
        <5>3. blocks > 0 => blocks' > 0
          BY <1>0, <3>1
        <5>4. UNCHANGED foreign
          BY <3>1
        <5> HIDE DEF r
        <5>5. QED
          BY <5>1, <5>2, <5>3, <5>4, <3>3a DEF RowOK
      <4>2. QED
        BY <2>0, <4>1 DEF RowOK
    <3>8. \A d \in Calls : RowOK(d, call[d])'
      BY <3>6, <3>7
    <3>9. SharedOK'
      BY <1>0, <3>1, <2>unlock DEF SharedOK, RowInv
    <3>10. QED
      BY <3>1, <3>4, <3>5, <3>8, <3>9 DEF RowInv
  <2>8. CASE UpdateFails(c)
    <3>1. Unlock(c) /\ UNCHANGED <<status, blocks, foreign>>
      BY <2>8 DEF UpdateFails
    <3>2. call'[c].pc \in {"error", "fallback"}
      BY <2>8, <2>raise DEF UpdateFails
    <3>3. RowOK(c, call[c])'
      BY <3>2 DEF RowOK
    <3>4. \A d \in Calls : d # c => RowOK(d, call[d])'
      BY <1>0, <2>0, <3>1, <2>unlock DEF RowOK
    <3>5. \A d \in Calls : RowOK(d, call[d])'
      BY <3>3, <3>4
    <3>6. QED
      BY <3>1, <3>5, <2>unlock DEF RowInv, SharedOK
  <2>9. QED
    BY <1>1, <2>2, <2>3, <2>4, <2>5, <2>6, <2>6a, <2>6b, <2>7, <2>8 DEF Acts
<1>2. CASE BlockElsewhere
  <2>1. foreign' /\ foreign' \in BOOLEAN
    BY <1>2, Zenon DEF BlockElsewhere
  <2>2. UNCHANGED <<blocks, txLock, call>> /\ status # "missing" /\ status' # "missing"
    BY <1>2 DEF BlockElsewhere
  <2>3. \A c \in Calls : RowOK(c, call[c])'
    BY <1>0, <2>1, <2>2 DEF RowOK
  <2>4. QED
    BY <2>1, <2>2, <2>3 DEF RowInv, SharedOK
<1>3. CASE UNCHANGED vars
  <2>1. \A c \in Calls : RowOK(c, call[c])'
    BY <1>0, <1>3 DEF vars, RowOK
  <2>2. QED
    BY <1>3, <2>1 DEF vars, RowInv, SharedOK
<1>4. QED
  BY <1>1, <1>2, <1>3 DEF Next, Acts

(* The initial state has no rows. *)
LEMMA RowInit == Init => RowInv
<1> SUFFICES ASSUME Init PROVE RowInv
  OBVIOUS
<1>1. foreign \in BOOLEAN /\ blocks = 0 /\ txLock = NoCall /\ status # "block"
  BY Zenon DEF Init
<1>2. \A c \in Calls : call[c].pc = "new"
  BY DEF Init, Fresh
<1>3. QED
  BY <1>1, <1>2 DEF RowInv, SharedOK, RowOK

(* The inductive invariant. *)
LEMMA Invariant == Spec => [](CallInv /\ RowInv)
<1>1. CallInv /\ RowInv /\ [Next]_vars => CallInv' /\ RowInv'
  BY CallInvStep, RowStep
<1>2. QED
  BY CallInvInit, RowInit, <1>1, PTL DEF Spec

(* Every reachable state has the declared types. *)
THEOREM TypeCorrect == Spec => []TypeOK
<1>1. CallInv /\ RowInv => TypeOK
  BY DEF CallInv, RowInv, SharedOK, TypeOK
<1>2. QED
  BY Invariant, <1>1, PTL

(* The score and the decision of every call tell the same story.           *)
THEOREM ScoresMatch == Spec => []ScoreMatchesDecision
<1>1. CallInv => ScoreMatchesDecision
  BY DEF CallInv, CallOK, VerdictOK, Verdict, ScoreMatchesDecision, Decided
<1>2. QED
  BY Invariant, <1>1, PTL

(* A block rule that no allow rule precedes decides, whatever the rules,   *)
(* the models and the thresholds are and whatever fails.                   *)
THEOREM BlockRulesDecide == Spec => []BlockRuleDecides
<1>1. CallInv => BlockRuleDecides
  BY DEF CallInv, CallOK, RulesOK, VerdictOK, Verdict, Blocks, BlockRuleDecides, Decided
<1>2. QED
  BY Invariant, <1>1, PTL

(* A transaction for which a verify rule fired is approved only if an      *)
(* allow rule fired too.                                                   *)
THEOREM VerifyRulesHold == Spec => []VerifyRuleHolds
<1>1. CallInv => VerifyRuleHolds
  BY DEF CallInv, CallOK, VerdictOK, Verdict, VerifyRuleHolds, Decided
<1>2. QED
  BY Invariant, <1>1, PTL

(* Concurrent calls leave at most one row in blocked_transactions, as long *)
(* as only they block the transaction.                                     *)
THEOREM OneRow == Spec => []OneBlockRow
<1>1. RowInv => OneBlockRow
  BY DEF RowInv, OneBlockRow
<1>2. QED
  BY Invariant, <1>1, PTL

(* Every call that answered block leaves one, its own or an earlier one,   *)
(* unless there is no transaction or an ignored failure undid the update.  *)
THEOREM BlocksLeaveRow == Spec => []BlockLeavesRow
<1>1. RowInv => BlockLeavesRow
  BY DEF RowInv, RowOK, BlockLeavesRow
<1>2. QED
  BY Invariant, <1>1, PTL

(* One failure never reaches a caller whose rule result is well formed.    *)
THEOREM FaultsAbsorbed == Spec => []OneFaultIsAbsorbed
<1>1. CallInv => OneFaultIsAbsorbed
  BY DEF CallInv, CallOK, FaultsOK, OneFaultIsAbsorbed
<1>2. QED
  BY Invariant, <1>1, PTL
=============================================================================
