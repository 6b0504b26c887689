------------------------------ MODULE Decision ------------------------------
(***************************************************************************)
(* One transaction and the calls that decide it                            *)
(* (backend/app/services/rule_engine.py evaluate_transaction,              *)
(* decision_engine.py make_decision and blocked_transaction_repository.py).*)
(*                                                                         *)
(* A call is an ingest, or a POST /decisions/evaluate with a rule result   *)
(* of the client's own.  The rules of a call are those whose conditions    *)
(* match, in priority order.  Scores are integers: int() truncates the     *)
(* float before anything compares it.                                      *)
(***************************************************************************)
EXTENDS Integers, Sequences

CONSTANTS
    Calls,             \* make_decision calls on the transaction
    NoCall,            \* nobody holds the transaction's row lock
    RuleLists,         \* for each call, matching rules an ingest may meet
    ClientResults,     \* for each call, rule results of an evaluate request
    ClientFlaws,       \* for each call, how such a result may be malformed
    BaseScores,        \* scores of the features before the rules
    ModelScores,       \* blended scores when the models are loaded
    ApproveThreshold, VerifyThreshold, BlockThreshold,
    Oversize,          \* calls whose reason may exceed blocked_transactions.reason
    Overrides,         \* whether others set the status to block meanwhile
    MaxFaults          \* bound: exceptions from scoring, Redis or the database

Actions == {"block", "allow", "verify", "score_adjustment"}
Decisions == {"approve", "verify", "block"}
Rule == [action: Actions, value: Int]
RuleResult == [adjustment: Int, actions: SUBSET Actions, decision: Decisions]

\* Nobody validates a client's rule result (decisions.py:38): its adjustment may be
\* no number, its actions no collection, the names of its rules not joinable, or
\* joinable and no list, which only the Decision object finds out.
Flaws == {"none", "adjustment", "actions", "names", "list"}

ASSUME CallsAssumption == NoCall \notin Calls /\ Oversize \subseteq Calls
ASSUME InputsAssumption ==
    /\ \A c \in Calls : RuleLists[c] \subseteq Seq(Rule)
    /\ \A c \in Calls : ClientResults[c] \subseteq RuleResult
    /\ \A c \in Calls : ClientFlaws[c] \subseteq Flaws
    /\ BaseScores \subseteq Int
    /\ ModelScores \subseteq 0..100
    /\ Overrides \in BOOLEAN
    /\ MaxFaults \in Nat

\* The fallback answers 50, verify, whatever the thresholds are set to.
ASSUME ThresholdsAssumption ==
    /\ ApproveThreshold \in 0..49
    /\ VerifyThreshold \in 50..99
    /\ BlockThreshold \in (VerifyThreshold + 1)..100

VARIABLES
    status,     \* transactions.status, as committed; "missing" without a row
    blocks,     \* number of rows in blocked_transactions
    txLock,     \* holder of the transaction's row lock
    call,       \* what each call is doing and what it remembers
    foreign,    \* history: someone else has set the status to block
    faults      \* faults so far

vars == <<status, blocks, txLock, call, foreign, faults>>

Steps == {"new", "rules", "score", "read", "stage", "commit",
          "fallback", "done", "error"}

NoResult == [adjustment |-> 0, actions |-> {}, decision |-> "approve"]

Fresh == [pc |-> "new", rules |-> <<>>, next |-> 1, result |-> NoResult,
          score |-> 0, decision |-> "approve", seen |-> "pending",
          adds |-> FALSE, aborted |-> FALSE, long |-> FALSE, flaw |-> "none",
          retried |-> FALSE]

Init ==
    /\ status \in {"pending", "missing"}
    /\ blocks = 0
    /\ txLock = NoCall
    /\ call = [c \in Calls |-> Fresh]
    /\ foreign = FALSE
    /\ faults = 0

Enter(c, r) == call' = [call EXCEPT ![c] = r]
Goto(c, pc) == Enter(c, [call[c] EXCEPT !.pc = pc])
Fault == faults < MaxFaults /\ faults' = faults + 1

Least(a, b) == IF a <= b THEN a ELSE b
Most(a, b) == IF a >= b THEN a ELSE b

-----------------------------------------------------------------------------
(* evaluate_transaction *)

\* Whether the reason of the call will be longer than its column.
Lengths(c) == {FALSE, (c \in Oversize)}

\* The ingest inserted the transaction before.
Ingest(c) ==
    /\ call[c].pc = "new" /\ status # "missing"
    /\ \E list \in RuleLists[c], long \in Lengths(c) :
         Enter(c, [Fresh EXCEPT !.pc = "rules", !.rules = list, !.long = long])
    /\ UNCHANGED <<status, blocks, txLock, foreign, faults>>

(* POST /decisions/evaluate: the rule result comes with the request.       *)
Evaluate(c) ==
    /\ call[c].pc = "new"
    /\ \E result \in ClientResults[c], flaw \in ClientFlaws[c], long \in Lengths(c) :
         Enter(c, [Fresh EXCEPT !.pc = "score", !.result = result, !.flaw = flaw, !.long = long])
    /\ UNCHANGED <<status, blocks, txLock, foreign, faults>>

\* What one matching rule does to the result.
Effect(result, rule) ==
    LET fired(points, decision) ==
          [adjustment |-> result.adjustment + points,
           actions |-> result.actions \union {rule.action},
           decision |-> decision]
    IN  CASE rule.action = "block" ->
               fired(Most(rule.value, VerifyThreshold + 1), "block")
          [] rule.action = "allow" -> fired(0, "approve")
          [] rule.action = "verify" ->
               fired(Most(rule.value, ApproveThreshold + 1), "verify")
          [] OTHER -> fired(rule.value, result.decision)

Final(rule) == rule.action \in {"block", "allow"}

(* The loop body: a block or allow rule ends the loop.                     *)
ApplyRule(c) ==
    LET r == call[c]
        rule == r.rules[r.next]
    IN  /\ r.pc = "rules"
        /\ r.next <= Len(r.rules)
        /\ Enter(c, [r EXCEPT !.result = Effect(r.result, rule),
                              !.next = r.next + 1,
                              !.pc = IF Final(rule) THEN "score" ELSE "rules"])
        /\ UNCHANGED <<status, blocks, txLock, foreign, faults>>

RulesDone(c) ==
    /\ call[c].pc = "rules"
    /\ call[c].next > Len(call[c].rules)
    /\ Goto(c, "score")
    /\ UNCHANGED <<status, blocks, txLock, foreign, faults>>

-----------------------------------------------------------------------------
(* make_decision *)

Clamp(raw) == Most(0, Least(100, raw))

Determine(score) ==
    CASE score <= ApproveThreshold -> "approve"
      [] score > ApproveThreshold /\ score <= VerifyThreshold -> "verify"
      [] OTHER -> "block"

Blocks(result) == "block" \in result.actions \/ result.decision = "block"
Verifies(result) == "verify" \in result.actions \/ result.decision = "verify"
Allows(result) == "allow" \in result.actions

\* Mutant: a block rule leaves the score as it is.
Override_KeepsScore(score, decision, result) ==
    IF Blocks(result)
    THEN [score |-> score, decision |-> "block"]
    ELSE IF Verifies(result) /\ decision # "block"
    THEN [score |-> Most(score, ApproveThreshold + 1), decision |-> "verify"]
    ELSE IF Allows(result)
    THEN [score |-> Least(score, ApproveThreshold), decision |-> "approve"]
    ELSE [score |-> score, decision |-> decision]

\* Mutant: only the actions that fired count, not the rules' decision.
Override_ActionsOnly(score, decision, result) ==
    IF "block" \in result.actions
    THEN [score |-> Most(score, BlockThreshold), decision |-> "block"]
    ELSE IF "verify" \in result.actions /\ decision # "block"
    THEN [score |-> Most(score, ApproveThreshold + 1), decision |-> "verify"]
    ELSE IF Allows(result)
    THEN [score |-> Least(score, ApproveThreshold), decision |-> "approve"]
    ELSE [score |-> score, decision |-> decision]

\* Mutant: verify rules are looked at before block rules.
Override_VerifyFirst(score, decision, result) ==
    IF Verifies(result) /\ decision # "block"
    THEN [score |-> Most(score, ApproveThreshold + 1), decision |-> "verify"]
    ELSE IF Blocks(result)
    THEN [score |-> Most(score, BlockThreshold), decision |-> "block"]
    ELSE IF Allows(result)
    THEN [score |-> Least(score, ApproveThreshold), decision |-> "approve"]
    ELSE [score |-> score, decision |-> decision]

\* _apply_rule_decision_override
Override(score, decision, result) ==
    IF Blocks(result)
    THEN [score |-> Most(score, BlockThreshold), decision |-> "block"]
    ELSE IF Verifies(result) /\ decision # "block"
    THEN [score |-> Most(score, ApproveThreshold + 1), decision |-> "verify"]
    ELSE IF Allows(result)
    THEN [score |-> Least(score, ApproveThreshold), decision |-> "approve"]
    ELSE [score |-> score, decision |-> decision]

\* _fallback_from_rules
FallbackFrom(result) ==
    CASE Blocks(result) ->
           [score |-> Most(VerifyThreshold + 1, BlockThreshold), decision |-> "block"]
      [] ~Blocks(result) /\ Verifies(result) ->
           [score |-> ApproveThreshold + 1, decision |-> "verify"]
      [] ~Blocks(result) /\ ~Verifies(result) /\ Allows(result) ->
           [score |-> ApproveThreshold, decision |-> "approve"]
      [] OTHER -> [score |-> 50, decision |-> "verify"]

Decides(r, verdict) ==
    [r EXCEPT !.pc = "read", !.score = verdict.score, !.decision = verdict.decision]

(* _calculate_score: the rule score, 0 if it is not finite; with models    *)
(* loaded, a blend.  Then the thresholds and the rules' override.          *)
Score(c) ==
    LET r == call[c]
    IN  /\ r.pc = "score" /\ r.flaw \notin {"adjustment", "actions", "names"}
        /\ \E score \in {Clamp(base + r.result.adjustment) : base \in BaseScores}
                        \union {0} \union ModelScores :
             Enter(c, Decides(r, Override(score, Determine(score), r.result)))
        /\ UNCHANGED <<status, blocks, txLock, foreign, faults>>

ScoreFails(c) ==
    /\ call[c].pc = "score"
    /\ \/ call[c].flaw \in {"adjustment", "actions", "names"} /\ UNCHANGED faults
       \/ Fault
    /\ Goto(c, "fallback")
    /\ UNCHANGED <<status, blocks, txLock, foreign>>

(* The except branch; an exception of its own is the caller's.             *)
Fallback(c) ==
    /\ call[c].pc = "fallback" /\ call[c].flaw \notin {"actions", "names"}
    /\ Enter(c, [Decides(call[c], FallbackFrom(call[c].result))
                   EXCEPT !.retried = TRUE])
    /\ UNCHANGED <<status, blocks, txLock, foreign, faults>>

(* It looks at the same actions and names, and raises again.               *)
FallbackFails(c) ==
    /\ call[c].pc = "fallback"
    /\ \/ call[c].flaw \in {"actions", "names"} /\ UNCHANGED faults
       \/ Fault
    /\ Goto(c, "error")
    /\ UNCHANGED <<status, blocks, txLock, foreign>>

\* Mutant: an exception of the update is not caught.
Raise_Always(c) == Goto(c, "error")

Raise(c) == Goto(c, IF call[c].retried THEN "error" ELSE "fallback")

-----------------------------------------------------------------------------
(* _update_transaction_status, in a session of its own *)

(* The Decision object and the publications: the call returns, or raises   *)
(* after all it had to write.                                              *)
Answer(c) ==
    \/ call[c].flaw # "list" /\ Goto(c, "done") /\ UNCHANGED faults
    \/ call[c].flaw = "list" /\ Raise(c) /\ UNCHANGED faults
    \/ Fault /\ Raise(c)

(* There is no such transaction: nothing is written.                       *)
TransactionMissing(c) ==
    /\ call[c].pc = "read" /\ status = "missing"
    /\ Answer(c)
    /\ UNCHANGED <<status, blocks, txLock, foreign>>

\* Mutant: a transaction that is blocked already needs no row.
ReadTx_SkipsBlocked(c) ==
    LET r == call[c]
    IN  /\ r.pc = "read" /\ status # "missing"
        /\ Enter(c, [r EXCEPT !.seen = status, !.adds = FALSE, !.aborted = FALSE,
                              !.pc = IF r.decision = "block" /\ status # "block"
                                     THEN "stage" ELSE "commit"])
        /\ UNCHANGED <<status, blocks, txLock, foreign, faults>>

ReadTx(c) ==
    LET r == call[c]
    IN  /\ r.pc = "read" /\ status # "missing"
        /\ Enter(c, [r EXCEPT !.seen = status, !.adds = FALSE, !.aborted = FALSE,
                              !.pc = IF r.decision = "block" THEN "stage" ELSE "commit"])
        /\ UNCHANGED <<status, blocks, txLock, foreign, faults>>

\* Mutant: the SELECT does not flush the new status first (autoflush off).
StageBlock_NoFlush(c) ==
    /\ call[c].pc = "stage"
    /\ UNCHANGED txLock
    /\ Enter(c, [call[c] EXCEPT !.pc = "commit", !.adds = (blocks = 0)])
    /\ UNCHANGED <<status, blocks, foreign, faults>>

(* stage_block: its SELECT autoflushes a changed status, which takes the   *)
(* transaction's row lock, and then looks for a row.  Two rows already     *)
(* make it raise, which is logged and ignored.                             *)
StageBlock(c) ==
    LET r == call[c]
    IN  /\ r.pc = "stage"
        /\ IF r.seen = "block"
           THEN UNCHANGED txLock
           ELSE txLock = NoCall /\ txLock' = c
        /\ Enter(c, [r EXCEPT !.pc = "commit", !.adds = (blocks = 0)])
        /\ UNCHANGED <<status, blocks, foreign, faults>>

(* The SELECT fails: it is logged and ignored, but the database has aborted *)
(* the transaction, whose COMMIT rolls back and raises nothing.            *)
StageAborts(c) ==
    /\ call[c].pc = "stage"
    /\ Fault
    /\ Enter(c, [call[c] EXCEPT !.pc = "commit", !.aborted = TRUE])
    /\ UNCHANGED <<status, blocks, txLock, foreign>>

\* The commit will change the status.
Changes(r) == ~r.aborted /\ r.seen # r.decision

CanWrite(c) == txLock \in {NoCall, c} \/ ~Changes(call[c])
Unlock(c) == txLock' = IF txLock = c THEN NoCall ELSE txLock

Apply(c) ==
    LET r == call[c]
    IN  /\ r.pc = "commit"
        /\ CanWrite(c)
        /\ ~(r.adds /\ r.long)
        /\ status' = IF Changes(r) THEN r.decision ELSE status
        /\ blocks' = IF r.adds THEN blocks + 1 ELSE blocks
        /\ Unlock(c)

Commit(c) ==
    /\ Apply(c)
    /\ Answer(c)
    /\ UNCHANGED foreign

(* The update raises and rolls back: a database error, of a flush also at  *)
(* the commit if it was ignored before, or a reason longer than its column,*)
(* which only the flush of the commit finds out.                           *)
UpdateFails(c) ==
    /\ call[c].pc \in {"read", "stage", "commit"}
    /\ \/ call[c].adds /\ call[c].long /\ call[c].pc = "commit" /\ UNCHANGED faults
       \/ Fault
    /\ Raise(c)
    /\ Unlock(c)
    /\ UNCHANGED <<status, blocks, foreign>>

(* An analyst's override or rejection sets the status and adds no row.     *)
BlockElsewhere ==
    /\ Overrides /\ status # "missing"
    /\ txLock = NoCall
    /\ status' = "block"
    /\ foreign' = TRUE
    /\ UNCHANGED <<blocks, txLock, call, faults>>

-----------------------------------------------------------------------------
Next ==
    \/ BlockElsewhere
    \/ \E c \in Calls :
         \/ Ingest(c) \/ Evaluate(c) \/ ApplyRule(c) \/ RulesDone(c)
         \/ Score(c) \/ ScoreFails(c) \/ Fallback(c) \/ FallbackFails(c)
         \/ TransactionMissing(c) \/ ReadTx(c) \/ StageBlock(c) \/ StageAborts(c)
         \/ Commit(c) \/ UpdateFails(c)

Spec == Init /\ [][Next]_vars

-----------------------------------------------------------------------------
Call == [pc: Steps, rules: Seq(Rule), next: Nat \ {0}, result: RuleResult,
         score: 0..100, decision: Decisions, seen: Decisions \union {"pending"},
         adds: BOOLEAN, aborted: BOOLEAN, long: BOOLEAN, flaw: Flaws, retried: BOOLEAN]

TypeOK ==
    /\ status \in Decisions \union {"pending", "missing"}
    /\ blocks \in Nat
    /\ txLock \in Calls \union {NoCall}
    /\ call \in [Calls -> Call]
    /\ foreign \in BOOLEAN
    /\ faults \in Nat

Decided(c) == call[c].pc \in {"read", "stage", "commit", "done"}

(* The score and the decision always tell the same story, rules, models,   *)
(* overrides and the fallback notwithstanding: approve up to the approve   *)
(* threshold, verify up to the verify threshold, block above it.           *)
ScoreMatchesDecision ==
    \A c \in Calls : Decided(c) => call[c].decision = Determine(call[c].score)

(* A block rule reached before any allow rule decides the transaction,     *)
(* whatever the score, the other rules and the failures.                   *)
BlockRuleDecides ==
    \A c \in Calls : Decided(c) =>
        \A i \in DOMAIN call[c].rules :
            /\ call[c].rules[i].action = "block"
            /\ \A j \in 1..(i - 1) : call[c].rules[j].action # "allow"
            => call[c].decision = "block"

(* The transaction never has two rows in blocked_transactions, as long as  *)
(* only these calls set its status to block: nothing in the schema forbids *)
(* it, the row lock of the flushed status is what orders the calls.        *)
OneBlockRow == foreign \/ blocks <= 1

(* A call that answered block has left a row, its own or an earlier one,   *)
(* unless there is no such transaction, or the search for an earlier row   *)
(* failed and that was ignored (decision_engine.py:376).                   *)
BlockLeavesRow ==
    \A c \in Calls :
        (call[c].pc = "done" /\ call[c].decision = "block") =>
            blocks > 0 \/ status = "missing" \/ call[c].aborted

(* A transaction for which a verify rule fired is approved only if an      *)
(* allow rule fired as well: the one hole in "Block and verify rules are   *)
(* authoritative".                                                         *)
VerifyRuleHolds ==
    \A c \in Calls :
        (/\ Decided(c)
         /\ Verifies(call[c].result)
         /\ call[c].decision = "approve") => Allows(call[c].result)

(* A single failure is absorbed, by the fallback or by a retry of the      *)
(* update: a call with a well-formed rule result raises only after two     *)
(* faults, or for a block whose reason does not fit its column.            *)
OneFaultIsAbsorbed ==
    \A c \in Calls :
        (call[c].pc = "error" /\ call[c].flaw = "none") => faults >= 2 \/ call[c].long
=============================================================================
