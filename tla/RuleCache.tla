----------------------------- MODULE RuleCache -----------------------------
(***************************************************************************)
(* The fraud rules of one account and their Redis cache                    *)
(* (backend/app/services/rule_engine.py, cache.py and the CRUD routes of   *)
(* routers/rules.py).                                                      *)
(*                                                                         *)
(* An edit commits and then deletes the cache key; an evaluation reads the *)
(* key and, on a miss, loads the rules and writes the key.  Both run in    *)
(* requests of their own and every step is awaited.  RuleEngine's          *)
(* in-memory copy is written and never read, so it is left out.            *)
(***************************************************************************)
EXTENDS Integers

CONSTANTS
    Editors,      \* rule edits that can be in flight at once
    Evaluators,   \* evaluations that can be in flight at once
    MaxEdits,     \* bound: committed edits
    MaxFaults     \* bound: Redis or database errors

ASSUME BoundsAssumption == MaxEdits \in Nat /\ MaxFaults \in Nat

VARIABLES
    rules,    \* the committed rule set: how many edits it has seen
    cache,    \* the rule set under the key
    edit,     \* what each edit does next
    eval,     \* what each evaluation does next and holds
    excuse,   \* history: why the cached rule set may be out of date
    faults    \* errors so far

vars == <<rules, cache, edit, eval, excuse, faults>>

NoRules == -1   \* what load_rules returns on an error: []
Missing == -2   \* the key does not exist

RuleSet == Nat \union {NoRules}

Idle == [pc |-> "idle", rules |-> 0, raced |-> FALSE]
Evaluation == [pc: {"idle", "load", "fill", "use"}, rules: RuleSet,
               raced: BOOLEAN]    \* history: an edit committed since its load

Init ==
    /\ rules = 0
    /\ cache = Missing
    /\ edit = [d \in Editors |-> "idle"]
    /\ eval = [v \in Evaluators |-> Idle]
    /\ excuse = FALSE
    /\ faults = 0

Fault == faults < MaxFaults /\ faults' = faults + 1

-----------------------------------------------------------------------------
(* create, update, delete, activate, deactivate: session.commit ...        *)
CommitEdit(d) ==
    /\ edit[d] = "idle"
    /\ rules < MaxEdits
    /\ rules' = rules + 1
    /\ edit' = [edit EXCEPT ![d] = "invalidate"]
    /\ eval' = [v \in Evaluators |->
                  [eval[v] EXCEPT !.raced = eval[v].pc = "fill"]]
    /\ UNCHANGED <<cache, excuse, faults>>

EditReturns(d) == edit' = [edit EXCEPT ![d] = "idle"]

\* Mutant: the key is left to expire.
Invalidate_Skipped(d) ==
    /\ edit[d] = "invalidate"
    /\ EditReturns(d)
    /\ UNCHANGED <<rules, cache, eval, excuse, faults>>

(* ... then invalidate_rules_cache deletes the key.                        *)
Invalidate(d) ==
    /\ edit[d] = "invalidate"
    /\ cache' = Missing
    /\ excuse' = FALSE
    /\ EditReturns(d)
    /\ UNCHANGED <<rules, eval, faults>>

(* The delete fails and is logged, or refresh raises and the route never   *)
(* gets to it.                                                             *)
InvalidateFails(d) ==
    /\ edit[d] = "invalidate"
    /\ Fault
    /\ excuse' = TRUE
    /\ EditReturns(d)
    /\ UNCHANGED <<rules, cache, eval>>

-----------------------------------------------------------------------------
(* get_active_rules: a cached list is used as it is, an empty one too.     *)
Lookup(v) ==
    /\ eval[v].pc = "idle"
    /\ \/ /\ cache # Missing
          /\ eval' = [eval EXCEPT ![v].pc = "use", ![v].rules = cache]
          /\ UNCHANGED faults
       \/ /\ \/ cache = Missing /\ UNCHANGED faults
             \/ Fault
          /\ eval' = [eval EXCEPT ![v].pc = "load"]
    /\ UNCHANGED <<rules, cache, edit, excuse>>

(* load_rules: the active rules as committed, [] if the database fails.    *)
Load(v) ==
    /\ eval[v].pc = "load"
    /\ \/ /\ eval' = [eval EXCEPT ![v].pc = "fill", ![v].rules = rules,
                                  ![v].raced = FALSE]
          /\ UNCHANGED faults
       \/ /\ Fault
          /\ eval' = [eval EXCEPT ![v].pc = "fill", ![v].rules = NoRules,
                                  ![v].raced = FALSE]
    /\ UNCHANGED <<rules, cache, edit, excuse>>

\* cache.set with a TTL, whatever happened to the key since the miss; an
\* error is logged and the rules are used all the same.
Fill(v) ==
    LET e == eval[v]
    IN  /\ e.pc = "fill"
        /\ eval' = [eval EXCEPT ![v].pc = "use"]
        /\ \/ /\ cache' = e.rules
              /\ excuse' = (e.raced \/ e.rules = NoRules)
              /\ UNCHANGED faults
           \/ Fault /\ UNCHANGED <<cache, excuse>>
        /\ UNCHANGED <<rules, edit>>

(* evaluate_transaction runs over the rules it got.                        *)
Use(v) ==
    /\ eval[v].pc = "use"
    /\ eval' = [eval EXCEPT ![v] = Idle]
    /\ UNCHANGED <<rules, cache, edit, excuse, faults>>

\* Mutant: a cache entry has no time to live.
Expire_Never ==
    /\ cache = Missing
    /\ excuse' = FALSE
    /\ UNCHANGED <<rules, cache, edit, eval, faults>>

(* RULE_CACHE_TTL seconds after it was set, the key is gone.               *)
Expire ==
    /\ cache # Missing
    /\ cache' = Missing
    /\ excuse' = FALSE
    /\ UNCHANGED <<rules, edit, eval, faults>>

-----------------------------------------------------------------------------
Edits(d) == CommitEdit(d) \/ Invalidate(d) \/ InvalidateFails(d)
Finishes(v) == Load(v) \/ Fill(v) \/ Use(v)

Next ==
    \/ Expire
    \/ \E d \in Editors : Edits(d)
    \/ \E v \in Evaluators : Lookup(v) \/ Finishes(v)

Spec == Init /\ [][Next]_vars

(* Requests in flight run on, and Redis expires keys.                      *)
Fairness ==
    /\ WF_vars(Expire)
    /\ \A v \in Evaluators : WF_vars(Finishes(v))

-----------------------------------------------------------------------------
TypeOK ==
    /\ rules \in Nat
    /\ cache \in RuleSet \union {Missing}
    /\ edit \in [Editors -> {"idle", "invalidate"}]
    /\ eval \in [Evaluators -> Evaluation]
    /\ excuse \in BOOLEAN
    /\ faults \in Nat

(* The cached rule set is the committed one unless an edit is about to     *)
(* delete the key, or there is an excuse: the entry was written by a load  *)
(* an edit overtook or that failed, or a delete failed.  Nothing else      *)
(* leaves old rules in force.                                              *)
StaleOnlyWithExcuse ==
    \/ cache \in {Missing, rules}
    \/ excuse
    \/ \E d \in Editors : edit[d] = "invalidate"

(* Once the edits stop, evaluations end up using the committed rules and   *)
(* keep doing so: a stale entry dies of old age, and no request in flight  *)
(* can write one for ever.                                                 *)
ConvergesToCommitted ==
    <>[](\A v \in Evaluators : eval[v].pc = "use" => eval[v].rules = rules)
=============================================================================
