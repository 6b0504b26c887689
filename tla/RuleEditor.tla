----------------------------- MODULE RuleEditor -----------------------------
(***************************************************************************)
(* A rule's condition between the analysts who edit it and the             *)
(* transactions it is evaluated for: the Rules page                        *)
(* (frontend/src/pages/Rules.tsx) opens a rule in a form and saves the     *)
(* whole of it; the routes commit and invalidate (RuleCache); evaluations  *)
(* read what is committed (RuleEvaluator).                                 *)
(***************************************************************************)
EXTENDS RuleCache, RuleEvaluator

CONSTANTS
    Conditions,   \* conditions the rule may have been created with
    Contexts,     \* transactions, as POST /rules/evaluate takes them
    Edited        \* what an analyst may turn the form's rows into

ASSUME EditorAssumption == Conditions \subseteq Condition /\ Edited \subseteq Form

VARIABLES
    condition,    \* the rule's condition, as committed
    listed,       \* the condition in the list each editor's page has cached
    form,         \* the form of each editor
    meant,        \* history: the condition somebody last gave the rule
    overwritten   \* history: since then a form showing another condition was saved

editor == <<condition, listed, form, meant, overwritten>>
allVars == <<vars, editor>>

Closed == [open |-> FALSE]

EditorInit ==
    /\ Init
    /\ condition \in Conditions
    /\ meant = condition
    /\ listed = [d \in Editors |-> condition]
    /\ form = [d \in Editors |-> Closed]
    /\ overwritten = FALSE

(* useRules: the list is fetched again when a mutation of this page's      *)
(* succeeds or the page is shown after five minutes; until then, and when  *)
(* that fails, the page keeps the old one.                                 *)
Refetch(d) ==
    /\ listed' = [listed EXCEPT ![d] = condition]
    /\ UNCHANGED <<vars, condition, form, meant, overwritten>>

(* openEditModal: the form is filled from the list the page has. History:  *)
(* "of" is the condition the form shows.                                   *)
Open(d) ==
    /\ form[d] = Closed /\ edit[d] = "idle"
    /\ form' = [form EXCEPT ![d] = [open |-> TRUE, state |-> ParseConditions(listed[d]),
                                    changed |-> FALSE, of |-> listed[d]]]
    /\ UNCHANGED <<vars, condition, listed, meant, overwritten>>

(* The analyst changes the match criteria.                                 *)
Change(d) ==
    /\ form[d].open
    /\ \E state \in Edited :
         form' = [form EXCEPT ![d] = [open |-> TRUE, state |-> state, changed |-> TRUE,
                                      of |-> BuildConditions(state)]]
    /\ UNCHANGED <<vars, condition, listed, meant, overwritten>>

\* closeModal without saving.
Cancel(d) ==
    /\ form[d].open
    /\ form' = [form EXCEPT ![d] = Closed]
    /\ UNCHANGED <<vars, condition, listed, meant, overwritten>>

(* handleSave sends every field of the form, changed or not; update_rule   *)
(* assigns and commits them. An answer that does not come leaves it open.  *)
Save(d) ==
    /\ form[d].open
    /\ CommitEdit(d)
    /\ condition' = BuildConditions(form[d].state)
    /\ IF form[d].changed
       THEN meant' = condition' /\ overwritten' = FALSE
       ELSE meant' = meant /\ overwritten' = (overwritten \/ form[d].of # condition)
    /\ \/ form' = [form EXCEPT ![d] = Closed]
       \/ form' = [form EXCEPT ![d].of = condition']
    /\ UNCHANGED listed

\* activate_rule, deactivate_rule and delete_rule leave the condition alone.
Toggle(d) == CommitEdit(d) /\ UNCHANGED editor

EditorNext ==
    \/ \E d \in Editors :
         \/ Refetch(d) \/ Open(d) \/ Change(d) \/ Cancel(d) \/ Save(d) \/ Toggle(d)
         \/ Invalidate(d) /\ UNCHANGED editor
         \/ InvalidateFails(d) /\ UNCHANGED editor
    \/ Expire /\ UNCHANGED editor
    \/ \E v \in Evaluators : (Lookup(v) \/ Finishes(v)) /\ UNCHANGED editor

EditorSpec == EditorInit /\ [][EditorNext]_allVars /\ Fairness

-----------------------------------------------------------------------------
(* What the form can show: field conditions, or a list of them under one   *)
(* combinator, with values of the field's type and no blanks around them.  *)
Typed(c) ==
    /\ c.field # "" /\ c.op # ""
    /\ IF c.op \in {"in", "not_in"}
       THEN /\ c.value.type = "list" /\ FieldType(c.field) = "str"
            /\ \A x \in c.value.of : x.type = "str" /\ x.text \notin {Empty, Joined, Padded}
       ELSE c.value.type = FieldType(c.field) /\ c.value.text # Padded

Expressible(c) ==
    \/ c.kind = "field" /\ Typed(c)
    \/ /\ c.kind \in {"and", "or"} /\ c.of # {}
       /\ \A x \in c.of : x.kind = "field" /\ Typed(x)

SameMeaning(c, d) == \A context \in Contexts : Evaluate(c, context) = Evaluate(d, context)

(* Saving a rule for another reason than its condition leaves the          *)
(* transactions it matches what they were, if the form can show it and did *)
(* not show another condition than the committed one: the cached list may  *)
(* be minutes old, and a form open for longer (Rules.tsx lines 45, 61, 92).*)
MeaningKept ==
    Expressible(meant) /\ ~overwritten => SameMeaning(condition, meant)

(* A rule matches a transaction if and only if its data says so; where the *)
(* data does not decide, for want of a field or because the types do not   *)
(* fit, the rule does not match, unless it negates (rule_evaluator.py      *)
(* line 27, "Missing fields cause the condition to evaluate to False").    *)
MatchesForCause ==
    \A context \in Contexts :
      LET truth == Truth(condition, context)
      IN  /\ truth # "unknown" => Evaluate(condition, context) = (truth = "true")
          /\ truth = "unknown" /\ ~Negates(condition) => ~Evaluate(condition, context)
=============================================================================
