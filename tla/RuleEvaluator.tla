--------------------------- MODULE RuleEvaluator ---------------------------
(***************************************************************************)
(* The condition of a fraud rule: how it is evaluated against a            *)
(* transaction (backend/app/services/rule_evaluator.py), and how the Rules *)
(* page takes it apart into a form and puts it together again              *)
(* (frontend/src/utils/ruleConditionUtils.ts).                             *)
(*                                                                         *)
(* A value has a type and a text.  A text that looks like a number is that *)
(* number; the order of strings and the inner structure of patterns are    *)
(* left out.  The parts of a combinator, the items of a list and the rows  *)
(* of the form are sets: evaluating a part changes nothing, so neither     *)
(* their order nor a repetition can be told from the result.               *)
(***************************************************************************)
EXTENDS Integers

CONSTANTS
    Names,        \* what a condition may name as its field
    MaxNesting    \* bound: how deep combinators are nested

ASSUME NamesAssumption == "amount" \in Names
ASSUME NestingAssumption == MaxNesting \in Nat \ {0}

Num(n) == [type |-> "num", text |-> n]
Str(s) == [type |-> "str", text |-> s]
ListOf(S) == [type |-> "list", of |-> S]

Empty == -1    \* the empty string
Word == -2
Joined == -3   \* the items of a list with commas between them
Padded == -4   \* the word with blanks around it
Text == Nat \union {Empty, Word, Joined, Padded}

Trim(text) == IF text = Padded THEN Word ELSE text

Within(text) == {text, Trim(text), Empty}
None == [type |-> "none", text |-> Empty]

Scalar == [type: {"num"}, text: Nat] \union [type: {"str"}, text: Text] \union {None}
Value == Scalar \union [type: {"list"}, of: SUBSET Scalar]

\* A condition is a field with an operator and the expected value, a combinator with
\* the conditions it combines, or something else.
Field(f, op, e) == [kind |-> "field", field |-> f, op |-> op, value |-> e]
And(S) == [kind |-> "and", of |-> S]
Or(S)  == [kind |-> "or", of |-> S]
Not(c) == [kind |-> "not", of |-> {c}]
Malformed == [kind |-> "malformed"]

\* RULE_OPERATORS, none at all, and one that is not known.
Operators ==
    {"eq", "ne", "gt", "lt", "gte", "lte", "in", "not_in", "contains", "regex", "", "like"}

Parts(c) == IF c.kind \in {"and", "or", "not"} THEN c.of ELSE {}

Leaf == [kind: {"field"}, field: Names, op: Operators, value: Value] \union {Malformed}

Combination(S) ==
    {c \in [kind: {"and", "or", "not"}, of: SUBSET S] :
       c.kind = "not" => \E p \in c.of : c.of = {p}}

\* The conditions with at most n combinators around a leaf.
Nested[n \in 0..MaxNesting] ==
    IF n = 0 THEN Leaf ELSE Leaf \union Combination(Nested[n - 1])

Condition == Nested[MaxNesting]

-----------------------------------------------------------------------------
\* Whether the operator is defined on the two values; it returns False or raises,
\* which is caught, where it is not.
Applies(op, actual, expected) ==
    CASE op \in {"eq", "ne"} -> TRUE
      [] op \in {"gt", "lt", "gte", "lte"} ->
           actual.type = expected.type /\ actual.type \in {"num", "str"}
      [] op \in {"in", "not_in"} ->
           \/ expected.type = "list"
           \/ expected.type = "str" /\ actual.type = "str"
      [] op = "regex" -> expected.type \in {"num", "str"}
      [] op = "contains" -> expected.type \in {"num", "str"} /\ actual.type = "str"
      [] OTHER -> FALSE

Member(actual, expected) ==
    IF expected.type = "list" THEN actual \in expected.of
                              ELSE actual.text \in Within(expected.text)

Holds(op, actual, expected) ==
    CASE op = "eq"     -> actual = expected
      [] op = "ne"     -> actual # expected
      [] op = "gt"     -> actual.text > expected.text
      [] op = "lt"     -> actual.text < expected.text
      [] op = "gte"    -> actual.text >= expected.text
      [] op = "lte"    -> actual.text <= expected.text
      [] op = "in"     -> Member(actual, expected)
      [] op = "not_in" -> ~Member(actual, expected)
      [] OTHER         -> expected.text \in Within(actual.text)

\* Mutant: context.get(field) stands for a missing field.
EvaluateField_Get(c, context) ==
    LET actual == IF c.field \in DOMAIN context THEN context[c.field] ELSE None
    IN  Applies(c.op, actual, c.value) /\ Holds(c.op, actual, c.value)

(* _evaluate_field_condition.                                              *)
EvaluateField(c, context) ==
    /\ c.field \in DOMAIN context
    /\ Applies(c.op, context[c.field], c.value)
    /\ Holds(c.op, context[c.field], c.value)

\* What evaluate_condition returns, by what it returns for the parts.
EvaluateWith(parts, c, context) ==
    \/ c.kind = "and" /\ FALSE \notin parts
    \/ c.kind = "or" /\ TRUE \in parts
    \/ c.kind = "not" /\ TRUE \notin parts
    \/ c.kind = "field" /\ EvaluateField(c, context)

(* evaluate_condition.                                                     *)
Evaluate(c, context) ==
    LET value[x \in Condition] == EvaluateWith({value[p] : p \in Parts(x)}, x, context)
    IN  value[c]

-----------------------------------------------------------------------------
(* For reference: the three-valued logic in which a field condition that   *)
(* cannot be evaluated is neither true nor false.                          *)
TruthWith(parts, c, context) ==
    CASE c.kind = "and" -> IF "false" \in parts THEN "false"
                           ELSE IF "unknown" \in parts THEN "unknown" ELSE "true"
      [] c.kind = "or"  -> IF "true" \in parts THEN "true"
                           ELSE IF "unknown" \in parts THEN "unknown" ELSE "false"
      [] c.kind = "not" -> CASE parts = {"true"} -> "false"
                             [] parts = {"false"} -> "true"
                             [] OTHER -> "unknown"
      [] c.kind = "field" ->
           IF c.field \in DOMAIN context /\ Applies(c.op, context[c.field], c.value)
           THEN IF Holds(c.op, context[c.field], c.value) THEN "true" ELSE "false"
           ELSE "unknown"
      [] OTHER -> "unknown"

Truth(c, context) ==
    LET truth[x \in Condition] == TruthWith({truth[p] : p \in Parts(x)}, x, context)
    IN  truth[c]

Negates(c) ==
    LET negates[x \in Condition] == x.kind = "not" \/ \E p \in Parts(x) : negates[p]
    IN  negates[c]

-----------------------------------------------------------------------------
(* The form: a combinator and rows of a field, an operator and the texts of*)
(* the value, separated by commas.                                         *)

Row == [field: Names, op: Operators, texts: SUBSET Text]
Form == [combinator: {"and", "or"}, rows: SUBSET Row]

FieldType(f) == IF f \in {"amount", "hour_of_day"} THEN "num" ELSE "str"

\* rowFromCondition.
RowOf(c) ==
    [field |-> c.field, op |-> c.op,
     texts |-> IF c.value.type = "list" THEN {x.text : x \in c.value.of} ELSE {c.value.text}]

DefaultRow == [field |-> "amount", op |-> "gt", texts |-> {2}]

\* parseConditions: what is not a field condition is filtered out, and what has none
\* starts afresh.
ParseConditions(c) ==
    LET flat == {x \in Parts(c) : x.kind = "field"}
    IN  CASE c.kind = "field" -> [combinator |-> "and", rows |-> {RowOf(c)}]
          [] c.kind \in {"and", "or"} /\ flat # {} ->
               [combinator |-> c.kind, rows |-> {RowOf(x) : x \in flat}]
          [] OTHER -> [combinator |-> "and", rows |-> {DefaultRow}]

\* parseValue of a list: its items without the blanks around them, if anything is left.
Items(texts) == ListOf({Str(x) : x \in {Trim(y) : y \in texts} \ {Empty}})

\* Mutant: every value is sent as the text that was typed.
ParseValue_Text(field, op, texts) ==
    IF op \in {"in", "not_in"} THEN Items(texts)
    ELSE Str(IF \E x \in texts : texts = {x} THEN CHOOSE x \in texts : TRUE ELSE Joined)

\* A list of strings, a number (0 if it is none), or the trimmed text.
ParseValue(field, op, texts) ==
    LET text == CASE texts = {} -> Empty
                  [] \E x \in texts : texts = {x} -> CHOOSE x \in texts : TRUE
                  [] OTHER -> Joined
    IN  CASE op \in {"in", "not_in"} -> Items(texts)
          [] FieldType(field) = "num" /\ op \notin {"in", "not_in"} ->
               Num(IF text \in Nat THEN text ELSE 0)
          [] OTHER -> Str(Trim(text))

\* buildConditions: rows without a field or an operator are dropped.
BuildConditions(form) ==
    LET filled  == {r \in form.rows : r.field # "" /\ r.op # ""}
        clauses == {Field(r.field, r.op, ParseValue(r.field, r.op, r.texts)) : r \in filled}
    IN  CASE clauses = {} -> Field("amount", "gt", Num(0))
          [] \E c \in clauses : clauses = {c} -> CHOOSE c \in clauses : TRUE
          [] OTHER -> [kind |-> form.combinator, of |-> clauses]
=============================================================================
