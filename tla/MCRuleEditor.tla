---------------------------- MODULE MCRuleEditor ----------------------------
(* Model checking of RuleEditor: conditions of every operator, of every    *)
(* form and of the forms the page cannot show.                             *)
EXTENDS RuleEditor

LargeAmount == Field("amount", "gt", Num(1))
Here        == Field("location", "in", ListOf({Str(Word), Str(1)}))
NotHere     == Field("location", "ne", Str(Word))
Blanks      == Field("location", "eq", Str(Padded))

\* Values of another type than the field's, unknown operators and fields.
Odd == {Field("amount", "in", ListOf({Num(1)})), Field("amount", "lte", Str(1)),
        Field("amount", "regex", Str(Word)), Field("location", "eq", None),
        Field("location", "like", Str(Word)), Field("", "eq", Str(Word))}

Texts == {Field("location", "not_in", Str(Word)), Field("location", "contains", Str(Word))}

MCConditions ==
    {LargeAmount, Here, Blanks, And({}), Not(Malformed), Or(Odd \union Texts),
     And({Not(LargeAmount), Here}), Or({Malformed, NotHere}),
     And({NotHere, Or({Here, LargeAmount})})}

\* Of one field or both, with a value of another type than the field's, and a null.
MCContexts ==
    {[x \in {} |-> None]}
    \union {[amount |-> v] : v \in {Num(0), Num(2), Str(Word)}}
    \union {[location |-> v] : v \in {Str(1), Str(Word), Str(Padded), None}}
    \union {[amount |-> Num(n), location |-> Str(Word)] : n \in {0, 2}}
    \union {[amount |-> Num(2), location |-> Str(1)]}

MCEdited == {[combinator |-> "or", rows |-> {RowOf(LargeAmount), RowOf(Here)}]}
=============================================================================
