--------------------------- MODULE RuleEditor_proofs ---------------------------
(***************************************************************************)
(* Proofs about RuleCache, RuleEvaluator and RuleEditor, for every set of  *)
(* editors and evaluations, any number of edits and errors, and conditions *)
(* of any shape and nesting.                                               *)
(***************************************************************************)
EXTENDS RuleEditor, WellFoundedInduction, TLAPS

(* What an evaluation is about to write under the key is the committed     *)
(* rule set, unless its load failed or an edit has overtaken it.           *)
FillsCommitted ==
    \A v \in Evaluators :
        eval[v].pc = "fill" => \/ eval[v].raced
                               \/ eval[v].rules \in {NoRules, rules}

(* The step of an evaluation that changes its record keeps its type. *)
LEMMA EvaluationFacts ==
    /\ Idle \in Evaluation
    /\ \A e \in Evaluation :
         /\ \A r \in BOOLEAN : /\ [e EXCEPT !.raced = r] \in Evaluation
                               /\ [e EXCEPT !.raced = r].raced = r
                               /\ [e EXCEPT !.raced = r].pc = e.pc
                               /\ [e EXCEPT !.raced = r].rules = e.rules
         /\ [e EXCEPT !.pc = "load"] \in Evaluation
         /\ [e EXCEPT !.pc = "use"] \in Evaluation
         /\ \A s \in RuleSet :
              /\ [e EXCEPT !.pc = "use", !.rules = s] \in Evaluation
              /\ [e EXCEPT !.pc = "fill", !.rules = s, !.raced = FALSE] \in Evaluation
  BY DEF Idle, Evaluation, RuleSet

(* The initial state satisfies the invariants. *)
LEMMA InitInv == Init => TypeOK /\ FillsCommitted /\ StaleOnlyWithExcuse
<1> SUFFICES ASSUME Init PROVE TypeOK /\ FillsCommitted /\ StaleOnlyWithExcuse
  OBVIOUS
<1>1. excuse \in BOOLEAN
  BY Zenon DEF Init
<1>2. TypeOK
  BY <1>1, EvaluationFacts DEF Init, TypeOK, RuleSet
<1>3. FillsCommitted /\ StaleOnlyWithExcuse
  BY DEF Init, FillsCommitted, StaleOnlyWithExcuse, Idle
<1>4. QED
  BY <1>2, <1>3

(* Every step keeps the types. *)
LEMMA TypeStep == TypeOK /\ [Next]_vars => TypeOK'
<1> SUFFICES ASSUME TypeOK, [Next]_vars PROVE TypeOK'
  OBVIOUS
<1>1. CASE Expire
  BY <1>1, Zenon DEF Expire, TypeOK
<1>2. ASSUME NEW d \in Editors, CommitEdit(d)
      PROVE  TypeOK'
  <2>1. rules' \in Nat /\ edit' \in [Editors -> {"idle", "invalidate"}]
    BY <1>2 DEF CommitEdit, TypeOK
  <2>2. eval' \in [Evaluators -> Evaluation]
    <3>1. \A v \in Evaluators :
            [eval[v] EXCEPT !.raced = eval[v].pc = "fill"] \in Evaluation
      BY EvaluationFacts DEF TypeOK
    <3>2. eval' = [v \in Evaluators |->
                     [eval[v] EXCEPT !.raced = eval[v].pc = "fill"]]
      BY <1>2 DEF CommitEdit
    <3>3. QED
      BY <3>1, <3>2, Zenon
  <2>3. UNCHANGED <<cache, excuse, faults>>
    BY <1>2 DEF CommitEdit
  <2>4. QED
    BY <2>1, <2>2, <2>3 DEF TypeOK
<1>3. ASSUME NEW d \in Editors, Invalidate(d) \/ InvalidateFails(d)
      PROVE  TypeOK'
  <2>1. excuse' \in BOOLEAN
    BY <1>3, Zenon DEF Invalidate, InvalidateFails
  <2>2. /\ UNCHANGED <<rules, eval>>
        /\ edit' \in [Editors -> {"idle", "invalidate"}]
        /\ cache' \in {cache, Missing}
        /\ faults' \in Nat
    BY <1>3 DEF Invalidate, InvalidateFails, EditReturns, Fault, TypeOK
  <2>3. QED
    BY <2>1, <2>2 DEF TypeOK
<1>4. ASSUME NEW v \in Evaluators, Lookup(v)
      PROVE  TypeOK'
  <2>1. UNCHANGED <<rules, cache, edit, excuse>> /\ faults' \in Nat
    BY <1>4 DEF Lookup, Fault, TypeOK
  <2>2. CASE eval' = [eval EXCEPT ![v].pc = "use", ![v].rules = cache] /\ cache # Missing
    <3>1. [eval[v] EXCEPT !.pc = "use", !.rules = cache] \in Evaluation
      BY <2>2, EvaluationFacts DEF TypeOK
    <3>2. QED
      BY <2>1, <2>2, <3>1 DEF TypeOK
  <2>3. CASE eval' = [eval EXCEPT ![v].pc = "load"]
    <3>1. [eval[v] EXCEPT !.pc = "load"] \in Evaluation
      BY EvaluationFacts DEF TypeOK
    <3>2. QED
      BY <2>1, <2>3, <3>1 DEF TypeOK
  <2>4. QED
    BY <1>4, <2>2, <2>3 DEF Lookup
<1>5. ASSUME NEW v \in Evaluators, Load(v)
      PROVE  TypeOK'
  <2>1. UNCHANGED <<rules, cache, edit, excuse>> /\ faults' \in Nat
    BY <1>5 DEF Load, Fault, TypeOK
  <2>2. PICK s \in RuleSet :
          eval' = [eval EXCEPT ![v] = [eval[v] EXCEPT !.pc = "fill", !.rules = s,
                                                      !.raced = FALSE]]
    BY <1>5 DEF Load, RuleSet, TypeOK
  <2>3. [eval[v] EXCEPT !.pc = "fill", !.rules = s, !.raced = FALSE] \in Evaluation
    BY EvaluationFacts DEF TypeOK
  <2>4. QED
    BY <2>1, <2>2, <2>3 DEF TypeOK
<1>6. ASSUME NEW v \in Evaluators, Fill(v)
      PROVE  TypeOK'
  <2>1. UNCHANGED <<rules, edit>> /\ faults' \in Nat
    BY <1>6 DEF Fill, Fault, TypeOK
  <2>2. cache' \in {cache, eval[v].rules} /\ eval[v].rules \in RuleSet
    BY <1>6 DEF Fill, TypeOK, Evaluation
  <2>3. excuse' \in BOOLEAN
    BY <1>6, Zenon DEF Fill, TypeOK
  <2>4. eval' \in [Evaluators -> Evaluation]
    <3>1. [eval[v] EXCEPT !.pc = "use"] \in Evaluation
      BY EvaluationFacts DEF TypeOK
    <3>2. QED
      BY <1>6, <3>1 DEF Fill, TypeOK
  <2>5. QED
    BY <2>1, <2>2, <2>3, <2>4 DEF TypeOK
<1>7. ASSUME NEW v \in Evaluators, Use(v)
      PROVE  TypeOK'
  BY <1>7, EvaluationFacts DEF Use, TypeOK
<1>8. CASE UNCHANGED vars
  BY <1>8 DEF vars, TypeOK
<1>9. QED
  BY <1>1, <1>2, <1>3, <1>4, <1>5, <1>6, <1>7, <1>8 DEF Next, Edits, Finishes

(* The step of an editor or an evaluation keeps what evaluations hold in   *)
(* step with the committed rules.                                          *)
LEMMA FillsStep == TypeOK /\ FillsCommitted /\ [Next]_vars => FillsCommitted'
<1> SUFFICES ASSUME TypeOK, FillsCommitted, [Next]_vars PROVE FillsCommitted'
  OBVIOUS
<1>0. eval \in [Evaluators -> Evaluation]
  BY DEF TypeOK
<1>1. ASSUME UNCHANGED <<rules, eval>>
      PROVE  FillsCommitted'
  BY <1>1 DEF FillsCommitted
<1>2. ASSUME NEW v \in Evaluators, UNCHANGED rules,
             \A w \in Evaluators : w # v => eval'[w] = eval[w],
             eval'[v].pc = "fill" => eval'[v].rules \in {NoRules, rules}
      PROVE  FillsCommitted'
  BY <1>2 DEF FillsCommitted
<1>3. ASSUME NEW d \in Editors, CommitEdit(d)
      PROVE  FillsCommitted'
  <2>1. \A v \in Evaluators : eval'[v].pc = "fill" => eval'[v].raced
    BY <1>0, <1>3 DEF CommitEdit, Evaluation
  <2>2. QED
    BY <2>1 DEF FillsCommitted
<1>4. ASSUME NEW v \in Evaluators, Load(v)
      PROVE  FillsCommitted'
  BY <1>0, <1>2, <1>4 DEF Load, Evaluation
<1>5. ASSUME NEW v \in Evaluators, Lookup(v) \/ Fill(v) \/ Use(v)
      PROVE  FillsCommitted'
  BY <1>0, <1>2, <1>5 DEF Lookup, Fill, Use, Evaluation, Idle
<1>6. CASE Expire \/ UNCHANGED vars \/ \E d \in Editors : Invalidate(d) \/ InvalidateFails(d)
  BY <1>1, <1>6 DEF Expire, vars, Invalidate, InvalidateFails
<1>7. QED
  BY <1>3, <1>4, <1>5, <1>6 DEF Next, Edits, Finishes

(* Every write of the key and every edit leave an excuse if they leave an  *)
(* old rule set.                                                           *)
LEMMA StaleStep ==
    TypeOK /\ FillsCommitted /\ StaleOnlyWithExcuse /\ [Next]_vars
      => StaleOnlyWithExcuse'
<1> SUFFICES ASSUME TypeOK, FillsCommitted, StaleOnlyWithExcuse, [Next]_vars
             PROVE  StaleOnlyWithExcuse'
  OBVIOUS
<1>1. CASE Expire
  BY <1>1 DEF Expire, StaleOnlyWithExcuse
<1>2. ASSUME NEW d \in Editors, Edits(d)
      PROVE  StaleOnlyWithExcuse'
  <2>1. CASE CommitEdit(d)
    BY <2>1 DEF CommitEdit, StaleOnlyWithExcuse, TypeOK
  <2>2. CASE Invalidate(d)
    BY <2>2 DEF Invalidate, StaleOnlyWithExcuse
  <2>3. CASE InvalidateFails(d)
    BY <2>3 DEF InvalidateFails, StaleOnlyWithExcuse
  <2>4. QED
    BY <1>2, <2>1, <2>2, <2>3 DEF Edits
<1>3. ASSUME NEW v \in Evaluators, Fill(v)
      PROVE  StaleOnlyWithExcuse'
  <2>1. CASE UNCHANGED <<cache, excuse>>
    BY <1>3, <2>1 DEF Fill, StaleOnlyWithExcuse
  <2>2. CASE cache' = eval[v].rules /\ excuse' = (eval[v].raced \/ eval[v].rules = NoRules)
    <3>1. excuse' \/ eval[v].rules = rules
      BY <1>3, <2>2 DEF Fill, FillsCommitted
    <3>2. UNCHANGED rules
      BY <1>3 DEF Fill
    <3>3. QED
      BY <2>2, <3>1, <3>2 DEF StaleOnlyWithExcuse
  <2>3. QED
    BY <1>3, <2>1, <2>2 DEF Fill
<1>4. ASSUME NEW v \in Evaluators, Lookup(v) \/ Load(v) \/ Use(v)
      PROVE  StaleOnlyWithExcuse'
  <2>1. UNCHANGED <<rules, cache, edit, excuse>>
    BY <1>4 DEF Lookup, Load, Use
  <2>2. QED
    BY <2>1 DEF StaleOnlyWithExcuse
<1>5. CASE UNCHANGED vars
  BY <1>5 DEF vars, StaleOnlyWithExcuse
<1>6. QED
  BY <1>1, <1>2, <1>3, <1>4, <1>5 DEF Next, Finishes

(* Every reachable state has the declared types. *)
THEOREM TypeCorrect == Spec => []TypeOK
  BY InitInv, TypeStep, PTL DEF Spec

(* Old rules stay in force only with an excuse: however many edits and     *)
(* evaluations race and however often Redis or the database fails.         *)
THEOREM StaleHasExcuse == Spec => []StaleOnlyWithExcuse
  BY InitInv, TypeStep, FillsStep, StaleStep, PTL DEF Spec

-----------------------------------------------------------------------------
(* Conditions nest, so what is said of them all is proved by induction.   *)

(* Induction over the natural numbers, of sets: the numbers that are not   *)
(* in P would have a least one.                                            *)
LEMMA SetInduction ==
    ASSUME NEW P, 0 \in P, \A n \in Nat : n \in P => n + 1 \in P
    PROVE  \A n \in Nat : n \in P
<1> DEFINE R == {p \in Nat \X Nat : p[1] < p[2]}
           T == Nat \ P
<1>1. IsWellFoundedOn(R, Nat)
  <2>1. R = OpToRel(<, Nat)
    BY Zenon DEF OpToRel
  <2>2. QED
    BY <2>1, NatLessThanWellFounded, Zenon
<1>2. SUFFICES ASSUME T # {} PROVE FALSE
  OBVIOUS
<1>3. PICK x \in T : \A y \in T : <<y, x>> \notin R
  <2>1. T \subseteq Nat
    OBVIOUS
  <2> HIDE DEF R, T
  <2>2. QED
    BY <1>1, <1>2, <2>1, WFMin
<1>4. x # 0 /\ x \in Nat /\ x - 1 \in Nat /\ x - 1 < x
  OBVIOUS
<1>5. x - 1 \in T
  BY <1>4
<1>6. <<x - 1, x>> \in R
  BY <1>4
<1>7. QED
  BY <1>3, <1>5, <1>6

(* The equation of Nested has a solution: one up to level k extends to     *)
(* level k + 1.                                                            *)
LEMMA NestedExists ==
    \E f : f = [n \in 0..MaxNesting |->
                  IF n = 0 THEN Leaf ELSE Leaf \union Combination(f[n - 1])]
<1> DEFINE Solves(f, k) ==
             f = [n \in 0..k |-> IF n = 0 THEN Leaf ELSE Leaf \union Combination(f[n - 1])]
           P == {k \in Nat : \E f : Solves(f, k)}
<1>1. 0 \in P
  <2>1. Solves([n \in 0..0 |-> Leaf], 0)
    OBVIOUS
  <2>2. QED
    BY <2>1
<1>2. ASSUME NEW k \in Nat, k \in P
      PROVE  k + 1 \in P
  <2>1. PICK f : Solves(f, k)
    BY <1>2
  <2>0. \A n \in 0..k : f[n] = IF n = 0 THEN Leaf ELSE Leaf \union Combination(f[n - 1])
    BY <2>1
  <2> DEFINE h == [n \in 0..(k + 1) |-> IF n = k + 1 THEN Leaf \union Combination(f[k]) ELSE f[n]]
  <2>2. ASSUME NEW n \in 0..(k + 1)
        PROVE  h[n] = IF n = 0 THEN Leaf ELSE Leaf \union Combination(h[n - 1])
    <3>1. CASE n = 0
      BY <2>1, <3>1
    <3>2. CASE n \in 1..k
      <4>1. h[n] = f[n] /\ h[n - 1] = f[n - 1]
        BY <3>2
      <4>2. n # 0 /\ n \in 0..k
        BY <3>2
      <4>3. f[n] = Leaf \union Combination(f[n - 1])
        BY <2>0, <4>2
      <4>4. QED
        BY <4>1, <4>2, <4>3, Zenon
    <3>3. CASE n = k + 1
      <4>1. h[n - 1] = f[k]
        BY <3>3
      <4>2. QED
        BY <3>3, <4>1
    <3>4. QED
      BY <3>1, <3>2, <3>3
  <2>3. Solves(h, k + 1)
    BY <2>2
  <2> HIDE DEF Solves, h
  <2>4. QED
    BY <2>3
<1>3. MaxNesting \in P
  <2> HIDE DEF P
  <2>1. QED
    BY <1>1, <1>2, SetInduction, NestingAssumption
<1>4. QED
  BY <1>3

(* Nested is such a solution.                                              *)
LEMMA NestedEquation ==
    Nested = [n \in 0..MaxNesting |->
                IF n = 0 THEN Leaf ELSE Leaf \union Combination(Nested[n - 1])]
  BY NestedExists, Zenon DEF Nested

(* The levels of nesting, one by one.                                      *)
LEMMA NestedLevels ==
    /\ Nested[0] = Leaf
    /\ \A n \in 0..MaxNesting :
         n + 1 \in 0..MaxNesting => Nested[n + 1] = Leaf \union Combination(Nested[n])
<1>1. \A n \in 0..MaxNesting :
        Nested[n] = IF n = 0 THEN Leaf ELSE Leaf \union Combination(Nested[n - 1])
  BY NestedEquation
<1>2. 0 \in 0..MaxNesting
  BY NestingAssumption
<1>3. ASSUME NEW n \in 0..MaxNesting, n + 1 \in 0..MaxNesting
      PROVE  Nested[n + 1] = Leaf \union Combination(Nested[n])
  <2>1. n + 1 # 0 /\ (n + 1) - 1 = n
    OBVIOUS
  <2>2. Nested[n + 1] = Leaf \union Combination(Nested[(n + 1) - 1])
    BY <1>1, <1>3, <2>1
  <2>3. QED
    BY <2>1, <2>2
<1>4. QED
  BY <1>1, <1>2, <1>3

(* More parts make more combinations.                                      *)
LEMMA CombinationGrows ==
    ASSUME NEW S, NEW T, S \subseteq T PROVE Combination(S) \subseteq Combination(T)
  BY DEF Combination

(* Every level contains the one below.                                     *)
LEMMA NestedGrows ==
    \A n \in 0..MaxNesting : n + 1 \in 0..MaxNesting => Nested[n] \subseteq Nested[n + 1]
<1> DEFINE P == {n \in Nat : n + 1 \in 0..MaxNesting => Nested[n] \subseteq Nested[n + 1]}
<1>1. 0 \in P
  BY NestedLevels, NestingAssumption
<1>2. ASSUME NEW n \in Nat, n \in P
      PROVE  n + 1 \in P
  <2> SUFFICES ASSUME n + 2 \in 0..MaxNesting
               PROVE  Nested[n + 1] \subseteq Nested[n + 2]
    OBVIOUS
  <2>1. n \in 0..MaxNesting /\ n + 1 \in 0..MaxNesting /\ (n + 1) + 1 = n + 2
    BY NestingAssumption
  <2>2. Nested[n] \subseteq Nested[n + 1]
    BY <1>2, <2>1
  <2>3. Nested[n + 1] = Leaf \union Combination(Nested[n])
    BY <2>1, NestedLevels
  <2>4. Nested[n + 2] = Leaf \union Combination(Nested[n + 1])
    BY <2>1, NestedLevels
  <2>5. QED
    BY <2>2, <2>3, <2>4, CombinationGrows
<1>3. \A n \in Nat : n \in P
  <2> HIDE DEF P
  <2>1. QED
    BY <1>1, <1>2, SetInduction
<1>4. QED
  BY <1>3

(* Every level is part of the last one.                                    *)
LEMMA NestedAreConditions == \A n \in 0..MaxNesting : Nested[n] \subseteq Condition
<1> DEFINE P == {n \in Nat : n <= MaxNesting => Nested[MaxNesting - n] \subseteq Condition}
<1>1. 0 \in P
  BY NestingAssumption DEF Condition
<1>2. ASSUME NEW n \in Nat, n \in P
      PROVE  n + 1 \in P
  <2> SUFFICES ASSUME n + 1 <= MaxNesting
               PROVE  Nested[MaxNesting - (n + 1)] \subseteq Condition
    OBVIOUS
  <2> DEFINE i == MaxNesting - (n + 1)
  <2>1. i \in 0..MaxNesting /\ i + 1 \in 0..MaxNesting /\ i + 1 = MaxNesting - n
    BY NestingAssumption
  <2>2. Nested[i] \subseteq Nested[i + 1]
    BY <2>1, NestedGrows
  <2>3. Nested[i + 1] \subseteq Condition
    BY <1>2, <2>1, NestingAssumption
  <2>4. QED
    BY <2>2, <2>3
<1>3. \A n \in Nat : n \in P
  <2> HIDE DEF P
  <2>1. QED
    BY <1>1, <1>2, SetInduction
<1>4. ASSUME NEW n \in 0..MaxNesting
      PROVE  Nested[n] \subseteq Condition
  <2>1. MaxNesting - n \in Nat /\ MaxNesting - n <= MaxNesting /\ MaxNesting - (MaxNesting - n) = n
    BY NestingAssumption
  <2>2. MaxNesting - n \in P
    BY <1>3, <2>1
  <2>3. QED
    BY <2>1, <2>2
<1>5. QED
  BY <1>4

(* A leaf has no parts.                                                    *)
LEMMA LeafParts == \A c \in Leaf : Parts(c) = {}
  BY DEF Leaf, Malformed, Parts

(* What a combination is made of.                                          *)
LEMMA CombinationParts ==
    ASSUME NEW S, NEW c \in Combination(S)
    PROVE  /\ c = [kind |-> c.kind, of |-> c.of]
           /\ c.kind \in {"and", "or", "not"}
           /\ c.of \subseteq S
           /\ Parts(c) = c.of
           /\ c.kind = "not" => \E p \in c.of : c.of = {p}
  BY DEF Combination, Parts

(* The parts of a condition are on the level below.                        *)
LEMMA PartsNested ==
    \A n \in 0..MaxNesting : n + 1 \in 0..MaxNesting =>
      \A c \in Nested[n + 1] : Parts(c) \subseteq Nested[n]
  BY NestedLevels, LeafParts, CombinationParts

(* The parts of a condition are conditions.                                *)
LEMMA PartsOfConditions == \A c \in Condition : Parts(c) \subseteq Condition
<1>1. \A n \in 0..MaxNesting : n + 1 = MaxNesting => Nested[n] \subseteq Condition
  BY NestedAreConditions
<1>2. /\ MaxNesting - 1 \in 0..MaxNesting /\ (MaxNesting - 1) + 1 = MaxNesting
      /\ MaxNesting \in 0..MaxNesting
  BY NestingAssumption
<1>3. QED
  BY <1>1, <1>2, PartsNested DEF Condition

(* Induction over conditions: what holds of a condition if it holds of its *)
(* parts holds of all of them.                                             *)
LEMMA ConditionInduction ==
    ASSUME NEW P, \A c \in Condition : Parts(c) \subseteq P => c \in P
    PROVE  \A c \in Condition : c \in P
<1> DEFINE Q == {n \in Nat : n \in 0..MaxNesting => Nested[n] \subseteq P}
<1>1. 0 \in Q
  BY NestedLevels, LeafParts, NestedAreConditions
<1>2. ASSUME NEW n \in Nat, n \in Q
      PROVE  n + 1 \in Q
  <2> SUFFICES ASSUME n + 1 \in 0..MaxNesting, NEW c \in Nested[n + 1]
               PROVE  c \in P
    OBVIOUS
  <2>1. n \in 0..MaxNesting
    BY NestingAssumption
  <2>2. Parts(c) \subseteq P
    BY <1>2, <2>1, PartsNested
  <2>3. c \in Condition
    BY NestedAreConditions
  <2>4. QED
    BY <2>2, <2>3
<1>3. \A n \in Nat : n \in Q
  <2> HIDE DEF Q
  <2>1. QED
    BY <1>1, <1>2, SetInduction
<1>4. QED
  BY <1>3, NestingAssumption DEF Condition

(* f computes what step makes of the results for the parts.                *)
IsFold(f, step) == \A x \in Condition : f[x] = step[<<{f[p] : p \in Parts(x)}, x>>]

(* Recursion over conditions: every step has such an f, level by level.    *)
LEMMA FoldExists ==
    ASSUME NEW R, NEW step \in [(SUBSET R) \X Condition -> R]
    PROVE  \E f \in [Condition -> R] : IsFold(f, step)
<1> DEFINE Solves(f, n) ==
             /\ f \in [Nested[n] -> R]
             /\ \A x \in Nested[n] : f[x] = step[<<{f[p] : p \in Parts(x)}, x>>]
           P == {n \in Nat : n \in 0..MaxNesting => \E f : Solves(f, n)}
<1>1. 0 \in P
  <2> DEFINE h == [x \in Leaf |-> step[<<{}, x>>]]
  <2>1. Nested[0] = Leaf /\ 0 \in 0..MaxNesting
    BY NestedLevels, NestingAssumption
  <2>2. Leaf \subseteq Condition
    BY <2>1, NestedAreConditions
  <2>3. h \in [Leaf -> R]
    BY <2>2
  <2>4. \A x \in Leaf : h[x] = step[<<{h[p] : p \in Parts(x)}, x>>]
    BY LeafParts
  <2> HIDE DEF h
  <2>5. Solves(h, 0)
    BY <2>1, <2>3, <2>4
  <2> HIDE DEF Solves
  <2>6. QED
    BY <2>5
<1>2. ASSUME NEW n \in Nat, n \in P
      PROVE  n + 1 \in P
  <2>0. SUFFICES ASSUME n + 1 \in 0..MaxNesting
                 PROVE  \E f : Solves(f, n + 1)
    <3> HIDE DEF Solves
    <3>1. QED
      OBVIOUS
  <2>1. n \in 0..MaxNesting
    BY <2>0, NestingAssumption
  <2>2. PICK g : Solves(g, n)
    <3> HIDE DEF Solves
    <3>1. QED
      BY <1>2, <2>1
  <2> DEFINE h == [x \in Nested[n + 1] |-> step[<<{g[p] : p \in Parts(x)}, x>>]]
  <2>3. \A x \in Nested[n + 1] : x \in Condition /\ Parts(x) \subseteq Nested[n]
    BY <2>0, <2>1, NestedAreConditions, PartsNested
  <2>4. h \in [Nested[n + 1] -> R]
    <3>1. \A x \in Nested[n + 1] : {g[p] : p \in Parts(x)} \in SUBSET R
      BY <2>2, <2>3
    <3>2. QED
      BY <2>3, <3>1
  <2>5. \A p \in Nested[n] : h[p] = g[p]
    <3>1. Nested[n] \subseteq Nested[n + 1]
      BY <2>0, <2>1, NestedGrows
    <3>2. QED
      BY <2>2, <3>1
  <2>6. \A x \in Nested[n + 1] : h[x] = step[<<{h[p] : p \in Parts(x)}, x>>]
    <3>1. \A x \in Nested[n + 1] : h[x] = step[<<{g[p] : p \in Parts(x)}, x>>]
      OBVIOUS
    <3> HIDE DEF h
    <3>2. \A x \in Nested[n + 1] : {h[p] : p \in Parts(x)} = {g[p] : p \in Parts(x)}
      BY <2>3, <2>5
    <3>3. QED
      BY <3>1, <3>2
  <2> HIDE DEF h
  <2>7. Solves(h, n + 1)
    BY <2>4, <2>6
  <2> HIDE DEF Solves
  <2>8. QED
    BY <2>7
<1>3. MaxNesting \in P
  <2> HIDE DEF P
  <2>1. QED
    BY <1>1, <1>2, SetInduction, NestingAssumption
<1>4. MaxNesting \in 0..MaxNesting
  BY NestingAssumption
<1>5. PICK f : Solves(f, MaxNesting)
  <2> HIDE DEF Solves
  <2>1. QED
    BY <1>3, <1>4
<1>6. QED
  BY <1>5 DEF Condition, IsFold

(* evaluate_condition calls itself for the parts, and returns a Boolean.   *)
LEMMA EvaluateEquation ==
    ASSUME NEW context
    PROVE  \A c \in Condition :
             /\ Evaluate(c, context) \in BOOLEAN
             /\ Evaluate(c, context)
                  = EvaluateWith({Evaluate(p, context) : p \in Parts(c)}, c, context)
<1> DEFINE step == [a \in (SUBSET BOOLEAN) \X Condition |-> EvaluateWith(a[1], a[2], context)]
           value == CHOOSE f :
             f = [x \in Condition |-> EvaluateWith({f[p] : p \in Parts(x)}, x, context)]
<1>1. \A parts, c : EvaluateWith(parts, c, context) \in BOOLEAN
  BY Zenon DEF EvaluateWith, EvaluateField
<1>2. step \in [(SUBSET BOOLEAN) \X Condition -> BOOLEAN]
  <2> HIDE DEF value
  <2>1. QED
    BY <1>1, Zenon
<1>3. \A parts \in SUBSET BOOLEAN : \A x \in Condition :
        step[<<parts, x>>] = EvaluateWith(parts, x, context)
  OBVIOUS
<1>4. \A x : Evaluate(x, context) = value[x]
  BY DEF Evaluate
<1> HIDE DEF step
<1>5. PICK f \in [Condition -> BOOLEAN] : IsFold(f, step)
  BY <1>2, FoldExists
<1>6. \A x \in Condition : f[x] = EvaluateWith({f[p] : p \in Parts(x)}, x, context)
  <2>1. \A x \in Condition : {f[p] : p \in Parts(x)} \in SUBSET BOOLEAN
    BY <1>5, PartsOfConditions, Zenon
  <2>2. QED
    BY <1>3, <1>5, <2>1 DEF IsFold
<1>7. f = [x \in Condition |-> EvaluateWith({f[p] : p \in Parts(x)}, x, context)]
  BY <1>5, <1>6
<1>8. value = [x \in Condition |-> EvaluateWith({value[p] : p \in Parts(x)}, x, context)]
  BY <1>7
<1> HIDE DEF value
<1>9. \A x \in Condition : value[x] = EvaluateWith({value[p] : p \in Parts(x)}, x, context)
  BY <1>8
<1>10. QED
  BY <1>1, <1>4, <1>9

(* The values of the three-valued logic.                                   *)
TruthValues == {"true", "false", "unknown"}

(* The reference definition is the fold it says it is.                     *)
LEMMA TruthEquation ==
    ASSUME NEW context
    PROVE  \A c \in Condition :
             /\ Truth(c, context) \in TruthValues
             /\ Truth(c, context)
                  = TruthWith({Truth(p, context) : p \in Parts(c)}, c, context)
<1> DEFINE step == [a \in (SUBSET TruthValues) \X Condition |-> TruthWith(a[1], a[2], context)]
           truth == CHOOSE f :
             f = [x \in Condition |-> TruthWith({f[p] : p \in Parts(x)}, x, context)]
<1>1. \A parts, c : TruthWith(parts, c, context) \in TruthValues
  BY DEF TruthWith, TruthValues
<1>2. step \in [(SUBSET TruthValues) \X Condition -> TruthValues]
  <2> HIDE DEF truth
  <2>1. QED
    BY <1>1, Zenon
<1>3. \A parts \in SUBSET TruthValues : \A x \in Condition :
        step[<<parts, x>>] = TruthWith(parts, x, context)
  OBVIOUS
<1>4. \A x : Truth(x, context) = truth[x]
  BY DEF Truth
<1> HIDE DEF step
<1>5. PICK f \in [Condition -> TruthValues] : IsFold(f, step)
  BY <1>2, FoldExists
<1>6. \A x \in Condition : f[x] = TruthWith({f[p] : p \in Parts(x)}, x, context)
  <2>1. \A x \in Condition : {f[p] : p \in Parts(x)} \in SUBSET TruthValues
    BY <1>5, PartsOfConditions, Zenon
  <2>2. QED
    BY <1>3, <1>5, <2>1 DEF IsFold
<1>7. f = [x \in Condition |-> TruthWith({f[p] : p \in Parts(x)}, x, context)]
  BY <1>5, <1>6
<1>8. truth = [x \in Condition |-> TruthWith({truth[p] : p \in Parts(x)}, x, context)]
  BY <1>7
<1> HIDE DEF truth
<1>9. \A x \in Condition : truth[x] = TruthWith({truth[p] : p \in Parts(x)}, x, context)
  BY <1>8
<1>10. QED
  BY <1>1, <1>4, <1>9

(* A condition negates if it or a part of it does.                         *)
LEMMA NegatesEquation ==
    \A c \in Condition : Negates(c) <=> c.kind = "not" \/ \E p \in Parts(c) : Negates(p)
<1> DEFINE step == [a \in (SUBSET BOOLEAN) \X Condition |-> a[2].kind = "not" \/ TRUE \in a[1]]
           negates == CHOOSE f :
             f = [x \in Condition |-> x.kind = "not" \/ \E p \in Parts(x) : f[p]]
<1>1. step \in [(SUBSET BOOLEAN) \X Condition -> BOOLEAN]
  <2> HIDE DEF negates
  <2>1. QED
    BY Zenon
<1>2. \A parts \in SUBSET BOOLEAN : \A x \in Condition :
        step[<<parts, x>>] = (x.kind = "not" \/ TRUE \in parts)
  OBVIOUS
<1>3. \A x : Negates(x) = negates[x]
  BY DEF Negates
<1> HIDE DEF step
<1>4. PICK f \in [Condition -> BOOLEAN] : IsFold(f, step)
  BY <1>1, FoldExists
<1>5. \A x \in Condition : f[x] = (x.kind = "not" \/ \E p \in Parts(x) : f[p])
  <2> TAKE x \in Condition
  <2>1. {f[p] : p \in Parts(x)} \in SUBSET BOOLEAN
    BY <1>4, PartsOfConditions, Zenon
  <2>2. f[x] = (x.kind = "not" \/ TRUE \in {f[p] : p \in Parts(x)})
    BY <1>2, <1>4, <2>1 DEF IsFold
  <2>3. TRUE \in {f[p] : p \in Parts(x)} <=> \E p \in Parts(x) : f[p]
    <3>1. \A p \in Parts(x) : f[p] \in BOOLEAN
      BY <1>4, PartsOfConditions, Zenon
    <3>2. QED
      BY <3>1, Zenon
  <2>4. QED
    BY <2>2, <2>3, Zenon
<1>6. f = [x \in Condition |-> x.kind = "not" \/ \E p \in Parts(x) : f[p]]
  BY <1>4, <1>5, Zenon
<1>7. negates = [x \in Condition |-> x.kind = "not" \/ \E p \in Parts(x) : negates[p]]
  BY <1>6, Zenon
<1> HIDE DEF negates
<1>8. \A x \in Condition : negates[x] <=> x.kind = "not" \/ \E p \in Parts(x) : negates[p]
  BY <1>7, Zenon
<1>9. QED
  BY <1>3, <1>8, Zenon

(* What evaluate_condition returns, next to the three-valued logic.        *)
Agrees(c, context) ==
    /\ Truth(c, context) = "true" => Evaluate(c, context) = TRUE
    /\ Truth(c, context) = "false" => Evaluate(c, context) = FALSE
    /\ Truth(c, context) = "unknown" /\ ~Negates(c) => Evaluate(c, context) = FALSE

(* The combinators, as Python evaluates them.                              *)
LEMMA PartsEvaluated ==
    ASSUME NEW context, NEW c \in Condition
    PROVE  /\ c.kind = "and" =>
                (Evaluate(c, context) = TRUE <=> \A p \in Parts(c) : Evaluate(p, context) = TRUE)
           /\ c.kind = "or" =>
                (Evaluate(c, context) = TRUE <=> \E p \in Parts(c) : Evaluate(p, context) = TRUE)
           /\ c.kind = "not" =>
                (Evaluate(c, context) = TRUE <=> \A p \in Parts(c) : Evaluate(p, context) = FALSE)
           /\ c.kind = "field" => (Evaluate(c, context) = TRUE <=> EvaluateField(c, context))
           /\ c.kind = "malformed" => Evaluate(c, context) = FALSE
<1> DEFINE parts == {Evaluate(p, context) : p \in Parts(c)}
<1>1. \A p \in Parts(c) : Evaluate(p, context) \in BOOLEAN
  BY EvaluateEquation, PartsOfConditions
<1>2. Evaluate(c, context) <=> EvaluateWith(parts, c, context)
  BY EvaluateEquation
<1>3. FALSE \notin parts <=> \A p \in Parts(c) : Evaluate(p, context) = TRUE
  BY <1>1, Zenon
<1>4. TRUE \in parts <=> \E p \in Parts(c) : Evaluate(p, context) = TRUE
  BY <1>1, Zenon
<1>5. TRUE \notin parts <=> \A p \in Parts(c) : Evaluate(p, context) = FALSE
  BY <1>1, Zenon
<1>6. Evaluate(c, context) \in BOOLEAN
  BY EvaluateEquation
<1> HIDE DEF parts
<1>7. /\ c.kind = "and" => (EvaluateWith(parts, c, context) <=> FALSE \notin parts)
      /\ c.kind = "or" => (EvaluateWith(parts, c, context) <=> TRUE \in parts)
      /\ c.kind = "not" => (EvaluateWith(parts, c, context) <=> TRUE \notin parts)
      /\ c.kind = "field" => (EvaluateWith(parts, c, context) <=> EvaluateField(c, context))
      /\ c.kind = "malformed" => ~EvaluateWith(parts, c, context)
  BY DEF EvaluateWith
<1>8. QED
  BY <1>2, <1>3, <1>4, <1>5, <1>6, <1>7, Zenon

(* A condition is malformed, one of a field, or a combination.             *)
LEMMA ConditionKinds ==
    \A c \in Condition : \/ c = Malformed /\ c.kind = "malformed"
                         \/ c.kind = "field" /\ c \in Leaf
                         \/ /\ c.kind \in {"and", "or", "not"}
                            /\ c \in Combination(Condition)
<1>1. /\ MaxNesting - 1 \in 0..MaxNesting /\ (MaxNesting - 1) + 1 = MaxNesting
      /\ MaxNesting \in 0..MaxNesting
  BY NestingAssumption
<1>2. Condition = Leaf \union Combination(Nested[MaxNesting - 1])
  BY <1>1, NestedLevels DEF Condition
<1>3. Combination(Nested[MaxNesting - 1]) \subseteq Combination(Condition)
  BY <1>1, NestedAreConditions, CombinationGrows
<1>4. \A c \in Leaf : (c = Malformed /\ c.kind = "malformed") \/ c.kind = "field"
  BY DEF Leaf, Malformed
<1>5. QED
  BY <1>2, <1>3, <1>4, CombinationParts

(* A condition of any nesting evaluates to its truth value where it has    *)
(* one, and to False where it has none and nothing is negated.             *)
LEMMA EvaluationAgrees ==
    ASSUME NEW context
    PROVE  \A c \in Condition : Agrees(c, context)
<1> DEFINE P == {c \in Condition : Agrees(c, context)}
<1>1. ASSUME NEW c \in Condition, Parts(c) \subseteq P
      PROVE  Agrees(c, context)
  <2> DEFINE truths == {Truth(p, context) : p \in Parts(c)}
  <2>1. Truth(c, context) = TruthWith(truths, c, context)
    BY TruthEquation
  <2>2. \A p \in Parts(c) : Agrees(p, context) /\ Truth(p, context) \in TruthValues
    BY <1>1, TruthEquation
  <2>3. \A v : v \in truths <=> \E p \in Parts(c) : Truth(p, context) = v
    OBVIOUS
  <2>4. Evaluate(c, context) \in BOOLEAN
    BY EvaluateEquation
  <2> HIDE DEF P, truths
  <2>5. CASE c.kind = "and"
    <3>1. /\ Truth(c, context) = "true" => \A p \in Parts(c) : Truth(p, context) = "true"
          /\ Truth(c, context) = "false" => \E p \in Parts(c) : Truth(p, context) = "false"
          /\ Truth(c, context) = "unknown" => \E p \in Parts(c) : Truth(p, context) = "unknown"
      BY <2>1, <2>2, <2>3, <2>5 DEF TruthWith, TruthValues
    <3>2. \A p \in Parts(c) : Negates(p) => Negates(c)
      BY NegatesEquation
    <3>3. Evaluate(c, context) = TRUE <=> \A p \in Parts(c) : Evaluate(p, context) = TRUE
      BY <2>5, PartsEvaluated
    <3>4. QED
      BY <2>2, <2>4, <3>1, <3>2, <3>3, Zenon DEF Agrees
  <2>6. CASE c.kind = "or"
    <3>1. /\ Truth(c, context) = "true" => \E p \in Parts(c) : Truth(p, context) = "true"
          /\ Truth(c, context) = "false" => \A p \in Parts(c) : Truth(p, context) = "false"
          /\ Truth(c, context) = "unknown" =>
               \A p \in Parts(c) : Truth(p, context) \in {"false", "unknown"}
      BY <2>1, <2>2, <2>3, <2>6 DEF TruthWith, TruthValues
    <3>2. \A p \in Parts(c) : Negates(p) => Negates(c)
      BY NegatesEquation
    <3>3. Evaluate(c, context) = TRUE <=> \E p \in Parts(c) : Evaluate(p, context) = TRUE
      BY <2>6, PartsEvaluated
    <3>4. QED
      BY <2>2, <2>4, <3>1, <3>2, <3>3, Zenon DEF Agrees
  <2>7. CASE c.kind = "not"
    <3>1. /\ Truth(c, context) = "true" => truths = {"false"}
          /\ Truth(c, context) = "false" => truths = {"true"}
      BY <2>1, <2>7 DEF TruthWith
    <3>2. Negates(c)
      BY <2>7, NegatesEquation
    <3>3. Evaluate(c, context) = TRUE <=> \A p \in Parts(c) : Evaluate(p, context) = FALSE
      BY <2>7, PartsEvaluated
    <3>4. /\ truths = {"false"} => \A p \in Parts(c) : Evaluate(p, context) = FALSE
          /\ truths = {"true"} => \E p \in Parts(c) : Evaluate(p, context) = TRUE
      BY <2>2, <2>3 DEF Agrees
    <3>5. QED
      BY <2>4, <3>1, <3>2, <3>3, <3>4, Zenon DEF Agrees
  <2>8. CASE c.kind = "field"
    <3> DEFINE known == c.field \in DOMAIN context
               applies == Applies(c.op, context[c.field], c.value)
               holds == Holds(c.op, context[c.field], c.value)
    <3>1. EvaluateField(c, context) <=> known /\ applies /\ holds
      BY Zenon DEF EvaluateField
    <3>2. Truth(c, context) = IF known /\ applies THEN IF holds THEN "true" ELSE "false"
                                                 ELSE "unknown"
      BY <2>1, <2>8 DEF TruthWith
    <3> HIDE DEF known, applies, holds
    <3>3. known /\ applies /\ holds => Truth(c, context) = "true"
      BY <3>2
    <3>4. Truth(c, context) = "true" => known /\ applies /\ holds
      BY <3>2
    <3>5. Truth(c, context) = "true" <=> EvaluateField(c, context)
      BY <3>1, <3>3, <3>4, Zenon
    <3>6. QED
      BY <2>4, <2>8, <3>5, PartsEvaluated, Zenon DEF Agrees
  <2>9. CASE c.kind = "malformed"
    <3>1. Truth(c, context) = "unknown"
      BY <2>1, <2>9 DEF TruthWith
    <3>2. QED
      BY <2>9, <3>1, PartsEvaluated DEF Agrees
  <2>10. QED
    BY <2>5, <2>6, <2>7, <2>8, <2>9, ConditionKinds
<1>2. \A c \in Condition : Parts(c) \subseteq P => c \in P
  BY <1>1
<1>3. \A c \in Condition : c \in P
  <2> HIDE DEF P
  <2>1. QED
    BY <1>2, ConditionInduction
<1>4. QED
  BY <1>3

-----------------------------------------------------------------------------
(* The way through the form.                                              *)

(* The form shows a field condition as a row.                              *)
LEMMA RowTyped ==
    \A c \in Leaf : c.kind = "field" => RowOf(c) \in Row
<1> SUFFICES ASSUME NEW c \in Leaf, c.kind = "field" PROVE RowOf(c) \in Row
  OBVIOUS
<1>1. c.field \in Names /\ c.op \in Operators /\ c.value \in Value
  BY DEF Leaf, Malformed
<1>2. \A x \in Scalar : x.text \in Text
  BY DEF Scalar, Text, None, Empty
<1>3. CASE c.value.type = "list"
  <2>1. \A x \in Scalar : x.type # "list"
    BY DEF Scalar, None
  <2>2. c.value.of \subseteq Scalar
    BY <1>1, <1>3, <2>1 DEF Value
  <2>3. {x.text : x \in c.value.of} \subseteq Text
    BY <1>2, <2>2
  <2>4. QED
    BY <1>1, <1>3, <2>3 DEF RowOf, Row
<1>4. CASE c.value.type # "list"
  <2>1. c.value \in Scalar
    BY <1>1, <1>4 DEF Value
  <2>2. {c.value.text} \subseteq Text
    BY <1>2, <2>1
  <2>3. QED
    BY <1>1, <1>4, <2>2 DEF RowOf, Row
<1>5. QED
  BY <1>3, <1>4

(* Field conditions are leaves.                                            *)
LEMMA FieldConditions ==
    \A c \in Condition : c.kind = "field" => c \in Leaf
  BY ConditionKinds

(* The form can be filled from any condition.                              *)
LEMMA ParseTyped ==
    \A c \in Condition : ParseConditions(c) \in Form
<1> SUFFICES ASSUME NEW c \in Condition PROVE ParseConditions(c) \in Form
  OBVIOUS
<1> DEFINE flat == {x \in Parts(c) : x.kind = "field"}
<1>1. \A x \in flat : RowOf(x) \in Row
  BY FieldConditions, RowTyped, PartsOfConditions
<1>2. {RowOf(x) : x \in flat} \subseteq Row
  BY <1>1
<1>3. DefaultRow \in Row
  <2>1. "amount" \in Names /\ "gt" \in Operators /\ {2} \in SUBSET Text
    BY NamesAssumption DEF Text, Operators
  <2>2. QED
    BY <2>1 DEF DefaultRow, Row
<1> HIDE DEF flat
<1>4. CASE c.kind = "field"
  <2>1. ParseConditions(c) = [combinator |-> "and", rows |-> {RowOf(c)}]
    BY <1>4 DEF ParseConditions
  <2>2. RowOf(c) \in Row
    BY <1>4, FieldConditions, RowTyped
  <2>3. QED
    BY <2>1, <2>2 DEF Form
<1>5. CASE c.kind \in {"and", "or"} /\ flat # {}
  <2>1. ParseConditions(c) = [combinator |-> c.kind, rows |-> {RowOf(x) : x \in flat}]
    BY <1>5 DEF ParseConditions, flat
  <2>2. QED
    BY <1>2, <1>5, <2>1 DEF Form
<1>6. CASE c.kind # "field" /\ ~(c.kind \in {"and", "or"} /\ flat # {})
  <2>1. ParseConditions(c) = [combinator |-> "and", rows |-> {DefaultRow}]
    BY <1>6 DEF ParseConditions, flat
  <2>2. QED
    BY <1>3, <2>1 DEF Form
<1>7. QED
  BY <1>4, <1>5, <1>6

(* Whatever is typed becomes a value.                                      *)
LEMMA ValueTyped ==
    ASSUME NEW field \in Names, NEW op \in Operators, NEW texts \in SUBSET Text
    PROVE  ParseValue(field, op, texts) \in Value
<1> DEFINE text == CASE texts = {} -> Empty
                     [] \E x \in texts : texts = {x} -> CHOOSE x \in texts : TRUE
                     [] OTHER -> Joined
<1>1. text \in Text
  BY DEF Text
<1>2. CASE op \in {"in", "not_in"}
  <2>1. ParseValue(field, op, texts) = ListOf({Str(x) : x \in {Trim(y) : y \in texts} \ {Empty}})
    BY <1>2 DEF ParseValue, Items
  <2>2. \A x \in Text : Str(Trim(x)) \in Scalar
    BY DEF Str, Scalar, Trim, Text
  <2>3. {Str(x) : x \in {Trim(y) : y \in texts} \ {Empty}} \subseteq Scalar
    BY <2>2
  <2>4. QED
    BY <2>1, <2>3 DEF ListOf, Value
<1>3. CASE op \notin {"in", "not_in"} /\ FieldType(field) = "num"
  <2>1. ParseValue(field, op, texts) = Num(IF text \in Nat THEN text ELSE 0)
    BY <1>3 DEF ParseValue
  <2>2. (IF text \in Nat THEN text ELSE 0) \in Nat
    OBVIOUS
  <2> HIDE DEF text
  <2>3. QED
    BY <2>1, <2>2 DEF Num, Scalar, Value
<1>4. CASE op \notin {"in", "not_in"} /\ FieldType(field) # "num"
  <2>1. ParseValue(field, op, texts) = Str(Trim(text))
    BY <1>4 DEF ParseValue
  <2> HIDE DEF text
  <2>2. Trim(text) \in Text
    BY <1>1 DEF Trim, Text
  <2>3. QED
    BY <2>1, <2>2 DEF Str, Scalar, Value
<1>5. QED
  BY <1>2, <1>3, <1>4

(* The clause of a row, and those of a form.                               *)
Clause(r) == Field(r.field, r.op, ParseValue(r.field, r.op, r.texts))

Clauses(f) == {Clause(r) : r \in {x \in f.rows : x.field # "" /\ x.op # ""}}

(* The condition of a form depends on how many clauses it has.             *)
LEMMA BuildByClauses ==
    \A f : /\ Clauses(f) = {} => BuildConditions(f) = Field("amount", "gt", Num(0))
           /\ \A c : Clauses(f) = {c} => BuildConditions(f) = c
           /\ Clauses(f) # {} /\ (\A c : Clauses(f) # {c}) =>
                BuildConditions(f) = [kind |-> f.combinator, of |-> Clauses(f)]
<1> TAKE f
<1> DEFINE S == Clauses(f)
<1>1. BuildConditions(f) =
        CASE S = {} -> Field("amount", "gt", Num(0))
          [] \E c \in S : S = {c} -> CHOOSE c \in S : TRUE
          [] OTHER -> [kind |-> f.combinator, of |-> S]
  BY Zenon DEF BuildConditions, Clauses, Clause
<1> HIDE DEF S
<1>2. /\ S = {} => BuildConditions(f) = Field("amount", "gt", Num(0))
      /\ S # {} /\ (\A c : S # {c}) =>
           BuildConditions(f) = [kind |-> f.combinator, of |-> S]
  BY <1>1
<1>3. ASSUME NEW c, S = {c}
      PROVE  BuildConditions(f) = c
  <2>1. BuildConditions(f) = CHOOSE x \in S : TRUE
    BY <1>1, <1>3
  <2>2. (CHOOSE x \in S : TRUE) \in S
    BY <1>3
  <2>3. QED
    BY <1>3, <2>1, <2>2
<1>4. QED
  BY <1>2, <1>3 DEF S

(* Leaves, and combinators of leaves, are conditions.                      *)
LEMMA LeafIsCondition ==
    /\ Leaf \subseteq Condition
    /\ \A S \in SUBSET Leaf : \A k \in {"and", "or"} : [kind |-> k, of |-> S] \in Condition
<1>1. 0 \in 0..MaxNesting /\ 0 + 1 = 1 /\ 1 \in 0..MaxNesting
  BY NestingAssumption
<1>2. Nested[0] \subseteq Condition /\ Nested[1] \subseteq Condition
  BY <1>1, NestedAreConditions
<1>3. Nested[0] = Leaf /\ Nested[1] = Leaf \union Combination(Leaf)
  BY <1>1, NestedLevels
<1>4. \A S \in SUBSET Leaf : \A k \in {"and", "or"} : [kind |-> k, of |-> S] \in Combination(Leaf)
  BY DEF Combination
<1>5. QED
  BY <1>2, <1>3, <1>4

(* Every form can be saved as a condition.                                 *)
LEMMA BuildTyped ==
    \A f \in Form : BuildConditions(f) \in Condition
<1> SUFFICES ASSUME NEW f \in Form PROVE BuildConditions(f) \in Condition
  OBVIOUS
<1>1. f.combinator \in {"and", "or"} /\ f.rows \subseteq Row
  BY DEF Form
<1>2. \A r \in Row : Clause(r) \in Leaf
  <2>1. \A r \in Row : r.field \in Names /\ r.op \in Operators /\ r.texts \in SUBSET Text
    BY DEF Row
  <2>2. \A r \in Row : ParseValue(r.field, r.op, r.texts) \in Value
    BY <2>1, ValueTyped
  <2>3. QED
    BY <2>1, <2>2 DEF Clause, Field, Leaf
<1>3. Clauses(f) \subseteq Leaf
  BY <1>1, <1>2 DEF Clauses
<1>4. Field("amount", "gt", Num(0)) \in Leaf
  <2>1. "amount" \in Names /\ "gt" \in Operators
    BY NamesAssumption DEF Operators
  <2>2. Num(0) \in Value
    BY DEF Num, Value, Scalar
  <2>3. QED
    BY <2>1, <2>2 DEF Field, Leaf
<1>5. QED
  BY <1>1, <1>3, <1>4, BuildByClauses, LeafIsCondition

(* A value of the field's type survives its way through the form.          *)
LEMMA ValueRestored ==
    ASSUME NEW c \in Leaf, c.kind = "field", Typed(c)
    PROVE  ParseValue(c.field, c.op, RowOf(c).texts) = c.value
<1>1. c.field \in Names /\ c.op \in Operators /\ c.value \in Value
  BY DEF Leaf, Malformed
<1> DEFINE texts == RowOf(c).texts
           text == CASE texts = {} -> Empty
                     [] \E x \in texts : texts = {x} -> CHOOSE x \in texts : TRUE
                     [] OTHER -> Joined
<1>2. texts = IF c.value.type = "list" THEN {x.text : x \in c.value.of} ELSE {c.value.text}
  BY DEF RowOf
<1>3. CASE c.op \in {"in", "not_in"}
  <2>1. ParseValue(c.field, c.op, texts) = ListOf({Str(x) : x \in {Trim(y) : y \in texts} \ {Empty}})
    BY <1>3 DEF ParseValue, Items
  <2>2. /\ c.value.type = "list"
        /\ \A x \in c.value.of : x.type = "str" /\ x.text # Empty /\ Trim(x.text) = x.text
    BY <1>3 DEF Typed, Trim
  <2>3. \A x \in Scalar : x.type # "list" /\ (x.type = "str" => x = Str(x.text))
    BY DEF Scalar, None, Str
  <2>4. c.value.of \subseteq Scalar /\ c.value = ListOf(c.value.of)
    BY <1>1, <2>2, <2>3 DEF Value, ListOf
  <2>5. {Trim(y) : y \in texts} \ {Empty} = {x.text : x \in c.value.of}
    <3>1. texts = {x.text : x \in c.value.of}
      BY <1>2, <2>2
    <3> HIDE DEF texts
    <3>2. \A y \in texts : Trim(y) = y /\ y # Empty
      BY <2>2, <3>1
    <3>3. {Trim(y) : y \in texts} = texts
      BY <3>2
    <3>4. QED
      BY <3>1, <3>2, <3>3
  <2>6. {Str(x) : x \in {Trim(y) : y \in texts} \ {Empty}} = c.value.of
    <3>1. \A x \in c.value.of : x = Str(x.text)
      BY <2>2, <2>3, <2>4
    <3> DEFINE trimmed == {Trim(y) : y \in texts} \ {Empty}
    <3>2. trimmed = {x.text : x \in c.value.of}
      BY <2>5
    <3> HIDE DEF trimmed
    <3>3. {Str(x) : x \in trimmed} = c.value.of
      BY <3>1, <3>2
    <3>4. QED
      BY <3>3 DEF trimmed
  <2>7. QED
    BY <2>1, <2>4, <2>6
<1>4. CASE c.op \notin {"in", "not_in"}
  <2>1. c.value.type = FieldType(c.field) /\ c.value.type \in {"num", "str"}
    BY <1>4 DEF Typed, FieldType
  <2>2. c.value \in Scalar
    BY <1>1, <2>1 DEF Value
  <2>3. texts = {c.value.text}
    BY <1>2, <2>1
  <2>4. text = c.value.text
    <3> HIDE DEF texts
    <3>1. \A x \in texts : x = c.value.text
      BY <2>3
    <3>2. (CHOOSE x \in texts : TRUE) \in texts
      BY <2>3
    <3>3. text = CHOOSE x \in texts : TRUE
      BY <2>3
    <3>4. QED
      BY <3>1, <3>2, <3>3
  <2>5. CASE c.value.type = "num"
    <3>1. ParseValue(c.field, c.op, texts) = Num(IF text \in Nat THEN text ELSE 0)
      BY <1>4, <2>1, <2>5 DEF ParseValue
    <3>2. c.value.text \in Nat /\ c.value = Num(c.value.text)
      BY <2>2, <2>5 DEF Scalar, None, Num
    <3> HIDE DEF text
    <3>3. QED
      BY <2>4, <3>1, <3>2
  <2>6. CASE c.value.type = "str"
    <3>1. ParseValue(c.field, c.op, texts) = Str(Trim(text))
      BY <1>4, <2>1, <2>6 DEF ParseValue
    <3>2. c.value = Str(c.value.text) /\ Trim(c.value.text) = c.value.text
      BY <1>4, <2>2, <2>6 DEF Scalar, None, Str, Typed, Trim
    <3> HIDE DEF text
    <3>3. QED
      BY <2>4, <3>1, <3>2
  <2>7. QED
    BY <2>1, <2>5, <2>6
<1>5. QED
  BY <1>3, <1>4

(* So does a field condition the form can show.                            *)
LEMMA ClauseRestored ==
    ASSUME NEW c \in Leaf, c.kind = "field", Typed(c)
    PROVE  Clause(RowOf(c)) = c /\ RowOf(c).field # "" /\ RowOf(c).op # ""
<1>1. RowOf(c).field = c.field /\ RowOf(c).op = c.op
  BY DEF RowOf
<1>2. c = Field(c.field, c.op, c.value)
  BY DEF Leaf, Malformed, Field
<1>3. ParseValue(c.field, c.op, RowOf(c).texts) = c.value
  BY ValueRestored
<1>4. QED
  BY <1>1, <1>2, <1>3 DEF Clause, Typed

(* A condition the form can show comes back as it was, or as its only part.*)
LEMMA RoundTrip ==
    ASSUME NEW c \in Condition, Expressible(c)
    PROVE  \/ BuildConditions(ParseConditions(c)) = c
           \/ /\ c.kind \in {"and", "or"}
              /\ c.of = {BuildConditions(ParseConditions(c))}
<1> DEFINE f == ParseConditions(c)
<1>1. CASE c.kind = "field"
  <2>1. f.rows = {RowOf(c)}
    BY <1>1 DEF ParseConditions
  <2>2. c \in Leaf /\ Typed(c)
    BY <1>1, FieldConditions DEF Expressible
  <2>3. Clause(RowOf(c)) = c /\ RowOf(c).field # "" /\ RowOf(c).op # ""
    BY <1>1, <2>2, ClauseRestored
  <2> HIDE DEF f
  <2>4. Clauses(f) = {c}
    <3>1. {r \in f.rows : r.field # "" /\ r.op # ""} = {RowOf(c)}
      BY <2>1, <2>3
    <3>2. {Clause(r) : r \in {RowOf(c)}} = {c}
      BY <2>3
    <3>3. QED
      BY <3>1, <3>2, Zenon DEF Clauses
  <2>5. QED
    BY <2>4, BuildByClauses DEF f
<1>2. CASE c.kind # "field"
  <2>1. /\ c.kind \in {"and", "or"} /\ c.of # {}
        /\ \A x \in c.of : x.kind = "field" /\ Typed(x)
    BY <1>2 DEF Expressible
  <2>2. c.of \subseteq Condition /\ Parts(c) = c.of /\ c = [kind |-> c.kind, of |-> c.of]
    BY <2>1, ConditionKinds, CombinationParts
  <2>3. f = [combinator |-> c.kind, rows |-> {RowOf(x) : x \in c.of}]
    <3>1. {x \in Parts(c) : x.kind = "field"} = c.of
      BY <2>1, <2>2
    <3>2. QED
      BY <2>1, <3>1 DEF ParseConditions
  <2>4. \A x \in c.of : Clause(RowOf(x)) = x /\ RowOf(x).field # "" /\ RowOf(x).op # ""
    BY <2>1, <2>2, FieldConditions, ClauseRestored
  <2> HIDE DEF f
  <2>5. Clauses(f) = c.of
    <3>1. f.rows = {RowOf(x) : x \in c.of}
      BY <2>3
    <3>2. {r \in f.rows : r.field # "" /\ r.op # ""} = {RowOf(x) : x \in c.of}
      BY <2>4, <3>1
    <3>3. {Clause(r) : r \in {RowOf(x) : x \in c.of}} = c.of
      BY <2>4
    <3>4. QED
      BY <3>2, <3>3, Zenon DEF Clauses
  <2>6. CASE \E x : c.of = {x}
    <3>1. PICK x : c.of = {x}
      BY <2>6
    <3>2. BuildConditions(f) = x
      BY <2>5, <3>1, BuildByClauses
    <3>3. QED
      BY <2>1, <3>1, <3>2 DEF f
  <2>7. CASE \A x : c.of # {x}
    <3>1. BuildConditions(f) = [kind |-> f.combinator, of |-> c.of]
      BY <2>1, <2>5, <2>7, BuildByClauses
    <3>2. f.combinator = c.kind
      BY <2>3
    <3>3. BuildConditions(f) = c
      BY <2>2, <3>1, <3>2
    <3>4. QED
      BY <3>3 DEF f
  <2>8. QED
    BY <2>6, <2>7
<1>3. QED
  BY <1>1, <1>2

(* Such a condition means the same after it was opened and saved.          *)
LEMMA SavedUnchanged ==
    ASSUME NEW c \in Condition, Expressible(c)
    PROVE  LET saved == BuildConditions(ParseConditions(c))
           IN  saved \in Condition /\ Expressible(saved) /\ SameMeaning(saved, c)
<1> DEFINE saved == BuildConditions(ParseConditions(c))
<1>1. saved \in Condition
  BY ParseTyped, BuildTyped
<1>2. saved = c \/ (c.kind \in {"and", "or"} /\ c.of = {saved})
  BY RoundTrip
<1> HIDE DEF saved
<1>3. Expressible(saved)
  BY <1>2 DEF Expressible
<1>4. SameMeaning(saved, c)
  <2>1. SUFFICES ASSUME c.kind \in {"and", "or"}, c.of = {saved}, NEW context
                 PROVE  Evaluate(saved, context) = Evaluate(c, context)
    BY <1>2 DEF SameMeaning
  <2>2. Parts(c) = {saved}
    BY <2>1 DEF Parts
  <2>3. Evaluate(c, context) = TRUE <=> Evaluate(saved, context) = TRUE
    BY <2>1, <2>2, PartsEvaluated
  <2>4. Evaluate(c, context) \in BOOLEAN /\ Evaluate(saved, context) \in BOOLEAN
    BY <1>1, EvaluateEquation
  <2>5. \A a, b \in BOOLEAN : (a = TRUE <=> b = TRUE) => a = b
    OBVIOUS
  <2>6. QED
    BY <2>3, <2>4, <2>5
<1>5. QED
  BY <1>1, <1>3, <1>4 DEF saved

-----------------------------------------------------------------------------
(* The editor.                                                             *)

(* A form somebody has open.                                               *)
OpenForm == [open: {TRUE}, state: Form, changed: BOOLEAN, of: Condition]

(* The types of the editor's variables.                                    *)
EditorTypeOK ==
    /\ condition \in Condition
    /\ meant \in Condition
    /\ listed \in [Editors -> Condition]
    /\ form \in [Editors -> {Closed} \union OpenForm]
    /\ overwritten \in BOOLEAN

(* A form nobody changed shows the condition it was filled from, or has    *)
(* been saved as it.                                                       *)
FormsShow ==
    \A d \in Editors :
      form[d] \in OpenForm /\ form[d].changed = FALSE =>
        \/ form[d].state = ParseConditions(form[d].of)
        \/ BuildConditions(form[d].state) = form[d].of

(* What the form can show keeps its meaning, and the form can show it      *)
(* still.                                                                  *)
MeaningFollows ==
    Expressible(meant) /\ overwritten = FALSE =>
      Expressible(condition) /\ SameMeaning(condition, meant)

(* The inductive invariant of the editor.                                  *)
EditorInv == EditorTypeOK /\ FormsShow /\ MeaningFollows

(* What the steps do to an open form.                                      *)
LEMMA OpenForms ==
    \A f \in {Closed} \union OpenForm :
      /\ f.open <=> f \in OpenForm
      /\ f \in OpenForm =>
           /\ f.state \in Form
           /\ \A c \in Condition : /\ [f EXCEPT !.of = c] \in OpenForm
                                   /\ [f EXCEPT !.of = c].of = c
                                   /\ [f EXCEPT !.of = c].state = f.state
<1>1. ASSUME NEW f \in OpenForm
      PROVE  /\ f.open = TRUE
             /\ f.state \in Form
             /\ \A c \in Condition : /\ [f EXCEPT !.of = c] \in OpenForm
                                     /\ [f EXCEPT !.of = c].of = c
                                     /\ [f EXCEPT !.of = c].state = f.state
  BY DEF OpenForm
<1>2. Closed.open = FALSE
  BY DEF Closed
<1>3. QED
  BY <1>1, <1>2

(* The initial states satisfy the invariant.                               *)
LEMMA EditorStart == EditorInit => EditorInv
<1> SUFFICES ASSUME EditorInit PROVE EditorInv
  OBVIOUS
<1>1. condition \in Condition /\ meant = condition /\ overwritten = FALSE
  BY EditorAssumption, Zenon DEF EditorInit
<1>2. form = [d \in Editors |-> Closed] /\ listed = [d \in Editors |-> condition]
  BY DEF EditorInit
<1>3. Closed \notin OpenForm
  BY DEF Closed, OpenForm
<1>4. \A d \in Editors : form[d] = Closed
  BY <1>2
<1>5. EditorTypeOK
  BY <1>1, <1>2 DEF EditorTypeOK
<1>6. FormsShow
  BY <1>3, <1>4 DEF FormsShow
<1>7. MeaningFollows
  BY <1>1 DEF MeaningFollows, SameMeaning
<1>8. QED
  BY <1>5, <1>6, <1>7 DEF EditorInv

(* Steps of the cache and of evaluations leave it alone, and fetching the  *)
(* list again does.                                                        *)
LEMMA EditorUnchanged ==
    ASSUME EditorInv, UNCHANGED <<condition, form, meant, overwritten>>,
           listed' \in [Editors -> Condition]
    PROVE  EditorInv'
<1>1. EditorTypeOK'
  BY DEF EditorInv, EditorTypeOK
<1>2. FormsShow'
  BY DEF EditorInv, FormsShow
<1>3. MeaningFollows'
  BY DEF EditorInv, MeaningFollows, SameMeaning
<1>4. QED
  BY <1>1, <1>2, <1>3 DEF EditorInv

(* So does a step that touches one form, if it shows what it was filled    *)
(* from or is marked as changed.                                           *)
LEMMA FormStep ==
    ASSUME EditorInv, UNCHANGED <<condition, listed, meant, overwritten>>,
           NEW d \in Editors, NEW f \in {Closed} \union OpenForm,
           form' = [form EXCEPT ![d] = f],
           f \in OpenForm /\ f.changed = FALSE => f.state = ParseConditions(f.of)
    PROVE  EditorInv'
<1>1. form \in [Editors -> {Closed} \union OpenForm]
  BY DEF EditorInv, EditorTypeOK
<1>2. EditorTypeOK'
  BY <1>1 DEF EditorInv, EditorTypeOK
<1>3. FormsShow'
  <2>1. \A e \in Editors : form'[e] = IF e = d THEN f ELSE form[e]
    BY <1>1
  <2>2. QED
    BY <2>1 DEF EditorInv, FormsShow
<1>4. MeaningFollows'
  BY DEF EditorInv, MeaningFollows, SameMeaning
<1>5. QED
  BY <1>2, <1>3, <1>4 DEF EditorInv

(* A save commits what the form shows: a new meaning, a condition the rule *)
(* no longer had, or the one it has.                                       *)
LEMMA SaveStep ==
    ASSUME EditorInv, NEW d \in Editors, Save(d) PROVE EditorInv'
<1> DEFINE saved == BuildConditions(form[d].state)
<1>1. /\ condition \in Condition /\ meant \in Condition /\ overwritten \in BOOLEAN
      /\ form \in [Editors -> {Closed} \union OpenForm]
      /\ listed \in [Editors -> Condition]
  BY DEF EditorInv, EditorTypeOK
<1>2. form[d] \in OpenForm /\ form[d].state \in Form
  BY <1>1, OpenForms DEF Save
<1>3. condition' = saved /\ saved \in Condition
  BY <1>2, BuildTyped DEF Save
<1>4. form[d].changed \in BOOLEAN
  BY <1>2 DEF OpenForm
<1>5. \/ form[d].changed = TRUE /\ meant' = saved /\ overwritten' = FALSE
      \/ /\ form[d].changed = FALSE /\ form[d].of # condition
         /\ meant' = meant /\ overwritten' = TRUE
      \/ /\ form[d].changed = FALSE /\ form[d].of = condition
         /\ meant' = meant /\ overwritten' = overwritten
  BY <1>1, <1>3, <1>4 DEF Save
<1>6. PICK f \in {Closed, [form[d] EXCEPT !.of = saved]} : form' = [form EXCEPT ![d] = f]
  <2>1. \/ form' = [form EXCEPT ![d] = Closed]
        \/ form' = [form EXCEPT ![d] = [form[d] EXCEPT !.of = saved]]
    BY <1>1, <1>3 DEF Save
  <2> HIDE DEF saved
  <2>2. QED
    BY <2>1
<1>7. listed' = listed
  BY DEF Save
<1>8. /\ f \in {Closed} \union OpenForm
      /\ f \in OpenForm => BuildConditions(f.state) = f.of
  <2>1. CASE f = Closed
    <3>1. Closed \notin OpenForm
      BY DEF Closed, OpenForm
    <3>2. QED
      BY <2>1, <3>1
  <2>2. CASE f = [form[d] EXCEPT !.of = saved]
    <3>1. f \in OpenForm /\ f.of = saved /\ f.state = form[d].state
      BY <1>2, <1>3, <2>2, OpenForms
    <3>2. QED
      BY <3>1
  <2>3. QED
    BY <1>6, <2>1, <2>2
<1> HIDE DEF saved
<1>9. EditorTypeOK'
  BY <1>1, <1>3, <1>5, <1>6, <1>7, <1>8 DEF EditorTypeOK
<1>10. FormsShow'
  <2>1. \A e \in Editors : form'[e] = IF e = d THEN f ELSE form[e]
    BY <1>1, <1>6
  <2>2. QED
    BY <1>8, <2>1 DEF EditorInv, FormsShow
<1>11. MeaningFollows'
  <2>1. CASE meant' = saved /\ overwritten' = FALSE
    BY <1>3, <2>1 DEF MeaningFollows, SameMeaning
  <2>2. CASE overwritten' = TRUE
    BY <2>2 DEF MeaningFollows
  <2>3. CASE /\ form[d].changed = FALSE /\ form[d].of = condition
             /\ meant' = meant /\ overwritten' = overwritten
    <3>1. SUFFICES ASSUME Expressible(meant), overwritten = FALSE
                   PROVE  Expressible(saved) /\ SameMeaning(saved, meant)
      BY <1>3, <2>3 DEF MeaningFollows, SameMeaning
    <3>2. Expressible(condition) /\ SameMeaning(condition, meant)
      BY <3>1 DEF EditorInv, MeaningFollows
    <3>3. saved = BuildConditions(ParseConditions(condition)) \/ saved = condition
      BY <1>2, <2>3 DEF EditorInv, FormsShow, saved
    <3>4. Expressible(saved) /\ SameMeaning(saved, condition)
      BY <1>1, <3>2, <3>3, SavedUnchanged DEF SameMeaning
    <3>5. QED
      BY <3>2, <3>4 DEF SameMeaning
  <2>4. QED
    BY <1>5, <2>1, <2>2, <2>3
<1>12. QED
  BY <1>9, <1>10, <1>11 DEF EditorInv

(* Every step of the editor keeps the invariant.                           *)
LEMMA EditorStep == EditorInv /\ [EditorNext]_allVars => EditorInv'
<1> SUFFICES ASSUME EditorInv, [EditorNext]_allVars PROVE EditorInv'
  OBVIOUS
<1>0. /\ condition \in Condition
      /\ listed \in [Editors -> Condition]
      /\ form \in [Editors -> {Closed} \union OpenForm]
  BY DEF EditorInv, EditorTypeOK
<1>1. ASSUME NEW d \in Editors, Open(d) PROVE EditorInv'
  <2> DEFINE f == [open |-> TRUE, state |-> ParseConditions(listed[d]),
                   changed |-> FALSE, of |-> listed[d]]
  <2>1. f \in OpenForm /\ f.state = ParseConditions(f.of)
    BY <1>0, ParseTyped DEF OpenForm
  <2>2. form' = [form EXCEPT ![d] = f] /\ UNCHANGED <<condition, listed, meant, overwritten>>
    BY <1>1 DEF Open
  <2> HIDE DEF f
  <2>3. QED
    BY <2>1, <2>2, FormStep
<1>2. ASSUME NEW d \in Editors, Change(d) PROVE EditorInv'
  <2>1. PICK s \in Edited :
          form' = [form EXCEPT ![d] = [open |-> TRUE, state |-> s, changed |-> TRUE,
                                       of |-> BuildConditions(s)]]
    BY <1>2 DEF Change
  <2>2. s \in Form /\ BuildConditions(s) \in Condition
    BY EditorAssumption, BuildTyped
  <2> DEFINE f == [open |-> TRUE, state |-> s, changed |-> TRUE, of |-> BuildConditions(s)]
  <2>3. form' = [form EXCEPT ![d] = f]
    BY <2>1
  <2>4. f \in OpenForm /\ f.changed = TRUE
    BY <2>2 DEF OpenForm
  <2>5. UNCHANGED <<condition, listed, meant, overwritten>>
    BY <1>2 DEF Change
  <2> HIDE DEF f
  <2>6. QED
    BY <2>3, <2>4, <2>5, FormStep
<1>3. ASSUME NEW d \in Editors, Cancel(d) PROVE EditorInv'
  <2>1. form' = [form EXCEPT ![d] = Closed] /\ UNCHANGED <<condition, listed, meant, overwritten>>
    BY <1>3 DEF Cancel
  <2>2. Closed \notin OpenForm
    BY DEF Closed, OpenForm
  <2>3. QED
    BY <2>1, <2>2, FormStep
<1>4. ASSUME NEW d \in Editors, Save(d) PROVE EditorInv'
  BY <1>4, SaveStep
<1>5. ASSUME UNCHANGED editor PROVE EditorInv'
  BY <1>0, <1>5, EditorUnchanged DEF editor
<1>6. ASSUME NEW d \in Editors, Refetch(d) PROVE EditorInv'
  <2>1. listed' \in [Editors -> Condition]
    BY <1>0, <1>6 DEF Refetch
  <2>2. QED
    BY <1>6, <2>1, EditorUnchanged DEF Refetch
<1>7. UNCHANGED allVars => UNCHANGED editor
  BY DEF allVars
<1>8. QED
  BY <1>1, <1>2, <1>3, <1>4, <1>5, <1>6, <1>7 DEF EditorNext, Toggle

(* To the cache, every step of the editor is one of its own or none.       *)
LEMMA EditorStepsOfCache == [EditorNext]_allVars => [Next]_vars
<1>1. ASSUME NEW d \in Editors, Refetch(d) \/ Open(d) \/ Change(d) \/ Cancel(d)
      PROVE  UNCHANGED vars
  BY <1>1 DEF Refetch, Open, Change, Cancel
<1>2. ASSUME NEW d \in Editors, Save(d) \/ Toggle(d) \/ Invalidate(d) \/ InvalidateFails(d)
      PROVE  Next
  BY <1>2, Zenon DEF Save, Toggle, Next, Edits
<1>3. ASSUME NEW v \in Evaluators, Lookup(v) \/ Finishes(v)
      PROVE  Next
  BY <1>3, Zenon DEF Next
<1>4. Expire => Next
  BY DEF Next
<1>5. UNCHANGED allVars => UNCHANGED vars
  BY DEF allVars
<1>6. QED
  BY <1>1, <1>2, <1>3, <1>4, <1>5 DEF EditorNext

(* The invariant implies the two properties.                               *)
LEMMA InvMeaning == EditorInv => MeaningKept /\ MatchesForCause
<1> SUFFICES ASSUME EditorInv PROVE MeaningKept /\ MatchesForCause
  OBVIOUS
<1>1. MeaningKept
  BY DEF EditorInv, EditorTypeOK, MeaningFollows, MeaningKept, SameMeaning
<1>2. MatchesForCause
  <2> SUFFICES ASSUME NEW context \in Contexts
               PROVE  LET truth == Truth(condition, context)
                      IN  /\ truth # "unknown" =>
                               Evaluate(condition, context) = (truth = "true")
                          /\ truth = "unknown" /\ ~Negates(condition) =>
                               ~Evaluate(condition, context)
    BY Zenon DEF MatchesForCause
  <2>1. condition \in Condition
    BY DEF EditorInv, EditorTypeOK
  <2>2. Agrees(condition, context) /\ Truth(condition, context) \in TruthValues
    BY <2>1, EvaluationAgrees, TruthEquation
  <2>3. QED
    BY <2>2 DEF Agrees, TruthValues
<1>3. QED
  BY <1>1, <1>2

(* Whatever rows the forms are given, what is committed is a condition and *)
(* what is open is a form.                                                 *)
THEOREM EditorTypeCorrect == EditorSpec => []EditorTypeOK
  BY EditorStart, EditorStep, PTL DEF EditorSpec, EditorInv

(* A rule matches exactly the transactions its data says it matches, for   *)
(* conditions of every shape and nesting, and all contexts.                *)
THEOREM RulesMatchForCause == EditorSpec => []MatchesForCause
  BY EditorStart, EditorStep, InvMeaning, PTL DEF EditorSpec

(* However many analysts open, change and save a rule, however old the     *)
(* lists their pages have cached: a save that changes nothing leaves its   *)
(* meaning alone, unless the form shows a condition the rule no longer has.*)
THEOREM RulesKeepMeaning == EditorSpec => []MeaningKept
  BY EditorStart, EditorStep, InvMeaning, PTL DEF EditorSpec

(* Editing implements the cache: what is proved of RuleCache holds of it.  *)
THEOREM EditorIsCache == EditorSpec => Spec
<1>1. EditorInit => Init
  BY DEF EditorInit
<1>2. QED
  BY <1>1, EditorStepsOfCache, PTL DEF EditorSpec, Spec

(* Old rules stay in force only with an excuse, whatever forms are saved.  *)
THEOREM EditedStaleHasExcuse == EditorSpec => []StaleOnlyWithExcuse
  BY EditorIsCache, StaleHasExcuse, PTL
=============================================================================
