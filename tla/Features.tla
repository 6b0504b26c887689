------------------------------ MODULE Features ------------------------------
(***************************************************************************)
(* The behavioural features of a transaction, computed twice: while it is  *)
(* scored, by queries over the transactions table                          *)
(* (backend/app/services/feature_queries.py, feature_engineering.py), and  *)
(* for training, from an export of the table with the audited decisions    *)
(* (ml/train.py, ml/feature_engineering.py).  The model is served the      *)
(* first and was trained on the second.                                    *)
(*                                                                         *)
(* tx is the transactions table: tx[x].at is created_at, tx[x].audits the  *)
(* decisions audited for x in their order.  All transactions are of one    *)
(* account and one merchant.                                               *)
(***************************************************************************)
EXTENDS Naturals, FiniteSets, Sequences

CONSTANTS
    Hours,  \* the window of the velocity features
    Days    \* the window of the merchant's risk when served

ASSUME WindowsAssumption == {Hours, Days} \subseteq Nat

Committed(tx) == {x \in DOMAIN tx : tx[x].status # "none"}

-----------------------------------------------------------------------------
(* Served at time now: windows end now and hold the transaction itself,    *)
(* which is committed as pending before its features are computed.         *)
Within(tx, now, window) == {x \in Committed(tx) : tx[x].at + window >= now}

Blocks(tx, S) == Cardinality({x \in S : tx[x].status = "block"})

\* tx_count, failed_attempt_count, and the two parts of merchant_risk_score.
Served(tx, now) ==
    [count   |-> Cardinality(Within(tx, now, Hours)),
     failed  |-> Blocks(tx, Within(tx, now, Hours)),
     blocked |-> Blocks(tx, Within(tx, now, Days)),
     total   |-> Cardinality(Within(tx, now, Days))]

-----------------------------------------------------------------------------
(* Trained: a row of the export at a time, windows end before it, and every*)
(* value is computed from what the table holds at the time of training.    *)

\* The left join with the audits: a row for each audit, one if there is none.
Rows(tx, x) == {<<x, i>> : i \in {1} \union DOMAIN tx[x].audits}

Exported(tx) == UNION {Rows(tx, x) : x \in Committed(tx)}

Decision(tx, row) ==
    IF tx[row[1]].audits = <<>> THEN "none" ELSE tx[row[1]].audits[row[2]]

\* _blocked_indicator.
Blocked(tx, row) == "block" \in {tx[row[1]].status, Decision(tx, row)}

\* create_labels: what the model is to predict of a row.
Fraud(tx, row) == Decision(tx, row) = "block"

\* Mutant: closed="both", so that the row counts itself.
Before_Closed(tx, x, window) ==
    {row \in Exported(tx) : tx[row[1]].at <= tx[x].at /\ tx[row[1]].at + window >= tx[x].at}

\* The rows of a window that is closed="left".
Before(tx, x, window) ==
    {row \in Exported(tx) : tx[row[1]].at < tx[x].at /\ tx[row[1]].at + window >= tx[x].at}

BlockedRows(tx, R) == Cardinality({row \in R : Blocked(tx, row)})

\* Nothing orders the rows of one created_at, such as those of one transaction.
Tied(tx, row) == {other \in Exported(tx) \ {row} : tx[other[1]].at = tx[row[1]].at}

\* The features of a row that was sorted behind the tied rows ahead: the merchant's
\* risk, the mean of what precedes it, takes those in, a window does not.
Trained(tx, row, ahead) ==
    LET x == row[1]
        recent == Before(tx, x, Hours)
        prior  == {other \in Exported(tx) : tx[other[1]].at < tx[x].at} \union ahead
    IN  [count |-> Cardinality(recent), failed |-> BlockedRows(tx, recent),
         blocked |-> BlockedRows(tx, prior), total |-> Cardinality(prior)]

=============================================================================
