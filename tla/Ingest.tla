------------------------------- MODULE Ingest -------------------------------
(***************************************************************************)
(* POST /transactions (backend/app/services/transaction_ingest_service.py):*)
(* what the sections of a request do to the transaction, composed with the *)
(* connections they need (ConnectionPool), the features they compute       *)
(* (Features), the analyst and the account holder who change the same      *)
(* transaction, and a crash between any two steps.                         *)
(***************************************************************************)
EXTENDS ConnectionPool, Features

CONSTANTS
    Past,       \* transactions of the account that were blocked earlier
    MaxTime,    \* bound on the clock
    MaxTrouble  \* bound on crashes, sections that raise and what others do

ASSUME IngestAssumption ==
    /\ Sections = 7 /\ BestEffort = {3, 5, 6, 7}
    /\ IsFiniteSet(Past) /\ Past \intersect Requests = {}
    /\ {MaxTime, MaxTrouble} \subseteq Nat

\* The sections that open a session, in their order; 0 is the authentication.
Store == 1
Compute == 2
Rules == 3
Decide == 4
Audit == 5
SaveScore == 6
OpenVerification == 7

VARIABLES
    tx,      \* the database: each transaction, its audits, score, verifications
    ing,     \* what each request remembers
    now,     \* the database's clock
    moved,   \* history: transactions whose status others changed
    trouble  \* crashes, sections that raised, what others did

vars == <<pool, tx, ing, now, moved, trouble>>

Decisions == {"approve", "verify", "block"}
Transactions == Requests \union Past

\* A row that is not committed has status "none". pending: PENDING rows of
\* verification_logs.
NoTransaction == [at |-> 0, status |-> "none", audits |-> <<>>, scored |-> FALSE, pending |-> 0]

\* look: what the lookup for a pending verification found; snap: history, the
\* table and the time the features were computed from.
NoProgress == [decision |-> "none", look |-> "none", snap |-> <<>>, skipped |-> {},
               alerting |-> FALSE, answer |-> "none"]

Init ==
    /\ PoolInit
    /\ tx = [x \in Transactions |->
               IF x \in Requests THEN NoTransaction
               ELSE [NoTransaction EXCEPT !.at = 1, !.status = "block", !.audits = <<"block">>, !.scored = TRUE]]
    /\ ing = [c \in Requests |-> NoProgress]
    /\ now = 1 /\ moved = {} /\ trouble = 0

Trouble == trouble < MaxTrouble /\ trouble' = trouble + 1

In(c, section) == client[c].pc = "run" /\ client[c].section = section

-----------------------------------------------------------------------------
(* Between the checkouts.                                                  *)

\* The insert fixes created_at; nobody sees the row before the commit.
Insert(c) ==
    /\ In(c, Store) /\ tx[c].at = 0
    /\ tx' = [tx EXCEPT ![c].at = now]
    /\ UNCHANGED <<pool, ing, now, moved, trouble>>

\* create_pending_for_verify_transaction reads the transaction and its pending
\* verifications; scalar_one_or_none raises when there are two.
LookForPending(c) ==
    /\ In(c, OpenVerification) /\ ing[c].look = "none"
    /\ ing' = [ing EXCEPT ![c].look =
                 CASE tx[c].status # "verify" \/ tx[c].pending = 1 -> "return"
                   [] tx[c].status = "verify" /\ tx[c].pending = 0 -> "create"
                   [] OTHER -> "raise"]
    /\ UNCHANGED <<pool, tx, now, moved, trouble>>

\* Mutant: the decision is answered, but not written.
Decided_Lost(c) ==
    {[tx |-> tx, memory |-> [ing[c] EXCEPT !.decision = d]] : d \in Decisions}

\* The decision is DecisionEngine's (Decision), which writes it.
Decided(c) ==
    {[tx |-> [tx EXCEPT ![c].status = d], memory |-> [ing[c] EXCEPT !.decision = d]]
       : d \in Decisions}

\* What a section can commit to the table and leave in the request's memory.
Results(c) ==
    LET section == client[c].section
        Row(row)    == [tx |-> [tx EXCEPT ![c] = row], memory |-> ing[c]]
    IN  CASE section = Store -> IF tx[c].at = 0 THEN {} ELSE {Row([tx[c] EXCEPT !.status = "pending"])}
          [] section = Compute ->
               {[tx |-> tx, memory |-> [ing[c] EXCEPT !.snap = <<tx, now>>]]}
          [] section = Decide -> Decided(c)
          [] section = Audit -> {Row([tx[c] EXCEPT !.audits = Append(@, ing[c].decision)])}
          [] section = SaveScore -> {Row([tx[c] EXCEPT !.scored = TRUE])}
          [] section = OpenVerification ->
               {Row([tx[c] EXCEPT !.pending = IF l = "create" THEN @ + 1 ELSE @])
                  : l \in {ing[c].look} \intersect {"return", "create"}}
          [] OTHER -> {Row(tx[c])}

\* Mutant: only blocked transactions get past the score.
NextSections_NoVerify(c) ==
    CASE client[c].section = Compute   -> {Rules, Decide}
      [] client[c].section = SaveScore -> {End}
      [] OTHER                         -> {client[c].section + 1}

\* Rules may come from the cache; a verification is opened only for "verify".
NextSections(c) ==
    CASE client[c].section = Compute   -> {Rules, Decide}
      [] client[c].section = SaveScore ->
           IF ing[c].decision = "verify" THEN {OpenVerification} ELSE {End}
      [] OTHER                         -> {client[c].section + 1}

\* Past the last section the alert task is created and the answer returned.
Remember(c, memory, s) ==
    ing' = [ing EXCEPT ![c] =
              IF s # End THEN memory
              ELSE [memory EXCEPT !.alerting = memory.decision \in {"verify", "block"},
                                  !.answer = "created"]]

-----------------------------------------------------------------------------
(* The steps of a request.                                                 *)

Succeeds(c) ==
    /\ client[c].pc = "run"
    /\ \E result \in Results(c), s \in NextSections(c) :
         /\ Proceed(c, s)
         /\ tx' = result.tx
         /\ Remember(c, result.memory, s)
    /\ UNCHANGED <<now, moved, trouble>>

\* An exception, before or after what the section commits was committed: the ones
\* that are logged and swallowed skip the section, the others end the request.
Raises(c) ==
    /\ client[c].pc = "run"
    /\ IF ing[c].look = "raise" THEN UNCHANGED trouble ELSE Trouble
    /\ tx' \in {tx} \union {result.tx : result \in Results(c)}
    /\ \/ \E s \in NextSections(c) :
            /\ client[c].section \in BestEffort
            /\ Proceed(c, s)
            /\ Remember(c, [ing[c] EXCEPT !.skipped = @ \union {client[c].section}], s)
       \/ Fail(c) /\ ing' = [ing EXCEPT ![c].answer = "error"]
    /\ UNCHANGED <<now, moved>>

(* Staging a block fails: the failure is swallowed, COMMIT rolls the aborted *)
(* transaction back (Decision.StageAborts), and block is decided all the same.*)
LosesBlock(c) ==
    /\ In(c, Decide) /\ Trouble
    /\ Proceed(c, Audit)
    /\ Remember(c, [ing[c] EXCEPT !.decision = "block", !.skipped = @ \union {Decide}], Audit)
    /\ UNCHANGED <<tx, now, moved>>

\* A checkout that waited too long is such an exception.
GivesUp(c) ==
    /\ \E s \in NextSections(c) :
         /\ TimeOut(c, s)
         /\ IF client[c].section \in BestEffort
              THEN Remember(c, [ing[c] EXCEPT !.skipped = @ \union {client[c].section}], s)
              ELSE ing' = [ing EXCEPT ![c].answer = "error"]
    /\ UNCHANGED <<tx, now, moved, trouble>>

\* The steps that leave the transaction alone.
Requested(c) == Arrive(c) /\ UNCHANGED <<tx, ing, now, moved, trouble>>
Connects(c) ==
    /\ Checkout(c) \/ Finish(c)
    /\ UNCHANGED <<tx, ing, now, moved, trouble>>

Runs(c) ==
    \/ Connects(c)
    \/ Insert(c) \/ LookForPending(c)
    \/ Succeeds(c) \/ Raises(c) \/ LosesBlock(c) \/ GivesUp(c)

-----------------------------------------------------------------------------
(* Others.                                                                 *)

\* An override with its audit or, when that fails, without; evaluate_decision never
\* audits. Neither opens a verification.
SetStatus(x) ==
    /\ tx[x].status # "none" /\ Trouble
    /\ \E d \in Decisions : \E audit \in {<<>>, <<d>>} :
         tx' = [tx EXCEPT ![x].status = d, ![x].audits = @ \o audit]
    /\ moved' = moved \union {x}
    /\ UNCHANGED <<pool, ing, now>>

\* POST /verification/send opens one for any transaction, and another if repeated.
SendVerification(x) ==
    /\ tx[x].status # "none" /\ Trouble
    /\ \E n \in {1, 2} : tx' = [tx EXCEPT ![x].pending = @ + n]
    /\ UNCHANGED <<pool, ing, now, moved>>

\* A verification is settled (Verification).
SettleVerification(x) ==
    /\ tx[x].pending > 0 /\ Trouble
    /\ \E status \in {"approved", "block", "manual_review"} :
         tx' = [tx EXCEPT ![x].pending = @ - 1, ![x].status = status]
    /\ moved' = moved \union {x}
    /\ UNCHANGED <<pool, ing, now>>

\* The process dies; what its requests had not committed is gone.
Dies ==
    /\ Trouble
    /\ Crash
    /\ ing' = [c \in Requests |->
                 IF client[c].pc \in {"new", "done"} THEN ing[c] ELSE [ing[c] EXCEPT !.answer = "lost"]]
    /\ UNCHANGED <<tx, now, moved>>

Tick ==
    /\ now < MaxTime /\ now' = now + 1
    /\ UNCHANGED <<pool, tx, ing, moved, trouble>>

Next ==
    \/ \E c \in Requests : Requested(c) \/ Runs(c)
    \/ \E x \in Transactions : SetStatus(x) \/ SendVerification(x) \/ SettleVerification(x)
    \/ Dies \/ Tick

(* The event loop and the database serve every client that has arrived,    *)
(* and a checkout that keeps waiting times out.                            *)
Fairness == \A c \in Requests : WF_vars(Runs(c))

Spec == Init /\ [][Next]_vars /\ Fairness

-----------------------------------------------------------------------------

Over(c) == client[c].pc = "done"

(* The block was decided, but not written.                                 *)
Lost(c) == c \in Requests /\ Decide \in ing[c].skipped

(* An answered decision is the transaction's (ingest lines 114 to 168): it *)
(* is its status unless somebody changed that or the block was lost, which *)
(* leaves it pending; it is audited, scored and alerted on, but for the    *)
(* sections that failed; and it is the label the model will be trained on. *)
AnsweredIsAccounted ==
    \A c \in Requests : ing[c].answer = "created" =>
      LET d == ing[c].decision IN
        /\ d \in Decisions /\ (Lost(c) => d = "block")
        /\ c \notin moved => tx[c].status = IF Lost(c) THEN "pending" ELSE d
        /\ Audit \in ing[c].skipped \/ \E i \in DOMAIN tx[c].audits : tx[c].audits[i] = d
        /\ SaveScore \in ing[c].skipped \/ tx[c].scored
        /\ ing[c].alerting <=> d \in {"verify", "block"}
        /\ c \notin moved /\ Audit \notin ing[c].skipped =>
             \A row \in Rows(tx, c) : Fraud(tx, row) <=> d = "block"

(* A transaction left to be verified has a pending verification, unless    *)
(* its request did not get as far, could not open one, or somebody else    *)
(* set the status, which opens none (ingest line 150).                     *)
VerifyIsReachable ==
    \A c \in Requests : Over(c) /\ tx[c].status = "verify" =>
      \/ tx[c].pending > 0
      \/ ing[c].answer # "created" \/ OpenVerification \in ing[c].skipped
      \/ c \in moved

(* What came before x, as the features of x saw it.                        *)
Unchanged(x) ==
    LET seen == ing[x].snap[1]
        Same(y) == seen[y].status = tx[y].status /\ y \notin moved /\ ~Lost(y)
    IN  /\ Committed(seen) \ {x} = {y \in Committed(tx) : tx[y].at < tx[x].at}
        /\ \A y \in Committed(tx) \ {x} : tx[y].at # tx[x].at
        /\ seen[x].status = "pending" /\ \A y \in Committed(seen) \ {x} : Same(y)
        /\ \A y \in Committed(seen) : \A window \in {Hours, Days} :
             tx[y].at + window >= tx[x].at => tx[y].at + window >= ing[x].snap[2]

(* The features served count the transaction itself; those trained on are  *)
(* otherwise the same for every row of it, but the merchant's risk, which  *)
(* goes by position, counts whatever other rows of the same transaction    *)
(* come before, one for each audit of an override.  As long as no request  *)
(* overlapped, no earlier transaction was decided meanwhile, changed by    *)
(* others or lost its block, and none left the window (feature_queries.py, *)
(* ml/feature_engineering.py:346).                                         *)
SkewIsOne ==
    \A x \in Requests : ing[x].snap # <<>> /\ tx[x].status # "none" /\ Unchanged(x) =>
      \A row \in Rows(tx, x) : \A ahead \in SUBSET Tied(tx, row) :
        LET served == Served(ing[x].snap[1], ing[x].snap[2])
            trained == Trained(tx, row, ahead)
        IN  /\ served.count = trained.count + 1 /\ served.failed = trained.failed
            /\ (\A y \in Committed(tx) : tx[y].at + Days >= tx[x].at) =>
                 /\ trained.total + 1 = served.total + Cardinality(ahead)
                 /\ trained.blocked = served.blocked + BlockedRows(tx, ahead)
=============================================================================
