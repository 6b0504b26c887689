----------------------------- MODULE AuditChain -----------------------------
(***************************************************************************)
(* The hash-chained decision audit (backend/app/services/audit_service.py) *)
(* and the requests that append to it: the tail of an ingest and the       *)
(* override route of routers/decisions.py.                                 *)
(*                                                                         *)
(* The chain of an account is the audit records of its transactions in     *)
(* created_at order; each record's hash covers its content and the hash of *)
(* the record before it.  created_at is the start of the inserting         *)
(* database transaction, so it is fixed before the previous hash is read   *)
(* and long before the record is visible to others.                        *)
(*                                                                         *)
(* A record's hash is represented by its created_at: both identify it.     *)
(***************************************************************************)
EXTENDS Naturals

CONSTANTS
    Requests,     \* requests that can be in flight at once
    Txs,          \* transactions
    Accounts,     \* account owners
    AccountOf,    \* the account that sends each request
    OwnerOf,      \* the account that owns each transaction
    NoTx,         \* the transaction of an idle request
    Decisions,    \* what a decision or an override can say
    MaxRecords    \* bound: audit transactions begun

ASSUME AccountAssumption ==
    /\ AccountOf \in [Requests -> Accounts]
    /\ OwnerOf \in [Txs -> Accounts]
ASSUME ValueAssumption == NoTx \notin Txs /\ "pending" \notin Decisions
ASSUME MaxRecordsAssumption == MaxRecords \in Nat

VARIABLES
    status,     \* transactions.status, as committed
    audits,     \* fraud_decision_audits, as committed
    clock,      \* created_at of the latest audit transaction begun
    req,        \* what each request is doing and what it remembers
    unaudited   \* history: transactions whose last status change has no record

vars == <<status, audits, clock, req, unaudited>>

-----------------------------------------------------------------------------
Record == [tx: Txs, decision: Decisions,
           ts: Nat,                        \* created_at, and the record's hash
           prev: Nat]                      \* previous_hash, 0 for None

Steps == {"idle", "override", "begin", "link", "insert"}

Request == [pc: Steps, tx: Txs \union {NoTx},
            decision: Decisions \union {"pending"},
            ts: Nat, prev: Nat]

Idle == [pc |-> "idle", tx |-> NoTx, decision |-> "pending",
         ts |-> 0, prev |-> 0]

Init ==
    /\ status = [t \in Txs |-> "pending"]
    /\ audits = {}
    /\ clock = 0
    /\ req = [w \in Requests |-> Idle]
    /\ unaudited = {}

\* The records of an account, and those of them before a moment.
Chain(a) == {r \in audits : OwnerOf[r.tx] = a}
Before(a, ts) == {r \in Chain(a) : r.ts < ts}

\* ORDER BY created_at DESC LIMIT 1: the hash of the latest of R, None if R = {}.
IsLatest(R, hash) ==
    /\ \A r \in R : r.ts <= hash
    /\ IF R = {} THEN hash = 0 ELSE \E r \in R : r.ts = hash

\* verify_integrity: recompute every hash from the record before it.
Verifies(a) ==
    \A r \in Chain(a) : IsLatest(Before(a, r.ts), r.prev)

Own(w, t) == OwnerOf[t] = AccountOf[w]
Enter(w, r) == req' = [req EXCEPT ![w] = r]
Return(w) == Enter(w, Idle)

-----------------------------------------------------------------------------
(* An ingest decides its own new transaction: _update_transaction_status   *)
(* commits, then log_decision is called.                                   *)
Decide(w, t, d) ==
    /\ req[w].pc = "idle"
    /\ Own(w, t)
    /\ status[t] = "pending"
    /\ status' = [status EXCEPT ![t] = d]
    /\ Enter(w, [Idle EXCEPT !.pc = "begin", !.tx = t, !.decision = d])
    /\ UNCHANGED <<audits, clock, unaudited>>

(* POST /decisions/evaluate, and the outcome of a verification: the status *)
(* of any transaction changes and nothing is logged.                       *)
ChangeUnaudited(t, d) ==
    /\ status' = [status EXCEPT ![t] = d]
    /\ unaudited' = unaudited \union {t}
    /\ UNCHANGED <<audits, clock, req>>

(* override_decision: the owned transaction is read ...                    *)
ReadForOverride(w, t) ==
    /\ req[w].pc = "idle"
    /\ Own(w, t)
    /\ Enter(w, [Idle EXCEPT !.pc = "override", !.tx = t,
                             !.decision = status[t]])
    /\ UNCHANGED <<status, audits, clock, unaudited>>

\* Mutant: the old decision is logged instead of the new one.
CommitOverride_LogsOld(w, d) ==
    LET r == req[w]
    IN  /\ r.pc = "override"
        /\ IF r.decision = d
           THEN UNCHANGED <<status, unaudited>>
           ELSE /\ status' = [status EXCEPT ![r.tx] = d]
                /\ unaudited' = unaudited \ {r.tx}
        /\ Enter(w, [r EXCEPT !.pc = "begin"])
        /\ UNCHANGED <<audits, clock>>

(* ... its status assigned and committed: an UPDATE only if it differs     *)
(* from the one read.                                                      *)
CommitOverride(w, d) ==
    LET r == req[w]
    IN  /\ r.pc = "override"
        /\ IF r.decision = d
           THEN UNCHANGED <<status, unaudited>>
           ELSE /\ status' = [status EXCEPT ![r.tx] = d]
                /\ unaudited' = unaudited \ {r.tx}
        /\ Enter(w, [r EXCEPT !.pc = "begin", !.decision = d])
        /\ UNCHANGED <<audits, clock>>

-----------------------------------------------------------------------------
(* log_decision *)

\* The first statement of its session starts the database transaction.
BeginAudit(w) ==
    /\ req[w].pc = "begin"
    /\ clock < MaxRecords
    /\ clock' = clock + 1
    /\ Enter(w, [req[w] EXCEPT !.pc = "link", !.ts = clock + 1])
    /\ UNCHANGED <<status, audits, unaudited>>

\* Mutant: the records of every account are one chain.
ReadPrevious_AnyAccount(w) ==
    /\ req[w].pc = "link"
    /\ \E hash \in 0..clock :
         /\ IsLatest(audits, hash)
         /\ Enter(w, [req[w] EXCEPT !.pc = "insert", !.prev = hash])
    /\ UNCHANGED <<status, audits, clock, unaudited>>

\* Mutant: ORDER BY created_at ASC, the first record is always the previous one.
ReadPrevious_Oldest(w) ==
    LET R == Chain(OwnerOf[req[w].tx])
    IN  /\ req[w].pc = "link"
        /\ \E hash \in 0..clock :
             /\ \A r \in R : r.ts >= hash
             /\ IF R = {} THEN hash = 0 ELSE \E r \in R : r.ts = hash
             /\ Enter(w, [req[w] EXCEPT !.pc = "insert", !.prev = hash])
        /\ UNCHANGED <<status, audits, clock, unaudited>>

(* _get_previous_hash, in the same session.                                *)
ReadPrevious(w) ==
    /\ req[w].pc = "link"
    /\ \E hash \in 0..clock :
         /\ IsLatest(Chain(OwnerOf[req[w].tx]), hash)
         /\ Enter(w, [req[w] EXCEPT !.pc = "insert", !.prev = hash])
    /\ UNCHANGED <<status, audits, clock, unaudited>>

(* session.add, commit: the record becomes visible, under its old          *)
(* created_at.                                                             *)
Insert(w) ==
    LET r == req[w]
    IN  /\ r.pc = "insert"
        /\ audits' = audits \union
             {[tx |-> r.tx, decision |-> r.decision, ts |-> r.ts, prev |-> r.prev]}
        /\ Return(w)
        /\ UNCHANGED <<status, clock, unaudited>>

(* Any exception is logged and swallowed, the caller goes on with None;    *)
(* a process that dies here leaves the same state.                         *)
AuditFails(w) ==
    /\ req[w].pc \in {"begin", "link", "insert"}
    /\ unaudited' = unaudited \union {req[w].tx}
    /\ Return(w)
    /\ UNCHANGED <<status, audits, clock>>

-----------------------------------------------------------------------------
Next ==
    \/ \E t \in Txs, d \in Decisions : ChangeUnaudited(t, d)
    \/ \E w \in Requests :
         \/ \E t \in Txs, d \in Decisions : Decide(w, t, d)
         \/ \E t \in Txs : ReadForOverride(w, t)
         \/ \E d \in Decisions : CommitOverride(w, d)
         \/ BeginAudit(w) \/ ReadPrevious(w) \/ Insert(w) \/ AuditFails(w)

Spec == Init /\ [][Next]_vars

-----------------------------------------------------------------------------
TypeOK ==
    /\ status \in [Txs -> Decisions \union {"pending"}]
    /\ audits \subseteq Record
    /\ clock \in Nat
    /\ req \in [Requests -> Request]
    /\ unaudited \subseteq Txs

\* No two requests of the account are ever in flight at once.
Alone(a) ==
    \A v, w \in Requests : AccountOf[v] = a /\ AccountOf[w] = a => v = w

(* However the writers of an account interleave, a record's previous hash  *)
(* is that of a committed record of the same account: no link dangles and  *)
(* no account's chain leans on another's.                                  *)
LinksAreOwn ==
    \A r \in audits :
        r.prev = 0 \/ \E q \in Chain(OwnerOf[r.tx]) : q.ts = r.prev

(* verify_integrity finds the chain of an account intact, provided that    *)
(* account has one request in flight at a time, whatever the others do;    *)
(* failed audits leave no gap.                                             *)
ChainsVerify == \A a \in Accounts : Alone(a) => Verifies(a)

(* "preserving the hash-chain integrity (append-only)": verify_integrity   *)
(* finds every chain intact.                                               *)
EveryChainVerifies == \A a \in Accounts : Verifies(a)

(* The last record of a transaction that no request is working on says     *)
(* what its status is, unless the last change of the status was one that   *)
(* is not logged or whose logging failed, or its owner's requests overlap. *)
AuditTellsStatus ==
    \A t \in Txs \ unaudited : Alone(OwnerOf[t]) =>
        \/ status[t] = "pending"
        \/ \E w \in Requests : req[w].tx = t
        \/ \E r \in audits : /\ r.tx = t
                             /\ r.decision = status[t]
                             /\ \A q \in audits : q.tx = t => q.ts <= r.ts

(* What makes the two inductive: a request works on a transaction of its   *)
(* account and under a created_at that has been taken; ...                 *)
WriterInv ==
    /\ \A r \in audits : r.ts <= clock
    /\ \A w \in Requests :
         LET r == req[w]
         IN  /\ r.pc # "idle" => r.tx \in Txs /\ Own(w, r.tx)
             /\ r.pc \in {"begin", "link", "insert"} => r.decision \in Decisions
             /\ r.pc \in {"link", "insert"} => r.ts <= clock
             /\ r.pc = "insert" =>
                  r.prev = 0 \/ \E q \in Chain(AccountOf[w]) : q.ts = r.prev

(* ... and where requests do not overlap, a record about to be inserted is *)
(* later than all of its account's, and links to the latest of them.       *)
AloneInv ==
    \A w \in Requests : Alone(AccountOf[w]) =>
        /\ req[w].pc \in {"link", "insert"} =>
             \A q \in Chain(AccountOf[w]) : q.ts < req[w].ts
        /\ req[w].pc = "insert" => IsLatest(Chain(AccountOf[w]), req[w].prev)

ChainInv == TypeOK /\ WriterInv /\ LinksAreOwn /\ AloneInv /\ ChainsVerify
=============================================================================
