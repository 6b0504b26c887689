---------------------------- MODULE Verification ----------------------------
(***************************************************************************)
(* The OTP verification lifecycle of one transaction                       *)
(* (backend/app/services/verification_service.py with otp_service.py and   *)
(* the routes of routers/verification.py).                                 *)
(*                                                                         *)
(* Every request is an asyncio task with its own database session.  A      *)
(* session keeps the row it first read (expire_on_commit=False, no version *)
(* column, no SELECT ... FOR UPDATE), so each await is a point where other *)
(* requests run.  A step below is the code between two awaits that other   *)
(* requests can observe.                                                   *)
(***************************************************************************)
EXTENDS Naturals, FiniteSets

CONSTANTS
    Handlers,     \* requests that can be in flight at once
    Verifs,       \* rows of verification_logs of the transaction
    NoHandler,    \* nobody holds a row lock
    NoVerif,      \* the request of an idle handler
    MaxAttempts,  \* verification_logs.max_attempts
    MaxOtps,      \* bound: OTPs issued per verification
    MaxAborts     \* bound: requests cut short by a crash or a database error

ASSUME HandlersAssumption == NoHandler \notin Handlers
ASSUME VerifsAssumption == NoVerif \notin Verifs
ASSUME BoundsAssumption ==
    /\ MaxAttempts \in Nat \ {0}
    /\ MaxOtps \in Nat
    /\ MaxAborts \in Nat

VARIABLES
    row,       \* verification_logs, as committed
    status,    \* transactions.status, as committed
    rowLock,   \* holder of the row lock taken by an uncommitted UPDATE
    otp,       \* Redis verify:{id}:otp: which issued code it holds, 0 if none
    issued,    \* OTPs generated so far for the verification
    compared,  \* history: submissions compared with a stored OTP
    req,       \* what each request is doing and what it remembers
    aborts     \* requests cut short so far

vars == <<row, status, rowLock, otp, issued, compared, req, aborts>>

-----------------------------------------------------------------------------
Terminal == {"VERIFIED", "FAILED", "EXPIRED"}
States == {"ABSENT", "PENDING"} \union Terminal

\* What each terminal state writes to the transaction in the same commit.
Outcomes == { [to |-> "VERIFIED", tx |-> "approved"],
              [to |-> "FAILED",   tx |-> "block"],
              [to |-> "FAILED",   tx |-> "manual_review"],
              [to |-> "EXPIRED",  tx |-> "manual_review"] }

Approve  == [to |-> "VERIFIED", tx |-> "approved"]
Reject   == [to |-> "FAILED",   tx |-> "block"]
Escalate == [to |-> "FAILED",   tx |-> "manual_review"]
Expire   == [to |-> "EXPIRED",  tx |-> "manual_review"]

TxStatuses == {"verify"} \union {o.tx : o \in Outcomes}

Row == [state: States, attempts: Nat,
        deadline: {"none", "future", "past"},  \* otp_expires_at
        stamps: SUBSET Terminal]               \* verified_at, failed_at, expired_at

Steps == {"idle", "count", "compare", "flush", "unlink", "commit",
          "stamp", "store"}
Writing == {"unlink", "commit"}

Request == [pc: Steps, v: Verifs \union {NoVerif}, attempts: Nat,
            code: Nat, plan: Outcomes, deletes: BOOLEAN, seen: TxStatuses]

Idle == [pc |-> "idle", v |-> NoVerif, attempts |-> 0, code |-> 0,
         plan |-> Approve, deletes |-> TRUE, seen |-> "verify"]

Settled(v) == row[v].state \in Terminal

Init ==
    /\ row = [v \in Verifs |-> [state |-> "ABSENT", attempts |-> 0,
                                deadline |-> "none", stamps |-> {}]]
    /\ status = "verify"
    /\ rowLock = [v \in Verifs |-> NoHandler]
    /\ otp = [v \in Verifs |-> 0]
    /\ issued = [v \in Verifs |-> 0]
    /\ compared = [v \in Verifs |-> 0]
    /\ req = [h \in Handlers |-> Idle]
    /\ aborts = 0

-----------------------------------------------------------------------------
(* Handler bookkeeping *)

Enter(h, r) == req' = [req EXCEPT ![h] = r]
Return(h) == Enter(h, Idle)

\* The request has decided a transition and will flush it next.
Plans(r, outcome, deletes) ==
    [r EXCEPT !.pc = "flush", !.plan = outcome, !.deletes = deletes]

Begins(v, pc) == [Idle EXCEPT !.v = v, !.pc = pc]

Unlocked(v) == rowLock[v] = NoHandler

-----------------------------------------------------------------------------
(* create_verification: a PENDING row, whatever the transaction's status   *)
(* and however many rows it has already.                                   *)
CreateVerification(v) ==
    /\ row[v].state = "ABSENT"
    /\ row' = [row EXCEPT ![v].state = "PENDING"]
    /\ UNCHANGED <<status, rowLock, otp, issued, compared, req, aborts>>

\* Mutant: the state is not checked, a settled row is reviewed again.
Review_AnyState(h, v, outcome) ==
    /\ req[h].pc = "idle"
    /\ row[v].state # "ABSENT"
    /\ Enter(h, Plans(Begins(v, "flush"), outcome, TRUE))
    /\ UNCHANGED <<row, status, rowLock, otp, issued, compared, aborts>>

(* approve, reject, escalate: read the row; _transition_state refuses one  *)
(* that is not PENDING, any other plans its outcome.                       *)
Review(h, v, outcome) ==
    /\ req[h].pc = "idle"
    /\ row[v].state = "PENDING"
    /\ Enter(h, Plans(Begins(v, "flush"), outcome, TRUE))
    /\ UNCHANGED <<row, status, rowLock, otp, issued, compared, aborts>>

(* validate_otp up to its first write: a row past its deadline goes to     *)
(* handle_expiration, which sees the same cached row.                      *)
SubmitOtp(h, v, code) ==
    /\ req[h].pc = "idle"
    /\ row[v].state = "PENDING"
    /\ code \in 0..issued[v]          \* 0 is a code that was never issued
    /\ IF row[v].deadline = "past"
       THEN Enter(h, Plans(Begins(v, "flush"), Expire, TRUE))
       ELSE Enter(h, [Begins(v, "count") EXCEPT !.attempts = row[v].attempts,
                                                !.code = code])
    /\ UNCHANGED <<row, status, rowLock, otp, issued, compared, aborts>>

\* Mutant: the attempt is counted in memory and not committed.
CountAttempt_NotCommitted(h) ==
    LET n == req[h].attempts + 1
    IN  /\ req[h].pc = "count"
        /\ Unlocked(req[h].v)
        /\ IF n > MaxAttempts
           THEN Enter(h, Plans([req[h] EXCEPT !.attempts = n], Escalate, FALSE))
           ELSE Enter(h, [req[h] EXCEPT !.attempts = n, !.pc = "compare"])
        /\ UNCHANGED <<row, status, rowLock, otp, issued, compared, aborts>>

(* verification.attempts += 1; commit.  The UPDATE writes the value this   *)
(* session computed, not attempts + 1.                                     *)
CountAttempt(h) ==
    LET v == req[h].v
        n == req[h].attempts + 1
    IN  /\ req[h].pc = "count"
        /\ Unlocked(v)
        /\ row' = [row EXCEPT ![v].attempts = n]
        /\ IF n > MaxAttempts
           THEN Enter(h, Plans([req[h] EXCEPT !.attempts = n], Escalate, FALSE))
           ELSE Enter(h, [req[h] EXCEPT !.attempts = n, !.pc = "compare"])
        /\ UNCHANGED <<status, rowLock, otp, issued, compared, aborts>>

(* get_otp_data returns None: no key, or Redis failed.  The verification   *)
(* stays PENDING whatever the attempt count.                               *)
OtpMissing(h) ==
    /\ req[h].pc = "compare"
    /\ Return(h)
    /\ UNCHANGED <<row, status, rowLock, otp, issued, compared, aborts>>

(* verify_otp against the stored hash.                                     *)
CompareOtp(h) ==
    LET v == req[h].v
    IN  /\ req[h].pc = "compare"
        /\ otp[v] # 0
        /\ compared' = [compared EXCEPT ![v] = @ + 1]
        /\ \/ /\ req[h].code = otp[v]
              /\ Enter(h, Plans(req[h], Approve, TRUE))
           \/ /\ req[h].code # otp[v]
              /\ req[h].attempts >= MaxAttempts
              /\ Enter(h, Plans(req[h], Escalate, TRUE))
           \/ /\ req[h].code # otp[v]
              /\ req[h].attempts < MaxAttempts
              /\ Return(h)
        /\ UNCHANGED <<row, status, rowLock, otp, issued, aborts>>

(* _transition_state dirties the row; the SELECT of                        *)
(* _update_transaction_status autoflushes it, which takes the row lock,    *)
(* and then reads the transaction.                                         *)
Flush(h) ==
    LET v == req[h].v
    IN  /\ req[h].pc = "flush"
        /\ Unlocked(v)
        /\ rowLock' = [rowLock EXCEPT ![v] = h]
        /\ Enter(h, [req[h] EXCEPT !.seen = status,
                                   !.pc = IF req[h].deletes THEN "unlink"
                                                            ELSE "commit"])
        /\ UNCHANGED <<row, status, otp, issued, compared, aborts>>

(* delete_otp, before the commit; a Redis error is logged and ignored.     *)
DeleteOtp(h) ==
    LET v == req[h].v
    IN  /\ req[h].pc = "unlink"
        /\ otp' \in { otp, [otp EXCEPT ![v] = 0] }
        /\ Enter(h, [req[h] EXCEPT !.pc = "commit"])
        /\ UNCHANGED <<row, status, rowLock, issued, compared, aborts>>

\* Mutant: _update_transaction_status is left out.
Commit_RowOnly(h) ==
    /\ req[h].pc = "commit"
    /\ row' = [row EXCEPT ![req[h].v].state = req[h].plan.to,
                          ![req[h].v].stamps = @ \union {req[h].plan.to}]
    /\ rowLock' = [rowLock EXCEPT ![req[h].v] = NoHandler]
    /\ Return(h)
    /\ UNCHANGED <<status, otp, issued, compared, aborts>>

(* session.commit: the row and the transaction change together.  The       *)
(* transaction is in the UPDATE only if its status differs from the one    *)
(* this session read.                                                      *)
Commit(h) ==
    LET v == req[h].v
        plan == req[h].plan
    IN  /\ req[h].pc = "commit"
        /\ row' = [row EXCEPT ![v].state = plan.to,
                              ![v].stamps = @ \union {plan.to}]
        /\ status' = IF req[h].seen = plan.tx THEN status ELSE plan.tx
        /\ rowLock' = [rowLock EXCEPT ![v] = NoHandler]
        /\ Return(h)
        /\ UNCHANGED <<otp, issued, compared, aborts>>

(* deliver_otp up to its first write; one refused (not PENDING, no         *)
(* contact, rate limit) changes nothing.                                   *)
RequestOtp(h, v) ==
    /\ req[h].pc = "idle"
    /\ row[v].state = "PENDING"
    /\ issued[v] < MaxOtps
    /\ Enter(h, Begins(v, "stamp"))
    /\ UNCHANGED <<row, status, rowLock, otp, issued, compared, aborts>>

\* Mutant: a delivery also resets the state.
StampDelivery_Reopens(h) ==
    LET v == req[h].v
    IN  /\ req[h].pc = "stamp"
        /\ issued[v] < MaxOtps
        /\ Unlocked(v)
        /\ issued' = [issued EXCEPT ![v] = @ + 1]
        /\ row' = [row EXCEPT ![v].deadline = "future", ![v].state = "PENDING"]
        /\ Enter(h, [req[h] EXCEPT !.pc = "store", !.code = issued[v] + 1])
        /\ UNCHANGED <<status, rowLock, otp, compared, aborts>>

(* A new code and otp_expires_at, committed before the code is stored.     *)
StampDelivery(h) ==
    LET v == req[h].v
    IN  /\ req[h].pc = "stamp"
        /\ issued[v] < MaxOtps
        /\ Unlocked(v)
        /\ issued' = [issued EXCEPT ![v] = @ + 1]
        /\ row' = [row EXCEPT ![v].deadline = "future"]
        /\ Enter(h, [req[h] EXCEPT !.pc = "store", !.code = issued[v] + 1])
        /\ UNCHANGED <<status, rowLock, otp, compared, aborts>>

(* store_otp: overwrites the key; a Redis error is logged and ignored.     *)
StoreOtp(h) ==
    LET v == req[h].v
    IN  /\ req[h].pc = "store"
        /\ otp' \in { otp, [otp EXCEPT ![v] = req[h].code] }
        /\ Return(h)
        /\ UNCHANGED <<row, status, rowLock, issued, compared, aborts>>

(* The process dies, the client disconnects or the database refuses: the   *)
(* transaction rolls back and its lock goes; Redis keeps what was done.    *)
Abort(h) ==
    /\ req[h].pc # "idle"
    /\ aborts < MaxAborts
    /\ aborts' = aborts + 1
    /\ rowLock' = [v \in Verifs |-> IF rowLock[v] = h THEN NoHandler
                                                      ELSE rowLock[v]]
    /\ Return(h)
    /\ UNCHANGED <<row, status, otp, issued, compared>>

-----------------------------------------------------------------------------
(* Time and Redis *)

DeadlinePasses(v) ==
    /\ row[v].deadline = "future"
    /\ row' = [row EXCEPT ![v].deadline = "past"]
    /\ UNCHANGED <<status, rowLock, otp, issued, compared, req, aborts>>

(* The key's TTL runs out, or Redis evicts it or restarts.                 *)
OtpKeyGone(v) ==
    /\ otp[v] # 0
    /\ otp' = [otp EXCEPT ![v] = 0]
    /\ UNCHANGED <<row, status, rowLock, issued, compared, req, aborts>>

-----------------------------------------------------------------------------
Starts(h) ==
    \E v \in Verifs :
        \/ \E outcome \in {Approve, Reject, Escalate} : Review(h, v, outcome)
        \/ \E code \in 0..MaxOtps : SubmitOtp(h, v, code)
        \/ RequestOtp(h, v)

Continues(h) ==
    \/ CountAttempt(h) \/ OtpMissing(h) \/ CompareOtp(h)
    \/ Flush(h) \/ DeleteOtp(h) \/ Commit(h)
    \/ StampDelivery(h) \/ StoreOtp(h)

Environment ==
    \E v \in Verifs : CreateVerification(v) \/ DeadlinePasses(v) \/ OtpKeyGone(v)

Next ==
    \/ Environment
    \/ \E h \in Handlers : Starts(h) \/ Continues(h) \/ Abort(h)

Spec == Init /\ [][Next]_vars

(* A request in flight runs on, and the account holder keeps submitting a  *)
(* code as long as the verification is pending.  Nothing else retries: no  *)
(* task of the program expires a verification nobody submits to.           *)
Fairness ==
    /\ \A h \in Handlers : WF_vars(Continues(h))
    /\ \A v \in Verifs :
         SF_vars(\E h \in Handlers, code \in 0..MaxOtps : SubmitOtp(h, v, code))

FairSpec == Spec /\ Fairness

-----------------------------------------------------------------------------
TypeOK ==
    /\ row \in [Verifs -> Row]
    /\ status \in TxStatuses
    /\ rowLock \in [Verifs -> Handlers \union {NoHandler}]
    /\ otp \in [Verifs -> Nat]
    /\ issued \in [Verifs -> Nat]
    /\ compared \in [Verifs -> Nat]
    /\ req \in [Handlers -> Request]
    /\ aborts \in Nat

(* The transaction's status is the outcome of one of its settled           *)
(* verifications, and "verify" as long as none is settled: however the     *)
(* requests interleave, stop halfway or overwrite each other, the row and  *)
(* the transaction never tell different stories.  The code writes both in  *)
(* one commit, the transaction only if its status changed.                 *)
StatusAgrees ==
    \/ /\ status = "verify"
       /\ \A v \in Verifs : ~Settled(v)
    \/ \E v \in Verifs : [to |-> row[v].state, tx |-> status] \in Outcomes

(* What makes StatusAgrees inductive. *)

\* A request names its row, and the row is there.
RequestInv ==
    \A h \in Handlers : req[h].pc # "idle" =>
        /\ req[h].v \in Verifs
        /\ row[req[h].v].state # "ABSENT"

\* The row lock is held exactly by the request between its flush and its commit.
LockInv ==
    /\ \A h \in Handlers :
         req[h].pc \in Writing => rowLock[req[h].v] = h
    /\ \A v \in Verifs : rowLock[v] # NoHandler =>
         /\ req[rowLock[v]].pc \in Writing
         /\ req[rowLock[v]].v = v

\* v accounts for the status, and a commit on v that will leave the
\* transaction out of its UPDATE would have written the same status.
Accounts(v) ==
    /\ [to |-> row[v].state, tx |-> status] \in Outcomes
    /\ \A h \in Handlers :
         (/\ req[h].pc \in Writing
          /\ req[h].v = v
          /\ req[h].seen = req[h].plan.tx) => req[h].plan.tx = status

Untouched ==
    /\ status = "verify"
    /\ \A v \in Verifs : ~Settled(v)
    /\ \A h \in Handlers : req[h].pc \in Writing => req[h].seen = "verify"

StatusInv == Untouched \/ \E v \in Verifs : Accounts(v)

(* The inductive invariant: requests know their rows, the lock is held by  *)
(* the request that is writing, and some settled row accounts for the      *)
(* transaction's status even if a commit leaves the transaction out.       *)
IInv == TypeOK /\ RequestInv /\ LockInv /\ StatusInv

(* A settled verification is never pending again, and a row never          *)
(* disappears: no stale session writes PENDING back.                       *)
NeverReopened ==
    [][\A v \in Verifs : Settled(v) => Settled(v)']_vars

(* A terminal state is final as soon as no request that began before it    *)
(* was reached is still in flight: only such a request, on the row its     *)
(* session cached as PENDING, can replace it (verification_service.py      *)
(* line 616), and none begins any more.                                    *)
Unattended(v) == \A h \in Handlers : req[h].v # v

FinalOnceUnattended ==
    [][\A v \in Verifs : Settled(v) /\ Unattended(v) =>
         row'[v].state = row[v].state /\ Unattended(v)']_vars

(* The abstract lifecycle this component implements when the requests on   *)
(* a transaction do not overlap.                                           *)
Lifecycle == INSTANCE VerificationLifecycle
    WITH state <- [v \in Verifs |-> row[v].state]

(* Every behaviour of a single handler is a behaviour of the lifecycle:    *)
(* crashes between the steps of a request, an OTP deleted before a commit  *)
(* that fails, and lost OTP keys included.                                 *)
ImplementsLifecycle == Lifecycle!Spec

(* No more submissions are compared with a stored OTP than max_attempts:   *)
(* the attempt is committed before the code is looked at, so neither a     *)
(* crash nor a lost OTP key gives one back.                                *)
GuessesWithinLimit ==
    \A v \in Verifs : compared[v] <= MaxAttempts

(* What makes the two properties above inductive when requests do not      *)
(* overlap: what the request remembers is still what is committed, and     *)
(* every comparison was paid for by a committed attempt.                   *)
SerialInv ==
    /\ \A h \in Handlers :
         LET r == req[h]
             v == r.v
         IN  /\ r.pc # "idle" => row[v].state = "PENDING"
             /\ r.pc \in Writing => r.seen = status
             /\ r.pc \in {"count", "compare"} => r.attempts = row[v].attempts
             /\ r.pc = "compare" => /\ r.attempts <= MaxAttempts
                                    /\ compared[v] < r.attempts
    /\ \A v \in Verifs : /\ compared[v] <= row[v].attempts
                         /\ compared[v] <= MaxAttempts

(* At most one of verified_at, failed_at and expired_at is set, and it is  *)
(* the one of the row's state.                                             *)
OneTimestamp ==
    \A v \in Verifs :
        row[v].stamps = IF Settled(v) THEN {row[v].state} ELSE {}

(* A pending verification whose owner keeps submitting is settled in the   *)
(* end, however often the OTP is lost: the attempts run out.               *)
PendingIsSettled ==
    \A v \in Verifs : (row[v].state = "PENDING") ~> Settled(v)
=============================================================================
