---------------------------- MODULE RateLimiter ----------------------------
(***************************************************************************)
(* One key of the Redis rate limiter (backend/app/services/rate_limiter.py *)
(* RateLimiter.is_allowed, used by the login route, and its twin           *)
(* otp_service.is_rate_limited, used by deliver_otp).                      *)
(*                                                                         *)
(* The check is three Redis commands, GET, then SET EX or INCR.  Each is   *)
(* awaited, so callers of both server processes interleave between them.   *)
(***************************************************************************)
EXTENDS Naturals, FiniteSets

CONSTANTS
    Callers,       \* requests for this key that can be in flight at once
    MaxRequests,   \* max_requests of the window
    MaxFailures    \* bound: Redis errors

ASSUME CallersAssumption == IsFiniteSet(Callers)
ASSUME MaxRequestsAssumption == MaxRequests \in Nat \ {0}
ASSUME MaxFailuresAssumption == MaxFailures \in Nat

VARIABLES
    key,       \* value of the Redis key, 0 if it does not exist
    ttl,       \* the key has a time to live
    pc,        \* what each caller does next
    admitted,  \* history: calls the counter admitted since the key last expired
    failures   \* Redis errors so far

window == <<key, ttl, pc, admitted, failures>>

WindowInit ==
    /\ key = 0
    /\ ttl = FALSE
    /\ pc = [c \in Callers |-> "idle"]
    /\ admitted = 0
    /\ failures = 0

Goto(c, step) == pc' = [pc EXCEPT ![c] = step]

-----------------------------------------------------------------------------
\* Mutant: the limit is compared with the count this call would make.
Check_OffByOne(c) ==
    /\ pc[c] = "idle"
    /\ \/ key = 0 /\ Goto(c, "set")
       \/ key + 1 >= MaxRequests /\ key > 0 /\ Goto(c, "refused")
       \/ key \in 1..(MaxRequests - 2) /\ Goto(c, "incr")
    /\ UNCHANGED <<key, ttl, admitted, failures>>

\* Mutant: the limit is not compared at all.
Check_NoLimit(c) ==
    /\ pc[c] = "idle"
    /\ IF key = 0 THEN Goto(c, "set") ELSE Goto(c, "incr")
    /\ UNCHANGED <<key, ttl, admitted, failures>>

(* GET: no key means the first request of a window, a full count refuses.  *)
Check(c) ==
    /\ pc[c] = "idle"
    /\ \/ key = 0 /\ Goto(c, "set")
       \/ key >= MaxRequests /\ Goto(c, "refused")
       \/ key \in 1..(MaxRequests - 1) /\ Goto(c, "incr")
    /\ UNCHANGED <<key, ttl, admitted, failures>>

(* SET key 1 EX window: whatever the key holds by now is overwritten.      *)
Open(c) ==
    /\ pc[c] = "set"
    /\ key' = 1
    /\ ttl' = TRUE
    /\ admitted' = admitted + 1
    /\ Goto(c, "idle")
    /\ UNCHANGED failures

(* INCR: creates the key, without a time to live, if it expired since GET. *)
Count(c) ==
    /\ pc[c] = "incr"
    /\ key' = key + 1
    /\ admitted' = admitted + 1
    /\ Goto(c, "idle")
    /\ UNCHANGED <<ttl, failures>>

(* The 429 response, or the ValueError of deliver_otp.                     *)
Refuse(c) ==
    /\ pc[c] = "refused"
    /\ Goto(c, "idle")
    /\ UNCHANGED <<key, ttl, admitted, failures>>

(* A Redis error lets the call through (fail open), the command not having *)
(* been executed.  One executed whose reply is lost is Open or Count.      *)
RedisFails(c) ==
    /\ pc[c] \in {"set", "incr"}
    /\ failures < MaxFailures
    /\ failures' = failures + 1
    /\ Goto(c, "idle")
    /\ UNCHANGED <<key, ttl, admitted>>

(* Redis expires the key.                                                  *)
WindowEnds ==
    /\ ttl
    /\ key' = 0
    /\ ttl' = FALSE
    /\ admitted' = 0
    /\ UNCHANGED <<pc, failures>>

WindowNext ==
    \/ WindowEnds
    \/ \E c \in Callers :
         Check(c) \/ Open(c) \/ Count(c) \/ Refuse(c) \/ RedisFails(c)

WindowSpec == WindowInit /\ [][WindowNext]_window

-----------------------------------------------------------------------------
TypeOK ==
    /\ key \in Nat
    /\ ttl \in BOOLEAN
    /\ pc \in [Callers -> {"idle", "set", "incr", "refused"}]
    /\ admitted \in Nat
    /\ failures \in Nat

(* A caller is refused only when max_requests calls of the window have     *)
(* been admitted: however the three commands of different callers          *)
(* interleave and whatever Redis loses, nobody is locked out early.        *)
RefusedOnlyWhenFull ==
    [][\A c \in Callers :
         (pc[c] # "refused" /\ pc'[c] = "refused") => admitted >= MaxRequests]_window

(* How far concurrent callers can exceed the limit of a window: each of N  *)
(* callers can reset the counter once with a SET decided before the key    *)
(* existed, and can overrun it once with an INCR decided below the limit.  *)
(* With one caller this is the limit itself.                               *)
WindowBound ==
    LET N == Cardinality(Callers)
    IN  2 * admitted <= 2 * N * (MaxRequests - 1) + N * (N + 1)

(* "Uses atomic Redis INCR + EXPIRE": a counter that exists will expire.   *)
KeyExpires == key > 0 => ttl
=============================================================================
