--------------------------- MODULE ConnectionPool ---------------------------
(***************************************************************************)
(* Database connections of one server process                              *)
(* (backend/app/dependencies.py get_db_session and get_current_user,       *)
(* infrastructure/database.py, and the services that open a second session *)
(* while a request's own is still open: transaction_ingest_service.py,     *)
(* rule_engine.py, decision_engine.py, audit_service.py).                  *)
(*                                                                         *)
(* Authentication reads the user in the request's session and never ends   *)
(* that database transaction, so the session keeps its connection until    *)
(* the request is over.  The services check out another one for each of    *)
(* their sections.  A checkout that finds the pool empty waits, and raises *)
(* after pool_timeout.  Ingest says what the sections do.                  *)
(***************************************************************************)
EXTENDS Naturals, FiniteSets

CONSTANTS
    Requests,    \* requests handled by the process
    PoolSize,    \* pool_size + max_overflow
    Sections,    \* sections of an ingest that open a session, one after another
    BestEffort   \* those whose errors are logged and swallowed

ASSUME RequestsAssumption == IsFiniteSet(Requests)
ASSUME PoolAssumption == PoolSize \in Nat \ {0}
ASSUME SectionsAssumption == Sections \in Nat \ {0} /\ BestEffort \subseteq 1..Sections

VARIABLES
    free,     \* connections in the pool
    client    \* what each client is doing

pool == <<free, client>>

\* auth: holds the connection of the request's session; work: holds another.
Client == [pc: {"new", "wait", "run", "end", "done"}, section: 0..Sections,
           auth: BOOLEAN, work: BOOLEAN]

PoolInit ==
    /\ free = PoolSize
    /\ client = [c \in Requests |->
                   [pc |-> "new", section |-> 0, auth |-> FALSE, work |-> FALSE]]

Set(c, r) == client' = [client EXCEPT ![c] = r]

-----------------------------------------------------------------------------
(* The first statement of the request's session.                           *)
Arrive(c) ==
    /\ client[c].pc = "new"
    /\ Set(c, [client[c] EXCEPT !.pc = "wait"])
    /\ UNCHANGED free

\* The pool hands out a connection: to section 0, the authentication, it is
\* one the request keeps.
Checkout(c) ==
    LET r == client[c]
    IN  /\ r.pc = "wait"
        /\ free > 0
        /\ free' = free - 1
        /\ IF r.section = 0
           THEN Set(c, [r EXCEPT !.pc = "run", !.auth = TRUE])
           ELSE Set(c, [r EXCEPT !.pc = "run", !.work = TRUE])

\* The section that follows is s, the end if there is none: a section whose
\* data is cached or that does not apply is passed over.
End == Sections + 1

After(r, s) ==
    IF s = End
    THEN [r EXCEPT !.pc = "end", !.work = FALSE]
    ELSE [r EXCEPT !.pc = "wait", !.section = s, !.work = FALSE]

\* Mutant: a section's session is not closed.
Proceed_Leaks(c, s) ==
    LET r == client[c]
    IN  /\ r.pc = "run" /\ s > r.section
        /\ free' = free
        /\ Set(c, After(r, s))

(* The section ends, by returning or by raising what its caller swallows:  *)
(* async with closes its session.                                          *)
Proceed(c, s) ==
    LET r == client[c]
    IN  /\ r.pc = "run" /\ s > r.section
        /\ free' = IF r.work THEN free + 1 ELSE free
        /\ Set(c, After(r, s))

(* 401, a validation error, or an exception nobody swallows.               *)
Fail(c) ==
    LET r == client[c]
    IN  /\ r.pc = "run" /\ r.section \notin BestEffort
        /\ free' = IF r.work THEN free + 1 ELSE free
        /\ Set(c, [r EXCEPT !.pc = "end", !.work = FALSE])

\* Mutant: a checkout waits for ever.
TimeOut_Never(c, s) ==
    /\ client[c].pc = "wait" /\ s > client[c].section
    /\ free > 0
    /\ Set(c, [client[c] EXCEPT !.pc = "end"])
    /\ UNCHANGED free

(* sqlalchemy.exc.TimeoutError: a best-effort section is skipped, any      *)
(* other ends the request.                                                 *)
TimeOut(c, s) ==
    LET r == client[c]
    IN  /\ r.pc = "wait" /\ s > r.section
        /\ free = 0
        /\ Set(c, IF r.section \in BestEffort
                  THEN After(r, s)
                  ELSE [r EXCEPT !.pc = "end"])
        /\ UNCHANGED free

(* get_db_session's finally: the request's session is closed.              *)
Finish(c) ==
    LET r == client[c]
    IN  /\ r.pc = "end"
        /\ free' = IF r.auth THEN free + 1 ELSE free
        /\ Set(c, [r EXCEPT !.pc = "done", !.auth = FALSE])

(* The process dies: the database closes its connections.                  *)
Crash ==
    /\ client' = [c \in Requests |->
                     IF client[c].pc = "new" THEN client[c]
                     ELSE [client[c] EXCEPT !.pc = "done", !.auth = FALSE, !.work = FALSE]]
    /\ free' = PoolSize

-----------------------------------------------------------------------------
PoolTypeOK ==
    /\ free \in 0..PoolSize
    /\ client \in [Requests -> Client]

Held == Cardinality({c \in Requests : client[c].auth})
        + Cardinality({c \in Requests : client[c].work})

(* No connection is lost or handed out twice, whatever fails, times out or *)
(* is skipped.                                                             *)
NoLeak == free + Held = PoolSize

Waiting(c) == client[c].pc = "wait"
Active == {c \in Requests : client[c].pc \notin {"new", "done"}}

(* The requests block each other only when as many of them as the pool has *)
(* connections hold one and wait for their second: with fewer concurrent   *)
(* requests somebody can always go on without a timeout.                   *)
GridlockNeedsFullPool ==
    (/\ Active # {}
     /\ \A c \in Active : Waiting(c)
     /\ free = 0) => Cardinality({c \in Requests : client[c].auth}) = PoolSize

(* A pool that is exhausted recovers: every client that has arrived ends,  *)
(* with its connections returned, because a checkout cannot wait for ever. *)
EveryoneEnds ==
    \A c \in Requests : Waiting(c) ~> (client[c].pc = "done")
=============================================================================
