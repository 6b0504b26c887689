---------------------------- MODULE Ingest_proofs ----------------------------
(***************************************************************************)
(* Proofs about Ingest, for every number of requests, every size of the    *)
(* pool, every finite set of rows from before and any number of faults.    *)
(*                                                                         *)
(* Connections: none is lost, and requests block each other only when all  *)
(* of them are held by requests that wait for their second.  One is held   *)
(* by the request's session or by the session of a section (NoLeak counts  *)
(* both), the second only while the section runs (Fits).  When everybody   *)
(* waits there is none of the second kind, so those of the first kind are  *)
(* the whole pool.                                                         *)
(*                                                                         *)
(* What an answered request left behind: Account says, for every point a   *)
(* request can be at, what it has decided, audited, scored and opened by   *)
(* then; another request's step leaves it so (AccountFrame).               *)
(*                                                                         *)
(* The features a decision was made on: a row has the time it was first    *)
(* written at for good (Stored, Written), and the picture of the           *)
(* table the features were computed from agrees with the table on it       *)
(* (Pictured).  So the rows counted then and those the training query      *)
(* counts for the transaction differ by the transaction itself.            *)
(***************************************************************************)
EXTENDS Ingest, FiniteSetTheorems, FunctionTheorems, TLAPS

Auths(cl) == {c \in Requests : cl[c].auth}
Works(cl) == {c \in Requests : cl[c].work}

\* What a request can hold where it is.
Fits(r) ==
    /\ r.work => r.pc = "run"
    /\ r.auth => r.pc \notin {"new", "done"}
    /\ (r.pc = "wait" /\ r.section = 0) => ~r.auth

PoolInv == PoolTypeOK /\ NoLeak /\ \A c \in Requests : Fits(client[c])

Bit(b) == IF b THEN 1 ELSE 0

-----------------------------------------------------------------------------
(* Who holds connections after one request's record is replaced.           *)
LEMMA Change ==
    ASSUME client \in [Requests -> Client], NEW c \in Requests, NEW r \in Client, Set(c, r)
    PROVE  /\ client' \in [Requests -> Client]
           /\ client'[c] = r
           /\ \A d \in Requests \ {c} : client'[d] = client[d]
           /\ Auths(client') = IF r.auth THEN Auths(client) \union {c} ELSE Auths(client) \ {c}
           /\ Works(client') = IF r.work THEN Works(client) \union {c} ELSE Works(client) \ {c}
<1>1. /\ client' \in [Requests -> Client]
      /\ client'[c] = r
      /\ \A d \in Requests \ {c} : client'[d] = client[d]
  BY DEF Set
<1>2. Auths(client') = IF r.auth THEN Auths(client) \union {c} ELSE Auths(client) \ {c}
  <2>1. c \in Auths(client') <=> r.auth
    BY <1>1 DEF Auths
  <2>2. \A d \in Requests \ {c} : d \in Auths(client') <=> d \in Auths(client)
    BY <1>1 DEF Auths
  <2>3. Auths(client) \subseteq Requests /\ Auths(client') \subseteq Requests
    BY DEF Auths
  <2> HIDE DEF Auths
  <2>4. QED
    BY <2>1, <2>2, <2>3
<1>3. Works(client') = IF r.work THEN Works(client) \union {c} ELSE Works(client) \ {c}
  <2>1. c \in Works(client') <=> r.work
    BY <1>1 DEF Works
  <2>2. \A d \in Requests \ {c} : d \in Works(client') <=> d \in Works(client)
    BY <1>1 DEF Works
  <2>3. Works(client) \subseteq Requests /\ Works(client') \subseteq Requests
    BY DEF Works
  <2> HIDE DEF Works
  <2>4. QED
    BY <2>1, <2>2, <2>3
<1>4. QED
  BY <1>1, <1>2, <1>3

(* The number of connections held changes with what that request holds.    *)
LEMMA HeldAfter ==
    ASSUME client \in [Requests -> Client], NEW c \in Requests, NEW r \in Client, Set(c, r)
    PROVE  /\ Held \in Nat /\ Held' \in Nat
           /\ Held' = Held + Bit(r.auth) + Bit(r.work) - Bit(client[c].auth) - Bit(client[c].work)
<1> DEFINE A == Auths(client)
           W == Works(client)
           A2 == Auths(client')
           W2 == Works(client')
<1>1. /\ IsFiniteSet(A) /\ IsFiniteSet(W)
  <2>1. A \in SUBSET Requests /\ W \in SUBSET Requests
    BY DEF Auths, Works
  <2>2. QED
    BY <2>1, RequestsAssumption, FS_Subset
<1>2. /\ A2 = IF r.auth THEN A \union {c} ELSE A \ {c}
      /\ W2 = IF r.work THEN W \union {c} ELSE W \ {c}
  BY Change
<1>3. (c \in A <=> client[c].auth) /\ (c \in W <=> client[c].work)
  BY Zenon DEF Auths, Works
<1>4. Held = Cardinality(A) + Cardinality(W) /\ Held' = Cardinality(A2) + Cardinality(W2)
  BY DEF Held, Auths, Works
<1> HIDE DEF A, W, A2, W2
<1>5. Cardinality(A) \in Nat /\ Cardinality(W) \in Nat
  BY <1>1, FS_CardinalityType
<1>6. /\ Cardinality(A2) = Cardinality(A) + Bit(r.auth) - Bit(client[c].auth)
      /\ Cardinality(A2) \in Nat
  <2>1. CASE r.auth
    <3>1. /\ IsFiniteSet(A2)
          /\ Cardinality(A2) = IF client[c].auth THEN Cardinality(A) ELSE Cardinality(A) + 1
      BY <1>1, <1>2, <1>3, <2>1, FS_AddElement
    <3>2. QED
      BY <3>1, <2>1, <1>5, FS_CardinalityType DEF Bit
  <2>2. CASE ~r.auth
    <3>1. /\ IsFiniteSet(A2)
          /\ Cardinality(A2) = IF client[c].auth THEN Cardinality(A) - 1 ELSE Cardinality(A)
      BY <1>1, <1>2, <1>3, <2>2, FS_RemoveElement
    <3>2. QED
      BY <3>1, <2>2, <1>5, FS_CardinalityType DEF Bit
  <2>3. QED
    BY <2>1, <2>2
<1>7. /\ Cardinality(W2) = Cardinality(W) + Bit(r.work) - Bit(client[c].work)
      /\ Cardinality(W2) \in Nat
  <2>1. CASE r.work
    <3>1. /\ IsFiniteSet(W2)
          /\ Cardinality(W2) = IF client[c].work THEN Cardinality(W) ELSE Cardinality(W) + 1
      BY <1>1, <1>2, <1>3, <2>1, FS_AddElement
    <3>2. QED
      BY <3>1, <2>1, <1>5, FS_CardinalityType DEF Bit
  <2>2. CASE ~r.work
    <3>1. /\ IsFiniteSet(W2)
          /\ Cardinality(W2) = IF client[c].work THEN Cardinality(W) - 1 ELSE Cardinality(W)
      BY <1>1, <1>2, <1>3, <2>2, FS_RemoveElement
    <3>2. QED
      BY <3>1, <2>2, <1>5, FS_CardinalityType DEF Bit
  <2>3. QED
    BY <2>1, <2>2
<1>8. QED
  BY <1>4, <1>5, <1>6, <1>7 DEF Bit

(* A step that gives back or takes what the request's record says.         *)
LEMMA PoolStep ==
    ASSUME PoolInv, NEW c \in Requests, NEW r \in Client, Set(c, r), Fits(r),
           free' \in Nat,
           free' = free + Bit(client[c].auth) + Bit(client[c].work) - Bit(r.auth) - Bit(r.work)
    PROVE  PoolInv'
<1>1. client \in [Requests -> Client] /\ free \in 0..PoolSize /\ free + Held = PoolSize
  BY DEF PoolInv, PoolTypeOK, NoLeak
<1>2. /\ client' \in [Requests -> Client]
      /\ client'[c] = r
      /\ \A d \in Requests \ {c} : client'[d] = client[d]
  BY <1>1, Change
<1>3. /\ Held \in Nat /\ Held' \in Nat
      /\ Held' = Held + Bit(r.auth) + Bit(r.work) - Bit(client[c].auth) - Bit(client[c].work)
  BY <1>1, HeldAfter
<1>4. NoLeak' /\ free' \in 0..PoolSize
  BY <1>1, <1>3, PoolAssumption DEF NoLeak, Bit
<1>5. \A d \in Requests : Fits(client'[d])
  <2>1. \A d \in Requests : Fits(client[d])
    BY DEF PoolInv
  <2>2. QED
    BY <1>2, <2>1, Zenon
<1>6. QED
  BY <1>2, <1>4, <1>5 DEF PoolInv, PoolTypeOK

-----------------------------------------------------------------------------
(* The steps of the pool.                                                  *)

LEMMA OneClient ==
    ASSUME PoolInv, NEW c \in Requests
    PROVE  /\ client[c] \in Client /\ Fits(client[c]) /\ free \in Nat
           /\ client[c].section \in 0..Sections
  BY PoolAssumption DEF PoolInv, PoolTypeOK, Client

LEMMA ArriveKeeps == ASSUME PoolInv, NEW c \in Requests, Arrive(c) PROVE PoolInv'
<1> DEFINE r == [client[c] EXCEPT !.pc = "wait"]
<1>1. client[c] \in Client /\ Fits(client[c]) /\ free \in Nat
  BY OneClient
<1>2. client[c].pc = "new" /\ Set(c, r) /\ free' = free
  BY DEF Arrive
<1>3. r \in Client /\ r.pc = "wait" /\ r.auth = client[c].auth /\ r.work = client[c].work
  BY <1>1 DEF Client
<1>4. Fits(r)
  BY <1>1, <1>2, <1>3 DEF Fits
<1>5. free' = free + Bit(client[c].auth) + Bit(client[c].work) - Bit(r.auth) - Bit(r.work)
  BY <1>1, <1>2, <1>3 DEF Bit
<1>6. QED
  BY <1>1, <1>2, <1>3, <1>4, <1>5, PoolStep

LEMMA CheckoutKeeps == ASSUME PoolInv, NEW c \in Requests, Checkout(c) PROVE PoolInv'
<1>1. client[c] \in Client /\ Fits(client[c]) /\ free \in Nat
  BY OneClient
<1>2. client[c].pc = "wait" /\ free > 0 /\ free' = free - 1 /\ ~client[c].work
  BY <1>1 DEF Checkout, Fits
<1>3. CASE client[c].section = 0
  <2> DEFINE r == [client[c] EXCEPT !.pc = "run", !.auth = TRUE]
  <2>1. Set(c, r) /\ ~client[c].auth
    BY <1>1, <1>2, <1>3 DEF Checkout, Fits
  <2>2. r \in Client /\ r.pc = "run" /\ r.auth /\ ~r.work
    BY <1>1, <1>2 DEF Client
  <2>3. Fits(r)
    BY <2>2 DEF Fits
  <2>4. free' \in Nat /\ free' = free + Bit(client[c].auth) + Bit(client[c].work) - Bit(r.auth) - Bit(r.work)
    BY <1>1, <1>2, <2>1, <2>2 DEF Bit
  <2> HIDE DEF r
  <2>5. QED
    BY <2>1, <2>2, <2>3, <2>4, PoolStep
<1>4. CASE client[c].section # 0
  <2> DEFINE r == [client[c] EXCEPT !.pc = "run", !.work = TRUE]
  <2>1. Set(c, r)
    BY <1>4 DEF Checkout
  <2>2. r \in Client /\ r.pc = "run" /\ r.auth = client[c].auth /\ r.work
    BY <1>1, <1>2 DEF Client
  <2>3. Fits(r)
    BY <2>2 DEF Fits
  <2>4. free' \in Nat /\ free' = free + Bit(client[c].auth) + Bit(client[c].work) - Bit(r.auth) - Bit(r.work)
    BY <1>1, <1>2, <2>2 DEF Bit
  <2> HIDE DEF r
  <2>5. QED
    BY <2>1, <2>2, <2>3, <2>4, PoolStep
<1>5. QED
  BY <1>3, <1>4

(* What After makes of a request that goes on to section s.                *)
LEMMA AfterFits ==
    ASSUME NEW r \in Client, NEW s \in 1..End, r.auth => r.pc \notin {"new", "done"}
    PROVE  /\ After(r, s) \in Client /\ Fits(After(r, s))
           /\ After(r, s).auth = r.auth /\ ~After(r, s).work
<1>1. Sections \in Nat
  BY SectionsAssumption
<1>2. CASE s = End
  BY <1>1, <1>2 DEF After, Client, Fits
<1>3. CASE s # End
  <2>1. s \in 0..Sections /\ s # 0
    BY <1>1, <1>3 DEF End
  <2>2. QED
    BY <1>3, <2>1 DEF After, Client, Fits
<1>4. QED
  BY <1>2, <1>3

LEMMA ProceedKeeps ==
    ASSUME PoolInv, NEW c \in Requests, NEW s \in 1..End, Proceed(c, s)
    PROVE  PoolInv'
<1> DEFINE r == After(client[c], s)
<1>1. client[c] \in Client /\ Fits(client[c]) /\ free \in Nat
  BY OneClient
<1>2. client[c].pc = "run" /\ Set(c, r) /\ free' = IF client[c].work THEN free + 1 ELSE free
  BY DEF Proceed
<1>3. r \in Client /\ Fits(r) /\ r.auth = client[c].auth /\ ~r.work
  BY <1>1, <1>2, AfterFits
<1> HIDE DEF r
<1>4. free' \in Nat /\ free' = free + Bit(client[c].auth) + Bit(client[c].work) - Bit(r.auth) - Bit(r.work)
  BY <1>1, <1>2, <1>3 DEF Bit
<1>5. QED
  BY <1>2, <1>3, <1>4, PoolStep

LEMMA FailKeeps == ASSUME PoolInv, NEW c \in Requests, Fail(c) PROVE PoolInv'
<1> DEFINE r == [client[c] EXCEPT !.pc = "end", !.work = FALSE]
<1>1. client[c] \in Client /\ free \in Nat
  BY OneClient
<1>2. client[c].pc = "run" /\ Set(c, r) /\ free' = IF client[c].work THEN free + 1 ELSE free
  BY DEF Fail
<1>3. r \in Client /\ r.pc = "end" /\ r.auth = client[c].auth /\ ~r.work
  BY <1>1 DEF Client
<1> HIDE DEF r
<1>4. free' \in Nat /\ free' = free + Bit(client[c].auth) + Bit(client[c].work) - Bit(r.auth) - Bit(r.work)
  BY <1>1, <1>2, <1>3 DEF Bit
<1>5. Fits(r)
  BY <1>3 DEF Fits
<1>6. QED
  BY <1>2, <1>3, <1>4, <1>5, PoolStep

LEMMA TimeOutKeeps ==
    ASSUME PoolInv, NEW c \in Requests, NEW s \in 1..End, TimeOut(c, s)
    PROVE  PoolInv'
<1>1. client[c] \in Client /\ Fits(client[c]) /\ free \in Nat
  BY OneClient
<1>2. client[c].pc = "wait" /\ free' = free /\ ~client[c].work
  BY <1>1 DEF TimeOut, Fits
<1>3. CASE client[c].section \in BestEffort
  <2> DEFINE r == After(client[c], s)
  <2>1. Set(c, r)
    BY <1>3 DEF TimeOut
  <2>2. r \in Client /\ Fits(r) /\ r.auth = client[c].auth /\ ~r.work
    BY <1>1, <1>2, AfterFits
  <2> HIDE DEF r
  <2>3. free' = free + Bit(client[c].auth) + Bit(client[c].work) - Bit(r.auth) - Bit(r.work)
    BY <1>1, <1>2, <2>2 DEF Bit
  <2>4. QED
    BY <1>1, <1>2, <2>1, <2>2, <2>3, PoolStep
<1>4. CASE client[c].section \notin BestEffort
  <2> DEFINE r == [client[c] EXCEPT !.pc = "end"]
  <2>1. Set(c, r)
    BY <1>4 DEF TimeOut
  <2>2. r \in Client /\ r.pc = "end" /\ r.auth = client[c].auth /\ r.work = client[c].work
    BY <1>1 DEF Client
  <2> HIDE DEF r
  <2>3. free' = free + Bit(client[c].auth) + Bit(client[c].work) - Bit(r.auth) - Bit(r.work)
    BY <1>1, <1>2, <2>2 DEF Bit
  <2>4. Fits(r)
    BY <1>2, <2>2 DEF Fits
  <2>5. QED
    BY <1>1, <1>2, <2>1, <2>2, <2>3, <2>4, PoolStep
<1>5. QED
  BY <1>3, <1>4

LEMMA FinishKeeps == ASSUME PoolInv, NEW c \in Requests, Finish(c) PROVE PoolInv'
<1> DEFINE r == [client[c] EXCEPT !.pc = "done", !.auth = FALSE]
<1>1. client[c] \in Client /\ Fits(client[c]) /\ free \in Nat
  BY OneClient
<1>2. client[c].pc = "end" /\ Set(c, r) /\ free' = IF client[c].auth THEN free + 1 ELSE free
  BY DEF Finish
<1>3. r \in Client /\ r.pc = "done" /\ ~r.auth /\ r.work = client[c].work /\ ~client[c].work
  BY <1>1, <1>2 DEF Client, Fits
<1> HIDE DEF r
<1>4. free' \in Nat /\ free' = free + Bit(client[c].auth) + Bit(client[c].work) - Bit(r.auth) - Bit(r.work)
  BY <1>1, <1>2, <1>3 DEF Bit
<1>5. Fits(r)
  BY <1>3 DEF Fits
<1>6. QED
  BY <1>2, <1>3, <1>4, <1>5, PoolStep

(* With the process gone, so are the connections of its requests.          *)
LEMMA NobodyHolds ==
    ASSUME NEW cl, \A c \in Requests : ~cl[c].auth /\ ~cl[c].work
    PROVE  Cardinality(Auths(cl)) + Cardinality(Works(cl)) = 0
<1>1. Auths(cl) = {} /\ Works(cl) = {}
  BY DEF Auths, Works
<1>2. QED
  BY <1>1, FS_EmptySet

LEMMA CrashKeeps == ASSUME PoolInv, Crash PROVE PoolInv'
<1>1. client \in [Requests -> Client] /\ \A c \in Requests : Fits(client[c])
  BY DEF PoolInv, PoolTypeOK
<1>2. /\ free' = PoolSize
      /\ client' = [c \in Requests |->
                      IF client[c].pc = "new" THEN client[c]
                      ELSE [client[c] EXCEPT !.pc = "done", !.auth = FALSE, !.work = FALSE]]
  BY DEF Crash
<1>3. \A c \in Requests : client'[c] \in Client /\ Fits(client'[c])
                          /\ ~client'[c].auth /\ ~client'[c].work
  <2> TAKE c \in Requests
  <2>1. CASE client[c].pc = "new"
    BY <1>1, <1>2, <2>1 DEF Fits
  <2>2. CASE client[c].pc # "new"
    BY <1>1, <1>2, <2>2 DEF Client, Fits
  <2>3. QED
    BY <2>1, <2>2
<1>4. client' \in [Requests -> Client]
  BY <1>2, <1>3
<1>5. Held' = 0
  BY <1>3, NobodyHolds DEF Held, Auths, Works
<1>6. NoLeak' /\ free' \in 0..PoolSize
  <2>1. free' = PoolSize
    BY <1>2
  <2>2. QED
    BY <2>1, <1>5, PoolAssumption DEF NoLeak
<1>7. \A c \in Requests : Fits(client'[c])
  BY <1>3
<1>8. QED
  BY <1>4, <1>6, <1>7 DEF PoolInv, PoolTypeOK

-----------------------------------------------------------------------------
(* The steps of the ingest.                                                *)

\* A request goes on with a section the pool knows, or ends.
LEMMA SectionsInRange ==
    ASSUME PoolInv, NEW c \in Requests
    PROVE  NextSections(c) \subseteq 1..End
<1>1. client[c].section \in 0..Sections
  BY OneClient
<1>2. Sections = 7 /\ End = 8
  BY IngestAssumption DEF End
<1>3. QED
  BY <1>1, <1>2 DEF NextSections, Compute, Rules, Decide, SaveScore, OpenVerification

LEMMA PoolUnchanged == PoolInv /\ UNCHANGED pool => PoolInv'
<1>1. SUFFICES ASSUME PoolInv, UNCHANGED pool PROVE PoolInv'
  OBVIOUS
<1>2. free' = free /\ client' = client
  BY <1>1 DEF pool
<1>3. PoolTypeOK' /\ \A c \in Requests : Fits(client'[c])
  BY <1>1, <1>2 DEF PoolInv, PoolTypeOK
<1>4. NoLeak'
  BY <1>1, <1>2 DEF PoolInv, NoLeak, Held
<1>5. QED
  BY <1>3, <1>4 DEF PoolInv

LEMMA RunsKeeps == ASSUME PoolInv, NEW c \in Requests, Runs(c) PROVE PoolInv'
<1>1. CASE Connects(c)
  BY <1>1, CheckoutKeeps, FinishKeeps DEF Connects
<1>2. CASE Insert(c) \/ LookForPending(c)
  BY <1>2, PoolUnchanged DEF Insert, LookForPending
<1>3. CASE Succeeds(c)
  <2>1. PICK s \in NextSections(c) : Proceed(c, s)
    BY <1>3 DEF Succeeds
  <2>2. QED
    BY <2>1, SectionsInRange, ProceedKeeps
<1>4. CASE Raises(c)
  <2>1. (\E s \in NextSections(c) : Proceed(c, s)) \/ Fail(c)
    BY <1>4 DEF Raises
  <2>2. QED
    BY <2>1, SectionsInRange, ProceedKeeps, FailKeeps
<1>5. CASE GivesUp(c)
  <2>1. PICK s \in NextSections(c) : TimeOut(c, s)
    BY <1>5 DEF GivesUp
  <2>2. QED
    BY <2>1, SectionsInRange, TimeOutKeeps
<1>6. CASE LosesBlock(c)
  <2>1. Audit \in 1..End
    BY IngestAssumption DEF Audit, End
  <2>2. QED
    BY <1>6, <2>1, ProceedKeeps DEF LosesBlock
<1>7. QED
  BY <1>1, <1>2, <1>3, <1>4, <1>5, <1>6 DEF Runs

LEMMA PoolInvInit == Init => PoolInv
<1>1. SUFFICES ASSUME Init PROVE PoolInv
  OBVIOUS
<1>2. /\ free = PoolSize
      /\ client = [c \in Requests |-> [pc |-> "new", section |-> 0, auth |-> FALSE, work |-> FALSE]]
  BY <1>1 DEF Init, PoolInit
<1>3. \A c \in Requests : client[c] \in Client /\ Fits(client[c])
                         /\ ~client[c].auth /\ ~client[c].work
  BY <1>2, SectionsAssumption DEF Client, Fits
<1>4. client \in [Requests -> Client]
  BY <1>2, <1>3
<1>5. Held = 0
  BY <1>3, NobodyHolds DEF Held, Auths, Works
<1>6. NoLeak /\ free \in 0..PoolSize
  BY <1>2, <1>5, PoolAssumption DEF NoLeak
<1>7. QED
  BY <1>3, <1>4, <1>6 DEF PoolInv, PoolTypeOK

LEMMA PoolInvNext == PoolInv /\ [Next]_vars => PoolInv'
<1>1. SUFFICES ASSUME PoolInv, [Next]_vars PROVE PoolInv'
  OBVIOUS
<1>2. CASE \E c \in Requests : Requested(c)
  BY <1>1, <1>2, ArriveKeeps DEF Requested
<1>3. CASE \E c \in Requests : Runs(c)
  BY <1>1, <1>3, RunsKeeps
<1>4. CASE \E x \in Transactions : SetStatus(x) \/ SendVerification(x) \/ SettleVerification(x)
  BY <1>1, <1>4, PoolUnchanged DEF SetStatus, SendVerification, SettleVerification
<1>5. CASE Dies
  BY <1>1, <1>5, CrashKeeps DEF Dies
<1>6. CASE Tick
  BY <1>1, <1>6, PoolUnchanged DEF Tick
<1>7. CASE UNCHANGED vars
  BY <1>1, <1>7, PoolUnchanged DEF vars
<1>8. QED
  BY <1>1, <1>2, <1>3, <1>4, <1>5, <1>6, <1>7 DEF Next

(* Every connection is in the pool or held by exactly one session of one   *)
(* request, whatever fails, times out, is skipped or crashes               *)
(* (dependencies.py get_db_session, the sections' async with).             *)
THEOREM NoConnectionLeaks == Spec => [](PoolTypeOK /\ NoLeak)
<1>1. PoolInv => PoolTypeOK /\ NoLeak
  BY DEF PoolInv
<1>2. QED
  BY PoolInvInit, PoolInvNext, <1>1, PTL DEF Spec

LEMMA GridlockFillsPool == PoolInv => GridlockNeedsFullPool
<1>1. SUFFICES ASSUME PoolInv, \A c \in Active : Waiting(c), free = 0
               PROVE  Cardinality({c \in Requests : client[c].auth}) = PoolSize
  BY DEF GridlockNeedsFullPool
<1>2. \A c \in Requests : ~client[c].work
  <2> TAKE c \in Requests
  <2>1. Fits(client[c])
    BY <1>1 DEF PoolInv
  <2>2. client[c].pc # "run"
    BY <1>1 DEF Active, Waiting
  <2>3. QED
    BY <2>1, <2>2 DEF Fits
<1>3. {c \in Requests : client[c].work} = {}
  BY <1>2
<1>4. free + Held = PoolSize
  BY <1>1 DEF PoolInv, NoLeak
<1>5. Cardinality({c \in Requests : client[c].auth}) \in Nat
  BY RequestsAssumption, FS_Subset, FS_CardinalityType
<1>6. Cardinality({c \in Requests : client[c].work}) = 0
  BY <1>3, FS_EmptySet
<1>7. QED
  BY <1>1, <1>4, <1>5, <1>6 DEF Held

(* However many requests arrive, they all wait for each other only when as *)
(* many of them as the pool has connections hold one (dependencies.py line *)
(* 106, transaction_ingest_service.py).                                    *)
THEOREM GridlockTakesFullPool == Spec => []GridlockNeedsFullPool
  BY PoolInvInit, PoolInvNext, GridlockFillsPool, PTL DEF Spec

-----------------------------------------------------------------------------
(* What a request leaves behind.                                           *)

Statuses == {"none", "pending", "approved", "manual_review"} \union Decisions
TxRow == [at : Nat, status : Statuses, audits : Seq(Decisions), scored : BOOLEAN, pending : Nat]
Table == [Transactions -> TxRow]
Memory == [decision : Decisions \union {"none"}, look : {"none", "return", "create", "raise"},
           snap : {<<>>} \union (Table \X Nat), skipped : SUBSET (BestEffort \union {Decide}),
           alerting : BOOLEAN, answer : {"none", "created", "error", "lost"}]

IngestTypeOK ==
    /\ tx \in Table /\ ing \in [Requests -> Memory]
    /\ now \in Nat /\ trouble \in Nat

\* c has been through section k.
Through(c, k) ==
    \/ ing[c].answer = "created"
    \/ client[c].pc \in {"wait", "run"} /\ client[c].section > k

\* What c decided, audited, scored and opened up to where it is; its audits are
\* its own as long as nobody else touched the transaction.
Account(c) ==
    /\ ing[c].answer = "created" => client[c].pc \in {"end", "done"}
    /\ Through(c, Decide) =>
         /\ ing[c].decision \in Decisions
         /\ Decide \in ing[c].skipped => ing[c].decision = "block"
         /\ c \notin moved =>
              tx[c].status = IF Decide \in ing[c].skipped THEN "pending" ELSE ing[c].decision
    /\ (client[c].pc \in {"new", "wait", "run"} /\ client[c].section <= Decide)
         => Decide \notin ing[c].skipped
    /\ (c \notin moved /\ client[c].pc \in {"wait", "run"} /\ client[c].section \in Compute..Decide)
         => tx[c].status = "pending"
    /\ Through(c, Audit) =>
         Audit \in ing[c].skipped \/ \E i \in 1..Len(tx[c].audits) : tx[c].audits[i] = ing[c].decision
    /\ Through(c, SaveScore) => SaveScore \in ing[c].skipped \/ tx[c].scored = TRUE
    /\ ing[c].answer = "created" => (ing[c].alerting = TRUE <=> ing[c].decision \in {"verify", "block"})
    /\ c \notin moved => \A i \in 1..Len(tx[c].audits) : tx[c].audits[i] = ing[c].decision
    /\ (c \notin moved /\ client[c].pc \in {"new", "wait", "run"} /\ client[c].section <= Audit)
         => tx[c].audits = <<>>
    /\ client[c].pc = "new" => client[c].section = 0
    /\ ing[c].look # "none" => client[c].section = OpenVerification
    /\ (c \notin moved /\ ing[c].decision = "verify" /\ ing[c].look = "return" /\ Through(c, Decide))
         => tx[c].pending > 0
    /\ (c \notin moved /\ ing[c].decision = "verify" /\ ing[c].answer = "created")
         => OpenVerification \in ing[c].skipped \/ tx[c].pending > 0

IngestInv == PoolInv /\ IngestTypeOK /\ \A c \in Requests : Account(c)

LEMMA AccountFrame ==
    ASSUME NEW c, Account(c), client'[c] = client[c], ing'[c] = ing[c], tx'[c] = tx[c],
           c \in moved' <=> c \in moved
    PROVE  Account(c)'
  BY DEF Account, Through

LEMMA SectionNumbers ==
    /\ Sections = 7 /\ End = 8 /\ BestEffort = {3, 5, 6, 7}
    /\ Store = 1 /\ Compute = 2 /\ Rules = 3 /\ Decide = 4 /\ Audit = 5 /\ SaveScore = 6
    /\ OpenVerification = 7
  BY IngestAssumption DEF End, Store, Compute, Rules, Decide, Audit, SaveScore, OpenVerification

\* Where a request goes on from where it is.
LEMMA Forward ==
    ASSUME PoolInv, NEW c \in Requests, NEW s \in NextSections(c)
    PROVE  /\ client[c].section \in 0..7 /\ s \in 1..8
           /\ s > 4 => client[c].section >= 4
           /\ s > 5 => client[c].section >= 5
           /\ s > 6 => client[c].section >= 6
           /\ client[c].section < s
           /\ s = 8 /\ client[c].section = 6 => ing[c].decision # "verify"
           /\ client[c].section = 7 => s = 8
<1>1. client[c].section \in 0..7
  BY OneClient, SectionNumbers
<1>2. \/ client[c].section = 2 /\ s \in {3, 4}
      \/ client[c].section = 6 /\ s = IF ing[c].decision = "verify" THEN 7 ELSE 8
      \/ client[c].section \notin {2, 6} /\ s = client[c].section + 1
  BY SectionNumbers DEF NextSections
<1>3. QED
  BY <1>1, <1>2

LEMMA AfterMoves ==
    ASSUME NEW r \in Client, NEW s
    PROVE  /\ s = End => After(r, s).pc = "end" /\ After(r, s).section = r.section
           /\ s # End => After(r, s).pc = "wait" /\ After(r, s).section = s
  BY DEF After, Client

\* The section at hand leaves row in the table and memory in the request, or skips.
Does(c, row, memory) ==
    LET section == client[c].section IN
    /\ memory.answer = ing[c].answer /\ memory.look = ing[c].look
    /\ \A k \in ing[c].skipped : k \in memory.skipped
    /\ \A k \in memory.skipped : k \in ing[c].skipped \/ k = section
    /\ memory.snap \in {ing[c].snap, <<tx, now>>}
    /\ row.at = tx[c].at /\ (section = Store => row.at # 0 /\ row.status = "pending")
    /\ section # Decide => memory.decision = ing[c].decision
    /\ section \notin {Store, Decide} => row.status = tx[c].status
    /\ section = Decide =>
         /\ memory.decision \in Decisions
         /\ \/ row.status = memory.decision /\ memory.skipped = ing[c].skipped
            \/ row.status = tx[c].status /\ Decide \in memory.skipped /\ memory.decision = "block"
    /\ \/ row.audits = tx[c].audits
       \/ section = Audit /\ row.audits = Append(tx[c].audits, ing[c].decision)
    /\ section = Audit =>
         Audit \in memory.skipped \/ row.audits = Append(tx[c].audits, ing[c].decision)
    /\ tx[c].scored = TRUE => row.scored = TRUE
    /\ section = SaveScore => SaveScore \in memory.skipped \/ row.scored = TRUE
    /\ row.pending >= tx[c].pending
    /\ section # OpenVerification => row.pending = tx[c].pending
    /\ section = OpenVerification =>
         OpenVerification \in memory.skipped \/ row.pending > 0 \/ ing[c].look = "return"

(* c goes on to section s.                                                 *)
LEMMA GoesOnKeeps ==
    ASSUME PoolInv, IngestTypeOK, NEW c \in Requests, Account(c),
           client[c].pc \in {"wait", "run"}, NEW s \in NextSections(c),
           client' = [client EXCEPT ![c] = After(client[c], s)],
           NEW memory \in Memory, Remember(c, memory, s), NEW row \in TxRow, tx'[c] = row,
           c \in moved' <=> c \in moved,
           Does(c, row, memory)
    PROVE  Account(c)'
<1> DEFINE k == client[c].section
           old == ing[c]
           new == ing'[c]
           was == tx[c]
<1> USE DEF Does
<1>1. client[c] \in Client /\ old \in Memory /\ was \in TxRow
  BY OneClient DEF IngestTypeOK, Table, Transactions
<1>2. /\ k \in 0..7 /\ s \in 1..8
      /\ s > 4 => k >= 4
      /\ s > 5 => k >= 5
      /\ s > 6 => k >= 6
      /\ k < s
      /\ s = 8 /\ k = 6 => old.decision # "verify"
      /\ k = 7 => s = 8
  BY Forward
<1>3. client'[c] = After(client[c], s)
  BY DEF PoolInv, PoolTypeOK
<1>4. /\ s = 8 => client'[c].pc = "end" /\ client'[c].section = k
      /\ s # 8 => client'[c].pc = "wait" /\ client'[c].section = s
  BY <1>1, <1>3, AfterMoves, SectionNumbers
<1>5. new = IF s # End THEN memory
            ELSE [memory EXCEPT !.alerting = memory.decision \in {"verify", "block"},
                                !.answer = "created"]
  BY DEF Remember, IngestTypeOK
<1>6. /\ new.decision = memory.decision /\ new.look = old.look /\ new.skipped = memory.skipped
      /\ s = 8 => new.answer = "created"
      /\ s # 8 => new.answer = old.answer
  BY <1>5, SectionNumbers DEF Memory
<1>7. s = 8 => (new.alerting = TRUE <=> new.decision \in {"verify", "block"})
  <2>1. s = 8 => new.alerting = (memory.decision \in {"verify", "block"})
    BY <1>5, SectionNumbers DEF Memory
  <2>2. QED
    BY <1>6, <2>1
<1>8. /\ old.answer # "created"
      /\ k > 4 =>
           /\ old.decision \in Decisions
           /\ Decide \in old.skipped => old.decision = "block"
           /\ c \notin moved =>
                was.status = IF Decide \in old.skipped THEN "pending" ELSE old.decision
      /\ k <= 4 => Decide \notin old.skipped
      /\ c \notin moved /\ k \in 2..4 => was.status = "pending"
      /\ k > 5 => Audit \in old.skipped \/ \E i \in 1..Len(was.audits) : was.audits[i] = old.decision
      /\ k > 6 => SaveScore \in old.skipped \/ was.scored = TRUE
      /\ c \notin moved => \A i \in 1..Len(was.audits) : was.audits[i] = old.decision
      /\ c \notin moved /\ k <= 5 => was.audits = <<>>
      /\ old.look # "none" => k = 7
      /\ c \notin moved /\ old.decision = "verify" /\ old.look = "return" /\ k > 4 => was.pending > 0
  BY SectionNumbers DEF Account, Through
<1> HIDE DEF old, new, was, k
<1>9. /\ Through(c, Decide)' => k >= 4
      /\ Through(c, Audit)' => k >= 5
      /\ Through(c, SaveScore)' => k >= 6
      /\ new.answer = "created" <=> s = 8
  BY <1>2, <1>4, <1>6, <1>8, SectionNumbers DEF Through, new
<1>10. Through(c, Decide)' =>
         /\ new.decision \in Decisions
         /\ Decide \in new.skipped => new.decision = "block"
         /\ c \notin moved' =>
              row.status = IF Decide \in new.skipped THEN "pending" ELSE new.decision
  <2>1. SUFFICES ASSUME k >= 4
                 PROVE  /\ new.decision \in Decisions
                        /\ Decide \in new.skipped => new.decision = "block"
                        /\ c \notin moved =>
                             row.status = IF Decide \in new.skipped THEN "pending" ELSE new.decision
    BY <1>9
  <2>2. CASE k = 4
    BY <1>6, <1>8, <2>2, SectionNumbers DEF old, was, k
  <2>3. CASE k > 4
    <3>1. new.decision = old.decision /\ row.status = was.status
      BY <1>6, <2>3, SectionNumbers DEF old, was, k
    <3>2. Decide \in new.skipped <=> Decide \in old.skipped
      BY <1>6, <2>3, SectionNumbers DEF old, k
    <3>3. QED
      BY <1>8, <2>3, <3>1, <3>2
  <2>4. QED
    BY <1>2, <2>1, <2>2, <2>3
<1>10a. client'[c].pc \in {"new", "wait", "run"} /\ client'[c].section <= 4
          => Decide \notin new.skipped
  <2>1. SUFFICES ASSUME k < 4 PROVE Decide \notin new.skipped
    BY <1>2, <1>4
  <2>2. Decide \notin old.skipped
    BY <1>2, <1>8, <2>1
  <2>3. QED
    BY <1>6, <2>1, <2>2, SectionNumbers DEF old, k
<1>10b. c \notin moved /\ client'[c].pc \in {"wait", "run"} /\ client'[c].section \in 2..4
          => row.status = "pending"
  <2>1. SUFFICES ASSUME c \notin moved, k < 4, s \in 2..4 PROVE row.status = "pending"
    BY <1>2, <1>4
  <2>2. CASE k = 1
    BY <2>2, SectionNumbers DEF k
  <2>3. CASE k \in 2..3
    BY <1>8, <2>1, <2>3, SectionNumbers DEF was, k
  <2>4. k # 0
    BY <2>1, SectionNumbers DEF NextSections, k
  <2>5. QED
    BY <1>2, <2>1, <2>2, <2>3, <2>4
<1>11. /\ was.audits \in Seq(Decisions) /\ Len(was.audits) \in Nat
       /\ old.decision \in Decisions =>
            /\ Len(Append(was.audits, old.decision)) = Len(was.audits) + 1
            /\ \A i \in 1..Len(was.audits) : Append(was.audits, old.decision)[i] = was.audits[i]
            /\ Append(was.audits, old.decision)[Len(was.audits) + 1] = old.decision
  BY <1>1 DEF TxRow
<1>12. Through(c, Audit)' =>
         Audit \in new.skipped \/ \E i \in 1..Len(row.audits) : row.audits[i] = new.decision
  <2>1. SUFFICES ASSUME k >= 5, Audit \notin new.skipped
                 PROVE  \E i \in 1..Len(row.audits) : row.audits[i] = new.decision
    BY <1>9
  <2>2. new.decision = old.decision /\ old.decision \in Decisions
    BY <1>2, <1>6, <1>8, <2>1, SectionNumbers DEF old, k
  <2>3. CASE k = 5
    <3>1. row.audits = Append(was.audits, old.decision)
      BY <1>6, <2>1, <2>3, SectionNumbers DEF old, was, k
    <3>2. Len(was.audits) + 1 \in 1..Len(row.audits)
      BY <1>11, <2>2, <3>1
    <3>3. QED
      BY <1>11, <2>2, <3>1, <3>2
  <2>4. CASE k > 5
    <3>1. row.audits = was.audits
      BY <2>4, SectionNumbers DEF was, k
    <3>2. QED
      BY <1>6, <1>8, <2>1, <2>2, <2>4, <3>1 DEF old
  <2>5. QED
    BY <1>2, <2>1, <2>3, <2>4
<1>13. Through(c, SaveScore)' => SaveScore \in new.skipped \/ row.scored = TRUE
  <2>1. SUFFICES ASSUME k >= 6 PROVE SaveScore \in new.skipped \/ row.scored = TRUE
    BY <1>9
  <2>2. CASE k = 6
    BY <1>6, <2>2, SectionNumbers DEF k
  <2>3. CASE k > 6
    BY <1>6, <1>8, <2>3 DEF old, was
  <2>4. k = 6 \/ k > 6
    BY <1>2, <2>1
  <2>5. QED
    BY <2>2, <2>3, <2>4, Zenon
<1>14. c \notin moved => \A i \in 1..Len(row.audits) : row.audits[i] = new.decision
  <2>1. SUFFICES ASSUME c \notin moved, NEW i \in 1..Len(row.audits) PROVE row.audits[i] = new.decision
    OBVIOUS
  <2>2. CASE k <= 4
    <3>1. row.audits = <<>>
      BY <1>2, <1>8, <2>1, <2>2, SectionNumbers DEF was, k
    <3>2. QED
      BY <2>1, <3>1
  <2>3. CASE k > 4
    <3>1. new.decision = old.decision /\ old.decision \in Decisions
      BY <1>6, <1>8, <2>3, SectionNumbers DEF old, k
    <3>2. CASE row.audits = was.audits
      BY <1>8, <2>1, <3>1, <3>2
    <3>3. CASE row.audits = Append(was.audits, old.decision)
      <4>1. i \in 1..Len(was.audits) \/ i = Len(was.audits) + 1
        BY <1>11, <2>1, <3>1, <3>3
      <4>2. QED
        BY <1>8, <1>11, <2>1, <3>1, <3>3, <4>1
    <3>4. QED
      BY <3>2, <3>3 DEF old, was
  <2>4. QED
    BY <1>2, <2>2, <2>3
<1>15. c \notin moved /\ client'[c].pc \in {"new", "wait", "run"} /\ client'[c].section <= 5
         => row.audits = <<>>
  BY <1>2, <1>4, <1>8, SectionNumbers DEF was, k
<1>16. new.look # "none" => client'[c].section = 7
  BY <1>2, <1>4, <1>6, <1>8
<1>17. was.pending \in Nat /\ row.pending \in Nat
  BY <1>1 DEF TxRow
<1>18. c \notin moved /\ new.decision = "verify" /\ new.look = "return" /\ Through(c, Decide)'
         => row.pending > 0
  BY <1>2, <1>6, <1>8, <1>17, SectionNumbers DEF old, was, k
<1>19. c \notin moved /\ new.decision = "verify" /\ new.answer = "created"
         => OpenVerification \in new.skipped \/ row.pending > 0
  <2>1. SUFFICES ASSUME c \notin moved, new.decision = "verify", s = 8
                 PROVE  OpenVerification \in new.skipped \/ row.pending > 0
    BY <1>9
  <2>2. k \in {6, 7} /\ old.decision = "verify"
    BY <1>2, <1>6, <2>1, SectionNumbers DEF old, k
  <2>3. k = 7
    BY <1>2, <2>1, <2>2
  <2>4. QED
    BY <1>6, <1>8, <1>17, <2>1, <2>2, <2>3, SectionNumbers DEF old, was, k
<1>20. new.answer = "created" => client'[c].pc \in {"end", "done"}
  BY <1>4, <1>9
<1>21. new.answer = "created" => (new.alerting = TRUE <=> new.decision \in {"verify", "block"})
  BY <1>7, <1>9
<1>22. QED
  BY <1>4, <1>10, <1>10a, <1>10b, <1>12, <1>13, <1>14, <1>15, <1>16, <1>18, <1>19, <1>20, <1>21, SectionNumbers
     DEF Account, new

LEMMA OneTx ==
    ASSUME IngestTypeOK, NEW c \in Requests
    PROVE  /\ c \in Transactions /\ tx[c] \in TxRow /\ ing[c] \in Memory
           /\ tx[c].status \in Statuses /\ tx[c].at \in Nat /\ tx[c].pending \in Nat
           /\ tx[c].audits \in Seq(Decisions) /\ tx[c].scored \in BOOLEAN
           /\ [tx EXCEPT ![c] = tx[c]] = tx
<1>1. c \in Transactions /\ tx[c] \in TxRow /\ ing[c] \in Memory
  BY DEF IngestTypeOK, Table, Transactions
<1>2. [tx EXCEPT ![c] = tx[c]] = tx
  BY DEF IngestTypeOK, Table
<1>3. QED
  BY <1>1, <1>2 DEF TxRow

(* What a section commits and remembers.                                   *)
LEMMA ResultsMean ==
    ASSUME PoolInv, IngestTypeOK, NEW c \in Requests, Account(c), client[c].pc = "run",
           NEW result \in Results(c)
    PROVE  /\ result.memory \in Memory
           /\ \E row \in TxRow : result.tx = [tx EXCEPT ![c] = row] /\ Does(c, row, result.memory)
<1> DEFINE section == client[c].section
<1>1. /\ c \in Transactions /\ tx[c] \in TxRow /\ ing[c] \in Memory
      /\ tx[c].pending \in Nat /\ tx[c].audits \in Seq(Decisions)
      /\ [tx EXCEPT ![c] = tx[c]] = tx
  BY OneTx
<1>2. section \in 0..7
  BY OneClient, SectionNumbers
<1>3. CASE section = Store
  <2> DEFINE row == [tx[c] EXCEPT !.status = "pending"]
  <2>1. result = [tx |-> [tx EXCEPT ![c] = row], memory |-> ing[c]] /\ tx[c].at # 0
    BY <1>3, SectionNumbers DEF Results
  <2>2. row \in TxRow
    BY <1>1 DEF TxRow, Statuses
  <2>3. /\ row.at = tx[c].at /\ row.audits = tx[c].audits /\ row.scored = tx[c].scored
        /\ row.pending = tx[c].pending /\ row.status = "pending"
    BY <1>1 DEF TxRow
  <2> HIDE DEF row
  <2>4. Does(c, row, ing[c])
    BY <1>1, <1>3, <2>1, <2>3, SectionNumbers DEF Does
  <2>5. QED
    BY <1>1, <2>1, <2>2, <2>4
<1>4. CASE section = Compute
  <2>1. result = [tx |-> tx, memory |-> [ing[c] EXCEPT !.snap = <<tx, now>>]]
    BY <1>4, SectionNumbers DEF Results
  <2>2. [ing[c] EXCEPT !.snap = <<tx, now>>] \in Memory
    BY <1>1 DEF IngestTypeOK, Memory
  <2>3. Does(c, tx[c], [ing[c] EXCEPT !.snap = <<tx, now>>])
    <3> DEFINE memory == [ing[c] EXCEPT !.snap = <<tx, now>>]
    <3>1. /\ memory.answer = ing[c].answer /\ memory.look = ing[c].look
          /\ memory.skipped = ing[c].skipped /\ memory.decision = ing[c].decision
          /\ memory.snap = <<tx, now>>
      BY <1>1 DEF Memory
    <3> HIDE DEF memory
    <3>2. Does(c, tx[c], memory)
      BY <1>1, <1>4, <3>1, SectionNumbers DEF Does
    <3>3. QED
      BY <3>2 DEF memory
  <2>4. QED
    BY <1>1, <2>1, <2>2, <2>3
<1>5. CASE section = Decide
  <2>1. PICK d \in Decisions :
          result = [tx |-> [tx EXCEPT ![c].status = d], memory |-> [ing[c] EXCEPT !.decision = d]]
    BY <1>5, SectionNumbers DEF Results, Decided
  <2>2. [tx[c] EXCEPT !.status = d] \in TxRow
    BY <1>1 DEF TxRow, Statuses
  <2>3. [ing[c] EXCEPT !.decision = d] \in Memory
    BY <1>1 DEF Memory
  <2>4. Does(c, [tx[c] EXCEPT !.status = d], [ing[c] EXCEPT !.decision = d])
    BY <1>1, <1>5, SectionNumbers DEF Does, Memory, TxRow
  <2>5. [tx EXCEPT ![c].status = d] = [tx EXCEPT ![c] = [tx[c] EXCEPT !.status = d]]
    OBVIOUS
  <2>6. QED
    BY <2>1, <2>2, <2>3, <2>4, <2>5
<1>6. CASE section = Audit
  <2> DEFINE row == [tx[c] EXCEPT !.audits = Append(@, ing[c].decision)]
  <2>1. result = [tx |-> [tx EXCEPT ![c] = row], memory |-> ing[c]]
    BY <1>6, SectionNumbers DEF Results
  <2>2. ing[c].decision \in Decisions
    BY <1>6, SectionNumbers DEF Account, Through
  <2>3. row \in TxRow
    <3>1. Append(tx[c].audits, ing[c].decision) \in Seq(Decisions)
      BY <1>1, <2>2
    <3>2. \A q \in Seq(Decisions) : [tx[c] EXCEPT !.audits = q] \in TxRow
      BY <1>1 DEF TxRow
    <3>3. QED
      BY <3>1, <3>2
  <2>4. /\ row.audits = Append(tx[c].audits, ing[c].decision) /\ row.status = tx[c].status
        /\ row.at = tx[c].at
        /\ row.scored = tx[c].scored /\ row.pending = tx[c].pending
    BY <1>1 DEF TxRow
  <2> HIDE DEF row
  <2>5. Does(c, row, ing[c])
    BY <1>1, <1>6, <2>4, SectionNumbers DEF Does
  <2>6. QED
    BY <1>1, <2>1, <2>3, <2>5
<1>7. CASE section = SaveScore
  <2> DEFINE row == [tx[c] EXCEPT !.scored = TRUE]
  <2>1. result = [tx |-> [tx EXCEPT ![c] = row], memory |-> ing[c]]
    BY <1>7, SectionNumbers DEF Results
  <2>2. row \in TxRow
    BY <1>1 DEF TxRow
  <2>3. Does(c, row, ing[c])
    BY <1>1, <1>7, SectionNumbers DEF Does, TxRow
  <2>4. QED
    BY <1>1, <2>1, <2>2, <2>3
<1>8. CASE section = OpenVerification
  <2>1. PICK l \in {ing[c].look} \intersect {"return", "create"} :
          result = [tx |-> [tx EXCEPT ![c] =
                              [tx[c] EXCEPT !.pending = IF l = "create" THEN @ + 1 ELSE @]],
                    memory |-> ing[c]]
    BY <1>8, SectionNumbers DEF Results
  <2> DEFINE row == [tx[c] EXCEPT !.pending = IF l = "create" THEN @ + 1 ELSE @]
  <2>2. row \in TxRow
    BY <1>1 DEF TxRow
  <2>3. Does(c, row, ing[c])
    BY <1>1, <1>8, <2>1, SectionNumbers DEF Does, TxRow
  <2>4. QED
    BY <1>1, <2>1, <2>2, <2>3
<1>9. CASE section \notin {1, 2, 4, 5, 6, 7}
  <2>1. result = [tx |-> [tx EXCEPT ![c] = tx[c]], memory |-> ing[c]]
    BY <1>9, SectionNumbers DEF Results
  <2>2. Does(c, tx[c], ing[c])
    BY <1>1, <1>9, SectionNumbers DEF Does
  <2>3. QED
    BY <1>1, <2>1, <2>2
<1>10. QED
  BY <1>3, <1>4, <1>5, <1>6, <1>7, <1>8, <1>9, SectionNumbers

LEMMA RememberType ==
    ASSUME IngestTypeOK, NEW c \in Requests, NEW memory \in Memory, NEW s, Remember(c, memory, s)
    PROVE  ing' \in [Requests -> Memory] /\ \A d \in Requests \ {c} : ing'[d] = ing[d]
<1>1. [memory EXCEPT !.alerting = memory.decision \in {"verify", "block"}, !.answer = "created"] \in Memory
  <2>1. (memory.decision \in {"verify", "block"}) \in BOOLEAN
    OBVIOUS
  <2>2. \A b \in BOOLEAN : [memory EXCEPT !.alerting = b, !.answer = "created"] \in Memory
    BY DEF Memory
  <2>3. QED
    BY <2>1, <2>2
<1>2. \E m \in Memory : ing' = [ing EXCEPT ![c] = m]
  BY <1>1 DEF Remember
<1>3. QED
  BY <1>2 DEF IngestTypeOK

LEMMA RememberSnap ==
    ASSUME IngestTypeOK, NEW c \in Requests, NEW memory \in Memory, NEW s, Remember(c, memory, s)
    PROVE  /\ ing'[c].snap = memory.snap /\ ing'[c].skipped = memory.skipped
           /\ \A d \in Requests \ {c} : ing'[d] = ing[d]
<1>1. ing'[c] = IF s # End THEN memory
                ELSE [memory EXCEPT !.alerting = memory.decision \in {"verify", "block"},
                                    !.answer = "created"]
  BY DEF Remember, IngestTypeOK
<1>2. ing'[c].snap = memory.snap /\ ing'[c].skipped = memory.skipped
  BY <1>1 DEF Memory
<1>3. QED
  BY <1>2, RememberType

\* The step concerns nobody else, and c is in order after it.
Only(c) ==
    /\ \A d \in Requests \ {c} : client'[d] = client[d] /\ ing'[d] = ing[d] /\ tx'[d] = tx[d]
    /\ moved' = moved
    /\ IngestTypeOK'
    /\ Account(c)'

LEMMA OnlyKeeps ==
    ASSUME IngestInv, NEW c \in Requests, Only(c), PoolInv' PROVE IngestInv'
<1>1. ASSUME NEW d \in Requests PROVE Account(d)'
  <2>1. CASE d = c
    BY <2>1 DEF Only
  <2>2. CASE d # c
    BY <2>2, AccountFrame DEF Only, IngestInv
  <2>3. QED
    BY <2>1, <2>2
<1>2. QED
  BY <1>1 DEF Only, IngestInv

-----------------------------------------------------------------------------
(* The request's own steps.                                                *)

LEMMA PoolPart ==
    ASSUME IngestInv, NEW c \in Requests
    PROVE  PoolInv /\ IngestTypeOK /\ Account(c) /\ client \in [Requests -> Client]
  BY DEF IngestInv, PoolInv, PoolTypeOK

\* A section that did something, and goes on.
LEMMA GoesOnOnly ==
    ASSUME IngestInv, NEW c \in Requests, NEW s \in NextSections(c), Proceed(c, s),
           NEW memory \in Memory, Remember(c, memory, s),
           NEW row \in TxRow, tx' = [tx EXCEPT ![c] = row], Does(c, row, memory),
           moved' = moved, now' = now, trouble' \in Nat
    PROVE  Only(c)
<1>1. PoolInv /\ IngestTypeOK /\ Account(c) /\ client \in [Requests -> Client] /\ client[c].pc = "run"
  BY PoolPart DEF Proceed
<1>5. c \in Transactions /\ tx \in Table
  BY <1>1 DEF IngestTypeOK, Transactions
<1>6. tx' \in Table /\ tx'[c] = row /\ \A d \in Requests \ {c} : tx'[d] = tx[d]
  BY <1>5 DEF Table, Transactions
<1>7. client' = [client EXCEPT ![c] = After(client[c], s)] /\ \A d \in Requests \ {c} : client'[d] = client[d]
  BY <1>1 DEF Proceed, Set
<1>8. ing' \in [Requests -> Memory] /\ \A d \in Requests \ {c} : ing'[d] = ing[d]
  BY <1>1, RememberType
<1>10. Account(c)'
  BY <1>1, <1>6, <1>7, GoesOnKeeps
<1>11. IngestTypeOK'
  BY <1>1, <1>6, <1>8 DEF IngestTypeOK
<1>12. QED
  BY <1>6, <1>7, <1>8, <1>10, <1>11 DEF Only

LEMMA SucceedsOnly ==
    ASSUME IngestInv, NEW c \in Requests, Succeeds(c) PROVE Only(c)
<1>1. PoolInv /\ IngestTypeOK /\ Account(c) /\ client[c].pc = "run" /\ trouble \in Nat
  BY PoolPart DEF Succeeds, IngestTypeOK
<1>2. PICK result \in Results(c), s \in NextSections(c) :
        Proceed(c, s) /\ tx' = result.tx /\ Remember(c, result.memory, s)
  BY DEF Succeeds
<1>3. PICK row \in TxRow : result.tx = [tx EXCEPT ![c] = row] /\ Does(c, row, result.memory)
  BY <1>1, ResultsMean
<1>4. result.memory \in Memory
  BY <1>1, ResultsMean
<1>5. moved' = moved /\ now' = now /\ trouble' = trouble
  BY DEF Succeeds
<1>6. QED
  BY <1>1, <1>2, <1>3, <1>4, <1>5, GoesOnOnly

\* What a request remembers of a block that was lost.
LEMMA LostDoes ==
    ASSUME IngestInv, NEW c \in Requests, LosesBlock(c)
    PROVE  LET memory == [ing[c] EXCEPT !.decision = "block", !.skipped = @ \union {Decide}]
           IN  /\ Audit \in NextSections(c) /\ Proceed(c, Audit)
               /\ memory \in Memory /\ Remember(c, memory, Audit)
               /\ tx[c] \in TxRow /\ tx' = [tx EXCEPT ![c] = tx[c]] /\ Does(c, tx[c], memory)
<1> DEFINE memory == [ing[c] EXCEPT !.decision = "block", !.skipped = @ \union {Decide}]
<1>1. /\ ing[c] \in Memory /\ tx[c] \in TxRow /\ tx[c].pending \in Nat
      /\ [tx EXCEPT ![c] = tx[c]] = tx
  BY PoolPart, OneTx
<1>2. /\ client[c].section = Decide /\ tx' = tx
      /\ Proceed(c, Audit) /\ Remember(c, memory, Audit)
  BY DEF LosesBlock, In
<1>3. memory \in Memory
  BY <1>1 DEF Memory, Decisions
<1>4. /\ memory.answer = ing[c].answer /\ memory.look = ing[c].look
      /\ memory.decision = "block" /\ memory.snap = ing[c].snap
      /\ memory.skipped = ing[c].skipped \union {Decide}
  BY <1>1 DEF Memory
<1> HIDE DEF memory
<1>5. Audit \in NextSections(c)
  BY <1>2, SectionNumbers DEF NextSections
<1>6. "block" \in Decisions
  BY DEF Decisions
<1>7. Does(c, tx[c], memory)
  BY <1>1, <1>2, <1>4, <1>6, SectionNumbers DEF Does
<1>8. QED
  BY <1>1, <1>2, <1>3, <1>5, <1>7 DEF memory

LEMMA LosesBlockOnly ==
    ASSUME IngestInv, NEW c \in Requests, LosesBlock(c) PROVE Only(c)
<1>1. moved' = moved /\ now' = now /\ trouble' \in Nat
  <2>1. trouble \in Nat
    BY PoolPart DEF IngestTypeOK
  <2>2. QED
    BY <2>1 DEF LosesBlock, Trouble
<1>2. QED
  BY <1>1, LostDoes, GoesOnOnly

(* An error that is swallowed: the section counts as skipped, whatever of  *)
(* it was committed.                                                       *)
LEMMA SkipDoes ==
    ASSUME IngestTypeOK, NEW c \in Requests, client[c].section \in BestEffort, NEW row \in TxRow,
           row = tx[c] \/ \E memory \in Memory : Does(c, row, memory)
    PROVE  /\ [ing[c] EXCEPT !.skipped = @ \union {client[c].section}] \in Memory
           /\ Does(c, row, [ing[c] EXCEPT !.skipped = @ \union {client[c].section}])
<1> DEFINE memory == [ing[c] EXCEPT !.skipped = @ \union {client[c].section}]
<1>1. ing[c] \in Memory /\ tx[c].pending \in Nat
  BY OneTx
<1>2. memory \in Memory
  BY <1>1 DEF Memory
<1>3. /\ memory.answer = ing[c].answer /\ memory.look = ing[c].look
      /\ memory.decision = ing[c].decision /\ memory.snap = ing[c].snap
      /\ memory.skipped = ing[c].skipped \union {client[c].section}
  BY <1>1 DEF Memory
<1> HIDE DEF memory
<1>4. client[c].section \notin {Store, Decide}
  BY SectionNumbers
<1>5. /\ row.status = tx[c].status /\ row.pending >= tx[c].pending /\ row.at = tx[c].at
      /\ tx[c].scored = TRUE => row.scored = TRUE
      /\ \/ row.audits = tx[c].audits
         \/ client[c].section = Audit /\ row.audits = Append(tx[c].audits, ing[c].decision)
  <2>1. CASE row = tx[c]
    BY <1>1, <2>1
  <2>2. CASE \E m \in Memory : Does(c, row, m)
    BY <1>4, <2>2 DEF Does
  <2>3. QED
    BY <2>1, <2>2
<1>6. Does(c, row, memory)
  BY <1>3, <1>4, <1>5 DEF Does
<1>7. QED
  BY <1>2, <1>6 DEF memory

(* The request ends with an error.                                         *)
LEMMA FailsKeeps ==
    ASSUME IngestTypeOK, NEW c \in Requests, Account(c), client[c].pc \in {"wait", "run"},
           client[c].section \notin BestEffort,
           client'[c].pc = "end", client'[c].section = client[c].section,
           ing' = [ing EXCEPT ![c].answer = "error"],
           NEW row \in TxRow, tx'[c] = row,
           row = tx[c] \/ \E memory \in Memory : Does(c, row, memory),
           c \in moved' <=> c \in moved
    PROVE  /\ Account(c)' /\ ing' \in [Requests -> Memory]
           /\ \A d \in Requests \ {c} : ing'[d] = ing[d]
<1>1. ing[c] \in Memory
  BY OneTx
<1>2. /\ ing'[c].answer = "error" /\ ing'[c].look = ing[c].look /\ ing'[c].decision = ing[c].decision
      /\ ing'[c] \in Memory /\ \A d \in Requests \ {c} : ing'[d] = ing[d]
  BY <1>1 DEF IngestTypeOK, Memory
<1>3. tx'[c].audits = tx[c].audits
  <2>1. client[c].section # Audit
    BY SectionNumbers
  <2>2. QED
    BY <2>1 DEF Does
<1>4. ~Through(c, Decide)' /\ ~Through(c, Audit)' /\ ~Through(c, SaveScore)'
  BY <1>2 DEF Through
<1>5. Account(c)'
  BY <1>2, <1>3, <1>4 DEF Account
<1>6. ing' \in [Requests -> Memory]
  BY <1>2 DEF IngestTypeOK
<1>7. QED
  BY <1>2, <1>5, <1>6

LEMMA RaisesWrites ==
    ASSUME IngestInv, NEW c \in Requests, Raises(c)
    PROVE  \E row \in TxRow :
             /\ tx' = [tx EXCEPT ![c] = row]
             /\ row = tx[c] \/ \E memory \in Memory : Does(c, row, memory)
<1>1. PoolInv /\ IngestTypeOK /\ Account(c) /\ client[c].pc = "run"
  BY PoolPart DEF Raises
<1>2. tx[c] \in TxRow /\ [tx EXCEPT ![c] = tx[c]] = tx
  BY <1>1, OneTx
<1>3. CASE tx' = tx
  BY <1>2, <1>3
<1>4. CASE \E result \in Results(c) : tx' = result.tx
  <2>1. PICK result \in Results(c) : tx' = result.tx
    BY <1>4
  <2>2. result.memory \in Memory
        /\ \E row \in TxRow : result.tx = [tx EXCEPT ![c] = row] /\ Does(c, row, result.memory)
    BY <1>1, ResultsMean
  <2>3. QED
    BY <2>1, <2>2
<1>5. QED
  BY <1>3, <1>4 DEF Raises

LEMMA RaisesOnly ==
    ASSUME IngestInv, NEW c \in Requests, Raises(c) PROVE Only(c)
<1>1. PoolInv /\ IngestTypeOK /\ Account(c) /\ client \in [Requests -> Client] /\ client[c].pc = "run"
  BY PoolPart DEF Raises
<1>2. moved' = moved /\ now' = now /\ trouble' \in Nat
  BY <1>1 DEF Raises, Trouble, IngestTypeOK
<1>3. c \in Transactions /\ tx \in Table /\ tx[c] \in TxRow /\ [tx EXCEPT ![c] = tx[c]] = tx
  BY <1>1, OneTx DEF IngestTypeOK
<1>4. PICK row \in TxRow :
        tx' = [tx EXCEPT ![c] = row] /\ (row = tx[c] \/ \E memory \in Memory : Does(c, row, memory))
  BY RaisesWrites
<1>5. tx' \in Table /\ tx'[c] = row /\ \A d \in Requests \ {c} : tx'[d] = tx[d]
  BY <1>3, <1>4 DEF Table, Transactions
<1>6. CASE \E s \in NextSections(c) :
             /\ client[c].section \in BestEffort /\ Proceed(c, s)
             /\ Remember(c, [ing[c] EXCEPT !.skipped = @ \union {client[c].section}], s)
  <2> DEFINE memory == [ing[c] EXCEPT !.skipped = @ \union {client[c].section}]
  <2>1. PICK s \in NextSections(c) : Proceed(c, s) /\ Remember(c, memory, s)
    BY <1>6
  <2>2. memory \in Memory /\ Does(c, row, memory)
    BY <1>1, <1>4, <1>6, SkipDoes
  <2> HIDE DEF memory
  <2>3. client' = [client EXCEPT ![c] = After(client[c], s)] /\ \A d \in Requests \ {c} : client'[d] = client[d]
    BY <1>1, <2>1 DEF Proceed, Set
  <2>4. ing' \in [Requests -> Memory] /\ \A d \in Requests \ {c} : ing'[d] = ing[d]
    BY <1>1, <2>1, <2>2, RememberType
  <2>5. Account(c)'
    BY <1>1, <1>2, <1>5, <2>1, <2>2, <2>3, GoesOnKeeps
  <2>6. IngestTypeOK'
    BY <1>1, <1>2, <1>5, <2>4 DEF IngestTypeOK
  <2>7. QED
    BY <1>2, <1>5, <2>3, <2>4, <2>5, <2>6 DEF Only
<1>7. CASE Fail(c) /\ ing' = [ing EXCEPT ![c].answer = "error"]
  <2>1. /\ client'[c].pc = "end" /\ client'[c].section = client[c].section
        /\ client[c].section \notin BestEffort
        /\ \A d \in Requests \ {c} : client'[d] = client[d]
    <3>1. client' = [client EXCEPT ![c] = [client[c] EXCEPT !.pc = "end", !.work = FALSE]]
      BY <1>7 DEF Fail, Set
    <3>2. client[c] \in Client
      BY <1>1
    <3>3. QED
      BY <1>1, <1>7, <3>1, <3>2 DEF Fail, Client
  <2>2. /\ Account(c)' /\ ing' \in [Requests -> Memory]
        /\ \A d \in Requests \ {c} : ing'[d] = ing[d]
    <3>1. client[c].pc \in {"wait", "run"} /\ (c \in moved' <=> c \in moved)
      BY <1>1, <1>2
    <3>2. QED
      BY <1>1, <1>4, <1>5, <1>7, <2>1, <3>1, FailsKeeps
  <2>3. IngestTypeOK'
    BY <1>1, <1>2, <1>5, <2>2 DEF IngestTypeOK
  <2>4. QED
    BY <1>2, <1>5, <2>1, <2>2, <2>3 DEF Only
<1>8. QED
  BY <1>6, <1>7 DEF Raises

LEMMA GivesUpOnly ==
    ASSUME IngestInv, NEW c \in Requests, GivesUp(c) PROVE Only(c)
<1>1. PoolInv /\ IngestTypeOK /\ Account(c) /\ client \in [Requests -> Client]
  BY PoolPart
<1>2. tx' = tx /\ moved' = moved /\ now' = now /\ trouble' = trouble
  BY DEF GivesUp
<1>3. tx[c] \in TxRow
  BY <1>1, OneTx
<1>4. PICK s \in NextSections(c) :
         /\ TimeOut(c, s)
         /\ IF client[c].section \in BestEffort
              THEN Remember(c, [ing[c] EXCEPT !.skipped = @ \union {client[c].section}], s)
              ELSE ing' = [ing EXCEPT ![c].answer = "error"]
  BY DEF GivesUp
<1>5. client[c].pc = "wait"
  BY <1>4 DEF TimeOut
<1>6. CASE client[c].section \in BestEffort
  <2> DEFINE memory == [ing[c] EXCEPT !.skipped = @ \union {client[c].section}]
  <2>1. Remember(c, memory, s)
    BY <1>4, <1>6
  <2>2. memory \in Memory /\ Does(c, tx[c], memory)
    BY <1>1, <1>3, <1>6, SkipDoes
  <2> HIDE DEF memory
  <2>3. client' = [client EXCEPT ![c] = After(client[c], s)] /\ \A d \in Requests \ {c} : client'[d] = client[d]
    BY <1>1, <1>4, <1>6 DEF TimeOut, Set
  <2>4. ing' \in [Requests -> Memory] /\ \A d \in Requests \ {c} : ing'[d] = ing[d]
    BY <1>1, <2>1, <2>2, RememberType
  <2>5. tx'[c] = tx[c]
    BY <1>2
  <2>6. Account(c)'
    BY <1>1, <1>2, <1>3, <1>4, <1>5, <2>1, <2>2, <2>3, <2>5, GoesOnKeeps
  <2>7. IngestTypeOK'
    BY <1>1, <1>2, <2>4 DEF IngestTypeOK
  <2>8. QED
    BY <1>2, <2>3, <2>4, <2>6, <2>7 DEF Only
<1>7. CASE client[c].section \notin BestEffort
  <2>1. /\ client'[c].pc = "end" /\ client'[c].section = client[c].section
        /\ \A d \in Requests \ {c} : client'[d] = client[d]
    <3>1. client' = [client EXCEPT ![c] = [client[c] EXCEPT !.pc = "end"]]
      BY <1>4, <1>7 DEF TimeOut, Set
    <3>2. client[c] \in Client
      BY <1>1
    <3>3. QED
      BY <1>1, <3>1, <3>2 DEF Client
  <2>2. ing' = [ing EXCEPT ![c].answer = "error"]
    BY <1>4, <1>7
  <2>3. /\ Account(c)' /\ ing' \in [Requests -> Memory]
        /\ \A d \in Requests \ {c} : ing'[d] = ing[d]
    <3>1. tx'[c] = tx[c]
      BY <1>2
    <3>2. QED
      BY <1>1, <1>2, <1>3, <1>5, <1>7, <2>1, <2>2, <3>1, FailsKeeps
  <2>4. IngestTypeOK'
    BY <1>1, <1>2, <2>3 DEF IngestTypeOK
  <2>5. QED
    BY <1>2, <2>1, <2>3, <2>4 DEF Only
<1>8. QED
  BY <1>6, <1>7

(* Arriving, getting a connection and giving it back.                      *)
LEMMA PoolStepOnly ==
    ASSUME IngestInv, NEW c \in Requests, Requested(c) \/ Connects(c) PROVE Only(c)
<1>1. IngestTypeOK /\ Account(c) /\ client \in [Requests -> Client] /\ client[c] \in Client
  BY PoolPart
<1>2. UNCHANGED <<tx, ing, now, moved, trouble>>
  BY DEF Requested, Connects
<1>3. /\ \A d \in Requests \ {c} : client'[d] = client[d]
      /\ client'[c].section = client[c].section
      /\ \/ client[c].pc \in {"new", "wait"} /\ client'[c].pc \in {"wait", "run"}
         \/ client[c].pc = "end" /\ client'[c].pc = "done"
      /\ client[c].pc = "new" => client'[c].pc = "wait"
  <2>1. ASSUME Arrive(c) PROVE client' = [client EXCEPT ![c] = [client[c] EXCEPT !.pc = "wait"]] /\ client[c].pc = "new"
    BY <2>1 DEF Arrive, Set
  <2>2. ASSUME Checkout(c)
        PROVE  /\ client[c].pc = "wait"
               /\ \/ client' = [client EXCEPT ![c] = [client[c] EXCEPT !.pc = "run", !.auth = TRUE]]
                  \/ client' = [client EXCEPT ![c] = [client[c] EXCEPT !.pc = "run", !.work = TRUE]]
    BY <2>2 DEF Checkout, Set
  <2>3. ASSUME Finish(c)
        PROVE  /\ client[c].pc = "end"
               /\ client' = [client EXCEPT ![c] = [client[c] EXCEPT !.pc = "done", !.auth = FALSE]]
    BY <2>3 DEF Finish, Set
  <2>4. CASE Arrive(c)
    BY <1>1, <2>1, <2>4 DEF Client
  <2>5. CASE Checkout(c)
    BY <1>1, <2>2, <2>5 DEF Client
  <2>6. CASE Finish(c)
    BY <1>1, <2>3, <2>6 DEF Client
  <2>7. QED
    BY <2>4, <2>5, <2>6 DEF Requested, Connects
<1>4. IngestTypeOK'
  BY <1>1, <1>2 DEF IngestTypeOK
<1>5. Account(c)'
  BY <1>1, <1>2, <1>3, SectionNumbers DEF Account, Through
<1>6. QED
  BY <1>2, <1>3, <1>4, <1>5 DEF Only

LEMMA InsertOnly ==
    ASSUME IngestInv, NEW c \in Requests, Insert(c) PROVE Only(c)
<1>1. IngestTypeOK /\ Account(c) /\ tx[c] \in TxRow /\ c \in Transactions
  BY PoolPart, OneTx
<1>2. PICK n \in Nat : n = now /\ now' = now /\ tx' = [tx EXCEPT ![c].at = n]
  BY <1>1 DEF Insert, IngestTypeOK
<1>3. UNCHANGED <<client, ing, moved, trouble>>
  BY DEF Insert, pool
<1>4. [tx[c] EXCEPT !.at = n] \in TxRow /\ tx' = [tx EXCEPT ![c] = [tx[c] EXCEPT !.at = n]]
  BY <1>1, <1>2 DEF TxRow
<1>5. /\ tx' \in Table /\ \A d \in Requests \ {c} : tx'[d] = tx[d]
      /\ tx'[c] = [tx[c] EXCEPT !.at = n]
  BY <1>1, <1>4 DEF IngestTypeOK, Table, Transactions
<1>6. /\ tx'[c].status = tx[c].status /\ tx'[c].audits = tx[c].audits
      /\ tx'[c].scored = tx[c].scored /\ tx'[c].pending = tx[c].pending
  BY <1>1, <1>5 DEF TxRow
<1>7. IngestTypeOK'
  BY <1>1, <1>2, <1>3, <1>5 DEF IngestTypeOK
<1>8. Account(c)'
  BY <1>1, <1>3, <1>6 DEF Account, Through
<1>9. QED
  BY <1>3, <1>5, <1>7, <1>8 DEF Only

(* The lookup runs on the status the request decided, unless somebody else *)
(* changed it, so what it finds then is a verification of the transaction. *)
LEMMA LookForPendingOnly ==
    ASSUME IngestInv, NEW c \in Requests, LookForPending(c) PROVE Only(c)
<1>1. IngestTypeOK /\ Account(c) /\ tx[c] \in TxRow /\ ing[c] \in Memory /\ tx[c].pending \in Nat
  BY PoolPart, OneTx
<1>2. /\ UNCHANGED <<client, tx, now, moved, trouble>>
      /\ client[c].pc = "run" /\ client[c].section = OpenVerification
  BY DEF LookForPending, pool, In
<1>3. PICK l \in {"return", "create", "raise"} :
        /\ ing' = [ing EXCEPT ![c].look = l]
        /\ l = "return" => tx[c].status # "verify" \/ tx[c].pending = 1
  <2> DEFINE found == CASE tx[c].status # "verify" \/ tx[c].pending = 1 -> "return"
                        [] tx[c].status = "verify" /\ tx[c].pending = 0 -> "create"
                        [] OTHER -> "raise"
  <2>1. found \in {"return", "create", "raise"}
        /\ (found = "return" => tx[c].status # "verify" \/ tx[c].pending = 1)
    OBVIOUS
  <2>2. ing' = [ing EXCEPT ![c].look = found]
    BY DEF LookForPending
  <2> HIDE DEF found
  <2>3. QED
    BY <2>1, <2>2
<1>4. /\ ing'[c] = [ing[c] EXCEPT !.look = l] /\ ing' \in [Requests -> Memory]
      /\ \A d \in Requests \ {c} : ing'[d] = ing[d]
  <2>1. [ing[c] EXCEPT !.look = l] \in Memory
    BY <1>1 DEF Memory
  <2>2. ing' = [ing EXCEPT ![c] = [ing[c] EXCEPT !.look = l]]
    BY <1>3
  <2>3. QED
    BY <1>1, <2>1, <2>2 DEF IngestTypeOK
<1>5. /\ ing'[c].look = l /\ ing'[c].decision = ing[c].decision /\ ing'[c].answer = ing[c].answer
      /\ ing'[c].skipped = ing[c].skipped /\ ing'[c].alerting = ing[c].alerting
  BY <1>1, <1>4 DEF Memory
<1>6. IngestTypeOK'
  BY <1>1, <1>2, <1>4 DEF IngestTypeOK
<1>7. c \notin moved /\ ing[c].decision = "verify" /\ l = "return" /\ Through(c, Decide)
        => tx[c].pending > 0
  BY <1>1, <1>3 DEF Account
<1>8. Account(c)'
  BY <1>1, <1>2, <1>5, <1>7 DEF Account, Through
<1>9. QED
  BY <1>2, <1>4, <1>6, <1>8 DEF Only

-----------------------------------------------------------------------------
(* What others do.                                                         *)

(* Somebody else leaves row: the transaction counts as moved if its status *)
(* or its audits are not what they were.                                   *)
LEMMA OthersKeep ==
    ASSUME IngestInv, NEW x \in Transactions, NEW row \in TxRow, tx' = [tx EXCEPT ![x] = row],
           UNCHANGED <<pool, ing, now>>, trouble' \in Nat,
           row.scored = tx[x].scored,
           \E more \in Seq(Decisions) : row.audits = tx[x].audits \o more,
           \/ moved' = moved \union {x}
           \/ /\ moved' = moved /\ row.audits = tx[x].audits /\ row.status = tx[x].status
              /\ row.pending >= tx[x].pending
    PROVE  IngestInv'
<1>1. PoolInv /\ IngestTypeOK /\ client' = client /\ tx \in Table /\ tx[x] \in TxRow
  BY DEF IngestInv, IngestTypeOK, Table, pool
<1>2. PoolInv'
  BY <1>1, PoolUnchanged
<1>3. tx' \in Table /\ tx'[x] = row /\ \A y \in Transactions \ {x} : tx'[y] = tx[y]
  BY <1>1 DEF Table
<1>4. IngestTypeOK'
  BY <1>1, <1>3 DEF IngestTypeOK
<1>5. ASSUME NEW c \in Requests PROVE Account(c)'
  <2>1. Account(c) /\ c \in Transactions
    BY DEF IngestInv, Transactions
  <2>2. CASE c # x
    BY <1>1, <1>3, <2>1, <2>2, AccountFrame
  <2>3. CASE c = x
    <3>1. tx[c].pending \in Nat /\ tx[c].audits \in Seq(Decisions) /\ tx'[c] = row /\ row.pending \in Nat
      BY <1>1, <1>3, <2>3 DEF TxRow
    <3>2. /\ Through(c, Decide)' <=> Through(c, Decide)
          /\ Through(c, Audit)' <=> Through(c, Audit)
          /\ Through(c, SaveScore)' <=> Through(c, SaveScore)
      BY <1>1 DEF Through
    <3>3. Through(c, Audit) =>
            Audit \in ing[c].skipped \/ \E i \in 1..Len(row.audits) : row.audits[i] = ing[c].decision
      <4>1. PICK more \in Seq(Decisions) : row.audits = tx[c].audits \o more
        BY <2>3
      <4>2. ASSUME NEW i \in 1..Len(tx[c].audits)
            PROVE  i \in 1..Len(row.audits) /\ row.audits[i] = tx[c].audits[i]
        BY <3>1, <4>1
      <4>3. QED
        BY <2>1, <4>2 DEF Account
    <3>4. row.scored = tx[c].scored
      BY <2>3
    <3>5. CASE moved' = moved \union {x}
      BY <1>1, <2>1, <2>3, <3>1, <3>2, <3>3, <3>4, <3>5 DEF Account
    <3>6. CASE /\ moved' = moved /\ row.audits = tx[x].audits /\ row.status = tx[x].status
               /\ row.pending >= tx[x].pending
      BY <1>1, <2>1, <2>3, <3>1, <3>2, <3>3, <3>4, <3>6 DEF Account
    <3>7. QED
      BY <3>5, <3>6
  <2>4. QED
    BY <2>2, <2>3
<1>6. QED
  BY <1>2, <1>4, <1>5 DEF IngestInv

LEMMA SetStatusKeeps == ASSUME IngestInv, NEW x \in Transactions, SetStatus(x) PROVE IngestInv'
<1>1. tx \in Table /\ tx[x] \in TxRow /\ trouble \in Nat
  BY DEF IngestInv, IngestTypeOK, Table
<1>2. PICK d \in Decisions, audit \in Seq(Decisions) :
        tx' = [tx EXCEPT ![x].status = d, ![x].audits = @ \o audit]
  <2>1. PICK d \in Decisions : \E audit \in {<<>>, <<d>>} :
          tx' = [tx EXCEPT ![x].status = d, ![x].audits = @ \o audit]
    BY DEF SetStatus
  <2>2. <<>> \in Seq(Decisions) /\ <<d>> \in Seq(Decisions)
    OBVIOUS
  <2>3. QED
    BY <2>1, <2>2
<1> DEFINE joined == tx[x].audits \o audit
           row == [tx[x] EXCEPT !.status = d, !.audits = joined]
<1>3. joined \in Seq(Decisions)
  BY <1>1 DEF TxRow
<1>4. tx' = [tx EXCEPT ![x] = row]
  BY <1>1, <1>2 DEF Table
<1> HIDE DEF joined
<1>5. row \in TxRow /\ row.audits = joined /\ row.scored = tx[x].scored
  BY <1>1, <1>3 DEF TxRow, Statuses
<1> HIDE DEF row
<1>6. /\ UNCHANGED <<pool, ing, now>> /\ trouble' \in Nat /\ moved' = moved \union {x}
  BY <1>1 DEF SetStatus, Trouble
<1>7. \E more \in Seq(Decisions) : row.audits = tx[x].audits \o more
  BY <1>5 DEF joined
<1>8. QED
  BY <1>4, <1>5, <1>6, <1>7, OthersKeep

LEMMA SendVerificationKeeps ==
    ASSUME IngestInv, NEW x \in Transactions, SendVerification(x) PROVE IngestInv'
<1>1. tx \in Table /\ tx[x] \in TxRow /\ trouble \in Nat
  BY DEF IngestInv, IngestTypeOK, Table
<1>2. PICK n \in {1, 2} : tx' = [tx EXCEPT ![x].pending = @ + n]
  BY DEF SendVerification
<1> DEFINE row == [tx[x] EXCEPT !.pending = @ + n]
<1>3. tx' = [tx EXCEPT ![x] = row]
  BY <1>2
<1>4. /\ row \in TxRow /\ row.audits = tx[x].audits /\ row.scored = tx[x].scored
      /\ row.status = tx[x].status /\ row.pending >= tx[x].pending
  BY <1>1 DEF TxRow
<1> HIDE DEF row
<1>5. /\ UNCHANGED <<pool, ing, now>> /\ trouble' \in Nat /\ moved' = moved
  BY <1>1 DEF SendVerification, Trouble
<1>6. \E more \in Seq(Decisions) : row.audits = tx[x].audits \o more
  <2>1. <<>> \in Seq(Decisions) /\ tx[x].audits \o <<>> = tx[x].audits
    BY <1>1 DEF TxRow
  <2>2. QED
    BY <1>4, <2>1
<1>7. QED
  BY <1>3, <1>4, <1>5, <1>6, OthersKeep

LEMMA SettleVerificationKeeps ==
    ASSUME IngestInv, NEW x \in Transactions, SettleVerification(x) PROVE IngestInv'
<1>1. tx \in Table /\ tx[x] \in TxRow /\ trouble \in Nat
  BY DEF IngestInv, IngestTypeOK, Table
<1>2. tx[x].pending > 0
  BY DEF SettleVerification
<1>3. PICK status \in {"approved", "block", "manual_review"} :
        tx' = [tx EXCEPT ![x].pending = @ - 1, ![x].status = status]
  BY DEF SettleVerification
<1> DEFINE row == [tx[x] EXCEPT !.pending = @ - 1, !.status = status]
<1>4. tx' = [tx EXCEPT ![x] = row]
  BY <1>1, <1>3 DEF Table
<1>5. row \in TxRow /\ row.audits = tx[x].audits /\ row.scored = tx[x].scored
  <2>1. tx[x].pending - 1 \in Nat
    BY <1>1, <1>2 DEF TxRow
  <2>2. status \in Statuses
    BY DEF Statuses, Decisions
  <2>3. QED
    BY <1>1, <2>1, <2>2 DEF TxRow
<1> HIDE DEF row
<1>6. /\ UNCHANGED <<pool, ing, now>> /\ trouble' \in Nat /\ moved' = moved \union {x}
  BY <1>1 DEF SettleVerification, Trouble
<1>7. \E more \in Seq(Decisions) : row.audits = tx[x].audits \o more
  <2>1. <<>> \in Seq(Decisions) /\ tx[x].audits \o <<>> = tx[x].audits
    BY <1>1 DEF TxRow
  <2>2. QED
    BY <1>5, <2>1
<1>8. QED
  BY <1>4, <1>5, <1>6, <1>7, OthersKeep

(* The process dies: whoever was under way is over, without an answer.     *)
LEMMA DiesKeeps == ASSUME IngestInv, Dies PROVE IngestInv'
<1>1. PoolInv /\ IngestTypeOK /\ client \in [Requests -> Client]
  BY DEF IngestInv, PoolInv, PoolTypeOK
<1>2. PoolInv'
  BY <1>1, CrashKeeps DEF Dies
<1>3. tx' = tx /\ now' = now /\ moved' = moved /\ trouble' \in Nat
  BY <1>1 DEF Dies, Trouble, IngestTypeOK
<1>4. ASSUME NEW c \in Requests PROVE Account(c)' /\ ing'[c] \in Memory
  <2>1. Account(c) /\ ing[c] \in Memory /\ client[c] \in Client
    BY <1>1, OneTx DEF IngestInv
  <2>2. /\ client'[c] = IF client[c].pc = "new" THEN client[c]
                        ELSE [client[c] EXCEPT !.pc = "done", !.auth = FALSE, !.work = FALSE]
        /\ ing'[c] = IF client[c].pc \in {"new", "done"} THEN ing[c]
                     ELSE [ing[c] EXCEPT !.answer = "lost"]
    BY DEF Dies, Crash
  <2>3. CASE client[c].pc = "new"
    BY <1>3, <2>1, <2>2, <2>3, AccountFrame
  <2>4. CASE client[c].pc # "new"
    <3>1. client'[c].pc = "done" /\ client'[c].section = client[c].section
      BY <2>1, <2>2, <2>4 DEF Client
    <3>2. CASE client[c].pc = "done"
      BY <1>3, <2>1, <2>2, <3>1, <3>2 DEF Account, Through
    <3>3. CASE client[c].pc # "done"
      <4>1. /\ ing'[c].answer = "lost" /\ ing'[c].look = ing[c].look
            /\ ing'[c].decision = ing[c].decision /\ ing'[c] \in Memory
            /\ ing'[c].skipped = ing[c].skipped
        BY <2>1, <2>2, <2>4, <3>3 DEF Memory
      <4>2. ~Through(c, Decide)' /\ ~Through(c, Audit)' /\ ~Through(c, SaveScore)'
        BY <3>1, <4>1 DEF Through
      <4>3. QED
        BY <1>3, <2>1, <3>1, <4>1, <4>2 DEF Account
    <3>4. QED
      BY <2>1, <2>2, <3>2, <3>3
  <2>5. QED
    BY <2>1, <2>2, <2>3, <2>4
<1>5. ing' \in [Requests -> Memory]
  BY <1>4 DEF Dies
<1>6. QED
  BY <1>1, <1>2, <1>3, <1>4, <1>5 DEF IngestInv, IngestTypeOK

LEMMA IngestInvInit == Init => IngestInv
<1>1. SUFFICES ASSUME Init PROVE IngestInv
  OBVIOUS
<1>2. PoolInv
  BY <1>1, PoolInvInit
<1>3. ing \in [Requests -> Memory] /\ \A c \in Requests : ing[c] = NoProgress
  <2>1. NoProgress \in Memory
    BY DEF NoProgress, Memory
  <2>2. QED
    BY <1>1, <2>1 DEF Init
<1>4. tx \in Table /\ \A c \in Requests : tx[c] = NoTransaction
  <2>1. NoTransaction \in TxRow
    BY DEF NoTransaction, TxRow, Statuses
  <2>2. [NoTransaction EXCEPT !.at = 1, !.status = "block", !.audits = <<"block">>, !.scored = TRUE] \in TxRow
    <3>1. <<"block">> \in Seq(Decisions) /\ "block" \in Statuses
      BY DEF Decisions, Statuses
    <3>2. \A q \in Seq(Decisions), status \in Statuses :
            [NoTransaction EXCEPT !.at = 1, !.status = status, !.audits = q, !.scored = TRUE] \in TxRow
      BY DEF NoTransaction, TxRow
    <3>3. QED
      BY <3>1, <3>2
  <2>3. QED
    BY <1>1, <2>1, <2>2 DEF Init, Table, Transactions
<1>5. IngestTypeOK
  BY <1>1, <1>3, <1>4 DEF Init, IngestTypeOK
<1>6. ASSUME NEW c \in Requests PROVE Account(c)
  <2>1. client[c].pc = "new" /\ client[c].section = 0
    BY <1>1 DEF Init, PoolInit
  <2>2. QED
    BY <1>3, <1>4, <2>1, SectionNumbers DEF Account, Through, NoProgress, NoTransaction
<1>7. QED
  BY <1>2, <1>5, <1>6 DEF IngestInv

LEMMA OwnStepOnly ==
    ASSUME IngestInv, NEW c \in Requests, Requested(c) \/ Runs(c) PROVE Only(c)
<1>1. CASE Requested(c) \/ Connects(c)
  BY <1>1, PoolStepOnly
<1>2. CASE Insert(c)
  BY <1>2, InsertOnly
<1>3. CASE LookForPending(c)
  BY <1>3, LookForPendingOnly
<1>4. CASE Succeeds(c)
  BY <1>4, SucceedsOnly
<1>5. CASE Raises(c)
  BY <1>5, RaisesOnly
<1>6. CASE GivesUp(c)
  BY <1>6, GivesUpOnly
<1>7. CASE LosesBlock(c)
  BY <1>7, LosesBlockOnly
<1>8. QED
  BY <1>1, <1>2, <1>3, <1>4, <1>5, <1>6, <1>7 DEF Runs

LEMMA IngestInvNext == IngestInv /\ [Next]_vars => IngestInv'
<1>1. SUFFICES ASSUME IngestInv, [Next]_vars PROVE IngestInv'
  OBVIOUS
<1>2. PoolInv'
  BY <1>1, PoolInvNext DEF IngestInv
<1>3. CASE \E c \in Requests : Requested(c) \/ Runs(c)
  BY <1>1, <1>2, <1>3, OwnStepOnly, OnlyKeeps
<1>4. CASE \E x \in Transactions : SetStatus(x) \/ SendVerification(x) \/ SettleVerification(x)
  BY <1>1, <1>4, SetStatusKeeps, SendVerificationKeeps, SettleVerificationKeeps
<1>5. CASE Dies
  BY <1>1, <1>5, DiesKeeps
<1>6. CASE Tick \/ UNCHANGED vars
  <2>1. UNCHANGED <<client, tx, ing, moved, trouble>> /\ (now' = now \/ now' = now + 1)
    BY <1>6 DEF Tick, vars, pool
  <2>2. IngestTypeOK'
    BY <1>1, <2>1 DEF IngestInv, IngestTypeOK
  <2>3. ASSUME NEW c \in Requests PROVE Account(c)'
    BY <1>1, <2>1, AccountFrame DEF IngestInv
  <2>4. QED
    BY <1>2, <2>2, <2>3 DEF IngestInv
<1>7. QED
  BY <1>1, <1>3, <1>4, <1>5, <1>6 DEF Next

LEMMA AccountAnswers == IngestInv => AnsweredIsAccounted
<1>1. SUFFICES ASSUME IngestInv, NEW c \in Requests, ing[c].answer = "created"
               PROVE  LET d == ing[c].decision IN
                        /\ d \in Decisions /\ (Lost(c) => d = "block")
                        /\ c \notin moved => tx[c].status = IF Lost(c) THEN "pending" ELSE d
                        /\ Audit \in ing[c].skipped \/ \E i \in DOMAIN tx[c].audits : tx[c].audits[i] = d
                        /\ SaveScore \in ing[c].skipped \/ tx[c].scored
                        /\ ing[c].alerting <=> d \in {"verify", "block"}
                        /\ c \notin moved /\ Audit \notin ing[c].skipped =>
                             \A row \in Rows(tx, c) : Fraud(tx, row) <=> d = "block"
  BY DEF AnsweredIsAccounted
<1>2. Through(c, Decide) /\ Through(c, Audit) /\ Through(c, SaveScore)
  BY <1>1 DEF Through
<1> DEFINE d == ing[c].decision
<1>3. Account(c) /\ tx[c].audits \in Seq(Decisions) /\ ing[c] \in Memory
  BY <1>1, OneTx DEF IngestInv
<1>4. /\ d \in Decisions /\ (Lost(c) => d = "block")
      /\ c \notin moved => tx[c].status = IF Lost(c) THEN "pending" ELSE d
  BY <1>2, <1>3 DEF Account, Lost
<1>5. DOMAIN tx[c].audits = 1..Len(tx[c].audits)
  BY <1>3
<1>6. Audit \in ing[c].skipped \/ \E i \in DOMAIN tx[c].audits : tx[c].audits[i] = d
  BY <1>2, <1>3, <1>5 DEF Account
<1>7. SaveScore \in ing[c].skipped \/ tx[c].scored
  <2>1. SaveScore \in ing[c].skipped \/ tx[c].scored = TRUE
    BY <1>2, <1>3, Zenon DEF Account
  <2>2. QED
    BY <2>1, Zenon
<1>8. ing[c].alerting <=> d \in {"verify", "block"}
  <2>1. ing[c].alerting \in BOOLEAN
    BY <1>3 DEF Memory
  <2>2. ing[c].alerting = TRUE <=> d \in {"verify", "block"}
    BY <1>1, <1>3 DEF Account
  <2>3. QED
    BY <2>1, <2>2, Zenon
<1>9. ASSUME c \notin moved, Audit \notin ing[c].skipped, NEW row \in Rows(tx, c)
      PROVE  Fraud(tx, row) <=> d = "block"
  <2>1. PICK i \in {1} \union DOMAIN tx[c].audits : row = <<c, i>>
    BY <1>9 DEF Rows
  <2>2. tx[c].audits # <<>> /\ i \in 1..Len(tx[c].audits)
    BY <1>3, <1>5, <1>6, <1>9
  <2>3. tx[c].audits[i] = d
    BY <1>3, <1>9, <2>2 DEF Account
  <2>4. QED
    BY <2>1, <2>2, <2>3 DEF Fraud, Decision
<1>10. QED
  BY <1>4, <1>6, <1>7, <1>8, <1>9

(* Whatever the interleaving of requests, others and crashes: an answered  *)
(* decision is the status of the transaction unless somebody else changed  *)
(* it or the block was lost, which leaves it pending; it is audited, scored*)
(* and alerted on but for the sections that failed, and is the label the   *)
(* model is trained on (transaction_ingest_service.py, ml/train.py).       *)
THEOREM DecisionAccounted == Spec => []AnsweredIsAccounted
  BY IngestInvInit, IngestInvNext, AccountAnswers, PTL DEF Spec

LEMMA AccountReaches == IngestInv => VerifyIsReachable
<1>1. SUFFICES ASSUME IngestInv, NEW c \in Requests, tx[c].status = "verify",
                      ing[c].answer = "created", OpenVerification \notin ing[c].skipped,
                      c \notin moved
               PROVE  tx[c].pending > 0
  BY DEF VerifyIsReachable
<1>2. Account(c) /\ Through(c, Decide)
  BY <1>1 DEF IngestInv, Through
<1>3. ing[c].decision = "verify"
  BY <1>1, <1>2, Zenon DEF Account
<1>4. QED
  BY <1>1, <1>2, <1>3 DEF Account

(* An answered transaction that is left to be verified has a pending       *)
(* verification, unless opening one failed or somebody else set the status *)
(* (transaction_ingest_service.py, create_pending_for_verify_transaction). *)
THEOREM VerifyReachable == Spec => []VerifyIsReachable
  BY IngestInvInit, IngestInvNext, AccountReaches, PTL DEF Spec

-----------------------------------------------------------------------------
(* What the features were computed from.                                   *)

\* The sections past the first find the row they work on.
Stored(c) == client[c].pc \in {"wait", "run"} /\ client[c].section > Store => tx[c].at # 0

\* A row that others can see has its time; unless others changed it or its block
\* was lost, it has one audit, of its status, or none.
Written(x) ==
    /\ tx[x].status # "none" \/ tx[x].pending > 0 => tx[x].at # 0
    /\ tx[x].at <= now
    /\ x \notin moved /\ ~Lost(x) /\ tx[x].audits # <<>> => tx[x].audits = <<tx[x].status>>

\* Times do not change after the features were computed.
Pictured(c) ==
    ing[c].snap # <<>> =>
      \A y \in Transactions :
        ing[c].snap[1][y].status # "none" =>
          /\ ing[c].snap[1][y].at # 0 /\ ing[c].snap[1][y].at = tx[y].at
          /\ ing[c].snap[1][y].at <= ing[c].snap[2]

SkewInv ==
    /\ IngestInv
    /\ \A c \in Requests : Stored(c) /\ Pictured(c)
    /\ \A x \in Transactions : Written(x)

\* c's step leaves row, and takes a picture of the table or keeps the one it has.
Moves(c, row) ==
    LET section == client[c].section
        moves   == client'[c].section
        active  == {"new", "wait", "run"}
    IN  /\ tx' = [tx EXCEPT ![c] = row]
        /\ ing'[c].snap \in {ing[c].snap, <<tx, now>>} /\ (Lost(c) => Lost(c)')
        /\ \A d \in Requests \ {c} : ing'[d] = ing[d] /\ client'[d] = client[d]
        /\ moved' = moved /\ now' \in {now, now + 1}
        /\ row.at # tx[c].at =>
             /\ tx[c].at = 0 /\ row.at = now' /\ row.status = tx[c].status
             /\ row.pending = tx[c].pending
        /\ row.status # tx[c].status =>
             client[c].pc = "run" /\ section \in {Store, Decide} /\ (section = Store => row.at # 0)
        /\ row.pending # tx[c].pending => client[c].pc = "run" /\ section = OpenVerification
        /\ row.audits # tx[c].audits =>
             /\ client[c].pc = "run" /\ section = Audit
             /\ row.audits = Append(tx[c].audits, ing[c].decision)
        /\ client'[c].pc \in active =>
             /\ client[c].pc \in active
             /\ moves > Store => section > Store \/ (section = Store /\ row.at # 0)

LEMMA RowMoves ==
    ASSUME IngestTypeOK, NEW c \in Requests, client[c].pc = "run", NEW row \in TxRow,
           row = tx[c] \/ \E memory \in Memory : Does(c, row, memory)
    PROVE  /\ row.at = tx[c].at
           /\ row.status # tx[c].status =>
                client[c].section \in {Store, Decide} /\ (client[c].section = Store => row.at # 0)
           /\ row.pending # tx[c].pending => client[c].section = OpenVerification
           /\ row.audits # tx[c].audits =>
                client[c].section = Audit /\ row.audits = Append(tx[c].audits, ing[c].decision)
<1>1. CASE row = tx[c]
  BY <1>1
<1>2. CASE \E memory \in Memory : Does(c, row, memory)
  BY <1>2 DEF Does
<1>3. QED
  BY <1>1, <1>2

\* The first section is left only with its row inserted.
LEMMA SectionMoves ==
    ASSUME PoolInv, NEW c \in Requests, client[c].pc \in {"wait", "run"}, NEW s \in NextSections(c),
           client' = [client EXCEPT ![c] = After(client[c], s)], NEW at,
           client[c].section = Store => at # 0
    PROVE  client'[c].section > Store =>
             client[c].section > Store \/ (client[c].section = Store /\ at # 0)
<1>1. client[c] \in Client /\ client'[c] = After(client[c], s)
  BY OneClient DEF PoolInv, PoolTypeOK
<1>2. client'[c].section \in {s, client[c].section}
  BY <1>1, AfterMoves
<1>3. client[c].section \in 0..7
  BY OneClient, SectionNumbers
<1>4. client[c].section = 0 => s = 1
  BY SectionNumbers DEF NextSections
<1>5. QED
  BY <1>2, <1>3, <1>4, SectionNumbers

LEMMA GoesOnMoves ==
    ASSUME IngestInv, NEW c \in Requests, NEW s \in NextSections(c), Proceed(c, s),
           NEW memory \in Memory, Remember(c, memory, s),
           NEW row \in TxRow, tx' = [tx EXCEPT ![c] = row], Does(c, row, memory),
           moved' = moved, now' = now
    PROVE  Moves(c, row)
<1>1. PoolInv /\ IngestTypeOK /\ Account(c) /\ client \in [Requests -> Client] /\ client[c].pc = "run"
  BY PoolPart DEF Proceed
<1>5. /\ row.at = tx[c].at
      /\ row.status # tx[c].status =>
           client[c].section \in {Store, Decide} /\ (client[c].section = Store => row.at # 0)
      /\ row.pending # tx[c].pending => client[c].section = OpenVerification
      /\ row.audits # tx[c].audits =>
           client[c].section = Audit /\ row.audits = Append(tx[c].audits, ing[c].decision)
  BY <1>1, RowMoves
<1>6. client' = [client EXCEPT ![c] = After(client[c], s)] /\ \A d \in Requests \ {c} : client'[d] = client[d]
  BY <1>1 DEF Proceed, Set
<1>7. client[c].section = Store => row.at # 0
  BY DEF Does
<1>8. client'[c].section > Store =>
        client[c].section > Store \/ (client[c].section = Store /\ row.at # 0)
  BY <1>1, <1>6, <1>7, SectionMoves
<1>9. /\ ing'[c].snap = memory.snap /\ ing'[c].skipped = memory.skipped
      /\ \A d \in Requests \ {c} : ing'[d] = ing[d]
  BY <1>1, RememberSnap
<1>10. ing'[c].snap \in {ing[c].snap, <<tx, now>>} /\ (Lost(c) => Lost(c)')
  BY <1>9 DEF Does, Lost
<1>11. QED
  BY <1>1, <1>5, <1>6, <1>8, <1>9, <1>10 DEF Moves

LEMMA SucceedsMoves ==
    ASSUME IngestInv, NEW c \in Requests, Succeeds(c) PROVE \E row \in TxRow : Moves(c, row)
<1>1. PoolInv /\ IngestTypeOK /\ Account(c) /\ client[c].pc = "run"
  BY PoolPart DEF Succeeds
<1>2. PICK result \in Results(c), s \in NextSections(c) :
        Proceed(c, s) /\ tx' = result.tx /\ Remember(c, result.memory, s)
  BY DEF Succeeds
<1>3. result.memory \in Memory
      /\ \E row \in TxRow : result.tx = [tx EXCEPT ![c] = row] /\ Does(c, row, result.memory)
  BY <1>1, ResultsMean
<1>4. PICK row \in TxRow : tx' = [tx EXCEPT ![c] = row] /\ Does(c, row, result.memory)
  BY <1>2, <1>3
<1>5. moved' = moved /\ now' = now
  BY DEF Succeeds
<1>6. Moves(c, row)
  BY <1>2, <1>3, <1>4, <1>5, GoesOnMoves
<1>7. QED
  BY <1>6

LEMMA LosesBlockMoves ==
    ASSUME IngestInv, NEW c \in Requests, LosesBlock(c) PROVE \E row \in TxRow : Moves(c, row)
<1>1. moved' = moved /\ now' = now
  BY DEF LosesBlock
<1>2. tx[c] \in TxRow /\ Moves(c, tx[c])
  BY <1>1, LostDoes, GoesOnMoves
<1>3. QED
  BY <1>2

LEMMA SkipMoves ==
    ASSUME IngestInv, NEW c \in Requests, client[c].pc \in {"wait", "run"}, NEW s \in NextSections(c),
           client[c].section \in BestEffort,
           client' = [client EXCEPT ![c] = After(client[c], s)],
           Remember(c, [ing[c] EXCEPT !.skipped = @ \union {client[c].section}], s)
    PROVE  /\ \A d \in Requests \ {c} : client'[d] = client[d] /\ ing'[d] = ing[d]
           /\ ing'[c].snap = ing[c].snap /\ (Lost(c) => Lost(c)')
           /\ client'[c].section > Store => client[c].section > Store
<1> DEFINE memory == [ing[c] EXCEPT !.skipped = @ \union {client[c].section}]
<1>1. PoolInv /\ IngestTypeOK /\ client \in [Requests -> Client] /\ ing[c] \in Memory
  BY PoolPart, OneTx
<1>2. /\ memory \in Memory /\ memory.snap = ing[c].snap
      /\ memory.skipped = ing[c].skipped \union {client[c].section}
  BY <1>1 DEF Memory
<1> HIDE DEF memory
<1>3. Remember(c, memory, s)
  BY DEF memory
<1>4. /\ ing'[c].snap = memory.snap /\ ing'[c].skipped = memory.skipped
      /\ \A d \in Requests \ {c} : ing'[d] = ing[d]
  BY <1>1, <1>2, <1>3, RememberSnap
<1>4a. Lost(c) => Lost(c)'
  BY <1>2, <1>4 DEF Lost
<1>5. client[c].section > Store
  <2>1. client[c].section \in {3, 5, 6, 7}
    BY SectionNumbers
  <2>2. QED
    BY <2>1 DEF Store
<1>6. QED
  BY <1>1, <1>2, <1>4, <1>4a, <1>5

LEMMA FailMoves ==
    ASSUME IngestTypeOK, NEW c \in Requests, ing' = [ing EXCEPT ![c].answer = "error"]
    PROVE  /\ ing'[c].snap = ing[c].snap /\ (Lost(c) => Lost(c)')
           /\ \A d \in Requests \ {c} : ing'[d] = ing[d]
<1>1. ing[c] \in Memory /\ ing \in [Requests -> Memory]
  BY OneTx DEF IngestTypeOK
<1>2. ing'[c] = [ing[c] EXCEPT !.answer = "error"]
  BY <1>1
<1>3. ing'[c].snap = ing[c].snap /\ (Lost(c) => Lost(c)')
  BY <1>1, <1>2 DEF Memory, Lost
<1>4. QED
  BY <1>1, <1>3

LEMMA RaisesMoves ==
    ASSUME IngestInv, NEW c \in Requests, Raises(c) PROVE \E row \in TxRow : Moves(c, row)
<1>1. PoolInv /\ IngestTypeOK /\ client \in [Requests -> Client] /\ client[c].pc = "run"
  BY PoolPart DEF Raises
<1>2. moved' = moved /\ now' = now
  BY DEF Raises
<1>3. PICK row \in TxRow :
        tx' = [tx EXCEPT ![c] = row] /\ (row = tx[c] \/ \E memory \in Memory : Does(c, row, memory))
  BY RaisesWrites
<1>4. /\ row.at = tx[c].at
      /\ row.status # tx[c].status =>
           client[c].section \in {Store, Decide} /\ (client[c].section = Store => row.at # 0)
      /\ row.pending # tx[c].pending => client[c].section = OpenVerification
      /\ row.audits # tx[c].audits =>
           client[c].section = Audit /\ row.audits = Append(tx[c].audits, ing[c].decision)
  BY <1>1, <1>3, RowMoves
<1>5. /\ \A d \in Requests \ {c} : client'[d] = client[d] /\ ing'[d] = ing[d]
      /\ ing'[c].snap = ing[c].snap /\ (Lost(c) => Lost(c)')
      /\ client'[c].pc \in {"new", "wait", "run"} =>
           (client'[c].section > Store => client[c].section > Store)
  <2>1. CASE \E s \in NextSections(c) :
               /\ client[c].section \in BestEffort /\ Proceed(c, s)
               /\ Remember(c, [ing[c] EXCEPT !.skipped = @ \union {client[c].section}], s)
    <3>1. PICK s \in NextSections(c) :
            Proceed(c, s) /\ Remember(c, [ing[c] EXCEPT !.skipped = @ \union {client[c].section}], s)
      BY <2>1
    <3>2. client' = [client EXCEPT ![c] = After(client[c], s)]
      BY <3>1 DEF Proceed, Set
    <3>3. client[c].pc \in {"wait", "run"}
      BY <1>1
    <3>4. QED
      BY <2>1, <3>1, <3>2, <3>3, SkipMoves
  <2>2. CASE Fail(c) /\ ing' = [ing EXCEPT ![c].answer = "error"]
    <3>1. client' = [client EXCEPT ![c] = [client[c] EXCEPT !.pc = "end", !.work = FALSE]]
      BY <2>2 DEF Fail, Set
    <3>2. client'[c].pc = "end" /\ \A d \in Requests \ {c} : client'[d] = client[d]
      BY <1>1, <3>1 DEF Client
    <3>3. QED
      BY <1>1, <2>2, <3>2, FailMoves
  <2>3. QED
    BY <2>1, <2>2 DEF Raises
<1>6. Moves(c, row)
  BY <1>1, <1>2, <1>3, <1>4, <1>5 DEF Moves
<1>7. QED
  BY <1>6

LEMMA GivesUpMoves ==
    ASSUME IngestInv, NEW c \in Requests, GivesUp(c) PROVE \E row \in TxRow : Moves(c, row)
<1>1. PoolInv /\ IngestTypeOK /\ client \in [Requests -> Client] /\ tx[c] \in TxRow
      /\ [tx EXCEPT ![c] = tx[c]] = tx
  BY PoolPart, OneTx
<1>2. tx' = tx /\ moved' = moved /\ now' = now
  BY DEF GivesUp
<1>3. PICK s \in NextSections(c) :
         /\ TimeOut(c, s)
         /\ IF client[c].section \in BestEffort
              THEN Remember(c, [ing[c] EXCEPT !.skipped = @ \union {client[c].section}], s)
              ELSE ing' = [ing EXCEPT ![c].answer = "error"]
  BY DEF GivesUp
<1>4. client[c].pc = "wait"
  BY <1>3 DEF TimeOut
<1>5. /\ \A d \in Requests \ {c} : client'[d] = client[d] /\ ing'[d] = ing[d]
      /\ ing'[c].snap = ing[c].snap /\ (Lost(c) => Lost(c)')
      /\ client'[c].pc \in {"new", "wait", "run"} =>
           (client'[c].section > Store => client[c].section > Store)
  <2>1. CASE client[c].section \in BestEffort
    <3>1. client' = [client EXCEPT ![c] = After(client[c], s)]
      BY <1>3, <2>1 DEF TimeOut, Set
    <3>2. Remember(c, [ing[c] EXCEPT !.skipped = @ \union {client[c].section}], s)
      BY <1>3, <2>1
    <3>3. client[c].pc \in {"wait", "run"}
      BY <1>4
    <3>4. QED
      BY <2>1, <3>1, <3>2, <3>3, SkipMoves
  <2>2. CASE client[c].section \notin BestEffort
    <3>1. client' = [client EXCEPT ![c] = [client[c] EXCEPT !.pc = "end"]]
      BY <1>3, <2>2 DEF TimeOut, Set
    <3>2. client'[c].pc = "end" /\ \A d \in Requests \ {c} : client'[d] = client[d]
      BY <1>1, <3>1 DEF Client
    <3>3. ing' = [ing EXCEPT ![c].answer = "error"]
      BY <1>3, <2>2
    <3>4. QED
      BY <1>1, <3>2, <3>3, FailMoves
  <2>3. QED
    BY <2>1, <2>2
<1>6. Moves(c, tx[c])
  BY <1>1, <1>2, <1>4, <1>5 DEF Moves
<1>7. QED
  BY <1>1, <1>6

LEMMA PoolStepMoves ==
    ASSUME IngestInv, NEW c \in Requests, Requested(c) \/ Connects(c)
    PROVE  \E row \in TxRow : Moves(c, row)
<1>1. /\ client \in [Requests -> Client] /\ client[c] \in Client /\ tx[c] \in TxRow
      /\ [tx EXCEPT ![c] = tx[c]] = tx
  BY PoolPart, OneTx
<1>2. UNCHANGED <<tx, ing, now, moved>>
  BY DEF Requested, Connects
<1>3. PICK r \in Client :
        /\ client' = [client EXCEPT ![c] = r] /\ r.section = client[c].section
        /\ r.pc \in {"new", "wait", "run"} => client[c].pc \in {"new", "wait", "run"}
  <2>1. CASE Arrive(c)
    <3>1. client' = [client EXCEPT ![c] = [client[c] EXCEPT !.pc = "wait"]] /\ client[c].pc = "new"
      BY <2>1 DEF Arrive, Set
    <3>2. [client[c] EXCEPT !.pc = "wait"] \in Client
          /\ [client[c] EXCEPT !.pc = "wait"].section = client[c].section
      BY <1>1 DEF Client
    <3>3. QED
      BY <3>1, <3>2
  <2>2. CASE Checkout(c)
    <3>1. client[c].pc = "wait"
      BY <2>2 DEF Checkout
    <3>2. \/ client' = [client EXCEPT ![c] = [client[c] EXCEPT !.pc = "run", !.auth = TRUE]]
          \/ client' = [client EXCEPT ![c] = [client[c] EXCEPT !.pc = "run", !.work = TRUE]]
      BY <2>2 DEF Checkout, Set
    <3>3. /\ [client[c] EXCEPT !.pc = "run", !.auth = TRUE] \in Client
          /\ [client[c] EXCEPT !.pc = "run", !.auth = TRUE].section = client[c].section
          /\ [client[c] EXCEPT !.pc = "run", !.work = TRUE] \in Client
          /\ [client[c] EXCEPT !.pc = "run", !.work = TRUE].section = client[c].section
      BY <1>1 DEF Client
    <3>4. QED
      BY <3>1, <3>2, <3>3
  <2>3. CASE Finish(c)
    <3>1. client' = [client EXCEPT ![c] = [client[c] EXCEPT !.pc = "done", !.auth = FALSE]]
      BY <2>3 DEF Finish, Set
    <3>2. /\ [client[c] EXCEPT !.pc = "done", !.auth = FALSE] \in Client
          /\ [client[c] EXCEPT !.pc = "done", !.auth = FALSE].section = client[c].section
          /\ [client[c] EXCEPT !.pc = "done", !.auth = FALSE].pc = "done"
      BY <1>1 DEF Client
    <3>3. QED
      BY <3>1, <3>2
  <2>4. QED
    BY <2>1, <2>2, <2>3 DEF Requested, Connects
<1>4. client'[c] = r /\ \A d \in Requests \ {c} : client'[d] = client[d]
  BY <1>1, <1>3
<1>5. Moves(c, tx[c])
  BY <1>1, <1>2, <1>3, <1>4 DEF Moves, Lost
<1>6. QED
  BY <1>1, <1>5

LEMMA InsertMoves ==
    ASSUME IngestInv, NEW c \in Requests, Insert(c) PROVE \E row \in TxRow : Moves(c, row)
<1>1. IngestTypeOK /\ tx[c] \in TxRow
  BY PoolPart, OneTx
<1>2. UNCHANGED <<client, ing, moved>> /\ tx[c].at = 0
  BY DEF Insert, pool
<1>3. PICK n \in Nat : n = now /\ now' = now /\ tx' = [tx EXCEPT ![c].at = n]
  BY <1>1 DEF Insert, IngestTypeOK
<1> DEFINE row == [tx[c] EXCEPT !.at = n]
<1>4. row \in TxRow /\ tx' = [tx EXCEPT ![c] = row]
  BY <1>1, <1>3 DEF TxRow
<1>5. /\ row.at = n /\ row.status = tx[c].status /\ row.audits = tx[c].audits
      /\ row.pending = tx[c].pending
  BY <1>1 DEF TxRow
<1> HIDE DEF row
<1>6. Moves(c, row)
  BY <1>2, <1>3, <1>4, <1>5 DEF Moves, Lost
<1>7. QED
  BY <1>4, <1>6

LEMMA LookForPendingMoves ==
    ASSUME IngestInv, NEW c \in Requests, LookForPending(c) PROVE \E row \in TxRow : Moves(c, row)
<1>1. /\ ing \in [Requests -> Memory] /\ ing[c] \in Memory /\ tx[c] \in TxRow
      /\ [tx EXCEPT ![c] = tx[c]] = tx
  BY PoolPart, OneTx DEF IngestTypeOK
<1>2. UNCHANGED <<client, tx, now, moved>>
  BY DEF LookForPending, pool
<1>3. PICK l : ing' = [ing EXCEPT ![c].look = l]
  BY DEF LookForPending
<1>4. ing'[c] = [ing[c] EXCEPT !.look = l] /\ \A d \in Requests \ {c} : ing'[d] = ing[d]
  BY <1>1, <1>3
<1>5. ing'[c].snap = ing[c].snap /\ (Lost(c) => Lost(c)')
  BY <1>1, <1>4 DEF Memory, Lost
<1>6. Moves(c, tx[c])
  BY <1>1, <1>2, <1>4, <1>5 DEF Moves
<1>7. QED
  BY <1>1, <1>6

LEMMA OwnStepMoves ==
    ASSUME IngestInv, NEW c \in Requests, Requested(c) \/ Runs(c)
    PROVE  \E row \in TxRow : Moves(c, row)
<1>1. CASE Requested(c) \/ Connects(c)
  BY <1>1, PoolStepMoves
<1>2. CASE Insert(c)
  BY <1>2, InsertMoves
<1>3. CASE LookForPending(c)
  BY <1>3, LookForPendingMoves
<1>4. CASE Succeeds(c)
  BY <1>4, SucceedsMoves
<1>5. CASE Raises(c)
  BY <1>5, RaisesMoves
<1>6. CASE GivesUp(c)
  BY <1>6, GivesUpMoves
<1>7. CASE LosesBlock(c)
  BY <1>7, LosesBlockMoves
<1>8. QED
  BY <1>1, <1>2, <1>3, <1>4, <1>5, <1>6, <1>7 DEF Runs

(* A picture stays right as long as no time changes once it is set.        *)
LEMMA PicturesKeep ==
    ASSUME SkewInv, \A y \in Transactions : tx[y].at # 0 => tx'[y].at = tx[y].at,
           NEW d \in Requests, ing'[d].snap \in {ing[d].snap, <<tx, now>>}
    PROVE  Pictured(d)'
<1>1. CASE ing'[d].snap = ing[d].snap
  BY <1>1 DEF SkewInv, Pictured
<1>2. CASE ing'[d].snap = <<tx, now>>
  <2>1. ing'[d].snap[1] = tx /\ ing'[d].snap[2] = now
    BY <1>2
  <2>2. ASSUME NEW y \in Transactions, tx[y].status # "none"
        PROVE  tx[y].at # 0 /\ tx[y].at = tx'[y].at /\ tx[y].at <= now
    BY <2>2 DEF SkewInv, Written
  <2>3. QED
    BY <2>1, <2>2 DEF Pictured
<1>3. QED
  BY <1>1, <1>2

LEMMA MovesKeep ==
    ASSUME SkewInv, NEW c \in Requests, NEW row \in TxRow, Moves(c, row), IngestInv'
    PROVE  SkewInv'
<1>1. /\ IngestInv /\ tx \in Table /\ c \in Transactions /\ tx[c] \in TxRow /\ now \in Nat
      /\ Account(c) /\ Stored(c) /\ Written(c) /\ client[c] \in Client
  BY OneTx, OneClient DEF SkewInv, IngestInv, IngestTypeOK
<1>2. tx'[c] = row /\ \A y \in Transactions \ {c} : tx'[y] = tx[y]
  BY <1>1 DEF Moves, Table
<1>3. /\ now' \in Nat /\ now' >= now /\ moved' = moved
      /\ row.at \in Nat /\ tx[c].at \in Nat /\ row.pending \in Nat
  BY <1>1 DEF Moves, TxRow
<1>4. /\ tx[c].at # 0 => row.at = tx[c].at
      /\ row.at # tx[c].at => row.at = now' /\ row.status = tx[c].status /\ row.pending = tx[c].pending
  BY DEF Moves
<1>5. \A y \in Transactions : tx[y].at # 0 => tx'[y].at = tx[y].at
  BY <1>2, <1>4
<1>6. ASSUME NEW d \in Requests PROVE Pictured(d)'
  <2>1. ing'[d].snap \in {ing[d].snap, <<tx, now>>}
    BY DEF Moves
  <2>2. QED
    BY <1>5, <2>1, PicturesKeep
<1>7. ASSUME NEW d \in Requests PROVE Stored(d)'
  <2>1. CASE d = c
    <3>1. client[c].pc = "new" => client[c].section = 0
      BY <1>1 DEF Account
    <3>2. client[c].section = Store => Store = 1
      BY SectionNumbers
    <3>3. ASSUME client'[c].pc \in {"wait", "run"}, client'[c].section > Store PROVE row.at # 0
      <4>1. client[c].pc \in {"new", "wait", "run"}
            /\ (client[c].section > Store \/ (client[c].section = Store /\ row.at # 0))
        BY <3>3 DEF Moves
      <4>2. CASE client[c].section > Store
        <5>1. client[c].pc # "new"
          BY <3>1, <4>2, SectionNumbers
        <5>2. tx[c].at # 0
          BY <1>1, <4>1, <4>2, <5>1 DEF Stored
        <5>3. QED
          BY <1>4, <5>2
      <4>3. QED
        BY <4>1, <4>2
    <3>4. QED
      BY <1>2, <2>1, <3>3 DEF Stored
  <2>2. CASE d # c
    <3>1. client'[d] = client[d] /\ tx'[d] = tx[d] /\ Stored(d)
      BY <1>2, <2>2 DEF Moves, Transactions, SkewInv
    <3>2. QED
      BY <3>1 DEF Stored
  <2>3. QED
    BY <2>1, <2>2
<1>8. Written(c)'
  <2>1. row.status # "none" \/ row.pending > 0 => row.at # 0
    <3>1. CASE row.status # tx[c].status
      BY <1>1, <1>4, <3>1, SectionNumbers DEF Moves, Stored
    <3>2. CASE row.pending # tx[c].pending
      BY <1>1, <1>4, <3>2, SectionNumbers DEF Moves, Stored
    <3>3. CASE row.status = tx[c].status /\ row.pending = tx[c].pending
      BY <1>1, <1>4, <3>3 DEF Written
    <3>4. QED
      BY <3>1, <3>2, <3>3
  <2>2. row.at <= now'
    BY <1>1, <1>3, <1>4 DEF Written
  <2>3. ASSUME c \notin moved, ~Lost(c), row.audits # <<>> PROVE row.audits = <<row.status>>
    <3>1. CASE row.audits = tx[c].audits
      <4>1. row.status = tx[c].status
        <5>1. client[c].pc = "run" /\ client[c].section \in {Store, Decide} => tx[c].audits = <<>>
          BY <1>1, <2>3, SectionNumbers DEF Account
        <5>2. QED
          BY <2>3, <3>1, <5>1 DEF Moves
      <4>2. QED
        BY <1>1, <2>3, <3>1, <4>1 DEF Written
    <3>2. CASE row.audits # tx[c].audits
      <4>1. /\ client[c].pc = "run" /\ client[c].section = Audit
            /\ row.audits = Append(tx[c].audits, ing[c].decision)
        BY <3>2 DEF Moves
      <4>2. tx[c].audits = <<>>
        BY <1>1, <2>3, <4>1, SectionNumbers DEF Account
      <4>3. tx[c].status = ing[c].decision
        BY <1>1, <2>3, <4>1, SectionNumbers DEF Account, Through, Lost
      <4>4. row.status = tx[c].status
        BY <4>1, SectionNumbers DEF Moves
      <4>5. QED
        BY <4>1, <4>2, <4>3, <4>4
    <3>3. QED
      BY <3>1, <3>2
  <2>4. Lost(c) => Lost(c)'
    BY DEF Moves
  <2>5. QED
    BY <1>2, <1>3, <2>1, <2>2, <2>3, <2>4 DEF Written
<1>9. ASSUME NEW y \in Transactions \ {c} PROVE Written(y)'
  <2>1. Written(y) /\ tx'[y] = tx[y] /\ tx[y].at \in Nat
    BY <1>1, <1>2 DEF SkewInv, Table, TxRow
  <2>2. Lost(y)' <=> Lost(y)
    BY DEF Moves, Lost
  <2>3. QED
    BY <1>1, <1>3, <2>1, <2>2 DEF Written
<1>10. QED
  BY <1>6, <1>7, <1>8, <1>9 DEF SkewInv

(* Others change the status, the audits and the verifications of rows that *)
(* are written, never their times.                                         *)
LEMMA OthersKeepPictures ==
    ASSUME SkewInv, IngestInv', NEW x \in Transactions, NEW row \in TxRow, tx' = [tx EXCEPT ![x] = row],
           UNCHANGED <<pool, ing, now>>, tx[x].at # 0, row.at = tx[x].at,
           \/ moved' = moved \union {x}
           \/ moved' = moved /\ row.audits = tx[x].audits /\ row.status = tx[x].status
    PROVE  SkewInv'
<1>1. tx \in Table /\ client' = client /\ ing' = ing /\ now' = now
  BY DEF SkewInv, IngestInv, IngestTypeOK, pool
<1>2. tx'[x] = row /\ \A y \in Transactions \ {x} : tx'[y] = tx[y]
  BY <1>1 DEF Table
<1>3. \A y \in Transactions : tx'[y].at = tx[y].at
  BY <1>2
<1>4. ASSUME NEW c \in Requests PROVE Stored(c)' /\ Pictured(c)'
  <2>1. Stored(c) /\ c \in Transactions
    BY DEF SkewInv, Transactions
  <2>2. Stored(c)'
    BY <1>1, <1>3, <2>1 DEF Stored
  <2>3. ing'[c].snap \in {ing[c].snap, <<tx, now>>}
    BY <1>1
  <2>4. Pictured(c)'
    BY <1>3, <2>3, PicturesKeep
  <2>5. QED
    BY <2>2, <2>4
<1>5. ASSUME NEW y \in Transactions PROVE Written(y)'
  <2>1. Written(y) /\ Written(x) /\ (Lost(y)' <=> Lost(y))
    BY <1>1 DEF SkewInv, Lost
  <2>2. CASE y = x
    BY <1>1, <1>2, <2>1, <2>2 DEF Written
  <2>3. CASE y # x
    BY <1>1, <1>2, <2>1, <2>3 DEF Written
  <2>4. QED
    BY <2>2, <2>3
<1>6. QED
  BY <1>4, <1>5 DEF SkewInv

LEMMA OthersSkew ==
    ASSUME SkewInv, IngestInv', NEW x \in Transactions,
           SetStatus(x) \/ SendVerification(x) \/ SettleVerification(x)
    PROVE  SkewInv'
<1>1. tx \in Table /\ tx[x] \in TxRow /\ Written(x)
  BY DEF SkewInv, IngestInv, IngestTypeOK, Table
<1>2. tx'[x] \in TxRow
  BY DEF IngestInv, IngestTypeOK, Table
<1>3. tx' = [tx EXCEPT ![x] = tx'[x]]
  <2>1. \A y \in Transactions \ {x} : tx'[y] = tx[y]
    BY <1>1 DEF SetStatus, SendVerification, SettleVerification, Table
  <2>2. tx' \in Table
    BY DEF IngestInv, IngestTypeOK
  <2>3. QED
    BY <1>1, <2>1, <2>2 DEF Table
<1>4. UNCHANGED <<pool, ing, now>> /\ (tx[x].status # "none" \/ tx[x].pending > 0)
  BY DEF SetStatus, SendVerification, SettleVerification
<1>5. tx[x].at # 0
  BY <1>1, <1>4 DEF Written
<1>6. /\ tx'[x].at = tx[x].at
      /\ \/ moved' = moved \union {x}
         \/ moved' = moved /\ tx'[x].audits = tx[x].audits /\ tx'[x].status = tx[x].status
  <2>1. CASE SetStatus(x)
    <3>1. PICK d, audit : tx' = [tx EXCEPT ![x].status = d, ![x].audits = @ \o audit]
      BY <2>1 DEF SetStatus
    <3>2. \A joined : [tx[x] EXCEPT !.status = d, !.audits = joined].at = tx[x].at
      BY <1>1 DEF TxRow
    <3>3. tx'[x] = [tx[x] EXCEPT !.status = d, !.audits = tx[x].audits \o audit]
      BY <1>1, <3>1 DEF Table
    <3>4. QED
      BY <2>1, <3>2, <3>3 DEF SetStatus
  <2>2. CASE SendVerification(x)
    <3>1. PICK n : tx' = [tx EXCEPT ![x].pending = @ + n]
      BY <2>2 DEF SendVerification
    <3>2. tx'[x] = [tx[x] EXCEPT !.pending = @ + n]
      BY <1>1, <3>1 DEF Table
    <3>3. tx'[x].at = tx[x].at /\ tx'[x].audits = tx[x].audits /\ tx'[x].status = tx[x].status
      BY <1>1, <3>2 DEF TxRow
    <3>4. QED
      BY <2>2, <3>3 DEF SendVerification
  <2>3. CASE SettleVerification(x)
    <3>1. PICK status : tx' = [tx EXCEPT ![x].pending = @ - 1, ![x].status = status]
      BY <2>3 DEF SettleVerification
    <3>2. tx'[x] = [tx[x] EXCEPT !.pending = @ - 1, !.status = status]
      BY <1>1, <3>1 DEF Table
    <3>3. tx'[x].at = tx[x].at
      BY <1>1, <3>2 DEF TxRow
    <3>4. QED
      BY <2>3, <3>3 DEF SettleVerification
  <2>4. QED
    BY <2>1, <2>2, <2>3
<1>7. \A row \in TxRow : row = tx'[x] => SkewInv'
  BY <1>3, <1>4, <1>5, <1>6, OthersKeepPictures
<1>8. QED
  BY <1>2, <1>7

\* Nobody moves: the clock ticks, the process dies, nothing happens.
LEMMA StillKeeps ==
    ASSUME SkewInv, IngestInv', UNCHANGED <<tx, moved>>, now' \in {now, now + 1},
           \A c \in Requests : /\ ing'[c].snap = ing[c].snap /\ ing'[c].skipped = ing[c].skipped
                               /\ client'[c] = client[c] \/ client'[c].pc = "done"
    PROVE  SkewInv'
<1>1. tx \in Table /\ now \in Nat
  BY DEF SkewInv, IngestInv, IngestTypeOK
<1>2. ASSUME NEW c \in Requests PROVE Stored(c)' /\ Pictured(c)'
  <2>1. Stored(c)'
    BY DEF SkewInv, Stored
  <2>2. \A y \in Transactions : tx[y].at # 0 => tx'[y].at = tx[y].at
    OBVIOUS
  <2>3. ing'[c].snap \in {ing[c].snap, <<tx, now>>}
    OBVIOUS
  <2>4. QED
    BY <2>1, <2>2, <2>3, PicturesKeep
<1>3. ASSUME NEW y \in Transactions PROVE Written(y)'
  <2>1. Written(y) /\ tx[y].at \in Nat /\ (Lost(y)' <=> Lost(y))
    BY <1>1 DEF SkewInv, Table, TxRow, Lost
  <2>2. QED
    BY <1>1, <2>1 DEF Written
<1>4. QED
  BY <1>2, <1>3 DEF SkewInv

LEMMA SkewInvInit == Init => SkewInv
<1>1. SUFFICES ASSUME Init PROVE SkewInv
  OBVIOUS
<1>2. IngestInv
  BY <1>1, IngestInvInit
<1>3. ASSUME NEW c \in Requests PROVE Stored(c) /\ Pictured(c)
  <2>1. client[c].pc = "new" /\ ing[c].snap = <<>>
    BY <1>1 DEF Init, PoolInit, NoProgress
  <2>2. QED
    BY <2>1 DEF Stored, Pictured
<1>4. ASSUME NEW x \in Transactions PROVE Written(x)
  <2>1. now = 1
    BY <1>1 DEF Init
  <2>2. CASE x \in Requests
    <3>1. tx[x] = NoTransaction
      BY <1>1, <2>2 DEF Init
    <3>2. QED
      BY <2>1, <3>1 DEF Written, NoTransaction
  <2>3. CASE x \notin Requests
    <3>1. tx[x] = [NoTransaction EXCEPT !.at = 1, !.status = "block", !.audits = <<"block">>, !.scored = TRUE]
      BY <1>1, <2>3 DEF Init
    <3>2. tx[x].at = 1 /\ tx[x].status = "block" /\ tx[x].audits = <<"block">>
      BY <3>1 DEF NoTransaction
    <3>3. QED
      BY <2>1, <3>2 DEF Written
  <2>4. QED
    BY <2>2, <2>3
<1>5. QED
  BY <1>2, <1>3, <1>4 DEF SkewInv

LEMMA SkewInvNext == SkewInv /\ [Next]_vars => SkewInv'
<1>1. SUFFICES ASSUME SkewInv, [Next]_vars PROVE SkewInv'
  OBVIOUS
<1>2. IngestInv'
  BY <1>1, IngestInvNext DEF SkewInv
<1>3. CASE \E c \in Requests : Requested(c) \/ Runs(c)
  <2>1. PICK c \in Requests : Requested(c) \/ Runs(c)
    BY <1>3
  <2>2. \E row \in TxRow : Moves(c, row)
    BY <1>1, <2>1, OwnStepMoves DEF SkewInv
  <2>3. QED
    BY <1>1, <1>2, <2>2, MovesKeep
<1>4. CASE \E x \in Transactions : SetStatus(x) \/ SendVerification(x) \/ SettleVerification(x)
  BY <1>1, <1>2, <1>4, OthersSkew
<1>5. CASE Dies
  <2>1. UNCHANGED <<tx, now, moved>>
    BY <1>5 DEF Dies
  <2>2. ASSUME NEW c \in Requests
        PROVE  /\ ing'[c].snap = ing[c].snap /\ ing'[c].skipped = ing[c].skipped
               /\ client'[c] = client[c] \/ client'[c].pc = "done"
    <3>1. ing[c] \in Memory /\ client[c] \in Client
      BY <1>1, PoolPart, OneTx DEF SkewInv
    <3>2. /\ client'[c] = IF client[c].pc = "new" THEN client[c]
                          ELSE [client[c] EXCEPT !.pc = "done", !.auth = FALSE, !.work = FALSE]
          /\ ing'[c] = IF client[c].pc \in {"new", "done"} THEN ing[c]
                       ELSE [ing[c] EXCEPT !.answer = "lost"]
      BY <1>5 DEF Dies, Crash
    <3>3. ing'[c].snap = ing[c].snap /\ ing'[c].skipped = ing[c].skipped
      BY <3>1, <3>2 DEF Memory
    <3>4. client'[c] = client[c] \/ client'[c].pc = "done"
      BY <3>1, <3>2 DEF Client
    <3>5. QED
      BY <3>3, <3>4
  <2>3. QED
    BY <1>1, <1>2, <2>1, <2>2, StillKeeps
<1>6. CASE Tick \/ UNCHANGED vars
  <2>1. UNCHANGED <<client, tx, ing, moved>> /\ now' \in {now, now + 1}
    BY <1>6 DEF Tick, vars, pool
  <2>2. QED
    BY <1>1, <1>2, <2>1, StillKeeps
<1>7. QED
  BY <1>1, <1>3, <1>4, <1>5, <1>6 DEF Next

-----------------------------------------------------------------------------
(* Counting transactions and counting the rows of their export.            *)
LEMMA OneRowEach ==
    ASSUME NEW T, IsFiniteSet(T)
    PROVE  LET R == {<<y, 1>> : y \in T} IN IsFiniteSet(R) /\ Cardinality(R) = Cardinality(T)
<1> DEFINE R == {<<y, 1>> : y \in T}
           row == [y \in T |-> <<y, 1>>]
<1>1. row \in [T -> R] /\ \A a, b \in T : row[a] = row[b] => a = b
  OBVIOUS
<1>2. \A r \in R : \E y \in T : row[y] = r
  OBVIOUS
<1>3. row \in Bijection(T, R)
  BY <1>1, <1>2, Fun_IsBij
<1>4. ExistsBijection(T, R)
  BY <1>3, Fun_ExistsBij
<1>5. QED
  BY <1>4, FS_Bijection

LEMMA FiniteTransactions == IsFiniteSet(Transactions)
  BY RequestsAssumption, IngestAssumption, FS_Union DEF Transactions

LEMMA FiniteRows ==
    ASSUME tx \in Table, NEW x \in Transactions PROVE IsFiniteSet(Rows(tx, x))
<1> DEFINE Indices == {1} \union DOMAIN tx[x].audits
           nth == [i \in Indices |-> <<x, i>>]
<1>1. tx[x].audits \in Seq(Decisions)
  BY DEF Table, TxRow
<1>2. IsFiniteSet(DOMAIN tx[x].audits)
  BY <1>1, FS_Interval
<1>3. IsFiniteSet(Indices)
  BY <1>2, FS_AddElement
<1>4. nth \in [Indices -> Rows(tx, x)] /\ \A row \in Rows(tx, x) : \E i \in Indices : nth[i] = row
  BY DEF Rows
<1>5. nth \in Surjection(Indices, Rows(tx, x))
  BY <1>4, Fun_IsSurj
<1>6. QED
  BY <1>3, <1>5, FS_Surjection

\* The rows ahead come on top of those before.
LEMMA RowsAdd ==
    ASSUME NEW R, IsFiniteSet(R), NEW A, IsFiniteSet(A), R \intersect A = {}
    PROVE  /\ Cardinality(R \union A) = Cardinality(R) + Cardinality(A)
           /\ BlockedRows(tx, R \union A) = BlockedRows(tx, R) + BlockedRows(tx, A)
<1> DEFINE Bad(T) == {row \in T : Blocked(tx, row)}
<1>1. /\ IsFiniteSet(Bad(R)) /\ IsFiniteSet(Bad(A))
      /\ Bad(R) \intersect Bad(A) = {} /\ Bad(R \union A) = Bad(R) \union Bad(A)
  <2>1. Bad(R) \in SUBSET R /\ Bad(A) \in SUBSET A
    OBVIOUS
  <2>2. QED
    BY <2>1, FS_Subset
<1>2. /\ BlockedRows(tx, R) = Cardinality(Bad(R)) /\ BlockedRows(tx, A) = Cardinality(Bad(A))
      /\ BlockedRows(tx, R \union A) = Cardinality(Bad(R) \union Bad(A))
  BY <1>1 DEF BlockedRows
<1> HIDE DEF Bad
<1>3. /\ Cardinality(R \union A) = Cardinality(R) + Cardinality(A) - Cardinality({})
      /\ Cardinality(Bad(R) \union Bad(A)) = Cardinality(Bad(R)) + Cardinality(Bad(A)) - Cardinality({})
  BY <1>1, FS_Union
<1>4. /\ Cardinality({}) = 0 /\ Cardinality(R) \in Nat /\ Cardinality(A) \in Nat
      /\ Cardinality(Bad(R)) \in Nat /\ Cardinality(Bad(A)) \in Nat
  BY <1>1, FS_EmptySet, FS_CardinalityType
<1>5. QED
  BY <1>1, <1>2, <1>3, <1>4

(* x was computed from seen at time t; S is what came before it; nothing   *)
(* else has x's time, so what is ahead of a row of x are other rows of x.  *)
Precedes(S, seen, t, x) ==
    /\ S = Committed(seen) \ {x}
    /\ S = {y \in Committed(tx) : tx[y].at < tx[x].at}
    /\ x \in Committed(seen) /\ seen[x].status = "pending"
    /\ seen[x].at = tx[x].at /\ tx[x].at <= t
    /\ \A y \in S : /\ seen[y].status = tx[y].status /\ seen[y].at = tx[y].at
                    /\ tx[y].audits = <<>> \/ tx[y].audits = <<tx[y].status>>
    /\ \A y \in Committed(seen) : \A window \in {Hours, Days} :
         tx[y].at + window >= tx[x].at => tx[y].at + window >= t
    /\ \A y \in Committed(tx) \ {x} : tx[y].at # tx[x].at

LEMMA SkewOfOne ==
    ASSUME NEW x \in Transactions, NEW seen \in Table, NEW t \in Nat, tx \in Table,
           NEW S, Precedes(S, seen, t, x),
           NEW row \in Rows(tx, x), NEW ahead \in SUBSET Tied(tx, row)
    PROVE  LET served == Served(seen, t)
               trained == Trained(tx, row, ahead)
           IN  /\ served.count = trained.count + 1 /\ served.failed = trained.failed
               /\ (\A y \in Committed(tx) : tx[y].at + Days >= tx[x].at) =>
                    /\ trained.total + 1 = served.total + Cardinality(ahead)
                    /\ trained.blocked = served.blocked + BlockedRows(tx, ahead)
<1> DEFINE Recent(window) == {y \in S : tx[y].at + window >= tx[x].at}
           Bad(T) == {y \in T : tx[y].status = "block"}
           Firsts(T) == {<<y, 1>> : y \in T}
           prior == {other \in Exported(tx) : tx[other[1]].at < tx[x].at}
           BadRows(R) == {other \in R : Blocked(tx, other)}
<1>0. /\ S = Committed(seen) \ {x}
      /\ S = {y \in Committed(tx) : tx[y].at < tx[x].at}
      /\ x \in Committed(seen) /\ seen[x].status = "pending"
      /\ seen[x].at = tx[x].at /\ tx[x].at <= t
      /\ \A y \in S : /\ seen[y].status = tx[y].status /\ seen[y].at = tx[y].at
                      /\ tx[y].audits = <<>> \/ tx[y].audits = <<tx[y].status>>
      /\ \A y \in Committed(seen) : \A window \in {Hours, Days} :
           tx[y].at + window >= tx[x].at => tx[y].at + window >= t
      /\ \A y \in Committed(tx) \ {x} : tx[y].at # tx[x].at
  BY DEF Precedes
<1> USE <1>0
<1>1. S \subseteq Transactions /\ DOMAIN tx = Transactions /\ DOMAIN seen = Transactions
  BY DEF Committed, Table
<1>2. ASSUME NEW T \in SUBSET S
      PROVE  /\ IsFiniteSet(T) /\ Cardinality(T) \in Nat
             /\ Cardinality(T \union {x}) = Cardinality(T) + 1
             /\ IsFiniteSet(Bad(T)) /\ IsFiniteSet(Firsts(T)) /\ Cardinality(Firsts(T)) = Cardinality(T)
             /\ Cardinality(Firsts(Bad(T))) = Cardinality(Bad(T))
  <2>1. IsFiniteSet(T) /\ IsFiniteSet(Bad(T))
    <3>1. T \in SUBSET Transactions /\ Bad(T) \in SUBSET Transactions
      BY <1>1, <1>2
    <3>2. QED
      BY <3>1, FiniteTransactions, FS_Subset
  <2>2. x \notin T
    OBVIOUS
  <2>3. QED
    BY <2>1, <2>2, FS_AddElement, FS_CardinalityType, OneRowEach
<1>3. ASSUME NEW window \in {Hours, Days}
      PROVE  /\ Within(seen, t, window) = Recent(window) \union {x}
             /\ {y \in Within(seen, t, window) : seen[y].status = "block"} = Bad(Recent(window))
  <2>1. window \in Nat /\ tx[x].at \in Nat
    BY WindowsAssumption DEF Table, TxRow
  <2>2. Within(seen, t, window) = {y \in S \union {x} : seen[y].at + window >= t}
    BY DEF Within
  <2>3. seen[x].at + window >= t
    BY <2>1
  <2>4. ASSUME NEW y \in S PROVE seen[y].at + window >= t <=> tx[y].at + window >= tx[x].at
    <3>1. y \in Committed(seen) /\ seen[y].at = tx[y].at /\ tx[y].at \in Nat
      BY <1>1 DEF Table, TxRow
    <3>2. tx[y].at + window >= tx[x].at => tx[y].at + window >= t
      BY <3>1
    <3>3. QED
      BY <2>1, <3>1, <3>2
  <2>5. Within(seen, t, window) = Recent(window) \union {x}
    BY <2>2, <2>3, <2>4
  <2>6. {y \in Within(seen, t, window) : seen[y].status = "block"} = Bad(Recent(window))
    BY <2>5
  <2>7. QED
    BY <2>5, <2>6
<1>4. ASSUME NEW y \in S
      PROVE  /\ \A i : i \in {1} \union DOMAIN tx[y].audits <=> i = 1
             /\ Blocked(tx, <<y, 1>>) <=> tx[y].status = "block"
  <2>1. tx[y].audits = <<>> \/ tx[y].audits = <<tx[y].status>>
    OBVIOUS
  <2>2. Decision(tx, <<y, 1>>) \in {"none", tx[y].status}
    BY <2>1 DEF Decision
  <2>3. \A i : i \in {1} \union DOMAIN tx[y].audits <=> i = 1
    BY <2>1
  <2>4. Blocked(tx, <<y, 1>>) <=> tx[y].status = "block"
    BY <2>2 DEF Blocked
  <2>5. QED
    BY <2>3, <2>4
<1>5. prior = Firsts(S)
  <2>1. ASSUME NEW other \in prior PROVE other \in Firsts(S)
    <3>1. PICK y \in Committed(tx) : \E i \in {1} \union DOMAIN tx[y].audits : other = <<y, i>>
      BY DEF Exported, Rows
    <3>2. y \in S
      BY <3>1
    <3>3. QED
      BY <1>4, <3>1, <3>2
  <2>2. ASSUME NEW y \in S PROVE <<y, 1>> \in prior
    <3>1. y \in Committed(tx) /\ tx[y].at < tx[x].at
      OBVIOUS
    <3>2. <<y, 1>> \in Exported(tx)
      BY <3>1 DEF Exported, Rows
    <3>3. QED
      BY <3>1, <3>2
  <2>3. QED
    BY <2>1, <2>2
<1>6. Before(tx, x, Hours) = Firsts(Recent(Hours))
  <2>1. Before(tx, x, Hours) = {other \in prior : tx[other[1]].at + Hours >= tx[x].at}
    BY DEF Before
  <2>2. QED
    BY <1>5, <2>1
<1>7. ASSUME NEW T \in SUBSET S PROVE BadRows(Firsts(T)) = Firsts(Bad(T))
  BY <1>4, <1>7
<1>8a. IsFiniteSet(ahead) /\ IsFiniteSet(prior) /\ prior \intersect ahead = {}
  <2>1. row[1] = x
    BY DEF Rows
  <2>2. ASSUME NEW other \in ahead PROVE other \in Rows(tx, x) /\ other[1] = x
    <3>1. PICK y \in Committed(tx) : other \in Rows(tx, y)
      BY DEF Tied, Exported
    <3>2. other[1] = y /\ tx[y].at = tx[x].at
      BY <2>1, <3>1 DEF Tied, Rows
    <3>3. QED
      BY <3>1, <3>2
  <2>3. x \in Transactions
    OBVIOUS
  <2>4. IsFiniteSet(Rows(tx, x)) /\ ahead \in SUBSET Rows(tx, x)
    BY <2>2, <2>3, FiniteRows
  <2>5. IsFiniteSet(ahead)
    BY <2>4, FS_Subset
  <2>6. IsFiniteSet(prior)
    <3>1. S \in SUBSET S
      OBVIOUS
    <3>2. IsFiniteSet(Firsts(S))
      BY <1>2, <3>1
    <3>3. QED
      BY <1>5, <3>2
  <2>7. x \notin S
    OBVIOUS
  <2>8. prior \intersect ahead = {}
    BY <1>5, <2>2, <2>7
  <2>9. QED
    BY <2>5, <2>6, <2>8
<1>8b. /\ Cardinality(ahead) \in Nat
       /\ Cardinality(prior \union ahead) = Cardinality(prior) + Cardinality(ahead)
       /\ BlockedRows(tx, prior \union ahead) = BlockedRows(tx, prior) + BlockedRows(tx, ahead)
  <2> HIDE DEF prior
  <2>1. QED
    BY <1>8a, RowsAdd, FS_CardinalityType
<1>8c. row[1] = x
  BY DEF Rows
<1>8. /\ Trained(tx, row, ahead).count = Cardinality(Firsts(Recent(Hours)))
      /\ Trained(tx, row, ahead).failed = Cardinality(BadRows(Firsts(Recent(Hours))))
      /\ Trained(tx, row, ahead).blocked = Cardinality(BadRows(Firsts(S))) + BlockedRows(tx, ahead)
      /\ Trained(tx, row, ahead).total = Cardinality(Firsts(S)) + Cardinality(ahead)
  <2>1. BlockedRows(tx, Before(tx, x, Hours)) = Cardinality(BadRows(Firsts(Recent(Hours))))
    BY <1>6 DEF BlockedRows
  <2>2. BlockedRows(tx, prior) = Cardinality(BadRows(Firsts(S)))
    BY <1>5 DEF BlockedRows
  <2>3. /\ Trained(tx, row, ahead).count = Cardinality(Before(tx, x, Hours))
        /\ Trained(tx, row, ahead).failed = BlockedRows(tx, Before(tx, x, Hours))
        /\ Trained(tx, row, ahead).blocked = BlockedRows(tx, prior \union ahead)
        /\ Trained(tx, row, ahead).total = Cardinality(prior \union ahead)
    BY <1>8c DEF Trained
  <2> HIDE DEF BadRows, Firsts, Recent
  <2>4. QED
    BY <1>5, <1>6, <1>8b, <2>1, <2>2, <2>3
<1>9. /\ Served(seen, t).count = Cardinality(Recent(Hours) \union {x})
      /\ Served(seen, t).failed = Cardinality(Bad(Recent(Hours)))
      /\ Served(seen, t).blocked = Cardinality(Bad(Recent(Days)))
      /\ Served(seen, t).total = Cardinality(Recent(Days) \union {x})
  BY <1>3 DEF Served, Blocks
<1>10. Recent(Hours) \in SUBSET S /\ Recent(Days) \in SUBSET S /\ S \in SUBSET S
  OBVIOUS
<1>11. (\A y \in Committed(tx) : tx[y].at + Days >= tx[x].at) => Recent(Days) = S
  OBVIOUS
<1> HIDE DEF Recent, Bad, Firsts, BadRows
<1>12. /\ Served(seen, t).count = Trained(tx, row, ahead).count + 1
       /\ Served(seen, t).failed = Trained(tx, row, ahead).failed
  BY <1>2, <1>7, <1>8, <1>9, <1>10
<1>13. Recent(Days) = S =>
         /\ Trained(tx, row, ahead).total + 1 = Served(seen, t).total + Cardinality(ahead)
         /\ Trained(tx, row, ahead).blocked = Served(seen, t).blocked + BlockedRows(tx, ahead)
  <2>1. Cardinality(Recent(Days) \union {x}) = Cardinality(Recent(Days)) + 1
    BY <1>2, <1>10
  <2>2. Cardinality(Firsts(S)) = Cardinality(S) /\ Cardinality(S) \in Nat
    BY <1>2, <1>10
  <2>3. Cardinality(BadRows(Firsts(S))) = Cardinality(Bad(S))
    BY <1>2, <1>7, <1>10
  <2>4. SUFFICES ASSUME Recent(Days) = S
                 PROVE  /\ Trained(tx, row, ahead).total + 1 = Served(seen, t).total + Cardinality(ahead)
                        /\ Trained(tx, row, ahead).blocked = Served(seen, t).blocked + BlockedRows(tx, ahead)
    OBVIOUS
  <2>5. /\ Trained(tx, row, ahead).total = Cardinality(S) + Cardinality(ahead)
        /\ Served(seen, t).total = Cardinality(S) + 1
    BY <1>8, <1>9, <2>1, <2>2, <2>4
  <2>6. Trained(tx, row, ahead).total + 1 = Served(seen, t).total + Cardinality(ahead)
    <3>1. Cardinality(S) \in Nat /\ Cardinality(ahead) \in Nat
      BY <1>8b, <2>2
    <3>2. \A a, b \in Nat : (a + b) + 1 = (a + 1) + b
      OBVIOUS
    <3>3. QED
      BY <2>5, <3>1, <3>2, Zenon
  <2>7. Trained(tx, row, ahead).blocked = Served(seen, t).blocked + BlockedRows(tx, ahead)
    BY <1>8, <1>9, <2>3, <2>4
  <2>8. QED
    BY <2>6, <2>7
<1>14. QED
  BY <1>11, <1>12, <1>13

LEMMA PictureSkew == SkewInv => SkewIsOne
<1>1. SUFFICES ASSUME SkewInv, NEW x \in Requests, ing[x].snap # <<>>, tx[x].status # "none",
                      Unchanged(x), NEW row \in Rows(tx, x), NEW ahead \in SUBSET Tied(tx, row)
               PROVE  LET served == Served(ing[x].snap[1], ing[x].snap[2])
                          trained == Trained(tx, row, ahead)
                      IN  /\ served.count = trained.count + 1 /\ served.failed = trained.failed
                          /\ (\A y \in Committed(tx) : tx[y].at + Days >= tx[x].at) =>
                               /\ trained.total + 1 = served.total + Cardinality(ahead)
                               /\ trained.blocked = served.blocked + BlockedRows(tx, ahead)
  BY DEF SkewIsOne
<1>2. /\ IngestTypeOK /\ tx \in Table /\ x \in Transactions /\ ing[x] \in Memory /\ Pictured(x)
      /\ \A y \in Transactions : Written(y)
  BY <1>1, OneTx DEF SkewInv, IngestInv, IngestTypeOK
<1>3. PICK seen \in Table, t \in Nat : ing[x].snap = <<seen, t>>
  BY <1>1, <1>2 DEF Memory
<1>4. ing[x].snap[1] = seen /\ ing[x].snap[2] = t
  BY <1>3
<1>5. /\ Committed(seen) \ {x} = {y \in Committed(tx) : tx[y].at < tx[x].at}
      /\ seen[x].status = "pending"
      /\ \A y \in Committed(seen) \ {x} : seen[y].status = tx[y].status /\ y \notin moved /\ ~Lost(y)
      /\ \A y \in Committed(tx) \ {x} : tx[y].at # tx[x].at
      /\ \A y \in Committed(seen) : \A window \in {Hours, Days} :
           tx[y].at + window >= tx[x].at => tx[y].at + window >= t
  BY <1>1, <1>4 DEF Unchanged
<1>6. \A y \in Committed(seen) : y \in Transactions /\ seen[y].at = tx[y].at /\ seen[y].at <= t
  BY <1>1, <1>2, <1>4 DEF Pictured, Committed, Table
<1>7. x \in Committed(seen)
  BY <1>2, <1>5 DEF Committed, Table
<1>8. ASSUME NEW y \in Committed(seen) \ {x}
      PROVE  tx[y].audits = <<>> \/ tx[y].audits = <<tx[y].status>>
  BY <1>2, <1>5, <1>6 DEF Written
<1> DEFINE S == Committed(seen) \ {x}
<1>9. /\ S = Committed(seen) \ {x} /\ S = {y \in Committed(tx) : tx[y].at < tx[x].at}
      /\ seen[x].at = tx[x].at /\ tx[x].at <= t
      /\ \A y \in S : /\ seen[y].status = tx[y].status /\ seen[y].at = tx[y].at
                      /\ tx[y].audits = <<>> \/ tx[y].audits = <<tx[y].status>>
  BY <1>5, <1>6, <1>7, <1>8
<1> HIDE DEF S
<1>10. LET served == Served(seen, t)
           trained == Trained(tx, row, ahead)
       IN  /\ served.count = trained.count + 1 /\ served.failed = trained.failed
           /\ (\A y \in Committed(tx) : tx[y].at + Days >= tx[x].at) =>
                /\ trained.total + 1 = served.total + Cardinality(ahead)
                /\ trained.blocked = served.blocked + BlockedRows(tx, ahead)
  <2>1. tx \in Table /\ x \in Transactions /\ Precedes(S, seen, t, x)
    BY <1>2, <1>5, <1>7, <1>9 DEF Precedes
  <2>2. QED
    BY <2>1, SkewOfOne
<1>11. QED
  BY <1>4, <1>10

(* Whatever is between a transaction's scoring and the export for training:*)
(* its features are served as every row of it will be trained on, except   *)
(* that they count the transaction itself, and that the merchant's risk of *)
(* a row counts the other rows of the same transaction that were sorted    *)
(* ahead of it, unless the transactions before it or their windows changed *)
(* (feature_queries.py, ml/feature_engineering.py).                        *)
THEOREM FeaturesSkewByOne == Spec => []SkewIsOne
  BY SkewInvInit, SkewInvNext, PictureSkew, PTL DEF Spec

=============================================================================
