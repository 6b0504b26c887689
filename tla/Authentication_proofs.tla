----------------------- MODULE Authentication_proofs ------------------------
(***************************************************************************)
(* Proofs about RateLimiter, for every finite set of callers, every limit  *)
(* and any number of Redis errors, and about Session, for every set of     *)
(* users and of requests, every number of pairs and of failed answers.     *)
(*                                                                         *)
(* The argument for RateLimiter: the key counts no more calls than were    *)
(* admitted, so nobody is refused early; and every SET that restarts the   *)
(* count uses up a caller that was waiting with it (OverrunInv).           *)
(*                                                                         *)
(* The argument for Session: the flag isRefreshing is up exactly while one *)
(* request refreshes (OneRefresh), so a queued request has somebody to     *)
(* wait for, or the page is being left (NobodyForgotten); nobody signs in  *)
(* while the page loads (LoadsAlone); and what a request asks about is a   *)
(* pair the server issued, for the user the page is about to show (Asks).  *)
(* From it, every step is one of RefreshQueue or a stutter (QueueStep).    *)
(***************************************************************************)
EXTENDS RateLimiter, Session, FiniteSetTheorems, TLAPS

(* The counter never runs ahead of the calls it counts.                    *)
KeyIsAdmitted == key <= admitted

(* Every step keeps the types. *)
LEMMA TypeStep == TypeOK /\ [WindowNext]_window => TypeOK'
<1> SUFFICES ASSUME TypeOK, [WindowNext]_window PROVE TypeOK'
  OBVIOUS
<1>1. ttl' \in BOOLEAN
  <2>1. ttl' \in {TRUE, FALSE} \/ UNCHANGED ttl
    BY Zenon DEF WindowNext, WindowEnds, Check, Open, Count, Refuse, RedisFails, window
  <2>2. QED
    BY <2>1, Zenon DEF TypeOK
<1>2. pc' \in [Callers -> {"idle", "set", "incr", "refused"}]
  BY DEF TypeOK, WindowNext, WindowEnds, Check, Open, Count, Refuse, RedisFails, Goto, window
<1>3. key' \in Nat /\ admitted' \in Nat /\ failures' \in Nat
  BY DEF TypeOK, WindowNext, WindowEnds, Check, Open, Count, Refuse, RedisFails, window
<1>4. QED
  BY <1>1, <1>2, <1>3 DEF TypeOK

(* The initial state has them. *)
LEMMA TypeInit == WindowInit => TypeOK
<1> SUFFICES ASSUME WindowInit PROVE TypeOK
  OBVIOUS
<1>1. ttl \in BOOLEAN
  BY Zenon DEF WindowInit
<1>2. QED
  BY <1>1 DEF WindowInit, TypeOK

(* The key never runs ahead of the calls it counts. *)
LEMMA CountStep == TypeOK /\ KeyIsAdmitted /\ [WindowNext]_window => KeyIsAdmitted'
  BY DEF TypeOK, KeyIsAdmitted, WindowNext, WindowEnds, Check, Open, Count, Refuse,
         RedisFails, window

(* Every reachable state has the declared types.                           *)
THEOREM TypeCorrect == WindowSpec => []TypeOK
  BY TypeInit, TypeStep, PTL DEF WindowSpec

(* Nobody is refused before max_requests calls of the window have been     *)
(* admitted: the key that refuses a caller never runs ahead of the calls.  *)
THEOREM NobodyRefusedEarly == WindowSpec => RefusedOnlyWhenFull
<1>1. WindowInit => TypeOK /\ KeyIsAdmitted
  BY TypeInit DEF WindowInit, KeyIsAdmitted
<1>2. TypeOK /\ KeyIsAdmitted /\ [WindowNext]_window
        => [\A c \in Callers :
              (pc[c] # "refused" /\ pc'[c] = "refused") => admitted >= MaxRequests]_window
  <2> SUFFICES ASSUME TypeOK, KeyIsAdmitted, WindowNext, NEW c \in Callers,
                      pc[c] # "refused", pc'[c] = "refused"
               PROVE  admitted >= MaxRequests
    OBVIOUS
  <2> USE DEF TypeOK
  <2>1. PICK d \in Callers : pc' = [pc EXCEPT ![d] = "refused"] /\ key >= MaxRequests
    BY DEF WindowNext, WindowEnds, Check, Open, Count, Refuse, RedisFails, Goto
  <2>2. QED
    BY <2>1, MaxRequestsAssumption DEF KeyIsAdmitted
<1>3. QED
  BY <1>1, <1>2, TypeStep, CountStep, PTL DEF WindowSpec, RefusedOnlyWhenFull

-----------------------------------------------------------------------------
(* How far concurrent callers exceed the limit. *)

(* The callers about to execute a command.                                 *)
At(step) == {c \in Callers : pc[c] = step}
Sets == Cardinality(At("set"))
Incrs == Cardinality(At("incr"))

(* The callers that do not hold a SET, and what they may have added.       *)
Free == Cardinality(Callers) - Sets
Overrun(n) == 2 * (n - 1) * (MaxRequests - 1) + (n - 1) * n

(* Every pending INCR was let through below the limit, and every SET that  *)
(* has restarted the count used up a caller that was waiting with it.      *)
OverrunInv ==
    IF key = 0 THEN admitted = 0
    ELSE /\ key + Incrs <= MaxRequests - 1 + Free
         /\ 2 * admitted <= 2 * key + Overrun(Free)

(* The callers at one step are finitely many.                              *)
LEMMA AtFinite ==
    ASSUME NEW step
    PROVE  /\ IsFiniteSet(At(step))
           /\ Cardinality(At(step)) \in Nat
  BY CallersAssumption, FS_Subset, FS_CardinalityType DEF At

(* Those that hold a command are different callers. *)
Holders == At("set") \union At("incr")

(* There are as many holders as pending SETs and INCRs together.           *)
LEMMA HoldersCount ==
    /\ Holders \subseteq Callers
    /\ IsFiniteSet(Holders)
    /\ Sets \in Nat /\ Incrs \in Nat
    /\ Cardinality(Holders) = Sets + Incrs
<1>1. Cardinality(At("set") \intersect At("incr")) = 0
  <2>1. At("set") \intersect At("incr") = {}
    BY DEF At
  <2>2. QED
    BY <2>1, FS_EmptySet
<1>2. Cardinality(Holders) = Sets + Incrs - Cardinality(At("set") \intersect At("incr"))
  BY AtFinite, FS_Union DEF Holders, Sets, Incrs
<1>3. Sets \in Nat /\ Incrs \in Nat
  BY AtFinite DEF Sets, Incrs
<1>4. Holders \subseteq Callers
  BY DEF Holders, At
<1>5. QED
  BY <1>1, <1>2, <1>3, <1>4, CallersAssumption, FS_Subset

(* There are no more of them than callers... *)
LEMMA Counts ==
    /\ Cardinality(Callers) \in Nat
    /\ Sets \in Nat /\ Incrs \in Nat
    /\ Sets + Incrs <= Cardinality(Callers)
  BY HoldersCount, CallersAssumption, FS_Subset, FS_CardinalityType

(* ... and a caller that holds neither is one more. *)
LEMMA OneMore ==
    ASSUME NEW c \in Callers, pc[c] \notin {"set", "incr"}
    PROVE  Sets + Incrs + 1 <= Cardinality(Callers)
<1>1. c \notin Holders /\ Holders \union {c} \subseteq Callers
  BY DEF Holders, At
<1>2. Cardinality(Holders \union {c}) = Sets + Incrs + 1
  BY <1>1, HoldersCount, FS_AddElement
<1>3. QED
  BY <1>1, <1>2, CallersAssumption, FS_Subset

(* A caller that moves leaves one step and enters another.                 *)
LEMMA Moving ==
    ASSUME TypeOK, NEW c \in Callers, NEW to, Goto(c, to), NEW step
    PROVE  Cardinality(At(step)') =
             IF pc[c] = step /\ to # step THEN Cardinality(At(step)) - 1
             ELSE IF pc[c] # step /\ to = step THEN Cardinality(At(step)) + 1
             ELSE Cardinality(At(step))
<1>1. CASE pc[c] = step /\ to # step
  <2>1. At(step)' = At(step) \ {c} /\ c \in At(step)
    BY <1>1 DEF At, Goto, TypeOK
  <2>2. QED
    BY <1>1, <2>1, AtFinite, FS_RemoveElement
<1>2. CASE pc[c] # step /\ to = step
  <2>1. At(step)' = At(step) \union {c} /\ c \notin At(step)
    BY <1>2 DEF At, Goto, TypeOK
  <2>2. QED
    BY <1>2, <2>1, AtFinite, FS_AddElement
<1>3. CASE (pc[c] = step) <=> (to = step)
  <2>1. At(step)' = At(step)
    BY <1>3 DEF At, Goto, TypeOK
  <2>2. QED
    BY <1>3, <2>1
<1>4. QED
  BY <1>1, <1>2, <1>3

(* One caller more adds the limit and another slot for every caller.       *)
LEMMA OverrunGrows ==
    ASSUME NEW n \in Nat
    PROVE  /\ Overrun(n) \in Int
           /\ Overrun(n + 1) = Overrun(n) + 2 * (MaxRequests - 1) + 2 * n
           /\ n > 0 => Overrun(n) >= 0
  <1> DEFINE M == MaxRequests - 1
  <1>1. M \in Nat /\ Overrun(n) = 2 * (n - 1) * M + (n - 1) * n
        /\ Overrun(n + 1) = 2 * (n + 1 - 1) * M + (n + 1 - 1) * (n + 1)
    BY MaxRequestsAssumption DEF Overrun
  <1> HIDE DEF M
  <1>2. n * M \in Nat /\ n * n \in Nat
    BY <1>1
  <1>3. /\ 2 * (n - 1) * M = 2 * (n * M) - 2 * M
        /\ (n - 1) * n = n * n - n
        /\ 2 * (n + 1 - 1) * M = 2 * (n * M)
        /\ (n + 1 - 1) * (n + 1) = n * n + n
    BY <1>1
  <1>4. n > 0 => n * M >= M /\ n * n >= n
    BY <1>1
  <1>5. QED
    BY <1>1, <1>2, <1>3, <1>4 DEF M

(* A caller that gives up its command leaves room. *)
LEMMA OverrunMonotone ==
    ASSUME NEW n \in Nat
    PROVE  Overrun(n) <= Overrun(n + 1)
  BY OverrunGrows, MaxRequestsAssumption

(* The invariant holds initially. *)
LEMMA OverrunInit == WindowInit => OverrunInv
  BY DEF WindowInit, OverrunInv

(* Every step preserves it: an INCR or SET that lands moves its caller     *)
(* from the pending ones to the admitted, an admission adds one holder.    *)
LEMMA OverrunStep == TypeOK /\ OverrunInv /\ [WindowNext]_window => OverrunInv'
<1> SUFFICES ASSUME TypeOK, OverrunInv, [WindowNext]_window PROVE OverrunInv'
  OBVIOUS
<1>0. /\ key \in Nat /\ admitted \in Nat
      /\ MaxRequests \in Nat /\ MaxRequests > 0
      /\ Cardinality(Callers) \in Nat
      /\ Sets \in Nat /\ Incrs \in Nat /\ Free \in Nat
      /\ Incrs <= Free
      /\ Sets + Free = Cardinality(Callers)
  BY Counts, MaxRequestsAssumption DEF TypeOK, Free
<1>1. CASE WindowEnds
  BY <1>1 DEF WindowEnds, OverrunInv
<1>2. ASSUME UNCHANGED <<key, pc, admitted>>
      PROVE  OverrunInv'
  <2>1. Sets' = Sets /\ Incrs' = Incrs
    BY <1>2 DEF Sets, Incrs, At
  <2>2. QED
    BY <1>2, <2>1 DEF OverrunInv, Free, Overrun
<1>3. ASSUME NEW c \in Callers, Check(c)
      PROVE  OverrunInv'
  <2>0. UNCHANGED <<key, admitted>> /\ pc[c] = "idle"
    BY <1>3 DEF Check
  <2>1. CASE key = 0
    BY <2>0, <2>1 DEF OverrunInv
  <2>2. CASE key > 0 /\ Goto(c, "refused")
    <3>1. Sets' = Sets /\ Incrs' = Incrs
      BY <2>0, <2>2, Moving DEF Sets, Incrs
    <3>2. Free' = Free
      BY <3>1 DEF Free
    <3>3. QED
      BY <2>0, <3>1, <3>2 DEF OverrunInv, Overrun
  <2>3. CASE key \in 1..(MaxRequests - 1) /\ Goto(c, "incr")
    <3>1. Sets' = Sets /\ Incrs' = Incrs + 1
      BY <2>0, <2>3, Moving DEF Sets, Incrs
    <3>2. Free' = Free /\ Overrun(Free)' = Overrun(Free)
      BY <3>1 DEF Free, Overrun
    <3>3. Incrs' <= Free
      BY <1>0, <2>0, <3>1, OneMore
    <3>4. QED
      BY <1>0, <2>0, <2>3, <3>1, <3>2, <3>3 DEF OverrunInv
  <2>4. QED
    BY <1>0, <1>3, <2>1, <2>2, <2>3 DEF Check
<1>4. ASSUME NEW c \in Callers, Open(c)
      PROVE  OverrunInv'
  <2>1. key' = 1 /\ admitted' = admitted + 1 /\ Goto(c, "idle") /\ pc[c] = "set"
    BY <1>4 DEF Open
  <2>2. Sets' = Sets - 1 /\ Incrs' = Incrs
    BY <2>1, Moving DEF Sets, Incrs
  <2>3. Free' = Free + 1 /\ Overrun(Free)' = Overrun(Free + 1)
    BY <1>0, <2>2 DEF Free, Overrun
  <2>4. /\ Overrun(Free) \in Int
        /\ Overrun(Free + 1) = Overrun(Free) + 2 * (MaxRequests - 1) + 2 * Free
    BY <1>0, OverrunGrows
  <2>5. Overrun(Free + 1) >= 0
    <3>1. Free + 1 \in Nat /\ Free + 1 > 0
      BY <1>0
    <3>2. QED
      BY <3>1, OverrunGrows
  <2>6. QED
    BY <1>0, <2>1, <2>2, <2>3, <2>4, <2>5 DEF OverrunInv
<1>5. ASSUME NEW c \in Callers, Count(c)
      PROVE  OverrunInv'
  <2>1. key' = key + 1 /\ admitted' = admitted + 1 /\ Goto(c, "idle") /\ pc[c] = "incr"
    BY <1>5 DEF Count
  <2>2. Sets' = Sets /\ Incrs' = Incrs - 1
    BY <2>1, Moving DEF Sets, Incrs
  <2>3. Free' = Free /\ Overrun(Free)' = Overrun(Free)
    BY <2>2 DEF Free, Overrun
  <2>4. Incrs > 0
    <3>1. At("incr") # {}
      BY <1>5, <2>1 DEF At
    <3>2. QED
      BY <1>0, <3>1, AtFinite, FS_EmptySet DEF Incrs
  <2>5. Overrun(Free) \in Int /\ Overrun(Free) >= 0
    BY <1>0, <2>4, OverrunGrows
  <2>6. QED
    BY <1>0, <2>1, <2>2, <2>3, <2>4, <2>5 DEF OverrunInv
<1>6. ASSUME NEW c \in Callers, Refuse(c)
      PROVE  OverrunInv'
  <2>1. UNCHANGED <<key, admitted>> /\ Goto(c, "idle") /\ pc[c] = "refused"
    BY <1>6 DEF Refuse
  <2>2. Sets' = Sets /\ Incrs' = Incrs
    BY <2>1, Moving DEF Sets, Incrs
  <2>3. QED
    BY <2>1, <2>2 DEF OverrunInv, Free, Overrun
<1>7. ASSUME NEW c \in Callers, RedisFails(c)
      PROVE  OverrunInv'
  <2>1. UNCHANGED <<key, admitted>> /\ Goto(c, "idle") /\ pc[c] \in {"set", "incr"}
    BY <1>7 DEF RedisFails
  <2>2. CASE pc[c] = "set"
    <3>1. Sets' = Sets - 1 /\ Incrs' = Incrs
      BY <2>1, <2>2, Moving DEF Sets, Incrs
    <3>2. Free' = Free + 1 /\ Overrun(Free)' = Overrun(Free + 1)
      BY <1>0, <3>1 DEF Free, Overrun
    <3>3. Overrun(Free) <= Overrun(Free + 1)
          /\ Overrun(Free) \in Int /\ Overrun(Free + 1) \in Int
      BY <1>0, OverrunMonotone, OverrunGrows
    <3>4. QED
      BY <1>0, <2>1, <3>1, <3>2, <3>3 DEF OverrunInv
  <2>3. CASE pc[c] = "incr"
    <3>1. Sets' = Sets /\ Incrs' = Incrs - 1
      BY <2>1, <2>3, Moving DEF Sets, Incrs
    <3>2. Free' = Free /\ Overrun(Free)' = Overrun(Free)
      BY <3>1 DEF Free, Overrun
    <3>3. QED
      BY <1>0, <2>1, <3>1, <3>2 DEF OverrunInv
  <2>4. QED
    BY <2>1, <2>2, <2>3
<1>8. QED
  BY <1>1, <1>2, <1>3, <1>4, <1>5, <1>6, <1>7 DEF WindowNext, window

(* However its callers interleave, a window admits at most as many calls   *)
(* as WindowBound says.                                                    *)
THEOREM WindowBounded == WindowSpec => []WindowBound
<1>1. TypeOK /\ OverrunInv => WindowBound
  <2> SUFFICES ASSUME TypeOK, OverrunInv PROVE WindowBound
    OBVIOUS
  <2> DEFINE N == Cardinality(Callers)
             M == MaxRequests - 1
  <2>1. /\ key \in Nat /\ admitted \in Nat
        /\ M \in Nat /\ N \in Nat
        /\ Incrs \in Nat /\ Free \in Nat /\ Free <= N
    BY Counts, MaxRequestsAssumption DEF TypeOK, Free
  <2>2. 2 * admitted <= 2 * Free * M + Free * (Free + 1)
    <3>1. Overrun(Free + 1) = 2 * Free * M + Free * (Free + 1)
      BY <2>1 DEF Overrun
    <3>2. /\ Overrun(Free) \in Int
          /\ Overrun(Free + 1) = Overrun(Free) + 2 * M + 2 * Free
          /\ Overrun(Free + 1) >= 0
      <4>1. Free + 1 \in Nat /\ Free + 1 > 0
        BY <2>1
      <4>2. QED
        BY <2>1, <4>1, OverrunGrows
    <3>3. 2 * admitted <= Overrun(Free + 1)
      <4>1. key > 0 => key <= M + Free /\ 2 * admitted <= 2 * key + Overrun(Free)
        BY <2>1 DEF OverrunInv
      <4>2. key = 0 => admitted = 0
        BY DEF OverrunInv
      <4> HIDE DEF M
      <4>3. QED
        BY <2>1, <3>2, <4>1, <4>2
    <3>4. QED
      BY <3>1, <3>3
  <2>3. 2 * Free * M <= 2 * N * M /\ Free * (Free + 1) <= N * (N + 1)
    <3> HIDE DEF N, M
    <3>1. Free * M <= N * M /\ Free * Free <= N * N
      BY <2>1
    <3>2. QED
      BY <2>1, <3>1
  <2>4. /\ 2 * Free * M \in Int /\ 2 * N * M \in Int
        /\ Free * (Free + 1) \in Int /\ N * (N + 1) \in Int
    <3> HIDE DEF N, M
    <3> QED  BY <2>1
  <2>5. 2 * admitted <= 2 * N * M + N * (N + 1)
    <3> HIDE DEF N, M
    <3> QED  BY <2>1, <2>2, <2>3, <2>4
  <2>6. QED
    BY <2>5 DEF WindowBound
<1>2. QED
  BY <1>1, TypeInit, TypeStep, OverrunInit, OverrunStep, PTL DEF WindowSpec

-----------------------------------------------------------------------------
(* The browser's session.                                                  *)

Request == [st : {"idle", "sent", "inserting", "queued", "refreshing"},
            kind : {"call", "login", "register", "me", "load"},
            pair : Nat, retry : BOOLEAN, who : Users \union {Nobody}]

Causes == {"halfway", "replaced", "overtaken"}

SessionTypeOK ==
    /\ owner \in Seq(Users) /\ accounts \subseteq Users
    /\ store \in 0..Len(owner) /\ expired \in Nat /\ lapsed \in Nat
    /\ page \in {"up", "leaving"} /\ isRefreshing \in BOOLEAN
    /\ shown \in Users \union {Nobody} /\ blame \subseteq Causes
    /\ req \in [Requests -> Request]
    /\ errors \in Nat /\ elsewhere \in Nat

Refreshing(r) == req[r].st = "refreshing"

OneRefresh ==
    /\ isRefreshing = TRUE =>
         \E r \in Requests : Refreshing(r) /\ \A q \in Requests : Refreshing(q) => q = r
    /\ isRefreshing = FALSE => \A r \in Requests : ~Refreshing(r)

NobodyForgotten ==
    \A r \in Requests : req[r].st = "queued" => isRefreshing = TRUE \/ page = "leaving"

\* The page is asked about first, and then by nobody who signs in.
LoadsAlone ==
    req["page"].kind = "load" => \A r \in Requests \ {"page"} : req[r].kind = "call"

\* While the page loads, it shows nobody, and the pair it asks about is the store's
\* owner's.
Asks(r) ==
    /\ req[r].pair <= Len(owner)
    /\ req[r].st = "idle" => req[r].kind = "call"
    /\ req[r].st = "inserting" => req[r].kind = "register"
    /\ req[r].kind = "register" => req[r].who \in Users
    /\ req[r].kind = "load" => r = "page" /\ shown = Nobody
    /\ req[r].kind = "load" /\ page = "up" /\ blame = {} =>
         store # NoPair /\ req[r].pair # NoPair /\ owner[req[r].pair] = owner[store]

SessionInv ==
    /\ SessionTypeOK /\ OneRefresh /\ NobodyForgotten /\ LoadsAlone
    /\ \A r \in Requests : Asks(r)
    /\ ShownOwnsTokens

LEMMA PageIsRequest == "page" \in Requests /\ SignIns \subseteq Requests /\ "page" \notin SignIns
  BY SessionAssumption DEF Requests

\* One request changes, and no other begins to load.
LEMMA AloneKeeps ==
    ASSUME SessionInv, NEW r \in Requests, NEW q, req'[r] = q,
           \A s \in Requests \ {r} : req'[s] = req[s],
           \/ q.kind \in {"call", req[r].kind}
           \/ q.kind # "load" /\ (r = "page" \/ req["page"].kind # "load")
    PROVE  LoadsAlone'
<1>1. "page" \in Requests /\ LoadsAlone
  BY PageIsRequest DEF SessionInv
<1>2. CASE r = "page"
  BY <1>1, <1>2 DEF LoadsAlone
<1>3. CASE r # "page"
  BY <1>1, <1>3 DEF LoadsAlone
<1>4. QED
  BY <1>2, <1>3

\* A pair that is in the list has an owner; one more pair leaves the others alone.
LEMMA OwnersOfPairs ==
    ASSUME SessionTypeOK
    PROVE  /\ Len(owner) \in Nat
           /\ \A p \in 1..Len(owner) : owner[p] \in Users
           /\ \A u \in Users : /\ Append(owner, u) \in Seq(Users)
                               /\ Len(Append(owner, u)) = Len(owner) + 1
                               /\ Append(owner, u)[Len(owner) + 1] = u
                               /\ \A p \in 1..Len(owner) : Append(owner, u)[p] = owner[p]
  BY DEF SessionTypeOK

LEMMA OneRecord ==
    ASSUME SessionInv, NEW r \in Requests, NEW q \in Request, req' = [req EXCEPT ![r] = q]
    PROVE  /\ req' \in [Requests -> Request] /\ req'[r] = q
           /\ \A s \in Requests \ {r} : req'[s] = req[s]
  BY DEF SessionInv, SessionTypeOK

LEMMA IdleRequest == Idle \in Request /\ Idle.st = "idle" /\ Idle.kind = "call" /\ Idle.pair = 0
  BY DEF Idle, Request, NoPair

\* The record q replaces takes no part in a refresh, before or after.
LEMMA RequestKeeps ==
    ASSUME SessionInv, NEW r \in Requests, NEW q \in Request, req' = [req EXCEPT ![r] = q],
           UNCHANGED <<store, page, isRefreshing, shown, accounts, owner, expired, lapsed, blame>>,
           errors' \in Nat, elsewhere' \in Nat,
           req[r].st # "refreshing", q.st # "refreshing",
           q.st = "queued" => isRefreshing = TRUE,
           q.pair <= Len(owner), q.st = "idle" => q.kind = "call",
           \/ q.kind \in {"call", req[r].kind}
           \/ q.kind # "load" /\ (r = "page" \/ req["page"].kind # "load"),
           q.st = "inserting" => q.kind = "register",
           q.kind = "register" => q.who \in Users,
           q.kind = "load" => q.kind = req[r].kind /\ q.pair = req[r].pair
    PROVE  SessionInv'
<1>1. req' \in [Requests -> Request] /\ req'[r] = q /\ \A s \in Requests \ {r} : req'[s] = req[s]
  BY OneRecord
<1>2. SessionTypeOK'
  BY <1>1 DEF SessionInv, SessionTypeOK
<1>3. \A s \in Requests : Refreshing(s)' <=> Refreshing(s)
  BY <1>1 DEF Refreshing
<1>4. OneRefresh'
  BY <1>3 DEF SessionInv, OneRefresh
<1>5. NobodyForgotten'
  BY <1>1 DEF SessionInv, NobodyForgotten
<1>6. ASSUME NEW s \in Requests PROVE Asks(s)'
  <2>1. Asks(s)
    BY DEF SessionInv
  <2>2. CASE s = r
    BY <1>1, <2>1, <2>2 DEF Asks
  <2>3. CASE s # r
    BY <1>1, <2>1, <2>3 DEF Asks
  <2>4. QED
    BY <2>2, <2>3
<1>7. ShownOwnsTokens'
  BY DEF SessionInv, ShownOwnsTokens
<1>8. LoadsAlone'
  BY <1>1, AloneKeeps
<1>9. QED
  BY <1>2, <1>4, <1>5, <1>6, <1>7, <1>8 DEF SessionInv

LEMMA CallKeeps == ASSUME SessionInv, NEW r \in Calls, Call(r) PROVE SessionInv'
<1>1. r \in Requests /\ SessionTypeOK /\ Len(owner) \in Nat
  BY OwnersOfPairs DEF Requests, SessionInv
<1>2. Send("call", Nobody) \in Request /\ Send("call", Nobody).st = "sent"
      /\ Send("call", Nobody).kind = "call" /\ Send("call", Nobody).pair = store
  BY <1>1 DEF Send, Request, SessionTypeOK
<1>3. /\ req' = [req EXCEPT ![r] = Send("call", Nobody)] /\ req[r].st # "refreshing"
      /\ UNCHANGED <<store, page, isRefreshing, shown, accounts, owner, expired, lapsed, blame>>
      /\ errors' \in Nat /\ elsewhere' \in Nat
  BY <1>1 DEF Call, server, bounds, SessionTypeOK
<1>4. store <= Len(owner)
  BY <1>1 DEF SessionTypeOK
<1> HIDE DEF Send
<1>5. QED
  BY <1>1, <1>2, <1>3, <1>4, RequestKeeps

LEMMA SubmitKeeps ==
    ASSUME SessionInv, NEW f \in SignIns, NEW u \in Users,
           NEW kind \in {"login", "register"}, Submit(f, kind, u)
    PROVE  SessionInv'
<1>1. f \in Requests /\ "page" \in Requests /\ SessionTypeOK /\ Len(owner) \in Nat
  BY OwnersOfPairs, PageIsRequest DEF SessionInv
<1> DEFINE q == Send(kind, u)
<1>2. q \in Request /\ q.st = "sent" /\ q.kind = kind /\ q.pair = NoPair /\ q.who = u
  BY <1>1, SessionAssumption DEF Send, Request, SessionTypeOK, NoPair, Nobody
<1>3. /\ req' = [req EXCEPT ![f] = q] /\ req[f].st # "refreshing"
      /\ UNCHANGED <<store, page, isRefreshing, shown, accounts, owner, expired, lapsed, blame>>
      /\ errors' \in Nat /\ elsewhere' \in Nat
      /\ kind = "register" => u \in Users
  BY <1>1 DEF Submit, server, bounds, SessionTypeOK
<1>4. NoPair <= Len(owner)
  BY <1>1 DEF NoPair
<1>5. req["page"].kind # "load"
  BY <1>1 DEF Submit, SessionInv, Asks
<1> HIDE DEF q
<1>6. q.kind # "load"
  BY <1>2
<1>7. QED
  BY <1>1, <1>2, <1>3, <1>4, <1>5, <1>6, RequestKeeps

\* A request that ends without taking part in a refresh.
LEMMA IdlesKeeps ==
    ASSUME SessionInv, NEW r \in Requests, req' = [req EXCEPT ![r] = Idle],
           UNCHANGED <<store, page, isRefreshing, shown, accounts, owner, expired, lapsed, blame>>,
           errors' \in Nat, elsewhere' \in Nat, req[r].st # "refreshing"
    PROVE  SessionInv'
<1>1. Len(owner) \in Nat
  BY OwnersOfPairs DEF SessionInv
<1>2. \A q \in Request : q = Idle => SessionInv'
  <2>1. SUFFICES ASSUME NEW q \in Request, q = Idle PROVE SessionInv'
    OBVIOUS
  <2>2. /\ req' = [req EXCEPT ![r] = q] /\ q.st = "idle" /\ q.kind = "call"
        /\ q.pair <= Len(owner)
    BY <1>1, <2>1, IdleRequest
  <2>3. QED
    BY <2>2, RequestKeeps
<1>3. QED
  BY <1>2, IdleRequest

LEMMA CallAnsweredKeeps == ASSUME SessionInv, NEW r \in Requests, CallAnswered(r) PROVE SessionInv'
<1>1. /\ UNCHANGED <<store, page, isRefreshing, shown, accounts, owner, expired, lapsed, blame>>
      /\ errors' \in Nat /\ elsewhere' \in Nat /\ req[r].st # "refreshing"
      /\ req' = [req EXCEPT ![r] = Idle]
  BY DEF CallAnswered, server, bounds, SessionInv, SessionTypeOK
<1>2. QED
  BY <1>1, IdlesKeeps

LEMMA RegisterLooksKeeps == ASSUME SessionInv, NEW r \in Requests, RegisterLooks(r) PROVE SessionInv'
<1>1. /\ UNCHANGED <<store, page, isRefreshing, shown, accounts, owner, expired, lapsed, blame>>
      /\ errors' \in Nat /\ elsewhere' \in Nat
      /\ req[r].st = "sent" /\ req[r].kind = "register"
      /\ req' = [req EXCEPT ![r] = IF @.who \in accounts THEN Idle ELSE [@ EXCEPT !.st = "inserting"]]
  BY DEF RegisterLooks, server, bounds, SessionInv, SessionTypeOK
<1>2. CASE req' = [req EXCEPT ![r] = Idle]
  BY <1>1, <1>2, IdlesKeeps
<1>3. CASE req' = [req EXCEPT ![r] = [req[r] EXCEPT !.st = "inserting"]]
  <2> DEFINE q == [req[r] EXCEPT !.st = "inserting"]
  <2>1. req[r] \in Request /\ Asks(r)
    BY DEF SessionInv, SessionTypeOK
  <2>2. q \in Request /\ q.st = "inserting" /\ q.kind = req[r].kind /\ q.pair = req[r].pair
        /\ q.who = req[r].who
    BY <2>1 DEF Request
  <2> HIDE DEF q
  <2>3. req' = [req EXCEPT ![r] = q]
    BY <1>3 DEF q
  <2>4. q.pair <= Len(owner) /\ q.who \in Users
    BY <1>1, <2>1, <2>2 DEF Asks
  <2>5. QED
    BY <1>1, <2>2, <2>3, <2>4, RequestKeeps
<1>4. QED
  BY <1>1, <1>2, <1>3

\* A rejected request ends, and if it was the page's loading, the page is signed out.
LEMMA RejectKeeps ==
    ASSUME SessionInv, NEW r \in Requests, Reject(r), req[r].st # "refreshing",
           UNCHANGED <<isRefreshing, accounts, owner, expired, lapsed>>,
           errors' \in Nat, elsewhere' \in Nat
    PROVE  SessionInv'
<1>1. CASE req[r].kind # "load"
  BY <1>1, IdlesKeeps DEF Reject
<1>2. CASE req[r].kind = "load"
  <2>1. /\ UNCHANGED <<page, shown, blame>> /\ store' = NoPair /\ req' = [req EXCEPT ![r] = Idle]
        /\ r = "page" /\ shown = Nobody
    BY <1>2 DEF Reject, SessionInv, Asks
  <2>2. /\ req' \in [Requests -> Request] /\ req'[r] = Idle
        /\ \A s \in Requests \ {r} : req'[s] = req[s]
    BY <2>1, OneRecord, IdleRequest
  <2>3. SessionTypeOK'
    BY <2>1, <2>2, OwnersOfPairs DEF SessionInv, SessionTypeOK, NoPair
  <2>4. \A s \in Requests : Refreshing(s)' <=> Refreshing(s)
    BY <2>2, IdleRequest DEF Refreshing
  <2>5. OneRefresh'
    BY <2>4 DEF SessionInv, OneRefresh
  <2>6. NobodyForgotten'
    BY <2>1, <2>2, IdleRequest DEF SessionInv, NobodyForgotten
  <2>7. ASSUME NEW s \in Requests PROVE Asks(s)'
    <3>1. Asks(s) /\ Len(owner) \in Nat
      BY OwnersOfPairs DEF SessionInv
    <3>2. CASE s = r
      BY <2>1, <2>2, <3>1, <3>2, IdleRequest DEF Asks
    <3>3. CASE s # r
      BY <2>1, <2>2, <3>1, <3>3 DEF Asks
    <3>4. QED
      BY <3>2, <3>3
  <2>8. ShownOwnsTokens'
    BY <2>1 DEF ShownOwnsTokens
  <2>9. LoadsAlone'
    BY <2>2, IdleRequest, AloneKeeps
  <2>10. QED
    BY <2>3, <2>5, <2>6, <2>7, <2>8, <2>9 DEF SessionInv
<1>3. QED
  BY <1>1, <1>2

\* GET /auth/me is answered: the page shows whose pair it asked with.
LEMMA MeAnsweredKeeps == ASSUME SessionInv, NEW r \in Requests, MeAnswered(r) PROVE SessionInv'
<1>1. /\ SessionTypeOK /\ Asks(r) /\ req[r] \in Request /\ req[r].st = "sent"
      /\ req[r].kind \in {"me", "load"} /\ LoadsAlone
      /\ req[r].pair \in 1..Len(owner)
  <2>1. SessionTypeOK /\ Asks(r) /\ req[r] \in Request /\ LoadsAlone
    BY DEF SessionInv, SessionTypeOK
  <2>2. req[r].st = "sent" /\ req[r].kind \in {"me", "load"} /\ req[r].pair > expired
    BY DEF MeAnswered, Accepted
  <2>3. req[r].pair \in Nat /\ expired \in Nat /\ Len(owner) \in Nat
    BY <2>1, OwnersOfPairs DEF Request, SessionTypeOK
  <2>4. QED
    BY <2>1, <2>2, <2>3 DEF Asks
<1>2. /\ UNCHANGED <<store, page, isRefreshing, accounts, owner, expired, lapsed, errors, elsewhere>>
      /\ req' = [req EXCEPT ![r] = Idle]
      /\ shown' = owner[req[r].pair]
      /\ req[r].pair = store => blame' = {}
      /\ req[r].pair # store /\ req[r].kind = "me" => blame' = {"overtaken"}
      /\ req[r].pair # store /\ req[r].kind # "me" => blame' = blame
  BY DEF MeAnswered, server, bounds
<1>3. req' \in [Requests -> Request] /\ req'[r] = Idle /\ \A s \in Requests \ {r} : req'[s] = req[s]
  BY <1>2, OneRecord, IdleRequest
<1>4. owner[req[r].pair] \in Users
  BY <1>1, OwnersOfPairs
<1>4a. blame' \subseteq Causes
  BY <1>1, <1>2 DEF SessionTypeOK, Causes
<1>5. SessionTypeOK'
  BY <1>1, <1>2, <1>3, <1>4, <1>4a DEF SessionTypeOK
<1>5a. LoadsAlone' /\ \A s \in Requests : req'[s].kind # "load"
  <2>1. LoadsAlone'
    BY <1>3, IdleRequest, AloneKeeps
  <2>2. ASSUME NEW s \in Requests, req'[s].kind = "load" PROVE FALSE
    <3>1. s # r /\ req[s].kind = "load" /\ s = "page"
      BY <1>3, <2>2, IdleRequest DEF SessionInv, Asks
    <3>2. req[r].kind = "call"
      BY <1>1, <3>1 DEF LoadsAlone
    <3>3. QED
      BY <1>1, <3>2
  <2>3. QED
    BY <2>1, <2>2
<1>6. \A s \in Requests : Refreshing(s)' <=> Refreshing(s)
  BY <1>1, <1>3, IdleRequest DEF Refreshing
<1>7. OneRefresh'
  BY <1>2, <1>6 DEF SessionInv, OneRefresh
<1>8. NobodyForgotten'
  BY <1>2, <1>3, IdleRequest DEF SessionInv, NobodyForgotten
<1>9. ASSUME NEW s \in Requests PROVE Asks(s)'
  <2>1. Asks(s) /\ Len(owner) \in Nat
    BY <1>1, OwnersOfPairs DEF SessionInv
  <2>2. CASE s = r
    BY <1>2, <1>3, <2>1, <2>2, IdleRequest DEF Asks
  <2>3. CASE s # r
    <3>1. req'[s] = req[s] /\ req'[s].kind # "load"
      BY <1>3, <1>5a, <2>3
    <3>2. QED
      BY <1>2, <2>1, <3>1 DEF Asks
  <2>4. QED
    BY <2>2, <2>3
<1>10. ShownOwnsTokens'
  <2>1. SUFFICES ASSUME page = "up", blame' = {} PROVE store # NoPair /\ owner[store] = shown'
    BY <1>2 DEF ShownOwnsTokens
  <2>2. CASE req[r].pair = store
    BY <1>1, <1>2, <2>2, OwnersOfPairs DEF NoPair
  <2>3. CASE req[r].pair # store
    <3>1. req[r].kind = "load" /\ blame = {}
      BY <1>1, <1>2, <2>1, <2>3
    <3>2. QED
      BY <1>1, <1>2, <2>1, <3>1 DEF Asks
  <2>4. QED
    BY <2>2, <2>3
<1>11. QED
  BY <1>5, <1>5a, <1>7, <1>8, <1>9, <1>10 DEF SessionInv

\* New tokens: until the page knows whose they are, it is halfway signed in.
LEMMA SignInKeeps ==
    ASSUME SessionInv, NEW r \in Requests, req[r].kind \in {"login", "register"},
           NEW u \in Users, SignIn(r, u),
           req[r].st # "refreshing", accounts' \subseteq Users
    PROVE  SessionInv'
<1>1. SessionTypeOK /\ Len(owner) \in Nat
  BY OwnersOfPairs DEF SessionInv
<1> DEFINE n == Len(owner) + 1
           q == [Idle EXCEPT !.st = "sent", !.kind = "me", !.pair = n]
<1>2. owner' \in Seq(Users) /\ Len(owner') = n
  BY <1>1, OwnersOfPairs DEF SignIn
<1>3. /\ store' = n /\ req' = [req EXCEPT ![r] = q] /\ blame' = {"halfway"}
      /\ UNCHANGED <<page, isRefreshing, shown, expired, lapsed, errors, elsewhere>>
  BY <1>2 DEF SignIn, bounds
<1>4. q \in Request /\ q.st = "sent" /\ q.kind = "me" /\ q.pair = n
  <2>1. \A m \in Nat : LET sent == [Idle EXCEPT !.st = "sent", !.kind = "me", !.pair = m]
                     IN  /\ sent \in Request /\ sent.st = "sent" /\ sent.kind = "me"
                         /\ sent.pair = m
    BY IdleRequest DEF Request
  <2>2. n \in Nat
    BY <1>1
  <2>3. QED
    BY <2>1, <2>2
<1> HIDE DEF q
<1>5. req' \in [Requests -> Request] /\ req'[r] = q /\ \A s \in Requests \ {r} : req'[s] = req[s]
  BY <1>3, <1>4, OneRecord
<1>6. SessionTypeOK'
  BY <1>1, <1>2, <1>3, <1>5 DEF SessionTypeOK, Causes
<1>6a. LoadsAlone'
  <2>1. r = "page" \/ req["page"].kind # "load"
    BY DEF SessionInv, LoadsAlone
  <2>2. q.kind # "load"
    BY <1>4
  <2>3. QED
    BY <1>5, <2>1, <2>2, AloneKeeps
<1>7. \A s \in Requests : Refreshing(s)' <=> Refreshing(s)
  BY <1>4, <1>5 DEF Refreshing
<1>8. OneRefresh'
  BY <1>3, <1>7 DEF SessionInv, OneRefresh
<1>9. NobodyForgotten'
  BY <1>3, <1>4, <1>5 DEF SessionInv, NobodyForgotten
<1>10. ASSUME NEW s \in Requests PROVE Asks(s)'
  <2>1. CASE s = r
    BY <1>1, <1>2, <1>3, <1>4, <1>5, <2>1 DEF Asks
  <2>2. CASE s # r
    <3>1. Asks(s) /\ req'[s] = req[s] /\ req[s].pair \in Nat
      BY <1>1, <1>5, <2>2 DEF SessionInv, SessionTypeOK, Request
    <3>2. blame' # {} /\ UNCHANGED shown
      BY <1>3
    <3>3. QED
      BY <1>1, <1>2, <3>1, <3>2 DEF Asks
  <2>3. QED
    BY <2>1, <2>2
<1>11. ShownOwnsTokens'
  BY <1>3 DEF ShownOwnsTokens
<1>12. QED
  BY <1>6, <1>6a, <1>8, <1>9, <1>10, <1>11 DEF SessionInv

LEMMA LoginAnsweredKeeps == ASSUME SessionInv, NEW r \in Requests, LoginAnswered(r) PROVE SessionInv'
<1>1. req[r].kind = "login" /\ req[r].st # "refreshing" /\ req[r].who \in Users
  BY DEF LoginAnswered, SessionInv, SessionTypeOK, Asks
<1>2. accounts' \subseteq Users /\ SignIn(r, req[r].who)
  BY DEF LoginAnswered, SessionInv, SessionTypeOK
<1>3. QED
  BY <1>1, <1>2, SignInKeeps

LEMMA RegisterInsertsKeeps ==
    ASSUME SessionInv, NEW r \in Requests, RegisterInserts(r) PROVE SessionInv'
<1>1. req[r].kind = "register" /\ req[r].st = "inserting" /\ req[r].who \in Users
  BY DEF RegisterInserts, SessionInv, Asks
<1>2. CASE req[r].who \in accounts
  <2>1. /\ UNCHANGED <<store, page, isRefreshing, shown, accounts, owner, expired, lapsed, blame>>
        /\ errors' \in Nat /\ elsewhere' \in Nat /\ req' = [req EXCEPT ![r] = Idle]
    BY <1>2 DEF RegisterInserts, server, bounds, SessionInv, SessionTypeOK
  <2>2. QED
    BY <1>1, <2>1, IdlesKeeps
<1>3. CASE req[r].who \notin accounts
  <2>1. SignIn(r, req[r].who) /\ accounts' = accounts \union {req[r].who}
    BY <1>3 DEF RegisterInserts
  <2>2. accounts' \subseteq Users
    BY <1>1, <2>1 DEF SessionInv, SessionTypeOK
  <2>3. QED
    BY <1>1, <2>1, <2>2, SignInKeeps
<1>4. QED
  BY <1>2, <1>3

\* The page is left: r was not waiting, and if it refreshed, nobody refreshes now.
LEMMA LeavesKeeps ==
    ASSUME SessionInv, NEW r \in Requests, ToLogin(r),
           \/ req[r].st = "refreshing" /\ isRefreshing' = FALSE
           \/ req[r].st = "sent" /\ UNCHANGED isRefreshing,
           UNCHANGED <<server, elsewhere>>, errors' \in Nat
    PROVE  SessionInv'
<1>1. /\ store' = NoPair /\ page' = "leaving" /\ req' = [req EXCEPT ![r] = Idle]
      /\ UNCHANGED <<shown, blame, accounts, owner, expired, lapsed, elsewhere>>
  BY DEF ToLogin, server
<1>2. req' \in [Requests -> Request] /\ req'[r] = Idle /\ \A s \in Requests \ {r} : req'[s] = req[s]
  BY <1>1, OneRecord, IdleRequest
<1>3. isRefreshing' \in BOOLEAN
  BY DEF SessionInv, SessionTypeOK
<1>4. SessionTypeOK'
  BY <1>1, <1>2, <1>3, OwnersOfPairs DEF SessionInv, SessionTypeOK, NoPair
<1>5. OneRefresh'
  <2>1. CASE req[r].st = "refreshing" /\ isRefreshing' = FALSE
    <3>1. \A s \in Requests : Refreshing(s) => s = r
      BY <2>1 DEF SessionInv, SessionTypeOK, OneRefresh, Refreshing
    <3>2. \A s \in Requests : ~Refreshing(s)'
      BY <1>2, <3>1, IdleRequest DEF Refreshing
    <3>3. QED
      BY <2>1, <3>2 DEF OneRefresh
  <2>2. CASE req[r].st = "sent" /\ UNCHANGED isRefreshing
    <3>1. \A s \in Requests : Refreshing(s)' <=> Refreshing(s)
      BY <1>2, <2>2, IdleRequest DEF Refreshing
    <3>2. QED
      BY <2>2, <3>1 DEF SessionInv, OneRefresh
  <2>3. QED
    BY <2>1, <2>2
<1>6. NobodyForgotten'
  BY <1>1 DEF NobodyForgotten
<1>7. ASSUME NEW s \in Requests PROVE Asks(s)'
  <2>1. Asks(s) /\ Len(owner) \in Nat
    BY OwnersOfPairs DEF SessionInv
  <2>2. CASE s = r
    BY <1>1, <1>2, <2>1, <2>2, IdleRequest DEF Asks
  <2>3. CASE s # r
    BY <1>1, <1>2, <2>1, <2>3 DEF Asks
  <2>4. QED
    BY <2>2, <2>3
<1>8. ShownOwnsTokens'
  BY <1>1 DEF ShownOwnsTokens
<1>9. LoadsAlone'
  BY <1>2, IdleRequest, AloneKeeps
<1>10. QED
  BY <1>4, <1>5, <1>6, <1>7, <1>8, <1>9 DEF SessionInv

LEMMA RefreshFailsKeeps == ASSUME SessionInv, NEW r \in Requests, RefreshFails(r) PROVE SessionInv'
<1>1. /\ ToLogin(r) /\ req[r].st = "refreshing" /\ isRefreshing' = FALSE
      /\ UNCHANGED <<server, elsewhere>>
  BY DEF RefreshFails
<1>2. errors' \in Nat
  BY DEF RefreshFails, Fails, SessionInv, SessionTypeOK
<1>3. QED
  BY <1>1, <1>2, LeavesKeeps

LEMMA ErrsKeeps == ASSUME SessionInv, NEW r \in Requests, Errs(r) PROVE SessionInv'
<1>1. Reject(r) /\ req[r].st # "refreshing" /\ UNCHANGED <<isRefreshing, server, elsewhere>>
  BY DEF Errs
<1>2. errors' \in Nat /\ elsewhere' \in Nat
  BY <1>1 DEF Errs, Fails, SessionInv, SessionTypeOK
<1>3. QED
  BY <1>1, <1>2, RejectKeeps DEF server

\* 401: the four ways the interceptor goes.
LEMMA RefusedWays ==
    ASSUME SessionInv, NEW r \in Requests, Refused(r)
    PROVE  /\ req[r].st = "sent" /\ UNCHANGED <<server, bounds>>
           /\ req[r].kind \in {"call", "me", "load", "login"}
           /\ \/ Reject(r) /\ UNCHANGED isRefreshing
              \/ /\ isRefreshing = TRUE /\ req' = [req EXCEPT ![r].st = "queued"]
                 /\ UNCHANGED <<store, page, isRefreshing, shown, blame>>
              \/ /\ isRefreshing = FALSE /\ store # NoPair /\ isRefreshing' = TRUE
                 /\ req' = [req EXCEPT ![r] = [@ EXCEPT !.st = "refreshing", !.pair = store, !.retry = TRUE]]
                 /\ UNCHANGED <<store, page, shown, blame>>
              \/ store = NoPair /\ ToLogin(r) /\ UNCHANGED isRefreshing
<1>1. isRefreshing \in BOOLEAN /\ req[r].retry \in BOOLEAN
  BY DEF SessionInv, SessionTypeOK, Request
<1> DEFINE queues == /\ req' = [req EXCEPT ![r].st = "queued"]
                     /\ UNCHANGED <<store, page, isRefreshing, shown, blame>>
           begins == /\ req' = [req EXCEPT ![r] = [@ EXCEPT !.st = "refreshing", !.pair = store, !.retry = TRUE]]
                     /\ isRefreshing' = TRUE
                     /\ UNCHANGED <<store, page, shown, blame>>
<1>2. (CASE req[r].retry -> Reject(r) /\ UNCHANGED isRefreshing
         [] ~req[r].retry /\ isRefreshing -> queues
         [] ~req[r].retry /\ ~isRefreshing /\ store # NoPair -> begins
         [] OTHER -> ToLogin(r) /\ UNCHANGED isRefreshing)
  BY Zenon DEF Refused
<1> HIDE DEF queues, begins
<1>3. \/ Reject(r) /\ UNCHANGED isRefreshing
      \/ isRefreshing /\ queues
      \/ ~isRefreshing /\ store # NoPair /\ begins
      \/ store = NoPair /\ ToLogin(r) /\ UNCHANGED isRefreshing
  BY <1>1, <1>2
<1>4. isRefreshing <=> isRefreshing = TRUE
  BY <1>1, Zenon
<1>5. req[r].st = "sent" /\ UNCHANGED <<server, bounds>> /\ req[r].kind \in {"call", "me", "load", "login"}
  BY DEF Refused
<1>6. isRefreshing = FALSE \/ isRefreshing = TRUE
  BY <1>1
<1>7. \/ Reject(r) /\ UNCHANGED isRefreshing
      \/ isRefreshing = TRUE /\ queues
      \/ isRefreshing = FALSE /\ store # NoPair /\ begins
      \/ store = NoPair /\ ToLogin(r) /\ UNCHANGED isRefreshing
  BY <1>3, <1>4, <1>6, Zenon
<1>8. QED
  BY <1>5, <1>7 DEF queues, begins

\* The first to be refused refreshes with the pair the store holds.
LEMMA BeginsKeeps ==
    ASSUME SessionInv, NEW r \in Requests, req[r].st = "sent",
           isRefreshing = FALSE, store # NoPair, isRefreshing' = TRUE,
           req' = [req EXCEPT ![r] = [@ EXCEPT !.st = "refreshing", !.pair = store, !.retry = TRUE]],
           UNCHANGED <<store, page, shown, blame, server, bounds>>
    PROVE  SessionInv'
<1>1. /\ SessionTypeOK /\ Len(owner) \in Nat /\ store \in Nat /\ store <= Len(owner)
      /\ req[r] \in Request /\ Asks(r)
  BY OwnersOfPairs DEF SessionInv, SessionTypeOK
<1> DEFINE q == [req[r] EXCEPT !.st = "refreshing", !.pair = store, !.retry = TRUE]
<1>2. q \in Request /\ q.st = "refreshing" /\ q.pair = store /\ q.kind = req[r].kind
      /\ q.who = req[r].who
  BY <1>1 DEF Request
<1> HIDE DEF q
<1>3. req' \in [Requests -> Request] /\ req'[r] = q /\ \A s \in Requests \ {r} : req'[s] = req[s]
  <2>1. req' = [req EXCEPT ![r] = q]
    BY DEF q
  <2>2. QED
    BY <1>2, <2>1, OneRecord
<1>4. UNCHANGED <<store, page, shown, blame, accounts, owner, expired, lapsed, errors, elsewhere>>
  BY DEF server, bounds
<1>5. SessionTypeOK'
  BY <1>1, <1>3, <1>4 DEF SessionTypeOK
<1>6. OneRefresh'
  BY <1>2, <1>3 DEF SessionInv, OneRefresh, Refreshing
<1>7. NobodyForgotten'
  BY DEF NobodyForgotten
<1>8. ASSUME NEW s \in Requests PROVE Asks(s)'
  <2>1. Asks(s)
    BY DEF SessionInv
  <2>2. CASE s = r
    BY <1>1, <1>2, <1>3, <1>4, <2>2 DEF Asks
  <2>3. CASE s # r
    BY <1>3, <1>4, <2>1, <2>3 DEF Asks
  <2>4. QED
    BY <2>2, <2>3
<1>9. ShownOwnsTokens'
  BY <1>4 DEF SessionInv, ShownOwnsTokens
<1>10. LoadsAlone'
  BY <1>2, <1>3, AloneKeeps
<1>11. QED
  BY <1>5, <1>6, <1>7, <1>8, <1>9, <1>10 DEF SessionInv

LEMMA RefusedKeeps == ASSUME SessionInv, NEW r \in Requests, Refused(r) PROVE SessionInv'
<1>1. /\ req[r].st = "sent" /\ UNCHANGED <<server, bounds>>
      /\ req[r].kind \in {"call", "me", "load", "login"}
      /\ UNCHANGED <<accounts, owner, expired, lapsed, errors, elsewhere>>
      /\ errors' \in Nat /\ elsewhere' \in Nat
  BY RefusedWays DEF server, bounds, SessionInv, SessionTypeOK
<1>2. CASE Reject(r) /\ UNCHANGED isRefreshing
  BY <1>1, <1>2, RejectKeeps
<1>3. CASE /\ isRefreshing = TRUE /\ req' = [req EXCEPT ![r].st = "queued"]
           /\ UNCHANGED <<store, page, isRefreshing, shown, blame>>
  <2> DEFINE q == [req[r] EXCEPT !.st = "queued"]
  <2>1. req[r] \in Request /\ Asks(r)
    BY DEF SessionInv, SessionTypeOK
  <2>2. q \in Request /\ q.st = "queued" /\ q.kind = req[r].kind /\ q.pair = req[r].pair
    BY <2>1 DEF Request
  <2>3. req' = [req EXCEPT ![r] = q]
    BY <1>3
  <2> HIDE DEF q
  <2>4. q.pair <= Len(owner) /\ q.kind # "register"
    BY <1>1, <2>1, <2>2 DEF Asks
  <2>5. QED
    BY <1>1, <1>3, <2>2, <2>3, <2>4, RequestKeeps
<1>4. CASE /\ isRefreshing = FALSE /\ store # NoPair /\ isRefreshing' = TRUE
           /\ req' = [req EXCEPT ![r] = [@ EXCEPT !.st = "refreshing", !.pair = store, !.retry = TRUE]]
           /\ UNCHANGED <<store, page, shown, blame>>
  BY <1>1, <1>4, BeginsKeeps
<1>5. CASE store = NoPair /\ ToLogin(r) /\ UNCHANGED isRefreshing
  BY <1>1, <1>5, LeavesKeeps
<1>6. QED
  BY <1>2, <1>3, <1>4, <1>5, RefusedWays

\* What a refresh brings: one more pair, with which r and all who wait are sent.
LEMMA RefreshBrings ==
    ASSUME SessionInv, NEW r \in Requests, RefreshAnswered(r)
    PROVE  /\ Len(owner) \in Nat /\ req[r].st = "refreshing"
           /\ req[r].pair \in 1..Len(owner) /\ owner[req[r].pair] \in Users
           /\ owner' \in Seq(Users) /\ Len(owner') = Len(owner) + 1
           /\ owner'[Len(owner) + 1] = owner[req[r].pair]
           /\ \A p \in 1..Len(owner) : owner'[p] = owner[p]
           /\ store' = Len(owner) + 1 /\ isRefreshing' = FALSE
           /\ blame' = IF req[r].pair = store THEN blame ELSE {"replaced"}
           /\ UNCHANGED <<page, shown, accounts, expired, lapsed, errors, elsewhere>>
           /\ req' \in [Requests -> Request]
           /\ \A s \in Requests :
                /\ req'[s].kind = req[s].kind /\ req'[s].who = req[s].who
                /\ \/ /\ s = r \/ req[s].st = "queued"
                      /\ req'[s].st = "sent" /\ req'[s].pair = Len(owner) + 1
                   \/ /\ s # r /\ req'[s] = req[s] /\ req[s].st \notin {"queued", "refreshing"}
<1> DEFINE n == Len(owner) + 1
           u == owner[req[r].pair]
<1>1. /\ SessionTypeOK /\ Len(owner) \in Nat /\ Asks(r) /\ req[r] \in Request
      /\ req[r].st = "refreshing" /\ req[r].pair \in 1..Len(owner) /\ u \in Users
  <2>1. SessionTypeOK /\ Asks(r) /\ req[r] \in Request
    BY DEF SessionInv, SessionTypeOK
  <2>2. req[r].st = "refreshing" /\ req[r].pair > lapsed
    BY DEF RefreshAnswered
  <2>3. req[r].pair \in Nat /\ lapsed \in Nat /\ Len(owner) \in Nat
    BY <2>1, OwnersOfPairs DEF Request, SessionTypeOK
  <2>4. req[r].pair \in 1..Len(owner)
    BY <2>1, <2>2, <2>3 DEF Asks
  <2>5. QED
    BY <2>1, <2>2, <2>3, <2>4, OwnersOfPairs
<1>2. /\ owner' \in Seq(Users) /\ Len(owner') = n /\ owner'[n] = u
      /\ \A p \in 1..Len(owner) : owner'[p] = owner[p]
  BY <1>1, OwnersOfPairs DEF RefreshAnswered
<1>3. /\ store' = n /\ isRefreshing' = FALSE
      /\ blame' = IF req[r].pair = store THEN blame ELSE {"replaced"}
      /\ UNCHANGED <<page, shown, accounts, expired, lapsed, errors, elsewhere>>
  BY <1>2 DEF RefreshAnswered, bounds
<1>4. req' = [q \in Requests |->
                     IF q \in {r} \union Queued THEN [req[q] EXCEPT !.st = "sent", !.pair = n] ELSE req[q]]
  BY <1>2 DEF RefreshAnswered, bounds
<1> HIDE DEF n, u
<1>5. n = Len(owner) + 1
  BY DEF n
<1>6. ASSUME NEW s \in Requests
      PROVE  /\ req'[s] \in Request /\ req'[s].kind = req[s].kind /\ req'[s].who = req[s].who
             /\ \/ /\ s = r \/ req[s].st = "queued"
                   /\ req'[s].st = "sent" /\ req'[s].pair = n
                \/ /\ s # r /\ req'[s] = req[s] /\ req[s].st \notin {"queued", "refreshing"}
  <2>1. req[s] \in Request
    BY <1>1 DEF SessionTypeOK
  <2>2. req'[s] = IF s \in {r} \union Queued THEN [req[s] EXCEPT !.st = "sent", !.pair = n] ELSE req[s]
    BY <1>4
  <2>3. req[s].st = "refreshing" => s = r
    BY <1>1 DEF SessionInv, SessionTypeOK, OneRefresh, Refreshing
  <2>4. n \in Nat
    BY <1>1, <1>5
  <2>5. CASE s \in {r} \union Queued
    BY <2>1, <2>2, <2>4, <2>5 DEF Request, Queued
  <2>6. CASE s \notin {r} \union Queued
    BY <2>1, <2>2, <2>3, <2>6 DEF Queued
  <2>7. QED
    BY <2>5, <2>6
<1>7. req' \in [Requests -> Request]
  BY <1>4, <1>6
<1>8. QED
  BY <1>1, <1>2, <1>3, <1>5, <1>6, <1>7 DEF u

\* The new pair is the owner's of the one that was refreshed, and everybody who
\* waited is sent again.
LEMMA RefreshAnsweredKeeps ==
    ASSUME SessionInv, NEW r \in Requests, RefreshAnswered(r) PROVE SessionInv'
<1> DEFINE n == Len(owner) + 1
           u == owner[req[r].pair]
<1>1. /\ SessionTypeOK /\ Len(owner) \in Nat /\ req[r].pair \in 1..Len(owner) /\ u \in Users
  BY RefreshBrings DEF SessionInv
<1>2. /\ owner' \in Seq(Users) /\ Len(owner') = n /\ owner'[n] = u
      /\ \A p \in 1..Len(owner) : owner'[p] = owner[p]
  BY RefreshBrings
<1>3. /\ store' = n /\ isRefreshing' = FALSE
      /\ blame' = IF req[r].pair = store THEN blame ELSE {"replaced"}
      /\ UNCHANGED <<page, shown, accounts, expired, lapsed, errors, elsewhere>>
  BY RefreshBrings
<1>4. req' \in [Requests -> Request]
  BY RefreshBrings
<1>6. ASSUME NEW s \in Requests
      PROVE  /\ req'[s].kind = req[s].kind /\ req'[s].who = req[s].who
             /\ \/ req'[s].st = "sent" /\ req'[s].pair = n
                \/ req'[s] = req[s] /\ req[s].st \notin {"queued", "refreshing"}
  BY RefreshBrings
<1>5. n = Len(owner) + 1
  OBVIOUS
<1> HIDE DEF n, u
<1>7. SessionTypeOK'
  <2>1. req' \in [Requests -> Request]
    BY <1>4
  <2>2. owner' \in Seq(Users) /\ store' \in 0..Len(owner')
    BY <1>1, <1>2, <1>3, <1>5
  <2>3. blame' \subseteq Causes /\ isRefreshing' \in BOOLEAN
    BY <1>1, <1>3 DEF SessionTypeOK, Causes
  <2>4. UNCHANGED <<page, shown, accounts, expired, lapsed, errors, elsewhere>>
    BY <1>3
  <2>5. QED
    BY <1>1, <2>1, <2>2, <2>3, <2>4 DEF SessionTypeOK
<1>8. OneRefresh' /\ NobodyForgotten'
  BY <1>3, <1>6 DEF OneRefresh, NobodyForgotten, Refreshing
<1>9. blame' = {} => blame = {} /\ req[r].pair = store
  BY <1>3
<1>10. blame' = {} => store \in 1..Len(owner) /\ owner'[store'] = owner[store]
  BY <1>1, <1>2, <1>3, <1>9 DEF u
<1>11. ASSUME NEW s \in Requests PROVE Asks(s)'
  <2>1. Asks(s) /\ req[s].pair \in Nat
    BY <1>1 DEF SessionInv, SessionTypeOK, Request
  <2>2. req'[s].pair <= Len(owner')
    BY <1>1, <1>2, <1>5, <1>6, <2>1 DEF Asks
  <2>3. req'[s].st = "inserting" => req'[s].kind = "register"
    BY <1>6, <2>1 DEF Asks
  <2>4. req'[s].st = "idle" => req'[s].kind = "call"
    BY <1>6, <2>1 DEF Asks
  <2>5. ASSUME req'[s].kind = "load", page' = "up", blame' = {}
        PROVE  store' # NoPair /\ req'[s].pair # NoPair /\ owner'[req'[s].pair] = owner'[store']
    <3>1. /\ req[s].pair # NoPair /\ owner[req[s].pair] = owner[store]
      BY <1>3, <1>6, <1>9, <2>1, <2>5 DEF Asks
    <3>2. store' # NoPair
      BY <1>1, <1>3, <1>5 DEF NoPair
    <3>3. CASE req'[s].pair = n
      BY <1>3, <3>2, <3>3
    <3>4. CASE req'[s] = req[s]
      <4>1. req[s].pair \in 1..Len(owner)
        BY <1>1, <2>1, <3>1 DEF Asks, NoPair
      <4>2. QED
        BY <1>2, <1>10, <2>5, <3>1, <3>2, <3>4, <4>1
    <3>5. QED
      BY <1>6, <3>3, <3>4
  <2>6. QED
    BY <1>3, <1>6, <2>1, <2>2, <2>3, <2>4, <2>5 DEF Asks
<1>12. ShownOwnsTokens'
  <2>1. SUFFICES ASSUME page' = "up", shown' # Nobody, blame' = {}
                 PROVE  store' # NoPair /\ owner'[store'] = shown'
    BY DEF ShownOwnsTokens
  <2>2. owner[store] = shown
    BY <1>3, <1>9, <2>1 DEF SessionInv, ShownOwnsTokens
  <2>3. store' # NoPair
    BY <1>1, <1>3, <1>5 DEF NoPair
  <2>4. QED
    BY <1>3, <1>10, <2>1, <2>2, <2>3
<1>13. LoadsAlone'
  BY <1>6, PageIsRequest DEF SessionInv, LoadsAlone
<1>14. QED
  BY <1>7, <1>8, <1>11, <1>12, <1>13 DEF SessionInv

LEMMA LogoutKeeps == ASSUME SessionInv, Logout PROVE SessionInv'
<1>1. /\ store' = NoPair /\ shown' = Nobody /\ shown # Nobody
      /\ UNCHANGED <<page, isRefreshing, req, accounts, owner, expired, lapsed, errors, elsewhere, blame>>
  BY DEF Logout, server, bounds
<1>2. SessionTypeOK'
  BY <1>1, OwnersOfPairs DEF SessionInv, SessionTypeOK, NoPair
<1>3. OneRefresh' /\ NobodyForgotten' /\ LoadsAlone'
  BY <1>1 DEF SessionInv, OneRefresh, NobodyForgotten, LoadsAlone, Refreshing
<1>4. ASSUME NEW s \in Requests PROVE Asks(s)'
  BY <1>1 DEF SessionInv, Asks
<1>5. ShownOwnsTokens'
  BY <1>1 DEF ShownOwnsTokens
<1>6. QED
  BY <1>2, <1>3, <1>4, <1>5 DEF SessionInv

\* Nothing of the old page is left.
LEMMA LoadKeeps == ASSUME SessionInv, Load PROVE SessionInv'
<1>1. /\ SessionTypeOK /\ Len(owner) \in Nat /\ store \in Nat /\ store <= Len(owner)
  BY OwnersOfPairs DEF SessionInv, SessionTypeOK
<1>2. /\ page' = "up" /\ isRefreshing' = FALSE /\ shown' = Nobody /\ blame' = {}
      /\ UNCHANGED <<store, accounts, owner, expired, lapsed, errors>> /\ elsewhere' \in Nat
  BY <1>1 DEF Load, server, SessionTypeOK
<1> DEFINE q == Send("load", Nobody)
<1>3. q \in Request /\ q.st = "sent" /\ q.kind = "load" /\ q.pair = store
  BY <1>1 DEF Send, Request, SessionTypeOK
<1>4. req' = [r \in Requests |-> IF r = "page" /\ store # NoPair THEN q ELSE Idle]
  BY DEF Load
<1> HIDE DEF q
<1>5. ASSUME NEW r \in Requests
      PROVE  /\ req'[r] \in Request
             /\ \/ req'[r] = Idle
                \/ r = "page" /\ store # NoPair /\ req'[r] = q
  BY <1>3, <1>4, IdleRequest
<1>6. req' \in [Requests -> Request]
  BY <1>4, <1>5
<1>7. SessionTypeOK'
  BY <1>1, <1>2, <1>6 DEF SessionTypeOK
<1>8. OneRefresh' /\ NobodyForgotten' /\ LoadsAlone'
  BY <1>2, <1>3, <1>5, IdleRequest DEF OneRefresh, NobodyForgotten, LoadsAlone, Refreshing
<1>9. ASSUME NEW s \in Requests PROVE Asks(s)'
  <2>1. CASE req'[s] = Idle
    BY <1>1, <1>2, <2>1, IdleRequest DEF Asks
  <2>2. CASE s = "page" /\ store # NoPair /\ req'[s] = q
    BY <1>1, <1>2, <1>3, <2>2 DEF Asks
  <2>3. QED
    BY <1>5, <2>1, <2>2
<1>10. ShownOwnsTokens'
  BY <1>2 DEF ShownOwnsTokens
<1>11. QED
  BY <1>7, <1>8, <1>9, <1>10 DEF SessionInv

LEMMA ElsewhereKeeps == ASSUME SessionInv, Elsewhere PROVE SessionInv'
<1>1. /\ SessionTypeOK /\ Len(owner) \in Nat /\ store \in Nat
  BY OwnersOfPairs DEF SessionInv, SessionTypeOK
<1>2. /\ UNCHANGED <<page, isRefreshing, req, shown, expired, lapsed, errors>>
      /\ blame' = {"replaced"} /\ elsewhere' \in Nat
      /\ blame' \subseteq Causes
  BY <1>1 DEF Elsewhere, SessionTypeOK, Causes
<1>3. /\ owner' \in Seq(Users) /\ accounts' \subseteq Users
      /\ Len(owner') \in Nat /\ Len(owner) <= Len(owner') /\ store' \in 0..Len(owner')
  <2>1. CASE \E u \in Users : /\ owner' = Append(owner, u) /\ accounts' = accounts \union {u}
                              /\ store' = Len(owner')
    BY <1>1, <2>1, OwnersOfPairs DEF SessionTypeOK
  <2>2. CASE store' = NoPair /\ UNCHANGED <<accounts, owner>>
    BY <1>1, <2>2 DEF SessionTypeOK, NoPair
  <2>3. QED
    BY <2>1, <2>2 DEF Elsewhere
<1>4. SessionTypeOK'
  BY <1>1, <1>2, <1>3 DEF SessionTypeOK
<1>5. OneRefresh' /\ NobodyForgotten' /\ LoadsAlone'
  BY <1>2 DEF SessionInv, OneRefresh, NobodyForgotten, LoadsAlone, Refreshing
<1>6. ASSUME NEW s \in Requests PROVE Asks(s)'
  <2>1. Asks(s) /\ req[s].pair \in Nat
    BY <1>1 DEF SessionInv, SessionTypeOK, Request
  <2>2. req[s].pair <= Len(owner')
    BY <1>1, <1>3, <2>1 DEF Asks
  <2>3. QED
    BY <1>2, <2>1, <2>2 DEF Asks
<1>7. ShownOwnsTokens'
  BY <1>2 DEF ShownOwnsTokens
<1>8. QED
  BY <1>4, <1>5, <1>6, <1>7 DEF SessionInv

LEMMA TimeKeeps ==
    ASSUME SessionInv, AccessExpires \/ RefreshExpires \/ UNCHANGED vars PROVE SessionInv'
<1>1. UNCHANGED <<store, page, isRefreshing, req, shown, accounts, owner, errors, elsewhere, blame>>
  BY DEF AccessExpires, RefreshExpires, vars, browser, server, bounds
<1>2. expired' \in Nat /\ lapsed' \in Nat
  BY DEF AccessExpires, RefreshExpires, vars, server, SessionInv, SessionTypeOK
<1>3. SessionTypeOK'
  BY <1>1, <1>2 DEF SessionInv, SessionTypeOK
<1>4. OneRefresh' /\ NobodyForgotten' /\ LoadsAlone' /\ ShownOwnsTokens'
  BY <1>1 DEF SessionInv, OneRefresh, NobodyForgotten, LoadsAlone, Refreshing, ShownOwnsTokens
<1>5. ASSUME NEW s \in Requests PROVE Asks(s)'
  BY <1>1 DEF SessionInv, Asks
<1>6. QED
  BY <1>3, <1>4, <1>5 DEF SessionInv

LEMMA SessionInvInit == Init => SessionInv
<1>1. SUFFICES ASSUME Init PROVE SessionInv
  OBVIOUS
<1>2. SessionTypeOK
  <2>1. owner \in Seq(Users) /\ Len(owner) = 0
    BY <1>1 DEF Init
  <2>2. req \in [Requests -> Request]
    BY <1>1, IdleRequest DEF Init
  <2>3. isRefreshing \in BOOLEAN
    BY <1>1 DEF Init
  <2>4. accounts \subseteq Users /\ shown \in Users \union {Nobody} /\ blame \subseteq Causes
    BY <1>1, SessionAssumption DEF Init
  <2>5. store \in 0..Len(owner) /\ expired \in Nat /\ lapsed \in Nat /\ page \in {"up", "leaving"}
        /\ errors \in Nat /\ elsewhere \in Nat
    BY <1>1, <2>1 DEF Init, NoPair
  <2>6. QED
    BY <2>1, <2>2, <2>3, <2>4, <2>5 DEF SessionTypeOK
<1>3. \A r \in Requests : req[r] = Idle
  BY <1>1 DEF Init
<1>4. OneRefresh /\ NobodyForgotten /\ LoadsAlone /\ ShownOwnsTokens
  BY <1>1, <1>3, IdleRequest DEF Init, OneRefresh, NobodyForgotten, LoadsAlone, Refreshing, ShownOwnsTokens
<1>5. ASSUME NEW s \in Requests PROVE Asks(s)
  BY <1>1, <1>3, IdleRequest DEF Init, Asks
<1>6. QED
  BY <1>2, <1>4, <1>5 DEF SessionInv

LEMMA SessionInvNext == SessionInv /\ [Next]_vars => SessionInv'
<1>1. SUFFICES ASSUME SessionInv, [Next]_vars PROVE SessionInv'
  OBVIOUS
<1>2. CASE \E r \in Calls : Call(r)
  BY <1>1, <1>2, CallKeeps
<1>3. CASE \E r \in Requests : Settles(r)
  BY <1>1, <1>3, CallAnsweredKeeps, MeAnsweredKeeps, LoginAnsweredKeeps, RegisterLooksKeeps,
     RegisterInsertsKeeps, RefusedKeeps, RefreshAnsweredKeeps, RefreshFailsKeeps, ErrsKeeps
     DEF Settles
<1>4. CASE \E f \in SignIns, u \in Users, kind \in {"login", "register"} : Submit(f, kind, u)
  BY <1>1, <1>4, SubmitKeeps
<1>5. CASE Logout \/ Load \/ Elsewhere
  BY <1>1, <1>5, LogoutKeeps, LoadKeeps, ElsewhereKeeps
<1>6. CASE AccessExpires \/ RefreshExpires \/ UNCHANGED vars
  BY <1>1, <1>6, TimeKeeps
<1>7. QED
  BY <1>1, <1>2, <1>3, <1>4, <1>5, <1>6 DEF Next

\* Every reachable state of the browser has the declared types.
THEOREM SessionTypeCorrect == Spec => []SessionTypeOK
<1>1. SessionInv => SessionTypeOK
  BY DEF SessionInv
<1>2. QED
  BY SessionInvInit, SessionInvNext, <1>1, PTL DEF Spec

(* The refresh queue that the browser implements.                          *)
Phases == [r \in Requests |-> IF req[r].st \in {"queued", "refreshing"} THEN req[r].st ELSE "free"]

LEMMA PhaseOf ==
    ASSUME NEW r \in Requests
    PROVE  /\ Phases[r] = "queued" <=> req[r].st = "queued"
           /\ Phases[r] = "refreshing" <=> Refreshing(r)
           /\ Phases[r] = "free" <=> req[r].st # "queued" /\ ~Refreshing(r)
  BY DEF Phases, Refreshing

LEMMA PhaseNext ==
    ASSUME NEW r \in Requests
    PROVE  /\ Phases'[r] = "queued" <=> req'[r].st = "queued"
           /\ Phases'[r] = "refreshing" <=> req'[r].st = "refreshing"
           /\ Phases'[r] = "free" <=> req'[r].st # "queued" /\ req'[r].st # "refreshing"
  BY DEF Phases

LEMMA NextPairs ==
    ASSUME SessionInv'
    PROVE  [r \in Requests |-> req[r].pair]' \in [Requests -> Nat]
<1>1. req' \in [Requests -> Request]
  BY DEF SessionInv, SessionTypeOK
<1>2. \A r \in Requests : req'[r].pair \in Nat
  BY <1>1 DEF Request
<1>3. QED
  BY <1>2

\* A step that leaves all who queue or refresh alone.
LEMMA QueuePasses ==
    ASSUME SessionInv, SessionInv', UNCHANGED isRefreshing,
           page = "leaving" => page' = "leaving", elsewhere' >= elsewhere,
           \A r \in Requests : \/ req'[r] = req[r]
                               \/ /\ req[r].st # "queued" /\ ~Refreshing(r)
                                  /\ req'[r].st # "queued" /\ ~Refreshing(r)'
    PROVE  Queue!Next
<1> DEFINE S == {r \in Requests : Phases[r] = "free"}
<1>1. \A r \in Requests \ S : req'[r].pair = req[r].pair
  BY PhaseOf
<1>2. Queue!PairsChange(S)
  BY <1>1, NextPairs DEF Queue!PairsChange
<1>3. Phases' = Phases
  BY DEF Phases, Refreshing
<1>4. Queue!Pass
  BY <1>2, <1>3 DEF Queue!Pass, Phases
<1>5. QED
  BY <1>4 DEF Queue!Next

\* One request moves, and neither queues nor refreshes, before or after.
OneMoves(r, q) ==
    /\ req[r].st \notin {"queued", "refreshing"} /\ q.st \notin {"queued", "refreshing"}
    /\ req' = [req EXCEPT ![r] = q]

LEMMA OnePasses ==
    ASSUME SessionInv, SessionInv', NEW r \in Requests, NEW q, OneMoves(r, q),
           UNCHANGED <<isRefreshing, elsewhere>>, page = "leaving" => page' = "leaving"
    PROVE  Queue!Next
<1>1. req'[r] = q /\ \A s \in Requests \ {r} : req'[s] = req[s]
  BY DEF SessionInv, SessionTypeOK, OneMoves
<1>2. elsewhere' >= elsewhere
  BY DEF SessionInv, SessionTypeOK
<1>3. ASSUME NEW s \in Requests
      PROVE  \/ req'[s] = req[s]
             \/ /\ req[s].st # "queued" /\ ~Refreshing(s)
                /\ req'[s].st # "queued" /\ ~Refreshing(s)'
  BY <1>1 DEF Refreshing, OneMoves
<1>4. QED
  BY <1>2, <1>3, QueuePasses

LEMMA SentPasses ==
    ASSUME SessionInv, SessionInv', NEW r \in Requests, NEW kind, NEW who,
           req[r].st = "idle", req' = [req EXCEPT ![r] = Send(kind, who)],
           UNCHANGED <<isRefreshing, elsewhere, page>>
    PROVE  Queue!Next
<1>1. Send(kind, who).st = "sent"
  BY DEF Send
<1>2. OneMoves(r, Send(kind, who))
  BY <1>1 DEF OneMoves
<1>3. QED
  BY <1>2, OnePasses

LEMMA IdlePasses ==
    ASSUME SessionInv, SessionInv', NEW r \in Requests,
           req[r].st \notin {"queued", "refreshing"}, req' = [req EXCEPT ![r] = Idle],
           UNCHANGED <<isRefreshing, elsewhere>>, page = "leaving" => page' = "leaving"
    PROVE  Queue!Next
<1>1. OneMoves(r, Idle)
  BY IdleRequest DEF OneMoves
<1>2. QED
  BY <1>1, OnePasses

LEMMA SignInPasses ==
    ASSUME SessionInv, SessionInv', NEW r \in Requests, NEW u, SignIn(r, u),
           req[r].st \notin {"queued", "refreshing"}
    PROVE  Queue!Next
<1> DEFINE q == [Idle EXCEPT !.st = "sent", !.kind = "me", !.pair = Len(owner')]
<1>1. q.st = "sent"
  BY DEF Idle
<1>2. req' = [req EXCEPT ![r] = q] /\ UNCHANGED <<page, isRefreshing, elsewhere>>
  BY DEF SignIn, bounds
<1> HIDE DEF q
<1>3. OneMoves(r, q)
  BY <1>1, <1>2 DEF OneMoves
<1>4. QED
  BY <1>2, <1>3, OnePasses

LEMMA RegisterPasses ==
    ASSUME SessionInv, SessionInv', NEW r \in Requests, RegisterLooks(r) \/ RegisterInserts(r)
    PROVE  Queue!Next
<1>1. CASE RegisterLooks(r)
  <2> DEFINE q == IF req[r].who \in accounts THEN Idle ELSE [req[r] EXCEPT !.st = "inserting"]
  <2>1. req[r] \in Request /\ req[r].st = "sent" /\ UNCHANGED <<page, isRefreshing, elsewhere>>
    BY <1>1 DEF RegisterLooks, SessionInv, SessionTypeOK, bounds
  <2>2. q.st \in {"idle", "inserting"}
    BY <2>1, IdleRequest DEF Request
  <2>3. req' = [req EXCEPT ![r] = q]
    BY <1>1 DEF RegisterLooks
  <2> HIDE DEF q
  <2>4. OneMoves(r, q)
    BY <2>1, <2>2, <2>3 DEF OneMoves
  <2>5. QED
    BY <2>1, <2>4, OnePasses
<1>2. CASE RegisterInserts(r)
  <2>1. CASE req[r].who \in accounts
    BY <1>2, <2>1, IdlePasses DEF RegisterInserts, bounds
  <2>2. CASE req[r].who \notin accounts
    BY <1>2, <2>2, SignInPasses DEF RegisterInserts
  <2>3. QED
    BY <2>1, <2>2
<1>3. QED
  BY <1>1, <1>2

\* The first refused request begins.
LEMMA BeginsQueue ==
    ASSUME SessionInv, SessionInv', NEW r \in Requests, req[r].st = "sent",
           isRefreshing = FALSE, isRefreshing' = TRUE,
           req' = [req EXCEPT ![r] = [@ EXCEPT !.st = "refreshing", !.pair = store, !.retry = TRUE]],
           UNCHANGED <<page, elsewhere>>
    PROVE  Queue!Begin(r)
<1>1. req \in [Requests -> Request] /\ req' \in [Requests -> Request]
  BY DEF SessionInv, SessionTypeOK
<1>2. req'[r].st = "refreshing" /\ \A s \in Requests \ {r} : req'[s] = req[s]
  BY <1>1 DEF Request
<1>3. Phases[r] = "free" /\ Phases' = [Phases EXCEPT ![r] = "refreshing"]
  BY <1>2 DEF Phases
<1>4. Queue!PairsChange({r})
  BY <1>2, NextPairs DEF Queue!PairsChange
<1>5. QED
  BY <1>3, <1>4 DEF Queue!Begin, Phases

\* The others join.
LEMMA JoinsQueue ==
    ASSUME SessionInv, SessionInv', NEW r \in Requests, req[r].st = "sent",
           isRefreshing = TRUE, req' = [req EXCEPT ![r].st = "queued"],
           UNCHANGED <<page, isRefreshing, elsewhere>>
    PROVE  Queue!Join(r)
<1>1. req \in [Requests -> Request]
  BY DEF SessionInv, SessionTypeOK
<1>2. /\ req'[r].st = "queued" /\ req'[r].pair = req[r].pair
      /\ \A s \in Requests \ {r} : req'[s] = req[s]
  BY <1>1 DEF Request
<1>3. Phases[r] = "free" /\ Phases' = [Phases EXCEPT ![r] = "queued"]
  BY <1>2 DEF Phases
<1>4. [s \in Requests |-> req[s].pair]' = [s \in Requests |-> req[s].pair]
  BY <1>2
<1>5. QED
  BY <1>3, <1>4 DEF Queue!Join, Phases

\* All who wait are sent with the new pair.
LEMMA RenewsQueue ==
    ASSUME SessionInv, SessionInv', NEW r \in Requests, RefreshAnswered(r)
    PROVE  Queue!Renew(r)
<1> DEFINE W == {r} \union Queue!Queued
           n == Len(owner) + 1
<1>1. /\ Len(owner) \in Nat /\ Refreshing(r) /\ isRefreshing' = FALSE
      /\ UNCHANGED <<page, elsewhere>>
  BY RefreshBrings DEF Refreshing
<1>2. Queue!Queued = {s \in Requests : req[s].st = "queued"}
  BY PhaseOf DEF Queue!Queued, Phases
<1>3. ASSUME NEW s \in Requests
      PROVE  \/ s \in W /\ req'[s].st = "sent" /\ req'[s].pair = n
             \/ s \notin W /\ req'[s] = req[s] /\ req[s].st \notin {"queued", "refreshing"}
  BY <1>2, RefreshBrings
<1>4. \A s \in Requests : req[s].pair < n
  <2>1. \A s \in Requests : req[s].pair <= Len(owner) /\ req[s].pair \in Nat
    BY DEF SessionInv, SessionTypeOK, Asks, Request
  <2>2. QED
    BY <1>1, <2>1
<1>5. W \subseteq Requests
  BY <1>2
<1> HIDE DEF W, n
<1>6. \A q \in W, p \in Requests : req'[q].pair = req'[r].pair /\ req'[q].pair > req[p].pair
  <2>1. r \in W
    BY DEF W
  <2>2. \A q \in W : q \in Requests /\ req'[q].pair = n
    BY <1>3, <1>5
  <2>3. \A p \in Requests : n > req[p].pair
    <3>1. n \in Nat /\ \A p \in Requests : req[p].pair \in Nat
      BY <1>1 DEF n, SessionInv, SessionTypeOK, Request
    <3>2. QED
      BY <1>4, <3>1
  <2>4. QED
    BY <2>1, <2>2, <2>3
<1>7. Phases' = [q \in Requests |-> IF q \in W THEN "free" ELSE Phases[q]]
  BY <1>3 DEF Phases
<1>8. Phases[r] = "refreshing"
  BY <1>1, PhaseOf
<1>9. Queue!PairsChange(W)
  BY <1>3, NextPairs DEF Queue!PairsChange
<1>10. QED
  BY <1>1, <1>5, <1>6, <1>7, <1>8, <1>9 DEF Queue!Renew, Phases, W

\* Those who wait are left to the navigation.
LEMMA GivesUpQueue ==
    ASSUME SessionInv, SessionInv', NEW r \in Requests, RefreshFails(r)
    PROVE  Queue!GiveUp(r)
<1>1. /\ req' = [req EXCEPT ![r] = Idle] /\ req[r].st = "refreshing"
      /\ isRefreshing' = FALSE /\ page' = "leaving" /\ UNCHANGED elsewhere
  BY DEF RefreshFails, ToLogin
<1>2. req'[r].st = "idle" /\ \A s \in Requests \ {r} : req'[s] = req[s]
  BY <1>1, OneRecord, IdleRequest
<1>3. Phases[r] = "refreshing" /\ Phases' = [Phases EXCEPT ![r] = "free"]
  BY <1>1, <1>2 DEF Phases
<1>4. Queue!PairsChange({r})
  BY <1>2, NextPairs DEF Queue!PairsChange
<1>5. QED
  BY <1>1, <1>3, <1>4 DEF Queue!GiveUp, Phases

LEMMA ReloadsQueue ==
    ASSUME SessionInv, SessionInv', Load
    PROVE  Queue!Reload
<1>1. /\ page' = "up" /\ isRefreshing' = FALSE
      /\ page = "leaving" \/ elsewhere' = elsewhere + 1
      /\ elsewhere' = elsewhere \/ elsewhere' = elsewhere + 1
      /\ elsewhere \in Nat
  BY DEF Load, SessionInv, SessionTypeOK
<1>2. \A s \in Requests : req'[s].st \in {"idle", "sent"}
  BY IdleRequest DEF Load, Send
<1>3. Phases' = [s \in Requests |-> "free"]
  BY <1>2 DEF Phases
<1>4. Queue!PairsChange(Requests)
  BY NextPairs DEF Queue!PairsChange
<1>5. (page = "leaving" \/ elsewhere' > elsewhere) /\ elsewhere' >= elsewhere
  BY <1>1
<1>6. QED
  BY <1>1, <1>3, <1>4, <1>5 DEF Queue!Reload, Phases

\* 401: the request begins, joins, or is turned away.
LEMMA RefusedQueues ==
    ASSUME SessionInv, SessionInv', NEW r \in Requests, Refused(r)
    PROVE  Queue!Next
<1>1. req[r].st = "sent" /\ UNCHANGED elsewhere
  BY RefusedWays DEF bounds
<1>2. CASE Reject(r) /\ UNCHANGED isRefreshing
  BY <1>1, <1>2, IdlePasses DEF Reject
<1>3. CASE /\ isRefreshing = TRUE /\ req' = [req EXCEPT ![r].st = "queued"]
           /\ UNCHANGED <<store, page, isRefreshing, shown, blame>>
  BY <1>1, <1>3, JoinsQueue DEF Queue!Next
<1>4. CASE /\ isRefreshing = FALSE /\ store # NoPair /\ isRefreshing' = TRUE
           /\ req' = [req EXCEPT ![r] = [@ EXCEPT !.st = "refreshing", !.pair = store, !.retry = TRUE]]
           /\ UNCHANGED <<store, page, shown, blame>>
  BY <1>1, <1>4, BeginsQueue DEF Queue!Next
<1>5. CASE store = NoPair /\ ToLogin(r) /\ UNCHANGED isRefreshing
  BY <1>1, <1>5, IdlePasses DEF ToLogin
<1>6. QED
  BY <1>2, <1>3, <1>4, <1>5, RefusedWays

LEMMA QueueInit == Init => Queue!Init
<1>1. SUFFICES ASSUME Init PROVE Queue!Init
  OBVIOUS
<1>2. \A r \in Requests : req[r] = Idle
  BY <1>1 DEF Init
<1>3. Phases = [r \in Requests |-> "free"] /\ [r \in Requests |-> req[r].pair] = [r \in Requests |-> 0]
  BY <1>2, IdleRequest DEF Phases
<1>4. QED
  BY <1>1, <1>3 DEF Init, Queue!Init, Phases

LEMMA QueueStep == SessionInv /\ SessionInv' /\ [Next]_vars => [Queue!Next]_Queue!vars
<1>1. SUFFICES ASSUME SessionInv, SessionInv', [Next]_vars PROVE [Queue!Next]_Queue!vars
  OBVIOUS
<1>2. CASE \E r \in Calls : Call(r)
  <2>1. PICK r \in Requests : /\ req[r].st = "idle" /\ req' = [req EXCEPT ![r] = Send("call", Nobody)]
                             /\ UNCHANGED <<isRefreshing, elsewhere, page>>
    BY <1>2 DEF Call, Requests, bounds
  <2>2. QED
    BY <1>1, <2>1, SentPasses
<1>3. CASE \E f \in SignIns, u \in Users, kind \in {"login", "register"} : Submit(f, kind, u)
  <2>1. PICK f \in SignIns, u \in Users, kind \in {"login", "register"} :
          /\ req[f].st = "idle" /\ req' = [req EXCEPT ![f] = Send(kind, u)]
          /\ UNCHANGED <<isRefreshing, elsewhere, page>>
    BY <1>3 DEF Submit, bounds
  <2>2. f \in Requests
    BY PageIsRequest
  <2>3. QED
    BY <1>1, <2>1, <2>2, SentPasses
<1>4. CASE \E r \in Requests : CallAnswered(r) \/ MeAnswered(r) \/ Errs(r)
  BY <1>1, <1>4, IdlePasses DEF CallAnswered, MeAnswered, Errs, Reject, bounds
<1>5. CASE \E r \in Requests : LoginAnswered(r) \/ RegisterLooks(r) \/ RegisterInserts(r)
  BY <1>1, <1>5, SignInPasses, RegisterPasses DEF LoginAnswered
<1>6. CASE \E r \in Requests : Refused(r)
  BY <1>1, <1>6, RefusedQueues
<1>7. CASE \E r \in Requests : RefreshAnswered(r)
  BY <1>1, <1>7, RenewsQueue DEF Queue!Next
<1>8. CASE \E r \in Requests : RefreshFails(r)
  BY <1>1, <1>8, GivesUpQueue DEF Queue!Next
<1>9. CASE Load
  BY <1>1, <1>9, ReloadsQueue DEF Queue!Next
<1>10. CASE Logout \/ Elsewhere \/ AccessExpires \/ RefreshExpires
  <2>1. UNCHANGED <<req, page, isRefreshing>> /\ elsewhere' >= elsewhere
    BY <1>1, <1>10 DEF Logout, Elsewhere, AccessExpires, RefreshExpires, browser, bounds,
       SessionInv, SessionTypeOK
  <2>2. QED
    BY <1>1, <2>1, QueuePasses
<1>11. CASE UNCHANGED vars
  BY <1>11 DEF vars, browser, bounds, Queue!vars
<1>12. QED
  BY <1>1, <1>2, <1>3, <1>4, <1>5, <1>6, <1>7, <1>8, <1>9, <1>10, <1>11 DEF Next, Settles

(* However many requests a page has in flight, one of them refreshes the   *)
(* tokens, the others queue behind it, and they go on together, with the   *)
(* new pair, or not at all (client.ts isRefreshing, refreshSubscribers).   *)
THEOREM SessionImplementsQueue == Spec => ImplementsRefreshQueue
<1>1. SessionInv /\ [Next]_vars => [Queue!Next]_Queue!vars
  BY SessionInvNext, QueueStep
<1>2. QED
  BY QueueInit, SessionInvInit, SessionInvNext, <1>1, PTL DEF Spec, ImplementsRefreshQueue, Queue!Spec

LEMMA OneRefreshServes == SessionInv => Queue!Served
<1>1. SUFFICES ASSUME SessionInv PROVE Queue!Served
  OBVIOUS
<1>2. isRefreshing \in BOOLEAN
  BY <1>1 DEF SessionInv, SessionTypeOK
<1>3. \A q, r \in Requests : Phases[q] = "refreshing" /\ Phases[r] = "refreshing" => q = r
  BY <1>1, <1>2, PhaseOf DEF SessionInv, OneRefresh
<1>4. isRefreshing = TRUE <=> \E r \in Requests : Phases[r] = "refreshing"
  BY <1>1, <1>2, PhaseOf DEF SessionInv, OneRefresh
<1>5. \A r \in Requests : Phases[r] = "queued" => isRefreshing = TRUE \/ page = "leaving"
  BY <1>1, PhaseOf DEF SessionInv, NobodyForgotten
<1>6. QED
  BY <1>3, <1>4, <1>5 DEF Queue!Served, Queue!Queued, Phases

(* However many requests a page has in flight, one of them refreshes the   *)
(* token, and the others wait only while it does or the page is being left *)
(* (client.ts isRefreshing, refreshSubscribers).                           *)
THEOREM QueueServed == Spec => []Queue!Served
  BY SessionInvInit, SessionInvNext, OneRefreshServes, PTL DEF Spec

(* Whatever interleaves with loading, refreshing and any number of         *)
(* sign-ins: the user a page shows owns the tokens it sends, unless another*)
(* tab or a late refresh replaced them, a sign-in did not get through, or  *)
(* was overtaken (authStore.ts, client.ts, Login.tsx, Register.tsx).       *)
THEOREM ShownIsOwner == Spec => []ShownOwnsTokens
<1>1. SessionInv => ShownOwnsTokens
  BY DEF SessionInv
<1>2. QED
  BY SessionInvInit, SessionInvNext, <1>1, PTL DEF Spec

\* What can empty the store of a session that could still be refreshed.
SignsOut ==
    (store > lapsed /\ store' = NoPair) =>
       \/ shown' # shown \/ errors' # errors \/ elsewhere' # elsewhere
       \/ \E r \in Requests : req'[r].st = "idle" /\
            (req[r].kind = "load" \/ (req[r].st = "refreshing" /\ req[r].pair # store))

LEMMA CausesOfSignOut == ASSUME SessionInv, Next PROVE SignsOut
<1>1. SUFFICES ASSUME store > lapsed, store' = NoPair, UNCHANGED <<shown, errors, elsewhere>>
               PROVE  \E r \in Requests : req'[r].st = "idle" /\
                        (req[r].kind = "load" \/ (req[r].st = "refreshing" /\ req[r].pair # store))
  BY DEF SignsOut
<1>2. /\ store \in Nat /\ lapsed \in Nat /\ Len(owner) \in Nat /\ errors \in Nat /\ elsewhere \in Nat
      /\ store # NoPair
      /\ \A u \in Users : Len(Append(owner, u)) # NoPair
  BY <1>1, OwnersOfPairs DEF SessionInv, SessionTypeOK, NoPair
<1>3. \A r \in Requests : req' = [req EXCEPT ![r] = Idle] => req'[r].st = "idle"
  BY IdleRequest, OneRecord
<1>4. ASSUME NEW r \in Requests, Reject(r) PROVE req'[r].st = "idle" /\ req[r].kind = "load"
  BY <1>1, <1>2, <1>3, <1>4 DEF Reject
<1>5. ASSUME NEW r \in Requests, Refused(r) PROVE req'[r].st = "idle" /\ req[r].kind = "load"
  BY <1>1, <1>2, <1>4, <1>5, RefusedWays
<1>6. ASSUME NEW r \in Requests, RefreshFails(r)
      PROVE  req'[r].st = "idle" /\ req[r].st = "refreshing" /\ req[r].pair # store
  <2>1. ToLogin(r) /\ req[r].st = "refreshing" /\ (req[r].pair <= lapsed \/ errors' = errors + 1)
    BY <1>6 DEF RefreshFails, Fails
  <2>2. req[r].pair <= lapsed
    BY <1>1, <1>2, <2>1
  <2>3. req[r].pair \in Nat
    BY DEF SessionInv, SessionTypeOK, Request
  <2>4. req[r].pair # store
    BY <1>1, <1>2, <2>2, <2>3
  <2>5. req'[r].st = "idle"
    BY <1>3, <2>1 DEF ToLogin
  <2>6. QED
    BY <2>1, <2>4, <2>5
<1>7. ASSUME NEW r \in Requests, NEW u \in Users, SignIn(r, u) PROVE FALSE
  BY <1>1, <1>2, <1>7 DEF SignIn
<1>8. \A r \in Requests : ~LoginAnswered(r)
  <2>1. ASSUME NEW r \in Requests, LoginAnswered(r) PROVE req[r].who \in Users /\ SignIn(r, req[r].who)
    BY <2>1 DEF LoginAnswered, SessionInv, SessionTypeOK
  <2>2. QED
    BY <1>7, <2>1
<1>9. \A r \in Requests : ~RegisterInserts(r)
  <2>1. ASSUME NEW r \in Requests, RegisterInserts(r)
        PROVE  req[r].who \in Users /\ (store' = store \/ SignIn(r, req[r].who))
    BY <2>1 DEF RegisterInserts, SessionInv, Asks
  <2>2. QED
    BY <1>1, <1>2, <1>7, <2>1
<1>10. \A r \in Requests : ~RefreshAnswered(r)
  <2>1. ASSUME NEW r \in Requests, RefreshAnswered(r) PROVE FALSE
    <3>1. owner[req[r].pair] \in Users
      <4>1. req[r].pair > lapsed /\ req[r].pair \in Nat /\ req[r].pair <= Len(owner)
        BY <2>1 DEF RefreshAnswered, SessionInv, SessionTypeOK, Request, Asks
      <4>2. req[r].pair \in 1..Len(owner)
        BY <1>2, <4>1
      <4>3. QED
        BY <4>2, OwnersOfPairs DEF SessionInv
    <3>2. store' = Len(Append(owner, owner[req[r].pair]))
      BY <2>1 DEF RefreshAnswered
    <3>3. QED
      BY <1>1, <1>2, <3>1, <3>2
  <2>2. QED
    BY <2>1
<1>11. PICK r \in Requests : Settles(r)
  <2>1. ~Elsewhere /\ ~Logout
    BY <1>1, <1>2 DEF Elsewhere, Logout
  <2>2. UNCHANGED store => FALSE
    BY <1>1, <1>2
  <2>3. ~Load /\ ~AccessExpires /\ ~RefreshExpires
    BY <2>2 DEF Load, AccessExpires, RefreshExpires, browser
  <2>4. \A s \in Calls : ~Call(s)
    BY <2>2 DEF Call
  <2>5. \A f, u, kind : ~Submit(f, kind, u)
    BY <2>2 DEF Submit
  <2>6. QED
    BY <2>1, <2>3, <2>4, <2>5 DEF Next
<1>12. CASE CallAnswered(r) \/ MeAnswered(r) \/ RegisterLooks(r)
  BY <1>1, <1>2, <1>12 DEF CallAnswered, MeAnswered, RegisterLooks
<1>13. CASE Errs(r)
  BY <1>4, <1>13 DEF Errs
<1>14. QED
  BY <1>5, <1>6, <1>8, <1>9, <1>10, <1>11, <1>12, <1>13 DEF Settles

(* A session that could still be refreshed ends for one of the causes the  *)
(* property names, and for no other (client.ts, Sidebar.tsx, App.tsx).     *)
THEOREM SignedOutOnlyForCause == Spec => SignedOutForCause
<1>1. SessionInv /\ [Next]_vars =>
        [(store > lapsed /\ store' = NoPair) =>
           \/ shown' # shown \/ errors' # errors \/ elsewhere' # elsewhere
           \/ \E r \in Requests : req'[r].st = "idle" /\
                (req[r].kind = "load" \/ (req[r].st = "refreshing" /\ req[r].pair # store))]_vars
  BY CausesOfSignOut DEF SignsOut
<1>2. QED
  BY SessionInvInit, SessionInvNext, <1>1, PTL DEF Spec, SignedOutForCause

=============================================================================
