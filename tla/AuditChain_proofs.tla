-------------------------- MODULE AuditChain_proofs --------------------------
(***************************************************************************)
(* Proofs about AuditChain, for every set of requests, transactions and    *)
(* accounts and any number of records.                                     *)
(***************************************************************************)
EXTENDS AuditChain, TLAPS

(* The idle request is a request. *)
LEMMA IdleFacts == Idle \in Request /\ Idle.pc = "idle"
  BY DEF Idle, Request, Steps

(* The record a request inserts. *)
New(w) == [tx |-> req[w].tx, decision |-> req[w].decision,
           ts |-> req[w].ts, prev |-> req[w].prev]

(* What a request holds: a transaction of its account from its first step  *)
(* on, and a decision once there is something to log.                      *)
WriterOK(w, r) ==
    /\ r \in Request
    /\ r.pc # "idle" => r.tx \in Txs /\ Own(w, r.tx)
    /\ r.pc \in {"begin", "link", "insert"} => r.decision \in Decisions

Moves(w) ==
    \/ \E t \in Txs, d \in Decisions : Decide(w, t, d)
    \/ \E t \in Txs : ReadForOverride(w, t)
    \/ \E d \in Decisions : CommitOverride(w, d)
    \/ BeginAudit(w) \/ ReadPrevious(w) \/ Insert(w) \/ AuditFails(w)

(* A request's step changes no other request and leaves its own in order. *)
LEMMA WriterStep ==
    ASSUME TypeOK, WriterInv, NEW w \in Requests, Moves(w)
    PROVE  /\ req' = [req EXCEPT ![w] = req'[w]]
           /\ WriterOK(w, req'[w])
<1> USE DEF TypeOK
<1>0. WriterOK(w, req[w]) /\ req \in [Requests -> Request]
  BY DEF WriterOK, WriterInv
<1>1. ASSUME NEW r, WriterOK(w, r), Enter(w, r)
      PROVE  /\ req' = [req EXCEPT ![w] = req'[w]]
             /\ WriterOK(w, req'[w])
  BY <1>0, <1>1 DEF Enter
<1>2. WriterOK(w, Idle)
  BY IdleFacts DEF WriterOK
<1>3. ASSUME NEW t \in Txs, NEW d \in Decisions, Decide(w, t, d)
      PROVE  /\ req' = [req EXCEPT ![w] = req'[w]]
             /\ WriterOK(w, req'[w])
  <2>1. WriterOK(w, [Idle EXCEPT !.pc = "begin", !.tx = t, !.decision = d])
    BY <1>3 DEF WriterOK, Decide, Idle, Request, Steps, Own
  <2>2. QED
    BY <1>1, <1>3, <2>1 DEF Decide
<1>4. ASSUME NEW t \in Txs, ReadForOverride(w, t)
      PROVE  /\ req' = [req EXCEPT ![w] = req'[w]]
             /\ WriterOK(w, req'[w])
  <2>1. WriterOK(w, [Idle EXCEPT !.pc = "override", !.tx = t, !.decision = status[t]])
    BY <1>4 DEF WriterOK, ReadForOverride, Idle, Request, Steps, Own
  <2>2. QED
    BY <1>1, <1>4, <2>1 DEF ReadForOverride
<1>5. ASSUME NEW d \in Decisions, CommitOverride(w, d)
      PROVE  /\ req' = [req EXCEPT ![w] = req'[w]]
             /\ WriterOK(w, req'[w])
  <2>1. WriterOK(w, [req[w] EXCEPT !.pc = "begin", !.decision = d])
    BY <1>0, <1>5 DEF WriterOK, CommitOverride, Request, Steps
  <2>2. QED
    BY <1>1, <1>5, <2>1 DEF CommitOverride
<1>6. CASE BeginAudit(w)
  <2>1. WriterOK(w, [req[w] EXCEPT !.pc = "link", !.ts = clock + 1])
    <3>1. clock + 1 \in Nat
      OBVIOUS
    <3>2. QED
      BY <1>0, <1>6, <3>1 DEF WriterOK, BeginAudit, Request, Steps
  <2>2. QED
    BY <1>1, <1>6, <2>1 DEF BeginAudit
<1>7. CASE ReadPrevious(w)
  <2>1. PICK hash \in 0..clock :
          Enter(w, [req[w] EXCEPT !.pc = "insert", !.prev = hash])
    BY <1>7 DEF ReadPrevious
  <2>2. hash \in Nat
    OBVIOUS
  <2>3. WriterOK(w, [req[w] EXCEPT !.pc = "insert", !.prev = hash])
    BY <1>0, <1>7, <2>2 DEF WriterOK, ReadPrevious, Request, Steps
  <2>4. QED
    BY <1>1, <2>1, <2>3
<1>8. CASE Insert(w) \/ AuditFails(w)
  BY <1>1, <1>2, <1>8 DEF Insert, AuditFails, Return
<1>9. QED
  BY <1>3, <1>4, <1>5, <1>6, <1>7, <1>8 DEF Moves

(* Only Insert adds a record, its request's; nothing removes one. *)
LEMMA RecordStep ==
    ASSUME TypeOK, WriterInv, [Next]_vars
    PROVE  \/ UNCHANGED audits
           \/ \E w \in Requests :
                /\ Insert(w)
                /\ audits' = audits \union {New(w)}
                /\ New(w) \in Record
                /\ OwnerOf[New(w).tx] = AccountOf[w]
<1>1. ASSUME NEW w \in Requests, Insert(w)
      PROVE  /\ audits' = audits \union {New(w)}
             /\ New(w) \in Record
             /\ OwnerOf[New(w).tx] = AccountOf[w]
  <2>1. /\ req[w].tx \in Txs /\ OwnerOf[req[w].tx] = AccountOf[w]
        /\ req[w].decision \in Decisions
    BY <1>1 DEF Insert, WriterInv, Own
  <2>2. req[w].ts \in Nat /\ req[w].prev \in Nat
    BY DEF TypeOK, Request
  <2>3. QED
    BY <1>1, <2>1, <2>2 DEF Insert, New, Record
<1>2. CASE \E t \in Txs, d \in Decisions : ChangeUnaudited(t, d)
  BY <1>2 DEF ChangeUnaudited
<1>3. CASE UNCHANGED vars
  BY <1>3 DEF vars
<1>4. ASSUME NEW w \in Requests, Moves(w), ~Insert(w)
      PROVE  UNCHANGED audits
  BY <1>4 DEF Moves, Decide, ReadForOverride, CommitOverride, BeginAudit,
              ReadPrevious, AuditFails
<1>5. QED
  BY <1>1, <1>2, <1>3, <1>4 DEF Next, Moves

(* The clock does not run backwards. *)
LEMMA ClockStep ==
    ASSUME TypeOK, [Next]_vars
    PROVE  clock' \in Nat /\ clock <= clock'
<1>1. clock' \in {clock, clock + 1}
  BY DEF Next, vars, ChangeUnaudited, Decide, ReadForOverride, CommitOverride,
         BeginAudit, ReadPrevious, Insert, AuditFails
<1>2. QED
  BY <1>1 DEF TypeOK

(* Every step keeps the types. *)
LEMMA TypeStep ==
    ASSUME TypeOK, WriterInv, [Next]_vars
    PROVE  TypeOK'
<1>1. req' \in [Requests -> Request]
  <2>1. ASSUME NEW w \in Requests, Moves(w)
        PROVE  req' \in [Requests -> Request]
    BY <2>1, WriterStep DEF WriterOK, TypeOK
  <2>2. CASE (\E t \in Txs, d \in Decisions : ChangeUnaudited(t, d)) \/ UNCHANGED vars
    BY <2>2 DEF ChangeUnaudited, vars, TypeOK
  <2>3. QED
    BY <2>1, <2>2 DEF Next, Moves
<1>2. audits' \subseteq Record
  BY RecordStep DEF TypeOK
<1>3. status' \in [Txs -> Decisions \union {"pending"}]
  BY DEF TypeOK, Next, vars, ChangeUnaudited, Decide, ReadForOverride,
         CommitOverride, BeginAudit, ReadPrevious, Insert, AuditFails
<1>4. unaudited' \subseteq Txs
  <2>1. ASSUME NEW w \in Requests, AuditFails(w)
        PROVE  unaudited' \subseteq Txs
    BY <2>1 DEF AuditFails, WriterInv, TypeOK
  <2>2. CASE ~\E w \in Requests : AuditFails(w)
    BY <2>2 DEF TypeOK, Next, vars, ChangeUnaudited, Decide, ReadForOverride,
                CommitOverride, BeginAudit, ReadPrevious, Insert
  <2>3. QED
    BY <2>1, <2>2
<1>5. clock' \in Nat
  BY ClockStep
<1>6. QED
  BY <1>1, <1>2, <1>3, <1>4, <1>5 DEF TypeOK

(* A chain only grows: a record found in it once is found again. *)
LEMMA ChainGrows ==
    ASSUME TypeOK, WriterInv, [Next]_vars, NEW a \in Accounts
    PROVE  Chain(a) \subseteq Chain(a)'
  BY RecordStep DEF Chain

(* What a request that reads or begins its link learns. *)
LEMMA LinkFacts ==
    ASSUME TypeOK, WriterInv, NEW w \in Requests, Moves(w)
    PROVE  /\ req'[w].pc \in {"link", "insert"}
                => /\ UNCHANGED audits
                   /\ \/ /\ req'[w].pc = "link"
                         /\ req'[w].ts = clock + 1 /\ clock' = clock + 1
                      \/ /\ req'[w].pc = "insert"
                         /\ req[w].pc = "link"
                         /\ req'[w].ts = req[w].ts
                         /\ req'[w].prev \in Nat
                         /\ IsLatest(Chain(AccountOf[w]), req'[w].prev)
<1> SUFFICES ASSUME req'[w].pc \in {"link", "insert"}
             PROVE  /\ UNCHANGED audits
                    /\ \/ /\ req'[w].pc = "link"
                          /\ req'[w].ts = clock + 1 /\ clock' = clock + 1
                       \/ /\ req'[w].pc = "insert"
                          /\ req[w].pc = "link"
                          /\ req'[w].ts = req[w].ts
                          /\ req'[w].prev \in Nat
                          /\ IsLatest(Chain(AccountOf[w]), req'[w].prev)
  OBVIOUS
<1> USE DEF TypeOK
<1>0. req[w] \in Request
  OBVIOUS
<1>1. CASE BeginAudit(w)
  <2>1. req'[w] = [req[w] EXCEPT !.pc = "link", !.ts = clock + 1]
    BY <1>1 DEF BeginAudit, Enter
  <2>2. req'[w].pc = "link" /\ req'[w].ts = clock + 1
    BY <1>0, <2>1 DEF Request
  <2>3. QED
    BY <1>1, <2>2 DEF BeginAudit
<1>2. CASE ReadPrevious(w)
  <2>1. PICK hash \in 0..clock :
          /\ IsLatest(Chain(OwnerOf[req[w].tx]), hash)
          /\ req'[w] = [req[w] EXCEPT !.pc = "insert", !.prev = hash]
    BY <1>2 DEF ReadPrevious, Enter
  <2>2. hash \in Nat
    OBVIOUS
  <2>3. /\ req'[w].pc = "insert" /\ req'[w].prev = hash
        /\ req'[w].ts = req[w].ts
    BY <1>0, <2>1, <2>2 DEF Request
  <2>4. req[w].pc = "link" /\ OwnerOf[req[w].tx] = AccountOf[w]
    BY <1>2 DEF ReadPrevious, WriterInv, Own
  <2>5. QED
    BY <1>2, <2>1, <2>2, <2>3, <2>4 DEF ReadPrevious
<1>3. ASSUME NEW t \in Txs, NEW d \in Decisions, Decide(w, t, d)
      PROVE  req'[w].pc = "begin"
  BY <1>3 DEF Decide, Enter, Idle
<1>4. ASSUME NEW t \in Txs, ReadForOverride(w, t)
      PROVE  req'[w].pc = "override"
  BY <1>4 DEF ReadForOverride, Enter, Idle
<1>5. ASSUME NEW d \in Decisions, CommitOverride(w, d)
      PROVE  req'[w].pc = "begin"
  BY <1>0, <1>5 DEF CommitOverride, Enter, Request
<1>6. CASE Insert(w) \/ AuditFails(w)
  BY <1>6 DEF Idle, Insert, AuditFails, Return, Enter
<1>7. QED
  BY <1>1, <1>2, <1>3, <1>4, <1>5, <1>6 DEF Moves

(* Requests keep to their account and behind the clock. *)
LEMMA WriterInvStep ==
    ASSUME TypeOK, WriterInv, [Next]_vars
    PROVE  WriterInv'
<1> USE DEF TypeOK
<1>1. \A r \in audits' : r.ts <= clock'
  <2>1. \A r \in audits : r.ts <= clock' /\ r \in Record
    BY ClockStep DEF WriterInv, Record
  <2>2. ASSUME NEW w \in Requests, Insert(w)
        PROVE  New(w).ts <= clock'
    BY <2>2, ClockStep DEF WriterInv, Insert, New, Request
  <2>3. QED
    BY <2>1, <2>2, RecordStep
<1> DEFINE Fine(w, r) ==
             /\ r.pc # "idle" => r.tx \in Txs /\ Own(w, r.tx)
             /\ r.pc \in {"begin", "link", "insert"} => r.decision \in Decisions
             /\ r.pc \in {"link", "insert"} => r.ts <= clock'
             /\ r.pc = "insert" =>
                  r.prev = 0 \/ \E q \in Chain(AccountOf[w])' : q.ts = r.prev
<1>2. ASSUME NEW w \in Requests, req'[w] = req[w]
      PROVE  Fine(w, req'[w])
  <2>1. req[w].ts \in Nat
    BY DEF Request
  <2>2. AccountOf[w] \in Accounts
    BY AccountAssumption
  <2>3. QED
    BY <1>2, <2>1, <2>2, ClockStep, ChainGrows DEF WriterInv
<1>3. ASSUME NEW w \in Requests, Moves(w)
      PROVE  Fine(w, req'[w])
  <2>1. WriterOK(w, req'[w])
    BY <1>3, WriterStep
  <2>2. req'[w].pc \in {"link", "insert"} => req'[w].ts <= clock'
    <3>1. CASE req'[w].ts = clock + 1 /\ clock' = clock + 1
      BY <3>1
    <3>2. CASE req[w].pc = "link" /\ req'[w].ts = req[w].ts
      BY <3>2, ClockStep DEF WriterInv, Request
    <3>3. QED
      BY <1>3, <3>1, <3>2, LinkFacts
  <2>3. req'[w].pc = "insert" =>
          req'[w].prev = 0 \/ \E q \in Chain(AccountOf[w])' : q.ts = req'[w].prev
    <3>1. ASSUME req'[w].pc = "insert"
          PROVE  IsLatest(Chain(AccountOf[w]), req'[w].prev) /\ UNCHANGED audits
      BY <1>3, <3>1, LinkFacts
    <3>2. QED
      BY <3>1 DEF IsLatest, Chain
  <2>4. QED
    BY <2>1, <2>2, <2>3 DEF WriterOK
<1>4. \A w \in Requests : Fine(w, req'[w])
  <2>1. CASE UNCHANGED req
    BY <1>2, <2>1
  <2>2. ASSUME NEW v \in Requests, Moves(v)
        PROVE  \A w \in Requests : Fine(w, req'[w])
    <3>1. \A w \in Requests : w # v => req'[w] = req[w]
      BY <2>2, WriterStep
    <3>2. QED
      BY <1>2, <1>3, <2>2, <3>1
  <2>3. QED
    BY <2>1, <2>2 DEF Next, Moves, vars, ChangeUnaudited
<1>5. QED
  BY <1>1, <1>4 DEF WriterInv, Own

(* Whoever interleaves, an inserted record links to one of its chain. *)
LEMMA LinksStep ==
    ASSUME TypeOK, WriterInv, LinksAreOwn, [Next]_vars
    PROVE  LinksAreOwn'
<1>1. ASSUME NEW r \in audits, r \in Record
      PROVE  r.prev = 0 \/ \E q \in Chain(OwnerOf[r.tx])' : q.ts = r.prev
  <2>1. OwnerOf[r.tx] \in Accounts
    BY <1>1, AccountAssumption DEF Record
  <2>2. QED
    BY <1>1, <2>1, ChainGrows DEF LinksAreOwn
<1>2. ASSUME NEW w \in Requests, NEW r, Insert(w), r = New(w),
             OwnerOf[r.tx] = AccountOf[w]
      PROVE  r.prev = 0 \/ \E q \in Chain(OwnerOf[r.tx])' : q.ts = r.prev
  <2>1. AccountOf[w] \in Accounts
    BY AccountAssumption
  <2>2. r.prev = 0 \/ \E q \in Chain(AccountOf[w]) : q.ts = r.prev
    BY <1>2 DEF Insert, WriterInv, New
  <2>3. QED
    BY <1>2, <2>1, <2>2, ChainGrows
<1>3. \A r \in audits' : r \in audits \/ \E w \in Requests :
          Insert(w) /\ r = New(w) /\ OwnerOf[r.tx] = AccountOf[w]
  BY RecordStep
<1>4. \A r \in audits' : r.prev = 0 \/ \E q \in Chain(OwnerOf[r.tx])' : q.ts = r.prev
  BY <1>1, <1>2, <1>3 DEF TypeOK
<1>5. QED
  BY <1>4 DEF LinksAreOwn, Chain

(* What requests that are alone in their account hold. *)
LEMMA AloneStep ==
    ASSUME TypeOK, WriterInv, AloneInv, [Next]_vars
    PROVE  AloneInv'
<1> USE DEF TypeOK
<1> DEFINE Ready(w, r) ==
             /\ r.pc \in {"link", "insert"} =>
                  \A q \in Chain(AccountOf[w])' : q.ts < r.ts
             /\ r.pc = "insert" => IsLatest(Chain(AccountOf[w])', r.prev)
<1>1. ASSUME NEW w \in Requests, Alone(AccountOf[w]), req'[w] = req[w], UNCHANGED audits
      PROVE  Ready(w, req'[w])
  <2>1. Chain(AccountOf[w])' = Chain(AccountOf[w])
    BY <1>1 DEF Chain
  <2>2. QED
    BY <1>1, <2>1 DEF AloneInv
<1>2. ASSUME NEW w \in Requests, Alone(AccountOf[w]), Moves(w)
      PROVE  Ready(w, req'[w])
  <2>1. SUFFICES ASSUME req'[w].pc \in {"link", "insert"}
                 PROVE  Ready(w, req'[w])
    BY DEF Ready
  <2>2. Chain(AccountOf[w])' = Chain(AccountOf[w])
    BY <1>2, <2>1, LinkFacts DEF Chain
  <2>3. CASE req'[w].pc = "link" /\ req'[w].ts = clock + 1
    <3>1. \A q \in Chain(AccountOf[w]) : q.ts <= clock /\ q.ts \in Nat
      BY DEF WriterInv, Chain, Record
    <3>2. QED
      BY <2>2, <2>3, <3>1
  <2>4. CASE /\ req'[w].pc = "insert" /\ req[w].pc = "link"
             /\ req'[w].ts = req[w].ts
             /\ IsLatest(Chain(AccountOf[w]), req'[w].prev)
    BY <1>2, <2>2, <2>4 DEF AloneInv
  <2>5. QED
    <3> HIDE DEF Ready
    <3> QED  BY <1>2, <2>1, <2>3, <2>4, LinkFacts
<1>3. ASSUME NEW v \in Requests, Moves(v), NEW w \in Requests, w # v,
             Alone(AccountOf[w])
      PROVE  Ready(w, req'[w])
  <2>1. req'[w] = req[w]
    BY <1>3, WriterStep
  <2>2. CASE UNCHANGED audits
    BY <1>1, <1>3, <2>1, <2>2
  <2>3. CASE Insert(v)
    \* The record goes to the chain of another account.
    <3>1. AccountOf[v] # AccountOf[w]
      BY <1>3 DEF Alone
    <3>2. audits' = audits \union {New(v)} /\ OwnerOf[New(v).tx] = AccountOf[v]
      BY <2>3 DEF Insert, New, WriterInv, Own
    <3>3. Chain(AccountOf[w])' = Chain(AccountOf[w])
      BY <3>1, <3>2 DEF Chain
    <3>4. QED
      BY <1>3, <2>1, <3>3 DEF AloneInv
  <2>4. QED
    BY <1>3, <2>2, <2>3 DEF Moves, Decide, ReadForOverride, CommitOverride,
                            BeginAudit, ReadPrevious, AuditFails
<1>4. \A w \in Requests : Alone(AccountOf[w]) => Ready(w, req'[w])
  <2> HIDE DEF Ready
  <2>1. CASE UNCHANGED <<req, audits>>
    BY <1>1, <2>1
  <2>2. ASSUME NEW v \in Requests, Moves(v)
        PROVE  \A w \in Requests : Alone(AccountOf[w]) => Ready(w, req'[w])
    BY <1>2, <1>3, <2>2
  <2>3. QED
    BY <2>1, <2>2 DEF Next, Moves, vars, ChangeUnaudited
<1>5. QED
  BY <1>4 DEF AloneInv, Alone, IsLatest

(* A record inserted by a request alone in its account is the last of the  *)
(* chain and links to the one before it; the records before are untouched. *)
LEMMA ChainsStep ==
    ASSUME TypeOK, WriterInv, AloneInv, ChainsVerify, [Next]_vars
    PROVE  ChainsVerify'
<1> USE DEF TypeOK
<1>1. ASSUME NEW a \in Accounts, Alone(a), Chain(a)' = Chain(a)
      PROVE  Verifies(a)'
  BY <1>1 DEF ChainsVerify, Verifies, Before, IsLatest
<1>2. ASSUME NEW w \in Requests, Insert(w), Alone(AccountOf[w])
      PROVE  Verifies(AccountOf[w])'
  <2> DEFINE a == AccountOf[w]
  <2>1. PICK n : n = New(w)
    OBVIOUS
  <2>2. Chain(a)' = Chain(a) \union {n}
    <3>1. audits' = audits \union {n} /\ OwnerOf[n.tx] = a
      BY <1>2, <2>1 DEF Insert, New, WriterInv, Own
    <3>2. QED
      BY <3>1 DEF Chain
  <2>3. /\ n.ts = req[w].ts /\ n.prev = req[w].prev
        /\ req[w].pc = "insert" /\ n.ts \in Nat
    BY <1>2, <2>1 DEF New, Insert, Request
  <2>4. /\ \A q \in Chain(a) : q.ts < n.ts /\ q.ts \in Nat
        /\ IsLatest(Chain(a), n.prev)
    BY <1>2, <2>3 DEF AloneInv, Chain, Record
  <2>5. ASSUME NEW r \in Chain(a)'
        PROVE  IsLatest(Before(a, r.ts)', r.prev)
    <3>1. CASE r = n
      <4>1. {q \in Chain(a)' : q.ts < n.ts} = Chain(a)
        BY <2>2, <2>3, <2>4
      <4>2. QED
        BY <2>4, <3>1, <4>1 DEF Before
    <3>2. CASE r \in Chain(a)
      <4>1. {q \in Chain(a)' : q.ts < r.ts} = {q \in Chain(a) : q.ts < r.ts}
        BY <2>2, <2>3, <2>4, <3>2
      <4>2. IsLatest(Before(a, r.ts), r.prev)
        BY <1>2, <3>2, AccountAssumption DEF ChainsVerify, Verifies
      <4>3. QED
        BY <4>1, <4>2 DEF Before
    <3>3. QED
      BY <2>2, <3>1, <3>2
  <2>6. QED
    BY <2>5 DEF Verifies, IsLatest
<1>3. ASSUME NEW a \in Accounts, Alone(a)
      PROVE  Verifies(a)'
  <2>1. CASE UNCHANGED audits
    <3>1. Chain(a)' = Chain(a)
      BY <2>1 DEF Chain
    <3>2. QED
      BY <1>1, <1>3, <3>1
  <2>2. ASSUME NEW w \in Requests, Insert(w),
               audits' = audits \union {New(w)}, OwnerOf[New(w).tx] = AccountOf[w]
        PROVE  Verifies(a)'
    <3>1. CASE a = AccountOf[w]
      BY <1>2, <1>3, <2>2, <3>1
    <3>2. CASE a # AccountOf[w]
      <4>1. Chain(a)' = Chain(a)
        BY <2>2, <3>2 DEF Chain
      <4>2. QED
        BY <1>1, <1>3, <4>1
    <3>3. QED
      BY <3>1, <3>2
  <2>3. QED
    BY <2>1, <2>2, RecordStep
<1>4. QED
  BY <1>3 DEF ChainsVerify, Alone

(* The initial state satisfies the inductive invariant... *)
LEMMA InitInv == Init => ChainInv
<1> SUFFICES ASSUME Init PROVE ChainInv
  OBVIOUS
<1>1. TypeOK
  BY IdleFacts DEF Init, TypeOK
<1>2. WriterInv /\ LinksAreOwn /\ AloneInv /\ ChainsVerify
  BY IdleFacts DEF Init, WriterInv, LinksAreOwn, AloneInv, ChainsVerify, Verifies, Chain
<1>3. QED
  BY <1>1, <1>2 DEF ChainInv

(* ... and every step preserves it. *)
LEMMA Invariant == Spec => []ChainInv
<1>1. ChainInv /\ [Next]_vars => ChainInv'
  BY TypeStep, WriterInvStep, LinksStep, AloneStep, ChainsStep DEF ChainInv
<1>2. QED
  BY InitInv, <1>1, PTL DEF Spec

(* Every reachable state has the declared types. *)
THEOREM TypeCorrect == Spec => []TypeOK
<1>1. ChainInv => TypeOK
  BY DEF ChainInv
<1>2. QED
  BY Invariant, <1>1, PTL

(* Every link leads to a record of the same account, however the writers   *)
(* of an account interleave.                                               *)
THEOREM LinksStayOwn == Spec => []LinksAreOwn
<1>1. ChainInv => LinksAreOwn
  BY DEF ChainInv
<1>2. QED
  BY Invariant, <1>1, PTL

(* verify_integrity finds the chain of every account intact that has one   *)
(* request in flight at a time, whatever the other accounts do.            *)
THEOREM ChainsAlwaysVerify == Spec => []ChainsVerify
<1>1. ChainInv => ChainsVerify
  BY DEF ChainInv
<1>2. QED
  BY Invariant, <1>1, PTL

-----------------------------------------------------------------------------
(* What the audit says of a transaction. *)

(* What a request alone in its account is about to log is the status, as   *)
(* long as nothing unlogged has changed it.                                *)
WorkInv ==
    \A w \in Requests :
        (/\ Alone(AccountOf[w])
         /\ req[w].pc # "idle"
         /\ req[w].tx \notin unaudited) => req[w].decision = status[req[w].tx]

(* How a step changes what requests work on, what they are about to log    *)
(* and the statuses.                                                       *)
LEMMA WorkStep ==
    ASSUME TypeOK, WriterInv, WorkInv, [Next]_vars
    PROVE  WorkInv'
<1> USE DEF TypeOK
<1> DEFINE Good(r) == (r.pc # "idle" /\ r.tx \notin unaudited') => r.decision = status'[r.tx]
<1>0. \A w \in Requests : /\ req[w] \in Request
                         /\ req[w].pc # "idle" => req[w].tx \in Txs /\ Own(w, req[w].tx)
  BY DEF WriterInv
\* Another request of another account cannot touch this one's transaction.
<1>1. ASSUME NEW v \in Requests, Moves(v), NEW w \in Requests, w # v,
             Alone(AccountOf[w]), req[w].pc # "idle",
             req[w].tx \notin unaudited'
      PROVE  req[w].tx \notin unaudited /\ status'[req[w].tx] = status[req[w].tx]
  <2>1. AccountOf[v] # AccountOf[w]
    BY <1>1 DEF Alone
  <2>2. PICK t \in Txs : t = req[w].tx /\ OwnerOf[t] = AccountOf[w]
    BY <1>0, <1>1 DEF Own
  <2> DEFINE Kept == t \notin unaudited /\ status'[t] = status[t]
  <2>3. ASSUME NEW s \in Txs, NEW d \in Decisions, Decide(v, s, d)
        PROVE  Kept
    BY <1>1, <2>1, <2>2, <2>3 DEF Decide, Own
  <2>4. ASSUME NEW d \in Decisions, CommitOverride(v, d)
        PROVE  Kept
    <3>1. req[v].tx # t /\ req[v].tx \in Txs
      BY <1>0, <2>1, <2>2, <2>4 DEF CommitOverride, Own
    <3>2. QED
      BY <1>1, <2>2, <2>4, <3>1 DEF CommitOverride
  <2>5. ASSUME AuditFails(v)
        PROVE  Kept
    BY <1>1, <2>2, <2>5 DEF AuditFails
  <2>6. ASSUME UNCHANGED <<status, unaudited>>
        PROVE  Kept
    BY <1>1, <2>2, <2>6
  <2>7. Kept
    <3> HIDE DEF Kept
    <3>1. CASE \/ \E s \in Txs : ReadForOverride(v, s)
               \/ BeginAudit(v) \/ ReadPrevious(v) \/ Insert(v)
      <4>1. UNCHANGED <<status, unaudited>>
        BY <3>1 DEF ReadForOverride, BeginAudit, ReadPrevious, Insert
      <4>2. QED
        BY <2>6, <4>1
    <3>2. QED
      BY <1>1, <2>3, <2>4, <2>5, <3>1 DEF Moves
  <2>8. QED
    BY <2>2, <2>7
<1>2. ASSUME NEW w \in Requests, Alone(AccountOf[w]), Moves(w)
      PROVE  Good(req'[w])
  <2>1. ASSUME NEW t \in Txs, NEW d \in Decisions, Decide(w, t, d)
        PROVE  Good(req'[w])
    BY <2>1 DEF Decide, Enter, Idle
  <2>2. ASSUME NEW t \in Txs, ReadForOverride(w, t)
        PROVE  Good(req'[w])
    BY <2>2 DEF ReadForOverride, Enter, Idle
  <2>3. ASSUME NEW d \in Decisions, CommitOverride(w, d)
        PROVE  Good(req'[w])
    <3>1. PICK t \in Txs : t = req[w].tx
      BY <1>0, <2>3 DEF CommitOverride
    <3>2. req'[w].tx = t /\ req'[w].decision = d
      BY <1>0, <2>3, <3>1 DEF CommitOverride, Enter, Request
    <3>3. CASE req[w].decision = d
      <4>1. UNCHANGED <<status, unaudited>>
        BY <2>3, <3>3 DEF CommitOverride
      <4>2. t \notin unaudited => status[t] = d
        BY <1>2, <2>3, <3>1, <3>3 DEF WorkInv, CommitOverride
      <4>3. QED
        BY <3>2, <4>1, <4>2
    <3>4. CASE req[w].decision # d
      <4>1. status' = [status EXCEPT ![t] = d]
        BY <2>3, <3>1, <3>4 DEF CommitOverride
      <4>2. QED
        <5>1. status'[t] = d
          BY <4>1
        <5>2. QED
          BY <3>2, <5>1
    <3>5. QED
      BY <3>3, <3>4
  <2>4. CASE BeginAudit(w)
    <3>1. /\ req'[w].tx = req[w].tx /\ req'[w].decision = req[w].decision
          /\ req[w].pc = "begin" /\ UNCHANGED <<status, unaudited>>
      BY <1>0, <2>4 DEF BeginAudit, Enter, Request
    <3>2. QED
      BY <1>2, <3>1 DEF WorkInv
  <2>5. CASE ReadPrevious(w)
    <3>1. /\ req'[w].tx = req[w].tx /\ req'[w].decision = req[w].decision
          /\ req[w].pc = "link" /\ UNCHANGED <<status, unaudited>>
      BY <1>0, <2>5 DEF ReadPrevious, Enter, Request
    <3>2. QED
      BY <1>2, <3>1 DEF WorkInv
  <2>6. CASE Insert(w) \/ AuditFails(w)
    BY <2>6 DEF Insert, AuditFails, Return, Enter, Idle
  <2>7. QED
    <3> HIDE DEF Good
    <3> QED  BY <1>2, <2>1, <2>2, <2>3, <2>4, <2>5, <2>6 DEF Moves
<1>3. \A w \in Requests : Alone(AccountOf[w]) => Good(req'[w])
  <2>1. ASSUME NEW t \in Txs, NEW d \in Decisions, ChangeUnaudited(t, d),
               NEW w \in Requests, Alone(AccountOf[w])
        PROVE  Good(req'[w])
    <3>1. req'[w] = req[w] /\ (req[w].tx \notin unaudited' => req[w].tx # t)
      BY <2>1 DEF ChangeUnaudited
    <3>2. QED
      BY <1>0, <2>1, <3>1 DEF ChangeUnaudited, WorkInv
  <2>2. ASSUME NEW v \in Requests, Moves(v), NEW w \in Requests, Alone(AccountOf[w])
        PROVE  Good(req'[w])
    <3>1. CASE w = v
      BY <1>2, <2>2, <3>1
    <3>2. CASE w # v
      <4>1. req'[w] = req[w]
        BY <2>2, <3>2, WriterStep
      <4>2. QED
        BY <1>1, <2>2, <3>2, <4>1 DEF WorkInv
    <3>3. QED
      BY <3>1, <3>2
  <2>3. ASSUME UNCHANGED vars, NEW w \in Requests, Alone(AccountOf[w])
        PROVE  Good(req'[w])
    BY <2>3 DEF vars, WorkInv
  <2>4. QED
    <3> HIDE DEF Good
    <3> QED  BY <2>1, <2>2, <2>3 DEF Next, Moves
<1>4. QED
  BY <1>3 DEF WorkInv, Alone

(* An idle request has no transaction. *)
IdleInv == \A w \in Requests : req[w].pc = "idle" => req[w].tx = NoTx

(* How the transaction a request works on changes: it takes one up, or     *)
(* lets it go with its last step.                                          *)
LEMMA TakesUp ==
    ASSUME TypeOK, WriterInv, IdleInv, NEW w \in Requests, Moves(w)
    PROVE  /\ req'[w].pc = "idle" => req'[w].tx = NoTx
           /\ \A t \in Txs : req[w].tx = t /\ req'[w].tx # t => Insert(w) \/ AuditFails(w)
           /\ \A t \in Txs, d \in Decisions : Decide(w, t, d) => req'[w].tx = t
<1> USE DEF TypeOK
<1>0. /\ req[w] \in Request
      /\ req[w].pc = "idle" => req[w].tx \notin Txs
  BY ValueAssumption DEF IdleInv
<1>1. ASSUME NEW t \in Txs, NEW d \in Decisions, Decide(w, t, d)
      PROVE  req[w].pc = "idle" /\ req'[w].pc # "idle" /\ req'[w].tx = t
  BY <1>1 DEF Decide, Enter, Idle
<1>2. ASSUME NEW t \in Txs, ReadForOverride(w, t)
      PROVE  req[w].pc = "idle" /\ req'[w].pc # "idle"
  BY <1>2 DEF ReadForOverride, Enter, Idle
<1>3. ASSUME NEW d \in Decisions, CommitOverride(w, d)
      PROVE  req'[w].pc # "idle" /\ req'[w].tx = req[w].tx
  BY <1>0, <1>3 DEF CommitOverride, Enter, Request
<1>4. CASE BeginAudit(w)
  <2>1. req'[w].pc # "idle" /\ req'[w].tx = req[w].tx
    BY <1>0, <1>4 DEF BeginAudit, Enter, Request
  <2>2. req[w].pc # "idle"
    BY <1>4 DEF BeginAudit
  <2>3. QED
    BY <2>1, <2>2 DEF Decide
<1>5. CASE ReadPrevious(w)
  <2>1. req'[w].pc # "idle" /\ req'[w].tx = req[w].tx
    BY <1>0, <1>5 DEF ReadPrevious, Enter, Request
  <2>2. req[w].pc # "idle"
    BY <1>5 DEF ReadPrevious
  <2>3. QED
    BY <2>1, <2>2 DEF Decide
<1>6. CASE Insert(w) \/ AuditFails(w)
  <2>1. req'[w].tx = NoTx /\ req[w].pc # "idle"
    BY <1>6 DEF Insert, AuditFails, Return, Enter, Idle
  <2>2. QED
    BY <1>6, <2>1 DEF Decide
<1>7. QED
  BY <1>0, <1>1, <1>2, <1>3, <1>4, <1>5, <1>6 DEF Moves

(* Idle requests stay without a transaction. *)
LEMMA IdleStep ==
    ASSUME TypeOK, WriterInv, IdleInv, [Next]_vars
    PROVE  IdleInv'
<1>1. ASSUME NEW v \in Requests, Moves(v)
      PROVE  IdleInv'
  <2>1. \A w \in Requests : w # v => req'[w] = req[w]
    BY <1>1, WriterStep DEF TypeOK
  <2>2. req'[v].pc = "idle" => req'[v].tx = NoTx
    BY <1>1, TakesUp
  <2>3. QED
    BY <2>1, <2>2 DEF IdleInv
<1>2. CASE UNCHANGED req
  BY <1>2 DEF IdleInv
<1>3. QED
  BY <1>1, <1>2 DEF Next, Moves, vars, ChangeUnaudited

(* What AuditTellsStatus asks of one transaction. *)
Told(t) ==
    \/ status[t] = "pending"
    \/ \E w \in Requests : req[w].tx = t
    \/ \E r \in audits : /\ r.tx = t
                         /\ r.decision = status[t]
                         /\ \A q \in audits : q.tx = t => q.ts <= r.ts

(* A request that changes a status keeps to its transaction until it has   *)
(* logged the change or failed to.                                         *)
LEMMA ToldStep ==
    ASSUME TypeOK, WriterInv, AloneInv, WorkInv, IdleInv, AuditTellsStatus, [Next]_vars
    PROVE  AuditTellsStatus'
<1> USE DEF TypeOK
<1>0. /\ req \in [Requests -> Request]
      /\ \A s \in Txs \ unaudited : Alone(OwnerOf[s]) => Told(s)
  BY DEF AuditTellsStatus, Told
<1> SUFFICES ASSUME NEW t \in Txs, t \notin unaudited', Alone(OwnerOf[t])
             PROVE  Told(t)'
  BY DEF AuditTellsStatus, Told, Alone
<1>same. ASSUME UNCHANGED audits, t \notin unaudited, status'[t] = status[t],
                \A w \in Requests : req[w].tx = t => req'[w].tx = t
         PROVE  Told(t)'
  BY <1>0, <1>same DEF Told
<1>works. ASSUME NEW w \in Requests, req'[w].tx = t
          PROVE  Told(t)'
  BY <1>works DEF Told
<1>1. CASE (\E s \in Txs, d \in Decisions : ChangeUnaudited(s, d)) \/ UNCHANGED vars
  BY <1>same, <1>1 DEF ChangeUnaudited, vars
<1>2. ASSUME NEW w \in Requests, Insert(w)
      PROVE  Told(t)'
  <2>0. PICK n : n = New(w)
    OBVIOUS
  <2>1. /\ audits' = audits \union {n} /\ UNCHANGED <<status, unaudited>>
        /\ OwnerOf[n.tx] = AccountOf[w] /\ n.tx = req[w].tx /\ n.tx \in Txs
        /\ n.decision = req[w].decision /\ n.ts = req[w].ts /\ n.ts \in Nat
        /\ req[w].pc = "insert"
    BY <1>2, <2>0 DEF Insert, New, WriterInv, Own, Request
  <2>2. CASE n.tx = t
    <3>1. Alone(AccountOf[w]) /\ t \notin unaudited
      BY <2>1, <2>2
    <3>2. n.decision = status[t]
      BY <2>1, <2>2, <3>1 DEF WorkInv
    <3>3. \A q \in Chain(AccountOf[w]) : q.ts < n.ts /\ q.ts \in Nat
      BY <2>1, <3>1 DEF AloneInv, Chain, Record
    <3>4. \A q \in audits : q.tx = t => q \in Chain(AccountOf[w])
      BY <2>1, <2>2 DEF Chain
    <3>5. \A q \in audits' : q.tx = t => q.ts <= n.ts
      BY <2>1, <3>3, <3>4
    <3>6. QED
      BY <2>1, <2>2, <3>2, <3>5 DEF Told
  <2>3. CASE n.tx # t
    <3>1. \A v \in Requests : req[v].tx = t => req'[v].tx = t
      <4>1. \A v \in Requests : v # w => req'[v] = req[v]
        BY <1>0, <1>2 DEF Insert, Return, Enter
      <4>2. QED
        BY <2>1, <2>3, <4>1
    <3>2. Told(t)
      BY <1>0, <2>1
    <3>3. QED
      BY <2>1, <2>3, <3>1, <3>2 DEF Told
  <2>4. QED
    BY <2>2, <2>3
<1>3. ASSUME NEW w \in Requests, AuditFails(w)
      PROVE  Told(t)'
  <2>1. /\ UNCHANGED <<audits, status>> /\ t \notin unaudited /\ req[w].tx # t
        /\ \A v \in Requests : v # w => req'[v] = req[v]
    BY <1>0, <1>3 DEF AuditFails, Return, Enter
  <2>2. QED
    BY <1>same, <2>1
<1>4. ASSUME NEW w \in Requests, Moves(w), ~Insert(w), ~AuditFails(w)
      PROVE  Told(t)'
  <2>1. UNCHANGED audits
    BY <1>4 DEF Moves, Decide, ReadForOverride, CommitOverride, BeginAudit, ReadPrevious
  <2>2. \A v \in Requests : req[v].tx = t => req'[v].tx = t
    BY <1>4, WriterStep, TakesUp
  <2>3. ASSUME NEW s \in Txs, NEW d \in Decisions, Decide(w, s, d)
        PROVE  Told(t)'
    <3>1. CASE s = t
      BY <1>works, <1>4, <2>3, <3>1, TakesUp
    <3>2. CASE s # t
      BY <1>same, <2>1, <2>2, <2>3, <3>2 DEF Decide
    <3>3. QED
      BY <3>1, <3>2
  <2>4. ASSUME NEW d \in Decisions, CommitOverride(w, d)
        PROVE  Told(t)'
    <3>1. CASE req[w].tx = t
      BY <1>works, <2>2, <3>1
    <3>2. CASE req[w].tx # t
      BY <1>same, <2>1, <2>2, <2>4, <3>2 DEF CommitOverride
    <3>3. QED
      BY <3>1, <3>2
  <2>5. CASE (\E s \in Txs : ReadForOverride(w, s)) \/ BeginAudit(w) \/ ReadPrevious(w)
    <3>1. UNCHANGED <<status, unaudited>>
      BY <2>5 DEF ReadForOverride, BeginAudit, ReadPrevious
    <3>2. QED
      BY <1>same, <2>1, <2>2, <3>1
  <2>6. QED
    BY <1>4, <2>3, <2>4, <2>5 DEF Moves
<1>5. QED
  BY <1>1, <1>2, <1>3, <1>4 DEF Next, Moves

(* The last record of a transaction tells its status, unless its last      *)
(* change went unlogged or requests of its owner overlap.                  *)
THEOREM AuditsTellStatus == Spec => []AuditTellsStatus
<1>1. Init => WorkInv /\ IdleInv /\ AuditTellsStatus
  <2> SUFFICES ASSUME Init PROVE WorkInv /\ IdleInv /\ AuditTellsStatus
    OBVIOUS
  <2>1. \A w \in Requests : req[w].pc = "idle" /\ req[w].tx = NoTx
    BY DEF Init, Idle
  <2>2. \A t \in Txs : status[t] = "pending"
    BY DEF Init
  <2>3. QED
    BY <2>1, <2>2 DEF WorkInv, IdleInv, AuditTellsStatus
<1>2. ChainInv /\ WorkInv /\ IdleInv /\ AuditTellsStatus /\ [Next]_vars
        => WorkInv' /\ IdleInv' /\ AuditTellsStatus'
  BY WorkStep, IdleStep, ToldStep DEF ChainInv
<1>3. QED
  BY Invariant, <1>1, <1>2, PTL DEF Spec
=============================================================================
