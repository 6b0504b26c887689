-------------------------- MODULE Dashboard_proofs --------------------------
(***************************************************************************)
(* The workers of the dashboard stream, for every number of workers and    *)
(* messages, every batch size and retry limit, and any number of faults    *)
(* and replays: no message vanishes, retries and counts are bounded, and   *)
(* stream, workers and counters implement Delivery.                        *)
(*                                                                         *)
(* The argument: an entry is in one place at a time, so the calls that are *)
(* still to come can be counted as entries.  Placed says where entries     *)
(* are, Kept that each message has one that nobody is about to remove,     *)
(* Tries what the retry count of an entry says, Sole that before its last  *)
(* retry a message has one entry to be processed, and the two Counts add   *)
(* up what was done and what is to come.                                   *)
(***************************************************************************)
EXTENDS Dashboard, FiniteSetTheorems, TLAPS

Entry == [id : Nat, msg : Msgs, tries : 0..MaxRetries]

Busy    == {"processing", "ack", "requeue", "bury", "requeueAck", "buryAck"}
Untried == {"processing"}
Owing   == {"processing", "requeue"}
Live    == {"processing", "ack", "requeue"}
Hands   == {"processing", "ack", "requeue", "bury"}
Undone  == {"processing", "requeue", "bury"}

\* The entries in w's hands, the current one only if w is at one of pcs.
Held(w, pcs) == wk[w].batch \union {e \in {wk[w].entry} : wk[w].pc \in pcs}

\* Those and the ones that were not delivered yet.
In(pcs) == backlog \union UNION {Held(w, pcs) : w \in Workers}
Of(m, pcs) == {e \in In(pcs) : e.msg = m}

Worker == [pc : Busy \union {"stopped", "reading"},
           entry : Entry \union {NoEntry}, batch : SUBSET Entry]

DashboardTypeOK ==
    /\ lastId \in Nat /\ faults \in Nat
    /\ backlog \subseteq Entry /\ dead \subseteq Entry
    /\ wk \in [Workers -> Worker]
    /\ \A w \in Workers : wk[w].pc \in Busy => wk[w].entry \in Entry
    /\ replay # NoEntry => replay \in Entry
    /\ tried \in [Msgs -> Nat] /\ counted \in [Msgs -> Nat] /\ replays \in [Msgs -> Nat]

Known(e) == e.id <= lastId /\ e.msg \in published

Placed ==
    /\ \A e \in In(Busy) \union dead : Known(e)
    /\ replay # NoEntry => Known(replay)
    /\ \A w \in Workers : \A e \in Held(w, Busy) : e \notin backlog
    /\ \A w \in Workers : wk[w].pc \in Busy => wk[w].entry \notin wk[w].batch
    /\ \A w, v \in Workers : \A e \in Held(w, Busy) : w # v => e \notin Held(v, Busy)

\* Nothing that is under way removes e from where it is.
Safe(e) ==
    /\ e \in backlog \union pending \union dead
    /\ replay # NoEntry => e # replay
    /\ \A w \in Workers :
         /\ wk[w].pc = "requeueAck" => e # wk[w].entry
         /\ wk[w].pc = "buryAck" /\ e = wk[w].entry => e \in dead

Kept ==
    /\ \A w \in Workers : wk[w].pc = "ack" => wk[w].entry.msg \in done
    /\ \A m \in published \ (done \union trimmed) :
         \E e \in backlog \union pending \union dead : e.msg = m /\ Safe(e)

Tries ==
    /\ \A e \in In(Untried) : tried[e.msg] >= e.tries
    /\ \A w \in Workers :
         /\ wk[w].pc \in {"ack", "requeue", "bury"} => tried[wk[w].entry.msg] > wk[w].entry.tries
         /\ wk[w].pc = "requeue" => wk[w].entry.tries < MaxRetries
         /\ wk[w].pc = "bury" => wk[w].entry.tries = MaxRetries
    /\ \A e \in dead : e.tries = MaxRetries /\ tried[e.msg] > MaxRetries

Sole ==
    /\ \A e \in In(Live) : e.tries < MaxRetries =>
         /\ \A f \in In(Live) : f.msg = e.msg => f = e
         /\ tried[e.msg] <= e.tries + 1
    /\ \A e \in In(Untried) : e.tries < MaxRetries => tried[e.msg] <= e.tries

TriesCount ==
    \A m \in Msgs :
        /\ m \notin published => tried[m] = 0
        /\ IsFiniteSet(Of(m, Untried))
        /\ tried[m] + Cardinality(Of(m, Untried)) <= MaxRetries + 1 + replays[m]

MetricsCount ==
    \A m \in Msgs :
        /\ m \notin published => counted[m] = 0
        /\ m \in done => counted[m] > 0
        /\ IsFiniteSet(Of(m, Owing))
        /\ counted[m] + Cardinality(Of(m, Owing)) <= 1 + faults + replays[m]

DashboardInv ==
    DashboardTypeOK /\ Placed /\ Kept /\ Tries /\ Sole /\ TriesCount /\ MetricsCount

-----------------------------------------------------------------------------
(* Counting.                                                               *)
LEMMA CountAtMost ==
    ASSUME NEW S, IsFiniteSet(S), NEW T, \A x \in T : x \in S
    PROVE  /\ IsFiniteSet(T) /\ Cardinality(T) \in Nat /\ Cardinality(S) \in Nat
           /\ Cardinality(T) <= Cardinality(S)
<1>1. T \in SUBSET S
  OBVIOUS
<1>2. QED
  BY <1>1, FS_Subset, FS_CardinalityType

LEMMA CountOneMore ==
    ASSUME NEW S, IsFiniteSet(S), NEW c, NEW T, \A x \in T : x \in S \/ x = c
    PROVE  /\ IsFiniteSet(T) /\ Cardinality(T) \in Nat /\ Cardinality(S) \in Nat
           /\ Cardinality(T) <= Cardinality(S) + 1
<1>1. /\ IsFiniteSet(S \union {c}) /\ Cardinality(S) \in Nat
      /\ Cardinality(S \union {c}) <= Cardinality(S) + 1
  BY FS_AddElement, FS_CardinalityType
<1>2. \A x \in T : x \in S \union {c}
  OBVIOUS
<1>3. IsFiniteSet(T) /\ Cardinality(T) \in Nat /\ Cardinality(T) <= Cardinality(S \union {c}) /\ Cardinality(S \union {c}) \in Nat
  BY <1>1, <1>2, CountAtMost
<1>4. QED
  BY <1>1, <1>3

LEMMA CountOneLess ==
    ASSUME NEW S, IsFiniteSet(S), NEW c \in S, NEW T, \A x \in T : x \in S /\ x # c
    PROVE  /\ IsFiniteSet(T) /\ Cardinality(T) \in Nat /\ Cardinality(S) \in Nat
           /\ Cardinality(T) + 1 <= Cardinality(S)
<1>1. /\ IsFiniteSet(S \ {c}) /\ Cardinality(S) \in Nat
      /\ Cardinality(S \ {c}) = Cardinality(S) - 1
  BY FS_RemoveElement, FS_CardinalityType
<1>2. \A x \in T : x \in S \ {c}
  OBVIOUS
<1>3. IsFiniteSet(T) /\ Cardinality(T) \in Nat /\ Cardinality(T) <= Cardinality(S \ {c}) /\ Cardinality(S \ {c}) \in Nat
  BY <1>1, <1>2, CountAtMost
<1>4. QED
  BY <1>1, <1>3

-----------------------------------------------------------------------------
(* What a step does to one worker's hands.                                 *)
LEMMA GotoHand ==
    ASSUME DashboardTypeOK, NEW w \in Workers, NEW pc \in Busy, wk[w].pc \in Busy, Goto(w, pc)
    PROVE  /\ wk' \in [Workers -> Worker]
           /\ wk'[w].pc = pc /\ wk'[w].entry = wk[w].entry /\ wk'[w].batch = wk[w].batch
           /\ \A v \in Workers \ {w} : wk'[v] = wk[v]
BY DEF DashboardTypeOK, Goto, Set, Worker

(* w has nothing left of what it held but its batch, or an entry whose     *)
(* successor or dead letter is there.                                      *)
LetsGo(w) ==
    /\ wk' \in [Workers -> Worker]
    /\ \A v \in Workers \ {w} : wk'[v] = wk[v]
    /\ \/ wk'[w].pc \in {"stopped", "reading"} /\ wk'[w].batch = {}
       \/ /\ wk'[w].pc = "processing" /\ wk'[w].entry \in wk[w].batch
          /\ wk'[w].batch = wk[w].batch \ {wk'[w].entry}
       \/ /\ wk[w].pc \in Busy /\ wk'[w].pc \in {"requeueAck", "buryAck"}
          /\ wk'[w].entry = wk[w].entry /\ wk'[w].batch = wk[w].batch

LEMMA StopLetsGo ==
    ASSUME DashboardTypeOK, NEW w \in Workers, NEW state \in {Stopped, Reading}, Set(w, state)
    PROVE  LetsGo(w) /\ wk'[w] = state
BY DEF DashboardTypeOK, Set, Stopped, Reading, LetsGo, Worker

LEMMA NextEntryLetsGo ==
    ASSUME DashboardTypeOK, NEW w \in Workers, NextEntry(w)
    PROVE  LetsGo(w) /\ wk'[w].pc \in {"reading", "processing"}
<1>1. CASE wk[w].batch = {}
  BY <1>1, StopLetsGo DEF NextEntry, Reading, Stopped
<1>2. CASE wk[w].batch # {}
  <2>1. PICK e \in wk[w].batch :
          Set(w, [pc |-> "processing", entry |-> e, batch |-> wk[w].batch \ {e}])
    BY <1>2 DEF NextEntry
  <2>2. e \in Entry /\ wk[w].batch \ {e} \in SUBSET Entry
    BY DEF DashboardTypeOK, Worker
  <2>3. [pc |-> "processing", entry |-> e, batch |-> wk[w].batch \ {e}] \in Worker
    BY <2>2 DEF Worker, Busy
  <2>4. QED
    BY <2>1, <2>3 DEF DashboardTypeOK, Set, LetsGo
<1>3. QED
  BY <1>1, <1>2

LEMMA LetsGoHolds ==
    ASSUME DashboardTypeOK, Placed, NEW w \in Workers, LetsGo(w),
           NEW v \in Workers, NEW pcs \in {Untried, Owing, Live, Hands, Undone, Busy}
    PROVE  /\ \A x \in Held(v, pcs)' : x \in Held(v, pcs)
           /\ wk'[v].pc \in Busy => wk'[v].entry \notin wk'[v].batch
<1>1. CASE v # w
  <2>1. wk'[v] = wk[v]
    BY <1>1 DEF LetsGo
  <2>2. QED
    BY <2>1 DEF Held, Placed
<1>2. CASE v = w
  <2>1. CASE wk'[w].pc \in {"stopped", "reading"} /\ wk'[w].batch = {}
    BY <1>2, <2>1 DEF Held, Untried, Owing, Live, Hands, Undone, Busy
  <2>2. CASE /\ wk'[w].pc = "processing" /\ wk'[w].entry \in wk[w].batch
             /\ wk'[w].batch = wk[w].batch \ {wk'[w].entry}
    BY <1>2, <2>2 DEF Held
  <2>3. CASE /\ wk[w].pc \in Busy /\ wk'[w].pc \in {"requeueAck", "buryAck"}
             /\ wk'[w].entry = wk[w].entry /\ wk'[w].batch = wk[w].batch
    <3>1. wk[w].entry \notin wk[w].batch
      BY <2>3 DEF Placed
    <3>2. pcs = Busy \/ wk'[w].pc \notin pcs
      BY <2>3 DEF Untried, Owing, Live, Hands, Undone
    <3>3. QED
      BY <1>2, <2>3, <3>1, <3>2 DEF Held
  <2>4. QED
    BY <2>1, <2>2, <2>3 DEF LetsGo
<1>3. QED
  BY <1>1, <1>2

(* The entry a worker is done with is nowhere else.                        *)
LEMMA LetsGoLoses ==
    ASSUME DashboardTypeOK, Placed, NEW w \in Workers, LetsGo(w), wk[w].pc \in Busy,
           NEW pcs \in {Untried, Owing, Live, Hands, Undone}, wk[w].entry \notin backlog'
    PROVE  wk[w].entry \notin In(pcs)'
<1> DEFINE e == wk[w].entry
<1>1. e \in Held(w, Busy) /\ e \notin wk[w].batch
  BY DEF Held, Placed
<1>2. ASSUME NEW v \in Workers, e \in Held(v, pcs)' PROVE FALSE
  <2>1. CASE v # w
    <3>1. e \in Held(v, Busy)
      BY <1>2, <2>1 DEF LetsGo, Held, Untried, Owing, Live, Hands, Undone, Busy
    <3>2. QED
      BY <1>1, <2>1, <3>1 DEF Placed
  <2>2. CASE v = w
    BY <1>1, <1>2, <2>2 DEF LetsGo, Held, Untried, Owing, Live, Hands, Undone
  <2>3. QED
    BY <2>1, <2>2
<1>3. QED
  BY <1>2 DEF In

LEMMA InMeans ==
    ASSUME NEW pcs, NEW x
    PROVE  /\ x \in In(pcs) <=> (x \in backlog \/ \E v \in Workers : x \in Held(v, pcs))
           /\ x \in In(pcs)' <=> (x \in backlog' \/ \E v \in Workers : x \in Held(v, pcs)')
BY DEF In

-----------------------------------------------------------------------------
(* Steps that call nothing and add nothing.                                *)
LEMMA QuietKeeps ==
    ASSUME DashboardInv, faults' \in Nat, faults' >= faults,
           tried' = tried, counted' = counted, replays' = replays,
           published' = published, done' = done,
           \A pcs \in {Untried, Owing, Live} : \A x \in In(pcs)' : x \in In(pcs),
           \A v \in Workers : wk'[v].pc \in {"ack", "requeue", "bury"} => wk'[v] = wk[v],
           \A x \in dead' : x \in dead \/ (x.tries = MaxRetries /\ tried[x.msg] > MaxRetries)
    PROVE  Tries' /\ Sole' /\ TriesCount' /\ MetricsCount'
<1>1. Tries /\ Sole /\ TriesCount /\ MetricsCount /\ DashboardTypeOK
  BY DEF DashboardInv
<1>2. Tries'
  BY <1>1 DEF Tries
<1>3. Sole'
  BY <1>1 DEF Sole
<1>4. ASSUME NEW m \in Msgs
      PROVE  /\ IsFiniteSet(Of(m, Untried)') /\ IsFiniteSet(Of(m, Owing)')
             /\ Cardinality(Of(m, Untried)') <= Cardinality(Of(m, Untried))
             /\ Cardinality(Of(m, Owing)') <= Cardinality(Of(m, Owing))
             /\ Cardinality(Of(m, Untried)') \in Nat /\ Cardinality(Of(m, Owing)') \in Nat
             /\ Cardinality(Of(m, Untried)) \in Nat /\ Cardinality(Of(m, Owing)) \in Nat
  <2>1. \A pcs \in {Untried, Owing} : \A x \in Of(m, pcs)' : x \in Of(m, pcs)
    BY DEF Of
  <2>2. IsFiniteSet(Of(m, Untried)) /\ IsFiniteSet(Of(m, Owing))
    BY <1>1 DEF TriesCount, MetricsCount
  <2>3. QED
    BY <2>1, <2>2, CountAtMost
<1>5. TriesCount'
  <2>1. \A m \in Msgs : tried[m] \in Nat /\ replays[m] \in Nat
    BY <1>1 DEF DashboardTypeOK
  <2>2. QED
    BY <1>1, <1>4, <2>1, BoundsAssumption DEF TriesCount
<1>6. MetricsCount'
  <2>1. \A m \in Msgs : counted[m] \in Nat /\ replays[m] \in Nat
    BY <1>1 DEF DashboardTypeOK
  <2>2. faults \in Nat
    BY <1>1 DEF DashboardTypeOK
  <2>3. QED
    BY <1>1, <1>4, <2>1, <2>2 DEF MetricsCount
<1>7. QED
  BY <1>2, <1>3, <1>5, <1>6

(* Entries move from the backlog to the reader r, disappear, or are added  *)
(* with the next id.                                                       *)
LEMMA PlacedKeeps ==
    ASSUME DashboardTypeOK, Placed, NEW r,
           lastId' \in Nat, lastId' >= lastId, \A m \in published : m \in published',
           \A x \in backlog' : x \in backlog \/
             (lastId' = lastId + 1 /\ x.id = lastId + 1 /\ x.msg \in published'),
           \A v \in Workers : \A x \in Held(v, Busy)' :
             x \in Held(v, Busy) \/ (v = r /\ x \in backlog /\ x \notin backlog'),
           \A v \in Workers : wk'[v].pc \in Busy => wk'[v].entry \notin wk'[v].batch,
           \A x \in dead' : x \in dead \/ x \in In(Busy),
           replay' # NoEntry => (replay' = replay \/ replay' \in dead)
    PROVE  Placed'
<1>1. \A x \in In(Busy) \union dead : Known(x) /\ x.id \in Nat
  <2>1. \A x \in In(Busy) : x \in Entry
    BY DEF DashboardTypeOK, In, Held, Worker
  <2>2. QED
    BY <2>1 DEF Placed, DashboardTypeOK, Entry
<1>2. \A x : (Known(x) /\ x.id \in Nat) => Known(x)'
  BY DEF Known, DashboardTypeOK
<1>3. \A v \in Workers : \A x \in Held(v, Busy) : x \in In(Busy)
  BY InMeans
<1>4. \A x \in backlog : x \in In(Busy)
  BY InMeans
<1>5. \A x \in backlog' : Known(x)'
  BY <1>1, <1>2, <1>4 DEF Known
<1>6. \A v \in Workers : \A x \in Held(v, Busy)' : x \in In(Busy)
  BY <1>3, <1>4
<1>7. \A x \in In(Busy)' \union dead' : Known(x)'
  BY <1>1, <1>2, <1>5, <1>6, InMeans
<1>8. replay' # NoEntry => Known(replay)'
  BY <1>1, <1>2 DEF Placed, DashboardTypeOK, Entry
<1>9. \A v \in Workers : \A x \in Held(v, Busy)' : x \notin backlog'
  <2>1. ASSUME NEW v \in Workers, NEW x \in Held(v, Busy)', x \in backlog' PROVE FALSE
    <3>1. x \in Held(v, Busy) /\ x \notin backlog
      BY <2>1 DEF Placed
    <3>2. x.id = lastId + 1
      BY <2>1, <3>1
    <3>3. x.id <= lastId
      BY <1>1, <1>3, <3>1 DEF Known
    <3>4. QED
      BY <3>2, <3>3 DEF DashboardTypeOK
  <2>2. QED
    BY <2>1
<1>10. \A v, u \in Workers : \A x \in Held(v, Busy)' : v # u => x \notin Held(u, Busy)'
  BY DEF Placed
<1>11. QED
  BY <1>7, <1>8, <1>9, <1>10 DEF Placed

-----------------------------------------------------------------------------
(* process() is called for the entry e of w.                               *)
LEMMA CallMoves ==
    ASSUME DashboardTypeOK, Placed, NEW w \in Workers, wk[w].pc = "processing",
           NEW pc \in {"ack", "requeue", "bury"}, Goto(w, pc), backlog' = backlog
    PROVE  /\ wk' \in [Workers -> Worker]
           /\ wk'[w].pc = pc /\ wk'[w].entry = wk[w].entry
           /\ \A v \in Workers \ {w} : wk'[v] = wk[v]
           /\ \A pcs \in {Untried, Owing, Live, Hands, Undone, Busy} : \A v \in Workers :
                \A x \in Held(v, pcs)' : x \in Held(v, pcs)
           /\ \A v \in Workers : wk'[v].pc \in Busy => wk'[v].entry \notin wk'[v].batch
           /\ \A pcs \in {Untried, Owing, Live, Hands, Undone} : \A x \in In(pcs)' : x \in In(pcs)
           /\ wk[w].entry \in In(Untried) /\ wk[w].entry \in In(Owing) /\ wk[w].entry \in In(Live)
           /\ wk[w].entry \notin In(Untried)'
           /\ wk[w].entry \in In(Hands)
           /\ pc = "ack" => wk[w].entry \notin In(Owing)' /\ wk[w].entry \notin In(Undone)'
<1>1. /\ wk' \in [Workers -> Worker]
      /\ wk'[w].pc = pc /\ wk'[w].entry = wk[w].entry /\ wk'[w].batch = wk[w].batch
      /\ \A v \in Workers \ {w} : wk'[v] = wk[v]
  BY GotoHand DEF Busy
<1>2. ASSUME NEW pcs \in {Untried, Owing, Live, Hands, Undone, Busy}, NEW v \in Workers, NEW x \in Held(v, pcs)'
      PROVE  x \in Held(v, pcs)
  BY <1>1, <1>2 DEF Held, Untried, Owing, Live, Hands, Undone, Busy
<1>3. \A v \in Workers : wk'[v].pc \in Busy => wk'[v].entry \notin wk'[v].batch
  BY <1>1 DEF Placed, Busy
<1>4. \A pcs \in {Untried, Owing, Live, Hands, Undone} : \A x \in In(pcs)' : x \in In(pcs)
  BY <1>2, InMeans
<1>5. wk[w].entry \in Held(w, Untried) /\ wk[w].entry \in Held(w, Owing) /\ wk[w].entry \in Held(w, Live)
      /\ wk[w].entry \in Held(w, Hands)
  BY DEF Held, Untried, Owing, Live, Hands
<1>6. wk[w].entry \in In(Untried) /\ wk[w].entry \in In(Owing) /\ wk[w].entry \in In(Live)
      /\ wk[w].entry \in In(Hands)
  BY <1>5, InMeans
<1>7. ASSUME NEW pcs \in {Untried, Owing, Undone}, pc \notin pcs PROVE wk[w].entry \notin In(pcs)'
  <2>1. wk[w].entry \in Held(w, Busy) /\ wk[w].entry \notin wk[w].batch
    BY DEF Held, Placed, Busy
  <2>2. wk[w].entry \notin backlog'
    BY <2>1 DEF Placed
  <2>3. wk[w].entry \notin Held(w, pcs)'
    BY <1>1, <1>7, <2>1 DEF Held
  <2>4. ASSUME NEW v \in Workers, v # w PROVE wk[w].entry \notin Held(v, pcs)'
    <3>1. wk[w].entry \notin Held(v, Busy)
      BY <2>1, <2>4 DEF Placed
    <3>2. QED
      BY <1>1, <2>4, <3>1 DEF Held, Busy, Untried, Owing, Undone
  <2>5. QED
    BY <2>2, <2>3, <2>4, InMeans
<1>8. pc \notin Untried /\ (pc = "ack" => pc \notin Owing /\ pc \notin Undone)
  BY DEF Untried, Owing, Undone
<1>9. QED
  BY <1>1, <1>2, <1>3, <1>4, <1>6, <1>7, <1>8

LEMMA CallKeepsTries ==
    ASSUME DashboardInv, NEW w \in Workers, wk[w].pc = "processing",
           NEW pc \in {"ack", "requeue", "bury"}, Goto(w, pc), backlog' = backlog, dead' = dead,
           pc = "requeue" => wk[w].entry.tries < MaxRetries,
           pc = "bury" => wk[w].entry.tries = MaxRetries,
           tried' = [tried EXCEPT ![wk[w].entry.msg] = @ + 1]
    PROVE  Tries' /\ Sole'
<1> DEFINE e == wk[w].entry
<1>1. DashboardTypeOK /\ Placed /\ Tries /\ Sole
  BY DEF DashboardInv
<1>2. e \in Entry /\ e.msg \in Msgs /\ e.tries \in 0..MaxRetries
  BY <1>1 DEF DashboardTypeOK, Entry, Busy
<1>3. /\ wk'[w].pc = pc /\ wk'[w].entry = e
      /\ \A v \in Workers \ {w} : wk'[v] = wk[v]
      /\ \A x \in In(Untried)' : x \in In(Untried)
      /\ \A x \in In(Live)' : x \in In(Live)
      /\ e \in In(Untried) /\ e \in In(Live) /\ e \notin In(Untried)'
  BY <1>1, CallMoves
<1>4. \A x \in In(Live) : x \in Entry
  BY <1>1 DEF DashboardTypeOK, In, Held, Worker, Live, Busy
<1>5. \A x \in In(Untried) : x \in In(Live)
  BY DEF In, Held, Live, Untried
<1>6. /\ \A m \in Msgs : tried[m] \in Nat /\ tried'[m] \in Nat /\ tried'[m] >= tried[m]
      /\ tried'[e.msg] = tried[e.msg] + 1
      /\ \A m \in Msgs : m # e.msg => tried'[m] = tried[m]
  BY <1>1, <1>2 DEF DashboardTypeOK
<1>7. tried[e.msg] >= e.tries
  BY <1>1, <1>3 DEF Tries
<1> HIDE DEF e
<1>8. Tries'
  <2>1. ASSUME NEW x \in In(Untried)' PROVE tried'[x.msg] >= x.tries
    <3>1. x \in In(Untried) /\ x.msg \in Msgs /\ x.tries \in Nat
      BY <1>3, <1>4, <1>5, BoundsAssumption DEF Entry
    <3>2. tried[x.msg] >= x.tries
      BY <1>1, <3>1 DEF Tries
    <3>3. QED
      BY <1>6, <3>1, <3>2
  <2>2. ASSUME NEW v \in Workers, wk'[v].pc \in {"ack", "requeue", "bury"}
        PROVE  /\ tried'[wk'[v].entry.msg] > wk'[v].entry.tries
               /\ wk'[v].pc = "requeue" => wk'[v].entry.tries < MaxRetries
               /\ wk'[v].pc = "bury" => wk'[v].entry.tries = MaxRetries
    <3>1. CASE v = w
      <4>1. tried'[e.msg] > e.tries
        BY <1>2, <1>6, <1>7, BoundsAssumption
      <4>2. QED
        BY <1>3, <3>1, <4>1 DEF e
    <3>2. CASE v # w
      <4>1. wk'[v] = wk[v] /\ wk[v].entry \in Entry
        BY <1>1, <1>3, <2>2, <3>2 DEF DashboardTypeOK, Busy
      <4>2. wk[v].entry.msg \in Msgs /\ wk[v].entry.tries \in Nat
        BY <4>1, BoundsAssumption DEF Entry
      <4>3. /\ tried[wk[v].entry.msg] > wk[v].entry.tries
            /\ wk[v].pc = "requeue" => wk[v].entry.tries < MaxRetries
            /\ wk[v].pc = "bury" => wk[v].entry.tries = MaxRetries
        BY <1>1, <2>2, <4>1 DEF Tries
      <4>4. tried'[wk[v].entry.msg] > wk[v].entry.tries
        BY <1>6, <4>2, <4>3
      <4>5. QED
        BY <4>1, <4>3, <4>4
    <3>3. QED
      BY <3>1, <3>2
  <2>3. ASSUME NEW x \in dead PROVE x.tries = MaxRetries /\ tried'[x.msg] > MaxRetries
    <3>1. x.msg \in Msgs /\ x.tries = MaxRetries /\ tried[x.msg] > MaxRetries
      BY <1>1 DEF DashboardTypeOK, Entry, Tries
    <3>2. QED
      BY <1>6, <3>1, BoundsAssumption
  <2>4. QED
    BY <2>1, <2>2, <2>3 DEF Tries
<1>9. Sole'
  <2>1. ASSUME NEW x \in In(Live)', x.tries < MaxRetries
        PROVE  /\ \A f \in In(Live)' : f.msg = x.msg => f = x
               /\ tried'[x.msg] <= x.tries + 1
               /\ x # e => tried'[x.msg] = tried[x.msg]
    <3>1. x \in In(Live) /\ x.msg \in Msgs /\ x.tries \in Nat
      BY <1>3, <1>4, BoundsAssumption DEF Entry
    <3>2. (\A f \in In(Live) : f.msg = x.msg => f = x) /\ tried[x.msg] <= x.tries + 1
      BY <1>1, <2>1, <3>1 DEF Sole
    <3>3. x # e => x.msg # e.msg
      BY <1>3, <3>2
    <3>4. x = e => tried[e.msg] <= e.tries
      BY <1>1, <1>3, <2>1 DEF Sole
    <3>5. tried'[x.msg] <= x.tries + 1
      BY <1>2, <1>6, <3>1, <3>2, <3>3, <3>4
    <3>6. QED
      BY <1>3, <1>6, <3>1, <3>2, <3>3, <3>5
  <2>2. ASSUME NEW x \in In(Untried)', x.tries < MaxRetries PROVE tried'[x.msg] <= x.tries
    <3>1. x \in In(Untried) /\ x # e
      BY <1>3
    <3>2. x \in In(Live)'
      BY <2>2 DEF In, Held, Live, Untried
    <3>3. tried[x.msg] <= x.tries
      BY <1>1, <2>2, <3>1 DEF Sole
    <3>4. QED
      BY <2>1, <2>2, <3>1, <3>2, <3>3
  <2>3. QED
    BY <2>1, <2>2 DEF Sole
<1>10. QED
  BY <1>8, <1>9

(* The entry leaves those that process() is to be called for; the counters *)
(* grow when it no longer owes them anything, or for a fault.              *)
LEMMA CallKeepsCounts ==
    ASSUME DashboardInv, NEW w \in Workers, wk[w].pc = "processing",
           NEW pc \in {"ack", "requeue", "bury"}, Goto(w, pc), backlog' = backlog,
           tried' = [tried EXCEPT ![wk[w].entry.msg] = @ + 1],
           replays' = replays, published' = published, faults' \in Nat, faults' >= faults,
           \/ /\ pc = "ack" /\ done' = done \union {wk[w].entry.msg}
              /\ CountIt(wk[w].entry.msg)
           \/ done' = done /\ counted' = counted
           \/ done' = done /\ faults' = faults + 1 /\ CountIt(wk[w].entry.msg)
    PROVE  TriesCount' /\ MetricsCount'
<1> DEFINE e == wk[w].entry
<1>1. DashboardTypeOK /\ Placed /\ TriesCount /\ MetricsCount
  BY DEF DashboardInv
<1>2. e \in Entry /\ e.msg \in Msgs
  BY <1>1 DEF DashboardTypeOK, Entry, Busy
<1>3. /\ \A pcs \in {Untried, Owing} : \A x \in In(pcs)' : x \in In(pcs)
      /\ e \in In(Untried) /\ e \in In(Owing) /\ e \notin In(Untried)'
      /\ pc = "ack" => e \notin In(Owing)'
  BY <1>1, CallMoves
<1>4. e \in Held(w, Busy)
  BY DEF Held, Busy
<1>5. e.msg \in published
  BY <1>1, <1>4, InMeans DEF Placed, Known
<1>6. /\ \A m \in Msgs : tried[m] \in Nat /\ tried'[m] \in Nat /\ replays[m] \in Nat /\ counted[m] \in Nat
      /\ tried'[e.msg] = tried[e.msg] + 1
      /\ \A m \in Msgs : m # e.msg => tried'[m] = tried[m]
      /\ faults \in Nat
  BY <1>1, <1>2 DEF DashboardTypeOK
<1>7. \A m \in Msgs : \A pcs \in {Untried, Owing} : \A x \in Of(m, pcs)' : x \in Of(m, pcs)
  BY <1>3 DEF Of
<1>8. ASSUME NEW m \in Msgs, m = e.msg
      PROVE  /\ e \in Of(m, Untried) /\ e \in Of(m, Owing)
             /\ \A x \in Of(m, Untried)' : x # e
             /\ pc = "ack" => \A x \in Of(m, Owing)' : x # e
  BY <1>3, <1>8 DEF Of
<1>9. \A m \in Msgs : IsFiniteSet(Of(m, Untried)) /\ IsFiniteSet(Of(m, Owing))
  BY <1>1 DEF TriesCount, MetricsCount
<1> HIDE DEF e
<1>10. ASSUME NEW m \in Msgs
       PROVE  /\ m \notin published => tried'[m] = 0
              /\ IsFiniteSet(Of(m, Untried)')
              /\ tried'[m] + Cardinality(Of(m, Untried)') <= MaxRetries + 1 + replays[m]
  <2>1. /\ m \notin published => tried[m] = 0
        /\ tried[m] + Cardinality(Of(m, Untried)) <= MaxRetries + 1 + replays[m]
    BY <1>1 DEF TriesCount
  <2>2. CASE m = e.msg
    <3>1. \A x \in Of(m, Untried)' : x \in Of(m, Untried) /\ x # e
      BY <1>7, <1>8, <2>2
    <3>2. /\ IsFiniteSet(Of(m, Untried)') /\ Cardinality(Of(m, Untried)') \in Nat
          /\ Cardinality(Of(m, Untried)) \in Nat
          /\ Cardinality(Of(m, Untried)') + 1 <= Cardinality(Of(m, Untried))
      BY <1>8, <1>9, <2>2, <3>1, CountOneLess
    <3>3. QED
      BY <1>5, <1>6, <2>1, <2>2, <3>2, BoundsAssumption
  <2>3. CASE m # e.msg
    <3>1. /\ IsFiniteSet(Of(m, Untried)') /\ Cardinality(Of(m, Untried)') \in Nat
          /\ Cardinality(Of(m, Untried)) \in Nat
          /\ Cardinality(Of(m, Untried)') <= Cardinality(Of(m, Untried))
      BY <1>7, <1>9, CountAtMost
    <3>2. QED
      BY <1>6, <2>1, <2>3, <3>1, BoundsAssumption
  <2>4. QED
    BY <2>2, <2>3
<1>11. ASSUME NEW m \in Msgs
       PROVE  /\ m \notin published => counted'[m] = 0
              /\ m \in done' => counted'[m] > 0
              /\ IsFiniteSet(Of(m, Owing)')
              /\ counted'[m] + Cardinality(Of(m, Owing)') <= 1 + faults' + replays[m]
  <2>1. /\ m \notin published => counted[m] = 0
        /\ m \in done => counted[m] > 0
        /\ counted[m] + Cardinality(Of(m, Owing)) <= 1 + faults + replays[m]
    BY <1>1 DEF MetricsCount
  <2>2. /\ IsFiniteSet(Of(m, Owing)') /\ Cardinality(Of(m, Owing)') \in Nat
        /\ Cardinality(Of(m, Owing)) \in Nat
        /\ Cardinality(Of(m, Owing)') <= Cardinality(Of(m, Owing))
    BY <1>7, <1>9, CountAtMost
  <2>3. ASSUME CountIt(e.msg)
        PROVE  /\ counted'[e.msg] = counted[e.msg] + 1
               /\ m # e.msg => counted'[m] = counted[m]
    BY <1>1, <1>2, <2>3 DEF CountIt, DashboardTypeOK
  <2>4. CASE m # e.msg
    <3>1. counted'[m] = counted[m] /\ (m \in done' => m \in done)
      BY <2>3, <2>4 DEF e
    <3>2. QED
      BY <1>6, <2>1, <2>2, <3>1
  <2>5. CASE m = e.msg /\ done' = done /\ counted' = counted
    BY <1>6, <2>1, <2>2, <2>5
  <2>6. CASE m = e.msg /\ done' = done /\ faults' = faults + 1 /\ CountIt(e.msg)
    BY <1>5, <1>6, <2>1, <2>2, <2>3, <2>6
  <2>7. CASE m = e.msg /\ pc = "ack" /\ CountIt(e.msg)
    <3>1. \A x \in Of(m, Owing)' : x \in Of(m, Owing) /\ x # e
      BY <1>7, <1>8, <2>7
    <3>2. /\ Cardinality(Of(m, Owing)') + 1 <= Cardinality(Of(m, Owing))
      BY <1>8, <1>9, <2>7, <3>1, CountOneLess
    <3>3. QED
      BY <1>5, <1>6, <2>1, <2>2, <2>3, <2>7, <3>2
  <2>8. QED
    BY <2>4, <2>5, <2>6, <2>7 DEF e
<1>12. TriesCount'
  BY <1>10 DEF TriesCount
<1>13. MetricsCount'
  BY <1>11 DEF MetricsCount
<1>14. QED
  BY <1>12, <1>13

-----------------------------------------------------------------------------
(* Steps that add one entry: that of a publication, the copy that takes    *)
(* the place of a failed one, or a dead letter sent back.                  *)
LEMMA AddKeeps ==
    ASSUME DashboardInv, NEW c \in Entry,
           tried' = tried, counted' = counted, done' = done, faults' \in Nat, faults' >= faults,
           replays' \in [Msgs -> Nat], \A m \in Msgs : replays'[m] >= replays[m],
           \A m \in published : m \in published',
           \A pcs \in {Untried, Owing, Live} : \A x \in In(pcs)' : x \in In(pcs) \/ x = c,
           \A v \in Workers : wk'[v].pc \in {"ack", "requeue", "bury"} => wk'[v] = wk[v],
           dead' = dead, tried[c.msg] >= c.tries,
           \/ /\ tried[c.msg] <= c.tries
              /\ \A x \in In(Live)' : x.msg = c.msg => x = c
              /\ \/ c.msg \notin published
                 \/ \E e \in In(Owing) : e.msg = c.msg /\ \A x \in In(Owing)' : x # e
           \/ /\ c.tries = MaxRetries /\ tried[c.msg] > MaxRetries
              /\ replays'[c.msg] = replays[c.msg] + 1
    PROVE  Tries' /\ Sole' /\ TriesCount' /\ MetricsCount'
<1> USE BoundsAssumption
<1>1. DashboardTypeOK /\ Tries /\ Sole /\ TriesCount /\ MetricsCount
  BY DEF DashboardInv
<1>2. c.msg \in Msgs /\ c.tries \in Nat /\ c.tries <= MaxRetries
  BY DEF Entry
<1>3. /\ \A m \in Msgs : tried[m] \in Nat /\ counted[m] \in Nat
      /\ \A m \in Msgs : replays[m] \in Nat /\ replays'[m] \in Nat
      /\ faults \in Nat
  BY <1>1 DEF DashboardTypeOK
<1>4. \A x \in In(Live) : x \in Entry
  BY <1>1 DEF DashboardTypeOK, In, Held, Worker, Live, Busy
<1>5. \A x \in In(Live)' : x.tries \in Nat /\ x.msg \in Msgs
  <2>1. \A x \in In(Live)' : x \in Entry
    BY <1>4
  <2>2. QED
    BY <2>1 DEF Entry
<1>6. /\ \A x \in In(Untried)' : x \in In(Live)'
      /\ \A x \in In(Owing)' : x \in In(Live)'
  BY DEF In, Held, Live, Untried, Owing
<1>7. Tries'
  BY <1>1 DEF Tries
<1>8. ASSUME NEW x \in In(Live)', x.tries < MaxRetries
      PROVE  /\ \A f \in In(Live)' : f.msg = x.msg => f = x
             /\ tried[x.msg] <= x.tries + 1
  <2>1. CASE x = c
    BY <1>2, <1>3, <1>8, <2>1
  <2>2. CASE x # c
    <3>1. x \in In(Live)
      BY <2>2
    <3>2. (\A f \in In(Live) : f.msg = x.msg => f = x) /\ tried[x.msg] <= x.tries + 1
      BY <1>1, <1>8, <3>1 DEF Sole
    <3>3. x.msg # c.msg
      BY <1>2, <1>3, <1>5, <1>8, <2>2, <3>2
    <3>4. QED
      BY <3>2, <3>3
  <2>3. QED
    BY <2>1, <2>2
<1>9. ASSUME NEW x \in In(Untried)', x.tries < MaxRetries PROVE tried[x.msg] <= x.tries
  <2>1. CASE x = c
    BY <1>2, <1>3, <1>9, <2>1
  <2>2. CASE x # c
    BY <1>1, <1>9, <2>2 DEF Sole
  <2>3. QED
    BY <2>1, <2>2
<1>10. Sole'
  BY <1>8, <1>9 DEF Sole
<1>11. ASSUME NEW m \in Msgs
       PROVE  /\ IsFiniteSet(Of(m, Untried)') /\ IsFiniteSet(Of(m, Owing)')
              /\ Cardinality(Of(m, Untried)') \in Nat /\ Cardinality(Of(m, Untried)) \in Nat
              /\ Cardinality(Of(m, Owing)') \in Nat /\ Cardinality(Of(m, Owing)) \in Nat
              /\ Cardinality(Of(m, Untried)') <= Cardinality(Of(m, Untried)) + 1
              /\ Cardinality(Of(m, Owing)') <= Cardinality(Of(m, Owing)) + 1
              /\ m # c.msg => /\ Cardinality(Of(m, Untried)') <= Cardinality(Of(m, Untried))
                              /\ Cardinality(Of(m, Owing)') <= Cardinality(Of(m, Owing))
  <2>1. \A pcs \in {Untried, Owing} : \A x \in Of(m, pcs)' : x \in Of(m, pcs) \/ x = c
    BY DEF Of
  <2>2. m # c.msg => \A pcs \in {Untried, Owing} : \A x \in Of(m, pcs)' : x \in Of(m, pcs)
    BY DEF Of
  <2>3. IsFiniteSet(Of(m, Untried)) /\ IsFiniteSet(Of(m, Owing))
    BY <1>1 DEF TriesCount, MetricsCount
  <2>4. \A pcs \in {Untried, Owing} :
           IsFiniteSet(Of(m, pcs)) => 
             /\ IsFiniteSet(Of(m, pcs)') /\ Cardinality(Of(m, pcs)') \in Nat /\ Cardinality(Of(m, pcs)) \in Nat
             /\ Cardinality(Of(m, pcs)') <= Cardinality(Of(m, pcs)) + 1
    BY <2>1, CountOneMore
  <2>5. \A pcs \in {Untried, Owing} :
           m # c.msg /\ IsFiniteSet(Of(m, pcs)) =>
             Cardinality(Of(m, pcs)') <= Cardinality(Of(m, pcs))
    BY <2>2, CountAtMost
  <2>6. QED
    BY <2>3, <2>4, <2>5
<1>12. ASSUME NEW m \in Msgs, m = c.msg, \A x \in In(Live)' : x.msg = c.msg => x = c
       PROVE  Cardinality(Of(m, Untried)') <= 1 /\ Cardinality(Of(m, Owing)') <= 1
  <2>1. \A pcs \in {Untried, Owing} : \A x \in Of(m, pcs)' : x \in {} \/ x = c
    BY <1>6, <1>12 DEF Of
  <2>2. IsFiniteSet({}) /\ Cardinality({}) = 0
    BY FS_EmptySet
  <2>3. \A pcs \in {Untried, Owing} : Cardinality(Of(m, pcs)') <= Cardinality({}) + 1
    BY <2>1, <2>2, CountOneMore
  <2>4. QED
    BY <2>2, <2>3
<1>13. ASSUME NEW m \in Msgs
       PROVE  /\ m \notin published => tried[m] = 0 /\ counted[m] = 0
              /\ m \in done => counted[m] > 0
              /\ tried[m] + Cardinality(Of(m, Untried)) <= MaxRetries + 1 + replays[m]
              /\ counted[m] + Cardinality(Of(m, Owing)) <= 1 + faults + replays[m]
  BY <1>1 DEF TriesCount, MetricsCount
<1>14. ASSUME NEW m \in Msgs
       PROVE  tried[m] + Cardinality(Of(m, Untried)') <= MaxRetries + 1 + replays'[m]
  <2>1. CASE m # c.msg
    BY <1>3, <1>11, <1>13, <2>1
  <2>2. CASE m = c.msg /\ tried[c.msg] <= c.tries /\ \A x \in In(Live)' : x.msg = c.msg => x = c
    BY <1>2, <1>3, <1>11, <1>12, <2>2
  <2>3. CASE m = c.msg /\ replays'[c.msg] = replays[c.msg] + 1
    BY <1>3, <1>11, <1>13, <2>3
  <2>4. QED
    BY <2>1, <2>2, <2>3
<1>15. ASSUME NEW m \in Msgs
       PROVE  counted[m] + Cardinality(Of(m, Owing)') <= 1 + faults' + replays'[m]
  <2>1. CASE m # c.msg
    BY <1>3, <1>11, <1>13, <2>1
  <2>2. CASE m = c.msg /\ c.msg \notin published /\ \A x \in In(Live)' : x.msg = c.msg => x = c
    BY <1>3, <1>11, <1>12, <1>13, <2>2
  <2>3. CASE m = c.msg /\ \E e \in In(Owing) : e.msg = c.msg /\ \A x \in In(Owing)' : x # e
    <3>1. PICK e \in In(Owing) : e.msg = c.msg /\ \A x \in In(Owing)' : x # e
      BY <2>3
    <3>2. \A x \in Of(m, Owing)' : x = c \/ (x \in Of(m, Owing) /\ x # e)
      BY <3>1 DEF Of
    <3>3. e \in Of(m, Owing) /\ IsFiniteSet(Of(m, Owing))
      BY <1>1, <2>3, <3>1 DEF Of, MetricsCount
    <3>4. /\ IsFiniteSet(Of(m, Owing) \ {e}) /\ Cardinality(Of(m, Owing) \ {e}) \in Nat
          /\ Cardinality(Of(m, Owing) \ {e}) + 1 <= Cardinality(Of(m, Owing))
      BY <3>3, CountOneLess
    <3>5. Cardinality(Of(m, Owing)') <= Cardinality(Of(m, Owing) \ {e}) + 1
      BY <3>2, <3>4, CountOneMore
    <3>6. QED
      BY <1>3, <1>11, <1>13, <3>4, <3>5
  <2>4. CASE m = c.msg /\ replays'[c.msg] = replays[c.msg] + 1
    BY <1>3, <1>11, <1>13, <2>4
  <2>5. QED
    BY <2>1, <2>2, <2>3, <2>4
<1>16. TriesCount'
  BY <1>11, <1>13, <1>14 DEF TriesCount
<1>17. MetricsCount'
  BY <1>11, <1>13, <1>15 DEF MetricsCount
<1>18. QED
  BY <1>7, <1>10, <1>16, <1>17

-----------------------------------------------------------------------------
(* The steps after which w goes on without what it had in hand.            *)
LEMMA LetsGoKeeps ==
    ASSUME DashboardInv, NEW w \in Workers, LetsGo(w), faults' \in Nat, faults' >= faults,
           UNCHANGED <<lastId, backlog, replay, history, counted>>,
           \A x \in dead' : x \in dead \/ (wk[w].pc = "bury" /\ x = wk[w].entry)
    PROVE  DashboardTypeOK' /\ Placed' /\ Tries' /\ Sole' /\ TriesCount' /\ MetricsCount'
<1>1. DashboardTypeOK /\ Placed /\ Tries
  BY DEF DashboardInv
<1>2. wk[w].pc = "bury" =>
        /\ wk[w].entry \in Entry /\ wk[w].entry \in In(Busy)
        /\ wk[w].entry.tries = MaxRetries /\ tried[wk[w].entry.msg] > MaxRetries
  <2>1. wk[w].pc = "bury" => wk[w].entry \in Entry /\ wk[w].entry \in Held(w, Busy)
    BY <1>1 DEF DashboardTypeOK, Busy, Held
  <2>2. wk[w].pc = "bury" => wk[w].entry.tries = MaxRetries /\ tried[wk[w].entry.msg] > MaxRetries
    BY <1>1 DEF Tries
  <2>3. QED
    BY <2>1, <2>2, InMeans
<1>3. \A v \in Workers : wk'[v].pc \in Busy => wk'[v].entry \in Entry
  <2>1. \A v \in Workers : wk[v].pc \in Busy => wk[v].entry \in Entry
    BY <1>1 DEF DashboardTypeOK
  <2>2. wk[w].batch \subseteq Entry
    BY <1>1 DEF DashboardTypeOK, Worker
  <2>3. wk'[w].pc \in Busy => wk'[w].entry \in Entry
    BY <2>1, <2>2 DEF LetsGo, Busy
  <2>4. QED
    BY <2>1, <2>3 DEF LetsGo
<1>4. DashboardTypeOK'
  BY <1>1, <1>2, <1>3 DEF DashboardTypeOK, LetsGo, history
<1>5. \A pcs \in {Untried, Owing, Live, Busy} : \A v \in Workers : \A x \in Held(v, pcs)' : x \in Held(v, pcs)
  BY <1>1, LetsGoHolds
<1>6. \A v \in Workers : wk'[v].pc \in Busy => wk'[v].entry \notin wk'[v].batch
  BY <1>1, LetsGoHolds
<1>7. \A pcs \in {Untried, Owing, Live} : \A x \in In(pcs)' : x \in In(pcs)
  BY <1>5, InMeans
<1>8. Placed'
  <2>1. \A x \in dead' : x \in dead \/ x \in In(Busy)
    BY <1>2
  <2>2. lastId' = lastId /\ lastId' \in Nat /\ replay' = replay /\ backlog' = backlog /\ published' = published
    BY <1>1 DEF DashboardTypeOK, history
  <2>3. lastId' >= lastId
    BY <2>2
  <2>4. \A v \in Workers : \A x \in Held(v, Busy)' : x \in Held(v, Busy)
    BY <1>5
  <2>5. QED
    BY <1>1, <1>6, <2>1, <2>2, <2>3, <2>4, PlacedKeeps
<1>9. \A v \in Workers : wk'[v].pc \in {"ack", "requeue", "bury"} => wk'[v] = wk[v]
  BY DEF LetsGo
<1>10. \A x \in dead' : x \in dead \/ (x.tries = MaxRetries /\ tried[x.msg] > MaxRetries)
  BY <1>2
<1>11. Tries' /\ Sole' /\ TriesCount' /\ MetricsCount'
  BY <1>7, <1>9, <1>10, QuietKeeps DEF history
<1>12. QED
  BY <1>4, <1>8, <1>11

LEMMA StartKeeps ==
    ASSUME DashboardInv, NEW w \in Workers, Start(w), UNCHANGED counted PROVE DashboardInv'
<1>1. DashboardTypeOK /\ Kept
  BY DEF DashboardInv
<1>2. LetsGo(w) /\ wk'[w] = Reading
  BY <1>1, StopLetsGo DEF Start
<1>3. \A v \in Workers : wk'[v].pc \in Busy => wk'[v] = wk[v]
  BY <1>2 DEF LetsGo, Reading, Stopped, Busy
<1>4. DashboardTypeOK' /\ Placed' /\ Tries' /\ Sole' /\ TriesCount' /\ MetricsCount'
  BY <1>1, <1>2, LetsGoKeeps DEF Start, DashboardTypeOK
<1>5. Kept'
  BY <1>1, <1>3 DEF Kept, Safe, Start, history, Busy
<1>6. QED
  BY <1>4, <1>5 DEF DashboardInv

LEMMA StopKeeps ==
    ASSUME DashboardInv, NEW w \in Workers, Stop(w), UNCHANGED counted PROVE DashboardInv'
<1>1. DashboardTypeOK /\ Kept
  BY DEF DashboardInv
<1>2. LetsGo(w) /\ wk'[w] = Stopped
  BY <1>1, StopLetsGo DEF Stop
<1>3. \A v \in Workers : wk'[v].pc \in Busy => wk'[v] = wk[v]
  BY <1>2 DEF LetsGo, Stopped, Busy
<1>4. DashboardTypeOK' /\ Placed' /\ Tries' /\ Sole' /\ TriesCount' /\ MetricsCount'
  BY <1>1, <1>2, LetsGoKeeps DEF Stop, DashboardTypeOK
<1>5. Kept'
  BY <1>1, <1>3 DEF Kept, Safe, Stop, history, Busy
<1>6. QED
  BY <1>4, <1>5 DEF DashboardInv

(* _retry_message or _dead_letter is through; the entry it may have taken  *)
(* off the pending list is not the one that is kept.                       *)
LEMMA AckHandledKeeps ==
    ASSUME DashboardInv, NEW w \in Workers, AckHandled(w), UNCHANGED counted PROVE DashboardInv'
<1>1. DashboardTypeOK /\ Kept
  BY DEF DashboardInv
<1>2. LetsGo(w) /\ wk'[w].pc \in {"reading", "processing"} /\ faults' \in Nat /\ faults' >= faults
  <2>1. faults \in Nat
    BY <1>1 DEF DashboardTypeOK
  <2>2. CASE NextEntry(w) /\ UNCHANGED faults
    BY <1>1, <2>1, <2>2, NextEntryLetsGo
  <2>3. CASE AbandonBatch(w)
    <3>1. Set(w, Reading) /\ faults' = faults + 1 /\ Reading.pc = "reading"
      BY <2>3 DEF AbandonBatch, Reading, Stopped
    <3>2. QED
      BY <1>1, <2>1, <3>1, StopLetsGo
  <2>4. QED
    BY <2>2, <2>3 DEF AckHandled
<1>3. DashboardTypeOK' /\ Placed' /\ Tries' /\ Sole' /\ TriesCount' /\ MetricsCount'
  BY <1>2, LetsGoKeeps DEF AckHandled
<1>4. ASSUME NEW x, Safe(x) PROVE Safe(x)'
  <2>1. x = wk[w].entry => x \in dead
    BY <1>4 DEF Safe, AckHandled
  <2>2. x \in backlog' \union pending' \union dead'
    BY <1>4, <2>1 DEF Safe, AckHandled
  <2>3. \A v \in Workers : wk'[v].pc \in {"requeueAck", "buryAck"} => wk'[v] = wk[v]
    BY <1>2 DEF LetsGo
  <2>4. QED
    BY <1>4, <2>2, <2>3 DEF Safe, AckHandled
<1>5. \A v \in Workers : wk'[v].pc = "ack" => wk'[v] = wk[v]
  BY <1>2 DEF LetsGo
<1>6. Kept'
  <2>1. published' = published /\ done' = done /\ trimmed' = trimmed
    BY DEF AckHandled, history
  <2>2. \A x : Safe(x)' => x \in backlog' \union pending' \union dead'
    BY DEF Safe
  <2>3. QED
    BY <1>1, <1>4, <1>5, <2>1, <2>2 DEF Kept
<1>7. QED
  BY <1>3, <1>6 DEF DashboardInv

(* The dead letter is there before its entry is acknowledged.              *)
LEMMA BuryKeeps ==
    ASSUME DashboardInv, NEW w \in Workers, Bury(w), UNCHANGED counted PROVE DashboardInv'
<1>1. DashboardTypeOK /\ Kept
  BY DEF DashboardInv
<1>2. /\ LetsGo(w) /\ faults' \in Nat /\ faults' >= faults
      /\ wk'[w].pc = "reading" \/ (wk'[w].pc = "buryAck" /\ wk'[w].entry = wk[w].entry /\ wk[w].entry \in dead')
  <2>1. faults \in Nat
    BY <1>1 DEF DashboardTypeOK
  <2>2. CASE Goto(w, "buryAck") /\ UNCHANGED faults /\ dead' = dead \union {wk[w].entry}
    <3>1. "buryAck" \in Busy /\ wk[w].pc \in Busy
      BY DEF Busy, Bury
    <3>2. /\ wk' \in [Workers -> Worker]
          /\ wk'[w].pc = "buryAck" /\ wk'[w].entry = wk[w].entry /\ wk'[w].batch = wk[w].batch
          /\ \A v \in Workers \ {w} : wk'[v] = wk[v]
      BY <1>1, <2>2, <3>1, GotoHand
    <3>3. QED
      BY <2>1, <2>2, <3>1, <3>2 DEF LetsGo
  <2>3. CASE AbandonBatch(w)
    <3>1. Set(w, Reading) /\ faults' = faults + 1 /\ Reading.pc = "reading"
      BY <2>3 DEF AbandonBatch, Reading, Stopped
    <3>2. QED
      BY <1>1, <2>1, <3>1, StopLetsGo
  <2>4. QED
    BY <2>2, <2>3 DEF Bury
<1>3. \A x \in dead' : x \in dead \/ (wk[w].pc = "bury" /\ x = wk[w].entry)
  BY DEF Bury
<1>4. \A x \in dead : x \in dead'
  BY DEF Bury
<1>5. UNCHANGED <<lastId, backlog, pending, replay, history>>
  BY DEF Bury
<1>6. DashboardTypeOK' /\ Placed' /\ Tries' /\ Sole' /\ TriesCount' /\ MetricsCount'
  BY <1>2, <1>3, <1>5, LetsGoKeeps
<1>7. ASSUME NEW x, Safe(x) PROVE Safe(x)'
  <2>1. x \in backlog' \union pending' \union dead'
    BY <1>4, <1>5, <1>7 DEF Safe
  <2>2. \A v \in Workers : v # w => wk'[v] = wk[v]
    BY <1>2 DEF LetsGo
  <2>3. ASSUME NEW v \in Workers
        PROVE  /\ wk'[v].pc = "requeueAck" => x # wk'[v].entry
               /\ wk'[v].pc = "buryAck" /\ x = wk'[v].entry => x \in dead'
    BY <1>2, <1>4, <1>7, <2>2 DEF Safe
  <2>4. QED
    BY <1>5, <1>7, <2>1, <2>3 DEF Safe
<1>8. \A v \in Workers : wk'[v].pc = "ack" => wk'[v] = wk[v]
  BY <1>2 DEF LetsGo
<1>9. Kept'
  <2>1. published' = published /\ done' = done /\ trimmed' = trimmed
    BY <1>5 DEF history
  <2>2. \A x : Safe(x)' => x \in backlog' \union pending' \union dead'
    BY DEF Safe
  <2>3. QED
    BY <1>1, <1>7, <1>8, <2>1, <2>2 DEF Kept
<1>10. QED
  BY <1>6, <1>9 DEF DashboardInv

(* An entry is acknowledged only after process() returned for its message. *)
LEMMA AckKeepsKept ==
    ASSUME DashboardInv, NEW w \in Workers, wk[w].pc = "ack",
           UNCHANGED <<lastId, backlog, dead, replay, history>>,
           \A x \in pending : x \in pending' \/ x = wk[w].entry,
           \A v \in Workers : v # w => wk'[v] = wk[v],
           wk'[w].pc \notin {"ack", "requeueAck", "buryAck"}
    PROVE  Kept'
<1>1. Kept
  BY DEF DashboardInv
<1>2. wk[w].entry.msg \in done
  BY <1>1 DEF Kept
<1>3. ASSUME NEW x, Safe(x), x # wk[w].entry PROVE Safe(x)'
  <2>1. x \in backlog' \union pending' \union dead'
    BY <1>3 DEF Safe
  <2>2. \A v \in Workers : wk'[v].pc \in {"requeueAck", "buryAck"} => wk'[v] = wk[v]
    OBVIOUS
  <2>3. QED
    BY <1>3, <2>1, <2>2 DEF Safe
<1>4. published' = published /\ done' = done /\ trimmed' = trimmed
  BY DEF history
<1>5. ASSUME NEW m \in published' \ (done' \union trimmed')
      PROVE  \E x \in backlog' \union pending' \union dead' : x.msg = m /\ Safe(x)'
  <2>1. PICK x \in backlog \union pending \union dead : x.msg = m /\ Safe(x)
    BY <1>1, <1>4, <1>5 DEF Kept
  <2>2. Safe(x)'
    BY <1>2, <1>3, <1>4, <1>5, <2>1
  <2>3. QED
    BY <2>1, <2>2 DEF Safe
<1>6. \A v \in Workers : wk'[v].pc = "ack" => wk'[v].entry.msg \in done'
  BY <1>1, <1>4 DEF Kept
<1>7. QED
  BY <1>5, <1>6 DEF Kept

LEMMA FailedGoes ==
    ASSUME DashboardTypeOK, NEW w \in Workers, wk[w].pc \in Busy, Failed(w)
    PROVE  \E pc \in {"requeue", "bury"} :
             /\ Goto(w, pc)
             /\ pc = "requeue" => wk[w].entry.tries < MaxRetries
             /\ pc = "bury" => wk[w].entry.tries = MaxRetries
<1>1. wk[w].entry.tries \in 0..MaxRetries
  BY DEF DashboardTypeOK, Entry
<1>2. QED
  BY <1>1, BoundsAssumption DEF Failed

(* XACK failed after process() returned: the entry is to be retried, and   *)
(* with it the counters, for one more fault.                               *)
LEMMA AckFails ==
    ASSUME DashboardInv, NEW w \in Workers, wk[w].pc = "ack", Failed(w), faults' = faults + 1,
           UNCHANGED <<lastId, backlog, dead, replay, history, counted>>
    PROVE  /\ DashboardTypeOK' /\ Placed' /\ Tries' /\ Sole' /\ TriesCount' /\ MetricsCount'
           /\ \A v \in Workers : v # w => wk'[v] = wk[v]
           /\ wk'[w].pc \in {"requeue", "bury"}
<1> DEFINE e == wk[w].entry
<1>1. DashboardTypeOK /\ Placed /\ Tries /\ Sole /\ TriesCount /\ MetricsCount
  BY DEF DashboardInv
<1>2. e \in Entry /\ e.msg \in Msgs /\ wk[w].pc \in Busy
  BY <1>1 DEF DashboardTypeOK, Entry, Busy
<1>3. PICK pc \in {"requeue", "bury"} :
             /\ Goto(w, pc)
             /\ pc = "requeue" => e.tries < MaxRetries
             /\ pc = "bury" => e.tries = MaxRetries
  BY <1>1, <1>2, FailedGoes
<1>4. /\ wk' \in [Workers -> Worker]
      /\ wk'[w].pc = pc /\ wk'[w].entry = e /\ wk'[w].batch = wk[w].batch
      /\ \A v \in Workers \ {w} : wk'[v] = wk[v]
  BY <1>1, <1>2, <1>3, GotoHand DEF Busy
<1> HIDE DEF e
<1>5. \A pcs \in {Untried, Live, Busy} : \A v \in Workers : \A x \in Held(v, pcs)' : x \in Held(v, pcs)
  BY <1>4 DEF Held, Untried, Live, Busy, e
<1>6. \A v \in Workers : \A x \in Held(v, Owing)' : x \in Held(v, Owing) \/ x = e
  BY <1>4 DEF Held, Owing, e
<1>7. /\ \A pcs \in {Untried, Live} : \A x \in In(pcs)' : x \in In(pcs)
      /\ \A x \in In(Owing)' : x \in In(Owing) \/ x = e
  BY <1>5, <1>6, InMeans
<1>8. DashboardTypeOK'
  BY <1>1, <1>2, <1>4 DEF DashboardTypeOK, history
<1>9. \A v \in Workers : wk'[v].pc \in Busy => wk'[v].entry \notin wk'[v].batch
  BY <1>1, <1>2, <1>4 DEF Placed, e
<1>10. Placed'
  <2>1. lastId' = lastId /\ lastId' \in Nat /\ replay' = replay /\ backlog' = backlog
        /\ dead' = dead /\ published' = published
    BY <1>1 DEF DashboardTypeOK, history
  <2>2. lastId' >= lastId
    BY <2>1
  <2>3. \A v \in Workers : \A x \in Held(v, Busy)' : x \in Held(v, Busy)
    BY <1>5
  <2>4. QED
    BY <1>1, <1>9, <2>1, <2>2, <2>3, PlacedKeeps
<1>11. Tries'
  <2>1. tried[e.msg] > e.tries
    BY <1>1 DEF Tries, e
  <2>2. ASSUME NEW v \in Workers, wk'[v].pc \in {"ack", "requeue", "bury"}
        PROVE  /\ tried[wk'[v].entry.msg] > wk'[v].entry.tries
               /\ wk'[v].pc = "requeue" => wk'[v].entry.tries < MaxRetries
               /\ wk'[v].pc = "bury" => wk'[v].entry.tries = MaxRetries
    <3>1. CASE v = w
      BY <1>3, <1>4, <2>1, <3>1
    <3>2. CASE v # w
      BY <1>1, <1>4, <2>2, <3>2 DEF Tries
    <3>3. QED
      BY <3>1, <3>2
  <2>3. QED
    BY <1>1, <1>7, <2>2 DEF Tries, history
<1>12. Sole'
  BY <1>1, <1>7 DEF Sole, history
<1>13. ASSUME NEW m \in Msgs
       PROVE  /\ IsFiniteSet(Of(m, Untried)') /\ IsFiniteSet(Of(m, Owing)')
              /\ Cardinality(Of(m, Untried)') \in Nat /\ Cardinality(Of(m, Untried)) \in Nat
              /\ Cardinality(Of(m, Owing)') \in Nat /\ Cardinality(Of(m, Owing)) \in Nat
              /\ Cardinality(Of(m, Untried)') <= Cardinality(Of(m, Untried))
              /\ Cardinality(Of(m, Owing)') <= Cardinality(Of(m, Owing)) + 1
  <2>1. /\ \A x \in Of(m, Untried)' : x \in Of(m, Untried)
        /\ \A x \in Of(m, Owing)' : x \in Of(m, Owing) \/ x = e
    BY <1>7 DEF Of
  <2>2. IsFiniteSet(Of(m, Untried)) /\ IsFiniteSet(Of(m, Owing))
    BY <1>1 DEF TriesCount, MetricsCount
  <2>3. QED
    BY <2>1, <2>2, CountAtMost, CountOneMore
<1>14. \A m \in Msgs : tried[m] \in Nat /\ replays[m] \in Nat /\ counted[m] \in Nat
  BY <1>1 DEF DashboardTypeOK
<1>15. TriesCount'
  BY <1>1, <1>13, <1>14, BoundsAssumption DEF TriesCount, history
<1>16. MetricsCount'
  <2>1. faults \in Nat /\ faults' = faults + 1 /\ published' = published /\ done' = done
        /\ replays' = replays /\ counted' = counted
    BY <1>1 DEF DashboardTypeOK, history
  <2>2. QED
    BY <1>1, <1>13, <1>14, <2>1 DEF MetricsCount
<1>17. QED
  BY <1>4, <1>8, <1>10, <1>11, <1>12, <1>15, <1>16

LEMMA AckKeeps ==
    ASSUME DashboardInv, NEW w \in Workers, Ack(w), UNCHANGED counted PROVE DashboardInv'
<1>1. DashboardTypeOK /\ faults \in Nat
  BY DEF DashboardInv, DashboardTypeOK
<1>2. wk[w].pc = "ack" /\ UNCHANGED <<lastId, backlog, dead, replay, history>>
  BY DEF Ack
<1>3. \A x \in pending : x \in pending' \/ x = wk[w].entry
  BY DEF Ack
<1>4. CASE NextEntry(w) /\ UNCHANGED faults
  <2>1. LetsGo(w) /\ wk'[w].pc \in {"reading", "processing"}
    BY <1>1, <1>4, NextEntryLetsGo
  <2>2. DashboardTypeOK' /\ Placed' /\ Tries' /\ Sole' /\ TriesCount' /\ MetricsCount'
    BY <1>1, <1>2, <1>4, <2>1, LetsGoKeeps
  <2>3. \A v \in Workers : v # w => wk'[v] = wk[v]
    BY <2>1 DEF LetsGo
  <2>4. wk'[w].pc \notin {"ack", "requeueAck", "buryAck"}
    BY <2>1
  <2>5. Kept'
    BY <1>2, <1>3, <2>3, <2>4, AckKeepsKept
  <2>6. QED
    BY <2>2, <2>5 DEF DashboardInv
<1>5. CASE Failed(w) /\ faults' = faults + 1
  <2>1. /\ DashboardTypeOK' /\ Placed' /\ Tries' /\ Sole' /\ TriesCount' /\ MetricsCount'
        /\ \A v \in Workers : v # w => wk'[v] = wk[v]
        /\ wk'[w].pc \in {"requeue", "bury"}
    BY <1>2, <1>5, AckFails
  <2>2. Kept'
    BY <1>2, <1>3, <2>1, AckKeepsKept
  <2>3. QED
    BY <2>1, <2>2 DEF DashboardInv
<1>6. QED
  BY <1>4, <1>5 DEF Ack

-----------------------------------------------------------------------------
(* A call of process() for w's entry, whatever comes of it.                *)
LEMMA CallKeeps ==
    ASSUME DashboardInv, NEW w \in Workers, wk[w].pc = "processing",
           NEW pc \in {"ack", "requeue", "bury"}, Goto(w, pc),
           pc = "requeue" => wk[w].entry.tries < MaxRetries,
           pc = "bury" => wk[w].entry.tries = MaxRetries,
           UNCHANGED <<lastId, backlog, pending, dead, replay, published, trimmed, replays>>,
           tried' = [tried EXCEPT ![wk[w].entry.msg] = @ + 1],
           faults' \in Nat, faults' >= faults,
           \/ /\ pc = "ack" /\ done' = done \union {wk[w].entry.msg}
              /\ CountIt(wk[w].entry.msg)
           \/ pc # "ack" /\ done' = done /\ counted' = counted
           \/ pc # "ack" /\ done' = done /\ faults' = faults + 1 /\ CountIt(wk[w].entry.msg)
    PROVE  DashboardInv'
<1> DEFINE e == wk[w].entry
<1>1. DashboardTypeOK /\ Placed /\ Kept
  BY DEF DashboardInv
<1>2. e \in Entry /\ e.msg \in Msgs
  BY <1>1 DEF DashboardTypeOK, Entry, Busy
<1>3. UNCHANGED <<lastId, backlog, dead, replay, published, replays>>
  OBVIOUS
<1>4. /\ wk' \in [Workers -> Worker]
      /\ wk'[w].pc = pc /\ wk'[w].entry = e
      /\ \A v \in Workers \ {w} : wk'[v] = wk[v]
      /\ \A v \in Workers : \A x \in Held(v, Busy)' : x \in Held(v, Busy)
      /\ \A v \in Workers : wk'[v].pc \in Busy => wk'[v].entry \notin wk'[v].batch
  BY <1>1, <1>3, CallMoves
<1>5. Tries' /\ Sole'
  BY <1>3, CallKeepsTries
<1>6. TriesCount' /\ MetricsCount'
  <2>1. \/ /\ pc = "ack" /\ done' = done \union {e.msg} /\ CountIt(e.msg)
        \/ done' = done /\ counted' = counted
        \/ done' = done /\ faults' = faults + 1 /\ CountIt(e.msg)
    OBVIOUS
  <2>2. QED
    BY <1>3, <2>1, CallKeepsCounts
<1> HIDE DEF e
<1>7. DashboardTypeOK'
  <2>1. counted' \in [Msgs -> Nat] /\ tried' \in [Msgs -> Nat]
    BY <1>1, <1>2 DEF DashboardTypeOK, CountIt, e
  <2>2. \A v \in Workers : wk'[v].pc \in Busy => wk'[v].entry \in Entry
    BY <1>1, <1>2, <1>4 DEF DashboardTypeOK
  <2>3. QED
    BY <1>1, <1>4, <2>1, <2>2 DEF DashboardTypeOK
<1>8. Placed'
  <2>1. lastId' \in Nat /\ lastId' >= lastId
    BY <1>1 DEF DashboardTypeOK
  <2>2. QED
    BY <1>1, <1>4, <2>1, PlacedKeeps
<1>9. Kept'
  <2>1. ASSUME NEW x, Safe(x) PROVE Safe(x)'
    <3>1. \A v \in Workers : wk'[v].pc \in {"requeueAck", "buryAck"} => wk'[v] = wk[v]
      BY <1>4
    <3>2. QED
      BY <2>1, <3>1 DEF Safe
  <2>2. \A m \in done : m \in done'
    OBVIOUS
  <2>3. \A v \in Workers : wk'[v].pc = "ack" => wk'[v].entry.msg \in done'
    <3>1. \A v \in Workers : v # w /\ wk'[v].pc = "ack" => wk'[v].entry.msg \in done'
      BY <1>1, <1>4, <2>2 DEF Kept
    <3>2. wk'[w].pc = "ack" => wk'[w].entry.msg \in done'
      BY <1>4 DEF e
    <3>3. QED
      BY <3>1, <3>2
  <2>4. \A m \in published' \ (done' \union trimmed') :
          \E x \in backlog' \union pending' \union dead' : x.msg = m /\ Safe(x)'
    BY <1>1, <2>1, <2>2 DEF Kept
  <2>5. QED
    BY <2>3, <2>4 DEF Kept
<1>10. QED
  BY <1>5, <1>6, <1>7, <1>8, <1>9 DEF DashboardInv

LEMMA MetricsKeeps ==
    ASSUME DashboardInv, NEW w \in Workers, Metrics(w) PROVE DashboardInv'
<1>1. DashboardTypeOK /\ faults \in Nat /\ wk[w].pc = "processing"
  BY DEF DashboardInv, DashboardTypeOK, Metrics, Process
<1>2. /\ UNCHANGED <<lastId, backlog, pending, dead, replay, published, trimmed, replays>>
      /\ tried' = [tried EXCEPT ![wk[w].entry.msg] = @ + 1]
      /\ faults' \in Nat /\ faults' >= faults
  BY <1>1 DEF Metrics, Process
<1>3. CASE done' = done \union {wk[w].entry.msg} /\ Goto(w, "ack")
  <2>1. wk'[w].pc = "ack"
    BY <1>1, <1>3, GotoHand DEF Busy
  <2>2. CountIt(wk[w].entry.msg)
    BY <2>1 DEF Metrics
  <2>3. QED
    BY <1>1, <1>2, <1>3, <2>2, CallKeeps
<1>4. CASE done' = done /\ Failed(w)
  <2>1. PICK pc \in {"requeue", "bury"} :
             /\ Goto(w, pc)
             /\ pc = "requeue" => wk[w].entry.tries < MaxRetries
             /\ pc = "bury" => wk[w].entry.tries = MaxRetries
    BY <1>1, <1>4, FailedGoes DEF Busy
  <2>2. wk'[w].pc = pc
    BY <1>1, <2>1, GotoHand DEF Busy
  <2>3. UNCHANGED counted
    BY <2>2 DEF Metrics
  <2>4. pc \in {"ack", "requeue", "bury"} /\ pc # "ack"
    OBVIOUS
  <2>5. QED
    BY <1>1, <1>2, <1>4, <2>1, <2>3, <2>4, CallKeeps
<1>5. QED
  BY <1>3, <1>4 DEF Metrics, Process

LEMMA ReplyLostKeeps ==
    ASSUME DashboardInv, NEW w \in Workers, ReplyLost(w) PROVE DashboardInv'
<1>1. DashboardTypeOK /\ faults \in Nat /\ wk[w].pc = "processing"
  BY DEF DashboardInv, DashboardTypeOK, ReplyLost
<1>2. /\ UNCHANGED <<lastId, backlog, pending, dead, replay, published, trimmed, replays>>
      /\ tried' = [tried EXCEPT ![wk[w].entry.msg] = @ + 1]
      /\ faults' \in Nat /\ faults' >= faults
  BY <1>1 DEF ReplyLost
<1>3. PICK pc \in {"requeue", "bury"} :
             /\ Goto(w, pc)
             /\ pc = "requeue" => wk[w].entry.tries < MaxRetries
             /\ pc = "bury" => wk[w].entry.tries = MaxRetries
  BY <1>1, FailedGoes DEF Busy, ReplyLost
<1>4. pc \in {"ack", "requeue", "bury"} /\ pc # "ack"
  OBVIOUS
<1>5. done' = done /\ faults' = faults + 1 /\ (CountIt(wk[w].entry.msg) \/ counted' = counted)
  BY DEF ReplyLost
<1>6. QED
  BY <1>1, <1>2, <1>3, <1>4, <1>5, CallKeeps

-----------------------------------------------------------------------------
(* Read takes entries off the backlog into w's hands.                      *)
LEMMA ReadKeeps ==
    ASSUME DashboardInv, NEW w \in Workers, Read(w), UNCHANGED counted PROVE DashboardInv'
<1>1. DashboardTypeOK /\ Placed /\ Kept
  BY DEF DashboardInv
<1>2. PICK batch \in SUBSET backlog :
         /\ backlog' = backlog \ batch
         /\ pending' = pending \union batch
         /\ \E e \in batch :
              Set(w, [pc |-> "processing", entry |-> e, batch |-> batch \ {e}])
  BY DEF Read
<1>3. PICK e \in batch : Set(w, [pc |-> "processing", entry |-> e, batch |-> batch \ {e}])
  BY <1>2
<1>4. UNCHANGED <<lastId, dead, replay, published, trimmed, tried, done, replays, faults, counted>>
  BY DEF Read, history
<1>5. /\ wk' \in [Workers -> Worker]
      /\ wk'[w].pc = "processing" /\ wk'[w].entry = e /\ wk'[w].batch = batch \ {e}
      /\ \A v \in Workers : v # w => wk'[v] = wk[v]
  <2>1. batch \subseteq Entry
    BY <1>1 DEF DashboardTypeOK
  <2>2. [pc |-> "processing", entry |-> e, batch |-> batch \ {e}] \in Worker
    BY <2>1 DEF Worker, Busy
  <2>3. QED
    BY <1>1, <1>3, <2>2 DEF DashboardTypeOK, Set
<1>6. DashboardTypeOK'
  <2>1. e \in Entry
    BY <1>1 DEF DashboardTypeOK
  <2>2. \A v \in Workers : wk'[v].pc \in Busy => wk'[v].entry \in Entry
    BY <1>1, <1>5, <2>1 DEF DashboardTypeOK
  <2>3. QED
    BY <1>1, <1>2, <1>4, <1>5, <2>2 DEF DashboardTypeOK
<1>7. ASSUME NEW pcs \in {Untried, Owing, Live, Busy}, NEW v \in Workers, NEW x \in Held(v, pcs)'
      PROVE  x \in Held(v, pcs) \/ (v = w /\ x \in backlog /\ x \notin backlog')
  <2>1. CASE v = w
    BY <1>2, <1>5, <1>7, <2>1 DEF Held
  <2>2. CASE v # w
    BY <1>5, <1>7, <2>2 DEF Held
  <2>3. QED
    BY <2>1, <2>2
<1>8. \A v \in Workers : wk'[v].pc \in Busy => wk'[v].entry \notin wk'[v].batch
  BY <1>1, <1>5 DEF Placed
<1>9. Placed'
  <2>1. lastId' \in Nat /\ lastId' >= lastId
    BY <1>1, <1>4 DEF DashboardTypeOK
  <2>2. \A v \in Workers : \A x \in Held(v, Busy)' :
           x \in Held(v, Busy) \/ (v = w /\ x \in backlog /\ x \notin backlog')
    BY <1>7
  <2>3. \A x \in backlog' : x \in backlog
    BY <1>2
  <2>4. QED
    BY <1>1, <1>4, <1>8, <2>1, <2>2, <2>3, PlacedKeeps
<1>10. Tries' /\ Sole' /\ TriesCount' /\ MetricsCount'
  <2>1. \A pcs \in {Untried, Owing, Live} : \A x \in In(pcs)' : x \in In(pcs)
    BY <1>2, <1>7, InMeans
  <2>2. \A v \in Workers : wk'[v].pc \in {"ack", "requeue", "bury"} => wk'[v] = wk[v]
    BY <1>5
  <2>3. faults' \in Nat /\ faults' >= faults
    BY <1>1, <1>4 DEF DashboardTypeOK
  <2>4. QED
    BY <1>4, <2>1, <2>2, <2>3, QuietKeeps
<1>11. Kept'
  <2>1. ASSUME NEW x, Safe(x) PROVE Safe(x)'
    <3>1. x \in backlog' \union pending' \union dead'
      BY <1>2, <1>4, <2>1 DEF Safe
    <3>2. \A v \in Workers : wk'[v].pc \in {"requeueAck", "buryAck"} => wk'[v] = wk[v]
      BY <1>5
    <3>3. QED
      BY <1>4, <2>1, <3>1, <3>2 DEF Safe
  <2>2. \A v \in Workers : wk'[v].pc = "ack" => wk'[v].entry.msg \in done'
    BY <1>1, <1>4, <1>5 DEF Kept
  <2>3. \A x : Safe(x)' => x \in backlog' \union pending' \union dead'
    BY DEF Safe
  <2>4. QED
    BY <1>1, <1>4, <2>1, <2>2, <2>3 DEF Kept
<1>12. QED
  BY <1>6, <1>9, <1>10, <1>11 DEF DashboardInv

(* The last step of reprocess_message deletes no entry that is kept.       *)
LEMMA DeleteReplayedKeeps ==
    ASSUME DashboardInv, DeleteReplayed, UNCHANGED counted PROVE DashboardInv'
<1>1. DashboardTypeOK /\ Placed /\ Kept
  BY DEF DashboardInv
<1>2. /\ UNCHANGED <<lastId, backlog, pending, wk, published, trimmed, tried, done, replays, counted>>
      /\ replay' = NoEntry
      /\ \A x \in dead' : x \in dead
      /\ \A x \in dead : x \in dead' \/ x = replay
      /\ faults' \in Nat /\ faults' >= faults
  BY <1>1 DEF DeleteReplayed, history, DashboardTypeOK
<1>3. DashboardTypeOK'
  BY <1>1, <1>2 DEF DashboardTypeOK
<1>4. \A pcs : \A v \in Workers : Held(v, pcs)' = Held(v, pcs)
  BY <1>2 DEF Held
<1>5. \A v \in Workers : wk'[v].pc \in Busy => wk'[v].entry \notin wk'[v].batch
  BY <1>1, <1>2 DEF Placed
<1>6. Placed'
  <2>1. lastId' \in Nat /\ lastId' >= lastId
    BY <1>1, <1>2 DEF DashboardTypeOK
  <2>2. \A v \in Workers : \A x \in Held(v, Busy)' : x \in Held(v, Busy)
    BY <1>4
  <2>3. QED
    BY <1>1, <1>2, <1>5, <2>1, <2>2, PlacedKeeps
<1>7. Tries' /\ Sole' /\ TriesCount' /\ MetricsCount'
  <2>1. \A pcs \in {Untried, Owing, Live} : \A x \in In(pcs)' : x \in In(pcs)
    BY <1>2, <1>4, InMeans
  <2>2. QED
    BY <1>2, <2>1, QuietKeeps
<1>8. Kept'
  <2>1. ASSUME NEW x, Safe(x) PROVE Safe(x)'
    <3>1. x # replay
      BY <2>1 DEF Safe, DeleteReplayed
    <3>2. QED
      BY <1>2, <2>1, <3>1 DEF Safe
  <2>2. \A x : Safe(x)' => x \in backlog' \union pending' \union dead'
    BY DEF Safe
  <2>3. QED
    BY <1>1, <1>2, <2>1, <2>2 DEF Kept
<1>9. QED
  BY <1>3, <1>6, <1>7, <1>8 DEF DashboardInv

LEMMA StutterKeeps ==
    ASSUME DashboardInv, UNCHANGED allVars PROVE DashboardInv'
<1>1. UNCHANGED <<lastId, backlog, pending, dead, wk, replay, published, trimmed, tried,
                  done, replays, faults, counted>>
  BY DEF allVars, vars
<1>2. DashboardTypeOK' <=> DashboardTypeOK
  BY <1>1 DEF DashboardTypeOK
<1>3. Placed' <=> Placed
  BY <1>1 DEF Placed, Known, In, Held
<1>4. Kept' <=> Kept
  BY <1>1 DEF Kept, Safe
<1>5. (Tries' <=> Tries) /\ (Sole' <=> Sole)
  BY <1>1 DEF Tries, Sole, In, Held
<1>6. (TriesCount' <=> TriesCount) /\ (MetricsCount' <=> MetricsCount)
  BY <1>1 DEF TriesCount, MetricsCount, Of, In, Held
<1>7. QED
  BY <1>2, <1>3, <1>4, <1>5, <1>6 DEF DashboardInv

-----------------------------------------------------------------------------
(* An entry that was just added is in nobody's way.                        *)
LEMMA FreshIsSafe ==
    ASSUME DashboardTypeOK, Placed, NEW c, c.id = lastId + 1, c \in backlog',
           \A v \in Workers : wk'[v].pc \in {"requeueAck", "buryAck"} =>
             wk[v].pc \in Busy /\ wk'[v].entry = wk[v].entry,
           replay' # NoEntry => (replay' = replay \/ replay' \in dead)
    PROVE  Safe(c)'
<1>1. \A x : Known(x) => x # c
  BY DEF Known, DashboardTypeOK
<1>2. \A v \in Workers : wk[v].pc \in Busy => Known(wk[v].entry)
  <2>1. \A v \in Workers : wk[v].pc \in Busy => wk[v].entry \in Held(v, Busy)
    BY DEF Held
  <2>2. QED
    BY <2>1, InMeans DEF Placed
<1>3. replay' # NoEntry => c # replay'
  BY <1>1 DEF Placed
<1>4. QED
  BY <1>1, <1>2, <1>3 DEF Safe

(* The copy of a retried entry is added before the entry leaves.           *)
LEMMA CopyKeeps ==
    ASSUME DashboardInv, NEW w \in Workers, wk[w].pc = "requeue", LetsGo(w),
           Add(wk[w].entry.msg, wk[w].entry.tries + 1), faults' \in Nat, faults' >= faults,
           wk'[w].pc \in {"reading", "requeueAck"},
           UNCHANGED <<pending, dead, replay, history, counted>>
    PROVE  DashboardInv'
<1> DEFINE e == wk[w].entry
<1>1. DashboardTypeOK /\ Placed /\ Kept /\ Tries /\ Sole
  BY DEF DashboardInv
<1>2. wk[w].pc \in Busy /\ e \in Entry /\ lastId \in Nat
  BY <1>1 DEF DashboardTypeOK, Busy
<1>3. e.id \in Nat /\ e.msg \in Msgs /\ e.tries \in Nat
  BY <1>2, BoundsAssumption DEF Entry
<1>4. e.tries < MaxRetries /\ tried[e.msg] > e.tries
  BY <1>1 DEF Tries
<1>5. e \in Held(w, Live) /\ e \in Held(w, Owing) /\ e \in Held(w, Busy)
  BY DEF Held, Live, Owing, Busy
<1>6. e \in In(Live) /\ e \in In(Owing) /\ e \in In(Busy)
  BY <1>5, InMeans
<1>7. Known(e)
  BY <1>1, <1>6 DEF Placed
<1>8. /\ lastId' = lastId + 1
      /\ UNCHANGED <<pending, dead, replay, published, trimmed, tried, done, replays, counted>>
  BY DEF Add, history
<1>9. PICK c \in Entry : /\ c.id = lastId + 1 /\ c.msg = e.msg /\ c.tries = e.tries + 1
                         /\ backlog' = backlog \union {c}
  <2>1. [id |-> lastId + 1, msg |-> e.msg, tries |-> e.tries + 1] \in Entry
    BY <1>2, <1>3, <1>4, BoundsAssumption DEF Entry
  <2>2. QED
    BY <2>1 DEF Add
<1>10. c # e /\ e \notin backlog'
  <2>1. c # e
    BY <1>2, <1>3, <1>7, <1>9 DEF Known
  <2>2. e \notin backlog
    BY <1>1, <1>5 DEF Placed
  <2>3. QED
    BY <1>9, <2>1, <2>2
<1>11. /\ \A pcs \in {Untried, Owing, Live, Busy} : \A v \in Workers : \A x \in Held(v, pcs)' : x \in Held(v, pcs)
       /\ \A v \in Workers : wk'[v].pc \in Busy => wk'[v].entry \notin wk'[v].batch
  BY <1>1, LetsGoHolds
<1>12. \A pcs \in {Untried, Owing, Live} : \A x \in In(pcs)' : x \in In(pcs) \/ x = c
  BY <1>9, <1>11, InMeans
<1>13. e \notin In(Live)' /\ e \notin In(Owing)'
  BY <1>1, <1>2, <1>10, LetsGoLoses
<1>14. wk' \in [Workers -> Worker] /\ \A v \in Workers : v # w => wk'[v] = wk[v]
  BY DEF LetsGo
<1>15. wk'[w].pc = "requeueAck" => wk'[w].entry = e
  BY DEF LetsGo
<1> HIDE DEF e
<1>16. DashboardTypeOK'
  <2>1. \A v \in Workers : wk'[v].pc \in Busy => wk'[v].entry \in Entry
    BY <1>1, <1>2, <1>14, <1>15 DEF DashboardTypeOK, Busy
  <2>2. lastId' \in Nat /\ backlog' \subseteq Entry
    BY <1>1, <1>8, <1>9 DEF DashboardTypeOK
  <2>3. QED
    BY <1>1, <1>8, <1>14, <2>1, <2>2 DEF DashboardTypeOK
<1>17. Placed'
  <2>1. lastId' \in Nat /\ lastId' >= lastId
    BY <1>2, <1>8
  <2>2. \A x \in backlog' : x \in backlog \/
          (lastId' = lastId + 1 /\ x.id = lastId + 1 /\ x.msg \in published')
    BY <1>7, <1>8, <1>9 DEF Known
  <2>3. QED
    BY <1>1, <1>8, <1>11, <2>1, <2>2, PlacedKeeps
<1>18. Tries' /\ Sole' /\ TriesCount' /\ MetricsCount'
  <2>1. \A x \in In(Live) : x.msg = e.msg => x = e
    BY <1>1, <1>4, <1>6 DEF Sole
  <2>2. tried[c.msg] <= c.tries /\ tried[c.msg] >= c.tries
    <3>1. tried[e.msg] <= e.tries + 1 /\ tried[e.msg] \in Nat
      BY <1>1, <1>3, <1>4, <1>6 DEF Sole, DashboardTypeOK
    <3>2. QED
      BY <1>3, <1>4, <1>9, <3>1
  <2>3. \A x \in In(Live)' : x.msg = c.msg => x = c
    BY <1>9, <1>12, <1>13, <2>1
  <2>4. \E x \in In(Owing) : x.msg = c.msg /\ \A y \in In(Owing)' : y # x
    BY <1>6, <1>9, <1>13
  <2>5. \A v \in Workers : wk'[v].pc \in {"ack", "requeue", "bury"} => wk'[v] = wk[v]
    BY <1>14
  <2>6. replays' \in [Msgs -> Nat] /\ (\A m \in Msgs : replays'[m] >= replays[m])
    BY <1>1, <1>8 DEF DashboardTypeOK
  <2>7. QED
    BY <1>8, <1>9, <1>12, <2>2, <2>3, <2>4, <2>5, <2>6, AddKeeps
<1>19. Kept'
  <2>1. ASSUME NEW x, Safe(x), x # e PROVE Safe(x)'
    <3>1. x \in backlog' \union pending' \union dead'
      BY <1>8, <1>9, <2>1 DEF Safe
    <3>2. \A v \in Workers : v # w => wk'[v] = wk[v]
      BY <1>14
    <3>3. wk'[w].pc # "buryAck" /\ (wk'[w].pc = "requeueAck" => x # wk'[w].entry)
      BY <1>15, <2>1
    <3>4. QED
      BY <1>8, <2>1, <3>1, <3>2, <3>3 DEF Safe
  <2>2. Safe(c)'
    <3>1. \A v \in Workers : wk'[v].pc \in {"requeueAck", "buryAck"} =>
             wk[v].pc \in Busy /\ wk'[v].entry = wk[v].entry
      BY <1>2, <1>14, <1>15 DEF Busy, e
    <3>2. QED
      BY <1>1, <1>8, <1>9, <3>1, FreshIsSafe
  <2>3. \A v \in Workers : wk'[v].pc = "ack" => wk'[v].entry.msg \in done'
    BY <1>1, <1>8, <1>14 DEF Kept
  <2>4. ASSUME NEW m \in published' \ (done' \union trimmed')
        PROVE  \E x \in backlog' \union pending' \union dead' : x.msg = m /\ Safe(x)'
    <3>1. PICK x \in backlog \union pending \union dead : x.msg = m /\ Safe(x)
      BY <1>1, <1>8, <2>4 DEF Kept
    <3>2. CASE x = e
      <4>1. c.msg = m /\ c \in backlog'
        BY <1>8, <1>9, <3>1, <3>2
      <4>2. QED
        BY <2>2, <4>1
    <3>3. CASE x # e
      BY <2>1, <3>1, <3>3 DEF Safe
    <3>4. QED
      BY <3>2, <3>3
  <2>5. QED
    BY <2>3, <2>4 DEF Kept
<1>20. QED
  BY <1>16, <1>17, <1>18, <1>19 DEF DashboardInv

LEMMA RequeueKeeps ==
    ASSUME DashboardInv, NEW w \in Workers, Requeue(w), UNCHANGED counted PROVE DashboardInv'
<1>1. DashboardTypeOK /\ Kept /\ faults \in Nat
  BY DEF DashboardInv, DashboardTypeOK
<1>2. wk[w].pc = "requeue" /\ UNCHANGED <<pending, dead, replay, history>>
  BY DEF Requeue
<1>3. ASSUME Goto(w, "requeueAck")
      PROVE  LetsGo(w) /\ wk'[w].pc = "requeueAck" /\ wk'[w].entry = wk[w].entry
  <2>1. "requeueAck" \in Busy /\ wk[w].pc \in Busy
    BY <1>2 DEF Busy
  <2>2. /\ wk' \in [Workers -> Worker]
        /\ wk'[w].pc = "requeueAck" /\ wk'[w].entry = wk[w].entry /\ wk'[w].batch = wk[w].batch
        /\ \A v \in Workers \ {w} : wk'[v] = wk[v]
    BY <1>1, <1>3, <2>1, GotoHand
  <2>3. QED
    BY <2>1, <2>2 DEF LetsGo
<1>4. ASSUME AbandonBatch(w)
      PROVE  LetsGo(w) /\ wk'[w].pc = "reading" /\ faults' \in Nat /\ faults' >= faults
  <2>1. Set(w, Reading) /\ faults' = faults + 1 /\ Reading.pc = "reading"
    BY <1>4 DEF AbandonBatch, Reading, Stopped
  <2>2. QED
    BY <1>1, <2>1, StopLetsGo
<1>5. CASE Add(wk[w].entry.msg, wk[w].entry.tries + 1) /\ Goto(w, "requeueAck") /\ UNCHANGED faults
  BY <1>1, <1>2, <1>3, <1>5, CopyKeeps
<1>6. CASE Add(wk[w].entry.msg, wk[w].entry.tries + 1) /\ AbandonBatch(w)
  BY <1>1, <1>2, <1>4, <1>6, CopyKeeps
<1>7. CASE UNCHANGED <<lastId, backlog>> /\ AbandonBatch(w)
  <2>1. DashboardTypeOK' /\ Placed' /\ Tries' /\ Sole' /\ TriesCount' /\ MetricsCount'
    BY <1>2, <1>4, <1>7, LetsGoKeeps
  <2>2. ASSUME NEW x, Safe(x) PROVE Safe(x)'
    <3>1. \A v \in Workers : wk'[v].pc \in {"requeueAck", "buryAck"} => wk'[v] = wk[v]
      BY <1>4, <1>7 DEF LetsGo
    <3>2. QED
      BY <1>2, <1>7, <2>2, <3>1 DEF Safe
  <2>3. \A v \in Workers : wk'[v].pc = "ack" => wk'[v] = wk[v]
    BY <1>4, <1>7 DEF LetsGo
  <2>4. published' = published /\ done' = done /\ trimmed' = trimmed
    BY <1>2 DEF history
  <2>5. \A x : Safe(x)' => x \in backlog' \union pending' \union dead'
    BY DEF Safe
  <2>6. Kept'
    BY <1>1, <2>2, <2>3, <2>4, <2>5 DEF Kept
  <2>7. QED
    BY <2>1, <2>6 DEF DashboardInv
<1>8. QED
  BY <1>5, <1>6, <1>7 DEF Requeue

(* Publish adds the first entry of a message; what it trims is recorded.   *)
LEMMA PublishKeeps ==
    ASSUME DashboardInv, NEW m \in Msgs, Publish(m), UNCHANGED counted PROVE DashboardInv'
<1>1. DashboardTypeOK /\ Placed /\ Kept /\ TriesCount /\ lastId \in Nat
  BY DEF DashboardInv, DashboardTypeOK
<1>2. PICK lost \in SUBSET (backlog \union pending) :
        /\ backlog' = (backlog \ lost) \union {[id |-> lastId + 1, msg |-> m, tries |-> 0]}
        /\ trimmed' = trimmed \union {x.msg : x \in lost}
  <2>1. PICK keep \in 1..(lastId + 1) :
          LET lost == {e \in backlog \union pending : e.id < keep}
          IN  /\ backlog' = (backlog \ lost) \union {[id |-> lastId + 1, msg |-> m, tries |-> 0]}
              /\ trimmed' = trimmed \union {e.msg : e \in lost}
    BY DEF Publish
  <2>2. {e \in backlog \union pending : e.id < keep} \in SUBSET (backlog \union pending)
    OBVIOUS
  <2>3. QED
    BY <2>1, <2>2
<1>3. /\ m \notin published /\ published' = published \union {m} /\ lastId' = lastId + 1
      /\ UNCHANGED <<pending, dead, wk, replay, tried, done, replays, faults, counted>>
  BY DEF Publish
<1>4. PICK c \in Entry : /\ c.id = lastId + 1 /\ c.msg = m /\ c.tries = 0
                         /\ backlog' = (backlog \ lost) \union {c}
  <2>1. [id |-> lastId + 1, msg |-> m, tries |-> 0] \in Entry
    BY <1>1, BoundsAssumption DEF Entry
  <2>2. QED
    BY <1>2, <2>1
<1>5. \A pcs : \A v \in Workers : Held(v, pcs)' = Held(v, pcs)
  BY <1>3 DEF Held
<1>6. \A pcs : \A x \in In(pcs)' : x \in In(pcs) \/ x = c
  BY <1>4, <1>5, InMeans
<1>7. DashboardTypeOK'
  BY <1>1, <1>3, <1>4 DEF DashboardTypeOK
<1>8. Placed'
  <2>1. lastId' \in Nat /\ lastId' >= lastId
    BY <1>1, <1>3
  <2>2. \A x \in backlog' : x \in backlog \/
          (lastId' = lastId + 1 /\ x.id = lastId + 1 /\ x.msg \in published')
    BY <1>3, <1>4
  <2>3. \A v \in Workers : \A x \in Held(v, Busy)' : x \in Held(v, Busy)
    BY <1>5
  <2>4. \A v \in Workers : wk'[v].pc \in Busy => wk'[v].entry \notin wk'[v].batch
    BY <1>1, <1>3 DEF Placed
  <2>5. QED
    BY <1>1, <1>3, <2>1, <2>2, <2>3, <2>4, PlacedKeeps
<1>9. Tries' /\ Sole' /\ TriesCount' /\ MetricsCount'
  <2>1. tried[c.msg] = 0 /\ c.msg \notin published
    BY <1>1, <1>3, <1>4 DEF TriesCount
  <2>2. \A x \in In(Live) : x \in In(Busy)
    BY DEF In, Held, Live, Busy
  <2>3. \A x \in In(Live)' : x.msg = c.msg => x = c
    BY <1>1, <1>6, <2>1, <2>2 DEF Placed, Known
  <2>4. replays' \in [Msgs -> Nat] /\ (\A n \in Msgs : replays'[n] >= replays[n])
    BY <1>1, <1>3 DEF DashboardTypeOK
  <2>5. faults' \in Nat /\ faults' >= faults
    BY <1>1, <1>3 DEF DashboardTypeOK
  <2>6. tried[c.msg] <= c.tries /\ tried[c.msg] >= c.tries
    BY <1>4, <2>1
  <2>7. \A n \in published : n \in published'
    BY <1>3
  <2>8. \A pcs \in {Untried, Owing, Live} : \A x \in In(pcs)' : x \in In(pcs) \/ x = c
    BY <1>6
  <2>9. \A v \in Workers : wk'[v].pc \in {"ack", "requeue", "bury"} => wk'[v] = wk[v]
    BY <1>3
  <2>10. QED
    BY <1>3, <2>1, <2>3, <2>4, <2>5, <2>6, <2>7, <2>8, <2>9, AddKeeps
<1>10. Kept'
  <2>1. ASSUME NEW x, Safe(x), x \notin lost PROVE Safe(x)'
    <3>1. x \in backlog' \union pending' \union dead'
      BY <1>3, <1>4, <2>1 DEF Safe
    <3>2. QED
      BY <1>3, <2>1, <3>1 DEF Safe
  <2>2. Safe(c)'
    <3>1. \A v \in Workers : wk'[v].pc \in {"requeueAck", "buryAck"} =>
             wk[v].pc \in Busy /\ wk'[v].entry = wk[v].entry
      BY <1>3 DEF Busy
    <3>2. c \in backlog'
      BY <1>4
    <3>3. QED
      BY <1>1, <1>3, <1>4, <3>1, <3>2, FreshIsSafe
  <2>3. ASSUME NEW n \in published' \ (done' \union trimmed')
        PROVE  \E x \in backlog' \union pending' \union dead' : x.msg = n /\ Safe(x)'
    <3>1. CASE n = m
      BY <1>4, <2>2, <3>1
    <3>2. CASE n # m
      <4>1. n \in published \ (done \union trimmed)
        BY <1>2, <1>3, <2>3, <3>2
      <4>2. PICK x \in backlog \union pending \union dead : x.msg = n /\ Safe(x)
        BY <1>1, <4>1 DEF Kept
      <4>3. x \notin lost
        BY <1>2, <2>3, <4>2
      <4>4. QED
        BY <2>1, <4>2, <4>3 DEF Safe
    <3>3. QED
      BY <3>1, <3>2
  <2>4. QED
    BY <1>1, <1>3, <2>3 DEF Kept
<1>11. QED
  BY <1>7, <1>8, <1>9, <1>10 DEF DashboardInv
(* reprocess_message adds the dead letter before it deletes it.            *)
LEMMA ReplayKeeps ==
    ASSUME DashboardInv, NEW e \in dead, Replay(e), UNCHANGED counted PROVE DashboardInv'
<1>1. DashboardTypeOK /\ Placed /\ Kept /\ Tries /\ lastId \in Nat
  BY DEF DashboardInv, DashboardTypeOK
<1>2. e \in Entry /\ e.msg \in Msgs
  BY <1>1 DEF DashboardTypeOK, Entry
<1>3. /\ lastId' = lastId + 1 /\ replay' = e /\ replay = NoEntry
      /\ replays' = [replays EXCEPT ![e.msg] = @ + 1]
      /\ UNCHANGED <<pending, dead, wk, published, trimmed, tried, done, faults, counted>>
  BY DEF Replay, Add
<1>4. PICK c \in Entry : /\ c.id = lastId + 1 /\ c.msg = e.msg /\ c.tries = e.tries
                         /\ backlog' = backlog \union {c}
  <2>1. [id |-> lastId + 1, msg |-> e.msg, tries |-> e.tries] \in Entry
    BY <1>1, <1>2 DEF Entry
  <2>2. QED
    BY <2>1 DEF Replay, Add
<1>5. \A pcs : \A v \in Workers : Held(v, pcs)' = Held(v, pcs)
  BY <1>3 DEF Held
<1>6. \A pcs : \A x \in In(pcs)' : x \in In(pcs) \/ x = c
  BY <1>4, <1>5, InMeans
<1>7. /\ replays' \in [Msgs -> Nat] /\ (\A n \in Msgs : replays'[n] >= replays[n])
      /\ replays'[e.msg] = replays[e.msg] + 1
  <2>1. \A n \in Msgs : replays[n] \in Nat
    BY <1>1 DEF DashboardTypeOK
  <2>2. \A n \in Msgs : replays'[n] = IF n = e.msg THEN replays[n] + 1 ELSE replays[n]
    BY <1>1, <1>3 DEF DashboardTypeOK
  <2>3. replays' \in [Msgs -> Nat]
    BY <1>1, <1>2, <1>3 DEF DashboardTypeOK
  <2>4. QED
    BY <1>2, <2>1, <2>2, <2>3
<1>8. DashboardTypeOK'
  BY <1>1, <1>2, <1>3, <1>4, <1>7 DEF DashboardTypeOK
<1>9. Known(e)
  BY <1>1 DEF Placed
<1>10. Placed'
  <2>1. lastId' \in Nat /\ lastId' >= lastId
    BY <1>1, <1>3
  <2>2. \A x \in backlog' : x \in backlog \/
          (lastId' = lastId + 1 /\ x.id = lastId + 1 /\ x.msg \in published')
    BY <1>3, <1>4, <1>9 DEF Known
  <2>3. \A v \in Workers : \A x \in Held(v, Busy)' : x \in Held(v, Busy)
    BY <1>5
  <2>4. \A v \in Workers : wk'[v].pc \in Busy => wk'[v].entry \notin wk'[v].batch
    BY <1>1, <1>3 DEF Placed
  <2>5. replay' \in dead
    BY <1>3
  <2>6. QED
    BY <1>1, <1>3, <2>1, <2>2, <2>3, <2>4, <2>5, PlacedKeeps
<1>11. Tries' /\ Sole' /\ TriesCount' /\ MetricsCount'
  <2>1. c.tries = MaxRetries /\ tried[c.msg] > MaxRetries
    BY <1>1, <1>4 DEF Tries
  <2>2. tried[c.msg] >= c.tries
    <3>1. tried[c.msg] \in Nat
      BY <1>1, <1>2, <1>4 DEF DashboardTypeOK
    <3>2. QED
      BY <2>1, <3>1, BoundsAssumption
  <2>3. faults' \in Nat /\ faults' >= faults
    BY <1>1, <1>3 DEF DashboardTypeOK
  <2>4. \A pcs \in {Untried, Owing, Live} : \A x \in In(pcs)' : x \in In(pcs) \/ x = c
    BY <1>6
  <2>5. \A v \in Workers : wk'[v].pc \in {"ack", "requeue", "bury"} => wk'[v] = wk[v]
    BY <1>3
  <2>6. replays'[c.msg] = replays[c.msg] + 1
    BY <1>4, <1>7
  <2>7. QED
    BY <1>3, <1>7, <2>1, <2>2, <2>3, <2>4, <2>5, <2>6, AddKeeps
<1>12. Kept'
  <2>1. ASSUME NEW x, Safe(x), x # e PROVE Safe(x)'
    <3>1. x \in backlog' \union pending' \union dead'
      BY <1>3, <1>4, <2>1 DEF Safe
    <3>2. QED
      BY <1>3, <2>1, <3>1 DEF Safe
  <2>2. Safe(c)'
    <3>1. \A v \in Workers : wk'[v].pc \in {"requeueAck", "buryAck"} =>
             wk[v].pc \in Busy /\ wk'[v].entry = wk[v].entry
      BY <1>3 DEF Busy
    <3>2. c \in backlog' /\ replay' \in dead
      BY <1>3, <1>4
    <3>3. QED
      BY <1>1, <1>4, <3>1, <3>2, FreshIsSafe
  <2>3. ASSUME NEW n \in published' \ (done' \union trimmed')
        PROVE  \E x \in backlog' \union pending' \union dead' : x.msg = n /\ Safe(x)'
    <3>1. PICK x \in backlog \union pending \union dead : x.msg = n /\ Safe(x)
      BY <1>1, <1>3, <2>3 DEF Kept
    <3>2. CASE x = e
      <4>1. c.msg = n /\ c \in backlog'
        BY <1>4, <3>1, <3>2
      <4>2. QED
        BY <2>2, <4>1
    <3>3. CASE x # e
      BY <2>1, <3>1, <3>3 DEF Safe
    <3>4. QED
      BY <3>2, <3>3
  <2>4. QED
    BY <1>1, <1>3, <2>3 DEF Kept
<1>13. QED
  BY <1>8, <1>10, <1>11, <1>12 DEF DashboardInv

-----------------------------------------------------------------------------
LEMMA DashboardInitInv == DashboardInit => DashboardInv
<1> SUFFICES ASSUME DashboardInit PROVE DashboardInv
  OBVIOUS
<1>1. /\ lastId = 0 /\ backlog = {} /\ dead = {} /\ replay = NoEntry /\ published = {}
      /\ done = {} /\ faults = 0
      /\ wk = [w \in Workers |-> Stopped]
      /\ tried = [m \in Msgs |-> 0] /\ replays = [m \in Msgs |-> 0] /\ counted = [m \in Msgs |-> 0]
  BY DEF DashboardInit, Init
<1>2. Stopped \in Worker /\ Stopped.pc = "stopped" /\ Stopped.batch = {}
  BY DEF Stopped, Worker
<1>3. DashboardTypeOK
  BY <1>1, <1>2 DEF DashboardTypeOK, Busy
<1>4. \A pcs \in {Untried, Owing, Live, Busy} : In(pcs) = {}
  BY <1>1, <1>2 DEF In, Held, Untried, Owing, Live, Busy
<1>5. \A w \in Workers : wk[w].pc = "stopped" /\ Held(w, Busy) = {}
  BY <1>1, <1>2 DEF Held, Busy
<1>6. Placed
  BY <1>1, <1>4, <1>5 DEF Placed, Busy
<1>7. Kept
  BY <1>1, <1>5 DEF Kept
<1>8. Tries /\ Sole
  BY <1>1, <1>4, <1>5 DEF Tries, Sole
<1>9. \A m \in Msgs : \A pcs \in {Untried, Owing} :
         IsFiniteSet(Of(m, pcs)) /\ Cardinality(Of(m, pcs)) = 0
  <2>1. \A m \in Msgs : \A pcs \in {Untried, Owing} : Of(m, pcs) = {}
    BY <1>4 DEF Of
  <2>2. QED
    BY <2>1, FS_EmptySet
<1>10. TriesCount /\ MetricsCount
  BY <1>1, <1>9, BoundsAssumption DEF TriesCount, MetricsCount
<1>11. QED
  BY <1>3, <1>6, <1>7, <1>8, <1>10 DEF DashboardInv

LEMMA DashboardNextInv == DashboardInv /\ [Next]_allVars => DashboardInv'
<1> SUFFICES ASSUME DashboardInv, [Next]_allVars PROVE DashboardInv'
  OBVIOUS
<1>1. CASE UNCHANGED allVars
  BY <1>1, StutterKeeps
<1>2. ASSUME NEW w \in Workers, Works(w) PROVE DashboardInv'
  BY <1>2, MetricsKeeps, StartKeeps, ReadKeeps, AckKeeps, RequeueKeeps, BuryKeeps, AckHandledKeeps
     DEF Works, Consumes
<1>3. ASSUME NEW w \in Workers, ReplyLost(w) PROVE DashboardInv'
  BY <1>3, ReplyLostKeeps
<1>4. CASE Others /\ UNCHANGED counted
  BY <1>4, PublishKeeps, StopKeeps, ReplayKeeps, DeleteReplayedKeeps DEF Others
<1>5. QED
  BY <1>1, <1>2, <1>3, <1>4 DEF Next

(* The invariant above, of every state the workers, the publishers and the *)
(* dead letter handler can reach (base_worker.py consume).                 *)
THEOREM DashboardCorrect == Spec => []DashboardInv
<1>1. Spec => DashboardInit /\ [][Next]_allVars
  BY DEF Spec
<1>2. QED
  BY <1>1, DashboardInitInv, DashboardNextInv, PTL

(* Whatever fails, a published message that process() never returned for   *)
(* is in the stream, pending or dead-lettered, or was trimmed.             *)
THEOREM MessagesKept == Spec => []NothingVanishes
<1>1. DashboardInv => NothingVanishes
  BY DEF DashboardInv, Kept, NothingVanishes
<1>2. QED
  BY <1>1, DashboardCorrect, PTL

(* process() is called at most max_retries + 1 times for a publication and *)
(* once more for each time its dead letter is sent back.                   *)
THEOREM RetriesBounded == Spec => []TriesBounded
<1>1. DashboardInv => TriesBounded
  <2> SUFFICES ASSUME DashboardInv, NEW m \in Msgs
               PROVE  tried[m] <= MaxRetries + 1 + replays[m]
    BY DEF TriesBounded
  <2>1. /\ tried[m] \in Nat /\ replays[m] \in Nat /\ IsFiniteSet(Of(m, Untried))
        /\ tried[m] + Cardinality(Of(m, Untried)) <= MaxRetries + 1 + replays[m]
    BY DEF DashboardInv, DashboardTypeOK, TriesCount
  <2>2. Cardinality(Of(m, Untried)) \in Nat
    BY <2>1, FS_CardinalityType
  <2>3. QED
    BY <2>1, <2>2, BoundsAssumption
<1>2. QED
  BY <1>1, DashboardCorrect, PTL

(* A message is dead-lettered only after process() was called for it       *)
(* max_retries + 1 times: faults never use up a retry that was not made.   *)
GivenUpLast ==
    \A e \in dead : tried[e.msg] > MaxRetries

(* A retry that was not made is never used up, for any faults and replays  *)
(* (base_worker.py lines 96 to 101).                                       *)
THEOREM DeadLettersEarned == Spec => []GivenUpLast
<1>1. DashboardInv => GivenUpLast
  BY DEF DashboardInv, Tries, GivenUpLast
<1>2. QED
  BY <1>1, DashboardCorrect, PTL

(* A processed decision is in the counters, and in them again only for a   *)
(* fault or a replay.                                                      *)
THEOREM CountersRight == Spec => []CountedOnce
<1>1. DashboardInv => CountedOnce
  <2> SUFFICES ASSUME DashboardInv, NEW m \in Msgs
               PROVE  (m \in done => counted[m] > 0) /\ counted[m] <= 1 + faults + replays[m]
    BY DEF CountedOnce
  <2>1. /\ counted[m] \in Nat /\ replays[m] \in Nat /\ faults \in Nat
        /\ IsFiniteSet(Of(m, Owing)) /\ (m \in done => counted[m] > 0)
        /\ counted[m] + Cardinality(Of(m, Owing)) <= 1 + faults + replays[m]
    BY DEF DashboardInv, DashboardTypeOK, MetricsCount
  <2>2. Cardinality(Of(m, Owing)) \in Nat
    BY <2>1, FS_CardinalityType
  <2>3. QED
    BY <2>1, <2>2
<1>2. QED
  BY <1>1, DashboardCorrect, PTL

-----------------------------------------------------------------------------
(* What Delivery promises needs to know of a message that met no fault and *)
(* was not sent back: it has one entry, and once it was handled or given   *)
(* up no entry of it is to be processed again.                             *)
Single(m) ==
    (faults = 0 /\ replays[m] = 0) =>
        /\ \A e, f \in In(Hands) : (e.msg = m /\ f.msg = m) => e = f
        /\ m \in done => \A e \in In(Undone) \union dead : e.msg # m
        /\ \A e \in In(Hands), d \in dead : e.msg = m => d.msg # m

Exclusive == \A m \in Msgs : Single(m)

\* A dead letter is deleted after it was sent back.
Sent == replay # NoEntry => replays[replay.msg] > 0

PromiseInv == DashboardInv /\ Exclusive /\ Sent

(* A step that adds nothing of m.                                          *)
LEMMA QuietSingle ==
    ASSUME NEW m \in Msgs, Single(m),
           faults' = 0 => faults = 0, replays'[m] = 0 => replays[m] = 0,
           \A x \in In(Hands)' : x.msg = m => x \in In(Hands),
           \A x \in In(Undone)' : x.msg = m => x \in In(Undone),
           \A x \in dead' : x.msg = m => x \in dead,
           m \in done' => m \in done
    PROVE  Single(m)'
BY DEF Single

LEMMA FaultExcuses ==
    ASSUME DashboardTypeOK, faults' = faults + 1 PROVE Exclusive'
<1>1. faults' # 0
  BY DEF DashboardTypeOK
<1>2. QED
  BY <1>1 DEF Exclusive, Single

LEMMA LetsGoSingle ==
    ASSUME DashboardTypeOK, Placed, Exclusive, NEW w \in Workers, LetsGo(w),
           UNCHANGED <<backlog, dead, done, replays, faults>>
    PROVE  Exclusive'
<1>1. \A pcs \in {Hands, Undone} : \A v \in Workers : \A x \in Held(v, pcs)' : x \in Held(v, pcs)
  BY LetsGoHolds
<1>2. \A pcs \in {Hands, Undone} : \A x \in In(pcs)' : x \in In(pcs)
  BY <1>1, InMeans
<1>3. QED
  BY <1>2, QuietSingle DEF Exclusive

LEMMA StillSingle ==
    ASSUME Exclusive, UNCHANGED <<backlog, wk, done, replays>>, faults' = 0 => faults = 0,
           \A x \in dead' : x \in dead
    PROVE  Exclusive'
<1>1. \A pcs : \A v \in Workers : Held(v, pcs)' = Held(v, pcs)
  BY DEF Held
<1>2. \A pcs \in {Hands, Undone} : \A x \in In(pcs)' : x \in In(pcs)
  BY <1>1, InMeans
<1>3. QED
  BY <1>2, QuietSingle DEF Exclusive

LEMMA ReadSingle ==
    ASSUME DashboardTypeOK, Placed, Exclusive, NEW w \in Workers, Read(w)
    PROVE  Exclusive'
<1>1. PICK batch \in SUBSET backlog :
         /\ backlog' = backlog \ batch
         /\ \E e \in batch :
              Set(w, [pc |-> "processing", entry |-> e, batch |-> batch \ {e}])
  BY DEF Read
<1>2. PICK e \in batch : Set(w, [pc |-> "processing", entry |-> e, batch |-> batch \ {e}])
  BY <1>1
<1>3. /\ wk'[w].pc = "processing" /\ wk'[w].entry = e /\ wk'[w].batch = batch \ {e}
      /\ \A v \in Workers : v # w => wk'[v] = wk[v]
  BY <1>2 DEF DashboardTypeOK, Set
<1>4. ASSUME NEW pcs \in {Hands, Undone}, NEW v \in Workers, NEW x \in Held(v, pcs)'
      PROVE  x \in Held(v, pcs) \/ x \in backlog
  <2>1. CASE v = w
    BY <1>1, <1>3, <1>4, <2>1 DEF Held
  <2>2. CASE v # w
    BY <1>3, <1>4, <2>2 DEF Held
  <2>3. QED
    BY <2>1, <2>2
<1>5. \A pcs \in {Hands, Undone} : \A x \in In(pcs)' : x \in In(pcs)
  BY <1>1, <1>4, InMeans
<1>6. UNCHANGED <<dead, done, replays, faults>>
  BY DEF Read, history
<1>7. QED
  BY <1>5, <1>6, QuietSingle DEF Exclusive

(* The call of process() for w's entry returned, or raised.                *)
LEMMA CallSingle ==
    ASSUME DashboardTypeOK, Placed, Exclusive, NEW w \in Workers, wk[w].pc = "processing",
           NEW pc \in {"ack", "requeue", "bury"}, Goto(w, pc),
           UNCHANGED <<backlog, dead, replays, faults>>,
           \/ pc = "ack" /\ done' = done \union {wk[w].entry.msg}
           \/ done' = done
    PROVE  Exclusive'
<1> DEFINE e == wk[w].entry
<1>1. /\ \A x \in In(Hands)' : x \in In(Hands)
      /\ \A x \in In(Undone)' : x \in In(Undone)
      /\ e \in In(Hands)
      /\ pc = "ack" => e \notin In(Undone)'
  BY CallMoves
<1> HIDE DEF e
<1>2. \A x \in In(Undone) : x \in In(Hands)
  BY DEF In, Held, Hands, Undone
<1>3. ASSUME NEW m \in Msgs PROVE Single(m)'
  <2>1. Single(m)
    BY DEF Exclusive
  <2>2. CASE m \in done' => m \in done
    BY <1>1, <2>1, <2>2, QuietSingle
  <2>3. CASE pc = "ack" /\ m = e.msg
    <3>1. ASSUME faults = 0, replays[m] = 0, NEW x \in In(Undone)' PROVE x.msg # m
      BY <1>1, <1>2, <2>1, <2>3, <3>1 DEF Single
    <3>2. ASSUME faults = 0, replays[m] = 0, NEW x \in dead PROVE x.msg # m
      BY <1>1, <2>1, <2>3, <3>2 DEF Single
    <3>3. QED
      BY <1>1, <2>1, <3>1, <3>2 DEF Single
  <2>4. QED
    BY <2>2, <2>3 DEF e
<1>4. QED
  BY <1>3 DEF Exclusive

(* The copy takes the place of the entry that failed.                      *)
LEMMA CopySingle ==
    ASSUME DashboardTypeOK, Placed, Exclusive, NEW w \in Workers, wk[w].pc = "requeue", LetsGo(w),
           Add(wk[w].entry.msg, wk[w].entry.tries + 1),
           UNCHANGED <<dead, done, replays, faults>>
    PROVE  Exclusive'
<1> DEFINE e == wk[w].entry
<1>1. wk[w].pc \in Busy /\ e \in Entry /\ lastId \in Nat
  BY DEF DashboardTypeOK, Busy
<1>2. e \in Held(w, Hands) /\ e \in Held(w, Undone) /\ e \in Held(w, Busy)
  BY DEF Held, Hands, Undone, Busy
<1>3. e \in In(Hands) /\ e \in In(Undone) /\ e \in In(Busy)
  BY <1>2, InMeans
<1>4. PICK c : c.id = lastId + 1 /\ c.msg = e.msg /\ backlog' = backlog \union {c}
  <2>1. backlog' = backlog \union {[id |-> lastId + 1, msg |-> e.msg, tries |-> e.tries + 1]}
    BY DEF Add
  <2>2. QED
    BY <2>1
<1>5. e \notin backlog'
  <2>1. e # c
    BY <1>1, <1>3, <1>4 DEF Placed, Known, Entry
  <2>2. e \notin backlog
    BY <1>2 DEF Placed
  <2>3. QED
    BY <1>4, <2>1, <2>2
<1>6. e \notin In(Hands)' /\ e \notin In(Undone)'
  BY <1>1, <1>5, LetsGoLoses
<1>7. \A pcs \in {Hands, Undone} : \A v \in Workers : \A x \in Held(v, pcs)' : x \in Held(v, pcs)
  BY LetsGoHolds
<1>8. \A pcs \in {Hands, Undone} : \A x \in In(pcs)' : x \in In(pcs) \/ x = c
  BY <1>4, <1>7, InMeans
<1> HIDE DEF e
<1>9. ASSUME NEW m \in Msgs PROVE Single(m)'
  <2>1. Single(m)
    BY DEF Exclusive
  <2>2. CASE m # e.msg
    <3>1. \A pcs \in {Hands, Undone} : \A x \in In(pcs)' : x.msg = m => x \in In(pcs)
      BY <1>4, <1>8, <2>2
    <3>2. QED
      BY <2>1, <3>1, QuietSingle
  <2>3. CASE m = e.msg /\ faults = 0 /\ replays[m] = 0
    <3>1. \A x \in In(Hands)' : x.msg = m => x = c
      BY <1>3, <1>6, <1>8, <2>1, <2>3 DEF Single
    <3>2. m \notin done /\ \A d \in dead : d.msg # m
      BY <1>3, <2>1, <2>3 DEF Single
    <3>3. QED
      BY <3>1, <3>2 DEF Single
  <2>4. QED
    BY <2>2, <2>3 DEF Single
<1>10. QED
  BY <1>9 DEF Exclusive

(* The dead letter takes the place of the entry.                           *)
LEMMA BurialSingle ==
    ASSUME DashboardTypeOK, Placed, Exclusive, NEW w \in Workers, wk[w].pc = "bury", LetsGo(w),
           dead' = dead \union {wk[w].entry}, UNCHANGED <<backlog, done, replays, faults>>
    PROVE  Exclusive'
<1> DEFINE e == wk[w].entry
<1>1. wk[w].pc \in Busy
  BY DEF Busy
<1>2. e \in Held(w, Hands) /\ e \in Held(w, Undone) /\ e \in Held(w, Busy)
  BY DEF Held, Hands, Undone, Busy
<1>3. e \in In(Hands) /\ e \in In(Undone)
  BY <1>2, InMeans
<1>4. e \notin backlog'
  BY <1>2 DEF Placed
<1>5. e \notin In(Hands)' /\ e \notin In(Undone)'
  BY <1>1, <1>4, LetsGoLoses
<1>6. \A pcs \in {Hands, Undone} : \A v \in Workers : \A x \in Held(v, pcs)' : x \in Held(v, pcs)
  BY LetsGoHolds
<1>7. \A pcs \in {Hands, Undone} : \A x \in In(pcs)' : x \in In(pcs)
  BY <1>6, InMeans
<1>8. dead' = dead \union {e}
  OBVIOUS
<1> HIDE DEF e
<1>9. ASSUME NEW m \in Msgs PROVE Single(m)'
  <2>1. Single(m)
    BY DEF Exclusive
  <2>2. CASE m # e.msg
    <3>1. \A x \in dead' : x.msg = m => x \in dead
      BY <1>8, <2>2
    <3>2. QED
      BY <1>7, <2>1, <3>1, QuietSingle
  <2>3. CASE m = e.msg /\ faults = 0 /\ replays[m] = 0
    <3>1. \A x \in In(Hands)' : x.msg # m
      BY <1>3, <1>5, <1>7, <2>1, <2>3 DEF Single
    <3>2. m \notin done
      BY <1>3, <2>1, <2>3 DEF Single
    <3>3. QED
      BY <3>1, <3>2 DEF Single
  <2>4. QED
    BY <2>2, <2>3 DEF Single
<1>10. QED
  BY <1>9 DEF Exclusive

-----------------------------------------------------------------------------
(* The steps of Delivery.                                                  *)
LEMMA QuietImplements ==
    ASSUME \A m : (\E e \in dead : e.msg = m) <=> (\E e \in dead' : e.msg = m),
           UNCHANGED <<published, done, tried, counted, replays>>, faults' \in {faults, faults + 1}
    PROVE  Promise!Next
<1>1. {e.msg : e \in dead'} = {e.msg : e \in dead}
  OBVIOUS
<1>2. QED
  BY <1>1 DEF Promise!Next

(* What Delivery asks of a call: process() is called for an entry only if  *)
(* its message is due.                                                     *)
LEMMA CallAllowed ==
    ASSUME PromiseInv, NEW w \in Workers, wk[w].pc = "processing", NEW m, m = wk[w].entry.msg
    PROVE  /\ m \in Msgs /\ m \in published
           /\ tried[m] <= MaxRetries + replays[m]
           /\ counted[m] <= faults + replays[m]
           /\ m \in done \union {e.msg : e \in dead} => Promise!Excused(m)
<1> DEFINE e == wk[w].entry
<1>1. DashboardTypeOK /\ Placed /\ TriesCount /\ MetricsCount /\ Exclusive
  BY DEF PromiseInv, DashboardInv
<1>2. e \in Entry /\ e.msg = m
  BY <1>1 DEF DashboardTypeOK, Busy
<1>3. /\ m \in Msgs /\ tried[m] \in Nat /\ counted[m] \in Nat /\ replays[m] \in Nat /\ faults \in Nat
  BY <1>1, <1>2 DEF DashboardTypeOK, Entry
<1>4. /\ e \in Held(w, Untried) /\ e \in Held(w, Owing) /\ e \in Held(w, Busy)
      /\ e \in Held(w, Hands) /\ e \in Held(w, Undone)
  BY DEF Held, Untried, Owing, Busy, Hands, Undone
<1>5. e \in In(Untried) /\ e \in In(Owing) /\ e \in In(Busy) /\ e \in In(Hands) /\ e \in In(Undone)
  BY <1>4, InMeans
<1>6. m \in published
  BY <1>1, <1>2, <1>5 DEF Placed, Known
<1> HIDE DEF e
<1>7. e \in Of(m, Untried) /\ e \in Of(m, Owing)
  BY <1>2, <1>5 DEF Of
<1>8. IsFiniteSet(Of(m, Untried)) /\ IsFiniteSet(Of(m, Owing))
  BY <1>1, <1>3 DEF TriesCount, MetricsCount
<1>9. Cardinality(Of(m, Untried)) \in Nat /\ Cardinality(Of(m, Untried)) >= 1
  BY <1>7, <1>8, FS_EmptySet, FS_CardinalityType
<1>10. Cardinality(Of(m, Owing)) \in Nat /\ Cardinality(Of(m, Owing)) >= 1
  BY <1>7, <1>8, FS_EmptySet, FS_CardinalityType
<1>11. tried[m] <= MaxRetries + replays[m]
  BY <1>1, <1>3, <1>9, BoundsAssumption DEF TriesCount
<1>12. counted[m] <= faults + replays[m]
  BY <1>1, <1>3, <1>10 DEF MetricsCount
<1>13. faults = 0 /\ replays[m] = 0 => m \notin done /\ \A d \in dead : d.msg # m
  BY <1>1, <1>2, <1>3, <1>5 DEF Exclusive, Single
<1>14. m \in done \union {d.msg : d \in dead} => Promise!Excused(m)
  BY <1>3, <1>13 DEF Promise!Excused
<1>15. QED
  BY <1>3, <1>6, <1>11, <1>12, <1>14

LEMMA MetricsImplements ==
    ASSUME PromiseInv, NEW w \in Workers, Metrics(w)
    PROVE  Exclusive' /\ Sent' /\ Promise!Next
<1>1. DashboardTypeOK /\ Placed /\ Exclusive /\ Sent /\ wk[w].pc = "processing"
  BY DEF PromiseInv, DashboardInv, Metrics, Process
<1>2. PICK m : m = wk[w].entry.msg
  OBVIOUS
<1>3. /\ UNCHANGED <<backlog, dead, replay, published, replays, faults>>
      /\ tried' = [tried EXCEPT ![m] = @ + 1]
  BY <1>2 DEF Metrics, Process
<1>4. PICK pc \in {"ack", "requeue", "bury"} :
        /\ Goto(w, pc)
        /\ \/ /\ done' = done \union {m} /\ counted' = [counted EXCEPT ![m] = @ + 1]
              /\ pc = "ack"
           \/ done' = done /\ counted' = counted
  <2>1. CASE done' = done \union {m} /\ Goto(w, "ack")
    <3>1. wk'[w].pc = "ack"
      BY <1>1, <2>1, GotoHand DEF Busy
    <3>2. QED
      BY <1>2, <2>1, <3>1 DEF Metrics, CountIt
  <2>2. CASE done' = done /\ Failed(w)
    <3>1. PICK pc \in {"requeue", "bury"} : Goto(w, pc)
      BY <1>1, <2>2, FailedGoes DEF Busy
    <3>2. wk'[w].pc # "ack"
      BY <1>1, <3>1, GotoHand DEF Busy
    <3>3. QED
      BY <2>2, <3>1, <3>2 DEF Metrics
  <2>3. QED
    BY <1>2, <2>1, <2>2 DEF Metrics, Process
<1>5. Exclusive'
  BY <1>1, <1>2, <1>3, <1>4, CallSingle
<1>6. Sent'
  BY <1>1, <1>3 DEF Sent
<1>7. Promise!Attempt(m)
  <2>1. {e.msg : e \in dead'} = {e.msg : e \in dead}
    BY <1>3
  <2>2. QED
    BY <1>1, <1>2, <1>3, <1>4, <2>1, CallAllowed DEF Promise!Attempt
<1>8. m \in Msgs
  BY <1>1, <1>2, CallAllowed
<1>9. QED
  BY <1>3, <1>5, <1>6, <1>7, <1>8 DEF Promise!Next

LEMMA ReplyLostImplements ==
    ASSUME PromiseInv, NEW w \in Workers, ReplyLost(w)
    PROVE  Exclusive' /\ Sent' /\ Promise!Next
<1>1. DashboardTypeOK /\ Sent /\ wk[w].pc = "processing"
  BY DEF PromiseInv, DashboardInv, ReplyLost
<1>2. PICK m : m = wk[w].entry.msg
  OBVIOUS
<1>3. /\ UNCHANGED <<dead, replay, published, done, replays>> /\ faults' = faults + 1
      /\ tried' = [tried EXCEPT ![m] = @ + 1]
      /\ counted' = [counted EXCEPT ![m] = @ + 1] \/ counted' = counted
  BY <1>2 DEF ReplyLost, CountIt
<1>4. Exclusive' /\ Sent'
  BY <1>1, <1>3, FaultExcuses DEF Sent
<1>5. Promise!Attempt(m)
  <2>1. {e.msg : e \in dead'} = {e.msg : e \in dead}
    BY <1>3
  <2>2. QED
    BY <1>1, <1>2, <1>3, <2>1, CallAllowed DEF Promise!Attempt
<1>6. m \in Msgs
  BY <1>1, <1>2, CallAllowed
<1>7. QED
  BY <1>3, <1>4, <1>5, <1>6 DEF Promise!Next

LEMMA AckImplements ==
    ASSUME PromiseInv, NEW w \in Workers, Ack(w) \/ AckHandled(w), UNCHANGED counted
    PROVE  Exclusive' /\ Sent' /\ Promise!Next
<1>1. DashboardTypeOK /\ Placed /\ Exclusive /\ Sent
  BY DEF PromiseInv, DashboardInv
<1>2. UNCHANGED <<backlog, dead, replay, published, done, tried, replays>>
  BY DEF Ack, AckHandled, history
<1>3. (NextEntry(w) /\ faults' = faults) \/ faults' = faults + 1
  BY DEF Ack, AckHandled, AbandonBatch
<1>4. Exclusive'
  BY <1>1, <1>2, <1>3, NextEntryLetsGo, LetsGoSingle, FaultExcuses
<1>5. Promise!Next
  BY <1>2, <1>3, QuietImplements
<1>6. QED
  BY <1>1, <1>2, <1>4, <1>5 DEF Sent

LEMMA ReaderImplements ==
    ASSUME PromiseInv, NEW w \in Workers, Start(w) \/ Read(w), UNCHANGED counted
    PROVE  Exclusive' /\ Sent' /\ Promise!Next
<1>1. DashboardTypeOK /\ Placed /\ Exclusive /\ Sent
  BY DEF PromiseInv, DashboardInv
<1>2. UNCHANGED <<dead, replay, published, done, tried, replays, faults>>
  BY DEF Start, Read, history
<1>3. Exclusive'
  <2>1. CASE Start(w)
    <3>1. Set(w, Reading) /\ backlog' = backlog
      BY <2>1 DEF Start
    <3>2. QED
      BY <1>1, <1>2, <3>1, StopLetsGo, LetsGoSingle
  <2>2. QED
    BY <1>1, <2>1, ReadSingle
<1>4. Promise!Next
  BY <1>2, QuietImplements
<1>5. QED
  BY <1>1, <1>2, <1>3, <1>4 DEF Sent

LEMMA RequeueImplements ==
    ASSUME PromiseInv, NEW w \in Workers, Requeue(w), UNCHANGED counted
    PROVE  Exclusive' /\ Sent' /\ Promise!Next
<1>1. DashboardTypeOK /\ Placed /\ Exclusive /\ Sent
  BY DEF PromiseInv, DashboardInv
<1>2. wk[w].pc = "requeue" /\ UNCHANGED <<dead, replay, published, done, tried, replays>>
  BY DEF Requeue, history
<1>3. \/ Add(wk[w].entry.msg, wk[w].entry.tries + 1) /\ Goto(w, "requeueAck") /\ faults' = faults
      \/ faults' = faults + 1
  BY DEF Requeue, AbandonBatch
<1>4. Goto(w, "requeueAck") => LetsGo(w)
  <2> SUFFICES ASSUME Goto(w, "requeueAck") PROVE LetsGo(w)
    OBVIOUS
  <2>1. "requeueAck" \in Busy /\ wk[w].pc \in Busy
    BY <1>2 DEF Busy
  <2>2. /\ wk' \in [Workers -> Worker]
        /\ wk'[w].pc = "requeueAck" /\ wk'[w].entry = wk[w].entry /\ wk'[w].batch = wk[w].batch
        /\ \A v \in Workers \ {w} : wk'[v] = wk[v]
    BY <1>1, <2>1, GotoHand
  <2>3. QED
    BY <2>1, <2>2 DEF LetsGo
<1>5. Exclusive'
  BY <1>1, <1>2, <1>3, <1>4, CopySingle, FaultExcuses
<1>6. Promise!Next
  BY <1>2, <1>3, QuietImplements
<1>7. QED
  BY <1>1, <1>2, <1>5, <1>6 DEF Sent

LEMMA BuryImplements ==
    ASSUME PromiseInv, NEW w \in Workers, Bury(w), UNCHANGED counted
    PROVE  Exclusive' /\ Sent' /\ Promise!Next
<1> DEFINE e == wk[w].entry
<1>1. DashboardTypeOK /\ Placed /\ Tries /\ Exclusive /\ Sent
  BY DEF PromiseInv, DashboardInv
<1>2. wk[w].pc = "bury" /\ UNCHANGED <<backlog, replay, published, done, tried, replays>>
  BY DEF Bury, history
<1>3. \/ dead' = dead \union {e} /\ Goto(w, "buryAck") /\ faults' = faults
      \/ dead' = dead \union {e} /\ faults' = faults + 1
      \/ dead' = dead /\ faults' = faults + 1
  BY DEF Bury, AbandonBatch
<1>4. Goto(w, "buryAck") => LetsGo(w)
  <2> SUFFICES ASSUME Goto(w, "buryAck") PROVE LetsGo(w)
    OBVIOUS
  <2>1. "buryAck" \in Busy /\ wk[w].pc \in Busy
    BY <1>2 DEF Busy
  <2>2. /\ wk' \in [Workers -> Worker]
        /\ wk'[w].pc = "buryAck" /\ wk'[w].entry = wk[w].entry /\ wk'[w].batch = wk[w].batch
        /\ \A v \in Workers \ {w} : wk'[v] = wk[v]
    BY <1>1, <2>1, GotoHand
  <2>3. QED
    BY <2>1, <2>2 DEF LetsGo
<1>5. Exclusive'
  BY <1>1, <1>2, <1>3, <1>4, BurialSingle, FaultExcuses
<1>6. e.msg \in Msgs /\ e \in In(Undone)
  <2>1. e \in Held(w, Undone)
    BY <1>2 DEF Held, Undone
  <2>2. QED
    BY <1>1, <1>2, <2>1, InMeans DEF DashboardTypeOK, Busy, Entry
<1>7. tried[e.msg] > MaxRetries
  BY <1>1, <1>2 DEF Tries
<1>8. e.msg \in done => Promise!Excused(e.msg)
  <2>1. replays[e.msg] \in Nat /\ faults \in Nat
    BY <1>1, <1>6 DEF DashboardTypeOK
  <2>2. faults = 0 /\ replays[e.msg] = 0 => e.msg \notin done
    BY <1>1, <1>6 DEF Exclusive, Single
  <2>3. QED
    BY <2>1, <2>2 DEF Promise!Excused
<1>9. CASE dead' = dead \union {e}
  <2>1. PICK m \in Msgs : m = e.msg
    BY <1>6
  <2>2. {x.msg : x \in dead'} = {x.msg : x \in dead} \union {m}
    BY <1>9, <2>1
  <2>3. Promise!GiveUp(m)
    BY <1>2, <1>7, <1>8, <2>1, <2>2 DEF Promise!GiveUp
  <2>4. Promise!Next
    BY <1>3, <2>3 DEF Promise!Next
  <2>5. QED
    BY <1>1, <1>2, <1>5, <2>4 DEF Sent
<1>10. CASE dead' = dead /\ faults' = faults + 1
  BY <1>1, <1>2, <1>5, <1>10, QuietImplements DEF Sent
<1>11. QED
  BY <1>3, <1>9, <1>10

LEMMA StopImplements ==
    ASSUME PromiseInv, NEW w \in Workers, Stop(w), UNCHANGED counted
    PROVE  Exclusive' /\ Sent' /\ Promise!Next
<1>1. DashboardTypeOK /\ Sent
  BY DEF PromiseInv, DashboardInv
<1>2. faults' = faults + 1 /\ UNCHANGED <<dead, replay, published, done, tried, replays>>
  BY DEF Stop, history
<1>3. QED
  BY <1>1, <1>2, FaultExcuses, QuietImplements DEF Sent

LEMMA PublishImplements ==
    ASSUME PromiseInv, NEW m \in Msgs, Publish(m), UNCHANGED counted
    PROVE  Exclusive' /\ Sent' /\ Promise!Next
<1>1. DashboardTypeOK /\ Placed /\ Exclusive /\ Sent /\ MetricsCount
  BY DEF PromiseInv, DashboardInv
<1>2. /\ m \notin published /\ published' = published \union {m}
      /\ UNCHANGED <<dead, wk, replay, done, tried, replays, faults>>
  BY DEF Publish
<1>3. PICK c : c.msg = m /\ \A x \in backlog' : x \in backlog \/ x = c
  <2>1. PICK c : c = [id |-> lastId + 1, msg |-> m, tries |-> 0]
    OBVIOUS
  <2>2. c.msg = m /\ \A x \in backlog' : x \in backlog \/ x = c
    BY <2>1 DEF Publish
  <2>3. QED
    BY <2>2
<1>4. \A pcs : \A v \in Workers : Held(v, pcs)' = Held(v, pcs)
  BY <1>2 DEF Held
<1>5. \A pcs \in {Hands, Undone} : \A x \in In(pcs)' : x \in In(pcs) \/ x = c
  BY <1>3, <1>4, InMeans
<1>6. \A pcs \in {Hands, Undone} : \A x \in In(pcs) : x.msg # m
  BY <1>1, <1>2 DEF Placed, Known, In, Held, Hands, Undone, Busy
<1>7. ASSUME NEW n \in Msgs PROVE Single(n)'
  <2>1. CASE n = m
    <3>1. \A x \in dead : x.msg # m
      BY <1>1, <1>2 DEF Placed, Known
    <3>2. m \notin done
      BY <1>1, <1>2 DEF MetricsCount
    <3>3. QED
      BY <1>2, <1>5, <1>6, <2>1, <3>1, <3>2 DEF Single
  <2>2. CASE n # m
    <3>1. \A pcs \in {Hands, Undone} : \A x \in In(pcs)' : x.msg = n => x \in In(pcs)
      BY <1>3, <1>5, <2>2
    <3>2. QED
      BY <1>1, <1>2, <3>1, QuietSingle DEF Exclusive
  <2>3. QED
    BY <2>1, <2>2
<1>8. Promise!Publish(m)
  <2>1. {e.msg : e \in dead'} = {e.msg : e \in dead}
    BY <1>2
  <2>2. QED
    BY <1>2, <2>1 DEF Promise!Publish
<1>9. QED
  BY <1>1, <1>2, <1>7, <1>8 DEF Exclusive, Sent, Promise!Next

LEMMA ReplayImplements ==
    ASSUME PromiseInv, NEW e \in dead, Replay(e), UNCHANGED counted
    PROVE  Exclusive' /\ Sent' /\ Promise!Next
<1>1. DashboardTypeOK /\ Exclusive
  BY DEF PromiseInv, DashboardInv
<1>2. PICK m \in Msgs : m = e.msg
  BY <1>1 DEF DashboardTypeOK, Entry
<1>3. /\ replay' = e /\ replays' = [replays EXCEPT ![m] = @ + 1]
      /\ UNCHANGED <<dead, wk, published, tried, done, faults>>
  BY <1>2 DEF Replay
<1>4. replays'[m] > 0 /\ \A n \in Msgs : n # m => replays'[n] = replays[n]
  <2>1. replays[m] \in Nat /\ replays'[m] = replays[m] + 1
    BY <1>1, <1>3 DEF DashboardTypeOK
  <2>2. QED
    BY <1>1, <1>3, <2>1 DEF DashboardTypeOK
<1>5. PICK c : c.msg = m /\ \A x \in backlog' : x \in backlog \/ x = c
  <2>1. PICK c : c = [id |-> lastId + 1, msg |-> e.msg, tries |-> e.tries]
    OBVIOUS
  <2>2. c.msg = m /\ \A x \in backlog' : x \in backlog \/ x = c
    BY <1>2, <2>1 DEF Replay, Add
  <2>3. QED
    BY <2>2
<1>6. \A pcs : \A v \in Workers : Held(v, pcs)' = Held(v, pcs)
  BY <1>3 DEF Held
<1>7. \A pcs \in {Hands, Undone} : \A x \in In(pcs)' : x \in In(pcs) \/ x = c
  BY <1>5, <1>6, InMeans
<1>8. ASSUME NEW n \in Msgs PROVE Single(n)'
  <2>1. CASE n = m
    BY <1>4, <2>1 DEF Single
  <2>2. CASE n # m
    <3>1. \A pcs \in {Hands, Undone} : \A x \in In(pcs)' : x.msg = n => x \in In(pcs)
      BY <1>5, <1>7, <2>2
    <3>2. QED
      BY <1>1, <1>3, <1>4, <2>2, <3>1, QuietSingle DEF Exclusive
  <2>3. QED
    BY <2>1, <2>2
<1>9. Sent'
  BY <1>2, <1>3, <1>4 DEF Sent
<1>10. Promise!SendBack(m)
  <2>1. {x.msg : x \in dead'} = {x.msg : x \in dead}
    BY <1>3
  <2>2. QED
    BY <1>2, <1>3, <2>1 DEF Promise!SendBack
<1>11. QED
  BY <1>3, <1>8, <1>9, <1>10 DEF Exclusive, Promise!Next

LEMMA DeleteReplayedImplements ==
    ASSUME PromiseInv, DeleteReplayed, UNCHANGED counted
    PROVE  Exclusive' /\ Sent' /\ Promise!Next
<1>1. DashboardTypeOK /\ Exclusive
  BY DEF PromiseInv, DashboardInv
<1>2. PICK m \in Msgs : m = replay.msg
  BY <1>1 DEF DashboardTypeOK, Entry, DeleteReplayed
<1>3. /\ UNCHANGED <<backlog, wk, published, tried, done, replays>> /\ replay' = NoEntry
      /\ faults' \in {faults, faults + 1} /\ replays[m] > 0
  BY <1>2 DEF DeleteReplayed, history, PromiseInv, Sent
<1>4. Exclusive'
  <2>1. faults' = 0 => faults = 0
    BY <1>1, <1>3 DEF DashboardTypeOK
  <2>2. \A x \in dead' : x \in dead
    BY DEF DeleteReplayed
  <2>3. QED
    BY <1>1, <1>3, <2>1, <2>2, StillSingle
<1>5. Promise!Next
  <2>1. CASE \A x \in dead : \E y \in dead' : y.msg = x.msg
    <3>1. \A n : (\E x \in dead : x.msg = n) <=> (\E x \in dead' : x.msg = n)
      BY <2>1 DEF DeleteReplayed
    <3>2. QED
      BY <1>3, <3>1, QuietImplements
  <2>2. CASE \E x \in dead : \A y \in dead' : y.msg # x.msg
    <3>1. dead' = dead \ {replay} /\ \A y \in dead' : y.msg # m
      BY <1>2, <2>2 DEF DeleteReplayed
    <3>2. {x.msg : x \in dead'} = {x.msg : x \in dead} \ {m}
      BY <1>2, <3>1
    <3>3. Promise!Withdraw(m)
      BY <1>3, <3>2 DEF Promise!Withdraw
    <3>4. QED
      BY <1>3, <3>3 DEF Promise!Next
  <2>3. QED
    BY <2>1, <2>2
<1>6. QED
  BY <1>3, <1>4, <1>5 DEF Sent

LEMMA PromiseStep ==
    ASSUME PromiseInv, [Next]_allVars
    PROVE  PromiseInv' /\ [Promise!Next]_(Promise!vars)
<1>1. DashboardInv'
  BY DashboardNextInv DEF PromiseInv
<1>2. CASE UNCHANGED allVars
  <2>1. UNCHANGED <<backlog, wk, dead, done, replays, faults, replay, published, tried, counted>>
    BY <1>2 DEF allVars, vars
  <2>2. Exclusive' /\ Sent'
    BY <2>1, StillSingle DEF PromiseInv, Sent
  <2>3. UNCHANGED Promise!vars
    BY <2>1 DEF Promise!vars
  <2>4. QED
    BY <1>1, <2>2, <2>3 DEF PromiseInv
<1>3. CASE Next
  <2>1. ASSUME NEW w \in Workers, Works(w) PROVE Exclusive' /\ Sent' /\ Promise!Next
    BY <2>1, MetricsImplements, ReaderImplements, AckImplements, RequeueImplements, BuryImplements
       DEF Works, Consumes
  <2>2. ASSUME NEW w \in Workers, ReplyLost(w) PROVE Exclusive' /\ Sent' /\ Promise!Next
    BY <2>2, ReplyLostImplements
  <2>3. ASSUME Others, UNCHANGED counted PROVE Exclusive' /\ Sent' /\ Promise!Next
    BY <2>3, PublishImplements, StopImplements, ReplayImplements, DeleteReplayedImplements DEF Others
  <2>4. Exclusive' /\ Sent' /\ Promise!Next
    BY <1>3, <2>1, <2>2, <2>3 DEF Next
  <2>5. QED
    BY <1>1, <2>4 DEF PromiseInv
<1>4. QED
  BY <1>2, <1>3

(* The workers, the retries, the dead letters and the counters implement   *)
(* Delivery: whatever the interleaving, nothing that was handled or given  *)
(* up is attempted again but for a fault or a replay.                      *)
THEOREM DeliveryImplemented == Spec => ImplementsDelivery
<1>1. Spec => DashboardInit /\ [][Next]_allVars
  BY DEF Spec
<1>2. DashboardInit => PromiseInv /\ Promise!Init
  <2> SUFFICES ASSUME DashboardInit PROVE PromiseInv /\ Promise!Init
    OBVIOUS
  <2>1. /\ backlog = {} /\ dead = {} /\ replay = NoEntry /\ published = {} /\ done = {} /\ faults = 0
        /\ wk = [w \in Workers |-> Stopped]
        /\ tried = [m \in Msgs |-> 0] /\ replays = [m \in Msgs |-> 0] /\ counted = [m \in Msgs |-> 0]
    BY DEF DashboardInit, Init
  <2>2. In(Hands) = {} /\ In(Undone) = {}
    BY <2>1 DEF In, Held, Stopped, Hands, Undone
  <2>3. Exclusive /\ Sent
    BY <2>1, <2>2 DEF Exclusive, Single, Sent
  <2>4. Promise!Init
    BY <2>1 DEF Promise!Init
  <2>5. QED
    BY <2>3, <2>4, DashboardInitInv DEF PromiseInv
<1>3. PromiseInv /\ [Next]_allVars => PromiseInv' /\ [Promise!Next]_(Promise!vars)
  BY PromiseStep
<1>4. QED
  BY <1>1, <1>2, <1>3, PTL DEF ImplementsDelivery, Promise!Spec

=============================================================================
