---------------------------- MODULE StreamWorker ----------------------------
(***************************************************************************)
(* One Redis stream, its consumer group and its workers                    *)
(* (backend/app/workers/base_worker.py, runner.py, dead_letter_handler.py, *)
(* and the publishing side in services/stream_producer.py).                *)
(*                                                                         *)
(* Every server process runs a worker of the stream under the same         *)
(* consumer name.  Each Redis command and each call of process() is        *)
(* awaited; a command can fail before or after Redis executed it.          *)
(*                                                                         *)
(* A message is one publication.  Its entry in the stream carries the      *)
(* retry count; a retry is a new entry of the same message.                *)
(***************************************************************************)
EXTENDS Naturals, FiniteSets

CONSTANTS
    Workers,      \* the worker tasks of the server processes
    Msgs,         \* publications
    NoEntry,      \* the entry of a worker that has none in hand
    MaxRetries,   \* StreamWorker.max_retries
    Count,        \* entries one XREADGROUP returns at most
    MaxLen,       \* approximate length _publish trims the stream to
    MaxFaults,    \* bound: Redis errors and crashed or cancelled workers
    MaxReplays    \* bound: dead letters sent back to the stream

ASSUME BoundsAssumption ==
    /\ MaxRetries \in Nat /\ Count \in Nat \ {0} /\ MaxLen \in Nat
    /\ MaxFaults \in Nat /\ MaxReplays \in Nat

VARIABLES
    lastId,     \* id of the latest entry added to the stream
    backlog,    \* entries of the stream not delivered to the group yet
    pending,    \* the group's pending entries list: delivered, not acknowledged
    dead,       \* fraud:dead_letter
    wk,         \* what each worker is doing
    replay,     \* dead letter that reprocess_message has re-added, not deleted
    published,  \* history: messages published
    trimmed,    \* history: messages trimmed from the stream before their ack
    tried,      \* history: calls of process() for each message
    done,       \* history: messages process() returned for
    replays,    \* history: dead letters of each message sent back
    faults      \* faults so far

vars == <<lastId, backlog, pending, dead, wk, replay,
          published, trimmed, tried, done, replays, faults>>
history == <<published, trimmed, tried, done, replays>>

\* A worker has an entry in hand and the rest of the batch it read.
Stopped == [pc |-> "stopped", entry |-> NoEntry, batch |-> {}]
Reading == [Stopped EXCEPT !.pc = "reading"]

Init ==
    /\ lastId = 0
    /\ backlog = {} /\ pending = {} /\ dead = {}
    /\ wk = [w \in Workers |-> Stopped]
    /\ replay = NoEntry
    /\ published = {} /\ trimmed = {} /\ done = {}
    /\ tried = [m \in Msgs |-> 0]
    /\ replays = [m \in Msgs |-> 0]
    /\ faults = 0

Set(w, state) == wk' = [wk EXCEPT ![w] = state]
Goto(w, pc) == Set(w, [wk[w] EXCEPT !.pc = pc])

\* XADD to the stream.
Add(msg, tries) ==
    /\ lastId' = lastId + 1
    /\ backlog' = backlog \union {[id |-> lastId + 1, msg |-> msg, tries |-> tries]}

\* Mutant: only the first entry of a batch is processed.
NextEntry_OnePerRead(w) == Set(w, Reading)

\* The for loop of consume: the next entry of the batch, or the next read.
NextEntry(w) ==
    LET batch == wk[w].batch
    IN  IF batch = {}
        THEN Set(w, Reading)
        ELSE \E e \in batch :
               /\ \A f \in batch : e.id <= f.id
               /\ Set(w, [pc |-> "processing", entry |-> e, batch |-> batch \ {e}])

\* An exception leaves consume: what is left of the batch is forgotten.
AbandonBatch(w) ==
    /\ faults < MaxFaults
    /\ faults' = faults + 1
    /\ Set(w, Reading)

-----------------------------------------------------------------------------
(* _publish: XADD MAXLEN ~ trims old entries, delivered or not; a pending  *)
(* entry keeps its id and loses its body.                                  *)
Publish(m) ==
    /\ m \notin published
    /\ published' = published \union {m}
    /\ lastId' = lastId + 1
    /\ \E keep \in 1..(lastId + 1) :
         LET lost == {e \in backlog \union pending : e.id < keep}
         IN  /\ keep = 1 \/ lastId + 2 - keep >= MaxLen
             /\ backlog' = (backlog \ lost) \union
                           {[id |-> lastId + 1, msg |-> m, tries |-> 0]}
             /\ trimmed' = trimmed \union {e.msg : e \in lost}
    /\ UNCHANGED <<pending, dead, wk, replay, tried, done, replays, faults>>

(* _run_worker: XGROUP CREATE is a no-op if the group exists; nothing      *)
(* looks at entries pending from an earlier run.                           *)
Start(w) ==
    /\ wk[w].pc = "stopped"
    /\ Set(w, Reading)
    /\ UNCHANGED <<lastId, backlog, pending, dead, replay, history, faults>>

\* Mutant: XREAD instead of XREADGROUP: every worker gets every entry.
Read_EveryWorker(w) ==
    /\ wk[w].pc = "reading"
    /\ \E e \in backlog :
         /\ pending' = pending \union {e}
         /\ Set(w, [pc |-> "processing", entry |-> e, batch |-> {}])
    /\ UNCHANGED <<lastId, backlog, dead, replay, history, faults>>

(* XREADGROUP ">": the oldest undelivered entries become pending.          *)
Read(w) ==
    /\ wk[w].pc = "reading"
    /\ backlog # {}
    /\ \E batch \in SUBSET backlog :
         /\ \/ Cardinality(batch) = Count
            \/ batch = backlog /\ Cardinality(backlog) < Count
         /\ \A e \in batch, f \in backlog \ batch : e.id < f.id
         /\ backlog' = backlog \ batch
         /\ pending' = pending \union batch
         /\ \E e \in batch :
              /\ \A f \in batch : e.id <= f.id
              /\ Set(w, [pc |-> "processing", entry |-> e, batch |-> batch \ {e}])
    /\ UNCHANGED <<lastId, dead, replay, history, faults>>

\* Mutant: <= for <.
Failed_OneMore(w) ==
    IF wk[w].entry.tries <= MaxRetries THEN Goto(w, "requeue") ELSE Goto(w, "bury")

\* The except branch: retry while the entry's count is below the limit.
Failed(w) ==
    IF wk[w].entry.tries < MaxRetries THEN Goto(w, "requeue") ELSE Goto(w, "bury")

(* await self.process(data): it returns, or raises.                        *)
Process(w) ==
    LET m == wk[w].entry.msg
    IN  /\ wk[w].pc = "processing"
        /\ tried' = [tried EXCEPT ![m] = @ + 1]
        /\ \/ done' = done \union {m} /\ Goto(w, "ack")
           \/ done' = done /\ Failed(w)
        /\ UNCHANGED <<lastId, backlog, pending, dead, replay,
                       published, trimmed, replays, faults>>

\* XACK is inside the try: an entry whose XACK failed counts as failed.
Ack(w) ==
    LET acked == pending \ {wk[w].entry}
    IN  /\ wk[w].pc = "ack"
        /\ \/ pending' = acked /\ NextEntry(w) /\ UNCHANGED faults
           \/ /\ faults < MaxFaults
              /\ faults' = faults + 1
              /\ pending' \in {pending, acked}
              /\ Failed(w)
        /\ UNCHANGED <<lastId, backlog, dead, replay, history>>

\* Mutant: the entry is acknowledged before its copy is added.
Requeue_AckFirst(w) ==
    LET e == wk[w].entry
    IN  /\ wk[w].pc = "requeue"
        /\ pending' = pending \ {e}
        /\ \/ Add(e.msg, e.tries + 1) /\ Goto(w, "requeueAck") /\ UNCHANGED faults
           \/ UNCHANGED <<lastId, backlog>> /\ AbandonBatch(w)
        /\ UNCHANGED <<dead, replay, history>>

(* _retry_message: XADD a copy with the count raised, ...                  *)
Requeue(w) ==
    LET e == wk[w].entry
    IN  /\ wk[w].pc = "requeue"
        /\ \/ Add(e.msg, e.tries + 1) /\ Goto(w, "requeueAck") /\ UNCHANGED faults
           \/ Add(e.msg, e.tries + 1) /\ AbandonBatch(w)
           \/ UNCHANGED <<lastId, backlog>> /\ AbandonBatch(w)
        /\ UNCHANGED <<pending, dead, replay, history>>

(* _dead_letter: XADD to the dead letter stream, ...                       *)
Bury(w) ==
    LET e == wk[w].entry
    IN  /\ wk[w].pc = "bury"
        /\ \/ dead' = dead \union {e} /\ Goto(w, "buryAck") /\ UNCHANGED faults
           \/ dead' = dead \union {e} /\ AbandonBatch(w)
           \/ dead' = dead /\ AbandonBatch(w)
        /\ UNCHANGED <<lastId, backlog, pending, replay, history>>

(* ... then XACK the entry; an error here leaves consume as well.          *)
AckHandled(w) ==
    LET acked == pending \ {wk[w].entry}
    IN  /\ wk[w].pc \in {"requeueAck", "buryAck"}
        /\ \/ pending' = acked /\ NextEntry(w) /\ UNCHANGED faults
           \/ pending' \in {pending, acked} /\ AbandonBatch(w)
        /\ UNCHANGED <<lastId, backlog, dead, replay, history>>

(* The process dies, or stop_workers cancels the task at its current       *)
(* await.                                                                  *)
Stop(w) ==
    /\ wk[w].pc # "stopped"
    /\ faults < MaxFaults
    /\ faults' = faults + 1
    /\ Set(w, Stopped)
    /\ UNCHANGED <<lastId, backlog, pending, dead, replay, history>>

-----------------------------------------------------------------------------
(* reprocess_message: XADD the fields as they are, retry_count included,   *)
(* then XDEL.  A fault between the two leaves the dead letter in place.    *)
Replay(e) ==
    /\ replay = NoEntry
    /\ e \in dead
    /\ replays[e.msg] < MaxReplays
    /\ Add(e.msg, e.tries)
    /\ replays' = [replays EXCEPT ![e.msg] = @ + 1]
    /\ replay' = e
    /\ UNCHANGED <<pending, dead, wk, published, trimmed, tried, done, faults>>

DeleteReplayed ==
    /\ replay # NoEntry
    /\ \/ dead' = dead \ {replay} /\ UNCHANGED faults
       \/ dead' = dead /\ faults < MaxFaults /\ faults' = faults + 1
    /\ replay' = NoEntry
    /\ UNCHANGED <<lastId, backlog, pending, wk, history>>

-----------------------------------------------------------------------------
\* What consume does around process().
Consumes(w) ==
    \/ Start(w) \/ Read(w) \/ Ack(w)
    \/ Requeue(w) \/ Bury(w) \/ AckHandled(w)

\* What the others do.
Others ==
    \/ \E m \in Msgs : Publish(m)
    \/ \E w \in Workers : Stop(w)
    \/ \E e \in dead : Replay(e)
    \/ DeleteReplayed

-----------------------------------------------------------------------------
(* Whatever fails and whenever a worker stops, a published message that    *)
(* process() never returned for is still somewhere: in the stream, pending *)
(* or dead-lettered.  The one exception is a stream trimmed past it.       *)
NothingVanishes ==
    \A m \in published \ (done \union trimmed) :
        \E e \in backlog \union pending \union dead : e.msg = m

(* process() is called at most max_retries + 1 times for a publication,    *)
(* and once more for each time its dead letter is sent back, over all      *)
(* workers and restarts and despite lost acknowledgements.                 *)
TriesBounded ==
    \A m \in Msgs : tried[m] <= MaxRetries + 1 + replays[m]

(* Every published message ends processed or dead-lettered, and no entry   *)
(* of it stays pending, unless a fault strands one.                        *)
AllHandled ==
    \A m \in Msgs :
        (m \in published) ~>
            \/ faults > 0
            \/ /\ m \in done \union trimmed \union {e.msg : e \in dead}
               /\ \A e \in pending : e.msg # m

=============================================================================
