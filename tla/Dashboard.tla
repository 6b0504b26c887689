------------------------------ MODULE Dashboard ------------------------------
(***************************************************************************)
(* The worker of the dashboard stream                                      *)
(* (backend/app/workers/dashboard_worker.py) on the stream it consumes     *)
(* (StreamWorker): process() adds a decision to the counters in Redis, so  *)
(* a decision that is processed again is counted again.                    *)
(***************************************************************************)
EXTENDS StreamWorker

VARIABLE counted  \* how often the counters include each publication

allVars == <<vars, counted>>

DashboardInit == Init /\ counted = [m \in Msgs |-> 0]

CountIt(m) == counted' = [counted EXCEPT ![m] = @ + 1]

\* Mutant: the commands are executed one by one, not in a pipeline: a score that is
\* no number raises when the total is incremented already.
Metrics_NoPipeline(w) ==
    /\ Process(w)
    /\ CountIt(wk[w].entry.msg)

(* process() executes the pipeline and returns, or raises before it does,  *)
(* because of the data.                                                    *)
Metrics(w) ==
    /\ Process(w)
    /\ IF wk'[w].pc = "ack" THEN CountIt(wk[w].entry.msg) ELSE UNCHANGED counted

\* pipe.execute() raises: Redis executed the transaction or it did not.
ReplyLost(w) ==
    LET m == wk[w].entry.msg
    IN  /\ wk[w].pc = "processing" /\ faults < MaxFaults
        /\ faults' = faults + 1
        /\ tried' = [tried EXCEPT ![m] = @ + 1]
        /\ CountIt(m) \/ UNCHANGED counted
        /\ Failed(w)
        /\ UNCHANGED <<lastId, backlog, pending, dead, replay,
                       published, trimmed, done, replays>>

Works(w) == Metrics(w) \/ (Consumes(w) /\ UNCHANGED counted)

Next ==
    \/ \E w \in Workers : Works(w) \/ ReplyLost(w)
    \/ Others /\ UNCHANGED counted

(* The event loop runs every worker that can go on; XREADGROUP may hand    *)
(* entries to any of them.                                                 *)
Fairness == \A w \in Workers : WF_allVars(Works(w))

Spec == DashboardInit /\ [][Next]_allVars /\ Fairness

-----------------------------------------------------------------------------
(* Every processed decision is in the counters, and in them twice only for *)
(* a fault or a replay of its dead letter (dashboard_worker.py line 54,    *)
(* base_worker.py line 90).                                                *)
CountedOnce ==
    \A m \in Msgs :
        /\ m \in done => counted[m] > 0
        /\ counted[m] <= 1 + faults + replays[m]

(* The stream, its workers, their retries and the dead letters implement   *)
(* Delivery, the counters included: no message is attempted again once it  *)
(* was handled or given up, unless for a fault or a replay, and none is    *)
(* given up early or counted for nothing (base_worker.py lines 82 to 132). *)
Promise == INSTANCE Delivery WITH
    handled <- done, deadLetters <- {e.msg : e \in dead}

ImplementsDelivery == Promise!Spec
=============================================================================
