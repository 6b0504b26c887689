----------------------------- MODULE AlertTriage -----------------------------
(***************************************************************************)
(* The analyst's side of the alerts (backend/app/services/alert_service.py *)
(* acknowledge_alert and resolve_alert, called by routers/alerts.py),      *)
(* composed with the senders that insert the rows (AlertPipeline): the     *)
(* rows are there to be acknowledged as soon as one of them is committed,  *)
(* and more may come for the same decision.                                *)
(*                                                                         *)
(* A request reads the row, assigns, and commits an UPDATE of the columns  *)
(* whose value it changed; nothing locks the row in between.               *)
(***************************************************************************)
EXTENDS AlertPipeline

CONSTANTS
    Analysts,    \* requests that can be in flight at once
    MaxTriage    \* bound: requests that read a row to change it

ASSUME AnalystsAssumption == IsFiniteSet(Analysts) /\ MaxTriage \in Nat

VARIABLES
    alert,      \* status and resolved_at of each row
    req,        \* what each analyst's request will write, to which row
    requested,  \* requests so far
    answered,   \* history: rows somebody was told are resolved
    overtaken   \* history: rows resolved while an acknowledgement was in flight

triage == <<alert, req, requested, answered, overtaken>>
allVars == <<vars, triage>>

Rows == 1..Cardinality(Senders)
Nothing == [pc |-> "idle", row |-> 1, seen |-> "open"]

TriageInit ==
    /\ Init
    /\ alert = [i \in Rows |-> [status |-> "open", stamped |-> FALSE]]
    /\ req = [a \in Analysts |-> Nothing]
    /\ requested = 0 /\ answered = {} /\ overtaken = {}

Reads(a, i, pc) ==
    /\ req[a].pc = "idle" /\ i <= rows
    /\ requested < MaxTriage /\ requested' = requested + 1
    /\ req' = [req EXCEPT ![a] = [pc |-> pc, row |-> i, seen |-> alert[i].status]]
    /\ UNCHANGED <<vars, alert, answered, overtaken>>

\* Mutant: an alert in any state is acknowledged.
ReadForAcknowledge_AnyStatus(a, i) == Reads(a, i, "acknowledge")

(* acknowledge_alert: an alert that is not open is returned as it is.      *)
ReadForAcknowledge(a, i) == alert[i].status = "open" /\ Reads(a, i, "acknowledge")

\* The UPDATE is unconditional: the status may have changed since.
CommitAcknowledge(a) ==
    /\ req[a].pc = "acknowledge"
    /\ alert' = [alert EXCEPT ![req[a].row].status = "investigating"]
    /\ req' = [req EXCEPT ![a] = Nothing]
    /\ UNCHANGED <<vars, requested, answered, overtaken>>

(* resolve_alert: whatever the status is.                                  *)
ReadForResolve(a, i) == Reads(a, i, "resolve")

\* The status is in the UPDATE only if the one read was another.
CommitResolve(a) ==
    LET i == req[a].row
    IN  /\ req[a].pc = "resolve"
        /\ alert' = [alert EXCEPT ![i].stamped = TRUE,
                                  ![i].status = IF req[a].seen = "resolved" THEN @ ELSE "resolved"]
        /\ answered' = answered \union {i}
        /\ overtaken' = overtaken \union
             {i : b \in {b \in Analysts : req[b].pc = "acknowledge" /\ req[b].row = i}}
        /\ req' = [req EXCEPT ![a] = Nothing]
        /\ UNCHANGED <<vars, requested>>

(* The process dies or the database refuses: nothing is written.           *)
Abort(a) ==
    /\ req[a].pc # "idle"
    /\ req' = [req EXCEPT ![a] = Nothing]
    /\ UNCHANGED <<vars, alert, requested, answered, overtaken>>

Triage(a) ==
    \/ \E i \in Rows : ReadForAcknowledge(a, i) \/ ReadForResolve(a, i)
    \/ CommitAcknowledge(a) \/ CommitResolve(a) \/ Abort(a)

TriageNext ==
    \/ Next /\ UNCHANGED triage
    \/ \E a \in Analysts : Triage(a)

TriageSpec == TriageInit /\ [][TriageNext]_allVars

-----------------------------------------------------------------------------
(* An alert somebody was told is resolved stays resolved and has its time, *)
(* unless an acknowledgement that had read the open row commits afterwards *)
(* (alert_service.py lines 88 and 107).                                    *)
ResolvedStays ==
    \A i \in answered : /\ alert[i].stamped
                        /\ alert[i].status = "resolved" \/ i \in overtaken
=============================================================================
