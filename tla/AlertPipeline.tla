--------------------------- MODULE AlertPipeline ---------------------------
(***************************************************************************)
(* From a block or verify decision to the alert row and the message to the *)
(* account owner (backend/app/services/alert_service.py                    *)
(* record_decision_alert, workers/alert_worker.py, notification.py).       *)
(*                                                                         *)
(* Two paths do the same work: the ingest request starts a background task *)
(* of its own and publishes an event that the alert worker consumes, once  *)
(* or, since delivery is at least once, again.  Each run of either path is *)
(* a sender; both ask the same Redis key whether to notify.                *)
(***************************************************************************)
EXTENDS Naturals, Sequences, FiniteSets

CONSTANTS
    Tasks,         \* background tasks of the ingest
    Deliveries,    \* deliveries of the event to the alert worker
    Channels,      \* the decision's channels the owner has a contact for, in order
    MaxTries,      \* NotificationService.max_retries
    MaxFaults,     \* bound: errors of the database, Redis or a provider
    MaxCrashes,    \* bound: crashes of a server process
    MaxExpiries    \* bound: times the deduplication key runs out

Senders == Tasks \union Deliveries
ChannelNames == {Channels[i] : i \in DOMAIN Channels}

\* The ingest of every block or verify decision starts a task.
ASSUME SendersAssumption ==
    /\ IsFiniteSet(Tasks) /\ IsFiniteSet(Deliveries) /\ Tasks # {}
    /\ Tasks \intersect Deliveries = {}
ASSUME ChannelsAssumption ==
    /\ Channels \in Seq(ChannelNames)
    /\ \A i, j \in DOMAIN Channels : Channels[i] = Channels[j] => i = j
ASSUME BoundsAssumption ==
    /\ MaxTries \in Nat \ {0}
    /\ MaxFaults \in Nat /\ MaxCrashes \in Nat /\ MaxExpiries \in Nat

VARIABLES
    rows,        \* rows of the transaction in alerts
    key,         \* fraud:notification:{id} exists
    sender,      \* what each sender is doing
    sent,        \* messages that reached the owner, by channel
    confirmed,   \* history: messages the provider confirmed, by channel
    expiries,    \* times the key ran out
    faults,      \* errors so far
    crashes      \* crashes so far

vars == <<rows, key, sender, sent, confirmed, expiries, faults, crashes>>

\* todo: the channels that are left, the one being tried first.
Init ==
    /\ rows = 0
    /\ key = FALSE
    /\ sender = [s \in Senders |-> [pc |-> "new", todo |-> Channels, tries |-> 0]]
    /\ sent = [ch \in ChannelNames |-> 0]
    /\ confirmed = sent
    /\ expiries = 0 /\ faults = 0 /\ crashes = 0

Goto(s, pc) == sender' = [sender EXCEPT ![s].pc = pc]
Fault == faults < MaxFaults /\ faults' = faults + 1
Count(counter, ch) == [counter EXCEPT ![ch] = @ + 1]

-----------------------------------------------------------------------------
\* Mutant: the background task leaves the row to the worker.
Insert_Skipped(s) ==
    /\ sender[s].pc = "new"
    /\ rows' = IF s \in Tasks THEN rows ELSE rows + 1
    /\ Goto(s, "contact")
    /\ UNCHANGED <<key, sent, confirmed, expiries, faults, crashes>>

(* create_alert: always a new row, nothing looks for an earlier one.       *)
Insert(s) ==
    /\ sender[s].pc = "new"
    /\ rows' = rows + 1
    /\ Goto(s, "contact")
    /\ UNCHANGED <<key, sent, confirmed, expiries, faults, crashes>>

(* An error before the commit or after it.  The task gives up altogether,  *)
(* _persist_alert logs it and the worker goes on to notify.                *)
InsertFails(s) ==
    /\ sender[s].pc = "new"
    /\ Fault
    /\ rows' \in {rows, rows + 1}
    /\ Goto(s, IF s \in Tasks THEN "done" ELSE "contact")
    /\ UNCHANGED <<key, sent, confirmed, expiries, crashes>>

(* The owner's email and phone.                                            *)
ReadContact(s) ==
    /\ sender[s].pc = "contact"
    /\ \/ Goto(s, "dedup") /\ UNCHANGED faults
       \/ Goto(s, "done") /\ Fault
    /\ UNCHANGED <<rows, key, sent, confirmed, expiries, crashes>>

\* Mutant: SET without NX, every sender believes it is the first.
Deduplicate_NoNx(s) ==
    /\ sender[s].pc = "dedup"
    /\ key' = TRUE
    /\ Goto(s, "send")
    /\ UNCHANGED <<rows, sent, confirmed, expiries, faults, crashes>>

(* _is_duplicate: SET NX EX 3600.  An error, with the key set or not,      *)
(* leaves send_fraud_alert.                                                *)
Deduplicate(s) ==
    /\ sender[s].pc = "dedup"
    /\ \/ key /\ Goto(s, "done") /\ UNCHANGED <<key, faults>>
       \/ ~key /\ key' = TRUE /\ Goto(s, "send") /\ UNCHANGED faults
       \/ key' \in {key, TRUE} /\ Goto(s, "done") /\ Fault
    /\ UNCHANGED <<rows, sent, confirmed, expiries, crashes>>

\* Mutant: the loop over the channels is left with the first one.
NextChannel_Returns(s) ==
    sender' = [sender EXCEPT ![s].todo = <<>>, ![s].tries = 0]

\* The next channel of the loop.
NextChannel(s) == sender' = [sender EXCEPT ![s].todo = Tail(@), ![s].tries = 0]

(* One attempt fails, possibly after the message went out, and is tried    *)
(* again up to MaxTries times in all.                                      *)
AttemptFails(s) ==
    LET ch == Head(sender[s].todo)
        n == sender[s].tries + 1
    IN  /\ sender[s].pc = "send" /\ sender[s].todo # <<>>
        /\ Fault
        /\ sent' \in {sent, Count(sent, ch)}
        /\ IF n < MaxTries
           THEN sender' = [sender EXCEPT ![s].tries = n]
           ELSE NextChannel(s)
        /\ UNCHANGED <<rows, key, confirmed, expiries, crashes>>

(* The provider confirms the message: on to the next channel.              *)
AttemptSucceeds(s) ==
    LET ch == Head(sender[s].todo)
    IN  /\ sender[s].pc = "send" /\ sender[s].todo # <<>>
        /\ sent' = Count(sent, ch)
        /\ confirmed' = Count(confirmed, ch)
        /\ NextChannel(s)
        /\ UNCHANGED <<rows, key, expiries, faults, crashes>>

Finish(s) ==
    /\ sender[s].pc = "send" /\ sender[s].todo = <<>>
    /\ Goto(s, "done")
    /\ UNCHANGED <<rows, key, sent, confirmed, expiries, faults, crashes>>

-----------------------------------------------------------------------------
(* A server process dies with any of the senders in it; what it had not    *)
(* published or acknowledged yet is not started again.                     *)
Crash ==
    /\ crashes < MaxCrashes
    /\ crashes' = crashes + 1
    /\ \E lost \in (SUBSET Senders) \ {{}} :
         sender' = [s \in Senders |->
                      IF s \in lost THEN [sender[s] EXCEPT !.pc = "done"]
                                    ELSE sender[s]]
    /\ UNCHANGED <<rows, key, sent, confirmed, expiries, faults>>

(* The key runs out an hour after it was set, when the attempts of the     *)
(* sender that set it are long over (SMTP and HTTP calls time out).        *)
KeyRunsOut ==
    /\ key
    /\ \A s \in Senders : sender[s].pc # "send"
    /\ expiries < MaxExpiries
    /\ key' = FALSE
    /\ expiries' = expiries + 1
    /\ UNCHANGED <<rows, sender, sent, confirmed, faults, crashes>>

Next ==
    \/ Crash \/ KeyRunsOut
    \/ \E s \in Senders :
         \/ Insert(s) \/ InsertFails(s) \/ ReadContact(s) \/ Deduplicate(s)
         \/ AttemptFails(s) \/ AttemptSucceeds(s) \/ Finish(s)

Spec == Init /\ [][Next]_vars

-----------------------------------------------------------------------------
AllDone == \A s \in Senders : sender[s].pc = "done"

(* However often the event is redelivered and whoever gets there first,    *)
(* the owner has one confirmed message per channel for each life of the    *)
(* deduplication key.                                                      *)
ConfirmedOnce ==
    \A ch \in ChannelNames : confirmed[ch] <= expiries + 1

(* The two paths back each other up: without a crash, an alert that was    *)
(* never recorded took an error in every one of them.                      *)
RecordedByEitherPath ==
    (AllDone /\ crashes = 0 /\ rows = 0) => faults >= Cardinality(Senders)

(* Without errors and crashes every channel gets its message, from         *)
(* whichever sender came first.                                            *)
NotifiedWithoutFaults ==
    (AllDone /\ crashes = 0 /\ faults = 0) =>
        \A ch \in ChannelNames : confirmed[ch] > 0
=============================================================================
