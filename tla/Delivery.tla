------------------------------ MODULE Delivery ------------------------------
(***************************************************************************)
(* What a stream with its dead letters promises, with no entries, workers  *)
(* or acknowledgements (the docstrings of _process_message, _retry_message *)
(* and _dead_letter in base_worker.py, reprocess_message in                *)
(* dead_letter_handler.py, process in dashboard_worker.py).  Faults and    *)
(* replays are all that can make a message be handled twice, or handled    *)
(* and given up.                                                           *)
(***************************************************************************)
EXTENDS Naturals

CONSTANTS Msgs, MaxRetries

VARIABLES
    published,
    handled,      \* messages process() returned for
    deadLetters,  \* messages with a dead letter
    tried,        \* calls of process()
    counted,      \* how often the counters include each message
    replays,      \* dead letters sent back
    faults        \* errors and crashes so far

vars == <<published, handled, deadLetters, tried, counted, replays, faults>>

Init ==
    /\ published = {} /\ handled = {} /\ deadLetters = {}
    /\ tried = [m \in Msgs |-> 0]
    /\ counted = [m \in Msgs |-> 0]
    /\ replays = [m \in Msgs |-> 0]
    /\ faults = 0

Excused(m) == faults + replays[m] > 0

Publish(m) ==
    /\ m \notin published
    /\ published' = published \union {m}
    /\ UNCHANGED <<handled, deadLetters, tried, counted, replays>>

\* process() returns and has counted m, or raises and has not, or the reply is lost.
Attempt(m) ==
    /\ m \in published
    /\ tried[m] <= MaxRetries + replays[m]
    /\ counted[m] <= faults + replays[m]
    /\ m \in handled \union deadLetters => Excused(m)
    /\ tried' = [tried EXCEPT ![m] = @ + 1]
    /\ \/ handled' = handled \union {m} /\ counted' = [counted EXCEPT ![m] = @ + 1]
       \/ UNCHANGED <<handled, counted>>
       \/ /\ faults' = faults + 1
          /\ handled' = handled /\ counted' = [counted EXCEPT ![m] = @ + 1]
    /\ UNCHANGED <<published, deadLetters, replays>>

GiveUp(m) ==
    /\ tried[m] > MaxRetries
    /\ m \in handled => Excused(m)
    /\ deadLetters' = deadLetters \union {m}
    /\ UNCHANGED <<published, handled, tried, counted, replays>>

SendBack(m) ==
    /\ m \in deadLetters
    /\ replays' = [replays EXCEPT ![m] = @ + 1]
    /\ UNCHANGED <<published, handled, deadLetters, tried, counted>>

\* The dead letter goes once its message is in the stream again.
Withdraw(m) ==
    /\ replays[m] > 0
    /\ deadLetters' = deadLetters \ {m}
    /\ UNCHANGED <<published, handled, tried, counted, replays>>

\* Any step may meet a fault; a fault alone changes nothing here.
Next ==
    /\ faults' \in {faults, faults + 1}
    /\ \/ \E m \in Msgs :
            Publish(m) \/ Attempt(m) \/ GiveUp(m) \/ SendBack(m) \/ Withdraw(m)
       \/ UNCHANGED <<published, handled, deadLetters, tried, counted, replays>>

Spec == Init /\ [][Next]_vars
=============================================================================
