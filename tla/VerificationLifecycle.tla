----------------------- MODULE VerificationLifecycle -----------------------
(***************************************************************************)
(* What a verification promises, with no requests, locks or OTPs: a row is *)
(* created PENDING and settled once, and settling it moves its transaction *)
(* in the same step (the comment on _VALID_TRANSITIONS and the docstrings  *)
(* of approve, reject, escalate and handle_expiration in                   *)
(* verification_service.py).                                               *)
(***************************************************************************)
CONSTANT Verifs

VARIABLES state, status

vars == <<state, status>>

Outcomes == { [to |-> "VERIFIED", tx |-> "approved"],
              [to |-> "FAILED",   tx |-> "block"],
              [to |-> "FAILED",   tx |-> "manual_review"],
              [to |-> "EXPIRED",  tx |-> "manual_review"] }

Init ==
    /\ state = [v \in Verifs |-> "ABSENT"]
    /\ status = "verify"

Create(v) ==
    /\ state[v] = "ABSENT"
    /\ state' = [state EXCEPT ![v] = "PENDING"]
    /\ UNCHANGED status

Settle(v, outcome) ==
    /\ state[v] = "PENDING"
    /\ state' = [state EXCEPT ![v] = outcome.to]
    /\ status' = outcome.tx

Next == \E v \in Verifs :
    \/ Create(v)
    \/ \E outcome \in Outcomes : Settle(v, outcome)

Spec == Init /\ [][Next]_vars
=============================================================================
