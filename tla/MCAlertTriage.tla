--------------------------- MODULE MCAlertTriage ---------------------------
(* Model checking of the alerts: the channels of a critical block.         *)
EXTENDS AlertTriage, TLC

CriticalBlock == <<"email", "sms">>
Symmetry == Permutations(Deliveries) \union Permutations(Analysts)
=============================================================================
