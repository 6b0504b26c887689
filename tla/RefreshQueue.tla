---------------------------- MODULE RefreshQueue ----------------------------
(* What the HTTP client promises the requests the backend refused, with no    *)
(* tokens store, users or answers: one of them refreshes for all, the others  *)
(* queue behind it, and a queued request moves again only when all of them do *)
(* (isRefreshing and refreshSubscribers in frontend/src/api/client.ts).       *)
EXTENDS Naturals

CONSTANT Requests

VARIABLES
  phase,        \* phase[r]: "free", "queued" or "refreshing"
  pair,         \* pair[r]: the number of the pair r carries
  isRefreshing, \* somebody refreshes
  leaving,      \* the page is being left
  outside       \* counts what the address bar and other tabs do

vars == <<phase, pair, isRefreshing, leaving, outside>>

Queued == {r \in Requests : phase[r] = "queued"}

\* Only the requests of S may carry other pairs afterwards.
PairsChange(S) ==
  /\ pair' \in [Requests -> Nat]
  /\ \A r \in Requests \ S : pair'[r] = pair[r]

Init ==
  /\ phase = [r \in Requests |-> "free"] /\ pair = [r \in Requests |-> 0]
  /\ isRefreshing = FALSE /\ ~leaving /\ outside = 0

\* Free requests come, are answered and go; one of them may send the page away.
Pass ==
  /\ PairsChange({r \in Requests : phase[r] = "free"})
  /\ leaving => leaving'
  /\ outside' >= outside
  /\ UNCHANGED <<phase, isRefreshing>>

Begin(r) ==
  /\ phase[r] = "free" /\ isRefreshing = FALSE
  /\ phase' = [phase EXCEPT ![r] = "refreshing"]
  /\ PairsChange({r})
  /\ isRefreshing' = TRUE
  /\ UNCHANGED <<leaving, outside>>

Join(r) ==
  /\ phase[r] = "free" /\ isRefreshing = TRUE
  /\ phase' = [phase EXCEPT ![r] = "queued"]
  /\ UNCHANGED <<pair, isRefreshing, leaving, outside>>

\* Everybody goes on with the one new pair, which nobody had before.
Renew(r) ==
  /\ phase[r] = "refreshing"
  /\ PairsChange({r} \cup Queued)
  /\ \A q \in {r} \cup Queued, p \in Requests : pair'[q] = pair'[r] /\ pair'[q] > pair[p]
  /\ phase' = [q \in Requests |-> IF q \in {r} \cup Queued THEN "free" ELSE phase[q]]
  /\ isRefreshing' = FALSE
  /\ UNCHANGED <<leaving, outside>>

\* Nobody has a new pair: those who wait are left to the page being left.
GiveUp(r) ==
  /\ phase[r] = "refreshing"
  /\ phase' = [phase EXCEPT ![r] = "free"]
  /\ PairsChange({r})
  /\ isRefreshing' = FALSE
  /\ leaving'
  /\ UNCHANGED outside

\* Nothing of the old page is left.
Reload ==
  /\ leaving \/ outside' > outside
  /\ outside' >= outside
  /\ phase' = [r \in Requests |-> "free"]
  /\ PairsChange(Requests)
  /\ isRefreshing' = FALSE
  /\ ~leaving'

Next ==
  \/ Pass \/ Reload
  \/ \E r \in Requests : Begin(r) \/ Join(r) \/ Renew(r) \/ GiveUp(r)

Spec == Init /\ [][Next]_vars

-----------------------------------------------------------------------------

\* One request refreshes at a time (client.ts:84), and whoever waits for it does not
\* wait in vain: the refresh is in flight, or the page is being left.
Served ==
  /\ \A q, r \in Requests : phase[q] = "refreshing" /\ phase[r] = "refreshing" => q = r
  /\ isRefreshing = TRUE <=> \E r \in Requests : phase[r] = "refreshing"
  /\ Queued # {} => isRefreshing = TRUE \/ leaving
=============================================================================
