------------------------- MODULE AlertTriage_proofs -------------------------
(***************************************************************************)
(* Resolved alerts, recorded alerts and confirmed messages, for every      *)
(* number of senders, analysts, channels, faults and crashes.              *)
(***************************************************************************)
EXTENDS AlertTriage, FiniteSetTheorems, SequenceTheorems, TLAPS

Statuses == {"open", "investigating", "resolved"}
Requests == [pc: {"idle", "acknowledge", "resolve"}, row: Nat, seen: Statuses]

\* A request in flight has a row; one that acknowledges a row somebody resolved
\* since was counted as overtaken; one that saw a row resolved was not the first.
ReqInv(a) ==
    /\ req[a].pc # "idle" => req[a].row \in Rows
    /\ (req[a].pc = "acknowledge" /\ req[a].row \in answered) => req[a].row \in overtaken
    /\ (req[a].pc = "resolve" /\ req[a].seen = "resolved") => req[a].row \in answered

TriageInv ==
    /\ alert \in [Rows -> [status: Statuses, stamped: BOOLEAN]]
    /\ req \in [Analysts -> Requests]
    /\ answered \subseteq Rows
    /\ \A i \in Rows : alert[i].status = "resolved" => i \in answered
    /\ \A a \in Analysts : ReqInv(a)
    /\ ResolvedStays

LEMMA TriageInvInit == TriageInit => TriageInv
<1>1. SUFFICES ASSUME TriageInit PROVE TriageInv
  OBVIOUS
<1>2. /\ alert = [i \in Rows |-> [status |-> "open", stamped |-> FALSE]]
      /\ req = [a \in Analysts |-> Nothing]
      /\ answered = {}
  BY <1>1 DEF TriageInit
<1>3. alert \in [Rows -> [status: Statuses, stamped: BOOLEAN]] /\ \A i \in Rows : alert[i].status # "resolved"
  BY <1>2 DEF Statuses
<1>4. req \in [Analysts -> Requests] /\ \A a \in Analysts : req[a].pc = "idle"
  BY <1>2 DEF Nothing, Requests, Statuses
<1>5. QED
  BY <1>2, <1>3, <1>4 DEF TriageInv, ReqInv, ResolvedStays

LEMMA ReadsKeep ==
    ASSUME TriageInv, NEW a \in Analysts, NEW i \in Rows, NEW pc \in {"acknowledge", "resolve"},
           Reads(a, i, pc), pc = "acknowledge" => alert[i].status = "open"
    PROVE  TriageInv'
<1>1. /\ alert' = alert /\ answered' = answered /\ overtaken' = overtaken
      /\ req' = [req EXCEPT ![a] = [pc |-> pc, row |-> i, seen |-> alert[i].status]]
  BY DEF Reads
<1>2. /\ req'[a] = [pc |-> pc, row |-> i, seen |-> alert[i].status]
      /\ \A b \in Analysts \ {a} : req'[b] = req[b]
      /\ req' \in [Analysts -> Requests]
  BY <1>1 DEF TriageInv, Requests, Rows
<1>3. ReqInv(a)'
  BY <1>1, <1>2 DEF TriageInv, ReqInv, ResolvedStays
<1>4. \A b \in Analysts \ {a} : ReqInv(b)'
  BY <1>1, <1>2 DEF TriageInv, ReqInv
<1>5. QED
  BY <1>1, <1>2, <1>3, <1>4 DEF TriageInv, ResolvedStays

LEMMA AcknowledgeKeeps ==
    ASSUME TriageInv, NEW a \in Analysts, CommitAcknowledge(a) PROVE TriageInv'
<1> DEFINE i == req[a].row
<1>1. /\ answered' = answered /\ overtaken' = overtaken
      /\ req[a].pc = "acknowledge" /\ i \in Rows
      /\ i \in answered => i \in overtaken
  BY DEF CommitAcknowledge, TriageInv, ReqInv
<1>2. /\ alert' \in [Rows -> [status: Statuses, stamped: BOOLEAN]]
      /\ alert'[i].status = "investigating" /\ alert'[i].stamped = alert[i].stamped
      /\ \A j \in Rows \ {i} : alert'[j] = alert[j]
  BY <1>1 DEF CommitAcknowledge, TriageInv, Statuses
<1>3. /\ req' \in [Analysts -> Requests] /\ req'[a].pc = "idle"
      /\ \A b \in Analysts \ {a} : req'[b] = req[b]
  BY DEF CommitAcknowledge, TriageInv, Nothing, Requests, Statuses
<1>4. \A b \in Analysts : ReqInv(b)'
  BY <1>1, <1>3 DEF TriageInv, ReqInv
<1>5. ResolvedStays'
  <2>1. \A j \in answered : alert[j].stamped /\ (alert[j].status = "resolved" \/ j \in overtaken)
    BY DEF TriageInv, ResolvedStays
  <2>2. answered \subseteq Rows
    BY DEF TriageInv
  <2> HIDE DEF i
  <2>3. QED
    BY <1>1, <1>2, <2>1, <2>2, Zenon DEF ResolvedStays
<1>6. \A j \in Rows : alert'[j].status = "resolved" => j \in answered
  BY <1>2 DEF TriageInv
<1>7. QED
  BY <1>1, <1>2, <1>3, <1>4, <1>5, <1>6 DEF TriageInv

LEMMA ResolveKeeps ==
    ASSUME TriageInv, NEW a \in Analysts, CommitResolve(a) PROVE TriageInv'
<1> DEFINE i == req[a].row
           late == {b \in Analysts : req[b].pc = "acknowledge" /\ req[b].row = i}
<1>1. /\ req[a].pc = "resolve" /\ i \in Rows
      /\ req[a].seen = "resolved" => i \in answered
      /\ answered' = answered \union {i}
      /\ overtaken' = overtaken \union {i : b \in late}
  BY DEF CommitResolve, TriageInv, ReqInv
<1>2. /\ alert' \in [Rows -> [status: Statuses, stamped: BOOLEAN]]
      /\ alert'[i].stamped
      /\ alert'[i].status = IF req[a].seen = "resolved" THEN alert[i].status ELSE "resolved"
      /\ \A j \in Rows \ {i} : alert'[j] = alert[j]
  BY <1>1 DEF CommitResolve, TriageInv, Statuses
<1>3. /\ req' \in [Analysts -> Requests] /\ req'[a].pc = "idle"
      /\ \A b \in Analysts \ {a} : req'[b] = req[b]
  BY DEF CommitResolve, TriageInv, Nothing, Requests, Statuses
<1>4. \A b \in late : i \in overtaken'
  BY <1>1
<1>5. \A b \in Analysts : ReqInv(b)'
  BY <1>1, <1>3, <1>4 DEF TriageInv, ReqInv
<1>6. ResolvedStays'
  <2>1. \A j \in answered : alert[j].stamped /\ (alert[j].status = "resolved" \/ j \in overtaken)
    BY DEF TriageInv, ResolvedStays
  <2>2. answered \subseteq Rows
    BY DEF TriageInv
  <2>3. overtaken \subseteq overtaken'
    BY <1>1
  <2> HIDE DEF i, late
  <2>4. alert'[i].stamped /\ (alert'[i].status = "resolved" \/ i \in overtaken')
    BY <1>1, <1>2, <2>1, <2>3
  <2>5. \A j \in answered : j # i => alert'[j].stamped /\ (alert'[j].status = "resolved" \/ j \in overtaken')
    BY <1>2, <2>1, <2>2, <2>3, Zenon
  <2>6. QED
    BY <1>1, <2>4, <2>5, Zenon DEF ResolvedStays
<1>7. \A j \in Rows : alert'[j].status = "resolved" => j \in answered'
  BY <1>1, <1>2 DEF TriageInv
<1>8. QED
  BY <1>1, <1>2, <1>3, <1>5, <1>6, <1>7 DEF TriageInv

LEMMA AbortKeeps ==
    ASSUME TriageInv, NEW a \in Analysts, Abort(a) PROVE TriageInv'
<1>1. /\ alert' = alert /\ answered' = answered /\ overtaken' = overtaken
      /\ req' \in [Analysts -> Requests] /\ req'[a].pc = "idle"
      /\ \A b \in Analysts \ {a} : req'[b] = req[b]
  BY DEF Abort, TriageInv, Nothing, Requests, Statuses
<1>2. \A b \in Analysts : ReqInv(b)'
  BY <1>1 DEF TriageInv, ReqInv
<1>3. QED
  BY <1>1, <1>2 DEF TriageInv, ResolvedStays

LEMMA TriageInvNext == TriageInv /\ [TriageNext]_allVars => TriageInv'
<1>1. SUFFICES ASSUME TriageInv, [TriageNext]_allVars PROVE TriageInv'
  OBVIOUS
<1>2. CASE UNCHANGED triage
  BY <1>1, <1>2 DEF TriageInv, ReqInv, ResolvedStays, triage
<1>3. ASSUME NEW a \in Analysts, Triage(a) PROVE TriageInv'
  <2>1. ASSUME NEW i \in Rows, ReadForAcknowledge(a, i) PROVE TriageInv'
    BY <1>1, <2>1, ReadsKeep DEF ReadForAcknowledge
  <2>2. ASSUME NEW i \in Rows, ReadForResolve(a, i) PROVE TriageInv'
    BY <1>1, <2>2, ReadsKeep DEF ReadForResolve
  <2>3. QED
    BY <1>1, <1>3, <2>1, <2>2, AcknowledgeKeeps, ResolveKeeps, AbortKeeps DEF Triage
<1>4. QED
  BY <1>1, <1>2, <1>3 DEF TriageNext, allVars

(* Whoever was told that an alert is resolved is not contradicted, but by  *)
(* an acknowledgement that had read the alert before (alert_service.py     *)
(* acknowledge_alert, resolve_alert), however many analysts there are.     *)
THEOREM ResolutionStays == TriageSpec => []ResolvedStays
<1>1. TriageInv => ResolvedStays
  BY DEF TriageInv
<1>2. QED
  BY TriageInvInit, TriageInvNext, <1>1, PTL DEF TriageSpec

-----------------------------------------------------------------------------
Pcs == {"new", "contact", "dedup", "send", "done"}
Distinct(q) == \A i, j \in 1..Len(q) : q[i] = q[j] => i = j

\* None of the channels s has left had its message in this life of the key.
Unsent(s) ==
    \A i \in 1..Len(sender[s].todo) : confirmed[sender[s].todo[i]] <= expiries

SenderType == [pc: Pcs, todo: Seq(ChannelNames), tries: Nat]

\* Only the sender that set the key sends, and only to channels that are left.
SendInv ==
    /\ sender \in [Senders -> SenderType]
    /\ confirmed \in [ChannelNames -> Nat]
    /\ expiries \in Nat
    /\ \A s \in Senders : Distinct(sender[s].todo)
    /\ \A s, t \in Senders : (sender[s].pc = "send" /\ sender[t].pc = "send") => s = t
    /\ \A s \in Senders : sender[s].pc = "send" => (key = TRUE /\ Unsent(s))
    /\ key # TRUE => \A ch \in ChannelNames : confirmed[ch] <= expiries
    /\ ConfirmedOnce

LEMMA TailIsLeft ==
    ASSUME NEW q \in Seq(ChannelNames), q # <<>>
    PROVE  /\ Tail(q) \in Seq(ChannelNames)
           /\ Len(Tail(q)) = Len(q) - 1 /\ Len(q) \in Nat \ {0}
           /\ \A i \in 1..Len(Tail(q)) : Tail(q)[i] = q[i + 1]
           /\ Head(q) = q[1] /\ Head(q) \in ChannelNames
<1>1. Len(q) \in Nat /\ Len(q) # 0
  BY EmptySeq, LenProperties
<1>2. QED
  BY <1>1, HeadTailProperties

LEMMA DistinctTail ==
    ASSUME NEW q \in Seq(ChannelNames), q # <<>>, Distinct(q)
    PROVE  Distinct(Tail(q)) /\ \A i \in 1..Len(Tail(q)) : Tail(q)[i] # Head(q)
<1>1. \A i \in 1..Len(Tail(q)) : i + 1 \in 1..Len(q) /\ i + 1 # 1 /\ Tail(q)[i] = q[i + 1]
  BY TailIsLeft
<1>2. Head(q) = q[1] /\ 1 \in 1..Len(q)
  BY TailIsLeft
<1>3. ASSUME NEW i \in 1..Len(Tail(q)) PROVE Tail(q)[i] # Head(q)
  BY <1>1, <1>2, <1>3 DEF Distinct
<1>4. ASSUME NEW i \in 1..Len(Tail(q)), NEW j \in 1..Len(Tail(q)), Tail(q)[i] = Tail(q)[j]
      PROVE  i = j
  <2>1. i + 1 = j + 1
    BY <1>1, <1>4 DEF Distinct
  <2>2. QED
    BY <2>1
<1>5. QED
  BY <1>3, <1>4 DEF Distinct

LEMMA SendInvInit == Init => SendInv
<1>1. SUFFICES ASSUME Init PROVE SendInv
  OBVIOUS
<1>2. /\ sender = [s \in Senders |-> [pc |-> "new", todo |-> Channels, tries |-> 0]]
      /\ confirmed = [ch \in ChannelNames |-> 0] /\ expiries = 0
  BY <1>1 DEF Init
<1>3. Distinct(Channels)
  <2>1. DOMAIN Channels = 1..Len(Channels)
    BY ChannelsAssumption
  <2>2. QED
    BY <2>1, ChannelsAssumption DEF Distinct
<1>4. sender \in [Senders -> SenderType] /\ \A s \in Senders : sender[s].pc = "new" /\ sender[s].todo = Channels
  BY <1>2, ChannelsAssumption DEF SenderType, Pcs
<1>5. confirmed \in [ChannelNames -> Nat] /\ \A ch \in ChannelNames : confirmed[ch] <= 0
  BY <1>2
<1>6. QED
  BY <1>2, <1>3, <1>4, <1>5 DEF SendInv, ConfirmedOnce

(* Nobody starts sending, and nobody's list changes.                        *)
LEMMA SameListsKeep ==
    ASSUME SendInv, sender' \in [Senders -> SenderType],
           key' = key, confirmed' = confirmed, expiries' = expiries,
           \A s \in Senders : sender'[s].todo = sender[s].todo,
           \A s \in Senders : sender'[s].pc = "send" => sender[s].pc = "send"
    PROVE  SendInv'
<1>1. \A s \in Senders : Distinct(sender'[s].todo)
  BY DEF SendInv
<1>2. \A s, t \in Senders : (sender'[s].pc = "send" /\ sender'[t].pc = "send") => s = t
  BY DEF SendInv
<1>3. ASSUME NEW s \in Senders, sender'[s].pc = "send" PROVE key' = TRUE /\ Unsent(s)'
  <2>1. key = TRUE /\ Unsent(s)
    BY <1>3 DEF SendInv
  <2>2. QED
    BY <2>1 DEF Unsent
<1>4. ConfirmedOnce'
  BY DEF SendInv, ConfirmedOnce
<1>5. QED
  BY <1>1, <1>2, <1>3, <1>4 DEF SendInv

(* A step of s that neither sends nor lets anyone else do so.               *)
LEMMA QuietStepKeeps ==
    ASSUME SendInv, NEW s \in Senders, NEW pc \in Pcs \ {"send"}, Goto(s, pc),
           confirmed' = confirmed, expiries' = expiries, key' = key \/ key' = TRUE
    PROVE  SendInv'
<1>1. /\ sender' \in [Senders -> SenderType]
      /\ sender'[s].pc = pc /\ sender'[s].todo = sender[s].todo
      /\ \A t \in Senders \ {s} : sender'[t] = sender[t]
  BY DEF SendInv, Goto, SenderType
<1>2. \A t \in Senders : sender'[t].pc = "send" => sender'[t] = sender[t]
  BY <1>1
<1>3. \A t \in Senders : Distinct(sender'[t].todo)
  BY <1>1 DEF SendInv
<1>4. \A t, u \in Senders : (sender'[t].pc = "send" /\ sender'[u].pc = "send") => t = u
  BY <1>2 DEF SendInv
<1>5. \A t \in Senders : sender'[t].pc = "send" => (key' = TRUE /\ Unsent(t)')
  BY <1>2 DEF SendInv, Unsent
<1>6. QED
  BY <1>1, <1>3, <1>4, <1>5 DEF SendInv, ConfirmedOnce

LEMMA DeduplicateKeeps ==
    ASSUME SendInv, NEW s \in Senders, Deduplicate(s) PROVE SendInv'
<1>1. confirmed' = confirmed /\ expiries' = expiries
  BY DEF Deduplicate
<1>2. CASE Goto(s, "done")
  <2>1. key' = key \/ key' = TRUE
    BY DEF Deduplicate
  <2>2. QED
    BY <1>1, <1>2, <2>1, QuietStepKeeps DEF Pcs
<1>3. CASE ~key /\ key' = TRUE /\ Goto(s, "send")
  <2>1. /\ sender' \in [Senders -> SenderType]
        /\ sender'[s].pc = "send" /\ sender'[s].todo = sender[s].todo
        /\ \A t \in Senders \ {s} : sender'[t] = sender[t]
    BY <1>3 DEF SendInv, Goto, SenderType, Pcs
  <2>2. \A t \in Senders : sender[t].pc # "send"
    BY <1>3 DEF SendInv
  <2>3. \A ch \in ChannelNames : confirmed[ch] <= expiries
    BY <1>3 DEF SendInv
  <2>4. \A i \in 1..Len(sender[s].todo) : sender[s].todo[i] \in ChannelNames
    BY DEF SendInv, SenderType
  <2>5. Unsent(s)'
    BY <1>1, <2>1, <2>3, <2>4 DEF Unsent
  <2>6. \A t \in Senders : Distinct(sender'[t].todo)
    BY <2>1 DEF SendInv
  <2>7. QED
    BY <1>1, <1>3, <2>1, <2>2, <2>5, <2>6 DEF SendInv, ConfirmedOnce
<1>4. QED
  BY <1>2, <1>3 DEF Deduplicate

(* The sender that sends goes on to the next channel, whether or not the    *)
(* provider confirmed the one before.                                      *)
LEMMA NextChannelKeeps ==
    ASSUME SendInv, NEW s \in Senders, sender[s].pc = "send", sender[s].todo # <<>>,
           NextChannel(s), expiries' = expiries, key' = key,
           confirmed' \in {confirmed, Count(confirmed, Head(sender[s].todo))}
    PROVE  SendInv'
<1> DEFINE q == sender[s].todo
           ch == Head(q)
<1>1. q \in Seq(ChannelNames) /\ Distinct(q) /\ Unsent(s) /\ key = TRUE
  BY DEF SendInv, SenderType
<1>2. /\ Tail(q) \in Seq(ChannelNames)
      /\ Len(Tail(q)) = Len(q) - 1 /\ Len(q) \in Nat \ {0}
      /\ \A i \in 1..Len(Tail(q)) : Tail(q)[i] = q[i + 1] /\ Tail(q)[i] # ch
      /\ ch = q[1] /\ ch \in ChannelNames /\ Distinct(Tail(q))
  BY <1>1, TailIsLeft, DistinctTail
<1>3. /\ sender' \in [Senders -> SenderType]
      /\ sender'[s].todo = Tail(q) /\ sender'[s].pc = "send"
      /\ \A t \in Senders \ {s} : sender'[t] = sender[t]
  BY <1>2 DEF SendInv, NextChannel, SenderType
<1>4. /\ confirmed' \in [ChannelNames -> Nat]
      /\ confirmed'[ch] <= confirmed[ch] + 1
      /\ \A d \in ChannelNames \ {ch} : confirmed'[d] = confirmed[d]
  BY <1>2 DEF SendInv, Count
<1>5. confirmed[ch] <= expiries
  BY <1>1, <1>2 DEF Unsent
<1>6. \A i \in 1..Len(Tail(q)) : Tail(q)[i] \in ChannelNames /\ confirmed[Tail(q)[i]] <= expiries
  BY <1>1, <1>2 DEF Unsent
<1>7. \A t \in Senders : sender[t].pc = "send" => t = s
  BY DEF SendInv
<1>8. expiries \in Nat /\ (\A d \in ChannelNames : confirmed[d] <= expiries + 1) /\ confirmed \in [ChannelNames -> Nat]
  BY DEF SendInv, ConfirmedOnce
<1>9. \A t \in Senders : Distinct(sender'[t].todo)
  BY <1>2, <1>3 DEF SendInv
<1> HIDE DEF q, ch
<1>10. ConfirmedOnce'
  <2>1. \A d \in ChannelNames : confirmed'[d] <= expiries + 1
    BY <1>2, <1>4, <1>5, <1>8
  <2>2. QED
    BY <2>1 DEF ConfirmedOnce
<1>11. Unsent(s)'
  <2>1. \A i \in 1..Len(Tail(q)) : confirmed'[Tail(q)[i]] <= expiries
    BY <1>2, <1>4, <1>6
  <2>2. QED
    BY <1>3, <2>1 DEF Unsent
<1>12. QED
  BY <1>1, <1>3, <1>4, <1>7, <1>8, <1>9, <1>10, <1>11 DEF SendInv

LEMMA AttemptFailsKeeps ==
    ASSUME SendInv, NEW s \in Senders, AttemptFails(s) PROVE SendInv'
<1>1. /\ sender[s].pc = "send" /\ sender[s].todo # <<>>
      /\ key' = key /\ confirmed' = confirmed /\ expiries' = expiries
  BY DEF AttemptFails
<1>2. CASE NextChannel(s)
  BY <1>1, <1>2, NextChannelKeeps
<1>3. CASE sender' = [sender EXCEPT ![s].tries = sender[s].tries + 1]
  <2>1. /\ sender' \in [Senders -> SenderType]
        /\ \A t \in Senders : sender'[t].pc = sender[t].pc /\ sender'[t].todo = sender[t].todo
    <3>1. sender[s].tries + 1 \in Nat
      BY DEF SendInv, SenderType
    <3>2. /\ sender'[s] = [sender[s] EXCEPT !.tries = sender[s].tries + 1]
          /\ \A t \in Senders \ {s} : sender'[t] = sender[t]
      BY <1>3 DEF SendInv
    <3>3. sender'[s].pc = sender[s].pc /\ sender'[s].todo = sender[s].todo /\ sender'[s] \in SenderType
      BY <3>1, <3>2 DEF SendInv, SenderType
    <3>4. sender' \in [Senders -> SenderType]
      BY <1>3, <3>2, <3>3 DEF SendInv
    <3>5. QED
      BY <3>2, <3>3, <3>4
  <2>2. QED
    BY <1>1, <2>1, SameListsKeep
<1>4. QED
  BY <1>2, <1>3 DEF AttemptFails

LEMMA CrashKeeps == ASSUME SendInv, Crash PROVE SendInv'
<1>1. PICK lost \in (SUBSET Senders) \ {{}} :
        sender' = [s \in Senders |-> IF s \in lost THEN [sender[s] EXCEPT !.pc = "done"] ELSE sender[s]]
  BY DEF Crash
<1>2. key' = key /\ confirmed' = confirmed /\ expiries' = expiries
  BY DEF Crash
<1>3. sender' \in [Senders -> SenderType]
  BY <1>1 DEF SendInv, SenderType, Pcs
<1>4. /\ \A s \in Senders : sender'[s].todo = sender[s].todo
      /\ \A s \in Senders : sender'[s].pc = "send" => sender[s].pc = "send"
  BY <1>1 DEF SendInv, SenderType
<1>5. QED
  BY <1>2, <1>3, <1>4, SameListsKeep

LEMMA KeyRunsOutKeeps == ASSUME SendInv, KeyRunsOut PROVE SendInv'
<1>1. /\ sender' = sender /\ confirmed' = confirmed /\ expiries' = expiries + 1
      /\ \A s \in Senders : sender[s].pc # "send"
  BY DEF KeyRunsOut
<1>2. \A ch \in ChannelNames : confirmed[ch] \in Nat /\ confirmed[ch] <= expiries + 1
  BY DEF SendInv, ConfirmedOnce
<1>3. expiries \in Nat /\ \A ch \in ChannelNames : confirmed[ch] <= expiries + 2
  BY <1>2 DEF SendInv
<1>4. \A s \in Senders : sender'[s].pc # "send"
  BY <1>1
<1>5. /\ sender' \in [Senders -> SenderType] /\ confirmed' \in [ChannelNames -> Nat]
      /\ \A s \in Senders : Distinct(sender'[s].todo)
  BY <1>1 DEF SendInv
<1>6. \A ch \in ChannelNames : confirmed'[ch] <= expiries'
  BY <1>1, <1>2
<1>7. ConfirmedOnce'
  BY <1>1, <1>2, <1>3 DEF ConfirmedOnce
<1>8. expiries' \in Nat
  BY <1>1, <1>3
<1>9. QED
  BY <1>4, <1>5, <1>6, <1>7, <1>8 DEF SendInv

LEMMA SendInvNext == SendInv /\ [TriageNext]_allVars => SendInv'
<1>1. SUFFICES ASSUME SendInv, [TriageNext]_allVars PROVE SendInv'
  OBVIOUS
<1>2. CASE UNCHANGED vars
  BY <1>1, <1>2 DEF SendInv, ConfirmedOnce, Unsent, vars
<1>3. ASSUME NEW a \in Analysts, Triage(a) PROVE UNCHANGED vars
  BY <1>3 DEF Triage, ReadForAcknowledge, ReadForResolve, Reads, CommitAcknowledge, CommitResolve, Abort
<1>4. ASSUME NEW s \in Senders, Insert(s) \/ InsertFails(s) \/ ReadContact(s)
      PROVE  SendInv'
  <2>1. key' = key /\ confirmed' = confirmed /\ expiries' = expiries
    BY <1>4 DEF Insert, InsertFails, ReadContact
  <2>2. \E pc \in Pcs \ {"send"} : Goto(s, pc)
    BY <1>4 DEF Insert, InsertFails, ReadContact, Pcs
  <2>3. QED
    BY <1>1, <2>1, <2>2, QuietStepKeeps
<1>5. ASSUME NEW s \in Senders, Finish(s) PROVE SendInv'
  BY <1>1, <1>5, QuietStepKeeps DEF Finish, Pcs
<1>6. ASSUME NEW s \in Senders, AttemptSucceeds(s) PROVE SendInv'
  BY <1>1, <1>6, NextChannelKeeps DEF AttemptSucceeds
<1>7. CASE Next
  BY <1>1, <1>4, <1>5, <1>6, <1>7, DeduplicateKeeps, AttemptFailsKeeps, CrashKeeps, KeyRunsOutKeeps DEF Next
<1>8. QED
  BY <1>1, <1>2, <1>3, <1>7 DEF TriageNext, allVars

(* The account owner has one confirmed message per channel for each life   *)
(* of the deduplication key (notification.py send_fraud_alert), whatever   *)
(* the number of tasks, redeliveries, errors, crashes and retries.         *)
THEOREM OwnerNotifiedOnce == TriageSpec => []ConfirmedOnce
<1>1. SendInv => ConfirmedOnce
  BY DEF SendInv
<1>2. TriageInit => SendInv
  BY SendInvInit DEF TriageInit
<1>3. QED
  BY SendInvNext, <1>1, <1>2, PTL DEF TriageSpec

-----------------------------------------------------------------------------
(* While nothing crashed and no row is recorded, every sender that has     *)
(* begun took an error of its own.                                         *)
Begun == {s \in Senders : sender[s].pc # "new"}

RowsInv ==
    /\ rows \in Nat /\ faults \in Nat /\ crashes \in Nat
    /\ (crashes = 0 /\ rows = 0) => Cardinality(Begun) <= faults

LEMMA SendersFinite ==
    ASSUME NEW S, \A x \in S : x \in Senders
    PROVE  IsFiniteSet(S) /\ Cardinality(S) \in Nat
<1>1. IsFiniteSet(Senders)
  BY SendersAssumption, FS_Union DEF Senders
<1>2. S \subseteq Senders
  OBVIOUS
<1>3. QED
  BY <1>1, <1>2, FS_Subset, FS_CardinalityType

(* A step that records nothing begins nobody, or costs an error.           *)
LEMMA RowlessStepKeeps ==
    ASSUME RowsInv, NEW s, rows' = rows, crashes' = crashes, faults' \in Nat,
           \/ faults' >= faults /\ \A t \in Senders : sender[t].pc = "new" => sender'[t].pc = "new"
           \/ faults' = faults + 1 /\ \A t \in Senders : t # s /\ sender[t].pc = "new" => sender'[t].pc = "new"
    PROVE  RowsInv'
<1>1. (\A x \in Begun : x \in Senders) /\ (\A x \in Begun' : x \in Senders)
  BY DEF Begun
<1>2. IsFiniteSet(Begun) /\ Cardinality(Begun) \in Nat /\ Cardinality(Begun') \in Nat
  BY <1>1, SendersFinite
<1>3. faults \in Nat /\ rows \in Nat /\ crashes \in Nat /\ (crashes = 0 /\ rows = 0 => Cardinality(Begun) <= faults)
  BY DEF RowsInv
<1>4. CASE faults' >= faults /\ \A t \in Senders : sender[t].pc = "new" => sender'[t].pc = "new"
  <2>1. Begun' \subseteq Begun
    BY <1>4 DEF Begun
  <2>2. Cardinality(Begun') <= Cardinality(Begun)
    BY <1>2, <2>1, FS_Subset
  <2>3. QED
    BY <1>2, <1>3, <1>4, <2>2 DEF RowsInv
<1>5. CASE faults' = faults + 1 /\ \A t \in Senders : t # s /\ sender[t].pc = "new" => sender'[t].pc = "new"
  <2>1. Begun' \subseteq Begun \union {s}
    BY <1>5 DEF Begun
  <2>2. IsFiniteSet(Begun \union {s}) /\ Cardinality(Begun \union {s}) <= Cardinality(Begun) + 1
        /\ Cardinality(Begun \union {s}) \in Nat
    BY <1>2, FS_AddElement, FS_CardinalityType
  <2>3. Cardinality(Begun') <= Cardinality(Begun \union {s})
    BY <2>1, <2>2, FS_Subset
  <2>4. QED
    BY <1>2, <1>3, <1>5, <2>2, <2>3 DEF RowsInv
<1>6. QED
  BY <1>4, <1>5

LEMMA RowsInvInit == Init => RowsInv
<1> SUFFICES ASSUME Init PROVE RowsInv
  OBVIOUS
<1>1. sender = [s \in Senders |-> [pc |-> "new", todo |-> Channels, tries |-> 0]]
  BY DEF Init
<1>2. Begun = {}
  BY <1>1 DEF Begun
<1>3. QED
  BY <1>2, FS_EmptySet DEF Init, RowsInv

LEMMA RowsInvNext == SendInv /\ RowsInv /\ [TriageNext]_allVars => RowsInv'
<1> SUFFICES ASSUME SendInv, RowsInv, [TriageNext]_allVars PROVE RowsInv'
  OBVIOUS
<1>1. rows \in Nat /\ faults \in Nat /\ crashes \in Nat /\ sender \in [Senders -> SenderType]
  BY DEF RowsInv, SendInv
<1>2. CASE UNCHANGED vars
  BY <1>2 DEF RowsInv, Begun, vars
<1>3. ASSUME NEW a \in Analysts, Triage(a) PROVE UNCHANGED vars
  BY <1>3 DEF Triage, ReadForAcknowledge, ReadForResolve, Reads, CommitAcknowledge, CommitResolve, Abort
<1>4. ASSUME NEW s \in Senders, NEW pc, Goto(s, pc)
      PROVE  \A t \in Senders : t # s => sender'[t] = sender[t]
  BY <1>1, <1>4 DEF Goto
<1>5. ASSUME NEW s \in Senders, Insert(s) PROVE RowsInv'
  BY <1>1, <1>5 DEF Insert, RowsInv
<1>6. ASSUME NEW s \in Senders, InsertFails(s) PROVE RowsInv'
  <2>1. faults' = faults + 1 /\ crashes' = crashes /\ (rows' = rows \/ rows' = rows + 1)
    BY <1>6 DEF InsertFails, Fault
  <2>2. \A t \in Senders : t # s => sender'[t] = sender[t]
    BY <1>4, <1>6 DEF InsertFails
  <2>3. CASE rows' = rows
    BY <1>1, <2>1, <2>2, <2>3, RowlessStepKeeps
  <2>4. CASE rows' = rows + 1
    BY <1>1, <2>1, <2>4 DEF RowsInv
  <2>5. QED
    BY <2>1, <2>3, <2>4
<1>7. ASSUME NEW s \in Senders,
             ReadContact(s) \/ Deduplicate(s) \/ AttemptFails(s) \/ AttemptSucceeds(s) \/ Finish(s)
      PROVE  RowsInv'
  <2>1. sender[s].pc # "new" /\ rows' = rows /\ crashes' = crashes
    BY <1>7 DEF ReadContact, Deduplicate, AttemptFails, AttemptSucceeds, Finish
  <2>2. faults' = faults \/ faults' = faults + 1
    BY <1>7 DEF ReadContact, Deduplicate, AttemptFails, AttemptSucceeds, Finish, Fault
  <2>3. \A t \in Senders : t # s => sender'[t] = sender[t]
    BY <1>1, <1>7 DEF ReadContact, Deduplicate, AttemptFails, AttemptSucceeds, Finish, Goto, NextChannel
  <2>4. \A t \in Senders : sender[t].pc = "new" => sender'[t].pc = "new"
    BY <2>1, <2>3
  <2>5. faults' \in Nat /\ faults' >= faults
    BY <1>1, <2>2
  <2>6. QED
    BY <2>1, <2>4, <2>5, RowlessStepKeeps
<1>8. CASE Crash
  BY <1>1, <1>8 DEF Crash, RowsInv
<1>9. CASE KeyRunsOut
  <2>1. rows' = rows /\ crashes' = crashes /\ sender' = sender /\ faults' = faults
    BY <1>9 DEF KeyRunsOut
  <2>2. QED
    BY <2>1 DEF RowsInv, Begun
<1>10. CASE Next
  BY <1>5, <1>6, <1>7, <1>8, <1>9, <1>10 DEF Next
<1>11. QED
  BY <1>2, <1>3, <1>10 DEF TriageNext, allVars

(* Task and worker back each other up: without a crash, an alert without a *)
(* row took an error in each of them (alert_service.py                     *)
(* record_decision_alert, alert_worker.py _persist_alert).                 *)
THEOREM AlertRecorded == TriageSpec => []RecordedByEitherPath
<1>1. RowsInv => RecordedByEitherPath
  <2>1. AllDone => Begun = Senders
    BY DEF AllDone, Begun
  <2>2. QED
    BY <2>1, SendersFinite DEF RowsInv, RecordedByEitherPath
<1>2. TriageInit => SendInv /\ RowsInv
  BY SendInvInit, RowsInvInit DEF TriageInit
<1>3. SendInv /\ RowsInv /\ [TriageNext]_allVars => (SendInv /\ RowsInv)'
  BY SendInvNext, RowsInvNext
<1>4. QED
  BY <1>1, <1>2, <1>3, PTL DEF TriageSpec

-----------------------------------------------------------------------------
(* As long as nothing failed: once the key was set, every channel has its  *)
(* message or is on the list of a sender that sends.                       *)
Clean == faults = 0 /\ crashes = 0
EverSet == key = TRUE \/ expiries > 0
Coming(s, ch) ==
    sender[s].pc = "send" /\ \E i \in 1..Len(sender[s].todo) : sender[s].todo[i] = ch

CleanInv ==
    /\ faults \in Nat /\ crashes \in Nat
    /\ Clean =>
         /\ \A s \in Senders : sender[s].pc \in {"new", "contact", "dedup"} => sender[s].todo = Channels
         /\ \A s \in Senders : sender[s].pc \in {"send", "done"} => EverSet
         /\ EverSet => \A ch \in ChannelNames :
                         confirmed[ch] > 0 \/ \E s \in Senders : Coming(s, ch)

LEMMA CleanInvInit == Init => CleanInv
<1> SUFFICES ASSUME Init PROVE CleanInv
  OBVIOUS
<1>1. \A s \in Senders : sender[s] = [pc |-> "new", todo |-> Channels, tries |-> 0]
  BY DEF Init
<1>2. ~EverSet
  BY DEF Init, EverSet
<1>3. QED
  BY <1>1, <1>2 DEF CleanInv, Init

(* Steps of s that set no key and send nothing.                            *)
LEMMA CleanStepKeeps ==
    ASSUME SendInv, CleanInv, NEW s \in Senders, NEW pc \in {"contact", "dedup", "done"}, Goto(s, pc),
           key' = key, confirmed' = confirmed, expiries' = expiries,
           faults' = faults, crashes' = crashes,
           \/ pc # "done" /\ sender[s].pc \in {"new", "contact"}
           \/ pc = "done" /\ sender[s].pc = "dedup" /\ key = TRUE
           \/ pc = "done" /\ sender[s].pc = "send" /\ sender[s].todo = <<>>
    PROVE  CleanInv'
<1>1. /\ sender'[s].pc = pc /\ sender'[s].todo = sender[s].todo
      /\ \A t \in Senders \ {s} : sender'[t] = sender[t]
  BY DEF SendInv, Goto, SenderType
<1>2. (Clean' <=> Clean) /\ (EverSet' <=> EverSet)
  BY DEF Clean, EverSet
<1>3. SUFFICES ASSUME Clean
               PROVE  /\ \A t \in Senders : sender'[t].pc \in {"new", "contact", "dedup"} => sender'[t].todo = Channels
                      /\ \A t \in Senders : sender'[t].pc \in {"send", "done"} => EverSet
                      /\ EverSet => \A ch \in ChannelNames :
                                      confirmed[ch] > 0 \/ \E t \in Senders : Coming(t, ch)'
  BY <1>2 DEF CleanInv
<1>4. /\ \A t \in Senders : sender[t].pc \in {"new", "contact", "dedup"} => sender[t].todo = Channels
      /\ \A t \in Senders : sender[t].pc \in {"send", "done"} => EverSet
      /\ EverSet => \A ch \in ChannelNames : confirmed[ch] > 0 \/ \E t \in Senders : Coming(t, ch)
  BY <1>3 DEF CleanInv
<1>5. ASSUME NEW t \in Senders, sender'[t].pc \in {"new", "contact", "dedup"}
      PROVE  sender'[t].todo = Channels
  BY <1>1, <1>4, <1>5
<1>6. ASSUME NEW t \in Senders, sender'[t].pc \in {"send", "done"} PROVE EverSet
  BY <1>1, <1>4, <1>6 DEF EverSet
<1>7. ASSUME NEW t \in Senders, NEW ch, Coming(t, ch) PROVE Coming(t, ch)'
  <2>1. t # s
    <3>1. Len(<<>>) = 0
      BY EmptySeq
    <3>2. QED
      BY <1>7, <3>1 DEF Coming
  <2>2. sender'[t] = sender[t]
    BY <1>1, <2>1
  <2>3. QED
    BY <1>7, <2>2 DEF Coming
<1>8. QED
  BY <1>4, <1>5, <1>6, <1>7

LEMMA CleanDeduplicate ==
    ASSUME SendInv, CleanInv, NEW s \in Senders, Deduplicate(s) PROVE CleanInv'
<1>1. crashes' = crashes /\ confirmed' = confirmed /\ expiries' = expiries /\ sender[s].pc = "dedup"
  BY DEF Deduplicate
<1>2. faults \in Nat /\ crashes \in Nat
  BY DEF CleanInv
<1>3. CASE key /\ Goto(s, "done") /\ UNCHANGED <<key, faults>>
  <2>1. key = TRUE
    BY <1>1, <1>3 DEF SendInv, EverSet
  <2>2. QED
    BY <1>1, <1>3, <2>1, CleanStepKeeps
<1>4. CASE Fault
  BY <1>1, <1>2, <1>4 DEF Fault, CleanInv, Clean
<1>5. CASE ~key /\ key' = TRUE /\ Goto(s, "send") /\ UNCHANGED faults
  <2>1. /\ sender'[s].pc = "send" /\ sender'[s].todo = sender[s].todo
        /\ \A t \in Senders \ {s} : sender'[t] = sender[t]
    BY <1>5 DEF SendInv, Goto, SenderType
  <2>2. SUFFICES ASSUME Clean
               PROVE  /\ \A t \in Senders : sender'[t].pc \in {"new", "contact", "dedup"} => sender'[t].todo = Channels
                      /\ \A ch \in ChannelNames : Coming(s, ch)'
    BY <1>1, <1>2, <1>5 DEF CleanInv, Clean, EverSet
  <2>3. \A t \in Senders : sender[t].pc \in {"new", "contact", "dedup"} => sender[t].todo = Channels
    BY <2>2 DEF CleanInv
  <2>4. DOMAIN Channels = 1..Len(Channels)
    BY ChannelsAssumption
  <2>5. \A ch \in ChannelNames : \E i \in 1..Len(Channels) : Channels[i] = ch
    BY <2>4 DEF ChannelNames
  <2>6. sender'[s].todo = Channels
    BY <1>1, <2>1, <2>3
  <2>7. \A ch \in ChannelNames : Coming(s, ch)'
    BY <2>1, <2>5, <2>6 DEF Coming
  <2>8. QED
    BY <2>1, <2>3, <2>7
<1>6. QED
  BY <1>3, <1>4, <1>5 DEF Deduplicate

(* The channel that leaves the list is the one that was confirmed.         *)
LEMMA CleanAttempt ==
    ASSUME SendInv, CleanInv, NEW s \in Senders, AttemptSucceeds(s) PROVE CleanInv'
<1> DEFINE q == sender[s].todo
           ch == Head(q)
<1>1. /\ sender[s].pc = "send" /\ q # <<>> /\ confirmed' = Count(confirmed, ch) /\ NextChannel(s)
      /\ UNCHANGED <<key, expiries, faults, crashes>>
  BY DEF AttemptSucceeds
<1>2. q \in Seq(ChannelNames)
  BY DEF SendInv, SenderType
<1>3. /\ Tail(q) \in Seq(ChannelNames)
      /\ Len(Tail(q)) = Len(q) - 1 /\ Len(q) \in Nat \ {0}
      /\ \A i \in 1..Len(Tail(q)) : Tail(q)[i] = q[i + 1]
      /\ ch = q[1] /\ ch \in ChannelNames
  BY <1>1, <1>2, TailIsLeft
<1>4. /\ sender'[s].pc = "send" /\ sender'[s].todo = Tail(q)
      /\ \A t \in Senders \ {s} : sender'[t] = sender[t]
  BY <1>1 DEF SendInv, NextChannel, SenderType
<1>5. /\ confirmed'[ch] > 0
      /\ \A d \in ChannelNames : confirmed[d] > 0 => confirmed'[d] > 0
  <2>1. \A d \in ChannelNames : confirmed[d] \in Nat
    BY DEF SendInv
  <2>2. \A d \in ChannelNames : confirmed'[d] = IF d = ch THEN confirmed[d] + 1 ELSE confirmed[d]
    BY <1>1 DEF SendInv, Count
  <2>3. QED
    BY <1>3, <2>1, <2>2
<1>6. SUFFICES ASSUME Clean
               PROVE  /\ \A t \in Senders : sender'[t].pc \in {"new", "contact", "dedup"} => sender'[t].todo = Channels
                      /\ \A t \in Senders : sender'[t].pc \in {"send", "done"} => EverSet
                      /\ EverSet => \A d \in ChannelNames :
                                      confirmed'[d] > 0 \/ \E t \in Senders : Coming(t, d)'
  BY <1>1 DEF CleanInv, Clean, EverSet
<1>7. /\ \A t \in Senders : sender[t].pc \in {"new", "contact", "dedup"} => sender[t].todo = Channels
      /\ \A t \in Senders : sender[t].pc \in {"send", "done"} => EverSet
      /\ EverSet => \A d \in ChannelNames : confirmed[d] > 0 \/ \E t \in Senders : Coming(t, d)
  BY <1>6 DEF CleanInv
<1>8. ASSUME NEW t \in Senders, NEW d \in ChannelNames, Coming(t, d), d # ch PROVE Coming(t, d)'
  <2>1. CASE t = s
    <3>1. PICK i \in 1..Len(q) : q[i] = d
      BY <1>8, <2>1 DEF Coming
    <3>2. i # 1 /\ i - 1 \in 1..Len(Tail(q)) /\ (i - 1) + 1 = i
      BY <1>3, <1>8, <3>1
    <3>3. Tail(q)[i - 1] = d
      BY <1>3, <3>1, <3>2
    <3>4. QED
      BY <1>4, <2>1, <3>2, <3>3 DEF Coming
  <2>2. CASE t # s
    <3>1. sender'[t] = sender[t]
      BY <1>4, <2>2
    <3>2. QED
      BY <1>8, <3>1 DEF Coming
  <2>3. QED
    BY <2>1, <2>2
<1> HIDE DEF q, ch
<1>9. QED
  BY <1>1, <1>4, <1>5, <1>7, <1>8

LEMMA CleanInvNext == SendInv /\ CleanInv /\ [TriageNext]_allVars => CleanInv'
<1> SUFFICES ASSUME SendInv, CleanInv, [TriageNext]_allVars PROVE CleanInv'
  OBVIOUS
<1>1. faults \in Nat /\ crashes \in Nat
  BY DEF CleanInv
<1>2. CASE UNCHANGED vars
  BY <1>2 DEF CleanInv, Clean, EverSet, Coming, vars
<1>3. ASSUME NEW a \in Analysts, Triage(a) PROVE UNCHANGED vars
  BY <1>3 DEF Triage, ReadForAcknowledge, ReadForResolve, Reads, CommitAcknowledge, CommitResolve, Abort
<1>4. ASSUME Fault, crashes' = crashes PROVE CleanInv'
  BY <1>1, <1>4 DEF Fault, CleanInv, Clean
<1>5. ASSUME NEW s \in Senders, Insert(s) PROVE CleanInv'
  BY <1>5, CleanStepKeeps DEF Insert
<1>6. ASSUME NEW s \in Senders, InsertFails(s) PROVE CleanInv'
  BY <1>4, <1>6 DEF InsertFails
<1>7. ASSUME NEW s \in Senders, ReadContact(s) PROVE CleanInv'
  <2>1. CASE Fault
    BY <1>4, <1>7, <2>1 DEF ReadContact
  <2>2. CASE Goto(s, "dedup") /\ UNCHANGED faults
    BY <1>7, <2>2, CleanStepKeeps DEF ReadContact
  <2>3. QED
    BY <1>7, <2>1, <2>2 DEF ReadContact
<1>8. ASSUME NEW s \in Senders, AttemptFails(s) PROVE CleanInv'
  BY <1>4, <1>8 DEF AttemptFails
<1>9. ASSUME NEW s \in Senders, Finish(s) PROVE CleanInv'
  BY <1>9, CleanStepKeeps DEF Finish
<1>10. CASE Crash
  BY <1>1, <1>10 DEF Crash, CleanInv, Clean
<1>11. CASE KeyRunsOut
  <2>1. /\ key = TRUE /\ sender' = sender /\ confirmed' = confirmed /\ faults' = faults
        /\ crashes' = crashes /\ expiries' = expiries + 1 /\ expiries \in Nat
    BY <1>11 DEF KeyRunsOut, SendInv
  <2>2. EverSet /\ EverSet'
    BY <2>1 DEF EverSet
  <2>3. (Clean' <=> Clean) /\ \A s, ch : Coming(s, ch)' <=> Coming(s, ch)
    BY <2>1 DEF Clean, Coming
  <2>4. QED
    BY <2>1, <2>2, <2>3 DEF CleanInv
<1>12. CASE Next
  BY <1>5, <1>6, <1>7, <1>8, <1>9, <1>10, <1>11, <1>12, CleanDeduplicate, CleanAttempt DEF Next
<1>13. QED
  BY <1>2, <1>3, <1>12 DEF TriageNext, allVars

(* Without errors and crashes the owner has a message on every channel     *)
(* when the senders are through (notification.py send_fraud_alert).        *)
THEOREM OwnerNotified == TriageSpec => []NotifiedWithoutFaults
<1>1. CleanInv => NotifiedWithoutFaults
  <2> SUFFICES ASSUME CleanInv, AllDone, Clean, NEW ch \in ChannelNames PROVE confirmed[ch] > 0
    BY DEF NotifiedWithoutFaults, Clean
  <2>1. \E s \in Senders : sender[s].pc = "done"
    BY SendersAssumption DEF AllDone, Senders
  <2>2. EverSet
    BY <2>1 DEF CleanInv
  <2>3. \A s \in Senders : ~Coming(s, ch)
    BY DEF AllDone, Coming
  <2>4. QED
    BY <2>2, <2>3 DEF CleanInv
<1>2. TriageInit => SendInv /\ CleanInv
  BY SendInvInit, CleanInvInit DEF TriageInit
<1>3. SendInv /\ CleanInv /\ [TriageNext]_allVars => (SendInv /\ CleanInv)'
  BY SendInvNext, CleanInvNext
<1>4. QED
  BY <1>1, <1>2, <1>3, PTL DEF TriageSpec

=============================================================================
