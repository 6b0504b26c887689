------------------------ MODULE Verification_proofs ------------------------
(***************************************************************************)
(* Proofs about Verification, for every set of handlers and verifications  *)
(* and every bound.                                                        *)
(***************************************************************************)
EXTENDS Verification, TLAPS

-----------------------------------------------------------------------------
(* The helpers of the handlers. *)

(* The four outcomes are outcomes, of a terminal state and a status. *)
LEMMA OutcomeFacts ==
    /\ Approve \in Outcomes /\ Reject \in Outcomes
    /\ Escalate \in Outcomes /\ Expire \in Outcomes
    /\ \A o \in Outcomes :
         /\ o.to \in Terminal
         /\ o.tx \in TxStatuses \ {"verify"}
         /\ o = [to |-> o.to, tx |-> o.tx]
  BY DEF Outcomes, Approve, Reject, Escalate, Expire, Terminal, TxStatuses

(* The idle request is a request. *)
LEMMA IdleFacts == Idle \in Request /\ Idle.pc = "idle"
  BY OutcomeFacts DEF Idle, Request, Steps, TxStatuses

(* A request that begins at a step is a request for its row. *)
LEMMA BeginsFacts ==
    ASSUME NEW v \in Verifs, NEW pc \in Steps
    PROVE  /\ Begins(v, pc) \in Request
           /\ Begins(v, pc).v = v
           /\ Begins(v, pc).pc = pc
  BY IdleFacts DEF Begins, Request

(* Planning keeps a request a request for the same row. *)
LEMMA PlansFacts ==
    ASSUME NEW r \in Request, NEW outcome \in Outcomes, NEW d \in BOOLEAN
    PROVE  /\ Plans(r, outcome, d) \in Request
           /\ Plans(r, outcome, d).v = r.v
           /\ Plans(r, outcome, d).pc = "flush"
  BY DEF Plans, Request, Steps

(* A value a request may move to: idle, or working on a row that exists. *)
Working(r) ==
    /\ r \in Request
    /\ r.pc # "idle" => r.v \in Verifs /\ row[r.v].state # "ABSENT"

(* How a step that is not the environment's changes the requests: one      *)
(* handler's, to a value it may move to, and only Flush enters the writing *)
(* steps.                                                                  *)
LEMMA RequestStep ==
    ASSUME TypeOK, RequestInv, NEW h \in Handlers,
           Starts(h) \/ Continues(h) \/ Abort(h)
    PROVE  /\ req' = [req EXCEPT ![h] = req'[h]]
           /\ Working(req'[h])
<1> USE DEF TypeOK
<1>0. /\ req[h] \in Request
      /\ Working(req[h])
      /\ Working(Idle)
      /\ req \in [Handlers -> Request]
  BY IdleFacts DEF Working, RequestInv
<1>enter. ASSUME NEW r, Working(r), Enter(h, r)
          PROVE  /\ req' = [req EXCEPT ![h] = req'[h]]
                 /\ Working(req'[h])
  BY <1>0, <1>enter DEF Enter
<1>1. ASSUME NEW v \in Verifs, NEW outcome \in {Approve, Reject, Escalate},
             Review(h, v, outcome)
      PROVE  /\ req' = [req EXCEPT ![h] = req'[h]]
             /\ Working(req'[h])
  <2>1. Working(Plans(Begins(v, "flush"), outcome, TRUE))
    <3>1. Begins(v, "flush") \in Request /\ Begins(v, "flush").v = v
      BY BeginsFacts DEF Steps
    <3>2. outcome \in Outcomes
      BY OutcomeFacts
    <3>3. row[v].state # "ABSENT"
      BY <1>1 DEF Review
    <3>4. QED
      BY <3>1, <3>2, <3>3, PlansFacts DEF Working
  <2>2. QED
    BY <1>1, <2>1, <1>enter DEF Review
<1>2. ASSUME NEW v \in Verifs, NEW code \in 0..MaxOtps,
             SubmitOtp(h, v, code)
      PROVE  /\ req' = [req EXCEPT ![h] = req'[h]]
             /\ Working(req'[h])
  <2>1. Working(Plans(Begins(v, "flush"), Expire, TRUE))
    <3>1. Begins(v, "flush") \in Request /\ Begins(v, "flush").v = v
      BY BeginsFacts DEF Steps
    <3>2. row[v].state # "ABSENT"
      BY <1>2 DEF SubmitOtp
    <3>3. QED
      BY <3>1, <3>2, OutcomeFacts, PlansFacts DEF Working
  <2>2. Working([Begins(v, "count") EXCEPT !.attempts = row[v].attempts,
                                           !.code = code])
    <3>1. Begins(v, "count") \in Request /\ Begins(v, "count").v = v
      BY BeginsFacts DEF Steps
    <3>2. row[v].attempts \in Nat /\ code \in Nat
      BY BoundsAssumption DEF Row
    <3>3. row[v].state # "ABSENT"
      BY <1>2 DEF SubmitOtp
    <3>4. QED
      BY <3>1, <3>2, <3>3 DEF Request, Working
  <2>3. QED
    BY <1>2, <2>1, <2>2, <1>enter DEF SubmitOtp
<1>3. ASSUME NEW v \in Verifs, RequestOtp(h, v)
      PROVE  /\ req' = [req EXCEPT ![h] = req'[h]]
             /\ Working(req'[h])
  <2>1. Working(Begins(v, "stamp"))
    BY <1>3, BeginsFacts DEF Steps, Working, RequestOtp
  <2>2. QED
    BY <1>3, <2>1, <1>enter DEF RequestOtp
<1>4. CASE CountAttempt(h)
  <2> DEFINE n == req[h].attempts + 1
             counted == [req[h] EXCEPT !.attempts = n]
  <2>1. /\ n \in Nat /\ counted \in Request
        /\ counted.v = req[h].v
    BY <1>0 DEF Request
  <2>2. row[req[h].v].state # "ABSENT" /\ req[h].v \in Verifs
    BY <1>4 DEF CountAttempt, RequestInv
  <2>3. Working(Plans(counted, Escalate, FALSE))
    <3> HIDE DEF counted
    <3> QED  BY <2>1, <2>2, OutcomeFacts, PlansFacts DEF Working
  <2>4. Working([req[h] EXCEPT !.attempts = n, !.pc = "compare"])
    BY <1>0, <2>1, <2>2 DEF Request, Steps, Working
  <2>5. QED
    BY <1>4, <2>3, <2>4, <1>enter DEF CountAttempt
<1>5. CASE OtpMissing(h)
  BY <1>5, <1>0, <1>enter DEF OtpMissing, Return
<1>6. CASE CompareOtp(h)
  <2>1. row[req[h].v].state # "ABSENT" /\ req[h].v \in Verifs
    BY <1>6 DEF CompareOtp, RequestInv
  <2>2. Working(Plans(req[h], Approve, TRUE)) /\ Working(Plans(req[h], Escalate, TRUE))
    BY <1>0, <2>1, OutcomeFacts, PlansFacts DEF Working
  <2>3. \/ Enter(h, Plans(req[h], Approve, TRUE))
        \/ Enter(h, Plans(req[h], Escalate, TRUE))
        \/ Enter(h, Idle)
    BY <1>6 DEF CompareOtp, Return
  <2>4. QED
    BY <1>0, <2>2, <2>3, <1>enter
<1>7. CASE Flush(h)
  <2> DEFINE r == [req[h] EXCEPT !.seen = status,
                                 !.pc = IF req[h].deletes THEN "unlink"
                                                          ELSE "commit"]
  <2>1. r \in Request /\ r.v = req[h].v
    BY <1>0 DEF Request, Steps
  <2>2. Working(r)
    BY <1>7, <2>1 DEF Working, Flush, RequestInv
  <2>3. QED
    BY <1>7, <2>2, <1>enter DEF Flush
<1>8. CASE DeleteOtp(h)
  <2> DEFINE r == [req[h] EXCEPT !.pc = "commit"]
  <2>1. r \in Request /\ r.v = req[h].v
    BY <1>0 DEF Request, Steps
  <2>2. Working(r)
    BY <1>8, <2>1 DEF Working, DeleteOtp, RequestInv
  <2>3. QED
    BY <1>8, <2>2, <1>enter DEF DeleteOtp
<1>9. CASE Commit(h)
  BY <1>9, <1>0, <1>enter DEF Commit, Return
<1>10. CASE StampDelivery(h)
  <2> DEFINE r == [req[h] EXCEPT !.pc = "store", !.code = issued[req[h].v] + 1]
  <2>1. row[req[h].v].state # "ABSENT" /\ req[h].v \in Verifs
    BY <1>10 DEF StampDelivery, RequestInv
  <2>2. r \in Request /\ r.v = req[h].v
    <3>1. issued[req[h].v] + 1 \in Nat
      BY <2>1
    <3>2. QED
      BY <1>0, <3>1 DEF Request, Steps
  <2>3. Working(r)
    BY <2>1, <2>2 DEF Working
  <2>4. QED
    BY <1>10, <2>3, <1>enter DEF StampDelivery
<1>11. CASE StoreOtp(h)
  BY <1>11, <1>0, <1>enter DEF StoreOtp, Return
<1>12. CASE Abort(h)
  BY <1>12, <1>0, <1>enter DEF Abort, Return
<1>13. QED
  BY <1>1, <1>2, <1>3, <1>4, <1>5, <1>6, <1>7, <1>8, <1>9, <1>10, <1>11, <1>12
     DEF Starts, Continues

(* How a step changes the rows: they keep their type, and none goes away. *)
LEMMA RowStep ==
    ASSUME TypeOK, RequestInv, [Next]_vars
    PROVE  /\ row' \in [Verifs -> Row]
           /\ \A v \in Verifs : row[v].state # "ABSENT" => row'[v].state # "ABSENT"
           /\ \A v \in Verifs : Settled(v) => Settled(v)'
<1> USE DEF TypeOK
<1> DEFINE Goal == /\ row' \in [Verifs -> Row]
                   /\ \A v \in Verifs :
                        row[v].state # "ABSENT" => row'[v].state # "ABSENT"
                   /\ \A v \in Verifs :
                        row[v].state \in Terminal => row'[v].state \in Terminal
<1>0. ASSUME NEW v \in Verifs, NEW r \in Row, row' = [row EXCEPT ![v] = r],
             row[v].state # "ABSENT" => r.state # "ABSENT",
             row[v].state \in Terminal => r.state \in Terminal
      PROVE  Goal
  BY <1>0
<1>00. ASSUME UNCHANGED row
       PROVE  Goal
  BY <1>00
<1>1. ASSUME NEW v \in Verifs, CreateVerification(v)
      PROVE  Goal
  <2>1. [row[v] EXCEPT !.state = "PENDING"] \in Row
    BY DEF Row, States
  <2>2. row' = [row EXCEPT ![v] = [row[v] EXCEPT !.state = "PENDING"]]
    BY <1>1 DEF CreateVerification
  <2>3. [row[v] EXCEPT !.state = "PENDING"].state = "PENDING"
    BY DEF Row
  <2>4. row[v].state = "ABSENT"
    BY <1>1 DEF CreateVerification
  <2>5. QED
    BY <2>1, <2>2, <2>3, <2>4, <1>0 DEF Terminal
<1>2. ASSUME NEW v \in Verifs, NEW d \in {"future", "past"},
             row' = [row EXCEPT ![v].deadline = d]
      PROVE  Goal
  <2>1. /\ [row[v] EXCEPT !.deadline = d] \in Row
        /\ [row[v] EXCEPT !.deadline = d].state = row[v].state
    BY DEF Row
  <2>2. row' = [row EXCEPT ![v] = [row[v] EXCEPT !.deadline = d]]
    BY <1>2
  <2>3. QED
    BY <2>1, <2>2, <1>0
<1>3. ASSUME NEW h \in Handlers, CountAttempt(h)
      PROVE  Goal
  <2> DEFINE v == req[h].v
             n == req[h].attempts + 1
  <2>1. v \in Verifs
    BY <1>3 DEF CountAttempt, RequestInv
  <2>2. n \in Nat
    BY DEF Request
  <2>3. /\ [row[v] EXCEPT !.attempts = n] \in Row
        /\ [row[v] EXCEPT !.attempts = n].state = row[v].state
    BY <2>1, <2>2 DEF Row
  <2>4. row' = [row EXCEPT ![v] = [row[v] EXCEPT !.attempts = n]]
    BY <1>3 DEF CountAttempt
  <2>5. QED
    <3> HIDE DEF v, n
    <3> QED  BY <2>1, <2>3, <2>4, <1>0
<1>4. ASSUME NEW h \in Handlers, Commit(h)
      PROVE  Goal
  <2> DEFINE v == req[h].v
             s == req[h].plan.to
             r == [row[v] EXCEPT !.state = s, !.stamps = @ \union {s}]
  <2>1. v \in Verifs
    BY <1>4 DEF Commit, RequestInv
  <2>2. s \in Terminal
    BY OutcomeFacts DEF Request
  <2>3. r \in Row /\ r.state = s
    <3> HIDE DEF v, s
    <3> QED  BY <2>1, <2>2 DEF Row, States
  <2>4. row' = [row EXCEPT ![v] = r]
    BY <1>4 DEF Commit
  <2>5. QED
    <3> HIDE DEF v, s, r
    <3> QED  BY <2>1, <2>2, <2>3, <2>4, <1>0 DEF Terminal
<1> HIDE DEF Goal
<1>5. ASSUME Environment
      PROVE  Goal
  BY <1>5, <1>00, <1>1, <1>2 DEF Environment, DeadlinePasses, OtpKeyGone
<1>6. ASSUME NEW h \in Handlers, Starts(h) \/ Abort(h)
      PROVE  Goal
  <2>1. UNCHANGED row
    BY <1>6 DEF Starts, Review, SubmitOtp, RequestOtp, Abort
  <2>2. QED
    BY <2>1, <1>00
<1>7. ASSUME NEW h \in Handlers, StampDelivery(h)
      PROVE  Goal
  BY <1>7, <1>2 DEF StampDelivery, RequestInv
<1>8. ASSUME NEW h \in Handlers, Continues(h)
      PROVE  Goal
  <2>1. CASE CountAttempt(h) \/ Commit(h) \/ StampDelivery(h)
    BY <2>1, <1>3, <1>4, <1>7
  <2>2. CASE ~(CountAttempt(h) \/ Commit(h) \/ StampDelivery(h))
    <3>1. UNCHANGED row
      BY <1>8, <2>2 DEF Continues, OtpMissing, CompareOtp, Flush, DeleteOtp, StoreOtp
    <3>2. QED
      BY <3>1, <1>00
  <2>3. QED
    BY <2>1, <2>2
<1>9. ASSUME UNCHANGED vars
      PROVE  Goal
  BY <1>9, <1>00 DEF vars
<1>10. Goal
  BY <1>5, <1>6, <1>8, <1>9 DEF Next
<1>11. QED
  BY <1>10 DEF Settled, Goal

(* Types and the requests' rows are preserved together. *)
LEMMA TypeStep ==
    TypeOK /\ RequestInv /\ [Next]_vars => TypeOK' /\ RequestInv'
<1> SUFFICES ASSUME TypeOK, RequestInv, [Next]_vars
             PROVE  TypeOK' /\ RequestInv'
  OBVIOUS
<1>0. /\ row' \in [Verifs -> Row]
      /\ \A v \in Verifs : row[v].state # "ABSENT" => row'[v].state # "ABSENT"
  BY RowStep
<1>1. req' \in [Handlers -> Request] /\ RequestInv'
  <2>1. ASSUME NEW h \in Handlers, Starts(h) \/ Continues(h) \/ Abort(h)
        PROVE  req' \in [Handlers -> Request] /\ RequestInv'
    BY <1>0, <2>1, RequestStep DEF Working, RequestInv, TypeOK
  <2>2. ASSUME UNCHANGED req
        PROVE  req' \in [Handlers -> Request] /\ RequestInv'
    BY <1>0, <2>2 DEF RequestInv, TypeOK
  <2>3. CASE Environment
    BY <2>2, <2>3 DEF Environment, CreateVerification, DeadlinePasses, OtpKeyGone
  <2>4. CASE UNCHANGED vars
    BY <2>2, <2>4 DEF vars
  <2>5. QED
    BY <2>1, <2>3, <2>4 DEF Next
<1>2. /\ status' \in TxStatuses
      /\ rowLock' \in [Verifs -> Handlers \union {NoHandler}]
      /\ otp' \in [Verifs -> Nat]
      /\ issued' \in [Verifs -> Nat]
      /\ compared' \in [Verifs -> Nat]
      /\ aborts' \in Nat
  <2> DEFINE Goal == /\ status' \in TxStatuses
                     /\ rowLock' \in [Verifs -> Handlers \union {NoHandler}]
                     /\ otp' \in [Verifs -> Nat]
                     /\ issued' \in [Verifs -> Nat]
                     /\ compared' \in [Verifs -> Nat]
                     /\ aborts' \in Nat
  <2>1. CASE Environment
    BY <2>1 DEF Environment, CreateVerification, DeadlinePasses, OtpKeyGone, TypeOK
  <2>2. ASSUME NEW h \in Handlers, Starts(h) \/ CountAttempt(h) \/ OtpMissing(h)
        PROVE  Goal
    BY <2>2 DEF Starts, Review, SubmitOtp, RequestOtp, CountAttempt, OtpMissing, TypeOK
  <2>3. ASSUME NEW h \in Handlers, CompareOtp(h)
        PROVE  Goal
    <3>1. req[h].v \in Verifs
      BY <2>3 DEF CompareOtp, RequestInv
    <3>2. QED
      BY <2>3, <3>1 DEF CompareOtp, TypeOK
  <2>4. ASSUME NEW h \in Handlers, Flush(h)
        PROVE  Goal
    BY <2>4 DEF Flush, TypeOK
  <2>5. ASSUME NEW h \in Handlers, DeleteOtp(h)
        PROVE  Goal
    BY <2>5 DEF DeleteOtp, TypeOK
  <2>6. ASSUME NEW h \in Handlers, Commit(h)
        PROVE  Goal
    <3>1. req[h].plan.tx \in TxStatuses
      BY OutcomeFacts DEF TypeOK, Request
    <3>2. QED
      BY <2>6, <3>1 DEF Commit, TypeOK
  <2>7. ASSUME NEW h \in Handlers, StampDelivery(h)
        PROVE  Goal
    <3>1. req[h].v \in Verifs
      BY <2>7 DEF StampDelivery, RequestInv
    <3>2. QED
      BY <2>7, <3>1 DEF StampDelivery, TypeOK
  <2>8. ASSUME NEW h \in Handlers, StoreOtp(h)
        PROVE  Goal
    <3>1. req[h].code \in Nat
      BY DEF TypeOK, Request
    <3>2. QED
      BY <2>8, <3>1 DEF StoreOtp, TypeOK
  <2>9. ASSUME NEW h \in Handlers, Abort(h)
        PROVE  Goal
    BY <2>9 DEF Abort, TypeOK
  <2>10. CASE UNCHANGED vars
    BY <2>10 DEF vars, TypeOK
  <2>11. QED
    <3> HIDE DEF Goal
    <3>1. Goal
      BY <2>2, <2>3, <2>4, <2>5, <2>6, <2>7, <2>8, <2>9, <2>1, <2>10
         DEF Next, Continues, Goal
    <3>2. QED
      BY <3>1 DEF Goal
<1>3. QED
  BY <1>0, <1>1, <1>2 DEF TypeOK

(* The initial state satisfies the inductive invariant. *)
LEMMA InitInv == Init => IInv
<1> SUFFICES ASSUME Init PROVE IInv
  OBVIOUS
<1>1. TypeOK
  BY BoundsAssumption, IdleFacts DEF Init, TypeOK, Row, States, TxStatuses
<1>2. RequestInv /\ LockInv /\ Untouched
  BY IdleFacts DEF Init, RequestInv, LockInv, Untouched, Writing, Settled, Terminal
<1>3. QED
  BY <1>1, <1>2 DEF IInv, StatusInv

(* Every reachable state has the declared types. *)
THEOREM TypeCorrect == Spec => []TypeOK
<1>1. Init => TypeOK /\ RequestInv
  BY InitInv DEF IInv
<1>2. QED
  BY <1>1, TypeStep, PTL DEF Spec

(* A settled verification is never pending again. *)
THEOREM NeverReopens == Spec => NeverReopened
<1>1. TypeOK /\ RequestInv /\ [Next]_vars
        => [\A v \in Verifs : Settled(v) => Settled(v)']_vars
  BY RowStep
<1>2. Init => TypeOK /\ RequestInv
  BY InitInv DEF IInv
<1>3. QED
  BY <1>1, <1>2, TypeStep, PTL DEF Spec, NeverReopened

(* Whose row a handler's step leaves it at: the one it was working on, one *)
(* that is pending, or none.                                               *)
LEMMA RequestRow ==
    ASSUME TypeOK, RequestInv, NEW h \in Handlers,
           Starts(h) \/ Continues(h) \/ Abort(h)
    PROVE  \/ req'[h].v = req[h].v
           \/ req'[h].v = NoVerif
           \/ req'[h].v \in Verifs /\ row[req'[h].v].state = "PENDING"
<1> USE DEF TypeOK
<1>0. /\ req[h] \in Request /\ req \in [Handlers -> Request]
      /\ Idle \in Request /\ Idle.v = NoVerif
  BY IdleFacts DEF Idle
<1>enter. ASSUME NEW r, Enter(h, r)
          PROVE  req'[h] = r
  BY <1>0, <1>enter DEF Enter
<1>1. ASSUME NEW v \in Verifs, NEW outcome \in {Approve, Reject, Escalate}, Review(h, v, outcome)
      PROVE  req'[h].v \in Verifs /\ row[req'[h].v].state = "PENDING"
  <2>1. Begins(v, "flush") \in Request /\ Begins(v, "flush").v = v
    BY BeginsFacts DEF Steps
  <2>2. outcome \in Outcomes
    BY OutcomeFacts
  <2>3. Plans(Begins(v, "flush"), outcome, TRUE).v = v
    BY <2>1, <2>2, PlansFacts
  <2>4. req'[h] = Plans(Begins(v, "flush"), outcome, TRUE)
    BY <1>1, <1>enter DEF Review
  <2>5. QED
    BY <1>1, <2>3, <2>4 DEF Review
<1>2. ASSUME NEW v \in Verifs, NEW code, SubmitOtp(h, v, code)
      PROVE  req'[h].v \in Verifs /\ row[req'[h].v].state = "PENDING"
  <2>1. /\ Begins(v, "flush") \in Request /\ Begins(v, "flush").v = v
        /\ Begins(v, "count") \in Request /\ Begins(v, "count").v = v
    BY BeginsFacts DEF Steps
  <2>2. /\ Plans(Begins(v, "flush"), Expire, TRUE).v = v
        /\ [Begins(v, "count") EXCEPT !.attempts = row[v].attempts, !.code = code].v = v
    BY <2>1, OutcomeFacts, PlansFacts DEF Request
  <2>3. \/ req'[h] = Plans(Begins(v, "flush"), Expire, TRUE)
        \/ req'[h] = [Begins(v, "count") EXCEPT !.attempts = row[v].attempts, !.code = code]
    BY <1>2, <1>enter DEF SubmitOtp
  <2>4. QED
    BY <1>2, <2>2, <2>3 DEF SubmitOtp
<1>3. ASSUME NEW v \in Verifs, RequestOtp(h, v)
      PROVE  req'[h].v \in Verifs /\ row[req'[h].v].state = "PENDING"
  BY <1>3, <1>0 DEF RequestOtp, Enter, Begins, Idle
<1>4. CASE CountAttempt(h) \/ CompareOtp(h)
  <2> DEFINE n == req[h].attempts + 1
             counted == [req[h] EXCEPT !.attempts = n]
  <2>1. /\ n \in Nat /\ counted \in Request /\ counted.v = req[h].v
        /\ [req[h] EXCEPT !.attempts = n, !.pc = "compare"].v = req[h].v
    BY <1>0 DEF Request
  <2>2. /\ Plans(counted, Escalate, FALSE).v = req[h].v
        /\ Plans(req[h], Approve, TRUE).v = req[h].v
        /\ Plans(req[h], Escalate, TRUE).v = req[h].v
    <3> HIDE DEF counted
    <3> QED  BY <1>0, <2>1, OutcomeFacts, PlansFacts
  <2>3. \/ req'[h] \in {Plans(counted, Escalate, FALSE), Plans(req[h], Approve, TRUE),
                        Plans(req[h], Escalate, TRUE), Idle}
        \/ req'[h] = [req[h] EXCEPT !.attempts = n, !.pc = "compare"]
    BY <1>4, <1>enter DEF CountAttempt, CompareOtp, Return
  <2>4. QED
    BY <1>0, <2>1, <2>2, <2>3
<1>5. CASE OtpMissing(h) \/ Commit(h) \/ StoreOtp(h) \/ Abort(h)
  BY <1>0, <1>5, <1>enter DEF OtpMissing, Commit, StoreOtp, Abort, Return
<1>6. CASE Flush(h)
  <2>1. PICK s, pc : req'[h] = [req[h] EXCEPT !.seen = s, !.pc = pc]
    BY <1>6, <1>enter DEF Flush
  <2>2. QED
    BY <1>0, <2>1 DEF Request
<1>7. CASE DeleteOtp(h)
  BY <1>0, <1>7, <1>enter DEF DeleteOtp, Request
<1>8. CASE StampDelivery(h)
  BY <1>0, <1>8, <1>enter DEF StampDelivery, Request
<1>9. QED
  BY <1>1, <1>2, <1>3, <1>4, <1>5, <1>6, <1>7, <1>8 DEF Starts, Continues

(* A settled row nobody is working on keeps its state, and nobody begins   *)
(* to work on it.                                                          *)
LEMMA UnattendedStep ==
    ASSUME TypeOK, RequestInv, [Next]_vars, NEW v \in Verifs, Settled(v), Unattended(v)
    PROVE  row'[v].state = row[v].state /\ Unattended(v)'
<1> USE DEF TypeOK
<1>0. row[v].state \notin {"ABSENT", "PENDING"} /\ row[v] \in Row /\ v # NoVerif
  BY VerifsAssumption DEF Settled, Terminal
<1>1. ASSUME NEW h \in Handlers, Starts(h) \/ Continues(h) \/ Abort(h)
      PROVE  row'[v].state = row[v].state /\ Unattended(v)'
  <2>1. req' = [req EXCEPT ![h] = req'[h]] /\ req'[h].v # v
    BY <1>0, <1>1, RequestStep, RequestRow DEF Unattended
  <2>2. Unattended(v)'
    BY <2>1 DEF Unattended
  <2>3. row'[v] = row[v]
    <3>1. CASE CountAttempt(h) \/ Commit(h) \/ StampDelivery(h)
      BY <3>1 DEF CountAttempt, Commit, StampDelivery, Unattended
    <3>2. CASE ~(CountAttempt(h) \/ Commit(h) \/ StampDelivery(h))
      BY <1>1, <3>2 DEF Starts, Review, SubmitOtp, RequestOtp, Abort, Continues,
         OtpMissing, CompareOtp, Flush, DeleteOtp, StoreOtp
    <3>3. QED
      BY <3>1, <3>2
  <2>4. QED
    BY <2>2, <2>3
<1>2. ASSUME Environment
      PROVE  row'[v].state = row[v].state /\ Unattended(v)'
  <2>1. Unattended(v)'
    BY <1>2 DEF Environment, CreateVerification, DeadlinePasses, OtpKeyGone, Unattended
  <2>2. ASSUME NEW w \in Verifs, CreateVerification(w)
        PROVE  row'[v].state = row[v].state
    BY <1>0, <2>2 DEF CreateVerification
  <2>3. ASSUME NEW w \in Verifs, DeadlinePasses(w)
        PROVE  row'[v].state = row[v].state
    <3>1. row' = [row EXCEPT ![w] = [row[w] EXCEPT !.deadline = "past"]]
      BY <2>3 DEF DeadlinePasses
    <3>2. [row[w] EXCEPT !.deadline = "past"].state = row[w].state
      BY DEF Row
    <3>3. QED
      BY <3>1, <3>2
  <2>4. ASSUME NEW w \in Verifs, OtpKeyGone(w)
        PROVE  row'[v].state = row[v].state
    BY <2>4 DEF OtpKeyGone
  <2>5. QED
    BY <1>2, <2>1, <2>2, <2>3, <2>4 DEF Environment
<1>3. CASE UNCHANGED vars
  BY <1>3 DEF vars, Unattended
<1>4. QED
  BY <1>1, <1>2, <1>3 DEF Next

(* A terminal state no request in flight can still replace is final.       *)
THEOREM FinalUnattended == Spec => FinalOnceUnattended
<1>1. TypeOK /\ RequestInv /\ [Next]_vars
        => [\A v \in Verifs : Settled(v) /\ Unattended(v) =>
              row'[v].state = row[v].state /\ Unattended(v)']_vars
  BY UnattendedStep
<1>2. Init => TypeOK /\ RequestInv
  BY InitInv DEF IInv
<1>3. QED
  BY <1>1, <1>2, TypeStep, PTL DEF Spec, FinalOnceUnattended

-----------------------------------------------------------------------------
(* StatusAgrees. *)

(* The steps of a request before its flush, and those of a delivery, move  *)
(* it between steps that hold no lock and leave the states, the status and *)
(* the locks alone.                                                        *)
Quiet(h) ==
    \/ Starts(h) \/ CountAttempt(h) \/ OtpMissing(h) \/ CompareOtp(h)
    \/ StampDelivery(h) \/ StoreOtp(h)

(* A quiet step leaves locks, status and every row's state alone, and its  *)
(* handler is writing neither before nor after it.                         *)
LEMMA QuietStep ==
    ASSUME TypeOK, RequestInv, NEW h \in Handlers, Quiet(h)
    PROVE  /\ req[h].pc \notin Writing
           /\ req'[h].pc \notin Writing
           /\ UNCHANGED <<rowLock, status>>
           /\ \A v \in Verifs : row'[v].state = row[v].state
<1> USE DEF TypeOK
<1>0. req[h] \in Request /\ req \in [Handlers -> Request] /\ Idle.pc = "idle"
  BY IdleFacts
<1>1. UNCHANGED <<rowLock, status>>
  BY DEF Quiet, Starts, Review, SubmitOtp, RequestOtp, CountAttempt, OtpMissing,
         CompareOtp, StampDelivery, StoreOtp
<1>2. req[h].pc \notin Writing
  BY DEF Quiet, Starts, Review, SubmitOtp, RequestOtp, CountAttempt, OtpMissing,
         CompareOtp, StampDelivery, StoreOtp, Writing
<1>3. \A v \in Verifs : row'[v].state = row[v].state
  <2>1. CASE CountAttempt(h) \/ StampDelivery(h)
    <3>1. PICK w \in Verifs : w = req[h].v
      BY <2>1 DEF CountAttempt, StampDelivery, RequestInv
    <3>2. PICK n, d : row' \in {[row EXCEPT ![w] = [row[w] EXCEPT !.attempts = n]],
                                [row EXCEPT ![w] = [row[w] EXCEPT !.deadline = d]]}
      BY <2>1, <3>1 DEF CountAttempt, StampDelivery
    <3>3. /\ [row[w] EXCEPT !.attempts = n].state = row[w].state
          /\ [row[w] EXCEPT !.deadline = d].state = row[w].state
      BY DEF Row
    <3>4. QED
      BY <3>2, <3>3
  <2>2. CASE Starts(h) \/ OtpMissing(h) \/ CompareOtp(h) \/ StoreOtp(h)
    BY <2>2 DEF Starts, Review, SubmitOtp, RequestOtp, OtpMissing, CompareOtp, StoreOtp
  <2>3. QED
    BY <2>1, <2>2 DEF Quiet
<1>4. req'[h].pc \notin Writing
  <2>1. ASSUME NEW v \in Verifs, NEW outcome, Review(h, v, outcome)
        PROVE  req'[h].pc \notin Writing
    BY <2>1, <1>0 DEF Review, Enter, Plans, Begins, Idle, Writing
  <2>2. ASSUME NEW v \in Verifs, NEW code, SubmitOtp(h, v, code)
        PROVE  req'[h].pc \notin Writing
    BY <2>2, <1>0 DEF SubmitOtp, Enter, Plans, Begins, Idle, Writing
  <2>3. ASSUME NEW v \in Verifs, RequestOtp(h, v)
        PROVE  req'[h].pc \notin Writing
    BY <2>3, <1>0 DEF RequestOtp, Enter, Begins, Idle, Writing
  <2>4. CASE CountAttempt(h)
    <3> DEFINE n == req[h].attempts + 1
               counted == [req[h] EXCEPT !.attempts = n]
    <3>1. counted \in Request
      BY <1>0 DEF Request
    <3>2. Plans(counted, Escalate, FALSE).pc = "flush"
      <4> HIDE DEF counted
      <4> QED  BY <3>1, OutcomeFacts, PlansFacts
    <3>3. [req[h] EXCEPT !.attempts = n, !.pc = "compare"].pc = "compare"
      BY <1>0 DEF Request
    <3>4. \/ req'[h] = Plans(counted, Escalate, FALSE)
          \/ req'[h] = [req[h] EXCEPT !.attempts = n, !.pc = "compare"]
      BY <2>4, <1>0 DEF CountAttempt, Enter
    <3>5. QED
      BY <3>2, <3>3, <3>4 DEF Writing
  <2>5. CASE CompareOtp(h)
    <3>1. /\ Plans(req[h], Approve, TRUE).pc = "flush"
          /\ Plans(req[h], Escalate, TRUE).pc = "flush"
      BY <1>0, OutcomeFacts, PlansFacts
    <3>2. req'[h] \in {Plans(req[h], Approve, TRUE), Plans(req[h], Escalate, TRUE), Idle}
      BY <2>5, <1>0 DEF CompareOtp, Return, Enter
    <3>3. QED
      BY <3>1, <3>2, <1>0 DEF Writing
  <2>6. CASE OtpMissing(h) \/ StoreOtp(h)
    BY <2>6, <1>0 DEF OtpMissing, StoreOtp, Return, Enter, Writing
  <2>7. CASE StampDelivery(h)
    BY <2>7, <1>0 DEF StampDelivery, Enter, Request, Writing
  <2>8. QED
    BY <2>1, <2>2, <2>3, <2>4, <2>5, <2>6, <2>7 DEF Quiet, Starts
<1>5. QED
  BY <1>1, <1>2, <1>3, <1>4

(* What the environment's steps and stuttering leave alone. *)
LEMMA OutsideStep ==
    ASSUME TypeOK, Environment \/ UNCHANGED vars
    PROVE  /\ UNCHANGED <<rowLock, status, req>>
           /\ \A v \in Verifs : Settled(v) \/ Settled(v)'
                => row'[v].state = row[v].state
  BY DEF Environment, CreateVerification, DeadlinePasses, OtpKeyGone, vars,
         TypeOK, Row, Settled, Terminal

(* What the three writing steps do to their request and to the lock. *)
LEMMA FlushStep ==
    ASSUME TypeOK, RequestInv, NEW h \in Handlers, Flush(h)
    PROVE  /\ req'[h].pc \in Writing
           /\ req'[h].v = req[h].v /\ req'[h].plan = req[h].plan
           /\ req'[h].seen = status
           /\ req[h].pc \notin Writing
           /\ req[h].v \in Verifs
           /\ rowLock[req[h].v] = NoHandler
           /\ rowLock' = [rowLock EXCEPT ![req[h].v] = h]
           /\ UNCHANGED <<row, status>>
  BY DEF Flush, Enter, TypeOK, Request, Writing, RequestInv, Unlocked

(* Deleting the OTP is a step between flush and commit: only the program   *)
(* counter of the request moves.                                           *)
LEMMA DeleteStep ==
    ASSUME TypeOK, NEW h \in Handlers, DeleteOtp(h)
    PROVE  /\ req'[h].pc \in Writing /\ req[h].pc \in Writing
           /\ req'[h].v = req[h].v /\ req'[h].plan = req[h].plan
           /\ req'[h].seen = req[h].seen
           /\ UNCHANGED <<row, status, rowLock>>
  BY DEF DeleteOtp, Enter, TypeOK, Request, Writing

(* A commit ends the writing, releases the locks the handler held, and     *)
(* settles the row it had locked together with its transaction.            *)
LEMMA CommitStep ==
    ASSUME TypeOK, RequestInv, NEW h \in Handlers, Commit(h)
    PROVE  /\ req'[h].pc \notin Writing
           /\ req[h].pc \in Writing
           /\ req[h].v \in Verifs
           /\ req[h].plan \in Outcomes
           /\ rowLock' = [rowLock EXCEPT ![req[h].v] = NoHandler]
           /\ row'[req[h].v].state = req[h].plan.to
           /\ \A v \in Verifs : v # req[h].v => row'[v] = row[v]
           /\ status' = IF req[h].seen = req[h].plan.tx THEN status
                                                        ELSE req[h].plan.tx
<1> USE DEF TypeOK
<1>1. req'[h] = Idle
  BY DEF Commit, Return, Enter
<1>2. req[h].v \in Verifs
  BY DEF Commit, RequestInv
<1>3. /\ row'[req[h].v].state = req[h].plan.to
      /\ \A v \in Verifs : v # req[h].v => row'[v] = row[v]
  BY <1>2 DEF Commit, Row
<1>4. QED
  BY <1>1, <1>2, <1>3, IdleFacts DEF Commit, Writing, Request

(* An abort writes nothing and releases the handler's locks. *)
LEMMA AbortStep ==
    ASSUME TypeOK, NEW h \in Handlers, Abort(h)
    PROVE  /\ req'[h].pc \notin Writing
           /\ rowLock' = [v \in Verifs |-> IF rowLock[v] = h THEN NoHandler
                                                             ELSE rowLock[v]]
           /\ UNCHANGED <<row, status>>
  BY IdleFacts DEF TypeOK, Abort, Return, Enter, Writing

(* The lock is held exactly by the request that is writing. *)
LEMMA LockStep ==
    TypeOK /\ RequestInv /\ LockInv /\ [Next]_vars => LockInv'
<1> SUFFICES ASSUME TypeOK, RequestInv, LockInv, [Next]_vars PROVE LockInv'
  OBVIOUS
<1>1. CASE Environment \/ UNCHANGED vars
  BY <1>1, OutsideStep DEF LockInv
<1>2. ASSUME NEW h \in Handlers, Starts(h) \/ Continues(h) \/ Abort(h)
      PROVE  LockInv'
  <2>0. req' = [req EXCEPT ![h] = req'[h]]
    BY <1>2, RequestStep
  <2>other. \A k \in Handlers \ {h} : req'[k] = req[k]
    BY <2>0 DEF TypeOK
  <2>1. CASE Quiet(h)
    BY <2>1, <2>other, QuietStep, HandlersAssumption DEF LockInv, TypeOK
  <2>2. CASE Flush(h)
    <3>1. PICK w \in Verifs : w = req[h].v
      BY <2>2, FlushStep
    <3>2. /\ rowLock[w] = NoHandler
          /\ rowLock' = [rowLock EXCEPT ![w] = h]
          /\ req'[h].pc \in Writing /\ req'[h].v = w
      BY <2>2, <3>1, FlushStep
    <3>3. ASSUME NEW k \in Handlers, req'[k].pc \in Writing
          PROVE  rowLock'[req'[k].v] = k
      <4>1. CASE k = h
        BY <3>2, <4>1 DEF TypeOK
      <4>2. CASE k # h
        <5>1. rowLock[req[k].v] = k /\ req[k].v \in Verifs /\ req'[k] = req[k]
          BY <3>3, <4>2, <2>other DEF LockInv, RequestInv, Writing
        <5>2. req[k].v # w
          BY <3>2, <5>1, HandlersAssumption
        <5>3. QED
          BY <3>2, <5>1, <5>2 DEF TypeOK
      <4>3. QED
        BY <4>1, <4>2
    <3>4. ASSUME NEW v \in Verifs, rowLock'[v] # NoHandler
          PROVE  req'[rowLock'[v]].pc \in Writing /\ req'[rowLock'[v]].v = v
      <4>1. CASE v = w
        BY <3>2, <4>1 DEF TypeOK
      <4>2. CASE v # w
        <5>1. rowLock'[v] = rowLock[v] /\ rowLock[v] \in Handlers
          BY <3>2, <3>4, <4>2 DEF TypeOK
        <5>2. rowLock[v] # h
          BY <2>2, <3>4, <5>1, FlushStep DEF LockInv
        <5>3. QED
          BY <3>4, <5>1, <5>2, <2>other DEF LockInv
      <4>3. QED
        BY <4>1, <4>2
    <3>5. QED
      BY <3>3, <3>4 DEF LockInv
  <2>3. CASE DeleteOtp(h)
    BY <2>3, <2>other, DeleteStep, HandlersAssumption DEF LockInv, TypeOK
  <2>4. CASE Commit(h)
    <3>1. PICK w \in Verifs : w = req[h].v
      BY <2>4, CommitStep
    <3>2. /\ rowLock' = [rowLock EXCEPT ![w] = NoHandler]
          /\ rowLock[w] = h
          /\ req'[h].pc \notin Writing
      BY <2>4, <3>1, CommitStep DEF LockInv
    <3>3. ASSUME NEW k \in Handlers, req'[k].pc \in Writing
          PROVE  rowLock'[req'[k].v] = k
      <4>1. k # h /\ req'[k] = req[k]
        BY <3>2, <3>3, <2>other
      <4>2. req[k].v \in Verifs /\ rowLock[req[k].v] = k
        BY <3>3, <4>1 DEF LockInv, RequestInv, Writing
      <4>3. QED
        BY <3>2, <4>1, <4>2 DEF TypeOK
    <3>4. ASSUME NEW v \in Verifs, rowLock'[v] # NoHandler
          PROVE  req'[rowLock'[v]].pc \in Writing /\ req'[rowLock'[v]].v = v
      <4>1. v # w /\ rowLock'[v] = rowLock[v] /\ rowLock[v] \in Handlers
        BY <3>2, <3>4 DEF TypeOK
      <4>2. rowLock[v] # h
        BY <3>1, <3>4, <4>1 DEF LockInv
      <4>3. QED
        BY <3>4, <4>1, <4>2, <2>other DEF LockInv
    <3>5. QED
      BY <3>3, <3>4 DEF LockInv
  <2>5. CASE Abort(h)
    <3>1. ASSUME NEW k \in Handlers, req'[k].pc \in Writing
          PROVE  rowLock'[req'[k].v] = k
      <4>1. k # h /\ req'[k] = req[k]
        BY <2>5, <3>1, <2>other, AbortStep
      <4>2. req[k].v \in Verifs /\ rowLock[req[k].v] = k
        BY <3>1, <4>1 DEF LockInv, RequestInv, Writing
      <4>3. QED
        BY <2>5, <4>1, <4>2, AbortStep
    <3>2. ASSUME NEW v \in Verifs, rowLock'[v] # NoHandler
          PROVE  req'[rowLock'[v]].pc \in Writing /\ req'[rowLock'[v]].v = v
      <4>1. rowLock'[v] = rowLock[v] /\ rowLock[v] \in Handlers \ {h}
        BY <2>5, <3>2, AbortStep DEF TypeOK
      <4>2. QED
        BY <3>2, <4>1, <2>other DEF LockInv
    <3>3. QED
      BY <3>1, <3>2 DEF LockInv
  <2>6. QED
    BY <1>2, <2>1, <2>2, <2>3, <2>4, <2>5 DEF Continues, Quiet
<1>3. QED
  BY <1>1, <1>2 DEF Next

(* Some settled row accounts for the status. *)
LEMMA StatusStep ==
    IInv /\ [Next]_vars => StatusInv'
<1> SUFFICES ASSUME IInv, [Next]_vars PROVE StatusInv'
  OBVIOUS
<1> USE DEF IInv
<1>1. CASE Environment \/ UNCHANGED vars
  <2>1. ASSUME Untouched PROVE Untouched'
    BY <1>1, <2>1, OutsideStep DEF Untouched, Settled
  <2>2. ASSUME NEW v \in Verifs, Accounts(v) PROVE Accounts(v)'
    <3>1. Settled(v)
      BY <2>2, OutcomeFacts DEF Accounts, Settled
    <3>2. QED
      BY <1>1, <2>2, <3>1, OutsideStep DEF Accounts
  <2>3. QED
    BY <2>1, <2>2 DEF StatusInv
<1>2. ASSUME NEW h \in Handlers, Starts(h) \/ Continues(h) \/ Abort(h)
      PROVE  StatusInv'
  <2>0. req' = [req EXCEPT ![h] = req'[h]]
    BY <1>2, RequestStep
  <2>other. \A k \in Handlers \ {h} : req'[k] = req[k]
    BY <2>0 DEF TypeOK
  <2>quiet. ASSUME UNCHANGED status,
                   \A v \in Verifs : row'[v].state = row[v].state,
                   \/ req'[h].pc \notin Writing
                   \/ req'[h].seen = status
                   \/ /\ req[h].pc \in Writing
                      /\ req'[h].v = req[h].v
                      /\ req'[h].plan = req[h].plan
                      /\ req'[h].seen = req[h].seen
            PROVE  StatusInv'
    <3>1. ASSUME Untouched PROVE Untouched'
      BY <2>quiet, <2>other, <3>1 DEF Untouched, Settled
    <3>2. ASSUME NEW v \in Verifs, Accounts(v) PROVE Accounts(v)'
      BY <2>quiet, <2>other, <3>2 DEF Accounts
    <3>3. QED
      BY <3>1, <3>2 DEF StatusInv
  <2>1. CASE Quiet(h)
    BY <2>1, <2>quiet, QuietStep
  <2>2. CASE Flush(h)
    BY <2>2, <2>quiet, FlushStep
  <2>3. CASE DeleteOtp(h)
    BY <2>3, <2>quiet, DeleteStep
  <2>4. CASE Commit(h)
    <3>0. PICK w \in Verifs, plan \in Outcomes : w = req[h].v /\ plan = req[h].plan
      BY <2>4, CommitStep
    <3>1. /\ row'[w].state = plan.to
          /\ \A v \in Verifs : v # w => row'[v] = row[v]
          /\ req'[h].pc \notin Writing
          /\ req[h].pc \in Writing
          /\ status' = IF req[h].seen = plan.tx THEN status ELSE plan.tx
      BY <2>4, <3>0, CommitStep
    \* Nobody else is writing w: they would hold its lock.
    <3>2. \A k \in Handlers : req'[k].pc \in Writing => req'[k].v # w
      BY <3>0, <3>1, <2>other DEF LockInv
    <3>3. ASSUME status' = plan.tx
          PROVE  Accounts(w)'
      <4>1. [to |-> plan.to, tx |-> plan.tx] \in Outcomes
        BY OutcomeFacts
      <4>2. QED
        BY <3>1, <3>2, <3>3, <4>1 DEF Accounts
    <3>4. CASE req[h].seen # plan.tx
      BY <3>1, <3>3, <3>4 DEF StatusInv
    <3>5. CASE req[h].seen = plan.tx
      <4>1. UNCHANGED status
        BY <3>1, <3>5
      <4>2. ~Untouched
        BY <3>1, <3>5, OutcomeFacts DEF Untouched
      <4>3. PICK v \in Verifs : Accounts(v)
        BY <4>2 DEF StatusInv
      <4>4. CASE v = w
        <5>1. status' = plan.tx
          BY <3>0, <3>1, <3>5, <4>1, <4>3, <4>4 DEF Accounts
        <5>2. QED
          BY <3>3, <5>1 DEF StatusInv
      <4>5. CASE v # w
        <5>1. Accounts(v)'
          BY <3>1, <4>1, <4>3, <4>5, <2>other DEF Accounts
        <5>2. QED
          BY <5>1 DEF StatusInv
      <4>6. QED
        BY <4>4, <4>5
    <3>6. QED
      BY <3>4, <3>5
  <2>5. CASE Abort(h)
    BY <2>5, <2>quiet, AbortStep
  <2>6. QED
    BY <1>2, <2>1, <2>2, <2>3, <2>4, <2>5 DEF Continues, Quiet
<1>3. QED
  BY <1>1, <1>2 DEF Next

(* The inductive invariant. *)
LEMMA Invariant == Spec => []IInv
<1>1. IInv /\ [Next]_vars => IInv'
  BY TypeStep, LockStep, StatusStep DEF IInv
<1>2. QED
  BY InitInv, <1>1, PTL DEF Spec

(* The transaction's status always is the outcome of one of its settled    *)
(* verifications.                                                          *)
THEOREM StatusAlwaysAgrees == Spec => []StatusAgrees
<1>1. IInv => StatusAgrees
  BY DEF IInv, StatusInv, Untouched, Accounts, StatusAgrees
<1>2. QED
  BY Invariant, <1>1, PTL

-----------------------------------------------------------------------------
(* Requests that do not overlap. *)

(* Requests that do not overlap: there is one handler. *)
SingleHandler == \A h, k \in Handlers : h = k

(* The serial invariant holds initially. *)
LEMMA SerialInit == Init => SerialInv
  BY IdleFacts, BoundsAssumption DEF Init, SerialInv, Writing

(* With one handler the invariant is kept by the environment's steps... *)
LEMMA SerialOutside ==
    ASSUME TypeOK, RequestInv, SerialInv, Environment \/ UNCHANGED vars
    PROVE  SerialInv'
<1> USE DEF TypeOK
<1>1. /\ UNCHANGED <<req, status, compared>>
      /\ \A v \in Verifs : /\ row'[v].attempts = row[v].attempts
                           /\ row[v].state = "PENDING" => row'[v].state = "PENDING"
  BY DEF Environment, CreateVerification, DeadlinePasses, OtpKeyGone, vars, Row
<1>2. QED
  BY <1>1 DEF SerialInv, RequestInv, Writing

(* ... and by those of the handler. *)
LEMMA SerialHandler ==
    ASSUME SingleHandler, TypeOK, RequestInv, SerialInv, NEW h \in Handlers,
           Starts(h) \/ Continues(h) \/ Abort(h)
    PROVE  SerialInv'
<1> USE DEF TypeOK
<1>0. /\ req \in [Handlers -> Request] /\ req[h] \in Request
      /\ Idle.pc = "idle"
      /\ \A k \in Handlers : k = h
  BY IdleFacts DEF SingleHandler
<1>same. ASSUME UNCHANGED <<status, compared>>,
                \A v \in Verifs : row'[v].attempts = row[v].attempts,
                \/ req'[h].pc = "idle"
                \/ /\ req'[h].v \in Verifs
                   /\ row'[req'[h].v].state = "PENDING"
                   /\ req'[h].pc \in Writing => req'[h].seen = status
                   /\ req'[h].pc = "count"
                        => req'[h].attempts = row[req'[h].v].attempts
                   /\ req'[h].pc # "compare"
         PROVE  SerialInv'
  BY <1>0, <1>same DEF SerialInv, Writing
<1>1. ASSUME NEW v \in Verifs, NEW outcome \in {Approve, Reject, Escalate},
             Review(h, v, outcome)
      PROVE  SerialInv'
  <2>1. Begins(v, "flush") \in Request /\ Begins(v, "flush").v = v
    BY BeginsFacts DEF Steps
  <2>2. req'[h].pc = "flush" /\ req'[h].v = v
    <3>1. outcome \in Outcomes
      BY OutcomeFacts
    <3>2. req'[h] = Plans(Begins(v, "flush"), outcome, TRUE)
      BY <1>0, <1>1 DEF Review, Enter
    <3>3. /\ Plans(Begins(v, "flush"), outcome, TRUE).pc = "flush"
          /\ Plans(Begins(v, "flush"), outcome, TRUE).v = Begins(v, "flush").v
      BY <2>1, <3>1, PlansFacts
    <3>4. QED
      BY <2>1, <3>2, <3>3
  <2>3. QED
    BY <1>1, <2>2, <1>same DEF Review, Writing
<1>2. ASSUME NEW v \in Verifs, NEW code, SubmitOtp(h, v, code)
      PROVE  SerialInv'
  <2>1. /\ Begins(v, "flush") \in Request /\ Begins(v, "flush").v = v
        /\ Begins(v, "count") \in Request /\ Begins(v, "count").v = v
        /\ Begins(v, "count").pc = "count"
    BY BeginsFacts DEF Steps
  <2>2. /\ Plans(Begins(v, "flush"), Expire, TRUE).pc = "flush"
        /\ Plans(Begins(v, "flush"), Expire, TRUE).v = v
    BY <2>1, OutcomeFacts, PlansFacts
  <2> DEFINE r == [Begins(v, "count") EXCEPT !.attempts = row[v].attempts,
                                             !.code = code]
  <2>3. r.pc = "count" /\ r.v = v /\ r.attempts = row[v].attempts
    BY <2>1 DEF Request
  <2>4. req'[h] \in {r, Plans(Begins(v, "flush"), Expire, TRUE)}
    BY <1>0, <1>2 DEF SubmitOtp, Enter
  <2>5. QED
    <3> HIDE DEF r
    <3> QED  BY <1>2, <2>2, <2>3, <2>4, <1>same DEF SubmitOtp, Writing
<1>3. ASSUME NEW v \in Verifs, RequestOtp(h, v)
      PROVE  SerialInv'
  <2>1. req'[h].pc = "stamp" /\ req'[h].v = v
    BY <1>0, <1>3, BeginsFacts DEF RequestOtp, Enter, Steps
  <2>2. QED
    BY <1>3, <2>1, <1>same DEF RequestOtp, Writing
<1>4. CASE CountAttempt(h)
  <2> DEFINE n == req[h].attempts + 1
             counted == [req[h] EXCEPT !.attempts = n]
             r == [req[h] EXCEPT !.attempts = n, !.pc = "compare"]
  <2>1. PICK v \in Verifs : v = req[h].v
    BY <1>4 DEF CountAttempt, RequestInv
  <2>2. n \in Nat /\ counted \in Request /\ counted.v = v
    BY <1>0, <2>1 DEF Request
  <2>3. /\ Plans(counted, Escalate, FALSE).pc = "flush"
        /\ Plans(counted, Escalate, FALSE).v = v
    <3> HIDE DEF counted
    <3> QED  BY <2>2, OutcomeFacts, PlansFacts
  <2>4. r.pc = "compare" /\ r.v = v /\ r.attempts = n
    BY <1>0, <2>1 DEF Request
  <2>5. req'[h] = IF n > MaxAttempts THEN Plans(counted, Escalate, FALSE) ELSE r
    BY <1>0, <1>4 DEF CountAttempt, Enter
  <2>6. /\ row' = [row EXCEPT ![v] = [row[v] EXCEPT !.attempts = n]]
        /\ UNCHANGED <<status, compared>>
    BY <1>4, <2>1 DEF CountAttempt
  <2>7. /\ row[v].state = "PENDING" /\ n = row[v].attempts + 1
        /\ compared[v] < n
        /\ row'[v].attempts = n /\ row'[v].state = "PENDING"
        /\ \A w \in Verifs : w # v => row'[w] = row[w]
    <3>1. /\ row[v].state = "PENDING" /\ req[h].attempts = row[v].attempts
          /\ compared[v] <= row[v].attempts
      BY <1>4, <2>1 DEF SerialInv, CountAttempt
    <3>2. row[v].attempts \in Nat /\ compared[v] \in Nat
      BY DEF Row
    <3>3. /\ [row[v] EXCEPT !.attempts = n].attempts = n
          /\ [row[v] EXCEPT !.attempts = n].state = row[v].state
      BY DEF Row
    <3> HIDE DEF counted, r
    <3>4. QED
      BY <2>6, <3>1, <3>2, <3>3
  <2>8. \A w \in Verifs : compared'[w] <= row'[w].attempts /\ compared'[w] <= MaxAttempts
    BY <2>6, <2>7, <2>2 DEF SerialInv
  <2>9. QED
    <3>1. /\ req'[h].v = v
          /\ \/ req'[h].pc = "flush"
             \/ req'[h].pc = "compare" /\ req'[h].attempts = n /\ n <= MaxAttempts
      <4> HIDE DEF n, counted, r
      <4>1. CASE n > MaxAttempts
        BY <2>3, <2>5, <4>1
      <4>2. CASE ~(n > MaxAttempts)
        <5>1. n <= MaxAttempts
          BY <2>2, <4>2, BoundsAssumption
        <5>2. QED
          BY <2>4, <2>5, <4>2, <5>1
      <4>3. QED
        BY <4>1, <4>2
    <3>2. /\ UNCHANGED <<status, compared>>
          /\ row'[v].attempts = n /\ row'[v].state = "PENDING" /\ compared[v] < n
      BY <2>6, <2>7
    <3> HIDE DEF n, counted, r
    <3>3. QED
      BY <1>0, <2>8, <3>1, <3>2 DEF SerialInv, Writing
<1>5. CASE OtpMissing(h)
  <2>1. req'[h].pc = "idle"
    BY <1>5, <1>0 DEF OtpMissing, Return, Enter
  <2>2. QED
    BY <1>5, <2>1, <1>same DEF OtpMissing
<1>6. CASE CompareOtp(h)
  <2>1. PICK v \in Verifs : v = req[h].v
    BY <1>6 DEF CompareOtp, RequestInv
  <2>2. /\ Plans(req[h], Approve, TRUE).pc = "flush"
        /\ Plans(req[h], Escalate, TRUE).pc = "flush"
        /\ Plans(req[h], Approve, TRUE).v = v
        /\ Plans(req[h], Escalate, TRUE).v = v
    BY <1>0, <2>1, OutcomeFacts, PlansFacts
  <2>3. req'[h] \in {Plans(req[h], Approve, TRUE), Plans(req[h], Escalate, TRUE), Idle}
    BY <1>6, <1>0 DEF CompareOtp, Return, Enter
  <2>4. /\ UNCHANGED <<row, status>>
        /\ compared' = [compared EXCEPT ![v] = @ + 1]
        /\ req[h].pc = "compare"
    BY <1>6, <2>1 DEF CompareOtp
  <2>5. /\ row[v].state = "PENDING" /\ row[v].attempts <= MaxAttempts
        /\ compared[v] < row[v].attempts
        /\ row[v].attempts \in Nat /\ compared[v] \in Nat
    BY <2>1, <2>4 DEF SerialInv, Row
  <2>6. \A w \in Verifs : compared'[w] <= row'[w].attempts /\ compared'[w] <= MaxAttempts
    BY <2>4, <2>5, BoundsAssumption DEF SerialInv
  <2>7. QED
    BY <1>0, <2>2, <2>3, <2>4, <2>5, <2>6 DEF SerialInv, Writing
<1>7. CASE Flush(h)
  <2>1. row[req[h].v].state = "PENDING"
    BY <1>7 DEF SerialInv, Flush
  <2>2. req'[h].pc \notin {"idle", "count", "compare"}
    BY <1>7, FlushStep DEF Writing
  <2>3. UNCHANGED <<row, status, compared>>
    BY <1>7 DEF Flush
  <2>4. QED
    BY <1>7, <2>1, <2>2, <2>3, FlushStep, <1>same
<1>8. CASE DeleteOtp(h)
  <2>1. row[req[h].v].state = "PENDING" /\ req[h].seen = status /\ req[h].v \in Verifs
    BY <1>8 DEF SerialInv, DeleteOtp, Writing, RequestInv
  <2>2. req'[h].pc \notin {"idle", "count", "compare"}
    BY <1>8, DeleteStep DEF Writing
  <2>3. UNCHANGED <<row, status, compared>>
    BY <1>8 DEF DeleteOtp
  <2>4. QED
    BY <1>8, <2>1, <2>2, <2>3, DeleteStep, <1>same
<1>9. CASE Commit(h)
  <2>1. PICK v \in Verifs : v = req[h].v
    BY <1>9 DEF Commit, RequestInv
  <2>2. req'[h].pc = "idle"
    BY <1>9, <1>0 DEF Commit, Return, Enter
  <2>3. \A w \in Verifs : row'[w].attempts = row[w].attempts
    BY <1>9, <2>1 DEF Commit, Row
  <2>4. UNCHANGED compared
    BY <1>9 DEF Commit
  <2>5. QED
    BY <1>0, <2>2, <2>3, <2>4 DEF SerialInv, Writing
<1>10. CASE StampDelivery(h)
  <2>1. PICK v \in Verifs : v = req[h].v
    BY <1>10 DEF StampDelivery, RequestInv
  <2>2. req'[h].pc = "store" /\ req'[h].v = v
    BY <1>10, <1>0, <2>1 DEF StampDelivery, Enter, Request
  <2>3. /\ \A w \in Verifs : row'[w].attempts = row[w].attempts
        /\ row'[v].state = row[v].state
    BY <1>10, <2>1 DEF StampDelivery, Row
  <2>4. row[v].state = "PENDING"
    BY <1>10, <2>1 DEF SerialInv, StampDelivery
  <2>5. QED
    BY <1>10, <2>2, <2>3, <2>4, <1>same DEF StampDelivery, Writing
<1>11. CASE StoreOtp(h)
  <2>1. req'[h].pc = "idle"
    BY <1>11, <1>0 DEF StoreOtp, Return, Enter
  <2>2. QED
    BY <1>11, <2>1, <1>same DEF StoreOtp
<1>12. CASE Abort(h)
  <2>1. req'[h].pc = "idle"
    BY <1>12, <1>0 DEF Abort, Return, Enter
  <2>2. QED
    BY <1>12, <2>1, <1>same DEF Abort
<1>13. QED
  BY <1>1, <1>2, <1>3, <1>4, <1>5, <1>6, <1>7, <1>8, <1>9, <1>10, <1>11, <1>12
     DEF Starts, Continues

(* No more than max_attempts submissions are compared when requests do not *)
(* overlap, whatever crashes and whatever Redis loses.                     *)
THEOREM GuessesBounded ==
    ASSUME SingleHandler
    PROVE  Spec => []GuessesWithinLimit
<1>1. Init => TypeOK /\ RequestInv /\ SerialInv
  BY InitInv, SerialInit DEF IInv
<1>2. TypeOK /\ RequestInv /\ SerialInv /\ [Next]_vars
        => TypeOK' /\ RequestInv' /\ SerialInv'
  BY TypeStep, SerialOutside, SerialHandler, SingleHandler DEF Next
<1>3. SerialInv => GuessesWithinLimit
  BY DEF SerialInv, GuessesWithinLimit
<1>4. QED
  BY <1>1, <1>2, <1>3, PTL DEF Spec

(* Only a commit changes the timestamps of a row, from none to one: the    *)
(* row it settles is pending.                                              *)
LEMMA TimestampStep ==
    ASSUME TypeOK, RequestInv, SerialInv, OneTimestamp, [Next]_vars
    PROVE  OneTimestamp'
<1> USE DEF TypeOK
<1>same. ASSUME \A v \in Verifs : /\ row'[v].stamps = row[v].stamps
                                  /\ Settled(v)' <=> Settled(v)
                                  /\ Settled(v) => row'[v].state = row[v].state
         PROVE  OneTimestamp'
  BY <1>same DEF OneTimestamp
<1>1. ASSUME NEW v \in Verifs, CreateVerification(v)
      PROVE  OneTimestamp'
  <2>1. row[v].state = "ABSENT" /\ row' = [row EXCEPT ![v].state = "PENDING"]
    BY <1>1 DEF CreateVerification
  <2>2. row'[v].state = "PENDING" /\ row'[v].stamps = row[v].stamps
    BY <2>1 DEF Row
  <2>3. \A w \in Verifs : w # v => row'[w] = row[w]
    BY <2>1
  <2>4. QED
    BY <2>1, <2>2, <2>3, <1>same DEF Settled, Terminal
<1>2. ASSUME NEW v \in Verifs, NEW d, row' = [row EXCEPT ![v].deadline = d]
      PROVE  OneTimestamp'
  <2>1. row'[v].state = row[v].state /\ row'[v].stamps = row[v].stamps
    BY <1>2 DEF Row
  <2>2. \A w \in Verifs : w # v => row'[w] = row[w]
    BY <1>2
  <2>3. QED
    BY <2>1, <2>2, <1>same DEF Settled
<1>3. ASSUME NEW h \in Handlers, CountAttempt(h)
      PROVE  OneTimestamp'
  <2>1. PICK v \in Verifs, n \in Nat : row' = [row EXCEPT ![v].attempts = n]
    <3>1. req[h].v \in Verifs
      BY <1>3 DEF CountAttempt, RequestInv
    <3>2. req[h].attempts + 1 \in Nat
      BY DEF Request
    <3>3. row' = [row EXCEPT ![req[h].v].attempts = req[h].attempts + 1]
      BY <1>3 DEF CountAttempt
    <3>4. QED
      BY <3>1, <3>2, <3>3, Zenon
  <2>2. row'[v].state = row[v].state /\ row'[v].stamps = row[v].stamps
    BY <2>1 DEF Row
  <2>3. \A w \in Verifs : w # v => row'[w] = row[w]
    BY <2>1
  <2>4. QED
    BY <2>2, <2>3, <1>same DEF Settled
<1>4. ASSUME NEW h \in Handlers, Commit(h)
      PROVE  OneTimestamp'
  <2>1. PICK v \in Verifs : v = req[h].v /\ row[v].state = "PENDING"
    BY <1>4 DEF Commit, RequestInv, SerialInv
  <2>2. PICK s : s = req[h].plan.to
    OBVIOUS
  <2>3. s \in Terminal
    BY <2>2, OutcomeFacts DEF Request
  <2>4. row' = [row EXCEPT ![v].state = s, ![v].stamps = @ \union {s}]
    BY <1>4, <2>1, <2>2 DEF Commit
  <2>5. row[v].stamps = {}
    BY <2>1 DEF OneTimestamp, Settled, Terminal
  <2>6. row'[v].state = s /\ row'[v].stamps = {s}
    BY <2>4, <2>5 DEF Row
  <2>7. \A w \in Verifs : w # v => row'[w] = row[w]
    BY <2>4
  <2>8. QED
    BY <2>3, <2>6, <2>7 DEF OneTimestamp, Settled
<1>5. ASSUME Environment
      PROVE  OneTimestamp'
  <2>1. CASE UNCHANGED row
    BY <2>1, <1>same DEF Settled
  <2>2. QED
    BY <1>5, <1>1, <1>2, <2>1 DEF Environment, DeadlinePasses, OtpKeyGone
<1>6. ASSUME NEW h \in Handlers, Starts(h) \/ Continues(h) \/ Abort(h)
      PROVE  OneTimestamp'
  <2>1. CASE UNCHANGED row
    BY <2>1, <1>same DEF Settled
  <2>2. CASE StampDelivery(h)
    BY <2>2, <1>2 DEF StampDelivery, RequestInv
  <2>3. QED
    BY <1>3, <1>4, <1>6, <2>1, <2>2
       DEF Starts, Review, SubmitOtp, RequestOtp, Abort,
           Continues, OtpMissing, CompareOtp, Flush, DeleteOtp, StoreOtp
<1>7. ASSUME UNCHANGED vars
      PROVE  OneTimestamp'
  BY <1>7, <1>same DEF vars, Settled
<1>8. QED
  BY <1>5, <1>6, <1>7 DEF Next

(* When requests do not overlap, a settled row carries the timestamp of    *)
(* its state and no other, and a pending one none.                         *)
THEOREM TimestampOfState ==
    ASSUME SingleHandler
    PROVE  Spec => []OneTimestamp
<1>1. Init => TypeOK /\ RequestInv /\ SerialInv /\ OneTimestamp
  BY InitInv, SerialInit DEF IInv, Init, OneTimestamp, Settled, Terminal
<1>2. TypeOK /\ RequestInv /\ SerialInv /\ OneTimestamp /\ [Next]_vars
        => TypeOK' /\ RequestInv' /\ SerialInv' /\ OneTimestamp'
  BY TypeStep, SerialOutside, SerialHandler, SingleHandler, TimestampStep DEF Next
<1>3. QED
  BY <1>1, <1>2, PTL DEF Spec

(* Requests that do not overlap implement the abstract lifecycle: a commit *)
(* settles its row, every other step is a creation or a stutter.           *)
LEMMA LifecycleStep ==
    ASSUME SingleHandler, TypeOK, RequestInv, SerialInv, [Next]_vars
    PROVE  [Lifecycle!Next]_(Lifecycle!vars)
<1> USE DEF TypeOK
<1> DEFINE state == [v \in Verifs |-> row[v].state]
<1>same. ASSUME UNCHANGED status, \A v \in Verifs : row'[v].state = row[v].state
         PROVE  UNCHANGED Lifecycle!vars
  BY <1>same DEF Lifecycle!vars
<1>1. ASSUME NEW v \in Verifs, CreateVerification(v)
      PROVE  Lifecycle!Next
  <2>1. /\ state[v] = "ABSENT" /\ UNCHANGED status
        /\ state' = [state EXCEPT ![v] = "PENDING"]
    BY <1>1 DEF CreateVerification, Row
  <2>2. QED
    BY <2>1 DEF Lifecycle!Next, Lifecycle!Create
<1>2. ASSUME NEW v \in Verifs, DeadlinePasses(v) \/ OtpKeyGone(v)
      PROVE  UNCHANGED Lifecycle!vars
  <2>1. UNCHANGED status /\ \A w \in Verifs : row'[w].state = row[w].state
    BY <1>2 DEF DeadlinePasses, OtpKeyGone, Row
  <2>2. QED
    BY <2>1, <1>same
<1>3. ASSUME NEW h \in Handlers, Commit(h)
      PROVE  Lifecycle!Next
  <2>1. PICK v \in Verifs, plan \in Outcomes : v = req[h].v /\ plan = req[h].plan
    BY <1>3, CommitStep
  <2>2. row[v].state = "PENDING" /\ req[h].seen = status
    BY <1>3, <2>1 DEF SerialInv, Commit, Writing
  <2>3. status' = plan.tx
    BY <1>3, <2>1, <2>2, CommitStep
  <2>4. state' = [state EXCEPT ![v] = plan.to]
    <3>1. row'[v].state = plan.to /\ \A w \in Verifs : w # v => row'[w] = row[w]
      BY <1>3, <2>1, CommitStep
    <3>2. state' = [w \in Verifs |-> row'[w].state]
      OBVIOUS
    <3>3. QED
      BY <3>1, <3>2
  <2>5. plan \in Lifecycle!Outcomes
    BY DEF Outcomes, Lifecycle!Outcomes
  <2>6. QED
    BY <2>2, <2>3, <2>4, <2>5 DEF Lifecycle!Next, Lifecycle!Settle
<1>4. ASSUME NEW h \in Handlers, Quiet(h)
      PROVE  UNCHANGED Lifecycle!vars
  BY <1>4, QuietStep, <1>same
<1>5. ASSUME NEW h \in Handlers, Flush(h) \/ DeleteOtp(h) \/ Abort(h)
      PROVE  UNCHANGED Lifecycle!vars
  <2>1. UNCHANGED <<row, status>>
    BY <1>5 DEF Flush, DeleteOtp, Abort
  <2>2. QED
    BY <2>1, <1>same
<1>6. ASSUME UNCHANGED vars
      PROVE  UNCHANGED Lifecycle!vars
  BY <1>6, <1>same DEF vars
<1>7. QED
  BY <1>1, <1>2, <1>3, <1>4, <1>5, <1>6 DEF Next, Environment, Continues, Quiet

(* With one handler, every behaviour of the service is a behaviour of      *)
(* VerificationLifecycle: rows are created PENDING and settled once, in    *)
(* the step that settles their transaction.                                *)
THEOREM SerialImplementsLifecycle ==
    ASSUME SingleHandler
    PROVE  Spec => ImplementsLifecycle
<1>1. Init => TypeOK /\ RequestInv /\ SerialInv
  BY InitInv, SerialInit DEF IInv
<1>2. TypeOK /\ RequestInv /\ SerialInv /\ [Next]_vars
        => TypeOK' /\ RequestInv' /\ SerialInv'
  BY TypeStep, SerialOutside, SerialHandler, SingleHandler DEF Next
<1>3. Init => Lifecycle!Init
  BY DEF Init, Lifecycle!Init
<1>4. TypeOK /\ RequestInv /\ SerialInv /\ [Next]_vars
        => [Lifecycle!Next]_(Lifecycle!vars)
  BY LifecycleStep
<1>5. QED
  BY <1>1, <1>2, <1>3, <1>4, PTL DEF Spec, ImplementsLifecycle, Lifecycle!Spec
=============================================================================
