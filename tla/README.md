# Formal models of the transaction fraud detection service

TLA+ models of the backend in `backend/app`, of the parts of the browser client and
of the training code that keep state or must agree with the backend, their model
checking with TLC, and proofs checked by TLAPS. `PROJECT.json` maps every definition
to the lines it models, and lists the runs, mutants, hazards and theorems.

## 1. The system

A FastAPI service (two gunicorn processes, asyncio tasks, PostgreSQL through
SQLAlchemy, Redis) scores card transactions. `POST /transactions` stores a
pending transaction, computes features, evaluates the account's fraud rules,
decides approve / verify / block, audits the decision, opens a verification
for `verify`, and starts alerts. Analysts override decisions, review
verifications, edit rules and triage alerts; account holders submit OTPs. A React
client signs in, refreshes its tokens, and edits rules in a form.

| component | state | operations | what makes it correct |
|---|---|---|---|
| OTP verification (`verification_service.py`, `otp_service.py`, `routers/verification.py`) | `verification_logs`, `transactions.status`, the OTP key in Redis | create, deliver OTP, submit OTP, approve, reject, escalate, expire | row and transaction agree; a settled row is not reopened; attempt limit; pending ones get settled |
| Rate limiting (`rate_limiter.py`, twin in `otp_service.py`) | one Redis counter per identity | check | bounded overrun, nobody refused early, counters expire |
| Decision audit (`audit_service.py`, `routers/decisions.py`) | `fraud_decision_audits`, a hash chain per account | log a decision, log an override, verify integrity | the chain verifies; the last record tells the status |
| Stream workers (`workers/`, `stream_producer.py`) | a Redis stream, its pending list, the dead letters | publish, read, process, ack, requeue, bury, replay | nothing vanishes, bounded retries, everything ends handled |
| Dashboard (`workers/dashboard_worker.py`, `dashboard_service.py`) | counters in Redis | count a decision | every decision counted; twice only for a fault or a replay |
| Rule cache (`rule_engine.py`, `cache.py`, `routers/rules.py`) | committed rules, cache key | edit + invalidate, lookup + load + fill | staleness has a known cause and ends |
| Rule evaluator (`rule_evaluator.py`) | – | evaluate a condition | it matches for cause only |
| Rules page (`Rules.tsx`, `ruleConditionUtils.ts`) | the list each page has cached, the form of each analyst | fetch, open, change, cancel, save | a save for another reason keeps what the rule matches |
| Decision engine (`decision_engine.py`, `rule_engine.py`, `blocked_transaction_repository.py`) | `transactions.status`, `blocked_transactions` | evaluate rules, score, override, fall back, finalize | score and decision agree, rules are authoritative, one block row |
| Alerts and notifications (`alert_service.py`, `alert_worker.py`, `notification.py`) | `alerts`, deduplication key, providers | record, deduplicate, send with retries | recorded by either path, one message per channel |
| Alert triage (`alert_service.py`, `routers/alerts.py`) | `alerts.status`, `resolved_at` | acknowledge, resolve | a resolution stays |
| Transaction ingest (`transaction_ingest_service.py`) | a transaction with its audits, score, verifications | the seven sections of a request | an answer is accounted for; a transaction to verify can be verified |
| Database connections (`dependencies.py`, `database.py`) | the connection pool | check out, return, time out | no leak, gridlock only when the pool is full of waiting requests, and it dissolves |
| Feature engineering, model training (`feature_queries.py`, `ml/train.py`, `ml/feature_engineering.py`) | – | serve the features of a transaction, export and recompute them | the model is served what it was trained on |
| Authentication, browser client (`routers/auth.py`, `auth_service.py`, `client.ts`, `authStore.ts`, `App.tsx`, the sign-in pages) | `users`, tokens, `localStorage`, the refresh flag and its queue | register, sign in, refresh, sign out, load a page | waiting requests are served; a page shows the owner of its tokens; nobody is signed out without a cause |

Section 6 names what is not modelled.

How they interact: the ingest calls the decision engine (which reads the rules
through the cache and evaluates their conditions), then the audit, then opens a
verification, and starts the alert task; the decision engine publishes to the streams
that the workers consume; verification outcomes, overrides and re-evaluations write the
same `transactions.status` the decision engine writes; training reads that table and
the audits later on.

What is hard: every request has its own database session that keeps the rows it
first read (no version column, no `SELECT ... FOR UPDATE`); an `UPDATE` carries
only changed columns, with values computed in memory; Redis calls are separate,
best effort, and may fail after taking effect; processes die between any two
steps; stream delivery is at least once; a browser's requests, page loads and other
tabs share one token store. `PROJECT.json` lists the hazards line by line.

## 2. Modules

One module per component, `X_proofs` its theorems; `MC*` modules hold the sets TLC
needs when a `.cfg` cannot express them. A step of a model is the code between two
awaits that other requests can observe. Definitions whose names carry a suffix and the
comment *Mutant* are deliberate mistakes: each property is violated when one of
them replaces the definition it is named after, which shows that the property
depends on the code.

Four modules extend others and add variables and actions to them, three implement one:

| module | builds on | what connects them |
|---|---|---|
| Ingest | ConnectionPool, Features | a section ends in the step that returns its connection; features are computed from the same table |
| AlertTriage | AlertPipeline | analysts act on the rows that the senders insert |
| Dashboard | StreamWorker | processing a message counts it |
| RuleEditor | RuleCache, RuleEvaluator | saving a form is the edit that commits and invalidates |
| Verification | VerificationLifecycle, as an instance | the abstract promise it implements |
| Dashboard | Delivery, as an instance | the same, with `handled` and `deadLetters` read off `done` and `dead` |
| Session | RefreshQueue, as an instance | the same, with each request's phase and pair read off `req` |

* **Verification** – `row` and `status` are the committed database, `rowLock`
  the row lock an uncommitted `UPDATE` holds, `otp` the Redis key (which of the
  issued codes it holds), `req` what each request remembers. `Review` stands for
  approve, reject and escalate; `SubmitOtp`, `CountAttempt`, `OtpMissing`,
  `CompareOtp` for the awaits of `validate_otp`; `Flush`, `DeleteOtp`, `Commit`
  for the transition that they all end in; `RequestOtp`, `StampDelivery`,
  `StoreOtp` for `deliver_otp`; `Abort` for a crash or a database error.
  **VerificationLifecycle**: rows are created PENDING and settled once, with the
  transaction in the same step.
* **RateLimiter** – GET, then SET EX or INCR, as separate steps of each caller.
* **AuditChain** – `created_at` is the start of the inserting database
  transaction (`BeginAudit`), the previous hash is read in it (`ReadPrevious`),
  the record becomes visible later (`Insert`). A record's hash is represented by
  its `created_at`: two values that both identify the record.
* **StreamWorker** – `Process`, `Ack`, `Requeue`, `Bury`, `AckHandled` are the
  awaits of `_process_message`; each Redis command can fail before or after it was
  executed; `Stop` is a crash or a cancelled task, `Publish` includes `MAXLEN ~`.
  **Dashboard** makes `Process` the pipeline of increments, whose reply can be lost.
  **Delivery** has messages and no entries, workers or acknowledgements: a published
  message is attempted, given up, sent back; only a fault or a replay excuses an attempt
  of what was handled or given up.
* **RuleCache** – the rule set is a version number; `excuse` and `raced` are history
  variables that say why a cached version is old.
* **RuleEvaluator** – a condition is a tree, a value a type with a text. `Nested` are the
  conditions of each depth of nesting, and `Evaluate` is the recursive function that
  `evaluate_condition` is; the parts of a combinator are a set, because neither their
  order nor a repetition changes the result. `Truth` is the
  reference definition, a three-valued logic in which a condition on a missing field or
  an unfitting type is neither true nor false. `ParseConditions`, `BuildConditions` and
  `ParseValue` take a condition into the form and back; blanks around a text are one
  more text, which `Trim` takes off.
  **RuleEditor** opens and saves such forms concurrently. `listed` is the list that
  react-query has cached for each page: `Refetch` may happen at any time and need not, so
  a form can be filled from a list of any age (an answer counts as fetched when the
  backend reads the rules; what is opened before it arrives is opened before it). `meant`
  and `overwritten` are history variables, and so is a form's `of`, the condition it shows.
* **Decision** – `ApplyRule` is one turn of the rule loop, `Score` the thresholds and
  the override, `ReadTx`, `StageBlock`, `Commit` the finalization with the row lock
  that autoflush takes. `StageAborts` is a statement of `stage_block` that fails: the
  exception is swallowed, the COMMIT rolls back and the call answers all the same;
  `TransactionMissing` is the early return. A rule result the client sent may be malformed
  in the ways `Flaws` names, by where the code trips over it: `ScoreFails` at the
  adjustment, `FallbackFails` once more at the actions and names, `Answer` at the decision
  object. The features' own score and the models' blend are any member of a set.
* **AlertPipeline** – each run of the ingest's task or of the worker is a *sender*.
  **AlertTriage** – a request reads a row, and later commits only the columns whose
  value it changed, whatever the row holds by then.
* **ConnectionPool** – a request keeps its authentication connection and checks out a
  second one for each section of the service.
* **Features** – the counting features as functions of the table, `Served` at a time
  and `Trained` for a row of the export, with the window ends, the left join and the
  labels of the training code. A transaction has a row for each of its audits; rows of one
  `created_at` (`Tied`) are sorted in any order, and the merchant's risk, the mean of the
  rows before, takes in those that came out `ahead`.
* **Ingest** – `Results` is what each section commits, `NextSections` the control flow,
  `Raises` an exception before or after that commit; the sections in `BestEffort` log
  it and go on, `LosesBlock` the block that Decision's `StageAborts` answers and does not
  write. `SetStatus`, `SendVerification` and `SettleVerification` are the others
  that write the transaction, `Dies` the process.
* **Session** – one tab. `req` holds the requests in flight, with the token pair they
  carry; `Refused` is the response interceptor on a 401, `Queued` its subscribers;
  `Load` drops the module state; `Elsewhere` stands for other tabs. Each of `SignIns` is
  a submission of the login or of the register form: the forms link to each other, know only
  of their own submission, and it goes on when they are left, so two can overlap.
  **RefreshQueue** has requests and no users, tokens or answers: one begins a refresh,
  others join it, and they all go on with one new pair, or it gives up and leaves the page
  with them still queued. A reload, of a page being left or from outside, drops everything.

## 3. Runs

| run | instance | shows |
|---|---|---|
| VerificationConcurrent | 2 handlers, 2 verifications, 1 attempt, 1 OTP each | rows and status agree under every interleaving; nothing is reopened; what is settled is settled again only by a request that overlapped |
| VerificationSerial | 1 handler, 2 verifications, 2 attempts, 1 crash | without overlap: attempt limit, one timestamp, refinement of VerificationLifecycle, liveness |
| BrowserSession | 1 call, the page and 2 sign-ins at a time, 2 users (1 registered), 2 token pairs before the refreshes, 1 error, 1 act of another tab | pages show the owner of their tokens but for the named exceptions, refinement of RefreshQueue, sign-outs have causes, every request settles unless it waits for a refresh that hangs |
| RateLimiterWindow | 3 callers, limit 3, 1 Redis error | overrun bound, nobody refused early |
| RateLimiterLockout | 2 callers, limit 3 | *violation*: a counter without a time to live |
| AuditChains | 3 requests (2 of one account), 3 transactions, 3 records | links stay in the account; the chain verifies where requests do not overlap |
| AuditFork | the same, 2 records | *violation*: overlapping requests of an account fork its chain |
| StreamDelivery | 2 workers, 2 messages, 1 retry, 1 fault, 1 replay | nothing vanishes, retries and counts bounded, refinement of Delivery, liveness |
| RuleCacheRaces | 2 analysts, 1 evaluation, 2 edits, 1 error, 9 conditions nested at most twice, 11 contexts | causes of staleness, convergence; what saving a form does to a rule, however old the list it was filled from; when a rule matches |
| DecisionCalls | 2 calls, 57 rule lists, 96 client results, 5 flaws, thresholds 40/70/100, 2 faults | score, rules, override, fallback, finalization |
| AlertsSent | 1 task, 2 deliveries, 2 channels, 2 tries, 3 errors, 1 crash, 1 expiry, 2 analysts with 2 requests | recording, deduplication, resolutions that stay |
| IngestFlow | 2 requests, 2 connections, 7 sections, 1 earlier block, windows of 1, a clock up to 2, 1 trouble | answers accounted for, verifications reachable, features served and trained, gridlock and its end |

**Bounds.** Two requests are enough for the races of the components: each conflict
involves one stale reader and one writer; three callers are used where one may be
overtaken twice (rate limit). In IngestFlow two requests
fill a pool of two, the smallest that can gridlock, and one trouble hits each of the
sections; the earlier block makes the failed attempts and the merchant's risk non-zero,
and a window of one tick with a clock up to two lets a transaction leave it. In
BrowserSession the page's own request and one call are the one that refreshes and the one
that waits; two pairs are one for each sign-in, which is what it takes to have their
answers come out of order, or one for another tab's while a refresh is on its way, which
then brings a third. In RuleCacheRaces two edits are a save that a second analyst's list
misses, and the save from that list; one evaluation is enough to write what an edit has
overtaken. Attempts of one and two reach both sides of the limit, rule lists of two every
order of two actions, scores sit on and next to each threshold.
`MaxOtps`, `MaxAborts`, `MaxFailures`, `MaxRecords`, `MaxFaults`, `MaxReplays`,
`MaxEdits`, `MaxCrashes`, `MaxExpiries`, `MaxTriage`, `MaxTime`, `MaxTrouble`,
`MaxPairs`, `MaxErrors`, `MaxElsewhere` and `MaxNesting` bound what the code leaves open;
`MaxAttempts`, `MaxRequests`, `MaxRetries`, `Count`, `MaxLen`, `MaxTries`, `PoolSize`,
`Hours` and `Days` are the code's own parameters, made small. `CHECK_DEADLOCK FALSE`
appears where everything may be done or a bound stops the behaviour.

**Fairness.** Weak fairness on steps of a request or worker that has begun: the event
loop resumes a task whose await has completed, and every await completes or raises
(in Ingest the pool's time-out is such an exception). In Session the network
answers or fails every request of the client, which sets a time-out (`client.ts:10`), but
not the refresh, which is sent without one (`client.ts:50`) and may hang for ever:
`EveryRequestSettles` excepts what waits for it. A browser carries out a navigation the
page has begun. `Expire` in RuleCache is Redis honouring a TTL. In Verification, submission is
strongly fair: it is the account holder who keeps trying. Nothing in the program
expires a verification on its own, so without that assumption it may stay PENDING for
ever.

## 4. Where code and comments disagree

Two disagreements are runs: the rate limiter's counter can lose its time to live and
lock an identity out; and overlapping requests fork the audit chain, which
`verify_integrity` then reports as tampering. Others were met while modelling and are
recorded here with the property that bounds their damage:

* of a block "the transaction status is set to ``block`` and a ``BlockedTransaction`` row is
  persisted" (`decision_engine.py:335`): an exception of `stage_block` is logged and
  swallowed (line 376), and if it was a failed statement, PostgreSQL rolls the aborted
  transaction back at the COMMIT, and block is answered with neither (`BlockLeavesRow`
  excepts it, and `AnsweredIsAccounted` the status);
* no transition leaves a terminal state (`verification_service.py:29`), but the
  transition is checked on a cached row, so a settled verification can be settled again
  by a request that overlapped (`FinalOnceUnattended`; line 616);
* "Missing fields cause the condition to evaluate to False" (`rule_evaluator.py:27`):
  under a `not` the condition evaluates to true (`MatchesForCause`);
* "Transition an alert from 'open' to 'investigating'" (`alert_service.py:82`): the
  UPDATE names no status, and takes a resolved alert back when the two overlap
  (`ResolvedStays`);
* the form of the Rules page drops the nested conditions of a rule, and turns the
  numbers of a list into strings, which match nothing, when the rule is saved for any
  other reason, trims texts, and, filled from a list up to five minutes old, writes the
  former condition over another analyst's (`MeaningKept`; `ruleConditionUtils.ts:90`,
  `:121`, `:124`, `Rules.tsx:45`);
* the fallback "from rules" of a scoring error looks at the same rule result, and raises
  again when the client sent a malformed one (`OneFaultIsAbsorbed`;
  `decision_engine.py:137`);
* two sign-ins that overlap can leave a page that shows one user and sends the tokens of the
  other (`ShownOwnsTokens`; `Login.tsx:28`);
* the training features "mirror" the backend's (`ml/feature_engineering.py:70`, `:331`):
  those served count the transaction itself, and the merchant's risk has a window of 30
  days when served and none in training, where a transaction with two audits also counts
  itself (`SkewIsOne`);
* a wrong password is a 401 that the interceptor takes for an expired token: with no
  pair stored, the page is sent to the login page before it can show its message (`client.ts:83`, `Login.tsx:32`);
* a verify rule followed by an allow rule is approved when the score alone would have
  blocked (`VerifyRuleHolds`; `decision_engine.py:249`);
* a block whose reason exceeds its column is never finalized: the fallback's reason is
  longer still and the request ends in an error (`OneFaultIsAbsorbed`;
  `decision_engine.py:337`);
* a shutdown cancels a worker in the middle of a message and its entry stays pending
  (`NothingVanishes`; `workers/run.py:16`);
* a load that an edit overtook puts the old rules back until the TTL
  (`StaleOnlyWithExcuse`, `ConvergesToCommitted`; `routers/rules.py:106`);
* a failure between the deduplication key and the message suppresses every other
  sender (`NotifiedWithoutFaults`; `notification.py:27`);
* concurrent submissions overwrite each other's attempt count (`GuessesWithinLimit`
  needs requests that do not overlap).

## 5. Proofs

`X_proofs` holds the theorems about `X` (`Dashboard_proofs` also those about StreamWorker,
`Authentication_proofs` those about RateLimiter and Session, `RuleEditor_proofs` those
about RuleCache and RuleEvaluator): for every value of the
constants (any number of requests, callers, verifications, rules, faults), from the
assumptions the modules name and TLC evaluates. Every safety property and action property
of the passing runs is a theorem. No theorem about the code's races is restricted to the
instances of section 3; the parameters that bound the runs are arbitrary here.

* **Verification_proofs.** `StatusAgrees` is not inductive: a commit leaves the
  transaction out of its UPDATE when the status it read equals the one it wants, and
  that status may have been replaced meanwhile. `IInv` adds that the row lock belongs
  to the request between its flush and its commit (`LockInv`), and that some settled
  row accounts for the status even if such a commit comes (`StatusInv`); this gives
  `StatusAlwaysAgrees`. `NeverReopens` needs only that requests name existing rows
  (`RequestInv`). `FinalUnattended` adds what a request that overlapped nobody
  remembers: the row as it is. `GuessesBounded` and `SerialImplementsLifecycle` assume
  `SingleHandler` (requests that do not overlap, without which TLC refutes them) and
  rest on `SerialInv`: what the request remembers is still committed, and every
  comparison was paid for by a committed attempt. The refinement maps each commit to
  `Settle`, a creation to `Create`, every other step to a stutter. `TimestampOfState`
  (same assumption) follows: only a commit adds a timestamp, and its row is pending.
* **Authentication_proofs**, the rate limiter. `WindowBounded` counts: callers are finitely many
  (`CallersAssumption`), every pending INCR was let through below the limit, and a SET
  that restarts the counter uses up a caller that decided on it before the key existed
  (`OverrunInv`). `NobodyRefusedEarly` needs only that the key never runs ahead of
  the calls admitted.
  The browser's session: `SessionInv` says that the flag `isRefreshing` is up exactly
  while one request refreshes (`OneRefresh`), so that a queued request has one to wait
  for, or its page is being left (`NobodyForgotten`): hence `QueueServed`.
  `SessionImplementsQueue` maps each step to one of RefreshQueue or a stutter: a refresh
  that succeeds frees exactly the queued requests and the one that refreshed
  (`RefreshBrings`), with a pair newer than any request carries, because no request
  carries one the server has not issued (`Asks`). For
  `ShownIsOwner` it says what a request asks about (`Asks`): a sign-in whose answer comes is
  a cause the property excepts or asked with the stored tokens, however many others overlap
  it; while a page loads nobody signs in (`LoadsAlone`), and the pair it asks about has the
  owner of the stored one, which a refresh passes on to the pair it puts in its place.
  `SignedOutOnlyForCause` goes through the actions that empty the store, for the types
  and pair numbers of `SessionInv`.
* **RuleEditor_proofs**, the cache. `StaleHasExcuse` needs `FillsCommitted`: what a load is
  about to write is the committed rule set, unless an edit overtook the load or it failed.
  `EditorIsCache` carries it over to the composition: to the cache, every step of the
  forms is an edit or nothing.
  The conditions: `RulesMatchForCause` is an induction over their nesting. The library's
  induction rules take a predicate, which the provers cannot instantiate, so
  `SetInduction` states induction for a *set* of numbers (one that lacks a number would
  lack a least one, by the well-foundedness of `<`), and `ConditionInduction` derives
  that a set which contains a condition whenever it contains its parts contains them
  all. In the same way `FoldExists` shows level by level that a recursion over the parts
  has a solution; without it nothing could be said of `Evaluate`, which is a `CHOOSE` of
  one. `EvaluationAgrees` then compares Python's two-valued combinators with the three
  values, for every depth.
  The forms: `RulesKeepMeaning` rests on `EditorInv`. A form that nobody changed
  shows the condition in its `of`, or was already saved as it (`FormsShow`, for the save
  whose answer got lost): so a save either writes the committed condition through the form or
  is what `overwritten` records, however old the list the form was filled from (`listed` may
  hold any condition); and what somebody meant stays expressible in the form
  (`MeaningFollows`), since otherwise a second save could lose it. `RoundTrip` shows that
  such a condition comes back from the form as it was, or as its only part, which
  evaluates alike (`SavedUnchanged`). `EditorAssumption` asks that rules and rows are of
  the shapes in `Condition` and `Form`.
* **AuditChain_proofs.** `ChainsAlwaysVerify` needs that a request alone in its account
  holds the newest record as its link and a younger `created_at` (`AloneInv`).
  `AuditsTellStatus` adds that what such a request is about to log is the status
  (`WorkInv`) and that idle requests work on nothing (`IdleInv`); `LinksStayOwn` holds
  even when requests overlap.
* **Decision_proofs.** `CallInv` says of each call what its matched rules, score and
  decision have in common at every step, and how many faults it has met: hence
  `ScoresMatch`, `BlockRulesDecide`, `VerifyRulesHold`, `FaultsAbsorbed`. `RowInv` says
  that a call that will add a row holds the transaction's row lock and no row exists:
  hence `OneRow`, and `BlocksLeaveRow` but for a call whose statements the database
  undid (`aborted`). `ThresholdsAssumption` (thresholds on the two sides
  of the fallback's score of 50) is what `ScoresMatch` needs: the code does not check
  its settings.
* **Ingest_proofs.** `NoConnectionLeaks` counts connections: `HeldAfter` says how the
  number of those held changes with one request, and each step of a request changes the
  free ones by as much. `GridlockTakesFullPool` adds what a request can hold where it is
  (`Fits`): the second connection only while its section runs. When everybody waits
  there are none of that kind, so the first ones are the whole pool. The rest of the
  ingest only needs to leave the pool alone or go through its operations.
  `DecisionAccounted` and `VerifyReachable` follow from `Account`, which says of a request
  at every section what it has decided, audited, scored and opened by then, and what of it
  is still only its own; other requests leave it alone, and those who change a transaction
  are in `moved`. `FeaturesSkewByOne` needs that a row has its time from the commit on
  that makes it visible, and one audit, of its status, unless others changed it or its block was lost
  (`Stored`, `Written`), and that the picture a request took has those times (`Pictured`).
  Then the training query exports one row for each earlier transaction (a bijection
  between the two), and the served set is that set and the transaction itself; the rows of
  the transaction ahead of the one trained on come on top (`RowsAdd`). Counting
  takes finite tables: `IngestAssumption` says that the rows from before are finitely many.
* **AlertTriage_proofs.** `ResolutionStays`: a request that acknowledges a row somebody
  resolved meanwhile was counted as overtaken, and one that saw a row resolved was not
  the first to resolve it (`ReqInv`); the second part is why leaving the status out of
  an UPDATE does no harm. `AlertRecorded`: while nothing crashed and nothing is recorded,
  each sender that has begun took an error of its own (`RowsInv`). `OwnerNotified`: while
  nothing failed, from the moment the key was set every channel has its message or is on
  the list of a sender that sends (`CleanInv`); it takes a sender, so `SendersAssumption`
  says that the ingest starts a task. `OwnerNotifiedOnce`: only one sender sends at a time, it set
  the key, and what it has left to send has not been confirmed in this life of the key
  (`SendInv`); a channel appears once in its list (`ChannelsAssumption`).
* **Dashboard_proofs.** An entry waits in the stream or is in the hands of one worker, never
  both and never twice (`Placed`). `MessagesKept` needs more than that an
  unprocessed message has an entry somewhere: nothing under way may be about to remove that
  entry (`Kept`, `Safe`), which is why the order of the commands in `Requeue` and `Bury`
  matters. `DeadLettersEarned` (which the guard of `Delivery`'s `GiveUp` also
  says): an entry carries no more tries than were made (`Tries`).
  `RetriesBounded` counts: the tries made and the entries that have one more coming are
  together within the limit (`TriesCount`); before its last retry a message has one entry to
  be processed (`Sole`), so that putting it back adds a try only where one was unused. `CountersRight` counts the same
  way the increments made and those still owed (`MetricsCount`).
  `DeliveryImplemented` maps each step to one of Delivery or a stutter. Its guards need that
  a message without a fault or a replay has one entry in the stream or in a worker's hands,
  and none that is still to be processed once it was handled or given up (`Exclusive`): two
  workers that read, fail, retry and bury it in any order keep that. The two counts give the
  bounds on tries and increments before the step; `Sent` allows the deletion of a dead letter.

## 6. Only model-checked, and not modelled

Liveness (`PendingIsSettled`, `AllHandled`, `ConvergesToCommitted`, `EveryoneEnds`,
`EveryRequestSettles`) stays with TLC, because ENABLED and fairness are out of the
provers' reach. The two runs that expect a violation (`KeyExpires`,
`EveryChainVerifies`) have no theorem, of course. All other properties of the runs are
both checked and proved.

Not modelled:

* *Model inference* (ONNX, its export and evaluation) and the fitting of models:
  floating-point computation; a model's score is any member of a set in Decision.
* *The remaining features* (amounts, devices, time of day): functions of one
  transaction's numbers, without state. The feature cache is written and never read by a scorer.
* *HTTP shell*: middleware, error responses, health checks, and a token blacklist that
  nothing calls.
* *Queries* of the dashboard, alerts, audits and transactions, and the remaining pages
  of the client: they read and format.
* *Migrations and seeds*: one-off scripts; the constraints they create are in the models
  that need them.
* The loss of a single database connection; hash collisions and edited audit records;
  the order of strings and the inside of regular expressions in conditions.

## 7. Plan

1. *Done*: the components of section 1, the compositions of section 2, and the theorems
   of section 5.
2. *Done*: every safety property and action property of the passing runs is proved.
3. *Done*: an abstract specification of the refresh queue, with its refinement.
