# A TLA+ verification of k8s-incident-agent

The program diagnoses faults of Kubernetes services and, after a human approved
the plan, applies one conditional PATCH.  Diagnosis runs are durable: they are
rows of PostgreSQL tables, worked on by any number of worker processes that can
crash, pause or lose their connection at any point, while people approve, stop
and restart the investigation through an HTTP API.

This project models that durable core and shows, by model checking and by
proof, that the cluster is changed at most once per run, only as approved, and
that what the rows say afterwards is true.  Around the core it models the
bounded investigation with its paid requests, the dialogue with people, the
observation of a repaired service, and the decisions in between: what may be
reported, planned, approved and called a recovery.

Paths below are relative to `src/backend/app/`.

## 1. Inventory

| Component | State | Operations | Talks to |
|---|---|---|---|
| Run leases, `persistence/leases.py` | `runs` row: status, owner, epoch, expiry, attempt, last_error, output_snapshot | claim, fence, heartbeat, mark_checkpoint_started, finish | workers; every other write of a worker goes through `fence` |
| Operation journal, `persistence/operations.py` | `operations` row: state, epoch, snapshots, result, attribution; `runs.approval_payload` | queue_approval, prepare, dispatch, record | ledger executor, API |
| Ledger executor, `runtime/operations.py` | none of its own; the Kubernetes object | execute, reconcile | journal, Kubernetes API |
| Controls, `persistence/controls.py` | `controls` rows, `incidents.event_revision`, stop and invalidation flags | control, answer, activate_pending | API, worker loop, rounds |
| Rounds, `persistence/rounds.py` | child `runs` rows, frozen parent output | accept_round | API, controls, interactions |
| Recovery, `runtime/recovery.py` | none | classify | worker |
| Worker, `runtime/worker.py` | the claim in memory, `lost`, the running graph | run, execute, _reconcile_pending, _project, _pulse | all of the above |
| Checkpointer, `runtime/checkpointer.py` | LangGraph checkpoints of a thread | put, put_writes | graph library, leases |
| Incident graph, `agent/graph.py`, `agent/nodes.py` | graph state | nodes and routes | executor, collectors, models |
| Incident service, `services/incident_service.py` | none (synchronous mode resumes the graph itself) | submit_approval, get_run_snapshot | API |
| Interactions, `persistence/interactions.py`, `runtime/interactions.py` | interaction runs, progress, rechecks | accept, save_progress, complete | worker, rounds, messages |
| Delayed rechecks, `persistence/delayed_rechecks.py` | `delayed_rechecks` rows | schedule, activate_due, finish | worker, observation |
| Observation, `agent/observation.py`, `persistence/observations.py` | window payload, owner token | open, save, run | verification, delayed rechecks |
| Budget, `runtime/budget.py` | `run_budgets` payload | reserve, settle, decision, before_write | graph, executor, investigation |
| Investigation loop, `investigation/` | budget ledger and graph state | initialize, decide, collect, await input | budget, dialogue |
| Synchronous executor, `agent/executor.py`, `tools/remediation_tools.py` | Kubernetes object | execute, compare, roll back | verification |
| Policies and rules, `agent/*_policy.py`, `diagnosis/` | none | pure decisions on evidence | nodes |
| Verification and rechecks, `agent/verification.py`, `agent/business_recovery.py`, `services/recheck_service.py` | none | poll the cluster, judge a recovery | nodes, observation |
| Profiles and checks, `service_profiles/`, `business_checks/` | registered profiles | match a profile, run a business check | collectors, policies |
| Messages, `persistence/messages.py` | `messages` rows with a sequence | append | API, rounds, controls |

What is hard here: a worker that was paused past its lease and goes on; the
window between the ownership check and the PATCH; a PATCH that times out and
lands later; checkpoints that are stored behind execution; three stores (run
row, journal, checkpoint) that disagree after a crash; human controls racing
the dispatch; requests that have to start some time later; clients that repeat
a request while the first one is still being served; a model call or a read
whose answer was lost after it was paid for; a window observed by two processes
at once; and evidence that is incomplete, contradictory or out of date.
`PROJECT.json` lists these hazards with the lines where they bite.

What makes the components correct:

* leases: whatever a worker writes, it owned the run in that transaction; every
  run settles;
* journal and executor: one PATCH per run, over the approved configuration;
  `rejected` means nothing was or will be written, `succeeded` and `reconciled`
  mean the run's own request was applied;
* controls and rounds: one active run, closed runs are history, no round beside
  an open write, deferred requests start;
* recovery and worker: execution needs authority, success needs evidence, an
  uncertain write is handed over, a waiting run can be resumed;
* budget and investigation: nothing is sent twice, a query is repeated only for a
  reason of its own, and every investigation ends; while no crash takes two
  decisions with it, a replayed step also meets the prompt it paid for and the
  last call can still conclude (section 5 shows what happens otherwise);
* dialogue: a repeated request changes nothing, a stop revokes what it finds,
  only questions about the past run beside a diagnosis;
* observation: a window passes on consecutive samples of one segment, one
  target and in time; its delayed recheck is decided, and only on its own basis;
* decisions: health, a write, a recovery and an unchanged target are claimed
  only when what was observed supports the claim.

## 2. Modules

| Module | Models | Kind |
|---|---|---|
| `RunRows` | row types of `runs`, `operations` and a claim | types |
| `RunLeases` | `persistence/leases.py` | transactions |
| `OperationLedger` | `persistence/operations.py`, `runtime/operations.py`, the target object | transactions and calls |
| `RunControls` | `persistence/controls.py`, `persistence/rounds.py`; closes the *protocol layer* with `Spec` | composition |
| `ApprovedChange` | what the write path promises | abstract specification |
| `Recovery` | `classify()` | pure operator |
| `DurableWorker` | `runtime/worker.py`, `runtime/checkpointer.py`, the graph; `DurableSpec` | composition |
| `Investigation` | `investigation/`, `runtime/budget.py`, one run | state machine |
| `Dialogue` | `persistence/interactions.py`, `controls.py`, `messages.py`, `delayed_rechecks.py` with their API routes and their execution by a worker | state machine |
| `ObservationWindow` | `agent/observation.py`, `persistence/observations.py` | state machine |
| `ServiceProfiles` | `service_profiles/registry.py`, `agent/target_identity.py`; the shape of evidence | pure operators |
| `DiagnosisPolicy` | `agent/diagnosis_policy.py`, the gates of the diagnosis node | pure operators |
| `RemediationPolicy` | `agent/remediation_policy.py` | pure operators |
| `ExecutionPolicy` | `agent/approval.py`, `agent/execution_policy.py` | pure operators |
| `BusinessChecks` | `business_checks/` from collector to probe | pure operators |
| `RecoveryVerification` | `agent/verification.py`, `agent/business_recovery.py`, `services/recheck_service.py` | pure operators |
| `RuleEngine` | `tools/evidence_collector.py`, `diagnosis/` | pure operators |
| `ProtocolProofs` | theorems about `RunControls!Spec` | proofs |
| `RoundProofs` | further theorems about `RunControls!Spec`: rounds, the approved base, the refinement of `ApprovedChange` | proofs |
| `DurableProofs` | theorems about `Classify` and about `DurableSpec`, and that it implements the protocol layer | proofs |
| `WindowProofs`, `InvestigationProofs`, `DialogueProofs` | theorems about the module of the same subject | proofs |
| `ReplayProofs` | further theorems about `InvestigationSpec`: what a replay after a crash meets, and that it comes to an end | proofs |
| `DecisionProofs` | theorems about the policy modules and about `TableSpec` | proofs |
| `MCRunControls`, `MCDurableWorker`, `MCInvestigation`, `MCDecisions` | instances for TLC; `MCDecisions` holds the tables of inputs | model checking |

`RunControls` EXTENDS `OperationLedger`, which EXTENDS `RunLeases`, which
EXTENDS `RunRows`.  `DurableWorker` EXTENDS `RunControls` and `Recovery`.
`ExecutionPolicy` EXTENDS `RemediationPolicy`, which EXTENDS `DiagnosisPolicy`,
which EXTENDS `ServiceProfiles`; `RecoveryVerification` EXTENDS
`DiagnosisPolicy` too.

Operators whose comment begins with "Mutant" are not part of the model.  Each
is a plausible wrong version of the definition after it, and some property of
a run is violated when it takes that definition's place.

### How the model corresponds to the code

* **Transactions are steps.**  Every transaction of the persistence layer locks
  the run or the incident row first, so it is one action; the code between two
  transactions is another.  `fence` is `Owns(w)`; a transaction it refuses is
  an action that is not enabled, and the exception is `ExecuteRaises`,
  `ReconcileRaises`, `SaveFails` or `Leave`.
* **One incident** with runs numbered in creation order.  Rows of different
  incidents share nothing but the claim queue and the worker loop.
* **Time** is the flag `live` (the lease has not expired).  `Expire` clears it
  at any moment; clearing it under a holder whose heartbeats still work is a
  pause and counts as a fault, after a failed heartbeat or a crash it is free.
  Retry delays are over at any time.
* **The claim** returns a copy of the row (`lease[w]`), and the code goes on
  using that copy.  So does the model: the approval and the attempt count a
  worker acts on may be stale.
* **The executor** has a program point per call of `execute` and `reconcile`:
  check, read, prepare, dispatch, own, send, await, record; observe, settle.
  `ex[w].seen` is the object it read, used after other steps happened.
* **The target** is a resource version and a configuration: 0 at first, `r` for
  the change planned by run `r`, `Foreign` for anything else.  UIDs, live
  profiles and plan digests only add reasons to refuse and are a
  nondeterministic refusal in `Prepare`.  A request in flight stays in flight
  when its sender dies, and may be applied or refused at any later time.
* **The protocol layer** (`RunControls!Spec`) lets a lease holder make any call
  at any time and publish anything.  What is shown of it rests on the
  transactions alone.
* **The worker** (`DurableWorker`) makes the calls in the order of
  `Worker.execute`, through its own program points, with the graph's nodes
  from approval to verification one by one.  The read-only nodes are one step,
  `Diagnose`, that fails, skips or plans.  Checkpoints go through a queue
  (`pend`): nodes run ahead of it, saves happen in order under the fence, and a
  failed save drops the rest and surfaces when the invocation ends, which is
  how the graph library (not part of this repository) behaves.
* **Views.**  A control carries the view of the run that the API read before
  its transaction; only whether it shows an open approval matters later, hence
  `Output == {"none", "awaiting", "other"}`.
* **Faults** (crash, pause, failed heartbeat, storage or client error, commit
  whose answer is lost) draw on one counter, `MaxFaults`.
* **The investigation** (`Investigation`) is one run under a lease that may be
  lost anywhere.  A request id is a triple (kind, step, index); the ledger keeps
  per id the prompt (its fingerprint), the mode, the result and, for a read, the
  sampling grant.  `work` is the position inside a node: one step per ledger
  transaction and per external call.  A prompt is the tuple of graph values it
  is built from, so two prompts are equal when their texts would be.  Replies
  are the outcomes validation tells apart.  Seconds and tokens are left out:
  they add refusals of the same form as the counted limits.
* **The dialogue** (`Dialogue`) is one incident with two lanes, diagnosis and
  interaction.  A handler of the API is a small process: it looks its key up,
  reads the latest run without a lock, and commits one transaction.  A client
  key carries one request for ever, an answer also the question it was written
  for; it may be posted again at any time.
  Diagnosis runs end or ask a question here and write nothing; `explain` stands
  for the historical intents, `observe` for those that sample the cluster.  One
  worker is enough: takeovers between workers are what `ledger` and `worker`
  are about, and `Die` with `ExpireLease` gives the same worker a new claim.
* **The window** (`ObservationWindow`) is a row with an owner token and, per
  process, the copy that `run()` works on; the clock is a counter.  A sample
  returns anything the two `sample()` functions can.
* **Evidence** in the policy modules is a record of what the decisions look at:
  how many Services and Deployments were seen, generation, UID, probe and
  selector of the target, and per Pod ownership, readiness, fault, addresses and
  endpoints.  Texts, names and identifiers are gone, equality of two of them is
  a flag or a small number.  An operator returns what the function returns or
  whether it raises.

## 3. Runs

Bounds are the constants of the `.cfg` files.  `MaxRuns`, `MaxFaults`,
`MaxDrift` and `MaxControls` bound the behaviour; `MaxAttempts` is the worker's
setting and is smaller than in production so that exhaustion happens.

| Run | Constants (workers, runs, attempts, faults, drift, controls) | Shows |
|---|---|---|
| `ledger` | 2, 1, 1, 1, 1, 1 | `IInv`, `AtMostOnePatch`, `RejectedNeverWrites`, `ConfirmedWasApplied`, `AppliedOnApprovedBase` |
| `rounds` | 2, 2, 1, 0, 0, 2 | `TypeOK`, `OpenWriteBlocksRound`, `OneActiveRun`, `RoundHasOneRequest`, `HistoryFrozen`, `KeepsPromise` (refinement of `ApprovedChange`) |
| `worker` | 2, 1, 2, 1, 0, 1 | `TerminalWriteSettled`, `SucceededIsEarned`, `WaitingIsResumable`, `CheckpointNeverRegresses`, `ImplementsProtocol` (`DurableSpec` implements `RunControls!Spec`) |
| `settle` | 1, 2, 2, 1, 0, 1 | `RunSettles`, `DeferredInvestigateStarts` (liveness) |
| `decisions` | tables, see below | `CheckObserved`, `HealthReport`, `OwnReports`, `WriteGrounded`, `WriteApproved`, `RecoveryObserved`, `RecheckSame`, `RuleHealthy` |
| `observation` | 2 processes, 3 invocations, 2 targets, 3 samples, 2 required | `PassedIsStable`, `VerdictIsFinal`, `WindowConcludes` (liveness) |
| `investigation` | 2 queries, 4 model calls, 3 decisions, 1 question, 1 crash, lag 2 | `PaidOnce`, `RereadHasBasis`, `PromptsStandUnlessLost`, `LastCallTerminalUnlessLost`, `InvestigationEnds` (liveness) |
| `dialogue` | 2 keys, 2 posts, 4 runs, 2 faults, 2 attempts | `LanesExclusive`, `OneRoundPerKey`, `RetryIsInert`, `StopHolds`, `DelayedVerdictCurrent`, `DelayedEnds` (liveness) |
| `replayed_prompt` | as `investigation` | violation of `PromptsStand`, see section 5 |
| `confirmed_write` | | violation, see section 5 |
| `pending_investigate` | | violation, see section 5 |
| `selected_investigate` | | violation, see section 5 |

Why the bounds are enough to be interesting: two workers and one fault give a
stale worker beside an owner; a stale worker that is still about to send needs
one pause, a takeover after a crash needs one crash.  One foreign change separates
every pair of read and write.  One control reaches every arbitration with a worker.
In `rounds` two people race each other,
and two activations race for the request one of them deferred; two runs give a closed
parent and a live child.  Its stale workers are those of stopped runs and its late
PATCHes those whose answer was lost, which takes no fault; lease loss and crashes
are in `ledger`, and the theorems about `Spec` (section 4) have any number of
workers, runs, faults and controls.

In `observation` the interval, the phases and the total time are 1, 2, 2 and 3
ticks, so that each deadline falls before and after a sample; three invocations
allow a takeover of a takeover.  In `investigation` four calls and three
decisions (one call more than decisions, as in the code's policy of six and five)
leave room for a correction, a reread after an answer and the forced last call;
one crash replays any step.  `MaxLag = 2`: a crash may take the checkpoints of two
nodes with it, two decisions among them.  The code does not say how far the graph
library's saver may fall behind, so the runs take the smallest lag at which a
longer loss than one decision happens.  `HistorySpec` is `InvestigationSpec` with
a variable `lost` that records whether a crash has taken a decision and the one
after it; it restricts nothing.  `PromptsStandUnlessLost` and
`LastCallTerminalUnlessLost` show that only such a crash breaks the two properties.
In `dialogue` two keys give every pair of requests, two posts either two requests
or one and its repetition, answers included, in any overlap; four runs are a
diagnosis, an interaction and what either may start.

`decisions` has one table per decision.  A case is a sound input, or one with a
fault to be found, changed in every two (business checks, three) respects from
lists of alternatives that cover the values the code tells apart; a decision
with two inputs (diagnosis and evidence, plan and evidence, approval and state)
combines them.  The judging formulas are written from what was observed, not
from the code's intermediate values: `HealthReport` and `RecoveryObserved` count the
Deployment's ready Pods themselves (`EnoughReady`), and `RuleHealthy` speaks of
the cluster and of the reads that failed, not of the bundle.

`ledger` and `rounds` use worker symmetry and the constraint
`Representative`, which cuts states that differ only in columns no transaction
of the layer reads (whether a run succeeded or failed, the error code, the
checkpoint marker) to one representative; without foreign changes it also keeps
only plans made against the first configuration or the previous run's.  The
liveness runs use neither.  Deadlock checking is off in these two and in
the runs of the other modules: with the bounds used up, the last state of a settled incident has
no successor.  A worker polls for ever, so the runs of `DurableWorker` check
deadlock.

**Fairness.**  `FairDurableSpec` assumes weak fairness of a worker's main
thread, of its graph, of its saver and of its executor, of the container
restarting a dead worker (`compose.yaml`, `restart: unless-stopped`), and of
database time passing a lease that nobody renews.  Nothing is assumed of people,
of the API server or of other clients: a PATCH may stay unanswered, because the
request timeout ends the call.

`InvestigationSpec` assumes that the run is claimed again after a crash (what
`RunSettles` is about), that its worker goes on and that the saver works; not
that the human answers.  `WindowSpec` assumes that time passes, that a process
that is not stopped goes on and that someone resumes a window that was left.
`DialogueSpec` assumes that workers poll and go on, that due dates pass and that
the leases of dead workers run out; no handler of the API and no person needs to
act.

## 4. Proofs

`ProtocolProofs` proves of `RunControls!Spec`, for every set of workers and
every value of the bounds, from the assumptions `LeaseAssumption`,
`DriftAssumption` and `ControlAssumption` (the bounds are naturals, `NoWorker`
is no worker):

* `TypeCorrect`: `Spec => []TypeOK`
* `OnePatchPerRun`: `Spec => []AtMostOnePatch`
* `RejectionIsFinal`: `Spec => []RejectedNeverWrites`
* `ConfirmationIsTrue`: `Spec => []ConfirmedWasApplied`

all through `Inductive`: `Spec => []IInv`.  None of the properties is inductive
alone.  That a run sends one PATCH needs that only one executor per run is past
the dispatch (`OneDispatcher`), which holds because the dispatch moves the
journal row out of `prepared` and no transition returns it there.  That nothing
was sent while the row is `none` or `prepared`, nor between dispatch and send
(`NotYetSent`), makes the first send the only one.  A stale executor still past
the dispatch keeps the row out of `prepared` for everyone else; a stale
executor before the dispatch is stopped by the fence, and an owner's knowledge
of the row is current (`OwnerIsCurrent`), because all others are fenced and a
control that rejects a prepared row takes the lease in the same transaction.
That a rejected row means no write needs that an executor which records a
refusal saw one (`AnswerIsTrue`).  The proof has one lemma per action, and in
it one step per conjunct that the action can disturb.

`RoundProofs` proves, of the same specification and from the same assumptions:

* `OneRunAtWork`: `Spec => []OneActiveRun`
* `NoRoundPastOpenWrite`: `Spec => []OpenWriteBlocksRound`
* `OneRequestPerRound`: `Spec => []RoundHasOneRequest`
* `HistoryIsFrozen`: `Spec => HistoryFrozen`
* `ChangeIsOnApprovedBase`: `Spec => AppliedOnApprovedBase`
* `ProtocolKeepsPromise`: `Spec => KeepsPromise`, the refinement of
  `ApprovedChange`

through `RoundsInductive`: `Spec => [](IInv /\ RoundInv)`.  `RoundInv` adds what
`IInv` says nothing about.  A round is opened only when no operation is
unresolved, and by `IInv` a write that is open or about to be sent keeps its
journal row unresolved; so no round lies past such a write
(`OpenWriteBlocksRound`).  A foreign change between the approval and the PATCH
must make the PATCH fail: every snapshot of the object is older than the object
or the object itself (`SnapshotsArePast`: a `resourceVersion` names one state),
the executor compares the configuration it read with the approved one before
it prepares, and the PATCH tests the `resourceVersion` of that snapshot
(`ApprovalIsBound`).  History is frozen because a superseded run is terminal, so
every fence refuses its stale workers, and its journal row is settled.  The two
action properties and the refinement need no other invariant.
`RoundHasOneRequest` counts: each accepted request adds one round and one
started control, so its proof is about cardinalities of sets that grow together.

`DurableProofs` proves of `DurableSpec`, one worker process being main thread,
graph, saver and executor:

* `WorkerImplementsProtocol`: `DurableSpec => ImplementsProtocol`
* `TerminalIsSettled`, `SuccessIsEarned`, `WaitingCanResume`: the three
  invariants of the run `worker`
* `StoredGoesForward`: `DurableSpec => CheckpointNeverRegresses`
* `WorkerKeepsPromise`: `DurableSpec => KeepsPromise`, the two refinements composed

The refinement is shown step by step: each step of a worker is a step of the
protocol layer or leaves its variables alone.  So `IInv` and `RoundInv` hold of
the worker as well, and `DurableInductive` adds `DurableInv`.  It relates four
stores that are written at different moments: the row, the journal, the stored
checkpoint and the graph in memory.  Queued checkpoints lie between the stored one
and the graph, in graph order (`SavesInOrder`), which a save by a stale worker
cannot disturb because it is fenced; an owner's graph of a decided run is past
its plan (`GoesOn`); an operation exists only under an approval (`RowInv`); and
what an owner does next fits what it read (`Knows`).  Success is then earned
because the only ways to publish it are through `classify()` and through the
projection of the stored checkpoint.  The module begins with the three properties
of `Classify` for every claimed row, checkpoint, journal row and outcome of the
comparisons (`ClassifyAuthorizes`, `ClassifyEvidences`, `ClassifyHandsOver`).

`WindowProofs` proves `PassedWindowIsStable` and the action property
`VerdictStands` of `WindowSpec`, for any processes, targets and durations
(`WindowAssumption`).  `WindowInv` says that tokens are given out once, that the
invocation whose token is in the row holds the row's window, and that
`consecutive` counts spaced passing samples of its own segment.  An invocation
that was replaced may believe anything: its save compares tokens.

`InvestigationProofs` proves `EveryRequestPaidOnce` and `RereadsAreJustified` of
`InvestigationSpec`, for every set of queries and batches, all limits, any
number of crashes and any lag of the checkpoints (`InvestigationAssumption`).
`InvestigationInv` says that what was sent is on the ledger and what is about to
be sent has not been; that a read on the ledger has the grant of its own request; and that a
grant beyond the first renews an earlier sample on a basis of its own.  None of it
mentions the graph's checkpoints beyond their shape, which is why a replay from
any of them is harmless.

`ReplayProofs` proves what that invariant does not speak of: the graph that is
replayed and the prompts it builds.  All of it is again for every set of queries
and batches, all limits and any number of crashes, and rests on
`InvestigationAssumption` alone:

* `PromptsStandWhenOneBehind`:
  `InvestigationSpec /\ NoTwoDecisionsLost => []PromptsStand`
* `LastCallWhenOneBehind`:
  `InvestigationSpec /\ NoTwoDecisionsLost => LastCallTerminal`
* `ReadsAlwaysStand`: `InvestigationSpec => ReadsStand`
* `EveryStepShrinks`: `InvestigationSpec => []LeftOK /\ [][Shrinks]_vars`

`NoTwoDecisionsLost` says that no crash takes with it the point from which a
decision starts that comes after a lost one.  The saver may be as far behind as
it likes while no crash comes, and a crash that loses one checkpoint, or a
decision and a question, does no harm.  Nothing in the code ensures the premise,
and without it both properties are false: the run `replayed_prompt` is the
counterexample for one, section 5 has the other.  The run `investigation` checks
both up to the first such crash.
`ReadsStand` needs no premise: a read or an initial request is bound to its
grant, so no loss of checkpoints makes its replay meet another prompt.

The argument goes through `ReplayInductive`:
`InvestigationSpec => [](InvestigationInv /\ ReplayInv)`.  `ReplayInv` says that
the stored point, the points on their way and the graph in memory lie on one
line (`Chain`, `OnTop`): from each to the next there is one decision and the
reads it asked for, with the results the ledger holds.  Every entry of the
ledger fits that line (`ModesFit`, `RequestsFit`), and the position in the
node fits both (`NowFit`).  On top of it `PromptInv` says that an entry of the
ledger that the next decision from a point will meet was made from the values
that point leads to (`Paid`), and that no entry is further ahead than the points
on their way (`NotAhead`), which is what a crash that loses two decisions
destroys.  `LastInv` adds, for the last call, that a request whose mode is kept
but which was not reserved (`Pending`) has a call to spare if it is not terminal
and still ahead of the stored point, and that a correction comes after the reply
it corrects.

`EveryStepShrinks` is the safety half of `InvestigationEnds`.  `LeftOK` says that
nine numbers are naturals: crashes left, decisions left, nodes before the next
decision, answers, corrections, entries of a node, reads, steps of the request,
checkpoints on their way.  `Shrinks` says that the first of them that a step
changes gets smaller.  Lexicographic order on tuples of naturals is well
founded, so no behaviour takes infinitely many steps: not the worker, not the
saver, not a person who answers, not crashes and replays together.  A crash gives
decisions back, and pays for them with the first number.  What is left to TLC is
that a run that has stopped has stopped where `InvestigationEnds` says, which
speaks of ENABLED.

`DialogueProofs` proves of `DialogueSpec`, for any keys, workers and limits
(`DialogueAssumption`), `LanesStayApart`, `OneRoundForAKey` and the action
properties `StopIsHeld`, `VerdictsAreCurrent` and `RetriesAreInert`.  The
invariants of the property pair are not inductive: that a key opens one round
needs to know, for a handler paused between its reads and its transaction, which
rounds of the key are newer than the run it read (`PostOK`), and, for a pending
control, that every round of its key is newer than its parent (`RoundsOK`); that a
stop holds needs that no open request was accepted before it (`ControlsOK`).
`RetriesAreInert` covers interactions, controls and answers: a repeated post is
on a way that meets the row its first post left.

`DecisionProofs` has two theorems for each of the eight decisions.  The first
is about every input of the declared types: any number of Pods and checks, any
evidence, answer, plan, cluster or failing read (`EveryCheckIsObserved`,
`RuleEngineIsHonest`, `NoFaultIsTrue`, `OwnReportsAlwaysPass`,
`WritesAreGrounded`, `OnlyTheApprovedWrites`, `RecoveryIsReal`,
`JudgementsAgree`).  The second is the invariant of the run `decisions`, for any
`PodName` and `CheckId`; the part of it that needs work is that the cases of the
tables are inputs (`SamplesAreEvidence`, `ClusterCases`).  Two theorems have a
premise worth reading.  `OnlyTheApprovedWrites` assumes
`NotBound \notin Diagnosis`: what a fingerprint holds in place of an omitted
diagnosis is not itself a diagnosis.  `JudgementsAgree` takes the earlier
snapshot from `CollectProfile`, because a snapshot with status "matched" and no
generation, which the code never makes, could be called recovered and not be
comparable.

`IInv` is an invariant of the run `ledger`.  TLC has checked the others
as well, `RoundInv` with the configuration of `ledger`,
`DurableInv` of `worker`, `WindowInv` of `observation`, `InvestigationInv` of
`investigation` and `DialogueInv` of `dialogue`, `ReplayInv`, `LeftOK` and
`[][Shrinks]_vars` of `investigation`, and all of them hold there.
They are not listed among the properties of these runs: the runs check what
the invariants are for, and the proofs establish the invariants themselves.

Only model-checked:

* Liveness (`RunSettles`, `DeferredInvestigateStarts`, `WindowConcludes`,
  `InvestigationEnds`, `DelayedEnds`): the prover has no rules for fairness and
  ENABLED.
* The four refuted promises of section 5.

## 5. What the runs found

* **`confirmed_write`.**  ADR 0001 sends a reconciling run whose write is
  confirmed back to running for verification only.  After a recorded response,
  a transient error of the checkpoint save becomes `UnsafeRetry` and the run is
  published as `reconciling`, a status `claim()` never selects.
* **`pending_investigate`.**  An exception between `prepare` and `dispatch`
  ends the run with its journal row still `prepared`.  Nothing moves that row
  again, and it blocks rounds, approvals and deferred requests of the incident.
* **`selected_investigate`.**  A run that failed while its last checkpoint shows
  `awaiting_approval` (a worker died before the interrupt was saved and the
  attempts were used up) makes `accept_round()` raise `RoundConflict` out of
  `activate_pending()` and of the worker loop.  The restarted worker meets the
  same row on its first poll.

* **`replayed_prompt`.**  `decide` is replayed, after a crash that took its
  checkpoint and the next one with it, with its own reads on the ledger.  They
  count as prior reads (`investigation/graph.py:187-195`), so the saved reply, a
  collection accepted the first time, is refused for want of a resample reason and
  corrected, and the step goes on differently.  The next request was paid for
  already, with another prompt: `reserve()` raises `REQUEST_INPUT_CHANGED`
  (`runtime/budget.py:63-64`) and the investigation ends in a handoff.
  `investigation/model.py:33` says that a replay never changes a paid prompt; the
  code keeps the mode of a request, not the rest of its prompt.

Five observations without a run of their own:

* **The last call after a double loss.**  In the same way as in `replayed_prompt`
  the correction of a replayed decision spends a call, and the decision after it,
  whose mode was stored before the crash as not terminal, becomes the last
  permitted call.  `docs/acceptance/6B-3a-investigation-view.md:86` says that the
  ledger is looked at before every call; it is only for a request id that has no
  stored mode.  TLC refutes `LastCallTerminal` for `InvestigationSpec` with two
  questions.
* **A lost outcome can be passed over.**  A crash in `collect` with the
  checkpoint of `decide` not stored yet replays `decide`; its own reserved read
  now counts as a prior read of the query, the decision is refused for want of a
  resample reason, and the correction call may conclude, although the outcome of
  the interrupted read is unknown.  `docs/acceptance/6B-2a-human-resampling.md:42`
  says that an unfinished read or a lost outcome is handed over as unknown and
  that resampling does not bypass a request in flight.
* **A matched Pod whose status could not be read is left out.**  `healthy_rule`
  looks only at the matched Pods it has a status of (`diagnosis/rules.py:365-374`)
  and counts the ready endpoints of whichever Pod.  A Service with one ready Pod
  and one that crashes is called healthy when the read of the second failed.
  `RuleHealthy` states what is left: the Service, its Pods and its endpoints were
  listed, an endpoint exists, and every matched Pod that was read is sound.
* **A list that could not be read looks empty.**  When `list_service_pod_names`
  raises, the bundle keeps its empty default, and `selector_mismatch_rule`
  reports a Service that matches no Pods (`diagnosis/rules.py:95-127`,
  `tools/evidence_collector.py:110-124`).  `RuleHealthy` shows that the opposite
  error, health from a missing list, does not happen.
* **Two overlapping posts of one key can be applied along both routes.**  A
  handler paused between its unlocked reads and its transaction goes on as an
  interaction although its twin was applied as a control, even after a stop.
  `OneRoundPerKey` shows the damage is bounded: one message, one interaction, at
  most one round; `RetryIsInert` covers repetitions that start after the first
  was carried out.

`DeferredInvestigateStarts` is the promise that does hold: a request that
`accept_round()` would accept is started or superseded.

## 6. Not modelled

* The synchronous execution mode: its executor (`agent/executor.py`,
  `tools/remediation_tools.py`) applies, compares and rolls back within one
  request, without leases or journal.
* Seconds and tokens of the budget, and the timers of nodes outside the
  investigation; the intent `auto` of an interaction, which a model routes.
* Acceptance of a new incident, context digests of a round, prompt assembly, the
  projection of an investigation into the incident state.
* Kubernetes and HTTP calls, prompts, retrieval, evaluation scripts and the
  frontend: I/O and text.  What a read returns is a choice in the model.
* The graceful shutdown window of a worker (it ends in the process exiting,
  which is a crash here), worker presence rows, and runs from before the runs
  table existed.
* `waiting_user` and `answer()` in the protocol layer: there a run that asks the
  human has no counterpart (`FinishStatus` has no such end).  A run waits for an
  answer before any approval or write, holds no lease meanwhile and is queued
  again by the answer; `Dialogue` and `Investigation` model it.
* Composition of `Investigation` with `DurableWorker`: in the latter the nodes
  before the approval are one step, `Diagnose`, whose outcomes include every end
  of an investigation.

## 7. Plan

1. *(done)* leases, journal, controls and rounds; recovery; the worker; first
   proofs.
2. *(done)* decisions as tables; observation windows; the investigation over its
   budget; the dialogue with interactions, replays and delayed rechecks.
3. *(done)* proofs: the rounds and the refinement of `ApprovedChange`; the worker
   implementing the protocol layer; window, investigation, dialogue; the decisions
   for every input.
4. *(done)* replays: the prompts and the last call of an investigation when no
   crash takes two decisions with it, what happens otherwise, and that every step
   of it shrinks what is left.
5. Still to add: measures like that of `EveryStepShrinks` for the window and the
   dialogue; lemmas shared by `RoundProofs` and `DurableProofs` in one place.
6. The synchronous executor as a small machine of its own.
