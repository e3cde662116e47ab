---------------------------- MODULE RunControls ----------------------------
(***************************************************************************)
(* Arbitration between people and workers (persistence/controls.py,        *)
(* persistence/rounds.py): stop, supplement and investigate controls, the  *)
(* diagnosis rounds of an incident, and the activation of a deferred       *)
(* investigate request.  Every transaction locks the incident row, so it   *)
(* is one step; the API's earlier read of the latest run is another.       *)
(*                                                                         *)
(* The module closes the protocol layer: Next lets a worker that holds a   *)
(* lease make any call of RunLeases and OperationLedger at any time, so    *)
(* what is shown here rests on the transactions alone and not on the       *)
(* order in which Worker.execute happens to call them.                     *)
(***************************************************************************)
EXTENDS OperationLedger, FiniteSets

CONSTANT MaxControls  \* human requests in a behaviour (bound)

ASSUME ControlAssumption == MaxControls \in Nat

Request == 1..MaxControls

VARIABLE control  \* per request: the API's read, then the controls row

vars == <<leaseVars, ledgerVars, control>>

\* "read" and "ended": the API has read the latest run, still active or
\* terminal, and a view of it; nothing is stored yet.  "round": the request was
\* POST /runs and created a run.
ControlRow == [status: {"none", "read", "ended", "pending", "saved", "started",
                        "superseded", "round"},
               parent: Run, snap: Output]

ControlTypeOK == control \in [Request -> ControlRow]

ControlInit ==
  control = [c \in Request |-> [status |-> "none", parent |-> 1,
                                snap |-> "none"]]

\* The newest diagnosis run: runs exist from 1 up.
IsLatest(r) == run[r].status # "absent" /\ \A q \in Run : q > r => run[q].status = "absent"

\* Mutant: a request whose answer was lost does not count as open.
NoUnresolvedAnswered ==
  \A r \in Run : op[r].state \notin {"prepared", "dispatching", "manual_required"}

NoUnresolved == \A r \in Run : op[r].state \notin Unresolved

-----------------------------------------------------------------------------
\* POST /controls and POST /runs begin with an unlocked read of the latest run
\* and of a view of its state; s classifies that view.  Requests are numbered
\* in the order they arrive.
ReadLatest(c, s) ==
  /\ control[c].status = "none"
  /\ \A d \in Request : d < c => control[d].status # "none"
  /\ \E r \in Run :
       /\ IsLatest(r)
       /\ control' = [control EXCEPT ![c] =
            [status |-> IF run[r].status \in Terminal THEN "ended" ELSE "read",
             parent |-> r, snap |-> s]]
  /\ UNCHANGED <<leaseVars, ledgerVars>>

Active(r) == run[r].status \notin Terminal

\* The operation may have reached the cluster.
Dispatched(r) == op[r].state \notin {"none", "prepared", "rejected"}

\* A control on an active run revokes its authority; before the dispatch it
\* also cancels the run and releases the lease.
ControlledRun(r, snap) ==
  IF ~Active(r) THEN run[r]
  ELSE IF Dispatched(r)
  THEN [run[r] EXCEPT !.stop = TRUE, !.invalidated = TRUE]
  ELSE [run[r] EXCEPT !.stop = TRUE, !.invalidated = TRUE,
          !.status = "cancelled", !.owner = NoWorker, !.live = FALSE,
          !.error = "other",
          !.output = IF run[r].output = "none" THEN snap ELSE run[r].output]

ControlledOp(r) ==
  IF Active(r) /\ op[r].state = "prepared"
  THEN [op[r] EXCEPT !.state = "rejected"] ELSE op[r]

\* The rows a control leaves: its own is pending only for investigate, and
\* stop and investigate supersede what was pending.
ControlRows(c, action) ==
  [d \in Request |->
     IF d = c THEN [control[c] EXCEPT !.status =
                      IF action = "investigate" THEN "pending" ELSE "saved"]
     ELSE IF control[d].status = "pending" /\ action # "supplement"
     THEN [control[d] EXCEPT !.status = "superseded"] ELSE control[d]]

Control(c, action) ==
  LET r == control[c].parent IN
  /\ control[c].status \in {"read", "ended"}
  /\ IsLatest(r)
  /\ revision' = revision + 1
  /\ run' = [run EXCEPT ![r] = ControlledRun(r, control[c].snap)]
  /\ op' = [op EXCEPT ![r] = ControlledOp(r)]
  /\ control' = ControlRows(c, action)
  /\ UNCHANGED <<lease, lost, faults, ledgerVars>>

-----------------------------------------------------------------------------
\* accept_round(): the view of the parent must not show an open approval,
\* unless a control cancelled the parent.
ViewAllowsRound(r, snap) ==
  \/ run[r].status = "cancelled" /\ run[r].invalidated
  \/ snap # "awaiting"

RoundAllowed(r, snap) ==
  /\ IsLatest(r)
  /\ run[r].status \in Terminal
  /\ ViewAllowsRound(r, snap)
  /\ NoUnresolved

\* The child is accepted under the current event revision; the parent's
\* output is frozen.
AcceptRound(r, snap) ==
  /\ RoundAllowed(r, snap)
  /\ r + 1 \in Run
  /\ run' = [run EXCEPT ![r].output = IF @ = "none" THEN snap ELSE @,
                        ![r + 1] = NewRow(revision)]
  /\ UNCHANGED <<op, revision, lease, lost, faults, ledgerVars>>

\* POST /runs after its read, which refuses an active run.
PostRound(c) ==
  /\ control[c].status = "ended"
  /\ AcceptRound(control[c].parent, control[c].snap)
  /\ control' = [control EXCEPT ![c] = [@ EXCEPT !.status = "round"]]

\* activate_pending(): what a pending request's round starts from.
Previous(c) == LET out == run[control[c].parent].output IN
               IF out = "none" THEN control[c].snap ELSE out

\* Mutant: the request is not looked at again under the lock.
CandidateUnlocked(c) ==
  /\ control[c].status \in {"pending", "started"}
  /\ run[control[c].parent].status \in Terminal
  /\ NoUnresolved

Candidate(c) ==
  /\ control[c].status = "pending"
  /\ run[control[c].parent].status \in Terminal
  /\ NoUnresolved

ActivateSupersede(c) ==
  /\ Candidate(c)
  /\ ~IsLatest(control[c].parent)
  /\ control' = [control EXCEPT ![c] = [@ EXCEPT !.status = "superseded"]]
  /\ UNCHANGED <<leaseVars, ledgerVars>>

ActivateStart(c) ==
  /\ Candidate(c)
  /\ AcceptRound(control[c].parent, Previous(c))
  /\ control' = [control EXCEPT ![c] = [@ EXCEPT !.status = "started"]]

-----------------------------------------------------------------------------
ResetEx(w) == ex' = [ex EXCEPT ![w] = IdleEx]

\* finish() as the worker calls it; status, error and output are its choice.
Publish(w) ==
  /\ Free(w)
  /\ \E s \in {"succeeded", "failed", "waiting_approval", "retry_scheduled",
               "reconciling"}, e \in ErrorCode, out \in Output :
       Finish(w, s, e, out)
  /\ ResetEx(w)
  /\ UNCHANGED <<target, drifts, patch, control>>

\* A result that a sound lease could not publish is a storage fault, unless it
\* is the one that already broke the reconciliation.
GiveUp(w) ==
  /\ Free(w) /\ Abandon(w) /\ ResetEx(w)
  /\ IF Owns(w) /\ ~lost[w] /\ ex[w].result # "broken"
     THEN Fault ELSE UNCHANGED faults
  /\ UNCHANGED <<target, drifts, patch, control>>

\* The worker takes what the executor returned.
TakeResult(w) ==
  /\ ex[w].pc = "done" /\ ResetEx(w)
  /\ UNCHANGED <<leaseVars, target, drifts, patch, control>>

\* A storage or client call that changes no row fails.
CallFails(w) ==
  /\ Fault
  /\ UNCHANGED ex \/ (Free(w) /\ ResetEx(w))
  /\ UNCHANGED <<run, op, revision, lease, lost, target, drifts, patch, control>>

\* The worker process dies; a request it sent stays in flight.
Crash(w) ==
  /\ Fault
  /\ lease' = [lease EXCEPT ![w] = NoLease]
  /\ lost' = [lost EXCEPT ![w] = FALSE]
  /\ ResetEx(w)
  /\ UNCHANGED <<run, op, revision, target, drifts, patch, control>>

LeaseStep(w) ==
  /\ Claim(w) \/ HeartbeatFails(w) \/ MarkCheckpointStarted(w)
  /\ UNCHANGED <<ledgerVars, control>>

ExecutorStep(w) ==
  /\ \/ ExecuteBegin(w) \/ CheckOperation(w) \/ ReadTarget(w) \/ Prepare(w)
     \/ Dispatch(w) \/ AssertOwned(w) \/ SendPatch(w) \/ PatchAnswered(w)
     \/ RecordOutcome(w) \/ ExecuteRaises(w)
     \/ ReconcileBegin(w) \/ Observe(w) \/ Settle(w) \/ ReconcileRaises(w)
  /\ UNCHANGED control

ClusterStep ==
  /\ Drift \/ \E r \in Run : DeliverPatch(r)
  /\ UNCHANGED control

HumanStep ==
  \/ \E r \in Run, d \in {"approved", "rejected"}, p \in Config :
       QueueApproval(r, d, p) /\ UNCHANGED control
  \/ \E c \in Request :
       \/ \E s \in Output \ {"none"} : ReadLatest(c, s)
       \/ \E a \in {"stop", "supplement", "investigate"} : Control(c, a)
       \/ PostRound(c)

Init == LeaseInit /\ LedgerInit /\ ControlInit

Next ==
  \/ \E w \in Worker : \/ LeaseStep(w) \/ ExecutorStep(w) \/ Publish(w)
                       \/ GiveUp(w) \/ TakeResult(w) \/ CallFails(w) \/ Crash(w)
  \/ \E r \in Run : Expire(r) /\ UNCHANGED <<ledgerVars, control>>
  \/ \E c \in Request : ActivateSupersede(c) \/ ActivateStart(c)
  \/ ClusterStep
  \/ HumanStep

Spec == Init /\ [][Next]_vars

-----------------------------------------------------------------------------
\* Types of the whole protocol state.
TypeOK == LeaseTypeOK /\ LedgerTypeOK /\ ControlTypeOK

\* At most one PATCH request is ever sent for a run, whatever the crashes,
\* expired leases, retries and repeated calls of execute() (runtime/operations.py:
\* the journal row goes from prepared to dispatching once).
AtMostOnePatch == \A r \in Run : patch[r].sent <= 1

\* The worker may still send run r's PATCH.
AboutToSend(r) == \E w \in Worker : lease[w].run = r /\ ex[w].pc \in {"own", "send"}

\* A run whose operation is journalled as rejected, or that has none, did not
\* and will not change the cluster: stop controls and refused preconditions
\* are final even for a worker that was already inside execute().
RejectedNeverWrites ==
  \A r \in Run : op[r].state \in {"none", "prepared", "rejected"} =>
    patch[r].st \in {"unsent", "refused"} /\ ~AboutToSend(r)

\* An operation journalled as succeeded or reconciled is one whose own request
\* was applied, with the approved configuration and the recorded response.
ConfirmedWasApplied ==
  \A r \in Run : op[r].state \in {"succeeded", "reconciled"} =>
    /\ patch[r].st = "applied"
    /\ op[r].response = patch[r].response
    /\ patch[r].response.cfg = r

\* While a run's write is in flight, or a worker paused before sending it may
\* still send it, no later round of the incident exists.
OpenWriteBlocksRound ==
  \A r \in Run : patch[r].st = "flying" \/ AboutToSend(r) =>
    \A q \in Run : q > r => run[q].status = "absent"

\* A change reaches the cluster only over the configuration the approving
\* human saw, and only for an approved run (JSON PATCH test operations plus
\* the prior_configuration comparison in execute()).
AppliedOnApprovedBase ==
  [][\A r \in Run : patch[r].st = "flying" /\ patch'[r].st = "applied" =>
       target.cfg = run[r].prior /\ run[r].approval = "approved"]_vars

\* Once a later round exists, the run, its operation and its request are
\* history: no stale worker, control or reconciliation changes them.
HistoryFrozen ==
  [][\A r \in Run : (\E q \in Run : q > r /\ run[q].status # "absent") =>
       run'[r] = run[r] /\ op'[r] = op[r] /\ patch'[r] = patch[r]]_vars

\* At most one run of the incident is not terminal.
OneActiveRun ==
  \A r, q \in Run : r < q /\ run[q].status # "absent" => run[r].status \in Terminal

\* Every round after the first was opened by exactly one request: repeated polls,
\* two people asking at once, and a request that was overtaken never add one.
RoundHasOneRequest ==
  Cardinality({c \in Request : control[c].status \in {"started", "round"}})
    = Cardinality({r \in Run : r > 1 /\ run[r].status # "absent"})

-----------------------------------------------------------------------------
\* Refinement mapping to ApprovedChange.
ChangeOf(p) == CASE p.st = "unsent"  -> "none"
                 [] p.st = "flying"  -> "open"
                 [] p.st = "applied" -> "applied"
                 [] p.st = "refused" -> "refused"

Promise == INSTANCE ApprovedChange WITH
             decision <- [r \in Run |-> run[r].approval],
             change   <- [r \in Run |-> ChangeOf(patch[r])]

\* The protocol of leases, journal and controls implements the one-change
\* promise: at every step the cluster sees at most what ApprovedChange allows.
KeepsPromise == Promise!Spec

-----------------------------------------------------------------------------
(* The inductive invariant behind the write properties.                     *)

\* The worker has journalled the dispatch in this call of execute().
PostDispatch == {"own", "send", "await", "ok", "mismatch", "refused", "unknown"}
Before == {"none", "prepared"}

\* An executor that is under way works for the run of its worker's lease.
BusyHasLease == \A w \in Worker : ~Free(w) => lease[w].run # 0

\* Only one call of execute() per run gets past the journal's dispatch.
OneDispatcher ==
  /\ \A w \in Worker : ex[w].pc \in PostDispatch => op[lease[w].run].state \notin Before
  /\ \A v, w \in Worker :
       ex[v].pc \in PostDispatch /\ ex[w].pc \in PostDispatch
         /\ lease[v].run = lease[w].run => v = w

\* Nothing has been sent before the dispatch, nor between it and the send.
NotYetSent ==
  /\ \A r \in Run : op[r].state \in Before => patch[r].st = "unsent" /\ patch[r].sent = 0
  /\ \A w \in Worker : ex[w].pc \in {"own", "send"} =>
       patch[lease[w].run].st = "unsent" /\ patch[lease[w].run].sent = 0

\* What an owner read of its operation before the dispatch is still true: the
\* fence keeps everyone else out, and a control that changes it takes the
\* lease away.
OwnerIsCurrent ==
  \A w \in Worker : Owns(w) =>
    /\ ex[w].pc \in {"read", "prepare"} => op[lease[w].run].state \in Before
    /\ ex[w].pc \in {"dispatch", "reject"} => op[lease[w].run].state = "prepared"

\* What an executor learnt of its request is what happened to it.
AnswerIsTrue ==
  \A w \in Worker :
    LET p == patch[lease[w].run] IN
    /\ ex[w].pc = "refused" => p.st = "refused"
    /\ ex[w].pc = "ok" => /\ p.st = "applied" /\ ex[w].seen = p.response
                          /\ p.response.cfg = lease[w].run

IInv ==
  /\ TypeOK /\ BusyHasLease /\ OneDispatcher /\ NotYetSent /\ OwnerIsCurrent
  /\ AnswerIsTrue /\ AtMostOnePatch /\ RejectedNeverWrites /\ ConfirmedWasApplied

-----------------------------------------------------------------------------
(* What the round properties, the approved base and the promise rest on.    *)

\* Nobody has touched a run that does not exist yet.
AbsentIsBlank ==
  \A r \in Run : run[r].status = "absent" =>
    /\ run[r].approval = "none" /\ patch[r].st = "unsent"
    /\ \A w \in Worker : lease[w].run # r

\* resourceVersion identifies a state of the object: a snapshot read earlier
\* that has the object's present version is the present object.
Past(s) == s.rv <= target.rv /\ (s.rv = target.rv => s = target)

SnapshotsArePast ==
  /\ target.rv > 0
  /\ \A r \in Run : Past(op[r].before) /\ Past(patch[r].response)
  /\ \A w \in Worker : Past(ex[w].seen)

\* The journal row of r was prepared on the configuration that the approving
\* human saw.
OnApprovedBase(r) ==
  /\ op[r].state # "none" /\ op[r].before.cfg = run[r].prior
  /\ run[r].approval = "approved"

\* The claimed copy of an approval stays true, execute() runs only under one,
\* and past the precondition the journal row is the approved one, also for a
\* worker that has lost its lease since.
ApprovalIsBound ==
  /\ \A w \in Worker : lease[w].run # 0 /\ lease[w].approval = "approved" =>
       /\ run[lease[w].run].approval = "approved"
       /\ run[lease[w].run].prior = lease[w].prior
  /\ \A w \in Worker :
       /\ ex[w].pc \in {"check", "read", "prepare"} => lease[w].approval = "approved"
       /\ ex[w].pc \in {"dispatch", "own", "send"} => OnApprovedBase(lease[w].run)
  /\ \A r \in Run : patch[r].st = "flying" => OnApprovedBase(r)

\* No two runs of the incident are open, no round lies past a write that may still
\* land, no snapshot of the target is newer than the target, and whatever is on
\* its way to it was approved on the configuration it starts from.
RoundInv ==
  /\ OneActiveRun /\ OpenWriteBlocksRound /\ AbsentIsBlank /\ SnapshotsArePast
  /\ ApprovalIsBound
=============================================================================
