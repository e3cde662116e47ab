--------------------------- MODULE DurableWorker ---------------------------
(***************************************************************************)
(* The worker process (runtime/worker.py) driving the incident graph       *)
(* through the fenced checkpointer (runtime/checkpointer.py).  A worker    *)
(* polls, claims, reconciles, loads and classifies the checkpoint, runs    *)
(* the graph, and publishes what the run came to.                          *)
(*                                                                         *)
(* Every action that touches a row conjoins the transaction of RunLeases,  *)
(* OperationLedger or RunControls that the code calls at that point, so    *)
(* the specification implements theirs.                                    *)
(*                                                                         *)
(* The graph library saves checkpoints in order but behind execution: a    *)
(* node may run, and send the PATCH, before the checkpoint of the previous *)
(* node is stored, and a failed save surfaces when the invocation ends.    *)
(***************************************************************************)
EXTENDS RunControls, Recovery, Sequences

VARIABLES
  ckpt,  \* per run: the checkpoint stored for its thread
  wk     \* per worker: program point and the in-memory graph

durableVars == <<vars, ckpt, wk>>

\* err is "transient" or "permanent" as transient() tells errors apart, "lost"
\* for a lease that is gone, "unreadable" for any other error while the
\* checkpoint is being read.
Fresh(pc) == [pc |-> pc, ctx |-> "recover", g |-> EmptySaved, pend |-> <<>>,
              resume |-> FALSE, err |-> "none"]

DurableInit ==
  /\ Init
  /\ ckpt = [r \in Run |-> EmptySaved]
  /\ wk = [w \in Worker |-> Fresh("poll")]

At(w, pc) == wk[w].pc = pc
To(w, pc) == wk' = [wk EXCEPT ![w] = [@ EXCEPT !.pc = pc]]
Idle(w)   == wk' = [wk EXCEPT ![w] = Fresh("poll")]
ToExcept(w, err) == wk' = [wk EXCEPT ![w] = [Fresh("except") EXCEPT !.err = err]]

\* The facts of a run whose rows and checkpoint are intact.
Intact == [input |-> TRUE, identity |-> TRUE, binding |-> TRUE, version |-> TRUE,
           taskError |-> FALSE, dialogue |-> FALSE, answer |-> "none"]

Decide(w, s) == Classify(lease[w], s, op[lease[w].run], Intact)
StateOf(w)   == op[lease[w].run].state

-----------------------------------------------------------------------------
\* run(): deferred investigate requests are activated first.  An accept_round()
\* that refuses raises out of the loop and ends the process; the container is
\* started again.
Startable(c) == Candidate(c) /\ (IsLatest(control[c].parent)
                                 => control[c].parent + 1 \in Run)

\* Mutant: the loop only claims.
PollOnly(w) == At(w, "poll") /\ To(w, "claim") /\ UNCHANGED <<vars, ckpt>>

Poll(w) ==
  /\ At(w, "poll")
  /\ \/ /\ \A c \in Request : ~Startable(c)
        /\ To(w, "claim") /\ UNCHANGED vars
     \/ \E c \in Request :
          /\ ActivateSupersede(c) \/ ActivateStart(c)
          /\ To(w, "claim")
     \/ /\ \E c \in Request :
             /\ Startable(c) /\ IsLatest(control[c].parent)
             /\ ~ViewAllowsRound(control[c].parent, Previous(c))
        /\ To(w, "down") /\ UNCHANGED vars
  /\ UNCHANGED ckpt

Restart(w) == At(w, "down") /\ Idle(w) /\ UNCHANGED <<vars, ckpt>>

ClaimRun(w) ==
  /\ At(w, "claim")
  /\ \/ Claim(w) /\ To(w, "recover") /\ UNCHANGED <<ledgerVars, control>>
     \/ (\A r \in Run : ~Claimable(r)) /\ Idle(w) /\ UNCHANGED vars
  /\ UNCHANGED ckpt

\* The process dies anywhere in execute().
WorkerCrash(w) ==
  /\ lease[w].run # 0
  /\ Crash(w)
  /\ wk' = [wk EXCEPT ![w] = Fresh("down")]
  /\ UNCHANGED ckpt

-----------------------------------------------------------------------------
\* execute() ends without publishing.
Leave(w) == GiveUp(w) /\ Idle(w) /\ UNCHANGED ckpt
Lost(w)  == lost[w] \/ ~Owns(w)

\* Mutant: the result is written without the fence.
ConcludeUnfenced(w, s, e, out) ==
  /\ lease[w].run # 0
  /\ run' = [run EXCEPT ![lease[w].run] = FinishRow(lease[w].run, s, e, out)]
  /\ lease' = [lease EXCEPT ![w] = NoLease]
  /\ ResetEx(w)
  /\ Idle(w)
  /\ UNCHANGED <<op, revision, lost, faults, target, drifts, patch, control, ckpt>>

\* _finish() with a status, an error code and a result to freeze.
Conclude(w, s, e, out) ==
  /\ Finish(w, s, e, out) /\ ResetEx(w)
  /\ Idle(w)
  /\ UNCHANGED <<target, drifts, patch, control, ckpt>>

\* A fault of storage or of a client library inside execute()'s try block.
Throws(w, errs) ==
  /\ Fault
  /\ \E e \in errs : ToExcept(w, e)
  /\ ResetEx(w)
  /\ UNCHANGED <<run, op, revision, lease, lost, target, drifts, patch,
                 control, ckpt>>

StartReconcile(w, ctx) ==
  /\ ReconcileBegin(w)
  /\ wk' = [wk EXCEPT ![w] = [@ EXCEPT !.pc = "reconcile", !.ctx = ctx]]
  /\ UNCHANGED <<control, ckpt>>

\* _reconcile_pending(recovering=True): a write of uncertain effect, or a
\* response recorded under an earlier claim.
NeedsRecovery(w) ==
  \/ StateOf(w) \in Uncertain
  \/ /\ StateOf(w) \in {"succeeded", "reconciled"}
     /\ op[lease[w].run].epoch # lease[w].epoch

Recover(w) ==
  /\ At(w, "recover")
  /\ \/ NeedsRecovery(w) /\ StartReconcile(w, "recover")
     \/ NeedsRecovery(w) /\ ~Owns(w) /\ Leave(w)
     \/ ~NeedsRecovery(w) /\ To(w, "load") /\ UNCHANGED <<vars, ckpt>>
     \/ Throws(w, {"permanent"})

\* Only a recovering claim goes on after reconciliation, and only when the
\* write was confirmed; everything else is handed over as reconciling.
Reconciled(w) ==
  /\ At(w, "reconcile") /\ ex[w].pc = "done"
  /\ \/ /\ ex[w].result = "confirmed" /\ wk[w].ctx = "recover"
        /\ To(w, "load") /\ ResetEx(w)
        /\ UNCHANGED <<leaseVars, target, drifts, patch, control, ckpt>>
     \/ /\ ex[w].result = "manual" \/ (ex[w].result = "confirmed" /\ wk[w].ctx # "recover")
        /\ \/ Conclude(w, "reconciling", "other", "none")
           \/ Lost(w) /\ Leave(w)
           \/ wk[w].ctx # "except" /\ Throws(w, {"transient", "permanent"})
           \/ wk[w].ctx = "except" /\ Leave(w)
     \/ /\ ex[w].result = "broken"
        /\ IF ~Owns(w) \/ wk[w].ctx = "except" THEN Leave(w)
           ELSE /\ \E e \in {"transient", "permanent"} : ToExcept(w, e)
                /\ ResetEx(w)
                /\ UNCHANGED <<leaseVars, target, drifts, patch, control, ckpt>>

Initial == [EmptySaved EXCEPT !.next = "diagnose"]

\* get_state(), classify(), and the input of the graph.
Load(w) ==
  LET s == ckpt[lease[w].run]
      d == Decide(w, s)
      begin(g, pend, resume) ==
        /\ wk' = [wk EXCEPT ![w] = [Fresh("node") EXCEPT
                     !.g = g, !.pend = pend, !.resume = resume]]
        /\ UNCHANGED <<vars, ckpt>> IN
  /\ At(w, "load")
  /\ \/ ~Owns(w) /\ Leave(w)
     \/ /\ Owns(w)
        /\ \/ /\ d.action = "stop"
              /\ wk' = [wk EXCEPT ![w] = [Fresh("project") EXCEPT !.g = s]]
              /\ UNCHANGED <<vars, ckpt>>
           \/ /\ d.action # "stop" /\ lease[w].recoveryOnly
              /\ Conclude(w, "failed", "worker", "none") \/ (lost[w] /\ Leave(w))
           \/ /\ d.action # "stop" /\ ~lease[w].recoveryOnly
              /\ CASE d.action = "start" -> begin(Initial, <<Initial>>, FALSE)
                   [] OTHER -> begin([s EXCEPT !.intr = FALSE], <<>>,
                                     d.action = "resume")
     \/ Throws(w, {"transient", "permanent", "unreadable"})

-----------------------------------------------------------------------------
\* A node returned the state update g: the graph moves on and queues the
\* checkpoint, unless an earlier save has failed.
After(w, g) ==
  wk' = [wk EXCEPT ![w] = [@ EXCEPT
           !.g = g, !.resume = FALSE,
           !.pend = IF wk[w].err = "none" THEN Append(wk[w].pend, g) ELSE wk[w].pend,
           !.pc = IF g.next = "END" THEN "flush" ELSE "node"]]

NodeAt(w, n) == At(w, "node") /\ wk[w].g.next = n
Ended(g, phase) == [g EXCEPT !.next = "END", !.phase = phase]

\* validate_request .. plan_remediation: every dependency call checks the
\* lease first, and a node turns any exception into a failed phase.  The plan
\* is made against the configuration the evidence shows.
Diagnose(w) ==
  LET g == wk[w].g IN
  /\ NodeAt(w, "diagnose")
  /\ \/ After(w, Ended(g, "failed"))
     \/ /\ ~Lost(w)
        /\ \/ After(w, Ended(g, "skipped"))
           \/ After(w, [g EXCEPT !.next = "prepare_approval",
                                 !.prior = target.cfg])
  /\ UNCHANGED <<vars, ckpt>>

PrepareApproval(w) ==
  LET g == wk[w].g IN
  /\ NodeAt(w, "prepare_approval")
  /\ \/ After(w, [g EXCEPT !.next = "request_human_approval",
                           !.phase = "awaiting_approval"])
     \/ After(w, Ended(g, "failed"))
  /\ UNCHANGED <<vars, ckpt>>

\* interrupt() stops the invocation and saves the interrupt beside the
\* checkpoint; resumed, it returns the decision.  A request or a decision that
\* does not validate ends the graph.
RequestHumanApproval(w) ==
  LET g == wk[w].g IN
  /\ NodeAt(w, "request_human_approval")
  /\ \/ After(w, Ended(g, "failed"))
     \/ /\ ~wk[w].resume
        /\ wk' = [wk EXCEPT ![w] = [@ EXCEPT
                    !.pend = IF wk[w].err = "none"
                             THEN Append(wk[w].pend, [g EXCEPT !.intr = TRUE])
                             ELSE wk[w].pend,
                    !.pc = "flush"]]
     \/ /\ wk[w].resume /\ lease[w].approval = "approved"
        /\ After(w, [g EXCEPT !.next = "execute_remediation",
                              !.phase = "approval_approved", !.approved = TRUE])
     \/ /\ wk[w].resume /\ lease[w].approval = "rejected"
        /\ After(w, Ended(g, "approval_rejected"))
  /\ UNCHANGED <<vars, ckpt>>

\* execute_remediation calls LedgerExecutor.execute, whose refusals before the
\* first check also end the node.
ExecuteCall(w) ==
  /\ NodeAt(w, "execute_remediation")
  /\ \/ ExecuteBegin(w) /\ To(w, "execute") /\ UNCHANGED control
     \/ /\ Lost(w)
        /\ After(w, Ended(wk[w].g, "failed")) /\ UNCHANGED vars
  /\ UNCHANGED ckpt

ExecuteReturn(w) ==
  LET g == wk[w].g IN
  /\ At(w, "execute") /\ ex[w].pc = "done"
  /\ CASE ex[w].result = "succeeded" ->
            After(w, [g EXCEPT !.next = "verify_recovery", !.phase = "executed",
                               !.result = "succeeded"])
       [] ex[w].result = "conflict" ->
            After(w, [Ended(g, "conflict") EXCEPT !.result = "conflict"])
       [] OTHER -> After(w, Ended(g, "failed"))
  /\ ResetEx(w)
  /\ UNCHANGED <<leaseVars, target, drifts, patch, control, ckpt>>

VerifyRecovery(w) ==
  LET g == wk[w].g IN
  /\ NodeAt(w, "verify_recovery")
  /\ \/ ~Lost(w) /\ After(w, Ended(g, "verification_succeeded"))
     \/ After(w, Ended(g, "failed"))
  /\ UNCHANGED <<vars, ckpt>>

NodeStep(w) ==
  \/ Diagnose(w) \/ PrepareApproval(w) \/ RequestHumanApproval(w)
  \/ ExecuteCall(w) \/ ExecuteReturn(w) \/ VerifyRecovery(w)

-----------------------------------------------------------------------------
\* FencedPostgresSaver: mark the thread as started in its own transaction,
\* then save under the fence.  A refused or failed save drops what is queued.
MarkStarted(w) ==
  /\ wk[w].pend # <<>> /\ ~lost[w]
  /\ ~run[lease[w].run].started
  /\ MarkCheckpointStarted(w)
  /\ UNCHANGED <<ledgerVars, control, ckpt, wk>>

\* Mutant: the checkpoint is saved without the fence.
SaveUnfenced(w) ==
  /\ wk[w].pend # <<>>
  /\ run[lease[w].run].started
  /\ ckpt' = [ckpt EXCEPT ![lease[w].run] = Head(wk[w].pend)]
  /\ wk' = [wk EXCEPT ![w] = [@ EXCEPT !.pend = Tail(wk[w].pend)]]
  /\ UNCHANGED vars

SaveCheckpoint(w) ==
  /\ wk[w].pend # <<>> /\ ~lost[w] /\ Owns(w)
  /\ run[lease[w].run].started
  /\ ckpt' = [ckpt EXCEPT ![lease[w].run] = Head(wk[w].pend)]
  /\ wk' = [wk EXCEPT ![w] = [@ EXCEPT !.pend = Tail(wk[w].pend)]]
  /\ UNCHANGED vars

SaveFails(w) ==
  LET fail(e) == wk' = [wk EXCEPT ![w] = [@ EXCEPT !.pend = <<>>, !.err = e]] IN
  /\ wk[w].pend # <<>>
  /\ \/ Lost(w) /\ fail("lost") /\ UNCHANGED faults
     \/ Fault /\ \E e \in {"transient", "permanent"} : fail(e)
  /\ UNCHANGED <<run, op, revision, lease, lost, ledgerVars, control, ckpt>>

SaverStep(w) == MarkStarted(w) \/ SaveCheckpoint(w) \/ SaveFails(w)

\* The invocation returns once every save is done, and raises the first error.
Flushed(w) ==
  LET e == wk[w].err IN
  /\ At(w, "flush") /\ wk[w].pend = <<>>
  /\ \/ /\ e = "none"
        /\ wk' = [wk EXCEPT ![w] = [Fresh("project") EXCEPT
                     !.g = ckpt[lease[w].run]]]
        /\ UNCHANGED <<vars, ckpt>>
     \/ e = "lost" /\ Leave(w)
     \/ e \notin {"none", "lost"} /\ ToExcept(w, e) /\ UNCHANGED <<vars, ckpt>>

-----------------------------------------------------------------------------
OutputOf(s) == IF s.next = "none" THEN "none"
               ELSE IF s.phase = "awaiting_approval" THEN "awaiting" ELSE "other"

\* _project(): publish what the checkpoint says, once no write is uncertain.
Project(w) ==
  LET s == wk[w].g
      d == Decide(w, s) IN
  /\ At(w, "project")
  /\ \/ StateOf(w) \in Uncertain /\ StartReconcile(w, "project")
     \/ /\ StateOf(w) \notin Uncertain
        /\ IF d.action = "stop"
           THEN Conclude(w, d.status, d.error, OutputOf(s))
           ELSE Conclude(w, "failed", "other", "none")
     \/ Lost(w) /\ Leave(w)
     \/ Throws(w, {"transient", "permanent", "unreadable"})

\* The handler of an exception: a write is reconciled, a transient error is
\* retried while attempts last, and a retry that finish() refuses because of
\* the journal is handed over as reconciling.
CanRetry(w) == wk[w].err = "transient" /\ lease[w].tries < MaxAttempts

\* Mutant: the handler does not look at the journal.
HandleBlind(w) ==
  /\ At(w, "except")
  /\ Conclude(w, "failed", "worker", "none") \/ Leave(w)

Handle(w) ==
  LET r == lease[w].run IN
  /\ At(w, "except")
  /\ \/ StateOf(w) \in Uncertain /\ StartReconcile(w, "except")
     \/ /\ StateOf(w) \notin Uncertain
        /\ IF CanRetry(w)
           THEN IF RetrySafe(r)
                THEN Conclude(w, "retry_scheduled", "temporary", "none")
                ELSE Conclude(w, "reconciling", "other", "none")
           ELSE Conclude(w, "failed",
                         IF wk[w].err = "unreadable" THEN "other" ELSE "worker",
                         "none")
     \/ Leave(w)

-----------------------------------------------------------------------------
\* get_run_snapshot(): the view of a run the API starts a request from; with
\* no saved state and no explanation for that, the request is answered 503.
\* `attempt` is zero until the first claim.
View(r) ==
  IF run[r].output # "none" /\ run[r].status \in Terminal THEN run[r].output
  ELSE IF run[r].status = "queued" /\ run[r].epoch = 0 THEN "other"
  ELSE IF ckpt[r].next # "none" THEN OutputOf(ckpt[r])
  ELSE IF ~run[r].started /\ (run[r].status \in {"running", "retry_scheduled"}
                              \/ run[r].error = "worker")
  THEN "other" ELSE "none"

\* submit_approval() reads the waiting state and queues the decision bound to
\* it; the state of a waiting run does not change, so this is one step.
Approve(r, decision) ==
  /\ ckpt[r].phase = "awaiting_approval" /\ ckpt[r].intr
  /\ QueueApproval(r, decision, ckpt[r].prior)
  /\ UNCHANGED control

DurableHuman ==
  /\ \/ \E r \in Run, d \in {"approved", "rejected"} : Approve(r, d)
     \/ \E c \in Request :
          \/ \E r \in Run : IsLatest(r) /\ View(r) # "none" /\ ReadLatest(c, View(r))
          \/ \E a \in {"stop", "supplement", "investigate"} : Control(c, a)
          \/ PostRound(c)
  /\ UNCHANGED <<ckpt, wk>>

\* The main thread runs one claim at a time.
MainStep(w) ==
  \/ Poll(w) \/ Restart(w) \/ ClaimRun(w) \/ Recover(w) \/ Reconciled(w)
  \/ Load(w) \/ Flushed(w) \/ Project(w) \/ Handle(w)

DurableExecutor(w) == ExecutorStep(w) /\ UNCHANGED <<ckpt, wk>>
                      /\ wk[w].pc \in {"execute", "reconcile"} /\ ~Free(w)

DurableExpire(r) == Expire(r) /\ UNCHANGED <<ledgerVars, control, ckpt, wk>>

DurableNext ==
  \/ \E w \in Worker :
       \/ MainStep(w) \/ NodeStep(w) \/ SaverStep(w) \/ DurableExecutor(w)
       \/ WorkerCrash(w)
       \/ HeartbeatFails(w) /\ UNCHANGED <<ledgerVars, control, ckpt, wk>>
  \/ \E r \in Run : DurableExpire(r)
  \/ ClusterStep /\ UNCHANGED <<ckpt, wk>>
  \/ DurableHuman

DurableSpec == DurableInit /\ [][DurableNext]_durableVars

\* Threads of a live process keep running, a dead one is restarted, and
\* database time passes.  Nothing is assumed of people or of the cluster.
Fairness ==
  /\ \A w \in Worker : /\ WF_durableVars(MainStep(w))
                       /\ WF_durableVars(NodeStep(w))
                       /\ WF_durableVars(SaverStep(w))
                       /\ WF_durableVars(DurableExecutor(w))
  /\ WF_durableVars(\E r \in Run : DurableExpire(r))

FairDurableSpec == DurableSpec /\ Fairness

-----------------------------------------------------------------------------
\* A run is closed only when its write is settled: no terminal row (finish(),
\* control(), attempts exhausted) hides a request in flight or an outcome
\* nobody knows.
TerminalWriteSettled ==
  \A r \in Run : run[r].status \in Terminal =>
    op[r].state \notin Uncertain /\ patch[r].st # "flying" /\ ~AboutToSend(r)

\* A run published as succeeded did what its saved state says: nothing was
\* sent without an approval, and an approved change was applied by its own
\* request and then verified.
SucceededIsEarned ==
  \A r \in Run : run[r].status = "succeeded" =>
    IF run[r].approval = "approved"
    THEN /\ patch[r].st = "applied" /\ patch[r].response.cfg = r
         /\ ckpt[r].phase = "verification_succeeded"
    ELSE patch[r].sent = 0

\* A run waits for approval only in front of an open interrupt that covers
\* the plan, and before any write: what an approver is shown can be resumed.
WaitingIsResumable ==
  \A r \in Run : run[r].status = "waiting_approval" =>
    /\ ckpt[r].intr /\ ckpt[r].next = "request_human_approval"
    /\ run[r].approval = "none" /\ op[r].state = "none"

Stage(n) ==
  CASE n = "none"                   -> 0
    [] n = "diagnose"               -> 1
    [] n = "prepare_approval"       -> 2
    [] n = "request_human_approval" -> 3
    [] n = "execute_remediation"    -> 4
    [] n = "verify_recovery"        -> 5
    [] OTHER                        -> 6

\* The stored checkpoint of a thread never goes back: neither a worker that
\* lost its lease nor a restarted graph overwrites a later checkpoint with an
\* earlier one.
CheckpointNeverRegresses ==
  [][\A r \in Run : Stage(ckpt'[r].next) >= Stage(ckpt[r].next)]_durableVars

\* Again and again no run is queued, running or rescheduled: each one ends, waits
\* for a human, or is handed over as reconciling, whatever finite number of
\* crashes, pauses and storage faults happen.
RunSettles ==
  []<>(\A r \in Run : run[r].status \notin {"queued", "running", "retry_scheduled"})

\* A pending investigate request whose parent has ended with its write settled
\* and no approval left open is eventually started or superseded.
DeferredInvestigateStarts ==
  \A c \in Request :
    (Startable(c) /\ (IsLatest(control[c].parent)
                      => ViewAllowsRound(control[c].parent, Previous(c))))
    ~> control[c].status # "pending"

\* The worker implements the protocol layer: whatever Worker.execute does, each
\* of its steps is a transaction, a call or a stutter that RunControls allows,
\* so what holds there holds of the running program.
ImplementsProtocol == Spec

-----------------------------------------------------------------------------
\* ADR 0001 lets a reconciling run whose write is confirmed go back to running
\* for verification only.
ConfirmedWriteIsVerified ==
  \A r \in Run :
    (run[r].status = "reconciling" /\ op[r].state \in {"succeeded", "reconciled"}
       /\ op[r].confirmed /\ ~run[r].stop)
    ~> run[r].status # "reconciling"

\* docs/acceptance/4B-2-controls.md: an explicit investigate request stays
\* pending under outcome_unknown and manual_required, and creates the next
\* round once the reconciliation is complete.
PendingInvestigateStarts ==
  \A c \in Request :
    (control[c].status = "pending" /\ run[control[c].parent].status \in Terminal
       /\ control[c].parent + 1 \in Run /\ \A r \in Run : op[r].state \notin Uncertain)
    ~> control[c].status # "pending"

\* The same promise for the requests that activate_pending() itself selects:
\* their run has ended and no operation of the incident is unresolved.
SelectedInvestigateStarts ==
  \A c \in Request : Startable(c) ~> control[c].status # "pending"

-----------------------------------------------------------------------------
(* The inductive invariant behind the worker's properties, beside the       *)
(* protocol's own (IInv and RoundInv of RunControls).                       *)

WorkerRow == [pc: {"poll", "down", "claim", "recover", "reconcile", "load", "node", "execute",
                   "flush", "project", "except"},
              ctx: {"recover", "project", "except"}, g: Saved, pend: Seq(Saved),
              resume: BOOLEAN,
              err: {"none", "lost", "transient", "permanent", "unreadable"}]

DurableTypeOK == ckpt \in [Run -> Saved] /\ wk \in [Worker -> WorkerRow]

\* The graph is running, or its saves are still being drained.
Graphing == {"node", "execute", "flush"}

\* A worker holds a lease exactly while execute() runs, its executor is at rest
\* between calls, which the write node makes, and saves are queued only while the
\* graph runs.
InStep(w) ==
  /\ wk[w].pc \in {"poll", "claim", "down"} <=> lease[w].run = 0
  /\ wk[w].pc \notin {"execute", "reconcile"} => ex[w] = IdleEx
  /\ wk[w].pc = "execute" => wk[w].g.next = "execute_remediation"
  /\ wk[w].pc \notin Graphing => wk[w].pend = <<>>

\* Only the approval node interrupts, and it shows a plan.
Showable(s) ==
  /\ s.intr => s.next = "request_human_approval"
  /\ s.next = "request_human_approval" => s.phase = "awaiting_approval"

ShowsPlan(w) ==
  /\ Showable(wk[w].g) /\ (wk[w].pc \in {"node", "execute"} => ~wk[w].g.intr)
  /\ \A i \in 1..Len(wk[w].pend) : Showable(wk[w].pend[i])

\* What an owner knows: the decision it claimed is the row's, past recovery no
\* write is open, and what it is about to publish is the stored checkpoint.
Knows(w) ==
  Owns(w) =>
    /\ lease[w].approval = run[lease[w].run].approval
    /\ wk[w].pc = "load" => op[lease[w].run].state \notin Uncertain
    /\ wk[w].pc = "reconcile" /\ ex[w].pc = "done" /\ ex[w].result = "confirmed" =>
         op[lease[w].run].state = "reconciled"
    /\ wk[w].pc = "project" => wk[w].g = ckpt[lease[w].run]

\* The stored, the queued and the running state of an owner's graph are in the
\* order of the graph.
InOrder(stored, k) ==
  /\ Stage(stored.next) <= Stage(k.g.next)
  /\ \A i \in 1..Len(k.pend) : /\ Stage(stored.next) <= Stage(k.pend[i].next)
                               /\ Stage(k.pend[i].next) <= Stage(k.g.next)
  /\ \A i, j \in 1..Len(k.pend) :
       i < j => Stage(k.pend[i].next) <= Stage(k.pend[j].next)

SavesInOrder(w) ==
  Owns(w) /\ wk[w].pc \in Graphing => InOrder(ckpt[lease[w].run], wk[w])

\* The graph of a run that was decided on is past its plan.
Decided(s) == s.next \notin {"none", "diagnose", "prepare_approval"} /\ s.phase # "skipped"

GoesOn(w) ==
  Owns(w) /\ wk[w].pc \in Graphing /\ run[lease[w].run].approval # "none" =>
    Decided(wk[w].g) /\ \A i \in 1..Len(wk[w].pend) : Decided(wk[w].pend[i])

WorkerInv(w) == InStep(w) /\ ShowsPlan(w) /\ Knows(w) /\ SavesInOrder(w) /\ GoesOn(w)

\* Only an approved run has an operation.
RowInv(r) ==
  /\ Showable(ckpt[r])
  /\ run[r].approval # "none" => Decided(ckpt[r])
  /\ op[r].state # "none" => run[r].approval = "approved"

\* What an owner is about to do fits what is stored, and what is stored fits the
\* journal: checkpoints behind the graph, in its order, and none of them past a
\* decision that was not made.
DurableInv ==
  /\ DurableTypeOK
  /\ \A w \in Worker : WorkerInv(w)
  /\ \A r \in Run : RowInv(r)
  /\ TerminalWriteSettled /\ WaitingIsResumable /\ SucceededIsEarned
=============================================================================
