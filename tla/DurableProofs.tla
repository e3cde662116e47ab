---------------------------- MODULE DurableProofs ----------------------------
(***************************************************************************)
(* The worker process for every number of workers, runs, attempts, faults  *)
(* and requests: DurableWorker implements the protocol layer, and what its *)
(* runs publish is true.                                                   *)
(***************************************************************************)
EXTENDS DurableWorker, RoundProofs

-----------------------------------------------------------------------------
(* classify() decides soundly for every claimed row, checkpoint, journal row *)
(* and outcome of its comparisons, those no single run would produce too.    *)

\* What each of classify()'s decisions has already excluded, in the order of
\* its early returns.
LEMMA Decisions ==
  ASSUME NEW l \in Lease, NEW s \in Saved, NEW o \in OpRow, NEW f \in Facts
  PROVE  LET d == Classify(l, s, o, f) IN
         \/ d.action = "stop" /\ d.status \in {"failed", "reconciling"}
         \/ d.action = "start" /\ d.status = "none" /\ s.next = "none" /\ ~l.started
         \/ /\ s.next # "none" /\ f.identity /\ f.version
            /\ l.approval # "none" => f.binding
            /\ o.state \notin Uncertain
            /\ WriteState(s) => l.approval = "approved" /\ ~ResultMismatch(s, o)
            /\ \/ s.intr /\ d = OnInterrupt(l, s, f)
               \/ /\ ~s.intr /\ s.next = "END" /\ EndedWell(l, s, o)
                  /\ d.action = "stop" /\ d.status = "succeeded"
               \/ ~s.intr /\ s.next \in Allowed(l) /\ d.action = "continue" /\ d.status = "none"
  BY DEF Classify, HandOver, Go, Stop

LEMMA Interrupts ==
  ASSUME NEW l \in Lease, NEW s \in Saved, NEW f \in Facts
  PROVE  LET d == OnInterrupt(l, s, f) IN
         /\ d.action \in {"stop", "resume", "resume_user"}
         /\ d.status # "succeeded"
         /\ d.action = "resume" => l.approval # "none" /\ s.next = "request_human_approval"
         /\ d.action = "resume_user" => s.next = "await_user_input"
  BY DEF OnInterrupt, Go, Stop

\* classify() lets the graph run only from an untouched start, on an answered
\* interrupt, or on a registered node; past approval only with an approval
\* bound to the plan and without an uncertain write.
THEOREM ClassifyAuthorizes ==
  \A l \in Lease, s \in Saved, o \in OpRow, f \in Facts : ExecutionIsAuthorized(l, s, o, f)
  <1> SUFFICES ASSUME NEW l \in Lease, NEW s \in Saved, NEW o \in OpRow, NEW f \in Facts
               PROVE  ExecutionIsAuthorized(l, s, o, f)
    OBVIOUS
  <1> DEFINE d == Classify(l, s, o, f)
  <1>1. CASE d.action \in {"stop", "start"}
    BY <1>1, Decisions, Interrupts DEF ExecutionIsAuthorized
  <1>2. CASE d.action \notin {"stop", "start"}
    <2> HIDE DEF d
    <2>1. /\ s.next # "none" /\ f.identity /\ f.version
          /\ l.approval # "none" => f.binding
          /\ o.state \notin Uncertain
          /\ WriteState(s) => l.approval = "approved"
          /\ \/ s.intr /\ d = OnInterrupt(l, s, f)
             \/ d.action = "continue" /\ s.next \in Allowed(l)
      BY <1>2, Decisions DEF d
    <2>2. s.next \in ReadOnlyNodes \cup WriteNodes
      BY <1>2, <2>1, Interrupts DEF Allowed, ReadOnlyNodes
    <2>3. d.action = "resume" => s.intr /\ l.approval # "none"
      BY <2>1, Interrupts
    <2>4. s.next \in WriteNodes \/ s.result # "none" => l.approval = "approved"
      BY <2>1 DEF WriteState
    <2> QED BY <1>2, <2>1, <2>2, <2>3, <2>4 DEF ExecutionIsAuthorized, d
  <1> QED BY <1>1, <1>2

\* classify() publishes success only for an ended graph whose recorded result
\* the journal confirms.
THEOREM ClassifyEvidences ==
  \A l \in Lease, s \in Saved, o \in OpRow, f \in Facts : SuccessIsEvidenced(l, s, o, f)
  <1> SUFFICES ASSUME NEW l \in Lease, NEW s \in Saved, NEW o \in OpRow, NEW f \in Facts,
                      Classify(l, s, o, f).status = "succeeded"
               PROVE  /\ s.next = "END" /\ ~s.intr /\ o.state \notin Uncertain
                      /\ s.result # "none" => s.result = o.result /\ l.approval = "approved"
                      /\ s.phase = "verification_succeeded" =>
                           o.state \in {"succeeded", "reconciled"}
    BY DEF SuccessIsEvidenced
  <1>1. /\ s.next = "END" /\ ~s.intr /\ o.state \notin Uncertain /\ EndedWell(l, s, o)
        /\ WriteState(s) => l.approval = "approved" /\ ~ResultMismatch(s, o)
    BY Decisions, Interrupts
  <1>2. s.result # "none" => s.result = o.result /\ l.approval = "approved"
    BY <1>1 DEF WriteState, ResultMismatch
  <1>3. s.phase = "verification_succeeded" => o.state \in {"succeeded", "reconciled"}
    BY <1>1 DEF EndedWell
  <1> QED BY <1>1, <1>2, <1>3

\* classify() hands every intact checkpoint beside an uncertain write over for
\* reconciliation.
THEOREM ClassifyHandsOver ==
  \A l \in Lease, s \in Saved, o \in OpRow, f \in Facts : UncertainIsHandedOver(l, s, o, f)
  BY DEF UncertainIsHandedOver, Classify, HandOver, Stop

-----------------------------------------------------------------------------
(* Every step of the worker is a step of the protocol or leaves it alone.   *)

\* The steps of the protocol that worker w takes.
ByWorker(w) ==
  \/ LeaseStep(w) \/ ExecutorStep(w) \/ Publish(w) \/ GiveUp(w) \/ TakeResult(w)
  \/ CallFails(w) \/ Crash(w)

LEMMA ConcludeIsPublish ==
  ASSUME NEW w \in Worker, Free(w),
         NEW s \in {"succeeded", "failed", "waiting_approval", "retry_scheduled", "reconciling"},
         NEW e \in ErrorCode, NEW out \in Output, Conclude(w, s, e, out)
  PROVE  Publish(w)
  BY DEF Conclude, Publish

LEMMA ThrowsIsFault ==
  ASSUME NEW w \in Worker, Free(w), NEW errs, Throws(w, errs)
  PROVE  CallFails(w)
  BY DEF Throws, CallFails

\* What classify() can decide about an intact run.
LEMMA DecideStatus ==
  ASSUME NEW w \in Worker, NEW s, Showable(s)
  PROVE  LET d == Decide(w, s) IN
         /\ d.error \in ErrorCode
         /\ d.action = "stop" =>
              d.status \in {"succeeded", "failed", "waiting_approval", "reconciling"}
         /\ d.action \in {"stop", "start", "continue", "resume"}
         /\ d.action = "start" <=> s.next = "none" /\ ~lease[w].started
  BY DEF Decide, Classify, OnInterrupt, Intact, Stop, Go, Showable, ErrorCode

LEMMA OutputOfType == \A s : OutputOf(s) \in Output
  BY DEF OutputOf, Output

LEMMA MainIsProtocol ==
  ASSUME IInv, DurableInv, NEW w \in Worker, MainStep(w)
  PROVE  \/ ByWorker(w) \/ UNCHANGED vars
         \/ \E c \in Request : ActivateSupersede(c) \/ ActivateStart(c)
  <1> DEFINE Goal == \/ ByWorker(w) \/ UNCHANGED vars
                     \/ \E c \in Request : ActivateSupersede(c) \/ ActivateStart(c)
  <1>a. wk[w].pc \notin {"execute", "reconcile"} => Free(w)
    BY DEF DurableInv, WorkerInv, InStep, IdleEx, Free
  <1>b. "other" \in ErrorCode /\ "worker" \in ErrorCode /\ "temporary" \in ErrorCode
        /\ "none" \in Output
    BY DEF ErrorCode, Output
  <1>c. ASSUME NEW ctx, StartReconcile(w, ctx) PROVE Goal
    BY <1>c DEF StartReconcile, ByWorker, ExecutorStep
  <1>d. ASSUME Leave(w) PROVE Goal
    BY <1>d DEF Leave, ByWorker
  <1>e. ASSUME Free(w), NEW errs, Throws(w, errs) PROVE Goal
    BY <1>e, ThrowsIsFault DEF ByWorker
  <1>f. ASSUME Free(w), NEW s \in {"failed", "retry_scheduled", "reconciling"},
               NEW e \in {"other", "worker", "temporary"}, Conclude(w, s, e, "none")
        PROVE  Goal
    BY <1>b, <1>f, ConcludeIsPublish DEF ByWorker
  <1>1. CASE Poll(w)
    BY <1>1 DEF Poll
  <1>2. CASE Restart(w)
    BY <1>2 DEF Restart
  <1>3. CASE ClaimRun(w)
    BY <1>3 DEF ClaimRun, ByWorker, LeaseStep
  <1>4. CASE Recover(w)
    <2>1. Free(w)
      BY <1>4, <1>a DEF Recover, At
    <2> QED BY <1>4, <1>c, <1>d, <1>e, <2>1 DEF Recover
  <1>5. CASE Reconciled(w)
    <2>1. Free(w) /\ ex[w].pc = "done"
      BY <1>5 DEF Reconciled, Free
    <2>2. ASSUME ResetEx(w), UNCHANGED <<leaseVars, target, drifts, patch, control, ckpt>>
          PROVE  Goal
      BY <2>1, <2>2 DEF TakeResult, ByWorker
    <2>3. CASE ex[w].result = "broken"
      BY <1>5, <1>d, <2>2, <2>3 DEF Reconciled
    <2>4. CASE ex[w].result # "broken"
      BY <1>5, <1>d, <1>e, <1>f, <2>1, <2>2, <2>4 DEF Reconciled
    <2> QED BY <2>3, <2>4
  <1>6. CASE Load(w)
    <2>1. Free(w)
      BY <1>6, <1>a DEF Load, At
    <2> QED BY <1>6, <1>d, <1>e, <1>f, <2>1 DEF Load
  <1>7. CASE Flushed(w)
    BY <1>7, <1>d DEF Flushed
  <1>8. CASE Project(w)
    <2> DEFINE d == Decide(w, wk[w].g)
    <2>1. Free(w) /\ Showable(wk[w].g)
      BY <1>8, <1>a DEF Project, At, DurableInv, WorkerInv, ShowsPlan
    <2>2. ASSUME d.action = "stop", Conclude(w, d.status, d.error, OutputOf(wk[w].g)) PROVE Goal
      <3>1. /\ d.error \in ErrorCode /\ OutputOf(wk[w].g) \in Output
            /\ d.status \in {"succeeded", "failed", "waiting_approval", "reconciling"}
        BY <2>1, <2>2, DecideStatus, OutputOfType
      <3> HIDE DEF d
      <3> QED BY <2>1, <2>2, <3>1, ConcludeIsPublish DEF ByWorker
    <2> QED BY <1>8, <1>c, <1>d, <1>e, <1>f, <2>1, <2>2 DEF Project
  <1>9. CASE Handle(w)
    <2>1. Free(w)
      BY <1>9, <1>a DEF Handle, At
    <2> QED BY <1>9, <1>c, <1>d, <1>f, <2>1 DEF Handle
  <1> QED BY <1>1, <1>2, <1>3, <1>4, <1>5, <1>6, <1>7, <1>8, <1>9 DEF MainStep

LEMMA NodeIsProtocol ==
  ASSUME NEW w \in Worker, NodeStep(w)
  PROVE  ByWorker(w) \/ UNCHANGED vars
  <1>1. CASE ExecuteCall(w)
    BY <1>1 DEF ExecuteCall, ByWorker, ExecutorStep
  <1>2. CASE ExecuteReturn(w)
    BY <1>2 DEF ExecuteReturn, ByWorker, TakeResult
  <1> QED BY <1>1, <1>2 DEF NodeStep, Diagnose, PrepareApproval, RequestHumanApproval,
                            VerifyRecovery

LEMMA SaverIsProtocol ==
  ASSUME NEW w \in Worker, SaverStep(w)
  PROVE  ByWorker(w) \/ UNCHANGED vars
  <1>1. CASE MarkStarted(w)
    BY <1>1 DEF MarkStarted, ByWorker, LeaseStep
  <1>2. CASE SaveFails(w)
    BY <1>2 DEF SaveFails, ByWorker, CallFails, ledgerVars, leaseVars, vars
  <1> QED BY <1>1, <1>2 DEF SaverStep, SaveCheckpoint

\* All that worker w does.
ByProcess(w) ==
  \/ MainStep(w) \/ NodeStep(w) \/ SaverStep(w) \/ DurableExecutor(w) \/ WorkerCrash(w)
  \/ HeartbeatFails(w) /\ UNCHANGED <<ledgerVars, control, ckpt, wk>>

LEMMA ProcessIsProtocol ==
  ASSUME IInv, DurableInv, NEW w \in Worker, ByProcess(w)
  PROVE  \/ ByWorker(w) \/ UNCHANGED vars
         \/ \E c \in Request : ActivateSupersede(c) \/ ActivateStart(c)
  <1>1. CASE DurableExecutor(w)
    BY <1>1 DEF DurableExecutor, ByWorker
  <1>2. CASE WorkerCrash(w)
    BY <1>2 DEF WorkerCrash, ByWorker
  <1>3. CASE HeartbeatFails(w) /\ UNCHANGED <<ledgerVars, control, ckpt, wk>>
    BY <1>3 DEF ByWorker, LeaseStep
  <1> QED BY <1>1, <1>2, <1>3, MainIsProtocol, NodeIsProtocol, SaverIsProtocol DEF ByProcess

LEMMA HumanIsProtocol ==
  ASSUME IInv, DurableInv, DurableHuman
  PROVE  HumanStep
  <1>1. ASSUME NEW r \in Run, NEW d \in {"approved", "rejected"}, Approve(r, d)
        PROVE  HumanStep
    <2>1. ckpt[r].prior \in Config
      BY DEF DurableInv, DurableTypeOK, Saved
    <2> QED BY <1>1, <2>1 DEF Approve, HumanStep
  <1>2. ASSUME NEW c \in Request, NEW r \in Run, View(r) # "none", ReadLatest(c, View(r))
        PROVE  HumanStep
    <2>1. View(r) \in Output
      <3>1. run[r].output \in Output
        BY DEF IInv, TypeOK, LeaseTypeOK, RunRow
      <3> QED BY <3>1, OutputOfType DEF View, Output
    <2> QED BY <1>2, <2>1 DEF HumanStep
  <1> QED BY <1>1, <1>2 DEF DurableHuman, HumanStep

LEMMA NextIsProtocol ==
  ASSUME IInv, DurableInv, [DurableNext]_durableVars
  PROVE  [Next]_vars
  <1>1. CASE UNCHANGED durableVars
    BY <1>1 DEF durableVars
  <1>2. ASSUME NEW w \in Worker, ByProcess(w) PROVE [Next]_vars
    BY <1>2, ProcessIsProtocol DEF ByWorker, Next
  <1>3. ASSUME NEW r \in Run, DurableExpire(r) PROVE Next
    BY <1>3 DEF DurableExpire, Next
  <1>4. CASE ClusterStep
    BY <1>4 DEF Next
  <1>5. CASE DurableHuman
    BY <1>5, HumanIsProtocol DEF Next
  <1> QED BY <1>1, <1>2, <1>3, <1>4, <1>5 DEF DurableNext, ByProcess

-----------------------------------------------------------------------------
(* What a step leaves alone.                                                *)

\* Nobody but its worker moves a lease or an executor.
LEMMA OthersLeft ==
  ASSUME IInv, NEW w \in Worker, ByWorker(w), NEW v \in Worker \ {w}
  PROVE  lease'[v] = lease[v] /\ ex'[v] = ex[v]
  <1>1. CASE LeaseStep(w)
    <2>1. ex' = ex
      BY <1>1 DEF LeaseStep, ledgerVars
    <2>2. lease'[v] = lease[v]
      BY <1>1, ClaimRow DEF LeaseStep, HeartbeatFails, MarkCheckpointStarted, IInv
    <2> QED BY <2>1, <2>2
  <1>2. CASE ExecutorStep(w)
    <2>1. lease' = lease
      BY <1>2 DEF ExecutorStep, ExecuteBegin, CheckOperation, ReadTarget, Prepare, Dispatch,
                  AssertOwned, SendPatch, PatchAnswered, RecordOutcome, ExecuteRaises,
                  ReconcileBegin, Observe, Settle, ReconcileRaises, leaseVars
    <2> QED BY <1>2, <2>1, OwnMoves
  <1>3. CASE Publish(w) \/ GiveUp(w) \/ TakeResult(w) \/ CallFails(w) \/ Crash(w)
    <2>1. ex' = ex \/ ResetEx(w)
      BY <1>3 DEF Publish, GiveUp, TakeResult, CallFails, Crash
    <2>2. lease' = lease \/ lease' = [lease EXCEPT ![w] = NoLease]
      BY <1>3, PublishRow DEF GiveUp, Abandon, TakeResult, CallFails, Crash, leaseVars, IInv
    <2> QED BY <2>1, <2>2, ExecutorMoves DEF IInv, TypeOK, LeaseTypeOK
  <1> QED BY <1>1, <1>2, <1>3 DEF ByWorker

\* The fence: an owner after a step that does not claim for it owned the run
\* before, decided as before, and nobody else wrote its journal row.
LEMMA OwnerKeeps ==
  ASSUME IInv, Next, NEW v \in Worker, Owns(v)', lease'[v] = lease[v]
  PROVE  /\ Owns(v) /\ run'[lease[v].run].approval = run[lease[v].run].approval
         /\ op'[lease[v].run] = op[lease[v].run] \/ ExecutorStep(v)
  <1> DEFINE r == lease[v].run
  <1>0. /\ r \in Run /\ run'[r].owner = v /\ run'[r].epoch = lease[v].epoch
        /\ run'[r].status = "running" /\ run'[r].live /\ run[r] \in RunRow
    BY DEF Owns, IInv, TypeOK, LeaseTypeOK, Lease
  <1>1. ASSUME NEW w \in Worker, LeaseStep(w) PROVE Owns(v)
    <2>1. CASE Claim(w)
      <3>1. PICK q \in Run :
              run' = [run EXCEPT ![q] = [@ EXCEPT
                       !.status = "running", !.owner = w, !.epoch = run[q].epoch + 1,
                       !.tries = run[q].tries + IF Exhausted(q) THEN 0 ELSE 1,
                       !.live = TRUE]]
        BY <2>1 DEF Claim
      <3>2. run'[q].owner = w
        BY <3>1 DEF IInv, TypeOK, LeaseTypeOK, RunRow
      <3>a. lease[w].run = 0
        BY <2>1 DEF Claim
      <3>3. w # v
        BY <1>0, <3>a DEF Run
      <3>4. run'[r] = run[r]
        BY <1>0, <3>1, <3>2, <3>3 DEF IInv, TypeOK, LeaseTypeOK
      <3> QED BY <1>0, <3>4 DEF Owns, Run
    <2>2. CASE MarkCheckpointStarted(w)
      <3>1. lease[w].run \in Run /\ run[lease[w].run] \in RunRow
        BY <2>2, OwnerRuns DEF MarkCheckpointStarted, IInv, TypeOK, LeaseTypeOK
      <3>2. /\ run'[lease[w].run] = [run[lease[w].run] EXCEPT !.started = TRUE]
            /\ \A q \in Run \ {lease[w].run} : run'[q] = run[q]
        BY <2>2, <3>1 DEF MarkCheckpointStarted, IInv, TypeOK, LeaseTypeOK
      <3>3. /\ run'[r].owner = run[r].owner /\ run'[r].epoch = run[r].epoch
            /\ run'[r].status = run[r].status /\ run'[r].live = run[r].live
        <4>1. CASE r # lease[w].run
          BY <1>0, <3>2, <4>1
        <4>2. CASE r = lease[w].run
          <5> DEFINE a == run[r]
          <5>1. a \in RunRow /\ run'[r] = [a EXCEPT !.started = TRUE]
            BY <3>1, <3>2, <4>2
          <5> HIDE DEF a
          <5>2. /\ run'[r].owner = a.owner /\ run'[r].epoch = a.epoch
                /\ run'[r].status = a.status /\ run'[r].live = a.live
            BY <5>1 DEF RunRow
          <5> QED BY <5>2 DEF a
        <4> QED BY <4>1, <4>2
      <3> QED BY <1>0, <3>3 DEF Owns, Run
    <2>3. CASE HeartbeatFails(w)
      BY <1>0, <2>3 DEF HeartbeatFails, Owns, Run
    <2> QED BY <1>1, <2>1, <2>2, <2>3 DEF LeaseStep
  <1>2. ASSUME NEW w \in Worker,
               ExecutorStep(w) \/ GiveUp(w) \/ TakeResult(w) \/ CallFails(w) \/ Crash(w)
        PROVE  run' = run
    BY <1>2 DEF ExecutorStep, ExecuteBegin, CheckOperation, ReadTarget, Prepare, Dispatch,
                AssertOwned, SendPatch, PatchAnswered, RecordOutcome, ExecuteRaises,
                ReconcileBegin, Observe, Settle, ReconcileRaises, leaseVars,
                GiveUp, Abandon, TakeResult, CallFails, Crash
  <1>3. ASSUME NEW w \in Worker, Publish(w) PROVE Owns(v)
    <2>1. PICK s \in {"succeeded", "failed", "waiting_approval", "retry_scheduled",
                      "reconciling"}, e \in ErrorCode, out \in Output : Finish(w, s, e, out)
      BY <1>3 DEF Publish
    <2>2. lease[w].run \in Run /\ run[lease[w].run] \in RunRow
      BY <2>1, OwnerRuns DEF Finish, IInv, TypeOK, LeaseTypeOK
    <2>3. run'[lease[w].run].owner = NoWorker
      BY <2>1, <2>2 DEF Finish, FinishRow, IInv, TypeOK, LeaseTypeOK, RunRow
    <2>4. run'[r] = run[r]
      BY <1>0, <2>1, <2>2, <2>3, LeaseAssumption DEF Finish, IInv, TypeOK, LeaseTypeOK,
                                                     LeaseAssumption
    <2> QED BY <1>0, <2>4 DEF Owns, Run
  <1>4. ASSUME NEW q \in Run, Expire(q) PROVE Owns(v)
    BY <1>0, <1>4 DEF Expire, Owns, IInv, TypeOK, LeaseTypeOK, RunRow, Run
  <1>5. ASSUME NEW c \in Request, PostRound(c) \/ ActivateStart(c) PROVE Owns(v)
    <2>1. PICK p \in Run : NewRound(p)
      BY <1>5, RoundRow DEF IInv
    <2>2. r \notin {p, p + 1}
      BY <1>0, <2>1 DEF NewRound, NewRow, Terminal
    <2> QED BY <1>0, <2>1, <2>2 DEF NewRound, Owns, Run
  <1>6. ASSUME NEW c \in Request,
               ActivateSupersede(c) \/ \E s \in Output \ {"none"} : ReadLatest(c, s)
        PROVE  run' = run
    BY <1>6 DEF ActivateSupersede, ReadLatest, leaseVars
  <1>7. ASSUME ClusterStep PROVE run' = run
    BY <1>7 DEF ClusterStep, Drift, DeliverPatch, leaseVars
  <1>8. ASSUME NEW q \in Run, NEW d \in {"approved", "rejected"}, NEW p \in Config,
               QueueApproval(q, d, p)
        PROVE  Owns(v)
    <2>1. run'[q].status = "queued" /\ \A x \in Run \ {q} : run'[x] = run[x]
      BY <1>8 DEF QueueApproval, IInv, TypeOK, LeaseTypeOK, RunRow
    <2> QED BY <1>0, <2>1 DEF Owns, Run
  <1>9. ASSUME NEW c \in Request, NEW a \in {"stop", "supplement", "investigate"}, Control(c, a)
        PROVE  Owns(v) /\ op'[r] = op[r]
    <2> DEFINE q == control[c].parent
    <2>1. q \in Run /\ run[q] \in RunRow
      BY DEF IInv, TypeOK, LeaseTypeOK, ControlTypeOK, ControlRow
    <2>2. /\ run'[q] = ControlledRun(q, control[c].snap) /\ op'[q] = ControlledOp(q)
          /\ \A x \in Run \ {q} : run'[x] = run[x] /\ op'[x] = op[x]
      BY <1>9, <2>1 DEF Control, IInv, TypeOK, LeaseTypeOK
    <2>3. CASE r # q
      BY <1>0, <2>2, <2>3 DEF Owns, Run
    <2>4. CASE r = q /\ ~Active(q)
      BY <1>0, <2>2, <2>4 DEF ControlledRun, ControlledOp, Owns, Run
    <2>5. CASE r = q /\ Active(q) /\ Dispatched(q)
      <3>1. run'[q] = [run[q] EXCEPT !.stop = TRUE, !.invalidated = TRUE] /\ op'[q] = op[q]
        BY <2>2, <2>5 DEF ControlledRun, ControlledOp, Dispatched
      <3> QED BY <1>0, <2>1, <2>5, <3>1 DEF RunRow, Owns, Run
    <2>6. CASE r = q /\ Active(q) /\ ~Dispatched(q)
      <3>1. PICK out : run'[q] = [run[q] EXCEPT !.stop = TRUE, !.invalidated = TRUE,
                                    !.status = "cancelled", !.owner = NoWorker,
                                    !.live = FALSE, !.error = "other", !.output = out]
        BY <2>2, <2>6 DEF ControlledRun
      <3> QED BY <1>0, <2>1, <2>6, <3>1 DEF RunRow
    <2> QED BY <2>3, <2>4, <2>5, <2>6
  <1>10. Owns(v)
    <2>1. CASE run' = run
      BY <1>0, <2>1 DEF Owns, Run
    <2>2. CASE HumanStep
      BY <1>5, <1>6, <1>8, <1>9, <2>1, <2>2 DEF HumanStep
    <2> QED BY <1>1, <1>2, <1>3, <1>4, <1>5, <1>6, <1>7, <2>1, <2>2 DEF Next
  <1>11. run'[r].approval = run[r].approval
    <2>1. ASSUME NEW p \in Run, NewRound(p) PROVE run'[r].approval = run[r].approval
      BY <1>0, <2>1 DEF NewRound, NewRow
    <2>2. ASSUME NEW d \in {"approved", "rejected"}, NEW p \in Config, QueueApproval(r, d, p)
          PROVE  FALSE
      BY <1>10, <2>2 DEF QueueApproval, Owns
    <2> QED BY <1>0, <2>1, <2>2, Rows DEF LiveStep
  <1>12. op'[r] = op[r] \/ ExecutorStep(v)
    <2>1. ASSUME NEW w \in Worker, ExecutorStep(w), w # v PROVE op'[r] = op[r]
      <3>1. CASE Prepare(w) \/ Dispatch(w) \/ RecordOutcome(w) \/ Settle(w)
        <4>1. Owns(w) /\ lease[w].run # r
          BY <1>10, <2>1, <3>1 DEF Prepare, Dispatch, RecordOutcome, Settle, Owns
        <4> QED BY <1>0, <3>1, <4>1, JournalRow
      <3>2. CASE ~(Prepare(w) \/ Dispatch(w) \/ RecordOutcome(w) \/ Settle(w))
        <4>1. op' = op
          BY <2>1, <3>2 DEF ExecutorStep, ExecuteBegin, CheckOperation, ReadTarget, AssertOwned,
                      SendPatch, PatchAnswered, ExecuteRaises, ReconcileBegin, Observe,
                      ReconcileRaises, leaseVars
        <4> QED BY <4>1
      <3> QED BY <3>1, <3>2
    <2>2. ASSUME NEW w \in Worker,
                 \/ LeaseStep(w) \/ Publish(w) \/ GiveUp(w) \/ TakeResult(w) \/ CallFails(w)
                 \/ Crash(w)
          PROVE  op' = op
      BY <2>2 DEF LeaseStep, Claim, HeartbeatFails, MarkCheckpointStarted, Publish, Finish, GiveUp,
                  Abandon, TakeResult, CallFails, Crash, leaseVars
    <2>3. ASSUME NEW q \in Run, Expire(q) PROVE op' = op
      BY <2>3 DEF Expire
    <2>4. ASSUME NEW c \in Request,
                 \/ ActivateSupersede(c) \/ ActivateStart(c) \/ PostRound(c)
                 \/ \E s \in Output \ {"none"} : ReadLatest(c, s)
          PROVE  op' = op
      BY <2>4 DEF ActivateSupersede, ActivateStart, PostRound, AcceptRound, ReadLatest, leaseVars
    <2>5. ASSUME ClusterStep PROVE op' = op
      BY <2>5 DEF ClusterStep, Drift, DeliverPatch, leaseVars
    <2>6. CASE HumanStep
      BY <1>9, <2>4, <2>6 DEF HumanStep, QueueApproval
    <2> QED BY <2>1, <2>2, <2>3, <2>4, <2>5, <2>6 DEF Next
  <1> QED BY <1>10, <1>11, <1>12

-----------------------------------------------------------------------------
(* A worker's own invariant.                                                *)

LEMMA AppendFacts ==
  ASSUME NEW S, NEW s \in Seq(S), NEW e \in S
  PROVE  /\ Append(s, e) \in Seq(S) /\ Len(Append(s, e)) = Len(s) + 1 /\ Len(s) \in Nat
         /\ \A i \in 1..Len(s) : Append(s, e)[i] = s[i]
         /\ Append(s, e)[Len(s) + 1] = e
  OBVIOUS

LEMMA TailFacts ==
  ASSUME NEW S, NEW s \in Seq(S), s # <<>>
  PROVE  /\ Tail(s) \in Seq(S) /\ Len(Tail(s)) = Len(s) - 1 /\ Len(s) \in Nat \ {0}
         /\ Head(s) = s[1] /\ Head(s) \in S
         /\ \A i \in 1..Len(Tail(s)) : Tail(s)[i] = s[i + 1]
  OBVIOUS

LEMMA Stages ==
  /\ \A n : Stage(n) \in 0..6
  /\ Stage("none") = 0 /\ Stage("diagnose") = 1 /\ Stage("prepare_approval") = 2
  /\ Stage("request_human_approval") = 3 /\ Stage("execute_remediation") = 4
  /\ Stage("verify_recovery") = 5 /\ Stage("END") = 6
  BY DEF Stage

\* Well-typed rows, and a worker at the start of a claim.
LEMMA SavedRow ==
  /\ EmptySaved \in Saved /\ Initial \in Saved /\ Showable(EmptySaved) /\ Showable(Initial)
  /\ ~Initial.intr /\ Initial.next = "diagnose"
  /\ \A pc \in {"poll", "down", "claim", "recover", "reconcile", "load", "node", "execute",
                "flush", "project", "except"} : Fresh(pc) \in WorkerRow
  <1>1. EmptySaved \in Saved /\ Showable(EmptySaved)
    BY LeaseAssumption DEF LeaseAssumption, EmptySaved, Saved, Node, Phase, Config, Foreign,
                           Showable
  <1>2. Initial \in Saved /\ ~Initial.intr /\ Initial.next = "diagnose" /\ Showable(Initial)
    BY <1>1 DEF Initial, EmptySaved, Saved, Node, ReadOnlyNodes, Showable
  <1>3. <<>> \in Seq(Saved)
    OBVIOUS
  <1> QED BY <1>1, <1>2, <1>3 DEF Fresh, WorkerRow

\* A row whose graph state, queue and program point are set.
Stepped(k, g, pend, pc) == [k EXCEPT !.g = g, !.resume = FALSE, !.pend = pend, !.pc = pc]

LEMMA SteppedRow ==
  ASSUME NEW k \in WorkerRow, NEW g \in Saved, NEW pend \in Seq(Saved),
         NEW pc \in {"node", "flush"}
  PROVE  /\ Stepped(k, g, pend, pc) \in WorkerRow /\ Stepped(k, g, pend, pc).pc = pc
         /\ Stepped(k, g, pend, pc).pend = pend /\ Stepped(k, g, pend, pc).g = g
  BY DEF WorkerRow, Stepped

Started(g, pend, resume) == [Fresh("node") EXCEPT !.g = g, !.pend = pend, !.resume = resume]

LEMMA StartedRow ==
  ASSUME NEW g \in Saved, NEW pend \in Seq(Saved), NEW resume \in BOOLEAN
  PROVE  /\ Started(g, pend, resume) \in WorkerRow /\ Started(g, pend, resume).pc = "node"
         /\ Started(g, pend, resume).pend = pend /\ Started(g, pend, resume).g = g
  <1>1. ASSUME NEW k \in WorkerRow, NEW k2,
               k2 = [k EXCEPT !.g = g, !.pend = pend, !.resume = resume]
        PROVE  k2 \in WorkerRow /\ k2.pc = k.pc /\ k2.pend = pend /\ k2.g = g
    BY <1>1 DEF WorkerRow
  <1>2. Fresh("node") \in WorkerRow
    BY SavedRow
  <1>3. Fresh("node").pc = "node"
    BY DEF Fresh
  <1> QED BY <1>1, <1>2, <1>3 DEF Started

Good(w) == wk[w] \in WorkerRow /\ WorkerInv(w)

\* The claim is over.
LEMMA ClaimEnds ==
  ASSUME NEW w \in Worker, lease'[w].run = 0, ex'[w] = IdleEx,
         wk'[w] = Fresh("poll") \/ wk'[w] = Fresh("down")
  PROVE  Good(w)'
  <1>1. /\ wk'[w] \in WorkerRow /\ wk'[w].pc \in {"poll", "down"}
        /\ wk'[w].pend = <<>> /\ wk'[w].g = EmptySaved
    BY SavedRow DEF Fresh
  <1>2. Len(wk'[w].pend) = 0
    BY <1>1
  <1>3. ~Owns(w)'
    BY DEF Owns
  <1>4. InStep(w)' /\ ShowsPlan(w)'
    BY <1>1, <1>2, SavedRow DEF InStep, ShowsPlan
  <1> QED BY <1>1, <1>3, <1>4 DEF Good, WorkerInv, Knows, SavesInOrder, GoesOn

\* The worker moves on with nothing queued, outside the graph.
LEMMA MovesOn ==
  ASSUME IInv, DurableInv, [Next]_vars, NEW w \in Worker, lease'[w] = lease[w], lease[w].run # 0,
         wk'[w] \in WorkerRow, wk'[w].pend = <<>>, Showable(wk'[w].g),
         wk'[w].pc \in {"recover", "reconcile", "load", "project", "except"},
         wk'[w].pc # "reconcile" => ex'[w] = IdleEx,
         wk'[w].pc = "reconcile" => ex'[w].pc # "done",
         Owns(w)' /\ Owns(w) =>
           /\ wk'[w].pc = "load" => op'[lease[w].run].state \notin Uncertain
           /\ wk'[w].pc = "project" => wk'[w].g = ckpt'[lease[w].run]
  PROVE  Good(w)'
  <1>1. Len(wk'[w].pend) = 0
    OBVIOUS
  <1>2. InStep(w)'
    BY DEF InStep
  <1>3. ShowsPlan(w)'
    BY <1>1 DEF ShowsPlan
  <1>4. Owns(w)' => Owns(w) /\ run'[lease[w].run].approval = run[lease[w].run].approval
    <2>1. CASE Next
      BY <2>1, OwnerKeeps
    <2>2. CASE UNCHANGED vars
      BY <2>2 DEF vars, leaseVars, Owns
    <2> QED BY <2>1, <2>2
  <1>5. Knows(w)'
    BY <1>4 DEF Knows, DurableInv, WorkerInv
  <1> QED BY <1>2, <1>3, <1>5 DEF Good, WorkerInv, SavesInOrder, GoesOn, Graphing

\* The steps by which a main thread's call ends.
LEMMA Ends ==
  ASSUME IInv, DurableInv, [Next]_vars, NEW w \in Worker
  PROVE  /\ Leave(w) => Good(w)'
         /\ \A s, e, out : Conclude(w, s, e, out) => Good(w)'
         /\ \A errs \in SUBSET {"transient", "permanent", "unreadable"} :
              Throws(w, errs) /\ lease[w].run # 0 => Good(w)'
         /\ \A e \in {"transient", "permanent", "unreadable"} :
              ToExcept(w, e) /\ lease[w].run # 0 /\ lease' = lease /\ ex'[w] = IdleEx
                => Good(w)'
  <1>0. /\ wk \in [Worker -> WorkerRow] /\ ex \in [Worker -> Executor]
        /\ lease \in [Worker -> Lease]
    BY DEF IInv, TypeOK, LeaseTypeOK, LedgerTypeOK, DurableInv, DurableTypeOK
  <1>1. ResetEx(w) => ex'[w] = IdleEx
    BY <1>0 DEF ResetEx
  <1>2. Idle(w) => wk'[w] = Fresh("poll")
    BY <1>0 DEF Idle
  <1>3. NoLease.run = 0
    BY DEF NoLease
  <1>4. ASSUME Leave(w) PROVE Good(w)'
    <2>1. lease'[w] = NoLease
      BY <1>0, <1>4 DEF Leave, GiveUp, Abandon
    <2> QED BY <1>1, <1>2, <1>3, <1>4, <2>1, ClaimEnds DEF Leave, GiveUp
  <1>5. ASSUME NEW s, NEW e, NEW out, Conclude(w, s, e, out) PROVE Good(w)'
    <2>1. lease'[w] = NoLease
      BY <1>0, <1>5 DEF Conclude, Finish
    <2> QED BY <1>1, <1>2, <1>3, <1>5, <2>1, ClaimEnds DEF Conclude
  <1>6. ASSUME NEW e \in {"transient", "permanent", "unreadable"}, ToExcept(w, e),
               lease[w].run # 0, lease' = lease, ex'[w] = IdleEx
        PROVE  Good(w)'
    <2>1. wk'[w] = [Fresh("except") EXCEPT !.err = e]
      BY <1>0, <1>6 DEF ToExcept
    <2>2. Fresh("except") \in WorkerRow
      BY SavedRow
    <2>3. /\ wk'[w] \in WorkerRow /\ wk'[w].pc = "except" /\ wk'[w].pend = <<>>
          /\ wk'[w].g = EmptySaved
      BY <2>1, <2>2 DEF Fresh, WorkerRow
    <2> QED BY <1>6, <2>3, SavedRow, MovesOn
  <1>7. ASSUME NEW errs \in SUBSET {"transient", "permanent", "unreadable"}, Throws(w, errs),
               lease[w].run # 0
        PROVE  Good(w)'
    <2>1. PICK e \in errs : ToExcept(w, e)
      BY <1>7 DEF Throws
    <2>2. lease' = lease /\ ex'[w] = IdleEx
      BY <1>1, <1>7 DEF Throws
    <2> QED BY <1>6, <1>7, <2>1, <2>2
  <1> QED BY <1>4, <1>5, <1>6, <1>7

LEMMA StartReconcileGood ==
  ASSUME IInv, DurableInv, [Next]_vars, NEW w \in Worker, lease[w].run # 0,
         wk[w].pc \notin Graphing,
         NEW ctx \in {"recover", "project", "except"}, StartReconcile(w, ctx)
  PROVE  Good(w)'
  <1>1. wk[w] \in WorkerRow /\ wk[w].pend = <<>> /\ Showable(wk[w].g)
    BY DEF DurableInv, DurableTypeOK, WorkerInv, InStep, ShowsPlan
  <1>2. wk'[w] = [wk[w] EXCEPT !.pc = "reconcile", !.ctx = ctx]
    BY DEF StartReconcile, DurableInv, DurableTypeOK
  <1>3. /\ wk'[w] \in WorkerRow /\ wk'[w].pc = "reconcile" /\ wk'[w].pend = <<>>
        /\ wk'[w].g = wk[w].g
    BY <1>1, <1>2 DEF WorkerRow
  <1>4. ex'[w].pc = "observe"
    <2>1. ex'[w] = [IdleEx EXCEPT !.pc = "observe", !.op = op[lease[w].run]]
      BY DEF StartReconcile, ReconcileBegin, IInv, TypeOK, LedgerTypeOK
    <2> QED BY <2>1 DEF IdleEx
  <1>5. lease' = lease
    BY DEF StartReconcile, ReconcileBegin, leaseVars
  <1> QED BY <1>1, <1>3, <1>4, <1>5, MovesOn

\* The main thread, outside the graph.
LEMMA MainGood ==
  ASSUME IInv, DurableInv, [Next]_vars, NEW w \in Worker, MainStep(w), ~Load(w)
  PROVE  Good(w)'
  <1> USE Ends
  <1>0. /\ wk[w] \in WorkerRow /\ wk \in [Worker -> WorkerRow] /\ ex \in [Worker -> Executor]
        /\ InStep(w) /\ ShowsPlan(w)
    BY DEF DurableInv, DurableTypeOK, WorkerInv, IInv, TypeOK, LedgerTypeOK
  <1>a. ResetEx(w) => ex'[w] = IdleEx
    BY <1>0 DEF ResetEx
  <1>b. UNCHANGED vars => lease' = lease /\ ex' = ex /\ op' = op /\ run' = run
    BY DEF vars, leaseVars, ledgerVars
  <1>c. wk[w].pc \notin {"poll", "claim", "down"} => lease[w].run # 0
    BY <1>0 DEF InStep
  <1>d. ASSUME NEW pc \in {"claim", "down"}, To(w, pc), lease' = lease, ex' = ex,
               wk[w].pc \in {"poll", "claim"}
        PROVE  Good(w)'
    <2>1. wk'[w] = [wk[w] EXCEPT !.pc = pc]
      BY <1>0, <1>d DEF To
    <2>2. /\ wk'[w] \in WorkerRow /\ wk'[w].pc = pc /\ wk'[w].pend = wk[w].pend
          /\ wk'[w].g = wk[w].g
      BY <1>0, <2>1 DEF WorkerRow
    <2>3. lease'[w].run = 0 /\ ex'[w] = IdleEx /\ wk[w].pend = <<>> /\ ~Owns(w)'
      BY <1>0, <1>d DEF InStep, Graphing, Owns
    <2>4. InStep(w)' /\ ShowsPlan(w)'
      BY <1>0, <2>2, <2>3 DEF InStep, ShowsPlan
    <2> QED BY <2>2, <2>3, <2>4 DEF Good, WorkerInv, Knows, SavesInOrder, GoesOn
  <1>1. CASE Poll(w)
    <2>1. wk[w].pc = "poll" /\ (To(w, "claim") \/ To(w, "down")) /\ lease' = lease /\ ex' = ex
      BY <1>1, <1>b DEF Poll, At, ActivateSupersede, ActivateStart, AcceptRound, leaseVars,
                        ledgerVars
    <2> QED BY <1>d, <2>1
  <1>2. CASE Restart(w)
    <2>1. wk'[w] = Fresh("poll") /\ lease'[w].run = 0 /\ ex'[w] = IdleEx
      BY <1>0, <1>2, <1>b DEF Restart, At, Idle, InStep
    <2> QED BY <2>1, ClaimEnds
  <1>3. CASE ClaimRun(w)
    <2>1. CASE Claim(w) /\ To(w, "recover") /\ UNCHANGED <<ledgerVars, control>>
      <3>1. wk'[w] = [wk[w] EXCEPT !.pc = "recover"]
        BY <1>0, <2>1 DEF To
      <3>2. /\ wk'[w] \in WorkerRow /\ wk'[w].pc = "recover" /\ wk'[w].pend = wk[w].pend
            /\ wk'[w].g = wk[w].g
        BY <1>0, <3>1 DEF WorkerRow
      <3>3. ex'[w] = IdleEx /\ wk[w].pend = <<>>
        BY <1>0, <1>3, <2>1 DEF ClaimRun, At, InStep, Graphing, ledgerVars
      <3>4. lease'[w].run \in Run /\ lease'[w].approval = run'[lease'[w].run].approval
        BY <2>1, ClaimRow DEF IInv
      <3>5. InStep(w)' /\ ShowsPlan(w)'
        BY <1>0, <3>2, <3>3, <3>4 DEF InStep, ShowsPlan, Run
      <3> QED BY <3>2, <3>4, <3>5 DEF Good, WorkerInv, Knows, SavesInOrder, GoesOn, Graphing
    <2>2. CASE Idle(w) /\ UNCHANGED vars
      <3>1. wk'[w] = Fresh("poll") /\ lease'[w].run = 0 /\ ex'[w] = IdleEx
        BY <1>0, <1>3, <1>b, <2>2 DEF ClaimRun, At, Idle, InStep
      <3> QED BY <3>1, ClaimEnds
    <2> QED BY <1>3, <2>1, <2>2 DEF ClaimRun
  <1>e. ASSUME To(w, "load"), lease' = lease, ex'[w] = IdleEx, lease[w].run # 0,
               wk[w].pc \in {"recover", "reconcile"},
               Owns(w) => op'[lease[w].run].state \notin Uncertain
        PROVE  Good(w)'
    <2>1. wk'[w] = [wk[w] EXCEPT !.pc = "load"]
      BY <1>0, <1>e DEF To
    <2>2. /\ wk'[w] \in WorkerRow /\ wk'[w].pc = "load" /\ wk'[w].pend = wk[w].pend
          /\ wk'[w].g = wk[w].g
      BY <1>0, <2>1 DEF WorkerRow
    <2>3. wk[w].pend = <<>> /\ Showable(wk[w].g)
      BY <1>0, <1>e DEF InStep, Graphing, ShowsPlan
    <2> QED BY <1>e, <2>2, <2>3, MovesOn
  <1>4. CASE Recover(w)
    <2>1. wk[w].pc = "recover" /\ wk[w].pc \notin Graphing /\ ex[w] = IdleEx
      BY <1>0, <1>4 DEF Recover, At, Graphing, InStep
    <2>2. ASSUME ~NeedsRecovery(w), To(w, "load"), UNCHANGED <<vars, ckpt>> PROVE Good(w)'
      BY <1>b, <1>c, <1>e, <2>1, <2>2 DEF NeedsRecovery, StateOf
    <2> QED BY <1>4, <1>c, <2>1, <2>2, StartReconcileGood DEF Recover
  <1>5. CASE Reconciled(w)
    <2>1. wk[w].pc = "reconcile" /\ lease[w].run # 0 /\ ex[w].pc = "done"
      BY <1>0, <1>5 DEF Reconciled, At, InStep
    <2>2. ASSUME ex[w].result = "confirmed", To(w, "load"), ResetEx(w), UNCHANGED leaseVars
          PROVE  Good(w)'
      <3>1. lease' = lease /\ op' = op /\ ex'[w] = IdleEx
        BY <1>a, <2>2 DEF leaseVars
      <3>2. Owns(w) => op[lease[w].run].state = "reconciled"
        BY <2>1, <2>2 DEF DurableInv, WorkerInv, Knows
      <3>3. Owns(w) => op'[lease[w].run].state \notin Uncertain
        BY <3>1, <3>2 DEF Uncertain
      <3> QED BY <1>e, <2>1, <2>2, <3>1, <3>3
    <2>3. ASSUME NEW e \in {"transient", "permanent"}, ToExcept(w, e), ResetEx(w),
                 UNCHANGED leaseVars
          PROVE  Good(w)'
      BY <1>a, <2>1, <2>3 DEF leaseVars
    <2> QED BY <1>5, <2>1, <2>2, <2>3 DEF Reconciled
  <1>6. CASE Flushed(w)
    <2>1. wk[w].pc = "flush" /\ lease[w].run \in Run /\ ex[w] = IdleEx
      BY <1>0, <1>6 DEF Flushed, At, InStep, IInv, TypeOK, LeaseTypeOK, Lease
    <2>2. CASE /\ wk' = [wk EXCEPT ![w] = [Fresh("project") EXCEPT !.g = ckpt[lease[w].run]]]
               /\ UNCHANGED <<vars, ckpt>>
      <3>1. wk'[w] = [Fresh("project") EXCEPT !.g = ckpt[lease[w].run]]
        BY <1>0, <2>2
      <3>2. ckpt[lease[w].run] \in Saved /\ Showable(ckpt[lease[w].run])
        BY <2>1 DEF DurableInv, DurableTypeOK, RowInv
      <3>a. Fresh("project") \in WorkerRow
        BY SavedRow
      <3>3. /\ wk'[w] \in WorkerRow /\ wk'[w].pc = "project" /\ wk'[w].pend = <<>>
            /\ wk'[w].g = ckpt[lease[w].run]
        BY <3>1, <3>2, <3>a DEF Fresh, WorkerRow
      <3> QED BY <1>b, <1>c, <2>1, <2>2, <3>2, <3>3, MovesOn
    <2>3. ASSUME wk[w].err \notin {"none", "lost"}, ToExcept(w, wk[w].err), UNCHANGED <<vars, ckpt>>
          PROVE  Good(w)'
      <3>1. wk[w].err \in {"transient", "permanent", "unreadable"}
        BY <1>0, <2>3 DEF WorkerRow
      <3> QED BY <1>b, <1>c, <2>1, <2>3, <3>1
    <2> QED BY <1>6, <2>2, <2>3 DEF Flushed
  <1>7. CASE Project(w)
    <2>1. wk[w].pc = "project" /\ wk[w].pc \notin Graphing
      BY <1>7 DEF Project, At, Graphing
    <2> QED BY <1>7, <1>c, <2>1, StartReconcileGood DEF Project
  <1>8. CASE Handle(w)
    <2>1. wk[w].pc = "except" /\ wk[w].pc \notin Graphing
      BY <1>8 DEF Handle, At, Graphing
    <2> QED BY <1>8, <1>c, <2>1, StartReconcileGood DEF Handle
  <1> QED BY <1>1, <1>2, <1>3, <1>4, <1>5, <1>6, <1>7, <1>8 DEF MainStep

\* The worker is in the graph.
LEMMA InGraph ==
  ASSUME IInv, DurableInv, [Next]_vars, NEW w \in Worker, lease'[w] = lease[w], lease[w].run # 0,
         wk'[w] \in WorkerRow, wk'[w].pc \in Graphing, ShowsPlan(w)',
         wk'[w].pc # "execute" => ex'[w] = IdleEx,
         wk'[w].pc = "execute" => wk'[w].g.next = "execute_remediation",
         Owns(w) => InOrder(ckpt'[lease[w].run], wk'[w]),
         Owns(w) /\ run[lease[w].run].approval # "none" =>
           Decided(wk'[w].g) /\ \A i \in 1..Len(wk'[w].pend) : Decided(wk'[w].pend[i])
  PROVE  Good(w)'
  <1>1. InStep(w)'
    BY DEF InStep, Graphing
  <1>2. Owns(w)' => Owns(w) /\ run'[lease[w].run].approval = run[lease[w].run].approval
    <2>1. CASE Next
      BY <2>1, OwnerKeeps
    <2>2. CASE UNCHANGED vars
      BY <2>2 DEF vars, leaseVars, Owns
    <2> QED BY <2>1, <2>2
  <1>3. Knows(w)'
    BY <1>2 DEF Knows, DurableInv, WorkerInv, Graphing
  <1>4. SavesInOrder(w)' /\ GoesOn(w)'
    BY <1>2 DEF SavesInOrder, GoesOn
  <1> QED BY <1>1, <1>3, <1>4 DEF Good, WorkerInv

\* get_state() and classify(): the graph starts only where nothing is stored, and
\* otherwise goes on from what is.
LEMMA LoadGood ==
  ASSUME IInv, DurableInv, [Next]_vars, NEW w \in Worker, Load(w)
  PROVE  Good(w)'
  <1> DEFINE r == lease[w].run
             s == ckpt[r]
             d == Decide(w, s)
  <1>0. /\ wk[w].pc = "load" /\ r \in Run /\ lease[w].run # 0 /\ s \in Saved /\ Showable(s)
        /\ run[r].approval # "none" => Decided(s)
        /\ ex[w] = IdleEx /\ wk \in [Worker -> WorkerRow]
    BY DEF Load, At, DurableInv, DurableTypeOK, WorkerInv, RowInv, InStep, IInv, TypeOK,
           LeaseTypeOK, Lease
  <1>1. UNCHANGED vars => lease' = lease /\ ex' = ex
    BY DEF vars, leaseVars, ledgerVars
  <1>2. d.action = "start" => s.next = "none"
    BY <1>0, DecideStatus
  <1> HIDE DEF d
  <1>3. CASE wk' = [wk EXCEPT ![w] = [Fresh("project") EXCEPT !.g = s]] /\ UNCHANGED <<vars, ckpt>>
    <2>1. wk'[w] = [Fresh("project") EXCEPT !.g = s]
      BY <1>0, <1>3
    <2>2. Fresh("project") \in WorkerRow
      BY SavedRow
    <2>3. /\ wk'[w] \in WorkerRow /\ wk'[w].pc = "project" /\ wk'[w].pend = <<>>
          /\ wk'[w].g = s
      BY <1>0, <2>1, <2>2 DEF Fresh, WorkerRow
    <2> QED BY <1>0, <1>1, <1>3, <2>3, MovesOn
  <1>4. ASSUME NEW g \in Saved, NEW pend \in Seq(Saved), NEW resume \in BOOLEAN,
               wk' = [wk EXCEPT ![w] = [Fresh("node") EXCEPT !.g = g, !.pend = pend,
                                                             !.resume = resume]],
               UNCHANGED <<vars, ckpt>>, Showable(g), ~g.intr,
               \/ pend = <<>> /\ g.next = s.next /\ g.phase = s.phase
               \/ pend = <<g>> /\ s.next = "none" /\ g.next = "diagnose"
        PROVE  Good(w)'
    <2>0. g \in Saved /\ pend \in Seq(Saved) /\ resume \in BOOLEAN /\ Showable(g) /\ ~g.intr
      BY <1>4
    <2>1. wk'[w] = Started(g, pend, resume)
      BY <1>0, <1>4 DEF Started
    <2>3. /\ wk'[w] \in WorkerRow /\ wk'[w].pc = "node" /\ wk'[w].pend = pend
          /\ wk'[w].g = g
      BY <2>0, <2>1, StartedRow
    <2>4. CASE pend = <<>> /\ g.next = s.next /\ g.phase = s.phase
      <3>1. Len(pend) = 0
        BY <2>4
      <3>2. ShowsPlan(w)'
        BY <2>0, <2>3, <3>1 DEF ShowsPlan
      <3>3. InOrder(s, wk'[w])
        BY <2>3, <2>4, <3>1, Stages DEF InOrder
      <3>4. Decided(s) => Decided(g)
        BY <2>4 DEF Decided
      <3> QED BY <1>0, <1>1, <1>4, <2>3, <3>1, <3>2, <3>3, <3>4, InGraph DEF Graphing
    <2>5. CASE pend = <<g>> /\ s.next = "none" /\ g.next = "diagnose"
      <3>1. Len(pend) = 1 /\ pend[1] = g
        BY <2>5
      <3>2. ShowsPlan(w)'
        BY <2>0, <2>3, <3>1 DEF ShowsPlan
      <3>3. InOrder(s, wk'[w])
        BY <2>3, <2>5, <3>1, Stages DEF InOrder
      <3>4. ~Decided(s)
        BY <2>5 DEF Decided
      <3> QED BY <1>0, <1>1, <1>4, <2>3, <3>2, <3>3, <3>4, InGraph DEF Graphing
    <2> QED BY <1>4, <2>4, <2>5
  <1>5. ASSUME d.action = "start",
               wk' = [wk EXCEPT ![w] = [Fresh("node") EXCEPT !.g = Initial, !.pend = <<Initial>>,
                                                             !.resume = FALSE]],
               UNCHANGED <<vars, ckpt>>
        PROVE  Good(w)'
    <2>1. <<Initial>> \in Seq(Saved) /\ Initial \in Saved /\ FALSE \in BOOLEAN
      BY SavedRow
    <2> QED BY <1>2, <1>4, <1>5, <2>1, SavedRow
  <1>6. ASSUME NEW resume \in BOOLEAN,
               wk' = [wk EXCEPT ![w] = [Fresh("node") EXCEPT !.g = [s EXCEPT !.intr = FALSE],
                                           !.pend = <<>>, !.resume = resume]],
               UNCHANGED <<vars, ckpt>>
        PROVE  Good(w)'
    <2> DEFINE g == [s EXCEPT !.intr = FALSE]
    <2>a. ASSUME NEW x \in Saved, NEW y, y = [x EXCEPT !.intr = FALSE]
          PROVE  y \in Saved /\ y.next = x.next /\ y.phase = x.phase /\ ~y.intr
      BY <2>a DEF Saved
    <2>b. <<>> \in Seq(Saved)
      OBVIOUS
    <2>1. /\ g \in Saved /\ g.next = s.next /\ g.phase = s.phase /\ ~g.intr
          /\ <<>> \in Seq(Saved)
      BY <1>0, <2>a, <2>b
    <2>2. Showable(g)
      BY <1>0, <2>1 DEF Showable
    <2> HIDE DEF g, s
    <2> QED BY <1>4, <1>6, <2>1, <2>2 DEF g
  <1>7. (d.action = "resume") \in BOOLEAN
    OBVIOUS
  <1>8. CASE d.action # "stop" /\ ~lease[w].recoveryOnly /\ d.action = "start"
             /\ wk' = [wk EXCEPT ![w] = [Fresh("node") EXCEPT !.g = Initial,
                                           !.pend = <<Initial>>, !.resume = FALSE]]
             /\ UNCHANGED <<vars, ckpt>>
    BY <1>5, <1>8
  <1>9. CASE wk' = [wk EXCEPT ![w] = [Fresh("node") EXCEPT !.g = [s EXCEPT !.intr = FALSE],
                                           !.pend = <<>>, !.resume = (d.action = "resume")]]
             /\ UNCHANGED <<vars, ckpt>>
    BY <1>6, <1>7, <1>9
  <1>10. \/ Leave(w)
         \/ wk' = [wk EXCEPT ![w] = [Fresh("project") EXCEPT !.g = s]] /\ UNCHANGED <<vars, ckpt>>
         \/ Conclude(w, "failed", "worker", "none")
         \/ d.action # "stop" /\ ~lease[w].recoveryOnly /\ d.action = "start"
             /\ wk' = [wk EXCEPT ![w] = [Fresh("node") EXCEPT !.g = Initial,
                                           !.pend = <<Initial>>, !.resume = FALSE]]
             /\ UNCHANGED <<vars, ckpt>>
         \/ wk' = [wk EXCEPT ![w] = [Fresh("node") EXCEPT !.g = [s EXCEPT !.intr = FALSE],
                                           !.pend = <<>>, !.resume = (d.action = "resume")]]
             /\ UNCHANGED <<vars, ckpt>>
         \/ Throws(w, {"transient", "permanent", "unreadable"})
    BY DEF Load, d
  <1>11. ASSUME Throws(w, {"transient", "permanent", "unreadable"}) PROVE Good(w)'
    BY <1>0, <1>11, Ends
  <1> QED BY <1>3, <1>8, <1>9, <1>10, <1>11, Ends

\* The row of a worker whose graph queued q and moved on to g.
LEMMA QueueGood ==
  ASSUME IInv, DurableInv, [Next]_vars, NEW w \in Worker, wk[w].pc \in {"node", "execute"},
         lease' = lease, ex'[w] = IdleEx, ckpt' = ckpt,
         NEW g \in Saved, NEW e \in Saved, NEW q,
         q = wk[w].pend \/ q = Append(wk[w].pend, e),
         wk'[w] \in WorkerRow, wk'[w].g = g, wk'[w].pend = q, wk'[w].pc \in {"node", "flush"},
         Showable(g), Showable(e), ~g.intr, e.next = g.next, e.phase = g.phase,
         Stage(wk[w].g.next) <= Stage(g.next), Decided(wk[w].g) => Decided(g)
  PROVE  Good(w)'
  <1> DEFINE p == wk[w].pend
             c == ckpt[lease[w].run]
  <1>0. /\ p \in Seq(Saved) /\ lease[w].run # 0 /\ wk[w].pc \in Graphing /\ Showable(wk[w].g)
        /\ \A i \in 1..Len(p) : Showable(p[i])
        /\ Owns(w) => InOrder(c, wk[w])
        /\ Owns(w) /\ run[lease[w].run].approval # "none" =>
             Decided(wk[w].g) /\ \A i \in 1..Len(p) : Decided(p[i])
    BY DEF DurableInv, DurableTypeOK, WorkerRow, WorkerInv, InStep, ShowsPlan, SavesInOrder,
           GoesOn, Graphing
  <1>a. q = p \/ q = Append(p, e)
    OBVIOUS
  <1> HIDE DEF p, c
  <1>1. /\ Len(p) \in Nat /\ Len(q) \in Nat /\ Len(q) >= Len(p)
        /\ \A i \in 1..Len(q) : (i \in 1..Len(p) /\ q[i] = p[i]) \/ (i = Len(p) + 1 /\ q[i] = e)
    <2>1. CASE q = p
      BY <1>0, <2>1
    <2>2. CASE q = Append(p, e)
      BY <1>0, <2>2, AppendFacts
    <2> QED BY <1>a, <2>1, <2>2
  <1>2. \A i \in 1..Len(q) : Showable(q[i])
    BY <1>0, <1>1
  <1>3. ShowsPlan(w)'
    BY <1>2 DEF ShowsPlan
  <1>4. Decided(wk[w].g) => Decided(e)
    BY DEF Decided
  <1>5. ASSUME Owns(w) PROVE InOrder(c, wk'[w])
    <2>1. /\ Stage(c.next) <= Stage(wk[w].g.next)
          /\ \A i \in 1..Len(p) : /\ Stage(c.next) <= Stage(p[i].next)
                                  /\ Stage(p[i].next) <= Stage(wk[w].g.next)
          /\ \A i, j \in 1..Len(p) : i < j => Stage(p[i].next) <= Stage(p[j].next)
      BY <1>0, <1>5 DEF InOrder, p
    <2>2. \A n : Stage(n) \in Int
      BY Stages
    <2>3. \A i \in 1..Len(q) : /\ Stage(c.next) <= Stage(q[i].next)
                               /\ Stage(q[i].next) <= Stage(g.next)
      <3> SUFFICES ASSUME NEW i \in 1..Len(q)
                   PROVE  Stage(c.next) <= Stage(q[i].next) /\ Stage(q[i].next) <= Stage(g.next)
        OBVIOUS
      <3>1. CASE i \in 1..Len(p) /\ q[i] = p[i]
        BY <2>1, <2>2, <3>1
      <3>2. CASE q[i] = e
        BY <2>1, <2>2, <3>2
      <3> QED BY <1>1, <3>1, <3>2
    <2>4. ASSUME NEW i \in 1..Len(q), NEW j \in 1..Len(q), i < j
          PROVE  Stage(q[i].next) <= Stage(q[j].next)
      <3>1. i \in 1..Len(p) /\ q[i] = p[i]
        BY <1>1, <2>4
      <3>2. CASE j \in 1..Len(p) /\ q[j] = p[j]
        BY <2>1, <2>4, <3>1, <3>2
      <3>3. CASE q[j] = e
        BY <2>1, <2>2, <3>1, <3>3
      <3> QED BY <1>1, <3>2, <3>3
    <2>5. Stage(c.next) <= Stage(g.next)
      BY <2>1, <2>2
    <2> QED BY <2>3, <2>4, <2>5 DEF InOrder
  <1>6. ASSUME Owns(w), run[lease[w].run].approval # "none"
        PROVE  Decided(g) /\ \A i \in 1..Len(q) : Decided(q[i])
    BY <1>0, <1>1, <1>4, <1>6
  <1> QED BY <1>0, <1>3, <1>5, <1>6, InGraph DEF c, Graphing

\* A node returned g.
LEMMA AfterGood ==
  ASSUME IInv, DurableInv, [Next]_vars, NEW w \in Worker, wk[w].pc \in {"node", "execute"},
         lease' = lease, ex'[w] = IdleEx, ckpt' = ckpt, NEW g \in Saved, After(w, g),
         Showable(g), ~g.intr, Stage(wk[w].g.next) <= Stage(g.next),
         Decided(wk[w].g) => Decided(g)
  PROVE  Good(w)'
  <1> DEFINE q == IF wk[w].err = "none" THEN Append(wk[w].pend, g) ELSE wk[w].pend
             pc == IF g.next = "END" THEN "flush" ELSE "node"
  <1>0. wk \in [Worker -> WorkerRow] /\ wk[w] \in WorkerRow /\ wk[w].pend \in Seq(Saved)
    BY DEF DurableInv, DurableTypeOK, WorkerRow
  <1>1. q \in Seq(Saved) /\ pc \in {"node", "flush"} /\ FALSE \in BOOLEAN
    BY <1>0, AppendFacts
  <1>2. q = wk[w].pend \/ q = Append(wk[w].pend, g)
    OBVIOUS
  <1>a. wk' = [wk EXCEPT ![w] = [wk[w] EXCEPT !.g = g, !.resume = FALSE, !.pend = q, !.pc = pc]]
    BY DEF After
  <1> HIDE DEF q, pc
  <1>3. wk'[w] = Stepped(wk[w], g, q, pc)
    BY <1>0, <1>a DEF Stepped
  <1>4. wk'[w] \in WorkerRow /\ wk'[w].pc = pc /\ wk'[w].pend = q /\ wk'[w].g = g
    BY <1>0, <1>1, <1>3, SteppedRow
  <1> QED BY <1>1, <1>2, <1>4, QueueGood

\* The graph goes from g to h.
Onward(g, h) ==
  /\ h \in Saved /\ Showable(h) /\ ~h.intr
  /\ Stage(g.next) <= Stage(h.next) /\ (Decided(g) => Decided(h))

LEMMA Endings ==
  ASSUME NEW g \in Saved, ~g.intr, NEW phase \in Phase,
         phase = "skipped" => g.next = "diagnose"
  PROVE  Onward(g, Ended(g, phase))
  <1> DEFINE h == Ended(g, phase)
  <1>1. /\ h \in Saved /\ h.next = "END" /\ h.phase = phase /\ ~h.intr
    BY DEF Ended, Saved, Node
  <1>2. Showable(h) /\ (Decided(g) => Decided(h))
    BY <1>1 DEF Showable, Decided
  <1>3. Stage(g.next) <= Stage(h.next)
    BY <1>1, Stages
  <1> QED BY <1>1, <1>2, <1>3 DEF Onward

LEMMA Onwards ==
  ASSUME NEW g \in Saved, ~g.intr
  PROVE  /\ g.next = "diagnose" => \A p \in Config :
              Onward(g, [g EXCEPT !.next = "prepare_approval", !.prior = p])
         /\ g.next = "prepare_approval" =>
              Onward(g, [g EXCEPT !.next = "request_human_approval",
                                  !.phase = "awaiting_approval"])
         /\ g.next = "request_human_approval" =>
              Onward(g, [g EXCEPT !.next = "execute_remediation",
                                  !.phase = "approval_approved", !.approved = TRUE])
         /\ g.next = "execute_remediation" =>
              Onward(g, [g EXCEPT !.next = "verify_recovery", !.phase = "executed",
                                  !.result = "succeeded"])
         /\ Onward(g, [Ended(g, "conflict") EXCEPT !.result = "conflict"])
  <1>1. ASSUME NEW h, h \in Saved, ~h.intr, h.next # "request_human_approval",
               Stage(g.next) <= Stage(h.next), Decided(g) => Decided(h)
        PROVE  Onward(g, h)
    BY <1>1 DEF Onward, Showable
  <1>2. ASSUME g.next = "diagnose", NEW p \in Config
        PROVE  Onward(g, [g EXCEPT !.next = "prepare_approval", !.prior = p])
    <2> DEFINE h == [g EXCEPT !.next = "prepare_approval", !.prior = p]
    <2>1. h \in Saved /\ h.next = "prepare_approval" /\ ~h.intr
      BY DEF Saved, Node, ReadOnlyNodes
    <2>2. Stage(g.next) <= Stage(h.next) /\ ~Decided(g)
      BY <1>2, <2>1, Stages DEF Decided
    <2> HIDE DEF h
    <2>3. Onward(g, h)
      BY <1>1, <2>1, <2>2
    <2> QED BY <2>3 DEF h
  <1>3. ASSUME g.next = "prepare_approval"
        PROVE  Onward(g, [g EXCEPT !.next = "request_human_approval",
                                   !.phase = "awaiting_approval"])
    <2> DEFINE h == [g EXCEPT !.next = "request_human_approval", !.phase = "awaiting_approval"]
    <2>1. /\ h \in Saved /\ h.next = "request_human_approval" /\ ~h.intr
          /\ h.phase = "awaiting_approval"
      BY DEF Saved, Node, ReadOnlyNodes, Phase
    <2>2. Stage(g.next) <= Stage(h.next) /\ ~Decided(g)
      BY <1>3, <2>1, Stages DEF Decided
    <2> QED BY <2>1, <2>2 DEF Onward, Showable
  <1>4. ASSUME g.next = "request_human_approval"
        PROVE  Onward(g, [g EXCEPT !.next = "execute_remediation",
                                   !.phase = "approval_approved", !.approved = TRUE])
    <2> DEFINE h == [g EXCEPT !.next = "execute_remediation", !.phase = "approval_approved",
                              !.approved = TRUE]
    <2>1. /\ h \in Saved /\ h.next = "execute_remediation" /\ ~h.intr
          /\ h.phase = "approval_approved"
      BY DEF Saved, Node, WriteNodes, Phase
    <2>2. Stage(g.next) <= Stage(h.next) /\ Decided(h)
      BY <1>4, <2>1, Stages DEF Decided
    <2> HIDE DEF h
    <2>3. Onward(g, h)
      BY <1>1, <2>1, <2>2
    <2> QED BY <2>3 DEF h
  <1>5. ASSUME g.next = "execute_remediation"
        PROVE  Onward(g, [g EXCEPT !.next = "verify_recovery", !.phase = "executed",
                                   !.result = "succeeded"])
    <2> DEFINE h == [g EXCEPT !.next = "verify_recovery", !.phase = "executed",
                              !.result = "succeeded"]
    <2>1. /\ h \in Saved /\ h.next = "verify_recovery" /\ ~h.intr
          /\ h.phase = "executed"
      BY DEF Saved, Node, WriteNodes, Phase
    <2>2. Stage(g.next) <= Stage(h.next) /\ Decided(h)
      BY <1>5, <2>1, Stages DEF Decided
    <2> HIDE DEF h
    <2>3. Onward(g, h)
      BY <1>1, <2>1, <2>2
    <2> QED BY <2>3 DEF h
  <1>6. Onward(g, [Ended(g, "conflict") EXCEPT !.result = "conflict"])
    <2> DEFINE h == [Ended(g, "conflict") EXCEPT !.result = "conflict"]
    <2>1. h \in Saved /\ h.next = "END" /\ ~h.intr /\ h.phase = "conflict"
      BY DEF Ended, Saved, Node, Phase
    <2>2. Stage(g.next) <= Stage(h.next) /\ (Decided(g) => Decided(h))
      BY <2>1, Stages DEF Decided
    <2> HIDE DEF h
    <2>3. Onward(g, h)
      BY <1>1, <2>1, <2>2
    <2> QED BY <2>3 DEF h
  <1> QED BY <1>2, <1>3, <1>4, <1>5, <1>6

\* The nodes of the graph.
LEMMA NodeGood ==
  ASSUME IInv, DurableInv, [Next]_vars, NEW w \in Worker, NodeStep(w)
  PROVE  Good(w)'
  <1> DEFINE g == wk[w].g
  <1>0. /\ wk \in [Worker -> WorkerRow] /\ wk[w] \in WorkerRow /\ g \in Saved /\ InStep(w)
        /\ ShowsPlan(w) /\ ex \in [Worker -> Executor] /\ target.cfg \in Config
        /\ wk[w].pend \in Seq(Saved)
    BY DEF DurableInv, DurableTypeOK, WorkerRow, WorkerInv, IInv, TypeOK, LedgerTypeOK, Snapshot
  <1>1. UNCHANGED vars => lease' = lease /\ ex' = ex
    BY DEF vars, leaseVars, ledgerVars
  <1>2. wk[w].pc = "node" => ex[w] = IdleEx /\ ~g.intr /\ Showable(g) /\ lease[w].run # 0
    BY <1>0 DEF InStep, ShowsPlan
  <1>3. ASSUME NEW h, After(w, h), Onward(g, h), wk[w].pc \in {"node", "execute"},
               lease' = lease, ex'[w] = IdleEx, ckpt' = ckpt
        PROVE  Good(w)'
    BY <1>3, AfterGood DEF Onward
  <1>4. /\ "failed" \in Phase /\ "skipped" \in Phase /\ "approval_rejected" \in Phase
        /\ "verification_succeeded" \in Phase /\ "conflict" \in Phase
    BY DEF Phase
  <1>5. ASSUME NEW h, After(w, h), Onward(g, h), wk[w].pc = "node", UNCHANGED <<vars, ckpt>>
        PROVE  Good(w)'
    BY <1>1, <1>2, <1>3, <1>5
  <1>6. CASE Diagnose(w)
    <2>1. wk[w].pc = "node" /\ g.next = "diagnose" /\ UNCHANGED <<vars, ckpt>>
      BY <1>6 DEF Diagnose, NodeAt, At
    <2>2. \/ After(w, Ended(g, "failed")) \/ After(w, Ended(g, "skipped"))
          \/ After(w, [g EXCEPT !.next = "prepare_approval", !.prior = target.cfg])
      BY <1>6 DEF Diagnose
    <2>3. /\ Onward(g, Ended(g, "failed")) /\ Onward(g, Ended(g, "skipped"))
          /\ Onward(g, [g EXCEPT !.next = "prepare_approval", !.prior = target.cfg])
      BY <1>0, <1>2, <1>4, <2>1, Endings, Onwards
    <2> HIDE DEF g
    <2> QED BY <1>5, <2>1, <2>2, <2>3
  <1>7. CASE PrepareApproval(w)
    <2>1. wk[w].pc = "node" /\ g.next = "prepare_approval" /\ UNCHANGED <<vars, ckpt>>
      BY <1>7 DEF PrepareApproval, NodeAt, At
    <2>2. \/ After(w, Ended(g, "failed"))
          \/ After(w, [g EXCEPT !.next = "request_human_approval",
                                !.phase = "awaiting_approval"])
      BY <1>7 DEF PrepareApproval
    <2>3. /\ Onward(g, Ended(g, "failed"))
          /\ Onward(g, [g EXCEPT !.next = "request_human_approval",
                                 !.phase = "awaiting_approval"])
      BY <1>0, <1>2, <1>4, <2>1, Endings, Onwards
    <2> HIDE DEF g
    <2> QED BY <1>5, <2>1, <2>2, <2>3
  <1>8. CASE RequestHumanApproval(w)
    <2>1. wk[w].pc = "node" /\ g.next = "request_human_approval" /\ UNCHANGED <<vars, ckpt>>
      BY <1>8 DEF RequestHumanApproval, NodeAt, At
    <2>2. /\ Onward(g, Ended(g, "failed")) /\ Onward(g, Ended(g, "approval_rejected"))
          /\ Onward(g, [g EXCEPT !.next = "execute_remediation",
                                 !.phase = "approval_approved", !.approved = TRUE])
      BY <1>0, <1>2, <1>4, <2>1, Endings, Onwards
    <2> DEFINE e == [g EXCEPT !.intr = TRUE]
               q == IF wk[w].err = "none" THEN Append(wk[w].pend, e) ELSE wk[w].pend
    <2>3. ASSUME wk' = [wk EXCEPT ![w] = [wk[w] EXCEPT !.pend = q, !.pc = "flush"]]
          PROVE  Good(w)'
      <3>1. e \in Saved /\ e.next = g.next /\ e.phase = g.phase
        BY <1>0 DEF Saved
      <3>2. Showable(e)
        BY <1>2, <2>1, <3>1 DEF Showable
      <3>3. q \in Seq(Saved) /\ (q = wk[w].pend \/ q = Append(wk[w].pend, e))
        BY <1>0, <3>1, AppendFacts
      <3> HIDE DEF q, e
      <3>4. wk'[w] = [wk[w] EXCEPT !.pend = q, !.pc = "flush"]
        BY <1>0, <2>3
      <3>5. wk'[w] \in WorkerRow /\ wk'[w].g = g /\ wk'[w].pend = q /\ wk'[w].pc = "flush"
        BY <1>0, <3>3, <3>4 DEF WorkerRow
      <3>6. Stage(g.next) <= Stage(g.next)
        BY Stages
      <3> QED BY <1>0, <1>1, <1>2, <2>1, <3>1, <3>2, <3>3, <3>5, <3>6, QueueGood
    <2>4. \/ After(w, Ended(g, "failed")) \/ After(w, Ended(g, "approval_rejected"))
          \/ After(w, [g EXCEPT !.next = "execute_remediation",
                                !.phase = "approval_approved", !.approved = TRUE])
          \/ wk' = [wk EXCEPT ![w] = [wk[w] EXCEPT !.pend = q, !.pc = "flush"]]
      BY <1>8 DEF RequestHumanApproval
    <2> HIDE DEF g, q
    <2> QED BY <1>5, <2>1, <2>2, <2>3, <2>4
  <1>9. CASE VerifyRecovery(w)
    <2>1. wk[w].pc = "node" /\ g.next = "verify_recovery" /\ UNCHANGED <<vars, ckpt>>
      BY <1>9 DEF VerifyRecovery, NodeAt, At
    <2>2. After(w, Ended(g, "failed")) \/ After(w, Ended(g, "verification_succeeded"))
      BY <1>9 DEF VerifyRecovery
    <2>3. Onward(g, Ended(g, "failed")) /\ Onward(g, Ended(g, "verification_succeeded"))
      BY <1>0, <1>2, <1>4, <2>1, Endings
    <2> HIDE DEF g
    <2> QED BY <1>5, <2>1, <2>2, <2>3
  <1>10. CASE ExecuteReturn(w)
    <2>1. /\ wk[w].pc = "execute" /\ g.next = "execute_remediation" /\ ~g.intr
          /\ lease' = lease /\ ckpt' = ckpt /\ ex'[w] = IdleEx
      BY <1>0, <1>10 DEF ExecuteReturn, At, InStep, ShowsPlan, ResetEx, leaseVars
    <2>2. \/ After(w, Ended(g, "failed"))
          \/ After(w, [Ended(g, "conflict") EXCEPT !.result = "conflict"])
          \/ After(w, [g EXCEPT !.next = "verify_recovery", !.phase = "executed",
                                !.result = "succeeded"])
      BY <1>10 DEF ExecuteReturn
    <2>3. /\ Onward(g, Ended(g, "failed"))
          /\ Onward(g, [Ended(g, "conflict") EXCEPT !.result = "conflict"])
          /\ Onward(g, [g EXCEPT !.next = "verify_recovery", !.phase = "executed",
                                 !.result = "succeeded"])
      BY <1>0, <1>4, <2>1, Endings, Onwards
    <2> HIDE DEF g
    <2> QED BY <1>3, <2>1, <2>2, <2>3
  <1>11. CASE ExecuteCall(w)
    <2>1. wk[w].pc = "node" /\ g.next = "execute_remediation" /\ ckpt' = ckpt
      BY <1>11 DEF ExecuteCall, NodeAt, At
    <2>2. Onward(g, Ended(g, "failed"))
      BY <1>0, <1>2, <1>4, <2>1, Endings
    <2>3. CASE After(w, Ended(g, "failed")) /\ UNCHANGED vars
      BY <1>5, <2>1, <2>2, <2>3
    <2>4. CASE ExecuteBegin(w) /\ To(w, "execute")
      <3>1. wk'[w] = [wk[w] EXCEPT !.pc = "execute"]
        BY <1>0, <2>4 DEF To
      <3>2. /\ wk'[w] \in WorkerRow /\ wk'[w].pc = "execute" /\ wk'[w].pend = wk[w].pend
            /\ wk'[w].g = g
        BY <1>0, <3>1 DEF WorkerRow
      <3>3. lease' = lease
        BY <2>4 DEF ExecuteBegin, leaseVars
      <3>4. ShowsPlan(w)'
        BY <1>0, <1>2, <2>1, <3>2 DEF ShowsPlan
      <3>5. Owns(w) => InOrder(ckpt[lease[w].run], wk[w])
        BY <2>1 DEF DurableInv, WorkerInv, SavesInOrder, Graphing
      <3>6. Owns(w) => InOrder(ckpt'[lease[w].run], wk'[w])
        BY <2>1, <3>2, <3>5 DEF InOrder
      <3>7. Owns(w) /\ run[lease[w].run].approval # "none" =>
              Decided(wk'[w].g) /\ \A i \in 1..Len(wk'[w].pend) : Decided(wk'[w].pend[i])
        BY <2>1, <3>2 DEF DurableInv, WorkerInv, GoesOn, Graphing
      <3> HIDE DEF g
      <3> QED BY <1>2, <2>1, <3>2, <3>3, <3>4, <3>6, <3>7, InGraph DEF Graphing, g
    <2> QED BY <1>11, <2>3, <2>4 DEF ExecuteCall
  <1> QED BY <1>6, <1>7, <1>8, <1>9, <1>10, <1>11 DEF NodeStep

\* A worker that the step passes over.
LEMMA Undisturbed ==
  ASSUME IInv, DurableInv, [Next]_vars, NEW v \in Worker, lease'[v] = lease[v], ex'[v] = ex[v],
         wk'[v] = wk[v],
         Owns(v) /\ Owns(v)' => /\ ckpt'[lease[v].run] = ckpt[lease[v].run]
                                /\ op'[lease[v].run] = op[lease[v].run]
  PROVE  Good(v)'
  <1>0. /\ wk[v] \in WorkerRow /\ InStep(v) /\ ShowsPlan(v) /\ Knows(v) /\ SavesInOrder(v)
        /\ GoesOn(v)
    BY DEF DurableInv, DurableTypeOK, WorkerInv
  <1>1. Owns(v)' => Owns(v) /\ run'[lease[v].run].approval = run[lease[v].run].approval
    <2>1. CASE Next
      BY <2>1, OwnerKeeps
    <2>2. CASE UNCHANGED vars
      BY <2>2 DEF vars, leaseVars, Owns
    <2> QED BY <2>1, <2>2
  <1>2. InStep(v)' /\ ShowsPlan(v)'
    BY <1>0 DEF InStep, ShowsPlan
  <1>3. Knows(v)'
    BY <1>0, <1>1 DEF Knows
  <1>4. SavesInOrder(v)' /\ GoesOn(v)'
    BY <1>0, <1>1 DEF SavesInOrder, GoesOn
  <1> QED BY <1>0, <1>2, <1>3, <1>4 DEF Good, WorkerInv

\* FencedPostgresSaver.
LEMMA SaverGood ==
  ASSUME IInv, DurableInv, [Next]_vars, NEW w \in Worker, SaverStep(w)
  PROVE  Good(w)'
  <1> DEFINE p == wk[w].pend
             r == lease[w].run
  <1>0. /\ wk \in [Worker -> WorkerRow] /\ wk[w] \in WorkerRow /\ p \in Seq(Saved)
        /\ InStep(w) /\ ShowsPlan(w) /\ SavesInOrder(w) /\ GoesOn(w)
        /\ ckpt \in [Run -> Saved] /\ p # <<>> /\ wk[w].pc \in Graphing /\ r \in Run
    BY DEF DurableInv, DurableTypeOK, WorkerInv, WorkerRow, IInv, TypeOK, LeaseTypeOK, Lease,
           SaverStep, MarkStarted, SaveCheckpoint, SaveFails, InStep, Graphing
  <1>a. /\ wk[w].pc \in Graphing /\ lease[w].run # 0
        /\ wk[w].pc # "execute" => ex[w] = IdleEx
        /\ wk[w].pc = "execute" => wk[w].g.next = "execute_remediation"
    BY <1>0 DEF InStep, Graphing, Run
  <1>1. CASE MarkStarted(w)
    <2>1. lease' = lease /\ ex' = ex /\ wk' = wk /\ ckpt' = ckpt /\ op' = op
      BY <1>1 DEF MarkStarted, MarkCheckpointStarted, ledgerVars
    <2> QED BY <2>1, Undisturbed
  <1>2. CASE SaveCheckpoint(w)
    <2>1. /\ Owns(w) /\ lease' = lease /\ ex' = ex /\ ckpt'[r] = Head(p)
          /\ wk'[w] = [wk[w] EXCEPT !.pend = Tail(p)]
      BY <1>0, <1>2 DEF SaveCheckpoint, vars, leaseVars, ledgerVars
    <2>2. /\ Tail(p) \in Seq(Saved) /\ Len(Tail(p)) = Len(p) - 1 /\ Len(p) \in Nat \ {0}
          /\ Head(p) = p[1] /\ \A i \in 1..Len(Tail(p)) : Tail(p)[i] = p[i + 1]
      BY <1>0, TailFacts
    <2> DEFINE q == Tail(p)
    <2> HIDE DEF q
    <2>3. /\ wk'[w] \in WorkerRow /\ wk'[w].pc = wk[w].pc /\ wk'[w].g = wk[w].g
          /\ wk'[w].pend = q
      BY <1>0, <2>1, <2>2 DEF WorkerRow, q
    <2>4. \A i \in 1..Len(q) : q[i] = p[i + 1] /\ i + 1 \in 1..Len(p)
      BY <2>2 DEF q
    <2>5. ShowsPlan(w)'
      BY <1>0, <2>3, <2>4 DEF ShowsPlan
    <2>6. InOrder(ckpt[r], wk[w])
      BY <1>0, <2>1 DEF SavesInOrder
    <2>7. InOrder(ckpt'[r], wk'[w])
      <3> HIDE DEF p
      <3>1. /\ \A i \in 1..Len(p) : Stage(p[i].next) <= Stage(wk[w].g.next)
            /\ \A i, j \in 1..Len(p) : i < j => Stage(p[i].next) <= Stage(p[j].next)
        BY <2>6 DEF InOrder, p
      <3>2. 1 \in 1..Len(p) /\ \A i \in 1..Len(q) : 1 < i + 1
        BY <2>2
      <3>3. \A i \in 1..Len(q) : /\ Stage(ckpt'[r].next) <= Stage(q[i].next)
                                 /\ Stage(q[i].next) <= Stage(wk[w].g.next)
        BY <2>1, <2>2, <2>4, <3>1, <3>2
      <3>4. \A i, j \in 1..Len(q) : i < j => Stage(q[i].next) <= Stage(q[j].next)
        BY <2>4, <3>1
      <3>5. Stage(ckpt'[r].next) <= Stage(wk[w].g.next)
        BY <2>1, <2>2, <3>1, <3>2
      <3> QED BY <2>3, <3>3, <3>4, <3>5 DEF InOrder
    <2>8. Owns(w) /\ run[r].approval # "none" =>
            Decided(wk'[w].g) /\ \A i \in 1..Len(wk'[w].pend) : Decided(wk'[w].pend[i])
      BY <1>0, <2>3, <2>4 DEF GoesOn
    <2> QED BY <1>a, <2>1, <2>3, <2>5, <2>7, <2>8, InGraph
  <1>3. CASE SaveFails(w)
    <2>1. PICK e \in {"lost", "transient", "permanent"} :
            wk' = [wk EXCEPT ![w] = [wk[w] EXCEPT !.pend = <<>>, !.err = e]]
      BY <1>3 DEF SaveFails
    <2>2. lease' = lease /\ ex' = ex /\ ckpt' = ckpt
      BY <1>3 DEF SaveFails, ledgerVars
    <2>3. wk'[w] = [wk[w] EXCEPT !.pend = <<>>, !.err = e]
      BY <1>0, <2>1
    <2>a. <<>> \in Seq(Saved) /\ Len(<<>>) = 0
      OBVIOUS
    <2>4. /\ wk'[w] \in WorkerRow /\ wk'[w].pc = wk[w].pc /\ wk'[w].g = wk[w].g
          /\ wk'[w].pend = <<>>
      BY <1>0, <2>3, <2>a DEF WorkerRow
    <2>5. ShowsPlan(w)'
      BY <1>0, <2>4, <2>a DEF ShowsPlan
    <2>6. Owns(w) => InOrder(ckpt'[r], wk'[w])
      BY <1>0, <2>2, <2>4, <2>a DEF SavesInOrder, InOrder
    <2>7. Owns(w) /\ run[r].approval # "none" =>
            Decided(wk'[w].g) /\ \A i \in 1..Len(wk'[w].pend) : Decided(wk'[w].pend[i])
      BY <1>0, <2>4, <2>a DEF GoesOn
    <2> QED BY <1>a, <2>2, <2>4, <2>5, <2>6, <2>7, InGraph
  <1> QED BY <1>1, <1>2, <1>3 DEF SaverStep

\* The executor, called by the write node or by a reconciliation.
LEMMA ExecutorGood ==
  ASSUME IInv, DurableInv, [Next]_vars, NEW w \in Worker, DurableExecutor(w)
  PROVE  Good(w)'
  <1> DEFINE r == lease[w].run
  <1>0. /\ wk[w] \in WorkerRow /\ InStep(w) /\ ShowsPlan(w) /\ Knows(w) /\ SavesInOrder(w)
        /\ GoesOn(w) /\ ex \in [Worker -> Executor] /\ op \in [Run -> OpRow]
        /\ wk' = wk /\ ckpt' = ckpt /\ wk[w].pc \in {"execute", "reconcile"} /\ ~Free(w)
    BY DEF DurableInv, DurableTypeOK, WorkerInv, DurableExecutor, IInv, TypeOK, LedgerTypeOK,
           LeaseTypeOK
  <1>1. lease' = lease /\ run' = run
    BY DEF DurableExecutor, ExecutorStep, ExecuteBegin, CheckOperation, ReadTarget, Prepare,
           Dispatch, AssertOwned, SendPatch, PatchAnswered, RecordOutcome, ExecuteRaises,
           ReconcileBegin, Observe, Settle, ReconcileRaises, leaseVars
  <1>2. Owns(w)' = Owns(w)
    BY <1>1 DEF Owns
  <1>3. ASSUME Owns(w), ex'[w].pc = "done", ex'[w].result = "confirmed"
        PROVE  op'[r].state = "reconciled"
    <2>1. \A x : Done(w, x) => ex'[w].result = x
      BY <1>0 DEF Done, IdleEx
    <2>2. \A x : Goto(w, x) => ex'[w].pc = x
      BY <1>0 DEF Goto, Executor
    <2>3. r \in Run /\ op[r] \in OpRow
      BY <1>0, <1>3, OwnerRuns DEF IInv
    <2>4. CASE Settle(w)
      <3> DEFINE ok == Attributable(ex[w].op, ex[w].seen, r)
      <3>1. Done(w, IF ok THEN "confirmed" ELSE "manual")
        BY <2>4 DEF Settle
      <3>2. ok
        BY <1>3, <2>1, <3>1
      <3>3. op' = [op EXCEPT ![r] = [op[r] EXCEPT !.state = "reconciled", !.confirmed = ok]]
        BY <2>4, <3>2 DEF Settle
      <3> HIDE DEF ok
      <3> QED BY <1>0, <2>3, <3>3 DEF OpRow
    <2>5. CASE CheckOperation(w)
      <3>1. op[r].result # "confirmed"
        BY <2>3 DEF OpRow
      <3> QED BY <1>3, <2>1, <2>2, <2>5, <3>1 DEF CheckOperation
    <2>6. CASE ReadTarget(w) \/ Observe(w)
      <3>1. PICK pc, s : /\ ex' = [ex EXCEPT ![w] = [@ EXCEPT !.pc = pc, !.seen = s]]
                         /\ pc \in {"settle", "prepare"}
        BY <2>6 DEF ReadTarget, Observe
      <3> QED BY <1>0, <1>3, <3>1 DEF Executor
    <2>7. CASE PatchAnswered(w)
      <3>1. CASE Goto(w, "unknown") \/ Goto(w, "refused")
        BY <1>3, <2>2, <3>1
      <3>2. ASSUME NEW pc \in {"ok", "mismatch"}, NEW s,
                   ex' = [ex EXCEPT ![w] = [@ EXCEPT !.pc = pc, !.seen = s]]
            PROVE  FALSE
        BY <1>0, <1>3, <3>2 DEF Executor
      <3> QED BY <2>7, <3>1, <3>2 DEF PatchAnswered
    <2>8. CASE Prepare(w) \/ Dispatch(w) \/ AssertOwned(w) \/ SendPatch(w)
      <3>1. PICK x \in {"dispatch", "reject", "own", "send", "await"} : Goto(w, x)
        BY <2>8 DEF Prepare, Dispatch, AssertOwned, SendPatch
      <3> QED BY <1>3, <2>2, <3>1
    <2>9. CASE RecordOutcome(w) \/ ExecuteRaises(w) \/ ReconcileRaises(w)
      <3>1. PICK x \in {"succeeded", "conflict", "error", "broken"} : Done(w, x)
        BY <2>9 DEF RecordOutcome, ExecuteRaises, ReconcileRaises, Returned
      <3> QED BY <1>3, <2>1, <3>1
    <2> QED BY <1>0, <2>4, <2>5, <2>6, <2>7, <2>8, <2>9
            DEF DurableExecutor, ExecutorStep, ExecuteBegin, ReconcileBegin
  <1>4. InStep(w)' /\ ShowsPlan(w)'
    BY <1>0, <1>1 DEF InStep, ShowsPlan
  <1>5. Knows(w)'
    BY <1>0, <1>1, <1>2, <1>3 DEF Knows
  <1>6. SavesInOrder(w)' /\ GoesOn(w)'
    BY <1>0, <1>1, <1>2 DEF SavesInOrder, GoesOn
  <1> QED BY <1>0, <1>4, <1>5, <1>6 DEF Good, WorkerInv

\* Everything that the process of worker w does.
LEMMA ProcessGood ==
  ASSUME IInv, DurableInv, [Next]_vars, NEW w \in Worker, ByProcess(w)
  PROVE  Good(w)'
  <1>1. CASE WorkerCrash(w)
    <2>1. wk'[w] = Fresh("down") /\ ex'[w] = IdleEx /\ lease'[w] = NoLease
      BY <1>1 DEF WorkerCrash, Crash, ResetEx, IInv, TypeOK, LedgerTypeOK, LeaseTypeOK,
                  DurableInv, DurableTypeOK
    <2>2. NoLease.run = 0
      BY DEF NoLease
    <2> QED BY <2>1, <2>2, ClaimEnds
  <1>2. CASE HeartbeatFails(w) /\ UNCHANGED <<ledgerVars, control, ckpt, wk>>
    <2>1. lease' = lease /\ ex' = ex /\ wk' = wk /\ ckpt' = ckpt /\ op' = op
      BY <1>2 DEF HeartbeatFails, ledgerVars
    <2> QED BY <2>1, Undisturbed
  <1> QED BY <1>1, <1>2, LoadGood, MainGood, NodeGood, SaverGood, ExecutorGood DEF ByProcess

-----------------------------------------------------------------------------
(* Every worker's invariant.                                                *)

\* A process moves its own row, and stores only under the fence.
LEMMA OwnRow ==
  ASSUME NEW w \in Worker, ByProcess(w)
  PROVE  /\ wk' = wk \/ \E x : wk' = [wk EXCEPT ![w] = x]
         /\ ckpt' = ckpt \/ SaveCheckpoint(w)
  <1>1. CASE MainStep(w)
    <2>1. CASE Poll(w) \/ Restart(w) \/ ClaimRun(w)
      BY <2>1 DEF Poll, Restart, ClaimRun, To, Idle
    <2>2. ASSUME \/ Leave(w) \/ \E s, e, out : Conclude(w, s, e, out)
                 \/ \E errs : Throws(w, errs) \/ \E ctx : StartReconcile(w, ctx)
          PROVE  ckpt' = ckpt /\ \E x : wk' = [wk EXCEPT ![w] = x]
      BY <2>2 DEF Leave, Conclude, Throws, StartReconcile, Idle, ToExcept
    <2>3. CASE Recover(w)
      BY <2>2, <2>3 DEF Recover, To
    <2>4. CASE Reconciled(w)
      BY <2>2, <2>4 DEF Reconciled, To, ToExcept
    <2>5. CASE Load(w)
      BY <2>2, <2>5 DEF Load
    <2>6. CASE Flushed(w)
      BY <2>2, <2>6 DEF Flushed, ToExcept
    <2>7. CASE Project(w)
      BY <2>2, <2>7 DEF Project
    <2>8. CASE Handle(w)
      BY <2>2, <2>8 DEF Handle
    <2> QED BY <1>1, <2>1, <2>3, <2>4, <2>5, <2>6, <2>7, <2>8 DEF MainStep
  <1>2. CASE NodeStep(w)
    <2>1. ASSUME NEW g, After(w, g) PROVE \E x : wk' = [wk EXCEPT ![w] = x]
      BY <2>1 DEF After
    <2>2. CASE Diagnose(w)
      BY <2>1, <2>2 DEF Diagnose
    <2>3. CASE PrepareApproval(w)
      BY <2>1, <2>3 DEF PrepareApproval
    <2>4. CASE RequestHumanApproval(w)
      BY <2>1, <2>4 DEF RequestHumanApproval
    <2>5. CASE ExecuteCall(w)
      BY <2>1, <2>5 DEF ExecuteCall, To
    <2>6. CASE ExecuteReturn(w)
      BY <2>1, <2>6 DEF ExecuteReturn
    <2>7. CASE VerifyRecovery(w)
      BY <2>1, <2>7 DEF VerifyRecovery
    <2> QED BY <1>2, <2>2, <2>3, <2>4, <2>5, <2>6, <2>7 DEF NodeStep
  <1>3. CASE SaverStep(w)
    BY <1>3 DEF SaverStep, MarkStarted, SaveCheckpoint, SaveFails
  <1>4. CASE \/ DurableExecutor(w) \/ WorkerCrash(w)
             \/ HeartbeatFails(w) /\ UNCHANGED <<ledgerVars, control, ckpt, wk>>
    BY <1>4 DEF DurableExecutor, WorkerCrash
  <1> QED BY <1>1, <1>2, <1>3, <1>4 DEF ByProcess

\* An executor step that leaves its executor where it is writes no row.
LEMMA RestsQuietly ==
  ASSUME IInv, NEW v \in Worker, ExecutorStep(v), ex'[v] = ex[v]
  PROVE  op' = op
  <1>0. ex \in [Worker -> Executor]
    BY DEF IInv, TypeOK, LedgerTypeOK
  <1>1. \A x : Goto(v, x) => ex'[v].pc = x
    BY <1>0 DEF Goto, Executor
  <1>2. \A x : Done(v, x) => ex'[v].pc = "done"
    BY <1>0 DEF Done, IdleEx
  <1>3. ~Prepare(v)
    BY <1>1 DEF Prepare
  <1>4. ~Dispatch(v)
    BY <1>1 DEF Dispatch
  <1>5. ~RecordOutcome(v) /\ ~Settle(v)
    BY <1>2 DEF RecordOutcome, Settle, Recording
  <1> QED BY <1>3, <1>4, <1>5 DEF ExecutorStep, ExecuteBegin, CheckOperation, ReadTarget,
        AssertOwned, SendPatch, PatchAnswered, ExecuteRaises, ReconcileBegin, Observe,
        ReconcileRaises, leaseVars

\* The owner of a run finds its journal row as it was.
LEMMA RowStays ==
  ASSUME IInv, [Next]_vars, NEW v \in Worker, lease'[v] = lease[v], ex'[v] = ex[v], Owns(v)'
  PROVE  op'[lease[v].run] = op[lease[v].run]
  <1>1. CASE UNCHANGED vars
    BY <1>1 DEF vars, leaseVars
  <1>2. CASE Next
    BY <1>2, OwnerKeeps, RestsQuietly
  <1> QED BY <1>1, <1>2

LEMMA WorkersGood ==
  ASSUME IInv, DurableInv, [DurableNext]_durableVars
  PROVE  DurableTypeOK' /\ \A v \in Worker : WorkerInv(v)'
  <1>0. [Next]_vars /\ ckpt \in [Run -> Saved] /\ wk \in [Worker -> WorkerRow]
    BY NextIsProtocol DEF DurableInv, DurableTypeOK
  <1>1. ASSUME NEW w \in Worker, ByProcess(w), NEW v \in Worker \ {w} PROVE Good(v)'
    <2>1. lease'[v] = lease[v] /\ ex'[v] = ex[v]
      <3>1. CASE ByWorker(w)
        BY <1>1, <3>1, OthersLeft
      <3>2. CASE UNCHANGED vars
        BY <3>2 DEF vars, leaseVars, ledgerVars
      <3>3. CASE \E c \in Request : ActivateSupersede(c) \/ ActivateStart(c)
        BY <3>3 DEF ActivateSupersede, ActivateStart, AcceptRound, leaseVars, ledgerVars
      <3> QED BY <1>1, <3>1, <3>2, <3>3, ProcessIsProtocol
    <2>2. wk'[v] = wk[v]
      BY <1>0, <1>1, OwnRow
    <2>3. ASSUME Owns(v) PROVE ckpt'[lease[v].run] = ckpt[lease[v].run]
      <3>1. ASSUME SaveCheckpoint(w) PROVE ckpt'[lease[v].run] = ckpt[lease[v].run]
        <4>1. Owns(w) /\ ckpt' = [ckpt EXCEPT ![lease[w].run] = Head(wk[w].pend)]
          BY <3>1 DEF SaveCheckpoint
        <4>2. lease[v].run # lease[w].run /\ lease[v].run \in Run
          BY <1>1, <2>3, <4>1, OwnerRuns DEF Owns, IInv
        <4> QED BY <1>0, <4>1, <4>2
      <3> QED BY <1>1, <3>1, OwnRow
    <2> QED BY <1>0, <2>1, <2>2, <2>3, RowStays, Undisturbed
  <1>2. ASSUME NEW v \in Worker,
               \/ UNCHANGED durableVars \/ \E r \in Run : DurableExpire(r)
               \/ (ClusterStep /\ UNCHANGED <<ckpt, wk>>) \/ DurableHuman
        PROVE  Good(v)' /\ ckpt' = ckpt /\ wk' = wk
    <2>1. ckpt' = ckpt /\ wk' = wk
      BY <1>2 DEF durableVars, DurableExpire, DurableHuman
    <2>2. lease' = lease
      BY <1>2 DEF durableVars, vars, leaseVars, DurableExpire, Expire, ClusterStep, Drift,
                  DeliverPatch, DurableHuman, Approve, QueueApproval, ReadLatest, Control,
                  PostRound, AcceptRound
    <2>3. ex' = ex
      BY <1>2 DEF durableVars, vars, ledgerVars, DurableExpire, ClusterStep, Drift,
                  DeliverPatch, DurableHuman, Approve, QueueApproval, ReadLatest, Control,
                  PostRound, AcceptRound
    <2> QED BY <1>0, <2>1, <2>2, <2>3, RowStays, Undisturbed
  <1>3. ASSUME NEW w \in Worker, ByProcess(w)
        PROVE  DurableTypeOK' /\ \A v \in Worker : WorkerInv(v)'
    <2>1. \A v \in Worker : Good(v)'
      BY <1>0, <1>1, <1>3, ProcessGood
    <2>2. wk' \in [Worker -> WorkerRow]
      <3>1. \A v \in Worker : wk'[v] \in WorkerRow
        BY <2>1 DEF Good
      <3> QED BY <1>0, <1>3, <3>1, OwnRow
    <2>3. ckpt' \in [Run -> Saved]
      <3>1. ASSUME SaveCheckpoint(w) PROVE ckpt' \in [Run -> Saved]
        <4>1. Head(wk[w].pend) \in Saved
          BY <1>0, <3>1, TailFacts DEF SaveCheckpoint, WorkerRow
        <4> QED BY <1>0, <3>1, <4>1 DEF SaveCheckpoint
      <3> QED BY <1>0, <1>3, <3>1, OwnRow
    <2> QED BY <2>1, <2>2, <2>3 DEF DurableTypeOK, Good
  <1>4. CASE \/ UNCHANGED durableVars \/ \E r \in Run : DurableExpire(r)
             \/ (ClusterStep /\ UNCHANGED <<ckpt, wk>>) \/ DurableHuman
    <2>1. ckpt' = ckpt /\ wk' = wk
      BY <1>4 DEF durableVars, DurableExpire, DurableHuman
    <2> QED BY <1>0, <1>2, <1>4, <2>1 DEF DurableTypeOK, Good
  <1> QED BY <1>3, <1>4 DEF DurableNext, ByProcess

-----------------------------------------------------------------------------
(* What a worker publishes is true.                                         *)

\* What w may publish of its run.
Sound(w, s) ==
  LET r == lease[w].run IN
  /\ s \in {"succeeded", "failed", "waiting_approval", "retry_scheduled", "reconciling"}
  /\ s \in {"succeeded", "failed", "waiting_approval"} => op[r].state \notin Uncertain
  /\ s = "succeeded" => EndedWell(lease[w], ckpt[r], op[r])
  /\ s = "waiting_approval" => ckpt[r].intr /\ lease[w].approval = "none"

\* classify() on a showable checkpoint.
LEMMA DecidedSoundly ==
  ASSUME NEW w \in Worker, NEW s \in Saved, Showable(s), Decide(w, s).action = "stop"
  PROVE  /\ Decide(w, s).status = "succeeded" => EndedWell(lease[w], s, op[lease[w].run])
         /\ Decide(w, s).status = "waiting_approval" => s.intr /\ lease[w].approval = "none"
  BY DEF Decide, Classify, OnInterrupt, Intact, Stop, Go, Showable

LEMMA MainPublishes ==
  ASSUME IInv, DurableInv, NEW w \in Worker, MainStep(w)
  PROVE  \/ run' = run \/ Claim(w) \/ \E c \in Request : ActivateStart(c)
         \/ \E s, e, out : Conclude(w, s, e, out) /\ Sound(w, s)
  <1> DEFINE r == lease[w].run
  <1>0. Knows(w) /\ wk[w] \in WorkerRow /\ \A q \in Run : Showable(ckpt[q]) /\ ckpt[q] \in Saved
    BY DEF DurableInv, DurableTypeOK, WorkerInv, RowInv
  <1>1. /\ UNCHANGED vars => run' = run /\ (UNCHANGED leaseVars => run' = run)
        /\ Leave(w) => run' = run
        /\ \A errs : Throws(w, errs) => run' = run
        /\ \A ctx : StartReconcile(w, ctx) => run' = run
    BY DEF vars, leaseVars, Leave, GiveUp, Abandon, Throws, StartReconcile, ReconcileBegin
  <1>2. \A s, e, out : Conclude(w, s, e, out) => Owns(w) /\ r \in Run
    BY OwnerRuns DEF Conclude, Finish, IInv
  <1>3. CASE Poll(w)
    BY <1>1, <1>3 DEF Poll, ActivateSupersede, leaseVars
  <1>4. CASE Restart(w) \/ ClaimRun(w)
    BY <1>1, <1>4 DEF Restart, ClaimRun
  <1>5. CASE Recover(w)
    BY <1>1, <1>5 DEF Recover
  <1>6. CASE Reconciled(w)
    <2>1. Sound(w, "reconciling")
      BY DEF Sound
    <2>2. UNCHANGED leaseVars => run' = run
      BY DEF leaseVars
    <2> QED BY <1>1, <1>6, <2>1, <2>2 DEF Reconciled
  <1>7. CASE Load(w)
    <2>1. ASSUME Conclude(w, "failed", "worker", "none") PROVE Sound(w, "failed")
      BY <1>0, <1>2, <1>7, <2>1 DEF Load, At, Knows, Sound
    <2> QED BY <1>1, <1>7, <2>1 DEF Load
  <1>8. CASE Flushed(w)
    BY <1>1, <1>8 DEF Flushed
  <1>9. CASE Project(w)
    <2> DEFINE s == wk[w].g
               d == Decide(w, s)
    <2>1. ASSUME StateOf(w) \notin Uncertain, Conclude(w, "failed", "other", "none")
          PROVE  Sound(w, "failed")
      BY <2>1 DEF Sound, StateOf
    <2>2. ASSUME StateOf(w) \notin Uncertain, d.action = "stop",
                 Conclude(w, d.status, d.error, OutputOf(s))
          PROVE  Sound(w, d.status)
      <3>1. Owns(w) /\ r \in Run /\ s = ckpt[r]
        BY <1>0, <1>2, <1>9, <2>2 DEF Project, At, Knows
      <3>2. s \in Saved /\ Showable(s)
        BY <1>0, <3>1
      <3> HIDE DEF s
      <3>3. /\ d.status \in {"succeeded", "failed", "waiting_approval", "reconciling"}
            /\ d.status = "succeeded" => EndedWell(lease[w], s, op[r])
            /\ d.status = "waiting_approval" => s.intr /\ lease[w].approval = "none"
        BY <2>2, <3>2, DecideStatus, DecidedSoundly
      <3> HIDE DEF d
      <3> QED BY <2>2, <3>1, <3>3 DEF Sound, StateOf
    <2> QED BY <1>1, <1>9, <2>1, <2>2 DEF Project
  <1>10. CASE Handle(w)
    <2>1. Sound(w, "retry_scheduled") /\ Sound(w, "reconciling")
      BY DEF Sound
    <2>2. StateOf(w) \notin Uncertain => Sound(w, "failed")
      BY DEF Sound, StateOf
    <2> QED BY <1>1, <1>10, <2>1, <2>2 DEF Handle
  <1> QED BY <1>3, <1>4, <1>5, <1>6, <1>7, <1>8, <1>9, <1>10 DEF MainStep

\* What a step of the system can do to the status and the decision of run r.
Change(r) ==
  \/ run'[r].status = run[r].status /\ run'[r].approval = run[r].approval
  \/ /\ run'[r].status \in {"queued", "running"}
     /\ run'[r].approval \in {run[r].approval, "none"}
  \/ run'[r].status = "queued" /\ ckpt' = ckpt
     /\ \E d \in {"approved", "rejected"} : Approve(r, d)
  \/ /\ run'[r].status = "cancelled" /\ run'[r].approval = run[r].approval
     /\ op'[r].state \in {"none", "rejected"}
  \/ \E w \in Worker : \E s, e, out :
       /\ lease[w].run = r /\ Conclude(w, s, e, out) /\ Sound(w, s)
       /\ run'[r].status = FinishStatus(r, s) /\ run'[r].approval = run[r].approval

LEMMA MainChanges ==
  ASSUME IInv, DurableInv, NEW w \in Worker, MainStep(w), NEW r \in Run
  PROVE  Change(r)
  <1>0. run \in [Run -> RunRow] /\ run[r] \in RunRow
    BY DEF IInv, TypeOK, LeaseTypeOK
  <1>1. CASE Claim(w)
    <2>1. PICK q \in Run :
            run' = [run EXCEPT ![q] = [@ EXCEPT
                     !.status = "running", !.owner = w, !.epoch = run[q].epoch + 1,
                     !.tries = run[q].tries + IF Exhausted(q) THEN 0 ELSE 1,
                     !.live = TRUE]]
      BY <1>1 DEF Claim
    <2>2. q = r => run'[r].status = "running" /\ run'[r].approval = run[r].approval
      BY <1>0, <2>1 DEF RunRow
    <2>3. q # r => run'[r] = run[r]
      BY <1>0, <2>1
    <2> QED BY <2>2, <2>3 DEF Change
  <1>2. ASSUME NEW c \in Request, ActivateStart(c) PROVE Change(r)
    <2>1. PICK p \in Run : NewRound(p)
      BY <1>2, RoundRow DEF IInv
    <2> QED BY <2>1 DEF NewRound, NewRow, Change
  <1>3. ASSUME NEW s, NEW e, NEW out, Conclude(w, s, e, out), Sound(w, s) PROVE Change(r)
    <2>1. run' = [run EXCEPT ![lease[w].run] = FinishRow(lease[w].run, s, e, out)]
      BY <1>3 DEF Conclude, Finish
    <2>2. CASE lease[w].run = r
      <3>1. run'[r].status = FinishStatus(r, s) /\ run'[r].approval = run[r].approval
        BY <1>0, <2>1, <2>2 DEF FinishRow, RunRow
      <3> QED BY <1>3, <2>2, <3>1 DEF Change
    <2>3. CASE lease[w].run # r
      BY <1>0, <2>1, <2>3 DEF Change
    <2> QED BY <2>2, <2>3
  <1>4. CASE run' = run
    BY <1>4 DEF Change
  <1> QED BY <1>1, <1>2, <1>3, <1>4, MainPublishes

LEMMA HumanChanges ==
  ASSUME IInv, DurableInv, DurableHuman, NEW r \in Run
  PROVE  Change(r)
  <1>0. run \in [Run -> RunRow] /\ run[r] \in RunRow /\ op \in [Run -> OpRow] /\ op[r] \in OpRow
    BY DEF IInv, TypeOK, LeaseTypeOK
  <1>1. ASSUME NEW q \in Run, NEW d \in {"approved", "rejected"}, Approve(q, d) PROVE Change(r)
    <2>1. run' = [run EXCEPT ![q] = [@ EXCEPT !.approval = d, !.prior = ckpt[q].prior,
                                              !.status = "queued", !.tries = 0]]
      BY <1>1 DEF Approve, QueueApproval
    <2>2. q = r => run'[r].status = "queued"
      BY <1>0, <2>1 DEF RunRow
    <2>3. q # r => run'[r] = run[r]
      BY <1>0, <2>1
    <2>4. ckpt' = ckpt
      BY DEF DurableHuman
    <2> QED BY <1>1, <2>2, <2>3, <2>4 DEF Change
  <1>2. ASSUME NEW c \in Request, NEW s, ReadLatest(c, s) PROVE Change(r)
    BY <1>2 DEF ReadLatest, leaseVars, Change
  <1>3. ASSUME NEW c \in Request, PostRound(c) PROVE Change(r)
    <2>1. PICK p \in Run : NewRound(p)
      BY <1>3, RoundRow DEF IInv
    <2> QED BY <2>1 DEF NewRound, NewRow, Change
  <1>4. ASSUME NEW c \in Request, NEW a, Control(c, a) PROVE Change(r)
    <2> DEFINE q == control[c].parent
    <2>1. /\ run' = [run EXCEPT ![q] = ControlledRun(q, control[c].snap)]
          /\ op' = [op EXCEPT ![q] = ControlledOp(q)]
      BY <1>4 DEF Control
    <2>2. CASE q # r
      BY <1>0, <2>1, <2>2 DEF Change
    <2>3. CASE q = r
      <3>1. run'[r] = ControlledRun(r, control[c].snap) /\ op'[r] = ControlledOp(r)
        BY <1>0, <2>1, <2>3
      <3>2. CASE ~Active(r)
        BY <3>1, <3>2 DEF ControlledRun, Change
      <3>3. CASE Active(r) /\ Dispatched(r)
        <4>1. run'[r] = [run[r] EXCEPT !.stop = TRUE, !.invalidated = TRUE]
          BY <3>1, <3>3 DEF ControlledRun
        <4> QED BY <1>0, <4>1 DEF RunRow, Change
      <3>4. CASE Active(r) /\ ~Dispatched(r)
        <4>1. PICK out : run'[r] = [run[r] EXCEPT !.stop = TRUE, !.invalidated = TRUE,
                                      !.status = "cancelled", !.owner = NoWorker,
                                      !.live = FALSE, !.error = "other", !.output = out]
          BY <3>1, <3>4 DEF ControlledRun
        <4>2. run'[r].status = "cancelled" /\ run'[r].approval = run[r].approval
          BY <1>0, <4>1 DEF RunRow
        <4>3. op'[r].state \in {"none", "rejected"}
          BY <1>0, <3>1, <3>4 DEF ControlledOp, Dispatched, OpRow
        <4> QED BY <4>2, <4>3 DEF Change
      <3> QED BY <3>2, <3>3, <3>4
    <2> QED BY <2>2, <2>3
  <1> QED BY <1>1, <1>2, <1>3, <1>4 DEF DurableHuman

LEMMA Changes ==
  ASSUME IInv, DurableInv, [DurableNext]_durableVars, NEW r \in Run
  PROVE  Change(r)
  <1>0. run \in [Run -> RunRow] /\ run[r] \in RunRow
    BY DEF IInv, TypeOK, LeaseTypeOK
  <1>1. CASE run' = run
    BY <1>1 DEF Change
  <1>2. ASSUME NEW w \in Worker, NodeStep(w) PROVE run' = run
    BY <1>2 DEF NodeStep, Diagnose, PrepareApproval, RequestHumanApproval, VerifyRecovery,
                ExecuteCall, ExecuteBegin, ExecuteReturn, vars, leaseVars
  <1>3. ASSUME NEW w \in Worker, SaverStep(w) PROVE Change(r)
    <2>1. CASE MarkStarted(w)
      <3>1. run' = [run EXCEPT ![lease[w].run] = [@ EXCEPT !.started = TRUE]]
        BY <2>1 DEF MarkStarted, MarkCheckpointStarted
      <3> QED BY <1>0, <3>1 DEF RunRow, Change
    <2>2. CASE SaveCheckpoint(w) \/ SaveFails(w)
      BY <1>1, <2>2 DEF SaveCheckpoint, SaveFails, vars, leaseVars
    <2> QED BY <1>3, <2>1, <2>2 DEF SaverStep
  <1>4. ASSUME NEW w \in Worker,
               \/ DurableExecutor(w) \/ WorkerCrash(w)
               \/ HeartbeatFails(w) /\ UNCHANGED <<ledgerVars, control, ckpt, wk>>
        PROVE  run' = run
    BY <1>4 DEF DurableExecutor, ExecutorStep, ExecuteBegin, CheckOperation, ReadTarget, Prepare,
                Dispatch, AssertOwned, SendPatch, PatchAnswered, RecordOutcome, ExecuteRaises,
                ReconcileBegin, Observe, Settle, ReconcileRaises, leaseVars, WorkerCrash, Crash,
                HeartbeatFails
  <1>5. ASSUME NEW q \in Run, DurableExpire(q) PROVE Change(r)
    <2>1. run' = [run EXCEPT ![q] = [@ EXCEPT !.live = FALSE]]
      BY <1>5 DEF DurableExpire, Expire
    <2> QED BY <1>0, <2>1 DEF RunRow, Change
  <1>6. CASE ClusterStep
    BY <1>1, <1>6 DEF ClusterStep, Drift, DeliverPatch, leaseVars
  <1>7. CASE UNCHANGED durableVars
    BY <1>1, <1>7 DEF durableVars, vars, leaseVars
  <1> QED BY <1>1, <1>2, <1>3, <1>4, <1>5, <1>6, <1>7, MainChanges, HumanChanges
          DEF DurableNext

-----------------------------------------------------------------------------
(* The rows.                                                                *)

\* Only prepare() opens a journal row, under an approval.
LEMMA OpensApproved ==
  ASSUME IInv, RoundInv, [Next]_vars, NEW r \in Run, op[r].state = "none", op'[r].state # "none"
  PROVE  run[r].approval = "approved" /\ run[r].status = "running"
  <1>0. Next /\ op \in [Run -> OpRow]
    BY DEF vars, leaseVars, IInv, TypeOK, LeaseTypeOK
  <1>1. ASSUME NEW w \in Worker, ExecutorStep(w)
        PROVE  run[r].approval = "approved" /\ run[r].status = "running"
    <2>1. Prepare(w) \/ Dispatch(w) \/ RecordOutcome(w) \/ Settle(w)
      BY <1>1 DEF ExecutorStep, ExecuteBegin, CheckOperation, ReadTarget, AssertOwned, SendPatch,
                  PatchAnswered, ExecuteRaises, ReconcileBegin, Observe, ReconcileRaises,
                  leaseVars
    <2>2. r = lease[w].run
      BY <2>1, JournalRow
    <2>3. ~Dispatch(w) /\ ~RecordOutcome(w) /\ ~Settle(w)
      BY <2>2 DEF Dispatch, RecordOutcome, Settle, RecordAllowed, Uncertain
    <2>4. Owns(w) /\ ex[w].pc = "prepare"
      BY <2>1, <2>3 DEF Prepare
    <2>5. lease[w].approval = "approved"
      BY <2>4 DEF RoundInv, ApprovalIsBound
    <2> QED BY <2>2, <2>4, <2>5 DEF RoundInv, ApprovalIsBound, Owns
  <1>2. ASSUME NEW w \in Worker,
               \/ LeaseStep(w) \/ Publish(w) \/ GiveUp(w) \/ TakeResult(w) \/ CallFails(w)
               \/ Crash(w)
        PROVE  op' = op
    BY <1>2 DEF LeaseStep, Claim, HeartbeatFails, MarkCheckpointStarted, Publish, Finish, GiveUp,
                Abandon, TakeResult, CallFails, Crash, leaseVars
  <1>3. ASSUME NEW q \in Run, Expire(q) PROVE op' = op
    BY <1>3 DEF Expire
  <1>4. ASSUME NEW c \in Request,
               \/ ActivateSupersede(c) \/ ActivateStart(c) \/ PostRound(c)
               \/ \E s \in Output \ {"none"} : ReadLatest(c, s)
        PROVE  op' = op
    BY <1>4 DEF ActivateSupersede, ActivateStart, PostRound, AcceptRound, ReadLatest, leaseVars
  <1>5. ASSUME ClusterStep PROVE op' = op
    BY <1>5 DEF ClusterStep, Drift, DeliverPatch, leaseVars
  <1>6. ASSUME NEW c \in Request, NEW a \in {"stop", "supplement", "investigate"}, Control(c, a)
        PROVE  op'[r].state = "none"
    BY <1>6, ControlledRows DEF IInv
  <1>7. ASSUME HumanStep PROVE op'[r].state = "none"
    BY <1>4, <1>6, <1>7 DEF HumanStep, QueueApproval
  <1> QED BY <1>0, <1>1, <1>2, <1>3, <1>4, <1>5, <1>7 DEF Next

\* What is stored of a run changes only under the fence of its owner.
LEMMA Stored ==
  ASSUME IInv, DurableInv, [DurableNext]_durableVars, NEW r \in Run, ckpt'[r] # ckpt[r]
  PROVE  \E w \in Worker : /\ SaveCheckpoint(w) /\ lease[w].run = r /\ Owns(w)
                           /\ run[r].status = "running" /\ run' = run
                           /\ ckpt'[r] = wk[w].pend[1] /\ 1 \in 1..Len(wk[w].pend)
                           /\ wk[w].pc \in Graphing
  <1>0. ckpt \in [Run -> Saved] /\ wk \in [Worker -> WorkerRow]
    BY DEF DurableInv, DurableTypeOK
  <1>1. PICK w \in Worker : SaveCheckpoint(w)
    BY OwnRow DEF DurableNext, ByProcess, durableVars, DurableExpire, DurableHuman
  <1>2. /\ Owns(w) /\ ckpt' = [ckpt EXCEPT ![lease[w].run] = Head(wk[w].pend)]
        /\ wk[w].pend # <<>> /\ run' = run
    BY <1>1 DEF SaveCheckpoint, vars, leaseVars
  <1>3. lease[w].run = r /\ run[r].status = "running"
    BY <1>0, <1>2 DEF Owns
  <1>4. /\ wk[w].pend \in Seq(Saved) /\ Len(wk[w].pend) \in Nat \ {0}
        /\ Head(wk[w].pend) = wk[w].pend[1]
    BY <1>0, <1>2, TailFacts DEF WorkerRow
  <1>5. ckpt'[r] = wk[w].pend[1] /\ 1 \in 1..Len(wk[w].pend)
    BY <1>0, <1>2, <1>3, <1>4
  <1>6. wk[w].pc \in Graphing
    BY <1>2 DEF DurableInv, WorkerInv, InStep
  <1> QED BY <1>1, <1>2, <1>3, <1>5, <1>6

LEMMA RowsGood ==
  ASSUME IInv, RoundInv, DurableInv, [DurableNext]_durableVars, NEW r \in Run
  PROVE  RowInv(r)'
  <1>0. RowInv(r) /\ [Next]_vars /\ Change(r)
    BY NextIsProtocol, Changes DEF DurableInv
  <1>1. CASE ckpt'[r] # ckpt[r]
    <2>1. PICK w \in Worker : /\ SaveCheckpoint(w) /\ lease[w].run = r /\ Owns(w)
                              /\ run' = run
                              /\ ckpt'[r] = wk[w].pend[1] /\ 1 \in 1..Len(wk[w].pend)
                              /\ wk[w].pc \in Graphing
      BY <1>1, Stored
    <2>2. Showable(wk[w].pend[1]) /\ (run[r].approval # "none" => Decided(wk[w].pend[1]))
      BY <2>1 DEF DurableInv, WorkerInv, ShowsPlan, GoesOn
    <2>3. op' = op
      BY <2>1 DEF SaveCheckpoint, vars, leaseVars
    <2>4. Showable(ckpt'[r]) /\ (run'[r].approval # "none" => Decided(ckpt'[r]))
      BY <2>1, <2>2
    <2> QED BY <1>0, <2>1, <2>3, <2>4 DEF RowInv
  <1>2. CASE ckpt'[r] = ckpt[r]
    <2>1. run'[r].approval # "none" => Decided(ckpt[r])
      <3>1. ASSUME NEW d, Approve(r, d) PROVE Decided(ckpt[r])
        BY <1>0, <3>1 DEF Approve, RowInv, Showable, Decided
      <3> QED BY <1>0, <3>1 DEF Change, RowInv
    <2>2. op'[r].state # "none" => run'[r].approval = "approved"
      <3>1. CASE UNCHANGED vars
        BY <1>0, <3>1 DEF RowInv, vars, leaseVars
      <3>2. CASE Next
        BY <1>0, <3>2, OpensApproved, ApprovalStays DEF RowInv, RoundInv
      <3> QED BY <1>0, <3>1, <3>2
    <2> QED BY <1>0, <1>2, <2>1, <2>2 DEF RowInv
  <1> QED BY <1>1, <1>2

\* A write that is not uncertain is not under way after a step.
LEMMA SettledWrite ==
  ASSUME IInv', NEW r \in Run, op'[r].state \notin Uncertain
  PROVE  patch'[r].st # "flying" /\ ~AboutToSend(r)'
  <1>1. op'[r].state \in {"none", "prepared", "rejected", "succeeded", "reconciled"}
    BY DEF IInv, TypeOK, LeaseTypeOK, OpRow, OpState, Unresolved
  <1>2. CASE op'[r].state \in {"none", "prepared", "rejected"}
    BY <1>2 DEF IInv, RejectedNeverWrites
  <1>3. CASE op'[r].state \in {"succeeded", "reconciled"}
    BY <1>3 DEF IInv, ConfirmedWasApplied, NotYetSent, AboutToSend
  <1> QED BY <1>1, <1>2, <1>3

LEMMA SettledStep ==
  ASSUME IInv, DurableInv, [DurableNext]_durableVars
  PROVE  TerminalWriteSettled'
  <1>0. [Next]_vars /\ IInv'
    BY NextIsProtocol, StepInv
  <1>1. ASSUME NEW r \in Run, run'[r].status \in Terminal PROVE op'[r].state \notin Uncertain
    <2>1. CASE run[r].status \in Terminal
      <3>1. op'[r] = op[r]
        <4>1. CASE Next
          BY <2>1, <4>1, OpRowStep DEF OpStep, Live
        <4>2. CASE UNCHANGED vars
          BY <4>2 DEF vars, leaseVars
        <4> QED BY <1>0, <4>1, <4>2
      <3> QED BY <2>1, <3>1 DEF DurableInv, TerminalWriteSettled
    <2>2. ASSUME NEW w \in Worker, NEW s, NEW e, NEW out, lease[w].run = r,
                 Conclude(w, s, e, out), Sound(w, s), run'[r].status = FinishStatus(r, s)
          PROVE  op'[r].state \notin Uncertain
      <3>1. op' = op
        BY <2>2 DEF Conclude, Finish
      <3>2. op[r].state \notin Uncertain
        BY <1>1, <2>2 DEF Sound, FinishStatus, Terminal
      <3> QED BY <3>1, <3>2
    <2>3. Change(r)
      BY Changes
    <2> QED BY <1>1, <2>1, <2>2, <2>3 DEF Change, Terminal, Uncertain
  <1>2. ASSUME NEW r \in Run, run'[r].status \in Terminal
        PROVE  /\ op'[r].state \notin Uncertain /\ patch'[r].st # "flying" /\ ~AboutToSend(r)'
    <2>1. op'[r].state \notin Uncertain
      BY <1>1, <1>2
    <2> QED BY <1>0, <2>1, SettledWrite
  <1> QED BY <1>2 DEF TerminalWriteSettled

LEMMA WaitingStep ==
  ASSUME IInv, RoundInv, DurableInv, [DurableNext]_durableVars
  PROVE  WaitingIsResumable'
  <1> SUFFICES ASSUME NEW r \in Run, run'[r].status = "waiting_approval"
               PROVE  /\ ckpt'[r].intr /\ ckpt'[r].next = "request_human_approval"
                      /\ run'[r].approval = "none" /\ op'[r].state = "none"
    BY DEF WaitingIsResumable
  <1>0. [Next]_vars /\ Change(r) /\ RowInv(r) /\ WaitingIsResumable
    BY NextIsProtocol, Changes DEF DurableInv
  <1>1. CASE run'[r].status = run[r].status /\ run'[r].approval = run[r].approval
    <2>1. ckpt'[r] = ckpt[r]
      BY <1>1, Stored
    <2>2. op'[r].state = "none"
      BY <1>0, <1>1, OpensApproved DEF WaitingIsResumable
    <2> QED BY <1>0, <1>1, <2>1, <2>2 DEF WaitingIsResumable
  <1>2. ASSUME NEW w \in Worker, NEW s, NEW e, NEW out, lease[w].run = r,
               Conclude(w, s, e, out), Sound(w, s), run'[r].status = FinishStatus(r, s),
               run'[r].approval = run[r].approval
        PROVE  /\ ckpt'[r].intr /\ ckpt'[r].next = "request_human_approval"
               /\ run'[r].approval = "none" /\ op'[r].state = "none"
    <2>1. s = "waiting_approval" /\ Owns(w) /\ op' = op /\ ckpt' = ckpt
      BY <1>2 DEF FinishStatus, Conclude, Finish
    <2>2. lease[w].approval = run[r].approval
      BY <1>2, <2>1 DEF DurableInv, WorkerInv, Knows
    <2>3. ckpt[r].intr /\ run[r].approval = "none"
      BY <1>2, <2>1, <2>2 DEF Sound
    <2> QED BY <1>0, <1>2, <2>1, <2>3 DEF RowInv, Showable
  <1> QED BY <1>0, <1>1, <1>2 DEF Change

LEMMA EarnedStep ==
  ASSUME IInv, RoundInv, DurableInv, [DurableNext]_durableVars
  PROVE  SucceededIsEarned'
  <1> DEFINE Goal(r) == IF run'[r].approval = "approved"
                        THEN /\ patch'[r].st = "applied" /\ patch'[r].response.cfg = r
                             /\ ckpt'[r].phase = "verification_succeeded"
                        ELSE patch'[r].sent = 0
  <1> SUFFICES ASSUME NEW r \in Run, run'[r].status = "succeeded"
               PROVE  Goal(r)
    BY DEF SucceededIsEarned
  <1>0. [Next]_vars /\ Change(r) /\ RowInv(r) /\ SucceededIsEarned /\ TerminalWriteSettled
    BY NextIsProtocol, Changes DEF DurableInv
  <1>1. CASE run'[r].status = run[r].status /\ run'[r].approval = run[r].approval
    <2>1. ckpt'[r] = ckpt[r]
      BY <1>1, Stored
    <2>2. patch'[r] = patch[r]
      <3>0. patch \in [Run -> PatchRow] /\ patch[r].st # "flying" /\ ~AboutToSend(r)
        BY <1>0, <1>1 DEF IInv, TypeOK, LedgerTypeOK, TerminalWriteSettled, Terminal
      <3>1. ASSUME NEW w \in Worker, SendPatch(w) PROVE patch'[r] = patch[r]
        BY <3>0, <3>1 DEF SendPatch, AboutToSend
      <3>2. ASSUME NEW x \in Run, DeliverPatch(x) PROVE patch'[r] = patch[r]
        BY <3>0, <3>2 DEF DeliverPatch
      <3>3. CASE UNCHANGED vars
        BY <3>3 DEF vars, ledgerVars
      <3> QED BY <1>0, <3>1, <3>2, <3>3, PatchStep
    <2> QED BY <1>0, <1>1, <2>1, <2>2 DEF SucceededIsEarned
  <1>2. ASSUME NEW w \in Worker, NEW s, NEW e, NEW out, lease[w].run = r,
               Conclude(w, s, e, out), Sound(w, s), run'[r].status = FinishStatus(r, s),
               run'[r].approval = run[r].approval
        PROVE  Goal(r)
    <2>1. s = "succeeded" /\ Owns(w) /\ patch' = patch /\ ckpt' = ckpt
      BY <1>2 DEF FinishStatus, Conclude, Finish
    <2>2. lease[w].approval = run[r].approval
      BY <1>2, <2>1 DEF DurableInv, WorkerInv, Knows
    <2>3. EndedWell(lease[w], ckpt[r], op[r])
      BY <1>2, <2>1 DEF Sound
    <2>4. CASE run[r].approval = "approved"
      <3>1. ckpt[r].phase # "skipped"
        BY <1>0, <2>4 DEF RowInv, Decided
      <3>2. op[r].state \in {"succeeded", "reconciled"} /\ ckpt[r].phase = "verification_succeeded"
        BY <2>2, <2>3, <2>4, <3>1 DEF EndedWell
      <3>3. patch[r].st = "applied" /\ patch[r].response.cfg = r
        BY <3>2 DEF IInv, ConfirmedWasApplied
      <3> QED BY <1>2, <2>1, <2>4, <3>2, <3>3
    <2>5. CASE run[r].approval # "approved"
      <3>1. op[r].state = "none"
        BY <1>0, <2>5 DEF RowInv
      <3>2. patch[r].sent = 0
        BY <3>1 DEF IInv, NotYetSent, Before
      <3> QED BY <1>2, <2>1, <2>5, <3>2
    <2> QED BY <2>4, <2>5
  <1> HIDE DEF Goal
  <1> QED BY <1>0, <1>1, <1>2 DEF Change

-----------------------------------------------------------------------------
(* The theorems.                                                            *)

LEMMA InitDurable == DurableInit => DurableInv
  <1> SUFFICES ASSUME DurableInit PROVE DurableInv
    OBVIOUS
  <1>0. Init /\ (\A r \in Run : ckpt[r] = EmptySaved) /\ (\A w \in Worker : wk[w] = Fresh("poll"))
    BY DEF DurableInit
  <1>1. DurableTypeOK
    BY SavedRow DEF DurableInit, DurableTypeOK
  <1>2. ASSUME NEW w \in Worker PROVE WorkerInv(w)
    <2>1. /\ wk[w].pc = "poll" /\ wk[w].pend = <<>> /\ wk[w].g = EmptySaved
      BY <1>0 DEF Fresh
    <2>2. Len(wk[w].pend) = 0 /\ Showable(EmptySaved)
      BY <2>1, SavedRow
    <2>3. lease[w].run = 0 /\ ex[w] = IdleEx /\ ~Owns(w)
      BY <1>0 DEF Init, LeaseInit, LedgerInit, NoLease, Owns
    <2>4. InStep(w) /\ ShowsPlan(w)
      BY <2>1, <2>2, <2>3 DEF InStep, ShowsPlan
    <2> QED BY <2>3, <2>4 DEF WorkerInv, Knows, SavesInOrder, GoesOn
  <1>3. ASSUME NEW r \in Run
        PROVE  /\ run[r].approval = "none" /\ op[r].state = "none"
               /\ run[r].status \in {"queued", "absent"}
    BY <1>0 DEF Init, LeaseInit, NewRow, NoOp
  <1>4. \A r \in Run : RowInv(r)
    BY <1>0, <1>3, SavedRow DEF RowInv
  <1>5. TerminalWriteSettled /\ WaitingIsResumable /\ SucceededIsEarned
    BY <1>3 DEF TerminalWriteSettled, WaitingIsResumable, SucceededIsEarned, Terminal
  <1> QED BY <1>1, <1>2, <1>4, <1>5 DEF DurableInv

LEMMA StepDurable ==
  IInv /\ RoundInv /\ DurableInv /\ [DurableNext]_durableVars => IInv' /\ RoundInv' /\ DurableInv'
  <1> SUFFICES ASSUME IInv, RoundInv, DurableInv, [DurableNext]_durableVars
               PROVE  IInv' /\ RoundInv' /\ DurableInv'
    OBVIOUS
  <1>1. IInv' /\ RoundInv'
    BY NextIsProtocol, StepInv, StepRound
  <1>2. DurableInv'
    BY WorkersGood, RowsGood, SettledStep, WaitingStep, EarnedStep DEF DurableInv
  <1> QED BY <1>1, <1>2

\* The strengthening of the worker's properties is inductive, beside the
\* protocol's: worker by worker what the process knows of its claim, row by row
\* what the checkpoint says of the decision.
THEOREM DurableInductive == DurableSpec => [](IInv /\ RoundInv /\ DurableInv)
  <1>1. DurableInit => IInv /\ RoundInv /\ DurableInv
    BY InitInv, InitRound, InitDurable DEF DurableInit
  <1> QED BY <1>1, StepDurable, PTL DEF DurableSpec

\* Whatever Worker.execute does, each of its steps is a transaction, a call or a
\* stutter that the protocol layer allows: the worker implements RunControls.
THEOREM WorkerImplementsProtocol == DurableSpec => ImplementsProtocol
  <1>1. DurableInit => Init
    BY DEF DurableInit
  <1>2. IInv /\ DurableInv /\ [DurableNext]_durableVars => [Next]_vars
    BY NextIsProtocol
  <1> QED BY <1>1, <1>2, DurableInductive, PTL DEF DurableSpec, ImplementsProtocol, Spec

\* No terminal run hides a request in flight or an outcome nobody knows.
THEOREM TerminalIsSettled == DurableSpec => []TerminalWriteSettled
  <1>1. DurableInv => TerminalWriteSettled
    BY DEF DurableInv
  <1> QED BY <1>1, DurableInductive, PTL

\* A run published as succeeded did what it says: its own request was applied and
\* verified if it was approved, and nothing was sent if it was not.
THEOREM SuccessIsEarned == DurableSpec => []SucceededIsEarned
  <1>1. DurableInv => SucceededIsEarned
    BY DEF DurableInv
  <1> QED BY <1>1, DurableInductive, PTL

\* What an approver is shown is an open interrupt, before any decision or write.
THEOREM WaitingCanResume == DurableSpec => []WaitingIsResumable
  <1>1. DurableInv => WaitingIsResumable
    BY DEF DurableInv
  <1> QED BY <1>1, DurableInductive, PTL

\* The stored checkpoint never goes back in the graph: neither a worker that lost
\* its lease nor a restarted graph stores an earlier state over a later one.
THEOREM StoredGoesForward == DurableSpec => CheckpointNeverRegresses
  <1>1. ASSUME IInv, RoundInv, DurableInv, [DurableNext]_durableVars, NEW r \in Run
        PROVE  Stage(ckpt'[r].next) >= Stage(ckpt[r].next)
    <2>1. CASE ckpt'[r] = ckpt[r]
      BY <2>1, Stages
    <2>2. CASE ckpt'[r] # ckpt[r]
      <3>1. PICK w \in Worker : /\ lease[w].run = r /\ Owns(w) /\ ckpt'[r] = wk[w].pend[1]
                                /\ 1 \in 1..Len(wk[w].pend) /\ wk[w].pc \in Graphing
        BY <1>1, <2>2, Stored
      <3>2. InOrder(ckpt[r], wk[w])
        BY <1>1, <3>1 DEF DurableInv, WorkerInv, SavesInOrder
      <3>3. Stage(ckpt[r].next) <= Stage(wk[w].pend[1].next)
        BY <3>1, <3>2 DEF InOrder
      <3> QED BY <3>1, <3>3, Stages
    <2> QED BY <2>1, <2>2
  <1>2. IInv /\ RoundInv /\ DurableInv /\ [DurableNext]_durableVars =>
          [\A r \in Run : Stage(ckpt'[r].next) >= Stage(ckpt[r].next)]_durableVars
    BY <1>1
  <1> QED BY <1>2, DurableInductive, PTL DEF DurableSpec, CheckpointNeverRegresses

\* The running program therefore keeps the promise of ApprovedChange: at most one
\* change per run reaches the cluster, and only under a human's approval.
THEOREM WorkerKeepsPromise == DurableSpec => KeepsPromise
  <1>1. ImplementsProtocol => Spec
    BY DEF ImplementsProtocol
  <1> QED BY <1>1, WorkerImplementsProtocol, ProtocolKeepsPromise, PTL
=============================================================================
