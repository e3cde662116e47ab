----------------------------- MODULE RoundProofs -----------------------------
(***************************************************************************)
(* The rounds of an incident, and what the write path promises a human:    *)
(* proofs about RunControls!Spec on top of the inductive invariant of      *)
(* ProtocolProofs.                                                         *)
(***************************************************************************)
EXTENDS ProtocolProofs, FiniteSetTheorems

-----------------------------------------------------------------------------
(* What a step does to a row.  Only a new round touches a run that is       *)
(* absent or has ended.                                                     *)

Live(r) == run[r].status \notin Terminal \cup {"absent"}

\* A step of the program on the row of a live run: the decision of a human is
\* written once, with the configuration it is about.
LiveStep(r) ==
  /\ Live(r) /\ run'[r].status # "absent"
  /\ \/ run'[r].approval = run[r].approval /\ run'[r].prior = run[r].prior
     \/ \E d \in {"approved", "rejected"}, p \in Config : QueueApproval(r, d, p)

LEMMA OwnerRuns ==
  ASSUME TypeOK, NEW w \in Worker, Owns(w)
  PROVE  lease[w].run \in Run /\ run[lease[w].run].status = "running" /\ Live(lease[w].run)
  BY DEF Owns, TypeOK, LeaseTypeOK, Lease, Live, Terminal

LEMMA ClaimRow ==
  ASSUME TypeOK, NEW w \in Worker, Claim(w)
  PROVE  /\ \A r \in Run : run'[r] = run[r] \/ LiveStep(r)
         /\ \E r \in Run : /\ lease'[w].run = r /\ Live(r) /\ run'[r].status = "running"
                           /\ lease'[w].approval = run[r].approval
                           /\ lease'[w].prior = run[r].prior
                           /\ run'[r].approval = run[r].approval
                           /\ run'[r].prior = run[r].prior
         /\ \A v \in Worker \ {w} : lease'[v] = lease[v]
  <1>1. PICK r \in Run :
          LET tries == run[r].tries + IF Exhausted(r) THEN 0 ELSE 1 IN
          /\ Claimable(r)
          /\ run' = [run EXCEPT ![r] = [@ EXCEPT
                       !.status = "running", !.owner = w,
                       !.epoch = run[r].epoch + 1, !.tries = tries,
                       !.live = TRUE]]
          /\ lease' = [lease EXCEPT ![w] =
                       [run |-> r, epoch |-> run[r].epoch + 1,
                        approval |-> run[r].approval, prior |-> run[r].prior,
                        tries |-> tries, started |-> run[r].started,
                        error |-> run[r].error,
                        recoveryOnly |-> Exhausted(r)]]
    BY DEF Claim
  <1>2. Live(r) /\ run[r] \in RunRow
    BY <1>1 DEF Claimable, Live, Terminal, TypeOK, LeaseTypeOK
  <1>3. /\ run'[r].status = "running" /\ run'[r].approval = run[r].approval
        /\ run'[r].prior = run[r].prior
    BY <1>1, <1>2 DEF TypeOK, LeaseTypeOK, RunRow
  <1>4. \A q \in Run \ {r} : run'[q] = run[q]
    BY <1>1 DEF TypeOK, LeaseTypeOK
  <1>5. /\ lease'[w].run = r /\ lease'[w].approval = run[r].approval
        /\ lease'[w].prior = run[r].prior
        /\ \A v \in Worker \ {w} : lease'[v] = lease[v]
    BY <1>1 DEF TypeOK, LeaseTypeOK
  <1> QED BY <1>2, <1>3, <1>4, <1>5 DEF LiveStep

LEMMA PublishRow ==
  ASSUME TypeOK, NEW w \in Worker, Publish(w)
  PROVE  /\ \A r \in Run : run'[r] = run[r] \/ LiveStep(r)
         /\ lease' = [lease EXCEPT ![w] = NoLease]
  <1>1. PICK s \in {"succeeded", "failed", "waiting_approval", "retry_scheduled",
                    "reconciling"}, e \in ErrorCode, out \in Output : Finish(w, s, e, out)
    BY DEF Publish
  <1> DEFINE r == lease[w].run
  <1>2. Owns(w) /\ r \in Run /\ Live(r) /\ run[r] \in RunRow
    BY <1>1, OwnerRuns DEF Finish, TypeOK, LeaseTypeOK
  <1>3. run'[r] = FinishRow(r, s, e, out) /\ \A q \in Run \ {r} : run'[q] = run[q]
    BY <1>1, <1>2 DEF Finish, TypeOK, LeaseTypeOK
  <1>4. FinishStatus(r, s) # "absent"
    BY DEF FinishStatus
  <1>5. /\ run'[r].status # "absent" /\ run'[r].approval = run[r].approval
        /\ run'[r].prior = run[r].prior
    BY <1>2, <1>3, <1>4 DEF FinishRow, RunRow
  <1>6. lease' = [lease EXCEPT ![w] = NoLease]
    BY <1>1 DEF Finish
  <1> QED BY <1>2, <1>3, <1>5, <1>6 DEF LiveStep

LEMMA ExpireRow ==
  ASSUME TypeOK, NEW q \in Run, Expire(q)
  PROVE  \A r \in Run : run'[r] = run[r] \/ LiveStep(r)
  <1>1. run' = [run EXCEPT ![q] = [@ EXCEPT !.live = FALSE]] /\ Live(q)
    BY DEF Expire, Live, Terminal
  <1> QED BY <1>1 DEF LiveStep, Live, TypeOK, LeaseTypeOK, RunRow

LEMMA MarkRow ==
  ASSUME TypeOK, NEW w \in Worker, MarkCheckpointStarted(w)
  PROVE  \A r \in Run : run'[r] = run[r] \/ LiveStep(r)
  <1>1. lease[w].run \in Run /\ Live(lease[w].run)
    BY OwnerRuns DEF MarkCheckpointStarted
  <1> QED BY <1>1 DEF MarkCheckpointStarted, LiveStep, Live, TypeOK, LeaseTypeOK, RunRow

LEMMA ApprovalRow ==
  ASSUME TypeOK, NEW q \in Run, NEW d \in {"approved", "rejected"}, NEW p \in Config,
         QueueApproval(q, d, p)
  PROVE  /\ \A r \in Run : run'[r] = run[r] \/ LiveStep(r)
         /\ run[q].approval = "none" /\ run'[q].approval = d
         /\ \A r \in Run \ {q} : run'[r] = run[r]
  <1>1. /\ run'[q] = [run[q] EXCEPT !.approval = d, !.prior = p, !.status = "queued",
                                    !.tries = 0]
        /\ \A r \in Run \ {q} : run'[r] = run[r]
        /\ Live(q) /\ run[q].approval = "none"
    BY DEF QueueApproval, Live, Terminal, TypeOK, LeaseTypeOK
  <1>2. run'[q].approval = d /\ run'[q].status = "queued"
    BY <1>1 DEF TypeOK, LeaseTypeOK, RunRow
  <1>3. LiveStep(q)
    BY <1>1, <1>2 DEF LiveStep
  <1> QED BY <1>1, <1>2, <1>3

LEMMA ControlledRows ==
  ASSUME TypeOK, NEW c \in Request, NEW a \in {"stop", "supplement", "investigate"},
         Control(c, a)
  PROVE  \A r \in Run : /\ run'[r] = run[r] \/ LiveStep(r)
                        /\ op'[r] = op[r] \/ /\ Live(r) /\ op[r].state = "prepared"
                                             /\ op'[r].state = "rejected"
                                             /\ op'[r].before = op[r].before
  <1> DEFINE q == control[c].parent
  <1>1. q \in Run /\ run[q] \in RunRow /\ op[q] \in OpRow /\ run[q].status # "absent"
    BY DEF Control, IsLatest, TypeOK, LeaseTypeOK, ControlTypeOK, ControlRow
  <1>2. /\ run'[q] = ControlledRun(q, control[c].snap) /\ op'[q] = ControlledOp(q)
        /\ \A r \in Run \ {q} : run'[r] = run[r] /\ op'[r] = op[r]
    BY <1>1 DEF Control, TypeOK, LeaseTypeOK
  <1>3. run'[q] = run[q] \/ LiveStep(q)
    <2>1. CASE ~Active(q)
      BY <1>2, <2>1 DEF ControlledRun
    <2>2. CASE Active(q)
      <3>1. Live(q)
        BY <1>1, <2>2 DEF Live, Active
      <3>2. PICK out : \/ run'[q] = [run[q] EXCEPT !.stop = TRUE, !.invalidated = TRUE]
                       \/ run'[q] = [run[q] EXCEPT !.stop = TRUE, !.invalidated = TRUE,
                                    !.status = "cancelled", !.owner = NoWorker,
                                    !.live = FALSE, !.error = "other", !.output = out]
        BY <1>2, <2>2 DEF ControlledRun
      <3> QED BY <1>1, <3>1, <3>2 DEF LiveStep, RunRow
    <2> QED BY <2>1, <2>2
  <1>4. op'[q] = op[q] \/ /\ Live(q) /\ op[q].state = "prepared"
                          /\ op'[q].state = "rejected" /\ op'[q].before = op[q].before
    BY <1>1, <1>2 DEF ControlledOp, Active, Live, OpRow
  <1> QED BY <1>2, <1>3, <1>4

\* A new round: the parent has ended with no operation of the incident open.
NewRound(p) ==
  /\ p + 1 \in Run /\ IsLatest(p) /\ run[p].status \in Terminal /\ NoUnresolved
  /\ run'[p].status = run[p].status
  /\ run'[p].approval = run[p].approval /\ run'[p].prior = run[p].prior
  /\ run'[p + 1] = NewRow(revision)
  /\ \A r \in Run \ {p, p + 1} : run'[r] = run[r]
  /\ UNCHANGED <<op, lease, target, patch, ex>>

LEMMA RoundRow ==
  ASSUME TypeOK, NEW c \in Request, PostRound(c) \/ ActivateStart(c)
  PROVE  NewRound(control[c].parent) /\ control[c].parent \in Run
  <1> DEFINE p == control[c].parent
  <1>1. p \in Run
    BY DEF TypeOK, ControlTypeOK, ControlRow
  <1>2. PICK snap : AcceptRound(p, snap)
    BY DEF PostRound, ActivateStart
  <1> DEFINE out == IF run[p].output = "none" THEN snap ELSE run[p].output
  <1>3. p \in Int /\ p + 1 \in Run /\ p + 1 # p
    BY <1>1, <1>2 DEF AcceptRound, Run
  <1>4. /\ run'[p] = [run[p] EXCEPT !.output = out]
        /\ run'[p + 1] = NewRow(revision)
        /\ \A q \in Run \ {p, p + 1} : run'[q] = run[q]
    BY <1>1, <1>2, <1>3 DEF AcceptRound, TypeOK, LeaseTypeOK
  <1>5. /\ run'[p].status = run[p].status
        /\ run'[p].approval = run[p].approval /\ run'[p].prior = run[p].prior
    BY <1>1, <1>4 DEF TypeOK, LeaseTypeOK, RunRow
  <1>6. UNCHANGED <<op, lease, target, patch, ex>>
    BY <1>2 DEF AcceptRound, ledgerVars
  <1> QED BY <1>1, <1>2, <1>3, <1>4, <1>5, <1>6 DEF AcceptRound, RoundAllowed, NewRound

\* Every other step leaves a row alone or is a step on a live run.
LEMMA RowStep ==
  ASSUME TypeOK, Next, ~ \E c \in Request : PostRound(c) \/ ActivateStart(c)
  PROVE  \A r \in Run : run'[r] = run[r] \/ LiveStep(r)
  <1>1. ASSUME NEW w \in Worker, LeaseStep(w)
        PROVE  \A r \in Run : run'[r] = run[r] \/ LiveStep(r)
    BY <1>1, ClaimRow, MarkRow DEF LeaseStep, HeartbeatFails
  <1>2. ASSUME NEW w \in Worker, ExecutorStep(w) PROVE run' = run
    BY <1>2 DEF ExecutorStep, ExecuteBegin, CheckOperation, ReadTarget, Prepare, Dispatch,
                AssertOwned, SendPatch, PatchAnswered, RecordOutcome, ExecuteRaises,
                ReconcileBegin, Observe, Settle, ReconcileRaises, leaseVars
  <1>3. ASSUME NEW w \in Worker, Publish(w)
        PROVE  \A r \in Run : run'[r] = run[r] \/ LiveStep(r)
    BY <1>3, PublishRow
  <1>4. ASSUME NEW w \in Worker, GiveUp(w) \/ TakeResult(w) \/ CallFails(w) \/ Crash(w)
        PROVE  run' = run
    BY <1>4 DEF GiveUp, Abandon, TakeResult, CallFails, Crash, leaseVars
  <1>5. ASSUME NEW q \in Run, Expire(q)
        PROVE  \A r \in Run : run'[r] = run[r] \/ LiveStep(r)
    BY <1>5, ExpireRow
  <1>6. ASSUME NEW c \in Request,
               ActivateSupersede(c) \/ \E s \in Output \ {"none"} : ReadLatest(c, s)
        PROVE  run' = run
    BY <1>6 DEF ActivateSupersede, ReadLatest, leaseVars
  <1>7. ASSUME ClusterStep PROVE run' = run
    BY <1>7 DEF ClusterStep, Drift, DeliverPatch, leaseVars
  <1>8. ASSUME NEW q \in Run, NEW d \in {"approved", "rejected"}, NEW p \in Config,
               QueueApproval(q, d, p)
        PROVE  \A r \in Run : run'[r] = run[r] \/ LiveStep(r)
    BY <1>8, ApprovalRow
  <1>9. ASSUME NEW c \in Request, NEW a \in {"stop", "supplement", "investigate"}, Control(c, a)
        PROVE  \A r \in Run : run'[r] = run[r] \/ LiveStep(r)
    BY <1>9, ControlledRows
  <1>10. CASE HumanStep
    BY <1>6, <1>8, <1>9, <1>10 DEF HumanStep
  <1> QED BY <1>1, <1>2, <1>3, <1>4, <1>5, <1>6, <1>7, <1>10 DEF Next

\* The journal: only the owner of a running run, or a control of the latest live
\* one, writes its row; what a row was prepared for never changes.
OpStep(r) ==
  /\ Live(r) /\ op'[r].state # "none"
  /\ \/ op'[r].before = op[r].before
     \/ op[r].state = "none" /\ \E w \in Worker : op'[r].before = ex[w].seen

LEMMA JournalRow ==
  ASSUME IInv, NEW w \in Worker,
         Prepare(w) \/ Dispatch(w) \/ RecordOutcome(w) \/ Settle(w)
  PROVE  /\ lease[w].run \in Run /\ OpStep(lease[w].run)
         /\ \A r \in Run \ {lease[w].run} : op'[r] = op[r]
  <1> DEFINE r == lease[w].run
  <1>1. r \in Run /\ Live(r) /\ op[r] \in OpRow /\ Owns(w)
    BY OwnerRuns DEF Prepare, Dispatch, RecordOutcome, Settle, IInv, TypeOK, LeaseTypeOK
  <1>2. \A q \in Run \ {r} : op'[q] = op[q]
    BY DEF Prepare, Dispatch, RecordOutcome, Settle, IInv, TypeOK, LeaseTypeOK
  <1>3. CASE Prepare(w)
    <2>1. op'[r] = PreparedRow(w)
      BY <1>1, <1>3 DEF Prepare, IInv, TypeOK, LeaseTypeOK
    <2>2. CASE op[r].state = "none"
      <3>1. op'[r].state = "prepared" /\ op'[r].before = ex[w].seen
        BY <2>1, <2>2 DEF PreparedRow, NoOp
      <3> QED BY <1>1, <1>2, <2>2, <3>1 DEF OpStep
    <2>3. CASE op[r].state # "none"
      BY <1>1, <1>2, <2>1, <2>3 DEF OpStep, PreparedRow
    <2> QED BY <2>2, <2>3
  <1>4. CASE Dispatch(w)
    <2>1. op'[r] = [op[r] EXCEPT !.state = "dispatching", !.epoch = lease[w].epoch]
      BY <1>1, <1>4 DEF Dispatch, IInv, TypeOK, LeaseTypeOK
    <2> QED BY <1>1, <1>2, <2>1 DEF OpStep, OpRow
  <1>5. CASE RecordOutcome(w)
    <2>1. op'[r] = RecordedRow(op[r], ex[w].pc, ex[w].seen)
      BY <1>1, <1>5 DEF RecordOutcome, IInv, TypeOK, LeaseTypeOK
    <2>2. Outcome(ex[w].pc) # "none"
      BY DEF Outcome
    <2>3. op'[r].state # "none" /\ op'[r].before = op[r].before
      BY <1>1, <2>1, <2>2 DEF RecordedRow, OpRow
    <2> QED BY <1>1, <1>2, <2>3 DEF OpStep
  <1>6. CASE Settle(w)
    <2> DEFINE ok == Attributable(ex[w].op, ex[w].seen, r)
               to == IF ok THEN "reconciled" ELSE "manual_required"
    <2>0. op'[r] = [op[r] EXCEPT !.state = to, !.confirmed = ok]
      BY <1>1, <1>6 DEF Settle, IInv, TypeOK, LeaseTypeOK
    <2>a. to \in {"reconciled", "manual_required"}
      OBVIOUS
    <2> HIDE DEF to, ok
    <2>1. op'[r].state = to /\ to # "none" /\ op'[r].before = op[r].before
      BY <1>1, <2>0, <2>a DEF OpRow
    <2> QED BY <1>1, <1>2, <2>1 DEF OpStep, OpRow
  <1> QED BY <1>3, <1>4, <1>5, <1>6

LEMMA OpRowStep ==
  ASSUME IInv, Next
  PROVE  \A r \in Run : op'[r] = op[r] \/ OpStep(r)
  <1>1. ASSUME NEW w \in Worker, LeaseStep(w) PROVE op' = op
    BY <1>1 DEF LeaseStep, Claim, HeartbeatFails, MarkCheckpointStarted
  <1>2. ASSUME NEW w \in Worker, ExecutorStep(w)
        PROVE  \A r \in Run : op'[r] = op[r] \/ OpStep(r)
    <2>1. CASE Prepare(w) \/ Dispatch(w) \/ RecordOutcome(w) \/ Settle(w)
      BY <2>1, JournalRow
    <2>2. CASE ~(Prepare(w) \/ Dispatch(w) \/ RecordOutcome(w) \/ Settle(w))
      <3>1. op' = op
        BY <1>2, <2>2 DEF ExecutorStep, ExecuteBegin, CheckOperation, ReadTarget, AssertOwned,
                    SendPatch, PatchAnswered, ExecuteRaises, ReconcileBegin, Observe,
                    ReconcileRaises, leaseVars
      <3> QED BY <3>1
    <2> QED BY <2>1, <2>2
  <1>3. ASSUME NEW w \in Worker,
               Publish(w) \/ GiveUp(w) \/ TakeResult(w) \/ CallFails(w) \/ Crash(w)
        PROVE  op' = op
    BY <1>3 DEF Publish, Finish, GiveUp, Abandon, TakeResult, CallFails, Crash, leaseVars
  <1>4. ASSUME NEW q \in Run, Expire(q) PROVE op' = op
    BY <1>4 DEF Expire
  <1>5. ASSUME NEW c \in Request,
               \/ ActivateSupersede(c) \/ ActivateStart(c) \/ PostRound(c)
               \/ \E s \in Output \ {"none"} : ReadLatest(c, s)
        PROVE  op' = op
    BY <1>5 DEF ActivateSupersede, ActivateStart, PostRound, AcceptRound, ReadLatest, leaseVars
  <1>6. ASSUME ClusterStep PROVE op' = op
    BY <1>6 DEF ClusterStep, Drift, DeliverPatch, leaseVars
  <1>7. ASSUME NEW q \in Run, NEW d \in {"approved", "rejected"}, NEW p \in Config,
               QueueApproval(q, d, p)
        PROVE  op' = op
    BY <1>7 DEF QueueApproval
  <1>8. ASSUME NEW c \in Request, NEW a \in {"stop", "supplement", "investigate"}, Control(c, a)
        PROVE  \A r \in Run : op'[r] = op[r] \/ OpStep(r)
    BY <1>8, ControlledRows DEF OpStep, IInv
  <1>9. CASE HumanStep
    BY <1>5, <1>7, <1>8, <1>9 DEF HumanStep
  <1> QED BY <1>1, <1>2, <1>3, <1>4, <1>5, <1>6, <1>9 DEF Next

\* The request of a run changes only when its worker sends it or the cluster
\* answers.
LEMMA PatchStep ==
  ASSUME IInv, Next
  PROVE  \/ patch' = patch
         \/ \E w \in Worker : SendPatch(w)
         \/ \E r \in Run : DeliverPatch(r)
  <1>1. ASSUME NEW w \in Worker, LeaseStep(w) PROVE patch' = patch
    BY <1>1 DEF LeaseStep, ledgerVars
  <1>2. ASSUME NEW w \in Worker, ExecutorStep(w) PROVE patch' = patch \/ SendPatch(w)
    BY <1>2 DEF ExecutorStep, ExecuteBegin, CheckOperation, ReadTarget, Prepare, Dispatch,
                AssertOwned, PatchAnswered, RecordOutcome, ExecuteRaises,
                ReconcileBegin, Observe, Settle, ReconcileRaises
  <1>3. ASSUME NEW w \in Worker,
               Publish(w) \/ GiveUp(w) \/ TakeResult(w) \/ CallFails(w) \/ Crash(w)
        PROVE  patch' = patch
    BY <1>3 DEF Publish, GiveUp, TakeResult, CallFails, Crash
  <1>4. ASSUME NEW c \in Request,
               \/ ActivateSupersede(c) \/ ActivateStart(c) \/ PostRound(c)
               \/ \E s \in Output \ {"none"} : ReadLatest(c, s)
               \/ \E a \in {"stop", "supplement", "investigate"} : Control(c, a)
        PROVE  patch' = patch
    BY <1>4 DEF ActivateSupersede, ActivateStart, PostRound, AcceptRound, ReadLatest, Control,
                ledgerVars
  <1>5. ASSUME ClusterStep PROVE patch' = patch \/ \E r \in Run : DeliverPatch(r)
    BY <1>5 DEF ClusterStep, Drift
  <1>6. CASE HumanStep
    BY <1>4, <1>6 DEF HumanStep, QueueApproval, ledgerVars
  <1>7. ASSUME UNCHANGED <<ledgerVars, control>> PROVE patch' = patch
    BY <1>7 DEF ledgerVars
  <1> QED BY <1>1, <1>2, <1>3, <1>4, <1>5, <1>6, <1>7 DEF Next

\* A lease changes hands only between calls of the executor, and what a claim
\* copies is the row.
Claimed(w, r) ==
  /\ lease'[w].run = r /\ Live(r) /\ run'[r].status = "running"
  /\ lease'[w].approval = run[r].approval /\ lease'[w].prior = run[r].prior
  /\ run'[r].approval = run[r].approval /\ run'[r].prior = run[r].prior

LEMMA LeaseRow ==
  ASSUME IInv, Next, NEW w \in Worker
  PROVE  \/ lease'[w] = lease[w]
         \/ Free(w)' /\ lease'[w] = NoLease
         \/ Free(w)' /\ \E r \in Run : Claimed(w, r)
  <1> DEFINE Goal == \/ lease'[w] = lease[w]
                     \/ Free(w)' /\ lease'[w] = NoLease
                     \/ Free(w)' /\ \E r \in Run : Claimed(w, r)
  <1>1. ASSUME NEW v \in Worker, LeaseStep(v) PROVE Goal
    <2>1. CASE Claim(v)
      <3>1. ex' = ex /\ Free(v)
        BY <1>1, <2>1 DEF LeaseStep, ledgerVars, Claim, IInv, BusyHasLease
      <3> QED BY <2>1, <3>1, ClaimRow DEF Claimed, Free, IInv
    <2>2. CASE ~Claim(v)
      BY <1>1, <2>2 DEF LeaseStep, HeartbeatFails, MarkCheckpointStarted
    <2> QED BY <2>1, <2>2
  <1>2. ASSUME NEW v \in Worker, ExecutorStep(v) PROVE Goal
    BY <1>2 DEF ExecutorStep, ExecuteBegin, CheckOperation, ReadTarget, Prepare, Dispatch,
                AssertOwned, SendPatch, PatchAnswered, RecordOutcome, ExecuteRaises,
                ReconcileBegin, Observe, Settle, ReconcileRaises, leaseVars
  <1>3. ASSUME NEW v \in Worker, Publish(v) \/ GiveUp(v) \/ Crash(v) PROVE Goal
    <2>1. lease' = [lease EXCEPT ![v] = NoLease] /\ ResetEx(v)
      BY <1>3, PublishRow DEF Publish, GiveUp, Abandon, Crash, IInv
    <2> QED BY <2>1, ExecutorMoves DEF Free, IInv, TypeOK, LeaseTypeOK
  <1>4. ASSUME NEW v \in Worker, TakeResult(v) \/ CallFails(v) PROVE Goal
    BY <1>4 DEF TakeResult, CallFails, leaseVars
  <1>5. ASSUME NEW q \in Run, Expire(q) PROVE Goal
    BY <1>5 DEF Expire
  <1>6. ASSUME NEW c \in Request,
               \/ ActivateSupersede(c) \/ ActivateStart(c) \/ PostRound(c)
               \/ \E s \in Output \ {"none"} : ReadLatest(c, s)
               \/ \E a \in {"stop", "supplement", "investigate"} : Control(c, a)
        PROVE  Goal
    BY <1>6 DEF ActivateSupersede, ActivateStart, PostRound, AcceptRound, ReadLatest, Control,
                leaseVars
  <1>7. CASE ClusterStep
    BY <1>7 DEF ClusterStep, Drift, DeliverPatch, leaseVars
  <1>8. CASE HumanStep
    BY <1>6, <1>8 DEF HumanStep, QueueApproval
  <1> QED BY <1>1, <1>2, <1>3, <1>4, <1>5, <1>6, <1>7, <1>8 DEF Next

\* The path of execute() to the request, and the guard at each point of it.
OnTheWay == {"check", "read", "prepare", "dispatch", "own", "send"}

Moves(w) ==
  \/ ex'[w].pc = "check" /\ lease[w].approval = "approved"
  \/ ex[w].pc = "check" /\ ex'[w].pc = "read"
  \/ ex[w].pc = "read" /\ ex'[w].pc = "prepare"
  \/ /\ ex[w].pc = "prepare" /\ ex'[w].pc = "dispatch" /\ lease[w].run \in Run
     /\ op'[lease[w].run].state # "none" /\ op'[lease[w].run].before.cfg = lease[w].prior
  \/ ex[w].pc = "dispatch" /\ ex'[w].pc = "own" /\ Owns(w)
  \/ ex[w].pc = "own" /\ ex'[w].pc = "send"

LEMMA OwnMoves ==
  ASSUME IInv, NEW w \in Worker, ExecutorStep(w)
  PROVE  /\ \A v \in Worker \ {w} : ex'[v] = ex[v]
         /\ ex'[w].pc \notin OnTheWay \/ Moves(w)
         /\ \/ ex'[w].seen \in {ex[w].seen, target, NoSnapshot}
            \/ lease[w].run \in Run /\ ex'[w].seen = patch[lease[w].run].response
  <1> USE DEF IInv
  <1>1. ex[w] \in Executor /\ ex \in [Worker -> Executor]
    BY DEF TypeOK, LedgerTypeOK
  <1>2. \A x : Goto(w, x) => ex'[w].pc = x /\ ex'[w].seen = ex[w].seen
    BY ExecutorMoves
  <1>3. \A x : Done(w, x) => ex'[w].pc = "done" /\ ex'[w].seen = NoSnapshot
    BY <1>1 DEF Done, IdleEx
  <1>4. CASE ExecuteBegin(w) \/ ReconcileBegin(w)
    <2>1. PICK x : \/ ex' = [ex EXCEPT ![w] = [IdleEx EXCEPT !.pc = "check"]]
                      /\ lease[w].approval = "approved"
                   \/ ex' = [ex EXCEPT ![w] = [IdleEx EXCEPT !.pc = "observe", !.op = x]]
      BY <1>4 DEF ExecuteBegin, ReconcileBegin
    <2> QED BY <1>1, <2>1 DEF IdleEx, OnTheWay, Moves
  <1>5. CASE CheckOperation(w)
    BY <1>2, <1>3, <1>5, ExecutorMoves DEF CheckOperation, OnTheWay, Moves
  <1>6. CASE ReadTarget(w) \/ Observe(w)
    <2>1. PICK pc, s : /\ ex' = [ex EXCEPT ![w] = [@ EXCEPT !.pc = pc, !.seen = s]]
                       /\ s \in {target, NoSnapshot}
                       /\ pc = "settle" \/ (pc = "prepare" /\ ex[w].pc = "read")
      BY <1>6 DEF ReadTarget, Observe
    <2>2. ex'[w].pc = pc /\ ex'[w].seen = s /\ \A v \in Worker \ {w} : ex'[v] = ex[v]
      BY <1>1, <2>1 DEF Executor
    <2> QED BY <2>1, <2>2 DEF OnTheWay, Moves
  <1>7. CASE Prepare(w)
    <2> DEFINE r == lease[w].run
               o == PreparedRow(w)
    <2>1. r \in Run /\ op'[r] = o
      BY <1>7, OwnerRuns DEF Prepare, TypeOK, LeaseTypeOK
    <2>2. o.state # "none"
      BY DEF PreparedRow, NoOp
    <2>3. CASE Goto(w, "reject")
      BY <1>2, <2>3, ExecutorMoves DEF OnTheWay
    <2>4. CASE PreconditionHolds(w, o) /\ Goto(w, "dispatch")
      BY <1>2, <1>7, <2>1, <2>2, <2>4, ExecutorMoves DEF Prepare, PreconditionHolds, Moves
    <2> QED BY <1>7, <2>3, <2>4 DEF Prepare
  <1>8. CASE Dispatch(w) \/ AssertOwned(w)
    BY <1>2, <1>8, ExecutorMoves DEF Dispatch, AssertOwned, OnTheWay, Moves
  <1>9. CASE PatchAnswered(w)
    <2> DEFINE p == patch[lease[w].run]
    <2>1. CASE Goto(w, "unknown") \/ Goto(w, "refused")
      BY <1>2, <2>1, ExecutorMoves DEF OnTheWay
    <2>2. CASE ex' = [ex EXCEPT ![w] = [@ EXCEPT
                        !.pc = IF p.response.cfg = lease[w].run THEN "ok" ELSE "mismatch",
                        !.seen = p.response]]
      <3>1. lease[w].run \in Run
        BY <1>9 DEF PatchAnswered, BusyHasLease, Free, TypeOK, LeaseTypeOK, Lease
      <3>2. /\ ex'[w].pc \in {"ok", "mismatch"} /\ ex'[w].seen = p.response
            /\ \A v \in Worker \ {w} : ex'[v] = ex[v]
        BY <1>1, <2>2 DEF Executor
      <3> QED BY <3>1, <3>2 DEF OnTheWay
    <2> QED BY <1>9, <2>1, <2>2 DEF PatchAnswered
  <1>10. CASE SendPatch(w)
    BY <1>2, <1>10, ExecutorMoves DEF SendPatch, OnTheWay
  <1>11. CASE RecordOutcome(w) \/ ExecuteRaises(w) \/ Settle(w) \/ ReconcileRaises(w)
    BY <1>3, <1>11, ExecutorMoves DEF RecordOutcome, ExecuteRaises, Settle, ReconcileRaises,
                                      OnTheWay
  <1> QED BY <1>4, <1>5, <1>6, <1>7, <1>8, <1>9, <1>10, <1>11 DEF ExecutorStep

LEMMA ExStep ==
  ASSUME IInv, Next, NEW w \in Worker
  PROVE  /\ \/ ex'[w].pc \notin OnTheWay
            \/ lease'[w] = lease[w] /\ (ex'[w].pc = ex[w].pc \/ Moves(w))
         /\ \/ ex'[w].seen \in {ex[w].seen, target, NoSnapshot}
            \/ lease[w].run \in Run /\ ex'[w].seen = patch[lease[w].run].response
  <1> USE DEF IInv
  <1>0. \/ ex'[w].pc \notin OnTheWay
        \/ lease'[w] = lease[w]
    BY LeaseRow DEF Free, OnTheWay
  <1>1. ASSUME NEW v \in Worker, LeaseStep(v) PROVE ex' = ex
    BY <1>1 DEF LeaseStep, ledgerVars
  <1>2. ASSUME NEW v \in Worker, ExecutorStep(v)
        PROVE  /\ ex'[w].pc \notin OnTheWay \/ ex'[w].pc = ex[w].pc \/ Moves(w)
               /\ \/ ex'[w].seen \in {ex[w].seen, target, NoSnapshot}
                  \/ lease[w].run \in Run /\ ex'[w].seen = patch[lease[w].run].response
    BY <1>2, OwnMoves
  <1>3. ASSUME NEW v \in Worker,
               Publish(v) \/ GiveUp(v) \/ TakeResult(v) \/ CallFails(v) \/ Crash(v)
        PROVE  ex' = ex \/ ResetEx(v)
    BY <1>3 DEF Publish, GiveUp, TakeResult, CallFails, Crash
  <1>4. ASSUME NEW v \in Worker, ResetEx(v)
        PROVE  ex'[w] = ex[w] \/ (ex'[w].pc = "idle" /\ ex'[w].seen = NoSnapshot)
    BY <1>4 DEF ResetEx, IdleEx, TypeOK, LedgerTypeOK
  <1>5. ASSUME NEW c \in Request,
               \/ ActivateSupersede(c) \/ ActivateStart(c) \/ PostRound(c)
               \/ \E s \in Output \ {"none"} : ReadLatest(c, s)
               \/ \E a \in {"stop", "supplement", "investigate"} : Control(c, a)
        PROVE  ex' = ex
    BY <1>5 DEF ActivateSupersede, ActivateStart, PostRound, AcceptRound, ReadLatest, Control,
                ledgerVars
  <1>6. CASE ClusterStep
    BY <1>0, <1>6 DEF ClusterStep, Drift, DeliverPatch
  <1>7. CASE HumanStep
    <2>1. ex' = ex
      BY <1>5, <1>7 DEF HumanStep, QueueApproval, ledgerVars
    <2> QED BY <1>0, <2>1
  <1>8. CASE \E v \in Worker : \/ Publish(v) \/ GiveUp(v) \/ TakeResult(v) \/ CallFails(v)
                               \/ Crash(v)
    BY <1>0, <1>3, <1>4, <1>8 DEF OnTheWay
  <1>9. CASE \E v \in Worker : ExecutorStep(v)
    BY <1>0, <1>2, <1>9
  <1>10. CASE ex' = ex
    BY <1>0, <1>10
  <1>11. ASSUME UNCHANGED <<ledgerVars, control>> PROVE ex' = ex
    BY <1>11 DEF ledgerVars
  <1> QED BY <1>1, <1>5, <1>6, <1>7, <1>8, <1>9, <1>10, <1>11 DEF Next

-----------------------------------------------------------------------------
(* The round invariant.                                                     *)

\* A step opens a round or leaves every run that is absent or has ended alone.
LEMMA Rows ==
  ASSUME IInv, Next
  PROVE  \/ \E p \in Run : NewRound(p)
         \/ \A r \in Run : run'[r] = run[r] \/ LiveStep(r)
  BY RowStep, RoundRow DEF IInv

\* With no unresolved operation nothing is in flight and nobody is about to send.
LEMMA NoOpenWrite ==
  ASSUME IInv, NoUnresolved, NEW r \in Run
  PROVE  patch[r].st # "flying" /\ ~AboutToSend(r)
  <1>1. op[r].state \in {"none", "rejected", "succeeded", "reconciled"}
    BY DEF NoUnresolved, IInv, TypeOK, LeaseTypeOK, OpRow, OpState, Unresolved
  <1>2. CASE op[r].state \in {"none", "rejected"}
    BY <1>2 DEF IInv, RejectedNeverWrites
  <1>3. CASE op[r].state \in {"succeeded", "reconciled"}
    BY <1>3 DEF IInv, ConfirmedWasApplied, NotYetSent, AboutToSend
  <1> QED BY <1>1, <1>2, <1>3

\* A run that exists stays; only a round makes one, and only the next one.
LEMMA Existing ==
  ASSUME IInv, Next, NEW r \in Run
  PROVE  /\ run'[r].status = "absent" => run'[r] = run[r]
         /\ run[r].status = "absent" =>
              \/ run'[r].status = "absent"
              \/ r - 1 \in Run /\ NewRound(r - 1)
  <1>1. CASE \E p \in Run : NewRound(p)
    <2>1. PICK p \in Run : NewRound(p)
      BY <1>1
    <2>2. CASE r = p + 1
      <3>1. r - 1 = p /\ run'[r].status = "queued"
        BY <2>1, <2>2 DEF NewRound, NewRow, Run
      <3> QED BY <2>1, <3>1
    <2>3. CASE r = p
      BY <2>1, <2>3 DEF NewRound, Terminal
    <2> QED BY <2>1, <2>2, <2>3 DEF NewRound
  <1>2. CASE \A q \in Run : run'[q] = run[q] \/ LiveStep(q)
    BY <1>2 DEF LiveStep, Live
  <1> QED BY <1>1, <1>2, Rows

LEMMA OneActiveStep ==
  ASSUME IInv, OneActiveRun, Next
  PROVE  OneActiveRun'
  <1> SUFFICES ASSUME NEW r \in Run, NEW q \in Run, r < q, run'[q].status # "absent"
               PROVE  run'[r].status \in Terminal
    BY DEF OneActiveRun
  <1>1. ASSUME NEW p \in Run, NewRound(p) PROVE run'[r].status \in Terminal
    <2>1. p \in Int /\ r \in Int /\ q \in Int
      BY DEF Run
    <2>2. q <= p + 1
      BY <1>1, <2>1 DEF NewRound, IsLatest
    <2>3. CASE r = p
      BY <1>1, <2>3 DEF NewRound
    <2>4. CASE r # p
      <3>1. r < p /\ r # p + 1
        BY <2>1, <2>2, <2>4
      <3>2. run[r].status \in Terminal
        BY <1>1, <3>1 DEF NewRound, IsLatest, OneActiveRun
      <3> QED BY <1>1, <2>4, <3>1, <3>2 DEF NewRound
    <2> QED BY <2>3, <2>4
  <1>2. CASE \A x \in Run : run'[x] = run[x] \/ LiveStep(x)
    <2>1. run[q].status # "absent"
      BY <1>2 DEF LiveStep, Live
    <2>2. run[r].status \in Terminal
      BY <2>1 DEF OneActiveRun
    <2> QED BY <1>2, <2>2 DEF LiveStep, Live
  <1> QED BY <1>1, <1>2, Rows

LEMMA OpenWriteStep ==
  ASSUME IInv, OneActiveRun, OpenWriteBlocksRound, Next
  PROVE  OpenWriteBlocksRound'
  <1> SUFFICES ASSUME NEW r \in Run, patch'[r].st = "flying" \/ AboutToSend(r)',
                      NEW q \in Run, q > r
               PROVE  run'[q].status = "absent"
    BY DEF OpenWriteBlocksRound
  <1>1. ASSUME NEW p \in Run, NewRound(p) PROVE FALSE
    <2>1. patch[r].st = "flying" \/ AboutToSend(r)
      BY <1>1 DEF NewRound, AboutToSend
    <2> QED BY <1>1, <2>1, NoOpenWrite DEF NewRound
  <1>2. SUFFICES run[q].status = "absent"
    BY <1>1, Existing
  <1>3. CASE patch[r].st = "flying" \/ AboutToSend(r)
    BY <1>3 DEF OpenWriteBlocksRound
  <1>4. CASE ~(patch[r].st = "flying" \/ AboutToSend(r)) /\ patch'[r].st = "flying"
    <2>1. ASSUME NEW w \in Worker, SendPatch(w) PROVE FALSE
      <3>1. lease[w].run # r
        BY <1>4, <2>1 DEF SendPatch, AboutToSend
      <3> QED BY <1>4, <2>1, <3>1 DEF SendPatch, IInv, TypeOK, LedgerTypeOK
    <2>2. ASSUME NEW x \in Run, DeliverPatch(x) PROVE FALSE
      BY <1>4, <2>2 DEF DeliverPatch, IInv, TypeOK, LedgerTypeOK, PatchRow
    <2> QED BY <1>4, <2>1, <2>2, PatchStep
  <1>5. CASE ~(patch[r].st = "flying" \/ AboutToSend(r)) /\ AboutToSend(r)'
    <2>1. PICK w \in Worker : lease'[w].run = r /\ ex'[w].pc \in {"own", "send"}
      BY <1>5 DEF AboutToSend
    <2>2. lease'[w] = lease[w] /\ (ex'[w].pc = ex[w].pc \/ Moves(w))
      BY <2>1, ExStep DEF OnTheWay
    <2>3. Owns(w)
      BY <1>5, <2>1, <2>2 DEF AboutToSend, Moves
    <2>4. Live(r)
      BY <2>1, <2>2, <2>3, OwnerRuns DEF IInv
    <2> QED BY <2>4 DEF OneActiveRun, Live, Run
  <1> QED BY <1>3, <1>4, <1>5

LEMMA AbsentStep ==
  ASSUME IInv, AbsentIsBlank, Next
  PROVE  AbsentIsBlank'
  <1> SUFFICES ASSUME NEW r \in Run, run'[r].status = "absent"
               PROVE  /\ run'[r].approval = "none" /\ patch'[r].st = "unsent"
                      /\ \A w \in Worker : lease'[w].run # r
    BY DEF AbsentIsBlank
  <1>1. run'[r] = run[r] /\ run[r].status = "absent"
    BY Existing
  <1>2. /\ run[r].approval = "none" /\ patch[r].st = "unsent"
        /\ \A w \in Worker : lease[w].run # r
    BY <1>1 DEF AbsentIsBlank
  <1>3. patch'[r].st = "unsent"
    <2>1. ASSUME NEW w \in Worker, SendPatch(w) PROVE patch'[r] = patch[r]
      BY <1>2, <2>1 DEF SendPatch, IInv, TypeOK, LedgerTypeOK
    <2>2. ASSUME NEW x \in Run, DeliverPatch(x) PROVE patch'[r] = patch[r]
      BY <1>2, <2>2 DEF DeliverPatch, IInv, TypeOK, LedgerTypeOK
    <2> QED BY <1>2, <2>1, <2>2, PatchStep
  <1>4. ASSUME NEW w \in Worker PROVE lease'[w].run # r
    <2>1. CASE lease'[w] = NoLease
      BY <2>1 DEF NoLease, Run
    <2>2. ASSUME NEW q \in Run, Claimed(w, q) PROVE lease'[w].run # r
      BY <1>1, <2>2 DEF Claimed, Live
    <2> QED BY <1>2, <2>1, <2>2, LeaseRow
  <1> QED BY <1>1, <1>2, <1>3, <1>4

\* Every change of the object raises its version.
LEMMA TargetStep ==
  ASSUME IInv, Next
  PROVE  /\ target' = target \/ target'.rv = target.rv + 1
         /\ target.rv \in Nat /\ target' \in Snapshot
  <1>1. target' \in Snapshot /\ target.rv \in Nat
    BY NextTypes DEF IInv, TypeOK, LedgerTypeOK, Snapshot
  <1>2. ASSUME NEW w \in Worker, LeaseStep(w) PROVE target' = target
    BY <1>2 DEF LeaseStep, ledgerVars
  <1>3. ASSUME NEW w \in Worker, ExecutorStep(w) PROVE target' = target
    BY <1>3 DEF ExecutorStep, ExecuteBegin, CheckOperation, ReadTarget, Prepare, Dispatch,
                AssertOwned, SendPatch, PatchAnswered, RecordOutcome, ExecuteRaises,
                ReconcileBegin, Observe, Settle, ReconcileRaises
  <1>4. ASSUME NEW w \in Worker,
               Publish(w) \/ GiveUp(w) \/ TakeResult(w) \/ CallFails(w) \/ Crash(w)
        PROVE  target' = target
    BY <1>4 DEF Publish, GiveUp, TakeResult, CallFails, Crash
  <1>5. ASSUME NEW c \in Request,
               \/ ActivateSupersede(c) \/ ActivateStart(c) \/ PostRound(c)
               \/ \E s \in Output \ {"none"} : ReadLatest(c, s)
               \/ \E a \in {"stop", "supplement", "investigate"} : Control(c, a)
        PROVE  target' = target
    BY <1>5 DEF ActivateSupersede, ActivateStart, PostRound, AcceptRound, ReadLatest, Control,
                ledgerVars
  <1>6. CASE ClusterStep
    <2>1. CASE Drift
      BY <1>1, <2>1 DEF Drift
    <2>2. ASSUME NEW r \in Run, DeliverPatch(r)
          PROVE  target' = target \/ target'.rv = target.rv + 1
      BY <2>2 DEF DeliverPatch
    <2> QED BY <1>1, <1>6, <2>1, <2>2 DEF ClusterStep
  <1>7. CASE HumanStep
    BY <1>1, <1>5, <1>7 DEF HumanStep, QueueApproval, ledgerVars
  <1>8. ASSUME UNCHANGED <<ledgerVars, control>> PROVE target' = target
    BY <1>8 DEF ledgerVars
  <1> QED BY <1>1, <1>2, <1>3, <1>4, <1>5, <1>6, <1>7, <1>8 DEF Next

LEMMA PastStep ==
  ASSUME IInv, SnapshotsArePast, Next
  PROVE  SnapshotsArePast'
  <1> DEFINE P(s) == s.rv <= target'.rv /\ (s.rv = target'.rv => s = target')
  <1>1. /\ target' = target \/ target'.rv = target.rv + 1
        /\ target.rv \in Nat /\ target.rv > 0 /\ target'.rv \in Nat /\ target \in Snapshot
    BY TargetStep DEF SnapshotsArePast, Snapshot, IInv, TypeOK, LedgerTypeOK
  <1>2. ASSUME NEW s \in Snapshot, Past(s) PROVE P(s)
    <2>1. s.rv \in Nat
      BY DEF Snapshot
    <2> QED BY <1>1, <1>2, <2>1 DEF Past
  <1>3. P(target) /\ P(NoSnapshot) /\ P(target') /\ target'.rv > 0
    BY <1>1 DEF NoSnapshot
  <1>4. /\ \A r \in Run : op[r].before \in Snapshot /\ patch[r].response \in Snapshot
        /\ \A w \in Worker : ex[w].seen \in Snapshot
    BY DEF IInv, TypeOK, LeaseTypeOK, LedgerTypeOK, OpRow, PatchRow, Executor
  <1>5. /\ \A r \in Run : P(op[r].before) /\ P(patch[r].response)
        /\ \A w \in Worker : P(ex[w].seen)
    BY <1>2, <1>4 DEF SnapshotsArePast
  <1> HIDE DEF P
  <1>6. ASSUME NEW r \in Run PROVE P(op'[r].before)
    BY <1>5, OpRowStep DEF OpStep
  <1>7. ASSUME NEW r \in Run PROVE P(patch'[r].response)
    <2>0. patch \in [Run -> PatchRow]
      BY DEF IInv, TypeOK, LedgerTypeOK
    <2>1. ASSUME NEW w \in Worker, SendPatch(w)
          PROVE  patch'[r].response \in {patch[r].response, NoSnapshot}
      BY <2>0, <2>1 DEF SendPatch
    <2>2. ASSUME NEW x \in Run, DeliverPatch(x)
          PROVE  patch'[r].response \in {patch[r].response, target'}
      <3>1. CASE patch' = [patch EXCEPT ![x] = [@ EXCEPT !.st = "refused"]]
        BY <2>0, <3>1 DEF PatchRow
      <3>2. ASSUME NEW c, target' = [rv |-> target.rv + 1, cfg |-> c],
                   patch' = [patch EXCEPT ![x] = [@ EXCEPT !.st = "applied",
                               !.response = [rv |-> target.rv + 1, cfg |-> c]]]
            PROVE  patch'[r].response \in {patch[r].response, target'}
        BY <2>0, <3>2 DEF PatchRow
      <3> QED BY <2>2, <3>1, <3>2 DEF DeliverPatch
    <2> QED BY <1>3, <1>5, <2>1, <2>2, PatchStep
  <1>8. ASSUME NEW w \in Worker PROVE P(ex'[w].seen)
    BY <1>3, <1>5, ExStep
  <1> QED BY <1>3, <1>6, <1>7, <1>8 DEF SnapshotsArePast, Past, P

\* A decision, once approved, and the configuration it is about stay.
LEMMA ApprovalStays ==
  ASSUME IInv, AbsentIsBlank, Next, NEW r \in Run, run[r].approval = "approved"
  PROVE  run'[r].approval = "approved" /\ run'[r].prior = run[r].prior
  <1>1. ASSUME NEW p \in Run, NewRound(p)
        PROVE  run'[r].approval = "approved" /\ run'[r].prior = run[r].prior
    <2>1. r # p + 1
      BY <1>1 DEF NewRound, IsLatest, AbsentIsBlank, Run
    <2> QED BY <1>1, <2>1 DEF NewRound
  <1> QED BY <1>1, Rows DEF LiveStep, QueueApproval

LEMMA BaseStays ==
  ASSUME IInv, AbsentIsBlank, Next, NEW r \in Run, OnApprovedBase(r)
  PROVE  OnApprovedBase(r)'
  <1>1. run'[r].approval = "approved" /\ run'[r].prior = run[r].prior
    BY ApprovalStays DEF OnApprovedBase
  <1>2. op'[r].state # "none" /\ op'[r].before = op[r].before
    BY OpRowStep DEF OnApprovedBase, OpStep
  <1> QED BY <1>1, <1>2 DEF OnApprovedBase

LEMMA BoundStep ==
  ASSUME IInv, AbsentIsBlank, ApprovalIsBound, Next
  PROVE  ApprovalIsBound'
  <1>0. \A w \in Worker : /\ lease[w].run # 0 => lease[w].run \in Run
                          /\ ex[w].pc \in OnTheWay => lease[w].run \in Run
    BY DEF IInv, TypeOK, LeaseTypeOK, Lease, BusyHasLease, Free, OnTheWay
  <1>1. ASSUME NEW w \in Worker, lease'[w].run # 0, lease'[w].approval = "approved"
        PROVE  /\ run'[lease'[w].run].approval = "approved"
               /\ run'[lease'[w].run].prior = lease'[w].prior
    <2>1. CASE lease'[w] = lease[w]
      BY <1>0, <1>1, <2>1, ApprovalStays DEF ApprovalIsBound
    <2>2. CASE lease'[w] = NoLease
      BY <1>1, <2>2 DEF NoLease
    <2>3. ASSUME NEW r \in Run, Claimed(w, r)
          PROVE  /\ run'[lease'[w].run].approval = "approved"
                 /\ run'[lease'[w].run].prior = lease'[w].prior
      BY <1>1, <2>3 DEF Claimed
    <2> QED BY <2>1, <2>2, <2>3, LeaseRow
  <1>2. ASSUME NEW w \in Worker, ex'[w].pc \in {"check", "read", "prepare"}
        PROVE  lease'[w].approval = "approved"
    <2>1. lease'[w] = lease[w] /\ (ex'[w].pc = ex[w].pc \/ Moves(w))
      BY <1>2, ExStep DEF OnTheWay
    <2> QED BY <1>2, <2>1 DEF Moves, ApprovalIsBound
  <1>3. ASSUME NEW w \in Worker, ex'[w].pc \in {"dispatch", "own", "send"}
        PROVE  OnApprovedBase(lease[w].run)' /\ lease'[w].run = lease[w].run
    <2>1. lease'[w] = lease[w] /\ (ex'[w].pc = ex[w].pc \/ Moves(w))
      BY <1>3, ExStep DEF OnTheWay
    <2>2. CASE ex[w].pc \in {"dispatch", "own", "send"}
      <3>1. lease[w].run \in Run /\ OnApprovedBase(lease[w].run)
        BY <1>0, <2>2 DEF OnTheWay, ApprovalIsBound
      <3> DEFINE r == lease[w].run
      <3>3. OnApprovedBase(r)'
        BY <2>1, <3>1, BaseStays
      <3> QED BY <2>1, <3>3
    <2>3. CASE ex[w].pc \notin {"dispatch", "own", "send"}
      <3>1. /\ ex[w].pc = "prepare" /\ lease[w].run \in Run
            /\ op'[lease[w].run].state # "none"
            /\ op'[lease[w].run].before.cfg = lease[w].prior
        BY <1>3, <2>1, <2>3 DEF Moves
      <3>2. /\ run[lease[w].run].approval = "approved"
            /\ run[lease[w].run].prior = lease[w].prior
        BY <3>1 DEF ApprovalIsBound, Run
      <3> QED BY <2>1, <3>1, <3>2, ApprovalStays DEF OnApprovedBase
    <2> QED BY <2>2, <2>3
  <1>4. ASSUME NEW r \in Run, patch'[r].st = "flying" PROVE OnApprovedBase(r)'
    <2>0. patch \in [Run -> PatchRow]
      BY DEF IInv, TypeOK, LedgerTypeOK
    <2>1. CASE patch[r].st = "flying"
      BY <2>1, BaseStays DEF ApprovalIsBound
    <2>2. ASSUME NEW w \in Worker, SendPatch(w), lease[w].run = r PROVE OnApprovedBase(r)'
      BY <2>2, BaseStays DEF SendPatch, ApprovalIsBound
    <2>3. ASSUME NEW w \in Worker, SendPatch(w), lease[w].run # r PROVE patch'[r] = patch[r]
      BY <2>0, <2>3 DEF SendPatch
    <2>4. ASSUME NEW x \in Run, DeliverPatch(x) PROVE patch[r].st = "flying"
      BY <1>4, <2>0, <2>4 DEF DeliverPatch, PatchRow
    <2> QED BY <1>4, <2>1, <2>2, <2>3, <2>4, PatchStep
  <1> QED BY <1>1, <1>2, <1>3, <1>4 DEF ApprovalIsBound

LEMMA InitRound == Init => RoundInv
  <1> SUFFICES ASSUME Init PROVE RoundInv
    OBVIOUS
  <1>1. /\ \A r \in Run : /\ r # 1 => run[r].status = "absent"
                          /\ run[r].approval = "none"
                          /\ patch[r].st = "unsent" /\ patch[r].response = NoSnapshot
                          /\ op[r].before = NoSnapshot
        /\ \A w \in Worker : ex[w].pc = "idle" /\ ex[w].seen = NoSnapshot /\ lease[w].run = 0
        /\ target = [rv |-> 1, cfg |-> 0]
    BY DEF Init, LeaseInit, LedgerInit, NewRow, NoPatch, NoOp, IdleEx, NoLease
  <1>2. OneActiveRun
    BY <1>1 DEF OneActiveRun, Run
  <1>3. OpenWriteBlocksRound
    BY <1>1 DEF OpenWriteBlocksRound, AboutToSend
  <1>4. AbsentIsBlank
    BY <1>1 DEF AbsentIsBlank, Run
  <1>5. SnapshotsArePast
    BY <1>1 DEF SnapshotsArePast, Past, NoSnapshot
  <1>6. ApprovalIsBound
    BY <1>1 DEF ApprovalIsBound
  <1> QED BY <1>2, <1>3, <1>4, <1>5, <1>6 DEF RoundInv

LEMMA StepRound == IInv /\ RoundInv /\ [Next]_vars => RoundInv'
  <1>1. CASE UNCHANGED vars
    <2> SUFFICES ASSUME RoundInv, UNCHANGED vars PROVE RoundInv'
      BY <1>1
    <2>1. UNCHANGED <<run, op, lease, target, patch, ex>>
      BY DEF vars, leaseVars, ledgerVars
    <2> QED BY <2>1 DEF RoundInv, OneActiveRun, OpenWriteBlocksRound, AboutToSend, AbsentIsBlank,
                        SnapshotsArePast, Past, ApprovalIsBound, OnApprovedBase
  <1>2. ASSUME IInv, RoundInv, Next PROVE RoundInv'
    BY <1>2, OneActiveStep, OpenWriteStep, AbsentStep, PastStep, BoundStep DEF RoundInv
  <1> QED BY <1>1, <1>2

\* The invariant of rounds, snapshots and approvals, on top of the one about
\* writes: neither is inductive alone for the properties below.
THEOREM RoundsInductive == Spec => [](IInv /\ RoundInv)
  BY InitInv, StepInv, InitRound, StepRound, PTL DEF Spec

\* accept_round() and activate_pending() never leave two runs of an incident at
\* work, however polls, requests and workers interleave.
THEOREM OneRunAtWork == Spec => []OneActiveRun
  <1>1. RoundInv => OneActiveRun
    BY DEF RoundInv
  <1> QED BY <1>1, RoundsInductive, PTL

\* A round is not opened past a write that may still reach the cluster: neither
\* one in flight nor one a worker that lost its lease is about to send.
THEOREM NoRoundPastOpenWrite == Spec => []OpenWriteBlocksRound
  <1>1. RoundInv => OpenWriteBlocksRound
    BY DEF RoundInv
  <1> QED BY <1>1, RoundsInductive, PTL

-----------------------------------------------------------------------------
(* Action properties.                                                       *)

\* Once a later round exists, no worker, control or reconciliation of the run's
\* own time changes its row, its journal or its request.
THEOREM HistoryIsFrozen == Spec => HistoryFrozen
  <1> DEFINE Frozen == \A r \in Run : (\E q \in Run : q > r /\ run[q].status # "absent") =>
                         run'[r] = run[r] /\ op'[r] = op[r] /\ patch'[r] = patch[r]
  <1>1. ASSUME IInv, RoundInv, Next PROVE Frozen
    <2> SUFFICES ASSUME NEW r \in Run, NEW q \in Run, q > r, run[q].status # "absent"
                 PROVE  run'[r] = run[r] /\ op'[r] = op[r] /\ patch'[r] = patch[r]
      OBVIOUS
    <2>1. run[r].status \in Terminal /\ ~Live(r)
      BY <1>1 DEF RoundInv, OneActiveRun, Live, Run
    <2>2. patch[r].st # "flying" /\ ~AboutToSend(r)
      BY <1>1 DEF RoundInv, OpenWriteBlocksRound
    <2>3. run'[r] = run[r]
      <3>1. ASSUME NEW p \in Run, NewRound(p) PROVE r \notin {p, p + 1}
        BY <3>1 DEF NewRound, IsLatest, Run
      <3> QED BY <1>1, <2>1, <3>1, Rows DEF LiveStep, NewRound
    <2>4. op'[r] = op[r]
      BY <1>1, <2>1, OpRowStep DEF OpStep
    <2>5. patch'[r] = patch[r]
      <3>1. ASSUME NEW w \in Worker, SendPatch(w) PROVE patch'[r] = patch[r]
        BY <1>1, <2>2, <3>1 DEF SendPatch, AboutToSend, IInv, TypeOK, LedgerTypeOK
      <3>2. ASSUME NEW x \in Run, DeliverPatch(x) PROVE patch'[r] = patch[r]
        BY <1>1, <2>2, <3>2 DEF DeliverPatch, IInv, TypeOK, LedgerTypeOK
      <3> QED BY <1>1, <3>1, <3>2, PatchStep
    <2> QED BY <2>3, <2>4, <2>5
  <1>2. IInv /\ RoundInv /\ [Next]_vars => [Frozen]_vars
    BY <1>1
  <1> QED BY <1>2, RoundsInductive, PTL DEF Spec, HistoryFrozen

\* A change is applied only over the configuration the approving human saw: the
\* version test of the PATCH refers to the object that execute() compared.
THEOREM ChangeIsOnApprovedBase == Spec => AppliedOnApprovedBase
  <1> DEFINE Based == \A r \in Run : patch[r].st = "flying" /\ patch'[r].st = "applied" =>
                        target.cfg = run[r].prior /\ run[r].approval = "approved"
  <1>1. ASSUME IInv, RoundInv, Next PROVE Based
    <2> SUFFICES ASSUME NEW r \in Run, patch[r].st = "flying", patch'[r].st = "applied"
                 PROVE  target.cfg = run[r].prior /\ run[r].approval = "approved"
      OBVIOUS
    <2>0. patch \in [Run -> PatchRow]
      BY <1>1 DEF IInv, TypeOK, LedgerTypeOK
    <2>1. OnApprovedBase(r)
      BY <1>1 DEF RoundInv, ApprovalIsBound
    <2>2. ASSUME NEW w \in Worker, SendPatch(w) PROVE FALSE
      BY <2>0, <2>2 DEF SendPatch
    <2>3. PICK x \in Run : DeliverPatch(x)
      BY <1>1, <2>2, PatchStep
    <2>4. target.rv = op[r].before.rv
      BY <2>0, <2>3 DEF DeliverPatch, PatchRow
    <2>5. target = op[r].before
      BY <1>1, <2>4 DEF RoundInv, SnapshotsArePast, Past
    <2> QED BY <2>1, <2>5 DEF OnApprovedBase
  <1>2. IInv /\ RoundInv /\ [Next]_vars => [Based]_vars
    <2>1. ASSUME UNCHANGED vars PROVE patch' = patch
      BY <2>1 DEF vars, ledgerVars
    <2> QED BY <1>1, <2>1
  <1> QED BY <1>2, RoundsInductive, PTL DEF Spec, AppliedOnApprovedBase

-----------------------------------------------------------------------------
(* The promise: leases, journal and controls implement ApprovedChange.      *)

\* Apart from queue_approval() no step changes what a human decided.
LEMMA DecisionStep ==
  ASSUME IInv, AbsentIsBlank, Next,
         ~ \E r \in Run, d \in {"approved", "rejected"}, p \in Config : QueueApproval(r, d, p),
         NEW r \in Run
  PROVE  run'[r].approval = run[r].approval
  <1>1. ASSUME NEW p \in Run, NewRound(p) PROVE run'[r].approval = run[r].approval
    <2>1. CASE r = p + 1
      <3>1. run[r].status = "absent"
        BY <1>1, <2>1 DEF NewRound, IsLatest, Run
      <3> QED BY <1>1, <2>1, <3>1 DEF NewRound, NewRow, AbsentIsBlank
    <2>2. CASE r # p + 1
      BY <1>1, <2>2 DEF NewRound
    <2> QED BY <2>1, <2>2
  <1> QED BY <1>1, Rows DEF LiveStep

\* While a worker is about to send, no request of the incident is open.
LEMMA SendAlone ==
  ASSUME IInv, RoundInv, NEW w \in Worker, ex[w].pc = "send"
  PROVE  \A q \in Run : patch[q].st # "flying"
  <1> DEFINE r == lease[w].run
  <1>1. r \in Run /\ patch[r].st = "unsent" /\ AboutToSend(r) /\ run[r].status # "absent"
    BY DEF IInv, BusyHasLease, Free, NotYetSent, AboutToSend, TypeOK, LeaseTypeOK, Lease,
           RoundInv, AbsentIsBlank
  <1>2. ASSUME NEW q \in Run, patch[q].st = "flying" PROVE FALSE
    <2>1. CASE q < r
      BY <1>1, <1>2, <2>1 DEF RoundInv, OpenWriteBlocksRound
    <2>2. CASE q > r
      BY <1>1, <1>2, <2>2 DEF RoundInv, OpenWriteBlocksRound, AbsentIsBlank
    <2> QED BY <1>1, <1>2, <2>1, <2>2 DEF Run
  <1> QED BY <1>2

LEMMA PromiseStep ==
  IInv /\ RoundInv /\ [Next]_vars => [Promise!Next]_(Promise!changeVars)
  <1> SUFFICES ASSUME IInv, RoundInv, [Next]_vars
               PROVE  Promise!Next \/ UNCHANGED Promise!changeVars
    OBVIOUS
  <1> DEFINE D == [r \in Run |-> run[r].approval]
             C == [r \in Run |-> ChangeOf(patch[r])]
  <1>0. patch \in [Run -> PatchRow]
    BY DEF IInv, TypeOK, LedgerTypeOK
  <1>1. CASE UNCHANGED vars
    <2>1. run' = run /\ patch' = patch
      BY <1>1 DEF vars, leaseVars, ledgerVars
    <2> QED BY <2>1 DEF Promise!changeVars, ChangeOf
  <1>2. ASSUME NEW r \in Run, NEW d \in {"approved", "rejected"}, NEW p \in Config,
               QueueApproval(r, d, p)
        PROVE  Promise!Next
    <2>1. /\ run[r].approval = "none" /\ run'[r].approval = d
          /\ \A q \in Run \ {r} : run'[q] = run[q]
      BY <1>2, ApprovalRow DEF IInv
    <2>2. D[r] = "none" /\ D' = [D EXCEPT ![r] = d]
      BY <2>1
    <2>3. C' = C
      BY <1>2 DEF QueueApproval, ledgerVars, ChangeOf
    <2> QED BY <2>2, <2>3 DEF Promise!Next, Promise!Decide
  <1>3. ASSUME Next,
               ~ \E r \in Run, d \in {"approved", "rejected"}, p \in Config :
                   QueueApproval(r, d, p)
        PROVE  Promise!Next \/ UNCHANGED Promise!changeVars
    <2>1. D' = D
      BY <1>3, DecisionStep DEF RoundInv
    <2>2. CASE patch' = patch
      <3>1. C' = C
        BY <2>2 DEF ChangeOf
      <3> QED BY <2>1, <3>1 DEF Promise!changeVars
    <2>3. ASSUME NEW w \in Worker, SendPatch(w) PROVE Promise!Next
      <3> DEFINE r == lease[w].run
      <3>1. r \in Run /\ patch[r].st = "unsent" /\ run[r].approval = "approved"
        BY <2>3 DEF SendPatch, IInv, BusyHasLease, Free, NotYetSent, TypeOK, LeaseTypeOK, Lease,
                    RoundInv, ApprovalIsBound, OnApprovedBase
      <3>2. /\ patch'[r].st = "flying"
            /\ \A q \in Run \ {r} : patch'[q] = patch[q]
        BY <1>0, <2>3, <3>1 DEF SendPatch
      <3>a. ChangeOf(patch'[r]) = "open"
        BY <3>2 DEF ChangeOf
      <3>3. C' = [C EXCEPT ![r] = "open"]
        BY <3>1, <3>2, <3>a
      <3>4. D[r] = "approved" /\ C[r] = "none"
        BY <3>1 DEF ChangeOf
      <3>5. \A q \in Run : C[q] # "open"
        BY <1>0, <2>3, SendAlone DEF SendPatch, ChangeOf, PatchRow
      <3> QED BY <2>1, <3>1, <3>3, <3>4, <3>5 DEF Promise!Next, Promise!Issue
    <2>4. ASSUME NEW r \in Run, DeliverPatch(r) PROVE Promise!Next
      <3>1. /\ patch[r].st = "flying" /\ patch'[r].st \in {"applied", "refused"}
            /\ \A q \in Run \ {r} : patch'[q] = patch[q]
        BY <1>0, <2>4 DEF DeliverPatch, PatchRow
      <3>a. ChangeOf(patch'[r]) = patch'[r].st
        BY <3>1 DEF ChangeOf
      <3>2. C' = [C EXCEPT ![r] = patch'[r].st]
        BY <3>1, <3>a
      <3>3. C[r] = "open"
        BY <3>1 DEF ChangeOf
      <3> QED BY <2>1, <3>1, <3>2, <3>3 DEF Promise!Next, Promise!Resolve
    <2> QED BY <1>3, <2>2, <2>3, <2>4, PatchStep
  <1> QED BY <1>1, <1>2, <1>3

\* The refinement: whatever workers, leases, crashes and controls do, a human
\* sees at most one change per run, issued only after the run was approved and
\* while no other change of the incident is open.
THEOREM ProtocolKeepsPromise == Spec => KeepsPromise
  <1>1. Init => Promise!Init
    BY DEF Init, LeaseInit, LedgerInit, NewRow, NoPatch, ChangeOf, Promise!Init
  <1> QED BY <1>1, PromiseStep, RoundsInductive, PTL DEF Spec, KeepsPromise, Promise!Spec

-----------------------------------------------------------------------------
(* Every round is one person's request.                                     *)

Opened(c) == control[c].status \in {"started", "round"}

\* A request is spent by the round it opens, and by nothing else.
LEMMA Requests ==
  ASSUME TypeOK, Next, ~ \E c \in Request : PostRound(c) \/ ActivateStart(c),
         NEW d \in Request
  PROVE  Opened(d)' <=> Opened(d)
  <1>0. control \in [Request -> ControlRow]
    BY DEF TypeOK, ControlTypeOK
  <1>1. ASSUME NEW w \in Worker,
               \/ LeaseStep(w) \/ ExecutorStep(w) \/ Publish(w) \/ GiveUp(w) \/ TakeResult(w)
               \/ CallFails(w) \/ Crash(w)
        PROVE  control' = control
    BY <1>1 DEF LeaseStep, ExecutorStep, Publish, GiveUp, TakeResult, CallFails, Crash
  <1>2. ASSUME NEW c \in Request, ActivateSupersede(c) PROVE Opened(d)' <=> Opened(d)
    BY <1>0, <1>2 DEF ActivateSupersede, Candidate, Opened, ControlRow
  <1>3. ASSUME NEW c \in Request, NEW s \in Output \ {"none"}, ReadLatest(c, s)
        PROVE  Opened(d)' <=> Opened(d)
    <2>1. PICK r \in Run, st \in {"ended", "read"} :
            control' = [control EXCEPT ![c] = [status |-> st, parent |-> r, snap |-> s]]
      BY <1>3 DEF ReadLatest
    <2> QED BY <1>0, <1>3, <2>1 DEF ReadLatest, Opened
  <1>4. ASSUME NEW c \in Request, NEW a \in {"stop", "supplement", "investigate"}, Control(c, a)
        PROVE  Opened(d)' <=> Opened(d)
    <2>1. control[c].status \in {"read", "ended"} /\ control' = ControlRows(c, a)
      BY <1>4 DEF Control
    <2>2. CASE d = c
      <3>1. PICK st \in {"pending", "saved"} : control'[d] = [control[c] EXCEPT !.status = st]
        BY <2>1, <2>2 DEF ControlRows
      <3> QED BY <1>0, <2>1, <2>2, <3>1 DEF Opened, ControlRow
    <2>3. CASE d # c
      <3>1. \/ control'[d] = control[d]
            \/ /\ control[d].status = "pending"
               /\ control'[d] = [control[d] EXCEPT !.status = "superseded"]
        BY <2>1, <2>3 DEF ControlRows
      <3> QED BY <1>0, <3>1 DEF Opened, ControlRow
    <2> QED BY <2>2, <2>3
  <1>5. CASE control' = control
    BY <1>5 DEF Opened
  <1>6. CASE HumanStep
    BY <1>3, <1>4, <1>5, <1>6 DEF HumanStep
  <1> QED BY <1>1, <1>2, <1>5, <1>6 DEF Next, ClusterStep

LEMMA RequestsMatchRounds ==
  IInv /\ RoundHasOneRequest /\ [Next]_vars => RoundHasOneRequest'
  <1> DEFINE A == {c \in Request : control[c].status \in {"started", "round"}}
             B == {r \in Run : r > 1 /\ run[r].status # "absent"}
  <1>0. IsFiniteSet(A) /\ IsFiniteSet(B)
    <2>1. IsFiniteSet(Request) /\ IsFiniteSet(Run)
      <3>1. \A n \in Int : IsFiniteSet(1..n)
        BY FS_Interval
      <3>2. MaxControls \in Int /\ MaxRuns \in Int
        BY LeaseAssumption, ControlAssumption DEF LeaseAssumption, ControlAssumption
      <3> QED BY <3>1, <3>2, Zenon DEF Request, Run
    <2> QED BY <2>1, FS_Subset
  <1>1. CASE UNCHANGED vars
    BY <1>1 DEF RoundHasOneRequest, vars, leaseVars
  <1>2. ASSUME IInv, RoundHasOneRequest, NEW c \in Request, PostRound(c) \/ ActivateStart(c), Next
        PROVE  RoundHasOneRequest'
    <2>1. PICK p \in Run : NewRound(p)
      BY <1>2, RoundRow DEF IInv
    <2>2. c \notin A
      BY <1>2 DEF PostRound, ActivateStart, Candidate
    <2>3. A' = A \cup {c}
      <3>1. control \in [Request -> ControlRow]
        BY <1>2 DEF IInv, TypeOK, ControlTypeOK
      <3>2. PICK st \in {"started", "round"} :
              control' = [control EXCEPT ![c] = [@ EXCEPT !.status = st]]
        BY <1>2 DEF PostRound, ActivateStart
      <3> QED BY <3>1, <3>2 DEF ControlRow
    <2>4. p + 1 \in Run /\ p + 1 > 1 /\ run[p + 1].status = "absent" /\ p + 1 \notin B
      BY <2>1 DEF NewRound, IsLatest, Run
    <2>5. B' = B \cup {p + 1}
      <3>1. \A r \in Run : r # p + 1 => run'[r].status = run[r].status
        BY <2>1 DEF NewRound
      <3>2. run'[p + 1].status = "queued"
        BY <2>1 DEF NewRound, NewRow
      <3> QED BY <2>4, <3>1, <3>2
    <2>6. Cardinality(A') = Cardinality(A) + 1 /\ Cardinality(B') = Cardinality(B) + 1
      <3> HIDE DEF A, B
      <3> QED BY <1>0, <2>2, <2>3, <2>4, <2>5, FS_AddElement
    <2> QED BY <1>2, <2>6 DEF RoundHasOneRequest
  <1>3. ASSUME IInv, RoundHasOneRequest, Next,
               ~ \E c \in Request : PostRound(c) \/ ActivateStart(c)
        PROVE  RoundHasOneRequest'
    <2>1. A' = A
      BY <1>3, Requests DEF IInv, Opened
    <2>2. B' = B
      BY <1>3, RowStep DEF LiveStep, Live, IInv
    <2> QED BY <1>3, <2>1, <2>2 DEF RoundHasOneRequest
  <1> QED BY <1>1, <1>2, <1>3

\* Polls, repeated posts and overtaken requests never add a round: the rounds
\* after the first are as many as the requests that opened one.
THEOREM OneRequestPerRound == Spec => []RoundHasOneRequest
  <1>1. Init => RoundHasOneRequest
    <2> SUFFICES ASSUME Init PROVE RoundHasOneRequest
      OBVIOUS
    <2>1. {c \in Request : control[c].status \in {"started", "round"}} = {}
      BY DEF Init, ControlInit
    <2>2. {r \in Run : r > 1 /\ run[r].status # "absent"} = {}
      BY DEF Init, LeaseInit, NewRow, Run
    <2> QED BY <2>1, <2>2 DEF RoundHasOneRequest
  <1> QED BY <1>1, RequestsMatchRounds, Inductive, PTL DEF Spec
=============================================================================
