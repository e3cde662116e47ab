--------------------------- MODULE ProtocolProofs ---------------------------
(***************************************************************************)
(* Proofs about the protocol layer (RunControls) for every number of       *)
(* workers, runs, attempts, faults, foreign changes and requests.          *)
(***************************************************************************)
EXTENDS RunControls, TLAPS

USE LeaseAssumption, DriftAssumption, ControlAssumption
    DEF LeaseAssumption, DriftAssumption, ControlAssumption

-----------------------------------------------------------------------------
(* Type correctness.                                                       *)

\* The sets that row types are built from.
LEMMA RowTypes ==
  /\ NoOp \in OpRow /\ NoLease \in Lease /\ IdleEx \in Executor /\ NoPatch \in PatchRow
  /\ NoSnapshot \in Snapshot
  /\ \A n \in Nat : NewRow(n) \in RunRow
  /\ \A r \in Run : r \in Config /\ 0 \in Config /\ Foreign \in Config
  BY DEF NoOp, OpRow, OpState, Unresolved, Uncertain, NoLease, Lease, IdleEx,
         Executor, ExPc, NoPatch, PatchRow, NoSnapshot, Snapshot, Config, Foreign,
         NewRow, RunRow, RunStatus, Terminal, Approval, ErrorCode, Output, Run

\* A well-typed row stays well-typed when one column is updated.
LEMMA RunUpdate ==
  ASSUME NEW row \in RunRow
  PROVE  /\ \A x \in RunStatus : [row EXCEPT !.status = x] \in RunRow
         /\ \A x \in Worker \cup {NoWorker} : [row EXCEPT !.owner = x] \in RunRow
         /\ \A x \in Nat : [row EXCEPT !.epoch = x] \in RunRow
         /\ \A x \in Nat : [row EXCEPT !.tries = x] \in RunRow
         /\ \A x \in BOOLEAN : [row EXCEPT !.live = x] \in RunRow
         /\ \A x \in Approval : [row EXCEPT !.approval = x] \in RunRow
         /\ \A x \in Config : [row EXCEPT !.prior = x] \in RunRow
         /\ \A x \in BOOLEAN : [row EXCEPT !.stop = x] \in RunRow
         /\ \A x \in BOOLEAN : [row EXCEPT !.invalidated = x] \in RunRow
         /\ \A x \in BOOLEAN : [row EXCEPT !.started = x] \in RunRow
         /\ \A x \in ErrorCode : [row EXCEPT !.error = x] \in RunRow
         /\ \A x \in Output : [row EXCEPT !.output = x] \in RunRow
  BY DEF RunRow

LEMMA OpUpdate ==
  ASSUME NEW row \in OpRow
  PROVE  /\ \A x \in OpState : [row EXCEPT !.state = x] \in OpRow
         /\ \A x \in Nat : [row EXCEPT !.epoch = x] \in OpRow
         /\ \A x \in Snapshot : [row EXCEPT !.before = x] \in OpRow
         /\ \A x \in Snapshot : [row EXCEPT !.response = x] \in OpRow
         /\ \A x \in {"none", "succeeded", "conflict"} : [row EXCEPT !.result = x] \in OpRow
         /\ \A x \in BOOLEAN : [row EXCEPT !.confirmed = x] \in OpRow
  BY DEF OpRow

LEMMA ExUpdate ==
  ASSUME NEW row \in Executor
  PROVE  /\ \A x \in ExPc : [row EXCEPT !.pc = x] \in Executor
         /\ \A x \in Snapshot : [row EXCEPT !.seen = x] \in Executor
         /\ \A x \in OpRow : [row EXCEPT !.op = x] \in Executor
         /\ \A x \in {"none", "succeeded", "conflict", "error", "confirmed",
                      "manual", "broken"} : [row EXCEPT !.result = x] \in Executor
  BY DEF Executor

LEMMA InitTypes == Init => TypeOK
  <1>1. LeaseInit => LeaseTypeOK
    <2>1. ASSUME NEW r \in Run
          PROVE  [NewRow(0) EXCEPT !.status = "absent"] \in RunRow
      BY RowTypes DEF RunRow, RunStatus
    <2> QED BY <2>1, RowTypes DEF LeaseInit, LeaseTypeOK
  <1>2. LedgerInit => LedgerTypeOK
    BY RowTypes DEF LedgerInit, LedgerTypeOK, Snapshot, Config, Foreign
  <1>3. ControlInit => ControlTypeOK
    BY DEF ControlInit, ControlTypeOK, ControlRow, Output, Run
  <1> QED BY <1>1, <1>2, <1>3 DEF Init, TypeOK

\* Leases: the claim, its end, and what happens to it in between.
LEMMA ClaimTypes ==
  ASSUME TypeOK, NEW w \in Worker, Claim(w), UNCHANGED <<ledgerVars, control>>
  PROVE  TypeOK'
  <1>1. PICK r \in Run :
          LET tries == run[r].tries + IF Exhausted(r) THEN 0 ELSE 1 IN
          /\ run' = [run EXCEPT ![r] = [@ EXCEPT
                       !.status = "running", !.owner = w,
                       !.epoch = run[r].epoch + 1, !.tries = tries,
                       !.live = TRUE]]
          /\ lease' = [lease EXCEPT ![w] =
                       [run |-> r, epoch |-> run[r].epoch + 1,
                        approval |-> run[r].approval, prior |-> run[r].prior,
                        tries |-> tries, started |-> run[r].started,
                        error |-> run[r].error,
                        recoveryOnly |-> Exhausted(r)]]
    BY DEF Claim
  <1>2. run[r] \in RunRow /\ run[r].tries \in Nat /\ run[r].epoch \in Nat
    BY DEF TypeOK, LeaseTypeOK, RunRow
  <1>3. run[r].tries + (IF Exhausted(r) THEN 0 ELSE 1) \in Nat /\ Exhausted(r) \in BOOLEAN
    BY <1>2 DEF Exhausted
  <1>4. run' \in [Run -> RunRow]
    <2> DEFINE a == [run[r] EXCEPT !.status = "running"]
               b == [a EXCEPT !.owner = w]
               c == [b EXCEPT !.epoch = run[r].epoch + 1]
               d == [c EXCEPT !.tries = run[r].tries + IF Exhausted(r) THEN 0 ELSE 1]
               e == [d EXCEPT !.live = TRUE]
    <2>1. a \in RunRow
      BY <1>2, RunUpdate DEF RunStatus
    <2>2. b \in RunRow
      BY <2>1, RunUpdate
    <2>a. run[r].epoch + 1 \in Nat
      BY <1>2
    <2>3. c \in RunRow
      BY <2>2, <2>a, RunUpdate
    <2>4. d \in RunRow
      BY <2>3, <1>3, RunUpdate
    <2>5. e \in RunRow
      BY <2>4, RunUpdate
    <2>6. run' = [run EXCEPT ![r] = e]
      BY <1>1
    <2> QED BY <2>5, <2>6 DEF TypeOK, LeaseTypeOK
  <1>5. lease' \in [Worker -> Lease]
    BY <1>1, <1>2, <1>3 DEF TypeOK, LeaseTypeOK, RunRow, Lease
  <1>6. LeaseTypeOK'
    BY <1>4, <1>5 DEF Claim, TypeOK, LeaseTypeOK
  <1> QED BY <1>6 DEF TypeOK, LedgerTypeOK, ledgerVars, ControlTypeOK

LEMMA FinishTypes ==
  ASSUME TypeOK, NEW w \in Worker, Publish(w)
  PROVE  TypeOK'
  <1> USE RowTypes
  <1>1. PICK s \in {"succeeded", "failed", "waiting_approval", "retry_scheduled",
                    "reconciling"}, e \in ErrorCode, out \in Output : Finish(w, s, e, out)
    BY DEF Publish
  <1>2. lease[w].run \in Run
    BY <1>1 DEF Finish, Owns, TypeOK, LeaseTypeOK, Lease
  <1>a. FinishStatus(lease[w].run, s) \in RunStatus
    BY DEF FinishStatus, RunStatus, Terminal
  <1>b. run[lease[w].run] \in RunRow
    BY <1>2 DEF TypeOK, LeaseTypeOK
  <1>3. FinishRow(lease[w].run, s, e, out) \in RunRow
    <2> DEFINE r == lease[w].run
               st == FinishStatus(r, s)
               a == [run[r] EXCEPT !.status = st]
               b == [a EXCEPT !.owner = NoWorker]
               c == [b EXCEPT !.live = FALSE]
               d == [c EXCEPT !.error = IF st = s THEN e ELSE "other"]
               o == IF st \in Terminal /\ run[r].output = "none" THEN out ELSE run[r].output
    <2>1. a \in RunRow
      BY <1>a, <1>b, RunUpdate
    <2>2. b \in RunRow
      BY <2>1, RunUpdate
    <2>3. c \in RunRow
      BY <2>2, RunUpdate
    <2>4. d \in RunRow
      BY <2>3, RunUpdate DEF ErrorCode
    <2>5. o \in Output
      BY <1>b DEF RunRow
    <2>6. [d EXCEPT !.output = o] \in RunRow
      BY <2>4, <2>5, RunUpdate
    <2> QED BY <2>6 DEF FinishRow
  <1>4. LeaseTypeOK'
    BY <1>1, <1>3 DEF Finish, TypeOK, LeaseTypeOK
  <1>5. LedgerTypeOK'
    BY DEF Publish, ResetEx, TypeOK, LedgerTypeOK
  <1> QED BY <1>4, <1>5 DEF TypeOK, ControlTypeOK, Publish

\* The other steps of a lease.
LEMMA LeaseTypes ==
  ASSUME TypeOK, NEW w \in Worker,
         HeartbeatFails(w) \/ MarkCheckpointStarted(w),
         UNCHANGED <<ledgerVars, control>>
  PROVE  TypeOK'
  <1>1. CASE HeartbeatFails(w)
    BY <1>1 DEF HeartbeatFails, Fault, TypeOK, LeaseTypeOK, LedgerTypeOK, ledgerVars,
                ControlTypeOK
  <1>2. CASE MarkCheckpointStarted(w)
    <2>1. lease[w].run \in Run
      BY <1>2 DEF MarkCheckpointStarted, Owns, TypeOK, LeaseTypeOK, Lease
    <2>2. [run[lease[w].run] EXCEPT !.started = TRUE] \in RunRow
      BY <2>1, RunUpdate DEF TypeOK, LeaseTypeOK
    <2> QED BY <1>2, <2>2 DEF MarkCheckpointStarted, TypeOK, LeaseTypeOK, LedgerTypeOK,
                ledgerVars, ControlTypeOK
  <1> QED BY <1>1, <1>2

LEMMA ExpireTypes ==
  ASSUME TypeOK, NEW r \in Run, Expire(r), UNCHANGED <<ledgerVars, control>>
  PROVE  TypeOK'
  <1>1. [run[r] EXCEPT !.live = FALSE] \in RunRow
    BY RunUpdate DEF TypeOK, LeaseTypeOK
  <1> QED BY <1>1 DEF Expire, Fault, TypeOK, LeaseTypeOK, LedgerTypeOK, ledgerVars, ControlTypeOK

LEMMA EndTypes ==
  ASSUME TypeOK, NEW w \in Worker,
         GiveUp(w) \/ TakeResult(w) \/ CallFails(w) \/ Crash(w)
  PROVE  TypeOK'
  <1> USE RowTypes DEF ResetEx, Fault, TypeOK, LeaseTypeOK, LedgerTypeOK, ControlTypeOK
  <1>1. CASE GiveUp(w)
    BY <1>1 DEF GiveUp, Abandon
  <1>2. CASE TakeResult(w)
    BY <1>2 DEF TakeResult, leaseVars
  <1>3. CASE CallFails(w)
    BY <1>3 DEF CallFails
  <1>4. CASE Crash(w)
    BY <1>4 DEF Crash
  <1> QED BY <1>1, <1>2, <1>3, <1>4

\* The executor's program counter, and what it returns.
LEMMA ExecutorTypes ==
  ASSUME TypeOK, NEW w \in Worker
  PROVE  /\ \A x \in ExPc : Goto(w, x) => ex' \in [Worker -> Executor]
         /\ \A x \in {"succeeded", "conflict", "error", "confirmed", "manual", "broken"} :
              Done(w, x) => ex' \in [Worker -> Executor]
         /\ ex[w] \in Executor /\ IdleEx \in Executor
         /\ lease[w] \in Lease
  <1>1. ex[w] \in Executor /\ IdleEx \in Executor /\ lease[w] \in Lease
    BY RowTypes DEF TypeOK, LedgerTypeOK, LeaseTypeOK
  <1>2. ASSUME NEW x \in ExPc, Goto(w, x) PROVE ex' \in [Worker -> Executor]
    BY <1>1, <1>2, ExUpdate DEF Goto, TypeOK, LedgerTypeOK
  <1>3. ASSUME NEW x \in {"succeeded", "conflict", "error", "confirmed", "manual", "broken"},
               Done(w, x)
        PROVE  ex' \in [Worker -> Executor]
    <2> DEFINE a == [IdleEx EXCEPT !.pc = "done"]
    <2>1. a \in Executor
      BY <1>1, ExUpdate DEF ExPc
    <2>2. [a EXCEPT !.result = x] \in Executor
      BY <2>1, ExUpdate
    <2>3. ex' = [ex EXCEPT ![w] = [a EXCEPT !.result = x]]
      BY <1>3 DEF Done
    <2> QED BY <2>2, <2>3 DEF TypeOK, LedgerTypeOK
  <1> QED BY <1>1, <1>2, <1>3

\* Steps of execute() and reconcile() that touch only the executor.
LEMMA ReadingTypes ==
  ASSUME TypeOK, BusyHasLease, NEW w \in Worker, UNCHANGED control,
         \/ ExecuteBegin(w) \/ CheckOperation(w) \/ ReadTarget(w) \/ AssertOwned(w)
         \/ PatchAnswered(w) \/ ReconcileBegin(w) \/ Observe(w)
  PROVE  TypeOK'
  <1> USE ExecutorTypes, RowTypes
  <1>1. UNCHANGED <<leaseVars, target, drifts, patch, control>>
    BY DEF ExecuteBegin, CheckOperation, ReadTarget, AssertOwned, PatchAnswered,
           ReconcileBegin, Observe
  <1>2. ex' \in [Worker -> Executor]
    <2>1. CASE ExecuteBegin(w)
      BY <2>1, ExUpdate DEF ExecuteBegin, ExPc, Deciding, TypeOK, LedgerTypeOK
    <2>2. CASE CheckOperation(w)
      <3>1. CASE Goto(w, "read")
        BY <3>1 DEF ExPc, Deciding
      <3>2. CASE op[lease[w].run].result # "none" /\ Done(w, op[lease[w].run].result)
        <4>1. lease[w].run \in Run
          BY <2>2 DEF CheckOperation, BusyHasLease, Free, Lease
        <4>2. op[lease[w].run].result \in {"succeeded", "conflict"}
          BY <3>2, <4>1 DEF TypeOK, LeaseTypeOK, OpRow
        <4> QED BY <4>2, <3>2
      <3> QED BY <2>2, <3>1, <3>2 DEF CheckOperation
    <2>3. CASE ReadTarget(w)
      BY <2>3, ExUpdate DEF ReadTarget, ExPc, Deciding, TypeOK, LedgerTypeOK
    <2>4. CASE AssertOwned(w)
      BY <2>4 DEF AssertOwned, ExPc
    <2>5. CASE PatchAnswered(w)
      <3> DEFINE p == patch[lease[w].run]
                 pc == IF p.response.cfg = lease[w].run THEN "ok" ELSE "mismatch"
                 a == [ex[w] EXCEPT !.pc = pc]
      <3>1. CASE Goto(w, "refused") \/ Goto(w, "unknown")
        BY <3>1 DEF ExPc, Recording
      <3>2. CASE ex' = [ex EXCEPT ![w] = [@ EXCEPT !.pc = pc, !.seen = p.response]]
        <4>1. lease[w].run \in Run
          BY <2>5 DEF PatchAnswered, BusyHasLease, Free, Lease
        <4>2. p.response \in Snapshot
          BY <4>1 DEF TypeOK, LedgerTypeOK, PatchRow
        <4>3. a \in Executor
          BY ExUpdate DEF ExPc, Recording
        <4>4. [a EXCEPT !.seen = p.response] \in Executor
          BY <4>2, <4>3, ExUpdate
        <4> QED BY <3>2, <4>4 DEF TypeOK, LedgerTypeOK
      <3> QED BY <2>5, <3>1, <3>2 DEF PatchAnswered
    <2>6. CASE ReconcileBegin(w)
      <3> DEFINE a == [IdleEx EXCEPT !.pc = "observe"]
      <3>1. op[lease[w].run] \in OpRow
        BY <2>6 DEF ReconcileBegin, Owns, TypeOK, LeaseTypeOK, Lease
      <3>2. a \in Executor
        BY ExUpdate DEF ExPc, Reconciling
      <3>3. [a EXCEPT !.op = op[lease[w].run]] \in Executor
        BY <3>1, <3>2, ExUpdate
      <3> QED BY <2>6, <3>3 DEF ReconcileBegin, TypeOK, LedgerTypeOK
    <2>7. CASE Observe(w)
      <3>1. PICK s \in {target, NoSnapshot} :
              ex' = [ex EXCEPT ![w] = [@ EXCEPT !.pc = "settle", !.seen = s]]
        BY <2>7 DEF Observe
      <3> DEFINE a == [ex[w] EXCEPT !.pc = "settle"]
      <3>2. a \in Executor
        BY ExUpdate DEF ExPc, Reconciling
      <3>3. [a EXCEPT !.seen = s] \in Executor
        BY <3>1, <3>2, ExUpdate DEF TypeOK, LedgerTypeOK
      <3> QED BY <3>1, <3>3 DEF TypeOK, LedgerTypeOK
    <2> QED BY <2>1, <2>2, <2>3, <2>4, <2>5, <2>6, <2>7
  <1> QED BY <1>1, <1>2 DEF TypeOK, LeaseTypeOK, LedgerTypeOK, ControlTypeOK, leaseVars

\* The journal: what each transaction writes is a row.
LEMMA PrepareTypes ==
  ASSUME TypeOK, NEW w \in Worker, Prepare(w)
  PROVE  PreparedRow(w) \in OpRow /\ lease[w].run \in Run
  <1> USE ExecutorTypes, RowTypes
  <1>1. lease[w].run \in Run /\ op[lease[w].run] \in OpRow
    BY DEF Prepare, Owns, TypeOK, LeaseTypeOK, Lease
  <1> DEFINE a == [NoOp EXCEPT !.state = "prepared"]
             b == [a EXCEPT !.epoch = lease[w].epoch]
  <1>2. a \in OpRow
    BY OpUpdate DEF OpState, Unresolved
  <1>3. b \in OpRow
    BY <1>2, OpUpdate DEF Lease
  <1>4. [b EXCEPT !.before = ex[w].seen] \in OpRow
    BY <1>3, OpUpdate DEF Executor
  <1> QED BY <1>1, <1>4 DEF PreparedRow

LEMMA RecordTypes ==
  ASSUME NEW o \in OpRow, NEW pc \in Recording, NEW seen \in Snapshot
  PROVE  RecordedRow(o, pc, seen) \in OpRow
  <1> DEFINE a == [o EXCEPT !.state = Outcome(pc)]
             b == [a EXCEPT !.response = IF pc \in {"ok", "mismatch"} THEN seen
                                         ELSE o.response]
             c == [b EXCEPT !.result = IF Returned(pc) # "error" THEN Returned(pc)
                                       ELSE o.result]
  <1>1. Outcome(pc) \in OpState /\ Returned(pc) \in {"succeeded", "conflict", "error"}
    BY DEF Outcome, Returned, OpState, Unresolved, Uncertain, Recording
  <1>2. o.response \in Snapshot /\ o.result \in {"none", "succeeded", "conflict"}
    BY DEF OpRow
  <1>3. a \in OpRow
    BY <1>1, OpUpdate
  <1>4. b \in OpRow
    BY <1>2, <1>3, OpUpdate
  <1>5. c \in OpRow
    BY <1>1, <1>2, <1>4, OpUpdate
  <1>6. [c EXCEPT !.confirmed = (pc = "ok")] \in OpRow
    BY <1>5, OpUpdate
  <1> QED BY <1>6 DEF RecordedRow

LEMMA WritingTypes ==
  ASSUME TypeOK, BusyHasLease, NEW w \in Worker, UNCHANGED control,
         \/ Prepare(w) \/ Dispatch(w) \/ SendPatch(w) \/ RecordOutcome(w)
         \/ ExecuteRaises(w) \/ Settle(w) \/ ReconcileRaises(w)
  PROVE  TypeOK'
  <1> USE ExecutorTypes, RowTypes
  <1>1. CASE Prepare(w)
    <2>1. op' \in [Run -> OpRow]
      BY <1>1, PrepareTypes DEF Prepare, TypeOK, LeaseTypeOK
    <2>2. ex' \in [Worker -> Executor]
      BY <1>1 DEF Prepare, ExPc, Deciding, Recording
    <2> QED BY <1>1, <2>1, <2>2 DEF Prepare, TypeOK, LeaseTypeOK, LedgerTypeOK, ControlTypeOK
  <1>2. CASE Dispatch(w)
    <2> DEFINE a == [op[lease[w].run] EXCEPT !.state = "dispatching"]
    <2>1. op[lease[w].run] \in OpRow
      BY <1>2 DEF Dispatch, Owns, TypeOK, LeaseTypeOK, Lease
    <2>2. a \in OpRow
      BY <2>1, OpUpdate DEF OpState, Unresolved, Uncertain
    <2>3. [a EXCEPT !.epoch = lease[w].epoch] \in OpRow
      BY <2>2, OpUpdate DEF Lease
    <2>4. op' \in [Run -> OpRow]
      BY <1>2, <2>3 DEF Dispatch, TypeOK, LeaseTypeOK
    <2>5. ex' \in [Worker -> Executor]
      BY <1>2 DEF Dispatch, ExPc, Deciding
    <2> QED BY <1>2, <2>4, <2>5 DEF Dispatch, TypeOK, LeaseTypeOK, LedgerTypeOK, ControlTypeOK
  <1>3. CASE SendPatch(w)
    <2>1. lease[w].run \in Run
      BY <1>3 DEF SendPatch, BusyHasLease, Free, Lease
    <2>2. patch' \in [Run -> PatchRow]
      BY <1>3, <2>1 DEF SendPatch, TypeOK, LedgerTypeOK, PatchRow
    <2>3. ex' \in [Worker -> Executor]
      BY <1>3 DEF SendPatch, ExPc
    <2> QED BY <1>3, <2>2, <2>3 DEF SendPatch, TypeOK, LeaseTypeOK, LedgerTypeOK,
                                  ControlTypeOK, leaseVars
  <1>4. CASE RecordOutcome(w)
    <2>1. op[lease[w].run] \in OpRow
      BY <1>4 DEF RecordOutcome, Owns, TypeOK, LeaseTypeOK, Lease
    <2>2. ex[w].pc \in Recording /\ ex[w].seen \in Snapshot
      BY <1>4 DEF RecordOutcome, Executor
    <2>3. RecordedRow(op[lease[w].run], ex[w].pc, ex[w].seen) \in OpRow
      BY <2>1, <2>2, RecordTypes
    <2>4. op' \in [Run -> OpRow]
      BY <1>4, <2>3 DEF RecordOutcome, TypeOK, LeaseTypeOK
    <2>5. Returned(ex[w].pc) \in {"succeeded", "conflict", "error"}
      BY <2>2 DEF Returned, Recording
    <2>6. ex' \in [Worker -> Executor] /\ faults' \in 0..MaxFaults
      BY <1>4, <2>5 DEF RecordOutcome, Fault, TypeOK, LeaseTypeOK
    <2> QED BY <1>4, <2>4, <2>6 DEF RecordOutcome, TypeOK, LeaseTypeOK, LedgerTypeOK,
                                  ControlTypeOK
  <1>5. CASE ExecuteRaises(w) \/ ReconcileRaises(w)
    <2>1. ex' \in [Worker -> Executor] /\ faults' \in 0..MaxFaults
      BY <1>5 DEF ExecuteRaises, ReconcileRaises, Fault, TypeOK, LeaseTypeOK
    <2> QED BY <1>5, <2>1 DEF ExecuteRaises, ReconcileRaises, TypeOK, LeaseTypeOK,
                            LedgerTypeOK, ControlTypeOK
  <1>6. CASE Settle(w)
    <2> DEFINE ok == Attributable(ex[w].op, ex[w].seen, lease[w].run)
               to == IF ok THEN "reconciled" ELSE "manual_required"
               a == [op[lease[w].run] EXCEPT !.state = to]
    <2>1. op[lease[w].run] \in OpRow
      BY <1>6 DEF Settle, Owns, TypeOK, LeaseTypeOK, Lease
    <2>2. a \in OpRow
      BY <2>1, OpUpdate DEF OpState, Unresolved, Uncertain
    <2>3. ok \in BOOLEAN
      BY DEF Attributable, Executor, OpRow
    <2>4. [a EXCEPT !.confirmed = ok] \in OpRow
      BY <2>2, <2>3, OpUpdate
    <2>5. op' \in [Run -> OpRow]
      BY <1>6, <2>4 DEF Settle, TypeOK, LeaseTypeOK
    <2>6. ex' \in [Worker -> Executor]
      BY <1>6 DEF Settle
    <2> QED BY <1>6, <2>5, <2>6 DEF Settle, TypeOK, LeaseTypeOK, LedgerTypeOK, ControlTypeOK
  <1> QED BY <1>1, <1>2, <1>3, <1>4, <1>5, <1>6

\* The cluster.
LEMMA ClusterTypes ==
  ASSUME TypeOK, ClusterStep
  PROVE  TypeOK'
  <1> USE RowTypes
  <1>1. CASE Drift
    <2>1. target' \in Snapshot
      BY <1>1 DEF Drift, TypeOK, LedgerTypeOK, Snapshot, Config, Foreign
    <2> QED BY <1>1, <2>1 DEF ClusterStep, Drift, TypeOK, LeaseTypeOK, LedgerTypeOK,
                            ControlTypeOK, leaseVars
  <1>2. ASSUME NEW r \in Run, DeliverPatch(r), UNCHANGED control PROVE TypeOK'
    <2>1. patch[r] \in PatchRow /\ target.rv + 1 \in Nat
      BY DEF TypeOK, LedgerTypeOK, Snapshot
    <2>2. target' \in Snapshot /\ patch' \in [Run -> PatchRow]
      <3>1. CASE patch' = [patch EXCEPT ![r] = [@ EXCEPT !.st = "refused"]] /\ UNCHANGED target
        BY <2>1, <3>1 DEF TypeOK, LedgerTypeOK, PatchRow
      <3>2. ASSUME NEW c \in {r, Foreign},
                   target' = [rv |-> target.rv + 1, cfg |-> c],
                   patch' = [patch EXCEPT ![r] = [@ EXCEPT !.st = "applied",
                               !.response = [rv |-> target.rv + 1, cfg |-> c]]]
            PROVE  target' \in Snapshot /\ patch' \in [Run -> PatchRow]
        <4>1. [rv |-> target.rv + 1, cfg |-> c] \in Snapshot
          BY <2>1 DEF Snapshot, Config, Foreign, Run
        <4>2. [patch[r] EXCEPT !.st = "applied",
                 !.response = [rv |-> target.rv + 1, cfg |-> c]] \in PatchRow
          BY <2>1, <4>1 DEF PatchRow
        <4> QED BY <3>2, <4>1, <4>2 DEF TypeOK, LedgerTypeOK
      <3> QED BY <1>2, <3>1, <3>2 DEF DeliverPatch
    <2> QED BY <1>2, <2>2 DEF DeliverPatch, TypeOK, LeaseTypeOK, LedgerTypeOK, ControlTypeOK,
                            leaseVars
  <1> QED BY <1>1, <1>2 DEF ClusterStep

\* People: approvals, controls and rounds.
LEMMA ApprovalTypes ==
  ASSUME TypeOK, NEW r \in Run, NEW d \in {"approved", "rejected"}, NEW p \in Config,
         QueueApproval(r, d, p), UNCHANGED control
  PROVE  TypeOK'
  <1> DEFINE a == [run[r] EXCEPT !.approval = d]
             b == [a EXCEPT !.prior = p]
             c == [b EXCEPT !.status = "queued"]
             e == [c EXCEPT !.tries = 0]
  <1>1. a \in RunRow
    BY RunUpdate DEF TypeOK, LeaseTypeOK, Approval
  <1>2. b \in RunRow
    BY <1>1, RunUpdate
  <1>3. c \in RunRow
    BY <1>2, RunUpdate DEF RunStatus
  <1>4. e \in RunRow
    BY <1>3, RunUpdate
  <1>5. run' = [run EXCEPT ![r] = e]
    BY DEF QueueApproval
  <1> QED BY <1>4, <1>5 DEF QueueApproval, TypeOK, LeaseTypeOK, LedgerTypeOK, ControlTypeOK,
                          ledgerVars

LEMMA ControlTypes ==
  ASSUME TypeOK, NEW c \in Request, NEW a \in {"stop", "supplement", "investigate"},
         Control(c, a)
  PROVE  TypeOK'
  <1> DEFINE r == control[c].parent
             snap == control[c].snap
  <1>1. control[c] \in ControlRow /\ r \in Run /\ snap \in Output
    BY DEF TypeOK, ControlTypeOK, ControlRow
  <1>2. run[r] \in RunRow /\ op[r] \in OpRow
    BY <1>1 DEF TypeOK, LeaseTypeOK
  <1>3. ControlledRun(r, snap) \in RunRow
    <2> DEFINE a1 == [run[r] EXCEPT !.stop = TRUE]
               a2 == [a1 EXCEPT !.invalidated = TRUE]
               a3 == [a2 EXCEPT !.status = "cancelled"]
               a4 == [a3 EXCEPT !.owner = NoWorker]
               a5 == [a4 EXCEPT !.live = FALSE]
               a6 == [a5 EXCEPT !.error = "other"]
               out == IF run[r].output = "none" THEN snap ELSE run[r].output
    <2>1. a1 \in RunRow
      BY <1>2, RunUpdate
    <2>2. a2 \in RunRow
      BY <2>1, RunUpdate
    <2>3. a3 \in RunRow
      BY <2>2, RunUpdate DEF RunStatus, Terminal
    <2>4. a4 \in RunRow
      BY <2>3, RunUpdate
    <2>5. a5 \in RunRow
      BY <2>4, RunUpdate
    <2>6. a6 \in RunRow
      BY <2>5, RunUpdate DEF ErrorCode
    <2>7. out \in Output
      BY <1>1, <1>2 DEF RunRow
    <2>8. [a6 EXCEPT !.output = out] \in RunRow
      BY <2>6, <2>7, RunUpdate
    <2> QED BY <1>2, <2>2, <2>8 DEF ControlledRun
  <1>4. ControlledOp(r) \in OpRow
    BY <1>2, OpUpdate DEF ControlledOp, OpState
  <1>5. ControlRows(c, a) \in [Request -> ControlRow]
    <2>1. \A d \in Request : control[d] \in ControlRow
      BY DEF TypeOK, ControlTypeOK
    <2> QED BY <2>1 DEF ControlRows, ControlRow
  <1>6. run' \in [Run -> RunRow] /\ op' \in [Run -> OpRow]
    BY <1>3, <1>4 DEF Control, TypeOK, LeaseTypeOK
  <1> QED BY <1>5, <1>6 DEF Control, TypeOK, LeaseTypeOK, LedgerTypeOK, ControlTypeOK, ledgerVars

LEMMA RoundTypes ==
  ASSUME TypeOK, NEW r \in Run, NEW snap \in Output, AcceptRound(r, snap)
  PROVE  LeaseTypeOK' /\ LedgerTypeOK'
  <1> DEFINE out == IF run[r].output = "none" THEN snap ELSE run[r].output
             a == [run EXCEPT ![r] = [run[r] EXCEPT !.output = out]]
  <1>1. run[r] \in RunRow /\ out \in Output
    BY DEF TypeOK, LeaseTypeOK, RunRow
  <1>2. [run[r] EXCEPT !.output = out] \in RunRow
    BY <1>1, RunUpdate
  <1>3. a \in [Run -> RunRow]
    BY <1>2 DEF TypeOK, LeaseTypeOK
  <1>4. NewRow(revision) \in RunRow
    BY RowTypes DEF TypeOK, LeaseTypeOK
  <1>5. run' = [a EXCEPT ![r + 1] = NewRow(revision)]
    BY DEF AcceptRound
  <1>6. run' \in [Run -> RunRow]
    BY <1>3, <1>4, <1>5
  <1> QED BY <1>6 DEF AcceptRound, TypeOK, LeaseTypeOK, LedgerTypeOK, ledgerVars

LEMMA RequestTypes ==
  ASSUME TypeOK, NEW c \in Request,
         \/ PostRound(c) \/ ActivateStart(c) \/ ActivateSupersede(c)
         \/ \E s \in Output \ {"none"} : ReadLatest(c, s)
  PROVE  TypeOK'
  <1>1. control[c] \in ControlRow /\ control[c].parent \in Run /\ control[c].snap \in Output
    BY DEF TypeOK, ControlTypeOK, ControlRow
  <1>2. Previous(c) \in Output
    BY <1>1 DEF Previous, TypeOK, LeaseTypeOK, RunRow
  <1>3. CASE PostRound(c) \/ ActivateStart(c)
    <2>1. LeaseTypeOK' /\ LedgerTypeOK'
      BY <1>1, <1>2, <1>3, RoundTypes DEF PostRound, ActivateStart
    <2> QED BY <1>1, <1>3, <2>1 DEF PostRound, ActivateStart, TypeOK, ControlTypeOK, ControlRow
  <1>4. CASE ActivateSupersede(c)
    BY <1>1, <1>4 DEF ActivateSupersede, TypeOK, ControlTypeOK, ControlRow, LeaseTypeOK,
                      LedgerTypeOK, leaseVars, ledgerVars
  <1>5. CASE \E s \in Output \ {"none"} : ReadLatest(c, s)
    BY <1>1, <1>5 DEF ReadLatest, TypeOK, ControlTypeOK, ControlRow, LeaseTypeOK,
                      LedgerTypeOK, leaseVars, ledgerVars
  <1> QED BY <1>3, <1>4, <1>5

LEMMA NextTypes ==
  ASSUME TypeOK, BusyHasLease, Next
  PROVE  TypeOK'
  <1>1. ASSUME NEW w \in Worker, LeaseStep(w) PROVE TypeOK'
    BY <1>1, ClaimTypes, LeaseTypes DEF LeaseStep
  <1>2. ASSUME NEW w \in Worker, ExecutorStep(w) PROVE TypeOK'
    BY <1>2, ReadingTypes, WritingTypes DEF ExecutorStep
  <1>3. ASSUME NEW w \in Worker,
               Publish(w) \/ GiveUp(w) \/ TakeResult(w) \/ CallFails(w) \/ Crash(w)
        PROVE  TypeOK'
    BY <1>3, FinishTypes, EndTypes
  <1>4. ASSUME NEW r \in Run, Expire(r), UNCHANGED <<ledgerVars, control>> PROVE TypeOK'
    BY <1>4, ExpireTypes
  <1>5. ASSUME NEW c \in Request, ActivateSupersede(c) \/ ActivateStart(c) PROVE TypeOK'
    BY <1>5, RequestTypes
  <1>6. CASE ClusterStep
    BY <1>6, ClusterTypes
  <1>7. CASE HumanStep
    BY <1>7, ApprovalTypes, ControlTypes, RequestTypes DEF HumanStep
  <1> QED BY <1>1, <1>2, <1>3, <1>4, <1>5, <1>6, <1>7 DEF Next

-----------------------------------------------------------------------------
(* The write properties.  Every step is one of a few kinds: one that leaves *)
(* journal, requests and busy executors alone (Quiet), one that only moves *)
(* an executor (Reading), and the seven that write.                        *)

LEMMA ExecutorMoves ==
  ASSUME TypeOK, NEW w \in Worker
  PROVE  /\ \A x : Goto(w, x) =>
              /\ ex'[w].pc = x /\ ex'[w].seen = ex[w].seen
              /\ \A v \in Worker \ {w} : ex'[v] = ex[v]
         /\ \A x : Done(w, x) =>
              /\ ex'[w].pc = "done"
              /\ \A v \in Worker \ {w} : ex'[v] = ex[v]
         /\ ResetEx(w) =>
              /\ ex'[w].pc = "idle"
              /\ \A v \in Worker \ {w} : ex'[v] = ex[v]
  <1> USE DEF TypeOK, LedgerTypeOK
  <1>1. ASSUME NEW x, Goto(w, x)
        PROVE  /\ ex'[w].pc = x /\ ex'[w].seen = ex[w].seen
               /\ \A v \in Worker \ {w} : ex'[v] = ex[v]
    <2>1. ex'[w] = [ex[w] EXCEPT !.pc = x] /\ \A v \in Worker \ {w} : ex'[v] = ex[v]
      BY <1>1 DEF Goto
    <2> QED BY <2>1 DEF Executor
  <1>2. ASSUME NEW x, Done(w, x)
        PROVE  ex'[w].pc = "done" /\ \A v \in Worker \ {w} : ex'[v] = ex[v]
    <2>1. /\ ex'[w] = [IdleEx EXCEPT !.pc = "done", !.result = x]
          /\ \A v \in Worker \ {w} : ex'[v] = ex[v]
      BY <1>2 DEF Done
    <2> QED BY <2>1 DEF IdleEx
  <1>3. ASSUME ResetEx(w)
        PROVE  ex'[w].pc = "idle" /\ \A v \in Worker \ {w} : ex'[v] = ex[v]
    BY <1>3 DEF ResetEx, IdleEx
  <1> QED BY <1>1, <1>2, <1>3

LEMMA Quiet ==
  ASSUME IInv, TypeOK', UNCHANGED <<op, patch>>,
         \A w \in Worker : \/ Free(w)'
                           \/ /\ ex'[w] = ex[w] /\ lease'[w] = lease[w]
                              /\ Owns(w)' => Owns(w)
  PROVE  IInv'
  <1> USE DEF IInv, Free
  <1>1. BusyHasLease'
    BY DEF BusyHasLease
  <1>2. OneDispatcher'
    BY DEF OneDispatcher, PostDispatch
  <1>3. NotYetSent'
    BY DEF NotYetSent
  <1>4. OwnerIsCurrent'
    BY DEF OwnerIsCurrent
  <1>5. AnswerIsTrue'
    BY DEF AnswerIsTrue
  <1>6. AtMostOnePatch' /\ ConfirmedWasApplied'
    BY DEF AtMostOnePatch, ConfirmedWasApplied
  <1>7. RejectedNeverWrites'
    BY DEF RejectedNeverWrites, AboutToSend
  <1> QED BY <1>1, <1>2, <1>3, <1>4, <1>5, <1>6, <1>7

\* Which steps take a lease away is what the fence is about: whoever owns its
\* run after a step that touches no executor owned it before.
LEMMA ClaimQuiet ==
  ASSUME IInv, TypeOK', NEW w \in Worker, Claim(w), UNCHANGED <<ledgerVars, control>>
  PROVE  IInv'
  <1>1. PICK r \in Run :
          /\ run' = [run EXCEPT ![r] = [@ EXCEPT
                       !.status = "running", !.owner = w, !.epoch = run[r].epoch + 1,
                       !.tries = run[r].tries + IF Exhausted(r) THEN 0 ELSE 1,
                       !.live = TRUE]]
          /\ \A v \in Worker \ {w} : lease'[v] = lease[v]
    BY DEF Claim, IInv, TypeOK, LeaseTypeOK
  <1>2. \A q \in Run \ {r} : run'[q] = run[q]
    BY <1>1 DEF IInv, TypeOK, LeaseTypeOK
  <1>3. run'[r].owner = w
    BY <1>1 DEF IInv, TypeOK, LeaseTypeOK, RunRow
  <1>4. Free(w)'
    BY DEF Claim, IInv, BusyHasLease, Free, ledgerVars
  <1>5. ASSUME NEW v \in Worker \ {w}, Owns(v)' PROVE Owns(v)
    <2>1. lease[v].run \in Run \ {r}
      BY <1>1, <1>3, <1>5 DEF Owns, IInv, TypeOK, LeaseTypeOK, Lease
    <2> QED BY <1>1, <1>2, <1>5, <2>1 DEF Owns
  <1>6. UNCHANGED <<op, patch, ex>>
    BY DEF Claim, ledgerVars
  <1> QED BY <1>1, <1>4, <1>5, <1>6, Quiet

LEMMA ExpireQuiet ==
  ASSUME IInv, TypeOK', NEW r \in Run, Expire(r), UNCHANGED <<ledgerVars, control>>
  PROVE  IInv'
  <1>1. ASSUME NEW v \in Worker, Owns(v)' PROVE Owns(v)
    BY <1>1 DEF Expire, Owns, IInv, TypeOK, LeaseTypeOK, RunRow, Lease
  <1>2. UNCHANGED <<op, patch, ex, lease>>
    BY DEF Expire, ledgerVars
  <1> QED BY <1>1, <1>2, Quiet

LEMMA LeaseQuiet ==
  ASSUME IInv, TypeOK', NEW w \in Worker,
         HeartbeatFails(w) \/ MarkCheckpointStarted(w),
         UNCHANGED <<ledgerVars, control>>
  PROVE  IInv'
  <1>1. ASSUME NEW v \in Worker, Owns(v)' PROVE Owns(v)
    BY <1>1 DEF HeartbeatFails, MarkCheckpointStarted, Owns, IInv, TypeOK, LeaseTypeOK, RunRow,
                Lease
  <1>2. UNCHANGED <<op, patch, ex, lease>>
    BY DEF HeartbeatFails, MarkCheckpointStarted, ledgerVars
  <1> QED BY <1>1, <1>2, Quiet

LEMMA PublishQuiet ==
  ASSUME IInv, TypeOK', NEW w \in Worker, Publish(w)
  PROVE  IInv'
  <1>1. PICK s \in {"succeeded", "failed", "waiting_approval", "retry_scheduled",
                    "reconciling"}, e \in ErrorCode, out \in Output : Finish(w, s, e, out)
    BY DEF Publish
  <1> DEFINE r == lease[w].run
  <1>2. r \in Run /\ run[r].owner = w
    BY <1>1 DEF Finish, Owns, IInv, TypeOK, LeaseTypeOK, Lease
  <1>3. \A q \in Run \ {r} : run'[q] = run[q]
    BY <1>1, <1>2 DEF Finish, IInv, TypeOK, LeaseTypeOK
  <1>4. run'[r].owner = NoWorker
    BY <1>1, <1>2 DEF Finish, FinishRow, IInv, TypeOK, LeaseTypeOK, RunRow
  <1>5. \A v \in Worker \ {w} : lease'[v] = lease[v] /\ ex'[v] = ex[v]
    BY <1>1, ExecutorMoves DEF Finish, Publish, IInv, TypeOK, LeaseTypeOK
  <1>6. ASSUME NEW v \in Worker \ {w}, Owns(v)' PROVE Owns(v)
    <2>1. lease[v].run \in Run \ {r}
      BY <1>4, <1>5, <1>6 DEF Owns, IInv, TypeOK, LeaseTypeOK, Lease
    <2> QED BY <1>3, <1>5, <1>6, <2>1 DEF Owns
  <1>7. Free(w)' /\ UNCHANGED <<op, patch>>
    BY <1>1, ExecutorMoves DEF Publish, Finish, Free, IInv
  <1> QED BY <1>5, <1>6, <1>7, Quiet

LEMMA EndQuiet ==
  ASSUME IInv, TypeOK', NEW w \in Worker,
         GiveUp(w) \/ TakeResult(w) \/ CallFails(w) \/ Crash(w)
  PROVE  IInv'
  <1>1. UNCHANGED <<run, op, patch>>
    BY DEF GiveUp, TakeResult, CallFails, Crash, Abandon, leaseVars
  <1>2. \A v \in Worker \ {w} : lease'[v] = lease[v] /\ ex'[v] = ex[v]
    BY ExecutorMoves DEF GiveUp, TakeResult, CallFails, Crash, Abandon, leaseVars, IInv, TypeOK,
                         LeaseTypeOK
  <1>3. Free(w)' \/ (ex' = ex /\ lease' = lease)
    BY ExecutorMoves DEF GiveUp, TakeResult, CallFails, Crash, Free, IInv
  <1>4. ASSUME NEW v \in Worker, lease'[v] = lease[v], Owns(v)' PROVE Owns(v)
    BY <1>1, <1>4 DEF Owns
  <1> QED BY <1>1, <1>2, <1>3, <1>4, Quiet

\* Approvals, reads and new rounds touch only runs that no worker owns.
LEMMA ApprovalQuiet ==
  ASSUME IInv, TypeOK', NEW r \in Run, NEW d \in {"approved", "rejected"}, NEW p \in Config,
         QueueApproval(r, d, p), UNCHANGED control
  PROVE  IInv'
  <1>1. run'[r].status = "queued" /\ \A q \in Run \ {r} : run'[q] = run[q]
    <2>1. run'[r] = [run[r] EXCEPT !.approval = d, !.prior = p, !.status = "queued",
                                   !.tries = 0]
          /\ \A q \in Run \ {r} : run'[q] = run[q]
      BY DEF QueueApproval, IInv, TypeOK, LeaseTypeOK
    <2> QED BY <2>1 DEF IInv, TypeOK, LeaseTypeOK, RunRow
  <1>2. UNCHANGED <<op, patch, ex, lease>>
    BY DEF QueueApproval, ledgerVars
  <1>3. ASSUME NEW v \in Worker, Owns(v)' PROVE Owns(v)
    BY <1>1, <1>2, <1>3 DEF Owns, IInv, TypeOK, LeaseTypeOK, Lease
  <1> QED BY <1>2, <1>3, Quiet

LEMMA RequestQuiet ==
  ASSUME IInv, TypeOK', NEW c \in Request,
         \/ PostRound(c) \/ ActivateStart(c) \/ ActivateSupersede(c)
         \/ \E s \in Output \ {"none"} : ReadLatest(c, s)
  PROVE  IInv'
  <1>1. control[c].parent \in Run
    BY DEF IInv, TypeOK, ControlTypeOK, ControlRow
  <1>2. CASE PostRound(c) \/ ActivateStart(c)
    <2> DEFINE r == control[c].parent
    <2>1. PICK snap : AcceptRound(r, snap)
      BY <1>2 DEF PostRound, ActivateStart
    <2>2. run[r].status # "running"
      BY <2>1 DEF AcceptRound, RoundAllowed, Terminal
    <2>3. /\ run'[r].status = run[r].status
          /\ run'[r + 1] = NewRow(revision)
          /\ \A q \in Run \ {r, r + 1} : run'[q] = run[q]
      <3> DEFINE out == IF run[r].output = "none" THEN snap ELSE run[r].output
      <3>1. r \in Int /\ r + 1 \in Run /\ r + 1 # r
        BY <1>1, <2>1 DEF AcceptRound, Run
      <3>2. /\ run'[r] = [run[r] EXCEPT !.output = out]
            /\ run'[r + 1] = NewRow(revision)
            /\ \A q \in Run \ {r, r + 1} : run'[q] = run[q]
        BY <1>1, <2>1, <3>1 DEF AcceptRound, IInv, TypeOK, LeaseTypeOK
      <3>3. run'[r].status = run[r].status
        BY <1>1, <3>2 DEF IInv, TypeOK, LeaseTypeOK, RunRow
      <3> QED BY <3>2, <3>3
    <2>4. UNCHANGED <<op, patch, ex, lease>>
      BY <2>1 DEF AcceptRound, ledgerVars
    <2>5. ASSUME NEW v \in Worker, Owns(v)' PROVE Owns(v)
      <3>1. lease[v].run \in Run /\ run'[lease[v].run].status = "running"
        BY <2>4, <2>5 DEF Owns, IInv, TypeOK, LeaseTypeOK, Lease
      <3>2. lease[v].run \notin {r, r + 1}
        BY <2>2, <2>3, <3>1 DEF NewRow
      <3> QED BY <2>3, <2>4, <2>5, <3>1, <3>2 DEF Owns
    <2> QED BY <2>4, <2>5, Quiet
  <1>3. CASE ActivateSupersede(c) \/ \E s \in Output \ {"none"} : ReadLatest(c, s)
    <2>1. UNCHANGED <<run, op, patch, ex, lease>>
      BY <1>3 DEF ActivateSupersede, ReadLatest, leaseVars, ledgerVars
    <2> QED BY <2>1, Quiet DEF Owns
  <1> QED BY <1>2, <1>3

\* Steps that move one executor and change neither journal nor requests.
LEMMA Reading ==
  ASSUME IInv, TypeOK', NEW w \in Worker, UNCHANGED <<run, op, lease, patch>>,
         lease[w].run \in Run,
         \A v \in Worker \ {w} : ex'[v] = ex[v],
         LET o == op[lease[w].run]
             p == patch[lease[w].run]
         IN  \/ ex'[w].pc \in {"check", "observe", "settle", "done"}
             \/ ex'[w].pc = "read" /\ o.state \in Before
             \/ ex[w].pc = "read" /\ ex'[w].pc = "prepare"
             \/ ex[w].pc = "own" /\ ex'[w].pc = "send"
             \/ /\ ex[w].pc = "await"
                /\ \/ ex'[w].pc \in {"mismatch", "unknown"}
                   \/ ex'[w].pc = "refused" /\ p.st = "refused"
                   \/ /\ ex'[w].pc = "ok" /\ p.st = "applied"
                      /\ ex'[w].seen = p.response /\ p.response.cfg = lease[w].run
  PROVE  IInv'
  <1> USE DEF IInv
  <1>1. BusyHasLease'
    BY DEF BusyHasLease, Free, Run
  <1>2. OneDispatcher'
    BY DEF OneDispatcher, PostDispatch
  <1>3. NotYetSent'
    BY DEF NotYetSent
  <1>4. OwnerIsCurrent'
    <2>1. \A v \in Worker : Owns(v)' => Owns(v)
      BY DEF Owns
    <2> QED BY <2>1 DEF OwnerIsCurrent
  <1>5. AnswerIsTrue'
    BY DEF AnswerIsTrue
  <1>6. AtMostOnePatch' /\ ConfirmedWasApplied'
    BY DEF AtMostOnePatch, ConfirmedWasApplied
  <1>7. RejectedNeverWrites'
    BY DEF RejectedNeverWrites, AboutToSend
  <1> QED BY <1>1, <1>2, <1>3, <1>4, <1>5, <1>6, <1>7

LEMMA ReadingSteps ==
  ASSUME IInv, TypeOK', NEW w \in Worker,
         \/ ExecuteBegin(w) \/ CheckOperation(w) \/ ReadTarget(w) \/ AssertOwned(w)
         \/ PatchAnswered(w) \/ ReconcileBegin(w) \/ Observe(w)
         \/ ExecuteRaises(w) \/ ReconcileRaises(w)
  PROVE  IInv'
  <1> USE DEF IInv
  <1>1. UNCHANGED <<run, op, lease, patch>>
    BY DEF ExecuteBegin, CheckOperation, ReadTarget, AssertOwned, PatchAnswered,
           ReconcileBegin, Observe, ExecuteRaises, ReconcileRaises, leaseVars
  <1>2. lease[w].run \in Run
    <2>1. lease[w].run # 0
      BY DEF ExecuteBegin, CheckOperation, ReadTarget, AssertOwned, PatchAnswered,
             ReconcileBegin, Observe, ExecuteRaises, ReconcileRaises, Owns, BusyHasLease, Free,
             Recording
    <2> QED BY <2>1 DEF TypeOK, LeaseTypeOK, Lease
  <1>3. \A v \in Worker \ {w} : ex'[v] = ex[v]
    BY ExecutorMoves
       DEF ExecuteBegin, CheckOperation, ReadTarget, AssertOwned, PatchAnswered,
           ReconcileBegin, Observe, ExecuteRaises, ReconcileRaises, TypeOK, LedgerTypeOK
  <1>4. ex[w] \in Executor
    BY DEF TypeOK, LedgerTypeOK
  <1>5. CASE ExecuteBegin(w) \/ ReconcileBegin(w)
    <2>1. ex'[w].pc \in {"check", "observe"}
      <3>1. \/ ex'[w] = [IdleEx EXCEPT !.pc = "check"]
            \/ ex'[w] = [IdleEx EXCEPT !.pc = "observe", !.op = op[lease[w].run]]
        BY <1>5 DEF ExecuteBegin, ReconcileBegin, TypeOK, LedgerTypeOK
      <3> QED BY <3>1 DEF IdleEx
    <2> QED BY <1>1, <1>2, <1>3, <2>1, Reading
  <1>6. CASE CheckOperation(w)
    BY <1>1, <1>2, <1>3, <1>6, ExecutorMoves, Reading DEF CheckOperation, Before
  <1>7. CASE ReadTarget(w) \/ Observe(w)
    <2>1. \/ ex[w].pc = "read" /\ ex'[w].pc = "prepare"
          \/ ex'[w].pc = "settle"
      <3>1. \/ /\ ex[w].pc = "read"
               /\ ex'[w] = [ex[w] EXCEPT !.pc = "prepare", !.seen = target]
            \/ \E t \in {target, NoSnapshot} :
                 ex'[w] = [ex[w] EXCEPT !.pc = "settle", !.seen = t]
        BY <1>7 DEF ReadTarget, Observe, TypeOK, LedgerTypeOK
      <3> QED BY <1>4, <3>1 DEF Executor
    <2> QED BY <1>1, <1>2, <1>3, <2>1, Reading
  <1>8. CASE AssertOwned(w)
    BY <1>1, <1>2, <1>3, <1>8, ExecutorMoves, Reading DEF AssertOwned
  <1>9. CASE PatchAnswered(w)
    <2> DEFINE p == patch[lease[w].run]
    <2>1. CASE Goto(w, "unknown") \/ (p.st = "refused" /\ Goto(w, "refused"))
      BY <1>1, <1>2, <1>3, <1>9, <2>1, ExecutorMoves, Reading DEF PatchAnswered
    <2>2. CASE /\ p.st = "applied"
               /\ ex' = [ex EXCEPT ![w] = [@ EXCEPT
                           !.pc = IF p.response.cfg = lease[w].run THEN "ok" ELSE "mismatch",
                           !.seen = p.response]]
      <3>1. /\ ex'[w].pc = (IF p.response.cfg = lease[w].run THEN "ok" ELSE "mismatch")
            /\ ex'[w].seen = p.response
        BY <1>4, <2>2 DEF TypeOK, LedgerTypeOK, Executor
      <3> QED BY <1>1, <1>2, <1>3, <1>9, <2>2, <3>1, Reading DEF PatchAnswered
    <2> QED BY <1>9, <2>1, <2>2 DEF PatchAnswered
  <1>10. CASE ExecuteRaises(w) \/ ReconcileRaises(w)
    BY <1>1, <1>2, <1>3, <1>10, ExecutorMoves, Reading DEF ExecuteRaises, ReconcileRaises
  <1> QED BY <1>5, <1>6, <1>7, <1>8, <1>9, <1>10

\* A transaction on the journal row of w's run, made under the fence.  The
\* hypotheses on `from` and `to` are what the three writers of the journal and
\* the reconciliation have to establish.
LEMMA Journal ==
  ASSUME IInv, TypeOK', NEW w \in Worker, Owns(w), UNCHANGED <<run, lease, patch>>,
         NEW r \in Run, r = lease[w].run,
         \A q \in Run \ {r} : op'[q] = op[q],
         \A v \in Worker \ {w} : ex'[v] = ex[v],
         LET from == op[r].state
             to   == op'[r].state
             p    == patch[r]
         IN  \/ from \in Before /\ to = "prepared" /\ ex'[w].pc \in {"dispatch", "reject"}
             \/ from = "prepared" /\ to = "dispatching" /\ ex'[w].pc = "own"
             \/ /\ ex'[w].pc = "done" /\ to \notin Before
                /\ to = "rejected" =>
                     \/ from = "prepared"
                     \/ ex[w].pc \in PostDispatch /\ p.st = "refused"
                /\ to \in {"succeeded", "reconciled"} =>
                     /\ p.st = "applied" /\ op'[r].response = p.response
                     /\ p.response.cfg = r
  PROVE  IInv'
  <1> USE DEF IInv
  <1>1. BusyHasLease'
    BY DEF BusyHasLease, Free, Run
  <1>2. OneDispatcher'
    <2>1. ASSUME NEW v \in Worker, ex'[v].pc \in PostDispatch
          PROVE  op'[lease[v].run].state \notin Before
      <3>1. CASE v = w
        BY <2>1, <3>1 DEF PostDispatch, Before
      <3>2. CASE v # w /\ lease[v].run = r
        BY <2>1, <3>2 DEF OneDispatcher, Before
      <3>3. CASE v # w /\ lease[v].run # r
        <4>1. lease[v].run \in Run
          BY <2>1, <3>3 DEF BusyHasLease, Free, PostDispatch, TypeOK, LeaseTypeOK, Lease
        <4> QED BY <2>1, <3>3, <4>1 DEF OneDispatcher
      <3> QED BY <3>1, <3>2, <3>3
    <2>2. ASSUME NEW u \in Worker, NEW v \in Worker,
                 ex'[u].pc \in PostDispatch, ex'[v].pc \in PostDispatch,
                 lease[u].run = lease[v].run
          PROVE  u = v
      <3>1. CASE ex'[w].pc = "own"
        BY <2>2, <3>1 DEF OneDispatcher, Before
      <3>2. CASE ex'[w].pc # "own"
        BY <2>2, <3>2 DEF OneDispatcher, PostDispatch
      <3> QED BY <3>1, <3>2
    <2> QED BY <2>1, <2>2 DEF OneDispatcher
  <1>3. NotYetSent'
    <2>1. \A q \in Run : op'[q].state \in Before => patch[q].st = "unsent" /\ patch[q].sent = 0
      BY DEF NotYetSent, Before
    <2>2. ASSUME NEW v \in Worker, ex'[v].pc \in {"own", "send"}
          PROVE  patch[lease[v].run].st = "unsent" /\ patch[lease[v].run].sent = 0
      BY <2>2 DEF NotYetSent, Before
    <2> QED BY <2>1, <2>2 DEF NotYetSent
  <1>4. OwnerIsCurrent'
    <2>1. ASSUME NEW v \in Worker, Owns(v)'
          PROVE  /\ Owns(v) /\ lease[v].run \in Run
                 /\ v # w => lease[v].run # r
      BY <2>1 DEF Owns, TypeOK, LeaseTypeOK, Lease
    <2> QED BY <2>1 DEF OwnerIsCurrent, Before
  <1>5. AnswerIsTrue'
    BY DEF AnswerIsTrue
  <1>6. AtMostOnePatch'
    BY DEF AtMostOnePatch
  <1>7. ConfirmedWasApplied'
    BY DEF ConfirmedWasApplied, Before
  <1>8. RejectedNeverWrites'
    <2>1. ASSUME NEW q \in Run, op'[q].state \in {"none", "prepared", "rejected"}
          PROVE  patch[q].st \in {"unsent", "refused"}
      <3>1. CASE q # r
        BY <2>1, <3>1 DEF RejectedNeverWrites
      <3>2. CASE q = r
        BY <2>1, <3>2 DEF RejectedNeverWrites, Before
      <3> QED BY <3>1, <3>2
    <2>2. ASSUME NEW q \in Run, op'[q].state \in {"none", "prepared", "rejected"},
                 NEW v \in Worker, lease[v].run = q, ex'[v].pc \in {"own", "send"}
          PROVE  FALSE
      <3>1. CASE v = w
        BY <2>2, <3>1
      <3>2. CASE v # w /\ q # r
        BY <2>2, <3>2 DEF RejectedNeverWrites, AboutToSend
      <3>3. CASE v # w /\ q = r
        <4>1. ex[v].pc \in PostDispatch /\ op[r].state \notin Before
          BY <2>2, <3>3 DEF OneDispatcher, PostDispatch
        <4>2. op'[r].state = "rejected" /\ ex[w].pc \in PostDispatch
          BY <2>2, <3>3, <4>1 DEF Before
        <4> QED BY <2>2, <3>3, <4>1, <4>2 DEF OneDispatcher
      <3> QED BY <3>1, <3>2, <3>3
    <2> QED BY <2>1, <2>2 DEF RejectedNeverWrites, AboutToSend
  <1> QED BY <1>1, <1>2, <1>3, <1>4, <1>5, <1>6, <1>7, <1>8

LEMMA JournalSteps ==
  ASSUME IInv, TypeOK', NEW w \in Worker,
         Prepare(w) \/ Dispatch(w) \/ RecordOutcome(w) \/ Settle(w)
  PROVE  IInv'
  <1> USE DEF IInv
  <1> DEFINE r == lease[w].run
  <1>1. Owns(w) /\ UNCHANGED <<run, lease, patch>>
    BY DEF Prepare, Dispatch, RecordOutcome, Settle
  <1>2. r \in Run
    BY <1>1 DEF Owns, TypeOK, LeaseTypeOK, Lease
  <1>3. op[r] \in OpRow /\ ex[w] \in Executor
    BY <1>2 DEF TypeOK, LeaseTypeOK, LedgerTypeOK
  <1>4. \A q \in Run \ {r} : op'[q] = op[q]
    BY DEF Prepare, Dispatch, RecordOutcome, Settle, TypeOK, LeaseTypeOK
  <1>5. \A v \in Worker \ {w} : ex'[v] = ex[v]
    BY ExecutorMoves DEF Prepare, Dispatch, RecordOutcome, Settle
  <1>6. CASE Prepare(w)
    <2>1. op'[r] = PreparedRow(w)
      BY <1>2, <1>6 DEF Prepare, TypeOK, LeaseTypeOK
    <2>2. op[r].state \in Before
      BY <1>1, <1>6 DEF OwnerIsCurrent, Prepare
    <2>3. op'[r].state = "prepared"
      BY <2>1, <2>2 DEF PreparedRow, Before, NoOp
    <2>4. ex'[w].pc \in {"dispatch", "reject"}
      BY <1>6, ExecutorMoves DEF Prepare
    <2> QED BY <1>1, <1>2, <1>4, <1>5, <2>2, <2>3, <2>4, Journal
  <1>7. CASE Dispatch(w)
    <2>1. op'[r] = [op[r] EXCEPT !.state = "dispatching", !.epoch = lease[w].epoch]
      BY <1>2, <1>7 DEF Dispatch, TypeOK, LeaseTypeOK
    <2>2. op'[r].state = "dispatching"
      BY <1>3, <2>1 DEF OpRow
    <2>3. ex'[w].pc = "own" /\ op[r].state = "prepared"
      BY <1>7, ExecutorMoves DEF Dispatch
    <2> QED BY <1>1, <1>2, <1>4, <1>5, <2>2, <2>3, Journal
  <1>8. CASE RecordOutcome(w)
    <2> DEFINE pc == ex[w].pc
    <2>1. op'[r] = RecordedRow(op[r], pc, ex[w].seen)
      BY <1>2, <1>8 DEF RecordOutcome, TypeOK, LeaseTypeOK
    <2>2. /\ op'[r].state = Outcome(pc)
          /\ pc = "ok" => op'[r].response = ex[w].seen
      BY <1>3, <2>1 DEF RecordedRow, OpRow
    <2>3. ex'[w].pc = "done"
      BY <1>8, ExecutorMoves DEF RecordOutcome
    <2>4. pc \in {"ok", "mismatch", "refused", "unknown", "reject"}
      BY <1>8 DEF RecordOutcome, Recording
    <2>5. op'[r].state \notin Before
      BY <2>2, <2>4 DEF Outcome, Before
    <2>6. ASSUME op'[r].state = "rejected"
          PROVE  op[r].state = "prepared" \/ (pc \in PostDispatch /\ patch[r].st = "refused")
      <3>1. pc \in {"refused", "reject"}
        BY <2>2, <2>4, <2>6 DEF Outcome
      <3> QED BY <1>1, <3>1 DEF OwnerIsCurrent, AnswerIsTrue, PostDispatch
    <2>7. ASSUME op'[r].state \in {"succeeded", "reconciled"}
          PROVE  /\ patch[r].st = "applied" /\ op'[r].response = patch[r].response
                 /\ patch[r].response.cfg = r
      <3>1. pc = "ok"
        BY <2>2, <2>4, <2>7 DEF Outcome
      <3> QED BY <2>2, <3>1 DEF AnswerIsTrue
    <2> HIDE DEF pc
    <2> QED BY <1>1, <1>2, <1>4, <1>5, <2>3, <2>5, <2>6, <2>7, Journal DEF pc
  <1>9. CASE Settle(w)
    <2> DEFINE ok == Attributable(ex[w].op, ex[w].seen, r)
               to == IF ok THEN "reconciled" ELSE "manual_required"
    <2>1. op'[r] = [op[r] EXCEPT !.state = to, !.confirmed = ok]
      BY <1>2, <1>9 DEF Settle, TypeOK, LeaseTypeOK
    <2>2. op'[r].state = to /\ op'[r].response = op[r].response
      BY <1>3, <2>1 DEF OpRow
    <2>3. ex'[w].pc = "done"
      BY <1>9, ExecutorMoves DEF Settle
    <2>4. RecordAllowed(op[r].state, to)
      BY <1>9 DEF Settle
    <2>5. to = "reconciled" => op[r].state \in {"succeeded", "reconciled"}
      BY <2>4 DEF RecordAllowed
    <2>6. ASSUME op'[r].state \in {"succeeded", "reconciled"}
          PROVE  /\ patch[r].st = "applied" /\ op'[r].response = patch[r].response
                 /\ patch[r].response.cfg = r
      BY <1>2, <2>2, <2>5, <2>6 DEF ConfirmedWasApplied
    <2>7. op'[r].state \notin Before /\ op'[r].state # "rejected"
      BY <2>2 DEF Before
    <2> QED BY <1>1, <1>2, <1>4, <1>5, <2>3, <2>6, <2>7, Journal
  <1> QED BY <1>6, <1>7, <1>8, <1>9

\* Sending: the journal has just been dispatched by this very call.
LEMMA SendStep ==
  ASSUME IInv, TypeOK', NEW w \in Worker, SendPatch(w)
  PROVE  IInv'
  <1> USE DEF IInv
  <1> DEFINE r == lease[w].run
  <1>1. r \in Run /\ ex[w].pc = "send"
    BY DEF SendPatch, BusyHasLease, Free, TypeOK, LeaseTypeOK, Lease
  <1>2. UNCHANGED <<run, op, lease>>
    BY DEF SendPatch, leaseVars
  <1>3. ex'[w].pc = "await" /\ \A v \in Worker \ {w} : ex'[v] = ex[v]
    BY ExecutorMoves DEF SendPatch
  <1>4. patch[r].st = "unsent" /\ patch[r].sent = 0
    BY <1>1 DEF NotYetSent
  <1>5. /\ patch'[r].st = "flying" /\ patch'[r].sent = 1
        /\ \A q \in Run \ {r} : patch'[q] = patch[q]
    BY <1>1, <1>4 DEF SendPatch, TypeOK, LedgerTypeOK
  <1>6. op[r].state \notin {"none", "prepared", "rejected"}
    BY <1>1 DEF RejectedNeverWrites, AboutToSend
  <1>7. \A v \in Worker \ {w} : ex'[v].pc \in PostDispatch => lease[v].run \in Run \ {r}
    <2>1. ASSUME NEW v \in Worker \ {w}, ex[v].pc \in PostDispatch
          PROVE  lease[v].run \in Run \ {r}
      <3>1. lease[v].run \in Run
        BY <2>1 DEF BusyHasLease, Free, PostDispatch, TypeOK, LeaseTypeOK, Lease
      <3> QED BY <1>1, <2>1, <3>1 DEF OneDispatcher, PostDispatch
    <2> QED BY <1>3, <2>1
  <1>8. BusyHasLease'
    BY <1>1, <1>2, <1>3 DEF BusyHasLease, Free, Run
  <1>9. OneDispatcher'
    BY <1>1, <1>2, <1>3 DEF OneDispatcher, PostDispatch
  <1>10. NotYetSent'
    <2>1. \A q \in Run : op'[q].state \in Before => patch'[q].st = "unsent" /\ patch'[q].sent = 0
      BY <1>2, <1>5, <1>6 DEF NotYetSent, Before
    <2>2. ASSUME NEW v \in Worker, ex'[v].pc \in {"own", "send"}
          PROVE  patch'[lease'[v].run].st = "unsent" /\ patch'[lease'[v].run].sent = 0
      BY <1>2, <1>3, <1>5, <1>7, <2>2 DEF NotYetSent, PostDispatch
    <2> QED BY <2>1, <2>2 DEF NotYetSent
  <1>11. OwnerIsCurrent'
    <2>1. \A v \in Worker : Owns(v)' => Owns(v)
      BY <1>2 DEF Owns
    <2> QED BY <1>2, <1>3, <2>1 DEF OwnerIsCurrent
  <1>12. AnswerIsTrue'
    BY <1>2, <1>3, <1>5, <1>7 DEF AnswerIsTrue, PostDispatch
  <1>13. AtMostOnePatch'
    BY <1>5 DEF AtMostOnePatch
  <1>14. ConfirmedWasApplied'
    BY <1>2, <1>4, <1>5 DEF ConfirmedWasApplied
  <1>15. RejectedNeverWrites'
    BY <1>2, <1>3, <1>5, <1>6 DEF RejectedNeverWrites, AboutToSend
  <1> QED BY <1>8, <1>9, <1>10, <1>11, <1>12, <1>13, <1>14, <1>15

\* The cluster's answer, and changes by other actors.
LEMMA ClusterSteps ==
  ASSUME IInv, TypeOK', ClusterStep
  PROVE  IInv'
  <1> USE DEF IInv
  <1>1. CASE Drift
    <2>1. UNCHANGED <<run, op, patch, ex, lease>>
      BY <1>1 DEF Drift, leaseVars
    <2> QED BY <2>1, Quiet DEF Owns
  <1>2. ASSUME NEW r \in Run, DeliverPatch(r) PROVE IInv'
    <2>1. UNCHANGED <<run, op, lease, ex>> /\ patch[r].st = "flying"
      BY <1>2 DEF DeliverPatch, leaseVars
    <2>2. /\ patch'[r].sent = patch[r].sent
          /\ \A q \in Run \ {r} : patch'[q] = patch[q]
      <3>1. PICK p : /\ patch' = [patch EXCEPT ![r] = p]
                      /\ \/ p = [patch[r] EXCEPT !.st = "refused"]
                         \/ \E x : p = [patch[r] EXCEPT !.st = "applied", !.response = x]
        BY <1>2 DEF DeliverPatch
      <3>2. patch[r] \in PatchRow
        BY DEF TypeOK, LedgerTypeOK
      <3>3. p.sent = patch[r].sent
        BY <3>1, <3>2 DEF PatchRow
      <3> QED BY <3>1, <3>3 DEF TypeOK, LedgerTypeOK
    <2>3. op[r].state \notin {"none", "prepared", "rejected", "succeeded", "reconciled"}
      BY <2>1 DEF RejectedNeverWrites, ConfirmedWasApplied
    <2>4. ASSUME NEW v \in Worker, ~Free(v) PROVE lease[v].run \in Run
      BY <2>4 DEF BusyHasLease, TypeOK, LeaseTypeOK, Lease
    <2>5. BusyHasLease' /\ OneDispatcher'
      BY <2>1 DEF BusyHasLease, OneDispatcher, Free
    <2>6. NotYetSent'
      BY <2>1, <2>2, <2>3, <2>4 DEF NotYetSent, Before, Free
    <2>7. OwnerIsCurrent'
      <3>1. \A v \in Worker : Owns(v)' => Owns(v)
        BY <2>1 DEF Owns
      <3> QED BY <2>1, <3>1 DEF OwnerIsCurrent
    <2>8. AnswerIsTrue'
      BY <2>1, <2>2, <2>4 DEF AnswerIsTrue, Free
    <2>9. AtMostOnePatch' /\ ConfirmedWasApplied'
      BY <2>1, <2>2, <2>3 DEF AtMostOnePatch, ConfirmedWasApplied
    <2>10. RejectedNeverWrites'
      BY <2>1, <2>2, <2>3 DEF RejectedNeverWrites, AboutToSend
    <2> QED BY <2>5, <2>6, <2>7, <2>8, <2>9, <2>10
  <1> QED BY <1>1, <1>2 DEF ClusterStep

\* A human control.  It changes the journal only before the dispatch, and then
\* it takes the lease from whoever holds the run.
LEMMA ControlStep ==
  ASSUME IInv, TypeOK', NEW c \in Request, NEW a \in {"stop", "supplement", "investigate"},
         Control(c, a)
  PROVE  IInv'
  <1> USE DEF IInv
  <1> DEFINE r == control[c].parent
  <1>1. r \in Run /\ UNCHANGED <<lease, patch, ex>>
    BY DEF Control, ledgerVars, TypeOK, ControlTypeOK, ControlRow
  <1>2. run[r] \in RunRow /\ op[r] \in OpRow
    BY <1>1 DEF TypeOK, LeaseTypeOK
  <1>3. /\ run'[r] = ControlledRun(r, control[c].snap) /\ op'[r] = ControlledOp(r)
        /\ \A q \in Run \ {r} : run'[q] = run[q] /\ op'[q] = op[q]
    BY <1>1 DEF Control, TypeOK, LeaseTypeOK
  <1>4. \/ run'[r].owner = NoWorker
        \/ /\ run'[r].owner = run[r].owner /\ run'[r].epoch = run[r].epoch
           /\ run'[r].status = run[r].status /\ run'[r].live = run[r].live
           /\ op'[r] = op[r]
    <2>1. CASE ~Active(r)
      BY <1>3, <2>1 DEF ControlledRun, ControlledOp
    <2>2. CASE Active(r) /\ Dispatched(r)
      <3>1. run'[r] = [run[r] EXCEPT !.stop = TRUE, !.invalidated = TRUE] /\ op'[r] = op[r]
        BY <1>3, <2>2 DEF ControlledRun, ControlledOp, Dispatched
      <3> QED BY <1>2, <3>1 DEF RunRow
    <2>3. CASE Active(r) /\ ~Dispatched(r)
      <3>1. PICK out : run'[r] = [run[r] EXCEPT !.stop = TRUE, !.invalidated = TRUE,
                                    !.status = "cancelled", !.owner = NoWorker,
                                    !.live = FALSE, !.error = "other", !.output = out]
        BY <1>3, <2>3 DEF ControlledRun
      <3> QED BY <1>2, <3>1 DEF RunRow
    <2> QED BY <2>1, <2>2, <2>3
  <1>5. ASSUME NEW v \in Worker, Owns(v)'
        PROVE  Owns(v) /\ op'[lease[v].run] = op[lease[v].run]
    <2>1. lease[v].run \in Run /\ run'[lease[v].run].owner = v
      BY <1>1, <1>5 DEF Owns, TypeOK, LeaseTypeOK, Lease
    <2> QED BY <1>1, <1>3, <1>4, <1>5, <2>1 DEF Owns
  <1>6. \/ op'[r] = op[r]
        \/ op[r].state = "prepared" /\ op'[r].state = "rejected"
    BY <1>2, <1>3 DEF ControlledOp, OpRow
  <1>7. BusyHasLease'
    BY <1>1 DEF BusyHasLease, Free
  <1>8. OneDispatcher'
    <2>1. ASSUME NEW v \in Worker, ex[v].pc \in PostDispatch
          PROVE  op'[lease[v].run].state \notin Before
      <3>1. lease[v].run \in Run
        BY <2>1 DEF BusyHasLease, Free, PostDispatch, TypeOK, LeaseTypeOK, Lease
      <3> QED BY <1>3, <1>6, <2>1, <3>1 DEF OneDispatcher, Before
    <2> QED BY <1>1, <2>1 DEF OneDispatcher
  <1>9. NotYetSent'
    BY <1>1, <1>3, <1>6 DEF NotYetSent, Before
  <1>10. OwnerIsCurrent'
    BY <1>1, <1>5 DEF OwnerIsCurrent
  <1>11. AnswerIsTrue' /\ AtMostOnePatch'
    BY <1>1 DEF AnswerIsTrue, AtMostOnePatch
  <1>12. ConfirmedWasApplied'
    BY <1>1, <1>3, <1>6 DEF ConfirmedWasApplied
  <1>13. RejectedNeverWrites'
    BY <1>1, <1>3, <1>6 DEF RejectedNeverWrites, AboutToSend
  <1> QED BY <1>7, <1>8, <1>9, <1>10, <1>11, <1>12, <1>13

-----------------------------------------------------------------------------
LEMMA InitInv == Init => IInv
  <1> SUFFICES ASSUME Init PROVE IInv
    OBVIOUS
  <1>1. TypeOK
    BY InitTypes
  <1>2. /\ \A w \in Worker : ex[w].pc = "idle" /\ lease[w].run = 0
        /\ \A r \in Run : /\ op[r].state = "none" /\ patch[r].st = "unsent"
                          /\ patch[r].sent = 0
    BY DEF Init, LeaseInit, LedgerInit, IdleEx, NoLease, NoOp, NoPatch
  <1>3. BusyHasLease /\ OneDispatcher /\ NotYetSent /\ OwnerIsCurrent /\ AnswerIsTrue
    BY <1>2 DEF BusyHasLease, Free, OneDispatcher, PostDispatch, NotYetSent, OwnerIsCurrent,
                AnswerIsTrue
  <1>4. AtMostOnePatch /\ RejectedNeverWrites /\ ConfirmedWasApplied
    BY <1>2 DEF AtMostOnePatch, RejectedNeverWrites, AboutToSend, ConfirmedWasApplied
  <1> QED BY <1>1, <1>3, <1>4 DEF IInv

LEMMA StepInv == IInv /\ [Next]_vars => IInv'
  <1>1. CASE UNCHANGED vars
    <2> SUFFICES ASSUME IInv, UNCHANGED vars PROVE IInv'
      BY <1>1
    <2>1. UNCHANGED <<run, op, revision, lease, lost, faults, target, drifts, patch, ex, control>>
      BY DEF vars, leaseVars, ledgerVars
    <2>2. TypeOK'
      BY <2>1 DEF IInv, TypeOK, LeaseTypeOK, LedgerTypeOK, ControlTypeOK
    <2> QED BY <2>1, <2>2, Quiet DEF Owns
  <1>2. ASSUME IInv, Next PROVE IInv'
    <2>0. TypeOK'
      BY <1>2, NextTypes DEF IInv
    <2>1. ASSUME NEW w \in Worker, LeaseStep(w) PROVE IInv'
      BY <1>2, <2>0, <2>1, ClaimQuiet, LeaseQuiet DEF LeaseStep
    <2>2. ASSUME NEW w \in Worker, ExecutorStep(w) PROVE IInv'
      BY <1>2, <2>0, <2>2, ReadingSteps, JournalSteps, SendStep DEF ExecutorStep
    <2>3. ASSUME NEW w \in Worker,
                 Publish(w) \/ GiveUp(w) \/ TakeResult(w) \/ CallFails(w) \/ Crash(w)
          PROVE  IInv'
      BY <1>2, <2>0, <2>3, PublishQuiet, EndQuiet
    <2>4. ASSUME NEW r \in Run, Expire(r), UNCHANGED <<ledgerVars, control>> PROVE IInv'
      BY <1>2, <2>0, <2>4, ExpireQuiet
    <2>5. ASSUME NEW c \in Request, ActivateSupersede(c) \/ ActivateStart(c) PROVE IInv'
      BY <1>2, <2>0, <2>5, RequestQuiet
    <2>6. CASE ClusterStep
      BY <1>2, <2>0, <2>6, ClusterSteps
    <2>7. CASE HumanStep
      BY <1>2, <2>0, <2>7, ApprovalQuiet, ControlStep, RequestQuiet DEF HumanStep
    <2> QED BY <1>2, <2>1, <2>2, <2>3, <2>4, <2>5, <2>6, <2>7 DEF Next
  <1> QED BY <1>1, <1>2

\* The inductive invariant holds in every state the transactions of
\* persistence/leases.py, operations.py, controls.py and rounds.py can reach.
THEOREM Inductive == Spec => []IInv
  BY InitInv, StepInv, PTL DEF Spec

\* Every row, lease and executor state keeps its declared type.
THEOREM TypeCorrect == Spec => []TypeOK
  <1>1. IInv => TypeOK
    BY DEF IInv
  <1> QED BY <1>1, Inductive, PTL

\* LedgerExecutor.execute sends at most one PATCH request per run, for any
\* number of workers, crashes, retries and repeated calls.
THEOREM OnePatchPerRun == Spec => []AtMostOnePatch
  <1>1. IInv => AtMostOnePatch
    BY DEF IInv
  <1> QED BY <1>1, Inductive, PTL

\* A run whose operation is absent, prepared or rejected has not changed the
\* cluster and no worker is on its way to do so: a control that cancels a run
\* (controls.py) is final even for a worker inside execute().
THEOREM RejectionIsFinal == Spec => []RejectedNeverWrites
  <1>1. IInv => RejectedNeverWrites
    BY DEF IInv
  <1> QED BY <1>1, Inductive, PTL

\* A journal row that says succeeded or reconciled is true of the cluster: this
\* run's own request was applied, with the response the row records.
THEOREM ConfirmationIsTrue == Spec => []ConfirmedWasApplied
  <1>1. IInv => ConfirmedWasApplied
    BY DEF IInv
  <1> QED BY <1>1, Inductive, PTL
=============================================================================
