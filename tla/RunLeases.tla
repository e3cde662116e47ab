----------------------------- MODULE RunLeases -----------------------------
(***************************************************************************)
(* Ownership of durable runs: the rows of incident_agent_app.runs and the  *)
(* short transactions of persistence/leases.py.  A worker claims a row,    *)
(* works on the copy the claim returned, and every later transaction is    *)
(* fenced by owner, epoch, status and lease expiry.                        *)
(***************************************************************************)
EXTENDS RunRows

VARIABLES
  run,       \* runs rows, by creation number
  op,        \* operations rows, at most one per run (operations.run_id UNIQUE)
  revision,  \* incidents.event_revision
  lease,     \* per worker: the claimed row it is working on
  lost,      \* per worker: the Worker.lost event
  faults     \* faults taken so far

leaseVars == <<run, op, revision, lease, lost, faults>>

LeaseTypeOK ==
  /\ run \in [Run -> RunRow]
  /\ op \in [Run -> OpRow]
  /\ revision \in Nat
  /\ lease \in [Worker -> Lease]
  /\ lost \in [Worker -> BOOLEAN]
  /\ faults \in 0..MaxFaults

LeaseInit ==
  /\ run = [r \in Run |-> IF r = 1 THEN NewRow(0)
                          ELSE [NewRow(0) EXCEPT !.status = "absent"]]
  /\ op = [r \in Run |-> NoOp]
  /\ revision = 0
  /\ lease = [w \in Worker |-> NoLease]
  /\ lost = [w \in Worker |-> FALSE]
  /\ faults = 0

Fault == faults < MaxFaults /\ faults' = faults + 1

-----------------------------------------------------------------------------
\* Mutant: the fence compares only the epoch.
OwnsByEpoch(w) ==
  lease[w].run # 0 /\ run[lease[w].run].epoch = lease[w].epoch

\* fence(): the worker still owns the run it holds a copy of.
Owns(w) ==
  LET r == lease[w].run IN
  /\ r # 0
  /\ run[r].owner = w
  /\ run[r].epoch = lease[w].epoch
  /\ run[r].status = "running"
  /\ run[r].live

\* Mutant: expired leases are never taken over.
ClaimableOnce(r) == run[r].status \in {"queued", "retry_scheduled"}

\* A retry is claimable once its delay is over; a running row once its lease
\* has expired.
Claimable(r) ==
  \/ run[r].status \in {"queued", "retry_scheduled"}
  \/ run[r].status = "running" /\ ~run[r].live

\* At the attempt limit the claim may only publish a saved result.
Exhausted(r) == run[r].tries >= MaxAttempts

Claim(w) ==
  /\ lease[w].run = 0
  /\ \E r \in Run :
       /\ Claimable(r)
       /\ LET tries == run[r].tries + IF Exhausted(r) THEN 0 ELSE 1 IN
          /\ run' = [run EXCEPT ![r] = [@ EXCEPT
                       !.status = "running", !.owner = w,
                       !.epoch = run[r].epoch + 1, !.tries = tries,
                       !.live = TRUE]]
          /\ lease' = [lease EXCEPT ![w] =
                       [run |-> r, epoch |-> run[r].epoch + 1,
                        approval |-> run[r].approval, prior |-> run[r].prior,
                        tries |-> tries, started |-> run[r].started,
                        error |-> run[r].error,
                        recoveryOnly |-> Exhausted(r)]]
  /\ lost' = [lost EXCEPT ![w] = FALSE]
  /\ UNCHANGED <<op, revision, faults>>

\* Database time passes lease_expires_at.  A holder that still sends
\* heartbeats must have been paused for a whole lease: that is a fault.
Expire(r) ==
  /\ run[r].status = "running" /\ run[r].live
  /\ run' = [run EXCEPT ![r] = [@ EXCEPT !.live = FALSE]]
  /\ IF \E w \in Worker : Owns(w) /\ lease[w].run = r /\ ~lost[w]
     THEN Fault ELSE UNCHANGED faults
  /\ UNCHANGED <<op, revision, lease, lost>>

\* A heartbeat that fails, because the fence refuses it or because storage
\* does, sets `lost` for the rest of the claim.
HeartbeatFails(w) ==
  /\ lease[w].run # 0 /\ ~lost[w]
  /\ lost' = [lost EXCEPT ![w] = TRUE]
  /\ IF Owns(w) THEN Fault ELSE UNCHANGED faults
  /\ UNCHANGED <<run, op, revision, lease>>

MarkCheckpointStarted(w) ==
  /\ Owns(w)
  /\ run' = [run EXCEPT ![lease[w].run] = [@ EXCEPT !.started = TRUE]]
  /\ UNCHANGED <<op, revision, lease, lost, faults>>

-----------------------------------------------------------------------------
\* Mutant: a status outside the runs table's check constraint.
FinishStatusStopped(r, s) ==
  IF run[r].stop /\ s \in {"succeeded", "failed", "waiting_approval"}
  THEN "stopped" ELSE s

\* finish(): a stop request that arrived meanwhile overrides the result.
FinishStatus(r, s) ==
  IF run[r].stop /\ s \in {"succeeded", "failed", "waiting_approval"}
  THEN IF op[r].state \in Uncertain THEN "reconciling" ELSE "cancelled"
  ELSE s

\* finish() raises UnsafeRetry instead of scheduling a retry once the run's
\* operation may have reached the cluster.
RetrySafe(r) == op[r].state \in {"none", "prepared", "rejected"}

FinishRow(r, s, e, out) ==
  LET st == FinishStatus(r, s) IN
  [run[r] EXCEPT !.status = st, !.owner = NoWorker, !.live = FALSE,
     !.error = IF st = s THEN e ELSE "other",
     !.output = IF st \in Terminal /\ run[r].output = "none" THEN out
                ELSE run[r].output]

Finish(w, s, e, out) ==
  LET r == lease[w].run IN
  /\ ~lost[w] /\ Owns(w)
  /\ s = "retry_scheduled" => RetrySafe(r) /\ lease[w].tries < MaxAttempts
  /\ run' = [run EXCEPT ![r] = FinishRow(r, s, e, out)]
  /\ lease' = [lease EXCEPT ![w] = NoLease]
  /\ UNCHANGED <<op, revision, lost, faults>>

\* The execution thread ends without publishing: the lease is lost, or a
\* storage fault kept the result from being committed.  The row stays running
\* until its lease expires.
Abandon(w) ==
  /\ lease[w].run # 0
  /\ lease' = [lease EXCEPT ![w] = NoLease]
  /\ UNCHANGED <<run, op, revision, lost>>
=============================================================================
