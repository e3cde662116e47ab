-------------------------- MODULE OperationLedger --------------------------
(***************************************************************************)
(* The write journal (persistence/operations.py) and the executor that     *)
(* journals, dispatches and reconciles one conditional PATCH               *)
(* (runtime/operations.py), against a Kubernetes object that other actors  *)
(* also change.  The graph and the worker loop that decide when to call    *)
(* execute and reconcile are in DurableWorker: here a lease holder may     *)
(* call them at any time.                                                  *)
(***************************************************************************)
EXTENDS RunLeases

CONSTANT MaxDrift  \* changes of the target by other actors (bound)

ASSUME DriftAssumption == MaxDrift \in Nat

VARIABLES
  target,  \* the live object: resourceVersion and configuration
  drifts,  \* foreign changes so far
  patch,   \* per run: the PATCH request, and how often one was sent
  ex       \* per worker: where its executor is and what it has read

ledgerVars == <<target, drifts, patch, ex>>

PatchRow == [st: {"unsent", "flying", "applied", "refused"}, sent: Nat,
             response: Snapshot]

NoPatch == [st |-> "unsent", sent |-> 0, response |-> NoSnapshot]

\* Program points of LedgerExecutor.execute ...
Deciding   == {"check", "read", "prepare", "dispatch", "own"}
Recording  == {"ok", "mismatch", "refused", "unknown", "reject"}
\* ... and of LedgerExecutor.reconcile.
Reconciling == {"observe", "settle"}
ExPc == {"idle", "send", "await", "done"} \cup Deciding \cup Recording
          \cup Reconciling

Executor == [pc: ExPc, seen: Snapshot, op: OpRow,
             result: {"none", "succeeded", "conflict", "error", "confirmed",
                      "manual", "broken"}]

IdleEx == [pc |-> "idle", seen |-> NoSnapshot, op |-> NoOp,
           result |-> "none"]

LedgerTypeOK ==
  /\ target \in Snapshot
  /\ drifts \in 0..MaxDrift
  /\ patch \in [Run -> PatchRow]
  /\ ex \in [Worker -> Executor]

LedgerInit ==
  /\ target = [rv |-> 1, cfg |-> 0]
  /\ drifts = 0
  /\ patch = [r \in Run |-> NoPatch]
  /\ ex = [w \in Worker |-> IdleEx]

Done(w, result) == ex' = [ex EXCEPT ![w] = [IdleEx EXCEPT !.pc = "done",
                                                         !.result = result]]
Goto(w, pc) == ex' = [ex EXCEPT ![w] = [@ EXCEPT !.pc = pc]]
Free(w) == ex[w].pc \in {"idle", "done"}

-----------------------------------------------------------------------------
\* assert_revision(): no newer human input than the run was accepted under.
RevisionCurrent(r) == ~run[r].stop /\ run[r].rev = revision

\* Mutant: a later decision replaces the first one.
QueueApprovalAgain(r, decision, p) ==
  /\ RevisionCurrent(r)
  /\ run[r].status = "waiting_approval"
  /\ \A q \in Run : op[q].state \notin Unresolved
  /\ run' = [run EXCEPT ![r] = [@ EXCEPT !.approval = decision, !.prior = p,
                                         !.status = "queued", !.tries = 0]]
  /\ UNCHANGED <<op, revision, lease, lost, faults, ledgerVars>>

\* queue_approval(): the first decision for a waiting run.  Repeating the
\* saved decision changes nothing and is not a step.  `p` is the configuration
\* the displayed plan was made against, which the approval binding covers.
QueueApproval(r, decision, p) ==
  /\ RevisionCurrent(r)
  /\ run[r].approval = "none"
  /\ run[r].status = "waiting_approval"
  /\ \A q \in Run : op[q].state \notin Unresolved
  /\ run' = [run EXCEPT ![r] = [@ EXCEPT !.approval = decision, !.prior = p,
                                         !.status = "queued", !.tries = 0]]
  /\ UNCHANGED <<op, revision, lease, lost, faults, ledgerVars>>

-----------------------------------------------------------------------------
\* execute(): ownership and the durable approval are checked first ...
ExecuteBegin(w) ==
  /\ Free(w) /\ ~lost[w] /\ Owns(w)
  /\ lease[w].approval = "approved"
  /\ ex' = [ex EXCEPT ![w] = [IdleEx EXCEPT !.pc = "check"]]
  /\ UNCHANGED <<leaseVars, target, drifts, patch>>

\* ... then the journal: a recorded result is returned again, a dispatched
\* operation is never executed again.
CheckOperation(w) ==
  LET o == op[lease[w].run] IN
  /\ ex[w].pc = "check"
  /\ \/ /\ o.state \in {"succeeded", "reconciled", "rejected"}
        /\ o.result # "none"
        /\ Done(w, o.result)
     \/ /\ o.state \in {"none", "prepared"}
        /\ Goto(w, "read")
  /\ UNCHANGED <<leaseVars, target, drifts, patch>>

ReadTarget(w) ==
  /\ ex[w].pc = "read"
  /\ ex' = [ex EXCEPT ![w] = [@ EXCEPT !.pc = "prepare", !.seen = target]]
  /\ UNCHANGED <<leaseVars, target, drifts, patch>>

\* prepare() inserts the journal row once per run and returns it; execute()
\* then goes on only if the object is exactly the one the row was prepared
\* for and still has the configuration the human approved a change of.  The
\* UID and live-profile comparisons can refuse as well.
PreparedRow(w) ==
  IF op[lease[w].run].state = "none"
  THEN [NoOp EXCEPT !.state = "prepared", !.epoch = lease[w].epoch,
                    !.before = ex[w].seen]
  ELSE op[lease[w].run]

\* Mutant: the approved prior configuration is not compared.
PreconditionUnapproved(w, o) == ex[w].seen = o.before

PreconditionHolds(w, o) ==
  ex[w].seen = o.before /\ ex[w].seen.cfg = lease[w].prior

Prepare(w) ==
  LET r == lease[w].run
      o == PreparedRow(w) IN
  /\ ex[w].pc = "prepare"
  /\ Owns(w)
  /\ RevisionCurrent(r)
  /\ \A q \in Run \ {r} : op[q].state \notin Unresolved
  /\ op' = [op EXCEPT ![r] = o]
  /\ \/ PreconditionHolds(w, o) /\ Goto(w, "dispatch")
     \/ Goto(w, "reject")
  /\ UNCHANGED <<run, revision, lease, lost, faults, target, drifts, patch>>

\* Mutant: the dispatch transaction is not fenced.
DispatchUnfenced(w) ==
  LET r == lease[w].run IN
  /\ ex[w].pc = "dispatch"
  /\ op[r].state = "prepared"
  /\ op' = [op EXCEPT ![r] = [@ EXCEPT !.state = "dispatching",
                                       !.epoch = lease[w].epoch]]
  /\ Goto(w, "own")
  /\ UNCHANGED <<run, revision, lease, lost, faults, target, drifts, patch>>

Dispatch(w) ==
  LET r == lease[w].run IN
  /\ ex[w].pc = "dispatch"
  /\ Owns(w)
  /\ RevisionCurrent(r)
  /\ op[r].state = "prepared"
  /\ op' = [op EXCEPT ![r] = [@ EXCEPT !.state = "dispatching",
                                       !.epoch = lease[w].epoch]]
  /\ Goto(w, "own")
  /\ UNCHANGED <<run, revision, lease, lost, faults, target, drifts, patch>>

AssertOwned(w) ==
  /\ ex[w].pc = "own"
  /\ ~lost[w] /\ Owns(w)
  /\ Goto(w, "send")
  /\ UNCHANGED <<leaseVars, target, drifts, patch>>

SendPatch(w) ==
  LET r == lease[w].run IN
  /\ ex[w].pc = "send"
  /\ patch' = [patch EXCEPT ![r] = [st |-> "flying", sent |-> @.sent + 1,
                                    response |-> NoSnapshot]]
  /\ Goto(w, "await")
  /\ UNCHANGED <<leaseVars, target, drifts>>

\* The API server applies a JSON PATCH only if its test operations hold; an
\* admission webhook may still store something else, or it may refuse.
DeliverPatch(r) ==
  /\ patch[r].st = "flying"
  /\ \/ /\ target.rv = op[r].before.rv
        /\ \E c \in {r, Foreign} :
             /\ target' = [rv |-> target.rv + 1, cfg |-> c]
             /\ patch' = [patch EXCEPT ![r] =
                            [@ EXCEPT !.st = "applied",
                                      !.response = [rv |-> target.rv + 1,
                                                    cfg |-> c]]]
     \/ /\ patch' = [patch EXCEPT ![r] = [@ EXCEPT !.st = "refused"]]
        /\ UNCHANGED target
  /\ UNCHANGED <<leaseVars, drifts, ex>>

\* Another actor changes the object.
Drift ==
  /\ drifts < MaxDrift
  /\ \E c \in {target.cfg, Foreign} : target' = [rv |-> target.rv + 1, cfg |-> c]
  /\ drifts' = drifts + 1
  /\ UNCHANGED <<leaseVars, patch, ex>>

\* What the executor learns: the stored object, a definite refusal
\* (400/401/403/404/409/422), or nothing it can rely on.
PatchAnswered(w) ==
  LET p == patch[lease[w].run] IN
  /\ ex[w].pc = "await"
  /\ \/ /\ p.st = "applied"
        /\ ex' = [ex EXCEPT ![w] = [@ EXCEPT
                    !.pc = IF p.response.cfg = lease[w].run THEN "ok"
                           ELSE "mismatch",
                    !.seen = p.response]]
     \/ p.st = "refused" /\ Goto(w, "refused")
     \/ Goto(w, "unknown")
  /\ UNCHANGED <<leaseVars, target, drifts, patch>>

\* record(): the transitions the journal accepts.
RecordAllowed(from, to) ==
  \/ to = "succeeded"       /\ from = "dispatching"
  \/ to = "rejected"        /\ from \in {"prepared", "dispatching"}
  \/ to = "outcome_unknown" /\ from = "dispatching"
  \/ to = "reconciled"      /\ from \in {"succeeded", "reconciled"}
  \/ to = "manual_required" /\ from \in Uncertain \cup {"succeeded", "reconciled"}

\* Mutants: an unanswered request counts as refused; any stored object counts
\* as the approved one.
OutcomeRefused(pc) ==
  CASE pc = "ok"       -> "succeeded"
    [] pc = "mismatch" -> "outcome_unknown"
    [] OTHER           -> "rejected"

OutcomeTrusting(pc) ==
  CASE pc \in {"ok", "mismatch"}    -> "succeeded"
    [] pc \in {"refused", "reject"} -> "rejected"
    [] OTHER                        -> "outcome_unknown"

\* The row the executor records for what it learnt, and what execute() then
\* returns (or "error" when it raises OutcomeUnknown).
Outcome(pc) ==
  CASE pc = "ok"                    -> "succeeded"
    [] pc \in {"refused", "reject"} -> "rejected"
    [] OTHER                        -> "outcome_unknown"

Returned(pc) ==
  CASE pc = "ok"                    -> "succeeded"
    [] pc \in {"refused", "reject"} -> "conflict"
    [] OTHER                        -> "error"

RecordedRow(o, pc, seen) ==
  [o EXCEPT !.state = Outcome(pc),
            !.response = IF pc \in {"ok", "mismatch"} THEN seen ELSE o.response,
            !.result = IF Returned(pc) # "error" THEN Returned(pc) ELSE o.result,
            !.confirmed = (pc = "ok")]

RecordOutcome(w) ==
  LET r == lease[w].run IN
  /\ ex[w].pc \in Recording
  /\ Owns(w)
  /\ RecordAllowed(op[r].state, Outcome(ex[w].pc))
  /\ op' = [op EXCEPT ![r] = RecordedRow(@, ex[w].pc, ex[w].seen)]
  /\ \/ Done(w, Returned(ex[w].pc)) /\ UNCHANGED faults
     \/ Done(w, "error") /\ Fault  \* committed, but the connection broke
  /\ UNCHANGED <<run, revision, lease, lost, target, drifts, patch>>

\* A refused transaction, failed read, changed authorization or exhausted
\* write budget raises out of execute() before the dispatch; after it only a
\* lost lease or a storage fault does.  Nothing after the failing call happens.
ExecuteRaises(w) ==
  /\ \/ ex[w].pc \in {"check", "read", "prepare", "dispatch"} /\ UNCHANGED faults
     \/ /\ ex[w].pc \in {"own"} \cup Recording
        /\ IF Owns(w) /\ ~lost[w] THEN Fault ELSE UNCHANGED faults
  /\ Done(w, "error")
  /\ UNCHANGED <<run, op, revision, lease, lost, target, drifts, patch>>

-----------------------------------------------------------------------------
\* reconcile(): read-only.  It works on the journal row it was handed.
ReconcileBegin(w) ==
  /\ Free(w) /\ Owns(w)
  /\ op[lease[w].run].state \in Uncertain \cup {"succeeded", "reconciled"}
  /\ ex' = [ex EXCEPT ![w] = [IdleEx EXCEPT !.pc = "observe",
                                            !.op = op[lease[w].run]]]
  /\ UNCHANGED <<leaseVars, target, drifts, patch>>

\* The read of the object may fail.
Observe(w) ==
  /\ ex[w].pc = "observe"
  /\ \E s \in {target, NoSnapshot} :
       ex' = [ex EXCEPT ![w] = [@ EXCEPT !.pc = "settle", !.seen = s]]
  /\ UNCHANGED <<leaseVars, target, drifts, patch>>

Attributable(o, seen, r) ==
  /\ o.confirmed
  /\ o.response # NoSnapshot
  /\ seen = o.response
  /\ seen.cfg = r
  /\ o.result # "none"

\* Mutant: an object still in its prior state counts as never patched, and the
\* operation is prepared again.
SettleRetries(w) ==
  LET r == lease[w].run IN
  /\ ex[w].pc = "settle"
  /\ Owns(w)
  /\ op' = [op EXCEPT ![r] = [@ EXCEPT !.state =
              IF ex[w].seen = ex[w].op.before THEN "prepared" ELSE "manual_required"]]
  /\ Done(w, "manual")
  /\ UNCHANGED <<run, revision, lease, lost, faults, target, drifts, patch>>

Settle(w) ==
  LET r  == lease[w].run
      ok == Attributable(ex[w].op, ex[w].seen, r)
      to == IF ok THEN "reconciled" ELSE "manual_required" IN
  /\ ex[w].pc = "settle"
  /\ Owns(w)
  /\ RecordAllowed(op[r].state, to)
  /\ op' = [op EXCEPT ![r] = [@ EXCEPT !.state = to, !.confirmed = ok]]
  /\ Done(w, IF ok THEN "confirmed" ELSE "manual")
  /\ UNCHANGED <<run, revision, lease, lost, faults, target, drifts, patch>>

\* The record fails: the lease is gone, or storage is.
ReconcileRaises(w) ==
  /\ ex[w].pc = "settle"
  /\ IF Owns(w) THEN Fault ELSE UNCHANGED faults
  /\ Done(w, "broken")
  /\ UNCHANGED <<run, op, revision, lease, lost, target, drifts, patch>>
=============================================================================
