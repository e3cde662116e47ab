------------------------------ MODULE RunRows ------------------------------
(***************************************************************************)
(* The rows that API, workers and recovery share: runs, operations, and    *)
(* the copy of a run that a claim returns.                                 *)
(*                                                                         *)
(* One incident is modelled; its runs are numbered in creation order.      *)
(* Database time appears only as the flag `live` (lease_expires_at is in   *)
(* the future).  `tries` is attempt - attempt_base, the only form in which *)
(* the two columns are compared.  `output` and `error` keep the classes of *)
(* output_snapshot and last_error that later code distinguishes.           *)
(***************************************************************************)
EXTENDS Integers

CONSTANTS
  Worker,       \* worker processes
  NoWorker,     \* lease_owner IS NULL
  MaxRuns,      \* diagnosis rounds the incident may get (bound)
  MaxAttempts,  \* WorkerSettings.max_attempts
  MaxFaults     \* pauses, crashes and storage errors in a behaviour (bound)

ASSUME LeaseAssumption ==
  /\ NoWorker \notin Worker
  /\ MaxRuns \in Nat \ {0}
  /\ MaxAttempts \in Nat \ {0}
  /\ MaxFaults \in Nat

Run == 1..MaxRuns

Terminal   == {"succeeded", "failed", "cancelled"}
RunStatus  == Terminal \cup {"absent", "queued", "running", "waiting_approval",
                             "retry_scheduled", "reconciling"}

\* A write whose effect on the cluster is not known.
Uncertain  == {"dispatching", "outcome_unknown", "manual_required"}
\* The operation states that block another round of the incident.
Unresolved == Uncertain \cup {"prepared"}
OpState    == Unresolved \cup {"none", "succeeded", "reconciled", "rejected"}

Approval   == {"none", "approved", "rejected"}
Output     == {"none", "awaiting", "other"}
ErrorCode  == {"none", "temporary", "worker", "other"}

\* The live configuration of the target resource: 0 before any change, r when
\* the change planned by run r is in place, Foreign for anything else.
Foreign    == MaxRuns + 1
Config     == 0..Foreign
Snapshot   == [rv: Nat, cfg: Config]
NoSnapshot == [rv |-> 0, cfg |-> 0]

RunRow == [status: RunStatus, owner: Worker \cup {NoWorker}, epoch: Nat,
           tries: Nat, live: BOOLEAN, approval: Approval, prior: Config,
           stop: BOOLEAN, invalidated: BOOLEAN, rev: Nat, started: BOOLEAN,
           error: ErrorCode, output: Output]

NewRow(rev) ==
  [status |-> "queued", owner |-> NoWorker, epoch |-> 0, tries |-> 0,
   live |-> FALSE, approval |-> "none", prior |-> 0, stop |-> FALSE,
   invalidated |-> FALSE, rev |-> rev, started |-> FALSE, error |-> "none",
   output |-> "none"]

OpRow == [state: OpState, epoch: Nat, before: Snapshot, response: Snapshot,
          result: {"none", "succeeded", "conflict"}, confirmed: BOOLEAN]

NoOp == [state |-> "none", epoch |-> 0, before |-> NoSnapshot,
         response |-> NoSnapshot, result |-> "none", confirmed |-> FALSE]

\* The copy of the row that claim() returns and the worker keeps using.
Lease == [run: Run \cup {0}, epoch: Nat, approval: Approval, prior: Config,
          tries: Nat, started: BOOLEAN, error: ErrorCode,
          recoveryOnly: BOOLEAN]

NoLease == [run |-> 0, epoch |-> 0, approval |-> "none", prior |-> 0,
            tries |-> 0, started |-> FALSE, error |-> "none",
            recoveryOnly |-> FALSE]
=============================================================================
