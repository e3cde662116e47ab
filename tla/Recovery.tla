------------------------------ MODULE Recovery ------------------------------
(***************************************************************************)
(* classify() of runtime/recovery.py: what a worker may do with a run,     *)
(* given the claimed row, the saved checkpoint and the journal row.        *)
(*                                                                         *)
(* A checkpoint keeps the pending node, the class of `phase`, the recorded *)
(* action_result, whether the state says approved, whether the pending     *)
(* task is interrupted, and the configuration the plan was made against.   *)
(* Comparisons of digests, bindings and versions enter as facts.           *)
(***************************************************************************)
EXTENDS RunRows

\* "diagnose" stands for every registered read-only node before approval and
\* "await_user_input" for the human node of the run's workflow.  "none" is an
\* empty checkpoint, "unregistered" a node classify() does not know.
ReadOnlyNodes == {"diagnose", "prepare_approval", "request_human_approval",
                  "await_user_input"}
WriteNodes == {"execute_remediation", "verify_recovery"}
Node == ReadOnlyNodes \cup WriteNodes \cup {"none", "END", "unregistered"}

\* "failed" is `failed` or any `..._failed`; "skipped" an END that needs no
\* approval; "working" and "conflict" any other phase.
Phase == {"working", "awaiting_approval", "approval_approved",
          "approval_rejected", "skipped", "executed", "conflict",
          "verification_succeeded", "waiting_user", "failed"}

Saved == [next: Node, phase: Phase, result: {"none", "succeeded", "conflict"},
          approved: BOOLEAN, intr: BOOLEAN, prior: Config]

EmptySaved == [next |-> "none", phase |-> "working", result |-> "none",
               approved |-> FALSE, intr |-> FALSE, prior |-> 0]

Facts == [input: BOOLEAN,      \* workflow, input and context digests hold
          identity: BOOLEAN,   \* the checkpoint is of this incident and input
          binding: BOOLEAN,    \* the approval covers the checkpointed plan
          version: BOOLEAN,    \* of the workflow that wrote the checkpoint
          taskError: BOOLEAN,  \* the pending task recorded an exception
          dialogue: BOOLEAN,   \* the workflow asks the user questions
          answer: {"none", "adopted", "matching", "mismatched"}]

Decision == [action: {"start", "continue", "resume", "resume_user", "stop"},
             status: {"none", "succeeded", "failed", "reconciling",
                      "waiting_approval", "waiting_user"},
             error: ErrorCode]

Go(action) == [action |-> action, status |-> "none", error |-> "none"]
Stop(status, error) == [action |-> "stop", status |-> status, error |-> error]

-----------------------------------------------------------------------------
\* The state is past approval, so a recorded approval and result must back it.
WriteState(s) == s.result # "none" \/ s.approved \/ s.next \in WriteNodes

ResultMismatch(s, o) ==
  /\ s.result # "none" \/ s.next = "verify_recovery"
  /\ o.state \notin {"succeeded", "reconciled", "rejected"} \/ s.result # o.result

\* Mutant: an open interrupt is never resumed.
OnInterruptWaits(l, s, f) ==
  IF s.phase = "awaiting_approval" THEN Stop("waiting_approval", "none")
  ELSE Stop("waiting_user", "other")

OnInterrupt(l, s, f) ==
  IF f.dialogue /\ s.phase = "waiting_user" /\ s.next = "await_user_input"
  THEN IF f.answer \in {"none", "adopted"} THEN Stop("waiting_user", "none")
       ELSE IF f.answer = "mismatched" THEN Stop("failed", "other")
       ELSE Go("resume_user")
  ELSE IF s.phase = "awaiting_approval"
  THEN IF l.approval # "none" /\ s.next = "request_human_approval"
       THEN Go("resume") ELSE Stop("waiting_approval", "none")
  ELSE Stop("waiting_user", "other")

\* Mutant: every end that is not a failure is a success.
EndedAnyhow(l, s, o) == s.phase # "failed"

\* The graph ended, and ended well.
EndedWell(l, s, o) ==
  \/ l.approval = "rejected" /\ s.phase = "approval_rejected"
  \/ o.state \in {"succeeded", "reconciled"} /\ s.phase = "verification_succeeded"
  \/ s.phase = "skipped"

Allowed(l) ==
  ReadOnlyNodes \cup IF l.approval = "approved" THEN WriteNodes ELSE {}

\* A write of unknown effect, or a state the approval or the journal does not
\* back, is for reconciliation.
HandOver(l, s, o) ==
  \/ o.state \in Uncertain
  \/ WriteState(s) /\ (l.approval # "approved" \/ ResultMismatch(s, o))

\* The code is a sequence of early returns, and their order matters.
Classify(l, s, o, f) ==
  IF ~f.input THEN Stop("failed", "worker")
  ELSE IF s.next = "none"
  THEN IF l.started THEN Stop("failed", "other") ELSE Go("start")
  ELSE IF ~f.identity \/ ~f.version \/ (l.approval # "none" /\ ~f.binding)
  THEN Stop("failed", "other")
  ELSE IF HandOver(l, s, o) THEN Stop("reconciling", "other")
  ELSE IF s.intr THEN OnInterrupt(l, s, f)
  ELSE IF s.phase = "failed" THEN Stop("failed", "other")
  ELSE IF s.next = "END"
  THEN IF EndedWell(l, s, o) THEN Stop("succeeded", "none")
       ELSE Stop("failed", "other")
  ELSE IF s.next \notin Allowed(l) \/ (f.taskError /\ l.error # "temporary")
  THEN Stop("failed", "other")
  ELSE Go("continue")

-----------------------------------------------------------------------------
\* Whatever rows and checkpoint a worker finds, the graph runs only from the
\* start of a thread that never saved anything, to resume an open interrupt
\* with a saved answer, or on registered nodes; and a node that writes or
\* verifies only under an approval bound to the plan with no uncertain write.
ExecutionIsAuthorized(l, s, o, f) ==
  LET d == Classify(l, s, o, f) IN
  /\ d.action = "start" => s.next = "none" /\ ~l.started
  /\ d.action = "resume" => s.intr /\ l.approval # "none" /\ f.binding
  /\ d.action \in {"continue", "resume", "resume_user"} =>
       /\ f.identity /\ f.version /\ s.next \in ReadOnlyNodes \cup WriteNodes
       /\ o.state \notin Uncertain
       /\ s.next \in WriteNodes \/ s.result # "none" => l.approval = "approved" /\ f.binding

\* A run is published as succeeded only when the journal agrees with the
\* checkpoint: an approved state carries the recorded result of a settled
\* operation, and a verified one an operation that succeeded.
SuccessIsEvidenced(l, s, o, f) ==
  Classify(l, s, o, f).status = "succeeded" =>
    /\ s.next = "END" /\ ~s.intr /\ o.state \notin Uncertain
    /\ s.result # "none" => s.result = o.result /\ l.approval = "approved"
    /\ s.phase = "verification_succeeded" => o.state \in {"succeeded", "reconciled"}

\* An intact checkpoint beside a write of unknown effect is always handed
\* over for reconciliation, whatever its phase, interrupt or pending node.
UncertainIsHandedOver(l, s, o, f) ==
  f.input /\ f.identity /\ f.version /\ f.binding /\ s.next # "none" /\ o.state \in Uncertain
    => Classify(l, s, o, f).status = "reconciling"
=============================================================================
