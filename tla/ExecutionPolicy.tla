--------------------------- MODULE ExecutionPolicy ---------------------------
(***************************************************************************)
(* agent/approval.py and agent/execution_policy.py: a human approves one   *)
(* snapshot, and a write is authorised only for that snapshot.             *)
(*                                                                         *)
(* A request's identifiers are hashes of a canonical payload; here they    *)
(* are the payload itself (collisions are not modelled).                   *)
(***************************************************************************)
EXTENDS RemediationPolicy

CONSTANT NotBound  \* in place of what a fingerprint leaves out

\* The part of the workflow state a request is computed from.  run is 0 for a
\* run of the synchronous API.
Basis == [incident: Nat, run: Nat, requires: BOOLEAN, plan: Plan,
          diagnosis: Diagnosis, evidence: Evidence]

\* build_approval_request(): may it be built, and what it binds.
Buildable(b) == /\ b.incident # 0 /\ b.requires /\ b.plan.approval
                /\ b.plan.action # "manual_investigation" /\ b.plan.ns

\* Mutant: the fingerprint of a plan with a target leaves the evidence out.
PlanFingerprint(b) == [incident |-> b.incident, plan |-> b.plan, run |-> b.run,
                       profile |-> b.evidence.snap, request |-> NotBound,
                       diagnosis |-> NotBound, evidence |-> NotBound]

Fingerprint(b) ==
  LET bound == b.plan.uid # 0 \/ b.diagnosis.assessed
  IN [incident |-> b.incident, plan |-> b.plan, run |-> b.run, profile |-> b.evidence.snap,
      request |-> IF b.plan.uid # 0 THEN b.evidence.target ELSE NotBound,
      diagnosis |-> IF bound THEN b.diagnosis ELSE NotBound,
      evidence |-> IF bound THEN b.evidence ELSE NotBound]

\* rev: plan_revision and approval_revision, absent in plans without a target.
Request(b) == [id |-> Fingerprint(b), incident |-> b.incident, plan |-> b.plan,
               rev |-> IF b.plan.uid # 0 THEN Fingerprint(b) ELSE NotBound]

\* validate_approval_decision() and create_approval_record()
DecisionMatches(d, req) == d.id = req.id
Record(req, d) == [id |-> req.id, incident |-> req.incident, action |-> req.plan.action,
                   approved |-> d.approved, rev |-> req.rev]

-----------------------------------------------------------------------------
\* _validate_approved_state()
ApprovedState(s) == /\ s.phase = "approval_approved" /\ s.basis.requires
                    /\ s.status = "approved" /\ s.approved

\* Mutant: the request is compared with the plan, not rebuilt from the state.
PlanBinding(s) ==
  LET r == s.request h == s.record IN
  /\ r.incident = s.basis.incident /\ h.incident = s.basis.incident
  /\ r.id = h.id /\ h.approved /\ r.plan = s.basis.plan
  /\ r.rev = h.rev /\ h.action = s.basis.plan.action

\* _validate_approval_binding()
ApprovalBinding(s) ==
  LET r == s.request h == s.record IN
  /\ s.basis.incident # 0
  /\ r.incident = s.basis.incident /\ h.incident = s.basis.incident
  /\ r.id = h.id /\ h.approved /\ r.plan = s.basis.plan
  /\ r.rev = h.rev /\ h.action = s.basis.plan.action
  /\ Buildable(s.basis) /\ Request(s.basis) = r

\* _validate_previous_result(): a finished execution of this very approval is
\* reused; any other recorded attempt forbids a second one.
PreviousResult(s) ==
  IF s.result.status = "none" THEN "execute"
  ELSE IF s.result.id # s.request.id \/ s.result.action # s.basis.plan.action
          \/ s.result.kind # s.basis.plan.kind THEN "deny"
  ELSE IF s.result.status \in {"succeeded", "already_applied"} THEN "reuse"
  ELSE "deny"

\* validate_execution_authorization()
Authorization(s) ==
  IF /\ ApprovedState(s) /\ s.basis.plan.action \in Executable
     /\ ApprovalBinding(s)
     /\ PlanValid(s.basis.plan, s.basis.diagnosis, s.basis.evidence)
  THEN PreviousResult(s) ELSE "deny"

-----------------------------------------------------------------------------
\* Whatever part of the state was replaced since a human approved the basis b0,
\* a write is authorised only for the approved plan on the approved evidence,
\* diagnosis and run, for a plan that is still valid on them, and only while no
\* attempt under the approval is recorded.
AuthorizedIsApproved(b0, s) ==
  Authorization(s) = "execute" =>
    /\ s.record.approved
    /\ s.basis.incident = b0.incident /\ s.basis.run = b0.run
    /\ s.basis.plan = b0.plan /\ s.basis.diagnosis = b0.diagnosis
    /\ s.basis.evidence = b0.evidence
    /\ s.result.status = "none"
=============================================================================
