-------------------------- MODULE RemediationPolicy --------------------------
(***************************************************************************)
(* agent/remediation_policy.py: which actions the evidence and the accepted *)
(* diagnosis allow, and the checks a generated plan passes before anybody   *)
(* is asked to approve it.                                                  *)
(***************************************************************************)
EXTENDS DiagnosisPolicy

Executable == {"patch_readiness_probe", "patch_service_selector"}
Action == Executable \cup {"manual_investigation"}

\* A selector or probe of a plan compares with the registered one as the
\* evidence does; "repeated" has a duplicate label key, "none" is an omitted one.
Setting == SelectorCase \cup ProbeCase \cup {"repeated", "none"}

\* ns: in the safe namespace, which the request names too; named: the resource
\* is the requested Service, the registered Deployment or a collected Pod;
\* container: it is the registered one; repeats: an identifier is cited twice;
\* command: some text holds a shell command.
Plan == [action: Action, ns: BOOLEAN, kind: {"Service", "Deployment", "Pod"},
         named: BOOLEAN, container: BOOLEAN, current: Setting, proposed: Setting,
         uid: Nat, ids: SUBSET EvidenceId, books: SUBSET {"book", "unknown book"},
         repeats: BOOLEAN, risk: {"low", "medium", "high"}, approval: BOOLEAN,
         steps: BOOLEAN, command: BOOLEAN]

ActionsByCategory(c) ==
  CASE c = "readiness_probe_error" -> {"manual_investigation", "patch_readiness_probe"}
    [] c = "service_selector_mismatch" -> {"manual_investigation", "patch_service_selector"}
    [] c \in {"unknown", "no_fault_detected"} -> {}
    [] OTHER -> {"manual_investigation"}

\* The evidence shows a difference that the writer of the action can remove.
ReadinessCandidate(e) == DiagnosticFacts(e).patchable
SelectorCandidate(e) == MatchedProfile(e) /\ e.svcs = 1 /\ e.svc.selector = "drifted"
Candidate(action, e) ==
  IF action = "patch_readiness_probe" THEN ReadinessCandidate(e) ELSE SelectorCandidate(e)

\* Mutant: drift alone justifies the write.
DriftJustifies(d, e) == AssessmentValid(d, e)

\* No contradicting evidence, and a supported hypothesis carries the claim.
WritesJustified(d, e) ==
  LET f == DiagnosticFacts(e) IN
  /\ AssessmentValid(d, e)
  /\ f.complete /\ f.business # "failed" /\ f.faults = {}
  /\ Supported(d, f)

\* get_allowed_remediation_actions()
AllowedActions(d, e) ==
  {a \in ActionsByCategory(d.category) :
     a \in Executable => Candidate(a, e) /\ WritesJustified(d, e)}

-----------------------------------------------------------------------------
\* _validate_references()
PlanReferences(p, d, e) ==
  /\ ~p.repeats
  /\ p.ids \subseteq Available(e) \cap d.ids
  /\ p.books \subseteq {"book"} \cap d.books

\* _validate_target()
PlanTarget(p, e) ==
  /\ p.ns /\ p.named
  /\ \/ p.kind = "Service" /\ e.svcs > 0
     \/ p.kind = "Deployment" /\ e.deps > 0
     \/ p.kind = "Pod" /\ \E x \in PodName : e.pods[x].listed

\* _validate_action_metadata()
PlanMetadata(p) ==
  IF p.action \in Executable THEN p.approval /\ p.risk = "medium"
  ELSE ~p.approval /\ p.risk = "low"

ManualInvestigation(p) == p.steps /\ p.proposed = "none"

\* A probe without a path cannot be named as the current one.
ReadinessPlan(p, e) ==
  /\ p.kind = "Deployment" /\ p.container /\ e.dep.container
  /\ p.current \in {"registered", "address", "scheme"} /\ p.current = e.dep.probe
  /\ p.proposed \in ProbeCase \ {"absent", "null", "partial"}
  /\ p.current # p.proposed

SelectorPlan(p, e) ==
  /\ p.kind = "Service" /\ p.named
  /\ p.current = e.svc.selector
  /\ p.proposed \in {"registered", "drifted"}

\* Mutant: any well-formed target value may be proposed.
AnyValue(p) == p.ns

\* validate_profile_action(): only the registered setting of the registered
\* object may be written.
ProfileAction(p) ==
  /\ p.ns
  /\ p.action = "patch_service_selector" =>
       p.kind = "Service" /\ p.named /\ p.proposed = "registered"
  /\ p.action = "patch_readiness_probe" =>
       p.kind = "Deployment" /\ p.named /\ p.container /\ p.proposed = "registered"

\* validate_remediation_plan()
PlanValid(p, d, e) ==
  /\ p.action \in AllowedActions(d, e)
  /\ PlanReferences(p, d, e) /\ PlanTarget(p, e)
  /\ p.uid # 0 => BindsTarget(e, p.kind, p.uid)
  /\ ~p.command /\ PlanMetadata(p)
  /\ p.action \in Executable =>
       /\ DiagnosticFacts(e).confIds \subseteq p.ids /\ p.books # {}
       /\ MatchedProfile(e) /\ ProfileAction(p)
  /\ p.action = "manual_investigation" => ManualInvestigation(p)
  /\ p.action = "patch_readiness_probe" => ReadinessPlan(p, e)
  /\ p.action = "patch_service_selector" => SelectorPlan(p, e)

-----------------------------------------------------------------------------
\* What prepare_remediation_plan() needs before it completes a write plan.
Completable(p, d, e) ==
  LET f == DiagnosticFacts(e) IN
  /\ p.action \in AllowedActions(d, e)
  /\ MatchedProfile(e) /\ ProfileAction(p)
  /\ f.complete /\ f.confIds # {}
  /\ f.confIds \subseteq Available(e) \cap d.ids
  /\ p.ids \cap f.confIds # {}
  /\ BindsTarget(e, p.kind, p.uid)

\* The configuration evidence is added and the observed identity written down.
Completed(p, e) ==
  IF p.action \notin Executable THEN p
  ELSE [p EXCEPT !.ids = @ \cup DiagnosticFacts(e).confIds,
                 !.uid = ObservedTargetUid(e, p.kind)]

Prepares(p, d, e) ==
  /\ PlanReferences(p, d, e)
  /\ p.action \in Executable => Completable(p, d, e)
  /\ PlanValid(Completed(p, e), d, e)

-----------------------------------------------------------------------------
\* From a generated diagnosis and a generated plan to a plan shown to a human: a
\* write is proposed only for the registered application, for the very setting
\* whose drift was collected, to the registered value, on the collected object,
\* and never while a check failed or a Pod of the Deployment is failing.
WriteIsGrounded(p, d, e) ==
  (p.action \in Executable /\ Accepts(d, e) /\ Prepares(p, Accepted(d, e), e)) =>
    LET q == Completed(p, e) IN
    /\ e.snap.status = "matched" /\ e.snap.uid = e.dep.uid /\ e.snap.gen = e.dep.gen
    /\ e.dep.version /\ e.dep.images /\ e.dep.container
    /\ q.approval /\ q.proposed = "registered" /\ {"dep", "svc"} \subseteq q.ids
    /\ \/ q.action = "patch_service_selector" /\ q.current = "drifted"
          /\ e.svc.selector = "drifted" /\ q.uid = e.svc.uid
       \/ q.action = "patch_readiness_probe" /\ q.current = "address"
          /\ e.dep.probe = "address" /\ q.uid = e.dep.uid
    /\ q.uid # 0
    /\ \A c \in CheckId : e.checks[c] # "failed"
    /\ \A x \in OwnedPods(e) : e.pods[x].fault = "none"
=============================================================================
