------------------------- MODULE RecoveryVerification -------------------------
(***************************************************************************)
(* Whether a change helped: agent/verification.py polls the patched        *)
(* resources, agent/business_recovery.py then takes one fresh sample of    *)
(* resources and registered checks and binds it to the change, and         *)
(* services/recheck_service.py judges a later sample on its own.           *)
(***************************************************************************)
EXTENDS DiagnosisPolicy

\* A live reading of the patched object, its Pods and its endpoints.
\* api is FALSE when a call for it failed.
Reading == [api: BOOLEAN, selector: SelectorCase, probe: ProbeCase, endpoints: Nat,
            gen: Nat, observed: Nat, desired: Nat, updated: Nat, available: Nat,
            readyPods: Nat]

Reachable(r) == r.endpoints > 0

\* _observe_selector()
ObserveSelector(r) == r.selector = "registered" /\ Reachable(r)

\* The controller has seen the change and all replicas carry it.
RolloutComplete(r) ==
  /\ r.observed >= r.gen /\ r.desired > 0
  /\ r.updated >= r.desired /\ r.available >= r.desired /\ r.readyPods >= r.desired

\* _observe_readiness(): path and port are compared, the scheme is not.
ObserveReadiness(r) ==
  r.probe \in {"registered", "scheme"} /\ RolloutComplete(r) /\ Reachable(r)

Observe(action, r) ==
  IF action = "patch_service_selector" THEN ObserveSelector(r) ELSE ObserveReadiness(r)

\* Readings until one succeeds, an API call fails or the time is up.
Poll(action, readings) ==
  LET stops == {i \in DOMAIN readings : ~readings[i].api \/ Observe(action, readings[i])}
      first == CHOOSE i \in stops : \A j \in stops : i <= j
  IN IF stops = {} THEN "timeout"
     ELSE IF ~readings[first].api THEN "failed" ELSE "succeeded"

\* KubernetesRecoveryVerifier.verify()
VerifyResources(action, result, readings) ==
  IF result.action # action THEN "failed"
  ELSE IF result.status \notin {"succeeded", "already_applied"} THEN "skipped"
  ELSE Poll(action, readings)

-----------------------------------------------------------------------------
\* An endpoint that says in every respect that its Pod is going away.
Departing(x) == x.pod /\ x.addressed /\ x.terminating /\ ~x.ready /\ ~x.serving

\* Mutant: a Pod that is not ready and does not serve is taken for a leaving one.
NotServing(e) ==
  IF ~MatchedProfile(e) THEN {}
  ELSE {p \in OwnedPods(e) : /\ e.pods[p].ready = "no" /\ e.pods[p].ip
                             /\ \A x \in e.pods[p].ends : ~x.ready /\ ~x.serving}

\* Pods of the registered Deployment that are explicitly leaving.
Excluded(e) ==
  IF ~MatchedProfile(e) THEN {}
  ELSE {p \in OwnedPods(e) : /\ e.pods[p].ready = "no" /\ e.pods[p].ip
                             /\ e.pods[p].ends # {}
                             /\ \A x \in e.pods[p].ends : Departing(x)}

\* recovery_resource_view()
RecoveryView(e) ==
  [e EXCEPT !.pods = [p \in PodName |->
     IF p \in Excluded(e) THEN [e.pods[p] EXCEPT !.listed = FALSE] ELSE e.pods[p]]]

\* A write, as its result tells it: uid and gen of the answer are 0 in results
\* that predate them; patched says that a patch body was recorded.
Write == [action: {"patch_service_selector", "patch_readiness_probe"},
          status: {"succeeded", "already_applied", "conflict", "failed"},
          patched: BOOLEAN, uid: Nat, gen: Nat]

\* The generation the sample has to show; 0 when none is acceptable.
ExpectedGeneration(orig, a) ==
  IF a.action # "patch_readiness_probe" THEN orig.gen
  ELSE IF a.uid # 0 THEN a.gen
  ELSE IF ~a.patched THEN orig.gen
  ELSE IF orig.gen = 0 THEN 0 ELSE orig.gen + 1

\* Mutant: the same name is taken for the same object.
BoundByName(orig, a, e) ==
  /\ e.snap.status = "matched"
  /\ orig.digest # 0 /\ orig.digest = e.snap.digest

\* The sample is of the objects that were diagnosed and changed.
Bound(orig, a, e) ==
  /\ a.uid # 0 => a.uid = IF a.action = "patch_readiness_probe" THEN e.snap.uid
                          ELSE IF e.svcs = 1 THEN e.svc.uid ELSE 0
  /\ e.snap.status = "matched"
  /\ orig.digest # 0 /\ orig.uid # 0
  /\ orig.digest = e.snap.digest /\ orig.uid = e.snap.uid
  /\ ExpectedGeneration(orig, a) # 0
  /\ e.snap.gen = ExpectedGeneration(orig, a)

ResourcesOk(f) == /\ f.resource = "ready" /\ f.readiness = "matched"
                  /\ ~f.selectorDrift /\ ~ReadinessDrift(f) /\ f.faults = {}

\* BusinessRecoveryVerifier.verify(); resources is what the polling returned.
VerifyRecovery(resources, orig, a, e) ==
  LET f == DiagnosticFacts(RecoveryView(e)) IN
  IF resources # "succeeded" THEN resources
  ELSE IF Bound(orig, a, e) /\ ResourcesOk(f) /\ f.business = "passed"
    THEN "succeeded" ELSE "failed"

-----------------------------------------------------------------------------
\* IncidentRecheckService.create(): judged without reference to the write.
\* Mutant: Pods that are leaving count.
RecheckAll(e) ==
  LET f == DiagnosticFacts(e) IN
  IF f.resource = "ready" /\ f.business = "passed" /\ f.faults = {} THEN "passed"
  ELSE IF f.resource = "not_ready" \/ f.business = "failed" THEN "failed" ELSE "unknown"

RecheckStatus(e) ==
  LET f == DiagnosticFacts(RecoveryView(e)) IN
  IF /\ f.resource = "ready" /\ f.business = "passed" /\ f.readiness = "matched"
     /\ ~f.selectorDrift /\ f.faults = {} THEN "passed"
  ELSE IF \/ f.resource = "not_ready" \/ f.business = "failed" \/ f.selectorDrift
          \/ ReadinessDrift(f) \/ f.faults # {} THEN "failed"
  ELSE "unknown"

\* compare_targets(): 0 is a field that was not captured.
CompareTargets(a, b) ==
  IF \E k \in {"digest", "uid", "gen"} : a[k] # 0 /\ b[k] # 0 /\ a[k] # b[k] THEN "changed"
  ELSE IF /\ a.status = "matched" /\ b.status = "matched"
          /\ \A k \in {"digest", "uid", "gen"} : a[k] # 0 /\ b[k] # 0
    THEN "same_observed_fields" ELSE "unknown"

-----------------------------------------------------------------------------
\* A Pod that may stay unready in a recovered service: its removal has begun and
\* no endpoint sends it traffic.
Leaving(pod) == /\ pod.ends # {} /\ \A x \in pod.ends : x.terminating /\ ~x.ready /\ ~x.serving

\* A verified recovery is one: the sample is of the Deployment that was
\* diagnosed, at the generation the write left it, with the registered selector,
\* probe and replica count, that many Pods of it ready, every other one leaving,
\* and every registered check passed.
RecoveryIsObserved(resources, orig, a, e) ==
  VerifyRecovery(resources, orig, a, e) = "succeeded" =>
    /\ e.snap.uid = e.dep.uid /\ e.dep.uid = orig.uid /\ orig.digest = e.digest
    /\ (a.action = "patch_readiness_probe" /\ a.uid # 0) => e.dep.gen = a.gen
    /\ a.action = "patch_service_selector" => e.dep.gen = orig.gen
    /\ e.svc.selector = "registered" /\ e.dep.probe = "registered"
    /\ e.replicas # 0 => e.dep.desired = e.replicas
    /\ EnoughReady(e)
    /\ \A p \in OwnedPods(e) :
         \/ e.pods[p].ready = "yes" /\ e.pods[p].fault = "none"
         \/ Leaving(e.pods[p])
    /\ \A c \in CheckId : e.checks[c] = "passed"

\* The two judgements of one sample, written twice in the code, agree: what the
\* verifier calls recovered a recheck calls passed, and it can tell whether the target changed.
RecheckAgrees(resources, orig, a, e) ==
  VerifyRecovery(resources, orig, a, e) = "succeeded" =>
    /\ RecheckStatus(e) = "passed"
    /\ orig.status = "matched" => CompareTargets(orig, e.snap) # "unknown"
=============================================================================
