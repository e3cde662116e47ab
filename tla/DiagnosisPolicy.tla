--------------------------- MODULE DiagnosisPolicy ---------------------------
(***************************************************************************)
(* agent/diagnosis_policy.py: the facts a program computes from collected  *)
(* evidence, and the gate a generated diagnosis has to pass.  Also the     *)
(* reference checks of agent/nodes.py and the two reports the program      *)
(* writes itself.                                                          *)
(***************************************************************************)
EXTENDS ServiceProfiles

\* One evidence identifier per item: "svc", "dep", "ep", "log" and the names of
\* the Pods and checks.
EvidenceId == {"svc", "dep", "ep", "log"} \cup PodName \cup CheckId

Category == Faults \cup {"readiness_probe_error", "service_selector_mismatch",
                         "application_error", "dependency_error",
                         "no_fault_detected", "unknown"}

Domain == {"deployment_configuration", "application_runtime", "dependency",
           "insufficient_evidence", "none"}

Hypothesis == [supported: BOOLEAN, ids: SUBSET EvidenceId]

\* assessed: schema v2; follow: missing evidence and next investigation are
\* both stated; low: confidence at most 0.6; ids: evidence_ids; mentioned:
\* identifiers anywhere in the text; books: runbooks cited.
Diagnosis == [category: Category, assessed: BOOLEAN, domain: Domain,
              resource: {"ready", "not_ready", "unknown"},
              business: {"passed", "failed", "unknown"},
              ids: SUBSET EvidenceId, mentioned: SUBSET EvidenceId,
              symptoms: SUBSET EvidenceId, hypotheses: SUBSET Hypothesis,
              follow: BOOLEAN, low: BOOLEAN, books: SUBSET {"book", "unknown book"}]

DiagnosisDomains(c) ==
  CASE c \in {"service_selector_mismatch", "readiness_probe_error"} ->
         {"deployment_configuration"}
    [] c \in {"application_error", "crash_loop_backoff", "oom_killed"} ->
         {"application_runtime"}
    [] c = "dependency_error" -> {"dependency"}
    [] c = "unknown" -> {"insufficient_evidence"}
    [] c = "no_fault_detected" -> {"none"}
    [] c = "image_pull_backoff" ->
         {"deployment_configuration", "dependency", "insufficient_evidence"}

ConfigurationCategory == {"service_selector_mismatch", "readiness_probe_error"}

-----------------------------------------------------------------------------
\* The Pods that are evidence about the registered Deployment.
Owned(e) == {p \in PodName : e.pods[p].owned}
OwnedPods(e) == {p \in Owned(e) : e.pods[p].listed}

ServiceValid(e) == e.svcs = 1 /\ e.svc.own /\ e.svc.selector # "untyped"
SelectorDrift(e) == ServiceValid(e) /\ e.svc.selector # "registered"

\* readiness_configuration_facts() of the registered container; a container
\* that is not there has no probe key either.
Probe(e) == IF e.dep.container THEN e.dep.probe ELSE "absent"
ReadinessStatus(e) ==
  CASE Probe(e) \in {"absent", "partial"} -> "unknown"
    [] Probe(e) = "registered" -> "matched"
    [] OTHER -> "drift"

\* What the collector saw of the checks, and what that is worth as evidence.
CheckStatus(c) == IF c \in {"passed", "failed"} THEN c ELSE "unknown"

BusinessStatus(e) ==
  LET seen == {CheckStatus(e.checks[c]) : c \in CheckId}
  IN IF "failed" \in seen THEN "failed"
     ELSE IF seen = {"passed"} THEN "passed" ELSE "unknown"

\* Mutant: a scale-down redefines how many replicas are enough.
NotReadyLive(e) ==
  \/ e.dep.desired = 0
  \/ e.dep.ready < e.dep.desired \/ e.dep.available < e.dep.desired
  \/ SelectorDrift(e) \/ ReadinessStatus(e) = "drift"
  \/ \E p \in OwnedPods(e) : e.pods[p].ready = "no"

NotReady(e) ==
  \/ e.dep.desired = 0
  \/ e.replicas # 0 /\ e.dep.desired # e.replicas
  \/ e.dep.ready < e.dep.desired \/ e.dep.available < e.dep.desired
  \/ SelectorDrift(e) \/ ReadinessStatus(e) = "drift"
  \/ \E p \in OwnedPods(e) : e.pods[p].ready = "no"

ReadyEndpoint(e) == \E p \in Owned(e) : \E x \in e.pods[p].ends : x.ready

ResourceStatus(e) ==
  IF e.dep.desired < 0 THEN "unknown"
  ELSE IF NotReady(e) THEN "not_ready"
  ELSE IF /\ ServiceValid(e) /\ ReadinessStatus(e) = "matched"
          /\ Cardinality(OwnedPods(e)) >= e.dep.desired
          /\ \A p \in OwnedPods(e) : e.pods[p].ready = "yes"
          /\ ReadyEndpoint(e)
  THEN "ready" ELSE "unknown"

NoFacts == [matched |-> FALSE, resource |-> "unknown", business |-> "unknown",
            selectorDrift |-> FALSE, readiness |-> "unknown", patchable |-> FALSE,
            confIds |-> {}, bizIds |-> {}, resIds |-> {}, logIds |-> {},
            faults |-> {}, complete |-> FALSE]

\* diagnostic_facts().  Evidence that does not fit the profile yields nothing.
DiagnosticFacts(e) ==
  IF ~MatchedProfile(e) THEN NoFacts
  ELSE [matched |-> TRUE, resource |-> ResourceStatus(e), business |-> BusinessStatus(e),
        selectorDrift |-> SelectorDrift(e), readiness |-> ReadinessStatus(e),
        patchable |-> Probe(e) = "address",
        confIds |-> {"dep"} \cup IF ServiceValid(e) THEN {"svc"} ELSE {},
        bizIds |-> {c \in CheckId : e.checks[c] # "missing"},
        resIds |-> {"dep", "ep"} \cup OwnedPods(e),
        logIds |-> IF \E p \in Owned(e) : e.pods[p].log THEN {"log"} ELSE {},
        faults |-> {e.pods[p].fault : p \in OwnedPods(e)} \ {"none"},
        complete |-> ServiceValid(e) /\ Probe(e) \in {"registered", "address", "scheme"}]

ReadinessDrift(f) == f.readiness = "drift"
Drift(f, c) == IF c = "service_selector_mismatch" THEN f.selectorDrift ELSE ReadinessDrift(f)

-----------------------------------------------------------------------------
Available(e) == (IF e.svcs > 0 THEN {"svc"} ELSE {}) \cup (IF e.deps > 0 THEN {"dep"} ELSE {})
  \cup {"ep"} \cup {p \in PodName : e.pods[p].listed} \cup {c \in CheckId : e.checks[c] # "missing"}
  \cup (IF \E p \in PodName : e.pods[p].log THEN {"log"} ELSE {})

\* reconcile_declared_evidence(): what the text mentions is indexed if it exists.
Reconciles(d, e) == d.mentioned \ d.ids \subseteq Available(e)
Reconciled(d) == [d EXCEPT !.ids = @ \cup d.mentioned]

\* validate_diagnosis_references()
ReferencesValid(d, e) ==
  /\ d.ids \subseteq Available(e) /\ d.books \subseteq {"book"}
  /\ d.mentioned \subseteq d.ids
  /\ \/ d.category \in {"unknown", "no_fault_detected", "application_error", "dependency_error"}
     \/ d.books # {}

\* Each supported hypothesis of a configuration diagnosis carries the evidence.
Supported(d, f) == \E h \in d.hypotheses : h.supported /\ f.confIds \subseteq h.ids

GroundedConfiguration(d, f) ==
  /\ d.category \in ConfigurationCategory /\ Drift(f, d.category) /\ f.complete
  /\ f.business # "failed" /\ f.faults = {} /\ Supported(d, f)

\* What a diagnosis of this category has to show beyond its references.
CategoryHolds(d, f) ==
  CASE d.category \in ConfigurationCategory ->
         /\ Drift(f, d.category) /\ f.confIds \subseteq d.ids
         /\ \A h \in d.hypotheses : h.supported => f.confIds \subseteq h.ids
    [] d.category = "no_fault_detected" ->
         /\ f.resource = "ready" /\ f.business = "passed"
         /\ ~ReadinessDrift(f) /\ f.faults = {}
         /\ f.resIds \subseteq d.ids /\ d.hypotheses = {}
    [] d.category = "unknown" -> d.low
    [] d.category = "application_error" -> f.business = "failed" \/ f.faults # {}
    [] d.category \in Faults -> d.category \in f.faults
    [] d.category = "dependency_error" ->
         /\ f.resource = "not_ready" \/ f.business = "failed"
         /\ f.logIds \cap d.ids # {} /\ d.hypotheses # {}

\* validate_diagnosis_assessment()
AssessmentValid(d, e) ==
  LET f == DiagnosticFacts(e) IN
  /\ d.assessed
  /\ d.resource = f.resource /\ d.business = f.business
  /\ d.symptoms \subseteq d.ids /\ \A h \in d.hypotheses : h.ids \subseteq d.ids
  /\ f.bizIds \subseteq d.ids
  /\ d.domain \in DiagnosisDomains(d.category)
  /\ CategoryHolds(d, f)
  /\ d.category = "no_fault_detected" \/ GroundedConfiguration(d, f) \/ d.follow
  /\ d.category \in ConfigurationCategory \/ \A h \in d.hypotheses : ~h.supported

-----------------------------------------------------------------------------
CanReportInsufficientEvidence(f) ==
  /\ f.matched /\ f.complete /\ f.resource = "not_ready" /\ f.business = "unknown"
  /\ ~f.selectorDrift /\ ~ReadinessDrift(f) /\ f.faults = {}
  /\ f.bizIds # {} /\ f.resIds # {}

Report(category, f, ids, symptoms, hypotheses) ==
  [category |-> category, assessed |-> TRUE,
   domain |-> CHOOSE x \in DiagnosisDomains(category) : TRUE,
   resource |-> f.resource, business |-> f.business, ids |-> ids, mentioned |-> ids,
   symptoms |-> symptoms, hypotheses |-> hypotheses, follow |-> TRUE, low |-> TRUE,
   books |-> {}]

\* Mutant: the report cites the resources and leaves the checks out.
InsufficientEvidenceResources(f) == Report("unknown", f, f.resIds, f.resIds, {})

\* The report written without a model when nothing explains the symptoms.
InsufficientEvidenceDiagnosis(f) ==
  Report("unknown", f, f.resIds \cup f.bizIds, f.resIds \cup f.bizIds, {})

\* build_controlled_report(): a failed registered check is told in the
\* program's words, with the confidence of the model.
ControlledReport(d, e) ==
  LET f == DiagnosticFacts(e) IN
  IF d.category # "application_error" \/ f.business # "failed" THEN d
  ELSE [Report("application_error", f, d.ids \cup f.bizIds \cup f.resIds \cup f.confIds,
               {c \in f.bizIds : e.checks[c] = "failed"},
               {[supported |-> FALSE, ids |-> f.bizIds]}) EXCEPT !.low = d.low]

\* What one answer of the model becomes: a report, or a rejected answer.
Accepts(d, e) ==
  /\ Reconciles(d, e)
  /\ ReferencesValid(Reconciled(d), e) /\ AssessmentValid(Reconciled(d), e)
  /\ LET r == ControlledReport(Reconciled(d), e)
     IN ReferencesValid(r, e) /\ AssessmentValid(r, e)
Accepted(d, e) == ControlledReport(Reconciled(d), e)

-----------------------------------------------------------------------------
\* As many replicas as are asked for, by the Deployment's own account and by the
\* Pods of it that were seen, and traffic reaches one of its Pods.
EnoughReady(e) ==
  /\ e.dep.desired > 0
  /\ e.dep.ready >= e.dep.desired /\ e.dep.available >= e.dep.desired
  /\ Cardinality({p \in OwnedPods(e) : e.pods[p].ready = "yes"}) >= e.dep.desired
  /\ \E p \in Owned(e) : \E x \in e.pods[p].ends : x.ready

\* A report that nothing is wrong is never accepted while the evidence shows a
\* drift, a replica that is missing, not registered or not ready, a Pod of the
\* Deployment that is not ready or failing, no ready endpoint of such a Pod, or a
\* registered check that did not pass.
HealthReportIsTrue(d, e) ==
  Accepts(d, e) /\ d.category = "no_fault_detected" =>
    /\ e.snap.status = "matched" /\ e.snap.uid = e.dep.uid /\ e.snap.gen = e.dep.gen
    /\ e.svc.selector = "registered" /\ e.dep.container /\ e.dep.probe = "registered"
    /\ e.replicas # 0 => e.dep.desired = e.replicas
    /\ EnoughReady(e)
    /\ \A p \in OwnedPods(e) : e.pods[p].ready = "yes" /\ e.pods[p].fault = "none"
    /\ \A c \in CheckId : e.checks[c] = "passed"

\* The program's own reports pass the gate it holds generated answers to: the
\* report written without a model, and the rewritten report of a failed check.
OwnReportsPass(d, e) ==
  LET f == DiagnosticFacts(e)
      own == InsufficientEvidenceDiagnosis(f)
      rewritten == ControlledReport(d, e)
  IN /\ CanReportInsufficientEvidence(f) =>
          ReferencesValid(own, e) /\ AssessmentValid(own, e)
     /\ ReferencesValid(d, e) /\ AssessmentValid(d, e) =>
          ReferencesValid(rewritten, e) /\ AssessmentValid(rewritten, e)
=============================================================================
