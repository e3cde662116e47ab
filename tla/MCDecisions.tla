----------------------------- MODULE MCDecisions -----------------------------
(***************************************************************************)
(* Decision tables: the pure decisions of the program, for all inputs that *)
(* differ in a few respects from a sound one.  The first step chooses the  *)
(* table and the case, and the invariants judge it.                        *)
(***************************************************************************)
EXTENDS Integers, Sequences, FiniteSets

CONSTANT PodName, CheckId, NotBound

VARIABLES table, case  \* case is <<>> until one is chosen

E == INSTANCE ExecutionPolicy
V == INSTANCE RecoveryVerification
B == INSTANCE BusinessChecks
R == INSTANCE RuleEngine

\* x and the values that differ from it in one field, as alt tells.
Vary(x, alt) == {x} \cup (UNION {{[x EXCEPT ![k] = v] : v \in alt[k]} : k \in DOMAIN alt})
Vary2(x, alt) == UNION {Vary(y, alt) : y \in Vary(x, alt)}
Vary3(x, alt) == UNION {Vary(y, alt) : y \in Vary2(x, alt)}

-----------------------------------------------------------------------------
\* A business check and the parties to it.
SoundWorld ==
  [profile |-> "matched", fits |-> TRUE, late |-> FALSE, config |-> "valid",
   version |-> TRUE, slot |-> TRUE, child |-> "answers", dns |-> "pinned",
   conn |-> "open", size |-> TRUE, code |-> TRUE, body |-> "match", nonce |-> TRUE,
   after |-> "same"]

WorldAlternatives ==
  [profile |-> {"changed", "none"}, fits |-> {FALSE}, late |-> {TRUE},
   config |-> {"invalid", "unregistered", "other target"},
   version |-> {FALSE}, slot |-> {FALSE}, child |-> {"dies", "is late", "cannot start"},
   dns |-> {"other", "error"}, conn |-> {"timeout", "refused"}, size |-> {FALSE},
   code |-> {FALSE}, body |-> {"differ", "not json"}, nonce |-> {FALSE},
   after |-> {"unreadable", "service changed", "application changed"}]

-----------------------------------------------------------------------------
\* Evidence about a service: the endpoints, Pods and settings that matter.
Live == [pod |-> TRUE, addressed |-> TRUE, terminating |-> FALSE, ready |-> TRUE,
         serving |-> TRUE]
Gone == [Live EXCEPT !.terminating = TRUE, !.ready = FALSE, !.serving = FALSE]

GoodPod == [listed |-> TRUE, owned |-> TRUE, ready |-> "yes", fault |-> "none",
            past |-> "none", ip |-> TRUE, ends |-> {Live}, log |-> FALSE]
Unready == [GoodPod EXCEPT !.ready = "no", !.log = TRUE,
                           !.ends = {[Live EXCEPT !.ready = FALSE, !.serving = FALSE]}]
LeavingPod == [Unready EXCEPT !.ends = {Gone}]

PodCases ==
  {Unready, LeavingPod,
   [GoodPod EXCEPT !.listed = FALSE], [GoodPod EXCEPT !.owned = FALSE],
   [GoodPod EXCEPT !.ready = "unknown"], [GoodPod EXCEPT !.past = "oom_killed"],
   [GoodPod EXCEPT !.ends = {}],
   [Unready EXCEPT !.fault = "crash_loop_backoff"],
   [GoodPod EXCEPT !.fault = "oom_killed"],
   [LeavingPod EXCEPT !.ends = {}], [LeavingPod EXCEPT !.ip = FALSE],
   [LeavingPod EXCEPT !.ends = {[Gone EXCEPT !.addressed = FALSE]}],
   [LeavingPod EXCEPT !.ends = {[Gone EXCEPT !.serving = TRUE]}],
   [LeavingPod EXCEPT !.ends = {Gone, Live}],
   [LeavingPod EXCEPT !.fault = "crash_loop_backoff"]}

PodsCases ==
  {[p \in PodName |-> IF p = q THEN x ELSE GoodPod] :
     q \in {CHOOSE p \in PodName : TRUE}, x \in PodCases}
  \cup {[p \in PodName |-> x] : x \in {Unready, LeavingPod, [GoodPod EXCEPT !.ends = {}]}}

GoodDeployment ==
  [assoc |-> TRUE, version |-> TRUE, images |-> TRUE, labels |-> TRUE, uid |-> 1, gen |-> 1,
   container |-> TRUE, probe |-> "registered", desired |-> 2, ready |-> 2, available |-> 2]
DeploymentAlternatives ==
  [version |-> {FALSE}, images |-> {FALSE}, uid |-> {0, 2}, gen |-> {2},
   probe |-> E!ProbeCase \ {"registered"}, desired |-> {-1, 0, 1}, ready |-> {1},
   available |-> {1}]

GoodService == [own |-> TRUE, selector |-> "registered", uid |-> 3]

Checks(c) == {[k \in CheckId |-> IF k = q THEN c ELSE "passed"] : q \in CheckId}

SoundEvidence ==
  [snap |-> E!CollectProfile(TRUE, 1, TRUE, GoodDeployment), digest |-> 1, target |-> TRUE,
   deps |-> 1, dep |-> GoodDeployment, svcs |-> 1, svc |-> GoodService,
   pods |-> [p \in PodName |-> GoodPod], replicas |-> 2,
   checks |-> [c \in CheckId |-> "passed"], linked |-> TRUE]

EvidenceAlternatives(e) ==
  [snap |-> {[e.snap EXCEPT !.status = "mismatch"]},
   digest |-> {2}, target |-> {FALSE}, deps |-> {0, 2},
   dep |-> Vary(e.dep, DeploymentAlternatives),
   svcs |-> {0, 2}, svc |-> Vary(e.svc, [own |-> {FALSE}, selector |-> {"drifted", "untyped"},
                                         uid |-> {0, 4}]),
   pods |-> PodsCases, replicas |-> {0, 1}, linked |-> {FALSE},
   checks |-> (UNION {Checks(c) : c \in E!CheckCase}) \cup {[c \in CheckId |-> "unknown"]}]

VaryEvidence(e) == Vary(e, EvidenceAlternatives(e))

Drifted == [SoundEvidence EXCEPT !.svc.selector = "drifted"]
BadProbe == [SoundEvidence EXCEPT !.dep.probe = "address"]
Symptom == [SoundEvidence EXCEPT !.dep.ready = 1, !.pods = [p \in PodName |-> Unready],
                                 !.checks = [c \in CheckId |-> "unknown"]]

\* A generation later: what a fresh sample shows after a probe was patched.
Patched == [SoundEvidence EXCEPT !.dep.gen = 2, !.snap.gen = 2]

EvidenceCases ==
  (UNION {VaryEvidence(e) : e \in VaryEvidence(SoundEvidence)})
    \cup (UNION {VaryEvidence(e) : e \in VaryEvidence(Drifted) \cup VaryEvidence(BadProbe)
                                             \cup {Symptom}})
    \cup VaryEvidence([Drifted EXCEPT !.dep.probe = "address"])
    \cup VaryEvidence([Drifted EXCEPT !.checks = [c \in CheckId |-> "unknown"]])

\* One Pod has taken over from another that is on its way out.
Rolling == [Patched EXCEPT !.dep.desired = 1, !.dep.ready = 1, !.dep.available = 1,
                           !.replicas = 1]

SampleCases == (UNION {VaryEvidence(e) : e \in VaryEvidence(Patched)})
                 \cup (UNION {VaryEvidence(e) : e \in VaryEvidence(Rolling)})

-----------------------------------------------------------------------------
\* Answers of the model for a given evidence: sound ones and their variations.
DiagnosisOf(c, e) ==
  LET f == E!DiagnosticFacts(e)
      claim == [supported |-> c \in E!ConfigurationCategory,
                ids |-> IF c \in E!ConfigurationCategory THEN f.confIds ELSE {"dep"}]
  IN [category |-> c, assessed |-> TRUE, domain |-> CHOOSE x \in E!DiagnosisDomains(c) : TRUE,
      resource |-> f.resource, business |-> f.business,
      ids |-> E!Available(e), mentioned |-> {}, symptoms |-> f.bizIds,
      hypotheses |-> IF c = "no_fault_detected" THEN {} ELSE {claim},
      follow |-> TRUE, low |-> TRUE, books |-> {"book"}]

DiagnosisAlternatives(e) ==
  [assessed |-> {FALSE}, domain |-> {"none", "insufficient_evidence"},
   resource |-> {"ready"}, business |-> {"passed"},
   ids |-> {E!Available(e) \ {"svc"}, E!Available(e) \ CheckId},
   mentioned |-> {{"svc", "dep"}}, follow |-> {FALSE}, low |-> {FALSE},
   hypotheses |-> {{}, {[supported |-> FALSE, ids |-> {"dep"}]},
                   {[supported |-> TRUE, ids |-> {"dep"}]}},
   books |-> {{}, {"unknown book"}}]

Diagnoses(e) ==
  UNION {Vary(DiagnosisOf(c, e), DiagnosisAlternatives(e)) : c \in E!Category}

\* Plans of the model: a sound one for each setting, and their variations.
PlanOf(action, e) ==
  [action |-> action, ns |-> TRUE, named |-> TRUE, container |-> TRUE,
   kind |-> IF action = "patch_readiness_probe" THEN "Deployment" ELSE "Service",
   current |-> IF action = "patch_readiness_probe" THEN e.dep.probe ELSE e.svc.selector,
   proposed |-> "registered", uid |-> 0, ids |-> {"dep", "svc"}, books |-> {"book"},
   repeats |-> FALSE, risk |-> "medium", approval |-> TRUE, steps |-> FALSE,
   command |-> FALSE]

PlanAlternatives ==
  [ns |-> {FALSE}, named |-> {FALSE}, container |-> {FALSE},
   kind |-> {"Service", "Deployment", "Pod"},
   current |-> {"registered", "address", "drifted"},
   proposed |-> {"none", "drifted", "address", "repeated"}, uid |-> {1, 2, 3},
   ids |-> {{"svc"}, {"ep"}}, books |-> {{}, {"unknown book"}},
   repeats |-> {TRUE}, risk |-> {"low"}, approval |-> {FALSE}, command |-> {TRUE}]

Plans(e) == UNION {Vary(PlanOf(a, e), PlanAlternatives) : a \in E!Executable}

-----------------------------------------------------------------------------
\* Writes and the snapshot a fresh sample is compared with.
Writes ==
  {[action |-> a, status |-> s, patched |-> b, uid |-> u, gen |-> g] :
     a \in E!Executable, s \in {"succeeded", "already_applied", "failed"},
     b \in BOOLEAN, u \in {0, 1, 3}, g \in {0, 2}}

Origins == Vary(SoundEvidence.snap, [status |-> {"mismatch"}, digest |-> {0, 2},
                                     uid |-> {0, 2}, gen |-> {2}])

SoundReading == [api |-> TRUE, selector |-> "registered", probe |-> "registered", endpoints |-> 1,
                 gen |-> 2, observed |-> 2, desired |-> 2, updated |-> 2,
                 available |-> 2, readyPods |-> 2]
ReadingCases == {<<SoundReading>>, <<[SoundReading EXCEPT !.api = FALSE], SoundReading>>,
                 <<[SoundReading EXCEPT !.observed = 1], SoundReading>>,
                 <<[SoundReading EXCEPT !.probe = "scheme"]>>,
                 <<[SoundReading EXCEPT !.endpoints = 0]>>}

-----------------------------------------------------------------------------
\* Approved snapshots, and workflow states some part of which was replaced.
BasisOf(action, uid) ==
  LET e == IF action = "patch_service_selector" THEN Drifted ELSE BadProbe
      c == IF action = "patch_service_selector" THEN "service_selector_mismatch"
           ELSE "readiness_probe_error"
  IN [incident |-> 1, run |-> 0, requires |-> TRUE,
      plan |-> [PlanOf(action, e) EXCEPT
                  !.uid = IF uid THEN E!ObservedTargetUid(e, PlanOf(action, e).kind) ELSE 0],
      diagnosis |-> DiagnosisOf(c, e), evidence |-> e]

Bases == {BasisOf(a, u) : a \in E!Executable, u \in BOOLEAN}

BasisAlternatives(b) ==
  [incident |-> {0, 2}, run |-> {1}, requires |-> {FALSE},
   plan |-> Vary(b.plan, [command |-> {TRUE}, steps |-> {TRUE}, ids |-> {{"svc", "dep", "ep"}},
                          action |-> {"manual_investigation"}, uid |-> {0, 2}]),
   diagnosis |-> Vary(b.diagnosis, [assessed |-> {FALSE}, follow |-> {FALSE}, low |-> {FALSE},
                                    symptoms |-> {{}}]),
   evidence |-> Vary(b.evidence, [linked |-> {FALSE},
                  svc |-> {[b.evidence.svc EXCEPT !.uid = 4]}, pods |-> PodsCases,
                  dep |-> {[b.evidence.dep EXCEPT !.gen = 2]}])]

ResultCases(req) ==
  {[status |-> s, id |-> i, action |-> req.plan.action, kind |-> req.plan.kind] :
     s \in {"none", "succeeded", "failed"}, i \in {req.id, NotBound}}

States(b) ==
  {[phase |-> p, status |-> "approved", approved |-> a, basis |-> b1,
    request |-> E!Request(b2),
    record |-> E!Record(E!Request(b), [approved |-> a, id |-> E!Request(b).id]),
    result |-> r] :
     p \in {"approval_approved", "waiting_approval"}, a \in BOOLEAN,
     b1 \in Vary(b, BasisAlternatives(b)), b2 \in {b, [b EXCEPT !.run = 1]},
     r \in ResultCases(E!Request(b))}

-----------------------------------------------------------------------------
\* Clusters for the rule engine; what a Pod may show at one time.
PodStates ==
  {p \in R!PodState :
     /\ p.ready => p.running /\ p.waiting = "none" /\ p.now = "none"
     /\ p.waiting # "none" => p.now = "none"
     /\ p.endpoint => p.ready}

Steady == [running |-> TRUE, ready |-> TRUE, waiting |-> "none", last |-> "none",
           now |-> "none", event |-> FALSE, endpoint |-> TRUE]
Crashing == [Steady EXCEPT !.ready = FALSE, !.waiting = "crash", !.endpoint = FALSE]

Clusters ==
  LET p1 == CHOOSE p \in PodName : TRUE IN
  {[service |-> s[1], selector |-> s[2], selected |-> sel,
    pods |-> [p \in PodName |-> IF p = p1 THEN x ELSE y]] :
     s \in {<<TRUE, TRUE>>, <<TRUE, FALSE>>, <<FALSE, TRUE>>}, sel \in SUBSET PodName,
     x \in PodStates, y \in {Steady, Crashing}}

FailedReads == {f \in R!Failure :
                  Cardinality(f.calls) + Cardinality(f.status) + Cardinality(f.events) <= 2}

-----------------------------------------------------------------------------
TableInit ==
  /\ table \in {"check", "evidence", "sample", "approval", "cluster"}
  /\ case = <<>>

Choose(name, cases) == /\ table = name /\ case = <<>>
                       /\ case' \in cases
                       /\ UNCHANGED table

ChooseCheck    == Choose("check", Vary3(SoundWorld, WorldAlternatives))
ChooseEvidence == Choose("evidence", EvidenceCases)
ChooseSample   == Choose("sample", SampleCases)
ChooseApproved == Choose("approval", UNION {{b} \X States(b) : b \in Bases})
ChooseCluster  == Choose("cluster", Clusters)

TableNext == \/ ChooseCheck \/ ChooseEvidence \/ ChooseSample \/ ChooseApproved
             \/ ChooseCluster
TableSpec == TableInit /\ [][TableNext]_<<table, case>>

Holds(name, P(_)) == (table = name /\ case # <<>>) => P(case)

\* collect_business_checks reports a check as passed only if the pinned service
\* gave the registered answer in full to this very request, and as failed only if
\* it answered otherwise, with registration, Service and Deployment the same
\* before and after; no connection, DNS or child process failure becomes either.
CheckObserved == Holds("check", B!CheckIsObserved)

\* Whatever the model answers, validate_diagnosis_assessment and the gates around
\* it never accept "no_fault_detected" while the evidence at hand shows a drift,
\* fewer ready replicas or Pods than are asked for, a failing Pod, no ready
\* endpoint of a Pod of the Deployment or a check not passed.
HealthReport == Holds("evidence", LAMBDA e : \A d \in Diagnoses(e) : E!HealthReportIsTrue(d, e))

\* The reports the program writes itself, insufficient_evidence_diagnosis without
\* a model and build_controlled_report over an accepted answer, pass the gate that
\* generated answers must pass: the run never refuses its own report.
OwnReports == Holds("evidence", LAMBDA e : \A d \in Diagnoses(e) : E!OwnReportsPass(d, e))

\* From a generated diagnosis and plan, prepare_remediation_plan proposes a write
\* only for the drifted setting that was collected, to the registered value, on
\* the collected object, and never while a check failed or a Pod is failing.
\* Plans are tried where an accepted answer allows a write at all.
WriteGrounded ==
  Holds("evidence", LAMBDA e : \A d \in Diagnoses(e) :
    (E!Accepts(d, e) /\ E!AllowedActions(E!Accepted(d, e), e) \cap E!Executable # {}) =>
      \A p \in Plans(e) : E!WriteIsGrounded(p, d, e))

\* Whichever parts of the state were replaced since the approval,
\* validate_execution_authorization lets a write through only for the approved
\* plan on the approved evidence, diagnosis and run, and only while no attempt
\* under the approval is recorded.
WriteApproved == Holds("approval", LAMBDA c : E!AuthorizedIsApproved(c[1], c[2]))

\* When BusinessRecoveryVerifier.verify reports success, after any write, earlier
\* snapshot and polling, the sample is of the diagnosed Deployment at the
\* generation the write left, with selector, probe and replicas as registered,
\* that many Pods ready, the others leaving, and every registered check passed.
RecoveryObserved ==
  Holds("sample", LAMBDA e : \A a \in Writes, o \in Origins, r \in ReadingCases :
    V!RecoveryIsObserved(V!VerifyResources(a.action, a, r), o, a, e))

\* The verifier and IncidentRecheckService.create judge a sample by separate code:
\* what the first calls recovered the second calls passed, and it can then tell
\* whether the target changed.
RecheckSame ==
  Holds("sample", LAMBDA e : \A a \in Writes, o \in Origins :
    V!RecheckAgrees("succeeded", o, a, e))

\* diagnose_evidence says "healthy" only if the Service, its Pods and its endpoints
\* were read, some endpoint is there, and of the matched Pods whose status was read
\* there is one and none waits, is not ready or was killed for memory, whichever
\* two reads of the collection fail.
RuleHealthy ==
  Holds("cluster", LAMBDA c : \A failed \in FailedReads : R!HealthyIsHealthy(c, failed))
=============================================================================
