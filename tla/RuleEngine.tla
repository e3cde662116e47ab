------------------------------ MODULE RuleEngine ------------------------------
(***************************************************************************)
(* The rule-based diagnosis: tools/evidence_collector.py reads the cluster *)
(* one call at a time, any of which may fail, and diagnosis/rules.py       *)
(* decides from what was read.                                             *)
(***************************************************************************)
EXTENDS Naturals, Sequences, FiniteSetsExt

CONSTANT PodName

\* waiting: the container's waiting reason; last, now: the reasons of its last
\* and its present termination; event: a failed readiness probe was reported.
PodState ==
  [running: BOOLEAN, ready: BOOLEAN, waiting: {"none", "image", "crash"},
   last: {"none", "oom", "error"}, now: {"none", "oom", "error"},
   event: BOOLEAN, endpoint: BOOLEAN]

\* What is there: the Pods, and the ones the Service's selector matches.
Cluster == [service: BOOLEAN, selector: BOOLEAN, pods: [PodName -> PodState],
            selected: SUBSET PodName]

\* The reads that fail: of the namespace and the Service, and of single Pods.
Failure == [calls: SUBSET {"list_namespace_pods", "get_service", "list_service_pods",
                           "get_endpoint_slices"},
            status: SUBSET PodName, events: SUBSET PodName]

\* collect_service_evidence(): each step goes on after a failed one, and the
\* Pods of the namespace stand in when the Service selects none.
CollectBundle(c, failed) ==
  LET service == c.service /\ "get_service" \notin failed.calls
      all == IF "list_namespace_pods" \in failed.calls THEN {} ELSE PodName
      selected == IF service /\ c.selector /\ "list_service_pods" \notin failed.calls
                  THEN c.selected ELSE {}
      names == IF selected # {} THEN selected ELSE all
  IN [service |-> service, notFound |-> ~c.service /\ "get_service" \notin failed.calls,
      selector |-> c.selector, namespacePods |-> all, servicePods |-> selected,
      slices |-> IF service /\ "get_endpoint_slices" \notin failed.calls
                 THEN {p \in PodName : c.pods[p].endpoint} ELSE {},
      statuses |-> names \ failed.status,
      events |-> {p \in names \ failed.events : c.pods[p].event},
      pods |-> c.pods]

-----------------------------------------------------------------------------
ServiceNotFound(b) == b.notFound

SelectorMismatch(b) ==
  /\ b.service /\ b.selector
  /\ b.servicePods = {} /\ b.namespacePods # {} /\ b.slices = {}

\* The reason of the last termination hides the one of the present.
TerminatedReason(p) == IF p.last # "none" THEN p.last ELSE p.now
OomKilled(b) == \E p \in b.statuses : TerminatedReason(b.pods[p]) = "oom"
ImagePull(b) == \E p \in b.statuses : b.pods[p].waiting = "image"
CrashLoop(b) == \E p \in b.statuses : b.pods[p].waiting = "crash"
ReadinessProbe(b) ==
  \E p \in b.statuses \cap b.events : b.pods[p].running /\ ~b.pods[p].ready

Healthy(b) ==
  /\ b.service /\ b.slices # {}
  /\ b.servicePods \cap b.statuses # {}
  /\ \A p \in b.servicePods \cap b.statuses : b.pods[p].running /\ b.pods[p].ready

\* Mutant: the cheap rule comes first.
HealthyFirst == <<"service_not_found", "selector_mismatch", "healthy", "oom_killed",
                  "image_pull_error", "crash_loop", "readiness_probe_error">>

RULES == <<"service_not_found", "selector_mismatch", "oom_killed", "image_pull_error",
           "crash_loop", "readiness_probe_error", "healthy">>

Applies(rule, b) ==
  CASE rule = "service_not_found" -> ServiceNotFound(b)
    [] rule = "selector_mismatch" -> SelectorMismatch(b)
    [] rule = "oom_killed" -> OomKilled(b)
    [] rule = "image_pull_error" -> ImagePull(b)
    [] rule = "crash_loop" -> CrashLoop(b)
    [] rule = "readiness_probe_error" -> ReadinessProbe(b)
    [] rule = "healthy" -> Healthy(b)

\* diagnose_evidence(): the first rule that answers.
DiagnoseEvidence(b) ==
  LET hits == {i \in DOMAIN RULES : Applies(RULES[i], b)}
  IN IF hits = {} THEN "unknown" ELSE RULES[Min(hits)]

-----------------------------------------------------------------------------
\* A list that could not be read is never taken for health: with "healthy" the
\* Service, its Pods and its endpoints were all read, there is an endpoint (of
\* whichever Pod, the rule does not compare) and a matched Pod whose status was
\* read, and none of those is not running, not ready, waiting or last killed for
\* its memory.  A matched Pod whose own status could not be read is left out:
\* that is all a failed read can hide.
HealthyIsHealthy(c, failed) ==
  LET read == c.selected \ failed.status IN
  DiagnoseEvidence(CollectBundle(c, failed)) = "healthy" =>
    /\ c.service /\ c.selector /\ failed.calls \subseteq {"list_namespace_pods"}
    /\ \E p \in PodName : c.pods[p].endpoint
    /\ read # {}
    /\ \A p \in read : /\ c.pods[p].running /\ c.pods[p].ready
                        /\ c.pods[p].waiting = "none" /\ c.pods[p].last # "oom"
=============================================================================
