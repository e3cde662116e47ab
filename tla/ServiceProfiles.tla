--------------------------- MODULE ServiceProfiles ---------------------------
(***************************************************************************)
(* What is known of the requested service when a decision is taken: the    *)
(* registered profile (service_profiles/registry.py), the evidence the     *)
(* collector normalised (agent/collector_adapter.py) and the identity      *)
(* checks of agent/target_identity.py.                                     *)
(*                                                                         *)
(* One registered Deployment, one requested Service and a few Pods.  An    *)
(* item stands for the error-free evidence item of its resource; uid 0 and *)
(* gen 0 are values the API did not return.  A selector or a probe is the  *)
(* way it compares with the registered one.                                *)
(***************************************************************************)
EXTENDS Integers, FiniteSets

CONSTANT PodName, CheckId

\* "untyped" is a selector that is not a mapping.
SelectorCase == {"registered", "drifted", "untyped"}

\* The collected readinessProbe: "null" is an explicit null, "absent" a missing
\* key, "partial" a probe without path or port, "scheme" one whose scheme is
\* not the registered one, "address" one whose path or port is not.
ProbeCase == {"registered", "address", "scheme", "null", "absent", "partial"}

Faults == {"crash_loop_backoff", "image_pull_backoff", "oom_killed"}

\* An EndpointSlice entry whose target is the Pod.
Endpoint == [pod: BOOLEAN, addressed: BOOLEAN, terminating: BOOLEAN,
             ready: BOOLEAN, serving: BOOLEAN]

\* fault is the category of the state the container is in now, past the one of
\* its last termination.
Pod == [listed: BOOLEAN, owned: BOOLEAN, ready: {"yes", "no", "unknown"},
        fault: Faults \cup {"none"}, past: Faults \cup {"none"},
        ip: BOOLEAN, ends: SUBSET Endpoint, log: BOOLEAN]

\* A negative desired count stands for one that was not returned.
Deployment == [assoc: BOOLEAN, version: BOOLEAN, images: BOOLEAN, labels: BOOLEAN,
               uid: Nat, gen: Nat, container: BOOLEAN, probe: ProbeCase,
               desired: Int, ready: Nat, available: Nat]

Service == [own: BOOLEAN, selector: SelectorCase, uid: Nat]

\* Results of the registered checks as collected; see BusinessChecks.
CheckCase == {"missing", "passed", "failed", "unknown", "unbound", "hollow"}

\* service_profile of the state: the profile's digest when it was saved and the
\* Deployment it was matched with.
Snapshot == [status: {"matched", "mismatch", "unavailable"},
             digest: Nat, uid: Nat, gen: Nat]

\* digest: of the profile kept in the snapshot; target: it names the requested
\* service; deps and svcs: items found under their names.
Evidence == [snap: Snapshot, digest: Nat, target: BOOLEAN,
             deps: 0..2, dep: Deployment, svcs: 0..2, svc: Service,
             pods: [PodName -> Pod], replicas: Nat,
             checks: [CheckId -> CheckCase], linked: BOOLEAN]

-----------------------------------------------------------------------------
\* Reasons for which a live or collected Deployment is not the registered one.
AssessProfile(d) ==
  {r \in {"association", "identity", "version", "images", "selector"} :
     \/ r = "association" /\ ~d.assoc
     \/ r = "identity" /\ (d.uid = 0 \/ d.gen = 0)
     \/ r = "version" /\ ~d.version
     \/ r = "images" /\ ~d.images
     \/ r = "selector" /\ ~d.labels}

MakeSnapshot(digest, d) ==
  [status |-> IF AssessProfile(d) = {} THEN "matched" ELSE "mismatch",
   digest |-> digest, uid |-> d.uid, gen |-> d.gen]

Unavailable == [status |-> "unavailable", digest |-> 0, uid |-> 0, gen |-> 0]

\* collect_profile(): no registration, or a Deployment that cannot be read.
CollectProfile(registered, digest, readable, d) ==
  IF ~registered THEN Unavailable
  ELSE IF ~readable THEN [Unavailable EXCEPT !.digest = digest]
  ELSE MakeSnapshot(digest, d)

\* Mutant: the snapshot's Deployment is not compared with the evidence.
MatchedProfileUnpinned(e) ==
  /\ e.snap.status = "matched" /\ e.target
  /\ e.snap.digest = e.digest
  /\ e.deps = 1 /\ AssessProfile(e.dep) = {}

\* The saved profile still describes the collected Deployment.
MatchedProfile(e) ==
  /\ e.snap.status = "matched" /\ e.target
  /\ e.snap.digest = e.digest
  /\ e.deps = 1 /\ AssessProfile(e.dep) = {}
  /\ e.snap.uid = e.dep.uid /\ e.snap.gen = e.dep.gen

-----------------------------------------------------------------------------
\* The identity of the object a plan changes, 0 when missing or ambiguous.
ObservedTargetUid(e, kind) ==
  IF kind = "Service" THEN IF e.svcs = 1 /\ e.svc.own THEN e.svc.uid ELSE 0
  ELSE IF kind = "Deployment" /\ e.deps = 1 /\ e.dep.assoc THEN e.dep.uid ELSE 0

\* bind_target(): linked says that the UIDs recorded along owner chains and
\* endpoint slices do not contradict the collected Pods, Deployments and
\* Services (validate_relationships).
BindsTarget(e, kind, uid) ==
  /\ ObservedTargetUid(e, kind) # 0
  /\ uid \in {0, ObservedTargetUid(e, kind)}
  /\ e.linked
=============================================================================
