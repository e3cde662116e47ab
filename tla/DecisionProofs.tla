--------------------------- MODULE DecisionProofs ---------------------------
(***************************************************************************)
(* Proofs about the decisions: what the tables of MCDecisions show of cases *)
(* that differ in a few respects from a sound one is shown here for every   *)
(* input, any number of Pods and any registered checks.                     *)
(***************************************************************************)
EXTENDS MCDecisions, FiniteSetTheorems, TLAPS

-----------------------------------------------------------------------------
\* Business checks.
ResultFields == {"status", "http", "content", "error", "bound"}

LEMMA ErrorFields ==
  /\ DOMAIN B!Error = ResultFields /\ B!Error.status = "unknown" /\ B!Error.error = TRUE
  /\ B!Error.bound = TRUE /\ B!Error.http = "none" /\ B!Error.content = "none"
BY DEF B!Error, B!ResultBase, ResultFields

\* perform_check() says "passed" or "failed" only of an answer of the service.
LEMMA PerformedCheck ==
  ASSUME NEW w
  PROVE  LET r == B!PerformCheck(w)
             answered == w.dns = "pinned" /\ w.conn = "open" /\ w.size
         IN /\ DOMAIN r = ResultFields /\ r.bound = TRUE /\ r.status \in {"passed", "failed", "unknown"}
            /\ r.status = "passed" => /\ answered /\ w.code /\ w.body = "match"
                                      /\ r.http = "expected" /\ r.content = "yes" /\ r.error = FALSE
            /\ r.status = "failed" => answered /\ (~w.code \/ w.body # "match")
<1> DEFINE r == B!PerformCheck(w)
           http == IF w.code THEN "expected" ELSE "other"
<1>1. CASE w.dns # "pinned" \/ w.conn # "open"
  BY <1>1, ErrorFields DEF B!PerformCheck
<1>2. CASE ~(w.dns # "pinned" \/ w.conn # "open") /\ ~w.size
  <2>1. r = [B!Error EXCEPT !.http = http]
    BY <1>2 DEF B!PerformCheck
  <2> HIDE DEF r, http
  <2> QED
    BY <2>1, ErrorFields DEF ResultFields, r
<1>3. CASE ~(w.dns # "pinned" \/ w.conn # "open") /\ w.size /\ ~w.code
  <2>1. r = [B!Error EXCEPT !.http = http, !.status = "failed"]
    BY <1>3 DEF B!PerformCheck
  <2> HIDE DEF r, http
  <2> QED
    BY <1>3, <2>1, ErrorFields DEF ResultFields, r
<1>4. CASE ~(w.dns # "pinned" \/ w.conn # "open") /\ w.size /\ w.code /\ w.body # "match"
  <2>1. r = [B!Error EXCEPT !.http = http, !.status = "failed", !.content = "no"]
    BY <1>4 DEF B!PerformCheck
  <2> HIDE DEF r, http
  <2> QED
    BY <1>4, <2>1, ErrorFields DEF ResultFields, r
<1>5. CASE ~(w.dns # "pinned" \/ w.conn # "open") /\ w.size /\ w.code /\ w.body = "match"
  <2>1. r = [B!ResultBase EXCEPT !.http = "expected", !.status = "passed", !.content = "yes"]
    BY <1>5 DEF B!PerformCheck
  <2> HIDE DEF r
  <2> QED
    BY <1>5, <2>1 DEF ResultFields, r, B!ResultBase
<1> QED
  BY <1>1, <1>2, <1>3, <1>4, <1>5

LEMMA BoundedResult ==
  ASSUME NEW w
  PROVE  LET r == B!BoundedCheck(w)
             answered == w.dns = "pinned" /\ w.conn = "open" /\ w.size /\ w.child = "answers"
         IN /\ DOMAIN r = ResultFields /\ r.bound = TRUE /\ r.status \in {"passed", "failed", "unknown"}
            /\ r.status = "passed" => /\ answered /\ w.code /\ w.body = "match"
                                      /\ r.http = "expected" /\ r.content = "yes" /\ r.error = FALSE
            /\ r.status = "failed" => answered /\ (~w.code \/ w.body # "match")
BY PerformedCheck, ErrorFields DEF B!BoundedCheck

LEMMA UnavailableFields ==
  ASSUME NEW s
  PROVE  DOMAIN B!Unavailable(s) = ResultFields /\ B!Unavailable(s).bound = FALSE
BY ErrorFields DEF B!Unavailable, ResultFields

LEMMA CheckedIsObserved ==
  ASSUME NEW w
  PROVE  B!CheckIsObserved(w)
<1> DEFINE r == B!CollectOne(w)
           c == B!CollectCheck(w)
<1>1. /\ DOMAIN r = ResultFields
      /\ \/ r.bound = FALSE
         \/ r = B!BoundedCheck(w) /\ w.profile = "matched" /\ w.nonce /\ w.config = "valid"
  BY UnavailableFields, BoundedResult DEF B!CollectOne, B!ReplyBound
<1>2. \/ c = r /\ (w.after = "same" \/ ~r.bound)
      \/ c = [r EXCEPT !.status = "unknown", !.error = TRUE] /\ r.bound /\ w.after # "same"
  BY DEF B!CollectCheck
<1> HIDE DEF r
<1>3. c.bound = r.bound /\ (r.bound /\ w.after # "same" => c.status = "unknown")
  BY <1>1, <1>2 DEF ResultFields
<1> HIDE DEF c
<1>4. CASE r.bound = FALSE
  BY <1>3, <1>4 DEF B!CheckIsObserved, B!CheckEvidence, c
<1>5. CASE r.bound /\ w.after # "same"
  BY <1>3, <1>5 DEF B!CheckIsObserved, B!CheckEvidence, c
<1>6. CASE c = r /\ r = B!BoundedCheck(w) /\ w.nonce /\ w.after = "same"
  BY <1>6, BoundedResult DEF B!CheckIsObserved, B!CheckEvidence, c
<1>7. r.bound = FALSE \/ (r.bound = TRUE /\ r = B!BoundedCheck(w) /\ w.nonce)
  BY <1>1, BoundedResult
<1> QED
  BY <1>2, <1>4, <1>5, <1>6, <1>7

\* collect_business_checks(), perform_check() and call_probe(): whatever the
\* checker, its child process, the proxy and the service do, a check counts as
\* passed or failed only on an answer of the pinned, unchanged target.
THEOREM EveryCheckIsObserved == \A w \in B!World : B!CheckIsObserved(w)
BY CheckedIsObserved

\* So every case of the table does, on any number of registered checks.
THEOREM ChecksAreObserved == TableSpec => []CheckObserved
<1>1. CheckObserved
  BY CheckedIsObserved DEF CheckObserved, Holds
<1> QED
  BY <1>1, PTL

-----------------------------------------------------------------------------
\* The rule engine: the last rule answers only if no other does.
LEMMA HealthyIsLast ==
  ASSUME NEW b, R!DiagnoseEvidence(b) = "healthy"
  PROVE  R!Healthy(b) /\ ~R!OomKilled(b) /\ ~R!ImagePull(b) /\ ~R!CrashLoop(b)
<1> DEFINE hits == {i \in DOMAIN R!RULES : R!Applies(R!RULES[i], b)}
           m == R!Min(hits)
<1>1. /\ DOMAIN R!RULES = {1, 2, 3, 4, 5, 6, 7}
      /\ R!RULES[1] = "service_not_found" /\ R!RULES[2] = "selector_mismatch"
      /\ R!RULES[3] = "oom_killed" /\ R!RULES[4] = "image_pull_error" /\ R!RULES[5] = "crash_loop"
      /\ R!RULES[6] = "readiness_probe_error" /\ R!RULES[7] = "healthy"
  BY DEF R!RULES
<1>2. hits # {} /\ R!RULES[m] = "healthy"
  BY DEF R!DiagnoseEvidence
<1>3. hits \subseteq {1, 2, 3, 4, 5, 6, 7}
  BY <1>1
<1> HIDE DEF hits
<1>4. \E x \in hits : \A y \in hits : x =< y
  <2>1. hits \subseteq Nat /\ hits # {}
    BY <1>2, <1>3
  <2> SUFFICES ASSUME \A x \in hits : \E y \in hits : y < x
               PROVE  FALSE
    BY <2>1
  <2>2. 1 \notin hits
    BY <1>3
  <2>3. 2 \notin hits
    BY <1>3, <2>2
  <2>4. 3 \notin hits
    BY <1>3, <2>2, <2>3
  <2>5. 4 \notin hits
    BY <1>3, <2>2, <2>3, <2>4
  <2>6. 5 \notin hits
    BY <1>3, <2>2, <2>3, <2>4, <2>5
  <2>7. 6 \notin hits
    BY <1>3, <2>2, <2>3, <2>4, <2>5, <2>6
  <2>8. 7 \notin hits
    BY <1>3, <2>2, <2>3, <2>4, <2>5, <2>6, <2>7
  <2> QED
    BY <1>2, <1>3, <2>2, <2>3, <2>4, <2>5, <2>6, <2>7, <2>8
<1>5. m \in hits /\ \A y \in hits : m =< y
  BY <1>4 DEF R!Min
<1> HIDE DEF m
<1>6. m = 7
  BY <1>1, <1>2, <1>3, <1>5
<1>7. 7 \in hits /\ 3 \notin hits /\ 4 \notin hits /\ 5 \notin hits
  BY <1>5, <1>6
<1>8. R!Applies("healthy", b) <=> R!Healthy(b)
  BY DEF R!Applies
<1>9. R!Applies("oom_killed", b) <=> R!OomKilled(b)
  BY DEF R!Applies
<1>10. R!Applies("image_pull_error", b) <=> R!ImagePull(b)
  BY DEF R!Applies
<1>11. R!Applies("crash_loop", b) <=> R!CrashLoop(b)
  BY DEF R!Applies
<1> QED
  BY <1>1, <1>7, <1>8, <1>9, <1>10, <1>11 DEF hits

LEMMA HealthySaysHealthy ==
  ASSUME NEW c \in R!Cluster, NEW failed \in R!Failure
  PROVE  R!HealthyIsHealthy(c, failed)
<1> DEFINE b == R!CollectBundle(c, failed)
           read == c.selected \ failed.status
<1> SUFFICES ASSUME R!DiagnoseEvidence(b) = "healthy"
             PROVE  /\ c.service /\ c.selector /\ failed.calls \subseteq {"list_namespace_pods"}
                    /\ \E p \in PodName : c.pods[p].endpoint
                    /\ read # {}
                    /\ \A p \in read : /\ c.pods[p].running /\ c.pods[p].ready
                                        /\ c.pods[p].waiting = "none" /\ c.pods[p].last # "oom"
  BY DEF R!HealthyIsHealthy
<1>1. R!Healthy(b) /\ ~R!OomKilled(b) /\ ~R!ImagePull(b) /\ ~R!CrashLoop(b)
  BY HealthyIsLast
<1>2. /\ b.service => c.service /\ "get_service" \notin failed.calls
      /\ b.slices # {} => /\ "get_endpoint_slices" \notin failed.calls
                         /\ \E p \in PodName : c.pods[p].endpoint
      /\ b.servicePods # {} => /\ "list_service_pods" \notin failed.calls /\ c.selector
                              /\ b.servicePods = c.selected /\ b.statuses = read
      /\ b.pods = c.pods
  BY DEF R!CollectBundle
<1> HIDE DEF b
<1>3. /\ b.service /\ b.slices # {} /\ b.servicePods \cap b.statuses # {}
      /\ \A p \in b.servicePods \cap b.statuses : b.pods[p].running /\ b.pods[p].ready
  BY <1>1 DEF R!Healthy
<1>4. /\ c.service /\ c.selector /\ \E p \in PodName : c.pods[p].endpoint
      /\ b.servicePods \cap b.statuses = read
      /\ b.statuses = read /\ read \subseteq PodName
  BY <1>2, <1>3 DEF R!Cluster
<1>5. failed.calls \subseteq {"list_namespace_pods"}
  <2>1. failed.calls \subseteq {"list_namespace_pods", "get_service", "list_service_pods",
                               "get_endpoint_slices"}
    BY DEF R!Failure
  <2> QED
    BY <1>2, <1>3, <2>1
<1>6. ASSUME NEW p \in read
      PROVE  c.pods[p].waiting = "none" /\ c.pods[p].last # "oom"
  <2>1. c.pods[p] \in R!PodState
    BY <1>4 DEF R!Cluster
  <2>2. c.pods[p].waiting \in {"none", "image", "crash"}
    BY <2>1 DEF R!PodState
  <2>3. c.pods[p].waiting # "image" /\ c.pods[p].waiting # "crash"
    BY <1>1, <1>2, <1>4 DEF R!ImagePull, R!CrashLoop
  <2>4. c.pods[p].last # "oom"
    BY <1>1, <1>2, <1>4 DEF R!OomKilled, R!TerminatedReason
  <2> QED
    BY <2>2, <2>3, <2>4
<1> HIDE DEF read
<1> QED
  BY <1>2, <1>3, <1>4, <1>5, <1>6

\* diagnose_evidence(): whichever reads fail, of whatever cluster, "healthy" is
\* said only of a service that was read with its Pods and endpoints, that has an
\* endpoint and a matched Pod whose status was read, and every such Pod is running,
\* ready, not waiting and was not last killed for memory.
THEOREM RuleEngineIsHonest == \A c \in R!Cluster, failed \in R!Failure : R!HealthyIsHealthy(c, failed)
BY HealthySaysHealthy

\* The cases of the table, and that each was one.
CaseOf(name, S) == (table = name /\ case # <<>>) => case \in S

LEMMA ClusterCases == Clusters \subseteq R!Cluster
<1>1. PodStates \subseteq R!PodState
  BY DEF PodStates
<1>2. Steady \in R!PodState
  BY DEF Steady, R!PodState
<1>3. Crashing \in R!PodState
  BY DEF Steady, Crashing, R!PodState
<1> SUFFICES ASSUME NEW c \in Clusters
             PROVE  c \in R!Cluster
  OBVIOUS
<1> DEFINE p1 == CHOOSE p \in PodName : TRUE
           S == {<<TRUE, TRUE>>, <<TRUE, FALSE>>, <<FALSE, TRUE>>}
           T == {Steady, Crashing}
           Made(s, sel, x, y) ==
             [service |-> s[1], selector |-> s[2], selected |-> sel,
              pods |-> [p \in PodName |-> IF p = p1 THEN x ELSE y]]
<1>5. Clusters = {Made(s, sel, x, y) : s \in S, sel \in SUBSET PodName, x \in PodStates, y \in T}
  BY DEF Clusters
<1>6. ASSUME NEW s \in S, NEW sel \in SUBSET PodName, NEW x \in PodStates, NEW y \in T
      PROVE  Made(s, sel, x, y) \in R!Cluster
  <2> HIDE DEF p1
  <2>1. x \in R!PodState /\ y \in R!PodState
    BY <1>1, <1>2, <1>3
  <2> HIDE DEF T
  <2>2. [p \in PodName |-> IF p = p1 THEN x ELSE y] \in [PodName -> R!PodState]
    BY <2>1
  <2>3. s[1] \in BOOLEAN /\ s[2] \in BOOLEAN
    <3>1. CASE s = <<TRUE, TRUE>>
      BY <3>1
    <3>2. CASE s = <<TRUE, FALSE>>
      BY <3>2
    <3>3. CASE s = <<FALSE, TRUE>>
      BY <3>3
    <3> QED
      BY <3>1, <3>2, <3>3
  <2> HIDE DEF S
  <2> QED
    BY <2>2, <2>3 DEF R!Cluster
<1> HIDE DEF Made, S, T
<1>7. PICK s \in S, sel \in SUBSET PodName, x \in PodStates, y \in T : c = Made(s, sel, x, y)
  BY <1>5
<1> QED
  BY <1>6, <1>7

\* So every case of the table does, with any number of Pods and the reads of each
\* two calls that fail.
THEOREM HealthyRules == TableSpec => []RuleHealthy
<1> DEFINE Inv == CaseOf("cluster", Clusters)
<1>1. TableInit => Inv
  BY DEF TableInit, CaseOf
<1>2. Inv /\ [TableNext]_<<table, case>> => Inv'
  BY DEF CaseOf, TableNext, Choose, ChooseCheck, ChooseEvidence, ChooseSample, ChooseApproved,
         ChooseCluster
<1>3. Inv => RuleHealthy
  BY ClusterCases, HealthySaysHealthy DEF CaseOf, RuleHealthy, Holds, FailedReads
<1> QED
  BY <1>1, <1>2, <1>3, PTL DEF TableSpec

-----------------------------------------------------------------------------
\* The facts a diagnosis is judged by.
DiagnosisFields == {"category", "assessed", "domain", "resource", "business", "ids", "mentioned",
                    "symptoms", "hypotheses", "follow", "low", "books"}

LEMMA FactsOfMatched ==
  ASSUME NEW e
  PROVE  LET f == E!DiagnosticFacts(e) IN
         /\ f.matched = E!MatchedProfile(e)
         /\ E!MatchedProfile(e) => /\ f.resource = E!ResourceStatus(e)
                                   /\ f.business = E!BusinessStatus(e)
                                   /\ f.selectorDrift = E!SelectorDrift(e)
                                   /\ f.readiness = E!ReadinessStatus(e)
                                   /\ f.patchable = (E!Probe(e) = "address")
                                   /\ f.confIds = {"dep"} \cup IF E!ServiceValid(e) THEN {"svc"} ELSE {}
                                   /\ f.bizIds = {c \in CheckId : e.checks[c] # "missing"}
                                   /\ f.resIds = {"dep", "ep"} \cup E!OwnedPods(e)
                                   /\ f.faults = {e.pods[p].fault : p \in E!OwnedPods(e)} \ {"none"}
                                   /\ f.complete = (/\ E!ServiceValid(e)
                                                    /\ E!Probe(e) \in {"registered", "address", "scheme"})
BY DEF E!DiagnosticFacts, E!NoFacts, E!MatchedProfile, E!SelectorDrift, E!ServiceValid

LEMMA FactsOfUnmatched ==
  ASSUME NEW e, ~E!MatchedProfile(e)
  PROVE  LET f == E!DiagnosticFacts(e) IN
         /\ f.resource = "unknown" /\ f.business = "unknown" /\ f.matched = FALSE
         /\ f.patchable = FALSE /\ f.complete = FALSE
BY DEF E!DiagnosticFacts, E!NoFacts

LEMMA ReadyFacts ==
  ASSUME NEW e, E!DiagnosticFacts(e).resource = "ready"
  PROVE  /\ E!MatchedProfile(e) /\ E!ServiceValid(e) /\ ~E!NotReady(e) /\ E!ReadyEndpoint(e)
         /\ E!ReadinessStatus(e) = "matched"
         /\ \A p \in E!OwnedPods(e) : e.pods[p].ready = "yes"
         /\ E!Cardinality(E!OwnedPods(e)) >= e.dep.desired /\ ~(e.dep.desired < 0)
<1>1. E!MatchedProfile(e)
  BY FactsOfUnmatched
<1>2. E!ResourceStatus(e) = "ready"
  BY <1>1, FactsOfMatched
<1> QED
  BY <1>1, <1>2 DEF E!ResourceStatus

\* What is called ready has every replica it asks for.
LEMMA ReadyIsEnough ==
  ASSUME NEW e, E!DiagnosticFacts(e).resource = "ready",
         {e.dep.desired, e.dep.ready, e.dep.available} \subseteq Int
  PROVE  E!EnoughReady(e)
<1>1. /\ ~E!NotReady(e) /\ E!ReadyEndpoint(e)
      /\ \A p \in E!OwnedPods(e) : e.pods[p].ready = "yes"
      /\ E!Cardinality(E!OwnedPods(e)) >= e.dep.desired /\ ~(e.dep.desired < 0)
  BY ReadyFacts
<1>2. /\ e.dep.desired > 0
      /\ e.dep.ready >= e.dep.desired /\ e.dep.available >= e.dep.desired
  BY <1>1 DEF E!NotReady
<1>3. {p \in E!OwnedPods(e) : e.pods[p].ready = "yes"} = E!OwnedPods(e)
  BY <1>1
<1>4. E!Cardinality({p \in E!OwnedPods(e) : e.pods[p].ready = "yes"}) >= e.dep.desired
  BY <1>1, <1>3
<1>5. \E p \in E!Owned(e) : \E x \in e.pods[p].ends : x.ready
  BY <1>1 DEF E!ReadyEndpoint
<1> QED
  BY <1>2, <1>4, <1>5 DEF E!EnoughReady

LEMMA PassedFacts ==
  ASSUME NEW e, E!DiagnosticFacts(e).business = "passed"
  PROVE  \A c \in CheckId : e.checks[c] = "passed"
<1>1. E!MatchedProfile(e)
  BY FactsOfUnmatched
<1>2. E!BusinessStatus(e) = "passed"
  BY <1>1, FactsOfMatched
<1>3. {E!CheckStatus(e.checks[c]) : c \in CheckId} = {"passed"}
  BY <1>2 DEF E!BusinessStatus
<1>4. \A c \in CheckId : E!CheckStatus(e.checks[c]) = "passed"
  BY <1>3
<1> QED
  BY <1>4 DEF E!CheckStatus

LEMMA NotFailedFacts ==
  ASSUME NEW e, E!MatchedProfile(e), E!DiagnosticFacts(e).business # "failed"
  PROVE  \A c \in CheckId : e.checks[c] # "failed"
<1>1. E!BusinessStatus(e) # "failed"
  BY FactsOfMatched
<1>2. "failed" \notin {E!CheckStatus(e.checks[c]) : c \in CheckId}
  BY <1>1 DEF E!BusinessStatus
<1>3. \A c \in CheckId : E!CheckStatus(e.checks[c]) # "failed"
  BY <1>2
<1> QED
  BY <1>3 DEF E!CheckStatus

LEMMA NoFaultFacts ==
  ASSUME NEW e, E!MatchedProfile(e), E!DiagnosticFacts(e).faults = {}
  PROVE  \A p \in E!OwnedPods(e) : e.pods[p].fault = "none"
<1>1. {e.pods[p].fault : p \in E!OwnedPods(e)} \ {"none"} = {}
  BY FactsOfMatched
<1> QED
  BY <1>1

LEMMA CategoryCases ==
  ASSUME NEW d, NEW f
  PROVE  /\ d.category = "no_fault_detected" /\ E!CategoryHolds(d, f) =>
              f.resource = "ready" /\ f.business = "passed" /\ f.faults = {}
         /\ d.category = "unknown" /\ d.low => E!CategoryHolds(d, f)
         /\ d.category = "application_error" /\ f.business = "failed" => E!CategoryHolds(d, f)
<1>1. ASSUME d.category = "no_fault_detected", E!CategoryHolds(d, f)
      PROVE  f.resource = "ready" /\ f.business = "passed" /\ f.faults = {}
  BY <1>1 DEF E!CategoryHolds, E!ConfigurationCategory, E!Faults
<1>2. ASSUME d.category = "unknown", d.low
      PROVE  E!CategoryHolds(d, f)
  BY <1>2 DEF E!CategoryHolds, E!ConfigurationCategory, E!Faults
<1>3. ASSUME d.category = "application_error", f.business = "failed"
      PROVE  E!CategoryHolds(d, f)
  BY <1>3 DEF E!CategoryHolds, E!ConfigurationCategory, E!Faults
<1> QED
  BY <1>1, <1>2, <1>3

\* The identifiers of the facts are those of items at hand.
LEMMA FactIds ==
  ASSUME NEW e, E!MatchedProfile(e)
  PROVE  LET f == E!DiagnosticFacts(e)
         IN f.bizIds \cup f.resIds \cup f.confIds \subseteq E!Available(e)
<1>1. {"dep", "ep"} \subseteq E!Available(e)
  BY DEF E!Available, E!MatchedProfile
<1>2. E!ServiceValid(e) => "svc" \in E!Available(e)
  BY DEF E!Available, E!ServiceValid
<1>3. E!OwnedPods(e) \subseteq E!Available(e)
  BY DEF E!Available, E!OwnedPods, E!Owned
<1>4. {c \in CheckId : e.checks[c] # "missing"} \subseteq E!Available(e)
  BY DEF E!Available
<1> QED
  BY <1>1, <1>2, <1>3, <1>4, FactsOfMatched

LEMMA HealthReportHolds ==
  ASSUME NEW e \in E!Evidence, NEW d, {"category", "ids"} \subseteq DOMAIN d
  PROVE  E!HealthReportIsTrue(d, e)
<1> SUFFICES ASSUME E!Accepts(d, e), d.category = "no_fault_detected"
             PROVE  /\ e.snap.status = "matched" /\ e.snap.uid = e.dep.uid /\ e.snap.gen = e.dep.gen
                    /\ e.svc.selector = "registered" /\ e.dep.container
                    /\ e.dep.probe = "registered"
                    /\ e.replicas # 0 => e.dep.desired = e.replicas
                    /\ E!EnoughReady(e)
                    /\ \A p \in E!OwnedPods(e) : e.pods[p].ready = "yes" /\ e.pods[p].fault = "none"
                    /\ \A c \in CheckId : e.checks[c] = "passed"
  BY DEF E!HealthReportIsTrue
<1> DEFINE f == E!DiagnosticFacts(e)
           r == E!Reconciled(d)
<1>1. r.category = "no_fault_detected"
  BY DEF E!Reconciled
<1>2. E!CategoryHolds(r, f)
  BY DEF E!Accepts, E!AssessmentValid
<1>3. f.resource = "ready" /\ f.business = "passed" /\ f.faults = {}
  <2> HIDE DEF r, f
  <2> QED
    BY <1>1, <1>2, CategoryCases
<1>4. /\ E!MatchedProfile(e) /\ E!ServiceValid(e) /\ ~E!NotReady(e) /\ E!ReadyEndpoint(e)
      /\ E!ReadinessStatus(e) = "matched"
      /\ \A p \in E!OwnedPods(e) : e.pods[p].ready = "yes"
  BY <1>3, ReadyFacts
<1>5. /\ \A c \in CheckId : e.checks[c] = "passed"
      /\ \A p \in E!OwnedPods(e) : e.pods[p].fault = "none"
  BY <1>3, <1>4, PassedFacts, NoFaultFacts
<1>6. e.svc.selector = "registered" /\ (e.replicas # 0 => e.dep.desired = e.replicas)
  BY <1>4 DEF E!NotReady, E!SelectorDrift
<1>7. e.dep.container /\ e.dep.probe = "registered"
  BY <1>4 DEF E!ReadinessStatus, E!Probe
<1>8. e.snap.status = "matched" /\ e.snap.uid = e.dep.uid /\ e.snap.gen = e.dep.gen
  BY <1>4 DEF E!MatchedProfile
<1>9. E!EnoughReady(e)
  <2>1. {e.dep.desired, e.dep.ready, e.dep.available} \subseteq Int
    BY DEF E!Evidence, E!Deployment
  <2> HIDE DEF r, f
  <2> QED
    BY <1>3, <2>1, ReadyIsEnough DEF f
<1> QED
  BY <1>4, <1>5, <1>6, <1>7, <1>8, <1>9

\* validate_diagnosis_assessment() and the reference checks around it: of whatever
\* evidence and whatever answer of the model, "no_fault_detected" is accepted only
\* if the replicas asked for are there and ready, none of the Pods fails, every
\* setting is the registered one and every check passed.
THEOREM NoFaultIsTrue == \A d \in E!Diagnosis, e \in E!Evidence : E!HealthReportIsTrue(d, e)
<1> SUFFICES ASSUME NEW d \in E!Diagnosis, NEW e \in E!Evidence
             PROVE  E!HealthReportIsTrue(d, e)
  OBVIOUS
<1>1. {"category", "ids"} \subseteq DOMAIN d
  BY DEF E!Diagnosis
<1> QED
  BY <1>1, HealthReportHolds

\* What a case of Vary has in common with the one it varies.
LEMMA VaryDomain ==
  ASSUME NEW x, NEW alt, DOMAIN alt \subseteq DOMAIN x
  PROVE  \A y \in Vary(x, alt) : DOMAIN y = DOMAIN x
<1> SUFFICES ASSUME NEW y \in Vary(x, alt), y # x
             PROVE  DOMAIN y = DOMAIN x
  OBVIOUS
<1>1. PICK k \in DOMAIN alt : y \in {[x EXCEPT ![k] = v] : v \in alt[k]}
  BY DEF Vary
<1>2. PICK v \in alt[k] : y = [x EXCEPT ![k] = v]
  BY <1>1
<1> QED
  BY <1>2

LEMMA DiagnosesFields ==
  ASSUME NEW e
  PROVE  \A d \in Diagnoses(e) : DOMAIN d = DiagnosisFields
<1> SUFFICES ASSUME NEW d \in Diagnoses(e)
             PROVE  DOMAIN d = DiagnosisFields
  OBVIOUS
<1>1. PICK c \in E!Category : d \in Vary(DiagnosisOf(c, e), DiagnosisAlternatives(e))
  BY DEF Diagnoses
<1>2. DOMAIN DiagnosisOf(c, e) = DiagnosisFields
  BY DEF DiagnosisOf, DiagnosisFields
<1>3. DOMAIN DiagnosisAlternatives(e) \subseteq DiagnosisFields
  BY DEF DiagnosisAlternatives, DiagnosisFields
<1> QED
  BY <1>1, <1>2, <1>3, VaryDomain

LEMMA OwnReportHolds ==
  ASSUME NEW e, E!CanReportInsufficientEvidence(E!DiagnosticFacts(e))
  PROVE  LET own == E!InsufficientEvidenceDiagnosis(E!DiagnosticFacts(e))
         IN E!ReferencesValid(own, e) /\ E!AssessmentValid(own, e)
<1> DEFINE f == E!DiagnosticFacts(e)
           ids == f.resIds \cup f.bizIds
           own == E!InsufficientEvidenceDiagnosis(f)
<1>1. f.matched /\ f.bizIds # {}
  BY DEF E!CanReportInsufficientEvidence
<1>2. E!MatchedProfile(e)
  BY <1>1, FactsOfMatched
<1>3. ids \subseteq E!Available(e)
  BY <1>2, FactIds
<1>4. f.bizIds \subseteq ids
  OBVIOUS
<1> HIDE DEF f, ids
<1>5. /\ own.category = "unknown" /\ own.assessed = TRUE /\ own.domain = "insufficient_evidence"
      /\ own.resource = f.resource /\ own.business = f.business /\ own.ids = ids
      /\ own.mentioned = ids /\ own.symptoms = ids /\ own.hypotheses = {}
      /\ own.follow = TRUE /\ own.low = TRUE /\ own.books = {}
  BY DEF E!InsufficientEvidenceDiagnosis, E!Report, E!DiagnosisDomains, ids,
         E!ConfigurationCategory
<1> HIDE DEF own
<1>6. E!ReferencesValid(own, e)
  BY <1>3, <1>5 DEF E!ReferencesValid
<1>7. E!CategoryHolds(own, f)
  BY <1>5, CategoryCases
<1>8. own.domain \in E!DiagnosisDomains(own.category)
  BY <1>5 DEF E!DiagnosisDomains
<1>9. E!AssessmentValid(own, e)
  BY <1>4, <1>5, <1>7, <1>8 DEF E!AssessmentValid, f
<1> QED
  BY <1>6, <1>9 DEF own, f

LEMMA RewrittenReportHolds ==
  ASSUME NEW e, NEW d, E!ReferencesValid(d, e), E!AssessmentValid(d, e)
  PROVE  LET r == E!ControlledReport(d, e)
         IN E!ReferencesValid(r, e) /\ E!AssessmentValid(r, e)
<1> DEFINE f == E!DiagnosticFacts(e)
           r == E!ControlledReport(d, e)
           ids == d.ids \cup f.bizIds \cup f.resIds \cup f.confIds
           failed == {c \in f.bizIds : e.checks[c] = "failed"}
<1>1. CASE ~(d.category = "application_error" /\ f.business = "failed")
  BY <1>1 DEF E!ControlledReport
<1>2. CASE d.category = "application_error" /\ f.business = "failed"
  <2>1. E!MatchedProfile(e)
    BY <1>2, FactsOfUnmatched
  <2>2. f.bizIds \cup f.resIds \cup f.confIds \subseteq E!Available(e)
    BY <2>1, FactIds
  <2>3. d.ids \subseteq E!Available(e)
    BY DEF E!ReferencesValid
  <2>4. r = [E!Report("application_error", f, ids, failed, {[supported |-> FALSE, ids |-> f.bizIds]})
               EXCEPT !.low = d.low]
    BY <1>2 DEF E!ControlledReport
  <2>5. ids \subseteq E!Available(e) /\ f.bizIds \subseteq ids /\ failed \subseteq f.bizIds
    BY <2>2, <2>3
  <2> HIDE DEF f, ids, failed
  <2>6. /\ r.category = "application_error" /\ r.assessed = TRUE /\ r.domain = "application_runtime"
        /\ r.resource = f.resource /\ r.business = f.business /\ r.ids = ids
        /\ r.mentioned = ids /\ r.symptoms = failed
        /\ r.hypotheses = {[supported |-> FALSE, ids |-> f.bizIds]}
        /\ r.follow = TRUE /\ r.books = {}
    BY <2>4 DEF E!Report, E!DiagnosisDomains, E!ConfigurationCategory
  <2> HIDE DEF r
  <2>7. E!ReferencesValid(r, e)
    BY <2>5, <2>6 DEF E!ReferencesValid
  <2>8. E!CategoryHolds(r, f)
    BY <1>2, <2>6, CategoryCases DEF f
  <2>9. r.domain \in E!DiagnosisDomains(r.category)
    BY <2>6 DEF E!DiagnosisDomains
  <2>10. \A h \in r.hypotheses : h.ids \subseteq r.ids /\ ~h.supported
    BY <2>5, <2>6
  <2>11. E!AssessmentValid(r, e)
    BY <2>5, <2>6, <2>8, <2>9, <2>10 DEF E!AssessmentValid, f
  <2> QED
    BY <2>7, <2>11 DEF r
<1> QED
  BY <1>1, <1>2

\* insufficient_evidence_diagnosis() and build_controlled_report(): of whatever
\* evidence and accepted answer, the reports the program writes itself pass the
\* gate that it holds generated ones to.
THEOREM OwnReportsAlwaysPass == \A d \in E!Diagnosis, e \in E!Evidence : E!OwnReportsPass(d, e)
BY OwnReportHolds, RewrittenReportHolds DEF E!OwnReportsPass

\* So they do in every case of the table.
THEOREM TableReportsPass == TableSpec => []OwnReports
<1>1. OwnReports
  BY OwnReportHolds, RewrittenReportHolds DEF OwnReports, Holds, E!OwnReportsPass
<1> QED
  BY <1>1, PTL

-----------------------------------------------------------------------------
\* Plans of a write.
LEMMA ValidWrite ==
  ASSUME NEW p, NEW d, NEW e, p.action \in E!Executable, E!PlanValid(p, d, e)
  PROVE  /\ E!MatchedProfile(e) /\ E!ServiceValid(e) /\ E!AssessmentValid(d, e)
         /\ p.approval /\ p.proposed = "registered" /\ {"dep", "svc"} \subseteq p.ids
         /\ \A c \in CheckId : e.checks[c] # "failed"
         /\ \A x \in E!OwnedPods(e) : e.pods[x].fault = "none"
         /\ \/ /\ p.action = "patch_service_selector" /\ p.kind = "Service"
               /\ p.current = "drifted" /\ e.svc.selector = "drifted"
            \/ /\ p.action = "patch_readiness_probe" /\ p.kind = "Deployment"
               /\ p.current = "address" /\ e.dep.probe = "address" /\ e.dep.container
<1> DEFINE f == E!DiagnosticFacts(e)
<1>1. /\ E!Candidate(p.action, e) /\ E!WritesJustified(d, e)
      /\ E!MatchedProfile(e) /\ E!ProfileAction(p) /\ f.confIds \subseteq p.ids
      /\ E!PlanMetadata(p)
      /\ p.action = "patch_readiness_probe" => E!ReadinessPlan(p, e)
      /\ p.action = "patch_service_selector" => E!SelectorPlan(p, e)
  BY DEF E!PlanValid, E!AllowedActions
<1>2. f.complete /\ f.business # "failed" /\ f.faults = {} /\ E!AssessmentValid(d, e)
  BY <1>1 DEF E!WritesJustified
<1>3. E!ServiceValid(e) /\ f.confIds = {"dep", "svc"}
  BY <1>1, <1>2, FactsOfMatched
<1>4. /\ \A c \in CheckId : e.checks[c] # "failed"
      /\ \A x \in E!OwnedPods(e) : e.pods[x].fault = "none"
  BY <1>1, <1>2, NotFailedFacts, NoFaultFacts
<1>5. p.approval
  BY <1>1 DEF E!PlanMetadata
<1>6. CASE p.action = "patch_service_selector"
  <2>1. e.svc.selector = "drifted"
    BY <1>1, <1>6 DEF E!Candidate, E!SelectorCandidate
  <2>2. p.kind = "Service" /\ p.proposed = "registered" /\ p.current = e.svc.selector
    BY <1>1, <1>6 DEF E!ProfileAction, E!SelectorPlan
  <2> QED
    BY <1>1, <1>2, <1>3, <1>4, <1>5, <1>6, <2>1, <2>2
<1>7. CASE p.action = "patch_readiness_probe"
  <2>1. E!Probe(e) = "address"
    BY <1>1, <1>7, FactsOfMatched DEF E!Candidate, E!ReadinessCandidate
  <2>2. p.kind = "Deployment" /\ p.proposed = "registered" /\ p.current = e.dep.probe
    BY <1>1, <1>7 DEF E!ProfileAction, E!ReadinessPlan
  <2>3. e.dep.probe = "address" /\ e.dep.container
    BY <2>1 DEF E!Probe
  <2> QED
    BY <1>1, <1>2, <1>3, <1>4, <1>5, <1>7, <2>2, <2>3
<1> QED
  BY <1>6, <1>7 DEF E!Executable

LEMMA WriteGroundedHolds ==
  ASSUME NEW p, NEW d, NEW e, {"action", "kind", "ids", "uid"} \subseteq DOMAIN p
  PROVE  E!WriteIsGrounded(p, d, e)
<1> DEFINE q == E!Completed(p, e)
           a == E!Accepted(d, e)
<1> SUFFICES ASSUME p.action \in E!Executable, E!Prepares(p, a, e)
             PROVE  /\ e.snap.status = "matched" /\ e.snap.uid = e.dep.uid /\ e.snap.gen = e.dep.gen
                    /\ e.dep.version /\ e.dep.images /\ e.dep.container
                    /\ q.approval /\ q.proposed = "registered" /\ {"dep", "svc"} \subseteq q.ids
                    /\ \/ q.action = "patch_service_selector" /\ q.current = "drifted"
                          /\ e.svc.selector = "drifted" /\ q.uid = e.svc.uid
                       \/ q.action = "patch_readiness_probe" /\ q.current = "address"
                          /\ e.dep.probe = "address" /\ q.uid = e.dep.uid
                    /\ q.uid # 0
                    /\ \A c \in CheckId : e.checks[c] # "failed"
                    /\ \A x \in E!OwnedPods(e) : e.pods[x].fault = "none"
  BY DEF E!WriteIsGrounded
<1>1. E!Completable(p, a, e) /\ E!PlanValid(q, a, e)
  BY DEF E!Prepares
<1>2. q = [p EXCEPT !.ids = @ \cup E!DiagnosticFacts(e).confIds,
                    !.uid = E!ObservedTargetUid(e, p.kind)]
  BY DEF E!Completed
<1> HIDE DEF q, a
<1>3. q.action = p.action /\ q.kind = p.kind /\ q.uid = E!ObservedTargetUid(e, p.kind)
  BY <1>2
<1>4. /\ E!MatchedProfile(e) /\ E!ServiceValid(e)
      /\ q.approval /\ q.proposed = "registered" /\ {"dep", "svc"} \subseteq q.ids
      /\ \A c \in CheckId : e.checks[c] # "failed"
      /\ \A x \in E!OwnedPods(e) : e.pods[x].fault = "none"
      /\ \/ /\ q.action = "patch_service_selector" /\ q.kind = "Service"
            /\ q.current = "drifted" /\ e.svc.selector = "drifted"
         \/ /\ q.action = "patch_readiness_probe" /\ q.kind = "Deployment"
            /\ q.current = "address" /\ e.dep.probe = "address" /\ e.dep.container
  BY <1>1, <1>3, ValidWrite
<1>5. q.uid # 0
  BY <1>1, <1>3 DEF E!Completable, E!BindsTarget
<1>6. /\ q.kind = "Service" => q.uid = e.svc.uid
      /\ q.kind = "Deployment" => q.uid = e.dep.uid
  BY <1>3, <1>5 DEF E!ObservedTargetUid
<1>7. /\ e.snap.status = "matched" /\ e.snap.uid = e.dep.uid /\ e.snap.gen = e.dep.gen
      /\ e.dep.version /\ e.dep.images
  BY <1>4 DEF E!MatchedProfile, E!AssessProfile
<1>8. e.dep.container
  <2>1. E!DiagnosticFacts(e).complete
    BY <1>1 DEF E!Completable
  <2>2. E!Probe(e) \in {"registered", "address", "scheme"}
    BY <1>4, <2>1, FactsOfMatched
  <2> QED
    BY <2>2 DEF E!Probe
<1> QED
  BY <1>4, <1>5, <1>6, <1>7, <1>8

\* prepare_remediation_plan(): from whatever diagnosis and plan the model writes
\* about whatever evidence, a write is proposed only for a drift that was
\* collected, to the registered value, on the collected object.
THEOREM WritesAreGrounded ==
  \A p \in E!Plan, d \in E!Diagnosis, e \in E!Evidence : E!WriteIsGrounded(p, d, e)
<1> SUFFICES ASSUME NEW p \in E!Plan, NEW d, NEW e
             PROVE  E!WriteIsGrounded(p, d, e)
  OBVIOUS
<1>1. {"action", "kind", "ids", "uid"} \subseteq DOMAIN p
  BY DEF E!Plan
<1> QED
  BY <1>1, WriteGroundedHolds

LEMMA PlansFields ==
  ASSUME NEW e
  PROVE  \A p \in Plans(e) : {"action", "kind", "ids", "uid"} \subseteq DOMAIN p
<1> SUFFICES ASSUME NEW p \in Plans(e)
             PROVE  {"action", "kind", "ids", "uid"} \subseteq DOMAIN p
  OBVIOUS
<1> DEFINE PlanFields == {"action", "ns", "named", "container", "kind", "current", "proposed", "uid",
                          "ids", "books", "repeats", "risk", "approval", "steps", "command"}
<1>1. PICK a \in E!Executable : p \in Vary(PlanOf(a, e), PlanAlternatives)
  BY DEF Plans
<1>2. DOMAIN PlanOf(a, e) = PlanFields
  BY DEF PlanOf
<1>3. DOMAIN PlanAlternatives \subseteq PlanFields
  BY DEF PlanAlternatives
<1>4. DOMAIN p = PlanFields
  BY <1>1, <1>2, <1>3, VaryDomain
<1> QED
  BY <1>4

\* So it is in every case of the table.
THEOREM TableWritesAreGrounded == TableSpec => []WriteGrounded
<1>1. WriteGrounded
  BY WriteGroundedHolds, PlansFields DEF WriteGrounded, Holds
<1> QED
  BY <1>1, PTL

-----------------------------------------------------------------------------
\* What an approval authorises.  The record of a decision carries the fingerprint
\* of the approved basis, and a bound fingerprint determines the basis.
LEMMA AuthorizedHolds ==
  ASSUME NEW b, NEW s, s.record.id = E!Fingerprint(b),
         b.diagnosis.assessed \/ s.basis.diagnosis # NotBound
  PROVE  E!AuthorizedIsApproved(b, s)
<1> DEFINE n == s.basis
           Bound(x) == x.plan.uid # 0 \/ x.diagnosis.assessed
<1> SUFFICES ASSUME E!Authorization(s) = "execute"
             PROVE  /\ s.record.approved
                    /\ n.incident = b.incident /\ n.run = b.run
                    /\ n.plan = b.plan /\ n.diagnosis = b.diagnosis
                    /\ n.evidence = b.evidence
                    /\ s.result.status = "none"
  BY DEF E!AuthorizedIsApproved
<1>1. /\ n.plan.action \in E!Executable /\ E!ApprovalBinding(s)
      /\ E!PlanValid(n.plan, n.diagnosis, n.evidence)
      /\ E!PreviousResult(s) = "execute"
  BY DEF E!Authorization
<1>2. s.result.status = "none"
  BY <1>1 DEF E!PreviousResult
<1>3. s.record.approved /\ E!Request(n) = s.request /\ s.request.id = s.record.id
  BY <1>1 DEF E!ApprovalBinding
<1>4. E!Fingerprint(n) = E!Fingerprint(b)
  BY <1>3 DEF E!Request
<1>5. n.diagnosis.assessed
  BY <1>1, ValidWrite DEF E!AssessmentValid
<1> HIDE DEF n
<1>6. n.incident = b.incident /\ n.plan = b.plan /\ n.run = b.run
  BY <1>4 DEF E!Fingerprint
<1>7. E!Fingerprint(n).diagnosis = n.diagnosis /\ E!Fingerprint(n).evidence = n.evidence
  BY <1>5 DEF E!Fingerprint
<1>8. Bound(b)
  <2> SUFFICES ASSUME ~Bound(b)
               PROVE  FALSE
    OBVIOUS
  <2>1. E!Fingerprint(b).diagnosis = NotBound
    BY DEF E!Fingerprint
  <2> QED
    BY <1>4, <1>7, <2>1 DEF n
<1>9. E!Fingerprint(b).diagnosis = b.diagnosis /\ E!Fingerprint(b).evidence = b.evidence
  BY <1>8 DEF E!Fingerprint
<1> QED
  BY <1>2, <1>3, <1>4, <1>6, <1>7, <1>9

\* validate_execution_authorization(): after a human decided on the request of any
\* basis, a write is authorised only for that plan on that evidence, diagnosis and
\* run, however plan, diagnosis, evidence, request and result of the state were
\* replaced since.  What stands for an omitted part is not itself a diagnosis.
THEOREM OnlyTheApprovedWrites ==
  ASSUME NotBound \notin E!Diagnosis
  PROVE  \A b \in E!Basis, approved \in BOOLEAN :
           LET r == E!Request(b) IN
           \A s : /\ s.basis \in E!Basis
                  /\ s.record = E!Record(r, [approved |-> approved, id |-> r.id])
                  => E!AuthorizedIsApproved(b, s)
<1> SUFFICES ASSUME NEW b \in E!Basis, NEW approved \in BOOLEAN, NEW s, s.basis \in E!Basis,
                    s.record = E!Record(E!Request(b), [approved |-> approved, id |-> E!Request(b).id])
             PROVE  E!AuthorizedIsApproved(b, s)
  OBVIOUS
<1>1. s.record.id = E!Fingerprint(b)
  BY DEF E!Record, E!Request
<1>2. s.basis.diagnosis # NotBound
  BY DEF E!Basis
<1> QED
  BY <1>1, <1>2, AuthorizedHolds

LEMMA BasesAssessed == \A b \in Bases : b.diagnosis.assessed = TRUE
<1> SUFFICES ASSUME NEW b \in Bases
             PROVE  b.diagnosis.assessed = TRUE
  OBVIOUS
<1>1. PICK a \in E!Executable, u \in BOOLEAN : b = BasisOf(a, u)
  BY DEF Bases
<1>2. \A c, e : DiagnosisOf(c, e).assessed = TRUE
  BY DEF DiagnosisOf
<1> QED
  BY <1>1, <1>2 DEF BasisOf

LEMMA StatesRecord ==
  ASSUME NEW b
  PROVE  \A s \in States(b) : s.record.id = E!Fingerprint(b)
<1> SUFFICES ASSUME NEW s \in States(b)
             PROVE  s.record.id = E!Fingerprint(b)
  OBVIOUS
<1> DEFINE Changed == Vary(b, BasisAlternatives(b))
           Runs == {b, [b EXCEPT !.run = 1]}
           Results == ResultCases(E!Request(b))
           Recorded(a) == E!Record(E!Request(b), [approved |-> a, id |-> E!Request(b).id])
           Made(p, a, b1, b2, r) ==
             [phase |-> p, status |-> "approved", approved |-> a, basis |-> b1,
              request |-> E!Request(b2), record |-> Recorded(a), result |-> r]
<1>1. States(b) = {Made(p, a, b1, b2, r) : p \in {"approval_approved", "waiting_approval"},
                     a \in BOOLEAN, b1 \in Changed, b2 \in Runs, r \in Results}
  BY DEF States
<1>2. \A p, a, b1, b2, r : Made(p, a, b1, b2, r).record = Recorded(a)
  OBVIOUS
<1>3. \A a : Recorded(a).id = E!Fingerprint(b)
  BY DEF E!Record, E!Request
<1> HIDE DEF Made, Changed, Runs, Results, Recorded
<1> QED
  BY <1>1, <1>2, <1>3

\* So it is in every case of the table.
THEOREM TableWritesAreApproved == TableSpec => []WriteApproved
<1> DEFINE Inv == CaseOf("approval", UNION {{b} \X States(b) : b \in Bases})
<1>1. TableInit => Inv
  BY DEF TableInit, CaseOf
<1>2. Inv /\ [TableNext]_<<table, case>> => Inv'
  BY DEF CaseOf, TableNext, Choose, ChooseCheck, ChooseEvidence, ChooseSample, ChooseApproved,
         ChooseCluster
<1>3. Inv => WriteApproved
  <2> SUFFICES ASSUME Inv, table = "approval", case # <<>>
               PROVE  E!AuthorizedIsApproved(case[1], case[2])
    BY DEF WriteApproved, Holds
  <2>1. PICK b \in Bases : case \in {b} \X States(b)
    BY DEF CaseOf
  <2>2. case[1] = b /\ case[2] \in States(b)
    BY <2>1
  <2> QED
    BY <2>2, BasesAssessed, StatesRecord, AuthorizedHolds
<1> QED
  BY <1>1, <1>2, <1>3, PTL DEF TableSpec

-----------------------------------------------------------------------------
\* Recovery.  RecoveryVerification reads the same facts as the policies.
LEMMA SameFacts ==
  ASSUME NEW e
  PROVE  /\ V!DiagnosticFacts(e) = E!DiagnosticFacts(e)
         /\ V!MatchedProfile(e) = E!MatchedProfile(e)
         /\ V!OwnedPods(e) = E!OwnedPods(e)
<1>1. V!MatchedProfile(e) = E!MatchedProfile(e)
  BY DEF V!MatchedProfile, V!AssessProfile, E!MatchedProfile, E!AssessProfile
<1>2. V!Owned(e) = E!Owned(e)
  BY DEF V!Owned, E!Owned
<1>3. V!OwnedPods(e) = E!OwnedPods(e)
  BY <1>2 DEF V!OwnedPods, E!OwnedPods
<1>4. V!ServiceValid(e) = E!ServiceValid(e) /\ V!SelectorDrift(e) = E!SelectorDrift(e)
  BY DEF V!ServiceValid, E!ServiceValid, V!SelectorDrift, E!SelectorDrift
<1>5. V!Probe(e) = E!Probe(e)
  BY DEF V!Probe, E!Probe
<1>6. V!ReadinessStatus(e) = E!ReadinessStatus(e)
  BY <1>5 DEF V!ReadinessStatus, E!ReadinessStatus
<1>7. \A c : V!CheckStatus(c) = E!CheckStatus(c)
  BY DEF V!CheckStatus, E!CheckStatus
<1>8. V!BusinessStatus(e) = E!BusinessStatus(e)
  BY <1>7 DEF V!BusinessStatus, E!BusinessStatus
<1>9. V!NotReady(e) = E!NotReady(e) /\ V!ReadyEndpoint(e) = E!ReadyEndpoint(e)
  BY <1>2, <1>3, <1>4, <1>6 DEF V!NotReady, E!NotReady, V!ReadyEndpoint, E!ReadyEndpoint
<1>10. V!ResourceStatus(e) = E!ResourceStatus(e)
  <2>1. V!Cardinality(V!OwnedPods(e)) = E!Cardinality(E!OwnedPods(e))
    BY <1>3, Zenon DEF V!Cardinality, E!Cardinality
  <2> QED
    BY <1>3, <1>4, <1>6, <1>9, <2>1 DEF V!ResourceStatus, E!ResourceStatus
<1>11. V!DiagnosticFacts(e) = E!DiagnosticFacts(e)
  BY <1>1, <1>2, <1>3, <1>4, <1>5, <1>6, <1>8, <1>10
  DEF V!DiagnosticFacts, E!DiagnosticFacts, V!NoFacts, E!NoFacts
<1> QED
  BY <1>1, <1>3, <1>11

LEMMA SameEnough ==
  ASSUME NEW e
  PROVE  V!EnoughReady(e) = E!EnoughReady(e)
<1> DEFINE S == {p \in E!OwnedPods(e) : e.pods[p].ready = "yes"}
<1>1. V!Owned(e) = E!Owned(e)
  BY DEF V!Owned, E!Owned
<1>2. V!OwnedPods(e) = E!OwnedPods(e)
  BY SameFacts
<1>3. {p \in V!OwnedPods(e) : e.pods[p].ready = "yes"} = S
  BY <1>2
<1>4. V!Cardinality(S) = E!Cardinality(S)
  BY Zenon DEF V!Cardinality, E!Cardinality
<1> HIDE DEF S
<1> QED
  BY <1>1, <1>3, <1>4 DEF V!EnoughReady, E!EnoughReady, S

\* recovery_resource_view() hides Pods and changes nothing else.
LEMMA ViewHides ==
  ASSUME NEW e \in V!Evidence
  PROVE  LET v == V!RecoveryView(e) IN
         /\ v.snap = e.snap /\ v.digest = e.digest /\ v.target = e.target
         /\ v.deps = e.deps /\ v.dep = e.dep /\ v.svcs = e.svcs /\ v.svc = e.svc
         /\ v.replicas = e.replicas /\ v.checks = e.checks
         /\ \A p \in PodName : /\ v.pods[p].ready = e.pods[p].ready
                               /\ v.pods[p].fault = e.pods[p].fault
                               /\ v.pods[p].owned = e.pods[p].owned
                               /\ v.pods[p].ends = e.pods[p].ends
         /\ E!OwnedPods(v) = E!OwnedPods(e) \ V!Excluded(e)
<1> DEFINE v == V!RecoveryView(e)
           hidden == V!Excluded(e)
           pods == [p \in PodName |->
                      IF p \in hidden THEN [e.pods[p] EXCEPT !.listed = FALSE] ELSE e.pods[p]]
<1>1. v = [e EXCEPT !.pods = pods]
  BY DEF V!RecoveryView
<1>2. DOMAIN e = {"snap", "digest", "target", "deps", "dep", "svcs", "svc", "pods", "replicas",
                  "checks", "linked"}
  BY DEF V!Evidence
<1>3. \A p \in PodName : e.pods[p] \in V!Pod
  BY DEF V!Evidence
<1> HIDE DEF hidden
<1>4. ASSUME NEW p \in PodName
      PROVE  /\ pods[p].ready = e.pods[p].ready /\ pods[p].fault = e.pods[p].fault
             /\ pods[p].owned = e.pods[p].owned /\ pods[p].ends = e.pods[p].ends
             /\ pods[p].listed = IF p \in hidden THEN FALSE ELSE e.pods[p].listed
  <2>1. {"ready", "fault", "owned", "ends", "listed"} \subseteq DOMAIN e.pods[p]
    BY <1>3 DEF V!Pod
  <2> QED
    BY <2>1
<1> HIDE DEF v, pods
<1>5. /\ v.snap = e.snap /\ v.digest = e.digest /\ v.target = e.target
      /\ v.deps = e.deps /\ v.dep = e.dep /\ v.svcs = e.svcs /\ v.svc = e.svc
      /\ v.replicas = e.replicas /\ v.checks = e.checks /\ v.pods = pods
  BY <1>1, <1>2
<1>6. E!OwnedPods(v) = E!OwnedPods(e) \ hidden
  BY <1>4, <1>5 DEF E!OwnedPods, E!Owned
<1> QED
  BY <1>4, <1>5, <1>6 DEF v, hidden

LEMMA VerifiedView ==
  ASSUME NEW e \in V!Evidence, NEW resources, NEW orig, NEW a,
         V!VerifyRecovery(resources, orig, a, e) = "succeeded"
  PROVE  LET f == V!DiagnosticFacts(V!RecoveryView(e)) IN
         /\ V!Bound(orig, a, e) /\ V!ResourcesOk(f) /\ f.business = "passed"
         /\ E!MatchedProfile(e)
         /\ e.svc.selector = "registered" /\ e.dep.probe = "registered"
         /\ e.replicas # 0 => e.dep.desired = e.replicas
         /\ E!EnoughReady(e)
         /\ \A p \in E!OwnedPods(e) \ V!Excluded(e) : e.pods[p].ready = "yes" /\ e.pods[p].fault = "none"
         /\ \A c \in CheckId : e.checks[c] = "passed"
<1> DEFINE v == V!RecoveryView(e)
           f == V!DiagnosticFacts(v)
<1>1. V!Bound(orig, a, e) /\ V!ResourcesOk(f) /\ f.business = "passed"
  BY DEF V!VerifyRecovery
<1>2. f = E!DiagnosticFacts(v)
  BY SameFacts
<1>3. f.resource = "ready" /\ f.faults = {}
  BY <1>1 DEF V!ResourcesOk
<1>4. /\ v.snap = e.snap /\ v.digest = e.digest /\ v.target = e.target
      /\ v.deps = e.deps /\ v.dep = e.dep /\ v.svcs = e.svcs /\ v.svc = e.svc
      /\ v.replicas = e.replicas /\ v.checks = e.checks
      /\ \A p \in PodName : /\ v.pods[p].ready = e.pods[p].ready
                            /\ v.pods[p].fault = e.pods[p].fault
                            /\ v.pods[p].owned = e.pods[p].owned
                            /\ v.pods[p].ends = e.pods[p].ends
      /\ E!OwnedPods(v) = E!OwnedPods(e) \ V!Excluded(e)
  BY ViewHides
<1> HIDE DEF v, f
<1>5. /\ E!MatchedProfile(v) /\ E!ServiceValid(v) /\ ~E!NotReady(v)
      /\ E!ReadinessStatus(v) = "matched"
      /\ \A p \in E!OwnedPods(v) : v.pods[p].ready = "yes" /\ v.pods[p].fault = "none"
      /\ \A c \in CheckId : v.checks[c] = "passed"
  BY <1>1, <1>2, <1>3, ReadyFacts, PassedFacts, NoFaultFacts
<1>6. E!MatchedProfile(e)
  BY <1>4, <1>5 DEF E!MatchedProfile
<1>7. v.svc.selector = "registered" /\ (v.replicas # 0 => v.dep.desired = v.replicas)
  BY <1>5 DEF E!NotReady, E!SelectorDrift
<1>8. v.dep.probe = "registered"
  BY <1>5 DEF E!ReadinessStatus, E!Probe
<1>9. \A p \in E!OwnedPods(e) \ V!Excluded(e) : e.pods[p].ready = "yes" /\ e.pods[p].fault = "none"
  BY <1>4, <1>5 DEF E!OwnedPods, E!Owned
<1>10. E!EnoughReady(v)
  <2>1. {v.dep.desired, v.dep.ready, v.dep.available} \subseteq Int
    BY <1>4 DEF V!Evidence, V!Deployment
  <2> QED
    BY <1>2, <1>3, <2>1, ReadyIsEnough
<1>11. E!EnoughReady(e)
  <2>1. {p \in E!OwnedPods(v) : v.pods[p].ready = "yes"} = {p \in E!OwnedPods(e) : e.pods[p].ready = "yes"}
    BY <1>4 DEF E!OwnedPods, E!Owned, V!Excluded
  <2>2. \E p \in E!Owned(e) : \E x \in e.pods[p].ends : x.ready
    BY <1>4, <1>10 DEF E!EnoughReady, E!Owned
  <2> QED
    BY <1>4, <1>10, <2>1, <2>2 DEF E!EnoughReady
<1> QED
  BY <1>1, <1>4, <1>5, <1>6, <1>7, <1>8, <1>9, <1>11 DEF v, f

LEMMA ExcludedLeave ==
  ASSUME NEW e \in V!Evidence
  PROVE  \A p \in V!Excluded(e) : V!Leaving(e.pods[p])
BY DEF V!Excluded, V!Leaving, V!Departing

LEMMA RecoveryHolds ==
  ASSUME NEW e \in V!Evidence, NEW resources, NEW orig, NEW a
  PROVE  V!RecoveryIsObserved(resources, orig, a, e)
<1> SUFFICES ASSUME V!VerifyRecovery(resources, orig, a, e) = "succeeded"
             PROVE  /\ e.snap.uid = e.dep.uid /\ e.dep.uid = orig.uid /\ orig.digest = e.digest
                    /\ (a.action = "patch_readiness_probe" /\ a.uid # 0) => e.dep.gen = a.gen
                    /\ a.action = "patch_service_selector" => e.dep.gen = orig.gen
                    /\ e.svc.selector = "registered" /\ e.dep.probe = "registered"
                    /\ e.replicas # 0 => e.dep.desired = e.replicas
                    /\ E!EnoughReady(e)
                    /\ \A p \in E!OwnedPods(e) :
                         \/ e.pods[p].ready = "yes" /\ e.pods[p].fault = "none"
                         \/ V!Leaving(e.pods[p])
                    /\ \A c \in CheckId : e.checks[c] = "passed"
  BY SameFacts, SameEnough DEF V!RecoveryIsObserved
<1>1. e.snap.uid = e.dep.uid /\ e.snap.gen = e.dep.gen /\ e.snap.digest = e.digest
  BY VerifiedView DEF E!MatchedProfile
<1>2. /\ orig.digest = e.snap.digest /\ orig.uid = e.snap.uid
      /\ e.snap.gen = V!ExpectedGeneration(orig, a)
  BY VerifiedView DEF V!Bound
<1>3. /\ (a.action = "patch_readiness_probe" /\ a.uid # 0) => e.dep.gen = a.gen
      /\ a.action = "patch_service_selector" => e.dep.gen = orig.gen
  BY <1>1, <1>2 DEF V!ExpectedGeneration
<1> QED
  BY <1>1, <1>2, <1>3, VerifiedView, ExcludedLeave

\* BusinessRecoveryVerifier.verify(): whatever the polling returned, of whatever
\* sample, write and earlier snapshot, "succeeded" is said only of the diagnosed
\* Deployment as the write left it, with the replicas asked for ready, every other
\* Pod leaving and every registered check passed.
THEOREM RecoveryIsReal ==
  \A e \in V!Evidence, a \in V!Write, orig \in V!Snapshot,
     resources \in {"succeeded", "failed", "timeout", "skipped"} :
    V!RecoveryIsObserved(resources, orig, a, e)
BY RecoveryHolds

LEMMA RecheckHolds ==
  ASSUME NEW e \in V!Evidence, NEW resources, NEW orig, NEW a,
         orig.status = "matched" => orig.gen # 0
  PROVE  V!RecheckAgrees(resources, orig, a, e)
<1> DEFINE f == V!DiagnosticFacts(V!RecoveryView(e))
<1> SUFFICES ASSUME V!VerifyRecovery(resources, orig, a, e) = "succeeded"
             PROVE  /\ V!RecheckStatus(e) = "passed"
                    /\ orig.status = "matched" => V!CompareTargets(orig, e.snap) # "unknown"
  BY DEF V!RecheckAgrees
<1>1. V!Bound(orig, a, e) /\ V!ResourcesOk(f) /\ f.business = "passed"
  BY VerifiedView
<1>2. V!RecheckStatus(e) = "passed"
  BY <1>1 DEF V!RecheckStatus, V!ResourcesOk
<1>3. ASSUME orig.status = "matched"
      PROVE  V!CompareTargets(orig, e.snap) # "unknown"
  <2>1. /\ e.snap.status = "matched" /\ orig.digest # 0 /\ orig.uid # 0 /\ orig.gen # 0
        /\ e.snap.digest # 0 /\ e.snap.uid # 0 /\ e.snap.gen # 0
    BY <1>1, <1>3 DEF V!Bound
  <2>2. \A k \in {"digest", "uid", "gen"} : orig[k] # 0 /\ e.snap[k] # 0
    BY <2>1
  <2> QED
    BY <1>3, <2>1, <2>2 DEF V!CompareTargets
<1> QED
  BY <1>2, <1>3

\* BusinessRecoveryVerifier.verify() and IncidentRecheckService.create(): of
\* whatever sample and write, and of a snapshot taken of whatever Deployment, what
\* the first calls recovered the second calls passed.
THEOREM JudgementsAgree ==
  \A e \in V!Evidence, a \in V!Write, registered \in BOOLEAN, readable \in BOOLEAN,
     digest \in Nat, d \in V!Deployment :
    V!RecheckAgrees("succeeded", V!CollectProfile(registered, digest, readable, d), a, e)
<1> SUFFICES ASSUME NEW e \in V!Evidence, NEW a \in V!Write, NEW registered \in BOOLEAN,
                    NEW readable \in BOOLEAN, NEW digest \in Nat, NEW d \in V!Deployment
             PROVE  V!RecheckAgrees("succeeded", V!CollectProfile(registered, digest, readable, d), a, e)
  OBVIOUS
<1> DEFINE orig == V!CollectProfile(registered, digest, readable, d)
<1>1. orig.status = "matched" => orig.gen # 0
  BY DEF V!CollectProfile, V!MakeSnapshot, V!Unavailable, V!AssessProfile
<1> QED
  BY <1>1, RecheckHolds

-----------------------------------------------------------------------------
\* The samples of the table are evidence.
LEMMA VaryWithin ==
  ASSUME NEW S, NEW x \in S, NEW alt,
         \A k \in DOMAIN alt : \A v \in alt[k] : [x EXCEPT ![k] = v] \in S
  PROVE  Vary(x, alt) \subseteq S
BY DEF Vary

LEMMA PodsAreTyped == PodsCases \subseteq [PodName -> V!Pod]
<1>1. Live \in V!Endpoint
  BY DEF Live, V!Endpoint
<1>2. Gone \in V!Endpoint
  BY DEF Live, Gone, V!Endpoint
<1>3. [Live EXCEPT !.ready = FALSE, !.serving = FALSE] \in V!Endpoint
  BY DEF Live, V!Endpoint
<1>4. [Gone EXCEPT !.addressed = FALSE] \in V!Endpoint /\ [Gone EXCEPT !.serving = TRUE] \in V!Endpoint
  BY DEF Live, Gone, V!Endpoint
<1>5. GoodPod \in V!Pod
  BY <1>1 DEF GoodPod, V!Pod, V!Faults
<1>6. ASSUME NEW p \in V!Pod
      PROVE  /\ \A b \in BOOLEAN : /\ [p EXCEPT !.listed = b] \in V!Pod
                                   /\ [p EXCEPT !.owned = b] \in V!Pod
                                   /\ [p EXCEPT !.ip = b] \in V!Pod
             /\ \A r \in {"yes", "no", "unknown"} : [p EXCEPT !.ready = r] \in V!Pod
             /\ \A c \in V!Faults : [p EXCEPT !.fault = c] \in V!Pod /\ [p EXCEPT !.past = c] \in V!Pod
             /\ \A s \in SUBSET V!Endpoint : [p EXCEPT !.ends = s] \in V!Pod
  BY DEF V!Pod
<1>7. Unready \in V!Pod
  BY <1>3, <1>5 DEF Unready, V!Pod
<1>8. LeavingPod \in V!Pod
  BY <1>2, <1>6, <1>7 DEF LeavingPod
<1>9. \A c \in {"crash_loop_backoff", "oom_killed"} : c \in V!Faults
  BY DEF V!Faults
<1> HIDE DEF Live, Gone
<1>10. PodCases \subseteq V!Pod
  <2>1. \A b \in BOOLEAN : /\ [GoodPod EXCEPT !.listed = b] \in V!Pod
                           /\ [GoodPod EXCEPT !.owned = b] \in V!Pod
    BY <1>5, <1>6
  <2>2. /\ [GoodPod EXCEPT !.ready = "unknown"] \in V!Pod
        /\ [GoodPod EXCEPT !.past = "oom_killed"] \in V!Pod
        /\ [GoodPod EXCEPT !.fault = "oom_killed"] \in V!Pod
        /\ [GoodPod EXCEPT !.ends = {}] \in V!Pod
    BY <1>5, <1>6, <1>9
  <2>3. [Unready EXCEPT !.fault = "crash_loop_backoff"] \in V!Pod
    BY <1>6, <1>7, <1>9
  <2>4. /\ [LeavingPod EXCEPT !.ends = {}] \in V!Pod
        /\ [LeavingPod EXCEPT !.ip = FALSE] \in V!Pod
        /\ [LeavingPod EXCEPT !.ends = {[Gone EXCEPT !.addressed = FALSE]}] \in V!Pod
        /\ [LeavingPod EXCEPT !.ends = {[Gone EXCEPT !.serving = TRUE]}] \in V!Pod
        /\ [LeavingPod EXCEPT !.ends = {Gone, Live}] \in V!Pod
        /\ [LeavingPod EXCEPT !.fault = "crash_loop_backoff"] \in V!Pod
    BY <1>1, <1>2, <1>4, <1>6, <1>8, <1>9
  <2> QED
    BY <1>7, <1>8, <2>1, <2>2, <2>3, <2>4 DEF PodCases
<1>11. ASSUME NEW x \in V!Pod
       PROVE  /\ \A q : [p \in PodName |-> IF p = q THEN x ELSE GoodPod] \in [PodName -> V!Pod]
              /\ [p \in PodName |-> x] \in [PodName -> V!Pod]
  BY <1>5
<1>12. [GoodPod EXCEPT !.ends = {}] \in V!Pod
  BY <1>5, <1>6
<1> QED
  BY <1>7, <1>8, <1>10, <1>11, <1>12 DEF PodsCases

LEMMA EvidenceFields ==
  ASSUME NEW e \in V!Evidence
  PROVE  /\ \A v \in V!Snapshot : [e EXCEPT !.snap = v] \in V!Evidence
         /\ \A v \in Nat : /\ [e EXCEPT !.digest = v] \in V!Evidence
                           /\ [e EXCEPT !.replicas = v] \in V!Evidence
         /\ \A v \in BOOLEAN : /\ [e EXCEPT !.target = v] \in V!Evidence
                               /\ [e EXCEPT !.linked = v] \in V!Evidence
         /\ \A v \in 0..2 : [e EXCEPT !.deps = v] \in V!Evidence /\ [e EXCEPT !.svcs = v] \in V!Evidence
         /\ \A v \in V!Deployment : [e EXCEPT !.dep = v] \in V!Evidence
         /\ \A v \in V!Service : [e EXCEPT !.svc = v] \in V!Evidence
         /\ \A v \in [PodName -> V!Pod] : [e EXCEPT !.pods = v] \in V!Evidence
         /\ \A v \in [CheckId -> V!CheckCase] : [e EXCEPT !.checks = v] \in V!Evidence
BY DEF V!Evidence

LEMMA DeploymentsAreTyped == \A d \in V!Deployment : Vary(d, DeploymentAlternatives) \subseteq V!Deployment
<1> SUFFICES ASSUME NEW d \in V!Deployment, NEW k \in DOMAIN DeploymentAlternatives,
                    NEW v \in DeploymentAlternatives[k]
             PROVE  [d EXCEPT ![k] = v] \in V!Deployment
  BY VaryWithin
<1>1. k \in {"version", "images", "uid", "gen", "probe", "desired", "ready", "available"}
  BY DEF DeploymentAlternatives
<1>2. CASE k = "version" \/ k = "images"
  <2>1. DeploymentAlternatives.version = {FALSE} /\ DeploymentAlternatives.images = {FALSE}
    BY DEF DeploymentAlternatives
  <2>2. v = FALSE
    BY <1>2, <2>1
  <2>3. [d EXCEPT !.version = FALSE] \in V!Deployment /\ [d EXCEPT !.images = FALSE] \in V!Deployment
    BY DEF V!Deployment
  <2> QED
    BY <1>2, <2>2, <2>3
<1>3. CASE k \in {"uid", "gen", "ready", "available"}
  <2>1. v \in Nat
    BY <1>3 DEF DeploymentAlternatives
  <2> QED
    BY <1>3, <2>1 DEF V!Deployment
<1>4. CASE k = "probe"
  BY <1>4 DEF DeploymentAlternatives, V!Deployment, E!ProbeCase, V!ProbeCase
<1>5. CASE k = "desired"
  BY <1>5 DEF DeploymentAlternatives, V!Deployment
<1> QED
  BY <1>1, <1>2, <1>3, <1>4, <1>5

LEMMA EvidenceStays == \A e \in V!Evidence : VaryEvidence(e) \subseteq V!Evidence
<1> SUFFICES ASSUME NEW e \in V!Evidence, NEW k \in DOMAIN EvidenceAlternatives(e),
                    NEW v \in EvidenceAlternatives(e)[k]
             PROVE  [e EXCEPT ![k] = v] \in V!Evidence
  BY VaryWithin DEF VaryEvidence
<1>1. k \in {"snap", "digest", "target", "deps", "dep", "svcs", "svc", "pods", "replicas", "linked", "checks"}
  BY DEF EvidenceAlternatives
<1>2. e.snap \in V!Snapshot /\ e.dep \in V!Deployment /\ e.svc \in V!Service
  BY DEF V!Evidence
<1>3. CASE k = "snap"
  <2>1. v = [e.snap EXCEPT !.status = "mismatch"]
    BY <1>3 DEF EvidenceAlternatives
  <2>2. v \in V!Snapshot
    BY <1>2, <2>1 DEF V!Snapshot
  <2> QED
    BY <1>3, <2>2, EvidenceFields
<1>4. CASE k \in {"digest", "replicas"}
  <2>1. v \in Nat
    BY <1>4 DEF EvidenceAlternatives
  <2> QED
    BY <1>4, <2>1, EvidenceFields
<1>5. CASE k = "target" \/ k = "linked"
  <2>1. EvidenceAlternatives(e).target = {FALSE} /\ EvidenceAlternatives(e).linked = {FALSE}
    BY DEF EvidenceAlternatives
  <2>2. v = FALSE
    BY <1>5, <2>1
  <2>3. [e EXCEPT !.target = FALSE] \in V!Evidence /\ [e EXCEPT !.linked = FALSE] \in V!Evidence
    BY EvidenceFields
  <2> QED
    BY <1>5, <2>2, <2>3
<1>6. CASE k \in {"deps", "svcs"}
  <2>1. v \in 0..2
    BY <1>6 DEF EvidenceAlternatives
  <2> QED
    BY <1>6, <2>1, EvidenceFields
<1>7. CASE k = "dep"
  <2>1. v \in Vary(e.dep, DeploymentAlternatives)
    BY <1>7 DEF EvidenceAlternatives
  <2> QED
    BY <1>2, <1>7, <2>1, DeploymentsAreTyped, EvidenceFields
<1>8. CASE k = "svc"
  <2> DEFINE alt == [own |-> {FALSE}, selector |-> {"drifted", "untyped"}, uid |-> {0, 4}]
  <2>1. v \in Vary(e.svc, alt)
    BY <1>8 DEF EvidenceAlternatives
  <2>2. ASSUME NEW i \in DOMAIN alt, NEW w \in alt[i]
        PROVE  [e.svc EXCEPT ![i] = w] \in V!Service
    <3>1. i \in {"own", "selector", "uid"}
      OBVIOUS
    <3>2. CASE i = "own"
      <4>1. w = FALSE
        BY <3>2
      <4> QED
        BY <1>2, <3>2, <4>1 DEF V!Service
    <3>3. CASE i = "selector"
      BY <1>2, <3>3 DEF V!Service, V!SelectorCase
    <3>4. CASE i = "uid"
      BY <1>2, <3>4 DEF V!Service
    <3> QED
      BY <3>1, <3>2, <3>3, <3>4
  <2> HIDE DEF alt
  <2>3. v \in V!Service
    BY <1>2, <2>1, <2>2, VaryWithin
  <2> QED
    BY <1>8, <2>3, EvidenceFields
<1>9. CASE k = "pods"
  <2>1. v \in PodsCases
    BY <1>9 DEF EvidenceAlternatives
  <2> QED
    BY <1>9, <2>1, PodsAreTyped, EvidenceFields
<1>10. CASE k = "checks"
  <2>1. v \in (UNION {Checks(c) : c \in E!CheckCase}) \cup {[c \in CheckId |-> "unknown"]}
    BY <1>10 DEF EvidenceAlternatives
  <2>2. ASSUME NEW c \in E!CheckCase
        PROVE  Checks(c) \subseteq [CheckId -> V!CheckCase]
    BY <2>2 DEF Checks, E!CheckCase, V!CheckCase
  <2>3. [c \in CheckId |-> "unknown"] \in [CheckId -> V!CheckCase]
    BY DEF V!CheckCase
  <2>4. v \in [CheckId -> V!CheckCase]
    BY <2>1, <2>2, <2>3
  <2> QED
    BY <1>10, <2>4, EvidenceFields
<1> QED
  BY <1>1, <1>3, <1>4, <1>5, <1>6, <1>7, <1>8, <1>9, <1>10

LEMMA SoundIsEvidence == SoundEvidence \in V!Evidence
<1>1. GoodDeployment \in V!Deployment
  BY DEF GoodDeployment, V!Deployment, V!ProbeCase
<1>2. GoodService \in V!Service
  BY DEF GoodService, V!Service, V!SelectorCase
<1>3. E!CollectProfile(TRUE, 1, TRUE, GoodDeployment) \in V!Snapshot
  BY <1>1 DEF E!CollectProfile, E!MakeSnapshot, V!Snapshot, V!Deployment
<1>4. GoodPod \in V!Pod
  BY DEF GoodPod, Live, V!Pod, V!Faults, V!Endpoint
<1>5. [p \in PodName |-> GoodPod] \in [PodName -> V!Pod]
  BY <1>4
<1>6. [c \in CheckId |-> "passed"] \in [CheckId -> V!CheckCase]
  BY DEF V!CheckCase
<1> DEFINE snap == E!CollectProfile(TRUE, 1, TRUE, GoodDeployment)
           pods == [p \in PodName |-> GoodPod]
           checks == [c \in CheckId |-> "passed"]
<1>7. SoundEvidence = [snap |-> snap, digest |-> 1, target |-> TRUE, deps |-> 1,
                       dep |-> GoodDeployment, svcs |-> 1, svc |-> GoodService, pods |-> pods,
                       replicas |-> 2, checks |-> checks, linked |-> TRUE]
  BY DEF SoundEvidence
<1>8. /\ snap \in V!Snapshot /\ pods \in [PodName -> V!Pod] /\ checks \in [CheckId -> V!CheckCase]
  BY <1>3, <1>5, <1>6
<1> HIDE DEF snap, pods, checks
<1> QED
  BY <1>1, <1>2, <1>7, <1>8 DEF V!Evidence

LEMMA PatchedIsEvidence == Patched \in V!Evidence /\ Rolling \in V!Evidence
<1> DEFINE dep == [SoundEvidence.dep EXCEPT !.gen = 2]
           snap == [SoundEvidence.snap EXCEPT !.gen = 2]
           one == [Patched.dep EXCEPT !.desired = 1, !.ready = 1, !.available = 1]
<1>1. SoundEvidence.dep \in V!Deployment /\ SoundEvidence.snap \in V!Snapshot
  BY SoundIsEvidence DEF V!Evidence
<1>2. dep \in V!Deployment /\ snap \in V!Snapshot
  BY <1>1 DEF V!Deployment, V!Snapshot
<1>3. Patched = [SoundEvidence EXCEPT !.dep = dep, !.snap = snap]
  <2>1. DOMAIN SoundEvidence = {"snap", "digest", "target", "deps", "dep", "svcs", "svc", "pods",
                                "replicas", "checks", "linked"}
    BY DEF SoundEvidence
  <2> QED
    BY <2>1 DEF Patched
<1> HIDE DEF dep, snap
<1>4. Patched \in V!Evidence
  BY <1>2, <1>3, SoundIsEvidence DEF V!Evidence
<1>5. Patched.dep \in V!Deployment
  BY <1>4 DEF V!Evidence
<1>6. one \in V!Deployment
  <2>1. \A d \in V!Deployment : [d EXCEPT !.desired = 1] \in V!Deployment
    BY DEF V!Deployment
  <2>2. \A d \in V!Deployment : [d EXCEPT !.ready = 1] \in V!Deployment
    BY DEF V!Deployment
  <2>3. \A d \in V!Deployment : [d EXCEPT !.available = 1] \in V!Deployment
    BY DEF V!Deployment
  <2>4. one = [[[Patched.dep EXCEPT !.desired = 1] EXCEPT !.ready = 1] EXCEPT !.available = 1]
    BY <1>5 DEF V!Deployment
  <2> HIDE DEF one
  <2> QED
    BY <1>5, <2>1, <2>2, <2>3, <2>4
<1>7. Rolling = [Patched EXCEPT !.dep = one, !.replicas = 1]
  <2>1. DOMAIN Patched = {"snap", "digest", "target", "deps", "dep", "svcs", "svc", "pods",
                          "replicas", "checks", "linked"}
    BY <1>4 DEF V!Evidence
  <2> QED
    BY <2>1 DEF Rolling
<1> HIDE DEF one
<1>8. Rolling \in V!Evidence
  BY <1>4, <1>6, <1>7 DEF V!Evidence
<1> QED
  BY <1>4, <1>8

LEMMA SamplesAreEvidence == SampleCases \subseteq V!Evidence
BY PatchedIsEvidence, EvidenceStays DEF SampleCases

LEMMA EvidenceIsTyped == EvidenceCases \subseteq E!Evidence
<1>1. V!Evidence = E!Evidence
  BY DEF V!Evidence, E!Evidence, V!Snapshot, E!Snapshot, V!Deployment, E!Deployment,
         V!Service, E!Service, V!Pod, E!Pod, V!Endpoint, E!Endpoint, V!Faults, E!Faults,
         V!ProbeCase, E!ProbeCase, V!SelectorCase, E!SelectorCase, V!CheckCase, E!CheckCase
<1>2. Drifted \in V!Evidence /\ BadProbe \in V!Evidence
  BY SoundIsEvidence
  DEF Drifted, BadProbe, V!Evidence, V!Service, V!SelectorCase, V!Deployment, V!ProbeCase
<1>3. [Drifted EXCEPT !.dep.probe = "address"] \in V!Evidence
  BY <1>2 DEF V!Evidence, V!Deployment, V!ProbeCase
<1>4. Symptom \in V!Evidence
  <2>1. Unready \in V!Pod
    BY DEF Unready, GoodPod, Live, V!Pod, V!Endpoint, V!Faults
  <2>2. [SoundEvidence EXCEPT !.dep.ready = 1] \in V!Evidence
    BY SoundIsEvidence DEF V!Evidence, V!Deployment
  <2> QED
    BY <2>1, <2>2 DEF Symptom, V!Evidence, V!CheckCase
<1>5. [Drifted EXCEPT !.checks = [c \in CheckId |-> "unknown"]] \in V!Evidence
  BY <1>2 DEF V!Evidence, V!CheckCase
<1> DEFINE D1 == [Drifted EXCEPT !.dep.probe = "address"]
           D2 == [Drifted EXCEPT !.checks = [c \in CheckId |-> "unknown"]]
           S == VaryEvidence(Drifted) \cup VaryEvidence(BadProbe) \cup {Symptom}
<1>6. S \subseteq V!Evidence /\ VaryEvidence(SoundEvidence) \subseteq V!Evidence
  BY <1>2, <1>4, SoundIsEvidence, EvidenceStays
<1>7. VaryEvidence(D1) \subseteq V!Evidence /\ VaryEvidence(D2) \subseteq V!Evidence
  BY <1>3, <1>5, EvidenceStays
<1>8. EvidenceCases = (UNION {VaryEvidence(e) : e \in VaryEvidence(SoundEvidence)})
                        \cup (UNION {VaryEvidence(e) : e \in S})
                        \cup VaryEvidence(D1) \cup VaryEvidence(D2)
  BY DEF EvidenceCases
<1> HIDE DEF D1, D2, S
<1>9. EvidenceCases \subseteq V!Evidence
  BY <1>6, <1>7, <1>8, EvidenceStays
<1> QED
  BY <1>1, <1>9

\* So is every answer of the table, on every evidence of it.
THEOREM HealthReportsAreTrue == TableSpec => []HealthReport
<1> DEFINE Inv == CaseOf("evidence", EvidenceCases)
<1>1. TableInit => Inv
  BY DEF TableInit, CaseOf
<1>2. Inv /\ [TableNext]_<<table, case>> => Inv'
  BY DEF CaseOf, TableNext, Choose, ChooseCheck, ChooseEvidence, ChooseSample, ChooseApproved,
         ChooseCluster
<1>3. Inv => HealthReport
  BY EvidenceIsTyped, HealthReportHolds, DiagnosesFields
  DEF CaseOf, HealthReport, Holds, DiagnosisFields
<1> QED
  BY <1>1, <1>2, <1>3, PTL DEF TableSpec

LEMMA OriginsHaveGeneration == \A o \in Origins : o.gen # 0
<1> SUFFICES ASSUME NEW o \in Origins
             PROVE  o.gen # 0
  OBVIOUS
<1> DEFINE S == {o1 \in V!Snapshot : o1.gen # 0}
           alt == [status |-> {"mismatch"}, digest |-> {0, 2}, uid |-> {0, 2}, gen |-> {2}]
<1>1. SoundEvidence.snap \in V!Snapshot
  BY SoundIsEvidence DEF V!Evidence
<1>2. SoundEvidence.snap.gen = 1
  BY DEF SoundEvidence, E!CollectProfile, E!MakeSnapshot, GoodDeployment
<1>3. SoundEvidence.snap \in S
  BY <1>1, <1>2
<1>4. ASSUME NEW x \in S, NEW k \in DOMAIN alt, NEW v \in alt[k]
      PROVE  [x EXCEPT ![k] = v] \in S
  BY DEF V!Snapshot
<1>5. o \in Vary(SoundEvidence.snap, alt)
  BY DEF Origins
<1> HIDE DEF S, alt
<1>6. o \in S
  BY <1>3, <1>4, <1>5, VaryWithin
<1> QED
  BY <1>6 DEF S

LEMMA SampleCase ==
  TableSpec => [](CaseOf("sample", SampleCases))
<1> DEFINE Inv == CaseOf("sample", SampleCases)
<1>1. TableInit => Inv
  BY DEF TableInit, CaseOf
<1>2. Inv /\ [TableNext]_<<table, case>> => Inv'
  BY DEF CaseOf, TableNext, Choose, ChooseCheck, ChooseEvidence, ChooseSample, ChooseApproved,
         ChooseCluster
<1> QED
  BY <1>1, <1>2, PTL DEF TableSpec

\* So it is in every case of the table, with every write and earlier snapshot.
THEOREM TableRecoveryIsReal == TableSpec => []RecoveryObserved
<1>1. CaseOf("sample", SampleCases) => RecoveryObserved
  BY SamplesAreEvidence, RecoveryHolds DEF CaseOf, RecoveryObserved, Holds
<1> QED
  BY <1>1, SampleCase, PTL

\* And so the judgements of every case agree.
THEOREM TableJudgementsAgree == TableSpec => []RecheckSame
<1>1. CaseOf("sample", SampleCases) => RecheckSame
  BY SamplesAreEvidence, OriginsHaveGeneration, RecheckHolds DEF CaseOf, RecheckSame, Holds
<1> QED
  BY <1>1, SampleCase, PTL
=============================================================================
