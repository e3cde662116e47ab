---------------------------- MODULE BusinessChecks ----------------------------
(***************************************************************************)
(* One registered business check on its way through four programs: the     *)
(* service under test, the in-cluster checker (business_checks/server.py   *)
(* and protocol.py), the API server's proxy and the collector              *)
(* (business_checks/collector.py).  What the collector stores decides      *)
(* whether a diagnosis or a verification may call the service healthy.     *)
(***************************************************************************)
EXTENDS Naturals

\* What the parties do while one check runs.
\*   profile    the registration when the checks start: matched, changed, none
\*   fits       the Service is a ClusterIP one with the registered port
\*   late       the 25 s the checks share leave no room for this one
\*   config     the checker's mounted file: valid, invalid, or a file with
\*              another target under the same digest and check
\*   checker    version, accepts the request, has a free slot, and how its
\*              child ends
\*   dns, conn, size, code, body   the service's answer
\*   nonce      the reply answers this request
\*   after      what the collector reads again when all checks are done
World ==
  [profile: {"matched", "changed", "none"}, fits: BOOLEAN, late: BOOLEAN,
   config: {"valid", "invalid", "unregistered", "other target"},
   version: BOOLEAN, slot: BOOLEAN,
   child: {"answers", "dies", "is late", "cannot start"},
   dns: {"pinned", "other", "error"}, conn: {"open", "timeout", "refused"},
   size: BOOLEAN, code: BOOLEAN, body: {"match", "differ", "not json"},
   nonce: BOOLEAN,
   after: {"same", "unreadable", "service changed", "application changed"}]

Result == [status: {"passed", "failed", "unknown", "skipped"},
           http: {"expected", "other", "none"}, content: {"yes", "no", "none"},
           error: BOOLEAN, bound: BOOLEAN]

\* result_base()
ResultBase == [status |-> "unknown", http |-> "none", content |-> "none",
               error |-> FALSE, bound |-> TRUE]
Error == [ResultBase EXCEPT !.error = TRUE]

\* perform_check(): only an answer of the service itself is a failure.
PerformCheck(w) ==
  LET http == IF w.code THEN "expected" ELSE "other" IN
  IF w.dns # "pinned" \/ w.conn # "open" THEN Error
  ELSE IF ~w.size THEN [Error EXCEPT !.http = http]
  ELSE IF ~w.code THEN [Error EXCEPT !.http = http, !.status = "failed"]
  ELSE IF w.body # "match"
    THEN [Error EXCEPT !.http = http, !.status = "failed", !.content = "no"]
  ELSE [ResultBase EXCEPT !.http = http, !.status = "passed", !.content = "yes"]

\* bounded_check(): the child process has a hard deadline.
BoundedCheck(w) == IF w.child = "answers" THEN PerformCheck(w) ELSE Error

\* do_GET(): the file is read again for every request.
Serves(w) == w.config \in {"valid", "other target"} /\ w.slot /\ w.child # "cannot start"

\* call_probe(): the reply has to answer this request about this target, and a
\* pass has to show what it saw.
ReplyBound(w, r) ==
  /\ w.version /\ w.nonce /\ w.config = "valid"
  /\ r.status = "passed" => r.http = "expected" /\ r.content = "yes" /\ ~r.error

\* unavailable(): a result without a request; it is evidence of nothing.
Unavailable(status) == [Error EXCEPT !.bound = FALSE, !.status = status]

CollectOne(w) ==
  IF w.profile # "matched" \/ w.late THEN Unavailable("skipped")
  ELSE IF w.fits /\ Serves(w) /\ ReplyBound(w, BoundedCheck(w)) THEN BoundedCheck(w)
  ELSE Unavailable("unknown")

\* Mutant: nothing is read again after the checks.
NoLongerChecked(w) == CollectOne(w)

\* collect_business_checks(): a target that changed meanwhile makes every
\* result that names it unknown.
CollectCheck(w) ==
  LET r == CollectOne(w) IN
  IF w.after # "same" /\ r.bound THEN [r EXCEPT !.status = "unknown", !.error = TRUE]
  ELSE r

\* normalize_evidence() and diagnostic_facts(): the case a result counts as.
CheckEvidence(w) ==
  LET r == CollectCheck(w) IN
  IF w.profile # "matched" THEN "missing"
  ELSE IF ~r.bound THEN "unbound"
  ELSE IF r.status = "passed" /\ ~(r.http = "expected" /\ r.content = "yes" /\ ~r.error)
    THEN "hollow"
  ELSE r.status

-----------------------------------------------------------------------------
\* A check counts as passed only if the pinned service gave the registered
\* answer in full to this request, and as failed only if the service answered
\* otherwise; in both cases the registration, the Service and the Deployment
\* were the same before and after.
CheckIsObserved(w) ==
  LET c == CheckEvidence(w)
      answered == /\ w.dns = "pinned" /\ w.conn = "open" /\ w.size
                  /\ w.child = "answers" /\ w.nonce /\ w.after = "same"
  IN /\ c = "passed" => answered /\ w.code /\ w.body = "match"
     /\ c = "failed" => answered /\ (~w.code \/ w.body # "match")
     /\ c \notin {"hollow", "skipped"}
=============================================================================
