------------------------------ MODULE Dialogue ------------------------------
(***************************************************************************)
(* What people and the worker do with one incident beside its approvals:    *)
(* interactions (api/routes/interactions.py, persistence/interactions.py),  *)
(* controls and answers with their replay by client key                     *)
(* (persistence/controls.py), and the delayed recheck of an observation     *)
(* that passed (persistence and runtime/delayed_rechecks.py).               *)
(*                                                                         *)
(* A client that lost a response posts the same key again, so several       *)
(* handlers may serve one key; each reads without a lock before its         *)
(* transaction.  Diagnosis runs write nothing here: RunControls and         *)
(* DurableWorker are about approvals and writes.                            *)
(***************************************************************************)
EXTENDS Naturals, Sequences, FiniteSets

CONSTANTS Key, NoKey,   \* client_message_id
          Worker,
          MaxRuns, MaxPosts, MaxFaults, MaxAttempts, MaxQuestions

ASSUME DialogueAssumption ==
  /\ NoKey \notin Key
  /\ {MaxRuns, MaxAttempts} \subseteq Nat \ {0}
  /\ {MaxPosts, MaxFaults, MaxQuestions} \subseteq Nat

VARIABLES run,       \* rows of runs, in creation order
          message,   \* the user messages by sequence: their client keys
          control,   \* per key: its row of controls
          revision,  \* incidents.event_revision
          delayed,   \* per observing run: its row of delayed_rechecks
          intent,    \* per key: what its client asks for
          post,      \* the API handlers at work
          work,      \* per worker: the lease it holds and where it is
          faults

vars == <<run, message, control, revision, delayed, intent, post, work, faults>>

Terminal == {"succeeded", "failed", "cancelled"}
Intents == {"explain", "observe", "supplement", "investigate", "stop"}
RunIds == 1..MaxRuns

\* for: the key that opened the round or asked for the interaction.  source and
\* seq: source_message_id and input_message_sequence of a diagnosis run.  rev:
\* event_revision; of an interaction or a control, the one it was accepted at.
Row(kind, k, source, seq, parent, rev) ==
  [kind |-> kind, status |-> "queued", for |-> k, source |-> source, seq |-> seq,
   parent |-> parent, rev |-> rev, epoch |-> 0, tries |-> 0, live |-> FALSE,
   invalid |-> FALSE, done |-> FALSE, asked |-> 0]

NoDelayed == [status |-> "none", basis |-> 0, rev |-> 0, run |-> 0, expired |-> FALSE]
NoControl == [status |-> "none", parent |-> 0, rev |-> 0]
NoQuestion == [run |-> 0, nth |-> 0]
Off == [run |-> 0, epoch |-> 0, at |-> "idle", only |-> FALSE, sample |-> "none"]

Init ==
  /\ run = <<Row("diagnosis", NoKey, NoKey, 0, 0, 0)>>
  /\ message = <<>>
  /\ control = [k \in Key |-> NoControl]
  /\ revision = 0
  /\ delayed = [r \in RunIds |-> NoDelayed]
  /\ intent = [k \in Key |-> "none"]
  /\ post = <<>>
  /\ work = [w \in Worker |-> Off]
  /\ faults = 0

-----------------------------------------------------------------------------
Active(r) == run[r].status \notin Terminal
Latest == CHOOSE r \in DOMAIN run : /\ run[r].kind = "diagnosis"
                                    /\ \A q \in DOMAIN run : q > r => run[q].kind # "diagnosis"
LaneBusy == \E r \in DOMAIN run : run[r].kind # "diagnosis" /\ Active(r)
ByKey(k) == {r \in DOMAIN run : run[r].kind = "interaction" /\ run[r].for = k}
Applied(k) == control[k].status # "none" \/ \E r \in DOMAIN run : run[r].for = k
Sent(k) == {i \in DOMAIN message : message[i] = k}
Sequence(k) == CHOOSE i \in Sent(k) : TRUE
\* message_in_transaction()
WithMessage(k) == IF Sent(k) = {} THEN Append(message, k) ELSE message
SequenceIn(m, k) == CHOOSE i \in DOMAIN m : m[i] = k

\* A message opens one round, and none that its run has read already.
FreshMessage(k, m) == /\ SequenceIn(m, k) > run[Latest].seq
                      /\ \A r \in DOMAIN run : run[r].source # k

\* Mutant: the interaction lane is not looked at.
RoundAllowedBusy(rows, parent, k) ==
  parent = Latest /\ run[Latest].status \in Terminal /\ FreshMessage(k, message)

\* Mutant: accept_round() trusts what its callers read.
RoundAllowedTrusting(rows, parent, k) == run[Latest].status \in Terminal

\* accept_round(), within a transaction whose rows so far are `rows`.
RoundAllowed(rows, parent, k) ==
  /\ parent = Latest /\ run[Latest].status \in Terminal
  /\ \A r \in DOMAIN rows : rows[r].kind # "diagnosis" => rows[r].status \in Terminal
  /\ FreshMessage(k, message)

Round(rows, forKey, k) ==
  Append(rows, Row("diagnosis", forKey, k, Sequence(k), Latest, revision))

-----------------------------------------------------------------------------
\* Clients.  A key always carries the same request.  again: the request was
\* carried out already when it was posted.
Request(k, at, question) ==
  [key |-> k, at |-> at, parent |-> 0, question |-> question, again |-> Applied(k)]

Post(k) ==
  /\ Len(post) < MaxPosts
  /\ \E a \in Intents : /\ intent[k] \in {"none", a}
                        /\ intent' = [intent EXCEPT ![k] = a]
  /\ post' = Append(post, Request(k, "lookup", NoQuestion))
  /\ UNCHANGED <<run, message, control, revision, delayed, work, faults>>

\* An answer names the question it was written for, also when it is repeated.
Question == [run |-> Latest, nth |-> run[Latest].asked]
QuestionsOf(k) == {post[j].question : j \in {n \in DOMAIN post : post[n].key = k}}

PostAnswer(k) ==
  /\ Len(post) < MaxPosts
  /\ \E q \in {Question} \cup QuestionsOf(k) :
       /\ \/ intent[k] = "none" /\ run[Latest].status = "waiting_user" /\ q = Question
          \/ intent[k] = "answer" /\ q \in QuestionsOf(k)
       /\ post' = Append(post, Request(k, "answer", q))
  /\ intent' = [intent EXCEPT ![k] = "answer"]
  /\ UNCHANGED <<run, message, control, revision, delayed, work, faults>>

Handler(i, at, parent) ==
  post' = [post EXCEPT ![i] = [@ EXCEPT !.at = at, !.parent = parent]]

Respond(i) == post' = [post EXCEPT ![i] = [@ EXCEPT !.at = "done", !.parent = 0, !.again = FALSE]]

Unhandled == <<run, message, control, revision, delayed, intent, work, faults>>

\* create(): a known key is answered with its interaction.
Lookup(i) ==
  /\ post[i].at = "lookup"
  /\ IF ByKey(post[i].key) # {} THEN Respond(i) ELSE Handler(i, "route", 0)
  /\ UNCHANGED Unhandled

Route(i) ==
  LET k == post[i].key
      toControl == \/ control[k].status # "none" \/ intent[k] = "stop"
                   \/ /\ intent[k] \in {"supplement", "investigate"}
                      /\ Active(Latest) \/ run[Latest].invalid IN
  /\ post[i].at = "route"
  /\ Handler(i, IF toControl THEN "control" ELSE "accept", Latest)
  /\ UNCHANGED Unhandled

Refuse(i) == Respond(i) /\ UNCHANGED Unhandled

Historical(k) == intent[k] = "explain"

Acceptable(i) ==
  LET k == post[i].key IN
  /\ ByKey(k) = {} /\ post[i].parent = Latest /\ ~LaneBusy
  /\ run[Latest].status \in Terminal \/ (Historical(k) /\ run[Latest].status = "waiting_user")
  /\ Len(run) < MaxRuns

\* accept_interaction()
Accept(i) ==
  LET k == post[i].key IN
  /\ post[i].at = "accept"
  /\ IF Acceptable(i)
     THEN /\ message' = WithMessage(k)
          /\ run' = Append(run, Row("interaction", k, NoKey, 0, Latest, revision))
          /\ Respond(i)
          /\ UNCHANGED <<control, revision, delayed, intent, work, faults>>
     ELSE Refuse(i)

\* Mutant: interactions go on.
CancelledDiagnosis == [r \in DOMAIN run |->
  IF Active(r) /\ r = Latest
  THEN [run[r] EXCEPT !.status = "cancelled", !.invalid = TRUE, !.live = FALSE] ELSE run[r]]

\* A control cancels the active diagnosis run and every interaction.
CancelledRuns == [r \in DOMAIN run |->
  IF Active(r) /\ (r = Latest \/ run[r].kind # "diagnosis")
  THEN [run[r] EXCEPT !.status = "cancelled", !.invalid = TRUE, !.live = FALSE] ELSE run[r]]

ControlRows(k) == [d \in Key |->
  IF d = k THEN [status |-> IF intent[k] = "investigate" THEN "pending" ELSE "saved",
                 parent |-> Latest, rev |-> revision + 1]
  ELSE IF control[d].status = "pending" /\ intent[k] # "supplement"
  THEN [control[d] EXCEPT !.status = "superseded"] ELSE control[d]]

\* Mutant: the key is not looked up under the lock.
ReplayedNever(k) == FALSE

Replayed(k) == control[k].status # "none"

\* control(); its caller has read the latest run again, and a run that changed
\* since refuses it.
Control(i) ==
  LET k == post[i].key IN
  /\ post[i].at = "control"
  /\ IF ~Replayed(k) /\ FreshMessage(k, WithMessage(k))
     THEN /\ message' = WithMessage(k)
          /\ revision' = revision + 1
          /\ run' = CancelledRuns
          /\ control' = ControlRows(k)
          /\ Respond(i)
          /\ UNCHANGED <<delayed, intent, work, faults>>
     ELSE Refuse(i)

\* POST /messages, refused while a run is active, then POST /runs with the message.
SaveMessage(k) ==
  /\ \A r \in DOMAIN run : ~Active(r)
  /\ intent[k] = "none" /\ intent' = [intent EXCEPT ![k] = "message"]
  /\ message' = Append(message, k)
  /\ UNCHANGED <<run, control, revision, delayed, post, work, faults>>

PostRound(k) ==
  /\ intent[k] = "message" /\ ~Applied(k) /\ Len(run) < MaxRuns
  /\ RoundAllowed(run, Latest, k)
  /\ run' = Round(run, k, k)
  /\ UNCHANGED <<message, control, revision, delayed, intent, post, work, faults>>

\* answer(): the answer is bound to the question the run waits with; posted
\* again, it finds its own row.
Answer(i) ==
  LET k == post[i].key
      r == post[i].question.run IN
  /\ post[i].at = "answer"
  /\ IF ~Replayed(k) /\ run[r].status = "waiting_user" /\ run[r].asked = post[i].question.nth
     THEN /\ message' = WithMessage(k)
          /\ revision' = revision + 1
          /\ run' = [run EXCEPT ![r] = [@ EXCEPT !.status = "queued", !.rev = revision + 1, !.tries = 0]]
          /\ control' = [control EXCEPT ![k] = [status |-> "saved", parent |-> r, rev |-> revision + 1]]
          /\ Respond(i)
          /\ UNCHANGED <<delayed, intent, work, faults>>
     ELSE Refuse(i)

-----------------------------------------------------------------------------
\* The poll of a worker.

StillCurrent(k) == control[k].parent = Latest

Last == message[Len(message)]

\* activate_pending(): the round reads every message saved so far.
ActivatePending(k) ==
  /\ control[k].status = "pending" /\ ~Active(control[k].parent)
  /\ IF ~StillCurrent(k)
     THEN /\ control' = [control EXCEPT ![k].status = "superseded"]
          /\ UNCHANGED run
     ELSE /\ RoundAllowed(run, Latest, Last) /\ Len(run) < MaxRuns
          /\ control' = [control EXCEPT ![k].status = "started"]
          /\ run' = Round(run, k, Last)
  /\ UNCHANGED <<message, revision, delayed, intent, post, work, faults>>

\* stale(): the incident moved on, or the observation's own run was revoked.
Stale(d) == \/ delayed[d].rev # revision \/ delayed[d].basis # Latest
            \/ run[d].invalid \/ run[d].status = "cancelled"

Ended(d, status) == [delayed EXCEPT ![d].status = status]

\* Mutant: a row that is running is left to its run.
OpenPending(d) == delayed[d].status = "pending"

Open(d) == delayed[d].status \in {"pending", "running"}

\* activate_due(), one row: give it up, look after its run, or start it.
ActivateDelayed(d) ==
  LET row == delayed[d] IN
  /\ Open(d)
  /\ \/ /\ Stale(d) \/ row.expired
        /\ delayed' = Ended(d, IF Stale(d) THEN "invalidated" ELSE "expired")
        /\ run' = IF row.run # 0 /\ Active(row.run)
                  THEN [run EXCEPT ![row.run] = [@ EXCEPT !.status = "cancelled", !.live = FALSE]]
                  ELSE run
     \/ /\ ~Stale(d) /\ ~row.expired /\ row.status = "running" /\ ~Active(row.run)
        /\ delayed' = Ended(d, "unknown")
        /\ UNCHANGED run
     \/ /\ ~Stale(d) /\ ~row.expired /\ row.status = "pending"
        /\ \A r \in DOMAIN run : ~Active(r)
        /\ Len(run) < MaxRuns
        /\ run' = Append(run, Row("delayed", NoKey, NoKey, 0, d, revision))
        /\ delayed' = [delayed EXCEPT ![d] = [@ EXCEPT !.status = "running", !.run = Len(run) + 1]]
  /\ UNCHANGED <<message, control, revision, intent, post, work, faults>>

ExpireDelayed(d) ==
  /\ delayed[d].status \in {"pending", "running"} /\ ~delayed[d].expired
  /\ delayed' = [delayed EXCEPT ![d].expired = TRUE]
  /\ UNCHANGED <<run, message, control, revision, intent, post, work, faults>>

-----------------------------------------------------------------------------
\* Workers.
Claimable(r) == \/ run[r].status \in {"queued", "retry_scheduled"}
                \/ run[r].status = "running" /\ ~run[r].live

Claim(w) ==
  /\ work[w].at = "idle"
  /\ \E r \in DOMAIN run :
       /\ Claimable(r) /\ \A q \in DOMAIN run : q < r => ~Claimable(q)
       /\ LET only == run[r].tries >= MaxAttempts IN
          /\ run' = [run EXCEPT ![r] = [@ EXCEPT !.status = "running", !.live = TRUE,
                       !.epoch = run[r].epoch + 1,
                       !.tries = IF only THEN run[r].tries ELSE run[r].tries + 1]]
          /\ work' = [work EXCEPT ![w] = [Off EXCEPT !.run = r, !.epoch = run[r].epoch + 1,
                                                     !.at = "claimed", !.only = only]]
  /\ UNCHANGED <<message, control, revision, delayed, intent, post, faults>>

Fenced(w) == LET row == run[work[w].run] IN
             row.status = "running" /\ row.live /\ row.epoch = work[w].epoch

Kind(w) == run[work[w].run].kind

Idle(w) == work' = [work EXCEPT ![w] = Off]
At(w, at) == work' = [work EXCEPT ![w].at = at]
Rest == <<message, control, revision, intent, post, faults>>

Finished(r, status) == [run EXCEPT ![r] = [@ EXCEPT !.status = status, !.live = FALSE]]

\* A diagnosis run ends, well or not, or asks the human.
Diagnose(w) ==
  LET r == work[w].run IN
  /\ work[w].at = "claimed" /\ Kind(w) = "diagnosis" /\ Fenced(w)
  /\ \E s \in {"succeeded", "waiting_user"} :
       /\ s = "waiting_user" => run[r].asked < MaxQuestions /\ ~work[w].only
       /\ run' = [run EXCEPT ![r] = [@ EXCEPT !.status = s, !.live = FALSE,
                    !.asked = IF s = "waiting_user" THEN run[r].asked + 1 ELSE run[r].asked]]
  /\ Idle(w)
  /\ UNCHANGED <<delayed, Rest>>

\* The model's answer or the recheck is saved before it is published; a window
\* that passed leaves its delayed recheck in the same transaction.
Perform(w) ==
  LET r == work[w].run IN
  /\ work[w].at = "claimed" /\ Kind(w) = "interaction" /\ Fenced(w)
  /\ ~run[r].done /\ ~work[w].only
  /\ intent[run[r].for] \in {"explain", "observe"}
  /\ run' = [run EXCEPT ![r].done = TRUE]
  /\ \/ UNCHANGED delayed
     \/ /\ intent[run[r].for] = "observe"
        /\ delayed' = [delayed EXCEPT ![r] = [NoDelayed EXCEPT !.status = "pending",
                                                !.basis = Latest, !.rev = revision]]
  /\ UNCHANGED <<work, Rest>>

Ready(w) == LET r == work[w].run IN
            run[r].done \/ intent[run[r].for] \notin {"explain", "observe"}

\* complete(): the answer, the end of the run and the round it asked for are
\* one transaction.
Complete(w) ==
  LET r == work[w].run
      done == Finished(r, "succeeded") IN
  /\ work[w].at = "claimed" /\ Kind(w) = "interaction" /\ Fenced(w) /\ Ready(w)
  /\ \/ /\ intent[run[r].for] # "investigate"
        /\ run' = done
     \/ /\ intent[run[r].for] = "investigate"
        /\ RoundAllowed(done, run[r].parent, run[r].for) /\ Len(run) < MaxRuns
        /\ run' = Round(done, run[r].for, run[r].for)
  /\ Idle(w)
  /\ UNCHANGED <<delayed, Rest>>

\* The round is refused, nothing may be called any more, or a dependency fails:
\* a transient error is tried again while attempts are left.
InteractionThrows(w) ==
  LET r == work[w].run IN
  /\ work[w].at # "idle" /\ Kind(w) # "diagnosis" /\ Fenced(w)
  /\ \/ run' = Finished(r, "failed") /\ UNCHANGED faults
     \/ /\ faults < MaxFaults /\ run[r].tries < MaxAttempts
        /\ run' = Finished(r, "retry_scheduled") /\ faults' = faults + 1
  /\ Idle(w)
  /\ UNCHANGED <<delayed, message, control, revision, intent, post>>

\* execute_delayed_recheck(): locked_row() ends a row whose basis is gone.
Judged(d, status) == CASE Stale(d) -> "invalidated"
                       [] ~Stale(d) /\ delayed[d].expired -> "expired"
                       [] OTHER -> status

CheckDelayed(w) ==
  LET d == run[work[w].run].parent IN
  /\ work[w].at = "claimed" /\ Kind(w) = "delayed" /\ Fenced(w)
  /\ IF delayed[d].status = "running"
     THEN LET s == Judged(d, IF work[w].only THEN "unknown" ELSE "running") IN
          /\ delayed' = Ended(d, s)
          /\ At(w, IF s = "running" THEN "sampling" ELSE "publish")
     ELSE At(w, "publish") /\ UNCHANGED delayed
  /\ UNCHANGED <<run, Rest>>

\* The read-only sample, outside any transaction.
Sample(w) ==
  /\ work[w].at = "sampling"
  /\ \E s \in {"passed", "relapsed", "unknown", "invalidated"} :
       work' = [work EXCEPT ![w] = [@ EXCEPT !.at = "sampled", !.sample = s]]
  /\ UNCHANGED <<run, delayed, Rest>>

\* Mutant: the row is not judged again after the sample.
VerdictOnce(d, s) == s

\* The row is looked at again before the sample decides it.
Verdict(d, s) == Judged(d, s)

DecideDelayed(w) ==
  LET d == run[work[w].run].parent IN
  /\ work[w].at = "sampled" /\ Fenced(w)
  /\ delayed' = IF delayed[d].status = "running" THEN Ended(d, Verdict(d, work[w].sample))
                ELSE delayed
  /\ At(w, "publish")
  /\ UNCHANGED <<run, Rest>>

PublishDelayed(w) ==
  /\ work[w].at = "publish" /\ Fenced(w)
  /\ run' = Finished(work[w].run, "succeeded")
  /\ Idle(w)
  /\ UNCHANGED <<delayed, Rest>>

\* LeaseLost: the next fenced transaction or the heartbeat tells.
LoseLease(w) ==
  /\ work[w].at # "idle" /\ ~Fenced(w)
  /\ Idle(w)
  /\ UNCHANGED <<run, delayed, Rest>>

Die(w) ==
  /\ work[w].at # "idle" /\ faults < MaxFaults
  /\ faults' = faults + 1
  /\ Idle(w)
  /\ UNCHANGED <<run, message, control, revision, delayed, intent, post>>

\* The lease of a worker that died runs out.
ExpireLease(r) ==
  /\ run[r].status = "running" /\ run[r].live
  /\ \A w \in Worker : ~(work[w].run = r /\ work[w].epoch = run[r].epoch)
  /\ run' = [run EXCEPT ![r].live = FALSE]
  /\ UNCHANGED <<delayed, work, Rest>>

-----------------------------------------------------------------------------
HandlerStep(i) == Lookup(i) \/ Route(i) \/ Accept(i) \/ Control(i) \/ Answer(i)
HumanStep(k) == Post(k) \/ PostAnswer(k) \/ SaveMessage(k) \/ PostRound(k)
WorkerStep(w) == \/ Claim(w) \/ Diagnose(w) \/ Perform(w) \/ Complete(w) \/ InteractionThrows(w)
                 \/ CheckDelayed(w) \/ Sample(w) \/ DecideDelayed(w) \/ PublishDelayed(w) \/ LoseLease(w)

Next == \/ \E k \in Key : HumanStep(k) \/ ActivatePending(k)
        \/ \E i \in DOMAIN post : HandlerStep(i)
        \/ \E d \in DOMAIN run : ActivateDelayed(d) \/ ExpireDelayed(d) \/ ExpireLease(d)
        \/ \E w \in Worker : WorkerStep(w) \/ Die(w)

\* Workers go on and poll, due dates pass and the leases of the dead run out.
Fairness == /\ \A w \in Worker : WF_vars(WorkerStep(w))
            /\ WF_vars(\E d \in DOMAIN run : ActivateDelayed(d))
            /\ WF_vars(\E d \in DOMAIN run : ExpireDelayed(d))
            /\ WF_vars(\E d \in DOMAIN run : ExpireLease(d))

DialogueSpec == Init /\ [][Next]_vars /\ Fairness

-----------------------------------------------------------------------------
\* A client that repeats a request already carried out, because its response was
\* lost, changes nothing: neither as an interaction, a control nor an answer, and
\* however the incident moved on in between (the replay checks of create(),
\* control() and accept_interaction()).
RetryIsInert ==
  [][\A i \in DOMAIN post : post[i].again /\ post'[i] # post[i] =>
       <<run, message, control, revision>>' = <<run, message, control, revision>>]_vars

\* Nothing but a question about the past is looked at while a diagnosis run is
\* active: rechecks never observe a target that a run may be changing.
LanesExclusive ==
  /\ Cardinality({r \in DOMAIN run : run[r].kind = "diagnosis" /\ Active(r)}) <= 1
  /\ Cardinality({r \in DOMAIN run : run[r].kind # "diagnosis" /\ Active(r)}) <= 1
  /\ Active(Latest) => \A r \in DOMAIN run :
       Active(r) /\ r # Latest => run[r].kind = "interaction" /\ Historical(run[r].for)

\* A key leaves one message and one interaction and opens at most one round,
\* although overlapping posts of it may be routed differently and its deferred
\* request and its interaction race to open the round.
OneRoundPerKey ==
  \A k \in Key : /\ Cardinality(Sent(k)) <= 1 /\ Cardinality(ByKey(k)) <= 1
                 /\ Cardinality({r \in DOMAIN run : run[r].kind = "diagnosis" /\ run[r].for = k}) <= 1

\* The stop controls that came after revision n.
StoppedAfter(n) == {s \in Key : control[s].status # "none" /\ intent[s] = "stop" /\ control[s].rev > n}

\* A stop revokes every request it finds: no round is opened for an interaction
\* or a deferred control accepted before it, by whichever worker and after
\* whatever crash ("A stopped/superseded interaction must not launch a child
\* diagnosis later").
StopHolds ==
  [][/\ \A k \in Key : control[k].status = "pending" /\ control'[k].status = "started" =>
          StoppedAfter(control[k].rev) = {}
     /\ \A r \in DOMAIN run : /\ run[r].kind = "interaction" /\ Active(r)
                             /\ run'[r].status = "succeeded" /\ intent[run[r].for] = "investigate"
                             => StoppedAfter(run[r].rev) = {}]_vars

\* A delayed verdict about the target is given only on the basis it was scheduled
\* on and before it expired, although the sample is taken outside any transaction
\* while controls arrive and time passes.
DelayedVerdictCurrent ==
  [][\A d \in DOMAIN run : delayed[d].status = "running" /\ delayed'[d].status \in {"passed", "relapsed"} =>
       ~Stale(d) /\ ~delayed[d].expired /\ ~Active(Latest)]_vars

\* No delayed recheck stays open for ever: it is decided, expires or is given
\* up, whatever becomes of its run and of the worker that held it.
DelayedEnds == []<>(\A d \in RunIds : delayed[d].status \notin {"pending", "running"})

-----------------------------------------------------------------------------
\* The inductive invariant behind these properties.
IsSeq(s) == s \in Seq({s[i] : i \in DOMAIN s})

Fields == {"kind", "status", "for", "source", "seq", "parent", "rev", "epoch", "tries",
           "live", "invalid", "done", "asked"}

\* Rows carry the keys of their kind, and there is a latest diagnosis run.
RowOK(x) ==
  /\ DOMAIN x = Fields
  /\ x.kind \in {"diagnosis", "interaction", "delayed"}
  /\ x.for \in Key \cup {NoKey}
  /\ x.kind = "interaction" => x.for \in Key
  /\ x.kind = "delayed" => x.for = NoKey
  /\ x.parent \in Nat /\ x.rev \in Nat

RunsOK ==
  /\ IsSeq(run) /\ Len(run) <= MaxRuns
  /\ \A r \in DOMAIN run : RowOK(run[r]) /\ run[r].parent <= Len(run)
  /\ \E r \in DOMAIN run : /\ run[r].kind = "diagnosis"
                           /\ \A q \in DOMAIN run : q > r => run[q].kind # "diagnosis"

LanesOK ==
  /\ \A r \in DOMAIN run : run[r].kind = "diagnosis" /\ Active(r) => r = Latest
  /\ \A r, q \in DOMAIN run :
       run[r].kind # "diagnosis" /\ Active(r) /\ run[q].kind # "diagnosis" /\ Active(q) => r = q
  /\ Active(Latest) => \A r \in DOMAIN run :
       Active(r) /\ r # Latest => run[r].kind = "interaction" /\ Historical(run[r].for)

\* The rounds opened for a key, and those of them that its interaction did not open.
RoundsFor(k) == {r \in DOMAIN run : run[r].kind = "diagnosis" /\ run[r].for = k}
DeferredFor(k) == {r \in RoundsFor(k) : run[r].source # k}

\* What its message, its interaction and its rounds tell of a key.
KeysOK ==
  /\ DOMAIN intent = Key
  /\ IsSeq(message) /\ \A i, j \in DOMAIN message : message[i] = message[j] => i = j
  /\ \A k \in Key : Sent(k) # {} => intent[k] # "none"
  /\ \A k \in Key : \A r, q \in ByKey(k) : r = q
  /\ \A r \in DOMAIN run : run[r].kind = "interaction" => intent[run[r].for] \in Intents

\* A round without an interaction is the work of a control or of POST /runs, and
\* a second request of the key finds the round newer than what it is based on.
RoundsOK ==
  /\ \A k \in Key : DeferredFor(k) # {} => control[k].status # "none"
  /\ \A k \in Key : RoundsFor(k) # {} =>
       control[k].status # "none" \/ ByKey(k) # {} \/ intent[k] = "message"
  /\ \A k \in Key : \A r, q \in RoundsFor(k) : r = q
  /\ \A k \in Key : control[k].status = "pending" => \A r \in RoundsFor(k) : r > control[k].parent
  /\ \A k \in Key : \A r \in ByKey(k) : \A q \in DeferredFor(k) : q > run[r].parent

\* No request that is still open was accepted before a stop.
ControlsOK ==
  /\ revision \in Nat /\ DOMAIN control = Key
  /\ \A k \in Key : /\ DOMAIN control[k] = {"status", "parent", "rev"}
                    /\ control[k].parent \in 0..Len(run) /\ control[k].rev \in 0..revision
                    /\ control[k].status # "none" => intent[k] # "none"
                    /\ control[k].status = "pending" => StoppedAfter(control[k].rev) = {}
  /\ \A r \in DOMAIN run : run[r].kind = "interaction" /\ Active(r) => StoppedAfter(run[r].rev) = {}

\* A repeated request is on its way to the row that answers it, and a handler
\* about to accept has seen no control of its key on the run it read.
PostOK(i) ==
  LET k == post[i].key IN
  /\ DOMAIN post[i] = {"key", "at", "parent", "question", "again"}
  /\ k \in Key /\ intent[k] \in Intents \cup {"answer"} /\ post[i].parent \in 0..Len(run)
  /\ post[i].at \notin {"answer", "done"} => intent[k] \in Intents
  /\ intent[k] = "answer" => /\ post[i].question.run \in DOMAIN run
                             /\ run[post[i].question.run].kind = "diagnosis"
  /\ post[i].at = "answer" => intent[k] = "answer"
  /\ post[i].again => \/ post[i].at \in {"lookup", "route", "control", "answer"} /\ Replayed(k)
                      \/ post[i].at = "lookup" /\ ByKey(k) # {}
  /\ post[i].at = "accept" => \A q \in DeferredFor(k) : q > post[i].parent

PostsOK == IsSeq(post) /\ \A i \in DOMAIN post : PostOK(i)

WorkOK ==
  /\ DOMAIN work = Worker
  /\ \A w \in Worker : /\ DOMAIN work[w] = {"run", "epoch", "at", "only", "sample"}
                       /\ work[w].at # "idle" => work[w].run \in DOMAIN run
                       /\ work[w].at \in {"sampling", "sampled", "publish"} => Kind(w) = "delayed"

DelayedOK ==
  /\ DOMAIN delayed = RunIds
  /\ \A d \in RunIds : /\ DOMAIN delayed[d] = {"status", "basis", "rev", "run", "expired"}
                       /\ delayed[d].run \in 0..Len(run)

\* LanesExclusive and OneRoundPerKey need each other's history: which control,
\* interaction or handler of a key may still open a round, and which run it read.
DialogueInv == /\ RunsOK /\ LanesOK /\ KeysOK /\ RoundsOK
               /\ ControlsOK /\ PostsOK /\ WorkOK /\ DelayedOK
=============================================================================
