---------------------------- MODULE Investigation ----------------------------
(***************************************************************************)
(* The bounded investigation of one run: investigation/graph.py decides,    *)
(* collects and asks; runtime/budget.py keeps the run's ledger, in which    *)
(* every request to the model or the cluster is reserved under a request id *)
(* before it is sent and settled with its result afterwards.               *)
(*                                                                         *)
(* A worker executes the graph step by step, one ledger transaction or one  *)
(* external call at a time, and may die or lose its lease anywhere; the     *)
(* next claim resumes from the checkpoint stored last.  The graph library   *)
(* stores checkpoints in order but behind execution.                        *)
(***************************************************************************)
EXTENDS Naturals, Sequences, FiniteSets

CONSTANTS Query,         \* what a read-only tool may be asked
          Batch,         \* the sequences of queries a decision may request
          Slot,          \* the kinds of question; "changes" names resources
          Attempts,      \* policy model_attempts
          Decisions,     \* policy decisions, also the last non-final step
          MaxQuestions,
          MaxCrashes, MaxLag

ASSUME InvestigationAssumption ==
  /\ {Attempts, Decisions, MaxLag} \subseteq Nat \ {0}
  /\ {MaxQuestions, MaxCrashes} \subseteq Nat
  /\ Batch \subseteq Seq(Query)
  /\ \A b \in Batch : Len(b) > 0 /\ \A i, j \in DOMAIN b : b[i] = b[j] => i = j

VARIABLES ledger,   \* the run's budget row
          graph,    \* values of the executing graph, and its next node
          work,     \* where the worker is inside that node
          saved, unsaved,  \* the stored checkpoint; the ones still on their way
          answer,   \* the human's answer, once given, to the pending question
          sent,     \* per request: how often it went out
          crashes

vars == <<ledger, graph, work, saved, unsaved, answer, sent, crashes>>

None == "none"
Nobody == [n |-> 0, slot |-> None, skip |-> FALSE, changed |-> {}]

\* request_id: 6b1:<name>, 6b2:decision:<step>[:correction], 6b2:tool:<step>:<index>.
Initial(i)       == <<"initial", 0, i>>
Ask(step, again) == <<"model", step, again>>
Tool(step, i)    == <<"tool", step, i>>

Reply(action, batch, reason, slot) ==
  [action |-> action, batch |-> batch, reason |-> reason, slot |-> slot]

\* What the provider may reply.  "boundary": a tool or resource that is not
\* allowed; "invalid": unparsable or refused for its references; "report": a
\* conclusion whose assessment the evidence refutes.
Replies ==
  {Reply(a, <<>>, None, None) : a \in {"error", "boundary", "invalid", "report",
                                       "conclude", "healthy", "plan", "stop"}}
    \cup {Reply("ask", <<>>, None, s) : s \in Slot}
    \cup {Reply("collect", b, r, None) : b \in Batch, r \in {None, "stale", "user_change"}}

Start == [next |-> "initialize", step |-> 0, decision |-> Reply(None, <<>>, None, None),
          reads |-> <<>>, asked |-> <<>>, answers |-> <<>>, output |-> None]

Away == [at |-> "down", request |-> Initial(1), attempt |-> 0, terminal |-> FALSE,
         feedback |-> <<>>, index |-> 1, result |-> <<>>]

Init ==
  /\ ledger = [calls |-> <<>>, modes |-> <<>>, decided |-> {}, exhausted |-> FALSE,
               correction |-> 0, diagnosisCorrection |-> 0, grants |-> <<>>,
               receipts |-> <<>>]
  /\ graph = Start /\ saved = Start /\ unsaved = <<>>
  /\ work = Away /\ answer = Nobody /\ sent = <<>> /\ crashes = 0

Put(f, x, v) == [y \in DOMAIN f \cup {x} |-> IF y = x THEN v ELSE f[y]]

Models == {r \in DOMAIN ledger.calls : r[1] = "model"}

\* A result is <<>> until it is known.
Open(r) == ledger.calls[r].result = <<>>

-----------------------------------------------------------------------------
\* Moving on: a finished node hands its checkpoint to the saver.
Enter(g) == [Away EXCEPT !.at = CASE g.next = "initialize" -> "reserve"
                                  [] g.next = "decide"     -> "mode"
                                  [] g.next = "collect"    -> "authorize"
                                  [] OTHER                 -> g.next,
                         !.terminal = g.step >= Decisions,
                         !.request = CASE g.next = "initialize" -> Initial(1)
                                       [] g.next = "decide"     -> Ask(g.step + 1, FALSE)
                                       [] OTHER                 -> Tool(g.step, 1)]

Advance(g) == /\ Len(unsaved) < MaxLag
              /\ graph' = g
              /\ unsaved' = Append(unsaved, g)
              /\ work' = Enter(g)
              /\ UNCHANGED <<saved, answer, sent, crashes>>

Within(w) == work' = w /\ UNCHANGED <<graph, saved, unsaved, answer, crashes>>

\* handoff(): the investigation ends without a diagnosis.
Handoff(code) == Advance([graph EXCEPT !.next = "end", !.output = code])

\* An exception leaves initialize: the run fails, as do its retries.
Fail == Within([Away EXCEPT !.at = "failed"]) /\ UNCHANGED sent

Claim ==
  /\ work.at = "down"
  /\ graph' = saved
  /\ work' = IF saved.next = "wait" /\ answer.n = Len(saved.asked)
             THEN [Enter(saved) EXCEPT !.at = "accept"] ELSE Enter(saved)
  /\ UNCHANGED <<ledger, saved, unsaved, answer, sent, crashes>>

Crash ==
  /\ crashes < MaxCrashes
  /\ work.at \notin {"down", "failed"}
  /\ work.at \in {"wait", "end"} => unsaved # <<>>
  /\ crashes' = crashes + 1
  /\ work' = Away /\ unsaved' = <<>>
  /\ UNCHANGED <<ledger, graph, saved, answer, sent>>

SaveCheckpoint ==
  /\ unsaved # <<>>
  /\ saved' = Head(unsaved) /\ unsaved' = Tail(unsaved)
  /\ UNCHANGED <<ledger, graph, work, answer, sent, crashes>>

-----------------------------------------------------------------------------
\* Requests.  The prompt is all the model sees of the run.
Prompt == CASE work.request[1] = "initial" -> <<work.request[3]>>
            [] work.request[1] = "model" ->
                 <<graph.step, graph.reads, graph.asked, graph.answers,
                   work.terminal, work.feedback>>
            [] OTHER -> <<graph.decision.batch[work.index], ledger.grants[work.request]>>

Call(terminal) == [prompt |-> Prompt, terminal |-> terminal, result |-> <<>>,
                   query |-> IF work.request[1] = "tool" THEN graph.decision.batch[work.index] ELSE None,
                   grant |-> IF work.request[1] = "tool" THEN ledger.grants[work.request] ELSE None,
                   seen |-> Len(ledger.receipts)]

\* Mutant: routing follows the attempts made so far and is not kept.
ModeAfresh == work.terminal \/ Cardinality(Models) >= Attempts - 1

\* Mutant: one attempt too late.
ModeLate == IF work.request \in DOMAIN ledger.modes THEN ledger.modes[work.request]
            ELSE work.terminal \/ Cardinality(Models) >= Attempts

\* terminal_mode(): the last permitted attempt may only conclude or stop.
Mode == IF work.request \in DOMAIN ledger.modes THEN ledger.modes[work.request]
        ELSE work.terminal \/ Cardinality(Models) >= Attempts - 1

TerminalMode ==
  /\ work.at = "mode"
  /\ ledger' = [ledger EXCEPT !.modes = Put(@, work.request, Mode)]
  /\ Within([work EXCEPT !.at = "reserve", !.terminal = Mode])
  /\ UNCHANGED sent

\* What follows a request whose result is known.
Replied(result) ==
  [work EXCEPT !.result = result,
     !.at = CASE work.request[1] = "initial" -> "bind"
              [] work.request[1] = "model"   -> "judge"
              [] OTHER                       -> "adapt"]

Refused(code) == IF work.request[1] = "initial" THEN Fail ELSE Handoff(code)

\* Mutant: an outcome that was lost is waited for.
ReplayWaits ==
  LET call == ledger.calls[work.request] IN
  /\ \/ call.prompt # Prompt /\ Refused("REQUEST_INPUT_CHANGED")
     \/ call.prompt = Prompt /\ call.result # <<>> /\ Within(Replied(call.result)) /\ UNCHANGED sent
  /\ UNCHANGED ledger

\* reserve() of a request id that is known: its result is replayed, an outcome
\* that was lost is never asked for again.
Replay ==
  LET call == ledger.calls[work.request] IN
  /\ \/ call.prompt # Prompt /\ Refused("REQUEST_INPUT_CHANGED")
     \/ call.prompt = Prompt /\ call.result = <<>> /\ Refused("REQUEST_OUTCOME_UNKNOWN")
     \/ call.prompt = Prompt /\ call.result # <<>> /\ Within(Replied(call.result)) /\ UNCHANGED sent
  /\ UNCHANGED ledger

Limited ==
  \/ /\ work.request[1] = "model"
     /\ \/ /\ ~work.terminal /\ work.request[2] \notin ledger.decided
           /\ Cardinality(ledger.decided) + 1 > Decisions
        \/ Cardinality(Models) >= Attempts
  \/ /\ work.request[1] = "tool"
     /\ \E r \in DOMAIN ledger.calls :
          /\ r[1] = "tool" /\ ledger.calls[r].query = graph.decision.batch[work.index]
          /\ ledger.calls[r].grant.generation = ledger.grants[work.request].generation

Decided == IF work.request[1] = "model" /\ ~work.terminal
           THEN ledger.decided \cup {work.request[2]} ELSE ledger.decided

\* Mutant: an interrupted request is reserved afresh.
KnownIfSettled == work.request \in DOMAIN ledger.calls /\ ~Open(work.request)

Known == work.request \in DOMAIN ledger.calls

Reserve ==
  /\ work.at = "reserve"
  /\ \/ Known /\ Replay
     \/ /\ ~Known /\ Limited
        /\ ledger' = [ledger EXCEPT !.exhausted = TRUE]
        /\ Refused("BUDGET")
     \/ /\ ~Known /\ ~Limited
        /\ ledger' = [ledger EXCEPT !.calls = Put(@, work.request, Call(work.terminal)),
                                    !.decided = Decided]
        /\ Within([work EXCEPT !.at = "send"])
        /\ UNCHANGED sent

\* model.invoke(), the collector, or a tool's reads: the outcome is in memory only.
Results == CASE work.request[1] = "model"   -> Replies
             [] work.request[1] = "initial" -> {"ok", "failed"}
             [] OTHER                       -> {"ok", "failed", "changed"}

Send ==
  /\ work.at = "send"
  /\ sent' = Put(sent, work.request, IF work.request \in DOMAIN sent THEN sent[work.request] + 1 ELSE 1)
  /\ \E r \in Results : Within([work EXCEPT !.at = "settle", !.result = <<r>>])
  /\ UNCHANGED ledger

\* settle(); a failed initial read is settled without a result and raises.
Settle ==
  /\ work.at = "settle"
  /\ UNCHANGED sent
  /\ IF work.request[1] = "initial" /\ work.result = <<"failed">>
     THEN Within([Away EXCEPT !.at = "failed"]) /\ UNCHANGED ledger
     ELSE /\ ledger' = [ledger EXCEPT !.calls[work.request].result = work.result]
          /\ Within(Replied(work.result))

-----------------------------------------------------------------------------
\* prepare_baseline() reads the cluster, then the runbooks; initialize binds them.
Bind ==
  /\ work.at = "bind"
  /\ UNCHANGED ledger
  /\ IF work.request[3] = 1
     THEN Within([work EXCEPT !.at = "reserve", !.request = Initial(2)]) /\ UNCHANGED sent
     ELSE Advance([graph EXCEPT !.next = "decide"])

\* The queries the run has read before.
Prior == {ledger.calls[r].query : r \in {c \in DOMAIN ledger.calls : c[1] = "tool"}}

\* validate_decision() and the checks that follow it.
Acceptable(r) ==
  /\ r.action \in {"conclude", "healthy", "plan", "stop", "ask", "collect"}
  /\ work.terminal => r.action \in {"conclude", "healthy", "stop"}
  /\ r.action = "healthy" => \A i \in DOMAIN graph.reads : graph.reads[i].result = "ok"
  /\ r.action = "collect" /\ r.reason = None => \A i \in DOMAIN r.batch : r.batch[i] \notin Prior
  /\ r.action = "ask" => /\ \A i \in DOMAIN graph.asked : graph.asked[i] # r.slot
                         /\ Len(graph.asked) < MaxQuestions
  /\ graph.answers # <<>> => r.action \notin {"healthy", "plan"}

\* correction(): one decision, and one report, may be corrected in a run.
Correctable(r) ==
  LET step == work.request[2] IN
  /\ work.attempt = 0 /\ r.action # "boundary"
  /\ IF r.action = "report"
     THEN \/ ledger.diagnosisCorrection = step
          \/ ledger.diagnosisCorrection = 0 /\ Cardinality(Models) < Attempts
     ELSE ledger.correction \in {0, step}

Correct(r) ==
  /\ ledger' = IF r.action = "report"
               THEN [ledger EXCEPT !.diagnosisCorrection = work.request[2]]
               ELSE [ledger EXCEPT !.correction = work.request[2]]
  /\ Within([work EXCEPT !.at = "mode", !.attempt = 1, !.request = Ask(@[2], TRUE),
                         !.terminal = @ \/ r.action = "report", !.feedback = <<r>>])
  /\ UNCHANGED sent

Accept(r) ==
  LET g == [graph EXCEPT !.step = work.request[2], !.decision = r] IN
  CASE r.action = "collect" -> Advance([g EXCEPT !.next = "collect"])
    [] r.action = "ask"     -> Advance([g EXCEPT !.next = "wait", !.asked = Append(@, r.slot)])
    [] OTHER                -> Advance([g EXCEPT !.next = "end", !.output = r.action])

Judge ==
  /\ work.at = "judge"
  /\ LET r == work.result[1] IN
     \/ r.action = "error" /\ Handoff("MODEL_REQUEST_FAILED") /\ UNCHANGED ledger
     \/ r.action # "error" /\ Acceptable(r) /\ Accept(r) /\ UNCHANGED ledger
     \/ r.action # "error" /\ ~Acceptable(r) /\ Correctable(r) /\ Correct(r)
     \/ /\ r.action # "error" /\ ~Acceptable(r) /\ ~Correctable(r)
        /\ Handoff(IF r.action = "report" THEN "program" ELSE "DECISION_VALIDATION_FAILED")
        /\ UNCHANGED ledger

-----------------------------------------------------------------------------
\* authorize_sample(), for each request of the batch before the first is read.
Samples(q) == {r \in DOMAIN ledger.calls : r[1] = "tool" /\ ledger.calls[r].query = q}

Latest(q) == CHOOSE r \in Samples(q) : \A s \in Samples(q) :
               ledger.calls[s].grant.generation <= ledger.calls[r].grant.generation

\* Mutant: a change reported before the sample is as good as one after it.
ChangesEver(q) == {i \in DOMAIN graph.answers : q \in graph.answers[i].changed}

\* Answers that name the resource as changed since its last sample.
Changes(q) == {i \in DOMAIN graph.answers :
                 /\ q \in graph.answers[i].changed
                 /\ graph.answers[i].n > ledger.calls[Latest(q)].seen}

\* aged: the last sample is older than its tool's freshness.
Basis(q, aged) ==
  IF Samples(q) = {} THEN IF graph.decision.reason = None THEN <<"initial">> ELSE <<>>
  ELSE CASE graph.decision.reason = "user_change" /\ Changes(q) # {} ->
              <<"change", CHOOSE i \in Changes(q) : \A j \in Changes(q) : j <= i>>
         [] graph.decision.reason = "stale" /\ aged -> <<"stale", Latest(q)>>
         [] OTHER -> <<>>

Unused(q, basis) ==
  Samples(q) = {} \/ \A r \in DOMAIN ledger.grants :
                       ledger.grants[r].query = q => ledger.grants[r].basis # basis

\* The code of the refusal, if any.
Refusal(q, aged) ==
  CASE Samples(q) # {} /\ Open(Latest(q)) -> "REQUEST_OUTCOME_UNKNOWN"
    [] Samples(q) # {} /\ ledger.calls[Latest(q)].result # <<"ok">> -> "FAILED_SAMPLE_REQUIRES_NEW_RUN"
    [] Basis(q, aged) = <<>> \/ ~Unused(q, Basis(q, aged)) -> "RESAMPLE_REFUSED"
    [] OTHER -> None

Grant(q, aged) ==
  [query |-> q, basis |-> Basis(q, aged), for |-> <<graph.decision, graph.answers>>,
   generation |-> IF Samples(q) = {} THEN 0 ELSE ledger.calls[Latest(q)].grant.generation + 1]

NextAuthorized ==
  Within(IF work.index = Len(graph.decision.batch)
         THEN [work EXCEPT !.at = "reserve", !.index = 1, !.request = Tool(graph.step, 1)]
         ELSE [work EXCEPT !.index = @ + 1, !.request = Tool(graph.step, work.index + 1)])

Authorize ==
  /\ work.at = "authorize"
  /\ LET q == graph.decision.batch[work.index] IN
     IF work.request \in DOMAIN ledger.grants
     THEN /\ UNCHANGED ledger
          /\ IF ledger.grants[work.request].query = q
                /\ ledger.grants[work.request].for = <<graph.decision, graph.answers>>
             THEN NextAuthorized /\ UNCHANGED sent
             ELSE Handoff("SAMPLING_INPUT_CHANGED")
     ELSE \E aged \in BOOLEAN :
            IF Refusal(q, aged) # None
            THEN Handoff(Refusal(q, aged)) /\ UNCHANGED ledger
            ELSE /\ ledger' = [ledger EXCEPT !.grants = Put(@, work.request, Grant(q, aged))]
                 /\ NextAuthorized /\ UNCHANGED sent

\* A result becomes evidence; a replaced target ends the investigation.
Adapt ==
  LET read == [query |-> graph.decision.batch[work.index], result |-> work.result[1],
               by |-> work.request]
      g == [graph EXCEPT !.reads = Append(@, read)] IN
  /\ work.at = "adapt"
  /\ UNCHANGED ledger
  /\ IF work.result[1] = "changed"
     THEN Advance([g EXCEPT !.next = "end", !.output = "TARGET_CHANGED"])
     ELSE IF work.index = Len(graph.decision.batch)
     THEN Advance([g EXCEPT !.next = "decide"])
     ELSE /\ graph' = g
          /\ work' = [work EXCEPT !.at = "reserve", !.index = @ + 1,
                                  !.request = Tool(graph.step, work.index + 1), !.result = <<>>]
          /\ UNCHANGED <<saved, unsaved, answer, sent, crashes>>

-----------------------------------------------------------------------------
\* The human answers, or skips, the question the run waits with.
Answer ==
  /\ work.at = "wait" /\ unsaved = <<>>
  /\ \E skip \in BOOLEAN : \E changed \in SUBSET Query :
       /\ skip \/ graph.asked[Len(graph.asked)] # "changes" => changed = {}
       /\ answer' = [n |-> Len(graph.asked), slot |-> graph.asked[Len(graph.asked)],
                     skip |-> skip, changed |-> changed]
  /\ work' = Away
  /\ UNCHANGED <<ledger, graph, saved, unsaved, sent, crashes>>

\* accept_answer(): the receipt is stored before the graph advances.
AcceptAnswer ==
  LET known == \E i \in DOMAIN ledger.receipts : ledger.receipts[i].n = answer.n
      g == [graph EXCEPT !.answers = Append(@, answer)] IN
  /\ work.at = "accept"
  /\ ledger' = IF known THEN ledger ELSE [ledger EXCEPT !.receipts = Append(@, answer)]
  /\ Advance(IF answer.skip THEN [g EXCEPT !.next = "end", !.output = "HUMAN_QUESTION_SKIPPED"]
             ELSE [g EXCEPT !.next = "decide"])

-----------------------------------------------------------------------------
Step == \/ Claim \/ TerminalMode \/ Reserve \/ Send \/ Settle \/ Bind \/ Judge
        \/ Authorize \/ Adapt \/ AcceptAnswer

Next == Step \/ SaveCheckpoint \/ Answer \/ Crash

\* The run is claimed again after a crash and its worker goes on; the saver
\* works.  Nothing makes the human answer.
Fairness == WF_vars(Step) /\ WF_vars(SaveCheckpoint)

InvestigationSpec == Init /\ [][Next]_vars /\ Fairness

\* What a crash loses: of the checkpoints on their way none is a decision that
\* comes after the one the stored checkpoint leads to.
OneBehind == \A i \in DOMAIN unsaved : unsaved[i].next = "decide" => unsaved[i].step <= saved.step

\* A premise about the saver that nothing in the code enforces: no crash loses
\* two decisions.  Two promises are kept under it, and broken without it.
NoTwoDecisionsLost == [][Crash => OneBehind]_vars

-----------------------------------------------------------------------------
\* Whatever the crashes, no request goes out twice and the provider is never
\* called more often than the policy permits.
PaidOnce ==
  /\ \A r \in DOMAIN sent : sent[r] = 1
  /\ Cardinality({r \in DOMAIN sent : r[1] = "model"}) <= Attempts

\* The last permitted call may only conclude or stop: the investigation cannot
\* spend it on reads nobody would look at.  terminal_mode() sees to it for a
\* request it has not met; it is true under NoTwoDecisionsLost and not without.
LastCallEnds ==
  Cardinality(Models) = Attempts - 1 /\ Cardinality(Models') = Attempts =>
    \A r \in Models' \ Models : ledger'.calls[r].terminal

LastCallTerminal == [][LastCallEnds]_vars

\* A query is read again only on a basis of its own: each of its samples has
\* another one, and a change was reported after the sample before.
RereadHasBasis ==
  \A q \in Query : \A r, s \in Samples(q) :
    r # s => /\ ledger.calls[r].grant.basis # ledger.calls[s].grant.basis
             /\ /\ ledger.calls[s].grant.generation = ledger.calls[r].grant.generation + 1
                /\ ledger.calls[s].grant.basis[1] = "change"
                => ledger.calls[s].grant.basis[2] > ledger.calls[r].seen

\* A paid prompt is never rebuilt differently when its step is replayed, as the
\* docstring of terminal_mode() says: reserve() never meets a request id with
\* another fingerprint.  It is true under NoTwoDecisionsLost and not without.
PromptsStand == graph.output # "REQUEST_INPUT_CHANGED"

\* The investigation comes to an end, or waits for the human.
InvestigationEnds == <>[](work.at \in {"end", "failed", "wait"})
-----------------------------------------------------------------------------
\* The inductive invariant behind PaidOnce and RereadHasBasis.

IsSeq(s) == s \in Seq({s[i] : i \in DOMAIN s})

\* Questions and answers alternate, so that the n-th answer is to question n.
GraphOK(g) ==
  /\ DOMAIN g = {"next", "step", "decision", "reads", "asked", "answers", "output"}
  /\ g.next \in {"initialize", "decide", "collect", "wait", "end"}
  /\ IsSeq(g.asked) /\ IsSeq(g.answers)
  /\ Len(g.asked) = IF g.next = "wait" THEN Len(g.answers) + 1 ELSE Len(g.answers)
  /\ \A i \in DOMAIN g.answers : g.answers[i].n = i

GraphsOK == /\ GraphOK(graph) /\ GraphOK(saved)
            /\ IsSeq(unsaved) /\ \A i \in DOMAIN unsaved : GraphOK(unsaved[i])

\* Every read on the ledger has the grant of its own request, and no two reads
\* of a query have the same generation.
CallsOK ==
  /\ IsFiniteSet(DOMAIN ledger.calls) /\ Cardinality(Models) <= Attempts
  /\ \A r \in DOMAIN ledger.calls :
       /\ DOMAIN ledger.calls[r] = {"prompt", "terminal", "result", "query", "grant", "seen"}
       /\ r[1] = "tool" => /\ r \in DOMAIN ledger.grants
                           /\ ledger.calls[r].grant = ledger.grants[r]
                           /\ ledger.calls[r].query = ledger.grants[r].query
  /\ \A r, s \in DOMAIN ledger.calls :
       /\ r[1] = "tool" /\ s[1] = "tool" /\ r # s
       /\ ledger.calls[r].query = ledger.calls[s].query
       => ledger.calls[r].grant.generation # ledger.calls[s].grant.generation

\* l is the sample that grant g was given for reading again.
Renews(g, l) ==
  /\ l \in Samples(g.query)
  /\ g.generation = ledger.calls[l].grant.generation + 1
  /\ g.basis[1] = "change" => g.basis[2] > ledger.calls[l].seen

GrantsOK ==
  /\ \A r \in DOMAIN ledger.grants :
       LET g == ledger.grants[r] IN
       /\ g.generation \in Nat
       /\ g.generation = 0 => g.basis = <<"initial">>
       /\ g.generation # 0 => g.basis # <<"initial">> /\ \E l \in DOMAIN ledger.calls : Renews(g, l)
  /\ \A r, s \in DOMAIN ledger.grants :
       /\ r # s /\ ledger.grants[r].query = ledger.grants[s].query
       /\ ledger.grants[r].generation # 0 /\ ledger.grants[s].generation # 0
       => ledger.grants[r].basis # ledger.grants[s].basis

\* A query that was read has a latest sample.
LatestOK == \A r \in DOMAIN ledger.calls : r[1] = "tool" =>
              \E s \in Samples(ledger.calls[r].query) : \A t \in Samples(ledger.calls[r].query) :
                ledger.calls[t].grant.generation <= ledger.calls[s].grant.generation

Granted(j) == /\ Tool(graph.step, j) \in DOMAIN ledger.grants
              /\ ledger.grants[Tool(graph.step, j)].query = graph.decision.batch[j]

\* Where the worker is: a batch is granted before its first read, and what is
\* about to be sent is on the ledger and has not been sent.
WorkOK ==
  /\ DOMAIN work = {"at", "request", "attempt", "terminal", "feedback", "index", "result"}
  /\ work.at \in {"mode", "reserve", "send", "settle", "bind", "judge", "authorize", "adapt"} =>
       graph.next \notin {"wait", "end"} /\ work.request[1] \in {"initial", "model", "tool"}
  /\ work.at = "mode" => work.request[1] = "model"
  /\ work.at = "authorize" => /\ work.index \in Nat /\ work.index >= 1
                              /\ work.request = Tool(graph.step, work.index)
                              /\ \A j \in 1..work.index - 1 : Granted(j)
  /\ /\ work.at \in {"reserve", "send", "settle", "adapt"} /\ work.request[1] = "tool"
     => /\ Len(graph.decision.batch) \in Nat
        /\ work.index \in 1..Len(graph.decision.batch)
        /\ work.request = Tool(graph.step, work.index)
        /\ \A j \in 1..Len(graph.decision.batch) : Granted(j)
  /\ work.at = "send" => work.request \in DOMAIN ledger.calls /\ work.request \notin DOMAIN sent
  /\ work.at = "settle" => work.request \in DOMAIN ledger.calls
  /\ work.at = "adapt" => work.request[1] = "tool"
  /\ work.at = "accept" => graph.next = "wait" /\ answer.n = Len(graph.asked)

SentOK == /\ DOMAIN sent \subseteq DOMAIN ledger.calls
          /\ \A r \in DOMAIN sent : sent[r] = 1

\* What is sent was reserved, what is read was granted, and a grant is used for
\* one read of its query.
InvestigationInv ==
  /\ DOMAIN ledger = {"calls", "modes", "decided", "exhausted", "correction",
                      "diagnosisCorrection", "grants", "receipts"}
  /\ CallsOK /\ GrantsOK /\ LatestOK /\ GraphsOK /\ WorkOK /\ SentOK
=============================================================================
