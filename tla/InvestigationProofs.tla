------------------------- MODULE InvestigationProofs -------------------------
(***************************************************************************)
(* Proofs about the bounded investigation: no request is paid twice and a   *)
(* query is read again only on a basis of its own, for every policy, set of *)
(* queries, number of crashes and lag of the checkpoints.                   *)
(***************************************************************************)
EXTENDS Investigation, FiniteSetTheorems, SequenceTheorems, WellFoundedInduction, TLAPS

LedgerOK ==
  /\ DOMAIN ledger = {"calls", "modes", "decided", "exhausted", "correction",
                      "diagnosisCorrection", "grants", "receipts"}
  /\ CallsOK /\ GrantsOK /\ LatestOK

\* What putting an entry into a table does.
LEMMA PutFacts ==
  ASSUME NEW f, NEW x, NEW v
  PROVE  /\ DOMAIN Put(f, x, v) = DOMAIN f \cup {x}
         /\ Put(f, x, v)[x] = v
         /\ \A y \in DOMAIN f : y # x => Put(f, x, v)[y] = f[y]
BY DEF Put

\* Sequences, whatever their elements.
LEMMA EmptyIsSeq == IsSeq(<<>>)
BY DEF IsSeq

LEMMA AppendIsSeq ==
  ASSUME NEW s, NEW x, IsSeq(s)
  PROVE  /\ IsSeq(Append(s, x)) /\ Len(s) \in Nat /\ DOMAIN s = 1..Len(s)
         /\ Len(Append(s, x)) = Len(s) + 1 /\ DOMAIN Append(s, x) = 1..Len(s) + 1
         /\ Append(s, x)[Len(s) + 1] = x
         /\ \A i \in DOMAIN s : Append(s, x)[i] = s[i]
<1> DEFINE S == {s[i] : i \in DOMAIN s}
           t == Append(s, x)
           T == {t[i] : i \in DOMAIN t}
<1>1. s \in Seq(S)
  BY DEF IsSeq
<1>2. Len(s) \in Nat /\ DOMAIN s = 1..Len(s)
  BY <1>1, LenProperties
<1>3. s \in Seq(S \cup {x})
  BY <1>1, SeqMonotonic
<1> HIDE DEF S
<1>4. /\ t \in Seq(S \cup {x}) /\ Len(t) = Len(s) + 1 /\ t[Len(s) + 1] = x
      /\ \A i \in 1..Len(s) : t[i] = s[i]
  BY <1>3
<1>5. DOMAIN t = 1..Len(s) + 1
  BY <1>4, LenProperties
<1> HIDE DEF t
<1>6. t \in [1..Len(s) + 1 -> T]
  <2>1. t = [i \in 1..Len(s) + 1 |-> t[i]]
    BY <1>4, <1>5, LenProperties
  <2> QED
    BY <1>5, <2>1
<1>7. t \in Seq(T)
  BY <1>2, <1>6, SeqDef
<1> QED
  BY <1>2, <1>4, <1>5, <1>7 DEF t, IsSeq

LEMMA TailIsSeq ==
  ASSUME NEW s, IsSeq(s), s # <<>>
  PROVE  /\ 1 \in DOMAIN s /\ Head(s) = s[1] /\ IsSeq(Tail(s))
         /\ \A i \in DOMAIN Tail(s) : i + 1 \in DOMAIN s /\ Tail(s)[i] = s[i + 1]
<1> DEFINE S == {s[i] : i \in DOMAIN s}
           t == Tail(s)
           T == {t[i] : i \in DOMAIN t}
<1>1. s \in Seq(S)
  BY DEF IsSeq
<1> HIDE DEF S
<1>2. Len(s) \in Nat /\ DOMAIN s = 1..Len(s) /\ Len(s) > 0
  BY <1>1, LenProperties, EmptySeq
<1>3. /\ t \in Seq(S) /\ Len(t) = Len(s) - 1
      /\ \A i \in 1..Len(s) - 1 : t[i] = s[i + 1]
  BY <1>1, <1>2, HeadTailProperties
<1>4. DOMAIN t = 1..Len(s) - 1 /\ Len(s) - 1 \in Nat
  BY <1>2, <1>3, LenProperties
<1>5. Head(s) = s[1]
  OBVIOUS
<1> HIDE DEF t
<1>6. t \in [1..Len(s) - 1 -> T]
  <2>1. t = [i \in 1..Len(s) - 1 |-> t[i]]
    BY <1>3, <1>4, LenProperties
  <2> QED
    BY <1>4, <2>1
<1>7. t \in Seq(T)
  BY <1>4, <1>6, SeqDef
<1>8. \A i \in DOMAIN t : i + 1 \in DOMAIN s /\ t[i] = s[i + 1]
  BY <1>2, <1>3, <1>4
<1>9. 1 \in DOMAIN s
  BY <1>2
<1> QED
  BY <1>5, <1>7, <1>8, <1>9 DEF t, IsSeq

-----------------------------------------------------------------------------
\* Graph values.  A node that asks nothing leaves questions and answers alone.
LEMMA GraphMoves ==
  ASSUME NEW g, GraphOK(g), g.next # "wait", NEW h,
         DOMAIN h = DOMAIN g, h.asked = g.asked, h.answers = g.answers,
         h.next \in {"initialize", "decide", "collect", "end"}
  PROVE  GraphOK(h)
BY DEF GraphOK

\* One finished node: the graph and what is on its way to the store.
LEMMA AdvanceGraphs ==
  ASSUME GraphsOK, NEW g, GraphOK(g), Advance(g)
  PROVE  GraphsOK'
<1>1. graph' = g /\ saved' = saved /\ unsaved' = Append(unsaved, g)
  BY DEF Advance
<1>2. /\ IsSeq(Append(unsaved, g)) /\ DOMAIN unsaved = 1..Len(unsaved) /\ Len(unsaved) \in Nat
      /\ DOMAIN Append(unsaved, g) = 1..Len(unsaved) + 1
      /\ Append(unsaved, g)[Len(unsaved) + 1] = g
      /\ \A i \in DOMAIN unsaved : Append(unsaved, g)[i] = unsaved[i]
  BY AppendIsSeq DEF GraphsOK
<1>3. ASSUME NEW i \in DOMAIN Append(unsaved, g) PROVE GraphOK(Append(unsaved, g)[i])
  <2>1. i \in DOMAIN unsaved \/ i = Len(unsaved) + 1
    BY <1>2
  <2> QED
    BY <1>2, <2>1 DEF GraphsOK
<1> QED
  BY <1>1, <1>2, <1>3 DEF GraphsOK

LEMMA SameGraphs ==
  ASSUME GraphsOK, UNCHANGED <<graph, saved, unsaved>>
  PROVE  GraphsOK'
BY DEF GraphsOK

\* A node is entered with nothing sent or granted yet.
LEMMA Entered ==
  ASSUME NEW g, GraphOK(g)
  PROVE  /\ DOMAIN Enter(g) = {"at", "request", "attempt", "terminal", "feedback", "index", "result"}
         /\ Enter(g).index = 1
         /\ \/ g.next = "initialize" /\ Enter(g).at = "reserve" /\ Enter(g).request[1] = "initial"
            \/ g.next = "decide" /\ Enter(g).at = "mode" /\ Enter(g).request[1] = "model"
            \/ g.next = "collect" /\ Enter(g).at = "authorize" /\ Enter(g).request = Tool(g.step, 1)
            \/ g.next = "wait" /\ Enter(g).at = "wait"
            \/ g.next = "end" /\ Enter(g).at = "end"
<1> DEFINE at == CASE g.next = "initialize" -> "reserve"
                   [] g.next = "decide"     -> "mode"
                   [] g.next = "collect"    -> "authorize"
                   [] OTHER                 -> g.next
           terminal == g.step >= Decisions
           request == CASE g.next = "initialize" -> Initial(1)
                        [] g.next = "decide"     -> Ask(g.step + 1, FALSE)
                        [] OTHER                 -> Tool(g.step, 1)
           e == Enter(g)
<1>1. e = [Away EXCEPT !.at = at, !.terminal = terminal, !.request = request]
  BY DEF Enter
<1>2. /\ DOMAIN Away = {"at", "request", "attempt", "terminal", "feedback", "index", "result"}
      /\ Away.index = 1
  BY DEF Away
<1> HIDE DEF at, terminal, request, e
<1>3. DOMAIN e = DOMAIN Away /\ e.at = at /\ e.request = request /\ e.index = 1
  BY <1>1, <1>2
<1>4. g.next \in {"initialize", "decide", "collect", "wait", "end"}
  BY DEF GraphOK
<1>5. CASE g.next = "initialize"
  BY <1>2, <1>3, <1>5 DEF at, request, Initial, e
<1>6. CASE g.next = "decide"
  BY <1>2, <1>3, <1>6 DEF at, request, Ask, e
<1>7. CASE g.next = "collect"
  BY <1>2, <1>3, <1>7 DEF at, request, e
<1>8. CASE g.next \in {"wait", "end"}
  BY <1>2, <1>3, <1>8 DEF at, e
<1> QED
  BY <1>4, <1>5, <1>6, <1>7, <1>8

\* ... whatever the step did to the ledger.
LEMMA EnteredWork ==
  ASSUME NEW g, GraphOK(g), graph' = g, work' = Enter(g)
  PROVE  WorkOK'
<1>1. \A j \in 1..work'.index - 1 : FALSE
  BY Entered
<1>2. Tool(g.step, 1)[1] = "tool"
  BY DEF Tool
<1> QED
  BY <1>1, <1>2, Entered DEF WorkOK

\* Away from the graph nothing is promised.
LEMMA AwayWork ==
  ASSUME NEW at \in {"down", "failed"}, work' = [Away EXCEPT !.at = at]
  PROVE  WorkOK'
<1>1. DOMAIN work' = {"at", "request", "attempt", "terminal", "feedback", "index", "result"} /\ work'.at = at
  BY DEF Away
<1> QED
  BY <1>1 DEF WorkOK

\* A ledger whose calls and grants stand is as good as before.
LEMMA SameLedger ==
  ASSUME LedgerOK, DOMAIN ledger' = DOMAIN ledger,
         ledger'.calls = ledger.calls, ledger'.grants = ledger.grants
  PROVE  LedgerOK'
BY DEF LedgerOK, CallsOK, GrantsOK, LatestOK, Models, Samples, Renews

LEMMA SameSent ==
  ASSUME SentOK, sent' = sent, ledger'.calls = ledger.calls
  PROVE  SentOK'
BY DEF SentOK

-----------------------------------------------------------------------------
AtWork == {"mode", "reserve", "send", "settle", "bind", "judge", "authorize", "adapt"}

\* The investigation is given up, or the run fails.
LEMMA HandoffKeeps ==
  ASSUME GraphsOK, WorkOK, work.at \in AtWork, NEW code, Handoff(code)
  PROVE  GraphsOK' /\ WorkOK' /\ sent' = sent
<1> DEFINE g == [graph EXCEPT !.next = "end", !.output = code]
<1>1. GraphOK(graph) /\ graph.next # "wait"
  BY DEF GraphsOK, WorkOK, AtWork
<1>2. DOMAIN g = DOMAIN graph /\ g.asked = graph.asked /\ g.answers = graph.answers /\ g.next = "end"
  BY <1>1 DEF GraphOK
<1>3. Advance(g)
  BY DEF Handoff
<1> HIDE DEF g
<1>4. GraphOK(g)
  BY <1>1, <1>2, GraphMoves
<1>5. graph' = g /\ work' = Enter(g) /\ sent' = sent
  BY <1>3 DEF Advance
<1> QED
  BY <1>3, <1>4, <1>5, AdvanceGraphs, EnteredWork

LEMMA FailKeeps ==
  ASSUME GraphsOK, Within([Away EXCEPT !.at = "failed"])
  PROVE  GraphsOK' /\ WorkOK'
<1>1. work' = [Away EXCEPT !.at = "failed"] /\ UNCHANGED <<graph, saved, unsaved>>
  BY DEF Within
<1> QED
  BY <1>1, AwayWork, SameGraphs

LEMMA RefusedKeeps ==
  ASSUME GraphsOK, WorkOK, work.at \in AtWork, NEW code, Refused(code)
  PROVE  GraphsOK' /\ WorkOK' /\ sent' = sent
<1>1. CASE work.request[1] = "initial"
  BY <1>1, FailKeeps DEF Refused, Fail
<1>2. CASE work.request[1] # "initial"
  BY <1>2, HandoffKeeps DEF Refused
<1> QED
  BY <1>1, <1>2

\* The first state.
LEMMA InitKeeps == Init => InvestigationInv
<1> SUFFICES ASSUME Init PROVE InvestigationInv
  OBVIOUS
<1>1. /\ DOMAIN ledger = {"calls", "modes", "decided", "exhausted", "correction",
                          "diagnosisCorrection", "grants", "receipts"}
      /\ ledger.calls = <<>> /\ ledger.grants = <<>>
  BY DEF Init
<1>2. DOMAIN ledger.calls = {} /\ DOMAIN ledger.grants = {}
  BY <1>1
<1>3. CallsOK
  <2>1. Models = {}
    BY <1>2 DEF Models
  <2>2. IsFiniteSet({}) /\ Cardinality({}) = 0
    BY FS_EmptySet
  <2>3. 0 <= Attempts
    BY InvestigationAssumption DEF InvestigationAssumption
  <2> QED
    BY <1>2, <2>1, <2>2, <2>3 DEF CallsOK
<1>4. GrantsOK /\ LatestOK
  BY <1>2 DEF GrantsOK, LatestOK
<1>5. GraphOK(Start)
  <2>1. /\ DOMAIN Start = {"next", "step", "decision", "reads", "asked", "answers", "output"}
        /\ Start.next = "initialize" /\ Start.asked = <<>> /\ Start.answers = <<>>
    BY DEF Start
  <2> QED
    BY <2>1, EmptyIsSeq DEF GraphOK
<1>6. GraphsOK
  BY <1>5, EmptyIsSeq DEF Init, GraphsOK
<1>7. WorkOK
  <2>1. /\ DOMAIN work = {"at", "request", "attempt", "terminal", "feedback", "index", "result"}
        /\ work.at = "down"
    BY DEF Init, Away
  <2> QED
    BY <2>1 DEF WorkOK
<1>8. SentOK
  BY DEF Init, SentOK
<1> QED
  BY <1>1, <1>3, <1>4, <1>6, <1>7, <1>8 DEF InvestigationInv

\* Claims, crashes, the saver and the human touch neither ledger nor requests.
LEMMA OutsideKeeps ==
  ASSUME InvestigationInv, Claim \/ Crash \/ SaveCheckpoint \/ Answer \/ UNCHANGED vars
  PROVE  InvestigationInv'
<1>1. LedgerOK /\ GraphsOK /\ WorkOK /\ SentOK
  BY DEF InvestigationInv, LedgerOK
<1>2. ledger' = ledger /\ sent' = sent
  BY DEF Claim, Crash, SaveCheckpoint, Answer, vars
<1>3. LedgerOK' /\ SentOK'
  BY <1>1, <1>2, SameLedger, SameSent
<1>4. CASE Claim
  <2>1. graph' = saved /\ UNCHANGED <<saved, unsaved, answer>> /\ GraphOK(saved)
    BY <1>1, <1>4 DEF Claim, GraphsOK
  <2>2. GraphsOK'
    BY <1>1, <2>1 DEF GraphsOK
  <2>3. CASE work' = Enter(saved)
    BY <1>3, <2>1, <2>2, <2>3, EnteredWork DEF InvestigationInv, LedgerOK
  <2>4. CASE /\ saved.next = "wait" /\ answer.n = Len(saved.asked)
             /\ work' = [Enter(saved) EXCEPT !.at = "accept"]
    <3>1. /\ work'.at = "accept"
          /\ DOMAIN work' = {"at", "request", "attempt", "terminal", "feedback", "index", "result"}
      BY <2>1, <2>4, Entered
    <3>2. WorkOK'
      BY <2>1, <2>4, <3>1 DEF WorkOK
    <3> QED
      BY <1>3, <2>2, <3>2 DEF InvestigationInv, LedgerOK
  <2> QED
    BY <1>4, <2>3, <2>4 DEF Claim
<1>5. CASE Crash
  <2>1. UNCHANGED <<graph, saved>> /\ unsaved' = <<>> /\ work' = Away
    BY <1>5 DEF Crash
  <2>2. GraphsOK'
    BY <1>1, <2>1, EmptyIsSeq DEF GraphsOK
  <2>3. WorkOK'
    BY <2>1 DEF Away, WorkOK
  <2> QED
    BY <1>3, <2>2, <2>3 DEF InvestigationInv, LedgerOK
<1>6. CASE SaveCheckpoint
  <2>1. /\ unsaved # <<>> /\ saved' = Head(unsaved) /\ unsaved' = Tail(unsaved)
        /\ UNCHANGED <<graph, work, answer>>
    BY <1>6 DEF SaveCheckpoint
  <2>2. /\ 1 \in DOMAIN unsaved /\ Head(unsaved) = unsaved[1] /\ IsSeq(Tail(unsaved))
        /\ \A i \in DOMAIN Tail(unsaved) : i + 1 \in DOMAIN unsaved /\ Tail(unsaved)[i] = unsaved[i + 1]
    BY <1>1, <2>1, TailIsSeq DEF GraphsOK
  <2>3. GraphsOK'
    BY <1>1, <2>1, <2>2 DEF GraphsOK
  <2>4. WorkOK'
    BY <1>1, <1>2, <2>1 DEF WorkOK, Granted
  <2> QED
    BY <1>3, <2>3, <2>4 DEF InvestigationInv, LedgerOK
<1>7. CASE Answer
  <2>1. UNCHANGED <<graph, saved, unsaved>> /\ work' = Away
    BY <1>7 DEF Answer
  <2>2. GraphsOK'
    BY <1>1, <2>1, SameGraphs
  <2>3. WorkOK'
    BY <2>1 DEF Away, WorkOK
  <2> QED
    BY <1>3, <2>2, <2>3 DEF InvestigationInv, LedgerOK
<1>8. CASE UNCHANGED vars
  <2>1. WorkOK' /\ GraphsOK'
    BY <1>1, <1>8 DEF vars, WorkOK, Granted, GraphsOK
  <2> QED
    BY <1>3, <2>1 DEF InvestigationInv, LedgerOK
<1> QED
  BY <1>4, <1>5, <1>6, <1>7, <1>8

\* A step inside a node that keeps its place in the batch.
LEMMA InsideWork ==
  ASSUME WorkOK, NEW at, work'.at = at, DOMAIN work' = DOMAIN work,
         work'.request = work.request, work'.index = work.index,
         UNCHANGED <<graph, answer>>, ledger'.grants = ledger.grants,
         work.at \in AtWork \ {"authorize"}, at \in AtWork \ {"authorize", "mode", "reserve"},
         work.request[1] = "tool" => work.at \in {"reserve", "send", "settle", "adapt"},
         at = "adapt" => work.request[1] = "tool",
         at = "send" => work.request \in DOMAIN ledger'.calls /\ work.request \notin DOMAIN sent',
         at = "settle" => work.request \in DOMAIN ledger'.calls
  PROVE  WorkOK'
<1>1. graph'.next \notin {"wait", "end"} /\ work'.request[1] \in {"initial", "model", "tool"}
  BY DEF WorkOK, AtWork
<1>2. work'.request[1] = "tool" =>
        /\ Len(graph'.decision.batch) \in Nat
        /\ work'.index \in 1..Len(graph'.decision.batch)
        /\ work'.request = Tool(graph'.step, work'.index)
        /\ \A j \in 1..Len(graph'.decision.batch) : Granted(j)'
  BY DEF WorkOK, Granted
<1>3. at \notin {"mode", "authorize", "accept"}
  BY DEF AtWork
<1> QED
  BY <1>1, <1>2, <1>3 DEF WorkOK

LEMMA ModeKeeps ==
  ASSUME InvestigationInv, TerminalMode
  PROVE  InvestigationInv'
<1>1. LedgerOK /\ GraphsOK /\ WorkOK /\ SentOK
  BY DEF InvestigationInv, LedgerOK
<1> DEFINE m == Mode
<1>2. /\ work.at = "mode" /\ sent' = sent
      /\ ledger' = [ledger EXCEPT !.modes = Put(@, work.request, m)]
      /\ work' = [work EXCEPT !.at = "reserve", !.terminal = m]
      /\ UNCHANGED <<graph, saved, unsaved, answer>>
  BY DEF TerminalMode, Within
<1> HIDE DEF m
<1>3. /\ DOMAIN ledger' = DOMAIN ledger
      /\ ledger'.calls = ledger.calls /\ ledger'.grants = ledger.grants
  BY <1>1, <1>2 DEF LedgerOK
<1>4. LedgerOK' /\ SentOK' /\ GraphsOK'
  BY <1>1, <1>2, <1>3, SameLedger, SameSent, SameGraphs
<1>5. DOMAIN work' = DOMAIN work /\ work'.at = "reserve" /\ work'.request = work.request
  BY <1>1, <1>2 DEF WorkOK
<1>6. WorkOK'
  BY <1>1, <1>2, <1>5 DEF WorkOK
<1> QED
  BY <1>4, <1>6 DEF InvestigationInv, LedgerOK

\* What follows a result that is known.
LEMMA RepliedKeeps ==
  ASSUME WorkOK, work.at \in {"reserve", "settle"}, NEW result, Within(Replied(result)),
         ledger'.grants = ledger.grants
  PROVE  WorkOK' /\ UNCHANGED <<graph, saved, unsaved>>
<1> DEFINE at == CASE work.request[1] = "initial" -> "bind"
                   [] work.request[1] = "model"   -> "judge"
                   [] OTHER                       -> "adapt"
<1>1. /\ work' = [work EXCEPT !.result = result, !.at = at]
      /\ UNCHANGED <<graph, saved, unsaved, answer>>
  BY DEF Within, Replied
<1>2. at \in {"bind", "judge", "adapt"}
  OBVIOUS
<1> HIDE DEF at
<1>3. /\ DOMAIN work' = DOMAIN work /\ work'.at = at
      /\ work'.request = work.request /\ work'.index = work.index
  BY <1>1 DEF WorkOK
<1>4. CASE work.request[1] = "tool"
  <2>1. /\ Len(graph'.decision.batch) \in Nat
        /\ work'.index \in 1..Len(graph'.decision.batch)
        /\ work'.request = Tool(graph'.step, work'.index)
        /\ \A j \in 1..Len(graph'.decision.batch) : Granted(j)'
    BY <1>1, <1>3, <1>4 DEF WorkOK, Granted
  <2>2. work'.request[1] = "tool" /\ graph'.next \notin {"wait", "end"}
    BY <1>1, <1>3, <1>4 DEF WorkOK
  <2> QED
    BY <1>1, <1>2, <1>3, <2>1, <2>2 DEF WorkOK
<1>5. CASE work.request[1] \in {"initial", "model"}
  <2>1. at \in {"bind", "judge"}
    BY <1>5 DEF at
  <2> QED
    BY <1>1, <1>3, <2>1 DEF WorkOK
<1> QED
  BY <1>1, <1>4, <1>5 DEF WorkOK

\* A request is put on the ledger: within the limits, and a read with a
\* generation that no other read of its query has.
LEMMA ReservedLedger ==
  ASSUME InvestigationInv, work.at = "reserve", ~Known, ~Limited, NEW t, NEW d,
         ledger' = [ledger EXCEPT !.calls = Put(@, work.request, Call(t)), !.decided = d]
  PROVE  /\ LedgerOK' /\ ledger'.grants = ledger.grants
         /\ DOMAIN ledger'.calls = DOMAIN ledger.calls \cup {work.request}
<1> DEFINE q == work.request
           c == Call(t)
<1>1. LedgerOK /\ WorkOK /\ q \notin DOMAIN ledger.calls
  BY DEF InvestigationInv, LedgerOK, Known
<1>2. /\ DOMAIN c = {"prompt", "terminal", "result", "query", "grant", "seen"}
      /\ q[1] = "tool" => c.query = graph.decision.batch[work.index] /\ c.grant = ledger.grants[q]
  BY DEF Call
<1> HIDE DEF c
<1>3. ledger' = [ledger EXCEPT !.calls = Put(ledger.calls, q, c), !.decided = d]
  BY DEF c
<1>4. /\ DOMAIN ledger' = DOMAIN ledger /\ ledger'.grants = ledger.grants
      /\ ledger'.calls = Put(ledger.calls, q, c)
  BY <1>1, <1>3 DEF LedgerOK
<1>5. /\ DOMAIN ledger'.calls = DOMAIN ledger.calls \cup {q}
      /\ ledger'.calls[q] = c
      /\ \A r \in DOMAIN ledger.calls : ledger'.calls[r] = ledger.calls[r]
  <2> DEFINE f == ledger.calls
             h == ledger'.calls
  <2>1. h = Put(f, q, c) /\ q \notin DOMAIN f
    BY <1>1, <1>4
  <2> HIDE DEF f, h, q
  <2>2. DOMAIN h = DOMAIN f \cup {q} /\ h[q] = c /\ \A r \in DOMAIN f : h[r] = f[r]
    BY <2>1 DEF Put
  <2> QED
    BY <2>2 DEF f, h, q
<1>6. q[1] = "tool" => /\ q \in DOMAIN ledger.grants /\ c.query = ledger.grants[q].query
                       /\ c.grant = ledger.grants[q]
  <2> SUFFICES ASSUME q[1] = "tool"
               PROVE  q \in DOMAIN ledger.grants /\ graph.decision.batch[work.index] = ledger.grants[q].query
    BY <1>2
  <2>1. q = Tool(graph.step, work.index) /\ Granted(work.index)
    BY <1>1 DEF WorkOK
  <2> QED
    BY <2>1 DEF Granted
<1>7. ASSUME NEW r \in DOMAIN ledger.calls, r[1] = "tool", q[1] = "tool",
             ledger.calls[r].query = c.query
      PROVE  ledger.calls[r].grant.generation # c.grant.generation
  BY <1>2, <1>6, <1>7 DEF Limited
<1>8. CallsOK'
  <2>1. IsFiniteSet(DOMAIN ledger'.calls)
    BY <1>1, <1>5, FS_AddElement DEF LedgerOK, CallsOK
  <2>2. Cardinality(Models') <= Attempts
    <3>1. IsFiniteSet(Models) /\ Cardinality(Models) <= Attempts /\ Attempts \in Nat
      BY <1>1, FS_Subset, InvestigationAssumption DEF LedgerOK, CallsOK, Models, InvestigationAssumption
    <3>2. CASE q[1] = "model"
      <4>1. Models' = Models \cup {q} /\ q \notin Models
        BY <1>1, <1>5, <3>2 DEF Models
      <4>2. ~(Cardinality(Models) >= Attempts)
        BY <3>2 DEF Limited
      <4>3. Cardinality(Models') = Cardinality(Models) + 1 /\ Cardinality(Models) \in Nat
        BY <3>1, <4>1, FS_AddElement, FS_CardinalityType
      <4> QED
        BY <3>1, <4>2, <4>3
    <3>3. CASE q[1] # "model"
      <4>1. Models' = Models
        BY <1>5, <3>3 DEF Models
      <4> QED
        BY <3>1, <4>1
    <3> QED
      BY <3>2, <3>3
  <2>3. \A r \in DOMAIN ledger'.calls :
          /\ DOMAIN ledger'.calls[r] = {"prompt", "terminal", "result", "query", "grant", "seen"}
          /\ r[1] = "tool" => /\ r \in DOMAIN ledger'.grants
                              /\ ledger'.calls[r].grant = ledger'.grants[r]
                              /\ ledger'.calls[r].query = ledger'.grants[r].query
    BY <1>1, <1>2, <1>4, <1>5, <1>6 DEF LedgerOK, CallsOK
  <2>4. ASSUME NEW r \in DOMAIN ledger'.calls, NEW s \in DOMAIN ledger'.calls,
               r[1] = "tool", s[1] = "tool", r # s,
               ledger'.calls[r].query = ledger'.calls[s].query
        PROVE  ledger'.calls[r].grant.generation # ledger'.calls[s].grant.generation
    <3>1. CASE r \in DOMAIN ledger.calls /\ s \in DOMAIN ledger.calls
      BY <1>1, <1>5, <2>4, <3>1 DEF LedgerOK, CallsOK
    <3>2. CASE r = q
      BY <1>5, <1>7, <2>4, <3>2
    <3>3. CASE s = q
      BY <1>5, <1>7, <2>4, <3>3
    <3> QED
      BY <1>5, <3>1, <3>2, <3>3
  <2> QED
    BY <2>1, <2>2, <2>3, <2>4 DEF CallsOK
<1>9. \A x : \A r \in Samples(x) : r \in Samples(x)' /\ ledger'.calls[r] = ledger.calls[r]
  BY <1>5 DEF Samples
<1>10. \A g, l : Renews(g, l) => Renews(g, l)'
  BY <1>9 DEF Renews
<1>11. GrantsOK'
  BY <1>1, <1>4, <1>5, <1>10 DEF LedgerOK, GrantsOK
<1>12. \A r \in DOMAIN ledger'.calls : r[1] = "tool" => ledger'.calls[r].grant.generation \in Nat
  BY <1>8, <1>11 DEF CallsOK, GrantsOK
<1>13. LatestOK'
  <2> DEFINE After(k) == {r \in DOMAIN ledger'.calls : r[1] = "tool" /\ ledger'.calls[r].query = k}
  <2> SUFFICES ASSUME NEW r \in DOMAIN ledger'.calls, r[1] = "tool"
               PROVE  \E s \in After(ledger'.calls[r].query) :
                        \A x \in After(ledger'.calls[r].query) :
                          ledger'.calls[x].grant.generation <= ledger'.calls[s].grant.generation
    BY DEF LatestOK, Samples
  <2> DEFINE k == ledger'.calls[r].query
             gen(s) == ledger'.calls[s].grant.generation
  <2>1. \A s \in After(k) : gen(s) \in Nat /\ (s \in Samples(k) \/ s = q)
    BY <1>5, <1>12 DEF Samples
  <2>2. CASE Samples(k) = {}
    <3>1. r \in After(k) /\ \A s \in After(k) : s = q
      BY <2>1, <2>2 DEF Samples
    <3> QED
      BY <2>1, <3>1
  <2>3. CASE Samples(k) # {}
    <3>1. PICK a \in Samples(k) : \A x \in Samples(k) :
            ledger.calls[x].grant.generation <= ledger.calls[a].grant.generation
      BY <1>1, <2>3 DEF LedgerOK, LatestOK, Samples
    <3>2. a \in After(k) /\ \A x \in Samples(k) : gen(x) <= gen(a)
      BY <1>5, <1>9, <3>1 DEF Samples
    <3>3. CASE q \in After(k) /\ gen(q) > gen(a)
      <4>1. \A x \in After(k) : gen(x) <= gen(q)
        <5> SUFFICES ASSUME NEW x \in After(k) PROVE gen(x) <= gen(q)
          OBVIOUS
        <5>1. gen(x) \in Nat /\ gen(q) \in Nat /\ gen(a) \in Nat
          BY <2>1, <3>2, <3>3
        <5>2. gen(x) <= gen(a) \/ x = q
          BY <2>1, <3>2
        <5> HIDE DEF gen
        <5> QED
          BY <3>3, <5>1, <5>2
      <4> QED
        BY <3>3, <4>1
    <3>4. CASE ~(q \in After(k) /\ gen(q) > gen(a))
      <4>1. \A x \in After(k) : gen(x) <= gen(a)
        <5> SUFFICES ASSUME NEW x \in After(k) PROVE gen(x) <= gen(a)
          OBVIOUS
        <5>1. gen(x) \in Nat /\ gen(a) \in Nat
          BY <2>1, <3>2
        <5>2. gen(x) <= gen(a) \/ (x = q /\ ~(gen(q) > gen(a)))
          BY <2>1, <3>2, <3>4
        <5> HIDE DEF gen
        <5> QED
          BY <5>1, <5>2
      <4> QED
        BY <3>2, <4>1
    <3> QED
      BY <3>3, <3>4
  <2> QED
    BY <2>2, <2>3
<1> QED
  BY <1>1, <1>4, <1>5, <1>8, <1>11, <1>13 DEF LedgerOK

LEMMA ReserveKeeps ==
  ASSUME InvestigationInv, Reserve
  PROVE  InvestigationInv'
<1>1. LedgerOK /\ GraphsOK /\ WorkOK /\ SentOK /\ work.at = "reserve" /\ work.at \in AtWork
  BY DEF InvestigationInv, LedgerOK, Reserve, AtWork
<1>2. CASE Known /\ Replay
  <2>1. ledger' = ledger
    BY <1>2 DEF Replay
  <2>2. CASE \E code : Refused(code)
    <3>1. GraphsOK' /\ WorkOK' /\ sent' = sent
      BY <1>1, <2>2, RefusedKeeps
    <3> QED
      BY <1>1, <2>1, <3>1, SameLedger, SameSent DEF InvestigationInv, LedgerOK
  <2>3. CASE \E result : Within(Replied(result)) /\ UNCHANGED sent
    <3>1. WorkOK' /\ UNCHANGED <<graph, saved, unsaved>> /\ sent' = sent
      BY <1>1, <2>1, <2>3, RepliedKeeps
    <3> QED
      BY <1>1, <2>1, <3>1, SameLedger, SameSent, SameGraphs DEF InvestigationInv, LedgerOK
  <2> QED
    BY <1>2, <2>2, <2>3 DEF Replay
<1>3. CASE ledger' = [ledger EXCEPT !.exhausted = TRUE] /\ Refused("BUDGET")
  <2>1. /\ DOMAIN ledger' = DOMAIN ledger
        /\ ledger'.calls = ledger.calls /\ ledger'.grants = ledger.grants
    BY <1>1, <1>3 DEF LedgerOK
  <2>2. GraphsOK' /\ WorkOK' /\ sent' = sent
    BY <1>1, <1>3, RefusedKeeps
  <2> QED
    BY <1>1, <2>1, <2>2, SameLedger, SameSent DEF InvestigationInv, LedgerOK
<1>4. CASE /\ ~Known /\ ~Limited
           /\ ledger' = [ledger EXCEPT !.calls = Put(@, work.request, Call(work.terminal)),
                                       !.decided = Decided]
           /\ Within([work EXCEPT !.at = "send"])
           /\ UNCHANGED sent
  <2>1. /\ LedgerOK' /\ ledger'.grants = ledger.grants
        /\ DOMAIN ledger'.calls = DOMAIN ledger.calls \cup {work.request}
    BY <1>1, <1>4, ReservedLedger
  <2>2. /\ work' = [work EXCEPT !.at = "send"] /\ sent' = sent
        /\ UNCHANGED <<graph, saved, unsaved, answer>>
    BY <1>4 DEF Within
  <2>3. /\ DOMAIN work' = DOMAIN work /\ work'.at = "send"
        /\ work'.request = work.request /\ work'.index = work.index
    BY <1>1, <2>2 DEF WorkOK
  <2>4. SentOK' /\ GraphsOK'
    BY <1>1, <2>1, <2>2, SameGraphs DEF SentOK
  <2>5. work.request \in DOMAIN ledger'.calls /\ work.request \notin DOMAIN sent'
    BY <1>1, <1>4, <2>1, <2>2 DEF SentOK, Known
  <2>6. WorkOK'
    BY <1>1, <2>1, <2>2, <2>3, <2>5, InsideWork DEF AtWork
  <2> QED
    BY <2>1, <2>4, <2>6 DEF InvestigationInv, LedgerOK
<1> QED
  BY <1>2, <1>3, <1>4 DEF Reserve

\* model.invoke(), the collector or a tool: the request goes out for the first time.
LEMMA SendKeeps ==
  ASSUME InvestigationInv, Send
  PROVE  InvestigationInv'
<1>1. LedgerOK /\ GraphsOK /\ WorkOK /\ SentOK /\ work.at = "send"
  BY DEF InvestigationInv, LedgerOK, Send
<1> DEFINE q == work.request
           n == IF q \in DOMAIN sent THEN sent[q] + 1 ELSE 1
<1>2. q \in DOMAIN ledger.calls /\ q \notin DOMAIN sent
  BY <1>1 DEF WorkOK
<1>3. ledger' = ledger /\ sent' = Put(sent, q, 1)
  BY <1>2 DEF Send
<1>4. PICK r : Within([work EXCEPT !.at = "settle", !.result = <<r>>])
  BY DEF Send
<1>5. /\ work' = [work EXCEPT !.at = "settle", !.result = <<r>>]
      /\ UNCHANGED <<graph, saved, unsaved, answer>>
  BY <1>4 DEF Within
<1>6. /\ DOMAIN work' = DOMAIN work /\ work'.at = "settle"
      /\ work'.request = work.request /\ work'.index = work.index
  BY <1>1, <1>5 DEF WorkOK
<1>7. SentOK'
  <2>1. DOMAIN sent' = DOMAIN sent \cup {q} /\ sent'[q] = 1 /\ \A x \in DOMAIN sent : sent'[x] = sent[x]
    BY <1>2, <1>3 DEF Put
  <2> QED
    BY <1>1, <1>2, <1>3, <2>1 DEF SentOK
<1>8. WorkOK'
  BY <1>1, <1>2, <1>3, <1>5, <1>6, InsideWork DEF AtWork
<1> QED
  BY <1>1, <1>3, <1>5, <1>7, <1>8, SameLedger, SameGraphs DEF InvestigationInv, LedgerOK

\* settle(): the result is filed with its request.
LEMMA SettleKeeps ==
  ASSUME InvestigationInv, Settle
  PROVE  InvestigationInv'
<1>1. LedgerOK /\ GraphsOK /\ WorkOK /\ SentOK /\ work.at = "settle" /\ sent' = sent
  BY DEF InvestigationInv, LedgerOK, Settle
<1> DEFINE q == work.request
<1>2. CASE Within([Away EXCEPT !.at = "failed"]) /\ UNCHANGED ledger
  <2>1. GraphsOK' /\ WorkOK'
    BY <1>1, <1>2, FailKeeps
  <2> QED
    BY <1>1, <1>2, <2>1, SameLedger, SameSent DEF InvestigationInv, LedgerOK
<1>3. CASE /\ ledger' = [ledger EXCEPT !.calls[work.request].result = work.result]
           /\ Within(Replied(work.result))
  <2>1. q \in DOMAIN ledger.calls
    BY <1>1 DEF WorkOK
  <2>2. /\ DOMAIN ledger' = DOMAIN ledger /\ ledger'.grants = ledger.grants
        /\ DOMAIN ledger'.calls = DOMAIN ledger.calls
        /\ \A r \in DOMAIN ledger.calls :
             /\ DOMAIN ledger'.calls[r] = DOMAIN ledger.calls[r]
             /\ ledger'.calls[r].query = ledger.calls[r].query
             /\ ledger'.calls[r].grant = ledger.calls[r].grant
             /\ ledger'.calls[r].seen = ledger.calls[r].seen
    BY <1>1, <1>3, <2>1 DEF LedgerOK, CallsOK
  <2>3. Models' = Models /\ \A x : Samples(x)' = Samples(x)
    BY <2>2 DEF Models, Samples
  <2>4. CallsOK'
    BY <1>1, <2>2, <2>3 DEF LedgerOK, CallsOK
  <2>5. \A g, l : Renews(g, l) => Renews(g, l)'
    BY <2>2, <2>3 DEF Renews, Samples
  <2>6. GrantsOK'
    BY <1>1, <2>2, <2>5 DEF LedgerOK, GrantsOK
  <2>7. LatestOK'
    <3> DEFINE After(k) == {r \in DOMAIN ledger'.calls : r[1] = "tool" /\ ledger'.calls[r].query = k}
    <3> SUFFICES ASSUME NEW r \in DOMAIN ledger'.calls, r[1] = "tool"
                 PROVE  \E s \in After(ledger'.calls[r].query) : \A x \in After(ledger'.calls[r].query) :
                          ledger'.calls[x].grant.generation <= ledger'.calls[s].grant.generation
      BY DEF LatestOK, Samples
    <3>1. PICK s \in Samples(ledger.calls[r].query) : \A x \in Samples(ledger.calls[r].query) :
            ledger.calls[x].grant.generation <= ledger.calls[s].grant.generation
      BY <1>1, <2>2 DEF LedgerOK, LatestOK
    <3>2. After(ledger'.calls[r].query) = Samples(ledger.calls[r].query)
      BY <2>2 DEF Samples
    <3>3. \A x \in Samples(ledger.calls[r].query) : ledger'.calls[x].grant = ledger.calls[x].grant
      BY <2>2 DEF Samples
    <3> QED
      BY <3>1, <3>2, <3>3
  <2>8. LedgerOK' /\ SentOK'
    BY <1>1, <2>2, <2>4, <2>6, <2>7 DEF LedgerOK, SentOK
  <2>9. WorkOK' /\ UNCHANGED <<graph, saved, unsaved>>
    BY <1>1, <1>3, <2>2, RepliedKeeps
  <2> QED
    BY <1>1, <2>8, <2>9, SameGraphs DEF InvestigationInv, LedgerOK
<1> QED
  BY <1>2, <1>3 DEF Settle

\* A set of positions in a sequence has a last one.
LEMMA LargestIn ==
  ASSUME NEW n \in Nat, NEW S, S \subseteq 1..n, S # {}
  PROVE  \E m \in S : \A j \in S : j <= m
<1> DEFINE R == OpToRel(<, Nat)
           T == {n - j : j \in S}
<1>1. IsWellFoundedOn(R, Nat)
  BY NatLessThanWellFounded
<1>2. T \subseteq Nat /\ T # {}
  <2>1. \A j \in S : n - j \in Nat
    OBVIOUS
  <2>2. PICK j : j \in S
    OBVIOUS
  <2>3. n - j \in T
    BY <2>2
  <2> QED
    BY <2>1, <2>3
<1>3. \A x, y \in Nat : x < y => <<x, y>> \in R
  BY DEF OpToRel
<1> HIDE DEF R, T
<1>4. PICK x \in T : \A y \in T : ~(<<y, x>> \in R)
  BY <1>1, <1>2, WFMin
<1>5. \A y \in T : ~(y < x)
  BY <1>2, <1>3, <1>4
<1>6. PICK m \in S : x = n - m
  BY DEF T
<1>7. ASSUME NEW j \in S PROVE j <= m
  <2>1. n - j \in T
    BY DEF T
  <2>2. ~(n - j < n - m)
    BY <1>5, <1>6, <2>1
  <2> QED
    BY <2>2
<1> QED
  BY <1>7

\* prepare_baseline(): the second read follows the first, then the graph moves on.
LEMMA BindKeeps ==
  ASSUME InvestigationInv, Bind
  PROVE  InvestigationInv'
<1>1. /\ LedgerOK /\ GraphsOK /\ WorkOK /\ SentOK /\ work.at = "bind"
      /\ ledger' = ledger /\ sent' = sent
  BY DEF InvestigationInv, LedgerOK, Bind, Advance
<1>2. LedgerOK' /\ SentOK'
  BY <1>1, SameLedger, SameSent
<1>3. CASE Within([work EXCEPT !.at = "reserve", !.request = Initial(2)])
  <2>1. /\ work' = [work EXCEPT !.at = "reserve", !.request = Initial(2)]
        /\ UNCHANGED <<graph, saved, unsaved, answer>>
    BY <1>3 DEF Within
  <2>2. DOMAIN work' = DOMAIN work /\ work'.at = "reserve" /\ work'.request = Initial(2)
    BY <1>1, <2>1 DEF WorkOK
  <2>3. work'.request[1] = "initial"
    BY <2>2 DEF Initial
  <2>4. WorkOK'
    BY <1>1, <2>1, <2>2, <2>3 DEF WorkOK
  <2> QED
    BY <1>1, <1>2, <2>1, <2>4, SameGraphs DEF InvestigationInv, LedgerOK
<1>4. CASE Advance([graph EXCEPT !.next = "decide"])
  <2> DEFINE g == [graph EXCEPT !.next = "decide"]
  <2>1. GraphOK(graph) /\ graph.next # "wait"
    BY <1>1 DEF GraphsOK, WorkOK
  <2>2. DOMAIN g = DOMAIN graph /\ g.asked = graph.asked /\ g.answers = graph.answers /\ g.next = "decide"
    BY <2>1 DEF GraphOK
  <2>3. Advance(g)
    BY <1>4
  <2> HIDE DEF g
  <2>4. GraphOK(g)
    BY <2>1, <2>2, GraphMoves
  <2>5. GraphsOK' /\ WorkOK'
    BY <1>1, <2>3, <2>4, AdvanceGraphs, EnteredWork DEF Advance
  <2> QED
    BY <1>2, <2>5 DEF InvestigationInv, LedgerOK
<1> QED
  BY <1>3, <1>4 DEF Bind

\* A decision is followed.
LEMMA AcceptKeeps ==
  ASSUME GraphsOK, WorkOK, work.at = "judge", NEW r, Accept(r)
  PROVE  GraphsOK' /\ WorkOK' /\ sent' = sent
<1> DEFINE g == [graph EXCEPT !.step = work.request[2], !.decision = r]
<1>1. GraphOK(graph) /\ graph.next # "wait"
  BY DEF GraphsOK, WorkOK
<1>2. DOMAIN g = DOMAIN graph /\ g.asked = graph.asked /\ g.answers = graph.answers /\ g.next = graph.next
  BY <1>1 DEF GraphOK
<1>3. \/ Advance([g EXCEPT !.next = "collect"])
      \/ Advance([g EXCEPT !.next = "wait", !.asked = Append(@, r.slot)])
      \/ Advance([g EXCEPT !.next = "end", !.output = r.action])
  <2>1. CASE r.action = "collect"
    BY <2>1 DEF Accept
  <2>2. CASE r.action = "ask"
    BY <2>2 DEF Accept
  <2>3. CASE r.action # "collect" /\ r.action # "ask"
    BY <2>3 DEF Accept
  <2> QED
    BY <2>1, <2>2, <2>3
<1> HIDE DEF g
<1>4. \E h : GraphOK(h) /\ Advance(h)
  <2>1. CASE Advance([g EXCEPT !.next = "collect"])
    <3> DEFINE h == [g EXCEPT !.next = "collect"]
    <3>1. DOMAIN h = DOMAIN graph /\ h.asked = graph.asked /\ h.answers = graph.answers /\ h.next = "collect"
      BY <1>1, <1>2 DEF GraphOK
    <3> HIDE DEF h
    <3>2. GraphOK(h)
      BY <1>1, <3>1, GraphMoves
    <3> QED
      BY <2>1, <3>2 DEF h
  <2>2. CASE Advance([g EXCEPT !.next = "wait", !.asked = Append(@, r.slot)])
    <3> DEFINE slot == r.slot
               h == [g EXCEPT !.next = "wait", !.asked = Append(g.asked, slot)]
    <3>1. /\ DOMAIN h = DOMAIN graph /\ h.asked = Append(graph.asked, slot)
          /\ h.answers = graph.answers /\ h.next = "wait"
      BY <1>1, <1>2 DEF GraphOK
    <3> HIDE DEF h
    <3>2. IsSeq(Append(graph.asked, slot)) /\ Len(Append(graph.asked, slot)) = Len(graph.asked) + 1
      BY <1>1, AppendIsSeq DEF GraphOK
    <3>3. GraphOK(h)
      BY <1>1, <3>1, <3>2 DEF GraphOK
    <3> QED
      BY <2>2, <3>3 DEF h, slot
  <2>3. CASE Advance([g EXCEPT !.next = "end", !.output = r.action])
    <3> DEFINE action == r.action
               h == [g EXCEPT !.next = "end", !.output = action]
    <3>1. DOMAIN h = DOMAIN graph /\ h.asked = graph.asked /\ h.answers = graph.answers /\ h.next = "end"
      BY <1>1, <1>2 DEF GraphOK
    <3> HIDE DEF h
    <3>2. GraphOK(h)
      BY <1>1, <3>1, GraphMoves
    <3> QED
      BY <2>3, <3>2 DEF h
  <2> QED
    BY <1>3, <2>1, <2>2, <2>3
<1>5. PICK h : GraphOK(h) /\ Advance(h)
  BY <1>4
<1>6. graph' = h /\ work' = Enter(h) /\ sent' = sent
  BY <1>5 DEF Advance
<1> QED
  BY <1>5, <1>6, AdvanceGraphs, EnteredWork

LEMMA JudgeKeeps ==
  ASSUME InvestigationInv, Judge
  PROVE  InvestigationInv'
<1> DEFINE r == work.result[1]
<1>1. LedgerOK /\ GraphsOK /\ WorkOK /\ SentOK /\ work.at = "judge" /\ work.at \in AtWork
  BY DEF InvestigationInv, LedgerOK, Judge, AtWork
<1>2. CASE ledger' = ledger /\ \E code : Handoff(code)
  <2>1. GraphsOK' /\ WorkOK' /\ sent' = sent
    BY <1>1, <1>2, HandoffKeeps
  <2> QED
    BY <1>1, <1>2, <2>1, SameLedger, SameSent DEF InvestigationInv, LedgerOK
<1>3. CASE ledger' = ledger /\ Accept(r)
  <2>1. GraphsOK' /\ WorkOK' /\ sent' = sent
    BY <1>1, <1>3, AcceptKeeps
  <2> QED
    BY <1>1, <1>3, <2>1, SameLedger, SameSent DEF InvestigationInv, LedgerOK
<1>4. CASE Correct(r)
  <2>1. /\ DOMAIN ledger' = DOMAIN ledger
        /\ ledger'.calls = ledger.calls /\ ledger'.grants = ledger.grants
    <3>1. CASE ledger' = [ledger EXCEPT !.diagnosisCorrection = work.request[2]]
      BY <1>1, <3>1 DEF LedgerOK
    <3>2. CASE ledger' = [ledger EXCEPT !.correction = work.request[2]]
      BY <1>1, <3>2 DEF LedgerOK
    <3> QED
      BY <1>4, <3>1, <3>2 DEF Correct
  <2> DEFINE request == Ask(work.request[2], TRUE)
             terminal == work.terminal \/ r.action = "report"
             feedback == <<r>>
  <2>2. /\ work' = [work EXCEPT !.at = "mode", !.attempt = 1, !.request = request,
                                !.terminal = terminal, !.feedback = feedback]
        /\ UNCHANGED <<graph, saved, unsaved, answer>> /\ sent' = sent
    BY <1>4 DEF Correct, Within
  <2>3. request[1] = "model"
    BY DEF Ask
  <2> HIDE DEF request, terminal, feedback
  <2>4. DOMAIN work' = DOMAIN work /\ work'.at = "mode" /\ work'.request = request
    BY <1>1, <2>2 DEF WorkOK
  <2>5. WorkOK'
    BY <1>1, <2>2, <2>3, <2>4 DEF WorkOK
  <2> QED
    BY <1>1, <2>1, <2>2, <2>5, SameLedger, SameSent, SameGraphs DEF InvestigationInv, LedgerOK
<1> QED
  BY <1>2, <1>3, <1>4 DEF Judge

\* authorize_sample(): what a grant that is not refused rests on.
LEMMA GrantIsSound ==
  ASSUME LedgerOK, GraphOK(graph), NEW q, NEW aged \in BOOLEAN, Refusal(q, aged) = None,
         NEW g, g = Grant(q, aged)
  PROVE  /\ g.query = q /\ g.generation \in Nat
         /\ g.generation = 0 => g.basis = <<"initial">>
         /\ g.generation # 0 =>
              /\ g.basis # <<"initial">> /\ \E l \in DOMAIN ledger.calls : Renews(g, l)
              /\ \A r \in DOMAIN ledger.grants :
                   ledger.grants[r].query = q => ledger.grants[r].basis # g.basis
<1> DEFINE b == Basis(q, aged)
<1>1. b # <<>> /\ Unused(q, b)
  BY DEF Refusal, None
<1>2. /\ g.query = q /\ g.basis = b
      /\ g.generation = IF Samples(q) = {} THEN 0 ELSE ledger.calls[Latest(q)].grant.generation + 1
  BY DEF Grant
<1> HIDE DEF b
<1>3. CASE Samples(q) = {}
  <2>1. b = <<"initial">>
    BY <1>1, <1>3 DEF b, Basis
  <2> QED
    BY <1>2, <1>3, <2>1
<1>4. CASE Samples(q) # {}
  <2> DEFINE l == Latest(q)
  <2>1. l \in Samples(q)
    <3>1. \E r \in Samples(q) : \A s \in Samples(q) :
            ledger.calls[s].grant.generation <= ledger.calls[r].grant.generation
      <4>1. PICK x \in Samples(q) : TRUE
        BY <1>4
      <4>2. x \in DOMAIN ledger.calls /\ x[1] = "tool" /\ ledger.calls[x].query = q
        BY DEF Samples
      <4> QED
        BY <4>2 DEF LedgerOK, LatestOK
    <3> QED
      BY <3>1 DEF Latest
  <2>2. l \in DOMAIN ledger.calls /\ ledger.calls[l].grant.generation \in Nat
    BY <2>1 DEF Samples, LedgerOK, CallsOK, GrantsOK
  <2>3. g.generation = ledger.calls[l].grant.generation + 1 /\ g.generation \in Nat /\ g.generation # 0
    BY <1>2, <1>4, <2>2
  <2> DEFINE C == Changes(q)
             last == CHOOSE i \in C : \A j \in C : j <= i
  <2>4. \/ C # {} /\ b = <<"change", last>>
        \/ b = <<"stale", l>>
    <3>1. CASE graph.decision.reason = "user_change" /\ C # {}
      BY <1>4, <3>1 DEF b, Basis
    <3>2. CASE /\ ~(graph.decision.reason = "user_change" /\ C # {})
               /\ graph.decision.reason = "stale" /\ aged
      BY <1>4, <3>2 DEF b, Basis
    <3>3. CASE /\ ~(graph.decision.reason = "user_change" /\ C # {})
               /\ ~(graph.decision.reason = "stale" /\ aged)
      BY <1>1, <1>4, <3>3 DEF b, Basis
    <3> QED
      BY <3>1, <3>2, <3>3
  <2>5. b # <<"initial">> /\ b[1] # "initial"
    BY <2>4
  <2>6. b[1] = "change" => b[2] > ledger.calls[l].seen
    <3> SUFFICES ASSUME b[1] = "change" PROVE b[2] > ledger.calls[l].seen
      OBVIOUS
    <3>1. C # {} /\ b = <<"change", last>>
      BY <2>4
    <3>2. C \subseteq 1..Len(graph.answers) /\ Len(graph.answers) \in Nat
      BY AppendIsSeq DEF Changes, GraphOK
    <3> HIDE DEF C
    <3>3. \E i \in C : \A j \in C : j <= i
      BY <3>1, <3>2, LargestIn
    <3>4. last \in C
      BY <3>3
    <3>5. b[2] = last
      BY <3>1
    <3> HIDE DEF last
    <3>6. /\ last \in DOMAIN graph.answers
          /\ graph.answers[last].n > ledger.calls[l].seen
      BY <3>4 DEF C, Changes
    <3>7. graph.answers[last].n = last
      BY <3>6 DEF GraphOK
    <3> QED
      BY <3>5, <3>6, <3>7
  <2>7. Renews(g, l)
    BY <1>2, <2>1, <2>3, <2>6 DEF Renews
  <2>8. \A r \in DOMAIN ledger.grants : ledger.grants[r].query = q => ledger.grants[r].basis # b
    BY <1>1, <1>4 DEF Unused
  <2> QED
    BY <1>2, <2>2, <2>3, <2>5, <2>7, <2>8
<1> QED
  BY <1>3, <1>4

\* The grant is put on the ledger under its own request.
LEMMA GrantedLedger ==
  ASSUME LedgerOK, GraphOK(graph), NEW q, NEW aged \in BOOLEAN, Refusal(q, aged) = None,
         NEW x, x \notin DOMAIN ledger.grants,
         ledger' = [ledger EXCEPT !.grants = Put(@, x, Grant(q, aged))]
  PROVE  /\ LedgerOK' /\ ledger'.calls = ledger.calls
         /\ DOMAIN ledger'.grants = DOMAIN ledger.grants \cup {x}
         /\ ledger'.grants[x].query = q
         /\ \A r \in DOMAIN ledger.grants : ledger'.grants[r] = ledger.grants[r]
<1> DEFINE g == Grant(q, aged)
<1>1. /\ g.query = q /\ g.generation \in Nat
      /\ g.generation = 0 => g.basis = <<"initial">>
      /\ g.generation # 0 =>
           /\ g.basis # <<"initial">> /\ \E l \in DOMAIN ledger.calls : Renews(g, l)
           /\ \A r \in DOMAIN ledger.grants :
                ledger.grants[r].query = q => ledger.grants[r].basis # g.basis
  BY GrantIsSound
<1> HIDE DEF g
<1>2. /\ DOMAIN ledger' = DOMAIN ledger /\ ledger'.calls = ledger.calls
      /\ ledger'.grants = Put(ledger.grants, x, g)
  BY DEF LedgerOK, g
<1>3. /\ DOMAIN ledger'.grants = DOMAIN ledger.grants \cup {x}
      /\ ledger'.grants[x] = g
      /\ \A r \in DOMAIN ledger.grants : ledger'.grants[r] = ledger.grants[r]
  <2> DEFINE f == ledger.grants
             h == ledger'.grants
  <2>1. h = Put(f, x, g) /\ x \notin DOMAIN f
    BY <1>2
  <2> HIDE DEF f, h
  <2>2. DOMAIN h = DOMAIN f \cup {x} /\ h[x] = g /\ \A r \in DOMAIN f : h[r] = f[r]
    BY <2>1 DEF Put
  <2> QED
    BY <2>2 DEF f, h
<1>4. Models' = Models /\ \A k : Samples(k)' = Samples(k)
  BY <1>2 DEF Models, Samples
<1>5. CallsOK'
  BY <1>2, <1>3, <1>4 DEF LedgerOK, CallsOK
<1>7. GrantsOK'
  <2> DEFINE Renewed(k, l) ==
        /\ l \in {r \in DOMAIN ledger'.calls : r[1] = "tool" /\ ledger'.calls[r].query = k.query}
        /\ k.generation = ledger'.calls[l].grant.generation + 1
        /\ k.basis[1] = "change" => k.basis[2] > ledger'.calls[l].seen
  <2>a. \A k, l : Renews(k, l) => Renewed(k, l)
    BY <1>2 DEF Renews, Samples
  <2> HIDE DEF Renewed
  <2>1. ASSUME NEW r \in DOMAIN ledger'.grants
        PROVE  LET k == ledger'.grants[r] IN
               /\ k.generation \in Nat
               /\ k.generation = 0 => k.basis = <<"initial">>
               /\ k.generation # 0 => k.basis # <<"initial">> /\ \E l \in DOMAIN ledger'.calls : Renewed(k, l)
    <3>1. CASE r = x
      BY <1>1, <1>2, <1>3, <2>a, <3>1
    <3>2. CASE r \in DOMAIN ledger.grants
      BY <1>2, <1>3, <2>a, <3>2 DEF LedgerOK, GrantsOK
    <3> QED
      BY <1>3, <3>1, <3>2
  <2>2. ASSUME NEW r \in DOMAIN ledger'.grants, NEW s \in DOMAIN ledger'.grants,
               r # s, ledger'.grants[r].query = ledger'.grants[s].query,
               ledger'.grants[r].generation # 0, ledger'.grants[s].generation # 0
        PROVE  ledger'.grants[r].basis # ledger'.grants[s].basis
    <3>1. CASE r \in DOMAIN ledger.grants /\ s \in DOMAIN ledger.grants
      BY <1>3, <2>2, <3>1 DEF LedgerOK, GrantsOK
    <3>2. CASE r = x /\ s \in DOMAIN ledger.grants
      BY <1>1, <1>3, <2>2, <3>2
    <3>3. CASE s = x /\ r \in DOMAIN ledger.grants
      BY <1>1, <1>3, <2>2, <3>3
    <3> QED
      BY <1>3, <2>2, <3>1, <3>2, <3>3
  <2> QED
    BY <2>1, <2>2 DEF GrantsOK, Renewed, Renews, Samples
<1>8. LatestOK'
  BY <1>2 DEF LedgerOK, LatestOK, Samples
<1> QED
  BY <1>1, <1>2, <1>3, <1>5, <1>7, <1>8 DEF LedgerOK

\* One more request of the batch is authorised; after the last the reads begin.
LEMMA NextAuthorizedKeeps ==
  ASSUME WorkOK, work.at = "authorize", NextAuthorized,
         NEW n, n = work.index, Granted(n)',
         \A r \in DOMAIN ledger.grants :
           r \in DOMAIN ledger'.grants /\ ledger'.grants[r] = ledger.grants[r]
  PROVE  WorkOK' /\ UNCHANGED <<graph, saved, unsaved>>
<1>1. UNCHANGED <<graph, saved, unsaved, answer>>
  BY DEF NextAuthorized, Within
<1>2. n \in Nat /\ n >= 1 /\ graph.next \notin {"wait", "end"}
  BY DEF WorkOK
<1>3. \A j \in 1..n : Granted(j)'
  <2> SUFFICES ASSUME NEW j \in 1..n PROVE Granted(j)'
    OBVIOUS
  <2>1. CASE j = n
    BY <2>1
  <2>2. CASE j # n
    <3>1. j \in 1..n - 1
      BY <1>2, <2>2
    <3>2. Granted(j)
      BY <3>1 DEF WorkOK
    <3> QED
      BY <1>1, <3>2 DEF Granted
  <2> QED
    BY <2>1, <2>2
<1>4. \A j : Tool(graph.step, j)[1] = "tool"
  BY DEF Tool
<1>5. CASE n = Len(graph.decision.batch)
  <2> DEFINE request == Tool(graph.step, 1)
  <2>1. work' = [work EXCEPT !.at = "reserve", !.index = 1, !.request = request]
    BY <1>5 DEF NextAuthorized, Within
  <2> HIDE DEF request
  <2>2. /\ DOMAIN work' = DOMAIN work /\ work'.at = "reserve" /\ work'.index = 1
        /\ work'.request = request
    BY <2>1 DEF WorkOK
  <2> QED
    BY <1>1, <1>2, <1>3, <1>4, <1>5, <2>2 DEF WorkOK, request
<1>6. CASE n # Len(graph.decision.batch)
  <2> DEFINE request == Tool(graph.step, n + 1)
  <2>1. work' = [work EXCEPT !.index = n + 1, !.request = request]
    BY <1>6 DEF NextAuthorized, Within
  <2> HIDE DEF request
  <2>2. /\ DOMAIN work' = DOMAIN work /\ work'.at = "authorize" /\ work'.index = n + 1
        /\ work'.request = request
    BY <2>1 DEF WorkOK
  <2>3. (n + 1) - 1 = n /\ n + 1 \in Nat /\ n + 1 >= 1
    BY <1>2
  <2> QED
    BY <1>1, <1>2, <1>3, <1>4, <2>2, <2>3 DEF WorkOK, request
<1> QED
  BY <1>1, <1>5, <1>6

LEMMA AuthorizeKeeps ==
  ASSUME InvestigationInv, Authorize
  PROVE  InvestigationInv'
<1> DEFINE n == work.index
           q == graph.decision.batch[n]
<1>1. LedgerOK /\ GraphsOK /\ WorkOK /\ SentOK /\ work.at = "authorize" /\ work.at \in AtWork
  BY DEF InvestigationInv, LedgerOK, Authorize, AtWork
<1>2. work.request = Tool(graph.step, n) /\ GraphOK(graph)
  BY <1>1 DEF WorkOK, GraphsOK
<1>3. CASE ledger' = ledger /\ \E code : Handoff(code)
  <2>1. GraphsOK' /\ WorkOK' /\ sent' = sent
    BY <1>1, <1>3, HandoffKeeps
  <2> QED
    BY <1>1, <1>3, <2>1, SameLedger, SameSent DEF InvestigationInv, LedgerOK
<1>4. CASE /\ work.request \in DOMAIN ledger.grants /\ ledger.grants[work.request].query = q
           /\ ledger' = ledger /\ NextAuthorized /\ UNCHANGED sent
  <2>1. UNCHANGED graph
    BY <1>4 DEF NextAuthorized, Within
  <2>2. ASSUME NEW m, m = n PROVE Granted(m)'
    BY <1>2, <1>4, <2>1, <2>2 DEF Granted
  <2>3. WorkOK' /\ UNCHANGED <<graph, saved, unsaved>>
    BY <1>1, <1>4, <2>2, NextAuthorizedKeeps
  <2> QED
    BY <1>1, <1>4, <2>3, SameLedger, SameSent, SameGraphs DEF InvestigationInv, LedgerOK
<1>5. ASSUME NEW aged \in BOOLEAN, work.request \notin DOMAIN ledger.grants,
             Refusal(q, aged) = None,
             ledger' = [ledger EXCEPT !.grants = Put(@, work.request, Grant(q, aged))],
             NextAuthorized, UNCHANGED sent
      PROVE  InvestigationInv'
  <2>1. UNCHANGED graph
    BY <1>5 DEF NextAuthorized, Within
  <2>2. /\ LedgerOK' /\ ledger'.calls = ledger.calls
        /\ DOMAIN ledger'.grants = DOMAIN ledger.grants \cup {work.request}
        /\ ledger'.grants[work.request].query = q
        /\ \A r \in DOMAIN ledger.grants : ledger'.grants[r] = ledger.grants[r]
    BY <1>1, <1>2, <1>5, GrantedLedger
  <2>3. ASSUME NEW m, m = n PROVE Granted(m)'
    BY <1>2, <2>1, <2>2, <2>3 DEF Granted
  <2>4. WorkOK' /\ UNCHANGED <<graph, saved, unsaved>>
    BY <1>1, <1>5, <2>2, <2>3, NextAuthorizedKeeps
  <2> QED
    BY <1>1, <1>5, <2>2, <2>4, SameSent, SameGraphs DEF InvestigationInv, LedgerOK
<1>6. CASE work.request \in DOMAIN ledger.grants
  BY <1>3, <1>4, <1>6 DEF Authorize
<1>7. CASE work.request \notin DOMAIN ledger.grants
  <2>1. PICK aged \in BOOLEAN :
          IF Refusal(q, aged) # None
          THEN Handoff(Refusal(q, aged)) /\ UNCHANGED ledger
          ELSE /\ ledger' = [ledger EXCEPT !.grants = Put(@, work.request, Grant(q, aged))]
               /\ NextAuthorized /\ UNCHANGED sent
    BY <1>7 DEF Authorize
  <2> QED
    BY <1>3, <1>5, <1>7, <2>1
<1> QED
  BY <1>6, <1>7

\* A result becomes evidence; the next read of the batch follows.
LEMMA AdaptKeeps ==
  ASSUME InvestigationInv, Adapt
  PROVE  InvestigationInv'
<1> DEFINE read == [query |-> graph.decision.batch[work.index], result |-> work.result[1],
                    by |-> work.request]
           reads == Append(graph.reads, read)
           g == [graph EXCEPT !.reads = reads]
           n == work.index
<1>1. /\ LedgerOK /\ GraphsOK /\ WorkOK /\ SentOK /\ work.at = "adapt" /\ ledger' = ledger
  BY DEF InvestigationInv, LedgerOK, Adapt
<1>2. sent' = sent
  BY DEF Adapt, Advance
<1>3. LedgerOK' /\ SentOK'
  BY <1>1, <1>2, SameLedger, SameSent
<1>4. GraphOK(graph) /\ graph.next \notin {"wait", "end"} /\ work.request[1] = "tool"
  BY <1>1 DEF GraphsOK, WorkOK
<1>5. \/ Advance([g EXCEPT !.next = "end", !.output = "TARGET_CHANGED"])
      \/ Advance([g EXCEPT !.next = "decide"])
      \/ /\ n # Len(graph.decision.batch) /\ graph' = g
         /\ work' = [work EXCEPT !.at = "reserve", !.index = n + 1,
                                 !.request = Tool(graph.step, n + 1), !.result = <<>>]
         /\ UNCHANGED <<saved, unsaved, answer>>
  BY DEF Adapt
<1> HIDE DEF reads
<1>6. /\ DOMAIN g = DOMAIN graph /\ g.asked = graph.asked /\ g.answers = graph.answers
      /\ g.next = graph.next /\ g.step = graph.step /\ g.decision = graph.decision
  BY <1>4 DEF GraphOK
<1> HIDE DEF g
<1>7. GraphOK(g)
  BY <1>4, <1>6, GraphMoves DEF GraphOK
<1>8. CASE Advance([g EXCEPT !.next = "end", !.output = "TARGET_CHANGED"])
  <2> DEFINE h == [g EXCEPT !.next = "end", !.output = "TARGET_CHANGED"]
  <2>1. DOMAIN h = DOMAIN graph /\ h.asked = graph.asked /\ h.answers = graph.answers /\ h.next = "end"
    BY <1>4, <1>6 DEF GraphOK
  <2>2. Advance(h)
    BY <1>8
  <2> HIDE DEF h
  <2>3. GraphOK(h)
    BY <1>4, <2>1, GraphMoves
  <2>4. GraphsOK' /\ WorkOK'
    BY <1>1, <2>2, <2>3, AdvanceGraphs, EnteredWork DEF Advance
  <2> QED
    BY <1>3, <2>4 DEF InvestigationInv, LedgerOK
<1>9. CASE Advance([g EXCEPT !.next = "decide"])
  <2> DEFINE h == [g EXCEPT !.next = "decide"]
  <2>1. DOMAIN h = DOMAIN graph /\ h.asked = graph.asked /\ h.answers = graph.answers /\ h.next = "decide"
    BY <1>4, <1>6 DEF GraphOK
  <2>2. Advance(h)
    BY <1>9
  <2> HIDE DEF h
  <2>3. GraphOK(h)
    BY <1>4, <2>1, GraphMoves
  <2>4. GraphsOK' /\ WorkOK'
    BY <1>1, <2>2, <2>3, AdvanceGraphs, EnteredWork DEF Advance
  <2> QED
    BY <1>3, <2>4 DEF InvestigationInv, LedgerOK
<1>10. CASE /\ n # Len(graph.decision.batch) /\ graph' = g
            /\ work' = [work EXCEPT !.at = "reserve", !.index = n + 1,
                                    !.request = Tool(graph.step, n + 1), !.result = <<>>]
            /\ UNCHANGED <<saved, unsaved, answer>>
  <2> DEFINE request == Tool(graph.step, n + 1)
  <2>1. request[1] = "tool"
    BY DEF Tool
  <2> HIDE DEF request
  <2>2. work' = [work EXCEPT !.at = "reserve", !.index = n + 1, !.request = request, !.result = <<>>]
    BY <1>10 DEF request
  <2>3. /\ DOMAIN work' = DOMAIN work /\ work'.at = "reserve" /\ work'.index = n + 1
        /\ work'.request = request
    BY <1>1, <2>2 DEF WorkOK
  <2>4. /\ Len(graph.decision.batch) \in Nat /\ n \in 1..Len(graph.decision.batch)
        /\ \A j \in 1..Len(graph.decision.batch) : Granted(j)
    BY <1>1, <1>4 DEF WorkOK
  <2>5. n + 1 \in 1..Len(graph.decision.batch)
    BY <1>10, <2>4
  <2>6. \A j \in 1..Len(graph.decision.batch) : Granted(j)'
    BY <1>1, <1>6, <1>10, <2>4 DEF Granted
  <2>7. WorkOK'
    BY <1>4, <1>6, <1>10, <2>1, <2>3, <2>4, <2>5, <2>6, <1>1 DEF WorkOK, request
  <2>8. GraphsOK'
    BY <1>1, <1>7, <1>10 DEF GraphsOK
  <2> QED
    BY <1>3, <2>7, <2>8 DEF InvestigationInv, LedgerOK
<1> QED
  BY <1>5, <1>8, <1>9, <1>10

\* accept_answer(): answer n is to question n.
LEMMA AcceptAnswerKeeps ==
  ASSUME InvestigationInv, AcceptAnswer
  PROVE  InvestigationInv'
<1> DEFINE answers == Append(graph.answers, answer)
           g == [graph EXCEPT !.answers = answers]
<1>1. LedgerOK /\ GraphsOK /\ WorkOK /\ SentOK /\ work.at = "accept"
  BY DEF InvestigationInv, LedgerOK, AcceptAnswer
<1>2. GraphOK(graph) /\ graph.next = "wait" /\ answer.n = Len(graph.asked)
  BY <1>1 DEF GraphsOK, WorkOK
<1>3. /\ DOMAIN ledger' = DOMAIN ledger
      /\ ledger'.calls = ledger.calls /\ ledger'.grants = ledger.grants
  <2>1. CASE ledger' = ledger
    BY <2>1
  <2>2. CASE ledger' = [ledger EXCEPT !.receipts = Append(@, answer)]
    BY <1>1, <2>2 DEF LedgerOK
  <2> QED
    BY <2>1, <2>2 DEF AcceptAnswer
<1>4. \/ Advance([g EXCEPT !.next = "end", !.output = "HUMAN_QUESTION_SKIPPED"])
      \/ Advance([g EXCEPT !.next = "decide"])
  BY DEF AcceptAnswer
<1>5. sent' = sent
  BY <1>4 DEF Advance
<1>6. LedgerOK' /\ SentOK'
  BY <1>1, <1>3, <1>5, SameLedger, SameSent
<1>7. /\ IsSeq(answers) /\ Len(graph.answers) \in Nat /\ DOMAIN graph.answers = 1..Len(graph.answers)
      /\ Len(answers) = Len(graph.answers) + 1 /\ DOMAIN answers = 1..Len(graph.answers) + 1
      /\ answers[Len(graph.answers) + 1] = answer
      /\ \A i \in DOMAIN graph.answers : answers[i] = graph.answers[i]
  <2>1. IsSeq(graph.answers)
    BY <1>2 DEF GraphOK
  <2> HIDE DEF g
  <2> QED
    BY <2>1, AppendIsSeq
<1> HIDE DEF answers
<1>8. Len(graph.asked) = Len(answers)
  BY <1>2, <1>7 DEF GraphOK
<1>9. \A i \in DOMAIN answers : answers[i].n = i
  <2> SUFFICES ASSUME NEW i \in DOMAIN answers PROVE answers[i].n = i
    OBVIOUS
  <2>1. i \in DOMAIN graph.answers \/ i = Len(graph.answers) + 1
    BY <1>7
  <2> QED
    BY <1>2, <1>7, <1>8, <2>1 DEF GraphOK
<1>10. DOMAIN g = DOMAIN graph /\ g.asked = graph.asked /\ g.answers = answers
  BY <1>2 DEF GraphOK
<1> HIDE DEF g
<1>11. ASSUME NEW h, DOMAIN h = DOMAIN graph, h.asked = graph.asked, h.answers = answers,
              h.next \in {"decide", "end"}, Advance(h)
       PROVE  InvestigationInv'
  <2>1. GraphOK(h)
    BY <1>2, <1>7, <1>8, <1>9, <1>11 DEF GraphOK
  <2>2. GraphsOK' /\ WorkOK'
    BY <1>1, <1>11, <2>1, AdvanceGraphs, EnteredWork DEF Advance
  <2> QED
    BY <1>6, <2>2 DEF InvestigationInv, LedgerOK
<1>12. CASE Advance([g EXCEPT !.next = "end", !.output = "HUMAN_QUESTION_SKIPPED"])
  <2> DEFINE h == [g EXCEPT !.next = "end", !.output = "HUMAN_QUESTION_SKIPPED"]
  <2>1. DOMAIN h = DOMAIN graph /\ h.asked = graph.asked /\ h.answers = answers /\ h.next = "end"
    BY <1>2, <1>10 DEF GraphOK
  <2>2. Advance(h)
    BY <1>12
  <2> HIDE DEF h
  <2> QED
    BY <1>11, <2>1, <2>2
<1>13. CASE Advance([g EXCEPT !.next = "decide"])
  <2> DEFINE h == [g EXCEPT !.next = "decide"]
  <2>1. DOMAIN h = DOMAIN graph /\ h.asked = graph.asked /\ h.answers = answers /\ h.next = "decide"
    BY <1>2, <1>10 DEF GraphOK
  <2>2. Advance(h)
    BY <1>13
  <2> HIDE DEF h
  <2> QED
    BY <1>11, <2>1, <2>2
<1> QED
  BY <1>4, <1>12, <1>13

-----------------------------------------------------------------------------
\* runtime/budget.py and investigation/resampling.py: what goes out was
\* reserved and has not gone out before, and every read on the ledger has a
\* grant, a generation and, when it repeats a query, a sample it renews.
THEOREM InvestigationInductive == InvestigationSpec => []InvestigationInv
<1>1. InvestigationInv /\ [Next]_vars => InvestigationInv'
  BY OutsideKeeps, ModeKeeps, ReserveKeeps, SendKeeps, SettleKeeps, BindKeeps, JudgeKeeps,
     AuthorizeKeeps, AdaptKeeps, AcceptAnswerKeeps DEF Next, Step
<1> QED
  BY <1>1, InitKeeps, PTL DEF InvestigationSpec

\* However often the run is claimed again and however far the checkpoints lag,
\* no request is sent twice and the provider is called at most Attempts times
\* (runtime/budget.py:50-120).
THEOREM EveryRequestPaidOnce == InvestigationSpec => []PaidOnce
<1>1. ASSUME InvestigationInv PROVE PaidOnce
  <2> DEFINE M == {r \in DOMAIN sent : r[1] = "model"}
  <2>1. IsFiniteSet(Models) /\ Cardinality(Models) <= Attempts /\ Attempts \in Nat
    BY <1>1, FS_Subset, InvestigationAssumption
    DEF InvestigationInv, CallsOK, Models, InvestigationAssumption
  <2>2. M \subseteq Models
    BY <1>1 DEF InvestigationInv, SentOK, Models
  <2>3. IsFiniteSet(M) /\ Cardinality(M) <= Cardinality(Models)
    BY <2>1, <2>2, FS_Subset
  <2>4. Cardinality(M) <= Attempts
    BY <2>1, <2>3, FS_CardinalityType
  <2> QED
    BY <1>1, <2>4 DEF InvestigationInv, SentOK, PaidOnce
<1> QED
  BY <1>1, InvestigationInductive, PTL

\* Each sample of a query has a basis of its own, and one taken for a reported
\* change was preceded by a report later than the sample before
\* (investigation/resampling.py:24-90).
THEOREM RereadsAreJustified == InvestigationSpec => []RereadHasBasis
<1>1. ASSUME InvestigationInv PROVE RereadHasBasis
  <2> SUFFICES ASSUME NEW q \in Query, NEW r \in Samples(q), NEW s \in Samples(q), r # s
               PROVE  /\ ledger.calls[r].grant.basis # ledger.calls[s].grant.basis
                      /\ /\ ledger.calls[s].grant.generation = ledger.calls[r].grant.generation + 1
                         /\ ledger.calls[s].grant.basis[1] = "change"
                         => ledger.calls[s].grant.basis[2] > ledger.calls[r].seen
    BY DEF RereadHasBasis
  <2> DEFINE a == ledger.grants[r]
             b == ledger.grants[s]
  <2>1. /\ r \in DOMAIN ledger.calls /\ r[1] = "tool" /\ ledger.calls[r].query = q
        /\ s \in DOMAIN ledger.calls /\ s[1] = "tool" /\ ledger.calls[s].query = q
    BY DEF Samples
  <2>2. /\ r \in DOMAIN ledger.grants /\ ledger.calls[r].grant = a /\ a.query = q
        /\ s \in DOMAIN ledger.grants /\ ledger.calls[s].grant = b /\ b.query = q
        /\ a.generation # b.generation
    BY <1>1, <2>1 DEF InvestigationInv, CallsOK
  <2>3. /\ a.generation \in Nat /\ b.generation \in Nat
        /\ a.generation = 0 => a.basis = <<"initial">>
        /\ b.generation = 0 => b.basis = <<"initial">>
        /\ a.generation # 0 => a.basis # <<"initial">>
        /\ b.generation # 0 => b.basis # <<"initial">> /\ \E l \in DOMAIN ledger.calls : Renews(b, l)
    BY <1>1, <2>2 DEF InvestigationInv, GrantsOK
  <2>4. a.generation # 0 /\ b.generation # 0 => a.basis # b.basis
    BY <1>1, <2>2 DEF InvestigationInv, GrantsOK
  <2>5. a.basis # b.basis
    BY <2>2, <2>3, <2>4
  <2>6. ASSUME b.generation = a.generation + 1, b.basis[1] = "change"
        PROVE  b.basis[2] > ledger.calls[r].seen
    <3>1. b.generation # 0
      BY <2>3, <2>6
    <3>2. PICK l \in DOMAIN ledger.calls : Renews(b, l)
      BY <2>3, <3>1
    <3>3. /\ l[1] = "tool" /\ ledger.calls[l].query = q
          /\ b.generation = ledger.calls[l].grant.generation + 1
          /\ b.basis[2] > ledger.calls[l].seen
      BY <2>2, <2>6, <3>2 DEF Renews, Samples
    <3>4. ledger.calls[l].grant.generation \in Nat
      BY <1>1, <3>3 DEF InvestigationInv, CallsOK, GrantsOK
    <3>5. ledger.calls[l].grant.generation = ledger.calls[r].grant.generation
      BY <2>2, <2>3, <2>6, <3>3, <3>4
    <3>6. l = r
      BY <1>1, <2>1, <3>3, <3>5 DEF InvestigationInv, CallsOK
    <3> QED
      BY <3>3, <3>6
  <2> QED
    BY <2>2, <2>5, <2>6
<1> QED
  BY <1>1, InvestigationInductive, PTL
=============================================================================
