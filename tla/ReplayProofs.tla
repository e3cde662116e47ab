----------------------------- MODULE ReplayProofs -----------------------------
(***************************************************************************)
(* Proofs about an investigation that is replayed: a worker that claims the *)
(* run again goes on from the checkpoint stored last, and meets a ledger    *)
(* that remembers more than the checkpoint does.  What it pays for is what   *)
(* it paid for, its last call is terminal, and it comes to an end.           *)
(*                                                                         *)
(* The operators take the parts of the state they speak of as arguments:    *)
(* calls, modes and grants of the ledger, the answer, the stored point and  *)
(* the points on their way.                                                *)
(***************************************************************************)
EXTENDS InvestigationProofs

Settled(calls, r) == r \in DOMAIN calls /\ calls[r].result # <<>>

\* What node collect, entered at point c, has made of its first n reads.
Collected(calls, c, reads, n) ==
  /\ IsSeq(reads) /\ Len(reads) = Len(c.reads) + n
  /\ \A i \in DOMAIN c.reads : reads[i] = c.reads[i]
  /\ \A j \in 1..n :
       /\ Settled(calls, Tool(c.step, j))
       /\ reads[Len(c.reads) + j] =
            [query |-> c.decision.batch[j], result |-> calls[Tool(c.step, j)].result[1],
             by |-> Tool(c.step, j)]

\* The decision after point c is made with these values, whenever it is made.
Leads(calls, ans, c, step, reads, asked, answers) ==
  /\ step = c.step /\ asked = c.asked
  /\ \/ c.next \in {"initialize", "decide"} /\ reads = c.reads /\ answers = c.answers
     \/ /\ c.next = "wait" /\ ans.n = Len(c.asked)
        /\ reads = c.reads /\ answers = Append(c.answers, ans)
     \/ /\ c.next = "collect" /\ answers = c.answers
        /\ Collected(calls, c, reads, Len(c.decision.batch))

\* The graph passed point c before point d.
Before(calls, ans, c, d) ==
  /\ c.next # "end" /\ c.step <= d.step /\ Len(c.asked) <= Len(d.asked)
  /\ \/ d.next = "end" \/ c.step < d.step
     \/ /\ c.next # "decide" /\ d.next = "decide"
        /\ Leads(calls, ans, c, d.step, d.reads, d.asked, d.answers)

PointOK(g) ==
  /\ GraphOK(g) /\ IsSeq(g.reads) /\ g.step \in 0..Decisions + 1
  /\ g.next # "end" => g.step <= Decisions
  /\ g.next = "collect" => g.decision.batch \in Batch

Chain(calls, ans, s, u) ==
  /\ PointOK(s) /\ IsSeq(u)
  /\ \A i \in DOMAIN u : PointOK(u[i]) /\ Before(calls, ans, s, u[i])
  /\ \A i, j \in DOMAIN u : i < j => Before(calls, ans, u[i], u[j])

Last(s, u) == IF u = <<>> THEN s ELSE u[Len(u)]

\* The executing graph is where its last checkpoint left it, but for the reads
\* of the batch at hand.
OnTop(calls, w, g, t) ==
  /\ g.next = t.next /\ g.step = t.step /\ g.decision = t.decision
  /\ g.asked = t.asked /\ g.answers = t.answers
  /\ IF g.next = "collect" /\ w.at # "authorize"
     THEN Collected(calls, t, g.reads, w.index - 1) ELSE g.reads = t.reads

\* A correction sees the reply it corrects.
Feedback(calls, step, again) == IF again THEN calls[Ask(step, FALSE)].result ELSE <<>>

ModesFit(modes, calls) ==
  \A r \in DOMAIN modes :
    /\ r[2] \in Nat \ {0} /\ r[3] \in BOOLEAN /\ r = Ask(r[2], r[3]) /\ modes[r] \in BOOLEAN
    /\ r[3] => Settled(calls, Ask(r[2], FALSE))
    /\ ~modes[r] => r[2] <= Decisions

\* What the entry of request r is made of, besides the graph.
RequestFit(calls, modes, grants, r, c) ==
  LET p == c.prompt IN
  /\ r[1] \in {"initial", "model", "tool"}
  /\ c.result # <<>> => c.result = <<c.result[1]>>
  /\ r[1] = "initial" => p = <<r[3]>>
  /\ r[1] = "tool" => p = <<grants[r].query, grants[r]>>
  /\ r[1] = "model" =>
       /\ r \in DOMAIN modes
       /\ p = <<p[1], p[2], p[3], p[4], modes[r], Feedback(calls, r[2], r[3])>>
       /\ c.result # <<>> => c.result[1] \in Replies

RequestsFit(calls, modes, grants) ==
  \A r \in DOMAIN calls : RequestFit(calls, modes, grants, r, calls[r])

\* The decision the worker is busy with.
DecisionFit(w, g, calls, modes) ==
  /\ g.next = "decide" /\ w.terminal \in BOOLEAN
  /\ w.attempt = 0 => w.request = Ask(g.step + 1, FALSE) /\ w.feedback = <<>>
  /\ w.attempt = 1 => /\ w.request = Ask(g.step + 1, TRUE)
                      /\ Settled(calls, Ask(g.step + 1, FALSE))
                      /\ w.feedback = calls[Ask(g.step + 1, FALSE)].result
  /\ IF w.at = "mode" THEN g.step >= Decisions => w.terminal
     ELSE w.request \in DOMAIN modes /\ w.terminal = modes[w.request]

\* Where the worker is inside its node.
NowFit(w, g, calls, modes) ==
  /\ w.at \in AtWork \cup {"down", "failed", "accept", "wait", "end"}
  /\ w.attempt \in {0, 1}
  /\ w.at \in AtWork =>
       /\ w.request[1] = "initial" => g.next = "initialize" /\ w.request \in {Initial(1), Initial(2)}
       /\ w.request[1] = "tool" => g.next = "collect"
       /\ w.request[1] = "model" => DecisionFit(w, g, calls, modes)
  /\ w.at \in {"mode", "judge"} => w.request[1] = "model"
  /\ w.at = "bind" => w.request[1] = "initial"
  /\ w.at = "authorize" => w.index \in 1..Len(g.decision.batch)
  /\ w.at \in {"send", "settle"} => calls[w.request].result = <<>>
  /\ w.at = "settle" => /\ w.result = <<w.result[1]>>
                        /\ w.request[1] = "model" => w.result[1] \in Replies
  /\ w.at \in {"judge", "adapt"} =>
       Settled(calls, w.request) /\ w.result = calls[w.request].result
  /\ w.at \in {"wait", "end"} => g.next = w.at
  /\ w.at \in {"down", "failed"} => w.index = 1 /\ w.request = Initial(1) /\ w.attempt = 0
  /\ w.at = "failed" => g.next = "initialize"

AnswerFit(ans, s, w, g) ==
  /\ ans.n \in Nat /\ ans.n <= Len(s.asked)
  /\ w.at = "wait" => ans.n < Len(g.asked)

\* However the run is replayed, its points, its requests and the place of its
\* worker agree with the ledger.
ReplayInv ==
  /\ Chain(ledger.calls, answer, saved, unsaved)
  /\ work.at # "down" => OnTop(ledger.calls, work, graph, Last(saved, unsaved))
  /\ work.at = "down" => unsaved = <<>>
  /\ ModesFit(ledger.modes, ledger.calls)
  /\ RequestsFit(ledger.calls, ledger.modes, ledger.grants)
  /\ NowFit(work, graph, ledger.calls, ledger.modes)
  /\ AnswerFit(answer, saved, work, graph)
  /\ crashes \in 0..MaxCrashes

\* Results are never taken back.
Grows(calls, calls2) ==
  \A r : Settled(calls, r) => Settled(calls2, r) /\ calls2[r].result = calls[r].result

-----------------------------------------------------------------------------
\* Points and what leads to them.
LEMMA CollectedGrows ==
  ASSUME NEW calls, NEW calls2, Grows(calls, calls2), NEW c, NEW reads, NEW n,
         Collected(calls, c, reads, n)
  PROVE  Collected(calls2, c, reads, n)
<1>1. \A j \in 1..n : /\ Settled(calls2, Tool(c.step, j))
                      /\ calls2[Tool(c.step, j)].result = calls[Tool(c.step, j)].result
  BY DEF Collected, Grows
<1> QED
  BY <1>1 DEF Collected

LEMMA BeforeGrows ==
  ASSUME NEW calls, NEW calls2, Grows(calls, calls2), NEW ans, NEW c, NEW d,
         Before(calls, ans, c, d)
  PROVE  Before(calls2, ans, c, d)
BY CollectedGrows DEF Before, Leads

LEMMA ChainGrows ==
  ASSUME NEW calls, NEW calls2, Grows(calls, calls2), NEW ans, NEW s, NEW u,
         Chain(calls, ans, s, u)
  PROVE  Chain(calls2, ans, s, u)
BY BeforeGrows DEF Chain

\* Sequences with the same elements.
LEMMA SameElements ==
  ASSUME NEW a, NEW b, IsSeq(a), IsSeq(b), Len(a) = Len(b), \A i \in 1..Len(a) : a[i] = b[i]
  PROVE  a = b
<1> DEFINE S == {a[i] : i \in DOMAIN a}
           T == {b[i] : i \in DOMAIN b}
           U == S \cup T
<1>1. a \in Seq(S) /\ b \in Seq(T)
  BY DEF IsSeq
<1>2. S \subseteq U /\ T \subseteq U
  OBVIOUS
<1> HIDE DEF S, T, U
<1>3. a \in Seq(U) /\ b \in Seq(U)
  BY <1>1, <1>2, SeqMonotonic
<1> QED
  BY <1>3, SeqEqual

LEMMA SeqFacts ==
  ASSUME NEW s, IsSeq(s)
  PROVE  Len(s) \in Nat /\ DOMAIN s = 1..Len(s) /\ (s # <<>> => Len(s) > 0)
<1> DEFINE S == {s[i] : i \in DOMAIN s}
<1>1. s \in Seq(S)
  BY DEF IsSeq
<1> HIDE DEF S
<1> QED
  BY <1>1, LenProperties, EmptySeq

\* The reads of a batch are what the ledger says, so collecting again gives the
\* same.
LEMMA CollectedOnce ==
  ASSUME NEW calls, NEW c, IsSeq(c.reads), NEW n \in Nat, NEW a, NEW b,
         Collected(calls, c, a, n), Collected(calls, c, b, n)
  PROVE  a = b
<1>1. /\ IsSeq(a) /\ IsSeq(b) /\ Len(a) = Len(c.reads) + n /\ Len(b) = Len(c.reads) + n
      /\ Len(c.reads) \in Nat /\ DOMAIN c.reads = 1..Len(c.reads)
  BY SeqFacts DEF Collected
<1>2. ASSUME NEW i \in 1..Len(a) PROVE a[i] = b[i]
  <2>1. CASE i \in DOMAIN c.reads
    BY <2>1 DEF Collected
  <2>2. CASE i \notin DOMAIN c.reads
    <3> DEFINE j == i - Len(c.reads)
    <3>1. j \in 1..n /\ i = Len(c.reads) + j
      BY <1>1, <2>2
    <3> HIDE DEF j
    <3> QED
      BY <3>1 DEF Collected
  <2> QED
    BY <2>1, <2>2
<1> QED
  BY <1>1, <1>2, SameElements

\* So does deciding again.
LEMMA LeadsOnce ==
  ASSUME NEW calls, NEW ans, NEW c, PointOK(c),
         NEW a1, NEW a2, NEW a3, NEW a4, NEW b1, NEW b2, NEW b3, NEW b4,
         Leads(calls, ans, c, a1, a2, a3, a4), Leads(calls, ans, c, b1, b2, b3, b4)
  PROVE  a1 = b1 /\ a2 = b2 /\ a3 = b3 /\ a4 = b4
<1>1. CASE c.next = "collect"
  <2>1. Len(c.decision.batch) \in Nat
    BY <1>1, InvestigationAssumption, LenProperties DEF PointOK, InvestigationAssumption
  <2> QED
    BY <1>1, <2>1, CollectedOnce DEF Leads, PointOK
<1>2. CASE c.next # "collect"
  BY <1>2 DEF Leads
<1> QED
  BY <1>1, <1>2

\* A batch read to the end of its n-th request, and one further.
LEMMA CollectedNext ==
  ASSUME NEW calls, NEW c, IsSeq(c.reads), NEW n \in Nat, NEW reads,
         Collected(calls, c, reads, n), Settled(calls, Tool(c.step, n + 1)), NEW x
  PROVE  x = [query |-> c.decision.batch[n + 1], result |-> calls[Tool(c.step, n + 1)].result[1],
              by |-> Tool(c.step, n + 1)]
         => Collected(calls, c, Append(reads, x), n + 1)
<1> DEFINE k == Len(c.reads)
           m == Len(reads)
           all == Append(reads, x)
           row(j) == [query |-> c.decision.batch[j], result |-> calls[Tool(c.step, j)].result[1],
                      by |-> Tool(c.step, j)]
<1>1. /\ IsSeq(reads) /\ m = k + n /\ k \in Nat /\ DOMAIN c.reads = 1..k
  BY SeqFacts DEF Collected
<1>2. /\ IsSeq(all) /\ DOMAIN reads = 1..m /\ Len(all) = m + 1 /\ all[m + 1] = x
      /\ \A i \in DOMAIN reads : all[i] = reads[i]
  BY <1>1, AppendIsSeq
<1>4. /\ \A i \in DOMAIN c.reads : reads[i] = c.reads[i]
      /\ \A j \in 1..n : Settled(calls, Tool(c.step, j)) /\ reads[k + j] = row(j)
  BY ZenonT(30) DEF Collected
<1>3. SUFFICES ASSUME x = row(n + 1)
               PROVE  Collected(calls, c, all, n + 1)
  OBVIOUS
<1> HIDE DEF k, m, all, row
<1>5. Len(all) = k + (n + 1)
  BY <1>1, <1>2
<1>6. ASSUME NEW i \in DOMAIN c.reads PROVE all[i] = c.reads[i]
  BY <1>1, <1>2, <1>4
<1>7. ASSUME NEW j \in 1..n + 1
      PROVE  Settled(calls, Tool(c.step, j)) /\ all[k + j] = row(j)
  <2>1. CASE j = n + 1
    <3>1. k + j = m + 1
      BY <1>1, <2>1
    <3> QED
      BY <1>2, <1>3, <2>1, <3>1
  <2>2. CASE j # n + 1
    <3>1. j \in 1..n /\ k + j \in 1..m
      BY <1>1, <2>2
    <3> QED
      BY <1>2, <1>4, <3>1
  <2> QED
    BY <2>1, <2>2
<1> QED
  BY <1>2, <1>5, <1>6, <1>7 DEF Collected, k, all, row

LEMMA PointFacts ==
  ASSUME NEW g, PointOK(g)
  PROVE  /\ g.step \in Nat /\ Len(g.asked) \in Nat /\ Len(g.reads) \in Nat
         /\ g.next = "collect" => /\ Len(g.decision.batch) \in Nat /\ Len(g.decision.batch) > 0
                                  /\ IsSeq(g.reads)
<1>1. Decisions \in Nat
  BY InvestigationAssumption DEF InvestigationAssumption
<1>2. g.step \in 0..Decisions + 1 /\ IsSeq(g.asked) /\ IsSeq(g.reads)
  BY DEF PointOK, GraphOK
<1>3. ASSUME NEW n, n \in 0..Decisions + 1 PROVE n \in Nat
  BY <1>1, <1>3
<1>4. ASSUME g.next = "collect" PROVE Len(g.decision.batch) \in Nat /\ Len(g.decision.batch) > 0
  BY <1>4, InvestigationAssumption, LenProperties DEF PointOK, InvestigationAssumption
<1> QED
  BY <1>2, <1>3, <1>4, SeqFacts

\* The last point, and how the others stand to it.
LEMMA LastFacts ==
  ASSUME NEW calls, NEW ans, NEW s, NEW u, Chain(calls, ans, s, u)
  PROVE  /\ PointOK(Last(s, u)) /\ PointOK(s)
         /\ s = Last(s, u) \/ Before(calls, ans, s, Last(s, u))
         /\ \A i \in DOMAIN u : u[i] = Last(s, u) \/ Before(calls, ans, u[i], Last(s, u))
         /\ u = <<>> \/ \E i \in DOMAIN u : u[i] = Last(s, u)
         /\ u = <<>> => s = Last(s, u)
<1>1. CASE u = <<>>
  BY <1>1 DEF Last, Chain
<1>2. CASE u # <<>>
  <2> DEFINE n == Len(u)
  <2>1. n \in DOMAIN u /\ \A i \in DOMAIN u : i = n \/ i < n
    BY <1>2, SeqFacts DEF Chain
  <2>2. Last(s, u) = u[n]
    BY <1>2 DEF Last
  <2> HIDE DEF n
  <2> QED
    BY <1>2, <2>1, <2>2 DEF Chain
<1> QED
  BY <1>1, <1>2

\* A new point, reached from the last one.
LEMMA ChainAppend ==
  ASSUME NEW calls, NEW ans, NEW s, NEW u, Chain(calls, ans, s, u), NEW g, PointOK(g),
         Before(calls, ans, Last(s, u), g)
  PROVE  /\ Chain(calls, ans, s, Append(u, g)) /\ Last(s, Append(u, g)) = g
         /\ Append(u, g) # <<>>
         /\ \A i \in DOMAIN Append(u, g) :
              Append(u, g)[i] = g \/ (i \in DOMAIN u /\ Append(u, g)[i] = u[i])
         /\ \A i \in DOMAIN u : i \in DOMAIN Append(u, g) /\ Append(u, g)[i] = u[i]
         /\ \E i \in DOMAIN Append(u, g) : Append(u, g)[i] = g
<1> DEFINE v == Append(u, g)
           t == Last(s, u)
<1>1. /\ IsSeq(v) /\ Len(u) \in Nat /\ DOMAIN u = 1..Len(u)
      /\ Len(v) = Len(u) + 1 /\ DOMAIN v = 1..Len(u) + 1 /\ v[Len(u) + 1] = g
      /\ \A i \in DOMAIN u : v[i] = u[i]
  BY AppendIsSeq DEF Chain
<1> HIDE DEF v
<1>2. \A i \in DOMAIN v : (v[i] = g /\ i = Len(u) + 1) \/ (i \in DOMAIN u /\ v[i] = u[i])
  BY <1>1
<1>3. v # <<>> /\ Last(s, v) = g
  BY <1>1, SeqFacts DEF Last
<1>4. ASSUME NEW c, PointOK(c), Before(calls, ans, c, t), PointOK(t)
      PROVE  Before(calls, ans, c, g)
  <2>1. /\ c.step \in Nat /\ t.step \in Nat /\ g.step \in Nat
        /\ Len(c.asked) \in Nat /\ Len(t.asked) \in Nat /\ Len(g.asked) \in Nat
    BY <1>4, PointFacts
  <2>2. c.next # "end" /\ t.next # "end"
    BY <1>4 DEF Before
  <2> HIDE DEF t
  <2>3. c.step <= g.step /\ Len(c.asked) <= Len(g.asked) /\ (g.next = "end" \/ c.step < g.step)
    <3>1. c.step <= t.step /\ t.step <= g.step /\ Len(c.asked) <= Len(t.asked) /\ Len(t.asked) <= Len(g.asked)
      BY <1>4 DEF Before, t
    <3>2. CASE c.step < t.step
      BY <2>1, <3>1, <3>2
    <3>3. CASE t.next = "decide"
      <4>1. g.next = "end" \/ t.step < g.step
        BY <3>3 DEF Before, t
      <4> QED
        BY <2>1, <3>1, <4>1
    <3> QED
      BY <1>4, <2>1, <2>2, <3>1, <3>2, <3>3 DEF Before
  <2> QED
    BY <2>2, <2>3 DEF Before
<1>5. /\ PointOK(t) /\ (s = t \/ Before(calls, ans, s, t))
      /\ \A i \in DOMAIN u : u[i] = t \/ Before(calls, ans, u[i], t)
  BY LastFacts
<1>6. Before(calls, ans, s, g) /\ \A i \in DOMAIN u : Before(calls, ans, u[i], g)
  <2> HIDE DEF t
  <2>1. Before(calls, ans, t, g)
    BY DEF t
  <2> QED
    BY <1>4, <1>5, <2>1 DEF Chain
<1>7. Chain(calls, ans, s, v)
  <2>1. \A i \in DOMAIN v : PointOK(v[i]) /\ Before(calls, ans, s, v[i])
    BY <1>2, <1>6 DEF Chain
  <2>2. ASSUME NEW i \in DOMAIN v, NEW j \in DOMAIN v, i < j
        PROVE  Before(calls, ans, v[i], v[j])
    <3>1. i \in DOMAIN u /\ v[i] = u[i]
      BY <1>1, <2>2
    <3> QED
      BY <1>2, <1>6, <2>2, <3>1 DEF Chain
  <2> QED
    BY <1>1, <2>1, <2>2 DEF Chain
<1>8. \E i \in DOMAIN v : v[i] = g
  BY <1>1
<1> QED
  BY <1>1, <1>2, <1>3, <1>7, <1>8 DEF v

\* The point that is stored leaves the chain at its head.
LEMMA ChainHead ==
  ASSUME NEW calls, NEW ans, NEW s, NEW u, Chain(calls, ans, s, u), u # <<>>
  PROVE  /\ Chain(calls, ans, Head(u), Tail(u)) /\ Last(Head(u), Tail(u)) = Last(s, u)
         /\ 1 \in DOMAIN u /\ Head(u) = u[1] /\ Before(calls, ans, s, Head(u)) /\ PointOK(Head(u))
         /\ Len(Tail(u)) = Len(u) - 1 /\ Len(u) \in Nat
         /\ \A i \in DOMAIN u : i = 1 \/ (i - 1 \in DOMAIN Tail(u) /\ Tail(u)[i - 1] = u[i])
         /\ \A i \in DOMAIN Tail(u) : i + 1 \in DOMAIN u /\ Tail(u)[i] = u[i + 1]
<1> DEFINE v == Tail(u)
<1>1. /\ 1 \in DOMAIN u /\ Head(u) = u[1] /\ IsSeq(v)
      /\ \A i \in DOMAIN v : i + 1 \in DOMAIN u /\ v[i] = u[i + 1]
  BY TailIsSeq DEF Chain
<1>2. /\ Len(u) \in Nat /\ DOMAIN u = 1..Len(u) /\ Len(u) > 0 /\ Len(v) = Len(u) - 1
      /\ Len(v) \in Nat /\ DOMAIN v = 1..Len(v) /\ (v # <<>> => Len(v) > 0)
  <2> DEFINE S == {u[i] : i \in DOMAIN u}
  <2>1. u \in Seq(S)
    BY DEF Chain, IsSeq
  <2> HIDE DEF S
  <2>2. Len(v) = Len(u) - 1
    BY <2>1, HeadTailProperties
  <2> QED
    BY <1>1, <2>2, SeqFacts DEF Chain
<1> HIDE DEF v
<1>3. \A i \in DOMAIN u : i = 1 \/ (i - 1 \in DOMAIN v /\ v[i - 1] = u[i])
  BY <1>1, <1>2
<1>4. Chain(calls, ans, u[1], v)
  <2>1. \A i \in DOMAIN v : PointOK(v[i]) /\ Before(calls, ans, u[1], v[i])
    <3> SUFFICES ASSUME NEW i \in DOMAIN v PROVE PointOK(v[i]) /\ Before(calls, ans, u[1], v[i])
      OBVIOUS
    <3>1. i + 1 \in DOMAIN u /\ 1 < i + 1
      BY <1>1, <1>2
    <3> QED
      BY <1>1, <3>1 DEF Chain
  <2>2. ASSUME NEW i \in DOMAIN v, NEW j \in DOMAIN v, i < j
        PROVE  Before(calls, ans, v[i], v[j])
    <3>1. i + 1 < j + 1
      BY <1>2, <2>2
    <3> QED
      BY <1>1, <3>1 DEF Chain
  <2> QED
    BY <1>1, <2>1, <2>2 DEF Chain
<1>5. Last(u[1], v) = Last(s, u)
  <2>1. CASE v = <<>>
    <3>0. Len(v) = 0
      BY <2>1
    <3>1. Len(u) = 1
      <4>1. Len(u) \in Nat /\ Len(v) = Len(u) - 1
        BY <1>2
      <4> QED
        BY <3>0, <4>1
    <3> QED
      BY <2>1, <3>1 DEF Last
  <2>2. CASE v # <<>>
    <3>1. Len(v) \in DOMAIN v /\ Len(v) + 1 = Len(u)
      BY <1>2, <2>2
    <3> QED
      BY <1>1, <2>2, <3>1 DEF Last
  <2> QED
    BY <2>1, <2>2
<1>6. Before(calls, ans, s, u[1]) /\ PointOK(u[1])
  BY <1>1 DEF Chain
<1> QED
  BY <1>1, <1>2, <1>3, <1>4, <1>5, <1>6 DEF v

\* Nothing on its way: any answer will do.
LEMMA ChainReset ==
  ASSUME NEW s, PointOK(s), NEW calls, NEW ans
  PROVE  Chain(calls, ans, s, <<>>) /\ Last(s, <<>>) = s
BY EmptyIsSeq DEF Chain, Last
-----------------------------------------------------------------------------
\* A node is entered.
LEMMA EnterFacts ==
  ASSUME NEW g, GraphOK(g)
  PROVE  /\ DOMAIN Enter(g) = {"at", "request", "attempt", "terminal", "feedback", "index", "result"}
         /\ Enter(g).attempt = 0 /\ Enter(g).index = 1 /\ Enter(g).feedback = <<>>
         /\ Enter(g).terminal = (g.step >= Decisions)
         /\ \/ g.next = "initialize" /\ Enter(g).at = "reserve" /\ Enter(g).request = Initial(1)
            \/ g.next = "decide" /\ Enter(g).at = "mode" /\ Enter(g).request = Ask(g.step + 1, FALSE)
            \/ g.next = "collect" /\ Enter(g).at = "authorize" /\ Enter(g).request = Tool(g.step, 1)
            \/ g.next = "wait" /\ Enter(g).at = "wait" /\ Enter(g).request = Tool(g.step, 1)
            \/ g.next = "end" /\ Enter(g).at = "end" /\ Enter(g).request = Tool(g.step, 1)
<1> DEFINE at == CASE g.next = "initialize" -> "reserve"
                   [] g.next = "decide"     -> "mode"
                   [] g.next = "collect"    -> "authorize"
                   [] OTHER                 -> g.next
           terminal == g.step >= Decisions
           request == CASE g.next = "initialize" -> Initial(1)
                        [] g.next = "decide"     -> Ask(g.step + 1, FALSE)
                        [] OTHER                 -> Tool(g.step, 1)
           e == Enter(g)
<1>1. e = [Away EXCEPT !.at = at, !.terminal = terminal, !.request = request]
  BY DEF Enter
<1>2. /\ DOMAIN Away = {"at", "request", "attempt", "terminal", "feedback", "index", "result"}
      /\ Away.index = 1 /\ Away.attempt = 0 /\ Away.feedback = <<>>
  BY DEF Away
<1> HIDE DEF at, terminal, request, e
<1>3. /\ DOMAIN e = DOMAIN Away /\ e.at = at /\ e.request = request /\ e.index = 1
      /\ e.attempt = 0 /\ e.feedback = <<>> /\ e.terminal = terminal
  BY <1>1, <1>2
<1>4. /\ g.next = "initialize" => at = "reserve" /\ request = Initial(1)
      /\ g.next = "decide" => at = "mode" /\ request = Ask(g.step + 1, FALSE)
      /\ g.next = "collect" => at = "authorize" /\ request = Tool(g.step, 1)
      /\ g.next = "wait" => at = "wait" /\ request = Tool(g.step, 1)
      /\ g.next = "end" => at = "end" /\ request = Tool(g.step, 1)
  BY DEF at, request
<1>5. g.next \in {"initialize", "decide", "collect", "wait", "end"}
  BY DEF GraphOK
<1> QED
  BY <1>2, <1>3, <1>4, <1>5, Zenon DEF e, terminal

LEMMA RequestFacts ==
  ASSUME NEW t, NEW i
  PROVE  /\ Initial(i)[1] = "initial" /\ Ask(t, i)[1] = "model" /\ Tool(t, i)[1] = "tool"
         /\ Ask(t, i)[2] = t /\ Ask(t, i)[3] = i
BY DEF Initial, Ask, Tool

LEMMA EnterFits ==
  ASSUME NEW g, PointOK(g), NEW calls, NEW modes
  PROVE  NowFit(Enter(g), g, calls, modes)
<1> DEFINE w == Enter(g)
<1>1. /\ w.attempt = 0 /\ w.index = 1 /\ w.feedback = <<>> /\ w.terminal = (g.step >= Decisions)
      /\ \/ g.next = "initialize" /\ w.at = "reserve" /\ w.request = Initial(1)
         \/ g.next = "decide" /\ w.at = "mode" /\ w.request = Ask(g.step + 1, FALSE)
         \/ g.next = "collect" /\ w.at = "authorize" /\ w.request = Tool(g.step, 1)
         \/ g.next = "wait" /\ w.at = "wait" /\ w.request = Tool(g.step, 1)
         \/ g.next = "end" /\ w.at = "end" /\ w.request = Tool(g.step, 1)
  BY EnterFacts DEF PointOK
<1> HIDE DEF w
<1>2. \A i, t : Initial(i)[1] = "initial" /\ Ask(t, i)[1] = "model" /\ Tool(t, i)[1] = "tool"
  BY RequestFacts
<1>3. g.next = "decide" => DecisionFit(w, g, calls, modes)
  <2> SUFFICES ASSUME g.next = "decide" PROVE DecisionFit(w, g, calls, modes)
    OBVIOUS
  <2>1. w.at = "mode" /\ w.request = Ask(g.step + 1, FALSE) /\ w.attempt = 0 /\ w.feedback = <<>>
    BY <1>1
  <2>2. w.terminal \in BOOLEAN /\ (g.step >= Decisions => w.terminal)
    <3>1. (g.step >= Decisions) \in BOOLEAN
      OBVIOUS
    <3> QED
      BY <1>1, <3>1, Zenon
  <2> QED
    BY <2>1, <2>2 DEF DecisionFit
<1>4. g.next = "collect" => w.index \in 1..Len(g.decision.batch)
  BY <1>1, PointFacts
<1> QED
  BY <1>1, <1>2, <1>3, <1>4 DEF NowFit, AtWork, w

\* A node is finished.
LEMMA AdvanceReplay ==
  ASSUME ReplayInv, work.at # "down", NEW g, Advance(g), PointOK(g),
         Before(ledger.calls, answer, Last(saved, unsaved), g),
         g.next = "wait" => answer.n < Len(g.asked),
         ledger'.calls = ledger.calls, ledger'.modes = ledger.modes, ledger'.grants = ledger.grants
  PROVE  ReplayInv'
<1>1. /\ graph' = g /\ unsaved' = Append(unsaved, g) /\ work' = Enter(g)
      /\ saved' = saved /\ answer' = answer /\ crashes' = crashes
  BY DEF Advance
<1>2. /\ Chain(ledger.calls, answer, saved, Append(unsaved, g))
      /\ Last(saved, Append(unsaved, g)) = g
  BY ChainAppend DEF ReplayInv
<1>3. NowFit(work', graph', ledger'.calls, ledger'.modes)
  BY <1>1, EnterFits
<1>4. work'.at # "down" /\ (work'.at = "wait" => g.next = "wait")
      /\ (g.next = "collect" => work'.at = "authorize")
  BY <1>1, EnterFacts DEF PointOK
<1>5. OnTop(ledger'.calls, work', graph', Last(saved', unsaved'))
  BY <1>1, <1>2, <1>4 DEF OnTop
<1>6. AnswerFit(answer', saved', work', graph')
  BY <1>1, <1>4 DEF AnswerFit, ReplayInv
<1> QED
  BY <1>1, <1>2, <1>3, <1>4, <1>5, <1>6 DEF ReplayInv

\* A step inside a node.
LEMMA InsideReplay ==
  ASSUME ReplayInv, work.at # "down", Grows(ledger.calls, ledger'.calls), NEW w, Within(w),
         w.at \notin {"down", "wait"},
         OnTop(ledger'.calls, w, graph, Last(saved, unsaved)),
         ModesFit(ledger'.modes, ledger'.calls),
         RequestsFit(ledger'.calls, ledger'.modes, ledger'.grants),
         NowFit(w, graph, ledger'.calls, ledger'.modes)
  PROVE  ReplayInv'
<1>1. work' = w /\ UNCHANGED <<graph, saved, unsaved, answer, crashes>>
  BY DEF Within
<1>2. Chain(ledger'.calls, answer, saved, unsaved)
  BY ChainGrows DEF ReplayInv
<1>3. AnswerFit(answer', saved', work', graph')
  BY <1>1 DEF AnswerFit, ReplayInv
<1> QED
  BY <1>1, <1>2, <1>3 DEF ReplayInv

LEMMA OnTopGrows ==
  ASSUME NEW calls, NEW calls2, Grows(calls, calls2), NEW w, NEW v, NEW g, NEW t,
         OnTop(calls, w, g, t), v.index = w.index, v.at = "authorize" <=> w.at = "authorize"
  PROVE  OnTop(calls2, v, g, t)
BY CollectedGrows DEF OnTop

LEMMA ModesGrow ==
  ASSUME NEW calls, NEW calls2, Grows(calls, calls2), NEW modes, ModesFit(modes, calls)
  PROVE  ModesFit(modes, calls2)
BY DEF ModesFit, Grows

LEMMA SameGrows ==
  ASSUME NEW calls
  PROVE  Grows(calls, calls)
BY DEF Grows

\* Away from the graph nothing is prepared.
LEMMA AwayFits ==
  ASSUME NEW w, NEW at \in {"down", "failed"},
         w = [Away EXCEPT !.at = at] \/ (w = Away /\ at = "down"), NEW g,
         at = "failed" => g.next = "initialize", NEW calls, NEW modes
  PROVE  NowFit(w, g, calls, modes) /\ w.at = at /\ w.index = 1
<1>1. w.at = at /\ w.index = 1 /\ w.attempt = 0 /\ w.request = Initial(1)
  BY DEF Away
<1> QED
  BY <1>1 DEF NowFit, AtWork

LEMMA StartFacts ==
  /\ Start.next = "initialize" /\ Start.step = 0 /\ Start.reads = <<>> /\ Start.asked = <<>>
  /\ Start.output = None /\ PointOK(Start) /\ Len(Start.asked) = 0
<1>1. /\ DOMAIN Start = {"next", "step", "decision", "reads", "asked", "answers", "output"}
      /\ Start.next = "initialize" /\ Start.step = 0 /\ Start.reads = <<>>
      /\ Start.asked = <<>> /\ Start.answers = <<>> /\ Start.output = None
  BY DEF Start
<1>2. GraphOK(Start)
  BY <1>1, EmptyIsSeq DEF GraphOK
<1>3. Decisions \in Nat
  BY InvestigationAssumption DEF InvestigationAssumption
<1>4. 0 \in 0..Decisions + 1 /\ 0 <= Decisions
  BY <1>3
<1> QED
  BY <1>1, <1>2, <1>4, EmptyIsSeq DEF PointOK

LEMMA InitReplay == Init => ReplayInv
<1> SUFFICES ASSUME Init PROVE ReplayInv
  OBVIOUS
<1>1. /\ ledger.calls = <<>> /\ ledger.modes = <<>> /\ graph = Start /\ saved = Start
      /\ unsaved = <<>> /\ work = Away /\ answer = Nobody /\ crashes = 0
  BY DEF Init
<1>2. NowFit(work, graph, ledger.calls, ledger.modes) /\ work.at = "down"
  BY <1>1, AwayFits
<1>3. ModesFit(ledger.modes, ledger.calls) /\ RequestsFit(ledger.calls, ledger.modes, ledger.grants)
  <2>1. DOMAIN ledger.calls = {} /\ DOMAIN ledger.modes = {}
    BY <1>1
  <2> QED
    BY <2>1 DEF ModesFit, RequestsFit
<1>4. AnswerFit(answer, saved, work, graph)
  BY <1>1, <1>2, StartFacts DEF AnswerFit, Nobody
<1>5. crashes \in 0..MaxCrashes
  BY <1>1, InvestigationAssumption DEF InvestigationAssumption
<1> QED
  BY <1>1, <1>2, <1>3, <1>4, <1>5, StartFacts, ChainReset DEF ReplayInv

LEMMA ClaimReplay ==
  ASSUME ReplayInv, Claim
  PROVE  ReplayInv'
<1>1. /\ work.at = "down" /\ unsaved = <<>> /\ graph' = saved
      /\ UNCHANGED <<ledger, saved, unsaved, answer, crashes>>
  BY DEF Claim, ReplayInv
<1>2. PointOK(saved) /\ Last(saved, unsaved) = saved
  BY <1>1, LastFacts DEF ReplayInv
<1> DEFINE e == Enter(saved)
<1>3. /\ NowFit(e, saved, ledger.calls, ledger.modes)
      /\ saved.next = "collect" => e.at = "authorize"
      /\ saved.next # "wait" => e.at # "wait"
      /\ e.at # "down"
      /\ DOMAIN e = {"at", "request", "attempt", "terminal", "feedback", "index", "result"}
      /\ e.attempt = 0 /\ e.index = 1
  BY <1>2, EnterFits, EnterFacts DEF PointOK
<1> HIDE DEF e
<1>4. NowFit(work', graph', ledger'.calls, ledger'.modes) /\ work'.at # "down"
      /\ (saved.next = "collect" => work'.at = "authorize")
      /\ (work'.at = "wait" => saved.next = "wait" /\ answer.n # Len(saved.asked))
  <2>1. CASE saved.next = "wait" /\ answer.n = Len(saved.asked)
    <3>1. work' = [e EXCEPT !.at = "accept"]
      BY <2>1 DEF Claim, e
    <3>2. work'.at = "accept" /\ work'.attempt = 0 /\ work'.index = 1
      BY <1>3, <3>1
    <3> QED
      BY <2>1, <3>2 DEF NowFit, AtWork
  <2>2. CASE ~(saved.next = "wait" /\ answer.n = Len(saved.asked))
    <3>1. work' = e
      BY <2>2 DEF Claim, e
    <3> QED
      BY <1>1, <1>3, <2>2, <3>1
  <2> QED
    BY <2>1, <2>2
<1>5. OnTop(ledger'.calls, work', graph', saved)
  BY <1>1, <1>4 DEF OnTop
<1>6. AnswerFit(answer', saved', work', graph')
  <2>1. answer.n \in Nat /\ answer.n <= Len(saved.asked) /\ Len(saved.asked) \in Nat
    BY <1>2, PointFacts DEF ReplayInv, AnswerFit
  <2>2. answer.n # Len(saved.asked) => answer.n < Len(saved.asked)
    BY <2>1
  <2> QED
    BY <1>1, <1>4, <2>1, <2>2 DEF AnswerFit
<1> QED
  BY <1>1, <1>2, <1>4, <1>5, <1>6 DEF ReplayInv

LEMMA CrashReplay ==
  ASSUME ReplayInv, Crash
  PROVE  ReplayInv'
<1>1. /\ work' = Away /\ unsaved' = <<>> /\ crashes' = crashes + 1 /\ crashes < MaxCrashes
      /\ UNCHANGED <<ledger, graph, saved, answer>>
  BY DEF Crash
<1>2. NowFit(work', graph', ledger'.calls, ledger'.modes) /\ work'.at = "down"
  BY <1>1, AwayFits
<1>3. Chain(ledger'.calls, answer', saved', unsaved')
  BY <1>1, LastFacts, ChainReset DEF ReplayInv
<1>4. AnswerFit(answer', saved', work', graph')
  BY <1>1, <1>2 DEF AnswerFit, ReplayInv
<1>5. crashes' \in 0..MaxCrashes
  BY <1>1, InvestigationAssumption DEF ReplayInv, InvestigationAssumption
<1> QED
  BY <1>1, <1>2, <1>3, <1>4, <1>5 DEF ReplayInv

LEMMA SaveReplay ==
  ASSUME ReplayInv, SaveCheckpoint
  PROVE  ReplayInv'
<1>1. /\ unsaved # <<>> /\ saved' = Head(unsaved) /\ unsaved' = Tail(unsaved)
      /\ UNCHANGED <<ledger, graph, work, answer, crashes>>
  BY DEF SaveCheckpoint
<1>2. /\ Chain(ledger.calls, answer, saved', unsaved')
      /\ Last(saved', unsaved') = Last(saved, unsaved)
      /\ Before(ledger.calls, answer, saved, saved') /\ PointOK(saved') /\ PointOK(saved)
  BY <1>1, ChainHead, LastFacts DEF ReplayInv
<1>3. work.at # "down"
  BY <1>1 DEF ReplayInv
<1>4. AnswerFit(answer', saved', work', graph')
  <2>1. /\ answer.n \in Nat /\ answer.n <= Len(saved.asked) /\ Len(saved.asked) \in Nat
        /\ Len(saved'.asked) \in Nat /\ Len(saved.asked) <= Len(saved'.asked)
    BY <1>2, PointFacts DEF ReplayInv, AnswerFit, Before
  <2>2. answer.n <= Len(saved'.asked)
    BY <2>1
  <2> QED
    BY <1>1, <2>1, <2>2 DEF ReplayInv, AnswerFit
<1> QED
  BY <1>1, <1>2, <1>3, <1>4 DEF ReplayInv

LEMMA AnswerReplay ==
  ASSUME ReplayInv, Answer
  PROVE  ReplayInv'
<1>1. /\ work.at = "wait" /\ unsaved = <<>> /\ answer'.n = Len(graph.asked) /\ work' = Away
      /\ UNCHANGED <<ledger, graph, saved, unsaved, crashes>>
  BY DEF Answer
<1>2. NowFit(work', graph', ledger'.calls, ledger'.modes) /\ work'.at = "down"
  BY <1>1, AwayFits
<1>3. PointOK(saved) /\ graph.asked = saved.asked
  BY <1>1, LastFacts DEF ReplayInv, OnTop
<1>4. Chain(ledger'.calls, answer', saved', unsaved')
  BY <1>1, <1>3, ChainReset
<1>5. AnswerFit(answer', saved', work', graph')
  BY <1>1, <1>2, <1>3, PointFacts DEF AnswerFit
<1> QED
  BY <1>1, <1>2, <1>4, <1>5 DEF ReplayInv

-----------------------------------------------------------------------------
\* What a growing ledger leaves alone.
LEMMA RequestGrows ==
  ASSUME NEW calls, NEW calls2, Grows(calls, calls2), NEW modes, ModesFit(modes, calls),
         NEW grants, NEW r, NEW c, RequestFit(calls, modes, grants, r, c)
  PROVE  RequestFit(calls2, modes, grants, r, c)
<1>1. ASSUME r[1] = "model" PROVE Feedback(calls2, r[2], r[3]) = Feedback(calls, r[2], r[3])
  <2>1. r[3] => Settled(calls, Ask(r[2], FALSE))
    BY <1>1 DEF RequestFit, ModesFit
  <2> QED
    BY <2>1 DEF Feedback, Grows
<1> QED
  BY <1>1 DEF RequestFit

LEMMA DecisionGrows ==
  ASSUME NEW calls, NEW calls2, Grows(calls, calls2), NEW modes, NEW g, NEW w,
         DecisionFit(w, g, calls, modes), w.at # "mode", NEW v, v.at # "mode",
         v.request = w.request, v.attempt = w.attempt, v.terminal = w.terminal,
         v.feedback = w.feedback
  PROVE  DecisionFit(v, g, calls2, modes)
BY DEF DecisionFit, Grows

\* The values the worker carries are those of a point.
LEMMA GraphPoint ==
  ASSUME InvestigationInv, ReplayInv, work.at # "down"
  PROVE  /\ PointOK(graph) /\ PointOK(Last(saved, unsaved))
         /\ OnTop(ledger.calls, work, graph, Last(saved, unsaved))
         /\ answer.n \in Nat /\ answer.n <= Len(graph.asked)
<1> DEFINE t == Last(saved, unsaved)
<1>1. /\ PointOK(t) /\ OnTop(ledger.calls, work, graph, t) /\ PointOK(saved)
      /\ saved = t \/ Before(ledger.calls, answer, saved, t)
  BY LastFacts DEF ReplayInv
<1> HIDE DEF t
<1>2. GraphOK(graph) /\ IsSeq(graph.reads)
  BY <1>1 DEF InvestigationInv, GraphsOK, OnTop, Collected, PointOK
<1>3. PointOK(graph)
  BY <1>1, <1>2 DEF PointOK, OnTop
<1>4. answer.n \in Nat /\ answer.n <= Len(graph.asked)
  <2>1. /\ answer.n \in Nat /\ answer.n <= Len(saved.asked) /\ Len(saved.asked) <= Len(t.asked)
        /\ Len(saved.asked) \in Nat /\ Len(t.asked) \in Nat /\ graph.asked = t.asked
    BY <1>1, PointFacts DEF ReplayInv, AnswerFit, Before, OnTop
  <2> QED
    BY <2>1
<1> QED
  BY <1>1, <1>3, <1>4 DEF t

LEMMA HandoffReplay ==
  ASSUME InvestigationInv, InvestigationInv', ReplayInv, work.at \in AtWork, NEW code, Handoff(code),
         ledger'.calls = ledger.calls, ledger'.modes = ledger.modes, ledger'.grants = ledger.grants
  PROVE  ReplayInv'
<1> DEFINE g == [graph EXCEPT !.next = "end", !.output = code]
           t == Last(saved, unsaved)
<1>1. /\ work.at # "down" /\ graph.next # "end" /\ Advance(g)
  BY DEF AtWork, InvestigationInv, WorkOK, Handoff
<1>2. PointOK(graph) /\ PointOK(t) /\ OnTop(ledger.calls, work, graph, t)
  BY <1>1, GraphPoint
<1>3. g.next = "end" /\ g.step = graph.step /\ g.asked = graph.asked /\ g.reads = graph.reads
  BY <1>2 DEF PointOK, GraphOK
<1>4. GraphOK(g)
  BY <1>1 DEF Advance, InvestigationInv, GraphsOK
<1> HIDE DEF g, t
<1>5. PointOK(g)
  BY <1>2, <1>3, <1>4 DEF PointOK
<1>6. Before(ledger.calls, answer, t, g)
  BY <1>1, <1>2, <1>3, PointFacts DEF Before, OnTop
<1> QED
  BY <1>1, <1>3, <1>5, <1>6, AdvanceReplay DEF t

LEMMA FailReplay ==
  ASSUME InvestigationInv, ReplayInv, work.at \in AtWork, work.request[1] = "initial",
         Within([Away EXCEPT !.at = "failed"]),
         ledger'.calls = ledger.calls, ledger'.modes = ledger.modes, ledger'.grants = ledger.grants
  PROVE  ReplayInv'
<1> DEFINE w == [Away EXCEPT !.at = "failed"]
<1>1. graph.next = "initialize" /\ work.at # "down"
  BY DEF ReplayInv, NowFit, AtWork
<1>2. NowFit(w, graph, ledger.calls, ledger.modes) /\ w.at = "failed"
  BY <1>1, AwayFits
<1>3. Within(w) /\ Grows(ledger.calls, ledger'.calls)
  BY SameGrows
<1> HIDE DEF w
<1>4. OnTop(ledger.calls, w, graph, Last(saved, unsaved))
  BY <1>1 DEF ReplayInv, OnTop
<1> QED
  BY <1>1, <1>2, <1>3, <1>4, InsideReplay DEF ReplayInv

LEMMA RefusedReplay ==
  ASSUME InvestigationInv, InvestigationInv', ReplayInv, work.at \in AtWork, NEW code, Refused(code),
         ledger'.calls = ledger.calls, ledger'.modes = ledger.modes, ledger'.grants = ledger.grants
  PROVE  ReplayInv'
<1>1. CASE work.request[1] = "initial"
  BY <1>1, FailReplay DEF Refused, Fail
<1>2. CASE work.request[1] # "initial"
  BY <1>2, HandoffReplay DEF Refused
<1> QED
  BY <1>1, <1>2

\* A result is known.
LEMMA RepliedReplay ==
  ASSUME InvestigationInv, ReplayInv, work.at \in {"reserve", "settle"}, NEW result,
         Within(Replied(result)), Grows(ledger.calls, ledger'.calls), ledger'.modes = ledger.modes,
         RequestsFit(ledger'.calls, ledger'.modes, ledger'.grants),
         Settled(ledger'.calls, work.request), result = ledger'.calls[work.request].result
  PROVE  ReplayInv'
<1> DEFINE at == CASE work.request[1] = "initial" -> "bind"
                   [] work.request[1] = "model"   -> "judge"
                   [] OTHER                       -> "adapt"
           w == Replied(result)
<1>1. /\ w = [work EXCEPT !.result = result, !.at = at]
      /\ DOMAIN work = {"at", "request", "attempt", "terminal", "feedback", "index", "result"}
      /\ work.at \in AtWork /\ work.at # "down"
      /\ work.request[1] \in {"initial", "model", "tool"}
  BY DEF Replied, InvestigationInv, WorkOK, AtWork
<1>2. /\ work.request[1] = "initial" => at = "bind"
      /\ work.request[1] = "model" => at = "judge"
      /\ work.request[1] = "tool" => at = "adapt"
  OBVIOUS
<1> HIDE DEF at, w
<1>3. /\ w.at = at /\ w.result = result /\ w.request = work.request /\ w.index = work.index
      /\ w.attempt = work.attempt /\ w.terminal = work.terminal /\ w.feedback = work.feedback
  BY <1>1
<1>4. w.at \in {"bind", "judge", "adapt"}
  BY <1>1, <1>2, <1>3
<1>5. NowFit(work, graph, ledger.calls, ledger.modes)
  BY DEF ReplayInv
<1>6. ASSUME work.request[1] = "model" PROVE DecisionFit(w, graph, ledger'.calls, ledger'.modes)
  <2>1. DecisionFit(work, graph, ledger.calls, ledger'.modes)
    BY <1>1, <1>5, <1>6 DEF NowFit
  <2>2. work.at # "mode" /\ w.at # "mode"
    BY <1>4
  <2> QED
    BY <1>3, <2>1, <2>2, DecisionGrows
<1>7. NowFit(w, graph, ledger'.calls, ledger'.modes)
  BY <1>1, <1>2, <1>3, <1>4, <1>5, <1>6 DEF NowFit, AtWork
<1>8. OnTop(ledger'.calls, w, graph, Last(saved, unsaved))
  <2>1. w.at # "authorize" /\ work.at # "authorize"
    BY <1>4
  <2>2. OnTop(ledger.calls, work, graph, Last(saved, unsaved))
    BY <1>1 DEF ReplayInv
  <2> QED
    BY <1>3, <2>1, <2>2, OnTopGrows
<1>9. ModesFit(ledger'.modes, ledger'.calls)
  BY ModesGrow DEF ReplayInv
<1> QED
  BY <1>1, <1>4, <1>7, <1>8, <1>9, InsideReplay DEF w

\* terminal_mode(): kept under the request id, once chosen.
LEMMA ModeReplay ==
  ASSUME InvestigationInv, ReplayInv, TerminalMode
  PROVE  ReplayInv'
<1> DEFINE m == Mode
           q == work.request
           modes == ledger.modes
           modes2 == Put(modes, q, m)
           w == [work EXCEPT !.at = "reserve", !.terminal = m]
<1>1. /\ work.at = "mode" /\ ledger' = [ledger EXCEPT !.modes = modes2] /\ Within(w)
      /\ DOMAIN work = {"at", "request", "attempt", "terminal", "feedback", "index", "result"}
      /\ q[1] = "model"
  BY DEF TerminalMode, InvestigationInv, WorkOK
<1>2. NowFit(work, graph, ledger.calls, modes) /\ ModesFit(modes, ledger.calls)
  BY DEF ReplayInv
<1>3. DecisionFit(work, graph, ledger.calls, modes) /\ work.attempt \in {0, 1}
  BY <1>1, <1>2 DEF NowFit, AtWork
<1>4. /\ graph.step \in Nat /\ Decisions \in Nat /\ graph.next = "decide"
      /\ OnTop(ledger.calls, work, graph, Last(saved, unsaved))
  BY <1>1, <1>3, GraphPoint, PointFacts, InvestigationAssumption DEF DecisionFit, InvestigationAssumption
<1>5. /\ q \in DOMAIN modes => m = modes[q]
      /\ q \notin DOMAIN modes => m = (work.terminal \/ Cardinality(Models) >= Attempts - 1)
  BY DEF Mode
<1>6. m \in BOOLEAN
  <2>1. work.terminal \in BOOLEAN
    BY <1>3 DEF DecisionFit
  <2>2. q \in DOMAIN modes => modes[q] \in BOOLEAN
    BY <1>2 DEF ModesFit
  <2> HIDE DEF m, modes
  <2>3. (work.terminal \/ Cardinality(Models) >= Attempts - 1) \in BOOLEAN
    OBVIOUS
  <2> QED
    BY <1>5, <2>2, <2>3, Zenon
<1>7. q \notin DOMAIN modes => (work.terminal => m)
  BY <1>5
<1> HIDE DEF m
<1>8. /\ ledger'.modes = modes2 /\ ledger'.calls = ledger.calls /\ ledger'.grants = ledger.grants
      /\ w.at = "reserve" /\ w.terminal = m /\ w.request = q /\ w.index = work.index
      /\ w.attempt = work.attempt /\ w.feedback = work.feedback
  BY <1>1 DEF InvestigationInv
<1> HIDE DEF w
<1>9. DOMAIN modes2 = DOMAIN modes \cup {q} /\ modes2[q] = m /\ \A r \in DOMAIN modes : modes2[r] = modes[r]
  <2> HIDE DEF modes, q
  <2>1. /\ DOMAIN modes2 = DOMAIN modes \cup {q} /\ modes2[q] = m
        /\ \A r \in DOMAIN modes : r # q => modes2[r] = modes[r]
    BY DEF Put
  <2>2. q \in DOMAIN modes => m = modes[q]
    BY <1>5
  <2> QED
    BY <2>1, <2>2
<1> HIDE DEF modes2
<1>10. /\ q[2] \in Nat \ {0} /\ q[3] \in BOOLEAN /\ q = Ask(q[2], q[3])
       /\ q[2] = graph.step + 1
       /\ q[3] => Settled(ledger.calls, Ask(q[2], FALSE))
  <2>1. CASE q = Ask(graph.step + 1, FALSE)
    BY <1>4, <2>1 DEF Ask
  <2>2. CASE q = Ask(graph.step + 1, TRUE) /\ Settled(ledger.calls, Ask(graph.step + 1, FALSE))
    <3>1. q[2] = graph.step + 1 /\ q[3] = TRUE
      BY <2>2 DEF Ask
    <3>2. graph.step + 1 \in Nat \ {0}
      BY <1>4
    <3> HIDE DEF q
    <3> QED
      BY <2>2, <3>1, <3>2, Zenon
  <2> QED
    BY <1>3, <2>1, <2>2 DEF DecisionFit
<1>11. ~m => q[2] <= Decisions
  <2> SUFFICES ASSUME ~m PROVE q[2] <= Decisions
    OBVIOUS
  <2>1. CASE q \in DOMAIN modes
    BY <1>2, <1>5, <2>1 DEF ModesFit
  <2>2. CASE q \notin DOMAIN modes
    <3>1. ~(graph.step >= Decisions)
      BY <1>1, <1>3, <1>7, <2>2 DEF DecisionFit
    <3> QED
      BY <1>4, <1>10, <3>1
  <2> QED
    BY <2>1, <2>2
<1>12. ModesFit(ledger'.modes, ledger'.calls)
  <2> SUFFICES ASSUME NEW r \in DOMAIN modes2
               PROVE  /\ r[2] \in Nat \ {0} /\ r[3] \in BOOLEAN /\ r = Ask(r[2], r[3])
                      /\ modes2[r] \in BOOLEAN
                      /\ r[3] => Settled(ledger.calls, Ask(r[2], FALSE))
                      /\ ~modes2[r] => r[2] <= Decisions
    BY <1>8 DEF ModesFit
  <2>1. CASE r = q
    BY <1>6, <1>9, <1>10, <1>11, <2>1
  <2>2. CASE r \in DOMAIN modes
    BY <1>2, <1>9, <2>2 DEF ModesFit
  <2> QED
    BY <1>9, <2>1, <2>2
<1>13. RequestsFit(ledger'.calls, ledger'.modes, ledger'.grants)
  <2> SUFFICES ASSUME NEW r \in DOMAIN ledger.calls
               PROVE  RequestFit(ledger.calls, modes2, ledger.grants, r, ledger.calls[r])
    BY <1>8 DEF RequestsFit
  <2>1. RequestFit(ledger.calls, modes, ledger.grants, r, ledger.calls[r])
    BY DEF ReplayInv, RequestsFit
  <2> HIDE DEF modes
  <2> QED
    BY <1>9, <2>1 DEF RequestFit
<1>14. NowFit(w, graph, ledger'.calls, ledger'.modes)
  <2>1. DecisionFit(w, graph, ledger.calls, modes2)
    BY <1>3, <1>6, <1>8, <1>9 DEF DecisionFit
  <2> QED
    BY <1>1, <1>3, <1>8, <2>1 DEF NowFit, AtWork
<1>15. OnTop(ledger'.calls, w, graph, Last(saved, unsaved))
  BY <1>4, <1>8 DEF OnTop
<1>16. Grows(ledger.calls, ledger'.calls)
  BY <1>8, SameGrows
<1> QED
  BY <1>1, <1>8, <1>12, <1>13, <1>14, <1>15, <1>16, InsideReplay

\* The entry a request is reserved with.
LEMMA ReservedEntry ==
  ASSUME InvestigationInv, ReplayInv, work.at = "reserve", NEW c, c = Call(work.terminal)
  PROVE  /\ c.result = <<>> /\ c.prompt = Prompt
         /\ RequestFit(ledger.calls, ledger.modes, ledger.grants, work.request, c)
<1> DEFINE q == work.request
<1>1. c.result = <<>> /\ c.prompt = Prompt
  BY DEF Call
<1>2. q[1] \in {"initial", "model", "tool"}
  BY DEF InvestigationInv, WorkOK
<1>3. NowFit(work, graph, ledger.calls, ledger.modes)
  BY DEF ReplayInv
<1>4. CASE q[1] = "initial"
  BY <1>1, <1>4 DEF RequestFit, Prompt
<1>5. CASE q[1] = "tool"
  <2>1. q = Tool(graph.step, work.index) /\ Granted(work.index)
    BY <1>5 DEF InvestigationInv, WorkOK
  <2>2. graph.decision.batch[work.index] = ledger.grants[q].query
    BY <2>1 DEF Granted
  <2>3. c.prompt = <<ledger.grants[q].query, ledger.grants[q]>>
    BY <1>1, <1>5, <2>2 DEF Prompt
  <2> QED
    BY <1>1, <1>5, <2>3 DEF RequestFit
<1>6. CASE q[1] = "model"
  <2>1. DecisionFit(work, graph, ledger.calls, ledger.modes) /\ work.attempt \in {0, 1}
    BY <1>3, <1>6 DEF NowFit, AtWork
  <2>2. q \in DOMAIN ledger.modes /\ work.terminal = ledger.modes[q]
    BY <2>1 DEF DecisionFit
  <2>3. work.feedback = Feedback(ledger.calls, q[2], q[3])
    <3>1. CASE work.attempt = 0
      <4>1. q = Ask(graph.step + 1, FALSE) /\ work.feedback = <<>>
        BY <2>1, <3>1 DEF DecisionFit
      <4>2. q[3] = FALSE
        BY <4>1 DEF Ask
      <4> HIDE DEF q
      <4> QED
        BY <4>1, <4>2, Zenon DEF Feedback
    <3>2. CASE work.attempt = 1
      <4>1. q = Ask(graph.step + 1, TRUE) /\ work.feedback = ledger.calls[Ask(graph.step + 1, FALSE)].result
        BY <2>1, <3>2 DEF DecisionFit
      <4>2. q[2] = graph.step + 1 /\ q[3] = TRUE
        BY <4>1 DEF Ask
      <4> HIDE DEF q
      <4>3. Feedback(ledger.calls, graph.step + 1, TRUE) = ledger.calls[Ask(graph.step + 1, FALSE)].result
        BY DEF Feedback
      <4> QED
        BY <4>1, <4>2, <4>3, Zenon
    <3> QED
      BY <2>1, <3>1, <3>2
  <2>4. c.prompt = <<graph.step, graph.reads, graph.asked, graph.answers, work.terminal, work.feedback>>
    BY <1>1, <1>6 DEF Prompt
  <2> QED
    BY <1>1, <1>6, <2>2, <2>3, <2>4 DEF RequestFit
<1> QED
  BY <1>1, <1>2, <1>4, <1>5, <1>6

LEMMA ReserveReplay ==
  ASSUME InvestigationInv, InvestigationInv', ReplayInv, Reserve
  PROVE  ReplayInv'
<1> DEFINE q == work.request
<1>1. /\ work.at = "reserve" /\ work.at \in AtWork
      /\ DOMAIN work = {"at", "request", "attempt", "terminal", "feedback", "index", "result"}
      /\ DOMAIN ledger = {"calls", "modes", "decided", "exhausted", "correction",
                          "diagnosisCorrection", "grants", "receipts"}
  BY DEF Reserve, AtWork, InvestigationInv, WorkOK
<1>2. CASE Known /\ Replay
  <2>1. ledger' = ledger
    BY <1>2 DEF Replay
  <2>2. CASE \E code : Refused(code)
    BY <1>1, <2>1, <2>2, RefusedReplay
  <2>3. CASE ledger.calls[q].result # <<>> /\ Within(Replied(ledger.calls[q].result))
    <3>1. Settled(ledger.calls, q)
      BY <1>2, <2>3 DEF Settled, Known
    <3> QED
      BY <1>1, <2>1, <2>3, <3>1, SameGrows, RepliedReplay DEF ReplayInv
  <2> QED
    BY <1>2, <2>2, <2>3 DEF Replay
<1>3. CASE ledger' = [ledger EXCEPT !.exhausted = TRUE] /\ Refused("BUDGET")
  <2>1. ledger'.calls = ledger.calls /\ ledger'.modes = ledger.modes /\ ledger'.grants = ledger.grants
    BY <1>1, <1>3
  <2> QED
    BY <1>1, <1>3, <2>1, RefusedReplay
<1>4. CASE /\ ~Known
           /\ ledger' = [ledger EXCEPT !.calls = Put(@, work.request, Call(work.terminal)),
                                       !.decided = Decided]
           /\ Within([work EXCEPT !.at = "send"])
  <2> DEFINE c == Call(work.terminal)
             d == Decided
             w == [work EXCEPT !.at = "send"]
  <2>1. /\ c.result = <<>>
        /\ RequestFit(ledger.calls, ledger.modes, ledger.grants, q, c)
    BY <1>1, ReservedEntry
  <2> HIDE DEF c, d
  <2>2. /\ ledger'.calls = Put(ledger.calls, q, c)
        /\ ledger'.modes = ledger.modes /\ ledger'.grants = ledger.grants
    BY <1>1, <1>4 DEF c, d
  <2>3. /\ DOMAIN ledger'.calls = DOMAIN ledger.calls \cup {q} /\ ledger'.calls[q] = c
        /\ \A r \in DOMAIN ledger.calls : ledger'.calls[r] = ledger.calls[r]
    <3> DEFINE f == ledger.calls
               h == ledger'.calls
    <3>1. h = Put(f, q, c) /\ q \notin DOMAIN f
      BY <1>4, <2>2 DEF Known
    <3> HIDE DEF f, h, q
    <3> QED
      BY <3>1 DEF Put, f, h
  <2>4. Grows(ledger.calls, ledger'.calls)
    BY <2>3 DEF Grows, Settled
  <2>5. ModesFit(ledger'.modes, ledger'.calls) /\ ModesFit(ledger.modes, ledger.calls)
    BY <2>2, <2>4, ModesGrow DEF ReplayInv
  <2>6. RequestsFit(ledger'.calls, ledger'.modes, ledger'.grants)
    <3>1. \A r \in DOMAIN ledger'.calls :
            RequestFit(ledger.calls, ledger.modes, ledger.grants, r, ledger'.calls[r])
      BY <2>1, <2>3 DEF ReplayInv, RequestsFit
    <3> QED
      BY <2>2, <2>4, <2>5, <3>1, RequestGrows DEF RequestsFit
  <2>7. /\ w.at = "send" /\ w.request = q /\ w.index = work.index /\ w.attempt = work.attempt
        /\ w.terminal = work.terminal /\ w.feedback = work.feedback
    BY <1>1
  <2>8. Within(w)
    BY <1>4
  <2> HIDE DEF w
  <2>9. NowFit(work, graph, ledger.calls, ledger.modes)
    BY DEF ReplayInv
  <2>10. ASSUME q[1] = "model" PROVE DecisionFit(w, graph, ledger'.calls, ledger'.modes)
    <3>1. DecisionFit(work, graph, ledger.calls, ledger'.modes)
      BY <1>1, <2>2, <2>9, <2>10 DEF NowFit
    <3> QED
      BY <1>1, <2>4, <2>7, <3>1, DecisionGrows
  <2>11. NowFit(w, graph, ledger'.calls, ledger'.modes)
    BY <1>1, <2>1, <2>3, <2>7, <2>9, <2>10 DEF NowFit, AtWork
  <2>12. OnTop(ledger'.calls, w, graph, Last(saved, unsaved))
    <3>1. OnTop(ledger.calls, work, graph, Last(saved, unsaved))
      BY <1>1 DEF ReplayInv
    <3> QED
      BY <1>1, <2>4, <2>7, <3>1, OnTopGrows
  <2> QED
    BY <1>1, <2>4, <2>5, <2>6, <2>7, <2>8, <2>11, <2>12, InsideReplay
<1> QED
  BY <1>2, <1>3, <1>4 DEF Reserve

LEMMA SendReplay ==
  ASSUME InvestigationInv, ReplayInv, Send
  PROVE  ReplayInv'
<1>1. work.at = "send" /\ ledger' = ledger
  BY DEF Send
<1>2. PICK r \in Results : Within([work EXCEPT !.at = "settle", !.result = <<r>>])
  BY DEF Send
<1> DEFINE w == [work EXCEPT !.at = "settle", !.result = <<r>>]
<1>3. /\ w.at = "settle" /\ w.result = <<r>> /\ w.request = work.request /\ w.index = work.index
      /\ w.attempt = work.attempt /\ w.terminal = work.terminal /\ w.feedback = work.feedback
  BY DEF InvestigationInv, WorkOK
<1>4. Within(w) /\ Grows(ledger.calls, ledger'.calls)
  BY <1>1, <1>2, SameGrows
<1> HIDE DEF w
<1>5. work.request[1] = "model" => r \in Replies
  BY DEF Results
<1>6. w.result = <<w.result[1]>> /\ w.result[1] = r
  BY <1>3
<1>7. NowFit(work, graph, ledger.calls, ledger.modes)
  BY DEF ReplayInv
<1>8. ASSUME work.request[1] = "model" PROVE DecisionFit(w, graph, ledger'.calls, ledger'.modes)
  <2>1. DecisionFit(work, graph, ledger.calls, ledger'.modes)
    BY <1>1, <1>7, <1>8 DEF NowFit, AtWork
  <2> QED
    BY <1>1, <1>3, <1>4, <2>1, DecisionGrows
<1>9. NowFit(w, graph, ledger'.calls, ledger'.modes)
  BY <1>1, <1>3, <1>5, <1>6, <1>7, <1>8 DEF NowFit, AtWork
<1>10. OnTop(ledger'.calls, w, graph, Last(saved, unsaved))
  <2>1. OnTop(ledger.calls, work, graph, Last(saved, unsaved))
    BY <1>1 DEF ReplayInv
  <2> QED
    BY <1>1, <1>3, <1>4, <2>1, OnTopGrows
<1> QED
  BY <1>1, <1>3, <1>4, <1>9, <1>10, InsideReplay DEF ReplayInv

\* settle(): the entry gets its result, once.
LEMMA SettleReplay ==
  ASSUME InvestigationInv, ReplayInv, Settle
  PROVE  ReplayInv'
<1> DEFINE q == work.request
           calls == ledger.calls
           calls2 == ledger'.calls
<1>1. /\ work.at = "settle" /\ work.at \in AtWork
      /\ q \in DOMAIN calls /\ q[1] \in {"initial", "model", "tool"}
      /\ DOMAIN ledger = {"calls", "modes", "decided", "exhausted", "correction",
                          "diagnosisCorrection", "grants", "receipts"}
      /\ \A r \in DOMAIN calls :
           DOMAIN calls[r] = {"prompt", "terminal", "result", "query", "grant", "seen"}
  BY DEF Settle, AtWork, InvestigationInv, WorkOK, CallsOK
<1>2. CASE q[1] = "initial" /\ Within([Away EXCEPT !.at = "failed"]) /\ UNCHANGED ledger
  BY <1>1, <1>2, FailReplay
<1>3. CASE /\ ledger' = [ledger EXCEPT !.calls[work.request].result = work.result]
           /\ Within(Replied(work.result))
  <2> DEFINE x == work.result
  <2>1. calls[q].result = <<>> /\ x = <<x[1]>> /\ (q[1] = "model" => x[1] \in Replies)
    BY <1>1 DEF ReplayInv, NowFit
  <2>2. /\ ledger'.modes = ledger.modes /\ ledger'.grants = ledger.grants
        /\ DOMAIN calls2 = DOMAIN calls /\ calls2[q].result = x
        /\ calls2[q].prompt = calls[q].prompt
        /\ \A r \in DOMAIN calls : r # q => calls2[r] = calls[r]
    BY <1>1, <1>3
  <2> HIDE DEF calls2
  <2>3. x # <<>>
    BY <2>1
  <2>4. Grows(calls, calls2) /\ Settled(calls2, q)
    BY <1>1, <2>1, <2>2, <2>3 DEF Grows, Settled
  <2>5. RequestsFit(calls2, ledger.modes, ledger.grants)
    <3> SUFFICES ASSUME NEW r \in DOMAIN calls
                 PROVE  RequestFit(calls2, ledger.modes, ledger.grants, r, calls2[r])
      BY <2>2 DEF RequestsFit
    <3>1. RequestFit(calls2, ledger.modes, ledger.grants, r, calls[r])
      BY <2>4, RequestGrows DEF ReplayInv, RequestsFit
    <3>2. CASE r = q
      BY <2>1, <2>2, <3>1, <3>2 DEF RequestFit
    <3> QED
      BY <2>2, <3>1, <3>2
  <2> QED
    BY <1>1, <1>3, <2>2, <2>4, <2>5, RepliedReplay DEF calls2
<1> QED
  BY <1>1, <1>2, <1>3 DEF Settle

\* prepare_baseline(): the second read, or on to the first decision.
LEMMA BindReplay ==
  ASSUME InvestigationInv, InvestigationInv', ReplayInv, Bind
  PROVE  ReplayInv'
<1>1. work.at = "bind" /\ work.at # "down" /\ work.at \in AtWork /\ ledger' = ledger
  BY DEF Bind, AtWork
<1>2. graph.next = "initialize" /\ work.attempt \in {0, 1}
  BY <1>1 DEF ReplayInv, NowFit
<1>3. CASE Within([work EXCEPT !.at = "reserve", !.request = Initial(2)])
  <2> DEFINE w == [work EXCEPT !.at = "reserve", !.request = Initial(2)]
  <2>1. w.at = "reserve" /\ w.request = Initial(2) /\ w.attempt = work.attempt
    BY DEF InvestigationInv, WorkOK
  <2>2. Within(w) /\ Grows(ledger.calls, ledger'.calls)
    BY <1>1, <1>3, SameGrows
  <2> HIDE DEF w
  <2>3. NowFit(w, graph, ledger.calls, ledger.modes)
    BY <1>2, <2>1, RequestFacts DEF NowFit, AtWork
  <2>4. OnTop(ledger.calls, w, graph, Last(saved, unsaved))
    BY <1>1, <1>2 DEF ReplayInv, OnTop
  <2> QED
    BY <1>1, <2>1, <2>2, <2>3, <2>4, InsideReplay DEF ReplayInv
<1>4. CASE Advance([graph EXCEPT !.next = "decide"])
  <2> DEFINE g == [graph EXCEPT !.next = "decide"]
             t == Last(saved, unsaved)
  <2>1. PointOK(graph) /\ PointOK(t) /\ OnTop(ledger.calls, work, graph, t)
    BY <1>1, GraphPoint
  <2>2. /\ g.next = "decide" /\ g.step = graph.step /\ g.asked = graph.asked
        /\ g.answers = graph.answers /\ g.reads = graph.reads
    BY <2>1 DEF PointOK, GraphOK
  <2>3. Advance(g) /\ GraphOK(g)
    BY <1>4 DEF Advance, InvestigationInv, GraphsOK
  <2> HIDE DEF g, t
  <2>4. PointOK(g)
    BY <1>2, <2>1, <2>2, <2>3 DEF PointOK
  <2>5. Before(ledger.calls, answer, t, g)
    BY <1>2, <2>1, <2>2, PointFacts DEF Before, OnTop, Leads
  <2> QED
    BY <1>1, <2>2, <2>3, <2>4, <2>5, AdvanceReplay DEF t
<1> QED
  BY <1>3, <1>4 DEF Bind

\* The reply that is judged.
LEMMA JudgeFacts ==
  ASSUME InvestigationInv, ReplayInv, work.at = "judge"
  PROVE  /\ work.request[1] = "model" /\ work.request[2] = graph.step + 1 /\ graph.next = "decide"
         /\ DecisionFit(work, graph, ledger.calls, ledger.modes)
         /\ work.result[1] \in Replies /\ work.result = <<work.result[1]>>
         /\ Settled(ledger.calls, work.request)
         /\ work.result = ledger.calls[work.request].result
         /\ work.terminal \in BOOLEAN /\ (~work.terminal => graph.step + 1 <= Decisions)
<1> DEFINE q == work.request
<1>1. /\ q[1] = "model" /\ DecisionFit(work, graph, ledger.calls, ledger.modes)
      /\ Settled(ledger.calls, q) /\ work.result = ledger.calls[q].result
      /\ work.attempt \in {0, 1}
  BY DEF ReplayInv, NowFit, AtWork
<1>2. q[2] = graph.step + 1
  <2>1. q = Ask(graph.step + 1, FALSE) \/ q = Ask(graph.step + 1, TRUE)
    BY <1>1 DEF DecisionFit
  <2>2. \A n, b : Ask(n, b)[2] = n
    BY DEF Ask
  <2> HIDE DEF q
  <2> QED
    BY <2>1, <2>2, Zenon
<1>3. RequestFit(ledger.calls, ledger.modes, ledger.grants, q, ledger.calls[q])
  BY <1>1 DEF ReplayInv, RequestsFit, Settled
<1>4. work.result[1] \in Replies /\ work.result = <<work.result[1]>>
  BY <1>1, <1>3 DEF RequestFit, Settled
<1>5. q \in DOMAIN ledger.modes /\ work.terminal = ledger.modes[q] /\ work.terminal \in BOOLEAN
      /\ graph.next = "decide"
  BY <1>1 DEF DecisionFit
<1>6. ~ledger.modes[q] => q[2] <= Decisions
  BY <1>5 DEF ReplayInv, ModesFit
<1> QED
  BY <1>1, <1>2, <1>4, <1>5, <1>6

\* A decision is followed.
LEMMA DecidedReplay ==
  ASSUME InvestigationInv, InvestigationInv', ReplayInv, work.at = "judge",
         ledger'.calls = ledger.calls, ledger'.modes = ledger.modes, ledger'.grants = ledger.grants,
         NEW g, Advance(g), g.next \in {"collect", "wait", "end"}, g.step = graph.step + 1,
         g.reads = graph.reads, NEW x,
         IF g.next = "wait" THEN g.asked = Append(graph.asked, x) ELSE g.asked = graph.asked,
         g.next # "end" => g.step <= Decisions,
         g.next = "collect" => g.decision.batch \in Batch
  PROVE  ReplayInv'
<1> DEFINE t == Last(saved, unsaved)
<1>1. /\ PointOK(graph) /\ PointOK(t) /\ OnTop(ledger.calls, work, graph, t)
      /\ answer.n \in Nat /\ answer.n <= Len(graph.asked)
  BY GraphPoint
<1>2. graph.next = "decide"
  BY JudgeFacts
<1>3. GraphOK(g)
  BY DEF Advance, InvestigationInv, GraphsOK
<1> HIDE DEF t
<1>4. graph.step \in Nat /\ graph.step <= Decisions /\ Decisions \in Nat
  BY <1>1, <1>2, PointFacts, InvestigationAssumption DEF PointOK, InvestigationAssumption
<1>5. g.step \in 0..Decisions + 1
  BY <1>4
<1>6. PointOK(g)
  BY <1>1, <1>3, <1>5 DEF PointOK
<1>7. /\ Len(graph.asked) \in Nat /\ Len(graph.asked) <= Len(g.asked)
      /\ g.next = "wait" => Len(g.asked) = Len(graph.asked) + 1
  BY <1>1, AppendIsSeq, PointFacts DEF PointOK, GraphOK
<1>8. g.next = "wait" => answer.n < Len(g.asked)
  BY <1>1, <1>7
<1>9. Before(ledger.calls, answer, t, g)
  <2>1. t.step = graph.step /\ t.next = "decide" /\ t.asked = graph.asked
    BY <1>1, <1>2 DEF OnTop
  <2>2. t.step < g.step /\ t.step <= g.step
    BY <1>4, <2>1
  <2> QED
    BY <1>7, <2>1, <2>2 DEF Before
<1> QED
  BY <1>6, <1>8, <1>9, AdvanceReplay DEF t

LEMMA AcceptReplay ==
  ASSUME InvestigationInv, InvestigationInv', ReplayInv, work.at = "judge",
         ledger' = ledger, NEW r, r = work.result[1], Acceptable(r), Accept(r)
  PROVE  ReplayInv'
<1> DEFINE g == [graph EXCEPT !.step = work.request[2], !.decision = r]
<1>1. PointOK(graph) /\ DOMAIN graph = {"next", "step", "decision", "reads", "asked", "answers", "output"}
  BY GraphPoint DEF PointOK, GraphOK
<1>2. /\ work.request[2] = graph.step + 1 /\ r \in Replies
      /\ ~work.terminal => graph.step + 1 <= Decisions
  BY JudgeFacts
<1>3. /\ DOMAIN g = DOMAIN graph /\ g.step = graph.step + 1 /\ g.decision = r
      /\ g.asked = graph.asked /\ g.reads = graph.reads
  BY <1>1, <1>2
<1> HIDE DEF g
<1>4. r.action \in {"collect", "ask"} => graph.step + 1 <= Decisions
  BY <1>2 DEF Acceptable
<1>5. CASE r.action = "collect"
  <2> DEFINE h == [g EXCEPT !.next = "collect"]
  <2>1. Advance(h)
    BY <1>5 DEF Accept, g
  <2>2. /\ h.next = "collect" /\ h.step = graph.step + 1 /\ h.decision = r
        /\ h.asked = graph.asked /\ h.reads = graph.reads
    BY <1>1, <1>3
  <2>3. r.batch \in Batch
    BY <1>2, <1>5 DEF Replies, Reply
  <2> HIDE DEF h
  <2> QED
    BY <1>4, <1>5, <2>1, <2>2, <2>3, DecidedReplay
<1>6. CASE r.action = "ask"
  <2> DEFINE slot == r.slot
             h == [g EXCEPT !.next = "wait", !.asked = Append(g.asked, slot)]
  <2>1. Advance(h)
    BY <1>6 DEF Accept, g
  <2>2. /\ h.next = "wait" /\ h.step = graph.step + 1
        /\ h.asked = Append(graph.asked, slot) /\ h.reads = graph.reads
    BY <1>1, <1>3
  <2> HIDE DEF h, slot
  <2> QED
    BY <1>4, <1>6, <2>1, <2>2, DecidedReplay
<1>7. CASE r.action \notin {"collect", "ask"}
  <2> DEFINE action == r.action
             h == [g EXCEPT !.next = "end", !.output = action]
  <2>1. Advance(h)
    BY <1>7 DEF Accept, g
  <2>2. /\ h.next = "end" /\ h.step = graph.step + 1
        /\ h.asked = graph.asked /\ h.reads = graph.reads
    BY <1>1, <1>3
  <2> HIDE DEF h, action
  <2> QED
    BY <2>1, <2>2, DecidedReplay
<1> QED
  BY <1>5, <1>6, <1>7

LEMMA CorrectionFits ==
  ASSUME NEW w, NEW g, NEW calls, NEW modes, w.at = "mode", w.attempt = 1, g.next = "decide",
         w.request = Ask(g.step + 1, TRUE), Settled(calls, Ask(g.step + 1, FALSE)),
         w.feedback = calls[Ask(g.step + 1, FALSE)].result,
         w.terminal \in BOOLEAN, g.step >= Decisions => w.terminal
  PROVE  NowFit(w, g, calls, modes)
<1>1. w.request[1] = "model"
  BY DEF Ask
<1>2. w.attempt # 0
  OBVIOUS
<1>3. DecisionFit(w, g, calls, modes)
  BY <1>2, Zenon DEF DecisionFit
<1> QED
  BY <1>1, <1>3 DEF NowFit, AtWork

\* correction(): the same decision, asked again with the reply that failed.
LEMMA CorrectReplay ==
  ASSUME InvestigationInv, ReplayInv, work.at = "judge", NEW r, r = work.result[1],
         Correctable(r), Correct(r)
  PROVE  ReplayInv'
<1> DEFINE terminal == work.terminal \/ r.action = "report"
           feedback == <<r>>
           request == Ask(work.request[2], TRUE)
           w == [work EXCEPT !.at = "mode", !.attempt = 1, !.request = request,
                             !.terminal = terminal, !.feedback = feedback]
<1>1. Within(w) /\ work.attempt = 0
  BY DEF Correct, Correctable
<1>2. /\ ledger'.calls = ledger.calls /\ ledger'.modes = ledger.modes /\ ledger'.grants = ledger.grants
  <2>1. CASE ledger' = [ledger EXCEPT !.diagnosisCorrection = work.request[2]]
    BY <2>1 DEF InvestigationInv
  <2>2. CASE ledger' = [ledger EXCEPT !.correction = work.request[2]]
    BY <2>2 DEF InvestigationInv
  <2> QED
    BY <2>1, <2>2 DEF Correct
<1>3. /\ work.request[2] = graph.step + 1 /\ graph.next = "decide"
      /\ DecisionFit(work, graph, ledger.calls, ledger.modes)
      /\ work.result = feedback /\ Settled(ledger.calls, work.request)
      /\ work.result = ledger.calls[work.request].result
      /\ work.terminal \in BOOLEAN /\ (~work.terminal => graph.step + 1 <= Decisions)
  BY JudgeFacts
<1>4. /\ graph.step \in Nat /\ Decisions \in Nat
      /\ OnTop(ledger.calls, work, graph, Last(saved, unsaved))
  BY GraphPoint, PointFacts, InvestigationAssumption DEF InvestigationAssumption
<1>5. terminal \in BOOLEAN /\ (graph.step >= Decisions => terminal)
  BY <1>3, <1>4
<1>6. work.request = Ask(graph.step + 1, FALSE) /\ request = Ask(graph.step + 1, TRUE)
  BY <1>1, <1>3 DEF DecisionFit
<1> HIDE DEF terminal, feedback, request
<1>7. /\ w.at = "mode" /\ w.attempt = 1 /\ w.request = request /\ w.terminal = terminal
      /\ w.feedback = feedback /\ w.index = work.index
  BY DEF InvestigationInv, WorkOK
<1> HIDE DEF w
<1>8. NowFit(w, graph, ledger.calls, ledger.modes)
  <2>1. /\ w.request = Ask(graph.step + 1, TRUE) /\ Settled(ledger.calls, Ask(graph.step + 1, FALSE))
        /\ w.feedback = ledger.calls[Ask(graph.step + 1, FALSE)].result
    BY <1>3, <1>6, <1>7
  <2>2. w.terminal \in BOOLEAN /\ (graph.step >= Decisions => w.terminal)
    BY <1>5, <1>7
  <2>3. w.at = "mode" /\ w.attempt = 1 /\ graph.next = "decide"
    BY <1>3, <1>7
  <2> QED
    BY <2>1, <2>2, <2>3, CorrectionFits
<1>9. OnTop(ledger.calls, w, graph, Last(saved, unsaved))
  BY <1>3, <1>4 DEF OnTop
<1> QED
  BY <1>1, <1>2, <1>7, <1>8, <1>9, SameGrows, InsideReplay DEF ReplayInv

LEMMA JudgeReplay ==
  ASSUME InvestigationInv, InvestigationInv', ReplayInv, Judge
  PROVE  ReplayInv'
<1>1. work.at = "judge" /\ work.at \in AtWork
  BY DEF Judge, AtWork
<1>2. CASE ledger' = ledger /\ \E code : Handoff(code)
  BY <1>1, <1>2, HandoffReplay
<1>3. CASE ledger' = ledger /\ Acceptable(work.result[1]) /\ Accept(work.result[1])
  BY <1>1, <1>3, AcceptReplay
<1>4. CASE Correctable(work.result[1]) /\ Correct(work.result[1])
  BY <1>1, <1>4, CorrectReplay
<1> QED
  BY <1>2, <1>3, <1>4 DEF Judge

LEMMA CollectedNone ==
  ASSUME NEW calls, NEW c, IsSeq(c.reads)
  PROVE  Collected(calls, c, c.reads, 0)
<1>1. Len(c.reads) \in Nat
  BY SeqFacts
<1>2. Len(c.reads) = Len(c.reads) + 0 /\ 1..0 = {}
  BY <1>1
<1> QED
  BY <1>2 DEF Collected

\* authorize_sample(): one request further, or to the first read.
LEMMA AuthorizedReplay ==
  ASSUME InvestigationInv, ReplayInv, work.at = "authorize", NextAuthorized,
         ledger'.calls = ledger.calls, ledger'.modes = ledger.modes,
         RequestsFit(ledger'.calls, ledger'.modes, ledger'.grants)
  PROVE  ReplayInv'
<1> DEFINE n == work.index
           last == Len(graph.decision.batch)
           request == Tool(graph.step, IF n = last THEN 1 ELSE n + 1)
           w == IF n = last
                THEN [work EXCEPT !.at = "reserve", !.index = 1, !.request = Tool(graph.step, 1)]
                ELSE [work EXCEPT !.index = n + 1, !.request = Tool(graph.step, n + 1)]
           t == Last(saved, unsaved)
<1>1. Within(w) /\ Grows(ledger.calls, ledger'.calls) /\ ModesFit(ledger'.modes, ledger'.calls)
  BY SameGrows DEF NextAuthorized, ReplayInv
<1>2. /\ n \in 1..last /\ work.attempt \in {0, 1} /\ graph.next = "collect"
      /\ NowFit(work, graph, ledger.calls, ledger.modes)
  <2>1. NowFit(work, graph, ledger.calls, ledger.modes)
    BY DEF ReplayInv
  <2>2. work.request[1] = "tool"
    BY RequestFacts DEF InvestigationInv, WorkOK
  <2> QED
    BY <2>1, <2>2 DEF NowFit, AtWork
<1>3. PointOK(graph) /\ PointOK(t) /\ OnTop(ledger.calls, work, graph, t)
  BY GraphPoint
<1>4. last \in Nat /\ last > 0
  BY <1>2, <1>3, PointFacts
<1>5. DOMAIN work = {"at", "request", "attempt", "terminal", "feedback", "index", "result"}
  BY DEF InvestigationInv, WorkOK
<1>6. /\ n = last => w.at = "reserve" /\ w.index = 1
      /\ n # last => w.at = "authorize" /\ w.index = n + 1
      /\ w.attempt = work.attempt /\ w.request[1] = "tool"
  <2>1. CASE n = last
    <3> DEFINE q == Tool(graph.step, 1)
    <3>1. q[1] = "tool"
      BY RequestFacts
    <3> HIDE DEF q
    <3>2. w = [work EXCEPT !.at = "reserve", !.index = 1, !.request = q]
      BY <2>1 DEF q
    <3> HIDE DEF w
    <3> QED
      BY <1>5, <2>1, <3>1, <3>2
  <2>2. CASE n # last
    <3> DEFINE q == Tool(graph.step, n + 1)
    <3>1. q[1] = "tool"
      BY RequestFacts
    <3> HIDE DEF q
    <3>2. w = [work EXCEPT !.index = n + 1, !.request = q]
      BY <2>2 DEF q
    <3> HIDE DEF w
    <3> QED
      BY <1>5, <2>2, <3>1, <3>2
  <2> QED
    BY <2>1, <2>2
<1> HIDE DEF w, t, n, last
<1>7. w.at \in {"reserve", "authorize"} /\ (w.at = "authorize" => w.index \in 1..last)
  BY <1>2, <1>4, <1>6
<1>8. NowFit(w, graph, ledger.calls, ledger.modes)
  BY <1>2, <1>6, <1>7 DEF NowFit, AtWork, last
<1>9. OnTop(ledger.calls, w, graph, t)
  <2>1. graph.reads = t.reads /\ IsSeq(t.reads)
    BY <1>3 DEF OnTop, PointOK
  <2>2. CASE w.at = "reserve"
    <3>1. w.index = 1 /\ 1 - 1 = 0
      BY <1>6, <2>2
    <3>2. Collected(ledger.calls, t, graph.reads, w.index - 1)
      BY <2>1, <3>1, CollectedNone
    <3> QED
      BY <1>3, <2>2, <3>2 DEF OnTop
  <2>3. CASE w.at = "authorize"
    BY <1>3, <2>1, <2>3 DEF OnTop
  <2> QED
    BY <1>7, <2>2, <2>3
<1> QED
  BY <1>1, <1>7, <1>8, <1>9, InsideReplay DEF t

LEMMA AuthorizeReplay ==
  ASSUME InvestigationInv, InvestigationInv', ReplayInv, Authorize
  PROVE  ReplayInv'
<1>1. work.at = "authorize" /\ work.at \in AtWork
  BY DEF Authorize, AtWork
<1>2. CASE ledger' = ledger /\ \E code : Handoff(code)
  BY <1>1, <1>2, HandoffReplay
<1>3. CASE ledger' = ledger /\ NextAuthorized
  BY <1>1, <1>3, AuthorizedReplay DEF ReplayInv
<1>4. CASE /\ work.request \notin DOMAIN ledger.grants /\ NextAuthorized
           /\ \E g : ledger' = [ledger EXCEPT !.grants = Put(@, work.request, g)]
  <2>1. PICK g : ledger' = [ledger EXCEPT !.grants = Put(ledger.grants, work.request, g)]
    BY <1>4
  <2> DEFINE f == ledger.grants
             h == ledger'.grants
             q == work.request
  <2>2. h = Put(f, q, g) /\ ledger'.calls = ledger.calls /\ ledger'.modes = ledger.modes
    BY <2>1 DEF InvestigationInv
  <2>3. q \notin DOMAIN f
    BY <1>4
  <2> HIDE DEF f, h, q
  <2>4. \A r \in DOMAIN f : h[r] = f[r]
    BY <2>2, <2>3 DEF Put
  <2>5. RequestsFit(ledger'.calls, ledger'.modes, h)
    <3> SUFFICES ASSUME NEW r \in DOMAIN ledger.calls
                 PROVE  RequestFit(ledger.calls, ledger.modes, h, r, ledger.calls[r])
      BY <2>2 DEF RequestsFit
    <3>1. RequestFit(ledger.calls, ledger.modes, f, r, ledger.calls[r])
      BY DEF ReplayInv, RequestsFit, f
    <3>2. r[1] = "tool" => r \in DOMAIN f
      BY DEF InvestigationInv, CallsOK, f
    <3> QED
      BY <2>4, <3>1, <3>2 DEF RequestFit
  <2> QED
    BY <1>1, <1>4, <2>2, <2>5, AuthorizedReplay DEF h
<1>5. CASE work.request \in DOMAIN ledger.grants
  BY <1>2, <1>3, <1>5 DEF Authorize
<1>6. CASE work.request \notin DOMAIN ledger.grants
  <2> DEFINE b == graph.decision.batch[work.index]
  <2>1. PICK aged \in BOOLEAN :
          IF Refusal(b, aged) # None
          THEN Handoff(Refusal(b, aged)) /\ UNCHANGED ledger
          ELSE /\ ledger' = [ledger EXCEPT !.grants = Put(@, work.request, Grant(b, aged))]
               /\ NextAuthorized /\ UNCHANGED sent
    BY <1>6 DEF Authorize
  <2> QED
    BY <1>2, <1>4, <1>6, <2>1
<1> QED
  BY <1>5, <1>6

\* A result becomes evidence.
LEMMA AdaptReplay ==
  ASSUME InvestigationInv, InvestigationInv', ReplayInv, Adapt
  PROVE  ReplayInv'
<1> DEFINE n == work.index
           last == Len(graph.decision.batch)
           read == [query |-> graph.decision.batch[work.index], result |-> work.result[1],
                    by |-> work.request]
           reads == Append(graph.reads, read)
           g == [graph EXCEPT !.reads = reads]
           t == Last(saved, unsaved)
<1>1. /\ work.at = "adapt" /\ work.at \in AtWork /\ work.at # "down" /\ ledger' = ledger
  BY DEF Adapt, AtWork
<1>2. /\ work.request[1] = "tool" /\ n \in 1..last /\ last \in Nat
      /\ work.request = Tool(graph.step, n)
      /\ DOMAIN work = {"at", "request", "attempt", "terminal", "feedback", "index", "result"}
  BY <1>1 DEF InvestigationInv, WorkOK
<1>3. /\ NowFit(work, graph, ledger.calls, ledger.modes) /\ work.attempt \in {0, 1}
      /\ graph.next = "collect" /\ Settled(ledger.calls, work.request)
      /\ work.result = ledger.calls[work.request].result
  BY <1>1, <1>2 DEF ReplayInv, NowFit
<1>4. /\ PointOK(graph) /\ PointOK(t) /\ OnTop(ledger.calls, work, graph, t)
      /\ DOMAIN graph = {"next", "step", "decision", "reads", "asked", "answers", "output"}
  BY <1>1, GraphPoint DEF PointOK, GraphOK
<1> HIDE DEF t
<1>5. /\ Collected(ledger.calls, t, graph.reads, n - 1) /\ graph.step = t.step
      /\ graph.decision = t.decision /\ IsSeq(t.reads) /\ t.next = "collect"
      /\ graph.asked = t.asked /\ graph.answers = t.answers
  BY <1>1, <1>3, <1>4 DEF OnTop, PointOK
<1>6. Collected(ledger.calls, t, reads, n)
  <2>1. n - 1 \in Nat /\ (n - 1) + 1 = n
    BY <1>2
  <2>2. /\ read = [query |-> t.decision.batch[n], result |-> ledger.calls[Tool(t.step, n)].result[1],
                   by |-> Tool(t.step, n)]
        /\ Settled(ledger.calls, Tool(t.step, n))
    BY <1>2, <1>3, <1>5
  <2> HIDE DEF read, n
  <2> DEFINE m == n - 1
  <2>3. Collected(ledger.calls, t, graph.reads, m) /\ m \in Nat /\ m + 1 = n
    BY <1>5, <2>1
  <2> HIDE DEF m
  <2>4. /\ read = [query |-> t.decision.batch[m + 1],
                   result |-> ledger.calls[Tool(t.step, m + 1)].result[1],
                   by |-> Tool(t.step, m + 1)]
        /\ Settled(ledger.calls, Tool(t.step, m + 1))
    BY <2>2, <2>3
  <2>5. Collected(ledger.calls, t, Append(graph.reads, read), m + 1)
    BY <1>5, <2>3, <2>4, CollectedNext
  <2> QED
    BY <2>3, <2>5
<1> HIDE DEF reads
<1>7. /\ DOMAIN g = DOMAIN graph /\ g.reads = reads /\ g.step = graph.step /\ g.next = graph.next
      /\ g.decision = graph.decision /\ g.asked = graph.asked /\ g.answers = graph.answers
  BY <1>4
<1>8. IsSeq(reads) /\ Len(g.asked) = Len(t.asked) /\ Len(t.asked) \in Nat /\ g.step \in Nat
  BY <1>4, <1>5, <1>6, <1>7, PointFacts DEF Collected
<1>9. CASE Advance([g EXCEPT !.next = "end", !.output = "TARGET_CHANGED"])
  <2> HIDE DEF g
  <2> DEFINE h == [g EXCEPT !.next = "end", !.output = "TARGET_CHANGED"]
  <2>1. h.next = "end" /\ h.reads = reads /\ h.step = graph.step /\ h.asked = graph.asked
    BY <1>4, <1>7
  <2>2. Advance(h) /\ GraphOK(h)
    BY <1>9 DEF Advance, InvestigationInv, GraphsOK
  <2> HIDE DEF h
  <2>3. PointOK(h)
    BY <1>4, <1>8, <2>1, <2>2 DEF PointOK
  <2>4. Before(ledger.calls, answer, t, h)
    BY <1>4, <1>5, <1>7, <1>8, <2>1, PointFacts DEF Before
  <2> QED
    BY <1>1, <2>1, <2>2, <2>3, <2>4, AdvanceReplay DEF t
<1>10. CASE n = last /\ Advance([g EXCEPT !.next = "decide"])
  <2> HIDE DEF g
  <2> DEFINE h == [g EXCEPT !.next = "decide"]
  <2>1. /\ h.next = "decide" /\ h.reads = reads /\ h.step = graph.step /\ h.asked = graph.asked
        /\ h.answers = graph.answers
    BY <1>4, <1>7
  <2>2. Advance(h) /\ GraphOK(h)
    BY <1>10 DEF Advance, InvestigationInv, GraphsOK
  <2> HIDE DEF h
  <2>3. PointOK(h)
    BY <1>3, <1>4, <1>8, <2>1, <2>2 DEF PointOK
  <2>4. Leads(ledger.calls, answer, t, h.step, h.reads, h.asked, h.answers)
    BY <1>5, <1>6, <1>10, <2>1 DEF Leads
  <2>5. Before(ledger.calls, answer, t, h)
    BY <1>4, <1>5, <1>7, <1>8, <2>1, <2>4, PointFacts DEF Before
  <2> QED
    BY <1>1, <2>1, <2>2, <2>3, <2>5, AdvanceReplay DEF t
<1>11. CASE /\ n # last /\ graph' = g
            /\ work' = [work EXCEPT !.at = "reserve", !.index = @ + 1,
                                    !.request = Tool(graph.step, work.index + 1), !.result = <<>>]
            /\ UNCHANGED <<saved, unsaved, answer, sent, crashes>>
  <2> DEFINE q == Tool(graph.step, n + 1)
  <2>1. q[1] = "tool"
    BY RequestFacts
  <2>2. work' = [work EXCEPT !.at = "reserve", !.index = n + 1, !.request = q, !.result = <<>>]
    BY <1>11
  <2> HIDE DEF q, n, last, g
  <2>3. work'.at = "reserve" /\ work'.index = n + 1 /\ work'.request = q /\ work'.attempt = work.attempt
    BY <1>2, <2>2
  <2>4. NowFit(work', graph', ledger'.calls, ledger'.modes)
    BY <1>3, <1>7, <1>11, <2>1, <2>3 DEF NowFit, AtWork
  <2>5. OnTop(ledger'.calls, work', graph', t)
    <3>1. (n + 1) - 1 = n
      BY <1>2
    <3>2. Collected(ledger.calls, t, graph'.reads, work'.index - 1)
      BY <1>6, <1>7, <1>11, <2>3, <3>1
    <3> QED
      BY <1>1, <1>3, <1>5, <1>7, <1>11, <2>3, <3>2 DEF OnTop
  <2>6. AnswerFit(answer', saved', work', graph')
    BY <1>11, <2>3 DEF ReplayInv, AnswerFit
  <2> QED
    BY <1>1, <1>11, <2>3, <2>4, <2>5, <2>6 DEF ReplayInv, t
<1> QED
  BY <1>9, <1>10, <1>11 DEF Adapt, reads

\* accept_answer(): the answer joins the others.
LEMMA AcceptAnswerReplay ==
  ASSUME InvestigationInv, InvestigationInv', ReplayInv, AcceptAnswer
  PROVE  ReplayInv'
<1> DEFINE answers == Append(graph.answers, answer)
           g == [graph EXCEPT !.answers = answers]
           t == Last(saved, unsaved)
<1>1. work.at = "accept" /\ work.at # "down" /\ graph.next = "wait" /\ answer.n = Len(graph.asked)
  BY DEF AcceptAnswer, InvestigationInv, WorkOK
<1>2. ledger'.calls = ledger.calls /\ ledger'.modes = ledger.modes /\ ledger'.grants = ledger.grants
  <2>1. ledger' = ledger \/ ledger' = [ledger EXCEPT !.receipts = Append(@, answer)]
    BY DEF AcceptAnswer
  <2>2. CASE ledger' = [ledger EXCEPT !.receipts = Append(@, answer)]
    <3> DEFINE receipts == Append(ledger.receipts, answer)
    <3>1. ledger' = [ledger EXCEPT !.receipts = receipts]
      BY <2>2
    <3> HIDE DEF receipts
    <3> QED
      BY <3>1 DEF InvestigationInv
  <2> QED
    BY <2>1, <2>2
<1>3. /\ PointOK(graph) /\ PointOK(t) /\ OnTop(ledger.calls, work, graph, t)
      /\ DOMAIN graph = {"next", "step", "decision", "reads", "asked", "answers", "output"}
  BY <1>1, GraphPoint DEF PointOK, GraphOK
<1> HIDE DEF t, answers
<1>4. /\ DOMAIN g = DOMAIN graph /\ g.answers = answers /\ g.step = graph.step
      /\ g.reads = graph.reads /\ g.asked = graph.asked
  BY <1>3
<1> HIDE DEF g
<1>5. \E h : /\ Advance(h) /\ h.next \in {"decide", "end"} /\ h.answers = answers
             /\ h.step = graph.step /\ h.reads = graph.reads /\ h.asked = graph.asked
  <2>1. CASE Advance([g EXCEPT !.next = "end", !.output = "HUMAN_QUESTION_SKIPPED"])
    <3> DEFINE h == [g EXCEPT !.next = "end", !.output = "HUMAN_QUESTION_SKIPPED"]
    <3>1. /\ h.next = "end" /\ h.answers = answers /\ h.step = graph.step
          /\ h.reads = graph.reads /\ h.asked = graph.asked
      BY <1>3, <1>4
    <3> QED
      BY <2>1, <3>1
  <2>2. CASE Advance([g EXCEPT !.next = "decide"])
    <3> DEFINE h == [g EXCEPT !.next = "decide"]
    <3>1. /\ h.next = "decide" /\ h.answers = answers /\ h.step = graph.step
          /\ h.reads = graph.reads /\ h.asked = graph.asked
      BY <1>3, <1>4
    <3> QED
      BY <2>2, <3>1
  <2> QED
    BY <2>1, <2>2 DEF AcceptAnswer, g, answers
<1>6. PICK h : /\ Advance(h) /\ h.next \in {"decide", "end"} /\ h.answers = answers
               /\ h.step = graph.step /\ h.reads = graph.reads /\ h.asked = graph.asked
  BY <1>5
<1>7. GraphOK(h)
  BY <1>6 DEF Advance, InvestigationInv, GraphsOK
<1>8. PointOK(h)
  BY <1>1, <1>3, <1>6, <1>7 DEF PointOK
<1>9. h.next = "decide" => Leads(ledger.calls, answer, t, h.step, h.reads, h.asked, h.answers)
  BY <1>1, <1>3, <1>6 DEF Leads, OnTop, answers
<1>10. Before(ledger.calls, answer, t, h)
  BY <1>1, <1>3, <1>6, <1>9, PointFacts DEF Before, OnTop
<1> QED
  BY <1>1, <1>2, <1>6, <1>8, <1>10, AdvanceReplay DEF t

\* What a claimed run resumes with agrees with its ledger, whatever the lag of
\* the checkpoints and however often its worker died.
THEOREM ReplayInductive == InvestigationSpec => [](InvestigationInv /\ ReplayInv)
<1>1. InvestigationInv /\ ReplayInv /\ [Next]_vars => (InvestigationInv /\ ReplayInv)'
  <2> SUFFICES ASSUME InvestigationInv, ReplayInv, [Next]_vars
               PROVE  InvestigationInv' /\ ReplayInv'
    OBVIOUS
  <2>1. InvestigationInv'
    BY OutsideKeeps, ModeKeeps, ReserveKeeps, SendKeeps, SettleKeeps, BindKeeps, JudgeKeeps,
       AuthorizeKeeps, AdaptKeeps, AcceptAnswerKeeps DEF Next, Step
  <2>2. CASE UNCHANGED vars
    BY <2>1, <2>2 DEF vars, ReplayInv
  <2>3. CASE Step
    BY <2>1, <2>3, ClaimReplay, ModeReplay, ReserveReplay, SendReplay, SettleReplay, BindReplay,
       JudgeReplay, AuthorizeReplay, AdaptReplay, AcceptAnswerReplay DEF Step
  <2>4. CASE SaveCheckpoint \/ Answer \/ Crash
    BY <2>1, <2>4, CrashReplay, SaveReplay, AnswerReplay
  <2> QED
    BY <2>1, <2>2, <2>3, <2>4 DEF Next
<1> QED
  BY <1>1, InitKeeps, InitReplay, PTL DEF InvestigationSpec
-----------------------------------------------------------------------------
\* How the graph moves on: to the end, to the next decision with the step it
\* has, or from a decision with the step after it.
Follows(t, g) ==
  /\ t.next # "end" /\ t.step \in Nat /\ g.step \in Nat
  /\ \/ g.next = "end" /\ g.step \in {t.step, t.step + 1}
     \/ g.next = "decide" /\ t.next # "decide" /\ g.step = t.step
     \/ g.next \in {"collect", "wait"} /\ t.next = "decide" /\ g.step = t.step + 1

Stands(g) == g.output # "REQUEST_INPUT_CHANGED"

\* reserve() finds the request with another prompt than it has now.
PromptDiffers == work.at = "reserve" /\ Known /\ ledger.calls[work.request].prompt # Prompt

\* A node is finished, and the ledger keeps its requests.
Moves ==
  /\ ledger'.calls = ledger.calls /\ ledger'.modes = ledger.modes
  /\ \E g : /\ Advance(g) /\ Follows(Last(saved, unsaved), g)
            /\ Stands(graph) /\ ~PromptDiffers => Stands(g)

\* The worker goes on inside its node, and the ledger keeps its requests.
Stays ==
  /\ ledger'.calls = ledger.calls /\ ledger'.modes = ledger.modes
  /\ UNCHANGED <<saved, unsaved, answer>> /\ graph'.output = graph.output

LEMMA GraphFacts ==
  ASSUME InvestigationInv, ReplayInv, work.at # "down"
  PROVE  /\ Last(saved, unsaved).next = graph.next /\ Last(saved, unsaved).step = graph.step
         /\ graph.step \in Nat
         /\ DOMAIN graph = {"next", "step", "decision", "reads", "asked", "answers", "output"}
BY GraphPoint, PointFacts DEF PointOK, GraphOK, OnTop

LEMMA HandoffMoves ==
  ASSUME InvestigationInv, ReplayInv, work.at \in AtWork, NEW code, Handoff(code),
         ledger'.calls = ledger.calls, ledger'.modes = ledger.modes,
         code # "REQUEST_INPUT_CHANGED" \/ PromptDiffers
  PROVE  Moves
<1> DEFINE g == [graph EXCEPT !.next = "end", !.output = code]
           t == Last(saved, unsaved)
<1>1. Advance(g) /\ graph.next # "end" /\ work.at # "down"
  BY DEF Handoff, AtWork, InvestigationInv, WorkOK
<1>2. /\ t.next = graph.next /\ t.step = graph.step /\ graph.step \in Nat
      /\ g.next = "end" /\ g.step = graph.step /\ g.output = code
  BY <1>1, GraphFacts
<1> HIDE DEF g, t
<1>3. Follows(t, g)
  BY <1>1, <1>2 DEF Follows
<1>4. ~PromptDiffers => Stands(g)
  BY <1>2 DEF Stands
<1> QED
  BY <1>1, <1>3, <1>4 DEF Moves, t

LEMMA RefusedMoves ==
  ASSUME InvestigationInv, ReplayInv, work.at \in AtWork, NEW code, Refused(code),
         ledger'.calls = ledger.calls, ledger'.modes = ledger.modes,
         code # "REQUEST_INPUT_CHANGED" \/ PromptDiffers
  PROVE  Moves \/ Stays
<1>1. CASE work.request[1] = "initial"
  BY <1>1 DEF Refused, Fail, Within, Stays
<1>2. CASE work.request[1] # "initial"
  BY <1>2, HandoffMoves DEF Refused
<1> QED
  BY <1>1, <1>2

\* reserve() of a request that is known, or that the budget has no room for.
LEMMA RefusalMoves ==
  ASSUME InvestigationInv, ReplayInv, work.at = "reserve",
         \/ Known /\ Replay
         \/ ledger' = [ledger EXCEPT !.exhausted = TRUE] /\ Refused("BUDGET")
  PROVE  Moves \/ Stays
<1>1. work.at \in AtWork /\ ledger'.calls = ledger.calls /\ ledger'.modes = ledger.modes
  <2>1. CASE ledger' = ledger
    BY <2>1 DEF AtWork
  <2>2. CASE ledger' = [ledger EXCEPT !.exhausted = TRUE]
    BY <2>2 DEF AtWork, InvestigationInv
  <2> QED
    BY <2>1, <2>2 DEF Replay
<1>2. CASE Refused("BUDGET") \/ Refused("REQUEST_OUTCOME_UNKNOWN")
  BY <1>1, <1>2, RefusedMoves
<1>3. CASE PromptDiffers /\ Refused("REQUEST_INPUT_CHANGED")
  BY <1>1, <1>3, RefusedMoves
<1>4. CASE Known /\ \E result : Within(Replied(result))
  BY <1>1, <1>4 DEF Within, Stays
<1> QED
  BY <1>2, <1>3, <1>4 DEF Replay, PromptDiffers

LEMMA BindMoves ==
  ASSUME InvestigationInv, ReplayInv, Bind
  PROVE  Moves \/ Stays
<1> DEFINE g == [graph EXCEPT !.next = "decide"]
           t == Last(saved, unsaved)
<1>1. work.at = "bind" /\ ledger' = ledger
  BY DEF Bind
<1>2. graph.next = "initialize"
  BY <1>1 DEF ReplayInv, NowFit, AtWork
<1>3. /\ t.next = graph.next /\ t.step = graph.step /\ graph.step \in Nat
      /\ g.next = "decide" /\ g.step = graph.step /\ g.output = graph.output
  BY <1>1, GraphFacts
<1> HIDE DEF t
<1>4. CASE Advance(g)
  <2> HIDE DEF g
  <2>1. Follows(t, g) /\ (Stands(graph) => Stands(g))
    BY <1>2, <1>3 DEF Follows, Stands
  <2> QED
    BY <1>1, <1>4, <2>1 DEF Moves, t
<1>5. CASE \E w : Within(w)
  BY <1>1, <1>5 DEF Within, Stays
<1> QED
  BY <1>4, <1>5 DEF Bind

\* A decision is followed, corrected or given up.
LEMMA AcceptMoves ==
  ASSUME InvestigationInv, ReplayInv, work.at = "judge", ledger' = ledger,
         NEW r, r = work.result[1], Acceptable(r), Accept(r)
  PROVE  Moves
<1> DEFINE g == [graph EXCEPT !.step = work.request[2], !.decision = r]
           t == Last(saved, unsaved)
<1>1. /\ t.next = graph.next /\ t.step = graph.step /\ graph.step \in Nat
      /\ DOMAIN graph = {"next", "step", "decision", "reads", "asked", "answers", "output"}
      /\ work.request[2] = graph.step + 1 /\ graph.next = "decide"
  BY GraphFacts, JudgeFacts
<1>2. DOMAIN g = DOMAIN graph /\ g.step = graph.step + 1 /\ g.output = graph.output
  BY <1>1
<1> HIDE DEF g, t
<1>3. SUFFICES ASSUME NEW h, Advance(h), h.next \in {"collect", "wait", "end"},
                      h.step = graph.step + 1, Stands(graph) => Stands(h)
               PROVE  Moves
  <2>1. CASE r.action = "collect"
    <3> DEFINE h == [g EXCEPT !.next = "collect"]
    <3>1. Advance(h)
      BY <2>1 DEF Accept, g
    <3>2. h.next = "collect" /\ h.step = graph.step + 1 /\ h.output = graph.output
      BY <1>1, <1>2
    <3> HIDE DEF h
    <3> QED
      BY <1>3, <3>1, <3>2 DEF Stands
  <2>2. CASE r.action = "ask"
    <3> DEFINE asked == Append(g.asked, r.slot)
               h == [g EXCEPT !.next = "wait", !.asked = asked]
    <3>1. Advance(h)
      BY <2>2 DEF Accept, g
    <3> HIDE DEF asked
    <3>2. h.next = "wait" /\ h.step = graph.step + 1 /\ h.output = graph.output
      BY <1>1, <1>2
    <3> HIDE DEF h
    <3> QED
      BY <1>3, <3>1, <3>2 DEF Stands
  <2>3. CASE r.action \notin {"collect", "ask"}
    <3> DEFINE action == r.action
               h == [g EXCEPT !.next = "end", !.output = action]
    <3>1. Advance(h)
      BY <2>3 DEF Accept, g
    <3>2. action # "REQUEST_INPUT_CHANGED"
      BY DEF Acceptable
    <3> HIDE DEF action
    <3>3. h.next = "end" /\ h.step = graph.step + 1 /\ h.output = action
      BY <1>1, <1>2
    <3> HIDE DEF h
    <3> QED
      BY <1>3, <3>1, <3>2, <3>3 DEF Stands
  <2> QED
    BY <2>1, <2>2, <2>3
<1>4. Follows(t, h)
  BY <1>1, <1>3 DEF Follows
<1> QED
  BY <1>3, <1>4 DEF Moves, t

LEMMA JudgeMoves ==
  ASSUME InvestigationInv, ReplayInv, Judge
  PROVE  Moves \/ Stays
<1>1. work.at = "judge" /\ work.at \in AtWork
  BY DEF Judge, AtWork
<1>2. CASE ledger' = ledger /\ \E code : Handoff(code) /\ code # "REQUEST_INPUT_CHANGED"
  BY <1>1, <1>2, HandoffMoves
<1>3. CASE ledger' = ledger /\ Acceptable(work.result[1]) /\ Accept(work.result[1])
  BY <1>1, <1>3, AcceptMoves
<1>4. CASE Correct(work.result[1])
  <2>1. ledger'.calls = ledger.calls /\ ledger'.modes = ledger.modes
    <3>1. CASE ledger' = [ledger EXCEPT !.diagnosisCorrection = work.request[2]]
      BY <3>1 DEF InvestigationInv
    <3>2. CASE ledger' = [ledger EXCEPT !.correction = work.request[2]]
      BY <3>2 DEF InvestigationInv
    <3> QED
      BY <1>4, <3>1, <3>2 DEF Correct
  <2>2. \E w : Within(w)
    BY <1>4 DEF Correct
  <2> QED
    BY <2>1, <2>2 DEF Within, Stays
<1> QED
  BY <1>2, <1>3, <1>4 DEF Judge

LEMMA AuthorizeMoves ==
  ASSUME InvestigationInv, ReplayInv, Authorize
  PROVE  Moves \/ Stays
<1> DEFINE q == graph.decision.batch[work.index]
<1>1. work.at = "authorize" /\ work.at \in AtWork
  BY DEF Authorize, AtWork
<1>2. CASE ledger' = ledger /\ \E code : Handoff(code) /\ code # "REQUEST_INPUT_CHANGED"
  BY <1>1, <1>2, HandoffMoves
<1>3. CASE /\ NextAuthorized
           /\ ledger' = ledger \/ \E g : ledger' = [ledger EXCEPT !.grants = Put(@, work.request, g)]
  <2>1. ledger'.calls = ledger.calls /\ ledger'.modes = ledger.modes
    <3>1. ASSUME NEW grants, ledger' = [ledger EXCEPT !.grants = grants]
          PROVE  ledger'.calls = ledger.calls /\ ledger'.modes = ledger.modes
      BY <3>1 DEF InvestigationInv
    <3> QED
      BY <1>3, <3>1
  <2>2. \E w : Within(w)
    BY <1>3 DEF NextAuthorized
  <2> QED
    BY <2>1, <2>2 DEF Within, Stays
<1>4. CASE work.request \in DOMAIN ledger.grants
  BY <1>2, <1>3, <1>4 DEF Authorize
<1>5. CASE work.request \notin DOMAIN ledger.grants
  <2> HIDE DEF q
  <2>1. PICK aged \in BOOLEAN :
          IF Refusal(q, aged) # None
          THEN Handoff(Refusal(q, aged)) /\ UNCHANGED ledger
          ELSE /\ ledger' = [ledger EXCEPT !.grants = Put(@, work.request, Grant(q, aged))]
               /\ NextAuthorized /\ UNCHANGED sent
    BY <1>5 DEF Authorize, q
  <2>2. Refusal(q, aged) # "REQUEST_INPUT_CHANGED"
    BY DEF Refusal, None
  <2> QED
    BY <1>2, <1>3, <2>1, <2>2
<1> QED
  BY <1>4, <1>5

LEMMA AdaptMoves ==
  ASSUME InvestigationInv, ReplayInv, Adapt
  PROVE  Moves \/ Stays
<1> DEFINE read == [query |-> graph.decision.batch[work.index], result |-> work.result[1],
                    by |-> work.request]
           reads == Append(graph.reads, read)
           g == [graph EXCEPT !.reads = reads]
           t == Last(saved, unsaved)
<1>1. work.at = "adapt" /\ ledger' = ledger
  BY DEF Adapt
<1>2. graph.next = "collect"
  BY <1>1 DEF ReplayInv, NowFit, AtWork, InvestigationInv, WorkOK
<1>3. /\ t.next = graph.next /\ t.step = graph.step /\ graph.step \in Nat
      /\ DOMAIN graph = {"next", "step", "decision", "reads", "asked", "answers", "output"}
  BY <1>1, GraphFacts
<1> HIDE DEF reads, t
<1>4. DOMAIN g = DOMAIN graph /\ g.step = graph.step /\ g.output = graph.output
  BY <1>3
<1> HIDE DEF g
<1>5. CASE Advance([g EXCEPT !.next = "end", !.output = "TARGET_CHANGED"])
  <2> DEFINE h == [g EXCEPT !.next = "end", !.output = "TARGET_CHANGED"]
  <2>1. h.next = "end" /\ h.step = graph.step /\ h.output = "TARGET_CHANGED" /\ Advance(h)
    BY <1>3, <1>4, <1>5
  <2> HIDE DEF h
  <2>2. Follows(t, h) /\ Stands(h)
    BY <1>2, <1>3, <2>1 DEF Follows, Stands
  <2> QED
    BY <1>1, <2>1, <2>2 DEF Moves, t
<1>6. CASE Advance([g EXCEPT !.next = "decide"])
  <2> DEFINE h == [g EXCEPT !.next = "decide"]
  <2>1. h.next = "decide" /\ h.step = graph.step /\ h.output = graph.output /\ Advance(h)
    BY <1>3, <1>4, <1>6
  <2> HIDE DEF h
  <2>2. Follows(t, h) /\ (Stands(graph) => Stands(h))
    BY <1>2, <1>3, <2>1 DEF Follows, Stands
  <2> QED
    BY <1>1, <2>1, <2>2 DEF Moves, t
<1>7. CASE graph' = g /\ UNCHANGED <<saved, unsaved, answer>>
  BY <1>1, <1>4, <1>7 DEF Stays
<1> QED
  BY <1>5, <1>6, <1>7 DEF Adapt, g, reads

LEMMA AcceptAnswerMoves ==
  ASSUME InvestigationInv, ReplayInv, AcceptAnswer
  PROVE  Moves
<1> DEFINE answers == Append(graph.answers, answer)
           g == [graph EXCEPT !.answers = answers]
           t == Last(saved, unsaved)
<1>1. work.at = "accept" /\ graph.next = "wait"
  BY DEF AcceptAnswer, InvestigationInv, WorkOK
<1>2. ledger'.calls = ledger.calls /\ ledger'.modes = ledger.modes
  <2>1. ASSUME NEW receipts, ledger' = [ledger EXCEPT !.receipts = receipts]
        PROVE  ledger'.calls = ledger.calls /\ ledger'.modes = ledger.modes
    BY <2>1 DEF InvestigationInv
  <2> QED
    BY <2>1 DEF AcceptAnswer
<1>3. /\ t.next = graph.next /\ t.step = graph.step /\ graph.step \in Nat
      /\ DOMAIN graph = {"next", "step", "decision", "reads", "asked", "answers", "output"}
  BY <1>1, GraphFacts
<1> HIDE DEF answers, t
<1>4. DOMAIN g = DOMAIN graph /\ g.step = graph.step /\ g.output = graph.output
  BY <1>3
<1> HIDE DEF g
<1>5. CASE Advance([g EXCEPT !.next = "end", !.output = "HUMAN_QUESTION_SKIPPED"])
  <2> DEFINE h == [g EXCEPT !.next = "end", !.output = "HUMAN_QUESTION_SKIPPED"]
  <2>1. h.next = "end" /\ h.step = graph.step /\ h.output = "HUMAN_QUESTION_SKIPPED" /\ Advance(h)
    BY <1>3, <1>4, <1>5
  <2> HIDE DEF h
  <2>2. Follows(t, h) /\ Stands(h)
    BY <1>1, <1>3, <2>1 DEF Follows, Stands
  <2> QED
    BY <1>2, <2>1, <2>2 DEF Moves, t
<1>6. CASE Advance([g EXCEPT !.next = "decide"])
  <2> DEFINE h == [g EXCEPT !.next = "decide"]
  <2>1. h.next = "decide" /\ h.step = graph.step /\ h.output = graph.output /\ Advance(h)
    BY <1>3, <1>4, <1>6
  <2> HIDE DEF h
  <2>2. Follows(t, h) /\ (Stands(graph) => Stands(h))
    BY <1>1, <1>3, <2>1 DEF Follows, Stands
  <2> QED
    BY <1>2, <2>1, <2>2 DEF Moves, t
<1> QED
  BY <1>5, <1>6 DEF AcceptAnswer, g, answers

-----------------------------------------------------------------------------
\* The stored point and those on their way.
Points(s, u) == {s} \cup {u[i] : i \in DOMAIN u}

\* No decision was prepared that the points do not lead to.
NotAhead(modes, s, u) ==
  \A r \in DOMAIN modes :
    \/ r[2] <= s.step + 1
    \/ \E i \in DOMAIN u : u[i].next = "decide" /\ r[2] <= u[i].step + 1

\* What was paid for the decision after point c has the prompt that c leads to.
Paid(calls, ans, c) ==
  c.next # "end" => \A again \in BOOLEAN : Ask(c.step + 1, again) \in DOMAIN calls =>
    LET p == calls[Ask(c.step + 1, again)].prompt IN Leads(calls, ans, c, p[1], p[2], p[3], p[4])

\* The prompts on the ledger are those a replay makes.
PromptInv ==
  /\ NotAhead(ledger.modes, saved, unsaved)
  /\ \A c \in Points(saved, unsaved) : Paid(ledger.calls, answer, c) /\ Stands(c)
  /\ Stands(graph)

LEMMA PointsFacts ==
  ASSUME NEW calls, NEW ans, NEW s, NEW u, Chain(calls, ans, s, u), NEW c \in Points(s, u)
  PROVE  /\ PointOK(c) /\ c.step \in Nat
         /\ c = Last(s, u) \/ Before(calls, ans, c, Last(s, u))
         /\ c.step <= Last(s, u).step
         /\ Last(s, u) \in Points(s, u) /\ PointOK(Last(s, u)) /\ Last(s, u).step \in Nat
<1> DEFINE t == Last(s, u)
<1>1. /\ PointOK(t) /\ (c = t \/ Before(calls, ans, c, t)) /\ t \in Points(s, u) /\ PointOK(c)
  <2>1. /\ PointOK(t) /\ PointOK(s) /\ (s = t \/ Before(calls, ans, s, t))
        /\ \A i \in DOMAIN u : u[i] = t \/ Before(calls, ans, u[i], t)
        /\ s = t \/ \E i \in DOMAIN u : u[i] = t
    <3>1. PointOK(t) /\ PointOK(s) /\ (s = t \/ Before(calls, ans, s, t))
      BY LastFacts
    <3>2. \A i \in DOMAIN u : u[i] = t \/ Before(calls, ans, u[i], t)
      BY LastFacts
    <3>3. s = t \/ \E i \in DOMAIN u : u[i] = t
      BY LastFacts
    <3> QED
      BY <3>1, <3>2, <3>3
  <2>2. \A i \in DOMAIN u : PointOK(u[i])
    BY DEF Chain
  <2> HIDE DEF t
  <2> QED
    BY <2>1, <2>2 DEF Points
<1> HIDE DEF t
<1>2. c.step \in Nat /\ t.step \in Nat /\ c.step <= t.step
  BY <1>1, PointFacts DEF Before
<1> QED
  BY <1>1, <1>2 DEF t

LEMMA PaidGrows ==
  ASSUME NEW calls, NEW calls2, Grows(calls, calls2), DOMAIN calls2 = DOMAIN calls,
         \A r \in DOMAIN calls : calls2[r].prompt = calls[r].prompt,
         NEW ans, NEW c, Paid(calls, ans, c)
  PROVE  Paid(calls2, ans, c)
BY CollectedGrows DEF Paid, Leads

\* Steps that reserve nothing and store nothing.
LEMMA PromptKept ==
  ASSUME PromptInv, Grows(ledger.calls, ledger'.calls), DOMAIN ledger'.calls = DOMAIN ledger.calls,
         \A r \in DOMAIN ledger.calls : ledger'.calls[r].prompt = ledger.calls[r].prompt,
         DOMAIN ledger'.modes = DOMAIN ledger.modes, UNCHANGED <<saved, unsaved, answer>>,
         Stands(graph')
  PROVE  PromptInv'
<1>1. NotAhead(ledger'.modes, saved', unsaved')
  BY DEF PromptInv, NotAhead
<1>2. \A c \in Points(saved', unsaved') : Paid(ledger'.calls, answer', c) /\ Stands(c)
  BY PaidGrows DEF PromptInv
<1> QED
  BY <1>1, <1>2 DEF PromptInv

LEMMA StaysPrompt ==
  ASSUME PromptInv, Stays
  PROVE  PromptInv'
BY SameGrows, PromptKept DEF Stays, PromptInv, Stands

\* A request to the model that is on the ledger was prepared.
LEMMA Prepared ==
  ASSUME ReplayInv, NEW n, NEW again \in BOOLEAN, Ask(n, again) \in DOMAIN ledger.calls
  PROVE  Ask(n, again) \in DOMAIN ledger.modes /\ Ask(n, again)[2] = n /\ n \in Nat
<1> DEFINE q == Ask(n, again)
<1>1. q[1] = "model" /\ q[2] = n
  BY RequestFacts
<1>2. q \in DOMAIN ledger.calls
  OBVIOUS
<1> HIDE DEF q
<1>3. q \in DOMAIN ledger.modes
  BY <1>1, <1>2 DEF ReplayInv, RequestsFit, RequestFit
<1>4. q[2] \in Nat
  BY <1>3 DEF ReplayInv, ModesFit
<1> QED
  BY <1>1, <1>3, <1>4 DEF q

\* The points lead no further than to the decision after the last one.
LEMMA NoneAhead ==
  ASSUME ReplayInv, NotAhead(ledger.modes, saved, unsaved), NEW again \in BOOLEAN, NEW n \in Nat,
         n > Last(saved, unsaved).step + 1
  PROVE  Ask(n, again) \notin DOMAIN ledger.calls
<1> DEFINE q == Ask(n, again)
           t == Last(saved, unsaved)
<1>1. SUFFICES ASSUME q \in DOMAIN ledger.calls PROVE FALSE
  OBVIOUS
<1>2. q \in DOMAIN ledger.modes /\ q[2] = n
  BY <1>1, Prepared
<1>3. PICK c \in Points(saved, unsaved) : q[2] <= c.step + 1
  BY <1>2 DEF NotAhead, Points
<1>4. c.step \in Nat /\ t.step \in Nat /\ c.step <= t.step
  BY PointsFacts DEF ReplayInv
<1> HIDE DEF t, q
<1>5. n > t.step + 1
  BY DEF t
<1> QED
  BY <1>2, <1>3, <1>4, <1>5

\* A node is finished: what follows was not paid for, or with this prompt.
LEMMA MovesPrompt ==
  ASSUME ReplayInv, ReplayInv', PromptInv, Moves, ~PromptDiffers
  PROVE  PromptInv'
<1> DEFINE t == Last(saved, unsaved)
<1>1. PICK g : Advance(g) /\ Follows(t, g) /\ Stands(g)
  BY DEF Moves, PromptInv
<1>2. /\ graph' = g /\ unsaved' = Append(unsaved, g) /\ saved' = saved /\ answer' = answer
      /\ ledger'.calls = ledger.calls /\ ledger'.modes = ledger.modes
  BY <1>1 DEF Advance, Moves
<1>3. /\ Chain(ledger.calls, answer, saved, unsaved) /\ Chain(ledger.calls, answer, saved, unsaved')
      /\ IsSeq(unsaved)
  BY <1>2 DEF ReplayInv, Chain
<1>4. /\ DOMAIN unsaved = 1..Len(unsaved) /\ DOMAIN unsaved' = 1..Len(unsaved) + 1
      /\ unsaved'[Len(unsaved) + 1] = g /\ \A i \in DOMAIN unsaved : unsaved'[i] = unsaved[i]
      /\ Len(unsaved) \in Nat
  BY <1>2, <1>3, AppendIsSeq
<1>5. /\ \A i \in DOMAIN unsaved : i \in DOMAIN unsaved' /\ unsaved'[i] = unsaved[i]
      /\ \A i \in DOMAIN unsaved' : unsaved'[i] = g \/ (i \in DOMAIN unsaved /\ unsaved'[i] = unsaved[i])
  BY <1>4
<1>6. PointOK(g) /\ Before(ledger.calls, answer, t, g)
  <2>1. Len(unsaved) + 1 \in DOMAIN unsaved'
    BY <1>4
  <2>2. CASE unsaved = <<>>
    BY <1>3, <1>4, <2>1, <2>2 DEF Chain, Last
  <2>3. CASE unsaved # <<>>
    <3>1. Len(unsaved) \in DOMAIN unsaved' /\ Len(unsaved) \in DOMAIN unsaved /\ Len(unsaved) < Len(unsaved) + 1
      BY <1>3, <1>4, <2>3, SeqFacts
    <3> QED
      BY <1>3, <1>4, <2>1, <2>3, <3>1 DEF Chain, Last
  <2> QED
    BY <2>2, <2>3
<1> HIDE DEF t
<1>7. NotAhead(ledger'.modes, saved', unsaved')
  BY <1>2, <1>5 DEF PromptInv, NotAhead
<1>8. Paid(ledger.calls, answer, g)
  <2>1. CASE g.next = "end"
    BY <2>1 DEF Paid
  <2>2. CASE g.next = "decide"
    <3>1. t.next # "end" /\ g.step = t.step
      BY <1>1, <2>2 DEF Follows
    <3>2. Leads(ledger.calls, answer, t, g.step, g.reads, g.asked, g.answers)
      BY <1>6, <2>2, <3>1, PointFacts, LastFacts, <1>3 DEF Before, t
    <3>3. Paid(ledger.calls, answer, t) /\ PointOK(t)
      BY <1>3, PointsFacts, LastFacts DEF PromptInv, Points, t
    <3>4. SUFFICES ASSUME NEW again \in BOOLEAN, Ask(g.step + 1, again) \in DOMAIN ledger.calls,
                          NEW p, p = ledger.calls[Ask(g.step + 1, again)].prompt
                   PROVE  Leads(ledger.calls, answer, g, p[1], p[2], p[3], p[4])
      BY DEF Paid
    <3>5. Leads(ledger.calls, answer, t, p[1], p[2], p[3], p[4])
      BY <3>1, <3>3, <3>4 DEF Paid
    <3>6. p[1] = g.step /\ p[2] = g.reads /\ p[3] = g.asked /\ p[4] = g.answers
      BY <3>2, <3>3, <3>5, LeadsOnce
    <3> QED
      BY <2>2, <3>6 DEF Leads
  <2>3. CASE g.next \in {"collect", "wait"}
    <3>1. g.step = t.step + 1 /\ t.step \in Nat
      BY <1>1, <2>3 DEF Follows
    <3>2. g.step + 1 \in Nat /\ g.step + 1 > t.step + 1
      BY <3>1
    <3>3. \A again \in BOOLEAN : Ask(g.step + 1, again) \notin DOMAIN ledger.calls
      BY <3>2, NoneAhead DEF PromptInv, t
    <3> QED
      BY <3>3 DEF Paid
  <2> QED
    BY <1>1, <2>1, <2>2, <2>3 DEF Follows
<1>9. Points(saved', unsaved') \subseteq Points(saved, unsaved) \cup {g}
  BY <1>2, <1>5 DEF Points
<1> QED
  BY <1>1, <1>2, <1>7, <1>8, <1>9 DEF PromptInv

\* terminal_mode(): the decision that is prepared is the one the last point
\* leads to.
LEMMA ModePrompt ==
  ASSUME InvestigationInv, ReplayInv, PromptInv, TerminalMode
  PROVE  PromptInv'
<1> DEFINE q == work.request
           modes2 == ledger'.modes
           t == Last(saved, unsaved)
<1>1. /\ work.at = "mode" /\ ledger'.calls = ledger.calls
      /\ modes2 = Put(ledger.modes, q, Mode)
      /\ UNCHANGED <<graph, saved, unsaved, answer>>
  BY DEF TerminalMode, Within, InvestigationInv
<1>2. DecisionFit(work, graph, ledger.calls, ledger.modes) /\ work.attempt \in {0, 1}
  BY <1>1 DEF ReplayInv, NowFit, AtWork
<1>3. q = Ask(graph.step + 1, FALSE) \/ q = Ask(graph.step + 1, TRUE)
  BY <1>2 DEF DecisionFit
<1>4. t.next = "decide" /\ t.step = graph.step /\ t.step \in Nat
  BY <1>1, <1>2, GraphFacts DEF DecisionFit
<1>5. t = saved \/ \E i \in DOMAIN unsaved : unsaved[i] = t
  BY LastFacts DEF ReplayInv
<1> HIDE DEF q, t, modes2
<1>6. q[2] = t.step + 1
  <2>1. \A n, b : Ask(n, b)[2] = n
    BY DEF Ask
  <2>2. q[2] = graph.step + 1
    BY <1>3, <2>1, Zenon
  <2> QED
    BY <1>4, <2>2
<1>7. DOMAIN modes2 = DOMAIN ledger.modes \cup {q}
  BY <1>1 DEF Put
<1>8. NotAhead(modes2, saved, unsaved)
  <2> SUFFICES ASSUME NEW r \in DOMAIN modes2
               PROVE  \/ r[2] <= saved.step + 1
                      \/ \E i \in DOMAIN unsaved : unsaved[i].next = "decide" /\ r[2] <= unsaved[i].step + 1
    BY DEF NotAhead
  <2>1. CASE r \in DOMAIN ledger.modes
    BY <2>1 DEF PromptInv, NotAhead
  <2>2. CASE r = q
    <3>1. r[2] <= t.step + 1
      BY <1>4, <1>6, <2>2
    <3> QED
      BY <1>4, <1>5, <3>1
  <2> QED
    BY <1>7, <2>1, <2>2
<1> QED
  BY <1>1, <1>8 DEF PromptInv, modes2

\* The decision that is asked for again, or judged, was asked for with the
\* values the graph has now.
LEMMA PaidPrompt ==
  ASSUME InvestigationInv, ReplayInv, PromptInv, work.at \in {"reserve", "judge"},
         work.request[1] = "model", work.request \in DOMAIN ledger.calls,
         NEW p, p = ledger.calls[work.request].prompt
  PROVE  /\ p[1] = graph.step /\ p[2] = graph.reads /\ p[3] = graph.asked /\ p[4] = graph.answers
         /\ p[5] = work.terminal
<1> DEFINE q == work.request
           t == Last(saved, unsaved)
<1>1. p = <<p[1], p[2], p[3], p[4], ledger.modes[q], Feedback(ledger.calls, q[2], q[3])>>
  BY DEF ReplayInv, RequestsFit, RequestFit
<1>2. DecisionFit(work, graph, ledger.calls, ledger.modes) /\ work.attempt \in {0, 1}
  BY DEF ReplayInv, NowFit, AtWork
<1>3. work.terminal = ledger.modes[q] /\ \E again \in BOOLEAN : q = Ask(graph.step + 1, again)
  BY <1>2 DEF DecisionFit
<1>4. /\ PointOK(t) /\ t.next = "decide" /\ graph.step = t.step
      /\ graph.reads = t.reads /\ graph.asked = t.asked /\ graph.answers = t.answers
  BY <1>2, GraphPoint DEF DecisionFit, OnTop
<1>5. Paid(ledger.calls, answer, t)
  <2>1. Chain(ledger.calls, answer, saved, unsaved) /\ saved \in Points(saved, unsaved)
    BY DEF ReplayInv, Points
  <2> QED
    BY <2>1, PointsFacts DEF PromptInv
<1> HIDE DEF t, q
<1>6. Leads(ledger.calls, answer, t, p[1], p[2], p[3], p[4])
  BY <1>3, <1>4, <1>5 DEF Paid, q
<1>7. Leads(ledger.calls, answer, t, graph.step, graph.reads, graph.asked, graph.answers)
  BY <1>4 DEF Leads
<1>8. p[1] = graph.step /\ p[2] = graph.reads /\ p[3] = graph.asked /\ p[4] = graph.answers
  BY <1>4, <1>6, <1>7, LeadsOnce
<1>9. p[5] = ledger.modes[q]
  <2> DEFINE e5 == ledger.modes[q]
             e6 == Feedback(ledger.calls, q[2], q[3])
  <2>1. p = <<p[1], p[2], p[3], p[4], e5, e6>>
    BY <1>1
  <2> HIDE DEF e5, e6
  <2>2. p[5] = e5
    BY <2>1
  <2> QED
    BY <2>2 DEF e5
<1> QED
  BY <1>3, <1>8, <1>9

\* A request that is on the ledger is found with the prompt it has now: for a
\* read whatever the crashes, for a decision as long as the points lead to it.
LEMMA SamePrompt ==
  ASSUME InvestigationInv, ReplayInv, work.at = "reserve", Known,
         work.request[1] = "model" => PromptInv
  PROVE  ledger.calls[work.request].prompt = Prompt
<1> DEFINE q == work.request
           c == ledger.calls[q]
<1>1. /\ RequestFit(ledger.calls, ledger.modes, ledger.grants, q, c)
      /\ q[1] \in {"initial", "model", "tool"} /\ q \in DOMAIN ledger.calls
  BY DEF ReplayInv, RequestsFit, Known, RequestFit
<1>2. CASE q[1] = "initial"
  BY <1>1, <1>2 DEF RequestFit, Prompt
<1>3. CASE q[1] = "tool"
  <2>1. q = Tool(graph.step, work.index) /\ Granted(work.index)
    BY <1>3 DEF InvestigationInv, WorkOK
  <2>2. graph.decision.batch[work.index] = ledger.grants[q].query
    BY <2>1 DEF Granted
  <2> QED
    BY <1>1, <1>3, <2>2 DEF Prompt, RequestFit
<1>4. CASE q[1] = "model"
  <2> DEFINE p == c.prompt
             e == Call(work.terminal)
             e5 == ledger.modes[q]
             e6 == Feedback(ledger.calls, q[2], q[3])
  <2>1. p = <<p[1], p[2], p[3], p[4], e5, e6>>
    BY <1>1, <1>4 DEF RequestFit
  <2>2. Prompt = <<Prompt[1], Prompt[2], Prompt[3], Prompt[4], e5, e6>>
    <3>1. /\ e.prompt = Prompt
          /\ RequestFit(ledger.calls, ledger.modes, ledger.grants, q, e)
      BY ReservedEntry
    <3> HIDE DEF e
    <3> QED
      BY <1>4, <3>1 DEF RequestFit
  <2>3. /\ Prompt[1] = graph.step /\ Prompt[2] = graph.reads
        /\ Prompt[3] = graph.asked /\ Prompt[4] = graph.answers
    BY <1>4 DEF Prompt
  <2>4. p[1] = Prompt[1] /\ p[2] = Prompt[2] /\ p[3] = Prompt[3] /\ p[4] = Prompt[4]
    BY <1>1, <1>4, <2>3, PaidPrompt
  <2> QED
    BY <2>1, <2>2, <2>4
<1> QED
  BY <1>1, <1>2, <1>3, <1>4

\* The entry that is reserved has the prompt its decision is made with.
LEMMA ReservePrompt ==
  ASSUME InvestigationInv, ReplayInv, PromptInv, work.at = "reserve", ~Known,
         ledger'.modes = ledger.modes,
         ledger'.calls = Put(ledger.calls, work.request, Call(work.terminal)),
         UNCHANGED <<graph, saved, unsaved, answer>>
  PROVE  PromptInv'
<1> DEFINE q == work.request
           calls == ledger.calls
           calls2 == ledger'.calls
           e == Call(work.terminal)
           t == Last(saved, unsaved)
<1>1. calls2 = Put(calls, q, e) /\ q \notin DOMAIN calls
  BY DEF Known
<1>2. e.prompt = Prompt
  BY DEF Call
<1>3. q[1] = "model" =>
        /\ q = Ask(t.step + 1, FALSE) \/ q = Ask(t.step + 1, TRUE)
        /\ t.next = "decide" /\ t.step = graph.step /\ t.step \in Nat
        /\ t.reads = graph.reads /\ t.asked = graph.asked /\ t.answers = graph.answers
        /\ Prompt[1] = graph.step /\ Prompt[2] = graph.reads
        /\ Prompt[3] = graph.asked /\ Prompt[4] = graph.answers
  <2> SUFFICES ASSUME q[1] = "model"
               PROVE  /\ q = Ask(t.step + 1, FALSE) \/ q = Ask(t.step + 1, TRUE)
                      /\ t.next = "decide" /\ t.step = graph.step /\ t.step \in Nat
                      /\ t.reads = graph.reads /\ t.asked = graph.asked /\ t.answers = graph.answers
                      /\ Prompt[1] = graph.step /\ Prompt[2] = graph.reads
                      /\ Prompt[3] = graph.asked /\ Prompt[4] = graph.answers
    OBVIOUS
  <2>1. DecisionFit(work, graph, ledger.calls, ledger.modes) /\ work.attempt \in {0, 1}
    BY DEF ReplayInv, NowFit, AtWork
  <2>2. graph.next = "decide" /\ OnTop(ledger.calls, work, graph, t) /\ PointOK(t)
    BY <2>1, GraphPoint DEF DecisionFit
  <2> HIDE DEF t
  <2>3. /\ t.next = "decide" /\ t.step = graph.step /\ t.step \in Nat
        /\ t.reads = graph.reads /\ t.asked = graph.asked /\ t.answers = graph.answers
    BY <2>2, PointFacts DEF OnTop
  <2> QED
    BY <2>1, <2>3 DEF DecisionFit, Prompt
<1> HIDE DEF q, calls, calls2, e
<1>4. /\ DOMAIN calls2 = DOMAIN calls \cup {q} /\ calls2[q] = e
      /\ \A r \in DOMAIN calls : calls2[r] = calls[r]
  BY <1>1 DEF Put
<1>5. Grows(calls, calls2)
  BY <1>4 DEF Grows, Settled
<1>6. ASSUME NEW c \in Points(saved, unsaved) PROVE Paid(calls2, answer, c)
  <2>1. /\ Paid(calls, answer, c) /\ c.step \in Nat /\ PointOK(t)
        /\ c = t \/ Before(calls, answer, c, t)
    BY PointsFacts DEF PromptInv, ReplayInv, calls
  <2>2. SUFFICES ASSUME c.next # "end", NEW again \in BOOLEAN, Ask(c.step + 1, again) \in DOMAIN calls2,
                        NEW p, p = calls2[Ask(c.step + 1, again)].prompt
                 PROVE  Leads(calls2, answer, c, p[1], p[2], p[3], p[4])
    BY DEF Paid
  <2>3. CASE Ask(c.step + 1, again) \in DOMAIN calls
    <3>1. Leads(calls, answer, c, p[1], p[2], p[3], p[4])
      BY <1>4, <2>1, <2>2, <2>3 DEF Paid
    <3> QED
      BY <1>5, <3>1, CollectedGrows DEF Leads
  <2>4. CASE Ask(c.step + 1, again) = q
    <3>1. q[1] = "model" /\ q[2] = c.step + 1
      BY <2>4, RequestFacts
    <3>2. q[2] = t.step + 1
      <4>1. \A n, b : Ask(n, b)[2] = n
        BY DEF Ask
      <4>2. q = Ask(t.step + 1, FALSE) \/ q = Ask(t.step + 1, TRUE)
        BY <1>3, <3>1
      <4> QED
        BY <4>1, <4>2, Zenon
    <3>3. c.step = t.step
      BY <1>3, <2>1, <3>1, <3>2
    <3>4. Leads(calls, answer, c, t.step, t.reads, t.asked, t.answers)
      <4>1. CASE c = t
        BY <1>3, <3>1, <4>1 DEF Leads
      <4>2. CASE Before(calls, answer, c, t)
        BY <1>3, <2>1, <3>1, <3>3, <4>2 DEF Before
      <4> QED
        BY <2>1, <4>1, <4>2
    <3>5. Leads(calls, answer, c, p[1], p[2], p[3], p[4])
      BY <1>2, <1>3, <1>4, <2>2, <2>4, <3>1, <3>4
    <3> QED
      BY <1>5, <3>5, CollectedGrows DEF Leads
  <2> QED
    BY <1>4, <2>2, <2>3, <2>4
<1> QED
  BY <1>6 DEF PromptInv, NotAhead, calls2

LEMMA SavePrompt ==
  ASSUME ReplayInv, PromptInv, SaveCheckpoint
  PROVE  PromptInv'
<1>1. /\ unsaved # <<>> /\ saved' = Head(unsaved) /\ unsaved' = Tail(unsaved)
      /\ UNCHANGED <<ledger, graph, answer>>
  BY DEF SaveCheckpoint
<1>2. /\ 1 \in DOMAIN unsaved /\ saved' = unsaved[1]
      /\ Before(ledger.calls, answer, saved, saved') /\ PointOK(saved') /\ PointOK(saved)
      /\ \A i \in DOMAIN unsaved : i = 1 \/ (i - 1 \in DOMAIN unsaved' /\ unsaved'[i - 1] = unsaved[i])
      /\ \A i \in DOMAIN unsaved' : i + 1 \in DOMAIN unsaved /\ unsaved'[i] = unsaved[i + 1]
  BY <1>1, ChainHead, LastFacts DEF ReplayInv
<1>3. saved.step \in Nat /\ saved'.step \in Nat /\ saved.step <= saved'.step
  BY <1>2, PointFacts DEF Before
<1>4. NotAhead(ledger.modes, saved', unsaved')
  <2> SUFFICES ASSUME NEW r \in DOMAIN ledger.modes
               PROVE  \/ r[2] <= saved'.step + 1
                      \/ \E i \in DOMAIN unsaved' : unsaved'[i].next = "decide" /\ r[2] <= unsaved'[i].step + 1
    BY DEF NotAhead
  <2>1. r[2] \in Nat
    BY DEF ReplayInv, ModesFit
  <2>2. CASE r[2] <= saved.step + 1
    BY <1>3, <2>1, <2>2
  <2>3. CASE \E i \in DOMAIN unsaved : unsaved[i].next = "decide" /\ r[2] <= unsaved[i].step + 1
    BY <1>2, <2>3
  <2> QED
    BY <2>2, <2>3 DEF PromptInv, NotAhead
<1>5. Points(saved', unsaved') \subseteq Points(saved, unsaved)
  BY <1>2 DEF Points
<1> QED
  BY <1>1, <1>4, <1>5 DEF PromptInv

\* A crash that loses no two decisions.
LEMMA CrashPrompt ==
  ASSUME ReplayInv, PromptInv, Crash, OneBehind
  PROVE  PromptInv'
<1>1. unsaved' = <<>> /\ UNCHANGED <<ledger, graph, saved, answer>>
  BY DEF Crash
<1>2. /\ saved.step \in Nat /\ \A i \in DOMAIN unsaved : unsaved[i].step \in Nat
      /\ \A r \in DOMAIN ledger.modes : r[2] \in Nat
  BY PointFacts DEF ReplayInv, Chain, ModesFit
<1>3. \A r \in DOMAIN ledger.modes : r[2] <= saved.step + 1
  <2> SUFFICES ASSUME NEW r \in DOMAIN ledger.modes PROVE r[2] <= saved.step + 1
    OBVIOUS
  <2>1. ASSUME NEW i \in DOMAIN unsaved, unsaved[i].next = "decide", r[2] <= unsaved[i].step + 1
        PROVE  r[2] <= saved.step + 1
    BY <1>2, <2>1 DEF OneBehind
  <2> QED
    BY <2>1 DEF PromptInv, NotAhead
<1>4. NotAhead(ledger'.modes, saved', unsaved')
  BY <1>1, <1>3 DEF NotAhead
<1>5. Points(saved', unsaved') \subseteq Points(saved, unsaved)
  BY <1>1 DEF Points
<1> QED
  BY <1>1, <1>4, <1>5 DEF PromptInv

\* The human answers: the decision after the question was not asked for before.
LEMMA AnswerPrompt ==
  ASSUME ReplayInv, PromptInv, Answer
  PROVE  PromptInv'
<1>1. /\ work.at = "wait" /\ unsaved = <<>> /\ UNCHANGED <<ledger, graph, saved, unsaved>>
  BY DEF Answer
<1>2. /\ Last(saved, unsaved) = saved /\ PointOK(saved) /\ graph.next = "wait"
      /\ answer.n < Len(graph.asked) /\ answer.n \in Nat
  BY <1>1, LastFacts DEF ReplayInv, NowFit, AnswerFit
<1>3. saved.next = "wait" /\ answer.n < Len(saved.asked) /\ Len(saved.asked) \in Nat
  BY <1>1, <1>2, PointFacts DEF ReplayInv, OnTop
<1>4. Paid(ledger.calls, answer, saved)
  BY DEF PromptInv, Points
<1>5. \A again \in BOOLEAN : Ask(saved.step + 1, again) \notin DOMAIN ledger.calls
  <2>1. answer.n # Len(saved.asked)
    BY <1>2, <1>3
  <2> QED
    BY <1>3, <1>4, <2>1 DEF Paid, Leads
<1>6. Paid(ledger.calls, answer', saved)
  BY <1>5 DEF Paid
<1>7. Points(saved', unsaved') = {saved}
  BY <1>1 DEF Points
<1> QED
  BY <1>1, <1>6, <1>7 DEF PromptInv, Points

\* The steps but Crash.
LEMMA StepPrompt ==
  ASSUME InvestigationInv, ReplayInv, ReplayInv', PromptInv, Next, ~Crash
  PROVE  PromptInv'
<1>1. CASE Claim
  <2>1. ledger' = ledger /\ graph' = saved /\ UNCHANGED <<saved, unsaved, answer>>
    BY <1>1 DEF Claim
  <2>2. Stands(graph')
    BY <2>1 DEF PromptInv, Points
  <2> QED
    BY <2>1, <2>2, SameGrows, PromptKept
<1>2. CASE TerminalMode
  BY <1>2, ModePrompt
<1>3. CASE Reserve
  <2>1. work.at = "reserve"
    BY <1>3 DEF Reserve
  <2>2. ~PromptDiffers
    BY <2>1, SamePrompt DEF PromptDiffers
  <2>3. CASE \/ Known /\ Replay
             \/ ledger' = [ledger EXCEPT !.exhausted = TRUE] /\ Refused("BUDGET")
    BY <2>1, <2>2, <2>3, RefusalMoves, MovesPrompt, StaysPrompt
  <2>4. CASE /\ ~Known
             /\ ledger' = [ledger EXCEPT !.calls = Put(@, work.request, Call(work.terminal)),
                                         !.decided = Decided]
             /\ Within([work EXCEPT !.at = "send"])
    <3> DEFINE calls == Put(ledger.calls, work.request, Call(work.terminal))
               decided == Decided
    <3>1. ledger' = [ledger EXCEPT !.calls = calls, !.decided = decided]
      BY <2>4
    <3> HIDE DEF calls, decided
    <3>2. ledger'.calls = calls /\ ledger'.modes = ledger.modes
      BY <3>1 DEF InvestigationInv
    <3> QED
      BY <2>1, <2>4, <3>2, ReservePrompt DEF Within, calls
  <2> QED
    BY <1>3, <2>3, <2>4 DEF Reserve
<1>4. CASE Send
  BY <1>4, StaysPrompt DEF Send, Within, Stays
<1>5. CASE Settle
  <2>1. UNCHANGED <<graph, saved, unsaved, answer>> /\ work.at = "settle"
    BY <1>5 DEF Settle, Within
  <2>2. CASE ledger' = ledger
    BY <2>1, <2>2, StaysPrompt DEF Stays
  <2>3. CASE ledger' = [ledger EXCEPT !.calls[work.request].result = work.result]
    <3> DEFINE q == work.request
               calls == ledger.calls
    <3>1. /\ q \in DOMAIN calls /\ calls[q].result = <<>>
          /\ DOMAIN ledger = {"calls", "modes", "decided", "exhausted", "correction",
                              "diagnosisCorrection", "grants", "receipts"}
          /\ \A r \in DOMAIN calls :
               DOMAIN calls[r] = {"prompt", "terminal", "result", "query", "grant", "seen"}
      BY <2>1 DEF ReplayInv, NowFit, InvestigationInv, WorkOK, CallsOK
    <3>2. /\ ledger'.modes = ledger.modes /\ DOMAIN ledger'.calls = DOMAIN calls
          /\ \A r \in DOMAIN calls : ledger'.calls[r].prompt = calls[r].prompt
          /\ \A r \in DOMAIN calls : r # q => ledger'.calls[r] = calls[r]
      BY <2>3, <3>1
    <3>3. Grows(calls, ledger'.calls)
      BY <3>1, <3>2 DEF Grows, Settled
    <3> QED
      BY <2>1, <3>2, <3>3, PromptKept DEF PromptInv
  <2> QED
    BY <1>5, <2>2, <2>3 DEF Settle
<1>6. ASSUME Moves \/ Stays, work.at # "reserve" PROVE PromptInv'
  <2>1. ~PromptDiffers
    BY <1>6 DEF PromptDiffers
  <2> QED
    BY <1>6, <2>1, MovesPrompt, StaysPrompt
<1>7. CASE Bind
  <2>1. work.at # "reserve"
    BY <1>7 DEF Bind
  <2> QED
    BY <1>6, <1>7, <2>1, BindMoves
<1>8. CASE Judge
  <2>1. work.at # "reserve"
    BY <1>8 DEF Judge
  <2> QED
    BY <1>6, <1>8, <2>1, JudgeMoves
<1>9. CASE Authorize
  <2>1. work.at # "reserve"
    BY <1>9 DEF Authorize
  <2> QED
    BY <1>6, <1>9, <2>1, AuthorizeMoves
<1>10. CASE Adapt
  <2>1. work.at # "reserve"
    BY <1>10 DEF Adapt
  <2> QED
    BY <1>6, <1>10, <2>1, AdaptMoves
<1>11. CASE AcceptAnswer
  <2>1. work.at # "reserve"
    BY <1>11 DEF AcceptAnswer
  <2> QED
    BY <1>6, <1>11, <2>1, AcceptAnswerMoves
<1>12. CASE SaveCheckpoint
  BY <1>12, SavePrompt
<1>13. CASE Answer
  BY <1>13, AnswerPrompt
<1> QED
  BY <1>1, <1>2, <1>3, <1>4, <1>5, <1>7, <1>8, <1>9, <1>10, <1>11, <1>12, <1>13 DEF Next, Step

LEMMA InitPrompt == Init => PromptInv
<1> SUFFICES ASSUME Init PROVE PromptInv
  OBVIOUS
<1>1. /\ ledger.calls = <<>> /\ ledger.modes = <<>> /\ graph = Start /\ saved = Start /\ unsaved = <<>>
  BY DEF Init
<1>2. DOMAIN ledger.calls = {} /\ DOMAIN ledger.modes = {} /\ Points(saved, unsaved) = {Start}
  BY <1>1 DEF Points
<1>3. Stands(Start)
  BY StartFacts DEF Stands, None
<1> QED
  BY <1>1, <1>2, <1>3 DEF PromptInv, NotAhead, Paid

LEMMA PromptStep ==
  ASSUME InvestigationInv, ReplayInv, ReplayInv', PromptInv, [Next]_vars, [Crash => OneBehind]_vars
  PROVE  PromptInv'
<1>1. CASE UNCHANGED vars
  BY <1>1, SameGrows, PromptKept DEF vars, PromptInv
<1>2. CASE Crash /\ ~UNCHANGED vars
  BY <1>2, CrashPrompt
<1>3. CASE ~Crash /\ Next
  BY <1>3, StepPrompt
<1> QED
  BY <1>1, <1>2, <1>3

\* A paid prompt is never rebuilt differently, however far the checkpoints lag
\* (LangGraph's async durability) and however often the worker dies, as long as
\* no crash loses two decisions: runtime/budget.py never has to refuse a
\* replayed request for its input.
THEOREM PromptsStandWhenOneBehind == InvestigationSpec /\ NoTwoDecisionsLost => []PromptsStand
<1>1. PromptInv => PromptsStand
  BY DEF PromptInv, Stands, PromptsStand
<1>2. InvestigationSpec => [](InvestigationInv /\ ReplayInv)
  BY ReplayInductive
<1>3. /\ InvestigationInv /\ ReplayInv /\ (InvestigationInv /\ ReplayInv)' /\ PromptInv
      /\ [Next]_vars /\ [Crash => OneBehind]_vars
      => PromptInv'
  BY PromptStep
<1> QED
  BY <1>1, <1>2, <1>3, InitPrompt, PTL DEF InvestigationSpec, NoTwoDecisionsLost

\* A read keeps its prompt whatever the crashes lose: only a decision can meet
\* another one.
ReadsStand == [][Reserve /\ work.request[1] # "model" => ~PromptDiffers]_vars

\* authorize_sample() and reserve() bind a read to its grant, so its replay is
\* never refused for its input, at any lag.
THEOREM ReadsAlwaysStand == InvestigationSpec => ReadsStand
<1>1. InvestigationInv /\ ReplayInv
      => [Reserve /\ work.request[1] # "model" => ~PromptDiffers]_vars
  BY SamePrompt DEF PromptDiffers
<1> QED
  BY <1>1, ReplayInductive, PTL DEF InvestigationSpec, ReadsStand

-----------------------------------------------------------------------------
\* The reads a run has made, and whether a reply can be accepted with a prompt.
Queried(calls) == {calls[r].query : r \in {c \in DOMAIN calls : c[1] = "tool"}}

Fits(calls, p, r) ==
  /\ r.action \in {"conclude", "healthy", "plan", "stop", "ask", "collect"}
  /\ p[5] => r.action \in {"conclude", "healthy", "stop"}
  /\ r.action = "healthy" => \A i \in DOMAIN p[2] : p[2][i].result = "ok"
  /\ r.action = "collect" /\ r.reason = None => \A i \in DOMAIN r.batch : r.batch[i] \notin Queried(calls)
  /\ r.action = "ask" => /\ \A i \in DOMAIN p[3] : p[3][i] # r.slot
                         /\ Len(p[3]) < MaxQuestions
  /\ p[4] # <<>> => r.action \notin {"healthy", "plan"}

\* The first reply to decision n is known, and it was none to follow.
Corrected(calls, n) ==
  /\ Settled(calls, Ask(n, FALSE))
  /\ ~Fits(calls, calls[Ask(n, FALSE)].prompt, calls[Ask(n, FALSE)].result[1])

\* A request whose mode is chosen and that is not reserved.
Pending == DOMAIN ledger.modes \ DOMAIN ledger.calls

\* A mode that was chosen before a crash still fits the attempts that are left.
LastInv ==
  /\ \A r \in Pending : \/ r[2] <= saved.step \/ r[2] > Last(saved, unsaved).step
                        \/ Last(saved, unsaved).next = "end"
  /\ \A r \in Pending : ~ledger.modes[r] /\ r[2] > saved.step => Cardinality(Models) < Attempts - 1
  /\ \A r \in DOMAIN ledger.modes : r[3] => Corrected(ledger.calls, r[2])
  /\ work.attempt = 1 => Corrected(ledger.calls, graph.step + 1)

\* The ledger forgets no prompt and no result.
Extends(calls, calls2) ==
  /\ Grows(calls, calls2) /\ DOMAIN calls \subseteq DOMAIN calls2
  /\ \A r \in DOMAIN calls : calls2[r].prompt = calls[r].prompt /\ calls2[r].query = calls[r].query

LEMMA CorrectedGrows ==
  ASSUME NEW calls, NEW calls2, Extends(calls, calls2), NEW n, Corrected(calls, n)
  PROVE  Corrected(calls2, n)
<1> DEFINE q == Ask(n, FALSE)
<1>1. /\ Settled(calls, q) /\ Settled(calls2, q) /\ calls2[q].result = calls[q].result
      /\ calls2[q].prompt = calls[q].prompt
  BY DEF Corrected, Extends, Grows, Settled
<1>2. Queried(calls) \subseteq Queried(calls2)
  BY DEF Queried, Extends
<1>3. ~Fits(calls, calls[q].prompt, calls[q].result[1])
  BY DEF Corrected
<1> HIDE DEF q
<1>4. ~Fits(calls2, calls2[q].prompt, calls2[q].result[1])
  <2> DEFINE p == calls[q].prompt
             r == calls[q].result[1]
  <2> HIDE DEF p, r
  <2>1. ASSUME Fits(calls2, p, r) PROVE Fits(calls, p, r)
    BY <1>2, <2>1 DEF Fits
  <2> QED
    BY <1>1, <1>3, <2>1 DEF p, r
<1> QED
  BY <1>1, <1>4 DEF Corrected, q

\* A correction is asked for where a reply was refused, and forgotten where the
\* graph moves.
LEMMA AttemptKept ==
  ASSUME InvestigationInv, InvestigationInv', ReplayInv, Next, work'.attempt = 1
  PROVE  /\ graph'.step = graph.step
         /\ \/ work.attempt = 1
            \/ work.at = "judge" /\ ~Acceptable(work.result[1]) /\ work.attempt = 0
<1>1. DOMAIN work = {"at", "request", "attempt", "terminal", "feedback", "index", "result"}
  BY DEF InvestigationInv, WorkOK
<1>2. ASSUME NEW g, Advance(g) PROVE FALSE
  <2>1. work' = Enter(g) /\ GraphOK(g)
    BY <1>2 DEF Advance, InvestigationInv, GraphsOK
  <2>2. work'.attempt = 0
    BY <2>1, EnterFacts
  <2> QED
    BY <2>2
<1>3. Away.attempt = 0 /\ [Away EXCEPT !.at = "failed"].attempt = 0
  BY DEF Away
<1>4. ASSUME NEW code, Refused(code) PROVE FALSE
  <2>1. CASE Fail
    <3>1. work' = [Away EXCEPT !.at = "failed"]
      BY <2>1 DEF Fail, Within
    <3>2. work'.attempt = 0
      BY <1>3, <3>1
    <3> QED
      BY <3>2
  <2>2. CASE Handoff(code)
    BY <1>2, <2>2 DEF Handoff
  <2> QED
    BY <1>4, <2>1, <2>2 DEF Refused
<1>5. CASE Claim
  <2> DEFINE e == Enter(saved)
  <2>1. /\ DOMAIN e = {"at", "request", "attempt", "terminal", "feedback", "index", "result"}
        /\ e.attempt = 0
    BY EnterFacts DEF InvestigationInv, GraphsOK
  <2> HIDE DEF e
  <2>2. work' = e \/ work' = [e EXCEPT !.at = "accept"]
    BY <1>5 DEF Claim, e
  <2> QED
    BY <2>1, <2>2
<1>6. CASE TerminalMode
  <2> DEFINE m == Mode
  <2>1. work' = [work EXCEPT !.at = "reserve", !.terminal = m] /\ graph' = graph
    BY <1>6 DEF TerminalMode, Within
  <2> HIDE DEF m
  <2> QED
    BY <1>1, <2>1
<1>7. ASSUME NEW result, Within(Replied(result)) PROVE graph' = graph /\ work.attempt = 1
  <2> DEFINE at == CASE work.request[1] = "initial" -> "bind"
                     [] work.request[1] = "model"   -> "judge"
                     [] OTHER                       -> "adapt"
  <2>1. work' = [work EXCEPT !.result = result, !.at = at] /\ graph' = graph
    BY <1>7 DEF Within, Replied
  <2> HIDE DEF at
  <2> QED
    BY <1>1, <2>1
<1>8. CASE Reserve
  <2>1. CASE Within([work EXCEPT !.at = "send"])
    BY <1>1, <2>1 DEF Within
  <2> QED
    BY <1>4, <1>7, <1>8, <2>1 DEF Reserve, Replay
<1>9. CASE Send
  BY <1>1, <1>9 DEF Send, Within
<1>10. CASE Settle
  <2>1. CASE Within([Away EXCEPT !.at = "failed"])
    <3>1. work' = [Away EXCEPT !.at = "failed"]
      BY <2>1 DEF Within
    <3> QED
      BY <1>3, <3>1
  <2>2. CASE Within(Replied(work.result))
    BY <1>7, <2>2
  <2> QED
    BY <1>10, <2>1, <2>2 DEF Settle
<1>11. CASE Bind
  <2>1. CASE Within([work EXCEPT !.at = "reserve", !.request = Initial(2)])
    BY <1>1, <2>1 DEF Within
  <2> QED
    BY <1>2, <1>11, <2>1 DEF Bind
<1>12. CASE Judge
  <2> DEFINE r == work.result[1]
  <2>1. CASE Acceptable(r) /\ Accept(r)
    BY <1>2, <2>1 DEF Accept
  <2>2. CASE ~Acceptable(r) /\ Correctable(r) /\ Correct(r)
    BY <1>12, <2>2 DEF Correct, Within, Correctable, Judge
  <2> HIDE DEF r
  <2> QED
    BY <1>2, <1>12, <2>1, <2>2 DEF Judge, Handoff, r
<1>13. ASSUME NextAuthorized PROVE graph' = graph /\ work.attempt = 1
  <2>1. PICK n, q : work' \in {[work EXCEPT !.at = "reserve", !.index = 1, !.request = q],
                               [work EXCEPT !.index = n, !.request = q]}
    BY <1>13 DEF NextAuthorized, Within
  <2>2. work'.attempt = work.attempt
    BY <1>1, <2>1
  <2> QED
    BY <1>13, <2>2 DEF NextAuthorized, Within
<1>14. CASE Authorize
  BY <1>2, <1>13, <1>14 DEF Authorize, Handoff
<1>15. CASE Adapt
  <2> DEFINE read == [query |-> graph.decision.batch[work.index], result |-> work.result[1],
                      by |-> work.request]
             reads == Append(graph.reads, read)
             q == Tool(graph.step, work.index + 1)
             n == work.index + 1
  <2>1. CASE \E g : Advance(g)
    BY <1>2, <2>1
  <2>2. CASE /\ graph' = [graph EXCEPT !.reads = reads]
             /\ work' = [work EXCEPT !.at = "reserve", !.index = n, !.request = q, !.result = <<>>]
    <3> HIDE DEF reads, q, n
    <3>1. DOMAIN graph = {"next", "step", "decision", "reads", "asked", "answers", "output"}
      BY DEF InvestigationInv, GraphsOK, GraphOK
    <3> QED
      BY <1>1, <2>2, <3>1
  <2> QED
    BY <1>15, <2>1, <2>2 DEF Adapt
<1>16. CASE AcceptAnswer
  BY <1>2, <1>16 DEF AcceptAnswer
<1>17. CASE Answer \/ Crash
  BY <1>3, <1>17 DEF Answer, Crash
<1>18. CASE SaveCheckpoint
  BY <1>18 DEF SaveCheckpoint
<1>19. work.attempt \in {0, 1}
  BY DEF ReplayInv, NowFit
<1> QED
  BY <1>5, <1>6, <1>8, <1>9, <1>10, <1>11, <1>12, <1>14, <1>15, <1>16, <1>17, <1>18 DEF Next, Step

\* validate_decision() judges a reply by what its prompt showed.
LEMMA JudgedFits ==
  ASSUME InvestigationInv, ReplayInv, PromptInv, work.at = "judge"
  PROVE  Acceptable(work.result[1]) <=>
           Fits(ledger.calls, ledger.calls[work.request].prompt, work.result[1])
<1> DEFINE p == ledger.calls[work.request].prompt
           r == work.result[1]
<1>1. work.request[1] = "model" /\ work.request \in DOMAIN ledger.calls
  BY JudgeFacts DEF Settled
<1>2. p[2] = graph.reads /\ p[3] = graph.asked /\ p[4] = graph.answers /\ p[5] = work.terminal
  BY <1>1, PaidPrompt
<1> HIDE DEF p, r
<1>3. Prior = Queried(ledger.calls)
  BY DEF Prior, Queried
<1>4. Acceptable(r) <=> Fits(ledger.calls, p, r)
  BY <1>2, <1>3 DEF Acceptable, Fits
<1> QED
  BY <1>4 DEF p, r

\* A reply that was followed leaves no request of its decision behind.
LEMMA NonePending ==
  ASSUME InvestigationInv, ReplayInv, PromptInv, LastInv, work.at = "judge",
         Acceptable(work.result[1]), NEW r \in Pending
  PROVE  r[2] # graph.step + 1
<1> DEFINE n == graph.step + 1
           q == work.request
<1>1. SUFFICES ASSUME r[2] = n PROVE FALSE
  OBVIOUS
<1>2. r \in DOMAIN ledger.modes /\ r \notin DOMAIN ledger.calls
  BY DEF Pending
<1>3. r[3] \in BOOLEAN /\ r = Ask(n, r[3]) /\ (r[3] => Corrected(ledger.calls, n))
  BY <1>1, <1>2 DEF ReplayInv, ModesFit, LastInv
<1>4. /\ DecisionFit(work, graph, ledger.calls, ledger.modes) /\ Settled(ledger.calls, q)
      /\ work.result = ledger.calls[q].result /\ work.attempt \in {0, 1}
  BY JudgeFacts DEF ReplayInv, NowFit
<1> HIDE DEF n, q
<1>5. Settled(ledger.calls, Ask(n, FALSE))
  BY <1>4 DEF DecisionFit, n, q
<1>6. r[3]
  <2>1. CASE r[3] = FALSE
    BY <1>2, <1>3, <1>5, <2>1 DEF Settled
  <2> QED
    BY <1>3, <2>1
<1>7. r = Ask(n, TRUE)
  BY <1>3, <1>6
<1>8. q = Ask(n, FALSE)
  <2>1. q # Ask(n, TRUE)
    BY <1>2, <1>4, <1>7 DEF Settled
  <2> QED
    BY <1>4, <2>1 DEF DecisionFit, n, q
<1>9. Fits(ledger.calls, ledger.calls[q].prompt, ledger.calls[q].result[1])
  BY <1>4, JudgedFits DEF q
<1> QED
  BY <1>3, <1>6, <1>8, <1>9 DEF Corrected

\* No prepared request is left over when another is reserved.
LEMMA OnlyPending ==
  ASSUME InvestigationInv, ReplayInv, PromptInv, LastInv, work.at = "reserve",
         work.request[1] = "model", ~Known, NEW r \in Pending, r[2] > saved.step
  PROVE  r = work.request
<1> DEFINE q == work.request
           t == Last(saved, unsaved)
<1>1. /\ DecisionFit(work, graph, ledger.calls, ledger.modes) /\ work.attempt \in {0, 1}
  BY DEF ReplayInv, NowFit, AtWork
<1>2. t.next = "decide" /\ t.step = graph.step /\ t.step \in Nat
  BY <1>1, GraphFacts DEF DecisionFit
<1>3. /\ r \in DOMAIN ledger.modes /\ r \notin DOMAIN ledger.calls
      /\ r[2] \in Nat /\ r[3] \in BOOLEAN /\ r = Ask(r[2], r[3])
      /\ (r[3] => Settled(ledger.calls, Ask(r[2], FALSE)))
  BY DEF Pending, ReplayInv, ModesFit
<1>4. PICK c \in Points(saved, unsaved) : r[2] <= c.step + 1
  BY <1>3 DEF PromptInv, NotAhead, Points
<1>5. c.step \in Nat /\ c.step <= t.step /\ saved.step \in Nat
  BY PointsFacts, PointFacts DEF ReplayInv, Chain
<1>6. r[2] > t.step
  BY <1>2, <1>3, <1>5 DEF LastInv
<1> HIDE DEF t, q
<1>7. r[2] = t.step + 1
  BY <1>2, <1>3, <1>4, <1>5, <1>6
<1>8. CASE work.attempt = 0
  <2>1. q = Ask(t.step + 1, FALSE) /\ q \notin DOMAIN ledger.calls
    BY <1>1, <1>2, <1>8 DEF DecisionFit, Known, q
  <2>2. r[3] = FALSE
    BY <1>3, <1>7, <2>1 DEF Settled
  <2> QED
    BY <1>3, <1>7, <2>1, <2>2 DEF q
<1>9. CASE work.attempt = 1
  <2>1. q = Ask(t.step + 1, TRUE) /\ Ask(t.step + 1, FALSE) \in DOMAIN ledger.calls
    BY <1>1, <1>2, <1>9 DEF DecisionFit, Settled, q
  <2>2. r[3] # FALSE
    BY <1>3, <1>7, <2>1
  <2>3. r[3] = TRUE
    BY <1>3, <2>2
  <2> QED
    BY <1>3, <1>7, <2>1, <2>3 DEF q
<1> QED
  BY <1>1, <1>8, <1>9

\* A request is reserved.
Reserves ==
  /\ work.at = "reserve" /\ ~Known /\ ledger'.modes = ledger.modes
  /\ ledger'.calls = Put(ledger.calls, work.request, Call(work.terminal))
  /\ UNCHANGED <<graph, saved, unsaved, answer>>

LEMMA ReserveForms ==
  ASSUME InvestigationInv, ReplayInv, Reserve
  PROVE  Reserves \/ Moves \/ Stays
<1>1. work.at = "reserve"
  BY DEF Reserve
<1>2. CASE \/ Known /\ Replay
           \/ ledger' = [ledger EXCEPT !.exhausted = TRUE] /\ Refused("BUDGET")
  BY <1>1, <1>2, RefusalMoves
<1>3. CASE /\ ~Known
           /\ ledger' = [ledger EXCEPT !.calls = Put(@, work.request, Call(work.terminal)),
                                       !.decided = Decided]
           /\ Within([work EXCEPT !.at = "send"])
  <2> DEFINE calls == Put(ledger.calls, work.request, Call(work.terminal))
             decided == Decided
  <2>1. ledger' = [ledger EXCEPT !.calls = calls, !.decided = decided]
    BY <1>3
  <2> HIDE DEF calls, decided
  <2>2. ledger'.calls = calls /\ ledger'.modes = ledger.modes
    BY <2>1 DEF InvestigationInv
  <2> QED
    BY <1>1, <1>3, <2>2 DEF Within, Reserves, calls
<1> QED
  BY <1>2, <1>3 DEF Reserve

LEMMA SettleForms ==
  ASSUME InvestigationInv, ReplayInv, Settle
  PROVE  /\ Extends(ledger.calls, ledger'.calls) /\ DOMAIN ledger'.calls = DOMAIN ledger.calls
         /\ ledger'.modes = ledger.modes /\ UNCHANGED <<graph, saved, unsaved, answer>>
<1>1. UNCHANGED <<graph, saved, unsaved, answer>> /\ work.at = "settle"
  BY DEF Settle, Within
<1>2. CASE ledger' = ledger
  BY <1>1, <1>2, SameGrows DEF Extends
<1>3. CASE ledger' = [ledger EXCEPT !.calls[work.request].result = work.result]
  <2> DEFINE q == work.request
             calls == ledger.calls
  <2>1. /\ q \in DOMAIN calls /\ calls[q].result = <<>>
        /\ DOMAIN ledger = {"calls", "modes", "decided", "exhausted", "correction",
                            "diagnosisCorrection", "grants", "receipts"}
        /\ \A r \in DOMAIN calls :
             DOMAIN calls[r] = {"prompt", "terminal", "result", "query", "grant", "seen"}
    BY <1>1 DEF ReplayInv, NowFit, InvestigationInv, WorkOK, CallsOK
  <2>2. /\ ledger'.modes = ledger.modes /\ DOMAIN ledger'.calls = DOMAIN calls
        /\ \A r \in DOMAIN calls : /\ ledger'.calls[r].prompt = calls[r].prompt
                                   /\ ledger'.calls[r].query = calls[r].query
        /\ \A r \in DOMAIN calls : r # q => ledger'.calls[r] = calls[r]
    BY <1>3, <2>1
  <2>3. Grows(calls, ledger'.calls)
    BY <2>1, <2>2 DEF Grows, Settled
  <2> QED
    BY <1>1, <2>2, <2>3 DEF Extends
<1> QED
  BY <1>2, <1>3 DEF Settle

LEMMA ReserveExtends ==
  ASSUME Reserves
  PROVE  /\ Extends(ledger.calls, ledger'.calls)
         /\ DOMAIN ledger'.calls = DOMAIN ledger.calls \cup {work.request}
         /\ work.request \notin DOMAIN ledger.calls
         /\ ledger'.calls[work.request].terminal = work.terminal
<1> DEFINE q == work.request
           calls == ledger.calls
           calls2 == ledger'.calls
           e == Call(work.terminal)
<1>1. calls2 = Put(calls, q, e) /\ q \notin DOMAIN calls
  BY DEF Known, Reserves
<1>2. e.terminal = work.terminal
  BY DEF Call
<1> HIDE DEF q, calls, calls2, e
<1>3. /\ DOMAIN calls2 = DOMAIN calls \cup {q} /\ calls2[q] = e
      /\ \A r \in DOMAIN calls : calls2[r] = calls[r]
  BY <1>1 DEF Put
<1>4. Extends(calls, calls2)
  BY <1>3 DEF Extends, Grows, Settled
<1> QED
  BY <1>1, <1>2, <1>3, <1>4 DEF q, calls, calls2

\* The ledger's requests in a step: kept, but for one that is reserved.
LEMMA CallsStep ==
  ASSUME InvestigationInv, ReplayInv, Next
  PROVE  /\ Extends(ledger.calls, ledger'.calls)
         /\ Reserves \/ DOMAIN ledger'.calls = DOMAIN ledger.calls
         /\ TerminalMode \/ ledger'.modes = ledger.modes
<1>1. CASE Reserves
  BY <1>1, ReserveExtends DEF Reserves
<1>2. CASE Settle
  BY <1>2, SettleForms
<1>3. ASSUME ledger'.calls = ledger.calls PROVE Extends(ledger.calls, ledger'.calls)
  BY <1>3, SameGrows DEF Extends
<1>4. CASE Moves \/ Stays
  BY <1>3, <1>4 DEF Moves, Stays
<1>5. CASE TerminalMode
  <2> DEFINE modes == Put(ledger.modes, work.request, Mode)
  <2>1. ledger' = [ledger EXCEPT !.modes = modes]
    BY <1>5 DEF TerminalMode
  <2> HIDE DEF modes
  <2>2. ledger'.calls = ledger.calls
    BY <2>1 DEF InvestigationInv
  <2> QED
    BY <1>3, <1>5, <2>2
<1>6. CASE Claim \/ Send \/ SaveCheckpoint \/ Answer \/ Crash
  BY <1>3, <1>6 DEF Claim, Send, SaveCheckpoint, Answer, Crash
<1> QED
  BY <1>1, <1>2, <1>4, <1>5, <1>6, ReserveForms, BindMoves, JudgeMoves, AuthorizeMoves, AdaptMoves,
     AcceptAnswerMoves DEF Next, Step

LEMMA CorrectedKept ==
  ASSUME InvestigationInv, InvestigationInv', ReplayInv, PromptInv, LastInv, Next
  PROVE  work'.attempt = 1 => Corrected(ledger'.calls, graph'.step + 1)
<1>1. SUFFICES ASSUME work'.attempt = 1 PROVE Corrected(ledger'.calls, graph'.step + 1)
  OBVIOUS
<1>2. graph'.step = graph.step
  BY <1>1, AttemptKept
<1>3. Corrected(ledger.calls, graph.step + 1)
  <2>1. CASE work.attempt = 1
    BY <2>1 DEF LastInv
  <2>2. CASE work.at = "judge" /\ ~Acceptable(work.result[1]) /\ work.attempt = 0
    <3>1. /\ work.request = Ask(graph.step + 1, FALSE) /\ Settled(ledger.calls, work.request)
          /\ work.result = ledger.calls[work.request].result
      BY <2>2, JudgeFacts DEF DecisionFit
    <3>2. ~Fits(ledger.calls, ledger.calls[work.request].prompt, work.result[1])
      BY <2>2, JudgedFits
    <3> QED
      BY <3>1, <3>2 DEF Corrected
  <2> QED
    BY <1>1, <2>1, <2>2, AttemptKept
<1> QED
  BY <1>2, <1>3, CallsStep, CorrectedGrows

\* Only a decision that is followed leads from one step to the next.
LEMMA StepDecided ==
  ASSUME InvestigationInv, ReplayInv, Next, work.at # "down", graph.next = "decide",
         graph'.next \in {"collect", "wait"}
  PROVE  work.at = "judge" /\ Acceptable(work.result[1])
<1>1. DOMAIN graph = {"next", "step", "decision", "reads", "asked", "answers", "output"}
  BY DEF InvestigationInv, GraphsOK, GraphOK
<1>2. graph' # graph
  OBVIOUS
<1>3. ASSUME NEW code, Handoff(code) PROVE FALSE
  <2>1. graph' = [graph EXCEPT !.next = "end", !.output = code]
    BY <1>3 DEF Handoff, Advance
  <2> QED
    BY <1>1, <2>1
<1>4. ASSUME NEW code, Refused(code) PROVE FALSE
  BY <1>2, <1>3, <1>4 DEF Refused, Fail, Within
<1>5. ~(Claim \/ TerminalMode \/ Send \/ Settle \/ SaveCheckpoint \/ Answer \/ Crash)
  BY <1>2 DEF Claim, TerminalMode, Send, Settle, SaveCheckpoint, Answer, Crash, Within
<1>6. ~Reserve
  BY <1>2, <1>4 DEF Reserve, Replay, Within
<1>7. ~(Bind \/ Authorize \/ Adapt \/ AcceptAnswer)
  <2>1. work.at = "bind" => graph.next = "initialize"
    BY DEF ReplayInv, NowFit, AtWork
  <2>2. work.at \in {"authorize", "adapt"} => graph.next = "collect"
    BY RequestFacts DEF ReplayInv, NowFit, AtWork, InvestigationInv, WorkOK
  <2>3. work.at = "accept" => graph.next = "wait"
    BY DEF InvestigationInv, WorkOK
  <2> QED
    BY <2>1, <2>2, <2>3 DEF Bind, Authorize, Adapt, AcceptAnswer
<1>8. CASE Judge
  BY <1>2, <1>3, <1>8 DEF Judge, Correct, Within
<1> QED
  BY <1>5, <1>6, <1>7, <1>8 DEF Next, Step

\* Where the points go, the requests that are left over stay behind.
LeftBehind == \A r \in Pending : \/ r[2] <= saved.step \/ r[2] > Last(saved, unsaved).step
                                 \/ Last(saved, unsaved).next = "end"

LEMMA MovesLeftBehind ==
  ASSUME InvestigationInv, InvestigationInv', ReplayInv, PromptInv, LastInv, Moves, Next
  PROVE  LeftBehind'
<1> DEFINE t == Last(saved, unsaved)
<1>1. PICK g : Advance(g) /\ Follows(t, g)
  BY DEF Moves
<1>2. /\ graph' = g /\ saved' = saved /\ unsaved' = Append(unsaved, g) /\ Pending' = Pending
      /\ work' = Enter(g) /\ GraphOK(g)
  BY <1>1 DEF Advance, Moves, Pending, InvestigationInv, GraphsOK
<1>3. Last(saved', unsaved') = g
  <2>1. IsSeq(unsaved)
    BY DEF ReplayInv, Chain
  <2>2. Len(unsaved) \in Nat /\ Len(unsaved') = Len(unsaved) + 1 /\ unsaved'[Len(unsaved) + 1] = g
    BY <1>2, <2>1, AppendIsSeq
  <2>3. unsaved' # <<>>
    BY <2>2
  <2> QED
    BY <2>2, <2>3 DEF Last
<1>4. /\ \A r \in Pending : r[2] \in Nat
      /\ \A r \in Pending : r[2] <= saved.step \/ r[2] > t.step \/ t.next = "end"
  BY DEF LastInv, ReplayInv, ModesFit, Pending
<1>5. CASE g.next = "end"
  BY <1>3, <1>5 DEF LeftBehind
<1>6. CASE g.next = "decide" /\ t.next # "end" /\ g.step = t.step
  BY <1>2, <1>3, <1>4, <1>6 DEF LeftBehind
<1>7. CASE g.next \in {"collect", "wait"} /\ t.next = "decide" /\ g.step = t.step + 1
  <2>1. work.at # "down" /\ graph.next = "decide" /\ graph.step = t.step
    <3>1. work.at # "down"
      <4>1. CASE work.at = "down"
        <5>1. Claim \/ SaveCheckpoint
          BY <4>1 DEF Next, Step, TerminalMode, Reserve, Send, Settle, Bind, Judge, Authorize, Adapt,
                      AcceptAnswer, Answer, Crash
        <5>2. Len(unsaved') # Len(unsaved) + 1
          <6>1. unsaved' = unsaved /\ unsaved = <<>>
            BY <4>1, <5>1 DEF Claim, SaveCheckpoint, ReplayInv
          <6> QED
            BY <6>1
        <5>3. IsSeq(unsaved)
          BY DEF ReplayInv, Chain
        <5> QED
          BY <1>2, <5>2, <5>3, AppendIsSeq
      <4> QED
        BY <4>1
    <3> QED
      BY <1>7, <3>1, GraphFacts
  <2>2. work.at = "judge" /\ Acceptable(work.result[1])
    BY <1>2, <1>7, <2>1, StepDecided
  <2>3. \A r \in Pending : r[2] # t.step + 1
    BY <2>1, <2>2, NonePending
  <2>4. \A r \in Pending : r[2] <= saved.step \/ r[2] > t.step + 1
    BY <1>1, <1>4, <1>7, <2>3 DEF Follows
  <2> QED
    BY <1>2, <1>3, <1>7, <2>4 DEF LeftBehind
<1> QED
  BY <1>1, <1>5, <1>6, <1>7 DEF Follows

\* terminal_mode(): of the request it is asked for, and only of that.
LEMMA ModeFacts ==
  ASSUME InvestigationInv, ReplayInv, TerminalMode
  PROVE  /\ DOMAIN ledger'.modes = DOMAIN ledger.modes \cup {work.request}
         /\ \A r \in DOMAIN ledger.modes : ledger'.modes[r] = ledger.modes[r]
         /\ work.request \notin DOMAIN ledger.modes =>
              (~ledger'.modes[work.request] => ~(Cardinality(Models) >= Attempts - 1))
         /\ work.request[2] = graph.step + 1 /\ (work.request[3] => work.attempt = 1)
         /\ UNCHANGED <<graph, saved, unsaved, answer>> /\ ledger'.calls = ledger.calls
         /\ graph.next = "decide" /\ work.at = "mode"
<1> DEFINE q == work.request
           modes == ledger.modes
           modes2 == ledger'.modes
           m == Mode
<1>1. /\ work.at = "mode" /\ ledger'.calls = ledger.calls /\ modes2 = Put(modes, q, m)
      /\ UNCHANGED <<graph, saved, unsaved, answer>>
  BY DEF TerminalMode, Within, InvestigationInv
<1>2. DecisionFit(work, graph, ledger.calls, ledger.modes) /\ work.attempt \in {0, 1}
  BY <1>1 DEF ReplayInv, NowFit, AtWork
<1>3. /\ q \in DOMAIN modes => m = modes[q]
      /\ q \notin DOMAIN modes => (~m => ~(Cardinality(Models) >= Attempts - 1))
  BY DEF Mode
<1>4. \/ q = Ask(graph.step + 1, FALSE)
      \/ q = Ask(graph.step + 1, TRUE) /\ work.attempt = 1
  BY <1>2 DEF DecisionFit
<1>5. q[2] = graph.step + 1 /\ (q[3] => work.attempt = 1)
  <2>1. \A n, b : Ask(n, b)[2] = n
    BY DEF Ask
  <2>2. \A n : Ask(n, FALSE)[3] = FALSE
    BY DEF Ask
  <2> HIDE DEF q
  <2>3. CASE q = Ask(graph.step + 1, FALSE)
    <3>1. q[2] = graph.step + 1 /\ q[3] = FALSE
      BY <2>1, <2>2, <2>3, Zenon
    <3> QED
      BY <3>1
  <2>4. CASE q = Ask(graph.step + 1, TRUE) /\ work.attempt = 1
    <3>1. q[2] = graph.step + 1
      BY <2>1, <2>4, Zenon
    <3> QED
      BY <2>4, <3>1
  <2> QED
    BY <1>4, <2>3, <2>4
<1> HIDE DEF q, modes, modes2, m
<1>6. DOMAIN modes2 = DOMAIN modes \cup {q} /\ modes2[q] = m /\ \A r \in DOMAIN modes : modes2[r] = modes[r]
  <2>1. /\ DOMAIN modes2 = DOMAIN modes \cup {q} /\ modes2[q] = m
        /\ \A r \in DOMAIN modes : r # q => modes2[r] = modes[r]
    BY <1>1 DEF Put
  <2> QED
    BY <1>3, <2>1
<1>7. q \notin DOMAIN modes => (~modes2[q] => ~(Cardinality(Models) >= Attempts - 1))
  BY <1>3, <1>6
<1> QED
  BY <1>1, <1>2, <1>5, <1>6, <1>7 DEF q, modes, modes2, DecisionFit

LEMMA LeftBehindStep ==
  ASSUME InvestigationInv, InvestigationInv', ReplayInv, ReplayInv', PromptInv, LastInv, Next
  PROVE  LeftBehind' /\ saved.step \in Nat /\ saved'.step \in Nat /\ saved.step <= saved'.step
         /\ \A r \in DOMAIN ledger.modes : r[2] \in Nat
<1>1. /\ LeftBehind /\ saved.step \in Nat /\ saved'.step \in Nat
      /\ \A r \in DOMAIN ledger.modes : r[2] \in Nat
  BY PointFacts DEF LastInv, LeftBehind, ReplayInv, Chain, ModesFit
<1>2. ASSUME UNCHANGED <<saved, unsaved>>, Pending' \subseteq Pending
      PROVE  LeftBehind' /\ saved.step <= saved'.step
  BY <1>1, <1>2 DEF LeftBehind
<1>3. CASE Reserves
  BY <1>1, <1>2, <1>3, ReserveExtends DEF Reserves, Pending
<1>4. CASE TerminalMode
  <2> DEFINE q == work.request
             t == Last(saved, unsaved)
  <2>1. /\ Pending' \subseteq Pending \cup {q} /\ q[2] = graph.step + 1
        /\ UNCHANGED <<saved, unsaved>>
    BY <1>4, ModeFacts DEF Pending
  <2>2. t.step = graph.step /\ t.step \in Nat
    BY <1>4, ModeFacts, GraphFacts
  <2>3. q[2] > t.step
    BY <2>1, <2>2
  <2> QED
    BY <1>1, <2>1, <2>3 DEF LeftBehind
<1>5. CASE Moves
  <2>1. saved' = saved
    BY <1>5 DEF Moves, Advance
  <2> QED
    BY <1>1, <1>5, <2>1, MovesLeftBehind
<1>6. CASE Stays \/ Claim \/ Send \/ Answer
  BY <1>1, <1>2, <1>6 DEF Stays, Claim, Send, Answer, Within, Pending
<1>7. CASE Settle
  BY <1>1, <1>2, <1>7, SettleForms DEF Pending
<1>8. CASE SaveCheckpoint
  <2>1. /\ Last(saved', unsaved') = Last(saved, unsaved) /\ Pending' = Pending
        /\ saved.step <= saved'.step
    BY <1>8, ChainHead DEF SaveCheckpoint, ReplayInv, Pending, Before
  <2>2. \A r \in Pending : r[2] \in Nat
    BY <1>1 DEF Pending
  <2> QED
    BY <1>1, <2>1, <2>2 DEF LeftBehind
<1>9. CASE Crash
  <2>1. Last(saved', unsaved') = saved /\ Pending' = Pending /\ saved' = saved
    BY <1>9 DEF Crash, Last, Pending
  <2>2. \A r \in Pending : r[2] <= saved.step \/ r[2] > saved.step
    BY <1>1 DEF Pending
  <2> QED
    BY <1>1, <2>1, <2>2 DEF LeftBehind
<1> QED
  BY <1>1, <1>3, <1>4, <1>5, <1>6, <1>7, <1>8, <1>9, ReserveForms, BindMoves, JudgeMoves, AuthorizeMoves,
     AdaptMoves, AcceptAnswerMoves DEF Next, Step

LEMMA LastStep ==
  ASSUME InvestigationInv, InvestigationInv', ReplayInv, ReplayInv', PromptInv, LastInv, Next
  PROVE  LastInv'
<1>1. LeftBehind' /\ saved.step \in Nat /\ saved'.step \in Nat /\ saved.step <= saved'.step
      /\ \A r \in DOMAIN ledger.modes : r[2] \in Nat
  BY LeftBehindStep
<1>2. /\ Extends(ledger.calls, ledger'.calls)
      /\ Reserves \/ DOMAIN ledger'.calls = DOMAIN ledger.calls
      /\ TerminalMode \/ ledger'.modes = ledger.modes
  BY CallsStep
<1>3. \A r \in DOMAIN ledger'.modes : r[3] => Corrected(ledger'.calls, r[2])
  <2> SUFFICES ASSUME NEW r \in DOMAIN ledger'.modes, r[3] PROVE Corrected(ledger'.calls, r[2])
    OBVIOUS
  <2>1. CASE r \in DOMAIN ledger.modes
    BY <1>2, <2>1, CorrectedGrows DEF LastInv
  <2>2. CASE r \notin DOMAIN ledger.modes
    <3>1. TerminalMode /\ r = work.request
      BY <1>2, <2>2, ModeFacts
    <3>2. work.attempt = 1 /\ r[2] = graph.step + 1
      BY <3>1, ModeFacts
    <3> QED
      BY <1>2, <3>2, CorrectedGrows DEF LastInv
  <2> QED
    BY <2>1, <2>2
<1>4. \A r \in Pending' : ~ledger'.modes[r] /\ r[2] > saved'.step => Cardinality(Models') < Attempts - 1
  <2> SUFFICES ASSUME NEW r \in Pending', ~ledger'.modes[r], r[2] > saved'.step
               PROVE  Cardinality(Models') < Attempts - 1
    OBVIOUS
  <2>1. ASSUME Models' = Models, r \in Pending, ledger'.modes[r] = ledger.modes[r]
        PROVE  Cardinality(Models') < Attempts - 1
    <3>1. r[2] > saved.step
      BY <1>1, <2>1 DEF Pending
    <3> QED
      BY <2>1, <3>1 DEF LastInv
  <2>2. CASE Reserves
    <3>1. r \in Pending /\ r # work.request /\ ledger'.modes[r] = ledger.modes[r] /\ saved' = saved
      BY <2>2, ReserveExtends DEF Reserves, Pending
    <3>2. CASE work.request[1] = "model"
      BY <2>2, <3>1, <3>2, OnlyPending DEF Reserves
    <3>3. CASE work.request[1] # "model"
      <4>1. Models' = Models
        BY <2>2, <3>3, ReserveExtends DEF Models
      <4> QED
        BY <2>1, <3>1, <4>1
    <3> QED
      BY <3>2, <3>3
  <2>3. CASE ~Reserves
    <3>1. DOMAIN ledger'.calls = DOMAIN ledger.calls /\ Models' = Models
      BY <1>2, <2>3 DEF Models
    <3>2. CASE r \in DOMAIN ledger.modes
      <4>1. r \in Pending /\ ledger'.modes[r] = ledger.modes[r]
        BY <1>2, <3>1, <3>2, ModeFacts DEF Pending
      <4> QED
        BY <2>1, <3>1, <4>1
    <3>3. CASE r \notin DOMAIN ledger.modes
      <4>1. TerminalMode /\ r = work.request
        BY <1>2, <3>3, ModeFacts DEF Pending
      <4>2. ~(Cardinality(Models) >= Attempts - 1)
        BY <3>3, <4>1, ModeFacts
      <4>3. Cardinality(Models) \in Nat /\ Attempts \in Nat
        <5>1. IsFiniteSet(Models)
          BY FS_Subset DEF InvestigationInv, CallsOK, Models
        <5> QED
          BY <5>1, FS_CardinalityType, InvestigationAssumption DEF InvestigationAssumption
      <4> QED
        BY <3>1, <4>2, <4>3
    <3> QED
      BY <3>2, <3>3
  <2> QED
    BY <2>2, <2>3
<1>5. work'.attempt = 1 => Corrected(ledger'.calls, graph'.step + 1)
  BY CorrectedKept
<1> QED
  BY <1>1, <1>3, <1>4, <1>5 DEF LastInv, LeftBehind

\* The last permitted call is made in the mode that was chosen for it.
LEMMA LastCall ==
  ASSUME InvestigationInv, ReplayInv, PromptInv, LastInv, Next,
         Cardinality(Models) = Attempts - 1, NEW r \in Models' \ Models
  PROVE  ledger'.calls[r].terminal
<1> DEFINE q == work.request
<1>1. Reserves /\ r = q /\ q[1] = "model"
  BY CallsStep, ReserveExtends DEF Models
<1>2. q \notin DOMAIN ledger.calls /\ ledger'.calls[q].terminal = work.terminal /\ work.at = "reserve"
  BY <1>1, ReserveExtends DEF Reserves
<1>3. DecisionFit(work, graph, ledger.calls, ledger.modes) /\ work.attempt \in {0, 1}
  BY <1>1, <1>2 DEF ReplayInv, NowFit, AtWork
<1>4. /\ q \in DOMAIN ledger.modes /\ work.terminal = ledger.modes[q]
      /\ q = Ask(graph.step + 1, FALSE) \/ q = Ask(graph.step + 1, TRUE)
  BY <1>2, <1>3 DEF DecisionFit
<1>5. q[2] = graph.step + 1
  <2>1. \A n, b : Ask(n, b)[2] = n
    BY DEF Ask
  <2> HIDE DEF q
  <2> QED
    BY <1>4, <2>1, Zenon
<1>6. q[2] > saved.step
  <2>1. saved \in Points(saved, unsaved) /\ Chain(ledger.calls, answer, saved, unsaved)
    BY DEF Points, ReplayInv
  <2>2. saved.step <= graph.step /\ saved.step \in Nat /\ graph.step \in Nat
    BY <1>2, <2>1, PointsFacts, GraphFacts
  <2> QED
    BY <1>5, <2>2
<1>7. Cardinality(Models) \in Nat /\ Attempts \in Nat
  <2>1. IsFiniteSet(Models)
    BY FS_Subset DEF InvestigationInv, CallsOK, Models
  <2> QED
    BY <2>1, FS_CardinalityType, InvestigationAssumption DEF InvestigationAssumption
<1>8. ledger.modes[q]
  <2>1. ~ledger.modes[q] => Cardinality(Models) < Attempts - 1
    BY <1>2, <1>4, <1>6 DEF LastInv, Pending
  <2> QED
    BY <1>7, <2>1
<1> QED
  BY <1>1, <1>2, <1>4, <1>8

\* terminal_mode() keeps the mode of a request under its id, before the request
\* is reserved.  As long as no crash loses two decisions, the call that uses up
\* model_attempts is one that may only conclude or stop, whatever was prepared
\* before a crash and used after it.
THEOREM LastCallWhenOneBehind == InvestigationSpec /\ NoTwoDecisionsLost => LastCallTerminal
<1>1. Init => LastInv
  <2> SUFFICES ASSUME Init PROVE LastInv
    OBVIOUS
  <2>1. DOMAIN ledger.modes = {} /\ work.attempt = 0
    BY DEF Init, Away
  <2> QED
    BY <2>1 DEF LastInv, Pending
<1>2. /\ InvestigationInv /\ ReplayInv /\ (InvestigationInv /\ ReplayInv)' /\ PromptInv
      /\ [Next]_vars /\ [Crash => OneBehind]_vars
      => PromptInv'
  BY PromptStep
<1>3. /\ InvestigationInv /\ ReplayInv /\ (InvestigationInv /\ ReplayInv)' /\ PromptInv /\ LastInv
      /\ [Next]_vars
      => LastInv'
  <2> SUFFICES ASSUME InvestigationInv, ReplayInv, (InvestigationInv /\ ReplayInv)', PromptInv,
                      LastInv, [Next]_vars
               PROVE  LastInv'
    OBVIOUS
  <2>1. CASE UNCHANGED vars
    BY <2>1 DEF vars, LastInv, Pending, Models
  <2> QED
    BY <2>1, LastStep
<1>4. InvestigationInv /\ ReplayInv /\ PromptInv /\ LastInv
      => [Next => (Cardinality(Models) = Attempts - 1 /\ Cardinality(Models') = Attempts =>
                     \A r \in Models' \ Models : ledger'.calls[r].terminal)]_vars
  BY LastCall
<1>5. [Next]_vars /\ [Next => (Cardinality(Models) = Attempts - 1 /\ Cardinality(Models') = Attempts =>
                                 \A r \in Models' \ Models : ledger'.calls[r].terminal)]_vars
      => [Cardinality(Models) = Attempts - 1 /\ Cardinality(Models') = Attempts =>
            \A r \in Models' \ Models : ledger'.calls[r].terminal]_vars
  OBVIOUS
<1> QED
  BY <1>1, <1>2, <1>3, <1>4, <1>5, ReplayInductive, InitPrompt, PTL
     DEF InvestigationSpec, NoTwoDecisionsLost, LastCallTerminal, LastCallEnds

-----------------------------------------------------------------------------
\* What a run has left to do, the most significant first: crashes, decisions,
\* nodes before the next decision, answers, corrections, entries of a node,
\* reads, the steps of one request, and checkpoints on their way.
Here == IF work.at = "down" THEN saved ELSE graph

CrashesLeft == MaxCrashes - crashes

StepsLeft == Decisions + 1 - Here.step

NodesLeft == IF work.at = "failed" \/ Here.next = "end" THEN 0
             ELSE IF Here.next = "decide" THEN 1 ELSE 2

AnswersLeft == IF Here.next = "wait" /\ answer.n # Len(Here.asked) THEN 1 ELSE 0

CorrectionsLeft == 1 - work.attempt

EntriesLeft == IF work.at = "down" THEN 2 ELSE IF work.at = "authorize" THEN 1 ELSE 0

ReadsLeft == CASE Here.next = "collect"    -> Len(Here.decision.batch) - work.index
               [] Here.next = "initialize" -> 2 - work.request[3]
               [] OTHER                    -> 0

CallLeft == CASE work.at = "mode"    -> 5
              [] work.at = "reserve" -> 4
              [] work.at = "send"    -> 3
              [] work.at = "settle"  -> 2
              [] OTHER               -> 1

LeftOK ==
  /\ CrashesLeft \in Nat /\ StepsLeft \in Nat /\ NodesLeft \in Nat /\ AnswersLeft \in Nat
  /\ CorrectionsLeft \in Nat /\ EntriesLeft \in Nat /\ ReadsLeft \in Nat /\ CallLeft \in Nat
  /\ Len(unsaved) \in Nat

\* The first that changes gets smaller.
Shrinks ==
  \/ CrashesLeft' < CrashesLeft
  \/ /\ CrashesLeft' = CrashesLeft
     /\ \/ StepsLeft' < StepsLeft
        \/ /\ StepsLeft' = StepsLeft
           /\ \/ NodesLeft' < NodesLeft
              \/ /\ NodesLeft' = NodesLeft
                 /\ \/ AnswersLeft' < AnswersLeft
                    \/ /\ AnswersLeft' = AnswersLeft
                       /\ \/ CorrectionsLeft' < CorrectionsLeft
                          \/ /\ CorrectionsLeft' = CorrectionsLeft
                             /\ \/ EntriesLeft' < EntriesLeft
                                \/ /\ EntriesLeft' = EntriesLeft
                                   /\ \/ ReadsLeft' < ReadsLeft
                                      \/ /\ ReadsLeft' = ReadsLeft
                                         /\ \/ CallLeft' < CallLeft
                                            \/ /\ CallLeft' = CallLeft
                                               /\ Len(unsaved') < Len(unsaved)

\* Where the worker is, and what it is busy with.
LEMMA HereFacts ==
  ASSUME InvestigationInv, ReplayInv
  PROVE  /\ PointOK(Here) /\ Here.step \in Nat
         /\ Here.next \in {"initialize", "decide", "collect", "wait", "end"}
         /\ work.attempt \in {0, 1}
         /\ work.at = "failed" => Here.next = "initialize" /\ work.request[3] = 1
         /\ Here.next = "collect" => work.index \in 1..Len(Here.decision.batch)
         /\ Here.next = "initialize" => work.request[3] \in {1, 2}
         /\ Len(unsaved) \in Nat
<1>1. PointOK(Here)
  BY GraphPoint DEF Here, ReplayInv, Chain
<1>2. Here.step \in Nat /\ Here.next \in {"initialize", "decide", "collect", "wait", "end"}
  BY <1>1, PointFacts DEF PointOK, GraphOK
<1>3. NowFit(work, graph, ledger.calls, ledger.modes) /\ WorkOK /\ Len(unsaved) \in Nat
  BY SeqFacts DEF ReplayInv, Chain, InvestigationInv
<1>4. work.attempt \in {0, 1} /\ Initial(1)[3] = 1 /\ Initial(2)[3] = 2
  BY <1>3 DEF NowFit, Initial
<1>5. CASE work.at \in {"down", "failed"}
  <2>1. work.index = 1 /\ work.request[3] = 1 /\ (work.at = "failed" => Here.next = "initialize")
    BY <1>3, <1>4, <1>5 DEF NowFit, Here
  <2>2. Here.next = "collect" => 1 \in 1..Len(Here.decision.batch)
    BY <1>1, PointFacts
  <2> QED
    BY <1>1, <1>2, <1>3, <1>4, <2>1, <2>2
<1>6. CASE work.at \in AtWork
  <2>1. Here = graph /\ work.at # "failed" /\ work.request[1] \in {"initial", "model", "tool"}
    BY <1>3, <1>6 DEF Here, AtWork, WorkOK
  <2>2. /\ work.request[1] = "initial" => graph.next = "initialize" /\ work.request \in {Initial(1), Initial(2)}
        /\ work.request[1] = "model" => graph.next = "decide"
        /\ work.request[1] = "tool" => graph.next = "collect"
    BY <1>3, <1>6 DEF NowFit, DecisionFit
  <2>3. graph.next = "collect" => work.index \in 1..Len(graph.decision.batch)
    <3>1. SUFFICES ASSUME graph.next = "collect" PROVE work.index \in 1..Len(graph.decision.batch)
      OBVIOUS
    <3>2. work.request[1] = "tool"
      BY <2>1, <2>2, <3>1
    <3>3. work.at \in {"authorize", "reserve", "send", "settle", "adapt"}
      BY <1>3, <1>6, <3>2 DEF AtWork, NowFit
    <3> QED
      BY <1>3, <3>2, <3>3 DEF NowFit, WorkOK
  <2> QED
    BY <1>1, <1>2, <1>3, <1>4, <2>1, <2>2, <2>3
<1>7. CASE work.at \in {"accept", "wait", "end"}
  <2>1. Here = graph /\ graph.next \in {"wait", "end"} /\ work.at # "failed"
    BY <1>3, <1>7 DEF Here, NowFit, WorkOK
  <2> QED
    BY <1>1, <1>2, <1>3, <1>4, <2>1
<1> QED
  BY <1>3, <1>5, <1>6, <1>7 DEF NowFit

LEMMA LeftFacts ==
  ASSUME InvestigationInv, ReplayInv
  PROVE  LeftOK
<1>1. Decisions \in Nat /\ MaxCrashes \in Nat
  BY InvestigationAssumption DEF InvestigationAssumption
<1>2. Here.step \in 0..Decisions + 1 /\ Here.step \in Nat
  BY HereFacts DEF PointOK
<1>3. CrashesLeft \in Nat /\ StepsLeft \in Nat
  BY <1>1, <1>2 DEF CrashesLeft, StepsLeft, ReplayInv
<1>4. NodesLeft \in Nat /\ AnswersLeft \in Nat /\ EntriesLeft \in Nat /\ CallLeft \in Nat
  BY DEF NodesLeft, AnswersLeft, EntriesLeft, CallLeft
<1>5. CorrectionsLeft \in Nat /\ Len(unsaved) \in Nat
  BY HereFacts DEF CorrectionsLeft
<1>6. ReadsLeft \in Nat
  <2>1. CASE Here.next = "collect"
    <3>1. work.index \in 1..Len(Here.decision.batch) /\ Len(Here.decision.batch) \in Nat
      BY <2>1, HereFacts, PointFacts
    <3> QED
      BY <2>1, <3>1 DEF ReadsLeft
  <2>2. CASE Here.next = "initialize"
    BY <2>2, HereFacts DEF ReadsLeft
  <2>3. CASE Here.next \notin {"collect", "initialize"}
    BY <2>3 DEF ReadsLeft
  <2> QED
    BY <2>1, <2>2, <2>3
<1> QED
  BY <1>3, <1>4, <1>5, <1>6 DEF LeftOK

LEMMA AdvanceStores ==
  ASSUME ReplayInv, NEW g, Advance(g)
  PROVE  unsaved' # unsaved
<1>1. IsSeq(unsaved) /\ unsaved' = Append(unsaved, g)
  BY DEF ReplayInv, Chain, Advance
<1>2. Len(unsaved') = Len(unsaved) + 1 /\ Len(unsaved) \in Nat
  BY <1>1, AppendIsSeq
<1> QED
  BY <1>2

\* A node is finished: a decision more, or a node less before the next one.
LEMMA AdvanceShrinks ==
  ASSUME InvestigationInv, InvestigationInv', ReplayInv, ReplayInv', Moves,
         work.at \notin {"down", "failed"}
  PROVE  Shrinks
<1> DEFINE t == Last(saved, unsaved)
<1>1. PICK g : Advance(g) /\ Follows(t, g)
  BY DEF Moves
<1>2. t.next = graph.next /\ t.step = graph.step
  BY GraphFacts
<1>3. graph' = g /\ crashes' = crashes /\ work'.at \notin {"down", "failed"}
  <2>1. graph' = g /\ crashes' = crashes /\ work' = Enter(g) /\ GraphOK(g)
    BY <1>1 DEF Advance, InvestigationInv, GraphsOK
  <2>2. Enter(g).at \notin {"down", "failed"}
    BY <2>1, EnterFacts
  <2> QED
    BY <2>1, <2>2
<1>4. Here = graph /\ Here' = g /\ CrashesLeft' = CrashesLeft
  BY <1>3 DEF Here, CrashesLeft
<1> HIDE DEF t
<1>5. graph.next # "end" /\ graph.step \in Nat /\ g.step \in Nat /\ Decisions \in Nat
  BY <1>1, <1>2, InvestigationAssumption DEF Follows, InvestigationAssumption
<1>6. CASE g.step = graph.step + 1
  <2>1. StepsLeft' < StepsLeft
    BY <1>4, <1>5, <1>6 DEF StepsLeft
  <2> QED
    BY <1>4, <2>1 DEF Shrinks
<1>7. CASE g.step = graph.step /\ (g.next = "end" \/ (g.next = "decide" /\ graph.next # "decide"))
  <2>1. StepsLeft' = StepsLeft
    BY <1>4, <1>7 DEF StepsLeft
  <2>2. NodesLeft' < NodesLeft
    BY <1>3, <1>4, <1>5, <1>7 DEF NodesLeft
  <2> QED
    BY <1>4, <2>1, <2>2 DEF Shrinks
<1>8. \/ g.step = graph.step + 1
      \/ g.step = graph.step /\ (g.next = "end" \/ (g.next = "decide" /\ graph.next # "decide"))
  BY <1>1, <1>2 DEF Follows
<1> QED
  BY <1>6, <1>7, <1>8

\* Inside a node nothing changes but what the worker is busy with.
LEMMA SameNode ==
  ASSUME UNCHANGED <<answer, crashes>>, work.at \notin {"down", "failed"},
         work'.at \notin {"down", "failed"}, graph'.next = graph.next, graph'.step = graph.step,
         graph'.asked = graph.asked, graph'.decision = graph.decision
  PROVE  /\ CrashesLeft' = CrashesLeft /\ StepsLeft' = StepsLeft /\ NodesLeft' = NodesLeft
         /\ AnswersLeft' = AnswersLeft
         /\ Here = graph /\ Here' = graph' /\ (work'.attempt = work.attempt => CorrectionsLeft' = CorrectionsLeft)
BY DEF CrashesLeft, StepsLeft, NodesLeft, AnswersLeft, CorrectionsLeft, Here

\* A step of the request at hand.
LEMMA RequestShrinks ==
  ASSUME UNCHANGED <<graph, answer, crashes>>, work'.attempt = work.attempt,
         work'.index = work.index, work'.request = work.request,
         work.at \in {"mode", "reserve", "send", "settle"}, CallLeft' < CallLeft,
         work'.at \in AtWork \ {"authorize"}
  PROVE  Shrinks
<1>1. work.at \notin {"down", "failed", "authorize"} /\ work'.at \notin {"down", "failed", "authorize"}
  BY DEF AtWork
<1>2. /\ CrashesLeft' = CrashesLeft /\ StepsLeft' = StepsLeft /\ NodesLeft' = NodesLeft
      /\ AnswersLeft' = AnswersLeft /\ CorrectionsLeft' = CorrectionsLeft
      /\ Here = graph /\ Here' = graph
  BY <1>1, SameNode
<1>3. EntriesLeft' = EntriesLeft /\ ReadsLeft' = ReadsLeft
  BY <1>1, <1>2 DEF EntriesLeft, ReadsLeft
<1> QED
  BY <1>2, <1>3 DEF Shrinks

LEMMA RepliedShrinks ==
  ASSUME InvestigationInv, work.at \in {"reserve", "settle"}, NEW result, Within(Replied(result))
  PROVE  Shrinks
<1> DEFINE at == CASE work.request[1] = "initial" -> "bind"
                   [] work.request[1] = "model"   -> "judge"
                   [] OTHER                       -> "adapt"
<1>1. /\ work' = [work EXCEPT !.result = result, !.at = at] /\ UNCHANGED <<graph, answer, crashes>>
      /\ DOMAIN work = {"at", "request", "attempt", "terminal", "feedback", "index", "result"}
  BY DEF Within, Replied, InvestigationInv, WorkOK
<1>2. at \in {"bind", "judge", "adapt"}
  <2>1. work.request[1] \in {"initial", "model", "tool"}
    BY DEF InvestigationInv, WorkOK
  <2> QED
    BY <2>1
<1> HIDE DEF at
<1>3. /\ work'.at = at /\ work'.attempt = work.attempt /\ work'.index = work.index
      /\ work'.request = work.request
  BY <1>1
<1>4. CallLeft' < CallLeft
  BY <1>2, <1>3 DEF CallLeft
<1> QED
  BY <1>1, <1>2, <1>3, <1>4, RequestShrinks DEF AtWork

\* The run fails for good.
LEMMA FailShrinks ==
  ASSUME InvestigationInv, ReplayInv, work.at \in AtWork, work.request[1] = "initial",
         Within([Away EXCEPT !.at = "failed"])
  PROVE  Shrinks
<1>1. work'.at = "failed" /\ UNCHANGED <<graph, answer, crashes>>
  BY DEF Within, Away
<1>2. Here = graph /\ Here' = graph /\ graph.next = "initialize" /\ work.at \notin {"down", "failed"}
  BY <1>1 DEF Here, ReplayInv, NowFit, AtWork
<1>3. CrashesLeft' = CrashesLeft /\ StepsLeft' = StepsLeft /\ NodesLeft' < NodesLeft
  BY <1>1, <1>2 DEF CrashesLeft, StepsLeft, NodesLeft
<1> QED
  BY <1>3 DEF Shrinks

LEMMA ModeShrinks ==
  ASSUME InvestigationInv, TerminalMode
  PROVE  Shrinks
<1> DEFINE m == Mode
<1>1. /\ work' = [work EXCEPT !.at = "reserve", !.terminal = m] /\ UNCHANGED <<graph, answer, crashes>>
      /\ DOMAIN work = {"at", "request", "attempt", "terminal", "feedback", "index", "result"}
      /\ work.at = "mode"
  BY DEF TerminalMode, Within, InvestigationInv, WorkOK
<1> HIDE DEF m
<1>2. /\ work'.at = "reserve" /\ work'.attempt = work.attempt /\ work'.index = work.index
      /\ work'.request = work.request
  BY <1>1
<1>3. CallLeft' < CallLeft
  BY <1>1, <1>2 DEF CallLeft
<1> QED
  BY <1>1, <1>2, <1>3, RequestShrinks DEF AtWork

LEMMA ReserveShrinks ==
  ASSUME InvestigationInv, InvestigationInv', ReplayInv, ReplayInv', Reserve
  PROVE  Shrinks
<1>1. work.at = "reserve" /\ work.at \in AtWork
      /\ DOMAIN work = {"at", "request", "attempt", "terminal", "feedback", "index", "result"}
  BY DEF Reserve, AtWork, InvestigationInv, WorkOK
<1>2. CASE \E code : Refused(code)
  <2>1. CASE work.request[1] = "initial"
    BY <1>1, <1>2, <2>1, FailShrinks DEF Refused, Fail
  <2>2. CASE work.request[1] # "initial"
    <3>1. PICK code : Handoff(code)
      BY <1>2, <2>2 DEF Refused
    <3>2. unsaved' # unsaved
      BY <3>1, AdvanceStores DEF Handoff
    <3>3. Moves
      BY <3>2, ReserveForms DEF Reserves, Stays
    <3> QED
      BY <1>1, <3>3, AdvanceShrinks
  <2> QED
    BY <2>1, <2>2
<1>3. CASE \E result : Within(Replied(result))
  BY <1>1, <1>3, RepliedShrinks
<1>4. CASE Within([work EXCEPT !.at = "send"])
  <2>1. /\ work'.at = "send" /\ work'.attempt = work.attempt /\ work'.index = work.index
        /\ work'.request = work.request /\ UNCHANGED <<graph, answer, crashes>>
    BY <1>1, <1>4 DEF Within
  <2>2. CallLeft' < CallLeft
    BY <1>1, <2>1 DEF CallLeft
  <2> QED
    BY <1>1, <2>1, <2>2, RequestShrinks DEF AtWork
<1> QED
  BY <1>2, <1>3, <1>4 DEF Reserve, Replay

LEMMA SendShrinks ==
  ASSUME InvestigationInv, Send
  PROVE  Shrinks
<1>1. PICK r : Within([work EXCEPT !.at = "settle", !.result = <<r>>])
  BY DEF Send
<1>2. /\ work'.at = "settle" /\ work'.attempt = work.attempt /\ work'.index = work.index
      /\ work'.request = work.request /\ UNCHANGED <<graph, answer, crashes>> /\ work.at = "send"
  BY <1>1 DEF Within, Send, InvestigationInv, WorkOK
<1>3. CallLeft' < CallLeft
  BY <1>2 DEF CallLeft
<1> QED
  BY <1>2, <1>3, RequestShrinks DEF AtWork

LEMMA SettleShrinks ==
  ASSUME InvestigationInv, ReplayInv, Settle
  PROVE  Shrinks
<1>1. work.at = "settle" /\ work.at \in AtWork
  BY DEF Settle, AtWork
<1>2. CASE work.request[1] = "initial" /\ Within([Away EXCEPT !.at = "failed"])
  BY <1>1, <1>2, FailShrinks
<1>3. CASE Within(Replied(work.result))
  BY <1>1, <1>3, RepliedShrinks
<1> QED
  BY <1>2, <1>3 DEF Settle

LEMMA BindShrinks ==
  ASSUME InvestigationInv, InvestigationInv', ReplayInv, ReplayInv', Bind
  PROVE  Shrinks
<1>1. /\ work.at = "bind" /\ work.at \notin {"down", "failed"} /\ graph.next = "initialize"
      /\ DOMAIN work = {"at", "request", "attempt", "terminal", "feedback", "index", "result"}
  BY DEF Bind, ReplayInv, NowFit, AtWork, InvestigationInv, WorkOK
<1>2. CASE Moves
  BY <1>1, <1>2, AdvanceShrinks
<1>3. CASE work.request[3] = 1 /\ Within([work EXCEPT !.at = "reserve", !.request = Initial(2)])
  <2>1. /\ work'.at = "reserve" /\ work'.attempt = work.attempt /\ work'.request = Initial(2)
        /\ UNCHANGED <<graph, answer, crashes>>
    BY <1>1, <1>3 DEF Within
  <2>2. /\ CrashesLeft' = CrashesLeft /\ StepsLeft' = StepsLeft /\ NodesLeft' = NodesLeft
        /\ AnswersLeft' = AnswersLeft /\ CorrectionsLeft' = CorrectionsLeft
        /\ Here = graph /\ Here' = graph
    BY <1>1, <2>1, SameNode
  <2>3. EntriesLeft' = EntriesLeft
    BY <1>1, <2>1 DEF EntriesLeft
  <2>4. work'.request[3] = 2
    BY <2>1 DEF Initial
  <2>5. ReadsLeft = 2 - 1 /\ ReadsLeft' = 2 - 2
    BY <1>1, <1>3, <2>2, <2>4 DEF ReadsLeft
  <2>6. ReadsLeft' < ReadsLeft
    BY <2>5
  <2> QED
    BY <2>2, <2>3, <2>6 DEF Shrinks
<1>4. CASE Advance([graph EXCEPT !.next = "decide"])
  <2>1. unsaved' # unsaved
    BY <1>4, AdvanceStores
  <2> QED
    BY <1>2, <2>1, BindMoves DEF Stays
<1> QED
  BY <1>3, <1>4 DEF Bind

\* A reply is followed, corrected once, or the last.
LEMMA JudgeShrinks ==
  ASSUME InvestigationInv, InvestigationInv', ReplayInv, ReplayInv', Judge
  PROVE  Shrinks
<1>1. /\ work.at = "judge" /\ work.at \notin {"down", "failed"}
      /\ DOMAIN work = {"at", "request", "attempt", "terminal", "feedback", "index", "result"}
  BY DEF Judge, InvestigationInv, WorkOK
<1>2. CASE \E g : Advance(g)
  <2>1. unsaved' # unsaved
    BY <1>2, AdvanceStores
  <2> QED
    BY <1>1, <2>1, JudgeMoves, AdvanceShrinks DEF Stays
<1>3. CASE Correctable(work.result[1]) /\ Correct(work.result[1])
  <2> DEFINE r == work.result[1]
             terminal == work.terminal \/ r.action = "report"
             feedback == <<r>>
             request == Ask(work.request[2], TRUE)
  <2>1. /\ work' = [work EXCEPT !.at = "mode", !.attempt = 1, !.request = request,
                                !.terminal = terminal, !.feedback = feedback]
        /\ work.attempt = 0 /\ UNCHANGED <<graph, answer, crashes>>
    BY <1>3 DEF Correct, Within, Correctable
  <2> HIDE DEF r, terminal, feedback, request
  <2>2. work'.at = "mode" /\ work'.attempt = 1
    BY <1>1, <2>1
  <2>3. /\ CrashesLeft' = CrashesLeft /\ StepsLeft' = StepsLeft /\ NodesLeft' = NodesLeft
        /\ AnswersLeft' = AnswersLeft
    BY <1>1, <2>1, <2>2, SameNode
  <2>4. CorrectionsLeft' < CorrectionsLeft
    BY <2>1, <2>2 DEF CorrectionsLeft
  <2> QED
    BY <2>3, <2>4 DEF Shrinks
<1>4. ASSUME Acceptable(work.result[1]), Accept(work.result[1]) PROVE \E g : Advance(g)
  BY <1>4 DEF Accept
<1> QED
  BY <1>2, <1>3, <1>4 DEF Judge, Handoff

LEMMA AuthorizeShrinks ==
  ASSUME InvestigationInv, InvestigationInv', ReplayInv, ReplayInv', Authorize
  PROVE  Shrinks
<1> DEFINE n == work.index
           last == Len(graph.decision.batch)
<1>1. /\ work.at = "authorize" /\ work.at \notin {"down", "failed"}
      /\ DOMAIN work = {"at", "request", "attempt", "terminal", "feedback", "index", "result"}
      /\ work.request = Tool(graph.step, n)
  BY DEF Authorize, InvestigationInv, WorkOK
<1>2. CASE \E g : Advance(g)
  <2>1. unsaved' # unsaved
    BY <1>2, AdvanceStores
  <2> QED
    BY <1>1, <2>1, AuthorizeMoves, AdvanceShrinks DEF Stays
<1>3. CASE NextAuthorized
  <2>1. graph.next = "collect" /\ n \in 1..last
    BY <1>1, RequestFacts DEF ReplayInv, NowFit, AtWork
  <2>2. last \in Nat
    BY <1>1, <2>1, GraphPoint, PointFacts
  <2>3. UNCHANGED <<graph, answer, crashes>>
    BY <1>3 DEF NextAuthorized, Within
  <2>4. CASE n = last
    <3> DEFINE q == Tool(graph.step, 1)
    <3>1. work' = [work EXCEPT !.at = "reserve", !.index = 1, !.request = q]
      BY <1>3, <2>4 DEF NextAuthorized, Within
    <3> HIDE DEF q
    <3>2. work'.at = "reserve" /\ work'.attempt = work.attempt
      BY <1>1, <3>1
    <3>3. /\ CrashesLeft' = CrashesLeft /\ StepsLeft' = StepsLeft /\ NodesLeft' = NodesLeft
          /\ AnswersLeft' = AnswersLeft /\ CorrectionsLeft' = CorrectionsLeft
      BY <1>1, <2>3, <3>2, SameNode
    <3>4. EntriesLeft' < EntriesLeft
      BY <1>1, <3>2 DEF EntriesLeft
    <3> QED
      BY <3>3, <3>4 DEF Shrinks
  <2>5. CASE n # last
    <3> DEFINE q == Tool(graph.step, n + 1)
    <3>1. work' = [work EXCEPT !.index = n + 1, !.request = q]
      BY <1>3, <2>5 DEF NextAuthorized, Within
    <3> HIDE DEF q
    <3>2. work'.at = work.at /\ work'.attempt = work.attempt /\ work'.index = n + 1
      BY <1>1, <3>1
    <3>3. /\ CrashesLeft' = CrashesLeft /\ StepsLeft' = StepsLeft /\ NodesLeft' = NodesLeft
          /\ AnswersLeft' = AnswersLeft /\ CorrectionsLeft' = CorrectionsLeft
          /\ Here = graph /\ Here' = graph
      BY <1>1, <2>3, <3>2, SameNode
    <3>4. EntriesLeft' = EntriesLeft
      BY <1>1, <3>2 DEF EntriesLeft
    <3>5. ReadsLeft = last - n /\ ReadsLeft' = last - (n + 1)
      BY <2>1, <3>2, <3>3 DEF ReadsLeft
    <3> HIDE DEF n, last
    <3>6. ReadsLeft' < ReadsLeft
      BY <2>1, <2>2, <3>5
    <3> QED
      BY <3>3, <3>4, <3>6 DEF Shrinks
  <2> QED
    BY <2>4, <2>5
<1> QED
  BY <1>2, <1>3 DEF Authorize, Handoff

LEMMA AdaptShrinks ==
  ASSUME InvestigationInv, InvestigationInv', ReplayInv, ReplayInv', Adapt
  PROVE  Shrinks
<1> DEFINE n == work.index
           last == Len(graph.decision.batch)
           read == [query |-> graph.decision.batch[work.index], result |-> work.result[1],
                    by |-> work.request]
           reads == Append(graph.reads, read)
           q == Tool(graph.step, n + 1)
<1>1. /\ work.at = "adapt" /\ work.at \notin {"down", "failed"}
      /\ DOMAIN work = {"at", "request", "attempt", "terminal", "feedback", "index", "result"}
      /\ n \in 1..last /\ work.request[1] = "tool"
  BY DEF Adapt, InvestigationInv, WorkOK
<1>2. CASE \E g : Advance(g)
  <2>1. unsaved' # unsaved
    BY <1>2, AdvanceStores
  <2> QED
    BY <1>1, <2>1, AdaptMoves, AdvanceShrinks DEF Stays
<1>3. CASE /\ graph' = [graph EXCEPT !.reads = reads]
           /\ work' = [work EXCEPT !.at = "reserve", !.index = n + 1, !.request = q, !.result = <<>>]
           /\ UNCHANGED <<answer, crashes>>
  <2>1. graph.next = "collect"
    BY <1>1 DEF ReplayInv, NowFit, AtWork
  <2>2. last \in Nat /\ DOMAIN graph = {"next", "step", "decision", "reads", "asked", "answers", "output"}
    BY <1>1, <2>1, GraphPoint, PointFacts DEF PointOK, GraphOK
  <2> HIDE DEF reads, q
  <2>3. /\ graph'.next = graph.next /\ graph'.step = graph.step /\ graph'.asked = graph.asked
        /\ graph'.decision = graph.decision
    BY <1>3, <2>2
  <2>4. work'.at = "reserve" /\ work'.attempt = work.attempt /\ work'.index = n + 1
    BY <1>1, <1>3
  <2>5. /\ CrashesLeft' = CrashesLeft /\ StepsLeft' = StepsLeft /\ NodesLeft' = NodesLeft
        /\ AnswersLeft' = AnswersLeft /\ CorrectionsLeft' = CorrectionsLeft
        /\ Here = graph /\ Here' = graph'
    BY <1>1, <1>3, <2>3, <2>4, SameNode
  <2>6. EntriesLeft' = EntriesLeft
    BY <1>1, <2>4 DEF EntriesLeft
  <2>7. ReadsLeft = last - n /\ ReadsLeft' = last - (n + 1)
    BY <2>1, <2>3, <2>4, <2>5 DEF ReadsLeft
  <2> HIDE DEF n, last
  <2>8. ReadsLeft' < ReadsLeft
    BY <1>1, <2>2, <2>7
  <2> QED
    BY <2>5, <2>6, <2>8 DEF Shrinks
<1> QED
  BY <1>2, <1>3 DEF Adapt

LEMMA AcceptAnswerShrinks ==
  ASSUME InvestigationInv, InvestigationInv', ReplayInv, ReplayInv', AcceptAnswer
  PROVE  Shrinks
BY AcceptAnswerMoves, AdvanceShrinks DEF AcceptAnswer

\* The run is claimed: from the point it had.
LEMMA ClaimShrinks ==
  ASSUME InvestigationInv, ReplayInv, Claim
  PROVE  Shrinks
<1> DEFINE e == Enter(saved)
<1>1. /\ DOMAIN e = {"at", "request", "attempt", "terminal", "feedback", "index", "result"}
      /\ e.attempt = 0 /\ e.at \notin {"down", "failed"}
  BY EnterFacts DEF InvestigationInv, GraphsOK
<1> HIDE DEF e
<1>2. /\ work.at = "down" /\ graph' = saved /\ UNCHANGED <<saved, answer, crashes>>
      /\ (work' = e \/ work' = [e EXCEPT !.at = "accept"])
  BY DEF Claim, e
<1>3. work'.at \notin {"down", "failed"} /\ work'.attempt = 0
  BY <1>1, <1>2
<1>4. Here = saved /\ Here' = saved /\ work.attempt = 0
  BY <1>2, <1>3 DEF Here, ReplayInv, NowFit
<1>5. /\ CrashesLeft' = CrashesLeft /\ StepsLeft' = StepsLeft /\ NodesLeft' = NodesLeft
      /\ AnswersLeft' = AnswersLeft /\ CorrectionsLeft' = CorrectionsLeft
  BY <1>2, <1>3, <1>4 DEF CrashesLeft, StepsLeft, NodesLeft, AnswersLeft, CorrectionsLeft
<1>6. EntriesLeft' < EntriesLeft
  BY <1>2, <1>3 DEF EntriesLeft
<1> QED
  BY <1>5, <1>6 DEF Shrinks

LEMMA CrashShrinks ==
  ASSUME ReplayInv, Crash
  PROVE  Shrinks
<1>1. crashes \in Nat /\ MaxCrashes \in Nat /\ crashes' = crashes + 1
  BY InvestigationAssumption DEF InvestigationAssumption, ReplayInv, Crash
<1>2. CrashesLeft' < CrashesLeft
  BY <1>1 DEF CrashesLeft
<1> QED
  BY <1>2 DEF Shrinks

LEMMA SaveShrinks ==
  ASSUME ReplayInv, SaveCheckpoint
  PROVE  Shrinks
<1>1. /\ work.at # "down" /\ unsaved # <<>> /\ unsaved' = Tail(unsaved)
      /\ UNCHANGED <<graph, work, answer, crashes>>
  BY DEF SaveCheckpoint, ReplayInv
<1>2. Len(unsaved') < Len(unsaved)
  <2>1. Len(unsaved') = Len(unsaved) - 1 /\ Len(unsaved) \in Nat
    BY <1>1, ChainHead DEF ReplayInv
  <2> QED
    BY <2>1
<1>3. Here = graph /\ Here' = graph
  BY <1>1 DEF Here
<1>4. /\ CrashesLeft' = CrashesLeft /\ StepsLeft' = StepsLeft /\ NodesLeft' = NodesLeft
      /\ AnswersLeft' = AnswersLeft /\ CorrectionsLeft' = CorrectionsLeft
      /\ EntriesLeft' = EntriesLeft /\ CallLeft' = CallLeft
  BY <1>1, <1>3 DEF CrashesLeft, StepsLeft, NodesLeft, AnswersLeft, CorrectionsLeft, EntriesLeft, CallLeft
<1>5. ReadsLeft' = ReadsLeft
  BY <1>1, <1>3 DEF ReadsLeft
<1> QED
  BY <1>2, <1>4, <1>5 DEF Shrinks

\* The human answers a question that had no answer.
LEMMA AnswerShrinks ==
  ASSUME ReplayInv, Answer
  PROVE  Shrinks
<1>1. /\ work.at = "wait" /\ unsaved = <<>> /\ answer'.n = Len(graph.asked)
      /\ work' = Away /\ UNCHANGED <<graph, saved, crashes>>
  BY DEF Answer
<1>2. work'.at = "down"
  BY <1>1 DEF Away
<1>3. /\ Last(saved, unsaved) = saved /\ graph.next = "wait"
      /\ answer.n < Len(graph.asked) /\ answer.n \in Nat
  BY <1>1, LastFacts DEF ReplayInv, NowFit, AnswerFit
<1>4. saved.next = "wait" /\ saved.step = graph.step /\ saved.asked = graph.asked
  BY <1>1, <1>3 DEF ReplayInv, OnTop
<1>5. Len(graph.asked) \in Nat
  BY <1>3, GraphPoint, PointFacts
<1>6. Here = graph /\ Here' = saved
  BY <1>1, <1>2 DEF Here
<1>7. CrashesLeft' = CrashesLeft /\ StepsLeft' = StepsLeft /\ NodesLeft' = NodesLeft
  BY <1>1, <1>2, <1>3, <1>4, <1>6 DEF CrashesLeft, StepsLeft, NodesLeft
<1>8. AnswersLeft' = 0
  BY <1>1, <1>4, <1>6 DEF AnswersLeft
<1>9. AnswersLeft = 1
  BY <1>3, <1>5, <1>6 DEF AnswersLeft
<1> QED
  BY <1>7, <1>8, <1>9 DEF Shrinks

LEMMA NextShrinks ==
  ASSUME InvestigationInv, InvestigationInv', ReplayInv, ReplayInv', Next
  PROVE  Shrinks
<1>1. CASE Claim
  BY <1>1, ClaimShrinks
<1>2. CASE TerminalMode
  BY <1>2, ModeShrinks
<1>3. CASE Reserve
  BY <1>3, ReserveShrinks
<1>4. CASE Send
  BY <1>4, SendShrinks
<1>5. CASE Settle
  BY <1>5, SettleShrinks
<1>6. CASE Bind
  BY <1>6, BindShrinks
<1>7. CASE Judge
  BY <1>7, JudgeShrinks
<1>8. CASE Authorize
  BY <1>8, AuthorizeShrinks
<1>9. CASE Adapt
  BY <1>9, AdaptShrinks
<1>10. CASE AcceptAnswer
  BY <1>10, AcceptAnswerShrinks
<1>11. CASE SaveCheckpoint
  BY <1>11, SaveShrinks
<1>12. CASE Answer
  BY <1>12, AnswerShrinks
<1>13. CASE Crash
  BY <1>13, CrashShrinks
<1> QED
  BY <1>1, <1>2, <1>3, <1>4, <1>5, <1>6, <1>7, <1>8, <1>9, <1>10, <1>11, <1>12, <1>13 DEF Next, Step

\* What run_investigation() (investigation/graph.py, with the ledger of
\* runtime/budget.py and the checkpointer) has left to do is a tuple of natural
\* numbers and every step of it, of the saver, of the human and of a crash makes
\* that tuple smaller: no run goes on for ever, whatever the policy permits,
\* however far the saver falls behind, and whatever is replayed after a crash.
THEOREM EveryStepShrinks == InvestigationSpec => []LeftOK /\ [][Shrinks]_vars
<1>1. InvestigationInv /\ ReplayInv => LeftOK
  BY LeftFacts
<1>2. /\ InvestigationInv /\ ReplayInv /\ (InvestigationInv /\ ReplayInv)' /\ [Next]_vars
      => [Shrinks]_vars
  BY NextShrinks
<1> QED
  BY ReplayInductive, <1>1, <1>2, PTL DEF InvestigationSpec
=============================================================================
