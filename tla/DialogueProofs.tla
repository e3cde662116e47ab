--------------------------- MODULE DialogueProofs ---------------------------
(***************************************************************************)
(* Proofs about the requests of people and the worker's lanes: for every    *)
(* set of client keys and workers, and any number of runs, posts, crashes   *)
(* and attempts.                                                            *)
(***************************************************************************)
EXTENDS Dialogue, FiniteSetTheorems, SequenceTheorems, TLAPS

\* Sequences, whatever their elements.
LEMMA EmptyIsSeq == IsSeq(<<>>)
BY DEF IsSeq

LEMMA AppendIsSeq ==
  ASSUME NEW s, NEW x, IsSeq(s)
  PROVE  /\ IsSeq(Append(s, x)) /\ Len(s) \in Nat /\ DOMAIN s = 1..Len(s)
         /\ Len(Append(s, x)) = Len(s) + 1 /\ DOMAIN Append(s, x) = 1..Len(s) + 1
         /\ Append(s, x)[Len(s) + 1] = x
         /\ \A i \in DOMAIN s : Append(s, x)[i] = s[i]
<1> DEFINE S == {s[i] : i \in DOMAIN s}
           t == Append(s, x)
           T == {t[i] : i \in DOMAIN t}
<1>1. s \in Seq(S)
  BY DEF IsSeq
<1>2. Len(s) \in Nat /\ DOMAIN s = 1..Len(s)
  BY <1>1, LenProperties
<1>3. s \in Seq(S \cup {x})
  BY <1>1, SeqMonotonic
<1> HIDE DEF S
<1>4. /\ t \in Seq(S \cup {x}) /\ Len(t) = Len(s) + 1 /\ t[Len(s) + 1] = x
      /\ \A i \in 1..Len(s) : t[i] = s[i]
  BY <1>3
<1>5. DOMAIN t = 1..Len(s) + 1
  BY <1>4, LenProperties
<1> HIDE DEF t
<1>6. t \in [1..Len(s) + 1 -> T]
  <2>1. t = [i \in 1..Len(s) + 1 |-> t[i]]
    BY <1>4, <1>5, LenProperties
  <2> QED
    BY <1>5, <2>1
<1>7. t \in Seq(T)
  BY <1>2, <1>6, SeqDef
<1> QED
  BY <1>2, <1>4, <1>5, <1>7 DEF t, IsSeq

LEMMA ShapeIsSeq ==
  ASSUME NEW n \in Nat, NEW s, s = [i \in 1..n |-> s[i]]
  PROVE  IsSeq(s) /\ Len(s) = n /\ DOMAIN s = 1..n
<1> DEFINE S == {s[i] : i \in 1..n}
<1>1. DOMAIN s = 1..n
  OBVIOUS
<1>2. s \in [1..n -> S]
  OBVIOUS
<1>3. s \in Seq(S)
  BY <1>2, SeqDef
<1>4. IsSeq(s)
  BY <1>1, <1>3 DEF IsSeq
<1>5. Len(s) = n
  BY <1>1, <1>3, LenProperties
<1> QED
  BY <1>1, <1>4, <1>5

LEMMA SeqShape ==
  ASSUME NEW s, IsSeq(s)
  PROVE  Len(s) \in Nat /\ DOMAIN s = 1..Len(s) /\ s = [i \in 1..Len(s) |-> s[i]]
<1> DEFINE S == {s[i] : i \in DOMAIN s}
<1>1. s \in Seq(S)
  BY DEF IsSeq
<1> HIDE DEF S
<1> QED
  BY <1>1, LenProperties

-----------------------------------------------------------------------------
\* What a step may do to a row, and to the rows when it adds none.
LaterRow(y, x) ==
  /\ DOMAIN y = Fields
  /\ y.kind = x.kind /\ y.for = x.for /\ y.source = x.source /\ y.parent = x.parent
  /\ y.rev \in Nat
  /\ x.kind # "diagnosis" => y.rev = x.rev
  /\ y.status \notin Terminal => x.status \notin Terminal

Later(rows) ==
  /\ IsSeq(rows) /\ DOMAIN rows = DOMAIN run /\ Len(rows) = Len(run)
  /\ \A r \in DOMAIN run : LaterRow(rows[r], run[r])

LEMMA RunShape ==
  ASSUME RunsOK
  PROVE  Len(run) \in Nat /\ DOMAIN run = 1..Len(run) /\ run = [i \in 1..Len(run) |-> run[i]]
BY SeqShape DEF RunsOK

LEMMA Parents ==
  ASSUME RunsOK
  PROVE  \A r \in DOMAIN run : run[r].parent \in 0..Len(run)
BY RunShape DEF RunsOK, RowOK

LEMMA LatestFacts ==
  ASSUME RunsOK
  PROVE  /\ Latest \in DOMAIN run /\ run[Latest].kind = "diagnosis"
         /\ \A q \in DOMAIN run : run[q].kind = "diagnosis" => q <= Latest
         /\ \A q \in DOMAIN run :
              run[q].kind = "diagnosis" /\ (\A p \in DOMAIN run : p > q => run[p].kind # "diagnosis")
              => q = Latest
<1>1. /\ Latest \in DOMAIN run /\ run[Latest].kind = "diagnosis"
      /\ \A q \in DOMAIN run : q > Latest => run[q].kind # "diagnosis"
  BY DEF RunsOK, Latest
<1> QED
  BY <1>1, RunShape

LEMMA SameIsLater ==
  ASSUME RunsOK
  PROVE  Later(run)
BY DEF RunsOK, RowOK, Later, LaterRow

LEMMA ChangedRow ==
  ASSUME RunsOK, NEW r \in DOMAIN run, NEW y, LaterRow(y, run[r])
  PROVE  Later([run EXCEPT ![r] = y])
<1> DEFINE s == [run EXCEPT ![r] = y]
<1>1. Len(run) \in Nat /\ DOMAIN run = 1..Len(run)
  BY RunShape
<1>2. DOMAIN s = 1..Len(run) /\ s = [i \in 1..Len(run) |-> s[i]]
  BY <1>1
<1>3. \A i \in DOMAIN run : LaterRow(s[i], run[i])
  BY SameIsLater DEF Later
<1> HIDE DEF s
<1>4. IsSeq(s) /\ Len(s) = Len(run)
  BY <1>1, <1>2, ShapeIsSeq
<1>5. Later(s)
  BY <1>1, <1>2, <1>3, <1>4 DEF Later
<1> QED
  BY <1>5 DEF s

\* No row is added: the latest diagnosis run and the rows of every key stay.
LEMMA KeptRuns ==
  ASSUME RunsOK, Later(run')
  PROVE  /\ RunsOK' /\ Latest' = Latest /\ Len(run') = Len(run) /\ DOMAIN run' = DOMAIN run
         /\ \A r \in DOMAIN run : LaterRow(run'[r], run[r])
         /\ \A k \in Key : /\ ByKey(k)' = ByKey(k) /\ RoundsFor(k)' = RoundsFor(k)
                           /\ DeferredFor(k)' = DeferredFor(k)
<1>1. /\ Len(run') = Len(run) /\ DOMAIN run' = DOMAIN run /\ IsSeq(run')
      /\ \A r \in DOMAIN run : LaterRow(run'[r], run[r])
  BY DEF Later
<1>2. \A r \in DOMAIN run : RowOK(run'[r]) /\ run'[r].parent <= Len(run')
  BY <1>1 DEF RunsOK, RowOK, LaterRow
<1>3. RunsOK'
  BY <1>1, <1>2 DEF RunsOK, LaterRow
<1>4. Latest' = Latest
  <2>1. /\ Latest' \in DOMAIN run /\ run'[Latest'].kind = "diagnosis"
        /\ \A q \in DOMAIN run : q > Latest' => run'[q].kind # "diagnosis"
    BY <1>1, <1>3 DEF RunsOK, Latest
  <2>2. \A q \in DOMAIN run : run'[q].kind = run[q].kind
    BY <1>1 DEF LaterRow
  <2> QED
    BY <2>1, <2>2, LatestFacts
<1>5. \A k \in Key : ByKey(k)' = ByKey(k) /\ RoundsFor(k)' = RoundsFor(k)
  BY <1>1 DEF ByKey, RoundsFor, LaterRow
<1>6. \A k \in Key : DeferredFor(k)' = DeferredFor(k)
  BY <1>1, <1>5 DEF DeferredFor, LaterRow, RoundsFor
<1> QED
  BY <1>1, <1>3, <1>4, <1>5, <1>6

\* A row is added.
LEMMA AddedRun ==
  ASSUME RunsOK, NEW rows, Later(rows), NEW x, RowOK(x), x.parent <= Len(run),
         Len(run) < MaxRuns, run' = Append(rows, x)
  PROVE  /\ RunsOK' /\ Len(run') = Len(run) + 1 /\ DOMAIN run' = 1..Len(run) + 1
         /\ run'[Len(run) + 1] = x
         /\ \A r \in DOMAIN run : run'[r] = rows[r] /\ LaterRow(run'[r], run[r])
         /\ Latest' = IF x.kind = "diagnosis" THEN Len(run) + 1 ELSE Latest
<1>1. /\ Len(run') = Len(run) + 1 /\ DOMAIN run' = 1..Len(run) + 1 /\ IsSeq(run')
      /\ run'[Len(run) + 1] = x /\ \A r \in DOMAIN run : run'[r] = rows[r]
  BY AppendIsSeq DEF Later
<1>2. Len(run) \in Nat /\ DOMAIN run = 1..Len(run) /\ MaxRuns \in Nat
  BY RunShape, DialogueAssumption DEF DialogueAssumption
<1>3. \A r \in DOMAIN run : LaterRow(run'[r], run[r])
  BY <1>1 DEF Later
<1>4. \A r \in DOMAIN run : RowOK(run'[r]) /\ run'[r].parent <= Len(run)
  BY <1>3 DEF RunsOK, RowOK, LaterRow
<1>5. \A r \in DOMAIN run' : RowOK(run'[r]) /\ run'[r].parent <= Len(run')
  BY <1>1, <1>2, <1>4 DEF RowOK
<1>6. \A q \in DOMAIN run : run'[q].kind = run[q].kind
  BY <1>3 DEF LaterRow
<1> DEFINE top == IF x.kind = "diagnosis" THEN Len(run) + 1 ELSE Latest
<1>7. /\ top \in DOMAIN run' /\ run'[top].kind = "diagnosis"
      /\ \A q \in DOMAIN run' : q > top => run'[q].kind # "diagnosis"
  BY <1>1, <1>2, <1>6, LatestFacts
<1>8. RunsOK'
  <2>1. \E r \in DOMAIN run' : /\ run'[r].kind = "diagnosis"
                               /\ \A q \in DOMAIN run' : q > r => run'[q].kind # "diagnosis"
    BY <1>7
  <2> QED
    BY <1>1, <1>2, <1>5, <2>1 DEF RunsOK
<1>9. Latest' = top
  <2> HIDE DEF top
  <2>1. /\ Latest' \in DOMAIN run' /\ run'[Latest'].kind = "diagnosis"
        /\ \A q \in DOMAIN run' : q > Latest' => run'[q].kind # "diagnosis"
    BY <1>8 DEF RunsOK, Latest
  <2> QED
    BY <1>1, <1>2, <1>7, <2>1
<1> QED
  BY <1>1, <1>3, <1>8, <1>9

\* What a new row adds to the rows of a key.
LEMMA AddedSets ==
  ASSUME RunsOK, NEW x, Len(run') = Len(run) + 1, DOMAIN run' = 1..Len(run) + 1,
         run'[Len(run) + 1] = x,
         \A r \in DOMAIN run : LaterRow(run'[r], run[r]),
         NEW k \in Key
  PROVE  /\ ByKey(k)' = IF x.kind = "interaction" /\ x.for = k THEN ByKey(k) \cup {Len(run) + 1} ELSE ByKey(k)
         /\ RoundsFor(k)' = IF x.kind = "diagnosis" /\ x.for = k THEN RoundsFor(k) \cup {Len(run) + 1}
                            ELSE RoundsFor(k)
         /\ DeferredFor(k)' = IF x.kind = "diagnosis" /\ x.for = k /\ x.source # k
                              THEN DeferredFor(k) \cup {Len(run) + 1} ELSE DeferredFor(k)
<1>1. Len(run) \in Nat /\ DOMAIN run = 1..Len(run)
  BY RunShape
<1>2. DOMAIN run' = DOMAIN run \cup {Len(run) + 1} /\ Len(run) + 1 \notin DOMAIN run
  BY <1>1
<1>3. \A r \in DOMAIN run : /\ run'[r].kind = run[r].kind /\ run'[r].for = run[r].for
                            /\ run'[r].source = run[r].source
  BY DEF LaterRow
<1>4. ByKey(k)' = IF x.kind = "interaction" /\ x.for = k THEN ByKey(k) \cup {Len(run) + 1} ELSE ByKey(k)
  BY <1>2, <1>3 DEF ByKey
<1>5. RoundsFor(k)' = IF x.kind = "diagnosis" /\ x.for = k THEN RoundsFor(k) \cup {Len(run) + 1}
                      ELSE RoundsFor(k)
  BY <1>2, <1>3 DEF RoundsFor
<1>6. RoundsFor(k) \subseteq DOMAIN run
  BY DEF RoundsFor
<1>7. DeferredFor(k)' = IF x.kind = "diagnosis" /\ x.for = k /\ x.source # k
                        THEN DeferredFor(k) \cup {Len(run) + 1} ELSE DeferredFor(k)
  BY <1>2, <1>3, <1>5, <1>6 DEF DeferredFor
<1> QED
  BY <1>4, <1>5, <1>7

-----------------------------------------------------------------------------
\* What every step leaves standing for the other actors.
Onward ==
  /\ IsSeq(run') /\ Len(run') >= Len(run)
  /\ DOMAIN run \subseteq DOMAIN run' /\ \A r \in DOMAIN run : LaterRow(run'[r], run[r])
  /\ \A k \in Key : intent[k] # "none" => intent'[k] = intent[k]
  /\ \A k \in Key : Replayed(k) => control'[k].status # "none"
  /\ \A k \in Key : ByKey(k) \subseteq ByKey(k)'
  /\ \A k \in Key : \A q \in DeferredFor(k)' : q \in DeferredFor(k) \/ q > Len(run)

\* A handler that this step does not move stands where it stood.
LEMMA PostsKept ==
  ASSUME RunsOK, PostsOK, Onward, IsSeq(post'),
         \A i \in DOMAIN post' : (i \in DOMAIN post /\ post'[i] = post[i]) \/ PostOK(i)'
  PROVE  PostsOK'
<1>1. Len(run) \in Nat /\ Len(run') \in Nat /\ DOMAIN run' = 1..Len(run')
  BY RunShape, SeqShape DEF Onward
<1>2. ASSUME NEW i \in DOMAIN post, post'[i] = post[i]
      PROVE  PostOK(i)'
  <2>1. PostOK(i)
    BY DEF PostsOK
  <2> PICK k : k = post[i].key
    OBVIOUS
  <2>2. /\ k \in Key /\ intent[k] \in Intents \cup {"answer"} /\ intent[k] # "none"
        /\ post[i].parent \in 0..Len(run) /\ DOMAIN post[i] = {"key", "at", "parent", "question", "again"}
    BY <2>1 DEF PostOK, Intents
  <2>3. intent'[k] = intent[k] /\ post[i].parent \in 0..Len(run')
    BY <1>1, <2>2 DEF Onward
  <2>4. \A r \in DOMAIN run : r \in DOMAIN run' /\ run'[r].kind = run[r].kind
    BY DEF Onward, LaterRow
  <2>5. /\ Replayed(k) => Replayed(k)'
        /\ ByKey(k) \subseteq ByKey(k)'
        /\ \A q \in DeferredFor(k)' : q \in DeferredFor(k) \/ q > Len(run)
    BY <2>2 DEF Onward, Replayed
  <2>6. \A q \in DeferredFor(k)' : q \in Nat
    BY <1>1 DEF DeferredFor, RoundsFor
  <2>7. post[i].at = "accept" => \A q \in DeferredFor(k)' : q > post[i].parent
    BY <1>1, <2>1, <2>2, <2>5, <2>6 DEF PostOK
  <2> QED
    BY <1>2, <2>1, <2>2, <2>3, <2>5, <2>7, <2>4 DEF PostOK
<1> QED
  BY <1>2 DEF PostsOK

LEMMA PostsSame ==
  ASSUME RunsOK, PostsOK, Onward, post' = post
  PROVE  PostsOK'
BY PostsKept DEF PostsOK

\* The response of a handler ends it.
LEMMA Responded ==
  ASSUME RunsOK, PostsOK, Onward, NEW i \in DOMAIN post, Respond(i)
  PROVE  PostsOK'
<1> DEFINE p == [post[i] EXCEPT !.at = "done", !.parent = 0, !.again = FALSE]
<1>1. post' = [post EXCEPT ![i] = p]
  BY DEF Respond
<1>2. PostOK(i) /\ IsSeq(post)
  BY DEF PostsOK
<1>3. /\ DOMAIN p = {"key", "at", "parent", "question", "again"} /\ p.key = post[i].key
      /\ p.at = "done" /\ p.parent = 0 /\ p.again = FALSE /\ p.question = post[i].question
  BY <1>2 DEF PostOK
<1> HIDE DEF p
<1>4. IsSeq(post') /\ DOMAIN post' = DOMAIN post
  BY <1>1, <1>2, SeqShape, ShapeIsSeq
<1>5. Len(run') \in Nat
  BY SeqShape DEF Onward
<1>6. intent[p.key] \in Intents \cup {"answer"} /\ intent'[p.key] = intent[p.key] /\ p.key \in Key
  BY <1>2, <1>3 DEF PostOK, Intents, Onward
<1>7. \A r \in DOMAIN run : r \in DOMAIN run' /\ run'[r].kind = run[r].kind
  BY DEF Onward, LaterRow
<1>8. PostOK(i)'
  BY <1>1, <1>2, <1>3, <1>5, <1>6, <1>7 DEF PostOK
<1> QED
  BY <1>1, <1>4, <1>8, PostsKept

LEMMA WorkKept ==
  ASSUME WorkOK, Onward, work' = work
  PROVE  WorkOK'
BY DEF WorkOK, Onward, LaterRow, Kind

\* A worker that lets its run go, or moves within it.
LEMMA WorkMoved ==
  ASSUME WorkOK, Onward, NEW w \in Worker, NEW v, work' = [work EXCEPT ![w] = v],
         DOMAIN v = {"run", "epoch", "at", "only", "sample"},
         v.at # "idle" => v.run \in DOMAIN run,
         v.at \in {"sampling", "sampled", "publish"} => run[v.run].kind = "delayed"
  PROVE  WorkOK'
<1>1. DOMAIN work' = Worker /\ \A u \in Worker : work'[u] = IF u = w THEN v ELSE work[u]
  BY DEF WorkOK
<1>2. \A r \in DOMAIN run : r \in DOMAIN run' /\ run'[r].kind = run[r].kind
  BY DEF Onward, LaterRow
<1> QED
  BY <1>1, <1>2 DEF WorkOK, Kind

LEMMA WorkIdle ==
  ASSUME WorkOK, Onward, NEW w \in Worker, Idle(w)
  PROVE  WorkOK'
BY WorkMoved DEF Idle, Off

LEMMA DelayedKept ==
  ASSUME RunsOK, DelayedOK, Onward, delayed' = delayed
  PROVE  DelayedOK'
<1>1. Len(run) \in Nat /\ Len(run') \in Nat /\ Len(run') >= Len(run)
  BY RunShape, SeqShape DEF Onward
<1> QED
  BY <1>1 DEF DelayedOK

LEMMA DelayedMoved ==
  ASSUME RunsOK, DelayedOK, Onward, NEW d, NEW v, delayed' = [delayed EXCEPT ![d] = v],
         d \in RunIds => /\ DOMAIN v = {"status", "basis", "rev", "run", "expired"}
                         /\ v.run \in 0..Len(run')
  PROVE  DelayedOK'
<1>1. Len(run) \in Nat /\ Len(run') \in Nat /\ Len(run') >= Len(run)
  BY RunShape, SeqShape DEF Onward
<1> QED
  BY <1>1 DEF DelayedOK

-----------------------------------------------------------------------------
\* Controls are only settled.
Settles ==
  /\ DOMAIN control' = Key
  /\ \A k \in Key : \/ control'[k] = control[k]
                    \/ /\ control[k].status = "pending"
                       /\ \E s \in {"started", "superseded"} : control'[k] = [control[k] EXCEPT !.status = s]

LEMMA SettledControl ==
  ASSUME ControlsOK, Settles, intent' = intent, NEW k \in Key
  PROVE  /\ DOMAIN control'[k] = {"status", "parent", "rev"}
         /\ control'[k].parent = control[k].parent /\ control'[k].rev = control[k].rev
         /\ control'[k].status = "none" <=> control[k].status = "none"
         /\ control'[k].status = "pending" => control[k].status = "pending"
BY DEF ControlsOK, Settles

LEMMA SettledStops ==
  ASSUME ControlsOK, Settles, intent' = intent, NEW n
  PROVE  StoppedAfter(n)' = StoppedAfter(n)
BY SettledControl DEF StoppedAfter

LEMMA KeptLanes ==
  ASSUME RunsOK, LanesOK, KeysOK, Later(run'),
         \A k \in Key : intent[k] # "none" => intent'[k] = intent[k]
  PROVE  LanesOK'
<1>1. /\ Latest' = Latest /\ DOMAIN run' = DOMAIN run
      /\ \A r \in DOMAIN run : /\ run'[r].kind = run[r].kind /\ run'[r].for = run[r].for
                               /\ run'[r].status \notin Terminal => run[r].status \notin Terminal
  BY KeptRuns DEF LaterRow
<1>2. Latest \in DOMAIN run
  BY LatestFacts
<1>3. \A r \in DOMAIN run : run[r].kind = "interaction" /\ Historical(run[r].for) =>
        Historical(run[r].for) /\ intent'[run[r].for] = "explain"
  BY DEF KeysOK, RunsOK, RowOK, Historical, Intents
<1> QED
  BY <1>1, <1>2, <1>3 DEF LanesOK, Active, Historical

\* A step that adds no row, settles controls at most and leaves the rest alone.
LEMMA QuietRows ==
  ASSUME DialogueInv, Later(run'), Settles, UNCHANGED <<message, intent, revision>>
  PROVE  Onward /\ RunsOK' /\ LanesOK' /\ KeysOK' /\ RoundsOK' /\ ControlsOK'
<1>1. /\ RunsOK /\ LanesOK /\ KeysOK /\ RoundsOK /\ ControlsOK
  BY DEF DialogueInv
<1>2. /\ RunsOK' /\ Latest' = Latest /\ Len(run') = Len(run) /\ DOMAIN run' = DOMAIN run
      /\ \A r \in DOMAIN run : LaterRow(run'[r], run[r])
      /\ \A k \in Key : /\ ByKey(k)' = ByKey(k) /\ RoundsFor(k)' = RoundsFor(k)
                        /\ DeferredFor(k)' = DeferredFor(k)
  BY <1>1, KeptRuns
<1>3. LanesOK'
  BY <1>1, KeptLanes
<1>4. Onward
  BY <1>1, <1>2, RunShape, SettledControl DEF Onward, RunsOK, Replayed
<1>5. \A r \in DOMAIN run : /\ run'[r].kind = run[r].kind /\ run'[r].for = run[r].for
                            /\ run'[r].parent = run[r].parent
  BY <1>2 DEF LaterRow
<1>6. KeysOK'
  BY <1>1, <1>2, <1>5 DEF KeysOK, Sent
<1>7. RoundsOK'
  <2>1. \A k \in Key : ByKey(k) \subseteq DOMAIN run
    BY DEF ByKey
  <2> QED
    BY <1>1, <1>2, <1>5, <2>1, SettledControl DEF RoundsOK
<1>8. ControlsOK'
  <2>1. \A k \in Key : /\ DOMAIN control'[k] = {"status", "parent", "rev"}
                       /\ control'[k].parent \in 0..Len(run) /\ control'[k].rev \in 0..revision
                       /\ control'[k].status # "none" => intent[k] # "none"
    BY <1>1, SettledControl DEF ControlsOK
  <2>2. ASSUME NEW k \in Key, control'[k].status = "pending"
        PROVE  StoppedAfter(control[k].rev)' = {}
    <3> PICK n : n = control[k].rev
      OBVIOUS
    <3>1. control'[k].rev = n /\ StoppedAfter(n) = {}
      BY <1>1, <2>2, SettledControl DEF ControlsOK
    <3>2. StoppedAfter(n)' = {}
      BY <1>1, <3>1, SettledStops
    <3> QED
      BY <3>1, <3>2
  <2>3. ASSUME NEW r \in DOMAIN run, run'[r].kind = "interaction", run'[r].status \notin Terminal
        PROVE  StoppedAfter(run[r].rev)' = {}
    <3> PICK n : n = run[r].rev
      OBVIOUS
    <3>1. run'[r].rev = n /\ StoppedAfter(n) = {}
      BY <1>1, <1>2, <2>3 DEF ControlsOK, LaterRow, Active
    <3>2. StoppedAfter(n)' = {}
      BY <1>1, <3>1, SettledStops
    <3> QED
      BY <3>1, <3>2
  <2> QED
    BY <1>1, <1>2, <2>1, <2>2, <2>3 DEF ControlsOK, Settles, Active
<1> QED
  BY <1>2, <1>3, <1>4, <1>6, <1>7, <1>8

\* Where a round may be opened nothing is active.
LEMMA AllAtRest ==
  ASSUME RunsOK, LanesOK, NEW rows, Later(rows), NEW parent, NEW k, RoundAllowed(rows, parent, k)
  PROVE  \A r \in DOMAIN run : rows[r].status \in Terminal
<1>1. /\ run[Latest].status \in Terminal /\ DOMAIN rows = DOMAIN run
      /\ \A r \in DOMAIN rows : rows[r].kind # "diagnosis" => rows[r].status \in Terminal
  BY DEF RoundAllowed, Later
<1>2. \A r \in DOMAIN run : /\ rows[r].kind = run[r].kind
                            /\ rows[r].status \notin Terminal => run[r].status \notin Terminal
  BY DEF Later, LaterRow
<1> QED
  BY <1>1, <1>2 DEF LanesOK, Active

\* A round is opened: the first of its key.
LEMMA NewRound ==
  ASSUME DialogueInv, NEW rows, Later(rows), \A r \in DOMAIN run : rows[r].status \in Terminal,
         NEW k \in Key, NEW x, RowOK(x), x.kind = "diagnosis", x.for = k, x.parent <= Len(run),
         Len(run) < MaxRuns, run' = Append(rows, x), Settles, UNCHANGED <<message, intent, revision>>,
         RoundsFor(k) = {},
         x.source = k \/ control'[k].status # "none",
         control'[k].status # "none" \/ ByKey(k) # {} \/ intent[k] = "message"
  PROVE  Onward /\ RunsOK' /\ LanesOK' /\ KeysOK' /\ RoundsOK' /\ ControlsOK'
<1> DEFINE n == Len(run) + 1
<1>1. /\ RunsOK /\ LanesOK /\ KeysOK /\ RoundsOK /\ ControlsOK
  BY DEF DialogueInv
<1>2. Len(run) \in Nat /\ DOMAIN run = 1..Len(run)
  BY <1>1, RunShape
<1>3. /\ RunsOK' /\ Len(run') = n /\ DOMAIN run' = 1..n /\ run'[n] = x
      /\ \A r \in DOMAIN run : run'[r] = rows[r] /\ LaterRow(run'[r], run[r])
      /\ Latest' = n
  BY <1>1, AddedRun
<1>4. DOMAIN run' = DOMAIN run \cup {n} /\ n \notin DOMAIN run
  BY <1>2, <1>3
<1>5. \A j \in Key :
        /\ ByKey(j)' = ByKey(j)
        /\ RoundsFor(j)' = IF j = k THEN {n} ELSE RoundsFor(j)
        /\ DeferredFor(j)' = IF j = k THEN IF x.source # k THEN {n} ELSE {} ELSE DeferredFor(j)
  <2>1. DeferredFor(k) = {}
    BY DEF DeferredFor
  <2> QED
    BY <1>1, <1>3, <2>1, AddedSets
<1>6. \A r \in DOMAIN run : /\ run'[r].kind = run[r].kind /\ run'[r].for = run[r].for
                            /\ run'[r].parent = run[r].parent /\ run'[r].status \in Terminal
  BY <1>3 DEF LaterRow
<1>6a. /\ n \in Nat /\ n > Len(run)
       /\ \A i \in 0..Len(run) : i \in 0..n /\ i < n /\ n > i
  BY <1>2
<1>6b. \A r \in DOMAIN run : run'[r].parent < n /\ n > run'[r].parent
  BY <1>1, <1>6, <1>6a, Parents
<1>6c. \A j \in Key : control[j].parent \in 0..Len(run) /\ control[j].rev \in 0..revision
  BY <1>1 DEF ControlsOK
<1> HIDE DEF n
<1>7. LanesOK'
  BY <1>3, <1>4, <1>6 DEF LanesOK, Active
<1>8. Onward
  <2>1. n > Len(run) /\ n >= Len(run)
    BY <1>2, <1>6a
  <2>2. IsSeq(run')
    BY <1>3 DEF RunsOK
  <2> QED
    BY <1>1, <1>3, <1>4, <1>5, <2>1, <2>2, SettledControl DEF Onward, Replayed
<1>9. KeysOK'
  <2>1. \A r \in DOMAIN run' : run'[r].kind = "interaction" => r \in DOMAIN run
    BY <1>3, <1>4
  <2> QED
    BY <1>1, <1>5, <1>6, <2>1 DEF KeysOK, Sent
<1>10. RoundsOK'
  <2>1. \A j \in Key : ByKey(j) \subseteq DOMAIN run
    BY DEF ByKey
  <2>3. \A j \in Key : /\ control'[j].parent = control[j].parent
                       /\ control'[j].status = "none" <=> control[j].status = "none"
                       /\ control'[j].status = "pending" => control[j].status = "pending"
    BY <1>1, SettledControl
  <2>4. \A j \in Key : DeferredFor(j)' # {} => control'[j].status # "none"
    BY <1>1, <1>5, <2>3 DEF RoundsOK
  <2>5. \A j \in Key : RoundsFor(j)' # {} =>
          control'[j].status # "none" \/ ByKey(j)' # {} \/ intent'[j] = "message"
    BY <1>1, <1>5, <2>3 DEF RoundsOK
  <2>6. \A j \in Key : \A r, q \in RoundsFor(j)' : r = q
    BY <1>1, <1>5 DEF RoundsOK
  <2>7. \A j \in Key : control'[j].status = "pending" => \A r \in RoundsFor(j)' : r > control'[j].parent
    <3>1. n > control[k].parent
      BY <1>6a, <1>6c
    <3> QED
      BY <1>1, <1>5, <2>3, <3>1 DEF RoundsOK
  <2>8. \A j \in Key : \A r \in ByKey(j)' : \A q \in DeferredFor(j)' : q > run'[r].parent
    <3> SUFFICES ASSUME NEW j \in Key, NEW r \in ByKey(j), NEW q \in DeferredFor(j)'
                 PROVE  q > run'[r].parent
      BY <1>5
    <3>1. CASE q \in DeferredFor(j)
      BY <1>1, <1>6, <2>1, <3>1 DEF RoundsOK
    <3>2. CASE q = n
      BY <1>6b, <2>1, <3>2
    <3> QED
      BY <1>5, <3>1, <3>2
  <2> QED
    BY <2>4, <2>5, <2>6, <2>7, <2>8 DEF RoundsOK
<1>11. ControlsOK'
  <2>1. \A j \in Key : /\ DOMAIN control'[j] = {"status", "parent", "rev"}
                       /\ control'[j].parent \in 0..Len(run') /\ control'[j].rev \in 0..revision
                       /\ control'[j].status # "none" => intent[j] # "none"
    BY <1>1, <1>3, <1>6a, <1>6c, SettledControl DEF ControlsOK
  <2>2. ASSUME NEW j \in Key, control'[j].status = "pending"
        PROVE  StoppedAfter(control[j].rev)' = {}
    <3> PICK m : m = control[j].rev
      OBVIOUS
    <3>1. control'[j].rev = m /\ StoppedAfter(m) = {}
      BY <1>1, <2>2, SettledControl DEF ControlsOK
    <3>2. StoppedAfter(m)' = {}
      BY <1>1, <3>1, SettledStops
    <3> QED
      BY <3>1, <3>2
  <2>3. \A r \in DOMAIN run' : run'[r].kind = "interaction" => run'[r].status \in Terminal
    BY <1>3, <1>4, <1>6
  <2> QED
    BY <1>1, <2>1, <2>2, <2>3 DEF ControlsOK, Settles, Active
<1> QED
  BY <1>3, <1>7, <1>8, <1>9, <1>10, <1>11

-----------------------------------------------------------------------------
\* A key gets its intent, once.
LEMMA IntentGiven ==
  ASSUME DialogueInv, UNCHANGED <<run, control, revision>>, DOMAIN intent' = Key,
         \A k \in Key : intent[k] # "none" => intent'[k] = intent[k]
  PROVE  Onward /\ RunsOK' /\ LanesOK' /\ RoundsOK' /\ ControlsOK'
<1>1. /\ RunsOK /\ LanesOK /\ KeysOK /\ RoundsOK /\ ControlsOK /\ Later(run')
  BY SameIsLater DEF DialogueInv
<1>2. LanesOK'
  BY <1>1, KeptLanes
<1>3. RunsOK' /\ Latest' = Latest
  BY <1>1 DEF RunsOK, Latest
<1>4. \A k \in Key : ByKey(k)' = ByKey(k) /\ RoundsFor(k)' = RoundsFor(k) /\ DeferredFor(k)' = DeferredFor(k)
  BY DEF ByKey, RoundsFor, DeferredFor
<1>5. Onward
  <2>1. IsSeq(run') /\ Len(run') >= Len(run) /\ \A r \in DOMAIN run : LaterRow(run'[r], run[r])
    BY <1>1, RunShape DEF Later
  <2> QED
    BY <1>4, <2>1 DEF Onward, Replayed
<1>6. RoundsOK'
  BY <1>1, <1>4 DEF RoundsOK
<1>7. ControlsOK'
  <2>1. \A k \in Key : control[k].status # "none" => intent'[k] = intent[k]
    BY <1>1 DEF ControlsOK
  <2>2. ASSUME NEW n PROVE StoppedAfter(n)' = StoppedAfter(n)
    BY <2>1 DEF StoppedAfter
  <2>3. ASSUME NEW k \in Key, control[k].status = "pending"
        PROVE  StoppedAfter(control[k].rev)' = {}
    <3> PICK n : n = control[k].rev
      OBVIOUS
    <3>1. StoppedAfter(n) = {}
      BY <1>1, <2>3 DEF ControlsOK
    <3> QED
      BY <2>2, <3>1
  <2>4. ASSUME NEW r \in DOMAIN run, run[r].kind = "interaction", Active(r)
        PROVE  StoppedAfter(run[r].rev)' = {}
    <3> PICK n : n = run[r].rev
      OBVIOUS
    <3>1. StoppedAfter(n) = {}
      BY <1>1, <2>4 DEF ControlsOK
    <3> QED
      BY <2>2, <3>1
  <2> QED
    BY <1>1, <2>1, <2>3, <2>4 DEF ControlsOK, Active
<1> QED
  BY <1>2, <1>3, <1>5, <1>6, <1>7

\* message_in_transaction(): a message is saved once.
LEMMA MessageSaved ==
  ASSUME KeysOK, NEW k, message' = WithMessage(k) \/ (Sent(k) = {} /\ message' = Append(message, k))
  PROVE  /\ IsSeq(message') /\ \A i, j \in DOMAIN message' : message'[i] = message'[j] => i = j
         /\ \A j \in Key : Sent(j)' # {} => Sent(j) # {} \/ j = k
<1>1. IsSeq(message) /\ \A i, j \in DOMAIN message : message[i] = message[j] => i = j
  BY DEF KeysOK
<1>2. CASE message' = message
  BY <1>1, <1>2 DEF Sent
<1>3. CASE Sent(k) = {} /\ message' = Append(message, k)
  <2>1. /\ IsSeq(message') /\ Len(message) \in Nat /\ DOMAIN message = 1..Len(message)
        /\ DOMAIN message' = 1..Len(message) + 1 /\ message'[Len(message) + 1] = k
        /\ \A i \in DOMAIN message : message'[i] = message[i]
    BY <1>1, <1>3, AppendIsSeq
  <2>2. \A i \in DOMAIN message : message[i] # k
    BY <1>3 DEF Sent
  <2>3. DOMAIN message' = DOMAIN message \cup {Len(message) + 1} /\ Len(message) + 1 \notin DOMAIN message
    BY <2>1
  <2> QED
    BY <1>1, <2>1, <2>2, <2>3 DEF Sent
<1> QED
  BY <1>2, <1>3 DEF WithMessage

\* The request p arrives, the first one of its key k or a repeated one.
Arrives(k, a, p) ==
  /\ intent[k] \in {"none", a} /\ intent' = [intent EXCEPT ![k] = a]
  /\ post' = Append(post, p)
  /\ UNCHANGED <<run, message, control, revision, delayed, work, faults>>
  /\ DOMAIN p = {"key", "at", "parent", "question", "again"} /\ p.key = k /\ p.parent = 0
  /\ p.again => Applied(k)
  /\ (p.at = "lookup" /\ a \in Intents) \/ (p.at = "answer" /\ a = "answer")
  /\ a = "answer" => p.question.run \in DOMAIN run /\ run[p.question.run].kind = "diagnosis"

LEMMA RequestKeeps ==
  ASSUME DialogueInv, NEW k \in Key, NEW a, NEW p, Arrives(k, a, p)
  PROVE  DialogueInv'
<1>0. /\ intent[k] \in {"none", a} /\ intent' = [intent EXCEPT ![k] = a] /\ post' = Append(post, p)
      /\ DOMAIN p = {"key", "at", "parent", "question", "again"} /\ p.key = k /\ p.parent = 0
      /\ p.again => Applied(k)
      /\ (p.at = "lookup" /\ a \in Intents) \/ (p.at = "answer" /\ a = "answer")
      /\ a = "answer" => p.question.run \in DOMAIN run /\ run[p.question.run].kind = "diagnosis"
  BY DEF Arrives
<1>1. a \in Intents \cup {"answer"} /\ a # "none" /\ a # "message"
  BY DEF Arrives, Intents
<1>2. /\ RunsOK /\ KeysOK /\ RoundsOK /\ PostsOK /\ WorkOK /\ DelayedOK
      /\ UNCHANGED <<run, message, control, revision, delayed, work, faults>>
  BY DEF DialogueInv, Arrives
<1>3. DOMAIN intent' = Key /\ intent'[k] = a /\ \A j \in Key : intent[j] # "none" => intent'[j] = intent[j]
  BY <1>0, <1>1, <1>2 DEF KeysOK
<1>4. Onward /\ RunsOK' /\ LanesOK' /\ RoundsOK' /\ ControlsOK'
  BY <1>2, <1>3, IntentGiven
<1>5. KeysOK'
  <2>1. \A j \in Key : intent[j] \in Intents => intent'[j] \in Intents
    BY <1>3 DEF Intents
  <2>2. \A j \in Key : Sent(j)' = Sent(j) /\ ByKey(j)' = ByKey(j)
    BY <1>2 DEF Sent, ByKey
  <2>3. \A r \in DOMAIN run : run[r].kind = "interaction" => run[r].for \in Key
    BY <1>2 DEF RunsOK, RowOK
  <2> QED
    BY <1>2, <1>3, <2>1, <2>2, <2>3 DEF KeysOK
<1>6. PostsOK'
  <2> PICK n : n = Len(post) + 1
    OBVIOUS
  <2>1. p.again => Replayed(k) \/ ByKey(k) # {}
    <3> SUFFICES ASSUME Applied(k), ~Replayed(k) PROVE ByKey(k) # {}
      BY <1>0
    <3>1. PICK r \in DOMAIN run : run[r].for = k
      BY DEF Applied, Replayed
    <3>2. run[r].kind = "interaction" \/ run[r].kind = "diagnosis"
      BY <1>2, <3>1, DialogueAssumption DEF RunsOK, RowOK, DialogueAssumption
    <3>3. intent[k] # "message"
      BY <1>0, <1>1
    <3> QED
      BY <1>2, <3>1, <3>2, <3>3 DEF RoundsOK, RoundsFor, ByKey, Replayed
  <2>2. p.at = "answer" => ByKey(k) = {}
    BY <1>0, <1>2 DEF KeysOK, ByKey, Intents
  <2>3. /\ IsSeq(post') /\ DOMAIN post = 1..Len(post) /\ DOMAIN post' = 1..n /\ post'[n] = p
        /\ Len(post) \in Nat /\ \A i \in DOMAIN post : post'[i] = post[i]
    BY <1>0, <1>2, AppendIsSeq DEF PostsOK
  <2>4. DOMAIN post' = DOMAIN post \cup {n}
    BY <2>3
  <2>5. Replayed(k)' <=> Replayed(k)
    BY <1>2 DEF Replayed
  <2>6. ByKey(k)' = ByKey(k) /\ Len(run') \in Nat
    BY <1>2, RunShape DEF ByKey
  <2>7. p.again => (p.at = "answer" /\ Replayed(k)) \/ (p.at = "lookup" /\ (Replayed(k) \/ ByKey(k) # {}))
    BY <1>0, <2>1, <2>2
  <2>8. a = "answer" => p.question.run \in DOMAIN run' /\ run'[p.question.run].kind = "diagnosis"
    BY <1>0, <1>2
  <2>9. (p.at = "lookup" /\ a \in Intents /\ a # "answer") \/ (p.at = "answer" /\ a = "answer")
    BY <1>0 DEF Intents
  <2>10. PostOK(n)'
    BY <1>0, <1>1, <1>3, <2>3, <2>5, <2>6, <2>7, <2>8, <2>9 DEF PostOK
  <2> QED
    BY <1>2, <1>4, <2>3, <2>4, <2>10, PostsKept
<1> QED
  BY <1>2, <1>4, <1>5, <1>6, WorkKept, DelayedKept DEF DialogueInv

LEMMA PostKeeps ==
  ASSUME DialogueInv, NEW k \in Key, Post(k)
  PROVE  DialogueInv'
<1>1. PICK a \in Intents : intent[k] \in {"none", a} /\ intent' = [intent EXCEPT ![k] = a]
  BY DEF Post
<1>2. /\ post' = Append(post, Request(k, "lookup", NoQuestion))
      /\ UNCHANGED <<run, message, control, revision, delayed, work, faults>>
  BY DEF Post
<1> QED
  <2> PICK p : p = Request(k, "lookup", NoQuestion)
    OBVIOUS
  <2>1. /\ DOMAIN p = {"key", "at", "parent", "question", "again"} /\ p.key = k /\ p.parent = 0
        /\ p.at = "lookup" /\ (p.again => Applied(k)) /\ post' = Append(post, p) /\ a # "answer"
    BY <1>2 DEF Request, Intents
  <2>2. Arrives(k, a, p)
    BY <1>1, <1>2, <2>1 DEF Arrives
  <2> QED
    BY <2>2, RequestKeeps

LEMMA PostAnswerKeeps ==
  ASSUME DialogueInv, NEW k \in Key, PostAnswer(k)
  PROVE  DialogueInv'
<1>1. PICK q : /\ \/ intent[k] = "none" /\ q = Question
                  \/ intent[k] = "answer" /\ q \in QuestionsOf(k)
               /\ post' = Append(post, Request(k, "answer", q))
  BY DEF PostAnswer
<1>2. q.run \in DOMAIN run /\ run[q.run].kind = "diagnosis"
  <2>1. CASE q = Question
    BY <2>1, LatestFacts DEF Question, DialogueInv
  <2>2. CASE intent[k] = "answer" /\ q \in QuestionsOf(k)
    BY <2>2 DEF QuestionsOf, DialogueInv, PostsOK, PostOK
  <2> QED
    BY <1>1, <2>1, <2>2
<1>3. /\ intent[k] \in {"none", "answer"} /\ intent' = [intent EXCEPT ![k] = "answer"]
      /\ UNCHANGED <<run, message, control, revision, delayed, work, faults>>
  BY DEF PostAnswer
<1> QED
  <2> PICK p : p = Request(k, "answer", q)
    OBVIOUS
  <2>1. /\ DOMAIN p = {"key", "at", "parent", "question", "again"} /\ p.key = k /\ p.parent = 0
        /\ p.at = "answer" /\ p.question = q /\ (p.again => Applied(k)) /\ post' = Append(post, p)
    BY <1>1 DEF Request
  <2>2. Arrives(k, "answer", p)
    BY <1>2, <1>3, <2>1 DEF Arrives
  <2> QED
    BY <2>2, RequestKeeps

LEMMA SaveMessageKeeps ==
  ASSUME DialogueInv, NEW k \in Key, SaveMessage(k)
  PROVE  DialogueInv'
<1>1. /\ RunsOK /\ KeysOK /\ PostsOK /\ WorkOK /\ DelayedOK
      /\ intent[k] = "none" /\ intent' = [intent EXCEPT ![k] = "message"]
      /\ message' = Append(message, k)
      /\ UNCHANGED <<run, control, revision, delayed, post, work, faults>>
  BY DEF DialogueInv, SaveMessage
<1>2. /\ DOMAIN intent' = Key /\ intent'[k] = "message"
      /\ \A j \in Key : intent[j] # "none" => intent'[j] = intent[j]
  BY <1>1 DEF KeysOK
<1>3. Onward /\ RunsOK' /\ LanesOK' /\ RoundsOK' /\ ControlsOK'
  BY <1>1, <1>2, IntentGiven
<1>4. KeysOK'
  <2>1. Sent(k) = {}
    BY <1>1 DEF KeysOK
  <2>2. /\ IsSeq(message') /\ \A i, j \in DOMAIN message' : message'[i] = message'[j] => i = j
        /\ \A j \in Key : Sent(j)' # {} => Sent(j) # {} \/ j = k
    BY <1>1, <2>1, MessageSaved
  <2>3. \A j \in Key : ByKey(j)' = ByKey(j)
    BY <1>1 DEF ByKey
  <2>4. \A r \in DOMAIN run : run[r].kind = "interaction" => run[r].for \in Key
    BY <1>1 DEF RunsOK, RowOK
  <2>5. \A j \in Key : intent[j] \in Intents => intent'[j] \in Intents
    BY <1>2 DEF Intents
  <2> QED
    BY <1>1, <1>2, <2>2, <2>3, <2>4, <2>5 DEF KeysOK
<1> QED
  BY <1>1, <1>3, <1>4, PostsSame, WorkKept, DelayedKept DEF DialogueInv

-----------------------------------------------------------------------------
\* Nothing but the handlers, the workers and the delayed rows moves.
LEMMA QuietStep ==
  ASSUME DialogueInv, UNCHANGED <<run, message, control, revision, intent>>
  PROVE  Onward /\ RunsOK' /\ LanesOK' /\ KeysOK' /\ RoundsOK' /\ ControlsOK'
<1>1. Later(run') /\ Settles
  BY SameIsLater DEF DialogueInv, ControlsOK, Settles
<1> QED
  BY <1>1, QuietRows

LEMMA HandlerMoves ==
  ASSUME RunsOK, PostsOK, Onward, NEW i \in DOMAIN post, NEW at, NEW parent, Handler(i, at, parent),
         UNCHANGED <<run, control, intent>>, parent \in 0..Len(run),
         post[i].at \in {"lookup", "route"}, at \notin {"answer", "done"},
         post[i].again => at \in {"lookup", "route", "control"} /\ Replayed(post[i].key),
         at = "accept" => DeferredFor(post[i].key) = {}
  PROVE  PostsOK'
<1> DEFINE p == [post[i] EXCEPT !.at = at, !.parent = parent]
<1> PICK k : k = post[i].key
  OBVIOUS
<1>1. post' = [post EXCEPT ![i] = p]
  BY DEF Handler
<1>2. PostOK(i) /\ IsSeq(post)
  BY DEF PostsOK
<1>3. /\ DOMAIN p = {"key", "at", "parent", "question", "again"} /\ p.key = k
      /\ p.at = at /\ p.parent = parent /\ p.again = post[i].again
  BY <1>2 DEF PostOK
<1> HIDE DEF p
<1>4. IsSeq(post') /\ DOMAIN post' = DOMAIN post
  <2>1. Len(post) \in Nat /\ DOMAIN post = 1..Len(post)
    BY <1>2, SeqShape
  <2>2. post' = [j \in 1..Len(post) |-> post'[j]]
    BY <1>1, <1>2, <2>1, SeqShape
  <2> QED
    BY <2>1, <2>2, ShapeIsSeq
<1>5. k \in Key /\ intent'[k] \in Intents /\ intent'[k] # "answer"
  BY <1>2 DEF PostOK, Intents
<1>6. (Replayed(k)' <=> Replayed(k)) /\ DeferredFor(k)' = DeferredFor(k)
  BY DEF Replayed, DeferredFor, RoundsFor
<1>7. PostOK(i)'
  BY <1>1, <1>3, <1>5, <1>6 DEF PostOK
<1> QED
  BY <1>1, <1>4, <1>7, PostsKept

LEMMA LookupKeeps ==
  ASSUME DialogueInv, NEW i \in DOMAIN post, Lookup(i)
  PROVE  DialogueInv'
<1>1. /\ RunsOK /\ PostsOK /\ WorkOK /\ DelayedOK /\ PostOK(i)
      /\ post[i].at = "lookup" /\ UNCHANGED <<run, message, control, revision, delayed, intent, work, faults>>
  BY DEF DialogueInv, PostsOK, Lookup, Unhandled
<1>2. Onward /\ RunsOK' /\ LanesOK' /\ KeysOK' /\ RoundsOK' /\ ControlsOK'
  BY <1>1, QuietStep
<1>3. PostsOK'
  <2>1. CASE Respond(i)
    BY <1>1, <1>2, <2>1, Responded
  <2>2. CASE ByKey(post[i].key) = {} /\ Handler(i, "route", 0)
    <3>1. post[i].again => Replayed(post[i].key)
      BY <1>1, <2>2 DEF PostOK
    <3>2. 0 \in 0..Len(run)
      BY <1>1, RunShape
    <3> QED
      BY <1>1, <1>2, <2>2, <3>1, <3>2, HandlerMoves
  <2> QED
    BY <2>1, <2>2 DEF Lookup
<1> QED
  BY <1>1, <1>2, <1>3, WorkKept, DelayedKept DEF DialogueInv

LEMMA RouteKeeps ==
  ASSUME DialogueInv, NEW i \in DOMAIN post, Route(i)
  PROVE  DialogueInv'
<1>1. /\ RunsOK /\ RoundsOK /\ PostsOK /\ WorkOK /\ DelayedOK /\ PostOK(i)
      /\ post[i].at = "route" /\ UNCHANGED <<run, message, control, revision, delayed, intent, work, faults>>
  BY DEF DialogueInv, PostsOK, Route, Unhandled
<1>2. Onward /\ RunsOK' /\ LanesOK' /\ KeysOK' /\ RoundsOK' /\ ControlsOK'
  BY <1>1, QuietStep
<1>3. PICK at : /\ Handler(i, at, Latest)
                /\ at = "control" \/ (at = "accept" /\ ~Replayed(post[i].key))
  BY DEF Route, Replayed
<1>4. post[i].again => Replayed(post[i].key)
  BY <1>1 DEF PostOK
<1>5. Latest \in 0..Len(run)
  BY <1>1, RunShape, LatestFacts
<1>6. at = "accept" => DeferredFor(post[i].key) = {}
  BY <1>1, <1>3 DEF RoundsOK, Replayed, PostOK
<1>7. PostsOK'
  <2> PICK latest : latest = Latest
    OBVIOUS
  <2> QED
    BY <1>1, <1>2, <1>3, <1>4, <1>5, <1>6, HandlerMoves
<1> QED
  BY <1>1, <1>2, <1>7, WorkKept, DelayedKept DEF DialogueInv

LEMMA RefuseKeeps ==
  ASSUME DialogueInv, NEW i \in DOMAIN post, Refuse(i)
  PROVE  DialogueInv'
<1>1. /\ RunsOK /\ PostsOK /\ WorkOK /\ DelayedOK /\ Respond(i)
      /\ UNCHANGED <<run, message, control, revision, delayed, intent, work, faults>>
  BY DEF DialogueInv, Refuse, Unhandled
<1>2. Onward /\ RunsOK' /\ LanesOK' /\ KeysOK' /\ RoundsOK' /\ ControlsOK'
  BY <1>1, QuietStep
<1> QED
  BY <1>1, <1>2, Responded, WorkKept, DelayedKept DEF DialogueInv

\* accept_interaction(): the lane is free, and the key's deferred request has
\* opened no round on the run the handler read.
LEMMA AcceptKeeps ==
  ASSUME DialogueInv, NEW i \in DOMAIN post, Accept(i)
  PROVE  DialogueInv'
<1>1. CASE Refuse(i)
  BY <1>1, RefuseKeeps
<1>2. CASE /\ post[i].at = "accept" /\ Acceptable(i) /\ Respond(i) /\ message' = WithMessage(post[i].key)
           /\ run' = Append(run, Row("interaction", post[i].key, NoKey, 0, Latest, revision))
           /\ UNCHANGED <<control, revision, delayed, intent, work, faults>>
  <2> PICK k : k = post[i].key
    OBVIOUS
  <2> DEFINE x == Row("interaction", k, NoKey, 0, Latest, revision)
             n == Len(run) + 1
  <2>1. /\ RunsOK /\ LanesOK /\ KeysOK /\ RoundsOK /\ ControlsOK /\ PostsOK /\ WorkOK /\ DelayedOK
        /\ PostOK(i)
    BY DEF DialogueInv, PostsOK
  <2>2. Len(run) \in Nat /\ DOMAIN run = 1..Len(run) /\ Latest \in DOMAIN run /\ Latest <= Len(run)
    BY <2>1, RunShape, LatestFacts
  <2>3. /\ k \in Key /\ intent[k] \in Intents /\ ByKey(k) = {} /\ post[i].parent = Latest /\ ~LaneBusy
        /\ run[Latest].status \in Terminal \/ Historical(k)
        /\ Len(run) < MaxRuns
    BY <1>2, <2>1 DEF Acceptable, PostOK
  <2>4. /\ RowOK(x) /\ x.kind = "interaction" /\ x.for = k /\ x.parent = Latest /\ x.rev = revision
        /\ x.status = "queued"
    BY <2>1, <2>2, <2>3 DEF Row, RowOK, Fields, ControlsOK
  <2>5. run' = Append(run, x)
    BY <1>2
  <2> HIDE DEF x
  <2>6. /\ RunsOK' /\ Len(run') = n /\ DOMAIN run' = 1..n /\ run'[n] = x
        /\ \A r \in DOMAIN run : run'[r] = run[r] /\ LaterRow(run'[r], run[r])
        /\ Latest' = Latest
    BY <2>1, <2>2, <2>3, <2>4, <2>5, SameIsLater, AddedRun
  <2>7. DOMAIN run' = DOMAIN run \cup {n} /\ n \notin DOMAIN run /\ n # Latest /\ n \in Nat /\ n > Len(run)
        /\ \A j \in 0..Len(run) : j \in 0..n
    BY <2>2, <2>6
  <2>8. \A j \in Key : /\ ByKey(j)' = IF j = k THEN {n} ELSE ByKey(j)
                       /\ RoundsFor(j)' = RoundsFor(j) /\ DeferredFor(j)' = DeferredFor(j)
    BY <2>1, <2>3, <2>4, <2>6, AddedSets
  <2>9. DeferredFor(k) = {}
    <3>1. \A q \in DeferredFor(k) : q > Latest /\ q \in DOMAIN run /\ run[q].kind = "diagnosis"
      BY <1>2, <2>1, <2>3 DEF PostOK, DeferredFor, RoundsFor
    <3> QED
      BY <2>1, <2>2, <3>1, LatestFacts
  <2> HIDE DEF n
  <2>10. LanesOK'
    <3>1. \A r \in DOMAIN run : run[r].kind # "diagnosis" => run[r].status \in Terminal
      BY <2>3 DEF LaneBusy, Active
    <3> QED
      BY <1>2, <2>1, <2>2, <2>3, <2>4, <2>6, <2>7, <3>1 DEF LanesOK, Active, Historical
  <2>11. Onward
    <3>1. IsSeq(run') /\ Len(run') >= Len(run)
      BY <2>2, <2>6, <2>7 DEF RunsOK
    <3>2. \A j \in Key : ByKey(j) \subseteq ByKey(j)'
      BY <2>3, <2>8
    <3> QED
      BY <1>2, <2>6, <2>7, <2>8, <3>1, <3>2 DEF Onward, Replayed
  <2>12. KeysOK'
    <3>1. /\ IsSeq(message') /\ \A j, l \in DOMAIN message' : message'[j] = message'[l] => j = l
          /\ \A j \in Key : Sent(j)' # {} => Sent(j) # {} \/ j = k
      BY <1>2, <2>1, MessageSaved
    <3>2. intent[k] # "none"
      BY <2>3 DEF Intents
    <3>3. \A r \in DOMAIN run' : run'[r].kind = "interaction" => intent'[run'[r].for] \in Intents
      BY <1>2, <2>1, <2>3, <2>4, <2>6, <2>7 DEF KeysOK
    <3>4. \A j \in Key : \A r, q \in ByKey(j)' : r = q
      BY <2>1, <2>8 DEF KeysOK
    <3> QED
      BY <1>2, <2>1, <3>1, <3>2, <3>3, <3>4 DEF KeysOK
  <2>13. RoundsOK'
    <3>1. \A j \in Key : \A r \in ByKey(j)' : \A q \in DeferredFor(j)' : q > run'[r].parent
      <4>1. \A j \in Key : ByKey(j) \subseteq DOMAIN run
        BY DEF ByKey
      <4> QED
        BY <2>1, <2>6, <2>8, <2>9, <4>1 DEF RoundsOK
    <3>2. \A j \in Key : RoundsFor(j)' # {} =>
            control'[j].status # "none" \/ ByKey(j)' # {} \/ intent'[j] = "message"
      BY <1>2, <2>1, <2>8 DEF RoundsOK
    <3> QED
      BY <1>2, <2>1, <2>8, <3>1, <3>2 DEF RoundsOK
  <2>14. ControlsOK'
    <3>2. StoppedAfter(revision) = {}
      BY <2>1 DEF StoppedAfter, ControlsOK
    <3>3. ASSUME NEW j \in Key, control[j].status = "pending" PROVE StoppedAfter(control[j].rev)' = {}
      BY <1>2, <2>1, <3>3 DEF ControlsOK, StoppedAfter
    <3>4. ASSUME NEW r \in DOMAIN run', run'[r].kind = "interaction", run'[r].status \notin Terminal
          PROVE  StoppedAfter(run[r].rev)' = {}
      <4>1. CASE r = n
        BY <1>2, <2>4, <2>6, <3>2, <4>1 DEF StoppedAfter
      <4>2. CASE r \in DOMAIN run
        BY <1>2, <2>1, <2>6, <3>4, <4>2 DEF StoppedAfter, ControlsOK, Active
      <4> QED
        BY <2>7, <4>1, <4>2
    <3>5. \A j \in Key : /\ DOMAIN control'[j] = {"status", "parent", "rev"}
                         /\ control'[j].parent \in 0..Len(run') /\ control'[j].rev \in 0..revision'
                         /\ control'[j].status # "none" => intent'[j] # "none"
      BY <1>2, <2>1, <2>6, <2>7 DEF ControlsOK
    <3> QED
      BY <1>2, <2>1, <3>3, <3>4, <3>5 DEF ControlsOK, Active
  <2> QED
    BY <1>2, <2>1, <2>6, <2>10, <2>11, <2>12, <2>13, <2>14, Responded, WorkKept, DelayedKept DEF DialogueInv
<1> QED
  BY <1>1, <1>2 DEF Accept

LEMMA CancelledIsLater ==
  ASSUME RunsOK
  PROVE  /\ Later(CancelledRuns)
         /\ \A r \in DOMAIN run : run[r].kind # "diagnosis" => CancelledRuns[r].status \in Terminal
<1> DEFINE s == CancelledRuns
<1>1. Len(run) \in Nat /\ DOMAIN run = 1..Len(run)
  BY RunShape
<1>2. DOMAIN s = 1..Len(run) /\ s = [r \in 1..Len(run) |-> s[r]]
  BY <1>1 DEF CancelledRuns
<1>3. \A r \in DOMAIN run : /\ LaterRow(s[r], run[r])
                            /\ run[r].kind # "diagnosis" => s[r].status \in Terminal
  <2> SUFFICES ASSUME NEW r \in DOMAIN run
               PROVE  /\ LaterRow(s[r], run[r])
                      /\ run[r].kind # "diagnosis" => s[r].status \in Terminal
    OBVIOUS
  <2>1. DOMAIN run[r] = Fields /\ run[r].rev \in Nat
    BY DEF RunsOK, RowOK
  <2>2. \/ s[r] = run[r] /\ (run[r].kind # "diagnosis" => run[r].status \in Terminal)
        \/ s[r] = [run[r] EXCEPT !.status = "cancelled", !.invalid = TRUE, !.live = FALSE]
    BY DEF CancelledRuns, Active
  <2> HIDE DEF s
  <2> QED
    BY <2>1, <2>2 DEF LaterRow, Fields, Terminal
<1> HIDE DEF s
<1>4. IsSeq(s) /\ Len(s) = Len(run)
  BY <1>1, <1>2, ShapeIsSeq
<1>5. Later(s)
  BY <1>1, <1>2, <1>3, <1>4 DEF Later
<1> QED
  BY <1>3, <1>5 DEF s

\* control(): the key has opened no round yet, every interaction is cancelled
\* and, unless it only adds a message, every deferred request is given up.
LEMMA ControlKeeps ==
  ASSUME DialogueInv, NEW i \in DOMAIN post, Control(i)
  PROVE  DialogueInv'
<1>1. CASE Refuse(i)
  BY <1>1, RefuseKeeps
<1>2. CASE /\ ~Replayed(post[i].key) /\ FreshMessage(post[i].key, WithMessage(post[i].key))
           /\ message' = WithMessage(post[i].key) /\ revision' = revision + 1
           /\ run' = CancelledRuns /\ control' = ControlRows(post[i].key) /\ Respond(i)
           /\ UNCHANGED <<delayed, intent, work, faults>>
  <2> PICK k : k = post[i].key
    OBVIOUS
  <2>1. /\ RunsOK /\ LanesOK /\ KeysOK /\ RoundsOK /\ ControlsOK /\ PostsOK /\ WorkOK /\ DelayedOK
        /\ PostOK(i) /\ post[i].at = "control"
    BY DEF DialogueInv, PostsOK, Control
  <2>2. Len(run) \in Nat /\ DOMAIN run = 1..Len(run) /\ Latest \in 0..Len(run) /\ revision \in Nat
    BY <2>1, RunShape, LatestFacts DEF ControlsOK
  <2>3. /\ k \in Key /\ intent[k] \in Intents /\ intent[k] # "none" /\ ~Replayed(k)
        /\ \A r \in DOMAIN run : run[r].source # k
    BY <1>2, <2>1 DEF PostOK, FreshMessage, Intents
  <2>4. Later(run') /\ \A r \in DOMAIN run : run[r].kind # "diagnosis" => run'[r].status \in Terminal
    BY <1>2, <2>1, CancelledIsLater
  <2>5. /\ RunsOK' /\ Latest' = Latest /\ Len(run') = Len(run) /\ DOMAIN run' = DOMAIN run
        /\ \A r \in DOMAIN run : LaterRow(run'[r], run[r])
        /\ \A j \in Key : /\ ByKey(j)' = ByKey(j) /\ RoundsFor(j)' = RoundsFor(j)
                          /\ DeferredFor(j)' = DeferredFor(j)
    BY <2>1, <2>4, KeptRuns
  <2>6. LanesOK'
    BY <1>2, <2>1, <2>4, KeptLanes
  <2>7. /\ DOMAIN control' = Key
        /\ control'[k] = [status |-> IF intent[k] = "investigate" THEN "pending" ELSE "saved",
                          parent |-> Latest, rev |-> revision + 1]
        /\ \A j \in Key : j # k =>
             \/ control'[j] = control[j] /\ (control[j].status = "pending" => intent[k] = "supplement")
             \/ control[j].status = "pending" /\ control'[j] = [control[j] EXCEPT !.status = "superseded"]
    BY <1>2, <2>3 DEF ControlRows
  <2>8. /\ DOMAIN control'[k] = {"status", "parent", "rev"} /\ control'[k].parent = Latest
        /\ control'[k].rev = revision + 1 /\ control'[k].status \in {"pending", "saved"}
        /\ control'[k].status = "pending" => intent[k] = "investigate"
    BY <2>7
  <2>9. \A j \in Key : j # k =>
          /\ DOMAIN control'[j] = {"status", "parent", "rev"}
          /\ control'[j].parent = control[j].parent /\ control'[j].rev = control[j].rev
          /\ control'[j].status = "none" <=> control[j].status = "none"
          /\ control'[j].status = "pending" => control[j].status = "pending" /\ intent[k] = "supplement"
    BY <2>1, <2>7 DEF ControlsOK
  <2>10. RoundsFor(k) = {} /\ DeferredFor(k) = {}
    <3>1. DeferredFor(k) = {}
      BY <2>1, <2>3 DEF RoundsOK, Replayed
    <3> QED
      BY <2>3, <3>1 DEF DeferredFor, RoundsFor
  <2>11. Onward
    BY <1>2, <2>1, <2>2, <2>5, <2>8, <2>9 DEF Onward, Replayed, RunsOK
  <2>12. KeysOK'
    <3>1. /\ IsSeq(message') /\ \A j, l \in DOMAIN message' : message'[j] = message'[l] => j = l
          /\ \A j \in Key : Sent(j)' # {} => Sent(j) # {} \/ j = k
      BY <1>2, <2>1, MessageSaved
    <3>2. \A r \in DOMAIN run' : run'[r].kind = "interaction" => intent'[run'[r].for] \in Intents
      BY <1>2, <2>1, <2>5 DEF KeysOK, LaterRow
    <3> QED
      BY <1>2, <2>1, <2>3, <2>5, <3>1, <3>2 DEF KeysOK
  <2>13. RoundsOK'
    <3>1. \A j \in Key : \A r \in ByKey(j)' : \A q \in DeferredFor(j)' : q > run'[r].parent
      <4>1. \A j \in Key : \A r \in ByKey(j) : run'[r].parent = run[r].parent
        BY <2>5 DEF ByKey, LaterRow
      <4> QED
        BY <2>1, <2>5, <4>1 DEF RoundsOK
    <3>2. \A j \in Key : control'[j].status = "pending" => \A r \in RoundsFor(j)' : r > control'[j].parent
      BY <2>1, <2>5, <2>9, <2>10 DEF RoundsOK
    <3>3. \A j \in Key : control[j].status # "none" => control'[j].status # "none"
      BY <2>8, <2>9
    <3> QED
      BY <1>2, <2>1, <2>5, <3>1, <3>2, <3>3 DEF RoundsOK
  <2>14. ControlsOK'
    <3>1. \A j \in Key : control'[j].rev \in 0..revision + 1
      BY <2>1, <2>2, <2>8, <2>9 DEF ControlsOK
    <3>2. ASSUME NEW j \in Key, control'[j].status = "pending" PROVE StoppedAfter(control[j].rev)' = {}
      <4>1. CASE j = k
        BY <2>2, <2>8, <3>1, <4>1 DEF StoppedAfter
      <4>2. CASE j # k
        <5>1. control[j].status = "pending" /\ intent[k] = "supplement" /\ control'[j].rev = control[j].rev
          BY <2>9, <3>2, <4>2
        <5>2. \A s \in Key : control[s].status # "none" /\ intent[s] = "stop" => ~(control[s].rev > control[j].rev)
          BY <2>1, <5>1 DEF ControlsOK, StoppedAfter
        <5>3. \A s \in Key : control'[s].status # "none" /\ intent[s] = "stop" =>
                control[s].status # "none" /\ control'[s].rev = control[s].rev
          BY <2>9, <5>1
        <5> QED
          BY <1>2, <5>1, <5>2, <5>3 DEF StoppedAfter
      <4> QED
        BY <4>1, <4>2
    <3>3. \A j \in Key : /\ DOMAIN control'[j] = {"status", "parent", "rev"}
                         /\ control'[j].parent \in 0..Len(run')
                         /\ control'[j].status # "none" => intent'[j] # "none"
      BY <1>2, <2>1, <2>2, <2>3, <2>5, <2>8, <2>9 DEF ControlsOK
    <3>4. \A r \in DOMAIN run' : run'[r].kind = "interaction" => run'[r].status \in Terminal
      BY <2>4, <2>5 DEF LaterRow
    <3>5. revision' \in Nat /\ revision' = revision + 1
      BY <1>2, <2>2
    <3> QED
      BY <2>7, <3>1, <3>2, <3>3, <3>4, <3>5 DEF ControlsOK, Active
  <2> QED
    BY <1>2, <2>1, <2>5, <2>6, <2>11, <2>12, <2>13, <2>14, Responded, WorkKept, DelayedKept DEF DialogueInv
<1> QED
  BY <1>1, <1>2 DEF Control

-----------------------------------------------------------------------------
\* POST /runs with a message: nothing was opened for it.
LEMMA PostRoundKeeps ==
  ASSUME DialogueInv, NEW k \in Key, PostRound(k)
  PROVE  DialogueInv'
<1> DEFINE x == Row("diagnosis", k, k, Sequence(k), Latest, revision)
<1>1. /\ RunsOK /\ LanesOK /\ ControlsOK /\ PostsOK /\ WorkOK /\ DelayedOK
      /\ intent[k] = "message" /\ ~Applied(k) /\ Len(run) < MaxRuns /\ RoundAllowed(run, Latest, k)
      /\ UNCHANGED <<message, control, revision, delayed, intent, post, work, faults>>
  BY DEF DialogueInv, PostRound
<1>2. run' = Append(run, x)
  BY DEF PostRound, Round
<1>3. Latest \in Nat /\ Latest <= Len(run)
  BY <1>1, RunShape, LatestFacts
<1>4. RowOK(x) /\ x.kind = "diagnosis" /\ x.for = k /\ x.source = k /\ x.parent <= Len(run)
  BY <1>1, <1>3 DEF Row, RowOK, Fields, ControlsOK
<1> HIDE DEF x
<1>5. Later(run) /\ \A r \in DOMAIN run : run[r].status \in Terminal
  BY <1>1, SameIsLater, AllAtRest
<1>6. RoundsFor(k) = {}
  BY <1>1 DEF Applied, RoundsFor
<1>7. Settles
  BY <1>1 DEF Settles, ControlsOK
<1>8. Onward /\ RunsOK' /\ LanesOK' /\ KeysOK' /\ RoundsOK' /\ ControlsOK'
  BY <1>1, <1>2, <1>4, <1>5, <1>6, <1>7, NewRound
<1> QED
  BY <1>1, <1>8, PostsSame, WorkKept, DelayedKept DEF DialogueInv

\* activate_pending(): the control is based on the latest run, so that no round
\* of its key can have been opened since.
LEMMA ActivatePendingKeeps ==
  ASSUME DialogueInv, NEW k \in Key, ActivatePending(k)
  PROVE  DialogueInv'
<1>1. /\ RunsOK /\ LanesOK /\ RoundsOK /\ ControlsOK /\ PostsOK /\ WorkOK /\ DelayedOK
      /\ control[k].status = "pending"
      /\ UNCHANGED <<message, revision, delayed, intent, post, work, faults>>
  BY DEF DialogueInv, ActivatePending
<1>2. CASE control' = [control EXCEPT ![k].status = "superseded"] /\ UNCHANGED run
  <2>1. Settles
    BY <1>1, <1>2 DEF Settles, ControlsOK
  <2>2. Onward /\ RunsOK' /\ LanesOK' /\ KeysOK' /\ RoundsOK' /\ ControlsOK'
    BY <1>1, <1>2, <2>1, SameIsLater, QuietRows
  <2> QED
    BY <1>1, <2>2, PostsSame, WorkKept, DelayedKept DEF DialogueInv
<1>3. CASE /\ StillCurrent(k) /\ RoundAllowed(run, Latest, Last) /\ Len(run) < MaxRuns
           /\ control' = [control EXCEPT ![k].status = "started"]
           /\ run' = Round(run, k, Last)
  <2> DEFINE x == Row("diagnosis", k, Last, Sequence(Last), Latest, revision)
  <2>1. run' = Append(run, x)
    BY <1>3 DEF Round
  <2>2. Latest \in Nat /\ Latest <= Len(run)
    BY <1>1, RunShape, LatestFacts
  <2>3. RowOK(x) /\ x.kind = "diagnosis" /\ x.for = k /\ x.parent <= Len(run)
    BY <1>1, <2>2 DEF Row, RowOK, Fields, ControlsOK
  <2> HIDE DEF x
  <2>4. Later(run) /\ \A r \in DOMAIN run : run[r].status \in Terminal
    BY <1>1, <1>3, SameIsLater, AllAtRest
  <2>5. RoundsFor(k) = {}
    <3>1. \A r \in RoundsFor(k) : r > Latest /\ r \in DOMAIN run /\ run[r].kind = "diagnosis"
      BY <1>1, <1>3 DEF RoundsOK, StillCurrent, RoundsFor
    <3> QED
      BY <1>1, <2>2, <3>1, LatestFacts, RunShape
  <2>6. Settles /\ control'[k].status # "none"
    BY <1>1, <1>3 DEF Settles, ControlsOK
  <2>7. Onward /\ RunsOK' /\ LanesOK' /\ KeysOK' /\ RoundsOK' /\ ControlsOK'
    BY <1>1, <1>3, <2>1, <2>3, <2>4, <2>5, <2>6, NewRound
  <2> QED
    BY <1>1, <2>7, PostsSame, WorkKept, DelayedKept DEF DialogueInv
<1> QED
  BY <1>2, <1>3 DEF ActivatePending

\* answer(): the run that waits goes on at the new revision.
\* answer(): only the latest diagnosis run can wait with a question.
LEMMA TakenAnswerKeeps ==
  ASSUME DialogueInv, NEW i \in DOMAIN post, Answer(i), ~Refuse(i)
  PROVE  DialogueInv'
<1> PICK k : k = post[i].key
  OBVIOUS
<1>0. /\ k \in Key /\ intent[k] = "answer" /\ post[i].question.run = Latest
      /\ run[Latest].status = "waiting_user" /\ ~Replayed(k)
  <2>1. PostOK(i) /\ LanesOK /\ post[i].at = "answer"
    BY DEF DialogueInv, PostsOK, Answer
  <2>2. /\ k \in Key /\ intent[k] = "answer" /\ post[i].question.run \in DOMAIN run
        /\ run[post[i].question.run].kind = "diagnosis"
    BY <2>1 DEF PostOK
  <2>3. run[post[i].question.run].status = "waiting_user" /\ ~Replayed(k)
    BY DEF Answer
  <2>4. post[i].question.run = Latest
    BY <2>1, <2>2, <2>3 DEF LanesOK, Active, Terminal
  <2> QED
    BY <2>2, <2>3, <2>4
<1> DEFINE y == [run[Latest] EXCEPT !.status = "queued", !.rev = revision + 1, !.tries = 0]
           c == [status |-> "saved", parent |-> Latest, rev |-> revision + 1]
<1>1. /\ RunsOK /\ LanesOK /\ KeysOK /\ RoundsOK /\ ControlsOK /\ PostsOK /\ WorkOK /\ DelayedOK
      /\ message' = WithMessage(k)
      /\ revision' = revision + 1 /\ run' = [run EXCEPT ![Latest] = y]
      /\ control' = [control EXCEPT ![k] = c] /\ Respond(i)
      /\ UNCHANGED <<delayed, intent, work, faults>>
  BY <1>0 DEF DialogueInv, Answer
<1>2. /\ Len(run) \in Nat /\ DOMAIN run = 1..Len(run) /\ Latest \in DOMAIN run /\ Latest \in 0..Len(run)
      /\ run[Latest].kind = "diagnosis" /\ revision \in Nat /\ revision' \in Nat
  BY <1>1, RunShape, LatestFacts DEF ControlsOK
<1>3. LaterRow(y, run[Latest])
  BY <1>0, <1>1, <1>2 DEF RunsOK, RowOK, LaterRow, Fields, Terminal
<1> HIDE DEF y
<1>4. Later(run')
  BY <1>1, <1>2, <1>3, ChangedRow
<1>5. /\ RunsOK' /\ Latest' = Latest /\ Len(run') = Len(run) /\ DOMAIN run' = DOMAIN run
      /\ \A r \in DOMAIN run : LaterRow(run'[r], run[r])
      /\ \A j \in Key : /\ ByKey(j)' = ByKey(j) /\ RoundsFor(j)' = RoundsFor(j)
                        /\ DeferredFor(j)' = DeferredFor(j)
  BY <1>1, <1>4, KeptRuns
<1>6. /\ DOMAIN intent' = Key /\ intent'[k] = "answer"
      /\ \A j \in Key : intent'[j] = intent[j]
  BY <1>0, <1>1 DEF KeysOK
<1>7. LanesOK'
  BY <1>1, <1>4, <1>6, KeptLanes
<1>8. DOMAIN control' = Key /\ control'[k] = c /\ \A j \in Key : j # k => control'[j] = control[j]
  BY <1>0, <1>1 DEF ControlsOK
<1>9. Onward
  BY <1>0, <1>1, <1>2, <1>5, <1>6, <1>8 DEF Onward, Replayed, RunsOK
<1>10. KeysOK'
  <2>1. /\ IsSeq(message') /\ \A j, l \in DOMAIN message' : message'[j] = message'[l] => j = l
        /\ \A j \in Key : Sent(j)' # {} => Sent(j) # {} \/ j = k
    BY <1>1, MessageSaved
  <2>2. \A j \in Key : intent[j] \in Intents => intent'[j] \in Intents
    BY <1>6 DEF Intents
  <2>3. \A r \in DOMAIN run' : run'[r].kind = "interaction" => intent'[run'[r].for] \in Intents
    BY <1>1, <1>5, <2>2 DEF KeysOK, LaterRow, RunsOK, RowOK
  <2> QED
    BY <1>1, <1>5, <1>6, <2>1, <2>3 DEF KeysOK
<1>11. RoundsOK'
  <2>1. \A j \in Key : \A r \in ByKey(j)' : \A q \in DeferredFor(j)' : q > run'[r].parent
    <3>1. \A j \in Key : \A r \in ByKey(j) : run'[r].parent = run[r].parent
      BY <1>5 DEF ByKey, LaterRow
    <3> QED
      BY <1>1, <1>5, <3>1 DEF RoundsOK
  <2>2. \A j \in Key : control[j].status # "none" => control'[j].status # "none"
    BY <1>8
  <2>3. \A j \in Key : intent[j] = "message" => intent'[j] = "message"
    BY <1>6
  <2>4. \A j \in Key : control'[j].status = "pending" => control'[j] = control[j]
    BY <1>8
  <2> QED
    BY <1>1, <1>5, <2>1, <2>2, <2>3, <2>4 DEF RoundsOK
<1>12. ControlsOK'
  <2>1. \A s \in Key : control'[s].status # "none" /\ intent'[s] = "stop" =>
          control[s].status # "none" /\ intent[s] = "stop" /\ control'[s].rev = control[s].rev
    BY <1>6, <1>8
  <2>2. ASSUME NEW n, StoppedAfter(n) = {} PROVE StoppedAfter(n)' = {}
    BY <2>1, <2>2 DEF StoppedAfter
  <2>3. ASSUME NEW j \in Key, control'[j].status = "pending" PROVE StoppedAfter(control[j].rev)' = {}
    <3> PICK n : n = control[j].rev
      OBVIOUS
    <3>1. control'[j].rev = n /\ StoppedAfter(n) = {}
      BY <1>1, <1>8, <2>3 DEF ControlsOK
    <3> QED
      BY <2>2, <3>1
  <2>4. ASSUME NEW r \in DOMAIN run, run'[r].kind = "interaction", run'[r].status \notin Terminal
        PROVE  StoppedAfter(run[r].rev)' = {}
    <3> PICK n : n = run[r].rev
      OBVIOUS
    <3>1. run'[r].rev = n /\ StoppedAfter(n) = {}
      BY <1>1, <1>5, <2>4 DEF ControlsOK, LaterRow, Active
    <3> QED
      BY <2>2, <3>1
  <2>5. \A j \in Key : /\ DOMAIN control'[j] = {"status", "parent", "rev"}
                       /\ control'[j].parent \in 0..Len(run') /\ control'[j].rev \in 0..revision'
                       /\ control'[j].status # "none" => intent'[j] # "none"
    BY <1>1, <1>2, <1>5, <1>6, <1>8 DEF ControlsOK
  <2> QED
    BY <1>2, <1>5, <1>8, <2>3, <2>4, <2>5 DEF ControlsOK, Active
<1> QED
  BY <1>1, <1>5, <1>7, <1>9, <1>10, <1>11, <1>12, Responded, WorkKept, DelayedKept DEF DialogueInv

LEMMA AnswerKeeps ==
  ASSUME DialogueInv, NEW i \in DOMAIN post, Answer(i)
  PROVE  DialogueInv'
BY TakenAnswerKeeps, RefuseKeeps

-----------------------------------------------------------------------------
\* One row moves on, and nothing else that people see.
LEMMA OneRow ==
  ASSUME DialogueInv, UNCHANGED <<message, control, revision, intent>>,
         NEW r \in DOMAIN run, NEW y, run' = [run EXCEPT ![r] = y], LaterRow(y, run[r])
  PROVE  Onward /\ RunsOK' /\ LanesOK' /\ KeysOK' /\ RoundsOK' /\ ControlsOK'
<1>1. Later(run') /\ Settles
  BY ChangedRow DEF DialogueInv, ControlsOK, Settles
<1> QED
  BY <1>1, QuietRows

\* A row that is active and is given another status.
LEMMA StatusIsLater ==
  ASSUME RunsOK, NEW r \in DOMAIN run, Active(r), NEW status, NEW live
  PROVE  LaterRow([run[r] EXCEPT !.status = status, !.live = live], run[r])
BY DEF RunsOK, RowOK, LaterRow, Fields, Active

\* The rows of delayed_rechecks begin and end on their own.
LEMMA DelayedEnded ==
  ASSUME RunsOK, DelayedOK, Onward, NEW d, NEW status, delayed' = Ended(d, status)
  PROVE  DelayedOK'
<1>1. Len(run) \in Nat /\ Len(run') \in Nat /\ Len(run') >= Len(run)
  BY RunShape, SeqShape DEF Onward
<1> QED
  BY <1>1 DEF DelayedOK, Ended

LEMMA ActivateDelayedKeeps ==
  ASSUME DialogueInv, NEW d \in DOMAIN run, ActivateDelayed(d)
  PROVE  DialogueInv'
<1>1. /\ RunsOK /\ LanesOK /\ KeysOK /\ RoundsOK /\ ControlsOK /\ PostsOK /\ WorkOK /\ DelayedOK
      /\ UNCHANGED <<message, control, revision, intent, post, work, faults>>
  BY DEF DialogueInv, ActivateDelayed
<1>2. Len(run) \in Nat /\ DOMAIN run = 1..Len(run) /\ MaxRuns \in Nat /\ d \in RunIds
  BY <1>1, RunShape, DialogueAssumption DEF RunsOK, RunIds, DialogueAssumption
<1>3. CASE run' = run /\ \E s : delayed' = Ended(d, s)
  <2>1. Onward /\ RunsOK' /\ LanesOK' /\ KeysOK' /\ RoundsOK' /\ ControlsOK'
    BY <1>1, <1>3, QuietStep
  <2> QED
    BY <1>1, <1>3, <2>1, PostsSame, WorkKept, DelayedEnded DEF DialogueInv
<1>4. CASE /\ delayed[d].run # 0 /\ Active(delayed[d].run) /\ \E s : delayed' = Ended(d, s)
           /\ run' = [run EXCEPT ![delayed[d].run] = [@ EXCEPT !.status = "cancelled", !.live = FALSE]]
  <2> PICK r : r = delayed[d].run
    OBVIOUS
  <2> DEFINE y == [run[r] EXCEPT !.status = "cancelled", !.live = FALSE]
  <2>1. r \in DOMAIN run /\ Active(r)
    BY <1>1, <1>2, <1>4 DEF DelayedOK
  <2>2. LaterRow(y, run[r]) /\ run' = [run EXCEPT ![r] = y]
    BY <1>1, <1>4, <2>1, StatusIsLater
  <2> HIDE DEF y
  <2>3. Onward /\ RunsOK' /\ LanesOK' /\ KeysOK' /\ RoundsOK' /\ ControlsOK'
    BY <1>1, <2>1, <2>2, OneRow
  <2> QED
    BY <1>1, <1>4, <2>3, PostsSame, WorkKept, DelayedEnded DEF DialogueInv
<1>5. CASE /\ \A r \in DOMAIN run : ~Active(r)
           /\ Len(run) < MaxRuns
           /\ run' = Append(run, Row("delayed", NoKey, NoKey, 0, d, revision))
           /\ delayed' = [delayed EXCEPT ![d] = [@ EXCEPT !.status = "running", !.run = Len(run) + 1]]
  <2> DEFINE x == Row("delayed", NoKey, NoKey, 0, d, revision)
             n == Len(run) + 1
             v == [delayed[d] EXCEPT !.status = "running", !.run = n]
  <2>1. RowOK(x) /\ x.kind = "delayed" /\ x.for = NoKey /\ x.parent <= Len(run)
    BY <1>1, <1>2 DEF Row, RowOK, Fields, ControlsOK
  <2>2. run' = Append(run, x) /\ delayed' = [delayed EXCEPT ![d] = v]
    BY <1>5
  <2>3. DOMAIN v = {"status", "basis", "rev", "run", "expired"} /\ v.run = n
    BY <1>1, <1>2 DEF DelayedOK
  <2> HIDE DEF x, v
  <2>4. /\ RunsOK' /\ Len(run') = n /\ DOMAIN run' = 1..n /\ run'[n] = x
        /\ \A r \in DOMAIN run : run'[r] = run[r] /\ LaterRow(run'[r], run[r])
        /\ Latest' = Latest
    BY <1>1, <1>5, <2>1, <2>2, SameIsLater, AddedRun
  <2>5. /\ DOMAIN run' = DOMAIN run \cup {n} /\ n \notin DOMAIN run /\ n \in Nat /\ n > Len(run)
        /\ n \in 0..n /\ \A j \in 0..Len(run) : j \in 0..n
    BY <1>2, <2>4
  <2>6. \A j \in Key : /\ ByKey(j)' = ByKey(j) /\ RoundsFor(j)' = RoundsFor(j)
                       /\ DeferredFor(j)' = DeferredFor(j)
    BY <1>1, <2>1, <2>4, AddedSets
  <2> HIDE DEF n
  <2>7. Latest \in DOMAIN run /\ Latest # n
    BY <1>1, <2>5, LatestFacts
  <2>8. LanesOK'
    BY <1>5, <2>1, <2>4, <2>5, <2>7 DEF LanesOK, Active
  <2>9. Onward
    <3>1. IsSeq(run') /\ Len(run') >= Len(run)
      BY <1>2, <2>4, <2>5 DEF RunsOK
    <3> QED
      BY <1>1, <2>4, <2>5, <2>6, <3>1 DEF Onward, Replayed
  <2>10. KeysOK'
    <3>1. \A r \in DOMAIN run' : run'[r].kind = "interaction" => intent'[run'[r].for] \in Intents
      BY <1>1, <2>1, <2>4, <2>5 DEF KeysOK
    <3> QED
      BY <1>1, <2>6, <3>1 DEF KeysOK, Sent
  <2>11. RoundsOK'
    <3>1. \A j \in Key : \A r \in ByKey(j) : run'[r] = run[r]
      BY <2>4 DEF ByKey
    <3> QED
      BY <1>1, <2>6, <3>1 DEF RoundsOK
  <2>12. ControlsOK'
    <3>1. \A r \in DOMAIN run' : run'[r].kind = "interaction" => run'[r].status \in Terminal
      BY <1>5, <2>1, <2>4, <2>5 DEF Active
    <3>2. \A j \in Key : control'[j].parent \in 0..Len(run')
      BY <1>1, <2>4, <2>5 DEF ControlsOK
    <3>3. ASSUME NEW j \in Key, control[j].status = "pending" PROVE StoppedAfter(control[j].rev)' = {}
      BY <1>1, <3>3 DEF ControlsOK, StoppedAfter
    <3> QED
      BY <1>1, <3>1, <3>2, <3>3 DEF ControlsOK, Active
  <2>13. DelayedOK'
    BY <1>1, <2>2, <2>3, <2>4, <2>5, <2>9, DelayedMoved
  <2> QED
    BY <1>1, <2>4, <2>8, <2>9, <2>10, <2>11, <2>12, <2>13, PostsSame, WorkKept DEF DialogueInv
<1> QED
  BY <1>3, <1>4, <1>5 DEF ActivateDelayed

LEMMA ExpireDelayedKeeps ==
  ASSUME DialogueInv, NEW d \in DOMAIN run, ExpireDelayed(d)
  PROVE  DialogueInv'
<1>1. /\ RunsOK /\ PostsOK /\ WorkOK /\ DelayedOK
      /\ UNCHANGED <<run, message, control, revision, intent, post, work, faults>>
      /\ delayed' = [delayed EXCEPT ![d].expired = TRUE]
  BY DEF DialogueInv, ExpireDelayed
<1>2. Onward /\ RunsOK' /\ LanesOK' /\ KeysOK' /\ RoundsOK' /\ ControlsOK'
  BY <1>1, QuietStep
<1>3. DelayedOK'
  BY <1>1 DEF DelayedOK
<1> QED
  BY <1>1, <1>2, <1>3, PostsSame, WorkKept DEF DialogueInv

LEMMA ExpireLeaseKeeps ==
  ASSUME DialogueInv, NEW r \in DOMAIN run, ExpireLease(r)
  PROVE  DialogueInv'
<1> DEFINE y == [run[r] EXCEPT !.live = FALSE]
<1>1. /\ RunsOK /\ PostsOK /\ WorkOK /\ DelayedOK
      /\ UNCHANGED <<message, control, revision, delayed, intent, post, work, faults>>
      /\ run' = [run EXCEPT ![r] = y]
  BY DEF DialogueInv, ExpireLease, Rest
<1>2. LaterRow(y, run[r])
  BY <1>1 DEF RunsOK, RowOK, LaterRow, Fields
<1> HIDE DEF y
<1>3. Onward /\ RunsOK' /\ LanesOK' /\ KeysOK' /\ RoundsOK' /\ ControlsOK'
  BY <1>1, <1>2, OneRow
<1> QED
  BY <1>1, <1>3, PostsSame, WorkKept, DelayedKept DEF DialogueInv

-----------------------------------------------------------------------------
\* Workers.
LEMMA ClaimKeeps ==
  ASSUME DialogueInv, NEW w \in Worker, Claim(w)
  PROVE  DialogueInv'
<1>1. /\ RunsOK /\ PostsOK /\ WorkOK /\ DelayedOK
      /\ UNCHANGED <<message, control, revision, delayed, intent, post, faults>>
  BY DEF DialogueInv, Claim
<1>2. PICK r \in DOMAIN run :
        /\ Claimable(r)
        /\ LET only == run[r].tries >= MaxAttempts IN
           /\ run' = [run EXCEPT ![r] = [@ EXCEPT !.status = "running", !.live = TRUE,
                        !.epoch = run[r].epoch + 1,
                        !.tries = IF only THEN run[r].tries ELSE run[r].tries + 1]]
           /\ work' = [work EXCEPT ![w] = [Off EXCEPT !.run = r, !.epoch = run[r].epoch + 1,
                                                      !.at = "claimed", !.only = only]]
  BY DEF Claim
<1> DEFINE only == run[r].tries >= MaxAttempts
           tries == IF only THEN run[r].tries ELSE run[r].tries + 1
           epoch == run[r].epoch + 1
           y == [run[r] EXCEPT !.status = "running", !.live = TRUE, !.epoch = epoch, !.tries = tries]
           v == [Off EXCEPT !.run = r, !.epoch = epoch, !.at = "claimed", !.only = only]
<1>3. run' = [run EXCEPT ![r] = y] /\ work' = [work EXCEPT ![w] = v]
  BY <1>2
<1> HIDE DEF only, tries, epoch
<1>4. LaterRow(y, run[r])
  <2>1. run[r].status \notin Terminal
    BY <1>2 DEF Claimable, Terminal
  <2> QED
    BY <1>1, <2>1 DEF RunsOK, RowOK, LaterRow, Fields
<1>5. DOMAIN v = {"run", "epoch", "at", "only", "sample"} /\ v.run = r /\ v.at = "claimed"
  BY DEF Off
<1> HIDE DEF y, v
<1>6. Onward /\ RunsOK' /\ LanesOK' /\ KeysOK' /\ RoundsOK' /\ ControlsOK'
  BY <1>1, <1>3, <1>4, OneRow
<1>7. WorkOK'
  BY <1>1, <1>3, <1>5, <1>6, WorkMoved
<1> QED
  BY <1>1, <1>6, <1>7, PostsSame, DelayedKept DEF DialogueInv

\* A fenced transaction finds its run active.
LEMMA FencedIsActive ==
  ASSUME WorkOK, NEW w \in Worker, work[w].at # "idle", Fenced(w)
  PROVE  work[w].run \in DOMAIN run /\ Active(work[w].run)
BY DEF WorkOK, Fenced, Active, Terminal

LEMMA DiagnoseKeeps ==
  ASSUME DialogueInv, NEW w \in Worker, Diagnose(w)
  PROVE  DialogueInv'
<1> PICK r : r = work[w].run
  OBVIOUS
<1>1. /\ RunsOK /\ PostsOK /\ WorkOK /\ DelayedOK /\ Idle(w) /\ work[w].at = "claimed" /\ Fenced(w)
      /\ UNCHANGED <<message, control, revision, delayed, intent, post, faults>>
  BY DEF DialogueInv, Diagnose, Rest
<1>2. PICK s \in {"succeeded", "waiting_user"} :
        run' = [run EXCEPT ![r] = [@ EXCEPT !.status = s, !.live = FALSE,
                  !.asked = IF s = "waiting_user" THEN run[r].asked + 1 ELSE run[r].asked]]
  BY DEF Diagnose
<1> DEFINE asked == IF s = "waiting_user" THEN run[r].asked + 1 ELSE run[r].asked
           y == [run[r] EXCEPT !.status = s, !.live = FALSE, !.asked = asked]
<1>3. run' = [run EXCEPT ![r] = y]
  BY <1>2
<1> HIDE DEF asked
<1>4. r \in DOMAIN run /\ Active(r)
  BY <1>1, FencedIsActive
<1>5. LaterRow(y, run[r])
  BY <1>1, <1>4 DEF RunsOK, RowOK, LaterRow, Fields, Active
<1> HIDE DEF y
<1>6. Onward /\ RunsOK' /\ LanesOK' /\ KeysOK' /\ RoundsOK' /\ ControlsOK'
  BY <1>1, <1>3, <1>4, <1>5, OneRow
<1> QED
  BY <1>1, <1>6, WorkIdle, PostsSame, DelayedKept DEF DialogueInv

LEMMA PerformKeeps ==
  ASSUME DialogueInv, NEW w \in Worker, Perform(w)
  PROVE  DialogueInv'
<1> PICK r : r = work[w].run
  OBVIOUS
<1> DEFINE y == [run[r] EXCEPT !.done = TRUE]
<1>1. /\ RunsOK /\ PostsOK /\ WorkOK /\ DelayedOK /\ work[w].at = "claimed" /\ Fenced(w)
      /\ run' = [run EXCEPT ![r] = y]
      /\ UNCHANGED <<message, control, revision, intent, post, faults, work>>
  BY DEF DialogueInv, Perform, Rest
<1>2. r \in DOMAIN run /\ Active(r)
  BY <1>1, FencedIsActive
<1>3. LaterRow(y, run[r])
  BY <1>1, <1>2 DEF RunsOK, RowOK, LaterRow, Fields
<1> HIDE DEF y
<1>4. Onward /\ RunsOK' /\ LanesOK' /\ KeysOK' /\ RoundsOK' /\ ControlsOK'
  BY <1>1, <1>2, <1>3, OneRow
<1>5. DelayedOK'
  <2>1. CASE delayed' = delayed
    BY <1>1, <1>4, <2>1, DelayedKept
  <2>2. CASE delayed' = [delayed EXCEPT ![r] = [NoDelayed EXCEPT !.status = "pending",
                                                  !.basis = Latest, !.rev = revision]]
    <3> DEFINE v == [NoDelayed EXCEPT !.status = "pending", !.basis = Latest, !.rev = revision]
    <3>1. DOMAIN v = {"status", "basis", "rev", "run", "expired"} /\ v.run = 0
      BY DEF NoDelayed
    <3>2. 0 \in 0..Len(run') /\ delayed' = [delayed EXCEPT ![r] = v]
      BY <1>4, <2>2, SeqShape DEF Onward
    <3> HIDE DEF v
    <3> QED
      BY <1>1, <1>4, <3>1, <3>2, DelayedMoved
  <2> QED
    BY <2>1, <2>2 DEF Perform
<1> QED
  BY <1>1, <1>4, <1>5, WorkKept, PostsSame DEF DialogueInv

\* complete(): the interaction reads the run it was accepted on, so that the
\* deferred request of its key has opened no round.
LEMMA CompleteKeeps ==
  ASSUME DialogueInv, NEW w \in Worker, Complete(w)
  PROVE  DialogueInv'
<1> PICK r : r = work[w].run
  OBVIOUS
<1> DEFINE y == [run[r] EXCEPT !.status = "succeeded", !.live = FALSE]
           done == [run EXCEPT ![r] = y]
<1>1. /\ RunsOK /\ LanesOK /\ KeysOK /\ RoundsOK /\ ControlsOK /\ PostsOK /\ WorkOK /\ DelayedOK
      /\ work[w].at = "claimed" /\ Fenced(w) /\ Idle(w) /\ run[r].kind = "interaction"
      /\ UNCHANGED <<message, control, revision, intent, post, faults, delayed>>
  BY DEF DialogueInv, Complete, Rest, Kind
<1>2. r \in DOMAIN run /\ Active(r)
  BY <1>1, FencedIsActive
<1>3. LaterRow(y, run[r])
  BY <1>1, <1>2, StatusIsLater
<1>4. Finished(r, "succeeded") = done
  BY DEF Finished
<1> HIDE DEF y
<1>5. CASE run' = done
  <2>1. Onward /\ RunsOK' /\ LanesOK' /\ KeysOK' /\ RoundsOK' /\ ControlsOK'
    BY <1>1, <1>2, <1>3, <1>5, OneRow
  <2> QED
    BY <1>1, <2>1, WorkIdle, PostsSame, DelayedKept DEF DialogueInv
<1>6. CASE /\ RoundAllowed(done, run[r].parent, run[r].for) /\ Len(run) < MaxRuns
           /\ run' = Round(done, run[r].for, run[r].for)
  <2> PICK k : k = run[r].for
    OBVIOUS
  <2> DEFINE x == Row("diagnosis", k, k, Sequence(k), Latest, revision)
  <2>1. run' = Append(done, x)
    BY <1>6 DEF Round
  <2>2. Later(done)
    BY <1>1, <1>2, <1>3, ChangedRow
  <2> HIDE DEF done
  <2>3. Latest \in Nat /\ Latest <= Len(run) /\ k \in Key
    BY <1>1, <1>2, RunShape, LatestFacts DEF RunsOK, RowOK
  <2>4. RowOK(x) /\ x.kind = "diagnosis" /\ x.for = k /\ x.source = k /\ x.parent <= Len(run)
    BY <1>1, <2>3 DEF Row, RowOK, Fields, ControlsOK
  <2> HIDE DEF x
  <2>5. \A q \in DOMAIN run : done[q].status \in Terminal
    BY <1>1, <1>6, <2>2, AllAtRest
  <2>6. r \in ByKey(k)
    BY <1>1, <1>2 DEF ByKey
  <2>7. RoundsFor(k) = {}
    <3>1. run[r].parent = Latest /\ \A q \in DOMAIN run : run[q].source # k
      BY <1>6 DEF RoundAllowed, FreshMessage
    <3>2. RoundsFor(k) = DeferredFor(k)
      BY <3>1 DEF DeferredFor, RoundsFor
    <3>3. \A q \in RoundsFor(k) : q > Latest /\ q \in DOMAIN run /\ run[q].kind = "diagnosis"
      BY <1>1, <2>3, <2>6, <3>1, <3>2 DEF RoundsOK, RoundsFor
    <3> QED
      BY <1>1, <2>3, <3>3, LatestFacts, RunShape
  <2>8. Settles
    BY <1>1 DEF Settles, ControlsOK
  <2>9. Onward /\ RunsOK' /\ LanesOK' /\ KeysOK' /\ RoundsOK' /\ ControlsOK'
    BY <1>1, <1>6, <2>1, <2>2, <2>3, <2>4, <2>5, <2>6, <2>7, <2>8, NewRound
  <2> QED
    BY <1>1, <2>9, WorkIdle, PostsSame, DelayedKept DEF DialogueInv
<1> QED
  BY <1>4, <1>5, <1>6 DEF Complete

LEMMA InteractionThrowsKeeps ==
  ASSUME DialogueInv, NEW w \in Worker, InteractionThrows(w)
  PROVE  DialogueInv'
<1> PICK r : r = work[w].run
  OBVIOUS
<1>1. /\ RunsOK /\ PostsOK /\ WorkOK /\ DelayedOK /\ work[w].at # "idle" /\ Fenced(w) /\ Idle(w)
      /\ UNCHANGED <<message, control, revision, intent, post, delayed>>
  BY DEF DialogueInv, InteractionThrows
<1>2. r \in DOMAIN run /\ Active(r)
  BY <1>1, FencedIsActive
<1>3. PICK s : run' = Finished(r, s)
  BY DEF InteractionThrows
<1> DEFINE y == [run[r] EXCEPT !.status = s, !.live = FALSE]
<1>4. LaterRow(y, run[r]) /\ run' = [run EXCEPT ![r] = y]
  BY <1>1, <1>2, <1>3, StatusIsLater DEF Finished
<1> HIDE DEF y
<1>5. Onward /\ RunsOK' /\ LanesOK' /\ KeysOK' /\ RoundsOK' /\ ControlsOK'
  BY <1>1, <1>2, <1>4, OneRow
<1> QED
  BY <1>1, <1>5, WorkIdle, PostsSame, DelayedKept DEF DialogueInv

\* A worker moves within the run it holds, and the delayed row may end.
LEMMA MovedKeeps ==
  ASSUME DialogueInv, UNCHANGED <<run, message, control, revision, intent, post>>,
         NEW w \in Worker, NEW v, work' = [work EXCEPT ![w] = v],
         DOMAIN v = {"run", "epoch", "at", "only", "sample"},
         v.at # "idle" => v.run \in DOMAIN run,
         v.at \in {"sampling", "sampled", "publish"} => run[v.run].kind = "delayed",
         delayed' = delayed \/ \E d, s : delayed' = Ended(d, s)
  PROVE  DialogueInv'
<1>1. RunsOK /\ PostsOK /\ WorkOK /\ DelayedOK
  BY DEF DialogueInv
<1>2. Onward /\ RunsOK' /\ LanesOK' /\ KeysOK' /\ RoundsOK' /\ ControlsOK'
  BY QuietStep
<1>3. WorkOK'
  BY <1>1, <1>2, WorkMoved
<1>4. DelayedOK'
  BY <1>1, <1>2, DelayedKept, DelayedEnded
<1> QED
  BY <1>1, <1>2, <1>3, <1>4, PostsSame DEF DialogueInv

LEMMA CheckDelayedKeeps ==
  ASSUME DialogueInv, NEW w \in Worker, CheckDelayed(w)
  PROVE  DialogueInv'
<1>1. /\ WorkOK /\ work[w].at = "claimed" /\ Kind(w) = "delayed"
      /\ UNCHANGED <<run, message, control, revision, intent, post, faults>>
  BY DEF DialogueInv, CheckDelayed, Rest
<1>2. PICK at \in {"sampling", "publish"} : At(w, at)
  BY DEF CheckDelayed
<1>3. delayed' = delayed \/ \E d, s : delayed' = Ended(d, s)
  BY DEF CheckDelayed
<1> DEFINE v == [work[w] EXCEPT !.at = at]
<1>4. /\ work' = [work EXCEPT ![w] = v] /\ DOMAIN v = {"run", "epoch", "at", "only", "sample"}
      /\ v.run = work[w].run /\ v.run \in DOMAIN run
  BY <1>1, <1>2 DEF At, WorkOK
<1> HIDE DEF v
<1> QED
  BY <1>1, <1>3, <1>4, MovedKeeps DEF Kind

LEMMA SampleKeeps ==
  ASSUME DialogueInv, NEW w \in Worker, Sample(w)
  PROVE  DialogueInv'
<1>1. /\ WorkOK /\ work[w].at = "sampling"
      /\ UNCHANGED <<run, message, control, revision, intent, post, faults, delayed>>
  BY DEF DialogueInv, Sample, Rest
<1>2. PICK s : work' = [work EXCEPT ![w] = [@ EXCEPT !.at = "sampled", !.sample = s]]
  BY DEF Sample
<1> DEFINE v == [work[w] EXCEPT !.at = "sampled", !.sample = s]
<1>3. /\ work' = [work EXCEPT ![w] = v] /\ DOMAIN v = {"run", "epoch", "at", "only", "sample"}
      /\ v.run = work[w].run /\ v.run \in DOMAIN run /\ run[v.run].kind = "delayed"
  BY <1>1, <1>2 DEF WorkOK, Kind
<1> HIDE DEF v
<1> QED
  BY <1>1, <1>3, MovedKeeps

LEMMA DecideDelayedKeeps ==
  ASSUME DialogueInv, NEW w \in Worker, DecideDelayed(w)
  PROVE  DialogueInv'
<1>1. /\ WorkOK /\ work[w].at = "sampled" /\ At(w, "publish")
      /\ UNCHANGED <<run, message, control, revision, intent, post, faults>>
      /\ delayed' = delayed \/ \E d, s : delayed' = Ended(d, s)
  BY DEF DialogueInv, DecideDelayed, Rest
<1> DEFINE v == [work[w] EXCEPT !.at = "publish"]
<1>2. /\ work' = [work EXCEPT ![w] = v] /\ DOMAIN v = {"run", "epoch", "at", "only", "sample"}
      /\ v.run = work[w].run /\ v.run \in DOMAIN run /\ run[v.run].kind = "delayed"
  BY <1>1 DEF At, WorkOK, Kind
<1> HIDE DEF v
<1> QED
  BY <1>1, <1>2, MovedKeeps

LEMMA PublishDelayedKeeps ==
  ASSUME DialogueInv, NEW w \in Worker, PublishDelayed(w)
  PROVE  DialogueInv'
<1> PICK r : r = work[w].run
  OBVIOUS
<1> DEFINE y == [run[r] EXCEPT !.status = "succeeded", !.live = FALSE]
<1>1. /\ RunsOK /\ PostsOK /\ WorkOK /\ DelayedOK /\ work[w].at = "publish" /\ Fenced(w) /\ Idle(w)
      /\ run' = [run EXCEPT ![r] = y]
      /\ UNCHANGED <<message, control, revision, intent, post, faults, delayed>>
  BY DEF DialogueInv, PublishDelayed, Rest, Finished
<1>2. r \in DOMAIN run /\ Active(r)
  BY <1>1, FencedIsActive
<1>3. LaterRow(y, run[r])
  BY <1>1, <1>2, StatusIsLater
<1> HIDE DEF y
<1>4. Onward /\ RunsOK' /\ LanesOK' /\ KeysOK' /\ RoundsOK' /\ ControlsOK'
  BY <1>1, <1>2, <1>3, OneRow
<1> QED
  BY <1>1, <1>4, WorkIdle, PostsSame, DelayedKept DEF DialogueInv

LEMMA LetGoKeeps ==
  ASSUME DialogueInv, NEW w \in Worker, LoseLease(w) \/ Die(w)
  PROVE  DialogueInv'
<1>1. Idle(w) /\ UNCHANGED <<run, message, control, revision, intent, post, delayed>>
  BY DEF LoseLease, Die, Rest
<1>2. DOMAIN Off = {"run", "epoch", "at", "only", "sample"} /\ Off.at = "idle"
  BY DEF Off
<1> QED
  BY <1>1, <1>2, MovedKeeps DEF Idle

-----------------------------------------------------------------------------
LEMMA DialogueInit ==
  ASSUME Init
  PROVE  DialogueInv
<1> DEFINE x == Row("diagnosis", NoKey, NoKey, 0, 0, 0)
<1>1. RowOK(x) /\ x.kind = "diagnosis" /\ x.for = NoKey /\ x.parent = 0 /\ x.rev = 0
  BY DEF Row, RowOK, Fields
<1>2. run = <<x>>
  BY DEF Init
<1> HIDE DEF x
<1>3. IsSeq(run) /\ Len(run) = 1 /\ DOMAIN run = {1} /\ run[1] = x
  <2>1. run \in Seq({x}) /\ Len(run) = 1 /\ run[1] = x
    BY <1>2
  <2>2. DOMAIN run = {1}
    BY <2>1, LenProperties
  <2>3. {run[i] : i \in DOMAIN run} = {x}
    BY <2>1, <2>2
  <2> QED
    BY <2>1, <2>2, <2>3 DEF IsSeq
<1>4. RunsOK
  BY <1>1, <1>3, DialogueAssumption DEF RunsOK, DialogueAssumption
<1>5. Latest = 1
  BY <1>3, <1>4, LatestFacts
<1>6. LanesOK
  BY <1>1, <1>3, <1>5 DEF LanesOK
<1>7. \A k \in Key : ByKey(k) = {} /\ RoundsFor(k) = {} /\ DeferredFor(k) = {} /\ Sent(k) = {}
  <2>1. message = <<>>
    BY DEF Init
  <2> QED
    BY <1>1, <1>3, <2>1, DialogueAssumption DEF ByKey, RoundsFor, DeferredFor, Sent, DialogueAssumption
<1>8. KeysOK
  BY <1>1, <1>3, <1>7, EmptyIsSeq DEF KeysOK, Init
<1>9. RoundsOK
  BY <1>7 DEF RoundsOK
<1>10. ControlsOK
  BY <1>1, <1>3 DEF ControlsOK, Init, NoControl
<1>11. PostsOK
  BY EmptyIsSeq DEF PostsOK, Init
<1>12. WorkOK
  BY DEF WorkOK, Init, Off
<1>13. DelayedOK
  BY <1>3 DEF DelayedOK, Init, NoDelayed
<1> QED
  BY <1>4, <1>6, <1>8, <1>9, <1>10, <1>11, <1>12, <1>13 DEF DialogueInv

LEMMA DialogueStep ==
  ASSUME DialogueInv, [Next]_vars
  PROVE  DialogueInv'
<1>1. ASSUME NEW k \in Key, HumanStep(k) \/ ActivatePending(k) PROVE DialogueInv'
  BY <1>1, PostKeeps, PostAnswerKeeps, SaveMessageKeeps, PostRoundKeeps, ActivatePendingKeeps DEF HumanStep
<1>2. ASSUME NEW i \in DOMAIN post, HandlerStep(i) PROVE DialogueInv'
  BY <1>2, LookupKeeps, RouteKeeps, AcceptKeeps, ControlKeeps, AnswerKeeps DEF HandlerStep
<1>3. ASSUME NEW d \in DOMAIN run, ActivateDelayed(d) \/ ExpireDelayed(d) \/ ExpireLease(d)
      PROVE  DialogueInv'
  BY <1>3, ActivateDelayedKeeps, ExpireDelayedKeeps, ExpireLeaseKeeps
<1>4. ASSUME NEW w \in Worker, WorkerStep(w) \/ Die(w) PROVE DialogueInv'
  BY <1>4, ClaimKeeps, DiagnoseKeeps, PerformKeeps, CompleteKeeps, InteractionThrowsKeeps,
     CheckDelayedKeeps, SampleKeeps, DecideDelayedKeeps, PublishDelayedKeeps, LetGoKeeps DEF WorkerStep
<1>5. CASE UNCHANGED vars
  <2>1. /\ RunsOK /\ PostsOK /\ WorkOK /\ DelayedOK
        /\ UNCHANGED <<run, message, control, revision, delayed, intent, post, work>>
    BY <1>5 DEF DialogueInv, vars
  <2>2. Onward /\ RunsOK' /\ LanesOK' /\ KeysOK' /\ RoundsOK' /\ ControlsOK'
    BY <2>1, QuietStep
  <2> QED
    BY <2>1, <2>2, PostsSame, WorkKept, DelayedKept DEF DialogueInv
<1> QED
  BY <1>1, <1>2, <1>3, <1>4, <1>5 DEF Next

\* DialogueInv holds in every reachable state, whoever posts what how often,
\* whichever worker dies and however handlers, workers and polls interleave.
THEOREM DialogueInductive == DialogueSpec => []DialogueInv
<1>1. Init => DialogueInv
  BY DialogueInit
<1>2. DialogueInv /\ [Next]_vars => DialogueInv'
  BY DialogueStep
<1> QED
  BY <1>1, <1>2, PTL DEF DialogueSpec

LEMMA AtMostOne ==
  ASSUME NEW S, \A r, q \in S : r = q
  PROVE  Cardinality(S) <= 1
<1>1. CASE S = {}
  BY <1>1, FS_EmptySet
<1>2. CASE S # {}
  <2>1. PICK r : S = {r}
    BY <1>2
  <2>2. Cardinality(S) = 1
    BY <2>1, FS_Singleton
  <2> QED
    BY <2>2
<1> QED
  BY <1>1, <1>2

\* The checks accept_interaction(), accept_round(), control() and activate_due()
\* make under their own transactions keep the two lanes apart: one diagnosis run,
\* one interaction or recheck, and only questions about the past beside a
\* diagnosis run that is active.
THEOREM LanesStayApart == DialogueSpec => []LanesExclusive
<1>1. DialogueInv => LanesExclusive
  <2> SUFFICES ASSUME DialogueInv PROVE LanesExclusive
    OBVIOUS
  <2>1. LanesOK
    BY DEF DialogueInv
  <2> DEFINE D == {r \in DOMAIN run : run[r].kind = "diagnosis" /\ Active(r)}
             L == {r \in DOMAIN run : run[r].kind # "diagnosis" /\ Active(r)}
  <2>2. (\A r, q \in D : r = q) /\ (\A r, q \in L : r = q)
    BY <2>1 DEF LanesOK
  <2>3. /\ Active(Latest) => \A r \in DOMAIN run :
             Active(r) /\ r # Latest => run[r].kind = "interaction" /\ Historical(run[r].for)
    BY <2>1 DEF LanesOK
  <2> HIDE DEF D, L
  <2>4. Cardinality(D) <= 1 /\ Cardinality(L) <= 1
    BY <2>2, AtMostOne
  <2> QED
    BY <2>3, <2>4 DEF D, L, LanesExclusive
<1> QED
  BY <1>1, DialogueInductive, PTL

\* However often a client posts its key and however its handlers are routed, the
\* key leaves one message and one interaction and opens one round: the unlocked
\* reads of create() and the deferred request of activate_pending() never add up
\* to a second one.
THEOREM OneRoundForAKey == DialogueSpec => []OneRoundPerKey
<1>1. DialogueInv => OneRoundPerKey
  <2> SUFFICES ASSUME DialogueInv, NEW k \in Key
               PROVE  /\ Cardinality(Sent(k)) <= 1 /\ Cardinality(ByKey(k)) <= 1
                      /\ Cardinality({r \in DOMAIN run : run[r].kind = "diagnosis" /\ run[r].for = k}) <= 1
    BY DEF OneRoundPerKey
  <2>1. KeysOK /\ RoundsOK
    BY DEF DialogueInv
  <2>2. \A r, q \in Sent(k) : r = q
    BY <2>1 DEF KeysOK, Sent
  <2>3. (\A r, q \in ByKey(k) : r = q) /\ (\A r, q \in RoundsFor(k) : r = q)
    BY <2>1 DEF KeysOK, RoundsOK
  <2>4. Cardinality(Sent(k)) <= 1 /\ Cardinality(ByKey(k)) <= 1 /\ Cardinality(RoundsFor(k)) <= 1
    BY <2>2, <2>3, AtMostOne
  <2> QED
    BY <2>4 DEF RoundsFor
<1> QED
  BY <1>1, DialogueInductive, PTL

\* No round is opened for a request that a later stop found: neither by
\* activate_pending() nor by the complete() of an interaction.
THEOREM StopIsHeld == DialogueSpec => StopHolds
<1>1. DialogueInv /\ [Next]_vars =>
        [/\ \A k \in Key : control[k].status = "pending" /\ control'[k].status = "started" =>
              StoppedAfter(control[k].rev) = {}
         /\ \A r \in DOMAIN run : /\ run[r].kind = "interaction" /\ Active(r)
                                 /\ run'[r].status = "succeeded" /\ intent[run[r].for] = "investigate"
                                 => StoppedAfter(run[r].rev) = {}]_vars
  BY DEF DialogueInv, ControlsOK
<1> QED
  BY <1>1, DialogueInductive, PTL DEF DialogueSpec, StopHolds

\* A step in which a delayed recheck is decided.
VerdictGiven(d) == delayed[d].status = "running" /\ delayed'[d].status \in {"passed", "relapsed"}

LEMMA NoVerdict ==
  ASSUME DialogueInv, NEW e, NEW s, s \notin {"passed", "relapsed"}, delayed' = Ended(e, s),
         NEW d \in RunIds
  PROVE  ~VerdictGiven(d)
<1>1. DOMAIN delayed = RunIds /\ DOMAIN delayed[d] = {"status", "basis", "rev", "run", "expired"}
  BY DEF DialogueInv, DelayedOK
<1>2. CASE d = e
  BY <1>1, <1>2 DEF Ended, VerdictGiven
<1>3. CASE d # e
  <2>1. delayed'[d] = delayed[d]
    BY <1>1, <1>3 DEF Ended
  <2> QED
    BY <2>1 DEF VerdictGiven
<1> QED
  BY <1>2, <1>3

\* Only the sample of a worker that still holds the lease decides.
LEMMA VerdictIsDecided ==
  ASSUME DialogueInv, Next, NEW d \in RunIds, VerdictGiven(d)
  PROVE  \E w \in Worker : DecideDelayed(w)
<1>1. DOMAIN delayed = RunIds /\ \A e \in RunIds : DOMAIN delayed[e] = {"status", "basis", "rev", "run", "expired"}
  BY DEF DialogueInv, DelayedOK
<1>2. delayed' # delayed
  BY DEF VerdictGiven
<1>3. ASSUME NEW k \in Key, HumanStep(k) \/ ActivatePending(k) PROVE FALSE
  BY <1>2, <1>3 DEF HumanStep, Post, PostAnswer, SaveMessage, PostRound, ActivatePending
<1>4. ASSUME NEW i \in DOMAIN post, HandlerStep(i) PROVE FALSE
  BY <1>2, <1>4 DEF HandlerStep, Lookup, Route, Accept, Control, Answer, Refuse, Unhandled
<1>5. ASSUME NEW e \in DOMAIN run, ActivateDelayed(e) PROVE FALSE
  <2>1. CASE \E s \in {"invalidated", "expired", "unknown"} : delayed' = Ended(e, s)
    BY <2>1, NoVerdict
  <2>2. CASE delayed' = [delayed EXCEPT ![e] = [@ EXCEPT !.status = "running", !.run = Len(run) + 1]]
    BY <1>1, <2>2 DEF VerdictGiven
  <2> QED
    BY <1>5, <2>1, <2>2 DEF ActivateDelayed
<1>6. ASSUME NEW e \in DOMAIN run, ExpireDelayed(e) \/ ExpireLease(e) PROVE FALSE
  BY <1>1, <1>2, <1>6 DEF ExpireDelayed, ExpireLease, VerdictGiven
<1>7. ASSUME NEW w \in Worker, WorkerStep(w) \/ Die(w) PROVE DecideDelayed(w)
  <2>1. CASE Perform(w)
    BY <1>1, <1>2, <2>1 DEF Perform, VerdictGiven, NoDelayed
  <2>2. CASE CheckDelayed(w)
    <3> PICK e : e = run[work[w].run].parent
      OBVIOUS
    <3>1. \E s \in {"invalidated", "expired", "unknown", "running"} : delayed' = Ended(e, s)
      BY <1>2, <2>2 DEF CheckDelayed, Judged
    <3> QED
      BY <3>1, NoVerdict
  <2>3. CASE Claim(w) \/ Diagnose(w) \/ Complete(w) \/ InteractionThrows(w) \/ Sample(w)
             \/ PublishDelayed(w) \/ LoseLease(w) \/ Die(w)
    BY <1>2, <2>3 DEF Claim, Diagnose, Complete, InteractionThrows, Sample, PublishDelayed, LoseLease, Die
  <2> QED
    BY <1>7, <2>1, <2>2, <2>3 DEF WorkerStep
<1> QED
  BY <1>3, <1>4, <1>5, <1>6, <1>7 DEF Next

LEMMA VerdictIsCurrent ==
  ASSUME DialogueInv, NEW w \in Worker, DecideDelayed(w), NEW d \in RunIds, VerdictGiven(d)
  PROVE  ~Stale(d) /\ ~delayed[d].expired /\ ~Active(Latest)
<1> PICK e : e = run[work[w].run].parent
  OBVIOUS
<1>1. /\ RunsOK /\ LanesOK /\ WorkOK /\ work[w].at = "sampled" /\ Fenced(w)
      /\ DOMAIN delayed = RunIds /\ DOMAIN delayed[d] = {"status", "basis", "rev", "run", "expired"}
  BY DEF DialogueInv, DelayedOK, DecideDelayed
<1>2. delayed' = Ended(e, Verdict(e, work[w].sample)) /\ delayed' # delayed
  BY DEF DecideDelayed, VerdictGiven
<1>3. d = e
  BY <1>1, <1>2 DEF Ended, VerdictGiven
<1>4. Judged(d, work[w].sample) \in {"passed", "relapsed"}
  BY <1>1, <1>2, <1>3 DEF Ended, VerdictGiven, Verdict
<1>5. ~Stale(d) /\ ~delayed[d].expired
  BY <1>4 DEF Judged
<1>6. ~Active(Latest)
  <2>1. work[w].run \in DOMAIN run /\ Active(work[w].run) /\ run[work[w].run].kind = "delayed"
    BY <1>1, FencedIsActive DEF WorkOK, Kind
  <2>2. run[Latest].kind = "diagnosis"
    BY <1>1, LatestFacts
  <2> QED
    BY <1>1, <2>1, <2>2 DEF LanesOK
<1> QED
  BY <1>5, <1>6

\* execute_delayed_recheck(): a verdict is given on the basis the recheck was
\* scheduled on, in time, and while no diagnosis run is active.
THEOREM VerdictsAreCurrent == DialogueSpec => DelayedVerdictCurrent
<1>1. DialogueInv /\ [Next]_vars =>
        [\A d \in DOMAIN run : delayed[d].status = "running" /\ delayed'[d].status \in {"passed", "relapsed"} =>
           ~Stale(d) /\ ~delayed[d].expired /\ ~Active(Latest)]_vars
  <2> SUFFICES ASSUME DialogueInv, Next, NEW d \in DOMAIN run, VerdictGiven(d)
               PROVE  ~Stale(d) /\ ~delayed[d].expired /\ ~Active(Latest)
    BY DEF VerdictGiven
  <2>1. d \in RunIds
    BY RunShape, DialogueAssumption DEF DialogueInv, RunsOK, RunIds, DialogueAssumption
  <2> QED
    BY <2>1, VerdictIsDecided, VerdictIsCurrent
<1> QED
  BY <1>1, DialogueInductive, PTL DEF DialogueSpec, DelayedVerdictCurrent

-----------------------------------------------------------------------------
Unacted == UNCHANGED <<run, message, control, revision>>

\* The handler of a repeated request finds what answers it.
LEMMA RepeatedIsAnswered ==
  ASSUME DialogueInv, NEW i \in DOMAIN post, post[i].again, HandlerStep(i)
  PROVE  Unacted
<1>1. PostOK(i)
  BY DEF DialogueInv, PostsOK
<1>2. CASE Lookup(i) \/ Route(i)
  BY <1>2 DEF Lookup, Route, Unhandled, Unacted
<1>3. CASE Accept(i)
  BY <1>1, <1>3 DEF Accept, PostOK
<1>4. CASE Control(i)
  <2>1. Replayed(post[i].key)
    BY <1>1, <1>4 DEF Control, PostOK
  <2> QED
    BY <1>4, <2>1 DEF Control, Refuse, Unhandled, Unacted
<1>5. CASE Answer(i)
  <2>1. Replayed(post[i].key)
    BY <1>1, <1>5 DEF Answer, PostOK
  <2> QED
    BY <1>5, <2>1 DEF Answer, Refuse, Unhandled, Unacted
<1> QED
  BY <1>2, <1>3, <1>4, <1>5 DEF HandlerStep

\* A handler is moved by itself alone.
LEMMA HandlersMoveAlone ==
  ASSUME DialogueInv, Next, NEW i \in DOMAIN post, post'[i] # post[i]
  PROVE  HandlerStep(i)
<1>1. IsSeq(post)
  BY DEF DialogueInv, PostsOK
<1>2. ASSUME NEW k \in Key, Post(k) \/ PostAnswer(k) PROVE FALSE
  <2>1. \E p : post' = Append(post, p)
    BY <1>2 DEF Post, PostAnswer
  <2> QED
    BY <1>1, <2>1, AppendIsSeq
<1>3. ASSUME NEW k \in Key, SaveMessage(k) \/ PostRound(k) \/ ActivatePending(k) PROVE FALSE
  BY <1>3 DEF SaveMessage, PostRound, ActivatePending
<1>4. ASSUME NEW j \in DOMAIN post, HandlerStep(j) PROVE HandlerStep(i)
  <2>1. \E p : post' = [post EXCEPT ![j] = p]
    BY <1>4 DEF HandlerStep, Lookup, Route, Accept, Control, Answer, Refuse, Handler, Respond
  <2>2. i = j
    BY <2>1
  <2> QED
    BY <1>4, <2>2
<1>5. ASSUME NEW d \in DOMAIN run, ActivateDelayed(d) \/ ExpireDelayed(d) \/ ExpireLease(d) PROVE FALSE
  BY <1>5 DEF ActivateDelayed, ExpireDelayed, ExpireLease, Rest
<1>6. ASSUME NEW w \in Worker, WorkerStep(w) \/ Die(w) PROVE FALSE
  BY <1>6 DEF WorkerStep, Claim, Diagnose, Perform, Complete, InteractionThrows, CheckDelayed, Sample,
     DecideDelayed, PublishDelayed, LoseLease, Die, Rest
<1> QED
  BY <1>2, <1>3, <1>4, <1>5, <1>6 DEF Next, HumanStep

\* A request that was carried out before its client posted it again changes
\* nothing, whichever way create() routes it and whatever happened since.
THEOREM RetriesAreInert == DialogueSpec => RetryIsInert
<1>1. DialogueInv /\ [Next]_vars =>
        [\A i \in DOMAIN post : post[i].again /\ post'[i] # post[i] =>
           <<run, message, control, revision>>' = <<run, message, control, revision>>]_vars
  <2> SUFFICES ASSUME DialogueInv, Next, NEW i \in DOMAIN post, post[i].again, post'[i] # post[i]
               PROVE  Unacted
    BY DEF Unacted
  <2> QED
    BY HandlersMoveAlone, RepeatedIsAnswered
<1> QED
  BY <1>1, DialogueInductive, PTL DEF DialogueSpec, RetryIsInert
=============================================================================
