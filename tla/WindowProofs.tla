---------------------------- MODULE WindowProofs ----------------------------
(***************************************************************************)
(* Proofs about the durable observation window: what a passed window rests  *)
(* on, and that its verdict is final, for any number of processes,          *)
(* invocations and samples and every choice of the time limits.             *)
(***************************************************************************)
EXTENDS ObservationWindow, SequenceTheorems, TLAPS

\* What follows of the parameters.
LEMMA Parameters ==
  /\ NoTarget \notin Target
  /\ Required \in Nat /\ Required >= 1
  /\ Interval \in Nat /\ TotalTime \in Nat /\ ResourceTime \in Nat /\ BusinessTime \in Nat
BY WindowAssumption DEF WindowAssumption

\* A window that was just created is well formed.
LEMMA NewWindowType ==
  ASSUME NEW t \in Nat PROVE NewWindow(t) \in Window
BY Parameters DEF NewWindow, Window

\* Resuming keeps everything but the streak and the unfinished samples.
LEMMA ResumedWindow ==
  ASSUME NEW w \in Window
  PROVE  /\ Resumed(w) \in Window
         /\ Resumed(w).consecutive = 0
         /\ Resumed(w).status = w.status
         /\ Resumed(w).target = w.target
         /\ Resumed(w).deadline = w.deadline
         /\ Resumed(w).business = w.business
         /\ Len(Resumed(w).samples) = Len(w.samples)
<1> DEFINE s == [i \in DOMAIN w.samples |->
     IF w.samples[i].status = "sampling" THEN [w.samples[i] EXCEPT !.status = "interrupted"]
     ELSE w.samples[i]]
<1>1. w.samples \in Seq(Sample)
  BY DEF Window
<1>2. \A i \in DOMAIN w.samples : w.samples[i] \in Sample
  BY <1>1
<1>3. \A i \in DOMAIN w.samples : [w.samples[i] EXCEPT !.status = "interrupted"] \in Sample
  BY <1>2 DEF Sample
<1>4. /\ Len(w.samples) \in Nat
      /\ DOMAIN w.samples = 1..Len(w.samples)
  BY <1>1
<1>5. s \in [1..Len(w.samples) -> Sample]
  BY <1>2, <1>3, <1>4
<1>6. s \in Seq(Sample) /\ Len(s) = Len(w.samples)
  BY <1>4, <1>5
<1> HIDE DEF s
<1> DEFINE u == [w EXCEPT !.samples = s]
<1>7. /\ u \in Window
      /\ u.status = w.status /\ u.target = w.target
      /\ u.deadline = w.deadline /\ u.business = w.business
      /\ u.samples = s
  BY <1>6 DEF Window
<1>8. Interrupted(w) = u
  BY DEF Interrupted, s
<1> HIDE DEF u
<1>9. Resumed(w) = [u EXCEPT !.consecutive = 0]
  BY <1>8 DEF Resumed
<1> QED
  BY <1>6, <1>7, <1>9 DEF Window

\* A sample that begins is put behind the others.
LEMMA BegunWindow ==
  ASSUME NEW w \in Window, NEW x \in Sample, NEW v, v = [w EXCEPT !.samples = Append(@, x)]
  PROVE  /\ v \in Window
         /\ v.consecutive = w.consecutive
         /\ v.status = w.status
         /\ v.target = w.target
         /\ v.deadline = w.deadline
         /\ v.business = w.business
         /\ Len(v.samples) = Len(w.samples) + 1
         /\ v.samples[Len(w.samples) + 1] = x
         /\ \A i \in 1..Len(w.samples) : v.samples[i] = w.samples[i]
<1>1. w.samples \in Seq(Sample)
  BY DEF Window
<1> DEFINE s == Append(w.samples, x)
<1>2. /\ s \in Seq(Sample)
      /\ Len(s) = Len(w.samples) + 1
      /\ s[Len(w.samples) + 1] = x
      /\ \A i \in 1..Len(w.samples) : s[i] = w.samples[i]
  BY <1>1
<1> HIDE DEF s
<1>3. v = [w EXCEPT !.samples = s]
  BY DEF s
<1> QED
  BY <1>2, <1>3 DEF Window

\* What a sample's end does to the window: it is filed, an earlier verdict and
\* the deadlines stay, and a streak grows only by a pass in time of the
\* window's own target.
LEMMA FinishedWindow ==
  ASSUME NEW w \in Window, NEW o \in Observed, now \in Nat,
         Len(w.samples) > 0, w.status = "running", NEW v, v = Finished(w, o)
  PROVE  LET n == Len(w.samples) IN
         /\ v \in Window
         /\ v.deadline = w.deadline
         /\ w.business # -1 => v.business = w.business
         /\ Len(v.samples) = n
         /\ \A i \in 1..n - 1 : v.samples[i] = w.samples[i]
         /\ v.samples[n].seg = w.samples[n].seg /\ v.samples[n].began = w.samples[n].began
         /\ v.samples[n].ended = now
         /\ v.status = "passed" => v.consecutive >= Required
         /\ v.consecutive # 0 =>
              /\ v.consecutive = w.consecutive + 1
              /\ v.samples[n].status = "passed" /\ v.samples[n].target = v.target
              /\ v.target # NoTarget
              /\ w.target # NoTarget => v.target = w.target
              /\ now < w.deadline
<1> DEFINE n == Len(w.samples)
           business == w.samples[n].began + BusinessTime
           timed == IF o.ready /\ w.business = -1
                    THEN [w EXCEPT !.business = IF w.deadline < business THEN w.deadline ELSE business]
                    ELSE w
           late == Remaining(w) <= 0 \/ Remaining(timed) <= 0
           x == [w.samples[n] EXCEPT !.status = o.status, !.target = o.target, !.ended = now]
           s == [w.samples EXCEPT ![n] = x]
           done == [timed EXCEPT !.samples = s]
<1>1. w.samples \in Seq(Sample) /\ n \in 1..Len(w.samples) /\ n \in Nat
  BY DEF Window
<1>2. w.samples[n] \in Sample
  BY <1>1
<1>3. /\ o.status \in {"passed", "failed"} /\ o.target \in Target \cup {NoTarget}
      /\ o.ready \in BOOLEAN /\ o.invalid \in BOOLEAN
  BY DEF Observed
<1>4. /\ x \in Sample /\ x.seg = w.samples[n].seg /\ x.began = w.samples[n].began
      /\ x.ended = now /\ x.status = o.status /\ x.target = o.target
  <2> DEFINE y == w.samples[n]
             st == o.status
             tg == o.target
  <2>1. st \in {"passed", "failed"} /\ tg \in Target \cup {NoTarget} /\ y \in Sample
    BY <1>2, <1>3
  <2>2. x = [y EXCEPT !.status = st, !.target = tg, !.ended = now]
    OBVIOUS
  <2> HIDE DEF x, y, st, tg
  <2>3. x = [seg |-> y.seg, status |-> st, target |-> tg, began |-> y.began, ended |-> now]
    BY <2>1, <2>2 DEF Sample
  <2>4. x \in Sample
    BY <2>1, <2>3 DEF Sample
  <2>5. /\ x.seg = y.seg /\ x.began = y.began
        /\ x.ended = now /\ x.status = st /\ x.target = tg
    BY <2>3
  <2> QED
    BY <2>4, <2>5 DEF y, st, tg
<1> HIDE DEF x
<1>5. /\ s \in Seq(Sample) /\ Len(s) = n /\ s[n] = x
      /\ \A i \in 1..n - 1 : s[i] = w.samples[i]
  BY <1>1, <1>4, ExceptSeq
<1>6. business \in Nat /\ w.deadline \in Nat /\ w.business \in Int
  BY <1>2, Parameters DEF Sample, Window
<1> HIDE DEF s, n, business
<1>7. /\ timed \in Window
      /\ timed.deadline = w.deadline /\ timed.status = w.status
      /\ timed.consecutive = w.consecutive /\ timed.target = w.target
      /\ w.business # -1 => timed.business = w.business
  <2>1. CASE o.ready /\ w.business = -1
    BY <1>6, <2>1 DEF Window
  <2>2. CASE ~(o.ready /\ w.business = -1)
    BY <2>2
  <2> QED
    BY <2>1, <2>2
<1> HIDE DEF timed
<1>8. /\ done \in Window
      /\ done.deadline = w.deadline /\ done.status = "running"
      /\ done.consecutive = w.consecutive /\ done.target = w.target
      /\ w.business # -1 => done.business = w.business
      /\ done.samples = s
  BY <1>5, <1>7 DEF Window
<1> HIDE DEF done
<1> DEFINE bad == o.invalid \/ (o.target # NoTarget /\ w.target # NoTarget /\ o.target # w.target)
<1>9. v = IF bad THEN [done EXCEPT !.status = "invalidated", !.consecutive = 0]
          ELSE IF late THEN [done EXCEPT !.status = "unknown", !.consecutive = 0]
          ELSE Judged(done, o)
  BY DEF Finished, done, timed, s, x, n, business
<1> SUFFICES /\ v \in Window
             /\ v.deadline = done.deadline /\ v.business = done.business /\ v.samples = done.samples
             /\ v.status = "passed" => v.consecutive >= Required
             /\ v.consecutive # 0 =>
                  /\ v.consecutive = w.consecutive + 1
                  /\ o.status = "passed" /\ o.target = v.target
                  /\ v.target # NoTarget
                  /\ w.target # NoTarget => v.target = w.target
                  /\ now < w.deadline
  BY <1>1, <1>4, <1>5, <1>8 DEF n
<1>10. CASE bad
  <2>1. v = [done EXCEPT !.status = "invalidated", !.consecutive = 0]
    BY <1>9, <1>10
  <2>2. v = [status |-> "invalidated", consecutive |-> 0, samples |-> done.samples, target |-> done.target,
             deadline |-> done.deadline, resource |-> done.resource, business |-> done.business]
    BY <1>8, <2>1 DEF Window
  <2>3. v \in Window
    BY <1>8, <2>2 DEF Window
  <2> QED
    BY <2>2, <2>3
<1>11. CASE ~bad /\ late
  <2>1. v = [done EXCEPT !.status = "unknown", !.consecutive = 0]
    BY <1>9, <1>11
  <2>2. v = [status |-> "unknown", consecutive |-> 0, samples |-> done.samples, target |-> done.target,
             deadline |-> done.deadline, resource |-> done.resource, business |-> done.business]
    BY <1>8, <2>1 DEF Window
  <2>3. v \in Window
    BY <1>8, <2>2 DEF Window
  <2> QED
    BY <2>2, <2>3
<1>12. CASE ~bad /\ ~late
  <2>1. v = Judged(done, o)
    BY <1>9, <1>12
  <2>2. now < w.deadline
    <3>1. Remaining(w) > 0
      BY <1>6, <1>12 DEF late, Remaining, Window
    <3> QED
      BY <3>1, <1>6 DEF Remaining, Window
  <2> DEFINE hit == o.status = "passed" /\ o.ready /\ o.target # NoTarget
             streak == IF hit THEN done.consecutive + 1 ELSE 0
             target == IF o.target # NoTarget THEN o.target ELSE done.target
             status == IF streak >= Required THEN "passed" ELSE done.status
  <2>3. v = [done EXCEPT !.target = target, !.consecutive = streak, !.status = status]
    BY <2>1 DEF Judged
  <2>4. streak \in Nat /\ (streak # 0 => hit /\ streak = w.consecutive + 1)
    BY <1>8 DEF Window
  <2>5. target \in Target \cup {NoTarget} /\ (hit => target = o.target)
    BY <1>3, <1>8 DEF Window
  <2>6. /\ status \in {"running", "passed"}
        /\ status = "passed" => streak >= Required
    BY <1>8
  <2>7. hit /\ w.target # NoTarget => o.target = w.target
    BY <1>12
  <2> HIDE DEF streak, target, status
  <2>8. /\ v \in Window
        /\ v.deadline = done.deadline /\ v.business = done.business /\ v.samples = done.samples
        /\ v.status = status /\ v.consecutive = streak /\ v.target = target
    BY <1>8, <2>3, <2>4, <2>5, <2>6 DEF Window
  <2> QED
    BY <2>2, <2>4, <2>5, <2>6, <2>7, <2>8
<1> QED
  BY <1>10, <1>11, <1>12

-----------------------------------------------------------------------------
\* A streak is about the samples it covers and no others.
LEMMA StreakOf ==
  ASSUME NEW w \in Window, NEW v \in Window, NEW m \in Nat, NEW s,
         v.consecutive = w.consecutive, v.target = w.target, v.deadline = w.deadline,
         \A i \in 1..m : v.samples[i] = w.samples[i],
         Streak(w, m, s)
  PROVE  Streak(v, m, s)
<1> DEFINE first == m - w.consecutive + 1
<1>1. w.consecutive \in Nat /\ w.consecutive <= m /\ first \in Int /\ first >= 1
  BY DEF Streak, Window
<1>2. ASSUME NEW i \in first..m
      PROVE  Counts(v, i, s) /\ (i > first => Spaced(v, i))
  <2>1. i \in 1..m /\ (i > first => i - 1 \in 1..m)
    BY <1>1
  <2>2. v.samples[i] = w.samples[i] /\ (i > first => v.samples[i - 1] = w.samples[i - 1])
    BY <2>1
  <2>3. Counts(w, i, s) /\ (i > first => Spaced(w, i))
    BY DEF Streak
  <2> QED
    BY <2>2, <2>3 DEF Counts, Spaced
<1> QED
  BY <1>1, <1>2 DEF Streak

\* No passes, no streak.
LEMMA StreakEmpty ==
  ASSUME NEW w \in Window, NEW m \in Nat, NEW s, w.consecutive = 0
  PROVE  Streak(w, m, s)
BY DEF Streak

\* A finished sample leaves a streak that covers it.
LEMMA StreakGrows ==
  ASSUME NEW w \in Window, NEW o \in Observed, now \in Nat, NEW s,
         Len(w.samples) > 0, w.status = "running",
         w.samples[Len(w.samples)].seg = s,
         Streak(w, Len(w.samples) - 1, s),
         w.consecutive > 0 => Spaced(w, Len(w.samples)),
         NEW v, v = Finished(w, o)
  PROVE  Streak(v, Len(v.samples), s)
<1> DEFINE n == Len(w.samples)
<1>1. n \in Nat /\ n >= 1 /\ n - 1 \in Nat
  BY DEF Window
<1>2. /\ v \in Window /\ Len(v.samples) = n
      /\ v.deadline = w.deadline
      /\ \A i \in 1..n - 1 : v.samples[i] = w.samples[i]
      /\ v.samples[n].seg = s /\ v.samples[n].began = w.samples[n].began
      /\ v.samples[n].ended = now
  BY FinishedWindow
<1>3. v.consecutive # 0 =>
        /\ v.consecutive = w.consecutive + 1
        /\ v.samples[n].status = "passed" /\ v.samples[n].target = v.target
        /\ v.target # NoTarget
        /\ w.target # NoTarget => v.target = w.target
        /\ now < w.deadline
  BY FinishedWindow
<1> HIDE DEF n
<1>4. w.consecutive \in Nat /\ v.consecutive \in Nat
  BY <1>2 DEF Window
<1>5. CASE v.consecutive = 0
  BY <1>1, <1>2, <1>5, StreakEmpty
<1>6. CASE v.consecutive # 0
  <2> DEFINE first == n - v.consecutive + 1
  <2>1. w.consecutive <= n - 1 /\ v.consecutive = w.consecutive + 1
    BY <1>3, <1>6 DEF Streak, n
  <2>2. first = (n - 1) - w.consecutive + 1 /\ first >= 1 /\ first \in Int
    BY <2>1, <1>1, <1>4
  <2>3. w.consecutive > 0 => w.target # NoTarget /\ v.target = w.target
    BY <1>3, <1>6 DEF Streak
  <2>4. ASSUME NEW i \in first..n - 1
        PROVE  Counts(v, i, s) /\ (i > first => Spaced(v, i))
    <3>1. Counts(w, i, s) /\ (i > first => Spaced(w, i))
      BY <2>2 DEF Streak, n
    <3>2. i \in 1..n - 1 /\ (i > first => i - 1 \in 1..n - 1) /\ w.consecutive > 0
      BY <1>1, <1>4, <2>2
    <3>3. v.samples[i] = w.samples[i] /\ (i > first => v.samples[i - 1] = w.samples[i - 1])
      BY <1>2, <3>2
    <3> QED
      BY <1>2, <2>3, <3>1, <3>2, <3>3 DEF Counts, Spaced
  <2>5. Counts(v, n, s)
    BY <1>2, <1>3, <1>6 DEF Counts
  <2>6. n > first => Spaced(v, n)
    <3>1. n > first => w.consecutive > 0 /\ n - 1 \in 1..n - 1
      BY <1>1, <1>4, <2>1, <2>2
    <3>2. n > first => Spaced(w, n)
      BY <3>1 DEF n
    <3> QED
      BY <1>2, <3>1, <3>2 DEF Spaced
  <2>7. \A i \in first..n : Counts(v, i, s) /\ (i > first => Spaced(v, i))
    <3> SUFFICES ASSUME NEW i \in first..n
                 PROVE  Counts(v, i, s) /\ (i > first => Spaced(v, i))
      OBVIOUS
    <3>1. i \in first..n - 1 \/ i = n
      BY <1>1, <2>2
    <3> QED
      BY <2>4, <2>5, <2>6, <3>1
  <2> QED
    BY <1>1, <1>2, <1>3, <1>4, <1>6, <2>1, <2>7 DEF Streak
<1> QED
  BY <1>5, <1>6

-----------------------------------------------------------------------------
ProcRow == [at: {"idle", "opened", "loop", "sampling", "closing"},
            token: Nat, wake: Nat, window: Window]

\* What a window must be for its owner to publish it.
Publishable(v) ==
  /\ v \in Window /\ v.deadline = TotalTime
  /\ v.status = "passed" => /\ v.consecutive >= Required
                            /\ Streak(v, Len(v.samples), v.samples[Len(v.samples)].seg)

\* A step of the owner keeps the invariant when it publishes what it knows and
\* changes no verdict: nobody else works under its token.
LEMMA OwnerStep ==
  ASSUME WindowInv, NEW p \in Proc, NEW v, NEW k \in ProcRow,
         proc[p].at # "idle", Save(p, v), Publishable(v),
         row.window.status # "running" => v = row.window,
         proc' = [proc EXCEPT ![p] = k],
         k.at # "idle" => k.token = proc[p].token /\ OwnerKnows(p)',
         UNCHANGED <<now, starts>>
  PROVE  WindowInv'
<1>1. /\ row.owner = proc[p].token
      /\ row'.owner = row.owner /\ row'.window = v
      /\ row' \in [owner: Nat, window: Window]
  BY DEF WindowInv, WindowTypeOK, Save, Publishable
<1>2. WindowTypeOK'
  BY <1>1 DEF WindowInv, WindowTypeOK, ProcRow
<1>3. proc'[p] = k /\ \A q \in Proc : q # p => proc'[q] = proc[q]
  BY DEF WindowInv, WindowTypeOK
<1>4. Published'
  <2>1. row.owner \in 1..starts
    BY <1>1 DEF WindowInv, Tokens
  <2>2. scheduled' = IF v.status = "passed" THEN {v.target} ELSE {}
    <3>1. scheduled' = scheduled \cup (IF v.status = "passed" THEN {v.target} ELSE {})
      BY DEF Save
    <3>2. scheduled = IF row.window.status = "passed" THEN {row.window.target} ELSE {}
      BY DEF WindowInv, Published
    <3>3. CASE row.window.status = "passed"
      BY <3>1, <3>2, <3>3
    <3>4. CASE row.window.status # "passed"
      BY <3>1, <3>2, <3>4
    <3> QED
      BY <3>3, <3>4
  <2> QED
    BY <1>1, <2>1, <2>2 DEF Published, Publishable, WindowInv, WindowTypeOK
<1>5. Tokens'
  BY <1>3 DEF WindowInv, Tokens
<1>6. ASSUME NEW q \in Proc, proc'[q].at # "idle", proc'[q].token = row'.owner
      PROVE  OwnerKnows(q)'
  <2>1. q = p
    BY <1>1, <1>3, <1>6 DEF WindowInv, Tokens
  <2> QED
    BY <1>3, <1>6, <2>1
<1> QED
  BY <1>2, <1>4, <1>5, <1>6 DEF WindowInv

\* The owner of the window works on the published one.
LEMMA OwnWindow ==
  ASSUME WindowInv, NEW p \in Proc, NEW v, proc[p].at # "idle", Save(p, v)
  PROVE  /\ OwnerKnows(p)
         /\ proc[p] \in ProcRow /\ row.window \in Window
         /\ proc[p].window = row.window /\ proc[p].token \in Nat
         /\ row.window.deadline = TotalTime
BY DEF WindowInv, Save, OwnerKnows, Published, WindowTypeOK, ProcRow

\* The next wake-up is a time, and the gap counts from the end of the last sample.
LEMMA WakeTime ==
  ASSUME NEW w \in Window, now \in Nat
  PROVE  /\ Wake(w) \in Nat
         /\ /\ Len(w.samples) > 0 /\ w.samples[Len(w.samples)].ended \in Nat
            => Wake(w) >= w.samples[Len(w.samples)].ended + Interval
<1>1. w.samples \in Seq(Sample)
  BY DEF Window
<1>2. CASE w.samples = <<>>
  BY <1>1, <1>2 DEF Wake
<1>3. CASE w.samples # <<>>
  <2>1. Len(w.samples) \in Nat /\ Len(w.samples) > 0
    BY <1>1, <1>3
  <2>2. w.samples[Len(w.samples)] \in Sample
    BY <1>1, <2>1
  <2>3. w.samples[Len(w.samples)].ended \in Int
    BY <2>2 DEF Sample
  <2> QED
    BY <1>3, <2>1, <2>3, Parameters DEF Wake
<1> QED
  BY <1>2, <1>3

\* Where a process stands after a step of its own.
LEMMA ContinueRow ==
  ASSUME WindowInv, NEW p \in Proc, NEW v \in Window,
         NEW at \in {"idle", "opened", "loop", "sampling", "closing"},
         Continue(p, at, v)
  PROVE  \E k \in ProcRow : /\ proc' = [proc EXCEPT ![p] = k]
                            /\ k.at = at /\ k.token = proc[p].token
                            /\ k.window = v /\ k.wake = Wake(v)
<1> DEFINE g == proc[p]
           t == Wake(v)
           k == [g EXCEPT !.at = at, !.window = v, !.wake = t]
<1>1. g \in ProcRow /\ t \in Nat
  BY WakeTime DEF WindowInv, WindowTypeOK, ProcRow
<1>2. proc' = [proc EXCEPT ![p] = k]
  BY DEF Continue
<1> HIDE DEF g, t
<1>a. k = [g EXCEPT !.at = at, !.window = v, !.wake = t]
  OBVIOUS
<1> HIDE DEF k
<1>3. k = [at |-> at, token |-> g.token, wake |-> t, window |-> v]
  BY <1>1, <1>a DEF ProcRow
<1>4. k \in ProcRow
  BY <1>1, <1>3 DEF ProcRow
<1> QED
  BY <1>2, <1>3, <1>4 DEF g, t

-----------------------------------------------------------------------------
\* A new window keeps the invariant.
LEMMA InitWindow == Init => WindowInv
<1> SUFFICES ASSUME Init PROVE WindowInv
  OBVIOUS
<1>1. NewWindow(0) \in Window
  BY NewWindowType
<1>2. /\ NewWindow(0).status = "running" /\ NewWindow(0).deadline = TotalTime
      /\ NewWindow(0).business = -1
  BY Parameters DEF NewWindow
<1>3. Idle \in ProcRow /\ Idle.at = "idle"
  BY <1>1 DEF Idle, ProcRow
<1>4. \A p \in Proc : proc[p] = Idle
  BY DEF Init
<1>5. WindowTypeOK
  BY <1>1, <1>3 DEF Init, WindowTypeOK, ProcRow
<1>6. Published
  BY <1>2 DEF Init, Published
<1> QED
  BY <1>3, <1>4, <1>5, <1>6 DEF WindowInv, Tokens

\* store.open(): a new token, which no process holds.
LEMMA OpenKeeps ==
  ASSUME WindowInv, NEW p \in Proc, Open(p)
  PROVE  WindowInv'
<1> DEFINE w == IF row.owner = 0 THEN NewWindow(now) ELSE row.window
           k == IF w.status # "running" THEN Idle
                ELSE [at |-> "opened", token |-> starts + 1, wake |-> now, window |-> w]
<1>1. /\ starts \in Nat /\ now \in Nat /\ row.window \in Window /\ row.owner \in Nat
      /\ starts' = starts + 1 /\ now' = now /\ scheduled' = scheduled
  BY DEF WindowInv, WindowTypeOK, Open
<1>2. /\ w \in Window /\ w.deadline = TotalTime
      /\ row.owner = 0 => w.status = "running" /\ row.window.status = "running"
      /\ row.owner # 0 => w = row.window
  <2>1. CASE row.owner = 0
    <3>1. now = 0
      BY <2>1 DEF Open
    <3>2. w = NewWindow(0)
      BY <2>1, <3>1
    <3>3. w \in Window
      BY <3>2, NewWindowType
    <3>4. w.status = "running" /\ w.deadline = TotalTime
      BY <3>2, Parameters DEF NewWindow
    <3> QED
      BY <2>1, <3>3, <3>4 DEF WindowInv, Published
  <2>2. CASE row.owner # 0
    BY <2>2, <1>1 DEF WindowInv, Published
  <2> QED
    BY <2>1, <2>2
<1>3. row' = [owner |-> starts + 1, window |-> w] /\ proc' = [proc EXCEPT ![p] = k]
  BY DEF Open
<1> HIDE DEF w
<1>4. /\ k \in ProcRow
      /\ k.at # "idle" => /\ w.status = "running" /\ k.at = "opened"
                          /\ k.token = starts + 1 /\ k.window = w
  <2>1. CASE w.status # "running"
    <3>1. Idle \in ProcRow /\ Idle.at = "idle"
      BY NewWindowType DEF Idle, ProcRow
    <3> QED
      BY <2>1, <3>1
  <2>2. CASE w.status = "running"
    BY <1>1, <1>2, <2>2 DEF ProcRow
  <2> QED
    BY <2>1, <2>2
<1> HIDE DEF k
<1>5. proc'[p] = k /\ \A q \in Proc : q # p => proc'[q] = proc[q]
  BY <1>3 DEF WindowInv, WindowTypeOK
<1>6. WindowTypeOK'
  BY <1>1, <1>2, <1>3, <1>4 DEF WindowInv, WindowTypeOK, ProcRow
<1>7. Published'
  <2>1. row'.owner = starts + 1 /\ row'.window = w
    BY <1>3
  <2>2. row'.owner # 0 /\ row'.owner <= starts'
    BY <1>1, <2>1
  <2>3. scheduled = IF w.status = "passed" THEN {w.target} ELSE {}
    BY <1>2 DEF WindowInv, Published
  <2>4. w.status = "passed" => /\ w.consecutive >= Required
                               /\ Streak(w, Len(w.samples), w.samples[Len(w.samples)].seg)
    BY <1>2 DEF WindowInv, Published
  <2> QED
    BY <1>1, <1>2, <2>1, <2>2, <2>3, <2>4 DEF Published
<1>8. \A q \in Proc : q # p /\ proc'[q].at # "idle" => proc'[q].token \in 1..starts
  BY <1>5 DEF WindowInv, Tokens
<1>9. Tokens'
  BY <1>1, <1>4, <1>5, <1>8 DEF WindowInv, Tokens
<1>10. ASSUME NEW q \in Proc, proc'[q].at # "idle", proc'[q].token = row'.owner
       PROVE  OwnerKnows(q)'
  <2>1. row'.owner = starts + 1 /\ row'.window = w
    BY <1>3
  <2>2. q = p
    BY <1>1, <1>8, <1>10, <2>1
  <2> QED
    BY <1>4, <1>5, <1>10, <2>1, <2>2 DEF OwnerKnows
<1> QED
  BY <1>6, <1>7, <1>9, <1>10 DEF WindowInv

\* A new segment starts without a streak.
LEMMA ResumeKeeps ==
  ASSUME WindowInv, NEW p \in Proc, Resume(p)
  PROVE  WindowInv'
<1> DEFINE w == row.window
           v == Resumed(proc[p].window)
<1>1. proc[p].at = "opened" /\ Save(p, v) /\ Continue(p, "loop", v) /\ UNCHANGED <<now, starts>>
  BY DEF Resume
<1>2. OwnerKnows(p) /\ w \in Window /\ proc[p].window = w /\ w.deadline = TotalTime
  BY <1>1, OwnWindow
<1>3. /\ v \in Window /\ v.consecutive = 0 /\ v.status = "running" /\ v.deadline = TotalTime
      /\ w.status = "running"
  BY <1>1, <1>2, ResumedWindow DEF OwnerKnows
<1> HIDE DEF v
<1>4. PICK k \in ProcRow : /\ proc' = [proc EXCEPT ![p] = k]
                           /\ k.at = "loop" /\ k.token = proc[p].token
                           /\ k.window = v /\ k.wake = Wake(v)
  BY <1>1, <1>3, ContinueRow
<1>5. row'.window = v /\ proc'[p] = k
  BY <1>1, <1>4 DEF Save, WindowInv, WindowTypeOK
<1>6. Streak(v, Len(v.samples), k.token)
  BY <1>3, StreakEmpty DEF Window
<1>7. OwnerKnows(p)'
  BY <1>3, <1>4, <1>5, <1>6 DEF OwnerKnows
<1> QED
  BY <1>1, <1>3, <1>4, <1>7, OwnerStep DEF Publishable

\* A sample begins after the gap.
LEMMA BeginKeeps ==
  ASSUME WindowInv, NEW p \in Proc, BeginSample(p)
  PROVE  WindowInv'
<1> DEFINE w == row.window
           n == Len(w.samples)
           x == Sampling(p)
           v == [proc[p].window EXCEPT !.samples = Append(@, Sampling(p))]
<1>1. /\ proc[p].at = "loop" /\ now >= proc[p].wake
      /\ Save(p, v) /\ Continue(p, "sampling", v) /\ UNCHANGED <<now, starts>>
  BY DEF BeginSample
<1>2. /\ OwnerKnows(p) /\ w \in Window /\ proc[p].window = w /\ w.deadline = TotalTime
      /\ proc[p] \in ProcRow /\ now \in Nat
  BY <1>1, OwnWindow DEF WindowInv, WindowTypeOK
<1>3. x \in Sample /\ x.seg = proc[p].token /\ x.began = now
  BY <1>2 DEF Sampling, Sample, ProcRow
<1>4. v = [w EXCEPT !.samples = Append(@, x)]
  BY <1>2
<1> HIDE DEF v, x
<1>5. /\ v \in Window
      /\ v.consecutive = w.consecutive /\ v.status = w.status
      /\ v.target = w.target /\ v.deadline = w.deadline
      /\ Len(v.samples) = n + 1 /\ v.samples[n + 1] = x
      /\ \A i \in 1..n : v.samples[i] = w.samples[i]
  BY <1>2, <1>3, <1>4, BegunWindow
<1>6. n \in Nat /\ w.status = "running" /\ w.consecutive \in Nat
  BY <1>1, <1>2 DEF Window, OwnerKnows
<1>7. Streak(w, n, proc[p].token)
  BY <1>1, <1>2 DEF OwnerKnows
<1> HIDE DEF n
<1>8. Streak(v, n, proc[p].token)
  BY <1>2, <1>5, <1>6, <1>7, StreakOf
<1>9. w.consecutive > 0 => Spaced(v, n + 1)
  <2> SUFFICES ASSUME w.consecutive > 0 PROVE Spaced(v, n + 1)
    OBVIOUS
  <2>1. n \in 1..n
    BY <1>6, <1>7 DEF Streak
  <2>2. proc[p].wake >= w.samples[n].ended + Interval
    BY <1>1, <1>2 DEF OwnerKnows, n
  <2>3. w.samples[n].ended \in Nat
    BY <1>6, <1>7 DEF Streak, Counts
  <2>4. now >= w.samples[n].ended + Interval
    BY <1>1, <1>2, <2>2, <2>3, Parameters DEF ProcRow
  <2>5. (n + 1) - 1 = n /\ v.samples[n] = w.samples[n] /\ v.samples[n + 1].began = now
    BY <1>3, <1>5, <1>6, <2>1
  <2> QED
    BY <2>4, <2>5 DEF Spaced
<1>10. PICK k \in ProcRow : /\ proc' = [proc EXCEPT ![p] = k]
                            /\ k.at = "sampling" /\ k.token = proc[p].token
                            /\ k.window = v /\ k.wake = Wake(v)
  BY <1>1, <1>5, ContinueRow
<1>11. row'.window = v /\ proc'[p] = k
  BY <1>1, <1>10 DEF Save, WindowInv, WindowTypeOK
<1>12. OwnerKnows(p)'
  BY <1>3, <1>5, <1>6, <1>8, <1>9, <1>10, <1>11 DEF OwnerKnows
<1> QED
  BY <1>1, <1>2, <1>5, <1>6, <1>10, <1>12, OwnerStep DEF Publishable

\* A sample ends: the streak covers it or is gone.
LEMMA FinishKeeps ==
  ASSUME WindowInv, NEW p \in Proc, FinishSample(p)
  PROVE  WindowInv'
<1> DEFINE w == row.window
<1>1. proc[p].at = "sampling" /\ UNCHANGED <<now, starts>>
  BY DEF FinishSample
<1>2. PICK o \in Observed :
        /\ Save(p, Finished(proc[p].window, o))
        /\ Continue(p, IF Finished(proc[p].window, o).status = "running" THEN "loop" ELSE "closing",
                    Finished(proc[p].window, o))
  BY DEF FinishSample
<1> DEFINE v == Finished(proc[p].window, o)
           at == IF v.status = "running" THEN "loop" ELSE "closing"
<1>3. /\ OwnerKnows(p) /\ w \in Window /\ proc[p].window = w /\ w.deadline = TotalTime
      /\ now \in Nat
  BY <1>1, <1>2, OwnWindow DEF WindowInv, WindowTypeOK
<1>4. /\ w.status = "running" /\ Len(w.samples) > 0
      /\ w.samples[Len(w.samples)].seg = proc[p].token
      /\ Streak(w, Len(w.samples) - 1, proc[p].token)
      /\ w.consecutive > 0 => Spaced(w, Len(w.samples))
  BY <1>1, <1>3 DEF OwnerKnows
<1>5. v = Finished(w, o)
  BY <1>3
<1>6. Save(p, v) /\ Continue(p, at, v)
  BY <1>2
<1> HIDE DEF v
<1>7. /\ v \in Window /\ v.deadline = TotalTime
      /\ Len(v.samples) = Len(w.samples)
      /\ v.samples[Len(w.samples)].seg = proc[p].token
      /\ v.samples[Len(w.samples)].ended = now
      /\ v.status = "passed" => v.consecutive >= Required
  BY <1>3, <1>4, <1>5, FinishedWindow
<1>8. Streak(v, Len(v.samples), proc[p].token)
  BY <1>3, <1>4, <1>5, StreakGrows
<1>9. Publishable(v)
  BY <1>7, <1>8 DEF Publishable
<1>10. at \in {"loop", "closing"} /\ (at = "loop" <=> v.status = "running")
  OBVIOUS
<1> HIDE DEF at
<1>11. PICK k \in ProcRow : /\ proc' = [proc EXCEPT ![p] = k]
                            /\ k.at = at /\ k.token = proc[p].token
                            /\ k.window = v /\ k.wake = Wake(v)
  BY <1>6, <1>7, <1>10, ContinueRow
<1>12. row'.window = v /\ proc'[p] = k
  BY <1>6, <1>11 DEF Save, WindowInv, WindowTypeOK
<1>13. k.wake >= v.samples[Len(v.samples)].ended + Interval
  BY <1>3, <1>4, <1>7, <1>11, WakeTime
<1>14. OwnerKnows(p)'
  BY <1>7, <1>8, <1>10, <1>11, <1>12, <1>13 DEF OwnerKnows
<1> QED
  BY <1>1, <1>4, <1>6, <1>9, <1>11, <1>14, OwnerStep

\* The loop is left, or the verdict saved once more.
LEMMA CloseKeeps ==
  ASSUME WindowInv, NEW p \in Proc, Close(p)
  PROVE  WindowInv'
<1> DEFINE w == row.window
           v == IF proc[p].window.status = "running"
                THEN [proc[p].window EXCEPT !.status = "unknown"] ELSE proc[p].window
<1>1. proc[p].at # "idle" /\ Save(p, v) /\ proc' = [proc EXCEPT ![p] = Idle] /\ UNCHANGED <<now, starts>>
  BY DEF Close
<1>2. OwnerKnows(p) /\ w \in Window /\ proc[p].window = w /\ w.deadline = TotalTime
  BY <1>1, OwnWindow
<1>3. Publishable(v) /\ (w.status # "running" => v = w)
  <2>1. CASE w.status = "running"
    <3>1. v = [w EXCEPT !.status = "unknown"]
      BY <1>2, <2>1
    <3>2. v \in Window /\ v.deadline = w.deadline /\ v.status = "unknown"
      BY <1>2, <3>1 DEF Window
    <3> QED
      BY <1>2, <2>1, <3>2 DEF Publishable
  <2>2. CASE w.status # "running"
    BY <1>2, <2>2 DEF Publishable, WindowInv, Published
  <2> QED
    BY <2>1, <2>2
<1> HIDE DEF v
<1>4. Idle \in ProcRow /\ Idle.at = "idle"
  BY NewWindowType DEF Idle, ProcRow
<1> QED
  BY <1>1, <1>3, <1>4, OwnerStep

\* A process that leaves, and the clock, publish nothing.
LEMMA QuietKeeps ==
  ASSUME WindowInv, (\E p \in Proc : Leave(p)) \/ Tick \/ UNCHANGED vars
  PROVE  WindowInv'
<1>1. CASE \E p \in Proc : Leave(p)
  <2> PICK p \in Proc : Leave(p)
    BY <1>1
  <2>1. Idle \in ProcRow /\ Idle.at = "idle"
    BY NewWindowType DEF Idle, ProcRow
  <2>2. proc'[p] = Idle /\ \A q \in Proc : q # p => proc'[q] = proc[q]
    BY DEF Leave, WindowInv, WindowTypeOK
  <2>3. UNCHANGED <<row, now, starts, scheduled>>
    BY DEF Leave
  <2>4. WindowTypeOK'
    BY <2>1, <2>3 DEF Leave, WindowInv, WindowTypeOK, ProcRow
  <2>5. Published' /\ Tokens'
    BY <2>1, <2>2, <2>3 DEF WindowInv, Published, Tokens
  <2> QED
    BY <2>1, <2>2, <2>3, <2>4, <2>5 DEF WindowInv, OwnerKnows
<1>2. CASE Tick
  BY <1>2 DEF Tick, WindowInv, WindowTypeOK, Published, Tokens, OwnerKnows
<1>3. CASE UNCHANGED vars
  BY <1>3 DEF vars, WindowInv, WindowTypeOK, Published, Tokens, OwnerKnows
<1> QED
  BY <1>1, <1>2, <1>3

\* observation.py and observations.py: whatever processes are paused, replaced
\* or resumed, `consecutive` is the length of an unbroken streak of the owner's
\* own segment, and only the owner of the row can write it.
THEOREM WindowInductive == WindowSpec => []WindowInv
<1>1. WindowInv /\ [Next]_vars => WindowInv'
  BY OpenKeeps, ResumeKeeps, BeginKeeps, FinishKeeps, CloseKeeps, QuietKeeps DEF Next, ProcStep
<1> QED
  BY <1>1, InitWindow, PTL DEF WindowSpec

\* A window passes, and leaves a delayed recheck, only on the strength of
\* Required consecutive samples of one invocation, of one target, in time and
\* apart by the interval (agent/observation.py:44-130).
THEOREM PassedWindowIsStable == WindowSpec => []PassedIsStable
<1>1. ASSUME WindowInv PROVE PassedIsStable
  <2> DEFINE w == row.window
             n == Len(w.samples)
  <2>1. w \in Window /\ n \in Nat
    BY <1>1 DEF WindowInv, WindowTypeOK, Window
  <2>2. /\ scheduled = IF w.status = "passed" THEN {w.target} ELSE {}
        /\ w.deadline = TotalTime
    BY <1>1 DEF WindowInv, Published
  <2>3. ASSUME w.status = "passed"
        PROVE  /\ n >= Required
               /\ \A i \in n - Required + 1 .. n :
                    /\ w.samples[i].status = "passed" /\ w.samples[i].seg = w.samples[n].seg
                    /\ w.samples[i].target = w.target
                    /\ w.samples[i].ended < w.deadline
                    /\ i > n - Required + 1 => w.samples[i].began >= w.samples[i - 1].ended + Interval
    <3>1. w.consecutive >= Required /\ Streak(w, n, w.samples[n].seg)
      BY <1>1, <2>3 DEF WindowInv, Published
    <3>2. w.consecutive \in Nat /\ w.consecutive <= n
      BY <2>1, <3>1 DEF Window, Streak
    <3>3. n >= Required
      BY <2>1, <3>1, <3>2, Parameters
    <3> SUFFICES ASSUME NEW i \in n - Required + 1 .. n
                 PROVE  /\ w.samples[i].status = "passed" /\ w.samples[i].seg = w.samples[n].seg
                        /\ w.samples[i].target = w.target
                        /\ w.samples[i].ended < w.deadline
                        /\ i > n - Required + 1 => w.samples[i].began >= w.samples[i - 1].ended + Interval
      BY <3>3
    <3> DEFINE first == n - w.consecutive + 1
    <3>4. i \in first..n /\ (i > n - Required + 1 => i > first)
      BY <2>1, <3>1, <3>2, Parameters
    <3> QED
      BY <3>1, <3>4 DEF Streak, Counts, Spaced
  <2> QED
    BY <2>2, <2>3 DEF PassedIsStable
<1> QED
  BY <1>1, WindowInductive, PTL

\* What no step may do to the row.
Kept ==
  /\ row.window.status # "running" => row'.window = row.window
  /\ row.owner # 0 => row'.window.deadline = row.window.deadline
  /\ row.window.business # -1 => row'.window.business = row.window.business

\* A save of the owner changes no verdict and no deadline.
LEMMA SaveKept ==
  ASSUME WindowInv, NEW p \in Proc, Resume(p) \/ BeginSample(p) \/ FinishSample(p) \/ Close(p)
  PROVE  Kept
<1> DEFINE w == row.window
<1>1. CASE Resume(p)
  <2> DEFINE v == Resumed(proc[p].window)
  <2>1. proc[p].at = "opened" /\ Save(p, v)
    BY <1>1 DEF Resume
  <2>2. OwnerKnows(p) /\ w \in Window /\ proc[p].window = w
    BY <2>1, OwnWindow
  <2>3. w.status = "running"
    BY <2>1, <2>2 DEF OwnerKnows
  <2>4. v.deadline = w.deadline /\ v.business = w.business
    BY <2>2, ResumedWindow
  <2>5. row'.window = v
    BY <2>1 DEF Save, WindowInv, WindowTypeOK
  <2> QED
    BY <2>3, <2>4, <2>5 DEF Kept
<1>2. CASE BeginSample(p)
  <2> DEFINE x == Sampling(p)
             v == [proc[p].window EXCEPT !.samples = Append(@, x)]
  <2>1. proc[p].at = "loop" /\ Save(p, v)
    BY <1>2 DEF BeginSample
  <2>2. /\ OwnerKnows(p) /\ w \in Window /\ proc[p].window = w /\ proc[p] \in ProcRow
        /\ now \in Nat
    BY <2>1, OwnWindow DEF WindowInv, WindowTypeOK
  <2>3. w.status = "running"
    BY <2>1, <2>2 DEF OwnerKnows
  <2>4. x \in Sample
    BY <2>2 DEF Sampling, Sample, ProcRow
  <2>5. v.deadline = w.deadline /\ v.business = w.business
    BY <2>2, <2>4, BegunWindow
  <2>6. row'.window = v
    BY <2>1 DEF Save, WindowInv, WindowTypeOK
  <2> QED
    BY <2>3, <2>5, <2>6 DEF Kept
<1>3. CASE FinishSample(p)
  <2>1. PICK o \in Observed : Save(p, Finished(proc[p].window, o))
    BY <1>3 DEF FinishSample
  <2>2. proc[p].at = "sampling"
    BY <1>3 DEF FinishSample
  <2> DEFINE v == Finished(proc[p].window, o)
  <2>3. OwnerKnows(p) /\ w \in Window /\ proc[p].window = w /\ now \in Nat
    BY <2>1, <2>2, OwnWindow DEF WindowInv, WindowTypeOK
  <2>4. w.status = "running" /\ Len(w.samples) > 0
    BY <2>2, <2>3 DEF OwnerKnows
  <2>5. v.deadline = w.deadline /\ (w.business # -1 => v.business = w.business)
    BY <2>3, <2>4, FinishedWindow
  <2>6. row'.window = v
    BY <2>1 DEF Save, WindowInv, WindowTypeOK
  <2> QED
    BY <2>4, <2>5, <2>6 DEF Kept
<1>4. CASE Close(p)
  <2> DEFINE v == IF proc[p].window.status = "running"
                  THEN [proc[p].window EXCEPT !.status = "unknown"] ELSE proc[p].window
  <2>1. proc[p].at # "idle" /\ Save(p, v)
    BY <1>4 DEF Close
  <2>2. w \in Window /\ proc[p].window = w
    BY <2>1, OwnWindow
  <2>3. (w.status # "running" => v = w) /\ v.deadline = w.deadline /\ v.business = w.business
    BY <2>2 DEF Window
  <2>4. row'.window = v
    BY <2>1 DEF Save, WindowInv, WindowTypeOK
  <2> QED
    BY <2>3, <2>4 DEF Kept
<1> QED
  BY <1>1, <1>2, <1>3, <1>4

\* A verdict is published once and a restart moves no deadline: the owner works
\* on a running window, and a process that was replaced is refused by the token
\* (persistence/observations.py:26-60).
THEOREM VerdictStands == WindowSpec => VerdictIsFinal
<1>1. ASSUME WindowInv, [Next]_vars PROVE [Kept]_vars
  <2>1. CASE \E p \in Proc : Open(p)
    <3> PICK p \in Proc : Open(p)
      BY <2>1
    <3> DEFINE w == IF row.owner = 0 THEN NewWindow(now) ELSE row.window
    <3>1. row'.window = w
      BY DEF Open
    <3>2. CASE row.owner = 0
      <4>1. row.window.status = "running"
        BY <1>1, <3>2 DEF WindowInv, Published
      <4>2. row.window.business = -1
        BY <1>1, <3>2 DEF WindowInv, Published
      <4> QED
        BY <3>2, <4>1, <4>2 DEF Kept
    <3>3. CASE row.owner # 0
      BY <3>1, <3>3 DEF Kept
    <3> QED
      BY <3>2, <3>3
  <2>2. CASE \E p \in Proc : Resume(p) \/ BeginSample(p) \/ FinishSample(p) \/ Close(p)
    BY <1>1, <2>2, SaveKept
  <2>3. CASE (\E p \in Proc : Leave(p)) \/ Tick \/ UNCHANGED vars
    BY <2>3 DEF Leave, Tick, vars, Kept
  <2> QED
    BY <1>1, <2>1, <2>2, <2>3 DEF Next, ProcStep
<1>2. WindowInv /\ [Next]_vars =>
        [/\ row.window.status # "running" => row.window' = row.window
         /\ row.owner # 0 => row.window'.deadline = row.window.deadline
         /\ row.window.business # -1 => row.window'.business = row.window.business]_vars
  BY <1>1 DEF Kept
<1> QED
  BY <1>2, WindowInductive, PTL DEF WindowSpec, VerdictIsFinal
=============================================================================
