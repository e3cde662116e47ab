-------------------------- MODULE ObservationWindow --------------------------
(***************************************************************************)
(* One durable observation window: agent/observation.py takes bounded       *)
(* samples of the repaired service until enough consecutive ones pass,      *)
(* persistence/observations.py keeps the window under an owner token.       *)
(*                                                                         *)
(* Several processes may observe the same window: an invocation that was    *)
(* paused or lost its lease goes on until a save tells it so.  Each         *)
(* invocation of run() has a token of its own, which is also the name of    *)
(* its segment; times are ticks of one clock.                               *)
(***************************************************************************)
EXTENDS Integers, Sequences

CONSTANTS Proc,
          Target, NoTarget,  \* identities a sample may observe, or none
          Required,          \* required_consecutive
          MaxSamples,        \* max_samples
          Interval,          \* interval_seconds
          TotalTime, ResourceTime, BusinessTime,
          MaxNow,            \* bound on the clock
          MaxStarts          \* bound on invocations; the last one is undisturbed

ASSUME WindowAssumption ==
  /\ NoTarget \notin Target
  /\ {Required, MaxSamples, MaxStarts} \subseteq Nat \ {0}
  /\ {Interval, TotalTime, ResourceTime, BusinessTime} \subseteq Nat
  /\ MaxNow > TotalTime

VARIABLES row,        \* the row of observation_windows: its owner and payload
          proc,       \* per process: where run() is, its copy of the window
          now, starts,
          scheduled   \* targets of the delayed rechecks that were scheduled

vars == <<row, proc, now, starts, scheduled>>

Sample == [seg: Nat, status: {"sampling", "interrupted", "passed", "failed"},
           target: Target \cup {NoTarget}, began: Nat, ended: Int]

\* business is -1 until a sample found the resources ready.
Window == [status: {"running", "passed", "invalidated", "unknown"}, consecutive: Nat,
           samples: Seq(Sample), target: Target \cup {NoTarget},
           deadline: Nat, resource: Nat, business: Int]

\* What WindowRecoveryVerifier's and observe_recheck's sample() may return, of
\* a service that breaks, heals or is replaced meanwhile: a passed judgement has
\* seen the resources ready, an invalidated one has not.  "failed" stands for
\* every status but passed.
Observed == {o \in [status: {"passed", "failed"}, ready: BOOLEAN,
                    target: Target \cup {NoTarget}, invalid: BOOLEAN] :
               /\ o.status = "passed" => o.ready
               /\ o.invalid => o.status = "failed" /\ ~o.ready}

NewWindow(t) == [status |-> "running", consecutive |-> 0, samples |-> <<>>,
                 target |-> NoTarget, deadline |-> t + TotalTime,
                 resource |-> t + ResourceTime, business |-> -1]

Idle == [at |-> "idle", token |-> 0, wake |-> 0, window |-> NewWindow(0)]

Init ==
  /\ row = [owner |-> 0, window |-> NewWindow(0)]  \* owner 0: no row yet
  /\ proc = [p \in Proc |-> Idle]
  /\ now = 0 /\ starts = 0
  /\ scheduled = {}

-----------------------------------------------------------------------------
Remaining(w) ==
  LET phase == IF w.business # -1 THEN w.business ELSE w.resource
  IN (IF w.deadline < phase THEN w.deadline ELSE phase) - now

\* The gap is measured from the end of the last sample.
Wake(w) ==
  IF w.samples = <<>> THEN now
  ELSE LET last == w.samples[Len(w.samples)]
       IN (IF last.ended >= 0 THEN last.ended ELSE now) + Interval

\* Mutant: the token is not compared.
SaveUnowned(p, w) == /\ row' = [row EXCEPT !.window = w]
                     /\ scheduled' = scheduled \cup (IF w.status = "passed" THEN {w.target} ELSE {})

\* store.save(): refused when another invocation opened the window; a passed
\* window schedules its delayed recheck in the same transaction.
Save(p, w) == /\ row.owner = proc[p].token
              /\ row' = [row EXCEPT !.window = w]
              /\ scheduled' = scheduled \cup (IF w.status = "passed" THEN {w.target} ELSE {})

Continue(p, at, w) ==
  proc' = [proc EXCEPT ![p] = [@ EXCEPT !.at = at, !.window = w, !.wake = Wake(w)]]

\* store.open(): the first invocation creates the window, every one takes it over.
Open(p) ==
  /\ proc[p].at = "idle" /\ starts < MaxStarts
  /\ row.owner = 0 => now = 0
  /\ starts' = starts + 1
  /\ LET w == IF row.owner = 0 THEN NewWindow(now) ELSE row.window IN
     /\ row' = [owner |-> starts + 1, window |-> w]
     /\ proc' = [proc EXCEPT ![p] =
          IF w.status # "running" THEN Idle
          ELSE [at |-> "opened", token |-> starts + 1, wake |-> now, window |-> w]]
  /\ UNCHANGED <<now, scheduled>>

\* Mutant: passes of an earlier invocation still count.
Interrupted(w) ==
  [w EXCEPT !.samples = [i \in DOMAIN w.samples |->
     IF w.samples[i].status = "sampling" THEN [w.samples[i] EXCEPT !.status = "interrupted"]
     ELSE w.samples[i]]]

\* A new segment: the streak is reset and unfinished samples are void.
Resumed(w) == [Interrupted(w) EXCEPT !.consecutive = 0]

Resume(p) ==
  /\ proc[p].at = "opened"
  /\ Save(p, Resumed(proc[p].window))
  /\ Continue(p, "loop", Resumed(proc[p].window))
  /\ UNCHANGED <<now, starts>>

Sampling(p) == [seg |-> proc[p].token, status |-> "sampling", target |-> NoTarget,
                began |-> now, ended |-> -1]

\* The sample is on record before anything is read.
BeginSample(p) ==
  LET w == [proc[p].window EXCEPT !.samples = Append(@, Sampling(p))] IN
  /\ proc[p].at = "loop" /\ now >= proc[p].wake
  /\ Remaining(proc[p].window) > 0 /\ Len(proc[p].window.samples) < MaxSamples
  /\ Save(p, w)
  /\ Continue(p, "sampling", w)
  /\ UNCHANGED <<now, starts>>

\* A sample in time, of the window's target.
Judged(w, o) ==
  LET streak == IF o.status = "passed" /\ o.ready /\ o.target # NoTarget
                THEN w.consecutive + 1 ELSE 0
  IN [w EXCEPT !.target = IF o.target # NoTarget THEN o.target ELSE @,
               !.consecutive = streak,
               !.status = IF streak >= Required THEN "passed" ELSE @]

\* The first sample that finds the resources ready starts the business phase.
\* A sample that was on time before that can be late afterwards.
Finished(w, o) ==
  LET n == Len(w.samples)
      business == w.samples[n].began + BusinessTime
      timed == IF o.ready /\ w.business = -1
               THEN [w EXCEPT !.business = IF w.deadline < business THEN w.deadline ELSE business]
               ELSE w
      late == Remaining(w) <= 0 \/ Remaining(timed) <= 0
      done == [timed EXCEPT !.samples[n] = [@ EXCEPT !.status = o.status, !.target = o.target,
                                                     !.ended = now]]
  IN IF o.invalid \/ (o.target # NoTarget /\ w.target # NoTarget /\ o.target # w.target)
       THEN [done EXCEPT !.status = "invalidated", !.consecutive = 0]
     ELSE IF late THEN [done EXCEPT !.status = "unknown", !.consecutive = 0]
     ELSE Judged(done, o)

FinishSample(p) ==
  /\ proc[p].at = "sampling"
  /\ \E o \in Observed :
       LET w == Finished(proc[p].window, o) IN
       /\ Save(p, w)
       /\ Continue(p, IF w.status = "running" THEN "loop" ELSE "closing", w)
  /\ UNCHANGED <<now, starts>>

\* Mutant: only the number of samples ends the loop.
CloseWhenFull(p) ==
  LET w == proc[p].window
      final == IF w.status = "running" THEN [w EXCEPT !.status = "unknown"] ELSE w IN
  /\ \/ proc[p].at = "closing"
     \/ proc[p].at = "loop" /\ Len(w.samples) = MaxSamples
  /\ Save(p, final)
  /\ proc' = [proc EXCEPT ![p] = Idle]
  /\ UNCHANGED <<now, starts>>

\* The loop is left without a verdict, or the verdict is saved once more.
Close(p) ==
  LET w == proc[p].window
      final == IF w.status = "running" THEN [w EXCEPT !.status = "unknown"] ELSE w IN
  /\ \/ proc[p].at = "closing"
     \/ /\ proc[p].at = "loop"
        /\ Remaining(w) <= 0 \/ Len(w.samples) = MaxSamples
  /\ Save(p, final)
  /\ proc' = [proc EXCEPT ![p] = Idle]
  /\ UNCHANGED <<now, starts>>

-----------------------------------------------------------------------------
\* A save was refused (LeaseLost), failed, or the process died; while starts
\* remain, the last of which is not disturbed.
Leave(p) ==
  /\ proc[p].at # "idle"
  /\ starts < MaxStarts \/ row.owner # proc[p].token
  /\ proc' = [proc EXCEPT ![p] = Idle]
  /\ UNCHANGED <<row, now, starts, scheduled>>

Tick == /\ now < MaxNow /\ now' = now + 1
        /\ UNCHANGED <<row, proc, starts, scheduled>>

ProcStep(p) == Resume(p) \/ BeginSample(p) \/ FinishSample(p) \/ Close(p) \/ Leave(p)

Next == (\E p \in Proc : Open(p) \/ ProcStep(p)) \/ Tick

\* A process that is not stopped goes on, someone resumes a window that was
\* left (the run is claimed again), and time passes.
Fairness == /\ \A p \in Proc : WF_vars(Resume(p) \/ BeginSample(p) \/ FinishSample(p) \/ Close(p))
            /\ \A p \in Proc : WF_vars(row.owner # proc[p].token /\ Leave(p))
            /\ WF_vars(\E p \in Proc : Open(p))
            /\ WF_vars(Tick)

WindowSpec == Init /\ [][Next]_vars /\ Fairness

-----------------------------------------------------------------------------
\* A window is passed only on the strength of consecutive samples of one
\* invocation: none of them interrupted, all of one target, in time since the
\* window was first opened, and apart by the interval; whatever crashed, was
\* replaced or observed beside it.  It alone leaves a delayed recheck.
PassedIsStable ==
  LET w == row.window n == Len(w.samples) IN
  /\ scheduled = IF w.status = "passed" THEN {w.target} ELSE {}
  /\ w.status = "passed" =>
       /\ n >= Required
       /\ \A i \in n - Required + 1 .. n :
            /\ w.samples[i].status = "passed" /\ w.samples[i].seg = w.samples[n].seg
            /\ w.samples[i].target = w.target
            /\ w.samples[i].ended < w.deadline /\ w.deadline = TotalTime
            /\ i > n - Required + 1 => w.samples[i].began >= w.samples[i - 1].ended + Interval

\* A verdict is published once: neither a process that was replaced nor a later
\* invocation changes it, and a restart moves no deadline.
VerdictIsFinal ==
  [][/\ row.window.status # "running" => row.window' = row.window
     /\ row.owner # 0 => row.window'.deadline = row.window.deadline
     /\ row.window.business # -1 => row.window'.business = row.window.business]_vars

\* A window that was opened reaches a verdict once an invocation is left alone.
WindowConcludes == row.owner # 0 ~> row.window.status # "running"
-----------------------------------------------------------------------------
\* The inductive invariant behind both.

WindowTypeOK ==
  /\ row \in [owner: Nat, window: Window]
  /\ proc \in [Proc -> [at: {"idle", "opened", "loop", "sampling", "closing"},
                        token: Nat, wake: Nat, window: Window]]
  /\ now \in Nat /\ starts \in Nat

\* Sample i passed for the window's target, in time, within segment s.
Counts(w, i, s) ==
  /\ w.samples[i].status = "passed" /\ w.samples[i].seg = s
  /\ w.samples[i].target = w.target
  /\ w.samples[i].ended \in Nat /\ w.samples[i].ended < w.deadline

Spaced(w, i) == w.samples[i].began >= w.samples[i - 1].ended + Interval

\* What `consecutive` says of the first m samples of a window.
Streak(w, m, s) ==
  LET first == m - w.consecutive + 1 IN
  /\ w.consecutive <= m
  /\ w.consecutive > 0 => w.target # NoTarget
  /\ \A i \in first..m : Counts(w, i, s) /\ (i > first => Spaced(w, i))

\* The published window: a verdict rests on its last segment.
Published ==
  LET w == row.window IN
  /\ row.owner <= starts
  /\ row.owner = 0 => w.status = "running" /\ w.business = -1
  /\ w.deadline = TotalTime
  /\ scheduled = IF w.status = "passed" THEN {w.target} ELSE {}
  /\ w.status = "passed" => /\ w.consecutive >= Required
                            /\ Streak(w, Len(w.samples), w.samples[Len(w.samples)].seg)

\* Tokens are given out once.
Tokens ==
  \A p \in Proc : proc[p].at # "idle" =>
    /\ proc[p].token \in 1..starts
    /\ \A q \in Proc : proc[q].at # "idle" /\ proc[q].token = proc[p].token => p = q

\* The invocation that owns the window works on what is published.
OwnerKnows(p) ==
  LET w == row.window n == Len(w.samples) IN
  /\ proc[p].window = w
  /\ w.status = "running" <=> proc[p].at # "closing"
  /\ proc[p].at = "loop" =>
       /\ Streak(w, n, proc[p].token)
       /\ w.consecutive > 0 => proc[p].wake >= w.samples[n].ended + Interval
  /\ proc[p].at = "sampling" =>
       /\ n > 0 /\ w.samples[n].seg = proc[p].token
       /\ Streak(w, n - 1, proc[p].token)
       /\ w.consecutive > 0 => Spaced(w, n)

\* A window's numbers are those of its samples, the row's owner works on the
\* row, and nobody else can write it.
WindowInv ==
  /\ WindowTypeOK /\ Published /\ Tokens
  /\ \A p \in Proc : proc[p].at # "idle" /\ proc[p].token = row.owner => OwnerKnows(p)
=============================================================================
