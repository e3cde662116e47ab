--------------------------- MODULE ApprovedChange ---------------------------
(***************************************************************************)
(* What the write path promises a human, without workers, leases, crashes  *)
(* or journals: a run's change is issued at most once, only after that run *)
(* was approved, and while no other change of the incident is open.        *)
(***************************************************************************)
CONSTANT Run

VARIABLES
  decision,  \* per run: the human decision
  change     \* per run: what became of its change to the cluster

changeVars == <<decision, change>>

Init ==
  /\ decision = [r \in Run |-> "none"]
  /\ change = [r \in Run |-> "none"]

\* A human decides once.
Decide(r) ==
  /\ decision[r] = "none"
  /\ \E d \in {"approved", "rejected"} : decision' = [decision EXCEPT ![r] = d]
  /\ UNCHANGED change

Issue(r) ==
  /\ decision[r] = "approved"
  /\ change[r] = "none"
  /\ \A q \in Run : change[q] # "open"
  /\ change' = [change EXCEPT ![r] = "open"]
  /\ UNCHANGED decision

\* The cluster applies or refuses the open change.
Resolve(r) ==
  /\ change[r] = "open"
  /\ \E c \in {"applied", "refused"} : change' = [change EXCEPT ![r] = c]
  /\ UNCHANGED decision

Next == \E r \in Run : Decide(r) \/ Issue(r) \/ Resolve(r)

Spec == Init /\ [][Next]_changeVars
=============================================================================
