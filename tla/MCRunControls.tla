--------------------------- MODULE MCRunControls ---------------------------
(***************************************************************************)
(* Model-checking instance of the protocol layer.                          *)
(***************************************************************************)
EXTENDS RunControls, TLC

WorkerSymmetry == Permutations(Worker)

\* No transaction of this layer reads checkpoint_started or last_error or tells
\* succeeded from failed, and an output that a worker published allows no round
\* that the view of a request would not.  States that differ only in these are
\* cut to one representative.  Without foreign changes, plans are made against
\* configuration 0 or the previous run's.
Representative ==
  \A r \in Run :
    /\ ~run[r].started
    /\ run[r].status # "succeeded"
    /\ run[r].prior \in {0, r - 1} \/ MaxDrift > 0
    /\ run[r].error = "none" \/ run[r].stop
    /\ \/ run[r].output = "none"
       \/ run[r].output = "other"
          /\ (run[r].stop \/ \E q \in Run : q > r /\ run[q].status # "absent")
=============================================================================
