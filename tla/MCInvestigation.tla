--------------------------- MODULE MCInvestigation ---------------------------
(***************************************************************************)
(* Two queries that may be read alone or together, and what crashes lost.  *)
(***************************************************************************)
EXTENDS Investigation

CONSTANTS q1, q2

Batches == {<<q1>>, <<q2, q1>>}

-----------------------------------------------------------------------------
\* Whether a crash has taken two decisions with it, which the code does not
\* rule out.  The variable only records: InvestigationSpec is not restricted.
VARIABLE lost

HistorySpec ==
  /\ lost = FALSE /\ Init
  /\ [][Next /\ lost' = (lost \/ (Crash /\ ~OneBehind))]_<<vars, lost>>
  /\ Fairness

\* Until then a paid prompt is never rebuilt differently when its step is
\* replayed: reserve() meets no request id with another fingerprint.
PromptsStandUnlessLost == lost \/ PromptsStand

\* Until then the last permitted call may only conclude or stop, as
\* terminal_mode() promises, through every correction, single loss and replay.
LastCallTerminalUnlessLost == [][lost \/ LastCallEnds]_<<vars, lost>>
=============================================================================
