------------------------- MODULE MCCommitStatusGate -------------------------
\* Two schedules: two overlapping allow windows with an exclusion inside
\* the first; a repeated exclusion alone.
EXTENDS CommitStatusGate

MCSchedules ==
    {[allow   |-> {[starts |-> {0}, dur |-> 3], [starts |-> {2}, dur |-> 1]},
      exclude |-> {[starts |-> {1}, dur |-> 1]}],
     [allow   |-> {},
      exclude |-> {[starts |-> {0, 1}, dur |-> 2]}]}
=============================================================================
