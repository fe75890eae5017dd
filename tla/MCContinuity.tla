---------------------------- MODULE MCContinuity ----------------------------
(* Small instances of Continuity for TLC.                                  *)
EXTENDS Continuity, TLC

CONSTANTS s1, s2, w1, w2, here, there

Ask(w, n) == [work |-> w, artifacts |-> n, empty |-> FALSE, migration |-> FALSE]

\* Two works, with and without artifacts, and the requests validation rejects.
MixedRequests ==
    {Ask(w1, 1), Ask(w2, 0),
     [Ask(w1, 0) EXCEPT !.empty = TRUE], [Ask(w1, 0) EXCEPT !.migration = TRUE]}
=============================================================================
