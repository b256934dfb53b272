----------------------------- MODULE MCLiveLoop -----------------------------
(* Instances of LiveLoop for TLC. *)
EXTENDS LiveLoop, TLC

\* Evaluations are interchangeable: the loop only compares their ids.
SignalSymmetry == Permutations(Signal)

\* Results: a loss and a win, and nothing at all where the sign plays no part.
LossOrWin == {-1, 1}
Flat == {0}
=============================================================================
