----------------------------- MODULE MCResearch -----------------------------
(***************************************************************************)
(* Instances of Research for TLC: the status changes around one trade;     *)
(* sessions and reports, at length, with trades that are labelled twice,   *)
(* and with backtests; a backtest alone, for the figures of longer series. *)
(***************************************************************************)
EXTENDS Research

MCFlags == {[train |-> 1, test |-> 1], [train |-> 2, test |-> 1]}

MCBounds ==
    {[changes |-> 1, rows |-> 1, days |-> 0, sources |-> {"live", "backtest"},
      outcomes |-> {"open", "win"}, reports |-> FALSE],
     [changes |-> 0, rows |-> 3, days |-> 4, sources |-> {"live"},
      outcomes |-> {"open", "win"}, reports |-> TRUE],
     [changes |-> 0, rows |-> 3, days |-> 2, sources |-> {"live"},
      outcomes |-> {"open", "win", "loss"}, reports |-> TRUE],
     [changes |-> 0, rows |-> 2, days |-> 3, sources |-> {"live", "backtest"},
      outcomes |-> {"open", "win"}, reports |-> TRUE],
     [changes |-> 0, rows |-> 5, days |-> 4, sources |-> {"backtest"},
      outcomes |-> {"win", "loss", "timeout"}, reports |-> FALSE]}

=============================================================================
