--------------------------- MODULE MCSignalRules ----------------------------
(* Instances of SignalRules for TLC: a day of four bars, the Asian session  *)
(* its first two, London the third.                                         *)
EXTENDS SignalRules, TLC

TwoSessions == [asian |-> [start |-> 0, end |-> 2], london |-> [start |-> 2, end |-> 3]]

\* A quiet bar, one with long wicks and one that closes away from both.
ThreeShapes ==
    { [low |-> 3, high |-> 4, close |-> 3],
      [low |-> 1, high |-> 6, close |-> 4],
      [low |-> 2, high |-> 5, close |-> 2] }

\* A close below the Asian low by a bar that also touched above the high before it,
\* with a third condition.
AsianLow ==
    <<Indicator, Breaks("asian", "low", "close"), Breaks("asian", "high", "high")>>

OvernightAndQuiet ==
    << [type |-> "time_of_day", start |-> 3, end |-> 2],
       [type |-> "volatility_regime", allowed |-> {"low", "normal"}],
       [type |-> "volatility_spike_guard"] >>
AtrValues == {NoValue, 0, 1}
RegimeValues == {"normal", "extreme"}

OneAtr == [type |-> "atr_multiple", by |-> 1]
TwoR == [type |-> "r_multiple", by |-> 2]
=============================================================================
