----------------------------- MODULE MCRiskBook -----------------------------
(* Instances of RiskBook for TLC, in units of a quarter of a percent:      *)
(* risk/example_limits.yaml scaled down so that three trades reach each    *)
(* cap, one group cut to a single symbol, and usdjpy in no group.          *)
EXTENDS RiskBook, TLC

CONSTANTS eurusd, gbpusd, audusd, usdjpy

TwoGroups == <<{eurusd, gbpusd}, {audusd}>>
TradeSymmetry == Permutations(Trade)
SizerProposals == {-1, 0, 1, 3}
=============================================================================
