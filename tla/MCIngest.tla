------------------------------ MODULE MCIngest ------------------------------
(* Instances of Ingest for TLC: bars of two hours across a turn of the year. *)
EXTENDS Ingest

MCBars == 0 .. Horizon - 1
MCYears == {0, 1}
MCYearOf == [b \in MCBars |-> IF b < 1 THEN 0 ELSE 1]
MCVersions == (SUBSET (0 .. Horizon * BarLen - 1)) \ {{}}
MCTraded == 0 .. Horizon * BarLen - 1
MCRanges == {<<0, Horizon * BarLen>>, <<1, 4>>}

=============================================================================
