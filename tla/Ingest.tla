------------------------------- MODULE Ingest -------------------------------
(***************************************************************************)
(* The two processes that fill one bar store: the ingest command           *)
(* (forexml/cli/main.py), which downloads the hours of a range, builds     *)
(* bars from them, validates and writes them; and the live loop            *)
(* (forexml/live/loop.py), which writes the window of bars it fetched at   *)
(* each bar close and reads it back.  A bar is known by the hours it was   *)
(* built from, so a bar with a missing hour differs from the whole one.    *)
(***************************************************************************)
EXTENDS BarStore

CONSTANTS
    BarLen,        \* hours per bar
    Horizon,       \* bars until the end of the model
    Window,        \* bars the live loop fetches at each poll
    Traded,        \* hours with ticks
    BadSpread,     \* hours that end with ask <= bid
    SpikeBars,     \* bars that validation may take for a price spike
    GapTolerance,  \* gap_tolerance_bars
    Ranges,        \* ranges of hours <<start, end>> the command is run for
    Outages,       \* hours whose download may fail
    MaxRuns,       \* times the command is run
    MaxDeaths      \* processes that die in the middle of a write

Bars == 0 .. Horizon - 1
Hours == 0 .. Horizon * BarLen - 1

\* Where the command's quotes come from.  A prepared file (--source local) is as good
\* as the first if it has bid and ask columns, and as the second if it has not.
Downloads == {"dukascopy", "histdata"}

ASSUME BarsAssumption == Bar = Bars /\ Version = (SUBSET Hours) \ {{}}
ASSUME HoursAssumption == /\ BarLen \in Nat \ {0} /\ Horizon \in Nat /\ Window \in Nat
                          /\ Traded \cup BadSpread \cup Outages \subseteq Hours
                          /\ SpikeBars \subseteq Bars /\ GapTolerance \in Nat
                          /\ MaxRuns \in Nat /\ MaxDeaths \in Nat
ASSUME ProcessAssumption == Process = {"ingest", "live"}

VARIABLES
    now,      \* bars that have closed
    runs,     \* times the command was started
    deaths,   \* processes that have died
    gaps,     \* the gaps in the validation report of that run, each by the bar after it
    view,     \* what the last poll has read back
    beside,   \* the years the command wrote during that poll
    fresh     \* that poll got through to the strategy

vars == <<storeVars, now, runs, deaths, gaps, view, beside, fresh>>

TypeOK ==
    /\ StoreTypeOK
    /\ now \in 0 .. Horizon
    /\ runs \in 0 .. MaxRuns
    /\ deaths \in 0 .. MaxDeaths
    /\ gaps \subseteq Bars
    /\ view \in Table
    /\ beside \subseteq Year
    /\ fresh \in BOOLEAN

Init ==
    /\ StoreInit
    /\ now = 0
    /\ runs = 0
    /\ deaths = 0
    /\ gaps = {}
    /\ view = NoRows
    /\ beside = {}
    /\ fresh = FALSE

-----------------------------------------------------------------------------
HoursOf(b) == {h \in Hours : h \div BarLen = b}

\* ticks_to_bars, the terminal: no bar without a tick
BuiltFrom(hours) ==
    [b \in Bars |-> IF HoursOf(b) \cap hours = {} THEN Absent ELSE HoursOf(b) \cap hours]

In(bars) == {b \in Bars : bars[b] # Absent}
Before(b, S) == {c \in S : c < b}

\* ask_close and bid_close are those of the bar's last hour; HistData's exports
\* have no quotes, so that both are the close.
SpreadRejected(bars, source) ==
    {b \in In(bars) : \/ source = "histdata"
                      \/ \E h \in bars[b] \cap BadSpread : \A g \in bars[b] : g <= h}

\* The first bar has no return; with two bars or fewer none is looked at.
MayBeSpike(S) ==
    IF Cardinality(S) > 2 THEN {b \in S \cap SpikeBars : Before(b, S) # {}} ELSE {}

\* faulty variant: the tolerance counts the bars between, not the interval
GapsBetween(raw, rejected) ==
    LET kept == In(raw) \ rejected
    IN  {b \in kept : Before(b, kept) # {} /\ \A c \in Before(b, kept) : b - c > GapTolerance + 1}

\* A gap is reported at the first bar after it.
Gaps(raw, rejected) ==
    LET kept == In(raw) \ rejected
    IN  {b \in kept : /\ Before(b, kept) # {}
                      /\ \A c \in Before(b, kept) : b - c > GapTolerance}

Clean(raw, rejected) == [b \in Bars |-> IF b \in rejected THEN Absent ELSE raw[b]]

\* The bars validate_bars may reject: any choice of spikes among what is left.
Rejections(raw, source) ==
    LET spread == SpreadRejected(raw, source)
    IN  {spread \cup spikes : spikes \in SUBSET MayBeSpike(In(raw) \ spread)}

-----------------------------------------------------------------------------
(* The commands *)

\* Hours the command gets: those that fail to download are skipped.
Downloaded(range, failed) ==
    {h \in Traded \ failed : range[1] <= h /\ h < range[2] /\ h < now * BarLen}

\* ingest
IngestCommand ==
    /\ runs < MaxRuns
    /\ runs' = runs + 1
    /\ \E range \in Ranges, failed \in SUBSET Outages, source \in Downloads :
          LET raw == BuiltFrom(Downloaded(range, failed))
          IN  /\ In(raw) # {}            \* or it exits: no bars returned
              /\ \E rejected \in Rejections(raw, source) :
                    /\ gaps' = Gaps(raw, rejected)
                    /\ Write("ingest", Clean(raw, rejected))
    /\ UNCHANGED <<now, deaths, view, beside, fresh>>

\* The command ends.
IngestExit ==
    /\ Return("ingest")
    /\ gaps' = {}
    /\ UNCHANGED <<now, runs, deaths, view, beside, fresh>>

Unread == view' = NoRows /\ beside' = {} /\ fresh' = FALSE

\* poll(): fetch, validate and write the window of closed bars
Poll ==
    /\ LET raw == BuiltFrom({h \in Traded : now - Window <= h \div BarLen
                                            /\ h \div BarLen < now})
       IN  /\ In(raw) # {}
           /\ \E rejected \in Rejections(raw, "mt5") : Write("live", Clean(raw, rejected))
    /\ Unread
    /\ UNCHANGED <<now, runs, deaths, gaps>>

\* poll(), store.read: one query over all files, it raises where one is torn.
ReadBack ==
    /\ Return("live")
    /\ IF Readable THEN view' = rows /\ beside' = overtaken["live"] /\ fresh' = TRUE
                   ELSE UNCHANGED <<view, beside, fresh>>
    /\ UNCHANGED <<now, runs, deaths, gaps>>

\* The next bar closes.
BarClose ==
    /\ step["live"] = "idle"
    /\ now < Horizon
    /\ now' = now + 1
    /\ Unread
    /\ UNCHANGED <<storeVars, runs, deaths, gaps>>

WriteStep(p) ==
    StoreStep(p) /\ UNCHANGED <<now, runs, deaths, gaps, view, beside, fresh>>

\* The process is killed, or its machine loses power; it is started again later.
Dies(p) ==
    /\ deaths < MaxDeaths
    /\ deaths' = deaths + 1
    /\ Crash(p)
    /\ gaps' = IF p = "ingest" THEN {} ELSE gaps
    /\ UNCHANGED <<now, runs, view, beside, fresh>>

Next ==
    \/ IngestCommand \/ IngestExit \/ Poll \/ ReadBack \/ BarClose
    \/ \E p \in Process : WriteStep(p) \/ Dies(p)

\* Polls go on, and what was begun is not left standing.  Nobody has to run the
\* command, and nothing has to fail.
Spec ==
    /\ Init /\ [][Next]_vars
    /\ WF_vars(BarClose) /\ WF_vars(Poll) /\ WF_vars(ReadBack)
    /\ \A p \in Process : WF_vars(WriteStep(p))

-----------------------------------------------------------------------------
(* Properties *)

\* After the command, a bar of its range that the store does not have lies in a hole
\* that is reported at the bar after it, or too short to be reported, or at an end
\* of what was kept: whether it was never traded, not downloaded, or rejected.
LossReported ==
    step["ingest"] = "done" =>
        LET kept == In(batch["ingest"])
        IN  \A b \in Bars :
                \/ file[YearOf[b]] = "whole" /\ rows[b] # Absent
                \/ YearOf[b] \in overtaken["ingest"]
                \/ Before(b, kept) \in {{}, kept}
                \/ \E c, d \in kept : /\ c < b /\ b < d /\ kept \cap (c + 1 .. d - 1) = {}
                                      /\ d \in gaps \/ d - c <= GapTolerance

\* Whatever the ingest command left in the store before it (bars with hours
\* missing, bars of the other year), a poll that gets through reads every bar of
\* its window whole, unless the bar was rejected or the command was writing too.
WindowWhole ==
    fresh =>
        \A b \in Bars :
            \/ b < now - Window \/ b >= now
            \/ HoursOf(b) \cap Traded \in {{}, view[b]}
            \/ b \in SpikeBars \cup SpreadRejected(BuiltFrom(Traded), "mt5")
            \/ YearOf[b] \in beside

\* Unless a year was lost, polls go on getting through to the strategy, also
\* while the command is writing the files they read.
PollsGoOnUnlessLost == []<>(fresh \/ Lost # {})

=============================================================================
