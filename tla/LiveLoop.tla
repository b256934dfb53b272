------------------------------ MODULE LiveLoop ------------------------------
(***************************************************************************)
(* The live trading process (forexml/live/loop.py, started by the          *)
(* paper-trade command of forexml/cli/main.py) over its durable stores:    *)
(* the open-position table, the trade ledger and the signal store, and the *)
(* broker the MetaTrader 5 adapter sends orders to.                        *)
(*                                                                         *)
(* One poll is not atomic: every call that has an effect outside the       *)
(* process (an order, a row written or deleted) is a step of its own, so   *)
(* that a crash, a rejected order or a store closed by the main thread can *)
(* fall between any two of them.  `pc' is the place the poll has reached.  *)
(*                                                                         *)
(* A trade carries the id of the evaluation that opened it: at most one    *)
(* trade is opened per evaluation, so the two uuids of the code            *)
(* (LivePosition.trade_id, .signal_id) are one model value.                *)
(***************************************************************************)
EXTENDS Integers, Sequences, FiniteSets, Functions

CONSTANTS
    Signal,         \* ids of rule evaluations, and of the trades they open
    NoSignal,       \* no evaluation is being opened
    MaxConcurrent,  \* strategy.risk.max_concurrent
    TimeStop,       \* strategy.exit.time_stop.bars, 0 when there is none
    Pnl,            \* the results a closing fill may have
    Modes,          \* the --execution values a session may be started with
    Tradeable,      \* whether the YAML's status is `active', at each start
    Faults,         \* what may go wrong, a subset of FaultKinds
    InitialEquity,  \* --initial-equity
    MaxCloses       \* bound: no poll starts once a trade has this many close rows

FaultKinds ==
    { "crash",      \* the process dies between any two steps
      "interrupt",  \* Ctrl+C at any time, also while a poll is running
      "stop",       \* Ctrl+C between two polls
      "reject",     \* the broker refuses an order and does nothing
      "unack",      \* the broker fills an order and the adapter reports failure
      "manual" }    \* a position is closed at the broker by somebody else

ASSUME SignalAssumption == IsFiniteSet(Signal) /\ NoSignal \notin Signal
ASSUME LimitAssumption == MaxConcurrent \in Nat /\ TimeStop \in Nat
ASSUME PnlAssumption == Pnl \subseteq Int /\ InitialEquity \in Int
ASSUME ModeAssumption == Modes \subseteq {"simulated", "mt5"}
ASSUME FaultAssumption == Tradeable \subseteq BOOLEAN /\ Faults \subseteq FaultKinds
ASSUME BoundAssumption == MaxCloses \in Nat

Tickets == {"paper", "broker"}          \* broker_position_id is None / is a ticket
StopClocks == {"none", "aware", "naive"} \* time_stop_at: None / with tz / without
Position == [id : Signal, ticket : Tickets, clock : StopClocks]

\* What the main thread's `finally' block closes, in order (`closing' counts them).
ShutdownOrder == <<"scheduler", "adapter", "signals", "ledger", "positions">>

VARIABLES
    \* the process, lost when it ends
    pc,             \* where the current poll is; "idle" between polls, "down" when not running
    mode,           \* the execution adapter of this session
    tradeable,      \* is_tradeable(strategy.status) in this session
    openPositions,  \* LiveTradingLoop.open_positions
    cursor,         \* the index _manage_open_positions has reached
    stillOpen,      \* its local still_open
    pnl,            \* the result of the close order just filled
    pending,        \* the evaluation being opened
    ticket,         \* broker_position_id of the fill that opens it
    equity,         \* LiveTradingLoop.equity
    closing,        \* how many resources of ShutdownOrder the main thread has closed
    \* the stores
    rows,           \* open_positions table: trade id -> its ticket kind, or "absent"
    signals,        \* signals table: "none", "rejected", or a taken signal's outcome
    ledgerOpen,     \* trades with an open row in the ledger
    ledgerClose,    \* number of close rows of each trade
    ledgerPnl,      \* sum of realised_pnl over the close rows
    \* time, and the broker
    barsLeft,       \* bar closes until a trade's time_stop_at
    brokerOpen,     \* trades whose position is open at the broker
    brokerStray     \* trades whose close order opened an unrelated position

session == <<mode, tradeable>>
walk == <<cursor, stillOpen>>
fill == <<pnl, pending, ticket>>
memory == <<session, openPositions, walk, fill, equity>>
ledger == <<ledgerOpen, ledgerClose, ledgerPnl>>
stores == <<rows, signals, ledger>>
broker == <<brokerOpen, brokerStray>>
vars == <<pc, memory, closing, stores, barsLeft, broker>>

Steps == {"down", "idle", "manage", "book_close", "resolve", "delete",
          "evaluate", "submit", "save", "book_open"}

TypeOK ==
    /\ pc \in Steps
    /\ mode \in {"simulated", "mt5"}
    /\ tradeable \in BOOLEAN
    /\ openPositions \in Seq(Position)
    /\ cursor \in Nat \ {0}
    /\ stillOpen \in Seq(Position)
    /\ pnl \in Int
    /\ pending \in Signal \cup {NoSignal}
    /\ ticket \in Tickets
    /\ equity \in Int
    /\ closing \in 0..5
    /\ rows \in [Signal -> Tickets \cup {"absent"}]
    /\ signals \in [Signal -> {"none", "rejected", "open", "win", "loss", "timeout"}]
    /\ ledgerOpen \subseteq Signal
    /\ ledgerClose \in [Signal -> Nat]
    /\ ledgerPnl \in Int
    /\ barsLeft \in [Signal -> 0..TimeStop]
    /\ brokerOpen \subseteq Signal
    /\ brokerStray \subseteq Signal

-----------------------------------------------------------------------------
(* Helpers *)

Ids(positions) == {positions[i].id : i \in DOMAIN positions}
Stored == {s \in Signal : rows[s] # "absent"}
Closed == {s \in Signal : ledgerClose[s] > 0}

Usable(resource) == \A i \in 1..closing : ShutdownOrder[i] # resource

\* Once the data adapter has shut the terminal down an order may fail; it may still
\* get through, for the session's first order connects anew (mt5.py, _mt5_module).
BrokerReachable == Usable("adapter")

Current == openPositions[cursor]

\* LivePosition(**row): the columns opened_at and time_stop_at are TIMESTAMP
\* without time zone, so what was stored with a zone is read back without one.
Reloaded(s) ==
    [id |-> s, ticket |-> rows[s], clock |-> IF TimeStop = 0 THEN "none" ELSE "naive"]

\* One bar less to every trade's time_stop_at.  The code keeps no counter: it
\* compares the clock with time_stop_at (loop.py:330), and this is their distance.
Ticked == [s \in Signal |-> IF barsLeft[s] > 0 THEN barsLeft[s] - 1 ELSE 0]

\* A poll returns, or raises: its locals are gone, its effects stay.
EndPoll ==
    /\ pc' = "idle"
    /\ cursor' = 1 /\ stillOpen' = <<>>
    /\ pnl' = 0 /\ pending' = NoSignal /\ ticket' = "paper"

\* It raises and leaves openPositions and equity as they are (the scheduler logs
\* the exception and polls again at the next bar close).
Raise == EndPoll /\ UNCHANGED <<session, openPositions, equity, closing, barsLeft>>

-----------------------------------------------------------------------------
Init ==
    /\ pc = "down"
    /\ mode \in Modes
    /\ tradeable = FALSE
    /\ openPositions = <<>>
    /\ cursor = 1 /\ stillOpen = <<>>
    /\ pnl = 0 /\ pending = NoSignal /\ ticket = "paper"
    /\ equity = InitialEquity
    /\ closing = 0
    /\ rows = [s \in Signal |-> "absent"]
    /\ signals = [s \in Signal |-> "none"]
    /\ ledgerOpen = {}
    /\ ledgerClose = [s \in Signal |-> 0]
    /\ ledgerPnl = 0
    /\ barsLeft = [s \in Signal |-> 0]
    /\ brokerOpen = {} /\ brokerStray = {}

-----------------------------------------------------------------------------
(* The process: start, Ctrl+C, crash *)

\* `SELECT *' has no ORDER BY: the rows are reloaded in any order.
Start ==
    /\ pc = "down"
    /\ \E m \in Modes, b \in Tradeable : mode' = m /\ tradeable' = b
    /\ \E order \in Bijection(1..Cardinality(Stored), Stored) :
           openPositions' = [i \in 1..Cardinality(Stored) |-> Reloaded(order[i])]
    /\ equity' = InitialEquity
    /\ pc' = "idle"
    /\ UNCHANGED <<walk, fill, closing, stores, barsLeft, broker>>

\* The process ends: what it kept in memory is gone.
End ==
    /\ pc' = "down"
    /\ openPositions' = <<>> /\ equity' = InitialEquity
    /\ cursor' = 1 /\ stillOpen' = <<>>
    /\ pnl' = 0 /\ pending' = NoSignal /\ ticket' = "paper"
    /\ closing' = 0
    /\ UNCHANGED <<session, stores, barsLeft, broker>>

Crash == "crash" \in Faults /\ pc # "down" /\ End

\* KeyboardInterrupt reaches the main thread; a poll in the scheduler's worker
\* thread goes on (shutdown(wait=False)).
Interrupt ==
    /\ pc # "down" /\ closing = 0
    /\ "interrupt" \in Faults \/ ("stop" \in Faults /\ pc = "idle")
    /\ closing' = 1
    /\ UNCHANGED <<pc, memory, stores, barsLeft, broker>>

CloseNext ==
    /\ closing \in 1..4
    /\ closing' = closing + 1
    /\ UNCHANGED <<pc, memory, stores, barsLeft, broker>>

\* The interpreter joins the worker thread before it exits.
Exit == closing = 5 /\ pc = "idle" /\ End

-----------------------------------------------------------------------------
(* Time *)

\* A bar closes without a poll that manages anything: the process is down or
\* hung, the adapter returned no bars, or no closed bar was in the store.
BarWithoutPoll ==
    /\ pc \in {"down", "idle"}
    /\ barsLeft' = Ticked /\ Ticked # barsLeft
    /\ UNCHANGED <<pc, memory, closing, stores, broker>>

\* The scheduler runs poll() once per bar close, never two at a time.  The bars
\* are fetched, validated, stored and read back before anything is managed.
PollStart ==
    /\ pc = "idle" /\ closing = 0
    /\ \A s \in Signal : ledgerClose[s] < MaxCloses
    /\ pc' = "manage"
    /\ barsLeft' = Ticked
    /\ UNCHANGED <<memory, closing, stores, broker>>

-----------------------------------------------------------------------------
(* _manage_open_positions: whether the bar reaches the stop or the target of  *)
(* a position is open; if it reaches neither, the time stop decides.          *)

MayHoldOneBarMore(p) ==   \* faulty variant
    p.clock = "none" \/ (p.clock = "aware" /\ barsLeft[p.id] >= 0)

MayHold(p) == p.clock = "none" \/ (p.clock = "aware" /\ barsLeft[p.id] > 0)

UpdateRow(p) ==    \* faulty variant: UPDATE where the code says INSERT OR REPLACE
    IF rows[p.id] = "absent" THEN rows ELSE [rows EXCEPT ![p.id] = p.ticket]

\* position_store.save: INSERT OR REPLACE by trade_id.
SaveRow(p) == [rows EXCEPT ![p.id] = p.ticket]

\* The position is not hit: its excursions are saved and it stays open.
Hold ==
    /\ pc = "manage" /\ cursor <= Len(openPositions)
    /\ MayHold(Current)
    /\ IF Usable("positions")
       THEN /\ rows' = SaveRow(Current)
            /\ stillOpen' = Append(stillOpen, Current)
            /\ cursor' = cursor + 1
            /\ UNCHANGED <<pc, session, openPositions, fill, equity, closing, barsLeft>>
       ELSE Raise /\ UNCHANGED rows
    /\ UNCHANGED <<signals, ledger, broker>>

\* `now >= position.time_stop_at' compares a datetime with a time zone to one
\* without: TypeError, out of the poll.
CompareNaive ==
    /\ pc = "manage" /\ cursor <= Len(openPositions)
    /\ Current.clock = "naive"
    /\ Raise
    /\ UNCHANGED <<stores, broker>>

UncheckedClose(p) == UNCHANGED broker    \* faulty variant: retcode not looked at

\* What the exit order of p does at the broker, when it accepts it: a ticketed
\* order closes that position, an order without a ticket opens an opposite one.
ClosesAtBroker(p) ==
    IF p.ticket = "broker"
    THEN brokerOpen' = brokerOpen \ {p.id} /\ UNCHANGED brokerStray
    ELSE brokerStray' = brokerStray \cup {p.id} /\ UNCHANGED brokerOpen

Accepts(p) == p.ticket = "broker" => p.id \in brokerOpen

EquityWithoutLosses(r) == IF r > 0 THEN equity + r ELSE equity   \* faulty variant

EquityAfter(r) == equity + r

ResolveFirst == "resolve"   \* faulty variant: the label before the ledger row

FirstRecorded == "book_close"

\* The exit order of the position that is hit is filled.
SubmitClose ==
    /\ pc = "manage" /\ cursor <= Len(openPositions)
    /\ IF mode = "mt5" THEN Accepts(Current) /\ ClosesAtBroker(Current)
                       ELSE UNCHANGED broker
    /\ \E r \in Pnl : pnl' = r /\ equity' = EquityAfter(r)
    /\ pc' = FirstRecorded
    /\ UNCHANGED <<session, openPositions, walk, pending, ticket, closing, stores, barsLeft>>

\* The exit order fails: refused, or filled without an acknowledgement.
CloseFails ==
    /\ pc = "manage" /\ cursor <= Len(openPositions)
    /\ mode = "mt5"
    /\ \/ /\ ~Accepts(Current) \/ ~BrokerReachable \/ "reject" \in Faults
          /\ UNCHANGED broker
       \/ /\ "unack" \in Faults /\ Accepts(Current)
          /\ ClosesAtBroker(Current)
    /\ Raise
    /\ UNCHANGED stores

\* ledger.record(event="close")
BookClose ==
    /\ pc = "book_close"
    /\ IF Usable("ledger")
       THEN /\ ledgerClose' = [ledgerClose EXCEPT ![Current.id] = @ + 1]
            /\ ledgerPnl' = ledgerPnl + pnl
            /\ pc' = "resolve"
            /\ UNCHANGED <<memory, closing, ledgerOpen, barsLeft>>
       ELSE Raise /\ UNCHANGED ledger
    /\ UNCHANGED <<rows, signals, broker>>

OutcomeBreakEven(r) ==   \* faulty variant: a label the schema does not have
    IF r > 0 THEN "win" ELSE IF r < 0 THEN "loss" ELSE "breakeven"

Outcome(r) == IF r > 0 THEN "win" ELSE IF r < 0 THEN "loss" ELSE "timeout"

ResolveOutcome ==
    /\ pc = "resolve"
    /\ IF Usable("signals")
       THEN /\ signals' = [signals EXCEPT ![Current.id] = Outcome(pnl)]
            /\ pc' = "delete"
            /\ UNCHANGED <<memory, closing, barsLeft>>
       ELSE Raise /\ UNCHANGED signals
    /\ UNCHANGED <<rows, ledger, broker>>

DeleteRow ==
    /\ pc = "delete"
    /\ IF Usable("positions")
       THEN /\ rows' = [rows EXCEPT ![Current.id] = "absent"]
            /\ pc' = "manage" /\ cursor' = cursor + 1 /\ pnl' = 0
            /\ UNCHANGED <<session, openPositions, stillOpen, pending, ticket, equity,
                           closing, barsLeft>>
       ELSE Raise /\ UNCHANGED rows
    /\ UNCHANGED <<signals, ledger, broker>>

KeepAll == openPositions   \* faulty variant: the list is not replaced

KeptOpen == stillOpen

FinishManage ==
    /\ pc = "manage" /\ cursor > Len(openPositions)
    /\ openPositions' = KeptOpen
    /\ cursor' = 1 /\ stillOpen' = <<>>
    /\ pc' = "evaluate"
    /\ UNCHANGED <<session, fill, equity, closing, stores, barsLeft, broker>>

-----------------------------------------------------------------------------
(* The rest of poll(): evaluate the rules, publish the signal, open a trade *)

\* The rules have nothing to say at this bar, or a feature or the publication raises.
NoSignalThisBar ==
    /\ pc = "evaluate"
    /\ EndPoll
    /\ UNCHANGED <<session, openPositions, equity, closing, stores, barsLeft, broker>>

Fresh(s) == signals[s] = "none"

SignalRejected ==
    /\ pc = "evaluate" /\ Usable("signals")
    /\ \E s \in Signal : Fresh(s) /\ signals' = [signals EXCEPT ![s] = "rejected"]
    /\ EndPoll
    /\ UNCHANGED <<session, openPositions, equity, closing, rows, ledger, barsLeft, broker>>

PublishLater(s) == signals   \* faulty variant: logged only after the order

PublishTaken(s) == [signals EXCEPT ![s] = "open"]

RoomForOneMore == Len(openPositions) <= MaxConcurrent   \* faulty variant

HasRoom == Len(openPositions) < MaxConcurrent

\* Taken, and logged as such; the strategy is not active, has max_concurrent
\* positions open, or the risk gate refuses.
SignalTakenOnly ==
    /\ pc = "evaluate" /\ Usable("signals")
    /\ \E s \in Signal : Fresh(s) /\ signals' = PublishTaken(s)
    /\ EndPoll
    /\ UNCHANGED <<session, openPositions, equity, closing, rows, ledger, barsLeft, broker>>

\* Taken, and approved by the risk gate.
SignalApproved ==
    /\ pc = "evaluate" /\ Usable("signals")
    /\ tradeable
    /\ HasRoom
    /\ \E s \in Signal : /\ Fresh(s)
                         /\ signals' = PublishTaken(s)
                         /\ pending' = s
    /\ pc' = "submit"
    /\ UNCHANGED <<session, openPositions, walk, pnl, ticket, equity, closing,
                   rows, ledger, barsLeft, broker>>

\* The opening order is filled.
SubmitOpen ==
    /\ pc = "submit"
    /\ IF mode = "mt5"
       THEN /\ brokerOpen' = brokerOpen \cup {pending}
            /\ ticket' = "broker"
       ELSE UNCHANGED <<brokerOpen, ticket>>
    /\ barsLeft' = [barsLeft EXCEPT ![pending] = TimeStop]
    /\ pc' = "save"
    /\ UNCHANGED <<session, openPositions, walk, pnl, pending, equity, closing,
                   stores, brokerStray>>

OpenFails ==
    /\ pc = "submit" /\ mode = "mt5"
    /\ \/ /\ ~BrokerReachable \/ "reject" \in Faults
          /\ UNCHANGED brokerOpen
       \/ /\ "unack" \in Faults
          /\ brokerOpen' = brokerOpen \cup {pending}
    /\ Raise
    /\ UNCHANGED <<stores, brokerStray>>

OpenedWithoutTicket ==   \* faulty variant: broker_position_id is not kept
    [id |-> pending, ticket |-> "paper", clock |-> IF TimeStop = 0 THEN "none" ELSE "aware"]

Opened ==
    [id |-> pending, ticket |-> ticket, clock |-> IF TimeStop = 0 THEN "none" ELSE "aware"]

\* open_positions.append(position); position_store.save(position)
SavePosition ==
    /\ pc = "save"
    /\ openPositions' = Append(openPositions, Opened)
    /\ IF Usable("positions")
       THEN /\ rows' = SaveRow(Opened)
            /\ pc' = "book_open"
            /\ UNCHANGED <<walk, fill>>
       ELSE EndPoll /\ UNCHANGED rows
    /\ UNCHANGED <<session, equity, closing, signals, ledger, barsLeft, broker>>

\* ledger.record(event="open")
BookOpen ==
    /\ pc = "book_open"
    /\ ledgerOpen' = IF Usable("ledger") THEN ledgerOpen \cup {pending} ELSE ledgerOpen
    /\ EndPoll
    /\ UNCHANGED <<session, openPositions, equity, closing, rows, signals, ledgerClose,
                   ledgerPnl, barsLeft, broker>>

-----------------------------------------------------------------------------
(* The broker, outside the process *)

CloseAtTerminal ==
    /\ "manual" \in Faults
    /\ \E s \in brokerOpen : brokerOpen' = brokerOpen \ {s}
    /\ UNCHANGED <<pc, memory, closing, stores, barsLeft, brokerStray>>

-----------------------------------------------------------------------------
Manage ==
    \/ Hold \/ CompareNaive \/ SubmitClose \/ CloseFails
    \/ BookClose \/ ResolveOutcome \/ DeleteRow \/ FinishManage

Evaluate ==
    \/ NoSignalThisBar \/ SignalRejected \/ SignalTakenOnly \/ SignalApproved
    \/ SubmitOpen \/ OpenFails \/ SavePosition \/ BookOpen

Poll == PollStart \/ Manage \/ Evaluate
Process == Start \/ Interrupt \/ CloseNext \/ Exit \/ Crash
Next == Process \/ Poll \/ BarWithoutPoll \/ CloseAtTerminal

Spec == Init /\ [][Next]_vars

\* The scheduler polls at every bar close and a poll that began runs on; the
\* process is started again, and its shutdown completes.  Nothing fails or is
\* interrupted by fairness, and time may also pass without a poll.
Fairness ==
    /\ WF_vars(Poll) /\ WF_vars(Start) /\ WF_vars(CloseNext) /\ WF_vars(Exit)

FairSpec == Spec /\ Fairness

-----------------------------------------------------------------------------
(* What the loop promises *)

Running == pc # "down"

\* A trade the ledger shows as opened and not closed has a row in the
\* open-position table, whatever failed and wherever the process died: the next
\* start reloads it (positions.py, "restart safety net").
NothingForgotten ==
    \A s \in ledgerOpen : ledgerClose[s] = 0 => s \in Stored

\* However often the process dies, is restarted or loses orders, it never holds
\* more trades than the strategy's max_concurrent, in memory or in the table.
RestartWithinLimit ==
    /\ Cardinality(Stored) <= MaxConcurrent
    /\ Len(openPositions) <= MaxConcurrent

\* A signal is labelled win, loss or timeout only when the ledger has a close
\* row of its trade: the labels never run ahead of the results they stand for.
OutcomeHasClose ==
    \A s \in Signal : signals[s] \in {"win", "loss", "timeout"} => s \in Closed

\* Every trade known anywhere (memory, table, ledger or broker) comes from an
\* evaluation that was logged as taken before its order was sent.
TradeIsLogged ==
    \A s \in Ids(openPositions) \cup Stored \cup ledgerOpen \cup Closed \cup brokerOpen :
        signals[s] \notin {"none", "rejected"}

\* In a book that was always traded through the broker, no closing order ever
\* opens an unrelated position (execution/base.py, closes_position_id).
NoStray == brokerStray = {}

\* Between two polls the memory, the table and the ledger tell one story: the
\* trades opened and not closed, each closed at most once.
Mirror ==
    pc = "idle" =>
        /\ Ids(openPositions) = Stored
        /\ Stored = ledgerOpen \ Closed
        /\ \A s \in Signal : ledgerClose[s] <= 1
        /\ \A s \in Closed : signals[s] \in {"win", "loss", "timeout"}

\* Between two polls the equity the risk gate sizes from is the initial equity
\* plus everything the ledger says was realised.
EquityMatchesLedger == pc = "idle" => equity = InitialEquity + ledgerPnl

\* Every position open at the broker has a row that this session, or the next one,
\* manages it by; only the one whose fill is being recorded has none yet.
NoOrphan == brokerOpen \subseteq Stored \cup {pending}

\* A trade whose time stop has passed while the process runs is closed, or the
\* process ends first (strategy_authoring_guide.md, time_stop).
TimeStopCloses ==
    \A s \in Signal :
        (pc = "idle" /\ s \in Ids(openPositions) /\ TimeStop > 0 /\ barsLeft[s] = 0)
            ~> (s \in Closed \/ ~Running)

\* The durable stores read as a book of trades: crashes are invisible in it.
BookOfTrades ==
    [s \in Signal |-> IF s \in Stored THEN "open"
                      ELSE IF s \in Closed THEN "closed" ELSE "none"]

Book == INSTANCE TradeBook WITH Trade <- Signal, Limit <- MaxConcurrent, book <- BookOfTrades

\* The table and the ledger together implement the book of trades: nothing is
\* dropped before its close is booked, and nothing closed comes back.
ImplementsTradeBook == Book!Spec

=============================================================================
