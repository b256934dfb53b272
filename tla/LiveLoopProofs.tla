--------------------------- MODULE LiveLoopProofs ---------------------------
(***************************************************************************)
(* What LiveLoop's invariants rest on, for every set of signals, every     *)
(* bound and every combination of faults and modes; and what it keeps when *)
(* a book of trades is only ever traded in one way: through the broker, no *)
(* close goes astray; with simulated fills, the stores implement TradeBook *)
(* under every crash and interruption.  Last, what holds as long as less   *)
(* goes wrong: that nothing is left at the broker without a row, that the  *)
(* equity is what was realised, that memory, table and ledger agree.       *)
(***************************************************************************)
EXTENDS LiveLoop, FiniteSetTheorems, SequenceTheorems, TLAPS

\* The rows of the open-position table are finitely many.
LEMMA StoredFinite ==
    /\ Stored \subseteq Signal
    /\ IsFiniteSet(Stored)
    /\ Cardinality(Stored) \in Nat
<1>1. Stored \subseteq Signal
  BY DEF Stored
<1>2. IsFiniteSet(Stored)
  BY <1>1, SignalAssumption, FS_Subset
<1> QED
  BY <1>1, <1>2, FS_CardinalityType

\* A restart reloads a list of positions from the table.
LEMMA ReloadType ==
    ASSUME TypeOK, NEW order \in Bijection(1..Cardinality(Stored), Stored)
    PROVE  [i \in 1..Cardinality(Stored) |-> Reloaded(order[i])] \in Seq(Position)
<1>1. order \in [1..Cardinality(Stored) -> Stored]
  BY DEF Bijection, Injection, Surjection
<1>2. \A s \in Stored : Reloaded(s) \in Position
  BY DEF Reloaded, Position, TypeOK, Stored, StopClocks
<1>3. \A i \in 1..Cardinality(Stored) : Reloaded(order[i]) \in Position
  BY <1>1, <1>2
<1> QED
  BY <1>3, StoredFinite, IsASeq

\* The position a poll is at has its type.
LEMMA CurrentType ==
    ASSUME TypeOK, cursor <= Len(openPositions)
    PROVE  /\ Current \in Position
           /\ cursor \in DOMAIN openPositions
  BY DEF TypeOK, Current

\* Within a poll, the local variables point at what the step works on.
LocalsOK ==
    /\ pc \in {"book_close", "resolve", "delete"} => cursor <= Len(openPositions)
    /\ pc \in {"submit", "save", "book_open"} => pending \in Signal

\* Every step keeps the types.
LEMMA TypeStep == TypeOK /\ LocalsOK /\ [Next]_vars => TypeOK'
<1> SUFFICES ASSUME TypeOK, LocalsOK, [Next]_vars PROVE TypeOK'
  OBVIOUS
<1> USE PnlAssumption, LimitAssumption, ModeAssumption, FaultAssumption
<1> USE DEF memory, session, walk, fill, stores, ledger, broker
<1>0. CASE UNCHANGED vars
  BY <1>0 DEF TypeOK, vars
<1>1. CASE Start
  <2>1. openPositions' \in Seq(Position)
    BY <1>1, ReloadType DEF Start
  <2> QED
    BY <1>1, <2>1 DEF TypeOK, Start, Steps
<1>2. CASE Crash \/ Exit
  <2>1. End
    BY <1>2 DEF Crash, Exit
  <2> QED
    BY <2>1 DEF TypeOK, End, Steps, Tickets
<1>3. CASE Interrupt
  BY <1>3 DEF TypeOK, Interrupt
<1>4. CASE CloseNext
  BY <1>4 DEF TypeOK, CloseNext
<1>5. CASE PollStart
  BY <1>5 DEF TypeOK, PollStart, Ticked, Steps
<1>6. CASE BarWithoutPoll
  BY <1>6 DEF TypeOK, BarWithoutPoll, Ticked
<1>7. CASE CloseAtTerminal
  BY <1>7 DEF TypeOK, CloseAtTerminal
<1>8. CASE Hold
  <2>1. Current \in Position
    BY <1>8, CurrentType DEF Hold
  <2>2. CASE Usable("positions")
    <3>1. SaveRow(Current) \in [Signal -> Tickets \cup {"absent"}]
      BY <2>1 DEF TypeOK, SaveRow, Position
    <3>2. Append(stillOpen, Current) \in Seq(Position) /\ cursor + 1 \in Nat \ {0}
      BY <2>1 DEF TypeOK
    <3>3. /\ rows' = SaveRow(Current)
          /\ stillOpen' = Append(stillOpen, Current)
          /\ cursor' = cursor + 1
          /\ UNCHANGED <<pc, session, openPositions, fill, equity, closing, barsLeft,
                         signals, ledger, broker>>
      BY <1>8, <2>2 DEF Hold
    <3> QED
      BY <3>1, <3>2, <3>3 DEF TypeOK
  <2>3. CASE ~Usable("positions")
    BY <1>8, <2>3 DEF TypeOK, Hold, Raise, EndPoll, Steps, Tickets
  <2> QED
    BY <2>2, <2>3
<1>9. CASE CompareNaive
  BY <1>9 DEF TypeOK, CompareNaive, Raise, EndPoll, Steps, Tickets
<1>10. CASE SubmitClose
  <2>1. Current \in Position
    BY <1>10, CurrentType DEF SubmitClose
  <2>2. brokerOpen' \subseteq Signal /\ brokerStray' \subseteq Signal
    BY <1>10, <2>1 DEF TypeOK, SubmitClose, ClosesAtBroker, Position
  <2>3. pnl' \in Int /\ equity' \in Int
    BY <1>10 DEF TypeOK, SubmitClose, EquityAfter
  <2> QED
    BY <1>10, <2>2, <2>3 DEF TypeOK, SubmitClose, Steps, FirstRecorded
<1>11. CASE CloseFails
  <2>1. Current \in Position
    BY <1>11, CurrentType DEF CloseFails
  <2>2. brokerOpen' \subseteq Signal /\ brokerStray' \subseteq Signal
    BY <1>11, <2>1 DEF TypeOK, CloseFails, ClosesAtBroker, Position
  <2> QED
    BY <1>11, <2>2 DEF TypeOK, CloseFails, Raise, EndPoll, Steps, Tickets
<1>12. CASE BookClose
  <2>1. Current \in Position
    BY <1>12, CurrentType DEF BookClose, LocalsOK
  <2>2. CASE Usable("ledger")
    <3>a. /\ ledgerClose' = [ledgerClose EXCEPT ![Current.id] = @ + 1]
          /\ ledgerPnl' = ledgerPnl + pnl
      BY <1>12, <2>2 DEF BookClose
    <3>1. ledgerClose' \in [Signal -> Nat] /\ ledgerPnl' \in Int
      BY <2>1, <3>a DEF TypeOK, Position
    <3> QED
      BY <1>12, <2>2, <3>1 DEF TypeOK, BookClose, Steps
  <2>3. CASE ~Usable("ledger")
    BY <1>12, <2>3 DEF TypeOK, BookClose, Raise, EndPoll, Steps, Tickets
  <2> QED
    BY <2>2, <2>3
<1>13. CASE ResolveOutcome
  <2>1. CASE Usable("signals")
    <3>1. Outcome(pnl) \in {"none", "rejected", "open", "win", "loss", "timeout"}
      BY DEF Outcome
    <3> QED
      BY <1>13, <2>1, <3>1 DEF TypeOK, ResolveOutcome, Steps
  <2>2. CASE ~Usable("signals")
    BY <1>13, <2>2 DEF TypeOK, ResolveOutcome, Raise, EndPoll, Steps, Tickets
  <2> QED
    BY <2>1, <2>2
<1>14. CASE DeleteRow
  <2>1. CASE Usable("positions")
    BY <1>14, <2>1 DEF TypeOK, DeleteRow, Steps
  <2>2. CASE ~Usable("positions")
    BY <1>14, <2>2 DEF TypeOK, DeleteRow, Raise, EndPoll, Steps, Tickets
  <2> QED
    BY <2>1, <2>2
<1>15. CASE FinishManage
  BY <1>15 DEF TypeOK, FinishManage, KeptOpen, Steps
<1>16. CASE NoSignalThisBar
  BY <1>16 DEF TypeOK, NoSignalThisBar, EndPoll, Steps, Tickets
<1>17. CASE SignalRejected
  BY <1>17 DEF TypeOK, SignalRejected, EndPoll, Steps, Tickets
<1>18. CASE SignalTakenOnly
  BY <1>18 DEF TypeOK, SignalTakenOnly, PublishTaken, EndPoll, Steps, Tickets
<1>19. CASE SignalApproved
  BY <1>19 DEF TypeOK, SignalApproved, PublishTaken, Steps
<1>20. CASE SubmitOpen
  BY <1>20 DEF TypeOK, SubmitOpen, Steps, Tickets, LocalsOK
<1>21. CASE OpenFails
  BY <1>21 DEF TypeOK, OpenFails, Raise, EndPoll, Steps, Tickets, LocalsOK
<1>22. CASE SavePosition
  <2>1. Opened \in Position
    BY <1>22 DEF SavePosition, LocalsOK, TypeOK, Opened, Position, StopClocks
  <2>2. openPositions' \in Seq(Position)
    BY <1>22, <2>1 DEF TypeOK, SavePosition
  <2>3. CASE Usable("positions")
    <3>1. SaveRow(Opened) \in [Signal -> Tickets \cup {"absent"}]
      BY <2>1 DEF TypeOK, SaveRow, Position
    <3> QED
      BY <1>22, <2>2, <2>3, <3>1 DEF TypeOK, SavePosition, Steps
  <2>4. CASE ~Usable("positions")
    BY <1>22, <2>2, <2>4 DEF TypeOK, SavePosition, EndPoll, Steps, Tickets
  <2> QED
    BY <2>3, <2>4
<1>23. CASE BookOpen
  BY <1>23 DEF TypeOK, BookOpen, EndPoll, Steps, Tickets, LocalsOK
<1> QED
  BY <1>0, <1>1, <1>2, <1>3, <1>4, <1>5, <1>6, <1>7, <1>8, <1>9, <1>10, <1>11, <1>12,
     <1>13, <1>14, <1>15, <1>16, <1>17, <1>18, <1>19, <1>20, <1>21, <1>22, <1>23
  DEF Next, Process, Poll, Manage, Evaluate


\* Every step keeps the local variables right.
LEMMA LocalsStep == TypeOK /\ LocalsOK /\ [Next]_vars => LocalsOK'
<1> SUFFICES ASSUME TypeOK, LocalsOK, [Next]_vars PROVE LocalsOK'
  OBVIOUS
<1> USE DEF memory, session, walk, fill
<1>0. CASE UNCHANGED vars
  BY <1>0 DEF LocalsOK, vars
<1>1. CASE Process \/ PollStart \/ BarWithoutPoll \/ CloseAtTerminal
  BY <1>1 DEF Process, Start, Interrupt, CloseNext, Exit, Crash, End, PollStart,
     BarWithoutPoll, CloseAtTerminal, LocalsOK
<1>2. CASE Hold \/ CompareNaive \/ CloseFails
  BY <1>2 DEF Hold, CompareNaive, CloseFails, Raise, EndPoll, LocalsOK
<1>3. CASE SubmitClose
  BY <1>3 DEF SubmitClose, FirstRecorded, LocalsOK
<1>4. CASE BookClose
  BY <1>4 DEF BookClose, Raise, EndPoll, LocalsOK
<1>5. CASE ResolveOutcome
  BY <1>5 DEF ResolveOutcome, Raise, EndPoll, LocalsOK
<1>6. CASE DeleteRow
  BY <1>6 DEF DeleteRow, Raise, EndPoll, LocalsOK
<1>7. CASE FinishManage
  BY <1>7 DEF FinishManage, LocalsOK
<1>8. CASE NoSignalThisBar \/ SignalRejected \/ SignalTakenOnly
  BY <1>8 DEF NoSignalThisBar, SignalRejected, SignalTakenOnly, EndPoll, LocalsOK
<1>9. CASE SignalApproved
  BY <1>9 DEF SignalApproved, LocalsOK
<1>10. CASE SubmitOpen
  BY <1>10 DEF SubmitOpen, LocalsOK
<1>11. CASE OpenFails \/ BookOpen
  BY <1>11 DEF OpenFails, BookOpen, Raise, EndPoll, LocalsOK
<1>12. CASE SavePosition
  BY <1>12 DEF SavePosition, EndPoll, LocalsOK
<1> QED
  BY <1>0, <1>1, <1>2, <1>3, <1>4, <1>5, <1>6, <1>7, <1>8, <1>9, <1>10, <1>11, <1>12
  DEF Next, Process, Poll, Manage, Evaluate

\* The types, and the local variables of a poll, are right in every state.
THEOREM TypeCorrect == Spec => [](TypeOK /\ LocalsOK)
<1>1. Init => TypeOK /\ LocalsOK
  <2> SUFFICES ASSUME Init PROVE TypeOK /\ LocalsOK
    OBVIOUS
  <2>1. <<>> \in Seq(Position) /\ 0 \in 0..TimeStop /\ InitialEquity \in Int
    BY LimitAssumption, PnlAssumption
  <2>2. mode \in {"simulated", "mt5"}
    BY ModeAssumption DEF Init
  <2>3. /\ rows \in [Signal -> Tickets \cup {"absent"}]
        /\ signals \in [Signal -> {"none", "rejected", "open", "win", "loss", "timeout"}]
        /\ ledgerClose \in [Signal -> Nat]
        /\ barsLeft \in [Signal -> 0..TimeStop]
    BY <2>1 DEF Init
  <2>6. tradeable \in BOOLEAN
    BY Zenon DEF Init
  <2>4. /\ pc \in Steps /\ closing \in 0..5
        /\ ticket \in Tickets /\ cursor \in Nat \ {0} /\ pnl \in Int
    BY DEF Init, Steps, Tickets
  <2>5. LocalsOK
    BY DEF Init, LocalsOK
  <2> QED
    BY <2>1, <2>2, <2>3, <2>4, <2>5, <2>6 DEF Init, TypeOK
<1>2. (TypeOK /\ LocalsOK) /\ [Next]_vars => (TypeOK /\ LocalsOK)'
  BY TypeStep, LocalsStep
<1> QED
  BY <1>1, <1>2, PTL DEF Spec

-----------------------------------------------------------------------------
(* The ledger, the table and the labels *)

\* What the order of the writes establishes on the way: a close is booked before
\* the label and the delete, a position is saved before its open row.
LedgerInv ==
    /\ pc \in {"resolve", "delete"} => Current.id \in Closed
    /\ pc = "book_open" => pending \in Stored
    /\ NothingForgotten
    /\ OutcomeHasClose

\* Every step keeps it.
LEMMA LedgerStep ==
    TypeOK /\ LocalsOK /\ LedgerInv /\ [Next]_vars => LedgerInv'
<1> SUFFICES ASSUME TypeOK, LocalsOK, LedgerInv, [Next]_vars PROVE LedgerInv'
  OBVIOUS
<1> USE DEF memory, session, walk, fill, stores, ledger, LedgerInv, NothingForgotten,
            OutcomeHasClose, Stored, Closed, Current
<1>0. CASE UNCHANGED vars
  BY <1>0 DEF vars
<1>1. CASE Process \/ PollStart \/ BarWithoutPoll \/ CloseAtTerminal
  BY <1>1 DEF Process, Start, Interrupt, CloseNext, Exit, Crash, End, PollStart,
     BarWithoutPoll, CloseAtTerminal
<1>2. CASE Hold
  <2>1. Current \in Position
    BY <1>2, CurrentType DEF Hold
  <2>2. Stored \subseteq Stored'
    BY <1>2, <2>1 DEF Hold, SaveRow, Position, Tickets, TypeOK, Raise
  <2> QED
    BY <1>2, <2>2 DEF Hold, Raise, EndPoll
<1>3. CASE CompareNaive \/ CloseFails
  BY <1>3 DEF CompareNaive, CloseFails, Raise, EndPoll
<1>4. CASE SubmitClose
  BY <1>4 DEF SubmitClose, FirstRecorded
<1>5. CASE BookClose
  <2>1. Current \in Position
    BY <1>5, CurrentType DEF BookClose, LocalsOK
  <2>2. CASE Usable("ledger")
    <3>1. ledgerClose' = [ledgerClose EXCEPT ![Current.id] = @ + 1]
      BY <1>5, <2>2 DEF BookClose
    <3>2. /\ ledgerClose' \in [Signal -> Nat]
          /\ \A s \in Signal : ledgerClose'[s] >= ledgerClose[s]
          /\ ledgerClose'[Current.id] > 0
          /\ Current.id \in Signal
      BY <2>1, <3>1 DEF TypeOK, Position
    <3>3. UNCHANGED <<openPositions, cursor, rows, signals, ledgerOpen>> /\ pc' = "resolve"
      BY <1>5, <2>2 DEF BookClose
    <3>4. Closed \subseteq Closed' /\ Current.id \in Closed'
      BY <3>2 DEF TypeOK
    <3>5. Current' = Current /\ Stored' = Stored
      BY <3>3
    <3> QED
      BY <3>3, <3>4, <3>5 DEF TypeOK
  <2>3. CASE ~Usable("ledger")
    BY <1>5, <2>3 DEF BookClose, Raise, EndPoll
  <2> QED
    BY <2>2, <2>3
<1>6. CASE ResolveOutcome
  <2>1. Current \in Position
    BY <1>6, CurrentType DEF ResolveOutcome, LocalsOK
  <2> QED
    BY <1>6, <2>1 DEF ResolveOutcome, Raise, EndPoll, TypeOK, Position
<1>7. CASE DeleteRow
  <2>1. Current \in Position
    BY <1>7, CurrentType DEF DeleteRow, LocalsOK
  <2>2. CASE Usable("positions")
    <3>1. Stored \ {Current.id} \subseteq Stored'
      BY <1>7, <2>1, <2>2 DEF DeleteRow, TypeOK, Position
    <3>2. Current.id \in Closed
      BY <1>7 DEF DeleteRow
    <3>3. UNCHANGED <<signals, ledgerOpen, ledgerClose>> /\ pc' = "manage"
      BY <1>7, <2>2 DEF DeleteRow
    <3> QED
      BY <3>1, <3>2, <3>3 DEF TypeOK
  <2>3. CASE ~Usable("positions")
    BY <1>7, <2>3 DEF DeleteRow, Raise, EndPoll
  <2> QED
    BY <2>2, <2>3
<1>8. CASE FinishManage
  BY <1>8 DEF FinishManage
<1>9. CASE NoSignalThisBar \/ SignalRejected \/ SignalTakenOnly \/ SignalApproved
  BY <1>9 DEF NoSignalThisBar, SignalRejected, SignalTakenOnly, SignalApproved, Fresh,
     PublishTaken, EndPoll, TypeOK
<1>10. CASE SubmitOpen \/ OpenFails
  BY <1>10 DEF SubmitOpen, OpenFails, Raise, EndPoll
<1>11. CASE SavePosition
  <2>1. Usable("positions") => pending \in Stored' /\ Stored \subseteq Stored'
    BY <1>11 DEF SavePosition, SaveRow, Opened, LocalsOK, TypeOK, Tickets
  <2> QED
    BY <1>11, <2>1 DEF SavePosition, EndPoll
<1>12. CASE BookOpen
  BY <1>12 DEF BookOpen, EndPoll
<1> QED
  BY <1>0, <1>1, <1>2, <1>3, <1>4, <1>5, <1>6, <1>7, <1>8, <1>9, <1>10, <1>11, <1>12
  DEF Next, Process, Poll, Manage, Evaluate

\* It holds in every state.
LEMMA LedgerInvariant == Spec => []LedgerInv
<1>1. Init => LedgerInv
  BY DEF Init, LedgerInv, NothingForgotten, OutcomeHasClose
<1>2. (TypeOK /\ LocalsOK) /\ LedgerInv /\ [Next]_vars => LedgerInv'
  BY LedgerStep
<1> QED
  BY <1>1, <1>2, TypeCorrect, PTL DEF Spec

\* NothingForgotten holds in every state: the restart safety net, whatever fails.
THEOREM LedgerSafe == Spec => []NothingForgotten
<1>1. LedgerInv => NothingForgotten
  BY DEF LedgerInv
<1> QED
  BY <1>1, LedgerInvariant, PTL

\* OutcomeHasClose holds in every state: no label without its result, whatever fails.
THEOREM LabelsAreEarned == Spec => []OutcomeHasClose
<1>1. LedgerInv => OutcomeHasClose
  BY DEF LedgerInv
<1> QED
  BY <1>1, LedgerInvariant, PTL

-----------------------------------------------------------------------------
(* Every trade comes from a logged, taken evaluation *)

Taken == {s \in Signal : signals[s] \notin {"none", "rejected"}}

\* Also the trade being opened, and those a poll has decided to keep.
LoggedInv ==
    /\ pc \in {"submit", "save", "book_open"} => pending \in Taken
    /\ \A i \in DOMAIN openPositions : openPositions[i].id \in Taken
    /\ \A i \in DOMAIN stillOpen : stillOpen[i].id \in Taken
    /\ Stored \subseteq Taken
    /\ ledgerOpen \subseteq Taken
    /\ Closed \subseteq Taken
    /\ brokerOpen \subseteq Taken

\* A step that leaves the signals alone, or logs one more, keeps what was taken.
LEMMA TakenGrows ==
    ASSUME TypeOK, LocalsOK, [Next]_vars
    PROVE  Taken \subseteq Taken'
<1>1. CASE UNCHANGED signals
  BY <1>1 DEF Taken
<1>2. CASE ResolveOutcome
  BY <1>2 DEF ResolveOutcome, Outcome, Raise, TypeOK, Taken
<1>3. CASE SignalRejected \/ SignalTakenOnly \/ SignalApproved
  BY <1>3 DEF SignalRejected, SignalTakenOnly, SignalApproved, PublishTaken, Fresh,
     TypeOK, Taken
<1> QED
  BY <1>1, <1>2, <1>3 DEF Next, Process, Poll, Manage, Evaluate, vars, stores, memory,
     Start, Interrupt, CloseNext, Exit, Crash, End, PollStart, BarWithoutPoll,
     CloseAtTerminal, Hold, CompareNaive, SubmitClose, CloseFails, BookClose, DeleteRow,
     FinishManage, NoSignalThisBar, SubmitOpen, OpenFails, SavePosition, BookOpen

\* Every step keeps it.
LEMMA LoggedStep ==
    TypeOK /\ LocalsOK /\ LoggedInv /\ [Next]_vars => LoggedInv'
<1> SUFFICES ASSUME TypeOK, LocalsOK, LoggedInv, [Next]_vars PROVE LoggedInv'
  OBVIOUS
<1>t. Taken \subseteq Taken'
  BY TakenGrows
<1> USE DEF memory, session, walk, fill, stores, ledger, broker, LoggedInv, Stored, Closed
<1>0. CASE UNCHANGED vars
  BY <1>0 DEF vars, Taken
<1>1. CASE Start
  <2>1. \A i \in DOMAIN openPositions' : openPositions'[i].id \in Stored
    BY <1>1 DEF Start, Reloaded, Bijection, Injection, Surjection
  <2> QED
    BY <1>1, <1>t, <2>1 DEF Start
<1>2. CASE Crash \/ Exit
  BY <1>2, <1>t DEF Crash, Exit, End
<1>3. CASE Interrupt \/ CloseNext \/ PollStart \/ BarWithoutPoll \/ CloseAtTerminal
  BY <1>3, <1>t DEF Interrupt, CloseNext, PollStart, BarWithoutPoll, CloseAtTerminal
<1>4. CASE Hold
  <2>1. Current \in Position /\ Current.id \in Taken
    BY <1>4, CurrentType DEF Hold, Current
  <2>2. CASE Usable("positions")
    <3>1. /\ rows' = SaveRow(Current)
          /\ stillOpen' = Append(stillOpen, Current)
          /\ UNCHANGED <<pc, openPositions, pending, ledgerOpen, ledgerClose, brokerOpen>>
      BY <1>4, <2>2 DEF Hold
    <3>2. Stored' \subseteq Stored \cup {Current.id}
      BY <2>1, <3>1 DEF SaveRow, TypeOK, Position
    <3>3. \A i \in DOMAIN stillOpen' : stillOpen'[i].id \in Taken
      BY <2>1, <3>1 DEF TypeOK
    <3> QED
      BY <1>t, <2>1, <3>1, <3>2, <3>3
  <2>3. CASE ~Usable("positions")
    BY <1>4, <1>t, <2>3 DEF Hold, Raise, EndPoll
  <2> QED
    BY <2>2, <2>3
<1>5. CASE CompareNaive
  BY <1>5, <1>t DEF CompareNaive, Raise, EndPoll
<1>6. CASE SubmitClose
  BY <1>6, <1>t DEF SubmitClose, ClosesAtBroker, FirstRecorded
<1>7. CASE CloseFails
  BY <1>7, <1>t DEF CloseFails, ClosesAtBroker, Raise, EndPoll
<1>8. CASE BookClose
  <2>1. Current \in Position /\ Current.id \in Taken
    BY <1>8, CurrentType DEF BookClose, LocalsOK, Current
  <2>2. Closed' \subseteq Closed \cup {Current.id}
    BY <1>8, <2>1 DEF BookClose, Raise, TypeOK, Position
  <2> QED
    BY <1>8, <1>t, <2>1, <2>2 DEF BookClose, Raise, EndPoll
<1>9. CASE ResolveOutcome
  BY <1>9, <1>t DEF ResolveOutcome, Raise, EndPoll
<1>10. CASE DeleteRow
  <2>1. Current \in Position
    BY <1>10, CurrentType DEF DeleteRow, LocalsOK
  <2>2. Stored' \subseteq Stored
    BY <1>10, <2>1 DEF DeleteRow, Raise, TypeOK, Position
  <2> QED
    BY <1>10, <1>t, <2>2 DEF DeleteRow, Raise, EndPoll
<1>11. CASE FinishManage
  BY <1>11, <1>t DEF FinishManage, KeptOpen
<1>12. CASE NoSignalThisBar \/ SignalRejected \/ SignalTakenOnly
  BY <1>12, <1>t DEF NoSignalThisBar, SignalRejected, SignalTakenOnly, EndPoll
<1>13. CASE SignalApproved
  <2>1. pending' \in Taken'
    BY <1>13 DEF SignalApproved, PublishTaken, Taken, TypeOK
  <2> QED
    BY <1>13, <1>t, <2>1 DEF SignalApproved
<1>14. CASE SubmitOpen
  BY <1>14, <1>t DEF SubmitOpen
<1>15. CASE OpenFails
  BY <1>15, <1>t DEF OpenFails, Raise, EndPoll
<1>16. CASE SavePosition
  <2>1. /\ Opened \in Position /\ Opened.id = pending
        /\ pending \in Taken
    BY <1>16 DEF SavePosition, LocalsOK, TypeOK, Opened, Position, StopClocks
  <2>2. \A i \in DOMAIN openPositions' : openPositions'[i].id \in Taken
    BY <1>16, <2>1 DEF SavePosition, TypeOK
  <2>3. Stored' \subseteq Stored \cup {pending}
    BY <1>16, <2>1 DEF SavePosition, SaveRow, TypeOK, Position
  <2> QED
    BY <1>16, <1>t, <2>1, <2>2, <2>3 DEF SavePosition, EndPoll
<1>17. CASE BookOpen
  BY <1>17, <1>t DEF BookOpen, EndPoll
<1> QED
  BY <1>0, <1>1, <1>2, <1>3, <1>4, <1>5, <1>6, <1>7, <1>8, <1>9, <1>10, <1>11, <1>12,
     <1>13, <1>14, <1>15, <1>16, <1>17
  DEF Next, Process, Poll, Manage, Evaluate

\* TradeIsLogged holds in every state: no order is sent, and nothing is stored or
\* booked, for an evaluation that was not first logged as taken.
THEOREM Logged == Spec => []TradeIsLogged
<1>1. Init => LoggedInv
  BY DEF Init, LoggedInv, Stored, Closed
<1>2. (TypeOK /\ LocalsOK) /\ LoggedInv /\ [Next]_vars => LoggedInv'
  BY LoggedStep
<1>3. LoggedInv => TradeIsLogged
  BY DEF LoggedInv, TradeIsLogged, Ids, Taken
<1> QED
  BY <1>1, <1>2, <1>3, TypeCorrect, PTL DEF Spec

-----------------------------------------------------------------------------
(* The limit on open trades survives restarts *)

\* Trades that are all named in a list are no more than the list is long.
LEMMA ListedBound ==
    ASSUME NEW q \in Seq(Position), NEW S,
           \A s \in S : \E i \in 1..Len(q) : q[i].id = s
    PROVE  Cardinality(S) <= Len(q)
<1> DEFINE I == {i \in 1..Len(q) : q[i].id \in S}
           f == [i \in I |-> q[i].id]
<1>1. Len(q) \in Nat
  OBVIOUS
<1>2. IsFiniteSet(1..Len(q)) /\ Cardinality(1..Len(q)) = Len(q)
  BY <1>1, FS_Interval
<1>3. IsFiniteSet(I) /\ Cardinality(I) <= Len(q) /\ Cardinality(I) \in Nat
  BY <1>2, FS_Subset, FS_CardinalityType
<1>4. f \in Surjection(I, S)
  BY DEF Surjection
<1>5. Cardinality(S) <= Cardinality(I) /\ IsFiniteSet(S)
  BY <1>3, <1>4, FS_Surjection
<1>6. Cardinality(S) \in Nat
  BY <1>5, FS_CardinalityType
<1> QED
  BY <1>1, <1>3, <1>5, <1>6

\* The trades a poll still has to look at, and those it has decided to keep.
Awaited == {openPositions[i].id : i \in {j \in DOMAIN openPositions : j >= cursor}}

\* Every row belongs to one of them, so the list replacing openPositions at the
\* end of the walk is complete, and no longer than the walk.
CoverInv ==
    /\ pc # "down" => Stored \subseteq Ids(stillOpen) \cup Awaited
    /\ Ids(stillOpen) \subseteq Ids(openPositions)
    /\ Len(stillOpen) < cursor
    /\ cursor <= Len(openPositions) + 1
    /\ pc \notin {"manage", "book_close", "resolve", "delete"} => cursor = 1 /\ stillOpen = <<>>

LimitInv ==
    /\ CoverInv
    /\ pc \in {"submit", "save"} => Len(openPositions) < MaxConcurrent
    /\ RestartWithinLimit

\* While the process runs, the length of its list bounds the table.
LEMMA CoverBound ==
    ASSUME TypeOK, CoverInv, pc # "down"
    PROVE  Cardinality(Stored) <= Len(openPositions)
<1>1. Stored \subseteq Ids(openPositions)
  BY DEF CoverInv, Awaited, Ids
<1>2. openPositions \in Seq(Position) /\ DOMAIN openPositions = 1..Len(openPositions)
  BY DEF TypeOK
<1>3. \A s \in Stored : \E i \in 1..Len(openPositions) : openPositions[i].id = s
  BY <1>1, <1>2 DEF Ids
<1> QED
  BY <1>2, <1>3, ListedBound

\* A poll that returns or raises leaves the list as it was, and every row in it.
LEMMA EndKeepsCover ==
    ASSUME TypeOK, CoverInv, pc # "down", EndPoll, openPositions' = openPositions,
           Stored' \subseteq Stored
    PROVE  CoverInv'
<1>1. Stored \subseteq Ids(openPositions)
  BY DEF CoverInv, Awaited, Ids
<1>2. /\ cursor' = 1 /\ stillOpen' = <<>> /\ pc' = "idle"
  BY DEF EndPoll
<1>3. Awaited' = Ids(openPositions)
  BY <1>2 DEF Awaited, Ids, TypeOK
<1>4. Ids(stillOpen)' = {} /\ Len(stillOpen') = 0
  BY <1>2 DEF Ids
<1> QED
  BY <1>1, <1>2, <1>3, <1>4 DEF CoverInv, TypeOK

\* So does a step that leaves the rows, the list and the walk alone.
LEMMA SameWalk ==
    ASSUME CoverInv, pc # "down",
           UNCHANGED <<rows, openPositions, cursor, stillOpen>>,
           pc' \in {"manage", "book_close", "resolve", "delete"}
    PROVE  CoverInv'
  BY DEF CoverInv, Stored, Ids, Awaited

\* Every step of the walk keeps every row covered.
LEMMA CoverStep ==
    TypeOK /\ LocalsOK /\ CoverInv /\ [Next]_vars => CoverInv'
<1> SUFFICES ASSUME TypeOK, LocalsOK, CoverInv, [Next]_vars PROVE CoverInv'
  OBVIOUS
<1> USE DEF memory, session, walk, fill, stores, ledger
<1>0. CASE UNCHANGED vars
  BY <1>0 DEF vars, CoverInv, Stored, Ids, Awaited
<1>1. CASE Start
  <2>1. PICK order \in Bijection(1..Cardinality(Stored), Stored) :
            openPositions' = [i \in 1..Cardinality(Stored) |-> Reloaded(order[i])]
    BY <1>1 DEF Start
  <2>2. /\ pc = "down" /\ cursor' = 1 /\ stillOpen' = <<>> /\ rows' = rows /\ pc' = "idle"
    BY <1>1 DEF Start, CoverInv
  <2>3. \A s \in Stored : \E i \in 1..Cardinality(Stored) : order[i] = s
    BY <2>1 DEF Bijection, Surjection
  <2>4. \A s \in Stored : \E i \in 1..Cardinality(Stored) : openPositions'[i].id = s
    BY <2>1, <2>3 DEF Reloaded
  <2>5. DOMAIN openPositions' = 1..Cardinality(Stored)
    BY <2>1
  <2>6. Stored \subseteq Awaited'
    BY <2>2, <2>4, <2>5, StoredFinite DEF Awaited
  <2>7. /\ Len(openPositions') \in Nat
        /\ Len(stillOpen') = 0 /\ Ids(stillOpen)' = {}
    <3>1. openPositions' \in Seq(Position)
      BY <2>1, ReloadType
    <3>2. Len(openPositions') \in Nat
      BY <3>1
    <3> QED
      BY <2>2, <3>2 DEF Ids
  <2>8. Stored' = Stored
    BY <2>2 DEF Stored
  <2> QED
    BY <2>2, <2>6, <2>7, <2>8 DEF CoverInv
<1>2. CASE Crash \/ Exit
  BY <1>2 DEF Crash, Exit, End, CoverInv, Ids
<1>3. CASE Interrupt \/ CloseNext \/ PollStart \/ BarWithoutPoll \/ CloseAtTerminal
  BY <1>3 DEF Interrupt, CloseNext, PollStart, BarWithoutPoll, CloseAtTerminal,
     CoverInv, Ids, Awaited, Stored
<1>4. CASE Hold
  <2>1. Current \in Position /\ cursor \in DOMAIN openPositions
    BY <1>4, CurrentType DEF Hold
  <2>2. CASE Usable("positions")
    <3>1. /\ rows' = SaveRow(Current)
          /\ stillOpen' = Append(stillOpen, Current)
          /\ cursor' = cursor + 1
          /\ UNCHANGED <<pc, openPositions>>
          /\ pc = "manage" /\ cursor <= Len(openPositions)
      BY <1>4, <2>2 DEF Hold
    <3>2. Stored' \subseteq Stored \cup {Current.id}
      BY <2>1, <3>1 DEF SaveRow, TypeOK, Position, Stored
    <3>3. /\ Len(stillOpen') = Len(stillOpen) + 1
          /\ Ids(stillOpen)' = Ids(stillOpen) \cup {Current.id}
      <4> DEFINE n == Len(stillOpen)
      <4>1. /\ n \in Nat /\ DOMAIN stillOpen = 1..n
            /\ Len(stillOpen') = n + 1 /\ DOMAIN stillOpen' = 1..(n + 1)
            /\ \A i \in 1..n : stillOpen'[i] = stillOpen[i]
            /\ stillOpen'[n + 1] = Current
        BY <2>1, <3>1 DEF TypeOK
      <4> HIDE DEF n
      <4>2. \A i \in 1..(n + 1) : i \in 1..n \/ i = n + 1
        BY <4>1
      <4>3. 1..n \subseteq 1..(n + 1) /\ n + 1 \in 1..(n + 1)
        BY <4>1
      <4> QED
        BY <4>1, <4>2, <4>3 DEF Ids, n
    <3>4. Awaited \subseteq Awaited' \cup {Current.id}
      BY <2>1, <3>1 DEF Awaited, Current, TypeOK
    <3>5. Current.id \in Ids(openPositions)
      BY <2>1 DEF Ids, Current
    <3>6. Ids(openPositions)' = Ids(openPositions)
      BY <3>1 DEF Ids
    <3> QED
      BY <3>1, <3>2, <3>3, <3>4, <3>5, <3>6 DEF CoverInv, TypeOK
  <2>3. CASE ~Usable("positions")
    BY <1>4, <2>3, EndKeepsCover DEF Hold, Raise, Stored
  <2> QED
    BY <2>2, <2>3
<1>5. CASE CompareNaive \/ CloseFails
  BY <1>5, EndKeepsCover DEF CompareNaive, CloseFails, Raise, Stored
<1>6. CASE SubmitClose
  BY <1>6 DEF SubmitClose, FirstRecorded, CoverInv, Stored, Ids, Awaited
<1>7. CASE BookClose
  <2>1. CASE Usable("ledger")
    BY <1>7, <2>1, SameWalk DEF BookClose
  <2>2. CASE ~Usable("ledger")
    BY <1>7, <2>2, EndKeepsCover DEF BookClose, Raise, Stored
  <2> QED
    BY <2>1, <2>2
<1>8. CASE ResolveOutcome
  <2>1. CASE Usable("signals")
    BY <1>8, <2>1, SameWalk DEF ResolveOutcome
  <2>2. CASE ~Usable("signals")
    BY <1>8, <2>2, EndKeepsCover DEF ResolveOutcome, Raise, Stored
  <2> QED
    BY <2>1, <2>2
<1>9. CASE DeleteRow
  <2>1. Current \in Position /\ cursor \in DOMAIN openPositions
    BY <1>9, CurrentType DEF DeleteRow, LocalsOK
  <2>2. CASE Usable("positions")
    <3>1. /\ rows' = [rows EXCEPT ![Current.id] = "absent"]
          /\ cursor' = cursor + 1 /\ pc' = "manage" /\ pc = "delete"
          /\ UNCHANGED <<openPositions, stillOpen>>
      BY <1>9, <2>2 DEF DeleteRow
    <3>2. Stored' = Stored \ {Current.id}
      BY <2>1, <3>1 DEF TypeOK, Position, Stored
    <3>3. Awaited \subseteq Awaited' \cup {Current.id}
      BY <2>1, <3>1 DEF Awaited, Current, TypeOK
    <3>4. Ids(openPositions)' = Ids(openPositions) /\ Ids(stillOpen)' = Ids(stillOpen)
      BY <3>1 DEF Ids
    <3>5. cursor <= Len(openPositions)
      BY <2>1 DEF TypeOK
    <3> QED
      BY <3>1, <3>2, <3>3, <3>4, <3>5 DEF CoverInv, TypeOK
  <2>3. CASE ~Usable("positions")
    BY <1>9, <2>3, EndKeepsCover DEF DeleteRow, Raise, Stored
  <2> QED
    BY <2>2, <2>3
<1>10. CASE FinishManage
  <2>1. /\ openPositions' = stillOpen /\ cursor' = 1 /\ stillOpen' = <<>>
        /\ pc' = "evaluate" /\ rows' = rows /\ cursor > Len(openPositions)
        /\ pc = "manage"
    BY <1>10 DEF FinishManage, KeptOpen
  <2>2. Awaited = {}
    BY <2>1 DEF Awaited, TypeOK
  <2>3. Awaited' = Ids(stillOpen)
    BY <2>1 DEF Awaited, Ids, TypeOK
  <2>4. Ids(stillOpen)' = {} /\ Len(stillOpen') = 0 /\ Len(stillOpen) \in Nat
    BY <2>1 DEF Ids, TypeOK
  <2>5. Stored' = Stored
    BY <2>1 DEF Stored
  <2> QED
    BY <2>1, <2>2, <2>3, <2>4, <2>5 DEF CoverInv
<1>11. CASE NoSignalThisBar \/ SignalRejected \/ SignalTakenOnly \/ OpenFails \/ BookOpen
  <2>1. pc # "down" /\ EndPoll /\ openPositions' = openPositions /\ Stored' = Stored
    BY <1>11 DEF NoSignalThisBar, SignalRejected, SignalTakenOnly, OpenFails, BookOpen,
       Raise, Stored
  <2> QED
    BY <2>1, EndKeepsCover
<1>12. CASE SignalApproved
  BY <1>12 DEF SignalApproved, CoverInv, Stored, Ids, Awaited
<1>13. CASE SubmitOpen
  BY <1>13 DEF SubmitOpen, CoverInv, Stored, Ids, Awaited
<1>14. CASE SavePosition
  <2>1. /\ Opened \in Position /\ Opened.id = pending
        /\ openPositions' = Append(openPositions, Opened)
        /\ pc = "save" /\ pc' # "down"
    BY <1>14 DEF SavePosition, LocalsOK, TypeOK, Opened, Position, StopClocks, EndPoll
  <2>2. Stored' \subseteq Stored \cup {pending}
    BY <1>14, <2>1 DEF SavePosition, SaveRow, TypeOK, Position, Stored
  <2>3. cursor' = 1 /\ stillOpen' = <<>> /\ cursor = 1 /\ stillOpen = <<>>
    BY <1>14 DEF SavePosition, EndPoll, CoverInv
  <2>4. Awaited \cup {pending} \subseteq Awaited'
    <3>1. Awaited \subseteq Awaited'
      BY <2>1, <2>3 DEF Awaited, TypeOK
    <3>2. /\ Len(openPositions) + 1 \in DOMAIN openPositions'
          /\ openPositions'[Len(openPositions) + 1] = Opened
          /\ Len(openPositions) + 1 >= cursor'
      BY <2>1, <2>3 DEF TypeOK
    <3> QED
      BY <2>1, <3>1, <3>2 DEF Awaited
  <2>5. Ids(stillOpen) = {} /\ Ids(stillOpen)' = {} /\ Len(stillOpen') = 0
    BY <2>3 DEF Ids
  <2>6. Len(openPositions') \in Nat
    BY <2>1 DEF TypeOK
  <2>7. pc' \notin {"manage", "book_close", "resolve", "delete"}
    BY <1>14 DEF SavePosition, EndPoll
  <2> QED
    BY <2>1, <2>2, <2>3, <2>4, <2>5, <2>6, <2>7 DEF CoverInv
<1> QED
  BY <1>0, <1>1, <1>2, <1>3, <1>4, <1>5, <1>6, <1>7, <1>8, <1>9, <1>10, <1>11, <1>12,
     <1>13, <1>14
  DEF Next, Process, Poll, Manage, Evaluate


\* Every step keeps the limit.
LEMMA LimitStep ==
    TypeOK /\ LocalsOK /\ LimitInv /\ [Next]_vars /\ TypeOK' => LimitInv'
<1> SUFFICES ASSUME TypeOK, LocalsOK, LimitInv, [Next]_vars, TypeOK' PROVE LimitInv'
  OBVIOUS
<1> USE DEF memory, session, walk, fill, stores, ledger
<1>1. CoverInv'
  BY CoverStep DEF LimitInv
<1>2. pc' # "down" => Cardinality(Stored') <= Len(openPositions')
  <2> SUFFICES ASSUME pc' # "down" PROVE Cardinality(Stored') <= Len(openPositions')
    OBVIOUS
  <2>1. Stored' \subseteq Ids(openPositions)'
    BY <1>1 DEF CoverInv, Awaited, Ids
  <2>2. /\ openPositions' \in Seq(Position)
        /\ DOMAIN openPositions' = 1..Len(openPositions')
    BY DEF TypeOK
  <2>3. \A s \in Stored' : \E i \in 1..Len(openPositions') : openPositions'[i].id = s
    BY <2>1, <2>2 DEF Ids
  <2> QED
    BY <2>2, <2>3, ListedBound
<1>3. pc' = "down" => Stored' = Stored
  BY DEF Next, Process, Poll, Manage, Evaluate, vars, Start, Interrupt, CloseNext, Exit,
     Crash, End, PollStart, BarWithoutPoll, CloseAtTerminal, Hold, CompareNaive,
     SubmitClose, FirstRecorded, CloseFails, BookClose, ResolveOutcome, DeleteRow,
     FinishManage, NoSignalThisBar, SignalRejected, SignalTakenOnly, SignalApproved,
     SubmitOpen, OpenFails, SavePosition, BookOpen, Raise, EndPoll, Stored
<1>4. /\ Cardinality(Stored) <= MaxConcurrent /\ Len(openPositions) <= MaxConcurrent
      /\ Len(openPositions) \in Nat /\ Len(stillOpen) \in Nat /\ cursor \in Nat
      /\ MaxConcurrent \in Nat
  <2>1. Cardinality(Stored) <= MaxConcurrent /\ Len(openPositions) <= MaxConcurrent
    BY DEF LimitInv, RestartWithinLimit
  <2>2. openPositions \in Seq(Position) /\ stillOpen \in Seq(Position) /\ cursor \in Nat
    BY DEF TypeOK
  <2>3. Len(openPositions) \in Nat /\ Len(stillOpen) \in Nat
    BY <2>2
  <2>4. MaxConcurrent \in Nat
    BY LimitAssumption
  <2> QED
    BY <2>1, <2>2, <2>3, <2>4
<1>5. /\ pc' \in {"submit", "save"} => Len(openPositions') < MaxConcurrent
      /\ Len(openPositions') <= MaxConcurrent
  <2>1. CASE Start
    <3>1. PICK n \in Nat : n = Cardinality(Stored) /\ DOMAIN openPositions' = 1..n
      BY <2>1, StoredFinite DEF Start
    <3>2. Len(openPositions') = n
      BY <3>1 DEF TypeOK
    <3> QED
      BY <2>1, <1>4, <3>1, <3>2 DEF Start
  <2>2. CASE Crash \/ Exit
    BY <2>2, <1>4 DEF Crash, Exit, End
  <2>3. CASE FinishManage
    <3>1. Len(stillOpen) < cursor /\ cursor <= Len(openPositions) + 1
      BY DEF LimitInv, CoverInv
    <3> QED
      BY <2>3, <1>4, <3>1 DEF FinishManage, KeptOpen
  <2>4. CASE SignalApproved
    BY <2>4, <1>4 DEF SignalApproved, HasRoom
  <2>5. CASE SubmitOpen
    BY <2>5, <1>4 DEF SubmitOpen, LimitInv
  <2>6. CASE SavePosition
    <3>1. Len(openPositions) < MaxConcurrent
      BY <2>6 DEF SavePosition, LimitInv
    <3>2. Len(openPositions') = Len(openPositions) + 1
      BY <2>6 DEF SavePosition, TypeOK
    <3> QED
      BY <2>6, <1>4, <3>1, <3>2 DEF SavePosition, EndPoll
  <2>7. CASE UNCHANGED <<openPositions, pc>>
    BY <2>7, <1>4 DEF LimitInv
  <2>8. CASE openPositions' = openPositions /\ pc' \notin {"submit", "save"}
    BY <2>8, <1>4
  <2> QED
    BY <2>1, <2>2, <2>3, <2>4, <2>5, <2>6, <2>7, <2>8
    DEF Next, Process, Poll, Manage, Evaluate, vars, Interrupt, CloseNext, PollStart,
       BarWithoutPoll, CloseAtTerminal, Hold, CompareNaive, SubmitClose, FirstRecorded,
       CloseFails, BookClose, ResolveOutcome, DeleteRow, NoSignalThisBar, SignalRejected,
       SignalTakenOnly, OpenFails, BookOpen, Raise, EndPoll
<1>6. Cardinality(Stored') <= MaxConcurrent
  <2>1. CASE pc' = "down"
    BY <2>1, <1>3, <1>4
  <2>2. CASE pc' # "down"
    <3>1. Len(openPositions') \in Nat
      BY DEF TypeOK
    <3>2. Stored' \subseteq Signal
      BY DEF Stored
    <3>3. Cardinality(Stored') \in Nat
      BY <3>2, SignalAssumption, FS_Subset, FS_CardinalityType
    <3> QED
      BY <2>2, <1>2, <1>4, <1>5, <3>1, <3>3
  <2> QED
    BY <2>1, <2>2
<1> QED
  BY <1>1, <1>5, <1>6 DEF LimitInv, RestartWithinLimit

\* The limit on memory and table together, and what keeps it.
LEMMA LimitInvariant == Spec => []LimitInv
<1>1. Init => LimitInv
  <2> SUFFICES ASSUME Init PROVE LimitInv
    OBVIOUS
  <2>1. Stored = {} /\ Ids(openPositions) = {} /\ Ids(stillOpen) = {}
    BY DEF Init, Stored, Ids
  <2>2. Cardinality(Stored) = 0
    BY <2>1, FS_EmptySet
  <2>3. Len(openPositions) = 0 /\ Len(stillOpen) = 0
    BY DEF Init
  <2> QED
    BY <2>1, <2>2, <2>3, LimitAssumption DEF Init, LimitInv, CoverInv, RestartWithinLimit
<1>2. TypeOK /\ LocalsOK /\ LimitInv /\ [Next]_vars /\ TypeOK' => LimitInv'
  BY LimitStep
<1> QED
  BY <1>1, <1>2, TypeCorrect, PTL DEF Spec

\* RestartWithinLimit holds in every state: no sequence of failures, restarts and
\* reloads makes the loop hold more trades than max_concurrent.
THEOREM Limit == Spec => []RestartWithinLimit
<1>1. LimitInv => RestartWithinLimit
  BY DEF LimitInv
<1> QED
  BY <1>1, LimitInvariant, PTL

-----------------------------------------------------------------------------
\* The positions of a list after an append: the new one, last, and the old ones.
LEMMA Appended ==
    ASSUME NEW q \in Seq(Position), NEW e \in Position
    PROVE  \A i \in DOMAIN Append(q, e) :
               \/ i = Len(q) + 1 /\ Append(q, e)[i] = e
               \/ i \in DOMAIN q /\ Append(q, e)[i] = q[i] /\ i < Len(q) + 1
OBVIOUS

-----------------------------------------------------------------------------
(* A book that is always traded through the broker *)

\* Every position then carries the ticket its close order names.
TicketInv ==
    /\ mode = "mt5"
    /\ \A i \in DOMAIN openPositions : openPositions[i].ticket = "broker"
    /\ \A i \in DOMAIN stillOpen : stillOpen[i].ticket = "broker"
    /\ \A s \in Stored : rows[s] = "broker"
    /\ pc = "save" => ticket = "broker"
    /\ brokerStray = {}

\* Every step of such a session keeps it.
LEMMA TicketStep ==
    ASSUME Modes = {"mt5"}, TypeOK, LocalsOK, TypeOK', TicketInv, [Next]_vars
    PROVE  TicketInv'
<1> USE DEF memory, session, walk, fill, stores, ledger, broker
<1>1. mode' = "mt5" /\ brokerStray' = {}
  <2>1. CASE Start
    BY <2>1 DEF Start, TicketInv
  <2>2. CASE SubmitClose \/ CloseFails
    <3>1. Current.ticket = "broker"
      BY <2>2, CurrentType DEF SubmitClose, CloseFails, Current, TicketInv
    <3> QED
      BY <2>2, <3>1 DEF SubmitClose, CloseFails, ClosesAtBroker, Raise, TicketInv
  <2>3. CASE UNCHANGED <<mode, brokerStray>>
    BY <2>3 DEF TicketInv
  <2> QED
    BY <2>1, <2>2, <2>3
    DEF Next, Process, Poll, Manage, Evaluate, vars, Interrupt, CloseNext, Exit, Crash,
        End, PollStart, BarWithoutPoll, CloseAtTerminal, Hold, CompareNaive, BookClose,
        ResolveOutcome, DeleteRow, FinishManage, NoSignalThisBar, SignalRejected,
        SignalTakenOnly, SignalApproved, SubmitOpen, OpenFails, SavePosition, BookOpen, Raise
<1>2. pc' = "save" => ticket' = "broker"
  BY DEF TicketInv, Next, Process, Poll, Manage, Evaluate, vars, Start, Interrupt, CloseNext,
     Exit, Crash, End, PollStart, BarWithoutPoll, CloseAtTerminal, Hold, CompareNaive,
     SubmitClose, FirstRecorded, CloseFails, BookClose, ResolveOutcome, DeleteRow,
     FinishManage, NoSignalThisBar, SignalRejected, SignalTakenOnly, SignalApproved,
     SubmitOpen, OpenFails, SavePosition, BookOpen, Raise, EndPoll
<1>3. \A s \in Stored' : rows'[s] = "broker"
  <2>1. CASE UNCHANGED rows
    BY <2>1 DEF TicketInv, Stored
  <2>2. CASE Hold
    <3>1. Current.ticket = "broker" /\ Current \in Position
      BY <2>2, CurrentType DEF Hold, Current, TicketInv
    <3>2. rows' = rows \/ rows' = [rows EXCEPT ![Current.id] = "broker"]
      BY <2>2, <3>1 DEF Hold, SaveRow
    <3> QED
      BY <3>2 DEF Stored, TicketInv, TypeOK
  <2>3. CASE DeleteRow
    BY <2>3 DEF DeleteRow, Stored, TicketInv, TypeOK
  <2>4. CASE SavePosition
    <3>1. Opened.ticket = "broker" /\ Opened.id \in Signal
      BY <2>4 DEF SavePosition, Opened, LocalsOK, TicketInv
    <3>2. rows' = rows \/ rows' = [rows EXCEPT ![Opened.id] = "broker"]
      BY <2>4, <3>1 DEF SavePosition, SaveRow
    <3> QED
      BY <3>2 DEF Stored, TicketInv, TypeOK
  <2> QED
    BY <2>1, <2>2, <2>3, <2>4
    DEF Next, Process, Poll, Manage, Evaluate, vars, Start, Interrupt, CloseNext, Exit,
        Crash, End, PollStart, BarWithoutPoll, CloseAtTerminal, CompareNaive, SubmitClose,
        CloseFails, BookClose, ResolveOutcome, FinishManage, NoSignalThisBar,
        SignalRejected, SignalTakenOnly, SignalApproved, SubmitOpen, OpenFails, BookOpen, Raise
<1>4. /\ \A i \in DOMAIN openPositions' : openPositions'[i].ticket = "broker"
      /\ \A i \in DOMAIN stillOpen' : stillOpen'[i].ticket = "broker"
  <2>1. CASE Start
    <3>1. PICK order \in Bijection(1..Cardinality(Stored), Stored) :
              openPositions' = [i \in 1..Cardinality(Stored) |-> Reloaded(order[i])]
      BY <2>1 DEF Start
    <3>2. \A i \in DOMAIN openPositions' : openPositions'[i].ticket = "broker"
      BY <3>1 DEF Bijection, Injection, Surjection, Reloaded, TicketInv
    <3> QED
      BY <2>1, <3>2 DEF Start, TicketInv
  <2>2. CASE openPositions' = <<>> /\ stillOpen' = <<>>
    BY <2>2
  <2>3. CASE Hold /\ Usable("positions")
    <3>1. Current.ticket = "broker" /\ Current \in Position
      BY <2>3, CurrentType DEF Hold, Current, TicketInv
    <3>2. stillOpen' = Append(stillOpen, Current) /\ openPositions' = openPositions
      BY <2>3 DEF Hold
    <3>3. \A i \in DOMAIN stillOpen' :
              \/ i = Len(stillOpen) + 1 /\ stillOpen'[i] = Current
              \/ i \in DOMAIN stillOpen /\ stillOpen'[i] = stillOpen[i]
      BY <3>1, <3>2, Appended DEF TypeOK
    <3> QED
      BY <3>1, <3>2, <3>3 DEF TicketInv
  <2>4. CASE FinishManage
    BY <2>4 DEF FinishManage, KeptOpen, TicketInv
  <2>5. CASE SavePosition
    <3>1. Opened.ticket = "broker" /\ Opened \in Position
      BY <2>5 DEF SavePosition, Opened, Position, StopClocks, LocalsOK, TypeOK, TicketInv
    <3>2. openPositions' = Append(openPositions, Opened)
      BY <2>5 DEF SavePosition
    <3>3. \A i \in DOMAIN openPositions' :
              \/ i = Len(openPositions) + 1 /\ openPositions'[i] = Opened
              \/ i \in DOMAIN openPositions /\ openPositions'[i] = openPositions[i]
      BY <3>1, <3>2, Appended DEF TypeOK
    <3>4. stillOpen' = stillOpen \/ stillOpen' = <<>>
      BY <2>5 DEF SavePosition, EndPoll
    <3> QED
      BY <3>1, <3>3, <3>4 DEF TicketInv
  <2>6. CASE openPositions' = openPositions /\ (stillOpen' = stillOpen \/ stillOpen' = <<>>)
    BY <2>6 DEF TicketInv
  <2> QED
    BY <2>1, <2>2, <2>3, <2>4, <2>5, <2>6
    DEF Next, Process, Poll, Manage, Evaluate, vars, Interrupt, CloseNext, Exit, Crash,
        End, PollStart, BarWithoutPoll, CloseAtTerminal, Hold, CompareNaive, SubmitClose,
        CloseFails, BookClose, ResolveOutcome, DeleteRow, NoSignalThisBar, SignalRejected,
        SignalTakenOnly, SignalApproved, SubmitOpen, OpenFails, BookOpen, Raise, EndPoll
<1> QED
  BY <1>1, <1>2, <1>3, <1>4 DEF TicketInv

\* It holds in every state of such a book.
LEMMA TicketInvariant == Modes = {"mt5"} => (Spec => []TicketInv)
<1> SUFFICES ASSUME Modes = {"mt5"} PROVE Spec => []TicketInv
  OBVIOUS
<1>1. Init => TicketInv
  BY DEF Init, TicketInv, Stored
<1>2. (TypeOK /\ LocalsOK) /\ (TypeOK /\ LocalsOK)' /\ TicketInv /\ [Next]_vars => TicketInv'
  BY TicketStep
<1> QED
  BY <1>1, <1>2, TypeCorrect, PTL DEF Spec

\* NoStray holds of a book that is always traded through the broker, whatever order
\* is refused or lost and wherever the process dies: a close order names its position.
THEOREM Straight == Modes = {"mt5"} => (Spec => []NoStray)
<1>1. TicketInv => NoStray
  BY DEF TicketInv, NoStray
<1> QED
  BY <1>1, TicketInvariant, PTL

-----------------------------------------------------------------------------
(* A book that is always traded with simulated fills *)

\* Reloaded positions come first: a pass that stops at one of them has closed none
\* of the positions opened since.
ReloadedFirst ==
    \A i, j \in DOMAIN openPositions :
        i < j /\ openPositions[j].clock = "naive" => openPositions[i].clock = "naive"

Distinct(list) == \A i, j \in DOMAIN list : list[i].id = list[j].id => i = j

\* A position the walk has yet to look at has its row; or it was closed by an earlier
\* pass that stopped at a reloaded position, and as a reloaded position itself it
\* can be closed again but not held.
AwaitedKnown ==
    \A i \in DOMAIN openPositions :
        i >= cursor => \/ openPositions[i].id \in Stored
                       \/ openPositions[i].clock = "naive" /\ openPositions[i].id \in Closed

\* One it has looked at is kept, with its row, or its close is booked.
WalkedKnown ==
    /\ \A i \in DOMAIN openPositions :
          i < cursor => openPositions[i].id \in Stored \cup Closed
    /\ \A i \in DOMAIN stillOpen :
          /\ stillOpen[i].id \in Stored
          /\ stillOpen[i].clock # "naive"
          /\ \E j \in DOMAIN openPositions : j < cursor /\ openPositions[j].id = stillOpen[i].id

BookInv ==
    /\ mode = "simulated"
    /\ ReloadedFirst
    /\ Distinct(openPositions) /\ Distinct(stillOpen)
    /\ (pc = "idle" => closing = 0) => AwaitedKnown
    /\ WalkedKnown
    /\ pc \in {"resolve", "delete"} => Current.id \in Closed
    /\ pc \in {"submit", "save"} => pending \notin Stored \cup Closed \cup Ids(openPositions)


\* A poll that ends leaves the list as it is; the next one starts over.
LEMMA EndKeepsBook ==
    ASSUME TypeOK, BookInv, EndPoll,
           UNCHANGED <<mode, openPositions, closing, rows, ledgerClose>>,
           closing = 0 => \A i \in DOMAIN openPositions :
                              \/ openPositions[i].id \in Stored
                              \/ openPositions[i].clock = "naive" /\ openPositions[i].id \in Closed
    PROVE  BookInv'
<1>1. Stored' = Stored /\ Closed' = Closed
  BY DEF Stored, Closed
<1>2. pc' = "idle" /\ cursor' = 1 /\ stillOpen' = <<>>
  BY DEF EndPoll
<1>3. (pc' = "idle" => closing' = 0) => AwaitedKnown'
  BY <1>1, <1>2 DEF AwaitedKnown
<1>4. WalkedKnown' /\ Distinct(stillOpen)'
  <2>1. \A i \in DOMAIN openPositions' : ~(i < cursor')
    BY <1>2 DEF TypeOK
  <2>2. DOMAIN stillOpen' = {}
    BY <1>2
  <2> QED
    BY <2>1, <2>2 DEF WalkedKnown, Distinct
<1>5. ReloadedFirst' /\ Distinct(openPositions)'
  BY DEF BookInv, ReloadedFirst, Distinct
<1> QED
  BY <1>2, <1>3, <1>4, <1>5 DEF BookInv

\* A closed store means that the main thread is shutting down: no further poll starts.
LEMMA UnusableIsClosing ==
    ASSUME TypeOK, NEW r, ~Usable(r)
    PROVE  closing # 0
  BY DEF TypeOK, Usable

\* After the walk every position of the list has its row.
LEMMA ListIsStored ==
    ASSUME TypeOK, CoverInv, BookInv, pc \in {"evaluate", "submit", "save", "book_open"}
    PROVE  /\ \A i \in DOMAIN openPositions :
                 \/ openPositions[i].id \in Stored
                 \/ openPositions[i].clock = "naive" /\ openPositions[i].id \in Closed
           /\ stillOpen = <<>> /\ cursor = 1
<1>1. stillOpen = <<>> /\ cursor = 1
  BY DEF CoverInv
<1>2. \A i \in DOMAIN openPositions : i >= cursor
  BY <1>1 DEF TypeOK
<1> QED
  BY <1>1, <1>2 DEF BookInv, AwaitedKnown

\* A step of the poll that leaves the list, the walk, the rows and the closes alone.
LEMMA SameBook ==
    ASSUME BookInv, pc = "idle" /\ closing # 0 => pc' = "idle" /\ closing' # 0,
           UNCHANGED <<mode, openPositions, cursor, stillOpen, rows, ledgerClose>>,
           pc' = "delete" => pc \in {"resolve", "delete"},
           pc' = "resolve" => pc = "resolve",
           pc' = "save" => pc \in {"submit", "save"} /\ pending' = pending,
           pc' = "submit" => \/ pc = "submit" /\ pending' = pending
                             \/ pending' \notin Stored \cup Closed \cup Ids(openPositions)
    PROVE  BookInv'
<1>1. Stored' = Stored /\ Closed' = Closed /\ Current' = Current
      /\ Ids(openPositions)' = Ids(openPositions)
  BY DEF Stored, Closed, Current, Ids
<1>2. AwaitedKnown => AwaitedKnown'
  BY <1>1 DEF AwaitedKnown
<1>3. WalkedKnown' /\ ReloadedFirst' /\ Distinct(openPositions)' /\ Distinct(stillOpen)'
  BY <1>1 DEF BookInv, WalkedKnown, ReloadedFirst, Distinct
<1>4. (pc' = "idle" => closing' = 0) => AwaitedKnown'
  BY <1>2 DEF BookInv
<1> QED
  BY <1>1, <1>3, <1>4 DEF BookInv

\* Every step of a simulated session keeps it.
LEMMA BookStep ==
    ASSUME Modes = {"simulated"}, TypeOK, LocalsOK, TypeOK', CoverInv, TradeIsLogged,
           BookInv, [Next]_vars
    PROVE  BookInv'
<1> USE DEF memory, session, walk, fill, stores, ledger
<1>0. CASE UNCHANGED vars
  BY <1>0, SameBook DEF vars
<1>1. CASE Start
  <2>1. PICK order \in Bijection(1..Cardinality(Stored), Stored) :
            openPositions' = [i \in 1..Cardinality(Stored) |-> Reloaded(order[i])]
    BY <1>1 DEF Start
  <2>2. /\ mode' = "simulated" /\ pc' = "idle" /\ pc = "down"
        /\ UNCHANGED <<cursor, stillOpen, closing, rows, ledgerClose>>
    BY <1>1 DEF Start
  <2>3. cursor = 1 /\ stillOpen = <<>>
    BY <2>2 DEF CoverInv
  <2>4. Stored' = Stored /\ Closed' = Closed
    BY <2>2 DEF Stored, Closed
  <2>5. \A i \in DOMAIN openPositions' :
            /\ openPositions'[i] = Reloaded(order[i])
            /\ order[i] \in Stored
            /\ i \in 1..Cardinality(Stored)
    BY <2>1 DEF Bijection, Injection, Surjection
  <2>6. ReloadedFirst'
    BY <2>5 DEF ReloadedFirst, Reloaded
  <2>7. Distinct(openPositions)'
    BY <2>1, <2>5 DEF Distinct, Reloaded, Bijection, Injection, IsInjective
  <2>8. Distinct(stillOpen)' /\ WalkedKnown'
    <3>1. \A i \in DOMAIN openPositions' : ~(i < cursor')
      BY <2>2, <2>3, <2>5, StoredFinite
    <3>2. DOMAIN stillOpen' = {}
      BY <2>2, <2>3
    <3> QED
      BY <3>1, <3>2 DEF Distinct, WalkedKnown
  <2>9. AwaitedKnown'
    BY <2>4, <2>5 DEF AwaitedKnown, Reloaded
  <2> QED
    BY <2>2, <2>6, <2>7, <2>8, <2>9 DEF BookInv
<1>2. CASE Crash \/ Exit
  <2>1. /\ pc' = "down" /\ mode' = mode /\ openPositions' = <<>> /\ stillOpen' = <<>>
    BY <1>2 DEF Crash, Exit, End
  <2>2. DOMAIN openPositions' = {} /\ DOMAIN stillOpen' = {}
    BY <2>1
  <2> QED
    BY <2>1, <2>2 DEF BookInv, ReloadedFirst, Distinct, AwaitedKnown, WalkedKnown
<1>3. CASE Interrupt \/ CloseNext
  <2>1. /\ closing' # 0
        /\ UNCHANGED <<pc, mode, openPositions, cursor, stillOpen, rows, ledgerClose, pending>>
    BY <1>3 DEF Interrupt, CloseNext
  <2> QED
    BY <2>1, SameBook
<1>4. CASE PollStart \/ BarWithoutPoll \/ CloseAtTerminal
  <2>1. /\ pc' = pc \/ (pc = "idle" /\ closing = 0 /\ pc' = "manage")
        /\ UNCHANGED <<closing, mode, openPositions, cursor, stillOpen, rows, ledgerClose, pending>>
    BY <1>4 DEF PollStart, BarWithoutPoll, CloseAtTerminal
  <2> QED
    BY <2>1, SameBook
<1>5. CASE Hold
  <2>1. /\ Current \in Position /\ cursor \in DOMAIN openPositions
        /\ Current = openPositions[cursor] /\ pc = "manage"
    BY <1>5, CurrentType DEF Hold, Current
  <2>2. CASE ~Usable("positions")
    BY <1>5, <2>2, EndKeepsBook, UnusableIsClosing DEF Hold, Raise
  <2>3. CASE Usable("positions")
    <3>1. /\ rows' = SaveRow(Current) /\ stillOpen' = Append(stillOpen, Current)
          /\ cursor' = cursor + 1
          /\ UNCHANGED <<pc, mode, openPositions, ledgerClose>>
      BY <1>5, <2>3 DEF Hold
    <3>2. Current.clock # "naive" /\ Current.id \in Stored
      BY <1>5, <2>1 DEF Hold, MayHold, BookInv, AwaitedKnown, TypeOK
    <3>3. Stored' = Stored /\ Closed' = Closed
      BY <2>1, <3>1, <3>2 DEF SaveRow, Stored, Closed, TypeOK, Position, Tickets
    <3>4. AwaitedKnown'
      BY <2>1, <3>1, <3>3 DEF BookInv, AwaitedKnown, TypeOK
    <3>5. \A i \in DOMAIN stillOpen' :
              \/ i = Len(stillOpen) + 1 /\ stillOpen'[i] = Current
              \/ i \in DOMAIN stillOpen /\ stillOpen'[i] = stillOpen[i]
      BY <2>1, <3>1, Appended DEF TypeOK
    <3>6. ASSUME NEW i \in DOMAIN stillOpen PROVE stillOpen[i].id # Current.id
      <4>1. PICK j \in DOMAIN openPositions :
                j < cursor /\ openPositions[j].id = stillOpen[i].id
        BY DEF BookInv, WalkedKnown
      <4>2. j # cursor
        BY <4>1 DEF TypeOK
      <4> QED
        BY <2>1, <4>1, <4>2 DEF BookInv, Distinct
    <3>7. Distinct(stillOpen)'
      BY <3>5, <3>6 DEF BookInv, Distinct
    <3>8. WalkedKnown'
      <4>1. \A i \in DOMAIN openPositions' : i < cursor' => openPositions'[i].id \in Stored' \cup Closed'
        BY <2>1, <3>1, <3>2, <3>3 DEF BookInv, WalkedKnown, TypeOK
      <4>2. ASSUME NEW i \in DOMAIN stillOpen'
            PROVE  /\ stillOpen'[i].id \in Stored' /\ stillOpen'[i].clock # "naive"
                   /\ \E j \in DOMAIN openPositions' :
                         j < cursor' /\ openPositions'[j].id = stillOpen'[i].id
        <5>1. CASE stillOpen'[i] = Current
          BY <2>1, <3>1, <3>2, <3>3, <5>1 DEF TypeOK
        <5>2. CASE i \in DOMAIN stillOpen /\ stillOpen'[i] = stillOpen[i]
          BY <3>1, <3>3, <5>2 DEF BookInv, WalkedKnown, TypeOK
        <5> QED
          BY <3>5, <5>1, <5>2
      <4> QED
        BY <4>1, <4>2 DEF WalkedKnown
    <3> QED
      BY <2>1, <3>1, <3>4, <3>7, <3>8 DEF BookInv, ReloadedFirst, Distinct
  <2> QED
    BY <2>2, <2>3
<1>6. CASE CompareNaive
  <2>1. /\ cursor \in DOMAIN openPositions /\ pc = "manage"
        /\ openPositions[cursor].clock = "naive"
    BY <1>6, CurrentType DEF CompareNaive, Current
  <2>2. \A i \in DOMAIN openPositions :
            \/ openPositions[i].id \in Stored
            \/ openPositions[i].clock = "naive" /\ openPositions[i].id \in Closed
    <3> SUFFICES ASSUME NEW i \in DOMAIN openPositions
                 PROVE  \/ openPositions[i].id \in Stored
                        \/ openPositions[i].clock = "naive" /\ openPositions[i].id \in Closed
      OBVIOUS
    <3>1. CASE i < cursor
      BY <2>1, <3>1 DEF BookInv, ReloadedFirst, WalkedKnown
    <3>2. CASE i >= cursor
      BY <2>1, <3>2 DEF BookInv, AwaitedKnown
    <3> QED
      BY <3>1, <3>2 DEF TypeOK
  <2> QED
    BY <1>6, <2>2, EndKeepsBook DEF CompareNaive, Raise
<1>7. CASE SubmitClose
  BY <1>7, SameBook DEF SubmitClose, FirstRecorded
<1>8. CASE CloseFails \/ OpenFails
  BY <1>8 DEF CloseFails, OpenFails, BookInv
<1>9. CASE BookClose
  <2>1. /\ Current \in Position /\ cursor \in DOMAIN openPositions
        /\ Current = openPositions[cursor] /\ pc = "book_close"
    BY <1>9, CurrentType DEF BookClose, LocalsOK, Current
  <2>2. CASE ~Usable("ledger")
    BY <1>9, <2>2, EndKeepsBook, UnusableIsClosing DEF BookClose, Raise
  <2>3. CASE Usable("ledger")
    <3>1. /\ ledgerClose' = [ledgerClose EXCEPT ![Current.id] = @ + 1] /\ pc' = "resolve"
          /\ UNCHANGED <<mode, openPositions, cursor, stillOpen, rows>>
      BY <1>9, <2>3 DEF BookClose
    <3>2. Closed \subseteq Closed' /\ Current.id \in Closed'
      BY <2>1, <3>1 DEF Closed, TypeOK, Position
    <3>3. Stored' = Stored /\ Current' = Current
      BY <3>1 DEF Stored, Current
    <3>4. AwaitedKnown'
      BY <2>1, <3>1, <3>2, <3>3 DEF BookInv, AwaitedKnown
    <3>5. WalkedKnown'
      BY <3>1, <3>2, <3>3 DEF BookInv, WalkedKnown
    <3> QED
      BY <3>1, <3>2, <3>3, <3>4, <3>5 DEF BookInv, ReloadedFirst, Distinct
  <2> QED
    BY <2>2, <2>3
<1>10. CASE ResolveOutcome
  <2>1. CASE ~Usable("signals")
    BY <1>10, <2>1, EndKeepsBook, UnusableIsClosing DEF ResolveOutcome, Raise
  <2>2. CASE Usable("signals")
    BY <1>10, <2>2, SameBook DEF ResolveOutcome
  <2> QED
    BY <2>1, <2>2
<1>11. CASE DeleteRow
  <2>1. /\ Current \in Position /\ cursor \in DOMAIN openPositions
        /\ Current = openPositions[cursor] /\ pc = "delete"
    BY <1>11, CurrentType DEF DeleteRow, LocalsOK, Current
  <2>2. CASE ~Usable("positions")
    BY <1>11, <2>2, EndKeepsBook, UnusableIsClosing DEF DeleteRow, Raise
  <2>3. CASE Usable("positions")
    <3>1. /\ rows' = [rows EXCEPT ![Current.id] = "absent"]
          /\ pc' = "manage" /\ cursor' = cursor + 1
          /\ UNCHANGED <<mode, openPositions, stillOpen, ledgerClose>>
      BY <1>11, <2>3 DEF DeleteRow
    <3>2. Stored' = Stored \ {Current.id} /\ Closed' = Closed /\ Current.id \in Closed
      BY <2>1, <3>1 DEF Stored, Closed, TypeOK, Position, BookInv
    <3>3. \A i \in DOMAIN openPositions : i # cursor => openPositions[i].id # Current.id
      BY <2>1 DEF BookInv, Distinct
    <3>4. AwaitedKnown'
      <4> SUFFICES ASSUME NEW i \in DOMAIN openPositions, i >= cursor + 1
                   PROVE  \/ openPositions[i].id \in Stored \ {Current.id}
                          \/ openPositions[i].clock = "naive" /\ openPositions[i].id \in Closed
        BY <3>1, <3>2 DEF AwaitedKnown
      <4>1. i >= cursor /\ i # cursor
        <5>1. cursor \in Nat /\ openPositions \in Seq(Position)
          BY DEF TypeOK
        <5>2. i \in Nat
          BY <5>1
        <5> QED
          BY <5>1, <5>2
      <4>2. \/ openPositions[i].id \in Stored
            \/ openPositions[i].clock = "naive" /\ openPositions[i].id \in Closed
        BY <2>1, <4>1 DEF BookInv, AwaitedKnown
      <4> QED
        BY <3>3, <4>1, <4>2
    <3>5. \A i \in DOMAIN stillOpen : stillOpen[i].id # Current.id
      BY <2>1, <3>3 DEF BookInv, WalkedKnown, TypeOK
    <3>6. WalkedKnown'
      <4>1. \A i \in DOMAIN openPositions' : i < cursor' => openPositions'[i].id \in Stored' \cup Closed'
        BY <2>1, <3>1, <3>2 DEF BookInv, WalkedKnown, TypeOK
      <4>2. ASSUME NEW i \in DOMAIN stillOpen
            PROVE  /\ stillOpen[i].id \in Stored' /\ stillOpen[i].clock # "naive"
                   /\ \E j \in DOMAIN openPositions :
                         j < cursor' /\ openPositions[j].id = stillOpen[i].id
        <5>1. stillOpen[i].id \in Stored /\ stillOpen[i].clock # "naive"
          BY DEF BookInv, WalkedKnown
        <5>2. PICK j \in DOMAIN openPositions :
                  j < cursor /\ openPositions[j].id = stillOpen[i].id
          BY DEF BookInv, WalkedKnown
        <5>3. j < cursor'
          BY <3>1, <5>2 DEF TypeOK
        <5> QED
          BY <3>2, <3>5, <5>1, <5>2, <5>3
      <4> QED
        BY <3>1, <4>1, <4>2 DEF WalkedKnown
    <3> QED
      BY <3>1, <3>4, <3>6 DEF BookInv, ReloadedFirst, Distinct
  <2> QED
    BY <2>2, <2>3
<1>12. CASE FinishManage
  <2>1. /\ openPositions' = stillOpen /\ stillOpen' = <<>> /\ cursor' = 1
        /\ pc' = "evaluate"
        /\ UNCHANGED <<mode, rows, ledgerClose>>
    BY <1>12 DEF FinishManage, KeptOpen
  <2>2. Stored' = Stored /\ DOMAIN stillOpen' = {}
    BY <2>1 DEF Stored
  <2>3. AwaitedKnown' /\ ReloadedFirst'
    BY <2>1, <2>2 DEF BookInv, WalkedKnown, AwaitedKnown, ReloadedFirst
  <2>4. \A i \in DOMAIN openPositions' : ~(i < cursor')
    BY <2>1 DEF TypeOK
  <2>5. WalkedKnown'
    BY <2>2, <2>4 DEF WalkedKnown
  <2> QED
    BY <2>1, <2>2, <2>3, <2>5 DEF BookInv, Distinct
<1>13. CASE NoSignalThisBar \/ SignalRejected \/ SignalTakenOnly \/ BookOpen
  <2>1. /\ pc \in {"evaluate", "book_open"} /\ EndPoll
        /\ UNCHANGED <<mode, openPositions, closing, rows, ledgerClose>>
    BY <1>13 DEF NoSignalThisBar, SignalRejected, SignalTakenOnly, BookOpen
  <2> QED
    BY <2>1, ListIsStored, EndKeepsBook
<1>14. CASE SignalApproved
  <2>1. /\ pc = "evaluate" /\ pc' = "submit" /\ signals[pending'] = "none"
        /\ UNCHANGED <<mode, openPositions, cursor, stillOpen, closing, rows, ledgerClose>>
    BY <1>14 DEF SignalApproved, Fresh
  <2>2. pending' \notin Stored \cup Closed \cup Ids(openPositions)
    BY <2>1 DEF TradeIsLogged
  <2> QED
    BY <2>1, <2>2, SameBook
<1>15. CASE SubmitOpen
  BY <1>15, SameBook DEF SubmitOpen
<1>16. CASE SavePosition
  <2>1. /\ Opened \in Position /\ Opened.id = pending /\ pending \in Signal
        /\ Opened.clock # "naive"
        /\ openPositions' = Append(openPositions, Opened)
        /\ pc = "save" /\ UNCHANGED <<mode, ledgerClose, closing>>
    BY <1>16 DEF SavePosition, LocalsOK, TypeOK, Opened, Position, StopClocks
  <2>2. stillOpen = <<>> /\ cursor = 1 /\ stillOpen' = <<>> /\ cursor' = 1
    BY <1>16, <2>1, ListIsStored DEF SavePosition, EndPoll
  <2>3. \A i \in DOMAIN openPositions' :
            \/ i = Len(openPositions) + 1 /\ openPositions'[i] = Opened
            \/ i \in DOMAIN openPositions /\ openPositions'[i] = openPositions[i]
               /\ i < Len(openPositions) + 1
    BY <2>1, Appended DEF TypeOK
  <2>4. pending \notin Ids(openPositions)
    BY <2>1 DEF BookInv
  <2>5. Distinct(openPositions)'
    BY <2>1, <2>3, <2>4 DEF BookInv, Distinct, Ids
  <2>6. ReloadedFirst'
    <3> SUFFICES ASSUME NEW i \in DOMAIN openPositions', NEW j \in DOMAIN openPositions',
                        i < j, openPositions'[j].clock = "naive"
                 PROVE  openPositions'[i].clock = "naive"
      BY DEF ReloadedFirst
    <3>1. /\ j \in DOMAIN openPositions /\ openPositions'[j] = openPositions[j]
          /\ j < Len(openPositions) + 1
      BY <2>1, <2>3
    <3>2. i # Len(openPositions) + 1
      BY <3>1 DEF TypeOK
    <3>3. i \in DOMAIN openPositions /\ openPositions'[i] = openPositions[i]
      BY <2>3, <3>2
    <3> QED
      BY <3>1, <3>3 DEF BookInv, ReloadedFirst
  <2>7. WalkedKnown' /\ Distinct(stillOpen)'
    <3>1. \A i \in DOMAIN openPositions' : ~(i < cursor')
      BY <2>2 DEF TypeOK
    <3>2. DOMAIN stillOpen' = {}
      BY <2>2
    <3> QED
      BY <3>1, <3>2 DEF WalkedKnown, Distinct
  <2>8. CASE Usable("positions")
    <3>1. rows' = SaveRow(Opened) /\ pc' = "book_open"
      BY <1>16, <2>8 DEF SavePosition
    <3>2. Stored' = Stored \cup {pending} /\ Closed' = Closed
      BY <2>1, <3>1 DEF SaveRow, Stored, Closed, TypeOK, Position, Tickets
    <3>3. AwaitedKnown'
      BY <2>1, <2>3, <3>2, ListIsStored DEF AwaitedKnown
    <3> QED
      BY <2>1, <2>5, <2>6, <2>7, <3>1, <3>3 DEF BookInv
  <2>9. CASE ~Usable("positions")
    <3>1. pc' = "idle" /\ closing' # 0
      BY <1>16, <2>1, <2>9, UnusableIsClosing DEF SavePosition, EndPoll
    <3> QED
      BY <2>1, <2>5, <2>6, <2>7, <3>1 DEF BookInv
  <2> QED
    BY <2>8, <2>9
<1> QED
  BY <1>0, <1>1, <1>2, <1>3, <1>4, <1>5, <1>6, <1>7, <1>8, <1>9, <1>10, <1>11, <1>12,
     <1>13, <1>14, <1>15, <1>16
  DEF Next, Process, Poll, Manage, Evaluate

\* The invariant of a simulated book, with those it rests on.
LEMMA BookInvariant == Modes = {"simulated"} => (Spec => []BookInv)
<1> SUFFICES ASSUME Modes = {"simulated"} PROVE Spec => []BookInv
  OBVIOUS
<1>1. Init => BookInv
  BY DEF Init, BookInv, ReloadedFirst, Distinct, AwaitedKnown, WalkedKnown
<1>2. (TypeOK /\ LocalsOK) /\ (TypeOK /\ LocalsOK)' /\ LimitInv /\ TradeIsLogged
          /\ BookInv /\ [Next]_vars => BookInv'
  BY BookStep DEF LimitInv
<1> QED
  BY <1>1, <1>2, TypeCorrect, LimitInvariant, Logged, PTL DEF Spec

\* A step that books no close but of a trade that is stored or closed already, and
\* moves no row, is invisible in the book.
LEMMA Invisible ==
    ASSUME Stored' = Stored, \A s \in Signal : s \notin Stored => (s \in Closed' <=> s \in Closed)
    PROVE  BookOfTrades' = BookOfTrades
BY DEF BookOfTrades

\* A row appears for a trade that is neither stored nor closed.
LEMMA OpensTrade ==
    ASSUME TypeOK, NEW s \in Signal, s \notin Stored \cup Closed,
           Cardinality(Stored) < MaxConcurrent,
           Stored' = Stored \cup {s}, Closed' = Closed
    PROVE  Book!Next
<1>1. Book!OpenTrades = Stored
  BY StoredFinite DEF Book!OpenTrades, BookOfTrades
<1>2. BookOfTrades[s] = "none"
  BY DEF BookOfTrades
<1>3. BookOfTrades' = [BookOfTrades EXCEPT ![s] = "open"]
  BY DEF BookOfTrades
<1>4. Book!Cardinality(Book!OpenTrades) < MaxConcurrent
  BY <1>1 DEF Book!Cardinality, Cardinality
<1>5. Book!Open(s)
  BY <1>2, <1>3, <1>4 DEF Book!Open
<1> QED
  BY <1>5 DEF Book!Next

\* A row disappears once the close of its trade is booked.
LEMMA ClosesTrade ==
    ASSUME NEW s \in Signal, s \in Stored, s \in Closed,
           Stored' = Stored \ {s}, Closed' = Closed
    PROVE  Book!Next
<1>1. BookOfTrades[s] = "open"
  BY DEF BookOfTrades
<1>2. BookOfTrades' = [BookOfTrades EXCEPT ![s] = "closed"]
  BY DEF BookOfTrades
<1>3. Book!Close(s)
  BY <1>1, <1>2 DEF Book!Close
<1> QED
  BY <1>3 DEF Book!Next

\* Every step of a simulated session is a step of the book, or invisible in it.
LEMMA BookNext ==
    ASSUME TypeOK, LocalsOK, LimitInv, BookInv, [Next]_vars
    PROVE  [Book!Next]_BookOfTrades
<1> USE DEF memory, session, walk, fill, stores, ledger
<1>1. CASE UNCHANGED <<rows, ledgerClose>>
  <2>1. Stored' = Stored /\ Closed' = Closed
    BY <1>1 DEF Stored, Closed
  <2> QED
    BY <2>1, Invisible
<1>2. CASE Hold
  <2>1. /\ Current \in Position /\ cursor \in DOMAIN openPositions
        /\ Current = openPositions[cursor] /\ pc = "manage"
    BY <1>2, CurrentType DEF Hold, Current
  <2>2. Current.id \in Stored
    BY <1>2, <2>1 DEF Hold, MayHold, BookInv, AwaitedKnown, TypeOK
  <2>3. Stored' = Stored /\ Closed' = Closed
    BY <1>2, <2>1, <2>2 DEF Hold, SaveRow, Stored, Closed, TypeOK, Position, Tickets
  <2> QED
    BY <2>3, Invisible
<1>3. CASE BookClose
  <2>1. /\ Current \in Position /\ cursor \in DOMAIN openPositions
        /\ Current = openPositions[cursor] /\ pc = "book_close"
    BY <1>3, CurrentType DEF BookClose, LocalsOK, Current
  <2>2. Current.id \in Stored \cup Closed
    BY <2>1 DEF BookInv, AwaitedKnown, TypeOK
  <2>3. Stored' = Stored
    BY <1>3 DEF BookClose, Stored
  <2>4. \A s \in Signal : s # Current.id => (s \in Closed' <=> s \in Closed)
    BY <1>3, <2>1 DEF BookClose, Closed, TypeOK, Position
  <2>5. Current.id \in Closed => Current.id \in Closed'
    <3>1. /\ Current.id \in Signal /\ ledgerClose[Current.id] \in Nat
          /\ ledgerClose \in [Signal -> Nat]
      BY <2>1 DEF TypeOK, Position
    <3>2. \/ ledgerClose' = ledgerClose
          \/ ledgerClose' = [ledgerClose EXCEPT ![Current.id] = ledgerClose[Current.id] + 1]
      BY <1>3 DEF BookClose
    <3>3. ledgerClose'[Current.id] >= ledgerClose[Current.id]
      BY <3>1, <3>2
    <3> QED
      BY <3>1, <3>2, <3>3 DEF Closed
  <2> QED
    BY <2>2, <2>3, <2>4, <2>5, Invisible
<1>4. CASE DeleteRow
  <2>1. /\ Current \in Position /\ Current.id \in Signal /\ Current.id \in Closed
    BY <1>4, CurrentType DEF DeleteRow, LocalsOK, BookInv, Position
  <2>2. CASE Usable("positions") /\ Current.id \in Stored
    <3>1. Stored' = Stored \ {Current.id} /\ Closed' = Closed
      BY <1>4, <2>1, <2>2 DEF DeleteRow, Stored, Closed, TypeOK
    <3> QED
      BY <2>1, <2>2, <3>1, ClosesTrade
  <2>3. CASE ~(Usable("positions") /\ Current.id \in Stored)
    <3>1. Stored' = Stored /\ Closed' = Closed
      BY <1>4, <2>1, <2>3 DEF DeleteRow, Stored, Closed, TypeOK
    <3> QED
      BY <3>1, Invisible
  <2> QED
    BY <2>2, <2>3
<1>5. CASE SavePosition /\ Usable("positions")
  <2>1. /\ Opened.id = pending /\ pending \in Signal /\ Opened.ticket \in Tickets
        /\ pc = "save" /\ rows' = SaveRow(Opened) /\ ledgerClose' = ledgerClose
    BY <1>5 DEF SavePosition, LocalsOK, TypeOK, Opened
  <2>2. pending \notin Stored \cup Closed
    BY <2>1 DEF BookInv
  <2>3. Stored' = Stored \cup {pending} /\ Closed' = Closed
    BY <2>1 DEF SaveRow, Stored, Closed, TypeOK, Tickets
  <2>4. Cardinality(Stored) < MaxConcurrent
    <3>1. Cardinality(Stored) <= Len(openPositions)
      BY <2>1, CoverBound DEF LimitInv
    <3>2. Len(openPositions) < MaxConcurrent
      BY <2>1 DEF LimitInv
    <3>3. Cardinality(Stored) \in Nat /\ MaxConcurrent \in Nat /\ Len(openPositions) \in Nat
      BY StoredFinite, LimitAssumption DEF TypeOK
    <3> QED
      BY <3>1, <3>2, <3>3
  <2> QED
    BY <2>1, <2>2, <2>3, <2>4, OpensTrade
<1>6. CASE SavePosition /\ ~Usable("positions")
  BY <1>1, <1>6 DEF SavePosition
<1> QED
  BY <1>1, <1>2, <1>3, <1>4, <1>5, <1>6
  DEF Next, Process, Poll, Manage, Evaluate, vars, Start, Interrupt, CloseNext, Exit,
      Crash, End, PollStart, BarWithoutPoll, CloseAtTerminal, CompareNaive, SubmitClose,
      CloseFails, ResolveOutcome, FinishManage, NoSignalThisBar, SignalRejected,
      SignalTakenOnly, SignalApproved, SubmitOpen, OpenFails, BookOpen, Raise

\* With simulated fills the table and the ledger implement TradeBook: a trade is
\* opened once and within the limit, kept until its close is booked, and never comes
\* back, wherever the process dies, is interrupted or raises.
THEOREM Implements == Modes = {"simulated"} => (Spec => ImplementsTradeBook)
<1> SUFFICES ASSUME Modes = {"simulated"} PROVE Spec => ImplementsTradeBook
  OBVIOUS
<1>1. Init => Book!Init
  BY DEF Init, Book!Init, BookOfTrades, Stored, Closed
<1>2. (TypeOK /\ LocalsOK) /\ LimitInv /\ BookInv /\ [Next]_vars => [Book!Next]_BookOfTrades
  BY BookNext
<1>3. Spec => []BookInv
  BY BookInvariant
<1> QED
  BY <1>1, <1>2, <1>3, TypeCorrect, LimitInvariant, PTL DEF Spec, ImplementsTradeBook, Book!Spec

---------------------------------------------------------------------------
(* Ctrl+C between polls only *)

\* The main thread only closes the stores and the adapter when no poll runs.
Quiet == closing # 0 => pc = "idle"

LEMMA QuietStep ==
    ASSUME "interrupt" \notin Faults, TypeOK, Quiet, [Next]_vars
    PROVE  Quiet'
BY DEF Quiet, Next, Process, Poll, Manage, Evaluate, vars, Start, Interrupt, CloseNext, Exit,
   Crash, End, PollStart, BarWithoutPoll, CloseAtTerminal, Hold, CompareNaive, SubmitClose,
   CloseFails, BookClose, ResolveOutcome, DeleteRow, FinishManage, NoSignalThisBar,
   SignalRejected, SignalTakenOnly, SignalApproved, SubmitOpen, OpenFails, SavePosition,
   BookOpen, Raise, EndPoll, memory, session, walk, fill

\* A poll then finds everything it uses open.
LEMMA AllUsable ==
    ASSUME Quiet, pc # "idle"
    PROVE  \A r : Usable(r)
BY DEF Quiet, Usable

LEMMA AlwaysQuiet == "interrupt" \notin Faults => (Spec => []Quiet)
<1> SUFFICES ASSUME "interrupt" \notin Faults PROVE Spec => []Quiet
  OBVIOUS
<1>1. Init => Quiet
  BY DEF Init, Quiet
<1>2. (TypeOK /\ LocalsOK) /\ Quiet /\ [Next]_vars => Quiet'
  BY QuietStep
<1> QED
  BY <1>1, <1>2, TypeCorrect, PTL DEF Spec

-----------------------------------------------------------------------------
(* Every position at the broker has its row *)

\* Until the fill of an opening order is saved the broker is one position ahead;
\* while a close is being booked it is one position behind.
TrackedInv ==
    /\ brokerOpen \subseteq IF pc = "save" THEN Stored \cup {pending} ELSE Stored
    /\ pc \in {"book_close", "resolve", "delete"} => Current.id \notin brokerOpen

LEMMA TrackedStep ==
    ASSUME Faults \cap {"crash", "interrupt", "unack"} = {}, TypeOK, LocalsOK,
           Quiet, LedgerInv, TicketInv, TrackedInv, [Next]_vars
    PROVE  TrackedInv'
<1> USE DEF memory, session, walk, fill, stores, ledger, broker
<1>1. CASE UNCHANGED vars
  BY <1>1 DEF vars, TrackedInv, Stored, Current
<1>2. CASE Start \/ Exit \/ Crash
  BY <1>2 DEF Start, Exit, Crash, End, TrackedInv, Stored
<1>3. CASE Interrupt \/ CloseNext \/ PollStart \/ BarWithoutPoll
  BY <1>3 DEF Interrupt, CloseNext, PollStart, BarWithoutPoll, TrackedInv, Stored, Current
<1>4. CASE CloseAtTerminal
  BY <1>4 DEF CloseAtTerminal, TrackedInv, Stored, Current
<1>5. CASE Hold
  <2>1. Current \in Position /\ pc = "manage"
    BY <1>5, CurrentType DEF Hold
  <2>2. Stored \subseteq Stored'
    BY <1>5, <2>1 DEF Hold, SaveRow, Position, Tickets, TypeOK, Raise, Stored
  <2>3. pc' \in {"manage", "idle"} /\ brokerOpen' = brokerOpen
    BY <1>5 DEF Hold, Raise, EndPoll
  <2> QED
    BY <2>1, <2>2, <2>3 DEF TrackedInv
<1>6. CASE CompareNaive \/ NoSignalThisBar \/ SignalRejected \/ SignalTakenOnly \/ FinishManage
          \/ SignalApproved
  BY <1>6 DEF CompareNaive, NoSignalThisBar, SignalRejected, SignalTakenOnly, FinishManage,
     SignalApproved, Raise, EndPoll, TrackedInv, Stored
<1>7. CASE SubmitClose
  <2>1. Current.ticket = "broker"
    BY <1>7, CurrentType DEF SubmitClose, Current, TicketInv
  <2>2. brokerOpen' = brokerOpen \ {Current.id}
    BY <1>7, <2>1 DEF SubmitClose, ClosesAtBroker, TicketInv
  <2>3. UNCHANGED <<rows, openPositions, cursor>> /\ pc = "manage" /\ pc' = "book_close"
    BY <1>7 DEF SubmitClose, FirstRecorded
  <2> QED
    BY <2>2, <2>3 DEF TrackedInv, Stored, Current
<1>8. CASE CloseFails
  BY <1>8 DEF CloseFails, Raise, EndPoll, TrackedInv, Stored
<1>9. CASE BookClose \/ ResolveOutcome
  BY <1>9 DEF BookClose, ResolveOutcome, Raise, EndPoll, TrackedInv, Stored, Current
<1>10. CASE DeleteRow
  <2>1. Current \in Position /\ pc = "delete" /\ Current.id \notin brokerOpen
    BY <1>10, CurrentType DEF DeleteRow, LocalsOK, TrackedInv
  <2>2. Stored \ {Current.id} \subseteq Stored'
    BY <1>10, <2>1 DEF DeleteRow, Raise, TypeOK, Position, Stored
  <2>3. pc' \in {"manage", "idle"} /\ brokerOpen' = brokerOpen
    BY <1>10 DEF DeleteRow, Raise, EndPoll
  <2> QED
    BY <2>1, <2>2, <2>3 DEF TrackedInv
<1>11. CASE SubmitOpen
  BY <1>11 DEF SubmitOpen, TrackedInv, Stored
<1>12. CASE OpenFails
  BY <1>12 DEF OpenFails, Raise, EndPoll, TrackedInv, Stored
<1>13. CASE SavePosition
  <2>1. pc = "save" /\ Usable("positions")
    BY <1>13, AllUsable DEF SavePosition
  <2>2. pending \in Stored' /\ Stored \subseteq Stored'
    BY <1>13, <2>1 DEF SavePosition, SaveRow, Opened, LocalsOK, TypeOK, Tickets, Stored
  <2>3. pc' = "book_open" /\ brokerOpen' = brokerOpen
    BY <1>13, <2>1 DEF SavePosition
  <2> QED
    BY <2>1, <2>2, <2>3 DEF TrackedInv
<1>14. CASE BookOpen
  BY <1>14 DEF BookOpen, EndPoll, TrackedInv, Stored
<1> QED
  BY <1>1, <1>2, <1>3, <1>4, <1>5, <1>6, <1>7, <1>8, <1>9, <1>10, <1>11, <1>12, <1>13, <1>14
  DEF Next, Process, Poll, Manage, Evaluate

\* NoOrphan holds of a book traded through the broker when no poll is cut short and
\* every filled order is acknowledged, whatever is refused or closed by somebody else
\* and however often the process is stopped between polls and started again.
THEOREM NeverOrphaned ==
    Modes = {"mt5"} /\ Faults \cap {"crash", "interrupt", "unack"} = {} => (Spec => []NoOrphan)
<1> SUFFICES ASSUME Modes = {"mt5"}, Faults \cap {"crash", "interrupt", "unack"} = {}
             PROVE  Spec => []NoOrphan
  OBVIOUS
<1>1. Init => TrackedInv
  BY DEF Init, TrackedInv
<1>2. (TypeOK /\ LocalsOK) /\ Quiet /\ LedgerInv /\ TicketInv /\ TrackedInv /\ [Next]_vars
          => TrackedInv'
  BY TrackedStep
<1>3. TrackedInv => NoOrphan
  BY DEF TrackedInv, NoOrphan
<1>4. Spec => []Quiet
  BY AlwaysQuiet
<1> QED
  BY <1>1, <1>2, <1>3, <1>4, TypeCorrect, LedgerInvariant, TicketInvariant, PTL DEF Spec

-----------------------------------------------------------------------------
(* What is risked is sized from what was realised *)

\* Only between the fill of an exit order and its row is the equity ahead; nothing
\* was realised before the process started, and it does not start again.
EquityInv ==
    /\ closing = 0
    /\ pc = "down" => ledgerPnl = 0
    /\ equity = InitialEquity + ledgerPnl + (IF pc = "book_close" THEN pnl ELSE 0)

LEMMA EquityStep ==
    ASSUME Faults \cap {"crash", "interrupt", "stop"} = {}, TypeOK, EquityInv, [Next]_vars
    PROVE  EquityInv'
<1> USE DEF memory, session, walk, fill, stores, ledger
<1>i. equity \in Int /\ ledgerPnl \in Int /\ pnl \in Int /\ InitialEquity \in Int
  BY PnlAssumption DEF TypeOK
<1>c. closing = 0 /\ \A r : Usable(r)
  BY DEF EquityInv, Usable
<1>1. CASE Interrupt \/ CloseNext \/ Exit \/ Crash
  BY <1>1, <1>c DEF Interrupt, CloseNext, Exit, Crash
<1>2. CASE Start
  BY <1>2, <1>i DEF Start, EquityInv
<1>3. CASE SubmitClose
  <2>1. PICK r \in Pnl : pnl' = r /\ equity' = equity + r
    BY <1>3 DEF SubmitClose, EquityAfter
  <2>2. r \in Int
    BY PnlAssumption
  <2> QED
    BY <1>3, <1>i, <1>c, <2>1, <2>2 DEF SubmitClose, FirstRecorded, EquityInv
<1>4. CASE BookClose
  BY <1>4, <1>i, <1>c DEF BookClose, EquityInv
<1>5. CASE /\ UNCHANGED <<closing, equity, ledgerPnl>>
           /\ (pc' = pc /\ pnl' = pnl) \/ pc \notin {"down", "book_close"}
           /\ pc' \in {"down", "book_close"} => pc' = pc
  BY <1>5 DEF EquityInv
<1> QED
  BY <1>1, <1>2, <1>3, <1>4, <1>5
  DEF Next, Process, Poll, Manage, Evaluate, vars, PollStart, BarWithoutPoll,
      CloseAtTerminal, Hold, CompareNaive, CloseFails, ResolveOutcome, DeleteRow,
      FinishManage, NoSignalThisBar, SignalRejected, SignalTakenOnly, SignalApproved,
      SubmitOpen, OpenFails, SavePosition, BookOpen, Raise, EndPoll

\* EquityMatchesLedger holds of a process that is neither stopped nor killed, whatever
\* orders are refused, lost or filled behind its back.
THEOREM EquityIsRealised ==
    Faults \cap {"crash", "interrupt", "stop"} = {} => (Spec => []EquityMatchesLedger)
<1> SUFFICES ASSUME Faults \cap {"crash", "interrupt", "stop"} = {}
             PROVE  Spec => []EquityMatchesLedger
  OBVIOUS
<1>1. Init => EquityInv
  BY PnlAssumption DEF Init, EquityInv
<1>2. (TypeOK /\ LocalsOK) /\ EquityInv /\ [Next]_vars => EquityInv'
  BY EquityStep
<1>3. (TypeOK /\ LocalsOK) /\ EquityInv => EquityMatchesLedger
  BY PnlAssumption DEF EquityInv, EquityMatchesLedger, TypeOK
<1> QED
  BY <1>1, <1>2, <1>3, TypeCorrect, PTL DEF Spec
-----------------------------------------------------------------------------
(* A book in which nothing fails *)

\* Nothing fails, and the process only ends between polls; when it is started again
\* no position has a time stop that would be read back without its time zone.
NothingFails == Faults \subseteq {"stop"} /\ ("stop" \in Faults => TimeStop = 0)

\* No time stop was reloaded, and none can be.
NothingReloaded ==
    /\ TimeStop # 0 => closing = 0 /\ (pc = "down" => Stored = {})
    /\ \A i \in DOMAIN openPositions : openPositions[i].clock # "naive"
    /\ \A i \in DOMAIN stillOpen : stillOpen[i].clock # "naive"

\* The walk keeps positions it has looked at, each once.
Traced ==
    /\ Distinct(openPositions) /\ Distinct(stillOpen)
    /\ \A i \in DOMAIN stillOpen :
          \E j \in DOMAIN openPositions : j < cursor /\ openPositions[j].id = stillOpen[i].id

\* Every position the process holds has its row, with its ticket.
RowOfEach ==
    /\ \A i \in DOMAIN openPositions :
          i >= cursor => rows[openPositions[i].id] = openPositions[i].ticket
    /\ \A i \in DOMAIN stillOpen : rows[stillOpen[i].id] = stillOpen[i].ticket

Settling == pc \in {"book_close", "resolve", "delete"}

\* A ticket names an open position, until the close of that position is filled.
TicketIsOpen ==
    /\ \A s \in Stored : rows[s] = "broker" => s \in brokerOpen \/ (Settling /\ s = Current.id)
    /\ pc \notin {"save", "book_open"} => ticket = "paper"
    /\ pc = "save" /\ ticket = "broker" => pending \in brokerOpen

\* The trade being opened is new to the list, the table and the ledger.
NewTrade ==
    /\ pc \in {"submit", "save"} =>
           pending \notin Ids(openPositions) \cup Stored \cup Closed \cup ledgerOpen
    /\ pc = "book_open" => pending \notin Closed \cup ledgerOpen

CalmInv == NothingReloaded /\ Traced /\ RowOfEach /\ TicketIsOpen /\ NewTrade

\* What the rest of the project's invariants say of such a state.
Settled == TypeOK /\ LocalsOK /\ Quiet /\ LimitInv /\ LedgerInv /\ TradeIsLogged /\ CalmInv

LEMMA TimeFlows ==
    ASSUME NothingFails
    PROVE  TimeStop = 0 \/ Faults = {}
BY DEF NothingFails

\* The position a poll is at: stored, and no other position of the list or of
\* those kept is the same trade.
LEMMA CurrentIsHeld ==
    ASSUME Settled, cursor <= Len(openPositions)
    PROVE  /\ Current \in Position /\ Current.id \in Signal /\ Current = openPositions[cursor]
           /\ cursor \in DOMAIN openPositions
           /\ rows[Current.id] = Current.ticket /\ Current.id \in Stored
           /\ Current.clock # "naive"
           /\ \A i \in DOMAIN openPositions : i # cursor => openPositions[i].id # Current.id
           /\ \A i \in DOMAIN stillOpen : stillOpen[i].id # Current.id
<1>1. /\ Current \in Position /\ Current.id \in Signal /\ Current = openPositions[cursor]
      /\ cursor \in DOMAIN openPositions /\ cursor \in Nat
  BY CurrentType DEF Settled, Current, Position, TypeOK
<1>2. rows[Current.id] = Current.ticket /\ Current.id \in Stored
  BY <1>1 DEF Settled, CalmInv, RowOfEach, Position, Tickets, Stored
<1>3. \A i \in DOMAIN openPositions : i # cursor => openPositions[i].id # Current.id
  BY <1>1 DEF Settled, CalmInv, Traced, Distinct
<1>4. \A i \in DOMAIN stillOpen : stillOpen[i].id # Current.id
  <2> SUFFICES ASSUME NEW i \in DOMAIN stillOpen PROVE stillOpen[i].id # Current.id
    OBVIOUS
  <2>1. PICK j \in DOMAIN openPositions : j < cursor /\ openPositions[j].id = stillOpen[i].id
    BY DEF Settled, CalmInv, Traced
  <2>2. j # cursor
    BY <1>1, <2>1
  <2> QED
    BY <1>3, <2>1, <2>2
<1> QED
  BY <1>1, <1>2, <1>3, <1>4 DEF Settled, CalmInv, NothingReloaded

\* Nothing raises: the clocks compare, the broker accepts, the stores are open.
LEMMA NothingRaises ==
    ASSUME NothingFails, Settled
    PROVE  ~(CompareNaive \/ CloseFails \/ OpenFails \/ Crash \/ CloseAtTerminal)
<1>1. ~CompareNaive
  BY CurrentIsHeld DEF CompareNaive
<1>2. ~CloseFails
  <2> SUFFICES ASSUME CloseFails PROVE FALSE
    OBVIOUS
  <2>1. /\ pc = "manage" /\ cursor <= Len(openPositions)
        /\ ~Accepts(Current) \/ ~BrokerReachable
    BY DEF CloseFails, NothingFails
  <2>2. BrokerReachable
    BY <2>1, AllUsable DEF BrokerReachable, Settled
  <2>3. Current.ticket = "broker" => Current.id \in brokerOpen
    BY <2>1, CurrentIsHeld DEF Settled, CalmInv, TicketIsOpen, Settling
  <2> QED
    BY <2>1, <2>2, <2>3 DEF Accepts
<1>3. ~OpenFails
  <2> SUFFICES ASSUME OpenFails PROVE FALSE
    OBVIOUS
  <2>1. pc = "submit" /\ ~BrokerReachable
    BY DEF OpenFails, NothingFails
  <2> QED
    BY <2>1, AllUsable DEF BrokerReachable, Settled
<1>4. ~Crash /\ ~CloseAtTerminal
  BY DEF Crash, CloseAtTerminal, NothingFails
<1> QED
  BY <1>1, <1>2, <1>3, <1>4

\* Where no step touches the list, the walk is where it was.
LEMMA RestsBetween ==
    ASSUME Settled, pc \in {"idle", "evaluate", "submit", "save", "book_open"}
    PROVE  cursor = 1 /\ stillOpen = <<>>
BY DEF Settled, LimitInv, CoverInv

\* Saving the position a poll looks at changes nothing but its excursions.
LEMMA HoldKeepsRow ==
    ASSUME Settled, Hold
    PROVE  /\ rows' = rows /\ stillOpen' = Append(stillOpen, Current) /\ cursor' = cursor + 1
           /\ pc = "manage" /\ pc' = pc
           /\ UNCHANGED <<openPositions, fill, closing, signals, ledger, broker>>
<1>1. pc = "manage" /\ cursor <= Len(openPositions) /\ Usable("positions")
  BY AllUsable DEF Hold, Settled
<1>2. SaveRow(Current) = rows
  BY <1>1, CurrentIsHeld DEF SaveRow, Settled, TypeOK
<1> QED
  BY <1>1, <1>2 DEF Hold

LEMMA DeleteDropsRow ==
    ASSUME Settled, DeleteRow
    PROVE  /\ Current.id \in Signal
           /\ rows' = [rows EXCEPT ![Current.id] = "absent"] /\ Stored' = Stored \ {Current.id}
           /\ cursor' = cursor + 1 /\ pc = "delete" /\ pc' = "manage"
           /\ UNCHANGED <<openPositions, stillOpen, pending, ticket, closing, signals, ledger, broker>>
<1>1. pc = "delete" /\ cursor <= Len(openPositions) /\ Usable("positions")
  BY AllUsable DEF DeleteRow, Settled, LocalsOK
<1>2. Current.id \in Signal /\ rows \in [Signal -> Tickets \cup {"absent"}]
  BY <1>1, CurrentIsHeld DEF Settled, TypeOK
<1>3. rows' = [rows EXCEPT ![Current.id] = "absent"]
  BY <1>1 DEF DeleteRow
<1>4. Stored' = Stored \ {Current.id}
  BY <1>2, <1>3 DEF Stored
<1> QED
  BY <1>1, <1>2, <1>3, <1>4 DEF DeleteRow, ledger

LEMMA SaveAddsRow ==
    ASSUME Settled, SavePosition
    PROVE  /\ Opened \in Position /\ Opened.id = pending /\ pending \in Signal
           /\ Opened.ticket = ticket /\ ticket \in Tickets /\ Opened.clock # "naive"
           /\ openPositions' = Append(openPositions, Opened)
           /\ rows' = [rows EXCEPT ![pending] = ticket] /\ Stored' = Stored \cup {pending}
           /\ pending \notin Ids(openPositions) \cup Stored \cup Closed \cup ledgerOpen
           /\ cursor = 1 /\ stillOpen = <<>> /\ pc = "save" /\ pc' = "book_open"
           /\ UNCHANGED <<walk, fill, closing, signals, ledger, broker>>
<1>1. pc = "save" /\ Usable("positions") /\ cursor = 1 /\ stillOpen = <<>>
  BY AllUsable, RestsBetween DEF SavePosition, Settled
<1>2. /\ Opened \in Position /\ Opened.id = pending /\ pending \in Signal
      /\ Opened.ticket = ticket /\ ticket \in Tickets /\ Opened.clock # "naive"
  BY <1>1 DEF Settled, LocalsOK, TypeOK, Opened, Position, StopClocks
<1>3. rows' = [rows EXCEPT ![pending] = ticket]
  BY <1>1, <1>2 DEF SavePosition, SaveRow
<1>4. Stored' = Stored \cup {pending}
  BY <1>2, <1>3 DEF Stored, Settled, TypeOK, Tickets
<1>5. pending \notin Ids(openPositions) \cup Stored \cup Closed \cup ledgerOpen
  BY <1>1 DEF Settled, CalmInv, NewTrade
<1> QED
  BY <1>1, <1>2, <1>3, <1>4, <1>5 DEF SavePosition

\* No list it keeps ever gets a position with a time stop read back.
LEMMA CalmReloaded ==
    ASSUME NothingFails, Settled, [Next]_vars
    PROVE  NothingReloaded'
<1> USE DEF memory, session, walk, fill, stores, ledger, broker
<1>n. NothingReloaded /\ TypeOK
  BY DEF Settled, CalmInv
<1>1. TimeStop # 0 => closing' = 0 /\ (pc' = "down" => Stored' = {})
  <2> SUFFICES ASSUME TimeStop # 0 PROVE closing' = 0 /\ (pc' = "down" => Stored' = {})
    OBVIOUS
  <2>1. Faults = {} /\ closing = 0 /\ (pc = "down" => Stored = {})
    BY <1>n, TimeFlows DEF NothingReloaded
  <2>2. ~Interrupt /\ ~CloseNext /\ ~Exit /\ ~Crash
    BY <2>1 DEF Interrupt, CloseNext, Exit, Crash
  <2>3. closing' = closing /\ (pc' = "down" => pc = "down" /\ rows' = rows)
    BY <2>2 DEF Next, Process, Poll, Manage, Evaluate, vars, Start, PollStart, BarWithoutPoll,
       CloseAtTerminal, Hold, CompareNaive, SubmitClose, FirstRecorded, CloseFails, BookClose,
       ResolveOutcome, DeleteRow, FinishManage, NoSignalThisBar, SignalRejected,
       SignalTakenOnly, SignalApproved, SubmitOpen, OpenFails, SavePosition, BookOpen,
       Raise, EndPoll
  <2> QED
    BY <2>1, <2>3 DEF Stored
<1>2. /\ \A i \in DOMAIN openPositions' : openPositions'[i].clock # "naive"
      /\ \A i \in DOMAIN stillOpen' : stillOpen'[i].clock # "naive"
  <2>1. CASE Start
    <3>1. PICK order \in Bijection(1..Cardinality(Stored), Stored) :
              openPositions' = [i \in 1..Cardinality(Stored) |-> Reloaded(order[i])]
      BY <2>1 DEF Start
    <3>2. CASE TimeStop = 0
      BY <2>1, <3>1, <3>2, <1>n DEF Reloaded, Start, NothingReloaded
    <3>3. CASE TimeStop # 0
      <4>1. Stored = {} /\ Cardinality(Stored) = 0
        BY <2>1, <3>3, <1>n, FS_EmptySet DEF Start, NothingReloaded
      <4>2. DOMAIN openPositions' = {}
        BY <3>1, <4>1
      <4> QED
        BY <2>1, <4>2, <1>n DEF Start, NothingReloaded
    <3> QED
      BY <3>2, <3>3
  <2>2. CASE Hold
    <3>1. Current \in Position /\ Current.clock # "naive"
      BY <2>2, CurrentIsHeld DEF Hold
    <3>2. \A i \in DOMAIN stillOpen' :
              \/ i = Len(stillOpen) + 1 /\ stillOpen'[i] = Current
              \/ i \in DOMAIN stillOpen /\ stillOpen'[i] = stillOpen[i]
      BY <2>2, <3>1, <1>n, HoldKeepsRow, Appended DEF TypeOK
    <3> QED
      BY <2>2, <3>1, <3>2, <1>n, HoldKeepsRow DEF NothingReloaded
  <2>3. CASE SavePosition
    <3>1. \A i \in DOMAIN openPositions' :
              \/ i = Len(openPositions) + 1 /\ openPositions'[i] = Opened
              \/ i \in DOMAIN openPositions /\ openPositions'[i] = openPositions[i]
      BY <2>3, <1>n, SaveAddsRow, Appended DEF TypeOK
    <3> QED
      BY <2>3, <3>1, <1>n, SaveAddsRow DEF NothingReloaded
  <2>4. CASE FinishManage
    BY <2>4, <1>n DEF FinishManage, KeptOpen, NothingReloaded
  <2>5. CASE Exit
    BY <2>5 DEF Exit, End
  <2>6. CASE openPositions' = openPositions /\ (stillOpen' = stillOpen \/ stillOpen' = <<>>)
    BY <2>6, <1>n DEF NothingReloaded
  <2> QED
    BY <2>1, <2>2, <2>3, <2>4, <2>5, <2>6, NothingRaises
    DEF Next, Process, Poll, Manage, Evaluate, vars, Interrupt, CloseNext, PollStart,
        BarWithoutPoll, SubmitClose, BookClose, ResolveOutcome, DeleteRow, NoSignalThisBar,
        SignalRejected, SignalTakenOnly, SignalApproved, SubmitOpen, BookOpen, Raise, EndPoll
<1> QED
  BY <1>1, <1>2 DEF NothingReloaded

\* A step that leaves the list and the walk where they are.
SameList == UNCHANGED <<openPositions, cursor, stillOpen>>

LEMMA MostlySameList ==
    ASSUME NothingFails, Settled, [Next]_vars,
           ~(Start \/ Exit \/ Hold \/ DeleteRow \/ FinishManage \/ SavePosition)
    PROVE  SameList /\ rows' = rows
<1> USE DEF memory, session, walk, fill, stores, ledger, broker
<1>1. CASE BookClose \/ ResolveOutcome
  BY <1>1, AllUsable DEF BookClose, ResolveOutcome, Settled, SameList
<1>2. CASE NoSignalThisBar \/ SignalRejected \/ SignalTakenOnly \/ BookOpen
  <2>1. cursor = 1 /\ stillOpen = <<>>
    BY <1>2, RestsBetween DEF NoSignalThisBar, SignalRejected, SignalTakenOnly, BookOpen
  <2> QED
    BY <1>2, <2>1 DEF NoSignalThisBar, SignalRejected, SignalTakenOnly, BookOpen, EndPoll, SameList
<1> QED
  BY <1>1, <1>2, NothingRaises
  DEF Next, Process, Poll, Manage, Evaluate, vars, Interrupt, CloseNext, PollStart,
      BarWithoutPoll, SubmitClose, SignalApproved, SubmitOpen, SameList

\* What a restart reloads: the rows of the table, each once.
LEMMA StartReloads ==
    ASSUME Settled, Start
    PROVE  /\ \A i \in DOMAIN openPositions' :
                  /\ openPositions'[i].id \in Stored
                  /\ openPositions'[i].ticket = rows[openPositions'[i].id]
           /\ \A i, j \in DOMAIN openPositions' :
                  openPositions'[i].id = openPositions'[j].id => i = j
           /\ pc = "down" /\ pc' = "idle" /\ cursor' = 1 /\ stillOpen' = <<>>
           /\ UNCHANGED <<closing, rows, signals, ledger, broker, fill>>
<1>1. PICK order \in Bijection(1..Cardinality(Stored), Stored) :
          openPositions' = [i \in 1..Cardinality(Stored) |-> Reloaded(order[i])]
  BY DEF Start
<1>2. \A i \in 1..Cardinality(Stored) : order[i] \in Stored
  BY <1>1 DEF Bijection, Injection, Surjection
<1>3. \A i, j \in 1..Cardinality(Stored) : order[i] = order[j] => i = j
  BY <1>1 DEF Bijection, Injection, IsInjective
<1> QED
  BY <1>1, <1>2, <1>3 DEF Reloaded, Start, Settled, LimitInv, CoverInv, walk, stores

\* The walk keeps what it has looked at.
LEMMA CalmTraced ==
    ASSUME NothingFails, Settled, [Next]_vars
    PROVE  Traced'
<1> USE DEF walk
<1>n. Traced /\ TypeOK
  BY DEF Settled, CalmInv
<1>1. CASE SameList
  BY <1>1, <1>n DEF SameList, Traced, Distinct
<1>2. CASE Start
  BY <1>2, StartReloads DEF Traced, Distinct
<1>3. CASE Exit
  BY <1>3 DEF Exit, End, Traced, Distinct
<1>4. CASE Hold
  <2>1. /\ Current \in Position /\ Current = openPositions[cursor]
        /\ cursor \in DOMAIN openPositions /\ cursor \in Nat
        /\ \A i \in DOMAIN stillOpen : stillOpen[i].id # Current.id
    BY <1>4, <1>n, CurrentIsHeld DEF Hold, TypeOK
  <2>2. \A i \in DOMAIN stillOpen' :
            \/ i = Len(stillOpen) + 1 /\ stillOpen'[i] = Current
            \/ i \in DOMAIN stillOpen /\ stillOpen'[i] = stillOpen[i]
    BY <1>4, <2>1, <1>n, HoldKeepsRow, Appended DEF TypeOK
  <2>3. openPositions' = openPositions /\ cursor' = cursor + 1
    BY <1>4, HoldKeepsRow
  <2>4. Distinct(stillOpen)' /\ Distinct(openPositions)'
    BY <2>1, <2>2, <2>3, <1>n DEF Traced, Distinct
  <2>5. ASSUME NEW i \in DOMAIN stillOpen'
        PROVE  \E j \in DOMAIN openPositions' :
                   j < cursor' /\ openPositions'[j].id = stillOpen'[i].id
    <3>1. CASE stillOpen'[i] = Current
      BY <2>1, <2>3, <3>1
    <3>2. CASE i \in DOMAIN stillOpen /\ stillOpen'[i] = stillOpen[i]
      <4>1. PICK j \in DOMAIN openPositions :
                j < cursor /\ openPositions[j].id = stillOpen[i].id
        BY <3>2, <1>n DEF Traced
      <4>2. j < cursor + 1
        BY <4>1, <2>1, <1>n DEF TypeOK
      <4> QED
        BY <2>3, <3>2, <4>1, <4>2
    <3> QED
      BY <2>2, <3>1, <3>2
  <2> QED
    BY <2>4, <2>5 DEF Traced
<1>5. CASE DeleteRow
  <2>1. /\ UNCHANGED <<openPositions, stillOpen>> /\ cursor' = cursor + 1
    BY <1>5, DeleteDropsRow
  <2>2. ASSUME NEW i \in DOMAIN stillOpen
        PROVE  \E j \in DOMAIN openPositions :
                   j < cursor + 1 /\ openPositions[j].id = stillOpen[i].id
    <3>1. PICK j \in DOMAIN openPositions : j < cursor /\ openPositions[j].id = stillOpen[i].id
      BY <1>n DEF Traced
    <3>2. j < cursor + 1
      BY <3>1, <1>n DEF TypeOK
    <3> QED
      BY <3>1, <3>2
  <2> QED
    BY <2>1, <2>2, <1>n DEF Traced, Distinct
<1>6. CASE FinishManage
  BY <1>6, <1>n DEF FinishManage, KeptOpen, Traced, Distinct
<1>7. CASE SavePosition
  <2>1. \A i \in DOMAIN openPositions' :
            \/ i = Len(openPositions) + 1 /\ openPositions'[i] = Opened
            \/ i \in DOMAIN openPositions /\ openPositions'[i] = openPositions[i]
    BY <1>7, <1>n, SaveAddsRow, Appended DEF TypeOK
  <2>2. \A i \in DOMAIN openPositions : openPositions[i].id # Opened.id
    BY <1>7, SaveAddsRow DEF Ids
  <2>3. Distinct(openPositions)'
    BY <2>1, <2>2, <1>n DEF Traced, Distinct
  <2>4. stillOpen' = <<>>
    BY <1>7, SaveAddsRow
  <2> QED
    BY <2>3, <2>4 DEF Traced, Distinct
<1> QED
  BY <1>1, <1>2, <1>3, <1>4, <1>5, <1>6, <1>7, MostlySameList

LEMMA IdsAreSignals ==
    ASSUME TypeOK
    PROVE  /\ \A i \in DOMAIN openPositions : openPositions[i].id \in Signal
           /\ \A i \in DOMAIN stillOpen : stillOpen[i].id \in Signal
<1>1. /\ \A i \in DOMAIN openPositions : openPositions[i] \in Position
      /\ \A i \in DOMAIN stillOpen : stillOpen[i] \in Position
  BY DEF TypeOK
<1> QED
  BY <1>1 DEF Position

\* The table follows the list.
LEMMA CalmRows ==
    ASSUME NothingFails, Settled, [Next]_vars
    PROVE  RowOfEach'
<1> USE DEF walk
<1>n. RowOfEach /\ TypeOK
  BY DEF Settled, CalmInv
<1>1. CASE SameList /\ rows' = rows
  BY <1>1, <1>n DEF SameList, RowOfEach
<1>2. CASE Start
  BY <1>2, StartReloads DEF RowOfEach
<1>3. CASE Exit
  BY <1>3 DEF Exit, End, RowOfEach
<1>4. CASE Hold
  <2>1. /\ Current \in Position /\ rows[Current.id] = Current.ticket /\ cursor \in Nat
    BY <1>4, <1>n, CurrentIsHeld DEF Hold, TypeOK
  <2>2. \A i \in DOMAIN stillOpen' :
            \/ i = Len(stillOpen) + 1 /\ stillOpen'[i] = Current
            \/ i \in DOMAIN stillOpen /\ stillOpen'[i] = stillOpen[i]
    BY <1>4, <2>1, <1>n, HoldKeepsRow, Appended DEF TypeOK
  <2>3. openPositions' = openPositions /\ cursor' = cursor + 1 /\ rows' = rows
    BY <1>4, HoldKeepsRow
  <2>4. \A i \in DOMAIN openPositions : i >= cursor + 1 => i >= cursor
    BY <1>n DEF TypeOK
  <2> QED
    BY <2>1, <2>2, <2>3, <2>4, <1>n DEF RowOfEach
<1>5. CASE DeleteRow
  <2>1. /\ UNCHANGED <<openPositions, stillOpen>> /\ cursor' = cursor + 1
        /\ rows' = [rows EXCEPT ![Current.id] = "absent"]
    BY <1>5, DeleteDropsRow
  <2>2. \A s \in Signal : s # Current.id => rows'[s] = rows[s]
    BY <2>1, <1>n DEF TypeOK
  <2>3. \A i \in DOMAIN openPositions : i >= cursor + 1 => i >= cursor /\ i # cursor
    BY <1>n DEF TypeOK
  <2>4. /\ \A i \in DOMAIN openPositions : i # cursor => openPositions[i].id # Current.id
        /\ \A i \in DOMAIN stillOpen : stillOpen[i].id # Current.id
    BY <1>5, CurrentIsHeld DEF DeleteRow, Settled, LocalsOK
  <2>5. /\ \A i \in DOMAIN openPositions : openPositions[i].id \in Signal
        /\ \A i \in DOMAIN stillOpen : stillOpen[i].id \in Signal
    BY <1>n, IdsAreSignals
  <2> QED
    BY <2>1, <2>2, <2>3, <2>4, <2>5, <1>n DEF RowOfEach
<1>6. CASE FinishManage
  BY <1>6, <1>n DEF FinishManage, KeptOpen, RowOfEach, stores
<1>7. CASE SavePosition
  <2>1. \A i \in DOMAIN openPositions' :
            \/ i = Len(openPositions) + 1 /\ openPositions'[i] = Opened
            \/ i \in DOMAIN openPositions /\ openPositions'[i] = openPositions[i]
    BY <1>7, <1>n, SaveAddsRow, Appended DEF TypeOK
  <2>2. \A i \in DOMAIN openPositions : openPositions[i].id # pending /\ openPositions[i].id \in Signal
    BY <1>7, <1>n, SaveAddsRow, IdsAreSignals DEF Ids
  <2>3. \A i \in DOMAIN openPositions : rows[openPositions[i].id] = openPositions[i].ticket
    BY <1>7, <1>n, SaveAddsRow DEF RowOfEach, TypeOK
  <2>4. /\ rows' = [rows EXCEPT ![pending] = ticket] /\ stillOpen' = <<>>
        /\ Opened.id = pending /\ Opened.ticket = ticket /\ pending \in Signal
    BY <1>7, SaveAddsRow
  <2>5. \A s \in Signal : s # pending => rows'[s] = rows[s]
    BY <2>4, <1>n DEF TypeOK
  <2>6. rows'[pending] = ticket
    BY <2>4, <1>n DEF TypeOK
  <2> QED
    BY <2>1, <2>2, <2>3, <2>4, <2>5, <2>6 DEF RowOfEach
<1> QED
  BY <1>1, <1>2, <1>3, <1>4, <1>5, <1>6, <1>7, MostlySameList

\* The broker follows the table.
LEMMA CalmTickets ==
    ASSUME NothingFails, Settled, [Next]_vars
    PROVE  TicketIsOpen'
<1> USE DEF memory, session, walk, fill, stores, ledger, broker
<1>n. TicketIsOpen /\ TypeOK
  BY DEF Settled, CalmInv
<1>t. /\ pc' \notin {"save", "book_open"} => ticket' = "paper"
      /\ pc' = "save" /\ ticket' = "broker" => pending' \in brokerOpen'
  <2>1. CASE SubmitOpen
    BY <2>1, <1>n DEF SubmitOpen, TicketIsOpen
  <2>2. CASE SavePosition
    BY <2>2, SaveAddsRow
  <2>3. CASE BookClose \/ ResolveOutcome \/ DeleteRow
    BY <2>3, <1>n DEF BookClose, ResolveOutcome, DeleteRow, Raise, EndPoll, TicketIsOpen
  <2>4. CASE ~(SubmitOpen \/ SavePosition \/ BookClose \/ ResolveOutcome \/ DeleteRow)
    BY <2>4, <1>n, NothingRaises
    DEF Next, Process, Poll, Manage, Evaluate, vars, Start, Interrupt, CloseNext, Exit, End,
        PollStart, BarWithoutPoll, Hold, SubmitClose, FirstRecorded, FinishManage,
        NoSignalThisBar, SignalRejected, SignalTakenOnly, SignalApproved, BookOpen, Raise,
        EndPoll, TicketIsOpen
  <2> QED
    BY <2>1, <2>2, <2>3, <2>4
<1>r. \A s \in Stored' : rows'[s] = "broker" => s \in brokerOpen' \/ (Settling' /\ s = Current.id')
  <2>1. CASE SubmitClose
    <3>1. /\ Current \in Position /\ UNCHANGED <<rows, openPositions, cursor>>
          /\ pc = "manage" /\ Settling'
      BY <2>1, CurrentIsHeld DEF SubmitClose, FirstRecorded, Settling
    <3>2. brokerOpen \ {Current.id} \subseteq brokerOpen'
      BY <2>1 DEF SubmitClose, ClosesAtBroker
    <3>3. \A s \in Stored : rows[s] = "broker" => s \in brokerOpen
      BY <3>1, <1>n DEF TicketIsOpen, Settling
    <3>4. Stored' = Stored /\ Current' = Current
      BY <3>1 DEF Stored, Current
    <3> QED
      BY <3>1, <3>2, <3>3, <3>4
  <2>2. CASE DeleteRow
    <3>1. /\ Stored' = Stored \ {Current.id} /\ brokerOpen' = brokerOpen
          /\ \A s \in Stored' : rows'[s] = rows[s]
      BY <2>2, <1>n, DeleteDropsRow DEF TypeOK, Stored
    <3> QED
      BY <3>1, <1>n DEF TicketIsOpen
  <2>3. CASE SavePosition
    <3>1. /\ Stored' = Stored \cup {pending} /\ brokerOpen' = brokerOpen
          /\ pending \in Signal /\ pending \notin Stored
          /\ rows' = [rows EXCEPT ![pending] = ticket] /\ pc = "save"
      BY <2>3, SaveAddsRow
    <3>2. /\ \A s \in Stored : rows'[s] = rows[s]
          /\ rows'[pending] = ticket
      BY <3>1, <1>n DEF TypeOK, Stored
    <3> QED
      BY <3>1, <3>2, <1>n DEF TicketIsOpen, Settling
  <2>4. CASE Hold
    BY <2>4, <1>n, HoldKeepsRow DEF TicketIsOpen, Settling, Stored
  <2>5. CASE Start \/ Exit \/ FinishManage
    BY <2>5, <1>n DEF Start, Exit, End, FinishManage, TicketIsOpen, Settling, Stored
  <2>6. CASE BookClose \/ ResolveOutcome
    BY <2>6, <1>n, AllUsable DEF BookClose, ResolveOutcome, TicketIsOpen, Settled, Settling,
       Stored, Current
  <2>7. CASE ~(SubmitClose \/ DeleteRow \/ SavePosition \/ Hold \/ Start \/ Exit \/ FinishManage
               \/ BookClose \/ ResolveOutcome)
    <3>1. SameList /\ rows' = rows
      BY <2>7, MostlySameList
    <3>2. brokerOpen \subseteq brokerOpen' /\ (Settling' <=> Settling)
      BY <2>7, NothingRaises
      DEF Next, Process, Poll, Manage, Evaluate, vars, Interrupt, CloseNext, PollStart,
          BarWithoutPoll, NoSignalThisBar, SignalRejected, SignalTakenOnly, SignalApproved,
          SubmitOpen, BookOpen, EndPoll, Settling
    <3> QED
      BY <3>1, <3>2, <1>n DEF SameList, TicketIsOpen, Stored, Current
  <2> QED
    BY <2>1, <2>2, <2>3, <2>4, <2>5, <2>6, <2>7
<1> QED
  BY <1>t, <1>r DEF TicketIsOpen

\* The trade being opened stays new until its open row.
LEMMA CalmNew ==
    ASSUME NothingFails, Settled, [Next]_vars
    PROVE  NewTrade'
<1> USE DEF memory, session, walk, fill, stores, ledger, broker
<1>n. NewTrade /\ TypeOK
  BY DEF Settled, CalmInv
<1>1. CASE SignalApproved
  <2>1. /\ pending' \in Signal /\ signals[pending'] = "none" /\ pc' = "submit"
        /\ UNCHANGED <<openPositions, rows, ledger>>
    BY <1>1 DEF SignalApproved, Fresh
  <2>2. pending' \notin Ids(openPositions) \cup Stored \cup Closed \cup ledgerOpen
    BY <2>1 DEF Settled, TradeIsLogged
  <2> QED
    BY <2>1, <2>2 DEF NewTrade, Ids, Stored, Closed
<1>2. CASE SubmitOpen
  BY <1>2, <1>n DEF SubmitOpen, NewTrade, Ids, Stored, Closed
<1>3. CASE SavePosition
  BY <1>3, SaveAddsRow DEF NewTrade, Closed
<1>4. CASE UNCHANGED <<pc, pending, openPositions, rows, ledger>>
  BY <1>4, <1>n DEF NewTrade, Ids, Stored, Closed
<1>5. CASE pc' \notin {"submit", "save", "book_open"}
  BY <1>5 DEF NewTrade
<1> QED
  BY <1>1, <1>2, <1>3, <1>4, <1>5, NothingRaises, HoldKeepsRow
  DEF Next, Process, Poll, Manage, Evaluate, vars, Start, Interrupt, CloseNext, Exit, End,
      PollStart, BarWithoutPoll, SubmitClose, FirstRecorded, BookClose, ResolveOutcome,
      DeleteRow, FinishManage, NoSignalThisBar, SignalRejected, SignalTakenOnly, BookOpen,
      Raise, EndPoll

LEMMA CalmInvariant == NothingFails => (Spec => []Settled)
<1> SUFFICES ASSUME NothingFails PROVE Spec => []Settled
  OBVIOUS
<1>1. Init => CalmInv
  BY DEF Init, CalmInv, NothingReloaded, Traced, Distinct, RowOfEach, TicketIsOpen, NewTrade,
     Stored, Settling
<1>2. Settled /\ [Next]_vars => CalmInv'
  BY CalmReloaded, CalmTraced, CalmRows, CalmTickets, CalmNew DEF CalmInv
<1>3. Spec => []Quiet
  BY AlwaysQuiet DEF NothingFails
<1>4. Settled <=> (TypeOK /\ LocalsOK) /\ Quiet /\ LimitInv /\ LedgerInv /\ TradeIsLogged /\ CalmInv
  BY DEF Settled
<1> QED
  BY <1>1, <1>2, <1>3, <1>4, TypeCorrect, LimitInvariant, LedgerInvariant, Logged, PTL DEF Spec

-----------------------------------------------------------------------------
(* ... and its ledger *)

\* The trade whose row and whose ledger entry are not both written yet.
Unsettled ==
    IF pc = "book_open" THEN {pending}
    ELSE IF pc \in {"resolve", "delete"} THEN {Current.id} ELSE {}

Labelled == {s \in Signal : signals[s] \in {"win", "loss", "timeout"}}

TalliedInv ==
    /\ ledgerOpen \ Closed = Stored \ Unsettled
    /\ \A s \in Signal : ledgerClose[s] <= 1
    /\ Closed \subseteq Labelled \cup (IF pc = "resolve" THEN {Current.id} ELSE {})

LEMMA TalliedStep ==
    ASSUME NothingFails, Settled, TalliedInv, [Next]_vars
    PROVE  TalliedInv'
<1> USE DEF memory, session, walk, fill, stores, ledger, broker
<1>n. TypeOK
  BY DEF Settled
<1>1. CASE BookClose
  <2>1. /\ pc = "book_close" /\ pc' = "resolve" /\ Current.id \in Stored /\ Current.id \in Signal
        /\ ledgerClose' = [ledgerClose EXCEPT ![Current.id] = @ + 1]
        /\ UNCHANGED <<openPositions, cursor, rows, signals, ledgerOpen>>
    BY <1>1, AllUsable, CurrentIsHeld DEF BookClose, Settled, LocalsOK
  <2>2. Current' = Current /\ Stored' = Stored /\ Labelled' = Labelled /\ Unsettled = {}
        /\ Unsettled' = {Current.id}
    BY <2>1 DEF Current, Stored, Labelled, Unsettled
  <2>3. Current.id \notin Closed /\ ledgerClose[Current.id] = 0
    <3>1. Current.id \notin Closed
      BY <2>1, <2>2 DEF TalliedInv
    <3> QED
      BY <2>1, <3>1, <1>n DEF Closed, TypeOK
  <2>4. /\ ledgerClose'[Current.id] = 1
        /\ \A s \in Signal : s # Current.id => ledgerClose'[s] = ledgerClose[s]
    BY <2>1, <2>3, <1>n DEF TypeOK
  <2>5. Closed' = Closed \cup {Current.id}
    BY <2>1, <2>4 DEF Closed
  <2>6. \A s \in Signal : ledgerClose'[s] <= 1
    BY <2>4 DEF TalliedInv
  <2> QED
    BY <2>1, <2>2, <2>5, <2>6 DEF TalliedInv
<1>2. CASE ResolveOutcome
  <2>1. /\ pc = "resolve" /\ pc' = "delete" /\ Current.id \in Signal
        /\ signals' = [signals EXCEPT ![Current.id] = Outcome(pnl)]
        /\ UNCHANGED <<openPositions, cursor, rows, ledger>>
    BY <1>2, AllUsable, CurrentIsHeld DEF ResolveOutcome, Settled, LocalsOK
  <2>2. Current' = Current /\ Stored' = Stored /\ Closed' = Closed /\ Unsettled' = Unsettled
    BY <2>1 DEF Current, Stored, Closed, Unsettled
  <2>3. Labelled \cup {Current.id} \subseteq Labelled'
    BY <2>1, <1>n DEF Labelled, Outcome, TypeOK
  <2> QED
    BY <2>1, <2>2, <2>3 DEF TalliedInv
<1>3. CASE DeleteRow
  <2>1. /\ Stored' = Stored \ {Current.id} /\ pc = "delete" /\ pc' = "manage"
        /\ UNCHANGED <<signals, ledger>>
    BY <1>3, DeleteDropsRow
  <2>2. Unsettled = {Current.id} /\ Unsettled' = {} /\ Closed' = Closed /\ Labelled' = Labelled
    BY <2>1 DEF Unsettled, Closed, Labelled
  <2> QED
    BY <2>1, <2>2 DEF TalliedInv
<1>4. CASE SavePosition
  <2>1. /\ Stored' = Stored \cup {pending} /\ pending \notin Stored
        /\ pc = "save" /\ pc' = "book_open" /\ UNCHANGED <<pending, signals, ledger>>
    BY <1>4, SaveAddsRow
  <2>2. Unsettled = {} /\ Unsettled' = {pending} /\ Closed' = Closed /\ Labelled' = Labelled
    BY <2>1 DEF Unsettled, Closed, Labelled
  <2> QED
    BY <2>1, <2>2 DEF TalliedInv
<1>5. CASE BookOpen
  <2>1. /\ pc = "book_open" /\ pc' = "idle" /\ ledgerOpen' = ledgerOpen \cup {pending}
        /\ UNCHANGED <<rows, signals, ledgerClose>>
        /\ pending \in Stored /\ pending \notin Closed
    BY <1>5, AllUsable DEF BookOpen, EndPoll, Settled, CalmInv, NewTrade, LedgerInv
  <2>2. /\ Unsettled = {pending} /\ Unsettled' = {} /\ Closed' = Closed /\ Labelled' = Labelled
        /\ Stored' = Stored
    BY <2>1 DEF Unsettled, Closed, Labelled, Stored
  <2> QED
    BY <2>1, <2>2 DEF TalliedInv
<1>6. CASE ~(BookClose \/ ResolveOutcome \/ DeleteRow \/ SavePosition \/ BookOpen)
  <2>1. UNCHANGED <<rows, ledger>>
    BY <1>6, NothingRaises, HoldKeepsRow
    DEF Next, Process, Poll, Manage, Evaluate, vars, Start, Interrupt, CloseNext, Exit, End,
        PollStart, BarWithoutPoll, SubmitClose, FinishManage, NoSignalThisBar,
        SignalRejected, SignalTakenOnly, SignalApproved, SubmitOpen
  <2>2. Stored' = Stored /\ Closed' = Closed
    BY <2>1 DEF Stored, Closed
  <2>3. Labelled \subseteq Labelled'
    <3>1. CASE SignalRejected \/ SignalTakenOnly \/ SignalApproved
      BY <3>1, <1>n DEF SignalRejected, SignalTakenOnly, SignalApproved, PublishTaken, Fresh,
         Labelled, TypeOK
    <3>2. CASE signals' = signals
      BY <3>2 DEF Labelled
    <3> QED
      BY <1>6, <3>1, <3>2, NothingRaises, HoldKeepsRow
      DEF Next, Process, Poll, Manage, Evaluate, vars, Start, Interrupt, CloseNext, Exit, End,
          PollStart, BarWithoutPoll, SubmitClose, FinishManage, NoSignalThisBar, SubmitOpen
  <2>4. \/ UNCHANGED <<pc, pending, openPositions, cursor>>
        \/ {pc, pc'} \cap {"book_open", "resolve", "delete"} = {}
    BY <1>6, NothingRaises, HoldKeepsRow
    DEF Next, Process, Poll, Manage, Evaluate, vars, Start, Interrupt, CloseNext, Exit, End,
        PollStart, BarWithoutPoll, SubmitClose, FirstRecorded, FinishManage, NoSignalThisBar,
        SignalRejected, SignalTakenOnly, SignalApproved, SubmitOpen, EndPoll
  <2>5. /\ Unsettled' = Unsettled
        /\ (IF pc' = "resolve" THEN {Current.id'} ELSE {}) = (IF pc = "resolve" THEN {Current.id} ELSE {})
    BY <2>4 DEF Unsettled, Current
  <2> QED
    BY <2>1, <2>2, <2>3, <2>5 DEF TalliedInv
<1> QED
  BY <1>1, <1>2, <1>3, <1>4, <1>5, <1>6

\* Mirror holds when nothing fails, also of a process that is stopped between polls
\* and started again in another mode: memory, table, ledger and labels agree.
THEOREM OneStory == NothingFails => (Spec => []Mirror)
<1> SUFFICES ASSUME NothingFails PROVE Spec => []Mirror
  OBVIOUS
<1>1. Init => TalliedInv
  BY DEF Init, TalliedInv, Stored, Closed, Unsettled
<1>2. Settled /\ TalliedInv /\ [Next]_vars => TalliedInv'
  BY TalliedStep
<1>3. ASSUME Settled, TalliedInv PROVE Mirror
  <2> SUFFICES ASSUME pc = "idle" PROVE Mirror
    BY DEF Mirror
  <2>1. cursor = 1 /\ stillOpen = <<>>
    BY <1>3, RestsBetween
  <2>2. Ids(openPositions) = Stored
    <3>1. Stored \subseteq Ids(openPositions)
      BY <1>3, <2>1 DEF Settled, LimitInv, CoverInv, Awaited, Ids
    <3>2. \A i \in DOMAIN openPositions : openPositions[i].id \in Stored
      <4> SUFFICES ASSUME NEW i \in DOMAIN openPositions PROVE openPositions[i].id \in Stored
        OBVIOUS
      <4>1. openPositions[i] \in Position /\ i >= cursor
        BY <1>3, <2>1 DEF Settled, TypeOK
      <4>2. rows[openPositions[i].id] = openPositions[i].ticket
        BY <1>3, <4>1 DEF Settled, CalmInv, RowOfEach
      <4> QED
        BY <4>1, <4>2 DEF Position, Tickets, Stored
    <3> QED
      BY <3>1, <3>2 DEF Ids
  <2> QED
    BY <1>3, <2>2 DEF Mirror, TalliedInv, Unsettled, Labelled
<1> QED
  BY <1>1, <1>2, <1>3, CalmInvariant, PTL DEF Spec

LEMMA CalmBookNext ==
    ASSUME NothingFails, Settled, TalliedInv, [Next]_vars
    PROVE  [Book!Next]_BookOfTrades
<1> USE DEF memory, session, walk, fill, stores, ledger, broker
<1>1. CASE BookClose
  <2>1. /\ Current.id \in Stored /\ Current.id \in Signal
        /\ ledgerClose' = [ledgerClose EXCEPT ![Current.id] = @ + 1] /\ rows' = rows
    BY <1>1, AllUsable, CurrentIsHeld DEF BookClose, Settled, LocalsOK
  <2>2. \A s \in Signal : s # Current.id => ledgerClose'[s] = ledgerClose[s]
    BY <2>1 DEF Settled, TypeOK
  <2>3. Stored' = Stored /\ \A s \in Signal : s \notin Stored => (s \in Closed' <=> s \in Closed)
    BY <2>1, <2>2 DEF Stored, Closed
  <2> QED
    BY <2>3, Invisible
<1>2. CASE DeleteRow
  <2>1. /\ Stored' = Stored \ {Current.id} /\ ledgerClose' = ledgerClose
        /\ Current.id \in Signal /\ Current.id \in Stored /\ Current.id \in Closed
    BY <1>2, DeleteDropsRow, CurrentIsHeld DEF DeleteRow, Settled, LocalsOK, LedgerInv
  <2> QED
    BY <2>1, ClosesTrade DEF Closed
<1>3. CASE SavePosition
  <2>1. /\ Stored' = Stored \cup {pending} /\ pending \notin Stored \cup Closed
        /\ pending \in Signal /\ ledgerClose' = ledgerClose /\ pc = "save"
    BY <1>3, SaveAddsRow
  <2>2. Cardinality(Stored) < MaxConcurrent
    <3>1. Cardinality(Stored) <= Len(openPositions) /\ Len(openPositions) < MaxConcurrent
      BY <2>1, CoverBound DEF Settled, LimitInv
    <3>2. Cardinality(Stored) \in Nat /\ MaxConcurrent \in Nat /\ Len(openPositions) \in Nat
      BY StoredFinite, LimitAssumption DEF Settled, TypeOK
    <3> QED
      BY <3>1, <3>2
  <2> QED
    BY <2>1, <2>2, OpensTrade DEF Settled, Closed
<1>4. CASE ~(BookClose \/ DeleteRow \/ SavePosition)
  <2>1. rows' = rows /\ ledgerClose' = ledgerClose
    BY <1>4, NothingRaises, HoldKeepsRow
    DEF Next, Process, Poll, Manage, Evaluate, vars, Start, Interrupt, CloseNext, Exit, End,
        PollStart, BarWithoutPoll, SubmitClose, FinishManage, NoSignalThisBar,
        SignalRejected, SignalTakenOnly, SignalApproved, SubmitOpen, ResolveOutcome, BookOpen,
        Raise
  <2> QED
    BY <2>1, Invisible DEF Stored, Closed
<1> QED
  BY <1>1, <1>2, <1>3, <1>4

\* The table and the ledger implement TradeBook also through the broker, and over
\* sessions of both kinds, as long as nothing fails.
THEOREM ImplementsThroughBroker == NothingFails => (Spec => ImplementsTradeBook)
<1> SUFFICES ASSUME NothingFails PROVE Spec => ImplementsTradeBook
  OBVIOUS
<1>1. Init => Book!Init /\ TalliedInv
  BY DEF Init, Book!Init, BookOfTrades, Stored, Closed, TalliedInv, Unsettled
<1>2. Settled /\ TalliedInv /\ [Next]_vars => TalliedInv' /\ [Book!Next]_BookOfTrades
  BY TalliedStep, CalmBookNext
<1> QED
  BY <1>1, <1>2, CalmInvariant, PTL DEF Spec, ImplementsTradeBook, Book!Spec

=============================================================================
