----------------------------- MODULE TradeBook -----------------------------
(***************************************************************************)
(* What the live loop owes its operator, without processes, stores or      *)
(* failures: a book in which every trade is opened once, at most Limit are *)
(* open together, an open trade stays in the book until it is closed, and  *)
(* a closed trade never comes back.                                        *)
(***************************************************************************)
EXTENDS Naturals, FiniteSets

CONSTANTS Trade, Limit

VARIABLE book   \* trade -> "none", "open" or "closed"

Init == book = [t \in Trade |-> "none"]

OpenTrades == {t \in Trade : book[t] = "open"}

Open(t) ==
    /\ book[t] = "none"
    /\ Cardinality(OpenTrades) < Limit
    /\ book' = [book EXCEPT ![t] = "open"]

Close(t) ==
    /\ book[t] = "open"
    /\ book' = [book EXCEPT ![t] = "closed"]

Next == \E t \in Trade : Open(t) \/ Close(t)

Spec == Init /\ [][Next]_book

=============================================================================
