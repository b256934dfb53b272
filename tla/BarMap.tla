------------------------------- MODULE BarMap -------------------------------
(***************************************************************************)
(* What a store of bars owes those who write to it, without files or       *)
(* processes: a merge adds or renews bars of one year and drops none, and  *)
(* the only other thing that happens to a year is that it is lost as a     *)
(* whole.  Nothing is promised once two processes merged into one year     *)
(* without seeing each other's bars.                                       *)
(***************************************************************************)
CONSTANTS Bar, Year, YearOf, Absent

VARIABLES
    kept,    \* bar -> its version, or Absent
    lost,    \* years that can no longer be read
    broken   \* two processes have merged into one year at a time

Init ==
    /\ kept = [b \in Bar |-> Absent]
    /\ lost = {}
    /\ broken = FALSE

Merge(y) ==
    /\ y \notin lost
    /\ \A b \in Bar : kept'[b] # kept[b] => YearOf[b] = y /\ kept'[b] # Absent
    /\ UNCHANGED <<lost, broken>>

Lose(y) ==
    /\ kept' = [b \in Bar |-> IF YearOf[b] = y THEN Absent ELSE kept[b]]
    /\ lost' = lost \cup {y}
    /\ UNCHANGED broken

Next ==
    \/ \E y \in Year : Merge(y) \/ Lose(y)
    \/ broken'

Spec == Init /\ [][Next]_<<kept, lost, broken>>

=============================================================================
