----------------------------- MODULE Lifecycle -----------------------------
(***************************************************************************)
(* The lifecycle of one strategy (forexml/strategies/lifecycle.py): the    *)
(* status in its YAML file, which anybody edits, and the audit trails that *)
(* record() appends to.  A trail is a list in the memory of whoever made   *)
(* it; no code that reads the status, or writes it, looks at one.          *)
(***************************************************************************)
EXTENDS Integers, FiniteSets

CONSTANT Actor      \* those who keep a trail
CONSTANT Human      \* the actors whose actor_kind is "human"

ASSUME HumanAssumption == Human \subseteq Actor

VARIABLES
    status,   \* status in the YAML file
    trail     \* the transitions in each actor's trail

lifecycle == <<status, trail>>

Status == {"proposed", "approved", "active", "retired"}
Transition == [from : Status, to : Status]

LifecycleTypeOK ==
    /\ status \in Status
    /\ trail \in [Actor -> SUBSET Transition]

Allowed ==
    [proposed |-> {"approved", "retired"},
     approved |-> {"active", "retired", "proposed"},
     active   |-> {"retired"},
     retired  |-> {}]

IsTradeable(s) == s = "active"

\* record() raises otherwise.
MayRecord(a, from, to) == to \in Allowed[from] /\ (to = "active" => a \in Human)

\* record(): from_status is what the caller says it is, and the file is not touched.
Record(a, from, to) ==
    /\ MayRecord(a, from, to)
    /\ trail' = [trail EXCEPT ![a] = @ \cup {[from |-> from, to |-> to]}]
    /\ UNCHANGED status

\* The file is edited: load_strategy takes any of the four.
EditStatus(to) ==
    /\ to # status
    /\ status' = to
    /\ UNCHANGED trail

\* The process that kept the trail ends.
LoseTrail(a) ==
    /\ trail[a] # {}
    /\ trail' = [trail EXCEPT ![a] = {}]
    /\ UNCHANGED status

\* Every trail starts empty, whatever the file says.
LifecycleInit ==
    /\ status \in Status
    /\ trail = [a \in Actor |-> {}]

LifecycleNext ==
    \/ \E to \in Status : EditStatus(to)
    \/ \E a \in Actor : LoseTrail(a) \/ \E from, to \in Status : Record(a, from, to)

=============================================================================
