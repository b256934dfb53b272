------------------------------ MODULE BarStore ------------------------------
(***************************************************************************)
(* BarStore.write and read (forexml/data/store.py): the bars of a symbol   *)
(* and timeframe, one Parquet file per year.  A write merges its bars year *)
(* by year: the file is read, the bars are merged in memory, the file is   *)
(* written over in place.  Several processes have the same directory open  *)
(* (the ingest command, the live loop), and nothing locks it.              *)
(***************************************************************************)
EXTENDS Integers, FiniteSets

CONSTANTS
    Process,   \* processes that write to the store
    Bar,       \* bars, by their timestamp
    Year,
    YearOf,    \* the year of each bar
    Version,   \* what may be stored for a bar
    Absent     \* no row for a bar

ASSUME YearAssumption == Year \subseteq Int /\ YearOf \in [Bar -> Year]
ASSUME VersionAssumption == Absent \notin Version

VARIABLES
    file,      \* the file of each year: "none", "whole", or "torn" (unreadable)
    rows,      \* what is stored for each bar in a whole file
    step,      \* where each process is in write()
    batch,     \* the bars it writes
    todo,      \* the years it has yet to write
    base,      \* the rows of the year it is merging, as it has read them
    overtaken, \* years others began to write since it read them, or finished them
    raced      \* some merge was written over rows its process had not seen

files == <<file, rows>>
writers == <<step, batch, todo, base>>
storeVars == <<files, writers, overtaken, raced>>

Table == [Bar -> Version \cup {Absent}]
NoRows == [b \in Bar |-> Absent]
Steps == {"idle", "read", "merge", "write", "garble", "done"}

StoreTypeOK ==
    /\ file \in [Year -> {"none", "whole", "torn"}]
    /\ rows \in Table
    /\ step \in [Process -> Steps]
    /\ batch \in [Process -> Table]
    /\ todo \in [Process -> SUBSET Year]
    /\ base \in [Process -> Table]
    /\ overtaken \in [Process -> SUBSET Year]
    /\ raced \in BOOLEAN

StoreInit ==
    /\ file = [y \in Year |-> "none"]
    /\ rows = NoRows
    /\ step = [p \in Process |-> "idle"]
    /\ batch = [p \in Process |-> NoRows]
    /\ todo = [p \in Process |-> {}]
    /\ base = [p \in Process |-> NoRows]
    /\ overtaken = [p \in Process |-> {}]
    /\ raced = FALSE

-----------------------------------------------------------------------------
\* faulty variant: the year on a clock ahead of UTC
YearsAhead(bars) == {YearOf[b] + 1 : b \in {c \in Bar : bars[c] # Absent}}

Years(bars) == {YearOf[b] : b \in {c \in Bar : bars[c] # Absent}}

\* partition_by keeps the order of the sorted frame: the earliest year first.
IsNext(p, y) == y \in todo[p] /\ \A z \in todo[p] : y <= z
Current(p) == CHOOSE y \in todo[p] : IsNext(p, y)

\* Processes that have the file of year y open for writing.
Writing(y) == {p \in Process : step[p] \in {"write", "garble"} /\ Current(p) = y}

Readable == \A y \in Year : file[y] # "torn"

\* The process leaves write(): its frames are gone.
Leave(p) ==
    /\ step' = [step EXCEPT ![p] = "idle"]
    /\ batch' = [batch EXCEPT ![p] = NoRows]
    /\ todo' = [todo EXCEPT ![p] = {}]
    /\ base' = [base EXCEPT ![p] = NoRows]
    /\ overtaken' = [overtaken EXCEPT ![p] = {}]
    /\ UNCHANGED raced

\* write() is called.
Write(p, bars) ==
    /\ step[p] = "idle"
    /\ step' = [step EXCEPT ![p] = IF Years(bars) = {} THEN "done" ELSE "read"]
    /\ batch' = [batch EXCEPT ![p] = bars]
    /\ todo' = [todo EXCEPT ![p] = Years(bars)]
    /\ overtaken' = [overtaken EXCEPT ![p] = {}]
    /\ UNCHANGED <<files, base, raced>>

\* read_parquet(path), if path.exists()
ReadPartition(p) ==
    /\ step[p] = "read"
    /\ \E y \in todo[p] :
          /\ IsNext(p, y)
          /\ file[y] # "torn"
          /\ base' = [base EXCEPT ![p] =
                         [b \in Bar |-> IF YearOf[b] = y THEN rows[b] ELSE Absent]]
          /\ overtaken' = [overtaken EXCEPT ![p] = @ \ {y}]
    /\ step' = [step EXCEPT ![p] = "merge"]
    /\ UNCHANGED <<files, batch, todo, raced>>

\* A truncated file has no Parquet footer: read_parquet raises.
ReadFails(p) ==
    /\ step[p] = "read"
    /\ \E y \in todo[p] : IsNext(p, y) /\ file[y] = "torn"
    /\ Leave(p)
    /\ UNCHANGED files

\* write_parquet(path) opens the file, which empties it, ...
Truncate(p) ==
    /\ step[p] = "merge"
    /\ file' = [file EXCEPT ![Current(p)] = "torn"]
    /\ rows' = [b \in Bar |-> IF YearOf[b] = Current(p) THEN Absent ELSE rows[b]]
    /\ step' = [step EXCEPT ![p] = "write"]
    /\ overtaken' = [q \in Process |->
                        IF q # p /\ step[q] # "idle" THEN overtaken[q] \cup {Current(p)}
                        ELSE overtaken[q]]
    /\ raced' = (raced \/ Current(p) \in overtaken[p])
    /\ UNCHANGED <<batch, todo, base>>

\* faulty variant: unique(keep="first"), what is stored wins
MergedKeepFirst(p) ==
    [b \in Bar |-> IF YearOf[b] # Current(p) THEN rows[b]
                   ELSE IF base[p][b] # Absent THEN base[p][b] ELSE batch[p][b]]

\* faulty variant: the year is replaced by the bars written
MergedWithoutBase(p) ==
    [b \in Bar |-> IF YearOf[b] # Current(p) THEN rows[b] ELSE batch[p][b]]

\* concat, unique(keep="last"): the bars written win over those read.
Merged(p) ==
    [b \in Bar |-> IF YearOf[b] # Current(p) THEN rows[b]
                   ELSE IF batch[p][b] # Absent THEN batch[p][b] ELSE base[p][b]]

FirstYearOnly(p) == {}      \* faulty variant: return within the loop
SameYear(p) == todo[p]      \* faulty variant: the loop does not advance

Remaining(p) == todo[p] \ {Current(p)}

\* ... and closes it once everything is written; the loop goes on.
Advance(p, others) ==
    /\ todo' = [todo EXCEPT ![p] = Remaining(p)]
    /\ step' = [q \in Process |->
                   IF q = p THEN IF Remaining(p) = {} THEN "done" ELSE "read"
                   ELSE IF q \in others THEN "garble" ELSE step[q]]
    /\ UNCHANGED <<batch, base, overtaken, raced>>

Finish(p) ==
    /\ step[p] = "write"
    /\ Writing(Current(p)) = {p}
    /\ file' = [file EXCEPT ![Current(p)] = "whole"]
    /\ rows' = Merged(p)
    /\ Advance(p, {})

\* Another process is writing the same file: it may spoil what the other leaves.
FinishBeside(p) ==
    /\ step[p] = "write"
    /\ Writing(Current(p)) # {p}
    /\ \E others \in SUBSET (Writing(Current(p)) \ {p}) : Advance(p, others)
    /\ UNCHANGED files

\* The file is a mixture of two, and its writer does not know.
FinishGarbled(p) ==
    /\ step[p] = "garble"
    /\ Advance(p, {})
    /\ UNCHANGED files

\* write() returns.
Return(p) ==
    /\ step[p] = "done"
    /\ Leave(p)
    /\ UNCHANGED files

\* It dies before.
Crash(p) ==
    /\ step[p] \notin {"idle", "done"}
    /\ Leave(p)
    /\ UNCHANGED files

StoreStep(p) ==
    \/ ReadPartition(p) \/ ReadFails(p) \/ Truncate(p)
    \/ Finish(p) \/ FinishBeside(p) \/ FinishGarbled(p)

StoreNext ==
    \E p \in Process :
        (\E bars \in Table : Write(p, bars)) \/ StoreStep(p) \/ Return(p) \/ Crash(p)

StoreSpec == StoreInit /\ [][StoreNext]_storeVars

-----------------------------------------------------------------------------
(* What the store promises *)

\* A completed write has stored each of its bars, in every year it touched,
\* unless another process has begun to write that year since.
WriteStored ==
    \A p \in Process : step[p] = "done" =>
        \A b \in Bar : batch[p][b] # Absent /\ YearOf[b] \notin overtaken[p]
                          => file[YearOf[b]] = "whole" /\ rows[b] = batch[p][b]

\* What can be read, or will be once the write in progress is done with the year.
KeptRows ==
    [b \in Bar |-> IF Writing(YearOf[b]) = {} THEN rows[b]
                   ELSE base[CHOOSE p \in Writing(YearOf[b]) : TRUE][b]]

Lost == {y \in Year : file[y] = "torn" /\ Writing(y) = {}}

Map == INSTANCE BarMap WITH kept <- KeptRows, lost <- Lost, broken <- raced

\* The files implement a map of bars: whatever is interrupted, a merge drops no
\* bar, and a year is lost only as a whole (until two writers race).
ImplementsBarMap == Map!Spec

=============================================================================
