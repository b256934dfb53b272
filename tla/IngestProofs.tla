---------------------------- MODULE IngestProofs ----------------------------
(***************************************************************************)
(* What BarStore keeps, whatever is written by however many processes and  *)
(* whenever they die: completed writes are stored, and the files implement *)
(* a map of bars until two writers race.  Then what is in the store the    *)
(* ingest command and the live loop share, and what each may conclude of   *)
(* it: the guarantees of BarStore carry over, a missing bar is in the      *)
(* command's report, and a poll reads its window whole.                    *)
(***************************************************************************)
EXTENDS Ingest, NumberFacts, TLAPS

-----------------------------------------------------------------------------
(* The inductive invariant *)

\* A process that has read a year knows which.
HasNext ==
    \A p \in Process : step[p] \in {"merge", "write", "garble"} =>
        \E y \in todo[p] : IsNext(p, y)

Holds(p, y) == step[p] \in {"write", "garble"} /\ IsNext(p, y)

\* A file that is being written cannot be read, and holds no rows.
TornWhileWritten == \A p \in Process, y \in Year : Holds(p, y) => file[y] = "torn"
Emptied == \A b \in Bar : file[YearOf[b]] # "whole" => rows[b] = Absent

\* What a write has done with stands, up to the years others began to write.
Stored ==
    \A p \in Process, b \in Bar :
        /\ step[p] # "idle" /\ batch[p][b] # Absent
        /\ YearOf[b] \notin todo[p] /\ YearOf[b] \notin overtaken[p]
        => file[YearOf[b]] = "whole" /\ rows[b] = batch[p][b]
NothingLeft == \A p \in Process : step[p] = "done" => todo[p] = {}

\* Two processes at one year know of each other in the end: the one that began to
\* write it has overtaken the other.
Noticed ==
    \A p, q \in Process, y \in Year :
        p # q /\ Holds(p, y) /\ step[q] \in {"merge", "write", "garble"} /\ IsNext(q, y)
            => y \in overtaken[q]
GarbledNoticed ==
    \A p \in Process, y \in Year : step[p] = "garble" /\ IsNext(p, y) => y \in overtaken[p]

\* What a process merges with is what is stored, unless it was overtaken.
BaseIsCurrent ==
    \A p \in Process, y \in Year :
        step[p] = "merge" /\ IsNext(p, y) /\ y \notin overtaken[p]
            => /\ file[y] # "torn"
               /\ \A b \in Bar : YearOf[b] = y => base[p][b] = rows[b]

\* Without a race a file has one writer at a time.
OneWriter ==
    ~raced =>
        /\ \A p, q \in Process, y \in Year : Holds(p, y) /\ Holds(q, y) => p = q
        /\ \A p \in Process : step[p] # "garble"

StoreInv ==
    /\ StoreTypeOK /\ HasNext /\ TornWhileWritten /\ Emptied /\ Stored /\ NothingLeft
    /\ Noticed /\ GarbledNoticed /\ BaseIsCurrent /\ OneWriter

-----------------------------------------------------------------------------
(* Which year a process is at *)

LEMMA CurrentIs ==
    \A p \in Process, y \in Int : todo[p] \subseteq Int /\ IsNext(p, y) => Current(p) = y
<1> SUFFICES ASSUME NEW p \in Process, NEW y \in Int, todo[p] \subseteq Int, IsNext(p, y)
             PROVE  Current(p) = y
  OBVIOUS
<1> DEFINE c == CHOOSE z \in todo[p] : IsNext(p, z)
<1>1. y \in todo[p]
  BY DEF IsNext
<1>2. c \in todo[p] /\ IsNext(p, c)
  BY <1>1
<1>3. c <= y /\ y <= c
  BY <1>1, <1>2 DEF IsNext
<1>4. c = y
  BY <1>1, <1>2, <1>3
<1> QED
  BY <1>4 DEF Current

\* The year it is at, if it has read one.
LEMMA AtYear ==
    StoreTypeOK /\ HasNext =>
        \A p \in Process : step[p] \in {"merge", "write", "garble"} =>
            Current(p) \in Year /\ Current(p) \in todo[p] /\ IsNext(p, Current(p))
<1> SUFFICES ASSUME StoreTypeOK, HasNext, NEW p \in Process,
                    step[p] \in {"merge", "write", "garble"}
             PROVE  Current(p) \in Year /\ Current(p) \in todo[p] /\ IsNext(p, Current(p))
  OBVIOUS
<1>1. PICK y \in todo[p] : IsNext(p, y)
  BY DEF HasNext
<1>2. todo[p] \subseteq Year /\ y \in Year /\ y \in Int /\ todo[p] \subseteq Int
  BY YearAssumption DEF StoreTypeOK
<1>3. Current(p) = y
  BY <1>1, <1>2, CurrentIs
<1> QED
  BY <1>1, <1>2, <1>3

LEMMA WritingIs ==
    StoreTypeOK /\ HasNext => \A y \in Year : Writing(y) = {p \in Process : Holds(p, y)}
<1> SUFFICES ASSUME StoreTypeOK, HasNext, NEW y \in Year, NEW p \in Process,
                    step[p] \in {"write", "garble"}
             PROVE  Current(p) = y <=> IsNext(p, y)
  BY DEF Writing, Holds
<1>1. IsNext(p, Current(p))
  BY AtYear
<1>2. y \in Int /\ todo[p] \subseteq Int
  BY YearAssumption DEF StoreTypeOK
<1> QED
  BY <1>1, <1>2, CurrentIs

-----------------------------------------------------------------------------
(* Every step keeps the invariant *)

LEMMA YearsInYear == \A bars \in Table : Years(bars) \in SUBSET Year
BY YearAssumption DEF Years, Table

LEMMA InitKeeps == StoreInit => StoreInv
<1> SUFFICES ASSUME StoreInit PROVE StoreInv
  OBVIOUS
<1>1. NoRows \in Table
  BY DEF NoRows, Table
<1>2. StoreTypeOK
  BY <1>1 DEF StoreInit, StoreTypeOK, Steps
<1>3. HasNext /\ TornWhileWritten /\ Stored /\ NothingLeft /\ Noticed /\ GarbledNoticed
      /\ BaseIsCurrent /\ OneWriter
  BY DEF StoreInit, HasNext, TornWhileWritten, Holds, Stored, NothingLeft, Noticed,
         GarbledNoticed, BaseIsCurrent, OneWriter
<1>4. Emptied
  BY DEF StoreInit, Emptied, NoRows
<1> QED
  BY <1>2, <1>3, <1>4 DEF StoreInv

\* A process that begins to write, or leaves.
LEMMA IdleKeeps ==
    ASSUME StoreInv, NEW p \in Process, NEW bars \in Table,
           Write(p, bars) \/ (Leave(p) /\ UNCHANGED files)
    PROVE  StoreInv'
<1> USE DEF StoreInv, files
<1>1. /\ step' \in [Process -> Steps] /\ step'[p] \in {"idle", "read", "done"}
      /\ todo' \in [Process -> SUBSET Year]
      /\ batch' \in [Process -> Table] /\ base' \in [Process -> Table]
      /\ overtaken' \in [Process -> SUBSET Year]
  <2>1. NoRows \in Table
    BY DEF NoRows, Table
  <2> QED
    BY <2>1, YearsInYear DEF Write, Leave, StoreTypeOK, Steps
<1>2. UNCHANGED <<file, rows, raced>>
  BY DEF Write, Leave
<1>3. \A q \in Process : q # p =>
          /\ step'[q] = step[q] /\ todo'[q] = todo[q] /\ batch'[q] = batch[q]
          /\ base'[q] = base[q] /\ overtaken'[q] = overtaken[q]
  BY DEF Write, Leave, StoreTypeOK
<1>4. StoreTypeOK'
  BY <1>1, <1>2 DEF StoreTypeOK
<1>5. \A q \in Process : step'[q] \in {"merge", "write", "garble"} => q # p
  BY <1>1
<1>6. \A q \in Process, y \in Year : q # p => (IsNext(q, y)' <=> IsNext(q, y))
  BY <1>3 DEF IsNext
<1>7. \A q \in Process, y \in Year : Holds(q, y)' => q # p /\ Holds(q, y)
  BY <1>3, <1>5, <1>6 DEF Holds
<1>8. HasNext'
  BY <1>3, <1>5 DEF HasNext, IsNext
<1>9. TornWhileWritten' /\ Emptied'
  BY <1>2, <1>7 DEF TornWhileWritten, Emptied
<1>10. Stored' /\ NothingLeft'
  <2>1. step'[p] # "idle" =>
            /\ \A b \in Bar : batch'[p][b] # Absent => YearOf[b] \in todo'[p]
            /\ step'[p] = "done" => todo'[p] = {}
    BY DEF Write, Leave, StoreTypeOK, Years
  <2>2. \A b \in Bar : /\ step'[p] # "idle" /\ batch'[p][b] # Absent
                        /\ YearOf[b] \notin todo'[p] => FALSE
    BY <2>1
  <2> QED
    BY <2>1, <2>2, <1>2, <1>3 DEF Stored, NothingLeft
<1>11. Noticed'
  BY <1>3, <1>5, <1>6, <1>7 DEF Noticed
<1>12. GarbledNoticed'
  BY <1>3, <1>5, <1>6 DEF GarbledNoticed
<1>13. BaseIsCurrent'
  BY <1>2, <1>3, <1>5, <1>6 DEF BaseIsCurrent
<1>14. OneWriter'
  BY <1>2, <1>3, <1>5, <1>7 DEF OneWriter
<1> QED
  BY <1>4, <1>8, <1>9, <1>10, <1>11, <1>12, <1>13, <1>14

\* A partition is read.
LEMMA ReadKeeps ==
    ASSUME StoreInv, NEW p \in Process, ReadPartition(p)
    PROVE  StoreInv'
<1> USE DEF StoreInv, files
<1>1. PICK y \in todo[p] :
          /\ IsNext(p, y) /\ file[y] # "torn"
          /\ base' = [base EXCEPT ![p] =
                         [b \in Bar |-> IF YearOf[b] = y THEN rows[b] ELSE Absent]]
          /\ overtaken' = [overtaken EXCEPT ![p] = @ \ {y}]
  BY DEF ReadPartition
<1>2. /\ step[p] = "read" /\ step' = [step EXCEPT ![p] = "merge"]
      /\ UNCHANGED <<file, rows, batch, todo, raced>>
  BY DEF ReadPartition
<1>3. y \in Year /\ y \in Int /\ todo[p] \subseteq Int
  BY YearAssumption DEF StoreTypeOK
<1>4. StoreTypeOK'
  <2>1. [b \in Bar |-> IF YearOf[b] = y THEN rows[b] ELSE Absent] \in Table
    BY DEF StoreTypeOK, Table
  <2> QED
    BY <1>1, <1>2, <2>1 DEF StoreTypeOK, Steps
<1>5. step'[p] = "merge"
      /\ \A q \in Process : q # p => step'[q] = step[q] /\ base'[q] = base[q]
                                       /\ overtaken'[q] = overtaken[q]
  BY <1>1, <1>2 DEF StoreTypeOK
<1>6. \A q \in Process, z \in Year : IsNext(q, z)' <=> IsNext(q, z)
  BY <1>2 DEF IsNext
<1>7. \A q \in Process, z \in Year : Holds(q, z)' => q # p /\ Holds(q, z)
  BY <1>5, <1>6 DEF Holds
<1>8. \A z \in Year : IsNext(p, z) => z = y
  <2> SUFFICES ASSUME NEW z \in Year, IsNext(p, z) PROVE z = y
    OBVIOUS
  <2>1. z \in Int
    BY YearAssumption
  <2> QED
    BY <1>1, <1>3, <2>1, CurrentIs
<1>9. HasNext'
  <2>1. IsNext(p, y)' /\ y \in todo'[p]
    BY <1>1, <1>2, <1>3, <1>6
  <2> QED
    BY <2>1, <1>2, <1>5 DEF HasNext, IsNext
<1>10. TornWhileWritten' /\ Emptied'
  BY <1>2, <1>7 DEF TornWhileWritten, Emptied
<1>11. overtaken'[p] = overtaken[p] \ {y}
  BY <1>1 DEF StoreTypeOK
<1>12. Stored' /\ NothingLeft'
  BY <1>2, <1>5, <1>11 DEF Stored, NothingLeft
<1>13. Noticed'
  <2> SUFFICES ASSUME NEW r \in Process, NEW q \in Process, NEW z \in Year, r # q,
                      Holds(r, z)', step'[q] \in {"merge", "write", "garble"}, IsNext(q, z)'
               PROVE  z \in overtaken'[q]
    BY DEF Noticed
  <2>1. CASE q # p
    BY <2>1, <1>5, <1>6, <1>7 DEF Noticed
  <2>2. CASE q = p
    <3>1. z = y /\ Holds(r, z)
      BY <2>2, <1>6, <1>7, <1>8
    <3> QED
      BY <3>1, <1>1 DEF TornWhileWritten
  <2> QED
    BY <2>1, <2>2
<1>14. GarbledNoticed'
  BY <1>5, <1>6 DEF GarbledNoticed
<1>15. BaseIsCurrent'
  <2>1. \A b \in Bar : YearOf[b] = y => base'[p][b] = rows[b]
    BY <1>1 DEF StoreTypeOK
  <2> QED
    BY <2>1, <1>1, <1>2, <1>5, <1>6, <1>8 DEF BaseIsCurrent
<1>16. OneWriter'
  BY <1>2, <1>5, <1>7 DEF OneWriter
<1> QED
  BY <1>4, <1>9, <1>10, <1>12, <1>13, <1>14, <1>15, <1>16

\* The file is opened for writing.
LEMMA TruncateKeeps ==
    ASSUME StoreInv, NEW p \in Process, Truncate(p)
    PROVE  StoreInv'
<1> USE DEF StoreInv
<1> DEFINE y == Current(p)
<1>1. y \in Year /\ y \in todo[p] /\ IsNext(p, y)
  BY AtYear DEF Truncate
<1>2. /\ step[p] = "merge" /\ step' = [step EXCEPT ![p] = "write"]
      /\ file' = [file EXCEPT ![y] = "torn"]
      /\ rows' = [b \in Bar |-> IF YearOf[b] = y THEN Absent ELSE rows[b]]
      /\ overtaken' = [q \in Process |-> IF q # p /\ step[q] # "idle"
                                         THEN overtaken[q] \cup {y} ELSE overtaken[q]]
      /\ raced' = (raced \/ y \in overtaken[p])
      /\ UNCHANGED <<batch, todo, base>>
  BY DEF Truncate
<1> HIDE DEF y
<1>3. StoreTypeOK'
  BY <1>1, <1>2 DEF StoreTypeOK, Table, Steps
<1>4. step'[p] = "write" /\ \A q \in Process : q # p => step'[q] = step[q]
  BY <1>2 DEF StoreTypeOK
<1>5. \A q \in Process, z \in Year : IsNext(q, z)' <=> IsNext(q, z)
  BY <1>2 DEF IsNext
<1>6. \A z \in Year : IsNext(p, z) => z = y
  <2> SUFFICES ASSUME NEW z \in Year, IsNext(p, z) PROVE z = y
    OBVIOUS
  <2>1. z \in Int /\ todo[p] \subseteq Int
    BY YearAssumption DEF StoreTypeOK
  <2> QED
    BY <2>1, CurrentIs DEF y
<1>7. \A q \in Process, z \in Year : Holds(q, z)' => IF q = p THEN z = y ELSE Holds(q, z)
  BY <1>4, <1>5, <1>6 DEF Holds
<1>8. \A q \in Process :
          overtaken'[q] = IF q # p /\ step[q] # "idle" THEN overtaken[q] \cup {y}
                                                       ELSE overtaken[q]
  BY <1>2
<1>9. \A z \in Year : file'[z] = IF z = y THEN "torn" ELSE file[z]
  BY <1>2 DEF StoreTypeOK
<1>10. \A b \in Bar : YearOf[b] \in Year
  BY YearAssumption
<1>11. HasNext'
  <2> SUFFICES ASSUME NEW q \in Process, step'[q] \in {"merge", "write", "garble"}
               PROVE  \E z \in todo'[q] : IsNext(q, z)'
    BY DEF HasNext
  <2>1. PICK z \in Year : z \in todo[q] /\ IsNext(q, z)
    BY <1>1, <1>2, <1>4 DEF HasNext, StoreTypeOK
  <2> QED
    BY <2>1, <1>2, <1>5
<1>12. TornWhileWritten'
  BY <1>7, <1>9 DEF TornWhileWritten
<1>13. Emptied'
  BY <1>2, <1>9, <1>10 DEF Emptied
<1>14. Stored'
  <2> SUFFICES ASSUME NEW q \in Process, NEW b \in Bar, step'[q] # "idle",
                      batch'[q][b] # Absent, YearOf[b] \notin todo'[q],
                      YearOf[b] \notin overtaken'[q]
               PROVE  file'[YearOf[b]] = "whole" /\ rows'[b] = batch'[q][b]
    BY DEF Stored
  <2>1. step[q] # "idle" /\ YearOf[b] \notin overtaken[q]
    BY <1>2, <1>4, <1>8
  <2>2. file[YearOf[b]] = "whole" /\ rows[b] = batch[q][b]
    BY <2>1, <1>2 DEF Stored
  <2>3. YearOf[b] # y
    BY <2>1, <1>1, <1>2, <1>8
  <2> QED
    BY <2>2, <2>3, <1>2, <1>9, <1>10
<1>15. NothingLeft'
  BY <1>2, <1>4 DEF NothingLeft
<1>16. Noticed'
  <2> SUFFICES ASSUME NEW r \in Process, NEW q \in Process, NEW z \in Year, r # q,
                      Holds(r, z)', step'[q] \in {"merge", "write", "garble"}, IsNext(q, z)'
               PROVE  z \in overtaken'[q]
    BY DEF Noticed
  <2>1. step[q] \in {"merge", "write", "garble"} /\ IsNext(q, z)
    BY <1>2, <1>4, <1>5
  <2>2. CASE r = p
    BY <2>1, <2>2, <1>7, <1>8
  <2>3. CASE r # p
    <3>1. z \in overtaken[q]
      BY <2>1, <2>3, <1>7 DEF Noticed
    <3> QED
      BY <3>1, <1>8
  <2> QED
    BY <2>2, <2>3
<1>17. GarbledNoticed'
  BY <1>4, <1>5, <1>8 DEF GarbledNoticed
<1>18. BaseIsCurrent'
  <2> SUFFICES ASSUME NEW q \in Process, NEW z \in Year, step'[q] = "merge", IsNext(q, z)',
                      z \notin overtaken'[q]
               PROVE  file'[z] # "torn" /\ \A b \in Bar : YearOf[b] = z => base'[q][b] = rows'[b]
    BY DEF BaseIsCurrent
  <2>1. q # p /\ step[q] = "merge" /\ IsNext(q, z) /\ z \notin overtaken[q] /\ z # y
    BY <1>4, <1>5, <1>8
  <2>2. file[z] # "torn" /\ \A b \in Bar : YearOf[b] = z => base[q][b] = rows[b]
    BY <2>1 DEF BaseIsCurrent
  <2> QED
    BY <2>1, <2>2, <1>2, <1>9
<1>19. OneWriter'
  <2> SUFFICES ASSUME ~raced'
               PROVE  /\ \A r, q \in Process, z \in Year : Holds(r, z)' /\ Holds(q, z)' => r = q
                      /\ \A r \in Process : step'[r] # "garble"
    BY DEF OneWriter
  <2>1. ~raced /\ y \notin overtaken[p]
    BY <1>2
  <2>2. \A q \in Process : q # p => ~Holds(q, y)
    BY <2>1, <1>1, <1>2 DEF Noticed
  <2>3. \A r, q \in Process, z \in Year : Holds(r, z) /\ Holds(q, z) => r = q
    BY <2>1 DEF OneWriter
  <2>4. \A r \in Process : step'[r] # "garble"
    BY <2>1, <1>4 DEF OneWriter
  <2> QED
    BY <2>2, <2>3, <2>4, <1>7
<1> QED
  BY <1>3, <1>11, <1>12, <1>13, <1>14, <1>15, <1>16, <1>17, <1>18, <1>19

\* A process is done with a file: it is whole, or (others write it too, or have
\* spoilt it) nothing changes on disk.
LEMMA FinishKeeps ==
    ASSUME StoreInv, NEW p \in Process, Finish(p) \/ FinishBeside(p) \/ FinishGarbled(p)
    PROVE  StoreInv'
<1> USE DEF StoreInv
<1> DEFINE y == Current(p)
<1>1. y \in Year /\ y \in todo[p] /\ IsNext(p, y) /\ step[p] \in {"write", "garble"}
  BY AtYear DEF Finish, FinishBeside, FinishGarbled
<1>2. Writing(y) = {q \in Process : Holds(q, y)}
  BY <1>1, WritingIs
<1>3. PICK others \in SUBSET (Writing(y) \ {p}) : Advance(p, others)
  BY DEF Finish, FinishBeside, FinishGarbled
<1>4. \/ /\ step[p] = "write" /\ Writing(y) = {p}
         /\ file' = [file EXCEPT ![y] = "whole"] /\ rows' = Merged(p)
      \/ /\ step[p] = "write" /\ Writing(y) # {p} /\ UNCHANGED <<file, rows>>
      \/ step[p] = "garble" /\ UNCHANGED <<file, rows>>
  BY DEF Finish, FinishBeside, FinishGarbled, files
<1>5. /\ todo' = [todo EXCEPT ![p] = todo[p] \ {y}]
      /\ step' = [q \in Process |->
                     IF q = p THEN IF todo[p] \ {y} = {} THEN "done" ELSE "read"
                     ELSE IF q \in others THEN "garble" ELSE step[q]]
      /\ UNCHANGED <<batch, base, overtaken, raced>>
  BY <1>3 DEF Advance, Remaining
<1>6. Merged(p) = [b \in Bar |-> IF YearOf[b] # y THEN rows[b]
                                 ELSE IF batch[p][b] # Absent THEN batch[p][b] ELSE base[p][b]]
  BY DEF Merged
<1> HIDE DEF y
<1>7. StoreTypeOK'
  <2>1. Merged(p) \in Table
    BY <1>6 DEF StoreTypeOK, Table
  <2> QED
    BY <2>1, <1>1, <1>4, <1>5 DEF StoreTypeOK, Steps
<1>8. step'[p] \in {"read", "done"} /\ (step'[p] = "done" => todo'[p] = {})
  BY <1>5 DEF StoreTypeOK
<1>9. \A q \in Process : q # p =>
          /\ todo'[q] = todo[q]
          /\ step'[q] = step[q] \/ (Holds(q, y) /\ step'[q] = "garble")
  BY <1>2, <1>3, <1>5 DEF StoreTypeOK
<1>10. \A q \in Process, z \in Year : q # p => (IsNext(q, z)' <=> IsNext(q, z))
  BY <1>9 DEF IsNext
<1>11. \A q \in Process, z \in Year : Holds(q, z)' => q # p /\ Holds(q, z)
  BY <1>8, <1>9, <1>10 DEF Holds
<1>12. file[y] = "torn" /\ \A z \in Year : z # y => file'[z] = file[z]
  BY <1>1, <1>4 DEF TornWhileWritten, Holds, StoreTypeOK
<1>13. \A b \in Bar : YearOf[b] \in Year /\ (YearOf[b] # y => rows'[b] = rows[b])
  BY <1>4, <1>6, YearAssumption
<1>14. HasNext'
  BY <1>8, <1>9, <1>10 DEF HasNext, IsNext, Holds
<1>15. TornWhileWritten'
  <2> SUFFICES ASSUME NEW q \in Process, NEW z \in Year, Holds(q, z)' PROVE file'[z] = "torn"
    BY DEF TornWhileWritten
  <2>1. q # p /\ Holds(q, z) /\ file[z] = "torn"
    BY <1>11 DEF TornWhileWritten
  <2>2. z = y => Writing(y) # {p}
    BY <2>1, <1>2
  <2> QED
    BY <2>1, <2>2, <1>4, <1>12
<1>16. Emptied'
  <2> SUFFICES ASSUME NEW b \in Bar, file'[YearOf[b]] # "whole" PROVE rows'[b] = Absent
    BY DEF Emptied
  <2>1. UNCHANGED <<file, rows>> \/ YearOf[b] # y
    BY <1>1, <1>4 DEF StoreTypeOK
  <2> QED
    BY <2>1, <1>12, <1>13 DEF Emptied
<1>17. p \in Process /\ (Writing(y) # {p} => y \in overtaken[p])
  <2> SUFFICES ASSUME Writing(y) # {p} PROVE y \in overtaken[p]
    OBVIOUS
  <2>1. Holds(p, y)
    BY <1>1 DEF Holds
  <2>2. PICK q \in Process : q # p /\ Holds(q, y)
    BY <2>1, <1>2
  <2> QED
    BY <2>2, <1>1 DEF Noticed
<1>18. UNCHANGED <<file, rows>> => y \in overtaken[p]
  <2>1. CASE step[p] = "garble"
    BY <2>1, <1>1 DEF GarbledNoticed
  <2>2. CASE step[p] = "write" /\ Writing(y) # {p}
    BY <2>2, <1>17
  <2>3. CASE file' = [file EXCEPT ![y] = "whole"]
    BY <2>3, <1>1, <1>12 DEF StoreTypeOK
  <2> QED
    BY <2>1, <2>2, <2>3, <1>4
<1>19. Stored'
  <2> SUFFICES ASSUME NEW q \in Process, NEW b \in Bar, step'[q] # "idle",
                      batch'[q][b] # Absent, YearOf[b] \notin todo'[q],
                      YearOf[b] \notin overtaken'[q]
               PROVE  file'[YearOf[b]] = "whole" /\ rows'[b] = batch'[q][b]
    BY DEF Stored
  <2>1. step[q] # "idle" /\ batch[q][b] # Absent /\ YearOf[b] \notin overtaken[q]
    BY <1>1, <1>5, <1>9 DEF Holds
  <2>2. CASE q = p /\ YearOf[b] = y
    <3>1. ~UNCHANGED <<file, rows>>
      BY <2>1, <2>2, <1>18
    <3>2. file' = [file EXCEPT ![y] = "whole"] /\ rows' = Merged(p)
      BY <3>1, <1>4
    <3> QED
      BY <3>2, <2>1, <2>2, <1>1, <1>5, <1>6 DEF StoreTypeOK
  <2>3. CASE ~(q = p /\ YearOf[b] = y)
    <3>1. YearOf[b] \notin todo[q]
      BY <2>3, <1>5, <1>9 DEF StoreTypeOK
    <3>2. file[YearOf[b]] = "whole" /\ rows[b] = batch[q][b]
      BY <2>1, <3>1 DEF Stored
    <3>3. YearOf[b] # y
      BY <3>2, <1>12
    <3> QED
      BY <3>2, <3>3, <1>5, <1>12, <1>13
  <2> QED
    BY <2>2, <2>3
<1>20. NothingLeft'
  BY <1>8, <1>9 DEF NothingLeft
<1>21. Noticed'
  <2> SUFFICES ASSUME NEW r \in Process, NEW q \in Process, NEW z \in Year, r # q,
                      Holds(r, z)', step'[q] \in {"merge", "write", "garble"}, IsNext(q, z)'
               PROVE  z \in overtaken'[q]
    BY DEF Noticed
  <2>1. Holds(r, z) /\ q # p /\ IsNext(q, z)
    BY <1>8, <1>10, <1>11
  <2>2. step[q] \in {"merge", "write", "garble"}
    BY <2>1, <1>9 DEF Holds
  <2> QED
    BY <2>1, <2>2, <1>5 DEF Noticed
<1>22. GarbledNoticed'
  <2> SUFFICES ASSUME NEW q \in Process, NEW z \in Year, step'[q] = "garble", IsNext(q, z)'
               PROVE  z \in overtaken'[q]
    BY DEF GarbledNoticed
  <2>1. q # p /\ IsNext(q, z)
    BY <1>8, <1>10
  <2>2. CASE step[q] = "garble"
    BY <2>1, <2>2, <1>5 DEF GarbledNoticed
  <2>3. CASE Holds(q, y)
    <3>1. z = y
      <4>1. z \in Int /\ y \in Int /\ todo[q] \subseteq Int
        BY <1>1, YearAssumption DEF StoreTypeOK
      <4> QED
        BY <2>1, <2>3, <4>1, CurrentIs DEF Holds
    <3>2. Holds(p, y)
      BY <1>1 DEF Holds
    <3> QED
      BY <3>1, <3>2, <2>1, <2>3, <1>1, <1>5 DEF Noticed, Holds
  <2> QED
    BY <2>1, <2>2, <2>3, <1>9
<1>23. BaseIsCurrent'
  <2> SUFFICES ASSUME NEW q \in Process, NEW z \in Year, step'[q] = "merge", IsNext(q, z)',
                      z \notin overtaken'[q]
               PROVE  file'[z] # "torn" /\ \A b \in Bar : YearOf[b] = z => base'[q][b] = rows'[b]
    BY DEF BaseIsCurrent
  <2>1. q # p /\ step[q] = "merge" /\ IsNext(q, z) /\ z \notin overtaken[q]
    BY <1>5, <1>8, <1>9, <1>10
  <2>2. file[z] # "torn" /\ \A b \in Bar : YearOf[b] = z => base[q][b] = rows[b]
    BY <2>1 DEF BaseIsCurrent
  <2>3. z # y
    BY <2>2, <1>12
  <2> QED
    BY <2>2, <2>3, <1>5, <1>12, <1>13
<1>24. OneWriter'
  <2> SUFFICES ASSUME ~raced PROVE \A r \in Process : step'[r] # "garble"
    BY <1>5, <1>11 DEF OneWriter
  <2>1. \A q \in Process : Holds(q, y) => q = p
    BY <1>1 DEF OneWriter, Holds
  <2> QED
    BY <2>1, <1>8, <1>9 DEF OneWriter
<1> QED
  BY <1>7, <1>14, <1>15, <1>16, <1>19, <1>20, <1>21, <1>22, <1>23, <1>24

LEMMA StoreNextKeeps == StoreInv /\ [StoreNext]_storeVars => StoreInv'
<1> SUFFICES ASSUME StoreInv, [StoreNext]_storeVars PROVE StoreInv'
  OBVIOUS
<1>1. CASE UNCHANGED storeVars
  BY <1>1 DEF storeVars, files, writers, StoreInv, StoreTypeOK, HasNext, IsNext, Holds,
              TornWhileWritten, Emptied, Stored, NothingLeft, Noticed, GarbledNoticed,
              BaseIsCurrent, OneWriter
<1>2. CASE StoreNext
  <2>1. PICK p \in Process :
            (\E bars \in Table : Write(p, bars)) \/ StoreStep(p) \/ Return(p) \/ Crash(p)
    BY <1>2 DEF StoreNext
  <2>2. CASE \E bars \in Table : Write(p, bars)
    BY <2>2, IdleKeeps
  <2>3. CASE ReadFails(p) \/ Return(p) \/ Crash(p)
    <3>1. NoRows \in Table
      BY DEF NoRows, Table
    <3> QED
      BY <2>3, <3>1, IdleKeeps DEF ReadFails, Return, Crash
  <2>4. CASE ReadPartition(p)
    BY <2>4, ReadKeeps
  <2>5. CASE Truncate(p)
    BY <2>5, TruncateKeeps
  <2>6. CASE Finish(p) \/ FinishBeside(p) \/ FinishGarbled(p)
    BY <2>6, FinishKeeps
  <2> QED
    BY <2>1, <2>2, <2>3, <2>4, <2>5, <2>6 DEF StoreStep
<1> QED
  BY <1>1, <1>2

THEOREM StoreInvariant == StoreSpec => []StoreInv
BY InitKeeps, StoreNextKeeps, PTL DEF StoreSpec

LEMMA StoredIsWritten == StoreInv => WriteStored
BY DEF StoreInv, Stored, NothingLeft, WriteStored

\* Whatever else is written, and whoever dies, a write that completes has stored
\* every bar given to it, in every year no other process began to write since.
THEOREM CompletedWritesStored == StoreSpec => []WriteStored
BY StoreInvariant, StoredIsWritten, PTL

-----------------------------------------------------------------------------
(* The files implement a map of bars *)

\* Without a race a year is what its writer has read, or else what is on disk.
KeptFacts ==
    /\ \A b \in Bar, p \in Process : Holds(p, YearOf[b]) => KeptRows[b] = base[p][b]
    /\ \A b \in Bar : (\A p \in Process : ~Holds(p, YearOf[b])) => KeptRows[b] = rows[b]
    /\ \A y \in Year : y \in Lost <=> file[y] = "torn" /\ \A p \in Process : ~Holds(p, y)
    /\ KeptRows = [b \in Bar |-> KeptRows[b]] /\ Lost \subseteq Year

LEMMA KeptIs == StoreInv /\ ~raced => KeptFacts
<1> SUFFICES ASSUME StoreInv, ~raced PROVE KeptFacts
  OBVIOUS
<1>1. \A y \in Year : Writing(y) = {p \in Process : Holds(p, y)}
  BY WritingIs DEF StoreInv
<1>2. \A b \in Bar : YearOf[b] \in Year
  BY YearAssumption
<1>3. ASSUME NEW b \in Bar, NEW p \in Process, Holds(p, YearOf[b])
      PROVE  KeptRows[b] = base[p][b]
  <2>1. Writing(YearOf[b]) = {p}
    BY <1>1, <1>2, <1>3 DEF StoreInv, OneWriter
  <2> QED
    BY <2>1 DEF KeptRows
<1>4. ASSUME NEW b \in Bar, \A p \in Process : ~Holds(p, YearOf[b])
      PROVE  KeptRows[b] = rows[b]
  <2>1. Writing(YearOf[b]) = {}
    BY <1>1, <1>2, <1>4
  <2> QED
    BY <2>1 DEF KeptRows
<1>5. \A y \in Year : y \in Lost <=> file[y] = "torn" /\ \A p \in Process : ~Holds(p, y)
  BY <1>1 DEF Lost
<1>6. KeptRows = [b \in Bar |-> KeptRows[b]] /\ Lost \subseteq Year
  BY DEF KeptRows, Lost
<1> QED
  BY <1>3, <1>4, <1>5, <1>6 DEF KeptFacts

LEMMA KeptIsNext == StoreInv' /\ ~raced' => KeptFacts'
BY KeptIs, PTL

\* A step that leaves the files and those who write them alone.
LEMMA StoreInvisible ==
    ASSUME StoreInv, StoreInv', ~raced, ~raced', UNCHANGED <<file, rows>>,
           \A p \in Process, y \in Year : Holds(p, y)' <=> Holds(p, y),
           \A p \in Process, y \in Year : Holds(p, y) => base'[p] = base[p]
    PROVE  UNCHANGED <<KeptRows, Lost, raced>>
<1>1. \A b \in Bar : YearOf[b] \in Year
  BY YearAssumption
<1>2. ASSUME NEW b \in Bar PROVE KeptRows'[b] = KeptRows[b]
  BY <1>1, KeptIs, KeptIsNext DEF KeptFacts
<1>3. KeptRows' = KeptRows
  BY <1>2, KeptIs, KeptIsNext DEF KeptFacts
<1>4. Lost' = Lost
  BY KeptIs, KeptIsNext DEF KeptFacts
<1>5. raced' = raced
  BY DEF StoreInv, StoreTypeOK
<1> QED
  BY <1>3, <1>4, <1>5

\* Opening the file hides nothing: the writer has all its rows.
LEMMA TruncateInvisible ==
    ASSUME StoreInv, StoreInv', ~raced, ~raced', NEW p \in Process, Truncate(p)
    PROVE  UNCHANGED <<KeptRows, Lost, raced>>
<1>1. PICK y \in Year : y = Current(p) /\ y \in todo[p] /\ IsNext(p, y)
  BY AtYear DEF StoreInv, Truncate
<1>2. /\ step[p] = "merge" /\ step' = [step EXCEPT ![p] = "write"]
      /\ file' = [file EXCEPT ![y] = "torn"]
      /\ rows' = [b \in Bar |-> IF YearOf[b] = y THEN Absent ELSE rows[b]]
      /\ raced' = (raced \/ y \in overtaken[p])
      /\ UNCHANGED <<todo, base>>
  BY <1>1 DEF Truncate
<1>3. y \notin overtaken[p] /\ file[y] # "torn"
      /\ \A b \in Bar : YearOf[b] = y => base[p][b] = rows[b]
  BY <1>1, <1>2 DEF StoreInv, BaseIsCurrent
<1>4. \A q \in Process : ~Holds(q, y)
  BY <1>3 DEF StoreInv, TornWhileWritten
<1>5. Holds(p, y)'
  BY <1>1, <1>2 DEF Holds, IsNext, StoreInv, StoreTypeOK
<1>6. \A q \in Process, z \in Year : z # y => (Holds(q, z)' <=> Holds(q, z))
  <2> SUFFICES ASSUME NEW q \in Process, NEW z \in Year, z # y
               PROVE  Holds(q, z)' <=> Holds(q, z)
    OBVIOUS
  <2>1. IsNext(q, z)' <=> IsNext(q, z)
    BY <1>2 DEF IsNext
  <2>2. CASE q # p
    BY <2>1, <2>2, <1>2 DEF Holds, StoreInv, StoreTypeOK
  <2>3. CASE q = p
    <3>1. y \in Int /\ z \in Int /\ todo[p] \subseteq Int
      BY YearAssumption DEF StoreInv, StoreTypeOK
    <3>2. ~IsNext(p, z)
      BY <1>1, <3>1, CurrentIs
    <3> QED
      BY <2>1, <2>3, <3>2 DEF Holds
  <2> QED
    BY <2>2, <2>3
<1>7. \A z \in Year : file'[z] = IF z = y THEN "torn" ELSE file[z]
  BY <1>2 DEF StoreInv, StoreTypeOK
<1>8. \A b \in Bar : YearOf[b] \in Year
  BY YearAssumption
<1>9. ASSUME NEW b \in Bar PROVE KeptRows'[b] = KeptRows[b]
  <2>1. CASE YearOf[b] = y
    <3>1. KeptRows'[b] = base'[p][b]
      BY <2>1, <1>5, KeptIsNext DEF KeptFacts
    <3>2. KeptRows[b] = rows[b]
      BY <2>1, <1>4, KeptIs DEF KeptFacts
    <3> QED
      BY <3>1, <3>2, <2>1, <1>2, <1>3
  <2>2. CASE YearOf[b] # y
    <3>1. rows'[b] = rows[b]
      BY <2>2, <1>2
    <3> QED
      BY <3>1, <2>2, <1>2, <1>6, <1>8, KeptIs, KeptIsNext DEF KeptFacts
  <2> QED
    BY <2>1, <2>2
<1>10. KeptRows' = KeptRows
  BY <1>9, KeptIs, KeptIsNext DEF KeptFacts
<1>11. \A z \in Year : z \in Lost' <=> z \in Lost
  <2>1. y \notin Lost' /\ y \notin Lost
    BY <1>3, <1>5, KeptIs, KeptIsNext DEF KeptFacts
  <2> QED
    BY <2>1, <1>6, <1>7, KeptIs, KeptIsNext DEF KeptFacts
<1>12. Lost' = Lost
  BY <1>11, KeptIs, KeptIsNext DEF KeptFacts
<1>13. raced' = raced
  BY DEF StoreInv, StoreTypeOK
<1> QED
  BY <1>10, <1>12, <1>13

\* A file that is closed has everything it had, and the bars written.
LEMMA FinishMerges ==
    ASSUME StoreInv, StoreInv', ~raced, ~raced', NEW p \in Process, Finish(p)
    PROVE  Map!Next
<1>1. PICK y \in Year : y = Current(p) /\ y \in todo[p] /\ IsNext(p, y)
  BY AtYear DEF StoreInv, Finish
<1>2. /\ step[p] = "write" /\ file' = [file EXCEPT ![y] = "whole"]
      /\ rows' = [b \in Bar |-> IF YearOf[b] # y THEN rows[b]
                                ELSE IF batch[p][b] # Absent THEN batch[p][b] ELSE base[p][b]]
      /\ todo' = [todo EXCEPT ![p] = todo[p] \ {y}]
      /\ step' = [q \in Process |->
                     IF q = p THEN IF todo[p] \ {y} = {} THEN "done" ELSE "read" ELSE step[q]]
      /\ UNCHANGED <<base, raced>>
  BY <1>1 DEF Finish, Merged, Advance, Remaining
<1>3. Holds(p, y) /\ \A q \in Process, z \in Year : Holds(q, z) /\ Holds(p, z) => q = p
  BY <1>1, <1>2 DEF Holds, StoreInv, OneWriter
<1>4. \A z \in Year : ~Holds(p, z)'
  BY <1>2 DEF Holds, StoreInv, StoreTypeOK
<1>5. \A q \in Process, z \in Year : q # p => (Holds(q, z)' <=> Holds(q, z))
  BY <1>2 DEF Holds, IsNext, StoreInv, StoreTypeOK
<1>6. \A z \in Year : Holds(p, z) => z = y
  <2> SUFFICES ASSUME NEW z \in Year, Holds(p, z) PROVE z = y
    OBVIOUS
  <2>1. y \in Int /\ z \in Int /\ todo[p] \subseteq Int
    BY YearAssumption DEF StoreInv, StoreTypeOK
  <2> QED
    BY <1>1, <2>1, CurrentIs DEF Holds
<1>7. \A q \in Process : ~Holds(q, y)'
  BY <1>3, <1>4, <1>5
<1>8. \A b \in Bar : YearOf[b] \in Year
  BY YearAssumption
<1>9. ASSUME NEW b \in Bar, KeptRows'[b] # KeptRows[b]
      PROVE  YearOf[b] = y /\ KeptRows'[b] # Absent
  <2>1. CASE YearOf[b] # y
    <3>1. \A q \in Process : Holds(q, YearOf[b])' <=> Holds(q, YearOf[b])
      BY <2>1, <1>4, <1>5, <1>6, <1>8
    <3>2. rows'[b] = rows[b]
      BY <2>1, <1>2
    <3> QED
      BY <3>1, <3>2, <1>2, <1>9, KeptIs, KeptIsNext DEF KeptFacts
  <2>2. CASE YearOf[b] = y
    <3>1. KeptRows'[b] = rows'[b] /\ KeptRows[b] = base[p][b]
      BY <2>2, <1>3, <1>7, KeptIs, KeptIsNext DEF KeptFacts
    <3> QED
      BY <3>1, <2>2, <1>2, <1>9
  <2> QED
    BY <2>1, <2>2
<1>10. \A z \in Year : z \in Lost' <=> z \in Lost
  <2>1. y \notin Lost' /\ y \notin Lost
    BY <1>2, <1>3, KeptIs, KeptIsNext DEF StoreInv, StoreTypeOK, KeptFacts
  <2>2. \A z \in Year : z # y => file'[z] = file[z]
    BY <1>2 DEF StoreInv, StoreTypeOK
  <2> QED
    BY <2>1, <2>2, <1>4, <1>5, <1>6, KeptIs, KeptIsNext DEF KeptFacts
<1>11. Lost' = Lost /\ y \notin Lost
  BY <1>3, <1>10, KeptIs, KeptIsNext DEF KeptFacts
<1>12. Map!Merge(y)
  BY <1>2, <1>9, <1>11 DEF Map!Merge
<1> QED
  BY <1>12 DEF Map!Next

\* A file that was being written when its writer died is lost as a whole.
LEMMA CrashLoses ==
    ASSUME StoreInv, StoreInv', ~raced, ~raced', NEW p \in Process, step[p] = "write",
           Leave(p), UNCHANGED files
    PROVE  Map!Next
<1>1. PICK y \in Year : y = Current(p) /\ y \in todo[p] /\ IsNext(p, y)
  BY AtYear DEF StoreInv
<1>2. /\ step' = [step EXCEPT ![p] = "idle"] /\ todo' = [todo EXCEPT ![p] = {}]
      /\ base' = [base EXCEPT ![p] = NoRows] /\ UNCHANGED <<file, rows, raced>>
  BY DEF Leave, files
<1>3. Holds(p, y) /\ \A q \in Process, z \in Year : Holds(q, z) /\ Holds(p, z) => q = p
  BY <1>1 DEF Holds, StoreInv, OneWriter
<1>4. \A z \in Year : ~Holds(p, z)'
  BY <1>2 DEF Holds, StoreInv, StoreTypeOK
<1>5. \A q \in Process, z \in Year :
          q # p => (Holds(q, z)' <=> Holds(q, z)) /\ base'[q] = base[q]
  BY <1>2 DEF Holds, IsNext, StoreInv, StoreTypeOK
<1>6. \A z \in Year : Holds(p, z) => z = y
  <2> SUFFICES ASSUME NEW z \in Year, Holds(p, z) PROVE z = y
    OBVIOUS
  <2>1. y \in Int /\ z \in Int /\ todo[p] \subseteq Int
    BY YearAssumption DEF StoreInv, StoreTypeOK
  <2> QED
    BY <1>1, <2>1, CurrentIs DEF Holds
<1>7. \A q \in Process : ~Holds(q, y)'
  BY <1>3, <1>4, <1>5
<1>8. \A b \in Bar : YearOf[b] \in Year
  BY YearAssumption
<1>9. file[y] = "torn"
  BY <1>3 DEF StoreInv, TornWhileWritten
<1>10. ASSUME NEW b \in Bar
       PROVE  KeptRows'[b] = IF YearOf[b] = y THEN Absent ELSE KeptRows[b]
  <2>1. CASE YearOf[b] # y
    <3>1. \A q \in Process : /\ Holds(q, YearOf[b])' <=> Holds(q, YearOf[b])
                             /\ Holds(q, YearOf[b]) => base'[q] = base[q]
      BY <2>1, <1>4, <1>5, <1>6, <1>8
    <3> QED
      BY <3>1, <2>1, <1>2, KeptIs, KeptIsNext DEF KeptFacts
  <2>2. CASE YearOf[b] = y
    <3>1. KeptRows'[b] = rows'[b]
      BY <2>2, <1>7, KeptIsNext DEF KeptFacts
    <3>2. rows[b] = Absent
      BY <2>2, <1>9 DEF StoreInv, Emptied
    <3> QED
      BY <3>1, <3>2, <2>2, <1>2
  <2> QED
    BY <2>1, <2>2
<1>11. KeptRows' = [b \in Bar |-> IF YearOf[b] = y THEN Absent ELSE KeptRows[b]]
  BY <1>10, KeptIsNext DEF KeptFacts
<1>12. \A z \in Year : z \in Lost' <=> z = y \/ z \in Lost
  BY <1>2, <1>4, <1>5, <1>6, <1>7, <1>9, KeptIs, KeptIsNext DEF KeptFacts
<1>13. Lost' = Lost \cup {y}
  BY <1>12, KeptIs, KeptIsNext DEF KeptFacts
<1>14. Map!Lose(y)
  BY <1>2, <1>11, <1>13 DEF Map!Lose
<1> QED
  BY <1>14 DEF Map!Next

LEMMA MapNext ==
    StoreInv /\ StoreInv' /\ [StoreNext]_storeVars => [Map!Next]_<<KeptRows, Lost, raced>>
<1> SUFFICES ASSUME StoreInv, StoreInv', [StoreNext]_storeVars
             PROVE  [Map!Next]_<<KeptRows, Lost, raced>>
  OBVIOUS
<1>1. CASE raced'
  BY <1>1 DEF Map!Next
<1>2. CASE UNCHANGED storeVars
  BY <1>2 DEF storeVars, files, writers, KeptRows, Lost, Writing, Current, IsNext
<1>3. CASE ~raced' /\ StoreNext
  <2>1. PICK p \in Process :
            (\E bars \in Table : Write(p, bars)) \/ StoreStep(p) \/ Return(p) \/ Crash(p)
    BY <1>3 DEF StoreNext
  <2>2. ~raced /\ ~raced'
    <3>1. raced' = raced \/ Truncate(p)
      BY <2>1 DEF Write, StoreStep, Return, Crash, ReadPartition, ReadFails, Leave,
                  Finish, FinishBeside, FinishGarbled, Advance
    <3>2. CASE raced' = raced
      BY <1>3, <3>2
    <3>3. CASE Truncate(p)
      BY <1>3, <3>3 DEF Truncate
    <3> QED
      BY <3>1, <3>2, <3>3
  <2>3. ASSUME UNCHANGED <<file, rows>>, step[p] \notin {"write", "garble"},
               step'[p] \notin {"write", "garble"},
               \A q \in Process : q # p =>
                   step'[q] = step[q] /\ todo'[q] = todo[q] /\ base'[q] = base[q]
        PROVE  UNCHANGED <<KeptRows, Lost, raced>>
    <3>1. \A q \in Process, y \in Year : /\ Holds(q, y)' <=> Holds(q, y)
                                         /\ Holds(q, y) => base'[q] = base[q]
      BY <2>3 DEF Holds, IsNext
    <3> QED
      BY <2>2, <2>3, <3>1, StoreInvisible
  <2>4. CASE (\E bars \in Table : Write(p, bars)) \/ ReadFails(p) \/ Return(p) \/ ReadPartition(p)
    <3>1. /\ UNCHANGED <<file, rows>>
          /\ step[p] \notin {"write", "garble"} /\ step'[p] \notin {"write", "garble"}
          /\ \A q \in Process : q # p =>
                 step'[q] = step[q] /\ todo'[q] = todo[q] /\ base'[q] = base[q]
      BY <2>4 DEF Write, ReadFails, Return, ReadPartition, Leave, files, StoreInv, StoreTypeOK
    <3> QED
      BY <3>1, <2>3
  <2>5. CASE Truncate(p)
    BY <2>2, <2>5, TruncateInvisible
  <2>6. CASE Finish(p)
    BY <2>2, <2>6, FinishMerges
  <2>7. CASE FinishBeside(p) \/ FinishGarbled(p)
    <3>1. /\ Current(p) \in Year /\ Holds(p, Current(p)) /\ step[p] = "write"
          /\ Writing(Current(p)) # {p}
      BY <2>2, <2>7, AtYear DEF FinishBeside, FinishGarbled, Holds, StoreInv, OneWriter
    <3>2. Writing(Current(p)) = {p}
      BY <2>2, <3>1, WritingIs DEF StoreInv, OneWriter
    <3> QED
      BY <3>1, <3>2
  <2>8. CASE Crash(p)
    <3>1. Leave(p) /\ UNCHANGED <<file, rows>> /\ step'[p] = "idle"
          /\ \A q \in Process : q # p =>
                 step'[q] = step[q] /\ todo'[q] = todo[q] /\ base'[q] = base[q]
      BY <2>8 DEF Crash, Leave, files, StoreInv, StoreTypeOK
    <3>2. CASE step[p] = "write"
      BY <2>2, <2>8, <3>2, CrashLoses DEF Crash
    <3>3. CASE step[p] # "write"
      <4>1. step[p] # "garble"
        BY <2>2 DEF StoreInv, OneWriter
      <4> QED
        BY <3>1, <3>3, <4>1, <2>3
    <3> QED
      BY <3>2, <3>3
  <2> QED
    BY <2>1, <2>4, <2>5, <2>6, <2>7, <2>8 DEF StoreStep
<1> QED
  BY <1>1, <1>2, <1>3

\* Until two processes race for a year, the files are a map of bars: no merge drops
\* a bar, and a year is lost only as a whole, by a death while its file is written.
THEOREM FilesImplementMap == StoreSpec => ImplementsBarMap
<1>1. StoreInit => Map!Init
  BY DEF StoreInit, Map!Init, KeptRows, Lost, Writing, NoRows
<1>2. StoreInv /\ StoreInv' /\ [StoreNext]_storeVars => [Map!Next]_<<KeptRows, Lost, raced>>
  BY MapNext
<1> QED
  BY <1>1, <1>2, StoreInvariant, PTL DEF StoreSpec, ImplementsBarMap, Map!Spec

-----------------------------------------------------------------------------
-----------------------------------------------------------------------------
(* The bars the commands write *)

LEMMA BuiltBars ==
    ASSUME NEW hours, NEW rejected
    PROVE  /\ BuiltFrom(hours) \in Table
           /\ Clean(BuiltFrom(hours), rejected) \in Table
<1>1. \A b \in Bars : HoursOf(b) \cap hours # {} => HoursOf(b) \cap hours \in Version
  BY BarsAssumption DEF HoursOf
<1>2. BuiltFrom(hours) \in Table
  BY <1>1, BarsAssumption DEF BuiltFrom, Table
<1>3. Clean(BuiltFrom(hours), rejected) \in Table
  BY <1>2, BarsAssumption DEF Clean, Table
<1> QED
  BY <1>2, <1>3

\* What validation leaves is what the report is about.
LEMMA GapsOfClean ==
    ASSUME NEW raw, NEW rejected
    PROVE  Gaps(raw, rejected) = Gaps(Clean(raw, rejected), {})
<1>1. In(raw) \ rejected = In(Clean(raw, rejected)) \ {}
  BY DEF In, Clean
<1> QED
  BY <1>1 DEF Gaps

-----------------------------------------------------------------------------
(* Both processes use the store, and nothing else touches it *)

LEMMA StepOfStore == [Next]_vars => [StoreNext]_storeVars
<1> SUFFICES ASSUME [Next]_vars PROVE [StoreNext]_storeVars
  OBVIOUS
<1>1. CASE IngestCommand
  <2>1. \E bars \in Table : Write("ingest", bars)
    BY <1>1, BuiltBars DEF IngestCommand
  <2> QED
    BY <2>1, ProcessAssumption DEF StoreNext
<1>2. CASE IngestExit
  BY <1>2, ProcessAssumption DEF IngestExit, StoreNext
<1>3. CASE Poll
  <2>1. \E bars \in Table : Write("live", bars)
    BY <1>3, BuiltBars DEF Poll
  <2> QED
    BY <2>1, ProcessAssumption DEF StoreNext
<1>4. CASE ReadBack
  BY <1>4, ProcessAssumption DEF ReadBack, StoreNext
<1>5. CASE BarClose
  BY <1>5 DEF BarClose
<1>6. CASE \E p \in Process : WriteStep(p)
  BY <1>6 DEF WriteStep, StoreNext
<1>7. CASE \E p \in Process : Dies(p)
  BY <1>7 DEF Dies, StoreNext
<1>8. CASE UNCHANGED vars
  BY <1>8 DEF vars
<1> QED
  BY <1>1, <1>2, <1>3, <1>4, <1>5, <1>6, <1>7, <1>8 DEF Next

LEMMA UsesStore == Spec => StoreSpec
<1>1. Init => StoreInit
  BY DEF Init
<1> QED
  BY <1>1, StepOfStore, PTL DEF Spec, StoreSpec

LEMMA StoreKept == Spec => []StoreInv
BY UsesStore, StoreInvariant, PTL

\* A completed write of either process has stored every bar given to it, in every
\* year the other did not begin to write since: both years of a poll in January, and
\* whatever was interrupted before.
THEOREM WritesAreStored == Spec => []WriteStored
BY UsesStore, CompletedWritesStored, PTL

\* Until the two race for a year, what they have in files is a map of bars: it loses
\* no bar but with the whole year, when a process dies while it writes the file.
THEOREM MapIsImplemented == Spec => ImplementsBarMap
BY UsesStore, FilesImplementMap, PTL

-----------------------------------------------------------------------------
(* Types *)

LEMMA InitTypes == Init => TypeOK
<1>1. NoRows \in Table
  BY DEF NoRows, Table
<1>2. Init => StoreTypeOK
  BY InitKeeps DEF Init, StoreInv
<1> QED
  <2>1. ASSUME Init PROVE now \in 0 .. Horizon
    BY <2>1, HoursAssumption DEF Init
  <2>2. ASSUME Init PROVE runs \in 0 .. MaxRuns /\ deaths \in 0 .. MaxDeaths
    BY <2>2, HoursAssumption DEF Init
  <2>3. ASSUME Init PROVE gaps \subseteq Bars /\ view \in Table /\ beside \subseteq Year
    BY <2>3, <1>1 DEF Init
  <2>4. ASSUME Init PROVE fresh \in BOOLEAN
    BY <2>4 DEF Init
  <2> QED
    BY <1>2, <2>1, <2>2, <2>3, <2>4 DEF TypeOK

LEMMA NextTypes == TypeOK /\ StoreTypeOK' /\ [Next]_vars => TypeOK'
<1> SUFFICES ASSUME TypeOK, StoreTypeOK', [Next]_vars PROVE TypeOK'
  OBVIOUS
<1> USE HoursAssumption
<1>1. NoRows \in Table /\ \A raw, rejected : Gaps(raw, rejected) \subseteq Bars
  BY DEF NoRows, Table, Gaps, In
<1>2. CASE IngestCommand
  BY <1>1, <1>2 DEF IngestCommand, TypeOK
<1>3. CASE IngestExit
  BY <1>3 DEF IngestExit, TypeOK
<1>4. CASE Poll
  BY <1>1, <1>4 DEF Poll, Unread, TypeOK
<1>5. CASE ReadBack
  <2>1. rows \in Table /\ overtaken["live"] \subseteq Year
    BY ProcessAssumption DEF TypeOK, StoreTypeOK
  <2> QED
    BY <1>5, <2>1 DEF ReadBack, TypeOK
<1>6. CASE BarClose
  <2>1. now' \in 0 .. Horizon
    BY <1>6 DEF BarClose, TypeOK
  <2> QED
    BY <1>1, <1>6, <2>1 DEF BarClose, Unread, TypeOK
<1>7. CASE \E p \in Process : WriteStep(p)
  BY <1>7 DEF WriteStep, TypeOK
<1>8. CASE \E p \in Process : Dies(p)
  BY <1>8 DEF Dies, TypeOK
<1>9. CASE UNCHANGED vars
  BY <1>9 DEF vars, TypeOK
<1> QED
  BY <1>2, <1>3, <1>4, <1>5, <1>6, <1>7, <1>8, <1>9 DEF Next

\* The variables keep their types.
THEOREM TypeCorrect == Spec => []TypeOK
<1>1. StoreInv => StoreTypeOK
  BY DEF StoreInv
<1> QED
  BY <1>1, InitTypes, NextTypes, StoreKept, PTL DEF Spec

-----------------------------------------------------------------------------
(* While a process is in write(), its bars and what it knows of them stand. *)

Stands(p) ==
    /\ step[p] # "idle" /\ UNCHANGED batch[p]
    /\ p = "ingest" => UNCHANGED gaps
    /\ p = "live" => UNCHANGED now

LEMMA StandsWhile ==
    ASSUME TypeOK, [Next]_vars, NEW p \in Process
    PROVE  \/ step'[p] = "idle" \/ Stands(p)
           \/ p = "ingest" /\ IngestCommand
           \/ p = "live" /\ Poll
<1> USE ProcessAssumption DEF Stands
<1>1. CASE IngestCommand
  <2>1. \A q \in Process : q # "ingest" => step'[q] = step[q] /\ batch'[q] = batch[q]
    BY <1>1 DEF IngestCommand, Write, TypeOK, StoreTypeOK
  <2> QED
    BY <1>1, <2>1 DEF IngestCommand
<1>2. CASE Poll
  <2>1. \A q \in Process : q # "live" => step'[q] = step[q] /\ batch'[q] = batch[q]
    BY <1>2 DEF Poll, Write, TypeOK, StoreTypeOK
  <2> QED
    BY <1>2, <2>1 DEF Poll
<1>3. CASE \E q \in Process : Leave(q) /\ now' = now /\ (q # "ingest" => gaps' = gaps)
  <2>1. PICK q \in Process : Leave(q) /\ now' = now /\ (q # "ingest" => gaps' = gaps)
    BY <1>3
  <2>2. /\ step'[q] = "idle"
        /\ \A r \in Process : r # q => step'[r] = step[r] /\ batch'[r] = batch[r]
    BY <2>1 DEF Leave, TypeOK, StoreTypeOK
  <2> QED
    BY <2>1, <2>2
<1>4. CASE IngestExit \/ ReadBack \/ \E q \in Process : Dies(q)
  BY <1>3, <1>4 DEF IngestExit, ReadBack, Return, Dies, Crash
<1>5. CASE BarClose
  BY <1>5 DEF BarClose, storeVars, writers
<1>6. CASE \E q \in Process : WriteStep(q)
  <2>1. PICK q \in Process : StoreStep(q) /\ UNCHANGED <<now, gaps>>
    BY <1>6 DEF WriteStep
  <2>2. CASE ReadFails(q)
    BY <1>3, <2>1, <2>2 DEF ReadFails
  <2>3. CASE ReadPartition(q) \/ Truncate(q)
    <3>1. UNCHANGED batch /\ \A r \in Process : step'[r] # "idle" => step[r] # "idle"
      BY <2>3 DEF ReadPartition, Truncate, TypeOK, StoreTypeOK
    <3> QED
      BY <2>1, <3>1
  <2>4. CASE Finish(q) \/ FinishBeside(q) \/ FinishGarbled(q)
    <3>1. step[q] # "idle"
      BY <2>4 DEF Finish, FinishBeside, FinishGarbled
    <3>2. PICK others \in SUBSET (Writing(Current(q)) \ {q}) : Advance(q, others)
      BY <2>4 DEF Finish, FinishBeside, FinishGarbled
    <3>3. UNCHANGED batch /\ \A r \in Process : step'[r] # "idle" => step[r] # "idle"
      BY <3>1, <3>2 DEF Advance, Writing
    <3> QED
      BY <2>1, <3>3
  <2> QED
    BY <2>1, <2>2, <2>3, <2>4 DEF StoreStep
<1>7. CASE UNCHANGED vars
  BY <1>7 DEF vars, storeVars, writers
<1> QED
  BY <1>1, <1>2, <1>4, <1>5, <1>6, <1>7 DEF Next

-----------------------------------------------------------------------------
(* What the command reports *)

\* The report is about the bars the command writes.
Reported == step["ingest"] # "idle" => gaps = Gaps(batch["ingest"], {})

LEMMA ReportedNext == TypeOK /\ Reported /\ [Next]_vars => Reported'
<1> SUFFICES ASSUME TypeOK, Reported, [Next]_vars, step'["ingest"] # "idle"
             PROVE  gaps' = Gaps(batch["ingest"], {})'
  BY DEF Reported
<1>1. Gaps(batch["ingest"], {})' = Gaps(batch'["ingest"], {})
  BY DEF Gaps, In
<1>2. CASE IngestCommand
  <2>1. PICK raw, rejected : /\ gaps' = Gaps(raw, rejected)
                             /\ batch' = [batch EXCEPT !["ingest"] = Clean(raw, rejected)]
    BY <1>2 DEF IngestCommand, Write
  <2>2. batch'["ingest"] = Clean(raw, rejected)
    BY <2>1, ProcessAssumption DEF TypeOK, StoreTypeOK
  <2>3. gaps' = Gaps(Clean(raw, rejected), {})
    BY <2>1, GapsOfClean
  <2> QED
    BY <1>1, <2>2, <2>3
<1>3. CASE Stands("ingest")
  BY <1>1, <1>3 DEF Stands, Reported
<1> QED
  BY <1>2, <1>3, StandsWhile, ProcessAssumption

\* A hole lies between two bars that are next to each other.
LEMMA Neighbours ==
    ASSUME NEW kept \in SUBSET Bars, NEW b \in Bars \ kept, Before(b, kept) \notin {{}, kept}
    PROVE  \E c, d \in kept : c < b /\ b < d /\ kept \cap (c + 1 .. d - 1) = {}
<1> DEFINE Above == {d \in kept : b < d}
           Below == {b - c : c \in Before(b, kept)}
<1>1. Bars \subseteq Nat /\ b \in Nat /\ kept \subseteq Nat
  BY HoursAssumption DEF Bars
<1>2. Above \in SUBSET Nat /\ Above # {}
  <2>1. PICK d \in kept : d \notin Before(b, kept)
    BY DEF Before
  <2>2. d \in Above
    BY <2>1, <1>1 DEF Before
  <2> QED
    BY <2>2, <1>1
<1>3. Below \in SUBSET Nat /\ Below # {}
  <2>1. \A c \in Before(b, kept) : b - c \in Nat
    BY <1>1 DEF Before
  <2>2. Before(b, kept) # {}
    OBVIOUS
  <2> QED
    BY <2>1, <2>2
<1>4. PICK d \in Above : \A x \in Above : d <= x
  BY <1>2, LeastNumber
<1>5. PICK n \in Below : \A x \in Below : n <= x
  BY <1>3, LeastNumber
<1>6. PICK c \in Before(b, kept) : n = b - c
  BY <1>5
<1>7. c \in kept /\ c < b /\ d \in kept /\ b < d
  BY <1>4, <1>6 DEF Before
<1>8. \A x \in kept : ~(c < x /\ x < d)
  <2> SUFFICES ASSUME NEW x \in kept, c < x, x < d PROVE FALSE
    OBVIOUS
  <2>1. x # b /\ x \in Nat /\ c \in Nat /\ d \in Nat
    BY <1>1, <1>7
  <2>2. CASE b < x
    BY <2>1, <2>2, <1>4
  <2>3. CASE x < b
    <3>1. b - x \in Below
      BY <2>3 DEF Before
    <3>2. b - c <= b - x
      BY <3>1, <1>5, <1>6
    <3> QED
      BY <3>2, <2>1, <1>1
  <2> QED
    BY <2>1, <2>2, <2>3, <1>1
<1>9. kept \cap (c + 1 .. d - 1) = {}
  BY <1>1, <1>7, <1>8
<1> QED
  BY <1>7, <1>9

LEMMA ReportedIsEnough == StoreTypeOK /\ WriteStored /\ Reported => LossReported
<1> SUFFICES ASSUME StoreTypeOK, WriteStored, Reported, step["ingest"] = "done",
                    NEW b \in Bars
             PROVE  LET kept == In(batch["ingest"])
                    IN  \/ file[YearOf[b]] = "whole" /\ rows[b] # Absent
                        \/ YearOf[b] \in overtaken["ingest"]
                        \/ Before(b, kept) \in {{}, kept}
                        \/ \E c, d \in kept :
                              /\ c < b /\ b < d /\ kept \cap (c + 1 .. d - 1) = {}
                              /\ d \in gaps \/ d - c <= GapTolerance
  BY DEF LossReported
<1> DEFINE kept == In(batch["ingest"])
<1>1. kept \in SUBSET Bars /\ Bars \subseteq Nat
  BY HoursAssumption DEF In, Bars
<1>2. gaps = {d \in kept : Before(d, kept) # {} /\ \A c \in Before(d, kept) : d - c > GapTolerance}
  BY DEF Reported, Gaps
<1>3. CASE b \in kept
  BY <1>3, ProcessAssumption, BarsAssumption DEF WriteStored, In
<1>4. CASE b \notin kept /\ Before(b, kept) \notin {{}, kept}
  <2> HIDE DEF kept
  <2>1. PICK c, d \in kept : c < b /\ b < d /\ kept \cap (c + 1 .. d - 1) = {}
    BY <1>1, <1>4, Neighbours
  <2>2. c \in Nat /\ d \in Nat /\ b \in Nat /\ GapTolerance \in Nat
    BY <1>1, HoursAssumption
  <2>3. c \in Before(d, kept)
    BY <2>1, <2>2 DEF Before
  <2>4. CASE d - c > GapTolerance
    <3>1. \A e \in Before(d, kept) : d - e > GapTolerance
      <4> SUFFICES ASSUME NEW e \in Before(d, kept) PROVE d - e > GapTolerance
        OBVIOUS
      <4>1. e \in kept /\ e \in Nat /\ e < d
        BY <1>1 DEF Before
      <4>2. e <= c
        BY <4>1, <2>1, <2>2
      <4> QED
        BY <4>1, <4>2, <2>2, <2>4
    <3>2. d \in gaps
      BY <3>1, <2>3, <1>2
    <3> QED
      BY <3>2, <2>1 DEF kept
  <2>5. CASE d - c <= GapTolerance
    BY <2>5, <2>1 DEF kept
  <2> QED
    BY <2>2, <2>4, <2>5
<1> QED
  BY <1>3, <1>4

\* Whatever failed to download or was rejected, and however the live loop writes
\* beside it: between the bars the command kept there is no hole that it has not
\* reported but those within the tolerance.
THEOREM LossIsReported == Spec => []LossReported
<1>1. Init => Reported
  BY ProcessAssumption DEF Init, StoreInit, Reported
<1>2. Spec => []Reported
  BY <1>1, ReportedNext, TypeCorrect, PTL DEF Spec
<1>3. StoreInv => StoreTypeOK
  BY DEF StoreInv
<1> QED
  BY <1>2, <1>3, StoreKept, WritesAreStored, ReportedIsEnough, PTL

-----------------------------------------------------------------------------
(* What a poll reads *)

\* A bar the poll is owed: it is in the window, and validation cannot reject it.
Owed(b) ==
    /\ now - Window <= b /\ b < now
    /\ HoursOf(b) \cap Traded # {}
    /\ b \notin SpikeBars \cup SpreadRejected(BuiltFrom(Traded), "mt5")

\* The poll writes it whole.
LiveBatch ==
    step["live"] # "idle" =>
        \A b \in Bars : Owed(b) => batch["live"][b] = HoursOf(b) \cap Traded

Polled == {h \in Traded : now - Window <= h \div BarLen /\ h \div BarLen < now}

LEMMA PollFetches ==
    ASSUME NEW b \in Bars, Owed(b), NEW rejected \in Rejections(BuiltFrom(Polled), "mt5")
    PROVE  Clean(BuiltFrom(Polled), rejected)[b] = HoursOf(b) \cap Traded
<1>1. HoursOf(b) \cap Polled = HoursOf(b) \cap Traded
  BY DEF HoursOf, Polled, Owed
<1>2. BuiltFrom(Polled)[b] = HoursOf(b) \cap Traded /\ BuiltFrom(Traded)[b] = HoursOf(b) \cap Traded
  BY <1>1 DEF BuiltFrom, Owed
<1>3. b \notin SpreadRejected(BuiltFrom(Polled), "mt5")
  <2>1. b \notin SpreadRejected(BuiltFrom(Traded), "mt5")
    BY DEF Owed
  <2> QED
    BY <1>2, <2>1 DEF SpreadRejected, In
<1>4. \A S : MayBeSpike(S) \subseteq SpikeBars
  BY DEF MayBeSpike
<1>5. rejected \subseteq SpreadRejected(BuiltFrom(Polled), "mt5") \cup SpikeBars
  BY <1>4 DEF Rejections
<1>6. b \notin rejected
  BY <1>3, <1>5 DEF Owed
<1> QED
  BY <1>2, <1>6 DEF Clean

LEMMA LiveBatchNext == TypeOK /\ LiveBatch /\ [Next]_vars => LiveBatch'
<1> SUFFICES ASSUME TypeOK, LiveBatch, [Next]_vars, step'["live"] # "idle",
                    NEW b \in Bars, Owed(b)'
             PROVE  batch'["live"][b] = HoursOf(b) \cap Traded
  BY DEF LiveBatch
<1>1. now' = now => Owed(b)
  BY DEF Owed
<1>2. CASE Poll
  <2>1. PICK rejected \in Rejections(BuiltFrom(Polled), "mt5") :
            batch' = [batch EXCEPT !["live"] = Clean(BuiltFrom(Polled), rejected)]
    BY <1>2 DEF Poll, Write, Polled
  <2>2. batch'["live"] = Clean(BuiltFrom(Polled), rejected)
    BY <2>1, ProcessAssumption DEF TypeOK, StoreTypeOK
  <2>3. now' = now
    BY <1>2 DEF Poll
  <2> QED
    BY <1>1, <2>2, <2>3, PollFetches
<1>3. CASE Stands("live")
  BY <1>1, <1>3 DEF Stands, LiveBatch
<1> QED
  BY <1>2, <1>3, StandsWhile, ProcessAssumption

\* What has been read stays as it was, or is being read.
LEMMA WholeNext ==
    TypeOK /\ WriteStored /\ LiveBatch /\ WindowWhole /\ [Next]_vars => WindowWhole'
<1> SUFFICES ASSUME TypeOK, WriteStored, LiveBatch, WindowWhole, [Next]_vars, fresh'
             PROVE  WindowWhole'
  BY DEF WindowWhole
<1>1. CASE UNCHANGED <<now, view, beside, fresh>>
  BY <1>1 DEF WindowWhole, HoursOf
<1>2. CASE ReadBack /\ Readable
  <2> SUFFICES ASSUME NEW b \in Bars, Owed(b), YearOf[b] \notin beside'
               PROVE  HoursOf(b) \cap Traded = view'[b]
    <3>1. \A b \in Bars : b \in Int /\ now - Window \in Int /\ now \in Int
      BY HoursAssumption DEF TypeOK, Bars
    <3>2. \A b \in Bars : \/ Owed(b) \/ b < now - Window \/ b >= now
                            \/ HoursOf(b) \cap Traded = {}
                            \/ b \in SpikeBars \cup SpreadRejected(BuiltFrom(Traded), "mt5")
      BY <3>1 DEF Owed
    <3>3. now' = now
      BY <1>2 DEF ReadBack
    <3> QED
      BY <3>2, <3>3 DEF WindowWhole, HoursOf
  <2>1. /\ step["live"] = "done" /\ view' = rows /\ beside' = overtaken["live"]
    BY <1>2 DEF ReadBack, Return
  <2>2. batch["live"][b] = HoursOf(b) \cap Traded
    BY <2>1 DEF LiveBatch
  <2>3. batch["live"][b] # Absent
    BY <2>2, BarsAssumption, VersionAssumption DEF Owed, HoursOf
  <2>4. rows[b] = batch["live"][b]
    BY <2>1, <2>3, ProcessAssumption, BarsAssumption DEF WriteStored
  <2> QED
    BY <2>1, <2>2, <2>4
<1>3. CASE ReadBack /\ ~Readable
  BY <1>1, <1>3 DEF ReadBack
<1>4. CASE IngestCommand \/ IngestExit \/ \E p \in Process : WriteStep(p) \/ Dies(p)
  BY <1>1, <1>4 DEF IngestCommand, IngestExit, WriteStep, Dies
<1>5. CASE Poll \/ BarClose
  BY <1>5 DEF Poll, BarClose, Unread
<1>6. CASE UNCHANGED vars
  BY <1>1, <1>6 DEF vars
<1> QED
  BY <1>2, <1>3, <1>4, <1>5, <1>6 DEF Next

\* A poll that gets through to the strategy reads every bar of its window whole, also
\* over bars the command had stored with hours missing, unless validation may reject
\* the bar or the command was writing its year at the time.
THEOREM WindowIsWhole == Spec => []WindowWhole
<1>1. Init => LiveBatch /\ WindowWhole
  BY ProcessAssumption DEF Init, StoreInit, LiveBatch, WindowWhole
<1>2. Spec => []LiveBatch
  BY <1>1, LiveBatchNext, TypeCorrect, PTL DEF Spec
<1> QED
  BY <1>1, <1>2, WholeNext, TypeCorrect, WritesAreStored, PTL DEF Spec

=============================================================================
