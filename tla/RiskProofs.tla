----------------------------- MODULE RiskProofs -----------------------------
(***************************************************************************)
(* What the gate's limits are worth over the life of an account: for every *)
(* set of symbols and groups, every limit and every sizer, whatever order  *)
(* trades are opened, closed and stopped out in.                           *)
(***************************************************************************)
EXTENDS RiskBook, NumberFacts, FiniteSetTheorems, FunctionTheorems

-----------------------------------------------------------------------------
(* The sum of the risks of finitely many positions *)

Weighed(S) == IsFiniteSet(S) /\ \A p \in S : p.risk \in Int

First(S) == CHOOSE p \in S : TRUE

\* One step of the fold RiskOf is: the risk of some position, and of the others.
Folded(g, S) ==
    [s \in SUBSET S |-> IF s = {} THEN 0 ELSE First(s).risk + g[s \ {First(s)}]]

LEMMA FirstOf == ASSUME NEW S, S # {} PROVE First(S) \in S
BY DEF First

LEMMA FoldedRisk == ASSUME NEW S PROVE RiskOf(S) = (CHOOSE g : g = Folded(g, S))[S]
BY Zenon DEF RiskOf, FoldSet, MapThenFoldSet, Folded, First

\* A set without one of its elements.
LEMMA Smaller ==
    ASSUME NEW S, IsFiniteSet(S), NEW x \in S
    PROVE  /\ IsFiniteSet(S \ {x}) /\ Cardinality(S) \in Nat
           /\ Cardinality(S \ {x}) \in Nat /\ Cardinality(S \ {x}) = Cardinality(S) - 1
BY FS_RemoveElement, FS_CardinalityType

\* The sums of the subsets with at most n positions.
SubsetsUpto(n, S) == {s \in SUBSET S : Cardinality(s) <= n}

Sums(n, S, g) ==
    \A s \in SubsetsUpto(n, S) :
        g[s] = IF s = {} THEN 0 ELSE First(s).risk + g[s \ {First(s)}]

LEMMA PartialSums ==
    ASSUME NEW S, Weighed(S), NEW n \in Nat
    PROVE  \E g \in [SubsetsUpto(n, S) -> Int] : Sums(n, S, g)
<1> DEFINE Lacking == {m \in Nat : ~ \E g \in [SubsetsUpto(m, S) -> Int] : Sums(m, S, g)}
<1>1. \A s \in SUBSET S : IsFiniteSet(s) /\ Cardinality(s) \in Nat
  BY FS_Subset, FS_CardinalityType DEF Weighed
<1>2. SUFFICES ASSUME Lacking # {} PROVE FALSE
  <2>1. PICK g \in [SubsetsUpto(n, S) -> Int] : Sums(n, S, g)
    BY <1>2
  <2> QED
    BY <2>1
<1>3. PICK m \in Lacking : \A k \in Lacking : m <= k
  <2>1. Lacking \in SUBSET Nat
    OBVIOUS
  <2> HIDE DEF Lacking
  <2> QED
    BY <1>2, <2>1, LeastNumber
<1>4. m \in Nat /\ ~ \E g \in [SubsetsUpto(m, S) -> Int] : Sums(m, S, g)
  OBVIOUS
<1>5. CASE m = 0
  <2> DEFINE g == [s \in SubsetsUpto(m, S) |-> 0]
  <2>1. \A s \in SubsetsUpto(m, S) : s = {}
    BY <1>1, <1>5, FS_EmptySet DEF SubsetsUpto
  <2>2. g \in [SubsetsUpto(m, S) -> Int] /\ Sums(m, S, g)
    BY <2>1 DEF Sums
  <2> QED
    BY <1>4, <2>2
<1>6. CASE m # 0
  <2>1. m - 1 \in Nat /\ ~(m <= m - 1)
    BY <1>4, <1>6
  <2>2. PICK h \in [SubsetsUpto(m - 1, S) -> Int] : Sums(m - 1, S, h)
    BY <1>3, <2>1
  <2> DEFINE g == [s \in SubsetsUpto(m, S) |->
                      IF s = {} THEN 0 ELSE First(s).risk + h[s \ {First(s)}]]
  <2>3. ASSUME NEW s \in SubsetsUpto(m, S), s # {}
        PROVE  First(s).risk \in Int /\ s \ {First(s)} \in SubsetsUpto(m - 1, S)
    <3>1. First(s) \in s /\ First(s) \in S
      BY <2>3, FirstOf DEF SubsetsUpto
    <3>2. /\ Cardinality(s) \in Nat /\ Cardinality(s \ {First(s)}) \in Nat
          /\ Cardinality(s \ {First(s)}) = Cardinality(s) - 1
      BY <1>1, <3>1, Smaller DEF SubsetsUpto
    <3> QED
      BY <1>4, <3>1, <3>2 DEF Weighed, SubsetsUpto
  <2>4. g \in [SubsetsUpto(m, S) -> Int]
    <3> SUFFICES ASSUME NEW s \in SubsetsUpto(m, S)
                 PROVE  (IF s = {} THEN 0 ELSE First(s).risk + h[s \ {First(s)}]) \in Int
      OBVIOUS
    <3>1. CASE s = {}
      BY <3>1
    <3>2. CASE s # {}
      <4>1. First(s).risk \in Int /\ s \ {First(s)} \in SubsetsUpto(m - 1, S)
        BY <2>3, <3>2
      <4>2. h[s \ {First(s)}] \in Int
        BY <2>2, <4>1
      <4> QED
        BY <3>2, <4>1, <4>2
    <3> QED
      BY <3>1, <3>2
  <2>5. \A s \in SubsetsUpto(m - 1, S) : s \in SubsetsUpto(m, S) /\ g[s] = h[s]
    <3>1. \A s \in SubsetsUpto(m - 1, S) : s \in SubsetsUpto(m, S)
      BY <1>1, <1>4 DEF SubsetsUpto
    <3> QED
      BY <2>2, <3>1 DEF Sums
  <2>6. Sums(m, S, g)
    <3> SUFFICES ASSUME NEW s \in SubsetsUpto(m, S)
                 PROVE  g[s] = IF s = {} THEN 0 ELSE First(s).risk + g[s \ {First(s)}]
      BY DEF Sums
    <3>1. g[s] = IF s = {} THEN 0 ELSE First(s).risk + h[s \ {First(s)}]
      OBVIOUS
    <3> HIDE DEF g
    <3>2. s # {} => g[s \ {First(s)}] = h[s \ {First(s)}]
      BY <2>3, <2>5
    <3> QED
      BY <3>1, <3>2
  <2> HIDE DEF g
  <2> QED
    BY <1>4, <2>4, <2>6
<1> QED
  BY <1>5, <1>6

\* Two folds agree where they are both defined.
LEMMA FoldsAgree ==
    ASSUME NEW S, Weighed(S), NEW T \in SUBSET S,
           NEW g, g = Folded(g, S), NEW h, h = Folded(h, T)
    PROVE  \A s \in SUBSET T : g[s] = h[s]
<1> DEFINE Differ == {Cardinality(s) : s \in {r \in SUBSET T : g[r] # h[r]}}
<1>1. \A s \in SUBSET T : IsFiniteSet(s) /\ Cardinality(s) \in Nat
  BY FS_Subset, FS_CardinalityType DEF Weighed
<1>2. SUFFICES ASSUME Differ # {} PROVE FALSE
  OBVIOUS
<1>3. PICK m \in Differ : \A k \in Differ : m <= k
  <2>1. Differ \in SUBSET Nat
    BY <1>1
  <2> HIDE DEF Differ
  <2> QED
    BY <1>2, <2>1, LeastNumber
<1>4. PICK s \in SUBSET T : m = Cardinality(s) /\ g[s] # h[s]
  OBVIOUS
<1>5. \A r \in SUBSET T : Cardinality(r) < Cardinality(s) => g[r] = h[r]
  <2> SUFFICES ASSUME NEW r \in SUBSET T, Cardinality(r) < Cardinality(s), g[r] # h[r]
               PROVE  FALSE
    OBVIOUS
  <2>1. Cardinality(r) \in Differ
    OBVIOUS
  <2> HIDE DEF Differ
  <2>2. Cardinality(s) <= Cardinality(r)
    BY <1>3, <1>4, <2>1
  <2> QED
    BY <1>1, <2>2
<1>6. /\ g[s] = IF s = {} THEN 0 ELSE First(s).risk + g[s \ {First(s)}]
      /\ h[s] = IF s = {} THEN 0 ELSE First(s).risk + h[s \ {First(s)}]
  <2>1. /\ Folded(g, S)[s] = IF s = {} THEN 0 ELSE First(s).risk + g[s \ {First(s)}]
        /\ Folded(h, T)[s] = IF s = {} THEN 0 ELSE First(s).risk + h[s \ {First(s)}]
    BY DEF Folded
  <2> QED
    BY <2>1
<1>7. s # {}
  BY <1>4, <1>6
<1>8. g[s \ {First(s)}] = h[s \ {First(s)}]
  <2>1. First(s) \in s
    BY <1>7, FirstOf
  <2>2. Cardinality(s \ {First(s)}) < Cardinality(s)
    BY <1>1, <2>1, Smaller
  <2> QED
    BY <1>5, <2>2
<1> QED
  BY <1>4, <1>6, <1>8

LEMMA FoldExists ==
    ASSUME NEW S, Weighed(S)
    PROVE  \E g \in [SUBSET S -> Int] : g = Folded(g, S)
<1>0. PICK n \in Nat : n = Cardinality(S)
  BY FS_CardinalityType DEF Weighed
<1>1. \A s \in SUBSET S : Cardinality(s) \in Nat /\ Cardinality(s) <= n
  BY <1>0, FS_Subset, FS_CardinalityType DEF Weighed
<1>2. PICK g \in [SubsetsUpto(n, S) -> Int] : Sums(n, S, g)
  BY PartialSums
<1>3. SubsetsUpto(n, S) = SUBSET S
  BY <1>1 DEF SubsetsUpto
<1>4. g \in [SUBSET S -> Int]
  BY <1>2, <1>3
<1>5. g = Folded(g, S)
  BY <1>2, <1>3, <1>4 DEF Sums, Folded
<1> QED
  BY <1>4, <1>5

\* RiskOf is the value at S of any such fold over a set that S is part of.
LEMMA RiskIsFold ==
    ASSUME NEW S, Weighed(S), NEW g, g = Folded(g, S), NEW T \in SUBSET S
    PROVE  RiskOf(T) = g[T]
<1>1. Weighed(T)
  BY FS_Subset DEF Weighed
<1>2. PICK f \in [SUBSET T -> Int] : f = Folded(f, T)
  BY <1>1, FoldExists
<1> DEFINE h == CHOOSE f1 : f1 = Folded(f1, T)
<1>3. h = Folded(h, T)
  BY <1>2
<1>4. RiskOf(T) = h[T]
  BY FoldedRisk
<1> HIDE DEF h
<1>5. T \in SUBSET T
  OBVIOUS
<1> QED
  BY <1>3, <1>4, <1>5, FoldsAgree

LEMMA RiskOfNone == RiskOf({}) = 0
<1>1. Weighed({})
  BY FS_EmptySet DEF Weighed
<1>2. PICK g \in [SUBSET {} -> Int] : g = Folded(g, {})
  BY <1>1, FoldExists
<1>3. RiskOf({}) = g[{}]
  BY <1>1, <1>2, RiskIsFold
<1>4. Folded(g, {})[{}] = 0
  BY DEF Folded
<1> QED
  BY <1>2, <1>3, <1>4

LEMMA RiskOfFirst ==
    ASSUME NEW S, Weighed(S), S # {}
    PROVE  RiskOf(S) = First(S).risk + RiskOf(S \ {First(S)})
<1>1. PICK g \in [SUBSET S -> Int] : g = Folded(g, S)
  BY FoldExists
<1>2. S \in SUBSET S /\ S \ {First(S)} \in SUBSET S
  OBVIOUS
<1>3. RiskOf(S) = g[S] /\ RiskOf(S \ {First(S)}) = g[S \ {First(S)}]
  BY <1>1, <1>2, RiskIsFold
<1>4. Folded(g, S)[S] = First(S).risk + g[S \ {First(S)}]
  BY DEF Folded
<1> QED
  BY <1>1, <1>3, <1>4

LEMMA RiskType == ASSUME NEW S, Weighed(S) PROVE RiskOf(S) \in Int
<1>1. PICK g \in [SUBSET S -> Int] : g = Folded(g, S)
  BY FoldExists
<1>2. RiskOf(S) = g[S]
  BY <1>1, RiskIsFold
<1> QED
  BY <1>2

\* The order in which the risks are added does not matter.
LEMMA RiskOfOne ==
    ASSUME NEW S, Weighed(S), NEW x \in S
    PROVE  RiskOf(S) = x.risk + RiskOf(S \ {x})
<1> DEFINE Good(s) == \A y \in s : RiskOf(s) = y.risk + RiskOf(s \ {y})
           Bad == {Cardinality(s) : s \in {r \in SUBSET S : ~Good(r)}}
<1>1. \A s \in SUBSET S : Weighed(s) /\ IsFiniteSet(s) /\ Cardinality(s) \in Nat
  BY FS_Subset, FS_CardinalityType DEF Weighed
<1>2. SUFFICES ASSUME Bad # {} PROVE FALSE
  OBVIOUS
<1>3. PICK m \in Bad : \A k \in Bad : m <= k
  <2>1. Bad \in SUBSET Nat
    BY <1>1
  <2> HIDE DEF Bad
  <2> QED
    BY <1>2, <2>1, LeastNumber
<1>4. PICK s \in SUBSET S : m = Cardinality(s) /\ ~Good(s)
  OBVIOUS
<1>5. \A r \in SUBSET S : Cardinality(r) < Cardinality(s) => Good(r)
  <2> SUFFICES ASSUME NEW r \in SUBSET S, Cardinality(r) < Cardinality(s), ~Good(r)
               PROVE  FALSE
    OBVIOUS
  <2> HIDE DEF Good
  <2>1. Cardinality(r) \in Bad
    OBVIOUS
  <2> HIDE DEF Bad
  <2>2. Cardinality(s) <= Cardinality(r)
    BY <1>3, <1>4, <2>1
  <2> QED
    BY <1>1, <2>2
<1>6. PICK y \in s : RiskOf(s) # y.risk + RiskOf(s \ {y})
  BY <1>4
<1> DEFINE f == First(s)
<1>7. f \in s
  BY <1>6, FirstOf
<1>8. RiskOf(s) = f.risk + RiskOf(s \ {f})
  BY <1>1, <1>6, RiskOfFirst
<1> HIDE DEF f
<1>9. f # y
  BY <1>6, <1>8
<1>10. Cardinality(s \ {f}) < Cardinality(s) /\ Cardinality(s \ {y}) < Cardinality(s)
  BY <1>1, <1>7, Smaller
<1>11. RiskOf(s \ {f}) = y.risk + RiskOf((s \ {f}) \ {y})
  BY <1>5, <1>9, <1>10
<1>12. RiskOf(s \ {y}) = f.risk + RiskOf((s \ {y}) \ {f})
  BY <1>5, <1>7, <1>9, <1>10
<1>13. (s \ {f}) \ {y} = (s \ {y}) \ {f}
  OBVIOUS
<1>14. /\ f.risk \in Int /\ y.risk \in Int
       /\ RiskOf((s \ {f}) \ {y}) \in Int
  BY <1>1, <1>7, RiskType DEF Weighed
<1>15. RiskOf(s \ {y}) = f.risk + RiskOf((s \ {f}) \ {y})
  BY <1>12, <1>13
<1>16. PICK a \in Int, b \in Int, c \in Int :
           a = f.risk /\ b = y.risk /\ c = RiskOf((s \ {f}) \ {y})
  BY <1>14
<1>17. RiskOf(s) = a + (b + c) /\ y.risk + RiskOf(s \ {y}) = b + (a + c)
  BY <1>8, <1>11, <1>15, <1>16
<1> QED
  BY <1>6, <1>16, <1>17

\* A position more, a position less.
LEMMA RiskOfMore ==
    ASSUME NEW S, Weighed(S), NEW x, x \notin S, x.risk \in Int
    PROVE  /\ Weighed(S \cup {x})
           /\ RiskOf(S \cup {x}) = RiskOf(S) + x.risk
<1>1. Weighed(S \cup {x})
  BY FS_AddElement DEF Weighed
<1>2. (S \cup {x}) \ {x} = S
  OBVIOUS
<1>3. RiskOf(S \cup {x}) = x.risk + RiskOf(S)
  BY <1>1, <1>2, RiskOfOne
<1> QED
  BY <1>1, <1>3, RiskType

LEMMA RiskOfLess ==
    ASSUME NEW S, Weighed(S), NEW x \in S
    PROVE  RiskOf(S \ {x}) = RiskOf(S) - x.risk
<1>1. Weighed(S \ {x}) /\ x.risk \in Int
  BY FS_Subset DEF Weighed
<1> QED
  BY <1>1, RiskOfOne, RiskType

-----------------------------------------------------------------------------
(* Types *)

LEMMA Limits ==
    /\ MaxRiskPerTrade \in Nat /\ MaxTotalRisk \in Nat /\ CorrelatedCap \in Nat
    /\ MaxPositions \in Nat
    /\ Magnitude(DailyLossLimit) \in Nat /\ Magnitude(WeeklyLossLimit) \in Nat
BY LimitsAssumption DEF Magnitude

\* The gate approves no risk above the hard limit, and none of nothing.
LEMMA ClampedRisk ==
    ASSUME NEW proposed \in Int, Clamped(proposed) > 0
    PROVE  Clamped(proposed) \in 1 .. MaxRiskPerTrade
BY Limits DEF Clamped

Booked == TypeOK /\ IsFiniteSet(book)

LEMMA NextBooked == Booked /\ [Next]_vars => Booked'
<1> SUFFICES ASSUME Booked, [Next]_vars PROVE Booked'
  OBVIOUS
<1>1. CASE Open
  <2>1. PICK t \in Trade, s \in Symbol, proposed \in Proposals, distance \in {0, 1} :
            /\ \A p \in book : p.id # t
            /\ Approves(s, proposed, distance, Portfolio)
            /\ book' = book \cup {[id |-> t, symbol |-> s, risk |-> Clamped(proposed)]}
            /\ UNCHANGED <<today, week>>
    BY <1>1 DEF Open
  <2>2. proposed \in Int /\ Clamped(proposed) > 0
    BY <2>1, ProposalAssumption DEF Approves
  <2>3. [id |-> t, symbol |-> s, risk |-> Clamped(proposed)] \in Position
    BY <2>2, ClampedRisk DEF Position
  <2>4. \A p, q \in book' : p.id = q.id => p = q
    BY <2>1 DEF Booked, TypeOK
  <2>5. IsFiniteSet(book')
    BY <2>1, FS_AddElement DEF Booked
  <2> QED
    BY <2>1, <2>3, <2>4, <2>5 DEF Booked, TypeOK
<1>2. CASE Close
  <2>1. PICK p \in book, r \in Int :
            book' = book \ {p} /\ today' = today + r /\ week' = week + r
    <3>1. PICK p \in book : \E r \in -(p.risk + MaxOverrun) .. MaxGain :
              book' = book \ {p} /\ today' = today + r /\ week' = week + r
      BY <1>2 DEF Close
    <3> QED
      BY <3>1
  <2>2. IsFiniteSet(book') /\ book' \subseteq book
    BY <2>1, FS_Subset DEF Booked
  <2> QED
    BY <2>1, <2>2 DEF Booked, TypeOK
<1>3. CASE NewDay \/ NewWeek \/ UNCHANGED vars
  BY <1>3 DEF NewDay, NewWeek, vars, Booked, TypeOK
<1> QED
  BY <1>1, <1>2, <1>3 DEF Next

LEMMA AlwaysBooked == Spec => []Booked
<1>1. Init => Booked
  BY FS_EmptySet DEF Init, Booked, TypeOK
<1> QED
  BY <1>1, NextBooked, PTL DEF Spec

\* No two open positions are of the same trade, and none risks more than the hard
\* limit or nothing, whatever the sizer proposes and whatever the gate is told.
THEOREM TypeCorrect == Spec => []TypeOK
<1>1. Booked => TypeOK
  BY DEF Booked
<1> QED
  BY <1>1, AlwaysBooked, PTL

LEMMA BookWeighed ==
    ASSUME Booked, NEW S \in SUBSET book
    PROVE  Weighed(S) /\ RiskOf(S) \in Int /\ \A p \in S : p.risk \in Nat \ {0}
<1>1. \A p \in S : p.risk \in Nat \ {0}
  BY Limits DEF Booked, TypeOK, Position
<1>2. Weighed(S)
  BY <1>1, FS_Subset DEF Booked, Weighed
<1> QED
  BY <1>1, <1>2, RiskType

\* What a step does to the risk of the book and to the results.
LEMMA OpenRisk ==
    ASSUME Booked, Reporting = "account", Open
    PROVE  \E s \in Symbol, t \in Trade, risk \in 1 .. MaxRiskPerTrade :
               LET new == [id |-> t, symbol |-> s, risk |-> risk]
               IN  /\ new \notin book /\ book' = book \cup {new}
                   /\ BookRisk(risk, book) <= MaxTotalRisk
                   /\ CorrelatedRisk(s, risk, book) <= CorrelatedCap
                   /\ today > -Magnitude(DailyLossLimit)
                   /\ week > -Magnitude(WeeklyLossLimit)
                   /\ UNCHANGED <<today, week>>
<1>1. PICK t \in Trade, s \in Symbol, proposed \in Proposals, distance \in {0, 1} :
          /\ \A p \in book : p.id # t
          /\ Approves(s, proposed, distance, Portfolio)
          /\ book' = book \cup {[id |-> t, symbol |-> s, risk |-> Clamped(proposed)]}
          /\ UNCHANGED <<today, week>>
  BY DEF Open
<1> DEFINE risk == Clamped(proposed)
<1>2. Portfolio.positions = book /\ Portfolio.today = today /\ Portfolio.week = week
  BY DEF Portfolio, Snapshot
<1>3. /\ ~LossLimitReached(Portfolio) /\ risk > 0
      /\ BookRisk(risk, book) <= MaxTotalRisk
      /\ CorrelatedRisk(s, risk, book) <= CorrelatedCap
  BY <1>1, <1>2 DEF Approves
<1>4. risk \in 1 .. MaxRiskPerTrade
  BY <1>3, ClampedRisk, ProposalAssumption
<1>5. today > -Magnitude(DailyLossLimit) /\ week > -Magnitude(WeeklyLossLimit)
  BY <1>2, <1>3, Limits DEF LossLimitReached, Booked, TypeOK
<1> HIDE DEF risk
<1>6. [id |-> t, symbol |-> s, risk |-> risk] \notin book
  BY <1>1
<1> QED
  BY <1>1, <1>3, <1>4, <1>5, <1>6 DEF risk

LEMMA CloseRisk ==
    ASSUME Booked, Close
    PROVE  \E p \in book, r \in Int :
               /\ book' = book \ {p}
               /\ RiskOf(book') = RiskOf(book) - p.risk
               /\ -(p.risk + MaxOverrun) <= r
               /\ today' = today + r /\ week' = week + r
<1>1. PICK p \in book : \E r \in -(p.risk + MaxOverrun) .. MaxGain :
          book' = book \ {p} /\ today' = today + r /\ week' = week + r
  BY DEF Close
<1>2. PICK r \in -(p.risk + MaxOverrun) .. MaxGain :
          book' = book \ {p} /\ today' = today + r /\ week' = week + r
  BY <1>1
<1>3. RiskOf(book \ {p}) = RiskOf(book) - p.risk /\ p.risk \in Nat
  BY BookWeighed, RiskOfLess
<1> QED
  BY <1>2, <1>3

-----------------------------------------------------------------------------
(* The cap on the book *)

LEMMA TotalNext ==
    ASSUME Reporting = "account", Booked, TotalRiskCapped, [Next]_vars
    PROVE  TotalRiskCapped'
<1>1. CASE Open
  <2>1. PICK s \in Symbol, t \in Trade, risk \in 1 .. MaxRiskPerTrade :
            LET new == [id |-> t, symbol |-> s, risk |-> risk]
            IN  /\ new \notin book /\ book' = book \cup {new}
                /\ BookRisk(risk, book) <= MaxTotalRisk
    BY <1>1, OpenRisk
  <2> DEFINE new == [id |-> t, symbol |-> s, risk |-> risk]
  <2>2. new.risk = risk /\ new \notin book /\ book' = book \cup {new} /\ risk \in Int
    BY <2>1
  <2> HIDE DEF new
  <2>3. RiskOf(book \cup {new}) = RiskOf(book) + new.risk
    BY <2>2, BookWeighed, RiskOfMore
  <2> QED
    BY <2>1, <2>2, <2>3 DEF BookRisk, TotalRiskCapped
<1>2. CASE Close
  <2>1. PICK p \in book : RiskOf(book') = RiskOf(book) - p.risk
    BY <1>2, CloseRisk
  <2>2. RiskOf(book) \in Int /\ p.risk \in Nat
    BY BookWeighed
  <2> QED
    BY <2>1, <2>2, Limits DEF TotalRiskCapped
<1>3. CASE UNCHANGED book
  BY <1>3 DEF TotalRiskCapped
<1> QED
  BY <1>1, <1>2, <1>3 DEF Next, NewDay, NewWeek, vars

LEMMA AlwaysCapped == Reporting = "account" => (Spec => []TotalRiskCapped)
<1> SUFFICES ASSUME Reporting = "account" PROVE Spec => []TotalRiskCapped
  OBVIOUS
<1>1. Init => TotalRiskCapped
  BY RiskOfNone, Limits DEF Init, TotalRiskCapped
<1>2. Booked /\ TotalRiskCapped /\ [Next]_vars => TotalRiskCapped'
  BY TotalNext
<1> QED
  BY <1>1, <1>2, AlwaysBooked, PTL DEF Spec

\* If the gate is told of the account: what is open together never risks more than
\* max_total_risk_pct.
THEOREM TotalRiskIsCapped == Reporting = "account" => (Spec => []TotalRiskCapped)
BY AlwaysCapped

-----------------------------------------------------------------------------
(* The cap on a correlated group *)

\* A symbol is in one group at most: evaluate() looks at the first that holds it.
Disjoint ==
    \A i, j \in DOMAIN Groups : Groups[i] \cap Groups[j] # {} => i = j

InGroup(i) == {p \in book : p.symbol \in Groups[i]}

LEMMA OnlyGroup ==
    ASSUME Disjoint, NEW i \in DOMAIN Groups, NEW s \in Groups[i], NEW risk
    PROVE  CorrelatedRisk(s, risk, book) = risk + RiskOf(InGroup(i))
<1> DEFINE mine == {j \in DOMAIN Groups : s \in Groups[j]}
<1>1. mine = {i}
  BY DEF Disjoint
<1>2. i \in Int
  BY GroupAssumption
<1>3. Min({i}) = i
  BY <1>2 DEF Min
<1>4. Min(mine) = i /\ mine # {}
  BY <1>1, <1>3
<1>5. CorrelatedRisk(s, risk, book) =
          IF mine = {} THEN 0
          ELSE risk + RiskOf({p \in book : p.symbol \in Groups[Min(mine)]})
  BY Zenon DEF CorrelatedRisk
<1> QED
  BY <1>4, <1>5 DEF InGroup

LEMMA CorrelatedNext ==
    ASSUME Reporting = "account", Disjoint, Booked, CorrelatedCapped, [Next]_vars
    PROVE  CorrelatedCapped'
<1> SUFFICES ASSUME NEW i \in DOMAIN Groups
             PROVE  RiskOf(InGroup(i)') <= CorrelatedCap
  BY DEF CorrelatedCapped, InGroup
<1>1. InGroup(i) \in SUBSET book /\ RiskOf(InGroup(i)) <= CorrelatedCap
  BY DEF CorrelatedCapped, InGroup
<1>2. Weighed(InGroup(i)) /\ RiskOf(InGroup(i)) \in Int
  BY <1>1, BookWeighed
<1>3. CASE Open
  <2>1. PICK s \in Symbol, t \in Trade, risk \in 1 .. MaxRiskPerTrade :
            LET new == [id |-> t, symbol |-> s, risk |-> risk]
            IN  /\ new \notin book /\ book' = book \cup {new}
                /\ CorrelatedRisk(s, risk, book) <= CorrelatedCap
    BY <1>3, OpenRisk
  <2> DEFINE new == [id |-> t, symbol |-> s, risk |-> risk]
  <2>2. new.risk = risk /\ new.symbol = s /\ new \notin book /\ risk \in Int
        /\ book' = book \cup {new}
    BY <2>1
  <2> HIDE DEF new
  <2>3. CASE s \in Groups[i]
    <3>1. InGroup(i)' = InGroup(i) \cup {new} /\ new \notin InGroup(i)
      BY <2>2, <2>3 DEF InGroup
    <3>2. RiskOf(InGroup(i) \cup {new}) = RiskOf(InGroup(i)) + new.risk
      BY <1>2, <2>2, <3>1, RiskOfMore
    <3>3. risk + RiskOf(InGroup(i)) <= CorrelatedCap
      BY <2>1, <2>3, OnlyGroup
    <3> QED
      BY <1>2, <2>2, <3>1, <3>2, <3>3
  <2>4. CASE s \notin Groups[i]
    <3>1. InGroup(i)' = InGroup(i)
      BY <2>2, <2>4 DEF InGroup
    <3> QED
      BY <1>1, <3>1
  <2> QED
    BY <2>3, <2>4
<1>4. CASE Close
  <2>1. PICK p \in book : book' = book \ {p}
    BY <1>4, CloseRisk
  <2>2. CASE p \in InGroup(i)
    <3>1. InGroup(i)' = InGroup(i) \ {p} /\ p.risk \in Nat
      BY <2>1, BookWeighed DEF InGroup
    <3>2. RiskOf(InGroup(i) \ {p}) = RiskOf(InGroup(i)) - p.risk
      BY <1>2, <2>2, RiskOfLess
    <3> QED
      BY <1>1, <1>2, <3>1, <3>2, Limits
  <2>3. CASE p \notin InGroup(i)
    <3>1. InGroup(i)' = InGroup(i)
      BY <2>1, <2>3 DEF InGroup
    <3> QED
      BY <1>1, <3>1
  <2> QED
    BY <2>2, <2>3
<1>5. CASE UNCHANGED book
  BY <1>1, <1>5 DEF InGroup
<1> QED
  BY <1>3, <1>4, <1>5 DEF Next, NewDay, NewWeek, vars

\* If, besides, no symbol is in two groups: no group is ever exposed beyond
\* correlated_exposure_cap_pct, in whatever order its symbols are traded.
THEOREM GroupsAreCapped ==
    Reporting = "account" /\ Disjoint => (Spec => []CorrelatedCapped)
<1> SUFFICES ASSUME Reporting = "account", Disjoint PROVE Spec => []CorrelatedCapped
  OBVIOUS
<1>1. Init => CorrelatedCapped
  <2> SUFFICES ASSUME Init, NEW i \in DOMAIN Groups
               PROVE  RiskOf({p \in book : p.symbol \in Groups[i]}) <= CorrelatedCap
    BY DEF CorrelatedCapped
  <2>1. {p \in book : p.symbol \in Groups[i]} = {}
    BY DEF Init
  <2> QED
    BY <2>1, RiskOfNone, Limits
<1>2. Booked /\ CorrelatedCapped /\ [Next]_vars => CorrelatedCapped'
  BY CorrelatedNext
<1> QED
  BY <1>1, <1>2, AlwaysBooked, PTL DEF Spec

-----------------------------------------------------------------------------
(* What is left when the gate is told that nothing is at risk *)

LEMMA OneMoreTime ==
    ASSUME NEW n \in Nat, NEW m \in Nat
    PROVE  (n + 1) * m = n * m + m /\ n * m \in Int
OBVIOUS

\* The positions are still counted, and the risk of each is still clamped.
Counted == Cardinality(book) <= MaxPositions

RiskByCount ==
    /\ Counted
    /\ RiskOf(book) <= MaxPositions * MaxRiskPerTrade

LEMMA RiskOfMany ==
    ASSUME NEW S, Weighed(S), NEW m \in Nat, \A p \in S : p.risk <= m
    PROVE  RiskOf(S) <= Cardinality(S) * m
<1> DEFINE Good(s) == RiskOf(s) <= Cardinality(s) * m
           Bad == {Cardinality(s) : s \in {r \in SUBSET S : ~Good(r)}}
<1>1. \A s \in SUBSET S : Weighed(s) /\ IsFiniteSet(s) /\ Cardinality(s) \in Nat
  BY FS_Subset, FS_CardinalityType DEF Weighed
<1>2. SUFFICES ASSUME Bad # {} PROVE FALSE
  OBVIOUS
<1>3. PICK n \in Bad : \A k \in Bad : n <= k
  <2>1. Bad \in SUBSET Nat
    BY <1>1
  <2> HIDE DEF Bad
  <2> QED
    BY <1>2, <2>1, LeastNumber
<1>4. PICK s \in SUBSET S : n = Cardinality(s) /\ ~Good(s)
  OBVIOUS
<1>5. \A r \in SUBSET S : Cardinality(r) < Cardinality(s) => Good(r)
  <2> SUFFICES ASSUME NEW r \in SUBSET S, Cardinality(r) < Cardinality(s), ~Good(r)
               PROVE  FALSE
    OBVIOUS
  <2> HIDE DEF Good
  <2>1. Cardinality(r) \in Bad
    OBVIOUS
  <2> HIDE DEF Bad
  <2>2. Cardinality(s) <= Cardinality(r)
    BY <1>3, <1>4, <2>1
  <2> QED
    BY <1>1, <2>2
<1>6. s # {}
  BY <1>4, RiskOfNone, FS_EmptySet
<1> DEFINE f == First(s)
           rest == s \ {f}
<1>7. f \in s /\ f.risk \in Int /\ f.risk <= m
  BY <1>1, <1>6, FirstOf DEF Weighed
<1>8. RiskOf(s) = f.risk + RiskOf(rest) /\ RiskOf(rest) \in Int
  BY <1>1, <1>6, RiskOfFirst, RiskType
<1>9. Cardinality(rest) \in Nat /\ Cardinality(s) = Cardinality(rest) + 1
  BY <1>1, <1>7, Smaller
<1>10. RiskOf(rest) <= Cardinality(rest) * m
  BY <1>5, <1>9
<1> HIDE DEF f, rest
<1>11. (Cardinality(rest) + 1) * m = Cardinality(rest) * m + m /\ Cardinality(rest) * m \in Int
  BY Zenon, <1>9, OneMoreTime
<1> QED
  BY <1>4, <1>7, <1>8, <1>9, <1>10, <1>11

\* The gate sees as many positions as there are.
LEMMA PositionsSeen ==
    ASSUME Booked
    PROVE  Cardinality(Portfolio.positions) = Cardinality(book)
<1>1. CASE Reporting = "account"
  BY <1>1 DEF Portfolio, Snapshot
<1>2. CASE Reporting = "loop"
  <2> DEFINE Told(p) == [p EXCEPT !.risk = 0]
             told == {Told(p) : p \in book}
             f == [p \in book |-> Told(p)]
  <2>1. Portfolio.positions = told
    BY <1>2 DEF Portfolio, LoopSnapshot
  <2>2. \A p \in book : Told(p).id = p.id
    BY DEF Booked, TypeOK, Position
  <2>3. \A p, q \in book : Told(p) = Told(q) => p = q
    BY <2>2 DEF Booked, TypeOK
  <2>4. f \in Bijection(book, told)
    <3>1. f \in [book -> told] /\ \A t \in told : \E p \in book : f[p] = t
      OBVIOUS
    <3>2. \A p, q \in book : f[p] = f[q] => p = q
      BY <2>3
    <3> HIDE DEF f, told
    <3> QED
      BY <3>1, <3>2, Fun_IsBij
  <2> HIDE DEF f, told
  <2> QED
    BY <2>1, <2>4, FS_Bijection DEF Booked, ExistsBijection
<1> QED
  BY <1>1, <1>2, ReportingAssumption

LEMMA CountNext ==
    ASSUME Booked, Counted, [Next]_vars
    PROVE  Counted'
<1>1. Cardinality(book) \in Nat
  BY FS_CardinalityType DEF Booked
<1>2. CASE Open
  <2>1. PICK new : book' = book \cup {new} /\ Cardinality(Portfolio.positions) < MaxPositions
    BY <1>2 DEF Open, Approves
  <2>2. Cardinality(book) < MaxPositions
    BY <2>1, PositionsSeen
  <2>3. Cardinality(book') = Cardinality(book) \/ Cardinality(book') = Cardinality(book) + 1
    BY <2>1, FS_AddElement DEF Booked
  <2> QED
    BY <1>1, <2>2, <2>3, Limits DEF Counted
<1>3. CASE Close
  <2>1. PICK p \in book : book' = book \ {p}
    BY <1>3, CloseRisk
  <2>2. Cardinality(book') = Cardinality(book) - 1
    BY <2>1, FS_RemoveElement DEF Booked
  <2> QED
    BY <1>1, <2>2, Limits DEF Counted
<1> QED
  BY <1>2, <1>3 DEF Next, NewDay, NewWeek, vars, Counted

LEMMA AlwaysCounted == Spec => []Counted
<1>1. Init => Counted
  BY FS_EmptySet, Limits DEF Init, Counted
<1>2. Booked /\ Counted /\ [Next]_vars => Counted'
  BY CountNext
<1> QED
  BY <1>1, <1>2, AlwaysBooked, PTL DEF Spec

\* Also with the snapshot the loop and the backtest pass, which says of every position
\* that it risks nothing: no more than max_concurrent_positions are open, at no more
\* than max_risk_per_trade_pct each.  No other limit holds then (run risk_in_loop).
THEOREM RiskIsCounted == Spec => []RiskByCount
<1>1. Booked /\ Counted => RiskByCount
  <2> SUFFICES ASSUME Booked, Counted
               PROVE  RiskOf(book) <= MaxPositions * MaxRiskPerTrade
    BY DEF RiskByCount
  <2>1. Weighed(book) /\ RiskOf(book) \in Int
    BY BookWeighed
  <2>2. \A p \in book : p.risk <= MaxRiskPerTrade
    BY Limits DEF Booked, TypeOK, Position
  <2>3. RiskOf(book) <= Cardinality(book) * MaxRiskPerTrade
    BY <2>1, <2>2, RiskOfMany, Limits
  <2>4. PICK d \in Nat : MaxPositions = Cardinality(book) + d
    <3>1. Cardinality(book) \in Nat
      BY FS_CardinalityType DEF Booked
    <3>2. /\ MaxPositions - Cardinality(book) \in Nat
          /\ MaxPositions = Cardinality(book) + (MaxPositions - Cardinality(book))
      BY <3>1, Limits DEF Counted
    <3> QED
      BY <3>2
  <2>5. MaxPositions * MaxRiskPerTrade = Cardinality(book) * MaxRiskPerTrade + d * MaxRiskPerTrade
    BY <2>4, Limits, FS_CardinalityType DEF Booked
  <2>6. d * MaxRiskPerTrade >= 0 /\ d * MaxRiskPerTrade \in Int
        /\ Cardinality(book) * MaxRiskPerTrade \in Int
    BY Limits, FS_CardinalityType DEF Booked
  <2> QED
    BY <2>1, <2>3, <2>5, <2>6
<1> QED
  BY <1>1, AlwaysBooked, AlwaysCounted, PTL

-----------------------------------------------------------------------------
(* Losses *)

LEMMA MoreTimes ==
    ASSUME NEW n \in Nat, NEW k \in Nat, n <= k, NEW m \in Nat
    PROVE  n * m <= k * m /\ n * m \in Nat /\ k * m \in Nat
<1>1. k - n \in Nat /\ k = n + (k - n)
  OBVIOUS
<1>2. PICK d \in Nat : k = n + d
  BY <1>1
<1>3. k * m = n * m + d * m /\ d * m \in Nat /\ n * m \in Nat
  BY <1>2
<1> QED
  BY <1>3

\* What a book has at stake is at most what a full one has.
LEMMA StakeCapped ==
    ASSUME Booked, TotalRiskCapped, Counted
    PROVE  /\ AtStake(book) \in Int /\ MaxPositions * MaxOverrun \in Nat
           /\ AtStake(book) <= MaxTotalRisk + MaxPositions * MaxOverrun
<1>1. Cardinality(book) \in Nat /\ MaxPositions \in Nat /\ MaxOverrun \in Nat
  BY FS_CardinalityType, Limits, OverrunAssumption DEF Booked
<1>2. /\ Cardinality(book) * MaxOverrun <= MaxPositions * MaxOverrun
      /\ Cardinality(book) * MaxOverrun \in Nat /\ MaxPositions * MaxOverrun \in Nat
  BY Zenon, <1>1, MoreTimes DEF Counted
<1>3. RiskOf(book) \in Int /\ RiskOf(book) <= MaxTotalRisk /\ MaxTotalRisk \in Nat
  BY BookWeighed, Limits DEF TotalRiskCapped
<1> QED
  BY <1>2, <1>3 DEF AtStake

\* A trade that is closed takes what it had at stake with it.
LEMMA CloseStake ==
    ASSUME Booked, Close
    PROVE  \E loss \in Int : /\ AtStake(book') = AtStake(book) - loss
                             /\ today' >= today - loss /\ week' >= week - loss
                             /\ AtStake(book) \in Int /\ today' \in Int /\ week' \in Int
<1>1. PICK p \in book, r \in Int :
          /\ book' = book \ {p}
          /\ RiskOf(book') = RiskOf(book) - p.risk
          /\ -(p.risk + MaxOverrun) <= r
          /\ today' = today + r /\ week' = week + r
  BY CloseRisk
<1>2. p.risk \in Nat /\ RiskOf(book) \in Int /\ MaxOverrun \in Nat
      /\ today \in Int /\ week \in Int
  BY BookWeighed, OverrunAssumption DEF Booked, TypeOK
<1>3. PICK n \in Nat : Cardinality(book') = n /\ Cardinality(book) = n + 1
  <2>1. /\ IsFiniteSet(book') /\ Cardinality(book') = Cardinality(book) - 1
        /\ Cardinality(book) \in Nat
    BY <1>1, FS_RemoveElement, FS_CardinalityType DEF Booked
  <2>2. Cardinality(book') \in Nat
    BY <2>1, FS_CardinalityType
  <2> QED
    BY <2>1, <2>2
<1>4. (n + 1) * MaxOverrun = n * MaxOverrun + MaxOverrun /\ n * MaxOverrun \in Int
  BY Zenon, <1>2, <1>3, OneMoreTime
<1>5. AtStake(book) = RiskOf(book) + n * MaxOverrun + MaxOverrun
  BY <1>2, <1>3, <1>4 DEF AtStake
<1>6. AtStake(book') = RiskOf(book) - p.risk + n * MaxOverrun
  BY <1>1, <1>3 DEF AtStake
<1>7. /\ AtStake(book') = AtStake(book) - (p.risk + MaxOverrun)
      /\ today' >= today - (p.risk + MaxOverrun) /\ week' >= week - (p.risk + MaxOverrun)
      /\ AtStake(book) \in Int /\ p.risk + MaxOverrun \in Int
  BY <1>1, <1>2, <1>4, <1>5, <1>6
<1> QED
  BY <1>1, <1>2, <1>7

LEMMA WorstCaseNext ==
    ASSUME Reporting = "account", Booked, Booked', TotalRiskCapped, TotalRiskCapped',
           Counted, Counted', WorstCaseBounded, [Next]_vars
    PROVE  WorstCaseBounded'
<1> DEFINE daily == Magnitude(DailyLossLimit)
           weekly == Magnitude(WeeklyLossLimit)
           full == MaxTotalRisk + MaxPositions * MaxOverrun
<1>1. /\ daily \in Nat /\ weekly \in Nat /\ full \in Nat
      /\ today \in Int /\ week \in Int /\ AtStake(book) \in Int
  BY Limits, StakeCapped DEF Booked, TypeOK
<1>2. /\ AtStake(book) <= full
      /\ AtStake(book) - today <= daily + full
      /\ AtStake(book) - week <= weekly + full
  BY StakeCapped DEF WorstCaseBounded
<1>3. AtStake(book') \in Int /\ AtStake(book') <= full
  <2>1. RiskOf(book') \in Int
    <3>1. Weighed(book')
      BY Limits DEF Booked, TypeOK, Position, Weighed
    <3> QED
      BY <3>1, RiskType
  <2>2. RiskOf(book') <= MaxTotalRisk
    BY DEF TotalRiskCapped
  <2>3. /\ Cardinality(book') \in Nat /\ Cardinality(book') <= MaxPositions
        /\ MaxPositions \in Nat /\ MaxOverrun \in Nat
    BY FS_CardinalityType, Limits, OverrunAssumption DEF Booked, Counted
  <2>4. /\ Cardinality(book') * MaxOverrun <= MaxPositions * MaxOverrun
        /\ Cardinality(book') * MaxOverrun \in Nat /\ MaxPositions * MaxOverrun \in Nat
    BY Zenon, <2>3, MoreTimes
  <2> QED
    BY <2>1, <2>2, <2>4, Limits DEF AtStake
<1> SUFFICES /\ AtStake(book') - today' <= daily + full
             /\ AtStake(book') - week' <= weekly + full
  BY DEF WorstCaseBounded, AtStake
<1> HIDE DEF daily, weekly, full
<1>4. CASE Open
  <2>1. today > -daily /\ week > -weekly /\ UNCHANGED <<today, week>>
    BY <1>4, OpenRisk DEF daily, weekly
  <2> QED
    BY <1>1, <1>3, <2>1
<1>5. CASE Close
  <2>1. PICK loss \in Int :
            /\ AtStake(book') = AtStake(book) - loss
            /\ today' >= today - loss /\ week' >= week - loss
            /\ today' \in Int /\ week' \in Int
    BY <1>5, CloseStake
  <2> QED
    BY <1>1, <1>2, <2>1
<1>6. CASE NewDay
  BY <1>1, <1>2, <1>6 DEF NewDay, AtStake
<1>7. CASE NewWeek
  BY <1>1, <1>2, <1>7 DEF NewWeek, AtStake
<1>8. CASE UNCHANGED vars
  BY <1>2, <1>8 DEF vars, AtStake
<1> QED
  BY <1>4, <1>5, <1>6, <1>7, <1>8 DEF Next

\* If the gate is told of the account: whatever is opened, closed beyond its stop and
\* carried over midnight, a day cannot lose more than its limit and what one full book
\* has at stake, nor a week.
THEOREM LossesAreBounded == Reporting = "account" => (Spec => []WorstCaseBounded)
<1> SUFFICES ASSUME Reporting = "account" PROVE Spec => []WorstCaseBounded
  OBVIOUS
<1>1. Init => WorstCaseBounded
  <2> SUFFICES ASSUME Init PROVE WorstCaseBounded
    OBVIOUS
  <2>1. RiskOf(book) = 0 /\ Cardinality(book) = 0 /\ today = 0 /\ week = 0
    BY RiskOfNone, FS_EmptySet DEF Init
  <2>2. MaxOverrun \in Nat /\ MaxPositions \in Nat /\ MaxPositions >= 0
    BY Limits, OverrunAssumption
  <2>3. 0 * MaxOverrun <= MaxPositions * MaxOverrun /\ MaxPositions * MaxOverrun \in Nat
    BY Zenon, <2>2, MoreTimes
  <2>4. AtStake(book) = 0
    BY <2>1, <2>2 DEF AtStake
  <2> QED
    BY <2>1, <2>3, <2>4, Limits DEF WorstCaseBounded
<1>2. Booked /\ Booked' /\ TotalRiskCapped /\ TotalRiskCapped' /\ Counted /\ Counted'
          /\ WorstCaseBounded /\ [Next]_vars
      => WorstCaseBounded'
  BY WorstCaseNext
<1>3. Spec => []Booked /\ []TotalRiskCapped /\ []Counted
  BY AlwaysBooked, AlwaysCapped, AlwaysCounted
<1> QED
  BY <1>1, <1>2, <1>3, PTL DEF Spec

=============================================================================
