----------------------------- MODULE FeedProofs -----------------------------
(***************************************************************************)
(* What the readers of the bars may rely on, for every length of bar,      *)
(* window and delay, whatever polls are missed and whatever is             *)
(* quarantined.                                                            *)
(***************************************************************************)
EXTENDS BarFeed, NumberFacts, FiniteSetTheorems

-----------------------------------------------------------------------------
(* Bars and times *)

LEMMA Sizes ==
    /\ BarLen \in Nat \ {0} /\ Window \in Nat \ {0} /\ Needed \in Nat \ {0}
    /\ Horizon \in Nat \ {0} /\ Bar \in SUBSET Nat
    /\ \A d \in Delays : d \in 0 .. BarLen - 1
    /\ \A o \in Offsets : o \in Nat
BY SizeAssumption, TimingAssumption DEF Bar

\* A bar closes when the next one opens; bars do not overlap.
LEMMA BarTimes ==
    /\ \A k \in Int : k * BarLen \in Int /\ (k + 1) * BarLen = k * BarLen + BarLen
    /\ \A j, k \in Nat : j < k => j * BarLen + BarLen <= k * BarLen
    /\ \A k \in Nat : 0 <= k * BarLen
<1>1. BarLen \in Nat \ {0}
  BY Sizes
<1>2. \A k \in Int : k * BarLen \in Int /\ (k + 1) * BarLen = k * BarLen + BarLen
  BY <1>1
<1>3. \A k \in Nat : 0 <= k * BarLen
  BY <1>1
<1>4. ASSUME NEW j \in Nat, NEW k \in Nat, j < k PROVE j * BarLen + BarLen <= k * BarLen
  <2>1. PICK d \in Nat : k = j + 1 + d
    <3>1. k - j - 1 \in Nat /\ k = j + 1 + (k - j - 1)
      BY <1>4
    <3> QED
      BY <3>1
  <2>2. k * BarLen = j * BarLen + BarLen + d * BarLen
    BY <1>1, <2>1
  <2>3. 0 <= d * BarLen /\ d * BarLen \in Int /\ j * BarLen \in Int
    BY <1>1
  <2> QED
    BY <1>1, <2>2, <2>3
<1> QED
  BY <1>2, <1>3, <1>4

LEMMA GreatestBar ==
    ASSUME NEW S \in SUBSET Bar, S # {}
    PROVE  Max(S) \in S /\ \A x \in S : x <= Max(S)
<1>1. Horizon \in Nat /\ S \in SUBSET (0 .. Horizon)
  BY Sizes DEF Bar
<1>2. PICK x \in S : \A y \in S : y <= x
  BY <1>1, GreatestNumber
<1>3. \A y \in S : x >= y
  BY <1>1, <1>2
<1>4. Max(S) \in S /\ \A y \in S : Max(S) >= y
  BY <1>3 DEF Max
<1> QED
  BY <1>1, <1>4

\* tail(n) leaves n bars.
LEMMA NewestFew ==
    ASSUME NEW bars \in SUBSET Bar, NEW n \in Nat \ {0}
    PROVE  Newest(n, bars) \subseteq bars /\ Cardinality(Newest(n, bars)) <= n
<1> DEFINE N == Newest(n, bars)
<1>1. N \subseteq bars
  BY DEF Newest
<1>2. CASE N = {}
  BY <1>1, <1>2, FS_EmptySet
<1>3. CASE N # {}
  <2>1. N \in SUBSET Nat /\ bars \in SUBSET Nat
    BY <1>1, Sizes
  <2>2. PICK x \in N : \A y \in N : x <= y
    BY <1>3, <2>1, LeastNumber
  <2> DEFINE later == {j \in bars : j > x}
  <2>3. Cardinality(later) < n
    BY <2>2 DEF Newest
  <2>4. N \ {x} \subseteq later
    BY <1>1, <2>1, <2>2
  <2>5. IsFiniteSet(Bar)
    BY Sizes, FS_Interval DEF Bar
  <2>6. IsFiniteSet(later) /\ IsFiniteSet(N)
    BY <1>1, <2>5, FS_Subset
  <2>7. Cardinality(N \ {x}) <= Cardinality(later)
    BY <2>4, <2>6, FS_Subset
  <2>8. Cardinality(N \ {x}) = Cardinality(N) - 1
    BY <2>2, <2>6, FS_RemoveElement
  <2>9. Cardinality(N) \in Nat /\ Cardinality(later) \in Nat
    BY <2>6, FS_CardinalityType
  <2> QED
    BY <1>1, <2>3, <2>7, <2>8, <2>9
<1> QED
  BY <1>2, <1>3

-----------------------------------------------------------------------------
(* The inductive invariant *)

\* Polls are scheduled at bar closes, delayed; the last one is behind.
Clockwork ==
    /\ \E m \in Nat : now = m * BarLen + delay
    /\ due => now >= BarLen + view.at

\* A bar that a clean fetch saw after it closed stays what that fetch stored.
RefetchedStands == \A k \in refetched : ClosedBy(k, now) /\ store[k] = Built(k)

\* Every bar that closed before the poll that is due, or the last one, was looked at.
LookedAt ==
    delay = 0 =>
        \A k \in Bar \ lost :
            ClosedBy(k, IF due THEN now - BarLen ELSE now) => Built(k) \subseteq examined

\* The features are of closed bars.
FeaturesClosed == \A k \in view.features : ClosedBy(k, view.at)

LEMMA InitTypes == Init => TypeOK
<1> SUFFICES ASSUME Init PROVE TypeOK
  OBVIOUS
<1>1. Cardinality({}) = 0
  BY FS_EmptySet
<1>2. 0 \in Bar /\ now \in Nat /\ 0 <= Needed
  BY Sizes DEF Init, Bar
<1>3. view \in [at : 0 .. now, last : Bar, rule : SUBSET Bar, features : SUBSET Bar,
                bad : SUBSET Bar] /\ view.features = {}
  <2>1. 0 \in 0 .. now
    BY <1>2
  <2> QED
    BY <1>2, <2>1 DEF Init, NoView
<1>4. ticks \subseteq 0 .. now - 1 /\ store \in [Bar -> SUBSET ticks] /\ examined \subseteq ticks
  BY DEF Init
<1>5. delay \in Delays /\ offset \in Offsets /\ due \in BOOLEAN /\ lost = {} /\ refetched = {}
  BY DEF Init
<1> QED
  BY <1>1, <1>2, <1>3, <1>4, <1>5 DEF TypeOK

LEMMA PollTypes == TypeOK /\ Poll => TypeOK'
<1> SUFFICES ASSUME TypeOK, Poll PROVE TypeOK'
  OBVIOUS
<1>1. PICK bad \in SUBSET Fetched :
         /\ store' = Written(Fetched \ bad)
         /\ lost' = lost \cup (JustClosed \cap bad)
         /\ refetched' = refetched \cup {k \in Fetched \ bad : ClosedBy(k, now)}
         /\ IF RuleBars(store') = {}
            THEN UNCHANGED <<view, examined>>
            ELSE /\ view' = [at |-> now, last |-> Max(RuleBars(store')),
                             rule |-> RuleBars(store'), features |-> FeatureBars(store'),
                             bad |-> bad]
                 /\ examined' = examined \cup store'[Max(RuleBars(store'))]
  BY DEF Poll
<1>2. store' \in [Bar -> SUBSET ticks]
  BY <1>1 DEF Written, Built, TypeOK
<1>3. Fetched \subseteq Bar /\ RuleBars(store') \subseteq Bar /\ JustClosed \subseteq Bar
  BY DEF Fetched, RuleBars, Read, JustClosed
<1>4. FeatureBars(store') \subseteq Bar /\ Cardinality(FeatureBars(store')) <= Needed
  <2> DEFINE B == {k \in Read(store', now - FeatureSpan * BarLen, now) :
                       k * BarLen <= now - BarLen}
  <2>1. B \in SUBSET Bar
    BY DEF Read
  <2>2. FeatureBars(store') = Newest(Needed, B)
    BY DEF FeatureBars
  <2> HIDE DEF B
  <2> QED
    BY <2>1, <2>2, NewestFew, Sizes
<1>5. /\ UNCHANGED <<delay, offset, now, ticks>> /\ due' = FALSE
  BY DEF Poll
<1>6. lost' \subseteq Bar /\ refetched' \subseteq Bar
  BY <1>1, <1>3 DEF TypeOK
<1>7. CASE RuleBars(store') = {}
  BY <1>1, <1>2, <1>5, <1>6, <1>7 DEF TypeOK
<1>8. CASE RuleBars(store') # {}
  <2>1. Max(RuleBars(store')) \in Bar
    BY <1>3, <1>8, GreatestBar
  <2>2. examined' \subseteq ticks
    BY <1>1, <1>2, <1>8, <2>1 DEF TypeOK
  <2>3. /\ view' = [at |-> now, last |-> Max(RuleBars(store')), rule |-> RuleBars(store'),
                    features |-> FeatureBars(store'), bad |-> bad]
    BY <1>1, <1>8
  <2>4. now \in 0 .. now
    BY DEF TypeOK
  <2>5. view' \in [at : 0 .. now, last : Bar, rule : SUBSET Bar, features : SUBSET Bar,
                   bad : SUBSET Bar] /\ view'.features = FeatureBars(store')
    BY <1>3, <1>4, <2>1, <2>3, <2>4
  <2> QED
    BY <1>2, <1>4, <1>5, <1>6, <2>2, <2>5 DEF TypeOK
<1> QED
  BY <1>7, <1>8

LEMMA NextTypes == TypeOK /\ [Next]_vars => TypeOK'
<1> SUFFICES ASSUME TypeOK, [Next]_vars PROVE TypeOK'
  OBVIOUS
<1>1. CASE Trade
  <2>1. PICK T \in SUBSET (now .. now + BarLen - 1) : ticks' = ticks \cup T
    BY <1>1 DEF Trade
  <2>2. now' = now + BarLen /\ now' \in Nat /\ now <= now' /\ due' = TRUE
    BY <1>1, Sizes DEF Trade, TypeOK
  <2>3. ticks' \subseteq 0 .. now' - 1 /\ ticks \subseteq ticks'
    BY <2>1, <2>2, Sizes DEF TypeOK
  <2>4. view.at \in 0 .. now'
    BY <2>2 DEF TypeOK
  <2>5. view \in [at : 0 .. now', last : Bar, rule : SUBSET Bar, features : SUBSET Bar,
                  bad : SUBSET Bar]
    BY <2>4 DEF TypeOK
  <2>6. store \in [Bar -> SUBSET ticks'] /\ examined \subseteq ticks'
    BY <2>3 DEF TypeOK
  <2>7. UNCHANGED <<delay, offset, store, view, examined, lost, refetched>>
    BY <1>1 DEF Trade
  <2> QED
    BY <2>2, <2>3, <2>5, <2>6, <2>7 DEF TypeOK
<1>2. CASE Miss
  BY <1>2 DEF Miss, JustClosed, TypeOK
<1>3. CASE Poll
  BY <1>3, PollTypes
<1>4. CASE Rest \/ UNCHANGED vars
  BY <1>4 DEF Rest, vars, TypeOK
<1> QED
  BY <1>1, <1>2, <1>3, <1>4 DEF Next

\* The variables keep their types, and the features are of no more bars than needed.
THEOREM TypeCorrect == Spec => []TypeOK
BY InitTypes, NextTypes, PTL DEF Spec

-----------------------------------------------------------------------------
(* Closed bars stand *)

LEMMA BuiltStands ==
    ASSUME TypeOK, [Next]_vars, NEW k \in Bar, ClosedBy(k, now)
    PROVE  Built(k)' = Built(k) /\ ClosedBy(k, now')
<1>1. k \in Nat /\ k * BarLen \in Int /\ (k + 1) * BarLen \in Int /\ now \in Nat
  BY Sizes, BarTimes DEF TypeOK
<1>2. CASE Trade
  <2>1. PICK T \in SUBSET (now .. now + BarLen - 1) : ticks' = ticks \cup T
    BY <1>2 DEF Trade
  <2>2. \A x \in Interval(k) : x < now
    BY <1>1 DEF Interval, ClosedBy
  <2>3. T \cap Interval(k) = {}
    <3>1. \A x \in T : x >= now /\ x \in Int
      BY <1>1, <2>1, Sizes
    <3> SUFFICES ASSUME NEW x \in T, x \in Interval(k) PROVE FALSE
      OBVIOUS
    <3>2. x >= now /\ x < now /\ x \in Int
      BY <2>2, <3>1
    <3> QED
      BY <1>1, <3>2
  <2>4. now' = now + BarLen
    BY <1>2 DEF Trade
  <2> QED
    BY <1>1, <2>1, <2>3, <2>4, Sizes DEF Built, Interval, ClosedBy
<1>3. CASE ticks' = ticks /\ now' = now
  BY <1>3 DEF Built, Interval
<1> QED
  BY <1>2, <1>3 DEF Next, Miss, Poll, Rest, vars

LEMMA PollDoes ==
    ASSUME Poll
    PROVE  \E bad \in SUBSET Fetched :
               /\ store' = Written(Fetched \ bad)
               /\ lost' = lost \cup (JustClosed \cap bad)
               /\ refetched' = refetched \cup {k \in Fetched \ bad : ClosedBy(k, now)}
               /\ IF RuleBars(store') = {}
                  THEN UNCHANGED <<view, examined>>
                  ELSE /\ view'.at = now /\ view'.bad = bad
                       /\ view'.features = FeatureBars(store')
                       /\ examined' = examined \cup store'[Max(RuleBars(store'))]
<1>1. PICK bad \in SUBSET Fetched :
         /\ store' = Written(Fetched \ bad)
         /\ lost' = lost \cup (JustClosed \cap bad)
         /\ refetched' = refetched \cup {k \in Fetched \ bad : ClosedBy(k, now)}
         /\ IF RuleBars(store') = {}
            THEN UNCHANGED <<view, examined>>
            ELSE /\ view' = [at |-> now, last |-> Max(RuleBars(store')),
                             rule |-> RuleBars(store'), features |-> FeatureBars(store'),
                             bad |-> bad]
                 /\ examined' = examined \cup store'[Max(RuleBars(store'))]
  BY DEF Poll
<1>2. RuleBars(store') # {} =>
         /\ view'.at = now /\ view'.bad = bad /\ view'.features = FeatureBars(store')
  BY <1>1
<1> QED
  BY <1>1, <1>2

LEMMA ClockworkNext == TypeOK /\ Clockwork /\ [Next]_vars => Clockwork'
<1> SUFFICES ASSUME TypeOK, Clockwork, [Next]_vars PROVE Clockwork'
  OBVIOUS
<1>1. CASE Trade
  <2>1. PICK m \in Nat : now = m * BarLen + delay
    BY DEF Clockwork
  <2>2. now' = now + BarLen /\ delay' = delay /\ view' = view
    BY <1>1 DEF Trade
  <2>3. /\ m + 1 \in Nat /\ (m + 1) * BarLen = m * BarLen + BarLen /\ m * BarLen \in Int
        /\ delay \in Int
    BY BarTimes, Sizes DEF TypeOK
  <2>4. now' = (m + 1) * BarLen + delay'
    BY <2>1, <2>2, <2>3, Sizes
  <2>5. view.at <= now /\ view.at \in Int /\ now \in Int
    BY DEF TypeOK
  <2> QED
    BY <2>2, <2>3, <2>4, <2>5, Sizes DEF Clockwork
<1>2. CASE due' = FALSE /\ UNCHANGED <<now, delay>>
  BY <1>2 DEF Clockwork
<1>3. CASE UNCHANGED vars
  BY <1>3 DEF Clockwork, vars
<1> QED
  BY <1>1, <1>2, <1>3 DEF Next, Miss, Poll, Rest

LEMMA RefetchedNext == TypeOK /\ RefetchedStands /\ [Next]_vars => RefetchedStands'
<1> SUFFICES ASSUME TypeOK, RefetchedStands, [Next]_vars, NEW k \in refetched'
             PROVE  ClosedBy(k, now') /\ store'[k] = Built(k)'
  BY DEF RefetchedStands
<1>1. refetched \subseteq Bar /\ TypeOK'
  BY NextTypes DEF TypeOK
<1>2. CASE Poll
  <2>1. PICK bad \in SUBSET Fetched :
            /\ store' = Written(Fetched \ bad)
            /\ refetched' = refetched \cup {j \in Fetched \ bad : ClosedBy(j, now)}
    BY <1>2, PollDoes
  <2>2. k \in Bar /\ ClosedBy(k, now)
    BY <1>1, <2>1 DEF RefetchedStands, Fetched
  <2>3. Built(k)' = Built(k) /\ ClosedBy(k, now')
    BY <2>2, BuiltStands
  <2>4. k \in Fetched \ bad \/ store[k] = Built(k)
    BY <2>1 DEF RefetchedStands
  <2> QED
    BY <2>1, <2>2, <2>3, <2>4 DEF Written
<1>3. CASE store' = store /\ refetched' = refetched
  BY <1>1, <1>3, BuiltStands DEF RefetchedStands
<1> QED
  BY <1>2, <1>3 DEF Next, Trade, Miss, Rest, vars

LEMMA FeaturesNext == TypeOK /\ FeaturesClosed /\ [Next]_vars => FeaturesClosed'
<1> SUFFICES ASSUME TypeOK, FeaturesClosed, [Next]_vars PROVE FeaturesClosed'
  OBVIOUS
<1>1. CASE view' = view
  BY <1>1 DEF FeaturesClosed, ClosedBy
<1>2. CASE Poll /\ view' # view
  <2>1. view'.at = now /\ view'.features = FeatureBars(store')
    BY <1>2, PollDoes
  <2>2. \A k \in FeatureBars(store') : k \in Bar /\ k * BarLen <= now - BarLen
    BY DEF FeatureBars, Newest, Read
  <2>3. \A k \in FeatureBars(store') : ClosedBy(k, now)
    <3> SUFFICES ASSUME NEW k \in FeatureBars(store') PROVE ClosedBy(k, now)
      OBVIOUS
    <3>1. k \in Bar /\ k * BarLen <= now - BarLen
      BY <2>2, Zenon
    <3>2. k * BarLen <= now - BarLen /\ k \in Int
      BY <3>1, Sizes
    <3>3. /\ k * BarLen \in Int /\ (k + 1) * BarLen = k * BarLen + BarLen
          /\ now \in Int /\ BarLen \in Int
      BY <3>2, BarTimes, Sizes DEF TypeOK
    <3> QED
      BY <3>2, <3>3 DEF ClosedBy
  <2> QED
    BY <2>1, <2>3 DEF FeaturesClosed, ClosedBy
<1> QED
  BY <1>1, <1>2 DEF Next, Trade, Miss, Rest, vars

\* The features are computed from closed bars, each with every tick of its interval
\* once a clean fetch saw it closed: whatever polls were missed, late or quarantined.
THEOREM FeaturesComplete == Spec => []FeatureBarsComplete
<1>1. Init => TypeOK /\ RefetchedStands /\ FeaturesClosed
  BY InitTypes DEF Init, NoView, RefetchedStands, FeaturesClosed
<1>2. RefetchedStands /\ FeaturesClosed => FeatureBarsComplete
  BY DEF RefetchedStands, FeaturesClosed, FeatureBarsComplete
<1> QED
  BY <1>1, <1>2, NextTypes, RefetchedNext, FeaturesNext, PTL DEF Spec

-----------------------------------------------------------------------------
(* Where the server's clock is UTC *)

\* A bar that has closed within the window is fetched, and read back.
LEMMA InRange ==
    ASSUME TypeOK, offset = 0, NEW k \in Bar, Built(k) # {}, ClosedBy(k, now),
           k * BarLen >= now - Window * BarLen, NEW bad \in SUBSET Fetched, k \notin bad
    PROVE  /\ k \in Fetched /\ Written(Fetched \ bad)[k] = Built(k)
           /\ k \in RuleBars(Written(Fetched \ bad))
<1>1. /\ k \in Nat /\ k * BarLen \in Int /\ k * BarLen + BarLen <= now /\ now \in Nat
      /\ BarLen \in Nat \ {0} /\ Window * BarLen \in Int
  BY Sizes, BarTimes DEF ClosedBy, TypeOK
<1>2. k * BarLen + offset \in (now - Window * BarLen) .. now
  BY <1>1
<1>3. k \in Fetched
  BY <1>2 DEF Fetched
<1>4. Written(Fetched \ bad)[k] = Built(k)
  BY <1>3 DEF Written
<1>5. k * BarLen \in (now - Window * BarLen) .. (now - 1)
  BY <1>1
<1> QED
  BY <1>3, <1>4, <1>5 DEF RuleBars, Read

LEMMA RepairedNext ==
    ASSUME TypeOK, offset = 0, WindowRepaired, [Next]_vars
    PROVE  WindowRepaired'
<1> SUFFICES ASSUME NEW k \in Bar, k \notin view'.bad, Built(k)' # {}, ClosedBy(k, view'.at),
                    k * BarLen >= view'.at - Window * BarLen
             PROVE  store'[k] = Built(k)'
  BY DEF WindowRepaired, ClosedBy
<1>1. CASE Poll
  <2>1. Built(k)' = Built(k)
    BY <1>1 DEF Poll, Built, Interval
  <2>2. PICK bad \in SUBSET Fetched :
            /\ store' = Written(Fetched \ bad)
            /\ IF RuleBars(store') = {} THEN view' = view
               ELSE view'.at = now /\ view'.bad = bad
    BY <1>1, PollDoes
  <2>3. CASE RuleBars(store') = {}
    BY <2>1, <2>2, <2>3 DEF WindowRepaired, Written
  <2>4. CASE RuleBars(store') # {}
    BY <2>1, <2>2, <2>4, InRange
  <2> QED
    BY <2>3, <2>4
<1>2. CASE store' = store /\ view' = view
  <2>1. ClosedBy(k, now)
    <3>1. view.at <= now /\ view.at \in Int /\ now \in Int /\ (k + 1) * BarLen \in Int
      BY BarTimes, Sizes DEF TypeOK
    <3> QED
      BY <1>2, <3>1 DEF ClosedBy
  <2> QED
    BY <1>2, <2>1, BuiltStands DEF WindowRepaired
<1> QED
  BY <1>1, <1>2 DEF Next, Trade, Miss, Rest, vars

LEMMA LookedAtNext ==
    ASSUME TypeOK, Clockwork, offset = 0, LookedAt, [Next]_vars
    PROVE  LookedAt'
<1> SUFFICES ASSUME delay' = 0, NEW k \in Bar, k \notin lost',
                    ClosedBy(k, IF due' THEN now' - BarLen ELSE now')
             PROVE  Built(k)' \subseteq examined'
  BY DEF LookedAt, ClosedBy
<1>1. /\ k \in Nat /\ (k + 1) * BarLen = k * BarLen + BarLen /\ k * BarLen \in Int
      /\ now \in Nat /\ BarLen \in Nat \ {0} /\ Window \in Nat \ {0} /\ due \in BOOLEAN
  BY Sizes, BarTimes DEF TypeOK
<1>2. delay' = delay
  BY DEF Next, Trade, Miss, Poll, Rest, vars
\* A bar that was examined before is.
<1>3. ASSUME k \notin lost, ClosedBy(k, IF due THEN now - BarLen ELSE now),
             examined \subseteq examined'
      PROVE  Built(k)' \subseteq examined'
  <2>1. Built(k) \subseteq examined
    BY <1>2, <1>3 DEF LookedAt
  <2>2. ClosedBy(k, now)
    BY <1>1, <1>3 DEF ClosedBy
  <2> QED
    BY <1>3, <2>1, <2>2, BuiltStands
\* Else it is the one that has just closed.
<1>4. ASSUME due, due' = FALSE, now' = now, ~ClosedBy(k, now - BarLen)
      PROVE  k \in JustClosed /\ k * BarLen = now - BarLen
  <2>1. PICK m \in Nat : now = m * BarLen
    <3>1. PICK m \in Nat : now = m * BarLen + delay
      BY DEF Clockwork
    <3>2. m * BarLen \in Int
      BY BarTimes
    <3> QED
      BY <1>2, <3>1, <3>2
  <2>2. k * BarLen + BarLen <= now /\ ~(k * BarLen + BarLen <= now - BarLen)
    BY <1>1, <1>4 DEF ClosedBy
  <2>3. m * BarLen \in Int
    BY BarTimes
  <2>4. ~(m < k + 1)
    <3>1. ASSUME m < k + 1 PROVE m * BarLen + BarLen <= (k + 1) * BarLen \/ m * BarLen <= k * BarLen
      BY <1>1, <3>1, BarTimes
    <3>2. ASSUME m < k + 1 PROVE m * BarLen <= k * BarLen
      <4>1. CASE m = k
        BY <4>1, <1>1
      <4>2. CASE m < k
        BY <4>2, <1>1, <2>3, BarTimes
      <4> QED
        BY <3>2, <4>1, <4>2, <1>1
    <3> QED
      BY <1>1, <2>1, <2>2, <3>2
  <2>5. ~(k + 1 < m)
    <3>1. ASSUME k + 1 < m PROVE (k + 1) * BarLen + BarLen <= m * BarLen
      BY <1>1, <3>1, BarTimes
    <3> QED
      BY <1>1, <2>1, <2>2, <3>1
  <2>6. m = k + 1
    BY <1>1, <2>4, <2>5
  <2>7. (k + 1) * BarLen = now /\ k * BarLen = now - BarLen
    BY <1>1, <2>1, <2>6
  <2> QED
    BY <1>1, <1>2, <2>7 DEF JustClosed
<1>5. CASE Trade
  <2>1. /\ ~due /\ due' /\ now' = now + BarLen /\ examined' = examined /\ lost' = lost
    BY <1>5 DEF Trade
  <2>2. ClosedBy(k, now)
    BY <1>1, <2>1 DEF ClosedBy
  <2> QED
    BY <1>3, <2>1, <2>2
<1>6. CASE Miss
  <2>1. /\ due /\ due' = FALSE /\ now' = now /\ examined' = examined
        /\ lost' = lost \cup JustClosed
    BY <1>6 DEF Miss
  <2> QED
    BY <1>3, <1>4, <2>1
<1>7. CASE Poll
  <2>1. due /\ due' = FALSE /\ now' = now /\ ticks' = ticks
    BY <1>7 DEF Poll
  <2>2. PICK bad \in SUBSET Fetched :
            /\ store' = Written(Fetched \ bad)
            /\ lost' = lost \cup (JustClosed \cap bad)
            /\ IF RuleBars(store') = {} THEN UNCHANGED <<view, examined>>
               ELSE examined' = examined \cup store'[Max(RuleBars(store'))]
    BY <1>7, PollDoes
  <2>3. examined \subseteq examined'
    BY <2>2
  <2>4. CASE ClosedBy(k, now - BarLen)
    BY <1>3, <2>1, <2>2, <2>3, <2>4
  <2>5. CASE ~ClosedBy(k, now - BarLen) /\ Built(k) # {}
    <3>1. k \in JustClosed /\ k * BarLen = now - BarLen
      BY <1>4, <2>1, <2>5
    <3>2. k \notin bad
      BY <2>2, <3>1
    <3>3. k * BarLen >= now - Window * BarLen
      <4>1. Window * BarLen = (Window - 1) * BarLen + BarLen /\ 0 <= (Window - 1) * BarLen
        BY <1>1
      <4> QED
        BY <1>1, <3>1, <4>1
    <3>4. k \in RuleBars(store') /\ store'[k] = Built(k)
      BY <2>1, <2>2, <2>5, <3>2, <3>3, InRange
    <3>5. Max(RuleBars(store')) = k
      <4>1. RuleBars(store') \in SUBSET Bar
        BY DEF RuleBars, Read
      <4>2. \A j \in RuleBars(store') : j * BarLen <= now - 1
        BY <1>1 DEF RuleBars, Read
      <4>3. \A j \in RuleBars(store') : j <= k
        <5> SUFFICES ASSUME NEW j \in RuleBars(store') PROVE j <= k
          OBVIOUS
        <5>1. j \in Nat
          BY <4>1, Sizes
        <5>2. k < j => k * BarLen + BarLen <= j * BarLen
          BY <1>1, <5>1, BarTimes
        <5>3. j * BarLen \in Int /\ j * BarLen <= now - 1
          BY <4>2, <5>1, BarTimes
        <5>4. ~(k < j)
          BY <1>1, <3>1, <5>2, <5>3
        <5> QED
          BY <1>1, <5>1, <5>4
      <4>4. Max(RuleBars(store')) \in RuleBars(store') /\ k <= Max(RuleBars(store'))
        BY <3>4, <4>1, GreatestBar
      <4>5. Max(RuleBars(store')) \in Nat /\ Max(RuleBars(store')) <= k
        BY <4>1, <4>3, <4>4, Sizes
      <4> QED
        BY <1>1, <4>4, <4>5
    <3>6. Built(k)' = Built(k)
      BY <2>1 DEF Built, Interval
    <3> QED
      BY <2>2, <3>4, <3>5, <3>6
  <2>6. CASE Built(k) = {}
    BY <2>1, <2>6 DEF Built, Interval
  <2> QED
    BY <2>4, <2>5, <2>6
<1>8. CASE Rest \/ UNCHANGED vars
  <2>1. UNCHANGED vars
    BY <1>8 DEF Rest
  <2> QED
    BY <1>3, <2>1 DEF vars
<1> QED
  BY <1>5, <1>6, <1>7, <1>8 DEF Next

LEMMA OffsetStays ==
    ASSUME Offsets = {0}
    PROVE  TypeOK => offset = 0
BY DEF TypeOK

\* If the terminal's times are UTC, whatever was missed or fetched half-built before:
\* after a poll every bar that closed within its window is stored with all its ticks,
\* unless that poll quarantined it.
THEOREM WindowIsRepaired ==
    ASSUME Offsets = {0}
    PROVE  Spec => []WindowRepaired
<1>1. Init => WindowRepaired
  <2> SUFFICES ASSUME Init, NEW k \in Bar PROVE Built(k) = {}
    BY DEF WindowRepaired
  <2> QED
    BY DEF Init, Built
<1>2. TypeOK /\ WindowRepaired /\ [Next]_vars => WindowRepaired'
  BY RepairedNext, OffsetStays
<1> QED
  BY <1>1, <1>2, TypeCorrect, PTL DEF Spec

\* If the terminal's times are UTC and polls come at bar closes: the exit check has
\* looked at every tick of every bar up to the last poll, but for the bars whose own
\* poll was missed or quarantined them.
THEOREM EveryTickIsExamined ==
    ASSUME Offsets = {0}
    PROVE  Spec => []EveryTickExamined
<1>1. Init => Clockwork /\ LookedAt
  <2> SUFFICES ASSUME Init PROVE Clockwork /\ LookedAt
    OBVIOUS
  <2>1. delay \in Int /\ 0 * BarLen = 0
    BY Sizes DEF Init
  <2>2. 0 \in Nat /\ now = 0 * BarLen + delay
    BY <2>1 DEF Init
  <2>3. Clockwork
    BY <2>2 DEF Clockwork, Init
  <2>4. \A k \in Bar : Built(k) = {}
    BY DEF Init, Built
  <2> QED
    BY <2>3, <2>4 DEF LookedAt
<1>2. TypeOK /\ Clockwork /\ LookedAt /\ [Next]_vars => Clockwork' /\ LookedAt'
  BY ClockworkNext, LookedAtNext, OffsetStays
<1>3. TypeOK /\ Clockwork /\ LookedAt => EveryTickExamined
  <2> SUFFICES ASSUME TypeOK, Clockwork, LookedAt, delay = 0, NEW k \in Bar \ lost,
                      ClosedBy(k, view.at)
               PROVE  Built(k) \subseteq examined
    BY DEF EveryTickExamined
  <2>1. /\ view.at \in Nat /\ view.at <= now /\ now \in Nat /\ (k + 1) * BarLen \in Int
        /\ BarLen \in Nat /\ (due => view.at <= now - BarLen)
    BY Sizes, BarTimes DEF TypeOK, Clockwork
  <2>2. ClosedBy(k, IF due THEN now - BarLen ELSE now)
    BY <2>1 DEF ClosedBy
  <2> QED
    BY <2>2 DEF LookedAt
<1> QED
  BY <1>1, <1>2, <1>3, TypeCorrect, PTL DEF Spec

=============================================================================
