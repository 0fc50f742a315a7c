------------------------- MODULE CycleWindow_proofs --------------------------
(***************************************************************************)
(* For every anchor on one of the first 28 days of a month, and all time:  *)
(* the windows contain the moment they are asked for, and tile time.       *)
(***************************************************************************)
EXTENDS CycleWindow, TLAPS

\* What the anchors must satisfy: from later days AddDate overflows.
EarlyAnchors == \A a \in Anchors : a.day <= 28

LEMMA ShortestMonth == \A n \in Nat : DaysIn(n) \in 28 .. 31
BY DEF DaysIn

\* An anchor on a day that every month has keeps its day.
LEMMA AddMonthsKeepsDay ==
    ASSUME NEW t \in Moment, t.day <= 28, NEW k \in Int, t.month + k \in Nat
    PROVE  AddMonths(t, k) = [month |-> t.month + k, day |-> t.day, half |-> t.half]
<1>1. t.day <= DaysIn(t.month + k)
  BY ShortestMonth DEF Moment
<1>2. QED
  BY <1>1 DEF AddMonths, Moment

\* The anchor moved by i months.
Shifted(a, i) == [month |-> a.month + i, day |-> a.day, half |-> a.half]

\* The cycle that begins k months after the anchor contains t.
InCycle(a, c, t, k) ==
    /\ k \in Int
    /\ a.month + k \in Nat
    /\ k % Period(c) = 0
    /\ ~Before(t, Shifted(a, k))
    /\ Before(t, Shifted(a, k + Period(c)))

\* The window starts the anchor's day and time, a whole number of cycles later.
LEMMA StartIs ==
    ASSUME NEW a \in Dates, NEW t \in Dates, NEW c \in ChargeTypes,
           a.day <= 28, a.month >= 12, ~Before(t, a)
    PROVE  \E k \in Int : InCycle(a, c, t, k) /\ CycleStart(a, c, t) = Shifted(a, k)
<1> DEFINE k == Elapsed(a, c, t)
<1>1. a.month <= t.month /\ a.month \in Nat /\ t.month \in Nat
  BY DEF Dates, Moment, Before
<1>2. /\ k \in Nat /\ k % Period(c) = 0
      /\ Period(c) \in {1, 12}
      /\ t.month < a.month + k + Period(c)
      /\ a.month + k - Period(c) < t.month
  BY <1>1 DEF Elapsed, Period, YearOf
<1> HIDE DEF k
<1>3. /\ AddMonths(a, k) = Shifted(a, k)
      /\ AddMonths(a, k - Period(c)) = Shifted(a, k - Period(c))
  BY <1>1, <1>2, AddMonthsKeepsDay DEF Dates, Shifted
<1>4. CASE Before(t, Shifted(a, k))
  <2>1. CycleStart(a, c, t) = Shifted(a, k - Period(c))
    BY <1>3, <1>4 DEF CycleStart, k
  <2>2. /\ k - Period(c) \in Int
        /\ (k - Period(c)) % Period(c) = 0
        /\ a.month + (k - Period(c)) \in Nat
        /\ (k - Period(c)) + Period(c) = k
    BY <1>1, <1>2
  <2>3. ~Before(t, Shifted(a, k - Period(c)))
    BY <1>1, <1>2, <2>2 DEF Before, Shifted
  <2>4. QED
    BY <1>4, <2>1, <2>2, <2>3 DEF InCycle
<1>5. CASE ~Before(t, Shifted(a, k))
  <2>1. CycleStart(a, c, t) = Shifted(a, k)
    BY <1>3, <1>5 DEF CycleStart, k
  <2>2. Before(t, Shifted(a, k + Period(c)))
    BY <1>1, <1>2 DEF Before, Shifted
  <2>3. k \in Int /\ a.month + k \in Nat
    BY <1>1, <1>2
  <2>4. QED
    BY <1>2, <1>5, <2>1, <2>2, <2>3 DEF InCycle
<1>6. QED
  BY <1>4, <1>5

LEMMA WindowIs ==
    ASSUME NEW a \in Dates, NEW t \in Dates, NEW c \in ChargeTypes,
           a.day <= 28, a.month >= 12, ~Before(t, a)
    PROVE  \E k \in Int :
              /\ InCycle(a, c, t, k)
              /\ CurrentCycleWindow(a, c, t) =
                   [start |-> Shifted(a, k), end |-> Shifted(a, k + Period(c))]
<1>1. PICK k \in Int : InCycle(a, c, t, k) /\ CycleStart(a, c, t) = Shifted(a, k)
  BY StartIs
<1>2. Period(c) \in {1, 12} /\ a.month + k \in Nat /\ a \in Moment
  BY <1>1 DEF InCycle, Period, Dates
<1>3. Shifted(a, k) \in Moment /\ Shifted(a, k).day <= 28
  BY <1>2 DEF Shifted, Moment
<1>4. AddMonths(Shifted(a, k), Period(c)) = Shifted(a, k + Period(c))
  <2>1. Shifted(a, k).month + Period(c) \in Nat
    BY <1>2 DEF Shifted
  <2>2. AddMonths(Shifted(a, k), Period(c)) =
          [month |-> Shifted(a, k).month + Period(c), day |-> Shifted(a, k).day,
           half |-> Shifted(a, k).half]
    BY <1>2, <1>3, <2>1, AddMonthsKeepsDay
  <2>3. Shifted(a, k).month + Period(c) = a.month + (k + Period(c))
    BY <1>1, <1>2 DEF Shifted, Moment
  <2>4. QED
    BY <2>2, <2>3 DEF Shifted
<1>5. QED
  BY <1>1, <1>4 DEF CurrentCycleWindow

\* A moment is in one cycle only.
LEMMA OneCycle ==
    ASSUME NEW a \in Dates, NEW t \in Dates, NEW c \in ChargeTypes, NEW k, NEW j,
           InCycle(a, c, t, k), InCycle(a, c, t, j)
    PROVE  k = j
<1>1. k \in Int /\ j \in Int /\ Period(c) \in {1, 12} /\ a.month \in Nat /\ t.month \in Nat
  BY DEF InCycle, Period, Dates, Moment
<1>2. k < j + Period(c) /\ j < k + Period(c)
  BY <1>1 DEF InCycle, Before, Shifted, Dates, Moment
<1>3. k % Period(c) = 0 /\ j % Period(c) = 0
  BY DEF InCycle
<1>4. QED
  BY <1>1, <1>2, <1>3

\* Time moves to the very next moment.
LEMMA LaterIs ==
    ASSUME NEW t \in Dates
    PROVE  /\ Later(t) \in Dates
           /\ Before(t, Later(t))
           /\ \A x \in Dates : Before(t, x) => ~Before(x, Later(t))
<1>1. /\ t.month \in Nat /\ t.day \in 1 .. 31 /\ t.half \in {0, 1}
      /\ t = [month |-> t.month, day |-> t.day, half |-> t.half]
      /\ t.day <= DaysIn(t.month) /\ DaysIn(t.month) \in 28 .. 31
  BY ShortestMonth DEF Dates, Moment
<1>2. \A x \in Dates : /\ x.month \in Nat /\ x.day \in 1 .. 31 /\ x.half \in {0, 1}
                       /\ x.month = t.month => x.day <= DaysIn(t.month)
  BY DEF Dates, Moment
<1>3. CASE t.half = 0
  <2>1. Later(t) = [month |-> t.month, day |-> t.day, half |-> 1]
    BY <1>1, <1>3 DEF Later
  <2>2. QED
    BY <1>1, <1>2, <1>3, <2>1 DEF Before, Dates, Moment
<1>4. CASE t.half = 1 /\ t.day < DaysIn(t.month)
  <2>1. Later(t) = [month |-> t.month, day |-> t.day + 1, half |-> 0]
    BY <1>1, <1>4 DEF Later
  <2>2. Later(t) \in Dates
    BY <1>1, <1>4, <2>1 DEF Dates, Moment
  <2>3. QED
    BY <1>1, <1>2, <1>4, <2>1, <2>2 DEF Before
<1>5. CASE t.half = 1 /\ t.day = DaysIn(t.month)
  <2>1. Later(t) = [month |-> t.month + 1, day |-> 1, half |-> 0]
    BY <1>1, <1>5 DEF Later
  <2>2. DaysIn(t.month + 1) \in 28 .. 31
    BY <1>1, ShortestMonth
  <2>3. Later(t) \in Dates
    BY <1>1, <2>1, <2>2 DEF Dates, Moment
  <2>4. QED
    BY <1>1, <1>2, <1>5, <2>1, <2>3 DEF Before
<1>6. QED
  BY <1>1, <1>3, <1>4, <1>5

-----------------------------------------------------------------------------
(* Time passes through real dates, from before the anchor on. *)
THEOREM TypeCorrect == Spec => []TypeOK
<1>1. Init => TypeOK
  BY CycleAssumption, ShortestMonth DEF Init, TypeOK, Dates, Moment
<1>2. TypeOK /\ [Next]_vars => TypeOK'
  BY LaterIs DEF TypeOK, Next, Tick, vars
<1>3. QED
  BY <1>1, <1>2, PTL DEF Spec

(* CurrentCycleWindow contains the moment it is asked for, whatever the    *)
(* charge type and however far from the anchor, for anchors up to the 28th.*)
THEOREM ContainsAtHolds == ASSUME EarlyAnchors PROVE Spec => []ContainsAt
<1>1. TypeOK => ContainsAt
  <2> SUFFICES ASSUME TypeOK, ~Before(at, anchor)
               PROVE  ~Before(at, Window.start) /\ Before(at, Window.end)
    BY DEF ContainsAt
  <2>1. PICK k \in Int :
          /\ InCycle(anchor, charge, at, k)
          /\ Window = [start |-> Shifted(anchor, k), end |-> Shifted(anchor, k + Period(charge))]
    BY WindowIs, CycleAssumption DEF TypeOK, EarlyAnchors, Window
  <2>2. QED
    BY <2>1 DEF InCycle
<1>2. QED
  BY <1>1, TypeCorrect, PTL

\* Of two cycles of the same anchor, the later begins where the other ends or after.
LEMMA NextCycle ==
    ASSUME NEW a \in Dates, NEW t \in Dates, NEW c \in ChargeTypes,
           NEW k, InCycle(a, c, t, k), ~InCycle(a, c, Later(t), k)
    PROVE  InCycle(a, c, Later(t), k + Period(c))
<1> DEFINE u == Later(t)
<1>1. /\ k \in Int /\ Period(c) \in {1, 12} /\ a.month \in Nat /\ a.month + k \in Nat
      /\ a.day \in 1 .. 31 /\ a.half \in {0, 1}
  BY DEF InCycle, Period, Dates, Moment
<1>2. u \in Dates /\ Before(t, u)
  BY LaterIs
<1>3. /\ t.month \in Nat /\ t.day \in 1 .. 31 /\ t.half \in {0, 1}
      /\ u.month \in Nat /\ u.day \in 1 .. 31 /\ u.half \in {0, 1}
  BY <1>2 DEF Dates, Moment
<1>4. ~Before(u, Shifted(a, k))
  BY <1>1, <1>2, <1>3 DEF InCycle, Before, Shifted
<1>5. ~Before(u, Shifted(a, k + Period(c)))
  BY <1>1, <1>4 DEF InCycle
<1>6. Before(u, Shifted(a, k + Period(c) + Period(c)))
  <2>1. \/ u.month = t.month
        \/ u.month = t.month + 1 /\ u.day = 1 /\ u.half = 0
    BY <1>3 DEF Later, Dates, Moment
  <2>2. Before(t, Shifted(a, k + Period(c)))
    BY DEF InCycle
  <2> HIDE DEF u
  <2>3. QED
    BY <1>1, <1>3, <2>1, <2>2 DEF Before, Shifted
<1>7. QED
  BY <1>1, <1>5, <1>6 DEF InCycle

(* Cycles tile time: the next window starts exactly where the last ended,  *)
(* so no moment is billed twice or not at all.                             *)
THEOREM CyclesTileHolds == ASSUME EarlyAnchors PROVE Spec => CyclesTile
<1> DEFINE Tiles == Window' = Window \/ Window'.start = Window.end
<1>1. TypeOK /\ TypeOK' /\ [Next]_vars => [Tiles]_vars
  <2> SUFFICES ASSUME TypeOK, TypeOK', Tick PROVE Tiles
    BY DEF Next
  <2>1. anchor' = anchor /\ charge' = charge /\ at' = Later(at)
    BY DEF Tick
  <2>2. /\ anchor \in Dates /\ anchor.day <= 28 /\ anchor.month >= 12
        /\ charge \in ChargeTypes /\ at \in Dates /\ at' \in Dates
    BY CycleAssumption DEF TypeOK, EarlyAnchors
  <2>3. Window' = CurrentCycleWindow(anchor, charge, at')
    BY <2>1 DEF Window
  <2>4. CASE Before(at', anchor)
    <3>1. Before(at, anchor)
      BY <2>1, <2>2, <2>4, LaterIs DEF Before, Dates, Moment
    <3>2. QED
      BY <2>3, <2>4, <3>1 DEF Window, CurrentCycleWindow
  <2>5. CASE ~Before(at', anchor)
    <3>1. PICK j \in Int :
            /\ InCycle(anchor, charge, at', j)
            /\ Window' = [start |-> Shifted(anchor, j),
                          end |-> Shifted(anchor, j + Period(charge))]
      BY <2>2, <2>3, <2>5, WindowIs
    <3>2. CASE Before(at, anchor)
      <4>1. at' = anchor
        <5>1. ~Before(anchor, at')
          BY <2>1, <2>2, <3>2, LaterIs
        <5>2. QED
          BY <2>2, <2>5, <5>1 DEF Before, Dates, Moment
      <4>2. InCycle(anchor, charge, at', 0)
        BY <2>2, <4>1 DEF InCycle, Shifted, Before, Period, Dates, Moment
      <4>3. j = 0
        BY <2>2, <3>1, <4>2, OneCycle
      <4>4. Window'.start = anchor
        BY <2>2, <3>1, <4>3 DEF Shifted, Dates, Moment
      <4>5. QED
        BY <3>2, <4>4 DEF Window, CurrentCycleWindow
    <3>3. CASE ~Before(at, anchor)
      <4>1. PICK k \in Int :
              /\ InCycle(anchor, charge, at, k)
              /\ Window = [start |-> Shifted(anchor, k),
                           end |-> Shifted(anchor, k + Period(charge))]
        BY <2>2, <3>3, WindowIs DEF Window
      <4>2. CASE InCycle(anchor, charge, at', k)
        BY <2>2, <3>1, <4>1, <4>2, OneCycle
      <4>3. CASE ~InCycle(anchor, charge, at', k)
        <5>1. InCycle(anchor, charge, at', k + Period(charge))
          BY <2>1, <2>2, <4>1, <4>3, NextCycle
        <5>2. j = k + Period(charge)
          BY <2>2, <3>1, <5>1, OneCycle
        <5>3. QED
          BY <3>1, <4>1, <5>2
      <4>4. QED
        BY <4>2, <4>3
    <3>4. QED
      BY <3>2, <3>3
  <2>6. QED
    BY <2>4, <2>5
<1>2. QED
  BY <1>1, TypeCorrect, PTL DEF Spec, CyclesTile
=============================================================================
