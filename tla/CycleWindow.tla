----------------------------- MODULE CycleWindow -----------------------------
(***************************************************************************)
(* The billing cycle of a subscription at a moment: CurrentCycleWindow     *)
(* (internal/kernel/metering.go), on the calendar of Go's time package.    *)
(* The usage statement of a cycle sums the events in [start, end), so the  *)
(* windows met as time passes decide in which statements an event is       *)
(* billed.                                                                 *)
(*                                                                         *)
(* A moment is a local date and a half of the day; months are counted from *)
(* January of the year 0.  The zone has a fixed offset: daylight saving is *)
(* not modelled.                                                           *)
(***************************************************************************)
EXTENDS Integers

CONSTANTS
    Anchors,      \* possible values of AnchorTime
    ChargeTypes,  \* "recurring_yearly", and those billed by the month
    LastMonth     \* bound on the time that passes

VARIABLES anchor, charge, at

vars == <<anchor, charge, at>>

-----------------------------------------------------------------------------
(* The calendar *)

IsLeap(y) == y % 4 = 0 /\ (y % 100 # 0 \/ y % 400 = 0)

DaysIn(n) ==
    LET m == (n % 12) + 1
    IN  IF m = 2 THEN IF IsLeap(n \div 12) THEN 29 ELSE 28
        ELSE IF m \in {4, 6, 9, 11} THEN 30 ELSE 31

Moment == [month : Nat, day : 1 .. 31, half : {0, 1}]

Dates == {t \in Moment : t.day <= DaysIn(t.month)}

ASSUME CycleAssumption ==
    /\ Anchors \subseteq Dates
    /\ \A a \in Anchors : a.month >= 12
    /\ LastMonth \in Nat

Before(s, t) ==
    \/ s.month < t.month
    \/ s.month = t.month /\ s.day < t.day
    \/ s.month = t.month /\ s.day = t.day /\ s.half < t.half

YearOf(t) == t.month \div 12

(* t.AddDate(0, k, 0), where a year is twelve months: a day past the end   *)
(* of its new month runs over into the next one.                           *)
AddMonths(t, k) ==
    LET n == t.month + k
    IN  IF t.day <= DaysIn(n)
          THEN [t EXCEPT !.month = n]
          ELSE [t EXCEPT !.month = n + 1, !.day = @ - DaysIn(n)]

Later(t) ==
    IF t.half = 0 THEN [t EXCEPT !.half = 1]
    ELSE IF t.day < DaysIn(t.month)
           THEN [month |-> t.month, day |-> t.day + 1, half |-> 0]
           ELSE [month |-> t.month + 1, day |-> 1, half |-> 0]

-----------------------------------------------------------------------------
(* CurrentCycleWindow *)

\* Mutant of Period: everything is billed by the month.
PeriodMonthly(type) == 1

\* Months in a cycle.
Period(type) == IF type = "recurring_yearly" THEN 12 ELSE 1

\* Months from the anchor's year or month to that of t.
Elapsed(a, type, t) ==
    IF type = "recurring_yearly" THEN 12 * (YearOf(t) - YearOf(a)) ELSE t.month - a.month

\* Mutant of CycleStart: no cycle less when the anchor's day is still to come.
CycleStartNotBack(a, type, t) == AddMonths(a, Elapsed(a, type, t))

\* The anchor moved by that much, or by one cycle less if this is past t.
CycleStart(a, type, t) ==
    LET start == AddMonths(a, Elapsed(a, type, t))
    IN  IF Before(t, start) THEN AddMonths(a, Elapsed(a, type, t) - Period(type)) ELSE start

CurrentCycleWindow(a, type, t) ==
    IF Before(t, a)
      THEN [start |-> a, end |-> a]
      ELSE [start |-> CycleStart(a, type, t),
            end   |-> AddMonths(CycleStart(a, type, t), Period(type))]

-----------------------------------------------------------------------------
(* Time passes for a subscription of any anchor and charge type; the       *)
(* usage is read before it starts and ever after.                          *)

TypeOK == anchor \in Anchors /\ charge \in ChargeTypes /\ at \in Dates

Init ==
    /\ anchor \in Anchors
    /\ charge \in ChargeTypes
    /\ at = [month |-> anchor.month - 1, day |-> 1, half |-> 0]

Tick ==
    /\ at.month < LastMonth
    /\ at' = Later(at)
    /\ UNCHANGED <<anchor, charge>>

Next == Tick

Spec == Init /\ [][Next]_vars

Window == CurrentCycleWindow(anchor, charge, at)

-----------------------------------------------------------------------------
(* "Returns the half-open interval [CycleStartUTC, CycleEndUTC) that       *)
(* contains `at`": what happens now is billed in the cycle shown now.      *)
ContainsAt ==
    ~Before(at, anchor) => ~Before(at, Window.start) /\ Before(at, Window.end)

(* Cycles tile time: the next window starts where the last one ends, so    *)
(* that every event is in the statement of one cycle and of only one.      *)
CyclesTile == [][Window' = Window \/ Window'.start = Window.end]_vars
=============================================================================
