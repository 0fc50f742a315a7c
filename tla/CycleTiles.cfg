\* Anchors on days that every month has, both halves of a day, to the end of 2028:
\* two leap years, years that end and begin, and Feb 28 in each kind of year.
CONSTANTS
    LastMonth <- End2028
    Anchors <- SafeAnchors
    ChargeTypes = {"metered", "recurring_yearly"}
SPECIFICATION Spec
CHECK_DEADLOCK FALSE
INVARIANT ContainsAt
PROPERTY CyclesTile
