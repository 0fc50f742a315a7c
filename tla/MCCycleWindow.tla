---------------------------- MODULE MCCycleWindow ----------------------------
(* Anchors of CycleWindow for TLC: on days that every month of every year  *)
(* has, in and around leap years.                                          *)
EXTENDS CycleWindow

Date(y, m, d, h) == [month |-> 12 * y + m - 1, day |-> d, half |-> h]

SafeAnchors ==
    {Date(2023, 1, 1, 0), Date(2023, 2, 28, 1), Date(2023, 8, 15, 1),
     Date(2023, 12, 28, 0), Date(2024, 2, 1, 1), Date(2024, 2, 28, 0)}

End2028 == 12 * 2028 + 11
=============================================================================
