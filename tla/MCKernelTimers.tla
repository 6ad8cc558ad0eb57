---------------------------- MODULE MCKernelTimers ----------------------------
(***************************************************************************)
(* Instances of KernelTimers for TLC.                                      *)
(***************************************************************************)
EXTENDS KernelTimers

Created(mode, interval, sensitive) == [mode |-> mode, interval |-> interval, sensitive |-> sensitive]

\* Every mode; 2 and 4 are multiples of the divisor and may be aligned, 3 only with 3.
MCTimerPlan == {Created("once", 3, TRUE), Created("no_selfdelete", 1, TRUE), Created("period", 3, TRUE),
                Created("period", 3, FALSE), Created("period", 2, FALSE), Created("period", 4, FALSE)}

SensitivePlan == {Created("once", 1, TRUE), Created("period", 2, TRUE)}
=============================================================================
