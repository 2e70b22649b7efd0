----------------------- MODULE MCScheduleLifecycle -----------------------
EXTENDS ScheduleLifecycle, TLC

Symmetric == Permutations(Requests)
==========================================================================
