---------------------------- MODULE MCDurableJobs ----------------------------
(***************************************************************************)
(* Bounded instances of DurableJobs for TLC.  The keys of resumes bound    *)
(* the author, MaxCrashes and MaxBusy the faults; nothing else is cut.     *)
(***************************************************************************)
EXTENDS DurableJobs, TLC

CONSTANTS k1, k2

NoKeys  == {}
OneKey  == {k1}
TwoKeys == {k1, k2}

NoStages     == {}
RepairSecond == {2}     \* stage 1 is a review, stage 2 its repair
SkipThird    == {3}     \* stage 3 is skipped
=============================================================================
