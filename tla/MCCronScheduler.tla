-------------------------- MODULE MCCronScheduler --------------------------
(* Small instances of CronScheduler for TLC. *)
EXTENDS CronScheduler, TLC

CONSTANTS a, t1, t2

Recurring == [j \in Jobs |-> {"recurring"}]
Others    == [j \in Jobs |-> {"poll", "at", "webhook"}]

\* The slots are interchangeable: no action and no property names one.
TaskSymmetry == Permutations(Tasks)
=============================================================================
