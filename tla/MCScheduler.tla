---------------------------- MODULE MCScheduler ----------------------------
(* Instances of the flow pool: two launches, of one orchestrator or of     *)
(* users, and a scratch run.                                               *)
EXTENDS Scheduler

CONSTANTS f1, f2, s1

Flow_ == {f1, f2}
Families_ == {{}, Flow_}
Scratch_ == {s1}
Weight_ == [r \in {f1, f2, s1} |-> IF r = f2 THEN 1 ELSE 0]
=============================================================================
