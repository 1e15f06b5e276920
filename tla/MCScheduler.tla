---------------------------- MODULE MCScheduler ----------------------------
(* A small calendar: days of two seconds, months of one and two days, and  *)
(* weeks of seven days as in the code.  The monthly task is due on the     *)
(* second of a month, which the first two months do not have.              *)
EXTENDS Scheduler

MCMonthStart == [m \in 0..7 |-> <<0, 1, 2, 4, 6, 8, 10, 12>>[m + 1]]
MCMonthOf == [d \in 0..11 |->
                CHOOSE m \in 0..6 : MCMonthStart[m] <= d /\ d < MCMonthStart[m + 1]]
MCRecurrences == {[type |-> "once", time |-> 1, day |-> 0],
                  [type |-> "weekly", time |-> 0, day |-> 0],
                  [type |-> "monthly", time |-> 1, day |-> 2]}
=============================================================================
