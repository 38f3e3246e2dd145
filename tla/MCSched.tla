------------------------------- MODULE MCSched -------------------------------
(* Two threads in different groups and the main thread.                    *)
EXTENDS Sched

CONSTANTS t1, t2
Groups == [t \in Threads |-> IF t = t1 THEN 1 ELSE 2]
=============================================================================
