------------------------------ MODULE MCTimers ------------------------------
(* A small instance of Timers: beside one timer, whose record may be as it   *)
(* was when it is looked at again, a client and one other piece of work.     *)
EXTENDS Timers

CONSTANTS t1, reply, work

MCInstants == [k \in Kinds |-> IF k = "sensor" THEN 2 ELSE 1]
MCActivities == Fires \cup {reply, work}
=============================================================================
