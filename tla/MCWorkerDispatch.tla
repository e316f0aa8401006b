-------------------------- MODULE MCWorkerDispatch --------------------------
(* Instances of WorkerDispatch small enough for TLC. *)
EXTENDS WorkerDispatch

(* Task 1 may be given either worker, task 2 only the one that can be read. *)
WorkersOf == [t \in Tasks |-> IF t = 1 THEN {"codex", "agy"} ELSE {"codex"}]
OneRepository == {p \in SUBSET Tasks : Cardinality(p) = 2}

(* Two attempts of task 1 alone, which somebody may cancel; one attempt of  *)
(* it with task 2 at the door of its area; and task 1 again with nobody to  *)
(* cancel it, and one attempt more than it can ever be given.              *)
Alone1 == [tasks |-> {1}, cancels |-> {1}, attempts |-> [t \in Tasks |-> 2]]
AtTheDoor ==
    [tasks |-> {1, 2}, cancels |-> {}, attempts |-> [t \in Tasks |-> IF t = 1 THEN 1 ELSE 0]]
ToTheEnd == [tasks |-> {1}, cancels |-> {}, attempts |-> [t \in Tasks |-> 7]]
AloneAtTheDoorToTheEnd == {Alone1, AtTheDoor, ToTheEnd}
JustAlone == {Alone1}
=============================================================================
