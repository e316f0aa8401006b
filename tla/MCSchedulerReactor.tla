------------------------- MODULE MCSchedulerReactor -------------------------
(* Instances of SchedulerReactor small enough for TLC. *)
EXTENDS SchedulerReactor

CONSTANTS local, codex

Task(deps, group, areas) ==
    [deps |-> deps, group |-> group, repository |-> "lina", areas |-> areas,
     host |-> local, worker |-> codex]

(* Two submissions that write the same area. *)
Rivals == [t \in Tasks |-> {Task({}, IF t = 1 THEN "a" ELSE "b", {"core"})}]

Offer(n) == [slots |-> [h \in Hosts |-> n], blocked |-> {}]

OneSlot == {Offer(1)}
TwoSlots == {Offer(2)}

Each == {{t} : t \in Tasks}

(* Two tasks and a forge that never answers, or one task that the forge may  *)
(* judge.  Submissions and the forge are under no fairness, so the bound    *)
(* takes nothing from what fairness promises.                              *)
Small == (\E t \in Tasks : forge[t] # Store!NoPR) => Store!Admitted = {1}

SmallSpec == Init /\ [][Next /\ Small']_vars /\ Fairness
=============================================================================
