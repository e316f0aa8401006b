-------------------------- MODULE MCWorkScheduler --------------------------
(* Instances of WorkScheduler small enough for TLC. *)
EXTENDS WorkScheduler

CONSTANTS local, codex

Task(deps, group, areas) ==
    [deps |-> deps, group |-> group, repository |-> "lina", areas |-> areas,
     host |-> local, worker |-> codex]

(* Proposals an agent may get wrong: cycles between 2 and 3, overlaps that  *)
(* are unordered, ordered directly or only through 2.                       *)
DoubtfulGraphs ==
    [t \in Tasks |->
       CASE t = 1 -> {Task({}, "a", {"core"})}
         [] t = 2 -> {Task(D, "a", A) : D \in {{}, {1}, {3}}, A \in {{"core"}, {"ui"}}}
         [] t = 3 -> {Task(D, g, {"core", "ui"}) : D \in {{}, {2}}, g \in {"a", "b"}}]

OneOrAll == {{t} : t \in Tasks} \cup {Tasks}
=============================================================================
