------------------------- MODULE MCCompletionOutbox -------------------------
(* Instances of CompletionOutbox small enough for TLC. *)
EXTENDS CompletionOutbox

(* Task 1 delivers commits, the file task 2 may hand in its files twice. *)
ReceiptsOf == [t \in Tasks |-> IF t \in FileTasks THEN {"a", "b"} ELSE {"a"}]
HeadsOf == [t \in Tasks |-> IF t \in FileTasks THEN {} ELSE {"h1"}]
=============================================================================
