------------------------- MODULE MCConversationLane -------------------------
(* Instances of ConversationLane small enough for TLC. *)
EXTENDS ConversationLane

(* 1 and 3 are for one owner and land within a window; 2 is for another      *)
(* owner; 4 lands too late for the window of the others.                   *)
LandedAt == [n \in Notices |-> IF n = 4 THEN 20 ELSE n]
OwnedBy == [n \in Notices |-> IF n = 2 THEN "other" ELSE "owner"]
=============================================================================
