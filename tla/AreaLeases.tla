----------------------------- MODULE AreaLeases -----------------------------
(***************************************************************************)
(* What LINA promises about write areas (docs/design/work-and-delegation.  *)
(* md, Write areas), without cards, records, slots or pull requests.  Some *)
(* tasks have areas that meet.  A task is given its area before a worker   *)
(* writes for it, and never together with a task whose area meets its own. *)
(* The area comes free only once the task is over, when nothing more is    *)
(* ever written for it.                                                    *)
(***************************************************************************)
EXTENDS TLAPS

CONSTANT Tasks

VARIABLES
    meets,    \* pairs {t, u} of tasks whose areas meet
    held,     \* tasks that have their area
    writing,  \* tasks a worker is writing for
    over      \* tasks nobody will begin to write for any more

vars == <<meets, held, writing, over>>

Init ==
    /\ meets \subseteq SUBSET Tasks
    /\ held = {} /\ writing = {} /\ over = {}

(* New tasks come with the tasks they meet; none of them has its area yet. *)
Join ==
    /\ UNCHANGED <<held, writing, over>>
    /\ meets \subseteq meets' /\ meets' \subseteq SUBSET Tasks
    /\ \A p \in meets' \ meets : \E t \in p : t \notin held

(* One or several tasks are given their areas at once. *)
Grant ==
    /\ held \subseteq held' /\ held' \subseteq Tasks
    /\ \A t \in held' \ held : t \notin over /\ \A u \in held' : {t, u} \notin meets
    /\ UNCHANGED <<meets, writing, over>>

Begin(t) ==
    /\ t \in held \ over
    /\ writing' = writing \cup {t}
    /\ UNCHANGED <<meets, held, over>>

(* Workers stop writing, tasks are over, and the areas of some that are    *)
(* over come free, unless a worker still writes for them.                  *)
End ==
    /\ writing' \subseteq writing /\ over \subseteq over'
    /\ held' \subseteq held /\ held \ held' \subseteq over' \ writing'
    /\ UNCHANGED meets

Next == End \/ Grant \/ (\E t \in Tasks : Begin(t)) \/ Join

Spec == Init /\ [][Next]_vars

-----------------------------------------------------------------------------
(* What follows from it, for everything that implements it. *)

(* Two tasks whose areas meet never have their areas, and never are written *)
(* for, together; nobody writes without an area.                           *)
Exclusive ==
    /\ writing \subseteq held /\ held \subseteq Tasks
    /\ \A t, u \in held : {t, u} \notin meets

NoTwoWriters == \A t, u \in writing : {t, u} \notin meets

(* For a task that is over, nobody begins to write, and it gets no area.   *)
OverStaysOver ==
    [][over \subseteq over' /\ over \cap (writing' \ writing) = {}
         /\ over \cap (held' \ held) = {}]_vars

THEOREM AreasExclusive == Spec => []Exclusive
<1>1. Init => Exclusive
  BY DEF Init, Exclusive
<1>2. Exclusive /\ [Next]_vars => Exclusive'
  <2> SUFFICES ASSUME Exclusive, Next PROVE Exclusive'
    BY DEF Exclusive, vars
  <2>1. CASE Join
    <3> SUFFICES ASSUME NEW t \in held, NEW u \in held, {t, u} \in meets'
                 PROVE  FALSE
      BY <2>1 DEF Join, Exclusive
    <3>1. {t, u} \notin meets
      BY DEF Exclusive
    <3>2. PICK v \in {t, u} : v \notin held
      BY <2>1, <3>1 DEF Join
    <3> QED
      BY <3>2
  <2>2. CASE Grant
    <3> SUFFICES ASSUME NEW t \in held', NEW u \in held', {t, u} \in meets
                 PROVE  FALSE
      BY <2>2 DEF Grant, Exclusive
    <3>1. CASE t \in held /\ u \in held
      BY <3>1 DEF Exclusive
    <3>2. CASE t \notin held
      BY <2>2, <3>2 DEF Grant
    <3>3. CASE u \notin held
      <4>1. {u, t} = {t, u}
        OBVIOUS
      <4> QED
        BY <2>2, <3>3, <4>1 DEF Grant
    <3> QED
      BY <3>1, <3>2, <3>3
  <2>3. ASSUME NEW t \in Tasks, Begin(t) PROVE Exclusive'
    BY <2>3 DEF Begin, Exclusive
  <2>4. CASE End
    BY <2>4 DEF End, Exclusive
  <2> QED
    BY <2>1, <2>2, <2>3, <2>4 DEF Next
<1> QED
  BY <1>1, <1>2, PTL DEF Spec

THEOREM WritersApart == Spec => []NoTwoWriters
<1>1. Exclusive => NoTwoWriters
  BY DEF Exclusive, NoTwoWriters
<1> QED
  BY <1>1, AreasExclusive, PTL

THEOREM OverIsOver == Spec => OverStaysOver
<1>1. [Next]_vars => [over \subseteq over' /\ over \cap (writing' \ writing) = {}
                        /\ over \cap (held' \ held) = {}]_vars
  BY DEF Next, Join, Grant, Begin, End, vars
<1> QED
  BY <1>1, PTL DEF Spec, OverStaysOver
=============================================================================
