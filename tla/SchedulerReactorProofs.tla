----------------------- MODULE SchedulerReactorProofs -----------------------
(***************************************************************************)
(* Proofs about SchedulerReactor: every step of its handlers is one        *)
(* transaction of WorkScheduler, so what WorkSchedulerProofs shows of the  *)
(* store holds of it under crashes, losses and interleavings; and workers  *)
(* run under the lease of their task.  The inductive invariant is          *)
(* ReactorInv.                                                             *)
(***************************************************************************)
EXTENDS SchedulerReactor, TLAPS

(* The theorems about the store, of the same constants and variables. *)
Proved == INSTANCE WorkSchedulerProofs

-----------------------------------------------------------------------------
(* The store.  The instance the model uses and the one the theorems are      *)
(* about have the same definitions; the first three lemmas say so.         *)

(* The same initial states,                                                *)
LEMMA SameStart == ASSUME Store!Init PROVE Proved!Init
BY DEF Store!Init, Proved!Init, Store!NewScheduling, Proved!NewScheduling,
       Store!NoWait, Proved!NoWait, Store!NoPR, Proved!NoPR

(* the same steps,                                                         *)
LEMMA SameStep == ASSUME Store!Next PROVE Proved!Next
BY DEF Store!NoPR, Proved!NoPR, Store!PullRequest, Proved!PullRequest,
       Store!Scheduling, Proved!Scheduling, Store!NewScheduling,
       Proved!NewScheduling, Store!CardStates, Proved!CardStates, Store!NoWait,
       Proved!NoWait, Store!WaitReasons, Proved!WaitReasons, Store!Admitted,
       Proved!Admitted, Store!Overlap, Proved!Overlap, Store!Excludes,
       Proved!Excludes, Store!First, Proved!First, Store!Ancestors,
       Proved!Ancestors, Store!ValidGraph, Proved!ValidGraph, Store!Joined,
       Proved!Joined, Store!Schedule, Proved!Schedule, Store!Candidates,
       Proved!Candidates, Store!Earlier, Proved!Earlier, Store!AreaHolders,
       Proved!AreaHolders, Store!Blockers, Proved!Blockers, Store!Occupants,
       Proved!Occupants, Store!Used, Proved!Used, Store!Unlanded,
       Proved!Unlanded, Store!Reason, Proved!Reason, Store!Releasable,
       Proved!Releasable, Store!Reserve, Proved!Reserve, Store!Released,
       Proved!Released, Store!Release, Proved!Release, Store!Shown,
       Proved!Shown, Store!SchedulingEvent, Proved!SchedulingEvent,
       Store!StartFailed, Proved!StartFailed, Store!Start, Proved!Start,
       Store!Outcome, Proved!Outcome, Store!Finish, Proved!Finish,
       Store!CameBack, Proved!CameBack, Store!ObservePullRequest,
       Proved!ObservePullRequest, Store!ReturnDue, Proved!ReturnDue,
       Store!ReturnReason, Proved!ReturnReason, Store!ClaimReturn,
       Proved!ClaimReturn, Store!ReturnWaits, Proved!ReturnWaits,
       Store!WorkerInputNeeded, Proved!WorkerInputNeeded,
       Store!WorkerInputAnswered, Proved!WorkerInputAnswered,
       Store!UnknownExecution, Proved!UnknownExecution, Store!Stopping,
       Proved!Stopping, Store!Stopped, Proved!Stopped, Store!StopScheduled,
       Proved!StopScheduled, Store!Init, Proved!Init, Store!Admit,
       Proved!Admit, Store!ReleaseAny, Proved!ReleaseAny, Store!Return,
       Proved!Return, Store!Next, Proved!Next, Store!vars, Proved!vars,
       Store!Cardinality, Proved!Cardinality

(* and the same invariant.                                                 *)
LEMMA SameInv == Store!ReservationInv <=> Proved!ReservationInv
BY DEF Store!TypeOK, Proved!TypeOK, Store!NoPR, Proved!NoPR, Store!PullRequest,
       Proved!PullRequest, Store!Scheduling, Proved!Scheduling,
       Store!CardStates, Proved!CardStates, Store!NoWait, Proved!NoWait,
       Store!WaitReasons, Proved!WaitReasons, Store!Admitted, Proved!Admitted,
       Store!Overlap, Proved!Overlap, Store!Excludes, Proved!Excludes,
       Store!Ancestors, Proved!Ancestors, Store!ValidGraph, Proved!ValidGraph,
       Store!BlankUnlessAdmitted, Proved!BlankUnlessAdmitted,
       Store!NewScheduling, Proved!NewScheduling, Store!CardInv,
       Proved!CardInv, Store!Unlanded, Proved!Unlanded, Store!AreaExclusion,
       Proved!AreaExclusion, Store!HostCapacity, Proved!HostCapacity,
       Store!Occupants, Proved!Occupants, Store!Cardinality,
       Proved!Cardinality, Store!OneClaimPerRun, Proved!OneClaimPerRun,
       Store!AreaWaitsAdmitted, Proved!AreaWaitsAdmitted,
       Store!AreaWaitsAreForeign, Proved!AreaWaitsAreForeign,
       Store!ClosedHoldsWhileUnsettled, Proved!ClosedHoldsWhileUnsettled,
       Store!ReservationInv, Proved!ReservationInv

(* The store begins with its invariant.                                    *)
LEMMA StoreStart == Store!Init => Store!ReservationInv
BY SameStart, SameInv, Proved!InvInit, StoreAssumption
   DEF Store!TasksAssumption, Store!DefinitionsAssumption, Store!SlotsAssumption,
       Store!HeadAssumption, Store!ScopesAssumption, Store!IsFiniteSet, Proved!IsFiniteSet

(* A transaction of the store keeps its invariant. *)
LEMMA StoreKeeps ==
  ASSUME Store!ReservationInv, Store!Next \/ UNCHANGED stored
  PROVE  Store!ReservationInv'
<1>1. Proved!ReservationInv /\ [Proved!Next]_(Proved!vars)
  BY SameInv, SameStep DEF stored, Proved!vars
<1>2. Proved!ReservationInv'
  BY <1>1, Proved!InvStep, StoreAssumption
     DEF Store!TasksAssumption, Store!DefinitionsAssumption, Store!SlotsAssumption,
         Store!HeadAssumption, Store!ScopesAssumption, Store!IsFiniteSet, Proved!IsFiniteSet
<1>3. (Store!ReservationInv <=> Proved!ReservationInv)'
  BY SameInv, PTL
<1> QED
  BY <1>2, <1>3

(* The first card of a list is one of it. *)
LEMMA FirstDue ==
  ASSUME NEW S \in SUBSET Tasks, S # {} PROVE Store!First(S) \in S
<1>1. Proved!First(S) \in S
  BY Proved!FirstIsMember, StoreAssumption
     DEF Store!TasksAssumption, Store!DefinitionsAssumption, Store!SlotsAssumption,
         Store!HeadAssumption, Store!ScopesAssumption, Store!IsFiniteSet, Proved!IsFiniteSet
<1> QED
  BY <1>1 DEF Store!First, Proved!First

(* What the holder has in hand has its type. *)
LEMMA HandTypes ==
  ASSUME TypeOK
  PROVE  /\ at \in {"observing", "returning", "returned", "unstarted", "started"}
              => task \in Tasks
         /\ av.slots \in [Hosts -> 0 .. MaxSlots] /\ av.blocked \in SUBSET Workers
         /\ due # {} => Store!First(due) \in due /\ Store!First(due) \in Tasks
         /\ \A e \in events : /\ e.task \in Tasks /\ e.turn \in Nat
                              /\ e.status \in {"completed", "failed", "interrupted", "lost"}
<1>1. av.slots \in [Hosts -> 0 .. MaxSlots] /\ av.blocked \in SUBSET Workers
  BY ReactorAssumption, StoreAssumption DEF TypeOK, NoOffer, Store!SlotsAssumption
<1>2. due # {} => Store!First(due) \in due /\ Store!First(due) \in Tasks
  BY FirstDue DEF TypeOK
<1>3. \A e \in events : /\ e.task \in Tasks /\ e.turn \in Nat
                        /\ e.status \in {"completed", "failed", "interrupted", "lost"}
  BY DEF TypeOK, Event
<1> QED
  BY <1>1, <1>2, <1>3 DEF TypeOK

(* Every step of the reactor is one transaction of the store, or none. *)
LEMMA StoreStep ==
  ASSUME TypeOK, Next PROVE Store!Next \/ UNCHANGED stored
<1>1. CASE Submit
  BY <1>1 DEF Submit, Handler, Store!Next
<1>2. CASE \E scope \in StopScopes : Stop(scope)
  BY <1>2 DEF Stop, Handler, Store!Next
<1>3. CASE Wake \/ \E t \in Tasks : Observe(t)
  BY <1>3 DEF Wake, Observe, Handler
<1>4. ASSUME NEW t \in Tasks, Handled(t) PROVE Store!Next \/ UNCHANGED stored
  <2>1. PICK e \in events : Completed(e) \/ Unknown(e) \/ Dropped(e)
    BY <1>4 DEF Handled
  <2>2. e.task \in Tasks /\ e.status \in {"completed", "failed", "interrupted", "lost"}
    BY HandTypes
  <2>3. CASE Completed(e)
    BY <2>2, <2>3 DEF Completed, Handler, Store!Next
  <2>4. CASE Unknown(e)
    BY <2>2, <2>4 DEF Unknown, Handler, Store!Next
  <2>5. CASE Dropped(e)
    BY <2>5 DEF Dropped, Handler
  <2> QED
    BY <2>1, <2>3, <2>4, <2>5
<1>5. CASE \E t \in Tasks : Input(t)
  BY <1>5 DEF Input, Handler, Store!Next
<1>6. CASE ReadForge
  <2>1. CASE Unread
    BY <2>1 DEF Unread
  <2>2. CASE Noticed
    <3>1. task \in Tasks /\ forge[task] \in Store!PullRequest \cup {Store!NoPR}
      BY <2>2, HandTypes DEF TypeOK, Noticed
    <3>2. Store!ObservePullRequest(task, forge[task])
      BY <2>2 DEF Noticed
    <3>3. forge[task] # Store!NoPR
      BY <3>2 DEF Store!ObservePullRequest, Store!NoPR
    <3> QED
      BY <3>1, <3>2, <3>3 DEF Store!Next
  <2> QED
    BY <1>6, <2>1, <2>2 DEF ReadForge
<1>7. CASE Begin \/ SendReturn \/ SendStart \/ Done \/ Restart
  BY <1>7 DEF Begin, SendReturn, SendStart, Done, Restart
<1>8. CASE Claim
  <2>1. Store!First(due) \in Tasks
    BY <1>8, HandTypes DEF Claim
  <2>2. \/ Store!ClaimReturn(Store!First(due), av.slots, av.blocked)
        \/ Store!ReturnWaits(Store!First(due), av.slots, av.blocked)
        \/ UNCHANGED stored
    BY <1>8 DEF Claim
  <2> QED
    BY <2>1, <2>2, HandTypes DEF Store!Return, Store!Next
<1>9. CASE RecordReturn \/ RecordStart
  BY <1>9, HandTypes DEF RecordReturn, RecordStart, Record, Store!Next
<1>10. CASE Release
  BY <1>10, HandTypes DEF Release, Store!ReleaseAny, Store!Next
<1>11. CASE SettleUnsent
  BY <1>11, HandTypes DEF SettleUnsent, Store!Next
<1>12. CASE Recover
  BY <1>12, HandTypes DEF Recover, stored, Store!Next
<1>13. CASE Crash \/ \E t \in Tasks : Publishes(t) \/ ForgeMoves(t) \/ Retire(t)
  BY <1>13 DEF Crash, Publishes, ForgeMoves, Retire
<1>14. CASE \E t \in Tasks, status \in {"completed", "failed", "interrupted", "lost"} :
              WorkerEnds(t, status)
  BY <1>14 DEF WorkerEnds
<1> QED
  BY <1>1, <1>2, <1>3, <1>4, <1>5, <1>6, <1>7, <1>8, <1>9, <1>10, <1>11, <1>12, <1>13,
     <1>14 DEF Next, Holder

-----------------------------------------------------------------------------
(* Types. *)

(* The invariant of the store has its types as a part.                     *)
LEMMA StoreTypes == Store!ReservationInv => Store!TypeOK
BY DEF Store!ReservationInv

(* Every step keeps the types, given that the store keeps its own. *)
LEMMA TypeStep ==
  ASSUME TypeOK, Next, Store!TypeOK' PROVE TypeOK'
<1> USE DEF TypeOK, Places, pass, world
<1>1. CASE Submit
  BY <1>1 DEF Submit, Handler
<1>2. CASE Wake
  BY <1>2 DEF Wake, Handler
<1>3. ASSUME NEW scope \in StopScopes, Stop(scope) PROVE TypeOK'
  BY <1>3 DEF Stop, Handler
<1>4. ASSUME NEW t \in Tasks, Observe(t) PROVE TypeOK'
  BY <1>4, ReactorAssumption DEF Observe, Handler
<1>5. ASSUME NEW t \in Tasks, Handled(t) PROVE TypeOK'
  <2>1. PICK e \in events : Completed(e) \/ Unknown(e) \/ Dropped(e)
    BY <1>5 DEF Handled
  <2>2. e.task \in Tasks
    BY HandTypes
  <2>3. CASE Completed(e)
    BY <2>2, <2>3, ReactorAssumption DEF Completed, Handler
  <2>4. CASE Unknown(e)
    BY <2>4 DEF Unknown, Handler
  <2>5. CASE Dropped(e)
    BY <2>5, ReactorAssumption DEF Dropped, Handler
  <2> QED
    BY <2>1, <2>3, <2>4, <2>5
<1>6. ASSUME NEW t \in Tasks, Input(t) PROVE TypeOK'
  BY <1>6 DEF Input, Handler
<1>7. CASE ReadForge
  BY <1>7 DEF ReadForge, Noticed, Unread
<1>8. CASE Begin
  <2>1. av' \in Offers \cup {NoOffer} /\ due' \in SUBSET Tasks /\ at' \in {"returns", "free"}
    BY <1>8 DEF Begin, Granted, Unavailable, ReturnsPending, Store!Admitted, Store!TypeOK
  <2> QED
    BY <1>8, <2>1 DEF Begin, Granted, Unavailable
<1>9. CASE Claim
  <2>1. Store!First(due) \in Tasks
    BY <1>9, HandTypes DEF Claim
  <2> QED
    BY <1>9, <2>1, ReactorAssumption DEF Claim
<1>10. ASSUME NEW t \in Tasks, NEW replied \in BOOLEAN, Accepted(t, replied)
       PROVE  /\ turns' \in [Tasks -> Nat] /\ busy' \in [Tasks -> BOOLEAN]
              /\ session' \in [Tasks -> BOOLEAN] /\ UNCHANGED <<events, forge>>
  BY <1>10 DEF Accepted
<1>11. CASE SendReturn
  <2>1. task \in Tasks
    BY <1>11, HandTypes DEF SendReturn
  <2>2. /\ turns' \in [Tasks -> Nat] /\ busy' \in [Tasks -> BOOLEAN]
        /\ session' \in [Tasks -> BOOLEAN] /\ UNCHANGED <<events, forge>>
    BY <1>10, <1>11, <2>1 DEF SendReturn
  <2>3. /\ task' \in Tasks \cup {0}
        /\ task' # 0 <=> at' \in {"observing", "returning", "returned", "unstarted", "started"}
        /\ at' \in {"returned", "returns"} /\ UNCHANGED <<due, av, freed, faults>>
    BY <1>11, <2>1, ReactorAssumption DEF SendReturn
  <2> QED
    BY <2>2, <2>3
<1>12. CASE RecordReturn \/ RecordStart
  BY <1>12 DEF RecordReturn, RecordStart, Record
<1>13. CASE Release
  BY <1>13 DEF Release
<1>14. CASE SendStart
  <2>1. Store!First(due) \in Tasks
    BY <1>14, HandTypes DEF SendStart
  <2>2. /\ turns' \in [Tasks -> Nat] /\ busy' \in [Tasks -> BOOLEAN]
        /\ session' \in [Tasks -> BOOLEAN] /\ UNCHANGED <<events, forge>>
    BY <1>10, <1>14, <2>1 DEF SendStart
  <2>3. /\ task' \in Tasks \cup {0}
        /\ task' # 0 <=> at' \in {"observing", "returning", "returned", "unstarted", "started"}
        /\ at' \in {"unstarted", "starting", "started"} /\ due' \subseteq Tasks
        /\ UNCHANGED <<av, freed, faults>>
    BY <1>14, <2>1, ReactorAssumption DEF SendStart
  <2> QED
    BY <2>2, <2>3
<1>15. CASE SettleUnsent
  BY <1>15 DEF SettleUnsent
<1>16. CASE Done
  BY <1>16 DEF Done
<1>17. CASE Restart
  BY <1>17 DEF Restart
<1>18. CASE Recover
  BY <1>18 DEF Recover
<1>19. ASSUME NEW t \in Tasks, NEW status \in {"completed", "failed", "interrupted", "lost"},
              WorkerEnds(t, status)
       PROVE  TypeOK'
  <2>1. [task |-> t, turn |-> turns[t], status |-> status] \in Event
    BY DEF Event
  <2> QED
    BY <1>19, <2>1 DEF WorkerEnds
<1>20. ASSUME NEW t \in Tasks, Publishes(t) PROVE TypeOK'
  <2>1. PICK n \in Numbers, h \in Heads :
          forge' = [forge EXCEPT ![t] =
                     [number |-> IF @.state = "NONE" THEN n ELSE @.number, head |-> h,
                      state |-> "OPEN", conflicting |-> FALSE]]
    BY <1>20 DEF Publishes
  <2>2. forge[t].state = "NONE" \/ forge[t].number \in Numbers
    <3>1. forge[t] \in Store!PullRequest \cup {Store!NoPR}
      OBVIOUS
    <3>2. CASE forge[t] \in Store!PullRequest
      BY ONLY <3>2 DEF Store!PullRequest
    <3>3. CASE forge[t] = Store!NoPR
      BY ONLY <3>3 DEF Store!NoPR
    <3> QED
      BY ONLY <3>1, <3>2, <3>3
  <2>3. [number |-> IF forge[t].state = "NONE" THEN n ELSE forge[t].number, head |-> h,
         state |-> "OPEN", conflicting |-> FALSE] \in Store!PullRequest
    BY <2>2 DEF Store!PullRequest
  <2>4. forge' \in [Tasks -> Store!PullRequest \cup {Store!NoPR}]
    BY <2>1, <2>3
  <2> QED
    BY <1>20, <2>4 DEF Publishes
<1>21. ASSUME NEW t \in Tasks, ForgeMoves(t) PROVE TypeOK'
  <2>1. forge[t] \in [number : Numbers, head : Heads, state : {"OPEN"}, conflicting : BOOLEAN]
    <3>1. forge[t] \in Store!PullRequest \cup {Store!NoPR} /\ forge[t].state = "OPEN"
      BY <1>21 DEF ForgeMoves
    <3>2. CASE forge[t] \in [number : Numbers, head : Heads, state : {"CLOSED", "MERGED"},
                             conflicting : {FALSE}]
      <4>1. forge[t].state \in {"CLOSED", "MERGED"}
        BY ONLY <3>2
      <4> QED
        BY ONLY <3>1, <4>1
    <3>3. CASE forge[t] = Store!NoPR
      BY ONLY <3>1, <3>3 DEF Store!NoPR
    <3> QED
      BY ONLY <3>1, <3>2, <3>3 DEF Store!PullRequest
  <2>2. /\ [forge[t] EXCEPT !.conflicting = TRUE] \in Store!PullRequest
        /\ ~forge[t].conflicting => [forge[t] EXCEPT !.state = "MERGED"] \in Store!PullRequest
        /\ [forge[t] EXCEPT !.state = "CLOSED", !.conflicting = FALSE] \in Store!PullRequest
    BY <2>1 DEF Store!PullRequest
  <2>3. forge' \in [Tasks -> Store!PullRequest \cup {Store!NoPR}]
    BY <1>21, <2>2 DEF ForgeMoves
  <2> QED
    BY <1>21, <2>3 DEF ForgeMoves
<1>22. ASSUME NEW t \in Tasks, Retire(t) PROVE TypeOK'
  BY <1>22 DEF Retire
<1>23. CASE Crash
  <2>1. session' \in [Tasks -> BOOLEAN] /\ events' \subseteq Event /\ due' \subseteq Tasks
    BY <1>23 DEF Crash
  <2>2. faults' \in 0 .. MaxFaults
    <3>1. faults \in 0 .. MaxFaults /\ faults < MaxFaults /\ faults' = faults + 1
      BY <1>23 DEF Crash
    <3> QED
      BY ONLY <3>1, ReactorAssumption
  <2>3. /\ task' = 0 /\ at' = "down" /\ av' = NoOffer /\ freed' = FALSE
        /\ UNCHANGED <<turns, busy, forge>>
    BY <1>23 DEF Crash
  <2> QED
    BY <2>1, <2>2, <2>3
<1> QED
  BY <1>1, <1>2, <1>3, <1>4, <1>5, <1>6, <1>7, <1>8, <1>9, <1>11, <1>12, <1>13, <1>14, <1>15,
     <1>16, <1>17, <1>18, <1>19, <1>20, <1>21, <1>22, <1>23 DEF Next, Holder

-----------------------------------------------------------------------------
(* What the store's transactions do to the facts the reactor relies on. *)

(* A transaction that leaves a card's run alone and takes nothing from it. *)
Spares(u) ==
    /\ run'[u] = run[u] /\ active'[u] = active[u]
    /\ sched[u].reserved => sched'[u].reserved
    /\ sched[u].returnSent => sched'[u].returnSent
    /\ Leased(u) \/ Judged(u) => Leased(u)' \/ Judged(u)'
    /\ Judged(u)' => sched'[u].landed \/ sched'[u].closed

(* What ReservationInv says of one card, admitted or not. *)
LEMMA CardFacts ==
  ASSUME Store!ReservationInv, NEW u \in Tasks
  PROVE  /\ sched[u] \in Store!Scheduling /\ run[u] \in Nat /\ active[u] \in BOOLEAN
         /\ active[u] => sched[u].capacityHeld /\ run[u] > 0
         /\ sched[u].capacityHeld => sched[u].areaHeld
         /\ sched[u].areaHeld => sched[u].reserved
         /\ run[u] > 0 /\ ~sched[u].landed /\ ~sched[u].closed => sched[u].areaHeld
         /\ sched[u].returnRequested => run[u] > 0 /\ sched[u].reserved
         /\ sched[u].returnSent => sched[u].returnRequested
<1>1. sched[u] \in Store!Scheduling /\ run[u] \in Nat /\ active[u] \in BOOLEAN
  BY DEF Store!ReservationInv, Store!TypeOK
<1>2. CASE u \in Store!Admitted
  <2>1. Store!CardInv(u)
    BY <1>2 DEF Store!ReservationInv
  <2> QED
    BY <1>1, <2>1 DEF Store!CardInv
<1>3. CASE u \notin Store!Admitted
  <2>1. sched[u] = Store!NewScheduling /\ run[u] = 0 /\ ~active[u]
    BY <1>3 DEF Store!ReservationInv, Store!BlankUnlessAdmitted
  <2> QED
    BY <1>1, <2>1 DEF Store!NewScheduling
<1> QED
  BY <1>2, <1>3

(* Nothing happens to the store, or to its cards. *)
LEMMA SparedIdle ==
  ASSUME NEW u \in Tasks, TurnsInv(u), UNCHANGED <<sched, run, active>>
  PROVE  Spares(u)
BY DEF Spares, Leased, Judged, TurnsInv

(* An admission touches no card that has one.                              *)
LEMMA SparedSchedule ==
  ASSUME NEW u \in Tasks, TurnsInv(u), Store!Admit
  PROVE  Spares(u)
BY SparedIdle DEF Store!Admit, Store!Schedule

(* A release gives reservations and takes none.                            *)
LEMMA SparedRelease ==
  ASSUME Store!ReservationInv, NEW u \in Tasks, TurnsInv(u),
         NEW R \in SUBSET Tasks, Store!Release(R, av.slots, av.blocked)
  PROVE  Spares(u)
<1>1. sched[u] \in Store!Scheduling
  BY CardFacts
<1>2. sched'[u] \in {sched[u], Store!Reserve(sched[u])} /\ UNCHANGED <<run, active>>
  BY DEF Store!Release
<1> QED
  BY <1>1, <1>2 DEF Spares, Leased, Judged, TurnsInv, Store!Reserve, Store!Scheduling

(* A scheduling event changes its own card only. *)
LEMMA EventCard ==
  ASSUME Store!ReservationInv, NEW t \in Tasks, NEW u \in Tasks, NEW s, NEW p, NEW r,
         Store!SchedulingEvent(t, s, p, r)
  PROVE  sched'[u] = (IF u = t THEN s ELSE sched[u]) /\ UNCHANGED <<run, active>>
BY DEF Store!SchedulingEvent, Store!ReservationInv, Store!TypeOK

(* A claimed return takes a slot for its card; a waiting one only says why. *)
LEMMA SparedReturn ==
  ASSUME Store!ReservationInv, NEW t \in Tasks, NEW u \in Tasks, TurnsInv(u),
         \/ Store!ClaimReturn(t, av.slots, av.blocked)
         \/ Store!ReturnWaits(t, av.slots, av.blocked)
  PROVE  Spares(u)
<1>1. sched[u] \in Store!Scheduling
  BY CardFacts
<1>2. /\ sched'[u] \in {sched[u], [sched[u] EXCEPT !.returnSent = TRUE, !.capacityHeld = TRUE]}
      /\ UNCHANGED <<run, active>>
  BY EventCard DEF Store!ClaimReturn, Store!ReturnWaits
<1> QED
  BY <1>1, <1>2 DEF Spares, Leased, Judged, TurnsInv, Store!Scheduling

(* A worker's question and its answer change what the card shows.          *)
LEMMA SparedInput ==
  ASSUME Store!ReservationInv, NEW t \in Tasks, NEW u \in Tasks, TurnsInv(u),
         Store!WorkerInputNeeded(t) \/ Store!WorkerInputAnswered(t)
  PROVE  Spares(u)
<1>1. sched'[u] = sched[u] /\ UNCHANGED <<run, active>>
  BY EventCard DEF Store!WorkerInputNeeded, Store!WorkerInputAnswered
<1> QED
  BY <1>1 DEF Spares, Leased, Judged, TurnsInv

(* A lost run keeps everything it has.                                     *)
LEMMA SparedUnknown ==
  ASSUME NEW t \in Tasks, NEW u \in Tasks, TurnsInv(u), Store!UnknownExecution(t)
  PROVE  Spares(u)
BY SparedIdle DEF Store!UnknownExecution

(* A stop closes a card and leaves a lease whose slot is held.             *)
LEMMA SparedStop ==
  ASSUME Store!ReservationInv, NEW scope, NEW u \in Tasks, TurnsInv(u),
         Store!StopScheduled(scope)
  PROVE  Spares(u)
<1>1. sched[u] \in Store!Scheduling
  BY CardFacts
<1>2. sched'[u] \in {sched[u], Store!Stopped(sched[u])} /\ UNCHANGED <<run, active>>
  BY DEF Store!StopScheduled
<1> QED
  BY <1>1, <1>2 DEF Spares, Leased, Judged, TurnsInv, Store!Stopped, Store!Scheduling

(* A read of the forge: an open request takes nothing, a merged or closed one *)
(* is the verdict.                                                         *)
LEMMA SparedObserve ==
  ASSUME Store!ReservationInv, NEW t \in Tasks, NEW u \in Tasks, TurnsInv(u),
         NEW pr, Store!ObservePullRequest(t, pr)
  PROVE  Spares(u)
<1> DEFINE s == [sched[t] EXCEPT !.pr = pr, !.prRun = run[t]]
           c == pr.state = "OPEN" /\ pr.conflicting
<1>1. sched[u] \in Store!Scheduling /\ sched[t] \in Store!Scheduling
  BY CardFacts
<1>2. CASE u # t
  <2>1. sched'[u] = sched[u] /\ UNCHANGED <<run, active>>
    BY <1>2, EventCard DEF Store!ObservePullRequest
  <2> QED
    BY <2>1 DEF Spares, Leased, Judged, TurnsInv
<1>3. CASE u = t
  <2> SUFFICES ASSUME u = t PROVE Spares(t)
    BY <1>3
  <2>1. ~sched[t].landed /\ ~sched[t].closed /\ ~Judged(t)
    BY DEF Store!ObservePullRequest, TurnsInv
  <2>2. /\ UNCHANGED <<run, active>>
        /\ \/ /\ pr.state = "MERGED"
              /\ sched'[t] = [s EXCEPT !.landed = TRUE, !.areaHeld = FALSE,
                                       !.capacityHeld = FALSE]
           \/ /\ pr.state = "CLOSED"
              /\ sched'[t] = [s EXCEPT !.closed = TRUE, !.areaHeld = FALSE,
                                       !.capacityHeld = FALSE]
           \/ /\ pr.state = "OPEN"
              /\ sched'[t] \in {s, [s EXCEPT !.returnRequested = TRUE,
                                             !.conflictHead = pr.head]}
    BY EventCard DEF Store!ObservePullRequest
  <2>3. CASE pr.state = "MERGED"
    BY <1>1, <2>1, <2>2, <2>3 DEF Spares, Leased, Judged, Store!Scheduling
  <2>4. CASE pr.state = "CLOSED"
    BY <1>1, <2>1, <2>2, <2>4 DEF Spares, Leased, Judged, Store!Scheduling
  <2>5. CASE pr.state = "OPEN"
    BY <1>1, <2>1, <2>2, <2>5 DEF Spares, Leased, Judged, Store!Scheduling
  <2> QED
    BY <2>2, <2>3, <2>4, <2>5
<1> QED
  BY <1>2, <1>3

(* The end of a run and a failed start take the lease of their own card.    *)
LEMMA SparedFinish ==
  ASSUME Store!ReservationInv, NEW t \in Tasks, NEW u \in Tasks, TurnsInv(u),
         NEW status, Store!Finish(t, status)
  PROVE  /\ u # t => Spares(u)
         /\ run'[t] = run[t] /\ ~active'[t]
         /\ sched'[t].reserved = sched[t].reserved
         /\ sched'[t].returnSent = sched[t].returnSent
         /\ sched'[t].pr = sched[t].pr /\ sched'[t].landed = sched[t].landed
         /\ sched'[t].closed = sched[t].closed
<1>1. /\ sched[t] \in Store!Scheduling /\ sched \in [Tasks -> Store!Scheduling]
      /\ active \in [Tasks -> BOOLEAN]
  BY CardFacts DEF Store!ReservationInv, Store!TypeOK
<1>2. sched'[t] = [sched[t] EXCEPT !.capacityHeld = FALSE,
                                   !.areaHeld = @ /\ ~sched[t].closed]
  BY <1>1 DEF Store!Finish
<1>3. u # t => sched'[u] = sched[u] /\ active'[u] = active[u]
  BY <1>1 DEF Store!Finish
<1>4. run' = run /\ ~active'[t]
  BY <1>1 DEF Store!Finish
<1>5. u # t => Spares(u)
  BY <1>3, <1>4 DEF Spares, Leased, Judged, TurnsInv
<1> QED
  BY <1>1, <1>2, <1>4, <1>5 DEF Store!Scheduling

(* A failed start takes the lease of its own card.                         *)
LEMMA SparedStartFailed ==
  ASSUME Store!ReservationInv, NEW t \in Tasks, NEW u \in Tasks, TurnsInv(u),
         Store!StartFailed(t)
  PROVE  /\ u # t => Spares(u)
         /\ UNCHANGED <<run, active>>
         /\ sched'[t].reserved = sched[t].reserved
         /\ sched'[t].returnSent = sched[t].returnSent
         /\ sched'[t].pr = sched[t].pr /\ sched'[t].landed = sched[t].landed
         /\ sched'[t].closed = sched[t].closed
<1>1. sched[t] \in Store!Scheduling
  BY CardFacts
<1>2. /\ sched'[u] = IF u = t THEN [sched[t] EXCEPT !.capacityHeld = FALSE,
                                                    !.areaHeld = FALSE] ELSE sched[u]
      /\ UNCHANGED <<run, active>>
  BY EventCard DEF Store!StartFailed
<1>3. sched'[t] = [sched[t] EXCEPT !.capacityHeld = FALSE, !.areaHeld = FALSE]
  BY EventCard DEF Store!StartFailed
<1>4. u # t => Spares(u)
  BY <1>2 DEF Spares, Leased, Judged, TurnsInv
<1> QED
  BY <1>1, <1>2, <1>3, <1>4 DEF Store!Scheduling

(* Recording a start touches the run of its own card only. *)
LEMMA SparedStart ==
  ASSUME Store!ReservationInv, NEW t \in Tasks, NEW u \in Tasks, TurnsInv(u), Store!Start(t)
  PROVE  /\ u # t => Spares(u)
         /\ sched' = sched /\ run'[t] = run[t] + 1 /\ active'[t]
<1>1. run \in [Tasks -> Nat] /\ active \in [Tasks -> BOOLEAN]
  BY DEF Store!ReservationInv, Store!TypeOK
<1> QED
  BY <1>1 DEF Store!Start, Spares, Leased, Judged, TurnsInv

-----------------------------------------------------------------------------
(* Turns and claims. *)

(* A card no transaction touches and no turn is handed to. *)
LEMMA TurnsKept ==
  ASSUME ReactorInv, TypeOK', NEW u \in Tasks, TurnsInv(u), Spares(u),
         turns'[u] = turns[u], busy'[u] => busy[u],
         \A e \in events' : e.task = u => e \in events
  PROVE  TurnsInv(u)'
<1>1. /\ sched[u] \in Store!Scheduling /\ sched'[u] \in Store!Scheduling
      /\ turns[u] \in Nat /\ run[u] \in Nat
  BY CardFacts DEF ReactorInv, TypeOK, Store!TypeOK
<1>2. Claims(u) <= Claims(u)' /\ Claims(u) \in Nat /\ Claims(u)' \in Nat
  BY <1>1 DEF Spares, Claims, Store!Scheduling
<1>3. /\ run'[u] <= turns'[u] /\ turns'[u] <= Claims(u)'
      /\ active'[u] => run'[u] = turns'[u]
  BY <1>1, <1>2 DEF TurnsInv, Spares
<1>4. busy'[u] => turns'[u] > 0 /\ (Leased(u)' \/ Judged(u)')
  BY DEF TurnsInv, Spares
<1>5. Judged(u)' => sched'[u].landed \/ sched'[u].closed
  BY DEF Spares
<1>6. \A e \in events' : e.task = u =>
        /\ e.turn <= turns'[u]
        /\ (e.turn = turns'[u] /\ e.status # "lost") => ~busy'[u]
  BY DEF TurnsInv
<1> QED
  BY <1>3, <1>4, <1>5, <1>6 DEF TurnsInv

(* The same when the store and the worker are left alone. *)
LEMMA TurnsIdle ==
  ASSUME ReactorInv, TypeOK', NEW u \in Tasks,
         UNCHANGED stored, UNCHANGED turns, busy'[u] => busy[u],
         \A e \in events' : e.task = u => e \in events
  PROVE  TurnsInv(u)'
<1>1. TurnsInv(u)
  BY DEF ReactorInv
<1> QED
  BY <1>1, SparedIdle, TurnsKept DEF stored

(* The worker accepts the next turn of a card that has a claim and a lease   *)
(* for it.                                                                 *)
LEMMA TurnAccepted ==
  ASSUME ReactorInv, TypeOK', NEW t \in Tasks, NEW u \in Tasks, NEW replied \in BOOLEAN,
         UNCHANGED stored, Accepted(t, replied),
         turns[t] < Claims(t), Leased(t), ~active[t]
  PROVE  TurnsInv(u)'
<1>1. /\ TurnsInv(u) /\ turns \in [Tasks -> Nat] /\ busy \in [Tasks -> BOOLEAN]
      /\ run[u] \in Nat /\ sched[u] \in Store!Scheduling
  BY CardFacts DEF ReactorInv, TypeOK
<1>2. CASE u # t
  <2>1. turns'[u] = turns[u] /\ busy'[u] = busy[u] /\ events' = events
    BY <1>1, <1>2 DEF Accepted
  <2> QED
    BY <1>1, <2>1, SparedIdle, TurnsKept DEF stored
<1>3. CASE u = t
  <2>1. turns'[u] = turns[u] + 1 /\ events' = events
    BY <1>1, <1>3 DEF Accepted
  <2>2. run'[u] = run[u] /\ ~active'[u] /\ sched' = sched /\ Claims(u)' = Claims(u)
    BY <1>3 DEF stored, Claims
  <2>3. Claims(u) \in Nat
    BY <1>1 DEF Claims
  <2>4. \A e \in events : e.task = u => e.turn \in Nat /\ e.turn <= turns[u]
    BY <1>1, HandTypes DEF TurnsInv, ReactorInv
  <2>5. Leased(u)' /\ (Judged(u)' => sched'[u].landed \/ sched'[u].closed)
    BY <1>1, <1>3, <2>2 DEF Leased, Judged, TurnsInv
  <2>6. \A e \in events' : e.task = u => e.turn <= turns'[u] /\ e.turn # turns'[u]
    BY <1>1, <2>1, <2>4
  <2>7. run'[u] <= turns'[u] /\ turns'[u] <= Claims(u)' /\ turns'[u] > 0
    BY <1>1, <1>3, <2>1, <2>2, <2>3 DEF TurnsInv
  <2> QED
    BY <2>2, <2>5, <2>6, <2>7 DEF TurnsInv
<1> QED
  BY <1>2, <1>3

(* The run the card records is the turn the worker accepted. *)
LEMMA TurnRecorded ==
  ASSUME ReactorInv, TypeOK', NEW t \in Tasks, NEW u \in Tasks, Store!Start(t),
         UNCHANGED <<turns, busy, events>>, turns[t] = run[t] + 1
  PROVE  TurnsInv(u)'
<1>1. TurnsInv(u) /\ Store!ReservationInv
  BY DEF ReactorInv
<1>2. CASE u # t
  BY <1>1, <1>2, SparedStart, TurnsKept
<1>3. CASE u = t
  <2>1. sched' = sched /\ run'[u] = turns'[u] /\ turns[u] \in Nat
    BY <1>1, <1>3, SparedStart DEF ReactorInv, TypeOK
  <2> QED
    BY <1>1, <2>1 DEF TurnsInv, Claims, Leased, Judged
<1> QED
  BY <1>2, <1>3

(* A card that is not running gives up its lease: its run has ended, or it   *)
(* never had one.                                                          *)
LEMMA TurnsLeaseGone ==
  ASSUME ReactorInv, TypeOK', NEW t \in Tasks, NEW u \in Tasks,
         (\E status : Store!Finish(t, status)) \/ Store!StartFailed(t),
         ~busy[t], UNCHANGED <<turns, busy>>, events' \subseteq events,
         active'[t] => active[t]
  PROVE  TurnsInv(u)'
<1>1. TurnsInv(u) /\ Store!ReservationInv
  BY DEF ReactorInv
<1>2. CASE u # t
  BY <1>1, <1>2, SparedFinish, SparedStartFailed, TurnsKept
<1>3. CASE u = t
  <2>1. /\ run'[u] = run[u] /\ Claims(u)' = Claims(u)
        /\ Judged(u)' = Judged(u) /\ sched'[u].landed = sched[u].landed
        /\ sched'[u].closed = sched[u].closed
    BY <1>1, <1>3, SparedFinish, SparedStartFailed DEF Claims, Judged
  <2> QED
    BY <1>1, <1>3, <2>1 DEF TurnsInv
<1> QED
  BY <1>2, <1>3

(* Every step keeps what the turns of a card have to do with it.           *)
LEMMA TurnsStep ==
  ASSUME ReactorInv, Next, TypeOK', NEW u \in Tasks PROVE TurnsInv(u)'
<1> USE DEF pass, world
<1>0. TypeOK /\ Store!ReservationInv /\ TurnsInv(u) /\ HolderInv
  BY DEF ReactorInv
<1>1. CASE Submit
  BY <1>0, <1>1, SparedSchedule, TurnsKept DEF Submit, Handler
<1>2. CASE Wake
  BY <1>2, TurnsIdle DEF Wake, Handler
<1>3. ASSUME NEW scope \in StopScopes, Stop(scope) PROVE TurnsInv(u)'
  BY <1>0, <1>3, SparedStop, TurnsKept DEF Stop, Handler
<1>4. ASSUME NEW t \in Tasks, Observe(t) PROVE TurnsInv(u)'
  BY <1>4, TurnsIdle DEF Observe, Handler
<1>5. ASSUME NEW t \in Tasks, Handled(t) PROVE TurnsInv(u)'
  <2>1. PICK e \in events : Completed(e) \/ Unknown(e) \/ Dropped(e)
    BY <1>5 DEF Handled
  <2>2. e.task \in Tasks
    BY <1>0, HandTypes
  <2>3. CASE Completed(e)
    <3>1. UNCHANGED <<turns, busy>> /\ events' \subseteq events /\ e.status # "lost"
      BY <2>3 DEF Completed
    <3>2. CASE run[e.task] = e.turn /\ active[e.task]
      <4>1. Store!Finish(e.task, e.status)
        BY <2>3, <3>2 DEF Completed, Handler
      <4>2. TurnsInv(e.task)
        BY <2>2 DEF ReactorInv
      <4>3. ~busy[e.task]
        BY <3>1, <3>2, <4>2 DEF TurnsInv
      <4>4. active'[e.task] => active[e.task]
        BY <3>2
      <4> QED
        BY <2>2, <3>1, <4>1, <4>3, <4>4, TurnsLeaseGone
    <3>3. CASE ~(run[e.task] = e.turn /\ active[e.task])
      <4>1. UNCHANGED stored
        BY <2>3, <3>3 DEF Completed, Handler
      <4> QED
        BY <3>1, <4>1, TurnsIdle
    <3> QED
      BY <3>2, <3>3
  <2>4. CASE Unknown(e)
    <3>1. UNCHANGED <<turns, busy>> /\ events' \subseteq events
          /\ (Store!UnknownExecution(e.task) \/ UNCHANGED stored)
      BY <2>4 DEF Unknown, Handler
    <3> QED
      BY <1>0, <2>2, <3>1, SparedUnknown, TurnsKept, TurnsIdle
  <2>5. CASE Dropped(e)
    <3>1. UNCHANGED <<turns, busy>> /\ events' \subseteq events /\ UNCHANGED stored
      BY <2>5 DEF Dropped, Handler
    <3> QED
      BY <3>1, TurnsIdle
  <2> QED
    BY <2>1, <2>3, <2>4, <2>5
<1>6. ASSUME NEW t \in Tasks, Input(t) PROVE TurnsInv(u)'
  BY <1>0, <1>6, SparedInput, TurnsKept DEF Input, Handler
<1>7. CASE ReadForge
  <2>1. UNCHANGED <<turns, busy, events>> /\ (Noticed \/ Unread)
    BY <1>7 DEF ReadForge
  <2>2. CASE Unread
    BY <2>1, <2>2, TurnsIdle DEF Unread
  <2>3. CASE Noticed
    <3>1. task \in Tasks /\ Store!ObservePullRequest(task, forge[task])
      BY <1>0, <2>3, HandTypes DEF Noticed
    <3>2. Spares(u)
      BY <1>0, <3>1, SparedObserve
    <3> QED
      BY <1>0, <2>1, <3>2, TurnsKept
  <2> QED
    BY <2>1, <2>2, <2>3
<1>8. CASE Begin \/ Done \/ Restart
  BY <1>8, TurnsIdle DEF Begin, Done, Restart
<1>9. CASE Claim
  <2>1. /\ Store!First(due) \in Tasks /\ UNCHANGED <<turns, busy, events>>
        /\ \/ Store!ClaimReturn(Store!First(due), av.slots, av.blocked)
           \/ Store!ReturnWaits(Store!First(due), av.slots, av.blocked)
           \/ UNCHANGED stored
    BY <1>0, <1>9, HandTypes DEF Claim
  <2> QED
    BY <1>0, <2>1, SparedReturn, TurnsKept, TurnsIdle
<1>10. CASE SendReturn
  <2>1. UNCHANGED stored /\ task \in Tasks /\ at = "returning"
    BY <1>0, <1>10, HandTypes DEF SendReturn
  <2>2. turns[task] < Claims(task) /\ Leased(task) /\ ~active[task]
    BY <1>0, <2>1 DEF HolderInv, Claims
  <2>3. Accepted(task, TRUE) \/ Accepted(task, FALSE) \/ UNCHANGED world
    BY <1>10 DEF SendReturn
  <2> QED
    BY <2>1, <2>2, <2>3, TurnAccepted, TurnsIdle
<1>11. CASE RecordReturn \/ RecordStart
  <2>1. /\ task \in Tasks /\ at \in {"started", "returned"} /\ UNCHANGED <<turns, busy, events>>
        /\ Store!Start(task) \/ UNCHANGED stored
    BY <1>0, <1>11, HandTypes DEF RecordReturn, RecordStart, Record
  <2>2. turns[task] = run[task] + 1
    BY <1>0, <2>1 DEF HolderInv
  <2> QED
    BY <2>1, <2>2, TurnRecorded, TurnsIdle
<1>12. CASE Release
  <2>1. PICK R \in SUBSET Tasks : Store!Release(R, av.slots, av.blocked)
    BY <1>12 DEF Release
  <2>2. UNCHANGED <<turns, busy, events>>
    BY <1>12 DEF Release
  <2> QED
    BY <1>0, <2>1, <2>2, SparedRelease, TurnsKept
<1>13. CASE SendStart
  <2> DEFINE t == Store!First(due)
  <2>1. t \in due /\ t \in Tasks /\ at = "starting" /\ UNCHANGED stored
    BY <1>0, <1>13, HandTypes DEF SendStart
  <2>2. sched[t].reserved /\ Leased(t) /\ turns[t] = 0
    BY <1>0, <2>1 DEF HolderInv
  <2>3. /\ TurnsInv(t) /\ run[t] \in Nat /\ sched[t] \in Store!Scheduling
        /\ active[t] => run[t] > 0
    BY <1>0, <2>1, CardFacts DEF ReactorInv
  <2>4. turns[t] < Claims(t) /\ ~active[t]
    BY <2>2, <2>3 DEF TurnsInv, Claims
  <2>5. Accepted(t, TRUE) \/ Accepted(t, FALSE) \/ UNCHANGED world
    BY <1>13 DEF SendStart
  <2> QED
    BY <2>1, <2>2, <2>4, <2>5, TurnAccepted, TurnsIdle
<1>14. CASE SettleUnsent
  <2>1. task \in Tasks /\ at = "unstarted" /\ UNCHANGED <<turns, busy, events>>
    BY <1>0, <1>14, HandTypes DEF SettleUnsent
  <2>2. Store!StartFailed(task) \/ UNCHANGED stored
    BY <1>14 DEF SettleUnsent
  <2>3. ~busy[task]
    <3>1. TurnsInv(task) /\ turns[task] = 0
      BY <1>0, <2>1 DEF ReactorInv, HolderInv
    <3> QED
      BY <3>1 DEF TurnsInv
  <2>4. CASE Store!StartFailed(task)
    <3>1. active' = active
      BY <2>4 DEF Store!StartFailed, Store!SchedulingEvent
    <3> QED
      BY <2>1, <2>3, <2>4, <3>1, TurnsLeaseGone
  <2> QED
    BY <2>1, <2>2, <2>4, TurnsIdle
<1>15. CASE Recover
  <2>1. UNCHANGED <<turns, busy, events>>
    BY <1>15 DEF Recover
  <2>2. CASE due = {}
    BY <1>15, <2>1, <2>2, TurnsIdle DEF Recover, stored
  <2>3. CASE due # {}
    BY <1>0, <1>15, <2>1, <2>3, HandTypes, SparedUnknown, TurnsKept DEF Recover
  <2> QED
    BY <2>2, <2>3
<1>16. ASSUME NEW t \in Tasks, NEW status \in {"completed", "failed", "interrupted", "lost"},
              WorkerEnds(t, status)
       PROVE  TurnsInv(u)'
  <2> DEFINE e == [task |-> t, turn |-> turns[t], status |-> status]
  <2>1. /\ UNCHANGED stored /\ UNCHANGED turns
        /\ (status # "lost" => ~busy'[t]) /\ (u # t => busy'[u] = busy[u]) /\ busy[t]
        /\ events' \subseteq events \cup {e}
    BY <1>0, <1>16 DEF WorkerEnds, TypeOK
  <2>2. CASE u # t
    BY <2>1, <2>2, TurnsIdle
  <2>3. CASE u = t
    <3>1. /\ run' = run /\ active' = active /\ Claims(u)' = Claims(u)
          /\ Leased(u)' = Leased(u) /\ Judged(u)' = Judged(u) /\ sched' = sched
      BY <2>1 DEF stored, Claims, Leased, Judged
    <3>2. turns[u] \in Nat
      BY <1>0 DEF TypeOK
    <3>3. \A d \in events' : d.task = u =>
            d.turn <= turns'[u] /\ (d.turn = turns'[u] /\ d.status # "lost" => ~busy'[u])
      <4> SUFFICES ASSUME NEW d \in events', d.task = u
                   PROVE  d.turn <= turns'[u]
                          /\ (d.turn = turns'[u] /\ d.status # "lost" => ~busy'[u])
        OBVIOUS
      <4>1. CASE d = e
        <5>1. d.turn = turns[u] /\ d.status = status
          BY <2>3, <4>1
        <5> QED
          BY <2>1, <2>3, <3>2, <5>1
      <4>2. CASE d \in events
        BY <1>0, <2>1, <2>3, <3>2, <4>2 DEF TurnsInv
      <4> QED
        BY <2>1, <4>1, <4>2
    <3>4. busy'[u] => turns'[u] > 0 /\ (Leased(u)' \/ Judged(u)')
      BY <1>0, <2>1, <2>3, <3>1 DEF TurnsInv
    <3> QED
      BY <1>0, <2>1, <3>1, <3>3, <3>4 DEF TurnsInv
  <2> QED
    BY <2>2, <2>3
<1>17. ASSUME NEW t \in Tasks, Publishes(t) \/ ForgeMoves(t) PROVE TurnsInv(u)'
  BY <1>17, TurnsIdle DEF Publishes, ForgeMoves
<1>18. ASSUME NEW t \in Tasks, Retire(t) PROVE TurnsInv(u)'
  <2>1. UNCHANGED <<stored, turns, events>> /\ (busy'[u] => busy[u])
    BY <1>0, <1>18 DEF Retire, TypeOK
  <2> QED
    BY <2>1, TurnsIdle
<1>19. CASE Crash
  BY <1>19, TurnsIdle DEF Crash
<1> QED
  BY <1>1, <1>2, <1>3, <1>4, <1>5, <1>6, <1>7, <1>8, <1>9, <1>10, <1>11, <1>12, <1>13, <1>14,
     <1>15, <1>16, <1>17, <1>18, <1>19 DEF Next, Holder

-----------------------------------------------------------------------------
(* What the holder relies on. *)

(* Away from the holder, the cards it relies on are left alone. *)
LEMMA HolderKept ==
  ASSUME HolderInv, UNCHANGED <<sched, run, active>>, UNCHANGED <<at, task, due, turns>>
  PROVE  HolderInv'
BY DEF HolderInv, Leased

(* Every step keeps what the holder of the mutex relies on.                *)
LEMMA HolderStep ==
  ASSUME ReactorInv, Next, TypeOK' PROVE HolderInv'
<1> USE DEF pass, world
<1>0. TypeOK /\ Store!ReservationInv /\ HolderInv
  BY DEF ReactorInv
<1>1. CASE at' \in {"free", "observing", "begin", "returns", "recovering", "down"}
  BY <1>1 DEF HolderInv
<1>2. CASE Submit \/ Wake \/ \E scope \in StopScopes : Stop(scope)
  BY <1>1, <1>2 DEF Submit, Wake, Stop, Handler
<1>3. CASE (\E t \in Tasks : Observe(t)) \/ \E t \in Tasks : Input(t)
  BY <1>1, <1>3 DEF Observe, Input, Handler
<1>4. ASSUME NEW t \in Tasks, Handled(t) PROVE HolderInv'
  BY <1>1, <1>4 DEF Handled, Completed, Unknown, Dropped, Handler
<1>5. CASE ReadForge \/ Begin \/ Done \/ Restart \/ Crash
  BY <1>1, <1>5 DEF ReadForge, Begin, Granted, Unavailable, Done, Restart, Crash
<1>6. CASE Recover
  BY <1>1, <1>6 DEF Recover
<1>7. CASE Claim
  <2> DEFINE t == Store!First(due)
  <2>1. t \in Tasks /\ turns' = turns
    BY <1>0, <1>7, HandTypes DEF Claim
  <2>2. CASE at' = "returning"
    <3>1. Store!ClaimReturn(t, av.slots, av.blocked) /\ task' = t
      BY <1>7, <2>2 DEF Claim
    <3>2. /\ sched'[t] = [sched[t] EXCEPT !.returnSent = TRUE, !.capacityHeld = TRUE]
          /\ UNCHANGED <<run, active>>
      BY <1>0, <2>1, <3>1, EventCard DEF Store!ClaimReturn
    <3>3. /\ sched[t].returnRequested /\ ~sched[t].returnSent
          /\ ~active[t] /\ ~sched[t].landed /\ ~sched[t].closed
      BY <3>1 DEF Store!ClaimReturn, Store!ReturnDue
    <3>4. /\ sched[t] \in Store!Scheduling /\ run[t] \in Nat /\ turns[t] \in Nat
          /\ run[t] > 0 /\ sched[t].reserved /\ sched[t].areaHeld
          /\ run[t] <= turns[t] /\ turns[t] <= Claims(t)
      BY <1>0, <2>1, <3>3, CardFacts DEF ReactorInv, TypeOK, TurnsInv
    <3>5. turns[t] = 1 /\ run[t] = 1
      BY <3>3, <3>4 DEF Claims
    <3>6. /\ sched'[t].returnSent /\ sched'[t].reserved /\ ~sched'[t].closed
          /\ sched'[t].areaHeld /\ sched'[t].capacityHeld
      BY <3>2, <3>3, <3>4 DEF Store!Scheduling
    <3> QED
      BY <2>1, <2>2, <3>1, <3>2, <3>3, <3>5, <3>6 DEF HolderInv, Leased
  <2> QED
    BY <1>1, <1>7, <2>2 DEF Claim
<1>8. CASE SendReturn
  <2>1. task \in Tasks /\ at = "returning" /\ UNCHANGED stored
    BY <1>0, <1>8, HandTypes DEF SendReturn
  <2>2. CASE at' = "returned"
    <3>1. Accepted(task, TRUE) /\ task' = task
      BY <1>8, <2>2 DEF SendReturn
    <3>2. turns'[task] = turns[task] + 1
      BY <1>0, <2>1, <3>1 DEF Accepted, TypeOK
    <3>3. turns[task] = 1 /\ run[task] = 1 /\ ~active[task]
      BY <1>0, <2>1 DEF HolderInv
    <3> QED
      BY <2>1, <2>2, <3>1, <3>2, <3>3 DEF HolderInv, stored
  <2> QED
    BY <1>1, <1>8, <2>2 DEF SendReturn
<1>9. CASE RecordReturn
  BY <1>1, <1>9 DEF RecordReturn, Record
<1>10. CASE RecordStart
  <2>1. /\ at = "started" /\ at' = "starting" /\ UNCHANGED <<due, turns>> /\ sched' = sched
    BY <1>10 DEF RecordStart, Record, Store!Start, stored
  <2> QED
    BY <1>0, <2>1 DEF HolderInv, Leased
<1>11. CASE Release
  <2>1. PICK R \in SUBSET Tasks : Store!Release(R, av.slots, av.blocked) /\ due' = R
    BY <1>11 DEF Release
  <2>2. turns' = turns /\ at' = "starting"
    BY <1>11 DEF Release
  <2>3. ASSUME NEW t \in due'
        PROVE  sched'[t].reserved /\ Leased(t)' /\ ~sched'[t].closed /\ turns'[t] = 0
    <3>1. t \in R /\ t \in Tasks /\ ~sched[t].reserved /\ ~sched[t].closed
      BY <2>1 DEF Store!Release, Store!Released, Store!Candidates
    <3>2. sched'[t] = Store!Reserve(sched[t]) /\ sched[t] \in Store!Scheduling
      BY <1>0, <2>1, <3>1, CardFacts DEF Store!Release
    <3>3. sched'[t].reserved /\ Leased(t)' /\ ~sched'[t].closed
      BY <3>1, <3>2 DEF Leased, Store!Reserve, Store!Scheduling
    <3>4. turns[t] \in Nat /\ turns[t] <= Claims(t) /\ ~sched[t].returnSent
      BY <1>0, <3>1, CardFacts DEF ReactorInv, TypeOK, TurnsInv
    <3>5. turns[t] = 0
      BY <3>1, <3>4 DEF Claims
    <3> QED
      BY <2>2, <3>3, <3>5
  <2> QED
    BY <2>2, <2>3 DEF HolderInv
<1>12. CASE SendStart
  <2> DEFINE t == Store!First(due)
  <2>1. /\ t \in due /\ t \in Tasks /\ at = "starting" /\ UNCHANGED stored
        /\ due' = due \ {t} /\ at' \in {"unstarted", "starting", "started"}
    BY <1>0, <1>12, HandTypes DEF SendStart
  <2>2. \A d \in due : sched[d].reserved /\ Leased(d) /\ ~sched[d].closed /\ turns[d] = 0
    BY <1>0, <2>1 DEF HolderInv
  <2>3. Accepted(t, TRUE) \/ Accepted(t, FALSE) \/ turns' = turns
    BY <1>12 DEF SendStart
  <2>4. \A d \in due' : turns'[d] = turns[d]
    BY <1>0, <2>1, <2>3 DEF Accepted, TypeOK
  <2>5. \A d \in due' : sched'[d].reserved /\ Leased(d)' /\ ~sched'[d].closed /\ turns'[d] = 0
    BY <2>1, <2>2, <2>4 DEF stored, Leased
  <2>6. at' = "unstarted" => task' \notin due' /\ turns'[task'] = 0
    BY <1>12, <2>1, <2>2 DEF SendStart
  <2>7. at' = "started" => turns'[task'] = run'[task'] + 1 /\ ~active'[task']
    <3> SUFFICES ASSUME at' = "started" PROVE turns'[t] = run'[t] + 1 /\ ~active'[t] /\ task' = t
      OBVIOUS
    <3>1. Accepted(t, TRUE) /\ task' = t
      BY <1>12 DEF SendStart
    <3>2. turns'[t] = 1
      BY <1>0, <2>1, <2>2, <3>1 DEF Accepted, TypeOK
    <3>3. TurnsInv(t) /\ run[t] \in Nat /\ (active[t] => run[t] > 0)
      BY <1>0, <2>1, CardFacts DEF ReactorInv
    <3>4. run[t] = 0 /\ ~active[t]
      BY <2>1, <2>2, <3>3 DEF TurnsInv
    <3> QED
      BY <2>1, <3>1, <3>2, <3>4 DEF stored
  <2> QED
    BY <2>1, <2>5, <2>6, <2>7 DEF HolderInv
<1>13. CASE SettleUnsent
  <2>1. /\ task \in Tasks /\ at = "unstarted" /\ at' = "starting"
        /\ UNCHANGED <<due, turns>> /\ due \subseteq Tasks
    BY <1>0, <1>13, HandTypes DEF SettleUnsent, TypeOK
  <2>2. \A d \in due : d # task /\ sched[d].reserved /\ Leased(d) /\ ~sched[d].closed
                       /\ turns[d] = 0
    BY <1>0, <2>1 DEF HolderInv
  <2>3. \A d \in due : sched'[d] = sched[d]
    <3>1. CASE Store!StartFailed(task)
      BY <1>0, <2>1, <2>2, <3>1, EventCard DEF Store!StartFailed
    <3>2. CASE UNCHANGED stored
      BY <3>2 DEF stored
    <3> QED
      BY <1>13, <3>1, <3>2 DEF SettleUnsent
  <2> QED
    BY <2>1, <2>2, <2>3 DEF HolderInv, Leased
<1>14. ASSUME NEW t \in Tasks, NEW status \in {"completed", "failed", "interrupted", "lost"},
              WorkerEnds(t, status)
       PROVE  HolderInv'
  BY <1>0, <1>14, HolderKept DEF WorkerEnds, stored
<1>15. CASE \E t \in Tasks : Publishes(t) \/ ForgeMoves(t) \/ Retire(t)
  BY <1>0, <1>15, HolderKept DEF Publishes, ForgeMoves, Retire, stored
<1> QED
  BY <1>2, <1>3, <1>4, <1>5, <1>6, <1>7, <1>8, <1>9, <1>10, <1>11, <1>12, <1>13, <1>14, <1>15
     DEF Next, Holder

-----------------------------------------------------------------------------
(* Theorems. *)

(* The invariant holds at the start,                                       *)
LEMMA ReactorStart == Init => ReactorInv
<1> SUFFICES ASSUME Init PROVE ReactorInv
  OBVIOUS
<1>1. Store!ReservationInv
  BY StoreStart DEF Init
<1>2. TypeOK
  <2>1. 0 \in 0 .. MaxFaults
    BY ReactorAssumption
  <2> QED
    BY <1>1, <2>1, StoreTypes DEF Init, TypeOK, Places
<1>3. ASSUME NEW t \in Tasks PROVE TurnsInv(t)
  <2>1. sched[t] = Store!NewScheduling /\ run[t] = 0 /\ ~active[t]
    BY DEF Init, Store!Init
  <2> QED
    BY <2>1 DEF Init, TurnsInv, Claims, Leased, Judged, Store!NewScheduling, Store!NoPR
<1>4. HolderInv
  BY DEF Init, HolderInv
<1> QED
  BY <1>1, <1>2, <1>3, <1>4 DEF ReactorInv

(* and every step keeps it.                                                *)
LEMMA ReactorStep == ReactorInv /\ [Next]_vars => ReactorInv'
<1> SUFFICES ASSUME ReactorInv, [Next]_vars PROVE ReactorInv'
  OBVIOUS
<1>1. CASE Next
  <2>1. Store!ReservationInv'
    BY <1>1, StoreStep, StoreKeeps DEF ReactorInv
  <2>2. Store!TypeOK'
    BY <2>1 DEF Store!ReservationInv
  <2>3. TypeOK'
    BY <1>1, <2>2, TypeStep DEF ReactorInv
  <2>4. \A t \in Tasks : TurnsInv(t)'
    BY <1>1, <2>3, TurnsStep
  <2>5. HolderInv'
    BY <1>1, <2>3, HolderStep
  <2> QED
    BY <2>1, <2>3, <2>4, <2>5 DEF ReactorInv
<1>2. CASE UNCHANGED vars
  <2>1. UNCHANGED stored /\ UNCHANGED <<at, task, due, av, freed>>
        /\ UNCHANGED <<turns, busy, session, events, forge>> /\ UNCHANGED faults
    BY <1>2 DEF vars, pass, world
  <2>2. Store!ReservationInv'
    BY <2>1, StoreKeeps DEF ReactorInv
  <2>3. TypeOK'
    BY <2>1, <2>2, StoreTypes DEF ReactorInv, TypeOK, Store!ReservationInv
  <2>4. \A t \in Tasks : TurnsInv(t)'
    BY <2>1, <2>3, TurnsIdle
  <2>5. HolderInv'
    BY <2>1, HolderKept DEF ReactorInv, stored
  <2> QED
    BY <2>2, <2>3, <2>4, <2>5 DEF ReactorInv
<1> QED
  BY <1>1, <1>2

(* ReactorInv: every state the reactor reaches, between two steps of a handler *)
(* and after any crash, satisfies the invariant.                           *)
THEOREM Reactor == Spec => []ReactorInv
<1>1. Init => ReactorInv
  BY ReactorStart
<1>2. ReactorInv /\ [Next]_vars => ReactorInv'
  BY ReactorStep
<1> QED
  BY <1>1, <1>2, PTL DEF Spec

(* TypeOK: every variable of the reactor keeps its range. *)
THEOREM ReactorTypes == Spec => []TypeOK
<1>1. ReactorInv => TypeOK
  BY DEF ReactorInv
<1> QED
  BY <1>1, Reactor, PTL

(* LaunchedByClaim: scheduler.go hands a worker a turn only on a claim its    *)
(* card has committed, and never two on one, whatever is lost or crashes.    *)
THEOREM Launched == Spec => []LaunchedByClaim
<1>1. ReactorInv => LaunchedByClaim
  BY DEF ReactorInv, TurnsInv, LaunchedByClaim
<1> QED
  BY <1>1, Reactor, PTL

(* WorkersUnderLease: a running worker has its slot and its area, or the      *)
(* forge's verdict, also when Core does not know that it runs.             *)
THEOREM UnderLease == Spec => []WorkersUnderLease
<1>1. ReactorInv => WorkersUnderLease
  BY DEF ReactorInv, TurnsInv, WorkersUnderLease
<1> QED
  BY <1>1, Reactor, PTL

(* NoTwoWriters: two workers with overlapping areas never run together       *)
(* before a verdict of the forge.                                          *)
THEOREM Apart == Spec => []NoTwoWriters
<1>1. ReactorInv => NoTwoWriters
  <2> SUFFICES ASSUME ReactorInv, NEW t \in Store!Admitted, NEW u \in Store!Admitted,
                      t # u, busy[t], busy[u], Store!Excludes(def[t], def[u]),
                      ~Judged(t), ~Judged(u)
               PROVE  FALSE
    BY DEF NoTwoWriters, Judged
  <2>1. t \in Tasks /\ u \in Tasks
    BY DEF ReactorInv, Store!ReservationInv, Store!TypeOK
  <2>2. sched[t].areaHeld /\ sched[u].areaHeld
    BY <2>1 DEF ReactorInv, TurnsInv, Leased
  <2> QED
    BY <2>2 DEF ReactorInv, Store!ReservationInv, Store!AreaExclusion
<1> QED
  BY <1>1, Reactor, PTL

(* NoStartAfterStop: Scheduler.Stop waits for the pass, so no turn of a card  *)
(* is handed to its worker once the card is closed.                        *)
THEOREM NoneAfterStop == Spec => NoStartAfterStop
<1>1. ReactorInv /\ [Next]_vars => [\A t \in Tasks : sched[t].closed => turns'[t] = turns[t]]_vars
  <2> SUFFICES ASSUME ReactorInv, Next, NEW t \in Tasks, sched[t].closed
               PROVE  turns'[t] = turns[t]
    OBVIOUS
  <2> USE DEF pass, world
  <2>0. TypeOK /\ HolderInv
    BY DEF ReactorInv
  <2>1. CASE SendReturn
    <3>1. /\ task \in Tasks /\ t # task
          /\ Accepted(task, TRUE) \/ Accepted(task, FALSE) \/ turns' = turns
      BY <2>0, <2>1, HandTypes DEF SendReturn, HolderInv
    <3> QED
      BY <2>0, <3>1 DEF Accepted, TypeOK
  <2>2. CASE SendStart
    <3>1. /\ Store!First(due) \in due /\ Store!First(due) \in Tasks /\ t # Store!First(due)
          /\ \/ Accepted(Store!First(due), TRUE) \/ Accepted(Store!First(due), FALSE)
             \/ turns' = turns
      BY <2>0, <2>2, HandTypes DEF SendStart, HolderInv
    <3> QED
      BY <2>0, <3>1 DEF Accepted, TypeOK
  <2>3. CASE Submit \/ Wake \/ (\E scope \in StopScopes : Stop(scope))
             \/ (\E u \in Tasks : Observe(u) \/ Handled(u) \/ Input(u))
    BY <2>3 DEF Submit, Wake, Stop, Observe, Handled, Completed, Unknown, Dropped, Input
  <2>4. CASE ReadForge \/ Begin \/ Claim \/ RecordReturn \/ Release \/ SettleUnsent
             \/ RecordStart \/ Done \/ Restart \/ Recover
    BY <2>4 DEF ReadForge, Begin, Claim, RecordReturn, Release, SettleUnsent, RecordStart,
                Record, Done, Restart, Recover
  <2>5. CASE \/ \E u \in Tasks, status \in {"completed", "failed", "interrupted", "lost"} :
                  WorkerEnds(u, status)
             \/ \E u \in Tasks : Publishes(u) \/ ForgeMoves(u) \/ Retire(u)
             \/ Crash
    BY <2>5 DEF WorkerEnds, Publishes, ForgeMoves, Retire, Crash
  <2> QED
    BY <2>1, <2>2, <2>3, <2>4, <2>5 DEF Next, Holder
<1> QED
  BY <1>1, Reactor, PTL DEF Spec, NoStartAfterStop

(* StoreSpec: the reactor implements the durable scheduler: nothing it does   *)
(* between two transactions, or loses in a crash, is visible in the store.   *)
THEOREM Implements == Spec => StoreSpec
<1>1. Init => Store!Init
  BY DEF Init
<1>2. ReactorInv /\ [Next]_vars => [Store!Next]_(Store!vars)
  BY StoreStep DEF ReactorInv, vars, stored, Store!vars
<1> QED
  BY <1>1, <1>2, Reactor, PTL DEF Spec, StoreSpec, Store!Spec

(* Leases of WorkScheduler: so areas are handed out, kept and given back as *)
(* AreaLeases promises under crashes, lost replies and late events too.     *)
THEOREM ReactorLeases == Spec => Proved!Leases
<1>1. Proved!Spec => Proved!Leases
  BY Proved!SchedulerLeases, StoreAssumption
     DEF Store!TasksAssumption, Store!DefinitionsAssumption, Store!SlotsAssumption,
         Store!HeadAssumption, Store!ScopesAssumption, Store!IsFiniteSet, Proved!IsFiniteSet
<1>2. Init => Proved!Init
  BY SameStart DEF Init
<1>3. ReactorInv /\ [Next]_vars => [Proved!Next]_(Proved!vars)
  BY StoreStep, SameStep DEF ReactorInv, vars, stored, Proved!vars
<1> QED
  BY <1>1, <1>2, <1>3, Reactor, PTL DEF Spec, Proved!Spec

-----------------------------------------------------------------------------
(* Ends that are on their way. *)

(* A step that adds no run of u and takes neither its end nor its session.  *)
LEMMA EndKept ==
  ASSUME NEW u \in Tasks, EndComes(u), Outstanding(u)' => Outstanding(u),
         session'[u] => session[u], busy[u] => busy'[u], turns'[u] = turns[u],
         \A e \in events :
            e.task = u /\ e.turn = turns[u] /\ e.status # "lost" => e \in events'
  PROVE  EndComes(u)'
BY DEF EndComes

(* The same for a step that leaves the runs and the worker alone.          *)
LEMMA EndIdle ==
  ASSUME NEW u \in Tasks, EndComes(u), active'[u] = active[u],
         at' \notin {"started", "returned"} \/ (at' = at /\ task' = task), UNCHANGED world
  PROVE  EndComes(u)'
BY DEF EndComes, Outstanding, world

(* An accepted turn is running.                                            *)
LEMMA EndAccepted ==
  ASSUME TypeOK, NEW u \in Tasks, NEW t \in Tasks, EndComes(u), UNCHANGED active,
         at' \in {"started", "returned"} => task' = t,
         NEW replied \in BOOLEAN, Accepted(t, replied)
  PROVE  EndComes(u)'
<1>1. CASE u = t
  BY <1>1 DEF EndComes, Accepted, TypeOK
<1>2. CASE u # t
  BY <1>2, EndKept DEF Accepted, Outstanding, TypeOK
<1> QED
  BY <1>1, <1>2

(* Only a drop takes an end that the card still waits for.                 *)
LEMMA EndStep ==
  ASSUME ReactorInv, Next, NEW u \in Tasks, EndComes(u)
  PROVE  EndComes(u)' \/ Dropping(u)
<1>0. TypeOK /\ Store!ReservationInv /\ TurnsInv(u) /\ HolderInv /\ active \in [Tasks -> BOOLEAN]
  BY DEF ReactorInv, TypeOK, Store!TypeOK
<1>1. CASE Submit
  BY <1>0, <1>1, SparedSchedule, EndIdle DEF Submit, Handler, Spares
<1>2. CASE Wake \/ \E t \in Tasks : Observe(t)
  BY <1>2, EndIdle DEF Wake, Observe, Handler, stored, pass
<1>3. ASSUME NEW scope \in StopScopes, Stop(scope) PROVE EndComes(u)'
  BY <1>0, <1>3, SparedStop, EndIdle DEF Stop, Handler, Spares
<1>4. ASSUME NEW t \in Tasks, Handled(t) PROVE EndComes(u)' \/ Dropping(u)
  <2>1. PICK e \in events : Completed(e) \/ Unknown(e) \/ Dropped(e)
    BY <1>4 DEF Handled
  <2>2. /\ e.task \in Tasks /\ UNCHANGED <<turns, busy, session>> /\ events' = events \ {e}
        /\ at = "free" /\ at' \in {"free", "observing"}
    BY <1>0, <2>1, HandTypes DEF Completed, Unknown, Dropped, Handler
  <2>3. CASE e.task = u /\ e.turn = turns[u] /\ e.status # "lost" /\ active[u]
    <3>1. run[u] = turns[u]
      BY <1>0, <2>3 DEF TurnsInv
    <3>2. CASE Completed(e)
      <4>1. Store!Finish(u, e.status)
        BY <2>3, <3>1, <3>2 DEF Completed, Handler
      <4>2. ~active'[u]
        BY <1>0, <4>1 DEF Store!Finish
      <4> QED
        BY <2>2, <4>2 DEF EndComes, Outstanding
    <3>3. CASE Dropped(e)
      BY <2>3, <3>3 DEF Dropping
    <3> QED
      BY <2>1, <2>3, <3>2, <3>3 DEF Unknown
  <2>4. CASE ~(e.task = u /\ e.turn = turns[u] /\ e.status # "lost" /\ active[u])
    <3>1. active'[u] => active[u]
      <4>1. CASE Completed(e)
        BY <1>0, <2>2, <4>1 DEF Completed, Handler, Store!Finish, stored
      <4>2. CASE Unknown(e)
        BY <1>0, <4>2 DEF Unknown, Handler, Store!UnknownExecution, stored
      <4>3. CASE Dropped(e)
        BY <4>3 DEF Dropped, Handler, stored
      <4> QED
        BY <2>1, <4>1, <4>2, <4>3
    <3> QED
      BY <2>2, <2>4, <3>1 DEF EndComes, Outstanding
  <2> QED
    BY <2>3, <2>4
<1>5. ASSUME NEW t \in Tasks, Input(t) PROVE EndComes(u)'
  BY <1>0, <1>5, SparedInput, EndIdle DEF Input, Handler, Spares
<1>6. CASE ReadForge
  <2>1. active'[u] = active[u]
    BY <1>0, <1>6, HandTypes, SparedObserve DEF ReadForge, Noticed, Unread, stored, Spares
  <2> QED
    BY <1>6, <2>1, EndIdle DEF ReadForge
<1>7. CASE Begin \/ Done \/ Restart
  BY <1>7, EndIdle DEF Begin, Granted, Unavailable, Done, Restart, stored
<1>8. CASE Claim
  <2>1. active'[u] = active[u]
    BY <1>0, <1>8, HandTypes, SparedReturn DEF Claim, stored, Spares
  <2> QED
    BY <1>8, <2>1, EndIdle DEF Claim
<1>9. CASE SendReturn
  <2>1. task \in Tasks /\ UNCHANGED active /\ at' \in {"returned", "returns"}
        /\ (at' = "returned" => task' = task)
    BY <1>0, <1>9, HandTypes DEF SendReturn, stored
  <2>2. \/ Accepted(task, TRUE) \/ Accepted(task, FALSE)
        \/ at' = "returns" /\ UNCHANGED world
    BY <1>9 DEF SendReturn
  <2> QED
    BY <1>0, <2>1, <2>2, EndAccepted, EndIdle
<1>10. CASE RecordReturn \/ RecordStart
  <2>1. /\ task \in Tasks /\ at \in {"started", "returned"} /\ at' \in {"starting", "returns"}
        /\ UNCHANGED world /\ (Store!Start(task) \/ UNCHANGED stored)
    BY <1>0, <1>10, HandTypes DEF RecordReturn, RecordStart, Record
  <2>2. u # task => active'[u] = active[u]
    BY <1>0, <2>1, SparedStart DEF stored, Spares
  <2>3. Outstanding(u)' => Outstanding(u)
    BY <2>1, <2>2 DEF Outstanding
  <2> QED
    BY <2>1, <2>3, EndKept DEF world
<1>11. CASE Release
  <2>1. active' = active /\ at' = "starting" /\ UNCHANGED world
    BY <1>11 DEF Release, Store!Release
  <2> QED
    BY <2>1, EndIdle
<1>12. CASE SendStart
  <2> DEFINE t == Store!First(due)
  <2>1. /\ t \in Tasks /\ UNCHANGED active /\ at' \in {"unstarted", "starting", "started"}
        /\ (at' = "started" => task' = t)
    BY <1>0, <1>12, HandTypes DEF SendStart, stored
  <2>2. \/ Accepted(t, TRUE) \/ Accepted(t, FALSE)
        \/ at' \in {"unstarted", "starting"} /\ UNCHANGED world
    BY <1>12 DEF SendStart
  <2> QED
    BY <1>0, <2>1, <2>2, EndAccepted, EndIdle
<1>13. CASE SettleUnsent
  <2>1. active' = active
    BY <1>13 DEF SettleUnsent, stored, Store!StartFailed, Store!SchedulingEvent
  <2> QED
    BY <1>13, <2>1, EndIdle DEF SettleUnsent
<1>14. CASE Recover
  <2>1. active' = active
    BY <1>14 DEF Recover, stored, Store!UnknownExecution
  <2> QED
    BY <1>14, <2>1, EndIdle DEF Recover
<1>15. ASSUME NEW t \in Tasks, NEW status \in {"completed", "failed", "interrupted", "lost"},
              WorkerEnds(t, status)
       PROVE  EndComes(u)'
  <2>1. UNCHANGED <<active, at, task, turns>>
    BY <1>15 DEF WorkerEnds, stored, pass
  <2>2. CASE u # t
    BY <1>0, <1>15, <2>1, <2>2, EndKept DEF WorkerEnds, TypeOK, Outstanding
  <2>3. CASE u = t /\ session'[t]
    <3>1. status # "lost" /\ session[t]
      BY <1>0, <1>15, <2>3 DEF WorkerEnds, TypeOK
    <3>2. [task |-> t, turn |-> turns[t], status |-> status] \in events'
      BY <1>15, <3>1 DEF WorkerEnds
    <3> QED
      BY <2>1, <2>3, <3>1, <3>2 DEF EndComes
  <2>4. CASE ~session'[u]
    BY <2>4 DEF EndComes
  <2> QED
    BY <2>2, <2>3, <2>4
<1>16. ASSUME NEW t \in Tasks, Publishes(t) \/ ForgeMoves(t) PROVE EndComes(u)'
  BY <1>16, EndKept DEF Publishes, ForgeMoves, Outstanding, stored, pass
<1>17. ASSUME NEW t \in Tasks, Retire(t) PROVE EndComes(u)'
  <2>1. CASE u = t
    BY <1>0, <1>17, <2>1 DEF Retire, EndComes, TypeOK
  <2>2. CASE u # t
    BY <1>0, <1>17, <2>2, EndKept DEF Retire, Outstanding, stored, pass, TypeOK
  <2> QED
    BY <2>1, <2>2
<1>18. CASE Crash
  BY <1>18 DEF Crash, EndComes
<1> QED
  BY <1>1, <1>2, <1>3, <1>4, <1>5, <1>6, <1>7, <1>8, <1>9, <1>10, <1>11, <1>12, <1>13, <1>14,
     <1>15, <1>16, <1>17, <1>18 DEF Next, Holder

(* EndsReported: through lost replies, crashes and ends that overtake their  *)
(* replies, no run that Core hears from is left active with nobody to end it, *)
(* unless the event loop dropped its end.                                  *)
THEOREM Ends == Spec => EndsReported
<1>1. Init => \A t \in Tasks : EndComes(t)
  BY DEF Init, EndComes
<1>2. ReactorInv /\ [Next]_vars
        => [\A t \in Tasks : EndComes(t) => EndComes(t)' \/ Dropping(t)]_vars
  BY EndStep
<1> QED
  BY <1>1, <1>2, Reactor, PTL DEF Spec, EndsReported
=============================================================================
