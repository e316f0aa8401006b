------------------------ MODULE WorkSchedulerProofs ------------------------
(***************************************************************************)
(* Proofs about WorkScheduler for every set of tasks, every offer of       *)
(* definitions, every slot bound and every forge.  The inductive invariant *)
(* is ReservationInv, to which ConflictInv adds what the conflicts need.   *)
(***************************************************************************)
EXTENDS WorkScheduler, FiniteSetTheorems, WellFoundedInduction, TLAPS

-----------------------------------------------------------------------------
(* Extrema of sets of task ids: cards are visited in id order. *)

(* A nonempty set of naturals has a least element (the first card in id order). *)
LEMMA LeastExists ==
  ASSUME NEW S \in SUBSET Nat, S # {}
  PROVE  \E x \in S : \A y \in S : x <= y
<1> DEFINE R == {ss \in Nat \X Nat : ss[1] < ss[2]}
<1>1. IsWellFoundedOn(R, Nat)
  BY NatLessThanWellFounded DEF OpToRel
<1>2. \A x, y \in Nat : <<y, x>> \in R <=> y < x
  OBVIOUS
<1> HIDE DEF R
<1>3. \E x \in S : \A y \in S : ~(<<y, x>> \in R)
  BY <1>1, WFMin
<1>4. PICK x \in S : \A y \in S : ~(<<y, x>> \in R)
  BY <1>3
<1>5. ASSUME NEW y \in S PROVE x <= y
  <2>1. x \in Nat /\ y \in Nat
    OBVIOUS
  <2>2. ~(y < x)
    BY <1>2, <1>4, <2>1
  <2> QED BY <2>1, <2>2
<1> QED BY <1>5

(* A nonempty finite set of naturals has a greatest element: if every element  *)
(* had a larger one, the successor map would be an injection of the set into   *)
(* itself that misses the least element.                                       *)
LEMMA GreatestExists ==
  ASSUME NEW S \in SUBSET Nat, S # {}, IsFiniteSet(S)
  PROVE  \E x \in S : \A y \in S : y <= x
<1> SUFFICES ASSUME \A x \in S : \E y \in S : x < y
             PROVE  FALSE
  OBVIOUS
<1> DEFINE Above(x) == {y \in S : x < y}
           next == [x \in S |-> CHOOSE y \in Above(x) : \A z \in Above(x) : y <= z]
<1>1. \A x \in S : next[x] \in Above(x) /\ \A z \in Above(x) : next[x] <= z
  <2> SUFFICES ASSUME NEW x \in S
               PROVE  next[x] \in Above(x) /\ \A z \in Above(x) : next[x] <= z
    OBVIOUS
  <2>1. Above(x) \in SUBSET Nat /\ Above(x) # {}
    OBVIOUS
  <2>2. \E y \in Above(x) : \A z \in Above(x) : y <= z
    <3> HIDE DEF Above
    <3> QED BY <2>1, LeastExists
  <2> QED BY <2>2
<1>2. next \in [S -> S]
  BY <1>1
<1>3. \A x, y \in S : x # y => next[x] # next[y]
  <2> HIDE DEF next
  <2>1. \A x \in S : next[x] \in S /\ x < next[x] /\ \A z \in S : x < z => next[x] <= z
    BY <1>1
  <2> SUFFICES ASSUME NEW x \in S, NEW y \in S, x < y
               PROVE  next[x] # next[y]
    <3>1. \A x, y \in S : x \in Nat /\ y \in Nat
      OBVIOUS
    <3>2. \A x, y \in S : x # y => x < y \/ y < x
      BY <3>1
    <3> QED BY <3>2
  <2>2. next[x] <= y /\ y < next[y]
    BY <2>1
  <2>3. next[x] \in Nat /\ next[y] \in Nat /\ y \in Nat
    BY <2>1
  <2> QED BY <2>2, <2>3
<1>4. next \in Injection(S, S)
  <2> HIDE DEF next
  <2> QED BY <1>2, <1>3 DEF Injection, IsInjective
<1>5. next \in Surjection(S, S)
  <2> HIDE DEF next
  <2> QED BY <1>4, FS_Injection
<1>6. PICK m \in S : \A y \in S : m <= y
  BY LeastExists
<1>7. PICK x \in S : next[x] = m
  <2> HIDE DEF next
  <2> QED BY <1>5 DEF Surjection
<1>8. x < m
  <2> HIDE DEF next
  <2> QED BY <1>1, <1>7
<1> QED BY <1>6, <1>8

-----------------------------------------------------------------------------
(* Types. *)

(* A new proposal keeps the admitted definitions and adds offered ones. *)
LEMMA JoinedType ==
  ASSUME TypeOK, NEW N \in SUBSET Tasks, NEW q, DOMAIN q = N,
         \A t \in N : q[t] \in Definitions[t]
  PROVE  /\ DOMAIN Joined(q) = Admitted \cup N
         /\ DOMAIN Joined(q) \subseteq Tasks
         /\ \A t \in Admitted : Joined(q)[t] = def[t]
         /\ \A t \in DOMAIN Joined(q) : Joined(q)[t] \in Definitions[t]
BY DEF TypeOK, Joined, Admitted

(* Recording a scheduling event keeps the shape of the cards. *)
LEMMA EventType ==
  ASSUME TypeOK, NEW t \in Tasks, NEW s \in Scheduling, NEW p \in CardStates,
         NEW w \in WaitReasons, SchedulingEvent(t, s, p, w)
  PROVE  TypeOK'
<1>1. Shown(s, p) \in CardStates
  BY DEF Shown, CardStates
<1> QED
  BY <1>1 DEF TypeOK, SchedulingEvent, Admitted

(* The first element of a set of tasks is a member of it. *)
LEMMA FirstIsMember ==
  ASSUME NEW S \in SUBSET Tasks, S # {}
  PROVE  First(S) \in S
<1>1. S \in SUBSET Nat
  BY TasksAssumption
<1>2. \E x \in S : \A y \in S : x <= y
  BY <1>1, LeastExists
<1> QED
  BY <1>2 DEF First

(* What a candidate waits for is a wait reason. *)
LEMMA ReasonType ==
  ASSUME TypeOK, NEW R \in SUBSET Candidates, NEW t \in Admitted, NEW slots, NEW blocked
  PROVE  Reason(t, R, slots, blocked) \in WaitReasons
<1>1. Unlanded(t) \in SUBSET Tasks
  BY DefinitionsAssumption DEF TypeOK, Unlanded
<1>2. Blockers(R, t) \in SUBSET Tasks
  BY DEF TypeOK, Blockers, AreaHolders, Earlier, Candidates
<1>3. def[t].worker \in Workers /\ def[t].host \in Hosts
  BY DefinitionsAssumption DEF TypeOK
<1>4. CASE Unlanded(t) # {}
  BY <1>1, <1>4, FirstIsMember DEF Reason, WaitReasons
<1>5. CASE Unlanded(t) = {} /\ Blockers(R, t) # {}
  BY <1>2, <1>5, FirstIsMember DEF Reason, WaitReasons
<1>6. CASE Unlanded(t) = {} /\ Blockers(R, t) = {}
  BY <1>3, <1>6 DEF Reason, WaitReasons
<1> QED
  BY <1>4, <1>5, <1>6

LEMMA ReturnReasonType ==
  ASSUME TypeOK, NEW t \in Admitted, NEW slots, NEW blocked
  PROVE  ReturnReason(t, slots, blocked) \in WaitReasons
BY DefinitionsAssumption DEF TypeOK, ReturnReason, WaitReasons

(* The flag changes of the operations stay inside Scheduling. *)
LEMMA FlagTypes ==
  ASSUME NEW s \in Scheduling
  PROVE  /\ Reserve(s) \in Scheduling
         /\ Stopped(s) \in Scheduling
         /\ [s EXCEPT !.capacityHeld = FALSE, !.areaHeld = FALSE] \in Scheduling
         /\ [s EXCEPT !.returnSent = TRUE, !.capacityHeld = TRUE] \in Scheduling
BY DEF Scheduling, Reserve, Stopped

(* So do the results of reading a pull request. *)
LEMMA ObservedTypes ==
  ASSUME NEW s0 \in Scheduling, NEW pr \in PullRequest, NEW r \in Nat
  PROVE  LET s == [s0 EXCEPT !.pr = pr, !.prRun = r] IN
         /\ s \in Scheduling
         /\ [s EXCEPT !.landed = TRUE, !.areaHeld = FALSE, !.capacityHeld = FALSE]
              \in Scheduling
         /\ [s EXCEPT !.closed = TRUE, !.areaHeld = FALSE, !.capacityHeld = FALSE]
              \in Scheduling
         /\ [s EXCEPT !.returnRequested = TRUE, !.conflictHead = pr.head] \in Scheduling
<1>1. pr.head \in Heads
  BY DEF PullRequest
<1> QED
  BY <1>1 DEF Scheduling

LEMMA TypeInit == Init => TypeOK
BY DEF Init, TypeOK, Admitted, NewScheduling, Scheduling, NoPR, CardStates, WaitReasons

(* Every operation keeps the types. *)
LEMMA TypeStep == TypeOK /\ [Next]_vars => TypeOK'
<1> SUFFICES ASSUME TypeOK, [Next]_vars PROVE TypeOK'
  OBVIOUS
<1> USE DEF TypeOK
<1>1. CASE Admit
  <2>0. PICK N \in SUBSET Tasks :
               \E q \in {p \in [N -> UNION {Definitions[t] : t \in N}] :
                          \A t \in N : p[t] \in Definitions[t]} : Schedule(q)
    BY <1>1 DEF Admit
  <2>1. PICK q : DOMAIN q = N /\ (\A t \in N : q[t] \in Definitions[t]) /\ Schedule(q)
    BY <2>0
  <2> QED
    BY <2>1, JoinedType DEF Schedule, Admitted
<1>2. CASE ReleaseAny
  <2>1. PICK slots \in [Hosts -> 0 .. MaxSlots], blocked \in SUBSET Workers,
             R \in SUBSET Tasks : Release(R, slots, blocked)
    BY <1>2 DEF ReleaseAny
  <2>2. R \subseteq Candidates
    BY <2>1 DEF Release, Released
  <2>3. \A t \in Candidates : Reason(t, R, slots, blocked) \in WaitReasons
    BY <2>2, ReasonType DEF Candidates
  <2>4. NoWait \in WaitReasons
    BY DEF WaitReasons
  <2>5. wait' \in [Tasks -> WaitReasons]
    BY <2>1, <2>3, <2>4 DEF Release
  <2>6. sched' \in [Tasks -> Scheduling]
    BY <2>1, FlagTypes DEF Release
  <2>7. state' \in [Tasks -> CardStates]
    BY <2>1 DEF Release, CardStates
  <2> QED
    BY <2>1, <2>5, <2>6, <2>7 DEF Release, Admitted
<1>3. ASSUME NEW t \in Tasks, StartFailed(t) PROVE TypeOK'
  BY <1>3, FlagTypes, EventType DEF StartFailed, CardStates, WaitReasons
<1>4. ASSUME NEW t \in Tasks, Start(t) PROVE TypeOK'
  BY <1>4 DEF Start, Admitted, CardStates
<1>5. ASSUME NEW t \in Tasks, NEW status \in {"completed", "failed", "interrupted"},
             Finish(t, status)
      PROVE  TypeOK'
  <2>1. [sched[t] EXCEPT !.capacityHeld = FALSE,
                         !.areaHeld = @ /\ ~sched[t].closed] \in Scheduling
    BY DEF Scheduling
  <2>2. Outcome(status) \in CardStates
    BY DEF Outcome, CardStates
  <2>3. sched' \in [Tasks -> Scheduling]
    BY <1>5, <2>1 DEF Finish
  <2>4. state' \in [Tasks -> CardStates]
    BY <1>5, <2>2 DEF Finish, CardStates
  <2> QED
    BY <1>5, <2>3, <2>4 DEF Finish, Admitted
<1>6. ASSUME NEW t \in Tasks, NEW pr \in PullRequest, ObservePullRequest(t, pr)
      PROVE  TypeOK'
  <2> DEFINE s == [sched[t] EXCEPT !.pr = pr, !.prRun = run[t]]
             Event(s1, p1) == SchedulingEvent(t, s1, p1, NoWait)
  <2>1. PICK s1, p1 : s1 \in Scheduling /\ p1 \in CardStates /\ Event(s1, p1)
    BY <1>6, ObservedTypes, Zenon DEF ObservePullRequest, CardStates
  <2> QED
    BY <2>1, EventType DEF WaitReasons
<1>7. ASSUME NEW t \in Tasks, Return(t) PROVE TypeOK'
  <2>1. PICK slots, blocked : ClaimReturn(t, slots, blocked) \/ ReturnWaits(t, slots, blocked)
    BY <1>7 DEF Return
  <2>2. t \in Admitted
    BY <2>1 DEF ClaimReturn, ReturnWaits, ReturnDue
  <2>3. CASE ClaimReturn(t, slots, blocked)
    BY <2>3, FlagTypes, EventType DEF ClaimReturn, CardStates, WaitReasons
  <2>4. CASE ReturnWaits(t, slots, blocked)
    BY <2>2, <2>4, ReturnReasonType, EventType DEF ReturnWaits, CardStates
  <2> QED
    BY <2>1, <2>3, <2>4
<1>8. ASSUME NEW t \in Tasks, WorkerInputNeeded(t) PROVE TypeOK'
  BY <1>8, EventType DEF WorkerInputNeeded, CardStates, WaitReasons
<1>9. ASSUME NEW t \in Tasks, WorkerInputAnswered(t) PROVE TypeOK'
  BY <1>9, EventType DEF WorkerInputAnswered, CardStates, WaitReasons
<1>10. ASSUME NEW t \in Tasks, UnknownExecution(t) PROVE TypeOK'
  BY <1>10 DEF UnknownExecution, Admitted, CardStates
<1>11. ASSUME NEW scope \in StopScopes, StopScheduled(scope) PROVE TypeOK'
  <2>1. sched' \in [Tasks -> Scheduling]
    BY <1>11, FlagTypes DEF StopScheduled
  <2>2. state' \in [Tasks -> CardStates]
    BY <1>11 DEF StopScheduled, Shown, CardStates
  <2>3. wait' \in [Tasks -> WaitReasons]
    BY <1>11 DEF StopScheduled, WaitReasons
  <2> QED
    BY <1>11, <2>1, <2>2, <2>3 DEF StopScheduled, Admitted
<1>12. CASE UNCHANGED vars
  BY <1>12 DEF vars, Admitted
<1> QED
  BY <1>1, <1>2, <1>3, <1>4, <1>5, <1>6, <1>7, <1>8, <1>9, <1>10, <1>11, <1>12 DEF Next

-----------------------------------------------------------------------------
(* One card. *)

(* What reading a pull request can do to a card's flags. *)
LEMMA ObserveEffect ==
  ASSUME TypeOK, NEW t \in Tasks, NEW pr \in PullRequest, ObservePullRequest(t, pr)
  PROVE  /\ t \in Admitted /\ run[t] > 0 /\ ~active[t]
         /\ ~sched[t].landed /\ ~sched[t].closed
         /\ \E s \in Scheduling, p \in CardStates :
              /\ SchedulingEvent(t, s, p, NoWait)
              /\ s.reserved = sched[t].reserved
              /\ s.returnSent = sched[t].returnSent
              /\ sched[t].returnRequested => s.returnRequested
              /\ \/ s.landed /\ ~s.closed /\ ~s.areaHeld /\ ~s.capacityHeld
                 \/ ~s.landed /\ s.closed /\ ~s.areaHeld /\ ~s.capacityHeld
                 \/ /\ ~s.landed /\ ~s.closed
                    /\ s.areaHeld = sched[t].areaHeld
                    /\ s.capacityHeld = sched[t].capacityHeld
<1> DEFINE s0 == [sched[t] EXCEPT !.pr = pr, !.prRun = run[t]]
           Landing == [s0 EXCEPT !.landed = TRUE, !.areaHeld = FALSE, !.capacityHeld = FALSE]
           Closing == [s0 EXCEPT !.closed = TRUE, !.areaHeld = FALSE, !.capacityHeld = FALSE]
           Asking == [s0 EXCEPT !.returnRequested = TRUE, !.conflictHead = pr.head]
<1>1. /\ t \in Admitted /\ run[t] > 0 /\ ~active[t]
      /\ ~sched[t].landed /\ ~sched[t].closed
  BY DEF ObservePullRequest
<1>2. /\ s0 \in Scheduling /\ Landing \in Scheduling /\ Closing \in Scheduling
      /\ Asking \in Scheduling
  BY ObservedTypes DEF TypeOK
<1>3. sched[t] \in Scheduling
  BY DEF TypeOK
<1>4. /\ s0.reserved = sched[t].reserved /\ s0.returnSent = sched[t].returnSent
      /\ s0.returnRequested = sched[t].returnRequested
      /\ s0.landed = sched[t].landed /\ s0.closed = sched[t].closed
      /\ s0.areaHeld = sched[t].areaHeld /\ s0.capacityHeld = sched[t].capacityHeld
  BY <1>3 DEF Scheduling
<1>5. \E p \in CardStates : \/ SchedulingEvent(t, Landing, p, NoWait)
                            \/ SchedulingEvent(t, Closing, p, NoWait)
                            \/ SchedulingEvent(t, Asking, p, NoWait)
                            \/ SchedulingEvent(t, s0, p, NoWait)
  BY Zenon DEF ObservePullRequest, TypeOK, CardStates
<1>6. /\ Landing.reserved = s0.reserved /\ Landing.returnSent = s0.returnSent
      /\ Landing.returnRequested = s0.returnRequested
      /\ Landing.landed /\ Landing.closed = s0.closed
      /\ ~Landing.areaHeld /\ ~Landing.capacityHeld
  BY <1>2 DEF Scheduling
<1>7. /\ Closing.reserved = s0.reserved /\ Closing.returnSent = s0.returnSent
      /\ Closing.returnRequested = s0.returnRequested
      /\ Closing.landed = s0.landed /\ Closing.closed
      /\ ~Closing.areaHeld /\ ~Closing.capacityHeld
  BY <1>2 DEF Scheduling
<1>8. /\ Asking.reserved = s0.reserved /\ Asking.returnSent = s0.returnSent
      /\ Asking.returnRequested
      /\ Asking.landed = s0.landed /\ Asking.closed = s0.closed
      /\ Asking.areaHeld = s0.areaHeld /\ Asking.capacityHeld = s0.capacityHeld
  BY <1>2 DEF Scheduling
<1> HIDE DEF s0, Landing, Closing, Asking
<1> QED
  BY <1>1, <1>2, <1>4, <1>5, <1>6, <1>7, <1>8

(* Definitions never change once admitted and a landing is never undone. *)
LEMMA Monotone ==
  ASSUME TypeOK, Next
  PROVE  /\ Admitted \subseteq Admitted'
         /\ \A t \in Admitted : def'[t] = def[t]
         /\ \A t \in Tasks : sched[t].landed => sched'[t].landed
<1> USE DEF TypeOK
<1>1. CASE Admit
  <2>0. PICK N \in SUBSET Tasks :
               \E q \in {p \in [N -> UNION {Definitions[t] : t \in N}] :
                          \A t \in N : p[t] \in Definitions[t]} : Schedule(q)
    BY <1>1 DEF Admit
  <2>1. PICK q : DOMAIN q = N /\ (\A t \in N : q[t] \in Definitions[t]) /\ Schedule(q)
    BY <2>0
  <2>2. def' = Joined(q) /\ sched' = sched
    BY <2>1 DEF Schedule
  <2>3. DOMAIN Joined(q) = Admitted \cup N /\ \A t \in Admitted : Joined(q)[t] = def[t]
    BY <2>1 DEF Joined, Admitted
  <2> QED
    BY <2>2, <2>3 DEF Admitted
<1>2. CASE ReleaseAny
  <2>1. PICK slots \in [Hosts -> 0 .. MaxSlots], blocked \in SUBSET Workers,
             R \in SUBSET Tasks : Release(R, slots, blocked)
    BY <1>2 DEF ReleaseAny
  <2>2. \A t \in Tasks : Reserve(sched[t]).landed = sched[t].landed
    BY DEF Reserve, Scheduling
  <2> QED
    BY <2>1, <2>2 DEF Release, Admitted
<1>3. ASSUME NEW t \in Tasks, StartFailed(t)
      PROVE  def' = def /\ \A u \in Tasks : sched[u].landed => sched'[u].landed
  BY <1>3 DEF StartFailed, SchedulingEvent, Scheduling
<1>4. ASSUME NEW t \in Tasks, NEW status \in {"completed", "failed", "interrupted"},
             Finish(t, status)
      PROVE  def' = def /\ \A u \in Tasks : sched[u].landed => sched'[u].landed
  BY <1>4 DEF Finish, Scheduling
<1>5. ASSUME NEW t \in Tasks, NEW pr \in PullRequest, ObservePullRequest(t, pr)
      PROVE  def' = def /\ \A u \in Tasks : sched[u].landed => sched'[u].landed
  BY <1>5, ObserveEffect DEF SchedulingEvent
<1>6. ASSUME NEW t \in Tasks, Return(t)
      PROVE  def' = def /\ \A u \in Tasks : sched[u].landed => sched'[u].landed
  <2>1. \/ sched' = sched
        \/ sched' = [sched EXCEPT ![t] = [sched[t] EXCEPT !.returnSent = TRUE,
                                                         !.capacityHeld = TRUE]]
    BY <1>6 DEF Return, ClaimReturn, ReturnWaits, SchedulingEvent
  <2>2. [sched[t] EXCEPT !.returnSent = TRUE, !.capacityHeld = TRUE].landed = sched[t].landed
    BY DEF Scheduling
  <2>3. def' = def
    BY <1>6 DEF Return, ClaimReturn, ReturnWaits, SchedulingEvent
  <2> QED
    BY <2>1, <2>2, <2>3
<1>7. ASSUME NEW scope \in StopScopes, StopScheduled(scope)
      PROVE  def' = def /\ \A u \in Tasks : sched[u].landed => sched'[u].landed
  <2>1. \A u \in Tasks : Stopped(sched[u]).landed = sched[u].landed
    BY DEF Stopped, Scheduling
  <2> QED
    BY <1>7, <2>1 DEF StopScheduled
<1>8. ASSUME NEW t \in Tasks,
             Start(t) \/ WorkerInputNeeded(t) \/ WorkerInputAnswered(t) \/ UnknownExecution(t)
      PROVE  def' = def /\ \A u \in Tasks : sched[u].landed => sched'[u].landed
  BY <1>8 DEF Start, WorkerInputNeeded, WorkerInputAnswered, UnknownExecution, SchedulingEvent
<1> QED
  BY <1>1, <1>2, <1>3, <1>4, <1>5, <1>6, <1>7, <1>8 DEF Next, Admitted

(* So the unlanded dependencies of an admitted task only become fewer. *)
LEMMA UnlandedShrinks ==
  ASSUME TypeOK, Next, NEW t \in Admitted
  PROVE  Unlanded(t)' \subseteq Unlanded(t)
<1>1. def'[t] = def[t]
  BY Monotone
<1>2. \A d \in Tasks : sched[d].landed => sched'[d].landed
  BY Monotone
<1>3. def[t].deps \subseteq Tasks
  BY DefinitionsAssumption DEF TypeOK
<1> QED
  BY <1>1, <1>2, <1>3 DEF Unlanded

(* Every operation keeps the flags of every card consistent. *)
LEMMA CardStep ==
  ASSUME TypeOK, BlankUnlessAdmitted, \A t \in Admitted : CardInv(t), Next
  PROVE  \A t \in Admitted' : CardInv(t)'
<1> USE DEF TypeOK
<1>0. \A t \in Admitted : Unlanded(t)' \subseteq Unlanded(t)
  BY UnlandedShrinks
<1>1. CASE Admit
  <2>0. PICK N \in SUBSET Tasks :
               \E q \in {p \in [N -> UNION {Definitions[t] : t \in N}] :
                          \A t \in N : p[t] \in Definitions[t]} : Schedule(q)
    BY <1>1 DEF Admit
  <2>1. PICK q : DOMAIN q = N /\ (\A t \in N : q[t] \in Definitions[t]) /\ Schedule(q)
    BY <2>0
  <2>2. UNCHANGED <<sched, run, active>> /\ Admitted' \subseteq Tasks
    BY <2>1, JoinedType DEF Schedule, Admitted
  <2> SUFFICES ASSUME NEW t \in Admitted' PROVE CardInv(t)'
    OBVIOUS
  <2>3. CASE t \in Admitted
    BY <1>0, <2>2, <2>3 DEF CardInv
  <2>4. CASE t \notin Admitted
    BY <2>2, <2>4 DEF CardInv, BlankUnlessAdmitted, NewScheduling
  <2> QED
    BY <2>3, <2>4
<1>2. CASE ReleaseAny
  <2>1. PICK slots \in [Hosts -> 0 .. MaxSlots], blocked \in SUBSET Workers,
             R \in SUBSET Tasks : Release(R, slots, blocked)
    BY <1>2 DEF ReleaseAny
  <2>2. \A t \in R : t \in Candidates /\ Unlanded(t) = {}
    BY <2>1 DEF Release, Released, Releasable
  <2>3. UNCHANGED <<def, run, active>>
    BY <2>1 DEF Release
  <2> SUFFICES ASSUME NEW t \in Admitted PROVE CardInv(t)'
    BY <2>3 DEF Admitted
  <2>4. CASE t \in R
    <3>1. sched'[t] = Reserve(sched[t])
      BY <2>1, <2>4 DEF Release
    <3> QED
      BY <1>0, <2>2, <2>3, <2>4, <3>1 DEF CardInv, Reserve, Candidates, Scheduling
  <2>5. CASE t \notin R
    BY <1>0, <2>1, <2>3, <2>5 DEF CardInv, Release
  <2> QED
    BY <2>4, <2>5
<1>3. ASSUME NEW t \in Tasks, StartFailed(t) PROVE \A u \in Admitted' : CardInv(u)'
  BY <1>0, <1>3 DEF StartFailed, SchedulingEvent, Scheduling, CardInv, Admitted
<1>4. ASSUME NEW t \in Tasks, Start(t) PROVE \A u \in Admitted' : CardInv(u)'
  BY <1>0, <1>4 DEF Start, CardInv, Admitted
<1>5. ASSUME NEW t \in Tasks, NEW status \in {"completed", "failed", "interrupted"},
             Finish(t, status)
      PROVE  \A u \in Admitted' : CardInv(u)'
  BY <1>0, <1>5 DEF Finish, Scheduling, CardInv, Admitted
<1>6. ASSUME NEW t \in Tasks, NEW pr \in PullRequest, ObservePullRequest(t, pr)
      PROVE  \A u \in Admitted' : CardInv(u)'
  <2>1. PICK s \in Scheduling, p \in CardStates :
              /\ SchedulingEvent(t, s, p, NoWait)
              /\ s.reserved = sched[t].reserved
              /\ s.returnSent = sched[t].returnSent
              /\ sched[t].returnRequested => s.returnRequested
              /\ \/ s.landed /\ ~s.closed /\ ~s.areaHeld /\ ~s.capacityHeld
                 \/ ~s.landed /\ s.closed /\ ~s.areaHeld /\ ~s.capacityHeld
                 \/ /\ ~s.landed /\ ~s.closed
                    /\ s.areaHeld = sched[t].areaHeld
                    /\ s.capacityHeld = sched[t].capacityHeld
    BY <1>6, ObserveEffect
  <2>2. t \in Admitted /\ run[t] > 0 /\ ~active[t] /\ ~sched[t].landed /\ ~sched[t].closed
    BY <1>6, ObserveEffect
  <2>3. UNCHANGED <<def, run, active>> /\ sched' = [sched EXCEPT ![t] = s]
    BY <2>1 DEF SchedulingEvent
  <2> SUFFICES ASSUME NEW u \in Admitted PROVE CardInv(u)'
    BY <2>3 DEF Admitted
  <2>4. CASE u = t
    BY <1>0, <2>1, <2>2, <2>3, <2>4 DEF CardInv
  <2>5. CASE u # t
    BY <1>0, <2>3, <2>5 DEF CardInv
  <2> QED
    BY <2>4, <2>5
<1>7. ASSUME NEW t \in Tasks, Return(t) PROVE \A u \in Admitted' : CardInv(u)'
  <2>1. UNCHANGED <<def, run, active>> /\ t \in Admitted
    BY <1>7 DEF Return, ClaimReturn, ReturnWaits, ReturnDue, SchedulingEvent
  <2>2. \/ sched' = sched
        \/ /\ ReturnDue(t)
           /\ sched' = [sched EXCEPT ![t] = [sched[t] EXCEPT !.returnSent = TRUE,
                                                            !.capacityHeld = TRUE]]
    BY <1>7 DEF Return, ClaimReturn, ReturnWaits, SchedulingEvent
  <2> SUFFICES ASSUME NEW u \in Admitted PROVE CardInv(u)'
    BY <2>1 DEF Admitted
  <2>3. CASE sched'[u] = sched[u]
    BY <1>0, <2>1, <2>3 DEF CardInv
  <2>4. CASE u = t /\ ReturnDue(t)
             /\ sched'[t] = [sched[t] EXCEPT !.returnSent = TRUE, !.capacityHeld = TRUE]
    <3>1. sched[t] \in Scheduling
      OBVIOUS
    <3>2. /\ sched'[t].reserved = sched[t].reserved /\ sched'[t].areaHeld = sched[t].areaHeld
          /\ sched'[t].landed = sched[t].landed /\ sched'[t].closed = sched[t].closed
          /\ sched'[t].returnRequested = sched[t].returnRequested
          /\ sched'[t].capacityHeld /\ sched'[t].returnSent
      BY <2>4, <3>1 DEF Scheduling
    <3> QED
      BY <1>0, <2>1, <2>4, <3>2 DEF CardInv, ReturnDue
  <2> QED
    BY <2>2, <2>3, <2>4
<1>8. ASSUME NEW scope \in StopScopes, StopScheduled(scope)
      PROVE  \A u \in Admitted' : CardInv(u)'
  <2>1. UNCHANGED <<def, run, active>>
    BY <1>8 DEF StopScheduled
  <2> SUFFICES ASSUME NEW u \in Admitted PROVE CardInv(u)'
    BY <2>1 DEF Admitted
  <2>2. CASE u \in Stopping(scope)
    <3>1. sched[u] \in Scheduling
      OBVIOUS
    <3>2. /\ Stopped(sched[u]).reserved = sched[u].reserved
          /\ Stopped(sched[u]).areaHeld = (sched[u].areaHeld /\ sched[u].capacityHeld)
          /\ Stopped(sched[u]).capacityHeld = sched[u].capacityHeld
          /\ Stopped(sched[u]).landed = sched[u].landed /\ Stopped(sched[u]).closed
          /\ Stopped(sched[u]).returnRequested = sched[u].returnRequested
          /\ Stopped(sched[u]).returnSent = sched[u].returnSent
      BY <3>1 DEF Stopped, Scheduling
    <3>3. sched'[u] = Stopped(sched[u])
      BY <1>8, <2>2 DEF StopScheduled
    <3>4. ~sched[u].landed
      BY <2>2 DEF Stopping
    <3> QED
      BY <1>0, <2>1, <3>1, <3>2, <3>3, <3>4 DEF CardInv, Scheduling
  <2>3. CASE u \notin Stopping(scope)
    <3>1. sched'[u] = sched[u]
      BY <1>8, <2>3 DEF StopScheduled
    <3> QED
      BY <1>0, <2>1, <3>1 DEF CardInv
  <2> QED
    BY <2>2, <2>3
<1>9. ASSUME NEW t \in Tasks,
             WorkerInputNeeded(t) \/ WorkerInputAnswered(t) \/ UnknownExecution(t)
      PROVE  \A u \in Admitted' : CardInv(u)'
  BY <1>0, <1>9 DEF WorkerInputNeeded, WorkerInputAnswered, UnknownExecution,
                    SchedulingEvent, CardInv, Admitted
<1> QED
  BY <1>1, <1>2, <1>3, <1>4, <1>5, <1>6, <1>7, <1>8, <1>9 DEF Next

-----------------------------------------------------------------------------
(* Several cards. *)

(* Outside admission and release no step takes an area, and only the claim  *)
(* of a conflict return takes a slot.                                       *)
LEMMA QuietSteps ==
  ASSUME TypeOK, Next
  PROVE  \/ Admit
         \/ ReleaseAny
         \/ /\ def' = def
            /\ \A u \in Tasks : sched'[u].areaHeld => sched[u].areaHeld
            /\ \/ \A u \in Tasks : sched'[u].capacityHeld => sched[u].capacityHeld
               \/ \E t \in Tasks, slots \in [Hosts -> 0 .. MaxSlots],
                     blocked \in SUBSET Workers : ClaimReturn(t, slots, blocked)
<1> USE DEF TypeOK
<1> DEFINE Quiet == /\ def' = def
                    /\ \A u \in Tasks : /\ sched'[u].areaHeld => sched[u].areaHeld
                                        /\ sched'[u].capacityHeld => sched[u].capacityHeld
<1>1. ASSUME NEW t \in Tasks, StartFailed(t) PROVE Quiet
  BY <1>1 DEF StartFailed, SchedulingEvent, Scheduling
<1>2. ASSUME NEW t \in Tasks,
             Start(t) \/ WorkerInputNeeded(t) \/ WorkerInputAnswered(t) \/ UnknownExecution(t)
      PROVE Quiet
  BY <1>2 DEF Start, WorkerInputNeeded, WorkerInputAnswered, UnknownExecution, SchedulingEvent
<1>3. ASSUME NEW t \in Tasks, NEW status \in {"completed", "failed", "interrupted"},
             Finish(t, status)
      PROVE  Quiet
  BY <1>3 DEF Finish, Scheduling
<1>4. ASSUME NEW t \in Tasks, NEW pr \in PullRequest, ObservePullRequest(t, pr)
      PROVE  Quiet
  BY <1>4, ObserveEffect DEF SchedulingEvent
<1>5. ASSUME NEW t \in Tasks, NEW slots, NEW blocked, ReturnWaits(t, slots, blocked)
      PROVE  Quiet
  BY <1>5 DEF ReturnWaits, SchedulingEvent
<1>6. ASSUME NEW t \in Tasks, NEW slots, NEW blocked, ClaimReturn(t, slots, blocked)
      PROVE  def' = def /\ \A u \in Tasks : sched'[u].areaHeld => sched[u].areaHeld
  <2>1. [sched[t] EXCEPT !.returnSent = TRUE, !.capacityHeld = TRUE].areaHeld
          = sched[t].areaHeld
    BY DEF Scheduling
  <2> QED
    BY <1>6, <2>1 DEF ClaimReturn, SchedulingEvent
<1>7. ASSUME NEW scope \in StopScopes, StopScheduled(scope) PROVE Quiet
  <2>1. \A u \in Tasks : /\ Stopped(sched[u]).areaHeld => sched[u].areaHeld
                         /\ Stopped(sched[u]).capacityHeld = sched[u].capacityHeld
    BY DEF Stopped, Scheduling
  <2> QED
    BY <1>7, <2>1 DEF StopScheduled
<1> QED
  BY <1>1, <1>2, <1>3, <1>4, <1>5, <1>6, <1>7 DEF Next, Return

(* Operations other than admission touch admitted cards only. *)
LEMMA BlankStep ==
  ASSUME TypeOK, BlankUnlessAdmitted, Next
  PROVE  BlankUnlessAdmitted'
<1> USE DEF TypeOK
<1> SUFFICES ASSUME NEW u \in Tasks, u \notin Admitted'
             PROVE  /\ sched'[u] = NewScheduling /\ run'[u] = 0
                    /\ ~active'[u] /\ wait'[u] = NoWait
  BY DEF BlankUnlessAdmitted
<1>1. u \notin Admitted
  BY Monotone
<1>2. sched[u] = NewScheduling /\ run[u] = 0 /\ ~active[u] /\ wait[u] = NoWait
  BY <1>1 DEF BlankUnlessAdmitted
<1> SUFFICES sched'[u] = sched[u] /\ run'[u] = run[u] /\ active'[u] = active[u]
             /\ wait'[u] = wait[u]
  BY <1>2
<1>3. CASE Admit
  BY <1>3 DEF Admit, Schedule
<1>4. CASE ReleaseAny
  <2>1. PICK slots \in [Hosts -> 0 .. MaxSlots], blocked \in SUBSET Workers,
             R \in SUBSET Tasks : Release(R, slots, blocked)
    BY <1>4 DEF ReleaseAny
  <2>2. u \notin Candidates /\ u \notin R
    BY <1>1, <2>1 DEF Release, Released, Candidates
  <2> QED
    BY <2>1, <2>2 DEF Release
<1>5. ASSUME NEW t \in Tasks, StartFailed(t) \/ Start(t) \/ Return(t)
      PROVE  sched'[u] = sched[u] /\ run'[u] = run[u] /\ active'[u] = active[u]
             /\ wait'[u] = wait[u]
  BY <1>1, <1>5 DEF StartFailed, Start, Return, ClaimReturn, ReturnWaits, ReturnDue,
                    SchedulingEvent
<1>6. ASSUME NEW t \in Tasks, NEW status \in {"completed", "failed", "interrupted"},
             Finish(t, status)
      PROVE  sched'[u] = sched[u] /\ run'[u] = run[u] /\ active'[u] = active[u]
             /\ wait'[u] = wait[u]
  BY <1>2, <1>6 DEF Finish
<1>7. ASSUME NEW t \in Tasks, NEW pr \in PullRequest, ObservePullRequest(t, pr)
      PROVE  sched'[u] = sched[u] /\ run'[u] = run[u] /\ active'[u] = active[u]
             /\ wait'[u] = wait[u]
  BY <1>1, <1>7, ObserveEffect DEF SchedulingEvent
<1>8. ASSUME NEW t \in Tasks,
             WorkerInputNeeded(t) \/ WorkerInputAnswered(t) \/ UnknownExecution(t)
      PROVE  sched'[u] = sched[u] /\ run'[u] = run[u] /\ active'[u] = active[u]
             /\ wait'[u] = wait[u]
  BY <1>2, <1>8 DEF WorkerInputNeeded, WorkerInputAnswered, UnknownExecution, SchedulingEvent
<1>9. ASSUME NEW scope \in StopScopes, StopScheduled(scope)
      PROVE  sched'[u] = sched[u] /\ run'[u] = run[u] /\ active'[u] = active[u]
             /\ wait'[u] = wait[u]
  BY <1>1, <1>9 DEF StopScheduled, Stopping
<1> QED
  BY <1>3, <1>4, <1>5, <1>6, <1>7, <1>8, <1>9 DEF Next

(* A release never hands an area to a task that overlaps a holder: against  *)
(* earlier holders by the guard, inside one pass because the larger id sees *)
(* the smaller one's reservation.                                           *)
LEMMA AreaExclusionStep ==
  ASSUME TypeOK, BlankUnlessAdmitted, AreaExclusion, Next
  PROVE  AreaExclusion'
<1> USE DEF TypeOK
<1>1. CASE Admit
  <2>1. sched' = sched
    BY <1>1 DEF Admit, Schedule
  <2>2. \A t \in Admitted : t \in Admitted' /\ def'[t] = def[t]
    BY Monotone
  <2>3. \A t \in Admitted' : sched[t].areaHeld => t \in Admitted
    BY <1>1, TypeStep DEF BlankUnlessAdmitted, NewScheduling
  <2> QED
    BY <2>1, <2>2, <2>3 DEF AreaExclusion, Excludes
<1>2. CASE ReleaseAny
  <2>1. PICK slots \in [Hosts -> 0 .. MaxSlots], blocked \in SUBSET Workers,
             R \in SUBSET Tasks : Release(R, slots, blocked)
    BY <1>2 DEF ReleaseAny
  <2>2. def' = def
    BY <2>1 DEF Release
  <2>3. \A t \in Tasks : sched'[t].areaHeld => sched[t].areaHeld \/ t \in R
    BY <2>1 DEF Release
  <2>4. \A t \in R : t \in Candidates /\ Blockers(R, t) = {}
    BY <2>1 DEF Release, Released, Releasable
  <2>5. \A t, u \in Admitted :
          t \in R /\ u # t /\ (sched[u].areaHeld \/ (u \in R /\ u < t))
            => ~Excludes(def[t], def[u])
    BY <2>4 DEF Blockers, AreaHolders, Earlier
  <2>6. \A t, u \in Tasks : t # u => t < u \/ u < t
    BY TasksAssumption
  <2>7. \A d, e : Excludes(d, e) => Excludes(e, d)
    BY DEF Excludes, Overlap
  <2> SUFFICES ASSUME NEW t \in Admitted, NEW u \in Admitted, t # u,
                      sched'[t].areaHeld, sched'[u].areaHeld
               PROVE  ~Excludes(def[t], def[u])
    BY <2>2 DEF AreaExclusion, Admitted, Excludes
  <2> QED
    BY <2>3, <2>5, <2>6, <2>7 DEF AreaExclusion
<1>3. CASE /\ def' = def
           /\ \A u \in Tasks : sched'[u].areaHeld => sched[u].areaHeld
  BY <1>3 DEF AreaExclusion, Admitted, Excludes
<1> QED
  BY <1>1, <1>2, <1>3, QuietSteps

(* The slots of a host are bounded.  The last task a pass releases on a host *)
(* was let in while the slots in use, its predecessors of the pass among     *)
(* them, were fewer than the host reported.                                  *)
LEMMA HostCapacityStep ==
  ASSUME TypeOK, BlankUnlessAdmitted, HostCapacity, Next
  PROVE  HostCapacity'
<1> USE DEF TypeOK
<1> SUFFICES ASSUME NEW h \in Hosts PROVE Cardinality(Occupants(h)') <= MaxSlots
  BY DEF HostCapacity
<1>0. /\ IsFiniteSet(Occupants(h)) /\ Cardinality(Occupants(h)) \in Nat
      /\ Cardinality(Occupants(h)) <= MaxSlots /\ MaxSlots \in Nat
      /\ Occupants(h) \subseteq Tasks
  <2>1. Occupants(h) \subseteq Tasks
    BY DEF Occupants
  <2> QED
    BY <2>1, TasksAssumption, SlotsAssumption, FS_Subset, FS_CardinalityType DEF HostCapacity
<1>1. ASSUME Occupants(h)' \subseteq Occupants(h)
      PROVE  Cardinality(Occupants(h)') <= MaxSlots
  <2>1. Cardinality(Occupants(h)') <= Cardinality(Occupants(h))
    BY <1>0, <1>1, FS_Subset
  <2>2. Cardinality(Occupants(h)') \in Nat
    BY <1>0, <1>1, FS_Subset, FS_CardinalityType
  <2> QED
    BY <1>0, <2>1, <2>2
<1>2. CASE Admit
  <2>1. sched' = sched
    BY <1>2 DEF Admit, Schedule
  <2>2. \A t \in Admitted : def'[t] = def[t]
    BY Monotone
  <2>3. \A t \in Admitted' : sched[t].capacityHeld => t \in Admitted
    BY <1>2, TypeStep DEF BlankUnlessAdmitted, NewScheduling
  <2> QED
    BY <1>1, <2>1, <2>2, <2>3 DEF Occupants
<1>3. CASE ReleaseAny
  <2>1. PICK slots \in [Hosts -> 0 .. MaxSlots], blocked \in SUBSET Workers,
             R \in SUBSET Tasks : Release(R, slots, blocked)
    BY <1>3 DEF ReleaseAny
  <2> DEFINE Rh == {r \in R : def[r].host = h}
  <2>2. R \subseteq Candidates
    BY <2>1 DEF Release, Released
  <2>3. Occupants(h)' = Occupants(h) \cup Rh
    <3>1. \A t \in Tasks : sched'[t].capacityHeld <=> sched[t].capacityHeld \/ t \in R
      BY <2>1 DEF Release, Reserve, Scheduling
    <3>2. def' = def
      BY <2>1 DEF Release
    <3> QED
      BY <2>2, <3>1, <3>2 DEF Occupants, Admitted, Candidates
  <2>4. CASE Rh = {}
    BY <1>1, <2>3, <2>4
  <2>5. CASE Rh # {}
    <3>1. Rh \in SUBSET Nat /\ IsFiniteSet(Rh)
      BY TasksAssumption, FS_Subset
    <3>2. PICK m \in Rh : \A r \in Rh : r <= m
      BY <2>5, <3>1, GreatestExists
    <3>3. /\ def[m].host = h
          /\ Cardinality(Used(R, m)) < slots[h]
      BY <2>1, <2>2, <3>2 DEF Release, Released, Releasable
    <3>4. Used(R, m) \subseteq Tasks
      BY <1>0, <3>3 DEF Used, Earlier
    <3>5. IsFiniteSet(Used(R, m)) /\ Cardinality(Used(R, m)) \in Nat
      BY <3>4, TasksAssumption, FS_Subset, FS_CardinalityType
    <3>6. Occupants(h)' = Used(R, m) \cup {m}
      <4>1. \A r \in Rh : r = m \/ r < m
        BY <3>1, <3>2
      <4> QED
        BY <2>3, <3>2, <3>3, <4>1 DEF Used, Earlier
    <3>7. Cardinality(Occupants(h)') <= Cardinality(Used(R, m)) + 1
      <4>1. Cardinality(Used(R, m) \cup {m})
              = IF m \in Used(R, m) THEN Cardinality(Used(R, m))
                ELSE Cardinality(Used(R, m)) + 1
        BY <3>5, FS_AddElement
      <4> QED
        BY <3>5, <3>6, <4>1
    <3>8. slots[h] \in 0 .. MaxSlots
      OBVIOUS
    <3>9. Cardinality(Occupants(h)') \in Nat
      BY <3>5, <3>6, FS_AddElement, FS_CardinalityType
    <3> QED
      BY <1>0, <3>3, <3>5, <3>7, <3>8, <3>9
  <2> QED
    BY <2>4, <2>5
<1>4. ASSUME NEW t \in Tasks, NEW slots \in [Hosts -> 0 .. MaxSlots],
             NEW blocked \in SUBSET Workers, ClaimReturn(t, slots, blocked)
      PROVE  Cardinality(Occupants(h)') <= MaxSlots
  <2>1. def' = def /\ t \in Admitted
    BY <1>4 DEF ClaimReturn, ReturnDue, SchedulingEvent
  <2>2. \A u \in Tasks : sched'[u].capacityHeld <=> sched[u].capacityHeld \/ u = t
    <3>1. [sched[t] EXCEPT !.returnSent = TRUE, !.capacityHeld = TRUE].capacityHeld
      BY DEF Scheduling
    <3> QED
      BY <1>4, <3>1 DEF ClaimReturn, SchedulingEvent
  <2>3. CASE def[t].host # h
    BY <1>1, <2>1, <2>2, <2>3 DEF Occupants, Admitted
  <2>4. CASE def[t].host = h
    <3>1. Occupants(h)' = Occupants(h) \cup {t}
      BY <2>1, <2>2, <2>4 DEF Occupants, Admitted
    <3>2. ~(Cardinality(Occupants(h)) >= slots[h])
      BY <1>4, <2>4 DEF ClaimReturn, ReturnReason, NoWait
    <3>3. slots[h] \in 0 .. MaxSlots
      OBVIOUS
    <3>4. Cardinality(Occupants(h)') <= Cardinality(Occupants(h)) + 1
      <4>1. Cardinality(Occupants(h) \cup {t})
              = IF t \in Occupants(h) THEN Cardinality(Occupants(h))
                ELSE Cardinality(Occupants(h)) + 1
        BY <1>0, FS_AddElement
      <4> QED
        BY <1>0, <3>1, <4>1
    <3>5. Cardinality(Occupants(h)') \in Nat
      BY <1>0, <3>1, FS_AddElement, FS_CardinalityType
    <3> QED
      BY <1>0, <3>2, <3>3, <3>4, <3>5
  <2> QED
    BY <2>3, <2>4
<1>5. CASE /\ def' = def
           /\ \A u \in Tasks : sched'[u].capacityHeld => sched[u].capacityHeld
  BY <1>1, <1>5 DEF Occupants, Admitted
<1> QED
  BY <1>2, <1>3, <1>4, <1>5, QuietSteps

(* Each start uses up a claim and each claim is made once. *)
LEMMA OneClaimStep ==
  ASSUME TypeOK, BlankUnlessAdmitted, \A t \in Admitted : CardInv(t), OneClaimPerRun, Next
  PROVE  OneClaimPerRun'
<1> USE DEF TypeOK
<1> DEFINE Claims(t) == (IF sched[t].reserved THEN 1 ELSE 0)
                        + (IF sched[t].returnSent THEN 1 ELSE 0)
           Open(t) == IF sched[t].capacityHeld /\ ~active[t] THEN 1 ELSE 0
<1>0. \A t \in Tasks : run[t] + Open(t) <= Claims(t)
  BY DEF OneClaimPerRun
<1> SUFFICES ASSUME NEW u \in Tasks PROVE run'[u] + Open(u)' <= Claims(u)'
  BY DEF OneClaimPerRun
<1>1. ASSUME run'[u] = run[u], active'[u] = active[u], sched'[u].reserved = sched[u].reserved,
             sched'[u].returnSent = sched[u].returnSent,
             sched'[u].capacityHeld => sched[u].capacityHeld
      PROVE  run'[u] + Open(u)' <= Claims(u)'
  BY <1>0, <1>1
<1>2. CASE Admit
  BY <1>0, <1>2 DEF Admit, Schedule
<1>3. CASE ReleaseAny
  <2>1. PICK slots \in [Hosts -> 0 .. MaxSlots], blocked \in SUBSET Workers,
             R \in SUBSET Tasks : Release(R, slots, blocked)
    BY <1>3 DEF ReleaseAny
  <2>2. UNCHANGED <<run, active>> /\ R \subseteq Candidates
    BY <2>1 DEF Release, Released
  <2>3. CASE u \notin R
    BY <1>1, <2>1, <2>2, <2>3 DEF Release
  <2>4. CASE u \in R
    <3>1. u \in Admitted /\ ~sched[u].reserved
      BY <2>2, <2>4 DEF Candidates
    <3>2. run[u] = 0
      BY <3>1 DEF CardInv
    <3>3. sched'[u].reserved
      BY <2>1, <2>4 DEF Release, Reserve, Scheduling
    <3> QED
      BY <2>2, <3>2, <3>3
  <2> QED
    BY <2>3, <2>4
<1>4. ASSUME NEW t \in Tasks, StartFailed(t) PROVE run'[u] + Open(u)' <= Claims(u)'
  <2>1. UNCHANGED <<run, active>>
    BY <1>4 DEF StartFailed, SchedulingEvent
  <2>2. /\ sched'[u].reserved = sched[u].reserved /\ sched'[u].returnSent = sched[u].returnSent
        /\ sched'[u].capacityHeld => sched[u].capacityHeld
    BY <1>4 DEF StartFailed, SchedulingEvent, Scheduling
  <2> QED
    BY <1>1, <2>1, <2>2
<1>5. ASSUME NEW t \in Tasks, Start(t) PROVE run'[u] + Open(u)' <= Claims(u)'
  <2>1. CASE u = t
    BY <1>0, <1>5, <2>1 DEF Start
  <2>2. CASE u # t
    BY <1>0, <1>5, <2>2 DEF Start
  <2> QED
    BY <2>1, <2>2
<1>6. ASSUME NEW t \in Tasks, NEW status \in {"completed", "failed", "interrupted"},
             Finish(t, status)
      PROVE  run'[u] + Open(u)' <= Claims(u)'
  <2>1. CASE u = t
    <3>1. /\ sched'[u].reserved = sched[u].reserved
          /\ sched'[u].returnSent = sched[u].returnSent
          /\ ~sched'[u].capacityHeld /\ run'[u] = run[u]
      BY <1>6, <2>1 DEF Finish, Scheduling
    <3> QED
      BY <1>0, <3>1
  <2>2. CASE u # t
    BY <1>0, <1>6, <2>2 DEF Finish
  <2> QED
    BY <2>1, <2>2
<1>7. ASSUME NEW t \in Tasks, NEW pr \in PullRequest, ObservePullRequest(t, pr)
      PROVE  run'[u] + Open(u)' <= Claims(u)'
  <2>1. PICK s \in Scheduling, p \in CardStates :
              /\ SchedulingEvent(t, s, p, NoWait)
              /\ s.reserved = sched[t].reserved /\ s.returnSent = sched[t].returnSent
              /\ s.capacityHeld => sched[t].capacityHeld
    BY <1>7, ObserveEffect
  <2> QED
    BY <1>1, <2>1 DEF SchedulingEvent
<1>8. ASSUME NEW t \in Tasks, Return(t) PROVE run'[u] + Open(u)' <= Claims(u)'
  <2>1. PICK slots \in [Hosts -> 0 .. MaxSlots], blocked \in SUBSET Workers :
               ClaimReturn(t, slots, blocked) \/ ReturnWaits(t, slots, blocked)
    BY <1>8 DEF Return
  <2>2. CASE ReturnWaits(t, slots, blocked)
    BY <1>1, <2>2 DEF ReturnWaits, SchedulingEvent
  <2>3. CASE ClaimReturn(t, slots, blocked) /\ u = t
    <3>1. /\ UNCHANGED <<run, active>> /\ ~sched[u].returnSent /\ u \in Admitted
          /\ ~active[u] /\ ~sched[u].landed /\ ~sched[u].closed
      BY <2>3 DEF ClaimReturn, ReturnDue, SchedulingEvent
    <3>2. /\ sched'[u].reserved = sched[u].reserved /\ sched'[u].returnSent
      BY <2>3 DEF ClaimReturn, SchedulingEvent, Scheduling
    <3> QED
      BY <1>0, <3>1, <3>2
  <2>4. CASE ClaimReturn(t, slots, blocked) /\ u # t
    BY <1>1, <2>4 DEF ClaimReturn, SchedulingEvent
  <2> QED
    BY <2>1, <2>2, <2>3, <2>4
<1>9. ASSUME NEW t \in Tasks,
             WorkerInputNeeded(t) \/ WorkerInputAnswered(t) \/ UnknownExecution(t)
      PROVE  run'[u] + Open(u)' <= Claims(u)'
  BY <1>1, <1>9 DEF WorkerInputNeeded, WorkerInputAnswered, UnknownExecution, SchedulingEvent
<1>10. ASSUME NEW scope \in StopScopes, StopScheduled(scope)
       PROVE  run'[u] + Open(u)' <= Claims(u)'
  <2>1. /\ Stopped(sched[u]).reserved = sched[u].reserved
        /\ Stopped(sched[u]).returnSent = sched[u].returnSent
        /\ Stopped(sched[u]).capacityHeld = sched[u].capacityHeld
    BY DEF Stopped, Scheduling
  <2> QED
    BY <1>1, <1>10, <2>1 DEF StopScheduled
<1> QED
  BY <1>2, <1>3, <1>4, <1>5, <1>6, <1>7, <1>8, <1>9, <1>10 DEF Next

(* The last section of a stop: the area of a closed card follows its slot. *)
LEMMA ClosedStep ==
  ASSUME TypeOK, BlankUnlessAdmitted, \A t \in Admitted : CardInv(t),
         ClosedHoldsWhileUnsettled, Next
  PROVE  ClosedHoldsWhileUnsettled'
<1> USE DEF TypeOK
<1> DEFINE Settles(u) == sched[u].closed => /\ sched[u].areaHeld = sched[u].capacityHeld
                                            /\ state[u] = "stopped" => ~sched[u].capacityHeld
<1>0. \A u \in Tasks : Settles(u)
  BY DEF ClosedHoldsWhileUnsettled
<1> SUFFICES ASSUME NEW u \in Tasks PROVE Settles(u)'
  BY DEF ClosedHoldsWhileUnsettled
<1>1. ASSUME NEW t \in Tasks, NEW s \in Scheduling, NEW p, NEW w,
             SchedulingEvent(t, s, p, w), s.closed => s.areaHeld = s.capacityHeld
      PROVE  Settles(u)'
  <2>1. CASE u = t
    <3>1. sched'[u] = s /\ state'[u] = Shown(s, p)
      BY <1>1, <2>1 DEF SchedulingEvent
    <3>2. s.closed /\ s.capacityHeld => Shown(s, p) # "stopped"
      BY DEF Shown
    <3> QED
      BY <1>1, <3>1, <3>2
  <2>2. CASE u # t
    BY <1>0, <1>1, <2>2 DEF SchedulingEvent
  <2> QED
    BY <2>1, <2>2
<1>2. CASE Admit
  BY <1>0, <1>2 DEF Admit, Schedule
<1>3. CASE ReleaseAny
  <2>1. PICK slots \in [Hosts -> 0 .. MaxSlots], blocked \in SUBSET Workers,
             R \in SUBSET Tasks : Release(R, slots, blocked)
    BY <1>3 DEF ReleaseAny
  <2>2. R \subseteq Candidates
    BY <2>1 DEF Release, Released
  <2>3. CASE u \in Candidates
    <3>1. ~Reserve(sched[u]).closed /\ ~sched[u].closed
      BY <2>3 DEF Candidates, Reserve, Scheduling
    <3> QED
      BY <2>1, <3>1 DEF Release
  <2>4. CASE u \notin Candidates
    BY <1>0, <2>1, <2>2, <2>4 DEF Release
  <2> QED
    BY <2>3, <2>4
<1>4. ASSUME NEW t \in Tasks, StartFailed(t) PROVE Settles(u)'
  <2> DEFINE s == [sched[t] EXCEPT !.capacityHeld = FALSE, !.areaHeld = FALSE]
  <2>1. s \in Scheduling
    BY DEF Scheduling
  <2>2. s.areaHeld = s.capacityHeld
    BY DEF Scheduling
  <2> QED
    BY <1>1, <1>4, <2>1, <2>2 DEF StartFailed
<1>5. ASSUME NEW t \in Tasks, Start(t) PROVE Settles(u)'
  <2>1. CASE u = t
    BY <1>5, <2>1 DEF Start
  <2>2. CASE u # t
    BY <1>0, <1>5, <2>2 DEF Start
  <2> QED
    BY <2>1, <2>2
<1>6. ASSUME NEW t \in Tasks, NEW status \in {"completed", "failed", "interrupted"},
             Finish(t, status)
      PROVE  Settles(u)'
  <2>1. CASE u = t
    <3>1. /\ sched'[u].closed = sched[u].closed /\ ~sched'[u].capacityHeld
          /\ sched'[u].closed => ~sched'[u].areaHeld
      BY <1>6, <2>1 DEF Finish, Scheduling
    <3>2. sched'[u].areaHeld \in BOOLEAN /\ sched'[u].capacityHeld \in BOOLEAN
      BY <1>6, <2>1 DEF Finish, Scheduling
    <3> QED
      BY <3>1, <3>2
  <2>2. CASE u # t
    BY <1>0, <1>6, <2>2 DEF Finish
  <2> QED
    BY <2>1, <2>2
<1>7. ASSUME NEW t \in Tasks, NEW pr \in PullRequest, ObservePullRequest(t, pr)
      PROVE  Settles(u)'
  <2>1. PICK s \in Scheduling, p \in CardStates :
              /\ SchedulingEvent(t, s, p, NoWait)
              /\ s.closed => ~s.areaHeld /\ ~s.capacityHeld
    BY <1>7, ObserveEffect
  <2>2. s.areaHeld \in BOOLEAN /\ s.capacityHeld \in BOOLEAN
    BY DEF Scheduling
  <2> QED
    BY <1>1, <2>1, <2>2
<1>8. ASSUME NEW t \in Tasks, Return(t) PROVE Settles(u)'
  <2>1. PICK slots \in [Hosts -> 0 .. MaxSlots], blocked \in SUBSET Workers :
               ClaimReturn(t, slots, blocked) \/ ReturnWaits(t, slots, blocked)
    BY <1>8 DEF Return
  <2> DEFINE s == [sched[t] EXCEPT !.returnSent = TRUE, !.capacityHeld = TRUE]
  <2>2. ~sched[t].closed
    BY <2>1 DEF ClaimReturn, ReturnWaits, ReturnDue
  <2>3. s \in Scheduling /\ ~s.closed
    BY <2>2 DEF Scheduling
  <2>4. CASE ClaimReturn(t, slots, blocked)
    BY <1>1, <2>3, <2>4 DEF ClaimReturn
  <2>5. CASE ReturnWaits(t, slots, blocked)
    BY <1>1, <2>2, <2>5 DEF ReturnWaits
  <2> QED
    BY <2>1, <2>4, <2>5
<1>9. ASSUME NEW t \in Tasks, WorkerInputNeeded(t) \/ WorkerInputAnswered(t)
      PROVE  Settles(u)'
  BY <1>0, <1>1, <1>9 DEF WorkerInputNeeded, WorkerInputAnswered
<1>10. ASSUME NEW t \in Tasks, UnknownExecution(t) PROVE Settles(u)'
  <2>1. CASE u = t
    BY <1>0, <1>10, <2>1 DEF UnknownExecution
  <2>2. CASE u # t
    BY <1>0, <1>10, <2>2 DEF UnknownExecution
  <2> QED
    BY <2>1, <2>2
<1>11. ASSUME NEW scope \in StopScopes, StopScheduled(scope) PROVE Settles(u)'
  <2>1. CASE u \in Stopping(scope)
    <3> DEFINE s == Stopped(sched[u])
    <3>1. sched'[u] = s /\ state'[u] = Shown(s, state[u])
      BY <1>11, <2>1 DEF StopScheduled
    <3>2. s.areaHeld = (sched[u].areaHeld /\ sched[u].capacityHeld)
          /\ s.capacityHeld = sched[u].capacityHeld /\ s.closed
      BY DEF Stopped, Scheduling
    <3>3. sched[u].capacityHeld => sched[u].areaHeld
      BY <2>1 DEF Stopping, CardInv
    <3>4. sched[u].areaHeld \in BOOLEAN /\ sched[u].capacityHeld \in BOOLEAN
      BY DEF Scheduling
    <3>5. s.capacityHeld => Shown(s, state[u]) # "stopped"
      BY <3>2 DEF Shown
    <3> QED
      BY <3>1, <3>2, <3>3, <3>4, <3>5
  <2>2. CASE u \notin Stopping(scope)
    BY <1>0, <1>11, <2>2 DEF StopScheduled
  <2> QED
    BY <2>1, <2>2
<1> QED
  BY <1>2, <1>3, <1>4, <1>5, <1>6, <1>7, <1>8, <1>9, <1>10, <1>11 DEF Next

-----------------------------------------------------------------------------
(* The admitted graph and the waits. *)

LEMMA GraphStep ==
  ASSUME TypeOK, ValidGraph(def), Next
  PROVE  ValidGraph(def')
<1>1. CASE Admit
  BY <1>1 DEF Admit, Schedule
<1>2. CASE ReleaseAny
  BY <1>2 DEF ReleaseAny, Release
<1> QED
  BY <1>1, <1>2, QuietSteps

(* Only a release makes a task wait on an area, and it does so when every   *)
(* dependency of the task has landed.                                       *)
LEMMA NewAreaWait ==
  ASSUME TypeOK, Next, NEW t \in Tasks, NEW u \in Tasks, wait'[t] = <<"area", u>>
  PROVE  \/ wait[t] = <<"area", u>>
         \/ /\ ReleaseAny
            /\ t \in Candidates /\ Unlanded(t) = {}
            /\ \E R \in SUBSET Candidates :
                  /\ \A r \in R : Unlanded(r) = {}
                  /\ u \in Blockers(R, t)
<1> USE DEF TypeOK
<1>1. CASE ReleaseAny
  <2>1. PICK slots \in [Hosts -> 0 .. MaxSlots], blocked \in SUBSET Workers,
             R \in SUBSET Tasks : Release(R, slots, blocked)
    BY <1>1 DEF ReleaseAny
  <2>2. R \subseteq Candidates /\ \A r \in R : Unlanded(r) = {}
    BY <2>1 DEF Release, Released, Releasable
  <2>3. CASE t \in R \/ t \notin Candidates
    BY <2>1, <2>3 DEF Release, NoWait
  <2>4. CASE t \in Candidates /\ t \notin R
    <3>1. Reason(t, R, slots, blocked) = <<"area", u>>
      BY <2>1, <2>4 DEF Release
    <3>2. Unlanded(t) = {} /\ Blockers(R, t) # {} /\ u = First(Blockers(R, t))
      BY <3>1 DEF Reason, NoWait
    <3>3. Blockers(R, t) \in SUBSET Tasks
      BY <2>2 DEF Blockers, AreaHolders, Earlier
    <3>4. u \in Blockers(R, t)
      BY <3>2, <3>3, FirstIsMember
    <3> QED
      BY <1>1, <2>2, <2>4, <3>2, <3>4
  <2> QED
    BY <2>3, <2>4
<1>2. CASE Admit
  BY <1>2 DEF Admit, Schedule
<1>3. ASSUME NEW o \in Tasks, NEW s, NEW p, SchedulingEvent(o, s, p, NoWait)
      PROVE  wait[t] = <<"area", u>>
  BY <1>3 DEF SchedulingEvent, NoWait
<1>4. ASSUME NEW o \in Tasks, NEW status \in {"completed", "failed", "interrupted"},
             Finish(o, status) \/ Start(o) \/ UnknownExecution(o)
      PROVE  wait[t] = <<"area", u>>
  BY <1>4 DEF Finish, Start, UnknownExecution
<1>5. ASSUME NEW o \in Tasks, NEW pr \in PullRequest, ObservePullRequest(o, pr)
      PROVE  wait[t] = <<"area", u>>
  BY <1>3, <1>5, ObserveEffect
<1>6. ASSUME NEW o \in Tasks, StartFailed(o) \/ WorkerInputNeeded(o) \/ WorkerInputAnswered(o)
      PROVE  wait[t] = <<"area", u>>
  BY <1>3, <1>6 DEF StartFailed, WorkerInputNeeded, WorkerInputAnswered
<1>7. ASSUME NEW o \in Tasks, Return(o) PROVE wait[t] = <<"area", u>>
  <2>1. PICK slots, blocked : ClaimReturn(o, slots, blocked) \/ ReturnWaits(o, slots, blocked)
    BY <1>7 DEF Return
  <2>2. ReturnReason(o, slots, blocked) # <<"area", u>>
    BY DEF ReturnReason, NoWait
  <2>3. CASE ClaimReturn(o, slots, blocked)
    BY <1>3, <2>3 DEF ClaimReturn
  <2>4. CASE ReturnWaits(o, slots, blocked)
    BY <2>2, <2>4 DEF ReturnWaits, SchedulingEvent
  <2> QED
    BY <2>1, <2>3, <2>4
<1>8. ASSUME NEW scope \in StopScopes, StopScheduled(scope) PROVE wait[t] = <<"area", u>>
  BY <1>8 DEF StopScheduled, NoWait
<1> QED
  BY <1>1, <1>2, <1>4, <1>5, <1>6, <1>7, <1>8 DEF Next

LEMMA AreaWaitsAdmittedStep ==
  ASSUME TypeOK, AreaWaitsAdmitted, Next
  PROVE  AreaWaitsAdmitted'
<1> SUFFICES ASSUME NEW t \in Tasks, NEW u \in Tasks, wait'[t] = <<"area", u>>
             PROVE  t \in Admitted' /\ u \in Admitted'
  BY DEF AreaWaitsAdmitted
<1>1. t \in Admitted /\ u \in Admitted
  BY NewAreaWait DEF AreaWaitsAdmitted, Candidates, Blockers, AreaHolders, Earlier
<1> QED
  BY <1>1, Monotone

(* A holder of the same graph is an ancestor or a descendant.  Landed tasks *)
(* are closed under dependencies, so the ancestors of a task whose          *)
(* dependencies have landed have landed too: neither the waiting task nor   *)
(* the holder can be the ancestor of the other.                             *)
LEMMA AreaWaitsForeignStep ==
  ASSUME TypeOK, ValidGraph(def), \A t \in Admitted : CardInv(t),
         AreaWaitsAdmitted, AreaWaitsAreForeign, Next
  PROVE  AreaWaitsAreForeign'
<1> USE DEF TypeOK
<1> DEFINE Landed == {d \in Admitted : sched[d].landed}
<1>1. \A s \in Admitted : def[s].deps \subseteq Admitted
  BY DEF ValidGraph, Admitted
<1>2. \A s \in Admitted : Unlanded(s) = {} => def[s].deps \subseteq Landed
  BY <1>1 DEF Unlanded
<1>3. \A s \in Landed : def[s].deps \subseteq Landed
  BY <1>2 DEF CardInv
<1>4. \A s \in Admitted : Unlanded(s) = {} => Ancestors(def, s) \subseteq Landed
  BY <1>2, <1>3 DEF Ancestors, Admitted
<1> SUFFICES ASSUME NEW t \in Admitted', NEW u \in Admitted', wait'[t] = <<"area", u>>
             PROVE  def'[t].group # def'[u].group
  BY DEF AreaWaitsAreForeign
<1>5. t \in Tasks /\ u \in Tasks
  BY TypeStep
<1>6. CASE wait[t] = <<"area", u>>
  <2>1. t \in Admitted /\ u \in Admitted
    BY <1>5, <1>6 DEF AreaWaitsAdmitted
  <2> QED
    BY <1>6, <2>1, Monotone DEF AreaWaitsAreForeign
<1>7. ASSUME t \in Candidates, Unlanded(t) = {},
             NEW R \in SUBSET Candidates, \A r \in R : Unlanded(r) = {},
             u \in Blockers(R, t)
      PROVE  def'[t].group # def'[u].group
  <2>1. /\ t \in Admitted /\ u \in Admitted /\ t # u /\ Excludes(def[t], def[u])
        /\ def'[t] = def[t] /\ def'[u] = def[u]
    BY <1>7, Monotone DEF Candidates, Blockers, AreaHolders, Earlier
  <2>2. ~sched[t].landed
    BY <1>7 DEF Candidates
  <2>3. ~sched[u].landed /\ Unlanded(u) = {}
    <3>1. CASE u \in R
      BY <1>7, <3>1 DEF Candidates
    <3>2. CASE sched[u].areaHeld
      BY <2>1, <3>2 DEF CardInv
    <3> QED
      BY <1>7, <3>1, <3>2 DEF Blockers, AreaHolders, Earlier
  <2>4. t \notin Ancestors(def, u) /\ u \notin Ancestors(def, t)
    BY <1>4, <1>7, <2>1, <2>2, <2>3
  <2> QED
    BY <2>1, <2>4 DEF ValidGraph, Admitted
<1> QED
  BY <1>5, <1>6, <1>7, NewAreaWait

-----------------------------------------------------------------------------
(* The theorems. *)

LEMMA InvInit == Init => ReservationInv
<1> SUFFICES ASSUME Init PROVE ReservationInv
  OBVIOUS
<1>1. Admitted = {}
  BY DEF Init, Admitted
<1>2. \A h \in Hosts : Occupants(h) = {}
  BY <1>1 DEF Occupants
<1>3. HostCapacity
  BY <1>2, FS_EmptySet, SlotsAssumption DEF HostCapacity
<1>4. ValidGraph(def)
  BY <1>1 DEF ValidGraph, Admitted
<1>5. OneClaimPerRun
  BY DEF Init, OneClaimPerRun, NewScheduling
<1>6. AreaWaitsAdmitted
  BY DEF Init, AreaWaitsAdmitted, NoWait
<1> QED
  BY <1>1, <1>3, <1>4, <1>5, <1>6, TypeInit
  DEF Init, ReservationInv, BlankUnlessAdmitted, AreaExclusion, AreaWaitsAreForeign,
      ClosedHoldsWhileUnsettled, NewScheduling

LEMMA InvStep == ReservationInv /\ [Next]_vars => ReservationInv'
<1> SUFFICES ASSUME ReservationInv, [Next]_vars PROVE ReservationInv'
  OBVIOUS
<1>1. CASE Next
  BY <1>1, TypeStep, GraphStep, BlankStep, CardStep, AreaExclusionStep, HostCapacityStep,
     OneClaimStep, AreaWaitsAdmittedStep, AreaWaitsForeignStep, ClosedStep
  DEF ReservationInv
<1>2. CASE UNCHANGED vars
  BY <1>2 DEF vars, ReservationInv, TypeOK, ValidGraph, BlankUnlessAdmitted, CardInv, Unlanded,
     AreaExclusion, Excludes, HostCapacity, Occupants, OneClaimPerRun, AreaWaitsAdmitted,
     AreaWaitsAreForeign, ClosedHoldsWhileUnsettled, Admitted
<1> QED
  BY <1>1, <1>2

(* ReservationInv: the cards, the admitted graph and the exclusions between  *)
(* cards are consistent in every state of every execution.                  *)
THEOREM Reservations == Spec => []ReservationInv
BY InvInit, InvStep, PTL DEF Spec

(* TypeOK: every card keeps the shape of the Card type. *)
THEOREM Types == Spec => []TypeOK
<1>1. ReservationInv => TypeOK
  BY DEF ReservationInv
<1> QED
  BY <1>1, Reservations, PTL

(* AreaExclusion: tasks with overlapping write areas never hold them        *)
(* together.                                                                *)
THEOREM Exclusion == Spec => []AreaExclusion
<1>1. ReservationInv => AreaExclusion
  BY DEF ReservationInv
<1> QED
  BY <1>1, Reservations, PTL

(* HostCapacity: starts and conflict returns together never take more slots *)
(* of a host than it has reported at most.                                  *)
THEOREM Capacity == Spec => []HostCapacity
<1>1. ReservationInv => HostCapacity
  BY DEF ReservationInv
<1> QED
  BY <1>1, Reservations, PTL

(* RunsUnderLease: a running turn holds its area and slot and its           *)
(* dependencies have landed.                                                *)
THEOREM Leased == Spec => []RunsUnderLease
<1>1. ReservationInv => RunsUnderLease
  BY DEF ReservationInv, TypeOK, BlankUnlessAdmitted, CardInv, RunsUnderLease
<1> QED
  BY <1>1, Reservations, PTL

(* OneClaimPerRun: every recorded turn was bought by its own claim, so a    *)
(* task never runs a third time and an unanswered claim is never repeated.  *)
THEOREM Claimed == Spec => []OneClaimPerRun
<1>1. ReservationInv => OneClaimPerRun
  BY DEF ReservationInv
<1> QED
  BY <1>1, Reservations, PTL

(* AreaWaitsAreForeign: a wait on an area is a wait on another graph. *)
THEOREM Foreign == Spec => []AreaWaitsAreForeign
<1>1. ReservationInv => AreaWaitsAreForeign
  BY DEF ReservationInv
<1> QED
  BY <1>1, Reservations, PTL

(* ClosedHoldsWhileUnsettled: a closed card keeps its area exactly while    *)
(* its slot is held.                                                        *)
THEOREM Closed == Spec => []ClosedHoldsWhileUnsettled
<1>1. ReservationInv => ClosedHoldsWhileUnsettled
  BY DEF ReservationInv
<1> QED
  BY <1>1, Reservations, PTL

(* LandedIsFinal: a landed task holds nothing, runs nothing and landed      *)
(* after everything it depends on.                                          *)
THEOREM Final == Spec => []LandedIsFinal
<1>1. ReservationInv => LandedIsFinal
  <2> SUFFICES ASSUME ReservationInv, NEW t \in Tasks, sched[t].landed
               PROVE  /\ ~sched[t].areaHeld /\ ~sched[t].capacityHeld /\ ~active[t]
                      /\ ~sched[t].closed /\ Unlanded(t) = {}
    BY DEF LandedIsFinal
  <2>1. t \in Admitted
    BY DEF ReservationInv, BlankUnlessAdmitted, NewScheduling
  <2> QED
    BY <2>1 DEF ReservationInv, CardInv
<1> QED
  BY <1>1, Reservations, PTL

(* LeaseEndsOnlyWhenSettled: nothing but a landing, a closure or a failed   *)
(* start gives an area back.                                                *)
LEMMA LeaseStep ==
  ASSUME ReservationInv, Next, NEW u \in Tasks PROVE LeaseEndsSettled(u)
<1> USE DEF ReservationInv, TypeOK
<1> SUFFICES ASSUME sched[u].areaHeld, ~sched'[u].areaHeld
             PROVE  /\ sched'[u].landed \/ sched'[u].closed \/ run[u] = 0
                    /\ ~active'[u]
  BY DEF LeaseEndsSettled
<1>0. u \in Admitted /\ CardInv(u)
  BY DEF BlankUnlessAdmitted, NewScheduling
<1>1. CASE Admit
  BY <1>1 DEF Admit, Schedule
<1>2. CASE ReleaseAny
  <2>1. Reserve(sched[u]).areaHeld
    BY DEF Reserve, Scheduling
  <2> QED
    BY <1>2, <2>1 DEF ReleaseAny, Release
<1>3. ASSUME NEW t \in Tasks, StartFailed(t)
      PROVE  (sched'[u].landed \/ sched'[u].closed \/ run[u] = 0) /\ ~active'[u]
  <2>1. u = t
    BY <1>3 DEF StartFailed, SchedulingEvent
  <2> QED
    BY <1>0, <1>3, <2>1 DEF StartFailed, SchedulingEvent, CardInv
<1>4. ASSUME NEW t \in Tasks,
             Start(t) \/ WorkerInputNeeded(t) \/ WorkerInputAnswered(t) \/ UnknownExecution(t)
      PROVE  FALSE
  BY <1>4 DEF Start, WorkerInputNeeded, WorkerInputAnswered, UnknownExecution, SchedulingEvent
<1>5. ASSUME NEW t \in Tasks, NEW status \in {"completed", "failed", "interrupted"},
             Finish(t, status)
      PROVE  (sched'[u].landed \/ sched'[u].closed \/ run[u] = 0) /\ ~active'[u]
  <2>1. u = t
    BY <1>5 DEF Finish
  <2> QED
    BY <1>5, <2>1 DEF Finish, Scheduling
<1>6. ASSUME NEW t \in Tasks, NEW pr \in PullRequest, ObservePullRequest(t, pr)
      PROVE  (sched'[u].landed \/ sched'[u].closed \/ run[u] = 0) /\ ~active'[u]
  <2>1. PICK s \in Scheduling, p \in CardStates :
              /\ SchedulingEvent(t, s, p, NoWait)
              /\ s.landed \/ s.closed \/ s.areaHeld = sched[t].areaHeld
    BY <1>6, ObserveEffect
  <2>2. ~active[t]
    BY <1>6, ObserveEffect
  <2> QED
    BY <2>1, <2>2 DEF SchedulingEvent
<1>7. ASSUME NEW t \in Tasks, Return(t) PROVE FALSE
  <2>1. [sched[t] EXCEPT !.returnSent = TRUE, !.capacityHeld = TRUE].areaHeld
          = sched[t].areaHeld
    BY DEF Scheduling
  <2> QED
    BY <1>7, <2>1 DEF Return, ClaimReturn, ReturnWaits, SchedulingEvent
<1>8. ASSUME NEW scope \in StopScopes, StopScheduled(scope)
      PROVE  (sched'[u].landed \/ sched'[u].closed \/ run[u] = 0) /\ ~active'[u]
  <2>1. sched'[u] = Stopped(sched[u]) /\ UNCHANGED active
    BY <1>8 DEF StopScheduled
  <2>2. sched'[u].closed /\ ~sched[u].capacityHeld
    BY <2>1 DEF Stopped, Scheduling
  <2> QED
    BY <1>0, <2>1, <2>2 DEF CardInv
<1> QED
  BY <1>1, <1>2, <1>3, <1>4, <1>5, <1>6, <1>7, <1>8 DEF Next

THEOREM LeaseEnds == Spec => LeaseEndsOnlyWhenSettled
<1>1. ReservationInv /\ [Next]_vars => [\A t \in Tasks : LeaseEndsSettled(t)]_vars
  BY LeaseStep
<1> QED
  BY <1>1, Reservations, PTL DEF Spec, LeaseEndsOnlyWhenSettled

(* SettledStaysSettled: after a landing or a closure no turn starts, no      *)
(* return is claimed and the pull request and the verdict stay.             *)
LEMMA VerdictStep ==
  ASSUME ReservationInv, Next, NEW u \in Tasks PROVE VerdictStands(u)
<1> USE DEF ReservationInv, TypeOK
<1> SUFFICES ASSUME sched[u].landed \/ sched[u].closed PROVE VerdictStands(u)
  BY DEF VerdictStands
<1>0. sched[u].landed => ~sched[u].areaHeld /\ ~sched[u].capacityHeld /\ ~active[u]
  BY DEF BlankUnlessAdmitted, NewScheduling, CardInv
<1>1. CASE Admit
  BY <1>1 DEF Admit, Schedule, VerdictStands
<1>2. CASE ReleaseAny
  <2>1. PICK slots \in [Hosts -> 0 .. MaxSlots], blocked \in SUBSET Workers,
             R \in SUBSET Tasks : Release(R, slots, blocked)
    BY <1>2 DEF ReleaseAny
  <2>2. u \notin R
    BY <2>1 DEF Release, Released, Candidates
  <2> QED
    BY <2>1, <2>2 DEF Release, VerdictStands
<1>3. ASSUME NEW t \in Tasks, StartFailed(t) PROVE VerdictStands(u)
  BY <1>3 DEF StartFailed, SchedulingEvent, Scheduling, VerdictStands
<1>4. ASSUME NEW t \in Tasks, Start(t) PROVE VerdictStands(u)
  BY <1>4 DEF Start, VerdictStands
<1>5. ASSUME NEW t \in Tasks, NEW status \in {"completed", "failed", "interrupted"},
             Finish(t, status)
      PROVE  VerdictStands(u)
  BY <1>5 DEF Finish, Scheduling, VerdictStands
<1>6. ASSUME NEW t \in Tasks, NEW pr \in PullRequest, ObservePullRequest(t, pr)
      PROVE  VerdictStands(u)
  <2>1. u # t /\ \E s, p : SchedulingEvent(t, s, p, NoWait)
    BY <1>6, ObserveEffect
  <2> QED
    BY <2>1 DEF SchedulingEvent, VerdictStands
<1>7. ASSUME NEW t \in Tasks, Return(t) PROVE VerdictStands(u)
  <2>1. u # t /\ \E s, p, w : SchedulingEvent(t, s, p, w)
    BY <1>7 DEF Return, ClaimReturn, ReturnWaits, ReturnDue
  <2> QED
    BY <2>1 DEF SchedulingEvent, VerdictStands
<1>8. ASSUME NEW t \in Tasks,
             WorkerInputNeeded(t) \/ WorkerInputAnswered(t) \/ UnknownExecution(t)
      PROVE  VerdictStands(u)
  BY <1>8 DEF WorkerInputNeeded, WorkerInputAnswered, UnknownExecution, SchedulingEvent,
              VerdictStands
<1>9. ASSUME NEW scope \in StopScopes, StopScheduled(scope) PROVE VerdictStands(u)
  <2>1. u \notin Stopping(scope)
    BY DEF Stopping
  <2> QED
    BY <1>9, <2>1 DEF StopScheduled, VerdictStands
<1> QED
  BY <1>1, <1>2, <1>3, <1>4, <1>5, <1>6, <1>7, <1>8, <1>9 DEF Next

THEOREM Settled == Spec => SettledStaysSettled
<1>1. ReservationInv /\ [Next]_vars => [\A t \in Tasks : VerdictStands(t)]_vars
  BY VerdictStep
<1> QED
  BY <1>1, Reservations, PTL DEF Spec, SettledStaysSettled

-----------------------------------------------------------------------------
(* Conflicts. *)

(* ConflictHasOwner of one card. *)
Owned(t) ==
    /\ sched[t].pr.conflicting /\ sched[t].prRun = run[t]
    /\ ~sched[t].landed /\ ~sched[t].closed
    => ReturnDue(t) \/ sched[t].capacityHeld \/ active[t] \/ state[t] = "input_needed"

(* Why a conflict keeps its owner: a read is of a run that has happened, a   *)
(* running turn is newer than the last read, and a return that was claimed  *)
(* and has not run yet holds its slot.                                     *)
OwnerInv(t) ==
    /\ sched[t].pr # NoPR => run[t] > 0
    /\ sched[t].prRun <= run[t]
    /\ active[t] => sched[t].prRun < run[t]
    /\ sched[t].returnSent /\ run[t] <= 1 /\ ~sched[t].landed /\ ~sched[t].closed
         => sched[t].capacityHeld /\ ~active[t]

ConflictInv == \A t \in Tasks : Owned(t) /\ OwnerInv(t)

(* A card no transaction touches keeps its owner. *)
LEMMA OwnerUntouched ==
  ASSUME TypeOK, Next, NEW u \in Tasks, Owned(u), OwnerInv(u),
         sched'[u] = sched[u], run'[u] = run[u], active'[u] = active[u], state'[u] = state[u]
  PROVE  Owned(u)' /\ OwnerInv(u)'
BY Monotone DEF Owned, OwnerInv, ReturnDue

(* A read leaves the card with the pull request it read, and with an owner   *)
(* when it conflicts: the first conflict asks for a return, a later one      *)
(* comes back to the person unless the return is still to come.              *)
LEMMA OwnerObserved ==
  ASSUME ReservationInv, NEW u \in Tasks, NEW pr \in PullRequest,
         OwnerInv(u), ObservePullRequest(u, pr)
  PROVE  Owned(u)' /\ OwnerInv(u)'
<1> DEFINE s == [sched[u] EXCEPT !.pr = pr, !.prRun = run[u]]
           asked == [s EXCEPT !.returnRequested = TRUE, !.conflictHead = pr.head]
<1>1. /\ sched[u] \in Scheduling /\ run[u] \in Nat /\ sched \in [Tasks -> Scheduling]
      /\ state \in [Tasks -> CardStates]
  BY DEF ReservationInv, TypeOK
<1>2. /\ u \in Admitted /\ run[u] > 0 /\ ~active[u] /\ ~sched[u].landed /\ ~sched[u].closed
      /\ sched[u].returnSent => sched[u].returnRequested
  BY DEF ObservePullRequest, ReservationInv, CardInv
<1>3. UNCHANGED <<def, run, active>>
  BY DEF ObservePullRequest, SchedulingEvent
<1>4. CASE pr.state \in {"MERGED", "CLOSED"}
  <2>1. sched'[u] \in {[s EXCEPT !.landed = TRUE, !.areaHeld = FALSE, !.capacityHeld = FALSE],
                       [s EXCEPT !.closed = TRUE, !.areaHeld = FALSE, !.capacityHeld = FALSE]}
    BY <1>1, <1>4 DEF ObservePullRequest, SchedulingEvent
  <2>2. /\ sched'[u].landed \/ sched'[u].closed
        /\ sched'[u].prRun = run[u]
    BY <1>1, <2>1 DEF Scheduling
  <2> QED
    BY <1>1, <1>2, <1>3, <2>2 DEF Owned, OwnerInv
<1>5. CASE pr.state = "OPEN" /\ pr.conflicting /\ ~sched[u].returnRequested
  <2>1. sched'[u] = asked
    BY <1>1, <1>5 DEF ObservePullRequest, SchedulingEvent, Scheduling
  <2>2. /\ sched'[u].returnRequested /\ ~sched'[u].returnSent /\ sched'[u].prRun = run[u]
        /\ ~sched'[u].landed /\ ~sched'[u].closed
    BY <1>1, <1>2, <1>5, <2>1 DEF Scheduling
  <2> QED
    BY <1>1, <1>2, <1>3, <2>2 DEF Owned, OwnerInv, ReturnDue, Admitted
<1>6. CASE pr.state = "OPEN" /\ pr.conflicting /\ sched[u].returnRequested
  <2>1. /\ sched'[u] = s
        /\ CameBack(s, run[u], pr) => state'[u] = "input_needed"
    BY <1>1, <1>2, <1>6 DEF ObservePullRequest, SchedulingEvent, Scheduling, Shown
  <2>2. /\ sched'[u].returnRequested /\ sched'[u].prRun = run[u]
        /\ sched'[u].returnSent = sched[u].returnSent
        /\ sched'[u].capacityHeld = sched[u].capacityHeld
        /\ sched'[u].landed = sched[u].landed /\ sched'[u].closed = sched[u].closed
    BY <1>1, <1>6, <2>1 DEF Scheduling
  <2>3. CASE CameBack(s, run[u], pr)
    BY <1>1, <1>2, <1>3, <2>1, <2>2, <2>3 DEF Owned, OwnerInv
  <2>4. CASE ~CameBack(s, run[u], pr)
    <3>1. ~sched[u].returnSent \/ run[u] <= 1
      BY <1>1, <2>4 DEF CameBack, Scheduling
    <3> QED
      BY <1>1, <1>2, <1>3, <2>2, <3>1 DEF Owned, OwnerInv, ReturnDue, Admitted
  <2> QED
    BY <2>3, <2>4
<1>7. CASE pr.state = "OPEN" /\ ~pr.conflicting
  <2>1. sched'[u] = s
    BY <1>1, <1>7 DEF ObservePullRequest, SchedulingEvent
  <2>2. /\ sched'[u].pr = pr /\ sched'[u].prRun = run[u]
        /\ sched'[u].returnSent = sched[u].returnSent
        /\ sched'[u].capacityHeld = sched[u].capacityHeld
        /\ sched'[u].landed = sched[u].landed /\ sched'[u].closed = sched[u].closed
    BY <1>1, <2>1 DEF Scheduling
  <2> QED
    BY <1>1, <1>2, <1>3, <1>7, <2>2 DEF Owned, OwnerInv
<1> QED
  BY <1>4, <1>5, <1>6, <1>7 DEF PullRequest

(* No transaction takes the owner of a conflict away. *)
LEMMA ConflictStep ==
  ASSUME ReservationInv, Next, NEW u \in Tasks, Owned(u), OwnerInv(u)
  PROVE  Owned(u)' /\ OwnerInv(u)'
<1>0. /\ TypeOK /\ run[u] \in Nat /\ active[u] \in BOOLEAN /\ sched[u] \in Scheduling
      /\ sched \in [Tasks -> Scheduling] /\ run \in [Tasks -> Nat]
      /\ active \in [Tasks -> BOOLEAN] /\ state \in [Tasks -> CardStates]
  BY DEF ReservationInv, TypeOK
<1>1. CASE Admit
  BY <1>0, <1>1, OwnerUntouched DEF Admit, Schedule
<1>2. CASE ReleaseAny
  <2>1. PICK slots \in [Hosts -> 0 .. MaxSlots], blocked \in SUBSET Workers,
             R \in SUBSET Tasks : Release(R, slots, blocked)
    BY <1>2 DEF ReleaseAny
  <2>2. CASE u \notin Candidates
    <3>1. sched'[u] = sched[u] /\ state'[u] = state[u] /\ UNCHANGED <<run, active>>
      BY <2>1, <2>2 DEF Release, Released
    <3> QED
      BY <1>0, <3>1, OwnerUntouched
  <2>3. CASE u \in Candidates
    <3>1. ~sched[u].reserved /\ run[u] = 0 /\ ~active[u] /\ ~sched[u].returnSent
      BY <1>0, <2>3 DEF Candidates, ReservationInv, CardInv
    <3>2. sched[u].pr = NoPR /\ sched[u].prRun = 0
      BY <1>0, <3>1 DEF OwnerInv, Scheduling
    <3>3. /\ sched'[u] \in {sched[u], Reserve(sched[u])} /\ UNCHANGED <<run, active>>
      BY <2>1 DEF Release
    <3>4. sched'[u].pr = NoPR /\ sched'[u].prRun = 0 /\ ~sched'[u].returnSent
      BY <1>0, <3>1, <3>2, <3>3 DEF Reserve, Scheduling
    <3> QED
      BY <3>1, <3>3, <3>4 DEF Owned, OwnerInv, NoPR
  <2> QED
    BY <2>2, <2>3
<1>3. ASSUME NEW t \in Tasks, StartFailed(t) PROVE Owned(u)' /\ OwnerInv(u)'
  <2>1. CASE u # t
    BY <1>0, <1>3, <2>1, OwnerUntouched DEF StartFailed, SchedulingEvent
  <2>2. CASE u = t
    <3>1. /\ sched'[u] = [sched[u] EXCEPT !.capacityHeld = FALSE, !.areaHeld = FALSE]
          /\ run[u] = 0 /\ UNCHANGED <<run, active>>
      BY <1>0, <1>3, <2>2 DEF StartFailed, SchedulingEvent
    <3>2. sched[u].pr = NoPR /\ sched[u].prRun = 0 /\ ~sched[u].returnSent /\ ~active[u]
      <4>1. u \in Admitted
        BY <1>3, <2>2 DEF StartFailed
      <4> QED
        BY <1>0, <3>1, <4>1 DEF OwnerInv, Scheduling, ReservationInv, CardInv
    <3>3. sched'[u].pr = NoPR /\ sched'[u].prRun = 0 /\ ~sched'[u].returnSent
      BY <1>0, <3>1, <3>2 DEF Scheduling
    <3> QED
      BY <3>1, <3>2, <3>3 DEF Owned, OwnerInv, NoPR
  <2> QED
    BY <2>1, <2>2
<1>4. ASSUME NEW t \in Tasks, Start(t) PROVE Owned(u)' /\ OwnerInv(u)'
  <2>1. CASE u # t
    BY <1>0, <1>4, <2>1, OwnerUntouched DEF Start
  <2>2. CASE u = t
    <3>1. sched' = sched /\ run'[u] = run[u] + 1 /\ active'[u]
      BY <1>0, <1>4, <2>2 DEF Start
    <3>2. /\ sched[u].prRun \in Nat /\ ~sched[u].landed /\ ~sched[u].closed
          /\ u \in Admitted /\ CardInv(u)
      BY <1>0, <1>4, <2>2 DEF Start, Scheduling, ReservationInv
    <3>3. sched[u].returnSent => run[u] >= 1
      BY <1>0, <3>2 DEF CardInv
    <3> QED
      BY <1>0, <3>1, <3>2, <3>3 DEF Owned, OwnerInv
  <2> QED
    BY <2>1, <2>2
<1>5. ASSUME NEW t \in Tasks, NEW status \in {"completed", "failed", "interrupted"},
             Finish(t, status)
      PROVE  Owned(u)' /\ OwnerInv(u)'
  <2>1. CASE u # t
    BY <1>0, <1>5, <2>1, OwnerUntouched DEF Finish
  <2>2. CASE u = t
    <3>1. /\ sched'[u] = [sched[u] EXCEPT !.capacityHeld = FALSE,
                                          !.areaHeld = @ /\ ~sched[u].closed]
          /\ run' = run /\ active[u] /\ ~active'[u]
      BY <1>0, <1>5, <2>2 DEF Finish
    <3>2. /\ sched'[u].pr = sched[u].pr /\ sched'[u].prRun = sched[u].prRun
          /\ sched'[u].returnSent = sched[u].returnSent
          /\ sched'[u].landed = sched[u].landed /\ sched'[u].closed = sched[u].closed
          /\ sched[u].prRun \in Nat
      BY <1>0, <3>1 DEF Scheduling
    <3> QED
      BY <1>0, <3>1, <3>2 DEF Owned, OwnerInv
  <2> QED
    BY <2>1, <2>2
<1>6. ASSUME NEW t \in Tasks, NEW pr \in PullRequest, ObservePullRequest(t, pr)
      PROVE  Owned(u)' /\ OwnerInv(u)'
  <2>1. CASE u # t
    BY <1>0, <1>6, <2>1, ObserveEffect, OwnerUntouched DEF SchedulingEvent
  <2>2. CASE u = t
    BY <1>6, <2>2, OwnerObserved
  <2> QED
    BY <2>1, <2>2
<1>7. ASSUME NEW t \in Tasks, Return(t) PROVE Owned(u)' /\ OwnerInv(u)'
  <2>1. PICK slots \in [Hosts -> 0 .. MaxSlots], blocked \in SUBSET Workers :
               ClaimReturn(t, slots, blocked) \/ ReturnWaits(t, slots, blocked)
    BY <1>7 DEF Return
  <2>2. CASE u # t
    BY <1>0, <2>1, <2>2, OwnerUntouched DEF ClaimReturn, ReturnWaits, SchedulingEvent
  <2>3. CASE u = t /\ ClaimReturn(t, slots, blocked)
    <3>1. /\ sched'[u] = [sched[u] EXCEPT !.returnSent = TRUE, !.capacityHeld = TRUE]
          /\ UNCHANGED <<run, active>> /\ ~active[u]
      BY <1>0, <2>3 DEF ClaimReturn, ReturnDue, SchedulingEvent
    <3>2. /\ sched'[u].capacityHeld
          /\ sched'[u].pr = sched[u].pr /\ sched'[u].prRun = sched[u].prRun
      BY <1>0, <3>1 DEF Scheduling
    <3> QED
      BY <1>0, <3>1, <3>2 DEF Owned, OwnerInv
  <2>4. CASE u = t /\ ReturnWaits(t, slots, blocked)
    <3>1. sched'[u] = sched[u] /\ UNCHANGED <<def, run, active>> /\ ReturnDue(u)
      BY <1>0, <2>4 DEF ReturnWaits, SchedulingEvent
    <3> QED
      BY <1>0, <3>1 DEF Owned, OwnerInv, ReturnDue, Admitted
  <2> QED
    BY <2>1, <2>2, <2>3, <2>4
<1>8. ASSUME NEW t \in Tasks,
             WorkerInputNeeded(t) \/ WorkerInputAnswered(t) \/ UnknownExecution(t)
      PROVE  Owned(u)' /\ OwnerInv(u)'
  <2>1. /\ sched'[u] = sched[u] /\ UNCHANGED <<run, active>>
        /\ active[t] /\ (u # t => state'[u] = state[u])
    BY <1>0, <1>8 DEF WorkerInputNeeded, WorkerInputAnswered, UnknownExecution, SchedulingEvent
  <2>2. CASE u # t
    BY <1>0, <2>1, <2>2, OwnerUntouched
  <2>3. CASE u = t
    BY <2>1, <2>3 DEF Owned, OwnerInv
  <2> QED
    BY <2>2, <2>3
<1>9. ASSUME NEW scope \in StopScopes, StopScheduled(scope) PROVE Owned(u)' /\ OwnerInv(u)'
  <2>1. CASE u \notin Stopping(scope)
    BY <1>0, <1>9, <2>1, OwnerUntouched DEF StopScheduled
  <2>2. CASE u \in Stopping(scope)
    <3>1. sched'[u] = Stopped(sched[u]) /\ UNCHANGED <<run, active>>
      BY <1>9, <2>2 DEF StopScheduled
    <3>2. /\ sched'[u].closed /\ sched'[u].pr = sched[u].pr
          /\ sched'[u].prRun = sched[u].prRun
      BY <1>0, <3>1 DEF Stopped, Scheduling
    <3> QED
      BY <1>0, <3>1, <3>2 DEF Owned, OwnerInv
  <2> QED
    BY <2>1, <2>2
<1> QED
  BY <1>1, <1>2, <1>3, <1>4, <1>5, <1>6, <1>7, <1>8, <1>9 DEF Next

(* ConflictHasOwner: a conflict the forge shows of the current run is never   *)
(* left with nobody.                                                       *)
THEOREM ConflictOwned == Spec => []ConflictHasOwner
<1>1. Init => ConflictInv
  <2> SUFFICES ASSUME Init, NEW t \in Tasks PROVE Owned(t) /\ OwnerInv(t)
    BY DEF ConflictInv
  <2>1. sched[t] = NewScheduling /\ run[t] = 0 /\ ~active[t]
    BY DEF Init
  <2>2. /\ sched[t].pr = NoPR /\ ~sched[t].pr.conflicting /\ sched[t].prRun = 0
        /\ ~sched[t].returnSent
    BY <2>1 DEF NewScheduling, NoPR
  <2> QED
    BY <2>1, <2>2 DEF Owned, OwnerInv
<1>2. ReservationInv /\ ConflictInv /\ [Next]_vars => ConflictInv'
  <2> SUFFICES ASSUME ReservationInv, ConflictInv, [Next]_vars, NEW u \in Tasks
               PROVE  Owned(u)' /\ OwnerInv(u)'
    BY DEF ConflictInv
  <2>1. Owned(u) /\ OwnerInv(u)
    BY DEF ConflictInv
  <2>2. CASE Next
    BY <2>1, <2>2, ConflictStep
  <2>3. CASE UNCHANGED vars
    BY <2>1, <2>3 DEF vars, Owned, OwnerInv, ReturnDue, Admitted
  <2> QED
    BY <2>2, <2>3
<1>3. ConflictInv => ConflictHasOwner
  BY DEF ConflictInv, ConflictHasOwner, Owned
<1> QED
  BY <1>1, <1>2, <1>3, Reservations, PTL DEF Spec

-----------------------------------------------------------------------------
(* The scheduler implements AreaLeases. *)

(* Nothing but a release takes an area, nothing undoes a reservation and    *)
(* only a start makes a card active.                                       *)
LEMMA LeaseMoves ==
  ASSUME ReservationInv, Next, ~ReleaseAny, NEW u \in Tasks
  PROVE  /\ sched'[u].areaHeld => sched[u].areaHeld
         /\ sched'[u].reserved = sched[u].reserved
         /\ active'[u] => active[u] \/ Start(u)
         /\ run'[u] = run[u] \/ Start(u)
<1> USE DEF ReservationInv, TypeOK
<1>0. ASSUME NEW t \in Tasks, Start(t)
      PROVE  run'[u] = run[u] \/ Start(u)
  <2>1. u # t => run'[u] = run[u]
    BY <1>0 DEF Start
  <2> QED
    BY <1>0, <2>1
<1>9. run' = run \/ \E t \in Tasks : Start(t)
  BY DEF Next, Admit, Schedule, ReleaseAny, Release, Released, StartFailed, WorkerInputNeeded,
         WorkerInputAnswered, UnknownExecution, Finish, ObservePullRequest, Return, ClaimReturn,
         ReturnWaits, SchedulingEvent, StopScheduled
<1>1. CASE Admit
  BY <1>1 DEF Admit, Schedule
<1>2. ASSUME NEW t \in Tasks, StartFailed(t)
      PROVE  /\ sched'[u].areaHeld => sched[u].areaHeld
             /\ sched'[u].reserved = sched[u].reserved /\ active' = active
  BY <1>2 DEF StartFailed, SchedulingEvent, Scheduling
<1>3. ASSUME NEW t \in Tasks, Start(t)
      PROVE  sched' = sched /\ (active'[u] => active[u] \/ Start(u))
  <2>1. u # t => active'[u] = active[u]
    BY <1>3 DEF Start
  <2> QED
    BY <1>3, <2>1 DEF Start
<1>4. ASSUME NEW t \in Tasks,
             WorkerInputNeeded(t) \/ WorkerInputAnswered(t) \/ UnknownExecution(t)
      PROVE  sched' = sched /\ active' = active
  BY <1>4 DEF WorkerInputNeeded, WorkerInputAnswered, UnknownExecution, SchedulingEvent
<1>5. ASSUME NEW t \in Tasks, NEW status \in {"completed", "failed", "interrupted"},
             Finish(t, status)
      PROVE  /\ sched'[u].areaHeld => sched[u].areaHeld
             /\ sched'[u].reserved = sched[u].reserved
             /\ active'[u] => active[u]
  BY <1>5 DEF Finish, Scheduling
<1>6. ASSUME NEW t \in Tasks, NEW pr \in PullRequest, ObservePullRequest(t, pr)
      PROVE  /\ sched'[u].areaHeld => sched[u].areaHeld
             /\ sched'[u].reserved = sched[u].reserved /\ active' = active
  <2>1. PICK s \in Scheduling, p \in CardStates :
              /\ SchedulingEvent(t, s, p, NoWait)
              /\ s.reserved = sched[t].reserved
              /\ s.areaHeld => sched[t].areaHeld
    BY <1>6, ObserveEffect
  <2> QED
    BY <2>1 DEF SchedulingEvent
<1>7. ASSUME NEW t \in Tasks, Return(t)
      PROVE  /\ sched'[u].areaHeld = sched[u].areaHeld
             /\ sched'[u].reserved = sched[u].reserved /\ active' = active
  <2>1. LET s == [sched[t] EXCEPT !.returnSent = TRUE, !.capacityHeld = TRUE]
        IN  s.areaHeld = sched[t].areaHeld /\ s.reserved = sched[t].reserved
    BY DEF Scheduling
  <2> QED
    BY <1>7, <2>1 DEF Return, ClaimReturn, ReturnWaits, SchedulingEvent
<1>8. ASSUME NEW scope \in StopScopes, StopScheduled(scope)
      PROVE  /\ sched'[u].areaHeld => sched[u].areaHeld
             /\ sched'[u].reserved = sched[u].reserved /\ active' = active
  BY <1>8 DEF StopScheduled, Stopped, Scheduling
<1> QED
  BY <1>0, <1>1, <1>2, <1>3, <1>4, <1>5, <1>6, <1>7, <1>8, <1>9 DEF Next

(* The areas that meet, as pairs. *)
Meeting ==
    {{p[1], p[2]} : p \in {q \in Admitted \X Admitted :
                             q[1] < q[2] /\ Excludes(def[q[1]], def[q[2]])}}

LEMMA MeetingPairs ==
  ASSUME Admitted \subseteq Tasks, NEW t, NEW u, {t, u} \in Meeting
  PROVE  t \in Admitted /\ u \in Admitted /\ t # u /\ Excludes(def[t], def[u])
<1>1. PICK a \in Admitted, b \in Admitted :
             {t, u} = {a, b} /\ a < b /\ Excludes(def[a], def[b])
  BY DEF Meeting
<1>2. a \in Int /\ b \in Int
  BY TasksAssumption
<1>3. a # b
  BY <1>1, <1>2
<1>4. (t = a /\ u = b) \/ (t = b /\ u = a)
  BY <1>1, <1>3
<1>5. Excludes(def[b], def[a])
  BY <1>1 DEF Excludes, Overlap
<1> QED
  BY <1>1, <1>3, <1>4, <1>5

LEMMA MeetingGrows ==
  ASSUME ReservationInv, Next
  PROVE  /\ Meeting \subseteq Meeting' /\ Meeting' \subseteq SUBSET Tasks
         /\ \A p \in Meeting' \ Meeting : \E t \in p : t \notin Admitted
<1>0. /\ Admitted \subseteq Admitted' /\ Admitted' \subseteq Tasks
      /\ \A t \in Admitted : def'[t] = def[t]
  <2>1. TypeOK /\ TypeOK'
    BY TypeStep DEF ReservationInv
  <2> QED
    BY <2>1, Monotone DEF TypeOK
<1>1. ASSUME NEW p \in Meeting
      PROVE  p \in Meeting'
  <2>1. PICK a \in Admitted, b \in Admitted :
               p = {a, b} /\ a < b /\ Excludes(def[a], def[b])
    BY <1>1 DEF Meeting
  <2>2. a \in Admitted' /\ b \in Admitted' /\ Excludes(def'[a], def'[b])
    BY <1>0, <2>1
  <2>3. <<a, b>> \in {q \in Admitted' \X Admitted' :
                         q[1] < q[2] /\ Excludes(def'[q[1]], def'[q[2]])}
    BY <2>1, <2>2
  <2> QED
    BY <2>1, <2>3 DEF Meeting
<1>2. ASSUME NEW p \in Meeting'
      PROVE  p \in SUBSET Tasks /\ (p \notin Meeting => \E t \in p : t \notin Admitted)
  <2>1. PICK a \in Admitted', b \in Admitted' :
               p = {a, b} /\ a < b /\ Excludes(def'[a], def'[b])
    BY <1>2 DEF Meeting
  <2>2. ASSUME a \in Admitted, b \in Admitted PROVE p \in Meeting
    <3>1. Excludes(def[a], def[b])
      BY <1>0, <2>1, <2>2
    <3>2. <<a, b>> \in {q \in Admitted \X Admitted :
                           q[1] < q[2] /\ Excludes(def[q[1]], def[q[2]])}
      BY <2>1, <2>2, <3>1
    <3> QED
      BY <2>1, <3>2 DEF Meeting
  <2> QED
    BY <1>0, <2>1, <2>2
<1> QED
  BY <1>1, <1>2

(* A card that is over stays so. *)
LEMMA OverKept ==
  ASSUME ReservationInv, Next, ~ReleaseAny, NEW u \in Tasks, Over(u)
  PROVE  Over(u)'
<1>1. CASE sched[u].landed \/ sched[u].closed
  BY <1>1, VerdictStep DEF VerdictStands, Over
<1>2. CASE sched[u].reserved /\ ~sched[u].areaHeld /\ run[u] = 0
  <2>1. ~Start(u)
    BY <1>2 DEF Start, ReservationInv, CardInv
  <2> QED
    BY <1>2, <2>1, LeaseMoves DEF Over
<1> QED
  BY <1>1, <1>2 DEF Over

(* The cards in the terms of AreaLeases. *)
Holding == {t \in Tasks : sched[t].areaHeld}
Writing == {t \in Tasks : active[t]}
Ended == {t \in Tasks : Over(t)}

(* A release pass grants areas that meet no other that is held. *)
LEMMA PassGrants ==
  ASSUME ReservationInv, Next, ReleaseAny
  PROVE  /\ Holding \subseteq Holding'
         /\ \A t \in Holding' \ Holding :
              t \notin Ended /\ \A u \in Holding' : {t, u} \notin Meeting
         /\ UNCHANGED <<Meeting, Writing, Ended>>
<1>1. PICK slots \in [Hosts -> 0 .. MaxSlots], blocked \in SUBSET Workers,
           R \in SUBSET Tasks : Release(R, slots, blocked)
  BY DEF ReleaseAny
<1>2. R \subseteq Candidates /\ UNCHANGED <<def, active>>
  BY <1>1 DEF Release, Released
<1>3. ReservationInv'
  BY InvStep
<1>4. \A t \in Tasks : t \notin R => sched'[t] = sched[t]
  BY <1>1 DEF Release
<1>5. ASSUME NEW t \in R
      PROVE  /\ sched'[t].areaHeld /\ sched'[t].reserved
             /\ sched'[t].landed = sched[t].landed /\ sched'[t].closed = sched[t].closed
             /\ ~sched[t].reserved /\ ~sched[t].landed /\ ~sched[t].closed
  BY <1>1, <1>2, <1>5 DEF Release, Reserve, Candidates, Scheduling, ReservationInv, TypeOK
<1>6. \A t \in Tasks : Over(t)' <=> Over(t)
  <2>1. run' = run
    BY <1>1 DEF Release, Released
  <2> QED
    BY <1>4, <1>5, <2>1 DEF Over
<1>7. Holding' = Holding \cup R /\ UNCHANGED <<Meeting, Writing, Ended>>
  <2>1. Holding' = Holding \cup R
    BY <1>4, <1>5 DEF Holding
  <2>2. Meeting' = Meeting /\ Writing' = Writing
    BY <1>2 DEF Meeting, Writing, Admitted
  <2>3. Ended' = Ended
    BY <1>6 DEF Ended
  <2> QED
    BY <2>1, <2>2, <2>3
<1>8. ASSUME NEW t \in R, NEW u \in Holding', {t, u} \in Meeting
      PROVE  FALSE
  <2>1. t \in Admitted /\ u \in Admitted /\ t # u /\ Excludes(def[t], def[u])
    BY <1>8, MeetingPairs DEF ReservationInv, TypeOK
  <2>2. t \in Admitted' /\ u \in Admitted' /\ Excludes(def[t], def[u])'
    BY <1>2, <2>1 DEF Admitted
  <2>3. sched'[t].areaHeld /\ sched'[u].areaHeld
    BY <1>5 DEF Holding
  <2> QED
    BY <1>3, <2>1, <2>2, <2>3 DEF ReservationInv, AreaExclusion
<1> QED
  BY <1>5, <1>7, <1>8 DEF Over, Ended

(* Every other transaction of admitted cards lets workers begin, or stop,   *)
(* and frees areas of cards that are over.                                 *)
LEMMA StepEnds ==
  ASSUME ReservationInv, Next, ~ReleaseAny
  PROVE  /\ Ended \subseteq Ended'
         /\ Holding' \subseteq Holding
         /\ Holding \ Holding' \subseteq Ended' \ Writing'
         /\ \/ Writing' \subseteq Writing
            \/ \E t \in Holding \ Ended :
                 /\ Writing' = Writing \cup {t}
                 /\ UNCHANGED <<Meeting, Holding, Ended>>
<1>1. Ended \subseteq Ended' /\ Holding' \subseteq Holding
  BY OverKept, LeaseMoves DEF Ended, Holding
<1>2. ASSUME NEW t \in Holding, t \notin Holding'
      PROVE  t \in Ended' /\ t \notin Writing'
  <2>1. t \in Tasks /\ sched[t].areaHeld /\ ~sched'[t].areaHeld
    BY <1>2 DEF Holding
  <2>2. sched[t].reserved
    <3>1. t \in Admitted
      BY <2>1 DEF ReservationInv, BlankUnlessAdmitted, NewScheduling
    <3> QED
      BY <2>1, <3>1 DEF ReservationInv, CardInv
  <2>3. ~Start(t)
    BY <2>1 DEF Start
  <2>4. /\ sched'[t].reserved /\ ~active'[t] /\ run'[t] = run[t]
        /\ sched'[t].landed \/ sched'[t].closed \/ run[t] = 0
    BY <2>1, <2>2, <2>3, LeaseMoves, LeaseStep DEF LeaseEndsSettled
  <2> QED
    BY <2>1, <2>4 DEF Ended, Over, Writing
<1>3. ASSUME NEW t \in Tasks, Start(t)
      PROVE  /\ t \in Holding \ Ended /\ Writing' = Writing \cup {t}
             /\ UNCHANGED <<Meeting, Holding, Ended>>
  <2>1. /\ sched' = sched /\ def' = def /\ active' = [active EXCEPT ![t] = TRUE]
        /\ t \in Admitted /\ sched[t].capacityHeld /\ ~sched[t].landed /\ ~sched[t].closed
    BY <1>3 DEF Start
  <2>2. sched[t].areaHeld
    BY <2>1 DEF ReservationInv, CardInv
  <2>3. UNCHANGED <<Meeting, Holding, Ended>>
    <3>1. \A u \in Tasks : u # t => run'[u] = run[u]
      BY <1>3 DEF Start, ReservationInv, TypeOK
    <3>2. \A u \in Tasks : Over(u)' <=> Over(u)
      BY <2>1, <2>2, <3>1 DEF Over
    <3> QED
      BY <2>1, <3>2 DEF Meeting, Holding, Ended, Admitted
  <2>4. Writing' = Writing \cup {t}
    BY <2>1 DEF Writing, ReservationInv, TypeOK
  <2> QED
    BY <2>1, <2>2, <2>3, <2>4 DEF Holding, Ended, Over
<1>4. CASE ~\E t \in Tasks : Start(t)
  <2>1. Writing' \subseteq Writing
    BY <1>4, LeaseMoves DEF Writing
  <2> QED
    BY <1>1, <1>2, <2>1
<1> QED
  BY <1>1, <1>2, <1>3, <1>4

(* Leases: write areas are handed out, kept and given back as AreaLeases    *)
(* promises, over every sequence of admissions, passes, starts, ends, pull  *)
(* request reads, returns and stops.                                       *)
THEOREM SchedulerLeases == Spec => Leases
<1> USE DEF Meeting, Holding, Writing, Ended
<1>1. Init => Lease!Init
  <2> SUFFICES ASSUME Init PROVE Lease!Init
    OBVIOUS
  <2>1. Admitted = {}
    BY DEF Init, Admitted
  <2>2. Meeting = {}
    BY <2>1
  <2>3. Holding = {} /\ Writing = {} /\ Ended = {}
    BY DEF Init, Over, NewScheduling
  <2> QED
    BY <2>2, <2>3 DEF Lease!Init
<1>2. ReservationInv /\ [Next]_vars => [Lease!Next]_(Lease!vars)
  <2> SUFFICES ASSUME ReservationInv, [Next]_vars PROVE [Lease!Next]_(Lease!vars)
    OBVIOUS
  <2>1. CASE Next /\ ReleaseAny
    <3>1. Lease!Grant
      BY <2>1, PassGrants DEF Lease!Grant
    <3> QED
      BY <3>1 DEF Lease!Next
  <2>2. CASE Next /\ ~ReleaseAny /\ UNCHANGED Meeting
    <3>1. Lease!End \/ \E t \in Tasks : Lease!Begin(t)
      BY <2>2, StepEnds DEF Lease!End, Lease!Begin
    <3> QED
      BY <3>1 DEF Lease!Next
  <2>3. CASE Admit
    <3>1. UNCHANGED <<sched, active, run>>
      BY <2>3 DEF Admit, Schedule
    <3>2. UNCHANGED <<Holding, Writing, Ended>>
      BY <3>1 DEF Over
    <3>3. \A t \in Tasks \ Admitted : t \notin Holding
      BY DEF ReservationInv, BlankUnlessAdmitted, NewScheduling
    <3>4. /\ Meeting \subseteq Meeting' /\ Meeting' \subseteq SUBSET Tasks
          /\ \A p \in Meeting' \ Meeting : \E t \in p : t \notin Admitted
      BY <2>3, MeetingGrows DEF Next
    <3>5. Lease!Join
      BY <3>2, <3>3, <3>4 DEF Lease!Join
    <3> QED
      BY <3>5 DEF Lease!Next
  <2>4. CASE UNCHANGED vars
    BY <2>4 DEF vars, Lease!vars, Over, Admitted
  <2>5. ASSUME Next, ~ReleaseAny, ~Admit PROVE def' = def
    BY <2>5 DEF Next, StartFailed, Start, Finish, ObservePullRequest, Return, ClaimReturn,
       ReturnWaits, WorkerInputNeeded, WorkerInputAnswered, UnknownExecution,
       StopScheduled, SchedulingEvent
  <2>6. def' = def => UNCHANGED Meeting
    BY DEF Admitted
  <2> QED
    BY <2>1, <2>2, <2>3, <2>4, <2>5, <2>6
<1> QED
  BY <1>1, <1>2, Reservations, PTL DEF Spec, Leases, Lease!Spec
=============================================================================
