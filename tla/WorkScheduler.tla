--------------------------- MODULE WorkScheduler ---------------------------
(***************************************************************************)
(* The durable half of LINA Core's work scheduler: the transactions of     *)
(* internal/core/work/scheduler.go, schedule_stop.go and the run events of *)
(* project.go.  Every operation of the code is one canon write transaction *)
(* over a task's append-only ledger, and the card is the projection of     *)
(* that ledger; here the card is the state and each transaction one action.*)
(*                                                                         *)
(* Abstractions.  A task id is a number: the code orders cards by task id. *)
(* An area is the set of paths its globs match, so two areas overlap when  *)
(* the sets meet, which is what the language intersection of               *)
(* scheduled_areas.go decides.  Quota and host capacity come from outside  *)
(* and are chosen anew at every call.  The scope of a stop (the person and *)
(* conversation of the caller, or one reference) is a member of            *)
(* StopScopes.  A scheduled task names no destination, which the receipt   *)
(* tool requires, so it never has a receipt.                               *)
(***************************************************************************)
EXTENDS Integers, FiniteSets

CONSTANTS
    Tasks,        \* task ids, a finite set of naturals
    Definitions,  \* the definitions a caller may propose for each task
    Hosts,        \* hosts that run workers
    Workers,      \* worker kinds with a quota
    MaxSlots,     \* bound: the most slots a host ever reports
    Numbers,      \* pull request numbers the forge may show
    Heads,        \* pull request heads the forge may show
    NoHead,       \* no head recorded
    StopScopes    \* the sets of tasks one stop can select

Definition == [deps : SUBSET Tasks, group : STRING, repository : STRING,
               areas : SUBSET STRING, host : Hosts, worker : Workers]

ASSUME TasksAssumption == Tasks \subseteq Nat /\ IsFiniteSet(Tasks)
ASSUME DefinitionsAssumption ==
    /\ DOMAIN Definitions = Tasks
    /\ \A t \in Tasks : \A d \in Definitions[t] :
         /\ d.deps \in SUBSET Tasks
         /\ d.host \in Hosts
         /\ d.worker \in Workers
ASSUME SlotsAssumption == MaxSlots \in Nat
ASSUME HeadAssumption == NoHead \notin Heads
ASSUME ScopesAssumption == StopScopes \subseteq SUBSET Tasks

VARIABLES
    def,     \* the admitted tasks' definitions: a function on the admitted ids
    sched,   \* Card.Scheduling
    run,     \* Card.Run.Generation, 0 when Run is nil
    active,  \* Card.Active
    state,   \* Card.State
    wait     \* Card.WaitReason

vars == <<def, sched, run, active, state, wait>>

-----------------------------------------------------------------------------
(* Data. *)

NoPR == [number |-> 0, head |-> NoHead, state |-> "NONE", conflicting |-> FALSE]

(* The forge's mergeable answer matters only while the request is open. *)
PullRequest ==
    [number : Numbers, head : Heads, state : {"OPEN"}, conflicting : BOOLEAN]
    \cup [number : Numbers, head : Heads, state : {"CLOSED", "MERGED"},
          conflicting : {FALSE}]

Scheduling ==
    [reserved : BOOLEAN, areaHeld : BOOLEAN, capacityHeld : BOOLEAN,
     landed : BOOLEAN, closed : BOOLEAN,
     returnRequested : BOOLEAN, returnSent : BOOLEAN,
     conflictHead : Heads \cup {NoHead}, prRun : Nat,
     pr : PullRequest \cup {NoPR}]

NewScheduling ==
    [reserved |-> FALSE, areaHeld |-> FALSE, capacityHeld |-> FALSE,
     landed |-> FALSE, closed |-> FALSE,
     returnRequested |-> FALSE, returnSent |-> FALSE,
     conflictHead |-> NoHead, prRun |-> 0, pr |-> NoPR]

CardStates == {"unknown", "waiting", "working", "input_needed", "failed", "stopped"}

NoWait == <<"none", "none">>

WaitReasons ==
    {NoWait} \cup ({"dependency", "area"} \X Tasks)
    \cup ({"quota"} \X Workers) \cup ({"host_capacity"} \X Hosts)

Admitted == DOMAIN def

Overlap(a, b) == a \cap b # {}

(* Two definitions whose areas exclude each other at release. *)
Excludes(d, e) == d.repository = e.repository /\ Overlap(d.areas, e.areas)

First(S) == CHOOSE x \in S : \A y \in S : x <= y

-----------------------------------------------------------------------------
(* Admission. *)

(* Everything t depends on, directly or not, in the graph g. *)
Ancestors(g, t) ==
    {a \in DOMAIN g :
        \A S \in SUBSET DOMAIN g :
            (g[t].deps \subseteq S /\ \A s \in S : g[s].deps \subseteq S) => a \in S}

(* Faulty variant: overlapping tasks of one graph may stay unordered. *)
ValidGraphUnordered(g) ==
    /\ \A t \in DOMAIN g : g[t].deps \subseteq DOMAIN g
    /\ \A t \in DOMAIN g : g[t].areas # {}
    /\ \A t \in DOMAIN g : t \notin Ancestors(g, t)

ValidGraph(g) ==
    /\ \A t \in DOMAIN g : g[t].deps \subseteq DOMAIN g
    /\ \A t \in DOMAIN g : g[t].areas # {}
    /\ \A t \in DOMAIN g : t \notin Ancestors(g, t)
    /\ \A t, u \in DOMAIN g :
         (/\ t # u
          /\ g[t].group = g[u].group
          /\ Excludes(g[t], g[u]))
           => t \in Ancestors(g, u) \/ u \in Ancestors(g, t)

(* The definitions after the proposal q joins the admitted graph. *)
Joined(q) ==
    [t \in Admitted \cup DOMAIN q |-> IF t \in Admitted THEN def[t] ELSE q[t]]

(* Schedule admits the whole proposal or nothing.  A task already admitted *)
(* must be proposed unchanged.                                             *)
Schedule(q) ==
    /\ \A t \in DOMAIN q \cap Admitted : q[t] = def[t]
    /\ ValidGraph(Joined(q))
    /\ def' = Joined(q)
    /\ UNCHANGED <<sched, run, active, state, wait>>

-----------------------------------------------------------------------------
(* Release. *)

Candidates ==
    {t \in Admitted : ~sched[t].reserved /\ ~sched[t].closed /\ ~sched[t].landed}

(* Cards are visited in id order and a card released earlier in the pass is *)
(* seen with its reservations by the later ones.                            *)
Earlier(R, t) == {r \in R : r < t}

(* Faulty variant: the pass looks only at the areas held when it began. *)
AreaHoldersAtStart(R, t) == {o \in Admitted : sched[o].areaHeld}

AreaHolders(R, t) == {o \in Admitted : sched[o].areaHeld} \cup Earlier(R, t)

Blockers(R, t) == {o \in AreaHolders(R, t) \ {t} : Excludes(def[t], def[o])}

Occupants(h) == {o \in Admitted : sched[o].capacityHeld /\ def[o].host = h}

Used(R, t) ==
    Occupants(def[t].host) \cup {o \in Earlier(R, t) : def[o].host = def[t].host}

Unlanded(t) == {d \in def[t].deps : ~sched[d].landed}

(* Why a candidate stays behind when R is released, in the code's order. *)
Reason(t, R, slots, blocked) ==
    IF Unlanded(t) # {} THEN <<"dependency", First(Unlanded(t))>>
    ELSE IF Blockers(R, t) # {} THEN <<"area", First(Blockers(R, t))>>
    ELSE IF def[t].worker \in blocked THEN <<"quota", def[t].worker>>
    ELSE IF Cardinality(Used(R, t)) >= slots[def[t].host]
         THEN <<"host_capacity", def[t].host>>
    ELSE NoWait

Releasable(t, R, slots, blocked) ==
    /\ Unlanded(t) = {}
    /\ Blockers(R, t) = {}
    /\ def[t].worker \notin blocked
    /\ Cardinality(Used(R, t)) < slots[def[t].host]

Reserve(s) == [s EXCEPT !.reserved = TRUE, !.areaHeld = TRUE, !.capacityHeld = TRUE]

(* R is the one set a pass in id order releases: membership of t depends    *)
(* only on the members of R below t.                                       *)
Released(R, slots, blocked) ==
    /\ R \subseteq Candidates
    /\ \A t \in Candidates : t \in R <=> Releasable(t, R, slots, blocked)

Release(R, slots, blocked) ==
    /\ Released(R, slots, blocked)
    /\ sched' = [t \in Tasks |-> IF t \in R THEN Reserve(sched[t]) ELSE sched[t]]
    /\ wait' = [t \in Tasks |->
                  IF t \in R THEN NoWait
                  ELSE IF t \in Candidates THEN Reason(t, R, slots, blocked)
                  ELSE wait[t]]
    /\ state' = [t \in Tasks |->
                  IF t \in R THEN "working"
                  ELSE IF t \in Candidates /\ wait[t] # Reason(t, R, slots, blocked)
                       THEN "waiting"
                  ELSE state[t]]
    /\ UNCHANGED <<def, run, active>>

-----------------------------------------------------------------------------
(* One card at a time. *)

(* The state a scheduling event leaves: a closed card shows stopped only    *)
(* once nothing holds its slot.                                            *)
Shown(s, proposed) ==
    IF ~s.closed THEN proposed
    ELSE IF s.capacityHeld THEN "unknown" ELSE "stopped"

(* A scheduling event of t that records s, shows `proposed` and sets reason. *)
SchedulingEvent(t, s, proposed, reason) ==
    /\ sched' = [sched EXCEPT ![t] = s]
    /\ state' = [state EXCEPT ![t] = Shown(s, proposed)]
    /\ wait' = [wait EXCEPT ![t] = reason]
    /\ UNCHANGED <<def, run, active>>

(* Faulty variant: a failed return is taken for a failed first start. *)
StartFailedLate(t) ==
    /\ t \in Admitted
    /\ sched[t].reserved /\ sched[t].capacityHeld /\ sched[t].areaHeld
    /\ SchedulingEvent(t, [sched[t] EXCEPT !.capacityHeld = FALSE, !.areaHeld = FALSE],
                       "failed", NoWait)

(* Faulty variant: a failed start may be released again. *)
StartFailedForgets(t) ==
    /\ t \in Admitted
    /\ run[t] = 0
    /\ sched[t].reserved /\ sched[t].capacityHeld /\ sched[t].areaHeld
    /\ SchedulingEvent(t, [sched[t] EXCEPT !.reserved = FALSE, !.capacityHeld = FALSE,
                                           !.areaHeld = FALSE], "failed", NoWait)

(* A failure known to precede dispatch.  Reserved stays: no second attempt. *)
StartFailed(t) ==
    /\ t \in Admitted
    /\ run[t] = 0
    /\ sched[t].reserved /\ sched[t].capacityHeld /\ sched[t].areaHeld
    /\ SchedulingEvent(t, [sched[t] EXCEPT !.capacityHeld = FALSE, !.areaHeld = FALSE],
                       "failed", NoWait)

(* The start of a worker turn becomes the card's run. *)
Start(t) ==
    /\ t \in Admitted
    /\ sched[t].reserved /\ sched[t].capacityHeld
    /\ ~sched[t].landed /\ ~sched[t].closed
    /\ ~active[t]
    /\ run' = [run EXCEPT ![t] = @ + 1]
    /\ active' = [active EXCEPT ![t] = TRUE]
    /\ state' = [state EXCEPT ![t] = "working"]
    /\ UNCHANGED <<def, sched, wait>>

(* Faulty variant: the worker's status is shown as it came. *)
OutcomeVerbatim(status) == status

(* What setOutcome shows for a turn status when there is no receipt. *)
Outcome(status) ==
    CASE status = "completed"   -> "unknown"
      [] status = "failed"      -> "failed"
      [] status = "interrupted" -> "stopped"

(* The observed end of the current run.  The event key finish:<run> makes a *)
(* second end of the same run change nothing.                               *)
Finish(t, status) ==
    /\ active[t]
    /\ active' = [active EXCEPT ![t] = FALSE]
    /\ sched' = [sched EXCEPT
                   ![t].capacityHeld = FALSE,
                   ![t].areaHeld = @ /\ ~sched[t].closed]
    /\ state' = [state EXCEPT ![t] =
                    IF sched[t].closed THEN "stopped" ELSE Outcome(status)]
    /\ UNCHANGED <<def, run, wait>>

(* Faulty variant: only a new head counts as a conflict that came back. *)
CameBackByHead(s, r, pr) == s.conflictHead # pr.head

(* A conflict the one return did not resolve, or could not have been about. *)
CameBack(s, r, pr) == s.conflictHead # pr.head \/ (s.returnSent /\ r > 1)

(* A forge read for the run the card names. *)
ObservePullRequest(t, pr) ==
    /\ t \in Admitted
    /\ run[t] > 0 /\ ~active[t]
    /\ ~sched[t].landed /\ ~sched[t].closed
    /\ sched[t].pr = NoPR \/ sched[t].pr.number = pr.number
    /\ ~(sched[t].pr = pr /\ sched[t].prRun = run[t])
    /\ LET s == [sched[t] EXCEPT !.pr = pr, !.prRun = run[t]]
           conflict == pr.state = "OPEN" /\ pr.conflicting
       IN  \/ /\ pr.state = "MERGED"
              /\ SchedulingEvent(t, [s EXCEPT !.landed = TRUE, !.areaHeld = FALSE,
                                              !.capacityHeld = FALSE], state[t], NoWait)
           \/ /\ pr.state = "CLOSED"
              /\ SchedulingEvent(t, [s EXCEPT !.closed = TRUE, !.areaHeld = FALSE,
                                              !.capacityHeld = FALSE], state[t], NoWait)
           \/ /\ conflict /\ ~s.returnRequested
              /\ SchedulingEvent(t, [s EXCEPT !.returnRequested = TRUE,
                                              !.conflictHead = pr.head], state[t], NoWait)
           \/ /\ conflict /\ s.returnRequested
              /\ SchedulingEvent(t, s,
                   IF CameBack(s, run[t], pr) THEN "input_needed" ELSE state[t], NoWait)
           \/ /\ pr.state = "OPEN" /\ ~pr.conflicting
              /\ SchedulingEvent(t, s, state[t], NoWait)

(* Faulty variant: a return is claimed for a closed card. *)
ReturnDueClosed(t) ==
    /\ t \in Admitted
    /\ sched[t].returnRequested /\ ~sched[t].returnSent
    /\ ~active[t] /\ ~sched[t].landed

(* The guards of ClaimReturn before capacity is looked at. *)
ReturnDue(t) ==
    /\ t \in Admitted
    /\ sched[t].returnRequested /\ ~sched[t].returnSent
    /\ ~active[t] /\ ~sched[t].landed /\ ~sched[t].closed

ReturnReason(t, slots, blocked) ==
    IF def[t].worker \in blocked THEN <<"quota", def[t].worker>>
    ELSE IF Cardinality(Occupants(def[t].host)) >= slots[def[t].host]
         THEN <<"host_capacity", def[t].host>>
    ELSE NoWait

(* The sole conflict correction takes a slot before the worker is told. *)
ClaimReturn(t, slots, blocked) ==
    /\ ReturnDue(t)
    /\ ReturnReason(t, slots, blocked) = NoWait
    /\ SchedulingEvent(t, [sched[t] EXCEPT !.returnSent = TRUE, !.capacityHeld = TRUE],
                       "unknown", NoWait)

ReturnWaits(t, slots, blocked) ==
    /\ ReturnDue(t)
    /\ ReturnReason(t, slots, blocked) \notin {NoWait, wait[t]}
    /\ SchedulingEvent(t, sched[t], "waiting", ReturnReason(t, slots, blocked))

(* A worker's question or approval, and its answer. *)
WorkerInputNeeded(t) ==
    /\ active[t]
    /\ SchedulingEvent(t, sched[t], "input_needed", NoWait)

WorkerInputAnswered(t) ==
    /\ active[t]
    /\ SchedulingEvent(t, sched[t], "working", NoWait)

(* A live run that cannot be seen: an observation gap, or a restart, which  *)
(* never runs it again.  Recording the gap of one run twice changes nothing *)
(* more than the restart's event does.                                      *)
UnknownExecution(t) ==
    /\ active[t]
    /\ state' = [state EXCEPT ![t] = "unknown"]
    /\ UNCHANGED <<def, sched, run, active, wait>>

Stopping(scope) == {t \in scope \cap Admitted : ~sched[t].closed /\ ~sched[t].landed}

Stopped(s) == [s EXCEPT !.closed = TRUE, !.areaHeld = @ /\ s.capacityHeld]

(* StopScheduled closes every open card of the scope in one transaction.  A *)
(* held slot is an unsettled effect and keeps its area with it.             *)
StopScheduled(scope) ==
    LET S == Stopping(scope) IN
    /\ S # {}
    /\ sched' = [t \in Tasks |-> IF t \in S THEN Stopped(sched[t]) ELSE sched[t]]
    /\ state' = [t \in Tasks |->
                   IF t \in S THEN Shown(Stopped(sched[t]), state[t]) ELSE state[t]]
    /\ wait' = [t \in Tasks |-> IF t \in S THEN NoWait ELSE wait[t]]
    /\ UNCHANGED <<def, run, active>>

-----------------------------------------------------------------------------
Init ==
    /\ def = [t \in {} |-> {}]
    /\ sched = [t \in Tasks |-> NewScheduling]
    /\ run = [t \in Tasks |-> 0]
    /\ active = [t \in Tasks |-> FALSE]
    /\ state = [t \in Tasks |-> "unknown"]
    /\ wait = [t \in Tasks |-> NoWait]

Admit ==
    \E N \in SUBSET Tasks :
      \E q \in {p \in [N -> UNION {Definitions[t] : t \in N}] :
                  \A t \in N : p[t] \in Definitions[t]} : Schedule(q)

ReleaseAny ==
    \E slots \in [Hosts -> 0 .. MaxSlots], blocked \in SUBSET Workers :
      \E R \in SUBSET Tasks : Release(R, slots, blocked)

Return(t) ==
    \E slots \in [Hosts -> 0 .. MaxSlots], blocked \in SUBSET Workers :
      ClaimReturn(t, slots, blocked) \/ ReturnWaits(t, slots, blocked)

Next ==
    \/ Admit
    \/ ReleaseAny
    \/ \E t \in Tasks : StartFailed(t)
    \/ \E t \in Tasks : Start(t)
    \/ \E t \in Tasks, status \in {"completed", "failed", "interrupted"} : Finish(t, status)
    \/ \E t \in Tasks, pr \in PullRequest : ObservePullRequest(t, pr)
    \/ \E t \in Tasks : Return(t)
    \/ \E t \in Tasks : WorkerInputNeeded(t)
    \/ \E t \in Tasks : WorkerInputAnswered(t)
    \/ \E t \in Tasks : UnknownExecution(t)
    \/ \E scope \in StopScopes : StopScheduled(scope)

Spec == Init /\ [][Next]_vars

-----------------------------------------------------------------------------
(* Properties. *)

(* Every variable keeps the shape the Card type gives it. *)
TypeOK ==
    /\ Admitted \subseteq Tasks
    /\ \A t \in Admitted : def[t] \in Definitions[t]
    /\ sched \in [Tasks -> Scheduling]
    /\ run \in [Tasks -> Nat]
    /\ active \in [Tasks -> BOOLEAN]
    /\ state \in [Tasks -> CardStates]
    /\ wait \in [Tasks -> WaitReasons]

(* Two tasks whose write areas overlap in one repository never hold their   *)
(* areas together, whatever graphs they came from and however releases,     *)
(* failed starts, finishes, pull request reads and stops interleave         *)
(* (Release reads the cards it has just reserved).                          *)
AreaExclusion ==
    \A t, u \in Admitted :
        t # u /\ sched[t].areaHeld /\ sched[u].areaHeld => ~Excludes(def[t], def[u])

(* No host ever has more slots taken than the most it has reported: starts  *)
(* and conflict returns draw on one count (Release, ClaimReturn).           *)
HostCapacity == \A h \in Hosts : Cardinality(Occupants(h)) <= MaxSlots

(* A worker turn that Core counts as running owns its area and its slot,    *)
(* and everything it depends on has landed.                                 *)
RunsUnderLease ==
    \A t \in Tasks : active[t] =>
        /\ t \in Admitted
        /\ sched[t].areaHeld /\ sched[t].capacityHeld /\ ~sched[t].landed
        /\ Unlanded(t) = {}

(* Every recorded turn was bought by its own claim, the reservation or the  *)
(* single conflict return, and a slot held by no running turn is a claim    *)
(* whose start has not been recorded.  So a task never runs a third time    *)
(* and a crash between a claim and its start is never answered by a resend. *)
OneClaimPerRun ==
    \A t \in Tasks :
        run[t] + (IF sched[t].capacityHeld /\ ~active[t] THEN 1 ELSE 0)
          <= (IF sched[t].reserved THEN 1 ELSE 0) + (IF sched[t].returnSent THEN 1 ELSE 0)

(* Graph admission orders overlapping areas of one graph, so a task that    *)
(* waits on an area waits on a task of another graph: waiting on an area    *)
(* can never be part of a cycle inside one graph (validateGraph, Release).  *)
AreaWaitsAreForeign ==
    \A t, u \in Admitted :
        wait[t] = <<"area", u>> => def[t].group # def[u].group

(* A closed task keeps its area exactly while its slot is held, that is     *)
(* while the effect of a start or a return is unsettled, and is shown       *)
(* stopped only after that (StopScheduled, finished, advanceState).         *)
ClosedHoldsWhileUnsettled ==
    \A t \in Tasks : sched[t].closed =>
        /\ sched[t].areaHeld = sched[t].capacityHeld
        /\ state[t] = "stopped" => ~sched[t].capacityHeld

(* A landed task is out of every later transaction's reach: it holds        *)
(* nothing, runs nothing, and what it landed on had landed before it.       *)
LandedIsFinal ==
    \A t \in Tasks : sched[t].landed =>
        /\ ~sched[t].areaHeld /\ ~sched[t].capacityHeld /\ ~active[t] /\ ~sched[t].closed
        /\ Unlanded(t) = {}

(* A conflict is never left with nobody: while the last read for the        *)
(* current run conflicts, a return is due, a slot is held for one, a turn   *)
(* runs or the person is asked (ObservePullRequest, ClaimReturn).           *)
ConflictHasOwner ==
    \A t \in Tasks :
        /\ sched[t].pr.conflicting /\ sched[t].prRun = run[t]
        /\ ~sched[t].landed /\ ~sched[t].closed
        => ReturnDue(t) \/ sched[t].capacityHeld \/ active[t] \/ state[t] = "input_needed"

(* How the flags of one card hang together: a running turn has a slot, a    *)
(* slot comes with its area, an area with its reservation, a reservation    *)
(* with landed dependencies, and a card that has run keeps its area until   *)
(* it has landed or is closed, so that a return finds the area still held.  *)
CardInv(t) ==
    /\ active[t] => sched[t].capacityHeld /\ run[t] > 0
    /\ sched[t].capacityHeld => sched[t].areaHeld
    /\ sched[t].areaHeld => sched[t].reserved /\ ~sched[t].landed
    /\ sched[t].reserved => Unlanded(t) = {}
    /\ sched[t].landed => sched[t].reserved /\ ~sched[t].closed
    /\ run[t] > 0 => sched[t].reserved
    /\ run[t] > 0 /\ ~sched[t].landed /\ ~sched[t].closed => sched[t].areaHeld
    /\ sched[t].returnRequested => run[t] > 0
    /\ sched[t].returnSent => sched[t].returnRequested

(* A task nobody admitted has a blank card, and every wait names admitted   *)
(* tasks.                                                                   *)
BlankUnlessAdmitted ==
    \A t \in Tasks \ Admitted :
        sched[t] = NewScheduling /\ run[t] = 0 /\ ~active[t] /\ wait[t] = NoWait

AreaWaitsAdmitted ==
    \A t, u \in Tasks : wait[t] = <<"area", u>> => t \in Admitted /\ u \in Admitted

(* The inductive invariant behind the properties above: a card's flags, the *)
(* admitted graph, and the exclusions between cards.                        *)
ReservationInv ==
    /\ TypeOK
    /\ ValidGraph(def)
    /\ BlankUnlessAdmitted
    /\ \A t \in Admitted : CardInv(t)
    /\ AreaExclusion
    /\ HostCapacity
    /\ OneClaimPerRun
    /\ AreaWaitsAdmitted
    /\ AreaWaitsAreForeign
    /\ ClosedHoldsWhileUnsettled

(* An area is given back only when its task has landed, is closed, or never *)
(* started, and never under a running turn (docs/design/work-and-           *)
(* delegation.md, Write areas: nothing else frees it earlier).              *)
LeaseEndsSettled(t) ==
    sched[t].areaHeld /\ ~sched'[t].areaHeld =>
        /\ sched'[t].landed \/ sched'[t].closed \/ run[t] = 0
        /\ ~active'[t]

LeaseEndsOnlyWhenSettled == [][\A t \in Tasks : LeaseEndsSettled(t)]_vars

(* Once a task has landed or is closed no transaction starts a turn of it,  *)
(* sends it back, replaces its pull request or undoes the verdict.          *)
VerdictStands(t) ==
    sched[t].landed \/ sched[t].closed =>
        /\ run'[t] = run[t]
        /\ sched'[t].landed = sched[t].landed
        /\ sched'[t].closed = sched[t].closed
        /\ sched'[t].returnSent = sched[t].returnSent
        /\ sched'[t].pr = sched[t].pr

SettledStaysSettled == [][\A t \in Tasks : VerdictStands(t)]_vars

(* The scheduler keeps what AreaLeases promises, with the cards of all     *)
(* admitted graphs together: a card has its area from the release that     *)
(* reserved it until it is over, that is until it has landed, is closed,   *)
(* or was released and failed to start.                                    *)
Over(t) ==
    \/ sched[t].landed
    \/ sched[t].closed
    \/ sched[t].reserved /\ ~sched[t].areaHeld /\ run[t] = 0

Lease ==
    INSTANCE AreaLeases WITH
        meets <- {{p[1], p[2]} : p \in {q \in Admitted \X Admitted :
                                      q[1] < q[2] /\ Excludes(def[q[1]], def[q[2]])}},
        held <- {t \in Tasks : sched[t].areaHeld},
        writing <- {t \in Tasks : active[t]},
        over <- {t \in Tasks : Over(t)}

Leases == Lease!Spec
=============================================================================
