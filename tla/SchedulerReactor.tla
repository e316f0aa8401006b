-------------------------- MODULE SchedulerReactor --------------------------
(***************************************************************************)
(* The scheduler as it runs: internal/core/reactor/scheduler.go over the   *)
(* transactions of WorkScheduler, with the worker and forge hooks that     *)
(* internal/core/boot/delegation.go binds.  One mutex serialises the       *)
(* handlers, but each commits several transactions and calls workers       *)
(* between them, so a crash, a lost reply, a worker's end and a forge      *)
(* change can fall between any two of its steps.                           *)
(*                                                                         *)
(* Abstractions.  A turn is identified by its task and its number, as the  *)
(* thread and turn ids are.  Reading the forge and recording what was read *)
(* is one step: nothing else reads the forge in between.  A store write    *)
(* fails only where the code tolerates it: recording a start and settling  *)
(* a failed one.  The worker's queue of events is a set, since one task    *)
(* has one running turn; events of different tasks may overtake.           *)
(***************************************************************************)
EXTENDS Integers, FiniteSets

CONSTANTS
    Tasks, Definitions, Hosts, Workers, MaxSlots, Numbers, Heads, NoHead, StopScopes,
    Offers,      \* the capacities and quotas the availability hook may report
    MaxFaults    \* bound: faults of Core and completions it fails to admit

VARIABLES
    def, sched, run, active, state, wait,  \* the store: WorkScheduler
    at,        \* where the holder of Scheduler.mu is
    task,      \* the task the holder is working on, 0 for none
    due,       \* cards the pass still has to look at: returns, then starts
    av,        \* the availability the pass read
    freed,     \* a failed start of the pass gave its reservations back
    turns,     \* turns the worker has accepted
    busy,      \* the worker is running a turn
    session,   \* Core's adapter forwards the worker's events
    events,    \* worker events on their way to the event loop
    forge,     \* the pull request as the forge has it
    faults       \* faults and failed admissions so far

Store == INSTANCE WorkScheduler

(* What the store assumes, no task numbered 0, and offers a host can make. *)
ASSUME StoreAssumption ==
    /\ Store!TasksAssumption /\ Store!DefinitionsAssumption /\ Store!SlotsAssumption
    /\ Store!HeadAssumption /\ Store!ScopesAssumption
ASSUME ReactorAssumption ==
    /\ 0 \notin Tasks
    /\ Offers \subseteq [slots : [Hosts -> 0 .. MaxSlots], blocked : SUBSET Workers]
    /\ MaxFaults \in Nat

stored == <<def, sched, run, active, state, wait>>
pass == <<task, due, av, freed>>
world == <<turns, busy, session, events, forge>>
vars == <<stored, at, pass, world, faults>>

Event == [task : Tasks, turn : Nat, status : {"completed", "failed", "interrupted", "lost"}]

NoOffer == [slots |-> [h \in Hosts |-> 0], blocked |-> {}]

Places == {"free", "observing", "begin", "returns", "returning", "returned",
           "starting", "unstarted", "started", "recovering", "down"}

-----------------------------------------------------------------------------
(* Taking the mutex. *)

(* The handler takes the mutex, commits one transaction and goes to `next`. *)
Handler(next, transaction) ==
    /\ at = "free"
    /\ transaction
    /\ at' = next

Submit == Handler("begin", Store!Admit) /\ UNCHANGED <<pass, world, faults>>

(* A quota notice, a reset deadline, or the wake after a restart. *)
Wake == Handler("begin", UNCHANGED stored) /\ UNCHANGED <<pass, world, faults>>

(* Faulty variant: a stop does not wait for the holder of the mutex. *)
StopAnyTime(scope) ==
    /\ at # "down"
    /\ Store!StopScheduled(scope)
    /\ UNCHANGED <<at, pass, world, faults>>

Stop(scope) ==
    /\ Handler("free", Store!StopScheduled(scope))
    /\ UNCHANGED <<pass, world, faults>>

(* The sweep and refresh_work observe one card, then release. *)
Observe(t) ==
    /\ Handler("observing", UNCHANGED stored)
    /\ t \in Store!Admitted
    /\ task' = t
    /\ UNCHANGED <<due, av, freed, world, faults>>

(* Faulty variant: a completion that precedes the Start reply is not held   *)
(* back by the mutex.                                                      *)
CompletedUnserialized(e) ==
    /\ e \in events /\ e.status # "lost"
    /\ IF run[e.task] = e.turn /\ active[e.task]
       THEN /\ Handler("observing", Store!Finish(e.task, e.status))
            /\ task' = e.task
       ELSE at # "down" /\ UNCHANGED <<at, stored, task>>
    /\ events' = events \ {e}
    /\ UNCHANGED <<due, av, freed, turns, busy, session, forge, faults>>

(* A finish event counts only for the turn the card names. *)
Completed(e) ==
    /\ e \in events /\ e.status # "lost"
    /\ IF run[e.task] = e.turn /\ active[e.task]
       THEN /\ Handler("observing", Store!Finish(e.task, e.status))
            /\ task' = e.task
       ELSE Handler("free", UNCHANGED stored) /\ UNCHANGED task
    /\ events' = events \ {e}
    /\ UNCHANGED <<due, av, freed, turns, busy, session, forge, faults>>

(* The event loop skips an event it cannot admit or record, for good.  *)
Dropped(e) ==
    /\ faults < MaxFaults
    /\ Handler("free", UNCHANGED stored)
    /\ events' = events \ {e}
    /\ faults' = faults + 1
    /\ UNCHANGED <<pass, turns, busy, session, forge>>

(* A connection lost while the turn may still be running. *)
Unknown(e) ==
    /\ e \in events /\ e.status = "lost"
    /\ Handler("free", IF run[e.task] = e.turn /\ active[e.task]
                       THEN Store!UnknownExecution(e.task) ELSE UNCHANGED stored)
    /\ events' = events \ {e}
    /\ UNCHANGED <<pass, turns, busy, session, forge, faults>>

(* A question or an approval of the running turn, and its answer. *)
Input(t) ==
    /\ busy[t] /\ session[t] /\ turns[t] = run[t]
    /\ Handler("free", Store!WorkerInputNeeded(t) \/ Store!WorkerInputAnswered(t))
    /\ UNCHANGED <<pass, world, faults>>

-----------------------------------------------------------------------------
(* The steps of the holder. *)

(* Faulty variant: a card whose slot is held is not read. *)
NoticedIdle ==
    /\ at = "observing" /\ ~sched[task].capacityHeld
    /\ Store!ObservePullRequest(task, forge[task])

(* observe records what the forge shows of a card that has run and is open. *)
Noticed == at = "observing" /\ Store!ObservePullRequest(task, forge[task])

(* Nothing to read, nothing new, or a read that failed. *)
Unread == at = "observing" /\ UNCHANGED stored

(* Faulty variant: an observation releases nothing. *)
ReadForgeOnly ==
    /\ Noticed \/ Unread
    /\ at' = "free"
    /\ task' = 0
    /\ UNCHANGED <<due, av, freed, world, faults>>

(* Whatever came of the read, a release pass follows. *)
ReadForge ==
    /\ Noticed \/ Unread
    /\ at' = "begin"
    /\ task' = 0
    /\ UNCHANGED <<due, av, freed, world, faults>>

ReturnsPending ==
    {t \in Store!Admitted : /\ sched[t].returnRequested /\ ~sched[t].returnSent
                            /\ ~sched[t].landed /\ ~sched[t].closed}

(* release reads the availability once and the cards once. *)
Granted ==
    /\ at = "begin"
    /\ av' \in Offers
    /\ due' = ReturnsPending
    /\ at' = "returns"

(* Without an availability the pass gives up. *)
Unavailable == at = "begin" /\ at' = "free" /\ UNCHANGED <<av, due>>

Begin ==
    /\ Granted \/ Unavailable
    /\ UNCHANGED <<stored, task, freed, world, faults>>

(* The claim of the next pending return: granted, waiting, or refused       *)
(* because the card has become active.                                     *)
Claim ==
    /\ at = "returns" /\ due # {}
    /\ LET t == Store!First(due) IN
       /\ due' = due \ {t}
       /\ \/ /\ Store!ClaimReturn(t, av.slots, av.blocked)
             /\ at' = "returning" /\ task' = t
          \/ /\ Store!ReturnWaits(t, av.slots, av.blocked)
             /\ UNCHANGED <<at, task>>
          \/ /\ ~Store!ReturnDue(t) \/ Store!ReturnReason(t, av.slots, av.blocked) = wait[t]
             /\ UNCHANGED <<stored, at, task>>
    /\ UNCHANGED <<av, freed, world, faults>>

(* The worker accepts a turn; the reply may be lost on the way back, and a   *)
(* session forwards events once the first reply has arrived.               *)
Accepted(t, replied) ==
    /\ turns' = [turns EXCEPT ![t] = @ + 1]
    /\ busy' = [busy EXCEPT ![t] = TRUE]
    /\ session' = [session EXCEPT ![t] = @ \/ replied]
    /\ UNCHANGED <<events, forge>>

(* The return hook: refused before input is sent, or sent with or without a *)
(* reply.  Whatever it answers short of a run leaves the claim in place.    *)
SendReturn ==
    /\ at = "returning"
    /\ \/ at' = "returned" /\ session[task] /\ Accepted(task, TRUE) /\ UNCHANGED task
       \/ at' = "returns" /\ session[task] /\ Accepted(task, FALSE) /\ task' = 0
       \/ at' = "returns" /\ UNCHANGED world /\ task' = 0
    /\ UNCHANGED <<stored, due, av, freed, faults>>

(* Faulty variant: the holder keeps the task in hand. *)
RecordKept(here, next) ==
    /\ at = here
    /\ Store!Start(task) \/ UNCHANGED stored
    /\ at' = next
    /\ UNCHANGED <<task, due, av, freed, world, faults>>

(* Recording the run of a reply; a caller that is gone may not record it.    *)
Record(here, next) ==
    /\ at = here
    /\ Store!Start(task) \/ UNCHANGED stored
    /\ at' = next
    /\ task' = 0
    /\ UNCHANGED <<due, av, freed, world, faults>>

RecordReturn == Record("returned", "returns")

(* With no return left, or after failed starts gave their reservations back, *)
(* one transaction releases what the availability allows.                  *)
Release ==
    /\ \/ at = "returns" /\ due = {}
       \/ at = "starting" /\ due = {} /\ freed
    /\ \E R \in SUBSET Tasks : Store!Release(R, av.slots, av.blocked) /\ due' = R
    /\ freed' = FALSE
    /\ at' = "starting"
    /\ UNCHANGED <<task, av, world, faults>>

(* Faulty variant: a start whose reply is lost is sent again. *)
SendStartAgain ==
    /\ at = "starting" /\ due # {}
    /\ LET t == Store!First(due) IN
       \/ at' = "unstarted" /\ due' = due \ {t} /\ UNCHANGED world /\ task' = t
       \/ at' = "starting" /\ turns[t] < 3 /\ Accepted(t, FALSE) /\ UNCHANGED <<due, task>>
       \/ at' = "started" /\ due' = due \ {t} /\ Accepted(t, TRUE) /\ task' = t
    /\ UNCHANGED <<stored, av, freed, faults>>

(* Faulty variant: every failed start is settled as if nothing was sent. *)
SendStartBlind ==
    /\ at = "starting" /\ due # {}
    /\ LET t == Store!First(due) IN
       /\ due' = due \ {t}
       /\ \/ at' = "unstarted" /\ Accepted(t, FALSE) /\ task' = t
          \/ at' = "started" /\ Accepted(t, TRUE) /\ task' = t
    /\ UNCHANGED <<stored, av, freed, faults>>

(* The start hook fails before it sends, sends and loses the reply, or gets  *)
(* a run.                                                                  *)
SendStart ==
    /\ at = "starting" /\ due # {}
    /\ LET t == Store!First(due) IN
       /\ due' = due \ {t}
       /\ \/ at' = "unstarted" /\ UNCHANGED world /\ task' = t
          \/ at' = "starting" /\ Accepted(t, FALSE) /\ UNCHANGED task
          \/ at' = "starting" /\ UNCHANGED <<world, task>>
          \/ at' = "started" /\ Accepted(t, TRUE) /\ task' = t
    /\ UNCHANGED <<stored, av, freed, faults>>

(* A start that was never sent gives its reservations back. *)
SettleUnsent ==
    /\ at = "unstarted"
    /\ \/ Store!StartFailed(task) /\ freed' = TRUE
       \/ UNCHANGED <<stored, freed>>
    /\ at' = "starting"
    /\ task' = 0
    /\ UNCHANGED <<due, av, world, faults>>

RecordStart == Record("started", "starting")

Done ==
    /\ at = "starting" /\ due = {} /\ ~freed
    /\ at' = "free"
    /\ av' = NoOffer
    /\ UNCHANGED <<stored, task, due, freed, world, faults>>

-----------------------------------------------------------------------------
(* Workers, the forge and crashes. *)

(* A turn ends, or its connection is lost while it goes on. *)
WorkerEnds(t, status) ==
    /\ busy[t]
    /\ busy' = [busy EXCEPT ![t] = status = "lost"]
    /\ session' = [session EXCEPT ![t] = @ /\ status # "lost"]
    /\ events' = IF session[t] THEN events \cup {[task |-> t, turn |-> turns[t], status |-> status]}
                 ELSE events
    /\ status = "lost" => session[t]
    /\ UNCHANGED <<stored, at, pass, turns, forge, faults>>

(* A turn publishes one request, or updates it and resolves a conflict. *)
Publishes(t) ==
    /\ busy[t]
    /\ forge[t].state \in {"NONE", "OPEN"}
    /\ \E n \in Numbers, h \in Heads :
         forge' = [forge EXCEPT ![t] =
                     [number |-> IF @.state = "NONE" THEN n ELSE @.number, head |-> h,
                      state |-> "OPEN", conflicting |-> FALSE]]
    /\ UNCHANGED <<stored, at, pass, turns, busy, session, events, faults>>

(* People and other landings move an open request. *)
ForgeMoves(t) ==
    /\ forge[t].state = "OPEN"
    /\ \/ ~forge[t].conflicting /\ forge' = [forge EXCEPT ![t].conflicting = TRUE]
       \/ ~forge[t].conflicting /\ forge' = [forge EXCEPT ![t].state = "MERGED"]
       \/ forge' = [forge EXCEPT ![t].state = "CLOSED", ![t].conflicting = FALSE]
    /\ UNCHANGED <<stored, at, pass, turns, busy, session, events, faults>>

(* retireSettled closes the session of a landed or closed card, whoever     *)
(* holds the mutex; closing it ends the worker process.  One that was       *)
(* retired without a session ends like any other unseen one (WorkerEnds).  *)
Retire(t) ==
    /\ at # "down"
    /\ session[t]
    /\ sched[t].landed \/ sched[t].closed
    /\ session' = [session EXCEPT ![t] = FALSE]
    /\ busy' = [busy EXCEPT ![t] = FALSE]
    /\ UNCHANGED <<stored, at, pass, turns, events, forge, faults>>

(* A crash forgets the pass, the sessions and the events on their way. *)
Crash ==
    /\ at # "down" /\ faults < MaxFaults
    /\ at' = "down"
    /\ task' = 0 /\ due' = {} /\ av' = NoOffer /\ freed' = FALSE
    /\ session' = [t \in Tasks |-> FALSE]
    /\ events' = {}
    /\ faults' = faults + 1
    /\ UNCHANGED <<stored, turns, busy, forge>>

(* Recover marks the live runs unknown, one transaction each, and wakes.    *)
Restart ==
    /\ at = "down"
    /\ at' = "recovering"
    /\ due' = {t \in Tasks : active[t]}
    /\ UNCHANGED <<stored, task, av, freed, world, faults>>

(* Faulty variant: a restart forgets that the run may still be going on. *)
RecoverInactive ==
    /\ at = "recovering"
    /\ IF due = {} THEN at' = "begin" /\ UNCHANGED <<stored, due>>
       ELSE /\ active' = [active EXCEPT ![Store!First(due)] = FALSE]
            /\ due' = due \ {Store!First(due)}
            /\ UNCHANGED <<at, def, sched, run, state, wait>>
    /\ UNCHANGED <<task, av, freed, world, faults>>

Recover ==
    /\ at = "recovering"
    /\ IF due = {} THEN at' = "begin" /\ UNCHANGED <<stored, due>>
       ELSE /\ Store!UnknownExecution(Store!First(due))
            /\ due' = due \ {Store!First(due)}
            /\ UNCHANGED at
    /\ UNCHANGED <<task, av, freed, world, faults>>

-----------------------------------------------------------------------------
Init ==
    /\ Store!Init
    /\ at = "free" /\ task = 0 /\ due = {} /\ av = NoOffer /\ freed = FALSE
    /\ turns = [t \in Tasks |-> 0]
    /\ busy = [t \in Tasks |-> FALSE]
    /\ session = [t \in Tasks |-> FALSE]
    /\ events = {}
    /\ forge = [t \in Tasks |-> Store!NoPR]
    /\ faults = 0

Holder == \/ ReadForge \/ Begin \/ Claim \/ SendReturn \/ RecordReturn \/ Release
          \/ SendStart \/ SettleUnsent \/ RecordStart \/ Done \/ Restart \/ Recover

Handled(t) == \E e \in events : e.task = t /\ (Completed(e) \/ Unknown(e) \/ Dropped(e))

Next ==
    \/ Submit
    \/ Wake
    \/ \E scope \in StopScopes : Stop(scope)
    \/ \E t \in Tasks : Observe(t)
    \/ \E t \in Tasks : Handled(t)
    \/ \E t \in Tasks : Input(t)
    \/ Holder
    \/ \E t \in Tasks, status \in {"completed", "failed", "interrupted", "lost"} :
         WorkerEnds(t, status)
    \/ \E t \in Tasks : Publishes(t) \/ ForgeMoves(t) \/ Retire(t)
    \/ Crash

Spec == Init /\ [][Next]_vars

(* The holder of the mutex goes on, and a read or an availability that keeps *)
(* being asked for succeeds sometimes.  Go's mutex is fair to those who      *)
(* wait, so the event loop and the sweep, which observes every inactive      *)
(* card, get their turn.                                                   *)
Fairness ==
    /\ WF_vars(Holder)
    /\ SF_vars(Granted /\ Begin)
    /\ \A t \in Tasks :
         /\ SF_vars(task = t /\ Noticed /\ ReadForge)
         /\ SF_vars(~active[t] /\ Observe(t))
         /\ SF_vars(Handled(t))

FairSpec == Spec /\ Fairness

-----------------------------------------------------------------------------
(* Properties. *)

(* Every variable keeps its range, and the holder has a task in hand exactly *)
(* where its next step is about one.                                       *)
TypeOK ==
    /\ Store!TypeOK
    /\ at \in Places
    /\ task \in Tasks \cup {0}
    /\ task # 0 <=> at \in {"observing", "returning", "returned", "unstarted", "started"}
    /\ due \subseteq Tasks
    /\ av \in Offers \cup {NoOffer}
    /\ freed \in BOOLEAN
    /\ turns \in [Tasks -> Nat]
    /\ busy \in [Tasks -> BOOLEAN]
    /\ session \in [Tasks -> BOOLEAN]
    /\ events \subseteq Event
    /\ forge \in [Tasks -> Store!PullRequest \cup {Store!NoPR}]
    /\ faults \in 0 .. MaxFaults

(* The claims a card has spent on turns. *)
Claims(t) ==
    (IF sched[t].reserved THEN 1 ELSE 0) + (IF sched[t].returnSent THEN 1 ELSE 0)

(* A worker is handed at most the turns its card has claims for, whatever    *)
(* replies are lost and wherever Core crashes and recovers: the first turn   *)
(* after the reservation, the second after the conflict return's claim.     *)
LaunchedByClaim == \A t \in Tasks : turns[t] <= Claims(t)

(* A worker that is really running writes under its task's slot and area,    *)
(* also when Core never learned of the turn, lost sight of it or was asked   *)
(* to stop it.  Only the forge's verdict ends the lease under a worker.      *)
Leased(t) == sched[t].areaHeld /\ sched[t].capacityHeld

Judged(t) == sched[t].pr.state \in {"MERGED", "CLOSED"}

WorkersUnderLease == \A t \in Tasks : busy[t] => Leased(t) \/ Judged(t)

(* So two workers whose areas overlap never run together, unless the forge   *)
(* has settled the request of one of them.                                 *)
NoTwoWriters ==
    \A t, u \in Store!Admitted :
        /\ t # u /\ busy[t] /\ busy[u] /\ Store!Excludes(def[t], def[u])
        => {sched[t].pr.state, sched[u].pr.state} \cap {"MERGED", "CLOSED"} # {}

(* What the turns of one task have to do with its card: recorded turns are   *)
(* among those accepted, an active run is the last of them, and a turn whose *)
(* end is on its way does not run any more.                                *)
TurnsInv(t) ==
    /\ run[t] <= turns[t] /\ turns[t] <= Claims(t)
    /\ active[t] => run[t] = turns[t]
    /\ busy[t] => turns[t] > 0 /\ (Leased(t) \/ Judged(t))
    /\ Judged(t) => sched[t].landed \/ sched[t].closed
    /\ \A e \in events : e.task = t =>
         /\ e.turn <= turns[t]
         /\ e.turn = turns[t] /\ e.status # "lost" => ~busy[t]

(* What the holder of the mutex may rely on: the cards it has yet to start   *)
(* have a lease and no turn, also while it settles another one, a return has *)
(* been claimed and finds its one turn ended, and an accepted turn is the    *)
(* one to be recorded next.                                                *)
HolderInv ==
    /\ at \in {"starting", "unstarted", "started"} =>
         \A t \in due : sched[t].reserved /\ Leased(t) /\ ~sched[t].closed /\ turns[t] = 0
    /\ at = "unstarted" => task \notin due /\ turns[task] = 0
    /\ at = "returning" => /\ sched[task].returnSent /\ sched[task].reserved /\ Leased(task)
                          /\ ~sched[task].closed
                          /\ turns[task] = 1 /\ run[task] = 1 /\ ~active[task]
    /\ at \in {"started", "returned"} => turns[task] = run[task] + 1 /\ ~active[task]

(* The inductive invariant of the proofs. *)
ReactorInv ==
    /\ Store!ReservationInv
    /\ TypeOK
    /\ \A t \in Tasks : TurnsInv(t)
    /\ HolderInv

(* Once Stop has closed a card no worker is handed a turn of it: the stop    *)
(* waits for the pass that may already have chosen the card.               *)
NoStartAfterStop == [][\A t \in Tasks : sched[t].closed => turns'[t] = turns[t]]_vars

(* Every step of every handler, and every crash between two of them, is one  *)
(* transaction of the durable scheduler or leaves it alone.                *)
StoreSpec == Store!Spec

(* Every pass ends, although it starts over as long as failed starts give    *)
(* reservations back: a failed start is never tried again.                 *)
PassEnds == at # "free" ~> at = "free"

(* Without further faults the end of a recorded turn is counted, even when   *)
(* it is reported before the reply to its start has been recorded.         *)
FinishCounted ==
    \A t \in Tasks, n \in {1, 2} :
        (/\ faults = MaxFaults
         /\ \E e \in events : e.task = t /\ e.turn = n /\ e.status # "lost"
         /\ run[t] = n \/ (at \in {"started", "returned"} /\ task = t /\ turns[t] = n))
          ~> at = "free" /\ ~(active[t] /\ run[t] = n)

(* A run that Core counts as active, or is about to, and hears from is going  *)
(* on or its end is on its way; only an end the event loop drops is lost,    *)
(* whatever replies, connections and Cores are.                            *)
Outstanding(t) == active[t] \/ (at \in {"started", "returned"} /\ task = t)

EndComes(t) ==
    session[t] /\ Outstanding(t) =>
        busy[t] \/ \E e \in events : e.task = t /\ e.turn = turns[t] /\ e.status # "lost"

Dropping(t) == \E e \in events : e.task = t /\ e.turn = turns[t] /\ Dropped(e)

EndsReported ==
    /\ \A t \in Tasks : EndComes(t)
    /\ [][\A t \in Tasks : EndComes(t) => EndComes(t)' \/ Dropping(t)]_vars

(* A merge is noticed however the turn that published it was settled, also   *)
(* when a conflict return of it went missing.                              *)
MergeNoticed ==
    \A t \in Tasks :
        forge[t].state = "MERGED" /\ run[t] > 0
          ~> sched[t].landed \/ sched[t].closed \/ active[t]

(* No card stays releasable under everything the host may offer: what a      *)
(* stop or a late landing frees is given out without anybody asking.       *)
NothingForgotten ==
    \A t \in Tasks :
        []<>~(/\ t \in Store!Candidates
              /\ \A o \in Offers : Store!Releasable(t, {}, o.slots, o.blocked))
=============================================================================
