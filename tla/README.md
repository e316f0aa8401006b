# A verification of LINA Core

LINA Core is a Go program that runs a person's agents: it keeps conversations,
delegates work to coding agents, and follows the work until it has landed. This
directory holds TLA+ models of the parts where order, concurrency and crashes
decide whether it is correct, the TLC runs that check them, and TLAPS proofs.
Paths below are relative to `src/internal/core/` unless they start with `kit/`
or `docs/`.

    AreaLeases             what LINA promises about write areas, with its proofs
    WorkScheduler          durable transactions of the work scheduler
      WorkSchedulerProofs  theorems about WorkScheduler
      MCWorkScheduler      instances for TLC
    SchedulerReactor       the scheduler as it runs: handlers, workers, forge, crashes
                           (it uses WorkScheduler as its store)
      SchedulerReactorProofs  theorems about SchedulerReactor
      MCSchedulerReactor
    ConversationLane       turns, steering and notices of one conversation
      DistinctSequences    facts about queues without repetition, for the proofs
      ConversationLaneProofs  theorems about ConversationLane
      MCConversationLane
    SignalDelivery         what the outbox of finished work promises
    CompletionOutbox       the outbox and its reactor, which implement it
      CompletionOutboxProofs, MCCompletionOutbox
    WorkerDispatch         delegated work outside the scheduler: records, attempts,
                           directories, recovery, correction, cancels
      WorkerDispatchProofs, MCWorkerDispatch
    RestartFence           leases on activity and the planned restart of Core
    Timers                 timers and their fires, over the leases and restarts of
                           RestartFence (EXTENDS it)
      TimersProofs         theorems about both
      MCTimers

`PROJECT.json` lists components, runs, mutants, the map from definitions to
source lines, findings, hazards and theorems.

## 1. Inventory

### Modelled now

**Durable work scheduler** (`work/scheduler.go`, `work/schedule_stop.go`, the
run events of `work/project.go`). State: one append-only ledger per task and the
card projected from it. A scheduled card carries a reservation, a write area, a
slot of its host (`Scheduling.Reserved`, `AreaHeld`, `CapacityHeld`), its verdict
(`Landed`, `Closed`), the last pull request read and the one conflict return.
Operations, each one write transaction: `Schedule` a graph of tasks, `Release`
what may start, `Start`, `StartFailed`, `Finish`, `ObservePullRequest`,
`ClaimReturn`, `WorkerInputNeeded`/`Answered`, `UnknownExecution`,
`StopScheduled`. Correct when: overlapping areas of one repository are never held
together; slots are never oversubscribed; a turn runs only under its area and its
slot, after its dependencies have landed; a task is started once and sent back
once; an area is given back only when its task has landed, is closed or never
began; a verdict is final.

**Scheduler reactor and delegation runtime** (`reactor/scheduler.go`,
`boot/delegation.go`). State: one mutex, the release pass in progress, the worker
sessions, the channel of worker events. The reactor calls the scheduler's
transactions in sequence and talks to workers and to the forge between them; the
delegation runtime delivers worker events, sweeps every five minutes, and retires
sessions of settled tasks. Correct when: no worker is started twice, without a
lease or after a stop, whatever is lost or crashes in between; an end reported
before the reply to its start is still counted; passes end; nothing that could
start is forgotten.

**Conversation lane** (`lane/lane.go`, `lane/notices.go`), **steering queue**
(`kit/loop/inputs.go`, `kit/loop/loop.go`) and **input admission**
(`boot/conversation_steering.go`, the ends of `boot/conversation_turn.go`,
`boot/timers.go`). State: a goroutine and a queue per conversation, the active
turn with its cancellation and its queue of steered inputs, an admission mutex
with the registry of steered inputs, and a durable outbox of notices. Correct
when: one goroutine serves a conversation; an acknowledged input reaches exactly
one turn or its submitter hears of an error; notices enter between turns and are
all delivered.

**Completion outbox and reactor** (`work/completion.go`, `reactor/reactor.go`,
`boot/completions.go`). State: a row for every result of a run, a claim per row
bound to the epoch of the Core that took it, and one goroutine that drains the
pending rows. A worker's receipt may come before or after the end of its run, the
head of its branch may move under a signal, a verdict may settle it first. Correct
when: every ended run with a receipt has its row; a result is told to the manager
at most once, only after it was seen to be the present one, and, if it stays, in
the end, whatever fails or crashes between the reaction and its acknowledgement.

**Worker dispatch** (`worker/dispatch`, `worker/recovery`). State: a record per
task, the card with its run and receipt, reserved directories, the pass over all
records, one goroutine for each execution, and the copies of the record that they
hold. Operations: admit, cancel, the pass (interrupt, observe, refuse, claim,
notice), an execution (prepare, reserve a worker, launch, bind, run, stop, deliver,
close, save), the reaction with its verdict and its one correction, restart.
Correct when: nothing is run again while the effects of the last turn are unknown,
and its directories stay reserved until then; a task whose area meets another's
waits until the other's result is applied; a cancel is never lost and always
settles; the end of every task is told.

**Activity leases, restart fence and timers** (`kit/lease`, `lifecycle`,
`ctlfiles/restart.go`, `clientsrv/restart.go`; `timers`, `boot/timers.go`). State:
the registry of leases with the calls inside them and its fence, the durable
restart request, the controller; timers, fires and their claims in the store, and
the deliveries of this Core. A timer's turn needs a lease, so a restart may refuse
it and must wait for it. Correct when: a restart is committed only while nothing
blocks it, happens once for a request and is carried out in the end; a fire is
tried within its budget, is recorded as what it was, and settles.

### How these interact

A person's message is committed, then offered to the running turn
(`Manager.Steer`) or queued on the lane (`Manager.SubmitLoop`). A turn may call
`schedule_work`, which calls `Scheduler.Schedule`; that admits the graph and runs
a release pass. The pass reserves cards, starts a worker for each, and records
each run. Worker events reach `Scheduler.Completed`, which finishes the run, reads
the forge and runs another pass. A landing reaches the conversation as a notice on
its lane. The end of a run leaves a row in the outbox in the same transaction; the
reactor reads the rows and starts a manager turn for each, or hands it to the
dispatcher if the task is one of its own. Timers start turns too. Every turn, every
delegated run and every reply of the restart control holds a lease, which the
planned restart of Core waits for. Everything durable goes through canon, a SQLite
store with one writer: a `db.Write` is one step of a model. Everything else
(mutexes, channels, calls to workers, the forge) is where the interleavings come
from.

### Not modelled yet

| Part | State and operations | What makes it hard |
| --- | --- | --- |
| Goal steps, quota windows and backups of the dispatcher (`worker/dispatch/goal.go`, `quota.go`) | the engine's steps, measured quota, restored records | plans read before a step and used after it |
| Work switch (`work/switch.go`) | approved, active, rollback pending, rolled back | runs admitted while control is handed back |
| Steering of running work (`work/steering.go`, `binding`) | messages and their delivery state | acknowledgement racing a restore |
| Goal engine (`work/goal`) | goals, actions, waits, nodes in a journal | claims under an epoch, stale plans, run limits, expiring waits |
| Waiting decisions (`waiting`) | decisions by revision | two devices answering one row, stale revisions |
| Turn store (`turn`, `compaction`) | turns, rounds, calls, partial text | terminal transaction against cancellation; recovery |
| Background runs (`runs`, `budget`) | runs, promotions, follow-ups | promotion replay, capacity, stop racing a landing |
| Authority and effects (`authority`, `exec`) | grants, prepared and settled effects | effects of unknown outcome |
| Exchange, A2A, channels, gateway, messenger, client server | deliveries and cursors | duplicates, reordering, reconnects |

These are left out for time, not because they could not be modelled; the rest
of the store's reads and the forge are answers the models choose freely. Left out
for good: the terminal UI, clients and importers (interfaces), protocol
code (generated), provider clients and codecs (data), memory, recall, persona,
skills and miniapps (content rather than control), install and update, native
helpers and tools. `PROJECT.json` says so for each.

## 2. Plan

Order is by what would hurt most if it were wrong. Done: 1 to 5 without the work
switch, and the fence and the timers of 7.

1. `WorkScheduler` with its proofs: the lease on write areas is what keeps two
   agents from overwriting each other.
2. `SchedulerReactor`: the same store under real interleavings, losses and
   crashes. `StoreSpec` shows that it implements `WorkScheduler`.
3. `ConversationLane`: turns, steering, notices.
4. `CompletionOutbox`: from a result to one reaction; it implements
   `SignalDelivery`.
5. `WorkerDispatch`: the unscheduled way to run a worker, with cancel, recovery
   and correction. Next: `WorkSwitch`, the handing over of control.
6. `TurnStore`: the turn that `ConversationLane` treats as claim, rounds and end.
7. `RestartFence` and `Timers`. Next: `WaitingDecisions`, a small protocol.
8. `GoalEngine` and `Runs`: the largest, on top of 4 to 6.
9. Pure algorithms against reference definitions over bounded inputs:
   `dependencyReachability` (the worklist of `work/scheduler.go` 174) and
   `ScheduledAreasOverlap` (the product automaton of `work/scheduled_areas.go`).

Abstract specifications: stated are `AreaLeases`, which `WorkScheduler`,
`SchedulerReactor` through it, and `WorkerDispatch` implement; `SignalDelivery`,
which `CompletionOutbox` implements; `WorkScheduler`, which `SchedulerReactor`
implements; and `RestartFence`, which `Timers` implements. Worth stating: a mailbox
that delivers each input once, refined by `ConversationLane` while it is
`Undisturbed`.

Every safety property of a passing run is proved (section 6), and of the liveness
properties the part that says who acts next: a signal, a fire, an end or a notice
that waits is in somebody's hands. Theorems next: the refinement just named, and
the same question for the release pass (`PassEnds`, `NothingForgotten`).

## 3. The models

### WorkScheduler

| Variable | Code |
| --- | --- |
| `def` | the `Task.Schedule` of the admitted cards; its domain is the set of cards |
| `sched` | `Card.Scheduling` |
| `run`, `active` | `Card.Run.Generation` (0 for nil), `Card.Active` |
| `state`, `wait` | `Card.State`, `Card.WaitReason` |

Each action is one transaction of the code, guards and state shown included.
`AreaLeases` is what the two ways to run a worker, scheduled and dispatched, have in
common: tasks whose areas meet, those that have their area, those somebody writes
for, those that are over. `WorkScheduler` maps it to its cards, with a card over once
it has landed, is closed, or was released and failed to start; `WorkerDispatch` to
its records, with a task over once its result is applied. The steps differ: the
scheduler gives out many areas in one pass and takes some back by a stop, the
dispatcher gives out one with a claim and takes it back with a verdict.

`Release` states a whole pass as the one set `R` for which every candidate is in
`R` exactly when nothing stands in its way given the members of `R` before it:
that is what the loop over cards in id order computes, and the reason recorded for
each card that stays behind is the first the code finds. Task ids are numbers
because the order matters. An area is a set of cells; two areas overlap when they
share one. Capacity and quota are chosen anew in every call, up to `MaxSlots`.

### SchedulerReactor

The store is `Store == INSTANCE WorkScheduler`. `at`, `task`, `due`, `av`, `freed`
are the holder of `Scheduler.mu`: where it is, the card in hand, the cards of the
list it still has to visit, the availability it read, and whether a failed start
freed something. `turns`, `busy`, `session`, `events`, `forge` are what the world
really did: turns a worker accepted, whether it runs, whether Core still forwards
its events, events on their way, and the pull requests. A release pass is
`Begin` (availability and the list of returns), `Claim`/`SendReturn`/`RecordReturn`
for each return, then `Release`, `SendStart`, `SettleUnsent` or `RecordStart` for
each card, and again from `Release` while failed starts freed something. Every
other step of the system may fall between two of these. `Crash`, `Restart` and
`Recover` end a pass anywhere, forget sessions and events, and mark live runs
unknown one by one before the wake of the next start.

A turn is identified by its task and number, as thread and turn ids identify it.
Recording a start may fail after the worker accepted it. A reply may be lost. The
admission of a completion may fail, which drops the event (`Dropped`). Retirement
of a session closes the worker process.

### ConversationLane

`entry` is the lane the manager knows, `pc` where each goroutine is, `queue` and
`check` its queue of turns and its flag to look for notices, `job`, `active`,
`cancelled`, `buffer`, `open`, `followups` the turn in hand and its steering queue,
`admitting`, `accepted`, `heard`, `reported` the fate of inputs, `outbox` the
stored notices. What the code does under `Manager.mu` is one step; what it does
between two sections is two. `Admit` and `Queue` are the two halves of an
admission under the coordinator's mutex; `Take`, `Execute`, `Claim`, `Round`,
`End`, `FollowUp`, `Settle` are a turn, `FailEarly` and `FailClaim` its failures,
`Publish` the turn of a due reminder; `CheckNotices`, `Deliver`, `CheckAgain` the
delivery of notices. `heard` and `reported` are history: which inputs a turn took,
and which ended in an error the submitter can see or in a crash.

### CompletionOutbox and SignalDelivery

`run`, `ended`, `receipt`, `head`, `completionHead`, `verdict` are the fields of
`Card` that a completion is made of; `rows` is `work_completions`, `claim` and
`owner` are `work_completion_claims`; `turn` is the state in `turn_runs` of the turn
a signal started. `pc`, `woken`, `todo`, `now` are `Reactor.Run` and `Drain`:
subscribe, reconcile, read the pending rows, claim one, react, acknowledge, wait.
`reactCompletion` is `Recheck`, `BeginTurn`, `EndTurn`; `Fail` is its error, `Sweep`
the tick that repairs missing rows and lets this epoch's own open claims go,
`Crash` and `Open` a restart with the recovery of open turns. `Start`, `Finish`,
`Submit`, `ObserveHead`, `RestoreHead`, `Judge` and `Block` change cards at any
time, each with the row it inserts. A signal's id is a digest of its fields, so a
signal is its own id. `excused` is history: the signals found replaced or judged.

`SignalDelivery` has no rows, claims or epochs: a result is chosen while it is
shown, told at most once and settled when it was told or excused. `Delivers` is its
specification under a refinement mapping: a result is told when its turn has begun,
chosen while the reactor is between its check and that turn.

### WorkerDispatch

`rec` is `worker_dispatch` (the fields of `Record` that decide anything), `card`
the card of the task, `reserved` the directories in `work_worker_reservations`,
`pend` the completions the outbox has not settled, `sync` the pass with the list
it goes by and the notice it is publishing, `exec` the execution of each task with its own copy of the record,
`react` the delivery of a completion and `turn` what the worker's turn really is,
with how much is known of what it did. A pass reads all records at once (`List`)
and then comes to one after the other (`Onward`), while executions, reactions and
cancels go on. What it does there goes by the record as listed (`Seen`), and a
refusal, an observation and a notice save that copy, which may be out of date;
`Claim` alone reads the record again, and `Interrupted` compares the state and the
attempt. `Publish` is slow, so `Notice` and `Noticed` are two steps. An execution
goes through the places of `execute.go`: `Prepare` reserves (unless it only
observes) and saves, `Reserve` picks a
worker, `Launch`, `Bind`, `StartRun` start it, `HearCancel`, `StopExpired`,
`Expire`, `Break`, `QuotaStop`, `TurnEnds` are the event loop, `Deliver` is the
transaction of `finish`, `Check` and `Close` decide about the directories, `End`
saves the outcome. Recovery and correction put the record back to queued and give
the task one new attempt each. Goal steps, packets, Git and progress are left out:
each may make its step fail. Quota, load and authority are a choice at the moment
they are asked for.

### RestartFence and Timers

`leases`, `released`, `calls`, `fence` are `ActivityRegistry` and the states of its
leases; `file` is `lifecycle.json`, `request`, `failure`, `pc` the `Restarter` and
the place of its `Run`, `client` a request of the restart control with its reply,
`phase` and `epoch` the process. A control write may have an unknown outcome: it is
made or not, and the controller ends Core at its next edge either way. `Prepare`,
`Look`, `Later`, `Commit`, `SaveCommit`, `Exit` are one `Step`, with other
goroutines in between. An activity that is `Reported` does not block a restart.

Timers add `kind`, `enabled`, `next`, `due`, `signature` (the table `timer`),
`state`, `claimed`, `attempts`, `sampled`, `changed` (`timer_fire`), `stage` (a
delivery of this Core) and `turn`, `told` (what it did). `ClaimDue` is the pass of
the sleeper, with the next instant of every schedule it claims from; `Deliver`
gives a claim to one of the workers, `Publish`, `Observe`, `Undertake`, `Enter`,
`BeginTurn`, `EndTurn` are `reactTimer`, `Finish` and `Fail` settle the fire and
`Recover` judges the claims of dead Cores. `Refused` is the fence: the turn does
not get its lease. A schedule is the number of its instants and the clock reaches
them in order. `tries` and `exited` are history.

## 4. Runs

All runs use two TLC workers and end within five minutes.

| Run | Instance | Shows |
| --- | --- | --- |
| `scheduler` | graphs with cycles, wrong order and unordered overlaps among 3 tasks; up to 2 slots, 1 head | types, what `validateGraph` lets in is safe to release, an owner for every conflict, areas given out and back as `AreaLeases` says, verdicts that stand |
| `reactor` | 2 rival tasks, 2 slots, 1 fault | no second start, no worker without a lease or after a stop; every step is a transaction of the store |
| `progress` | 2 rival tasks, 1 slot, a silent forge, 1 fault; or one task, a forge that conflicts and merges, two heads, 1 fault | passes end; freed areas are given out; ends are counted; merges are noticed |
| `lane_turns` | 2 inputs, a reminder, a notice; an interrupt, early failure, failed delivery, crash each | one goroutine, each input once, notices between turns, an input lost in two places only |
| `lane_inputs` | 2 inputs, 4 notices of two owners in two windows, a crash | every input is answered, every notice is delivered |
| `outbox` | a repository task and a file task, a head that moves, files handed in twice, 1 fault (a failed reaction or a crash) | every ended result has its row; the outbox implements `SignalDelivery`; a result that stays is told |
| `dispatch` | one task with two attempts, two workers, a cancel and a restart; or one attempt of it with a second task at the door of its area; or all the attempts it can ever get, and no cancel | directories are fenced, areas are kept as `AreaLeases` says, a delegation is worked on six times at most, nothing uncertain is run again, cancels stand |
| `dispatch_cancel` | one task with two attempts, two workers, a cancel and a restart | canceled work settles, whatever its worker does |
| `timers` | one timer of any kind (a sensor with two instants), another activity, a client; a crash or an unsure write | a restart stands still, happens once and is carried out; fires are tried within their budget, are what they are recorded as, and settle |
| `lane_reminder`, `lane_stop` | 2 inputs | two violations, section 7 |
| `dispatch_notice` | one task, two attempts, a cancel, no restart | a violation, section 7 |

**Bounds.** Two rivals and one bystander are enough for exclusion: the properties
speak of pairs, and the third card adds a chain of dependencies and a wait across
graphs. The code only compares a head with one it remembers, so one head is
enough for a conflict that comes back after the return; in `progress` the head
moves as well, and `ConflictOwned` is proved for any number of heads. Slots matter
against the number of tasks, so one and two with two and three tasks cover too
few, enough and plenty. Generations end at two by themselves. One fault in
`reactor` may fall between any two steps; it meets stops, lost replies and failed
records, which are not bounded. In the lane, two goroutines are as many as can
overlap while one retires; two inputs let one be in a turn and one be steered or
queued, and with the reminder of `lane_turns` all three; four notices make a
batch of two, one of another owner and one too late. In the outbox one run of
each task is enough, since a signal of an earlier run is one more signal that is
not the present one: moved heads and files handed in again make those. In the
dispatcher two attempts of a task meet each other through its reservation and its
record, and `Limits` gives either those, or a second task that waits, because the
two questions share no step. A third instance sets the limit to seven, which is one
more than is ever used: the recovery and the correction end by themselves at one
each, and the sixth turn is the last. One timer suffices for the claims, which never look at another timer; a
sensor needs two instants, so that a change may be met by a second sample.
`MaxStops`, `MaxEarly`, `MaxFailed`, `MaxCrashes`, `MaxFaults` and `MaxMoves`
bound faults and second thoughts, never the normal work. The safety properties
listed in section 6 are proved for all sizes.

Deadlock is checked for the scheduler, the reactor and the timers. A lane may
stop for good, when it is closed or when every input has been heard, so the lane
runs do not. The outbox, the dispatcher and the runs of a lane stop when all work
is done and the bounds are used up; the timers never do, since other work comes
and goes.

Each property has a mutant in `PROJECT.json`: a definition with a bug such a change
could introduce, kept in the module as a "faulty variant" and used by no
specification. The run must find the property violated with it.

## 5. Fairness

`SchedulerReactor.Fairness`: the holder of the mutex goes on (`WF(Holder)`): every
call it makes has a deadline. An availability and a forge read that keep being
asked for succeed sometimes (strong fairness of `Granted` and of `Noticed`). Go's
`sync.Mutex` gives a waiter the lock after a millisecond of starvation, so the
event loop and the sweep, which visits every inactive card every five minutes,
get their turn (strong fairness of `Handled` and `Observe` for an inactive card).
Nothing is assumed of workers, people, or the forge: turns may run for ever and
requests stay open. `progress` uses this fairness; its `SmallSpec`
bounds submissions and the forge, which are under none, so nothing fair is cut off. The sweep skips active
cards, as the code does, and `MergeNoticed` excludes them.

`ConversationLane.FairSpec`: an admission that has begun finishes and the lane's
goroutine goes on; a turn ends because its budget does. Nobody has to send, stop
or close.

`CompletionOutbox.FairSpec`: the reactor's goroutine goes on, turns end, Core is
started again after a crash (`WF(React)`), and a tick of the sweep is seen
(`SF(Sweep)`): `select` chooses at random between a tick and a change that are both
there. Nothing is assumed of workers, heads and verdicts.

`WorkerDispatch.FairSpec`: the loop wakes at least once a minute, lists the records
(`WF(List)`) and comes to every one of them, its calls return (`SF` of the pass over
each record), and what an execution waits for is bounded (`WF(Proceed)`). `Proceed` leaves out what need not happen: a
worker that breaks the protocol or runs into its deadline. A worker may go on for
ever; that a cancel settles nevertheless is the point of `CancelSettles`.

`Timers.FairSpec`: the sleeper and each delivery go on, the supervisor starts Core
again and it recovers, serves and observes, a client's request goes on until it is
answered, and an activity that blocks a restart ends. The last is an assumption
about what Core waits for, not about its code: the controller waits for ever
(`lifecycle/restart.go`, comments of `Step` and `Run`), so `DrainEnds` says that
nothing of Core's own stands in the way.

## 6. Proofs

Every theorem holds for all values of the constants. The assumptions are those the
modules declare and TLC evaluates in every run: task ids are a finite set of
naturals without 0, a definition names known dependencies, hosts and workers,
`MaxSlots` and the bounds on faults are naturals, `NoHead` is no head, a stop
selects tasks, an offer has at most `MaxSlots` slots per host.

### AreaLeases

| Theorem | Property |
| --- | --- |
| `AreasExclusive`, `WritersApart` | `[]` of `Exclusive`, `NoTwoWriters` |
| `OverIsOver` | `OverStaysOver` |

They are proved once, about five actions, and hold of everything that implements
`AreaLeases`: `SchedulerLeases`, `ReactorLeases` and `DispatchLeases` say who does.

### WorkSchedulerProofs

| Theorem | Property |
| --- | --- |
| `Reservations` | `[]ReservationInv` |
| `SchedulerLeases` | `Leases`: the scheduler implements `AreaLeases` |
| `Types`, `Exclusion`, `Capacity`, `Leased`, `Claimed`, `Foreign`, `Closed`, `Final` | `[]` of `TypeOK`, `AreaExclusion`, `HostCapacity`, `RunsUnderLease`, `OneClaimPerRun`, `AreaWaitsAreForeign`, `ClosedHoldsWhileUnsettled`, `LandedIsFinal` |
| `LeaseEnds`, `Settled` | `LeaseEndsOnlyWhenSettled`, `SettledStaysSettled` |
| `ConflictOwned` | `[]ConflictHasOwner` |

`AreaExclusion` alone is not inductive: a release pass adds many areas at once.
`ReservationInv` adds what makes it so. A card that holds a slot holds its area
and has a reservation (`CardInv`), so a conflict return needs no look at areas:
it already has its own. A card that has run keeps its area until it lands or
closes, so a return never takes an area somebody else got meanwhile. For
`Release` the members of `R` are compared by id: the later of two was admitted
with the earlier in `AreaHolders`, so they exclude each other neither with what
was held nor among themselves. For `HostCapacity` the largest member of `R` on a
host was admitted below the limit with every other occupant counted, and that set
and the member make the new occupants; `GreatestExists` proves that finite sets of
naturals have a largest member. `AreaWaitsAreForeign` needs `ValidGraph`: two
overlapping tasks of one graph are ordered, the later waits for a dependency, not
for an area, and the earlier cannot find the area of the later held, since a
reservation means that all dependencies, and so all ancestors, have landed.
`OneClaimPerRun` counts claims (reservation, return) against runs and claims not
yet used. `ConflictHasOwner` is inductive together with `OwnerInv` of the proofs:
a running turn is newer than the last read, and a return that was claimed and has
not run holds its slot. For `SchedulerLeases` each transaction is one step of
`AreaLeases` or none: `Schedule` is `Join`, since new cards hold nothing; `Release`
is `Grant`, where the exclusions among its members are needed again; `Start` is
`Begin`, for which the card must hold its area and not be over (`CardInv`); failed
starts, ends, forge reads and stops are `End`, and they free an area only with a
verdict or when nothing has run.

### SchedulerReactorProofs

| Theorem | Property |
| --- | --- |
| `Reactor` | `[]ReactorInv` |
| `Implements` | `StoreSpec`: the reactor implements `WorkScheduler` |
| `ReactorLeases` | `Proved!Leases`: and so `AreaLeases` |
| `ReactorTypes`, `Launched`, `UnderLease`, `Apart` | `[]` of `TypeOK`, `LaunchedByClaim`, `WorkersUnderLease`, `NoTwoWriters` |
| `NoneAfterStop` | `NoStartAfterStop` |
| `Ends` | `EndsReported` |

`StoreStep` shows that each step of a handler is one transaction of the store or
none; with it the store keeps `ReservationInv` and `Implements` follows. The model
uses the store as an instance of `WorkScheduler`, the theorems about the store come
as an instance of `WorkSchedulerProofs`, and `SameStart`, `SameStep` and `SameInv`
say that the two instances mean the same. `ReactorInv` adds two parts. `TurnsInv`
is about one card: turns its worker accepted are at most its claims and at least
its recorded runs, an active run is the last turn, a running worker has the lease
or the forge's verdict, and an end on its way belongs to a turn that runs no more.
It is stable under a transaction that spares the card (`Spares`), which is each but
three of them on the card in question: `Start`, which needs the accepted turn to be
the next one, and `Finish` and `StartFailed`, which take a lease and need the worker
to have stopped or never started. `HolderInv` supplies exactly that: what the holder
of the mutex read in one transaction still holds in the next, although it lets
workers, forge, crashes and session retirement happen in between, because only the
holder changes cards.

`EndsReported` is the safety half of `FinishCounted`: a run that Core counts as
active, or is about to, and whose session it hears from is going on or its end is on
its way. It is not invariant, for the event loop drops an end that cannot be admitted
(`boot/delegation.go` 579), so it is stated as holding at first and kept by every step
but that one. An end is taken by `Completed` only when the card records its turn as
active, and while the start is still being recorded the mutex keeps `Completed` out.

### ConversationLaneProofs

| Theorem | Property |
| --- | --- |
| `Lanes` | `[]LaneInv` |
| `LaneTypes`, `SingleRunner`, `Once` | `[]` of `TypeOK`, `OneRunner`, `HeardOnce` |
| `Between` | `NoticesBetweenTurns` |
| `Handover` | `[]HandoverInv` |
| `Losses` | `LossesKnown` |
| `Looks` | `NoticesLookedFor` |
| `Accounted` | `[]InputsAccounted`, when `Undisturbed` |

`LaneInv` says that one goroutine is alive, so the others hold nothing, and that an
input is in one place at a time: in admission, in a queue, in hand, steered, or
given back, and unheard outside a turn. Queues are sequences without repetition;
`DistinctSequences` has the facts about appending, taking the head and joining two.
`HandoverInv` adds that a turn that was neither interrupted, nor failed before it
owned its queue, nor was a reminder, returns with its steering queue empty and
closed: `Close` and `Push` exclude each other, so whatever was accepted has been
drained or is given back. `Undisturbed` is not there for convenience: section 7
shows the losses without it.

`LossesKnown` says that there are no others, and assumes nothing: an accepted input
is lost only from the steering queue of a reminder that is being published, or of a
turn that returned with an error before it took its own input. It rests on
`LeftOverInv`, that a turn which returns with its queue open, or with something in
it, is such a turn. `NoticesLookedFor` is the same kind of fact about notices: while
one is pending a goroutine is alive that is going to look for it, and only a delivery
that fails breaks that, because the lane does not look again then.

### CompletionOutboxProofs

| Theorem | Property |
| --- | --- |
| `OutboxInvariant` | `[]` of `TypeOK`, `RowForResult` and the invariant behind them (`SettledIsAccounted`, `OneReaction`, `OutboxInv`) |
| `OutboxTypes` | `[]TypeOK` |
| `OutboxDelivers` | `Delivers`: the outbox implements `SignalDelivery` |
| `NoLostWakeUp` | `[]NoSignalUnheard` |

The invariant says what a claim means: a claimed row belongs to this epoch only
while the reactor holds it, a settled one was told or excused, a signal that is
being told has no turn yet, and a signal about the present result of an ended run
has a row. The refinement takes one step of the reactor after the other: telling is
`BeginTurn`, excusing happens where the code finds the signal replaced or judged,
and a crash forgets what was chosen. `NoSignalUnheard` is about the moment between
the last look at the rows and the wait: whatever is committed in it has woken the
reactor, so its wait ends at once.

### WorkerDispatchProofs

| Theorem | Property |
| --- | --- |
| `DispatchInvariant` | `[]` of `TypeOK`, `DirectoriesFenced` and the invariant `DispatchInv` |
| `DispatchTypes`, `DispatchTurns` | `[]` of `TypeOK`, `AtMostSixTurns` |
| `DispatchNoReplay` | `NoReplay` |
| `DispatchCancelKept` | `CancelKept` |
| `DispatchArea`, `DispatchLeases` | `[]AreaLease`, and `Leases`: the dispatcher implements `AreaLeases` |
| `DispatchWorkersApart` | `[]WorkersApart`: two workers whose areas meet never work together |
| `DispatchStarts` | `[]StartsUnhindered`: a run is never refused for the last one |

`DirectoriesFenced` rests on what an execution knows at each place (`FenceInv`): one
that runs a worker has reserved the directories first, launches only when nothing
uncertain is left, and lets go only then. That in turn rests on the record
(`RecordInv`): it stays the way it was begun until the result is delivered, and a
copy in memory is of the present attempt. A copy of the pass that may still be
saved (`Copied`) meets an execution only where both say unknown, or after the run
has ended, so that a late save takes back no launch (`CopyBack`, `CopiedBack`). For `AreaLease`
the proofs add `AreaInv`: whoever holds an area keeps it (`HeldInv`, also through
the copies that are saved later), and what an area was freed for is not undone,
since a result that is verified belongs to a settled record whose run has ended,
and an execution that could still unsettle it exists only before its delivery
(`SettledInv`). Only `Claim` takes an area, and it looks at all others.
`DispatchLeases` needs one thing more: whoever is at work has its area, which
`WriterInv` says.

No counter in the code says how often a task may run: `dispatch_attempts` is a
configured limit, and what really ends it is that `Tried` holds at most two workers
and is emptied twice, by the recovery and by the correction, each of which happens
once. `SpendInv` puts that into numbers: a card's turns are at most the attempt its
record has reached, and that attempt is at most the workers in `tried` and two for
each recovery and correction there has been. It must hold of every copy of the
record that somebody will save, the execution's and the pass's, and between
`Reserve` and `StartRun`, where the record is ahead of the card, by exactly one.

`StartsUnhindered` says that the guard of `StartRun` in the ledger never bites: a
worker that has been launched would be cut, its effects unknown, if the run before
it still counted as active. `FreshInv` is why: while a run is active it is the last
attempt that was reserved, its record does not wait, and no execution holds an
outcome from which the record could wait again. A quota stop ends the run in the
step that goes back to choose a worker, and a record is queued again only with the
receipt of its run.

### TimersProofs

| Theorem | Property |
| --- | --- |
| `FenceHolds` | the invariant of `RestartFence` alone |
| `TimersUseTheFence` | `Timers` implement `RestartFence` |
| `TimersInvariant`, `TimersTypes` | the invariant, `[]TypeOK` |
| `TimersExitQuietly`, `TimersExitOnce` | `[]QuietExit`, `[]ExitsOnce` |
| `TimersTryOnce`, `TimersDoTheirWork` | `[]TriesBounded`, `[]HandledMeansDone` |
| `TimersInHand` | `[]FiresInHand` |

The fence's invariant has three parts: ranges; the place of the controller and of
the client against the fence and the leases (a Core that looks, commits or exits
has closed admission, so nothing blocking can come after its look); and the
request in memory against the file (the file is never behind what the controller
does, whatever a write came to). It is proved once, and `TimersUseTheFence` carries
it over: each step of a delivery is a lease step or leaves the fence alone. The
timers add `ClaimInv` (a delivery exists for a claim of this epoch and attempt, its
lease matches its stage, and the attempts bound the tries) and `WorkInv` (what a
fire has done against what is recorded, and a stored signature against the fire
that took it). A claim without a delivery would wait for the next restart.
`FiresInHand` says there is none: a Core makes no claim of its own before it has
recovered (`HandInv`), so `Recover` judges every claim it finds or delivers it again.

### Proved, and in no run

`Exclusion`, `Capacity` (`HostCapacity`), `Leased`, `Claimed`, `Closed`, `Final` and
`LeaseEnds` of `WorkSchedulerProofs`, `DispatchArea` and `DispatchWorkersApart` of
`WorkerDispatchProofs`, and the inductive invariants. The runs check the stronger
`Leases` instead, and what the reactor makes of the others (`WorkersUnderLease`,
`LaunchedByClaim`). `DispatchStarts`, `Ends`, `Looks`, `NoLostWakeUp` and
`TimersInHand` are the safety half of liveness properties the runs check in whole;
their properties were checked with TLC on the same instances before they were
proved. `Accounted` follows from what `Losses` says, and `lane_reminder` and
`lane_stop` show why it needs its assumption.

### Only model-checked

Liveness (`PassEnds`, `NothingForgotten`, `FinishCounted`, `MergeNoticed`,
`InputsSettled`, `NoticesDelivered`, `ResultsTold`, `CancelSettles`, `DrainEnds`,
`FiresSettle`), which is out of the prover's reach. Every safety property of a
passing run is proved.

## 7. Findings

- `lane_reminder`: the turn of a due reminder publishes its text and closes its
  steering queue without looking at what it returns (`boot/timers.go` 103). A
  message sent in that moment has been acknowledged and is in nobody's hands.
- `lane_stop`: a turn accepts steering as soon as it is the active one, but the
  code that hands unread steering back is inside its callback. Stopped before the
  callback began (`lane/lane.go` 154), it never hands anything back.

- `dispatch_notice`: a failed attempt with known effects queues its recovery and
  adds its completion; `React` acknowledges that completion, because the record is
  queued (`worker/dispatch/completion.go` 96). If the recovery then ends before it
  starts a run (cancelled, no longer authorized, refused, no worker), the record is
  finished, but the pass leaves the word to the reactor, since the card's run has
  its receipt (`service.go` 539), and no signal is left. The conversation is never
  told, while `worker/dispatch/REFERENCE.md` C-29 promises that terminal
  observations are published.

The same loss happens when a turn returns before anything owns its queue
(`boot/conversation_turn.go` 80 to 86): with `MaxEarly = 1`, `LaneInputs` violates
`InputsSettled`. That is why `lane_inputs` runs with no interrupt, no reminder and
no early failure. `LossesKnown`, checked in `lane_turns` with all of them and proved,
says that these are all the losses there are.

Behaviour the code chooses and the models keep: a start that failed before it was
sent keeps its reservation, so its dependents wait until they are stopped; a start
that was accepted but not recorded keeps its slot until it is settled by hand; a
lost connection leaves its card active, and the sweep passes it by.

Behaviour the models show that no property promises otherwise:

- The notice of an unknown record is slow. An observation may commit the result
  meanwhile, and `service.go` 545 saves the record as it was read: it says unknown
  again, although `worker/dispatch/completion.go` 61 wants an earlier notice not to
  stand for this result. A notice that takes minutes makes the rest of the list as
  old: an observation or a refusal of a later task saves its copy too (465, 484).
- A crash between the transaction that queues a recovery and the release of the
  attempt's directories leaves them reserved: the task's own next attempt is
  refused them, without a word.
- A task that was refused or cancelled before it started is finished and holds its
  area for good; one whose only worker was tried waits for quota for ever.
- A returned correction that a crash cuts before its worker is reserved keeps the
  snapshot of the run before it, so it is never observed and stays unknown.
- A fire that comes due during a drain, or in the moment a restart when idle looks
  at the leases, is refused its lease (`boot/conversation_turn.go` 84) and fails: a
  job becomes unknown though it never ran, a fire that only reads loses one of its
  two attempts. A sensor whose two attempts are refused has stored its signature
  already, so that change is reported as a failure and never again.
- Fires that are claimed and still queued when Core stops are judged like fires that
  ran. After a crash `Recover` also claims the read-only fire of a cancelled timer
  again (unless it is cancelled once more before the fire is claimed), which `docs/design/go-core.md` 2799 excludes.
- A control write that fails latches: the controller ends Core at the next edge.

## 8. Running

    tlc -workers 2 -config SchedulerReactor.cfg MCSchedulerReactor.tla
    tlapm WorkSchedulerProofs.tla

The same for the other modules. `tlapm` needs a minute or two for each module of
proofs, TLC at most three for a run.
