------------------------------- MODULE Timers -------------------------------
(***************************************************************************)
(* Durable timers over the planned restart of RestartFence: the schedules, *)
(* fires and claims of internal/core/timers/store.go, the deliveries of    *)
(* timers/runtime.go and what boot/timers.go does with a fire, which needs *)
(* a lease as soon as it starts a turn.                                    *)
(*                                                                         *)
(* Abstractions.  A canon transaction is one step.  Instants are numbered, *)
(* a schedule is the number of its instants, and the clock reaches them in *)
(* order.  Each timer has a conversation of its own, so turns wait for no  *)
(* other; a busy lane only delays them.  Reading a record and observing    *)
(* its revision is one step: nothing else writes the signature of a timer  *)
(* whose fire is claimed.  A goal_wait fire, which asks the goal engine to *)
(* look again, goes the way of a reminder.  A pass claims all that is due  *)
(* rather than 64 fires.  A settlement that cannot be stored is retried    *)
(* without a change of state.                                              *)
(***************************************************************************)
EXTENDS RestartFence, FiniteSets

CONSTANTS
    TimerIds,
    Kinds,        \* the kinds of timer somebody may create
    Instants,     \* bound: the instants in a schedule, by kind of timer
    Revisions,    \* the revisions a record may be found at
    Workers       \* deliveries that run at once

ASSUME TimersAssumption ==
    /\ Kinds \subseteq {"reminder", "job", "sensor"}
    /\ Instants \in [Kinds -> Nat \ {0}]
    /\ 0 \notin Revisions /\ Workers \in Nat \ {0}

Fires == TimerIds \X UNION {1 .. Instants[k] : k \in Kinds}

(* The turn of a fire is an activity of Core like others, which block too. *)
ASSUME FiresAssumption == Fires \subseteq Activities \ (Reported \cup {Reply})

Others == Activities \ (Fires \cup {Reply})

VARIABLES
    resumed,    \* startTimers has recovered the claims of earlier epochs
    kind,       \* Timer.Action.Kind, "none" before the timer is created
    enabled, next,   \* timer.enabled and timer.next_at, 0 for none
    due,        \* the clock has reached next
    signature,  \* timer.signature, 0 until it is initialized
    state, claimed, attempts,   \* timer_fire.state, epoch and attempts
    sampled,    \* timer_fire.signature, 0 until the fire is sampled
    changed,    \* timer_fire.changed
    stage,      \* where the delivery of a fire is
    turn,       \* turn_runs.state of the turn a fire started
    told,       \* the reminders whose text has been published
    tries       \* history: how often a fire's action was taken up

timers == <<kind, enabled, next, due, signature>>
samples == <<sampled, changed>>
fires == <<state, claimed, attempts, samples>>
effects == <<turn, told, tries>>
timerVars == <<resumed, timers, fires, stage, effects>>
vars == <<fenceVars, timerVars>>

Unsettled == {"pending", "claimed"}
Settled == {"handled", "unknown", "cancelled"}
TimerOf(f) == f[1]
KindOf(f) == kind[TimerOf(f)]
ReadOnly(f) == KindOf(f) # "job"

-----------------------------------------------------------------------------
(* The store. *)

(* Create; the same request again finds the timer and changes nothing. *)
Create(t, k) ==
    /\ resumed /\ kind[t] = "none"
    /\ kind' = [kind EXCEPT ![t] = k]
    /\ enabled' = [enabled EXCEPT ![t] = TRUE]
    /\ next' = [next EXCEPT ![t] = 1]
    /\ UNCHANGED <<fenceVars, resumed, due, signature, fires, stage, effects>>

(* Cancel; again, it also stops a fire that Recover has made pending since. *)
Cancel(t) ==
    /\ resumed /\ kind[t] # "none"
    /\ enabled' = [enabled EXCEPT ![t] = FALSE]
    /\ next' = [next EXCEPT ![t] = 0]
    /\ due' = [due EXCEPT ![t] = FALSE]
    /\ state' = [f \in Fires |->
                   IF TimerOf(f) = t /\ state[f] = "pending" THEN "cancelled" ELSE state[f]]
    /\ UNCHANGED <<fenceVars, resumed, kind, signature, claimed, attempts, samples,
                   stage, effects>>

(* Faulty variant: the last instant of a schedule is followed by another. *)
FollowingAlways(t) == next[t] + 1

(* Schedule.Next, after the instant that is claimed. *)
Following(t) == IF next[t] < Instants[kind[t]] THEN next[t] + 1 ELSE 0

Waiting(t) == \E f \in Fires : TimerOf(f) = t /\ state[f] \in Unsettled
Due == {t \in TimerIds : enabled[t] /\ next[t] # 0 /\ due[t] /\ ~Waiting(t)}

(* ClaimDue, and the queue of the deliveries: fires of the instants that    *)
(* have come and fires that wait for their second attempt.                  *)
ClaimDue ==
    LET claims == {f \in Fires : state[f] = "pending"} \cup {<<t, next[t]>> : t \in Due} IN
    /\ resumed /\ claims # {}
    /\ state' = [f \in Fires |-> IF f \in claims THEN "claimed" ELSE state[f]]
    /\ claimed' = [f \in Fires |-> IF f \in claims THEN epoch ELSE claimed[f]]
    /\ attempts' = [f \in Fires |-> IF f \in claims THEN attempts[f] + 1 ELSE attempts[f]]
    /\ stage' = [f \in Fires |-> IF f \in claims THEN "queued" ELSE stage[f]]
    /\ next' = [t \in TimerIds |-> IF t \in Due THEN Following(t) ELSE next[t]]
    /\ due' = [t \in TimerIds |-> due[t] /\ t \notin Due]
    /\ UNCHANGED <<fenceVars, resumed, kind, enabled, signature, samples, effects>>

(* Faulty variant: what a job was doing is nobody's business any more. *)
RecoverReadOnly ==
    /\ phase = "starting" /\ ~resumed
    /\ resumed' = TRUE
    /\ state' = [f \in Fires |->
                   IF state[f] = "claimed" /\ claimed[f] # epoch /\ ReadOnly(f)
                     THEN IF attempts[f] = 1 THEN "pending" ELSE "unknown"
                     ELSE state[f]]
    /\ UNCHANGED <<fenceVars, timers, claimed, attempts, samples, stage, effects>>

(* Faulty variant: every claim a dead Core left behind is tried again. *)
RecoverAll ==
    /\ phase = "starting" /\ ~resumed
    /\ resumed' = TRUE
    /\ state' = [f \in Fires |->
                   IF state[f] = "claimed" /\ claimed[f] # epoch THEN "pending" ELSE state[f]]
    /\ UNCHANGED <<fenceVars, timers, claimed, attempts, samples, stage, effects>>

(* Recover, before the first claim of this Core. *)
Recover ==
    /\ phase = "starting" /\ ~resumed
    /\ resumed' = TRUE
    /\ state' = [f \in Fires |->
                   IF state[f] = "claimed" /\ claimed[f] # epoch
                     THEN IF ReadOnly(f) /\ attempts[f] = 1 THEN "pending" ELSE "unknown"
                     ELSE state[f]]
    /\ UNCHANGED <<fenceVars, timers, claimed, attempts, samples, stage, effects>>

-----------------------------------------------------------------------------
(* Deliveries. *)

Goes(f, place) == stage' = [stage EXCEPT ![f] = place]

Stages == {"none", "queued", "running", "entering", "leased", "turn", "finish", "fail"}
Leased == {"leased", "turn"}
Running == {f \in Fires : stage[f] \notin {"none", "queued"}}

(* A worker of Run takes a fire of the queue and calls reactTimer. *)
Deliver(f) ==
    /\ stage[f] = "queued" /\ Cardinality(Running) < Workers
    /\ Goes(f, "running")
    /\ tries' = [tries EXCEPT ![f] = @ + 1]
    /\ UNCHANGED <<fenceVars, resumed, timers, fires, turn, told>>

(* Whatever can go wrong before the fire has done anything. *)
Breaks(f) ==
    /\ stage[f] \in {"running", "entering"}
    /\ Goes(f, "fail")
    /\ UNCHANGED <<fenceVars, resumed, timers, fires, effects>>

Publish(f) ==
    /\ stage[f] = "running" /\ KindOf(f) = "reminder"
    /\ told' = told \cup {f}
    /\ Goes(f, "finish")
    /\ UNCHANGED <<fenceVars, resumed, timers, fires, turn, tries>>

(* The record is found at any revision, the one of the last sample too. *)
Sample(f) == \E revision \in Revisions :
    /\ sampled' = [sampled EXCEPT ![f] = revision]
    /\ changed' = [changed EXCEPT ![f] = signature[TimerOf(f)] # revision]
    /\ signature' = [signature EXCEPT ![TimerOf(f)] = revision]

Observed(f) ==
    /\ Goes(f, IF changed'[f] THEN "entering" ELSE "finish")
    /\ UNCHANGED <<fenceVars, resumed, kind, enabled, next, due, state, claimed,
                   attempts, effects>>

(* Faulty variant: a second attempt compares again. *)
ObserveAgain(f) ==
    /\ stage[f] = "running" /\ KindOf(f) = "sensor"
    /\ Sample(f)
    /\ Observed(f)

(* Observe freezes the signature and the decision of the first attempt. *)
Observe(f) ==
    /\ stage[f] = "running" /\ KindOf(f) = "sensor"
    /\ IF sampled[f] = 0 THEN Sample(f) ELSE UNCHANGED <<samples, signature>>
    /\ Observed(f)

Undertake(f) ==
    /\ stage[f] = "running" /\ KindOf(f) = "job"
    /\ Goes(f, "entering")
    /\ UNCHANGED <<fenceVars, resumed, timers, fires, effects>>

(* The lane runs the fire's turn; a prepared fence refuses it its lease. *)
Enter(f) ==
    /\ stage[f] = "entering" /\ f \notin leases
    /\ Acquire(f) /\ LeaseStep /\ UNCHANGED client
    /\ Goes(f, "leased")
    /\ UNCHANGED <<resumed, timers, fires, effects>>

Refused(f) ==
    /\ stage[f] = "entering" /\ fence # "open"
    /\ Goes(f, "fail")
    /\ UNCHANGED <<fenceVars, resumed, timers, fires, effects>>

(* A turn begins once for a fire; a second claim of it was handled already. *)
BeginTurn(f) ==
    /\ stage[f] = "leased" /\ turn[f] = "none"
    /\ turn' = [turn EXCEPT ![f] = "active"]
    /\ Goes(f, "turn")
    /\ UNCHANGED <<fenceVars, resumed, timers, fires, told, tries>>

Leaves(f, place) ==
    /\ Release(f) /\ LeaseStep /\ UNCHANGED client
    /\ Goes(f, place)
    /\ UNCHANGED <<resumed, timers, fires, told, tries>>

AlreadyBegun(f) ==
    /\ stage[f] = "leased" /\ turn[f] # "none"
    /\ Leaves(f, "finish") /\ UNCHANGED turn

(* The transaction that claims the turn fails: nothing of it is left, and a *)
(* turn that the first attempt began stays as it is.                       *)
FailClaim(f) ==
    /\ stage[f] = "leased"
    /\ Leaves(f, "fail") /\ UNCHANGED turn

EndTurn(f) ==
    /\ stage[f] = "turn"
    /\ turn' = [turn EXCEPT ![f] = "over"]
    /\ Leaves(f, "finish") \/ Leaves(f, "fail")

(* The claim that Finish and Fail check. *)
Holds(f) == state[f] = "claimed" /\ claimed[f] = epoch

Finish(f) ==
    /\ stage[f] = "finish" /\ Holds(f)
    /\ state' = [state EXCEPT ![f] = "handled"]
    /\ Goes(f, "none")
    /\ UNCHANGED <<fenceVars, resumed, timers, claimed, attempts, samples, effects>>

Fail(f) ==
    /\ stage[f] = "fail" /\ Holds(f)
    /\ state' = [state EXCEPT ![f] =
                   IF ~ReadOnly(f) \/ attempts[f] > 1 THEN "unknown"
                   ELSE IF ~enabled[TimerOf(f)] THEN "cancelled" ELSE "pending"]
    /\ Goes(f, "none")
    /\ UNCHANGED <<fenceVars, resumed, timers, claimed, attempts, samples, effects>>

-----------------------------------------------------------------------------
(* The clock, the records, and Core. *)

Comes(t) ==
    /\ enabled[t] /\ next[t] # 0 /\ ~due[t]
    /\ due' = [due EXCEPT ![t] = TRUE]
    /\ UNCHANGED <<fenceVars, resumed, kind, enabled, next, signature, fires, stage,
                   effects>>

(* A Core that stops takes its deliveries with it. *)
Forget ==
    /\ resumed' = FALSE
    /\ stage' = [f \in Fires |-> "none"]
    /\ UNCHANGED <<timers, fires, effects>>

OrForget == IF phase' = "down" THEN Forget ELSE UNCHANGED timerVars

CoreStep ==
    /\ Crash \/ Observer
    /\ OrForget

OtherWork ==
    /\ (\E a \in Others : Work(a)) \/ Ask \/ Replied
    /\ UNCHANGED timerVars

(* Turns that a dead Core left active are over before anything else runs. *)
StartCore ==
    /\ Boot
    /\ turn' = [f \in Fires |-> IF turn[f] = "active" THEN "over" ELSE turn[f]]
    /\ UNCHANGED <<resumed, timers, fires, stage, told, tries>>

StartServing == resumed /\ Ready /\ OrForget

-----------------------------------------------------------------------------
Init ==
    /\ FenceInit
    /\ resumed = FALSE
    /\ kind = [t \in TimerIds |-> "none"] /\ enabled = [t \in TimerIds |-> FALSE]
    /\ next = [t \in TimerIds |-> 0] /\ due = [t \in TimerIds |-> FALSE]
    /\ signature = [t \in TimerIds |-> 0]
    /\ state = [f \in Fires |-> "none"] /\ claimed = [f \in Fires |-> 0]
    /\ attempts = [f \in Fires |-> 0]
    /\ sampled = [f \in Fires |-> 0] /\ changed = [f \in Fires |-> FALSE]
    /\ stage = [f \in Fires |-> "none"] /\ turn = [f \in Fires |-> "none"]
    /\ told = {} /\ tries = [f \in Fires |-> 0]

Settle(f) == Finish(f) \/ Fail(f)

(* A delivery goes on: what reactTimer does next. *)
React(f) ==
    \/ Publish(f) \/ Observe(f) \/ Undertake(f)
    \/ Enter(f) \/ Refused(f)
    \/ BeginTurn(f) \/ AlreadyBegun(f) \/ EndTurn(f)

Next ==
    \/ \E t \in TimerIds : (\E k \in Kinds : Create(t, k)) \/ Cancel(t) \/ Comes(t)
    \/ ClaimDue \/ Recover
    \/ \E f \in Fires : Deliver(f) \/ React(f) \/ Breaks(f) \/ FailClaim(f) \/ Settle(f)
    \/ CoreStep \/ OtherWork
    \/ StartCore \/ StartServing

Spec == Init /\ [][Next]_vars

(* The sleeper runs and so does each delivery; the supervisor starts Core    *)
(* again, which recovers, serves and observes; a client's request goes on    *)
(* until it is answered, and what blocks a restart ends.                    *)
Delivery(f) == Deliver(f) \/ React(f) \/ Settle(f)
CoreGoesOn == StartCore \/ Recover \/ StartServing \/ (Observer /\ OrForget)
Answer == ((\E mode \in Modes : AskRestart(mode)) \/ Replied) /\ UNCHANGED timerVars
Ends(step) == step /\ LeaseStep /\ UNCHANGED <<client, timerVars>>

Fairness ==
    /\ WF_vars(ClaimDue) /\ \A f \in Fires : WF_vars(Delivery(f))
    /\ WF_vars(CoreGoesOn) /\ WF_vars(Answer)
    /\ \A a \in Others \ Reported : WF_vars(Ends(Return(a))) /\ WF_vars(Ends(Release(a)))

FairSpec == Spec /\ Fairness

-----------------------------------------------------------------------------
(* Properties. *)

(* Every variable keeps its range, and a delivery exists only for a claim   *)
(* of this Core, at a stage with a lease only if it has one.                *)
TypeOK ==
    /\ FenceTypeOK
    /\ resumed \in BOOLEAN /\ (resumed => phase # "down") /\ (phase = "running" => resumed)
    /\ kind \in [TimerIds -> Kinds \cup {"none"}] /\ enabled \in [TimerIds -> BOOLEAN]
    /\ next \in [TimerIds -> Nat] /\ \A t \in TimerIds : next[t] # 0 => next[t] <= Instants[kind[t]]
    /\ due \in [TimerIds -> BOOLEAN]
    /\ signature \in [TimerIds -> Revisions \cup {0}]
    /\ state \in [Fires -> Unsettled \cup Settled \cup {"none"}]
    /\ claimed \in [Fires -> Nat] /\ attempts \in [Fires -> Nat]
    /\ sampled \in [Fires -> Revisions \cup {0}] /\ changed \in [Fires -> BOOLEAN]
    /\ stage \in [Fires -> Stages] /\ turn \in [Fires -> {"none", "active", "over"}]
    /\ told \subseteq Fires /\ tries \in [Fires -> Nat]
    /\ \A f \in Fires :
        /\ stage[f] # "none" => resumed /\ Holds(f)
        /\ f \in leases <=> stage[f] \in Leased

(* Once a restart is committed nothing blocks it: no call is running, no    *)
(* reply is half written and no fire is in its turn, until the next Core.   *)
QuietExit ==
    fence = "committed" =>
        /\ StandsStill
        /\ \A f \in Fires : stage[f] \notin Leased /\ turn[f] # "active"

(* Over crashes, replacements, refusals and failed deliveries a job is      *)
(* taken up once, and a fire that only reads twice at the most.             *)
TriesBounded == \A f \in Fires : tries[f] <= IF ReadOnly(f) THEN 2 ELSE 1

(* A fire has done its work when its text was published or its turn began,  *)
(* unless the record it looked at had not changed.                         *)
Worked(f) ==
    /\ KindOf(f) = "reminder" => f \in told
    /\ KindOf(f) = "job" => turn[f] # "none"
    /\ KindOf(f) = "sensor" => sampled[f] # 0 /\ (changed[f] => turn[f] # "none")

(* A fire recorded as handled has done its work, whatever was refused, cut   *)
(* short or repeated; and whatever revision of a record a timer has taken   *)
(* note of, some fire was to react to it.                                  *)
HandledMeansDone ==
    /\ \A f \in Fires : state[f] = "handled" => Worked(f)
    /\ \A t \in TimerIds : signature[t] # 0 =>
        \E f \in Fires : TimerOf(f) = t /\ changed[f] /\ sampled[f] = signature[t]

(* Once Core has recovered, every fire somebody has claimed is in hand: a    *)
(* delivery of this Core is to settle it, or it would wait for a restart.   *)
FiresInHand == resumed => \A f \in Fires : state[f] = "claimed" => stage[f] # "none"

(* A timer never stays behind for good: an instant that has come leads to a *)
(* fire, and a fire that was claimed is settled, whatever becomes of Core.  *)
FiresSettle == \A t \in TimerIds : []<>(~due[t] /\ ~Waiting(t))
=============================================================================
