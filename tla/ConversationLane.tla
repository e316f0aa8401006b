-------------------------- MODULE ConversationLane --------------------------
(***************************************************************************)
(* One conversation's lane: the goroutine of internal/core/lane/lane.go    *)
(* that runs a conversation's turns one after the other, the steering      *)
(* queue of kit/loop/inputs.go that a running turn drains, the admission   *)
(* of internal/core/boot/conversation_steering.go that offers an input to  *)
(* the running turn or queues a turn for it, and the durable notices of    *)
(* notices.go that the lane delivers between turns.                        *)
(*                                                                         *)
(* Abstractions.  Lanes of different conversations share nothing but the   *)
(* closing of the manager, so one lane is enough.  An input stands for its *)
(* inbox row, its ledger event and the turn it may start.  A section of    *)
(* code under Manager.mu is one step.  Push and the registration of the    *)
(* pushed input are one step: whoever takes the registration waits for the *)
(* admission mutex, which is held across both.                             *)
(***************************************************************************)
EXTENDS Integers, Sequences, Functions

CONSTANTS
    Inputs,      \* inputs of the conversation, each admitted once
    Reminders,   \* inputs that are due reminders: their turn asks no model
    Notices,     \* landings reported to the conversation, a set of naturals
    Landed,      \* when each notice landed
    Owner,       \* the person and agent each notice is for
    Window,      \* the landings one delivery may span
    Runners,     \* bound: goroutines alive at the same time
    MaxStops,    \* bound: interrupts by the person
    MaxEarly,    \* bound: turns that fail before they own their inputs
    MaxFailed,   \* bound: deliveries that fail
    MaxCrashes   \* bound: crashes of Core

ASSUME RemindersAssumption == Reminders \subseteq Inputs
ASSUME NoticesAssumption ==
    /\ Notices \subseteq Nat
    /\ Landed \in [Notices -> Nat]
    /\ DOMAIN Owner = Notices
    /\ Window \in Nat

ASSUME BoundsAssumption == {MaxStops, MaxEarly, MaxFailed, MaxCrashes} \subseteq Nat

NoRunner == 0
NoInput == 0

ASSUME NamesAssumption == NoRunner \notin Runners /\ NoInput \notin Inputs

VARIABLES
    closed,     \* Manager.closed
    entry,      \* Manager.lanes[id]: the runner of the lane
    pc,         \* where each runner is
    queue,      \* conversation.queue of each runner
    check,      \* conversation.checkNotices
    job,        \* the input whose turn the runner has taken
    active,     \* conversation.active is set
    cancelled,  \* the active turn's context is cancelled
    buffer,     \* Inputs.items of the active turn
    open,       \* the active turn's Inputs accept a push
    followups,  \* inputs the closed queue gave back
    admitting,  \* the input whose admission holds the coordinator's mutex
    accepted,   \* inputs whose inbox row is committed
    heard,      \* inputs given to a turn
    reported,   \* inputs whose submitter got an error, or that a crash cut off
    outbox,     \* lane_notices
    stops, early, failed, crashes

lanes == <<entry, pc, queue, check>>
turn == <<job, active, cancelled, buffer, open, followups>>
inputs == <<admitting, accepted, heard, reported>>
bounds == <<stops, early, failed, crashes>>
vars == <<closed, lanes, turn, inputs, outbox, bounds>>

Alive == {r \in Runners : pc[r] # "idle"}

-----------------------------------------------------------------------------
(* Admission. *)

(* Steer and Push: the active turn takes the input for its next round. *)
Steerable ==
    ~closed /\ entry # NoRunner /\ active[entry] /\ ~cancelled[entry] /\ open[entry]

(* The lane of the conversation, started if there is none. *)
WithLane(r) ==
    IF entry # NoRunner THEN r = entry /\ UNCHANGED <<entry, pc>>
    ELSE /\ pc[r] = "idle"
         /\ entry' = r
         /\ pc' = [pc EXCEPT ![r] = "select"]

(* Submit queues a turn for i, unless the manager is closed. *)
Enqueue(i) ==
    \/ /\ closed
       /\ reported' = reported \cup {i}
       /\ UNCHANGED lanes
    \/ /\ ~closed
       /\ \E r \in Runners : WithLane(r) /\ queue' = [queue EXCEPT ![r] = Append(@, i)]
       /\ UNCHANGED <<check, reported>>

(* An input is committed and offered to the active turn.  Refused, or meant  *)
(* as a follow-up from the start, it waits for a turn of its own.          *)
Admit(i) ==
    /\ admitting = NoInput
    /\ i \notin accepted \cup Reminders
    /\ accepted' = accepted \cup {i}
    /\ \/ /\ Steerable
          /\ buffer' = [buffer EXCEPT ![entry] = Append(@, i)]
          /\ UNCHANGED admitting
       \/ admitting' = i /\ UNCHANGED buffer
    /\ UNCHANGED <<closed, lanes, job, active, cancelled, open, followups, heard, reported,
                   outbox, bounds>>

(* The second half of a refused admission, still under its mutex. *)
Queue ==
    /\ admitting # NoInput
    /\ Enqueue(admitting)
    /\ admitting' = NoInput
    /\ UNCHANGED <<closed, turn, accepted, heard, outbox, bounds>>

(* A timer fires: its turn is queued without the admission mutex. *)
Remind(i) ==
    /\ i \in Reminders \ accepted
    /\ accepted' = accepted \cup {i}
    /\ Enqueue(i)
    /\ UNCHANGED <<closed, turn, admitting, heard, outbox, bounds>>

-----------------------------------------------------------------------------
(* The goroutine of the lane. *)

Goto(r, place) == pc' = [pc EXCEPT ![r] = place]

At(r, place) == pc[r] = place

(* Faulty variant: the lane is retired with its last turn still to run. *)
TakeRetiring(r) ==
    /\ At(r, "select") /\ queue[r] # <<>>
    /\ job' = [job EXCEPT ![r] = Head(queue[r])]
    /\ queue' = [queue EXCEPT ![r] = Tail(@)]
    /\ active' = [active EXCEPT ![r] = TRUE]
    /\ cancelled' = [cancelled EXCEPT ![r] = FALSE]
    /\ open' = [open EXCEPT ![r] = TRUE]
    /\ Goto(r, "execute")
    /\ entry' = IF Len(queue[r]) = 1 THEN NoRunner ELSE entry
    /\ UNCHANGED <<closed, check, buffer, followups, inputs, outbox, bounds>>

(* The oldest queued turn becomes the active one. *)
Take(r) ==
    /\ At(r, "select") /\ queue[r] # <<>>
    /\ job' = [job EXCEPT ![r] = Head(queue[r])]
    /\ queue' = [queue EXCEPT ![r] = Tail(@)]
    /\ active' = [active EXCEPT ![r] = TRUE]
    /\ cancelled' = [cancelled EXCEPT ![r] = FALSE]
    /\ open' = [open EXCEPT ![r] = TRUE]
    /\ Goto(r, "execute")
    /\ UNCHANGED <<closed, entry, check, buffer, followups, inputs, outbox, bounds>>

(* With nothing queued the lane looks for notices, or retires. *)
CheckNotices(r) ==
    /\ At(r, "select") /\ queue[r] = <<>> /\ check[r] /\ ~closed
    /\ check' = [check EXCEPT ![r] = FALSE]
    /\ Goto(r, "deliver")
    /\ UNCHANGED <<closed, entry, queue, turn, inputs, outbox, bounds>>

Retire(r) ==
    /\ At(r, "select") /\ queue[r] = <<>> /\ (~check[r] \/ closed)
    /\ entry' = NoRunner
    /\ check' = [check EXCEPT ![r] = FALSE]
    /\ Goto(r, "idle")
    /\ UNCHANGED <<closed, queue, turn, inputs, outbox, bounds>>

(* execute runs the turn, unless it has been cancelled before it began. *)
Execute(r) ==
    /\ At(r, "execute")
    /\ IF closed \/ cancelled[r]
       THEN /\ Goto(r, "settle")
            /\ reported' = reported \cup {job[r]}
       ELSE Goto(r, "turn") /\ UNCHANGED reported
    /\ UNCHANGED <<closed, entry, queue, check, turn, admitting, accepted, heard, outbox,
                   bounds>>

(* A reminder is published; what was steered into it goes with its queue. *)
Publish(r) ==
    /\ At(r, "turn") /\ job[r] \in Reminders
    /\ heard' = heard \cup {job[r]}
    /\ buffer' = [buffer EXCEPT ![r] = <<>>]
    /\ open' = [open EXCEPT ![r] = FALSE]
    /\ Goto(r, "settle")
    /\ UNCHANGED <<closed, entry, queue, check, job, active, cancelled, followups, admitting,
                   accepted, reported, outbox, bounds>>

(* A turn that cannot mark itself active or get its lease returns at once.   *)
FailEarly(r) ==
    /\ At(r, "turn") /\ job[r] \notin Reminders
    /\ early < MaxEarly
    /\ early' = early + 1
    /\ reported' = reported \cup {job[r]}
    /\ Goto(r, "settle")
    /\ UNCHANGED <<closed, entry, queue, check, turn, admitting, accepted, heard, outbox,
                   stops, failed, crashes>>

(* The turn is prepared and claims its input. *)
Claim(r) ==
    /\ At(r, "turn") /\ job[r] \notin Reminders
    /\ heard' = heard \cup {job[r]}
    /\ Goto(r, "round")
    /\ UNCHANGED <<closed, entry, queue, check, turn, admitting, accepted, reported, outbox,
                   bounds>>

(* Faulty variant: the queue stays open behind the last round. *)
LeaveOpen(r) ==
    /\ followups' = [followups EXCEPT ![r] = buffer[r]]
    /\ buffer' = [buffer EXCEPT ![r] = <<>>]
    /\ UNCHANGED open

(* Close hands over what was not drained and refuses later pushes. *)
CloseInputs(r) ==
    /\ followups' = [followups EXCEPT ![r] = buffer[r]]
    /\ buffer' = [buffer EXCEPT ![r] = <<>>]
    /\ open' = [open EXCEPT ![r] = FALSE]

(* Preparation or the claim fails: the queue is closed as after a turn. *)
FailClaim(r) ==
    /\ At(r, "turn") /\ job[r] \notin Reminders
    /\ CloseInputs(r)
    /\ reported' = reported \cup {job[r]}
    /\ Goto(r, "followup")
    /\ UNCHANGED <<closed, entry, queue, check, job, active, cancelled, admitting, accepted,
                   heard, outbox, bounds>>

(* Faulty variant: a round leaves what it read in the queue. *)
RoundKept(r) ==
    /\ At(r, "round") /\ buffer[r] # <<>> /\ admitting = NoInput
    /\ heard' = heard \cup Range(buffer[r])
    /\ UNCHANGED <<closed, lanes, turn, admitting, accepted, reported, outbox, bounds>>

(* The next round starts with what has been steered so far, each item        *)
(* registered by its admission.                                            *)
Round(r) ==
    /\ At(r, "round") /\ buffer[r] # <<>> /\ admitting = NoInput
    /\ heard' = heard \cup Range(buffer[r])
    /\ buffer' = [buffer EXCEPT ![r] = <<>>]
    /\ UNCHANGED <<closed, lanes, job, active, cancelled, open, followups, admitting,
                   accepted, reported, outbox, bounds>>

(* The turn completes, fails or is cancelled. *)
End(r) ==
    /\ At(r, "round")
    /\ CloseInputs(r)
    /\ Goto(r, "followup")
    /\ UNCHANGED <<closed, entry, queue, check, job, active, cancelled, inputs, outbox, bounds>>

(* Each input given back gets a turn of its own behind those already queued. *)
FollowUp(r) ==
    /\ At(r, "followup") /\ followups[r] # <<>> /\ admitting = NoInput
    /\ Enqueue(Head(followups[r]))
    /\ followups' = [followups EXCEPT ![r] = Tail(@)]
    /\ UNCHANGED <<closed, job, active, cancelled, buffer, open, admitting, accepted, heard,
                   outbox, bounds>>

(* Faulty variant: the inputs given back are left where they are. *)
FollowedUpNone(r) ==
    /\ At(r, "followup")
    /\ Goto(r, "settle")
    /\ UNCHANGED <<closed, entry, queue, check, turn, inputs, outbox, bounds>>

FollowedUp(r) ==
    /\ At(r, "followup") /\ followups[r] = <<>>
    /\ Goto(r, "settle")
    /\ UNCHANGED <<closed, entry, queue, check, turn, inputs, outbox, bounds>>

(* Faulty variant: the lane still counts the returned turn as active. *)
SettleActive(r) ==
    /\ At(r, "settle")
    /\ job' = [job EXCEPT ![r] = NoInput]
    /\ buffer' = [buffer EXCEPT ![r] = <<>>]
    /\ open' = [open EXCEPT ![r] = FALSE]
    /\ Goto(r, "select")
    /\ UNCHANGED <<closed, entry, queue, check, active, cancelled, followups, inputs, outbox,
                   bounds>>

(* The turn has returned: its result is sent and its queue forgotten. *)
Settle(r) ==
    /\ At(r, "settle")
    /\ active' = [active EXCEPT ![r] = FALSE]
    /\ job' = [job EXCEPT ![r] = NoInput]
    /\ buffer' = [buffer EXCEPT ![r] = <<>>]
    /\ open' = [open EXCEPT ![r] = FALSE]
    /\ Goto(r, "select")
    /\ UNCHANGED <<closed, entry, queue, check, cancelled, followups, inputs, outbox, bounds>>

-----------------------------------------------------------------------------
(* Notices. *)

Pending == {n \in Notices : outbox[n] = "pending"}

Before(m, n) == Landed[m] < Landed[n] \/ (Landed[m] = Landed[n] /\ m <= n)

(* The oldest pending notice and those of its owner that landed soon after. *)
Batch ==
    LET first == CHOOSE n \in Pending : \A m \in Pending : Before(n, m) IN
    {n \in Pending : Owner[n] = Owner[first] /\ Landed[n] <= Landed[first] + Window}

(* One transaction appends the event and marks its notices delivered.  With  *)
(* nothing pending, or when it fails, the lane does not look again.        *)
Deliver(r) ==
    /\ At(r, "deliver")
    /\ \/ /\ Pending # {}
          /\ outbox' = [n \in Notices |-> IF n \in Batch THEN "delivered" ELSE outbox[n]]
          /\ Goto(r, "delivered")
          /\ UNCHANGED failed
       \/ /\ Pending = {}
          /\ Goto(r, "select")
          /\ UNCHANGED <<outbox, failed>>
       \/ /\ failed < MaxFailed
          /\ failed' = failed + 1
          /\ Goto(r, "select")
          /\ UNCHANGED outbox
    /\ UNCHANGED <<closed, entry, queue, check, turn, inputs, stops, early, crashes>>

(* Faulty variant: one delivery is taken to have delivered everything. *)
CheckedOnce(r) ==
    /\ At(r, "delivered")
    /\ Goto(r, "select")
    /\ UNCHANGED <<closed, entry, queue, check, turn, inputs, outbox, bounds>>

(* After a delivery the lane looks again: other owners and later landings    *)
(* were left out.                                                          *)
CheckAgain(r) ==
    /\ At(r, "delivered")
    /\ check' = [check EXCEPT ![r] = TRUE]
    /\ Goto(r, "select")
    /\ UNCHANGED <<closed, entry, queue, turn, inputs, outbox, bounds>>

Wake ==
    \E r \in Runners : WithLane(r) /\ check' = [check EXCEPT ![r] = TRUE]

(* A landing is stored and the lane woken under the manager's mutex. *)
Notice(n) ==
    /\ ~closed
    /\ outbox[n] = "absent"
    /\ outbox' = [outbox EXCEPT ![n] = "pending"]
    /\ Wake
    /\ UNCHANGED <<closed, queue, turn, inputs, bounds>>

-----------------------------------------------------------------------------
(* The person, the end of the process and its next start. *)

(* Stop cancels the active turn only. *)
Stop ==
    /\ entry # NoRunner /\ active[entry] /\ ~cancelled[entry]
    /\ stops < MaxStops
    /\ stops' = stops + 1
    /\ cancelled' = [cancelled EXCEPT ![entry] = TRUE]
    /\ UNCHANGED <<closed, lanes, job, active, buffer, open, followups, inputs, outbox,
                   early, failed, crashes>>

Close ==
    /\ ~closed
    /\ closed' = TRUE
    /\ UNCHANGED <<lanes, turn, inputs, outbox, bounds>>

Quiet ==
    /\ entry = NoRunner
    /\ pc = [r \in Runners |-> "idle"]
    /\ queue = [r \in Runners |-> <<>>]
    /\ check = [r \in Runners |-> FALSE]
    /\ job = [r \in Runners |-> NoInput]
    /\ active = [r \in Runners |-> FALSE]
    /\ cancelled = [r \in Runners |-> FALSE]
    /\ buffer = [r \in Runners |-> <<>>]
    /\ open = [r \in Runners |-> FALSE]
    /\ followups = [r \in Runners |-> <<>>]
    /\ admitting = NoInput

(* The process ends, waiting for nothing, and starts again.  Its lanes are   *)
(* gone and inputs are not replayed; ResumeNotices wakes a lane for the      *)
(* pending notices.                                                        *)
Restart ==
    /\ crashes < MaxCrashes
    /\ crashes' = crashes + 1
    /\ closed' = FALSE
    /\ IF Pending = {}
       THEN /\ entry' = NoRunner
            /\ pc' = [r \in Runners |-> "idle"]
            /\ check' = [r \in Runners |-> FALSE]
       ELSE \E r \in Runners :
              /\ entry' = r
              /\ pc' = [s \in Runners |-> IF s = r THEN "select" ELSE "idle"]
              /\ check' = [s \in Runners |-> s = r]
    /\ queue' = [r \in Runners |-> <<>>]
    /\ job' = [r \in Runners |-> NoInput]
    /\ active' = [r \in Runners |-> FALSE]
    /\ cancelled' = [r \in Runners |-> FALSE]
    /\ buffer' = [r \in Runners |-> <<>>]
    /\ open' = [r \in Runners |-> FALSE]
    /\ followups' = [r \in Runners |-> <<>>]
    /\ admitting' = NoInput
    /\ reported' = reported \cup (accepted \ heard)
    /\ UNCHANGED <<accepted, heard, outbox, stops, early, failed>>

-----------------------------------------------------------------------------
Init ==
    /\ closed = FALSE
    /\ Quiet
    /\ accepted = {} /\ heard = {} /\ reported = {}
    /\ outbox = [n \in Notices |-> "absent"]
    /\ stops = 0 /\ early = 0 /\ failed = 0 /\ crashes = 0

Step(r) ==
    \/ Take(r) \/ CheckNotices(r) \/ Retire(r) \/ Execute(r)
    \/ Publish(r) \/ FailEarly(r) \/ Claim(r) \/ FailClaim(r)
    \/ Round(r) \/ End(r) \/ FollowUp(r) \/ FollowedUp(r) \/ Settle(r)
    \/ Deliver(r) \/ CheckAgain(r)

Next ==
    \/ \E i \in Inputs : Admit(i) \/ Remind(i)
    \/ Queue
    \/ \E r \in Runners : Step(r)
    \/ \E n \in Notices : Notice(n)
    \/ Stop \/ Close \/ Restart

Spec == Init /\ [][Next]_vars

(* The lane's goroutine and an admission that has begun go on; a turn ends    *)
(* because its budget ends.                                                *)
FairSpec == Spec /\ WF_vars(Queue) /\ \A r \in Runners : WF_vars(Step(r))

-----------------------------------------------------------------------------
(* Properties. *)

TurnPlaces == {"execute", "turn", "round", "followup", "settle"}

Places == TurnPlaces \cup {"idle", "select", "deliver", "delivered"}

(* Every variable keeps its range, and a runner has a turn in hand exactly   *)
(* while its lane counts one as active.                                    *)
TypeOK ==
    /\ closed \in BOOLEAN
    /\ entry \in Runners \cup {NoRunner}
    /\ pc \in [Runners -> Places]
    /\ queue \in [Runners -> Seq(Inputs)]
    /\ check \in [Runners -> BOOLEAN]
    /\ job \in [Runners -> Inputs \cup {NoInput}]
    /\ active = [r \in Runners |-> job[r] # NoInput]
    /\ cancelled \in [Runners -> BOOLEAN]
    /\ buffer \in [Runners -> Seq(Inputs)]
    /\ open \in [Runners -> BOOLEAN]
    /\ followups \in [Runners -> Seq(Inputs)]
    /\ admitting \in Inputs \cup {NoInput}
    /\ accepted \subseteq Inputs /\ heard \subseteq accepted /\ reported \subseteq accepted
    /\ outbox \in [Notices -> {"absent", "pending", "delivered"}]
    /\ stops \in 0 .. MaxStops /\ early \in 0 .. MaxEarly
    /\ failed \in 0 .. MaxFailed /\ crashes \in 0 .. MaxCrashes

(* At most one goroutine serves the conversation, and the manager knows it:  *)
(* turns of one conversation never overlap, also while lanes retire and are  *)
(* started again.                                                          *)
OneRunner == Alive = {entry} \ {NoRunner}

(* What a runner holds for later turns. *)
Waiting(r) == Range(queue[r]) \cup Range(buffer[r]) \cup Range(followups[r])

(* The inputs still on their way: being admitted, queued, taken, steered     *)
(* into a turn, or given back by one.                                      *)
InHand ==
    ({admitting} \ {NoInput})
    \cup UNION {Waiting(r) \cup ({job[r]} \ {NoInput}) : r \in Runners}

(* An input is on its way, a turn has it, or its submitter has an error. *)
OnItsWay(i) == i \in InHand \cup heard \cup reported

(* What is steered into a reminder, or into a turn that returned with an     *)
(* error before it took its own input, is forgotten with its queue.        *)
Forgets(r) ==
    \/ pc[r] = "turn" /\ job[r] \in Reminders
    \/ pc[r] = "settle" /\ job[r] \in reported \ heard

(* Nothing else loses an input that was acknowledged: no retiring lane, no   *)
(* interrupt of a turn that has its input, no closing, crash or restart.   *)
LossesKnown ==
    [][\A i \in accepted' :
         (i \in accepted => OnItsWay(i)) =>
            OnItsWay(i)' \/ \E r \in Runners : Forgets(r) /\ i \in Range(buffer[r])]_vars

(* An input that was acknowledged is on its way to a turn, has been given to *)
(* one, or its submitter has an error: steering into a turn that is ending   *)
(* never swallows it.  Closing the lanes skips what has not begun.         *)
InputsAccounted == closed \/ accepted \subseteq InHand \cup heard \cup reported

(* A runner holds every input once, outside its turn only in its queue, and  *)
(* has given back what was steered into a turn before the next one.        *)
HeldOnce(r) ==
    /\ active[r] <=> pc[r] \in TurnPlaces
    /\ pc[r] = "idle" => queue[r] = <<>>
    /\ pc[r] \notin TurnPlaces \/ pc[r] = "followup" => buffer[r] = <<>> /\ ~open[r]
    /\ pc[r] # "followup" => followups[r] = <<>>
    /\ Waiting(r) \subseteq accepted \ heard
    /\ job[r] # NoInput => job[r] \in accepted \ Waiting(r)
    /\ pc[r] \in {"execute", "turn"} => job[r] \notin heard
    /\ pc[r] \in {"round", "followup", "settle"} => job[r] \in heard \cup reported
    /\ IsInjective(queue[r]) /\ IsInjective(buffer[r]) /\ IsInjective(followups[r])
    /\ Range(queue[r]) \cap (Range(buffer[r]) \cup Range(followups[r])) = {}

(* The input whose admission is under way is in no other place yet. *)
AdmittingApart ==
    admitting # NoInput =>
        /\ admitting \in accepted \ heard
        /\ \A r \in Runners : admitting # job[r] /\ admitting \notin Waiting(r)

(* The inductive invariant of the proofs: one goroutine, and each input in   *)
(* one place and unheard until a turn takes it.                            *)
LaneInv == TypeOK /\ OneRunner /\ AdmittingApart /\ \A r \in Runners : HeldOnce(r)

(* Interrupts, early failures and reminders can lose what is steered into a  *)
(* turn; without them every input is handed over.                          *)
Undisturbed == MaxStops = 0 /\ MaxEarly = 0 /\ Reminders = {}

(* When an undisturbed turn returns, nothing was left in its queue and        *)
(* nothing can be pushed any more, so every input is accounted for.        *)
HandoverInv ==
    Undisturbed =>
        /\ InputsAccounted
        /\ \A r \in Runners :
             /\ ~cancelled[r]
             /\ pc[r] = "settle" /\ ~closed => buffer[r] = <<>> /\ ~open[r]

(* No input is given to a turn and waits for another one as well.          *)
HeardOnce ==
    \A r \in Runners :
        heard \cap Waiting(r) = {}

(* A notice enters the conversation only between turns, so it cannot stream  *)
(* into an answer.                                                         *)
NoticesBetweenTurns ==
    [][(\E n \in Notices : outbox'[n] = "delivered" /\ outbox[n] # "delivered")
         => \A r \in Runners : ~active[r]]_vars

(* A pending notice has a goroutine that is going to look for it, while      *)
(* lanes retire, are started again and crash; only a delivery that fails    *)
(* leaves it to the next landing, for the lane does not look again then.   *)
LookedFor ==
    Pending # {} /\ ~closed =>
        entry # NoRunner /\ (check[entry] \/ pc[entry] \in {"deliver", "delivered"})

NoticesLookedFor ==
    LookedFor /\ [][LookedFor => LookedFor' \/ failed' = failed + 1]_vars

(* Every acknowledged input is answered, or its submitter learns of an        *)
(* error, unless the lanes are closed.                                     *)
InputsSettled == \A i \in Inputs : i \in accepted ~> i \in heard \cup reported \/ closed

(* Every stored landing is delivered without another event to push it, also  *)
(* those of another owner, those that landed later than the window and those *)
(* a crash left behind, unless the lanes are closed for good.              *)
NoticesDelivered ==
    \A n \in Notices : outbox[n] = "pending" ~> outbox[n] = "delivered" \/ closed
=============================================================================
