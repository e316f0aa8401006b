---------------------------- MODULE RestartFence ----------------------------
(***************************************************************************)
(* The planned restart of Core: leases on external work (kit/lease), the   *)
(* registry of what is active with its admission fence (lifecycle/         *)
(* registry.go, fence.go), the durable request (ctlfiles/restart.go), its  *)
(* controller (lifecycle/restart.go) and the client that asks for it       *)
(* (clientsrv/restart.go), over crashes and failed control-file writes.    *)
(*                                                                         *)
(* Abstractions.  An activity stands for its lease: it is acquired again   *)
(* when the same kind of work starts again, and one call at a time runs    *)
(* inside it.  The registry has no reader of its own, as boot.go 336       *)
(* creates it, so activity is never unknown.  The controller is the only   *)
(* user of the fence: Token is whether it holds one.  A request's id is    *)
(* its number.  A Core that is told to stop stops as if it had crashed.    *)
(***************************************************************************)
EXTENDS Integers

CONSTANTS
    Activities,
    Reported,      \* activities that do not block: connections, backups
    Reply,         \* the acknowledgment of a restart request
    MaxRequests,   \* bound: restart requests
    MaxFaults      \* bound: crashes and control-file writes that fail

ASSUME ActivitiesAssumption ==
    Reply \in Activities /\ Reported \subseteq Activities \ {Reply}
ASSUME FenceBoundsAssumption == {MaxRequests, MaxFaults} \subseteq Nat

Modes == {"when_idle", "drain"}

VARIABLES
    phase,      \* "down", "starting" or, once Ready has been called, "running"
    epoch,      \* the epoch of the last Core started
    leases,     \* ActivityRegistry.active
    released,   \* leases released while a call was inside
    calls,      \* activities with a call inside Do
    fence,      \* "open", "prepared" or "committed"
    edge,       \* the channel of Edges holds a wakeup
    file,       \* lifecycle.json
    request,    \* Restarter.request
    failure,    \* Restarter.failure is set
    pc,         \* where Restarter.Run is
    client,     \* where a client's request is
    asked,      \* requests so far
    exited,     \* history: requests Core has exited for
    faults

registry == <<leases, released, calls, fence, edge>>
restarter == <<request, failure, pc>>
history == <<asked, exited, faults>>
fenceVars == <<phase, epoch, registry, file, restarter, client, history>>

Requests ==
    [id : Nat, mode : Modes \cup {"none"}, committed : Nat, discharged : Nat]
Requested(n, mode) == [id |-> n, mode |-> mode, committed |-> 0, discharged |-> 0]
NoRequest == Requested(0, "none")

Owed(r) == r.id # 0 /\ r.discharged = 0

-----------------------------------------------------------------------------
(* Leases. *)

Blocking == leases \ Reported
Notify == edge' = TRUE

LeaseStep == UNCHANGED <<phase, epoch, file, restarter, history>>

(* Acquire takes a lease while no fence is prepared. *)
Take(a) == leases' = leases \cup {a} /\ Notify

Acquire(a) ==
    /\ phase # "down" /\ fence = "open" /\ a \notin leases
    /\ Take(a)
    /\ UNCHANGED <<released, calls, fence>>

(* Faulty variant: the activity leaves the registry with its owner. *)
GiveBackAtOnce(a) ==
    /\ leases' = leases \ {a} /\ Notify
    /\ UNCHANGED released

(* Release: the activity leaves the registry with the last call inside it. *)
GiveBack(a) ==
    IF a \in calls
      THEN released' = released \cup {a} /\ UNCHANGED <<leases, edge>>
      ELSE leases' = leases \ {a} /\ Notify /\ UNCHANGED released

Release(a) ==
    /\ a \in leases \ released
    /\ GiveBack(a)
    /\ UNCHANGED <<calls, fence>>

Do(a) ==
    /\ a \in leases \ (released \cup calls)
    /\ calls' = calls \cup {a}
    /\ UNCHANGED <<leases, released, fence, edge>>

Return(a) ==
    /\ a \in calls
    /\ calls' = calls \ {a}
    /\ leases' = leases \ ({a} \cap released)
    /\ released' = released \ {a}
    /\ edge' = (edge \/ a \in released)
    /\ UNCHANGED fence

(* Any work of Core but the acknowledgment of a client. *)
Work(a) ==
    /\ Acquire(a) \/ Do(a) \/ Return(a) \/ Release(a)
    /\ LeaseStep /\ UNCHANGED client

-----------------------------------------------------------------------------
(* The client's request. *)

(* save, of a record r: a write that fails may have reached the disk. *)
Saved(r) == file' = r /\ request' = r /\ UNCHANGED <<failure, faults>>
NotSaved(r) ==
    /\ faults < MaxFaults /\ faults' = faults + 1
    /\ file' \in {file, r}

(* The reply is held open before the request is made. *)
Hold ==
    /\ client = "none" /\ phase = "running" /\ asked < MaxRequests
    /\ Acquire(Reply)
    /\ client' = "held"
    /\ LeaseStep

(* Request waits for a step of the observer that is under way. *)
AskRestart(mode) ==
    /\ client = "held" /\ pc \in {"step", "wait"}
    /\ client' = "answered"
    /\ IF failure \/ Owed(request)
         THEN UNCHANGED <<edge, file, request, failure, asked, faults>>
         ELSE LET r == Requested(asked + 1, mode) IN
              /\ asked' = asked + 1
              /\ \/ Saved(r) /\ Notify
                 \/ NotSaved(r) /\ failure' = TRUE /\ UNCHANGED <<request, edge>>
    /\ UNCHANGED <<phase, epoch, leases, released, calls, fence, pc, exited>>

Replied ==
    /\ client = "answered"
    /\ Release(Reply)
    /\ client' = "none"
    /\ LeaseStep

-----------------------------------------------------------------------------
(* Core goes down and comes back. *)

Down ==
    /\ phase' = "down"
    /\ leases' = {} /\ released' = {} /\ calls' = {} /\ fence' = "open" /\ edge' = FALSE
    /\ request' = NoRequest /\ failure' = FALSE /\ pc' = "off"
    /\ client' = "none"
    /\ UNCHANGED epoch

Crash ==
    /\ phase # "down"
    /\ faults < MaxFaults /\ faults' = faults + 1
    /\ Down
    /\ UNCHANGED <<file, asked, exited>>

(* Start mints an epoch and OpenRestarter reads the record. *)
Boot ==
    /\ phase = "down"
    /\ phase' = "starting"
    /\ epoch' = epoch + 1
    /\ request' = file
    /\ UNCHANGED <<registry, file, failure, pc, client, history>>

(* Faulty variant: startup never settles the request it was restarted for. *)
ReadyOwing ==
    /\ phase = "starting"
    /\ phase' = "running" /\ pc' = "step" /\ Notify
    /\ UNCHANGED <<epoch, leases, released, calls, fence, file, request, failure,
                   client, history>>

(* Ready: only a request that an earlier epoch committed is discharged.  If *)
(* that cannot be saved Core does not start; if it can, Run begins.         *)
Ready ==
    /\ phase = "starting"
    /\ LET done == [request EXCEPT !.discharged = epoch] IN
       IF Owed(request) /\ request.committed \in 1 .. epoch - 1
         THEN \/ /\ Saved(done)
                 /\ phase' = "running" /\ pc' = "step" /\ Notify
                 /\ UNCHANGED <<epoch, leases, released, calls, fence, client>>
              \/ NotSaved(done) /\ Down
         ELSE /\ phase' = "running" /\ pc' = "step" /\ Notify
              /\ UNCHANGED <<epoch, leases, released, calls, fence, file, request,
                             failure, client, faults>>
    /\ UNCHANGED <<asked, exited>>

-----------------------------------------------------------------------------
(* The observer: Run and Step. *)

Observes == UNCHANGED <<phase, epoch, leases, released, calls, file, request, failure,
                        client, history>>

Wake ==
    /\ pc = "wait" /\ edge
    /\ pc' = "step" /\ edge' = FALSE
    /\ UNCHANGED fence /\ Observes

(* Prepare closes admission before it looks. *)
Prepare ==
    /\ pc = "step" /\ ~failure
    /\ IF Owed(request) THEN fence' = "prepared" /\ pc' = "look"
                        ELSE pc' = "wait" /\ UNCHANGED fence
    /\ UNCHANGED edge /\ Observes

(* Faulty variant: admission is given back to a busy Core that drains, too. *)
LaterReopens == pc' = "cancel"

(* Admission is given back, or held closed, for a Core that is busy. *)
Later == pc' = IF request.mode = "when_idle" THEN "cancel" ELSE "wait"

Look ==
    /\ pc = "look"
    /\ IF Blocking # {} THEN Later ELSE pc' = "commit"
    /\ UNCHANGED <<fence, edge>> /\ Observes

CancelFence ==
    /\ pc = "cancel"
    /\ fence' = "open" /\ pc' = "wait"
    /\ UNCHANGED edge /\ Observes

Commit ==
    /\ pc = "commit"
    /\ IF Blocking # {} THEN Later /\ UNCHANGED fence
                        ELSE fence' = "committed" /\ pc' = "save"
    /\ UNCHANGED edge /\ Observes

(* The commitment is on disk before Core exits for it; otherwise it stops. *)
SaveCommit ==
    /\ pc = "save"
    /\ LET r == [request EXCEPT !.committed = epoch] IN
       \/ /\ Saved(r) /\ pc' = "exit"
          /\ UNCHANGED <<phase, epoch, registry, client>>
       \/ NotSaved(r) /\ Down
    /\ UNCHANGED <<asked, exited>>

Exit ==
    /\ pc = "exit"
    /\ exited' = exited \cup {request.id}
    /\ Down
    /\ UNCHANGED <<file, asked, faults>>

(* A latched failure ends Run, and Core with it. *)
GiveUp ==
    /\ pc = "step" /\ failure
    /\ Down
    /\ UNCHANGED <<file, history>>

-----------------------------------------------------------------------------
FenceInit ==
    /\ phase = "down" /\ epoch = 0
    /\ leases = {} /\ released = {} /\ calls = {} /\ fence = "open" /\ edge = FALSE
    /\ file = NoRequest /\ request = NoRequest /\ failure = FALSE /\ pc = "off"
    /\ client = "none"
    /\ asked = 0 /\ exited = {} /\ faults = 0

(* The observer, and the work of Core that is not an activity of its own. *)
Observer == Wake \/ Prepare \/ Look \/ CancelFence \/ Commit \/ SaveCommit \/ Exit \/ GiveUp

Ask == Hold \/ \E mode \in Modes : AskRestart(mode)

FenceNext ==
    \/ \E a \in Activities \ {Reply} : Work(a)
    \/ Ask \/ Replied
    \/ Crash \/ Boot \/ Ready
    \/ Observer

FenceSpec == FenceInit /\ [][FenceNext]_fenceVars

-----------------------------------------------------------------------------
(* Properties. *)

(* Every variable keeps its range, and a Core that is down holds nothing. *)
FenceTypeOK ==
    /\ phase \in {"down", "starting", "running"} /\ epoch \in Nat
    /\ leases \subseteq Activities /\ released \subseteq calls /\ calls \subseteq leases \ {Reply}
    /\ fence \in {"open", "prepared", "committed"} /\ edge \in BOOLEAN
    /\ file \in Requests /\ request \in Requests /\ failure \in BOOLEAN
    /\ pc \in {"off", "wait", "step", "look", "cancel", "commit", "save", "exit"}
    /\ pc # "off" <=> phase = "running"
    /\ phase = "down" => leases = {}
    /\ client \in {"none", "held", "answered"}
    /\ client # "none" <=> Reply \in leases
    /\ asked \in Nat /\ exited \subseteq Nat /\ faults \in Nat

(* While the fence is committed nothing that blocks a restart is active:    *)
(* whatever was acquired, called and released while the observer looked, no *)
(* call is running and no reply is half written.                            *)
StandsStill ==
    fence = "committed" => Blocking = {} /\ calls \subseteq Reported /\ client = "none"

(* Over crashes and writes of unknown outcome, Core exits at most once for  *)
(* a request, and only a later Core than the one that stood still for it    *)
(* calls it discharged.                                                     *)
ExitsOnce ==
    /\ pc \in {"save", "exit"} => request.id \notin exited
    /\ file.discharged # 0 => 0 < file.committed /\ file.committed < file.discharged

(* A request to drain is carried out: what is active ends, the observer     *)
(* hears of it, and the next Core discharges the request.                   *)
DrainEnds == (Owed(file) /\ file.mode = "drain") ~> ~Owed(file)
=============================================================================
