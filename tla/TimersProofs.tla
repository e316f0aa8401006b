---------------------------- MODULE TimersProofs ----------------------------
(***************************************************************************)
(* What holds of every instance of Timers.  The fence is treated on its    *)
(* own first, as the specification RestartFence, whose steps the steps of  *)
(* Timers then turn out to be.                                             *)
(***************************************************************************)
EXTENDS Timers, TLAPS

(* Where the observer is and how the fence stands.                         *)
PlaceInv ==
    /\ fence = "committed" <=> pc \in {"save", "exit"}
    /\ pc \in {"look", "cancel", "commit"} => fence = "prepared"
    /\ fence = "committed" => Blocking = {}

(* The request in memory is the one on disk unless a write failed; it was    *)
(* committed by the epoch that is about to exit or by a dead one, and an id *)
(* for which Core has exited is on disk with its commitment, or is gone.    *)
RequestInv ==
    /\ file.id <= asked /\ exited \subseteq 0 .. asked
    /\ phase # "down" => epoch > 0 /\ (~failure => request = file)
    /\ phase = "starting" => file.committed < epoch
    /\ file.committed <= epoch
    /\ failure => pc \in {"step", "wait"}
    /\ pc \in {"look", "cancel", "commit", "save"} => Owed(request)
    /\ phase = "running" /\ ~failure /\ Owed(request) /\ pc # "exit" => request.committed = 0
    /\ pc = "exit" => request.id \notin exited /\ request.committed # 0
    /\ file.id \in exited => file.committed # 0
    /\ file.discharged # 0 => 0 < file.committed /\ file.committed < file.discharged

FenceInv == FenceTypeOK /\ PlaceInv /\ RequestInv

LEMMA FenceInitially == FenceInit => FenceInv
<1> SUFFICES ASSUME FenceInit PROVE FenceInv
  OBVIOUS
<1>1. FenceTypeOK
  BY DEF FenceInit, FenceTypeOK, Requests, Requested, NoRequest, Modes
<1>2. PlaceInv
  BY DEF FenceInit, PlaceInv
<1>3. RequestInv
  BY DEF FenceInit, RequestInv, Requested, NoRequest, Owed
<1> QED BY <1>1, <1>2, <1>3 DEF FenceInv

(* A Core that goes down leaves only its records.                          *)
LEMMA DownKeeps ==
    ASSUME FenceInv, Down, exited' = exited, asked' = asked, faults' \in Nat,
           file' \in Requests, file'.id <= asked, file'.committed <= epoch,
           file'.id \in exited => file'.committed # 0,
           file'.discharged # 0 => 0 < file'.committed /\ file'.committed < file'.discharged
    PROVE  FenceInv'
<1>1. FenceTypeOK'
  BY DEF FenceInv, FenceTypeOK, Down, Requests, Requested, NoRequest, Modes
<1>2. PlaceInv'
  BY DEF Down, PlaceInv, Blocking
<1>3. RequestInv'
  BY DEF FenceInv, FenceTypeOK, RequestInv, Down, Owed, Requested, NoRequest
<1> QED BY <1>1, <1>2, <1>3 DEF FenceInv

(* Steps that leave the records, the observer and the fence alone.         *)
LEMMA LeasesKeep ==
    ASSUME FenceInv, LeaseStep, fence' = fence, edge' \in BOOLEAN,
           leases' \subseteq Activities, released' \subseteq calls', calls' \subseteq leases' \ {Reply},
           fence = "committed" => Blocking' = {}, phase = "down" => leases' = {},
           client' \in {"none", "held", "answered"}, client' # "none" <=> Reply \in leases'
    PROVE  FenceInv'
<1>1. FenceTypeOK'
  BY DEF FenceInv, FenceTypeOK, LeaseStep, restarter, history
<1>2. PlaceInv'
  BY DEF FenceInv, PlaceInv, LeaseStep, restarter
<1>3. RequestInv'
  BY DEF FenceInv, RequestInv, LeaseStep, restarter, history, Owed
<1> QED BY <1>1, <1>2, <1>3 DEF FenceInv

LEMMA WorkKeeps ==
    ASSUME FenceInv, NEW a \in Activities \ {Reply}, Work(a)
    PROVE  FenceInv'
<1> USE DEF FenceInv, FenceTypeOK, PlaceInv, Work, Blocking, Take, Notify
<1>1. CASE Acquire(a)
  BY <1>1, LeasesKeep DEF Acquire
<1>2. CASE Do(a)
  BY <1>2, LeasesKeep DEF Do
<1>3. CASE Return(a)
  BY <1>3, LeasesKeep DEF Return
<1>4. CASE Release(a)
  BY <1>4, LeasesKeep DEF Release, GiveBack
<1> QED BY <1>1, <1>2, <1>3, <1>4

LEMMA ClientKeeps ==
    ASSUME FenceInv, Ask \/ Replied
    PROVE  FenceInv'
<1> USE DEF FenceInv, FenceTypeOK
<1>1. CASE Hold
  BY <1>1, LeasesKeep, ActivitiesAssumption DEF Hold, Acquire, Take, Notify, PlaceInv, Blocking
<1>2. ASSUME NEW mode \in Modes, AskRestart(mode) PROVE FenceInv'
  <2> DEFINE r == Requested(asked + 1, mode)
  <2>1. r \in Requests /\ r.id = asked + 1 /\ r.committed = 0 /\ r.discharged = 0
    BY DEF Requested, Requests
  <2>2. CASE UNCHANGED <<edge, file, request, failure, asked, faults>>
    <3>1. FenceTypeOK'
      BY <1>2, <2>2 DEF AskRestart
    <3>2. PlaceInv'
      BY <1>2, <2>2 DEF AskRestart, PlaceInv, Blocking
    <3>3. RequestInv'
      BY <1>2, <2>2 DEF AskRestart, RequestInv, Owed
    <3> QED BY <3>1, <3>2, <3>3
  <2>3. CASE /\ ~failure /\ ~Owed(request) /\ asked' = asked + 1
             /\ \/ Saved(r) /\ Notify
                \/ NotSaved(r) /\ failure' = TRUE /\ UNCHANGED <<request, edge>>
    <3> HIDE DEF r
    <3>1. FenceTypeOK'
      <4>1. /\ file' \in Requests /\ request' \in Requests /\ failure' \in BOOLEAN
            /\ asked' \in Nat /\ faults' \in Nat /\ edge' \in BOOLEAN
        <5>1. CASE Saved(r) /\ Notify
          BY <2>1, <2>3, <5>1 DEF Saved, Notify
        <5>2. CASE NotSaved(r) /\ failure' = TRUE /\ UNCHANGED <<request, edge>>
          BY <2>1, <2>3, <5>2 DEF NotSaved
        <5> QED BY <2>3, <5>1, <5>2
      <4> QED BY <1>2, <4>1 DEF AskRestart
    <3>2. PlaceInv'
      BY <1>2 DEF AskRestart, PlaceInv, Blocking
    <3>3. /\ file' \in {file, r} /\ (~failure' => request' = r /\ file' = r)
          /\ pc' \in {"step", "wait"} /\ pc' = pc /\ phase' = phase
          /\ epoch' = epoch /\ exited' = exited
      BY <1>2, <2>3 DEF AskRestart, Saved, NotSaved
    <3>5. r.id \notin exited /\ file.id <= asked' /\ epoch \in Nat /\ asked \in Nat
      BY <2>1, <2>3 DEF RequestInv, Requests
    <3>4. RequestInv'
      BY <2>1, <2>3, <3>3, <3>5 DEF RequestInv, Owed
    <3> QED BY <3>1, <3>2, <3>4
  <2> QED BY <1>2, <2>2, <2>3 DEF AskRestart, Owed
<1>3. CASE Replied
  BY <1>3, LeasesKeep, ActivitiesAssumption DEF Replied, Release, GiveBack, Notify, PlaceInv, Blocking
<1> QED BY <1>1, <1>2, <1>3 DEF Ask

(* Boot and Ready: what an earlier epoch committed is settled here only.   *)
LEMMA StartKeeps ==
    ASSUME FenceInv, Boot \/ Ready
    PROVE  FenceInv'
<1> USE DEF FenceInv, FenceTypeOK
<1>1. CASE Boot
  <2>1. FenceTypeOK'
    BY <1>1 DEF Boot, registry, history
  <2>2. PlaceInv'
    BY <1>1 DEF Boot, registry, history, PlaceInv, Blocking
  <2>3. RequestInv'
    BY <1>1 DEF Boot, registry, history, RequestInv, Owed, Requests
  <2> QED BY <2>1, <2>2, <2>3
<1>2. CASE Ready
  <2> DEFINE done == [request EXCEPT !.discharged = epoch]
  <2>1. done \in Requests /\ done.id = request.id /\ done.committed = request.committed
        /\ done.discharged = epoch
    BY DEF Requests
  <2>0. ~failure /\ request = file /\ epoch > 0 /\ phase = "starting" /\ pc = "off"
    BY <1>2 DEF Ready, RequestInv
  <2>2. CASE /\ Owed(request) /\ request.committed \in 1 .. epoch - 1
             /\ Saved(done) /\ phase' = "running" /\ pc' = "step" /\ Notify
             /\ UNCHANGED <<epoch, leases, released, calls, fence, client>>
    <3>0. asked' = asked /\ exited' = exited
      BY <1>2 DEF Ready
    <3> HIDE DEF done
    <3>1. FenceTypeOK'
      BY <2>0, <2>1, <2>2, <3>0 DEF Saved, Notify
    <3>2. PlaceInv'
      BY <2>0, <2>2 DEF PlaceInv, Blocking
    <3>3. RequestInv'
      BY <2>0, <2>1, <2>2, <3>0 DEF Saved, RequestInv, Owed
    <3> QED BY <3>1, <3>2, <3>3
  <2>3. CASE /\ Owed(request) /\ request.committed \in 1 .. epoch - 1
             /\ NotSaved(done) /\ Down
    <3>0. asked' = asked /\ exited' = exited
      BY <1>2 DEF Ready
    <3> HIDE DEF done
    <3> QED BY <2>0, <2>1, <2>3, <3>0, DownKeeps DEF NotSaved, RequestInv
  <2>4. CASE /\ ~(Owed(request) /\ request.committed \in 1 .. epoch - 1)
             /\ phase' = "running" /\ pc' = "step" /\ Notify
             /\ UNCHANGED <<epoch, leases, released, calls, fence, file, request,
                            failure, client, faults>>
    <3>0. asked' = asked /\ exited' = exited
      BY <1>2 DEF Ready
    <3>1. FenceTypeOK'
      BY <2>0, <2>4, <3>0 DEF Notify
    <3>2. PlaceInv'
      BY <2>0, <2>4 DEF PlaceInv, Blocking
    <3>3. RequestInv'
      BY <2>0, <2>4, <3>0 DEF RequestInv, Owed, Requests
    <3> QED BY <3>1, <3>2, <3>3
  <2> QED BY <1>2, <2>2, <2>3, <2>4 DEF Ready
<1> QED BY <1>1, <1>2

LEMMA CrashKeeps ==
    ASSUME FenceInv, Crash
    PROVE  FenceInv'
BY DownKeeps DEF Crash, FenceInv, FenceTypeOK, RequestInv

LEMMA ObserverKeeps ==
    ASSUME FenceInv, Observer
    PROVE  FenceInv'
<1> USE DEF FenceInv, FenceTypeOK
<1>1. ASSUME Observes, fence' \in {"open", "prepared", "committed"}, edge' \in BOOLEAN, PlaceInv',
             pc' \in {"wait", "step", "look", "cancel", "commit", "save"},
             pc # "off", pc # "exit", ~failure \/ pc' \in {"step", "wait"},
             pc' \in {"look", "cancel", "commit", "save"} => Owed(request)
      PROVE  FenceInv'
  <2>1. FenceTypeOK'
    BY <1>1 DEF Observes, history
  <2>2. RequestInv'
    BY <1>1 DEF Observes, history, RequestInv, Owed
  <2> QED BY <1>1, <2>1, <2>2
<1>2. CASE Wake
  BY <1>1, <1>2 DEF Wake, Observes, PlaceInv, Blocking
<1>3. CASE Prepare
  BY <1>1, <1>3 DEF Prepare, Observes, PlaceInv, Blocking
<1>4. CASE Look
  BY <1>1, <1>4 DEF Look, Later, Observes, PlaceInv, Blocking, RequestInv
<1>5. CASE CancelFence
  BY <1>1, <1>5 DEF CancelFence, Observes, PlaceInv, Blocking, RequestInv
<1>6. CASE Commit
  BY <1>1, <1>6 DEF Commit, Later, Observes, PlaceInv, Blocking, RequestInv
<1>7. CASE SaveCommit
  <2> DEFINE r == [request EXCEPT !.committed = epoch]
  <2>1. r \in Requests /\ r.id = request.id /\ r.committed = epoch /\ r.discharged = request.discharged
    BY DEF Requests
  <2>0. /\ ~failure /\ request = file /\ epoch > 0 /\ phase = "running" /\ Owed(request)
        /\ request.committed = 0 /\ request.id \notin exited
    BY <1>7 DEF SaveCommit, RequestInv
  <2>3. asked' = asked /\ exited' = exited /\ pc = "save"
    BY <1>7 DEF SaveCommit
  <2>4. CASE Saved(r) /\ pc' = "exit" /\ UNCHANGED <<phase, epoch, registry, client>>
    <3> HIDE DEF r
    <3>1. FenceTypeOK'
      BY <2>1, <2>3, <2>4 DEF Saved, registry
    <3>2. PlaceInv'
      BY <2>3, <2>4 DEF registry, PlaceInv, Blocking
    <3>3. RequestInv'
      BY <2>0, <2>1, <2>3, <2>4 DEF Saved, RequestInv, Owed
    <3> QED BY <3>1, <3>2, <3>3
  <2>5. CASE NotSaved(r) /\ Down
    <3> HIDE DEF r
    <3> QED BY <2>0, <2>1, <2>3, <2>5, DownKeeps DEF NotSaved, RequestInv, Owed
  <2> QED BY <1>7, <2>4, <2>5 DEF SaveCommit
<1>8. CASE Exit
  <2>1. /\ file' = file /\ asked' = asked /\ faults' = faults /\ exited' = exited \cup {request.id}
        /\ ~failure /\ request = file /\ request.committed # 0
    BY <1>8 DEF Exit, RequestInv
  <2>2. FenceTypeOK'
    BY <1>8, <2>1 DEF Exit, Down, Requests, Requested, NoRequest, Modes
  <2>3. PlaceInv'
    BY <1>8 DEF Exit, Down, PlaceInv, Blocking
  <2>5. /\ phase' = "down" /\ pc' = "off" /\ failure' = FALSE /\ epoch' = epoch
        /\ request' = NoRequest /\ file.id \in 0 .. asked
    BY <1>8, <2>1 DEF Exit, Down, RequestInv, Requests
  <2>4. RequestInv'
    BY <2>1, <2>5 DEF RequestInv, Owed
  <2> QED BY <2>2, <2>3, <2>4
<1>9. CASE GiveUp
  BY <1>9, DownKeeps DEF GiveUp, history, RequestInv
<1> QED BY <1>2, <1>3, <1>4, <1>5, <1>6, <1>7, <1>8, <1>9 DEF Observer

LEMMA FenceStutters ==
    ASSUME FenceInv, UNCHANGED fenceVars
    PROVE  FenceInv'
<1>1. FenceTypeOK'
  BY DEF FenceInv, FenceTypeOK, fenceVars, registry, restarter, history
<1>2. PlaceInv'
  BY DEF FenceInv, PlaceInv, Blocking, fenceVars, registry, restarter
<1>3. RequestInv'
  BY DEF FenceInv, RequestInv, Owed, fenceVars, restarter, history
<1> QED BY <1>1, <1>2, <1>3 DEF FenceInv

(* The fence of every Core, whatever takes the leases: at an exit nothing    *)
(* that blocks is active, and a request is exited for once.                 *)
THEOREM FenceHolds == FenceSpec => []FenceInv
<1>1. FenceInv /\ [FenceNext]_fenceVars => FenceInv'
  BY WorkKeeps, ClientKeeps, StartKeeps, CrashKeeps, ObserverKeeps, FenceStutters DEF FenceNext
<1> QED BY FenceInitially, <1>1, PTL DEF FenceSpec

-----------------------------------------------------------------------------
(* Every step of the timers is one of the fence, or none.                  *)
LEMMA StepImplements ==
    ASSUME Next
    PROVE  FenceNext \/ UNCHANGED fenceVars
<1>1. ASSUME NEW f \in Fires, NEW place, Leaves(f, place) PROVE FenceNext
  BY <1>1, FiresAssumption DEF Leaves, FenceNext, Work
<1>2. ASSUME NEW f \in Fires, React(f) \/ FailClaim(f) \/ Deliver(f) \/ Breaks(f) \/ Settle(f)
      PROVE FenceNext \/ UNCHANGED fenceVars
  <2>1. CASE Enter(f)
    BY <2>1, FiresAssumption DEF Enter, FenceNext, Work
  <2>2. CASE AlreadyBegun(f) \/ EndTurn(f) \/ FailClaim(f)
    BY <2>2, <1>1 DEF AlreadyBegun, EndTurn, FailClaim
  <2>3. CASE Publish(f) \/ Observe(f) \/ Undertake(f) \/ Refused(f) \/ BeginTurn(f)
    BY <2>3 DEF Publish, Observe, Observed, Undertake, Refused, BeginTurn
  <2>4. CASE Deliver(f) \/ Breaks(f) \/ Settle(f)
    BY <2>4 DEF Deliver, Breaks, Settle, Finish, Fail
  <2> QED BY <1>2, <2>1, <2>2, <2>3, <2>4 DEF React
<1>3. ASSUME NEW t \in TimerIds, (\E k \in Kinds : Create(t, k)) \/ Cancel(t) \/ Comes(t)
      PROVE UNCHANGED fenceVars
  BY <1>3 DEF Create, Cancel, Comes
<1>4. CASE ClaimDue \/ Recover
  BY <1>4 DEF ClaimDue, Recover
<1>5. CASE CoreStep \/ OtherWork \/ StartCore \/ StartServing
  BY <1>5 DEF CoreStep, OtherWork, StartCore, StartServing, FenceNext, Others
<1> QED BY <1>2, <1>3, <1>4, <1>5 DEF Next

(* Timers is an implementation of RestartFence: what holds of the fence    *)
(* holds of it.                                                            *)
THEOREM TimersUseTheFence == Spec => FenceSpec
<1>1. Init => FenceInit
  BY DEF Init
<1>2. [Next]_vars => [FenceNext]_fenceVars
  BY StepImplements DEF vars
<1> QED BY <1>1, <1>2, PTL DEF Spec, FenceSpec

-----------------------------------------------------------------------------
(* The claims: what the durable state of a fire and its delivery have to do  *)
(* with each other.                                                        *)
TimerTypes ==
    /\ resumed \in BOOLEAN /\ (resumed => phase # "down") /\ (phase = "running" => resumed)
    /\ kind \in [TimerIds -> Kinds \cup {"none"}] /\ enabled \in [TimerIds -> BOOLEAN]
    /\ next \in [TimerIds -> Nat] /\ due \in [TimerIds -> BOOLEAN]
    /\ signature \in [TimerIds -> Revisions \cup {0}]
    /\ state \in [Fires -> Unsettled \cup Settled \cup {"none"}]
    /\ claimed \in [Fires -> Nat] /\ attempts \in [Fires -> Nat]
    /\ sampled \in [Fires -> Revisions \cup {0}] /\ changed \in [Fires -> BOOLEAN]
    /\ stage \in [Fires -> Stages] /\ turn \in [Fires -> {"none", "active", "over"}]
    /\ told \subseteq Fires /\ tries \in [Fires -> Nat]

Budget(f) == IF ReadOnly(f) THEN 2 ELSE 1

FireInv(f) ==
    /\ stage[f] # "none" => resumed /\ Holds(f)
    /\ f \in leases <=> stage[f] \in Leased
    /\ f \notin calls
    /\ turn[f] = "active" => stage[f] = "turn" \/ phase = "down"
    /\ state[f] = "none" => attempts[f] = 0 /\ tries[f] = 0
    /\ state[f] # "none" => KindOf(f) # "none"
    /\ tries[f] <= attempts[f] /\ attempts[f] <= Budget(f)
    /\ stage[f] = "queued" => tries[f] < attempts[f]
    /\ state[f] = "pending" => ReadOnly(f) /\ attempts[f] <= 1

(* No fire exists for an instant that is still to come.                    *)
TimerInv(t) ==
    /\ kind[t] = "none" => next[t] = 0
    /\ next[t] # 0 =>
        /\ next[t] <= Instants[kind[t]]
        /\ \A f \in Fires : TimerOf(f) = t /\ f[2] >= next[t] => state[f] = "none"

ClaimInv ==
    /\ TimerTypes
    /\ \A f \in Fires : FireInv(f)
    /\ \A t \in TimerIds : TimerInv(t)

LEMMA FireParts == \A f \in Fires : TimerOf(f) \in TimerIds /\ f[2] \in Nat \ {0} /\ f = <<TimerOf(f), f[2]>>
BY TimersAssumption DEF Fires, TimerOf

LEMMA InitClaim == Init => ClaimInv
<1> SUFFICES ASSUME Init PROVE ClaimInv
  OBVIOUS
<1>1. TimerTypes
  BY DEF Init, FenceInit, TimerTypes, Stages
<1>2. ASSUME NEW f \in Fires PROVE FireInv(f)
  BY <1>2, FireParts DEF Init, FenceInit, FireInv, Leased, Budget, ReadOnly, KindOf
<1>3. ASSUME NEW t \in TimerIds PROVE TimerInv(t)
  BY DEF Init, TimerInv
<1> QED BY <1>1, <1>2, <1>3 DEF ClaimInv

(* A delivery that goes from place to place.                               *)
LEMMA DeliveryMoves ==
    ASSUME ClaimInv, NEW f \in Fires, stage[f] # "none",
           NEW place \in Stages \ {"none", "queued"}, Goes(f, place),
           UNCHANGED <<phase, epoch, calls, resumed, kind, enabled, next, due, state, claimed, attempts>>,
           signature' \in [TimerIds -> Revisions \cup {0}],
           sampled' \in [Fires -> Revisions \cup {0}], changed' \in [Fires -> BOOLEAN],
           told' \subseteq Fires,
           tries' \in [Fires -> Nat], tries'[f] <= attempts[f],
           \A g \in Fires \ {f} : tries'[g] = tries[g],
           turn' \in [Fires -> {"none", "active", "over"}], turn'[f] = "active" => place = "turn",
           \A g \in Fires \ {f} : turn'[g] = turn[g],
           f \in leases' <=> place \in Leased,
           \A g \in Fires \ {f} : g \in leases' <=> g \in leases
    PROVE  ClaimInv'
<1>1. TimerTypes'
  BY DEF ClaimInv, TimerTypes, Goes
<1>2. ASSUME NEW g \in Fires PROVE FireInv(g)'
  <2>1. stage'[g] = IF g = f THEN place ELSE stage[g]
    BY DEF ClaimInv, TimerTypes, Goes
  <2>2. FireInv(g) /\ state[f] = "claimed"
    BY DEF ClaimInv, FireInv, Holds
  <2>3. CASE g = f
    BY <2>1, <2>2, <2>3 DEF FireInv, Holds, Budget, ReadOnly, KindOf
  <2>4. CASE g # f
    BY <2>1, <2>2, <2>4 DEF FireInv, Holds, Budget, ReadOnly, KindOf
  <2> QED BY <2>3, <2>4
<1>3. ASSUME NEW t \in TimerIds PROVE TimerInv(t)'
  BY DEF ClaimInv, TimerInv
<1> QED BY <1>1, <1>2, <1>3 DEF ClaimInv

LEMMA ReactKeeps ==
    ASSUME ClaimInv, NEW f \in Fires, React(f) \/ FailClaim(f) \/ Deliver(f) \/ Breaks(f)
    PROVE  ClaimInv'
<1> USE DEF TimerTypes, Stages, Leased
<1>0. TimerTypes /\ FireInv(f)
  BY DEF ClaimInv
<1>1. CASE Deliver(f)
  <2>1. tries' \in [Fires -> Nat] /\ tries'[f] <= attempts[f] /\ \A g \in Fires \ {f} : tries'[g] = tries[g]
    BY <1>0, <1>1 DEF Deliver, FireInv
  <2> QED BY <1>0, <1>1, <2>1, DeliveryMoves DEF Deliver, timers, fires, samples, fenceVars, registry, FireInv
<1>2. CASE Breaks(f) \/ Refused(f) \/ Undertake(f)
  BY <1>0, <1>2, DeliveryMoves
     DEF Breaks, Refused, Undertake, timers, fires, samples, effects, fenceVars, registry, FireInv
<1>3. CASE Publish(f)
  BY <1>0, <1>3, DeliveryMoves DEF Publish, timers, fires, samples, fenceVars, registry, FireInv
<1>4. CASE Observe(f)
  <2>1. /\ signature' \in [TimerIds -> Revisions \cup {0}]
        /\ sampled' \in [Fires -> Revisions \cup {0}] /\ changed' \in [Fires -> BOOLEAN]
    BY <1>0, <1>4 DEF Observe, Sample, samples
  <2> QED BY <1>0, <1>4, <2>1, DeliveryMoves DEF Observe, Observed, effects, fenceVars, registry, FireInv
<1>5. CASE Enter(f)
  BY <1>0, <1>5, DeliveryMoves
     DEF Enter, Acquire, Take, LeaseStep, timers, fires, samples, effects, FireInv
<1>6. CASE BeginTurn(f)
  BY <1>0, <1>6, DeliveryMoves DEF BeginTurn, timers, fires, samples, fenceVars, registry, FireInv
<1>7. ASSUME NEW place \in {"finish", "fail"}, Leaves(f, place), stage[f] \in Leased,
             turn' \in [Fires -> {"none", "active", "over"}], turn'[f] # "active",
             \A g \in Fires \ {f} : turn'[g] = turn[g]
      PROVE  ClaimInv'
  <2>1. leases' = leases \ {f} /\ calls' = calls /\ phase' = phase /\ epoch' = epoch
    BY <1>0, <1>7 DEF Leaves, Release, GiveBack, LeaseStep, FireInv
  <2> QED BY <1>0, <1>7, <2>1, DeliveryMoves DEF Leaves, timers, fires, samples, FireInv
<1>8. CASE AlreadyBegun(f) \/ FailClaim(f)
  <2>1. turn' = turn /\ stage[f] = "leased" /\ turn[f] # "active"
    BY <1>0, <1>8 DEF AlreadyBegun, FailClaim, FireInv
  <2> QED BY <1>0, <1>7, <1>8, <2>1 DEF AlreadyBegun, FailClaim
<1>9. CASE EndTurn(f)
  BY <1>0, <1>7, <1>9 DEF EndTurn
<1> QED BY <1>1, <1>2, <1>3, <1>4, <1>5, <1>6, <1>8, <1>9 DEF React

LEMMA SettleKeeps ==
    ASSUME ClaimInv, NEW f \in Fires, Settle(f)
    PROVE  ClaimInv'
<1>1. /\ stage[f] \in {"finish", "fail"} /\ Holds(f)
      /\ stage' = [stage EXCEPT ![f] = "none"]
      /\ \E s \in {"handled", "unknown", "cancelled", "pending"} :
           /\ state' = [state EXCEPT ![f] = s]
           /\ s = "pending" => ReadOnly(f) /\ ~(attempts[f] > 1)
      /\ UNCHANGED <<fenceVars, resumed, timers, claimed, attempts, samples, effects>>
  BY DEF Settle, Finish, Fail, Goes
<1>2. PICK s \in {"handled", "unknown", "cancelled", "pending"} :
           /\ state' = [state EXCEPT ![f] = s]
           /\ s = "pending" => ReadOnly(f) /\ ~(attempts[f] > 1)
  BY <1>1
<1>3. TimerTypes'
  BY <1>1, <1>2 DEF ClaimInv, TimerTypes, timers, samples, effects, fenceVars, Stages, Unsettled, Settled
<1>4. ASSUME NEW g \in Fires PROVE FireInv(g)'
  <2>1. FireInv(g) /\ TimerTypes
    BY DEF ClaimInv
  <2>2. /\ stage'[g] = IF g = f THEN "none" ELSE stage[g]
        /\ state'[g] = IF g = f THEN s ELSE state[g]
    BY <1>1, <1>2, <2>1 DEF TimerTypes
  <2>3. attempts[f] \in Nat
    BY <2>1 DEF TimerTypes
  <2>4. /\ leases' = leases /\ calls' = calls /\ turn' = turn /\ phase' = phase /\ epoch' = epoch
        /\ attempts' = attempts /\ tries' = tries /\ kind' = kind /\ claimed' = claimed /\ resumed' = resumed
    BY <1>1 DEF timers, effects, fenceVars, registry
  <2> QED BY <1>1, <1>2, <2>1, <2>2, <2>3, <2>4 DEF FireInv, Holds, Budget, ReadOnly, KindOf, Leased
<1>5. ASSUME NEW t \in TimerIds PROVE TimerInv(t)'
  <2>1. TimerInv(t) /\ TimerTypes /\ state[f] = "claimed"
    BY <1>1 DEF ClaimInv, Holds
  <2>2. \A g \in Fires : state[g] = "none" => state'[g] = "none"
    BY <1>2, <2>1 DEF TimerTypes
  <2> QED BY <1>1, <2>1, <2>2 DEF TimerInv, timers
<1> QED BY <1>3, <1>4, <1>5 DEF ClaimInv

LEMMA CreateKeeps ==
    ASSUME ClaimInv, NEW t \in TimerIds, NEW k \in Kinds, Create(t, k)
    PROVE  ClaimInv'
<1>1. TimerTypes /\ k # "none" /\ Instants[k] \in Nat \ {0}
  BY TimersAssumption DEF ClaimInv
<1>2. TimerTypes'
  BY <1>1 DEF Create, TimerTypes, fires, samples, effects, fenceVars
<1>3. /\ kind' = [kind EXCEPT ![t] = k] /\ next' = [next EXCEPT ![t] = 1] /\ kind[t] = "none"
      /\ state' = state /\ stage' = stage /\ leases' = leases /\ calls' = calls /\ turn' = turn
      /\ phase' = phase /\ epoch' = epoch /\ attempts' = attempts /\ tries' = tries
      /\ claimed' = claimed /\ resumed' = resumed
  BY DEF Create, fires, effects, fenceVars, registry
<1>4. ASSUME NEW g \in Fires PROVE FireInv(g)'
  <2>1. FireInv(g) /\ TimerOf(g) \in TimerIds
    BY FireParts DEF ClaimInv
  <2>2. CASE TimerOf(g) = t
    <3>1. state[g] = "none" /\ attempts[g] = 0 /\ tries[g] = 0
      BY <1>3, <2>1, <2>2 DEF FireInv, KindOf
    <3> QED BY <1>3, <2>1, <3>1 DEF FireInv, Holds, Budget, ReadOnly, KindOf
  <2>3. CASE TimerOf(g) # t
    <3>1. kind'[TimerOf(g)] = kind[TimerOf(g)]
      BY <1>1, <1>3, <2>1, <2>3 DEF TimerTypes
    <3> QED BY <1>3, <2>1, <3>1 DEF FireInv, Holds, Budget, ReadOnly, KindOf
  <2> QED BY <2>2, <2>3
<1>5. ASSUME NEW u \in TimerIds PROVE TimerInv(u)'
  <2>1. TimerInv(u) /\ \A f \in Fires : FireInv(f)
    BY DEF ClaimInv
  <2>2. CASE u = t
    <3>1. kind'[u] = k /\ next'[u] = 1
      BY <1>1, <1>3, <2>2 DEF TimerTypes
    <3>2. \A f \in Fires : TimerOf(f) = u => state[f] = "none"
      BY <1>3, <2>1, <2>2 DEF FireInv, KindOf
    <3> QED BY <1>1, <1>3, <3>1, <3>2 DEF TimerInv
  <2>3. CASE u # t
    BY <1>1, <1>3, <2>1, <2>3 DEF TimerInv, TimerTypes
  <2> QED BY <2>2, <2>3
<1> QED BY <1>2, <1>4, <1>5 DEF ClaimInv

LEMMA CancelKeeps ==
    ASSUME ClaimInv, NEW t \in TimerIds, Cancel(t) \/ Comes(t)
    PROVE  ClaimInv'
<1>0. TimerTypes
  BY DEF ClaimInv
<1>1. /\ kind' = kind /\ stage' = stage /\ leases' = leases /\ calls' = calls /\ turn' = turn
      /\ phase' = phase /\ epoch' = epoch /\ attempts' = attempts /\ tries' = tries
      /\ claimed' = claimed /\ resumed' = resumed
      /\ next' = next \/ next' = [next EXCEPT ![t] = 0]
  BY DEF Cancel, Comes, fires, effects, fenceVars, registry
<1>2. /\ state' \in [Fires -> Unsettled \cup Settled \cup {"none"}]
      /\ \A f \in Fires : state'[f] = state[f] \/ (state[f] = "pending" /\ state'[f] = "cancelled")
  BY <1>0 DEF Cancel, Comes, fires, TimerTypes, Settled
<1>3. TimerTypes'
  <2>1. /\ enabled' \in [TimerIds -> BOOLEAN] /\ next' \in [TimerIds -> Nat]
        /\ due' \in [TimerIds -> BOOLEAN] /\ signature' = signature /\ samples' = samples /\ told' = told
    <3>1. CASE Cancel(t)
      BY <1>0, <3>1 DEF Cancel, TimerTypes, effects
    <3>2. CASE Comes(t)
      BY <1>0, <3>2 DEF Comes, TimerTypes, fires, effects
    <3> QED BY <3>1, <3>2
  <2> QED BY <1>0, <1>1, <1>2, <2>1 DEF TimerTypes, samples
<1>4. ASSUME NEW g \in Fires PROVE FireInv(g)'
  <2>1. FireInv(g)
    BY DEF ClaimInv
  <2> QED BY <1>1, <1>2, <2>1 DEF FireInv, Holds, Budget, ReadOnly, KindOf
<1>5. ASSUME NEW u \in TimerIds PROVE TimerInv(u)'
  <2>1. TimerInv(u)
    BY DEF ClaimInv
  <2>2. next'[u] = next[u] \/ next'[u] = 0
    BY <1>0, <1>1 DEF TimerTypes
  <2>3. \A f \in Fires : state[f] = "none" => state'[f] = "none"
    BY <1>2
  <2> QED BY <1>1, <2>1, <2>2, <2>3 DEF TimerInv
<1> QED BY <1>3, <1>4, <1>5 DEF ClaimInv

LEMMA ClaimKeeps ==
    ASSUME ClaimInv, FenceTypeOK, ClaimDue
    PROVE  ClaimInv'
<1> DEFINE claims == {f \in Fires : state[f] = "pending"} \cup {<<t, next[t]>> : t \in Due}
<1>0. TimerTypes /\ epoch \in Nat
  BY DEF ClaimInv, FenceTypeOK
<1>1. \A t \in Due : <<t, next[t]>> \in Fires /\ TimerOf(<<t, next[t]>>) = t /\ state[<<t, next[t]>>] = "none"
  <2> SUFFICES ASSUME NEW t \in Due
               PROVE  <<t, next[t]>> \in Fires /\ TimerOf(<<t, next[t]>>) = t /\ state[<<t, next[t]>>] = "none"
    OBVIOUS
  <2>1. t \in TimerIds /\ next[t] # 0 /\ TimerInv(t) /\ next[t] \in Nat
    BY <1>0 DEF Due, ClaimInv, TimerTypes
  <2>2. kind[t] \in Kinds /\ Instants[kind[t]] \in Nat /\ next[t] <= Instants[kind[t]]
    BY <1>0, <2>1, TimersAssumption DEF TimerInv, TimerTypes
  <2>3. <<t, next[t]>> \in Fires
    BY <2>1, <2>2 DEF Fires
  <2> QED BY <2>1, <2>3 DEF TimerInv, TimerOf
<1>2. /\ resumed
      /\ state' = [f \in Fires |-> IF f \in claims THEN "claimed" ELSE state[f]]
      /\ claimed' = [f \in Fires |-> IF f \in claims THEN epoch ELSE claimed[f]]
      /\ attempts' = [f \in Fires |-> IF f \in claims THEN attempts[f] + 1 ELSE attempts[f]]
      /\ stage' = [f \in Fires |-> IF f \in claims THEN "queued" ELSE stage[f]]
      /\ next' = [t \in TimerIds |-> IF t \in Due THEN Following(t) ELSE next[t]]
      /\ due' = [t \in TimerIds |-> due[t] /\ t \notin Due]
      /\ UNCHANGED <<fenceVars, resumed, kind, enabled, signature, samples, effects>>
  BY DEF ClaimDue
<1>3. \A f \in claims : f \in Fires /\ (state[f] = "pending" \/ (state[f] = "none" /\ TimerOf(f) \in Due))
  BY <1>1
<1>4. \A t \in Due : Following(t) \in Nat /\ (Following(t) # 0 =>
         Following(t) = next[t] + 1 /\ next[t] + 1 <= Instants[kind[t]])
  <2> SUFFICES ASSUME NEW t \in Due
               PROVE  Following(t) \in Nat /\ (Following(t) # 0 =>
                        Following(t) = next[t] + 1 /\ next[t] + 1 <= Instants[kind[t]])
    OBVIOUS
  <2>1. t \in TimerIds /\ next[t] # 0 /\ TimerInv(t) /\ next[t] \in Nat
    BY <1>0 DEF Due, ClaimInv, TimerTypes
  <2>2. Instants[kind[t]] \in Nat
    BY <1>0, <2>1, TimersAssumption DEF TimerInv, TimerTypes
  <2> QED BY <2>1, <2>2 DEF Following
<1> HIDE DEF claims
<1>5. TimerTypes'
  <2>1. /\ state' \in [Fires -> Unsettled \cup Settled \cup {"none"}]
        /\ claimed' \in [Fires -> Nat] /\ attempts' \in [Fires -> Nat] /\ stage' \in [Fires -> Stages]
    BY <1>0, <1>2 DEF TimerTypes, Unsettled, Stages
  <2>2. next' \in [TimerIds -> Nat] /\ due' \in [TimerIds -> BOOLEAN]
    BY <1>0, <1>2, <1>4 DEF TimerTypes
  <2> QED BY <1>0, <1>2, <2>1, <2>2 DEF TimerTypes, fenceVars, samples, effects
<1>6. ASSUME NEW g \in Fires PROVE FireInv(g)'
  <2>1. FireInv(g) /\ attempts[g] \in Nat /\ tries[g] \in Nat
    BY <1>0 DEF ClaimInv, TimerTypes
  <2>2. /\ leases' = leases /\ calls' = calls /\ turn' = turn /\ phase' = phase /\ epoch' = epoch
        /\ tries' = tries /\ kind' = kind /\ resumed' = resumed /\ resumed
    BY <1>2 DEF effects, fenceVars, registry
  <2>3. CASE g \in claims
    <3>1. /\ state'[g] = "claimed" /\ claimed'[g] = epoch /\ attempts'[g] = attempts[g] + 1
          /\ stage'[g] = "queued"
      BY <1>2, <2>3
    <3>2. KindOf(g) # "none"
      <4>1. CASE state[g] = "pending"
        BY <2>1, <4>1 DEF FireInv
      <4>2. CASE TimerOf(g) \in Due
        <5>1. TimerInv(TimerOf(g)) /\ next[TimerOf(g)] # 0
          BY <4>2 DEF Due, ClaimInv
        <5> QED BY <5>1 DEF TimerInv, KindOf
      <4> QED BY <1>3, <2>3, <4>1, <4>2
    <3>3. tries[g] <= attempts[g] /\ attempts[g] + 1 <= Budget(g)
      BY <1>3, <2>1, <2>3 DEF FireInv, Budget
    <3>4. stage[g] = "none" /\ turn[g] # "active" /\ g \notin leases /\ g \notin calls
      BY <1>0, <1>2, <1>3, <2>1, <2>3 DEF FireInv, Holds, Leased, TimerTypes
    <3> QED BY <2>1, <2>2, <3>1, <3>2, <3>3, <3>4 DEF FireInv, Holds, Budget, ReadOnly, KindOf, Leased
  <2>4. CASE g \notin claims
    <3>1. state'[g] = state[g] /\ claimed'[g] = claimed[g] /\ attempts'[g] = attempts[g] /\ stage'[g] = stage[g]
      BY <1>2, <2>4
    <3> QED BY <2>1, <2>2, <3>1 DEF FireInv, Holds, Budget, ReadOnly, KindOf
  <2> QED BY <2>3, <2>4
<1>7. ASSUME NEW u \in TimerIds PROVE TimerInv(u)'
  <2>1. TimerInv(u) /\ next[u] \in Nat /\ kind' = kind /\ next'[u] = IF u \in Due THEN Following(u) ELSE next[u]
    BY <1>0, <1>2 DEF ClaimInv, TimerTypes
  <2>2. CASE u \notin Due
    <3>1. \A f \in Fires : TimerOf(f) = u /\ state[f] = "none" => state'[f] = "none"
      BY <1>2, <1>3, <2>2
    <3> QED BY <2>1, <2>2, <3>1 DEF TimerInv
  <2>3. CASE u \in Due
    <3>1. ASSUME NEW f \in Fires, TimerOf(f) = u, f[2] >= next[u] + 1 PROVE state'[f] = "none"
      <4>1. f # <<u, next[u]>> /\ state[f] = "none"
        BY <2>1, <2>3, <3>1, FireParts DEF TimerInv, Due
      <4>2. f \notin claims
        BY <3>1, <4>1, FireParts DEF claims, TimerOf
      <4> QED BY <1>2, <4>1, <4>2
    <3>2. u \in Due /\ next[u] # 0 /\ kind[u] # "none"
      BY <2>1, <2>3 DEF Due, TimerInv
    <3> QED BY <1>4, <2>1, <2>3, <3>1, <3>2 DEF TimerInv
  <2> QED BY <2>2, <2>3
<1> QED BY <1>5, <1>6, <1>7 DEF ClaimInv

LEMMA RecoverKeeps ==
    ASSUME ClaimInv, Recover
    PROVE  ClaimInv'
<1>0. TimerTypes
  BY DEF ClaimInv
<1>1. /\ phase = "starting" /\ ~resumed /\ resumed' = TRUE /\ kind' = kind /\ next' = next /\ stage' = stage
      /\ leases' = leases /\ calls' = calls /\ turn' = turn /\ phase' = phase /\ attempts' = attempts
      /\ tries' = tries /\ claimed' = claimed /\ epoch' = epoch
      /\ state' = [f \in Fires |->
                   IF state[f] = "claimed" /\ claimed[f] # epoch
                     THEN IF ReadOnly(f) /\ attempts[f] = 1 THEN "pending" ELSE "unknown"
                     ELSE state[f]]
  BY DEF Recover, timers, effects, fenceVars, registry
<1>2. TimerTypes'
  <2>1. state' \in [Fires -> Unsettled \cup Settled \cup {"none"}]
    BY <1>0, <1>1 DEF TimerTypes, Unsettled, Settled
  <2> QED BY <1>0, <1>1, <2>1 DEF TimerTypes, Recover, timers, samples, effects
<1>3. ASSUME NEW g \in Fires PROVE FireInv(g)'
  <2>1. FireInv(g) /\ stage[g] = "none"
    BY <1>1 DEF ClaimInv, FireInv
  <2> QED BY <1>1, <2>1 DEF FireInv, Holds, Budget, ReadOnly, KindOf
<1>4. ASSUME NEW u \in TimerIds PROVE TimerInv(u)'
  <2>1. TimerInv(u) /\ \A f \in Fires : state[f] = "none" => state'[f] = "none"
    BY <1>1 DEF ClaimInv
  <2> QED BY <1>1, <2>1 DEF TimerInv
<1> QED BY <1>2, <1>3, <1>4 DEF ClaimInv

(* A Core that stops forgets its deliveries and keeps its claims.          *)
LEMMA StopKeeps ==
    ASSUME ClaimInv, FenceTypeOK, Down, Forget
    PROVE  ClaimInv'
<1>0. TimerTypes
  BY DEF ClaimInv
<1>1. TimerTypes'
  BY <1>0 DEF TimerTypes, Down, Forget, timers, fires, samples, effects, Stages
<1>2. ASSUME NEW g \in Fires PROVE FireInv(g)'
  <2>1. FireInv(g)
    BY DEF ClaimInv
  <2> QED BY <2>1 DEF FireInv, Down, Forget, timers, fires, effects, Budget, ReadOnly, KindOf, Leased
<1>3. ASSUME NEW u \in TimerIds PROVE TimerInv(u)'
  BY DEF ClaimInv, TimerInv, Forget, timers, fires
<1> QED BY <1>1, <1>2, <1>3 DEF ClaimInv

(* What goes on beside the timers leaves the leases of their turns alone.  *)
LEMMA BesideKeeps ==
    ASSUME ClaimInv, UNCHANGED <<timerVars, epoch>>, phase # "down", phase' # "down",
           phase' = "running" => resumed,
           \A f \in Fires : (f \in leases' <=> f \in leases) /\ (f \in calls' <=> f \in calls)
    PROVE  ClaimInv'
<1>1. TimerTypes'
  BY DEF ClaimInv, TimerTypes, timerVars, timers, fires, samples, effects
<1>2. ASSUME NEW g \in Fires PROVE FireInv(g)'
  BY DEF ClaimInv, FireInv, timerVars, timers, fires, effects, Budget, ReadOnly, KindOf, Holds
<1>3. ASSUME NEW u \in TimerIds PROVE TimerInv(u)'
  BY DEF ClaimInv, TimerInv, timerVars, timers, fires
<1> QED BY <1>1, <1>2, <1>3 DEF ClaimInv

LEMMA CoreKeeps ==
    ASSUME ClaimInv, FenceTypeOK, CoreStep \/ StartServing \/ OtherWork
    PROVE  ClaimInv'
<1> USE DEF FenceTypeOK
<1>0. TimerTypes
  BY DEF ClaimInv
<1>1. CASE CoreStep
  <2>1. CASE Down
    BY <1>1, <2>1, StopKeeps DEF CoreStep, OrForget, Down
  <2>2. CASE /\ phase # "down" /\ phase' = phase
             /\ epoch' = epoch /\ leases' = leases /\ calls' = calls
    BY <1>0, <1>1, <2>2, BesideKeeps DEF CoreStep, OrForget, TimerTypes
  <2>3. Crash \/ GiveUp \/ Exit => Down
    BY DEF Crash, GiveUp, Exit
  <2>4. ASSUME Wake \/ Prepare \/ Look \/ CancelFence \/ Commit \/ SaveCommit
        PROVE Down \/ (/\ phase # "down" /\ phase' = phase
                       /\ epoch' = epoch /\ leases' = leases /\ calls' = calls)
    BY <2>4 DEF Wake, Prepare, Look, CancelFence, Commit, SaveCommit, Observes, registry
  <2> QED BY <1>1, <2>1, <2>2, <2>3, <2>4 DEF CoreStep, Observer
<1>2. CASE StartServing
  <2>1. CASE Down
    BY <1>2, <2>1, StopKeeps DEF StartServing, OrForget, Down
  <2>2. CASE phase' = "running" /\ UNCHANGED <<epoch, leases, calls>>
    <3>1. UNCHANGED timerVars /\ resumed /\ phase # "down"
      BY <1>2, <2>2 DEF StartServing, OrForget, Ready
    <3> QED BY <2>2, <3>1, BesideKeeps
  <2> QED BY <1>2, <2>1, <2>2 DEF StartServing, Ready
<1>3. CASE OtherWork
  <2>1. ASSUME NEW a \in Others, Work(a)
        PROVE  /\ phase' = phase /\ epoch' = epoch /\ phase # "down"
               /\ \A f \in Fires : (f \in leases' <=> f \in leases) /\ (f \in calls' <=> f \in calls)
    <3>1. a \notin Fires /\ phase' = phase /\ epoch' = epoch
      BY <2>1 DEF Others, Work, LeaseStep
    <3>2. phase # "down"
      BY <2>1 DEF Work, Acquire, Do, Return, Release, FenceTypeOK
    <3> QED BY <2>1, <3>1, <3>2 DEF Work, Acquire, Take, Do, Return, Release, GiveBack
  <2>2. ASSUME Ask \/ Replied
        PROVE  /\ phase' = phase /\ epoch' = epoch /\ phase # "down"
               /\ \A f \in Fires : (f \in leases' <=> f \in leases) /\ (f \in calls' <=> f \in calls)
    <3>1. Reply \notin Fires
      BY FiresAssumption
    <3>2. CASE Hold
      BY <3>1, <3>2 DEF Hold, Acquire, Take, LeaseStep
    <3>3. CASE \E mode \in Modes : AskRestart(mode)
      BY <3>3 DEF AskRestart
    <3>4. CASE Replied
      BY <3>1, <3>4 DEF Replied, Release, GiveBack, LeaseStep, FenceTypeOK
    <3> QED BY <2>2, <3>2, <3>3, <3>4 DEF Ask
  <2> QED BY <1>0, <1>3, <2>1, <2>2, BesideKeeps DEF OtherWork, TimerTypes
<1> QED BY <1>1, <1>2, <1>3

LEMMA StartKeepsClaims ==
    ASSUME ClaimInv, FenceTypeOK, StartCore
    PROVE  ClaimInv'
<1>0. TimerTypes /\ phase = "down" /\ phase' = "starting" /\ ~resumed
  BY DEF ClaimInv, TimerTypes, StartCore, Boot
<1>1. TimerTypes'
  BY <1>0 DEF TimerTypes, StartCore, Boot, timers, fires, samples
<1>2. ASSUME NEW g \in Fires PROVE FireInv(g)'
  <2>1. FireInv(g) /\ stage[g] = "none"
    BY <1>0 DEF ClaimInv, FireInv
  <2>2. turn'[g] # "active"
    BY <1>0 DEF StartCore, TimerTypes
  <2> QED BY <1>0, <2>1, <2>2
       DEF FireInv, StartCore, Boot, registry, timers, fires, Budget, ReadOnly, KindOf, Leased
<1>3. ASSUME NEW u \in TimerIds PROVE TimerInv(u)'
  BY DEF ClaimInv, TimerInv, StartCore, timers, fires
<1> QED BY <1>1, <1>2, <1>3 DEF ClaimInv

LEMMA ClaimStep ==
    ASSUME ClaimInv, FenceTypeOK, [Next]_vars
    PROVE  ClaimInv'
<1>1. CASE UNCHANGED vars
  <2>1. TimerTypes'
    BY <1>1 DEF ClaimInv, TimerTypes, vars, timerVars, timers, fires, samples, effects, fenceVars
  <2>2. ASSUME NEW g \in Fires PROVE FireInv(g)'
    BY <1>1 DEF ClaimInv, FireInv, vars, timerVars, timers, fires, effects, fenceVars, registry,
                Budget, ReadOnly, KindOf, Holds
  <2>3. ASSUME NEW u \in TimerIds PROVE TimerInv(u)'
    BY <1>1 DEF ClaimInv, TimerInv, vars, timerVars, timers, fires
  <2> QED BY <2>1, <2>2, <2>3 DEF ClaimInv
<1>2. CASE Next
  BY <1>2, ReactKeeps, SettleKeeps, CreateKeeps, CancelKeeps, ClaimKeeps, RecoverKeeps, CoreKeeps,
     StartKeepsClaims DEF Next
<1> QED BY <1>1, <1>2

(* The invariant of a Core with timers: its fence and its claims.          *)
TimersInv == FenceInv /\ ClaimInv

THEOREM TimersInvariant == Spec => []TimersInv
<1>1. Init => TimersInv
  BY InitClaim, FenceInitially DEF Init, TimersInv
<1>2. TimersInv /\ [Next]_vars => TimersInv'
  <2> SUFFICES ASSUME TimersInv, [Next]_vars PROVE TimersInv'
    OBVIOUS
  <2>1. ClaimInv'
    BY ClaimStep DEF TimersInv, FenceInv
  <2>2. FenceInv'
    <3>1. FenceNext \/ UNCHANGED fenceVars
      BY StepImplements DEF vars
    <3> QED BY <3>1, WorkKeeps, ClientKeeps, StartKeeps, CrashKeeps, ObserverKeeps, FenceStutters
            DEF FenceNext, TimersInv
  <2> QED BY <2>1, <2>2 DEF TimersInv
<1> QED BY <1>1, <1>2, PTL DEF Spec

(* Every variable keeps its range, and deliveries, claims and leases agree. *)
THEOREM TimersTypes == Spec => []TypeOK
<1>1. TimersInv => TypeOK
  BY DEF TimersInv, FenceInv, ClaimInv, TimerTypes, FireInv, TimerInv, TypeOK
<1> QED BY <1>1, TimersInvariant, PTL

(* Nothing that matters is running in a Core that exits for a restart.     *)
THEOREM TimersExitQuietly == Spec => []QuietExit
<1>1. TimersInv => QuietExit
  <2> SUFFICES ASSUME TimersInv, fence = "committed"
               PROVE  StandsStill /\ \A f \in Fires : stage[f] \notin Leased /\ turn[f] # "active"
    BY DEF QuietExit
  <2>1. Blocking = {} /\ phase = "running" /\ FenceTypeOK
    BY DEF TimersInv, FenceInv, PlaceInv, FenceTypeOK
  <2>2. StandsStill
    BY <2>1, ActivitiesAssumption DEF StandsStill, FenceTypeOK, Blocking
  <2>3. ASSUME NEW f \in Fires PROVE stage[f] \notin Leased /\ turn[f] # "active"
    <3>1. f \notin leases
      BY <2>1, FiresAssumption DEF Blocking
    <3>2. FireInv(f)
      BY DEF TimersInv, ClaimInv
    <3> QED BY <2>1, <3>1, <3>2 DEF FireInv, Leased
  <2> QED BY <2>2, <2>3
<1> QED BY <1>1, TimersInvariant, PTL

(* No restart is carried out twice, or called done before it was.          *)
THEOREM TimersExitOnce == Spec => []ExitsOnce
<1>1. TimersInv => ExitsOnce
  <2> SUFFICES ASSUME TimersInv PROVE ExitsOnce
    OBVIOUS
  <2>1. FenceTypeOK /\ PlaceInv /\ RequestInv
    BY DEF TimersInv, FenceInv
  <2>2. pc = "save" => request.id \notin exited
    BY <2>1 DEF FenceTypeOK, RequestInv, Requests
  <2> QED BY <2>1, <2>2 DEF RequestInv, ExitsOnce
<1> QED BY <1>1, TimersInvariant, PTL

(* A job is taken up at most once and a fire that only reads at most twice. *)
THEOREM TimersTryOnce == Spec => []TriesBounded
<1>1. TimersInv => TriesBounded
  <2> SUFFICES ASSUME TimersInv, NEW f \in Fires PROVE tries[f] <= IF ReadOnly(f) THEN 2 ELSE 1
    BY DEF TriesBounded
  <2>1. FireInv(f) /\ tries[f] \in Nat /\ attempts[f] \in Nat
    BY DEF TimersInv, ClaimInv, TimerTypes
  <2> QED BY <2>1 DEF FireInv, Budget
<1> QED BY <1>1, TimersInvariant, PTL

-----------------------------------------------------------------------------
(* What has been done: a delivery about to be recorded as handled has done   *)
(* its work, and only a fire that was found changed goes on to a turn.      *)
Entered == {"entering"} \cup Leased

RecordInv(f) ==
    /\ state[f] = "handled" \/ stage[f] = "finish" => Worked(f)
    /\ stage[f] \in Entered =>
        KindOf(f) # "reminder" /\ (KindOf(f) = "sensor" => sampled[f] # 0)

ChangeInv(t) ==
    signature[t] # 0 => \E f \in Fires : TimerOf(f) = t /\ changed[f] /\ sampled[f] = signature[t]

WorkInv == (\A f \in Fires : RecordInv(f)) /\ (\A t \in TimerIds : ChangeInv(t))

(* Work that is done stays done, and a delivery goes on only from where it   *)
(* has done what the next place asks for.                                  *)
LEMMA WorkStays ==
    ASSUME ClaimInv, WorkInv, told \subseteq told', UNCHANGED <<signature, samples>>,
           \A f \in Fires : KindOf(f) # "none" => KindOf(f)' = KindOf(f),
           \A f \in Fires : turn[f] # "none" => turn'[f] # "none",
           \A f \in Fires : state'[f] = "handled" => state[f] = "handled" \/ stage[f] = "finish",
           \A f \in Fires :
              \/ stage'[f] = stage[f] \/ stage'[f] \in {"none", "queued", "running", "fail"}
              \/ stage'[f] = "finish" /\ Worked(f)'
              \/ stage'[f] \in Entered /\ stage[f] \in Entered
              \/ stage'[f] \in Entered /\ stage[f] # "none" /\ KindOf(f) = "job"
    PROVE  WorkInv'
<1>1. ASSUME NEW f \in Fires PROVE RecordInv(f)'
  <2>1. RecordInv(f) /\ FireInv(f)
    BY DEF ClaimInv, WorkInv
  <2>2. state[f] = "handled" \/ stage[f] # "none" => KindOf(f) # "none"
    BY <2>1 DEF FireInv, Holds
  <2>3. Worked(f) /\ KindOf(f) # "none" => Worked(f)'
    BY DEF Worked, samples
  <2>4. state'[f] = "handled" => Worked(f)'
    BY <2>1, <2>2, <2>3 DEF RecordInv
  <2>5. stage'[f] = "finish" => Worked(f)'
    <3>1. stage'[f] = "finish" => stage[f] = "finish" \/ Worked(f)'
      BY DEF Entered, Leased
    <3> QED BY <2>1, <2>2, <2>3, <3>1 DEF RecordInv
  <2>6. stage'[f] \in Entered => KindOf(f)' # "reminder" /\ (KindOf(f)' = "sensor" => sampled'[f] # 0)
    BY <2>1, <2>2 DEF RecordInv, Entered, Leased, samples
  <2> QED BY <2>4, <2>5, <2>6 DEF RecordInv, Entered, Leased
<1>2. ASSUME NEW t \in TimerIds PROVE ChangeInv(t)'
  BY DEF WorkInv, ChangeInv, samples, TimerOf
<1> QED BY <1>1, <1>2 DEF WorkInv

LEMMA ObserveDecides ==
    ASSUME ClaimInv, WorkInv, NEW f \in Fires, Observe(f)
    PROVE  WorkInv'
<1>0. TimerTypes /\ TimerOf(f) \in TimerIds /\ FireInv(f)
  BY FireParts DEF ClaimInv
<1>1. /\ kind' = kind /\ told' = told /\ turn' = turn /\ state' = state
      /\ KindOf(f) = "sensor" /\ stage' = [stage EXCEPT ![f] = IF changed'[f] THEN "entering" ELSE "finish"]
      /\ state[f] = "claimed"
  BY <1>0 DEF Observe, Observed, Goes, effects, FireInv, Holds
<1>2. /\ sampled' \in [Fires -> Revisions \cup {0}] /\ changed' \in [Fires -> BOOLEAN] /\ sampled'[f] # 0
      /\ signature' \in [TimerIds -> Revisions \cup {0}]
      /\ \A g \in Fires \ {f} : sampled'[g] = sampled[g] /\ changed'[g] = changed[g]
      /\ sampled[f] # 0 => sampled' = sampled /\ changed' = changed /\ signature' = signature
      /\ \A t \in TimerIds \ {TimerOf(f)} : signature'[t] = signature[t]
      /\ sampled[f] = 0 => /\ signature'[TimerOf(f)] = sampled'[f]
                           /\ changed'[f] <=> signature[TimerOf(f)] # sampled'[f]
  <2>1. CASE sampled[f] # 0
    BY <1>0, <2>1 DEF Observe, samples, TimerTypes
  <2>2. CASE sampled[f] = 0
    <3>1. PICK revision \in Revisions :
            /\ sampled' = [sampled EXCEPT ![f] = revision]
            /\ changed' = [changed EXCEPT ![f] = signature[TimerOf(f)] # revision]
            /\ signature' = [signature EXCEPT ![TimerOf(f)] = revision]
      BY <2>2 DEF Observe, Sample
    <3>2. revision # 0
      BY TimersAssumption
    <3>3. changed'[f] <=> signature[TimerOf(f)] # revision
      BY <1>0, <3>1 DEF TimerTypes
    <3>4. changed' \in [Fires -> BOOLEAN] /\ \A g \in Fires \ {f} : changed'[g] = changed[g]
      BY <1>0, <3>1 DEF TimerTypes
    <3> QED BY <1>0, <2>2, <3>1, <3>2, <3>3, <3>4 DEF TimerTypes
  <2> QED BY <2>1, <2>2
<1>3. ASSUME NEW g \in Fires PROVE RecordInv(g)'
  <2>1. RecordInv(g) /\ stage'[g] = IF g = f THEN (IF changed'[f] THEN "entering" ELSE "finish") ELSE stage[g]
    BY <1>0, <1>1 DEF WorkInv, TimerTypes
  <2>2. CASE g = f
    BY <1>1, <1>2, <2>1, <2>2 DEF RecordInv, Worked, KindOf, Entered, Leased
  <2>3. CASE g # f
    BY <1>1, <1>2, <2>1, <2>3 DEF RecordInv, Worked, KindOf, Entered, Leased
  <2> QED BY <2>2, <2>3
<1>4. ASSUME NEW t \in TimerIds PROVE ChangeInv(t)'
  <2>1. ChangeInv(t)
    BY DEF WorkInv
  <2>2. CASE t # TimerOf(f)
    BY <1>2, <2>1, <2>2 DEF ChangeInv, TimerOf
  <2>3. CASE t = TimerOf(f) /\ sampled[f] # 0
    BY <1>2, <2>1, <2>3 DEF ChangeInv, TimerOf
  <2>4. CASE t = TimerOf(f) /\ sampled[f] = 0 /\ changed'[f]
    BY <1>2, <2>4 DEF ChangeInv, TimerOf
  <2>5. CASE t = TimerOf(f) /\ sampled[f] = 0 /\ ~changed'[f]
    <3>1. signature'[t] = signature[t] /\ signature[t] # 0
      BY <1>2, <2>5
    <3>2. PICK g \in Fires : TimerOf(g) = t /\ changed[g] /\ sampled[g] = signature[t]
      BY <2>1, <3>1 DEF ChangeInv
    <3>3. g # f
      BY <2>5, <3>1, <3>2
    <3> QED BY <1>2, <3>1, <3>2, <3>3 DEF ChangeInv, TimerOf
  <2> QED BY <2>2, <2>3, <2>4, <2>5
<1> QED BY <1>3, <1>4 DEF WorkInv

LEMMA WorkStep ==
    ASSUME ClaimInv, WorkInv, [Next]_vars
    PROVE  WorkInv'
<1> USE DEF Entered, Leased
<1>0. TimerTypes
  BY DEF ClaimInv
<1>1. ASSUME NEW f \in Fires, Deliver(f) \/ Breaks(f) \/ Refused(f) \/ FailClaim(f)
      PROVE  WorkInv'
  <2>1. /\ \E place \in {"running", "fail"} : stage' = [stage EXCEPT ![f] = place]
        /\ UNCHANGED <<told, signature, samples, kind, turn, state>>
    BY <1>1 DEF Deliver, Breaks, Refused, FailClaim, Leaves, Goes, timers, fires, effects
  <2> QED BY <1>0, <2>1, WorkStays DEF TimerTypes, KindOf
<1>2. ASSUME NEW f \in Fires, Undertake(f) \/ Enter(f)
      PROVE  WorkInv'
  <2>1. /\ \/ stage[f] = "entering" /\ stage' = [stage EXCEPT ![f] = "leased"]
           \/ stage[f] = "running" /\ KindOf(f) = "job" /\ stage' = [stage EXCEPT ![f] = "entering"]
        /\ UNCHANGED <<told, signature, samples, kind, turn, state>>
    BY <1>2 DEF Undertake, Enter, Goes, timers, fires, effects
  <2> QED BY <1>0, <2>1, WorkStays DEF TimerTypes, KindOf
<1>3. ASSUME NEW f \in Fires, BeginTurn(f)
      PROVE  WorkInv'
  <2>1. /\ stage[f] = "leased" /\ stage' = [stage EXCEPT ![f] = "turn"]
        /\ turn' = [turn EXCEPT ![f] = "active"]
        /\ UNCHANGED <<told, signature, samples, kind, state>>
    BY <1>3 DEF BeginTurn, Goes, timers, fires
  <2> QED BY <1>0, <2>1, WorkStays DEF TimerTypes, KindOf
<1>4. ASSUME NEW f \in Fires, Publish(f)
      PROVE  WorkInv'
  <2>1. /\ KindOf(f) = "reminder" /\ stage' = [stage EXCEPT ![f] = "finish"]
        /\ told' = told \cup {f} /\ UNCHANGED <<signature, samples, kind, turn, state>>
    BY <1>4 DEF Publish, Goes, timers, fires
  <2>2. Worked(f)'
    BY <2>1 DEF Worked, KindOf
  <2> QED BY <1>0, <2>1, <2>2, WorkStays DEF TimerTypes, KindOf
<1>5. ASSUME NEW f \in Fires, AlreadyBegun(f) \/ EndTurn(f)
      PROVE  WorkInv'
  <2>1. /\ stage[f] \in Leased /\ turn'[f] # "none"
        /\ \E place \in {"finish", "fail"} : stage' = [stage EXCEPT ![f] = place]
        /\ \A g \in Fires \ {f} : turn'[g] = turn[g]
        /\ UNCHANGED <<told, signature, samples, kind, state>>
    BY <1>0, <1>5 DEF AlreadyBegun, EndTurn, Leaves, Goes, timers, fires, TimerTypes
  <2>2. RecordInv(f) /\ Worked(f)'
    BY <2>1 DEF WorkInv, RecordInv, Worked, KindOf, samples
  <2> QED BY <1>0, <2>1, <2>2, WorkStays DEF TimerTypes, KindOf
<1>6. ASSUME NEW f \in Fires, Settle(f)
      PROVE  WorkInv'
  <2>1. /\ stage' = [stage EXCEPT ![f] = "none"]
        /\ UNCHANGED <<told, signature, samples, kind, turn>>
        /\ \E s \in Settled \cup Unsettled :
             state' = [state EXCEPT ![f] = s] /\ (s = "handled" => stage[f] = "finish")
    BY <1>6 DEF Settle, Finish, Fail, Goes, timers, effects, Settled, Unsettled
  <2> QED BY <1>0, <2>1, WorkStays DEF TimerTypes, KindOf
<1>7. ASSUME NEW t \in TimerIds, NEW k \in Kinds, Create(t, k)
      PROVE  WorkInv'
  <2>1. /\ kind[t] = "none" /\ kind' = [kind EXCEPT ![t] = k]
        /\ UNCHANGED <<told, signature, samples, turn, state, stage>>
    BY <1>7 DEF Create, fires, effects
  <2>2. \A f \in Fires : KindOf(f) # "none" => KindOf(f)' = KindOf(f)
    BY <1>0, <2>1, FireParts DEF TimerTypes, KindOf, TimerOf
  <2> QED BY <2>1, <2>2, WorkStays
<1>8. CASE ClaimDue \/ Recover \/ StartCore \/ (\E t \in TimerIds : Cancel(t) \/ Comes(t))
  <2>1. /\ UNCHANGED <<told, signature, samples, kind>>
        /\ \A f \in Fires : turn[f] # "none" => turn'[f] # "none"
        /\ \A f \in Fires : state'[f] = "handled" => state[f] = "handled"
        /\ \A f \in Fires : stage'[f] \in {stage[f], "queued"}
    <3>1. CASE ClaimDue
      BY <3>1 DEF ClaimDue, effects
    <3>2. CASE Recover
      BY <3>2 DEF Recover, timers, effects
    <3>3. CASE StartCore
      BY <3>3 DEF StartCore, timers, fires
    <3>4. CASE \E t \in TimerIds : Cancel(t) \/ Comes(t)
      BY <3>4 DEF Cancel, Comes, fires, effects
    <3> QED BY <1>8, <3>1, <3>2, <3>3, <3>4
  <2> QED BY <2>1, WorkStays DEF KindOf
<1>9. CASE CoreStep \/ OtherWork \/ StartServing \/ UNCHANGED vars
  <2>1. Forget \/ UNCHANGED timerVars
    BY <1>9 DEF CoreStep, OtherWork, StartServing, OrForget, vars
  <2> QED BY <2>1, WorkStays DEF Forget, timerVars, timers, fires, effects, KindOf
<1> QED BY <1>1, <1>2, <1>3, <1>4, <1>5, <1>6, <1>7, <1>8, <1>9, ObserveDecides DEF Next, React

(* Handled means done, and no change that was seen is left without a fire   *)
(* that was to react to it.                                                *)
THEOREM TimersDoTheirWork == Spec => []HandledMeansDone
<1>1. Init => WorkInv
  <2> SUFFICES ASSUME Init PROVE WorkInv
    OBVIOUS
  <2>1. \A f \in Fires : RecordInv(f)
    BY DEF Init, RecordInv, Entered, Leased
  <2> QED BY <2>1 DEF Init, WorkInv, ChangeInv
<1>2. TimersInv /\ WorkInv /\ [Next]_vars => WorkInv'
  BY WorkStep DEF TimersInv
<1>3. WorkInv => HandledMeansDone
  BY DEF WorkInv, RecordInv, ChangeInv, HandledMeansDone
<1> QED BY <1>1, <1>2, <1>3, TimersInvariant, PTL DEF Spec

-----------------------------------------------------------------------------
(* Claims in hand: before it recovers, Core has no claim of its own epoch,   *)
(* so that none of those it finds is left when it has.                     *)
HandInv(f) ==
    /\ claimed[f] <= epoch
    /\ state[f] = "claimed" => IF resumed THEN stage[f] # "none"
                               ELSE phase = "starting" => claimed[f] < epoch

InHand == \A f \in Fires : HandInv(f)

LEMMA InHandStep ==
    ASSUME ClaimInv, FenceTypeOK, InHand, Next
    PROVE  InHand'
<1> SUFFICES ASSUME NEW f \in Fires PROVE HandInv(f)'
  BY DEF InHand
<1>0. HandInv(f) /\ TimerTypes /\ FireInv(f) /\ claimed[f] \in Nat /\ epoch \in Nat
  BY DEF InHand, ClaimInv, TimerTypes, FenceTypeOK
<1>1. CASE \E t \in TimerIds : (\E k \in Kinds : Create(t, k)) \/ Cancel(t) \/ Comes(t)
  <2>1. /\ UNCHANGED <<claimed, stage, epoch, phase, resumed>>
        /\ state'[f] = "claimed" => state[f] = "claimed"
    BY <1>1 DEF Create, Cancel, Comes, fires, fenceVars
  <2> QED BY <1>0, <2>1 DEF HandInv
<1>2. CASE ClaimDue
  BY <1>0, <1>2 DEF ClaimDue, HandInv, fenceVars, TimerTypes
<1>3. CASE Recover
  BY <1>0, <1>3 DEF Recover, HandInv, fenceVars, TimerTypes
<1>4. ASSUME NEW g \in Fires, Deliver(g) \/ React(g) \/ Breaks(g) \/ FailClaim(g) \/ Settle(g)
      PROVE  HandInv(f)'
  <2>1. CASE Settle(g)
    BY <1>0, <2>1 DEF Settle, Finish, Fail, Goes, HandInv, fenceVars, TimerTypes
  <2>2. CASE Deliver(g) \/ React(g) \/ Breaks(g) \/ FailClaim(g)
    <3>1. /\ UNCHANGED <<state, claimed, epoch, phase, resumed>>
          /\ \E place \in Stages \ {"none"} : Goes(g, place)
      BY <2>2 DEF Deliver, React, Breaks, FailClaim, Publish, Observe, Observed, Undertake, Enter,
         Refused, BeginTurn, AlreadyBegun, EndTurn, Leaves, LeaseStep, fires, fenceVars, Stages
    <3> QED BY <1>0, <3>1 DEF Goes, HandInv, TimerTypes
  <2> QED BY <1>4, <2>1, <2>2
<1>5. CASE CoreStep \/ StartServing
  <2>1. epoch' = epoch
    BY <1>5 DEF CoreStep, StartServing, Ready, Crash, Observer, Wake, Prepare, Look, CancelFence,
       Commit, SaveCommit, Exit, GiveUp, Observes, Down
  <2>2. \/ phase' = "down" /\ Forget
        \/ UNCHANGED timerVars /\ (phase' = phase \/ resumed)
    BY <1>5 DEF CoreStep, StartServing, OrForget, Crash, Observer, Wake, Prepare, Look, CancelFence,
       Commit, SaveCommit, Exit, GiveUp, Observes, Down
  <2> QED BY <1>0, <2>1, <2>2 DEF HandInv, Forget, timerVars, fires
<1>6. CASE OtherWork
  <2>1. UNCHANGED <<epoch, phase, timerVars>>
    BY <1>6 DEF OtherWork, Work, LeaseStep, Ask, Hold, AskRestart, Replied
  <2> QED BY <1>0, <2>1 DEF HandInv, timerVars, fires
<1>7. CASE StartCore
  <2>1. epoch' = epoch + 1 /\ ~resumed /\ UNCHANGED <<resumed, state, claimed, stage>>
    BY <1>0, <1>7 DEF StartCore, Boot, TimerTypes, fires
  <2> QED BY <1>0, <2>1 DEF HandInv
<1> QED BY <1>1, <1>2, <1>3, <1>4, <1>5, <1>6, <1>7 DEF Next

(* After a start of Core, whatever became of the last one, no fire stays     *)
(* claimed that nobody is going to settle.                                 *)
THEOREM TimersInHand == Spec => []FiresInHand
<1>1. Init => InHand
  BY DEF Init, FenceInit, InHand, HandInv
<1>2. TimersInv /\ InHand /\ [Next]_vars => InHand'
  <2>1. ASSUME InHand, UNCHANGED vars PROVE InHand'
    BY <2>1 DEF InHand, HandInv, vars, timerVars, fires, fenceVars
  <2> QED BY <2>1, InHandStep DEF TimersInv, FenceInv
<1>3. InHand => FiresInHand
  BY DEF InHand, HandInv, FiresInHand
<1> QED BY <1>1, <1>2, <1>3, TimersInvariant, PTL DEF Spec
=============================================================================
