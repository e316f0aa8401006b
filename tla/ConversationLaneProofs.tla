----------------------- MODULE ConversationLaneProofs -----------------------
(***************************************************************************)
(* Proofs about ConversationLane for every set of inputs, reminders and    *)
(* notices, and every bound on faults.  The inductive invariant is LaneInv. *)
(***************************************************************************)
EXTENDS ConversationLane, DistinctSequences

-----------------------------------------------------------------------------
(* The goroutine of the lane. *)

(* Nothing changes outside runner r. *)
Elsewhere(r) ==
    \A q \in Runners \ {r} :
        /\ pc'[q] = pc[q] /\ queue'[q] = queue[q] /\ job'[q] = job[q]
        /\ buffer'[q] = buffer[q] /\ open'[q] = open[q] /\ followups'[q] = followups[q]

(* A runner that is not alive holds nothing. *)
LEMMA IdleHoldsNothing ==
  ASSUME LaneInv, NEW q \in Runners, pc[q] = "idle"
  PROVE  /\ queue[q] = <<>> /\ buffer[q] = <<>> /\ followups[q] = <<>> /\ ~open[q]
         /\ job[q] = NoInput /\ Waiting(q) = {}
BY EmptyHolds DEF LaneInv, HeldOnce, TurnPlaces, TypeOK, Waiting

(* The turn in hand is of an input that waits nowhere. *)
LEMMA JobApart ==
  ASSUME LaneInv, NEW r \in Runners, pc[r] \in TurnPlaces
  PROVE  /\ job[r] \in accepted /\ job[r] # NoInput /\ job[r] \notin Waiting(r)
         /\ job[r] \notin Range(queue[r]) \cup Range(buffer[r]) \cup Range(followups[r])
<1>1. job[r] # NoInput
  BY DEF LaneInv, HeldOnce, TypeOK
<1> QED
  BY <1>1 DEF LaneInv, HeldOnce, Waiting

(* What a step of runner r leaves of the invariant at the others. *)
LEMMA OthersIdle ==
  ASSUME LaneInv, NEW r \in Runners, pc[r] # "idle", Elsewhere(r), TypeOK'
  PROVE  /\ entry = r /\ \A q \in Runners \ {r} : pc[q] = "idle"
         /\ \A q \in Runners \ {r} : HeldOnce(q)' /\ Waiting(q)' = {} /\ job'[q] = NoInput
<1>1. entry = r /\ \A q \in Runners \ {r} : pc[q] = "idle"
  BY DEF LaneInv, OneRunner, Alive
<1>2. ASSUME NEW q \in Runners \ {r}
      PROVE  HeldOnce(q)' /\ Waiting(q)' = {} /\ job'[q] = NoInput
  <2>1. /\ queue'[q] = <<>> /\ buffer'[q] = <<>> /\ followups'[q] = <<>> /\ ~open'[q]
        /\ job'[q] = NoInput /\ pc'[q] = "idle"
    BY <1>1, <1>2, IdleHoldsNothing DEF Elsewhere
  <2>2. Waiting(q)' = {}
    BY <2>1, EmptyHolds DEF Waiting
  <2>3. ~active'[q]
    BY <2>1, <1>2 DEF TypeOK
  <2> QED
    BY <2>1, <2>2, <2>3, EmptyHolds DEF HeldOnce, TurnPlaces
<1> QED
  BY <1>1, <1>2

(* The oldest queued input becomes the turn in hand and waits no longer. *)
LEMMA TakeKeeps ==
  ASSUME LaneInv, NEW r \in Runners, Take(r) PROVE LaneInv'
<1> USE DEF Take, TypeOK, Places, TurnPlaces, lanes, turn, inputs, bounds, Goto, At
<1>1. pc[r] # "idle" /\ HeldOnce(r)
  BY DEF LaneInv
<1>2. TypeOK'
  <2>1. Head(queue[r]) \in Inputs /\ Tail(queue[r]) \in Seq(Inputs)
    BY TailHolds DEF LaneInv
  <2>2. active' = [q \in Runners |-> job'[q] # NoInput]
    BY <2>1, NamesAssumption DEF LaneInv
  <2> QED
    BY <2>1, <2>2 DEF LaneInv
<1>3. Elsewhere(r)
  BY DEF LaneInv, Elsewhere
<1>4. /\ entry = r /\ \A q \in Runners \ {r} : pc[q] = "idle"
      /\ \A q \in Runners \ {r} : HeldOnce(q)' /\ Waiting(q)' = {} /\ job'[q] = NoInput
  BY <1>1, <1>2, <1>3, OthersIdle
<1>5. OneRunner'
  BY <1>4, NamesAssumption DEF LaneInv, OneRunner, Alive
<1>6. HeldOnce(r)'
  BY <1>1, <1>2, EmptyHolds, TailHolds DEF LaneInv, HeldOnce, Waiting, AdmittingApart
<1>7. AdmittingApart'
  BY <1>1, <1>4, EmptyHolds, TailHolds DEF LaneInv, HeldOnce, AdmittingApart, Waiting
<1> QED
  BY <1>2, <1>4, <1>5, <1>6, <1>7 DEF LaneInv

(* Looking for notices moves no input. *)
LEMMA CheckNoticesKeeps ==
  ASSUME LaneInv, NEW r \in Runners, CheckNotices(r) PROVE LaneInv'
<1> USE DEF CheckNotices, TypeOK, Places, TurnPlaces, lanes, turn, inputs, bounds, Goto, At
<1>1. pc[r] # "idle" /\ HeldOnce(r)
  BY DEF LaneInv
<1>2. TypeOK'
  BY <1>1 DEF LaneInv, HeldOnce
<1>3. Elsewhere(r)
  BY DEF LaneInv, Elsewhere
<1>4. /\ entry = r /\ \A q \in Runners \ {r} : pc[q] = "idle"
      /\ \A q \in Runners \ {r} : HeldOnce(q)' /\ Waiting(q)' = {} /\ job'[q] = NoInput
  BY <1>1, <1>2, <1>3, OthersIdle
<1>5. OneRunner'
  BY <1>4, NamesAssumption DEF LaneInv, OneRunner, Alive
<1>6. HeldOnce(r)'
  BY <1>1, <1>2, EmptyHolds DEF LaneInv, HeldOnce, Waiting, AdmittingApart
<1>7. AdmittingApart'
  BY <1>1, <1>4, EmptyHolds DEF LaneInv, HeldOnce, AdmittingApart, Waiting
<1> QED
  BY <1>2, <1>4, <1>5, <1>6, <1>7 DEF LaneInv

(* A lane retires with nothing queued, so nobody serves the conversation. *)
LEMMA RetireKeeps ==
  ASSUME LaneInv, NEW r \in Runners, Retire(r) PROVE LaneInv'
<1> USE DEF Retire, TypeOK, Places, TurnPlaces, lanes, turn, inputs, bounds, Goto, At
<1>1. pc[r] # "idle" /\ HeldOnce(r)
  BY DEF LaneInv
<1>2. TypeOK'
  BY <1>1 DEF LaneInv, HeldOnce
<1>3. Elsewhere(r)
  BY DEF LaneInv, Elsewhere
<1>4. /\ entry = r /\ \A q \in Runners \ {r} : pc[q] = "idle"
      /\ \A q \in Runners \ {r} : HeldOnce(q)' /\ Waiting(q)' = {} /\ job'[q] = NoInput
  BY <1>1, <1>2, <1>3, OthersIdle
<1>5. OneRunner'
  BY <1>4, NamesAssumption DEF LaneInv, OneRunner, Alive
<1>6. HeldOnce(r)'
  BY <1>1, <1>2, EmptyHolds DEF LaneInv, HeldOnce, Waiting, AdmittingApart
<1>7. AdmittingApart'
  BY <1>1, <1>4, EmptyHolds DEF LaneInv, HeldOnce, AdmittingApart, Waiting
<1> QED
  BY <1>2, <1>4, <1>5, <1>6, <1>7 DEF LaneInv

(* A turn cancelled before it began is reported to its submitter. *)
LEMMA ExecuteKeeps ==
  ASSUME LaneInv, NEW r \in Runners, Execute(r) PROVE LaneInv'
<1> USE DEF Execute, TypeOK, Places, TurnPlaces, lanes, turn, inputs, bounds, Goto, At
<1>1. pc[r] # "idle" /\ HeldOnce(r)
  BY DEF LaneInv
<1>2. TypeOK'
  <2>1. reported' \subseteq accepted
    BY JobApart DEF LaneInv
  <2> QED
    BY <2>1 DEF LaneInv
<1>3. Elsewhere(r)
  BY DEF LaneInv, Elsewhere
<1>4. /\ entry = r /\ \A q \in Runners \ {r} : pc[q] = "idle"
      /\ \A q \in Runners \ {r} : HeldOnce(q)' /\ Waiting(q)' = {} /\ job'[q] = NoInput
  BY <1>1, <1>2, <1>3, OthersIdle
<1>5. OneRunner'
  BY <1>4, NamesAssumption DEF LaneInv, OneRunner, Alive
<1>6. HeldOnce(r)'
  BY <1>1, <1>2, EmptyHolds, JobApart DEF LaneInv, HeldOnce, Waiting, AdmittingApart
<1>7. AdmittingApart'
  BY <1>1, <1>4, EmptyHolds, JobApart DEF LaneInv, HeldOnce, AdmittingApart, Waiting
<1> QED
  BY <1>2, <1>4, <1>5, <1>6, <1>7 DEF LaneInv

(* A reminder is heard; what was steered into it is nowhere any more. *)
LEMMA PublishKeeps ==
  ASSUME LaneInv, NEW r \in Runners, Publish(r) PROVE LaneInv'
<1> USE DEF Publish, TypeOK, Places, TurnPlaces, lanes, turn, inputs, bounds, Goto, At
<1>1. pc[r] # "idle" /\ HeldOnce(r)
  BY DEF LaneInv
<1>2. TypeOK'
  BY <1>1, JobApart DEF LaneInv, HeldOnce
<1>3. Elsewhere(r)
  BY DEF LaneInv, Elsewhere
<1>4. /\ entry = r /\ \A q \in Runners \ {r} : pc[q] = "idle"
      /\ \A q \in Runners \ {r} : HeldOnce(q)' /\ Waiting(q)' = {} /\ job'[q] = NoInput
  BY <1>1, <1>2, <1>3, OthersIdle
<1>5. OneRunner'
  BY <1>4, NamesAssumption DEF LaneInv, OneRunner, Alive
<1>6. HeldOnce(r)'
  BY <1>1, <1>2, EmptyHolds, JobApart DEF LaneInv, HeldOnce, Waiting, AdmittingApart
<1>7. AdmittingApart'
  BY <1>1, <1>4, EmptyHolds, JobApart DEF LaneInv, HeldOnce, AdmittingApart, Waiting
<1> QED
  BY <1>2, <1>4, <1>5, <1>6, <1>7 DEF LaneInv

(* An early failure is reported and leaves the queue to be forgotten. *)
LEMMA FailEarlyKeeps ==
  ASSUME LaneInv, NEW r \in Runners, FailEarly(r) PROVE LaneInv'
<1> USE DEF FailEarly, TypeOK, Places, TurnPlaces, lanes, turn, inputs, bounds, Goto, At
<1>1. pc[r] # "idle" /\ HeldOnce(r)
  BY DEF LaneInv
<1>2. TypeOK'
  <2>1. reported' \subseteq accepted
    BY JobApart DEF LaneInv
  <2>2. early' \in 0 .. MaxEarly
    BY BoundsAssumption DEF LaneInv
  <2> QED
    BY <2>1, <2>2 DEF LaneInv
<1>3. Elsewhere(r)
  BY DEF LaneInv, Elsewhere
<1>4. /\ entry = r /\ \A q \in Runners \ {r} : pc[q] = "idle"
      /\ \A q \in Runners \ {r} : HeldOnce(q)' /\ Waiting(q)' = {} /\ job'[q] = NoInput
  BY <1>1, <1>2, <1>3, OthersIdle
<1>5. OneRunner'
  BY <1>4, NamesAssumption DEF LaneInv, OneRunner, Alive
<1>6. HeldOnce(r)'
  BY <1>1, <1>2, EmptyHolds, JobApart DEF LaneInv, HeldOnce, Waiting, AdmittingApart
<1>7. AdmittingApart'
  BY <1>1, <1>4, EmptyHolds, JobApart DEF LaneInv, HeldOnce, AdmittingApart, Waiting
<1> QED
  BY <1>2, <1>4, <1>5, <1>6, <1>7 DEF LaneInv

(* The input in hand is heard; nobody else waits with it. *)
LEMMA ClaimKeeps ==
  ASSUME LaneInv, NEW r \in Runners, Claim(r) PROVE LaneInv'
<1> USE DEF Claim, TypeOK, Places, TurnPlaces, lanes, turn, inputs, bounds, Goto, At
<1>1. pc[r] # "idle" /\ HeldOnce(r)
  BY DEF LaneInv
<1>2. TypeOK'
  BY <1>1, JobApart DEF LaneInv, HeldOnce
<1>3. Elsewhere(r)
  BY DEF LaneInv, Elsewhere
<1>4. /\ entry = r /\ \A q \in Runners \ {r} : pc[q] = "idle"
      /\ \A q \in Runners \ {r} : HeldOnce(q)' /\ Waiting(q)' = {} /\ job'[q] = NoInput
  BY <1>1, <1>2, <1>3, OthersIdle
<1>5. OneRunner'
  BY <1>4, NamesAssumption DEF LaneInv, OneRunner, Alive
<1>6. HeldOnce(r)'
  BY <1>1, <1>2, EmptyHolds, JobApart DEF LaneInv, HeldOnce, Waiting, AdmittingApart
<1>7. AdmittingApart'
  BY <1>1, <1>4, EmptyHolds, JobApart DEF LaneInv, HeldOnce, AdmittingApart, Waiting
<1> QED
  BY <1>2, <1>4, <1>5, <1>6, <1>7 DEF LaneInv

(* A failed claim gives back what was steered, in order. *)
LEMMA FailClaimKeeps ==
  ASSUME LaneInv, NEW r \in Runners, FailClaim(r) PROVE LaneInv'
<1> USE DEF FailClaim, CloseInputs, TypeOK, Places, TurnPlaces, lanes, turn, inputs, bounds, Goto, At
<1>1. pc[r] # "idle" /\ HeldOnce(r)
  BY DEF LaneInv
<1>2. TypeOK'
  BY <1>1, JobApart DEF LaneInv, HeldOnce
<1>3. Elsewhere(r)
  BY DEF LaneInv, Elsewhere
<1>4. /\ entry = r /\ \A q \in Runners \ {r} : pc[q] = "idle"
      /\ \A q \in Runners \ {r} : HeldOnce(q)' /\ Waiting(q)' = {} /\ job'[q] = NoInput
  BY <1>1, <1>2, <1>3, OthersIdle
<1>5. OneRunner'
  BY <1>4, NamesAssumption DEF LaneInv, OneRunner, Alive
<1>6. HeldOnce(r)'
  <2>1. /\ followups[r] = <<>> /\ followups'[r] = buffer[r] /\ buffer'[r] = <<>>
        /\ ~open'[r] /\ queue'[r] = queue[r] /\ job'[r] = job[r] /\ pc'[r] = "followup"
        /\ job[r] \in heard' \cup reported'
    BY <1>1 DEF LaneInv, HeldOnce
  <2>2. Waiting(r)' = Waiting(r)
    BY <2>1, EmptyHolds DEF Waiting
  <2> QED
    BY <1>1, <1>2, <2>1, <2>2, EmptyHolds, JobApart DEF LaneInv, HeldOnce
<1>7. AdmittingApart'
  BY <1>1, <1>4, EmptyHolds, JobApart DEF LaneInv, HeldOnce, AdmittingApart, Waiting
<1> QED
  BY <1>2, <1>4, <1>5, <1>6, <1>7 DEF LaneInv

(* What was steered is heard and leaves the queue. *)
LEMMA RoundKeeps ==
  ASSUME LaneInv, NEW r \in Runners, Round(r) PROVE LaneInv'
<1> USE DEF Round, TypeOK, Places, TurnPlaces, lanes, turn, inputs, bounds, Goto, At
<1>1. pc[r] # "idle" /\ HeldOnce(r)
  BY DEF LaneInv
<1>2. TypeOK'
  <2>1. heard' \subseteq accepted
    BY <1>1 DEF LaneInv, HeldOnce, Waiting
  <2> QED
    BY <2>1, <1>1 DEF LaneInv
<1>3. Elsewhere(r)
  BY DEF LaneInv, Elsewhere
<1>4. /\ entry = r /\ \A q \in Runners \ {r} : pc[q] = "idle"
      /\ \A q \in Runners \ {r} : HeldOnce(q)' /\ Waiting(q)' = {} /\ job'[q] = NoInput
  BY <1>1, <1>2, <1>3, OthersIdle
<1>5. OneRunner'
  BY <1>4, NamesAssumption DEF LaneInv, OneRunner, Alive
<1>6. HeldOnce(r)'
  BY <1>1, <1>2, EmptyHolds, JobApart DEF LaneInv, HeldOnce, Waiting, AdmittingApart
<1>7. AdmittingApart'
  BY <1>1, <1>4, EmptyHolds, JobApart DEF LaneInv, HeldOnce, AdmittingApart, Waiting
<1> QED
  BY <1>2, <1>4, <1>5, <1>6, <1>7 DEF LaneInv

(* The end of a turn gives back what was steered, in order. *)
LEMMA EndKeeps ==
  ASSUME LaneInv, NEW r \in Runners, End(r) PROVE LaneInv'
<1> USE DEF End, CloseInputs, TypeOK, Places, TurnPlaces, lanes, turn, inputs, bounds, Goto, At
<1>1. pc[r] # "idle" /\ HeldOnce(r)
  BY DEF LaneInv
<1>2. TypeOK'
  BY <1>1, JobApart DEF LaneInv, HeldOnce
<1>3. Elsewhere(r)
  BY DEF LaneInv, Elsewhere
<1>4. /\ entry = r /\ \A q \in Runners \ {r} : pc[q] = "idle"
      /\ \A q \in Runners \ {r} : HeldOnce(q)' /\ Waiting(q)' = {} /\ job'[q] = NoInput
  BY <1>1, <1>2, <1>3, OthersIdle
<1>5. OneRunner'
  BY <1>4, NamesAssumption DEF LaneInv, OneRunner, Alive
<1>6. HeldOnce(r)'
  <2>1. /\ followups[r] = <<>> /\ followups'[r] = buffer[r] /\ buffer'[r] = <<>>
        /\ ~open'[r] /\ queue'[r] = queue[r] /\ job'[r] = job[r] /\ pc'[r] = "followup"
        /\ job[r] \in heard' \cup reported'
    BY <1>1 DEF LaneInv, HeldOnce
  <2>2. Waiting(r)' = Waiting(r)
    BY <2>1, EmptyHolds DEF Waiting
  <2> QED
    BY <1>1, <1>2, <2>1, <2>2, EmptyHolds, JobApart DEF LaneInv, HeldOnce
<1>7. AdmittingApart'
  BY <1>1, <1>4, EmptyHolds, JobApart DEF LaneInv, HeldOnce, AdmittingApart, Waiting
<1> QED
  BY <1>2, <1>4, <1>5, <1>6, <1>7 DEF LaneInv

(* The effect of queueing an input that was steered into r's turn. *)
LEMMA FollowUpEffect ==
  ASSUME LaneInv, NEW r \in Runners, FollowUp(r)
  PROVE  /\ pc[r] = "followup" /\ followups[r] \in Seq(Inputs) /\ followups[r] # <<>>
         /\ Head(followups[r]) \in accepted \ heard
         /\ followups' = [followups EXCEPT ![r] = Tail(@)]
         /\ UNCHANGED <<closed, entry, pc, check, job, active, cancelled, buffer, open,
                        admitting, accepted, heard, outbox, bounds>>
         /\ \/ queue' = queue /\ closed /\ reported' = reported \cup {Head(followups[r])}
            \/ /\ queue' = [queue EXCEPT ![r] = Append(@, Head(followups[r]))]
               /\ reported' = reported
<1>1. entry = r /\ pc[r] = "followup" /\ followups[r] \in Seq(Inputs) /\ followups[r] # <<>>
  BY DEF LaneInv, OneRunner, Alive, FollowUp, At, TypeOK
<1>2. Head(followups[r]) \in accepted \ heard
  BY <1>1, TailHolds DEF LaneInv, HeldOnce, Waiting
<1> QED
  BY <1>1, <1>2, NamesAssumption DEF FollowUp, Enqueue, WithLane, lanes

(* An input given back moves from the follow-ups to the end of the queue. *)
LEMMA FollowUpKeeps ==
  ASSUME LaneInv, NEW r \in Runners, FollowUp(r) PROVE LaneInv'
<1> DEFINE i == Head(followups[r])
           rest == Tail(followups[r])
<1>e. /\ pc[r] = "followup" /\ followups[r] \in Seq(Inputs) /\ followups[r] # <<>>
      /\ i \in accepted \ heard
      /\ followups' = [followups EXCEPT ![r] = rest]
      /\ UNCHANGED <<closed, entry, pc, check, job, active, cancelled, buffer, open,
                     admitting, accepted, heard, outbox, bounds>>
      /\ \/ queue' = queue /\ closed /\ reported' = reported \cup {i}
         \/ queue' = [queue EXCEPT ![r] = Append(@, i)] /\ reported' = reported
  BY FollowUpEffect
<1>t. /\ i \in Inputs /\ rest \in Seq(Inputs)
      /\ Range(followups[r]) = Range(rest) \cup {i}
      /\ IsInjective(followups[r]) => i \notin Range(rest) /\ IsInjective(rest)
  BY <1>e, TailHolds
<1> HIDE DEF i, rest
<1>q. /\ queue[r] \in Seq(Inputs)
      /\ Append(queue[r], i) \in Seq(Inputs)
      /\ Range(Append(queue[r], i)) = Range(queue[r]) \cup {i}
      /\ IsInjective(queue[r]) /\ i \notin Range(queue[r]) => IsInjective(Append(queue[r], i))
  BY <1>t, AppendHolds DEF LaneInv, TypeOK
<1>1. pc[r] # "idle" /\ HeldOnce(r) /\ r \in DOMAIN queue /\ r \in DOMAIN followups
  BY <1>e DEF LaneInv, TypeOK
<1>2. TypeOK'
  BY <1>e, <1>t, <1>q DEF LaneInv, TypeOK, bounds
<1>3. Elsewhere(r)
  BY <1>e DEF LaneInv, TypeOK, Elsewhere
<1>4. /\ entry = r /\ \A q \in Runners \ {r} : pc[q] = "idle"
      /\ \A q \in Runners \ {r} : HeldOnce(q)' /\ Waiting(q)' = {} /\ job'[q] = NoInput
  BY <1>1, <1>2, <1>3, OthersIdle
<1>5. OneRunner'
  BY <1>e DEF LaneInv, OneRunner, Alive
<1>6. Waiting(r)' \subseteq Waiting(r)
  BY <1>e, <1>t, <1>q, <1>1 DEF Waiting, LaneInv, TypeOK
<1>7. HeldOnce(r)'
  <2>1. followups'[r] = rest
    BY <1>e, <1>1
  <2>2. queue'[r] = queue[r] \/ queue'[r] = Append(queue[r], i)
    BY <1>e, <1>1
  <2>3. i \notin Range(queue[r]) /\ i \notin Range(rest) /\ IsInjective(rest)
    BY <1>t, <1>1 DEF HeldOnce
  <2>4. /\ IsInjective(queue'[r])
        /\ Range(queue'[r]) \cap (Range(buffer[r]) \cup Range(rest)) = {}
    BY <2>2, <2>3, <1>q, <1>t, <1>e, <1>1, EmptyHolds DEF HeldOnce
  <2> QED
    BY <2>1, <2>3, <2>4, <1>e, <1>1, <1>6 DEF HeldOnce, TurnPlaces
<1>8. AdmittingApart'
  BY <1>e, <1>4, <1>6 DEF LaneInv, AdmittingApart
<1> QED
  BY <1>2, <1>4, <1>5, <1>7, <1>8 DEF LaneInv

(* A turn with nothing left to give back returns. *)
LEMMA FollowedUpKeeps ==
  ASSUME LaneInv, NEW r \in Runners, FollowedUp(r) PROVE LaneInv'
<1> USE DEF FollowedUp, TypeOK, Places, TurnPlaces, lanes, turn, inputs, bounds, Goto, At
<1>1. pc[r] # "idle" /\ HeldOnce(r)
  BY DEF LaneInv
<1>2. TypeOK'
  BY <1>1 DEF LaneInv, HeldOnce
<1>3. Elsewhere(r)
  BY DEF LaneInv, Elsewhere
<1>4. /\ entry = r /\ \A q \in Runners \ {r} : pc[q] = "idle"
      /\ \A q \in Runners \ {r} : HeldOnce(q)' /\ Waiting(q)' = {} /\ job'[q] = NoInput
  BY <1>1, <1>2, <1>3, OthersIdle
<1>5. OneRunner'
  BY <1>4, NamesAssumption DEF LaneInv, OneRunner, Alive
<1>6. HeldOnce(r)'
  BY <1>1, <1>2, EmptyHolds DEF LaneInv, HeldOnce, Waiting, AdmittingApart
<1>7. AdmittingApart'
  BY <1>1, <1>4, EmptyHolds DEF LaneInv, HeldOnce, AdmittingApart, Waiting
<1> QED
  BY <1>2, <1>4, <1>5, <1>6, <1>7 DEF LaneInv

(* A turn that returned leaves nothing in hand. *)
LEMMA SettleKeeps ==
  ASSUME LaneInv, NEW r \in Runners, Settle(r) PROVE LaneInv'
<1> USE DEF Settle, TypeOK, Places, TurnPlaces, lanes, turn, inputs, bounds, Goto, At
<1>1. pc[r] # "idle" /\ HeldOnce(r)
  BY DEF LaneInv
<1>2. TypeOK'
  BY <1>1, JobApart DEF LaneInv, HeldOnce
<1>3. Elsewhere(r)
  BY DEF LaneInv, Elsewhere
<1>4. /\ entry = r /\ \A q \in Runners \ {r} : pc[q] = "idle"
      /\ \A q \in Runners \ {r} : HeldOnce(q)' /\ Waiting(q)' = {} /\ job'[q] = NoInput
  BY <1>1, <1>2, <1>3, OthersIdle
<1>5. OneRunner'
  BY <1>4, NamesAssumption DEF LaneInv, OneRunner, Alive
<1>6. HeldOnce(r)'
  BY <1>1, <1>2, EmptyHolds, JobApart DEF LaneInv, HeldOnce, Waiting, AdmittingApart
<1>7. AdmittingApart'
  BY <1>1, <1>4, EmptyHolds, JobApart DEF LaneInv, HeldOnce, AdmittingApart, Waiting
<1> QED
  BY <1>2, <1>4, <1>5, <1>6, <1>7 DEF LaneInv

(* A delivery moves no input. *)
LEMMA DeliverKeeps ==
  ASSUME LaneInv, NEW r \in Runners, Deliver(r) PROVE LaneInv'
<1> USE DEF Deliver, TypeOK, Places, TurnPlaces, lanes, turn, inputs, bounds, Goto, At
<1>1. pc[r] # "idle" /\ HeldOnce(r)
  BY DEF LaneInv
<1>2. TypeOK'
  <2>1. failed' \in 0 .. MaxFailed
    BY BoundsAssumption DEF LaneInv
  <2>2. outbox' \in [Notices -> {"absent", "pending", "delivered"}]
    BY DEF LaneInv
  <2> QED
    BY <2>1, <2>2 DEF LaneInv
<1>3. Elsewhere(r)
  BY DEF LaneInv, Elsewhere
<1>4. /\ entry = r /\ \A q \in Runners \ {r} : pc[q] = "idle"
      /\ \A q \in Runners \ {r} : HeldOnce(q)' /\ Waiting(q)' = {} /\ job'[q] = NoInput
  BY <1>1, <1>2, <1>3, OthersIdle
<1>5. OneRunner'
  BY <1>4, NamesAssumption DEF LaneInv, OneRunner, Alive
<1>6. HeldOnce(r)'
  BY <1>1, <1>2, EmptyHolds DEF LaneInv, HeldOnce, Waiting, AdmittingApart
<1>7. AdmittingApart'
  BY <1>1, <1>4, EmptyHolds DEF LaneInv, HeldOnce, AdmittingApart, Waiting
<1> QED
  BY <1>2, <1>4, <1>5, <1>6, <1>7 DEF LaneInv

(* Looking again moves no input. *)
LEMMA CheckAgainKeeps ==
  ASSUME LaneInv, NEW r \in Runners, CheckAgain(r) PROVE LaneInv'
<1> USE DEF CheckAgain, TypeOK, Places, TurnPlaces, lanes, turn, inputs, bounds, Goto, At
<1>1. pc[r] # "idle" /\ HeldOnce(r)
  BY DEF LaneInv
<1>2. TypeOK'
  BY <1>1 DEF LaneInv, HeldOnce
<1>3. Elsewhere(r)
  BY DEF LaneInv, Elsewhere
<1>4. /\ entry = r /\ \A q \in Runners \ {r} : pc[q] = "idle"
      /\ \A q \in Runners \ {r} : HeldOnce(q)' /\ Waiting(q)' = {} /\ job'[q] = NoInput
  BY <1>1, <1>2, <1>3, OthersIdle
<1>5. OneRunner'
  BY <1>4, NamesAssumption DEF LaneInv, OneRunner, Alive
<1>6. HeldOnce(r)'
  BY <1>1, <1>2, EmptyHolds DEF LaneInv, HeldOnce, Waiting, AdmittingApart
<1>7. AdmittingApart'
  BY <1>1, <1>4, EmptyHolds DEF LaneInv, HeldOnce, AdmittingApart, Waiting
<1> QED
  BY <1>2, <1>4, <1>5, <1>6, <1>7 DEF LaneInv

-----------------------------------------------------------------------------
(* Everybody else. *)

(* Finding or starting the lane leaves exactly one runner, which holds       *)
(* nothing when it is new.                                                 *)
LEMMA LaneFound ==
  ASSUME LaneInv, NEW r \in Runners, WithLane(r)
  PROVE  /\ entry' = r /\ pc' \in [Runners -> Places] /\ OneRunner'
         /\ \A q \in Runners : pc'[q] = pc[q] \/ (pc[q] = "idle" /\ pc'[q] = "select")
<1> USE DEF LaneInv, TypeOK, Places, TurnPlaces
<1>1. CASE entry # NoRunner
  BY <1>1 DEF WithLane, OneRunner, Alive
<1>2. CASE entry = NoRunner
  <2>1. entry' = r /\ pc' = [pc EXCEPT ![r] = "select"] /\ \A q \in Runners : pc[q] = "idle"
    BY <1>2 DEF WithLane, OneRunner, Alive
  <2> QED
    BY <2>1, NamesAssumption DEF OneRunner, Alive
<1> QED
  BY <1>1, <1>2

(* Queueing an input that nobody holds and no turn has heard.  It may be     *)
(* accepted in the same step.                                              *)
LEMMA EnqueueKeeps ==
  ASSUME LaneInv, NEW i \in Inputs, Enqueue(i), UNCHANGED turn, heard' = heard,
         accepted' = accepted \cup {i}, i \notin heard,
         \A r \in Runners : i # job[r] /\ i \notin Waiting(r)
  PROVE  /\ entry' \in Runners \cup {NoRunner} /\ pc' \in [Runners -> Places]
         /\ queue' \in [Runners -> Seq(Inputs)] /\ check' = check
         /\ reported' \subseteq reported \cup {i}
         /\ OneRunner' /\ \A q \in Runners : HeldOnce(q)'
         /\ \A q \in Runners : Waiting(q)' \subseteq Waiting(q) \cup {i}
<1> USE DEF turn
<1>1. CASE closed /\ reported' = reported \cup {i} /\ UNCHANGED lanes
  <2>1. \A q \in Runners : Waiting(q)' = Waiting(q)
    BY <1>1 DEF lanes, Waiting
  <2> QED
    BY <1>1, <2>1 DEF lanes, LaneInv, TypeOK, OneRunner, Alive, HeldOnce
<1>2. ASSUME NEW r \in Runners, WithLane(r), queue' = [queue EXCEPT ![r] = Append(@, i)],
             UNCHANGED <<check, reported>>
      PROVE  /\ entry' \in Runners \cup {NoRunner} /\ pc' \in [Runners -> Places]
             /\ queue' \in [Runners -> Seq(Inputs)] /\ check' = check
             /\ reported' \subseteq reported \cup {i}
             /\ OneRunner' /\ \A q \in Runners : HeldOnce(q)'
             /\ \A q \in Runners : Waiting(q)' \subseteq Waiting(q) \cup {i}
  <2>1. /\ entry' = r /\ pc' \in [Runners -> Places] /\ OneRunner'
        /\ \A q \in Runners : pc'[q] = pc[q] \/ (pc[q] = "idle" /\ pc'[q] = "select")
    BY <1>2, LaneFound
  <2>2. /\ Append(queue[r], i) \in Seq(Inputs)
        /\ Range(Append(queue[r], i)) = Range(queue[r]) \cup {i}
        /\ IsInjective(queue[r]) /\ i \notin Range(queue[r])
             => IsInjective(Append(queue[r], i))
    BY AppendHolds DEF LaneInv, TypeOK
  <2> DEFINE longer == Append(queue[r], i)
  <2>3. queue' \in [Runners -> Seq(Inputs)]
    BY <1>2, <2>2 DEF LaneInv, TypeOK
  <2> HIDE DEF longer
  <2>4. /\ queue'[r] = longer /\ \A q \in Runners \ {r} : queue'[q] = queue[q]
        /\ \A q \in Runners : Range(queue'[q]) \subseteq Range(queue[q]) \cup {i}
    BY <1>2, <2>2 DEF LaneInv, TypeOK, longer
  <2>5. \A q \in Runners : Waiting(q)' \subseteq Waiting(q) \cup {i}
    BY <2>4 DEF Waiting
  <2>6. ASSUME NEW q \in Runners PROVE HeldOnce(q)'
    <3>1. HeldOnce(q) /\ i # job[q] /\ i \notin Waiting(q)
      BY DEF LaneInv
    <3>2. IsInjective(queue'[q])
      BY <2>2, <2>4, <3>1 DEF HeldOnce, Waiting, longer
    <3>3. Range(queue'[q]) \cap (Range(buffer'[q]) \cup Range(followups'[q])) = {}
      BY <2>4, <3>1 DEF HeldOnce, Waiting
    <3>4. pc'[q] = "idle" => queue'[q] = <<>>
      <4>1. pc'[r] # "idle"
        BY <2>1, NamesAssumption DEF OneRunner, Alive
      <4> QED
        BY <2>1, <2>4, <3>1, <4>1 DEF HeldOnce
    <3>5. Waiting(q)' \subseteq accepted' \ heard'
      BY <2>5, <3>1 DEF HeldOnce
    <3>6. job'[q] # NoInput => job'[q] \in accepted' \ Waiting(q)'
      BY <2>5, <3>1 DEF HeldOnce
    <3>7. /\ active'[q] <=> pc'[q] \in TurnPlaces
          /\ pc'[q] \notin TurnPlaces \/ pc'[q] = "followup" => buffer'[q] = <<>> /\ ~open'[q]
          /\ pc'[q] # "followup" => followups'[q] = <<>>
      BY <2>1, <3>1 DEF HeldOnce, TurnPlaces
    <3>8. /\ pc'[q] \in {"execute", "turn"} => job'[q] \notin heard'
          /\ pc'[q] \in {"round", "followup", "settle"} => job'[q] \in heard' \cup reported'
      BY <1>2, <2>1, <3>1 DEF HeldOnce
    <3> QED
      BY <3>1, <3>2, <3>3, <3>4, <3>5, <3>6, <3>7, <3>8 DEF HeldOnce
  <2> QED
    BY <1>2, <2>1, <2>3, <2>5, <2>6
<1> QED
  BY <1>1, <1>2 DEF Enqueue

(* A timer's input is nobody's until its turn is queued. *)
LEMMA RemindKeeps ==
  ASSUME LaneInv, NEW i \in Inputs, Remind(i) PROVE LaneInv'
<1>1. /\ i \notin accepted /\ accepted' = accepted \cup {i} /\ Enqueue(i)
      /\ UNCHANGED <<closed, turn, admitting, heard, outbox, bounds>>
  BY DEF Remind
<1>2. /\ i \notin heard /\ \A r \in Runners : i # job[r] /\ i \notin Waiting(r)
  BY <1>1, NamesAssumption DEF LaneInv, TypeOK, HeldOnce
<1>3. /\ entry' \in Runners \cup {NoRunner} /\ pc' \in [Runners -> Places]
      /\ queue' \in [Runners -> Seq(Inputs)] /\ check' = check
      /\ reported' \subseteq reported \cup {i}
      /\ OneRunner' /\ \A q \in Runners : HeldOnce(q)'
      /\ \A q \in Runners : Waiting(q)' \subseteq Waiting(q) \cup {i}
  BY <1>1, <1>2, EnqueueKeeps
<1>4. TypeOK'
  BY <1>1, <1>3 DEF LaneInv, TypeOK, turn, bounds
<1>5. AdmittingApart'
  BY <1>1, <1>3 DEF LaneInv, AdmittingApart, turn
<1> QED
  BY <1>3, <1>4, <1>5 DEF LaneInv

(* A refused admission ends with a turn of its own. *)
LEMMA QueueKeeps ==
  ASSUME LaneInv, Queue PROVE LaneInv'
<1>1. /\ admitting # NoInput /\ admitting' = NoInput /\ Enqueue(admitting)
      /\ UNCHANGED <<closed, turn, accepted, heard, outbox, bounds>>
  BY DEF Queue
<1>2. /\ admitting \in Inputs /\ admitting \notin heard /\ accepted' = accepted \cup {admitting}
      /\ \A r \in Runners : admitting # job[r] /\ admitting \notin Waiting(r)
  BY <1>1 DEF LaneInv, TypeOK, AdmittingApart
<1>3. /\ entry' \in Runners \cup {NoRunner} /\ pc' \in [Runners -> Places]
      /\ queue' \in [Runners -> Seq(Inputs)] /\ check' = check
      /\ reported' \subseteq reported \cup {admitting}
      /\ OneRunner' /\ \A q \in Runners : HeldOnce(q)'
  BY <1>1, <1>2, EnqueueKeeps
<1>4. TypeOK'
  BY <1>1, <1>2, <1>3 DEF LaneInv, TypeOK, turn, bounds
<1>5. AdmittingApart'
  BY <1>1 DEF AdmittingApart
<1> QED
  BY <1>3, <1>4, <1>5 DEF LaneInv

(* An input pushed into the turn is in its queue only; one that is refused   *)
(* is nobody's until its admission queues it.                              *)
LEMMA AdmitKeeps ==
  ASSUME LaneInv, NEW i \in Inputs, Admit(i) PROVE LaneInv'
<1>1. /\ admitting = NoInput /\ i \notin accepted /\ accepted' = accepted \cup {i}
      /\ UNCHANGED <<closed, lanes, job, active, cancelled, open, followups, heard, reported,
                     outbox, bounds>>
  BY DEF Admit
<1> USE DEF lanes, bounds
<1>2. /\ i \notin heard /\ \A r \in Runners : i # job[r] /\ i \notin Waiting(r)
  BY <1>1, NamesAssumption DEF LaneInv, TypeOK, HeldOnce
<1>3. OneRunner'
  BY <1>1 DEF LaneInv, OneRunner, Alive
<1>4. CASE Steerable /\ buffer' = [buffer EXCEPT ![entry] = Append(@, i)] /\ admitting' = admitting
  <2>1. entry \in Runners /\ open[entry] /\ buffer[entry] \in Seq(Inputs)
    BY <1>4 DEF Steerable, LaneInv, TypeOK
  <2>2. /\ Append(buffer[entry], i) \in Seq(Inputs)
        /\ Range(Append(buffer[entry], i)) = Range(buffer[entry]) \cup {i}
        /\ IsInjective(buffer[entry]) /\ i \notin Range(buffer[entry])
             => IsInjective(Append(buffer[entry], i))
    BY <2>1, AppendHolds
  <2> DEFINE longer == Append(buffer[entry], i)
  <2>3. TypeOK'
    BY <1>1, <1>4, <2>1, <2>2 DEF LaneInv, TypeOK
  <2> HIDE DEF longer
  <2>4. /\ buffer'[entry] = longer
        /\ \A q \in Runners : q # entry => buffer'[q] = buffer[q]
        /\ \A q \in Runners : Range(buffer'[q]) \subseteq Range(buffer[q]) \cup {i}
    BY <1>4, <2>1, <2>2 DEF LaneInv, TypeOK, longer
  <2>5. \A q \in Runners : Waiting(q)' \subseteq Waiting(q) \cup {i}
    BY <1>1, <2>4 DEF Waiting
  <2>6. ASSUME NEW q \in Runners PROVE HeldOnce(q)'
    <3>1. HeldOnce(q) /\ i # job[q] /\ i \notin Waiting(q)
      BY <1>2 DEF LaneInv
    <3>2. IsInjective(buffer'[q])
      BY <2>2, <2>4, <3>1 DEF HeldOnce, Waiting, longer
    <3>3. Range(queue'[q]) \cap (Range(buffer'[q]) \cup Range(followups'[q])) = {}
      BY <1>1, <2>4, <3>1 DEF HeldOnce, Waiting
    <3>4. Waiting(q)' \subseteq accepted' \ heard'
      BY <1>1, <1>2, <2>5, <3>1 DEF HeldOnce
    <3>5. job'[q] # NoInput => job'[q] \in accepted' \ Waiting(q)'
      BY <1>1, <2>5, <3>1 DEF HeldOnce
    <3>6. pc'[q] \notin TurnPlaces \/ pc'[q] = "followup" => buffer'[q] = <<>> /\ ~open'[q]
      BY <1>1, <2>1, <2>4, <3>1 DEF HeldOnce
    <3> QED
      BY <1>1, <3>1, <3>2, <3>3, <3>4, <3>5, <3>6 DEF HeldOnce
  <2>7. AdmittingApart'
    BY <1>1, <1>4 DEF AdmittingApart
  <2> QED
    BY <1>3, <2>3, <2>6, <2>7 DEF LaneInv
<1>5. CASE admitting' = i /\ buffer' = buffer
  <2>1. \A q \in Runners : Waiting(q)' = Waiting(q)
    BY <1>1, <1>5 DEF Waiting
  <2>2. TypeOK'
    BY <1>1, <1>5 DEF LaneInv, TypeOK
  <2>3. \A q \in Runners : HeldOnce(q)'
    BY <1>1, <1>5, <2>1 DEF LaneInv, HeldOnce
  <2>4. AdmittingApart'
    BY <1>1, <1>2, <1>5, <2>1 DEF AdmittingApart
  <2> QED
    BY <1>3, <2>2, <2>3, <2>4 DEF LaneInv
<1> QED
  BY <1>4, <1>5 DEF Admit

(* A notice at most starts a lane. *)
LEMMA NoticeKeeps ==
  ASSUME LaneInv, NEW n \in Notices, Notice(n) PROVE LaneInv'
<1>1. PICK r \in Runners : WithLane(r) /\ check' = [check EXCEPT ![r] = TRUE]
  BY DEF Notice, Wake
<1>2. /\ outbox' = [outbox EXCEPT ![n] = "pending"]
      /\ UNCHANGED <<closed, queue, turn, inputs, bounds>>
  BY DEF Notice
<1>3. /\ entry' = r /\ pc' \in [Runners -> Places] /\ OneRunner'
      /\ \A q \in Runners : pc'[q] = pc[q] \/ (pc[q] = "idle" /\ pc'[q] = "select")
  BY <1>1, LaneFound
<1> USE DEF turn, inputs, bounds
<1>4. TypeOK'
  BY <1>1, <1>2, <1>3 DEF LaneInv, TypeOK
<1>5. \A q \in Runners : Waiting(q)' = Waiting(q)
  BY <1>2 DEF Waiting
<1>6. \A q \in Runners : HeldOnce(q)'
  BY <1>2, <1>3, <1>5 DEF LaneInv, HeldOnce, TurnPlaces
<1>7. AdmittingApart'
  BY <1>2, <1>5 DEF LaneInv, AdmittingApart
<1> QED
  BY <1>3, <1>4, <1>6, <1>7 DEF LaneInv

(* Stopping and closing move no input. *)
LEMMA StopKeeps ==
  ASSUME LaneInv, Stop \/ Close PROVE LaneInv'
<1>1. UNCHANGED <<lanes, job, active, buffer, open, followups, inputs, outbox>>
  BY DEF Stop, Close, turn
<1> USE DEF lanes, inputs
<1>2. \A q \in Runners : Waiting(q)' = Waiting(q)
  BY <1>1 DEF Waiting
<1>3. closed' \in BOOLEAN /\ cancelled' \in [Runners -> BOOLEAN]
  BY DEF LaneInv, TypeOK, Stop, Close, turn
<1>7. stops' \in 0 .. MaxStops /\ UNCHANGED <<early, failed, crashes>>
  BY BoundsAssumption DEF LaneInv, TypeOK, Stop, Close, bounds
<1>4. TypeOK'
  BY <1>1, <1>3, <1>7 DEF LaneInv, TypeOK
<1>5. OneRunner' /\ \A q \in Runners : HeldOnce(q)'
  BY <1>1, <1>2 DEF LaneInv, OneRunner, Alive, HeldOnce
<1>6. AdmittingApart'
  BY <1>1, <1>2 DEF LaneInv, AdmittingApart
<1> QED
  BY <1>4, <1>5, <1>6 DEF LaneInv

(* After a restart a lane may run for the notices, and no runner holds an    *)
(* input.                                                                  *)
LEMMA RestartKeeps ==
  ASSUME LaneInv, Restart PROVE LaneInv'
<1> USE NamesAssumption DEF Restart, TurnPlaces, Places
<1>1. TypeOK'
  <2>1. /\ entry' \in Runners \cup {NoRunner} /\ pc' \in [Runners -> Places]
        /\ check' \in [Runners -> BOOLEAN]
    OBVIOUS
  <2>2. /\ queue' \in [Runners -> Seq(Inputs)] /\ buffer' \in [Runners -> Seq(Inputs)]
        /\ followups' \in [Runners -> Seq(Inputs)]
    OBVIOUS
  <2>3. active' = [r \in Runners |-> job'[r] # NoInput]
    OBVIOUS
  <2>4. crashes' \in 0 .. MaxCrashes /\ UNCHANGED <<stops, early, failed>>
    BY BoundsAssumption DEF LaneInv, TypeOK
  <2> QED
    BY <2>1, <2>2, <2>3, <2>4 DEF LaneInv, TypeOK
<1>2. OneRunner'
  BY DEF OneRunner, Alive
<1>3. ASSUME NEW q \in Runners PROVE HeldOnce(q)'
  <2>1. pc'[q] \in {"idle", "select"}
    OBVIOUS
  <2>2. /\ queue'[q] = <<>> /\ buffer'[q] = <<>> /\ followups'[q] = <<>> /\ ~open'[q]
        /\ job'[q] = NoInput /\ ~active'[q]
    OBVIOUS
  <2> QED
    BY <2>1, <2>2, EmptyHolds DEF HeldOnce, Waiting
<1>4. AdmittingApart'
  BY DEF AdmittingApart
<1> QED
  BY <1>1, <1>2, <1>3, <1>4 DEF LaneInv

-----------------------------------------------------------------------------
(* The invariant. *)

(* A lane nobody has used holds nothing. *)
LEMMA InitHolds == Init => LaneInv
<1> SUFFICES ASSUME Init PROVE LaneInv
  OBVIOUS
<1> USE NamesAssumption DEF Init, Quiet, TurnPlaces, Places
<1>1. TypeOK
  <2>1. active = [r \in Runners |-> job[r] # NoInput]
    OBVIOUS
  <2>2. /\ queue \in [Runners -> Seq(Inputs)] /\ buffer \in [Runners -> Seq(Inputs)]
        /\ followups \in [Runners -> Seq(Inputs)]
    OBVIOUS
  <2>3. /\ stops \in 0 .. MaxStops /\ early \in 0 .. MaxEarly
        /\ failed \in 0 .. MaxFailed /\ crashes \in 0 .. MaxCrashes
    BY BoundsAssumption
  <2> QED
    BY <2>1, <2>2, <2>3 DEF TypeOK
<1>2. \A r \in Runners : HeldOnce(r)
  BY EmptyHolds DEF HeldOnce, Waiting
<1> QED
  BY <1>1, <1>2 DEF LaneInv, OneRunner, Alive, AdmittingApart

(* Every step of the goroutine keeps the invariant. *)
LEMMA StepKeeps ==
  ASSUME LaneInv, NEW r \in Runners, Step(r) PROVE LaneInv'
BY TakeKeeps, CheckNoticesKeeps, RetireKeeps, ExecuteKeeps, PublishKeeps, FailEarlyKeeps,
   ClaimKeeps, FailClaimKeeps, RoundKeeps, EndKeeps, FollowUpKeeps, FollowedUpKeeps,
   SettleKeeps, DeliverKeeps, CheckAgainKeeps DEF Step

(* A stuttering step keeps it. *)
LEMMA StutterKeeps ==
  ASSUME LaneInv, UNCHANGED vars PROVE LaneInv'
<1> USE DEF vars, lanes, turn, inputs, bounds
<1>1. \A q \in Runners : Waiting(q)' = Waiting(q)
  BY DEF Waiting
<1>2. TypeOK'
  BY DEF LaneInv, TypeOK
<1> QED
  BY <1>1, <1>2 DEF LaneInv, OneRunner, Alive, AdmittingApart, HeldOnce

(* The invariant is inductive. *)
LEMMA NextKeeps ==
  LaneInv /\ [Next]_vars => LaneInv'
BY AdmitKeeps, RemindKeeps, QueueKeeps, StepKeeps, NoticeKeeps, StopKeeps, RestartKeeps,
   StutterKeeps DEF Next

(* LaneInv: one goroutine, and every input in one place at a time, however   *)
(* turns, admissions, notices, stops and restarts interleave.              *)
THEOREM Lanes == Spec => []LaneInv
BY InitHolds, NextKeeps, PTL DEF Spec

(* TypeOK: every variable keeps its range. *)
THEOREM LaneTypes == Spec => []TypeOK
<1>1. LaneInv => TypeOK
  BY DEF LaneInv
<1> QED
  BY <1>1, Lanes, PTL

(* OneRunner: lane.go never runs two goroutines for one conversation. *)
THEOREM SingleRunner == Spec => []OneRunner
<1>1. LaneInv => OneRunner
  BY DEF LaneInv
<1> QED
  BY <1>1, Lanes, PTL

(* HeardOnce: an input that a turn has been given waits for no other turn. *)
THEOREM Once == Spec => []HeardOnce
<1>1. LaneInv => HeardOnce
  BY DEF LaneInv, HeardOnce, HeldOnce
<1> QED
  BY <1>1, Lanes, PTL

(* Notices are delivered by the goroutine of the lane itself, which then     *)
(* has no turn in hand.                                                    *)
LEMMA DeliveryBetween ==
  ASSUME LaneInv, Next, NEW n \in Notices, outbox'[n] = "delivered", outbox[n] # "delivered",
         NEW q \in Runners
  PROVE  ~active[q]
<1>1. PICK r \in Runners : Deliver(r)
  <2>1. ASSUME NEW m \in Notices, Notice(m) PROVE FALSE
    BY <2>1 DEF Notice, LaneInv, TypeOK
  <2>2. ~(UNCHANGED outbox)
    OBVIOUS
  <2> QED
    BY <2>1, <2>2 DEF Next, Step, Admit, Remind, Queue, Stop, Close, Restart, Take,
         CheckNotices, Retire, Execute, Publish, FailEarly, Claim, FailClaim, Round, End,
         FollowUp, FollowedUp, Settle, CheckAgain
<1>2. pc[r] = "deliver"
  BY <1>1 DEF Deliver, At
<1>3. pc[q] \notin TurnPlaces
  BY <1>2 DEF LaneInv, OneRunner, Alive, TurnPlaces
<1> QED
  BY <1>3 DEF LaneInv, HeldOnce

(* NoticesBetweenTurns: no notice is appended while a turn is active. *)
THEOREM Between == Spec => NoticesBetweenTurns
<1>1. LaneInv /\ [Next]_vars =>
        [(\E n \in Notices : outbox'[n] = "delivered" /\ outbox[n] # "delivered")
          => \A r \in Runners : ~active[r]]_vars
  BY DeliveryBetween
<1> QED
  BY <1>1, Lanes, PTL DEF Spec, NoticesBetweenTurns

-----------------------------------------------------------------------------
(* Notices that somebody looks for. *)

(* Finding or starting a lane forgets no look.                             *)
LEMMA LookKept ==
  ASSUME LaneInv, LookedFor, UNCHANGED <<closed, outbox>>,
         \/ UNCHANGED lanes
         \/ /\ \E r \in Runners : WithLane(r)
            /\ UNCHANGED check
  PROVE  LookedFor'
BY DEF LookedFor, Pending, lanes, WithLane, LaneInv, TypeOK

(* A step of the goroutine forgets no look, but for a failed delivery.     *)
LEMMA StepLooks ==
  ASSUME LaneInv, LookedFor, NEW r \in Runners, Step(r)
  PROVE  LookedFor' \/ failed' = failed + 1
<1> USE DEF LookedFor, Pending, Goto, At
<1>0. /\ TypeOK
      /\ pc[r] # "idle" => entry = r /\ r # NoRunner
  BY NamesAssumption DEF LaneInv, OneRunner, Alive
<1>1. CASE Take(r) \/ Execute(r) \/ Publish(r) \/ FailEarly(r) \/ Claim(r) \/ FailClaim(r)
           \/ End(r) \/ FollowedUp(r) \/ Settle(r)
  <2>1. /\ pc[r] \in TurnPlaces \cup {"select"} /\ pc' = [pc EXCEPT ![r] = pc'[r]]
        /\ UNCHANGED <<closed, entry, check, outbox>>
    BY <1>0, <1>1 DEF Take, Execute, Publish, FailEarly, Claim, FailClaim, End, FollowedUp,
       Settle, TypeOK, TurnPlaces
  <2> QED
    BY <1>0, <2>1 DEF TurnPlaces, TypeOK
<1>2. CASE CheckNotices(r)
  BY <1>0, <1>2 DEF CheckNotices, TypeOK
<1>3. CASE Retire(r)
  BY <1>0, <1>3 DEF Retire, TypeOK
<1>4. CASE Round(r)
  BY <1>4, LookKept DEF Round
<1>5. CASE FollowUp(r)
  BY <1>5, LookKept DEF FollowUp, Enqueue
<1>6. CASE Deliver(r)
  BY <1>0, <1>6 DEF Deliver, TypeOK
<1>7. CASE CheckAgain(r)
  BY <1>0, <1>7 DEF CheckAgain, TypeOK
<1> QED
  BY <1>1, <1>2, <1>3, <1>4, <1>5, <1>6, <1>7 DEF Step

(* Nor does anything else.                                                 *)
LEMMA NextLooks ==
  ASSUME LaneInv, LookedFor, Next
  PROVE  LookedFor' \/ failed' = failed + 1
<1>1. CASE \E i \in Inputs : Admit(i)
  BY <1>1, LookKept DEF Admit
<1>2. CASE Queue \/ \E i \in Inputs : Remind(i)
  BY <1>2, LookKept DEF Queue, Remind, Enqueue
<1>3. ASSUME NEW n \in Notices, Notice(n) PROVE LookedFor'
  <2>1. PICK r \in Runners : WithLane(r) /\ check' = [check EXCEPT ![r] = TRUE]
    BY <1>3 DEF Notice, Wake
  <2>2. entry' = r
    BY <2>1, LaneFound
  <2> QED
    BY <2>1, <2>2, NamesAssumption DEF LookedFor, LaneInv, TypeOK
<1>4. CASE Stop
  BY <1>4, LookKept DEF Stop
<1>5. CASE Close
  BY <1>5 DEF Close, LookedFor
<1>6. CASE Restart
  BY <1>6, NamesAssumption DEF Restart, LookedFor, Pending
<1> QED
  BY <1>1, <1>2, <1>3, <1>4, <1>5, <1>6, StepLooks DEF Next

(* NoticesLookedFor: no pending notice is left without a goroutine that is   *)
(* going to look for it, except by a delivery that fails.                  *)
THEOREM Looks == Spec => NoticesLookedFor
<1>1. Init => LookedFor
  BY DEF Init, LookedFor, Pending
<1>2. LaneInv /\ [Next]_vars => [LookedFor => LookedFor' \/ failed' = failed + 1]_vars
  BY NextLooks
<1> QED
  BY <1>1, <1>2, Lanes, PTL DEF Spec, NoticesLookedFor

-----------------------------------------------------------------------------
(* The hand-over at the end of a turn. *)

(* Where an accepted input can be accounted for. *)
Placed(i) ==
    \/ i \in heard \cup reported
    \/ admitting # NoInput /\ i = admitting
    \/ \E r \in Runners : i \in Waiting(r) \/ (job[r] # NoInput /\ i = job[r])

(* Accounting for the inputs is finding a place for each. *)
LEMMA AccountedPlaces ==
  InputsAccounted <=> (closed \/ \A i \in accepted : Placed(i))
BY DEF InputsAccounted, Placed, InHand

LEMMA OnWayPlaces ==
  ASSUME NEW i, OnItsWay(i) PROVE Placed(i)
BY DEF OnItsWay, Placed, InHand

(* A turn that returns with its queue open, or with something in it, failed  *)
(* before it took its own input.                                           *)
LeftOver(r) ==
    pc[r] = "settle" /\ (open[r] \/ buffer[r] # <<>>) => job[r] \in reported \ heard
LeftOverInv == \A r \in Runners : LeftOver(r)

LEMMA StepLeaves ==
  ASSUME LaneInv, NEW r \in Runners, Step(r), LeftOverInv, NEW q \in Runners
  PROVE  LeftOver(q)'
<1> USE DEF LaneInv, TypeOK, lanes, turn, inputs, bounds, Goto, At
<1>1. CASE Execute(r)
  <2>1. CASE pc'[q] = "settle" /\ q = r
    BY <1>1, <2>1, JobApart DEF Execute, HeldOnce, LeftOver, TurnPlaces
  <2>2. CASE pc'[q] = "settle" /\ q # r
    BY <1>1, <2>2 DEF Execute, LeftOver, LeftOverInv
  <2> QED
    BY <2>1, <2>2 DEF LeftOver
<1>2. CASE FailEarly(r)
  <2>1. CASE pc'[q] = "settle" /\ q = r
    BY <1>2, <2>1, JobApart DEF FailEarly, HeldOnce, LeftOver, TurnPlaces
  <2>2. CASE pc'[q] = "settle" /\ q # r
    BY <1>2, <2>2 DEF FailEarly, LeftOver, LeftOverInv
  <2> QED
    BY <2>1, <2>2 DEF LeftOver
<1>3. CASE FollowedUp(r)
  BY <1>3 DEF FollowedUp, HeldOnce, LeftOver, LeftOverInv
<1>4. CASE FollowUp(r)
  <2>1. /\ UNCHANGED <<pc, open, buffer, job, heard>> /\ reported \subseteq reported'
    BY <1>4, FollowUpEffect
  <2> QED
    BY <2>1 DEF LeftOver, LeftOverInv
<1>5. CASE Publish(r) \/ Claim(r) \/ Round(r)
  <2>1. q # r => pc[q] = "idle"
    BY <1>5 DEF Publish, Claim, Round, OneRunner, Alive
  <2> QED
    BY <1>5, <2>1 DEF Publish, Claim, Round, LeftOver
<1>6. CASE Take(r) \/ CheckNotices(r) \/ Retire(r) \/ FailClaim(r) \/ End(r) \/ Settle(r)
           \/ Deliver(r) \/ CheckAgain(r)
  BY <1>6 DEF Take, CheckNotices, Retire, FailClaim, End, Settle, Deliver, CheckAgain,
     CloseInputs, LeftOver, LeftOverInv
<1> QED
  BY <1>1, <1>2, <1>3, <1>4, <1>5, <1>6 DEF Step

LEMMA NextLeaves ==
  ASSUME LaneInv, LeftOverInv, [Next]_vars PROVE LeftOverInv'
<1> SUFFICES ASSUME NEW q \in Runners PROVE LeftOver(q)'
  BY DEF LeftOverInv
<1> USE DEF LaneInv, TypeOK, lanes, turn, inputs, bounds
<1>1. CASE UNCHANGED vars \/ Stop \/ Close \/ Restart
  BY <1>1 DEF vars, Stop, Close, Restart, LeftOver, LeftOverInv
<1>2. ASSUME NEW i \in Inputs, Admit(i) PROVE LeftOver(q)'
  BY <1>2 DEF Admit, Steerable, LeftOver, LeftOverInv
<1>3. CASE Queue \/ \E i \in Inputs : Remind(i)
  <2>1. /\ UNCHANGED <<open, buffer, job, heard>> /\ reported \subseteq reported'
        /\ pc'[q] = "settle" => pc[q] = "settle"
    BY <1>3 DEF Queue, Remind, Enqueue, WithLane
  <2> QED
    BY <2>1 DEF LeftOver, LeftOverInv
<1>4. CASE \E n \in Notices : Notice(n)
  <2>1. /\ UNCHANGED <<open, buffer, job, heard, reported>>
        /\ pc'[q] = "settle" => pc[q] = "settle"
    BY <1>4 DEF Notice, Wake, WithLane
  <2> QED
    BY <2>1 DEF LeftOver, LeftOverInv
<1>5. CASE \E r \in Runners : Step(r)
  BY <1>5, StepLeaves
<1> QED
  BY <1>1, <1>2, <1>3, <1>4, <1>5 DEF Next

(* The lane's goroutine loses an input only when it forgets a queue. *)
Forgotten(i) == \E r \in Runners : Forgets(r) /\ i \in Range(buffer[r])

LEMMA StepPlaces ==
  ASSUME LaneInv, LeftOverInv, NEW r \in Runners, Step(r), NEW i \in accepted, Placed(i)
  PROVE  Placed(i)' \/ Forgotten(i)
<1> DEFINE Kept == /\ Waiting(r) \subseteq Waiting(r)' \cup heard' \cup reported'
                   /\ job[r] # NoInput => job[r] \in Waiting(r)' \cup heard' \cup reported'
                                          \/ job'[r] = job[r]
                   /\ heard \subseteq heard' /\ reported \subseteq reported'
                   /\ admitting' = admitting
<1>1. pc[r] # "idle"
  BY DEF Step, Take, CheckNotices, Retire, Execute, Publish, FailEarly, Claim, FailClaim,
         Round, End, FollowUp, FollowedUp, Settle, Deliver, CheckAgain, At
<1>2. \A q \in Runners \ {r} : Waiting(q) = {} /\ job[q] = NoInput
  BY <1>1, IdleHoldsNothing DEF LaneInv, OneRunner, Alive
<1>3. ASSUME Kept PROVE Placed(i)'
  BY <1>2, <1>3 DEF Placed
<1> HIDE DEF Kept
<1> USE DEF LaneInv, TypeOK, lanes, turn, inputs, bounds, Goto, At
<1>4. CASE Take(r) \/ CheckNotices(r) \/ Retire(r) \/ Execute(r) \/ FollowedUp(r)
           \/ Deliver(r) \/ CheckAgain(r)
  <2>1. CASE Take(r)
    <3>1. /\ Range(queue[r]) = Range(queue'[r]) \cup {job'[r]} /\ job'[r] \in Inputs
          /\ UNCHANGED <<buffer, followups, heard, reported, admitting>>
      BY <2>1, TailHolds DEF Take
    <3>2. job'[r] # NoInput
      BY <3>1, NamesAssumption
    <3>3. i \in Waiting(r) => Placed(i)'
      BY <3>1, <3>2 DEF Waiting, Placed
    <3>4. job[r] = NoInput
      BY <2>1 DEF Take, HeldOnce, TurnPlaces
    <3> QED
      BY <1>2, <3>1, <3>3, <3>4 DEF Placed
  <2>2. CASE ~Take(r)
    <3>1. /\ UNCHANGED <<queue, buffer, followups, job, heard, admitting>>
          /\ reported \subseteq reported'
      BY <1>4, <2>2 DEF CheckNotices, Retire, Execute, FollowedUp, Deliver, CheckAgain
    <3> QED
      BY <1>3, <3>1 DEF Waiting, Kept
  <2> QED
    BY <2>1, <2>2
<1>5. CASE FailEarly(r)
  BY <1>3, <1>5 DEF FailEarly, Waiting, Kept
<1>6. CASE Claim(r)
  BY <1>3, <1>6 DEF Claim, Waiting, Kept
<1>7. CASE FailClaim(r) \/ End(r)
  <2>1. /\ followups'[r] = buffer[r] /\ followups[r] = <<>> /\ queue'[r] = queue[r]
        /\ job' = job /\ heard' = heard /\ reported \subseteq reported' /\ admitting' = admitting
    BY <1>7 DEF FailClaim, End, CloseInputs, HeldOnce
  <2> QED
    BY <1>3, <2>1, EmptyHolds DEF Waiting, Kept
<1>8. CASE Round(r)
  BY <1>3, <1>8 DEF Round, Waiting, Kept
<1>9. CASE FollowUp(r)
  <2>1. /\ followups[r] \in Seq(Inputs) /\ followups[r] # <<>>
        /\ followups'[r] = Tail(followups[r]) /\ buffer' = buffer /\ job' = job /\ heard' = heard
        /\ admitting' = admitting /\ reported \subseteq reported'
        /\ \/ queue' = queue /\ Head(followups[r]) \in reported'
           \/ queue'[r] = Append(queue[r], Head(followups[r]))
    BY <1>9, FollowUpEffect
  <2>2. /\ Range(queue[r]) \subseteq Range(queue'[r])
        /\ Head(followups[r]) \in Range(queue'[r]) \cup reported'
        /\ Range(followups[r]) = Range(followups'[r]) \cup {Head(followups[r])}
    <3>1. Range(followups[r]) = Range(followups'[r]) \cup {Head(followups[r])}
      BY <2>1, TailHolds
    <3>2. queue[r] \in Seq(Inputs) /\ Head(followups[r]) \in Inputs
      BY <2>1
    <3>3. Range(Append(queue[r], Head(followups[r])))
            = Range(queue[r]) \cup {Head(followups[r])}
      BY <3>2, AppendHolds
    <3> QED
      BY <2>1, <3>1, <3>3
  <2> QED
    BY <1>3, <2>1, <2>2 DEF Waiting, Kept
<1>10. CASE Publish(r) \/ Settle(r)
  <2>1. /\ job[r] # NoInput => job'[r] = job[r] \/ job[r] \in heard \cup reported
        /\ UNCHANGED <<queue, followups, reported, admitting>> /\ heard \subseteq heard'
    BY <1>10 DEF Publish, Settle, HeldOnce
  <2>2. CASE buffer[r] = <<>>
    BY <1>3, <2>1, <2>2, EmptyHolds DEF Waiting, Kept
  <2>3. CASE buffer[r] # <<>>
    <3>1. Forgets(r)
      BY <1>10, <2>3 DEF Publish, Settle, Forgets, LeftOverInv, LeftOver
    <3>2. CASE i \in Range(buffer[r])
      BY <3>1, <3>2 DEF Forgotten
    <3>3. CASE i \notin Range(buffer[r])
      BY <1>2, <2>1, <3>3 DEF Placed, Waiting
    <3> QED
      BY <3>2, <3>3
  <2> QED
    BY <2>2, <2>3
<1> QED
  BY <1>4, <1>5, <1>6, <1>7, <1>8, <1>9, <1>10 DEF Step

(* Nobody else loses one, and an input is in a place from the start. *)
LEMMA NextPlaces ==
  ASSUME LaneInv, LeftOverInv, Next, NEW i \in accepted', i \in accepted => Placed(i)
  PROVE  Placed(i)' \/ Forgotten(i)
<1>0. i \in accepted => Placed(i)
  OBVIOUS
<1> USE DEF LaneInv, TypeOK, lanes, turn, inputs, bounds
<1>1. ASSUME NEW j \in Inputs, Admit(j) PROVE Placed(i)'
  <2>1. /\ accepted' = accepted \cup {j} /\ admitting = NoInput
        /\ UNCHANGED <<queue, job, followups, heard, reported>>
    BY <1>1 DEF Admit
  <2>2. CASE Steerable /\ buffer' = [buffer EXCEPT ![entry] = Append(@, j)]
    <3>1. /\ entry \in Runners
          /\ Range(buffer'[entry]) = Range(buffer[entry]) \cup {j}
          /\ \A q \in Runners \ {entry} : buffer'[q] = buffer[q]
      BY <2>2, AppendHolds DEF Steerable
    <3> QED
      BY <1>0, <2>1, <3>1 DEF Placed, Waiting
  <2>3. CASE admitting' = j /\ buffer' = buffer
    BY <1>0, <2>1, <2>3, NamesAssumption DEF Placed, Waiting
  <2> QED
    BY <1>1, <2>2, <2>3 DEF Admit
<1>2. ASSUME NEW j \in Inputs, Enqueue(j), UNCHANGED <<turn, heard>>,
             i = j \/ (i \in accepted /\ (admitting' = admitting \/ admitting = j))
      PROVE  Placed(i)'
  <2>0. CASE reported' = reported \cup {j} /\ UNCHANGED lanes
    BY <1>0, <1>2, <2>0 DEF Placed, Waiting
  <2> SUFFICES ASSUME ~(reported' = reported \cup {j} /\ UNCHANGED lanes) PROVE Placed(i)'
    BY <2>0
  <2>1. PICK r \in Runners : queue' = [queue EXCEPT ![r] = Append(@, j)] /\ reported' = reported
    BY <1>2 DEF Enqueue
  <2>2. /\ Range(queue'[r]) = Range(queue[r]) \cup {j}
        /\ \A q \in Runners \ {r} : queue'[q] = queue[q]
    BY <1>2, <2>1, AppendHolds
  <2> QED
    BY <1>0, <1>2, <2>1, <2>2 DEF Placed, Waiting
<1>3. CASE Queue \/ \E j \in Inputs : Remind(j)
  BY <1>2, <1>3 DEF Queue, Remind
<1>4. ASSUME NEW r \in Runners, Step(r) PROVE Placed(i)' \/ Forgotten(i)
  <2>1. accepted' = accepted
    BY <1>4 DEF Step, Take, CheckNotices, Retire, Execute, Publish, FailEarly, Claim,
                FailClaim, Round, End, FollowUp, FollowedUp, Settle, Deliver, CheckAgain
  <2> QED
    BY <1>0, <1>4, <2>1, StepPlaces
<1>5. CASE Stop \/ Close \/ \E n \in Notices : Notice(n)
  <2>1. UNCHANGED <<queue, job, buffer, followups, inputs>>
    BY <1>5 DEF Stop, Close, Notice
  <2> QED
    BY <1>0, <2>1 DEF Placed, Waiting
<1>6. CASE Restart
  BY <1>6 DEF Restart, Placed
<1> QED
  BY <1>1, <1>3, <1>4, <1>5, <1>6 DEF Next

(* LossesKnown: an acknowledged input is lost only when it was steered into  *)
(* a reminder (boot/timers.go) or into a turn that returned before its       *)
(* callback took its own input (lane.go, conversation_turn.go).            *)
THEOREM Losses == Spec => LossesKnown
<1>1. Init => LeftOverInv
  BY DEF Init, Quiet, LeftOverInv, LeftOver
<1>2. LaneInv /\ LaneInv' /\ LeftOverInv /\ [Next]_vars =>
        [\A i \in accepted' :
           (i \in accepted => OnItsWay(i)) =>
              OnItsWay(i)' \/ \E r \in Runners : Forgets(r) /\ i \in Range(buffer[r])]_vars
  <2> SUFFICES ASSUME LaneInv, LaneInv', LeftOverInv, Next, NEW i \in accepted',
                      i \in accepted => OnItsWay(i)
               PROVE  OnItsWay(i)' \/ Forgotten(i)
    BY DEF Forgotten
  <2>1. i \in accepted => Placed(i)
    BY OnWayPlaces
  <2>2. Placed(i)' => OnItsWay(i)'
    BY DEF OnItsWay, Placed, InHand
  <2> QED
    BY <2>1, <2>2, NextPlaces
<1> QED
  BY <1>1, <1>2, NextLeaves, Lanes, PTL DEF Spec, LossesKnown

(* A closed manager opens again only by a restart, which settles everything. *)
LEMMA HandoverKeeps ==
  ASSUME LaneInv, LeftOverInv, HandoverInv, [Next]_vars PROVE HandoverInv'
<1> SUFFICES ASSUME Undisturbed PROVE HandoverInv'
  BY DEF HandoverInv, Undisturbed
<1> USE DEF LaneInv, TypeOK, lanes, turn, inputs, bounds
<1>1. CASE UNCHANGED vars
  <2>1. \A q \in Runners : Waiting(q)' = Waiting(q)
    BY <1>1 DEF vars, Waiting
  <2>2. InHand' = InHand
    BY <1>1, <2>1 DEF vars, InHand
  <2> QED
    BY <1>1, <2>2 DEF vars, HandoverInv, InputsAccounted
<1>2. CASE Next
  <2>1. InputsAccounted'
    <3>1. CASE closed /\ ~closed'
      <4>1. Restart
        BY <1>2, <3>1 DEF Next, Step, Admit, Remind, Queue, Stop, Close, Take, CheckNotices,
             Retire, Execute, Publish, FailEarly, Claim, FailClaim, Round, End, FollowUp,
             FollowedUp, Settle, CheckAgain, Deliver, Notice
      <4> QED
        BY <4>1 DEF Restart, InputsAccounted
    <3>2. CASE ~closed /\ ~closed'
      <4>1. ASSUME NEW i \in accepted' PROVE Placed(i)'
        <5>1. i \in accepted => Placed(i)
          BY <3>2, AccountedPlaces DEF HandoverInv
        <5>2. ~Forgotten(i)
          <6>1. \A r \in Runners : pc[r] = "settle" => buffer[r] = <<>>
            BY <3>2 DEF HandoverInv
          <6>2. \A r \in Runners : ~(pc[r] = "turn" /\ job[r] \in Reminders)
            BY DEF Undisturbed
          <6> QED
            BY <6>1, <6>2, EmptyHolds DEF Forgotten, Forgets
        <5> QED
          BY <1>2, <4>1, <5>1, <5>2, NextPlaces
      <4>2. (InputsAccounted <=> (closed \/ \A i \in accepted : Placed(i)))'
        BY AccountedPlaces, PTL
      <4> QED
        BY <4>1, <4>2
    <3> QED
      BY <3>1, <3>2 DEF InputsAccounted
  <2>2. ASSUME NEW q \in Runners
        PROVE  ~cancelled'[q] /\ (pc'[q] = "settle" /\ ~closed' => buffer'[q] = <<>> /\ ~open'[q])
    <3>0. ~cancelled[q] /\ (pc[q] = "settle" /\ ~closed => buffer[q] = <<>> /\ ~open[q])
      BY DEF HandoverInv
    <3>1. CASE Restart
      BY <3>1 DEF Restart
    <3>2. CASE Stop \/ Close
      BY <3>0, <3>2 DEF Stop, Close, Undisturbed
    <3>3. CASE Queue \/ \E i \in Inputs : Remind(i)
      <4>1. /\ UNCHANGED <<closed, cancelled, buffer, open>>
            /\ pc'[q] = "settle" => pc[q] = "settle"
        BY <3>3 DEF Queue, Remind, Enqueue, WithLane
      <4> QED
        BY <3>0, <4>1
    <3>4. CASE \E n \in Notices : Notice(n)
      <4>1. /\ UNCHANGED <<closed, cancelled, buffer, open>>
            /\ pc'[q] = "settle" => pc[q] = "settle"
        BY <3>4 DEF Notice, Wake, WithLane
      <4> QED
        BY <3>0, <4>1
    <3>5. ASSUME NEW i \in Inputs, Admit(i)
          PROVE  ~cancelled'[q] /\ (pc'[q] = "settle" /\ ~closed' => buffer'[q] = <<>> /\ ~open'[q])
      BY <3>0, <3>5 DEF Admit, Steerable
    <3>6. ASSUME NEW r \in Runners, Step(r)
          PROVE  ~cancelled'[q] /\ (pc'[q] = "settle" /\ ~closed' => buffer'[q] = <<>> /\ ~open'[q])
      <4>1. ~cancelled'[q]
        BY <3>0, <3>6 DEF Step, Take, CheckNotices, Retire, Execute, Publish, FailEarly,
             Claim, FailClaim, Round, End, FollowUp, FollowedUp, Settle, Deliver, CheckAgain,
             CloseInputs, Enqueue
      <4>2. ASSUME pc'[q] = "settle", ~closed' PROVE buffer'[q] = <<>> /\ ~open'[q]
        <5>1. CASE Publish(r) \/ FailEarly(r)
          <6>1. job[r] \in Inputs
            BY <5>1, JobApart DEF Publish, FailEarly, At, TurnPlaces
          <6> QED
            BY <5>1, <6>1 DEF Undisturbed, Publish, FailEarly
        <5>2. CASE Execute(r)
          BY <3>0, <4>2, <5>2 DEF Execute, Goto, HandoverInv
        <5>3. CASE FollowedUp(r)
          BY <3>0, <4>2, <5>3 DEF FollowedUp, Goto, At, HeldOnce
        <5>4. CASE FollowUp(r)
          BY <3>0, <4>2, <5>4, FollowUpEffect DEF FollowUp
        <5>5. CASE Take(r) \/ CheckNotices(r) \/ Retire(r) \/ Claim(r) \/ FailClaim(r)
                   \/ Round(r) \/ End(r) \/ Settle(r) \/ Deliver(r) \/ CheckAgain(r)
          BY <3>0, <4>2, <5>5 DEF Take, CheckNotices, Retire, Claim, FailClaim, Round, End,
               Settle, Deliver, CheckAgain, CloseInputs, Goto, At
        <5> QED
          BY <3>6, <5>1, <5>2, <5>3, <5>4, <5>5 DEF Step
      <4> QED
        BY <4>1, <4>2
    <3> QED
      BY <1>2, <3>1, <3>2, <3>3, <3>4, <3>5, <3>6 DEF Next
  <2> QED
    BY <2>1, <2>2 DEF HandoverInv
<1> QED
  BY <1>1, <1>2

(* HandoverInv: a message steered into a turn that is ending is drained by   *)
(* it or given back by Close, whatever the interleaving; only interrupts,    *)
(* early failures and reminders lose one.                                  *)
THEOREM Handover == Spec => []HandoverInv
<1>1. Init => HandoverInv
  BY DEF Init, Quiet, HandoverInv, InputsAccounted
<1>2. Init => LeftOverInv
  BY DEF Init, Quiet, LeftOverInv, LeftOver
<1> QED
  BY <1>1, <1>2, HandoverKeeps, NextLeaves, Lanes, PTL DEF Spec

(* InputsAccounted: no acknowledged input is lost by an undisturbed turn. *)
THEOREM Accounted ==
  ASSUME Undisturbed PROVE Spec => []InputsAccounted
<1>1. HandoverInv => InputsAccounted
  BY DEF HandoverInv
<1> QED
  BY <1>1, Handover, PTL
=============================================================================
