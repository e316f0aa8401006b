------------------------ MODULE WorkerDispatchProofs ------------------------
(***************************************************************************)
(* Proofs about WorkerDispatch for every set of tasks and workers, every   *)
(* overlap of areas and every bound: types, the fence around directories,  *)
(* that nothing uncertain is run again, that cancels are kept, and that an *)
(* area stays with its task until the result is applied.                   *)
(***************************************************************************)
EXTENDS WorkerDispatch, FiniteSetTheorems, TLAPS

Inv == TypeOK /\ DirectoriesFenced /\ DispatchInv

-----------------------------------------------------------------------------
(* Types. *)

LEMMA Live ==
  ASSUME TypeOK, NEW t \in Tasks, E(t).pc # "idle"
  PROVE  E(t) \in Executions /\ Busy(t)
BY DEF TypeOK, E, Idle, Busy

LEMMA SaveType ==
  ASSUME TypeOK, NEW t \in Tasks, NEW r \in Records, Save(t, r)
  PROVE  /\ rec' \in [Tasks -> Records]
         /\ rec'[t] = [r EXCEPT !.canceled = @ \/ rec[t].canceled]
         /\ rec'[t].state = r.state /\ rec'[t].attempt = r.attempt
         /\ rec[t].canceled => rec'[t].canceled
         /\ \A u \in Tasks \ {t} : rec'[u] = rec[u]
BY DEF TypeOK, Save, Records

LEMMA StepType ==
  ASSUME TypeOK, NEW t \in Tasks, NEW e \in Executions \cup {Idle}, Step(t, e)
  PROVE  /\ exec' \in [Tasks -> Executions \cup {Idle}]
         /\ exec'[t] = e
         /\ \A u \in Tasks \ {t} : exec'[u] = exec[u]
BY DEF TypeOK, Step

LEMMA CutType ==
  ASSUME TypeOK, NEW t \in Tasks, Cut(t)
  PROVE  /\ turn' \in [Tasks -> Turns]
         /\ turn'[t].state # "busy"
         /\ turn[t].state # "busy" => turn'[t] = turn[t]
         /\ \A u \in Tasks \ {t} : turn'[u] = turn[u]
BY DEF TypeOK, Cut, Turns

LEMMA QueuedType ==
  ASSUME NEW r \in Records, r.recoveries < 1
  PROVE  Queued(r) \in Records /\ Queued(r).canceled = r.canceled
         /\ Queued(r).attempt = r.attempt /\ Queued(r).state = "queued"
<1>1. r.recoveries + 1 \in 0 .. 1 /\ {} \in SUBSET AllWorkers
  BY DEF Records
<1> QED
  BY <1>1 DEF Records, Queued, States, Settled

LEMMA RecoveredType ==
  ASSUME NEW t \in Tasks, NEW r \in Records
  PROVE  /\ Recovered(t, r) \in Records
         /\ Recovered(t, r).canceled = r.canceled
         /\ Recovered(t, r).attempt = r.attempt
         /\ Recovered(t, r).state \in Settled \cup {"queued"}
         /\ r.snapshot = "unsure" => Recovered(t, r).state = "unknown"
<1>1. /\ [r EXCEPT !.state = "finished"] \in Records
      /\ [r EXCEPT !.state = "unknown"] \in Records
      /\ [r EXCEPT !.state = "decision"] \in Records
  BY DEF Records, States, Settled
<1>2. r.recoveries \in Int
  BY DEF Records
<1>3. CASE r.snapshot = "unsure"
  BY <1>1, <1>3 DEF Recovered, Records, Settled
<1>4. CASE /\ r.snapshot # "unsure"
           /\ r.canceled \/ turn[t].result \in {"done", "quota"} \/ r.recoveries >= 1
  BY <1>1, <1>4 DEF Recovered, Records, Settled
<1>5. CASE /\ r.snapshot # "unsure" /\ ~r.canceled
           /\ turn[t].result \notin {"done", "quota"} /\ ~(r.recoveries >= 1)
  BY <1>2, <1>5, QueuedType DEF Recovered
<1> QED
  BY <1>3, <1>4, <1>5

LEMMA DeliveredType ==
  ASSUME NEW t \in Tasks, NEW r \in Records
  PROVE  /\ Delivered(t, r) \in Records
         /\ Delivered(t, r).attempt = r.attempt
         /\ Delivered(t, r).canceled = r.canceled
         /\ Delivered(t, r).state \in Settled \cup {"queued"}
         /\ r.snapshot = "unsure" /\ turn[t].result # "done" => Delivered(t, r).state = "unknown"
<1>1. [r EXCEPT !.state = "finished"] \in Records
  BY DEF Records, States, Settled
<1>2. \A q \in Records, b \in BOOLEAN :
        /\ [q EXCEPT !.announced = @ /\ b] \in Records
        /\ [q EXCEPT !.announced = @ /\ b].attempt = q.attempt
        /\ [q EXCEPT !.announced = @ /\ b].canceled = q.canceled
        /\ [q EXCEPT !.announced = @ /\ b].state = q.state
  BY DEF Records
<1> DEFINE late == r.observed # 0 \/ turn[t].result # "done"
           next == IF late THEN Recovered(t, r) ELSE [r EXCEPT !.state = "finished"]
           still == next.state = "unknown"
<1>3. Delivered(t, r) = [next EXCEPT !.announced = @ /\ still]
  BY DEF Delivered
<1>4. /\ next \in Records /\ next.attempt = r.attempt /\ next.canceled = r.canceled
      /\ next.state \in Settled \cup {"queued"}
      /\ r.snapshot = "unsure" /\ turn[t].result # "done" => next.state = "unknown"
  <2>1. CASE late
    BY <2>1, RecoveredType
  <2>2. CASE ~late
    BY <2>2, <1>1 DEF Records, Settled
  <2> QED
    BY <2>1, <2>2
<1>5. still \in BOOLEAN
  OBVIOUS
<1> HIDE DEF next, still
<1> QED
  BY <1>2, <1>3, <1>4, <1>5

Outcomes == {"finished", "queued", "parked", "unknown", "delivered", "delivery", "expired"}
Places ==
    {"prepare", "choose", "launch", "bind", "start", "turn", "observe", "deliver",
     "check", "close", "save"}

LEMMA QuitType ==
  ASSUME TypeOK, NEW t \in Tasks, E(t).pc # "idle", NEW o \in Outcomes, Quit(t, o)
  PROVE  /\ exec' \in [Tasks -> Executions \cup {Idle}]
         /\ exec'[t] \in Executions
         /\ exec'[t].pc = "close" /\ exec'[t].outcome = o
         /\ exec'[t].r = exec[t].r /\ exec'[t].observing = exec[t].observing
         /\ \A u \in Tasks \ {t} : exec'[u] = exec[u]
<1>1. [E(t) EXCEPT !.pc = "close", !.outcome = o] \in Executions
  BY Live DEF Executions, Outcomes
<1>2. exec'[t] = [exec[t] EXCEPT !.pc = "close", !.outcome = o]
  BY DEF TypeOK, Quit, Step, E
<1>3. exec[t] \in Executions
  BY Live DEF E
<1> QED
  BY <1>1, <1>2, <1>3 DEF TypeOK, Quit, Step, E, Executions

LEMMA ToType ==
  ASSUME TypeOK, NEW t \in Tasks, E(t).pc # "idle", NEW p \in Places, To(t, p)
  PROVE  /\ exec' \in [Tasks -> Executions \cup {Idle}]
         /\ exec'[t] \in Executions
         /\ exec'[t].pc = p /\ exec'[t].outcome = exec[t].outcome
         /\ exec'[t].r = exec[t].r /\ exec'[t].observing = exec[t].observing
         /\ \A u \in Tasks \ {t} : exec'[u] = exec[u]
<1>1. [E(t) EXCEPT !.pc = p] \in Executions
  BY Live DEF Executions, Places
<1>2. exec'[t] = [exec[t] EXCEPT !.pc = p]
  BY DEF TypeOK, To, Step, E
<1>3. exec[t] \in Executions
  BY Live DEF E
<1> QED
  BY <1>1, <1>2, <1>3 DEF TypeOK, To, Step, E, Executions

-----------------------------------------------------------------------------
(* What a step of one task leaves of the others. *)

TaskInv(t) == (Uncertain(t) => t \in reserved) /\ FenceInv(t) /\ RecordInv(t)

LEMMA ByTask == Inv <=> TypeOK /\ \A t \in Tasks : TaskInv(t)
BY DEF Inv, DirectoriesFenced, DispatchInv, TaskInv

(* What becomes of a record that the pass has read.                        *)
SeenKept(u) ==
    \/ sync' = sync
    \/ Seen(u)' \in {Seen(u), NoRecord} /\ ~(sync'.pc = "publish" /\ sync'.task = u)

LEMMA SeenType ==
  ASSUME TypeOK, NEW t \in Tasks
  PROVE  Seen(t) \in Records
BY DEF TypeOK, Passes, Lists, Seen

LEMMA SeenNothing ==
  /\ Resting \in Passes /\ NoRecord \in Records
  /\ NoRecord.state = "none" /\ Resting.pc = "pass"
  /\ sync' = Resting => \A t \in Tasks : Seen(t)' = NoRecord
<1>1. NoRecord \in Records /\ NoRecord.state = "none"
  BY DEF NoRecord, Records, States
<1>2. Nothing \in Lists
  BY <1>1 DEF Nothing, Lists
<1>3. Resting \in Passes /\ Resting.pc = "pass"
  BY <1>2 DEF Resting, Passes
<1>4. ASSUME sync' = Resting, NEW t \in Tasks PROVE Seen(t)' = NoRecord
  BY <1>4 DEF Seen, Resting, Nothing
<1> QED
  BY <1>1, <1>3, <1>4

LEMMA SeenListed ==
  ASSUME TypeOK, List
  PROVE  sync' \in Passes /\ sync'.pc = "pass" /\ \A t \in Tasks : Seen(t)' = rec[t]
<1>1. sync \in [pc : {"pass"}, seen : Lists]
  BY DEF TypeOK, Passes, List
<1>2. sync' = [sync EXCEPT !.seen = rec] /\ rec \in Lists
  BY DEF TypeOK, List, Lists
<1>3. sync' \in [pc : {"pass"}, seen : Lists] /\ sync'.seen = rec
  BY <1>1, <1>2
<1> QED
  BY <1>3 DEF Passes, Seen

(* A notice of t begins, or the pass is done with t.                       *)
LEMMA SeenPassed ==
  ASSUME TypeOK, NEW t \in Tasks, Pass(t)
  PROVE  /\ sync' \in Passes
         /\ \A u \in Tasks \ {t} : SeenKept(u)
         /\ IF Notice(t) THEN Seen(t)' = Seen(t) /\ Seen(t).state \in Settled
            ELSE sync'.pc = "pass" /\ Seen(t)' = NoRecord
<1>0. /\ Ahead(t) \in Lists /\ Ahead(t)[t] = NoRecord
      /\ \A u \in Tasks : Ahead(t)[u] \in {Seen(u), NoRecord}
  <2>1. sync.seen \in Lists
    BY DEF TypeOK, Passes
  <2>2. ~(t > t)
    BY TasksAssumption
  <2> QED
    BY <2>1, <2>2, SeenNothing DEF Ahead, Seen, Lists
<1>1. ASSUME sync' = [pc |-> "pass", seen |-> Ahead(t)]
      PROVE  /\ sync' \in Passes /\ sync'.pc = "pass" /\ Seen(t)' = NoRecord
             /\ \A u \in Tasks : Seen(u)' \in {Seen(u), NoRecord}
  BY <1>0, <1>1 DEF Passes, Seen
<1>2. CASE Onward(t)
  <2>1. sync \in [pc : {"pass"}, seen : Lists] /\ sync' = [sync EXCEPT !.seen = Ahead(t)]
    BY <1>2 DEF TypeOK, Passes, Onward
  <2>2. sync' = [pc |-> "pass", seen |-> Ahead(t)]
    BY <2>1
  <2>3. ~Notice(t)
    BY <2>2 DEF Notice
  <2> QED
    BY <1>1, <2>2, <2>3 DEF SeenKept
<1>3. CASE Notice(t)
  <2>1. /\ sync' = [pc |-> "publish", task |-> t, seen |-> sync.seen]
        /\ Seen(t).state \in Settled
    BY <1>3 DEF Notice
  <2>2. sync' \in Passes
    BY <2>1 DEF TypeOK, Passes
  <2>3. \A u \in Tasks : Seen(u)' = Seen(u)
    BY <2>1 DEF Seen
  <2> QED
    BY <1>3, <2>1, <2>2, <2>3 DEF SeenKept
<1>4. CASE Noticed(t)
  <2>1. sync' = [pc |-> "pass", seen |-> Ahead(t)] /\ ~Notice(t)
    BY <1>4 DEF Noticed, Notice
  <2> QED
    BY <1>1, <2>1 DEF SeenKept
<1> QED
  BY <1>2, <1>3, <1>4 DEF Pass, Interrupted, Observe, Refuse, Claim

(* Nothing of u is touched, except that the pass may be done with it.      *)
Untouched(u) ==
    /\ exec'[u] = exec[u] /\ turn'[u] = turn[u]
    /\ rec'[u].state = rec[u].state /\ rec'[u].attempt = rec[u].attempt
    /\ Ended(u) => Ended(u)'
    /\ u \in reserved => u \in reserved'
    /\ SeenKept(u)

LEMMA Frame ==
  ASSUME NEW u \in Tasks, TaskInv(u), Untouched(u)
  PROVE  TaskInv(u)'
<1>1. (Uncertain(u) => u \in reserved)'
  BY DEF TaskInv, Untouched, Uncertain
<1>2. FenceInv(u)'
  BY DEF TaskInv, Untouched, FenceInv, Busy, E, Uncertain, Evidence
<1>3. /\ Copied(u)' => Copied(u) /\ Seen(u)' = Seen(u)
      /\ (sync.pc = "publish" /\ sync.task = u)' => Seen(u)' = Seen(u) /\ Seen(u).state \in Settled
  BY SeenNothing DEF Untouched, SeenKept, Copied, Seen, TaskInv, RecordInv, Settled
<1>4. RecordInv(u)'
  BY <1>3 DEF TaskInv, Untouched, RecordInv, Busy, E, Launching, Uncertain
<1> QED
  BY <1>1, <1>2, <1>4 DEF TaskInv

Others(t) == \A u \in Tasks \ {t} : TaskInv(u)'

LEMMA FrameOthers ==
  ASSUME Inv, NEW t \in Tasks,
         \A u \in Tasks \ {t} :
            /\ exec'[u] = exec[u] /\ turn'[u] = turn[u] /\ rec'[u] = rec[u]
            /\ card'[u] = card[u]
            /\ u \in reserved => u \in reserved',
         sync' = sync \/ Pass(t)
  PROVE  Others(t)
<1> SUFFICES ASSUME NEW u \in Tasks \ {t} PROVE TaskInv(u)'
  BY DEF Others
<1>1. SeenKept(u)
  BY SeenPassed DEF SeenKept, Inv
<1>2. TaskInv(u) /\ Untouched(u)
  BY <1>1, ByTask DEF Untouched, Ended
<1> QED
  BY <1>2, Frame

Kept(t) == TypeOK' /\ TaskInv(t)' /\ Others(t)

LEMMA KeptInv ==
  ASSUME NEW t \in Tasks, Kept(t)
  PROVE  Inv'
BY DEF Kept, Others, Inv, DirectoriesFenced, DispatchInv, TaskInv

-----------------------------------------------------------------------------
(* The steps outside an execution. *)

LEMMA AdmissionKept ==
  ASSUME Inv, limit' = limit, NEW t \in Tasks, Pin(t) \/ Admit(t) \/ Cancel(t)
  PROVE  Kept(t)
<1>1. /\ UNCHANGED <<card, reserved, pend, epoch, sync, exec, react, turn>>
      /\ rec' \in [Tasks -> Records]
      /\ \A u \in Tasks \ {t} : rec'[u] = rec[u]
  <2>2. rec[t] \in Records /\ [rec[t] EXCEPT !.state = "queued"] \in Records
        /\ [rec[t] EXCEPT !.state = "admitting"] \in Records
        /\ [rec[t] EXCEPT !.canceled = TRUE] \in Records
    BY DEF Inv, TypeOK, Records, States
  <2> QED
    BY <2>2 DEF Inv, TypeOK, Pin, Admit, Cancel
<1>2. TypeOK'
  BY <1>1 DEF Inv, TypeOK
<1>3. Others(t)
  BY <1>1, FrameOthers
<1>4. TaskInv(t)'
  <2>1. CASE Cancel(t)
    <3>1. rec'[t].state = rec[t].state /\ rec'[t].attempt = rec[t].attempt
      BY <2>1 DEF Inv, TypeOK, Cancel, Records
    <3> QED
      BY <3>1, <1>1, ByTask, Frame DEF Untouched, Ended, SeenKept
  <2>2. CASE Pin(t) \/ Admit(t)
    <3>1. rec[t].state \in {"none", "admitting"} /\ TaskInv(t)
      BY <2>2, ByTask DEF Pin, Admit
    <3>2. ~Busy(t) /\ ~Copied(t)
      BY <3>1 DEF TaskInv, RecordInv, Settled
    <3> QED
      BY <1>1, <3>1, <3>2
      DEF TaskInv, FenceInv, RecordInv, Busy, Copied, Seen, Uncertain
  <2> QED
    BY <2>1, <2>2
<1> QED
  BY <1>2, <1>3, <1>4 DEF Kept

(* The pass saves the record of t the way it read it, but for its state    *)
(* and its marks.                                                          *)
SameCost(r, q) ==
    /\ r.tried = q.tried /\ r.attempt = q.attempt
    /\ r.recoveries = q.recoveries /\ r.returned = q.returned

CopyBack(t, r) ==
    /\ Copied(t) /\ Save(t, r) /\ r \in Records
    /\ r.state \in Settled /\ (r.state = "unknown" <=> Seen(t).state = "unknown")
    /\ r.held = Seen(t).held /\ SameCost(r, Seen(t))

LEMMA CopyBacks ==
  ASSUME Inv, NEW t \in Tasks, Refuse(t) \/ Observe(t) \/ (Noticed(t) /\ rec' # rec)
  PROVE  \E r : CopyBack(t, r)
<1>0. Seen(t) \in Records /\ epoch \in Nat
  BY SeenType DEF Inv, TypeOK
<1>1. CASE Refuse(t)
  <2> DEFINE r == [Seen(t) EXCEPT !.state = "finished"]
  <2>1. r \in Records /\ r.state = "finished" /\ r.held = Seen(t).held /\ SameCost(r, Seen(t))
    BY <1>0 DEF Records, States, Settled, SameCost
  <2>2. Save(t, r) /\ Seen(t).state = "queued"
    BY <1>1 DEF Refuse
  <2> HIDE DEF r
  <2> QED
    BY <2>1, <2>2 DEF CopyBack, Copied, Settled
<1>2. CASE Observe(t)
  <2> DEFINE r == [Seen(t) EXCEPT !.observed = epoch]
  <2>1. /\ r \in Records /\ r.state = Seen(t).state /\ r.held = Seen(t).held
        /\ SameCost(r, Seen(t))
    BY <1>0 DEF Records, SameCost
  <2>2. Save(t, r) /\ Seen(t).state = "unknown"
    BY <1>2 DEF Observe, Observable
  <2> HIDE DEF r
  <2> QED
    BY <2>1, <2>2 DEF CopyBack, Copied, Settled
<1>3. CASE Noticed(t) /\ rec' # rec
  <2> DEFINE r == [Seen(t) EXCEPT !.announced = TRUE]
  <2>1. /\ r \in Records /\ r.state = Seen(t).state /\ r.held = Seen(t).held
        /\ SameCost(r, Seen(t))
    BY <1>0 DEF Records, SameCost
  <2>2. Save(t, r)
    BY <1>3 DEF Noticed
  <2>3. Seen(t).state \in Settled
    BY <1>3, ByTask DEF Noticed, TaskInv, RecordInv
  <2> HIDE DEF r
  <2> QED
    BY <2>1, <2>2, <2>3 DEF CopyBack, Copied
<1> QED
  BY <1>1, <1>2, <1>3

(* What the pass may save of t has the attempt of t, and is of a task that *)
(* is not at work.                                                         *)
LEMMA CopiedBack ==
  ASSUME Inv, NEW t \in Tasks, NEW r, CopyBack(t, r)
  PROVE  /\ rec' \in [Tasks -> Records] /\ r \in Records
         /\ rec'[t] = [r EXCEPT !.canceled = @ \/ rec[t].canceled]
         /\ rec'[t].state = r.state /\ rec'[t].held = r.held /\ SameCost(rec'[t], r)
         /\ rec'[t].attempt = rec[t].attempt
         /\ rec[t].canceled => rec'[t].canceled
         /\ \A u \in Tasks \ {t} : rec'[u] = rec[u]
         /\ rec[t].state \in Settled \cup {"queued"}
<1>1. /\ r \in Records /\ Save(t, r) /\ r.attempt = Seen(t).attempt
  BY DEF CopyBack, SameCost
<1>2. Seen(t).attempt = rec[t].attempt /\ rec[t].state \in Settled \cup {"queued"}
  BY ByTask DEF CopyBack, TaskInv, RecordInv
<1> DEFINE q == [r EXCEPT !.canceled = @ \/ rec[t].canceled]
<1>3. q.held = r.held /\ SameCost(q, r)
  BY <1>1 DEF Records, SameCost
<1>4. /\ rec' \in [Tasks -> Records] /\ rec'[t] = q
      /\ rec'[t].state = r.state /\ rec'[t].attempt = r.attempt
      /\ rec[t].canceled => rec'[t].canceled
      /\ \A u \in Tasks \ {t} : rec'[u] = rec[u]
  BY <1>1, SaveType DEF Inv
<1>5. rec'[t].held = r.held /\ SameCost(rec'[t], r)
  BY <1>3, <1>4
<1> QED
  BY <1>1, <1>2, <1>4, <1>5

LEMMA CopySaved ==
  ASSUME Inv, limit' = limit, NEW t \in Tasks, Pass(t), ~Notice(t), NEW r, CopyBack(t, r),
         UNCHANGED <<card, reserved, pend, epoch, exec, react, turn>>
  PROVE  Kept(t)
<1>1. /\ rec' \in [Tasks -> Records]
      /\ rec'[t].state = r.state /\ rec'[t].attempt = rec[t].attempt
      /\ r.state \in Settled /\ (r.state = "unknown" <=> Seen(t).state = "unknown")
      /\ \A u \in Tasks \ {t} : rec'[u] = rec[u]
  BY CopiedBack DEF CopyBack
<1>2. sync' \in Passes /\ sync'.pc = "pass" /\ Seen(t)' = NoRecord /\ ~Copied(t)'
  BY SeenPassed, SeenNothing DEF Inv, Copied, Settled
<1>3. TypeOK' /\ Others(t)
  BY <1>1, <1>2, FrameOthers DEF Inv, TypeOK
<1>4. TaskInv(t)
  BY ByTask
<1>5. Busy(t) =>
         \/ E(t).observing /\ Seen(t).state = "unknown"
         \/ /\ ~Launching(t) /\ Ended(t)
            /\ E(t).pc = "check" => Seen(t).state = "unknown" \/ ~Uncertain(t)
  BY <1>4 DEF TaskInv, RecordInv, CopyBack
<1>6. FenceInv(t)' /\ (Uncertain(t) => t \in reserved)'
  BY <1>1, <1>4, <1>5 DEF TaskInv, FenceInv, RecordInv, Busy, E, Uncertain, Evidence
<1>7. RecordInv(t)'
  BY <1>1, <1>2, <1>4, <1>5 DEF TaskInv, RecordInv, Busy, E, Launching, Ended, Settled
<1> QED
  BY <1>3, <1>6, <1>7 DEF Kept, TaskInv

(* The pass begins an execution, and is done with t.                       *)
LEMMA BegunKept ==
  ASSUME Inv, limit' = limit, NEW t \in Tasks, Pass(t), ~Notice(t), ~Busy(t),
         NEW r \in Records, NEW q \in Records, NEW observing \in BOOLEAN,
         rec' = [rec EXCEPT ![t] = q],
         Begin(t, r, IF observing THEN "unknown" ELSE "finished", observing),
         r.state = IF observing THEN "unknown" ELSE "running",
         q.state = r.state, q.attempt = r.attempt,
         UNCHANGED <<card, reserved, pend, epoch, react, turn>>
  PROVE  Kept(t)
<1> DEFINE e == [pc |-> "prepare", r |-> r,
                 outcome |-> IF observing THEN "unknown" ELSE "finished", observing |-> observing]
<1>1. e \in Executions
  <2>1. CASE observing
    BY <2>1 DEF Executions
  <2>2. CASE ~observing
    BY <2>2 DEF Executions
  <2> QED
    BY <2>1, <2>2
<1>2. exec' = [exec EXCEPT ![t] = e]
  BY DEF Begin
<1> HIDE DEF e
<1>3. /\ rec' \in [Tasks -> Records] /\ rec'[t] = q
      /\ exec' \in [Tasks -> Executions \cup {Idle}] /\ exec'[t] = e
      /\ \A u \in Tasks \ {t} : rec'[u] = rec[u] /\ exec'[u] = exec[u]
  BY <1>1, <1>2 DEF Inv, TypeOK
<1>4. sync' \in Passes /\ sync'.pc = "pass" /\ Seen(t)' = NoRecord /\ ~Copied(t)'
  BY SeenPassed, SeenNothing DEF Inv, Copied, Settled
<1>5. TypeOK' /\ Others(t)
  BY <1>3, <1>4, FrameOthers DEF Inv, TypeOK
<1>6. TaskInv(t)
  BY ByTask
<1>7. /\ e.pc = "prepare" /\ e.r = r /\ e.observing = observing
      /\ e.outcome = IF observing THEN "unknown" ELSE "finished"
  BY DEF e
<1>8. FenceInv(t)' /\ (Uncertain(t) => t \in reserved)'
  BY <1>3, <1>6, <1>7 DEF TaskInv, FenceInv, Busy, E, Uncertain
<1>9. RecordInv(t)'
  BY <1>3, <1>4, <1>7 DEF RecordInv, Busy, E, Launching
<1> QED
  BY <1>5, <1>8, <1>9 DEF Kept, TaskInv

LEMMA PassKept ==
  ASSUME Inv, limit' = limit, NEW t \in Tasks, Pass(t)
  PROVE  Kept(t)
<1> USE DEF Inv
<1>0. rec[t] \in Records /\ Seen(t) \in Records /\ TaskInv(t) /\ epoch \in Nat
  BY ByTask, SeenType DEF TypeOK
<1>1. CASE Interrupted(t)
  <2>1. /\ UNCHANGED <<card, reserved, pend, epoch, exec, react, turn>>
        /\ ~Busy(t) /\ ~Notice(t)
        /\ rec' = [rec EXCEPT ![t] = [rec[t] EXCEPT !.state = "unknown"]]
    BY <1>1 DEF Interrupted, Onward, Notice, Settled
  <2>2. [rec[t] EXCEPT !.state = "unknown"] \in Records
    BY <1>0 DEF Records, States, Settled
  <2>3. /\ rec' \in [Tasks -> Records]
        /\ rec'[t].state = "unknown"
        /\ \A u \in Tasks \ {t} : rec'[u] = rec[u]
    BY <1>0, <2>1, <2>2 DEF TypeOK, Records
  <2>4. sync' \in Passes /\ sync'.pc = "pass" /\ ~Copied(t)'
    BY <1>1, <2>1, SeenPassed, SeenNothing DEF Copied, Settled
  <2>5. TypeOK' /\ Others(t)
    BY <1>1, <2>1, <2>3, <2>4, FrameOthers DEF TypeOK
  <2>6. TaskInv(t)'
    BY <1>0, <2>1, <2>3, <2>4 DEF TaskInv, FenceInv, RecordInv, Busy, Uncertain
  <2> QED
    BY <2>5, <2>6 DEF Kept
<1>2. CASE Refuse(t)
  <2>1. ~Notice(t) /\ UNCHANGED <<card, reserved, pend, epoch, exec, react, turn>>
    BY <1>2 DEF Refuse, Onward, Notice, Settled
  <2> QED
    BY <1>2, <2>1, CopyBacks, CopySaved
<1>3. CASE Observe(t)
  <2> DEFINE r == [Seen(t) EXCEPT !.observed = epoch]
             q == [r EXCEPT !.canceled = @ \/ rec[t].canceled]
  <2>1. /\ r \in Records /\ q \in Records /\ q.state = r.state /\ q.attempt = r.attempt
        /\ r.state = Seen(t).state
    BY <1>0 DEF Records
  <2>2. /\ rec' = [rec EXCEPT ![t] = q] /\ Begin(t, r, "unknown", TRUE)
        /\ Seen(t).state = "unknown" /\ ~Busy(t)
        /\ UNCHANGED <<card, reserved, pend, epoch, react, turn>>
    BY <1>3 DEF Observe, Observable, Onward, Save
  <2>3. ~Notice(t)
    BY <2>2 DEF Notice, Begin, Busy, Idle, TypeOK
  <2> HIDE DEF r, q
  <2> QED
    BY <2>1, <2>2, <2>3, BegunKept
<1>4. CASE Claim(t)
  <2> DEFINE r == [rec[t] EXCEPT !.state = "running", !.held = TRUE]
  <2>1. r \in Records /\ r.state = "running"
    BY <1>0 DEF Records, States
  <2>2. /\ rec' = [rec EXCEPT ![t] = r] /\ Begin(t, r, "finished", FALSE)
        /\ ~Busy(t) /\ ~Notice(t)
        /\ UNCHANGED <<card, reserved, pend, epoch, react, turn>>
    BY <1>4 DEF Claim, Onward, Notice, Settled
  <2> HIDE DEF r
  <2> QED
    BY <2>1, <2>2, BegunKept
<1>5. CASE Notice(t)
  <2>1. UNCHANGED <<rec, card, reserved, pend, epoch, exec, react, turn>>
    BY <1>5 DEF Notice
  <2>2. sync' \in Passes /\ Seen(t)' = Seen(t) /\ Seen(t).state \in Settled
    BY <1>5, SeenPassed
  <2>3. TypeOK' /\ Others(t)
    BY <1>5, <2>1, <2>2, FrameOthers DEF TypeOK, Pass
  <2>4. TaskInv(t)'
    BY <1>0, <2>1, <2>2
    DEF TaskInv, FenceInv, RecordInv, Copied, Busy, E, Uncertain, Launching, Ended, Evidence
  <2> QED
    BY <2>3, <2>4 DEF Kept
<1>6. CASE Noticed(t)
  <2>1. /\ UNCHANGED <<card, reserved, pend, epoch, exec, react, turn>>
        /\ ~Notice(t) /\ sync.pc = "publish" /\ sync.task = t
    BY <1>6 DEF Noticed, Notice
  <2>2. CASE UNCHANGED rec
    <3>1. sync' \in Passes /\ sync'.pc = "pass" /\ Seen(t)' = NoRecord
      BY <2>1, SeenPassed
    <3>2. TypeOK' /\ Others(t)
      BY <2>1, <2>2, <3>1, FrameOthers DEF TypeOK
    <3>3. TaskInv(t)'
      BY <1>0, <2>1, <2>2, <3>1, Frame DEF Untouched, Ended, SeenKept
    <3> QED
      BY <3>2, <3>3 DEF Kept
  <2>3. CASE rec' # rec
    BY <1>6, <2>1, <2>3, CopyBacks, CopySaved
  <2> QED
    BY <2>2, <2>3
<1> QED
  BY <1>1, <1>2, <1>3, <1>4, <1>5, <1>6 DEF Pass

LEMMA OutsideKept ==
  ASSUME Inv, limit' = limit, NEW t \in Tasks, WorkEnds(t) \/ Reaction(t) \/ Apply(t)
  PROVE  Kept(t)
<1> USE DEF Inv
<1>0. rec[t] \in Records /\ TaskInv(t) /\ card[t] \in Cards
  BY ByTask DEF TypeOK
<1>1. CASE WorkEnds(t)
  <2>1. /\ UNCHANGED <<rec, card, reserved, pend, epoch, sync, exec, react>>
        /\ turn[t].state = "busy"
    BY <1>1 DEF WorkEnds
  <2>2. /\ turn' \in [Tasks -> Turns] /\ turn'[t].state = "over"
        /\ \A u \in Tasks \ {t} : turn'[u] = turn[u]
    <3>1. PICK result \in {"done", "failed", "quota"}, known \in BOOLEAN :
            turn' = [turn EXCEPT ![t] = [state |-> "over", result |-> result, known |-> known]]
      BY <1>1 DEF WorkEnds
    <3>2. [state |-> "over", result |-> result, known |-> known] \in Turns
      BY DEF Turns
    <3> QED
      BY <3>1, <3>2 DEF TypeOK
  <2>3. TypeOK' /\ Others(t)
    BY <2>1, <2>2, FrameOthers DEF TypeOK
  <2>4. Uncertain(t)
    BY <2>1 DEF Uncertain
  <2>5. TaskInv(t)'
    BY <1>0, <2>1, <2>2, <2>4
    DEF TaskInv, FenceInv, RecordInv, Busy, E, Copied, Seen, Launching, Ended
  <2> QED
    BY <2>3, <2>5 DEF Kept
<1>2. CASE ReactAck(t) \/ ReactPublish(t)
  <2>1. UNCHANGED <<rec, card, reserved, epoch, sync, exec, turn>>
    BY <1>2 DEF ReactAck, ReactPublish
  <2>2. react' \in Reactions \cup {Deaf} /\ pend' \subseteq Tasks
    BY <1>0, <1>2 DEF ReactAck, ReactPublish, TypeOK, Reactions, Records
  <2>3. TypeOK' /\ Others(t)
    BY <2>1, <2>2, FrameOthers DEF TypeOK
  <2>4. TaskInv(t)'
    BY <1>0, <2>1, Frame DEF Untouched, Ended, SeenKept
  <2> QED
    BY <2>3, <2>4 DEF Kept
<1>3. CASE Judge(t) \/ Apply(t)
  <2>1. UNCHANGED <<rec, reserved, pend, epoch, sync, exec, react, turn>>
    BY <1>3 DEF Judge, Apply
  <2>2. /\ card' \in [Tasks -> Cards]
        /\ Ended(t) => Ended(t)'
        /\ \A u \in Tasks \ {t} : card'[u] = card[u]
    <3>1. CASE Judge(t)
      <4>1. PICK v \in {"verified", "needs_changes"} : card' = [card EXCEPT ![t].verdict = v]
        BY <3>1 DEF Judge
      <4> QED
        BY <1>0, <4>1 DEF TypeOK, Cards, Ended
    <3>2. CASE Apply(t)
      BY <1>0, <3>2 DEF Apply, TypeOK, Cards, Ended
    <3> QED
      BY <1>3, <3>1, <3>2
  <2>3. TypeOK' /\ Others(t)
    BY <2>1, <2>2, FrameOthers DEF TypeOK
  <2>4. TaskInv(t)'
    BY <1>0, <2>1, <2>2, Frame DEF Untouched, SeenKept
  <2> QED
    BY <2>3, <2>4 DEF Kept
<1>4. CASE Return(t)
  <2>1. /\ UNCHANGED <<card, reserved, pend, epoch, sync, exec, turn>>
        /\ rec[t].state = "finished" /\ Ended(t)
        /\ react' = [react EXCEPT !.pc = "returned"] /\ Publishing(t)
    BY <1>4 DEF Return
  <2>2. /\ rec' \in [Tasks -> Records]
        /\ rec'[t].state = "queued" /\ rec'[t].attempt = rec[t].attempt
        /\ \A u \in Tasks \ {t} : rec'[u] = rec[u]
    <3>1. {} \in SUBSET AllWorkers
      OBVIOUS
    <3> QED
      BY <1>0, <1>4, <3>1 DEF Return, TypeOK, Records, States, Settled
  <2>3. react' \in Reactions
    BY <2>1 DEF TypeOK, Publishing, Deaf, Reactions
  <2>4. TypeOK' /\ Others(t)
    BY <2>1, <2>2, <2>3, FrameOthers DEF TypeOK
  <2>5. ~Launching(t) \/ ~Busy(t)
    BY <1>0, <2>1 DEF TaskInv, RecordInv
  <2>6. E(t).pc = "check" /\ Busy(t) => ~Uncertain(t)
    BY <1>0, <2>1 DEF TaskInv, FenceInv
  <2>7. TaskInv(t)'
    BY <1>0, <2>1, <2>2, <2>5, <2>6
    DEF TaskInv, FenceInv, RecordInv, Busy, E, Copied, Seen, Uncertain, Launching, Ended, Evidence
  <2> QED
    BY <2>4, <2>7 DEF Kept
<1>5. CASE ReactEnd(t)
  <2>1. /\ UNCHANGED <<card, reserved, epoch, sync, exec, turn>>
        /\ react' = Deaf /\ pend' \subseteq Tasks
    BY <1>5 DEF ReactEnd, TypeOK
  <2>2. /\ rec' \in [Tasks -> Records]
        /\ rec'[t].state = rec[t].state /\ rec'[t].attempt = rec[t].attempt
        /\ \A u \in Tasks \ {t} : rec'[u] = rec[u]
    BY <1>0, <1>5 DEF ReactEnd, TypeOK, Records
  <2>3. TypeOK' /\ Others(t)
    BY <2>1, <2>2, FrameOthers DEF TypeOK
  <2>4. TaskInv(t)'
    BY <1>0, <2>1, <2>2, Frame DEF Untouched, Ended, SeenKept
  <2> QED
    BY <2>3, <2>4 DEF Kept
<1> QED
  BY <1>1, <1>2, <1>3, <1>4, <1>5 DEF Reaction

LEMMA RestartKept ==
  ASSUME Inv, limit' = limit, Restart \/ ReactFails
  PROVE  Inv'
<1>1. CASE ReactFails
  <2>1. UNCHANGED <<rec, card, reserved, pend, epoch, sync, exec, turn>> /\ react' = Deaf
    BY <1>1 DEF ReactFails
  <2>2. TypeOK'
    BY <2>1 DEF TypeOK, Inv
  <2> QED
    BY <2>1, <2>2
    DEF Inv, DirectoriesFenced, DispatchInv, FenceInv, RecordInv, Busy, E, Copied, Seen, Uncertain,
        Launching, Ended, Evidence
<1>2. CASE Restart
  <2>1. /\ UNCHANGED <<card, reserved, pend, turn>>
        /\ sync' = Resting /\ exec' = [t \in Tasks |-> Idle] /\ react' = Deaf
        /\ epoch' = epoch + 1
        /\ rec' = [t \in Tasks |->
                     IF rec[t].state = "running" THEN [rec[t] EXCEPT !.state = "unknown"]
                     ELSE rec[t]]
    BY <1>2 DEF Restart
  <2>2. \A r \in Records : [r EXCEPT !.state = "unknown"] \in Records
    BY DEF Records, States, Settled
  <2>3. TypeOK'
    BY <2>1, <2>2, SeenNothing DEF TypeOK, Inv
  <2>4. sync'.pc = "pass"
    BY <2>1, SeenNothing
  <2>5. ASSUME NEW t \in Tasks
        PROVE  (Uncertain(t) => t \in reserved)' /\ ~Busy(t)' /\ ~Copied(t)'
    BY <2>1, <2>5, SeenNothing DEF Inv, DirectoriesFenced, Uncertain, Busy, Copied, Settled
  <2> QED
    BY <2>3, <2>4, <2>5 DEF Inv, DirectoriesFenced, DispatchInv, FenceInv, RecordInv
<1> QED
  BY <1>1, <1>2

(* What the pass reads is what there is.                                   *)
LEMMA ListKept ==
  ASSUME Inv, limit' = limit, List
  PROVE  Inv'
<1>1. UNCHANGED <<rec, card, reserved, pend, epoch, exec, react, turn>>
  BY DEF List
<1>2. /\ sync' \in Passes /\ sync'.pc = "pass"
      /\ \A t \in Tasks : Seen(t)' = rec[t]
  BY SeenListed DEF Inv
<1>3. TypeOK'
  BY <1>1, <1>2 DEF Inv, TypeOK
<1>4. ASSUME NEW t \in Tasks
      PROVE  TaskInv(t)'
  <2>1. TaskInv(t)
    BY ByTask
  <2>2. FenceInv(t)' /\ (Uncertain(t) => t \in reserved)'
    BY <1>1, <2>1 DEF TaskInv, FenceInv, Busy, E, Uncertain, Evidence
  <2>3. rec[t].state \in Settled \cup {"queued"} /\ Busy(t) =>
          \/ E(t).observing /\ rec[t].state = "unknown"
          \/ /\ ~Launching(t) /\ Ended(t)
             /\ E(t).pc = "check" => rec[t].state = "unknown" \/ ~Uncertain(t)
    BY <2>1 DEF TaskInv, FenceInv, RecordInv, Settled
  <2>4. RecordInv(t)'
    BY <1>1, <1>2, <2>1, <2>3
    DEF TaskInv, RecordInv, Copied, Busy, E, Launching, Ended, Uncertain
  <2> QED
    BY <2>2, <2>4 DEF TaskInv
<1> QED
  BY <1>3, <1>4 DEF Inv, DirectoriesFenced, DispatchInv, TaskInv

-----------------------------------------------------------------------------
(* The steps of an execution. *)

(* What holds of an execution that is under way. *)
LEMMA Running ==
  ASSUME Inv, NEW t \in Tasks, E(t).pc # "idle"
  PROVE  /\ E(t) \in Executions /\ Busy(t) /\ E(t).r \in Records /\ E(t).outcome \in Outcomes
         /\ TaskInv(t)
         /\ rec[t] \in Records /\ card[t] \in Cards /\ turn[t] \in Turns
         /\ rec[t].state \notin {"none", "admitting"}
         /\ E(t).r.attempt = rec[t].attempt
<1>1. E(t) \in Executions /\ Busy(t)
  BY Live DEF Inv
<1>2. E(t).r \in Records /\ E(t).outcome \in Outcomes
  BY <1>1 DEF Executions, Outcomes
<1>3. TaskInv(t)
  BY ByTask
<1> QED
  BY <1>1, <1>2, <1>3 DEF Inv, TypeOK, TaskInv, RecordInv

(* It leaves the other tasks alone. *)
LEMMA StepKept ==
  ASSUME Inv, limit' = limit, NEW t \in Tasks,
         Alone, exec' \in [Tasks -> Executions \cup {Idle}],
         rec' \in [Tasks -> Records], turn' \in [Tasks -> Turns],
         card' = card, reserved' \subseteq Tasks,
         \A u \in Tasks \ {t} :
            /\ exec'[u] = exec[u] /\ turn'[u] = turn[u] /\ rec'[u] = rec[u]
            /\ u \in reserved => u \in reserved'
  PROVE  TypeOK' /\ Others(t)
BY FrameOthers DEF Alone, Inv, TypeOK

LEMMA QuitKept ==
  ASSUME Inv, limit' = limit, NEW t \in Tasks, NEW o \in Outcomes,
         E(t).pc # "idle", Quit(t, o), Alone, UNCHANGED <<rec, card>>,
         reserved \subseteq reserved', reserved' \subseteq Tasks,
         turn' \in [Tasks -> Turns], \A u \in Tasks \ {t} : turn'[u] = turn[u],
         Uncertain(t)' => t \in reserved',
         o \in Released => ~Uncertain(t)'
  PROVE  Kept(t)
<1>1. TypeOK
  BY DEF Inv
<1>2. /\ exec' \in [Tasks -> Executions \cup {Idle}]
      /\ exec'[t] \in Executions
      /\ exec'[t].pc = "close" /\ exec'[t].outcome = o
      /\ exec'[t].r = exec[t].r /\ exec'[t].observing = exec[t].observing
      /\ \A u \in Tasks \ {t} : exec'[u] = exec[u]
  BY <1>1, QuitType
<1>3. TypeOK' /\ Others(t)
  BY <1>1, <1>2, StepKept DEF TypeOK
<1>4. TaskInv(t) /\ Busy(t)
  BY Running
<1>5. TaskInv(t)'
  BY <1>2, <1>4
  DEF TaskInv, FenceInv, RecordInv, Busy, E, Copied, Seen, Launching, Ended, Alone
<1> QED
  BY <1>3, <1>5 DEF Kept

(* A turn that is cut was uncertain before. *)
LEMMA CutUncertain ==
  ASSUME TypeOK, NEW t \in Tasks, Cut(t) \/ UNCHANGED turn
  PROVE  /\ turn' \in [Tasks -> Turns]
         /\ \A u \in Tasks \ {t} : turn'[u] = turn[u]
         /\ Uncertain(t)' => Uncertain(t)
<1>1. CASE Cut(t)
  BY <1>1, CutType DEF Uncertain, Cut
<1>2. CASE UNCHANGED turn
  BY <1>2 DEF TypeOK, Uncertain
<1> QED
  BY <1>1, <1>2

LEMMA QuitsKept ==
  ASSUME Inv, limit' = limit, NEW t \in Tasks,
         \/ Unserved(t) \/ Withheld(t) \/ Break(t) \/ StopExpired(t) \/ Expire(t)
         \/ Unread(t) \/ Check(t)
  PROVE  Kept(t)
<1>0. TypeOK
  BY DEF Inv
<1>1. E(t).pc # "idle" /\ Alone /\ UNCHANGED <<rec, card, reserved>> /\ (Cut(t) \/ UNCHANGED turn)
  BY DEF Unserved, Withheld, Break, StopExpired, Expire, Unread, Check
<1>2. /\ E(t).outcome \in Outcomes /\ TaskInv(t) /\ Busy(t)
  BY <1>1, Running
<1>3. PICK o \in Outcomes : Quit(t, o) /\ (o \in Released => ~Uncertain(t))
  <2>1. CASE Unserved(t) \/ Withheld(t)
    BY <1>2, <2>1 DEF Unserved, Withheld, Outcomes, TaskInv, FenceInv
  <2>2. CASE Break(t) \/ StopExpired(t) \/ Expire(t) \/ Unread(t)
    BY <2>2 DEF Break, StopExpired, Expire, Unread, Outcomes, Released
  <2>3. CASE Check(t)
    BY <1>2, <2>3 DEF Check, Outcomes, Released, TaskInv, FenceInv
  <2> QED
    BY <2>1, <2>2, <2>3
<1>4. /\ turn' \in [Tasks -> Turns]
      /\ \A u \in Tasks \ {t} : turn'[u] = turn[u]
      /\ Uncertain(t)' => Uncertain(t)
  BY <1>0, <1>1, CutUncertain
<1>5. reserved \subseteq reserved' /\ reserved' \subseteq Tasks
      /\ (Uncertain(t)' => t \in reserved')
  BY <1>0, <1>1, <1>2, <1>4 DEF TypeOK, TaskInv
<1> QED
  BY <1>1, <1>3, <1>4, <1>5, QuitKept

LEMMA PrepareKept ==
  ASSUME Inv, limit' = limit, NEW t \in Tasks, Turned(t) \/ Prepare(t)
  PROVE  Kept(t)
<1>0. TypeOK /\ E(t).pc = "prepare" /\ Alone /\ UNCHANGED <<card, turn>>
  BY DEF Inv, Turned, Prepare
<1>1. /\ E(t) \in Executions /\ Busy(t) /\ TaskInv(t) /\ E(t).r \in Records
      /\ E(t).outcome \in Outcomes /\ E(t).r.attempt = rec[t].attempt
      /\ rec[t].state \notin {"none", "admitting"}
  BY <1>0, Running
<1>2. /\ E(t).outcome = IF E(t).observing THEN "unknown" ELSE "finished"
      /\ E(t).r.state = rec[t].state
  BY <1>0, <1>1 DEF TaskInv, FenceInv, RecordInv, Launching
<1>3. CASE Turned(t)
  <2>1. To(t, "save") /\ UNCHANGED <<rec, reserved>>
    BY <1>3 DEF Turned
  <2>2. /\ exec' \in [Tasks -> Executions \cup {Idle}]
        /\ exec'[t] \in Executions /\ exec'[t].pc = "save"
        /\ exec'[t].r = exec[t].r /\ exec'[t].observing = exec[t].observing
        /\ \A u \in Tasks \ {t} : exec'[u] = exec[u]
    BY <1>0, <2>1, ToType DEF Places
  <2>3. TypeOK' /\ Others(t)
    BY <1>0, <2>1, <2>2, StepKept DEF TypeOK
  <2>4. TaskInv(t)'
    BY <1>0, <1>1, <2>1, <2>2
    DEF TaskInv, FenceInv, RecordInv, Busy, E, Copied, Seen, Launching, Ended, Alone, Uncertain
  <2> QED
    BY <2>3, <2>4 DEF Kept
<1>4. CASE Prepare(t)
  <2>1. /\ reserved' = IF E(t).observing THEN reserved ELSE reserved \cup {t}
        /\ ~E(t).observing => ~Uncertain(t)
    BY <1>1, <1>4 DEF Prepare, TaskInv
  <2>2. CASE Quit(t, E(t).outcome) /\ UNCHANGED rec
    <3>1. /\ reserved \subseteq reserved' /\ reserved' \subseteq Tasks
          /\ (Uncertain(t)' => t \in reserved')
          /\ turn' \in [Tasks -> Turns] /\ \A u \in Tasks \ {t} : turn'[u] = turn[u]
      BY <1>0, <1>1, <2>1 DEF TypeOK, TaskInv, Uncertain
    <3>2. E(t).outcome \in Released => ~Uncertain(t)'
      BY <1>0, <1>2, <2>1 DEF Uncertain, Released
    <3> QED
      BY <1>0, <1>1, <2>2, <3>1, <3>2, QuitKept
  <2>3. CASE Save(t, E(t).r) /\ To(t, IF E(t).observing THEN "observe" ELSE "choose")
    <3> DEFINE p == IF E(t).observing THEN "observe" ELSE "choose"
    <3>1. /\ exec' \in [Tasks -> Executions \cup {Idle}]
          /\ exec'[t] \in Executions
          /\ exec'[t].pc = p /\ exec'[t].outcome = exec[t].outcome
          /\ exec'[t].r = exec[t].r /\ exec'[t].observing = exec[t].observing
          /\ \A u \in Tasks \ {t} : exec'[u] = exec[u]
      BY <1>0, <2>3, ToType DEF Places
    <3>2. /\ rec' \in [Tasks -> Records]
          /\ rec'[t].state = E(t).r.state /\ rec'[t].attempt = E(t).r.attempt
          /\ \A u \in Tasks \ {t} : rec'[u] = rec[u]
      BY <1>0, <1>1, <2>3, SaveType
    <3>3. TypeOK' /\ Others(t)
      BY <1>0, <2>1, <3>1, <3>2, StepKept DEF TypeOK
    <3>4. TaskInv(t)'
      BY <1>0, <1>1, <1>2, <2>1, <3>1, <3>2
      DEF TaskInv, FenceInv, RecordInv, Busy, E, Copied, Seen, Launching, Ended, Alone, Uncertain, Released
    <3> QED
      BY <3>3, <3>4 DEF Kept
  <2> QED
    BY <1>4, <2>2, <2>3 DEF Prepare
<1> QED
  BY <1>3, <1>4

LEMMA ChooseKept ==
  ASSUME Inv, limit' = limit, NEW t \in Tasks, Reserve(t) \/ NeedsSignIn(t)
  PROVE  Kept(t)
<1>0. /\ TypeOK /\ E(t).pc \in {"choose", "launch"} /\ Alone
      /\ UNCHANGED <<card, reserved, turn>>
  BY DEF Inv, Reserve, NeedsSignIn
<1>1. /\ E(t) \in Executions /\ Busy(t) /\ TaskInv(t) /\ E(t).r \in Records
      /\ E(t).r.attempt = rec[t].attempt /\ card[t] \in Cards
      /\ rec[t].state \notin {"none", "admitting"}
  BY <1>0, Running
<1>2. /\ t \in reserved /\ ~Uncertain(t) /\ ~E(t).observing
      /\ E(t).outcome \in Released
      /\ E(t).r.state = "running" /\ rec[t].state = "running" /\ ~Copied(t)
  BY <1>0, <1>1 DEF TaskInv, FenceInv, RecordInv, Launching
<1>3. PICK r \in Records, p \in {"choose", "launch"}, o \in Released :
        Save(t, r) /\ r.state = "running" /\ Step(t, [E(t) EXCEPT !.pc = p, !.r = r, !.outcome = o])
  <2>1. CASE Reserve(t)
    <3>1. PICK w \in Workers[t] \ E(t).r.tried :
            LET r == [E(t).r EXCEPT !.worker = w, !.tried = @ \cup {w}, !.thread = FALSE,
                                    !.snapshot = "none", !.attempt = card[t].run + 1]
            IN  Save(t, r) /\ Step(t, [E(t) EXCEPT !.pc = "launch", !.r = r])
      BY <2>1 DEF Reserve
    <3> DEFINE r == [E(t).r EXCEPT !.worker = w, !.tried = @ \cup {w}, !.thread = FALSE,
                                   !.snapshot = "none", !.attempt = card[t].run + 1]
    <3>2. w \in AllWorkers /\ card[t].run + 1 \in Nat
      <4>1. w \in AllWorkers
        BY DEF AllWorkers
      <4>2. card[t].run \in Nat
        BY <1>1 DEF Cards
      <4> QED
        BY <4>1, <4>2
    <3>3. r \in Records /\ r.state = "running"
      BY <1>1, <1>2, <3>2 DEF Records
    <3> HIDE DEF r
    <3>4. [E(t) EXCEPT !.pc = "launch", !.r = r]
            = [E(t) EXCEPT !.pc = "launch", !.r = r, !.outcome = E(t).outcome]
      BY <1>1 DEF Executions
    <3>5. Save(t, r) /\ Step(t, [E(t) EXCEPT !.pc = "launch", !.r = r])
      BY <3>1 DEF r
    <3> QED
      BY <1>2, <3>3, <3>4, <3>5
  <2>2. CASE NeedsSignIn(t)
    <3>1. Save(t, E(t).r) /\ Step(t, [E(t) EXCEPT !.pc = "choose", !.outcome = "finished"])
      BY <2>2 DEF NeedsSignIn
    <3>2. [E(t) EXCEPT !.pc = "choose", !.outcome = "finished"]
            = [E(t) EXCEPT !.pc = "choose", !.r = E(t).r, !.outcome = "finished"]
      BY <1>1 DEF Executions
    <3> QED
      BY <1>1, <1>2, <3>1, <3>2 DEF Released
  <2> QED
    BY <2>1, <2>2
<1> DEFINE e == [E(t) EXCEPT !.pc = p, !.r = r, !.outcome = o]
<1>4. /\ e \in Executions /\ e.pc = p /\ e.r = r /\ e.outcome = o /\ ~e.observing
  BY <1>1, <1>2 DEF Executions, Released
<1>5. /\ exec' \in [Tasks -> Executions \cup {Idle}]
      /\ exec'[t] = e
      /\ \A u \in Tasks \ {t} : exec'[u] = exec[u]
  <2> HIDE DEF e
  <2>1. Step(t, e)
    BY <1>3 DEF e
  <2> QED
    BY <1>0, <1>4, <2>1, StepType
<1>6. /\ rec' \in [Tasks -> Records]
      /\ rec'[t].state = r.state /\ rec'[t].attempt = r.attempt
      /\ \A u \in Tasks \ {t} : rec'[u] = rec[u]
  BY <1>0, <1>3, SaveType
<1>7. TypeOK' /\ Others(t)
  BY <1>0, <1>5, <1>6, StepKept DEF TypeOK
<1>8. TaskInv(t)'
  <2> HIDE DEF e
  <2> QED
    BY <1>0, <1>1, <1>2, <1>3, <1>4, <1>5, <1>6
    DEF TaskInv, FenceInv, RecordInv, Busy, E, Copied, Seen, Launching, Ended, Alone, Uncertain
<1> QED
  BY <1>7, <1>8 DEF Kept

LEMMA LaunchKept ==
  ASSUME Inv, limit' = limit, NEW t \in Tasks, Launch(t)
  PROVE  Kept(t)
<1>0. TypeOK /\ E(t).pc = "launch" /\ Alone /\ UNCHANGED <<rec, card, reserved>>
  BY DEF Inv, Launch
<1>1. /\ E(t) \in Executions /\ Busy(t) /\ TaskInv(t)
      /\ rec[t].state \notin {"none", "admitting"}
  BY <1>0, Running
<1>2. t \in reserved /\ ~E(t).observing
  BY <1>0, <1>1 DEF TaskInv, FenceInv
<1>3. /\ turn' \in [Tasks -> Turns]
      /\ \A u \in Tasks \ {t} : turn'[u] = turn[u]
  <2>1. /\ [state |-> "busy", result |-> "none", known |-> FALSE] \in Turns
        /\ [state |-> "over", result |-> "failed", known |-> FALSE] \in Turns
    BY DEF Turns
  <2> QED
    BY <1>0, <2>1 DEF Launch, TypeOK
<1>4. CASE Quit(t, "unknown")
  <2>1. /\ reserved \subseteq reserved' /\ reserved' \subseteq Tasks /\ t \in reserved'
    BY <1>0, <1>2 DEF TypeOK
  <2> QED
    BY <1>0, <1>3, <1>4, <2>1, QuitKept DEF Outcomes, Released
<1>5. CASE Step(t, [E(t) EXCEPT !.pc = "bind", !.outcome = "unknown"])
  <2> DEFINE e == [E(t) EXCEPT !.pc = "bind", !.outcome = "unknown"]
  <2>1. e \in Executions /\ e.pc = "bind" /\ e.r = E(t).r /\ e.observing = E(t).observing
    BY <1>1 DEF Executions
  <2> HIDE DEF e
  <2>2. /\ exec' \in [Tasks -> Executions \cup {Idle}]
        /\ exec'[t] = e
        /\ \A u \in Tasks \ {t} : exec'[u] = exec[u]
    BY <1>0, <1>5, <2>1, StepType DEF e
  <2>3. TypeOK' /\ Others(t)
    BY <1>0, <1>3, <2>2, StepKept DEF TypeOK
  <2>4. TaskInv(t)'
    BY <1>0, <1>1, <1>2, <2>1, <2>2
    DEF TaskInv, FenceInv, RecordInv, Busy, E, Copied, Seen, Launching, Ended, Alone
  <2> QED
    BY <2>3, <2>4 DEF Kept
<1> QED
  BY <1>4, <1>5 DEF Launch

LEMMA StartKept ==
  ASSUME Inv, limit' = limit, NEW t \in Tasks, Bind(t) \/ HearCancel(t) \/ TurnEnds(t)
  PROVE  Kept(t)
<1>0. /\ TypeOK /\ E(t).pc \in {"bind", "turn"} /\ Alone
      /\ UNCHANGED <<card, reserved, turn>>
  BY DEF Inv, Bind, HearCancel, TurnEnds
<1>1. /\ E(t) \in Executions /\ Busy(t) /\ TaskInv(t) /\ E(t).r \in Records
      /\ E(t).r.attempt = rec[t].attempt /\ turn[t] \in Turns
      /\ rec[t].state \notin {"none", "admitting"} /\ rec[t] \in Records
  BY <1>0, Running
<1>2. /\ t \in reserved /\ ~E(t).observing
      /\ E(t).r.state = "running" /\ rec[t].state = "running"
  BY <1>0, <1>1 DEF TaskInv, FenceInv, RecordInv, Launching
<1>3. PICK r \in Records, p \in {"start", "turn", "deliver"} :
        /\ r.state = "running" /\ r.attempt = rec[t].attempt
        /\ exec' = [exec EXCEPT ![t] = [E(t) EXCEPT !.pc = p, !.r = r]]
        /\ Save(t, r) \/ UNCHANGED rec
        /\ p = "deliver" => turn[t].state = "over" /\ r.snapshot = Evidence(t)
  <2>1. CASE Bind(t)
    <3> DEFINE r == [E(t).r EXCEPT !.thread = TRUE, !.canceled = @ \/ rec[t].canceled]
    <3>1. r \in Records /\ r.state = "running" /\ r.attempt = rec[t].attempt
      BY <1>1, <1>2 DEF Records
    <3>2. Save(t, r) /\ Step(t, [E(t) EXCEPT !.pc = "start", !.r = r])
      BY <2>1 DEF Bind
    <3> HIDE DEF r
    <3> QED
      BY <3>1, <3>2 DEF Step
  <2>2. CASE HearCancel(t)
    <3> DEFINE r == [E(t).r EXCEPT !.canceled = TRUE]
    <3>1. r \in Records /\ r.state = "running" /\ r.attempt = rec[t].attempt
      BY <1>1, <1>2 DEF Records
    <3>2. /\ exec' = [exec EXCEPT ![t] = [E(t) EXCEPT !.r.canceled = TRUE]]
          /\ E(t).pc = "turn" /\ UNCHANGED rec
      BY <2>2 DEF HearCancel, Step
    <3>3. [E(t) EXCEPT !.r.canceled = TRUE] = [E(t) EXCEPT !.pc = "turn", !.r = r]
      BY <1>1, <3>2 DEF Executions
    <3> HIDE DEF r
    <3> QED
      BY <3>1, <3>2, <3>3
  <2>3. CASE TurnEnds(t)
    <3> DEFINE r == [E(t).r EXCEPT !.snapshot = Evidence(t)]
    <3>1. /\ r \in Records /\ r.state = "running" /\ r.attempt = rec[t].attempt
          /\ r.snapshot = Evidence(t)
      BY <1>1, <1>2 DEF Records, Evidence
    <3>2. /\ exec' = [exec EXCEPT ![t] = [E(t) EXCEPT !.pc = "deliver", !.r.snapshot = Evidence(t)]]
          /\ turn[t].state = "over" /\ UNCHANGED rec
      BY <2>3 DEF TurnEnds, Step
    <3>3. [E(t) EXCEPT !.pc = "deliver", !.r.snapshot = Evidence(t)]
            = [E(t) EXCEPT !.pc = "deliver", !.r = r]
      BY <1>1 DEF Executions
    <3> HIDE DEF r
    <3> QED
      BY <3>1, <3>2, <3>3
  <2> QED
    BY <2>1, <2>2, <2>3
<1> DEFINE e == [E(t) EXCEPT !.pc = p, !.r = r]
<1>4. e \in Executions /\ e.pc = p /\ e.r = r /\ ~e.observing
  BY <1>1, <1>2 DEF Executions
<1> HIDE DEF e
<1>5. /\ exec' \in [Tasks -> Executions \cup {Idle}]
      /\ exec'[t] = e
      /\ \A u \in Tasks \ {t} : exec'[u] = exec[u]
  BY <1>0, <1>3, <1>4 DEF e, TypeOK
<1>6. /\ rec' \in [Tasks -> Records]
      /\ rec'[t].state = "running" /\ rec'[t].attempt = rec[t].attempt
      /\ \A u \in Tasks \ {t} : rec'[u] = rec[u]
  <2>1. CASE Save(t, r)
    BY <1>0, <1>3, <2>1, SaveType
  <2>2. CASE UNCHANGED rec
    BY <1>0, <1>2, <2>2 DEF TypeOK
  <2> QED
    BY <1>3, <2>1, <2>2
<1>7. TypeOK' /\ Others(t)
  BY <1>0, <1>5, <1>6, StepKept DEF TypeOK
<1>8. TaskInv(t)'
  BY <1>0, <1>1, <1>2, <1>3, <1>4, <1>5, <1>6
  DEF TaskInv, FenceInv, RecordInv, Busy, E, Copied, Seen, Launching, Ended, Alone, Uncertain, Evidence
<1> QED
  BY <1>7, <1>8 DEF Kept

LEMMA NextRunType ==
  ASSUME TypeOK, NEW t \in Tasks, NextRun(t)
  PROVE  /\ card' \in [Tasks -> Cards] /\ pend' \subseteq Tasks
         /\ UNCHANGED <<epoch, sync, react>>
         /\ \A u \in Tasks \ {t} : card'[u] = card[u]
<1>1. card[t].run + 1 \in Nat
  <2>1. card[t].run \in Nat
    BY DEF TypeOK, Cards
  <2> QED
    BY <2>1
<1>2. [NewCard EXCEPT !.run = card[t].run + 1, !.active = TRUE] \in Cards
  BY <1>1 DEF NewCard, Cards
<1> QED
  BY <1>2 DEF NextRun, TypeOK

(* The steps that change the card. *)
LEMMA CardKept ==
  ASSUME Inv, limit' = limit, NEW t \in Tasks, StartRun(t) \/ QuotaStop(t) \/ ReadTurn(t)
  PROVE  Kept(t)
<1>0. /\ TypeOK /\ E(t).pc \in {"start", "turn", "observe"}
      /\ UNCHANGED <<rec, reserved, turn>>
  BY DEF Inv, StartRun, QuotaStop, ReadTurn
<1>1. /\ E(t) \in Executions /\ Busy(t) /\ TaskInv(t) /\ E(t).r \in Records
      /\ E(t).r.attempt = rec[t].attempt /\ turn[t] \in Turns /\ card[t] \in Cards
      /\ rec[t].state \notin {"none", "admitting"} /\ rec[t] \in Records
  BY <1>0, Running
<1>2. /\ ~E(t).observing => t \in reserved
      /\ E(t).r.state = rec[t].state
      /\ rec[t].state = IF E(t).observing THEN "unknown" ELSE "running"
      /\ E(t).pc # "observe" => ~E(t).observing
  BY <1>0, <1>1 DEF TaskInv, FenceInv, RecordInv, Launching
<1>3. /\ card' \in [Tasks -> Cards] /\ pend' \subseteq Tasks
      /\ UNCHANGED <<epoch, sync, react>>
      /\ \A u \in Tasks \ {t} : card'[u] = card[u]
  <2>1. CASE NextRun(t)
    BY <1>0, <2>1, NextRunType
  <2>2. CASE QuotaStop(t)
    BY <1>0, <1>1, <2>2 DEF QuotaStop, Alone, TypeOK, Cards
  <2>3. CASE UNCHANGED <<card, pend, epoch, sync, react>>
    BY <1>0, <2>3 DEF TypeOK
  <2> QED
    BY <2>1, <2>2, <2>3 DEF StartRun, ReadTurn
<1>4. PICK r \in Records, p \in {"turn", "choose", "deliver"}, o \in Outcomes :
        /\ r.state = rec[t].state /\ r.attempt = rec[t].attempt
        /\ exec' = [exec EXCEPT ![t] = [E(t) EXCEPT !.pc = p, !.r = r, !.outcome = o]]
        /\ p = "deliver" => turn[t].state = "over" /\ r.snapshot = Evidence(t)
        /\ p = "choose" => o \in Released /\ ~Uncertain(t)
        /\ p # "deliver" => ~E(t).observing
  <2>1. CASE StartRun(t)
    <3>1. exec' = [exec EXCEPT ![t] = [E(t) EXCEPT !.pc = "turn"]] /\ E(t).pc = "start"
      BY <2>1 DEF StartRun, To, Step
    <3>2. [E(t) EXCEPT !.pc = "turn"]
            = [E(t) EXCEPT !.pc = "turn", !.r = E(t).r, !.outcome = E(t).outcome]
      BY <1>1 DEF Executions
    <3>3. E(t).outcome \in Outcomes
      BY <1>1 DEF Executions, Outcomes
    <3> QED
      BY <1>1, <1>2, <3>1, <3>2, <3>3
  <2>2. CASE QuotaStop(t)
    <3> DEFINE r == [E(t).r EXCEPT !.snapshot = "none"]
    <3>1. r \in Records /\ r.state = rec[t].state /\ r.attempt = rec[t].attempt
      BY <1>1, <1>2 DEF Records
    <3>2. /\ exec' = [exec EXCEPT ![t] =
                        [E(t) EXCEPT !.pc = "choose", !.outcome = "finished", !.r.snapshot = "none"]]
          /\ E(t).pc = "turn" /\ ~Uncertain(t)
      BY <2>2 DEF QuotaStop, Step, Uncertain
    <3>3. [E(t) EXCEPT !.pc = "choose", !.outcome = "finished", !.r.snapshot = "none"]
            = [E(t) EXCEPT !.pc = "choose", !.r = r, !.outcome = "finished"]
      BY <1>1 DEF Executions
    <3> HIDE DEF r
    <3> QED
      BY <1>2, <3>1, <3>2, <3>3 DEF Released, Outcomes
  <2>3. CASE ReadTurn(t)
    <3> DEFINE r == [E(t).r EXCEPT !.snapshot = Evidence(t)]
    <3>1. /\ r \in Records /\ r.state = rec[t].state /\ r.attempt = rec[t].attempt
          /\ r.snapshot = Evidence(t) /\ E(t).outcome \in Outcomes
      BY <1>1, <1>2 DEF Records, Evidence, Executions, Outcomes
    <3>2. /\ exec' = [exec EXCEPT ![t] = [E(t) EXCEPT !.pc = "deliver", !.r.snapshot = Evidence(t)]]
          /\ turn[t].state = "over"
      BY <2>3 DEF ReadTurn, Step
    <3>3. [E(t) EXCEPT !.pc = "deliver", !.r.snapshot = Evidence(t)]
            = [E(t) EXCEPT !.pc = "deliver", !.r = r, !.outcome = E(t).outcome]
      BY <1>1 DEF Executions
    <3> HIDE DEF r
    <3> QED
      BY <3>1, <3>2, <3>3
  <2> QED
    BY <2>1, <2>2, <2>3
<1> DEFINE e == [E(t) EXCEPT !.pc = p, !.r = r, !.outcome = o]
<1>5. e \in Executions /\ e.pc = p /\ e.r = r /\ e.outcome = o /\ e.observing = E(t).observing
  BY <1>1 DEF Executions, Outcomes
<1> HIDE DEF e
<1>6. /\ exec' \in [Tasks -> Executions \cup {Idle}]
      /\ exec'[t] = e
      /\ \A u \in Tasks \ {t} : exec'[u] = exec[u]
  BY <1>0, <1>4, <1>5 DEF e, TypeOK
<1>7. TypeOK' /\ Others(t)
  BY <1>0, <1>3, <1>6, FrameOthers DEF TypeOK
<1>8. TaskInv(t)'
  BY <1>0, <1>1, <1>2, <1>3, <1>4, <1>5, <1>6
  DEF TaskInv, FenceInv, RecordInv, Busy, E, Copied, Seen, Launching, Uncertain, Evidence
<1> QED
  BY <1>7, <1>8 DEF Kept

LEMMA DeliverKept ==
  ASSUME Inv, limit' = limit, NEW t \in Tasks, Deliver(t)
  PROVE  Kept(t)
<1>0. /\ TypeOK /\ E(t).pc = "deliver"
      /\ UNCHANGED <<reserved, epoch, sync, react, turn>>
  BY DEF Inv, Deliver
<1>1. /\ E(t) \in Executions /\ Busy(t) /\ TaskInv(t) /\ E(t).r \in Records
      /\ E(t).r.attempt = rec[t].attempt /\ turn[t] \in Turns /\ card[t] \in Cards
      /\ rec[t].state \notin {"none", "admitting"} /\ rec[t] \in Records
  BY <1>0, Running
<1>2. /\ Uncertain(t) \/ ~E(t).observing => t \in reserved
      /\ turn[t].state = "over" /\ E(t).r.snapshot = Evidence(t)
  BY <1>0, <1>1 DEF TaskInv, FenceInv
<1>3. ASSUME NEW o \in {"unknown", "delivery"}, Quit(t, o), UNCHANGED <<rec, card, pend>>
      PROVE  Kept(t)
  <2>1. /\ reserved \subseteq reserved' /\ reserved' \subseteq Tasks
        /\ Uncertain(t)' => t \in reserved'
        /\ turn' \in [Tasks -> Turns] /\ \A u \in Tasks \ {t} : turn'[u] = turn[u]
    BY <1>0, <1>2 DEF TypeOK, Uncertain
  <2> QED
    BY <1>0, <1>3, <2>1, QuitKept DEF Outcomes, Released, Alone
<1>4. ASSUME card' = [card EXCEPT ![t].active = FALSE, ![t].receipt = TRUE],
             pend' = pend \cup {t}, To(t, "check"), NEW pr \in BOOLEAN,
             rec' = [rec EXCEPT ![t] =
                       Delivered(t, [E(t).r EXCEPT !.canceled = @ \/ rec[t].canceled, !.pr = pr])]
      PROVE  Kept(t)
  <2> DEFINE r == [E(t).r EXCEPT !.canceled = @ \/ rec[t].canceled, !.pr = pr]
  <2>1. r \in Records /\ r.attempt = rec[t].attempt /\ r.snapshot = Evidence(t)
    BY <1>1, <1>2 DEF Records
  <2>2. rec' = [rec EXCEPT ![t] = Delivered(t, r)]
    BY <1>4
  <2> HIDE DEF r
  <2>3. /\ rec' \in [Tasks -> Records]
        /\ rec'[t].attempt = rec[t].attempt
        /\ rec'[t].state \in Settled \cup {"queued"}
        /\ r.snapshot = "unsure" /\ turn[t].result # "done" => rec'[t].state = "unknown"
        /\ \A u \in Tasks \ {t} : rec'[u] = rec[u]
    BY <1>0, <2>1, <2>2, DeliveredType DEF TypeOK
  <2>4. rec'[t].state = "unknown" \/ ~Uncertain(t)
    BY <1>2, <2>1, <2>3 DEF Evidence, Uncertain
  <2>5. /\ card' \in [Tasks -> Cards] /\ card'[t].receipt /\ ~card'[t].active
        /\ \A u \in Tasks \ {t} : card'[u] = card[u]
    BY <1>0, <1>1, <1>4 DEF TypeOK, Cards
  <2>6. /\ exec' \in [Tasks -> Executions \cup {Idle}]
        /\ exec'[t] \in Executions /\ exec'[t].pc = "check"
        /\ exec'[t].r = exec[t].r /\ exec'[t].observing = exec[t].observing
        /\ \A u \in Tasks \ {t} : exec'[u] = exec[u]
    BY <1>0, <1>4, ToType DEF Places
  <2>7. TypeOK' /\ Others(t)
    BY <1>0, <1>4, <2>3, <2>5, <2>6, FrameOthers DEF TypeOK
  <2>8. Ended(t)'
    BY <2>5 DEF Ended
  <2>9. TaskInv(t)'
    BY <1>0, <1>1, <1>2, <2>3, <2>4, <2>6, <2>8
    DEF TaskInv, FenceInv, RecordInv, Busy, E, Copied, Seen, Launching, Uncertain, Settled
  <2> QED
    BY <2>7, <2>9 DEF Kept
<1> QED
  BY <1>3, <1>4 DEF Deliver

LEMMA CloseKept ==
  ASSUME Inv, limit' = limit, NEW t \in Tasks, Close(t)
  PROVE  Kept(t)
<1>0. TypeOK /\ E(t).pc = "close" /\ Alone /\ UNCHANGED <<rec, card>> /\ (Cut(t) \/ UNCHANGED turn)
  BY DEF Inv, Close
<1>1. /\ E(t) \in Executions /\ Busy(t) /\ TaskInv(t)
      /\ rec[t].state \notin {"none", "admitting"}
  BY <1>0, Running
<1>2. /\ turn' \in [Tasks -> Turns]
      /\ \A u \in Tasks \ {t} : turn'[u] = turn[u]
      /\ Uncertain(t)' => Uncertain(t)
  BY <1>0, CutUncertain
<1>3. E(t).outcome \in Released => ~Uncertain(t)
  BY <1>0, <1>1 DEF TaskInv, FenceInv
<1>4. /\ reserved' \in {reserved, reserved \ {t}}
      /\ E(t).outcome \notin Released => reserved' = reserved
  BY DEF Close
<1>5. PICK e \in Executions :
        /\ Step(t, e) /\ e.pc = "save" /\ e.r = E(t).r /\ e.observing = E(t).observing
  <2>1. CASE To(t, "save")
    <3> DEFINE e == [E(t) EXCEPT !.pc = "save"]
    <3>1. e \in Executions /\ e.pc = "save" /\ e.r = E(t).r /\ e.observing = E(t).observing
      BY <1>1 DEF Executions
    <3>2. Step(t, e)
      BY <2>1 DEF To
    <3> HIDE DEF e
    <3> QED
      BY <3>1, <3>2
  <2>2. CASE Step(t, [E(t) EXCEPT !.pc = "save", !.outcome = "unknown"])
    <3> DEFINE e == [E(t) EXCEPT !.pc = "save", !.outcome = "unknown"]
    <3>1. e \in Executions /\ e.pc = "save" /\ e.r = E(t).r /\ e.observing = E(t).observing
      BY <1>1 DEF Executions
    <3>2. Step(t, e)
      BY <2>2
    <3> HIDE DEF e
    <3> QED
      BY <3>1, <3>2
  <2> QED
    BY <2>1, <2>2 DEF Close
<1>6. /\ exec' \in [Tasks -> Executions \cup {Idle}] /\ exec'[t] = e
      /\ \A u \in Tasks \ {t} : exec'[u] = exec[u]
  BY <1>0, <1>5, StepType
<1>7. TypeOK' /\ Others(t)
  BY <1>0, <1>2, <1>4, <1>6, StepKept DEF TypeOK
<1>8. TaskInv(t)'
  BY <1>0, <1>1, <1>2, <1>3, <1>4, <1>5, <1>6
  DEF TaskInv, FenceInv, RecordInv, Busy, E, Copied, Seen, Launching, Ended, Alone
<1> QED
  BY <1>7, <1>8 DEF Kept

LEMMA EndKept ==
  ASSUME Inv, limit' = limit, NEW t \in Tasks, End(t)
  PROVE  Kept(t)
<1>0. /\ TypeOK /\ E(t).pc = "save" /\ Alone /\ UNCHANGED <<card, reserved, turn>>
      /\ Step(t, Idle)
  BY DEF Inv, End
<1>1. /\ E(t) \in Executions /\ Busy(t) /\ TaskInv(t) /\ E(t).r \in Records
      /\ E(t).r.attempt = rec[t].attempt
      /\ rec[t].state \notin {"none", "admitting"} /\ rec[t] \in Records
  BY <1>0, Running
<1>2. /\ exec' \in [Tasks -> Executions \cup {Idle}] /\ exec'[t] = Idle
      /\ \A u \in Tasks \ {t} : exec'[u] = exec[u]
  BY <1>0, StepType
<1>3. /\ rec' \in [Tasks -> Records]
      /\ rec'[t].attempt = rec[t].attempt
      /\ rec'[t].state \in {rec[t].state, "finished", "queued", "unknown"}
      /\ \A u \in Tasks \ {t} : rec'[u] = rec[u]
  <2>1. CASE UNCHANGED rec
    BY <1>0, <1>1, <2>1 DEF TypeOK
  <2>2. CASE ~UNCHANGED rec
    <3>1. PICK q \in {"finished", "queued", "unknown"} :
            Save(t, [E(t).r EXCEPT !.state = q, !.snapshot = "none"])
      BY <2>2 DEF End, SaveState
    <3> DEFINE r == [E(t).r EXCEPT !.state = q, !.snapshot = "none"]
    <3>2. r \in Records /\ r.attempt = rec[t].attempt /\ r.state = q
      BY <1>1 DEF Records, States, Settled
    <3> HIDE DEF r
    <3>3. Save(t, r)
      BY <3>1 DEF r
    <3> QED
      BY <1>0, <3>2, <3>3, SaveType
  <2> QED
    BY <2>1, <2>2
<1>4. TypeOK' /\ Others(t)
  BY <1>0, <1>2, <1>3, StepKept DEF TypeOK
<1>5. ~Busy(t)' /\ (Uncertain(t)' => Uncertain(t))
  BY <1>0, <1>2 DEF Busy, Uncertain
<1>6. TaskInv(t)'
  BY <1>0, <1>1, <1>3, <1>5 DEF TaskInv, FenceInv, RecordInv, Copied, Seen, Alone, Settled
<1> QED
  BY <1>4, <1>6 DEF Kept

LEMMA StepInv ==
  ASSUME Inv, [Next]_vars
  PROVE  Inv'
<1>1. CASE UNCHANGED vars
  BY <1>1
  DEF vars, state, Inv, TypeOK, DirectoriesFenced, DispatchInv, FenceInv, RecordInv, Busy, E,
      Copied, Seen, Uncertain, Launching, Ended, Evidence
<1>2. CASE Next
  <2>1. limit' = limit
    BY <1>2 DEF Next
  <2>2. ASSUME NEW t \in Tasks, Execute(t)
        PROVE  Kept(t)
    BY <2>1, <2>2, QuitsKept, PrepareKept, ChooseKept, LaunchKept, StartKept, CardKept,
       DeliverKept, CloseKept, EndKept
    DEF Execute, Proceed
  <2> QED
    BY <1>2, <2>1, <2>2, AdmissionKept, PassKept, OutsideKept, RestartKept, ListKept,
       KeptInv
    DEF Next
<1> QED
  BY <1>1, <1>2

LEMMA InitInv ==
  ASSUME Init
  PROVE  Inv
<1>1. NewCard \in Cards /\ NoTurn \in Turns
  BY DEF NewCard, Cards, NoTurn, Turns
<1>2. TypeOK /\ sync.pc = "pass"
  BY <1>1, SeenNothing DEF Init, TypeOK
<1>3. ASSUME NEW t \in Tasks PROVE ~Busy(t) /\ ~Copied(t) /\ ~Uncertain(t)
  BY DEF Init, Busy, Copied, Seen, Resting, Nothing, NoRecord, Settled, Uncertain, NoTurn
<1> QED
  BY <1>2, <1>3 DEF Inv, DirectoriesFenced, DispatchInv, FenceInv, RecordInv

(* The directories of a task are fenced until nothing it may still be      *)
(* doing, and nothing unknown it has done, is left: for every set of tasks *)
(* and workers, every overlap and every number of attempts and restarts.   *)
THEOREM DispatchInvariant == Spec => [](TypeOK /\ DirectoriesFenced /\ DispatchInv)
<1>1. Spec => []Inv
  BY InitInv, StepInv, PTL DEF Spec
<1> QED
  BY <1>1, PTL DEF Inv

(* The variables have the types their comments give. *)
THEOREM DispatchTypes == Spec => []TypeOK
BY DispatchInvariant, PTL

-----------------------------------------------------------------------------
(* What a step may never do. *)

LEMMA LaunchedTurn ==
  ASSUME Inv, Next, NEW t \in Tasks, turn'[t].state = "busy", turn[t].state # "busy"
  PROVE  ~Uncertain(t)
<1>0. TypeOK
  BY DEF Inv
<1>1. turn' # turn
  OBVIOUS
<1>2. PICK u \in Tasks : Launch(u) \/ Break(u) \/ Expire(u) \/ Close(u) \/ WorkEnds(u)
  <2>1. PICK u \in Tasks : Execute(u) \/ WorkEnds(u)
    BY <1>1
    DEF Next, Restart, ReactFails, Pin, Admit, Cancel, Pass, Interrupted, Observe, Refuse,
        Claim, Notice, Noticed, List, Onward, Reaction, ReactAck, ReactPublish, Judge,
        Return, ReactEnd, Apply
  <2>2. CASE Execute(u)
    <3>1. /\ ~(Turned(u) \/ Prepare(u) \/ Reserve(u) \/ Unserved(u) \/ Withheld(u))
          /\ ~(NeedsSignIn(u) \/ Bind(u) \/ StartRun(u) \/ HearCancel(u))
      BY <1>1 DEF Turned, Prepare, Reserve, Unserved, Withheld, NeedsSignIn, Bind, StartRun,
                  HearCancel
    <3>2. /\ ~(StopExpired(u) \/ QuotaStop(u) \/ TurnEnds(u) \/ ReadTurn(u) \/ Unread(u))
          /\ ~(Deliver(u) \/ Check(u) \/ End(u))
      BY <1>1 DEF StopExpired, QuotaStop, TurnEnds, ReadTurn, Unread, Deliver, Check, End
    <3> QED
      BY <2>2, <3>1, <3>2 DEF Execute, Proceed
  <2> QED
    BY <2>1, <2>2
<1>3. CASE Launch(u)
  <2>1. t = u
    BY <1>0, <1>3 DEF Launch, TypeOK
  <2>2. E(t).pc = "launch" /\ TaskInv(t) /\ Busy(t)
    BY <1>3, <2>1, Running DEF Launch
  <2> QED
    BY <2>2 DEF TaskInv, FenceInv
<1>4. CASE Break(u) \/ Expire(u) \/ Close(u)
  <2>1. Cut(u)
    BY <1>1, <1>4 DEF Break, Expire, Close
  <2> QED
    BY <1>0, <2>1, CutType
<1>5. CASE WorkEnds(u)
  BY <1>0, <1>5 DEF WorkEnds, TypeOK
<1> QED
  BY <1>2, <1>3, <1>4, <1>5

(* A task whose last turn may have had unknown effects is never given a    *)
(* new one: startAttempt is reached only with the last one accounted for.  *)
THEOREM DispatchNoReplay == Spec => NoReplay
<1>1. ASSUME Inv, [Next]_vars
      PROVE  [\A t \in Tasks :
                turn'[t].state = "busy" /\ turn[t].state # "busy" => ~Uncertain(t)]_vars
  BY <1>1, LaunchedTurn
<1>2. Spec => []Inv
  BY InitInv, StepInv, PTL DEF Spec
<1> QED
  BY <1>1, <1>2, PTL DEF Spec, NoReplay

CancelStands(t) ==
    rec[t].canceled => rec'[t].canceled /\ rec'[t].attempt = rec[t].attempt

LEMMA SaveStands ==
  ASSUME TypeOK, NEW t \in Tasks, NEW r \in Records, Save(t, r),
         rec[t].canceled => r.attempt = rec[t].attempt
  PROVE  \A u \in Tasks : CancelStands(u)
<1>1. /\ rec[t].canceled => rec'[t].canceled
      /\ rec'[t].attempt = r.attempt
      /\ \A u \in Tasks \ {t} : rec'[u] = rec[u]
  BY SaveType
<1> QED
  BY <1>1 DEF CancelStands

LEMMA FieldStands ==
  ASSUME TypeOK, NEW t \in Tasks, NEW r \in Records, rec' = [rec EXCEPT ![t] = r],
         rec[t].canceled => r.canceled, r.attempt = rec[t].attempt
  PROVE  \A u \in Tasks : CancelStands(u)
BY DEF TypeOK, CancelStands

LEMMA PassStands ==
  ASSUME Inv, NEW t \in Tasks, Pass(t)
  PROVE  \A u \in Tasks : CancelStands(u)
<1>0. TypeOK /\ rec[t] \in Records /\ TaskInv(t)
  BY ByTask DEF Inv, TypeOK
<1>1. CASE Interrupted(t) \/ Claim(t)
  <2>1. PICK r \in Records : /\ rec' = [rec EXCEPT ![t] = r]
                             /\ r.canceled = rec[t].canceled /\ r.attempt = rec[t].attempt
    <3>1. /\ [rec[t] EXCEPT !.state = "unknown"] \in Records
          /\ [rec[t] EXCEPT !.state = "running", !.held = TRUE] \in Records
      BY <1>0 DEF Records, States, Settled
    <3> QED
      BY <1>0, <1>1, <3>1 DEF Interrupted, Claim, Records
  <2> QED
    BY <1>0, <2>1, FieldStands
<1>2. CASE rec' = rec
  BY <1>2 DEF CancelStands
<1>3. CASE \E r : CopyBack(t, r)
  <2>1. PICK r : CopyBack(t, r)
    BY <1>3
  <2>2. /\ rec'[t].attempt = rec[t].attempt
        /\ rec[t].canceled => rec'[t].canceled
        /\ \A u \in Tasks \ {t} : rec'[u] = rec[u]
    BY <2>1, CopiedBack
  <2> QED
    BY <2>2 DEF CancelStands
<1> QED
  BY <1>1, <1>2, <1>3, CopyBacks DEF Pass, Notice

LEMMA ExecuteStands ==
  ASSUME Inv, NEW t \in Tasks, Execute(t)
  PROVE  \A u \in Tasks : CancelStands(u)
<1>0. TypeOK
  BY DEF Inv
<1>1. CASE UNCHANGED rec
  BY <1>1 DEF CancelStands
<1>2. CASE E(t).pc # "idle" /\ ~UNCHANGED rec
  <2>1. /\ E(t).r \in Records /\ E(t).r.attempt = rec[t].attempt
        /\ rec[t] \in Records /\ card[t] \in Cards
    BY <1>2, Running
  <2>2. CASE Prepare(t) \/ NeedsSignIn(t)
    <3>1. Save(t, E(t).r)
      BY <1>2, <2>2 DEF Prepare, NeedsSignIn
    <3> QED
      BY <1>0, <2>1, <3>1, SaveStands
  <2>3. CASE Reserve(t)
    <3>1. PICK w \in Workers[t] \ E(t).r.tried :
            Save(t, [E(t).r EXCEPT !.worker = w, !.tried = @ \cup {w}, !.thread = FALSE,
                                   !.snapshot = "none", !.attempt = card[t].run + 1])
      BY <2>3 DEF Reserve
    <3>2. w \in AllWorkers /\ card[t].run + 1 \in Nat
      <4>1. w \in AllWorkers
        BY <3>1 DEF AllWorkers
      <4>2. card[t].run \in Nat
        BY <2>1 DEF Cards
      <4> QED
        BY <4>1, <4>2
    <3>3. [E(t).r EXCEPT !.worker = w, !.tried = @ \cup {w}, !.thread = FALSE,
                         !.snapshot = "none", !.attempt = card[t].run + 1] \in Records
      BY <2>1, <3>2 DEF Records, Cards
    <3> QED
      BY <1>0, <2>3, <3>1, <3>3, SaveStands DEF Reserve
  <2>4. CASE Bind(t)
    <3> DEFINE r == [E(t).r EXCEPT !.thread = TRUE, !.canceled = @ \/ rec[t].canceled]
    <3>1. Save(t, r)
      BY <2>4 DEF Bind
    <3>2. r \in Records /\ r.attempt = rec[t].attempt
      BY <2>1 DEF Records
    <3> QED
      BY <1>0, <3>1, <3>2, SaveStands
  <2>5. CASE Deliver(t)
    <3>1. PICK pr \in BOOLEAN :
            rec' = [rec EXCEPT ![t] =
                      Delivered(t, [E(t).r EXCEPT !.canceled = @ \/ rec[t].canceled, !.pr = pr])]
      BY <1>2, <2>5 DEF Deliver
    <3> DEFINE r == [E(t).r EXCEPT !.canceled = @ \/ rec[t].canceled, !.pr = pr]
    <3>2. /\ r \in Records /\ r.attempt = rec[t].attempt
          /\ r.canceled = (E(t).r.canceled \/ rec[t].canceled)
      BY <2>1 DEF Records
    <3> HIDE DEF r
    <3>3. /\ Delivered(t, r) \in Records
          /\ Delivered(t, r).canceled = r.canceled /\ Delivered(t, r).attempt = r.attempt
      BY <1>0, <3>2, DeliveredType
    <3>4. rec' = [rec EXCEPT ![t] = Delivered(t, r)]
      BY <3>1 DEF r
    <3> QED
      BY <1>0, <3>2, <3>3, <3>4, FieldStands
  <2>6. CASE End(t)
    <3>1. /\ E(t).outcome \in DOMAIN SaveState
          /\ Save(t, [E(t).r EXCEPT !.state = SaveState[E(t).outcome], !.snapshot = "none"])
      BY <1>2, <2>6 DEF End
    <3>2. SaveState[E(t).outcome] \in States
      BY <3>1 DEF SaveState, States, Settled
    <3>3. /\ [E(t).r EXCEPT !.state = SaveState[E(t).outcome], !.snapshot = "none"] \in Records
          /\ [E(t).r EXCEPT !.state = SaveState[E(t).outcome],
                            !.snapshot = "none"].attempt = rec[t].attempt
      BY <2>1, <3>2 DEF Records
    <3> QED
      BY <1>0, <3>1, <3>3, SaveStands
  <2>7. /\ ~(Turned(t) \/ Unserved(t) \/ Withheld(t) \/ Launch(t) \/ StartRun(t))
        /\ ~(HearCancel(t) \/ StopExpired(t) \/ QuotaStop(t) \/ TurnEnds(t) \/ ReadTurn(t))
    BY <1>2 DEF Turned, Unserved, Withheld, Launch, StartRun, HearCancel, StopExpired,
                QuotaStop, TurnEnds, ReadTurn
  <2>8. ~(Unread(t) \/ Check(t) \/ Close(t) \/ Break(t) \/ Expire(t))
    BY <1>2 DEF Unread, Check, Close, Break, Expire
  <2> QED
    BY <2>2, <2>3, <2>4, <2>5, <2>6, <2>7, <2>8 DEF Execute, Proceed
<1>3. CASE E(t).pc = "idle"
  <2>1. ~(Break(t) \/ Expire(t)) /\ ~(Turned(t) \/ Prepare(t) \/ Reserve(t) \/ Unserved(t))
    BY <1>3 DEF Break, Expire, Turned, Prepare, Reserve, Unserved
  <2>2. /\ ~(Withheld(t) \/ NeedsSignIn(t) \/ Launch(t) \/ Bind(t) \/ StartRun(t))
        /\ ~(HearCancel(t) \/ StopExpired(t) \/ QuotaStop(t) \/ TurnEnds(t))
    BY <1>3 DEF Withheld, NeedsSignIn, Launch, Bind, StartRun, HearCancel, StopExpired,
                QuotaStop, TurnEnds
  <2>3. ~(ReadTurn(t) \/ Unread(t) \/ Deliver(t) \/ Check(t) \/ Close(t) \/ End(t))
    BY <1>3 DEF ReadTurn, Unread, Deliver, Check, Close, End
  <2> QED
    BY <2>1, <2>2, <2>3 DEF Execute, Proceed
<1> QED
  BY <1>1, <1>2, <1>3

LEMMA NextStands ==
  ASSUME Inv, Next
  PROVE  \A u \in Tasks : CancelStands(u)
<1>0. TypeOK
  BY DEF Inv
<1>1. CASE UNCHANGED rec
  BY <1>1 DEF CancelStands
<1>2. CASE Restart
  BY <1>0, <1>2 DEF Restart, CancelStands, TypeOK, Records
<1>3. ASSUME NEW t \in Tasks,
             Pin(t) \/ Admit(t) \/ Cancel(t) \/ Return(t) \/ ReactEnd(t), ~UNCHANGED rec
      PROVE  \A u \in Tasks : CancelStands(u)
  <2>1. rec[t] \in Records /\ {} \in SUBSET AllWorkers
    BY <1>0 DEF TypeOK
  <2>2. /\ [rec[t] EXCEPT !.state = "admitting"] \in Records
        /\ [rec[t] EXCEPT !.state = "queued"] \in Records
        /\ [rec[t] EXCEPT !.canceled = TRUE] \in Records
        /\ [rec[t] EXCEPT !.announced = TRUE] \in Records
        /\ [rec[t] EXCEPT !.state = "queued", !.returned = TRUE, !.tried = {},
                          !.announced = FALSE, !.pr = FALSE] \in Records
    BY <2>1 DEF Records, States
  <2>3. PICK r \in Records : /\ rec' = [rec EXCEPT ![t] = r]
                             /\ rec[t].canceled => r.canceled
                             /\ r.attempt = rec[t].attempt
    <3>1. CASE Pin(t)
      BY <2>2, <3>1 DEF Pin, Records
    <3>2. CASE Admit(t)
      BY <2>2, <3>2 DEF Admit, Records
    <3>3. CASE Cancel(t)
      BY <2>2, <3>3 DEF Cancel, Records
    <3>4. CASE Return(t)
      <4> DEFINE r == [rec[t] EXCEPT !.state = "queued", !.returned = TRUE, !.tried = {},
                                     !.announced = FALSE, !.pr = FALSE]
      <4>1. r \in Records /\ rec' = [rec EXCEPT ![t] = r]
        BY <2>2, <3>4 DEF Return
      <4>2. r.canceled = rec[t].canceled /\ r.attempt = rec[t].attempt
        BY <2>1 DEF Records
      <4> QED
        BY <4>1, <4>2
    <3>5. CASE ReactEnd(t)
      BY <1>3, <2>2, <3>5 DEF ReactEnd, Records
    <3> QED
      BY <1>3, <3>1, <3>2, <3>3, <3>4, <3>5
  <2> QED
    BY <1>0, <2>3, FieldStands
<1>4. ASSUME NEW t \in Tasks, WorkEnds(t) \/ ReactAck(t) \/ ReactPublish(t) \/ Judge(t) \/ Apply(t)
      PROVE  UNCHANGED rec
  BY <1>4 DEF WorkEnds, ReactAck, ReactPublish, Judge, Apply
<1> QED
  BY <1>1, <1>2, <1>3, <1>4, PassStands, ExecuteStands DEF Next, Reaction, ReactFails, List

(* A cancel stands against every record saved from memory, and no attempt  *)
(* of a canceled task is reserved (saveRecord, reserveWorker).             *)
THEOREM DispatchCancelKept == Spec => CancelKept
<1>1. ASSUME Inv, [Next]_vars
      PROVE  [\A t \in Tasks : rec[t].canceled =>
                rec'[t].canceled /\ rec'[t].attempt = rec[t].attempt]_vars
  BY <1>1, NextStands DEF CancelStands
<1>2. Spec => []Inv
  BY InitInv, StepInv, PTL DEF Spec
<1> QED
  BY <1>1, <1>2, PTL DEF Spec, CancelKept
-----------------------------------------------------------------------------
(* Areas.  A result that may be applied is the last word on its task: its  *)
(* record is settled and no execution starts another run, so that what an  *)
(* area was freed for is not undone.  And who has claimed an area keeps it.*)

Locked(t) ==
    Ended(t) /\ rec[t].state \in Settled /\ rec[t].attempt = card[t].run

Unstarted == {"finished", "queued", "parked"}
Reported == {"bind", "start", "turn", "observe", "deliver", "check"}

SettledInv(t) ==
    /\ t \in pend => Ended(t)
    /\ Busy(t) /\ E(t).pc \in Reported => E(t).outcome = "unknown"
    /\ Busy(t) /\ E(t).outcome \in Unstarted => rec[t].state = "running" /\ ~E(t).observing
    /\ Publishing(t) /\ react.state = "finished" => Locked(t)
    /\ card[t].verdict = "verified" => Locked(t)
    /\ card[t].applied => card[t].verdict = "verified"

HeldInv(t) ==
    /\ rec[t].state \in {"running", "unknown"} => rec[t].held
    /\ Busy(t) => E(t).r.held /\ rec[t].held
    /\ Copied(t) => Seen(t).held = rec[t].held /\ (Seen(t).state = "unknown" => Seen(t).held)

AreaInv(t) == SettledInv(t) /\ HeldInv(t)
AreasInv == Inv /\ (\A t \in Tasks : AreaInv(t)) /\ AreaLease

(* What a step of a task does to its area: nothing, unless it is claimed. *)
Stands(t) ==
    /\ AreaInv(t)'
    /\ rec'[t].held = rec[t].held \/ Claim(t)
    /\ card[t].applied => card'[t].applied

Same(u) ==
    /\ exec'[u] = exec[u] /\ rec'[u] = rec[u] /\ card'[u] = card[u]
    /\ u \in pend' => u \in pend

(* A copy of the pass stays what it was, or is not saved any more.         *)
CopyKept(u) == Copied(u)' => Copied(u) /\ Seen(u)' = Seen(u)

LEMMA CopiesKept ==
  ASSUME TypeOK, NEW t \in Tasks, sync' = sync \/ Pass(t), NEW u \in Tasks
  PROVE  CopyKept(u)
<1>1. CASE sync' = sync
  BY <1>1 DEF CopyKept, Copied, Seen
<1>2. CASE Pass(t)
  <2>1. Seen(u)' \in {Seen(u), NoRecord} \/ sync' = sync
    BY <1>2, SeenPassed DEF SeenKept
  <2> QED
    BY <1>1, <2>1, SeenNothing DEF CopyKept, Copied, Settled
<1> QED
  BY <1>1, <1>2

LEMMA CopyResting ==
  ASSUME UNCHANGED sync, NEW u \in Tasks
  PROVE  CopyKept(u)
BY DEF CopyKept, Copied, Seen

LEMMA AreaFrame ==
  ASSUME NEW u \in Tasks, AreaInv(u), Same(u), CopyKept(u),
         react' = react \/ react' = Deaf \/ react'.task # u
  PROVE  Stands(u)
<1>1. Publishing(u)' => Publishing(u) /\ react' = react
  BY DEF Publishing, Deaf
<1>2. SettledInv(u)'
  BY <1>1 DEF AreaInv, Same, SettledInv, Busy, E, Ended, Locked
<1>3. HeldInv(u)'
  BY DEF AreaInv, Same, CopyKept, HeldInv, Busy, E
<1> QED
  BY <1>2, <1>3 DEF Stands, AreaInv, Same

(* A step of t leaves the other tasks the same. *)
AllStand(t) == Stands(t) /\ \A u \in Tasks \ {t} : Stands(u)

LEMMA AreaOthers ==
  ASSUME AreasInv, NEW t \in Tasks, Stands(t),
         \A u \in Tasks \ {t} : Same(u),
         sync' = sync \/ Pass(t),
         react' = react \/ react' = Deaf \/ react'.task = t
  PROVE  AllStand(t)
BY AreaFrame, CopiesKept DEF AreasInv, Inv, AllStand

(* A step that changes nothing but the execution, and its record perhaps.  *)
LEMMA ExecutionStands ==
  ASSUME AreasInv, NEW t \in Tasks, Busy(t),
         UNCHANGED <<card, pend, sync, react>>,
         \A u \in Tasks \ {t} : exec'[u] = exec[u] /\ rec'[u] = rec[u],
         rec'[t].held = rec[t].held,
         rec'[t].state \in {"running", "unknown"} => rec[t].held,
         Locked(t) => rec'[t].state \in Settled /\ rec'[t].attempt = rec[t].attempt,
         Busy(t)' =>
            /\ E(t).r.held'
            /\ E(t).pc' \in Reported => E(t).outcome' = "unknown"
            /\ E(t).outcome' \in Unstarted => rec'[t].state = "running" /\ ~E(t).observing'
  PROVE  AllStand(t)
<1>1. AreaInv(t)
  BY DEF AreasInv
<1>2. SettledInv(t)'
  BY <1>1 DEF AreaInv, SettledInv, Ended, Locked, Publishing
<1>3. HeldInv(t)'
  BY <1>1 DEF AreaInv, HeldInv, Copied, Seen
<1>4. Stands(t)
  BY <1>2, <1>3 DEF Stands, AreaInv
<1>5. \A u \in Tasks \ {t} : Same(u)
  BY DEF Same
<1> QED
  BY <1>4, <1>5, AreaOthers

(* What is known of an execution of t before it goes on.  Before its run   *)
(* is delivered nothing that its record could undo has been settled.       *)
LEMMA AreaRunning ==
  ASSUME AreasInv, NEW t \in Tasks, E(t).pc # "idle"
  PROVE  /\ TypeOK /\ Busy(t) /\ AreaInv(t) /\ TaskInv(t)
         /\ exec[t] \in Executions /\ exec[t].r \in Records
         /\ rec[t] \in Records /\ card[t] \in Cards
         /\ exec[t].r.attempt = rec[t].attempt
         /\ exec[t].r.held /\ rec[t].held
         /\ Launching(t) /\ ~exec[t].observing => rec[t].state = "running" /\ ~Locked(t)
         /\ Launching(t) /\ exec[t].observing => rec[t].state = "unknown"
         /\ Launching(t) => exec[t].r.state = rec[t].state
         /\ exec[t].outcome \in Unstarted => rec[t].state = "running" /\ ~exec[t].observing
<1>1. Inv /\ AreaInv(t)
  BY DEF AreasInv
<1>2. /\ E(t) \in Executions /\ Busy(t) /\ E(t).r \in Records /\ TaskInv(t)
      /\ rec[t] \in Records /\ card[t] \in Cards /\ E(t).r.attempt = rec[t].attempt
  BY <1>1, Running
<1>3. /\ Launching(t) /\ ~exec[t].observing => rec[t].state = "running"
      /\ Launching(t) /\ exec[t].observing => rec[t].state = "unknown"
      /\ Launching(t) => exec[t].r.state = rec[t].state
  BY <1>2 DEF TaskInv, RecordInv, E
<1>4. /\ exec[t].r.held /\ rec[t].held
      /\ exec[t].outcome \in Unstarted => rec[t].state = "running" /\ ~exec[t].observing
  BY <1>1, <1>2 DEF AreaInv, HeldInv, SettledInv, E
<1>5. rec[t].state = "running" => ~Locked(t)
  BY DEF Locked, Settled
<1> QED
  BY <1>1, <1>2, <1>3, <1>4, <1>5 DEF Inv, E

LEMMA AreaQuit ==
  ASSUME AreasInv, NEW t \in Tasks, E(t).pc # "idle", NEW o \in Outcomes, Quit(t, o),
         UNCHANGED <<rec, card, pend, sync, react>>,
         o \in Unstarted => rec[t].state = "running" /\ ~exec[t].observing
  PROVE  AllStand(t)
<1>1. TypeOK /\ Busy(t) /\ AreaInv(t) /\ exec[t].r.held
  BY AreaRunning
<1>2. /\ exec'[t].pc = "close" /\ exec'[t].outcome = o
      /\ exec'[t].r = exec[t].r /\ exec'[t].observing = exec[t].observing
      /\ \A u \in Tasks \ {t} : exec'[u] = exec[u]
  BY <1>1, QuitType
<1>3. rec'[t].state \in {"running", "unknown"} => rec[t].held
  BY <1>1 DEF AreaInv, HeldInv
<1>4. Locked(t) => rec'[t].state \in Settled
  BY DEF Locked
<1> QED
  BY <1>1, <1>2, <1>3, <1>4, ExecutionStands DEF E, Reported

LEMMA AreaTo ==
  ASSUME AreasInv, NEW t \in Tasks, E(t).pc # "idle", NEW p \in Places, To(t, p),
         UNCHANGED <<rec, card, pend, sync, react>>,
         p \in Reported => exec[t].outcome = "unknown"
  PROVE  AllStand(t)
<1>1. /\ TypeOK /\ Busy(t) /\ AreaInv(t) /\ exec[t].r.held
      /\ exec[t].outcome \in Unstarted => rec[t].state = "running" /\ ~exec[t].observing
  BY AreaRunning
<1>2. /\ exec'[t].pc = p /\ exec'[t].outcome = exec[t].outcome
      /\ exec'[t].r = exec[t].r /\ exec'[t].observing = exec[t].observing
      /\ \A u \in Tasks \ {t} : exec'[u] = exec[u]
  BY <1>1, ToType
<1>3. rec'[t].state \in {"running", "unknown"} => rec[t].held
  BY <1>1 DEF AreaInv, HeldInv
<1>4. Locked(t) => rec'[t].state \in Settled
  BY DEF Locked
<1> QED
  BY <1>1, <1>2, <1>3, <1>4, ExecutionStands DEF E

(* The record is saved with the copy r; r is also the one in memory. *)
LEMMA AreaSave ==
  ASSUME AreasInv, NEW t \in Tasks, E(t).pc # "idle",
         NEW r \in Records, NEW p \in Places, NEW o \in Outcomes, Save(t, r),
         exec'[t] = [E(t) EXCEPT !.pc = p, !.r = r, !.outcome = o],
         \A u \in Tasks \ {t} : exec'[u] = exec[u],
         UNCHANGED <<card, pend, sync, react>>,
         r.held, r.state = rec[t].state,
         Locked(t) => r.attempt = rec[t].attempt,
         p \in Reported => o = "unknown",
         o \in Unstarted => rec[t].state = "running" /\ ~exec[t].observing
  PROVE  AllStand(t)
<1>1. TypeOK /\ Busy(t) /\ AreaInv(t) /\ exec[t] \in Executions /\ rec[t].held
  BY AreaRunning
<1>2. /\ rec'[t].state = r.state /\ rec'[t].attempt = r.attempt
      /\ rec'[t] = [r EXCEPT !.canceled = @ \/ rec[t].canceled]
      /\ \A u \in Tasks \ {t} : rec'[u] = rec[u]
  BY <1>1, SaveType
<1>3. rec'[t].held = rec[t].held
  BY <1>1, <1>2 DEF Records
<1>4. exec'[t].pc = p /\ exec'[t].r = r /\ exec'[t].outcome = o
      /\ exec'[t].observing = exec[t].observing
  BY <1>1 DEF E, Executions
<1>5. Locked(t) => rec'[t].state \in Settled
  BY <1>2 DEF Locked
<1> QED
  BY <1>1, <1>2, <1>3, <1>4, <1>5, ExecutionStands DEF E

LEMMA AreaChoose ==
  ASSUME AreasInv, NEW t \in Tasks,
         \/ Turned(t) \/ Prepare(t) \/ Reserve(t) \/ Unserved(t) \/ Withheld(t) \/ NeedsSignIn(t)
  PROVE  AllStand(t)
<1>0. /\ E(t).pc \in {"prepare", "choose", "launch"} /\ Launching(t)
      /\ UNCHANGED <<card, pend, sync, react>>
  BY DEF Turned, Prepare, Reserve, Unserved, Withheld, NeedsSignIn, Alone, Launching
<1>1. /\ TypeOK /\ Busy(t) /\ TaskInv(t) /\ exec[t] \in Executions /\ exec[t].r \in Records
      /\ rec[t] \in Records /\ card[t] \in Cards
      /\ exec[t].r.attempt = rec[t].attempt /\ exec[t].r.held
      /\ ~exec[t].observing => rec[t].state = "running" /\ ~Locked(t)
      /\ exec[t].r.state = rec[t].state
      /\ exec[t].outcome \in Unstarted => rec[t].state = "running" /\ ~exec[t].observing
  BY <1>0, AreaRunning
<1>2. exec[t].outcome \in Outcomes /\ exec \in [Tasks -> Executions \cup {Idle}]
  BY <1>1 DEF Executions, Outcomes, TypeOK
<1>3. E(t).pc \in {"choose", "launch"} => ~exec[t].observing
  BY <1>1 DEF TaskInv, FenceInv, E
<1>4. E(t).pc = "prepare" => exec[t].outcome = IF exec[t].observing THEN "unknown" ELSE "finished"
  BY <1>1 DEF TaskInv, FenceInv, E
<1>5. CASE Turned(t)
  BY <1>0, <1>5, AreaTo DEF Turned, Places, Reported
<1>6. CASE Prepare(t)
  <2>1. CASE Quit(t, E(t).outcome) /\ UNCHANGED rec
    BY <1>0, <1>1, <1>2, <2>1, AreaQuit DEF E
  <2>2. CASE Save(t, E(t).r) /\ To(t, IF E(t).observing THEN "observe" ELSE "choose")
    <3> DEFINE p == IF E(t).observing THEN "observe" ELSE "choose"
    <3>1. exec'[t] = [E(t) EXCEPT !.pc = p, !.r = E(t).r, !.outcome = E(t).outcome]
      <4>1. exec'[t] = [E(t) EXCEPT !.pc = p]
        BY <1>2, <2>2 DEF To, Step
      <4> QED
        BY <1>1, <4>1 DEF Executions, E
    <3>2. \A u \in Tasks \ {t} : exec'[u] = exec[u]
      BY <1>2, <2>2 DEF To, Step
    <3>3. p \in Places /\ (p \in Reported => E(t).outcome = "unknown")
      BY <1>4, <1>6 DEF Prepare, Places, Reported, E
    <3> HIDE DEF p
    <3> QED
      BY <1>0, <1>1, <1>2, <2>2, <3>1, <3>2, <3>3, AreaSave DEF E
  <2> QED
    BY <1>6, <2>1, <2>2 DEF Prepare
<1>7. CASE Reserve(t)
  <2>1. PICK w \in Workers[t] \ E(t).r.tried :
          LET r == [E(t).r EXCEPT !.worker = w, !.tried = @ \cup {w}, !.thread = FALSE,
                                  !.snapshot = "none", !.attempt = card[t].run + 1]
          IN /\ Save(t, r)
             /\ Step(t, [E(t) EXCEPT !.pc = "launch", !.r = r])
    BY <1>7 DEF Reserve
  <2> DEFINE r == [E(t).r EXCEPT !.worker = w, !.tried = @ \cup {w}, !.thread = FALSE,
                                 !.snapshot = "none", !.attempt = card[t].run + 1]
  <2>2. w \in AllWorkers
    BY <2>1 DEF AllWorkers
  <2>3. card[t].run + 1 \in Nat
    <3>1. card[t].run \in Nat
      BY <1>1 DEF Cards
    <3> QED
      BY <3>1
  <2>4. r \in Records /\ r.held = E(t).r.held /\ r.state = E(t).r.state
    BY <1>1, <2>2, <2>3 DEF Records, E
  <2>5. Save(t, r) /\ Step(t, [E(t) EXCEPT !.pc = "launch", !.r = r])
    BY <2>1
  <2> HIDE DEF r
  <2>6. /\ exec'[t] = [E(t) EXCEPT !.pc = "launch", !.r = r, !.outcome = E(t).outcome]
        /\ \A u \in Tasks \ {t} : exec'[u] = exec[u]
    BY <1>1, <1>2, <2>5 DEF Step, Executions, E
  <2>7. ~Locked(t) /\ rec[t].state = "running" /\ ~exec[t].observing
    BY <1>1, <1>3, <1>7 DEF Reserve
  <2> QED
    BY <1>0, <1>1, <1>2, <2>4, <2>5, <2>6, <2>7, AreaSave DEF E, Places, Reported
<1>8. CASE Unserved(t)
  <2>1. rec[t].state = "running" /\ ~exec[t].observing /\ E(t).pc # "idle" /\ UNCHANGED rec
    BY <1>1, <1>3, <1>8 DEF Unserved
  <2>2. PICK o \in Outcomes : Quit(t, o)
    BY <1>2, <1>8 DEF Unserved, Outcomes, E
  <2> QED
    BY <1>0, <2>1, <2>2, AreaQuit
<1>9. CASE Withheld(t)
  BY <1>0, <1>1, <1>2, <1>9, AreaQuit DEF Withheld, E
<1>10. CASE NeedsSignIn(t)
  <2>1. /\ exec'[t] = [E(t) EXCEPT !.pc = "choose", !.r = E(t).r, !.outcome = "finished"]
        /\ \A u \in Tasks \ {t} : exec'[u] = exec[u]
    BY <1>1, <1>2, <1>10 DEF NeedsSignIn, Step, Executions, E
  <2>2. rec[t].state = "running" /\ ~exec[t].observing /\ Save(t, E(t).r)
    BY <1>1, <1>3, <1>10 DEF NeedsSignIn
  <2> QED
    BY <1>0, <1>1, <2>1, <2>2, AreaSave DEF E, Places, Outcomes, Reported
<1> QED
  BY <1>5, <1>6, <1>7, <1>8, <1>9, <1>10

LEMMA AreaWork ==
  ASSUME AreasInv, NEW t \in Tasks,
         \/ Launch(t) \/ Bind(t) \/ HearCancel(t) \/ Break(t) \/ StopExpired(t) \/ Expire(t)
         \/ TurnEnds(t) \/ Unread(t) \/ Check(t) \/ Close(t)
  PROVE  AllStand(t)
<1>0. E(t).pc # "idle" /\ UNCHANGED <<card, pend, sync, react>>
  BY DEF Launch, Bind, HearCancel, Break, StopExpired, Expire, TurnEnds, Unread, Check, Close,
         Alone
<1>1. /\ TypeOK /\ Busy(t) /\ TaskInv(t) /\ AreaInv(t)
      /\ exec[t] \in Executions /\ exec[t].r \in Records /\ rec[t] \in Records
      /\ exec[t].r.attempt = rec[t].attempt /\ exec[t].r.held /\ rec[t].held
      /\ exec[t].outcome \in Unstarted => rec[t].state = "running" /\ ~exec[t].observing
  BY <1>0, AreaRunning
<1>2. exec[t].outcome \in Outcomes /\ exec \in [Tasks -> Executions \cup {Idle}]
  BY <1>1 DEF Executions, Outcomes, TypeOK
<1>3. Locked(t) => rec[t].state \in Settled
  BY DEF Locked
<1>4. E(t).pc \in Reported => exec[t].outcome = "unknown"
  BY <1>1 DEF AreaInv, SettledInv, E
<1>5. CASE Launch(t)
  <2>1. CASE Quit(t, "unknown")
    BY <1>0, <1>5, <2>1, AreaQuit DEF Launch, Outcomes, Unstarted
  <2>2. CASE Step(t, [E(t) EXCEPT !.pc = "bind", !.outcome = "unknown"])
    <3>1. /\ exec'[t].r = exec[t].r /\ exec'[t].outcome = "unknown"
          /\ \A u \in Tasks \ {t} : exec'[u] = exec[u]
      BY <1>1, <1>2, <2>2 DEF Step, E, Executions
    <3>2. UNCHANGED rec
      BY <1>5 DEF Launch
    <3> QED
      BY <1>0, <1>1, <1>3, <3>1, <3>2, ExecutionStands DEF E, Unstarted
  <2> QED
    BY <1>5, <2>1, <2>2 DEF Launch
<1>6. CASE Bind(t)
  <2> DEFINE r == [E(t).r EXCEPT !.thread = TRUE, !.canceled = @ \/ rec[t].canceled]
  <2>1. Save(t, r) /\ Step(t, [E(t) EXCEPT !.pc = "start", !.r = r])
    BY <1>6 DEF Bind
  <2>2. /\ r \in Records /\ r.held = E(t).r.held /\ r.state = E(t).r.state
        /\ r.attempt = E(t).r.attempt
    BY <1>1 DEF Records, E
  <2>3. E(t).r.state = rec[t].state
    BY <1>6, AreaRunning DEF Bind, Launching, E
  <2> HIDE DEF r
  <2>4. /\ exec'[t] = [E(t) EXCEPT !.pc = "start", !.r = r, !.outcome = E(t).outcome]
        /\ \A u \in Tasks \ {t} : exec'[u] = exec[u]
    BY <1>1, <1>2, <2>1 DEF Step, Executions, E
  <2>5. E(t).outcome = "unknown"
    BY <1>4, <1>6 DEF Bind, Reported, E
  <2> QED
    BY <1>0, <1>1, <1>2, <2>1, <2>2, <2>3, <2>4, <2>5, AreaSave DEF E, Places
<1>7. CASE HearCancel(t) \/ TurnEnds(t)
  <2>1. CASE HearCancel(t)
    <3>1. exec'[t] = [exec[t] EXCEPT !.r = [exec[t].r EXCEPT !.canceled = TRUE]]
      BY <1>1, <1>2, <2>1 DEF HearCancel, Step, E, Executions
    <3>2. [exec[t].r EXCEPT !.canceled = TRUE].held = exec[t].r.held
      BY <1>1 DEF Records
    <3>3. /\ exec'[t].r.held = exec[t].r.held /\ exec'[t].outcome = exec[t].outcome
          /\ exec'[t].observing = exec[t].observing
      BY <1>1, <3>1, <3>2 DEF Executions
    <3>4. \A u \in Tasks \ {t} : exec'[u] = exec[u]
      BY <1>1, <1>2, <2>1 DEF HearCancel, Step
    <3>5. UNCHANGED rec /\ E(t).pc \in Reported
      BY <2>1 DEF HearCancel, Reported
    <3> QED
      BY <1>0, <1>1, <1>3, <1>4, <3>3, <3>4, <3>5, ExecutionStands DEF E
  <2>2. CASE TurnEnds(t)
    <3> DEFINE r == [exec[t].r EXCEPT !.snapshot = Evidence(t)]
    <3>1. exec'[t] = [exec[t] EXCEPT !.pc = "deliver", !.r = r]
      BY <1>1, <1>2, <2>2 DEF TurnEnds, Step, E, Executions
    <3>2. r.held = exec[t].r.held
      BY <1>1 DEF Records
    <3> HIDE DEF r
    <3>3. /\ exec'[t].r.held = exec[t].r.held /\ exec'[t].outcome = exec[t].outcome
          /\ exec'[t].observing = exec[t].observing
      BY <1>1, <3>1, <3>2 DEF Executions
    <3>4. \A u \in Tasks \ {t} : exec'[u] = exec[u]
      BY <1>1, <1>2, <2>2 DEF TurnEnds, Step
    <3>5. UNCHANGED rec /\ E(t).pc \in Reported
      BY <2>2 DEF TurnEnds, Reported
    <3> QED
      BY <1>0, <1>1, <1>3, <1>4, <3>3, <3>4, <3>5, ExecutionStands DEF E
  <2> QED
    BY <1>7, <2>1, <2>2
<1>8. CASE Break(t) \/ StopExpired(t) \/ Expire(t) \/ Unread(t) \/ Check(t)
  <2>1. UNCHANGED rec
    BY <1>8 DEF Break, StopExpired, Expire, Unread, Check
  <2>2. PICK o \in Outcomes \ Unstarted : Quit(t, o)
    BY <1>8 DEF Break, StopExpired, Expire, Unread, Check, Outcomes, Unstarted
  <2> QED
    BY <1>0, <2>1, <2>2, AreaQuit
<1>9. CASE Close(t)
  <2>1. UNCHANGED rec
    BY <1>9 DEF Close
  <2>2. CASE To(t, "save")
    BY <1>0, <2>1, <2>2, AreaTo DEF Places, Reported
  <2>3. CASE Step(t, [E(t) EXCEPT !.pc = "save", !.outcome = "unknown"])
    <3>1. /\ exec'[t].r = exec[t].r /\ exec'[t].outcome = "unknown"
          /\ \A u \in Tasks \ {t} : exec'[u] = exec[u]
      BY <1>1, <1>2, <2>3 DEF Step, E, Executions
    <3> QED
      BY <1>0, <1>1, <1>3, <2>1, <3>1, ExecutionStands DEF E, Unstarted
  <2> QED
    BY <1>9, <2>2, <2>3 DEF Close
<1> QED
  BY <1>5, <1>6, <1>7, <1>8, <1>9

(* The steps of an execution that write its card. *)
LEMMA AreaCard ==
  ASSUME AreasInv, NEW t \in Tasks,
         StartRun(t) \/ QuotaStop(t) \/ ReadTurn(t)
  PROVE  AllStand(t)
<1>0. /\ E(t).pc \in Reported /\ E(t).pc # "idle" /\ Launching(t)
      /\ UNCHANGED <<rec, sync, react>>
  BY DEF StartRun, QuotaStop, ReadTurn, NextRun, Alone, Launching, Reported
<1>1. /\ TypeOK /\ Busy(t) /\ TaskInv(t) /\ AreaInv(t)
      /\ exec[t] \in Executions /\ exec[t].r \in Records
      /\ rec[t] \in Records /\ card[t] \in Cards
      /\ exec[t].r.attempt = rec[t].attempt /\ exec[t].r.held /\ rec[t].held
      /\ ~exec[t].observing => rec[t].state = "running" /\ ~Locked(t)
  BY <1>0, AreaRunning
<1>2. /\ exec[t].outcome = "unknown" /\ exec \in [Tasks -> Executions \cup {Idle}]
      /\ card \in [Tasks -> Cards]
  BY <1>0, <1>1 DEF TypeOK, AreaInv, SettledInv, E
<1>3. ~ReadTurn(t) => rec[t].state = "running" /\ ~exec[t].observing /\ ~Locked(t)
  <2>1. ~ReadTurn(t) => E(t).pc \in {"start", "turn"}
    BY DEF StartRun, QuotaStop
  <2>2. E(t).pc \in {"start", "turn"} => ~E(t).observing
    BY <1>1 DEF TaskInv, FenceInv
  <2> QED
    BY <1>1, <2>1, <2>2 DEF E
<1>4. /\ \A u \in Tasks \ {t} : exec'[u] = exec[u] /\ card'[u] = card[u]
      /\ pend' \subseteq pend
      /\ exec'[t].r.held
      /\ exec'[t].outcome \in Unstarted => rec[t].state = "running" /\ ~exec'[t].observing
      /\ exec'[t].pc \in Reported => exec'[t].outcome = "unknown"
  <2>1. CASE StartRun(t)
    BY <1>1, <1>2, <2>1 DEF StartRun, NextRun, To, Step, E, Executions, Unstarted
  <2>2. CASE QuotaStop(t)
    <3>1. /\ exec'[t].pc = "choose" /\ exec'[t].observing = exec[t].observing
          /\ exec'[t].r.held = exec[t].r.held
      BY <1>1, <1>2, <2>2 DEF QuotaStop, Step, E, Executions, Records
    <3>2. ~ReadTurn(t)
      BY <2>2 DEF QuotaStop, ReadTurn
    <3> QED
      BY <1>1, <1>2, <1>3, <2>2, <3>1, <3>2 DEF QuotaStop, Step, Reported, Alone
  <2>3. CASE ReadTurn(t)
    <3>1. /\ exec'[t].outcome = exec[t].outcome /\ exec'[t].r.held = exec[t].r.held
          /\ \A u \in Tasks \ {t} : exec'[u] = exec[u]
      BY <1>1, <1>2, <2>3 DEF ReadTurn, Step, E, Executions, Records
    <3> QED
      BY <1>1, <1>2, <2>3, <3>1 DEF ReadTurn, NextRun, Unstarted
  <2> QED
    BY <2>1, <2>2, <2>3
<1>5. HeldInv(t)'
  BY <1>0, <1>1, <1>4 DEF AreaInv, HeldInv, Copied, Seen, Busy, E
<1>6. (Busy(t) /\ E(t).pc \in Reported => E(t).outcome = "unknown")'
      /\ (Busy(t) /\ E(t).outcome \in Unstarted => rec[t].state = "running" /\ ~E(t).observing)'
  BY <1>0, <1>4 DEF E
<1>7. CASE card'[t] = card[t]
  <2>1. SettledInv(t)'
    BY <1>0, <1>1, <1>4, <1>6, <1>7 DEF AreaInv, SettledInv, Locked, Ended, Publishing
  <2> QED
    BY <1>0, <1>4, <1>5, <1>7, <2>1, AreaOthers DEF Stands, AreaInv, Same
<1>8. CASE card'[t] # card[t] /\ ~QuotaStop(t)
  <2>1. ~Locked(t) /\ NextRun(t)
    <3>1. CASE StartRun(t)
      <4>1. ~ReadTurn(t)
        BY <3>1 DEF StartRun, ReadTurn
      <4> QED
        BY <1>3, <3>1, <4>1 DEF StartRun
    <3>2. CASE ReadTurn(t)
      <4>1. card[t].run # rec[t].attempt
        BY <1>1, <1>8, <3>2 DEF ReadTurn, E
      <4> QED
        BY <1>8, <3>2, <4>1 DEF ReadTurn, Locked
    <3> QED
      BY <1>8, <3>1, <3>2
  <2>2. ~card[t].applied /\ ~(Publishing(t) /\ react.state = "finished")
    BY <1>1, <2>1 DEF AreaInv, SettledInv
  <2>3. card'[t].verdict = "" /\ card'[t].applied = FALSE /\ t \notin pend'
    BY <1>2, <2>1 DEF NextRun, NewCard
  <2>4. SettledInv(t)'
    BY <1>0, <1>6, <2>2, <2>3 DEF SettledInv, Publishing
  <2> QED
    BY <1>0, <1>4, <1>5, <2>2, <2>4, AreaOthers DEF Stands, AreaInv, Same
<1>9. CASE QuotaStop(t)
  <2>1. ~Locked(t)
    <3>1. ~ReadTurn(t)
      BY <1>9 DEF QuotaStop, ReadTurn
    <3> QED
      BY <1>3, <3>1
  <2>2. /\ card'[t].verdict = card[t].verdict /\ card'[t].applied = card[t].applied
        /\ card'[t].receipt = card[t].receipt /\ card'[t].active = FALSE
    BY <1>1, <1>2, <1>9 DEF QuotaStop, Cards
  <2>3. Ended(t) => Ended(t)'
    BY <2>2 DEF Ended
  <2>4. SettledInv(t)'
    BY <1>0, <1>1, <1>4, <1>6, <2>1, <2>2, <2>3 DEF AreaInv, SettledInv, Publishing
  <2> QED
    BY <1>0, <1>4, <1>5, <2>2, <2>4, AreaOthers DEF Stands, AreaInv, Same
<1> QED
  BY <1>7, <1>8, <1>9

LEMMA RecoveredHeld ==
  ASSUME NEW t \in Tasks, NEW r \in Records
  PROVE  Delivered(t, r).held = r.held
<1>1. Recovered(t, r) \in Records /\ Recovered(t, r).held = r.held
  BY RecoveredType DEF Recovered, Queued, Records
<1>2. \A q \in Records, b \in BOOLEAN : [q EXCEPT !.announced = @ /\ b].held = q.held
  BY DEF Records
<1>3. [r EXCEPT !.state = "finished"] \in Records /\ [r EXCEPT !.state = "finished"].held = r.held
  BY DEF Records, States, Settled
<1> DEFINE late == r.observed # 0 \/ turn[t].result # "done"
           next == IF late THEN Recovered(t, r) ELSE [r EXCEPT !.state = "finished"]
           still == next.state = "unknown"
<1>4. Delivered(t, r) = [next EXCEPT !.announced = @ /\ still]
  BY DEF Delivered
<1>5. next \in Records /\ next.held = r.held /\ still \in BOOLEAN
  BY <1>1, <1>3
<1> HIDE DEF next, still
<1> QED
  BY <1>2, <1>4, <1>5

LEMMA AreaDeliver ==
  ASSUME AreasInv, NEW t \in Tasks, Deliver(t)
  PROVE  AllStand(t)
<1>0. E(t).pc = "deliver" /\ UNCHANGED <<sync, react>>
  BY DEF Deliver
<1>1. /\ TypeOK /\ Busy(t) /\ AreaInv(t) /\ exec[t] \in Executions /\ exec[t].r \in Records
      /\ rec[t] \in Records /\ card[t] \in Cards
      /\ exec[t].r.attempt = rec[t].attempt /\ exec[t].r.held /\ rec[t].held
  BY <1>0, AreaRunning
<1>2. CASE UNCHANGED <<rec, card, pend>> /\ (Quit(t, "unknown") \/ Quit(t, "delivery"))
  <2>1. PICK o \in Outcomes \ Unstarted : Quit(t, o)
    BY <1>2 DEF Outcomes, Unstarted
  <2> QED
    BY <1>0, <1>2, <2>1, AreaQuit
<1>3. ASSUME NEW pr \in BOOLEAN,
             ~card[t].receipt,
             card' = [card EXCEPT ![t].active = FALSE, ![t].receipt = TRUE],
             pend' = pend \cup {t},
             rec' = [rec EXCEPT ![t] =
                       Delivered(t, [E(t).r EXCEPT !.canceled = @ \/ rec[t].canceled,
                                                   !.pr = pr])],
             To(t, "check")
      PROVE  AllStand(t)
  <2> DEFINE r == [E(t).r EXCEPT !.canceled = @ \/ rec[t].canceled, !.pr = pr]
  <2>1. r \in Records /\ r.held
    BY <1>1 DEF Records, E
  <2> HIDE DEF r
  <2>2. rec'[t].held
    BY <1>1, <1>3, <2>1, RecoveredHeld DEF r, TypeOK
  <2>3. /\ exec'[t].pc = "check" /\ exec'[t].outcome = exec[t].outcome /\ exec'[t].r = exec[t].r
        /\ \A u \in Tasks \ {t} : exec'[u] = exec[u]
    BY <1>0, <1>1, <1>3, ToType DEF Places
  <2>4. exec[t].outcome = "unknown"
    BY <1>0, <1>1 DEF AreaInv, SettledInv, E, Reported
  <2>5. ~Locked(t)
    BY <1>3 DEF Locked, Ended
  <2>6. /\ card'[t].receipt = TRUE /\ card'[t].active = FALSE
        /\ card'[t].verdict = card[t].verdict /\ card'[t].applied = card[t].applied
    BY <1>1, <1>3 DEF TypeOK, Cards
  <2>7. SettledInv(t)'
    BY <1>0, <1>1, <2>3, <2>4, <2>5, <2>6
    DEF AreaInv, SettledInv, Ended, Publishing, E, Unstarted
  <2>8. HeldInv(t)'
    BY <1>0, <1>1, <2>2, <2>3 DEF AreaInv, HeldInv, Copied, Seen, E
  <2>9. \A u \in Tasks \ {t} : Same(u)
    BY <1>1, <1>3, <2>3 DEF Same, TypeOK
  <2> QED
    BY <1>0, <1>1, <2>2, <2>6, <2>7, <2>8, <2>9, AreaOthers DEF Stands, AreaInv
<1> QED
  BY <1>2, <1>3 DEF Deliver

LEMMA AreaEnd ==
  ASSUME AreasInv, NEW t \in Tasks, End(t)
  PROVE  AllStand(t)
<1>0. E(t).pc = "save" /\ UNCHANGED <<card, pend, sync, react>>
  BY DEF End, Alone
<1>1. /\ TypeOK /\ Busy(t) /\ AreaInv(t) /\ exec[t].r \in Records /\ rec[t].held
      /\ exec[t].r.attempt = rec[t].attempt /\ exec[t].r.held
      /\ exec[t].outcome \in Unstarted => rec[t].state = "running"
  BY <1>0, AreaRunning
<1>2. exec'[t] = Idle /\ \A u \in Tasks \ {t} : exec'[u] = exec[u]
  BY <1>1 DEF End, Step, TypeOK
<1>3. CASE UNCHANGED rec
  <2>1. Locked(t) => rec'[t].state \in Settled
    BY <1>3 DEF Locked
  <2> QED
    BY <1>0, <1>1, <1>2, <1>3, <2>1, ExecutionStands DEF Busy
<1>4. CASE E(t).outcome \in DOMAIN SaveState
  <2> DEFINE r == [E(t).r EXCEPT !.state = SaveState[E(t).outcome], !.snapshot = "none"]
  <2>1. Save(t, r)
    BY <1>4 DEF End
  <2>2. /\ SaveState[E(t).outcome] \in States
        /\ E(t).outcome \notin Unstarted => SaveState[E(t).outcome] = "unknown"
    BY <1>4 DEF SaveState, States, Settled, Unstarted
  <2>3. /\ r \in Records /\ r.held /\ r.attempt = rec[t].attempt
        /\ E(t).outcome \notin Unstarted => r.state = "unknown"
    BY <1>1, <2>2 DEF Records, E
  <2> HIDE DEF r
  <2>4. /\ rec'[t].state = r.state /\ rec'[t].attempt = r.attempt
        /\ rec'[t] = [r EXCEPT !.canceled = @ \/ rec[t].canceled]
        /\ \A u \in Tasks \ {t} : rec'[u] = rec[u]
    BY <1>1, <2>1, <2>3, SaveType
  <2>5. rec'[t].held = rec[t].held
    BY <1>1, <2>3, <2>4 DEF Records
  <2>6. Locked(t) => rec'[t].state \in Settled
    BY <1>1, <2>3, <2>4 DEF Locked, Settled, E
  <2> QED
    BY <1>0, <1>1, <1>2, <2>3, <2>4, <2>5, <2>6, ExecutionStands DEF Busy
<1> QED
  BY <1>3, <1>4 DEF End

(* A step that writes the record of t, and leaves its execution alone. *)
LEMMA AreaRecord ==
  ASSUME AreasInv, NEW t \in Tasks, NEW r \in Records, rec' = [rec EXCEPT ![t] = r],
         UNCHANGED <<card, exec>>, pend' \subseteq pend,
         sync' = sync \/ Pass(t),
         react' = react \/ react' = Deaf
           \/ (react'.pc = "returned" /\ react'.task = t /\ card[t].verdict # "verified"),
         r.held = rec[t].held,
         r.state \in {"running", "unknown"} => r.held,
         Busy(t) /\ exec[t].outcome \in Unstarted => r.state = "running",
         Locked(t) =>
            \/ r.state \in Settled /\ r.attempt = rec[t].attempt
            \/ react'.pc = "returned" /\ card[t].verdict # "verified"
  PROVE  AllStand(t)
<1>1. AreaInv(t) /\ TypeOK
  BY DEF AreasInv, Inv
<1>2. rec'[t] = r /\ \A u \in Tasks \ {t} : rec'[u] = rec[u]
  BY <1>1 DEF TypeOK
<1>3. SettledInv(t)'
  <2>1. Publishing(t)' => Publishing(t) /\ react' = react /\ react'.pc # "returned"
    BY DEF Publishing, Deaf
  <2>2. Locked(t) => Locked(t)' \/ (react'.pc = "returned" /\ card[t].verdict # "verified")
    BY <1>2 DEF Locked, Ended
  <2> QED
    BY <1>1, <1>2, <2>1, <2>2 DEF AreaInv, SettledInv, Busy, E, Ended
<1>4. HeldInv(t)'
  <2>1. CopyKept(t)
    BY <1>1, CopiesKept
  <2> QED
    BY <1>1, <1>2, <2>1 DEF AreaInv, HeldInv, CopyKept, Busy, E
<1>5. Stands(t)
  BY <1>2, <1>3, <1>4 DEF Stands, AreaInv
<1>6. \A u \in Tasks \ {t} : Same(u)
  BY <1>2 DEF Same
<1> QED
  BY <1>5, <1>6, AreaOthers

LEMMA AreaAdmission ==
  ASSUME AreasInv, NEW t \in Tasks, Pin(t) \/ Admit(t) \/ Cancel(t) \/ Return(t) \/ ReactEnd(t)
  PROVE  AllStand(t)
<1>1. /\ AreaInv(t) /\ TypeOK /\ RecordInv(t) /\ rec[t] \in Records
      /\ rec = [rec EXCEPT ![t] = rec[t]] /\ {} \in SUBSET AllWorkers
  BY DEF AreasInv, Inv, TypeOK, DispatchInv
<1>2. rec[t].state \in {"running", "unknown"} => rec[t].held
  BY <1>1 DEF AreaInv, HeldInv
<1>3. Busy(t) /\ exec[t].outcome \in Unstarted => rec[t].state = "running"
  BY <1>1 DEF AreaInv, SettledInv, E
<1>4. Locked(t) => rec[t].state \in Settled
  BY DEF Locked
<1>5. CASE Pin(t) \/ Admit(t)
  <2>1. PICK s \in {"admitting", "queued"} : rec' = [rec EXCEPT ![t] = [rec[t] EXCEPT !.state = s]]
    BY <1>5 DEF Pin, Admit
  <2> DEFINE r == [rec[t] EXCEPT !.state = s]
  <2>2. r \in Records /\ r.held = rec[t].held /\ r.state = s
    BY <1>1 DEF Records, States
  <2> HIDE DEF r
  <2>3. ~Busy(t) /\ ~Locked(t)
    BY <1>1, <1>5 DEF Pin, Admit, RecordInv, Locked, Settled
  <2>4. rec' = [rec EXCEPT ![t] = r] /\ UNCHANGED <<card, exec, pend, sync, react>>
    BY <1>5, <2>1 DEF Pin, Admit, r
  <2> QED
    BY <2>2, <2>3, <2>4, AreaRecord
<1>6. CASE Cancel(t)
  <2> DEFINE r == [rec[t] EXCEPT !.canceled = TRUE]
  <2>1. r \in Records /\ r.held = rec[t].held /\ r.state = rec[t].state /\ r.attempt = rec[t].attempt
    BY <1>1 DEF Records
  <2>2. rec' = [rec EXCEPT ![t] = r]
    BY <1>6 DEF Cancel
  <2> HIDE DEF r
  <2>3. UNCHANGED <<card, exec, pend, sync, react>>
    BY <1>6 DEF Cancel
  <2> QED
    BY <1>2, <1>3, <1>4, <2>1, <2>2, <2>3, AreaRecord
<1>7. CASE Return(t)
  <2> DEFINE r == [rec[t] EXCEPT !.state = "queued", !.returned = TRUE, !.tried = {},
                                 !.announced = FALSE, !.pr = FALSE]
  <2>1. r \in Records /\ r.held = rec[t].held /\ r.state = "queued"
    BY <1>1 DEF Records, States
  <2>2. rec' = [rec EXCEPT ![t] = r]
    BY <1>7 DEF Return
  <2> HIDE DEF r
  <2>3. ~(Busy(t) /\ exec[t].outcome \in Unstarted)
    BY <1>3, <1>7 DEF Return
  <2>4. react'.pc = "returned" /\ react'.task = t
    <3>1. react \in Reactions /\ react.task = t
      BY <1>1, <1>7 DEF Return, Publishing, TypeOK, Deaf
    <3> QED
      BY <1>7, <3>1 DEF Return, Reactions
  <2>5. card[t].verdict # "verified" /\ UNCHANGED <<card, exec, pend, sync>>
    BY <1>7 DEF Return
  <2> QED
    BY <2>1, <2>2, <2>3, <2>4, <2>5, AreaRecord
<1>8. CASE ReactEnd(t)
  <2>1. UNCHANGED <<card, exec, sync>> /\ react' = Deaf /\ pend' \subseteq pend
    BY <1>8 DEF ReactEnd
  <2>2. [rec[t] EXCEPT !.announced = TRUE] \in Records
        /\ [rec[t] EXCEPT !.announced = TRUE].held = rec[t].held
        /\ [rec[t] EXCEPT !.announced = TRUE].state = rec[t].state
        /\ [rec[t] EXCEPT !.announced = TRUE].attempt = rec[t].attempt
    BY <1>1 DEF Records
  <2>3. PICK r \in {rec[t], [rec[t] EXCEPT !.announced = TRUE]} : rec' = [rec EXCEPT ![t] = r]
    BY <1>1, <1>8 DEF ReactEnd
  <2> QED
    BY <1>1, <1>2, <1>3, <1>4, <2>1, <2>2, <2>3, AreaRecord
<1> QED
  BY <1>5, <1>6, <1>7, <1>8

(* A copy that is saved says what its record says of the area.             *)
LEMMA AreaCopy ==
  ASSUME AreasInv, NEW t \in Tasks, NEW r, CopyBack(t, r)
  PROVE  /\ rec'[t] \in Records /\ rec' = [rec EXCEPT ![t] = rec'[t]]
         /\ rec'[t].held = rec[t].held
         /\ rec'[t].state \in {"running", "unknown"} => rec[t].held
         /\ rec'[t].state \in Settled /\ rec'[t].attempt = rec[t].attempt
         /\ ~(Busy(t) /\ exec[t].outcome \in Unstarted)
         /\ r.held = rec[t].held
<1>1. AreaInv(t) /\ Inv /\ TypeOK
  BY DEF AreasInv, Inv
<1>2. /\ rec' \in [Tasks -> Records]
      /\ rec'[t].state = r.state /\ rec'[t].held = r.held
      /\ rec'[t].attempt = rec[t].attempt
      /\ \A u \in Tasks \ {t} : rec'[u] = rec[u]
      /\ rec[t].state \in Settled \cup {"queued"}
  BY <1>1, CopiedBack
<1>3. /\ r.state \in Settled /\ r.held = Seen(t).held
      /\ r.state = "unknown" => Seen(t).state = "unknown"
      /\ Seen(t).held = rec[t].held /\ (Seen(t).state = "unknown" => Seen(t).held)
  BY <1>1 DEF CopyBack, AreaInv, HeldInv
<1>4. rec' = [rec EXCEPT ![t] = rec'[t]]
  BY <1>1, <1>2 DEF TypeOK
<1>5. ~(Busy(t) /\ exec[t].outcome \in Unstarted)
  BY <1>1, <1>2 DEF AreaInv, SettledInv, E, Settled
<1> QED
  BY <1>2, <1>3, <1>4, <1>5 DEF Settled

LEMMA AreaPass ==
  ASSUME AreasInv, NEW t \in Tasks, Interrupted(t) \/ Refuse(t) \/ Notice(t) \/ Noticed(t)
  PROVE  AllStand(t)
<1>1. /\ AreaInv(t) /\ TypeOK /\ rec[t] \in Records
      /\ rec = [rec EXCEPT ![t] = rec[t]] /\ Pass(t)
      /\ UNCHANGED <<card, exec, pend, react>>
  BY DEF AreasInv, Inv, TypeOK, Pass, Interrupted, Refuse, Notice, Noticed, Onward
<1>2. rec[t].state \in {"running", "unknown"} => rec[t].held
  BY <1>1 DEF AreaInv, HeldInv
<1>3. Busy(t) /\ exec[t].outcome \in Unstarted => rec[t].state = "running"
  BY <1>1 DEF AreaInv, SettledInv, E
<1>4. Locked(t) => rec[t].state \in Settled
  BY DEF Locked
<1>5. CASE Interrupted(t)
  <2> DEFINE r == [rec[t] EXCEPT !.state = "unknown"]
  <2>1. r \in Records /\ r.held = rec[t].held /\ r.state = "unknown"
    BY <1>1 DEF Records, States, Settled
  <2>2. rec' = [rec EXCEPT ![t] = r]
    BY <1>5 DEF Interrupted
  <2> HIDE DEF r
  <2>3. rec[t].state = "running" /\ ~Busy(t) /\ ~Locked(t)
    BY <1>5 DEF Interrupted, Locked, Settled
  <2> QED
    BY <1>1, <1>2, <2>1, <2>2, <2>3, AreaRecord
<1>6. CASE rec' = rec
  BY <1>1, <1>2, <1>3, <1>4, <1>6, AreaRecord
<1>7. CASE \E r : CopyBack(t, r)
  <2>1. PICK r : CopyBack(t, r)
    BY <1>7
  <2> QED
    BY <1>1, <2>1, AreaCopy, AreaRecord
<1> QED
  BY <1>5, <1>6, <1>7, CopyBacks DEF AreasInv, Notice

LEMMA AreaBegin ==
  ASSUME AreasInv, NEW t \in Tasks, Observe(t) \/ Claim(t)
  PROVE  AllStand(t)
<1>1. /\ AreaInv(t) /\ TypeOK /\ rec[t] \in Records /\ epoch \in Nat
      /\ Seen(t) \in Records
      /\ UNCHANGED <<card, pend, react>> /\ Pass(t)
  BY SeenType DEF AreasInv, Inv, TypeOK, Observe, Claim, Onward, Pass
<1>2. ~Copied(t)'
  <2>1. exec[t] = Idle /\ exec'[t].pc = "prepare"
    BY <1>1 DEF Observe, Observable, Claim, Busy, Begin, TypeOK
  <2>2. ~Notice(t)
    BY <2>1 DEF Notice, Idle
  <2> QED
    BY <1>1, <2>2, SeenPassed, SeenNothing DEF Copied, Settled
<1>3. CASE Observe(t)
  <2> DEFINE r == [Seen(t) EXCEPT !.observed = epoch]
  <2>1. r.held = Seen(t).held
    BY <1>1 DEF Records
  <2>2. Save(t, r) /\ Begin(t, r, "unknown", TRUE) /\ Seen(t).state = "unknown"
    BY <1>3 DEF Observe, Observable
  <2> HIDE DEF r
  <2>3. PICK q : CopyBack(t, q)
    BY <1>3, CopyBacks DEF AreasInv
  <2>4. Copied(t) /\ Seen(t).held = rec[t].held /\ rec[t].held
    BY <1>1, <2>2, <2>3 DEF CopyBack, AreaInv, HeldInv
  <2>5. /\ rec'[t].held = rec[t].held /\ rec'[t].state \in Settled
        /\ rec'[t].attempt = rec[t].attempt
        /\ rec' = [rec EXCEPT ![t] = rec'[t]]
    BY <2>3, AreaCopy
  <2>6. /\ exec'[t].r = r /\ exec'[t].outcome = "unknown"
        /\ exec'[t].pc = "prepare"
        /\ \A u \in Tasks \ {t} : rec'[u] = rec[u] /\ exec'[u] = exec[u]
    BY <1>1, <2>2, <2>5 DEF Begin, TypeOK
  <2>7. HeldInv(t)'
    BY <1>2, <2>1, <2>4, <2>5, <2>6 DEF HeldInv, E
  <2>8. SettledInv(t)'
    BY <1>1, <2>5, <2>6
    DEF AreaInv, SettledInv, E, Reported, Unstarted, Locked, Ended, Publishing
  <2>9. \A u \in Tasks \ {t} : Same(u)
    BY <1>1, <2>6 DEF Same
  <2> QED
    BY <1>1, <2>5, <2>7, <2>8, <2>9, AreaOthers DEF Stands, AreaInv
<1>4. CASE Claim(t)
  <2> DEFINE r == [rec[t] EXCEPT !.state = "running", !.held = TRUE]
  <2>1. r.held /\ r.state = "running"
    BY <1>1 DEF Records
  <2>2. rec' = [rec EXCEPT ![t] = r] /\ Begin(t, r, "finished", FALSE)
    BY <1>4 DEF Claim
  <2> HIDE DEF r
  <2>3. ~Locked(t)
    BY <1>4 DEF Claim, Locked, Settled
  <2>4. /\ rec'[t] = r /\ exec'[t].r = r /\ exec'[t].observing = FALSE
        /\ exec'[t].pc = "prepare"
        /\ \A u \in Tasks \ {t} : rec'[u] = rec[u] /\ exec'[u] = exec[u]
    BY <1>1, <2>2 DEF Begin, TypeOK
  <2>5. HeldInv(t)'
    BY <1>2, <2>1, <2>4 DEF HeldInv, E
  <2>6. SettledInv(t)'
    BY <1>1, <2>1, <2>3, <2>4 DEF AreaInv, SettledInv, E, Reported, Ended, Publishing
  <2>7. \A u \in Tasks \ {t} : Same(u)
    BY <1>1, <2>4 DEF Same
  <2> QED
    BY <1>1, <1>4, <2>5, <2>6, <2>7, AreaOthers DEF Stands, AreaInv
<1> QED
  BY <1>3, <1>4

(* The reaction, the merge and the worker itself. *)
LEMMA AreaReaction ==
  ASSUME AreasInv, NEW t \in Tasks,
         WorkEnds(t) \/ ReactAck(t) \/ ReactPublish(t) \/ Judge(t) \/ Apply(t)
  PROVE  AllStand(t)
<1>1. /\ AreaInv(t) /\ TypeOK /\ card[t] \in Cards /\ UNCHANGED <<rec, exec, sync>>
      /\ pend' \subseteq pend
  BY DEF AreasInv, Inv, TypeOK, WorkEnds, ReactAck, ReactPublish, Judge, Apply
<1>2. HeldInv(t)'
  BY <1>1 DEF AreaInv, HeldInv, Busy, E, Copied, Seen
<1>3. CASE WorkEnds(t) \/ ReactAck(t)
  <2>1. UNCHANGED <<card, react>>
    BY <1>3 DEF WorkEnds, ReactAck
  <2>2. SettledInv(t)'
    BY <1>1, <2>1 DEF AreaInv, SettledInv, Busy, E, Ended, Locked, Publishing
  <2> QED
    BY <1>1, <1>2, <2>1, <2>2, AreaOthers DEF Stands, AreaInv, Same
<1>4. CASE ReactPublish(t)
  <2>1. UNCHANGED card /\ react'.pc = "publish" /\ react'.task = t /\ Locked(t)
    BY <1>1, <1>4 DEF ReactPublish, AreaInv, SettledInv, Locked
  <2>2. SettledInv(t)'
    BY <1>1, <2>1 DEF AreaInv, SettledInv, Busy, E, Ended, Locked
  <2> QED
    BY <1>1, <1>2, <2>1, <2>2, AreaOthers DEF Stands, AreaInv, Same
<1>5. CASE Judge(t) \/ Apply(t)
  <2>1. UNCHANGED react /\ \A u \in Tasks \ {t} : card'[u] = card[u]
    BY <1>1, <1>5 DEF Judge, Apply, TypeOK
  <2>2. /\ card'[t].run = card[t].run /\ card'[t].receipt = card[t].receipt
        /\ card'[t].active = card[t].active
        /\ card[t].applied => card'[t].applied
        /\ card'[t].verdict = "verified" => Locked(t)
        /\ card'[t].applied => card'[t].verdict = "verified"
    <3>1. CASE Judge(t)
      <4>1. PICK v \in {"verified", "needs_changes"} : card' = [card EXCEPT ![t].verdict = v]
        BY <3>1 DEF Judge
      <4>2. Locked(t) /\ ~card[t].applied
        BY <1>1, <3>1 DEF Judge, AreaInv, SettledInv
      <4> QED
        BY <1>1, <4>1, <4>2 DEF TypeOK, Cards
    <3>2. CASE Apply(t)
      BY <1>1, <3>2 DEF Apply, TypeOK, Cards, AreaInv, SettledInv
    <3> QED
      BY <1>5, <3>1, <3>2
  <2>3. SettledInv(t)'
    BY <1>1, <2>1, <2>2 DEF AreaInv, SettledInv, Busy, E, Ended, Locked, Publishing
  <2> QED
    BY <1>1, <1>2, <2>1, <2>2, <2>3, AreaOthers DEF Stands, AreaInv, Same
<1> QED
  BY <1>3, <1>4, <1>5

LEMMA AreaRestart ==
  ASSUME AreasInv, Restart
  PROVE  \A u \in Tasks : Stands(u)
<1> SUFFICES ASSUME NEW u \in Tasks PROVE Stands(u)
  OBVIOUS
<1>1. /\ AreaInv(u) /\ TypeOK /\ UNCHANGED <<card, pend>>
      /\ exec'[u] = Idle /\ sync' = Resting /\ react' = Deaf
  BY DEF AreasInv, Inv, Restart
<1>2. /\ rec[u] \in Records
      /\ rec'[u] = IF rec[u].state = "running" THEN [rec[u] EXCEPT !.state = "unknown"] ELSE rec[u]
  BY <1>1 DEF Restart, TypeOK
<1>3. /\ rec'[u].held = rec[u].held /\ rec'[u].attempt = rec[u].attempt
      /\ rec'[u].state \in {"running", "unknown"} => rec[u].held
      /\ rec[u].state \in Settled => rec'[u].state \in Settled
  BY <1>1, <1>2 DEF Records, Settled, AreaInv, HeldInv
<1>4. SettledInv(u)'
  BY <1>1, <1>3 DEF AreaInv, SettledInv, Busy, Ended, Locked, Publishing, Deaf
<1>5. HeldInv(u)'
  BY <1>1, <1>3, SeenNothing DEF AreaInv, HeldInv, Busy, Copied, Settled
<1> QED
  BY <1>1, <1>3, <1>4, <1>5 DEF Stands, AreaInv

LEMMA AreaIdle ==
  ASSUME AreasInv, UNCHANGED vars \/ ReactFails
  PROVE  \A u \in Tasks : Stands(u)
<1>1. /\ UNCHANGED <<rec, card, pend, sync, exec>>
      /\ react' = react \/ react' = Deaf
  BY DEF vars, state, ReactFails
<1> QED
  BY <1>1, AreaFrame DEF AreasInv, Same, CopyKept, Copied, Seen

(* A new list says what the records say. *)
LEMMA AreaList ==
  ASSUME AreasInv, List
  PROVE  \A u \in Tasks : Stands(u)
<1> SUFFICES ASSUME NEW u \in Tasks PROVE Stands(u)
  OBVIOUS
<1>1. AreaInv(u) /\ Seen(u)' = rec[u] /\ UNCHANGED <<rec, card, pend, exec, react>>
  BY SeenListed DEF AreasInv, Inv, List
<1>2. HeldInv(u)'
  BY <1>1 DEF AreaInv, HeldInv, Busy, E
<1>3. SettledInv(u)'
  BY <1>1 DEF AreaInv, SettledInv, Busy, E, Ended, Locked, Publishing
<1> QED
  BY <1>1, <1>2, <1>3 DEF Stands, AreaInv

(* An execution that is not under way takes no step. *)
LEMMA ExecuteStep ==
  ASSUME NEW t, Execute(t)
  PROVE  \/ Turned(t) \/ Prepare(t) \/ Reserve(t) \/ Unserved(t) \/ Withheld(t)
         \/ NeedsSignIn(t) \/ Launch(t) \/ Bind(t) \/ StartRun(t) \/ Break(t) \/ Expire(t)
         \/ HearCancel(t) \/ StopExpired(t) \/ QuotaStop(t) \/ TurnEnds(t)
         \/ ReadTurn(t) \/ Unread(t) \/ Deliver(t) \/ Check(t) \/ Close(t) \/ End(t)
BY DEF Execute, Proceed

LEMMA StepStands ==
  ASSUME AreasInv, [Next]_vars
  PROVE  \A u \in Tasks : Stands(u)
<1>1. CASE Restart \/ ReactFails \/ List \/ UNCHANGED vars
  BY <1>1, AreaRestart, AreaIdle, AreaList
<1>2. ASSUME NEW t \in Tasks,
             \/ Pin(t) \/ Admit(t) \/ Cancel(t) \/ Pass(t) \/ Execute(t)
             \/ WorkEnds(t) \/ Reaction(t) \/ Apply(t)
      PROVE  AllStand(t)
  <2>1. CASE Execute(t)
    BY <2>1, ExecuteStep, AreaChoose, AreaWork, AreaCard, AreaDeliver, AreaEnd
  <2>2. CASE Pass(t)
    BY <2>2, AreaPass, AreaBegin DEF Pass
  <2>3. CASE ~Execute(t) /\ ~Pass(t)
    BY <1>2, <2>3, AreaAdmission, AreaReaction DEF Reaction
  <2> QED
    BY <2>1, <2>2, <2>3
<1>3. ASSUME NEW t \in Tasks, AllStand(t)
      PROVE  \A u \in Tasks : Stands(u)
  BY <1>3 DEF AllStand
<1> QED
  BY <1>1, <1>2, <1>3 DEF Next

(* Two areas that meet are never claimed in one step, so the one that was  *)
(* claimed first kept the other out until its result was applied.          *)
LEMMA ClaimedAlone ==
  ASSUME AreasInv, NEW t \in Tasks, NEW u \in Tasks, {t, u} \in Overlaps,
         Claim(t), rec'[u].held
  PROVE  card[u].applied
<1>1. t # u
  <2>1. Cardinality({t}) = 1
    BY FS_Singleton
  <2>2. Cardinality({t, u}) = 2
    BY TasksAssumption
  <2> QED
    BY <2>1, <2>2
<1>2. rec'[u] = rec[u]
  BY <1>1 DEF Claim, AreasInv, Inv, TypeOK
<1>3. Held(u)
  BY <1>2 DEF Held
<1> QED
  BY <1>1, <1>3 DEF Claim, AreaFree

LEMMA AreasStep ==
  ASSUME AreasInv, [Next]_vars
  PROVE  AreasInv'
<1>1. \A u \in Tasks : Stands(u)
  BY StepStands
<1>2. Inv'
  BY StepInv DEF AreasInv
<1>3. ASSUME NEW t \in Tasks, NEW u \in Tasks, {t, u} \in Overlaps,
             rec'[t].held, rec'[u].held
      PROVE  card'[t].applied \/ card'[u].applied
  <2>1. /\ rec[t].held \/ Claim(t)
        /\ rec[u].held \/ Claim(u)
        /\ card[t].applied => card'[t].applied
        /\ card[u].applied => card'[u].applied
    BY <1>1, <1>3 DEF Stands
  <2>2. CASE Claim(t)
    BY <1>3, <2>1, <2>2, ClaimedAlone
  <2>3. CASE Claim(u)
    <3>1. {u, t} = {t, u}
      OBVIOUS
    <3>2. {u, t} \in Overlaps
      BY <1>3, <3>1
    <3> QED
      BY <1>3, <2>1, <2>3, <3>2, ClaimedAlone
  <2>4. CASE rec[t].held /\ rec[u].held
    BY <1>3, <2>1, <2>4 DEF AreasInv, AreaLease
  <2> QED
    BY <2>1, <2>2, <2>3, <2>4
<1>4. AreaLease' /\ \A u \in Tasks : AreaInv(u)'
  BY <1>1, <1>3 DEF AreaLease, Stands
<1> QED
  BY <1>2, <1>4 DEF AreasInv

LEMMA AreasInit ==
  ASSUME Init
  PROVE  AreasInv
<1>1. Inv
  BY InitInv
<1>2. ASSUME NEW t \in Tasks
      PROVE  AreaInv(t) /\ ~rec[t].held
  BY <1>2 DEF Init, Resting, Nothing, Seen, Copied, Settled, NoRecord, NewCard, AreaInv,
              SettledInv, HeldInv, Busy, Publishing, Deaf
<1> QED
  BY <1>1, <1>2 DEF AreasInv, AreaLease

(* Of two tasks whose areas meet, the second is handed to a worker only    *)
(* when what the first one made is applied (claim in choice.go).           *)
THEOREM DispatchArea == Spec => []AreaLease
<1>1. Spec => []AreasInv
  BY AreasInit, AreasStep, PTL DEF Spec
<1>2. AreasInv => AreaLease
  BY DEF AreasInv
<1> QED
  BY <1>1, <1>2, PTL

-----------------------------------------------------------------------------
(* Turns.  What a task may still spend is written on its record: a round   *)
(* has two workers, a recovery and a return begin a round, and the run of  *)
(* the card never passes the attempt of the record.  A worker at work is   *)
(* given an area, and its run has no receipt.                              *)

Rounds(r) == r.recoveries + (IF r.returned THEN 1 ELSE 0)
Allowed(r) ==
    /\ IsFiniteSet(r.tried) /\ Cardinality(r.tried) <= 2
    /\ r.attempt <= 2 * Rounds(r) + Cardinality(r.tried)

Prelude == {"launch", "bind", "start"}

SpendInv(t) ==
    /\ card[t].run <= rec[t].attempt
    /\ Allowed(rec[t])
    /\ Busy(t) => Allowed(E(t).r)
    /\ Copied(t) => Allowed(Seen(t))
    /\ Busy(t) /\ E(t).pc \in Prelude => rec[t].attempt = card[t].run + 1
WriterInv(t) ==
    turn[t].state = "busy" =>
        rec[t].held /\ ~(card[t].receipt /\ rec[t].attempt = card[t].run)
TurnInv(t) == SpendInv(t) /\ WriterInv(t)
TurnsInv == AreasInv /\ \A t \in Tasks : TurnInv(t)

LEMMA AllowedSame ==
  ASSUME NEW r, NEW q, Allowed(q), SameCost(r, q)
  PROVE  Allowed(r)
BY DEF Allowed, SameCost, Rounds

(* A step of another task. *)
LEMMA TurnOther ==
  ASSUME NEW u \in Tasks, TurnInv(u), Same(u), turn'[u] = turn[u], CopyKept(u)
  PROVE  TurnInv(u)'
BY DEF TurnInv, SpendInv, WriterInv, Same, CopyKept, Busy, E

(* A step of t that keeps its card's run and starts no worker. *)
LEMMA TurnFrame ==
  ASSUME TurnsInv, NEW t \in Tasks, Stands(t),
         card'[t].run = card[t].run, card'[t].receipt = card[t].receipt,
         SameCost(rec'[t], rec[t]) \/ (Busy(t) /\ SameCost(rec'[t], exec[t].r))
           \/ (rec'[t].attempt = rec[t].attempt /\ Allowed(rec'[t])),
         Busy(t)' =>
           \/ /\ Busy(t) /\ SameCost(exec'[t].r, exec[t].r)
              /\ exec'[t].pc \in Prelude => exec[t].pc \in Prelude
           \/ /\ SameCost(exec'[t].r, rec[t]) \/ Allowed(exec'[t].r)
              /\ exec'[t].pc \notin Prelude,
         CopyKept(t),
         turn'[t].state = "busy" => turn[t].state = "busy"
  PROVE  TurnInv(t)'
<1>1. SpendInv(t) /\ WriterInv(t) /\ TypeOK /\ RecordInv(t)
  BY DEF TurnsInv, TurnInv, AreasInv, Inv, DispatchInv
<1>2. rec'[t].attempt = rec[t].attempt
  BY <1>1 DEF RecordInv, E, SameCost
<1>3. Allowed(rec'[t])
  BY <1>1, AllowedSame DEF SpendInv, E
<1>4. Busy(t)' => Allowed(exec'[t].r)
  BY <1>1, AllowedSame DEF SpendInv, E
<1>5. Copied(t)' => Allowed(Seen(t)')
  BY <1>1 DEF SpendInv, CopyKept
<1>6. Busy(t)' /\ exec'[t].pc \in Prelude => rec'[t].attempt = card'[t].run + 1
  BY <1>1, <1>2 DEF SpendInv, E
<1>7. rec[t].held => rec'[t].held
  <2>1. CASE Claim(t)
    BY <1>1, <2>1 DEF Claim, TypeOK, Records
  <2> QED
    BY <2>1 DEF Stands
<1>8. WriterInv(t)'
  BY <1>1, <1>2, <1>7 DEF WriterInv
<1> QED
  BY <1>1, <1>2, <1>3, <1>4, <1>5, <1>6, <1>8 DEF TurnInv, SpendInv, E

(* A step of a task leaves the others alone. *)
LEMMA Elsewhere ==
  ASSUME TypeOK, NEW t \in Tasks, NEW u \in Tasks \ {t},
         \/ Pin(t) \/ Admit(t) \/ Cancel(t) \/ Pass(t) \/ Execute(t)
         \/ WorkEnds(t) \/ Reaction(t) \/ Apply(t)
  PROVE  Same(u) /\ turn'[u] = turn[u] /\ CopyKept(u)
<1> SUFFICES Same(u) /\ turn'[u] = turn[u] /\ (sync' = sync \/ Pass(t))
  BY CopiesKept
<1>1. ASSUME NEW r, Save(t, r)
      PROVE  rec'[u] = rec[u]
  BY <1>1 DEF Save, TypeOK
<1>2. ASSUME NEW e, Step(t, e)
      PROVE  exec'[u] = exec[u]
  BY <1>2 DEF Step, TypeOK
<1>3. Cut(t) => turn'[u] = turn[u]
  BY DEF Cut, TypeOK
<1>4. CASE Pin(t) \/ Admit(t) \/ Cancel(t) \/ WorkEnds(t) \/ Apply(t)
  BY <1>4 DEF Pin, Admit, Cancel, WorkEnds, Apply, Same, TypeOK
<1>5. CASE Pass(t)
  <2>1. rec'[u] = rec[u]
    BY <1>1, <1>5
    DEF Pass, Interrupted, Observe, Refuse, Claim, Notice, Noticed, TypeOK
  <2>2. /\ exec'[u] = exec[u] /\ card'[u] = card[u] /\ turn'[u] = turn[u]
        /\ pend' = pend
    BY <1>5 DEF Pass, Interrupted, Observe, Refuse, Claim, Notice, Noticed, Onward, Begin, TypeOK
  <2> QED
    BY <1>5, <2>1, <2>2 DEF Same
<1>6. CASE Reaction(t)
  BY <1>6 DEF Reaction, ReactAck, ReactPublish, Judge, Return, ReactEnd, Same, TypeOK
<1>7. CASE Turned(t) \/ Prepare(t) \/ Reserve(t) \/ Unserved(t) \/ Withheld(t) \/ NeedsSignIn(t)
  BY <1>1, <1>2, <1>7
  DEF Turned, Prepare, Reserve, Unserved, Withheld, NeedsSignIn, To, Quit, Alone, Same
<1>8. CASE Bind(t) \/ Break(t) \/ Expire(t) \/ HearCancel(t) \/ StopExpired(t) \/ TurnEnds(t)
  BY <1>1, <1>2, <1>3, <1>8
  DEF Bind, Break, Expire, HearCancel, StopExpired, TurnEnds, Quit, Alone, Same
<1>9. CASE Unread(t) \/ Check(t) \/ Close(t) \/ End(t)
  BY <1>1, <1>2, <1>3, <1>9 DEF Unread, Check, Close, End, To, Quit, Alone, Same
<1>10. CASE Launch(t)
  BY <1>2, <1>10 DEF Launch, Quit, Alone, Same, TypeOK
<1>11. CASE StartRun(t) \/ ReadTurn(t)
  BY <1>2, <1>11, NextRunType DEF StartRun, ReadTurn, NextRun, To, Same
<1>12. CASE QuotaStop(t)
  BY <1>2, <1>12 DEF QuotaStop, Alone, Same, TypeOK
<1>13. CASE Deliver(t)
  BY <1>2, <1>13 DEF Deliver, Quit, To, Same, TypeOK
<1> QED
  BY <1>4, <1>5, <1>6, <1>7, <1>8, <1>9, <1>10, <1>11, <1>12, <1>13, ExecuteStep

LEMMA TurnRecord ==
  ASSUME TurnsInv, NEW t \in Tasks, Stands(t),
         Pin(t) \/ Admit(t) \/ Cancel(t) \/ Pass(t)
  PROVE  TurnInv(t)'
<1>1. /\ TypeOK /\ rec[t] \in Records /\ RecordInv(t)
      /\ UNCHANGED <<card, turn>>
  BY DEF TurnsInv, AreasInv, Inv, DispatchInv, TypeOK, Pin, Admit, Cancel, Pass, Interrupted,
         Observe, Refuse, Claim, Notice, Noticed, Onward
<1>2. CopyKept(t)
  BY <1>1, CopiesKept DEF Pin, Admit, Cancel
<1>3. CASE Pin(t) \/ Admit(t) \/ Cancel(t) \/ Interrupted(t)
  <2>1. SameCost(rec'[t], rec[t]) /\ exec' = exec
    BY <1>1, <1>3 DEF Pin, Admit, Cancel, Interrupted, TypeOK, Records, SameCost
  <2> QED
    BY <1>1, <1>2, <2>1, TurnFrame DEF Busy, SameCost
<1>4. CASE Claim(t)
  <2>1. SameCost([rec[t] EXCEPT !.state = "running", !.held = TRUE], rec[t])
    BY <1>1 DEF Records, SameCost
  <2>2. /\ SameCost(rec'[t], rec[t]) /\ SameCost(exec'[t].r, rec[t])
        /\ exec'[t].pc = "prepare"
    BY <1>1, <1>4, <2>1 DEF Claim, Begin, TypeOK
  <2> QED
    BY <1>1, <1>2, <2>2, TurnFrame DEF Prelude
<1>5. CASE rec' = rec /\ exec' = exec
  BY <1>1, <1>2, <1>5, TurnFrame DEF Busy, SameCost
<1>6. CASE \E r : CopyBack(t, r)
  <2>1. PICK r : CopyBack(t, r)
    BY <1>6
  <2>2. /\ rec'[t].attempt = rec[t].attempt /\ SameCost(rec'[t], r)
        /\ SameCost(r, Seen(t)) /\ Copied(t)
    BY <2>1, CopiedBack DEF TurnsInv, AreasInv, CopyBack
  <2>3. Allowed(Seen(t)) /\ Allowed(rec'[t])
    BY <2>2, AllowedSame DEF TurnsInv, TurnInv, SpendInv
  <2>4. CASE exec' = exec
    BY <1>1, <1>2, <2>2, <2>3, <2>4, TurnFrame DEF Busy, SameCost
  <2>5. CASE Observe(t)
    <3>1. Seen(t) \in Records
      BY <1>1, SeenType
    <3>2. SameCost([Seen(t) EXCEPT !.observed = epoch], Seen(t))
      BY <3>1 DEF Records, SameCost
    <3>3. exec'[t].r = [Seen(t) EXCEPT !.observed = epoch] /\ exec'[t].pc = "prepare"
      BY <1>1, <2>5 DEF Observe, Begin, TypeOK
    <3>4. Allowed(exec'[t].r)
      BY <2>3, <3>2, <3>3, AllowedSame
    <3> QED
      BY <1>1, <1>2, <2>2, <2>3, <3>3, <3>4, TurnFrame DEF Prelude
  <2>6. CASE ~Observe(t) /\ ~Claim(t)
    BY <1>3, <2>4, <2>6 DEF Pass, Refuse, Notice, Noticed
  <2> QED
    BY <1>4, <2>5, <2>6
<1>7. Refuse(t) \/ Notice(t) \/ Noticed(t) => exec' = exec
  BY DEF Refuse, Notice, Noticed
<1>8. Notice(t) => rec' = rec
  BY DEF Notice
<1>9. Refuse(t) \/ Observe(t) \/ (Noticed(t) /\ rec' # rec) => \E r : CopyBack(t, r)
  BY CopyBacks DEF TurnsInv, AreasInv
<1> QED
  BY <1>3, <1>4, <1>5, <1>6, <1>7, <1>8, <1>9 DEF Pass

LEMMA TurnReaction ==
  ASSUME TurnsInv, NEW t \in Tasks, Stands(t), WorkEnds(t) \/ Reaction(t) \/ Apply(t)
  PROVE  TurnInv(t)'
<1>1. /\ TypeOK /\ rec[t] \in Records /\ card[t] \in Cards
      /\ SpendInv(t) /\ WriterInv(t) /\ AreaInv(t)
      /\ UNCHANGED exec /\ CopyKept(t)
  BY CopyResting DEF TurnsInv, TurnInv, AreasInv, Inv, TypeOK, WorkEnds, Reaction, ReactAck, ReactPublish,
         Judge, Return, ReactEnd, Apply
<1>2. CASE ~Return(t)
  <2>1. card'[t].run = card[t].run /\ card'[t].receipt = card[t].receipt
    BY <1>1, <1>2
    DEF WorkEnds, Reaction, ReactAck, ReactPublish, Judge, ReactEnd, Apply, TypeOK, Cards
  <2>2. SameCost(rec'[t], rec[t])
    <3>1. SameCost(rec[t], rec[t]) /\ SameCost([rec[t] EXCEPT !.announced = TRUE], rec[t])
      BY <1>1 DEF Records, SameCost
    <3>2. rec'[t] \in {rec[t], [rec[t] EXCEPT !.announced = TRUE]}
      BY <1>1, <1>2
      DEF WorkEnds, Reaction, ReactAck, ReactPublish, Judge, ReactEnd, Apply, TypeOK
    <3> QED
      BY <3>1, <3>2
  <2>3. turn'[t].state = "busy" => turn[t].state = "busy"
    BY <1>1
    DEF WorkEnds, Reaction, ReactAck, ReactPublish, Judge, Return, ReactEnd, Apply, TypeOK
  <2> QED
    BY <1>1, <2>1, <2>2, <2>3, TurnFrame DEF Busy, SameCost
<1>3. CASE Return(t)
  <2>1. /\ rec'[t].attempt = rec[t].attempt /\ rec'[t].tried = {} /\ rec'[t].returned = TRUE
        /\ rec'[t].recoveries = rec[t].recoveries /\ UNCHANGED <<card, turn>>
        /\ rec[t].returned = FALSE
    BY <1>1, <1>3 DEF Return, TypeOK, Records
  <2>2. Allowed(rec'[t])
    <3>1. IsFiniteSet({}) /\ Cardinality({}) = 0
      BY FS_EmptySet
    <3>2. rec[t].attempt <= 2 * rec[t].recoveries + 2
      <4>1. /\ rec[t].attempt \in Int /\ rec[t].recoveries \in Int
            /\ Cardinality(rec[t].tried) \in Nat
        BY <1>1, FS_CardinalityType DEF Records, SpendInv, Allowed
      <4>2. /\ rec[t].attempt <= 2 * (rec[t].recoveries + 0) + Cardinality(rec[t].tried)
            /\ Cardinality(rec[t].tried) <= 2
        BY <1>1, <2>1 DEF SpendInv, Allowed, Rounds
      <4> QED
        BY <4>1, <4>2
    <3>3. 2 * Rounds(rec'[t]) + Cardinality(rec'[t].tried) = 2 * rec[t].recoveries + 2
      <4>1. rec[t].recoveries \in Int
        BY <1>1 DEF Records
      <4> QED
        BY <2>1, <3>1, <4>1 DEF Rounds
    <3> QED
      BY <2>1, <3>1, <3>2, <3>3 DEF Allowed
  <2> QED
    BY <1>1, <2>1, <2>2, TurnFrame DEF Busy, SameCost
<1> QED
  BY <1>2, <1>3

(* The steps of an execution that reserve, start, count and deliver nothing.*)
LEMMA TurnGoesOn ==
  ASSUME TurnsInv, NEW t \in Tasks, Stands(t),
         \/ Turned(t) \/ Prepare(t) \/ Unserved(t) \/ Withheld(t) \/ NeedsSignIn(t)
         \/ Bind(t) \/ Break(t) \/ Expire(t) \/ HearCancel(t) \/ StopExpired(t)
         \/ TurnEnds(t) \/ Unread(t) \/ Check(t) \/ Close(t) \/ End(t)
  PROVE  TurnInv(t)'
<1>0. AreasInv /\ E(t).pc # "idle" /\ UNCHANGED card /\ CopyKept(t)
  BY CopyResting DEF TurnsInv, Turned, Prepare, Unserved, Withheld, NeedsSignIn, Bind, Break, Expire,
         HearCancel, StopExpired, TurnEnds, Unread, Check, Close, End, Alone
<1>1. /\ TypeOK /\ Busy(t) /\ exec[t] \in Executions /\ exec[t].r \in Records
      /\ rec[t] \in Records /\ exec \in [Tasks -> Executions \cup {Idle}]
  BY <1>0, AreaRunning DEF TypeOK
<1>2. turn'[t].state = "busy" => turn[t].state = "busy"
  BY <1>1, CutType DEF Turned, Prepare, Unserved, Withheld, NeedsSignIn, Bind, Break, Expire,
         HearCancel, StopExpired, TurnEnds, Unread, Check, Close, End
<1>3. ASSUME NEW o, Quit(t, o) \/ To(t, "save")
      PROVE  SameCost(exec'[t].r, exec[t].r) /\ exec'[t].pc \notin Prelude
  BY <1>1, <1>3 DEF Quit, To, Step, E, Executions, SameCost, Prelude
<1>4. ASSUME NEW r \in Records, Save(t, r), SameCost(r, exec[t].r)
      PROVE  SameCost(rec'[t], exec[t].r)
  BY <1>1, <1>4 DEF Save, SameCost, TypeOK, Records
<1>5. CASE \/ Turned(t) \/ Unserved(t) \/ Withheld(t) \/ Break(t) \/ Expire(t)
           \/ StopExpired(t) \/ Unread(t) \/ Check(t)
  <2>1. UNCHANGED rec /\ SameCost(exec'[t].r, exec[t].r) /\ exec'[t].pc \notin Prelude
    BY <1>3, <1>5 DEF Turned, Unserved, Withheld, Break, Expire, StopExpired, Unread, Check
  <2> QED
    BY <1>0, <1>1, <1>2, <2>1, TurnFrame DEF SameCost
<1>6. CASE Prepare(t) \/ NeedsSignIn(t)
  <2>1. SameCost(exec'[t].r, exec[t].r) /\ exec'[t].pc \notin Prelude
    <3>1. CASE NeedsSignIn(t)
      BY <1>1, <3>1 DEF NeedsSignIn, Step, E, Executions, SameCost, Prelude
    <3>2. CASE Quit(t, E(t).outcome)
      BY <1>3, <3>2
    <3>3. CASE To(t, "observe") \/ To(t, "choose")
      BY <1>1, <3>3 DEF To, Step, E, Executions, SameCost, Prelude
    <3> QED
      BY <1>6, <3>1, <3>2, <3>3 DEF Prepare
  <2>2. SameCost(rec'[t], rec[t]) \/ SameCost(rec'[t], exec[t].r)
    BY <1>1, <1>4, <1>6 DEF Prepare, NeedsSignIn, E, SameCost
  <2> QED
    BY <1>0, <1>1, <1>2, <2>1, <2>2, TurnFrame
<1>7. CASE Bind(t)
  <2> DEFINE r == [E(t).r EXCEPT !.thread = TRUE, !.canceled = @ \/ rec[t].canceled]
  <2>1. r \in Records /\ SameCost(r, exec[t].r)
    BY <1>1 DEF Records, E, SameCost
  <2>2. Save(t, r) /\ Step(t, [E(t) EXCEPT !.pc = "start", !.r = r]) /\ exec[t].pc \in Prelude
    BY <1>7 DEF Bind, Prelude, E
  <2> HIDE DEF r
  <2>3. exec'[t].r = r
    BY <1>1, <2>2 DEF Step, E, Executions
  <2> QED
    BY <1>0, <1>1, <1>2, <1>4, <2>1, <2>2, <2>3, TurnFrame
<1>8. CASE HearCancel(t) \/ TurnEnds(t)
  <2>1. UNCHANGED rec
    BY <1>8 DEF HearCancel, TurnEnds
  <2>2. SameCost(exec'[t].r, exec[t].r) /\ exec'[t].pc \notin Prelude
    <3>1. CASE HearCancel(t)
      BY <1>1, <3>1 DEF HearCancel, Step, E, Executions, Records, SameCost, Prelude
    <3>2. CASE TurnEnds(t)
      BY <1>1, <3>2 DEF TurnEnds, Step, E, Executions, Records, SameCost, Prelude
    <3> QED
      BY <1>8, <3>1, <3>2
  <2> QED
    BY <1>0, <1>1, <1>2, <2>1, <2>2, TurnFrame DEF SameCost
<1>9. CASE Close(t)
  <2>1. UNCHANGED rec
    BY <1>9 DEF Close
  <2>2. SameCost(exec'[t].r, exec[t].r) /\ exec'[t].pc \notin Prelude
    BY <1>1, <1>3, <1>9 DEF Close, Step, E, Executions, SameCost, Prelude
  <2> QED
    BY <1>0, <1>1, <1>2, <2>1, <2>2, TurnFrame DEF SameCost
<1>10. CASE End(t)
  <2>1. ~Busy(t)'
    BY <1>1, <1>10 DEF End, Step, Busy
  <2>2. CASE UNCHANGED rec
    BY <1>0, <1>1, <1>2, <2>1, <2>2, TurnFrame DEF SameCost
  <2>3. CASE E(t).outcome \in DOMAIN SaveState
    <3> DEFINE s == SaveState[E(t).outcome]
               r == [E(t).r EXCEPT !.state = s, !.snapshot = "none"]
    <3>1. s \in States
      BY <2>3 DEF SaveState, States, Settled
    <3>2. r \in Records /\ SameCost(r, exec[t].r)
      BY <1>1, <3>1 DEF Records, E, SameCost
    <3>3. Save(t, r)
      BY <1>10, <2>3 DEF End
    <3> HIDE DEF r
    <3> QED
      BY <1>0, <1>1, <1>2, <1>4, <2>1, <3>2, <3>3, TurnFrame
  <2> QED
    BY <1>10, <2>2, <2>3 DEF End
<1> QED
  BY <1>5, <1>6, <1>7, <1>8, <1>9, <1>10

LEMMA TurnReserved ==
  ASSUME TurnsInv, NEW t \in Tasks, Stands(t), Reserve(t)
  PROVE  TurnInv(t)'
<1>0. AreasInv /\ E(t).pc # "idle" /\ E(t).pc = "choose" /\ UNCHANGED <<card, sync, turn>>
  BY DEF TurnsInv, Reserve, Alone
<1>1. /\ TypeOK /\ Busy(t) /\ TaskInv(t) /\ exec[t] \in Executions /\ exec[t].r \in Records
      /\ rec[t] \in Records /\ card[t] \in Cards
      /\ exec[t].r.attempt = rec[t].attempt
      /\ exec \in [Tasks -> Executions \cup {Idle}]
  BY <1>0, AreaRunning DEF TypeOK
<1>2. Allowed(exec[t].r) /\ card[t].run <= rec[t].attempt
  BY <1>1 DEF TurnsInv, TurnInv, SpendInv, E
<1>3. PICK w \in Workers[t] \ E(t).r.tried :
        LET r == [E(t).r EXCEPT !.worker = w, !.tried = @ \cup {w}, !.thread = FALSE,
                                !.snapshot = "none", !.attempt = card[t].run + 1]
        IN Save(t, r) /\ Step(t, [E(t) EXCEPT !.pc = "launch", !.r = r])
  BY DEF Reserve
<1> DEFINE r == [E(t).r EXCEPT !.worker = w, !.tried = @ \cup {w}, !.thread = FALSE,
                               !.snapshot = "none", !.attempt = card[t].run + 1]
<1>4. Save(t, r) /\ Step(t, [E(t) EXCEPT !.pc = "launch", !.r = r])
  BY <1>3
<1>5. /\ r.tried = exec[t].r.tried \cup {w} /\ r.attempt = card[t].run + 1
      /\ r.recoveries = exec[t].r.recoveries /\ r.returned = exec[t].r.returned
      /\ w \in AllWorkers
  BY <1>1 DEF Records, E, AllWorkers
<1>6. r \in Records
  <2>1. card[t].run + 1 \in Nat
    <3>1. card[t].run \in Nat
      BY <1>1 DEF Cards
    <3> QED
      BY <3>1
  <2> QED
    BY <1>1, <1>5, <2>1 DEF Records, E
<1> HIDE DEF r
<1>7. Allowed(r)
  <2> DEFINE n == Cardinality(exec[t].r.tried)
             m == 2 * Rounds(exec[t].r)
  <2>1. /\ IsFiniteSet(r.tried) /\ Cardinality(r.tried) = n + 1
        /\ n \in Nat
    <3>1. w \notin exec[t].r.tried
      BY DEF E
    <3> QED
      BY <1>2, <1>5, <3>1, FS_AddElement, FS_CardinalityType DEF Allowed
  <2>2. n < 2
    BY DEF Reserve, E
  <2>3. /\ m \in Int /\ 2 * Rounds(r) = m
        /\ card[t].run \in Int /\ rec[t].attempt \in Int
    <3>1. exec[t].r.recoveries \in Int /\ card[t].run \in Int /\ rec[t].attempt \in Int
      <4>1. /\ exec[t].r.recoveries \in 0 .. 1 /\ card[t].run \in Nat
            /\ rec[t].attempt \in Nat
        BY <1>1 DEF Records, Cards
      <4> QED
        BY <4>1
    <3>2. Rounds(exec[t].r) \in Int
      BY <3>1 DEF Rounds
    <3> QED
      BY <1>5, <3>1, <3>2 DEF Rounds
  <2>4. rec[t].attempt <= m + n
    BY <1>1, <1>2 DEF Allowed
  <2> HIDE DEF n, m
  <2>5. Cardinality(r.tried) <= 2 /\ card[t].run + 1 <= m + Cardinality(r.tried)
    BY <1>2, <2>1, <2>2, <2>3, <2>4
  <2> QED
    BY <1>5, <2>1, <2>3, <2>5 DEF Allowed
<1>8. SameCost(rec'[t], r) /\ rec'[t].attempt = card[t].run + 1
  BY <1>1, <1>4, <1>5, <1>6 DEF Save, TypeOK, Records, SameCost
<1>9. exec'[t].r = r
  BY <1>1, <1>4 DEF Step, E, Executions
<1>10. Allowed(rec'[t])
  BY <1>7, <1>8, AllowedSame
<1>11. CopyKept(t)
  BY <1>0, CopyResting
<1>12. turn'[t].state # "busy"
  BY <1>0, <1>1 DEF TaskInv, FenceInv, Uncertain
<1>13. card[t].run <= card[t].run + 1
  <2>1. card[t].run \in Nat
    BY <1>1 DEF Cards
  <2> QED
    BY <2>1
<1> QED
  BY <1>0, <1>7, <1>8, <1>9, <1>10, <1>11, <1>12, <1>13
  DEF TurnsInv, TurnInv, SpendInv, WriterInv, CopyKept, E

LEMMA TurnBegun ==
  ASSUME TurnsInv, NEW t \in Tasks, Stands(t), Launch(t)
  PROVE  TurnInv(t)'
<1>0. AreasInv /\ E(t).pc # "idle" /\ exec[t].pc \in Prelude /\ UNCHANGED <<rec, card, sync>>
  BY DEF TurnsInv, Launch, Alone, E, Prelude
<1>1. /\ TypeOK /\ Busy(t) /\ exec[t] \in Executions /\ rec[t].held /\ card[t] \in Cards
      /\ exec \in [Tasks -> Executions \cup {Idle}]
  BY <1>0, AreaRunning DEF TypeOK
<1>2. SpendInv(t) /\ rec[t].attempt = card[t].run + 1
  BY <1>0, <1>1 DEF TurnsInv, TurnInv, SpendInv, E
<1>3. rec[t].attempt # card[t].run
  <2>1. card[t].run \in Nat
    BY <1>1 DEF Cards
  <2> QED
    BY <1>2, <2>1
<1>4. exec'[t].r = exec[t].r
  BY <1>1 DEF Launch, Quit, Step, E, Executions
<1>5. CopyKept(t)
  BY <1>0, CopyResting
<1> QED
  BY <1>0, <1>1, <1>2, <1>3, <1>4, <1>5 DEF TurnInv, SpendInv, WriterInv, CopyKept, E

(* The runs that are counted are of attempts that were reserved. *)
LEMMA TurnCounted ==
  ASSUME TurnsInv, NEW t \in Tasks, Stands(t), StartRun(t) \/ QuotaStop(t) \/ ReadTurn(t)
  PROVE  TurnInv(t)'
<1>0. /\ AreasInv /\ E(t).pc # "idle" /\ UNCHANGED <<rec, turn>> /\ CopyKept(t)
      /\ SpendInv(t) /\ WriterInv(t)
  BY CopyResting DEF TurnsInv, TurnInv, StartRun, QuotaStop, ReadTurn, NextRun, Alone
<1>1. /\ TypeOK /\ Busy(t) /\ exec[t] \in Executions /\ exec[t].r \in Records
      /\ rec[t] \in Records /\ card[t] \in Cards
      /\ exec[t].r.attempt = rec[t].attempt
      /\ exec \in [Tasks -> Executions \cup {Idle}] /\ card \in [Tasks -> Cards]
  BY <1>0, AreaRunning DEF TypeOK
<1>2. exec'[t].r.attempt = exec[t].r.attempt /\ SameCost(exec'[t].r, exec[t].r)
      /\ exec'[t].pc \notin Prelude
  <2>1. CASE StartRun(t)
    BY <1>1, <2>1 DEF StartRun, To, Step, E, Executions, SameCost, Prelude
  <2>2. CASE QuotaStop(t)
    BY <1>1, <2>2 DEF QuotaStop, Step, E, Executions, Records, SameCost, Prelude
  <2>3. CASE ReadTurn(t)
    BY <1>1, <2>3 DEF ReadTurn, Step, E, Executions, Records, SameCost, Prelude
  <2> QED
    BY <2>1, <2>2, <2>3
<1>3. CASE card'[t].run = card[t].run /\ card'[t].receipt = card[t].receipt
  BY <1>0, <1>1, <1>2, <1>3, TurnFrame DEF SameCost
<1>4. CASE NextRun(t) /\ card[t].run + 1 <= rec[t].attempt
  <2>1. card'[t].run = card[t].run + 1 /\ card'[t].receipt = FALSE
    BY <1>1, <1>4 DEF NextRun, NewCard
  <2>2. Allowed(exec'[t].r)
    BY <1>0, <1>1, <1>2, AllowedSame DEF SpendInv, E
  <2> QED
    BY <1>0, <1>1, <1>2, <1>4, <2>1, <2>2 DEF TurnInv, SpendInv, WriterInv, CopyKept, E
<1>5. card[t].run \in Nat /\ rec[t].attempt \in Nat /\ card[t].run <= rec[t].attempt
  <2>1. card[t].run \in Nat
    BY <1>1 DEF Cards
  <2>2. rec[t].attempt \in Nat
    BY <1>1 DEF Records
  <2> QED
    BY <1>0, <2>1, <2>2 DEF SpendInv
<1>6. CASE StartRun(t)
  <2>1. rec[t].attempt = card[t].run + 1
    BY <1>0, <1>1, <1>6 DEF StartRun, SpendInv, Prelude
  <2> QED
    BY <1>4, <1>5, <1>6, <2>1 DEF StartRun
<1>7. CASE QuotaStop(t)
  BY <1>1, <1>3, <1>7 DEF QuotaStop, Cards
<1>8. CASE ReadTurn(t)
  <2>1. CASE card[t].run = E(t).r.attempt
    BY <1>3, <1>8, <2>1 DEF ReadTurn
  <2>2. CASE card[t].run # rec[t].attempt
    BY <1>1, <1>4, <1>5, <1>8, <2>2 DEF ReadTurn, E
  <2> QED
    BY <1>1, <2>1, <2>2 DEF E
<1> QED
  BY <1>6, <1>7, <1>8

LEMMA QueuedAllowed ==
  ASSUME NEW r \in Records, Allowed(r)
  PROVE  Allowed(Queued(r))
<1>1. /\ Queued(r).attempt = r.attempt /\ Queued(r).tried = {}
      /\ Queued(r).recoveries = r.recoveries + 1 /\ Queued(r).returned = r.returned
  BY DEF Queued, Records
<1>2. IsFiniteSet({}) /\ Cardinality({}) = 0
  BY FS_EmptySet
<1>3. /\ r.recoveries \in Int /\ r.attempt \in Int
      /\ Cardinality(r.tried) \in Int
  BY FS_CardinalityType DEF Records, Allowed
<1>4. r.attempt <= 2 * Rounds(Queued(r))
  BY <1>1, <1>3 DEF Allowed, Rounds
<1>5. Rounds(Queued(r)) \in Int
  BY <1>1, <1>3 DEF Rounds
<1> QED
  BY <1>1, <1>2, <1>3, <1>4, <1>5 DEF Allowed

LEMMA DeliveredAllowed ==
  ASSUME NEW t \in Tasks, NEW r \in Records, Allowed(r)
  PROVE  Allowed(Delivered(t, r))
<1> DEFINE late == r.observed # 0 \/ turn[t].result # "done"
           next == IF late THEN Recovered(t, r) ELSE [r EXCEPT !.state = "finished"]
           still == next.state = "unknown"
<1>1. Delivered(t, r) = [next EXCEPT !.announced = @ /\ still]
  BY DEF Delivered
<1>2. [r EXCEPT !.state = "finished"] \in Records /\ Recovered(t, r) \in Records
  BY RecoveredType DEF Records, States, Settled
<1>3. \A s \in States : SameCost([r EXCEPT !.state = s], r)
  BY DEF SameCost, Records
<1>4. Allowed(next)
  <2>1. CASE late /\ Recovered(t, r) = Queued(r)
    BY <2>1, QueuedAllowed
  <2>2. CASE \E s \in States : next = [r EXCEPT !.state = s]
    BY <1>3, <2>2, AllowedSame
  <2> QED
    BY <2>1, <2>2 DEF Recovered, States, Settled
<1>5. next \in Records
  BY <1>2
<1> HIDE DEF next, still
<1>6. SameCost([next EXCEPT !.announced = @ /\ still], next)
  BY <1>5 DEF SameCost, Records
<1> QED
  BY <1>1, <1>4, <1>6, AllowedSame

LEMMA TurnDelivered ==
  ASSUME TurnsInv, NEW t \in Tasks, Stands(t), Deliver(t)
  PROVE  TurnInv(t)'
<1>0. AreasInv /\ E(t).pc # "idle" /\ E(t).pc = "deliver" /\ UNCHANGED <<sync, turn>>
  BY DEF TurnsInv, Deliver
<1>1. /\ TypeOK /\ Busy(t) /\ TaskInv(t) /\ exec[t] \in Executions /\ exec[t].r \in Records
      /\ rec[t] \in Records /\ card[t] \in Cards
      /\ exec[t].r.attempt = rec[t].attempt
      /\ exec \in [Tasks -> Executions \cup {Idle}]
  BY <1>0, AreaRunning DEF TypeOK
<1>2. turn'[t].state # "busy"
  BY <1>0, <1>1 DEF TaskInv, FenceInv
<1>3. SameCost(exec'[t].r, exec[t].r) /\ exec'[t].pc \notin Prelude
  <2>1. PICK p \in Places, o \in Outcomes :
          /\ exec' = [exec EXCEPT ![t] = [exec[t] EXCEPT !.pc = p, !.outcome = o]]
          /\ p \notin Prelude
    <3>1. exec[t].outcome \in Outcomes
      BY <1>1 DEF Executions, Outcomes
    <3>2. [exec[t] EXCEPT !.pc = "check"]
            = [exec[t] EXCEPT !.pc = "check", !.outcome = exec[t].outcome]
      BY <1>1 DEF Executions
    <3> QED
      <4>1. CASE Quit(t, "unknown") \/ Quit(t, "delivery")
        BY <4>1 DEF Quit, Step, E, Outcomes, Places, Prelude
      <4>2. CASE To(t, "check")
        BY <3>1, <3>2, <4>2 DEF To, Step, E, Places, Prelude
      <4> QED
        BY <4>1, <4>2 DEF Deliver
  <2> QED
    BY <1>1, <2>1 DEF Executions, SameCost
<1>4. card'[t].run = card[t].run /\ Allowed(exec[t].r) /\ SpendInv(t)
  <2>1. card'[t].run = card[t].run
    <3>1. [card[t] EXCEPT !.active = FALSE, !.receipt = TRUE].run = card[t].run
      BY <1>1 DEF Cards
    <3>2. card' = card \/ card'[t] = [card[t] EXCEPT !.active = FALSE, !.receipt = TRUE]
      BY <1>1 DEF Deliver, TypeOK
    <3> QED
      BY <3>1, <3>2
  <2> QED
    BY <1>1, <2>1 DEF TurnsInv, TurnInv, SpendInv, E
<1>5. rec'[t].attempt = rec[t].attempt /\ Allowed(rec'[t])
  <2>1. CASE UNCHANGED rec
    BY <1>4, <2>1 DEF SpendInv
  <2>2. CASE rec' # rec
    <3>1. PICK pr \in BOOLEAN :
            rec' = [rec EXCEPT ![t] =
                      Delivered(t, [E(t).r EXCEPT !.canceled = @ \/ rec[t].canceled, !.pr = pr])]
      BY <2>2 DEF Deliver
    <3> DEFINE r == [E(t).r EXCEPT !.canceled = @ \/ rec[t].canceled, !.pr = pr]
    <3>2. r \in Records /\ SameCost(r, exec[t].r)
      BY <1>1 DEF Records, SameCost, E
    <3> HIDE DEF r
    <3>3. rec'[t] = Delivered(t, r)
      BY <1>1, <3>1 DEF r, TypeOK
    <3>4. Allowed(r) /\ r.attempt = exec[t].r.attempt
      BY <1>4, <3>2, AllowedSame DEF SameCost
    <3> QED
      BY <1>1, <3>2, <3>3, <3>4, DeliveredAllowed, DeliveredType
  <2> QED
    BY <2>1, <2>2
<1>6. CopyKept(t)
  BY <1>0, CopyResting
<1>7. Allowed(exec'[t].r)
  BY <1>3, <1>4, AllowedSame
<1> QED
  BY <1>0, <1>1, <1>2, <1>3, <1>4, <1>5, <1>6, <1>7
  DEF TurnInv, SpendInv, WriterInv, CopyKept, E

LEMMA TurnsStep ==
  ASSUME TurnsInv, [Next]_vars
  PROVE  TurnsInv'
<1>1. AreasInv /\ AreasInv' /\ TypeOK /\ \A u \in Tasks : Stands(u) /\ TurnInv(u)
  BY AreasStep, StepStands DEF TurnsInv, AreasInv, Inv
<1>2. ASSUME NEW u \in Tasks, UNCHANGED vars \/ ReactFails
      PROVE  TurnInv(u)'
  BY <1>1, <1>2, CopyResting, TurnOther DEF vars, state, ReactFails, Same
<1>3. ASSUME NEW u \in Tasks, Restart
      PROVE  TurnInv(u)'
  <2>1. /\ rec'[u] = IF rec[u].state = "running" THEN [rec[u] EXCEPT !.state = "unknown"]
                     ELSE rec[u]
        /\ UNCHANGED <<card, turn>> /\ ~Busy(u)' /\ CopyKept(u)
    BY <1>1, <1>3, SeenNothing DEF Restart, TypeOK, Busy, CopyKept, Copied, Settled
  <2>2. SameCost(rec'[u], rec[u])
    <3>1. rec[u] \in Records
      BY <1>1 DEF TypeOK
    <3> QED
      BY <2>1, <3>1 DEF Records, SameCost
  <2> QED
    BY <1>1, <2>1, <2>2, TurnFrame
<1>4. ASSUME NEW t \in Tasks,
             \/ Pin(t) \/ Admit(t) \/ Cancel(t) \/ Pass(t) \/ Execute(t)
             \/ WorkEnds(t) \/ Reaction(t) \/ Apply(t)
      PROVE  \A u \in Tasks : TurnInv(u)'
  <2>1. ASSUME NEW u \in Tasks \ {t} PROVE TurnInv(u)'
    BY <1>1, <1>4, <2>1, Elsewhere, TurnOther
  <2>2. TurnInv(t)'
    <3>1. CASE Execute(t)
      BY <1>1, <3>1, ExecuteStep, TurnReserved, TurnBegun, TurnCounted, TurnDelivered, TurnGoesOn
    <3>2. CASE ~Execute(t)
      BY <1>1, <1>4, <3>2, TurnRecord, TurnReaction
    <3> QED
      BY <3>1, <3>2
  <2> QED
    BY <2>1, <2>2
<1>5. ASSUME NEW u \in Tasks, List
      PROVE  TurnInv(u)'
  <2>1. Seen(u)' = rec[u] /\ UNCHANGED <<rec, card, exec, turn>>
    BY <1>1, <1>5, SeenListed DEF List
  <2> QED
    BY <1>1, <2>1 DEF TurnInv, SpendInv, WriterInv, Busy, E
<1> QED
  BY <1>1, <1>2, <1>3, <1>4, <1>5 DEF Next, TurnsInv

LEMMA TurnsInit ==
  ASSUME Init
  PROVE  TurnsInv
<1>1. AreasInv
  BY AreasInit
<1>2. ASSUME NEW t \in Tasks PROVE TurnInv(t)
  <2>1. IsFiniteSet({}) /\ Cardinality({}) = 0
    BY FS_EmptySet
  <2>2. rec[t] = NoRecord /\ card[t] = NewCard /\ ~Busy(t) /\ ~Copied(t)
        /\ turn[t].state # "busy"
    BY DEF Init, Busy, Copied, Seen, Resting, Nothing, NoRecord, Settled, NoTurn
  <2>3. Allowed(rec[t])
    BY <2>1, <2>2 DEF Allowed, NoRecord, Rounds
  <2> QED
    <3>1. card[t].run = 0
      <4>1. NewCard.run = 0
        BY DEF NewCard
      <4> QED
        BY <2>2, <4>1
    <3>2. rec[t].attempt = 0
      BY <2>2 DEF NoRecord
    <3>3. card[t].run <= rec[t].attempt
      BY <3>1, <3>2
    <3> QED
      BY <2>2, <2>3, <3>3 DEF TurnInv, SpendInv, WriterInv
<1> QED
  BY <1>1, <1>2 DEF TurnsInv

LEMMA TurnsKept == Spec => []TurnsInv
BY TurnsInit, TurnsStep, PTL DEF Spec

(* However often its workers fail, Core crashes and its manager corrects   *)
(* it, a task is worked on at most six times, for every number of workers  *)
(* it may be given (reserveWorker, recoveryRecord and ReturnDefinition).   *)
THEOREM DispatchTurns == Spec => []AtMostSixTurns
<1>1. TurnsInv => AtMostSixTurns
  <2> SUFFICES ASSUME TurnsInv, NEW t \in Tasks PROVE card[t].run <= 6
    BY DEF AtMostSixTurns
  <2>1. /\ card[t].run <= rec[t].attempt /\ Allowed(rec[t])
        /\ rec[t] \in Records /\ card[t] \in Cards
    BY DEF TurnsInv, TurnInv, SpendInv, AreasInv, Inv, TypeOK
  <2>2. /\ rec[t].attempt \in Nat /\ card[t].run \in Nat /\ rec[t].recoveries \in 0 .. 1
        /\ Cardinality(rec[t].tried) \in Nat
    BY <2>1, FS_CardinalityType DEF Records, Cards, Allowed
  <2>3. Rounds(rec[t]) \in 0 .. 2
    BY <2>2 DEF Rounds
  <2> QED
    BY <2>1, <2>2, <2>3 DEF Allowed
<1> QED
  BY <1>1, TurnsKept, PTL

-----------------------------------------------------------------------------
(* Areas again: the dispatcher keeps what AreaLeases promises. *)

Leased == {t \in Tasks : rec[t].held /\ ~card[t].applied}
Working == {t \in Tasks : turn[t].state = "busy"}
Landed == {t \in Tasks : card[t].applied}

(* Only a launch sets a worker to work. *)
LEMMA WorkBegins ==
  ASSUME TypeOK, Next, NEW t \in Tasks, turn'[t].state = "busy", turn[t].state # "busy"
  PROVE  Launch(t)
<1>1. PICK u \in Tasks :
        \/ Pin(u) \/ Admit(u) \/ Cancel(u) \/ Pass(u) \/ Execute(u)
        \/ WorkEnds(u) \/ Reaction(u) \/ Apply(u)
  BY DEF Next, Restart, ReactFails, List
<1>2. u = t
  BY <1>1, Elsewhere
<1>3. Execute(t)
  BY <1>1, <1>2
  DEF TypeOK, Pin, Admit, Cancel, Pass, Interrupted, Observe, Refuse, Claim, Notice, Noticed,
      Onward, WorkEnds, Reaction, ReactAck, ReactPublish, Judge, Return, ReactEnd, Apply
<1>4. ~Cut(t)
  BY CutType
<1>5. /\ ~(Turned(t) \/ Prepare(t) \/ Reserve(t) \/ Unserved(t) \/ Withheld(t))
      /\ ~(NeedsSignIn(t) \/ Bind(t) \/ StartRun(t) \/ HearCancel(t) \/ Break(t) \/ Expire(t))
  BY <1>4 DEF Turned, Prepare, Reserve, Unserved, Withheld, NeedsSignIn, Bind, StartRun,
              HearCancel, Break, Expire
<1>6. /\ ~(StopExpired(t) \/ QuotaStop(t) \/ TurnEnds(t) \/ ReadTurn(t) \/ Unread(t))
      /\ ~(Deliver(t) \/ Check(t) \/ Close(t) \/ End(t))
  BY <1>4 DEF StopExpired, QuotaStop, TurnEnds, ReadTurn, Unread, Deliver, Check, Close, End
<1> QED
  BY <1>3, <1>5, <1>6, ExecuteStep

(* Nobody works any more on what is applied. *)
LEMMA LandedRests ==
  ASSUME TurnsInv
  PROVE  Landed \cap Working = {}
<1> SUFFICES ASSUME NEW t \in Tasks, card[t].applied, turn[t].state = "busy"
             PROVE  FALSE
  BY DEF Landed, Working
<1>1. SettledInv(t) /\ WriterInv(t)
  BY DEF TurnsInv, TurnInv, AreasInv, AreaInv
<1>2. Locked(t)
  BY <1>1 DEF SettledInv
<1> QED
  BY <1>1, <1>2 DEF WriterInv, Locked, Ended

LEMMA LeaseGrant ==
  ASSUME TurnsInv, NEW t \in Tasks, Claim(t)
  PROVE  Lease!Grant
<1>1. /\ UNCHANGED <<card, turn>> /\ AreasInv /\ TypeOK /\ AreaInv(t)
      /\ rec[t] \in Records /\ \A u \in Tasks \ {t} : rec'[u] = rec[u]
  BY DEF TurnsInv, AreasInv, Inv, TypeOK, Claim, Onward
<1>2. rec'[t].held
  BY <1>1 DEF Claim, TypeOK, Records
<1>3. ~card[t].applied
  <2>1. ~Locked(t)
    BY DEF Claim, Locked, Settled
  <2> QED
    BY <1>1, <2>1 DEF AreaInv, SettledInv
<1>4. /\ Leased' = Leased \cup {t} /\ Leased' \subseteq Tasks /\ t \notin Landed
      /\ UNCHANGED <<Working, Landed>>
  BY <1>1, <1>2, <1>3 DEF Leased, Working, Landed
<1>5. \A u \in Leased' : {t, u} \notin Overlaps
  BY <1>1, ClaimedAlone DEF Leased
<1> QED
  BY <1>4, <1>5 DEF Lease!Grant, Leased, Working, Landed

LEMMA LeaseBegins ==
  ASSUME TurnsInv, NEW t \in Tasks, Launch(t), turn'[t].state = "busy"
  PROVE  Lease!Begin(t)
<1>1. /\ E(t).pc # "idle" /\ Launching(t) /\ E(t).pc = "launch" /\ AreasInv
      /\ UNCHANGED <<rec, card>>
  BY DEF TurnsInv, Launch, Launching
<1>2. TypeOK /\ TaskInv(t) /\ Busy(t) /\ rec[t].held /\ AreaInv(t)
  BY <1>1, AreaRunning
<1>3. ~Locked(t)
  BY <1>1, <1>2, AreaRunning DEF TaskInv, FenceInv, E
<1>4. t \in Leased \ Landed
  BY <1>2, <1>3 DEF Leased, Landed, AreaInv, SettledInv
<1>5. Working' = Working \cup {t} /\ UNCHANGED <<Leased, Landed>>
  BY <1>1, <1>2 DEF Working, Leased, Landed, Launch, TypeOK
<1> QED
  BY <1>4, <1>5 DEF Lease!Begin, Leased, Working, Landed

LEMMA LeaseEnds ==
  ASSUME TurnsInv, [Next]_vars, \A t \in Tasks : ~Claim(t),
         Working' \subseteq Working, Landed' \cap Working' = {}
  PROVE  Lease!End
<1>1. \A t \in Tasks : Stands(t)
  BY StepStands DEF TurnsInv
<1>2. Landed \subseteq Landed' /\ Leased' \subseteq Leased /\ Leased \ Leased' \subseteq Landed'
  BY <1>1 DEF Landed, Leased, Stands
<1> QED
  BY <1>2 DEF Lease!End, Leased, Working, Landed

(* A task is claimed only when what lies in its area is applied (claim in  *)
(* choice.go), a worker is launched only for a task that is claimed and    *)
(* not yet applied, and nothing is applied while a worker is at it.        *)
THEOREM DispatchLeases == Spec => Leases
<1> DEFINE Rests == Landed \cap Working = {}
<1>1. Init => Lease!Init
  <2> SUFFICES ASSUME Init PROVE Lease!Init
    OBVIOUS
  <2>1. Overlaps \subseteq SUBSET Tasks
    BY TasksAssumption
  <2>2. \A t \in Tasks : ~rec[t].held /\ ~card[t].applied /\ turn[t].state # "busy"
    BY DEF Init, NoRecord, NewCard, NoTurn
  <2> QED
    BY <2>1, <2>2 DEF Lease!Init
<1>2. TurnsInv /\ Rests' /\ [Next]_vars => [Lease!Next]_(Lease!vars)
  <2> SUFFICES ASSUME TurnsInv, Rests', [Next]_vars PROVE Lease!Next
    BY DEF Lease!vars
  <2>1. CASE \E t \in Tasks : Claim(t)
    BY <2>1, LeaseGrant DEF Lease!Next
  <2>2. CASE Working' \subseteq Working /\ ~\E t \in Tasks : Claim(t)
    BY <2>2, LeaseEnds DEF Lease!Next
  <2>3. CASE ~(Working' \subseteq Working)
    <3>1. PICK t \in Tasks : turn'[t].state = "busy" /\ turn[t].state # "busy"
      BY <2>3 DEF Working
    <3>2. Next /\ TypeOK
      BY <3>1 DEF vars, state, TurnsInv, AreasInv, Inv
    <3> QED
      BY <3>1, <3>2, WorkBegins, LeaseBegins DEF Lease!Next
  <2> QED
    BY <2>1, <2>2, <2>3
<1>3. TurnsInv => Rests
  BY LandedRests
<1> HIDE DEF Rests
<1> QED
  BY <1>1, <1>2, <1>3, TurnsKept, PTL DEF Spec, Leases, Lease!Spec

(* Workers of two tasks whose areas meet are never at work together, not   *)
(* even when one of them was left behind by a restart.                     *)
WorkersApart ==
    \A t, u \in Tasks :
        {t, u} \in Overlaps => ~(turn[t].state = "busy" /\ turn[u].state = "busy")

THEOREM DispatchWorkersApart == Spec => []WorkersApart
<1>1. TurnsInv => WorkersApart
  <2> SUFFICES ASSUME TurnsInv, NEW t \in Tasks, NEW u \in Tasks, {t, u} \in Overlaps,
                      t \in Working, u \in Working
               PROVE  FALSE
    BY DEF WorkersApart, Working
  <2>1. rec[t].held /\ rec[u].held
    BY DEF TurnsInv, TurnInv, WriterInv, Working
  <2>2. card[t].applied \/ card[u].applied
    BY <2>1 DEF TurnsInv, AreasInv, AreaLease
  <2> QED
    BY <2>2, LandedRests DEF Landed
<1> QED
  BY <1>1, TurnsKept, PTL
-----------------------------------------------------------------------------
(* Starts.  While a card's run is active it is the last attempt that was   *)
(* reserved, its record does not wait, and no execution is on its way to   *)
(* another run; and no attempt is more than one ahead of the card.         *)
Waiting == {"none", "admitting", "queued"}

FreshInv(t) ==
    /\ rec[t].attempt <= card[t].run + 1
    /\ card[t].active =>
         /\ card[t].run = rec[t].attempt /\ rec[t].state \notin Waiting
         /\ Busy(t) => E(t).pc # "choose" /\ E(t).outcome \notin Unstarted
StartsInv == TurnsInv /\ \A t \in Tasks : FreshInv(t)

(* What is known where the card's run is active. *)
LEMMA FreshRunning ==
  ASSUME StartsInv, NEW t \in Tasks
  PROVE  /\ AreasInv /\ TypeOK /\ rec[t] \in Records /\ card[t] \in Cards
         /\ rec \in [Tasks -> Records] /\ card \in [Tasks -> Cards]
         /\ exec \in [Tasks -> Executions \cup {Idle}]
         /\ FreshInv(t) /\ SpendInv(t) /\ SettledInv(t) /\ RecordInv(t) /\ FenceInv(t)
         /\ card[t].run \in Int /\ rec[t].attempt \in Int
         /\ card[t].active /\ Busy(t) =>
              E(t).pc \notin Prelude \cup {"choose"} /\ E(t).outcome \notin Unstarted
<1>1. /\ AreasInv /\ TypeOK /\ rec[t] \in Records /\ card[t] \in Cards
      /\ rec \in [Tasks -> Records] /\ card \in [Tasks -> Cards]
      /\ exec \in [Tasks -> Executions \cup {Idle}]
      /\ FreshInv(t) /\ SpendInv(t) /\ SettledInv(t) /\ RecordInv(t) /\ FenceInv(t)
  BY DEF StartsInv, TurnsInv, TurnInv, AreasInv, AreaInv, Inv, DispatchInv, TypeOK
<1>2. card[t].run \in Int /\ rec[t].attempt \in Int
  <2>1. card[t].run \in Nat /\ rec[t].attempt \in Nat
    BY <1>1 DEF Cards, Records
  <2> QED
    BY <2>1
<1>3. card[t].active /\ Busy(t) =>
        E(t).pc \notin Prelude \cup {"choose"} /\ E(t).outcome \notin Unstarted
  BY <1>1, <1>2 DEF FreshInv, SpendInv
<1> QED
  BY <1>1, <1>2, <1>3

(* A step that starts no run and reserves no attempt. *)
LEMMA FreshFrame ==
  ASSUME NEW t \in Tasks, FreshInv(t),
         card'[t].run = card[t].run, rec'[t].attempt = rec[t].attempt,
         card'[t].active =>
           /\ card[t].active /\ rec'[t].state \notin Waiting
           /\ Busy(t)' => exec'[t].pc # "choose" /\ exec'[t].outcome \notin Unstarted
  PROVE  FreshInv(t)'
BY DEF FreshInv, E

LEMMA FreshRecord ==
  ASSUME StartsInv, NEW t \in Tasks, Pin(t) \/ Admit(t) \/ Cancel(t) \/ Pass(t)
  PROVE  FreshInv(t)'
<1>1. /\ TypeOK /\ rec[t] \in Records /\ FreshInv(t) /\ RecordInv(t)
      /\ rec \in [Tasks -> Records] /\ exec \in [Tasks -> Executions \cup {Idle}]
  BY FreshRunning
<1>2. UNCHANGED card
  BY DEF Pin, Admit, Cancel, Pass, Interrupted, Observe, Refuse, Claim, Notice, Noticed, Onward
<1>3. CASE Pin(t) \/ Admit(t) \/ Claim(t)
  <2>1. ~card[t].active
    BY <1>1, <1>3 DEF Pin, Admit, Claim, FreshInv, Waiting
  <2>2. rec'[t].attempt = rec[t].attempt
    BY <1>1, <1>3 DEF Pin, Admit, Claim, Records
  <2> QED
    BY <1>1, <1>2, <2>1, <2>2, FreshFrame
<1>4. CASE Cancel(t) \/ Interrupted(t)
  <2>1. /\ rec'[t].attempt = rec[t].attempt /\ exec' = exec
        /\ rec'[t].state \in {rec[t].state, "unknown"}
    BY <1>1, <1>4 DEF Cancel, Interrupted, Records
  <2> QED
    BY <1>1, <1>2, <2>1, FreshFrame DEF FreshInv, Waiting, Busy, E
<1>5. CASE rec' = rec /\ exec' = exec
  BY <1>1, <1>2, <1>5, FreshFrame DEF FreshInv, Busy, E
<1>6. CASE \E r : CopyBack(t, r)
  <2>1. PICK r : CopyBack(t, r)
    BY <1>6
  <2>2. rec'[t].attempt = rec[t].attempt /\ rec'[t].state \notin Waiting
    BY <2>1, CopiedBack DEF StartsInv, TurnsInv, AreasInv, CopyBack, Settled, Waiting
  <2>3. CASE exec' = exec
    BY <1>1, <1>2, <2>2, <2>3, FreshFrame DEF FreshInv, Busy, E
  <2>4. CASE Observe(t)
    <3>1. exec'[t].pc = "prepare" /\ exec'[t].outcome = "unknown"
      BY <1>1, <2>4 DEF Observe, Begin
    <3> QED
      BY <1>1, <1>2, <2>2, <3>1, FreshFrame DEF FreshInv, Unstarted
  <2> QED
    BY <1>3, <1>4, <2>3, <2>4 DEF Pass, Refuse, Notice, Noticed
<1>7. Notice(t) \/ Noticed(t) => exec' = exec /\ (Notice(t) => rec' = rec)
  BY DEF Notice, Noticed
<1>8. Refuse(t) \/ Observe(t) \/ (Noticed(t) /\ rec' # rec) => \E r : CopyBack(t, r)
  BY CopyBacks DEF StartsInv, TurnsInv, AreasInv
<1> QED
  BY <1>3, <1>4, <1>5, <1>6, <1>7, <1>8 DEF Pass

(* A correction is returned only when the run it corrects is over. *)
LEMMA FreshReaction ==
  ASSUME StartsInv, NEW t \in Tasks, WorkEnds(t) \/ Reaction(t) \/ Apply(t)
  PROVE  FreshInv(t)'
<1>1. /\ rec[t] \in Records /\ card[t] \in Cards /\ FreshInv(t)
      /\ rec \in [Tasks -> Records] /\ card \in [Tasks -> Cards]
  BY FreshRunning
<1>2. UNCHANGED exec
  BY DEF WorkEnds, Reaction, ReactAck, ReactPublish, Judge, Return, ReactEnd, Apply
<1>3. CASE Return(t)
  <2>1. /\ ~card[t].active /\ UNCHANGED card
        /\ rec'[t].attempt = rec[t].attempt
    BY <1>1, <1>3 DEF Return, Ended, Records
  <2> QED
    BY <1>1, <2>1, FreshFrame
<1>4. CASE WorkEnds(t) \/ ReactAck(t) \/ ReactPublish(t) \/ ReactEnd(t)
  <2>1. /\ UNCHANGED card
        /\ rec'[t].attempt = rec[t].attempt /\ rec'[t].state = rec[t].state
    BY <1>1, <1>4 DEF WorkEnds, ReactAck, ReactPublish, ReactEnd, Records
  <2> QED
    BY <1>1, <1>2, <2>1, FreshFrame DEF FreshInv, Busy, E
<1>5. CASE Judge(t) \/ Apply(t)
  <2>1. UNCHANGED rec /\ card'[t].run = card[t].run /\ card'[t].active = card[t].active
    BY <1>1, <1>5 DEF Judge, Apply, Cards
  <2> QED
    BY <1>1, <1>2, <2>1, FreshFrame DEF FreshInv, Busy, E
<1> QED
  BY <1>3, <1>4, <1>5 DEF Reaction

(* The steps of an execution that change no card and reserve nothing.      *)
LEMMA FreshGoesOn ==
  ASSUME StartsInv, NEW t \in Tasks,
         \/ Turned(t) \/ Prepare(t) \/ Unserved(t) \/ Withheld(t) \/ NeedsSignIn(t)
         \/ Launch(t) \/ Bind(t) \/ Break(t) \/ Expire(t) \/ HearCancel(t)
         \/ StopExpired(t) \/ TurnEnds(t) \/ Unread(t) \/ Check(t) \/ Close(t) \/ End(t)
  PROVE  FreshInv(t)'
<1>0. E(t).pc # "idle" /\ UNCHANGED card
  BY DEF Turned, Prepare, Unserved, Withheld, NeedsSignIn, Launch, Bind, Break, Expire,
         HearCancel, StopExpired, TurnEnds, Unread, Check, Close, End, Alone
<1>1. /\ TypeOK /\ rec[t] \in Records /\ FreshInv(t) /\ RecordInv(t) /\ FenceInv(t)
      /\ rec \in [Tasks -> Records] /\ exec \in [Tasks -> Executions \cup {Idle}]
      /\ card[t].active /\ Busy(t) =>
           E(t).pc \notin Prelude \cup {"choose"} /\ E(t).outcome \notin Unstarted
      /\ AreasInv
  BY FreshRunning
<1>2. /\ Busy(t) /\ exec[t] \in Executions /\ exec[t].r \in Records
      /\ exec[t].r.attempt = rec[t].attempt
      /\ Launching(t) => exec[t].r.state = rec[t].state
  BY <1>0, <1>1, AreaRunning
<1>3. ASSUME NEW r \in Records, Save(t, r)
      PROVE  rec'[t].attempt = r.attempt /\ rec'[t].state = r.state
  BY <1>1, <1>3 DEF Save, Records
<1>4. rec'[t].attempt = rec[t].attempt
  <2>1. CASE UNCHANGED rec
    BY <2>1
  <2>2. CASE Save(t, E(t).r)
    BY <1>2, <1>3, <2>2 DEF E
  <2>3. CASE Bind(t)
    <3> DEFINE r == [E(t).r EXCEPT !.thread = TRUE, !.canceled = @ \/ rec[t].canceled]
    <3>1. r \in Records /\ r.attempt = exec[t].r.attempt
      BY <1>1, <1>2 DEF Records, E
    <3>2. Save(t, r)
      BY <2>3 DEF Bind
    <3> HIDE DEF r
    <3> QED
      BY <1>2, <1>3, <3>1, <3>2
  <2>4. CASE End(t) /\ E(t).outcome \in DOMAIN SaveState
    <3> DEFINE s == SaveState[E(t).outcome]
               r == [E(t).r EXCEPT !.state = s, !.snapshot = "none"]
    <3>1. s \in States
      BY <2>4 DEF SaveState, States, Settled
    <3>2. r \in Records /\ r.attempt = exec[t].r.attempt
      BY <1>2, <3>1 DEF Records, E
    <3>3. Save(t, r)
      BY <2>4 DEF End
    <3> HIDE DEF r
    <3> QED
      BY <1>2, <1>3, <3>2, <3>3
  <2> QED
    BY <2>1, <2>2, <2>3, <2>4
    DEF Turned, Prepare, Unserved, Withheld, NeedsSignIn, Launch, Break, Expire, HearCancel,
        StopExpired, TurnEnds, Unread, Check, Close, End
<1>5. CASE ~card[t].active
  BY <1>0, <1>1, <1>4, <1>5, FreshFrame
<1>6. CASE card[t].active
  <2>0. /\ E(t).pc \notin {"choose", "launch", "bind", "start"}
        /\ exec[t].outcome \notin Unstarted /\ rec[t].state \notin Waiting
    BY <1>1, <1>2, <1>6 DEF Prelude, FreshInv, E
  <2>1. ASSUME NEW p, p # "choose", To(t, p)
        PROVE  exec'[t].pc # "choose" /\ exec'[t].outcome \notin Unstarted
    BY <1>1, <1>2, <2>0, <2>1 DEF To, Step, E, Executions
  <2>2. ASSUME NEW o, o \notin Unstarted, Quit(t, o)
        PROVE  exec'[t].pc # "choose" /\ exec'[t].outcome \notin Unstarted
    BY <1>1, <1>2, <2>2 DEF Quit, Step, E, Executions
  <2>3. CASE Turned(t)
    BY <1>0, <1>1, <1>4, <2>0, <2>1, <2>3, FreshFrame DEF Turned
  <2>4. CASE Prepare(t)
    <3>1. E(t).observing
      BY <1>1, <1>2, <2>0, <2>4 DEF Prepare, FenceInv, Unstarted, E
    <3>2. /\ exec'[t].pc # "choose" /\ exec'[t].outcome \notin Unstarted
          /\ UNCHANGED rec \/ Save(t, E(t).r)
      BY <2>0, <2>1, <2>2, <2>4, <3>1 DEF Prepare, E
    <3>3. Launching(t)
      BY <2>4 DEF Prepare, Launching
    <3>4. rec'[t].state \notin Waiting
      BY <1>2, <1>3, <2>0, <3>2, <3>3 DEF E
    <3> QED
      BY <1>0, <1>1, <1>4, <1>6, <3>2, <3>4, FreshFrame
  <2>5. CASE Unserved(t) \/ Withheld(t) \/ NeedsSignIn(t) \/ Launch(t) \/ Bind(t)
    BY <2>0, <2>5 DEF Unserved, Withheld, NeedsSignIn, Launch, Bind
  <2>6. CASE Break(t) \/ StopExpired(t) \/ Expire(t) \/ Unread(t) \/ Check(t)
    <3>1. PICK o \in {"unknown", "expired", "delivery", "delivered"} :
            Quit(t, o) /\ UNCHANGED rec
      BY <2>6 DEF Break, StopExpired, Expire, Unread, Check
    <3> QED
      BY <1>0, <1>1, <1>4, <1>6, <2>0, <2>2, <3>1, FreshFrame DEF Unstarted
  <2>7. CASE HearCancel(t) \/ TurnEnds(t)
    <3>1. UNCHANGED rec /\ exec'[t].pc # "choose" /\ exec'[t].outcome = exec[t].outcome
      <4>1. CASE HearCancel(t)
        BY <1>1, <1>2, <4>1 DEF HearCancel, Step, E, Executions
      <4>2. CASE TurnEnds(t)
        BY <1>1, <1>2, <4>2 DEF TurnEnds, Step, E, Executions
      <4> QED
        BY <2>7, <4>1, <4>2
    <3> QED
      BY <1>0, <1>1, <1>4, <1>6, <2>0, <3>1, FreshFrame
  <2>8. CASE Close(t)
    <3>1. UNCHANGED rec
      BY <2>8 DEF Close
    <3>2. exec'[t].pc # "choose" /\ exec'[t].outcome \notin Unstarted
      <4>1. CASE To(t, "save")
        BY <2>1, <4>1
      <4>2. CASE Step(t, [E(t) EXCEPT !.pc = "save", !.outcome = "unknown"])
        BY <1>1, <1>2, <4>2 DEF Step, E, Executions, Unstarted
      <4> QED
        BY <2>8, <4>1, <4>2 DEF Close
    <3> QED
      BY <1>0, <1>1, <1>4, <1>6, <2>0, <3>1, <3>2, FreshFrame
  <2>9. CASE End(t)
    <3>1. ~Busy(t)'
      BY <1>1, <2>9 DEF End, Step, Busy
    <3>2. rec'[t].state \notin Waiting
      <4>1. CASE UNCHANGED rec
        BY <2>0, <4>1
      <4>2. CASE E(t).outcome \in DOMAIN SaveState
        <5>1. E(t).outcome = "unknown"
          BY <2>0, <4>2 DEF SaveState, Unstarted, E
        <5> DEFINE r == [E(t).r EXCEPT !.state = "unknown", !.snapshot = "none"]
        <5>2. r \in Records /\ r.state = "unknown"
          BY <1>2 DEF Records, States, Settled, E
        <5>3. SaveState["unknown"] = "unknown"
          BY DEF SaveState
        <5>4. Save(t, r)
          BY <2>9, <4>2, <5>1, <5>3 DEF End
        <5> HIDE DEF r
        <5> QED
          BY <1>3, <5>2, <5>4 DEF Waiting
      <4> QED
        BY <2>9, <4>1, <4>2 DEF End
    <3> QED
      BY <1>0, <1>1, <1>4, <1>6, <3>1, <3>2, FreshFrame
  <2> QED
    BY <2>3, <2>4, <2>5, <2>6, <2>7, <2>8, <2>9
<1> QED
  BY <1>5, <1>6

(* The steps that reserve an attempt, start its run and end it. *)
LEMMA FreshCard ==
  ASSUME StartsInv, NEW t \in Tasks,
         Reserve(t) \/ StartRun(t) \/ QuotaStop(t) \/ ReadTurn(t) \/ Deliver(t)
  PROVE  FreshInv(t)'
<1>0. E(t).pc # "idle"
  BY DEF Reserve, StartRun, QuotaStop, ReadTurn, Deliver
<1>1. /\ TypeOK /\ rec[t] \in Records /\ card[t] \in Cards
      /\ FreshInv(t) /\ RecordInv(t) /\ SpendInv(t) /\ SettledInv(t)
      /\ rec \in [Tasks -> Records] /\ card \in [Tasks -> Cards]
      /\ exec \in [Tasks -> Executions \cup {Idle}]
      /\ card[t].active /\ Busy(t) =>
           E(t).pc \notin Prelude \cup {"choose"} /\ E(t).outcome \notin Unstarted
      /\ card[t].run \in Int /\ rec[t].attempt \in Int
      /\ AreasInv
  BY FreshRunning
<1>2. /\ Busy(t) /\ exec[t] \in Executions /\ exec[t].r \in Records
      /\ exec[t].r.attempt = rec[t].attempt
      /\ Launching(t) => rec[t].state \in {"running", "unknown"}
  BY <1>0, <1>1, AreaRunning DEF Executions
<1>3. CASE Reserve(t)
  <2>1. ~card[t].active /\ UNCHANGED card
    BY <1>1, <1>2, <1>3 DEF Reserve
  <2>2. rec'[t].attempt = card[t].run + 1
    <3>1. PICK w \in Workers[t] \ E(t).r.tried :
            Save(t, [E(t).r EXCEPT !.worker = w, !.tried = @ \cup {w}, !.thread = FALSE,
                                   !.snapshot = "none", !.attempt = card[t].run + 1])
      BY <1>3 DEF Reserve
    <3> QED
      BY <1>1, <1>2, <3>1 DEF Save, Records, E
  <2> QED
    BY <1>1, <2>1, <2>2 DEF FreshInv
<1>4. CASE QuotaStop(t)
  <2>1. card'[t].run = card[t].run /\ ~card'[t].active /\ UNCHANGED rec
    BY <1>1, <1>4 DEF QuotaStop, Cards
  <2> QED
    BY <1>1, <2>1, FreshFrame
<1>5. CASE StartRun(t) \/ ReadTurn(t)
  <2>1. /\ UNCHANGED rec /\ rec[t].state \notin Waiting
        /\ exec'[t].pc # "choose" /\ exec'[t].outcome \notin Unstarted
    <3>1. E(t).pc \in {"start", "observe"} /\ E(t).outcome = "unknown"
      BY <1>1, <1>2, <1>5 DEF StartRun, ReadTurn, SettledInv, Reported
    <3>2. exec'[t].pc # "choose" /\ exec'[t].outcome = exec[t].outcome
      <4>1. CASE StartRun(t)
        BY <1>1, <1>2, <4>1 DEF StartRun, To, Step, E, Executions
      <4>2. CASE ReadTurn(t)
        BY <1>1, <1>2, <4>2 DEF ReadTurn, Step, E, Executions
      <4> QED
        BY <1>5, <4>1, <4>2
    <3> QED
      BY <1>2, <1>5, <3>1, <3>2
      DEF StartRun, ReadTurn, Launching, Waiting, Unstarted, E
  <2>2. CASE NextRun(t) /\ card[t].run < rec[t].attempt
    <3>1. card'[t].run = card[t].run + 1
      BY <1>1, <2>2 DEF NextRun, NewCard
    <3>2. rec[t].attempt = card[t].run + 1
      BY <1>1, <2>2 DEF FreshInv
    <3> QED
      BY <1>1, <2>1, <3>1, <3>2 DEF FreshInv, E
  <2>3. CASE UNCHANGED card
    BY <1>1, <2>1, <2>3, FreshFrame
  <2> QED
    <3>1. CASE StartRun(t)
      <4>1. card[t].run < rec[t].attempt
        BY <1>1, <1>2, <3>1 DEF StartRun, SpendInv, Prelude
      <4> QED
        BY <2>2, <3>1, <4>1 DEF StartRun
    <3>2. CASE ReadTurn(t)
      <4>1. card[t].run # E(t).r.attempt => card[t].run < rec[t].attempt
        BY <1>1, <1>2 DEF SpendInv, E
      <4> QED
        BY <2>2, <2>3, <3>2, <4>1 DEF ReadTurn
    <3> QED
      BY <1>5, <3>1, <3>2
<1>6. CASE Deliver(t)
  <2>1. CASE UNCHANGED <<rec, card>> /\ (Quit(t, "unknown") \/ Quit(t, "delivery"))
    <3>1. PICK o \in {"unknown", "delivery"} : Quit(t, o)
      BY <2>1
    <3>2. exec'[t].pc # "choose" /\ exec'[t].outcome \notin Unstarted
      BY <1>1, <1>2, <3>1 DEF Quit, Step, E, Executions, Unstarted
    <3> QED
      BY <1>1, <2>1, <3>2, FreshFrame DEF FreshInv
  <2>2. CASE /\ card' = [card EXCEPT ![t].active = FALSE, ![t].receipt = TRUE]
             /\ \E pr \in BOOLEAN :
                  rec' = [rec EXCEPT ![t] =
                    Delivered(t, [E(t).r EXCEPT !.canceled = @ \/ rec[t].canceled, !.pr = pr])]
    <3>1. PICK pr \in BOOLEAN :
            rec' = [rec EXCEPT ![t] =
                      Delivered(t, [E(t).r EXCEPT !.canceled = @ \/ rec[t].canceled, !.pr = pr])]
      BY <2>2
    <3> DEFINE r == [E(t).r EXCEPT !.canceled = @ \/ rec[t].canceled, !.pr = pr]
    <3>2. r \in Records /\ r.attempt = exec[t].r.attempt
      BY <1>1, <1>2 DEF Records, E
    <3> HIDE DEF r
    <3>3. rec'[t] = Delivered(t, r)
      BY <1>1, <3>1 DEF r
    <3>4. rec'[t].attempt = rec[t].attempt
      BY <1>2, <3>2, <3>3, DeliveredType
    <3>5. card'[t].run = card[t].run /\ ~card'[t].active
      BY <1>1, <2>2 DEF Cards
    <3> QED
      BY <1>1, <3>4, <3>5, FreshFrame
  <2> QED
    BY <1>6, <2>1, <2>2 DEF Deliver
<1> QED
  BY <1>3, <1>4, <1>5, <1>6

LEMMA StartsStep ==
  ASSUME StartsInv, [Next]_vars
  PROVE  StartsInv'
<1>1. TurnsInv /\ TurnsInv' /\ TypeOK /\ \A u \in Tasks : FreshInv(u)
  BY TurnsStep DEF StartsInv, TurnsInv, AreasInv, Inv
<1>2. ASSUME NEW u \in Tasks, UNCHANGED vars \/ ReactFails \/ List \/ Same(u)
      PROVE  FreshInv(u)'
  BY <1>1, <1>2 DEF vars, state, ReactFails, List, Same, FreshInv, Busy, E
<1>3. ASSUME NEW u \in Tasks, Restart
      PROVE  FreshInv(u)'
  <2>1. /\ rec'[u] = IF rec[u].state = "running" THEN [rec[u] EXCEPT !.state = "unknown"]
                     ELSE rec[u]
        /\ UNCHANGED card /\ ~Busy(u)'
    BY <1>1, <1>3 DEF Restart, TypeOK, Busy
  <2>2. rec'[u].attempt = rec[u].attempt /\ rec'[u].state \in {rec[u].state, "unknown"}
    <3>1. rec[u] \in Records
      BY <1>1 DEF TypeOK
    <3> QED
      BY <2>1, <3>1 DEF Records
  <2>3. FreshInv(u)
    BY <1>1
  <2> QED
    BY <2>1, <2>2, <2>3, FreshFrame DEF FreshInv, Waiting
<1>4. ASSUME NEW t \in Tasks,
             \/ Pin(t) \/ Admit(t) \/ Cancel(t) \/ Pass(t) \/ Execute(t)
             \/ WorkEnds(t) \/ Reaction(t) \/ Apply(t)
      PROVE  \A u \in Tasks : FreshInv(u)'
  <2>1. ASSUME NEW u \in Tasks \ {t} PROVE FreshInv(u)'
    BY <1>1, <1>2, <1>4, <2>1, Elsewhere
  <2>2. FreshInv(t)'
    <3>1. CASE Execute(t)
      BY <3>1, ExecuteStep, FreshGoesOn, FreshCard
    <3>2. CASE ~Execute(t)
      BY <1>4, <3>2, FreshRecord, FreshReaction
    <3> QED
      BY <3>1, <3>2
  <2> QED
    BY <2>1, <2>2
<1> QED
  BY <1>1, <1>2, <1>3, <1>4 DEF Next, StartsInv

LEMMA StartsInit ==
  ASSUME Init
  PROVE  StartsInv
<1>1. TurnsInv
  BY TurnsInit
<1>2. ASSUME NEW t \in Tasks PROVE FreshInv(t)
  <2>1. rec[t] = NoRecord /\ card[t] = NewCard
    BY DEF Init
  <2>2. card[t].run = 0 /\ ~card[t].active /\ rec[t].attempt = 0
    <3>1. NewCard.run = 0 /\ NewCard.active = FALSE /\ NoRecord.attempt = 0
      BY DEF NewCard, NoRecord
    <3> QED
      BY <2>1, <3>1
  <2>3. 0 <= 0 + 1
    OBVIOUS
  <2> QED
    BY <2>2, <2>3 DEF FreshInv
<1> QED
  BY <1>1, <1>2 DEF StartsInv

(* The ledger never refuses a run because the last one is still active:    *)
(* whoever starts one finds the run before it over and the card one run    *)
(* behind the attempt that was reserved (StartRun in execute.go and        *)
(* recovery.go), however restarts, quota stops and observations interleave.*)
THEOREM DispatchStarts == Spec => []StartsUnhindered
<1>1. StartsInv => StartsUnhindered
  <2> SUFFICES ASSUME StartsInv, NEW t \in Tasks, Busy(t),
                      E(t).pc = "start" \/ (E(t).pc = "observe" /\ card[t].run # E(t).r.attempt)
               PROVE  ~card[t].active /\ card[t].run + 1 = rec[t].attempt
    BY DEF StartsUnhindered
  <2>1. /\ FreshInv(t) /\ SpendInv(t) /\ RecordInv(t)
        /\ card[t].run \in Int /\ rec[t].attempt \in Int
    BY FreshRunning
  <2>2. card[t].run # rec[t].attempt
    BY <2>1 DEF SpendInv, RecordInv, Prelude
  <2> QED
    BY <2>1, <2>2 DEF FreshInv, SpendInv
<1> QED
  BY <1>1, StartsInit, StartsStep, PTL DEF Spec
=============================================================================
