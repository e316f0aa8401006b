--------------------------- MODULE WorkerDispatch ---------------------------
(***************************************************************************)
(* The dispatcher of delegated work (internal/core/worker/dispatch): the   *)
(* durable record of each task, the pass of the service's loop over all    *)
(* records (service.go, choice.go), the execution of a task in a goroutine *)
(* of its own (execute.go, recovery.go), the delivery of its result to the *)
(* card (completion.go), the reaction to it and the one correction its     *)
(* manager may return (completion.go, return.go), cancels and restarts.    *)
(*                                                                         *)
(* Abstractions.  A canon transaction is one step.  Git, packets, artefacts*)
(* and progress are left out: each may make its step fail.  Quota, host    *)
(* load and authority are whatever they are at the moment they are asked   *)
(* for, a choice.  A record is "admitting" until the result of the call    *)
(* that queued it is committed to the turn it came from.  Goal steps,      *)
(* restored backups and heads that move are left out.  recoverRecord is    *)
(* left out too: the only records it accepts are corrections that a crash  *)
(* cut before their attempt, whose run has its finish event already, under *)
(* another head, and the ledger refuses a second one.                      *)
(***************************************************************************)
EXTENDS Integers, FiniteSets, FiniteSetsExt

CONSTANTS
    Tasks,        \* numbers, in the order of the records' ids
    Workers,      \* the workers each task may be given
    Readable,     \* workers whose turns another process can read: Codex
    Overlaps,     \* pairs of tasks of one repository whose areas meet
    Slots,        \* workers the host has room for
    NoWorker,
    Limits,       \* bounds: the tasks that are admitted and those that somebody
                  \* cancels, and the attempts of each
    MaxCrashes    \* bound: restarts of Core

ASSUME TasksAssumption ==
    /\ Tasks \subseteq Nat
    /\ Overlaps \subseteq {p \in SUBSET Tasks : Cardinality(p) = 2}
ASSUME WorkersAssumption ==
    /\ DOMAIN Workers = Tasks
    /\ \A t \in Tasks : NoWorker \notin Workers[t]
ASSUME BoundsAssumption ==
    /\ {Slots, MaxCrashes} \subseteq Nat
    /\ \A l \in Limits :
         /\ l.tasks \subseteq Tasks /\ l.cancels \subseteq Tasks
         /\ l.attempts \in [Tasks -> Nat]

AllWorkers == UNION {Workers[t] : t \in Tasks}

VARIABLES
    rec,       \* worker_dispatch: the record of each task
    card,      \* work_cards: the run of each task and its receipt
    reserved,  \* tasks whose directories work_worker_reservations holds
    pend,      \* tasks whose completion the outbox still has to settle
    epoch,     \* the epoch of the running Core
    sync,      \* the loop's pass: the notice it publishes, if any
    exec,      \* Service.running and the execution of each task
    react,     \* the delivery of a completion to the manager
    turn,      \* the turn of the worker a task has, or had last
    limit      \* the bounds of this behaviour

state == <<rec, card, reserved, pend, epoch, sync, exec, react, turn>>
vars == <<state, limit>>

-----------------------------------------------------------------------------
(* Records, cards and turns. *)

Settled == {"finished", "unknown", "decision"}

NoRecord ==
    [state |-> "none", canceled |-> FALSE, announced |-> FALSE, held |-> FALSE,
     worker |-> NoWorker, tried |-> {}, attempt |-> 0, thread |-> FALSE,
     snapshot |-> "none", recoveries |-> 0, observed |-> 0, returned |-> FALSE,
     pr |-> FALSE]

NewCard ==
    [run |-> 0, active |-> FALSE, receipt |-> FALSE, verdict |-> "", applied |-> FALSE]

NoTurn == [state |-> "none", result |-> "none", known |-> FALSE]

(* card.Receipt != nil && !card.Active && card.TurnStatus != "" *)
Ended(t) == card[t].receipt /\ ~card[t].active

Idle == [pc |-> "idle"]
Busy(t) == exec[t] # Idle

(* Faulty variant: the record is written as it is in memory. *)
SaveWhole(t, r) == rec' = [rec EXCEPT ![t] = r]

(* saveRecord: a cancel that came meanwhile is kept. *)
Save(t, r) == rec' = [rec EXCEPT ![t] = [r EXCEPT !.canceled = @ \/ rec[t].canceled]]

-----------------------------------------------------------------------------
(* Admission and cancel. *)

Pin(t) ==
    /\ rec[t].state = "none" /\ t \in limit.tasks
    /\ rec' = [rec EXCEPT ![t].state = "admitting"]
    /\ UNCHANGED <<card, reserved, pend, epoch, sync, exec, react, turn>>

Admit(t) ==
    /\ rec[t].state = "admitting"
    /\ rec' = [rec EXCEPT ![t].state = "queued"]
    /\ UNCHANGED <<card, reserved, pend, epoch, sync, exec, react, turn>>

Cancel(t) ==
    /\ rec[t].state # "none" /\ ~rec[t].canceled /\ t \in limit.cancels
    /\ rec' = [rec EXCEPT ![t].canceled = TRUE]
    /\ UNCHANGED <<card, reserved, pend, epoch, sync, exec, react, turn>>

-----------------------------------------------------------------------------
(* The pass over the records, one goroutine: it lists them all, and then   *)
(* comes to one after the other.  What it does there goes by the record as *)
(* listed, which may be out of date by then, since executions go on and    *)
(* publishing a notice is slow; only a claim reads the record again.  A    *)
(* pass that leaves a record as it is, for a read, a call or a save that   *)
(* failed, goes on to a later one, and in the end to a new list.           *)

Nothing == [t \in Tasks |-> NoRecord]
Resting == [pc |-> "pass", seen |-> Nothing]
Seen(t) == sync.seen[t]
Ahead(t) == [u \in Tasks |-> IF u > t THEN Seen(u) ELSE NoRecord]

(* sync reads all records at once. *)
List ==
    /\ sync.pc = "pass"
    /\ sync' = [sync EXCEPT !.seen = rec]
    /\ UNCHANGED <<rec, card, reserved, pend, epoch, exec, react, turn>>

(* The pass is at t, and then at the records after it. *)
Onward(t) ==
    /\ sync.pc = "pass" /\ sync' = [sync EXCEPT !.seen = Ahead(t)]
    /\ UNCHANGED <<card, reserved, pend, epoch, react, turn>>

(* An execution that ended without a word left its effects unknown. *)
Interrupted(t) ==
    /\ Seen(t).state = "running" /\ ~Busy(t)
    /\ rec[t].state = "running" /\ rec[t].attempt = Seen(t).attempt
    /\ rec' = [rec EXCEPT ![t].state = "unknown"]
    /\ Onward(t) /\ UNCHANGED exec

Begin(t, r, outcome, observing) ==
    exec' = [exec EXCEPT ![t] = [pc |-> "prepare", r |-> r, outcome |-> outcome,
                                 observing |-> observing]]

Observable(t) ==
    /\ Seen(t).state = "unknown" /\ Seen(t).thread /\ Seen(t).worker \in Readable
    /\ Seen(t).snapshot = "none" /\ ~Busy(t)

(* Read the turn once in each epoch, and every five minutes after that. *)
Observe(t) ==
    /\ Observable(t)
    /\ LET r == [Seen(t) EXCEPT !.observed = epoch]
       IN Save(t, r) /\ Begin(t, r, "unknown", TRUE)
    /\ Onward(t)

(* Cancelled, or no longer authorized. *)
Refuse(t) ==
    /\ Seen(t).state = "queued"
    /\ Save(t, [Seen(t) EXCEPT !.state = "finished"])
    /\ Onward(t) /\ UNCHANGED exec

(* claim: worker termination is not landing and frees no area. *)
Held(t) == rec[t].held \/ rec[t].state \in {"running", "unknown", "finished"}

(* Faulty variant: only running work holds an area. *)
AreaFreeAtEnd(t) ==
    \A u \in Tasks \ {t} : {t, u} \in Overlaps => rec[u].state # "running"

AreaFree(t) ==
    \A u \in Tasks \ {t} : {t, u} \in Overlaps => ~Held(u) \/ card[u].applied

SlotFree(t) ==
    Cardinality({u \in Tasks \ {t} : rec[u].state \in {"running", "unknown"}}) < Slots

Claim(t) ==
    /\ Seen(t).state = "queued" /\ ~Seen(t).canceled /\ ~Busy(t)
    /\ rec[t].state = "queued" /\ ~rec[t].canceled
    /\ AreaFree(t) /\ SlotFree(t)
    /\ Workers[t] \ rec[t].tried # {}
    /\ LET r == [rec[t] EXCEPT !.state = "running", !.held = TRUE]
       IN rec' = [rec EXCEPT ![t] = r] /\ Begin(t, r, "finished", FALSE)
    /\ Onward(t)

(* What the durable reactor does not tell of. *)
Notice(t) ==
    /\ sync.pc = "pass"
    /\ Seen(t).state \in Settled /\ ~Seen(t).announced /\ ~Ended(t)
    /\ Observable(t) => Seen(t).observed = epoch
    /\ sync' = [pc |-> "publish", task |-> t, seen |-> sync.seen]
    /\ UNCHANGED <<rec, card, reserved, pend, epoch, exec, react, turn>>

(* Publish returns, and the record that it was given is written back. *)
Noticed(t) ==
    /\ sync.pc = "publish" /\ sync.task = t
    /\ \/ Save(t, [Seen(t) EXCEPT !.announced = TRUE])
       \/ UNCHANGED rec
    /\ sync' = [pc |-> "pass", seen |-> Ahead(t)]
    /\ UNCHANGED <<card, reserved, pend, epoch, exec, react, turn>>

Pass(t) ==
    \/ Interrupted(t) \/ Observe(t) \/ Refuse(t) \/ Claim(t) \/ Notice(t) \/ Noticed(t)

-----------------------------------------------------------------------------
(* One execution.  outcome says what it leaves behind: "finished" (nothing *)
(* was started, or a settled quota stop), "queued" (waiting for quota),    *)
(* "parked" (the same, but the last worker could not be closed),           *)
(* "unknown", "delivered", "delivery" (the delivery's own save stands, its *)
(* effects are unknown), "expired" (its deadline passed: nothing is saved).*)

E(t) == exec[t]
Step(t, e) == exec' = [exec EXCEPT ![t] = e]
To(t, pc) == Step(t, [E(t) EXCEPT !.pc = pc])
Quit(t, outcome) == Step(t, [E(t) EXCEPT !.pc = "close", !.outcome = outcome])
Alone == UNCHANGED <<pend, epoch, sync, react>>

(* The worker's process is joined: a turn it was in is cut. *)
Cut(t) ==
    turn' = IF turn[t].state = "busy"
            THEN [turn EXCEPT ![t] = [state |-> "over", result |-> "failed", known |-> FALSE]]
            ELSE turn

(* The agent is gone, the lease is refused, or the directories are taken: *)
(* the task's own, if an earlier attempt still holds them, or handed over. *)
Turned(t) ==
    /\ E(t).pc = "prepare"
    /\ To(t, "save")
    /\ Alone /\ UNCHANGED <<rec, card, reserved, turn>>

Prepare(t) ==
    /\ E(t).pc = "prepare"
    /\ E(t).observing \/ t \notin reserved
    /\ reserved' = IF E(t).observing THEN reserved ELSE reserved \cup {t}
    /\ \/ /\ Save(t, E(t).r)
          /\ To(t, IF E(t).observing THEN "observe" ELSE "choose")
       \/ Quit(t, E(t).outcome) /\ UNCHANGED rec
    /\ Alone /\ UNCHANGED <<card, turn>>

(* Faulty variant: the worker takes the place of those tried before it. *)
ReserveInstead(t) ==
    /\ E(t).pc = "choose"
    /\ ~rec[t].canceled /\ rec[t].state = "running"
    /\ Cardinality(rec[t].tried) = Cardinality(E(t).r.tried)
    /\ Cardinality(E(t).r.tried) < 2 /\ card[t].run < limit.attempts[t]
    /\ \E w \in Workers[t] \ E(t).r.tried :
         LET r == [E(t).r EXCEPT !.worker = w, !.tried = {w}, !.thread = FALSE,
                                 !.snapshot = "none", !.attempt = card[t].run + 1]
         IN /\ Save(t, r)
            /\ Step(t, [E(t) EXCEPT !.pc = "launch", !.r = r])
    /\ Alone /\ UNCHANGED <<card, reserved, turn>>

(* selectWorker and reserveWorker, which reads the record again; the run   *)
(* of the attempt is the card's next.                                      *)
Reserve(t) ==
    /\ E(t).pc = "choose"
    /\ ~rec[t].canceled /\ rec[t].state = "running"
    /\ Cardinality(rec[t].tried) = Cardinality(E(t).r.tried)
    /\ Cardinality(E(t).r.tried) < 2 /\ card[t].run < limit.attempts[t]
    /\ \E w \in Workers[t] \ E(t).r.tried :
         LET r == [E(t).r EXCEPT !.worker = w, !.tried = @ \cup {w}, !.thread = FALSE,
                                 !.snapshot = "none", !.attempt = card[t].run + 1]
         IN /\ Save(t, r)
            /\ Step(t, [E(t) EXCEPT !.pc = "launch", !.r = r])
    /\ Alone /\ UNCHANGED <<card, reserved, turn>>

(* No worker has quota, or none can be had. *)
Unserved(t) ==
    /\ E(t).pc = "choose"
    /\ \/ Cardinality(E(t).r.tried) < 2 /\ \E o \in {"queued", "parked"} : Quit(t, o)
       \/ Quit(t, E(t).outcome)
    /\ Alone /\ UNCHANGED <<rec, card, reserved, turn>>

(* The recovery's scope has changed, or the directories were handed over. *)
Withheld(t) ==
    /\ E(t).pc = "launch"
    /\ Quit(t, E(t).outcome)
    /\ Alone /\ UNCHANGED <<rec, card, reserved, turn>>

NeedsSignIn(t) ==
    /\ E(t).pc = "launch"
    /\ Save(t, E(t).r)
    /\ Step(t, [E(t) EXCEPT !.pc = "choose", !.outcome = "finished"])
    /\ Alone /\ UNCHANGED <<card, reserved, turn>>

(* startAttempt: the turn begins, though the caller may not learn of it. *)
Launch(t) ==
    /\ E(t).pc = "launch"
    /\ \/ /\ turn' = [turn EXCEPT ![t] = [state |-> "busy", result |-> "none", known |-> FALSE]]
          /\ Step(t, [E(t) EXCEPT !.pc = "bind", !.outcome = "unknown"])
       \/ /\ turn' = [turn EXCEPT ![t] = [state |-> "over", result |-> "failed", known |-> FALSE]]
          /\ Quit(t, "unknown")
    /\ Alone /\ UNCHANGED <<rec, card, reserved>>

(* The thread is saved, and a cancel that is already there is passed on. *)
Bind(t) ==
    /\ E(t).pc = "bind"
    /\ LET r == [E(t).r EXCEPT !.thread = TRUE, !.canceled = @ \/ rec[t].canceled]
       IN /\ Save(t, r)
          /\ Step(t, [E(t) EXCEPT !.pc = "start", !.r = r])
    /\ Alone /\ UNCHANGED <<card, reserved, turn>>

(* The card's next run: it drops the receipt of the one before. *)
NextRun(t) ==
    /\ card' = [card EXCEPT ![t] = [NewCard EXCEPT !.run = card[t].run + 1, !.active = TRUE]]
    /\ pend' = pend \ {t}
    /\ UNCHANGED <<epoch, sync, react>>

StartRun(t) ==
    /\ E(t).pc = "start" /\ ~card[t].active
    /\ NextRun(t)
    /\ To(t, "turn")
    /\ UNCHANGED <<rec, reserved, turn>>

(* A tick: the cancel is read from the record. *)
HearCancel(t) ==
    /\ E(t).pc = "turn" /\ ~E(t).r.canceled /\ rec[t].canceled
    /\ Step(t, [E(t) EXCEPT !.r.canceled = TRUE])
    /\ Alone /\ UNCHANGED <<rec, card, reserved, turn>>

(* The worker broke the protocol, or progress could not be recorded. *)
Break(t) ==
    /\ E(t).pc \in {"bind", "start", "turn"}
    /\ Cut(t)
    /\ Quit(t, "unknown")
    /\ Alone /\ UNCHANGED <<rec, card, reserved>>

(* Faulty variant: the worker has to confirm that it stopped. *)
StopConfirmed(t) ==
    /\ E(t).pc = "turn" /\ E(t).r.canceled /\ turn[t].state = "over"
    /\ Quit(t, "unknown")
    /\ Alone /\ UNCHANGED <<rec, card, reserved, turn>>

(* Five seconds after the interrupt nothing has ended. *)
StopExpired(t) ==
    /\ E(t).pc = "turn" /\ E(t).r.canceled
    /\ Quit(t, "unknown")
    /\ Alone /\ UNCHANGED <<rec, card, reserved, turn>>

Expire(t) ==
    /\ E(t).pc = "turn"
    /\ Cut(t)
    /\ Quit(t, "expired")
    /\ Alone /\ UNCHANGED <<rec, card, reserved>>

(* Faulty variant: any quota stop hands the worktree on. *)
QuotaStopAny(t) ==
    /\ E(t).pc = "turn" /\ turn[t].state = "over" /\ turn[t].result = "quota"
    /\ Cardinality(E(t).r.tried) = 1
    /\ card' = [card EXCEPT ![t].active = FALSE]
    /\ Step(t, [E(t) EXCEPT !.pc = "choose", !.outcome = "finished", !.r.snapshot = "none"])
    /\ Alone /\ UNCHANGED <<rec, reserved, turn>>

(* A first worker that stopped on quota with its effects known is replaced.*)
QuotaStop(t) ==
    /\ E(t).pc = "turn" /\ turn[t].state = "over" /\ turn[t].result = "quota"
    /\ Cardinality(E(t).r.tried) = 1 /\ turn[t].known
    /\ card' = [card EXCEPT ![t].active = FALSE]
    /\ Step(t, [E(t) EXCEPT !.pc = "choose", !.outcome = "finished", !.r.snapshot = "none"])
    /\ Alone /\ UNCHANGED <<rec, reserved, turn>>

Evidence(t) == IF turn[t].known THEN "known" ELSE "unsure"

TurnEnds(t) ==
    /\ E(t).pc = "turn" /\ turn[t].state = "over"
    /\ ~(turn[t].result = "quota" /\ Cardinality(E(t).r.tried) = 1 /\ turn[t].known)
    /\ Step(t, [E(t) EXCEPT !.pc = "deliver", !.r.snapshot = Evidence(t)])
    /\ Alone /\ UNCHANGED <<rec, card, reserved, turn>>

(* A later epoch reads how the turn ended, and makes up for its run. *)
ReadTurn(t) ==
    /\ E(t).pc = "observe" /\ turn[t].state = "over"
    /\ IF card[t].run = E(t).r.attempt
         THEN UNCHANGED <<card, pend, epoch, sync, react>>
         ELSE ~card[t].active /\ NextRun(t)
    /\ Step(t, [E(t) EXCEPT !.pc = "deliver", !.r.snapshot = Evidence(t)])
    /\ UNCHANGED <<rec, reserved, turn>>

Unread(t) ==
    /\ E(t).pc = "observe"
    /\ Quit(t, "unknown")
    /\ Alone /\ UNCHANGED <<rec, card, reserved, turn>>

(* Recovered: a new attempt, never a replay of an earlier command. *)
Queued(r) ==
    [r EXCEPT !.state = "queued", !.recoveries = @ + 1, !.tried = {}, !.snapshot = "none"]

(* Faulty variant: a turn is recovered as often as it fails. *)
RecoveredAlways(t, r) ==
    IF r.snapshot = "unsure" THEN [r EXCEPT !.state = "unknown"]
    ELSE IF r.canceled \/ turn[t].result \in {"done", "quota"}
      THEN [r EXCEPT !.state = "finished"]
    ELSE Queued(r)

(* recoveryRecord: unknown, settled, handed to the person, or recovered. *)
Recovered(t, r) ==
    IF r.snapshot = "unsure" THEN [r EXCEPT !.state = "unknown"]
    ELSE IF r.canceled \/ turn[t].result \in {"done", "quota"}
      THEN [r EXCEPT !.state = "finished"]
    ELSE IF r.recoveries >= 1 THEN [r EXCEPT !.state = "decision"]
    ELSE Queued(r)

(* An earlier notice of uncertainty does not announce this result. *)
Delivered(t, r) ==
    LET next == IF r.observed # 0 \/ turn[t].result # "done" THEN Recovered(t, r)
                ELSE [r EXCEPT !.state = "finished"]
    IN [next EXCEPT !.announced = @ /\ next.state = "unknown"]

(* finish, in one transaction: the receipt, the end of the run and what is *)
(* next for the record.  A turn that was read later, or did not succeed,   *)
(* goes through recoveryRecord.  Before that the result may be lost with   *)
(* its evidence, and the ledger refuses it when the run is another one or  *)
(* has its receipt already.                                                *)
Deliver(t) ==
    /\ E(t).pc = "deliver"
    /\ \/ Quit(t, "unknown") /\ UNCHANGED <<rec, card, pend>>
       \/ Quit(t, "delivery") /\ UNCHANGED <<rec, card, pend>>
       \/ /\ card[t].run = E(t).r.attempt /\ ~card[t].receipt
          /\ card' = [card EXCEPT ![t].active = FALSE, ![t].receipt = TRUE]
          /\ pend' = pend \cup {t}
          /\ \E pr \in BOOLEAN :
               /\ pr => turn[t].result = "done"
               /\ rec' = [rec EXCEPT ![t] =
                            Delivered(t, [E(t).r EXCEPT !.canceled = @ \/ rec[t].canceled,
                                                        !.pr = pr])]
          /\ To(t, "check")
    /\ UNCHANGED <<reserved, epoch, sync, react, turn>>

(* Only the committed state may release the directories. *)
Check(t) ==
    /\ E(t).pc = "check"
    /\ Quit(t, IF rec[t].state = "unknown" THEN "delivery" ELSE "delivered")
    /\ Alone /\ UNCHANGED <<rec, card, reserved, turn>>

Released == {"finished", "queued", "delivered"}

(* Faulty variant: the directories go with the execution. *)
CloseAll(t) ==
    /\ E(t).pc = "close"
    /\ IF E(t).observing THEN UNCHANGED turn ELSE Cut(t)
    /\ reserved' = reserved \ {t} /\ To(t, "save")
    /\ Alone /\ UNCHANGED <<rec, card>>

(* The processes are joined, then the directories released, or kept. *)
Close(t) ==
    /\ E(t).pc = "close"
    /\ IF E(t).observing THEN UNCHANGED turn ELSE Cut(t)
    /\ \/ /\ reserved' = IF E(t).outcome \in Released THEN reserved \ {t} ELSE reserved
          /\ To(t, "save")
       \/ /\ Step(t, [E(t) EXCEPT !.pc = "save", !.outcome = "unknown"])
          /\ UNCHANGED reserved
    /\ Alone /\ UNCHANGED <<rec, card>>

(* outcome.saveState. *)
SaveState ==
    [o \in {"finished", "queued", "parked", "unknown"} |-> IF o = "parked" THEN "queued" ELSE o]

End(t) ==
    /\ E(t).pc = "save"
    /\ IF E(t).outcome \in DOMAIN SaveState
         THEN Save(t, [E(t).r EXCEPT !.state = SaveState[E(t).outcome], !.snapshot = "none"])
         ELSE UNCHANGED rec
    /\ Step(t, Idle)
    /\ Alone /\ UNCHANGED <<card, reserved, turn>>

Proceed(t) ==
    /\ Busy(t)
    /\ \/ Turned(t) \/ Prepare(t) \/ Reserve(t) \/ Unserved(t) \/ Withheld(t)
       \/ NeedsSignIn(t) \/ Launch(t) \/ Bind(t) \/ StartRun(t)
       \/ HearCancel(t) \/ StopExpired(t) \/ QuotaStop(t) \/ TurnEnds(t)
       \/ ReadTurn(t) \/ Unread(t) \/ Deliver(t) \/ Check(t) \/ Close(t) \/ End(t)

Execute(t) == Proceed(t) \/ (Busy(t) /\ (Break(t) \/ Expire(t)))

(* The worker's turn; what it did may be known in full or not. *)
WorkEnds(t) ==
    /\ turn[t].state = "busy"
    /\ \E result \in {"done", "failed", "quota"}, known \in BOOLEAN :
         turn' = [turn EXCEPT ![t] = [state |-> "over", result |-> result, known |-> known]]
    /\ UNCHANGED <<rec, card, reserved, pend, epoch, sync, exec, react>>

-----------------------------------------------------------------------------
(* The reactor delivers a completion: Service.React, its Publish, and the  *)
(* manager's verdict and its one return within it.                         *)

Deaf == [pc |-> "idle"]

(* The record's next attempt owns it, or the result was announced. *)
ReactAck(t) ==
    /\ react = Deaf /\ t \in pend
    /\ \/ rec[t].state \in {"queued", "running"}
       \/ rec[t].attempt # card[t].run
       \/ rec[t].announced
    /\ pend' = pend \ {t}
    /\ UNCHANGED <<rec, card, reserved, epoch, sync, exec, react, turn>>

ReactPublish(t) ==
    /\ react = Deaf /\ t \in pend
    /\ rec[t].state \in Settled /\ rec[t].attempt = card[t].run /\ ~rec[t].announced
    /\ react' = [pc |-> "publish", task |-> t, state |-> rec[t].state,
                 returned |-> rec[t].returned, pr |-> rec[t].pr]
    /\ UNCHANGED <<rec, card, reserved, pend, epoch, sync, exec, turn>>

Publishing(t) == react.pc = "publish" /\ react.task = t

Judge(t) ==
    /\ Publishing(t) /\ react.state = "finished" /\ react.pr
    /\ Ended(t) /\ card[t].verdict = ""
    /\ \E v \in {"verified", "needs_changes"} : card' = [card EXCEPT ![t].verdict = v]
    /\ UNCHANGED <<rec, reserved, pend, epoch, sync, exec, react, turn>>

(* ReturnDefinition. *)
Return(t) ==
    /\ Publishing(t) /\ react.state = "finished"
    /\ ~rec[t].returned /\ rec[t].state = "finished" /\ rec[t].pr
    /\ Ended(t) /\ ~card[t].applied /\ card[t].verdict = "needs_changes"
    /\ rec' = [rec EXCEPT ![t].state = "queued", ![t].returned = TRUE, ![t].tried = {},
                          ![t].announced = FALSE, ![t].pr = FALSE]
    /\ react' = [react EXCEPT !.pc = "returned"]
    /\ UNCHANGED <<card, reserved, pend, epoch, sync, exec, turn>>

(* After a return the new attempt owns the record. *)
ReactEnd(t) ==
    /\ react # Deaf /\ react.task = t
    /\ rec' = IF rec[t].state = react.state /\ rec[t].returned = react.returned
              THEN [rec EXCEPT ![t].announced = TRUE] ELSE rec
    /\ react' = Deaf /\ pend' = pend \ {t}
    /\ UNCHANGED <<card, reserved, epoch, sync, exec, turn>>

(* The signal stays for the next sweep. *)
ReactFails ==
    /\ react # Deaf /\ react' = Deaf
    /\ UNCHANGED <<rec, card, reserved, pend, epoch, sync, exec, turn>>

(* The pull request of a verified result is merged. *)
Apply(t) ==
    /\ card[t].verdict = "verified" /\ ~card[t].applied
    /\ card' = [card EXCEPT ![t].applied = TRUE]
    /\ UNCHANGED <<rec, reserved, pend, epoch, sync, exec, react, turn>>

-----------------------------------------------------------------------------
(* A crash or a shutdown, and Open: nothing that may have had an effect is *)
(* run again.                                                              *)
Restart ==
    /\ epoch <= MaxCrashes
    /\ epoch' = epoch + 1
    /\ rec' = [t \in Tasks |->
                 IF rec[t].state = "running" THEN [rec[t] EXCEPT !.state = "unknown"]
                 ELSE rec[t]]
    /\ sync' = Resting /\ exec' = [t \in Tasks |-> Idle] /\ react' = Deaf
    /\ UNCHANGED <<card, reserved, pend, turn>>

Init ==
    /\ rec = [t \in Tasks |-> NoRecord]
    /\ card = [t \in Tasks |-> NewCard]
    /\ reserved = {} /\ pend = {}
    /\ epoch = 1
    /\ sync = Resting /\ exec = [t \in Tasks |-> Idle] /\ react = Deaf
    /\ turn = [t \in Tasks |-> NoTurn]
    /\ limit \in Limits

Reaction(t) ==
    \/ ReactAck(t) \/ ReactPublish(t) \/ Judge(t) \/ Return(t) \/ ReactEnd(t)

Next ==
    /\ \/ Restart \/ ReactFails \/ List
       \/ \E t \in Tasks :
           \/ Pin(t) \/ Admit(t) \/ Cancel(t) \/ Pass(t) \/ Execute(t)
           \/ WorkEnds(t) \/ Reaction(t) \/ Apply(t)
    /\ UNCHANGED limit

Spec == Init /\ [][Next]_vars

(* The loop wakes at least once a minute, its calls return and every pass  *)
(* comes to every record; executions run in goroutines whose waits are     *)
(* bounded, except that a worker may work on for ever.  Nothing is assumed *)
(* of workers, managers and people.                                        *)
FairSpec ==
    /\ Spec
    /\ WF_state(List)
    /\ \A t \in Tasks : SF_state(Pass(t)) /\ WF_state(Proceed(t))

-----------------------------------------------------------------------------
(* Properties. *)

States == {"none", "admitting", "queued", "running"} \cup Settled
Records ==
    [state : States, canceled : BOOLEAN, announced : BOOLEAN, held : BOOLEAN,
     worker : AllWorkers \cup {NoWorker}, tried : SUBSET AllWorkers,
     attempt : Nat, thread : BOOLEAN,
     snapshot : {"none", "known", "unsure"}, recoveries : 0 .. 1, observed : Nat,
     returned : BOOLEAN, pr : BOOLEAN]

Executions ==
    [pc : {"prepare", "choose", "launch", "bind", "start", "turn", "observe", "deliver",
           "check", "close", "save"},
     r : Records, observing : BOOLEAN,
     outcome : {"finished", "queued", "parked", "unknown", "delivered", "delivery",
                "expired"}]
Lists == [Tasks -> Records]
Passes ==
    [pc : {"pass"}, seen : Lists]
    \cup [pc : {"publish"}, task : Tasks, seen : Lists]
Reactions ==
    [pc : {"publish", "returned"}, task : Tasks, state : Settled, returned : BOOLEAN,
     pr : BOOLEAN]
Cards ==
    [run : Nat, active : BOOLEAN, receipt : BOOLEAN,
     verdict : {"", "verified", "needs_changes"}, applied : BOOLEAN]
Turns ==
    [state : {"none", "busy", "over"}, result : {"none", "done", "failed", "quota"},
     known : BOOLEAN]

(* The variables have the types their comments give. *)
TypeOK ==
    /\ rec \in [Tasks -> Records] /\ card \in [Tasks -> Cards]
    /\ reserved \subseteq Tasks /\ pend \subseteq Tasks
    /\ epoch \in Nat
    /\ sync \in Passes
    /\ exec \in [Tasks -> Executions \cup {Idle}]
    /\ react \in Reactions \cup {Deaf}
    /\ turn \in [Tasks -> Turns]
    /\ limit \in Limits

(* What the worker of a task did, or still does, nobody knows. *)
Uncertain(t) ==
    \/ turn[t].state = "busy"
    \/ turn[t].state = "over" /\ ~turn[t].known /\ turn[t].result # "done"

(* Over failures, cancels and restarts, the directories of a task stay     *)
(* reserved until its worker's turn is over and its effects are known.     *)
DirectoriesFenced == \A t \in Tasks : Uncertain(t) => t \in reserved

(* What that rests on.  An execution that runs a worker has reserved the   *)
(* directories; it chooses and launches a worker, or lets the directories  *)
(* go, only when nothing uncertain is left; its record stays the way it    *)
(* was begun until the result is delivered; and the copies in memory, the  *)
(* execution's own and the one of the pass, are of the present attempt, so *)
(* that a late save takes back no launch.                                  *)
Launching(t) == E(t).pc \notin {"idle", "check", "close", "save"}

FenceInv(t) ==
    Busy(t) =>
        /\ E(t).pc \notin {"prepare", "close", "save"} /\ ~E(t).observing => t \in reserved
        /\ E(t).pc = "observe" => E(t).observing
        /\ E(t).pc \in {"choose", "launch", "bind", "start", "turn"} => ~E(t).observing
        /\ E(t).pc \in {"choose", "launch"} =>
             E(t).outcome \in Released /\ ~Uncertain(t)
        /\ E(t).pc = "close" /\ E(t).outcome \in Released => ~Uncertain(t)
        /\ E(t).pc = "deliver" => turn[t].state = "over" /\ E(t).r.snapshot = Evidence(t)
        /\ E(t).pc = "check" => rec[t].state = "unknown" \/ ~Uncertain(t)
        /\ E(t).pc = "prepare" =>
             E(t).outcome = IF E(t).observing THEN "unknown" ELSE "finished"

(* The pass may still save the record of t the way it read it. *)
Copied(t) == Seen(t).state \in Settled \cup {"queued"}

RecordInv(t) ==
    /\ Busy(t) =>
         /\ E(t).r.attempt = rec[t].attempt
         /\ LET begun == IF E(t).observing THEN "unknown" ELSE "running"
            IN /\ Launching(t) => rec[t].state = begun /\ E(t).r.state = begun
               /\ rec[t].state = begun \/ Ended(t)
         /\ E(t).pc = "check" => Ended(t)
    /\ rec[t].state \in {"none", "admitting"} => ~Busy(t)
    /\ Copied(t) =>
         /\ Seen(t).attempt = rec[t].attempt /\ rec[t].state \in Settled \cup {"queued"}
         /\ Busy(t) =>
              \/ E(t).observing /\ Seen(t).state = "unknown"
              \/ /\ ~Launching(t) /\ Ended(t)
                 /\ E(t).pc = "check" => Seen(t).state = "unknown" \/ ~Uncertain(t)
    /\ sync.pc = "publish" /\ sync.task = t => Seen(t).state \in Settled

DispatchInv == \A t \in Tasks : FenceInv(t) /\ RecordInv(t)

(* Of two tasks whose areas meet, the second is handed to a worker only    *)
(* when what the first one made is applied: the end of its worker, of its  *)
(* run or of Core frees nothing.                                           *)
AreaLease ==
    \A t, u \in Tasks :
        {t, u} \in Overlaps /\ rec[t].held /\ rec[u].held =>
            card[t].applied \/ card[u].applied

(* A task whose last turn may have had unknown effects is never given a    *)
(* new one, and no turn is started while one is under way.                 *)
NoReplay ==
    [][\A t \in Tasks :
         turn'[t].state = "busy" /\ turn[t].state # "busy" => ~Uncertain(t)]_vars

(* A cancel is never lost to a record that is saved from memory, and no    *)
(* attempt of a canceled task is reserved.                                 *)
CancelKept ==
    [][\A t \in Tasks : rec[t].canceled =>
         rec'[t].canceled /\ rec'[t].attempt = rec[t].attempt]_vars

(* Canceled work settles, whatever its worker does. *)
CancelSettles ==
    \A t \in Tasks :
        rec[t].canceled /\ rec[t].state \in {"queued", "running"} ~> rec[t].state \in Settled

(* worker/dispatch/REFERENCE.md C-29, "Terminal observations publish to    *)
(* the source conversation and survive restart": a task whose run ended is *)
(* not at rest in a terminal state, unannounced, with no signal left.      *)
TerminalPublished ==
    \A t \in Tasks :
        Ended(t) /\ rec[t].state \in Settled /\ ~Busy(t) /\ t \notin pend => rec[t].announced

(* The dispatcher keeps what AreaLeases promises: a task has its area from *)
(* the moment it is claimed until its result is applied, only then does a  *)
(* worker write for it, and a task whose result is applied is over.        *)
Lease ==
    INSTANCE AreaLeases WITH
        meets <- Overlaps,
        held <- {t \in Tasks : rec[t].held /\ ~card[t].applied},
        writing <- {t \in Tasks : turn[t].state = "busy"},
        over <- {t \in Tasks : card[t].applied}

Leases == Lease!Spec

(* One delegation is worked on at most six times, over failures, recovered *)
(* turns, crashes and corrections: two workers when it is first given out, *)
(* two more when its turn failed and is recovered (recovery.go), and two   *)
(* for the one correction its manager may return (return.go).              *)
AtMostSixTurns == \A t \in Tasks : card[t].run <= 6

(* The ledger refuses to start a run while the last one is not over, and   *)
(* the worker that was launched for it would be cut with unknown effects.  *)
(* That never happens: whoever starts a run, the execution after its       *)
(* launch or a later epoch that read the turn, finds the last run over,    *)
(* and the run is the one its attempt was reserved for.                    *)
StartsUnhindered ==
    \A t \in Tasks :
        Busy(t) /\ (E(t).pc = "start" \/ (E(t).pc = "observe" /\ card[t].run # E(t).r.attempt)) =>
            ~card[t].active /\ card[t].run + 1 = rec[t].attempt
=============================================================================
