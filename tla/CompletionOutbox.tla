-------------------------- MODULE CompletionOutbox --------------------------
(***************************************************************************)
(* The outbox of finished work: the signals that internal/core/work writes *)
(* in the transaction that ends a run or records its receipt, their claims *)
(* (work/completion.go), the reactor that drains them (reactor/reactor.go) *)
(* and the manager turn a signal starts (boot/completions.go).             *)
(*                                                                         *)
(* Abstractions.  A canon transaction is one step.  A receipt is a value   *)
(* that stands for its event id and, for a task that delivers files, for   *)
(* the fingerprint of the files; outcomes and turn statuses are one value. *)
(* A signal's id is a digest of its fields, so a signal is its own id.     *)
(* Tasks of the worker dispatcher, which answers On itself, are left out.  *)
(***************************************************************************)
EXTENDS Integers, FiniteSets, Functions

CONSTANTS
    Tasks,
    FileTasks,    \* tasks that deliver files to a destination
    Receipts,     \* the receipts a worker of each task may hand in
    Heads,        \* the Git heads of each task
    NoHead, NoReceipt, NoSignal,
    MaxRuns,      \* bound: runs of a task
    MaxMoves,     \* bound: heads observed, files handed in again, blocked results
    MaxFaults     \* bound: reactions that fail and crashes of Core

ASSUME TasksAssumption ==
    /\ FileTasks \subseteq Tasks
    /\ DOMAIN Receipts = Tasks /\ DOMAIN Heads = Tasks
    /\ \A t \in Tasks : NoReceipt \notin Receipts[t] /\ NoHead \notin Heads[t]
ASSUME BoundsAssumption == {MaxRuns, MaxMoves, MaxFaults} \subseteq Nat

Runs == 1 .. MaxRuns
AllHeads == {NoHead} \cup UNION {Heads[t] : t \in Tasks}
AllReceipts == UNION {Receipts[t] : t \in Tasks}
Signals ==
    {s \in [task : Tasks, attempt : Runs, head : AllHeads, receipt : AllReceipts] :
        s.head \in Heads[s.task] \cup {NoHead} /\ s.receipt \in Receipts[s.task]}

ASSUME SignalAssumption == NoSignal \notin Signals

NoEpoch == 0

VARIABLES
    run,             \* Card.Run's generation
    ended,           \* Card.TurnStatus is set, and so the run is not active
    receipt,         \* Card.Receipt
    head,            \* Card.Head
    completionHead,  \* Card.CompletionHead
    verdict,         \* Card.Verdict is set
    rows,            \* work_completions
    claim,           \* work_completion_claims.state
    owner,           \* work_completion_claims.epoch, while it is claimed
    turn,            \* turn_runs.state of the turn each signal started
    epoch,           \* the epoch of the running Core
    pc,              \* where the reactor is
    woken,           \* the channel of canon.Changed it holds has closed
    todo,            \* the rest of the pending signals Drain goes through
    now,             \* the signal it reacts to
    excused,         \* history: signals it found replaced or judged
    moves, faults

card == <<run, ended, receipt, head, completionHead, verdict>>
outbox == <<rows, claim, owner>>
reactor == <<epoch, pc, woken, todo, now>>
bounds == <<moves, faults>>
vars == <<card, outbox, turn, reactor, excused, bounds>>

-----------------------------------------------------------------------------
(* Signals of cards. *)

(* completionFor. *)
Ended(t) == run[t] # 0 /\ ended[t] /\ receipt[t] # NoReceipt
SignalOf(t) ==
    [task |-> t, attempt |-> run[t], head |-> completionHead[t], receipt |-> receipt[t]]

SameKey(s, r) == s.task = r.task /\ s.attempt = r.attempt /\ s.head = r.head

(* insertCompletion: one row for a task, an attempt and a head. *)
WithRow(R, s) == {r \in R : ~SameKey(r, s)} \cup {s}

(* What the card of t would signal after the present event. *)
Insert(t) ==
    rows' = IF Ended(t)' THEN WithRow(rows, SignalOf(t)') ELSE rows

Commit == woken' = TRUE

-----------------------------------------------------------------------------
(* The work: runs, receipts, heads and verdicts. *)

(* An event of the ledger, and one that insertCompletion follows. *)
Recorded == Commit /\ UNCHANGED <<outbox, turn, epoch, pc, todo, now, excused>>
Signalled(t) ==
    /\ Insert(t) /\ Commit
    /\ UNCHANGED <<claim, owner, turn, epoch, pc, todo, now, excused>>

Start(t) ==
    /\ run[t] < MaxRuns
    /\ run[t] # 0 => ended[t]
    /\ run' = [run EXCEPT ![t] = @ + 1]
    /\ ended' = [ended EXCEPT ![t] = FALSE]
    /\ receipt' = [receipt EXCEPT ![t] = NoReceipt]
    /\ head' = [head EXCEPT ![t] = NoHead]
    /\ completionHead' = [completionHead EXCEPT ![t] = NoHead]
    /\ verdict' = [verdict EXCEPT ![t] = FALSE]
    /\ Recorded /\ UNCHANGED bounds

(* FinishIn; the head is the one the pull request had, if there is one. *)
Finish(t) ==
    /\ run[t] # 0 /\ ~ended[t]
    /\ ended' = [ended EXCEPT ![t] = TRUE]
    /\ \E h \in Heads[t] \cup {NoHead} :
         /\ head' = [head EXCEPT ![t] = h]
         /\ completionHead' = [completionHead EXCEPT ![t] = h]
    /\ UNCHANGED <<run, receipt, verdict>>
    /\ Signalled(t) /\ UNCHANGED bounds

(* Faulty variant: a receipt that comes after the end signals nothing. *)
SubmitQuiet(t) ==
    /\ t \notin FileTasks
    /\ run[t] # 0 /\ receipt[t] = NoReceipt
    /\ \E r \in Receipts[t] : receipt' = [receipt EXCEPT ![t] = r]
    /\ UNCHANGED <<run, ended, head, completionHead, verdict>>
    /\ Recorded /\ UNCHANGED bounds

(* A repository task has one receipt for a run, before or after its end. *)
Submit(t) ==
    /\ t \notin FileTasks
    /\ run[t] # 0 /\ receipt[t] = NoReceipt
    /\ \E r \in Receipts[t] : receipt' = [receipt EXCEPT ![t] = r]
    /\ UNCHANGED <<run, ended, head, completionHead, verdict>>
    /\ Signalled(t) /\ UNCHANGED bounds

(* A file task may hand in its files again, changed: they are judged anew. *)
SubmitFiles(t) ==
    /\ t \in FileTasks
    /\ run[t] # 0
    /\ IF receipt[t] = NoReceipt THEN UNCHANGED moves
         ELSE moves < MaxMoves /\ moves' = moves + 1
    /\ \E r \in Receipts[t] \ {receipt[t]} : receipt' = [receipt EXCEPT ![t] = r]
    /\ verdict' = [verdict EXCEPT ![t] = FALSE]
    /\ UNCHANGED <<run, ended, head, completionHead>>
    /\ Signalled(t) /\ UNCHANGED faults

(* RestoreCompletionHead. *)
RestoreHead(t) ==
    /\ Ended(t) /\ head[t] = NoHead /\ completionHead[t] = NoHead
    /\ \E h \in Heads[t] :
         /\ head' = [head EXCEPT ![t] = h]
         /\ completionHead' = [completionHead EXCEPT ![t] = h]
    /\ UNCHANGED <<run, ended, receipt, verdict>>
    /\ Signalled(t) /\ UNCHANGED bounds

ObserveHead(t) ==
    /\ run[t] # 0 /\ moves < MaxMoves
    /\ \E h \in Heads[t] \ {head[t]} : head' = [head EXCEPT ![t] = h]
    /\ moves' = moves + 1
    /\ UNCHANGED <<run, ended, receipt, completionHead, verdict>>
    /\ Recorded /\ UNCHANGED faults

Judge(t) ==
    /\ Ended(t) /\ ~verdict[t]
    /\ verdict' = [verdict EXCEPT ![t] = TRUE]
    /\ UNCHANGED <<run, ended, receipt, head, completionHead>>
    /\ Recorded /\ UNCHANGED bounds

(* The forge blocks a judged result: it has to be judged again. *)
Block(t) ==
    /\ Ended(t) /\ verdict[t] /\ moves < MaxMoves
    /\ moves' = moves + 1
    /\ verdict' = [verdict EXCEPT ![t] = FALSE]
    /\ UNCHANGED <<run, ended, receipt, head, completionHead>>
    /\ Recorded /\ UNCHANGED faults

Work ==
    \E t \in Tasks :
        \/ Start(t) \/ Finish(t) \/ Submit(t) \/ SubmitFiles(t)
        \/ RestoreHead(t) \/ ObserveHead(t) \/ Judge(t) \/ Block(t)

-----------------------------------------------------------------------------
(* The reactor of one Core. *)

Pending ==
    {s \in rows : claim[s] = "none" \/ (claim[s] = "claimed" /\ owner[s] # epoch)}

(* changed := DB.Changed(): the channel is taken before the signals are read. *)
Subscribe == pc' = "read" /\ woken' = FALSE

(* ReconcileCompletions: a missing row is written again. *)
Reconciled ==
    LET present == {SignalOf(t) : t \in {u \in Tasks : Ended(u)}}
    IN {r \in rows : \A s \in present : ~SameKey(r, s)} \cup present

(* Core starts: active turns are aborted, never run again, and signals are *)
(* repaired before anything is served.                                     *)
Open ==
    /\ pc = "down"
    /\ epoch' = epoch + 1
    /\ turn' = [s \in Signals |-> IF turn[s] = "active" THEN "over" ELSE turn[s]]
    /\ rows' = Reconciled
    /\ Subscribe
    /\ UNCHANGED <<card, claim, owner, todo, now, excused, bounds>>

Read ==
    /\ pc = "read"
    /\ todo' = Pending
    /\ pc' = "drain"
    /\ UNCHANGED <<card, outbox, turn, epoch, woken, now, excused, bounds>>

(* The card still shows s, and its head has not moved since. *)
Current(s) ==
    Ended(s.task) /\ SignalOf(s.task) = s /\ head[s.task] = s.head

(* ClaimCompletion: recheck the card and take the claim, or drop the signal. *)
(* Nobody else claims, so that a signal of todo is still pending.           *)
Claim(s) ==
    /\ pc = "drain" /\ s \in todo /\ s \in rows
    /\ todo' = todo \ {s}
    /\ \/ /\ Current(s)
          /\ claim' = [claim EXCEPT ![s] = "claimed"]
          /\ owner' = [owner EXCEPT ![s] = epoch]
          /\ now' = s
          /\ IF verdict[s.task] THEN pc' = "ack" /\ excused' = excused \cup {s}
             ELSE pc' = "react" /\ UNCHANGED excused
       \/ /\ ~Current(s)
          /\ claim' = [claim EXCEPT ![s] = "ignored"]
          /\ owner' = [owner EXCEPT ![s] = NoEpoch]
          /\ excused' = excused \cup {s}
          /\ UNCHANGED <<now, pc>>
    /\ Commit
    /\ UNCHANGED <<card, rows, turn, epoch, bounds>>

(* The row was replaced since the list was read: Drain gives up. *)
Missing(s) ==
    /\ pc = "drain" /\ s \in todo /\ s \notin rows
    /\ todo' = {}
    /\ pc' = "wait"
    /\ UNCHANGED <<card, outbox, turn, epoch, woken, now, excused, bounds>>

Drained ==
    /\ pc = "drain" /\ todo = {}
    /\ pc' = "wait"
    /\ UNCHANGED <<card, outbox, turn, epoch, woken, todo, now, excused, bounds>>

(* Faulty variant: the lane trusts the card it was queued with. *)
RecheckNothing ==
    /\ pc = "react"
    /\ pc' = "turn"
    /\ UNCHANGED <<card, outbox, turn, epoch, woken, todo, now, excused, bounds>>

(* reactCompletion has queued the signal in the manager's lane; when the   *)
(* lane comes to it the card is read once more.                            *)
Recheck ==
    /\ pc = "react"
    /\ IF run[now.task] = now.attempt /\ head[now.task] = now.head /\ receipt[now.task] = now.receipt
         THEN pc' = "turn" /\ UNCHANGED excused
         ELSE pc' = "ack" /\ excused' = excused \cup {now}
    /\ UNCHANGED <<card, outbox, turn, epoch, woken, todo, now, bounds>>

(* The turn claims its inbox row, unless an earlier turn has (ErrAccepted). *)
BeginTurn ==
    /\ pc = "turn"
    /\ IF turn[now] = "none"
         THEN turn' = [turn EXCEPT ![now] = "active"] /\ pc' = "talk"
         ELSE pc' = "ack" /\ UNCHANGED turn
    /\ Commit
    /\ UNCHANGED <<card, outbox, epoch, todo, now, excused, bounds>>

EndTurn ==
    /\ pc = "talk"
    /\ turn' = [turn EXCEPT ![now] = "over"]
    /\ pc' = "ack"
    /\ Commit
    /\ UNCHANGED <<card, outbox, epoch, todo, now, excused, bounds>>

(* The reaction fails where it is; the claim stays for the retry. *)
Fail ==
    /\ pc \in {"react", "turn", "talk", "ack"} /\ faults < MaxFaults
    /\ faults' = faults + 1
    /\ turn' = IF pc = "talk" THEN [turn EXCEPT ![now] = "over"] ELSE turn
    /\ pc' = "drain" /\ now' = NoSignal
    /\ Commit
    /\ UNCHANGED <<card, outbox, epoch, todo, excused, moves>>

(* AcknowledgeCompletion. *)
Acknowledge ==
    /\ pc = "ack"
    /\ IF claim[now] = "claimed" /\ owner[now] = epoch
         THEN /\ claim' = [claim EXCEPT ![now] = "handled"]
              /\ owner' = [owner EXCEPT ![now] = NoEpoch]
         ELSE UNCHANGED <<claim, owner>>
    /\ pc' = "drain" /\ now' = NoSignal
    /\ Commit
    /\ UNCHANGED <<card, rows, turn, epoch, todo, excused, bounds>>

Wake ==
    /\ pc = "wait" /\ woken
    /\ Subscribe
    /\ UNCHANGED <<card, outbox, turn, epoch, todo, now, excused, bounds>>

(* Faulty variants: the sweep clears the state of a claim instead of its   *)
(* epoch, or releases no claim.                                            *)
SweepBlanks ==
    /\ pc = "wait"
    /\ rows' = Reconciled
    /\ claim' = [s \in Signals |->
                   IF claim[s] = "claimed" /\ owner[s] = epoch THEN "" ELSE claim[s]]
    /\ Subscribe
    /\ UNCHANGED <<card, owner, turn, epoch, todo, now, excused, bounds>>
SweepOnly ==
    /\ pc = "wait"
    /\ rows' = Reconciled
    /\ Subscribe
    /\ UNCHANGED <<card, claim, owner, turn, epoch, todo, now, excused, bounds>>

(* The ticker: repair the rows, then release this reactor's own claims. *)
Sweep ==
    /\ pc = "wait"
    /\ rows' = Reconciled
    /\ owner' = [s \in Signals |->
                   IF claim[s] = "claimed" /\ owner[s] = epoch THEN NoEpoch ELSE owner[s]]
    /\ Subscribe
    /\ UNCHANGED <<card, claim, turn, epoch, todo, now, excused, bounds>>

Crash ==
    /\ pc # "down" /\ faults < MaxFaults
    /\ faults' = faults + 1
    /\ pc' = "down"
    /\ todo' = {} /\ now' = NoSignal /\ woken' = FALSE
    /\ UNCHANGED <<card, outbox, turn, epoch, excused, moves>>

-----------------------------------------------------------------------------
Init ==
    /\ run = [t \in Tasks |-> 0]
    /\ ended = [t \in Tasks |-> FALSE]
    /\ receipt = [t \in Tasks |-> NoReceipt]
    /\ head = [t \in Tasks |-> NoHead]
    /\ completionHead = [t \in Tasks |-> NoHead]
    /\ verdict = [t \in Tasks |-> FALSE]
    /\ rows = {}
    /\ claim = [s \in Signals |-> "none"]
    /\ owner = [s \in Signals |-> NoEpoch]
    /\ turn = [s \in Signals |-> "none"]
    /\ epoch = 0 /\ pc = "down" /\ woken = FALSE /\ todo = {} /\ now = NoSignal
    /\ excused = {}
    /\ moves = 0 /\ faults = 0

React ==
    \/ Open \/ Read
    \/ \E s \in todo : Claim(s) \/ Missing(s)
    \/ Drained \/ Recheck \/ BeginTurn \/ EndTurn \/ Acknowledge \/ Wake

Next ==
    \/ pc # "down" /\ Work
    \/ React \/ Sweep \/ Fail \/ Crash

Spec == Init /\ [][Next]_vars

(* Core is started again after a crash, the reactor's goroutine runs, turns *)
(* end, and a tick of its timer is seen: select chooses at random between  *)
(* a tick and a change that are both there.                                *)
FairSpec == Spec /\ WF_vars(React) /\ SF_vars(Sweep)

-----------------------------------------------------------------------------
(* Properties. *)

Places == {"down", "read", "drain", "react", "turn", "talk", "ack", "wait"}
Reacting == {"react", "turn", "talk", "ack"}

(* The variables have the types their comments give. *)
TypeOK ==
    /\ run \in [Tasks -> 0 .. MaxRuns]
    /\ ended \in [Tasks -> BOOLEAN]
    /\ receipt \in [Tasks -> AllReceipts \cup {NoReceipt}]
    /\ head \in [Tasks -> AllHeads] /\ completionHead \in [Tasks -> AllHeads]
    /\ \A t \in Tasks :
         /\ receipt[t] \in Receipts[t] \cup {NoReceipt}
         /\ {head[t], completionHead[t]} \subseteq Heads[t] \cup {NoHead}
    /\ verdict \in [Tasks -> BOOLEAN]
    /\ rows \subseteq Signals
    /\ claim \in [Signals -> {"none", "claimed", "handled", "ignored"}]
    /\ owner \in [Signals -> Nat]
    /\ turn \in [Signals -> {"none", "active", "over"}]
    /\ epoch \in Nat /\ pc \in Places /\ woken \in BOOLEAN
    /\ todo \subseteq Signals
    /\ now \in Signals \cup {NoSignal}
    /\ excused \subseteq Signals
    /\ moves \in Nat /\ faults \in Nat

(* Whatever order end, receipt and head arrive in, the result a card shows *)
(* has its row, and it is the only row for its task, attempt and head.     *)
RowForResult ==
    /\ \A t \in Tasks : Ended(t) => SignalOf(t) \in rows
    /\ \A r, s \in rows : SameKey(r, s) => r = s

(* A signal is settled, over crashes and retries, only when its turn has   *)
(* begun or it was found replaced or judged, and nobody is told of it then.*)
SettledIsAccounted ==
    \A s \in Signals :
        claim[s] \in {"handled", "ignored"} => turn[s] # "none" \/ s \in excused

(* No signal is worked on under two claims, and an active turn is the one  *)
(* the reactor waits for or one a dead Core left behind.                   *)
OneReaction ==
    /\ pc \in Reacting => claim[now] = "claimed" /\ owner[now] = epoch
    /\ \A s \in Signals : turn[s] = "active" => pc = "down" \/ (pc = "talk" /\ now = s)

(* What all of this rests on.  A signal in the outbox or in work was sent  *)
(* for a result that has ended; if its run is still the last one, then the *)
(* head it names is the one the run ended with, or a pull request was      *)
(* found for it later.  What Drain has left is still unclaimed by this     *)
(* epoch, and what waits for its acknowledgement has been told or excused. *)
Known(s) ==
    /\ s.attempt <= run[s.task]
    /\ s.attempt = run[s.task] =>
         /\ ended[s.task] /\ receipt[s.task] # NoReceipt
         /\ \/ s.head = completionHead[s.task]
            \/ s.head = NoHead /\ head[s.task] # NoHead

ReactorInv ==
    /\ pc \in Reacting <=> now # NoSignal
    /\ pc \in {"down", "read", "wait"} => todo = {}
    /\ \A s \in todo : claim[s] = "none" \/ (claim[s] = "claimed" /\ owner[s] # epoch)
    /\ pc = "talk" => turn[now] = "active"
    /\ pc = "ack" => turn[now] # "none" \/ now \in excused

OutboxInv ==
    /\ \A s \in rows : Known(s)
    /\ now # NoSignal => Known(now)
    /\ ReactorInv

(* No wake-up is lost: while the reactor waits for a change it has not      *)
(* heard of, no signal is left that Drain would have taken.                *)
NoSignalUnheard == pc = "wait" /\ ~woken => Pending = {}

(* The outbox implements SignalDelivery. *)
Delivery ==
    INSTANCE SignalDelivery WITH
        live <- [t \in Tasks |->
                   IF Current(SignalOf(t)) THEN SignalOf(t) ELSE NoSignal],
        judged <- {t \in Tasks : verdict[t]},
        chosen <- IF pc = "turn" THEN now ELSE NoSignal,
        told <- {s \in Signals : turn[s] # "none"},
        settled <- {s \in Signals : claim[s] \in {"handled", "ignored"}}

(* Each result is told at most once, only after it was seen to be the      *)
(* present one, and never once it is settled.                              *)
Delivers == Delivery!Spec

(* A result that stays the present one of its task, unjudged, is told to   *)
(* the manager in the end, unless its head had moved when it was claimed.  *)
ResultsTold ==
    \A s \in Signals :
        <>[](Current(s) /\ ~verdict[s.task]) => <>(turn[s] # "none" \/ s \in excused)
=============================================================================
