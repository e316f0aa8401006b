----------------------- MODULE CompletionOutboxProofs -----------------------
(***************************************************************************)
(* Proofs about CompletionOutbox for every set of tasks, receipts and heads *)
(* and every bound: the invariants, and that it implements SignalDelivery. *)
(***************************************************************************)
EXTENDS CompletionOutbox, TLAPS

Inv == TypeOK /\ RowForResult /\ SettledIsAccounted /\ OneReaction /\ OutboxInv

-----------------------------------------------------------------------------
(* Steps of the work. *)

(* A work step of t leaves the other cards, the claims and the reactor. *)
Aside(t) ==
    /\ UNCHANGED <<claim, owner, turn, epoch, pc, todo, now, excused>>
    /\ \A u \in Tasks \ {t} :
         /\ run'[u] = run[u] /\ ended'[u] = ended[u] /\ receipt'[u] = receipt[u]
         /\ head'[u] = head[u] /\ completionHead'[u] = completionHead[u]

LEMMA WorkShape ==
  ASSUME TypeOK, NEW t \in Tasks,
         \/ Start(t) \/ Finish(t) \/ Submit(t) \/ SubmitFiles(t)
         \/ RestoreHead(t) \/ ObserveHead(t) \/ Judge(t) \/ Block(t)
  PROVE  /\ Aside(t)
         /\ Recorded \/ Signalled(t)
         /\ run' \in [Tasks -> 0 .. MaxRuns] /\ ended' \in [Tasks -> BOOLEAN]
         /\ receipt' \in [Tasks -> AllReceipts \cup {NoReceipt}]
         /\ head' \in [Tasks -> AllHeads] /\ completionHead' \in [Tasks -> AllHeads]
         /\ receipt'[t] \in Receipts[t] \cup {NoReceipt}
         /\ {head'[t], completionHead'[t]} \subseteq Heads[t] \cup {NoHead}
         /\ verdict' \in [Tasks -> BOOLEAN] /\ moves' \in Nat /\ faults' \in Nat
         /\ \/ Start(t) /\ ~ended'[t] /\ run'[t] = run[t] + 1
            \/ /\ run'[t] = run[t] /\ run[t] # 0
               /\ \A s \in Signals : s.task = t /\ Known(s) => Known(s)'
<1> USE DEF TypeOK, Aside, Recorded, Signalled, Commit, Insert, outbox, bounds, Known
<1>0. run[t] \in 0 .. MaxRuns /\ MaxRuns \in Nat
  BY BoundsAssumption
<1>1. CASE Start(t)
  BY <1>0, <1>1 DEF Start, AllHeads
<1>2. CASE Finish(t)
  BY <1>0, <1>2 DEF Finish, AllHeads
<1>3. CASE Submit(t)
  BY <1>0, <1>3 DEF Submit, AllReceipts
<1>4. CASE SubmitFiles(t)
  <2>1. \A r \in Receipts[t] : r # NoReceipt
    BY TasksAssumption
  <2> QED
    BY <1>0, <1>4, <2>1 DEF SubmitFiles, AllReceipts
<1>5. CASE RestoreHead(t)
  <2>1. \A h \in Heads[t] : h # NoHead
    BY TasksAssumption
  <2> QED
    BY <1>0, <1>5, <2>1 DEF RestoreHead, Ended, AllHeads
<1>6. CASE ObserveHead(t)
  <2>1. \A h \in Heads[t] : h # NoHead
    BY TasksAssumption
  <2> QED
    BY <1>0, <1>6, <2>1 DEF ObserveHead, AllHeads
<1>7. CASE Judge(t) \/ Block(t)
  <2>1. /\ UNCHANGED <<run, ended, receipt, head, completionHead>> /\ Recorded
        /\ run[t] # 0 /\ verdict' \in [Tasks -> BOOLEAN]
        /\ moves' \in Nat /\ faults' = faults
    <3>1. CASE Judge(t)
      BY <3>1 DEF Judge, Ended
    <3>2. CASE Block(t)
      BY <3>2 DEF Block, Ended
    <3> QED
      BY <1>7, <3>1, <3>2
  <2>2. \A s \in Signals : Known(s) => Known(s)'
    BY <2>1
  <2> QED
    BY <2>1, <2>2
<1> QED
  BY <1>1, <1>2, <1>3, <1>4, <1>5, <1>6, <1>7

(* The rows after a step of t: what they say of its task is still known.   *)
LEMMA WorkKeepsRows ==
  ASSUME Inv, NEW t \in Tasks, Aside(t), Recorded \/ Signalled(t),
         run' \in [Tasks -> 0 .. MaxRuns], TypeOK',
         \/ Start(t) /\ ~ended'[t] /\ run'[t] = run[t] + 1
         \/ /\ run'[t] = run[t] /\ run[t] # 0
            /\ \A s \in Signals : s.task = t /\ Known(s) => Known(s)'
  PROVE  /\ \A s \in Signals : Known(s) => Known(s)'
         /\ \A s \in rows' : Known(s)'
<1>1. ASSUME NEW s \in Signals, Known(s) PROVE Known(s)'
  <2>1. s.task \in Tasks /\ s.attempt \in Nat
    BY DEF Signals, Runs
  <2>2. CASE s.task # t
    BY <1>1, <2>1, <2>2 DEF Known, Aside
  <2>3. CASE s.task = t /\ run'[t] = run[t] + 1
    BY <1>1, <2>1, <2>3 DEF Known, Inv, TypeOK
  <2> QED
    BY <1>1, <2>1, <2>2, <2>3
<1>2. ASSUME NEW s \in rows' PROVE Known(s)'
  <2>1. CASE s \in rows
    BY <1>1, <2>1 DEF Inv, OutboxInv, TypeOK
  <2>2. CASE s \notin rows
    <3>1. Ended(t)' /\ s = SignalOf(t)'
      BY <1>2, <2>2 DEF Recorded, Signalled, Insert, WithRow, outbox
    <3> QED
      BY <3>1 DEF Ended, SignalOf, Known, TypeOK
  <2> QED
    BY <2>1, <2>2
<1> QED
  BY <1>1, <1>2

(* The rows still hold the result of each card, and one row for each key.  *)
LEMMA WorkKeepsRow ==
  ASSUME Inv, NEW t \in Tasks, Aside(t), Recorded \/ Signalled(t), TypeOK',
         \/ Signalled(t)
         \/ ~ended'[t]
         \/ /\ Recorded
            /\ UNCHANGED <<run, ended, receipt, completionHead>>
  PROVE  RowForResult'
<1>1. ASSUME NEW u \in Tasks, Ended(u)' PROVE SignalOf(u)' \in rows'
  <2>1. CASE u = t
    <3>1. CASE Signalled(t)
      BY <1>1, <2>1, <3>1 DEF Signalled, Insert, WithRow
    <3>2. CASE ~ended'[t]
      BY <1>1, <2>1, <3>2 DEF Ended
    <3>3. CASE Recorded /\ UNCHANGED <<run, ended, receipt, completionHead>>
      BY <1>1, <3>3 DEF Ended, SignalOf, Recorded, outbox, Inv, RowForResult
    <3> QED
      BY <3>1, <3>2, <3>3
  <2>2. CASE u # t
    <3>1. Ended(u) /\ SignalOf(u)' = SignalOf(u)
      BY <1>1, <2>2 DEF Ended, SignalOf, Aside
    <3>2. SignalOf(u) \in rows
      BY <3>1 DEF Inv, RowForResult
    <3>3. ~SameKey(SignalOf(u), SignalOf(t)')
      BY <2>2 DEF SameKey, SignalOf
    <3> QED
      BY <3>1, <3>2, <3>3 DEF Recorded, Signalled, Insert, WithRow, outbox, SameKey
  <2> QED
    BY <2>1, <2>2
<1>2. ASSUME NEW r \in rows', NEW s \in rows', SameKey(r, s) PROVE r = s
  <2>1. r \in rows /\ s \in rows => r = s
    BY <1>2 DEF Inv, RowForResult
  <2> QED
    BY <1>2, <2>1 DEF Recorded, Signalled, Insert, WithRow, outbox, SameKey
<1> QED
  BY <1>1, <1>2 DEF RowForResult

LEMMA WorkKeeps ==
  ASSUME Inv, Work PROVE Inv'
<1>1. PICK t \in Tasks :
        \/ Start(t) \/ Finish(t) \/ Submit(t) \/ SubmitFiles(t)
        \/ RestoreHead(t) \/ ObserveHead(t) \/ Judge(t) \/ Block(t)
  BY DEF Work
<1>2. /\ Aside(t)
      /\ Recorded \/ Signalled(t)
      /\ run' \in [Tasks -> 0 .. MaxRuns] /\ ended' \in [Tasks -> BOOLEAN]
      /\ receipt' \in [Tasks -> AllReceipts \cup {NoReceipt}]
      /\ head' \in [Tasks -> AllHeads] /\ completionHead' \in [Tasks -> AllHeads]
      /\ receipt'[t] \in Receipts[t] \cup {NoReceipt}
      /\ {head'[t], completionHead'[t]} \subseteq Heads[t] \cup {NoHead}
      /\ verdict' \in [Tasks -> BOOLEAN] /\ moves' \in Nat /\ faults' \in Nat
      /\ \/ Start(t) /\ ~ended'[t] /\ run'[t] = run[t] + 1
         \/ /\ run'[t] = run[t] /\ run[t] # 0
            /\ \A s \in Signals : s.task = t /\ Known(s) => Known(s)'
  BY <1>1, WorkShape DEF Inv
<1>3. TypeOK'
  <2>1. run'[t] # 0 /\ ended'[t] /\ receipt'[t] # NoReceipt => SignalOf(t)' \in Signals
    BY <1>2 DEF SignalOf, Signals, Runs
  <2>2. rows' \subseteq Signals
    BY <1>2, <2>1 DEF Recorded, Signalled, Insert, WithRow, outbox, Ended, Inv, TypeOK
  <2>3. \A u \in Tasks :
          /\ receipt'[u] \in Receipts[u] \cup {NoReceipt}
          /\ {head'[u], completionHead'[u]} \subseteq Heads[u] \cup {NoHead}
    BY <1>2 DEF Inv, TypeOK, Aside
  <2>4. UNCHANGED <<claim, owner, turn, epoch, pc, todo, now, excused>> /\ woken' \in BOOLEAN
    BY <1>2 DEF Aside, Recorded, Signalled, Commit
  <2> QED
    BY <1>2, <2>2, <2>3, <2>4 DEF Inv, TypeOK
<1>4. /\ \A s \in Signals : Known(s) => Known(s)'
      /\ \A s \in rows' : Known(s)'
  BY <1>2, <1>3, WorkKeepsRows
<1>5. RowForResult'
  <2>1. \/ Signalled(t) \/ ~ended'[t]
        \/ Recorded /\ UNCHANGED <<run, ended, receipt, completionHead>>
    BY <1>1, <1>2 DEF Finish, Submit, SubmitFiles, RestoreHead, ObserveHead, Judge, Block,
         Start, Inv, TypeOK
  <2> QED
    BY <1>2, <1>3, <2>1, WorkKeepsRow
<1>6. OutboxInv'
  BY <1>2, <1>4 DEF OutboxInv, Inv, ReactorInv, Aside, TypeOK
<1> QED
  BY <1>2, <1>3, <1>5, <1>6 DEF Inv, SettledIsAccounted, OneReaction, Aside

-----------------------------------------------------------------------------
(* The reactor. *)

(* Reconciling writes nothing: no row is ever missing. *)
LEMMA NothingMissing ==
  ASSUME Inv PROVE Reconciled = rows
<1>1. \A t \in Tasks : Ended(t) => SignalOf(t) \in rows
  BY DEF Inv, RowForResult
<1>2. ASSUME NEW r \in rows, NEW t \in Tasks, Ended(t), SameKey(SignalOf(t), r)
      PROVE r = SignalOf(t)
  BY <1>1, <1>2 DEF Inv, RowForResult
<1>3. Reconciled \subseteq rows
  BY <1>1 DEF Reconciled
<1>4. ASSUME NEW r \in rows PROVE r \in Reconciled
  <2>1. CASE \E t \in Tasks : Ended(t) /\ SameKey(SignalOf(t), r)
    BY <1>2, <2>1 DEF Reconciled
  <2>2. CASE ~\E t \in Tasks : Ended(t) /\ SameKey(SignalOf(t), r)
    BY <2>2 DEF Reconciled, SameKey
  <2> QED
    BY <2>1, <2>2
<1> QED
  BY <1>3, <1>4

LEMMA ReactorKeeps ==
  ASSUME Inv, React \/ Sweep \/ Fail \/ Crash PROVE Inv'
<1> USE DEF Inv, TypeOK, Places, Reacting, card, outbox, bounds, Commit, Subscribe
<1>1. UNCHANGED <<card, rows>>
  BY NothingMissing DEF React, Open, Read, Claim, Missing, Drained, Recheck, BeginTurn,
       EndTurn, Acknowledge, Wake, Sweep, Fail, Crash
<1>2. RowForResult' /\ \A s \in Signals : Known(s)' = Known(s)
  BY <1>1 DEF RowForResult, Ended, SignalOf, Known
<1> USE DEF SettledIsAccounted, OneReaction, OutboxInv, ReactorInv
<1>3. CASE Open
  <2>1. TypeOK'
    <3>1. /\ epoch' \in Nat /\ moves' \in Nat /\ faults' \in Nat
          /\ pc' \in Places /\ now' \in Signals \cup {NoSignal} /\ todo' \subseteq Signals
      BY <1>3 DEF Open
    <3>2. /\ turn' \in [Signals -> {"none", "active", "over"}]
          /\ UNCHANGED <<claim, owner, excused>>
      BY <1>3 DEF Open
    <3>3. woken' \in BOOLEAN
      BY <1>3 DEF Open
    <3> QED
      BY <1>1, <3>1, <3>2, <3>3
  <2>2. SettledIsAccounted' /\ OneReaction'
    BY <1>3 DEF Open
  <2>3. OutboxInv'
    BY <1>1, <1>2, <1>3 DEF Open
  <2> QED
    BY <1>2, <2>1, <2>2, <2>3
<1>4. CASE Read
  BY <1>1, <1>2, <1>4 DEF Read, Pending
<1>5. ASSUME NEW s \in todo, Claim(s) PROVE Inv'
  <2>1. s \in Signals /\ claim[s] \in {"none", "claimed"} /\ s \in rows /\ Known(s)
    BY <1>5 DEF Claim
  <2>2. now = NoSignal
    BY <1>5 DEF Claim
  <2>3. TypeOK'
    BY <1>1, <1>5, <2>1 DEF Claim, NoEpoch
  <2>4. SettledIsAccounted' /\ OneReaction'
    BY <1>5, <2>1 DEF Claim
  <2>5. OutboxInv'
    <3>1. (\A r \in rows' : Known(r)') /\ (now' # NoSignal => Known(now)')
      BY <1>1, <1>2, <1>5, <2>1, <2>2 DEF Claim
    <3>2. CASE Current(s)
      BY <1>5, <2>1, <3>1, <3>2, SignalAssumption DEF Claim
    <3>3. CASE ~Current(s)
      BY <1>5, <2>1, <2>2, <3>1, <3>3 DEF Claim
    <3> QED
      BY <3>2, <3>3
  <2> QED
    BY <1>2, <2>3, <2>4, <2>5
<1>6. ASSUME NEW s \in todo, Missing(s) PROVE Inv'
  BY <1>1, <1>2, <1>6 DEF Missing
<1>7. CASE Drained
  BY <1>1, <1>2, <1>7 DEF Drained
<1>8. CASE Recheck
  BY <1>1, <1>2, <1>8 DEF Recheck
<1>9. CASE BeginTurn
  BY <1>1, <1>2, <1>9 DEF BeginTurn
<1>10. CASE EndTurn
  BY <1>1, <1>2, <1>10 DEF EndTurn
<1>11. CASE Acknowledge
  <2>1. now \in Signals /\ claim[now] = "claimed" /\ owner[now] = epoch
    BY <1>11 DEF Acknowledge
  <2>2. TypeOK'
    BY <1>1, <1>11, <2>1 DEF Acknowledge, NoEpoch
  <2>3. SettledIsAccounted' /\ OneReaction'
    BY <1>11, <2>1 DEF Acknowledge
  <2>4. OutboxInv'
    BY <1>1, <1>2, <1>11, <2>1 DEF Acknowledge
  <2> QED
    BY <1>2, <2>2, <2>3, <2>4
<1>12. CASE Wake
  <2>1. UNCHANGED <<card, outbox, turn, epoch, todo, now, excused, bounds>>
        /\ pc = "wait" /\ pc' = "read" /\ woken' \in BOOLEAN
    BY <1>12 DEF Wake
  <2>2. TypeOK'
    BY <1>1, <2>1
  <2> QED
    BY <1>2, <2>1, <2>2
<1>13. CASE Sweep
  <2>1. /\ UNCHANGED <<card, rows, claim, turn, epoch, todo, now, excused, bounds>>
        /\ pc = "wait" /\ pc' = "read" /\ woken' \in BOOLEAN
        /\ owner' \in [Signals -> Nat]
    BY <1>1, <1>13 DEF Sweep, NoEpoch
  <2>2. TypeOK'
    BY <1>1, <2>1
  <2> QED
    BY <1>2, <2>1, <2>2
<1>14. CASE Fail
  BY <1>1, <1>2, <1>14 DEF Fail
<1>15. CASE Crash
  <2>1. TypeOK'
    <3>1. /\ epoch' \in Nat /\ moves' \in Nat /\ faults' \in Nat
          /\ pc' \in Places /\ now' \in Signals \cup {NoSignal} /\ todo' \subseteq Signals
      BY <1>15 DEF Crash
    <3>2. /\ turn' \in [Signals -> {"none", "active", "over"}]
          /\ UNCHANGED <<claim, owner, excused>>
      BY <1>15 DEF Crash
    <3>3. woken' \in BOOLEAN
      BY <1>15 DEF Crash
    <3> QED
      BY <1>1, <3>1, <3>2, <3>3
  <2>2. SettledIsAccounted' /\ OneReaction'
    BY <1>15 DEF Crash
  <2>3. OutboxInv'
    BY <1>1, <1>2, <1>15 DEF Crash
  <2> QED
    BY <1>2, <2>1, <2>2, <2>3
<1> QED
  BY <1>3, <1>4, <1>5, <1>6, <1>7, <1>8, <1>9, <1>10, <1>11, <1>12, <1>13, <1>14, <1>15
     DEF React

(* TypeOK, RowForResult, SettledIsAccounted, OneReaction and OutboxInv hold  *)
(* of the outbox in every state: whatever order ends, receipts and heads     *)
(* arrive in, whatever fails or crashes, each result has its one row, one    *)
(* reaction at a time holds a claim, and only what was told or found        *)
(* replaced or judged is settled.                                          *)
THEOREM OutboxInvariant ==
  Spec => [](TypeOK /\ RowForResult /\ SettledIsAccounted /\ OneReaction /\ OutboxInv)
<1>1. Init => Inv
  <2>1. ASSUME Init PROVE TypeOK
    <3>1. \A n \in {MaxRuns} : 0 \in 0 .. n
      BY BoundsAssumption
    <3> QED
      BY <2>1, <3>1 DEF Init, TypeOK, Places, AllHeads, NoEpoch
  <2>2. ASSUME Init PROVE RowForResult /\ SettledIsAccounted /\ OneReaction /\ OutboxInv
    BY <2>2 DEF Init, RowForResult, SettledIsAccounted, OneReaction, OutboxInv, ReactorInv,
       Ended, Reacting
  <2> QED
    BY <2>1, <2>2 DEF Inv
<1>2. Inv /\ [Next]_vars => Inv'
  <2>1. ASSUME Inv, UNCHANGED vars PROVE Inv'
    BY <2>1 DEF Inv, TypeOK, RowForResult, SettledIsAccounted, OneReaction, OutboxInv,
       ReactorInv, Known, Ended, SignalOf, vars, card, outbox, reactor, bounds
  <2> QED
    BY <2>1, WorkKeeps, ReactorKeeps DEF Next
<1> QED
  BY <1>1, <1>2, PTL DEF Spec, Inv

(* The variables have the types their comments give. *)
THEOREM OutboxTypes == Spec => []TypeOK
BY OutboxInvariant, PTL

-----------------------------------------------------------------------------
(* No wake-up is lost. *)

(* As long as no transaction has closed the channel, what Drain has left of *)
(* its list is all that is pending.                                        *)
Heard == pc \in {"drain", "wait"} /\ ~woken => Pending = todo

LEMMA HeardKept ==
  ASSUME Inv, Heard, Next PROVE Heard'
<1> USE DEF Heard
<1>1. CASE Work
  BY <1>1 DEF Work, Start, Finish, Submit, SubmitFiles, RestoreHead, ObserveHead, Judge, Block,
     Recorded, Signalled, Commit
<1>2. CASE Open \/ Wake \/ Sweep \/ Crash
  BY <1>2 DEF Open, Wake, Sweep, Crash, Subscribe
<1>3. CASE Read
  BY <1>3 DEF Read, Pending, outbox
<1>4. CASE \E s \in todo : Claim(s)
  BY <1>4 DEF Claim, Commit
<1>5. ASSUME NEW s \in todo, Missing(s) PROVE Heard'
  BY <1>5 DEF Missing, Pending, outbox
<1>6. CASE Drained
  BY <1>6 DEF Drained, Pending, outbox
<1>7. CASE Recheck \/ BeginTurn \/ EndTurn
  BY <1>7 DEF Recheck, BeginTurn, EndTurn, Commit
<1>8. CASE Fail \/ Acknowledge
  BY <1>8 DEF Fail, Acknowledge, Commit
<1> QED
  BY <1>1, <1>2, <1>3, <1>4, <1>5, <1>6, <1>7, <1>8 DEF Next, React

(* The reactor subscribes before it reads, so that no commit falls between: *)
(* while it waits unwoken nothing is pending, whatever commits when.       *)
THEOREM NoLostWakeUp == Spec => []NoSignalUnheard
<1>1. Init => Heard
  BY DEF Init, Heard
<1>2. Inv /\ Heard /\ [Next]_vars => Heard'
  <2>1. ASSUME Heard, UNCHANGED vars PROVE Heard'
    BY <2>1 DEF Heard, Pending, vars, outbox, reactor
  <2> QED
    BY <2>1, HeardKept
<1>3. Inv /\ Heard => NoSignalUnheard
  BY DEF Inv, OutboxInv, ReactorInv, Heard, NoSignalUnheard
<1>4. Spec => []Inv
  BY OutboxInvariant DEF Inv
<1> QED
  BY <1>1, <1>2, <1>3, <1>4, PTL DEF Spec

-----------------------------------------------------------------------------
(* The refinement. *)

Live == [t \in Tasks |-> IF Current(SignalOf(t)) THEN SignalOf(t) ELSE NoSignal]
Told == {s \in Signals : turn[s] # "none"}
Settled == {s \in Signals : claim[s] \in {"handled", "ignored"}}

(* A signal is shown by a card exactly when it is the current one. *)
LEMMA ShownIsCurrent ==
  ASSUME Inv, NEW s \in Signals
  PROVE  /\ Delivery!Shown(s) <=> Current(s)
         /\ Delivery!Judged(s) <=> Current(s) /\ verdict[s.task]
<1>1. s.task \in Tasks /\ s # NoSignal
  BY SignalAssumption DEF Signals
<1>2. \A t \in Tasks : Live[t] = s => t = s.task /\ Current(s)
  BY <1>1 DEF Live, SignalOf
<1>3. Current(s) => Live[s.task] = s
  BY <1>1 DEF Live, Current
<1> QED
  BY <1>1, <1>2, <1>3 DEF Delivery!Shown, Delivery!Judged, Live

(* What was claimed is shown still if the second look at its card agrees.  *)
LEMMA RecheckIsCurrent ==
  ASSUME Inv, pc = "react"
  PROVE  /\ now \in Signals
         /\ (/\ run[now.task] = now.attempt /\ head[now.task] = now.head
             /\ receipt[now.task] = now.receipt) <=> Current(now)
<1>1. now \in Signals /\ Known(now)
  BY DEF Inv, TypeOK, OutboxInv, ReactorInv, Reacting
<1>2. /\ now = [task |-> now.task, attempt |-> now.attempt, head |-> now.head,
                receipt |-> now.receipt]
      /\ now.attempt \in 1 .. MaxRuns
  BY <1>1 DEF Signals, Runs
<1>3. Current(now) => /\ run[now.task] = now.attempt /\ head[now.task] = now.head
                      /\ receipt[now.task] = now.receipt
  BY <1>2 DEF Current, SignalOf
<1>4. ASSUME run[now.task] = now.attempt, head[now.task] = now.head,
             receipt[now.task] = now.receipt
      PROVE  Current(now)
  <2>1. ended[now.task] /\ receipt[now.task] # NoReceipt /\ now.head = completionHead[now.task]
    BY <1>1, <1>4 DEF Known
  <2> QED
    BY <1>2, <1>4, <2>1 DEF Current, SignalOf, Ended
<1> QED
  BY <1>1, <1>3, <1>4

LEMMA StepRefines ==
  ASSUME Inv, Next PROVE Delivery!Next \/ UNCHANGED Delivery!vars
<1> DEFINE Chosen == IF pc = "turn" THEN now ELSE NoSignal
           JudgedTasks == {t \in Tasks : verdict[t]}
<1>a. Delivery!vars = <<Live, JudgedTasks, Chosen, Told, excused, Settled>>
  BY DEF Delivery!vars, Live, Told, Settled
<1>a1. Delivery!vars' = <<Live, JudgedTasks, Chosen, Told, excused, Settled>>'
  BY DEF Delivery!vars, Live, Told, Settled
<1>b. Inv'
  BY WorkKeeps, ReactorKeeps DEF Next
<1>1. CASE Work
  <2>1. UNCHANGED <<claim, turn, pc, now, excused>>
    BY <1>1, WorkShape DEF Work, Inv, Aside
  <2>2. Live' \in [Tasks -> Signals \cup {NoSignal}]
    BY <1>b DEF Inv, TypeOK, Live, Current, SignalOf, Ended, Signals, Runs
  <2>3. Delivery!Change
    BY <2>1, <2>2 DEF Delivery!Change, Live, Told, Settled
  <2> QED
    BY <2>3 DEF Delivery!Next
<1>2. CASE React \/ Sweep \/ Fail \/ Crash
  <2>0. UNCHANGED card
    BY <1>2 DEF React, Open, Read, Claim, Missing, Drained, Recheck, BeginTurn, EndTurn,
       Acknowledge, Wake, Sweep, Fail, Crash
  <2>1. UNCHANGED <<Live, JudgedTasks>>
    BY <2>0 DEF Live, Current, Ended, SignalOf, card
  <2>t. /\ turn \in [Signals -> {"none", "active", "over"}]
        /\ claim \in [Signals -> {"none", "claimed", "handled", "ignored"}]
        /\ now \in Signals \cup {NoSignal} /\ todo \subseteq Signals
        /\ (pc \in Reacting => now \in Signals /\ claim[now] = "claimed")
        /\ NoSignal \notin Signals
    BY SignalAssumption DEF Inv, TypeOK, OneReaction, OutboxInv, ReactorInv
  <2>2. CASE Open \/ Read \/ Drained \/ EndTurn \/ Wake \/ Sweep
             \/ \E s \in todo : Missing(s)
    <3>1. UNCHANGED <<Told, Settled, excused>> /\ pc # "turn" /\ pc' # "turn"
      BY <2>2, <2>t DEF Open, Read, Drained, EndTurn, Wake, Sweep, Missing, Told, Settled,
         Subscribe, outbox, Inv, OutboxInv, ReactorInv, Reacting
    <3> QED
      BY <1>a, <1>a1, <2>1, <3>1
  <2>3. CASE Fail \/ Crash
    <3>1. UNCHANGED <<Told, Settled, excused>> /\ pc' # "turn"
      BY <2>3, <2>t DEF Fail, Crash, Told, Settled, outbox, Inv, OutboxInv, ReactorInv
    <3>2. Delivery!Forget
      BY <2>1, <3>1 DEF Delivery!Forget, Live, Told, Settled
    <3> QED
      BY <3>2 DEF Delivery!Next
  <2>4. ASSUME NEW s \in todo, Claim(s) PROVE Delivery!Next \/ UNCHANGED Delivery!vars
    <3>1. s \in Signals /\ claim[s] \in {"none", "claimed"} /\ pc = "drain" /\ pc' # "turn"
      BY <2>4, <2>t DEF Claim, Inv, OutboxInv, ReactorInv
    <3>2. UNCHANGED Told
      BY <2>4 DEF Claim, Told
    <3>3. CASE Current(s)
      <4>1. UNCHANGED Settled
        BY <2>4, <2>t, <3>1, <3>3 DEF Claim, Settled
      <4>2. CASE verdict[s.task]
        <5>1. Delivery!Judged(s) /\ excused' = excused \cup {s}
          BY <2>4, <3>1, <3>3, <4>2, ShownIsCurrent DEF Claim
        <5>2. Delivery!Excuse(s)
          BY <2>1, <3>1, <3>2, <4>1, <5>1 DEF Delivery!Excuse, Live, Told, Settled
        <5> QED
          BY <3>1, <5>2 DEF Delivery!Next
      <4>3. CASE ~verdict[s.task]
        <5>1. UNCHANGED excused
          BY <2>4, <3>1, <3>3, <4>3 DEF Claim
        <5> QED
          BY <1>a, <1>a1, <2>1, <3>1, <3>2, <4>1, <5>1
      <4> QED
        BY <4>2, <4>3
    <3>4. CASE ~Current(s)
      <4>1. Settled' = Settled \cup {s} /\ excused' = excused \cup {s}
        BY <2>4, <2>t, <3>1, <3>4 DEF Claim, Settled
      <4>2. ~Delivery!Shown(s)
        BY <3>1, <3>4, ShownIsCurrent
      <4>3. Delivery!Ignore(s)
        BY <2>1, <2>t, <3>1, <3>2, <4>1, <4>2 DEF Delivery!Ignore, Live, Told, Settled
      <4> QED
        BY <3>1, <4>3 DEF Delivery!Next
    <3> QED
      BY <3>3, <3>4
  <2>5. CASE Recheck
    <3>1. now \in Signals /\ UNCHANGED <<Told, Settled>> /\ pc = "react" /\ now' = now
      BY <2>5, <2>t DEF Recheck, Reacting, Told, Settled, outbox
    <3>2. CASE Current(now)
      <4>1. pc' = "turn" /\ UNCHANGED excused
        BY <2>5, <3>1, <3>2, RecheckIsCurrent DEF Recheck
      <4>2. Delivery!Shown(now) /\ now \notin Settled
        BY <2>t, <3>1, <3>2, ShownIsCurrent DEF Settled, Reacting
      <4>3. Delivery!Choose(now)
        BY <2>1, <3>1, <4>1, <4>2 DEF Delivery!Choose, Live, Told, Settled
      <4> QED
        BY <3>1, <4>3 DEF Delivery!Next
    <3>3. CASE ~Current(now)
      <4>1. pc' = "ack" /\ excused' = excused \cup {now}
        BY <2>5, <3>1, <3>3, RecheckIsCurrent DEF Recheck
      <4>2. ~Delivery!Shown(now)
        BY <3>1, <3>3, ShownIsCurrent
      <4>3. Delivery!Excuse(now)
        BY <2>1, <3>1, <4>1, <4>2 DEF Delivery!Excuse, Live, Told, Settled
      <4> QED
        BY <3>1, <4>3 DEF Delivery!Next
    <3> QED
      BY <3>2, <3>3
  <2>6. CASE BeginTurn
    <3>1. /\ now \in Signals /\ UNCHANGED <<Settled, excused>> /\ pc = "turn" /\ pc' # "turn"
          /\ now \notin Settled
      BY <2>6, <2>t DEF BeginTurn, Reacting, Settled, outbox
    <3>2. CASE turn[now] = "none"
      <4>1. Told' = Told \cup {now} /\ now \notin Told
        BY <2>6, <2>t, <3>1, <3>2 DEF BeginTurn, Told
      <4>2. PICK s \in Signals : s = now
        BY <3>1
      <4>3. Delivery!Tell(s)
        BY <2>1, <3>1, <4>1, <4>2 DEF Delivery!Tell, Live, Told, Settled
      <4> QED
        BY <4>3 DEF Delivery!Next
    <3>3. CASE turn[now] # "none"
      <4>1. UNCHANGED Told
        BY <2>6, <3>3 DEF BeginTurn, Told
      <4>2. Delivery!Forget
        BY <2>1, <3>1, <4>1 DEF Delivery!Forget, Live, Told, Settled
      <4> QED
        BY <4>2 DEF Delivery!Next
    <3> QED
      BY <3>2, <3>3
  <2>7. CASE Acknowledge
    <3>1. /\ now \in Signals /\ UNCHANGED <<Told, excused>> /\ pc = "ack" /\ pc' # "turn"
          /\ now \in Told \cup excused /\ now # NoSignal
      BY <2>7, <2>t DEF Acknowledge, Reacting, Told, Inv, OutboxInv, ReactorInv
    <3>2. Settled' = Settled \cup {now}
      BY <2>7, <2>t, <3>1 DEF Acknowledge, Settled, Inv, OneReaction, Reacting
    <3>3. PICK s \in Signals : s = now
      BY <3>1
    <3>4. Delivery!Settle(s)
      BY <2>1, <3>1, <3>2, <3>3 DEF Delivery!Settle, Live, Told, Settled
    <3> QED
      BY <3>4 DEF Delivery!Next
  <2> QED
    BY <1>2, <2>2, <2>3, <2>4, <2>5, <2>6, <2>7 DEF React
<1> QED
  BY <1>1, <1>2 DEF Next

(* The outbox, with its rows, claims, epochs, retries and crashes, promises  *)
(* what SignalDelivery says: a result is told at most once, only when it was *)
(* seen to be the present one, and is settled only when told or excused.   *)
THEOREM OutboxDelivers == Spec => Delivers
<1>1. Init => Delivery!Init
  <2>1. ASSUME Init PROVE Delivery!Init
    <3>1. Live = [t \in Tasks |-> NoSignal]
      BY <2>1 DEF Init, Live, Current, SignalOf, Ended
    <3>2. Told = {} /\ Settled = {} /\ excused = {} /\ pc # "turn"
          /\ {t \in Tasks : verdict[t]} = {}
      BY <2>1 DEF Init, Told, Settled
    <3> QED
      BY <3>1, <3>2 DEF Delivery!Init, Live, Told, Settled
  <2> QED
    BY <2>1
<1>2. Inv /\ [Next]_vars => [Delivery!Next]_(Delivery!vars)
  <2>1. ASSUME UNCHANGED vars PROVE UNCHANGED Delivery!vars
    BY <2>1 DEF vars, Delivery!vars, card, outbox, reactor, Current, Ended, SignalOf
  <2> QED
    BY <2>1, StepRefines
<1>3. Spec => []Inv
  BY OutboxInvariant DEF Inv
<1> QED
  BY <1>1, <1>2, <1>3, PTL DEF Spec, Delivers, Delivery!Spec
=============================================================================
