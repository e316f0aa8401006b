--------------------------- MODULE SignalDelivery ---------------------------
(***************************************************************************)
(* What the outbox of finished work promises to the agents that manage it, *)
(* without rows, claims, epochs or a reactor.  Each task shows at most one *)
(* result at a time.  A result is told to the task's manager at most once, *)
(* and only after it was seen to be the one the task shows.  A result is   *)
(* settled when it was told, or when it was found replaced or judged; what *)
(* is settled stays settled and is never told any more.                    *)
(***************************************************************************)
CONSTANTS Tasks, Signals, NoSignal

VARIABLES
    live,      \* the result each task shows now
    judged,    \* tasks whose present result has a verdict
    chosen,    \* the result about to be told
    told,      \* results of which the manager has begun a turn
    excused,   \* results found replaced or judged
    settled    \* results that are dealt with

vars == <<live, judged, chosen, told, excused, settled>>

Init ==
    /\ live = [t \in Tasks |-> NoSignal]
    /\ judged = {}
    /\ chosen = NoSignal
    /\ told = {} /\ excused = {} /\ settled = {}

Shown(s) == \E t \in Tasks : live[t] = s
Judged(s) == \E t \in judged : live[t] = s

(* Work goes on: results appear, are judged, are replaced. *)
Change ==
    /\ live' \in [Tasks -> Signals \cup {NoSignal}]
    /\ judged' \in SUBSET Tasks
    /\ UNCHANGED <<chosen, told, excused, settled>>

Choose(s) ==
    /\ Shown(s) /\ s \notin settled
    /\ chosen' = s
    /\ UNCHANGED <<live, judged, told, excused, settled>>

Forget ==
    /\ chosen' = NoSignal
    /\ UNCHANGED <<live, judged, told, excused, settled>>

Tell(s) ==
    /\ chosen = s /\ s \notin told \cup settled
    /\ told' = told \cup {s}
    /\ chosen' = NoSignal
    /\ UNCHANGED <<live, judged, excused, settled>>

Excuse(s) ==
    /\ ~Shown(s) \/ Judged(s)
    /\ excused' = excused \cup {s}
    /\ UNCHANGED <<live, judged, chosen, told, settled>>

Settle(s) ==
    /\ s \in told \cup excused
    /\ s # chosen
    /\ settled' = settled \cup {s}
    /\ UNCHANGED <<live, judged, chosen, told, excused>>

(* Found replaced and settled at once. *)
Ignore(s) ==
    /\ ~Shown(s) /\ s # chosen
    /\ excused' = excused \cup {s}
    /\ settled' = settled \cup {s}
    /\ UNCHANGED <<live, judged, chosen, told>>

Next ==
    \/ Change \/ Forget
    \/ \E s \in Signals : Choose(s) \/ Tell(s) \/ Excuse(s) \/ Settle(s) \/ Ignore(s)

Spec == Init /\ [][Next]_vars
=============================================================================
