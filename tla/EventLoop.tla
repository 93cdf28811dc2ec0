----------------------------- MODULE EventLoop -----------------------------
(***************************************************************************)
(* What levent/loop.lua promises the code above it, without saying how:    *)
(* a queue of callbacks and a set of watchers driven by rounds.  A round   *)
(* first runs the queued callbacks, in the order they were queued and each *)
(* exactly once, until none is left; only then does it poll; the watchers  *)
(* the poll reports are invoked one by one, and a watcher that is stopped  *)
(* meanwhile is not invoked.                                               *)
(*                                                                         *)
(* Loop.tla, the model of the code, is shown to implement this module.     *)
(***************************************************************************)
EXTENDS Sequences

CONSTANTS Timer,    \* one-shot timer watchers
          Stream,   \* io and signal watchers, which stay active when they fire
          Callback  \* what may be queued

VARIABLES queue,    \* callbacks queued by Loop:run_callback, not yet run
          active,   \* watchers that are started
          pending,  \* watchers that fired and are still to be invoked
          phase     \* "idle", "callbacks" or "events"

loopVars == <<queue, active, pending, phase>>

Watcher == Timer \cup Stream

Init ==
    /\ queue = <<>>
    /\ active = {}
    /\ pending = {}
    /\ phase = "idle"

(* Lua code (a callback, or the program before the loop runs) queues a     *)
(* callback or starts or stops watchers.  It can neither reorder nor     *)
(* drop what is queued, nor make a watcher pending.                        *)
UserCode ==
    /\ queue' = queue \/ \E c \in Callback : queue' = Append(queue, c)
    /\ active' \in SUBSET Watcher
    /\ pending' \subseteq pending
    /\ phase' = phase

Run ==
    /\ phase = "idle"
    /\ phase' = "callbacks"
    /\ UNCHANGED <<queue, active, pending>>

(* The oldest callback leaves the queue and runs.                          *)
RunCallback ==
    /\ phase = "callbacks"
    /\ queue # <<>>
    /\ queue' = Tail(queue)
    /\ UNCHANGED <<active, pending, phase>>

(* Polling is only reached with an empty queue.                            *)
Poll ==
    /\ phase = "callbacks"
    /\ queue = <<>>
    /\ pending' \in SUBSET active
    /\ active' = active \ (pending' \cap Timer)
    /\ phase' = "events"
    /\ UNCHANGED queue

Invoke ==
    /\ phase = "events"
    /\ \E w \in pending : pending' = pending \ {w}
    /\ UNCHANGED <<queue, active, phase>>

NextRound ==
    /\ phase = "events"
    /\ pending = {}
    /\ phase' = "callbacks"
    /\ UNCHANGED <<queue, active, pending>>

(* The loop returns between two phases, with no event left to invoke.      *)
Return ==
    /\ phase # "idle"
    /\ pending = {}
    /\ phase = "callbacks" => queue = <<>>
    /\ phase' = "idle"
    /\ UNCHANGED <<queue, active, pending>>

Next ==
    \/ UserCode \/ Run \/ RunCallback \/ Poll \/ Invoke \/ NextRound \/ Return

Spec == Init /\ [][Next]_loopVars
=============================================================================
