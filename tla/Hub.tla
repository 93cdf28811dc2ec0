-------------------------------- MODULE Hub --------------------------------
(***************************************************************************)
(* levent/hub.lua: the hub runs the event loop in the main coroutine and   *)
(* hands control to one coroutine at a time; a coroutine gives control     *)
(* back by parking on a Waiter.  This module holds the state that every    *)
(* primitive built on the hub shares and the pieces its actions are made   *)
(* of; Levent, Event, AsyncResult, Semaphore, Queue and Socket extend it.  *)
(*                                                                         *)
(* The loop below the hub is used through what Loop.tla is shown to give   *)
(* (EventLoop): callbacks run first-in first-out until none is left, then  *)
(* the poll reports some of the active watchers, each is invoked unless it *)
(* was stopped meanwhile, and the next round begins.                       *)
(***************************************************************************)
EXTENDS Integers, Sequences, FiniteSets

CONSTANTS Co,        \* coroutines
          NoCo,      \* the hub's own coroutine
          MaxWaits   \* bound: how many Waiters a coroutine creates

ASSUME CoAssumption == IsFiniteSet(Co) /\ NoCo \notin Co
ASSUME MaxWaitsAssumption == MaxWaits \in Nat

(* A Waiter is known by the coroutine that created it and its number among *)
(* the Waiters of that coroutine.                                          *)
Waiter == Co \X (1..MaxWaits)

VARIABLES
    cur,        \* coroutine.running(): a coroutine, or NoCo in the hub
    waiters,    \* Hub.waiters: number of the Waiter co is parked on, 0 for nil
    created,    \* how many Waiters each coroutine has created
    exception,  \* Waiter.exception: "false" (no result), "nil" (value), "error"
    callbacks,  \* Loop._callbacks: records with the function and the coroutine
    frame,      \* the looping callback the hub is in the middle of, or "none"
    active,     \* watchers that are started
    pending,    \* watchers that fired and whose callback is still to be invoked
    phase       \* "prepare", "invoke", or "exit" once the loop returned

hubVars == <<cur, waiters, created, exception, callbacks, frame,
             active, pending, phase>>
loopState == <<active, pending, phase>>

(* A timer is the one Hub:wait started for a Waiter, whose callback is the *)
(* Waiter, or a Timeout some coroutine started, whose callback is          *)
(* Hub:throw on that coroutine.  Both are one-shot; an io watcher (only in *)
(* Socket) stays active when it fires.                                     *)
SleepTimer(w) == <<"sleep", w[1], w[2]>>
TimeoutTimer(c, k) == <<"timeout", c, k>>
IoWatcher(s, d) == <<"io", s, d>>
TimersOf(c, S) == {t \in S : t[2] = c}

(* Hub:_init, and a queue of callbacks left by the program before it       *)
(* called levent.start.                                                    *)
HubInit(queue) ==
    /\ cur = NoCo
    /\ waiters = [c \in Co |-> 0]
    /\ created = [c \in Co |-> 0]
    /\ exception = [w \in Waiter |-> "false"]
    /\ callbacks = queue
    /\ frame = "none"
    /\ active = {}
    /\ pending = {}
    /\ phase = "prepare"

HubTypeOK ==
    /\ cur \in Co \cup {NoCo}
    /\ waiters \in [Co -> 0..MaxWaits]
    /\ created \in [Co -> 0..MaxWaits]
    /\ exception \in [Waiter -> {"false", "nil", "error"}]
    /\ phase \in {"prepare", "invoke", "exit"}

-----------------------------------------------------------------------------
(* Pieces of the actions of coroutine code.                                *)

(* Loop:run_callback.                                                      *)
run_callback_lifo(record) == callbacks' = <<record>> \o callbacks
run_callback(record) == callbacks' = Append(callbacks, record)

(* Hub:waiter(): the Waiter the running coroutine c creates next.          *)
waiter(c) == <<c, created[c] + 1>>

(* Waiter:get and Hub:_yield of c on the Waiter it just made: control goes *)
(* back to the hub, into the frame that resumed c.                         *)
park(c) ==
    /\ created[c] < MaxWaits
    /\ created' = [created EXCEPT ![c] = @ + 1]
    /\ waiters' = [waiters EXCEPT ![c] = created[c] + 1]
    /\ cur' = NoCo

(* Hub:_yield after coroutine.yield() returned.                            *)
ClearWaiter_missing(c) == waiters
ClearWaiter(c) == [waiters EXCEPT ![c] = 0]

(* The assertion of Waiter:_switch that the Waiter has no result yet.      *)
Unresolved(w) == exception[w] = "false"

(* Waiter:_switch on an unresolved Waiter its coroutine is parked on: the  *)
(* coroutine runs on from Hub:_yield.                                      *)
_switch(w, e) ==
    /\ Unresolved(w)
    /\ exception' = [exception EXCEPT ![w] = e]
    /\ waiters[w[1]] = w[2]
    /\ waiters' = ClearWaiter(w[1])
    /\ cur' = w[1]
    /\ UNCHANGED created

(* Hub:throw(co): its assert(self.waiters[co]) and the Waiter it throws to.*)
CanThrow(c) == waiters[c] # 0
ParkedOn(c) == <<c, waiters[c]>>

-----------------------------------------------------------------------------
(* Steps of the loop under the hub.                                        *)

HubIdle == cur = NoCo /\ frame = "none"

(* The callback at the head of the queue, in Loop:_run_callback.           *)
CallbackIs(op) ==
    /\ HubIdle /\ phase = "prepare"
    /\ callbacks # <<>>
    /\ Head(callbacks).op = op
DropCallback_all == callbacks' = <<>>
DropCallback == callbacks' = Tail(callbacks)

(* A watcher's callback is invoked; an expired timer is no longer active.  *)
InvokedIs(t) == HubIdle /\ phase = "invoke" /\ t \in pending

(* The poll blocks until some timers expire or descriptors are ready.      *)
Poll ==
    /\ HubIdle /\ phase = "prepare"
    /\ callbacks = <<>>
    /\ \E fired \in (SUBSET active) \ {{}} :
          /\ pending' = fired
          /\ active' = active \ {t \in fired : t[1] # "io"}
    /\ phase' = "invoke"
    /\ UNCHANGED <<cur, waiters, created, exception, callbacks, frame>>

NextRound ==
    /\ HubIdle /\ phase = "invoke"
    /\ pending = {}
    /\ phase' = "prepare"
    /\ UNCHANGED <<cur, waiters, created, exception, callbacks, frame,
                   active, pending>>

(* Nothing is queued and nothing is active: Loop:run returns.              *)
LoopReturns ==
    /\ HubIdle /\ phase = "prepare"
    /\ callbacks = <<>> /\ active = {}
    /\ phase' = "exit"
    /\ UNCHANGED <<cur, waiters, created, exception, callbacks, frame,
                   active, pending>>
=============================================================================
