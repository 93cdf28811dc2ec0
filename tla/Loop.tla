------------------------------- MODULE Loop -------------------------------
(***************************************************************************)
(* levent/loop.lua over src/lua-ev.c and libev's ev_run: the callback      *)
(* queue, the watchers, and the reference count that decides when the loop *)
(* returns.                                                                *)
(*                                                                         *)
(* The bodies of callbacks are any sequence of the operations the loop     *)
(* offers (start and stop a watcher, queue a callback, break).  libev is   *)
(* external and modelled from the way lua-ev.c uses it: ev_*_start and     *)
(* ev_*_stop count active watchers, a stop clears a pending event, a       *)
(* one-shot timer stops itself when it expires, and ev_run goes            *)
(* prepare - poll - invoke until the count is zero or the loop is broken.  *)
(***************************************************************************)
EXTENDS Integers, Sequences, Functions, FiniteSets

CONSTANTS Timer,         \* watchers of Loop:timer (one-shot)
          Stream,        \* watchers of Loop:io and Loop:signal
          MaxCallbacks   \* bound: how many callbacks are ever queued

ASSUME WatcherAssumption ==
    /\ IsFiniteSet(Timer) /\ IsFiniteSet(Stream)
    /\ Timer \cap Stream = {}

ASSUME BoundAssumption == MaxCallbacks \in Nat

Watcher == Timer \cup Stream

Callback == 1..MaxCallbacks

VARIABLES
    callbacks,  \* Loop._callbacks; a callback is its number in queueing order
    batch,      \* what _run_callback has still to run of the table it took
    queued,     \* number of callbacks queued so far
    cb,         \* watchers whose Watcher._cb is not nil
    active,     \* watchers active in libev (without the prepare watcher)
    pending,    \* watchers with a pending event in libev
    activecnt,  \* libev's activecnt, moved by start, stop, ref and unref
    loop_done,  \* ev_break was called
    phase,      \* "idle" (outside ev_run), "prepare", "poll", "invoke"
    exec        \* a Lua callback is running inside ev_run

vars == <<callbacks, batch, queued, cb, active, pending,
          activecnt, loop_done, phase, exec>>

TypeOK ==
    /\ queued \in 0..MaxCallbacks
    /\ callbacks \in Seq(Callback)
    /\ batch \in Seq(Callback)
    /\ cb \in SUBSET Watcher
    /\ active \in SUBSET Watcher
    /\ pending \in SUBSET Watcher
    /\ activecnt \in Nat
    /\ loop_done \in BOOLEAN
    /\ phase \in {"idle", "prepare", "poll", "invoke"}
    /\ exec \in BOOLEAN

(* References the loop starts with: the prepare watcher's start adds one   *)
(* and the unref() at the end of Loop:_init takes it back.                 *)
InitialRefs_noUnref == 1
InitialRefs == 1 - 1

(* Loop:_init.  The prepare watcher never keeps the loop alive.            *)
Init ==
    /\ callbacks = <<>>
    /\ batch = <<>>
    /\ queued = 0
    /\ cb = {}
    /\ active = {}
    /\ pending = {}
    /\ activecnt = InitialRefs
    /\ loop_done = FALSE
    /\ phase = "idle"
    /\ exec = FALSE

-----------------------------------------------------------------------------
(* Operations of Lua code: the program before Loop:run, or a callback.     *)

LuaRuns == exec \/ phase = "idle"

(* loop.cobj:ref() and loop.cobj:unref().                                  *)
ref_missing == UNCHANGED activecnt
ref == activecnt' = activecnt + 1

unref_missing == UNCHANGED activecnt
unref == activecnt' = activecnt - 1

(* ev_*_stop first clears the pending event, if the watcher has one.       *)
ClearPending_skipped(w) == pending
ClearPending(w) == pending \ {w}

(* What the loops of Loop:_run_callback have still to do.                  *)
Drained == batch = <<>> /\ callbacks = <<>>

(* The part of its table _run_callback keeps when it takes a callback.     *)
RestOfBatch_lastFirst == SubSeq(batch, 1, Len(batch) - 1)
RestOfBatch == Tail(batch)

(* Watcher:start(func, ...), with its assert(self._cb == nil).             *)
start(w) ==
    /\ LuaRuns
    /\ w \notin cb
    /\ cb' = cb \cup {w}
    /\ active' = active \cup {w}
    /\ activecnt' = IF w \in active THEN activecnt ELSE activecnt + 1
    /\ UNCHANGED <<callbacks, batch, queued, pending, loop_done, phase, exec>>

(* Watcher:stop(), also what Watcher.__gc does: ev_*_stop clears the       *)
(* pending event of an inactive watcher too.                               *)
stop(w) ==
    /\ LuaRuns
    /\ cb' = cb \ {w}
    /\ active' = active \ {w}
    /\ pending' = ClearPending(w)
    /\ activecnt' = IF w \in active THEN activecnt - 1 ELSE activecnt
    /\ UNCHANGED <<callbacks, batch, queued, loop_done, phase, exec>>

(* Loop:run_callback(func, ...): queue it and ref the loop.                *)
run_callback ==
    /\ LuaRuns
    /\ queued < MaxCallbacks
    /\ queued' = queued + 1
    /\ callbacks' = Append(callbacks, queued + 1)
    /\ ref
    /\ UNCHANGED <<batch, cb, active, pending, loop_done, phase, exec>>

(* Loop:_break(EVBREAK_ALL).                                               *)
_break ==
    /\ LuaRuns
    /\ loop_done' = TRUE
    /\ UNCHANGED <<callbacks, batch, queued, cb, active, pending,
                   activecnt, phase, exec>>

(* The running callback returns or raises.  wrap_callback, Watcher:        *)
(* run_callback and watcher_cb catch the error, so both go on alike.       *)
CallbackReturns ==
    /\ exec
    /\ exec' = FALSE
    /\ UNCHANGED <<callbacks, batch, queued, cb, active, pending,
                   activecnt, loop_done, phase>>

-----------------------------------------------------------------------------
(* Steps of ev_run.                                                        *)

(* Loop:run.  ev_run starts by forgetting an earlier break.                *)
run ==
    /\ phase = "idle"
    /\ phase' = "prepare"
    /\ loop_done' = FALSE
    /\ UNCHANGED <<callbacks, batch, queued, cb, active, pending,
                   activecnt, exec>>

(* Loop:_run_callback, the head of its while loop: it takes the whole      *)
(* table and leaves an empty one for what the callbacks will queue.        *)
TakeBatch ==
    /\ phase = "prepare" /\ ~exec
    /\ batch = <<>> /\ callbacks # <<>>
    /\ batch' = callbacks
    /\ callbacks' = <<>>
    /\ UNCHANGED <<queued, cb, active, pending, activecnt, loop_done,
                   phase, exec>>

(* Loop:_run_callback, the body of its for loop: unref, then call cb().    *)
RunNext ==
    /\ phase = "prepare" /\ ~exec
    /\ batch # <<>>
    /\ batch' = RestOfBatch
    /\ unref
    /\ exec' = TRUE
    /\ UNCHANGED <<callbacks, queued, cb, active, pending, loop_done, phase>>

(* _run_callback returns; ev_run leaves if the loop was broken.            *)
PrepareReturns ==
    /\ phase = "prepare" /\ ~exec
    /\ Drained
    /\ phase' = IF loop_done THEN "idle" ELSE "poll"
    /\ UNCHANGED <<callbacks, batch, queued, cb, active, pending,
                   activecnt, loop_done, exec>>

(* backend_poll and timers_reify.  The poll does not block when activecnt  *)
(* is 0 and blocks only for a while otherwise, so it may report nothing.   *)
(* An expired timer is stopped before its event is fed.                    *)
Poll ==
    /\ phase = "poll"
    /\ \E fired \in SUBSET active :
          /\ pending' = fired
          /\ active' = active \ (fired \cap Timer)
          /\ activecnt' = activecnt - Cardinality(fired \cap Timer)
    /\ phase' = "invoke"
    /\ UNCHANGED <<callbacks, batch, queued, cb, loop_done, exec>>

(* ev_invoke_pending calls watcher_cb, Loop:callback and                   *)
(* Watcher:run_callback, which calls self._cb.                             *)
Invoke(w) ==
    /\ phase = "invoke" /\ ~exec
    /\ w \in pending
    /\ pending' = pending \ {w}
    /\ exec' = TRUE
    /\ UNCHANGED <<callbacks, batch, queued, cb, active, activecnt,
                   loop_done, phase>>

(* The condition of ev_run's do-while loop.                                *)
NextRound ==
    /\ phase = "invoke" /\ ~exec
    /\ pending = {}
    /\ phase' = IF activecnt # 0 /\ ~loop_done THEN "prepare" ELSE "idle"
    /\ UNCHANGED <<callbacks, batch, queued, cb, active, pending,
                   activecnt, loop_done, exec>>

-----------------------------------------------------------------------------
LoopStep ==
    \/ run \/ TakeBatch \/ RunNext \/ PrepareReturns
    \/ Poll \/ (\E w \in Watcher : Invoke(w)) \/ NextRound

Next ==
    \/ \E w \in Watcher : start(w) \/ stop(w)
    \/ run_callback \/ _break \/ CallbackReturns
    \/ LoopStep

(* A callback that is called returns (the code is cooperative), and ev_run *)
(* takes its next step.  Nothing makes a program call Loop:run, nor a      *)
(* particular watcher fire.                                                *)
Fairness ==
    /\ WF_vars(CallbackReturns)
    /\ WF_vars(LoopStep /\ phase # "idle")

Spec == Init /\ [][Next]_vars /\ Fairness

-----------------------------------------------------------------------------
(* The reference count is exact: one for every active watcher and one for  *)
(* every callback that was queued and has not been called, whether it is   *)
(* still in _callbacks or in the table _run_callback took.  ref and unref  *)
(* are far apart in the code (run_callback and _run_callback), and an      *)
(* expiring timer moves the count on its own.                              *)
RefAccounting ==
    activecnt = Cardinality(active) + Len(callbacks) + Len(batch)

(* libev never calls back into a Watcher whose _cb is nil: a watcher that  *)
(* was stopped between firing and being invoked (by another callback of    *)
(* the same round) has lost its pending event.                             *)
PendingHasCallback == pending \cup active \subseteq cb

(* Which phase of ev_run may leave what behind: events are pending only    *)
(* while they are invoked, a taken batch is open only in prepare, and no   *)
(* Lua callback is running while ev_run polls or after it returned.        *)
PhaseInv ==
    /\ phase # "invoke" => pending = {}
    /\ phase # "prepare" => batch = <<>>
    /\ phase = "poll" => callbacks = <<>>
    /\ exec => phase \in {"prepare", "invoke"}

(* The inductive invariant behind the theorems of LoopProofs.              *)
LoopInv == TypeOK /\ RefAccounting /\ PendingHasCallback /\ PhaseInv

(* The loop returns only when it was broken or has nothing left to do: no  *)
(* queued callback is ever stranded because the count reached zero early.  *)
NoEarlyReturn ==
    [][phase # "idle" /\ phase' = "idle" =>
         loop_done \/ (batch = <<>> /\ callbacks = <<>> /\ active = {})]_vars

(* A loop that has nothing left to do returns: the count does not stay     *)
(* above zero for ever after the last callback ran and the last watcher    *)
(* stopped.                                                                *)
IdleLoopReturns ==
    (phase # "idle" /\ batch = <<>> /\ callbacks = <<>> /\ active = {})
      ~> (phase = "idle" \/ callbacks # <<>> \/ active # {})

(* Every queued callback is called, unless the loop is broken first.       *)
CallbacksRun ==
    \A n \in 1..MaxCallbacks :
       (n \in Range(batch \o callbacks) /\ phase # "idle")
         ~> (n \notin Range(batch \o callbacks) \/ loop_done)

(* The loop implements the abstract event loop: batch before callbacks is  *)
(* one first-in first-out queue.                                           *)
AbstractPhase ==
    CASE phase = "idle" -> "idle"
      [] phase \in {"prepare", "poll"} -> "callbacks"
      [] phase = "invoke" -> "events"

Abstract == INSTANCE EventLoop WITH queue <- batch \o callbacks,
                                    phase <- AbstractPhase

ImplementsEventLoop == Abstract!Spec
=============================================================================
