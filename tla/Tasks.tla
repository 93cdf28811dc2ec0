------------------------------- MODULE Tasks -------------------------------
(***************************************************************************)
(* The tasks that use a synchronization primitive of levent/lock.lua or    *)
(* levent/queue.lua, or sockets: besides calling the primitive they sleep, *)
(* kill each other and end.  What Levent shows of tasks in general (a      *)
(* parked task is parked on one Waiter, a kill finds its task) is built in *)
(* here: a coroutine runs one task, which starts from the queue.           *)
(*                                                                         *)
(* Every blocking call of a primitive has the same shape: create a Waiter, *)
(* record it, timeout.start_new(sec), Waiter:get under xpcall, forget the  *)
(* Waiter, t:cancel().  The primitives add what they record.               *)
(***************************************************************************)
EXTENDS Hub, SequencesExt

CONSTANTS MaxKills,  \* bound: how many kills are ever requested
          Timed      \* whether calls may pass a positive number of seconds

ASSUME TasksAssumption == MaxKills \in Nat /\ Timed \in BOOLEAN

VARIABLE kills       \* number of kills requested so far

taskVars == <<hubVars, kills>>

Callback(op, c) == [op |-> op, co |-> c]

(* The Timeout of the blocking call that created the Waiter w.             *)
CallTimer(w) == TimeoutTimer(w[1], w[2])

(* The tasks are spawned, after what the main program queued before them.  *)
TasksInit(queue) ==
    /\ HubInit(queue \o [i \in 1..Cardinality(Co) |-> Callback("resume", SetToSeq(Co)[i])])
    /\ kills = 0

(* The callbacks a primitive with the callbacks ops leaves in the queue,   *)
(* and the timers of Hub:wait and of the blocking calls.                   *)
TaskCallbacks(ops) == [op : ops \cup {"resume", "throw"}, co : Co \cup {NoCo}]
TaskTimers == {SleepTimer(w) : w \in Waiter} \cup {CallTimer(w) : w \in Waiter}

TasksTypeOK(ops) ==
    /\ HubTypeOK
    /\ callbacks \in Seq(TaskCallbacks(ops))
    /\ active \cup pending \subseteq TaskTimers
    /\ kills \in 0..MaxKills

-----------------------------------------------------------------------------
(* The blocking call of a primitive up to the yield; no Timeout is started *)
(* when sec is nil.                                                        *)
Block(c) ==
    /\ park(c)
    /\ active' \in {active} \cup (IF Timed THEN {active \cup {CallTimer(waiter(c))}} ELSE {})
    /\ UNCHANGED <<exception, frame, pending, phase, kills>>

(* A parked task is resumed, by the timer `fired' if there is one: its     *)
(* blocking call stops the call's own timer.                               *)
Stopped(w) == {SleepTimer(w), CallTimer(w)}

Resume(w, e, fired) ==
    /\ _switch(w, e)
    /\ active' = active \ Stopped(w)
    /\ pending' = pending \ (Stopped(w) \cup fired)

-----------------------------------------------------------------------------
(* What tasks do besides calling the primitive.                            *)

sleep(c) ==
    /\ cur = c
    /\ park(c)
    /\ active' = active \cup {SleepTimer(waiter(c))}
    /\ UNCHANGED <<exception, callbacks, frame, pending, phase, kills>>

kill(c) ==
    /\ cur # NoCo
    /\ kills < MaxKills
    /\ kills' = kills + 1
    /\ run_callback(Callback("throw", c))
    /\ UNCHANGED <<cur, waiters, created, exception, frame, loopState>>

(* The task returns, or fails: nothing runs on its coroutine any more.     *)
Finish(c) ==
    /\ cur = c
    /\ cur' = NoCo
    /\ UNCHANGED <<waiters, created, exception, callbacks, frame, loopState, kills>>

-----------------------------------------------------------------------------
(* Steps of the hub that do not belong to the primitive.                   *)

Start ==
    /\ CallbackIs("resume")
    /\ DropCallback
    /\ cur' = Head(callbacks).co
    /\ UNCHANGED <<waiters, created, exception, frame, loopState, kills>>

(* Hub:throw for levent.kill: into the blocking call, or its assertion     *)
(* fails because the task has ended.                                       *)
Killed(c) ==
    /\ CallbackIs("throw")
    /\ Head(callbacks).co = c
    /\ CanThrow(c)
    /\ DropCallback
    /\ Resume(ParkedOn(c), "error", {})
    /\ UNCHANGED <<frame, phase, kills>>

KillMissed ==
    /\ CallbackIs("throw")
    /\ ~CanThrow(Head(callbacks).co)
    /\ DropCallback
    /\ UNCHANGED <<cur, waiters, created, exception, frame, loopState, kills>>

(* Hub:throw for the Timeout of a blocking call.                           *)
TimedOut(w) ==
    /\ InvokedIs(CallTimer(w))
    /\ CanThrow(w[1])
    /\ Resume(ParkedOn(w[1]), "error", {CallTimer(w)})
    /\ UNCHANGED <<callbacks, frame, phase, kills>>

SleepOver(w) ==
    /\ InvokedIs(SleepTimer(w))
    /\ Resume(w, "nil", {SleepTimer(w)})
    /\ UNCHANGED <<callbacks, frame, phase, kills>>

(* An exception reaches the blocking call c is in.                         *)
Interrupted(c) == Killed(c) \/ \E n \in 1..MaxWaits : TimedOut(<<c, n>>)

TasksHubStep ==
    \/ Start \/ KillMissed
    \/ \E w \in Waiter : SleepOver(w)
    \/ (Poll \/ NextRound \/ LoopReturns) /\ UNCHANGED kills
=============================================================================
