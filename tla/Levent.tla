------------------------------ MODULE Levent ------------------------------
(***************************************************************************)
(* levent/levent.lua, levent/coroutines.lua and levent/timeout.lua over    *)
(* the hub: tasks are spawned onto pooled coroutines, sleep, run code      *)
(* under nested timeouts, are killed, return or fail.                      *)
(*                                                                         *)
(* A task is any program over these operations.  Its handle is the         *)
(* coroutine levent.spawn returned, which serves another task once this    *)
(* one has returned.                                                       *)
(***************************************************************************)
EXTENDS Hub, SequencesExt

CONSTANTS MaxTasks,  \* bound: how many tasks are ever spawned
          MaxDepth,  \* bound: nesting of timeout.run in one task
          MaxKills   \* bound: how many kills are ever requested

ASSUME LeventAssumption ==
    MaxTasks \in Nat \ {0} /\ MaxDepth \in Nat /\ MaxKills \in Nat

VARIABLES
    costate,  \* "none", "pooled", "spawned", "alive" or "dead"
    pool,     \* coroutine_pool, used as a stack
    task,     \* number of the task a coroutine was last given, 0 before
    tasks,    \* number of tasks spawned so far
    kills,    \* number of kills requested so far
    depth     \* number of timeout.run calls the task on a coroutine is in

levVars == <<costate, pool, task, tasks, kills, depth>>
vars == <<hubVars, levVars>>

(* A queued callback: coroutines.resume or Hub:throw on a coroutine.       *)
Record == [op : {"resume", "throw"}, co : Co, task : 1..MaxTasks]

(* The timers of Hub:wait and of timeout.run.                              *)
Timers ==
    {SleepTimer(w) : w \in Waiter}
      \cup {TimeoutTimer(c, k) : c \in Co, k \in 1..MaxDepth}

TypeOK ==
    /\ HubTypeOK
    /\ callbacks \in Seq(Record)
    /\ frame = "none"
    /\ active \cup pending \subseteq Timers
    /\ costate \in [Co -> {"none", "pooled", "spawned", "alive", "dead"}]
    /\ pool \in Seq(Co)
    /\ task \in [Co -> 0..MaxTasks]
    /\ tasks \in 0..MaxTasks
    /\ kills \in 0..MaxKills
    /\ depth \in [Co -> 0..MaxDepth]

(* levent.start(f) up to hub:run: the first task is queued.                *)
Init ==
    \E c \in Co :
       /\ HubInit(<<[op |-> "resume", co |-> c, task |-> 1]>>)
       /\ costate = [d \in Co |-> IF d = c THEN "spawned" ELSE "none"]
       /\ pool = <<>>
       /\ task = [d \in Co |-> IF d = c THEN 1 ELSE 0]
       /\ tasks = 1
       /\ kills = 0
       /\ depth = [d \in Co |-> 0]

-----------------------------------------------------------------------------
(* Operations of the running task.                                         *)

(* co_create: the last coroutine of the pool, or a new one.                *)
co_create_peek(c) ==
    IF pool = <<>> THEN costate[c] = "none" /\ UNCHANGED pool
    ELSE c = Last(pool) /\ UNCHANGED pool
co_create(c) ==
    IF pool = <<>> THEN costate[c] = "none" /\ UNCHANGED pool
    ELSE c = Last(pool) /\ pool' = Front(pool)

(* levent.spawn: the new task runs when its callback is reached.           *)
spawn(c) ==
    /\ cur # NoCo
    /\ tasks < MaxTasks
    /\ co_create(c)
    /\ costate' = [costate EXCEPT ![c] = "spawned"]
    /\ task' = [task EXCEPT ![c] = tasks + 1]
    /\ tasks' = tasks + 1
    /\ run_callback([op |-> "resume", co |-> c, task |-> tasks + 1])
    /\ UNCHANGED <<cur, waiters, created, exception, frame, loopState,
                   kills, depth>>

(* levent.kill of a task that has not ended.  The task is recorded to say  *)
(* later whom the kill was meant for; the code only keeps the coroutine.   *)
kill(c) ==
    /\ cur # NoCo
    /\ kills < MaxKills
    /\ costate[c] \in {"spawned", "alive"}
    /\ kills' = kills + 1
    /\ run_callback([op |-> "throw", co |-> c, task |-> task[c]])
    /\ UNCHANGED <<cur, waiters, created, exception, frame, loopState,
                   costate, pool, task, tasks, depth>>

(* levent.sleep, Hub:wait on a new timer up to the yield.                  *)
sleep(c) ==
    /\ cur = c
    /\ park(c)
    /\ active' = active \cup {SleepTimer(waiter(c))}
    /\ UNCHANGED <<exception, callbacks, frame, pending, phase, levVars>>

(* timeout.run up to the call of func, with a positive number of seconds.  *)
timeout_run(c) ==
    /\ cur = c
    /\ depth[c] < MaxDepth
    /\ depth' = [depth EXCEPT ![c] = @ + 1]
    /\ active' = active \cup {TimeoutTimer(c, depth[c] + 1)}
    /\ UNCHANGED <<cur, waiters, created, exception, callbacks, frame,
                   pending, phase, costate, pool, task, tasks, kills>>

(* The timers of c that are stopped when it unwinds to nesting d: the      *)
(* watcher of its Hub:wait and the Timeouts of the timeout.run it leaves.  *)
Unwound_keepsTimeouts(c, d) == {t \in TimersOf(c, active \cup pending) : t[1] = "sleep"}
Unwound_everyone(c, d) == active \cup pending
Unwound(c, d) ==
    {t \in TimersOf(c, active \cup pending) : t[1] = "sleep" \/ t[3] > d}

(* timeout.run after func returned: t:cancel().                            *)
timeout_return(c) ==
    /\ cur = c
    /\ depth[c] > 0
    /\ depth' = [depth EXCEPT ![c] = @ - 1]
    /\ active' = active \ Unwound(c, depth[c] - 1)
    /\ pending' = pending \ Unwound(c, depth[c] - 1)
    /\ UNCHANGED <<cur, waiters, created, exception, callbacks, frame, phase,
                   costate, pool, task, tasks, kills>>

(* The task returns: the body of co_raw_create puts its coroutine back     *)
(* into the pool and yields.                                               *)
Finish(c) ==
    /\ cur = c
    /\ depth[c] = 0
    /\ cur' = NoCo
    /\ costate' = [costate EXCEPT ![c] = "pooled"]
    /\ pool' = Append(pool, c)
    /\ UNCHANGED <<waiters, created, exception, callbacks, frame, loopState,
                   task, tasks, kills, depth>>

(* The task fails with an error nobody catches, its timeout.run calls      *)
(* cancel their timers, and the coroutine is dead and never pooled.        *)
Fail(c) ==
    /\ cur = c
    /\ cur' = NoCo
    /\ costate' = [costate EXCEPT ![c] = "dead"]
    /\ depth' = [depth EXCEPT ![c] = 0]
    /\ active' = active \ Unwound(c, 0)
    /\ pending' = pending \ Unwound(c, 0)
    /\ UNCHANGED <<waiters, created, exception, callbacks, frame, phase,
                   pool, task, tasks, kills>>

(* coroutines.check(count): fill the pool up to count with new coroutines. *)
check_coroutine(count) ==
    /\ cur # NoCo
    /\ count > Len(pool)
    /\ \E new \in {S \in SUBSET Co : \A c \in S : costate[c] = "none"} :
          /\ Cardinality(new) = count - Len(pool)
          /\ costate' = [c \in Co |-> IF c \in new THEN "pooled" ELSE costate[c]]
          /\ \E s \in SetToSeqs(new) : pool' = pool \o s
    /\ UNCHANGED <<hubVars, task, tasks, kills, depth>>

-----------------------------------------------------------------------------
(* Steps of the hub.                                                       *)

(* coroutines.resume, the callback levent.spawn queued.                    *)
RunTask ==
    /\ CallbackIs("resume")
    /\ DropCallback
    /\ cur' = Head(callbacks).co
    /\ costate' = [costate EXCEPT ![Head(callbacks).co] = "alive"]
    /\ UNCHANGED <<waiters, created, exception, frame, loopState,
                   pool, task, tasks, kills, depth>>

(* Hub:throw(c) with its consequences in c: Hub:wait stops the watcher,    *)
(* the timeout.run calls down to nesting d cancel their Timeouts, and the  *)
(* task goes on at nesting d, where the exception was caught.              *)
throw(c, d) ==
    /\ _switch(ParkedOn(c), "error")
    /\ depth' = [depth EXCEPT ![c] = d]
    /\ active' = active \ Unwound(c, d)

(* The callback levent.kill queued.  If the coroutine is parked the        *)
(* exception is thrown there, else the assertion of Hub:throw fails and    *)
(* only an error is printed.                                               *)
RunKill ==
    LET c == Head(callbacks).co IN
    /\ CallbackIs("throw")
    /\ DropCallback
    /\ \/ /\ CanThrow(c)
          /\ \E d \in 0..depth[c] :
                throw(c, d) /\ pending' = pending \ Unwound(c, d)
       \/ /\ ~CanThrow(c)
          /\ UNCHANGED <<cur, waiters, created, exception, active, pending, depth>>
    /\ UNCHANGED <<frame, phase, costate, pool, task, tasks, kills>>

(* The timer of Hub:wait calls its Waiter, the task runs on after sleep.   *)
SleepOver(w) ==
    /\ InvokedIs(SleepTimer(w))
    /\ _switch(w, "nil")
    /\ pending' = pending \ {SleepTimer(w)}
    /\ UNCHANGED <<callbacks, frame, active, phase, levVars>>

(* The timer of the k-th nested timeout.run of c calls Hub:throw.  That    *)
(* timeout.run returns false, unless the task caught the exception in a    *)
(* timeout.run further in.                                                 *)
TimeoutOver(c, k) ==
    /\ InvokedIs(TimeoutTimer(c, k))
    /\ \/ /\ CanThrow(c)
          /\ \E d \in (k - 1)..depth[c] :
                /\ throw(c, d)
                /\ pending' = pending \ (Unwound(c, d) \cup {TimeoutTimer(c, k)})
       \/ /\ ~CanThrow(c)
          /\ pending' = pending \ {TimeoutTimer(c, k)}
          /\ UNCHANGED <<cur, waiters, created, exception, active, depth>>
    /\ UNCHANGED <<callbacks, frame, phase, costate, pool, task, tasks, kills>>

LoopStep == (Poll \/ NextRound \/ LoopReturns) /\ UNCHANGED levVars

Exited == phase = "exit" /\ UNCHANGED vars

-----------------------------------------------------------------------------
(* The running task gives control back to the hub.                         *)
Yields(c) == sleep(c) \/ Finish(c) \/ Fail(c)

TaskStep(c) ==
    \/ spawn(c) \/ kill(c) \/ timeout_run(c) \/ timeout_return(c)
    \/ Yields(c)

HubStep ==
    \/ RunTask \/ RunKill
    \/ \E w \in Waiter : SleepOver(w)
    \/ \E c \in Co, k \in 1..MaxDepth : TimeoutOver(c, k)
    \/ LoopStep

Next ==
    \/ \E c \in Co : TaskStep(c)
    \/ \E count \in 1..Cardinality(Co) : check_coroutine(count)
    \/ HubStep
    \/ Exited

(* The hub always takes its next step, and the code of a task does not run *)
(* on for ever: in some way it gives control back.                         *)
Fairness ==
    /\ WF_vars(HubStep)
    /\ \A c \in Co : WF_vars(Yields(c))

Spec == Init /\ [][Next]_vars /\ Fairness

-----------------------------------------------------------------------------
(* A task that has started and is not running is parked on exactly one     *)
(* unresolved Waiter, its newest, which Hub.waiters knows: what the        *)
(* assertions of Hub:_yield, Hub:throw and Waiter:_switch rely on.         *)
ParkedOnce ==
    \A c \in Co :
       /\ (costate[c] = "alive" /\ cur # c) <=> waiters[c] # 0
       /\ waiters[c] # 0 => waiters[c] = created[c] /\ Unresolved(ParkedOn(c))
       /\ cur = c => costate[c] = "alive"

(* A timer that can still fire belongs to code that is still waiting for   *)
(* it: the Hub:wait its coroutine is parked in, or a timeout.run its task  *)
(* is inside of.  So no timer resumes a Waiter twice, and no Timeout is    *)
(* thrown into code outside the timeout.run that set it, in particular not *)
(* into a later task on the same coroutine.  Conversely a parked task has  *)
(* a timer that will resume it.                                            *)
TimersInScope ==
    /\ \A w \in Waiter :
          SleepTimer(w) \in active \cup pending <=> waiters[w[1]] = w[2]
    /\ \A c \in Co, k \in 1..MaxDepth :
          TimeoutTimer(c, k) \in active \cup pending
            => costate[c] = "alive" /\ k <= depth[c]

(* A kill reaches the task it was meant for or nobody: although the code   *)
(* keeps only the coroutine, and the coroutine may have been given a new   *)
(* task before the kill is carried out, no task is parked on it then.      *)
KillsItsTarget ==
    \A i \in 1..Len(callbacks) :
       callbacks[i].op = "throw" /\ callbacks[i].task # task[callbacks[i].co]
         => costate[callbacks[i].co] # "alive"

(* The pool holds each idle coroutine once and no other: two tasks never   *)
(* share a coroutine.                                                      *)
PoolSound ==
    /\ \A i, j \in 1..Len(pool) : pool[i] = pool[j] => i = j
    /\ \A c \in Co : costate[c] = "pooled" <=> \E i \in 1..Len(pool) : pool[i] = c
    /\ \A c \in Co :
          costate[c] = "spawned" <=>
             \E i \in 1..Len(callbacks) :
                callbacks[i] = [op |-> "resume", co |-> c, task |-> task[c]]

(* Every spawned task starts, and every sleeping task is resumed.          *)
SpawnedTaskRuns == \A c \in Co : costate[c] = "spawned" ~> costate[c] = "alive"
SleeperWakes == \A c \in Co : waiters[c] # 0 ~> waiters[c] = 0
=============================================================================
