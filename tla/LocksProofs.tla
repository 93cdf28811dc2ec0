----------------------------- MODULE LocksProofs -----------------------------
(***************************************************************************)
(* Event and AsyncResult keep their promises for every number of tasks,    *)
(* Waiters, kills and sets: whoever is in links is parked there, and no    *)
(* one that is parked when the flag is set, or the result stored, is       *)
(* passed over by _notify.                                                 *)
(***************************************************************************)
EXTENDS Locks, TasksProofs

Notify == {"notify"}

(* The lists hold Waiters of calls of wait or get that are parked.         *)
LinksListed == \A w \in links : Listed(w)

(* The list of the next _notify holds nobody who has left wait, as long as *)
(* no wait was interrupted; it is what keeps _notify from failing.         *)
TodoWaits == Uninterrupted => todo \subseteq links

(* The inductive invariants of the Event and of the AsyncResult.           *)
ListsInv == TypeOK /\ TasksInv /\ LinksListed
EventInv == SetCoversWaiters /\ TodoWaits
LocksInv ==
    /\ ListsInv
    /\ kind \in {"Event", "AsyncResult"}
    /\ kind = "Event" => EventInv
    /\ AsyncLeavesNobody

-----------------------------------------------------------------------------
(* _notify is coming: it is queued or running.                             *)
LEMMA ComingMeans ==
  /\ NotifyComing <=> frame = "notify" \/ HasOp(callbacks, "notify")
  /\ Async!NotifyComing <=> NotifyComing
  BY DEF NotifyComing, Async!NotifyComing, HasOp

LEMMA StillComing ==
  ASSUME NotifyComing, frame' = frame, HasOp(callbacks, "notify") => HasOp(callbacks', "notify")
  PROVE  NotifyComing'
<1>1. frame = "notify" \/ HasOp(callbacks, "notify")
  BY ComingMeans
<1>2. frame' = "notify" \/ HasOp(callbacks', "notify")
  BY <1>1
<1> QED
  BY <1>2 DEF NotifyComing, HasOp

LEMMA ListsKept ==
  ASSUME LinksListed, links \subseteq Waiter, NEW X, KeepsListed(X),
         \A w \in links' : (w \in links /\ w \notin X) \/ NowListed(w)
  PROVE  LinksListed'
<1> SUFFICES ASSUME NEW w \in links' PROVE NowListed(w)
  BY DEF LinksListed, Listed, NowListed, Unresolved
<1> QED
  BY DEF LinksListed, KeepsListed

LEMMA ErrorsKept ==
  ASSUME KeepsResults, Uninterrupted'
  PROVE  Uninterrupted
  BY DEF KeepsResults, Uninterrupted

-----------------------------------------------------------------------------
(* A step that is none of the primitive's, and an interrupted call.        *)
LEMMA OtherStep ==
  ASSUME ListsInv, UNCHANGED <<eventVars>>, Keeps(Notify, {}), KeepsOps, UNCHANGED frame
  PROVE  /\ ListsInv'
         /\ EventInv => EventInv'
         /\ Async!NoGetterLeftBehind => Async!NoGetterLeftBehind'
<1> USE DEF ListsInv
<1>1. UNCHANGED <<links, todo, flag, notifier, sets>>
  BY DEF eventVars
<1>2. TypeOK' /\ TasksInv'
  BY <1>1 DEF TypeOK, Keeps, Notify
<1>3. LinksListed'
  BY <1>1, ListsKept DEF Keeps, TypeOK
<1>4. NotifyComing => NotifyComing'
  BY StillComing DEF KeepsOps
<1>5. EventInv => EventInv'
  BY <1>1, <1>4, ErrorsKept DEF EventInv, SetCoversWaiters, TodoWaits, Keeps
<1>6. Async!NoGetterLeftBehind => Async!NoGetterLeftBehind'
  BY <1>1, <1>4 DEF Async!NoGetterLeftBehind, Async!NotifyComing, NotifyComing
<1> QED
  BY <1>2, <1>3, <1>5, <1>6

LEMMA StutterStep ==
  ASSUME ListsInv, UNCHANGED vars
  PROVE  /\ ListsInv'
         /\ EventInv => EventInv'
         /\ Async!NoGetterLeftBehind => Async!NoGetterLeftBehind'
<1>1. UNCHANGED <<cur, waiters, created, exception, callbacks, frame, active, pending,
                  phase, kills, eventVars>>
  BY DEF vars, taskVars, hubVars
<1>2. QueuesNoResume /\ KeepsOps
  BY <1>1, KeepsQueue DEF ListsInv, TasksInv
<1>3. Keeps(Notify, {})
  BY <1>1, <1>2, QuietStep DEF ListsInv, TypeOK, Notify, TasksTypeOK, HubTypeOK
<1> QED
  BY <1>1, <1>2, <1>3, OtherStep

LEMMA InterruptStep ==
  ASSUME ListsInv, NEW c \in Co, WaitInterrupted(c)
  PROVE  /\ ListsInv'
         /\ EventInv => EventInv'
         /\ Async!NoGetterLeftBehind => Async!NoGetterLeftBehind'
<1> USE DEF ListsInv
<1>1. /\ Interrupted(c) /\ links' = links \ {ParkedOn(c)}
      /\ UNCHANGED <<todo, flag, notifier, sets>>
  BY DEF WaitInterrupted
<1>2. /\ Keeps(Notify, {ParkedOn(c)}) /\ KeepsOps /\ UNCHANGED frame
      /\ ParkedOn(c) \in Waiter /\ exception'[ParkedOn(c)] = "error"
  BY <1>1, InterruptedStep DEF TypeOK, Notify
<1>3. TypeOK' /\ TasksInv'
  BY <1>1, <1>2 DEF TypeOK, Keeps, Notify
<1>4. LinksListed'
  <2>1. \A w \in links' : (w \in links /\ w \notin {ParkedOn(c)}) \/ NowListed(w)
    BY <1>1
  <2> QED
    BY <1>2, <2>1, ListsKept DEF Keeps, TypeOK
<1>5. NotifyComing => NotifyComing'
  BY <1>2, StillComing DEF KeepsOps
<1>6. ~Uninterrupted'
  BY <1>2 DEF Uninterrupted
<1>7. EventInv => EventInv'
  BY <1>1, <1>6 DEF EventInv, SetCoversWaiters, TodoWaits
<1>8. Async!NoGetterLeftBehind => Async!NoGetterLeftBehind'
  BY <1>1, <1>5 DEF Async!NoGetterLeftBehind, Async!NotifyComing, NotifyComing
<1> QED
  BY <1>3, <1>4, <1>7, <1>8

(* A call parks in wait or get: there is no flag or result yet.            *)
LEMMA WaitStep ==
  ASSUME ListsInv, NEW c \in Co, wait(c)
  PROVE  /\ ListsInv'
         /\ EventInv => EventInv'
         /\ Async!NoGetterLeftBehind'
<1> USE DEF ListsInv
<1>1. /\ cur = c /\ ~flag /\ links' = links \cup {waiter(c)} /\ Block(c)
      /\ UNCHANGED <<callbacks, todo, flag, notifier, sets>> /\ UNCHANGED frame
  BY DEF wait, Block
<1>2. /\ Keeps(Notify, {}) /\ KeepsOps
      /\ waiter(c) \in Waiter /\ NowListed(waiter(c))
  BY <1>1, BlockStep DEF TypeOK, Notify
<1>3. TypeOK' /\ TasksInv'
  BY <1>1, <1>2 DEF TypeOK, Keeps, Notify
<1>4. LinksListed'
  <2>1. \A w \in links' : (w \in links /\ w \notin {}) \/ NowListed(w)
    BY <1>1, <1>2
  <2> QED
    BY <1>1, <1>2, <2>1, ListsKept DEF Keeps, TypeOK
<1>5. NotifyComing => NotifyComing'
  BY <1>1, <1>2, StillComing DEF KeepsOps
<1>6. EventInv => EventInv'
  BY <1>1, <1>2, <1>5, ErrorsKept DEF EventInv, SetCoversWaiters, TodoWaits, Keeps
<1>7. Async!NoGetterLeftBehind'
  BY <1>1 DEF Async!NoGetterLeftBehind
<1> QED
  BY <1>3, <1>4, <1>6, <1>7

(* set and _set queue _notify.                                             *)
LEMMA SetStep ==
  ASSUME ListsInv, run_callback(Callback("notify", NoCo)), flag' \in BOOLEAN,
         todo' \in SUBSET Waiter, notifier' \in BOOLEAN, sets' \in 0..MaxSets,
         UNCHANGED <<cur, waiters, created, exception, frame, active, pending, phase, kills, links>>
  PROVE  ListsInv' /\ NotifyComing'
<1> USE DEF ListsInv
<1>1. /\ QueuesNoResume /\ callbacks' \in Seq(TaskCallbacks(Notify))
      /\ HasOp(callbacks', "notify")
  BY QueueStep DEF TypeOK, Notify
<1>2. Keeps(Notify, {})
  BY <1>1, QuietStep DEF TypeOK, Notify, TasksTypeOK, HubTypeOK
<1>3. TypeOK' /\ TasksInv'
  BY <1>2 DEF TypeOK, Keeps, Notify
<1>4. LinksListed'
  BY <1>2, ListsKept DEF Keeps, TypeOK
<1>5. NotifyComing'
  BY <1>1 DEF NotifyComing, HasOp
<1> QED
  BY <1>3, <1>4, <1>5

(* _notify begins: it leaves the queue and is the frame.                   *)
LEMMA BeginStep ==
  ASSUME ListsInv, NotifyBegin
  PROVE  /\ ListsInv' /\ NotifyComing'
         /\ EventInv => EventInv'
         /\ Async!NoGetterLeftBehind'
<1> USE DEF ListsInv
<1>1. /\ CallbackIs("notify") /\ DropCallback /\ frame' = "notify"
      /\ UNCHANGED <<cur, waiters, created, exception, active, pending, phase, kills,
                     links, todo, flag, notifier, sets>>
  BY DEF NotifyBegin, loopState, eventVars
<1>2. QueuesNoResume /\ callbacks' \in Seq(TaskCallbacks(Notify))
  BY <1>1, TakeStep DEF TypeOK, Notify
<1>3. Keeps(Notify, {})
  BY <1>1, <1>2, QuietStep DEF TypeOK, Notify, TasksTypeOK, HubTypeOK
<1>4. TypeOK' /\ TasksInv'
  BY <1>1, <1>3 DEF TypeOK, Keeps, Notify
<1>5. LinksListed'
  BY <1>1, <1>3, ListsKept DEF Keeps, TypeOK
<1>6. NotifyComing'
  BY <1>1 DEF NotifyComing
<1>7. EventInv => EventInv'
  BY <1>1, <1>3, <1>6, ErrorsKept DEF EventInv, SetCoversWaiters, TodoWaits, Keeps
<1>8. Async!NoGetterLeftBehind'
  BY <1>6 DEF Async!NoGetterLeftBehind, Async!NotifyComing, NotifyComing
<1> QED
  BY <1>4, <1>5, <1>6, <1>7, <1>8

(* _notify resumes the coroutine of w, which leaves links.                 *)
LEMMA SwitchStep ==
  ASSUME ListsInv, NEW w \in Waiter, cur = NoCo, frame = "notify", Resume(w, "nil", {}),
         links' = links \ {w}, todo' \in SUBSET Waiter,
         UNCHANGED <<callbacks, frame, phase, kills, flag, notifier, sets>>
  PROVE  ListsInv' /\ NotifyComing' /\ KeepsResults
<1> USE DEF ListsInv
<1>1. QueuesNoResume
  BY KeepsQueue DEF TasksInv
<1>2. Keeps(Notify, {w})
  BY <1>1, ResumeStep DEF TypeOK, Notify, TasksTypeOK
<1>3. TypeOK' /\ TasksInv'
  BY <1>2 DEF TypeOK, Keeps, Notify
<1>4. LinksListed'
  BY <1>2, ListsKept DEF Keeps, TypeOK
<1>5. NotifyComing' /\ KeepsResults
  BY <1>2 DEF NotifyComing, Keeps
<1> QED
  BY <1>3, <1>4, <1>5

(* _notify ends or fails: nothing but the frame and its lists change.      *)
LEMMA EndStep ==
  ASSUME ListsInv, todo' \in SUBSET Waiter, notifier' \in BOOLEAN, frame' = "none",
         UNCHANGED <<cur, waiters, created, exception, callbacks, active, pending, phase,
                     kills, links, flag, sets>>
  PROVE  ListsInv' /\ KeepsResults
<1> USE DEF ListsInv
<1>1. QueuesNoResume
  BY KeepsQueue DEF TasksInv
<1>2. Keeps(Notify, {})
  BY <1>1, QuietStep DEF TypeOK, Notify, TasksTypeOK, HubTypeOK
<1>3. TypeOK' /\ TasksInv'
  BY <1>2 DEF TypeOK, Keeps, Notify
<1>4. LinksListed'
  BY <1>2, ListsKept DEF Keeps, TypeOK
<1> QED
  BY <1>2, <1>3, <1>4 DEF Keeps

-----------------------------------------------------------------------------
(* Every step of the Event keeps its invariant.                            *)
LEMMA EventStep ==
  ASSUME ListsInv, EventInv, Next
  PROVE  ListsInv' /\ EventInv'
<1>1. ASSUME NEW c \in Co, Set(c) PROVE ListsInv' /\ EventInv'
  <2>1. /\ flag' = TRUE /\ todo' = todo \cup links /\ notifier' = TRUE
        /\ sets' = sets + 1 /\ sets < MaxSets
        /\ IF notifier THEN UNCHANGED callbacks ELSE run_callback(Callback("notify", NoCo))
        /\ UNCHANGED <<cur, waiters, created, exception, frame, active, pending, phase, kills, links>>
    BY <1>1 DEF Set, set, loopState
  <2>2. todo' \in SUBSET Waiter /\ sets' \in 0..MaxSets
    BY <2>1, EventAssumption DEF ListsInv, TypeOK
  <2>3. KeepsResults
    BY <2>1 DEF KeepsResults
  <2>4. CASE notifier
    <3>1. QueuesNoResume /\ UNCHANGED callbacks
      BY <2>1, <2>4, KeepsQueue DEF ListsInv, TasksInv
    <3>2. Keeps(Notify, {})
      BY <2>1, <3>1, QuietStep DEF ListsInv, TypeOK, Notify, TasksTypeOK, HubTypeOK
    <3>3. TypeOK' /\ TasksInv'
      BY <2>1, <2>2, <3>2 DEF ListsInv, TypeOK, Keeps, Notify
    <3>4. LinksListed'
      BY <2>1, <3>2, ListsKept DEF Keeps, ListsInv, TypeOK
    <3>5. EventInv'
      BY <2>1, <2>3, <2>4, <3>1, ErrorsKept
         DEF EventInv, SetCoversWaiters, TodoWaits, NotifyComing
    <3> QED
      BY <3>3, <3>4, <3>5 DEF ListsInv
  <2>5. CASE ~notifier
    <3>1. ListsInv' /\ NotifyComing'
      BY <2>1, <2>2, <2>5, SetStep
    <3>2. EventInv'
      BY <2>1, <2>3, <2>5, <3>1, ErrorsKept DEF EventInv, SetCoversWaiters, TodoWaits
    <3> QED
      BY <3>1, <3>2
  <2> QED
    BY <2>4, <2>5 DEF ListsInv, TypeOK
<1>2. ASSUME NEW c \in Co, clear(c) PROVE ListsInv' /\ EventInv'
  <2>1. /\ flag' = FALSE
        /\ UNCHANGED <<cur, waiters, created, exception, callbacks, frame, active, pending,
                       phase, kills, links, todo, notifier, sets>>
    BY <1>2 DEF clear, taskVars, hubVars
  <2>2. QueuesNoResume /\ KeepsOps
    BY <2>1, KeepsQueue DEF ListsInv, TasksInv
  <2>3. Keeps(Notify, {})
    BY <2>1, <2>2, QuietStep DEF ListsInv, TypeOK, Notify, TasksTypeOK, HubTypeOK
  <2>4. TypeOK' /\ TasksInv'
    BY <2>1, <2>3 DEF ListsInv, TypeOK, Keeps, Notify
  <2>5. LinksListed'
    BY <2>1, <2>3, ListsKept DEF Keeps, ListsInv, TypeOK
  <2>6. EventInv'
    BY <2>1, <2>3, ErrorsKept
       DEF EventInv, SetCoversWaiters, TodoWaits, NotifyComing, Keeps
  <2> QED
    BY <2>4, <2>5, <2>6 DEF ListsInv
<1>3. ASSUME NEW c \in Co, wait(c) PROVE ListsInv' /\ EventInv'
  BY <1>3, WaitStep
<1>4. ASSUME NEW c \in Co, (sleep(c) \/ kill(c) \/ Finish(c)) /\ UNCHANGED eventVars
      PROVE  ListsInv' /\ EventInv'
  <2>1. Keeps(Notify, {}) /\ KeepsOps /\ UNCHANGED frame
    BY <1>4, OtherTaskStep DEF ListsInv, TypeOK, Notify
  <2> QED
    BY <1>4, <2>1, OtherStep
<1>5. CASE NotifyBegin
  BY <1>5, BeginStep
<1>6. CASE NotifyEnd
  <2>1. /\ todo = {} /\ notifier' = FALSE /\ frame' = "none"
        /\ UNCHANGED <<cur, waiters, created, exception, callbacks, active, pending, phase,
                       kills, links, todo, flag, sets>>
    BY <1>6 DEF NotifyEnd, loopState
  <2>2. ListsInv' /\ KeepsResults
    BY <2>1, EndStep DEF ListsInv, TypeOK
  <2>3. EventInv'
    BY <2>1, <2>2, ErrorsKept DEF EventInv, SetCoversWaiters, TodoWaits
  <2> QED
    BY <2>2, <2>3
<1>7. ASSUME NEW w \in Waiter, NotifySwitch(w) PROVE ListsInv' /\ EventInv'
  <2>1. /\ cur = NoCo /\ frame = "notify" /\ Resume(w, "nil", {}) /\ w \in todo
        /\ links' = links \ {w} /\ todo' = todo \ {w}
        /\ UNCHANGED <<callbacks, frame, phase, kills, flag, notifier, sets>>
    BY <1>7 DEF NotifySwitch, InNotify
  <2>2. ListsInv' /\ NotifyComing' /\ KeepsResults
    BY <2>1, SwitchStep DEF ListsInv, TypeOK
  <2>3. EventInv'
    BY <2>1, <2>2, ErrorsKept DEF EventInv, SetCoversWaiters, TodoWaits
  <2> QED
    BY <2>2, <2>3
<1>8. ASSUME NEW w \in Waiter, NotifyFails(w) PROVE ListsInv' /\ EventInv'
  <2>1. /\ w \in todo /\ ~Unresolved(w) /\ todo' = todo \ {w} /\ frame' = "none"
        /\ UNCHANGED <<cur, waiters, created, exception, callbacks, active, pending, phase,
                       kills, links, flag, notifier, sets>>
    BY <1>8 DEF NotifyFails, loopState
  <2>2. ListsInv' /\ KeepsResults
    BY <2>1, EndStep DEF ListsInv, TypeOK
  <2>3. w \notin links
    BY <2>1 DEF ListsInv, LinksListed, Listed
  <2>4. ~Uninterrupted'
    BY <2>1, <2>2, <2>3, ErrorsKept DEF EventInv, TodoWaits
  <2>5. EventInv'
    BY <2>1, <2>3, <2>4 DEF EventInv, SetCoversWaiters, TodoWaits
  <2> QED
    BY <2>2, <2>5
<1>9. ASSUME NEW c \in Co, WaitInterrupted(c) PROVE ListsInv' /\ EventInv'
  BY <1>9, InterruptStep
<1>10. CASE TasksHubStep /\ UNCHANGED eventVars
  <2>1. Keeps(Notify, {}) /\ KeepsOps /\ UNCHANGED frame
    BY <1>10, OtherHubStep DEF ListsInv, TypeOK, Notify
  <2> QED
    BY <1>10, <2>1, OtherStep
<1>11. CASE Exited
  BY <1>11, StutterStep DEF Exited
<1> QED
  BY <1>1, <1>2, <1>3, <1>4, <1>5, <1>6, <1>7, <1>8, <1>9, <1>10, <1>11
     DEF Next, TaskStep, HubStep, NotifyStep

-----------------------------------------------------------------------------
(* The steps AsyncResult shares with Event, and what it has of its own.    *)
LEMMA AsyncTasks ==
  ASSUME NEW c
  PROVE  /\ Async!sleep(c) <=> sleep(c)
         /\ Async!kill(c) <=> kill(c)
         /\ Async!Finish(c) <=> Finish(c)
         /\ Async!Block(c) <=> Block(c)
<1>1. Async!park(c) <=> park(c)
  BY DEF Async!park, park
<1>2. Async!waiter(c) = waiter(c)
  BY DEF Async!waiter, waiter
<1>3. Async!sleep(c) <=> sleep(c)
  BY <1>1, <1>2 DEF Async!sleep, sleep, Async!SleepTimer, SleepTimer
<1>4. Async!kill(c) <=> kill(c)
  BY DEF Async!kill, kill, Async!run_callback, run_callback, Async!Callback, Callback,
         Async!loopState, loopState
<1>5. Async!Finish(c) <=> Finish(c)
  BY DEF Async!Finish, Finish, Async!loopState, loopState
<1>6. Async!Block(c) <=> Block(c)
  BY <1>1, <1>2 DEF Async!Block, Block, Async!CallTimer, CallTimer,
                    Async!TimeoutTimer, TimeoutTimer
<1> QED
  BY <1>3, <1>4, <1>5, <1>6

LEMMA AsyncResumes ==
  ASSUME NEW w, NEW e, NEW fired
  PROVE  Async!Resume(w, e, fired) <=> Resume(w, e, fired)
<1>1. Async!_switch(w, e) <=> _switch(w, e)
  BY DEF Async!_switch, _switch, Async!Unresolved, Unresolved, Async!ClearWaiter, ClearWaiter
<1>2. Async!Stopped(w) = Stopped(w)
  BY DEF Async!Stopped, Stopped, Async!SleepTimer, SleepTimer, Async!CallTimer, CallTimer,
         Async!TimeoutTimer, TimeoutTimer
<1> QED
  BY <1>1, <1>2 DEF Async!Resume, Resume

LEMMA AsyncInterrupts ==
  ASSUME NEW c
  PROVE  Async!Interrupted(c) <=> Interrupted(c)
<1>1. Async!ParkedOn(c) = ParkedOn(c) /\ (Async!CanThrow(c) <=> CanThrow(c))
  BY DEF Async!ParkedOn, ParkedOn, Async!CanThrow, CanThrow
<1>2. Async!Killed(c) <=> Killed(c)
  BY <1>1, AsyncResumes DEF Async!Killed, Killed, Async!CallbackIs, CallbackIs,
     Async!HubIdle, HubIdle, Async!DropCallback, DropCallback
<1>3. ASSUME NEW n PROVE Async!TimedOut(<<c, n>>) <=> TimedOut(<<c, n>>)
  <2>1. Async!CallTimer(<<c, n>>) = CallTimer(<<c, n>>)
    BY DEF Async!CallTimer, CallTimer, Async!TimeoutTimer, TimeoutTimer
  <2> QED
    BY <1>1, <2>1, AsyncResumes DEF Async!TimedOut, TimedOut, Async!InvokedIs, InvokedIs,
       Async!HubIdle, HubIdle
<1> QED
  BY <1>2, <1>3 DEF Async!Interrupted, Interrupted

LEMMA AsyncHub ==
  Async!TasksHubStep <=> TasksHubStep
<1> USE DEF Async!HubIdle, HubIdle, Async!loopState, loopState,
            Async!CallbackIs, CallbackIs, Async!DropCallback, DropCallback
<1>1. Async!Start <=> Start
  BY DEF Async!Start, Start
<1>2. Async!KillMissed <=> KillMissed
  BY DEF Async!KillMissed, KillMissed, Async!CanThrow, CanThrow
<1>3. ASSUME NEW w PROVE Async!SleepOver(w) <=> SleepOver(w)
  <2>1. Async!SleepTimer(w) = SleepTimer(w)
    BY DEF Async!SleepTimer, SleepTimer
  <2> QED
    BY <2>1, AsyncResumes DEF Async!SleepOver, SleepOver, Async!InvokedIs, InvokedIs
<1>4. (Async!Poll <=> Poll) /\ (Async!NextRound <=> NextRound)
      /\ (Async!LoopReturns <=> LoopReturns)
  BY DEF Async!Poll, Poll, Async!NextRound, NextRound, Async!LoopReturns, LoopReturns
<1>5. Async!Waiter = Waiter
  BY DEF Async!Waiter, Waiter
<1> QED
  BY <1>1, <1>2, <1>3, <1>4, <1>5 DEF Async!TasksHubStep, TasksHubStep

(* Every step of the AsyncResult keeps its invariant.                      *)
LEMMA AsyncStep ==
  ASSUME ListsInv, Async!NoGetterLeftBehind, Async!Next, UNCHANGED EventOnly
  PROVE  ListsInv' /\ Async!NoGetterLeftBehind'
<1> DEFINE Goal == ListsInv' /\ Async!NoGetterLeftBehind'
<1>0. UNCHANGED <<todo, notifier, sets>>
  BY DEF EventOnly
<1>1. ASSUME NEW c \in Co, Async!_set(c) PROVE Goal
  <2>1. /\ flag' = TRUE /\ run_callback(Callback("notify", NoCo))
        /\ UNCHANGED <<cur, waiters, created, exception, frame, active, pending, phase, kills, links>>
    BY <1>1 DEF Async!_set, Async!loopState, Async!run_callback, run_callback,
                Async!Callback, Callback
  <2>2. ListsInv' /\ NotifyComing'
    BY <1>0, <2>1, SetStep DEF ListsInv, TypeOK
  <2> QED
    BY <2>2 DEF Async!NoGetterLeftBehind, Async!NotifyComing, NotifyComing
<1>2. ASSUME NEW c \in Co, Async!get(c) PROVE Goal
  <2>1. wait(c)
    BY <1>0, <1>2, AsyncTasks DEF Async!get, wait, Async!waiter, waiter
  <2> QED
    BY <2>1, WaitStep
<1>3. ASSUME NEW c \in Co, Async!sleep(c) \/ Async!kill(c) \/ Async!Finish(c),
             UNCHANGED Async!resultVars
      PROVE  Goal
  <2>1. Keeps(Notify, {}) /\ KeepsOps /\ UNCHANGED frame
    BY <1>3, AsyncTasks, OtherTaskStep DEF ListsInv, TypeOK, Notify
  <2> QED
    BY <1>0, <1>3, <2>1, OtherStep DEF Async!resultVars, eventVars
<1>4. CASE Async!NotifyBegin
  <2>1. NotifyBegin
    BY <1>0, <1>4 DEF Async!NotifyBegin, NotifyBegin, Async!CallbackIs, CallbackIs,
       Async!HubIdle, HubIdle, Async!DropCallback, DropCallback, Async!loopState, loopState,
       Async!resultVars, eventVars
  <2> QED
    BY <2>1, BeginStep
<1>5. CASE Async!NotifyEnd
  <2>1. /\ links = {} /\ frame' = "none"
        /\ UNCHANGED <<cur, waiters, created, exception, callbacks, active, pending, phase,
                       kills, links, flag>>
    BY <1>5 DEF Async!NotifyEnd, Async!LoopDone, Async!loopState, Async!resultVars
  <2>2. ListsInv'
    BY <1>0, <2>1, EndStep DEF ListsInv, TypeOK
  <2> QED
    BY <2>1, <2>2 DEF Async!NoGetterLeftBehind
<1>6. ASSUME NEW w \in Waiter, Async!NotifySwitch(w) PROVE Goal
  <2>1. /\ cur = NoCo /\ frame = "notify" /\ Resume(w, "nil", {})
        /\ links' = links \ {w}
        /\ UNCHANGED <<callbacks, frame, phase, kills, flag>>
    BY <1>6, AsyncResumes DEF Async!NotifySwitch, Async!InNotify
  <2>2. ListsInv' /\ NotifyComing'
    BY <1>0, <2>1, SwitchStep DEF ListsInv, TypeOK
  <2> QED
    BY <2>2 DEF Async!NoGetterLeftBehind, Async!NotifyComing, NotifyComing
<1>7. ASSUME NEW c \in Co, Async!GetInterrupted(c) PROVE Goal
  <2>1. WaitInterrupted(c)
    BY <1>0, <1>7, AsyncInterrupts
       DEF Async!GetInterrupted, WaitInterrupted, Async!ParkedOn, ParkedOn
  <2> QED
    BY <2>1, InterruptStep
<1>8. CASE Async!TasksHubStep /\ UNCHANGED Async!resultVars
  <2>1. Keeps(Notify, {}) /\ KeepsOps /\ UNCHANGED frame
    BY <1>8, AsyncHub, OtherHubStep DEF ListsInv, TypeOK, Notify
  <2> QED
    BY <1>0, <1>8, <2>1, OtherStep DEF Async!resultVars, eventVars
<1>9. CASE Async!Exited
  <2>1. UNCHANGED vars
    BY <1>0, <1>9 DEF Async!Exited, Async!vars, Async!taskVars, Async!hubVars,
       Async!resultVars, vars, taskVars, hubVars, eventVars
  <2> QED
    BY <2>1, StutterStep
<1>10. Async!Waiter = Waiter
  BY DEF Async!Waiter, Waiter
<1> QED
  BY <1>1, <1>2, <1>3, <1>4, <1>5, <1>6, <1>7, <1>8, <1>9, <1>10
     DEF Async!Next, Async!TaskStep, Async!HubStep

-----------------------------------------------------------------------------
(* The first state: nobody waits, nothing is set.                          *)
LEMMA AsyncBegin == Async!TasksInit(<<>>) => TasksInit(<<>>)
<1>1. Async!Cardinality(Co) = Cardinality(Co)
  BY DEF Async!Cardinality, Cardinality
<1>2. Async!SetToSeq(Co) = SetToSeq(Co)
  BY <1>1 DEF Async!SetToSeq, SetToSeq, Async!IsInjective, IsInjective
<1>3. Async!Waiter = Waiter
  BY DEF Async!Waiter, Waiter
<1> QED
  BY <1>1, <1>2, <1>3 DEF Async!TasksInit, TasksInit, Async!HubInit, HubInit,
                          Async!Callback, Callback

LEMMA LocksBegin ==
  ASSUME LocksInit
  PROVE  LocksInv
<1>1. /\ TasksInit(<<>>) /\ links = {} /\ todo = {} /\ flag = FALSE
      /\ notifier = FALSE /\ sets = 0 /\ kind \in {"Event", "AsyncResult"}
  BY AsyncBegin DEF LocksInit, Init, Async!Init
<1>2. TasksInv /\ callbacks \in Seq(TaskCallbacks(Notify))
  <2>1. \A c \in Co : Callback("resume", c) \in TaskCallbacks(Notify)
    BY DEF Callback, TaskCallbacks
  <2>2. /\ <<>> \in Seq(TaskCallbacks(Notify))
        /\ \A i \in 1..Len(<<>>) : <<>>[i].op # "resume"
    OBVIOUS
  <2> QED
    BY <1>1, <2>1, <2>2, InitTasks
<1>3. frame = "none" /\ active = {} /\ pending = {} /\ kills = 0
  BY <1>1 DEF TasksInit, HubInit
<1>4. TypeOK
  <2>1. kills \in 0..MaxKills /\ sets \in 0..MaxSets
    BY <1>1, <1>3, EventAssumption, TasksAssumption
  <2>2. active \cup pending \subseteq TaskTimers /\ links \in SUBSET Waiter /\ todo \in SUBSET Waiter
    BY <1>1, <1>3
  <2>3. TasksTypeOK(Notify)
    BY <1>2, <2>1, <2>2 DEF TasksTypeOK, TasksInv
  <2> QED
    BY <1>1, <1>3, <2>1, <2>2, <2>3 DEF TypeOK, Notify
<1>5. LinksListed /\ EventInv /\ AsyncLeavesNobody
  BY <1>1 DEF LinksListed, EventInv, SetCoversWaiters, TodoWaits, AsyncLeavesNobody,
              Async!NoGetterLeftBehind
<1> QED
  BY <1>1, <1>2, <1>4, <1>5 DEF LocksInv, ListsInv

(* The invariant of a program that shares an Event or an AsyncResult.      *)
THEOREM LocksInvariant == LocksSpec => []LocksInv
<1>1. LocksInit => LocksInv
  BY LocksBegin
<1>2. LocksInv /\ [LocksNext]_locksVars => LocksInv'
  <2> SUFFICES ASSUME LocksInv, [LocksNext]_locksVars PROVE LocksInv'
    OBVIOUS
  <2>1. CASE kind = "Event" /\ Next /\ UNCHANGED kind
    BY <2>1, EventStep DEF LocksInv, AsyncLeavesNobody
  <2>2. CASE kind = "AsyncResult" /\ Async!Next /\ UNCHANGED EventOnly /\ UNCHANGED kind
    BY <2>2, AsyncStep DEF LocksInv, AsyncLeavesNobody
  <2>3. CASE UNCHANGED locksVars
    <3>1. UNCHANGED vars /\ UNCHANGED kind
      BY <2>3 DEF locksVars
    <3> QED
      BY <3>1, StutterStep DEF LocksInv, AsyncLeavesNobody
  <2> QED
    BY <2>1, <2>2, <2>3 DEF LocksNext
<1> QED
  BY <1>1, <1>2, PTL DEF LocksSpec

(* lock.lua keeps in links exactly Waiters that are parked and have no     *)
(* result, so waiter:switch in _notify finds them so.                      *)
THEOREM LinksAreParkedHolds == LocksSpec => []LinksAreParked
<1>1. LocksInv => LinksAreParked
  BY DEF LocksInv, ListsInv, LinksListed, Listed, LinksAreParked
<1> QED
  BY <1>1, LocksInvariant, PTL

(* Event:set passes over nobody that waits.                                *)
THEOREM EventCoversWaitersHolds == LocksSpec => []EventCoversWaiters
<1>1. LocksInv => EventCoversWaiters
  BY DEF LocksInv, EventInv, EventCoversWaiters
<1> QED
  BY <1>1, LocksInvariant, PTL

(* Nobody stays parked in AsyncResult:get behind its one _notify.          *)
THEOREM AsyncLeavesNobodyHolds == LocksSpec => []AsyncLeavesNobody
<1>1. LocksInv => AsyncLeavesNobody
  BY DEF LocksInv
<1> QED
  BY <1>1, LocksInvariant, PTL
=============================================================================
