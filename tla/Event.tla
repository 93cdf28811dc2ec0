------------------------------- MODULE Event -------------------------------
(***************************************************************************)
(* The Event of levent/lock.lua: wait parks the caller until set, which    *)
(* queues _notify for everyone that waits at that moment.                  *)
(***************************************************************************)
EXTENDS Tasks

CONSTANT MaxSets     \* bound: how often set is called

ASSUME EventAssumption == MaxSets \in Nat

VARIABLES
    links,     \* Event.links: Waiters of the calls of wait in progress
    todo,      \* Event.todo: Waiters the next _notify switches to
    flag,      \* Event.flag
    notifier,  \* Event.notifier: _notify is queued or running
    sets       \* number of calls of set so far

eventVars == <<links, todo, flag, notifier, sets>>
vars == <<taskVars, eventVars>>

TypeOK ==
    /\ TasksTypeOK({"notify"})
    /\ frame \in {"none", "notify"}
    /\ links \in SUBSET Waiter
    /\ todo \in SUBSET Waiter
    /\ flag \in BOOLEAN
    /\ notifier \in BOOLEAN
    /\ sets \in 0..MaxSets

(* Event:_init.                                                            *)
Init ==
    /\ TasksInit(<<>>)
    /\ links = {}
    /\ todo = {}
    /\ flag = FALSE
    /\ notifier = FALSE
    /\ sets = 0

-----------------------------------------------------------------------------
(* Event:set queues _notify unless it is queued or running already.        *)
set_forgetsTodo ==
    /\ flag' = TRUE
    /\ todo' = IF notifier THEN todo ELSE todo \cup links
    /\ notifier' = TRUE
    /\ IF notifier THEN UNCHANGED callbacks ELSE run_callback(Callback("notify", NoCo))
set ==
    /\ flag' = TRUE
    /\ todo' = todo \cup links
    /\ notifier' = TRUE
    /\ IF notifier THEN UNCHANGED callbacks ELSE run_callback(Callback("notify", NoCo))

Set(c) ==
    /\ cur = c
    /\ sets < MaxSets
    /\ sets' = sets + 1
    /\ set
    /\ UNCHANGED <<cur, waiters, created, exception, frame, loopState, kills, links>>

clear(c) ==
    /\ cur = c
    /\ flag' = FALSE
    /\ UNCHANGED <<taskVars, links, todo, notifier, sets>>

(* Event:wait up to the yield; it returns at once if the flag is set.      *)
wait(c) ==
    /\ cur = c
    /\ ~flag
    /\ links' = links \cup {waiter(c)}
    /\ Block(c)
    /\ UNCHANGED <<callbacks, todo, flag, notifier, sets>>

-----------------------------------------------------------------------------
(* Event:_notify, one step per turn of its loop.                           *)
NotifyBegin ==
    /\ CallbackIs("notify")
    /\ DropCallback
    /\ frame' = "notify"
    /\ UNCHANGED <<cur, waiters, created, exception, loopState, kills, eventVars>>

InNotify == frame = "notify" /\ cur = NoCo

(* waiter:switch(true): the coroutine runs on in wait, which forgets the   *)
(* Waiter and cancels the timeout.                                         *)
NotifySwitch(w) ==
    /\ InNotify
    /\ w \in todo
    /\ todo' = todo \ {w}
    /\ Resume(w, "nil", {})
    /\ links' = links \ {w}
    /\ UNCHANGED <<callbacks, frame, phase, kills, flag, notifier, sets>>

(* waiter:switch(true) on a Waiter that already has a result: the          *)
(* assertion of Waiter:_switch ends _notify, notifier stays set.           *)
NotifyFails(w) ==
    /\ InNotify
    /\ w \in todo
    /\ ~Unresolved(w)
    /\ todo' = todo \ {w}
    /\ frame' = "none"
    /\ UNCHANGED <<cur, waiters, created, exception, callbacks, loopState,
                   kills, links, flag, notifier, sets>>

NotifyEnd_keepsNotifier ==
    /\ InNotify
    /\ todo = {}
    /\ frame' = "none"
    /\ UNCHANGED <<cur, waiters, created, exception, callbacks, loopState,
                   kills, eventVars>>
NotifyEnd ==
    /\ InNotify
    /\ todo = {}
    /\ notifier' = FALSE
    /\ frame' = "none"
    /\ UNCHANGED <<cur, waiters, created, exception, callbacks, loopState,
                   kills, links, todo, flag, sets>>

(* An exception ends wait(c), or a sleep of c.  wait catches it and        *)
(* returns false: the task runs on.                                        *)
WaitInterrupted_keepsLink(c) == Interrupted(c) /\ UNCHANGED eventVars
WaitInterrupted(c) ==
    /\ Interrupted(c)
    /\ links' = links \ {ParkedOn(c)}
    /\ UNCHANGED <<todo, flag, notifier, sets>>

-----------------------------------------------------------------------------
TaskStep(c) ==
    \/ Set(c) \/ clear(c) \/ wait(c)
    \/ (sleep(c) \/ kill(c) \/ Finish(c)) /\ UNCHANGED eventVars

NotifyStep ==
    \/ NotifyBegin \/ NotifyEnd
    \/ \E w \in Waiter : NotifySwitch(w) \/ NotifyFails(w)

HubStep ==
    \/ NotifyStep
    \/ \E c \in Co : WaitInterrupted(c)
    \/ TasksHubStep /\ UNCHANGED eventVars

Exited == phase = "exit" /\ UNCHANGED vars

Next == (\E c \in Co : TaskStep(c)) \/ HubStep \/ Exited

(* The hub takes its next step, and a running task gives control back.     *)
Yields(c) ==
    \/ wait(c)
    \/ (sleep(c) \/ Finish(c)) /\ UNCHANGED eventVars

Fairness == WF_vars(HubStep) /\ \A c \in Co : WF_vars(Yields(c))

Spec == Init /\ [][Next]_vars /\ Fairness

-----------------------------------------------------------------------------
(* A Waiter is in links exactly while its coroutine is parked in wait: the *)
(* ones in links are parked and have no result yet, also when the wait     *)
(* ends with a kill or a timeout.                                          *)
LinksAreParked ==
    \A w \in links : waiters[w[1]] = w[2] /\ Unresolved(w)

(* While the flag is set, everyone that waits is on the list of the next   *)
(* _notify: no waiter is passed over, not even one that began to wait      *)
(* after an earlier set was notified.  As long as no wait was interrupted, *)
(* a list that is not empty has a _notify that is queued or running.       *)
NotifyComing ==
    frame = "notify" \/ \E i \in 1..Len(callbacks) : callbacks[i].op = "notify"
Uninterrupted == \A w \in Waiter : exception[w] # "error"
SetCoversWaiters ==
    /\ flag => links \subseteq todo
    /\ todo # {} => notifier
    /\ Uninterrupted /\ notifier => NotifyComing

(* set wakes up everyone that waits: a coroutine that is parked in wait    *)
(* when set is called returns from wait.                                   *)
SetWakesWaiters == \A w \in Waiter : (w \in links /\ flag) ~> w \notin links
=============================================================================
