---------------------------- MODULE AsyncResult ----------------------------
(***************************************************************************)
(* The AsyncResult of levent/lock.lua: get parks the caller until set or   *)
(* set_exception stores a result, once, and queues _notify.                *)
(***************************************************************************)
EXTENDS Tasks

VARIABLES
    links,     \* AsyncResult.links: Waiters of the calls of get in progress
    result     \* AsyncResult.exception is not false: a value or exception is set

resultVars == <<links, result>>
vars == <<taskVars, resultVars>>

TypeOK ==
    /\ TasksTypeOK({"notify"})
    /\ frame \in {"none", "notify"}
    /\ links \in SUBSET Waiter
    /\ result \in BOOLEAN

(* AsyncResult:_init.                                                      *)
Init ==
    /\ TasksInit(<<>>)
    /\ links = {}
    /\ result = FALSE

-----------------------------------------------------------------------------
(* AsyncResult:_set, called by set and set_exception: its assertion        *)
(* refuses a second result.                                                *)
_set(c) ==
    /\ cur = c
    /\ ~result
    /\ result' = TRUE
    /\ run_callback(Callback("notify", NoCo))
    /\ UNCHANGED <<cur, waiters, created, exception, frame, loopState, kills, links>>

(* AsyncResult:get up to the yield; with a result it returns at once.      *)
get(c) ==
    /\ cur = c
    /\ ~result
    /\ links' = links \cup {waiter(c)}
    /\ Block(c)
    /\ UNCHANGED <<callbacks, result>>

-----------------------------------------------------------------------------
(* AsyncResult:_notify, one step per turn of its loop.  The Waiter stays   *)
(* in links until the get that put it there has been resumed.              *)
NotifyBegin ==
    /\ CallbackIs("notify")
    /\ DropCallback
    /\ frame' = "notify"
    /\ UNCHANGED <<cur, waiters, created, exception, loopState, kills, resultVars>>

InNotify == frame = "notify" /\ cur = NoCo

NotifySwitch(w) ==
    /\ InNotify
    /\ w \in links
    /\ Resume(w, "nil", {})
    /\ links' = links \ {w}
    /\ UNCHANGED <<callbacks, frame, phase, kills, result>>

LoopDone_afterOne == TRUE
LoopDone == links = {}

NotifyEnd ==
    /\ InNotify
    /\ LoopDone
    /\ frame' = "none"
    /\ UNCHANGED <<cur, waiters, created, exception, callbacks, loopState,
                   kills, resultVars>>

(* An exception ends get(c), which raises it again, or a sleep of c.       *)
GetInterrupted(c) ==
    /\ Interrupted(c)
    /\ links' = links \ {ParkedOn(c)}
    /\ UNCHANGED result

-----------------------------------------------------------------------------
TaskStep(c) ==
    \/ _set(c) \/ get(c)
    \/ (sleep(c) \/ kill(c) \/ Finish(c)) /\ UNCHANGED resultVars

HubStep ==
    \/ NotifyBegin \/ NotifyEnd
    \/ \E w \in Waiter : NotifySwitch(w)
    \/ \E c \in Co : GetInterrupted(c)
    \/ TasksHubStep /\ UNCHANGED resultVars

Exited == phase = "exit" /\ UNCHANGED vars

Next == (\E c \in Co : TaskStep(c)) \/ HubStep \/ Exited

(* The hub takes its next step, and a running task gives control back.     *)
Yields(c) ==
    \/ get(c)
    \/ (sleep(c) \/ Finish(c)) /\ UNCHANGED resultVars

Fairness == WF_vars(HubStep) /\ \A c \in Co : WF_vars(Yields(c))

Spec == Init /\ [][Next]_vars /\ Fairness

-----------------------------------------------------------------------------
(* Every Waiter _notify may switch to is parked and has no result, so the  *)
(* assertions of Waiter:_switch hold in its loop, and the loop ends: also  *)
(* when getters are killed or time out before or while it runs, and when   *)
(* the coroutines it resumes run on into other calls.                      *)
LinksAreParked ==
    \A w \in links : waiters[w[1]] = w[2] /\ Unresolved(w)

(* Once there is a result, whoever is still parked in get will be          *)
(* notified: _notify is queued or running.  It is queued only once, so     *)
(* nobody may be parked after it has ended.                                *)
NotifyComing ==
    frame = "notify" \/ \E i \in 1..Len(callbacks) : callbacks[i].op = "notify"
NoGetterLeftBehind == result /\ links # {} => NotifyComing

(* A getter returns once there is a result.                                *)
ResultReachesGetters ==
    \A w \in Waiter : (w \in links /\ result) ~> w \notin links
=============================================================================
