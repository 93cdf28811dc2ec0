----------------------------- MODULE Semaphore -----------------------------
(***************************************************************************)
(* The Semaphore of levent/lock.lua, as Lua 5.3 and later run it.  The     *)
(* call xpcall(waiter.get, waiter) in Semaphore:wait passes the Waiter as  *)
(* the message handler, which these versions refuse with an error before   *)
(* they call anything: an acquire that finds the semaphore locked never    *)
(* parks, it raises the error and leaves its Waiter in links and its       *)
(* Timeout running.                                                        *)
(***************************************************************************)
EXTENDS Tasks

CONSTANTS Value,        \* the semaphore's first value
          MaxReleases   \* bound: how often release is called

VARIABLES
    counter,   \* Semaphore.counter
    notifier,  \* Semaphore.notifier
    links,     \* Semaphore.links
    released   \* number of calls of release so far

semVars == <<counter, notifier, links, released>>
vars == <<taskVars, semVars>>

(* Semaphore:_init.                                                        *)
Init ==
    /\ TasksInit(<<>>)
    /\ counter = Value
    /\ notifier = FALSE
    /\ links = {}
    /\ released = 0

TypeOK ==
    /\ TasksTypeOK({"notify"})
    /\ frame \in {"none", "notify"}
    /\ counter \in Nat
    /\ notifier \in BOOLEAN
    /\ links \in SUBSET Waiter
    /\ released \in 0..MaxReleases

-----------------------------------------------------------------------------
(* Semaphore:acquire with wait returning true at once.                     *)
acquire(c) ==
    /\ cur = c
    /\ counter > 0
    /\ counter' = counter - 1
    /\ UNCHANGED <<taskVars, notifier, links, released>>

(* Semaphore:acquire of a locked semaphore: xpcall raises in wait after    *)
(* the Waiter was linked and the Timeout started; the task runs on.        *)
acquireRaises(c) ==
    /\ cur = c
    /\ counter <= 0
    /\ created[c] < MaxWaits
    /\ created' = [created EXCEPT ![c] = @ + 1]
    /\ links' = links \cup {waiter(c)}
    /\ active' \in {active} \cup (IF Timed THEN {active \cup {CallTimer(waiter(c))}} ELSE {})
    /\ UNCHANGED <<cur, waiters, exception, callbacks, frame, pending, phase,
                   kills, counter, notifier, released>>

release(c) ==
    /\ cur = c
    /\ released < MaxReleases
    /\ released' = released + 1
    /\ counter' = counter + 1
    /\ IF ~notifier /\ links # {}
       THEN notifier' = TRUE /\ run_callback(Callback("notify", NoCo))
       ELSE UNCHANGED <<notifier, callbacks>>
    /\ UNCHANGED <<cur, waiters, created, exception, frame, loopState, kills,
                   links>>

-----------------------------------------------------------------------------
(* Semaphore:_notify, one step per turn of its loop.                       *)
NotifyBegin ==
    /\ CallbackIs("notify")
    /\ DropCallback
    /\ frame' = "notify"
    /\ UNCHANGED <<cur, waiters, created, exception, loopState, kills, semVars>>

InNotify == frame = "notify" /\ cur = NoCo

(* The Waiter the loop takes from links.  Nobody is parked on it (its co   *)
(* is nil), so switch only records the value and the Waiter stays linked.  *)
NotifySwitch(w) ==
    /\ InNotify
    /\ counter > 0 /\ w \in links
    /\ Unresolved(w)
    /\ exception' = [exception EXCEPT ![w] = "nil"]
    /\ UNCHANGED <<cur, waiters, created, callbacks, frame, loopState, kills, semVars>>

(* The assertion of Waiter:_switch fails and ends _notify.                 *)
NotifyFails(w) ==
    /\ InNotify
    /\ counter > 0 /\ w \in links
    /\ ~Unresolved(w)
    /\ frame' = "none"
    /\ UNCHANGED <<cur, waiters, created, exception, callbacks, loopState,
                   kills, semVars>>

(* The loop ends; notifier is not reset.                                   *)
NotifyEnd ==
    /\ InNotify
    /\ counter <= 0 \/ links = {}
    /\ frame' = "none"
    /\ UNCHANGED <<cur, waiters, created, exception, callbacks, loopState,
                   kills, semVars>>

(* The Timeout that was left running throws into whatever the task is      *)
(* parked in (Interrupted), or fails the assertion of Hub:throw.           *)
StrayTimeout(w) ==
    /\ InvokedIs(CallTimer(w))
    /\ ~CanThrow(w[1])
    /\ pending' = pending \ {CallTimer(w)}
    /\ UNCHANGED <<cur, waiters, created, exception, callbacks, frame, active,
                   phase, kills, semVars>>

-----------------------------------------------------------------------------
TaskStep(c) ==
    \/ acquire(c) \/ acquireRaises(c) \/ release(c)
    \/ (sleep(c) \/ kill(c) \/ Finish(c)) /\ UNCHANGED semVars

HubStep ==
    \/ NotifyBegin \/ NotifyEnd
    \/ \E w \in Waiter : NotifySwitch(w) \/ NotifyFails(w)
    \/ \E c \in Co : Interrupted(c) /\ UNCHANGED semVars
    \/ \E w \in Waiter : StrayTimeout(w)
    \/ TasksHubStep /\ UNCHANGED semVars

Exited == phase = "exit" /\ UNCHANGED vars

Next == (\E c \in Co : TaskStep(c)) \/ HubStep \/ Exited

Spec == Init /\ [][Next]_vars

-----------------------------------------------------------------------------
(* hub.lua:94, assert(self.exception == false): _notify switches only to   *)
(* Waiters that have no result yet.                                        *)
NotifySwitchesUnresolved ==
    InNotify /\ counter > 0 => \A w \in links : Unresolved(w)
=============================================================================
