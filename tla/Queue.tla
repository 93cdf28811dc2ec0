------------------------------- MODULE Queue -------------------------------
(***************************************************************************)
(* levent/queue.lua: a first-in first-out queue of bounded size.  put      *)
(* parks the caller while the queue is full, get while it is empty, join   *)
(* until the queue's Event (cond) is set.  _put and _get queue _get_unlock *)
(* and _put_unlock when somebody is parked on the other side.              *)
(*                                                                         *)
(* Queue.length and #Queue.items are one number here: they differ only     *)
(* when nil is put, which Lua's tables cannot hold.                        *)
(***************************************************************************)
EXTENDS Tasks

CONSTANTS Item,      \* what is put
          MaxSize    \* Queue.maxsize, 0 for nil

ASSUME QueueAssumption == MaxSize \in Nat

VARIABLES
    items,             \* Queue.items
    getters,           \* Queue.getters: Waiters of the calls of get in progress
    putters,           \* Queue.putters: Waiters of the calls of put in progress
    item,              \* the argument of the put a coroutine is parked in
    is_in_put_unlock,  \* _put_unlock is queued or running
    is_in_get_unlock,  \* _get_unlock is queued or running
    cond_links, cond_todo, cond_flag, cond_notifier  \* the fields of Queue.cond

condVars == <<cond_links, cond_todo, cond_flag, cond_notifier>>
sideVars == <<getters, putters, item, is_in_put_unlock, is_in_get_unlock>>
queueVars == <<items, sideVars, condVars>>
vars == <<taskVars, queueVars>>

(* The queue's Event.  Its set is only called by the queue.                *)
cond == INSTANCE Event WITH links <- cond_links, todo <- cond_todo,
                            flag <- cond_flag, notifier <- cond_notifier,
                            sets <- 0, MaxSets <- 0

TypeOK ==
    /\ TasksTypeOK({"notify", "put_unlock", "get_unlock"})
    /\ frame \in {"none", "notify", "put_unlock", "get_unlock"}
    /\ items \in Seq(Item)
    /\ getters \in SUBSET Waiter
    /\ putters \in SUBSET Waiter
    /\ item \in [Co -> Item]
    /\ is_in_put_unlock \in BOOLEAN
    /\ is_in_get_unlock \in BOOLEAN
    /\ cond_links \in SUBSET Waiter
    /\ cond_todo \in SUBSET Waiter
    /\ cond_flag \in BOOLEAN
    /\ cond_notifier \in BOOLEAN

(* Queue:_init, before the tasks are spawned: cond:set() queues _notify.   *)
Init ==
    /\ TasksInit(<<Callback("notify", NoCo)>>)
    /\ items = <<>>
    /\ getters = {}
    /\ putters = {}
    /\ item \in [Co -> Item]
    /\ is_in_put_unlock = FALSE
    /\ is_in_get_unlock = FALSE
    /\ cond_links = {}
    /\ cond_todo = {}
    /\ cond_flag = TRUE
    /\ cond_notifier = TRUE

is_full == MaxSize # 0 /\ Len(items) = MaxSize

-----------------------------------------------------------------------------
(* Queue:_put, called by put directly or once it is resumed.               *)
_put(i) ==
    /\ items' = Append(items, i)
    /\ cond_flag' = FALSE
    /\ IF ~is_in_get_unlock /\ getters # {}
       THEN is_in_get_unlock' = TRUE /\ run_callback(Callback("get_unlock", NoCo))
       ELSE UNCHANGED <<is_in_get_unlock, callbacks>>

(* Queue:_get, called by get directly or once it is resumed.               *)
_get_noUnlock ==
    /\ items # <<>>
    /\ items' = Tail(items)
    /\ UNCHANGED <<is_in_put_unlock, callbacks>>
_get ==
    /\ items # <<>>
    /\ items' = Tail(items)
    /\ IF ~is_in_put_unlock /\ putters # {}
       THEN is_in_put_unlock' = TRUE /\ run_callback(Callback("put_unlock", NoCo))
       ELSE UNCHANGED <<is_in_put_unlock, callbacks>>

(* Queue:put that need not wait, and up to the yield of one that must.     *)
put(c, i) ==
    /\ cur = c
    /\ MaxSize = 0 \/ Len(items) < MaxSize
    /\ _put(i)
    /\ UNCHANGED <<cur, waiters, created, exception, frame, loopState, kills,
                   getters, putters, item, is_in_put_unlock,
                   cond_links, cond_todo, cond_notifier>>

putBlocks(c, i) ==
    /\ cur = c
    /\ MaxSize # 0 /\ Len(items) >= MaxSize
    /\ putters' = putters \cup {waiter(c)}
    /\ item' = [item EXCEPT ![c] = i]
    /\ Block(c)
    /\ UNCHANGED <<callbacks, items, getters, is_in_put_unlock,
                   is_in_get_unlock, condVars>>

get(c) ==
    /\ cur = c
    /\ _get
    /\ UNCHANGED <<cur, waiters, created, exception, frame, loopState, kills,
                   getters, putters, item, is_in_get_unlock, condVars>>

getBlocks(c) ==
    /\ cur = c
    /\ items = <<>>
    /\ getters' = getters \cup {waiter(c)}
    /\ Block(c)
    /\ UNCHANGED <<callbacks, items, putters, item, is_in_put_unlock,
                   is_in_get_unlock, condVars>>

(* Queue:join.                                                             *)
join(c) == cond!wait(c) /\ UNCHANGED <<items, sideVars>>

-----------------------------------------------------------------------------
(* Queue:_put_unlock and Queue:_get_unlock, one step per turn of a loop.   *)
UnlockBegin(op) ==
    /\ CallbackIs(op)
    /\ DropCallback
    /\ frame' = op
    /\ UNCHANGED <<cur, waiters, created, exception, loopState, kills, queueVars>>

In(op) == frame = op /\ cur = NoCo

(* The loop of _put_unlock goes on while there is room.                    *)
Room_unchecked == TRUE
Room == ~is_full

PutUnlockSwitch(w) ==
    /\ In("put_unlock")
    /\ Room /\ w \in putters
    /\ Resume(w, "nil", {})
    /\ putters' = putters \ {w}
    /\ _put(item[w[1]])
    /\ UNCHANGED <<frame, phase, kills, getters, item, is_in_put_unlock,
                   cond_links, cond_todo, cond_notifier>>

PutUnlockEnd ==
    /\ In("put_unlock")
    /\ is_full \/ putters = {}
    /\ is_in_put_unlock' = FALSE
    /\ frame' = "none"
    /\ UNCHANGED <<cur, waiters, created, exception, callbacks, loopState, kills,
                   items, getters, putters, item, is_in_get_unlock, condVars>>

GetUnlockSwitch(w) ==
    /\ In("get_unlock")
    /\ w \in getters
    /\ _get
    /\ Resume(w, "nil", {})
    /\ getters' = getters \ {w}
    /\ UNCHANGED <<frame, phase, kills, putters, item, is_in_get_unlock, condVars>>

(* The loop of _get_unlock ends with cond:set() if it finds no item.       *)
FoundEmpty_always == TRUE
FoundEmpty == items = <<>>

GetUnlockEnd ==
    /\ In("get_unlock")
    /\ items = <<>> \/ getters = {}
    /\ IF FoundEmpty THEN cond!set
       ELSE UNCHANGED <<callbacks, cond_todo, cond_flag, cond_notifier>>
    /\ is_in_get_unlock' = FALSE
    /\ frame' = "none"
    /\ UNCHANGED <<cur, waiters, created, exception, loopState, kills,
                   items, getters, putters, item, is_in_put_unlock, cond_links>>

(* An exception ends the put, get, join or sleep c is parked in; put and   *)
(* get raise it again.                                                     *)
CallInterrupted_keepsLink(c) ==
    /\ Interrupted(c)
    /\ cond_links' = cond_links \ {ParkedOn(c)}
    /\ UNCHANGED <<items, sideVars, cond_todo, cond_flag, cond_notifier>>
CallInterrupted(c) ==
    /\ Interrupted(c)
    /\ getters' = getters \ {ParkedOn(c)}
    /\ putters' = putters \ {ParkedOn(c)}
    /\ cond_links' = cond_links \ {ParkedOn(c)}
    /\ UNCHANGED <<items, item, is_in_put_unlock, is_in_get_unlock,
                   cond_todo, cond_flag, cond_notifier>>

-----------------------------------------------------------------------------
Yields(c) ==
    \/ \E i \in Item : putBlocks(c, i)
    \/ getBlocks(c) \/ join(c)
    \/ (sleep(c) \/ Finish(c)) /\ UNCHANGED queueVars

TaskStep(c) ==
    \/ \E i \in Item : put(c, i)
    \/ get(c)
    \/ kill(c) /\ UNCHANGED queueVars
    \/ Yields(c)

UnlockStep ==
    \/ UnlockBegin("put_unlock") \/ UnlockBegin("get_unlock")
    \/ PutUnlockEnd \/ GetUnlockEnd
    \/ \E w \in Waiter : PutUnlockSwitch(w) \/ GetUnlockSwitch(w)

HubStep ==
    \/ UnlockStep
    \/ cond!NotifyStep /\ UNCHANGED <<items, sideVars>>
    \/ \E c \in Co : CallInterrupted(c)
    \/ TasksHubStep /\ UNCHANGED queueVars

Exited == phase = "exit" /\ UNCHANGED vars

Next == (\E c \in Co : TaskStep(c)) \/ HubStep \/ Exited

(* The hub takes its next step, and a running task gives control back.     *)
Fairness == WF_vars(HubStep) /\ \A c \in Co : WF_vars(Yields(c))

Spec == Init /\ [][Next]_vars /\ Fairness

-----------------------------------------------------------------------------
Queued(op) == {i \in 1..Len(callbacks) : callbacks[i].op = op}
Coming(op) == frame = op \/ Queued(op) # {}

(* Nobody sleeps through an item or through room for one: while a getter   *)
(* is parked and the queue holds an item, or a putter is parked and there  *)
(* is room, the unlock callback that resumes it is queued or running.  It  *)
(* is neither queued twice nor skipped because the flag says it is coming  *)
(* when it is not.                                                         *)
NoLostWakeup ==
    /\ items # <<>> /\ getters # {} => Coming("get_unlock")
    /\ ~is_full /\ putters # {} => Coming("put_unlock")
    /\ is_in_get_unlock <=> Coming("get_unlock")
    /\ is_in_put_unlock <=> Coming("put_unlock")

(* The queue never holds more than maxsize items, although a resumed put   *)
(* stores its item without looking again.                                  *)
WithinCapacity == MaxSize # 0 => Len(items) <= MaxSize

(* The Waiters the unlock loops may switch to are parked and unresolved,   *)
(* and no Waiter is on two lists: a call that was killed or timed out has  *)
(* left its list before its coroutine runs on.                             *)
ListsAreParked ==
    /\ \A w \in getters \cup putters \cup cond_links :
          waiters[w[1]] = w[2] /\ Unresolved(w)
    /\ getters \cap putters = {}
    /\ (getters \cup putters) \cap cond_links = {}

(* join may return without waiting only while the queue is empty.          *)
FlagMeansEmpty == cond_flag => items = <<>>

(* A parked getter is resumed or the items are gone again; a parked putter *)
(* is resumed or the queue is full again.                                  *)
BlockedAreServed ==
    \A w \in Waiter :
       /\ (w \in getters /\ items # <<>>) ~> (w \notin getters \/ items = <<>>)
       /\ (w \in putters /\ ~is_full) ~> (w \notin putters \/ is_full)
=============================================================================
