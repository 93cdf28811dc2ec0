----------------------------- MODULE QueueProofs -----------------------------
(***************************************************************************)
(* The queue of levent/queue.lua loses no wakeup and keeps its bound, for  *)
(* every maxsize, every set of items and every number of tasks, Waiters    *)
(* and kills.                                                              *)
(***************************************************************************)
EXTENDS Queue, TasksProofs

Ops == {"notify", "put_unlock", "get_unlock"}

(* The Waiters of the queue's lists are parked in its calls; one on the    *)
(* list of the next _notify is still in join, or it has a result.          *)
ListsListed ==
    /\ \A w \in getters \cup putters \cup cond_links : Listed(w)
    /\ \A w \in cond_todo : w \in cond_links \/ exception[w] # "false"
ListsApart ==
    /\ getters \cap putters = {}
    /\ (getters \cup putters) \cap cond_links = {}

(* The flag of an unlock callback says whether it is queued or running; it *)
(* is never both, and never queued twice.                                  *)
Announced(op, is_in) ==
    /\ OpOnce(callbacks, op)
    /\ frame = op => ~HasOp(callbacks, op)
    /\ is_in <=> frame = op \/ HasOp(callbacks, op)
Unlocks ==
    /\ Announced("get_unlock", is_in_get_unlock)
    /\ Announced("put_unlock", is_in_put_unlock)

(* Who is parked although the queue could serve it is announced.           *)
Served ==
    /\ items # <<>> /\ getters # {} => is_in_get_unlock
    /\ ~is_full /\ putters # {} => is_in_put_unlock

(* The inductive invariant.                                                *)
QueueInv ==
    /\ TypeOK /\ TasksInv
    /\ ListsListed /\ ListsApart
    /\ Unlocks /\ Served
    /\ WithinCapacity /\ FlagMeansEmpty

-----------------------------------------------------------------------------
(* The flag is right about the queue: what NoLostWakeup says of it.        *)
LEMMA ComingMeans ==
  ASSUME NEW op
  PROVE  Coming(op) <=> frame = op \/ HasOp(callbacks, op)
  BY DEF Coming, Queued, HasOp

LEMMA UnlocksNext ==
  ASSUME OpOnce(callbacks', "get_unlock"), OpOnce(callbacks', "put_unlock"),
         frame' = "get_unlock" => ~HasOp(callbacks', "get_unlock"),
         frame' = "put_unlock" => ~HasOp(callbacks', "put_unlock"),
         is_in_get_unlock' <=> frame' = "get_unlock" \/ HasOp(callbacks', "get_unlock"),
         is_in_put_unlock' <=> frame' = "put_unlock" \/ HasOp(callbacks', "put_unlock")
  PROVE  Unlocks'
  BY DEF Unlocks, Announced, OpOnce, HasOp

(* A step that leaves the unlock callbacks where they are.                 *)
LEMMA UnlocksKept ==
  ASSUME Unlocks, KeepsOps, UNCHANGED <<frame, is_in_get_unlock, is_in_put_unlock>>
  PROVE  Unlocks'
<1>1. /\ HasOp(callbacks', "get_unlock") <=> HasOp(callbacks, "get_unlock")
      /\ HasOp(callbacks', "put_unlock") <=> HasOp(callbacks, "put_unlock")
      /\ OpOnce(callbacks, "get_unlock") => OpOnce(callbacks', "get_unlock")
      /\ OpOnce(callbacks, "put_unlock") => OpOnce(callbacks', "put_unlock")
  BY DEF KeepsOps
<1>2. /\ OpOnce(callbacks', "get_unlock") /\ OpOnce(callbacks', "put_unlock")
      /\ frame' = "get_unlock" => ~HasOp(callbacks', "get_unlock")
      /\ frame' = "put_unlock" => ~HasOp(callbacks', "put_unlock")
      /\ is_in_get_unlock' <=> frame' = "get_unlock" \/ HasOp(callbacks', "get_unlock")
      /\ is_in_put_unlock' <=> frame' = "put_unlock" \/ HasOp(callbacks', "put_unlock")
  BY <1>1 DEF Unlocks, Announced
<1> QED
  BY <1>2, UnlocksNext

LEMMA ListsKept ==
  ASSUME ListsListed, getters \cup putters \cup cond_links \subseteq Waiter,
         cond_todo \subseteq Waiter, NEW X, KeepsListed(X), KeepsResults,
         \A w \in getters' \cup putters' \cup cond_links' :
            (w \in getters \cup putters \cup cond_links /\ w \notin X) \/ NowListed(w),
         \A w \in cond_todo' :
            \/ w \in cond_links'
            \/ w \in cond_todo /\ (w \in cond_links => exception'[w] # "false")
  PROVE  ListsListed'
<1>1. ASSUME NEW w \in getters' \cup putters' \cup cond_links' PROVE NowListed(w)
  BY DEF ListsListed, KeepsListed
<1>2. ASSUME NEW w \in cond_todo' PROVE w \in cond_links' \/ exception'[w] # "false"
  BY DEF ListsListed, KeepsResults
<1> QED
  BY <1>1, <1>2 DEF ListsListed, Listed, NowListed, Unresolved

-----------------------------------------------------------------------------
(* _put and _get announce the callback that serves the other side.         *)
LEMMA PutLemma ==
  ASSUME TypeOK, TasksInv, Unlocks, NEW i \in Item, _put(i),
         UNCHANGED <<frame, is_in_put_unlock>>
  PROVE  /\ items' \in Seq(Item) /\ items' # <<>> /\ Len(items') = Len(items) + 1
         /\ cond_flag' = FALSE
         /\ is_in_get_unlock' \in BOOLEAN
         /\ getters # {} => is_in_get_unlock'
         /\ QueuesNoResume /\ callbacks' \in Seq(TaskCallbacks(Ops))
         /\ Unlocks'
<1>1. items' \in Seq(Item) /\ items' # <<>> /\ Len(items') = Len(items) + 1 /\ cond_flag' = FALSE
  BY AppendLaws DEF _put, TypeOK
<1>2. CASE ~is_in_get_unlock /\ getters # {}
  <2>1. is_in_get_unlock' = TRUE /\ run_callback(Callback("get_unlock", NoCo))
    BY <1>2 DEF _put
  <2>2. /\ QueuesNoResume /\ callbacks' \in Seq(TaskCallbacks(Ops))
        /\ HasOp(callbacks', "get_unlock")
        /\ ~HasOp(callbacks, "get_unlock") /\ OpOnce(callbacks, "get_unlock") => OpOnce(callbacks', "get_unlock")
        /\ HasOp(callbacks', "put_unlock") <=> HasOp(callbacks, "put_unlock")
        /\ OpOnce(callbacks, "put_unlock") => OpOnce(callbacks', "put_unlock")
    BY <2>1, QueueStep DEF TypeOK, Ops
  <2>3. ~HasOp(callbacks, "get_unlock") /\ frame # "get_unlock"
    BY <1>2 DEF Unlocks, Announced
  <2>4. Unlocks'
    BY <2>1, <2>2, <2>3, UnlocksNext DEF Unlocks, Announced
  <2> QED
    BY <1>1, <2>1, <2>2, <2>4
<1>3. CASE ~(~is_in_get_unlock /\ getters # {})
  <2>1. UNCHANGED <<is_in_get_unlock, callbacks>>
    BY <1>3 DEF _put
  <2>2. QueuesNoResume /\ KeepsOps /\ callbacks' \in Seq(TaskCallbacks(Ops))
    BY <2>1, KeepsQueue DEF TasksInv, TypeOK, TasksTypeOK, Ops
  <2>3. Unlocks'
    BY <2>1, <2>2, UnlocksKept
  <2> QED
    BY <1>1, <1>3, <2>1, <2>2, <2>3 DEF TypeOK
<1> QED
  BY <1>2, <1>3

LEMMA GetLemma ==
  ASSUME TypeOK, TasksInv, Unlocks, _get, UNCHANGED <<frame, is_in_get_unlock>>
  PROVE  /\ items # <<>> /\ items' \in Seq(Item) /\ Len(items') = Len(items) - 1
         /\ is_in_put_unlock' \in BOOLEAN
         /\ putters # {} => is_in_put_unlock'
         /\ QueuesNoResume /\ callbacks' \in Seq(TaskCallbacks(Ops))
         /\ Unlocks'
<1>1. items # <<>> /\ items' \in Seq(Item) /\ Len(items') = Len(items) - 1
  BY TailLaws DEF _get, TypeOK
<1>2. CASE ~is_in_put_unlock /\ putters # {}
  <2>1. is_in_put_unlock' = TRUE /\ run_callback(Callback("put_unlock", NoCo))
    BY <1>2 DEF _get
  <2>2. /\ QueuesNoResume /\ callbacks' \in Seq(TaskCallbacks(Ops))
        /\ HasOp(callbacks', "put_unlock")
        /\ ~HasOp(callbacks, "put_unlock") /\ OpOnce(callbacks, "put_unlock") => OpOnce(callbacks', "put_unlock")
        /\ HasOp(callbacks', "get_unlock") <=> HasOp(callbacks, "get_unlock")
        /\ OpOnce(callbacks, "get_unlock") => OpOnce(callbacks', "get_unlock")
    BY <2>1, QueueStep DEF TypeOK, Ops
  <2>3. ~HasOp(callbacks, "put_unlock") /\ frame # "put_unlock"
    BY <1>2 DEF Unlocks, Announced
  <2>4. Unlocks'
    BY <2>1, <2>2, <2>3, UnlocksNext DEF Unlocks, Announced
  <2> QED
    BY <1>1, <2>1, <2>2, <2>4
<1>3. CASE ~(~is_in_put_unlock /\ putters # {})
  <2>1. UNCHANGED <<is_in_put_unlock, callbacks>>
    BY <1>3 DEF _get
  <2>2. QueuesNoResume /\ KeepsOps /\ callbacks' \in Seq(TaskCallbacks(Ops))
    BY <2>1, KeepsQueue DEF TasksInv, TypeOK, TasksTypeOK, Ops
  <2>3. Unlocks'
    BY <2>1, <2>2, UnlocksKept
  <2> QED
    BY <1>1, <1>3, <2>1, <2>2, <2>3 DEF TypeOK
<1> QED
  BY <1>2, <1>3

-----------------------------------------------------------------------------
(* What a step must show for the invariant, given what it keeps.           *)
LEMMA InvNext ==
  ASSUME TasksTypeOK(Ops)', TasksInv', ListsListed', ListsApart', Unlocks',
         frame' \in {"none", "notify", "put_unlock", "get_unlock"},
         items' \in Seq(Item), item' \in [Co -> Item],
         getters' \subseteq Waiter, putters' \subseteq Waiter,
         cond_links' \subseteq Waiter, cond_todo' \subseteq Waiter,
         is_in_put_unlock' \in BOOLEAN, is_in_get_unlock' \in BOOLEAN,
         cond_flag' \in BOOLEAN, cond_notifier' \in BOOLEAN,
         items' # <<>> /\ getters' # {} => is_in_get_unlock',
         is_full' \/ putters' = {} \/ is_in_put_unlock',
         MaxSize = 0 \/ Len(items') <= MaxSize,
         cond_flag' => items' = <<>>
  PROVE  QueueInv'
<1>1. TypeOK'
  BY DEF TypeOK, Ops
<1>2. Served' /\ WithinCapacity' /\ FlagMeansEmpty'
  BY DEF Served, WithinCapacity, FlagMeansEmpty
<1> QED
  BY <1>1, <1>2 DEF QueueInv

(* A step that is none of the queue's.                                     *)
LEMMA OtherStep ==
  ASSUME QueueInv, UNCHANGED queueVars, Keeps(Ops, {}), KeepsOps, UNCHANGED frame
  PROVE  QueueInv'
<1>1. UNCHANGED <<items, getters, putters, item, is_in_put_unlock, is_in_get_unlock,
                  cond_links, cond_todo, cond_flag, cond_notifier>>
  BY DEF queueVars, sideVars, condVars
<1>2. TypeOK' /\ TasksInv'
  BY <1>1 DEF QueueInv, TypeOK, Keeps, Ops
<1>3. ListsListed'
  BY <1>1, ListsKept DEF QueueInv, Keeps, TypeOK
<1>4. Unlocks'
  BY <1>1, UnlocksKept DEF QueueInv
<1>5. ListsApart' /\ Served' /\ WithinCapacity' /\ FlagMeansEmpty'
  BY <1>1 DEF QueueInv, ListsApart, Served, WithinCapacity, FlagMeansEmpty, is_full
<1> QED
  BY <1>2, <1>3, <1>4, <1>5 DEF QueueInv

(* An exception ends a call, which leaves its list first.                  *)
LEMMA InterruptStep ==
  ASSUME QueueInv, NEW c \in Co, CallInterrupted(c)
  PROVE  QueueInv'
<1>1. /\ Interrupted(c)
      /\ getters' = getters \ {ParkedOn(c)} /\ putters' = putters \ {ParkedOn(c)}
      /\ cond_links' = cond_links \ {ParkedOn(c)}
      /\ UNCHANGED <<items, item, is_in_put_unlock, is_in_get_unlock,
                     cond_todo, cond_flag, cond_notifier>>
  BY DEF CallInterrupted
<1>2. /\ Keeps(Ops, {ParkedOn(c)}) /\ KeepsOps /\ UNCHANGED frame
      /\ exception'[ParkedOn(c)] = "error"
  BY <1>1, InterruptedStep DEF QueueInv, TypeOK, Ops
<1>3. TypeOK' /\ TasksInv'
  BY <1>1, <1>2 DEF QueueInv, TypeOK, Keeps, Ops
<1>4. ListsListed'
  <2>1. \A w \in getters' \cup putters' \cup cond_links' :
           (w \in getters \cup putters \cup cond_links /\ w \notin {ParkedOn(c)}) \/ NowListed(w)
    BY <1>1
  <2>2. \A w \in cond_todo' :
           \/ w \in cond_links'
           \/ w \in cond_todo /\ (w \in cond_links => exception'[w] # "false")
    BY <1>1, <1>2
  <2> QED
    BY <1>2, <2>1, <2>2, ListsKept DEF QueueInv, Keeps, TypeOK
<1>5. Unlocks'
  BY <1>1, <1>2, UnlocksKept DEF QueueInv
<1>6. ListsApart' /\ Served' /\ WithinCapacity' /\ FlagMeansEmpty'
  BY <1>1 DEF QueueInv, ListsApart, Served, WithinCapacity, FlagMeansEmpty, is_full
<1> QED
  BY <1>3, <1>4, <1>5, <1>6 DEF QueueInv

-----------------------------------------------------------------------------
(* put and get that need not wait.                                         *)
LEMMA PutStep ==
  ASSUME QueueInv, NEW c \in Co, NEW i \in Item, put(c, i)
  PROVE  QueueInv'
<1>1. /\ _put(i) /\ (MaxSize = 0 \/ Len(items) < MaxSize)
      /\ UNCHANGED <<cur, waiters, created, exception, frame, active, pending, phase, kills,
                     getters, putters, item, is_in_put_unlock,
                     cond_links, cond_todo, cond_notifier>>
  BY DEF put, loopState
<1>2. /\ items' \in Seq(Item) /\ items' # <<>> /\ Len(items') = Len(items) + 1
      /\ cond_flag' = FALSE /\ is_in_get_unlock' \in BOOLEAN
      /\ getters # {} => is_in_get_unlock'
      /\ QueuesNoResume /\ callbacks' \in Seq(TaskCallbacks(Ops)) /\ Unlocks'
  BY <1>1, PutLemma DEF QueueInv
<1>3. Keeps(Ops, {})
  BY <1>1, <1>2, QuietStep DEF QueueInv, TypeOK, Ops, TasksTypeOK, HubTypeOK
<1>4. ListsListed'
  BY <1>1, <1>3, ListsKept DEF QueueInv, Keeps, TypeOK
<1>5. ListsApart'
  BY <1>1 DEF QueueInv, ListsApart
<1>6. Len(items) \in Nat
  BY LenProperties DEF QueueInv, TypeOK
<1>7. putters' = {} \/ is_in_put_unlock'
  BY <1>1, <1>6, QueueAssumption DEF QueueInv, Served, is_full
<1>8. MaxSize = 0 \/ Len(items') <= MaxSize
  BY <1>1, <1>2, <1>6, QueueAssumption
<1> QED
  BY <1>1, <1>2, <1>3, <1>4, <1>5, <1>7, <1>8, InvNext DEF QueueInv, TypeOK, Keeps

LEMMA GetStep ==
  ASSUME QueueInv, NEW c \in Co, get(c)
  PROVE  QueueInv'
<1>1. /\ _get
      /\ UNCHANGED <<cur, waiters, created, exception, frame, active, pending, phase, kills,
                     getters, putters, item, is_in_get_unlock,
                     cond_links, cond_todo, cond_flag, cond_notifier>>
  BY DEF get, loopState, condVars
<1>2. /\ items # <<>> /\ items' \in Seq(Item) /\ Len(items') = Len(items) - 1
      /\ is_in_put_unlock' \in BOOLEAN
      /\ putters # {} => is_in_put_unlock'
      /\ QueuesNoResume /\ callbacks' \in Seq(TaskCallbacks(Ops)) /\ Unlocks'
  BY <1>1, GetLemma DEF QueueInv
<1>3. Keeps(Ops, {})
  BY <1>1, <1>2, QuietStep DEF QueueInv, TypeOK, Ops, TasksTypeOK, HubTypeOK
<1>4. ListsListed'
  BY <1>1, <1>3, ListsKept DEF QueueInv, Keeps, TypeOK
<1>5. ListsApart' /\ ~cond_flag'
  BY <1>1, <1>2 DEF QueueInv, ListsApart, FlagMeansEmpty
<1>6. Len(items) \in Nat
  BY LenProperties DEF QueueInv, TypeOK
<1>7. getters' # {} => is_in_get_unlock'
  BY <1>1, <1>2 DEF QueueInv, Served
<1>8. MaxSize = 0 \/ Len(items') <= MaxSize
  BY <1>2, <1>6, QueueAssumption DEF QueueInv, WithinCapacity
<1> QED
  BY <1>1, <1>2, <1>3, <1>4, <1>5, <1>7, <1>8, InvNext DEF QueueInv, TypeOK, Keeps

-----------------------------------------------------------------------------
(* A call of put, get or join parks: its Waiter joins one list.            *)
LEMMA ParkStep ==
  ASSUME QueueInv, NEW c \in Co, cur = c, Block(c), UNCHANGED callbacks,
         UNCHANGED <<items, is_in_put_unlock, is_in_get_unlock, cond_todo, cond_flag, cond_notifier>>,
         item' \in [Co -> Item],
         \/ /\ getters' = getters \cup {waiter(c)} /\ items = <<>>
            /\ UNCHANGED <<putters, cond_links>>
         \/ /\ putters' = putters \cup {waiter(c)} /\ MaxSize # 0 /\ Len(items) >= MaxSize
            /\ UNCHANGED <<getters, cond_links>>
         \/ /\ cond_links' = cond_links \cup {waiter(c)}
            /\ UNCHANGED <<getters, putters>>
  PROVE  QueueInv'
<1>1. /\ Keeps(Ops, {}) /\ KeepsOps /\ UNCHANGED frame
      /\ waiter(c) \in Waiter /\ ~Listed(waiter(c)) /\ NowListed(waiter(c))
  BY BlockStep DEF QueueInv, TypeOK, Ops, Block
<1>2. waiter(c) \notin getters \cup putters \cup cond_links
  BY <1>1 DEF QueueInv, ListsListed
<1>3. ListsListed'
  <2>1. \A w \in getters' \cup putters' \cup cond_links' :
           (w \in getters \cup putters \cup cond_links /\ w \notin {}) \/ NowListed(w)
    BY <1>1
  <2>2. cond_links \subseteq cond_links'
    OBVIOUS
  <2> QED
    BY <1>1, <2>1, <2>2, ListsKept DEF QueueInv, Keeps, TypeOK
<1>4. ListsApart'
  BY <1>2 DEF QueueInv, ListsApart
<1>5. Unlocks'
  BY <1>1, UnlocksKept DEF QueueInv
<1>6. Len(items) \in Nat
  BY LenProperties DEF QueueInv, TypeOK
<1>7. is_full' \/ putters' = {} \/ is_in_put_unlock'
  BY <1>6, QueueAssumption DEF QueueInv, Served, WithinCapacity, is_full
<1>8. items' # <<>> /\ getters' # {} => is_in_get_unlock'
  BY DEF QueueInv, Served
<1>9. /\ getters' \subseteq Waiter /\ putters' \subseteq Waiter /\ cond_links' \subseteq Waiter
  BY <1>1 DEF QueueInv, TypeOK
<1>10. (MaxSize = 0 \/ Len(items') <= MaxSize) /\ (cond_flag' => items' = <<>>)
  BY DEF QueueInv, WithinCapacity, FlagMeansEmpty
<1> QED
  BY <1>1, <1>3, <1>4, <1>5, <1>7, <1>8, <1>9, <1>10, InvNext DEF QueueInv, TypeOK, Keeps

LEMMA BlocksStep ==
  ASSUME QueueInv, NEW c \in Co,
         getBlocks(c) \/ (\E i \in Item : putBlocks(c, i)) \/ join(c)
  PROVE  QueueInv'
<1>1. CASE getBlocks(c)
  BY <1>1, ParkStep DEF getBlocks, condVars, QueueInv, TypeOK
<1>2. ASSUME NEW i \in Item, putBlocks(c, i) PROVE QueueInv'
  <2>1. item' \in [Co -> Item]
    BY <1>2 DEF putBlocks, QueueInv, TypeOK
  <2> QED
    BY <1>2, <2>1, ParkStep DEF putBlocks, condVars
<1>3. CASE join(c)
  <2>1. cond!Block(c) <=> Block(c)
    BY DEF cond!Block, Block, cond!park, park, cond!waiter, waiter, cond!CallTimer, CallTimer,
           cond!TimeoutTimer, TimeoutTimer
  <2>2. /\ cur = c /\ Block(c) /\ cond_links' = cond_links \cup {waiter(c)}
        /\ UNCHANGED <<callbacks, cond_todo, cond_flag, cond_notifier, items,
                       getters, putters, item, is_in_put_unlock, is_in_get_unlock>>
    BY <1>3, <2>1 DEF join, cond!wait, cond!waiter, waiter, sideVars
  <2> QED
    BY <2>2, ParkStep DEF QueueInv, TypeOK
<1> QED
  BY <1>1, <1>2, <1>3

-----------------------------------------------------------------------------
(* The unlock callbacks.                                                   *)
LEMMA UnlockBeginStep ==
  ASSUME QueueInv, NEW op \in {"put_unlock", "get_unlock"}, UnlockBegin(op)
  PROVE  QueueInv'
<1>1. /\ CallbackIs(op) /\ DropCallback /\ frame = "none" /\ frame' = op
      /\ UNCHANGED <<cur, waiters, created, exception, active, pending, phase, kills,
                     items, getters, putters, item, is_in_put_unlock, is_in_get_unlock,
                     cond_links, cond_todo, cond_flag, cond_notifier>>
  BY DEF UnlockBegin, loopState, queueVars, sideVars, condVars, CallbackIs, HubIdle
<1>2. /\ QueuesNoResume /\ callbacks' \in Seq(TaskCallbacks(Ops))
      /\ HasOp(callbacks, op)
      /\ OpOnce(callbacks, op) => OpOnce(callbacks', op) /\ ~HasOp(callbacks', op)
      /\ \A p : p # op => /\ HasOp(callbacks', p) <=> HasOp(callbacks, p)
                          /\ OpOnce(callbacks, p) => OpOnce(callbacks', p)
  BY <1>1, TakeStep DEF QueueInv, TypeOK, Ops
<1>3. Keeps(Ops, {})
  BY <1>1, <1>2, QuietStep DEF QueueInv, TypeOK, Ops, TasksTypeOK, HubTypeOK
<1>4. ListsListed'
  BY <1>1, <1>3, ListsKept DEF QueueInv, Keeps, TypeOK
<1>5. Unlocks'
  BY <1>1, <1>2, UnlocksNext DEF QueueInv, Unlocks, Announced
<1>6. TypeOK' /\ TasksInv'
  BY <1>1, <1>3 DEF QueueInv, TypeOK, Keeps, Ops
<1>7. ListsApart' /\ Served' /\ WithinCapacity' /\ FlagMeansEmpty'
  BY <1>1 DEF QueueInv, ListsApart, Served, WithinCapacity, FlagMeansEmpty, is_full
<1> QED
  BY <1>4, <1>5, <1>6, <1>7 DEF QueueInv

LEMMA PutUnlockSwitchStep ==
  ASSUME QueueInv, NEW w \in Waiter, PutUnlockSwitch(w)
  PROVE  QueueInv'
<1>1. /\ cur = NoCo /\ frame = "put_unlock" /\ ~is_full /\ Resume(w, "nil", {})
      /\ putters' = putters \ {w} /\ w \in putters /\ _put(item[w[1]])
      /\ UNCHANGED <<frame, phase, kills, getters, item, is_in_put_unlock,
                     cond_links, cond_todo, cond_notifier>>
  BY DEF PutUnlockSwitch, In, Room
<1>2. item[w[1]] \in Item
  BY DEF QueueInv, TypeOK, Waiter
<1>3. /\ items' \in Seq(Item) /\ items' # <<>> /\ Len(items') = Len(items) + 1
      /\ cond_flag' = FALSE /\ is_in_get_unlock' \in BOOLEAN
      /\ getters # {} => is_in_get_unlock'
      /\ QueuesNoResume /\ callbacks' \in Seq(TaskCallbacks(Ops)) /\ Unlocks'
  BY <1>1, <1>2, PutLemma DEF QueueInv
<1>4. Keeps(Ops, {w})
  BY <1>1, <1>3, ResumeStep DEF QueueInv, TypeOK, Ops
<1>5. ListsListed'
  <2>1. \A v \in getters' \cup putters' \cup cond_links' :
           (v \in getters \cup putters \cup cond_links /\ v \notin {w}) \/ NowListed(v)
    BY <1>1 DEF QueueInv, ListsApart
  <2> QED
    BY <1>1, <1>4, <2>1, ListsKept DEF QueueInv, Keeps, TypeOK
<1>6. ListsApart'
  BY <1>1 DEF QueueInv, ListsApart
<1>7. Len(items) \in Nat
  BY LenProperties DEF QueueInv, TypeOK
<1>8. is_in_put_unlock'
  BY <1>1 DEF QueueInv, Unlocks, Announced
<1>9. MaxSize = 0 \/ Len(items') <= MaxSize
  BY <1>1, <1>3, <1>7, QueueAssumption DEF QueueInv, WithinCapacity, is_full
<1> QED
  BY <1>1, <1>3, <1>4, <1>5, <1>6, <1>8, <1>9, InvNext DEF QueueInv, TypeOK, Keeps

LEMMA GetUnlockSwitchStep ==
  ASSUME QueueInv, NEW w \in Waiter, GetUnlockSwitch(w)
  PROVE  QueueInv'
<1>1. /\ cur = NoCo /\ frame = "get_unlock" /\ Resume(w, "nil", {})
      /\ getters' = getters \ {w} /\ w \in getters /\ _get
      /\ UNCHANGED <<frame, phase, kills, putters, item, is_in_get_unlock,
                     cond_links, cond_todo, cond_flag, cond_notifier>>
  BY DEF GetUnlockSwitch, In, condVars
<1>2. /\ items # <<>> /\ items' \in Seq(Item) /\ Len(items') = Len(items) - 1
      /\ is_in_put_unlock' \in BOOLEAN
      /\ putters # {} => is_in_put_unlock'
      /\ QueuesNoResume /\ callbacks' \in Seq(TaskCallbacks(Ops)) /\ Unlocks'
  BY <1>1, GetLemma DEF QueueInv
<1>3. Keeps(Ops, {w})
  BY <1>1, <1>2, ResumeStep DEF QueueInv, TypeOK, Ops
<1>4. ListsListed'
  <2>1. \A v \in getters' \cup putters' \cup cond_links' :
           (v \in getters \cup putters \cup cond_links /\ v \notin {w}) \/ NowListed(v)
    BY <1>1 DEF QueueInv, ListsApart
  <2> QED
    BY <1>1, <1>3, <2>1, ListsKept DEF QueueInv, Keeps, TypeOK
<1>5. ListsApart' /\ ~cond_flag'
  BY <1>1, <1>2 DEF QueueInv, ListsApart, FlagMeansEmpty
<1>6. Len(items) \in Nat
  BY LenProperties DEF QueueInv, TypeOK
<1>7. is_in_get_unlock'
  BY <1>1 DEF QueueInv, Unlocks, Announced
<1>8. MaxSize = 0 \/ Len(items') <= MaxSize
  BY <1>2, <1>6, QueueAssumption DEF QueueInv, WithinCapacity
<1> QED
  BY <1>1, <1>2, <1>3, <1>4, <1>5, <1>7, <1>8, InvNext DEF QueueInv, TypeOK, Keeps

(* An unlock callback ends and takes its flag back: it is not queued, and  *)
(* it leaves nobody it could have served.                                  *)
LEMMA PutUnlockEndStep ==
  ASSUME QueueInv, PutUnlockEnd
  PROVE  QueueInv'
<1>1. /\ frame = "put_unlock" /\ frame' = "none" /\ is_in_put_unlock' = FALSE
      /\ is_full \/ putters = {}
      /\ UNCHANGED <<cur, waiters, created, exception, callbacks, active, pending, phase, kills,
                     items, getters, putters, item, is_in_get_unlock,
                     cond_links, cond_todo, cond_flag, cond_notifier>>
  BY DEF PutUnlockEnd, In, loopState, condVars
<1>2. QueuesNoResume /\ callbacks' \in Seq(TaskCallbacks(Ops))
  BY <1>1, KeepsQueue DEF QueueInv, TasksInv, TypeOK, TasksTypeOK, Ops
<1>3. Keeps(Ops, {})
  BY <1>1, <1>2, QuietStep DEF QueueInv, TypeOK, Ops, TasksTypeOK, HubTypeOK
<1>4. ListsListed'
  BY <1>1, <1>3, ListsKept DEF QueueInv, Keeps, TypeOK
<1>5. Unlocks'
  BY <1>1, UnlocksNext DEF QueueInv, Unlocks, Announced
<1>6. TypeOK' /\ TasksInv'
  BY <1>1, <1>3 DEF QueueInv, TypeOK, Keeps, Ops
<1>7. ListsApart' /\ Served' /\ WithinCapacity' /\ FlagMeansEmpty'
  BY <1>1 DEF QueueInv, ListsApart, Served, WithinCapacity, FlagMeansEmpty, is_full
<1> QED
  BY <1>4, <1>5, <1>6, <1>7 DEF QueueInv

LEMMA GetUnlockEndStep ==
  ASSUME QueueInv, GetUnlockEnd
  PROVE  QueueInv'
<1>1. /\ frame = "get_unlock" /\ frame' = "none" /\ is_in_get_unlock' = FALSE
      /\ items = <<>> \/ getters = {}
      /\ UNCHANGED <<cur, waiters, created, exception, active, pending, phase, kills,
                     items, getters, putters, item, is_in_put_unlock, cond_links>>
  BY DEF GetUnlockEnd, In, loopState
<1>2. /\ cond_flag' \in BOOLEAN /\ cond_todo' \subseteq cond_todo \cup cond_links /\ cond_notifier' \in BOOLEAN
      /\ cond_flag' => items = <<>>
      /\ UNCHANGED callbacks \/ run_callback(Callback("notify", NoCo))
  BY DEF GetUnlockEnd, FoundEmpty, cond!set, cond!run_callback, run_callback, cond!Callback, Callback,
         QueueInv, TypeOK, FlagMeansEmpty
<1>3. /\ QueuesNoResume /\ callbacks' \in Seq(TaskCallbacks(Ops))
      /\ \A p : p # "notify" /\ p # "resume" /\ p # "throw" =>
            /\ HasOp(callbacks', p) <=> HasOp(callbacks, p)
            /\ OpOnce(callbacks, p) => OpOnce(callbacks', p)
  <2>1. CASE UNCHANGED callbacks
    BY <2>1, KeepsQueue DEF QueueInv, TasksInv, TypeOK, TasksTypeOK, Ops, KeepsOps
  <2>2. CASE run_callback(Callback("notify", NoCo))
    BY <2>2, QueueStep DEF QueueInv, TypeOK, Ops
  <2> QED
    BY <1>2, <2>1, <2>2
<1>4. Keeps(Ops, {})
  BY <1>1, <1>3, QuietStep DEF QueueInv, TypeOK, Ops, TasksTypeOK, HubTypeOK
<1>5. ListsListed'
  BY <1>1, <1>2, <1>4, ListsKept DEF QueueInv, Keeps, TypeOK
<1>6. Unlocks'
  BY <1>1, <1>3, UnlocksNext DEF QueueInv, Unlocks, Announced
<1>7. TypeOK' /\ TasksInv'
  BY <1>1, <1>2, <1>4 DEF QueueInv, TypeOK, Keeps, Ops
<1>8. ListsApart' /\ Served' /\ WithinCapacity' /\ FlagMeansEmpty'
  BY <1>1, <1>2 DEF QueueInv, ListsApart, Served, WithinCapacity, FlagMeansEmpty, is_full
<1> QED
  BY <1>5, <1>6, <1>7, <1>8 DEF QueueInv

-----------------------------------------------------------------------------
(* _notify of the queue's Event.                                           *)
LEMMA NotifyStepKeeps ==
  ASSUME QueueInv, cond!NotifyStep, UNCHANGED <<items, sideVars>>
  PROVE  QueueInv'
<1>0. UNCHANGED <<items, getters, putters, item, is_in_put_unlock, is_in_get_unlock>>
  BY DEF sideVars
<1>1. CASE cond!NotifyBegin
  <2>1. /\ CallbackIs("notify") /\ DropCallback /\ frame = "none" /\ frame' = "notify"
        /\ UNCHANGED <<cur, waiters, created, exception, active, pending, phase, kills,
                       cond_links, cond_todo, cond_flag, cond_notifier>>
    BY <1>1 DEF cond!NotifyBegin, cond!CallbackIs, CallbackIs, cond!HubIdle, HubIdle,
       cond!DropCallback, DropCallback, cond!loopState, cond!eventVars
  <2>2. /\ QueuesNoResume /\ callbacks' \in Seq(TaskCallbacks(Ops))
        /\ \A p : p # "notify" => /\ HasOp(callbacks', p) <=> HasOp(callbacks, p)
                                  /\ OpOnce(callbacks, p) => OpOnce(callbacks', p)
    BY <2>1, TakeStep DEF QueueInv, TypeOK, Ops
  <2>3. Keeps(Ops, {})
    BY <2>1, <2>2, QuietStep DEF QueueInv, TypeOK, Ops, TasksTypeOK, HubTypeOK
  <2>4. ListsListed'
    BY <1>0, <2>1, <2>3, ListsKept DEF QueueInv, Keeps, TypeOK
  <2>5. Unlocks'
    BY <1>0, <2>1, <2>2, UnlocksNext DEF QueueInv, Unlocks, Announced
  <2>6. TypeOK' /\ TasksInv'
    BY <1>0, <2>1, <2>3 DEF QueueInv, TypeOK, Keeps, Ops
  <2>7. ListsApart' /\ Served' /\ WithinCapacity' /\ FlagMeansEmpty'
    BY <1>0, <2>1 DEF QueueInv, ListsApart, Served, WithinCapacity, FlagMeansEmpty, is_full
  <2> QED
    BY <2>4, <2>5, <2>6, <2>7 DEF QueueInv
<1>2. ASSUME cond!NotifyEnd \/ \E w \in Waiter : cond!NotifyFails(w) PROVE QueueInv'
  <2>1. /\ frame = "notify" /\ frame' = "none"
        /\ cond_todo' \subseteq cond_todo /\ cond_notifier' \in {cond_notifier, FALSE}
        /\ UNCHANGED <<cur, waiters, created, exception, callbacks, active, pending, phase, kills,
                       cond_links, cond_flag>>
    BY <1>2 DEF cond!NotifyEnd, cond!NotifyFails, cond!InNotify, cond!loopState
  <2>2. /\ QueuesNoResume /\ KeepsOps /\ callbacks' \in Seq(TaskCallbacks(Ops))
    BY <2>1, KeepsQueue DEF QueueInv, TasksInv, TypeOK, TasksTypeOK, Ops
  <2>3. Keeps(Ops, {})
    BY <2>1, <2>2, QuietStep DEF QueueInv, TypeOK, Ops, TasksTypeOK, HubTypeOK
  <2>4. ListsListed'
    BY <1>0, <2>1, <2>3, ListsKept DEF QueueInv, Keeps, TypeOK
  <2>5. Unlocks'
    BY <1>0, <2>1, UnlocksNext DEF QueueInv, Unlocks, Announced
  <2>6. TypeOK' /\ TasksInv'
    BY <1>0, <2>1, <2>3 DEF QueueInv, TypeOK, Keeps, Ops
  <2>7. ListsApart' /\ Served' /\ WithinCapacity' /\ FlagMeansEmpty'
    BY <1>0, <2>1 DEF QueueInv, ListsApart, Served, WithinCapacity, FlagMeansEmpty, is_full
  <2> QED
    BY <2>4, <2>5, <2>6, <2>7 DEF QueueInv
<1>3. ASSUME NEW w \in Waiter, cond!NotifySwitch(w) PROVE QueueInv'
  <2>0. cond!Resume(w, "nil", {}) <=> Resume(w, "nil", {})
    BY DEF cond!Resume, Resume, cond!_switch, _switch, cond!Unresolved, Unresolved,
           cond!ClearWaiter, ClearWaiter, cond!Stopped, Stopped, cond!SleepTimer, SleepTimer,
           cond!CallTimer, CallTimer, cond!TimeoutTimer, TimeoutTimer
  <2>1. /\ cur = NoCo /\ frame = "notify" /\ Resume(w, "nil", {})
        /\ cond_links' = cond_links \ {w} /\ cond_todo' = cond_todo \ {w}
        /\ UNCHANGED <<callbacks, frame, phase, kills, cond_flag, cond_notifier>>
    BY <1>3, <2>0 DEF cond!NotifySwitch, cond!InNotify
  <2>2. QueuesNoResume /\ KeepsOps /\ callbacks' \in Seq(TaskCallbacks(Ops))
    BY <2>1, KeepsQueue DEF QueueInv, TasksInv, TypeOK, TasksTypeOK, Ops
  <2>3. Keeps(Ops, {w})
    BY <2>1, <2>2, ResumeStep DEF QueueInv, TypeOK, Ops
  <2>4. w \in cond_links /\ w \notin getters \cup putters
    BY <1>3, <2>1 DEF QueueInv, ListsListed, ListsApart, Resume, _switch, Unresolved,
                      cond!NotifySwitch
  <2>5. ListsListed'
    <3>1. \A v \in getters' \cup putters' \cup cond_links' :
             (v \in getters \cup putters \cup cond_links /\ v \notin {w}) \/ NowListed(v)
      BY <1>0, <2>1, <2>4 DEF QueueInv, ListsApart
    <3> QED
      BY <1>0, <2>1, <2>3, <3>1, ListsKept DEF QueueInv, Keeps, TypeOK
  <2>6. Unlocks'
    BY <1>0, <2>1, <2>2, UnlocksKept DEF QueueInv
  <2>7. TypeOK' /\ TasksInv'
    BY <1>0, <2>1, <2>3 DEF QueueInv, TypeOK, Keeps, Ops
  <2>8. ListsApart' /\ Served' /\ WithinCapacity' /\ FlagMeansEmpty'
    BY <1>0, <2>1 DEF QueueInv, ListsApart, Served, WithinCapacity, FlagMeansEmpty, is_full
  <2> QED
    BY <2>5, <2>6, <2>7, <2>8 DEF QueueInv
<1>4. cond!Waiter = Waiter
  BY DEF cond!Waiter, Waiter
<1> QED
  BY <1>1, <1>2, <1>3, <1>4 DEF cond!NotifyStep

-----------------------------------------------------------------------------
(* A new queue is empty, and its Event's _notify comes before the tasks.   *)
LEMMA QueueBegin ==
  ASSUME Init
  PROVE  QueueInv
<1> DEFINE e == Callback("notify", NoCo)
           R == TaskCallbacks(Ops)
<1>1. /\ TasksInit(<<e>>)
      /\ items = <<>> /\ getters = {} /\ putters = {} /\ item \in [Co -> Item]
      /\ is_in_put_unlock = FALSE /\ is_in_get_unlock = FALSE
      /\ cond_links = {} /\ cond_todo = {} /\ cond_flag = TRUE /\ cond_notifier = TRUE
  BY DEF Init
<1>2. TasksInv /\ callbacks \in Seq(R)
  <2>1. \A c \in Co : Callback("resume", c) \in R
    BY DEF Callback, TaskCallbacks
  <2>2. e \in R /\ e.op = "notify"
    BY DEF Callback, TaskCallbacks, Ops
  <2> HIDE DEF e, R
  <2>3. <<e>> \in Seq(R) /\ \A i \in 1..Len(<<e>>) : <<e>>[i].op # "resume"
    BY <2>2
  <2> QED
    BY <1>1, <2>1, <2>3, InitTasks
<1>3. frame = "none" /\ active = {} /\ pending = {} /\ kills = 0
  BY <1>1 DEF TasksInit, HubInit
<1>4. TypeOK
  <2>1. kills \in 0..MaxKills
    BY <1>3, TasksAssumption
  <2>2. TasksTypeOK(Ops)
    BY <1>2, <1>3, <2>1 DEF TasksTypeOK, TasksInv
  <2>3. items \in Seq(Item)
    BY <1>1
  <2>4. /\ getters \in SUBSET Waiter /\ putters \in SUBSET Waiter
        /\ cond_links \in SUBSET Waiter /\ cond_todo \in SUBSET Waiter
        /\ is_in_put_unlock \in BOOLEAN /\ is_in_get_unlock \in BOOLEAN
        /\ cond_flag \in BOOLEAN /\ cond_notifier \in BOOLEAN /\ item \in [Co -> Item]
    BY <1>1
  <2> QED
    BY <1>3, <2>2, <2>3, <2>4 DEF TypeOK, Ops
<1>5. Unlocks
  <2>1. ASSUME NEW i \in 1..Len(callbacks)
        PROVE  callbacks[i].op \in {"notify", "resume"}
    <3> DEFINE n == Cardinality(Co)
               f == [j \in 1..n |-> Callback("resume", SetToSeq(Co)[j])]
    <3>1. f \in Seq(R) /\ Len(f) = n /\ \A j \in 1..n : f[j].op = "resume"
      <4>1. \A j \in 1..n : Callback("resume", SetToSeq(Co)[j]) \in R /\
                            Callback("resume", SetToSeq(Co)[j]).op = "resume"
        BY TasksListed DEF Callback, TaskCallbacks
      <4> QED
        BY <4>1, TasksListed
    <3>2. callbacks = <<e>> \o f
      BY <1>1 DEF TasksInit, HubInit
    <3>3. <<e>> \in Seq(R) /\ Len(<<e>>) = 1 /\ <<e>>[1].op = "notify"
      BY DEF Callback, TaskCallbacks, Ops
    <3> HIDE DEF e, f, R
    <3>4. \A j \in 1..Len(<<e>> \o f) :
             \/ j \in 1..Len(<<e>>) /\ (<<e>> \o f)[j] = <<e>>[j]
             \/ j - Len(<<e>>) \in 1..Len(f) /\ (<<e>> \o f)[j] = f[j - Len(<<e>>)]
      BY <3>1, <3>3, ConcatLaws
    <3> QED
      BY <3>1, <3>2, <3>3, <3>4
  <2> QED
    BY <1>1, <1>3, <2>1 DEF Unlocks, Announced, OpOnce, HasOp
<1>6. ListsListed /\ ListsApart /\ Served /\ WithinCapacity /\ FlagMeansEmpty
  BY <1>1, QueueAssumption
     DEF ListsListed, ListsApart, Served, WithinCapacity, FlagMeansEmpty
<1> QED
  BY <1>2, <1>4, <1>5, <1>6 DEF QueueInv

(* The invariant of a program whose tasks share a queue.                   *)
THEOREM QueueInvariant == Spec => []QueueInv
<1>1. Init => QueueInv
  BY QueueBegin
<1>2. QueueInv /\ [Next]_vars => QueueInv'
  <2> SUFFICES ASSUME QueueInv, [Next]_vars PROVE QueueInv'
    OBVIOUS
  <2>1. ASSUME NEW c \in Co, TaskStep(c) PROVE QueueInv'
    <3>1. ASSUME (sleep(c) \/ kill(c) \/ Finish(c)) /\ UNCHANGED queueVars PROVE QueueInv'
      <4>1. Keeps(Ops, {}) /\ KeepsOps /\ UNCHANGED frame
        BY <3>1, OtherTaskStep DEF QueueInv, TypeOK, Ops
      <4> QED
        BY <3>1, <4>1, OtherStep
    <3> QED
      BY <2>1, <3>1, PutStep, GetStep, BlocksStep DEF TaskStep, Yields
  <2>2. CASE UnlockStep
    BY <2>2, UnlockBeginStep, PutUnlockEndStep, GetUnlockEndStep, PutUnlockSwitchStep,
       GetUnlockSwitchStep DEF UnlockStep
  <2>3. CASE cond!NotifyStep /\ UNCHANGED <<items, sideVars>>
    BY <2>3, NotifyStepKeeps
  <2>4. CASE \E c \in Co : CallInterrupted(c)
    BY <2>4, InterruptStep
  <2>5. CASE TasksHubStep /\ UNCHANGED queueVars
    <3>1. Keeps(Ops, {}) /\ KeepsOps /\ UNCHANGED frame
      BY <2>5, OtherHubStep DEF QueueInv, TypeOK, Ops
    <3> QED
      BY <2>5, <3>1, OtherStep
  <2>6. CASE UNCHANGED vars
    <3>1. /\ UNCHANGED <<cur, waiters, created, exception, callbacks, frame, active, pending,
                         phase, kills>>
          /\ UNCHANGED queueVars
      BY <2>6 DEF vars, taskVars, hubVars
    <3>2. QueuesNoResume /\ KeepsOps
      BY <3>1, KeepsQueue DEF QueueInv, TasksInv
    <3>3. Keeps(Ops, {})
      BY <3>1, <3>2, QuietStep DEF QueueInv, TypeOK, Ops, TasksTypeOK, HubTypeOK
    <3> QED
      BY <3>1, <3>2, <3>3, OtherStep
  <2> QED
    BY <2>1, <2>2, <2>3, <2>4, <2>5, <2>6 DEF Next, HubStep, Exited
<1> QED
  BY <1>1, <1>2, PTL DEF Spec

(* Nobody is parked in get beside an item, or in put beside room, without  *)
(* an unlock callback that is queued or running, and queued only once.     *)
THEOREM NoLostWakeupHolds == Spec => []NoLostWakeup
<1>1. QueueInv => NoLostWakeup
  BY ComingMeans DEF QueueInv, Served, Unlocks, Announced, NoLostWakeup
<1> QED
  BY <1>1, QueueInvariant, PTL

(* The queue stays within maxsize, whichever puts are resumed.             *)
THEOREM WithinCapacityHolds == Spec => []WithinCapacity
<1>1. QueueInv => WithinCapacity
  BY DEF QueueInv
<1> QED
  BY <1>1, QueueInvariant, PTL

(* The unlock loops switch only to Waiters that are parked and unresolved. *)
THEOREM ListsAreParkedHolds == Spec => []ListsAreParked
<1>1. QueueInv => ListsAreParked
  BY DEF QueueInv, ListsListed, ListsApart, Listed, ListsAreParked
<1> QED
  BY <1>1, QueueInvariant, PTL

(* Queue:join returns at once only from an empty queue.                    *)
THEOREM FlagMeansEmptyHolds == Spec => []FlagMeansEmpty
<1>1. QueueInv => FlagMeansEmpty
  BY DEF QueueInv
<1> QED
  BY <1>1, QueueInvariant, PTL
=============================================================================
