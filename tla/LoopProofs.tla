----------------------------- MODULE LoopProofs -----------------------------
(***************************************************************************)
(* What Loop.tla guarantees for every set of watchers and every bound on   *)
(* the callbacks: its type, the exactness of the reference count, that     *)
(* ev_run does not return early, and that it implements EventLoop.         *)
(***************************************************************************)
EXTENDS Loop, FiniteSetTheorems, SequenceTheorems, TLAPS

(* Only finitely many watchers exist, so a set of them can be counted.     *)
LEMMA WatchersFinite == \A S \in SUBSET Watcher : IsFiniteSet(S)
<1>1. IsFiniteSet(Watcher)
  BY WatcherAssumption, FS_Union DEF Watcher
<1> QED
  BY <1>1, FS_Subset

(* An expiring set of one-shot timers leaves the set of active watchers    *)
(* and the count together.                                                 *)
LEMMA ExpiryCounted ==
  ASSUME NEW S \in SUBSET Watcher, NEW F \in SUBSET S
  PROVE  /\ Cardinality(S) \in Nat
         /\ Cardinality(F \cap Timer) \in Nat
         /\ Cardinality(S \ (F \cap Timer))
              = Cardinality(S) - Cardinality(F \cap Timer)
         /\ Cardinality(S \ (F \cap Timer)) \in Nat
<1>1. IsFiniteSet(S) /\ IsFiniteSet(F \cap Timer) /\ IsFiniteSet(S \ (F \cap Timer))
  BY WatchersFinite
<1>2. S \cap (F \cap Timer) = F \cap Timer
  OBVIOUS
<1>3. Cardinality(S \ (F \cap Timer))
         = Cardinality(S) - Cardinality(S \cap (F \cap Timer))
  BY <1>1, FS_Difference
<1>4. /\ Cardinality(S) \in Nat
      /\ Cardinality(F \cap Timer) \in Nat
      /\ Cardinality(S \ (F \cap Timer)) \in Nat
  BY <1>1, FS_CardinalityType
<1> QED
  BY <1>2, <1>3, <1>4

(* A watcher that starts or stops moves the count by at most one.          *)
LEMMA StartStopCounted ==
  ASSUME NEW S \in SUBSET Watcher, NEW w \in Watcher
  PROVE  /\ Cardinality(S) \in Nat
         /\ Cardinality(S \cup {w})
              = IF w \in S THEN Cardinality(S) ELSE Cardinality(S) + 1
         /\ Cardinality(S \ {w})
              = IF w \in S THEN Cardinality(S) - 1 ELSE Cardinality(S)
         /\ w \in S => Cardinality(S) >= 1
<1>1. IsFiniteSet(S)
  BY WatchersFinite
<1>2. IsFiniteSet(S \ {w}) /\ Cardinality(S \ {w}) \in Nat
  BY WatchersFinite, FS_CardinalityType
<1> QED
  BY <1>1, <1>2, FS_AddElement, FS_RemoveElement, FS_CardinalityType

LEMMA InitLoopInv == Init => LoopInv
<1> SUFFICES ASSUME Init PROVE LoopInv
  OBVIOUS
<1>1. TypeOK
  <2>1. queued \in 0..MaxCallbacks /\ activecnt \in Nat
    BY BoundAssumption DEF Init, InitialRefs
  <2>2. callbacks \in Seq(Callback) /\ batch \in Seq(Callback)
    BY EmptySeq DEF Init
  <2> QED
    BY <2>1, <2>2 DEF Init, TypeOK
<1>2. RefAccounting
  BY FS_EmptySet DEF Init, InitialRefs, RefAccounting
<1>3. PendingHasCallback /\ PhaseInv
  BY DEF Init, PendingHasCallback, PhaseInv
<1> QED
  BY <1>1, <1>2, <1>3 DEF LoopInv

LEMMA StepLoopInv == LoopInv /\ [Next]_vars => LoopInv'
<1> SUFFICES ASSUME LoopInv, [Next]_vars PROVE LoopInv'
  OBVIOUS
<1> USE DEF LoopInv
<1>a. Cardinality(active) \in Nat /\ Len(callbacks) \in Nat /\ Len(batch) \in Nat
  BY WatchersFinite, FS_CardinalityType, LenProperties DEF TypeOK
<1>1. ASSUME NEW w \in Watcher, start(w) PROVE LoopInv'
  <2>1. Cardinality(active')
          = IF w \in active THEN Cardinality(active) ELSE Cardinality(active) + 1
    BY <1>1, StartStopCounted DEF start, TypeOK
  <2>2. RefAccounting' /\ activecnt' \in Nat
    BY <1>1, <1>a, <2>1 DEF start, RefAccounting, TypeOK
  <2> QED
    BY <1>1, <2>2 DEF start, LuaRuns, TypeOK, PendingHasCallback, PhaseInv
<1>2. ASSUME NEW w \in Watcher, stop(w) PROVE LoopInv'
  <2>1. /\ Cardinality(active')
             = IF w \in active THEN Cardinality(active) - 1 ELSE Cardinality(active)
        /\ w \in active => Cardinality(active) >= 1
    BY <1>2, StartStopCounted DEF stop, TypeOK
  <2>2. RefAccounting' /\ activecnt' \in Nat
    BY <1>2, <1>a, <2>1 DEF stop, RefAccounting, TypeOK
  <2> QED
    BY <1>2, <2>2 DEF stop, ClearPending, LuaRuns, TypeOK, PendingHasCallback, PhaseInv
<1>3. CASE run_callback
  <2>1. queued + 1 \in Callback /\ queued' \in 0..MaxCallbacks
    BY <1>3, BoundAssumption DEF run_callback, Callback, TypeOK
  <2>2. callbacks' \in Seq(Callback) /\ Len(callbacks') = Len(callbacks) + 1
    BY <1>3, <2>1, AppendProperties DEF run_callback, TypeOK
  <2>3. activecnt' \in Nat /\ RefAccounting'
    BY <1>3, <1>a, <2>2 DEF run_callback, ref, RefAccounting
  <2> QED
    BY <1>3, <2>1, <2>2, <2>3
    DEF run_callback, LuaRuns, TypeOK, PendingHasCallback, PhaseInv
<1>4. CASE _break
  BY <1>4 DEF _break, TypeOK, RefAccounting, PendingHasCallback, PhaseInv
<1>5. CASE CallbackReturns
  BY <1>5 DEF CallbackReturns, TypeOK, RefAccounting, PendingHasCallback, PhaseInv
<1>6. CASE run
  BY <1>6 DEF run, TypeOK, RefAccounting, PendingHasCallback, PhaseInv
<1>7. CASE TakeBatch
  <2>1. RefAccounting'
    BY <1>7, <1>a, EmptySeq DEF TakeBatch, RefAccounting
  <2> QED
    BY <1>7, <2>1, EmptySeq DEF TakeBatch, TypeOK, PendingHasCallback, PhaseInv
<1>8. CASE RunNext
  <2>1. Tail(batch) \in Seq(Callback) /\ Len(Tail(batch)) = Len(batch) - 1
    BY <1>8, HeadTailProperties DEF RunNext, TypeOK
  <2>2. Len(batch) # 0
    BY <1>8, EmptySeq DEF RunNext, TypeOK
  <2>3. activecnt' \in Nat /\ RefAccounting'
    BY <1>8, <1>a, <2>1, <2>2 DEF RunNext, RestOfBatch, unref, RefAccounting
  <2> QED
    BY <1>8, <2>1, <2>3 DEF RunNext, RestOfBatch, TypeOK, PendingHasCallback, PhaseInv
<1>9. CASE PrepareReturns
  BY <1>9 DEF PrepareReturns, Drained, TypeOK, RefAccounting, PendingHasCallback, PhaseInv
<1>10. CASE Poll
  <2>1. PICK fired \in SUBSET active :
           /\ pending' = fired
           /\ active' = active \ (fired \cap Timer)
           /\ activecnt' = activecnt - Cardinality(fired \cap Timer)
    BY <1>10 DEF Poll
  <2>2. /\ Cardinality(fired \cap Timer) \in Nat
        /\ Cardinality(active') = Cardinality(active) - Cardinality(fired \cap Timer)
        /\ Cardinality(active') \in Nat
    BY <2>1, ExpiryCounted DEF TypeOK
  <2>3. RefAccounting' /\ activecnt' \in Nat
    BY <1>10, <1>a, <2>1, <2>2 DEF Poll, RefAccounting
  <2> QED
    BY <1>10, <2>1, <2>3 DEF Poll, TypeOK, PendingHasCallback, PhaseInv
<1>11. ASSUME NEW w \in Watcher, Invoke(w) PROVE LoopInv'
  BY <1>11 DEF Invoke, TypeOK, RefAccounting, PendingHasCallback, PhaseInv
<1>12. CASE NextRound
  BY <1>12 DEF NextRound, TypeOK, RefAccounting, PendingHasCallback, PhaseInv
<1>13. CASE UNCHANGED vars
  BY <1>13 DEF vars, TypeOK, RefAccounting, PendingHasCallback, PhaseInv
<1> QED
  BY <1>1, <1>2, <1>3, <1>4, <1>5, <1>6, <1>7, <1>8, <1>9, <1>10, <1>11,
     <1>12, <1>13 DEF Next, LoopStep

(* The inductive invariant of loop.lua over ev_run holds in every          *)
(* reachable state.                                                        *)
THEOREM LoopInvariant == Spec => []LoopInv
  BY InitLoopInv, StepLoopInv, PTL DEF Spec

(* libev's activecnt always equals the active watchers plus the callbacks  *)
(* queued by Loop:run_callback and not yet called by Loop:_run_callback.   *)
THEOREM RefAccountingHolds == Spec => []RefAccounting
  BY LoopInvariant, PTL DEF LoopInv

(* Every variable of the loop keeps its type; the count is never negative. *)
THEOREM TypeCorrect == Spec => []TypeOK
  BY LoopInvariant, PTL DEF LoopInv

(* libev never invokes a Watcher whose _cb is nil.                         *)
THEOREM NoCallbackIntoNil == Spec => []PendingHasCallback
  BY LoopInvariant, PTL DEF LoopInv

(* Loop:run returns only when the loop was broken or nothing is left: no   *)
(* queued callback and no active watcher.                                  *)
THEOREM NoEarlyReturnHolds == Spec => NoEarlyReturn
<1> DEFINE Return == phase # "idle" /\ phase' = "idle" =>
                       loop_done \/ (batch = <<>> /\ callbacks = <<>> /\ active = {})
<1>1. LoopInv /\ [Next]_vars => [Return]_vars
  <2> SUFFICES ASSUME LoopInv, Next, phase # "idle", phase' = "idle", ~loop_done
               PROVE  batch = <<>> /\ callbacks = <<>> /\ active = {}
    BY DEF vars
  <2>1. NextRound
    BY DEF Next, LoopStep, start, stop, run_callback, _break, CallbackReturns,
           run, TakeBatch, RunNext, PrepareReturns, Poll, Invoke
  <2>2. activecnt = 0
    BY <2>1 DEF NextRound
  <2>3. IsFiniteSet(active) /\ Cardinality(active) \in Nat
    BY WatchersFinite, FS_CardinalityType DEF LoopInv, TypeOK
  <2>4. Len(callbacks) \in Nat /\ Len(batch) \in Nat
    BY LenProperties DEF LoopInv, TypeOK
  <2>5. Cardinality(active) = 0 /\ Len(callbacks) = 0 /\ Len(batch) = 0
    BY <2>2, <2>3, <2>4 DEF LoopInv, RefAccounting
  <2> QED
    BY <2>3, <2>5, FS_EmptySet, EmptySeq DEF LoopInv, TypeOK
<1> QED
  BY <1>1, LoopInvariant, PTL DEF Spec, NoEarlyReturn

-----------------------------------------------------------------------------
(* The queue of the abstract loop, batch \o callbacks, under each way the  *)
(* code changes it.                                                        *)
LEMMA QueueLaws ==
  ASSUME NEW S, NEW b \in Seq(S), NEW c \in Seq(S)
  PROVE  /\ <<>> \o c = c
         /\ c \o <<>> = c
         /\ (b \o c = <<>>) <=> (b = <<>> /\ c = <<>>)
         /\ \A e \in S : b \o Append(c, e) = Append(b \o c, e)
         /\ b # <<>> => Tail(b \o c) = Tail(b) \o c
<1>1. /\ <<>> \o c = c
      /\ c \o <<>> = c
      /\ (b \o c = <<>>) <=> (b = <<>> /\ c = <<>>)
  BY ConcatEmptySeq, ConcatEqualIffEmpty
<1>2. ASSUME NEW e \in S PROVE b \o Append(c, e) = Append(b \o c, e)
  <2>1. <<e>> \in Seq(S)
    OBVIOUS
  <2>2. b \o c \in Seq(S)
    BY ConcatProperties
  <2>3. Append(c, e) = c \o <<e>> /\ Append(b \o c, e) = (b \o c) \o <<e>>
    BY <2>2, AppendIsConcat
  <2> QED
    BY <2>1, <2>3, ConcatAssociative
<1>3. ASSUME b # <<>> PROVE Tail(b \o c) = Tail(b) \o c
  <2>1. /\ Tail(b) \in Seq(S)
        /\ Len(Tail(b)) = Len(b) - 1
        /\ \A i \in 1..Len(Tail(b)) : Tail(b)[i] = b[i+1]
    BY <1>3, HeadTailProperties
  <2>2. /\ b \o c \in Seq(S) /\ b \o c # <<>>
        /\ Len(b \o c) = Len(b) + Len(c)
        /\ \A i \in 1..(Len(b) + Len(c)) :
              (b \o c)[i] = IF i <= Len(b) THEN b[i] ELSE c[i - Len(b)]
    BY <1>1, <1>3, ConcatProperties
  <2>3. /\ Tail(b \o c) \in Seq(S)
        /\ Len(Tail(b \o c)) = Len(b \o c) - 1
        /\ \A i \in 1..Len(Tail(b \o c)) : Tail(b \o c)[i] = (b \o c)[i+1]
    BY <2>2, HeadTailProperties
  <2>4. /\ Tail(b) \o c \in Seq(S)
        /\ Len(Tail(b) \o c) = Len(Tail(b)) + Len(c)
        /\ \A i \in 1..(Len(Tail(b)) + Len(c)) :
              (Tail(b) \o c)[i] = IF i <= Len(Tail(b)) THEN Tail(b)[i]
                                  ELSE c[i - Len(Tail(b))]
    BY <2>1, ConcatProperties
  <2>5. Len(b) \in Nat \ {0} /\ Len(c) \in Nat
    BY <1>3, EmptySeq, LenProperties
  <2>6. Len(Tail(b \o c)) = Len(Tail(b) \o c)
    BY <2>1, <2>2, <2>3, <2>4, <2>5
  <2>7. ASSUME NEW i \in 1..Len(Tail(b \o c))
        PROVE  Tail(b \o c)[i] = (Tail(b) \o c)[i]
    <3>1. i + 1 \in 1..(Len(b) + Len(c)) /\ i \in 1..(Len(Tail(b)) + Len(c))
      BY <2>1, <2>2, <2>3, <2>5
    <3>2. Tail(b \o c)[i] = IF i + 1 <= Len(b) THEN b[i+1] ELSE c[(i+1) - Len(b)]
      BY <2>2, <2>3, <3>1
    <3>3. (Tail(b) \o c)[i] = IF i <= Len(b) - 1 THEN Tail(b)[i]
                              ELSE c[i - (Len(b) - 1)]
      BY <2>1, <2>4, <3>1
    <3> QED
      BY <2>1, <2>5, <3>1, <3>2, <3>3
  <2> QED
    BY <2>3, <2>4, <2>6, <2>7, SeqEqual
<1> QED
  BY <1>1, <1>2, <1>3

(* loop.lua over ev_run implements the abstract event loop: callbacks run  *)
(* once and in the order they were queued, although they move through two  *)
(* tables; the poll is reached only with none left; a stopped watcher is   *)
(* not invoked.                                                            *)
THEOREM LoopImplementsEventLoop == Spec => ImplementsEventLoop
<1>1. Init => Abstract!Init
  BY QueueLaws, EmptySeq DEF Init, Abstract!Init, AbstractPhase
<1>2. LoopInv /\ [Next]_vars => [Abstract!Next]_(Abstract!loopVars)
  <2> SUFFICES ASSUME LoopInv, [Next]_vars
               PROVE  Abstract!Next \/ UNCHANGED Abstract!loopVars
    OBVIOUS
  <2> USE DEF LoopInv, TypeOK
  <2>1. ASSUME NEW w \in Watcher, start(w) PROVE Abstract!UserCode
    BY <2>1 DEF start, Abstract!UserCode, AbstractPhase, Watcher, Abstract!Watcher
  <2>2. ASSUME NEW w \in Watcher, stop(w) PROVE Abstract!UserCode
    BY <2>2 DEF stop, ClearPending, Abstract!UserCode, AbstractPhase, Watcher,
                Abstract!Watcher
  <2>3. CASE run_callback
    <3>1. queued + 1 \in Callback
      BY <2>3, BoundAssumption DEF run_callback, Callback
    <3>2. batch' \o callbacks' = Append(batch \o callbacks, queued + 1)
      BY <2>3, <3>1, QueueLaws DEF run_callback
    <3>3. Abstract!UserCode
      BY <2>3, <3>1, <3>2
      DEF run_callback, Abstract!UserCode, AbstractPhase, Watcher, Abstract!Watcher
    <3> QED
      BY <3>3 DEF Abstract!Next
  <2>4. CASE _break
    BY <2>4 DEF _break, Abstract!loopVars, AbstractPhase
  <2>5. CASE CallbackReturns
    BY <2>5 DEF CallbackReturns, Abstract!loopVars, AbstractPhase
  <2>6. CASE run
    <3>1. Abstract!Run
      BY <2>6 DEF run, Abstract!Run, AbstractPhase
    <3> QED
      BY <3>1 DEF Abstract!Next
  <2>7. CASE TakeBatch
    <3>1. batch' \o callbacks' = batch \o callbacks
      BY <2>7, QueueLaws DEF TakeBatch
    <3> QED
      BY <2>7, <3>1 DEF TakeBatch, Abstract!loopVars, AbstractPhase
  <2>8. CASE RunNext
    <3>1. /\ batch \o callbacks # <<>>
          /\ batch' \o callbacks' = Tail(batch \o callbacks)
      BY <2>8, QueueLaws DEF RunNext, RestOfBatch
    <3>2. Abstract!RunCallback
      BY <2>8, <3>1 DEF RunNext, Abstract!RunCallback, AbstractPhase
    <3> QED
      BY <3>2 DEF Abstract!Next
  <2>9. CASE PrepareReturns
    <3>1. batch \o callbacks = <<>> /\ pending = {}
      BY <2>9, QueueLaws DEF PrepareReturns, Drained, PhaseInv
    <3>2. CASE loop_done
      <4>1. Abstract!Return
        BY <2>9, <3>1, <3>2 DEF PrepareReturns, Abstract!Return, AbstractPhase
      <4> QED
        BY <4>1 DEF Abstract!Next
    <3>3. CASE ~loop_done
      BY <2>9, <3>3 DEF PrepareReturns, Abstract!loopVars, AbstractPhase
    <3> QED
      BY <3>2, <3>3
  <2>10. CASE Poll
    <3>1. batch \o callbacks = <<>>
      BY <2>10, QueueLaws DEF Poll, PhaseInv
    <3>2. Abstract!Poll
      BY <2>10, <3>1 DEF Poll, Abstract!Poll, AbstractPhase
    <3> QED
      BY <3>2 DEF Abstract!Next
  <2>11. ASSUME NEW w \in Watcher, Invoke(w) PROVE Abstract!Invoke
    BY <2>11 DEF Invoke, Abstract!Invoke, AbstractPhase
  <2>12. CASE NextRound
    <3>1. Abstract!Return \/ Abstract!NextRound
      BY <2>12 DEF NextRound, Abstract!Return, Abstract!NextRound, AbstractPhase
    <3> QED
      BY <3>1 DEF Abstract!Next
  <2>13. CASE UNCHANGED vars
    BY <2>13 DEF vars, Abstract!loopVars, AbstractPhase
  <2> QED
    BY <2>1, <2>2, <2>3, <2>4, <2>5, <2>6, <2>7, <2>8, <2>9, <2>10, <2>11,
       <2>12, <2>13 DEF Next, LoopStep, Abstract!Next
<1> QED
  BY <1>1, <1>2, LoopInvariant, PTL DEF Spec, ImplementsEventLoop, Abstract!Spec
=============================================================================
