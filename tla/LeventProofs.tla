---------------------------- MODULE LeventProofs ----------------------------
(***************************************************************************)
(* What Levent.tla guarantees for every finite set of coroutines and every *)
(* bound on waits, tasks, nesting and kills: its type, that tasks park on  *)
(* exactly one Waiter, that timers stay in scope, that the pool is sound   *)
(* and that a kill reaches the task it was meant for or nobody.            *)
(***************************************************************************)
EXTENDS Levent, FiniteSetTheorems, SequenceTheorems, TLAPS

(* Hub:waiter numbers Waiters upwards: one that was not created yet has no *)
(* result.                                                                 *)
FreshWaiters == \A w \in Waiter : w[2] > created[w[1]] => Unresolved(w)

(* Watchers are pending only while a round invokes them, and an expired    *)
(* one-shot timer is no longer active.                                     *)
RoundInv ==
    /\ phase # "invoke" => pending = {}
    /\ active \cap pending = {}

(* A coroutines.resume queued by levent.spawn is for a coroutine that was  *)
(* handed to its task and not started, and there is one per coroutine.     *)
ResumesSpawned ==
    /\ \A i \in 1..Len(callbacks) : callbacks[i].op = "resume" =>
          /\ costate[callbacks[i].co] = "spawned"
          /\ callbacks[i].task = task[callbacks[i].co]
    /\ \A i, j \in 1..Len(callbacks) :
          /\ callbacks[i].op = "resume" /\ callbacks[j].op = "resume"
          /\ callbacks[i].co = callbacks[j].co
          => i = j

(* A kill meant for an earlier task of a coroutine is carried out before   *)
(* the coroutine starts its present task.                                  *)
StaleKillsFirst ==
    \A i, j \in 1..Len(callbacks) :
       /\ callbacks[i].op = "throw" /\ callbacks[i].task # task[callbacks[i].co]
       /\ callbacks[j].op = "resume" /\ callbacks[j].co = callbacks[i].co
       => i < j

(* A coroutine that was handed out has a task.                             *)
HasTask == \A c \in Co : costate[c] \in {"spawned", "alive"} => task[c] # 0

(* The inductive invariant.                                                *)
LeventInv ==
    /\ TypeOK /\ HasTask
    /\ ParkedOnce /\ FreshWaiters
    /\ TimersInScope /\ RoundInv
    /\ ResumesSpawned /\ StaleKillsFirst /\ KillsItsTarget
    /\ PoolSound

-----------------------------------------------------------------------------
(* How an element's place moves when a list gains or loses an element at   *)
(* one of its ends.                                                        *)
(* The elements of a list are what its places hold.                        *)
LEMMA RangeLaws ==
  ASSUME NEW S, NEW q \in Seq(S)
  PROVE  /\ Range(q) \subseteq S
         /\ \A x : x \in Range(q) <=> \E i \in 1..Len(q) : q[i] = x
  BY LenProperties, ElementOfSeq DEF Range

(* Taking the first element, as Loop:_run_callback does.                   *)
LEMMA TailLaws ==
  ASSUME NEW S, NEW q \in Seq(S), q # <<>>
  PROVE  /\ Tail(q) \in Seq(S)
         /\ Head(q) = q[1] /\ Head(q) \in S
         /\ Len(q) \in Nat \ {0}
         /\ 1 \in 1..Len(q)
         /\ Len(Tail(q)) = Len(q) - 1
         /\ \A i \in 1..Len(Tail(q)) : i + 1 \in 1..Len(q) /\ Tail(q)[i] = q[i + 1]
         /\ \A i \in 1..Len(q) :
               i # 1 => i - 1 \in 1..Len(Tail(q)) /\ Tail(q)[i - 1] = q[i]
<1>1. /\ Head(q) \in S
      /\ Tail(q) \in Seq(S)
      /\ Len(Tail(q)) = Len(q) - 1
      /\ \A i \in 1..Len(Tail(q)) : Tail(q)[i] = q[i + 1]
  BY HeadTailProperties
<1>2. Len(q) \in Nat \ {0}
  BY EmptySeq, LenProperties
<1>3. Head(q) = q[1]
  OBVIOUS
<1> QED
  BY <1>1, <1>2, <1>3

(* Adding an element at the end, as Loop:run_callback does.                *)
LEMMA AppendLaws ==
  ASSUME NEW S, NEW q \in Seq(S), NEW e \in S
  PROVE  /\ Append(q, e) \in Seq(S)
         /\ Len(q) \in Nat
         /\ Len(Append(q, e)) = Len(q) + 1
         /\ Len(q) + 1 \in 1..Len(Append(q, e))
         /\ \A i \in 1..Len(q) : i \in 1..Len(Append(q, e)) /\ Append(q, e)[i] = q[i]
         /\ Append(q, e)[Len(q) + 1] = e
         /\ \A i \in 1..Len(Append(q, e)) : i # Len(q) + 1 => i \in 1..Len(q)
  BY AppendProperties, LenProperties

(* Taking the last element, as table.remove in co_create does.             *)
LEMMA FrontLaws ==
  ASSUME NEW S, NEW q \in Seq(S), q # <<>>
  PROVE  /\ Front(q) \in Seq(S)
         /\ Len(q) \in Nat \ {0}
         /\ Len(q) \in 1..Len(q)
         /\ Last(q) = q[Len(q)] /\ Last(q) \in S
         /\ Len(Front(q)) = Len(q) - 1
         /\ \A i \in 1..Len(Front(q)) : i \in 1..Len(q) /\ i # Len(q) /\ Front(q)[i] = q[i]
         /\ \A i \in 1..Len(q) : i # Len(q) => i \in 1..Len(Front(q))
<1>1. Len(q) \in Nat \ {0}
  BY EmptySeq, LenProperties
<1>2. Last(q) = q[Len(q)] /\ q[Len(q)] \in S
  BY <1>1, ElementOfSeq DEF Last
<1> DEFINE n == Len(q) - 1
<1>3. /\ SubSeq(q, 1, n) \in Seq(S)
      /\ Len(SubSeq(q, 1, n)) = n
      /\ \A i \in 1..n : SubSeq(q, 1, n)[i] = q[i]
  <2>1. n \in Nat /\ n <= Len(q) /\ 1..n \subseteq 1..Len(q)
    BY <1>1
  <2> HIDE DEF n
  <2> QED
    BY <2>1
<1>4. Front(q) = SubSeq(q, 1, n)
  BY DEF Front
<1> QED
  BY <1>1, <1>2, <1>3, <1>4

(* Joining two lists.                                                      *)
LEMMA ConcatLaws ==
  ASSUME NEW S, NEW p \in Seq(S), NEW q \in Seq(S)
  PROVE  /\ p \o q \in Seq(S)
         /\ Len(p \o q) = Len(p) + Len(q)
         /\ \A i \in 1..Len(p) : i \in 1..Len(p \o q) /\ (p \o q)[i] = p[i]
         /\ \A i \in 1..Len(q) :
               i + Len(p) \in 1..Len(p \o q) /\ (p \o q)[i + Len(p)] = q[i]
         /\ \A i \in 1..Len(p \o q) :
               \/ i \in 1..Len(p) /\ (p \o q)[i] = p[i]
               \/ /\ i \notin 1..Len(p) /\ i - Len(p) \in 1..Len(q)
                  /\ (p \o q)[i] = q[i - Len(p)]
<1>1. Len(p) \in Nat /\ Len(q) \in Nat
  BY LenProperties
<1>2. /\ p \o q \in Seq(S)
      /\ Len(p \o q) = Len(p) + Len(q)
      /\ \A i \in 1..(Len(p) + Len(q)) :
            (p \o q)[i] = IF i <= Len(p) THEN p[i] ELSE q[i - Len(p)]
  BY ConcatProperties
<1> QED
  BY <1>1, <1>2

(* What is left in a queue whose head was taken, what is in one that was   *)
(* added to, and what is in two lists joined.                              *)
LEMMA TailHolds ==
  ASSUME NEW S, NEW q \in Seq(S), q # <<>>, NEW x, x # Head(q)
  PROVE  (\E i \in 1..Len(Tail(q)) : Tail(q)[i] = x) <=> (\E i \in 1..Len(q) : q[i] = x)
<1>1. ASSUME NEW i \in 1..Len(Tail(q)), Tail(q)[i] = x PROVE \E j \in 1..Len(q) : q[j] = x
  <2>1. i + 1 \in 1..Len(q) /\ q[i + 1] = x
    BY <1>1, TailLaws
  <2> QED
    BY <2>1
<1>2. ASSUME NEW i \in 1..Len(q), q[i] = x PROVE \E j \in 1..Len(Tail(q)) : Tail(q)[j] = x
  <2>1. i # 1
    BY <1>2, TailLaws
  <2>2. i - 1 \in 1..Len(Tail(q)) /\ Tail(q)[i - 1] = x
    BY <1>2, <2>1, TailLaws
  <2> QED
    BY <2>2
<1> QED
  BY <1>1, <1>2

(* The same of an element that is named.                                   *)
Member(x, q) == \E i \in 1..Len(q) : q[i] = x

LEMMA TailMember ==
  ASSUME NEW S, NEW q \in Seq(S), q # <<>>, NEW x, x # Head(q)
  PROVE  Member(x, Tail(q)) <=> Member(x, q)
  BY TailHolds DEF Member

LEMMA AppendHolds ==
  ASSUME NEW S, NEW q \in Seq(S), NEW e \in S, NEW x
  PROVE  (\E i \in 1..Len(Append(q, e)) : Append(q, e)[i] = x)
           <=> (x = e \/ \E i \in 1..Len(q) : q[i] = x)
<1> DEFINE a == Append(q, e)
           n == Len(q) + 1
<1>1. /\ Len(a) = n /\ n \in 1..n /\ a[n] = e
      /\ \A i \in 1..Len(q) : i \in 1..n /\ a[i] = q[i]
      /\ \A i \in 1..n : i # n => i \in 1..Len(q)
  BY AppendLaws
<1> HIDE DEF a, n
<1>2. (\E i \in 1..Len(a) : a[i] = x) <=> (x = e \/ \E i \in 1..Len(q) : q[i] = x)
  BY <1>1
<1> QED
  BY <1>2 DEF a

LEMMA ConcatHolds ==
  ASSUME NEW S, NEW p \in Seq(S), NEW q \in Seq(S)
  PROVE  Range(p \o q) = Range(p) \cup Range(q)
<1> DEFINE c == p \o q
<1>1. /\ \A i \in 1..Len(p) : i \in 1..Len(c) /\ c[i] = p[i]
      /\ \A i \in 1..Len(q) : i + Len(p) \in 1..Len(c) /\ c[i + Len(p)] = q[i]
      /\ \A i \in 1..Len(c) :
            \/ i \in 1..Len(p) /\ c[i] = p[i]
            \/ i \notin 1..Len(p) /\ i - Len(p) \in 1..Len(q) /\ c[i] = q[i - Len(p)]
      /\ c \in Seq(S)
  BY ConcatLaws
<1> HIDE DEF c
<1>2. ASSUME NEW x \in Range(c) PROVE x \in Range(p) \cup Range(q)
  <2>1. PICK i \in 1..Len(c) : c[i] = x
    BY <1>1, RangeLaws
  <2> QED
    BY <1>1, <2>1, RangeLaws
<1>3. ASSUME NEW x \in Range(p) PROVE x \in Range(c)
  <2>1. PICK i \in 1..Len(p) : p[i] = x
    BY RangeLaws
  <2> QED
    BY <1>1, <2>1, RangeLaws
<1>4. ASSUME NEW x \in Range(q) PROVE x \in Range(c)
  <2>1. PICK i \in 1..Len(q) : q[i] = x
    BY RangeLaws
  <2>2. i + Len(p) \in 1..Len(c) /\ c[i + Len(p)] = x
    BY <1>1, <2>1
  <2> QED
    BY <1>1, <2>2, RangeLaws
<1> QED
  BY <1>2, <1>3, <1>4 DEF c

(* Two lists without repetition that share nothing, joined.                *)
LEMMA ConcatDistinct ==
  ASSUME NEW S, NEW p \in Seq(S), NEW q \in Seq(S),
         \A i, j \in 1..Len(p) : p[i] = p[j] => i = j,
         \A i, j \in 1..Len(q) : q[i] = q[j] => i = j,
         \A i \in 1..Len(p), j \in 1..Len(q) : p[i] # q[j]
  PROVE  \A i, j \in 1..Len(p \o q) : (p \o q)[i] = (p \o q)[j] => i = j
<1> DEFINE c == p \o q
           m == Len(p)
<1>1. \A i \in 1..Len(c) :
         \/ i \in 1..m /\ c[i] = p[i]
         \/ i \notin 1..m /\ i - m \in 1..Len(q) /\ c[i] = q[i - m]
  BY ConcatLaws
<1>2. m \in Nat /\ Len(c) \in Nat
  BY ConcatProperties, LenProperties
<1> HIDE DEF c
<1> SUFFICES ASSUME NEW i \in 1..Len(c), NEW j \in 1..Len(c), c[i] = c[j] PROVE i = j
  BY DEF c
<1>3. CASE i \in 1..m /\ j \in 1..m
  BY <1>1, <1>3
<1>4. CASE i \notin 1..m /\ j \notin 1..m
  <2>1. i - m \in 1..Len(q) /\ j - m \in 1..Len(q) /\ q[i - m] = q[j - m]
    BY <1>1, <1>4
  <2>2. i - m = j - m
    BY <2>1
  <2> QED
    BY <1>2, <2>2
<1>5. CASE i \in 1..m /\ j \notin 1..m
  BY <1>1, <1>5
<1>6. CASE i \notin 1..m /\ j \in 1..m
  BY <1>1, <1>6
<1> QED
  BY <1>3, <1>4, <1>5, <1>6

(* Every listing of a finite set holds each of its elements, once.         *)
LEMMA ListingLaws ==
  ASSUME NEW S, IsFiniteSet(S), NEW s \in SetToSeqs(S)
  PROVE  /\ s \in Seq(S)
         /\ Len(s) \in Nat
         /\ \A i, j \in 1..Len(s) : s[i] = s[j] => i = j
         /\ \A c \in S : \E i \in 1..Len(s) : s[i] = c
<1> DEFINE n == Cardinality(S)
<1>1. n \in Nat
  BY FS_CardinalityType
<1>2. s \in [1..n -> S] /\ \A i, j \in 1..n : i # j => s[i] # s[j]
  BY DEF SetToSeqs
<1>3. s \in Seq(S) /\ Len(s) = n
  BY <1>1, <1>2
<1>4. s \in Injection(1..n, S)
  BY <1>2 DEF Injection, IsInjective
<1>5. Cardinality(1..n) = n
  BY <1>1, FS_Interval
<1>6. s \in Surjection(1..n, S)
  BY <1>4, <1>5, FS_Injection
<1>7. \A c \in S : \E i \in 1..n : s[i] = c
  BY <1>6 DEF Surjection
<1> QED
  BY <1>1, <1>2, <1>3, <1>7

-----------------------------------------------------------------------------
LEMMA InitTypeOK == Init => TypeOK
<1> SUFFICES ASSUME NEW c \in Co,
                    HubInit(<<[op |-> "resume", co |-> c, task |-> 1]>>),
                    costate = [d \in Co |-> IF d = c THEN "spawned" ELSE "none"],
                    pool = <<>>,
                    task = [d \in Co |-> IF d = c THEN 1 ELSE 0],
                    tasks = 1, kills = 0, depth = [d \in Co |-> 0]
             PROVE  TypeOK
  BY DEF Init
<1>1. HubTypeOK
  BY MaxWaitsAssumption DEF HubInit, HubTypeOK
<1>2. callbacks \in Seq(Record)
  BY LeventAssumption DEF HubInit, Record
<1> QED
  BY <1>1, <1>2, LeventAssumption DEF TypeOK, HubInit

(* The callback at the head of the queue names a coroutine.                *)
LEMMA HeadCallback ==
  ASSUME TypeOK, NEW op, CallbackIs(op)
  PROVE  /\ callbacks \in Seq(Record) /\ callbacks # <<>>
         /\ 1 \in 1..Len(callbacks)
         /\ callbacks[1].op = op
         /\ Head(callbacks) = callbacks[1]
         /\ Head(callbacks).co \in Co
         /\ cur = NoCo
         /\ phase = "prepare"
<1>1. callbacks \in Seq(Record) /\ callbacks # <<>> /\ Head(callbacks).op = op
  BY DEF CallbackIs, TypeOK
<1>2. Head(callbacks) = callbacks[1] /\ Head(callbacks) \in Record /\ 1 \in 1..Len(callbacks)
  BY <1>1, TailLaws
<1>3. Head(callbacks).co \in Co
  BY <1>2 DEF Record
<1> QED
  BY <1>1, <1>2, <1>3 DEF CallbackIs, HubIdle

(* Waiter:_switch keeps the types of the hub's variables.                  *)
LEMMA SwitchTypeOK ==
  ASSUME TypeOK, NEW w \in Waiter, NEW e \in {"nil", "error"}, _switch(w, e), phase' = phase
  PROVE  HubTypeOK'
<1>1. w[1] \in Co
  BY DEF Waiter
<1> QED
  BY <1>1, MaxWaitsAssumption DEF _switch, ClearWaiter, TypeOK, HubTypeOK

(* The Waiter Hub:throw finds in Hub.waiters is one that was created.      *)
LEMMA ParkedOnWaiter ==
  ASSUME TypeOK, NEW c \in Co, CanThrow(c)
  PROVE  ParkedOn(c) \in Waiter
  BY MaxWaitsAssumption DEF CanThrow, ParkedOn, Waiter, TypeOK, HubTypeOK

(* Hub:throw keeps all types.                                              *)
LEMMA ThrowTypeOK ==
  ASSUME TypeOK, NEW c \in Co, CanThrow(c), NEW d \in 0..depth[c], throw(c, d),
         phase' = phase, pending' \subseteq pending
  PROVE  /\ HubTypeOK'
         /\ depth' \in [Co -> 0..MaxDepth]
         /\ active' \cup pending' \subseteq Timers
<1>1. HubTypeOK'
  BY ParkedOnWaiter, SwitchTypeOK DEF throw
<1>2. depth' \in [Co -> 0..MaxDepth]
  BY LeventAssumption DEF throw, TypeOK
<1>3. active' \cup pending' \subseteq Timers
  BY DEF throw, TypeOK
<1> QED
  BY <1>1, <1>2, <1>3

LEMMA StepTypeOK == TypeOK /\ HasTask /\ [Next]_vars => TypeOK'
<1> SUFFICES ASSUME TypeOK, HasTask, [Next]_vars PROVE TypeOK'
  OBVIOUS
<1> USE LeventAssumption, MaxWaitsAssumption
<1>1. ASSUME NEW c \in Co, spawn(c) PROVE TypeOK'
  <2>1. [op |-> "resume", co |-> c, task |-> tasks + 1] \in Record
    BY <1>1 DEF spawn, TypeOK, Record
  <2>2. callbacks' \in Seq(Record)
    BY <1>1, <2>1, AppendLaws DEF spawn, run_callback, TypeOK
  <2>3. pool' \in Seq(Co)
    BY <1>1, FrontLaws DEF spawn, co_create, TypeOK
  <2>4. HubTypeOK'
    BY <1>1 DEF spawn, loopState, TypeOK, HubTypeOK
  <2> QED
    BY <1>1, <2>2, <2>3, <2>4 DEF spawn, loopState, TypeOK
<1>2. ASSUME NEW c \in Co, kill(c) PROVE TypeOK'
  <2>1. [op |-> "throw", co |-> c, task |-> task[c]] \in Record
    BY <1>2 DEF kill, HasTask, TypeOK, Record
  <2>2. callbacks' \in Seq(Record)
    BY <1>2, <2>1, AppendLaws DEF kill, run_callback, TypeOK
  <2>3. HubTypeOK'
    BY <1>2 DEF kill, loopState, TypeOK, HubTypeOK
  <2> QED
    BY <1>2, <2>2, <2>3 DEF kill, loopState, TypeOK
<1>3. ASSUME NEW c \in Co, timeout_run(c) PROVE TypeOK'
  <2>1. HubTypeOK'
    BY <1>3 DEF timeout_run, TypeOK, HubTypeOK
  <2>2. depth[c] + 1 \in 1..MaxDepth
    BY <1>3 DEF timeout_run, TypeOK
  <2>3. TimeoutTimer(c, depth[c] + 1) \in Timers
    BY <2>2 DEF Timers
  <2>4. active' \cup pending' \subseteq Timers
    BY <1>3, <2>3 DEF timeout_run, TypeOK
  <2>5. depth' \in [Co -> 0..MaxDepth]
    BY <1>3, <2>2 DEF timeout_run, TypeOK
  <2> QED
    BY <1>3, <2>1, <2>4, <2>5 DEF timeout_run, TypeOK
<1>4. ASSUME NEW c \in Co, timeout_return(c) PROVE TypeOK'
  <2>1. HubTypeOK'
    BY <1>4 DEF timeout_return, TypeOK, HubTypeOK
  <2>2. depth' \in [Co -> 0..MaxDepth]
    BY <1>4 DEF timeout_return, TypeOK
  <2> QED
    BY <1>4, <2>1, <2>2 DEF timeout_return, TypeOK
<1>5. ASSUME NEW c \in Co, sleep(c) PROVE TypeOK'
  <2>1. HubTypeOK'
    BY <1>5 DEF sleep, park, TypeOK, HubTypeOK
  <2>2. SleepTimer(waiter(c)) \in Timers
    BY <1>5 DEF sleep, park, waiter, Waiter, Timers, TypeOK, HubTypeOK
  <2> QED
    BY <1>5, <2>1, <2>2 DEF sleep, levVars, TypeOK
<1>6. ASSUME NEW c \in Co, Finish(c) PROVE TypeOK'
  <2>1. HubTypeOK'
    BY <1>6 DEF Finish, loopState, TypeOK, HubTypeOK
  <2> QED
    BY <1>6, <2>1, AppendLaws DEF Finish, loopState, TypeOK
<1>7. ASSUME NEW c \in Co, Fail(c) PROVE TypeOK'
  <2>1. HubTypeOK'
    BY <1>7 DEF Fail, TypeOK, HubTypeOK
  <2> QED
    BY <1>7, <2>1 DEF Fail, TypeOK
<1>8. ASSUME NEW count \in 1..Cardinality(Co), check_coroutine(count) PROVE TypeOK'
  <2>1. PICK new \in {S \in SUBSET Co : \A c \in S : costate[c] = "none"} :
           /\ costate' = [c \in Co |-> IF c \in new THEN "pooled" ELSE costate[c]]
           /\ \E s \in SetToSeqs(new) : pool' = pool \o s
    BY <1>8 DEF check_coroutine
  <2>2. PICK s \in SetToSeqs(new) : pool' = pool \o s
    BY <2>1
  <2>3. s \in Seq(Co)
    <3>1. IsFiniteSet(new)
      BY CoAssumption, FS_Subset
    <3> QED
      BY <3>1, ListingLaws
  <2>4. pool' \in Seq(Co)
    BY <2>2, <2>3, ConcatProperties DEF TypeOK
  <2>5. HubTypeOK'
    BY <1>8 DEF check_coroutine, hubVars, TypeOK, HubTypeOK
  <2> QED
    BY <1>8, <2>1, <2>4, <2>5 DEF check_coroutine, hubVars, TypeOK
<1>9. CASE RunTask
  <2>1. Head(callbacks) \in Record /\ callbacks' \in Seq(Record)
    BY <1>9, TailLaws DEF RunTask, CallbackIs, DropCallback, TypeOK
  <2>2. Head(callbacks).co \in Co
    BY <2>1 DEF Record
  <2>3. HubTypeOK'
    BY <1>9, <2>2 DEF RunTask, loopState, TypeOK, HubTypeOK
  <2> QED
    BY <1>9, <2>1, <2>3 DEF RunTask, loopState, TypeOK
<1>10. CASE RunKill
  <2> DEFINE c == Head(callbacks).co
  <2>1. Head(callbacks) \in Record /\ callbacks' \in Seq(Record)
    BY <1>10, TailLaws DEF RunKill, CallbackIs, DropCallback, TypeOK
  <2>2. c \in Co
    BY <2>1 DEF Record
  <2>3. /\ HubTypeOK'
        /\ depth' \in [Co -> 0..MaxDepth]
        /\ active' \cup pending' \subseteq Timers
    <3>1. CASE CanThrow(c)
      <4>1. PICK d \in 0..depth[c] : throw(c, d) /\ pending' = pending \ Unwound(c, d)
        BY <1>10, <3>1 DEF RunKill
      <4> QED
        BY <1>10, <2>2, <3>1, <4>1, ThrowTypeOK DEF RunKill
    <3>2. CASE ~CanThrow(c)
      BY <1>10, <3>2 DEF RunKill, TypeOK, HubTypeOK
    <3> QED
      BY <3>1, <3>2
  <2> QED
    BY <1>10, <2>1, <2>3 DEF RunKill, TypeOK
<1>11. ASSUME NEW w \in Waiter, SleepOver(w) PROVE TypeOK'
  <2>1. HubTypeOK'
    BY <1>11, SwitchTypeOK DEF SleepOver
  <2> QED
    BY <1>11, <2>1 DEF SleepOver, levVars, TypeOK
<1>12. ASSUME NEW c \in Co, NEW k \in 1..MaxDepth, TimeoutOver(c, k) PROVE TypeOK'
  <2>1. /\ HubTypeOK'
        /\ depth' \in [Co -> 0..MaxDepth]
        /\ active' \cup pending' \subseteq Timers
    <3>1. CASE CanThrow(c)
      <4>1. PICK d \in (k - 1)..depth[c] :
                /\ throw(c, d)
                /\ pending' = pending \ (Unwound(c, d) \cup {TimeoutTimer(c, k)})
        BY <1>12, <3>1 DEF TimeoutOver
      <4>2. d \in 0..depth[c]
        BY DEF TypeOK
      <4> QED
        BY <1>12, <3>1, <4>1, <4>2, ThrowTypeOK DEF TimeoutOver
    <3>2. CASE ~CanThrow(c)
      BY <1>12, <3>2 DEF TimeoutOver, TypeOK, HubTypeOK
    <3> QED
      BY <3>1, <3>2
  <2> QED
    BY <1>12, <2>1 DEF TimeoutOver, TypeOK
<1>13. CASE LoopStep
  <2>1. HubTypeOK'
    BY <1>13 DEF LoopStep, Poll, NextRound, LoopReturns, TypeOK, HubTypeOK
  <2>2. /\ callbacks' \in Seq(Record)
        /\ frame' = "none"
        /\ active' \cup pending' \subseteq Timers
    BY <1>13 DEF LoopStep, Poll, NextRound, LoopReturns, TypeOK
  <2> QED
    BY <1>13, <2>1, <2>2 DEF LoopStep, levVars, TypeOK
<1>14. CASE UNCHANGED vars
  BY <1>14 DEF vars, hubVars, levVars, TypeOK, HubTypeOK
<1> QED
  BY <1>1, <1>2, <1>3, <1>4, <1>5, <1>6, <1>7, <1>8, <1>9, <1>10, <1>11,
     <1>12, <1>13, <1>14 DEF Next, TaskStep, Yields, HubStep, Exited
-----------------------------------------------------------------------------
(* Coroutines stay parked where they are while the hub's tables and the    *)
(* set of started tasks do not change.                                     *)
LEMMA SameParked ==
  ASSUME ParkedOnce, FreshWaiters, UNCHANGED <<cur, waiters, created, exception>>,
         \A c \in Co : costate'[c] = "alive" <=> costate[c] = "alive"
  PROVE  ParkedOnce' /\ FreshWaiters'
  BY DEF ParkedOnce, FreshWaiters, ParkedOn, Unresolved

(* Waiter:_switch resumes the one coroutine parked on the Waiter.          *)
LEMMA SwitchParked ==
  ASSUME TypeOK, ParkedOnce, FreshWaiters, cur = NoCo, UNCHANGED costate,
         NEW w \in Waiter, NEW e, _switch(w, e)
  PROVE  ParkedOnce' /\ FreshWaiters'
<1>1. w[1] \in Co /\ w[2] \in 1..MaxWaits /\ w = <<w[1], w[2]>>
  BY DEF Waiter
<1>2. waiters' = [waiters EXCEPT ![w[1]] = 0] /\ cur' = w[1] /\ created' = created
  BY DEF _switch, ClearWaiter
<1>3. costate[w[1]] = "alive" /\ waiters[w[1]] = w[2] /\ w[2] = created[w[1]]
  BY <1>1, MaxWaitsAssumption DEF _switch, ParkedOnce
<1>4. ASSUME NEW v \in Waiter, v # w PROVE exception'[v] = exception[v]
  BY <1>4 DEF _switch, TypeOK, HubTypeOK
<1>5. FreshWaiters'
  <2> SUFFICES ASSUME NEW v \in Waiter, v[2] > created[v[1]] PROVE exception'[v] = "false"
    BY <1>2 DEF FreshWaiters, Unresolved
  <2>1. v # w
    BY <1>1, <1>3
  <2> QED
    BY <1>4, <2>1 DEF FreshWaiters, Unresolved
<1>6. ASSUME NEW c \in Co, c # w[1], waiters'[c] # 0
      PROVE  waiters'[c] = created'[c] /\ exception'[<<c, waiters'[c]>>] = "false"
  <2>1. waiters'[c] = waiters[c]
    BY <1>1, <1>2, <1>6 DEF TypeOK, HubTypeOK
  <2>2. <<c, waiters[c]>> \in Waiter /\ <<c, waiters[c]>> # w
    BY <1>1, <1>6, <2>1, MaxWaitsAssumption DEF Waiter, TypeOK, HubTypeOK
  <2> QED
    BY <1>2, <1>4, <1>6, <2>1, <2>2 DEF ParkedOnce, ParkedOn, Unresolved
<1>7. ASSUME NEW c \in Co PROVE (costate'[c] = "alive" /\ cur' # c) <=> waiters'[c] # 0
  BY <1>1, <1>2, <1>3, CoAssumption DEF ParkedOnce, TypeOK, HubTypeOK
<1>8. waiters'[w[1]] = 0
  BY <1>1, <1>2 DEF TypeOK, HubTypeOK
<1>9. ParkedOnce'
  BY <1>2, <1>3, <1>6, <1>7, <1>8 DEF ParkedOnce, ParkedOn, Unresolved
<1> QED
  BY <1>5, <1>9

(* co_create hands out a coroutine that no task is on.                     *)
LEMMA SpawnsIdle ==
  ASSUME TypeOK, PoolSound, NEW c \in Co, co_create(c)
  PROVE  costate[c] \in {"none", "pooled"}
<1>1. CASE pool = <<>>
  BY <1>1 DEF co_create
<1>2. CASE pool # <<>>
  <2>1. c = pool[Len(pool)] /\ Len(pool) \in 1..Len(pool)
    BY <1>2, FrontLaws DEF co_create, TypeOK
  <2> QED
    BY <2>1 DEF PoolSound
<1> QED
  BY <1>1, <1>2

LEMMA StepParked == LeventInv /\ [Next]_vars => ParkedOnce' /\ FreshWaiters'
<1> SUFFICES ASSUME LeventInv, [Next]_vars PROVE ParkedOnce' /\ FreshWaiters'
  OBVIOUS
<1> USE DEF LeventInv
<1>1. ASSUME NEW c \in Co, spawn(c) PROVE ParkedOnce' /\ FreshWaiters'
  <2>1. costate[c] # "alive"
    BY <1>1, SpawnsIdle DEF spawn
  <2>2. \A d \in Co : costate'[d] = "alive" <=> costate[d] = "alive"
    BY <1>1, <2>1 DEF spawn, TypeOK
  <2> QED
    BY <1>1, <2>2, SameParked DEF spawn
<1>2. ASSUME NEW c \in Co, kill(c) PROVE ParkedOnce' /\ FreshWaiters'
  BY <1>2, SameParked DEF kill
<1>3. ASSUME NEW c \in Co, timeout_run(c) PROVE ParkedOnce' /\ FreshWaiters'
  BY <1>3, SameParked DEF timeout_run
<1>4. ASSUME NEW c \in Co, timeout_return(c) PROVE ParkedOnce' /\ FreshWaiters'
  BY <1>4, SameParked DEF timeout_return
<1>5. ASSUME NEW c \in Co, sleep(c) PROVE ParkedOnce' /\ FreshWaiters'
  <2>1. /\ cur = c /\ cur' = NoCo /\ UNCHANGED <<exception, costate>>
        /\ created' = [created EXCEPT ![c] = @ + 1]
        /\ waiters' = [waiters EXCEPT ![c] = created[c] + 1]
        /\ created[c] < MaxWaits
    BY <1>5 DEF sleep, park, levVars
  <2>2. created[c] + 1 \in 1..MaxWaits
    BY <2>1, MaxWaitsAssumption DEF TypeOK, HubTypeOK
  <2>3. <<c, created[c] + 1>> \in Waiter
    BY <2>2 DEF Waiter
  <2>4. Unresolved(<<c, created[c] + 1>>)
    BY <2>2, <2>3 DEF FreshWaiters, TypeOK, HubTypeOK
  <2>5. FreshWaiters'
    <3> SUFFICES ASSUME NEW v \in Waiter, v[2] > created'[v[1]] PROVE exception[v] = "false"
      BY <2>1 DEF FreshWaiters, Unresolved
    <3>1. v[2] > created[v[1]]
      BY <2>1 DEF Waiter, TypeOK, HubTypeOK
    <3> QED
      BY <3>1 DEF FreshWaiters, Unresolved
  <2>6. ParkedOnce'
    <3> SUFFICES ASSUME NEW d \in Co
                 PROVE  /\ (costate[d] = "alive" /\ NoCo # d) <=> waiters'[d] # 0
                        /\ waiters'[d] # 0 =>
                             waiters'[d] = created'[d] /\ exception[<<d, waiters'[d]>>] = "false"
                        /\ NoCo # d
      BY <2>1 DEF ParkedOnce, ParkedOn, Unresolved
    <3>1. CASE d = c
      BY <2>1, <2>2, <2>4, <3>1, CoAssumption DEF ParkedOnce, Unresolved, TypeOK, HubTypeOK
    <3>2. CASE d # c
      BY <2>1, <3>2, CoAssumption DEF ParkedOnce, ParkedOn, Unresolved, TypeOK, HubTypeOK
    <3> QED
      BY <3>1, <3>2
  <2> QED
    BY <2>5, <2>6
<1>6. ASSUME NEW c \in Co, Finish(c) \/ Fail(c) PROVE ParkedOnce' /\ FreshWaiters'
  <2>1. /\ cur = c /\ cur' = NoCo /\ UNCHANGED <<waiters, created, exception>>
        /\ costate'[c] # "alive"
        /\ \A d \in Co : d # c => costate'[d] = costate[d]
    BY <1>6 DEF Finish, Fail, TypeOK
  <2>2. NoCo \notin Co
    BY CoAssumption
  <2> QED
    BY <2>1, <2>2 DEF ParkedOnce, FreshWaiters, ParkedOn, Unresolved
<1>7. ASSUME NEW count \in 1..Cardinality(Co), check_coroutine(count)
      PROVE  ParkedOnce' /\ FreshWaiters'
  <2>1. \A c \in Co : costate'[c] = "alive" <=> costate[c] = "alive"
    BY <1>7 DEF check_coroutine
  <2> QED
    BY <1>7, <2>1, SameParked DEF check_coroutine, hubVars
<1>8. CASE RunTask
  <2> DEFINE c == Head(callbacks).co
  <2>1. c \in Co /\ costate[c] = "spawned"
    BY <1>8, HeadCallback DEF RunTask, ResumesSpawned
  <2>2. /\ cur = NoCo /\ cur' = c /\ UNCHANGED <<waiters, created, exception>>
        /\ costate'[c] = "alive"
        /\ \A d \in Co : d # c => costate'[d] = costate[d]
    BY <1>8, <2>1 DEF RunTask, CallbackIs, HubIdle, TypeOK
  <2>3. NoCo \notin Co
    BY CoAssumption
  <2> HIDE DEF c
  <2> QED
    BY <2>1, <2>2, <2>3 DEF ParkedOnce, FreshWaiters, ParkedOn, Unresolved
<1>9. CASE RunKill
  <2> DEFINE c == Head(callbacks).co
  <2>1. c \in Co
    BY <1>9, HeadCallback DEF RunKill
  <2>2. CASE CanThrow(c)
    <3>1. _switch(ParkedOn(c), "error") /\ cur = NoCo /\ UNCHANGED costate
      BY <1>9, <2>2 DEF RunKill, CallbackIs, HubIdle, throw
    <3> QED
      BY <2>1, <2>2, <3>1, ParkedOnWaiter, SwitchParked
  <2>3. CASE ~CanThrow(c)
    BY <1>9, <2>3, SameParked DEF RunKill
  <2> QED
    BY <2>2, <2>3
<1>10. ASSUME NEW w \in Waiter, SleepOver(w) PROVE ParkedOnce' /\ FreshWaiters'
  BY <1>10, SwitchParked DEF SleepOver, InvokedIs, HubIdle, levVars
<1>11. ASSUME NEW c \in Co, NEW k \in 1..MaxDepth, TimeoutOver(c, k)
       PROVE  ParkedOnce' /\ FreshWaiters'
  <2>1. CASE CanThrow(c)
    <3>1. _switch(ParkedOn(c), "error") /\ cur = NoCo /\ UNCHANGED costate
      BY <1>11, <2>1 DEF TimeoutOver, InvokedIs, HubIdle, throw
    <3> QED
      BY <2>1, <3>1, ParkedOnWaiter, SwitchParked
  <2>2. CASE ~CanThrow(c)
    BY <1>11, <2>2, SameParked DEF TimeoutOver
  <2> QED
    BY <2>1, <2>2
<1>12. CASE LoopStep
  BY <1>12, SameParked DEF LoopStep, Poll, NextRound, LoopReturns, levVars
<1>13. CASE UNCHANGED vars
  BY <1>13, SameParked DEF vars, hubVars, levVars
<1> QED
  BY <1>1, <1>2, <1>3, <1>4, <1>5, <1>6, <1>7, <1>8, <1>9, <1>10, <1>11,
     <1>12, <1>13 DEF Next, TaskStep, Yields, HubStep, Exited
-----------------------------------------------------------------------------
(* Which timers are stopped when c unwinds to nesting d.                   *)
LEMMA WhatUnwinds ==
  ASSUME NEW c \in Co, NEW d \in Nat
  PROVE  /\ \A w \in Waiter : SleepTimer(w) \in Unwound(c, d) <=>
               w[1] = c /\ SleepTimer(w) \in active \cup pending
         /\ \A b \in Co, k \in 1..MaxDepth : TimeoutTimer(b, k) \in Unwound(c, d) <=>
               b = c /\ k > d /\ TimeoutTimer(b, k) \in active \cup pending
  BY DEF Unwound, TimersOf, SleepTimer, TimeoutTimer

(* Two timers are different unless they are of one kind and have one owner *)
(* and number.                                                             *)
LEMMA TimersDiffer ==
  /\ \A v, w \in Waiter : SleepTimer(v) = SleepTimer(w) => v = w
  /\ \A w \in Waiter, c \in Co, k \in 1..MaxDepth : SleepTimer(w) # TimeoutTimer(c, k)
  /\ \A b, c \in Co, j, k \in 1..MaxDepth :
        TimeoutTimer(b, j) = TimeoutTimer(c, k) => b = c /\ j = k
  BY DEF SleepTimer, TimeoutTimer, Waiter

(* Timers stay in scope while no coroutine parks or runs on.               *)
LEMMA SameTimers ==
  ASSUME TimersInScope, RoundInv, UNCHANGED <<waiters, active, pending, phase, depth>>,
         \A c \in Co : costate[c] = "alive" => costate'[c] = "alive"
  PROVE  TimersInScope' /\ RoundInv'
  BY DEF TimersInScope, RoundInv

(* Unwinding c to nesting d, without or with Waiter:_switch, leaves no     *)
(* timer of c out of scope; the Timeout that was thrown may go too.        *)
LEMMA UnwindTimers ==
  ASSUME TypeOK, TimersInScope, RoundInv, NEW c \in Co, NEW d \in 0..depth[c],
         waiters' = [waiters EXCEPT ![c] = 0],
         depth' = [depth EXCEPT ![c] = d],
         \A b \in Co : b # c => costate'[b] = costate[b],
         d = 0 \/ costate'[c] = costate[c],
         active' = active \ Unwound(c, d),
         pending' \subseteq pending \ Unwound(c, d),
         \A w \in Waiter : SleepTimer(w) \in pending \ Unwound(c, d) => SleepTimer(w) \in pending',
         phase' = phase
  PROVE  TimersInScope' /\ RoundInv'
<1>1. d \in Nat /\ depth'[c] = d /\ \A b \in Co : b # c => depth'[b] = depth[b]
  BY LeventAssumption DEF TypeOK
<1>2. waiters'[c] = 0 /\ \A b \in Co : b # c => waiters'[b] = waiters[b]
  BY DEF TypeOK, HubTypeOK
<1>3. ASSUME NEW w \in Waiter
      PROVE  SleepTimer(w) \in active' \cup pending' <=> waiters'[w[1]] = w[2]
  <2>1. w[1] \in Co /\ w[2] \in 1..MaxWaits
    BY DEF Waiter
  <2>2. CASE w[1] = c
    BY <1>1, <1>2, <2>1, <2>2, WhatUnwinds, MaxWaitsAssumption
  <2>3. CASE w[1] # c
    BY <1>1, <1>2, <2>1, <2>3, WhatUnwinds DEF TimersInScope
  <2> QED
    BY <2>2, <2>3
<1>4. ASSUME NEW b \in Co, NEW k \in 1..MaxDepth,
             TimeoutTimer(b, k) \in active' \cup pending'
      PROVE  costate'[b] = "alive" /\ k <= depth'[b]
  <2>1. TimeoutTimer(b, k) \in active \cup pending /\ ~(b = c /\ k > d)
    BY <1>1, <1>4, WhatUnwinds
  <2>2. costate[b] = "alive" /\ k <= depth[b]
    BY <2>1 DEF TimersInScope
  <2> QED
    BY <1>1, <2>1, <2>2
<1>5. TimersInScope'
  BY <1>3, <1>4 DEF TimersInScope
<1>6. RoundInv'
  BY DEF RoundInv
<1> QED
  BY <1>5, <1>6

LEMMA StepTimers == LeventInv /\ [Next]_vars => TimersInScope' /\ RoundInv'
<1> SUFFICES ASSUME LeventInv, [Next]_vars PROVE TimersInScope' /\ RoundInv'
  OBVIOUS
<1> USE DEF LeventInv
<1>1. ASSUME NEW c \in Co, spawn(c) PROVE TimersInScope' /\ RoundInv'
  <2>1. costate[c] # "alive"
    BY <1>1, SpawnsIdle DEF spawn
  <2>2. \A d \in Co : costate[d] = "alive" => costate'[d] = "alive"
    BY <1>1, <2>1 DEF spawn, TypeOK
  <2> QED
    BY <1>1, <2>2, SameTimers DEF spawn, loopState
<1>2. ASSUME NEW c \in Co, kill(c) PROVE TimersInScope' /\ RoundInv'
  BY <1>2, SameTimers DEF kill, loopState
<1>3. ASSUME NEW c \in Co, timeout_run(c) PROVE TimersInScope' /\ RoundInv'
  <2> DEFINE t == TimeoutTimer(c, depth[c] + 1)
  <2>1. /\ active' = active \cup {t}
        /\ depth' = [depth EXCEPT ![c] = @ + 1]
        /\ UNCHANGED <<waiters, pending, phase, costate>>
        /\ costate[c] = "alive"
    BY <1>3 DEF timeout_run, ParkedOnce
  <2>2. depth[c] \in 0..MaxDepth /\ depth[c] + 1 \in 1..MaxDepth
    BY <1>3, LeventAssumption DEF timeout_run, TypeOK
  <2>3. depth'[c] = depth[c] + 1 /\ \A b \in Co : b # c => depth'[b] = depth[b]
    BY <2>1 DEF TypeOK
  <2>4. t \notin pending
    BY <2>2 DEF TimersInScope
  <2>5. \A w \in Waiter : SleepTimer(w) # t
    BY <2>2, TimersDiffer
  <2>6. \A b \in Co, k \in 1..MaxDepth : TimeoutTimer(b, k) = t => b = c /\ k = depth[c] + 1
    BY <2>2, TimersDiffer
  <2> HIDE DEF t
  <2>7. RoundInv'
    BY <2>1, <2>4 DEF RoundInv
  <2>8. \A b \in Co, k \in 1..MaxDepth :
          TimeoutTimer(b, k) \in active' \cup pending' => costate'[b] = "alive" /\ k <= depth'[b]
    <3> SUFFICES ASSUME NEW b \in Co, NEW k \in 1..MaxDepth,
                        TimeoutTimer(b, k) \in active' \cup pending'
                 PROVE  costate'[b] = "alive" /\ k <= depth'[b]
      OBVIOUS
    <3>1. CASE TimeoutTimer(b, k) = t
      BY <2>1, <2>2, <2>3, <2>6, <3>1
    <3>2. CASE TimeoutTimer(b, k) # t
      <4>1. costate[b] = "alive" /\ k <= depth[b] /\ depth[b] \in Nat
        BY <2>1, <3>2, LeventAssumption DEF TimersInScope, TypeOK
      <4> QED
        BY <2>1, <2>2, <2>3, <4>1
    <3> QED
      BY <3>1, <3>2
  <2>9. TimersInScope'
    BY <2>1, <2>5, <2>8 DEF TimersInScope
  <2> QED
    BY <2>7, <2>9
<1>4. ASSUME NEW c \in Co, timeout_return(c) PROVE TimersInScope' /\ RoundInv'
  <2>1. cur = c /\ depth[c] - 1 \in 0..depth[c] /\ depth[c] \in Nat
    BY <1>4, LeventAssumption DEF timeout_return, TypeOK
  <2>2. waiters[c] = 0
    BY <2>1 DEF ParkedOnce
  <2>3. waiters' = [waiters EXCEPT ![c] = 0]
    BY <1>4, <2>2 DEF timeout_return, TypeOK, HubTypeOK
  <2>4. /\ depth' = [depth EXCEPT ![c] = depth[c] - 1]
        /\ active' = active \ Unwound(c, depth[c] - 1)
        /\ pending' = pending \ Unwound(c, depth[c] - 1)
        /\ UNCHANGED <<costate, phase>>
    BY <1>4 DEF timeout_return
  <2> QED
    BY <2>1, <2>3, <2>4, UnwindTimers
<1>5. ASSUME NEW c \in Co, sleep(c) PROVE TimersInScope' /\ RoundInv'
  <2> DEFINE n == created[c] + 1
  <2>1. /\ cur = c
        /\ active' = active \cup {SleepTimer(<<c, n>>)}
        /\ waiters' = [waiters EXCEPT ![c] = n]
        /\ UNCHANGED <<pending, phase, costate, depth>>
    BY <1>5 DEF sleep, park, waiter, levVars
  <2>2. <<c, n>> \in Waiter /\ n \in 1..MaxWaits
    BY <1>5, MaxWaitsAssumption DEF sleep, park, Waiter, TypeOK, HubTypeOK
  <2>3. waiters'[c] = n /\ \A b \in Co : b # c => waiters'[b] = waiters[b]
    BY <2>1, <2>2 DEF TypeOK, HubTypeOK
  <2>4. \A w \in Waiter : w[1] = c => SleepTimer(w) \notin active \cup pending
    BY <2>1, MaxWaitsAssumption DEF TimersInScope, ParkedOnce, Waiter
  <2>5. \A w \in Waiter : SleepTimer(w) = SleepTimer(<<c, n>>) => w = <<c, n>>
    BY <2>2, TimersDiffer
  <2>6. \A w \in Waiter : w[1] = c /\ w[2] = n => w = <<c, n>>
    BY DEF Waiter
  <2>7. \A b \in Co, k \in 1..MaxDepth : TimeoutTimer(b, k) # SleepTimer(<<c, n>>)
    BY <2>2, TimersDiffer
  <2>8. \A w \in Waiter : w[1] \in Co /\ w[2] \in 1..MaxWaits
    BY DEF Waiter
  <2> HIDE DEF n
  <2>9. SleepTimer(<<c, n>>) \notin active \cup pending
    BY <2>2, <2>4
  <2>10. RoundInv'
    BY <2>1, <2>9 DEF RoundInv
  <2>11. ASSUME NEW w \in Waiter
         PROVE  SleepTimer(w) \in active' \cup pending' <=> waiters'[w[1]] = w[2]
    <3>1. CASE w[1] = c
      BY <2>1, <2>3, <2>4, <2>5, <2>6, <3>1
    <3>2. CASE w[1] # c
      <4>1. SleepTimer(w) \in active' \cup pending' <=> SleepTimer(w) \in active \cup pending
        BY <2>1, <2>5, <3>2
      <4> QED
        BY <2>3, <2>8, <3>2, <4>1 DEF TimersInScope
    <3> QED
      BY <3>1, <3>2
  <2>12. TimersInScope'
    BY <2>1, <2>7, <2>11 DEF TimersInScope
  <2> QED
    BY <2>10, <2>12
<1>6. ASSUME NEW c \in Co, Finish(c) PROVE TimersInScope' /\ RoundInv'
  <2>1. /\ UNCHANGED <<waiters, active, pending, phase, depth>>
        /\ depth[c] = 0
        /\ \A d \in Co : d # c => costate'[d] = costate[d]
    BY <1>6 DEF Finish, loopState, TypeOK
  <2>2. \A k \in 1..MaxDepth : ~(k <= 0)
    BY LeventAssumption
  <2> QED
    BY <2>1, <2>2 DEF TimersInScope, RoundInv
<1>7. ASSUME NEW c \in Co, Fail(c) PROVE TimersInScope' /\ RoundInv'
  <2>1. cur = c /\ 0 \in 0..depth[c]
    BY <1>7, LeventAssumption DEF Fail, TypeOK
  <2>2. waiters[c] = 0
    BY <2>1 DEF ParkedOnce
  <2>3. waiters' = [waiters EXCEPT ![c] = 0]
    BY <1>7, <2>2 DEF Fail, TypeOK, HubTypeOK
  <2>4. /\ depth' = [depth EXCEPT ![c] = 0]
        /\ active' = active \ Unwound(c, 0)
        /\ pending' = pending \ Unwound(c, 0)
        /\ UNCHANGED phase
        /\ \A d \in Co : d # c => costate'[d] = costate[d]
    BY <1>7 DEF Fail, TypeOK
  <2> QED
    BY <2>1, <2>3, <2>4, UnwindTimers
<1>8. ASSUME NEW count \in 1..Cardinality(Co), check_coroutine(count)
      PROVE  TimersInScope' /\ RoundInv'
  <2>1. \A c \in Co : costate[c] = "alive" => costate'[c] = "alive"
    BY <1>8 DEF check_coroutine
  <2> QED
    BY <1>8, <2>1, SameTimers DEF check_coroutine, hubVars
<1>9. CASE RunTask
  <2>1. \A d \in Co : costate[d] = "alive" => costate'[d] = "alive"
    BY <1>9, HeadCallback DEF RunTask, TypeOK
  <2> QED
    BY <1>9, <2>1, SameTimers DEF RunTask, loopState
<1>10. CASE RunKill
  <2> DEFINE c == Head(callbacks).co
  <2>1. c \in Co
    BY <1>10, HeadCallback DEF RunKill
  <2>2. CASE CanThrow(c)
    <3>1. PICK d \in 0..depth[c] : throw(c, d) /\ pending' = pending \ Unwound(c, d)
      BY <1>10, <2>2 DEF RunKill
    <3>2. /\ waiters' = [waiters EXCEPT ![c] = 0]
          /\ depth' = [depth EXCEPT ![c] = d]
          /\ active' = active \ Unwound(c, d)
          /\ pending' = pending \ Unwound(c, d)
          /\ UNCHANGED <<costate, phase>>
      BY <1>10, <3>1 DEF RunKill, throw, _switch, ClearWaiter, ParkedOn
    <3> HIDE DEF c
    <3> QED
      BY <2>1, <3>2, UnwindTimers
  <2>3. CASE ~CanThrow(c)
    BY <1>10, <2>3, SameTimers DEF RunKill
  <2> QED
    BY <2>2, <2>3
<1>11. ASSUME NEW w \in Waiter, SleepOver(w) PROVE TimersInScope' /\ RoundInv'
  <2>1. /\ waiters[w[1]] = w[2]
        /\ waiters' = [waiters EXCEPT ![w[1]] = 0]
        /\ SleepTimer(w) \in pending /\ pending' = pending \ {SleepTimer(w)}
        /\ UNCHANGED <<active, phase, costate, depth>>
    BY <1>11 DEF SleepOver, InvokedIs, _switch, ClearWaiter, levVars
  <2>2. w[1] \in Co /\ w[2] \in 1..MaxWaits
    BY DEF Waiter
  <2>3. waiters'[w[1]] = 0 /\ \A b \in Co : b # w[1] => waiters'[b] = waiters[b]
    BY <2>1, <2>2 DEF TypeOK, HubTypeOK
  <2>4. SleepTimer(w) \notin active
    BY <2>1 DEF RoundInv
  <2>5. RoundInv'
    BY <2>1 DEF RoundInv
  <2>6. ASSUME NEW v \in Waiter
        PROVE  SleepTimer(v) \in active' \cup pending' <=> waiters'[v[1]] = v[2]
    <3>1. CASE v = w
      BY <2>1, <2>2, <2>3, <2>4, <3>1
    <3>2. CASE v # w
      <4>1. SleepTimer(v) \in active' \cup pending' <=> SleepTimer(v) \in active \cup pending
        BY <2>1, <3>2, TimersDiffer
      <4>2. v[1] \in Co /\ v[2] # 0 /\ (v[1] = w[1] => v[2] # w[2])
        BY <3>2 DEF Waiter
      <4> QED
        BY <2>1, <2>3, <4>1, <4>2 DEF TimersInScope
    <3> QED
      BY <3>1, <3>2
  <2>7. TimersInScope'
    BY <2>1, <2>6 DEF TimersInScope
  <2> QED
    BY <2>5, <2>7
<1>12. ASSUME NEW c \in Co, NEW k \in 1..MaxDepth, TimeoutOver(c, k)
       PROVE  TimersInScope' /\ RoundInv'
  <2>1. \A w \in Waiter : SleepTimer(w) \notin {TimeoutTimer(c, k)}
    BY TimersDiffer
  <2>2. CASE CanThrow(c)
    <3>1. PICK d \in (k - 1)..depth[c] :
             /\ throw(c, d)
             /\ pending' = pending \ (Unwound(c, d) \cup {TimeoutTimer(c, k)})
      BY <1>12, <2>2 DEF TimeoutOver
    <3>2. /\ waiters' = [waiters EXCEPT ![c] = 0]
          /\ depth' = [depth EXCEPT ![c] = d]
          /\ active' = active \ Unwound(c, d)
          /\ UNCHANGED <<costate, phase>>
      BY <1>12, <3>1 DEF TimeoutOver, throw, _switch, ClearWaiter, ParkedOn
    <3>3. d \in 0..depth[c]
      BY LeventAssumption DEF TypeOK
    <3>4. /\ pending' \subseteq pending \ Unwound(c, d)
          /\ \A w \in Waiter :
                SleepTimer(w) \in pending \ Unwound(c, d) => SleepTimer(w) \in pending'
      BY <2>1, <3>1
    <3> QED
      BY <3>2, <3>3, <3>4, UnwindTimers
  <2>3. CASE ~CanThrow(c)
    <3>1. /\ pending' = pending \ {TimeoutTimer(c, k)}
          /\ UNCHANGED <<waiters, active, phase, costate, depth>>
      BY <1>12, <2>3 DEF TimeoutOver
    <3> QED
      BY <2>1, <3>1 DEF TimersInScope, RoundInv
  <2> QED
    BY <2>2, <2>3
<1>13. CASE LoopStep
  <2>1. CASE Poll
    <3>1. PICK fired \in SUBSET active :
             /\ pending' = fired
             /\ active' = active \ {t \in fired : t[1] # "io"}
      BY <2>1 DEF Poll
    <3>2. \A t \in Timers : t[1] # "io"
      BY DEF Timers, SleepTimer, TimeoutTimer
    <3>3. active' = active \ fired
      BY <3>1, <3>2 DEF TypeOK
    <3>4. pending = {} /\ active' \cup pending' = active /\ active' \cap pending' = {}
      BY <2>1, <3>1, <3>3 DEF Poll, RoundInv
    <3>5. phase' = "invoke" /\ UNCHANGED <<waiters, costate, depth>>
      BY <1>13, <2>1 DEF LoopStep, Poll, levVars
    <3> QED
      BY <3>4, <3>5 DEF TimersInScope, RoundInv
  <2>2. CASE NextRound \/ LoopReturns
    <3>1. pending = {} /\ UNCHANGED <<waiters, active, pending, costate, depth>>
      BY <1>13, <2>2 DEF LoopStep, NextRound, LoopReturns, levVars, RoundInv
    <3> QED
      BY <3>1 DEF TimersInScope, RoundInv
  <2> QED
    BY <1>13, <2>1, <2>2 DEF LoopStep
<1>14. CASE UNCHANGED vars
  BY <1>14, SameTimers DEF vars, hubVars, levVars
<1> QED
  BY <1>1, <1>2, <1>3, <1>4, <1>5, <1>6, <1>7, <1>8, <1>9, <1>10, <1>11,
     <1>12, <1>13, <1>14 DEF Next, TaskStep, Yields, HubStep, Exited
-----------------------------------------------------------------------------
(* What the callbacks promise about the coroutines they name.              *)
QueueInv == HasTask /\ ResumesSpawned /\ StaleKillsFirst /\ KillsItsTarget

(* The promises stay while the queue, the tasks and the coroutines with a  *)
(* task stay.                                                              *)
LEMMA SameQueue ==
  ASSUME QueueInv, UNCHANGED <<callbacks, task>>,
         \A c \in Co : costate'[c] \in {"spawned", "alive"} => costate'[c] = costate[c],
         \A i \in 1..Len(callbacks) :
            callbacks[i].co \in Co /\
            (callbacks[i].op = "resume" => costate'[callbacks[i].co] = costate[callbacks[i].co])
  PROVE  QueueInv'
  BY DEF QueueInv, HasTask, ResumesSpawned, StaleKillsFirst, KillsItsTarget

(* Every queued callback names a coroutine.                                *)
LEMMA CallbackCo ==
  ASSUME TypeOK, NEW i \in 1..Len(callbacks)
  PROVE  callbacks[i] \in Record /\ callbacks[i].co \in Co
<1>1. callbacks[i] \in Record
  BY ElementOfSeq DEF TypeOK
<1> QED
  BY <1>1 DEF Record

(* The promises stay for the callbacks behind the one that runs.           *)
LEMMA TailQueue ==
  ASSUME TypeOK, QueueInv, callbacks # <<>>, callbacks' = Tail(callbacks),
         UNCHANGED <<task, costate>>
  PROVE  QueueInv'
<1>1. /\ \A i \in 1..Len(callbacks') : i + 1 \in 1..Len(callbacks) /\ callbacks'[i] = callbacks[i + 1]
      /\ Len(callbacks') \in Nat
  <2>1. callbacks \in Seq(Record)
    BY DEF TypeOK
  <2> QED
    BY <2>1, TailLaws
<1>2. HasTask'
  BY DEF QueueInv, HasTask
<1>3. ResumesSpawned'
  BY <1>1 DEF QueueInv, ResumesSpawned
<1>4. StaleKillsFirst'
  <2> SUFFICES ASSUME NEW i \in 1..Len(callbacks'), NEW j \in 1..Len(callbacks'),
                      callbacks'[i].op = "throw", callbacks'[i].task # task[callbacks'[i].co],
                      callbacks'[j].op = "resume", callbacks'[j].co = callbacks'[i].co
               PROVE  i < j
    BY DEF StaleKillsFirst
  <2>1. i + 1 < j + 1
    BY <1>1 DEF QueueInv, StaleKillsFirst
  <2> QED
    BY <2>1
<1>5. KillsItsTarget'
  BY <1>1 DEF QueueInv, KillsItsTarget
<1> QED
  BY <1>2, <1>3, <1>4, <1>5 DEF QueueInv

LEMMA StepQueue == LeventInv /\ [Next]_vars => QueueInv'
<1> SUFFICES ASSUME LeventInv, [Next]_vars PROVE QueueInv'
  OBVIOUS
<1> USE DEF LeventInv
<1>a. QueueInv
  BY DEF QueueInv
<1>b. \A i \in 1..Len(callbacks) : callbacks[i] \in Record /\ callbacks[i].co \in Co
  BY CallbackCo
<1>c. callbacks \in Seq(Record) /\ Len(callbacks) \in Nat
  BY LenProperties DEF TypeOK
<1>1. ASSUME NEW c \in Co, spawn(c) PROVE QueueInv'
  <2> DEFINE r == [op |-> "resume", co |-> c, task |-> tasks + 1]
             n == Len(callbacks) + 1
  <2>1. costate[c] \in {"none", "pooled"}
    BY <1>1, SpawnsIdle DEF spawn
  <2>2. r \in Record
    BY <1>1, LeventAssumption DEF spawn, TypeOK, Record
  <2>3. callbacks' = Append(callbacks, r)
    BY <1>1 DEF spawn, run_callback
  <2>4. /\ Len(callbacks') = n /\ n \in 1..n
        /\ callbacks'[n] = r
        /\ \A i \in 1..n : i # n => i \in 1..Len(callbacks) /\ callbacks'[i] = callbacks[i] /\ i < n
    BY <1>c, <2>2, <2>3, AppendLaws
  <2>5. /\ costate'[c] = "spawned" /\ task'[c] = tasks + 1
        /\ \A d \in Co : d # c => costate'[d] = costate[d] /\ task'[d] = task[d]
    BY <1>1 DEF spawn, TypeOK
  <2>6. \A i \in 1..Len(callbacks) : callbacks[i].op = "resume" => callbacks[i].co # c
    BY <2>1 DEF ResumesSpawned
  <2>7. r.op = "resume" /\ r.co = c /\ r.task = tasks + 1
    OBVIOUS
  <2>8. tasks + 1 # 0
    BY DEF TypeOK
  <2> HIDE DEF r, n
  <2>9. HasTask'
    BY <2>5, <2>8 DEF HasTask
  <2>10. ResumesSpawned'
    BY <1>b, <2>4, <2>5, <2>6, <2>7 DEF ResumesSpawned
  <2>11. KillsItsTarget'
    BY <1>b, <2>4, <2>5, <2>7 DEF KillsItsTarget
  <2>12. StaleKillsFirst'
    <3> SUFFICES ASSUME NEW i \in 1..n, NEW j \in 1..n,
                        callbacks'[i].op = "throw", callbacks'[i].task # task'[callbacks'[i].co],
                        callbacks'[j].op = "resume", callbacks'[j].co = callbacks'[i].co
                 PROVE  i < j
      BY <2>4 DEF StaleKillsFirst
    <3>1. i # n
      BY <2>4, <2>7
    <3>2. CASE j = n
      BY <2>4, <3>1, <3>2
    <3>3. CASE j # n
      BY <1>b, <2>4, <2>5, <2>6, <3>1, <3>3 DEF StaleKillsFirst
    <3> QED
      BY <3>2, <3>3
  <2> QED
    BY <2>9, <2>10, <2>11, <2>12 DEF QueueInv
<1>2. ASSUME NEW c \in Co, kill(c) PROVE QueueInv'
  <2> DEFINE r == [op |-> "throw", co |-> c, task |-> task[c]]
             n == Len(callbacks) + 1
  <2>1. r \in Record
    BY <1>2 DEF kill, HasTask, TypeOK, Record
  <2>2. callbacks' = Append(callbacks, r) /\ UNCHANGED <<costate, task>>
    BY <1>2 DEF kill, run_callback
  <2>3. /\ Len(callbacks') = n /\ n \in 1..n
        /\ callbacks'[n] = r
        /\ \A i \in 1..n : i # n => i \in 1..Len(callbacks) /\ callbacks'[i] = callbacks[i] /\ i < n
    BY <1>c, <2>1, <2>2, AppendLaws
  <2>4. r.op # "resume" /\ r.task = task[r.co]
    OBVIOUS
  <2> HIDE DEF r, n
  <2> QED
    BY <1>a, <2>2, <2>3, <2>4
    DEF QueueInv, HasTask, ResumesSpawned, StaleKillsFirst, KillsItsTarget
<1>3. ASSUME NEW c \in Co, timeout_run(c) \/ timeout_return(c) \/ sleep(c) PROVE QueueInv'
  BY <1>3, <1>a, <1>b, SameQueue DEF timeout_run, timeout_return, sleep, levVars
<1>4. ASSUME NEW c \in Co, Finish(c) \/ Fail(c) PROVE QueueInv'
  <2>1. /\ UNCHANGED <<callbacks, task>>
        /\ costate'[c] \in {"pooled", "dead"}
        /\ \A d \in Co : d # c => costate'[d] = costate[d]
    BY <1>4 DEF Finish, Fail, TypeOK
  <2>2. costate[c] = "alive"
    BY <1>4 DEF Finish, Fail, ParkedOnce
  <2>3. \A i \in 1..Len(callbacks) : callbacks[i].op = "resume" => callbacks[i].co # c
    BY <2>2 DEF ResumesSpawned
  <2> QED
    BY <1>a, <1>b, <2>1, <2>3, SameQueue
<1>5. ASSUME NEW count \in 1..Cardinality(Co), check_coroutine(count) PROVE QueueInv'
  <2>1. PICK new \in {S \in SUBSET Co : \A c \in S : costate[c] = "none"} :
           costate' = [c \in Co |-> IF c \in new THEN "pooled" ELSE costate[c]]
    BY <1>5 DEF check_coroutine
  <2>2. UNCHANGED <<callbacks, task>>
    BY <1>5 DEF check_coroutine, hubVars
  <2>3. \A c \in Co : costate'[c] \in {"spawned", "alive"} => costate'[c] = costate[c]
    BY <2>1
  <2>4. \A i \in 1..Len(callbacks) :
           callbacks[i].op = "resume" => costate'[callbacks[i].co] = costate[callbacks[i].co]
    BY <1>b, <2>1 DEF ResumesSpawned
  <2> QED
    BY <1>a, <1>b, <2>2, <2>3, <2>4, SameQueue
<1>6. CASE RunTask
  <2> DEFINE c == Head(callbacks).co
  <2>1. /\ callbacks # <<>> /\ callbacks' = Tail(callbacks)
        /\ 1 \in 1..Len(callbacks) /\ callbacks[1].op = "resume" /\ callbacks[1].co = c
        /\ c \in Co
    BY <1>6, HeadCallback DEF RunTask, DropCallback
  <2>2. \A i \in 1..Len(callbacks') : i + 1 \in 1..Len(callbacks) /\ callbacks'[i] = callbacks[i + 1]
                                        /\ i + 1 # 1 /\ ~(i + 1 < 1)
    BY <1>c, <2>1, TailLaws
  <2>3. /\ costate'[c] = "alive" /\ task' = task
        /\ \A d \in Co : d # c => costate'[d] = costate[d]
    BY <1>6, <2>1 DEF RunTask, TypeOK
  <2>4. costate[c] = "spawned"
    BY <2>1 DEF ResumesSpawned
  <2> HIDE DEF c
  <2>5. \A i \in 1..Len(callbacks') : callbacks'[i].op = "resume" => callbacks'[i].co # c
    BY <2>1, <2>2 DEF ResumesSpawned
  <2>6. HasTask'
    BY <2>3, <2>4 DEF HasTask
  <2>7. ResumesSpawned'
    <3>1. ASSUME NEW i \in 1..Len(callbacks'), callbacks'[i].op = "resume"
          PROVE  /\ costate'[callbacks'[i].co] = "spawned"
                 /\ callbacks'[i].task = task'[callbacks'[i].co]
      BY <1>b, <2>2, <2>3, <2>5, <3>1 DEF ResumesSpawned
    <3>2. ASSUME NEW i \in 1..Len(callbacks'), NEW j \in 1..Len(callbacks'),
                 callbacks'[i].op = "resume", callbacks'[j].op = "resume",
                 callbacks'[i].co = callbacks'[j].co
          PROVE  i = j
      <4>1. i + 1 = j + 1
        BY <2>2, <3>2 DEF ResumesSpawned
      <4> QED
        BY <4>1
    <3> QED
      BY <3>1, <3>2 DEF ResumesSpawned
  <2>8. StaleKillsFirst'
    <3> SUFFICES ASSUME NEW i \in 1..Len(callbacks'), NEW j \in 1..Len(callbacks'),
                        callbacks'[i].op = "throw", callbacks'[i].task # task[callbacks'[i].co],
                        callbacks'[j].op = "resume", callbacks'[j].co = callbacks'[i].co
                 PROVE  i < j
      BY <2>3 DEF StaleKillsFirst
    <3>1. i + 1 < j + 1
      BY <2>2 DEF StaleKillsFirst
    <3> QED
      BY <3>1
  <2>9. KillsItsTarget'
    <3> SUFFICES ASSUME NEW i \in 1..Len(callbacks'),
                        callbacks'[i].op = "throw", callbacks'[i].task # task[callbacks'[i].co]
                 PROVE  costate'[callbacks'[i].co] # "alive"
      BY <2>3 DEF KillsItsTarget
    <3>1. callbacks'[i].co # c
      BY <2>1, <2>2 DEF StaleKillsFirst
    <3> QED
      BY <1>b, <2>2, <2>3, <3>1 DEF KillsItsTarget
  <2> QED
    BY <2>6, <2>7, <2>8, <2>9 DEF QueueInv
<1>7. CASE RunKill
  <2>1. callbacks # <<>> /\ callbacks' = Tail(callbacks) /\ UNCHANGED <<task, costate>>
    BY <1>7 DEF RunKill, CallbackIs, DropCallback
  <2> QED
    BY <1>a, <2>1, TailQueue
<1>8. ASSUME NEW w \in Waiter, SleepOver(w) PROVE QueueInv'
  BY <1>8, <1>a, <1>b, SameQueue DEF SleepOver, levVars
<1>9. ASSUME NEW c \in Co, NEW k \in 1..MaxDepth, TimeoutOver(c, k) PROVE QueueInv'
  BY <1>9, <1>a, <1>b, SameQueue DEF TimeoutOver
<1>10. CASE LoopStep
  BY <1>10, <1>a, <1>b, SameQueue DEF LoopStep, Poll, NextRound, LoopReturns, levVars
<1>11. CASE UNCHANGED vars
  BY <1>11, <1>a, <1>b, SameQueue DEF vars, hubVars, levVars
<1> QED
  BY <1>1, <1>2, <1>3, <1>4, <1>5, <1>6, <1>7, <1>8, <1>9, <1>10, <1>11
  DEF Next, TaskStep, Yields, HubStep, Exited
-----------------------------------------------------------------------------
(* The record levent.spawn queued for the present task of c.               *)
Start(c) == [op |-> "resume", co |-> c, task |-> task[c]]

(* The pool and the queue stay sound while neither changes and no          *)
(* coroutine becomes or stops being idle or ready to start.                *)
LEMMA SamePool ==
  ASSUME PoolSound, UNCHANGED <<pool, callbacks, task>>,
         \A c \in Co : /\ costate'[c] = "pooled" <=> costate[c] = "pooled"
                       /\ costate'[c] = "spawned" <=> costate[c] = "spawned"
  PROVE  PoolSound'
  BY DEF PoolSound

LEMMA StepPool == LeventInv /\ [Next]_vars => PoolSound'
<1> SUFFICES ASSUME LeventInv, [Next]_vars PROVE PoolSound'
  OBVIOUS
<1> USE DEF LeventInv
<1>a. \A i \in 1..Len(callbacks) : callbacks[i] \in Record /\ callbacks[i].co \in Co
  BY CallbackCo
<1>b. callbacks \in Seq(Record) /\ pool \in Seq(Co) /\ Len(pool) \in Nat
  BY LenProperties DEF TypeOK
<1>1. ASSUME NEW c \in Co, spawn(c) PROVE PoolSound'
  <2> DEFINE r == [op |-> "resume", co |-> c, task |-> tasks + 1]
  <2>1. costate[c] \in {"none", "pooled"}
    BY <1>1, SpawnsIdle DEF spawn
  <2>2. r \in Record
    BY <1>1, LeventAssumption DEF spawn, TypeOK, Record
  <2>3. callbacks' = Append(callbacks, r)
    BY <1>1 DEF spawn, run_callback
  <2>4. \A x : (\E i \in 1..Len(callbacks') : callbacks'[i] = x)
               <=> (x = r \/ \E i \in 1..Len(callbacks) : callbacks[i] = x)
    BY <1>b, <2>2, <2>3, AppendHolds
  <2>5. /\ costate'[c] = "spawned" /\ task'[c] = tasks + 1
        /\ \A d \in Co : d # c => costate'[d] = costate[d] /\ task'[d] = task[d]
    BY <1>1 DEF spawn, TypeOK
  <2>7. \A d \in Co : costate'[d] = "spawned" <=>
           \E i \in 1..Len(callbacks') :
              callbacks'[i] = [op |-> "resume", co |-> d, task |-> task'[d]]
    <3> SUFFICES ASSUME NEW d \in Co
                 PROVE  costate'[d] = "spawned" <=>
                          \E i \in 1..Len(callbacks') :
                            callbacks'[i] = [op |-> "resume", co |-> d, task |-> task'[d]]
      OBVIOUS
    <3>1. CASE d = c
      BY <2>4, <2>5, <3>1
    <3>2. CASE d # c
      <4>1. r # Start(d) /\ Start(d) = [op |-> "resume", co |-> d, task |-> task'[d]]
        BY <2>5, <3>2 DEF Start
      <4>2. costate[d] = "spawned" <=> \E i \in 1..Len(callbacks) : callbacks[i] = Start(d)
        BY DEF PoolSound, Start
      <4>3. (\E i \in 1..Len(callbacks') : callbacks'[i] = Start(d))
              <=> \E i \in 1..Len(callbacks) : callbacks[i] = Start(d)
        BY <2>4, <4>1
      <4> HIDE DEF r
      <4> QED
        BY <2>5, <3>2, <4>1, <4>2, <4>3
    <3> QED
      BY <3>1, <3>2
  <2>8. /\ \A i, j \in 1..Len(pool') : pool'[i] = pool'[j] => i = j
        /\ \A d \in Co : costate'[d] = "pooled" <=> \E i \in 1..Len(pool') : pool'[i] = d
    <3>1. CASE pool = <<>>
      <4>1. pool' = pool /\ costate[c] = "none"
        BY <1>1, <3>1 DEF spawn, co_create
      <4> QED
        BY <2>5, <4>1 DEF PoolSound
    <3>2. CASE pool # <<>>
      <4>1. c = Last(pool) /\ pool' = Front(pool)
        BY <1>1, <3>2 DEF spawn, co_create
      <4>2. /\ c = pool[Len(pool)]
            /\ Len(pool) \in 1..Len(pool)
            /\ \A i \in 1..Len(pool') : i \in 1..Len(pool) /\ i # Len(pool) /\ pool'[i] = pool[i]
            /\ \A i \in 1..Len(pool) : i # Len(pool) => i \in 1..Len(pool')
        BY <1>b, <3>2, <4>1, FrontLaws
      <4>3. \A i \in 1..Len(pool') : pool'[i] # c
        BY <4>2 DEF PoolSound
      <4> QED
        BY <2>5, <4>2, <4>3 DEF PoolSound
    <3> QED
      BY <3>1, <3>2
  <2> QED
    BY <2>7, <2>8 DEF PoolSound
<1>2. ASSUME NEW c \in Co, kill(c) PROVE PoolSound'
  <2> DEFINE r == [op |-> "throw", co |-> c, task |-> task[c]]
  <2>1. r \in Record
    BY <1>2 DEF kill, HasTask, TypeOK, Record
  <2>2. callbacks' = Append(callbacks, r) /\ UNCHANGED <<costate, task, pool>>
    BY <1>2 DEF kill, run_callback
  <2>3. \A x : (\E i \in 1..Len(callbacks') : callbacks'[i] = x)
               <=> (x = r \/ \E i \in 1..Len(callbacks) : callbacks[i] = x)
    BY <1>b, <2>1, <2>2, AppendHolds
  <2>4. \A d \in Co : r # [op |-> "resume", co |-> d, task |-> task[d]]
    OBVIOUS
  <2> HIDE DEF r
  <2> QED
    BY <2>2, <2>3, <2>4 DEF PoolSound
<1>3. ASSUME NEW c \in Co, timeout_run(c) \/ timeout_return(c) \/ sleep(c) PROVE PoolSound'
  BY <1>3, SamePool DEF timeout_run, timeout_return, sleep, levVars
<1>4. ASSUME NEW c \in Co, Finish(c) PROVE PoolSound'
  <2> DEFINE n == Len(pool) + 1
  <2>1. /\ UNCHANGED <<callbacks, task>> /\ pool' = Append(pool, c)
        /\ costate'[c] = "pooled"
        /\ \A d \in Co : d # c => costate'[d] = costate[d]
    BY <1>4 DEF Finish, TypeOK
  <2>2. costate[c] = "alive"
    BY <1>4 DEF Finish, ParkedOnce
  <2>3. /\ Len(pool') = n /\ n \in 1..n
        /\ pool'[n] = c
        /\ \A i \in 1..Len(pool) : i \in 1..n /\ pool'[i] = pool[i]
        /\ \A i \in 1..n : i # n => i \in 1..Len(pool)
    BY <1>b, <2>1, AppendLaws
  <2>4. \A i \in 1..Len(pool) : pool[i] # c
    BY <2>2 DEF PoolSound
  <2> HIDE DEF n
  <2>5. \A i, j \in 1..n : pool'[i] = pool'[j] => i = j
    BY <2>3, <2>4 DEF PoolSound
  <2>6. \A d \in Co : costate'[d] = "pooled" <=> \E i \in 1..n : pool'[i] = d
    BY <2>1, <2>3 DEF PoolSound
  <2>7. \A d \in Co : costate'[d] = "spawned" <=> costate[d] = "spawned"
    BY <2>1, <2>2
  <2> QED
    BY <2>1, <2>3, <2>5, <2>6, <2>7 DEF PoolSound
<1>5. ASSUME NEW c \in Co, Fail(c) PROVE PoolSound'
  <2>1. /\ costate[c] = "alive" /\ costate'[c] = "dead"
        /\ \A d \in Co : d # c => costate'[d] = costate[d]
    BY <1>5 DEF Fail, ParkedOnce, TypeOK
  <2> QED
    BY <1>5, <2>1, SamePool DEF Fail
<1>6. ASSUME NEW count \in 1..Cardinality(Co), check_coroutine(count) PROVE PoolSound'
  <2>1. PICK new \in {S \in SUBSET Co : \A c \in S : costate[c] = "none"} :
           /\ costate' = [c \in Co |-> IF c \in new THEN "pooled" ELSE costate[c]]
           /\ \E s \in SetToSeqs(new) : pool' = pool \o s
    BY <1>6 DEF check_coroutine
  <2>2. PICK s \in SetToSeqs(new) : pool' = pool \o s
    BY <2>1
  <2>3. UNCHANGED <<callbacks, task>>
    BY <1>6 DEF check_coroutine, hubVars
  <2>4. /\ s \in Seq(Co) /\ s \in Seq(new) /\ Len(s) \in Nat
        /\ \A i, j \in 1..Len(s) : s[i] = s[j] => i = j
        /\ \A c \in new : \E i \in 1..Len(s) : s[i] = c
        /\ \A i \in 1..Len(s) : s[i] \in new
    <3>1. IsFiniteSet(new)
      BY CoAssumption, FS_Subset
    <3>2. s \in Seq(new)
      BY <3>1, ListingLaws
    <3> QED
      BY <3>1, <3>2, ListingLaws, ElementOfSeq
  <2>5. \A i \in 1..Len(pool), j \in 1..Len(s) : pool[i] # s[j]
    <3> SUFFICES ASSUME NEW i \in 1..Len(pool), NEW j \in 1..Len(s) PROVE pool[i] # s[j]
      OBVIOUS
    <3>1. pool[i] \in Co /\ costate[pool[i]] = "pooled"
      BY <1>b, ElementOfSeq DEF PoolSound
    <3>2. costate[s[j]] # "pooled"
      BY <2>4
    <3> QED
      BY <3>1, <3>2
  <2>6. pool \in Seq(Co) /\ s \in Seq(Co)
    BY <1>b, <2>4
  <2>7. Range(pool') = Range(pool) \cup Range(s) /\ pool' \in Seq(Co)
    BY <2>2, <2>6, ConcatHolds, ConcatProperties
  <2>8. \A i, j \in 1..Len(pool') : pool'[i] = pool'[j] => i = j
    <3>1. \A i, j \in 1..Len(pool) : pool[i] = pool[j] => i = j
      BY DEF PoolSound
    <3>2. \A i, j \in 1..Len(pool \o s) : (pool \o s)[i] = (pool \o s)[j] => i = j
      <4>1. \A i, j \in 1..Len(s) : s[i] = s[j] => i = j
        BY <2>4
      <4> QED
        BY <2>5, <2>6, <3>1, <4>1, ConcatDistinct, Zenon
    <3> QED
      BY <2>2, <3>2
  <2>9. \A d \in Co : costate'[d] = "pooled" <=> \E i \in 1..Len(pool') : pool'[i] = d
    <3> SUFFICES ASSUME NEW d \in Co
                 PROVE  costate'[d] = "pooled" <=> \E i \in 1..Len(pool') : pool'[i] = d
      OBVIOUS
    <3>1. costate'[d] = "pooled" <=> d \in new \/ costate[d] = "pooled"
      BY <2>1
    <3>2. d \in new <=> d \in Range(s)
      BY <2>4, <2>6, RangeLaws
    <3>3. costate[d] = "pooled" <=> d \in Range(pool)
      BY <2>6, RangeLaws DEF PoolSound
    <3> QED
      BY <2>7, <3>1, <3>2, <3>3, RangeLaws
  <2>10. \A d \in Co : costate'[d] = "spawned" <=> costate[d] = "spawned"
    BY <2>1
  <2> QED
    BY <2>3, <2>8, <2>9, <2>10 DEF PoolSound
<1>7. CASE RunTask
  <2> DEFINE c == Head(callbacks).co
  <2>1. /\ callbacks # <<>> /\ callbacks' = Tail(callbacks)
        /\ 1 \in 1..Len(callbacks) /\ callbacks[1].op = "resume" /\ callbacks[1].co = c
        /\ c \in Co /\ Head(callbacks) = callbacks[1]
    BY <1>7, HeadCallback DEF RunTask, DropCallback
  <2>2. \A i \in 1..Len(callbacks') : i + 1 \in 1..Len(callbacks) /\ callbacks'[i] = callbacks[i + 1]
                                        /\ i + 1 # 1
    BY <1>b, <2>1, TailLaws
  <2>3. /\ costate'[c] = "alive" /\ UNCHANGED <<task, pool>>
        /\ \A d \in Co : d # c => costate'[d] = costate[d]
    BY <1>7, <2>1 DEF RunTask, TypeOK
  <2>4. costate[c] = "spawned"
    BY <2>1 DEF ResumesSpawned
  <2> HIDE DEF c
  <2>5. \A i \in 1..Len(callbacks') : callbacks'[i].op = "resume" => callbacks'[i].co # c
    BY <2>1, <2>2 DEF ResumesSpawned
  <2>6. \A d \in Co : Start(d).op = "resume" /\ Start(d).co = d
    BY DEF Start
  <2>7. \A d \in Co : costate[d] = "spawned" <=> \E i \in 1..Len(callbacks) : callbacks[i] = Start(d)
    BY DEF PoolSound, Start
  <2>8. \A d \in Co : costate'[d] = "spawned" <=> \E i \in 1..Len(callbacks') : callbacks'[i] = Start(d)
    <3> SUFFICES ASSUME NEW d \in Co
                 PROVE  costate'[d] = "spawned" <=> \E i \in 1..Len(callbacks') : callbacks'[i] = Start(d)
      OBVIOUS
    <3>1. CASE d = c
      BY <2>3, <2>5, <2>6, <3>1
    <3>2. CASE d # c
      <4>1. Start(d) # Head(callbacks)
        BY <2>1, <2>6, <3>2
      <4>2. (\E i \in 1..Len(Tail(callbacks)) : Tail(callbacks)[i] = Start(d))
              <=> \E i \in 1..Len(callbacks) : callbacks[i] = Start(d)
        <5>1. callbacks \in Seq(Record) /\ callbacks # <<>>
          BY <1>b, <2>1
        <5>2. Member(Start(d), Tail(callbacks)) <=> Member(Start(d), callbacks)
          BY <4>1, <5>1, TailMember
        <5> QED
          BY <5>2 DEF Member
      <4>3. costate'[d] = costate[d] /\ callbacks' = Tail(callbacks)
        BY <2>1, <2>3, <3>2
      <4> QED
        BY <2>7, <4>2, <4>3
    <3> QED
      BY <3>1, <3>2
  <2>9. \A d \in Co : costate'[d] = "pooled" <=> costate[d] = "pooled"
    BY <2>3, <2>4
  <2> QED
    BY <2>3, <2>8, <2>9 DEF PoolSound, Start
<1>8. CASE RunKill
  <2>1. callbacks # <<>> /\ callbacks' = Tail(callbacks) /\ Head(callbacks).op = "throw"
    BY <1>8 DEF RunKill, CallbackIs, DropCallback
  <2>2. UNCHANGED <<costate, task, pool>>
    BY <1>8 DEF RunKill
  <2>3. \A d \in Co : Start(d) # Head(callbacks)
    BY <2>1 DEF Start
  <2>4. \A d \in Co :
          (\E i \in 1..Len(callbacks') : callbacks'[i] = Start(d))
            <=> \E i \in 1..Len(callbacks) : callbacks[i] = Start(d)
    <3> SUFFICES ASSUME NEW d \in Co
                 PROVE  (\E i \in 1..Len(Tail(callbacks)) : Tail(callbacks)[i] = Start(d))
                          <=> \E i \in 1..Len(callbacks) : callbacks[i] = Start(d)
      BY <2>1
    <3>1. callbacks \in Seq(Record) /\ callbacks # <<>> /\ Start(d) # Head(callbacks)
      BY <1>b, <2>1, <2>3
    <3>2. Member(Start(d), Tail(callbacks)) <=> Member(Start(d), callbacks)
      BY <3>1, TailMember
    <3> QED
      BY <3>2 DEF Member
  <2> QED
    BY <2>2, <2>4 DEF PoolSound, Start
<1>9. ASSUME NEW w \in Waiter, SleepOver(w) PROVE PoolSound'
  BY <1>9, SamePool DEF SleepOver, levVars
<1>10. ASSUME NEW c \in Co, NEW k \in 1..MaxDepth, TimeoutOver(c, k) PROVE PoolSound'
  BY <1>10, SamePool DEF TimeoutOver
<1>11. CASE LoopStep
  BY <1>11, SamePool DEF LoopStep, Poll, NextRound, LoopReturns, levVars
<1>12. CASE UNCHANGED vars
  BY <1>12, SamePool DEF vars, hubVars, levVars
<1> QED
  BY <1>1, <1>2, <1>3, <1>4, <1>5, <1>6, <1>7, <1>8, <1>9, <1>10, <1>11, <1>12
  DEF Next, TaskStep, Yields, HubStep, Exited

-----------------------------------------------------------------------------
LEMMA InitLeventInv == Init => LeventInv
<1> SUFFICES ASSUME NEW c \in Co,
                    HubInit(<<[op |-> "resume", co |-> c, task |-> 1]>>),
                    costate = [d \in Co |-> IF d = c THEN "spawned" ELSE "none"],
                    pool = <<>>,
                    task = [d \in Co |-> IF d = c THEN 1 ELSE 0],
                    Init
             PROVE  LeventInv
  BY DEF Init
<1>1. TypeOK
  BY InitTypeOK
<1>2. ParkedOnce /\ FreshWaiters /\ HasTask
  BY CoAssumption DEF HubInit, ParkedOnce, FreshWaiters, HasTask, Unresolved
<1>3. TimersInScope /\ RoundInv
  BY DEF HubInit, TimersInScope, RoundInv, Waiter
<1> DEFINE r == [op |-> "resume", co |-> c, task |-> 1]
<1>4. Len(callbacks) = 1 /\ callbacks[1] = r /\ r.op = "resume" /\ r.co = c /\ r.task = 1
  BY DEF HubInit
<1>5. \A i \in 1..Len(callbacks) : i = 1
  BY <1>4
<1>6. ResumesSpawned /\ StaleKillsFirst /\ KillsItsTarget
  BY <1>4, <1>5 DEF ResumesSpawned, StaleKillsFirst, KillsItsTarget
<1>7. PoolSound
  <2>1. 1..Len(pool) = {}
    BY EmptySeq
  <2>2. ASSUME NEW d \in Co
        PROVE  costate[d] = "spawned" <=>
                 \E i \in 1..Len(callbacks) :
                   callbacks[i] = [op |-> "resume", co |-> d, task |-> task[d]]
    BY <1>4, <1>5
  <2> QED
    BY <2>1, <2>2 DEF PoolSound
<1> QED
  BY <1>1, <1>2, <1>3, <1>6, <1>7 DEF LeventInv

LEMMA StepLeventInv == LeventInv /\ [Next]_vars => LeventInv'
  BY StepTypeOK, StepParked, StepTimers, StepQueue, StepPool DEF LeventInv, QueueInv

(* The inductive invariant of levent.lua, coroutines.lua and timeout.lua   *)
(* over the hub.                                                           *)
THEOREM LeventInvariant == Spec => []LeventInv
  BY InitLeventInv, StepLeventInv, PTL DEF Spec

(* Every variable of the hub, the pool and the tasks keeps its type.       *)
THEOREM LeventTypeCorrect == Spec => []TypeOK
  BY LeventInvariant, PTL DEF LeventInv

(* However spawn, sleep, kill and timeouts interleave, a started task that *)
(* is not running is parked on exactly one unresolved Waiter, its newest:  *)
(* the assertions of Hub:_yield and Waiter:_switch never fail.             *)
THEOREM ParkedOnceHolds == Spec => []ParkedOnce
  BY LeventInvariant, PTL DEF LeventInv

(* No timer of Hub:wait or timeout.run outlives the wait or the            *)
(* timeout.run it was started for, whatever nesting is unwound and by      *)
(* whom, and every parked task has its timer.                              *)
THEOREM TimersInScopeHolds == Spec => []TimersInScope
  BY LeventInvariant, PTL DEF LeventInv

(* A levent.kill is never thrown into another task than the one it was     *)
(* meant for, although coroutines are reused.                              *)
THEOREM KillsItsTargetHolds == Spec => []KillsItsTarget
  BY LeventInvariant, PTL DEF LeventInv

(* coroutine_pool holds each idle coroutine once and no other, and every   *)
(* spawned task has its coroutines.resume queued.                          *)
THEOREM PoolSoundHolds == Spec => []PoolSound
  BY LeventInvariant, PTL DEF LeventInv
=============================================================================
