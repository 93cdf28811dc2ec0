----------------------------- MODULE TasksProofs -----------------------------
(***************************************************************************)
(* What the tasks of Tasks.tla rely on whichever primitive they use, for   *)
(* every number of coroutines and Waiters: a coroutine is parked on one    *)
(* unresolved Waiter, its timers are those of the call it is parked in,    *)
(* and it starts once.  The proofs about Socket, Queue and Locks build on  *)
(* these lemmas.                                                           *)
(***************************************************************************)
EXTENDS Tasks, FiniteSetTheorems, SequenceTheorems, TLAPS

(* A coroutine that runs is not parked, and one that is parked is parked   *)
(* on its newest Waiter, which has no result: what the assertions of       *)
(* Hub:_yield and Waiter:_switch rely on.                                  *)
Parking ==
    \A c \in Co :
       /\ cur = c => waiters[c] = 0
       /\ waiters[c] # 0 => waiters[c] = created[c] /\ Unresolved(ParkedOn(c))

(* A Waiter that was not created yet has no result.                        *)
FreshWaiters == \A w \in Waiter : w[2] > created[w[1]] => Unresolved(w)

(* A timer that can still fire is of the call its coroutine is parked in.  *)
TimersScoped ==
    \A w \in Waiter : Stopped(w) \cap (active \cup pending) # {} => waiters[w[1]] = w[2]

(* The coroutines.resume of levent.spawn is queued at most once for a      *)
(* coroutine, and only until it starts.                                    *)
ResumesDistinct(q) ==
    \A i, j \in 1..Len(q) :
       q[i].op = "resume" /\ q[j].op = "resume" /\ q[i].co = q[j].co => i = j
InResumes(q, c) == \E i \in 1..Len(q) : q[i].op = "resume" /\ q[i].co = c
ResumesOnce ==
    /\ ResumesDistinct(callbacks)
    /\ \A c \in Co : InResumes(callbacks, c) => waiters[c] = 0 /\ cur # c

TasksInv == HubTypeOK /\ Parking /\ FreshWaiters /\ TimersScoped /\ ResumesOnce

(* A callback of a primitive is in the queue, and is there at most once.   *)
HasOp(q, o) == \E i \in 1..Len(q) : q[i].op = o
OpOnce(q, o) == \A i, j \in 1..Len(q) : q[i].op = o /\ q[j].op = o => i = j

(* The coroutine of w is parked on w, in a call of the primitive: what a   *)
(* primitive needs of the Waiters in its lists before it switches to one.  *)
Listed(w) ==
    /\ waiters[w[1]] = w[2] /\ Unresolved(w)
    /\ SleepTimer(w) \notin active \cup pending

(* The same of the state a step leads to.                                  *)
NowListed(w) ==
    /\ waiters'[w[1]] = w[2] /\ exception'[w] = "false"
    /\ SleepTimer(w) \notin active' \cup pending'

(* A step that queues no coroutines.resume, and one that starts timers for *)
(* the Waiters in X only.                                                  *)
QueuesNoResume ==
    /\ ResumesDistinct(callbacks')
    /\ \A c \in Co : InResumes(callbacks', c) => InResumes(callbacks, c)
NoNewTimers(X) ==
    \A w \in Waiter : w \notin X =>
       \A t \in Stopped(w) : t \in active' \cup pending' => t \in active \cup pending

(* A step that leaves the primitive's callbacks in the queue, and one that *)
(* leaves the Waiters parked that are not in X.                            *)
KeepsOps ==
    \A o : o # "resume" /\ o # "throw" =>
       /\ HasOp(callbacks', o) <=> HasOp(callbacks, o)
       /\ OpOnce(callbacks, o) => OpOnce(callbacks', o)
KeepsListed(X) == \A w \in Waiter : w \notin X /\ Listed(w) => NowListed(w)

(* A result is never taken back.                                           *)
KeepsResults == \A w \in Waiter : exception[w] # "false" => exception'[w] = exception[w]

(* What a step leaves to the primitive: its callbacks stay well formed,    *)
(* its lists stay parked but for the Waiters in X, its frame goes on.      *)
Keeps(ops, X) ==
    /\ TasksTypeOK(ops)' /\ TasksInv'
    /\ KeepsListed(X) /\ KeepsResults

-----------------------------------------------------------------------------
(* How an element's place moves when a list gains or loses an element at   *)
(* one of its ends.                                                        *)
(* Taking the first element, as Loop:_run_callback does.                   *)
LEMMA TailLaws ==
  ASSUME NEW S, NEW q \in Seq(S), q # <<>>
  PROVE  /\ Tail(q) \in Seq(S)
         /\ Head(q) = q[1] /\ Head(q) \in S
         /\ Len(q) \in Nat \ {0}
         /\ 1 \in 1..Len(q)
         /\ Len(Tail(q)) = Len(q) - 1
         /\ \A i \in 1..Len(Tail(q)) : i + 1 \in 1..Len(q) /\ Tail(q)[i] = q[i + 1]
         /\ \A i \in 1..Len(q) :
               i # 1 => i - 1 \in 1..Len(Tail(q)) /\ Tail(q)[i - 1] = q[i]
<1>1. /\ Head(q) \in S
      /\ Tail(q) \in Seq(S)
      /\ Len(Tail(q)) = Len(q) - 1
      /\ \A i \in 1..Len(Tail(q)) : Tail(q)[i] = q[i + 1]
  BY HeadTailProperties
<1>2. Len(q) \in Nat \ {0}
  BY EmptySeq, LenProperties
<1>3. Head(q) = q[1]
  OBVIOUS
<1> QED
  BY <1>1, <1>2, <1>3

(* Adding an element at the end, as Loop:run_callback does.                *)
LEMMA AppendLaws ==
  ASSUME NEW S, NEW q \in Seq(S), NEW e \in S
  PROVE  /\ Append(q, e) \in Seq(S)
         /\ Len(q) \in Nat
         /\ Len(Append(q, e)) = Len(q) + 1
         /\ Len(q) + 1 \in 1..Len(Append(q, e))
         /\ \A i \in 1..Len(q) : i \in 1..Len(Append(q, e)) /\ Append(q, e)[i] = q[i]
         /\ Append(q, e)[Len(q) + 1] = e
         /\ \A i \in 1..Len(Append(q, e)) : i # Len(q) + 1 => i \in 1..Len(q)
  BY AppendProperties, LenProperties

(* Joining two lists.                                                      *)
LEMMA ConcatLaws ==
  ASSUME NEW S, NEW p \in Seq(S), NEW q \in Seq(S)
  PROVE  /\ p \o q \in Seq(S)
         /\ Len(p \o q) = Len(p) + Len(q)
         /\ \A i \in 1..Len(p) : i \in 1..Len(p \o q) /\ (p \o q)[i] = p[i]
         /\ \A i \in 1..Len(q) :
               i + Len(p) \in 1..Len(p \o q) /\ (p \o q)[i + Len(p)] = q[i]
         /\ \A i \in 1..Len(p \o q) :
               \/ i \in 1..Len(p) /\ (p \o q)[i] = p[i]
               \/ /\ i \notin 1..Len(p) /\ i - Len(p) \in 1..Len(q)
                  /\ (p \o q)[i] = q[i - Len(p)]
<1>1. Len(p) \in Nat /\ Len(q) \in Nat
  BY LenProperties
<1>2. /\ p \o q \in Seq(S)
      /\ Len(p \o q) = Len(p) + Len(q)
      /\ \A i \in 1..(Len(p) + Len(q)) :
            (p \o q)[i] = IF i <= Len(p) THEN p[i] ELSE q[i - Len(p)]
  BY ConcatProperties
<1> QED
  BY <1>1, <1>2

(* What is left in a queue whose head was taken, what is in one that was   *)
(* added to, and what is in two lists joined.                              *)
LEMMA TailHolds ==
  ASSUME NEW S, NEW q \in Seq(S), q # <<>>, NEW x, x # Head(q)
  PROVE  (\E i \in 1..Len(Tail(q)) : Tail(q)[i] = x) <=> (\E i \in 1..Len(q) : q[i] = x)
<1>1. ASSUME NEW i \in 1..Len(Tail(q)), Tail(q)[i] = x PROVE \E j \in 1..Len(q) : q[j] = x
  <2>1. i + 1 \in 1..Len(q) /\ q[i + 1] = x
    BY <1>1, TailLaws
  <2> QED
    BY <2>1
<1>2. ASSUME NEW i \in 1..Len(q), q[i] = x PROVE \E j \in 1..Len(Tail(q)) : Tail(q)[j] = x
  <2>1. i # 1
    BY <1>2, TailLaws
  <2>2. i - 1 \in 1..Len(Tail(q)) /\ Tail(q)[i - 1] = x
    BY <1>2, <2>1, TailLaws
  <2> QED
    BY <2>2
<1> QED
  BY <1>1, <1>2

LEMMA AppendHolds ==
  ASSUME NEW S, NEW q \in Seq(S), NEW e \in S, NEW x
  PROVE  (\E i \in 1..Len(Append(q, e)) : Append(q, e)[i] = x)
           <=> (x = e \/ \E i \in 1..Len(q) : q[i] = x)
<1> DEFINE a == Append(q, e)
           n == Len(q) + 1
<1>1. /\ Len(a) = n /\ n \in 1..n /\ a[n] = e
      /\ \A i \in 1..Len(q) : i \in 1..n /\ a[i] = q[i]
      /\ \A i \in 1..n : i # n => i \in 1..Len(q)
  BY AppendLaws
<1> HIDE DEF a, n
<1>2. (\E i \in 1..Len(a) : a[i] = x) <=> (x = e \/ \E i \in 1..Len(q) : q[i] = x)
  BY <1>1
<1> QED
  BY <1>2 DEF a

-----------------------------------------------------------------------------
(* The ways a step may change the queue of callbacks.                      *)
LEMMA AppendResumes ==
  ASSUME NEW R, NEW q \in Seq(R), NEW e \in R, e.op # "resume", ResumesDistinct(q)
  PROVE  /\ ResumesDistinct(Append(q, e))
         /\ \A c \in Co : InResumes(Append(q, e), c) => InResumes(q, c)
<1> DEFINE a == Append(q, e)
           n == Len(q) + 1
<1>1. /\ Len(a) = n /\ a[n] = e
      /\ \A i \in 1..n : i # n => i \in 1..Len(q)
      /\ \A i \in 1..Len(q) : a[i] = q[i]
  BY AppendLaws
<1> HIDE DEF a, n
<1>2. \A i \in 1..Len(a) : a[i].op = "resume" => i \in 1..Len(q) /\ a[i] = q[i]
  BY <1>1
<1>3. ResumesDistinct(a)
  BY <1>2 DEF ResumesDistinct
<1>4. \A c \in Co : InResumes(a, c) => InResumes(q, c)
  BY <1>2 DEF InResumes
<1> QED
  BY <1>3, <1>4 DEF a

LEMMA TailResumes ==
  ASSUME NEW R, NEW q \in Seq(R), q # <<>>, ResumesDistinct(q)
  PROVE  /\ ResumesDistinct(Tail(q))
         /\ \A c \in Co : InResumes(Tail(q), c) => InResumes(q, c)
         /\ Head(q).op = "resume" => ~InResumes(Tail(q), Head(q).co)
<1> DEFINE t == Tail(q)
<1>1. /\ \A i \in 1..Len(t) : i + 1 \in 1..Len(q) /\ t[i] = q[i + 1] /\ i + 1 # 1
      /\ Head(q) = q[1] /\ 1 \in 1..Len(q)
  BY TailLaws
<1> HIDE DEF t
<1>2. ResumesDistinct(t)
  <2> SUFFICES ASSUME NEW i \in 1..Len(t), NEW j \in 1..Len(t),
                      t[i].op = "resume", t[j].op = "resume", t[i].co = t[j].co
               PROVE  i = j
    BY DEF ResumesDistinct
  <2>1. i + 1 = j + 1
    BY <1>1 DEF ResumesDistinct
  <2> QED
    BY <2>1
<1>3. ASSUME NEW c \in Co, InResumes(t, c) PROVE InResumes(q, c)
  <2>1. PICK i \in 1..Len(t) : t[i].op = "resume" /\ t[i].co = c
    BY <1>3 DEF InResumes
  <2>2. i + 1 \in 1..Len(q) /\ q[i + 1].op = "resume" /\ q[i + 1].co = c
    BY <1>1, <2>1
  <2> QED
    BY <2>2 DEF InResumes
<1>4. ASSUME Head(q).op = "resume" PROVE ~InResumes(t, Head(q).co)
  BY <1>1, <1>4 DEF InResumes, ResumesDistinct
<1> QED
  BY <1>2, <1>3, <1>4 DEF t

LEMMA AppendOps ==
  ASSUME NEW R, NEW q \in Seq(R), NEW e \in R, NEW o
  PROVE  /\ HasOp(Append(q, e), o) <=> e.op = o \/ HasOp(q, o)
         /\ OpOnce(q, o) /\ (e.op # o \/ ~HasOp(q, o)) => OpOnce(Append(q, e), o)
<1> DEFINE a == Append(q, e)
           n == Len(q) + 1
<1>1. /\ Len(a) = n /\ a[n] = e /\ n \in 1..n
      /\ \A i \in 1..n : i # n => i \in 1..Len(q)
      /\ \A i \in 1..Len(q) : i \in 1..n /\ a[i] = q[i]
  BY AppendLaws
<1> HIDE DEF a, n
<1>2. HasOp(a, o) <=> e.op = o \/ HasOp(q, o)
  BY <1>1 DEF HasOp
<1>3. OpOnce(q, o) /\ (e.op # o \/ ~HasOp(q, o)) => OpOnce(a, o)
  BY <1>1 DEF HasOp, OpOnce
<1> QED
  BY <1>2, <1>3 DEF a

LEMMA TailOps ==
  ASSUME NEW R, NEW q \in Seq(R), q # <<>>, NEW o
  PROVE  /\ Head(q).op # o => (HasOp(Tail(q), o) <=> HasOp(q, o))
         /\ OpOnce(q, o) => OpOnce(Tail(q), o)
         /\ OpOnce(q, o) /\ Head(q).op = o => ~HasOp(Tail(q), o)
<1> DEFINE t == Tail(q)
<1>1. /\ \A i \in 1..Len(t) : i + 1 \in 1..Len(q) /\ t[i] = q[i + 1] /\ i + 1 # 1
      /\ \A i \in 1..Len(q) : i # 1 => i - 1 \in 1..Len(t) /\ t[i - 1] = q[i]
      /\ Head(q) = q[1] /\ 1 \in 1..Len(q)
  BY TailLaws
<1> HIDE DEF t
<1>2. ASSUME Head(q).op # o, HasOp(q, o) PROVE HasOp(t, o)
  <2>1. PICK i \in 1..Len(q) : q[i].op = o
    BY <1>2 DEF HasOp
  <2>2. i - 1 \in 1..Len(t) /\ t[i - 1].op = o
    BY <1>1, <1>2, <2>1
  <2> QED
    BY <2>2 DEF HasOp
<1>3. ASSUME HasOp(t, o) PROVE HasOp(q, o)
  <2>1. PICK i \in 1..Len(t) : t[i].op = o
    BY <1>3 DEF HasOp
  <2>2. i + 1 \in 1..Len(q) /\ q[i + 1].op = o
    BY <1>1, <2>1
  <2> QED
    BY <2>2 DEF HasOp
<1>4. ASSUME OpOnce(q, o) PROVE OpOnce(t, o)
  <2> SUFFICES ASSUME NEW i \in 1..Len(t), NEW j \in 1..Len(t), t[i].op = o, t[j].op = o
               PROVE  i = j
    BY DEF OpOnce
  <2>1. i + 1 \in 1..Len(q) /\ j + 1 \in 1..Len(q) /\ q[i + 1].op = o /\ q[j + 1].op = o
    BY <1>1
  <2>2. i + 1 = j + 1
    BY <1>4, <2>1 DEF OpOnce
  <2> QED
    BY <2>2
<1>5. ASSUME OpOnce(q, o), Head(q).op = o PROVE ~HasOp(t, o)
  BY <1>1, <1>5 DEF OpOnce, HasOp
<1> QED
  BY <1>2, <1>3, <1>4, <1>5 DEF t

LEMMA KeepsQueue ==
  ASSUME ResumesOnce, UNCHANGED callbacks
  PROVE  QueuesNoResume /\ KeepsOps
  BY DEF ResumesOnce, QueuesNoResume, KeepsOps

LEMMA AddsToQueue ==
  ASSUME ResumesOnce, NEW R, callbacks \in Seq(R), NEW e \in R, e.op # "resume",
         run_callback(e)
  PROVE  QueuesNoResume /\ callbacks' \in Seq(R)
  BY AppendResumes, AppendLaws DEF ResumesOnce, QueuesNoResume, run_callback

LEMMA TakesFromQueue ==
  ASSUME ResumesOnce, NEW R, callbacks \in Seq(R), callbacks # <<>>, DropCallback
  PROVE  QueuesNoResume /\ callbacks' \in Seq(R)
  BY TailResumes, TailLaws DEF ResumesOnce, QueuesNoResume, DropCallback

-----------------------------------------------------------------------------
(* Steps that neither park nor resume a coroutine.                         *)
LEMMA SameTasks ==
  ASSUME TasksInv, UNCHANGED <<waiters, created, exception>>, cur' \in {cur, NoCo},
         phase' \in {"prepare", "invoke", "exit"}, QueuesNoResume, NoNewTimers({})
  PROVE  TasksInv'
<1> USE DEF TasksInv
<1>1. HubTypeOK'
  BY DEF HubTypeOK
<1>2. Parking' /\ FreshWaiters'
  BY CoAssumption DEF Parking, FreshWaiters, ParkedOn, Unresolved
<1>3. TimersScoped'
  BY DEF TimersScoped, NoNewTimers
<1>4. ResumesOnce'
  BY CoAssumption DEF ResumesOnce, QueuesNoResume
<1> QED
  BY <1>1, <1>2, <1>3, <1>4

(* The running coroutine parks on a new Waiter.                            *)
LEMMA ParkTasks ==
  ASSUME TasksInv, NEW c \in Co, cur = c, park(c), UNCHANGED exception,
         phase' = phase, QueuesNoResume, NoNewTimers({waiter(c)})
  PROVE  TasksInv' /\ waiter(c) \in Waiter /\ waiters'[c] = waiter(c)[2]
<1> USE DEF TasksInv
<1> DEFINE n == created[c] + 1
<1>1. n \in 1..MaxWaits /\ waiter(c) = <<c, n>>
  BY MaxWaitsAssumption DEF park, waiter, HubTypeOK
<1>2. /\ cur' = NoCo
      /\ waiters'[c] = n /\ \A b \in Co : b # c => waiters'[b] = waiters[b]
      /\ created'[c] = n /\ \A b \in Co : b # c => created'[b] = created[b]
  BY DEF park, HubTypeOK
<1>3. HubTypeOK'
  BY <1>1 DEF park, HubTypeOK
<1>4. waiter(c) \in Waiter /\ exception[<<c, n>>] = "false"
  <2>1. <<c, n>> \in Waiter
    BY <1>1 DEF Waiter
  <2>2. n > created[c]
    BY <1>1 DEF HubTypeOK
  <2> QED
    BY <1>1, <2>1, <2>2 DEF FreshWaiters, Unresolved
<1>5. ASSUME NEW w \in Waiter PROVE created'[w[1]] >= created[w[1]]
  BY <1>2 DEF Waiter, HubTypeOK
<1> HIDE DEF n
<1>6. FreshWaiters'
  <2> SUFFICES ASSUME NEW w \in Waiter, w[2] > created'[w[1]] PROVE exception[w] = "false"
    BY DEF FreshWaiters, Unresolved
  <2>1. w[2] > created[w[1]]
    BY <1>3, <1>5 DEF Waiter, HubTypeOK
  <2> QED
    BY <2>1 DEF FreshWaiters, Unresolved
<1>7. Parking'
  BY <1>2, <1>4, <1>1, CoAssumption DEF Parking, ParkedOn, Unresolved
<1>8. TimersScoped'
  <2> SUFFICES ASSUME NEW w \in Waiter, NEW t \in Stopped(w), t \in active' \cup pending'
               PROVE  waiters'[w[1]] = w[2]
    BY DEF TimersScoped
  <2>1. CASE w = <<c, n>>
    BY <1>2, <2>1
  <2>2. CASE w # <<c, n>>
    <3>1. waiters[w[1]] = w[2]
      BY <1>1, <2>2 DEF NoNewTimers, TimersScoped
    <3>2. w[1] \in Co /\ w[2] # 0
      BY DEF Waiter
    <3> QED
      BY <1>2, <3>1, <3>2 DEF Parking
  <2> QED
    BY <2>1, <2>2
<1>9. ResumesOnce'
  BY <1>2, CoAssumption DEF ResumesOnce, QueuesNoResume
<1> QED
  BY <1>1, <1>2, <1>3, <1>4, <1>6, <1>7, <1>8, <1>9

(* Waiter:_switch resumes the coroutine that is parked on w.               *)
LEMMA SwitchTasks ==
  ASSUME TasksInv, cur = NoCo, NEW w \in Waiter, NEW e \in {"nil", "error"}, _switch(w, e),
         phase' = phase, QueuesNoResume, NoNewTimers({}),
         Stopped(w) \cap (active' \cup pending') = {}
  PROVE  /\ TasksInv'
         /\ \A v \in Waiter : v # w => exception'[v] = exception[v]
         /\ \A b \in Co : b # w[1] => waiters'[b] = waiters[b]
<1> USE DEF TasksInv
<1>1. w[1] \in Co /\ w[2] \in 1..MaxWaits /\ w = <<w[1], w[2]>> /\ w[2] # 0
  BY DEF Waiter
<1>2. /\ cur' = w[1] /\ created' = created
      /\ waiters[w[1]] = w[2]
      /\ waiters'[w[1]] = 0 /\ \A b \in Co : b # w[1] => waiters'[b] = waiters[b]
  BY <1>1 DEF _switch, ClearWaiter, HubTypeOK
<1>3. HubTypeOK'
  BY <1>1, MaxWaitsAssumption DEF _switch, ClearWaiter, HubTypeOK
<1>4. \A v \in Waiter : v # w => exception'[v] = exception[v]
  BY DEF _switch, HubTypeOK
<1>5. w[2] = created[w[1]]
  BY <1>1, <1>2 DEF Parking
<1>6. FreshWaiters'
  <2> SUFFICES ASSUME NEW v \in Waiter, v[2] > created[v[1]] PROVE exception'[v] = "false"
    BY <1>2 DEF FreshWaiters, Unresolved
  <2>1. v # w
    BY <1>1, <1>5
  <2> QED
    BY <1>4, <2>1 DEF FreshWaiters, Unresolved
<1>7. Parking'
  <2> SUFFICES ASSUME NEW c \in Co
               PROVE  /\ cur' = c => waiters'[c] = 0
                      /\ waiters'[c] # 0 =>
                           waiters'[c] = created[c] /\ exception'[<<c, waiters'[c]>>] = "false"
    BY <1>2 DEF Parking, ParkedOn, Unresolved
  <2>1. CASE c = w[1]
    BY <1>2, <2>1
  <2>2. CASE c # w[1]
    <3>1. waiters[c] # 0 => <<c, waiters[c]>> \in Waiter /\ <<c, waiters[c]>> # w
      BY <1>1, <2>2, MaxWaitsAssumption DEF Waiter, HubTypeOK
    <3> QED
      BY <1>2, <1>4, <2>2, <3>1 DEF Parking, ParkedOn, Unresolved
  <2> QED
    BY <2>1, <2>2
<1>8. TimersScoped'
  <2> SUFFICES ASSUME NEW v \in Waiter, NEW t \in Stopped(v), t \in active' \cup pending'
               PROVE  waiters'[v[1]] = v[2]
    BY DEF TimersScoped
  <2>1. v # w /\ waiters[v[1]] = v[2]
    BY DEF NoNewTimers, TimersScoped
  <2>2. v[1] # w[1] /\ v[1] \in Co
    BY <1>1, <1>2, <2>1 DEF Waiter
  <2> QED
    BY <1>2, <2>1, <2>2
<1>9. ResumesOnce'
  BY <1>1, <1>2 DEF ResumesOnce, QueuesNoResume
<1> QED
  BY <1>2, <1>3, <1>4, <1>6, <1>7, <1>8, <1>9

(* A coroutine starts.                                                     *)
LEMMA StartTasks ==
  ASSUME TasksInv, NEW R, callbacks \in Seq(R), Start
  PROVE  TasksInv' \/ Head(callbacks).co \notin Co \cup {NoCo}
<1> USE DEF TasksInv
<1> DEFINE c == Head(callbacks).co
<1>1. callbacks # <<>> /\ callbacks' = Tail(callbacks) /\ Head(callbacks).op = "resume"
  BY DEF Start, CallbackIs, DropCallback
<1>2. /\ ResumesDistinct(callbacks')
      /\ \A b \in Co : InResumes(callbacks', b) => InResumes(callbacks, b)
      /\ ~InResumes(callbacks', c)
  BY <1>1, TailResumes DEF ResumesOnce
<1>3. InResumes(callbacks, c)
  BY <1>1, TailLaws DEF InResumes
<1>4. cur' = c /\ UNCHANGED <<waiters, created, exception, active, pending, phase>>
  BY DEF Start, loopState
<1>5. CASE c \in Co \cup {NoCo}
  <2>0. cur = NoCo
    BY DEF Start, CallbackIs, HubIdle
  <2> HIDE DEF c
  <2>1. c \in Co => waiters[c] = 0
    BY <1>3 DEF ResumesOnce
  <2>2. HubTypeOK' /\ Parking' /\ FreshWaiters'
    BY <1>4, <1>5, <2>1 DEF HubTypeOK, Parking, FreshWaiters, ParkedOn, Unresolved
  <2>3. TimersScoped' /\ ResumesOnce'
    BY <1>2, <1>4 DEF TimersScoped, ResumesOnce
  <2> QED
    BY <2>2, <2>3
<1> QED
  BY <1>5
-----------------------------------------------------------------------------
(* Timers of different Waiters are different.                              *)
LEMMA StoppedDiffer ==
  ASSUME NEW v \in Waiter, NEW w \in Waiter, v # w
  PROVE  Stopped(v) \cap Stopped(w) = {}
  BY DEF Stopped, SleepTimer, CallTimer, TimeoutTimer, Waiter

LEMMA SleepIsNoCall ==
  ASSUME NEW v \in Waiter, NEW w \in Waiter
  PROVE  SleepTimer(v) # CallTimer(w)
  BY DEF SleepTimer, CallTimer, TimeoutTimer

(* The queue the main program leaves: every task is started once.          *)
LEMMA TasksListed ==
  /\ SetToSeq(Co) \in [1..Cardinality(Co) -> Co]
  /\ \A i, j \in 1..Cardinality(Co) : SetToSeq(Co)[i] = SetToSeq(Co)[j] => i = j
  /\ Cardinality(Co) \in Nat
<1>1. IsFiniteSet(Co) /\ Cardinality(Co) \in Nat
  BY CoAssumption, FS_CardinalityType
<1>2. ExistsBijection(1..Cardinality(Co), Co)
  BY <1>1, FS_CardinalityType
<1>3. \E f \in [1..Cardinality(Co) -> Co] : IsInjective(f)
  BY <1>2 DEF ExistsBijection, Bijection, Injection
<1>4. SetToSeq(Co) \in [1..Cardinality(Co) -> Co] /\ IsInjective(SetToSeq(Co))
  BY <1>3 DEF SetToSeq
<1> QED
  BY <1>1, <1>4 DEF IsInjective

LEMMA InitTasks ==
  ASSUME NEW R, NEW queue \in Seq(R), TasksInit(queue),
         \A i \in 1..Len(queue) : queue[i].op # "resume",
         \A c \in Co : Callback("resume", c) \in R
  PROVE  TasksInv /\ callbacks \in Seq(R)
<1> DEFINE n == Cardinality(Co)
           f == [i \in 1..n |-> Callback("resume", SetToSeq(Co)[i])]
<1>1. f \in Seq(R) /\ Len(f) = n
  BY TasksListed
<1>2. callbacks = queue \o f
  BY DEF TasksInit, HubInit
<1>5. \A i \in 1..n : f[i].co = SetToSeq(Co)[i]
  BY DEF Callback
<1> HIDE DEF f
<1>0. /\ queue \o f \in Seq(R)
      /\ \A i \in 1..Len(queue \o f) :
            \/ i \in 1..Len(queue) /\ (queue \o f)[i] = queue[i]
            \/ /\ i \notin 1..Len(queue) /\ i - Len(queue) \in 1..Len(f)
               /\ (queue \o f)[i] = f[i - Len(queue)]
  BY <1>1, ConcatLaws
<1>3. /\ callbacks \in Seq(R)
      /\ \A i \in 1..Len(callbacks) :
            \/ i \in 1..Len(queue) /\ callbacks[i] = queue[i]
            \/ /\ i \notin 1..Len(queue) /\ i - Len(queue) \in 1..n
               /\ callbacks[i] = f[i - Len(queue)]
  BY <1>0, <1>1, <1>2
<1>4. Len(queue) \in Nat /\ Len(callbacks) \in Nat
  BY <1>3, LenProperties
<1>6. ResumesDistinct(callbacks)
  <2> SUFFICES ASSUME NEW i \in 1..Len(callbacks), NEW j \in 1..Len(callbacks),
                      callbacks[i].op = "resume", callbacks[j].op = "resume",
                      callbacks[i].co = callbacks[j].co
               PROVE  i = j
    BY DEF ResumesDistinct
  <2>1. /\ i - Len(queue) \in 1..n /\ callbacks[i] = f[i - Len(queue)]
        /\ j - Len(queue) \in 1..n /\ callbacks[j] = f[j - Len(queue)]
    BY <1>3
  <2>2. i - Len(queue) = j - Len(queue)
    BY <1>5, <2>1, TasksListed
  <2> QED
    BY <1>4, <2>2
<1>7. /\ cur = NoCo /\ waiters = [c \in Co |-> 0] /\ created = [c \in Co |-> 0]
      /\ exception = [w \in Waiter |-> "false"] /\ active = {} /\ pending = {}
      /\ phase = "prepare"
  BY DEF TasksInit, HubInit
<1>8. HubTypeOK
  BY <1>7, MaxWaitsAssumption DEF HubTypeOK
<1>9. Parking /\ FreshWaiters /\ TimersScoped
  BY <1>7, CoAssumption DEF Parking, FreshWaiters, TimersScoped, Unresolved
<1>10. ResumesOnce
  BY <1>6, <1>7, CoAssumption DEF ResumesOnce
<1> QED
  BY <1>3, <1>8, <1>9, <1>10 DEF TasksInv

-----------------------------------------------------------------------------
(* A step that parks or resumes nobody leaves the lists parked.            *)
LEMMA SameListed ==
  ASSUME UNCHANGED <<waiters, exception>>, NoNewTimers({})
  PROVE  KeepsListed({}) /\ KeepsResults
<1>1. ASSUME NEW w \in Waiter, SleepTimer(w) \notin active \cup pending
      PROVE  SleepTimer(w) \notin active' \cup pending'
  BY <1>1 DEF NoNewTimers, Stopped
<1>2. KeepsListed({})
  BY <1>1 DEF KeepsListed, Listed, NowListed, Unresolved
<1> QED
  BY <1>2 DEF KeepsResults

LEMMA ParkListed ==
  ASSUME TasksInv, NEW c \in Co, cur = c, park(c), UNCHANGED exception,
         NoNewTimers({waiter(c)})
  PROVE  KeepsListed({}) /\ KeepsResults
<1>1. waiters[c] = 0 /\ \A b \in Co : b # c => waiters'[b] = waiters[b]
  BY DEF park, TasksInv, HubTypeOK, Parking
<1>2. ASSUME NEW w \in Waiter, Listed(w) PROVE NowListed(w)
  <2>1. w[1] \in Co /\ w[1] # c /\ w # waiter(c)
    BY <1>1, <1>2 DEF Listed, Waiter, waiter
  <2>2. SleepTimer(w) \notin active' \cup pending'
    BY <1>2, <2>1 DEF Listed, NoNewTimers, Stopped
  <2> QED
    BY <1>1, <1>2, <2>1, <2>2 DEF Listed, NowListed, Unresolved
<1> QED
  BY <1>2 DEF KeepsListed, KeepsResults

LEMMA SwitchListed ==
  ASSUME TasksInv, NEW w \in Waiter, NEW e \in {"nil", "error"}, _switch(w, e),
         NoNewTimers({})
  PROVE  /\ KeepsListed({w}) /\ KeepsResults
         /\ waiters[w[1]] = w[2] /\ exception'[w] = e /\ exception[w] = "false"
<1>1. /\ waiters[w[1]] = w[2] /\ exception[w] = "false" /\ exception'[w] = e
      /\ \A b \in Co : b # w[1] => waiters'[b] = waiters[b]
      /\ \A v \in Waiter : v # w => exception'[v] = exception[v]
  BY DEF _switch, ClearWaiter, Unresolved, TasksInv, HubTypeOK
<1>2. ASSUME NEW v \in Waiter, v # w, Listed(v) PROVE NowListed(v)
  <2>1. v[1] \in Co /\ v[1] # w[1]
    BY <1>1, <1>2 DEF Listed, Waiter
  <2>2. SleepTimer(v) \notin active' \cup pending'
    BY <1>2 DEF Listed, NoNewTimers, Stopped
  <2> QED
    BY <1>1, <1>2, <2>1, <2>2 DEF Listed, NowListed, Unresolved
<1>3. KeepsResults
  BY <1>1 DEF KeepsResults
<1> QED
  BY <1>1, <1>2, <1>3 DEF KeepsListed

-----------------------------------------------------------------------------
(* The steps of Tasks, for a primitive with the callbacks ops.             *)
LEMMA BlockStep ==
  ASSUME NEW ops, TasksTypeOK(ops), TasksInv, NEW c \in Co, cur = c, Block(c),
         UNCHANGED callbacks
  PROVE  /\ Keeps(ops, {}) /\ KeepsOps
         /\ waiter(c) \in Waiter /\ ~Listed(waiter(c)) /\ NowListed(waiter(c))
<1>1. /\ park(c) /\ UNCHANGED <<exception, pending, phase, kills>>
      /\ active' \subseteq active \cup {CallTimer(waiter(c))}
  BY DEF Block
<1>2. QueuesNoResume /\ KeepsOps
  BY KeepsQueue DEF TasksInv
<1>3. waiter(c) \in Waiter /\ waiters[c] = 0
  BY <1>1, MaxWaitsAssumption DEF park, waiter, Waiter, TasksInv, HubTypeOK, Parking
<1>4. NoNewTimers({waiter(c)})
  <2> SUFFICES ASSUME NEW w \in Waiter, w # waiter(c), NEW t \in Stopped(w),
                      t \in active' \cup pending'
               PROVE  t \in active \cup pending
    BY DEF NoNewTimers
  <2>1. t # CallTimer(waiter(c))
    BY <1>3, StoppedDiffer DEF Stopped
  <2> QED
    BY <1>1, <2>1
<1>5. TasksInv' /\ waiters'[c] = waiter(c)[2]
  BY <1>1, <1>2, <1>4, ParkTasks
<1>6. KeepsListed({}) /\ KeepsResults
  BY <1>1, <1>4, ParkListed
<1>7. TasksTypeOK(ops)'
  <2>1. active' \cup pending' \subseteq TaskTimers
    BY <1>1, <1>3 DEF TasksTypeOK, TaskTimers
  <2> QED
    BY <1>1, <1>5, <2>1 DEF TasksTypeOK, TasksInv, TaskCallbacks
<1>8. waiter(c)[1] = c /\ waiter(c)[2] # 0
  BY <1>3 DEF waiter, Waiter
<1>9. SleepTimer(waiter(c)) \notin active \cup pending
  BY <1>3, <1>8 DEF TasksInv, TimersScoped, Stopped
<1>10. SleepTimer(waiter(c)) \notin active' \cup pending'
  BY <1>1, <1>3, <1>9, SleepIsNoCall
<1>11. Unresolved(waiter(c))
  <2>1. waiter(c)[2] > created[waiter(c)[1]]
    BY DEF waiter, TasksInv, HubTypeOK
  <2> QED
    BY <1>3, <2>1 DEF TasksInv, FreshWaiters
<1> QED
  BY <1>1, <1>2, <1>3, <1>5, <1>6, <1>7, <1>8, <1>10, <1>11 DEF Keeps, Listed, NowListed, Unresolved

(* Resuming a coroutine, for the reason e, by a step that has dealt with   *)
(* the queue.                                                              *)
LEMMA ResumeStep ==
  ASSUME NEW ops, TasksTypeOK(ops), TasksInv, cur = NoCo, NEW w \in Waiter,
         NEW e \in {"nil", "error"}, NEW fired, Resume(w, e, fired), UNCHANGED <<phase, kills>>,
         QueuesNoResume, callbacks' \in Seq(TaskCallbacks(ops))
  PROVE  /\ Keeps(ops, {w})
         /\ waiters[w[1]] = w[2] /\ exception'[w] = e
<1>1. /\ _switch(w, e)
      /\ active' \cup pending' \subseteq active \cup pending
      /\ Stopped(w) \cap (active' \cup pending') = {}
  BY DEF Resume
<1>2. NoNewTimers({})
  BY <1>1 DEF NoNewTimers
<1>3. TasksInv'
  BY <1>1, <1>2, SwitchTasks
<1>4. KeepsListed({w}) /\ KeepsResults /\ waiters[w[1]] = w[2] /\ exception'[w] = e
  BY <1>1, <1>2, SwitchListed
<1>5. TasksTypeOK(ops)'
  BY <1>1, <1>3 DEF TasksTypeOK, TasksInv, TaskCallbacks, TaskTimers
<1> QED
  BY <1>3, <1>4, <1>5 DEF Keeps

(* A coroutine is not in a call of the primitive when its sleep is over.   *)
LEMMA SleepOverStep ==
  ASSUME NEW ops, TasksTypeOK(ops), TasksInv, NEW w \in Waiter, SleepOver(w)
  PROVE  Keeps(ops, {}) /\ KeepsOps /\ UNCHANGED frame
<1>1. /\ cur = NoCo /\ Resume(w, "nil", {SleepTimer(w)}) /\ SleepTimer(w) \in pending
      /\ UNCHANGED <<callbacks, frame, phase, kills>>
  BY DEF SleepOver, InvokedIs, HubIdle
<1>2. QueuesNoResume /\ KeepsOps
  BY <1>1, KeepsQueue DEF TasksInv
<1>3. Keeps(ops, {w})
  BY <1>1, <1>2, ResumeStep DEF TasksTypeOK
<1>4. ~Listed(w)
  BY <1>1 DEF Listed
<1> QED
  BY <1>1, <1>2, <1>3, <1>4 DEF Keeps, KeepsListed

(* A kill or a timeout ends the call that c is parked in, and no other.    *)
LEMMA InterruptedStep ==
  ASSUME NEW ops, TasksTypeOK(ops), TasksInv, NEW c \in Co, Interrupted(c)
  PROVE  /\ Keeps(ops, {ParkedOn(c)}) /\ KeepsOps /\ UNCHANGED frame
         /\ ParkedOn(c) \in Waiter /\ exception'[ParkedOn(c)] = "error"
         /\ frame = "none"
<1>1. waiters[c] # 0
  BY DEF Interrupted, Killed, TimedOut, CanThrow
<1>2. ParkedOn(c) \in Waiter
  BY <1>1, MaxWaitsAssumption DEF ParkedOn, Waiter, TasksInv, HubTypeOK
<1>3. CASE Killed(c)
  <2>1. /\ cur = NoCo /\ frame = "none" /\ callbacks # <<>> /\ Head(callbacks).op = "throw"
        /\ DropCallback
        /\ Resume(ParkedOn(c), "error", {}) /\ UNCHANGED <<frame, phase, kills>>
    BY <1>3 DEF Killed, CallbackIs, HubIdle
  <2>2. QueuesNoResume /\ callbacks' \in Seq(TaskCallbacks(ops))
    BY <2>1, TakesFromQueue DEF TasksInv, TasksTypeOK
  <2>3. KeepsOps
    BY <2>1, TailOps DEF KeepsOps, DropCallback, TasksTypeOK
  <2> QED
    BY <1>2, <2>1, <2>2, <2>3, ResumeStep
<1>4. CASE \E n \in 1..MaxWaits : TimedOut(<<c, n>>)
  <2>1. PICK n \in 1..MaxWaits : TimedOut(<<c, n>>)
    BY <1>4
  <2>2. /\ cur = NoCo /\ frame = "none"
        /\ Resume(ParkedOn(c), "error", {CallTimer(<<c, n>>)})
        /\ UNCHANGED <<callbacks, frame, phase, kills>>
    BY <2>1 DEF TimedOut, InvokedIs, HubIdle
  <2>3. QueuesNoResume /\ KeepsOps
    BY <2>2, KeepsQueue DEF TasksInv
  <2>4. callbacks' \in Seq(TaskCallbacks(ops))
    BY <2>2 DEF TasksTypeOK
  <2> QED
    BY <1>2, <2>2, <2>3, <2>4, ResumeStep
<1> QED
  BY <1>3, <1>4 DEF Interrupted

(* A step that leaves the coroutines and the watchers as they are.         *)
LEMMA QuietStep ==
  ASSUME NEW ops, TasksTypeOK(ops), TasksInv,
         UNCHANGED <<waiters, created, exception, kills>>, cur' \in {cur, NoCo},
         active' \cup pending' \subseteq active \cup pending,
         phase' \in {"prepare", "invoke", "exit"},
         QueuesNoResume, callbacks' \in Seq(TaskCallbacks(ops))
  PROVE  Keeps(ops, {})
<1>1. NoNewTimers({})
  BY DEF NoNewTimers
<1>2. TasksInv'
  BY <1>1, SameTasks
<1>3. KeepsListed({}) /\ KeepsResults
  BY <1>1, SameListed
<1>4. TasksTypeOK(ops)'
  BY <1>2 DEF TasksTypeOK, TasksInv, TaskCallbacks, TaskTimers
<1> QED
  BY <1>2, <1>3, <1>4 DEF Keeps

LEMMA SleepStep ==
  ASSUME NEW ops, TasksTypeOK(ops), TasksInv, NEW c \in Co, sleep(c)
  PROVE  Keeps(ops, {}) /\ KeepsOps /\ UNCHANGED frame
<1>1. /\ cur = c /\ park(c) /\ active' = active \cup {SleepTimer(waiter(c))}
      /\ UNCHANGED <<exception, callbacks, frame, pending, phase, kills>>
  BY DEF sleep
<1>2. QueuesNoResume /\ KeepsOps
  BY <1>1, KeepsQueue DEF TasksInv
<1>3. waiter(c) \in Waiter
  BY <1>1, MaxWaitsAssumption DEF park, waiter, Waiter, TasksInv, HubTypeOK
<1>4. NoNewTimers({waiter(c)})
  <2> SUFFICES ASSUME NEW w \in Waiter, w # waiter(c), NEW t \in Stopped(w),
                      t \in active' \cup pending'
               PROVE  t \in active \cup pending
    BY DEF NoNewTimers
  <2>1. t # SleepTimer(waiter(c))
    BY <1>3, StoppedDiffer DEF Stopped
  <2> QED
    BY <1>1, <2>1
<1>5. TasksInv'
  BY <1>1, <1>2, <1>4, ParkTasks
<1>6. KeepsListed({}) /\ KeepsResults
  BY <1>1, <1>4, ParkListed
<1>7. active' \cup pending' \subseteq TaskTimers
  BY <1>1, <1>3 DEF TasksTypeOK, TaskTimers
<1>8. TasksTypeOK(ops)'
  BY <1>1, <1>5, <1>7 DEF TasksTypeOK, TasksInv, TaskCallbacks
<1> QED
  BY <1>1, <1>2, <1>5, <1>6, <1>8 DEF Keeps

(* Queueing a callback of the primitive.                                   *)
LEMMA QueueStep ==
  ASSUME NEW ops, TasksTypeOK(ops), TasksInv, NEW o \in ops, o # "resume",
         run_callback(Callback(o, NoCo))
  PROVE  /\ QueuesNoResume /\ callbacks' \in Seq(TaskCallbacks(ops))
         /\ HasOp(callbacks', o)
         /\ ~HasOp(callbacks, o) /\ OpOnce(callbacks, o) => OpOnce(callbacks', o)
         /\ \A p : p # o => /\ HasOp(callbacks', p) <=> HasOp(callbacks, p)
                            /\ OpOnce(callbacks, p) => OpOnce(callbacks', p)
<1>1. /\ Callback(o, NoCo) \in TaskCallbacks(ops) /\ Callback(o, NoCo).op = o
      /\ callbacks \in Seq(TaskCallbacks(ops))
  BY DEF Callback, TaskCallbacks, TasksTypeOK
<1>2. QueuesNoResume /\ callbacks' \in Seq(TaskCallbacks(ops))
  BY <1>1, AddsToQueue DEF TasksInv
<1>3. \A p : /\ HasOp(callbacks', p) <=> p = o \/ HasOp(callbacks, p)
             /\ OpOnce(callbacks, p) /\ (p # o \/ ~HasOp(callbacks, p)) => OpOnce(callbacks', p)
  BY <1>1, AppendOps DEF run_callback
<1> QED
  BY <1>2, <1>3

(* Taking the callback of the primitive at the head of the queue.          *)
LEMMA TakeStep ==
  ASSUME NEW ops, TasksTypeOK(ops), TasksInv, NEW o, CallbackIs(o), DropCallback
  PROVE  /\ QueuesNoResume /\ callbacks' \in Seq(TaskCallbacks(ops))
         /\ HasOp(callbacks, o)
         /\ OpOnce(callbacks, o) => OpOnce(callbacks', o) /\ ~HasOp(callbacks', o)
         /\ \A p : p # o => /\ HasOp(callbacks', p) <=> HasOp(callbacks, p)
                            /\ OpOnce(callbacks, p) => OpOnce(callbacks', p)
<1>1. /\ callbacks # <<>> /\ Head(callbacks).op = o /\ callbacks' = Tail(callbacks)
      /\ callbacks \in Seq(TaskCallbacks(ops))
  BY DEF CallbackIs, DropCallback, TasksTypeOK
<1>2. QueuesNoResume /\ callbacks' \in Seq(TaskCallbacks(ops))
  BY <1>1, TakesFromQueue DEF TasksInv
<1>3. HasOp(callbacks, o)
  BY <1>1, TailLaws DEF HasOp
<1> QED
  BY <1>1, <1>2, <1>3, TailOps

(* What tasks and the hub do besides the primitive.                        *)
LEMMA OtherTaskStep ==
  ASSUME NEW ops, TasksTypeOK(ops), TasksInv, NEW c \in Co,
         sleep(c) \/ kill(c) \/ Finish(c)
  PROVE  Keeps(ops, {}) /\ KeepsOps /\ UNCHANGED frame
<1>1. CASE sleep(c)
  BY <1>1, SleepStep
<1>2. CASE kill(c)
  <2>1. /\ Callback("throw", c) \in TaskCallbacks(ops)
        /\ Callback("throw", c).op = "throw"
        /\ callbacks \in Seq(TaskCallbacks(ops))
    BY DEF Callback, TaskCallbacks, TasksTypeOK
  <2>2. run_callback(Callback("throw", c)) /\ kills' \in 0..MaxKills
        /\ UNCHANGED <<cur, waiters, created, exception, frame, active, pending, phase>>
    BY <1>2, TasksAssumption DEF kill, loopState, TasksTypeOK
  <2>3. QueuesNoResume /\ callbacks' \in Seq(TaskCallbacks(ops))
    BY <2>1, <2>2, AddsToQueue DEF TasksInv
  <2>4. KeepsOps
    BY <2>1, <2>2, AppendOps DEF KeepsOps, run_callback
  <2>5. NoNewTimers({})
    BY <2>2 DEF NoNewTimers
  <2>6. TasksInv'
    BY <2>2, <2>3, <2>5, SameTasks DEF TasksInv, HubTypeOK
  <2>7. TasksTypeOK(ops)'
    BY <2>2, <2>3, <2>6 DEF TasksTypeOK, TasksInv, TaskCallbacks, TaskTimers
  <2> QED
    BY <2>2, <2>4, <2>5, <2>6, <2>7, SameListed DEF Keeps
<1>3. CASE Finish(c)
  <2>1. /\ cur' = NoCo
        /\ UNCHANGED <<waiters, created, exception, callbacks, frame, active, pending, phase, kills>>
    BY <1>3 DEF Finish, loopState
  <2>2. QueuesNoResume /\ KeepsOps
    BY <2>1, KeepsQueue DEF TasksInv
  <2> QED
    BY <2>1, <2>2, QuietStep DEF TasksTypeOK, HubTypeOK
<1> QED
  BY <1>1, <1>2, <1>3

LEMMA OtherHubStep ==
  ASSUME NEW ops, TasksTypeOK(ops), TasksInv, TasksHubStep
  PROVE  Keeps(ops, {}) /\ KeepsOps /\ UNCHANGED frame
<1>1. CASE Start
  <2>1. /\ CallbackIs("resume") /\ DropCallback /\ cur' = Head(callbacks).co
        /\ UNCHANGED <<waiters, created, exception, frame, active, pending, phase, kills>>
    BY <1>1 DEF Start, loopState
  <2>0. /\ QueuesNoResume /\ callbacks' \in Seq(TaskCallbacks(ops))
        /\ \A p : p # "resume" => /\ HasOp(callbacks', p) <=> HasOp(callbacks, p)
                                  /\ OpOnce(callbacks, p) => OpOnce(callbacks', p)
    BY <2>1, TakeStep
  <2>2. /\ callbacks' \in Seq(TaskCallbacks(ops)) /\ KeepsOps
    BY <2>0 DEF KeepsOps
  <2>3. Head(callbacks) \in TaskCallbacks(ops)
    BY <2>1, TailLaws DEF CallbackIs, TasksTypeOK
  <2>4. TasksInv'
    BY <1>1, <2>3, StartTasks DEF TasksTypeOK, TaskCallbacks
  <2>5. NoNewTimers({})
    BY <2>1 DEF NoNewTimers
  <2>6. TasksTypeOK(ops)'
    BY <2>1, <2>2, <2>4 DEF TasksTypeOK, TasksInv, TaskCallbacks, TaskTimers
  <2> QED
    BY <2>1, <2>2, <2>4, <2>5, <2>6, SameListed DEF Keeps
<1>2. CASE KillMissed
  <2>1. /\ CallbackIs("throw") /\ DropCallback
        /\ UNCHANGED <<cur, waiters, created, exception, frame, active, pending, phase, kills>>
    BY <1>2 DEF KillMissed, loopState
  <2>0. /\ QueuesNoResume /\ callbacks' \in Seq(TaskCallbacks(ops))
        /\ \A p : p # "throw" => /\ HasOp(callbacks', p) <=> HasOp(callbacks, p)
                                 /\ OpOnce(callbacks, p) => OpOnce(callbacks', p)
    BY <2>1, TakeStep
  <2>2. /\ QueuesNoResume /\ callbacks' \in Seq(TaskCallbacks(ops)) /\ KeepsOps
    BY <2>0 DEF KeepsOps
  <2> QED
    BY <2>1, <2>2, QuietStep DEF TasksTypeOK, HubTypeOK
<1>3. ASSUME NEW w \in Waiter, SleepOver(w)
      PROVE  Keeps(ops, {}) /\ KeepsOps /\ UNCHANGED frame
  BY <1>3, SleepOverStep
<1>4. CASE (Poll \/ NextRound \/ LoopReturns) /\ UNCHANGED kills
  <2>1. /\ UNCHANGED <<cur, waiters, created, exception, callbacks, frame, kills>>
        /\ phase' \in {"prepare", "invoke", "exit"}
        /\ active' \cup pending' \subseteq active \cup pending
    BY <1>4 DEF Poll, NextRound, LoopReturns
  <2>2. QueuesNoResume /\ KeepsOps
    BY <2>1, KeepsQueue DEF TasksInv
  <2> QED
    BY <2>1, <2>2, QuietStep DEF TasksTypeOK
<1> QED
  BY <1>1, <1>2, <1>3, <1>4 DEF TasksHubStep

=============================================================================
