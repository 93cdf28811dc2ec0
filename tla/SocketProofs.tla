---------------------------- MODULE SocketProofs ----------------------------
(***************************************************************************)
(* Sockets and their watchers agree for every number of tasks, sockets and *)
(* descriptors: a watcher belongs to the call that is parked on it, no     *)
(* watcher of a closed socket is polled, and no C socket keeps a           *)
(* descriptor that has been handed out again.                              *)
(***************************************************************************)
EXTENDS Socket, TasksProofs

(* A coroutine is parked only in a call, on the watcher of that call.      *)
ParkedInCall ==
    \A c \in Co : waiters[c] # 0 => call[c] # NoCall /\ _cb[EventOf(call[c])] = ParkedOn(c)

(* The first part of WatchersMatchCalls.                                   *)
WatcherHasCall ==
    \A x \in Event :
       /\ Io(x) \in active <=> _cb[x] # NoWaiter
       /\ Io(x) \in pending => Io(x) \in active
       /\ _cb[x] # NoWaiter =>
             /\ waiters[_cb[x][1]] = _cb[x][2] /\ Unresolved(_cb[x])
             /\ call[_cb[x][1]] # NoCall /\ EventOf(call[_cb[x][1]]) = x

(* A C socket has a descriptor exactly while the Socket is open.           *)
FdsOpen == \A s \in Sock : cobj[s] = "open" <=> fd[s] # NoFd

(* A watcher outlives its socket only until the cancel_wait that close     *)
(* queued for it.                                                          *)
Holds(q, e) == \E i \in 1..Len(q) : q[i] = e
CancelQueued ==
    \A x \in Event :
       Io(x) \in active /\ cobj[x[1]] # "open" => Holds(callbacks, Callback("cancel", x))

(* The inductive invariant.                                                *)
SocketInv ==
    /\ TypeOK /\ TasksInv
    /\ ParkedInCall /\ WatcherHasCall
    /\ FdsOpen /\ OwnDescriptor
    /\ CancelQueued

-----------------------------------------------------------------------------
(* An io watcher is no timer, and each event has its own.                  *)
LEMMA IoLaws ==
  ASSUME NEW x \in Event
  PROVE  /\ Io(x)[1] = "io"
         /\ \A w \in Waiter : Io(x) \notin Stopped(w)
         /\ \A y \in Event : Io(x) = Io(y) => x = y
  BY DEF Io, IoWatcher, Stopped, SleepTimer, CallTimer, TimeoutTimer, Event

LEMMA CallTimerLaws ==
  ASSUME NEW w \in Waiter
  PROVE  CallTimer(w)[1] # "io"
  BY DEF CallTimer, TimeoutTimer

LEMMA NoWaiterLaw == NoWaiter \notin Waiter
  BY CoAssumption DEF NoWaiter, Waiter

LEMMA NoCallLaw ==
  /\ NoCall \notin Calls
  /\ \A k \in Calls : EventOf(k) \in Event /\ EventOf(k)[1] = k.sock /\ k.sock \in Sock
<1>1. NoCall \notin Calls
  <2>1. NoSock \notin Sock
    BY SocketAssumption DEF NoSock, Sock
  <2> QED
    BY <2>1 DEF NoCall, Calls
<1>2. ASSUME NEW k \in Calls
      PROVE  EventOf(k) \in Event /\ EventOf(k)[1] = k.sock /\ k.sock \in Sock
  BY DEF Calls, EventOf, Event, Dir
<1> QED
  BY <1>1, <1>2

(* The coroutine of a started watcher is parked in a call.                 *)
LEMMA WatcherParked ==
  ASSUME SocketInv, NEW x \in Event, _cb[x] # NoWaiter
  PROVE  /\ _cb[x] \in Waiter /\ _cb[x][1] \in Co
         /\ waiters[_cb[x][1]] = _cb[x][2] /\ _cb[x][2] # 0
         /\ call[_cb[x][1]] \in Calls /\ EventOf(call[_cb[x][1]]) = x
<1>1. _cb[x] \in Waiter
  BY DEF SocketInv, TypeOK
<1>2. _cb[x][1] \in Co /\ _cb[x][2] # 0
  BY <1>1 DEF Waiter
<1> QED
  BY <1>1, <1>2 DEF SocketInv, WatcherHasCall, TypeOK

-----------------------------------------------------------------------------
(* The queue keeps the cancels that are not at its head.                   *)
LEMMA HoldsKept ==
  ASSUME callbacks \in Seq(SocketCallbacks), callbacks # <<>>, DropCallback,
         NEW e, e # Head(callbacks), Holds(callbacks, e)
  PROVE  Holds(callbacks', e)
  BY TailHolds DEF Holds, DropCallback

LEMMA HoldsMore ==
  ASSUME NEW q \in Seq(SocketCallbacks), NEW b \in SocketCallbacks, NEW e
  PROVE  Holds(Append(q, b), e) <=> e = b \/ Holds(q, e)
  BY AppendHolds DEF Holds

-----------------------------------------------------------------------------
(* A step that neither parks nor resumes a coroutine, and leaves the       *)
(* sockets alone.                                                          *)
LEMMA OtherStep ==
  ASSUME SocketInv, UNCHANGED sockVars, TasksInv',
         UNCHANGED <<waiters, exception, frame>>,
         callbacks' \in Seq(SocketCallbacks), kills' \in 0..MaxKills,
         active' \subseteq active, pending' \subseteq active \cup pending,
         \A x \in Event : Io(x) \in active => Io(x) \in active',
         \A x \in Event : Io(x) \in pending' => Io(x) \in active,
         \A x \in Event : Io(x) \in active /\ Holds(callbacks, Callback("cancel", x)) =>
            Holds(callbacks', Callback("cancel", x))
  PROVE  SocketInv'
<1>1. UNCHANGED <<cobj, fd, iofd, owner, _cb, timeout, call, changes>>
  BY DEF sockVars
<1>2. TypeOK'
  BY <1>1 DEF SocketInv, TypeOK, TasksInv
<1>3. ParkedInCall'
  BY <1>1 DEF SocketInv, ParkedInCall, ParkedOn
<1>4. WatcherHasCall'
  BY <1>1 DEF SocketInv, WatcherHasCall, Unresolved
<1>5. FdsOpen' /\ OwnDescriptor'
  BY <1>1 DEF SocketInv, FdsOpen, OwnDescriptor
<1>6. CancelQueued'
  <2> SUFFICES ASSUME NEW x \in Event, Io(x) \in active', cobj[x[1]] # "open"
               PROVE  Holds(callbacks', Callback("cancel", x))
    BY <1>1 DEF CancelQueued, Holds, Callback
  <2> QED
    BY DEF SocketInv, CancelQueued
<1> QED
  BY <1>2, <1>3, <1>4, <1>5, <1>6 DEF SocketInv

(* A coroutine is resumed by its watcher or by an exception: it stops the  *)
(* watcher x it is parked on.                                              *)
LEMMA ReleaseStep ==
  ASSUME SocketInv, cur = NoCo, NEW x \in Event, _cb[x] # NoWaiter,
         NEW e \in {"nil", "error"}, _switch(_cb[x], e), StopWatcher(_cb[x], x),
         pending' \subseteq pending \ (Stopped(_cb[x]) \cup {Io(x)}),
         call' \in {call, [call EXCEPT ![_cb[x][1]] = NoCall]},
         UNCHANGED <<frame, phase, kills, cobj, fd, iofd, owner, timeout, changes>>,
         QueuesNoResume, callbacks' \in Seq(SocketCallbacks),
         \A y \in Event : y # x /\ Holds(callbacks, Callback("cancel", y)) =>
            Holds(callbacks', Callback("cancel", y))
  PROVE  SocketInv'
<1> DEFINE w == _cb[x]
           c == w[1]
<1>1. /\ w \in Waiter /\ c \in Co /\ waiters[c] = w[2] /\ w[2] # 0
      /\ call[c] \in Calls /\ EventOf(call[c]) = x
  BY WatcherParked
<1>2. /\ active' = active \ (Stopped(w) \cup {Io(x)})
      /\ _cb' = [_cb EXCEPT ![x] = NoWaiter]
  BY DEF StopWatcher
<1>3. _switch(w, e) /\ NoNewTimers({}) /\ Stopped(w) \cap (active' \cup pending') = {}
  BY <1>2 DEF NoNewTimers
<1>4. /\ TasksInv'
      /\ \A v \in Waiter : v # w => exception'[v] = exception[v]
      /\ \A b \in Co : b # c => waiters'[b] = waiters[b]
  BY <1>1, <1>3, SwitchTasks DEF SocketInv
<1>5. waiters'[c] = 0
  BY <1>1, <1>3 DEF _switch, ClearWaiter, SocketInv, TypeOK, HubTypeOK
<1>6. /\ _cb'[x] = NoWaiter /\ _cb' \in [Event -> Waiter \cup {NoWaiter}]
      /\ \A y \in Event : y # x => _cb'[y] = _cb[y]
  BY <1>2 DEF SocketInv, TypeOK
<1>7. /\ call' \in [Co -> Calls \cup {NoCall}]
      /\ \A b \in Co : b # c => call'[b] = call[b]
  BY <1>1 DEF SocketInv, TypeOK
<1>8. ASSUME NEW y \in Event, y # x, _cb[y] # NoWaiter
      PROVE  _cb[y] \in Waiter /\ _cb[y][1] \in Co /\ _cb[y][1] # c /\ _cb[y] # w
  BY <1>1, <1>8, WatcherParked
<1>9. \A y \in Event : /\ y # x => Io(y) # Io(x)
                       /\ Io(y) \notin Stopped(w)
  BY <1>1, IoLaws
<1> HIDE DEF w, c
<1>10. TypeOK'
  BY <1>2, <1>4, <1>6, <1>7 DEF SocketInv, TypeOK, TasksInv
<1>11. ParkedInCall'
  <2> SUFFICES ASSUME NEW b \in Co, waiters'[b] # 0
               PROVE  call'[b] # NoCall /\ _cb'[EventOf(call'[b])] = <<b, waiters'[b]>>
    BY DEF ParkedInCall, ParkedOn, EventOf
  <2>1. /\ b # c /\ waiters[b] # 0 /\ call'[b] = call[b] /\ waiters'[b] = waiters[b]
        /\ call[b] # NoCall
    BY <1>4, <1>5, <1>7 DEF SocketInv, ParkedInCall
  <2>2. call[b] \in Calls /\ EventOf(call[b]) \in Event /\ _cb[EventOf(call[b])] = <<b, waiters[b]>>
    BY <2>1, NoCallLaw DEF SocketInv, ParkedInCall, ParkedOn, TypeOK
  <2>3. EventOf(call[b]) # x
    BY <1>1, <2>1, <2>2 DEF w, c
  <2> QED
    BY <1>6, <2>1, <2>2, <2>3
<1>12. WatcherHasCall'
  <2> SUFFICES ASSUME NEW y \in Event
               PROVE  /\ Io(y) \in active' <=> _cb'[y] # NoWaiter
                      /\ Io(y) \in pending' => Io(y) \in active'
                      /\ _cb'[y] # NoWaiter =>
                            /\ waiters'[_cb'[y][1]] = _cb'[y][2] /\ exception'[_cb'[y]] = "false"
                            /\ call'[_cb'[y][1]] # NoCall /\ EventOf(call'[_cb'[y][1]]) = y
    BY DEF WatcherHasCall, Unresolved, Io, IoWatcher, EventOf
  <2>1. CASE y = x
    BY <1>2, <1>6, <2>1 DEF w
  <2>2. CASE y # x
    <3>1. _cb'[y] = _cb[y]
      BY <1>6, <2>2
    <3>2. Io(y) \in active' <=> Io(y) \in active
      BY <1>2, <1>9, <2>2
    <3>3. Io(y) \in pending' => Io(y) \in active
      BY DEF SocketInv, WatcherHasCall
    <3>4. ASSUME _cb[y] # NoWaiter
          PROVE  /\ waiters'[_cb[y][1]] = _cb[y][2] /\ exception'[_cb[y]] = "false"
                 /\ call'[_cb[y][1]] # NoCall /\ EventOf(call'[_cb[y][1]]) = y
      <4>1. _cb[y] \in Waiter /\ _cb[y][1] \in Co /\ _cb[y][1] # c /\ _cb[y] # w
        BY <1>8, <2>2, <3>4
      <4>2. /\ waiters[_cb[y][1]] = _cb[y][2] /\ exception[_cb[y]] = "false"
            /\ call[_cb[y][1]] # NoCall /\ EventOf(call[_cb[y][1]]) = y
        BY <3>4 DEF SocketInv, WatcherHasCall, Unresolved
      <4>3. call'[_cb[y][1]] = call[_cb[y][1]] /\ waiters'[_cb[y][1]] = waiters[_cb[y][1]]
            /\ exception'[_cb[y]] = exception[_cb[y]]
        BY <1>4, <1>7, <4>1
      <4> QED
        BY <4>2, <4>3
    <3>5. Io(y) \in active <=> _cb[y] # NoWaiter
      BY DEF SocketInv, WatcherHasCall
    <3> QED
      BY <3>1, <3>2, <3>3, <3>4, <3>5
  <2> QED
    BY <2>1, <2>2
<1>13. FdsOpen' /\ OwnDescriptor'
  BY DEF SocketInv, FdsOpen, OwnDescriptor
<1>14. CancelQueued'
  <2> SUFFICES ASSUME NEW y \in Event, Io(y) \in active', cobj[y[1]] # "open"
               PROVE  Holds(callbacks', Callback("cancel", y))
    BY DEF CancelQueued, Holds, Callback, Io, IoWatcher
  <2>1. y # x /\ Io(y) \in active
    BY <1>2
  <2> QED
    BY <2>1 DEF SocketInv, CancelQueued
<1> QED
  BY <1>4, <1>10, <1>11, <1>12, <1>13, <1>14 DEF SocketInv

-----------------------------------------------------------------------------
(* The steps of the hub.                                                   *)
LEMMA ReadyStep ==
  ASSUME SocketInv, NEW x \in Event, Ready(x)
  PROVE  SocketInv'
<1>1. /\ cur = NoCo /\ Io(x) \in pending /\ _switch(_cb[x], "nil") /\ StopWatcher(_cb[x], x)
      /\ pending' = pending \ (Stopped(_cb[x]) \cup {Io(x)})
      /\ UNCHANGED <<callbacks, frame, phase, kills, cobj, fd, iofd, owner, timeout, call, changes>>
  BY DEF Ready, InvokedIs, HubIdle
<1>2. _cb[x] # NoWaiter
  BY <1>1 DEF SocketInv, WatcherHasCall
<1>3. QueuesNoResume /\ callbacks' \in Seq(SocketCallbacks)
  BY <1>1, KeepsQueue DEF SocketInv, TasksInv, TypeOK
<1> QED
  BY <1>1, <1>2, <1>3, ReleaseStep

(* An exception thrown into the coroutine that is parked on x, by a step   *)
(* that takes a callback from the queue or leaves it alone.                *)
LEMMA ThrowStep ==
  ASSUME SocketInv, cur = NoCo, NEW x \in Event, _cb[x] # NoWaiter,
         NEW fired, Throw(_cb[x], fired),
         \/ UNCHANGED callbacks
         \/ /\ callbacks # <<>> /\ DropCallback
            /\ \A y \in Event : y # x => Head(callbacks) # Callback("cancel", y)
  PROVE  SocketInv'
<1>1. EventOf(call[_cb[x][1]]) = x
  BY WatcherParked
<1>2. /\ _switch(_cb[x], "error") /\ StopWatcher(_cb[x], x)
      /\ pending' \subseteq pending \ (Stopped(_cb[x]) \cup {Io(x)})
      /\ call' = [call EXCEPT ![_cb[x][1]] = NoCall]
      /\ UNCHANGED <<frame, phase, kills, cobj, fd, iofd, owner, timeout, changes>>
  BY <1>1 DEF Throw
<1>3. /\ QueuesNoResume /\ callbacks' \in Seq(SocketCallbacks)
      /\ \A y \in Event : y # x /\ Holds(callbacks, Callback("cancel", y)) =>
            Holds(callbacks', Callback("cancel", y))
  <2>1. CASE UNCHANGED callbacks
    BY <2>1, KeepsQueue DEF SocketInv, TasksInv, TypeOK
  <2>2. CASE /\ callbacks # <<>> /\ DropCallback
             /\ \A y \in Event : y # x => Head(callbacks) # Callback("cancel", y)
    <3>1. QueuesNoResume /\ callbacks' \in Seq(SocketCallbacks)
      BY <2>2, TakesFromQueue DEF SocketInv, TasksInv, TypeOK
    <3>2. ASSUME NEW y \in Event, y # x, Holds(callbacks, Callback("cancel", y))
          PROVE  Holds(callbacks', Callback("cancel", y))
      BY <2>2, <3>2, HoldsKept DEF SocketInv, TypeOK
    <3> QED
      BY <3>1, <3>2
  <2> QED
    BY <2>1, <2>2
<1> QED
  BY <1>2, <1>3, ReleaseStep

(* The head of the queue is no cancel unless its op says so.               *)
LEMMA HeadLaws ==
  ASSUME SocketInv, callbacks # <<>>
  PROVE  /\ Head(callbacks) \in SocketCallbacks
         /\ Head(callbacks).op # "cancel" =>
               \A y \in Event : Head(callbacks) # Callback("cancel", y)
         /\ Head(callbacks).op = "cancel" => Head(callbacks).co \in Event
         /\ Head(callbacks).op # "cancel" => Head(callbacks).co \in Co
         /\ \A y : y # Head(callbacks).co => Head(callbacks) # Callback("cancel", y)
<1>1. Head(callbacks) \in SocketCallbacks
  BY TailLaws DEF SocketInv, TypeOK
<1> QED
  BY <1>1 DEF SocketCallbacks, Callback

LEMMA CancelStep ==
  ASSUME SocketInv, _cancel_wait
  PROVE  SocketInv'
<1> DEFINE x == Head(callbacks).co
<1>1. /\ cur = NoCo /\ callbacks # <<>> /\ Head(callbacks).op = "cancel" /\ DropCallback
      /\ \/ Io(x) \in active /\ Throw(_cb[x], {})
         \/ /\ Io(x) \notin active
            /\ UNCHANGED <<cur, waiters, created, exception, frame, active, pending, phase,
                           kills, sockVars>>
  BY DEF _cancel_wait, CallbackIs, HubIdle, loopState
<1>2. x \in Event /\ \A y : y # x => Head(callbacks) # Callback("cancel", y)
  BY <1>1, HeadLaws
<1> HIDE DEF x
<1>3. CASE Io(x) \in active /\ Throw(_cb[x], {})
  <2>1. _cb[x] # NoWaiter
    BY <1>2, <1>3 DEF SocketInv, WatcherHasCall
  <2> QED
    BY <1>1, <1>2, <1>3, <2>1, ThrowStep
<1>4. CASE /\ Io(x) \notin active
           /\ UNCHANGED <<cur, waiters, created, exception, frame, active, pending, phase,
                          kills, sockVars>>
  <2>1. QueuesNoResume /\ callbacks' \in Seq(SocketCallbacks)
    BY <1>1, TakesFromQueue DEF SocketInv, TasksInv, TypeOK
  <2>2. TasksInv'
    <3>1. NoNewTimers({})
      BY <1>4 DEF NoNewTimers
    <3> QED
      BY <1>4, <2>1, <3>1, SameTasks DEF SocketInv, TypeOK, HubTypeOK
  <2>3. ASSUME NEW y \in Event, Io(y) \in active, Holds(callbacks, Callback("cancel", y))
        PROVE  Holds(callbacks', Callback("cancel", y))
    <3>1. y # x
      BY <1>4, <2>3
    <3> QED
      BY <1>1, <1>2, <2>3, <3>1, HoldsKept DEF SocketInv, TypeOK
  <2>4. \A y \in Event : Io(y) \in pending => Io(y) \in active
    BY DEF SocketInv, WatcherHasCall
  <2> QED
    BY <1>4, <2>1, <2>2, <2>3, <2>4, OtherStep DEF SocketInv, TypeOK
<1> QED
  BY <1>1, <1>3, <1>4

(* A parked coroutine is the one its call's watcher has.                   *)
LEMMA ThrowParked ==
  ASSUME SocketInv, NEW c \in Co, waiters[c] # 0
  PROVE  \E x \in Event : _cb[x] # NoWaiter /\ _cb[x] = ParkedOn(c)
<1>1. /\ call[c] \in Calls /\ EventOf(call[c]) \in Event
      /\ _cb[EventOf(call[c])] = ParkedOn(c)
  BY NoCallLaw DEF SocketInv, ParkedInCall, TypeOK
<1>2. ParkedOn(c) # NoWaiter
  BY CoAssumption DEF ParkedOn, NoWaiter
<1> QED
  BY <1>1, <1>2

LEMMA KilledStep ==
  ASSUME SocketInv, SocketKilled
  PROVE  SocketInv'
<1> DEFINE c == Head(callbacks).co
<1>1. /\ cur = NoCo /\ callbacks # <<>> /\ Head(callbacks).op = "throw" /\ waiters[c] # 0
      /\ DropCallback /\ Throw(ParkedOn(c), {})
  BY DEF SocketKilled, CallbackIs, HubIdle, CanThrow
<1>2. c \in Co /\ \A y \in Event : Head(callbacks) # Callback("cancel", y)
  BY <1>1, HeadLaws
<1> HIDE DEF c
<1>3. PICK x \in Event : _cb[x] # NoWaiter /\ _cb[x] = ParkedOn(c)
  BY <1>1, <1>2, ThrowParked
<1> QED
  BY <1>1, <1>2, <1>3, ThrowStep

LEMMA TimedOutStep ==
  ASSUME SocketInv, NEW w \in Waiter, SocketTimedOut(w)
  PROVE  SocketInv'
<1>1. /\ cur = NoCo /\ waiters[w[1]] # 0 /\ Throw(ParkedOn(w[1]), {CallTimer(w)})
      /\ UNCHANGED callbacks /\ w[1] \in Co
  BY DEF SocketTimedOut, InvokedIs, HubIdle, CanThrow, Waiter
<1>2. PICK x \in Event : _cb[x] # NoWaiter /\ _cb[x] = ParkedOn(w[1])
  BY <1>1, ThrowParked
<1> QED
  BY <1>1, <1>2, ThrowStep

LEMMA RoundStep ==
  ASSUME SocketInv,
         KernelPoll \/ ((NextRound \/ LoopReturns) /\ UNCHANGED <<kills, sockVars>>)
  PROVE  SocketInv'
<1>1. /\ UNCHANGED <<cur, waiters, created, exception, callbacks, frame, kills, sockVars>>
      /\ phase' \in {"prepare", "invoke", "exit"}
  BY DEF KernelPoll, Poll, NextRound, LoopReturns
<1>2. /\ active' \subseteq active /\ pending' \subseteq active \cup pending
      /\ \A t \in active : t[1] = "io" => t \in active'
      /\ pending' \subseteq active \/ pending' = pending
  BY DEF KernelPoll, Poll, NextRound, LoopReturns
<1>3. QueuesNoResume
  BY <1>1, KeepsQueue DEF SocketInv, TasksInv
<1>4. NoNewTimers({})
  BY <1>2 DEF NoNewTimers
<1>5. TasksInv'
  BY <1>1, <1>3, <1>4, SameTasks DEF SocketInv
<1>6. \A x \in Event : Io(x) \in active => Io(x) \in active'
  BY <1>2, IoLaws
<1>7. \A x \in Event : Io(x) \in pending' => Io(x) \in active
  BY <1>2 DEF SocketInv, WatcherHasCall
<1> QED
  BY <1>1, <1>2, <1>5, <1>6, <1>7, OtherStep DEF SocketInv, TypeOK

(* A coroutine starts, or a kill finds that its task has ended.            *)
LEMMA HeadStep ==
  ASSUME SocketInv, (Start \/ KillMissed) /\ UNCHANGED sockVars
  PROVE  SocketInv'
<1>1. /\ cur = NoCo /\ callbacks # <<>> /\ Head(callbacks).op # "cancel" /\ DropCallback
      /\ UNCHANGED <<waiters, created, exception, frame, active, pending, phase, kills>>
  BY DEF Start, KillMissed, CallbackIs, HubIdle, loopState
<1>2. QueuesNoResume /\ callbacks' \in Seq(SocketCallbacks)
  BY <1>1, TakesFromQueue DEF SocketInv, TasksInv, TypeOK
<1>3. TasksInv'
  <2>1. CASE Start
    BY <1>1, <2>1, HeadLaws, StartTasks DEF SocketInv, TypeOK
  <2>2. CASE KillMissed
    <3>1. NoNewTimers({}) /\ cur' = cur
      BY <1>1, <2>2 DEF NoNewTimers, KillMissed
    <3> QED
      BY <1>1, <1>2, <3>1, SameTasks DEF SocketInv, TypeOK, HubTypeOK
  <2> QED
    BY <2>1, <2>2
<1>4. ASSUME NEW y \in Event, Holds(callbacks, Callback("cancel", y))
      PROVE  Holds(callbacks', Callback("cancel", y))
  BY <1>1, <1>4, HeadLaws, HoldsKept DEF SocketInv, TypeOK
<1>5. \A y \in Event : Io(y) \in pending => Io(y) \in active
  BY DEF SocketInv, WatcherHasCall
<1> QED
  BY <1>1, <1>2, <1>3, <1>4, <1>5, OtherStep DEF SocketInv, TypeOK

-----------------------------------------------------------------------------
(* The steps of a running coroutine, which is parked on no watcher.        *)
LEMMA RunningLaws ==
  ASSUME SocketInv, NEW c \in Co, cur = c
  PROVE  /\ waiters[c] = 0
         /\ \A x \in Event : _cb[x] # NoWaiter => _cb[x][1] \in Co /\ _cb[x][1] # c
<1>1. waiters[c] = 0
  BY DEF SocketInv, TasksInv, Parking
<1> QED
  BY <1>1, WatcherParked

(* It returns from its call, or stays out of one: nobody's watcher changes.*)
LEMMA CallsStep ==
  ASSUME SocketInv, NEW c \in Co, cur = c, UNCHANGED <<taskVars, _cb>>,
         call' \in {call, [call EXCEPT ![c] = NoCall]}
  PROVE  /\ TasksInv' /\ ParkedInCall' /\ WatcherHasCall'
         /\ call' \in [Co -> Calls \cup {NoCall}]
<1>1. UNCHANGED <<cur, waiters, created, exception, callbacks, frame, active, pending, phase,
                  kills, _cb>>
  BY DEF taskVars, hubVars
<1>2. /\ call' \in [Co -> Calls \cup {NoCall}]
      /\ \A b \in Co : b # c => call'[b] = call[b]
  BY DEF SocketInv, TypeOK
<1>3. TasksInv'
  <2>1. QueuesNoResume /\ NoNewTimers({})
    BY <1>1, KeepsQueue DEF SocketInv, TasksInv, NoNewTimers
  <2> QED
    BY <1>1, <2>1, SameTasks DEF SocketInv, TypeOK, HubTypeOK
<1>4. ParkedInCall'
  <2> SUFFICES ASSUME NEW b \in Co, waiters[b] # 0
               PROVE  call'[b] # NoCall /\ _cb[EventOf(call'[b])] = <<b, waiters[b]>>
    BY <1>1 DEF ParkedInCall, ParkedOn, EventOf
  <2>1. call'[b] = call[b]
    BY <1>2, RunningLaws
  <2> QED
    BY <2>1 DEF SocketInv, ParkedInCall, ParkedOn
<1>5. WatcherHasCall'
  <2> SUFFICES ASSUME NEW y \in Event
               PROVE  /\ Io(y) \in active <=> _cb[y] # NoWaiter
                      /\ Io(y) \in pending => Io(y) \in active
                      /\ _cb[y] # NoWaiter =>
                            /\ waiters[_cb[y][1]] = _cb[y][2] /\ exception[_cb[y]] = "false"
                            /\ call'[_cb[y][1]] # NoCall /\ EventOf(call'[_cb[y][1]]) = y
    BY <1>1 DEF WatcherHasCall, Unresolved, Io, IoWatcher, EventOf
  <2>1. _cb[y] # NoWaiter => call'[_cb[y][1]] = call[_cb[y][1]]
    BY <1>2, RunningLaws
  <2> QED
    BY <2>1 DEF SocketInv, WatcherHasCall, Unresolved
<1> QED
  BY <1>2, <1>3, <1>4, <1>5

LEMMA ReturnStep ==
  ASSUME SocketInv, NEW c \in Co, NEW s \in Sock, NEW sec \in Timeouts,
         Return(c) \/ set_timeout(c, s, sec)
  PROVE  SocketInv'
<1>1. /\ cur = c /\ call' \in {call, [call EXCEPT ![c] = NoCall]}
      /\ UNCHANGED <<taskVars, cobj, fd, iofd, owner, _cb>>
      /\ timeout' \in [Sock -> Timeouts] /\ changes' \in 0..MaxChanges
  BY SocketAssumption DEF Return, set_timeout, SocketInv, TypeOK
<1>2. /\ TasksInv' /\ ParkedInCall' /\ WatcherHasCall'
      /\ call' \in [Co -> Calls \cup {NoCall}]
  BY <1>1, CallsStep
<1>3. UNCHANGED <<callbacks, frame, active, pending, kills>>
  BY <1>1 DEF taskVars, hubVars
<1>4. TypeOK'
  BY <1>1, <1>2, <1>3 DEF SocketInv, TypeOK, TasksInv
<1>5. FdsOpen' /\ OwnDescriptor' /\ CancelQueued'
  BY <1>1, <1>3 DEF SocketInv, FdsOpen, OwnDescriptor, CancelQueued, Holds
<1> QED
  BY <1>2, <1>4, <1>5 DEF SocketInv

(* A new Socket around a descriptor nobody has.                            *)
LEMMA CreateStep ==
  ASSUME SocketInv, NEW c \in Co, cur = c, NEW s \in Sock, NEW f \in Fd, Create(s, f),
         call' \in {call, [call EXCEPT ![c] = NoCall]},
         UNCHANGED <<taskVars, _cb, timeout, changes>>
  PROVE  SocketInv'
<1>1. /\ cobj[s] = "none" /\ owner[f] = NoSock
      /\ cobj' = [cobj EXCEPT ![s] = "open"] /\ fd' = [fd EXCEPT ![s] = f]
      /\ iofd' = [iofd EXCEPT ![s] = f] /\ owner' = [owner EXCEPT ![f] = s]
  BY DEF Create, _setsock
<1>2. /\ TasksInv' /\ ParkedInCall' /\ WatcherHasCall'
      /\ call' \in [Co -> Calls \cup {NoCall}]
  BY CallsStep
<1>3. UNCHANGED <<callbacks, frame, active, pending, kills>>
  BY DEF taskVars, hubVars
<1>4. TypeOK'
  BY <1>1, <1>2, <1>3 DEF SocketInv, TypeOK, TasksInv
<1>5. f # NoFd /\ NoSock \notin Sock
  BY SocketAssumption DEF Fd, NoFd, NoSock, Sock
<1>6. FdsOpen'
  BY <1>1, <1>5 DEF SocketInv, FdsOpen, TypeOK
<1>7. OwnDescriptor'
  <2> SUFFICES ASSUME NEW n \in Sock, fd'[n] # NoFd PROVE owner'[fd'[n]] = n
    BY DEF OwnDescriptor
  <2>1. CASE n = s
    BY <1>1, <2>1 DEF SocketInv, TypeOK
  <2>2. CASE n # s
    <3>1. fd'[n] = fd[n] /\ fd[n] \in Fd /\ owner[fd[n]] = n
      BY <1>1, <2>2 DEF SocketInv, TypeOK, OwnDescriptor
    <3>2. fd[n] # f
      BY <1>1, <1>5, <3>1
    <3> QED
      BY <1>1, <3>1, <3>2 DEF SocketInv, TypeOK
  <2> QED
    BY <2>1, <2>2
<1>8. CancelQueued'
  <2> SUFFICES ASSUME NEW x \in Event, Io(x) \in active, cobj'[x[1]] # "open"
               PROVE  Holds(callbacks, Callback("cancel", x))
    BY <1>3 DEF CancelQueued, Holds
  <2>1. cobj[x[1]] # "open"
    BY <1>1 DEF SocketInv, TypeOK, Event
  <2> QED
    BY <2>1 DEF SocketInv, CancelQueued
<1> QED
  BY <1>2, <1>4, <1>6, <1>7, <1>8 DEF SocketInv

(* A call that would block is on a socket with a descriptor.               *)
LEMMA BlockedIsOpen ==
  ASSUME SocketInv, NEW k \in Calls, \E r \in Tried(k) : _need_block(k, r)
  PROVE  cobj[k.sock] = "open"
<1>1. PICK r \in Tried(k) : r \in {"EAGAIN", "EINPROGRESS", "EALREADY"}
  BY DEF _need_block
<1>2. k.sock \in Sock /\ k.op \in Op
  BY DEF Calls
<1>3. fd[k.sock] # NoFd
  <2> SUFFICES ASSUME fd[k.sock] = NoFd PROVE FALSE
    OBVIOUS
  <2>1. Tried(k) \subseteq {"EBADF", "nwrite of a bad address", "bad address", "raised"}
    BY <1>2 DEF Tried, Op, _sock_recv, _sock_recvfrom, _sock_send, _sock_sendto, _sock_accept,
                _sock_connect, SystemCall
  <2> QED
    BY <1>1, <2>1
<1> QED
  BY <1>2, <1>3 DEF SocketInv, FdsOpen

(* A call parks on a watcher that nobody else has.                         *)
LEMMA WaitStep ==
  ASSUME SocketInv, NEW c \in Co, NEW k \in Calls, _wait(c, k)
  PROVE  SocketInv'
<1> DEFINE x == EventOf(k)
           w == waiter(c)
<1>1. /\ cur = c /\ _cb[x] = NoWaiter /\ _cb' = [_cb EXCEPT ![x] = w] /\ park(c)
      /\ active \cup {Io(x)} \subseteq active'
      /\ active' \subseteq active \cup {Io(x), CallTimer(w)}
      /\ call' = [call EXCEPT ![c] = k]
      /\ UNCHANGED <<exception, callbacks, frame, pending, phase, kills,
                     cobj, fd, iofd, owner, timeout, changes>>
  BY DEF _wait, Trying, Startable
<1>2. x \in Event /\ x[1] = k.sock /\ cobj[x[1]] = "open"
  BY NoCallLaw, BlockedIsOpen DEF _wait
<1>3. /\ w \in Waiter /\ w[1] = c /\ w[2] # 0 /\ w # NoWaiter /\ w = <<c, w[2]>>
      /\ w[2] > created[c]
  BY <1>1, MaxWaitsAssumption, CoAssumption
     DEF park, waiter, Waiter, NoWaiter, SocketInv, TasksInv, HubTypeOK
<1>4. QueuesNoResume
  BY <1>1, KeepsQueue DEF SocketInv, TasksInv
<1>5. NoNewTimers({w})
  <2> SUFFICES ASSUME NEW v \in Waiter, v # w, NEW t \in Stopped(v), t \in active' \cup pending'
               PROVE  t \in active \cup pending
    BY DEF NoNewTimers
  <2>1. t # CallTimer(w) /\ t # Io(x)
    BY <1>2, <1>3, StoppedDiffer, IoLaws DEF Stopped
  <2> QED
    BY <1>1, <2>1
<1>6. TasksInv' /\ waiters'[c] = w[2]
  BY <1>1, <1>4, <1>5, ParkTasks DEF SocketInv
<1>7. exception[w] = "false"
  BY <1>3 DEF SocketInv, TasksInv, FreshWaiters, Unresolved
<1>8. \A b \in Co : b # c => waiters'[b] = waiters[b]
  BY <1>1 DEF park, SocketInv, TypeOK, HubTypeOK
<1>9. /\ _cb'[x] = w /\ _cb' \in [Event -> Waiter \cup {NoWaiter}]
      /\ \A y \in Event : y # x => _cb'[y] = _cb[y]
  BY <1>1, <1>2, <1>3 DEF SocketInv, TypeOK
<1>10. /\ call'[c] = k /\ call' \in [Co -> Calls \cup {NoCall}]
       /\ \A b \in Co : b # c => call'[b] = call[b]
  BY <1>1 DEF SocketInv, TypeOK
<1>11. \A y \in Event : Io(y) # CallTimer(w)
  BY <1>3, IoLaws DEF Stopped
<1>12. /\ \A y \in Event : y # x => (Io(y) \in active' <=> Io(y) \in active)
       /\ Io(x) \in active'
  BY <1>1, <1>2, <1>11, IoLaws
<1>13. active' \subseteq SocketWatchers
  BY <1>1, <1>2, <1>3 DEF SocketInv, TypeOK, SocketWatchers
<1> HIDE DEF w
<1>14. TypeOK'
  BY <1>1, <1>6, <1>9, <1>10, <1>13 DEF SocketInv, TypeOK, TasksInv
<1>15. k # NoCall
  BY NoCallLaw
<1>16. ParkedInCall'
  <2> SUFFICES ASSUME NEW b \in Co, waiters'[b] # 0
               PROVE  call'[b] # NoCall /\ _cb'[EventOf(call'[b])] = <<b, waiters'[b]>>
    BY DEF ParkedInCall, ParkedOn, EventOf
  <2>1. CASE b = c
    BY <1>3, <1>6, <1>9, <1>10, <1>15, <2>1
  <2>2. CASE b # c
    <3>1. call'[b] = call[b] /\ waiters'[b] = waiters[b]
      BY <1>8, <1>10, <2>2
    <3>2. call[b] \in Calls /\ EventOf(call[b]) \in Event /\ _cb[EventOf(call[b])] = <<b, waiters[b]>>
      BY <3>1, NoCallLaw DEF SocketInv, ParkedInCall, ParkedOn, TypeOK
    <3>3. EventOf(call[b]) # x
      BY <1>1, <3>2, CoAssumption DEF NoWaiter
    <3> QED
      BY <1>9, <3>1, <3>2, <3>3, NoCallLaw
  <2> QED
    BY <2>1, <2>2
<1>17. WatcherHasCall'
  <2> SUFFICES ASSUME NEW y \in Event
               PROVE  /\ Io(y) \in active' <=> _cb'[y] # NoWaiter
                      /\ Io(y) \in pending => Io(y) \in active'
                      /\ _cb'[y] # NoWaiter =>
                            /\ waiters'[_cb'[y][1]] = _cb'[y][2] /\ exception[_cb'[y]] = "false"
                            /\ call'[_cb'[y][1]] # NoCall /\ EventOf(call'[_cb'[y][1]]) = y
    BY <1>1 DEF WatcherHasCall, Unresolved, Io, IoWatcher, EventOf
  <2>1. CASE y = x
    BY <1>3, <1>6, <1>7, <1>9, <1>10, <1>12, <1>15, <2>1
  <2>2. CASE y # x
    <3>1. _cb'[y] = _cb[y] /\ (Io(y) \in active' <=> Io(y) \in active)
      BY <1>9, <1>12, <2>2
    <3>2. _cb[y] # NoWaiter =>
             call'[_cb[y][1]] = call[_cb[y][1]] /\ waiters'[_cb[y][1]] = waiters[_cb[y][1]]
      BY <1>1, <1>8, <1>10, RunningLaws
    <3> QED
      BY <3>1, <3>2 DEF SocketInv, WatcherHasCall, Unresolved
  <2> QED
    BY <2>1, <2>2
<1>18. FdsOpen' /\ OwnDescriptor'
  BY <1>1 DEF SocketInv, FdsOpen, OwnDescriptor
<1>19. CancelQueued'
  <2> SUFFICES ASSUME NEW y \in Event, Io(y) \in active', cobj[y[1]] # "open"
               PROVE  Holds(callbacks, Callback("cancel", y))
    BY <1>1 DEF CancelQueued, Holds, Io, IoWatcher
  <2>1. y # x
    BY <1>2
  <2> QED
    BY <1>12, <2>1 DEF SocketInv, CancelQueued
<1> QED
  BY <1>6, <1>14, <1>16, <1>17, <1>18, <1>19 DEF SocketInv

(* close gives the descriptor back and queues a cancel_wait for each of    *)
(* the socket's two watchers.                                              *)
LEMMA CloseStep ==
  ASSUME SocketInv, NEW c \in Co, NEW s \in Sock, close(c, s)
  PROVE  SocketInv'
<1> DEFINE a == Callback("cancel", <<s, "read">>)
           b == Callback("cancel", <<s, "write">>)
           q == Append(callbacks, a)
<1>1. /\ cur = c /\ cobj[s] = "open" /\ cobj' = [cobj EXCEPT ![s] = "closed"]
      /\ callbacks' = callbacks \o <<a, b>>
      /\ owner' = [owner EXCEPT ![fd[s]] = NoSock] /\ fd' = [fd EXCEPT ![s] = NoFd]
      /\ UNCHANGED <<cur, waiters, created, exception, frame, active, pending, phase, kills,
                     iofd, _cb, timeout, call, changes>>
  BY DEF close, Cancels, ClosedFd, loopState
<1>2. /\ a \in SocketCallbacks /\ b \in SocketCallbacks
      /\ a.op # "resume" /\ b.op # "resume"
  BY DEF Callback, SocketCallbacks, Event, Dir
<1>3. callbacks \in Seq(SocketCallbacks) /\ ResumesDistinct(callbacks)
  BY DEF SocketInv, TypeOK, TasksInv, ResumesOnce
<1> HIDE DEF a, b
<1>4. callbacks' = Append(q, b)
  <2>1. callbacks \o <<a, b>> = Append(Append(callbacks, a), b)
    BY <1>2, <1>3
  <2> QED
    BY <1>1, <2>1
<1>5. q \in Seq(SocketCallbacks) /\ Append(q, b) \in Seq(SocketCallbacks)
  BY <1>2, <1>3, AppendLaws
<1>6. /\ ResumesDistinct(q)
      /\ \A d \in Co : InResumes(q, d) => InResumes(callbacks, d)
  BY <1>2, <1>3, AppendResumes
<1> HIDE DEF q
<1>7. QueuesNoResume
  <2>1. /\ ResumesDistinct(Append(q, b))
        /\ \A d \in Co : InResumes(Append(q, b), d) => InResumes(q, d)
    BY <1>2, <1>5, <1>6, AppendResumes
  <2> QED
    BY <1>4, <1>6, <2>1 DEF QueuesNoResume
<1>8. TasksInv'
  <2>1. NoNewTimers({})
    BY <1>1 DEF NoNewTimers
  <2> QED
    BY <1>1, <1>7, <2>1, SameTasks DEF SocketInv, TypeOK, HubTypeOK
<1>9. \A e : Holds(callbacks', e) <=> e = b \/ e = a \/ Holds(callbacks, e)
  <2>1. \A e : Holds(Append(q, b), e) <=> e = b \/ Holds(q, e)
    BY <1>2, <1>5, HoldsMore
  <2>2. \A e : Holds(q, e) <=> e = a \/ Holds(callbacks, e)
    BY <1>2, <1>3, HoldsMore DEF q
  <2> QED
    BY <1>4, <2>1, <2>2
<1>10. fd[s] \in Fd /\ owner[fd[s]] = s
  BY <1>1 DEF SocketInv, TypeOK, FdsOpen, OwnDescriptor
<1>11. TypeOK'
  BY <1>1, <1>4, <1>5, <1>8, <1>10 DEF SocketInv, TypeOK, TasksInv
<1>12. ParkedInCall' /\ WatcherHasCall'
  BY <1>1 DEF SocketInv, ParkedInCall, ParkedOn, WatcherHasCall, Unresolved
<1>13. FdsOpen'
  BY <1>1 DEF SocketInv, FdsOpen, TypeOK
<1>14. OwnDescriptor'
  <2> SUFFICES ASSUME NEW n \in Sock, fd'[n] # NoFd PROVE owner'[fd'[n]] = n
    BY DEF OwnDescriptor
  <2>1. n # s /\ fd'[n] = fd[n] /\ fd[n] \in Fd /\ owner[fd[n]] = n
    BY <1>1 DEF SocketInv, TypeOK, OwnDescriptor
  <2>2. fd[n] # fd[s]
    BY <1>10, <2>1
  <2> QED
    BY <1>1, <2>1, <2>2 DEF SocketInv, TypeOK
<1>15. CancelQueued'
  <2> SUFFICES ASSUME NEW x \in Event, Io(x) \in active, cobj'[x[1]] # "open"
               PROVE  Holds(callbacks', Callback("cancel", x))
    BY <1>1 DEF CancelQueued, Holds, Callback, Io, IoWatcher
  <2>1. CASE x[1] = s
    <3>1. x = <<s, "read">> \/ x = <<s, "write">>
      BY <2>1 DEF Event, Dir
    <3> QED
      BY <1>9, <3>1 DEF a, b
  <2>2. CASE x[1] # s
    <3>1. cobj[x[1]] # "open"
      BY <1>1, <2>2 DEF SocketInv, TypeOK, Event
    <3> QED
      BY <1>9, <3>1 DEF SocketInv, CancelQueued
  <2> QED
    BY <2>1, <2>2
<1> QED
  BY <1>8, <1>11, <1>12, <1>13, <1>14, <1>15 DEF SocketInv

(* A task kills another one or ends.                                       *)
LEMMA TaskEndStep ==
  ASSUME SocketInv, NEW c \in Co, (kill(c) \/ Finish(c)) /\ UNCHANGED sockVars
  PROVE  SocketInv'
<1>1. \A y \in Event : Io(y) \in pending => Io(y) \in active
  BY DEF SocketInv, WatcherHasCall
<1>2. CASE kill(c)
  <2>1. /\ run_callback(Callback("throw", c)) /\ kills' \in 0..MaxKills
        /\ UNCHANGED <<cur, waiters, created, exception, frame, active, pending, phase>>
    BY <1>2, TasksAssumption DEF kill, loopState, SocketInv, TypeOK
  <2>2. Callback("throw", c) \in SocketCallbacks /\ Callback("throw", c).op = "throw"
    BY DEF Callback, SocketCallbacks
  <2>3. QueuesNoResume /\ callbacks' \in Seq(SocketCallbacks)
    BY <2>1, <2>2, AddsToQueue DEF SocketInv, TasksInv, TypeOK
  <2>4. TasksInv'
    <3>1. NoNewTimers({})
      BY <2>1 DEF NoNewTimers
    <3> QED
      BY <2>1, <2>3, <3>1, SameTasks DEF SocketInv, TypeOK, HubTypeOK
  <2>5. \A y \in Event : Holds(callbacks, Callback("cancel", y)) => Holds(callbacks', Callback("cancel", y))
    BY <2>1, <2>2, HoldsMore DEF run_callback, SocketInv, TypeOK
  <2> QED
    BY <1>1, <2>1, <2>3, <2>4, <2>5, OtherStep
<1>3. CASE Finish(c)
  <2>1. /\ cur' = NoCo
        /\ UNCHANGED <<waiters, created, exception, callbacks, frame, active, pending, phase, kills>>
    BY <1>3 DEF Finish, loopState
  <2>2. QueuesNoResume /\ NoNewTimers({})
    BY <2>1, KeepsQueue DEF SocketInv, TasksInv, NoNewTimers
  <2>3. TasksInv'
    BY <2>1, <2>2, SameTasks DEF SocketInv, TypeOK, HubTypeOK
  <2> QED
    BY <1>1, <2>1, <2>3, OtherStep DEF SocketInv, TypeOK
<1> QED
  BY <1>2, <1>3

-----------------------------------------------------------------------------
(* At first there is no socket and every coroutine waits to be started.    *)
LEMMA SocketBegin ==
  ASSUME Init
  PROVE  SocketInv
<1>1. /\ TasksInit(<<>>)
      /\ cobj = [s \in Sock |-> "none"] /\ fd = [s \in Sock |-> NoFd]
      /\ iofd = [s \in Sock |-> NoFd] /\ owner = [f \in Fd |-> NoSock]
      /\ _cb = [x \in Event |-> NoWaiter] /\ timeout = [s \in Sock |-> "nil"]
      /\ call = [c \in Co |-> NoCall] /\ changes = 0
  BY DEF Init
<1>2. TasksInv /\ callbacks \in Seq(SocketCallbacks)
  <2>1. \A c \in Co : Callback("resume", c) \in SocketCallbacks
    BY DEF Callback, SocketCallbacks
  <2>2. <<>> \in Seq(SocketCallbacks) /\ \A i \in 1..Len(<<>>) : <<>>[i].op # "resume"
    OBVIOUS
  <2> QED
    BY <1>1, <2>1, <2>2, InitTasks
<1>3. /\ frame = "none" /\ active = {} /\ pending = {} /\ kills = 0
      /\ waiters = [c \in Co |-> 0]
  BY <1>1 DEF TasksInit, HubInit
<1>4. kills \in 0..MaxKills /\ changes \in 0..MaxChanges
  BY <1>1, <1>3, TasksAssumption, SocketAssumption
<1>5. TypeOK
  BY <1>1, <1>2, <1>3, <1>4 DEF TypeOK, TasksInv, Timeouts
<1>6. ParkedInCall /\ WatcherHasCall /\ FdsOpen /\ OwnDescriptor /\ CancelQueued
  BY <1>1, <1>3 DEF ParkedInCall, WatcherHasCall, FdsOpen, OwnDescriptor, CancelQueued
<1> QED
  BY <1>2, <1>5, <1>6 DEF SocketInv

(* The invariant of a program whose tasks use sockets.                     *)
THEOREM SocketInvariant == Spec => []SocketInv
<1>1. Init => SocketInv
  BY SocketBegin
<1>2. SocketInv /\ [Next]_vars => SocketInv'
  <2> SUFFICES ASSUME SocketInv, [Next]_vars PROVE SocketInv'
    OBVIOUS
  <2>1. ASSUME NEW c \in Co, TaskStep(c) PROVE SocketInv'
    <3>1. ASSUME NEW s \in Sock, NEW f \in Fd,
                 socket(c, s, f) \/ \E k \in Calls : accept(c, k, s, f)
          PROVE  SocketInv'
      <4>1. /\ cur = c /\ Create(s, f) /\ call' \in {call, [call EXCEPT ![c] = NoCall]}
            /\ UNCHANGED <<taskVars, _cb, timeout, changes>>
        BY <3>1 DEF socket, accept, Trying
      <4> QED
        BY <4>1, CreateStep
    <3>2. ASSUME Return(c) PROVE SocketInv'
      <4>1. \E s \in Sock : TRUE
        BY <3>2, NoCallLaw DEF Return, SocketInv, TypeOK
      <4>2. "nil" \in Timeouts
        BY DEF Timeouts
      <4> QED
        BY <3>2, <4>1, <4>2, ReturnStep
    <3>3. ASSUME NEW s \in Sock, NEW sec \in Timeouts, set_timeout(c, s, sec) PROVE SocketInv'
      BY <3>3, ReturnStep
    <3> QED
      BY <2>1, <3>1, <3>2, <3>3, CloseStep, WaitStep, TaskEndStep DEF TaskStep, Yields
  <2>2. CASE HubStep
    BY <2>2, ReadyStep, CancelStep, KilledStep, TimedOutStep, RoundStep, HeadStep DEF HubStep
  <2>3. CASE UNCHANGED vars
    <3>1. UNCHANGED <<cur, waiters, created, exception, callbacks, frame, active, pending,
                      phase, kills, sockVars>>
      BY <2>3 DEF vars, taskVars, hubVars
    <3>2. QueuesNoResume /\ NoNewTimers({})
      BY <3>1, KeepsQueue DEF SocketInv, TasksInv, NoNewTimers
    <3>3. TasksInv'
      BY <3>1, <3>2, SameTasks DEF SocketInv, TypeOK, HubTypeOK
    <3>4. \A y \in Event : Io(y) \in pending => Io(y) \in active
      BY DEF SocketInv, WatcherHasCall
    <3> QED
      BY <3>1, <3>3, <3>4, OtherStep DEF SocketInv, TypeOK
  <2> QED
    BY <2>1, <2>2, <2>3 DEF Next, Exited
<1> QED
  BY <1>1, <1>2, PTL DEF Spec

(* The watcher that is started has the Waiter of exactly the call that is  *)
(* parked on it.                                                           *)
THEOREM WatchersMatchCallsHolds == Spec => []WatchersMatchCalls
<1>1. SocketInv => WatchersMatchCalls
  BY DEF SocketInv, WatcherHasCall, ParkedInCall, WatchersMatchCalls
<1> QED
  BY <1>1, SocketInvariant, PTL

(* Hub:cancel_wait comes before the loop polls a closed descriptor.        *)
THEOREM NoClosedSocketPolledHolds == Spec => []NoClosedSocketPolled
<1>1. SocketInv => NoClosedSocketPolled
  BY DEF SocketInv, CancelQueued, Holds, NoClosedSocketPolled
<1> QED
  BY <1>1, SocketInvariant, PTL

(* No C socket keeps a descriptor the kernel gave to another socket.       *)
THEOREM OwnDescriptorHolds == Spec => []OwnDescriptor
<1>1. SocketInv => OwnDescriptor
  BY DEF SocketInv
<1> QED
  BY <1>1, SocketInvariant, PTL
=============================================================================
