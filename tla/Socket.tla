------------------------------- MODULE Socket -------------------------------
(***************************************************************************)
(* levent/socket.lua over src/lua-socket.c, and Hub:cancel_wait: calls     *)
(* that try a system call on a non-blocking descriptor and park on an io   *)
(* watcher while it would block, and close, which may come while others    *)
(* are parked on the socket.                                               *)
(*                                                                         *)
(* The kernel is external: a system call on an open descriptor succeeds,   *)
(* fails or would block at any time, a poll may report any watched         *)
(* descriptor that is open, and the number of a closed descriptor may be   *)
(* given to the next socket.  Coroutines park only in socket calls here;   *)
(* what else they may be parked in is in the other modules.                *)
(***************************************************************************)
EXTENDS Tasks

CONSTANTS MaxSocks,  \* bound: how many Sockets are ever created
          MaxFds,    \* how many descriptors the process may have
          MaxChanges \* bound: how often timeouts are changed

ASSUME SocketAssumption == {MaxSocks, MaxFds, MaxChanges} \subseteq Nat

Sock == 1..MaxSocks          \* Socket objects, in the order they are created
NoSock == 0                  \* what a free descriptor refers to
Fd == 1..MaxFds
NoFd == 0                    \* the -1 of a closed C socket
Dir == {"read", "write"}
Event == Sock \X Dir         \* Socket._read_event and Socket._write_event
Op == {"accept", "_recv", "_send", "connect"}   \* the calls with a loop
Timeouts == {"nil", "zero", "positive"}
Io(x) == IoWatcher(x[1], x[2])
NoWaiter == <<NoCo, 0>>
Calls == [sock : Sock, op : Op]
NoCall == [sock |-> NoSock, op |-> "none"]

(* The watcher a call waits for.                                           *)
EventOf(k) == <<k.sock, IF k.op \in {"accept", "_recv"} THEN "read" ELSE "write">>

VARIABLES
    cobj,    \* Socket.cobj: "none" before the Socket exists, "open", "closed"
    fd,      \* fd of the C socket object
    iofd,    \* the descriptor number _read_event and _write_event watch
    owner,   \* kernel: the Socket a descriptor was handed out for
    _cb,     \* Watcher._cb of an io watcher: the Waiter it resumes
    timeout, \* Socket.timeout
    call,    \* the Socket and the operation of the call a coroutine is in
    changes  \* how often a timeout was changed

sockVars == <<cobj, fd, iofd, owner, _cb, timeout, call, changes>>
vars == <<taskVars, sockVars>>

(* What is queued in the loop, and its watchers.                           *)
SocketCallbacks ==
    [op : {"resume", "throw"}, co : Co] \cup [op : {"cancel"}, co : Event]
SocketWatchers == {CallTimer(w) : w \in Waiter} \cup {Io(x) : x \in Event}

TypeOK ==
    /\ HubTypeOK
    /\ callbacks \in Seq(SocketCallbacks)
    /\ frame = "none"
    /\ active \cup pending \subseteq SocketWatchers
    /\ kills \in 0..MaxKills
    /\ cobj \in [Sock -> {"none", "open", "closed"}]
    /\ fd \in [Sock -> Fd \cup {NoFd}]
    /\ iofd \in [Sock -> Fd \cup {NoFd}]
    /\ owner \in [Fd -> Sock \cup {NoSock}]
    /\ _cb \in [Event -> Waiter \cup {NoWaiter}]
    /\ timeout \in [Sock -> Timeouts]
    /\ call \in [Co -> Calls \cup {NoCall}]
    /\ changes \in 0..MaxChanges

Init ==
    /\ TasksInit(<<>>)
    /\ cobj = [s \in Sock |-> "none"]
    /\ fd = [s \in Sock |-> NoFd]
    /\ iofd = [s \in Sock |-> NoFd]
    /\ owner = [f \in Fd |-> NoSock]
    /\ _cb = [x \in Event |-> NoWaiter]
    /\ timeout = [s \in Sock |-> "nil"]
    /\ call = [c \in Co |-> NoCall]
    /\ changes = 0

-----------------------------------------------------------------------------
(* Operations of the running coroutine.                                    *)

(* The C object of a new descriptor.                                       *)
_setsock(s, f) == fd' = [fd EXCEPT ![s] = f]

(* Socket:_init around a descriptor the kernel has just handed out, the    *)
(* lowest that is free.                                                    *)
Create(s, f) ==
    /\ cobj[s] = "none" /\ \A n \in Sock : n < s => cobj[n] # "none"
    /\ owner[f] = NoSock /\ \A n \in Fd : n < f => owner[n] # NoSock
    /\ cobj' = [cobj EXCEPT ![s] = "open"]
    /\ _setsock(s, f)
    /\ iofd' = [iofd EXCEPT ![s] = f]
    /\ owner' = [owner EXCEPT ![f] = s]

(* socket.socket.                                                          *)
socket(c, s, f) ==
    /\ cur = c /\ call[c] = NoCall
    /\ Create(s, f)
    /\ UNCHANGED <<taskVars, _cb, timeout, call, changes>>

(* Socket:set_timeout and Socket:setblocking, also under a parked call.    *)
set_timeout(c, s, sec) ==
    /\ cur = c /\ call[c] = NoCall
    /\ cobj[s] = "open"
    /\ changes < MaxChanges
    /\ changes' = changes + 1
    /\ timeout' = [timeout EXCEPT ![s] = sec]
    /\ UNCHANGED <<taskVars, cobj, fd, iofd, owner, _cb, call>>

(* What the functions of lua-socket.c may return: the result, or an error. *)
(* They use the descriptor of the C object they were called with.          *)
SystemCall(s, results) == IF fd[s] = NoFd THEN {"EBADF"} ELSE results

_sock_recv(s) == SystemCall(s, {"data", "EAGAIN", "error"})
_sock_recvfrom(s) == SystemCall(s, {"data", "EAGAIN", "error"})
_sock_send(s) == SystemCall(s, {"nwrite", "EAGAIN", "error"})

(* An address that is none is not sent to: its error number is returned    *)
(* in the place of the number of bytes.                                    *)
_sock_sendto(s) == {"nwrite of a bad address"} \cup SystemCall(s, {"nwrite", "EAGAIN", "error"})

_sock_accept(s) == SystemCall(s, {"csock", "EAGAIN", "error"})
_sock_connect(s) == {"bad address"} \cup SystemCall(s, {"ok", "EISCONN", "EINPROGRESS", "EALREADY", "error"})

(* One turn of the loop of a call.  _recv and _send keep the C object;     *)
(* accept and connect ask the Socket for it again, and closed_socket has   *)
(* no connect: the call raises.                                            *)
Tried(k) ==
    CASE k.op = "_recv" -> _sock_recv(k.sock) \cup _sock_recvfrom(k.sock)
      [] k.op = "_send" -> _sock_send(k.sock) \cup _sock_sendto(k.sock)
      [] k.op = "accept" -> _sock_accept(k.sock)
      [] k.op = "connect" -> IF cobj[k.sock] = "closed" THEN {"raised"} ELSE _sock_connect(k.sock)

(* Socket:_need_block, and its counterpart in connect.                     *)
_need_block(k, err) ==
    /\ timeout[k.sock] # "zero"
    /\ err \in {"EAGAIN", "EINPROGRESS", "EALREADY"}

(* The coroutine c tries the system call of k, for the first time or when  *)
(* its wait is over.  A call begins on an open socket: closed_socket       *)
(* refuses it at once.                                                     *)
Trying(c, k) ==
    /\ cur = c
    /\ call[c] = k \/ (call[c] = NoCall /\ cobj[k.sock] = "open")

(* The call returns the result or the error, or raises.  One that never    *)
(* waited leaves everything as it was and is no step of its own.           *)
Return(c) ==
    /\ cur = c /\ call[c] # NoCall
    /\ \E r \in Tried(call[c]) \ {"csock"} : ~_need_block(call[c], r)
    /\ call' = [call EXCEPT ![c] = NoCall]
    /\ UNCHANGED <<taskVars, cobj, fd, iofd, owner, _cb, timeout, changes>>

(* Socket:accept returns a new Socket.                                     *)
accept(c, k, s, f) ==
    /\ Trying(c, k)
    /\ "csock" \in Tried(k)
    /\ Create(s, f)
    /\ call' = [call EXCEPT ![c] = NoCall]
    /\ UNCHANGED <<taskVars, _cb, timeout, changes>>

(* The assertion of Watcher:start: nobody else waits on the watcher.       *)
Startable_unchecked(x) == TRUE
Startable(x) == _cb[x] = NoWaiter

(* The system call would block: _wait and Hub:wait up to the yield.  If    *)
(* another coroutine is parked on the watcher, Watcher:start raises, _wait *)
(* catches it, and the call returns nil and the failed assertion.          *)
_wait(c, k) ==
    LET x == EventOf(k) IN
    /\ Trying(c, k)
    /\ \E r \in Tried(k) : _need_block(k, r)
    /\ Startable(x)
    /\ _cb' = [_cb EXCEPT ![x] = waiter(c)]
    /\ park(c)
    /\ active' = active \cup {Io(x)} \cup
                    (IF timeout[k.sock] = "positive" THEN {CallTimer(waiter(c))} ELSE {})
    /\ call' = [call EXCEPT ![c] = k]
    /\ UNCHANGED <<exception, callbacks, frame, pending, phase, kills,
                   cobj, fd, iofd, owner, timeout, changes>>

(* _sock_close: what the C object keeps of its descriptor.                 *)
ClosedFd_kept(s) == fd[s]
ClosedFd(s) == NoFd

(* The two Hub:cancel_wait of Socket:close.                                *)
Cancels_readOnly(s) == <<Callback("cancel", <<s, "read">>)>>
Cancels(s) == <<Callback("cancel", <<s, "read">>), Callback("cancel", <<s, "write">>)>>

close(c, s) ==
    /\ cur = c /\ call[c] = NoCall
    /\ cobj[s] = "open"
    /\ cobj' = [cobj EXCEPT ![s] = "closed"]
    /\ callbacks' = callbacks \o Cancels(s)
    /\ owner' = [owner EXCEPT ![fd[s]] = NoSock]
    /\ fd' = [fd EXCEPT ![s] = ClosedFd(s)]
    /\ UNCHANGED <<cur, waiters, created, exception, frame, loopState, kills,
                   iofd, _cb, timeout, call, changes>>

-----------------------------------------------------------------------------
(* Steps of the hub.                                                       *)

(* Hub:wait and _wait after the Waiter was resumed: watcher:stop() on the  *)
(* event x the coroutine was parked on, and t:cancel().                    *)
StopWatcher(w, x) ==
    /\ active' = active \ (Stopped(w) \cup {Io(x)})
    /\ _cb' = [_cb EXCEPT ![x] = NoWaiter]

(* The poll reports descriptors the kernel knows, a stale watcher's too if *)
(* its number is in use again.                                             *)
KernelPoll ==
    /\ Poll
    /\ \A x \in Event : Io(x) \in pending' => owner[iofd[x[1]]] # NoSock
    /\ UNCHANGED <<kills, sockVars>>

(* The io watcher calls its Waiter: the call tries again.                  *)
Ready(x) ==
    /\ InvokedIs(Io(x))
    /\ _switch(_cb[x], "nil")
    /\ StopWatcher(_cb[x], x)
    /\ pending' = pending \ (Stopped(_cb[x]) \cup {Io(x)})
    /\ UNCHANGED <<callbacks, frame, phase, kills, cobj, fd, iofd, owner, timeout,
                   call, changes>>

(* An exception is thrown into the coroutine of w: the call it is parked   *)
(* in returns nil and the exception.                                       *)
Throw(w, fired) ==
    /\ _switch(w, "error")
    /\ StopWatcher(w, EventOf(call[w[1]]))
    /\ pending' = pending \ (Stopped(w) \cup {Io(EventOf(call[w[1]]))} \cup fired)
    /\ call' = [call EXCEPT ![w[1]] = NoCall]
    /\ UNCHANGED <<frame, phase, kills, cobj, fd, iofd, owner, timeout, changes>>

(* Hub:_cancel_wait.                                                       *)
_cancel_wait ==
    LET x == Head(callbacks).co IN
    /\ CallbackIs("cancel")
    /\ DropCallback
    /\ \/ Io(x) \in active /\ Throw(_cb[x], {})
       \/ /\ Io(x) \notin active
          /\ UNCHANGED <<cur, waiters, created, exception, frame, loopState,
                         kills, sockVars>>

(* Hub:throw for levent.kill and for the Timeout of a call.                *)
SocketKilled ==
    LET c == Head(callbacks).co IN
    /\ CallbackIs("throw")
    /\ CanThrow(c)
    /\ DropCallback
    /\ Throw(ParkedOn(c), {})

SocketTimedOut(w) ==
    /\ InvokedIs(CallTimer(w))
    /\ CanThrow(w[1])
    /\ Throw(ParkedOn(w[1]), {CallTimer(w)})
    /\ UNCHANGED callbacks

-----------------------------------------------------------------------------
Yields(c) ==
    \/ \E k \in Calls : _wait(c, k)
    \/ Finish(c) /\ call[c] = NoCall /\ UNCHANGED sockVars

TaskStep(c) ==
    \/ \E s \in Sock : close(c, s)
    \/ \E s \in Sock, f \in Fd :
          socket(c, s, f) \/ \E k \in Calls : accept(c, k, s, f)
    \/ \E s \in Sock, sec \in Timeouts : set_timeout(c, s, sec)
    \/ Return(c)
    \/ kill(c) /\ UNCHANGED sockVars
    \/ Yields(c)

HubStep ==
    \/ \E x \in Event : Ready(x)
    \/ _cancel_wait \/ SocketKilled
    \/ \E w \in Waiter : SocketTimedOut(w)
    \/ KernelPoll
    \/ (Start \/ KillMissed) /\ UNCHANGED sockVars
    \/ (NextRound \/ LoopReturns) /\ UNCHANGED <<kills, sockVars>>

Exited == phase = "exit" /\ UNCHANGED vars

Next == (\E c \in Co : TaskStep(c)) \/ HubStep \/ Exited

(* The hub takes its next step; a running coroutine leaves the call it is  *)
(* in, and parks or ends in the end.                                       *)
Fairness ==
    /\ WF_vars(HubStep)
    /\ \A c \in Co : WF_vars(Return(c) \/ Yields(c))

Spec == Init /\ [][Next]_vars /\ Fairness

-----------------------------------------------------------------------------
(* A call that is parked and the watcher it waits for agree: the watcher   *)
(* that is started has the Waiter of exactly the call that is parked on    *)
(* it, unresolved, whatever resumed, killed, timed out or was refused      *)
(* before.  A second reader of the same socket does not take the first     *)
(* one's watcher away.                                                     *)
WatchersMatchCalls ==
    /\ \A x \in Event :
          /\ Io(x) \in active <=> _cb[x] # NoWaiter
          /\ Io(x) \in pending => Io(x) \in active
          /\ _cb[x] # NoWaiter =>
                /\ waiters[_cb[x][1]] = _cb[x][2] /\ Unresolved(_cb[x])
                /\ call[_cb[x][1]] # NoCall /\ EventOf(call[_cb[x][1]]) = x
    /\ \A c \in Co :
          waiters[c] # 0 /\ call[c] # NoCall => _cb[EventOf(call[c])] = ParkedOn(c)

(* The loop never polls a watcher of a closed socket, whose descriptor may *)
(* by then belong to another socket: cancel_wait comes before the poll.    *)
NoClosedSocketPolled ==
    HubIdle /\ phase = "prepare" /\ callbacks = <<>> =>
       \A x \in Event : Io(x) \in active => cobj[x[1]] = "open"

(* A C socket object never keeps a descriptor the kernel has handed out to *)
(* another socket: a call that tries again after the socket was closed     *)
(* under it cannot read from or write to a stranger.                       *)
OwnDescriptor ==
    \A s \in Sock : fd[s] # NoFd => owner[fd[s]] = s

(* close releases everybody who is in a call on the socket.                *)
InClosed(c) == call[c] # NoCall /\ cobj[call[c].sock] = "closed"
CloseReleases == \A c \in Co : InClosed(c) ~> ~InClosed(c)
=============================================================================
