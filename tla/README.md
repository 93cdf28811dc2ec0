# levent in TLA+

levent is a cooperative networking library for Lua: coroutines over one event
loop (libev), with timeouts, locks, queues, sockets, DNS, HTTP and a MongoDB
driver. One operating system thread runs everything, so the hard questions are
not data races but orders of events: which callback, timer, kill, notification
or descriptor event reaches a parked coroutine first, and what the code that
loses the race leaves behind. These modules model that control and check it.

## The system

| part | source | state | operations | how it meets the others |
|---|---|---|---|---|
| event loop | `levent/loop.lua`, `src/lua-ev.c`, libev's `ev_run` | `_callbacks`, the watchers, libev's active count and pending events | start, stop, run_callback, run, _break | calls watchers' callbacks and queued callbacks |
| hub, Waiters | `levent/hub.lua` | `waiters` (coroutine to Waiter), each Waiter's result | wait, cancel_wait, throw, Waiter:switch/throw/get | the only place that yields and resumes |
| tasks, pool, timeouts | `levent.lua`, `coroutines.lua`, `timeout.lua` | the coroutine pool, running Timeouts | spawn, kill, sleep, timeout.run, start_new | queue callbacks, start timers |
| Event, AsyncResult, Semaphore | `levent/lock.lua` | links, todo, flag, notifier, counter | set, clear, wait, get, acquire, release, _notify | park callers, queue `_notify` |
| Queue | `levent/queue.lua` | items, getters, putters, an Event | put, get, join, the unlock loops | park callers, queue the unlock loops |
| sockets | `levent/socket.lua`, `src/lua-socket.c` | the C socket with its descriptor, two io watchers, a timeout | accept, recv, send, connect, set_timeout, close | park on io watchers, `cancel_wait` |
| select | `levent/select.lua` | watchers of its own, a result and an Event | select_ | as sockets |
| DNS | `levent/dns.lua` | server list, cache, next transaction id | resolve, set_servers | sockets, timeouts |
| HTTP, websocket | `levent/http/`, `src/lua-http-parser.c` | parser, unparsed rest, connection | read_message, serve, send | sockets |
| MongoDB driver | `ext/mongo/init.lua`, `cext/lua-mongo.c` | connection, request ids, cursors | runCommand, findOne, find, hasNext, next, insert, update, delete, disconnect | sockets, BSON |
| BSON codec | `cext/lua-bson.c` | the encoding buffer, a document and its index | encode, encode_order, decode, makeindex, replace, type, the constructors | used by the driver |
| helpers | class, exceptions, signal, tpseri, crypto | none of interest | | |

What makes each part correct: the loop returns exactly when nothing is left and
runs callbacks in order; a coroutine is parked on one Waiter which is resolved
once; a timer never outlives the code that waits for it; a kill reaches its task
or nobody; no primitive loses a waiter or wakes one twice; a queue keeps its
capacity; closing a socket frees everyone parked on it, and no call touches a
descriptor that has become somebody else's; tasks that share a connection to
mongod get their own answers and a cursor hands out every document once; a
document decodes to what it was encoded from. What is hard: a timeout or a kill in
the same round as the event the caller waits for; callbacks that run user code
which calls back into the primitive in the middle of its notify loop; coroutines
that are reused; descriptors that are reused; a failed assertion in the middle
of a loop. `PROJECT.json` lists these hazards line by line with the properties
aimed at them.

## Modules

- `EventLoop`: what the loop promises, without saying how.
- `Loop`: `loop.lua` over `lua-ev.c` and `ev_run`. The bodies of callbacks are
  any sequence of the loop's operations. `phase` is where `ev_run` is, `batch`
  the rest of the table `_run_callback` took, `exec` that a Lua callback runs.
- `LoopProofs`: the theorems about `Loop`.
- `Hub`: the state every layer above shares and the pieces of its actions
  (`park` for `Waiter:get` and `Hub:_yield`, `_switch` for `Waiter:_switch`,
  `CanThrow` and `ParkedOn` for `Hub:throw`, the loop's steps). It uses the loop
  as `EventLoop` describes it. A poll that reports nothing changes nothing here,
  so `Hub!Poll` reports at least one watcher.
- `Levent`: tasks, the pool, sleep, nested `timeout.run`, kill.
- `Tasks`: the tasks that use a primitive (they sleep, kill, end) and the common
  shape of a blocking call: Waiter, Timeout, `xpcall(waiter.get)`, cleanup.
- `Event`, `AsyncResult`, `Semaphore`, `Queue`: one per primitive. `Queue`
  composes `Tasks` with an instance of `Event`, its `cond`. `Locks` puts `Event`
  and `AsyncResult` side by side; tasks share the one or the other.
- `Socket`: the calls of `socket.lua` over the functions of `lua-socket.c`, each
  described by the results it may return. `call[c]` is the call a coroutine is
  in. A call that returns without waiting leaves everything as it was and is no
  step; one that would block parks (`_wait`) and tries again when it is resumed
  (`Return`, `accept` or `_wait` again). `set_timeout` may come under a parked
  call, which looks at the timeout again when it next blocks.
- `Dns`: `dns.resolve` and `set_servers`. A call is parked once per request, so a
  step runs from one request to the next; `call[c]` holds the locals of
  `remote_resolve`. `MCDns` gives the lists, questions and answers for TLC. A
  list given to `set_servers` may hold an entry without a host, at which its
  assertion fails and leaves the entries before it; `/etc/resolv.conf` may be
  unreadable (`resolve_unconfigured`). A name in a response that points back to
  itself keeps `unpack_name` in a loop that never yields
  (`unpack_name_loops`): nothing runs after it.
- `Http`: `client.lua`, `server.lua`'s `handle_conn` and the `read_message` they
  share, over two streams that arrive in arbitrary pieces. A reader is the
  caller's parser and `cached` with the locals of `read_message`; one step is one
  turn of its loop. A message is `MsgLen` units of which the first is the head.
  Of the http-parser library the model keeps that it counts units, refuses a
  message without a head and an end of file inside a message, and keeps its
  error. Messages have a length and leave the connection open: bodies that last
  until the end of the stream, and the parser's refusal of anything after a
  message with `Connection: close`, are left out. Both only make a call return or
  fail where the model goes on.
- `TasksProofs`: what parking, switching, starting, sleeping and killing keep,
  stated once for all modules built on `Tasks`. `LoopProofs`, `LeventProofs`,
  `LocksProofs`, `QueueProofs`, `SocketProofs`, `DnsProofs`, `HttpProofs`: the
  theorems about the module each is named after.
- `Bson`: `lua-bson.c` byte by byte. A call of the encoder is one step, since
  nothing else runs during it; `buf` is the `struct bson` it leaves behind,
  `luaL_error` a mark that all later writes respect. A writer
  reserves what it says it needs and writes what it writes, two different
  numbers, and the bytes of the buffer are copied when it moves to the heap.
  `Same` and `Encodable` say without bytes whether a decoded value is the one that
  was given, and whether a value has an encoding; the properties hold the codec
  against them. They do not use the codec's test for arrays: a list 1, 2, .. n
  must come back as a list, a table without number keys as one with string keys,
  and a nested table with string and number keys may be refused or encoded, with
  every key under its own text. `MCBson` gives the values.
- `Mongo`: the driver with two tasks on one connection. A packet is the sequence
  of its fields with the bytes they take, so that lengths are computed as
  `lua-mongo.c` computes them; a reply comes in four parts, of which the first two
  are its length, so that `recv(4)` may come short (`RecvShort`). It has a small model
  of the socket of its own (one buffer each way, one task parked per direction),
  because `Socket` has no data. mongod is external.

A coroutine runs until it parks, so what it does between two yields is a
sequence of actions during which `cur` names it and the hub does nothing. What a
coroutine does when it is resumed inside a blocking call, the cleanup up to the
point where the call returns, belongs to the action that resumes it. The notify
and unlock loops take one step per turn, because the coroutine a turn resumes
runs user code before the next turn; `frame` says which loop the hub is in.

An operator `X_suffix` that stands right before `X` is a faulty variant of `X`,
a mistake the code could plausibly contain. It is not used by the
specification; `PROJECT.json` says which property notices it when `X` is
replaced by it.

### Abstractions

- Values, exceptions, error texts and time are left out: a timer may expire at
  any poll, a Waiter's result is "none", "value" or "exception".
- Two coroutines of a kind are told apart only by name, a Waiter is the pair of
  its coroutine and a number.
- A Lua table is what `lua-bson.c` sees of it: the border `lua_rawlen` gives and
  its pairs in the order of `lua_next`, which the inputs fix in either order.
- A packet on the driver's connection that was sent in part, or mixed with
  another one (`broken`), is followed until mongod reads it (`misheard`), a reply
  that is read at the wrong place (`torn`) until the step that reads it. What
  either side makes of the wrong bytes after that is left out.
- Integers given to a field that holds a double are converted as C does; only
  positive ones below 2^53 are given. Number keys of tables are positive integers:
  `lua-bson.c` writes a float key of an array as 4294967295, which is left out.
- A system call may succeed, fail or block at any time; a poll may report any
  open descriptor that is watched. Descriptors are handed out lowest first.
- `Queue.length` and `#items` are one number; they differ only if nil is put.
- Garbage collection is not modelled. `Watcher.__gc` is a `stop`, which `Loop`
  allows at any time.

## Runs

| run | checks | bounds |
|---|---|---|
| `loop` | exact reference count; no call into a stopped watcher; the loop returns neither early nor never; queued callbacks run; refinement of `EventLoop` | two timers, one io watcher, three callbacks |
| `levent` | one live Waiter per parked task; timers in scope; kills hit their target; the pool is sound; spawned tasks run, sleepers wake | two coroutines, three tasks (so coroutines are reused), two waits each, timeouts nested twice, one kill |
| `locks` | links are parked; while an Event is set everyone is on the list of a coming `_notify`; nobody is left behind by the one `_notify` of an AsyncResult; waiters are woken | three coroutines, two waits each, timeouts, two sets |
| `event_interrupted` | set wakes everyone: violated, see below | two coroutines, three waits each, a kill, timeouts |
| `semaphore_notify` | `_notify` switches only to unresolved Waiters: violated, see below | two coroutines, two releases |
| `queue` | no lost wakeup, capacity, lists, join's flag, blocked callers are served | three coroutines, capacity one, a kill, timeouts |
| `socket` | watchers and parked calls agree; a closed socket is not polled; descriptors are not confused; close releases callers | two coroutines with two waits each, two sockets, two descriptors, a kill, timeouts, one change of a timeout |
| `dns` | the server list is never corrupted; what is written back is the stable partition by timeout; every call ends, but for the loop of `unpack_name` | two coroutines, three calls, lists of no, two and three servers, one of them cut at an entry without a host, one `set_servers`, the largest transaction id 2 in place of 65535, a clock of two ticks |
| `http` | requests are handled, and responses returned, whole, once and in order without pipelining | four requests of three units on two connections; sends and connections break anywhere |
| `http_pipelined` | no request is parsed twice: violated, see below | two requests of two units on one connection |
| `bson` | what is encoded decodes to what was given, before and after fields are overwritten; what has no encoding is refused and nothing else but mixed tables; no write outside the buffer or the document; the index finds every value of fixed size | `DEFAULT_CAP` 8 in place of 64 and `MAX_DEPTH` 2 in place of 128, so that the buffer grows more than once and the depth is exceeded; about 200 tables and argument lists with every type and the boundaries of the integers; an `int` of 4096 values, so that offsets fit the index in documents of up to 64 bytes (2^26 in C), one of exactly that length and one beyond it; two overwritten fields |
| `mongo` | nobody gets another's answer; mongod reads what was sent; calls fail only when disturbed or after a short `recv(4)`; cursors hand out every document once and in order; nobody waits for a reply that cannot come | one task walks a cursor over no or three documents in batches of two, with two requests to mongod, another makes any one other call; an `int32_t` of six values, a send buffer that holds one packet and not two |

The bounds are the smallest at which the cases at stake happen: in the locks and
the queue three parties (one that is parked, one that is being resumed, one that
interferes), one kill and one timeout against one regular wakeup, one reuse of a coroutine and of a
descriptor, a capacity of one so that the queue is full and empty alternately.

The type invariants of `Levent`, `Event`, `AsyncResult`, `Queue`, `Socket`, `Dns`
and `Http` hold in the same instances; they are stated as `TypeOK` for the reader
and not listed among the runs' properties, which are about behaviour. All are
also part of a proved invariant.

Fairness: the hub takes its next step when it can, because nothing else runs
then (`WF` of `HubStep`); user code that runs gives control back in the end,
which cooperative code must (`WF` of `Yields`, in `Socket` of returning from the
call or yielding). No fairness is assumed for a particular timer or descriptor,
for a program calling `Loop:run`, for set, put or release. In `Dns`, a request
ends because each of its socket calls has a timeout (`WF` of `RequestEnds`), be it
in the loop of `unpack_name`, the one way in which a call of `dns.resolve` does
not end; `ResolveEnds` names it.
`Http`, `Bson` and `Mongo` state safety only; that nobody is stranded on a quiet
connection is an invariant of `Mongo`. In `Loop`, callbacks return and `ev_run`
goes on once called.

### What the violations show

- `event_interrupted`: a wait that is interrupted after `set` copied `links` into
  `todo` and before `_notify` reaches it stays in `todo`. `_notify` fails on it,
  `notifier` stays true, and this Event never notifies again.
- `semaphore_notify`: `xpcall(waiter.get, waiter)` lacks the message handler, so
  from Lua 5.3 on an acquire of a locked semaphore raises with its Waiter linked
  and its Timeout running; `_notify` then fails on that Waiter.
  `tests/test_semaphore.lua` passes because it expects the acquire not to succeed.
- `http_pipelined`: `read_message` assigns `left` only when the parser leaves a
  rest. When the rest it was given is exactly the next message, it returns that
  rest again, and `handle_conn` handles the same request without end.

Observations without a document to hold them against: `join` waits on if the
last item was taken by a `get` that did not have to wait (`cond:set` is only in
`_get_unlock`); `Event:wait` and socket calls turn a kill into an ordinary
failure and the task runs on; a coroutine handle kept after its task ended kills
whatever task got the coroutine; `Signal:unref` calls a method that does not
exist; `connect` raises on a socket that was closed under it; `gen_tid` does not
wrap, so after 65535 queries every `resolve` raises (`resolve_overflow`); an SRV
answer with an address of no target raises after the list was written back; an
answer whose records are all of other types gives an empty table rather than
"no answers"; after a failed `get_response` the client keeps its parser, so a
response on the next connection is parsed in the middle of the old one
(`ResponsesMatchRequests` says "until a call fails" for this reason, and is
violated without it); when the server closes between two messages
`get_response` raises instead of returning an error, because `response.new` is
given a message without headers; a call of `dns.resolve` in flight while
`set_servers` runs writes back the list it had read before, and the preferred
servers are lost (`ServersKept` accepts any configured list).

Sockets: `_sock_sendto` pushes nil and the error of a bad address but returns
only the error, which the caller takes for the number of bytes sent, and it never
frees the address list; `send("")` raises an argument error.

MongoDB driver: the result of `send` is not looked at, so a packet that goes out
in part breaks the framing (`broken`), and a call whose packet was not sent waits
for a reply all the same (`unsent`); `sendall` of two tasks may interleave; a task
may take the middle of a reply another one has begun to read, and `recv(4)` may
return fewer bytes, so that a call fails on a connection nobody disturbed
(`torn`). `RequestsHeard` excepts `broken`, `FailsOnlyDisturbed` `torn`,
`NoCallStranded` `torn` and `unsent`. A cursor mongod has dropped ends its walk without an
error, because `REPLY_CURSORNOTFOUND` is never looked at (`CursorWalks` excepts
it); `findOne` and `runCommand` return the error document of a refused query;
once the request ids leave the range of an `int32_t` every call fails its
assertion (`FailsOnlyDisturbed` ends there).

BSON: `luaL_error` in the encoder jumps past `bson_destroy`, and a buffer on the
heap is lost; an integer outside 32 bits assigned to an `INT32` field keeps its
low half, although the error given for a value that is no integer says "must be a
32bit integer" (`narrowed`; the properties speak of documents to which it has not
happened, and are violated without that); in a document of 2^26 bytes and more the index wraps, and an
assignment writes outside of it; negative dates become
dates in the far future; whether a table with mixed keys is encoded or refused
depends on the order of `lua_next`; a string that begins with a zero byte is
taken for an object, and a key that holds one ends there; lengths of received
documents below five are not refused.

## Proofs

The theorems hold for every value of the constants that satisfies the named
assumptions; the bounds of the runs (`MaxWaits`, `MaxKills` and so on) are
arbitrary there. Each module has one inductive invariant. TLC checked the
invariants of `Levent`, `Locks`, `Queue`, `Socket` and `Http` on small instances
before they were proved; the properties follow from them.

### Loop

`LoopInv`: types, exact reference count, pending and active watchers have a
callback, what each phase of `ev_run` may leave behind. `TypeCorrect`,
`RefAccountingHolds` and `NoCallbackIntoNil` are its parts; `NoEarlyReturnHolds`
is the action property that the loop returns only when it was broken or nothing
is left; `LoopImplementsEventLoop` shows that `Loop` implements `EventLoop` with
`batch \o callbacks` as the queue. The exact count is not inductive by itself:
an expiring timer takes its reference away, so the argument needs that the
timers that fire are active (types), and `NoEarlyReturn` needs that the taken
batch is empty outside prepare (`PhaseInv`), otherwise the count could reach zero
at the end of a round with callbacks left. Assumptions: `WatcherAssumption`
(finitely many watchers, timers are not streams) and `BoundAssumption`.

### Tasks, pool, timeouts

`LeventInv` proves `ParkedOnce`, `TimersInScope`, `KillsItsTarget`, `PoolSound`
and the types together, because they need each other. `TimersInScope` needs
`FreshWaiters` (a Waiter not yet made has no result and no timer), or a new sleep
could meet an old timer, and `RoundInv` (outside a poll nothing is pending).
`KillsItsTarget` is the delicate one: the code remembers only a coroutine, which
may be given to a new task before the kill is carried out. It holds because of
`StaleKillsFirst`: a kill that was meant for an earlier task of a coroutine stands
in the queue before the resume that starts its present task, so it finds nobody.
`ResumesSpawned` and `PoolSound` say that a resume is queued once and only for a
coroutine that was handed out.

### Event, AsyncResult, Queue, Socket

All three modules are built on `Tasks`, and `TasksProofs` proves its part once:
`TasksInv` (a parked coroutine is on its newest Waiter, which has no result;
Waiters not yet made are fresh; a timer that can fire has its coroutine parked on
it; a coroutine is started once) is kept by each piece that the actions are made
of. Its lemmas also say what such a piece does to the Waiters that a primitive
keeps in its lists (`KeepsListed`) and to the callbacks it has queued
(`KeepsOps`), so that the proofs above look only at their own variables.

- `LocksInv`: who is in `links` is parked there and unresolved; while an Event is
  set and no wait was interrupted, everyone in `links` is in `todo` and a
  `_notify` is coming. That needs `TodoWaits` (nobody in `todo` has left `wait`),
  the fact an interruption destroys and the run `event_interrupted` shows
  missing.
- `QueueInv`: the two flags are exact (`Announced`: the flag is up if and only if
  the unlock loop is queued or running, and never twice), who could be served is
  announced (`Served`), capacity, and the lists hold parked Waiters and are
  disjoint. `WithinCapacity` depends on the last: a resumed put stores its item
  without looking again. A first attempt was not inductive: the queue's own
  Event also has a `todo`, and one needs that a Waiter in it is still in `links`
  or already has a result.
- `SocketInv`: `ParkedInCall` and `WatcherHasCall` are the two directions of
  `WatchersMatchCalls`; `FdsOpen` and `OwnDescriptor` tie C socket, descriptor and
  kernel together; `CancelQueued` says that a watcher outlives its socket only
  while the `cancel_wait` that close queued for it is still in the queue, from
  which `NoClosedSocketPolled` follows since the poll comes when the queue is
  empty.

Assumptions: `CoAssumption` (finitely many coroutines, needed where a set of
Waiters is turned into a list) and the naturals of the bounds.

### DNS

`DnsInv` follows the loop of `remote_resolve`: after n servers the list under
construction is the first n, rearranged by an order that puts those that timed
out last, with the border between the groups at `valid_amount` (`Walk`). The
lemmas `DemoteWalk` and `SpliceWalk` extend such an order by a server at the end
and by servers at the border. The action property `WriteBackIsStable` and,
because a rearrangement of a configured list is one again, `ServersKept` follow.
`StablePartition` says by the existence of the order what it means to be a stable
partition, so that no recursion is involved. Assumptions (`DnsAssumption`): the
configured lists are sequences, there is a question to ask.

### HTTP

`HttpInv` gives `RequestsHandledInOrder` and `ResponsesMatchRequests` for messages
of any length, any number of requests and connections, and every way to cut the
streams and to break them. The types hold with pipelining too (`TypeCorrect`);
the rest assumes a client that waits for each response, the one case in which
the code keeps what it promises (`http_pipelined` shows the other).

The two properties need each other. A handler sees one request at a time only
because the client sends the next one after the response to the last, so
`HandlerOk` (what the parser has collected and what is still on the stream are
together a beginning of the next request) needs that a response was sent before it
is returned, and this also after a call of `get_response` has failed, when the
client's parser is no longer where its stream is. `Talks` therefore distinguishes
four relations between the parser and the stream it reads: `InStep`; `Ahead`, the
parser is inside a message of an earlier connection, which ends before the
first response of this one does; `Behind`, what is left on the stream has no head
and will be refused; `Lost`, it was refused. A parser that is ahead can return
one message, put together from two, but then it is behind and returns no
second one before it has failed. While nothing has failed only `InStep` is
possible, which is `ResponsesMatchRequests`. `Opened` says that a connection not yet
used is untouched, so that a reconnected client starts on an empty stream.

A first form of the model could not be reasoned about: it let `read_message`
parse a rest only while the socket was open. The code looks at the socket only
when there is no rest; the guard of `ClientParses` now says so. Assumption
(`HttpAssumption`): a message has at least one unit, its head.

### Only model-checked

- Liveness (`WaitersWoken`, `BlockedAreServed`, `CloseReleases`, `ResolveEnds`, the
  loop's and the tasks'): fairness and ENABLED are out of the prover's reach.
- `Bson`: it recurses over nested tables with RECURSIVE operators, and what it
  computes would need induction over documents.
- `Mongo`: lengths and positions in its streams are sums over packets and their
  parts, so that most lemmas about them would need induction over sequences; its
  properties are checked by TLC.
- The violations: they are counterexamples.

## Plan

1. Done: loop, hub, tasks, locks, queue, sockets, DNS, HTTP, BSON, the MongoDB
   driver; the theorems of the loop, tasks, locks, queue, sockets, DNS and HTTP.
2. `Select`: `select_` with its own watchers, and close under it. `WebSocket`:
   fragmentation, the close handshake, two senders.

## Not modelled

The vendored libraries (`deps/`, `cext/luacrypto`, a binding of OpenSSL that keeps
no state of levent's), except the steps of libev that `Loop` needs; `tpseri`,
address conversion and socket options, which are pure data or pure I/O; of the
codec the generated object ids and the counter of `timestamp`; the text of DNS
and HTTP messages, urls and the files `/etc/hosts` and `/etc/resolv.conf`; `class`
and `exceptions`; constants and library registration; and the
parts listed under the plan until they are done.
