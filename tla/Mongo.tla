------------------------------- MODULE Mongo -------------------------------
(***************************************************************************)
(* ext/mongo/init.lua over cext/lua-mongo.c: tasks that share one          *)
(* connection to mongod, with commands, queries, cursors and writes.       *)
(*                                                                         *)
(* A packet is the sequence of its fields, each a value and the bytes it   *)
(* takes; a document is known by the query it answers and its place in     *)
(* the result.  A reply is two halves of its length and two of its body,   *)
(* which may arrive apart.  mongod is external: it reads packet after packet,    *)
(* answers in order, may refuse a query, drop an idle cursor or hang up.   *)
(* One task runs at a time, until it parks in the socket or its call ends. *)
(***************************************************************************)
EXTENDS Integers, SequencesExt

CONSTANTS
    Callers,      \* the tasks that share the connection
    Walkers,      \* those that walk a cursor; the others do all the rest
    MaxWalk,      \* bound: calls of a walker that go to the socket
    MaxOther,     \* bound: calls of another task
    INT_RANGE,    \* number of values of an int32_t
    SNDBUF,       \* fields the send buffer of the socket holds
    Results,      \* how many documents a query may find
    Batch,        \* documents mongod puts into one reply
    NameSize, QuerySize, SelectorSize, DocSize   \* bytes

ASSUME MongoAssumption ==
    /\ "none" \notin Callers /\ Walkers \subseteq Callers
    /\ MaxWalk \in Nat /\ MaxOther \in Nat /\ Results \subseteq Nat /\ Batch \in Nat \ {0}
    /\ INT_RANGE \in {2 * n : n \in 1..(INT_RANGE \div 2)}
    /\ SNDBUF \in Nat \ {0}
    /\ {NameSize, QuerySize, SelectorSize, DocSize} \subseteq Nat \ {0}

VARIABLES
    __id,      \* of the client: requests numbered so far
    connected, \* the client has not been disconnected
    running,   \* the task that runs, "none" while the hub does
    call,      \* what a task is doing on the connection
    cursor,    \* the mongo_cursor of a task
    out,       \* fields in the send buffer
    srv,       \* fields mongod has received and not yet read
    alive,     \* its open cursors
    wire,      \* parts of replies on their way
    inp,       \* parts of replies in the receive buffer
    eof,       \* mongod has hung up
    found,     \* how many documents each cursor has to walk
    \* history
    calls,     \* calls begun
    asked,     \* packets sent and not yet read by mongod
    misheard,  \* mongod read something else
    broken,    \* a packet was sent in part, or another one into its middle
    torn,      \* a reader has lost its place in the stream of replies
    disturbed, \* calls overlapped or were interrupted, or mongod refused one
    unsent,    \* a call reads although its packet was not sent
    expired,   \* mongod has dropped a cursor
    raised,    \* a call that waits for a reply has raised an error
    result     \* what a command or findOne returned last, and its query

vars == <<__id, connected, running, call, cursor, out, srv, alive, wire, inp, eof,
          found, calls, asked, misheard, broken, torn, disturbed, unsent, expired, raised, result>>
server == <<srv, alive, wire, eof, found, asked, misheard, expired>>

OP_UPDATE == 2001
OP_INSERT == 2002
OP_QUERY == 2004
OP_GET_MORE == 2005
OP_DELETE == 2006
OP_KILL_CURSORS == 2007

REPLY_CURSORNOTFOUND == "cursor not found"
REPLY_QUERYFAILURE == "query failure"

-----------------------------------------------------------------------------
(* The packets of lua-mongo.c.                                             *)

(* luaL_checkinteger into an int, and write_int32.                         *)
Wrapped(n) == ((n + INT_RANGE \div 2) % INT_RANGE) - INT_RANGE \div 2

write_int32(v) == [v |-> v, size |-> 4]
write_string(name) == [v |-> name, size |-> NameSize + 1]
write_bytes(id) == [v |-> id, size |-> 8]
document(d, size) == [v |-> d, size |-> size]

Bytes(fields) == FoldLeft(LAMBDA n, f : n + f.size, 0, fields)

(* reserve_length and write_length: the length in front counts itself.     *)
write_length(total, fields) == <<[v |-> total, size |-> 4]>> \o fields

(* Mutant: the id is written where a reply has that of its request. *)
Header_swapped(id, opcode) == <<write_int32(0), write_int32(Wrapped(id)), write_int32(opcode)>>
Header(id, opcode) == <<write_int32(Wrapped(id)), write_int32(0), write_int32(opcode)>>

(* Mutant: the selector is not counted. *)
op_query_unselected(id, number, query, selector) ==
    LET head == Header(id, OP_QUERY) \o
                  <<write_int32(0), write_string("name"), write_int32(0), write_int32(number)>>
    IN write_length(4 + Bytes(head) + query.size, head \o <<query>> \o selector)

op_query(id, number, query, selector) ==
    LET head == Header(id, OP_QUERY) \o
                  <<write_int32(0), write_string("name"), write_int32(0), write_int32(number)>>
    IN write_length(4 + Bytes(head) + query.size + Bytes(selector),
                    head \o <<query>> \o selector)

op_get_more(id, number, cursor_id) ==
    LET all == Header(id, OP_GET_MORE) \o
                 <<write_int32(0), write_string("name"), write_int32(number), write_bytes(cursor_id)>>
    IN write_length(4 + Bytes(all), all)

op_kill(cursor_id) ==
    LET all == Header(0, OP_KILL_CURSORS) \o
                 <<write_int32(0), write_int32(1), write_bytes(cursor_id)>>
    IN write_length(4 + Bytes(all), all)

op_delete(single, selector) ==
    LET head == Header(0, OP_DELETE) \o
                  <<write_int32(0), write_string("name"), write_int32(single)>>
    IN write_length(4 + Bytes(head) + selector.size, head \o <<selector>>)

op_update(flags, selector, update) ==
    LET head == Header(0, OP_UPDATE) \o
                  <<write_int32(0), write_string("name"), write_int32(flags)>>
    IN write_length(4 + Bytes(head) + selector.size + update.size,
                    head \o <<selector, update>>)

document_length(docs) == Bytes(docs)

op_insert(flags, docs) ==
    LET head == Header(0, OP_INSERT) \o <<write_int32(flags), write_string("name")>>
    IN write_length(4 + Bytes(head) + document_length(docs), head \o docs)

-----------------------------------------------------------------------------
(* A reply, and what op_reply makes of it.  NoDoc, NoCursorId: nil.        *)
NoDoc == <<>>
NoCursorId == 0

Reply(id, flags, cursor_id, docs) ==
    [response_id |-> id, flags |-> flags, cursor_id |-> cursor_id,
     number |-> Len(docs), docs |-> docs]

First(docs) == IF docs = <<>> THEN NoDoc ELSE docs[1]

(* Without a result table: anything after the first document is an error.  *)
op_reply(r) ==
    [raised |-> r.flags # REPLY_QUERYFAILURE /\ Len(r.docs) > 1,
     id |-> r.response_id, doc |-> First(r.docs)]

(* What op_reply leaves in the result table behind the documents of r:     *)
(* nothing, if their number is the one the reply announces.                *)
Kept_always(r, table) == SubSeq(table, Len(r.docs) + 1, Len(table))
Kept(r, table) ==
    IF Len(r.docs) = r.number THEN <<>> ELSE SubSeq(table, Len(r.docs) + 1, Len(table))

(* Into the result table: the documents replace what it held before.       *)
op_reply_into(r, table) ==
    LET n == Len(r.docs)
    IN IF r.flags = REPLY_QUERYFAILURE
       THEN [succ |-> FALSE, id |-> r.response_id, doc |-> First(r.docs),
             cursor_id |-> NoCursorId, table |-> table]
       ELSE [succ |-> n = r.number, id |-> r.response_id,
             doc |-> IF n = r.number THEN First(r.docs) ELSE NoDoc,
             cursor_id |-> r.cursor_id, table |-> r.docs \o Kept(r, table)]

-----------------------------------------------------------------------------
(* A call is idle, about to try a send or a recv, or parked in one.        *)
NoReply == <<>>
Idle == [pc |-> "idle", op |-> "none", query |-> <<>>, id |-> 0, rest |-> <<>>,
         begun |-> FALSE, reply |-> NoReply, got |-> 0]

NoCursor == [made |-> FALSE, open |-> FALSE, data |-> FALSE, ptr |-> 0,
             cursor_id |-> NoCursorId, document |-> <<>>, selector |-> <<>>,
             handed |-> <<>>, ended |-> FALSE, failed |-> FALSE, closed |-> FALSE]

Init ==
    /\ __id = 0
    /\ connected = TRUE
    /\ running = "none"
    /\ call = [c \in Callers |-> Idle]
    /\ cursor = [c \in Callers |-> NoCursor]
    /\ out = <<>> /\ srv = <<>> /\ alive = {} /\ wire = <<>> /\ inp = <<>>
    /\ eof = FALSE
    /\ found \in [Walkers -> Results]
    /\ calls = [c \in Callers |-> 0] /\ asked = <<>>
    /\ misheard = FALSE /\ broken = FALSE /\ torn = FALSE /\ disturbed = FALSE /\ raised = FALSE
    /\ expired = FALSE /\ unsent = FALSE
    /\ result = [c \in Callers |-> <<>>]

Busy(c) == call[c].pc # "idle"

(* A call of task c begins with its packet made.  After a disconnect       *)
(* __sock is no socket any more and the call raises without a packet sent. *)
Begin(c, op, query, id, packet) ==
    /\ running = "none" /\ ~Busy(c) /\ connected
    /\ calls[c] < (IF c \in Walkers THEN MaxWalk ELSE MaxOther)
    /\ calls' = [calls EXCEPT ![c] = @ + 1]
    /\ running' = c
    /\ call' = [call EXCEPT ![c] = [Idle EXCEPT !.pc = "send", !.op = op, !.query = query,
                                                 !.id = id, !.rest = packet]]
    /\ __id' = IF op \in {"runCommand", "findOne", "hasNext"} THEN id ELSE __id
    /\ disturbed' = (disturbed \/ \E d \in Callers \ {c} : Busy(d))
    /\ UNCHANGED <<connected, cursor, out, inp, server, broken, torn, raised, result, unsent>>

genId == __id + 1

(* No two commands ask the same; each is told apart by its number.         *)
runCommand(c) ==
    LET q == <<"command", c, calls[c]>>
    IN Begin(c, "runCommand", q, genId, op_query(genId, 1, document(q, QuerySize), <<>>))

findOne(c, selector) ==
    LET q == <<"findOne", c, calls[c]>>
    IN Begin(c, "findOne", q, genId, op_query(genId, 1, document(q, QuerySize), selector))

Selector == document("selector", SelectorSize)
Inserted(n) == [i \in 1..n |-> document(<<"doc", i>>, DocSize)]

insert(c) == Begin(c, "insert", <<>>, 0, op_insert(0, Inserted(1)))
batch_insert(c) == Begin(c, "batch_insert", <<>>, 0, op_insert(0, Inserted(2)))

update(c) ==
    Begin(c, "update", <<>>, 0,
          op_update(0, Selector, document("update", DocSize)))

delete(c) ==
    Begin(c, "delete", <<>>, 0, op_delete(0, Selector))

(* mongo_collection:find, once for every task.                             *)
find(c, selector) ==
    /\ running = "none" /\ ~Busy(c) /\ ~cursor[c].made
    /\ cursor' = [cursor EXCEPT ![c] = [NoCursor EXCEPT !.made = TRUE, !.open = TRUE,
                                                        !.selector = selector]]
    /\ UNCHANGED <<__id, connected, running, call, out, inp, server, calls, broken,
                   torn, disturbed, raised, result, unsent>>

(* hasNext, where it has to ask mongod.                                    *)
hasNext(c) ==
    LET cu == cursor[c]
        q == <<"find", c>>
    IN /\ cu.open /\ cu.ptr = 0
       /\ \/ /\ ~cu.data
             /\ Begin(c, "hasNext", q, genId,
                      op_query(genId, 0, document(q, QuerySize), cu.selector))
          \/ /\ cu.data /\ cu.cursor_id # NoCursorId
             /\ Begin(c, "hasNext", q, genId, op_get_more(genId, 0, cu.cursor_id))

(* hasNext, where the last reply was the end of the result.                *)
hasNext_noMore(c) ==
    LET cu == cursor[c]
    IN /\ running = "none" /\ ~Busy(c)
       /\ cu.open /\ cu.ptr = 0 /\ cu.data /\ cu.cursor_id = NoCursorId
       /\ cursor' = [cursor EXCEPT ![c].open = FALSE, ![c].data = FALSE, ![c].ended = TRUE]
       /\ __id' = genId
       /\ UNCHANGED <<connected, running, call, out, inp, server, calls, broken, torn,
                      disturbed, raised, result, unsent>>

next(c) ==
    LET cu == cursor[c]
    IN /\ running = "none" /\ ~Busy(c) /\ cu.ptr # 0
       /\ cursor' = [cursor EXCEPT
             ![c].handed = Append(@, cu.document[cu.ptr]),
             ![c].ptr = IF @ + 1 > Len(cu.document) THEN 0 ELSE @ + 1]
       /\ UNCHANGED <<__id, connected, running, call, out, inp, server, calls, broken,
                      torn, disturbed, raised, result, unsent>>

(* mongo_cursor:close.                                                     *)
close(c) ==
    /\ cursor[c].cursor_id # NoCursorId
    /\ Begin(c, "close", <<"find", c>>, 0, op_kill(cursor[c].cursor_id))

(* mongo_client:disconnect, by a task that is in no call.                  *)
disconnect ==
    /\ running = "none" /\ connected
    /\ connected' = FALSE
    /\ disturbed' = TRUE
    /\ out' = <<>> /\ inp' = <<>> /\ srv' = <<>> /\ wire' = <<>> /\ asked' = <<>>
    /\ UNCHANGED <<__id, running, call, cursor, alive, eof, found, misheard, expired, calls,
                   broken, torn, raised, result, unsent>>

-----------------------------------------------------------------------------
(* Socket:send, and Socket:sendall of the inserts and updates.             *)
SendsAll(c) == call[c].op \in {"insert", "batch_insert", "update"}

(* Mutant: delete waits for a reply too. *)
WantsReply_delete(c) == call[c].op \in {"runCommand", "findOne", "hasNext", "delete"}
WantsReply(c) == call[c].op \in {"runCommand", "findOne", "hasNext"}
MidPacket(d) == Busy(d) /\ call[d].begun /\ call[d].rest # <<>>

(* Whatever send returned, the code goes on ("todo: check send").          *)
Sent(c, cl) ==
    IF WantsReply(c)
    THEN /\ call' = [call EXCEPT ![c] = [cl EXCEPT !.pc = "recv", !.rest = <<>>]]
         /\ running' = c
         /\ UNCHANGED cursor
    ELSE /\ call' = [call EXCEPT ![c] = Idle]
         /\ running' = "none"
         /\ cursor' = [cursor EXCEPT ![c].closed = @ \/ cl.op = "close"]

(* The socket takes what there is room for.                                *)
Send(c) ==
    LET cl == call[c]
        n == Min({Len(cl.rest), SNDBUF - Len(out)})
        left == SubSeq(cl.rest, n + 1, Len(cl.rest))
        whole == [cl EXCEPT !.rest = left, !.begun = TRUE]
    IN /\ running = c /\ cl.pc = "send" /\ connected /\ ~eof
       /\ n > 0
       /\ out' = out \o SubSeq(cl.rest, 1, n)
       /\ asked' = IF cl.begun THEN asked ELSE Append(asked, Tail(cl.rest))
       /\ broken' = \/ broken
                    \/ left # <<>> /\ ~SendsAll(c)
                    \/ \E d \in Callers \ {c} : MidPacket(d)
       /\ IF left # <<>> /\ SendsAll(c)
          THEN call' = [call EXCEPT ![c] = whole] /\ UNCHANGED <<running, cursor>>
          ELSE Sent(c, whole)
       /\ UNCHANGED <<__id, connected, inp, srv, alive, wire, eof, found, misheard, expired, calls,
                      torn, disturbed, raised, result, unsent>>

(* The send buffer is full: the task parks.                                *)
SendWaits(c) ==
    /\ running = c /\ call[c].pc = "send" /\ connected /\ ~eof
    /\ Len(out) = SNDBUF
    /\ \A d \in Callers : call[d].pc # "writing"
    /\ call' = [call EXCEPT ![c].pc = "writing"]
    /\ running' = "none"
    /\ UNCHANGED <<__id, connected, cursor, out, inp, server, calls, broken, torn,
                   disturbed, raised, result, unsent>>

(* send fails: mongod or the client has closed the connection, or another  *)
(* task is parked on the write event.                                      *)
SendFails(c) ==
    /\ running = c /\ call[c].pc = "send"
    /\ \/ ~connected \/ eof
       \/ Len(out) = SNDBUF /\ \E d \in Callers : call[d].pc = "writing"
    /\ Sent(c, call[c])
    /\ broken' = (broken \/ MidPacket(c))
    /\ unsent' = (unsent \/ WantsReply(c))
    /\ disturbed' = TRUE
    /\ UNCHANGED <<__id, connected, out, inp, server, calls, torn, raised, result>>

-----------------------------------------------------------------------------
(* get_reply: recv of the length, then read_full of the rest.              *)

(* driver.length(nil), driver.reply(nil), or of the empty string at the    *)
(* end of the stream, and every assertion.  table is what the result table *)
(* of a cursor holds then.                                                 *)
Raises(c, table) ==
    /\ call' = [call EXCEPT ![c] = Idle]
    /\ running' = "none"
    /\ raised' = TRUE
    /\ cursor' = IF call[c].op = "hasNext"
                 THEN [cursor EXCEPT ![c].failed = TRUE, ![c].document = table]
                 ELSE cursor
    /\ UNCHANGED result

(* assert(request_id == reply_id).                                         *)
IdMatches_unchecked(c, id) == TRUE
IdMatches(c, id) == call[c].id = id

(* The end of hasNext: __cursor and __ptr are set from the reply, or the   *)
(* walk is over.                                                           *)
Turned(cu, into) ==
    LET over == [cu EXCEPT !.open = FALSE, !.data = FALSE, !.cursor_id = NoCursorId]
    IN CASE ~into.succ -> [over EXCEPT !.failed = TRUE]
         [] into.succ /\ into.doc = NoDoc -> [over EXCEPT !.ended = TRUE]
         [] into.succ /\ into.doc # NoDoc ->
              [cu EXCEPT !.document = into.table, !.data = TRUE, !.ptr = 1,
                         !.cursor_id = into.cursor_id]

(* The whole reply r has been read.                                        *)
Answered(c, r) ==
    LET one == op_reply(r)
        into == op_reply_into(r, cursor[c].document)
    IN IF ~IdMatches(c, r.response_id) \/ (call[c].op # "hasNext" /\ one.raised)
       THEN Raises(c, into.table)
       ELSE /\ call' = [call EXCEPT ![c] = Idle]
            /\ running' = "none"
            /\ IF call[c].op = "hasNext"
               THEN /\ cursor' = [cursor EXCEPT ![c] = Turned(@, into)]
                    /\ raised' = (raised \/ ~into.succ)
                    /\ UNCHANGED result
               ELSE /\ result' = [result EXCEPT ![c] = <<call[c].query, one.doc>>]
                    /\ UNCHANGED <<cursor, raised>>

(* A part of a reply: <<r, 1>> and <<r, 2>> are its length, the others the *)
(* rest.                                                                   *)
Parts(r) == [i \in 1..4 |-> <<r, i>>]

(* recv gives what has arrived of what it is asked for: first a length,    *)
(* then read_full goes on until the rest is there.  A length or a rest     *)
(* that is not the one that was due ends in wrong bytes.                   *)
Recv(c) ==
    LET cl == call[c]
        length == cl.reply = NoReply
        n == Min({2 - cl.got, Len(inp)})
        got == SubSeq(inp, 1, n)
        due == IF length THEN SubSeq(Parts(inp[1][1]), 1, 2)
               ELSE SubSeq(Parts(cl.reply[1]), 3 + cl.got, 2 + cl.got + n)
    IN /\ running = c /\ cl.pc = "recv" /\ connected /\ inp # <<>>
       /\ length => n = 2
       /\ inp' = SubSeq(inp, n + 1, Len(inp))
       /\ torn' = (got # due)
       /\ IF length
          THEN /\ call' = [call EXCEPT ![c].reply = <<inp[1][1]>>]
               /\ UNCHANGED <<running, cursor, raised, result>>
          ELSE IF cl.got + n < 2
          THEN /\ call' = [call EXCEPT ![c].got = @ + n]
               /\ UNCHANGED <<running, cursor, raised, result>>
          ELSE Answered(c, cl.reply[1])
       /\ UNCHANGED <<__id, connected, out, server, calls, broken, disturbed, unsent>>

(* recv(4) returns fewer bytes, and driver.length takes what lies behind   *)
(* them for the others: read_full waits for a reply of some other length,  *)
(* or driver.reply refuses what it got.                                    *)
RecvShort(c) ==
    /\ running = c /\ call[c].pc = "recv" /\ connected
    /\ call[c].reply = NoReply /\ Len(inp) = 1
    /\ inp' = <<>>
    /\ torn' = TRUE
    /\ \/ Raises(c, cursor[c].document)
       \/ UNCHANGED <<call, running, raised, cursor, result>>
    /\ UNCHANGED <<__id, connected, out, server, calls, broken, disturbed, unsent>>

Ended == eof /\ wire = <<>>

RecvWaits(c) ==
    /\ running = c /\ call[c].pc = "recv" /\ connected /\ inp = <<>> /\ ~Ended
    /\ \A d \in Callers : call[d].pc # "reading"
    /\ call' = [call EXCEPT ![c].pc = "reading"]
    /\ running' = "none"
    /\ UNCHANGED <<__id, connected, cursor, out, inp, server, calls, broken, torn,
                   disturbed, raised, result, unsent>>

(* The connection is closed, or another task is parked on the read event.  *)
RecvFails(c) ==
    /\ running = c /\ call[c].pc = "recv"
    /\ \/ ~connected
       \/ inp = <<>> /\ (Ended \/ \E d \in Callers : call[d].pc = "reading")
    /\ Raises(c, cursor[c].document)
    /\ disturbed' = TRUE
    /\ UNCHANGED <<__id, connected, out, inp, server, calls, broken, torn, unsent>>

-----------------------------------------------------------------------------
(* The hub resumes a parked task: its event came.                          *)
Resume(c) ==
    /\ running = "none" /\ connected
    /\ \/ /\ call[c].pc = "writing" /\ (Len(out) < SNDBUF \/ eof)
          /\ call' = [call EXCEPT ![c].pc = "send"]
       \/ /\ call[c].pc = "reading" /\ (inp # <<>> \/ Ended)
          /\ call' = [call EXCEPT ![c].pc = "recv"]
    /\ running' = c
    /\ UNCHANGED <<__id, connected, cursor, out, inp, server, calls, broken, torn,
                   disturbed, raised, result, unsent>>

(* An exception is thrown into it, which _wait turns into a result: send   *)
(* returns nil and the code goes on, recv returns nil and the code raises. *)
Thrown(c) ==
    /\ running = "none"
    /\ \/ /\ call[c].pc = "writing"
          /\ Sent(c, call[c])
          /\ broken' = (broken \/ MidPacket(c))
          /\ unsent' = (unsent \/ WantsReply(c))
          /\ UNCHANGED <<raised, result>>
       \/ /\ call[c].pc = "reading"
          /\ Raises(c, cursor[c].document)
          /\ UNCHANGED <<broken, unsent>>
    /\ disturbed' = TRUE
    /\ UNCHANGED <<__id, connected, out, inp, server, calls, torn>>

(* levent.kill or the Timeout of a caller.                                 *)
Interrupt(c) == connected /\ Thrown(c)

(* Hub:_cancel_wait, after disconnect.                                     *)
Cancel(c) == ~connected /\ Thrown(c)

-----------------------------------------------------------------------------
(* mongod and the network.  What comes while a task runs is what comes     *)
(* just before or after: the task would only have parked.                  *)
clientVars == <<__id, connected, running, call, cursor, calls, broken, torn, unsent, raised,
                result>>

(* The batch of documents of a query from number from on, and the cursor   *)
(* that is left.                                                           *)
Total(q) == found[q[2]]
BatchOf(q, from) == [i \in 1..Min({Batch, Total(q) + 1 - from}) |-> <<q, from + i - 1>>]
Cursors(id, q, from) ==
    IF from + Batch > Total(q) THEN {} ELSE {[id |-> id, query |-> q, next |-> from + Batch]}
CursorId(cursors) == IF cursors = {} THEN NoCursorId ELSE (CHOOSE k \in cursors : TRUE).id

(* How mongod may take a packet p: the replies it sends and the cursors it *)
(* has open then.                                                          *)
Outcomes(p) ==
    LET id == p[2].v
        q == p[9].v
        live == {k \in alive : k.id = p[8].v}
        Failure == <<<<Reply(id, REPLY_QUERYFAILURE, NoCursorId, <<<<q, 0>>>>)>>, alive>>
    IN CASE p[4].v = OP_QUERY /\ p[8].v = 1 ->
              {<<<<Reply(id, "ok", NoCursorId, docs)>>, alive>> : docs \in {<<>>, <<<<q, 1>>>>}}
                \cup {Failure}
         [] p[4].v = OP_QUERY /\ p[8].v = 0 ->
              {<<<<Reply(id, "ok", CursorId(Cursors(id, q, 1)), BatchOf(q, 1))>>,
                 alive \cup Cursors(id, q, 1)>>, Failure}
         [] p[4].v = OP_GET_MORE /\ live = {} ->
              {<<<<Reply(id, REPLY_CURSORNOTFOUND, NoCursorId, <<>>)>>, alive>>}
         [] p[4].v = OP_GET_MORE /\ live # {} ->
              {LET left == Cursors(k.id, k.query, k.next)
               IN <<<<Reply(id, "ok", CursorId(left), BatchOf(k.query, k.next))>>,
                    (alive \ {k}) \cup left>> : k \in live}
         [] p[4].v = OP_KILL_CURSORS -> {<<<<>>, {k \in alive : k.id # p[7].v}>>}
         [] OTHER -> {<<<<>>, alive>>}

(* mongod receives what is in the send buffer, and reads a packet once all *)
(* the bytes its length speaks of are there.                               *)
Serve ==
    LET got == srv \o out
        ends == {k \in 1..Len(got) : Bytes(SubSeq(got, 1, k)) = got[1].v}
        p == IF ends = {} THEN <<>> ELSE SubSeq(got, 1, Min(ends))
        heard == p # <<>> /\ Tail(p) = Head(asked)
    IN /\ running = "none" /\ ~eof
       /\ out' = <<>>
       /\ \/ /\ out # <<>> /\ Bytes(got) < got[1].v
             /\ srv' = got
             /\ UNCHANGED <<asked, misheard, wire, alive, disturbed>>
          \/ /\ got # <<>> /\ Bytes(got) >= got[1].v
             /\ ~heard
             /\ srv' = got
             /\ misheard' = TRUE
             /\ UNCHANGED <<asked, wire, alive, disturbed>>
          \/ /\ heard
             /\ srv' = SubSeq(got, Len(p) + 1, Len(got))
             /\ asked' = Tail(asked)
             /\ \E o \in Outcomes(p) :
                   /\ wire' = wire \o (IF o[1] = <<>> THEN <<>> ELSE Parts(o[1][1]))
                   /\ alive' = o[2]
                   /\ disturbed' = \/ disturbed
                                   \/ o[1] # <<>> /\ o[1][1].flags = REPLY_QUERYFAILURE
             /\ UNCHANGED misheard
       /\ UNCHANGED <<clientVars, inp, eof, found, expired>>

Deliver ==
    /\ running = "none"
    /\ wire # <<>>
    /\ inp' = Append(inp, Head(wire))
    /\ wire' = Tail(wire)
    /\ UNCHANGED <<clientVars, out, srv, alive, eof, found, asked, misheard, expired, disturbed>>

(* A cursor nobody asked for long enough.                                  *)
Expire ==
    /\ running = "none" /\ ~eof /\ connected
    /\ \E k \in alive : alive' = alive \ {k}
    /\ expired' = TRUE
    /\ UNCHANGED <<clientVars, out, srv, wire, inp, eof, found, asked, misheard, disturbed>>

HangUp ==
    /\ running = "none" /\ ~eof /\ connected
    /\ eof' = TRUE
    /\ disturbed' = TRUE
    /\ out' = <<>> /\ srv' = <<>> /\ asked' = <<>> /\ alive' = {}
    /\ UNCHANGED <<clientVars, wire, inp, found, misheard, expired>>

-----------------------------------------------------------------------------
Begins(c) ==
    \/ /\ c \notin Walkers
       /\ \/ runCommand(c) \/ insert(c) \/ batch_insert(c) \/ update(c) \/ delete(c)
          \/ findOne(c, <<>>) \/ findOne(c, <<Selector>>)
    \/ /\ c \in Walkers
       /\ \/ hasNext(c) \/ hasNext_noMore(c) \/ next(c) \/ close(c)
          \/ find(c, <<Selector>>)

Runs(c) ==
    \/ Send(c) \/ SendWaits(c) \/ SendFails(c)
    \/ Recv(c) \/ RecvShort(c) \/ RecvWaits(c) \/ RecvFails(c)

(* Once mongod or a reader of replies has lost its place in its stream,    *)
(* what it reads next are the wrong bytes: not modelled.                   *)
Next ==
    /\ ~torn /\ ~misheard
    /\ \/ \E c \in Callers : Begins(c) \/ Runs(c) \/ Resume(c) \/ Interrupt(c) \/ Cancel(c)
       \/ disconnect \/ Serve \/ Deliver \/ Expire \/ HangUp

Spec == Init /\ [][Next]_vars

-----------------------------------------------------------------------------
(* A command or findOne returns the answer of mongod to its own query and  *)
(* to no other, whatever replies other calls, interrupted or overlapping,  *)
(* have left on the connection; and a cursor hands out only documents of   *)
(* its own query.                                                          *)
OwnAnswer ==
    \A c \in Callers :
       /\ result[c] # <<>> /\ result[c][2] # NoDoc => result[c][2][1] = result[c][1]
       /\ \A d \in ToSet(cursor[c].handed) : d[1] = <<"find", c>>

(* mongod reads the packets the tasks have sent, one by one and in the     *)
(* order they were sent.  Only a packet that send took in part, or that    *)
(* another task's packet was sent into the middle of, makes it read        *)
(* anything else.                                                          *)
RequestsHeard == misheard => broken

(* On a connection that its tasks use one after the other, that nobody     *)
(* interrupts and that mongod serves, a call raises an error only if the   *)
(* length of a reply came in pieces or the request ids have outgrown an    *)
(* int32_t.  A packet that was sent in part does not make its call fail:   *)
(* the call waits.  (Nothing is said of what mongod does once it misheard.)*)
FailsOnlyDisturbed == raised => disturbed \/ torn \/ __id >= INT_RANGE \div 2

(* A cursor hands out the documents of its query in their order, each      *)
(* once; and when hasNext says that there are no more, it has handed out   *)
(* all, unless one of its calls had failed, it was closed or mongod had    *)
(* dropped it.                                                             *)
CursorWalks ==
    \A c \in Walkers :
       LET cu == cursor[c]
           all == [i \in 1..found[c] |-> <<<<"find", c>>, i>>]
       IN ~cu.failed /\ ~cu.closed =>
             /\ IsPrefix(cu.handed, all)
             /\ cu.ended /\ ~expired => cu.handed = all

(* Nobody waits for a reply that nothing will bring: when the connection   *)
(* is quiet no call is parked on it, although readers take each other's    *)
(* replies and fail over them; unless a call whose packet could not be     *)
(* sent has gone on to read as if it had been, or a reader has lost its    *)
(* place.  (After a packet that was sent in part the connection is not     *)
(* quiet: mongod waits for the rest.)                                      *)
Quiet ==
    /\ running = "none" /\ connected /\ ~Ended
    /\ out = <<>> /\ srv = <<>> /\ wire = <<>> /\ inp = <<>>
    /\ \A c \in Callers : call[c].pc # "writing"

NoCallStranded == Quiet /\ ~torn /\ ~unsent => \A c \in Callers : ~Busy(c)
=============================================================================
