-------------------------------- MODULE Http --------------------------------
(***************************************************************************)
(* levent/http: a client (client.lua) and the connection handlers of a     *)
(* server (server.lua), both reading messages with util.read_message from  *)
(* a stream that arrives in arbitrary pieces.                              *)
(*                                                                         *)
(* A message is MsgLen units, the first its head.  Of the parser of        *)
(* deps/http-parser the model keeps that it takes units up to the end of a *)
(* message, where on_message_complete pauses it, refuses a message that    *)
(* does not begin with a head and a stream that ends inside a message, and *)
(* stays in error once it met one.  Messages have a length and leave the   *)
(* connection open: a body that lasts until the end of the stream, and the *)
(* refusal of what follows "Connection: close", are left out.              *)
(*                                                                         *)
(* read_message(conn, parser, left) leaves left alone when it has parsed   *)
(* all of it.  The locals of a call in progress and the caller's parser    *)
(* and cached are one record here, a reader.                               *)
(***************************************************************************)
EXTENDS Integers, FiniteSets, SequencesExt

CONSTANTS
    MsgLen,        \* units of a message
    MaxRequests,   \* bound: requests the client sends
    MaxConns,      \* bound: connections
    Pipelining     \* the client may send before it has read the response

ASSUME HttpAssumption ==
    /\ MsgLen \in Nat \ {0}
    /\ MaxRequests \in Nat
    /\ MaxConns \in Nat
    /\ Pipelining \in BOOLEAN

VARIABLES
    conn,       \* client.conn: the connection, 0 for nil
    client,     \* the client's reader
    server,     \* the readers of the server's handlers, by connection
    wire,       \* what is in flight on each connection, and which ends are open
    requests,   \* history: the requests sent on each connection
    handled,    \* history: the messages given to handle_one_request
    responses,  \* history: the messages get_response returned
    failed      \* history: a call of get_response returned nil

vars == <<conn, client, server, wire, requests, handled, responses, failed>>

Conn == 1..MaxConns
Unit == [id : 1..MaxRequests, part : 1..MsgLen]
Message(id) == [part \in 1..MsgLen |-> [id |-> id, part |-> part]]
Sent == FoldSet(LAMBDA n, total : total + Len(requests[n]), 0, Conn)

(* pos and errno are the parser's, cached the caller's, msg and left the   *)
(* locals of read_message.                                                 *)
NewReader == [at |-> "idle", pos |-> 0, errno |-> FALSE, cached |-> <<>>,
              left |-> <<>>, msg |-> <<>>]

Init ==
    /\ conn = 0
    /\ client = NewReader
    /\ server = [n \in Conn |-> NewReader]
    /\ wire = [n \in Conn |-> [req |-> <<>>, rsp |-> <<>>,
                               client |-> FALSE, server |-> FALSE]]
    /\ requests = [n \in Conn |-> <<>>]
    /\ handled = [n \in Conn |-> <<>>]
    /\ responses = [n \in Conn |-> <<>>]
    /\ failed = FALSE

-----------------------------------------------------------------------------
(* http_parser_execute: it is in error, the stream ends inside a message   *)
(* or the next unit begins no message.                                     *)
Refuses(r, s) ==
    \/ r.errno
    \/ s = <<>> /\ r.pos > 0
    \/ s # <<>> /\ r.pos = 0 /\ s[1].part # 1

Room(r) == MsgLen - r.pos

parsed(r, s) == IF Len(s) < Room(r) THEN Len(s) ELSE Room(r)

Completes(r, s) == parsed(r, s) = Room(r)

(* The callbacks of lua-http-parser.c collect the units in msg;            *)
(* lparser_execute lifts the pause of on_message_complete.                 *)
execute(r, s) ==
    [r EXCEPT !.msg = @ \o SubSeq(s, 1, parsed(r, s)),
              !.pos = (@ + parsed(r, s)) % MsgLen]

(* A call of read_message begins.                                          *)
read_message(r) == [r EXCEPT !.at = "reading", !.left = r.cached, !.msg = <<>>]

(* What the next iteration of its loop parses.                             *)
Input(r, stream, open) ==
    IF r.left # <<>> THEN {r.left}
    ELSE {SubSeq(stream, 1, k) : k \in DOMAIN stream}
           \cup (IF stream = <<>> /\ ~open THEN {<<>>} ELSE {})

Rest(r, stream, s) ==
    IF r.left # <<>> THEN stream ELSE SubSeq(stream, Len(s) + 1, Len(stream))

(* Mutant: msg is created in the loop instead of before it. *)
Iterated_newMsg(r, s) ==
    [execute([r EXCEPT !.msg = <<>>], s) EXCEPT
       !.left = IF parsed(r, s) < Len(s)
                THEN SubSeq(s, parsed(r, s) + 1, Len(s)) ELSE @]

(* The rest of s is kept when there is one.                                *)
Iterated(r, s) ==
    [execute(r, s) EXCEPT
       !.left = IF parsed(r, s) < Len(s)
                THEN SubSeq(s, parsed(r, s) + 1, Len(s)) ELSE @]

(* Mutant: one recv is taken for the whole message. *)
Outcome_early(r, s) ==
    CASE Refuses(r, s) -> "error"
      [] ~Refuses(r, s) /\ s = <<>> -> "eof"
      [] OTHER -> "complete"

(* How the iteration ends.                                                 *)
Outcome(r, s) ==
    CASE Refuses(r, s) -> "error"
      [] ~Refuses(r, s) /\ s = <<>> -> "eof"
      [] ~Refuses(r, s) /\ s # <<>> /\ Completes(r, s) -> "complete"
      [] OTHER -> "more"

-----------------------------------------------------------------------------
(* client:send.  Without a connection one is made; server:serve accepts it *)
(* and spawns handle_conn, whose parser is new.  sendall fails after any   *)
(* number k of units, and at once on a socket get_response has closed; the *)
(* client is then closed.                                                  *)
Target == IF conn = 0 THEN Cardinality({n \in Conn : requests[n] # <<>>}) + 1
          ELSE conn

Outstanding(n) == wire[n].client /\ Len(responses[n]) < Len(requests[n])

send(n, k) ==
    /\ client.at = "idle"
    /\ n = Target
    /\ Sent + 1 \in 1..MaxRequests
    /\ Pipelining \/ ~Outstanding(n)
    /\ conn # 0 /\ ~wire[n].client => k = 0
    /\ requests' = [requests EXCEPT ![n] = Append(@, Sent + 1)]
    /\ wire' = [wire EXCEPT
                  ![n].req = @ \o SubSeq(Message(Sent + 1), 1, k),
                  ![n].server = @ \/ conn = 0,
                  ![n].client = k = MsgLen]
    /\ server' = [server EXCEPT ![n] = IF conn = 0 THEN read_message(@) ELSE @]
    /\ conn' = IF k = MsgLen THEN n ELSE 0
    /\ UNCHANGED <<client, handled, responses, failed>>

(* client:get_response, to its first recv.                                 *)
get_response ==
    /\ client.at = "idle"
    /\ conn # 0
    /\ client' = read_message(client)
    /\ UNCHANGED <<conn, server, wire, requests, handled, responses, failed>>

(* An iteration of read_message's loop that parses s on the client's side. *)
(* A rest is parsed also when the socket has been closed.                  *)
ClientParses(s, outcome) ==
    /\ client.at = "reading"
    /\ client.left = <<>> => wire[conn].client
    /\ s \in Input(client, wire[conn].rsp, wire[conn].server)
    /\ Outcome(client, s) = outcome
    /\ UNCHANGED <<conn, server, requests, handled>>

ClientReads(s) ==
    /\ ClientParses(s, "more")
    /\ client' = Iterated(client, s)
    /\ wire' = [wire EXCEPT ![conn].rsp = Rest(client, @, s)]
    /\ UNCHANGED <<responses, failed>>

(* The message is complete: get_response keeps left and returns it.        *)
ClientReturns(s) ==
    /\ ClientParses(s, "complete")
    /\ LET r == Iterated(client, s)
       IN /\ client' = [r EXCEPT !.at = "idle", !.cached = r.left]
          /\ responses' = [responses EXCEPT ![conn] = Append(@, r.msg)]
    /\ wire' = [wire EXCEPT ![conn].rsp = Rest(client, @, s)]
    /\ UNCHANGED failed

(* The server has closed between two messages: read_message returns what   *)
(* it has, a message without headers, over which response.new stumbles.    *)
(* get_response raises after it has kept cached.                           *)
ClientEof(s) ==
    /\ ClientParses(s, "eof")
    /\ client' = [client EXCEPT !.at = "idle", !.cached = client.left]
    /\ UNCHANGED <<wire, responses, failed>>

(* The parser refuses s.  get_response closes the socket; the client keeps *)
(* conn, parser and cached.                                                *)
ClientParseFails(s) ==
    /\ ClientParses(s, "error")
    /\ client' = [client EXCEPT !.at = "idle", !.errno = TRUE]
    /\ wire' = [wire EXCEPT ![conn].client = FALSE]
    /\ failed' = TRUE
    /\ UNCHANGED responses

(* The connection breaks, or was closed here before: recv reports an error.*)
ClientRecvFails ==
    /\ client.at = "reading" /\ client.left = <<>>
    /\ client' = [client EXCEPT !.at = "idle"]
    /\ wire' = [wire EXCEPT ![conn].client = FALSE]
    /\ failed' = TRUE
    /\ UNCHANGED <<conn, server, requests, handled, responses>>

(* client:close.                                                           *)
close ==
    /\ client.at = "idle"
    /\ conn # 0
    /\ conn' = 0
    /\ wire' = [wire EXCEPT ![conn].client = FALSE]
    /\ UNCHANGED <<client, server, requests, handled, responses, failed>>

-----------------------------------------------------------------------------
(* An iteration of read_message's loop that parses s in handle_conn.       *)
HandlerParses(n, s, outcome) ==
    /\ server[n].at = "reading"
    /\ s \in Input(server[n], wire[n].req, wire[n].client)
    /\ Outcome(server[n], s) = outcome
    /\ wire' = [wire EXCEPT ![n].req = Rest(server[n], @, s)]
    /\ UNCHANGED <<conn, client, requests, responses, failed>>

HandlerReads(n, s) ==
    /\ HandlerParses(n, s, "more")
    /\ server' = [server EXCEPT ![n] = Iterated(@, s)]
    /\ UNCHANGED handled

(* The request is complete and its handler is called.                      *)
handle_one_request(n, s) ==
    /\ HandlerParses(n, s, "complete")
    /\ server' = [server EXCEPT ![n] = [Iterated(@, s) EXCEPT !.at = "handling"]]
    /\ handled' = [handled EXCEPT ![n] = Append(@, Iterated(server[n], s).msg)]

(* conn:sendall(rsp:pack()), whose result is not looked at; with keep-alive*)
(* the next request is read from what is left of the last piece.           *)
Response(n) == Message(server[n].msg[1].id)

Reply(n) ==
    /\ server[n].at = "handling"
    /\ wire' = [wire EXCEPT ![n].rsp = @ \o Response(n)]
    /\ server' = [server EXCEPT
                    ![n] = read_message([@ EXCEPT !.cached = server[n].left])]
    /\ UNCHANGED <<conn, client, requests, handled, responses, failed>>

(* Without keep-alive the connection is closed after the response.         *)
ReplyAndClose(n) ==
    /\ server[n].at = "handling"
    /\ wire' = [wire EXCEPT ![n].rsp = @ \o Response(n), ![n].server = FALSE]
    /\ server' = [server EXCEPT ![n].at = "closed"]
    /\ UNCHANGED <<conn, client, requests, handled, responses, failed>>

(* handle_conn leaves its loop without a response: the peer closed, recv   *)
(* failed, the parser refused the input or parse_url the request's url.    *)
HandlerCloses(n) ==
    /\ server[n].at = "reading"
    /\ \/ server[n].left = <<>>
       \/ Outcome(server[n], server[n].left) \in {"error", "complete"}
    /\ server' = [server EXCEPT ![n].at = "closed"]
    /\ wire' = [wire EXCEPT ![n].server = FALSE]
    /\ UNCHANGED <<conn, client, requests, handled, responses, failed>>

Client ==
    \/ \E n \in Conn, k \in 0..MsgLen : send(n, k)
    \/ get_response
    \/ conn # 0 /\ \E s \in Input(client, wire[conn].rsp, wire[conn].server) :
          ClientReads(s) \/ ClientReturns(s) \/ ClientEof(s) \/ ClientParseFails(s)
    \/ ClientRecvFails
    \/ close

Handler(n) ==
    \/ \E s \in Input(server[n], wire[n].req, wire[n].client) :
          HandlerReads(n, s) \/ handle_one_request(n, s)
    \/ Reply(n)
    \/ ReplyAndClose(n)
    \/ HandlerCloses(n)

Next == Client \/ \E n \in Conn : Handler(n)

Spec == Init /\ [][Next]_vars

-----------------------------------------------------------------------------
Reader == [at : {"idle", "reading", "handling", "closed"}, pos : 0..(MsgLen - 1),
           errno : BOOLEAN, cached : Seq(Unit), left : Seq(Unit), msg : Seq(Unit)]

Wire == [req : Seq(Unit), rsp : Seq(Unit), client : BOOLEAN, server : BOOLEAN]

TypeOK ==
    /\ conn \in 0..MaxConns
    /\ client \in Reader
    /\ server \in [Conn -> Reader]
    /\ wire \in [Conn -> Wire]
    /\ requests \in [Conn -> Seq(1..MaxRequests)]
    /\ handled \in [Conn -> Seq(Seq(Unit))]
    /\ responses \in [Conn -> Seq(Seq(Unit))]
    /\ failed \in BOOLEAN

(* ms is a prefix of the messages with these ids, each whole.              *)
DeliveredFrom(ids, ms) ==
    /\ Len(ms) <= Len(ids)
    /\ \A i \in DOMAIN ms : ms[i] = Message(ids[i])

(* However the stream is cut, and wherever sends and connections break     *)
(* off, the handlers of a connection are given the requests sent on it,    *)
(* whole, once and in order, when the client waits for each response.      *)
RequestsHandledInOrder ==
    ~Pipelining => \A n \in Conn : DeliveredFrom(requests[n], handled[n])

(* The responses get_response returns on a connection are those of the     *)
(* requests sent on it, whole and in order, also after client:send has     *)
(* reconnected, until a call of get_response fails.                        *)
ResponsesMatchRequests ==
    ~Pipelining /\ ~failed =>
        \A n \in Conn : DeliveredFrom(requests[n], responses[n])

(* "parse one message once, so pause here" (lua-http-parser.c:188): no     *)
(* request is parsed, and handled, a second time.                          *)
ParsedOnce ==
    \A n \in Conn : \A i, j \in DOMAIN handled[n] :
        handled[n][i] = handled[n][j] => i = j
=============================================================================
