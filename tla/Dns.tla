-------------------------------- MODULE Dns --------------------------------
(***************************************************************************)
(* levent/dns.lua: the resolver.  dns.resolve asks the name servers of one *)
(* list in turn, over UDP and, when the answer is truncated, again over    *)
(* TCP; the servers that timed out go to the end of the list, which is     *)
(* written back for the next call.  The calling coroutine is parked inside *)
(* every request, so calls of several coroutines and set_servers           *)
(* interleave there.                                                       *)
(*                                                                         *)
(* One step of the model runs from one request to the next: the awaits     *)
(* inside a request (connect, send, recv) touch none of this state.  A     *)
(* response is the sequence of its records of the known types; labels,     *)
(* addresses and the packing of messages are left out.  The name servers   *)
(* and the network are external: a request may end in any way.             *)
(***************************************************************************)
EXTENDS Integers, FiniteSets, SequencesExt

CONSTANTS
    Co,           \* the coroutines that call dns.resolve
    ResolvConf,   \* the servers of /etc/resolv.conf
    Preferred,    \* the lists dns.set_servers is called with
    NoHost,       \* an entry of such a list that is a table without a host
    Query,        \* the questions: records with a qtype and a name
    LocalHosts,   \* the questions that /etc/hosts answers
    Response,     \* the sequences of records a server answers with
    NoServers,    \* dns_addrs is nil
    MaxTid,       \* the largest number pack(">H", tid) accepts
    MaxNow,       \* bound: the clock
    MaxSets,      \* bound: calls of set_servers
    MaxResolves   \* bound: calls of dns.resolve, of all coroutines

(* set_servers takes the entries in turn up to one without a host, where   *)
(* its assertion fails.                                                    *)
Accepted(servers) ==
    SubSeq(servers, 1, Min({i \in DOMAIN servers : servers[i] = NoHost}
                             \cup {Len(servers) + 1}) - 1)

Lists == {Accepted(servers) : servers \in Preferred} \cup {ResolvConf}
Servers == UNION {ToSet(list) : list \in Lists}

ASSUME DnsAssumption ==
    /\ Lists \subseteq Seq(Servers)
    /\ NoServers \notin Lists
    /\ Query # {}
    /\ {MaxTid, MaxNow, MaxSets, MaxResolves} \subseteq Nat

VARIABLES
    dns_addrs,    \* the servers to ask, in this order
    next_tid,     \* the number of the next query
    cached,       \* answers by question: the time they expire, 0 for no entry
    now,          \* levent.now()
    call,         \* the call of dns.resolve each coroutine is in
    sets,         \* history: calls of set_servers
    resolves      \* history: calls of dns.resolve

vars == <<dns_addrs, next_tid, cached, now, call, sets, resolves>>

(* The locals of remote_resolve.  "at" is the server being asked, "over"   *)
(* the transport; timedOut is a history of the requests that timed out,    *)
(* and ret how the call ended.                                             *)
Idle(ret, c) == [call[c] EXCEPT !.over = "none", !.ret = ret]

NoCall == [over |-> "none", ret |-> "none", q |-> CHOOSE q \in Query : TRUE,
           nameservers |-> <<>>, at |-> 0, valid_nameserver |-> <<>>,
           valid_amount |-> 1, timedOut |-> {}]

Init ==
    /\ dns_addrs = NoServers
    /\ next_tid = 1
    /\ cached = [q \in Query |-> 0]
    /\ now = 1
    /\ call = [c \in Co |-> NoCall]
    /\ sets = 0
    /\ resolves = 0

Ready(c) == call[c].over = "none" /\ resolves < MaxResolves
Asking(c) == call[c].over # "none"

(* A coroutine is caught in a loop that does not yield: nothing else runs. *)
Looping == \E c \in Co : call[c].over = "looping"

-----------------------------------------------------------------------------
(* get_nameservers: resolv.conf is read when there is no list yet.         *)
get_nameservers == IF dns_addrs = NoServers THEN ResolvConf ELSE dns_addrs

(* query_cache: an entry is served up to and including its expiry.         *)
Hit(q) == cached[q] # 0 /\ now <= cached[q]

(* query_cache drops an expired entry.                                     *)
Looked(q) == [cached EXCEPT ![q] = IF Hit(q) THEN @ ELSE 0]

(* dns.resolve answered without a server: from /etc/hosts or the cache.    *)
resolve_local(c, q) ==
    /\ Ready(c)
    /\ q \in LocalHosts \/ Hit(q)
    /\ resolves' = resolves + 1
    /\ call' = [call EXCEPT ![c] = [NoCall EXCEPT !.q = q, !.ret = "answers"]]
    /\ UNCHANGED <<dns_addrs, next_tid, cached, now, sets>>

(* pack_header raises when the query's number does not fit 16 bits.        *)
resolve_overflow(c, q) ==
    /\ Ready(c)
    /\ q \notin LocalHosts /\ ~Hit(q)
    /\ next_tid > MaxTid
    /\ resolves' = resolves + 1
    /\ next_tid' = next_tid + 1
    /\ cached' = Looked(q)
    /\ call' = [call EXCEPT ![c] = [NoCall EXCEPT !.q = q, !.ret = "raised"]]
    /\ UNCHANGED <<dns_addrs, now, sets>>

(* get_nameservers asserts that resolv.conf can be read.                   *)
resolve_unconfigured(c, q) ==
    /\ Ready(c)
    /\ q \notin LocalHosts /\ ~Hit(q)
    /\ next_tid <= MaxTid
    /\ dns_addrs = NoServers
    /\ resolves' = resolves + 1
    /\ next_tid' = next_tid + 1
    /\ cached' = Looked(q)
    /\ call' = [call EXCEPT ![c] = [NoCall EXCEPT !.q = q, !.ret = "raised"]]
    /\ UNCHANGED <<dns_addrs, now, sets>>

(* remote_resolve up to its first request.  With no server to ask the loop *)
(* is empty and the call returns nil at once.                              *)
remote_resolve(c, q) ==
    /\ Ready(c)
    /\ q \notin LocalHosts /\ ~Hit(q)
    /\ next_tid <= MaxTid
    /\ resolves' = resolves + 1
    /\ next_tid' = next_tid + 1
    /\ cached' = Looked(q)
    /\ dns_addrs' = get_nameservers
    /\ LET started == [NoCall EXCEPT !.q = q, !.nameservers = get_nameservers]
       IN call' = [call EXCEPT ![c] =
                     IF get_nameservers = <<>>
                     THEN [started EXCEPT !.ret = "failed"]
                     ELSE [started EXCEPT !.over = "udp", !.at = 1]]
    /\ UNCHANGED <<now, sets>>

-----------------------------------------------------------------------------
Server(c) == call[c].nameservers[call[c].at]

(* The server keeps its place among the servers that did not time out.     *)
keep(v, amount, server) == InsertAt(v, amount, server)

(* The server goes to the end of the list.                                 *)
demote(v, server) == Append(v, server)

(* Mutant: valid_amount is not advanced. *)
AfterServer_reverses(c, timeout) ==
    IF timeout
    THEN [call[c] EXCEPT !.valid_nameserver = demote(@, Server(c)),
                         !.timedOut = @ \cup {call[c].at}]
    ELSE [call[c] EXCEPT
            !.valid_nameserver = keep(@, call[c].valid_amount, Server(c))]

(* The loop body for a server that did not answer.                         *)
AfterServer(c, timeout) ==
    IF timeout
    THEN [call[c] EXCEPT !.valid_nameserver = demote(@, Server(c)),
                         !.timedOut = @ \cup {call[c].at}]
    ELSE [call[c] EXCEPT
            !.valid_nameserver = keep(@, call[c].valid_amount, Server(c)),
            !.valid_amount = @ + 1]

(* request returns nil, err.  A truncated answer over TCP is such an error.*)
AsksNext(c, timeout) ==
    /\ Asking(c)
    /\ call[c].at < Len(call[c].nameservers)
    /\ call' = [call EXCEPT ![c] = [AfterServer(c, timeout) EXCEPT
                                      !.over = "udp", !.at = @ + 1]]
    /\ UNCHANGED <<dns_addrs, next_tid, cached, now, sets, resolves>>

(* The last server did not answer either: set_nameservers, return nil, err.*)
GivesUp(c, timeout) ==
    /\ Asking(c)
    /\ call[c].at = Len(call[c].nameservers)
    /\ dns_addrs' = AfterServer(c, timeout).valid_nameserver
    /\ call' = [call EXCEPT ![c] = [AfterServer(c, timeout) EXCEPT
                                      !.over = "none", !.ret = "failed"]]
    /\ UNCHANGED <<next_tid, cached, now, sets, resolves>>

(* Mutant: a truncated answer over TCP is asked for again. *)
Truncated_again(c) ==
    /\ Asking(c)
    /\ call' = [call EXCEPT ![c].over = IF @ = "udp" THEN "tcp" ELSE "udp"]
    /\ UNCHANGED <<dns_addrs, next_tid, cached, now, sets, resolves>>

(* unpack_response reports "truncated" over UDP: the server is asked again.*)
Truncated(c) ==
    /\ call[c].over = "udp"
    /\ call' = [call EXCEPT ![c].over = "tcp"]
    /\ UNCHANGED <<dns_addrs, next_tid, cached, now, sets, resolves>>

-----------------------------------------------------------------------------
(* resolve_type[qtype].normalize: the ttls of the records it keeps.  For a *)
(* list of addresses or texts the last one counts; SRV records are kept by *)
(* target, and pairs() visits them in any order.                           *)
Wanted(q, answers) == {i \in DOMAIN answers : answers[i].qtype = q.qtype}

LastPerTarget(q, answers) ==
    {i \in Wanted(q, answers) :
       \A j \in Wanted(q, answers) : answers[j].name = answers[i].name => j <= i}

Ttls(q, answers) ==
    IF q.qtype = "SRV"
    THEN {answers[i].ttl : i \in LastPerTarget(q, answers)}
    ELSE {answers[i].ttl : i \in {j \in Wanted(q, answers) :
                                    \A k \in Wanted(q, answers) : k <= j}}

(* assert(servers[ans.name]): an address in an SRV answer must belong to a *)
(* target named before it.                                                 *)
NormalizeRaises(q, answers) ==
    /\ q.qtype = "SRV"
    /\ \E i \in DOMAIN answers :
         /\ answers[i].qtype \in {"A", "AAAA"}
         /\ \A j \in 1..(i - 1) : ~(/\ answers[j].qtype = "SRV"
                                    /\ answers[j].name = answers[i].name)

(* set_cache: answers without a ttl, or with ttl 0, are not kept.          *)
set_cache(q, ttls) ==
    IF ttls = {} THEN cached' = cached
    ELSE \E ttl \in ttls :
           cached' = [cached EXCEPT ![q] = IF ttl > 0 THEN now + ttl ELSE @]

(* Mutant: the loop stops at the server that answered. *)
AllServers_stops(c) ==
    keep(call[c].valid_nameserver, call[c].valid_amount, Server(c))

(* Once there is a result the loop only copies the other servers.          *)
AllServers(c) ==
    LET call_c == call[c]
        rest == SubSeq(call_c.nameservers, call_c.at, Len(call_c.nameservers))
        v == call_c.valid_nameserver
    IN SubSeq(v, 1, call_c.valid_amount - 1) \o rest
         \o SubSeq(v, call_c.valid_amount, Len(v))

(* request returns answers: the rest of remote_resolve.                    *)
Answered(c, answers) ==
    LET q == call[c].q
    IN /\ Asking(c)
       /\ dns_addrs' = AllServers(c)
       /\ \/ /\ answers = <<>>                        \* "no answers"
             /\ call' = [call EXCEPT ![c] = Idle("no answers", c)]
             /\ UNCHANGED cached
          \/ /\ answers # <<>> /\ NormalizeRaises(q, answers)
             /\ call' = [call EXCEPT ![c] = Idle("raised", c)]
             /\ UNCHANGED cached
          \/ /\ answers # <<>> /\ ~NormalizeRaises(q, answers)
             /\ call' = [call EXCEPT ![c] = Idle("answers", c)]
             /\ set_cache(q, Ttls(q, answers))
       /\ UNCHANGED <<next_tid, now, sets, resolves>>

(* The response is shorter than what it announces and string.unpack        *)
(* raises: nothing is written back.  A kill or an outer timeout does not   *)
(* come here: _wait of socket.lua catches it, and request returns nil, err *)
(* (AsksNext, GivesUp).                                                    *)
Raises(c) ==
    /\ Asking(c)
    /\ call' = [call EXCEPT ![c] = Idle("raised", c)]
    /\ UNCHANGED <<dns_addrs, next_tid, cached, now, sets, resolves>>

(* unpack_name follows pointers without counting them: where they lead     *)
(* back to themselves it never returns, and it does not yield either.      *)
unpack_name_loops(c) ==
    /\ Asking(c)
    /\ call' = [call EXCEPT ![c].over = "looping"]
    /\ UNCHANGED <<dns_addrs, next_tid, cached, now, sets, resolves>>

set_servers(servers) ==
    /\ sets < MaxSets
    /\ sets' = sets + 1
    /\ dns_addrs' = Accepted(servers)
    /\ UNCHANGED <<next_tid, cached, now, call, resolves>>

(* The tables of the cache are weak: the collector may drop any entry.     *)
Collect(q) ==
    /\ cached[q] # 0
    /\ cached' = [cached EXCEPT ![q] = 0]
    /\ UNCHANGED <<dns_addrs, next_tid, now, call, sets, resolves>>

Tick ==
    /\ now < MaxNow
    /\ now' = now + 1
    /\ UNCHANGED <<dns_addrs, next_tid, cached, call, sets, resolves>>

RequestEnds(c) ==
    /\ ~Looping
    /\ \/ \E timeout \in BOOLEAN : AsksNext(c, timeout) \/ GivesUp(c, timeout)
       \/ Truncated(c)
       \/ \E answers \in Response : Answered(c, answers)
       \/ Raises(c)
       \/ unpack_name_loops(c)

Resolves(c, q) ==
    \/ resolve_local(c, q) \/ resolve_overflow(c, q)
    \/ resolve_unconfigured(c, q) \/ remote_resolve(c, q)

Next ==
    /\ ~Looping
    /\ \/ \E c \in Co : RequestEnds(c)
       \/ \E c \in Co, q \in Query : Resolves(c, q)
       \/ \E servers \in Preferred : set_servers(servers)
       \/ \E q \in Query : Collect(q)
       \/ Tick

(* Every socket call inside a request has a timeout (dns.resolve defaults  *)
(* it to one second), so every request comes to an end, if only in the     *)
(* loop of unpack_name.                                                    *)
Spec == Init /\ [][Next]_vars /\ \A c \in Co : WF_vars(RequestEnds(c))
-----------------------------------------------------------------------------
Call == [over : {"none", "udp", "tcp", "looping"}, q : Query, nameservers : Seq(Servers),
         ret : {"none", "answers", "no answers", "failed", "raised"},
         at : Nat, valid_nameserver : Seq(Servers), valid_amount : Nat,
         timedOut : SUBSET Nat]

TypeOK ==
    /\ dns_addrs \in Seq(Servers) \cup {NoServers}
    /\ next_tid \in 1..(resolves + 1)
    /\ DOMAIN cached = Query
    /\ now \in Nat
    /\ call \in [Co -> Call]
    /\ sets \in 0..MaxSets
    /\ resolves \in 0..MaxResolves

(* The list of servers is at all times a rearrangement of one list that    *)
(* was configured: overlapping calls of remote_resolve, calls that fail    *)
(* half way and set_servers in between neither lose, duplicate nor mix     *)
(* servers.                                                                *)
ServersKept ==
    dns_addrs # NoServers =>
        \E list \in Lists : /\ Len(dns_addrs) = Len(list)
                            /\ ToSet(dns_addrs) = ToSet(list)

(* list holds the first n servers, those at the places in "late" after     *)
(* the others and both groups in the order they had.                       *)
Before(i, j, late) == IF i \in late <=> j \in late THEN i < j ELSE j \in late

StablePartition(list, servers, n, late) ==
    /\ Len(list) = n
    /\ \E order \in [1..n -> 1..n] :
         /\ \A i \in 1..n : \E j \in 1..n : order[j] = i
         /\ \A i, j \in 1..n : i < j => Before(order[i], order[j], late)
         /\ \A i \in 1..n : list[i] = servers[order[i]]

WritesBack(c) ==
    /\ Asking(c)
    /\ call'[c].over = "none"
    /\ call'[c].ret \in {"answers", "no answers", "failed"}

StoresPartition(call_c) ==
    StablePartition(dns_addrs', call_c.nameservers,
                    Len(call_c.nameservers), call_c.timedOut)

(* What remote_resolve writes back is the list it started from with the    *)
(* servers that timed out moved to the end, both groups in the order they  *)
(* had, however the requests ended and whatever other calls did meanwhile. *)
WriteBackIsStable ==
    [][\A c \in Co : WritesBack(c) => StoresPartition(call'[c])]_vars

(* Every call of dns.resolve returns or raises: the fallback to TCP and    *)
(* the walk over the servers cannot go on for ever.  The one way not to    *)
(* end is the loop of unpack_name, in this call or another.                *)
ResolveEnds == \A c \in Co : Asking(c) ~> ~Asking(c) \/ Looping
=============================================================================
