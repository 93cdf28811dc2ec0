----------------------------- MODULE DnsProofs -----------------------------
(***************************************************************************)
(* Proofs about Dns, for any lists of name servers, any number of calls    *)
(* that overlap and any responses.  The argument follows the loop of       *)
(* remote_resolve: after n servers the list it builds is the first n of    *)
(* them in an order that can be named, and every place where it puts the   *)
(* next server extends that order.                                         *)
(***************************************************************************)
EXTENDS Dns, FiniteSetTheorems, SequenceTheorems, TLAPS

(* An order of the first n servers that puts those in "late" last, as      *)
(* StablePartition asks for, with the border between the groups at amount. *)
IsWalk(order, list, servers, n, late, amount) ==
    /\ order \in [1..n -> 1..n]
    /\ \A i \in 1..n : \E j \in 1..n : order[j] = i
    /\ \A i, j \in 1..n : i < j => Before(order[i], order[j], late)
    /\ \A i \in 1..n : list[i] = servers[order[i]]
    /\ \A i \in 1..n : order[i] \in late <=> amount <= i

Walk(list, servers, n, late, amount) ==
    /\ Len(list) = n
    /\ late \subseteq 1..n
    /\ amount \in 1..(n + 1)
    /\ \E order : IsWalk(order, list, servers, n, late, amount)

(* addrs is a rearrangement of a list that was configured.                 *)
Configured(addrs) ==
    \E list \in Lists : Len(addrs) = Len(list) /\ ToSet(addrs) = ToSet(list)

(* What a call knows while it asks the server "at".                        *)
InLoop(call_c) ==
    /\ Configured(call_c.nameservers)
    /\ call_c.at \in 1..Len(call_c.nameservers)
    /\ Walk(call_c.valid_nameserver, call_c.nameservers, call_c.at - 1,
            call_c.timedOut, call_c.valid_amount)

Arrangements == {addrs \in Seq(Servers) : Configured(addrs)}

LoopCalls == {call_c \in Call : InLoop(call_c)}

CallsInLoop == \A c \in Co : Asking(c) => call[c] \in LoopCalls

(* The inductive invariant.                                                *)
DnsInv ==
    /\ TypeOK
    /\ dns_addrs \in Arrangements \cup {NoServers}
    /\ CallsInLoop

-----------------------------------------------------------------------------
(* Joining two lists.                                                      *)
LEMMA JoinLaws ==
  ASSUME NEW S, NEW p \in Seq(S), NEW q \in Seq(S)
  PROVE  /\ p \o q \in Seq(S) /\ Len(p \o q) = Len(p) + Len(q)
         /\ \A i \in 1..Len(p) : (p \o q)[i] = p[i]
         /\ \A i \in 1..Len(q) : (p \o q)[i + Len(p)] = q[i]
<1>1. Len(p) \in Nat /\ Len(q) \in Nat
  BY LenProperties
<1>2. /\ p \o q \in Seq(S) /\ Len(p \o q) = Len(p) + Len(q)
      /\ \A i \in 1..(Len(p) + Len(q)) :
            (p \o q)[i] = IF i <= Len(p) THEN p[i] ELSE q[i - Len(p)]
  BY ConcatProperties
<1> QED
  BY <1>1, <1>2

(* A sequence put into another one before its place m, which is what       *)
(* keep and the rest of the loop after an answer do.                       *)
Splice(v, m, r) == SubSeq(v, 1, m - 1) \o r \o SubSeq(v, m, Len(v))

LEMMA SubSeqLaws ==
  ASSUME NEW S, NEW v \in Seq(S), NEW a \in 1..(Len(v) + 1), NEW b \in (a - 1)..Len(v)
  PROVE  /\ SubSeq(v, a, b) \in Seq(S)
         /\ Len(SubSeq(v, a, b)) = b - a + 1
         /\ \A i \in 1..(b - a + 1) : SubSeq(v, a, b)[i] = v[a + i - 1]
<1>1. Len(v) \in Nat
  BY LenProperties
<1>2. a \in Nat /\ b \in Nat /\ b - a + 1 \in Nat /\ b <= Len(v) /\ 1 <= a
  BY <1>1
<1>3. \A i \in a..b : i \in 1..Len(v)
  BY <1>1, <1>2
<1>4. \A i \in a..b : v[i] \in S
  BY <1>3, ElementOfSeq
<1>5. SubSeq(v, a, b) = [i \in 1..(b - a + 1) |-> v[a + i - 1]]
  BY <1>1, <1>2
<1>6. \A i \in 1..(b - a + 1) : a + i - 1 \in a..b
  BY <1>1, <1>2
<1>7. [i \in 1..(b - a + 1) |-> v[a + i - 1]] \in [1..(b - a + 1) -> S]
  BY <1>4, <1>6
<1> QED
  BY <1>2, <1>5, <1>7

IsSplice(w, v, m, r) ==
    /\ Len(w) = Len(v) + Len(r)
    /\ \A i \in 1..(Len(v) + Len(r)) :
         /\ i < m => w[i] = v[i]
         /\ m <= i /\ i < m + Len(r) => w[i] = r[i - m + 1]
         /\ m + Len(r) <= i => w[i] = v[i - Len(r)]

LEMMA SpliceLaws ==
  ASSUME NEW S, NEW v \in Seq(S), NEW r \in Seq(S), NEW m \in 1..(Len(v) + 1)
  PROVE  /\ Splice(v, m, r) \in Seq(S)
         /\ IsSplice(Splice(v, m, r), v, m, r)
<1> DEFINE n == Len(v)
           k == Len(r)
           p == SubSeq(v, 1, m - 1)
           q == SubSeq(v, m, Len(v))
           pr == p \o r
           w == pr \o q
<1>1. n \in Nat /\ k \in Nat /\ m \in Nat /\ 1 <= m /\ m <= n + 1
  BY LenProperties
<1>2. p \in Seq(S) /\ Len(p) = m - 1 /\ \A i \in 1..(m - 1) : p[i] = v[i]
  <2>1. 1 \in 1..(Len(v) + 1) /\ m - 1 \in (1 - 1)..Len(v)
    BY <1>1
  <2>2. /\ SubSeq(v, 1, m - 1) \in Seq(S)
        /\ Len(SubSeq(v, 1, m - 1)) = (m - 1) - 1 + 1
        /\ \A i \in 1..((m - 1) - 1 + 1) : SubSeq(v, 1, m - 1)[i] = v[1 + i - 1]
    BY <2>1, SubSeqLaws
  <2> QED
    BY <1>1, <2>2
<1>3. /\ q \in Seq(S) /\ Len(q) = n - m + 1
      /\ \A i \in 1..(n - m + 1) : q[i] = v[m + i - 1]
  <2>1. m \in 1..(Len(v) + 1) /\ Len(v) \in (m - 1)..Len(v)
    BY <1>1
  <2> QED
    BY <2>1, SubSeqLaws
<1> HIDE DEF p, q
<1>4. /\ pr \in Seq(S) /\ Len(pr) = m - 1 + k
      /\ \A i \in 1..(m - 1) : pr[i] = p[i]
      /\ \A i \in 1..k : pr[i + (m - 1)] = r[i]
  <2> p \in Seq(S)
    BY <1>2
  <2>1. /\ p \o r \in Seq(S) /\ Len(p \o r) = Len(p) + Len(r)
        /\ \A i \in 1..Len(p) : (p \o r)[i] = p[i]
        /\ \A i \in 1..Len(r) : (p \o r)[i + Len(p)] = r[i]
    BY JoinLaws
  <2> QED
    BY <1>2, <2>1
<1> HIDE DEF pr
<1>5. /\ w \in Seq(S) /\ Len(w) = (m - 1 + k) + (n - m + 1)
      /\ \A i \in 1..(m - 1 + k) : w[i] = pr[i]
      /\ \A i \in 1..(n - m + 1) : w[i + (m - 1 + k)] = q[i]
  <2> pr \in Seq(S) /\ q \in Seq(S)
    BY <1>3, <1>4
  <2>1. /\ pr \o q \in Seq(S) /\ Len(pr \o q) = Len(pr) + Len(q)
        /\ \A i \in 1..Len(pr) : (pr \o q)[i] = pr[i]
        /\ \A i \in 1..Len(q) : (pr \o q)[i + Len(pr)] = q[i]
    BY JoinLaws
  <2> QED
    BY <1>3, <1>4, <2>1
<1> HIDE DEF w
<1>6. Len(w) = n + k
  BY <1>1, <1>5
<1>7. ASSUME NEW i \in 1..(n + k) PROVE i < m => w[i] = v[i]
  BY <1>1, <1>2, <1>4, <1>5
<1>8. ASSUME NEW i \in 1..(n + k), m <= i, i < m + k PROVE w[i] = r[i - m + 1]
  <2>1. i - m + 1 \in 1..k /\ i \in 1..(m - 1 + k) /\ (i - m + 1) + (m - 1) = i
    BY <1>1, <1>8
  <2>2. pr[(i - m + 1) + (m - 1)] = r[i - m + 1]
    BY <1>4, <2>1
  <2> QED
    BY <1>5, <2>1, <2>2
<1>9. ASSUME NEW i \in 1..(n + k), m + k <= i PROVE w[i] = v[i - k]
  <2>1. /\ i - (m - 1 + k) \in 1..(n - m + 1)
        /\ (i - (m - 1 + k)) + (m - 1 + k) = i
        /\ m + (i - (m - 1 + k)) - 1 = i - k
    BY <1>1, <1>9
  <2>2. w[(i - (m - 1 + k)) + (m - 1 + k)] = q[i - (m - 1 + k)]
    BY <1>5, <2>1
  <2>3. q[i - (m - 1 + k)] = v[m + (i - (m - 1 + k)) - 1]
    BY <1>3, <2>1
  <2> QED
    BY <2>1, <2>2, <2>3
<1>10. w = Splice(v, m, r)
  BY DEF w, pr, p, q, Splice
<1>11. IsSplice(w, v, m, r)
  BY <1>6, <1>7, <1>8, <1>9 DEF IsSplice
<1> QED
  BY <1>5, <1>10, <1>11

(* The walk before the first request, and what it is worth at the end.     *)
LEMMA EmptyWalk ==
  ASSUME NEW servers
  PROVE  Walk(<<>>, servers, 0, {}, 1)
<1> DEFINE order == [i \in 1..0 |-> i]
<1>1. IsWalk(order, <<>>, servers, 0, {}, 1)
  BY DEF IsWalk
<1> QED
  BY <1>1 DEF Walk

LEMMA WalkPartition ==
  ASSUME NEW list, NEW servers, NEW n \in Nat, NEW late, NEW amount,
         Walk(list, servers, n, late, amount)
  PROVE  StablePartition(list, servers, n, late)
  BY DEF Walk, IsWalk, StablePartition

(* A rearrangement of a configured list is one too.                        *)
LEMMA PartitionConfigured ==
  ASSUME NEW S, NEW list \in Seq(S), NEW servers \in Seq(S), NEW late,
         StablePartition(list, servers, Len(servers), late),
         Configured(servers)
  PROVE  Configured(list)
<1> DEFINE n == Len(servers)
<1>1. n \in Nat /\ Len(list) = n
  BY LenProperties DEF StablePartition
<1>2. DOMAIN list = 1..n /\ DOMAIN servers = 1..n
  BY <1>1, LenProperties
<1>3. PICK order \in [1..n -> 1..n] :
        /\ \A i \in 1..n : \E j \in 1..n : order[j] = i
        /\ \A i \in 1..n : list[i] = servers[order[i]]
  BY DEF StablePartition
<1>4. ToSet(list) = ToSet(servers)
  <2>1. ASSUME NEW x \in ToSet(list) PROVE x \in ToSet(servers)
    BY <1>2, <1>3 DEF ToSet
  <2>2. ASSUME NEW x \in ToSet(servers) PROVE x \in ToSet(list)
    BY <1>2, <1>3 DEF ToSet
  <2> QED
    BY <2>1, <2>2
<1> QED
  BY <1>1, <1>4 DEF Configured

(* The servers from place n + 1 on put between the two groups: one server  *)
(* that failed without a timeout, or all the rest once one has answered.   *)
LEMMA SpliceWalk ==
  ASSUME NEW S, NEW v \in Seq(S), NEW servers \in Seq(S), NEW r \in Seq(S),
         NEW n \in Nat, NEW late, NEW amount,
         Walk(v, servers, n, late, amount),
         \A i \in 1..Len(r) : r[i] = servers[n + i]
  PROVE  Walk(Splice(v, amount, r), servers, n + Len(r), late, amount + Len(r))
<1> DEFINE k == Len(r)
           w == Splice(v, amount, r)
           m == n + k
<1>1. /\ Len(v) = n /\ late \subseteq 1..n /\ amount \in 1..(n + 1)
      /\ k \in Nat /\ m \in Nat
  BY LenProperties DEF Walk
<1>2. PICK p : IsWalk(p, v, servers, n, late, amount)
  BY DEF Walk
<1>3. /\ p \in [1..n -> 1..n]
      /\ \A i \in 1..n : \E j \in 1..n : p[j] = i
      /\ \A i, j \in 1..n : i < j => Before(p[i], p[j], late)
      /\ \A i \in 1..n : v[i] = servers[p[i]]
      /\ \A i \in 1..n : p[i] \in late <=> amount <= i
  BY <1>2 DEF IsWalk
<1>4. /\ w \in Seq(S)
      /\ Len(w) = m
      /\ \A i \in 1..m :
           /\ i < amount => w[i] = v[i]
           /\ amount <= i /\ i < amount + k => w[i] = r[i - amount + 1]
           /\ amount + k <= i => w[i] = v[i - k]
  <2> amount \in 1..(Len(v) + 1)
    BY <1>1
  <2>1. w \in Seq(S) /\ IsSplice(w, v, amount, r)
    BY SpliceLaws
  <2> HIDE DEF w
  <2> QED
    BY <1>1, <2>1 DEF IsSplice
<1> HIDE DEF k, w
<1> DEFINE o == [i \in 1..m |-> IF i < amount THEN p[i]
                                ELSE IF i < amount + k THEN n + (i - amount + 1)
                                ELSE p[i - k]]
<1>5. \A i \in 1..m :
        /\ i < amount => i \in 1..n /\ o[i] = p[i] /\ p[i] \in 1..n /\ p[i] \notin late
        /\ amount <= i /\ i < amount + k =>
             /\ i - amount + 1 \in 1..k
             /\ o[i] = n + (i - amount + 1)
             /\ o[i] \in 1..m
             /\ n < o[i]
             /\ o[i] \notin late
        /\ amount + k <= i =>
             /\ i - k \in 1..n /\ amount <= i - k
             /\ o[i] = p[i - k] /\ p[i - k] \in 1..n /\ p[i - k] \in late
  <2> SUFFICES ASSUME NEW i \in 1..m
               PROVE  /\ i < amount => /\ i \in 1..n /\ o[i] = p[i]
                                       /\ p[i] \in 1..n /\ p[i] \notin late
                      /\ amount <= i /\ i < amount + k =>
                           /\ i - amount + 1 \in 1..k
                           /\ o[i] = n + (i - amount + 1)
                           /\ o[i] \in 1..m
                           /\ n < o[i]
                           /\ o[i] \notin late
                      /\ amount + k <= i =>
                           /\ i - k \in 1..n /\ amount <= i - k
                           /\ o[i] = p[i - k] /\ p[i - k] \in 1..n
                           /\ p[i - k] \in late
    OBVIOUS
  <2>1. CASE i < amount
    <3>1. i \in 1..n /\ ~(amount <= i) /\ ~(amount + k <= i)
      BY <1>1, <2>1
    <3> QED
      BY <1>3, <2>1, <3>1
  <2>2. CASE amount <= i /\ i < amount + k
    <3>1. /\ i - amount + 1 \in 1..k /\ ~(i < amount) /\ ~(amount + k <= i)
          /\ n + (i - amount + 1) \in 1..m /\ n < n + (i - amount + 1)
      BY <1>1, <2>2
    <3>2. n + (i - amount + 1) \notin late
      BY <1>1, <3>1
    <3>3. o[i] = n + (i - amount + 1)
      BY <2>2, <3>1
    <3> HIDE DEF o
    <3> QED
      BY <3>1, <3>2, <3>3
  <2>3. CASE amount + k <= i
    <3>1. i - k \in 1..n /\ amount <= i - k /\ ~(i < amount) /\ ~(i < amount + k)
      BY <1>1, <2>3
    <3>2. o[i] = p[i - k]
      BY <3>1
    <3> HIDE DEF o
    <3> QED
      BY <1>3, <3>1, <3>2
  <2> QED
    BY <1>1, <2>1, <2>2, <2>3
<1>6. \A i \in 1..m : \/ i < amount
                      \/ amount <= i /\ i < amount + k
                      \/ amount + k <= i
  BY <1>1
<1>7. o \in [1..m -> 1..m]
  <2>1. \A x \in 1..n : x \in 1..m
    BY <1>1
  <2>2. \A i \in 1..m : o[i] \in 1..m
    BY <1>5, <1>6, <2>1
  <2> QED
    BY <2>2
<1>8. ASSUME NEW i \in 1..m PROVE \E j \in 1..m : o[j] = i
  <2>1. CASE i \in 1..n
    <3>1. PICK j \in 1..n : p[j] = i
      BY <1>3, <2>1
    <3>2. CASE j < amount
      <4>1. j \in 1..m /\ o[j] = p[j]
        BY <1>1, <3>2
      <4> QED
        BY <3>1, <4>1
    <3>3. CASE ~(j < amount)
      <4>1. /\ j + k \in 1..m /\ ~(j + k < amount) /\ ~(j + k < amount + k)
            /\ (j + k) - k = j
        BY <1>1, <3>3
      <4>2. o[j + k] = p[j]
        BY <4>1
      <4> QED
        BY <3>1, <4>1, <4>2
    <3> QED
      BY <3>2, <3>3
  <2>2. CASE i \notin 1..n
    <3>1. /\ i - n + amount - 1 \in 1..m
          /\ ~(i - n + amount - 1 < amount)
          /\ i - n + amount - 1 < amount + k
          /\ n + ((i - n + amount - 1) - amount + 1) = i
      BY <1>1, <2>2
    <3>2. o[i - n + amount - 1] = i
      BY <3>1
    <3> QED
      BY <3>1, <3>2
  <2> QED
    BY <2>1, <2>2
<1> HIDE DEF o
<1>9. ASSUME NEW i \in 1..m, NEW j \in 1..m, i < j PROVE Before(o[i], o[j], late)
  <2>1. CASE j < amount
    <3>1. i \in 1..n /\ j \in 1..n /\ i < amount
      BY <1>1, <1>9, <2>1
    <3> QED
      BY <1>3, <1>5, <1>9, <2>1, <3>1
  <2>2. CASE amount <= j /\ j < amount + k
    <3>1. CASE i < amount
      <4>1. o[i] \in 1..n /\ o[i] \notin late /\ o[j] \notin late /\ n < o[j] /\ o[j] \in 1..m
        BY <1>5, <2>2, <3>1
      <4>2. o[i] < o[j]
        BY <1>1, <4>1
      <4> QED
        BY <4>1, <4>2 DEF Before
    <3>2. CASE ~(i < amount)
      <4>1. amount <= i /\ i < amount + k
        BY <1>1, <1>9, <2>2, <3>2
      <4>2. /\ o[i] = n + (i - amount + 1) /\ o[j] = n + (j - amount + 1)
            /\ o[i] \notin late /\ o[j] \notin late
        BY <1>5, <2>2, <4>1
      <4>3. n + (i - amount + 1) < n + (j - amount + 1)
        BY <1>1, <1>9
      <4> QED
        BY <4>2, <4>3 DEF Before
    <3> QED
      BY <3>1, <3>2
  <2>3. CASE amount + k <= j
    <3>1. /\ j - k \in 1..n /\ o[j] = p[j - k] /\ o[j] \in late
      BY <1>5, <2>3
    <3>2. CASE amount + k <= i
      <4>1. /\ i - k \in 1..n /\ o[i] = p[i - k]
        BY <1>5, <3>2
      <4>2. i - k < j - k
        BY <1>1, <1>9
      <4> QED
        BY <1>3, <3>1, <4>1, <4>2
    <3>3. CASE ~(amount + k <= i)
      <4>1. o[i] \notin late
        BY <1>5, <1>6, <3>3
      <4> QED
        BY <3>1, <4>1 DEF Before
    <3> QED
      BY <3>2, <3>3
  <2> QED
    BY <1>6, <2>1, <2>2, <2>3
<1>10. ASSUME NEW i \in 1..m PROVE w[i] = servers[o[i]]
  <2>1. CASE i < amount
    BY <1>3, <1>4, <1>5, <2>1
  <2>2. CASE amount <= i /\ i < amount + k
    <3>1. w[i] = r[i - amount + 1] /\ i - amount + 1 \in 1..k /\ o[i] = n + (i - amount + 1)
      BY <1>4, <1>5, <2>2
    <3> QED
      BY <3>1 DEF k
  <2>3. CASE amount + k <= i
    <3>1. w[i] = v[i - k] /\ i - k \in 1..n /\ o[i] = p[i - k]
      BY <1>4, <1>5, <2>3
    <3> QED
      BY <1>3, <3>1
  <2> QED
    BY <1>6, <2>1, <2>2, <2>3
<1>11. ASSUME NEW i \in 1..m PROVE o[i] \in late <=> amount + k <= i
  <2>1. CASE amount + k <= i
    BY <1>5, <2>1
  <2>2. CASE ~(amount + k <= i)
    BY <1>5, <1>6, <2>2
  <2> QED
    BY <2>1, <2>2
<1>12. IsWalk(o, w, servers, m, late, amount + k)
  BY <1>7, <1>8, <1>9, <1>10, <1>11 DEF IsWalk
<1>13. late \subseteq 1..m /\ amount + k \in 1..(m + 1)
  BY <1>1
<1>14. Walk(w, servers, m, late, amount + k)
  BY <1>4, <1>12, <1>13 DEF Walk
<1> QED
  BY <1>14 DEF w, k

(* A server that timed out put at the end.                                 *)
LEMMA DemoteWalk ==
  ASSUME NEW S, NEW v \in Seq(S), NEW servers, NEW n \in Nat, NEW late, NEW amount,
         Walk(v, servers, n, late, amount), servers[n + 1] \in S
  PROVE  Walk(Append(v, servers[n + 1]), servers, n + 1, late \cup {n + 1}, amount)
<1> DEFINE w == Append(v, servers[n + 1])
           m == n + 1
           after == late \cup {m}
<1>1. Len(v) = n /\ late \subseteq 1..n /\ amount \in 1..(n + 1)
  BY DEF Walk
<1>2. PICK p : IsWalk(p, v, servers, n, late, amount)
  BY DEF Walk
<1>3. /\ p \in [1..n -> 1..n]
      /\ \A i \in 1..n : \E j \in 1..n : p[j] = i
      /\ \A i, j \in 1..n : i < j => Before(p[i], p[j], late)
      /\ \A i \in 1..n : v[i] = servers[p[i]]
      /\ \A i \in 1..n : p[i] \in late <=> amount <= i
  BY <1>2 DEF IsWalk
<1>4. Len(w) = m /\ w[m] = servers[m] /\ \A i \in 1..n : w[i] = v[i]
  BY <1>1, AppendProperties, LenProperties
<1> HIDE DEF w
<1> DEFINE o == [i \in 1..m |-> IF i = m THEN m ELSE p[i]]
<1>5. m \in 1..m /\ m \notin 1..n /\ \A i \in 1..m : i = m \/ i \in 1..n
  BY <1>1
<1>6. \A i \in 1..n : i \in 1..m /\ i # m /\ i < m
  BY <1>1
<1>7. o[m] = m /\ \A i \in 1..n : o[i] = p[i] /\ p[i] \in 1..n
  BY <1>3, <1>5, <1>6
<1>8. o \in [1..m -> 1..m]
  BY <1>3, <1>5, <1>6
<1> HIDE DEF o, m
<1>9. \A i \in 1..m : \E j \in 1..m : o[j] = i
  BY <1>3, <1>5, <1>6, <1>7
<1>10. ASSUME NEW i \in 1..m, NEW j \in 1..m, i < j PROVE Before(o[i], o[j], after)
  <2>1. i \in 1..n
    BY <1>1, <1>10 DEF m
  <2>2. CASE j = m
    <3>1. o[i] < m /\ o[j] = m /\ o[j] \in after
      BY <1>6, <1>7, <2>1, <2>2
    <3> QED
      BY <3>1 DEF Before
  <2>3. CASE j \in 1..n
    <3>1. /\ Before(p[i], p[j], late) /\ o[i] = p[i] /\ o[j] = p[j]
          /\ p[i] # m /\ p[j] # m
      BY <1>3, <1>5, <1>7, <1>10, <2>1, <2>3
    <3> QED
      BY <3>1 DEF Before
  <2> QED
    BY <1>5, <2>2, <2>3
<1>11. \A i \in 1..m : w[i] = servers[o[i]]
  BY <1>3, <1>4, <1>5, <1>7
<1>12. ASSUME NEW i \in 1..m PROVE o[i] \in after <=> amount <= i
  <2>1. CASE i = m
    BY <1>1, <1>7, <2>1 DEF m
  <2>2. CASE i \in 1..n
    <3>1. o[i] = p[i] /\ p[i] # m
      BY <1>5, <1>7, <2>2
    <3>2. p[i] \in late <=> amount <= i
      BY <1>3, <2>2
    <3> QED
      BY <3>1, <3>2
  <2> QED
    BY <1>5, <2>1, <2>2
<1>13. IsWalk(o, w, servers, m, after, amount)
  BY <1>8, <1>9, <1>10, <1>11, <1>12 DEF IsWalk
<1>14. after \subseteq 1..m /\ amount \in 1..(m + 1)
  BY <1>1 DEF m
<1>15. Walk(w, servers, m, after, amount)
  BY <1>4, <1>13, <1>14 DEF Walk
<1> QED
  BY <1>15 DEF w, m
-----------------------------------------------------------------------------
(* The call of a coroutine that asks, and the server it asks.              *)
LEMMA AskingCall ==
  ASSUME DnsInv, NEW c \in Co, Asking(c)
  PROVE  /\ call[c] \in Call
         /\ Configured(call[c].nameservers)
         /\ call[c].nameservers \in Seq(Servers)
         /\ call[c].valid_nameserver \in Seq(Servers)
         /\ call[c].at \in 1..Len(call[c].nameservers)
         /\ call[c].at - 1 \in Nat
         /\ Server(c) \in Servers
         /\ Walk(call[c].valid_nameserver, call[c].nameservers, call[c].at - 1,
                 call[c].timedOut, call[c].valid_amount)
<1>1. call[c] \in Call /\ InLoop(call[c])
  BY DEF DnsInv, TypeOK, CallsInLoop, LoopCalls
<1>2. call[c].nameservers \in Seq(Servers) /\ call[c].valid_nameserver \in Seq(Servers)
  BY <1>1 DEF Call
<1>3. call[c].at \in 1..Len(call[c].nameservers)
  BY <1>1 DEF InLoop
<1>4. Server(c) \in Servers
  BY <1>2, <1>3, ElementOfSeq DEF Server
<1>5. call[c].at - 1 \in Nat
  BY <1>2, <1>3, LenProperties
<1> QED
  BY <1>1, <1>2, <1>3, <1>4, <1>5 DEF InLoop

(* The loop body for a server that did not answer keeps the walk.          *)
LEMMA AfterServerWalk ==
  ASSUME DnsInv, NEW c \in Co, Asking(c), NEW timeout \in BOOLEAN
  PROVE  LET after == AfterServer(c, timeout)
         IN /\ after \in Call
            /\ after.nameservers = call[c].nameservers
            /\ after.at = call[c].at
            /\ Walk(after.valid_nameserver, after.nameservers, after.at,
                    after.timedOut, after.valid_amount)
<1> DEFINE ns == call[c].nameservers
           v == call[c].valid_nameserver
           n == call[c].at - 1
           late == call[c].timedOut
           amount == call[c].valid_amount
<1>1. /\ call[c] \in Call /\ ns \in Seq(Servers) /\ v \in Seq(Servers)
      /\ n \in Nat /\ n + 1 = call[c].at /\ Server(c) = ns[n + 1] /\ ns[n + 1] \in Servers
      /\ Walk(v, ns, n, late, amount)
  <2>1. call[c].at \in Nat
    BY AskingCall, LenProperties
  <2>2. call[c].at - 1 + 1 = call[c].at
    BY <2>1
  <2> QED
    BY <2>2, AskingCall DEF Server
<1>2. CASE timeout
  <2>1. AfterServer(c, timeout) =
          [call[c] EXCEPT !.valid_nameserver = Append(v, ns[n + 1]),
                          !.timedOut = late \cup {n + 1}]
    BY <1>1, <1>2 DEF AfterServer, demote, Call
  <2>2. Append(v, ns[n + 1]) \in Seq(Servers)
    <3> HIDE DEF ns, n, v
    <3> QED
      BY <1>1, AppendProperties, LenProperties
  <2>3. Walk(Append(v, ns[n + 1]), ns, n + 1, late \cup {n + 1}, amount)
    <3> HIDE DEF ns, n, v, late, amount
    <3> QED
      BY <1>1, DemoteWalk
  <2>4. late \cup {n + 1} \in SUBSET Nat
    <3>1. late \in SUBSET Nat
      BY <1>1 DEF Call
    <3>2. n + 1 \in Nat
      BY <1>1
    <3> QED
      BY <3>1, <3>2
  <2>5. AfterServer(c, timeout) \in Call
    BY <1>1, <2>1, <2>2, <2>4 DEF Call
  <2>6. /\ AfterServer(c, timeout).nameservers = ns
        /\ AfterServer(c, timeout).at = n + 1
        /\ AfterServer(c, timeout).valid_nameserver = Append(v, ns[n + 1])
        /\ AfterServer(c, timeout).timedOut = late \cup {n + 1}
        /\ AfterServer(c, timeout).valid_amount = amount
    BY <1>1, <2>1 DEF Call
  <2> QED
    BY <1>1, <2>3, <2>5, <2>6
<1>3. CASE ~timeout
  <2>1. AfterServer(c, timeout) =
          [call[c] EXCEPT !.valid_nameserver = Splice(v, amount, <<ns[n + 1]>>),
                          !.valid_amount = amount + 1]
    BY <1>1, <1>3 DEF AfterServer, keep, InsertAt, Splice, Call
  <2>2. /\ <<ns[n + 1]>> \in Seq(Servers) /\ Len(<<ns[n + 1]>>) = 1
        /\ \A i \in 1..1 : <<ns[n + 1]>>[i] = ns[n + i]
    BY <1>1
  <2>3. amount \in 1..(Len(v) + 1)
    BY <1>1 DEF Walk
  <2>4. Splice(v, amount, <<ns[n + 1]>>) \in Seq(Servers)
    <3> HIDE DEF ns, n, v, amount
    <3> QED
      BY <1>1, <2>2, <2>3, SpliceLaws
  <2>5. Walk(Splice(v, amount, <<ns[n + 1]>>), ns, n + 1, late, amount + 1)
    <3> DEFINE r == <<ns[n + 1]>>
    <3>1. r \in Seq(Servers) /\ Len(r) = 1 /\ \A i \in 1..Len(r) : r[i] = ns[n + i]
      BY <2>2
    <3> HIDE DEF ns, n, v, late, amount, r
    <3>2. Walk(Splice(v, amount, r), ns, n + Len(r), late, amount + Len(r))
      BY <1>1, <3>1, SpliceWalk
    <3> QED
      BY <3>1, <3>2 DEF r
  <2>6. amount + 1 \in Nat
    <3>1. amount \in Nat
      BY <1>1 DEF Call
    <3> HIDE DEF amount
    <3> QED
      BY <3>1
  <2>7. AfterServer(c, timeout) \in Call
    BY <1>1, <2>1, <2>4, <2>6 DEF Call
  <2>8. /\ AfterServer(c, timeout).nameservers = ns
        /\ AfterServer(c, timeout).at = n + 1
        /\ AfterServer(c, timeout).valid_nameserver = Splice(v, amount, <<ns[n + 1]>>)
        /\ AfterServer(c, timeout).timedOut = late
        /\ AfterServer(c, timeout).valid_amount = amount + 1
    BY <1>1, <2>1 DEF Call
  <2> QED
    BY <1>1, <2>5, <2>7, <2>8
<1> QED
  BY <1>2, <1>3

(* Once a server has answered, the list written back is a partition.       *)
LEMMA AllServersPartition ==
  ASSUME DnsInv, NEW c \in Co, Asking(c)
  PROVE  /\ AllServers(c) \in Seq(Servers)
         /\ StablePartition(AllServers(c), call[c].nameservers,
                            Len(call[c].nameservers), call[c].timedOut)
<1> DEFINE ns == call[c].nameservers
           v == call[c].valid_nameserver
           at == call[c].at
           n == at - 1
           late == call[c].timedOut
           amount == call[c].valid_amount
           r == SubSeq(ns, at, Len(ns))
<1>1. /\ ns \in Seq(Servers) /\ v \in Seq(Servers)
      /\ at \in 1..Len(ns) /\ n \in Nat
      /\ Walk(v, ns, n, late, amount)
  BY AskingCall
<1>2. AllServers(c) = Splice(v, amount, r)
  BY DEF AllServers, Splice
<1> HIDE DEF ns, v, at, late, amount
<1>3. Len(ns) \in Nat /\ at \in 1..(Len(ns) + 1) /\ Len(ns) \in (at - 1)..Len(ns)
  BY <1>1, LenProperties
<1>4. /\ r \in Seq(Servers) /\ Len(r) = Len(ns) - at + 1
      /\ \A i \in 1..(Len(ns) - at + 1) : r[i] = ns[at + i - 1]
  BY <1>1, <1>3, SubSeqLaws
<1>5. \A i \in 1..Len(r) : r[i] = ns[n + i]
  <2>1. \A i \in 1..Len(r) : at + i - 1 = n + i
    BY <1>1, <1>3, <1>4
  <2> QED
    BY <1>4, <2>1
<1>6. n + Len(r) = Len(ns)
  BY <1>1, <1>3, <1>4
<1>7. amount \in 1..(Len(v) + 1)
  BY <1>1 DEF Walk
<1> HIDE DEF r, n
<1>8. Walk(Splice(v, amount, r), ns, n + Len(r), late, amount + Len(r))
  BY <1>1, <1>4, <1>5, SpliceWalk
<1>9. StablePartition(Splice(v, amount, r), ns, Len(ns), late)
  BY <1>3, <1>6, <1>8, WalkPartition
<1>10. Splice(v, amount, r) \in Seq(Servers)
  BY <1>1, <1>4, <1>7, SpliceLaws
<1> QED
  BY <1>2, <1>9, <1>10 DEF ns, late
-----------------------------------------------------------------------------
(* The lists the program is given are arrangements of themselves, and so   *)
(* is what get_nameservers returns.                                        *)
LEMMA ListsArranged == Lists \subseteq Arrangements
  BY DnsAssumption DEF Arrangements, Configured

LEMMA NameserversArranged ==
  ASSUME DnsInv
  PROVE  get_nameservers \in Arrangements
<1>1. ResolvConf \in Arrangements
  BY ListsArranged DEF Lists
<1> QED
  BY <1>1 DEF get_nameservers, DnsInv

(* A step that changes the locals of one call.                             *)
LEMMA OneCall ==
  ASSUME DnsInv, NEW c \in Co, NEW new \in Call,
         call' = [call EXCEPT ![c] = new],
         new.over # "none" => new \in LoopCalls
  PROVE  /\ call' \in [Co -> Call]
         /\ CallsInLoop'
<1>1. call \in [Co -> Call]
  BY DEF DnsInv, TypeOK
<1>2. \A d \in Co : call'[d] = IF d = c THEN new ELSE call[d]
  BY <1>1
<1>3. call' \in [Co -> Call]
  BY <1>1
<1>4. ASSUME NEW d \in Co, call'[d].over # "none" PROVE call'[d] \in LoopCalls
  BY <1>2, <1>4 DEF DnsInv, CallsInLoop, Asking
<1> QED
  BY <1>3, <1>4 DEF CallsInLoop, Asking

LEMMA NoCallType == NoCall \in Call /\ NoCall.over = "none"
<1>1. (CHOOSE q \in Query : TRUE) \in Query
  BY DnsAssumption
<1>2. <<>> \in Seq(Servers) /\ {} \in SUBSET Nat
  OBVIOUS
<1> DEFINE first == CHOOSE q \in Query : TRUE
<1>3. NoCall = [over |-> "none", ret |-> "none", q |-> first, nameservers |-> <<>>,
                at |-> 0, valid_nameserver |-> <<>>, valid_amount |-> 1, timedOut |-> {}]
  BY DEF NoCall
<1> HIDE DEF first
<1> QED
  BY <1>1, <1>2, <1>3 DEF Call, first

LEMMA InitDns == Init => DnsInv
<1> SUFFICES ASSUME Init PROVE DnsInv
  OBVIOUS
<1>1. call \in [Co -> Call] /\ \A c \in Co : call[c].over = "none"
  BY NoCallType DEF Init
<1>2. sets \in 0..MaxSets /\ resolves \in 0..MaxResolves /\ next_tid \in 1..(resolves + 1)
  BY DnsAssumption DEF Init
<1>3. DOMAIN cached = Query /\ now \in Nat
  BY DEF Init
<1>4. dns_addrs = NoServers
  BY DEF Init
<1> QED
  BY <1>1, <1>2, <1>3, <1>4 DEF DnsInv, TypeOK, CallsInLoop, Asking

(* resolve answered or refused at once.                                    *)
LEMMA AtOnceStep ==
  ASSUME DnsInv, NEW c \in Co, NEW q \in Query,
         resolve_local(c, q) \/ resolve_overflow(c, q) \/ resolve_unconfigured(c, q)
  PROVE  DnsInv'
<1>1. PICK ret \in {"answers", "raised"} :
        call' = [call EXCEPT ![c] = [NoCall EXCEPT !.q = q, !.ret = ret]]
  BY DEF resolve_local, resolve_overflow, resolve_unconfigured
<1> DEFINE new == [NoCall EXCEPT !.q = q, !.ret = ret]
<1>2. new \in Call /\ new.over = "none"
  BY NoCallType DEF Call
<1>3. call' = [call EXCEPT ![c] = new]
  BY <1>1
<1> HIDE DEF new
<1>4. call' \in [Co -> Call] /\ CallsInLoop'
  BY <1>2, <1>3, OneCall
<1>5. /\ dns_addrs' = dns_addrs /\ now' = now /\ sets' = sets
      /\ resolves' = resolves + 1 /\ resolves < MaxResolves
      /\ next_tid' \in {next_tid, next_tid + 1}
      /\ DOMAIN cached' = DOMAIN cached
  BY DEF resolve_local, resolve_overflow, resolve_unconfigured, Ready, Looked
<1>6. /\ resolves \in 0..MaxResolves /\ next_tid \in 1..(resolves + 1) /\ MaxResolves \in Nat
  BY DnsAssumption DEF DnsInv, TypeOK
<1>7. resolves' \in 0..MaxResolves /\ next_tid' \in 1..(resolves' + 1)
  BY <1>5, <1>6
<1> QED
  BY <1>4, <1>5, <1>7 DEF DnsInv, TypeOK

(* resolve goes to the servers.                                            *)
LEMMA RemoteStep ==
  ASSUME DnsInv, NEW c \in Co, NEW q \in Query, remote_resolve(c, q)
  PROVE  DnsInv'
<1> DEFINE ns == get_nameservers
           started == [NoCall EXCEPT !.q = q, !.nameservers = ns]
           new == IF ns = <<>> THEN [started EXCEPT !.ret = "failed"]
                  ELSE [started EXCEPT !.over = "udp", !.at = 1]
<1>1. ns \in Seq(Servers) /\ Configured(ns) /\ ns \in Arrangements
  BY NameserversArranged DEF Arrangements
<1>2. call' = [call EXCEPT ![c] = new]
  BY DEF remote_resolve
<1> HIDE DEF ns
<1>3. started \in Call
  BY <1>1, NoCallType DEF Call
<1>4. new \in Call
  BY <1>3 DEF Call
<1>5. new.over # "none" => InLoop(new)
  <2> SUFFICES ASSUME ns # <<>> PROVE InLoop(new)
    BY NoCallType DEF Call
  <2>1. /\ new.nameservers = ns /\ new.at = 1 /\ new.valid_nameserver = <<>>
        /\ new.timedOut = {} /\ new.valid_amount = 1
    BY DEF NoCall
  <2>2. 1 \in 1..Len(ns)
    BY <1>1, EmptySeq, LenProperties
  <2>3. Walk(<<>>, ns, 1 - 1, {}, 1)
    BY EmptyWalk
  <2> HIDE DEF new
  <2> QED
    BY <1>1, <2>1, <2>2, <2>3 DEF InLoop
<1> HIDE DEF new
<1>6. call' \in [Co -> Call] /\ CallsInLoop'
  BY <1>2, <1>4, <1>5, OneCall DEF LoopCalls
<1>7. /\ dns_addrs' = ns /\ now' = now /\ sets' = sets
      /\ resolves' = resolves + 1 /\ resolves < MaxResolves
      /\ next_tid' = next_tid + 1
      /\ DOMAIN cached' = DOMAIN cached
  BY DEF remote_resolve, Ready, Looked, ns
<1>8. /\ resolves \in 0..MaxResolves /\ next_tid \in 1..(resolves + 1) /\ MaxResolves \in Nat
  BY DnsAssumption DEF DnsInv, TypeOK
<1>9. resolves' \in 0..MaxResolves /\ next_tid' \in 1..(resolves' + 1)
  BY <1>7, <1>8
<1> QED
  BY <1>1, <1>6, <1>7, <1>9 DEF DnsInv, TypeOK

(* A server did not answer and another one is left.                        *)
LEMMA AsksNextStep ==
  ASSUME DnsInv, NEW c \in Co, NEW timeout \in BOOLEAN, AsksNext(c, timeout)
  PROVE  DnsInv'
<1> DEFINE after == AfterServer(c, timeout)
           new == [after EXCEPT !.over = "udp", !.at = @ + 1]
<1>1. Asking(c) /\ call[c].at < Len(call[c].nameservers)
      /\ call' = [call EXCEPT ![c] = new]
  BY DEF AsksNext
<1>2. /\ after \in Call
      /\ after.nameservers = call[c].nameservers
      /\ after.at = call[c].at
      /\ Walk(after.valid_nameserver, after.nameservers, after.at,
              after.timedOut, after.valid_amount)
  BY <1>1, AfterServerWalk
<1>3. /\ Configured(call[c].nameservers)
      /\ call[c].nameservers \in Seq(Servers)
      /\ call[c].at \in 1..Len(call[c].nameservers)
  BY <1>1, AskingCall
<1> HIDE DEF after
<1>4. /\ new \in Call /\ new.nameservers = after.nameservers /\ new.at = after.at + 1
      /\ new.valid_nameserver = after.valid_nameserver
      /\ new.timedOut = after.timedOut /\ new.valid_amount = after.valid_amount
  <2>1. after \in Call
    BY <1>2
  <2>2. after.at \in Nat
    BY <2>1 DEF Call
  <2> DEFINE next == after.at + 1
  <2>3. next \in Nat
    BY <2>2
  <2>4. new = [after EXCEPT !.over = "udp", !.at = next]
    OBVIOUS
  <2> HIDE DEF next, new
  <2>5. /\ new \in Call /\ new.nameservers = after.nameservers /\ new.at = next
        /\ new.valid_nameserver = after.valid_nameserver
        /\ new.timedOut = after.timedOut /\ new.valid_amount = after.valid_amount
    BY <2>1, <2>3, <2>4 DEF Call
  <2> QED
    BY <2>5 DEF next
<1>5. new.at \in 1..Len(new.nameservers) /\ new.at - 1 = after.at
  <2>1. Len(call[c].nameservers) \in Nat
    BY <1>3, LenProperties
  <2> HIDE DEF new
  <2> QED
    BY <1>1, <1>2, <1>3, <1>4, <2>1
<1> HIDE DEF new
<1>6. InLoop(new)
  BY <1>2, <1>3, <1>4, <1>5 DEF InLoop
<1>7. call' \in [Co -> Call] /\ CallsInLoop'
  BY <1>1, <1>4, <1>6, OneCall DEF LoopCalls
<1>8. UNCHANGED <<dns_addrs, next_tid, cached, now, sets, resolves>>
  BY DEF AsksNext
<1> QED
  BY <1>7, <1>8 DEF DnsInv, TypeOK

(* No server answered: the list written back is a partition of the one     *)
(* the call started from.                                                  *)
LEMMA GivesUpStep ==
  ASSUME DnsInv, NEW c \in Co, NEW timeout \in BOOLEAN, GivesUp(c, timeout)
  PROVE  DnsInv' /\ StoresPartition(call'[c])
<1> DEFINE after == AfterServer(c, timeout)
           new == [after EXCEPT !.over = "none", !.ret = "failed"]
<1>1. /\ Asking(c) /\ call[c].at = Len(call[c].nameservers)
      /\ dns_addrs' = after.valid_nameserver
      /\ call' = [call EXCEPT ![c] = new]
  BY DEF GivesUp
<1>2. /\ after \in Call
      /\ after.nameservers = call[c].nameservers
      /\ after.at = call[c].at
      /\ Walk(after.valid_nameserver, after.nameservers, after.at,
              after.timedOut, after.valid_amount)
  BY <1>1, AfterServerWalk
<1>3. Configured(call[c].nameservers)
  BY <1>1, AskingCall
<1> HIDE DEF after
<1>4. /\ after.nameservers \in Seq(Servers) /\ after.valid_nameserver \in Seq(Servers)
      /\ after.at \in Nat /\ after.at = Len(after.nameservers)
  BY <1>1, <1>2 DEF Call
<1>5. StablePartition(after.valid_nameserver, after.nameservers,
                      Len(after.nameservers), after.timedOut)
  BY <1>2, <1>4, WalkPartition
<1>6. after.valid_nameserver \in Arrangements
  BY <1>2, <1>3, <1>4, <1>5, PartitionConfigured DEF Arrangements
<1>7. /\ new \in Call /\ new.over = "none"
      /\ new.nameservers = after.nameservers /\ new.timedOut = after.timedOut
  BY <1>2 DEF Call
<1> HIDE DEF new
<1>8. call' \in [Co -> Call] /\ CallsInLoop'
  BY <1>1, <1>7, OneCall
<1>9. UNCHANGED <<next_tid, cached, now, sets, resolves>>
  BY DEF GivesUp
<1>10. DnsInv'
  BY <1>1, <1>4, <1>6, <1>8, <1>9 DEF DnsInv, TypeOK
<1>11. call'[c] = new
  BY <1>1 DEF DnsInv, TypeOK
<1> QED
  BY <1>1, <1>5, <1>7, <1>10, <1>11 DEF StoresPartition

(* The request is made again over TCP, or its answer is never unpacked.    *)
LEMMA StillAskingStep ==
  ASSUME DnsInv, NEW c \in Co, Truncated(c) \/ unpack_name_loops(c)
  PROVE  DnsInv' /\ call'[c].over # "none"
<1>1. PICK over \in {"tcp", "looping"} :
         Asking(c) /\ call' = [call EXCEPT ![c] = [call[c] EXCEPT !.over = over]]
  BY DEF Truncated, unpack_name_loops, Asking
<1> DEFINE new == [call[c] EXCEPT !.over = over]
<1>2. call[c] \in Call /\ InLoop(call[c])
  BY <1>1 DEF DnsInv, CallsInLoop, LoopCalls
<1>3. /\ new \in Call /\ new.over # "none"
      /\ new.nameservers = call[c].nameservers /\ new.at = call[c].at
      /\ new.valid_nameserver = call[c].valid_nameserver
      /\ new.timedOut = call[c].timedOut /\ new.valid_amount = call[c].valid_amount
  BY <1>2 DEF Call
<1>4. call' = [call EXCEPT ![c] = new]
  BY <1>1
<1> HIDE DEF new
<1>5. InLoop(new)
  BY <1>2, <1>3 DEF InLoop
<1>6. call' \in [Co -> Call] /\ CallsInLoop'
  BY <1>3, <1>4, <1>5, OneCall DEF LoopCalls
<1>7. UNCHANGED <<dns_addrs, next_tid, cached, now, sets, resolves>>
  BY DEF Truncated, unpack_name_loops
<1>8. call'[c] = new
  BY <1>4 DEF DnsInv, TypeOK
<1> QED
  BY <1>3, <1>6, <1>7, <1>8 DEF DnsInv, TypeOK

(* The call that is over keeps its locals.                                 *)
LEMMA IdleCall ==
  ASSUME DnsInv, NEW c \in Co, Asking(c),
         NEW ret \in {"answers", "no answers", "raised"},
         call' = [call EXCEPT ![c] = Idle(ret, c)]
  PROVE  /\ call' \in [Co -> Call]
         /\ CallsInLoop'
         /\ call'[c].nameservers = call[c].nameservers
         /\ call'[c].timedOut = call[c].timedOut
         /\ call'[c].ret = ret
<1> DEFINE new == Idle(ret, c)
<1>1. call[c] \in Call
  BY DEF DnsInv, TypeOK
<1>2. /\ new \in Call /\ new.over = "none" /\ new.ret = ret
      /\ new.nameservers = call[c].nameservers /\ new.timedOut = call[c].timedOut
  BY <1>1 DEF Call, Idle
<1>3. call' = [call EXCEPT ![c] = new]
  OBVIOUS
<1> HIDE DEF new
<1>4. call' \in [Co -> Call] /\ CallsInLoop'
  BY <1>2, <1>3, OneCall
<1>5. call'[c] = new
  BY <1>3 DEF DnsInv, TypeOK
<1> QED
  BY <1>2, <1>4, <1>5

(* A server answered.                                                      *)
LEMMA AnsweredStep ==
  ASSUME DnsInv, NEW c \in Co, NEW answers \in Response, Answered(c, answers)
  PROVE  DnsInv' /\ StoresPartition(call'[c])
<1>1. Asking(c) /\ dns_addrs' = AllServers(c)
      /\ UNCHANGED <<next_tid, now, sets, resolves>>
  BY DEF Answered
<1>2. PICK ret \in {"answers", "no answers", "raised"} :
        call' = [call EXCEPT ![c] = Idle(ret, c)]
  BY DEF Answered
<1>3. /\ call' \in [Co -> Call] /\ CallsInLoop'
      /\ call'[c].nameservers = call[c].nameservers
      /\ call'[c].timedOut = call[c].timedOut
  BY <1>1, <1>2, IdleCall
<1>4. /\ AllServers(c) \in Seq(Servers)
      /\ StablePartition(AllServers(c), call[c].nameservers,
                         Len(call[c].nameservers), call[c].timedOut)
  BY <1>1, AllServersPartition
<1>5. call[c].nameservers \in Seq(Servers) /\ Configured(call[c].nameservers)
  BY <1>1, AskingCall
<1>6. AllServers(c) \in Arrangements
  BY <1>4, <1>5, PartitionConfigured DEF Arrangements
<1>7. DOMAIN cached' = DOMAIN cached
  BY DEF Answered, set_cache
<1>8. DnsInv'
  BY <1>1, <1>3, <1>4, <1>6, <1>7 DEF DnsInv, TypeOK
<1> QED
  BY <1>1, <1>3, <1>4, <1>8 DEF StoresPartition

LEMMA RaisesStep ==
  ASSUME DnsInv, NEW c \in Co, Raises(c)
  PROVE  DnsInv' /\ call'[c].ret = "raised"
<1>1. Asking(c) /\ call' = [call EXCEPT ![c] = Idle("raised", c)]
  BY DEF Raises
<1>2. call' \in [Co -> Call] /\ CallsInLoop' /\ call'[c].ret = "raised"
  BY <1>1, IdleCall
<1>3. UNCHANGED <<dns_addrs, next_tid, cached, now, sets, resolves>>
  BY DEF Raises
<1> QED
  BY <1>2, <1>3 DEF DnsInv, TypeOK

(* Steps outside the calls.                                                *)
LEMMA OtherStep ==
  ASSUME DnsInv,
         \/ \E servers \in Preferred : set_servers(servers)
         \/ \E q \in Query : Collect(q)
         \/ Tick
         \/ UNCHANGED vars
  PROVE  DnsInv' /\ call' = call
<1>1. call' = call /\ next_tid' = next_tid /\ resolves' = resolves
      /\ DOMAIN cached' = DOMAIN cached
  BY DEF set_servers, Collect, Tick, vars
<1>2. now \in Nat /\ sets \in 0..MaxSets /\ MaxSets \in Nat
  BY DnsAssumption DEF DnsInv, TypeOK
<1>3. now' \in Nat
  BY <1>2 DEF set_servers, Collect, Tick, vars
<1>4. sets' \in 0..MaxSets
  BY <1>2 DEF set_servers, Collect, Tick, vars
<1>5. dns_addrs' = dns_addrs \/ dns_addrs' \in Lists
  BY DEF set_servers, Collect, Tick, vars, Lists
<1>6. /\ dns_addrs' \in Arrangements \cup {NoServers}
      /\ dns_addrs' \in Seq(Servers) \cup {NoServers}
  BY <1>5, ListsArranged DEF DnsInv, Arrangements
<1>7. CallsInLoop'
  BY <1>1 DEF DnsInv, CallsInLoop, Asking
<1> QED
  BY <1>1, <1>3, <1>4, <1>6, <1>7 DEF DnsInv, TypeOK

-----------------------------------------------------------------------------
(* dns.resolve and set_servers keep the invariant: whatever calls overlap, *)
(* every one that is asking has a walk of the list it took, and the list   *)
(* they share is an arrangement of a configured one.                       *)
THEOREM DnsInvariant == Spec => []DnsInv
<1>1. DnsInv /\ [Next]_vars => DnsInv'
  <2> SUFFICES ASSUME DnsInv, [Next]_vars PROVE DnsInv'
    OBVIOUS
  <2>1. CASE \E c \in Co : RequestEnds(c)
    <3>1. PICK c \in Co : RequestEnds(c)
      BY <2>1
    <3>2. CASE \E timeout \in BOOLEAN : AsksNext(c, timeout) \/ GivesUp(c, timeout)
      BY <3>2, AsksNextStep, GivesUpStep
    <3>3. CASE Truncated(c) \/ unpack_name_loops(c)
      BY <3>3, StillAskingStep
    <3>4. CASE \E answers \in Response : Answered(c, answers)
      BY <3>4, AnsweredStep
    <3>5. CASE Raises(c)
      BY <3>5, RaisesStep
    <3> QED
      BY <3>1, <3>2, <3>3, <3>4, <3>5 DEF RequestEnds
  <2>2. CASE \E c \in Co, q \in Query : Resolves(c, q)
    BY <2>2, AtOnceStep, RemoteStep DEF Resolves
  <2>3. CASE \/ \E servers \in Preferred : set_servers(servers)
             \/ \E q \in Query : Collect(q)
             \/ Tick
             \/ UNCHANGED vars
    BY <2>3, OtherStep
  <2> QED
    BY <2>1, <2>2, <2>3 DEF Next
<1> QED
  BY <1>1, InitDns, PTL DEF Spec

(* dns.resolve never loses, duplicates or mixes the name servers it keeps. *)
THEOREM ServersKeptHolds == Spec => []ServersKept
<1>1. DnsInv => ServersKept
  BY DEF DnsInv, Arrangements, Configured, ServersKept
<1> QED
  BY <1>1, DnsInvariant, PTL

(* The list remote_resolve writes back is the one it took, with the        *)
(* servers that timed out moved to the end, in order.                      *)
THEOREM WriteBackIsStableHolds == Spec => WriteBackIsStable
<1> DEFINE Stable == \A c \in Co : WritesBack(c) => StoresPartition(call'[c])
<1>1. DnsInv /\ [Next]_vars => Stable
  <2> SUFFICES ASSUME DnsInv, [Next]_vars, NEW c \in Co, WritesBack(c)
               PROVE  StoresPartition(call'[c])
    OBVIOUS
  <2>1. /\ call[c].over # "none" /\ call'[c].over = "none"
        /\ call'[c].ret \in {"answers", "no answers", "failed"}
        /\ call'[c] # call[c] /\ call \in [Co -> Call]
    BY DEF WritesBack, Asking, DnsInv, TypeOK
  <2>2. CASE \E d \in Co : RequestEnds(d)
    <3>1. PICK d \in Co : RequestEnds(d)
      BY <2>2
    <3>2. d = c
      <4>1. \E new : call' = [call EXCEPT ![d] = new]
        BY <3>1 DEF RequestEnds, AsksNext, GivesUp, Truncated, Answered, Raises,
                    unpack_name_loops
      <4> QED
        BY <2>1, <4>1
    <3>3. ~AsksNext(c, TRUE) /\ ~AsksNext(c, FALSE)
      <4>1. ASSUME NEW timeout \in BOOLEAN, AsksNext(c, timeout) PROVE FALSE
        <5>1. AfterServer(c, timeout) \in Call
          BY <4>1, AfterServerWalk DEF AsksNext
        <5>2. call'[c] = [AfterServer(c, timeout) EXCEPT !.over = "udp", !.at = @ + 1]
          BY <2>1, <4>1 DEF AsksNext
        <5>3. call'[c].over = "udp"
          BY <5>1, <5>2 DEF Call
        <5> QED
          BY <2>1, <5>3
      <4> QED
        BY <4>1
    <3>4. ~Truncated(c) /\ ~unpack_name_loops(c)
      BY <2>1, StillAskingStep
    <3>5. ~Raises(c)
      BY <2>1, RaisesStep
    <3>6. CASE \E timeout \in BOOLEAN : GivesUp(c, timeout)
      BY <3>6, GivesUpStep
    <3>7. CASE \E answers \in Response : Answered(c, answers)
      BY <3>7, AnsweredStep
    <3> QED
      BY <3>1, <3>2, <3>3, <3>4, <3>5, <3>6, <3>7 DEF RequestEnds
  <2>3. CASE \E d \in Co, q \in Query : Resolves(d, q)
    <3>1. PICK d \in Co : /\ call[d].over = "none"
                          /\ \E new : call' = [call EXCEPT ![d] = new]
      BY <2>3 DEF Resolves, resolve_local, resolve_overflow, resolve_unconfigured,
                  remote_resolve, Ready
    <3> QED
      BY <2>1, <3>1
  <2>4. CASE \/ \E servers \in Preferred : set_servers(servers)
             \/ \E q \in Query : Collect(q)
             \/ Tick
             \/ UNCHANGED vars
    BY <2>1, <2>4, OtherStep
  <2> QED
    BY <2>2, <2>3, <2>4 DEF Next
<1> QED
  BY <1>1, DnsInvariant, PTL DEF Spec, WriteBackIsStable
=============================================================================
