----------------------------- MODULE HttpProofs -----------------------------
(***************************************************************************)
(* Without pipelining, requests are handled and responses returned whole,  *)
(* once and in order, for messages of any length, any number of requests   *)
(* and connections, and wherever streams are cut and connections break.    *)
(***************************************************************************)
EXTENDS Http, FiniteSetTheorems, SequenceTheorems, TLAPS

(* The units of a message after the first a, up to the b-th.               *)
Units(id, a, b) == SubSeq(Message(id), a + 1, b)

-----------------------------------------------------------------------------
(* Cutting a stream in two.                                                *)
LEMMA CutLaws ==
  ASSUME NEW S, NEW q \in Seq(S), NEW k \in 0..Len(q)
  PROVE  /\ SubSeq(q, 1, k) \in Seq(S)
         /\ Len(SubSeq(q, 1, k)) = k
         /\ \A i \in 1..k : SubSeq(q, 1, k)[i] = q[i]
         /\ SubSeq(q, k + 1, Len(q)) \in Seq(S)
         /\ Len(SubSeq(q, k + 1, Len(q))) = Len(q) - k
         /\ \A i \in 1..(Len(q) - k) : SubSeq(q, k + 1, Len(q))[i] = q[k + i]
<1>1. Len(q) \in Nat /\ \A i \in 1..Len(q) : q[i] \in S
  BY LenProperties, ElementOfSeq
<1>2. /\ SubSeq(q, 1, k) \in Seq(S)
      /\ Len(SubSeq(q, 1, k)) = IF 1 <= k THEN k - 1 + 1 ELSE 0
      /\ \A i \in 1..(k - 1 + 1) : SubSeq(q, 1, k)[i] = q[1 + i - 1]
  <2>1. \A i \in 1..k : q[i] \in S
    BY <1>1
  <2> QED
    BY <1>1, <2>1, SubSeqProperties
<1> DEFINE n == Len(q)
           m == k + 1
<1>3. /\ SubSeq(q, m, n) \in Seq(S)
      /\ Len(SubSeq(q, m, n)) = IF m <= n THEN n - m + 1 ELSE 0
      /\ \A i \in 1..(n - m + 1) : SubSeq(q, m, n)[i] = q[m + i - 1]
  <2>1. m \in Int /\ n \in Int /\ \A i \in m..n : q[i] \in S
    BY <1>1
  <2> HIDE DEF m, n
  <2> QED
    BY <2>1, SubSeqProperties
<1>4. /\ n \in Nat /\ k \in 0..n
      /\ (IF m <= n THEN n - m + 1 ELSE 0) = n - k
      /\ n - m + 1 = n - k
      /\ \A i \in 1..(n - k) : m + i - 1 = k + i
  BY <1>1
<1>5. /\ (IF 1 <= k THEN k - 1 + 1 ELSE 0) = k
      /\ k - 1 + 1 = k
      /\ \A i \in 1..k : 1 + i - 1 = i
  BY <1>1
<1> HIDE DEF n, m
<1>6. /\ Len(SubSeq(q, m, n)) = n - k
      /\ \A i \in 1..(n - k) : SubSeq(q, m, n)[i] = q[k + i]
  BY <1>3, <1>4
<1>7. /\ Len(SubSeq(q, 1, k)) = k
      /\ \A i \in 1..k : SubSeq(q, 1, k)[i] = q[i]
  BY <1>2, <1>5
<1> QED
  BY <1>2, <1>3, <1>6, <1>7 DEF n, m

(* A message and its pieces.                                               *)
LEMMA MessageLaws ==
  ASSUME NEW id \in 1..MaxRequests
  PROVE  /\ Message(id) \in Seq(Unit)
         /\ Len(Message(id)) = MsgLen
         /\ \A i \in 1..MsgLen : Message(id)[i] = [id |-> id, part |-> i]
         /\ Message(id) # <<>>
         /\ Message(id)[1].id = id
<1>1. MsgLen \in Nat \ {0} /\ 1 \in 1..MsgLen
  BY HttpAssumption
<1>2. \A i \in 1..MsgLen : Message(id)[i] = [id |-> id, part |-> i]
  BY DEF Message
<1>3. Message(id) \in Seq(Unit) /\ Len(Message(id)) = MsgLen
  <2>1. Message(id) \in [1..MsgLen -> Unit]
    BY DEF Message, Unit
  <2>2. DOMAIN Message(id) = 1..MsgLen
    BY DEF Message
  <2>3. Message(id) \in Seq(Unit)
    BY <1>1, <2>1, SeqDef
  <2>4. DOMAIN Message(id) = 1..Len(Message(id)) /\ Len(Message(id)) \in Nat
    BY <2>3, LenProperties
  <2> QED
    BY <1>1, <2>2, <2>3, <2>4
<1>4. Message(id) # <<>>
  BY <1>1, <1>3, EmptySeq
<1> QED
  BY <1>1, <1>2, <1>3, <1>4

LEMMA UnitsLaws ==
  ASSUME NEW id \in 1..MaxRequests, NEW a \in 0..MsgLen, NEW b \in a..MsgLen
  PROVE  /\ Units(id, a, b) \in Seq(Unit)
         /\ Len(Units(id, a, b)) = b - a
         /\ \A i \in 1..(b - a) : Units(id, a, b)[i] = [id |-> id, part |-> a + i]
<1> DEFINE M == Message(id)
           m == a + 1
<1>1. M \in Seq(Unit) /\ Len(M) = MsgLen /\ MsgLen \in Nat
  BY MessageLaws, HttpAssumption
<1>2. \A i \in 1..MsgLen : M[i] = [id |-> id, part |-> i] /\ M[i] \in Unit
  BY <1>1, MessageLaws, ElementOfSeq
<1> HIDE DEF M
<1>3. /\ SubSeq(M, m, b) \in Seq(Unit)
      /\ Len(SubSeq(M, m, b)) = IF m <= b THEN b - m + 1 ELSE 0
      /\ \A i \in 1..(b - m + 1) : SubSeq(M, m, b)[i] = M[m + i - 1]
  <2>1. m \in Int /\ b \in Int /\ \A i \in m..b : M[i] \in Unit
    BY <1>1, <1>2
  <2> HIDE DEF m
  <2> QED
    BY <2>1, SubSeqProperties
<1>4. /\ (IF m <= b THEN b - m + 1 ELSE 0) = b - a
      /\ b - m + 1 = b - a
      /\ \A i \in 1..(b - a) : m + i - 1 = a + i /\ a + i \in 1..MsgLen
  BY <1>1
<1> HIDE DEF m
<1>5. \A i \in 1..(b - a) : SubSeq(M, m, b)[i] = [id |-> id, part |-> a + i]
  BY <1>2, <1>3, <1>4
<1> QED
  BY <1>3, <1>4, <1>5 DEF Units, M, m

LEMMA UnitsEnds ==
  ASSUME NEW id \in 1..MaxRequests
  PROVE  /\ \A a \in 0..MsgLen : Units(id, a, a) = <<>>
         /\ Units(id, 0, MsgLen) = Message(id)
<1>1. MsgLen \in Nat
  BY HttpAssumption
<1>2. ASSUME NEW a \in 0..MsgLen PROVE Units(id, a, a) = <<>>
  BY <1>1, SubSeqEmpty DEF Units
<1>3. Units(id, 0, MsgLen) = Message(id)
  <2>1. SubSeq(Message(id), 1, Len(Message(id))) = Message(id)
    BY MessageLaws, SubSeqFull
  <2> QED
    BY <2>1, MessageLaws DEF Units
<1> QED
  BY <1>2, <1>3

LEMMA UnitsJoin ==
  ASSUME NEW id \in 1..MaxRequests, NEW a \in 0..MsgLen, NEW b \in a..MsgLen,
         NEW c \in b..MsgLen
  PROVE  Units(id, a, b) \o Units(id, b, c) = Units(id, a, c)
<1>1. MsgLen \in Nat /\ Message(id) \in Seq(Unit) /\ Len(Message(id)) = MsgLen
  BY MessageLaws, HttpAssumption
<1> DEFINE m == a + 1
<1>2. m \in 1..(MsgLen + 1) /\ b \in (m - 1)..MsgLen /\ c \in b..MsgLen
  BY <1>1
<1>3. SubSeq(Message(id), m, b) \o SubSeq(Message(id), b + 1, c) = SubSeq(Message(id), m, c)
  <2> HIDE DEF m
  <2> QED
    BY <1>1, <1>2, ConcatAdjacentSubSeq
<1> QED
  BY <1>3 DEF Units

(* Pieces are equal when their units are.                                  *)
LEMMA UnitsEqual ==
  ASSUME NEW id \in 1..MaxRequests, NEW a \in 0..MsgLen, NEW b \in a..MsgLen,
         NEW q \in Seq(Unit), Len(q) = b - a,
         \A i \in 1..(b - a) : q[i] = [id |-> id, part |-> a + i]
  PROVE  q = Units(id, a, b)
<1> DEFINE u == Units(id, a, b)
<1>1. u \in Seq(Unit) /\ Len(u) = b - a /\ \A i \in 1..(b - a) : u[i] = [id |-> id, part |-> a + i]
  BY UnitsLaws
<1> HIDE DEF u
<1>2. \A i \in 1..Len(q) : q[i] = u[i]
  BY <1>1
<1>3. q = u
  BY <1>1, <1>2, SeqEqual
<1> QED
  BY <1>3 DEF u

LEMMA UnitsCut ==
  ASSUME NEW id \in 1..MaxRequests, NEW a \in 0..MsgLen, NEW b \in a..MsgLen,
         NEW k \in 0..(b - a)
  PROVE  LET u == Units(id, a, b)
         IN /\ SubSeq(u, 1, k) = Units(id, a, a + k)
            /\ SubSeq(u, k + 1, Len(u)) = Units(id, a + k, b)
<1> DEFINE u == Units(id, a, b)
           h == SubSeq(u, 1, k)
           t == SubSeq(u, k + 1, Len(u))
<1>1. u \in Seq(Unit) /\ Len(u) = b - a /\ \A i \in 1..(b - a) : u[i] = [id |-> id, part |-> a + i]
  BY UnitsLaws
<1>2. MsgLen \in Nat
  BY HttpAssumption
<1>3. a + k \in 0..MsgLen /\ a + k \in a..MsgLen /\ b \in (a + k)..MsgLen
      /\ (a + k) - a = k /\ b - (a + k) = (b - a) - k
  BY <1>2
<1> HIDE DEF u
<1>4. /\ h \in Seq(Unit) /\ Len(h) = k /\ \A i \in 1..k : h[i] = u[i]
      /\ t \in Seq(Unit) /\ Len(t) = (b - a) - k
      /\ \A i \in 1..((b - a) - k) : t[i] = u[k + i]
  BY <1>1, CutLaws
<1> HIDE DEF h, t
<1>5. \A i \in 1..k : h[i] = [id |-> id, part |-> a + i]
  <2>1. \A i \in 1..k : i \in 1..(b - a)
    BY <1>2
  <2> QED
    BY <1>1, <1>4, <2>1
<1>6. \A i \in 1..((b - a) - k) :
         k + i \in 1..(b - a) /\ a + (k + i) = (a + k) + i
  BY <1>2
<1>7. \A i \in 1..((b - a) - k) : t[i] = [id |-> id, part |-> (a + k) + i]
  <2> SUFFICES ASSUME NEW i \in 1..((b - a) - k)
               PROVE  t[i] = [id |-> id, part |-> (a + k) + i]
    OBVIOUS
  <2>1. t[i] = u[k + i]
    BY <1>4
  <2>2. k + i \in 1..(b - a) /\ a + (k + i) = (a + k) + i
    BY <1>6
  <2>3. \A j \in 1..(b - a) : u[j] = [id |-> id, part |-> a + j]
    BY <1>1
  <2>4. u[k + i] = [id |-> id, part |-> a + (k + i)]
    BY <2>2, <2>3, Zenon
  <2> QED
    BY <2>1, <2>2, <2>4
<1> DEFINE m == a + k
<1>8. /\ m \in 0..MsgLen /\ m \in a..MsgLen /\ b \in m..MsgLen
      /\ m - a = k /\ b - m = (b - a) - k
      /\ \A i \in 1..((b - a) - k) : t[i] = [id |-> id, part |-> m + i]
  BY <1>3, <1>7
<1> HIDE DEF m
<1>9. h = Units(id, a, m)
  <2>1. h \in Seq(Unit) /\ Len(h) = m - a
    BY <1>4, <1>8
  <2>2. \A i \in 1..(m - a) : h[i] = [id |-> id, part |-> a + i]
    BY <1>5, <1>8
  <2> QED
    BY <1>8, <2>1, <2>2, UnitsEqual
<1>10. t = Units(id, m, b)
  <2>1. t \in Seq(Unit) /\ Len(t) = b - m
    BY <1>4, <1>8
  <2>2. \A i \in 1..(b - m) : t[i] = [id |-> id, part |-> m + i]
    BY <1>8
  <2> QED
    BY <1>8, <2>1, <2>2, UnitsEqual
<1> QED
  BY <1>9, <1>10 DEF u, h, t, m

-----------------------------------------------------------------------------
(* What the parser takes of s.                                             *)
LEMMA ParsedLaws ==
  ASSUME NEW r \in Reader, NEW s \in Seq(Unit)
  PROVE  /\ MsgLen \in Nat \ {0} /\ r.pos \in 0..(MsgLen - 1)
         /\ Len(s) \in Nat
         /\ Room(r) = MsgLen - r.pos /\ Room(r) \in 1..MsgLen
         /\ parsed(r, s) \in 0..Len(s) /\ parsed(r, s) <= Room(r)
         /\ Completes(r, s) => parsed(r, s) = Room(r) /\ Len(s) >= Room(r)
         /\ ~Completes(r, s) => parsed(r, s) = Len(s) /\ Len(s) < Room(r)
<1>1. MsgLen \in Nat \ {0} /\ r.pos \in 0..(MsgLen - 1) /\ Len(s) \in Nat
  BY HttpAssumption, LenProperties DEF Reader
<1>2. Room(r) = MsgLen - r.pos /\ Room(r) \in 1..MsgLen
  BY <1>1 DEF Room
<1> QED
  BY <1>1, <1>2 DEF parsed, Completes

LEMMA ModLaw ==
  ASSUME NEW m \in Nat \ {0}, NEW p \in 0..(m - 1)
  PROVE  p % m = p
  BY Z3

(* An iteration of read_message's loop, field by field.                    *)
LEMMA IteratedLaws ==
  ASSUME NEW r \in Reader, NEW s \in Seq(Unit)
  PROVE  LET i == Iterated(r, s)
         IN /\ i \in Reader
            /\ i.at = r.at /\ i.errno = r.errno /\ i.cached = r.cached
            /\ i.msg = r.msg \o SubSeq(s, 1, parsed(r, s))
            /\ i.pos = IF Completes(r, s) THEN 0 ELSE r.pos + Len(s)
            /\ i.left = IF parsed(r, s) < Len(s)
                        THEN SubSeq(s, parsed(r, s) + 1, Len(s)) ELSE r.left
            /\ r.left = <<>> /\ ~Completes(r, s) => i.left = <<>>
<1> DEFINE k == parsed(r, s)
           taken == SubSeq(s, 1, k)
           rest == SubSeq(s, k + 1, Len(s))
           i == Iterated(r, s)
<1>1. /\ MsgLen \in Nat \ {0} /\ r.pos \in 0..(MsgLen - 1)
      /\ Len(s) \in Nat /\ k \in 0..Len(s)
      /\ Completes(r, s) => k = MsgLen - r.pos
      /\ ~Completes(r, s) => k = Len(s) /\ Len(s) < MsgLen - r.pos
  BY ParsedLaws
<1>2. taken \in Seq(Unit) /\ rest \in Seq(Unit)
  BY <1>1, CutLaws
<1>3. r.msg \in Seq(Unit) /\ r.left \in Seq(Unit) /\ r.msg \o taken \in Seq(Unit)
  <2>1. r.msg \in Seq(Unit) /\ r.left \in Seq(Unit)
    BY DEF Reader
  <2> QED
    BY <1>2, <2>1, ConcatProperties
<1>4. (r.pos + k) % MsgLen = IF Completes(r, s) THEN 0 ELSE r.pos + Len(s)
  <2>1. CASE Completes(r, s)
    <3>1. r.pos + k = MsgLen
      BY <1>1, <2>1
    <3>2. MsgLen % MsgLen = 0
      BY <1>1
    <3> QED
      BY <2>1, <3>1, <3>2
  <2>2. CASE ~Completes(r, s)
    <3> DEFINE p == r.pos + k
    <3>1. p = r.pos + Len(s) /\ p \in 0..(MsgLen - 1)
      BY <1>1, <2>2
    <3>2. p % MsgLen = p
      <4> HIDE DEF p
      <4> QED
        BY <1>1, <3>1, ModLaw
    <3> QED
      BY <2>2, <3>1, <3>2
  <2> QED
    BY <2>1, <2>2
<1>5. (IF Completes(r, s) THEN 0 ELSE r.pos + Len(s)) \in 0..(MsgLen - 1)
  BY <1>1
<1> DEFINE p == (r.pos + k) % MsgLen
           left == IF k < Len(s) THEN rest ELSE r.left
<1>6. i = [[r EXCEPT !.msg = @ \o taken, !.pos = (@ + k) % MsgLen] EXCEPT !.left = IF k < Len(s) THEN rest ELSE @]
  BY DEF Iterated, execute
<1>7. /\ i.at = r.at /\ i.errno = r.errno /\ i.cached = r.cached
      /\ i.msg = r.msg \o taken /\ i.pos = p /\ i.left = left
  <2> HIDE DEF i, taken, k, rest
  <2> QED
    BY <1>6 DEF Reader
<1>8. i \in Reader
  <2>1. p \in 0..(MsgLen - 1) /\ left \in Seq(Unit) /\ r.msg \o taken \in Seq(Unit)
    BY <1>2, <1>3, <1>4, <1>5
  <2> HIDE DEF i, taken, k, rest
  <2> QED
    BY <1>6, <2>1 DEF Reader
<1>9. r.left = <<>> /\ ~Completes(r, s) => left = <<>>
  BY <1>1
<1> QED
  BY <1>4, <1>7, <1>8, <1>9

(* How an iteration ends says what was parsed.                             *)
LEMMA OutcomeLaws ==
  ASSUME NEW r, NEW s
  PROVE  /\ Outcome(r, s) = "error" => Refuses(r, s)
         /\ Outcome(r, s) = "eof" => ~Refuses(r, s) /\ s = <<>>
         /\ Outcome(r, s) = "complete" => ~Refuses(r, s) /\ s # <<>> /\ Completes(r, s)
         /\ Outcome(r, s) = "more" => ~Refuses(r, s) /\ s # <<>> /\ ~Completes(r, s)
  BY DEF Outcome

(* What an iteration is given: the rest kept before, a piece of the        *)
(* stream, or nothing.                                                     *)
LEMMA InputLaws ==
  ASSUME NEW r \in Reader, NEW stream \in Seq(Unit), NEW open,
         NEW s \in Input(r, stream, open)
  PROVE  /\ s \in Seq(Unit) /\ Rest(r, stream, s) \in Seq(Unit)
         /\ r.left # <<>> => s = r.left /\ Rest(r, stream, s) = stream
         /\ r.left = <<>> /\ s = <<>> => stream = <<>>
         /\ r.left = <<>> /\ s # <<>> =>
               /\ Len(s) \in 1..Len(stream)
               /\ s = SubSeq(stream, 1, Len(s))
               /\ Rest(r, stream, s) = SubSeq(stream, Len(s) + 1, Len(stream))
<1>1. r.left \in Seq(Unit) /\ Len(stream) \in Nat /\ DOMAIN stream = 1..Len(stream)
  BY LenProperties DEF Reader
<1>2. CASE r.left # <<>>
  BY <1>1, <1>2 DEF Input, Rest
<1>3. CASE r.left = <<>> /\ s \in {SubSeq(stream, 1, k) : k \in DOMAIN stream}
  <2>1. PICK k \in 1..Len(stream) : s = SubSeq(stream, 1, k)
    BY <1>1, <1>3
  <2>2. k \in 0..Len(stream)
    BY <1>1
  <2>3. s \in Seq(Unit) /\ Len(s) = k /\ SubSeq(stream, k + 1, Len(stream)) \in Seq(Unit)
    BY <2>1, <2>2, CutLaws
  <2>4. s # <<>>
    BY <1>1, <2>3, EmptySeq
  <2>5. Rest(r, stream, s) = SubSeq(stream, Len(s) + 1, Len(stream))
    BY <1>3 DEF Rest
  <2> QED
    BY <1>3, <2>1, <2>3, <2>4, <2>5
<1>4. CASE r.left = <<>> /\ s = <<>> /\ stream = <<>>
  <2>1. Rest(r, stream, s) = SubSeq(stream, Len(s) + 1, Len(stream))
    BY <1>4 DEF Rest
  <2>2. Len(s) = 0 /\ 0 \in 0..Len(stream) /\ s \in Seq(Unit)
    BY <1>1, <1>4, EmptySeq
  <2>3. Rest(r, stream, s) \in Seq(Unit)
    BY <2>1, <2>2, CutLaws
  <2> QED
    BY <1>4, <2>2, <2>3
<1> QED
  BY <1>2, <1>3, <1>4 DEF Input

(* A piece of a stream that holds a piece of a message.                    *)
LEMMA PieceLaws ==
  ASSUME NEW r \in Reader, r.left = <<>>,
         NEW id \in 1..MaxRequests, NEW b \in 0..MsgLen, NEW e \in b..MsgLen,
         NEW open, NEW s \in Input(r, Units(id, b, e), open), s # <<>>
  PROVE  /\ s \in Seq(Unit) /\ Len(s) \in 1..(e - b)
         /\ s = Units(id, b, b + Len(s))
         /\ Rest(r, Units(id, b, e), s) = Units(id, b + Len(s), e)
<1> DEFINE u == Units(id, b, e)
           k == Len(s)
<1>1. u \in Seq(Unit) /\ Len(u) = e - b
  BY UnitsLaws
<1>2. /\ s \in Seq(Unit) /\ k \in 1..Len(u) /\ s = SubSeq(u, 1, k)
      /\ Rest(r, u, s) = SubSeq(u, k + 1, Len(u))
  BY <1>1, InputLaws
<1>3. k \in 1..(e - b) /\ k \in 0..(e - b)
  BY <1>1, <1>2
<1> HIDE DEF k
<1>4. SubSeq(u, 1, k) = Units(id, b, b + k) /\ SubSeq(u, k + 1, Len(u)) = Units(id, b + k, e)
  BY <1>3, UnitsCut
<1> QED
  BY <1>2, <1>3, <1>4 DEF k

(* A reader that has collected a message up to its parser's place, and     *)
(* whose stream goes on from there to e, has collected the piece s too.    *)
Collected(r, s, id, e) ==
    LET i == Iterated(r, s)
        rest == Rest(r, Units(id, r.pos, e), s)
    IN /\ i.left = <<>>
       /\ ~Completes(r, s) =>
             /\ e \in i.pos..MsgLen
             /\ i.msg = Units(id, 0, i.pos) /\ rest = Units(id, i.pos, e)
       /\ Completes(r, s) =>
             i.pos = 0 /\ i.msg = Message(id) /\ rest = <<>> /\ e = MsgLen

LEMMA CollectLaws ==
  ASSUME NEW r \in Reader, r.left = <<>>,
         NEW id \in 1..MaxRequests, r.msg = Units(id, 0, r.pos),
         NEW e \in r.pos..MsgLen,
         NEW open, NEW s \in Input(r, Units(id, r.pos, e), open), s # <<>>
  PROVE  Collected(r, s, id, e)
<1> DEFINE i == Iterated(r, s)
           k == Len(s)
           b == r.pos
           rest == Rest(r, Units(id, b, e), s)
<1>0. b \in 0..MsgLen /\ MsgLen \in Nat \ {0} /\ b \in 0..(MsgLen - 1)
  BY HttpAssumption DEF Reader
<1>1. /\ s \in Seq(Unit) /\ k \in 1..(e - b) /\ s = Units(id, b, b + k)
      /\ rest = Units(id, b + k, e)
  BY <1>0, PieceLaws
<1>2. /\ k \in Nat /\ Room(r) = MsgLen - b /\ k <= Room(r)
      /\ Completes(r, s) => k = MsgLen - b
      /\ ~Completes(r, s) => k < MsgLen - b
      /\ parsed(r, s) = k
  BY <1>0, <1>1, ParsedLaws
<1>3. /\ i.left = r.left
      /\ i.pos = IF Completes(r, s) THEN 0 ELSE b + k
      /\ i.msg = r.msg \o SubSeq(s, 1, k)
  <2>1. ~(k < k)
    BY <1>2
  <2> QED
    BY <1>1, <1>2, <2>1, IteratedLaws
<1>4. SubSeq(s, 1, k) = s
  BY <1>1, SubSeqFull
<1> DEFINE m == b + k
<1>5. m \in b..MsgLen /\ 0 \in 0..MsgLen /\ b \in 0..MsgLen /\ e \in m..MsgLen /\ m \in 0..MsgLen
  BY <1>0, <1>1
<1>6. i.msg = Units(id, 0, m)
  <2> HIDE DEF m
  <2>1. Units(id, 0, b) \o Units(id, b, m) = Units(id, 0, m)
    BY <1>5, UnitsJoin
  <2> QED
    BY <1>1, <1>3, <1>4, <2>1 DEF m
<1>7. CASE ~Completes(r, s)
  <2>1. i.pos = m
    BY <1>3, <1>7
  <2> QED
    BY <1>1, <1>3, <1>5, <1>6, <1>7, <2>1 DEF Collected
<1>8. CASE Completes(r, s)
  <2>1. m = MsgLen /\ e = MsgLen
    BY <1>0, <1>1, <1>2, <1>8
  <2>2. Units(id, 0, MsgLen) = Message(id) /\ Units(id, MsgLen, MsgLen) = <<>>
    BY <1>0, UnitsEnds
  <2> QED
    BY <1>1, <1>3, <1>6, <1>8, <2>1, <2>2 DEF Collected
<1> QED
  BY <1>7, <1>8

(* No message begins so: the parser refuses it as a first piece.           *)
Bad(s) == s # <<>> /\ s[1].part # 1

(* A reader whose parser is at a place further than the stream, which is   *)
(* at b, ends a message too early, and what follows is no message.         *)
Overrun(r, s, id, b) ==
    LET i == Iterated(r, s)
        rest == Rest(r, Units(id, b, MsgLen), s)
    IN /\ ~Completes(r, s) =>
             /\ i.left = <<>> /\ i.pos > 0
             /\ \E c \in 0..(i.pos - 1) : rest = Units(id, c, MsgLen)
       /\ Completes(r, s) =>
             /\ i.pos = 0
             /\ Bad(i.left) \/ (i.left = <<>> /\ Bad(rest))

LEMMA AheadLaws ==
  ASSUME NEW r \in Reader, r.left = <<>>,
         NEW id \in 1..MaxRequests, NEW b \in 0..(r.pos - 1),
         NEW open, NEW s \in Input(r, Units(id, b, MsgLen), open), s # <<>>
  PROVE  Overrun(r, s, id, b)
<1> DEFINE i == Iterated(r, s)
           k == Len(s)
           m == b + k
           rest == Rest(r, Units(id, b, MsgLen), s)
<1>0. /\ MsgLen \in Nat \ {0} /\ r.pos \in 1..(MsgLen - 1)
      /\ b \in 0..MsgLen /\ MsgLen \in b..MsgLen
  <2>1. MsgLen \in Nat \ {0} /\ r.pos \in 0..(MsgLen - 1)
    BY HttpAssumption DEF Reader
  <2> QED
    BY <2>1
<1>1. /\ s \in Seq(Unit) /\ k \in 1..(MsgLen - b) /\ s = Units(id, b, m)
      /\ rest = Units(id, m, MsgLen)
  BY <1>0, PieceLaws
<1>2. /\ k \in Nat /\ Room(r) = MsgLen - r.pos
      /\ Completes(r, s) => parsed(r, s) = MsgLen - r.pos /\ k >= MsgLen - r.pos
      /\ ~Completes(r, s) => parsed(r, s) = k /\ k < MsgLen - r.pos
  BY ParsedLaws, <1>1
<1>3. m \in b..MsgLen /\ m \in 0..MsgLen /\ MsgLen \in m..MsgLen
  BY <1>0, <1>1
<1>4. /\ i.pos = IF Completes(r, s) THEN 0 ELSE r.pos + k
      /\ i.left = IF parsed(r, s) < k THEN SubSeq(s, parsed(r, s) + 1, k) ELSE r.left
  BY <1>1, IteratedLaws
<1>5. CASE ~Completes(r, s)
  <2>1. i.left = <<>> /\ i.pos = r.pos + k
    BY <1>2, <1>4, <1>5
  <2>2. i.pos > 0 /\ m \in 0..(i.pos - 1)
    BY <1>0, <1>1, <2>1
  <2> QED
    BY <1>1, <1>5, <2>1, <2>2 DEF Overrun
<1>6. CASE Completes(r, s)
  <2> DEFINE j == MsgLen - r.pos
  <2>1. /\ i.pos = 0 /\ parsed(r, s) = j /\ k >= j /\ j \in 1..MsgLen
        /\ i.left = IF j < k THEN SubSeq(s, j + 1, k) ELSE <<>>
    BY <1>0, <1>2, <1>4, <1>6
  <2>2. ASSUME j < k PROVE Bad(i.left)
    <3> DEFINE t == SubSeq(s, j + 1, k)
    <3>1. j \in 0..Len(s)
      BY <1>2, <2>1, <2>2
    <3> HIDE DEF j
    <3>2. t \in Seq(Unit) /\ Len(t) = k - j /\ \A x \in 1..(k - j) : t[x] = s[j + x]
      BY <1>1, <3>1, CutLaws
    <3>3. 1 \in 1..(k - j) /\ k - j # 0 /\ j + 1 \in 1..k
      BY <1>2, <2>1, <2>2
    <3>4. t # <<>> /\ t[1] = s[j + 1]
      BY <3>2, <3>3, EmptySeq
    <3>5. \A x \in 1..(m - b) : s[x] = [id |-> id, part |-> b + x]
      <4> HIDE DEF m
      <4> QED
        BY <1>0, <1>1, <1>3, UnitsLaws
    <3>6. m - b = k
      BY <1>0, <1>1
    <3>7. s[j + 1].part = b + (j + 1)
      BY <3>3, <3>5, <3>6
    <3>8. b + (j + 1) # 1
      BY <1>0, <2>1
    <3>9. i.left = t
      BY <2>1, <2>2
    <3> HIDE DEF i, t
    <3> QED
      BY <3>4, <3>7, <3>8, <3>9 DEF Bad
  <2>3. ASSUME ~(j < k) PROVE i.left = <<>> /\ Bad(rest)
    <3>1. k = j
      BY <1>2, <2>1, <2>3
    <3>2. m < MsgLen /\ m # 0
      BY <1>0, <1>1, <3>1
    <3>3. Len(rest) = MsgLen - m /\ rest \in Seq(Unit)
          /\ \A x \in 1..(MsgLen - m) : rest[x] = [id |-> id, part |-> m + x]
      <4> HIDE DEF m
      <4> QED
        BY <1>1, <1>3, UnitsLaws
    <3>4. 1 \in 1..(MsgLen - m) /\ MsgLen - m # 0 /\ m + 1 # 1
      BY <1>0, <1>3, <3>2
    <3>5. rest # <<>> /\ rest[1].part = m + 1
      BY <3>3, <3>4, EmptySeq
    <3> QED
      BY <2>1, <2>3, <3>4, <3>5 DEF Bad
  <2>4. i.pos = 0 /\ (Bad(i.left) \/ (i.left = <<>> /\ Bad(rest)))
    BY <2>1, <2>2, <2>3
  <2> QED
    BY <1>6, <2>4 DEF Overrun
<1> QED
  BY <1>5, <1>6

-----------------------------------------------------------------------------
(* The request being handled is there to be answered.                      *)
HttpTypes ==
    /\ TypeOK
    /\ \A n \in Conn : server[n].at = "handling" => server[n].msg # <<>>

LEMMA ReaderLaws ==
  /\ NewReader \in Reader
  /\ \A r \in Reader :
        LET q == read_message(r)
        IN /\ q \in Reader /\ q.at = "reading" /\ q.left = r.cached /\ q.msg = <<>>
           /\ q.pos = r.pos /\ q.errno = r.errno /\ q.cached = r.cached
<1>1. <<>> \in Seq(Unit) /\ 0 \in 0..(MsgLen - 1)
  BY EmptySeq, HttpAssumption
<1> QED
  BY <1>1 DEF NewReader, Reader, read_message

LEMMA TypesInit == Init => HttpTypes
<1>1. <<>> \in Seq(Unit) /\ <<>> \in Seq(Seq(Unit)) /\ <<>> \in Seq(1..MaxRequests)
  BY EmptySeq
<1> DEFINE w == [req |-> <<>>, rsp |-> <<>>, client |-> FALSE, server |-> FALSE]
<1>2. w \in Wire
  BY <1>1 DEF Wire
<1>3. NewReader \in Reader /\ NewReader.at = "idle"
  BY ReaderLaws DEF NewReader
<1> SUFFICES ASSUME Init PROVE HttpTypes
  OBVIOUS
<1>4. conn \in 0..MaxConns
  BY HttpAssumption DEF Init
<1>5. server \in [Conn -> Reader] /\ \A n \in Conn : server[n].at # "handling"
  BY <1>3 DEF Init
<1>6. wire = [n \in Conn |-> w]
  BY DEF Init
<1> HIDE DEF w
<1>7. wire \in [Conn -> Wire]
  BY <1>2, <1>6
<1> QED
  BY <1>1, <1>3, <1>4, <1>5, <1>7 DEF Init, HttpTypes, TypeOK

LEMMA TypesSend ==
  ASSUME HttpTypes, NEW n \in Conn, NEW k \in 0..MsgLen, send(n, k)
  PROVE  HttpTypes'
<1> DEFINE id == Sent + 1
           part == SubSeq(Message(id), 1, k)
<1>1. id \in 1..MaxRequests /\ MsgLen \in Nat
  BY HttpAssumption DEF send
<1> HIDE DEF id
<1>2. part \in Seq(Unit)
  BY <1>1, MessageLaws, CutLaws
<1>3. /\ server[n] \in Reader /\ read_message(server[n]) \in Reader
      /\ read_message(server[n]).at = "reading"
      /\ requests[n] \in Seq(1..MaxRequests) /\ wire[n] \in Wire
  BY ReaderLaws DEF HttpTypes, TypeOK
<1>4. Append(requests[n], id) \in Seq(1..MaxRequests)
  BY <1>1, <1>3, AppendProperties
<1>5. wire[n].req \o part \in Seq(Unit)
  <2>1. wire[n].req \in Seq(Unit)
    BY <1>3 DEF Wire
  <2> QED
    BY <1>2, <2>1, ConcatProperties
<1> HIDE DEF part
<1>6. /\ requests' = [requests EXCEPT ![n] = Append(@, id)]
      /\ wire' = [wire EXCEPT ![n].req = @ \o part, ![n].server = @ \/ conn = 0,
                              ![n].client = k = MsgLen]
      /\ server' = [server EXCEPT ![n] = IF conn = 0 THEN read_message(@) ELSE @]
      /\ conn' = IF k = MsgLen THEN n ELSE 0
      /\ UNCHANGED <<client, handled, responses, failed>>
  BY DEF send, id, part
<1>7. requests' \in [Conn -> Seq(1..MaxRequests)] /\ conn' \in 0..MaxConns
  BY <1>4, <1>6, HttpAssumption DEF HttpTypes, TypeOK, Conn
<1>8. wire' \in [Conn -> Wire]
  <2> DEFINE w == [wire[n] EXCEPT !.req = @ \o part, !.server = @ \/ conn = 0,
                                  !.client = k = MsgLen]
  <2>1. w \in Wire
    BY <1>3, <1>5 DEF Wire
  <2>2. wire' = [wire EXCEPT ![n] = w]
    BY <1>6
  <2> HIDE DEF w
  <2> QED
    BY <2>1, <2>2 DEF HttpTypes, TypeOK
<1>9. /\ server' \in [Conn -> Reader]
      /\ \A m \in Conn : server'[m].at = "handling" => server'[m].msg # <<>>
  BY <1>3, <1>6 DEF HttpTypes, TypeOK
<1> QED
  BY <1>6, <1>7, <1>8, <1>9 DEF HttpTypes, TypeOK

(* What an iteration on the client's side works with.                      *)
LEMMA ClientParsesTypes ==
  ASSUME HttpTypes, conn # 0, NEW s \in Input(client, wire[conn].rsp, wire[conn].server)
  PROVE  /\ conn \in Conn /\ client \in Reader /\ wire[conn] \in Wire
         /\ wire[conn].rsp \in Seq(Unit) /\ s \in Seq(Unit)
         /\ Rest(client, wire[conn].rsp, s) \in Seq(Unit)
         /\ Iterated(client, s) \in Reader
<1>1. conn \in Conn /\ client \in Reader /\ wire[conn] \in Wire
  BY HttpAssumption DEF HttpTypes, TypeOK, Conn
<1>2. wire[conn].rsp \in Seq(Unit)
  BY <1>1 DEF Wire
<1>3. s \in Seq(Unit) /\ Rest(client, wire[conn].rsp, s) \in Seq(Unit)
  BY <1>1, <1>2, InputLaws
<1> QED
  BY <1>1, <1>2, <1>3, IteratedLaws

LEMMA HandlerParsesTypes ==
  ASSUME HttpTypes, NEW n \in Conn, NEW s \in Input(server[n], wire[n].req, wire[n].client)
  PROVE  /\ server[n] \in Reader /\ wire[n] \in Wire
         /\ wire[n].req \in Seq(Unit) /\ s \in Seq(Unit)
         /\ Rest(server[n], wire[n].req, s) \in Seq(Unit)
         /\ Iterated(server[n], s) \in Reader
<1>1. server[n] \in Reader /\ wire[n] \in Wire
  BY DEF HttpTypes, TypeOK
<1>2. wire[n].req \in Seq(Unit)
  BY <1>1 DEF Wire
<1>3. s \in Seq(Unit) /\ Rest(server[n], wire[n].req, s) \in Seq(Unit)
  BY <1>1, <1>2, InputLaws
<1> QED
  BY <1>1, <1>2, <1>3, IteratedLaws

(* Changing one field of a wire or a reader.                               *)
LEMMA FieldLaws ==
  /\ \A w \in Wire : \A q \in Seq(Unit) :
        [w EXCEPT !.rsp = q] \in Wire /\ [w EXCEPT !.req = q] \in Wire
  /\ \A w \in Wire : [w EXCEPT !.client = FALSE] \in Wire /\ [w EXCEPT !.server = FALSE] \in Wire
  /\ \A r \in Reader : \A a \in {"idle", "reading", "handling", "closed"} :
        /\ [r EXCEPT !.at = a] \in Reader
        /\ [r EXCEPT !.at = a, !.cached = r.left] \in Reader
        /\ [r EXCEPT !.at = a, !.errno = TRUE] \in Reader
  /\ \A r \in Reader : [r EXCEPT !.cached = r.left] \in Reader
  BY DEF Wire, Reader

LEMMA TypesClient ==
  ASSUME HttpTypes,
         \/ get_response
         \/ conn # 0 /\ \E s \in Input(client, wire[conn].rsp, wire[conn].server) :
               ClientReads(s) \/ ClientReturns(s) \/ ClientEof(s) \/ ClientParseFails(s)
         \/ ClientRecvFails
         \/ close
  PROVE  HttpTypes'
<1>1. CASE get_response
  BY <1>1, ReaderLaws DEF get_response, HttpTypes, TypeOK
<1>2. CASE ClientRecvFails
  BY <1>2, FieldLaws DEF ClientRecvFails, HttpTypes, TypeOK
<1>3. CASE close
  <2>1. conn' \in 0..MaxConns
    BY <1>3, HttpAssumption DEF close
  <2>2. wire' \in [Conn -> Wire]
    BY <1>3, FieldLaws DEF close, HttpTypes, TypeOK
  <2> QED
    BY <1>3, <2>1, <2>2 DEF close, HttpTypes, TypeOK
<1>4. ASSUME conn # 0, NEW s \in Input(client, wire[conn].rsp, wire[conn].server),
             ClientReads(s) \/ ClientReturns(s) \/ ClientEof(s) \/ ClientParseFails(s)
      PROVE  HttpTypes'
  <2> DEFINE rest == Rest(client, wire[conn].rsp, s)
             i == Iterated(client, s)
  <2>1. /\ conn \in Conn /\ client \in Reader /\ wire[conn] \in Wire
        /\ rest \in Seq(Unit) /\ i \in Reader /\ i.msg \in Seq(Unit)
    BY <1>4, ClientParsesTypes DEF Reader
  <2> HIDE DEF rest, i
  <2>2. CASE ClientReads(s)
    <3>1. client' = i /\ wire' = [wire EXCEPT ![conn].rsp = rest]
          /\ UNCHANGED <<conn, server, requests, handled, responses, failed>>
      BY <2>2 DEF ClientReads, ClientParses, rest, i
    <3> QED
      BY <2>1, <3>1, FieldLaws DEF HttpTypes, TypeOK
  <2>3. CASE ClientReturns(s)
    <3>1. /\ client' = [i EXCEPT !.at = "idle", !.cached = i.left]
          /\ wire' = [wire EXCEPT ![conn].rsp = rest]
          /\ responses' = [responses EXCEPT ![conn] = Append(@, i.msg)]
          /\ UNCHANGED <<conn, server, requests, handled, failed>>
      BY <2>3 DEF ClientReturns, ClientParses, rest, i
    <3>2. Append(responses[conn], i.msg) \in Seq(Seq(Unit))
      BY <2>1, AppendProperties DEF HttpTypes, TypeOK
    <3>3. client' \in Reader
      BY <2>1, <3>1, FieldLaws
    <3> QED
      BY <2>1, <3>1, <3>2, <3>3, FieldLaws DEF HttpTypes, TypeOK
  <2>4. CASE ClientEof(s)
    BY <2>1, <2>4, FieldLaws DEF ClientEof, ClientParses, HttpTypes, TypeOK
  <2>5. CASE ClientParseFails(s)
    BY <2>1, <2>5, FieldLaws DEF ClientParseFails, ClientParses, HttpTypes, TypeOK
  <2> QED
    BY <1>4, <2>2, <2>3, <2>4, <2>5
<1> QED
  BY <1>1, <1>2, <1>3, <1>4

LEMMA TypesHandler ==
  ASSUME HttpTypes, NEW n \in Conn, Handler(n)
  PROVE  HttpTypes'
<1>1. ASSUME NEW s \in Input(server[n], wire[n].req, wire[n].client),
             HandlerReads(n, s) \/ handle_one_request(n, s)
      PROVE  HttpTypes'
  <2> DEFINE rest == Rest(server[n], wire[n].req, s)
             i == Iterated(server[n], s)
  <2>1. /\ server[n] \in Reader /\ wire[n] \in Wire /\ s \in Seq(Unit)
        /\ rest \in Seq(Unit) /\ i \in Reader /\ i.msg \in Seq(Unit)
        /\ i.at = server[n].at
    <3>1. server[n] \in Reader /\ wire[n] \in Wire /\ s \in Seq(Unit)
          /\ rest \in Seq(Unit) /\ i \in Reader
      BY <1>1, HandlerParsesTypes
    <3> QED
      BY <3>1, IteratedLaws DEF Reader
  <2>2. CASE HandlerReads(n, s)
    <3> HIDE DEF rest, i
    <3>1. /\ server[n].at = "reading" /\ server' = [server EXCEPT ![n] = i]
          /\ wire' = [wire EXCEPT ![n].req = rest]
          /\ UNCHANGED <<conn, client, requests, handled, responses, failed>>
      BY <2>2 DEF HandlerReads, HandlerParses, rest, i
    <3> QED
      BY <2>1, <3>1, FieldLaws DEF HttpTypes, TypeOK
  <2>3. CASE handle_one_request(n, s)
    <3>0. Completes(server[n], s)
      BY <2>3, OutcomeLaws DEF handle_one_request, HandlerParses
    <3>1. i.msg # <<>>
      <4> DEFINE k == parsed(server[n], s)
                 t == SubSeq(s, 1, k)
      <4>1. k \in 0..Len(s) /\ k >= 1
        BY <2>1, <3>0, ParsedLaws
      <4>2. t \in Seq(Unit) /\ Len(t) = k
        BY <2>1, <4>1, CutLaws
      <4>3. i.msg = server[n].msg \o t /\ server[n].msg \in Seq(Unit)
        BY <2>1, IteratedLaws DEF Reader
      <4> HIDE DEF k, t, i
      <4>4. t # <<>>
        BY <4>1, <4>2, EmptySeq
      <4> QED
        BY <4>2, <4>3, <4>4, ConcatEqualIffEmpty
    <3> HIDE DEF rest, i
    <3>2. /\ server' = [server EXCEPT ![n] = [i EXCEPT !.at = "handling"]]
          /\ wire' = [wire EXCEPT ![n].req = rest]
          /\ handled' = [handled EXCEPT ![n] = Append(@, i.msg)]
          /\ UNCHANGED <<conn, client, requests, responses, failed>>
      BY <2>3 DEF handle_one_request, HandlerParses, rest, i
    <3>3. Append(handled[n], i.msg) \in Seq(Seq(Unit))
      BY <2>1, AppendProperties DEF HttpTypes, TypeOK
    <3>4. [i EXCEPT !.at = "handling"] \in Reader
      BY <2>1, FieldLaws
    <3>5. [i EXCEPT !.at = "handling"].msg # <<>>
      BY <2>1, <3>1 DEF Reader
    <3> QED
      BY <2>1, <3>2, <3>3, <3>4, <3>5, FieldLaws DEF HttpTypes, TypeOK
  <2> QED
    BY <1>1, <2>2, <2>3
<1>2. CASE Reply(n) \/ ReplyAndClose(n)
  <2> DEFINE rsp == wire[n].rsp \o Response(n)
  <2>1. server[n] \in Reader /\ wire[n] \in Wire /\ server[n].at = "handling"
    BY <1>2 DEF HttpTypes, TypeOK, Reply, ReplyAndClose
  <2>2. rsp \in Seq(Unit)
    <3>1. server[n].msg \in Seq(Unit) /\ server[n].msg # <<>> /\ wire[n].rsp \in Seq(Unit)
      BY <2>1 DEF HttpTypes, Reader, Wire
    <3>2. 1 \in 1..Len(server[n].msg)
      BY <3>1, EmptySeq
    <3>3. server[n].msg[1] \in Unit
      BY <3>1, <3>2, ElementOfSeq
    <3>4. server[n].msg[1].id \in 1..MaxRequests
      BY <3>3 DEF Unit
    <3> QED
      BY <3>1, <3>4, MessageLaws, ConcatProperties DEF Response
  <2> HIDE DEF rsp
  <2>3. CASE Reply(n)
    <3> DEFINE q == read_message([server[n] EXCEPT !.cached = server[n].left])
    <3>1. q \in Reader /\ q.at = "reading"
      BY <2>1, FieldLaws, ReaderLaws
    <3> HIDE DEF q
    <3>2. server' = [server EXCEPT ![n] = q] /\ wire' = [wire EXCEPT ![n].rsp = rsp]
          /\ UNCHANGED <<conn, client, requests, handled, responses, failed>>
      BY <2>3 DEF Reply, rsp, q
    <3> QED
      BY <2>1, <2>2, <3>1, <3>2, FieldLaws DEF HttpTypes, TypeOK
  <2>4. CASE ReplyAndClose(n)
    <3> DEFINE w == [wire[n] EXCEPT !.rsp = rsp, !.server = FALSE]
    <3>1. w \in Wire
      BY <2>1, <2>2 DEF Wire
    <3>2. server' = [server EXCEPT ![n].at = "closed"] /\ wire' = [wire EXCEPT ![n] = w]
          /\ UNCHANGED <<conn, client, requests, handled, responses, failed>>
      BY <2>4 DEF ReplyAndClose, rsp
    <3> HIDE DEF w
    <3>3. [server[n] EXCEPT !.at = "closed"] \in Reader
      BY <2>1, FieldLaws
    <3>4. [server[n] EXCEPT !.at = "closed"].at = "closed"
      BY <2>1 DEF Reader
    <3> QED
      BY <2>1, <3>1, <3>2, <3>3, <3>4 DEF HttpTypes, TypeOK
  <2> QED
    BY <1>2, <2>3, <2>4
<1>3. CASE HandlerCloses(n)
  <2>1. server[n] \in Reader /\ wire[n] \in Wire
    BY DEF HttpTypes, TypeOK
  <2>2. /\ [server[n] EXCEPT !.at = "closed"] \in Reader
        /\ [server[n] EXCEPT !.at = "closed"].at = "closed"
        /\ [wire[n] EXCEPT !.server = FALSE] \in Wire
    <3>1. [server[n] EXCEPT !.at = "closed"] \in Reader /\ [wire[n] EXCEPT !.server = FALSE] \in Wire
      BY <2>1, FieldLaws
    <3> QED
      BY <2>1, <3>1 DEF Reader
  <2> QED
    BY <1>3, <2>1, <2>2 DEF HandlerCloses, HttpTypes, TypeOK
<1> QED
  BY <1>1, <1>2, <1>3 DEF Handler

LEMMA TypesStep == HttpTypes /\ [Next]_vars => HttpTypes'
<1> SUFFICES ASSUME HttpTypes, [Next]_vars PROVE HttpTypes'
  OBVIOUS
<1>1. CASE UNCHANGED vars
  BY <1>1 DEF HttpTypes, TypeOK, vars
<1> QED
  BY <1>1, TypesSend, TypesClient, TypesHandler DEF Next, Client

(* Every value of the client, the handlers and the wires has its type, and *)
(* a handler that is called has a request.                                 *)
THEOREM TypeCorrect == Spec => []TypeOK
<1>1. HttpTypes => TypeOK
  BY DEF HttpTypes
<1> QED
  BY <1>1, TypesInit, TypesStep, PTL DEF Spec

-----------------------------------------------------------------------------
(* A handler that reads has collected the next request up to its parser's  *)
(* place, and its stream goes on from there and ends within that request.  *)
Expects(r, req, ids, hs) ==
    LET id == ids[Len(hs) + 1]
    IN IF Len(hs) < Len(ids)
       THEN /\ r.msg = Units(id, 0, r.pos)
            /\ \E e \in r.pos..MsgLen : req = Units(id, r.pos, e)
       ELSE r.pos = 0 /\ r.msg = <<>> /\ req = <<>>

(* The handler r of a connection w, on which the requests ids were sent,   *)
(* hs handled and rs returned.                                             *)
HandlerOk(r, w, ids, hs, rs) ==
    /\ r.left = <<>> /\ r.cached = <<>> /\ ~r.errno
    /\ DeliveredFrom(ids, hs)
    /\ r.at = "idle" => /\ r.pos = 0
                        /\ ids = <<>> /\ hs = <<>> /\ rs = <<>>
                        /\ w.req = <<>> /\ w.rsp = <<>> /\ ~w.client
    /\ r.at # "idle" => ids # <<>>
    /\ r.at = "reading" => Expects(r, w.req, ids, hs)
    /\ r.at = "handling" => /\ hs # <<>> /\ r.msg = Message(ids[Len(hs)])
                            /\ r.pos = 0 /\ w.req = <<>>

(* The responses a handler has sent.                                       *)
Replies(r, hs) == IF r.at = "handling" THEN Len(hs) - 1 ELSE Len(hs)

(* The client c on a connection on which n responses were sent, those of   *)
(* ids, and rs were returned; rsp is still to be read.  Lost: whatever     *)
(* comes, the parser refuses it.                                           *)
Lost(c) == c.errno \/ (c.pos = 0 /\ Bad(c.left))

(* The parser will refuse what comes.                                      *)
Behind(c, rsp) == c.left = <<>> /\ c.pos = 0 /\ Bad(rsp)

(* The parser is still inside a message of a connection that broke.        *)
Ahead(c, rsp, n, ids, rs) ==
    /\ c.left = <<>> /\ c.pos > 0
    /\ Len(ids) = 1 /\ rs = <<>>
    /\ n = 0 => rsp = <<>>
    /\ n # 0 => \E b \in 0..(c.pos - 1) : rsp = Units(ids[1], b, MsgLen)

(* The parser is where the stream is.                                      *)
InStep(c, rsp, n, ids, rs) ==
    /\ c.left = <<>> /\ ~c.errno
    /\ n = Len(rs) => c.pos = 0 /\ rsp = <<>> /\ (c.at = "reading" => c.msg = <<>>)
    /\ n # Len(rs) => /\ rsp = Units(ids[Len(ids)], c.pos, MsgLen)
                      /\ c.at = "reading" => c.msg = Units(ids[Len(ids)], 0, c.pos)
                      /\ c.at # "reading" => c.pos = 0

(* At most one response is awaited, and the responses returned were sent.  *)
Counted(n, ids, rs) == Len(ids) - 1 <= Len(rs) /\ Len(rs) <= n /\ n <= Len(ids)

Talks(c, rsp, n, ids, rs) ==
    /\ Counted(n, ids, rs)
    /\ \/ Lost(c)
       \/ Behind(c, rsp)
       \/ Ahead(c, rsp, n, ids, rs)
       \/ InStep(c, rsp, n, ids, rs)

-----------------------------------------------------------------------------
LEMMA DeliveredSent ==
  ASSUME NEW ids \in Seq(1..MaxRequests), NEW id \in 1..MaxRequests,
         NEW ms \in Seq(Seq(Unit)), DeliveredFrom(ids, ms)
  PROVE  DeliveredFrom(Append(ids, id), ms)
<1>1. /\ Len(ids) \in Nat /\ Len(ms) \in Nat /\ DOMAIN ms = 1..Len(ms)
      /\ Len(Append(ids, id)) = Len(ids) + 1
      /\ \A i \in 1..Len(ids) : Append(ids, id)[i] = ids[i]
  BY LenProperties, AppendProperties
<1>2. Len(ms) <= Len(ids) /\ \A i \in 1..Len(ms) : i \in 1..Len(ids) /\ ms[i] = Message(ids[i])
  <2>1. Len(ms) <= Len(ids) /\ \A i \in 1..Len(ms) : ms[i] = Message(ids[i])
    BY <1>1 DEF DeliveredFrom
  <2> QED
    BY <1>1, <2>1
<1> QED
  BY <1>1, <1>2 DEF DeliveredFrom

LEMMA DeliveredMore ==
  ASSUME NEW ids \in Seq(1..MaxRequests), NEW ms \in Seq(Seq(Unit)), NEW m \in Seq(Unit),
         DeliveredFrom(ids, ms), Len(ms) < Len(ids), m = Message(ids[Len(ms) + 1])
  PROVE  DeliveredFrom(ids, Append(ms, m))
<1> DEFINE a == Append(ms, m)
<1>1. /\ Len(ids) \in Nat /\ Len(ms) \in Nat /\ DOMAIN ms = 1..Len(ms)
      /\ Len(a) = Len(ms) + 1 /\ a \in Seq(Seq(Unit))
      /\ \A i \in 1..Len(ms) : a[i] = ms[i]
      /\ a[Len(ms) + 1] = m
  BY LenProperties, AppendProperties
<1>2. DOMAIN a = 1..Len(a)
  BY <1>1, LenProperties
<1> HIDE DEF a
<1>3. Len(a) <= Len(ids)
  BY <1>1
<1>4. ASSUME NEW i \in 1..Len(a) PROVE a[i] = Message(ids[i])
  <2>1. CASE i = Len(ms) + 1
    BY <1>1, <2>1
  <2>2. CASE i # Len(ms) + 1
    <3>1. i \in 1..Len(ms)
      BY <1>1, <2>2
    <3> QED
      BY <1>1, <3>1 DEF DeliveredFrom
  <2> QED
    BY <2>1, <2>2
<1>5. DeliveredFrom(ids, a)
  BY <1>2, <1>3, <1>4 DEF DeliveredFrom
<1> QED
  BY <1>5 DEF a

(* Nothing can be read of an empty stream.                                 *)
LEMMA EmptyStream ==
  ASSUME NEW r \in Reader, r.left = <<>>, NEW open,
         NEW s \in Input(r, <<>>, open)
  PROVE  s = <<>>
<1>1. <<>> \in Seq(Unit) /\ Len(<<>>) = 0
  BY EmptySeq
<1>2. s # <<>> => Len(s) \in 1..0
  BY <1>1, InputLaws
<1> QED
  BY <1>2

(* read_message on the server's side.                                      *)
LEMMA HandlerCollects ==
  ASSUME NEW r \in Reader, NEW w \in Wire, NEW ids \in Seq(1..MaxRequests),
         NEW hs \in Seq(Seq(Unit)), NEW rs, NEW open, NEW v,
         HandlerOk(r, w, ids, hs, rs), r.at = "reading",
         NEW s \in Input(r, w.req, open), s # <<>>, v.req = Rest(r, w.req, s)
  PROVE  /\ Len(hs) < Len(ids)
         /\ ~Completes(r, s) => HandlerOk(Iterated(r, s), v, ids, hs, rs)
         /\ Completes(r, s) =>
               HandlerOk([Iterated(r, s) EXCEPT !.at = "handling"], v, ids,
                         Append(hs, Iterated(r, s).msg), rs)
<1> DEFINE i == Iterated(r, s)
           id == ids[Len(hs) + 1]
<1>1. /\ r.left = <<>> /\ r.cached = <<>> /\ ~r.errno /\ DeliveredFrom(ids, hs)
      /\ ids # <<>> /\ Expects(r, w.req, ids, hs)
  BY DEF HandlerOk
<1>2. Len(hs) < Len(ids)
  <2>1. w.req # <<>>
    BY <1>1, EmptyStream
  <2> QED
    BY <1>1, <2>1 DEF Expects
<1>3. id \in 1..MaxRequests
  <2>1. Len(hs) + 1 \in 1..Len(ids)
    BY <1>2, LenProperties
  <2> QED
    BY <2>1, ElementOfSeq
<1>4. PICK e \in r.pos..MsgLen : w.req = Units(id, r.pos, e)
  BY <1>1, <1>2 DEF Expects
<1>5. r.msg = Units(id, 0, r.pos)
  BY <1>1, <1>2 DEF Expects
<1>6. s \in Seq(Unit)
  <2>1. w.req \in Seq(Unit)
    BY DEF Wire
  <2> QED
    BY <2>1, InputLaws
<1>7. i \in Reader /\ i.at = "reading" /\ i.errno = r.errno /\ i.cached = r.cached
  BY <1>6, IteratedLaws
<1> HIDE DEF id
<1>8. /\ i.left = <<>>
      /\ ~Completes(r, s) =>
            e \in i.pos..MsgLen /\ i.msg = Units(id, 0, i.pos) /\ v.req = Units(id, i.pos, e)
      /\ Completes(r, s) => i.pos = 0 /\ i.msg = Message(id) /\ v.req = <<>>
  <2>1. s \in Input(r, Units(id, r.pos, e), open) /\ v.req = Rest(r, Units(id, r.pos, e), s)
    BY <1>4
  <2>2. r.left = <<>> /\ r \in Reader /\ e \in r.pos..MsgLen
    BY <1>1, <1>4
  <2>3. Collected(r, s, id, e)
    BY <1>3, <1>5, <2>1, <2>2, CollectLaws
  <2> QED
    BY <2>1, <2>3 DEF Collected
<1> HIDE DEF i
<1>9. CASE ~Completes(r, s)
  <2>1. Expects(i, v.req, ids, hs)
    BY <1>2, <1>8, <1>9 DEF Expects, id
  <2>2. HandlerOk(i, v, ids, hs, rs)
    BY <1>1, <1>7, <1>8, <2>1 DEF HandlerOk
  <2> QED
    BY <1>2, <1>9, <2>2 DEF i
<1>10. CASE Completes(r, s)
  <2> DEFINE j == [i EXCEPT !.at = "handling"]
             a == Append(hs, i.msg)
  <2>1. /\ j.left = <<>> /\ j.cached = <<>> /\ ~j.errno /\ j.at = "handling"
        /\ j.pos = 0 /\ j.msg = Message(id)
    BY <1>1, <1>7, <1>8, <1>10 DEF Reader
  <2>2. i.msg \in Seq(Unit)
    BY <1>7 DEF Reader
  <2>3. a # <<>> /\ Len(a) = Len(hs) + 1
    BY <2>2, AppendProperties
  <2>4. DeliveredFrom(ids, a)
    BY <1>1, <1>2, <1>8, <1>10, <2>2, DeliveredMore DEF id
  <2> HIDE DEF j, a
  <2>5. HandlerOk(j, v, ids, a, rs)
    BY <1>1, <1>8, <1>10, <2>1, <2>3, <2>4 DEF HandlerOk, id
  <2> QED
    BY <1>2, <1>10, <2>5 DEF i, j, a
<1> QED
  BY <1>9, <1>10

(* The response is sent, and the connection kept or closed.                *)
LEMMA HandlerReplies ==
  ASSUME NEW r \in Reader, NEW w \in Wire, NEW ids \in Seq(1..MaxRequests),
         NEW hs \in Seq(Seq(Unit)), NEW rs, NEW v,
         HandlerOk(r, w, ids, hs, rs), r.at = "handling", v.req = w.req
  PROVE  /\ Len(hs) \in 1..Len(ids)
         /\ Message(r.msg[1].id) = Message(ids[Len(hs)])
         /\ HandlerOk(read_message([r EXCEPT !.cached = r.left]), v, ids, hs, rs)
         /\ HandlerOk([r EXCEPT !.at = "closed"], v, ids, hs, rs)
<1>1. /\ r.left = <<>> /\ r.cached = <<>> /\ ~r.errno /\ DeliveredFrom(ids, hs)
      /\ ids # <<>> /\ hs # <<>> /\ r.msg = Message(ids[Len(hs)])
      /\ r.pos = 0 /\ v.req = <<>>
  BY DEF HandlerOk
<1>2. Len(hs) \in 1..Len(ids)
  <2>1. Len(hs) \in Nat \ {0} /\ Len(ids) \in Nat
    BY <1>1, EmptySeq, LenProperties
  <2> QED
    BY <1>1, <2>1 DEF DeliveredFrom
<1>3. Message(r.msg[1].id) = Message(ids[Len(hs)])
  <2>1. ids[Len(hs)] \in 1..MaxRequests
    BY <1>2, ElementOfSeq
  <2> QED
    BY <1>1, <2>1, MessageLaws
<1>4. HandlerOk([r EXCEPT !.at = "closed"], v, ids, hs, rs)
  <2> DEFINE j == [r EXCEPT !.at = "closed"]
  <2>1. j.left = <<>> /\ j.cached = <<>> /\ ~j.errno /\ j.at = "closed"
    BY <1>1 DEF Reader
  <2> HIDE DEF j
  <2>2. HandlerOk(j, v, ids, hs, rs)
    BY <1>1, <2>1 DEF HandlerOk
  <2> QED
    BY <2>2 DEF j
<1>5. HandlerOk(read_message([r EXCEPT !.cached = r.left]), v, ids, hs, rs)
  <2> DEFINE j == read_message([r EXCEPT !.cached = r.left])
  <2>1. /\ j.left = <<>> /\ j.cached = <<>> /\ ~j.errno /\ j.at = "reading"
        /\ j.pos = 0 /\ j.msg = <<>>
    <3>1. /\ [r EXCEPT !.cached = r.left] \in Reader
          /\ [r EXCEPT !.cached = r.left].cached = <<>>
          /\ [r EXCEPT !.cached = r.left].pos = 0
          /\ ~[r EXCEPT !.cached = r.left].errno
      <4>1. [r EXCEPT !.cached = r.left] \in Reader
        BY FieldLaws
      <4> QED
        BY <1>1, <4>1 DEF Reader
    <3> QED
      BY <3>1, ReaderLaws
  <2> HIDE DEF j
  <2>2. Expects(j, v.req, ids, hs)
    <3>1. CASE Len(hs) < Len(ids)
      <4>1. Len(hs) + 1 \in 1..Len(ids)
        BY <1>2, <3>1, LenProperties
      <4>2. ids[Len(hs) + 1] \in 1..MaxRequests /\ 0 \in 0..MsgLen
        BY <4>1, ElementOfSeq, HttpAssumption
      <4>3. Units(ids[Len(hs) + 1], 0, 0) = <<>>
        BY <4>2, UnitsEnds
      <4> QED
        BY <1>1, <2>1, <3>1, <4>2, <4>3 DEF Expects
    <3>2. CASE ~(Len(hs) < Len(ids))
      BY <1>1, <2>1, <3>2 DEF Expects
    <3> QED
      BY <3>1, <3>2
  <2>3. HandlerOk(j, v, ids, hs, rs)
    BY <1>1, <2>1, <2>2 DEF HandlerOk
  <2> QED
    BY <2>3 DEF j
<1> QED
  BY <1>2, <1>3, <1>4, <1>5

(* A parser that is lost, or behind, refuses what it is given.             *)
LEMMA Refused ==
  ASSUME NEW c \in Reader, NEW rsp \in Seq(Unit), NEW open,
         NEW s \in Input(c, rsp, open), Lost(c) \/ Behind(c, rsp)
  PROVE  Refuses(c, s)
<1>1. CASE c.errno
  BY <1>1 DEF Refuses
<1>2. CASE c.pos = 0 /\ Bad(c.left)
  <2>1. s = c.left
    BY <1>2, InputLaws DEF Bad
  <2> QED
    BY <1>2, <2>1 DEF Bad, Refuses
<1>3. CASE Behind(c, rsp)
  <2>1. s # <<>>
    BY <1>3, InputLaws DEF Behind, Bad
  <2>2. Len(s) \in 1..Len(rsp) /\ s = SubSeq(rsp, 1, Len(s)) /\ Len(rsp) \in Nat
    BY <1>3, <2>1, InputLaws, LenProperties DEF Behind
  <2> DEFINE k == Len(s)
  <2>3. k \in 0..Len(rsp) /\ 1 \in 1..k
    BY <2>2
  <2>4. s[1] = rsp[1]
    <3>1. \A i \in 1..k : SubSeq(rsp, 1, k)[i] = rsp[i]
      <4> HIDE DEF k
      <4> QED
        BY <2>3, CutLaws
    <3> QED
      BY <2>2, <2>3, <3>1
  <2> QED
    BY <1>3, <2>1, <2>4 DEF Behind, Bad, Refuses
<1> QED
  BY <1>1, <1>2, <1>3 DEF Lost

(* What the counts say of the response that is awaited.                    *)
LEMMA CountedLaws ==
  ASSUME NEW n \in Nat, NEW ids \in Seq(1..MaxRequests), NEW rs \in Seq(Seq(Unit)),
         Counted(n, ids, rs)
  PROVE  /\ Len(ids) \in Nat /\ Len(rs) \in Nat
         /\ n # Len(rs) => /\ n = Len(ids) /\ Len(ids) = Len(rs) + 1
                           /\ Len(ids) \in 1..Len(ids)
                           /\ ids[Len(ids)] \in 1..MaxRequests
<1>1. Len(ids) \in Nat /\ Len(rs) \in Nat
  BY LenProperties
<1>2. CASE n # Len(rs)
  <2>1. n = Len(ids) /\ Len(ids) = Len(rs) + 1 /\ Len(ids) \in 1..Len(ids)
    BY <1>1, <1>2 DEF Counted
  <2> QED
    BY <1>1, <2>1, ElementOfSeq
<1> QED
  BY <1>1, <1>2

(* A response is sent.                                                     *)
LEMMA TalkReplied ==
  ASSUME NEW c \in Reader, NEW rsp \in Seq(Unit), NEW n \in Nat,
         NEW ids \in Seq(1..MaxRequests), NEW rs \in Seq(Seq(Unit)),
         Talks(c, rsp, n, ids, rs), n + 1 \in 1..Len(ids)
  PROVE  LET next == rsp \o Message(ids[n + 1])
         IN /\ Talks(c, next, n + 1, ids, rs)
            /\ InStep(c, rsp, n, ids, rs) => InStep(c, next, n + 1, ids, rs)
<1> DEFINE m == n + 1
           id == ids[m]
           next == rsp \o Message(id)
<1>1. /\ Counted(n, ids, rs) /\ Len(ids) \in Nat /\ Len(rs) \in Nat
      /\ m = Len(ids) /\ n = Len(rs) /\ m # Len(rs) /\ m # 0
  <2>1. Counted(n, ids, rs) /\ Len(ids) \in Nat /\ Len(rs) \in Nat
    BY CountedLaws DEF Talks
  <2> QED
    BY <2>1 DEF Counted
<1>2. Counted(m, ids, rs)
  BY <1>1 DEF Counted
<1>3. id \in 1..MaxRequests /\ 0 \in 0..MsgLen
  BY ElementOfSeq, HttpAssumption
<1> HIDE DEF m
<1>4. Message(id) \in Seq(Unit) /\ Units(id, 0, MsgLen) = Message(id) /\ Units(id, 0, 0) = <<>>
  BY <1>3, MessageLaws, UnitsEnds
<1>5. rsp = <<>> => next = Message(id)
  BY <1>4, ConcatEmptySeq
<1>6. InStep(c, rsp, n, ids, rs) => InStep(c, next, m, ids, rs)
  <2> SUFFICES ASSUME InStep(c, rsp, n, ids, rs) PROVE InStep(c, next, m, ids, rs)
    OBVIOUS
  <2>1. /\ c.left = <<>> /\ ~c.errno /\ c.pos = 0 /\ rsp = <<>>
        /\ c.at = "reading" => c.msg = <<>>
    BY <1>1 DEF InStep
  <2>2. next = Units(ids[Len(ids)], c.pos, MsgLen)
    BY <1>1, <1>4, <1>5, <2>1
  <2>3. c.at = "reading" => c.msg = Units(ids[Len(ids)], 0, c.pos)
    BY <1>1, <1>4, <2>1
  <2> HIDE DEF next
  <2> QED
    BY <1>1, <2>1, <2>2, <2>3 DEF InStep
<1>7. CASE Behind(c, rsp)
  <2>1. next # <<>> /\ next[1] = rsp[1]
    <3>1. rsp # <<>>
      BY <1>7 DEF Behind, Bad
    <3>2. Len(rsp) \in Nat \ {0} /\ Len(Message(id)) \in Nat
      BY <1>4, <3>1, EmptySeq, LenProperties
    <3>3. 1 \in 1..(Len(rsp) + Len(Message(id))) /\ 1 <= Len(rsp)
      BY <3>2
    <3>4. next # <<>>
      BY <1>4, <3>1, ConcatEqualIffEmpty
    <3>5. next[1] = rsp[1]
      BY <1>4, <3>3, ConcatProperties
    <3> QED
      BY <3>4, <3>5
  <2> HIDE DEF next
  <2>2. Behind(c, next)
    BY <1>7, <2>1 DEF Behind, Bad
  <2>3. Talks(c, next, m, ids, rs)
    BY <1>2, <2>2 DEF Talks
  <2> QED
    BY <1>6, <2>3 DEF next, m
<1>8. CASE Ahead(c, rsp, n, ids, rs)
  <2>1. /\ c.left = <<>> /\ c.pos > 0 /\ Len(ids) = 1 /\ rs = <<>> /\ m = 1
    BY <1>1, <1>8 DEF Ahead
  <2>2. n = 0 /\ rsp = <<>>
    BY <1>8, <2>1 DEF Ahead, m
  <2>3. next = Units(ids[1], 0, MsgLen)
    BY <1>4, <1>5, <2>1, <2>2
  <2>4. 0 \in 0..(c.pos - 1)
    BY <2>1 DEF Reader
  <2> HIDE DEF next
  <2>5. Ahead(c, next, m, ids, rs)
    BY <2>1, <2>3, <2>4 DEF Ahead
  <2>6. Talks(c, next, m, ids, rs)
    BY <1>2, <2>5 DEF Talks
  <2> QED
    BY <1>6, <2>6 DEF next, m
<1>9. CASE Lost(c) \/ InStep(c, rsp, n, ids, rs)
  <2> HIDE DEF next
  <2>1. Talks(c, next, m, ids, rs)
    BY <1>2, <1>6, <1>9 DEF Talks
  <2> QED
    BY <1>6, <2>1 DEF next, m
<1> QED
  BY <1>7, <1>8, <1>9 DEF Talks

(* A piece of a response is parsed, and the message goes on.               *)
LEMMA TalkReads ==
  ASSUME NEW c \in Reader, NEW rsp \in Seq(Unit), NEW n \in Nat,
         NEW ids \in Seq(1..MaxRequests), NEW rs \in Seq(Seq(Unit)),
         Talks(c, rsp, n, ids, rs), c.at = "reading",
         NEW open, NEW s \in Input(c, rsp, open), Outcome(c, s) = "more"
  PROVE  LET i == Iterated(c, s)
             rest == Rest(c, rsp, s)
         IN /\ Talks(i, rest, n, ids, rs)
            /\ i.left = <<>>
            /\ InStep(c, rsp, n, ids, rs) => InStep(i, rest, n, ids, rs)
<1> DEFINE i == Iterated(c, s)
           rest == Rest(c, rsp, s)
<1>1. ~Refuses(c, s) /\ s # <<>> /\ ~Completes(c, s) /\ s \in Seq(Unit)
  BY OutcomeLaws, InputLaws
<1>2. Counted(n, ids, rs) /\ ~Lost(c) /\ ~Behind(c, rsp)
  BY <1>1, Refused DEF Talks
<1>3. c.left = <<>> /\ rsp # <<>>
  <2>1. c.left = <<>>
    BY <1>2 DEF Talks, Ahead, InStep
  <2> QED
    BY <1>1, <2>1, EmptyStream
<1>4. i \in Reader /\ i.at = "reading" /\ i.errno = c.errno /\ i.left = <<>>
  BY <1>1, <1>3, IteratedLaws
<1>5. ASSUME InStep(c, rsp, n, ids, rs) PROVE InStep(i, rest, n, ids, rs)
  <2> DEFINE id == ids[Len(ids)]
  <2>1. /\ ~c.errno /\ n # Len(rs)
        /\ rsp = Units(id, c.pos, MsgLen) /\ c.msg = Units(id, 0, c.pos)
    BY <1>3, <1>5 DEF InStep
  <2>2. id \in 1..MaxRequests
    BY <1>2, <2>1, CountedLaws
  <2>3. MsgLen \in c.pos..MsgLen
    BY HttpAssumption DEF Reader
  <2> HIDE DEF id
  <2>4. Collected(c, s, id, MsgLen)
    <3>1. s \in Input(c, Units(id, c.pos, MsgLen), open)
      BY <2>1
    <3> QED
      BY <1>1, <1>3, <2>1, <2>2, <2>3, <3>1, CollectLaws
  <2>5. i.msg = Units(id, 0, i.pos) /\ rest = Units(id, i.pos, MsgLen)
    BY <1>1, <2>1, <2>4 DEF Collected
  <2> HIDE DEF i, rest
  <2> QED
    BY <1>4, <2>1, <2>5 DEF InStep, id
<1>6. CASE InStep(c, rsp, n, ids, rs)
  <2>1. Talks(i, rest, n, ids, rs)
    BY <1>2, <1>5, <1>6 DEF Talks
  <2> QED
    BY <1>4, <1>5, <2>1
<1>7. CASE Ahead(c, rsp, n, ids, rs)
  <2>1. n # 0 /\ Len(ids) = 1 /\ rs = <<>>
    BY <1>3, <1>7 DEF Ahead
  <2>2. PICK b \in 0..(c.pos - 1) : rsp = Units(ids[1], b, MsgLen)
    BY <1>7, <2>1 DEF Ahead
  <2>3. ids[1] \in 1..MaxRequests
    <3>1. 1 \in 1..Len(ids)
      BY <2>1
    <3> QED
      BY <3>1, ElementOfSeq
  <2>4. Overrun(c, s, ids[1], b)
    <3>1. s \in Input(c, Units(ids[1], b, MsgLen), open)
      BY <2>2
    <3> QED
      BY <1>1, <1>3, <2>3, <3>1, AheadLaws
  <2>5. i.pos > 0 /\ \E d \in 0..(i.pos - 1) : rest = Units(ids[1], d, MsgLen)
    BY <1>1, <2>2, <2>4 DEF Overrun
  <2>6. Talks(i, rest, n, ids, rs)
    <3> HIDE DEF i, rest
    <3>1. Ahead(i, rest, n, ids, rs)
      BY <1>4, <2>1, <2>5 DEF Ahead
    <3> QED
      BY <1>2, <3>1 DEF Talks
  <2> QED
    BY <1>4, <1>5, <2>6
<1> QED
  BY <1>2, <1>6, <1>7 DEF Talks

(* The message ends: get_response returns it and keeps the rest.           *)
Returned(c, rsp, n, ids, rs, s) ==
    LET i == Iterated(c, s)
        rest == Rest(c, rsp, s)
        d == [i EXCEPT !.at = "idle", !.cached = i.left]
        ms == Append(rs, i.msg)
    IN /\ Talks(d, rest, n, ids, ms)
       /\ d.at = "idle" /\ d.pos = 0 /\ d.cached = d.left
       /\ Lost(d) \/ d.left = <<>>
       /\ InStep(c, rsp, n, ids, rs) =>
             /\ InStep(d, rest, n, ids, ms)
             /\ Len(rs) < Len(ids) /\ i.msg = Message(ids[Len(rs) + 1])

LEMMA TalkReturns ==
  ASSUME NEW c \in Reader, NEW rsp \in Seq(Unit), NEW n \in Nat,
         NEW ids \in Seq(1..MaxRequests), NEW rs \in Seq(Seq(Unit)),
         Talks(c, rsp, n, ids, rs), c.at = "reading",
         NEW open, NEW s \in Input(c, rsp, open), Outcome(c, s) = "complete"
  PROVE  Returned(c, rsp, n, ids, rs, s)
<1> DEFINE i == Iterated(c, s)
           rest == Rest(c, rsp, s)
           d == [i EXCEPT !.at = "idle", !.cached = i.left]
           ms == Append(rs, i.msg)
<1>1. ~Refuses(c, s) /\ s # <<>> /\ Completes(c, s) /\ s \in Seq(Unit)
  BY OutcomeLaws, InputLaws
<1>2. Counted(n, ids, rs) /\ ~Lost(c) /\ ~Behind(c, rsp)
  BY <1>1, Refused DEF Talks
<1>3. c.left = <<>> /\ rsp # <<>>
  <2>1. c.left = <<>>
    BY <1>2 DEF Talks, Ahead, InStep
  <2> QED
    BY <1>1, <2>1, EmptyStream
<1>4. i \in Reader /\ i.errno = c.errno /\ i.pos = 0
  BY <1>1, IteratedLaws
<1>5. /\ d.at = "idle" /\ d.pos = 0 /\ d.cached = d.left /\ d.left = i.left
      /\ d.errno = c.errno
  <2> HIDE DEF i
  <2> QED
    BY <1>4 DEF Reader
<1>6. Len(ms) = Len(rs) + 1 /\ Len(rs) \in Nat /\ Len(ids) \in Nat
  <2>1. i.msg \in Seq(Unit)
    BY <1>4 DEF Reader
  <2> QED
    BY <2>1, AppendProperties, LenProperties
<1>7. CASE InStep(c, rsp, n, ids, rs)
  <2> DEFINE id == ids[Len(ids)]
  <2>1. /\ ~c.errno /\ n # Len(rs)
        /\ rsp = Units(id, c.pos, MsgLen) /\ c.msg = Units(id, 0, c.pos)
    BY <1>3, <1>7 DEF InStep
  <2>2. id \in 1..MaxRequests /\ n = Len(ids) /\ Len(ids) = Len(rs) + 1
    BY <1>2, <2>1, CountedLaws
  <2>3. MsgLen \in c.pos..MsgLen
    BY HttpAssumption DEF Reader
  <2> HIDE DEF id
  <2>4. Collected(c, s, id, MsgLen)
    <3>1. s \in Input(c, Units(id, c.pos, MsgLen), open)
      BY <2>1
    <3> QED
      BY <1>1, <1>3, <2>1, <2>2, <2>3, <3>1, CollectLaws
  <2>5. i.left = <<>> /\ i.msg = Message(id) /\ rest = <<>>
    BY <1>1, <2>1, <2>4 DEF Collected
  <2>6. Counted(n, ids, ms)
    BY <1>6, <2>2 DEF Counted
  <2>7. n = Len(ms)
    BY <1>6, <2>2
  <2>8. Len(rs) < Len(ids) /\ i.msg = Message(ids[Len(rs) + 1])
    BY <1>6, <2>2, <2>5 DEF id
  <2>9. InStep(d, rest, n, ids, ms)
    <3> HIDE DEF d, rest, ms, i
    <3> QED
      BY <1>5, <2>1, <2>5, <2>7 DEF InStep
  <2>10. Talks(d, rest, n, ids, ms)
    BY <2>6, <2>9 DEF Talks
  <2> HIDE DEF i, rest
  <2>11. d.left = <<>>
    BY <1>5, <2>5
  <2> QED
    BY <1>5, <2>8, <2>9, <2>10, <2>11 DEF i, rest, Returned
<1>8. CASE Ahead(c, rsp, n, ids, rs)
  <2>1. n # 0 /\ Len(ids) = 1 /\ rs = <<>> /\ Len(rs) = 0
    BY <1>3, <1>8, EmptySeq DEF Ahead
  <2>2. PICK b \in 0..(c.pos - 1) : rsp = Units(ids[1], b, MsgLen)
    BY <1>8, <2>1 DEF Ahead
  <2>3. ids[1] \in 1..MaxRequests
    <3>1. 1 \in 1..Len(ids)
      BY <2>1
    <3> QED
      BY <3>1, ElementOfSeq
  <2>4. Overrun(c, s, ids[1], b)
    <3>1. s \in Input(c, Units(ids[1], b, MsgLen), open)
      BY <2>2
    <3> QED
      BY <1>1, <1>3, <2>3, <3>1, AheadLaws
  <2>5. Bad(i.left) \/ (i.left = <<>> /\ Bad(rest))
    BY <1>1, <2>2, <2>4 DEF Overrun
  <2>6. Counted(n, ids, ms)
    BY <1>2, <1>6, <2>1 DEF Counted
  <2>7. Lost(d) \/ (d.left = <<>> /\ Behind(d, rest))
    <3> HIDE DEF d, i, rest
    <3> QED
      BY <1>5, <2>5 DEF Lost, Behind
  <2>8. Talks(d, rest, n, ids, ms)
    BY <2>6, <2>7 DEF Talks
  <2>9. ~InStep(c, rsp, n, ids, rs)
    <3>1. c.pos # 0 /\ n # Len(rs) /\ n = Len(ids)
      BY <1>2, <1>8, <2>1, CountedLaws DEF Ahead, Reader
    <3> SUFFICES ASSUME InStep(c, rsp, n, ids, rs) PROVE FALSE
      OBVIOUS
    <3>2. Units(ids[1], b, MsgLen) = Units(ids[1], c.pos, MsgLen)
      BY <2>1, <2>2, <3>1 DEF InStep
    <3>3. /\ b \in 0..MsgLen /\ MsgLen \in b..MsgLen /\ c.pos \in 0..MsgLen
          /\ MsgLen \in c.pos..MsgLen /\ MsgLen - b # MsgLen - c.pos
      <4>1. c.pos \in 0..(MsgLen - 1) /\ MsgLen \in Nat
        BY HttpAssumption DEF Reader
      <4> QED
        BY <4>1
    <3>4. Len(Units(ids[1], b, MsgLen)) = MsgLen - b
      BY <2>3, <3>3, UnitsLaws
    <3>5. Len(Units(ids[1], c.pos, MsgLen)) = MsgLen - c.pos
      BY <2>3, <3>3, UnitsLaws
    <3> QED
      BY <3>2, <3>3, <3>4, <3>5
  <2> QED
    BY <1>5, <2>7, <2>8, <2>9 DEF Returned
<1> QED
  BY <1>2, <1>7, <1>8 DEF Talks

(* get_response begins.                                                    *)
LEMMA TalkBegins ==
  ASSUME NEW c \in Reader, NEW rsp \in Seq(Unit), NEW n \in Nat,
         NEW ids \in Seq(1..MaxRequests), NEW rs \in Seq(Seq(Unit)),
         Talks(c, rsp, n, ids, rs), c.at = "idle", c.cached = c.left
  PROVE  LET d == read_message(c)
         IN /\ Talks(d, rsp, n, ids, rs)
            /\ InStep(c, rsp, n, ids, rs) => InStep(d, rsp, n, ids, rs)
<1> DEFINE d == read_message(c)
<1>1. /\ d.at = "reading" /\ d.left = c.left /\ d.msg = <<>>
      /\ d.pos = c.pos /\ d.errno = c.errno
  BY ReaderLaws
<1> HIDE DEF d
<1>2. ASSUME InStep(c, rsp, n, ids, rs) PROVE InStep(d, rsp, n, ids, rs)
  <2>1. CASE n = Len(rs)
    BY <1>1, <1>2, <2>1 DEF InStep
  <2>2. CASE n # Len(rs)
    <3>1. c.left = <<>> /\ ~c.errno /\ c.pos = 0 /\ rsp = Units(ids[Len(ids)], 0, MsgLen)
      BY <1>2, <2>2 DEF InStep
    <3>2. ids[Len(ids)] \in 1..MaxRequests /\ 0 \in 0..MsgLen
      BY <2>2, CountedLaws, HttpAssumption DEF Talks
    <3>3. Units(ids[Len(ids)], 0, 0) = <<>>
      BY <3>2, UnitsEnds
    <3> QED
      BY <1>1, <2>2, <3>1, <3>3 DEF InStep
  <2> QED
    BY <2>1, <2>2
<1>3. Talks(d, rsp, n, ids, rs)
  <2>1. CASE InStep(c, rsp, n, ids, rs)
    BY <1>2, <2>1 DEF Talks
  <2>2. CASE ~InStep(c, rsp, n, ids, rs)
    <3>1. Lost(c) => Lost(d)
      BY <1>1 DEF Lost
    <3>2. Behind(c, rsp) => Behind(d, rsp)
      BY <1>1 DEF Behind
    <3>3. Ahead(c, rsp, n, ids, rs) => Ahead(d, rsp, n, ids, rs)
      BY <1>1 DEF Ahead
    <3> QED
      BY <2>2, <3>1, <3>2, <3>3 DEF Talks
  <2> QED
    BY <2>1, <2>2
<1> QED
  BY <1>2, <1>3 DEF d

(* get_response returns an empty response at the end of the stream.        *)
Ended(c, rsp, n, ids, rs) ==
    LET d == [c EXCEPT !.at = "idle", !.cached = c.left]
    IN /\ Talks(d, rsp, n, ids, rs) /\ InStep(d, rsp, n, ids, rs)
       /\ d.pos = 0 /\ d.cached = d.left /\ d.left = <<>> /\ d.errno = c.errno

LEMMA TalkEnds ==
  ASSUME NEW c \in Reader, NEW rsp \in Seq(Unit), NEW n \in Nat,
         NEW ids \in Seq(1..MaxRequests), NEW rs \in Seq(Seq(Unit)),
         Talks(c, rsp, n, ids, rs),
         NEW open, NEW s \in Input(c, rsp, open), Outcome(c, s) = "eof"
  PROVE  Ended(c, rsp, n, ids, rs)
<1> DEFINE d == [c EXCEPT !.at = "idle", !.cached = c.left]
<1>1. ~Refuses(c, s) /\ s = <<>>
  BY OutcomeLaws
<1>2. Counted(n, ids, rs) /\ ~Lost(c) /\ ~Behind(c, rsp)
  BY <1>1, Refused DEF Talks
<1>3. c.pos = 0
  BY <1>1 DEF Refuses, Reader
<1>4. InStep(c, rsp, n, ids, rs)
  BY <1>2, <1>3 DEF Talks, Ahead
<1>5. /\ d.at = "idle" /\ d.cached = d.left /\ d.left = c.left
      /\ d.pos = 0 /\ d.errno = c.errno
  BY <1>3 DEF Reader
<1>6. c.left = <<>> /\ ~c.errno
  BY <1>4 DEF InStep
<1> HIDE DEF d
<1>7. InStep(d, rsp, n, ids, rs)
  BY <1>3, <1>4, <1>5 DEF InStep
<1>8. Talks(d, rsp, n, ids, rs)
  BY <1>2, <1>7 DEF Talks
<1> QED
  BY <1>5, <1>6, <1>7, <1>8 DEF d, Ended

(* A request is sent on the connection, or on a new one.                   *)
LEMMA TalkSends ==
  ASSUME NEW c \in Reader, NEW rsp \in Seq(Unit), NEW n \in Nat,
         NEW ids \in Seq(1..MaxRequests), NEW rs \in Seq(Seq(Unit)),
         Talks(c, rsp, n, ids, rs), ~(Len(rs) < Len(ids)), NEW id \in 1..MaxRequests
  PROVE  /\ n = Len(ids)
         /\ Talks(c, rsp, n, Append(ids, id), rs)
         /\ InStep(c, rsp, n, ids, rs) => InStep(c, rsp, n, Append(ids, id), rs)
<1>1. /\ Len(Append(ids, id)) = Len(ids) + 1 /\ Counted(n, ids, rs)
      /\ Len(ids) \in Nat /\ Len(rs) \in Nat
  BY AppendProperties, LenProperties DEF Talks
<1>2. n = Len(rs) /\ n = Len(ids)
  BY <1>1 DEF Counted
<1>3. Counted(n, Append(ids, id), rs)
  BY <1>1, <1>2 DEF Counted
<1>4. ~Ahead(c, rsp, n, ids, rs)
  <2>1. rs = <<>> => Len(rs) = 0
    BY EmptySeq
  <2> QED
    BY <1>2, <2>1 DEF Ahead
<1>5. InStep(c, rsp, n, ids, rs) => InStep(c, rsp, n, Append(ids, id), rs)
  BY <1>2 DEF InStep
<1> QED
  BY <1>2, <1>3, <1>4, <1>5 DEF Talks

LEMMA TalkOpens ==
  ASSUME NEW c \in Reader, Lost(c) \/ c.left = <<>>, c.at = "idle",
         NEW id \in 1..MaxRequests
  PROVE  /\ Talks(c, <<>>, 0, Append(<<>>, id), <<>>)
         /\ c.pos = 0 /\ c.left = <<>> /\ ~c.errno =>
               InStep(c, <<>>, 0, Append(<<>>, id), <<>>)
<1> DEFINE ids == Append(<<>>, id)
<1>1. Len(<<>>) = 0 /\ Len(ids) = 1
  <2>1. <<>> \in Seq(1..MaxRequests) /\ Len(<<>>) = 0
    BY EmptySeq
  <2> QED
    BY <2>1, AppendProperties
<1> HIDE DEF ids
<1>2. Counted(0, ids, <<>>)
  BY <1>1 DEF Counted
<1>3. c.pos = 0 /\ c.left = <<>> /\ ~c.errno => InStep(c, <<>>, 0, ids, <<>>)
  BY <1>1 DEF InStep
<1>4. c.left = <<>> /\ c.pos # 0 => Ahead(c, <<>>, 0, ids, <<>>)
  BY <1>1 DEF Ahead, Reader
<1>5. Talks(c, <<>>, 0, ids, <<>>)
  BY <1>2, <1>3, <1>4 DEF Talks, Lost
<1> QED
  BY <1>3, <1>5 DEF ids

(* The handler of a new connection, and one that is sent another request.  *)
LEMMA HandlerOpens ==
  ASSUME NEW r \in Reader, NEW w \in Wire, NEW ids \in Seq(1..MaxRequests),
         NEW hs \in Seq(Seq(Unit)), NEW rs, NEW v,
         HandlerOk(r, w, ids, hs, rs), r.at = "idle",
         NEW id \in 1..MaxRequests, NEW k \in 0..MsgLen,
         v.req = w.req \o Units(id, 0, k)
  PROVE  HandlerOk(read_message(r), v, Append(ids, id), hs, rs)
<1> DEFINE q == read_message(r)
           a == Append(ids, id)
<1>1. /\ r.left = <<>> /\ r.cached = <<>> /\ ~r.errno /\ r.pos = 0
      /\ ids = <<>> /\ hs = <<>> /\ w.req = <<>> /\ DeliveredFrom(ids, hs)
  BY DEF HandlerOk
<1>2. /\ q.at = "reading" /\ q.left = <<>> /\ q.msg = <<>>
      /\ q.pos = 0 /\ ~q.errno /\ q.cached = <<>>
  BY <1>1, ReaderLaws
<1>3. a # <<>> /\ Len(a) = 1 /\ Len(hs) = 0 /\ a[1] = id
  <2>1. Len(ids) = 0 /\ Len(hs) = 0
    BY <1>1, EmptySeq
  <2>2. a # <<>> /\ Len(a) = Len(ids) + 1 /\ a[Len(ids) + 1] = id
    BY AppendProperties
  <2> QED
    BY <2>1, <2>2
<1>4. DeliveredFrom(a, hs)
  BY <1>1, DeliveredSent
<1>5. 0 \in 0..MsgLen /\ k \in 0..MsgLen
  BY HttpAssumption
<1>6. Units(id, 0, 0) = <<>> /\ v.req = Units(id, 0, k)
  <2>1. Units(id, 0, k) \in Seq(Unit)
    BY <1>5, UnitsLaws
  <2> QED
    BY <1>1, <1>5, <2>1, UnitsEnds, ConcatEmptySeq
<1> HIDE DEF q, a
<1>7. Expects(q, v.req, a, hs)
  <2>1. a[Len(hs) + 1] = id /\ Len(hs) < Len(a) /\ k \in q.pos..MsgLen
    BY <1>2, <1>3
  <2> QED
    BY <1>2, <1>6, <2>1 DEF Expects
<1>8. HandlerOk(q, v, a, hs, rs)
  BY <1>2, <1>3, <1>4, <1>7 DEF HandlerOk
<1> QED
  BY <1>8 DEF q, a

LEMMA HandlerHears ==
  ASSUME NEW r \in Reader, NEW w \in Wire, NEW ids \in Seq(1..MaxRequests),
         NEW hs \in Seq(Seq(Unit)), NEW rs, NEW v,
         HandlerOk(r, w, ids, hs, rs), r.at # "idle",
         NEW id \in 1..MaxRequests, NEW k \in 0..MsgLen,
         k = 0 \/ Replies(r, hs) = Len(ids),
         v.req = w.req \o Units(id, 0, k)
  PROVE  HandlerOk(r, v, Append(ids, id), hs, rs)
<1> DEFINE a == Append(ids, id)
<1>1. /\ r.left = <<>> /\ r.cached = <<>> /\ ~r.errno /\ DeliveredFrom(ids, hs)
      /\ ids # <<>>
  BY DEF HandlerOk
<1>2. /\ Len(ids) \in Nat /\ Len(hs) \in Nat /\ Len(hs) <= Len(ids)
      /\ a # <<>> /\ Len(a) = Len(ids) + 1 /\ a[Len(ids) + 1] = id
      /\ \A i \in 1..Len(ids) : a[i] = ids[i]
  BY <1>1, AppendProperties, LenProperties DEF DeliveredFrom
<1>3. DeliveredFrom(a, hs)
  BY <1>1, DeliveredSent
<1>4. 0 \in 0..MsgLen /\ k \in 0..MsgLen /\ w.req \in Seq(Unit)
  BY HttpAssumption DEF Wire
<1>5. Units(id, 0, k) \in Seq(Unit) /\ Units(id, 0, 0) = <<>>
  BY <1>4, UnitsLaws, UnitsEnds
<1>6. k = 0 => v.req = w.req
  BY <1>4, <1>5, ConcatEmptySeq
<1>7. w.req = <<>> => v.req = Units(id, 0, k)
  BY <1>5, ConcatEmptySeq
<1> HIDE DEF a
<1>8. ASSUME r.at = "reading" PROVE Expects(r, v.req, a, hs)
  <2>1. Expects(r, w.req, ids, hs)
    BY <1>8 DEF HandlerOk
  <2>2. CASE Len(hs) < Len(ids)
    <3>1. k = 0 /\ v.req = w.req
      BY <1>2, <1>6, <1>8, <2>2 DEF Replies
    <3>2. Len(hs) + 1 \in 1..Len(ids) /\ Len(hs) < Len(a)
      BY <1>2, <2>2
    <3>3. a[Len(hs) + 1] = ids[Len(hs) + 1]
      BY <1>2, <3>2
    <3> QED
      BY <2>1, <2>2, <3>1, <3>2, <3>3 DEF Expects
  <2>3. CASE ~(Len(hs) < Len(ids))
    <3>1. Len(hs) = Len(ids) /\ Len(hs) < Len(a)
      BY <1>2, <2>3
    <3>2. r.pos = 0 /\ r.msg = <<>> /\ w.req = <<>>
      BY <2>1, <2>3 DEF Expects
    <3>3. a[Len(hs) + 1] = id /\ k \in r.pos..MsgLen /\ v.req = Units(id, 0, k)
      BY <1>2, <1>4, <1>7, <3>1, <3>2
    <3> QED
      BY <1>5, <3>1, <3>2, <3>3 DEF Expects
  <2> QED
    BY <2>2, <2>3
<1>9. ASSUME r.at = "handling"
      PROVE  /\ hs # <<>> /\ r.msg = Message(a[Len(hs)]) /\ r.pos = 0 /\ v.req = <<>>
  <2>1. hs # <<>> /\ r.msg = Message(ids[Len(hs)]) /\ r.pos = 0 /\ w.req = <<>>
    BY <1>9 DEF HandlerOk
  <2>2. Len(hs) \in Nat \ {0}
    BY <2>1, EmptySeq
  <2>3. k = 0 /\ v.req = w.req
    BY <1>2, <1>6, <1>9 DEF Replies
  <2>4. Len(hs) \in 1..Len(ids)
    BY <1>2, <2>2
  <2> QED
    BY <1>2, <2>1, <2>3, <2>4
<1>10. HandlerOk(r, v, a, hs, rs)
  BY <1>1, <1>2, <1>3, <1>8, <1>9 DEF HandlerOk
<1> QED
  BY <1>10 DEF a

-----------------------------------------------------------------------------
(* The inductive invariant.  Connections are opened one after the other;   *)
(* get_response keeps the rest it was left with.  On every connection the  *)
(* handler is where its stream is, and so is the client, unless a call of  *)
(* get_response has failed; then its parser may be out of step, and ends   *)
(* in a refusal before a second message is taken from the stream.          *)
Opened ==
    /\ \E t \in 0..MaxConns : {n \in Conn : requests[n] # <<>>} = 1..t
    /\ conn # 0 => requests[conn] # <<>>

ClientInv ==
    /\ client.cached = client.left
    /\ Lost(client) \/ client.left = <<>>
    /\ ~failed => /\ ~client.errno /\ client.left = <<>>
                  /\ client.at = "idle" => client.pos = 0

ConnInv(n) ==
    /\ HandlerOk(server[n], wire[n], requests[n], handled[n], responses[n])
    /\ wire[n].client =>
          /\ conn = n
          /\ Talks(client, wire[n].rsp, Replies(server[n], handled[n]),
                   requests[n], responses[n])
    /\ ~failed =>
          /\ DeliveredFrom(requests[n], responses[n])
          /\ wire[n].client =>
                InStep(client, wire[n].rsp, Replies(server[n], handled[n]),
                       requests[n], responses[n])

HttpInv ==
    /\ HttpTypes
    /\ ~Pipelining => Opened /\ ClientInv /\ \A n \in Conn : ConnInv(n)

LEMMA HttpInit == Init => HttpInv
<1> SUFFICES ASSUME Init PROVE HttpInv
  OBVIOUS
<1>1. Opened
  <2>1. {n \in Conn : requests[n] # <<>>} = 1..0
    BY DEF Init
  <2>2. conn = 0 /\ 0 \in 0..MaxConns
    BY HttpAssumption DEF Init
  <2> QED
    BY <2>1, <2>2 DEF Opened
<1>2. ClientInv
  BY DEF Init, NewReader, ClientInv
<1>3. ASSUME NEW n \in Conn PROVE ConnInv(n)
  <2>1. DeliveredFrom(<<>>, <<>>)
    BY DEF DeliveredFrom
  <2>2. /\ server[n] = NewReader /\ requests[n] = <<>> /\ handled[n] = <<>>
        /\ responses[n] = <<>> /\ wire[n].req = <<>> /\ wire[n].rsp = <<>> /\ ~wire[n].client
    BY DEF Init
  <2>3. HandlerOk(server[n], wire[n], requests[n], handled[n], responses[n])
    BY <2>1, <2>2 DEF HandlerOk, NewReader
  <2> QED
    BY <2>1, <2>2, <2>3 DEF ConnInv
<1> QED
  BY <1>1, <1>2, <1>3, TypesInit DEF HttpInv

(* A connection an action leaves alone, and one that is not open to the    *)
(* client afterwards.                                                      *)
LEMMA SameConn ==
  ASSUME NEW n \in Conn, ConnInv(n),
         server'[n] = server[n], wire'[n] = wire[n], handled'[n] = handled[n],
         UNCHANGED <<conn, client, requests, responses, failed>>
  PROVE  ConnInv(n)'
  BY DEF ConnInv

LEMMA ClosedConn ==
  ASSUME NEW n \in Conn, ConnInv(n),
         server'[n] = server[n], handled'[n] = handled[n],
         requests'[n] = requests[n], responses'[n] = responses[n],
         wire'[n].req = wire[n].req, wire'[n].rsp = wire[n].rsp, ~wire'[n].client,
         failed => failed'
  PROVE  ConnInv(n)'
<1>1. HandlerOk(server[n], wire[n], requests[n], handled[n], responses[n])
  BY DEF ConnInv
<1>2. HandlerOk(server'[n], wire'[n], requests'[n], handled'[n], responses'[n])
  BY <1>1 DEF HandlerOk
<1>3. ~failed' => DeliveredFrom(requests'[n], responses'[n])
  BY DEF ConnInv
<1> QED
  BY <1>2, <1>3 DEF ConnInv

LEMMA ConnTypes ==
  ASSUME HttpTypes, NEW n \in Conn
  PROVE  /\ client \in Reader /\ server[n] \in Reader /\ wire[n] \in Wire
         /\ wire[n].req \in Seq(Unit) /\ wire[n].rsp \in Seq(Unit)
         /\ requests[n] \in Seq(1..MaxRequests)
         /\ handled[n] \in Seq(Seq(Unit)) /\ responses[n] \in Seq(Seq(Unit))
<1>1. /\ client \in Reader /\ server[n] \in Reader /\ wire[n] \in Wire
      /\ requests[n] \in Seq(1..MaxRequests)
      /\ handled[n] \in Seq(Seq(Unit)) /\ responses[n] \in Seq(Seq(Unit))
  BY DEF HttpTypes, TypeOK
<1> QED
  BY <1>1 DEF Wire

LEMMA RepliesLaws ==
  ASSUME HttpTypes, NEW n \in Conn, ConnInv(n)
  PROVE  Replies(server[n], handled[n]) \in Nat
<1>1. handled[n] \in Seq(Seq(Unit)) /\ (server[n].at = "handling" => handled[n] # <<>>)
  BY ConnTypes DEF ConnInv, HandlerOk
<1>2. Len(handled[n]) \in Nat /\ (server[n].at = "handling" => Len(handled[n]) # 0)
  BY <1>1, EmptySeq, LenProperties
<1> QED
  BY <1>2 DEF Replies

(* A handler's step that the client does not see.                          *)
LEMMA UnseenStep ==
  ASSUME NEW n \in Conn, ConnInv(n),
         UNCHANGED <<conn, client, requests, responses, failed>>,
         wire'[n].rsp = wire[n].rsp, wire'[n].client = wire[n].client,
         Replies(server'[n], handled'[n]) = Replies(server[n], handled[n]),
         HandlerOk(server'[n], wire'[n], requests[n], handled'[n], responses[n])
  PROVE  ConnInv(n)'
  BY DEF ConnInv

LEMMA HandlerStep ==
  ASSUME HttpInv, ~Pipelining, NEW n \in Conn, Handler(n)
  PROVE  ConnInv(n)'
<1>1. /\ HttpTypes /\ ConnInv(n)
      /\ HandlerOk(server[n], wire[n], requests[n], handled[n], responses[n])
  BY DEF HttpInv, ConnInv
<1>2. /\ client \in Reader /\ server[n] \in Reader /\ wire[n] \in Wire
      /\ server \in [Conn -> Reader] /\ wire \in [Conn -> Wire]
      /\ handled \in [Conn -> Seq(Seq(Unit))]
      /\ wire[n].req \in Seq(Unit) /\ wire[n].rsp \in Seq(Unit)
      /\ requests[n] \in Seq(1..MaxRequests)
      /\ handled[n] \in Seq(Seq(Unit)) /\ responses[n] \in Seq(Seq(Unit))
      /\ Len(handled[n]) \in Nat
  BY <1>1, ConnTypes, LenProperties DEF HttpTypes, TypeOK
<1>3. ASSUME NEW s \in Input(server[n], wire[n].req, wire[n].client),
             HandlerReads(n, s) \/ handle_one_request(n, s)
      PROVE  ConnInv(n)'
  <2> DEFINE i == Iterated(server[n], s)
             rest == Rest(server[n], wire[n].req, s)
             v == [wire[n] EXCEPT !.req = rest]
  <2>1. /\ server[n].at = "reading"
        /\ wire' = [wire EXCEPT ![n].req = rest]
        /\ UNCHANGED <<conn, client, requests, responses, failed>>
        /\ HandlerReads(n, s) => Outcome(server[n], s) = "more"
        /\ handle_one_request(n, s) => Outcome(server[n], s) = "complete"
    BY <1>3 DEF HandlerReads, handle_one_request, HandlerParses
  <2>2. /\ s # <<>>
        /\ HandlerReads(n, s) => ~Completes(server[n], s)
        /\ handle_one_request(n, s) => Completes(server[n], s)
    BY <1>3, <2>1, OutcomeLaws
  <2>3. s \in Seq(Unit) /\ i \in Reader /\ i.at = "reading" /\ i.msg \in Seq(Unit)
    <3>1. s \in Seq(Unit)
      BY <1>2, <1>3, InputLaws
    <3>2. i \in Reader /\ i.at = "reading"
      BY <1>2, <2>1, <3>1, IteratedLaws
    <3> QED
      BY <3>1, <3>2 DEF Reader
  <2>4. v.req = rest /\ v.rsp = wire[n].rsp /\ v.client = wire[n].client /\ wire'[n] = v
    <3> HIDE DEF rest
    <3> QED
      BY <1>2, <2>1 DEF Wire
  <2> HIDE DEF v
  <2>5. /\ ~Completes(server[n], s) =>
              HandlerOk(i, v, requests[n], handled[n], responses[n])
        /\ Completes(server[n], s) =>
              HandlerOk([i EXCEPT !.at = "handling"], v, requests[n],
                        Append(handled[n], i.msg), responses[n])
    BY <1>1, <1>2, <1>3, <2>1, <2>2, <2>4, HandlerCollects
  <2>6. CASE HandlerReads(n, s)
    <3>1. server'[n] = i /\ handled'[n] = handled[n]
      BY <1>2, <2>6 DEF HandlerReads
    <3>2. Replies(server'[n], handled'[n]) = Replies(server[n], handled[n])
      BY <2>1, <2>3, <3>1 DEF Replies
    <3> HIDE DEF i
    <3> QED
      BY <1>1, <2>1, <2>2, <2>4, <2>5, <2>6, <3>1, <3>2, UnseenStep
  <2>7. CASE handle_one_request(n, s)
    <3> HIDE DEF i
    <3>1. /\ server'[n] = [i EXCEPT !.at = "handling"]
          /\ handled'[n] = Append(handled[n], i.msg)
      BY <1>2, <2>7 DEF handle_one_request, i
    <3>2. server'[n].at = "handling" /\ Len(handled'[n]) = Len(handled[n]) + 1
      BY <1>2, <2>3, <3>1, AppendProperties DEF Reader
    <3>3. Replies(server'[n], handled'[n]) = Replies(server[n], handled[n])
      BY <1>2, <2>1, <3>2 DEF Replies
    <3> QED
      BY <1>1, <2>1, <2>2, <2>4, <2>5, <2>7, <3>1, <3>3, UnseenStep
  <2> QED
    BY <1>3, <2>6, <2>7
<1>4. CASE Reply(n) \/ ReplyAndClose(n)
  <2> DEFINE h == Len(handled[n])
             p == Replies(server[n], handled[n])
             id == requests[n][h]
             v == wire'[n]
  <2>1. server[n].at = "handling" /\ UNCHANGED <<conn, client, requests, handled, responses, failed>>
    BY <1>4 DEF Reply, ReplyAndClose
  <2>2. /\ v.req = wire[n].req /\ v.rsp = wire[n].rsp \o Response(n)
        /\ v.client = wire[n].client
    <3>1. CASE Reply(n)
      BY <1>2, <3>1 DEF Reply, Wire
    <3>2. CASE ReplyAndClose(n)
      BY <1>2, <3>2 DEF ReplyAndClose, Wire
    <3> QED
      BY <1>4, <3>1, <3>2
  <2> HIDE DEF v
  <2>3. /\ h \in 1..Len(requests[n])
        /\ Response(n) = Message(id)
        /\ HandlerOk(read_message([server[n] EXCEPT !.cached = server[n].left]), v,
                     requests[n], handled[n], responses[n])
        /\ HandlerOk([server[n] EXCEPT !.at = "closed"], v,
                     requests[n], handled[n], responses[n])
    BY <1>1, <1>2, <2>1, <2>2, HandlerReplies DEF Response
  <2>4. /\ HandlerOk(server'[n], v, requests[n], handled[n], responses[n])
        /\ server'[n].at # "handling"
    <3>1. CASE Reply(n)
      <4>1. server'[n] = read_message([server[n] EXCEPT !.cached = server[n].left])
        BY <1>2, <3>1 DEF Reply
      <4>2. server'[n].at = "reading"
        <5>1. [server[n] EXCEPT !.cached = server[n].left] \in Reader
          BY <1>2, FieldLaws
        <5> QED
          BY <4>1, <5>1, ReaderLaws
      <4> QED
        BY <2>3, <4>1, <4>2
    <3>2. CASE ReplyAndClose(n)
      <4>1. server'[n] = [server[n] EXCEPT !.at = "closed"]
        BY <1>2, <3>2 DEF ReplyAndClose
      <4>2. server'[n].at = "closed"
        BY <1>2, <4>1 DEF Reader
      <4> QED
        BY <2>3, <4>1, <4>2
    <3> QED
      BY <1>4, <3>1, <3>2
  <2>5. p \in Nat /\ p + 1 = h /\ Replies(server'[n], handled[n]) = p + 1
    BY <1>1, <1>2, <2>1, <2>4, RepliesLaws DEF Replies
  <2>6. id = requests[n][p + 1] /\ p + 1 \in 1..Len(requests[n])
    BY <2>3, <2>5
  <2> HIDE DEF p, id
  <2>7. ASSUME Talks(client, wire[n].rsp, p, requests[n], responses[n])
        PROVE  /\ Talks(client, v.rsp, p + 1, requests[n], responses[n])
               /\ InStep(client, wire[n].rsp, p, requests[n], responses[n]) =>
                     InStep(client, v.rsp, p + 1, requests[n], responses[n])
    BY <1>2, <2>2, <2>3, <2>5, <2>6, <2>7, TalkReplied
  <2> QED
    BY <1>1, <2>1, <2>2, <2>4, <2>5, <2>7 DEF ConnInv, p, v
<1>5. CASE HandlerCloses(n)
  <2>1. /\ server[n].at = "reading" /\ server'[n] = [server[n] EXCEPT !.at = "closed"]
        /\ wire'[n] = [wire[n] EXCEPT !.server = FALSE]
        /\ UNCHANGED <<conn, client, requests, handled, responses, failed>>
    BY <1>2, <1>5 DEF HandlerCloses
  <2>2. /\ server'[n].at = "closed" /\ server'[n].left = server[n].left
        /\ server'[n].cached = server[n].cached /\ server'[n].errno = server[n].errno
        /\ wire'[n].rsp = wire[n].rsp /\ wire'[n].client = wire[n].client
    BY <1>2, <2>1 DEF Reader, Wire
  <2>3. HandlerOk(server'[n], wire'[n], requests[n], handled'[n], responses[n])
    BY <1>1, <2>1, <2>2 DEF HandlerOk
  <2>4. Replies(server'[n], handled'[n]) = Replies(server[n], handled[n])
    BY <2>1, <2>2 DEF Replies
  <2> QED
    BY <1>1, <2>1, <2>2, <2>3, <2>4, UnseenStep
<1> QED
  BY <1>3, <1>4, <1>5 DEF Handler

LEMMA HandlerSteps ==
  ASSUME HttpInv, ~Pipelining, NEW n \in Conn, Handler(n)
  PROVE  Opened' /\ ClientInv' /\ \A m \in Conn : ConnInv(m)'
<1>1. UNCHANGED <<conn, client, requests, responses, failed>>
  BY DEF Handler, HandlerReads, handle_one_request, HandlerParses, Reply,
         ReplyAndClose, HandlerCloses
<1>2. ASSUME NEW m \in Conn, m # n
      PROVE  server'[m] = server[m] /\ wire'[m] = wire[m] /\ handled'[m] = handled[m]
  <2>1. /\ server \in [Conn -> Reader] /\ wire \in [Conn -> Wire]
        /\ handled \in [Conn -> Seq(Seq(Unit))]
    BY DEF HttpInv, HttpTypes, TypeOK
  <2> QED
    BY <1>2, <2>1 DEF Handler, HandlerReads, handle_one_request, HandlerParses, Reply,
         ReplyAndClose, HandlerCloses
<1>3. Opened /\ ClientInv /\ \A m \in Conn : ConnInv(m)
  BY DEF HttpInv
<1>4. ASSUME NEW m \in Conn PROVE ConnInv(m)'
  BY <1>1, <1>2, <1>3, HandlerStep, SameConn
<1>5. Opened' /\ ClientInv'
  BY <1>1, <1>3 DEF Opened, ClientInv
<1> QED
  BY <1>4, <1>5

-----------------------------------------------------------------------------
(* What holds before a step of the client.                                 *)
LEMMA ClientFacts ==
  ASSUME HttpInv, ~Pipelining
  PROVE  /\ HttpTypes /\ Opened /\ ClientInv /\ client \in Reader
         /\ conn # 0 => conn \in Conn
         /\ wire \in [Conn -> Wire] /\ responses \in [Conn -> Seq(Seq(Unit))]
         /\ \A m \in Conn : ConnInv(m) /\ (m # conn => ~wire[m].client)
<1>1. HttpTypes /\ Opened /\ ClientInv /\ \A m \in Conn : ConnInv(m)
  BY DEF HttpInv
<1>2. \A m \in Conn : m # conn => ~wire[m].client
  BY <1>1 DEF ConnInv
<1>3. conn # 0 => conn \in Conn
  BY <1>1, HttpAssumption DEF HttpTypes, TypeOK, Conn
<1> QED
  BY <1>1, <1>2, <1>3 DEF HttpTypes, TypeOK

LEMMA BeginStep ==
  ASSUME HttpInv, ~Pipelining, get_response
  PROVE  Opened' /\ ClientInv' /\ \A m \in Conn : ConnInv(m)'
<1>1. /\ HttpTypes /\ Opened /\ ClientInv /\ client \in Reader
      /\ \A m \in Conn : ConnInv(m)
  BY ClientFacts
<1>2. /\ client.at = "idle" /\ client' = read_message(client)
      /\ UNCHANGED <<conn, server, wire, requests, handled, responses, failed>>
  BY DEF get_response
<1>3. Opened'
  BY <1>1, <1>2 DEF Opened
<1>4. /\ client'.at = "reading" /\ client'.left = client.cached
      /\ client'.pos = client.pos /\ client'.errno = client.errno
      /\ client'.cached = client.cached
  BY <1>1, <1>2, ReaderLaws
<1>5. ClientInv'
  BY <1>1, <1>2, <1>4 DEF ClientInv, Lost
<1>6. ASSUME NEW m \in Conn PROVE ConnInv(m)'
  <2>1. CASE ~wire[m].client
    BY <1>1, <1>2, <2>1, ClosedConn
  <2>2. CASE wire[m].client
    <3> DEFINE n == Replies(server[m], handled[m])
    <3>1. Talks(client, wire[m].rsp, n, requests[m], responses[m]) /\ n \in Nat
      BY <1>1, <2>2, RepliesLaws DEF ConnInv
    <3>2. client.cached = client.left
      BY <1>1 DEF ClientInv
    <3>3. /\ wire[m].rsp \in Seq(Unit) /\ requests[m] \in Seq(1..MaxRequests)
          /\ responses[m] \in Seq(Seq(Unit))
      BY <1>1, ConnTypes
    <3> HIDE DEF n
    <3>4. /\ Talks(client', wire[m].rsp, n, requests[m], responses[m])
          /\ InStep(client, wire[m].rsp, n, requests[m], responses[m]) =>
                InStep(client', wire[m].rsp, n, requests[m], responses[m])
      BY <1>1, <1>2, <3>1, <3>2, <3>3, TalkBegins
    <3> QED
      BY <1>1, <1>2, <2>2, <3>4 DEF ConnInv, n
  <2> QED
    BY <2>1, <2>2
<1> QED
  BY <1>3, <1>5, <1>6

(* An iteration that parses something takes it from the open connection.   *)
LEMMA ParseFacts ==
  ASSUME HttpInv, ~Pipelining, conn # 0,
         NEW s \in Input(client, wire[conn].rsp, wire[conn].server),
         NEW outcome, ClientParses(s, outcome), outcome # "error"
  PROVE  LET n == Replies(server[conn], handled[conn])
         IN /\ conn \in Conn /\ client.at = "reading" /\ wire[conn].client
            /\ client \in Reader /\ wire[conn] \in Wire
            /\ wire[conn].rsp \in Seq(Unit)
            /\ requests[conn] \in Seq(1..MaxRequests)
            /\ responses[conn] \in Seq(Seq(Unit))
            /\ n \in Nat /\ Outcome(client, s) = outcome
            /\ Talks(client, wire[conn].rsp, n, requests[conn], responses[conn])
            /\ server[conn].at # "idle" /\ client.left = <<>>
            /\ UNCHANGED <<conn, server, requests, handled>>
<1> DEFINE n == Replies(server[conn], handled[conn])
<1>1. /\ client.at = "reading" /\ Outcome(client, s) = outcome
      /\ client.left = <<>> => wire[conn].client
      /\ UNCHANGED <<conn, server, requests, handled>>
  BY DEF ClientParses
<1>2. HttpTypes /\ ClientInv /\ conn \in Conn /\ ConnInv(conn)
  BY ClientFacts
<1>3. /\ client \in Reader /\ wire[conn] \in Wire /\ wire[conn].rsp \in Seq(Unit)
      /\ requests[conn] \in Seq(1..MaxRequests) /\ responses[conn] \in Seq(Seq(Unit))
      /\ n \in Nat
  BY <1>2, ConnTypes, RepliesLaws
<1>4. ~Refuses(client, s)
  BY <1>1 DEF Outcome
<1>5. ~Lost(client)
  BY <1>3, <1>4, Refused
<1>6. client.left = <<>> /\ wire[conn].client
  BY <1>1, <1>2, <1>5 DEF ClientInv
<1>7. /\ Talks(client, wire[conn].rsp, n, requests[conn], responses[conn])
      /\ server[conn].at # "idle"
  BY <1>2, <1>6 DEF ConnInv, HandlerOk
<1> QED
  BY <1>1, <1>2, <1>3, <1>6, <1>7

LEMMA ReadStep ==
  ASSUME HttpInv, ~Pipelining, conn # 0,
         NEW s \in Input(client, wire[conn].rsp, wire[conn].server), ClientReads(s)
  PROVE  Opened' /\ ClientInv' /\ \A m \in Conn : ConnInv(m)'
<1> DEFINE n == Replies(server[conn], handled[conn])
           i == Iterated(client, s)
           rest == Rest(client, wire[conn].rsp, s)
<1>1. /\ HttpTypes /\ Opened /\ ClientInv /\ wire \in [Conn -> Wire]
      /\ \A m \in Conn : ConnInv(m) /\ (m # conn => ~wire[m].client)
  BY ClientFacts
<1>2. /\ ClientParses(s, "more") /\ client' = i
      /\ wire' = [wire EXCEPT ![conn].rsp = rest] /\ UNCHANGED <<responses, failed>>
  BY DEF ClientReads
<1>3. /\ conn \in Conn /\ client.at = "reading" /\ wire[conn].client
      /\ client \in Reader /\ wire[conn] \in Wire /\ wire[conn].rsp \in Seq(Unit)
      /\ requests[conn] \in Seq(1..MaxRequests) /\ responses[conn] \in Seq(Seq(Unit))
      /\ n \in Nat /\ Outcome(client, s) = "more"
      /\ Talks(client, wire[conn].rsp, n, requests[conn], responses[conn])
      /\ server[conn].at # "idle" /\ client.left = <<>>
      /\ UNCHANGED <<conn, server, requests, handled>>
  BY <1>2, ParseFacts
<1>4. /\ Talks(i, rest, n, requests[conn], responses[conn]) /\ i.left = <<>>
      /\ InStep(client, wire[conn].rsp, n, requests[conn], responses[conn]) =>
            InStep(i, rest, n, requests[conn], responses[conn])
  <2> HIDE DEF n
  <2> QED
    BY <1>3, TalkReads
<1>5. i.at = "reading" /\ i.errno = client.errno /\ i.cached = client.cached
  <2>1. s \in Seq(Unit)
    BY <1>3, InputLaws
  <2> QED
    BY <1>3, <2>1, IteratedLaws
<1> HIDE DEF i, rest
<1>6. Opened'
  BY <1>1, <1>3 DEF Opened
<1>7. ClientInv'
  BY <1>1, <1>2, <1>3, <1>4, <1>5 DEF ClientInv
<1>8. ASSUME NEW m \in Conn PROVE ConnInv(m)'
  <2>1. CASE m # conn
    <3>1. wire'[m] = wire[m]
      BY <1>1, <1>2, <2>1
    <3> QED
      BY <1>1, <1>2, <1>3, <2>1, <3>1, ClosedConn
  <2>2. CASE m = conn
    <3>1. wire'[m].req = wire[m].req /\ wire'[m].rsp = rest /\ wire'[m].client
      BY <1>1, <1>2, <1>3, <2>2 DEF Wire
    <3>2. HandlerOk(server[m], wire[m], requests[m], handled[m], responses[m])
      BY <1>1 DEF ConnInv
    <3>3. HandlerOk(server[m], wire'[m], requests[m], handled[m], responses[m])
      BY <1>3, <2>2, <3>1, <3>2 DEF HandlerOk
    <3> QED
      BY <1>1, <1>2, <1>3, <1>4, <2>2, <3>1, <3>3 DEF ConnInv
  <2> QED
    BY <2>1, <2>2
<1> QED
  BY <1>6, <1>7, <1>8

LEMMA ReturnStep ==
  ASSUME HttpInv, ~Pipelining, conn # 0,
         NEW s \in Input(client, wire[conn].rsp, wire[conn].server), ClientReturns(s)
  PROVE  Opened' /\ ClientInv' /\ \A m \in Conn : ConnInv(m)'
<1> DEFINE n == Replies(server[conn], handled[conn])
           i == Iterated(client, s)
           rest == Rest(client, wire[conn].rsp, s)
           d == [i EXCEPT !.at = "idle", !.cached = i.left]
           ms == Append(responses[conn], i.msg)
<1>1. /\ HttpTypes /\ Opened /\ ClientInv
      /\ wire \in [Conn -> Wire] /\ responses \in [Conn -> Seq(Seq(Unit))]
      /\ \A m \in Conn : ConnInv(m) /\ (m # conn => ~wire[m].client)
  BY ClientFacts
<1>2. /\ ClientParses(s, "complete") /\ client' = d
      /\ responses' = [responses EXCEPT ![conn] = ms]
      /\ wire' = [wire EXCEPT ![conn].rsp = rest] /\ UNCHANGED failed
  BY DEF ClientReturns
<1>3. /\ conn \in Conn /\ client.at = "reading" /\ wire[conn].client
      /\ client \in Reader /\ wire[conn] \in Wire /\ wire[conn].rsp \in Seq(Unit)
      /\ requests[conn] \in Seq(1..MaxRequests) /\ responses[conn] \in Seq(Seq(Unit))
      /\ n \in Nat /\ Outcome(client, s) = "complete"
      /\ Talks(client, wire[conn].rsp, n, requests[conn], responses[conn])
      /\ server[conn].at # "idle" /\ client.left = <<>>
      /\ UNCHANGED <<conn, server, requests, handled>>
  BY <1>2, ParseFacts
<1>4. /\ Talks(d, rest, n, requests[conn], ms)
      /\ d.at = "idle" /\ d.pos = 0 /\ d.cached = d.left
      /\ Lost(d) \/ d.left = <<>>
      /\ InStep(client, wire[conn].rsp, n, requests[conn], responses[conn]) =>
            /\ InStep(d, rest, n, requests[conn], ms)
            /\ Len(responses[conn]) < Len(requests[conn])
            /\ i.msg = Message(requests[conn][Len(responses[conn]) + 1])
  <2> HIDE DEF n
  <2>1. Returned(client, wire[conn].rsp, n, requests[conn], responses[conn], s)
    BY <1>3, TalkReturns
  <2> QED
    BY <2>1 DEF Returned
<1>5. i \in Reader /\ i.msg \in Seq(Unit)
  <2>1. s \in Seq(Unit)
    BY <1>3, InputLaws
  <2>2. i \in Reader
    BY <1>3, <2>1, IteratedLaws
  <2> QED
    BY <2>2 DEF Reader
<1> HIDE DEF i, rest
<1>6. Opened'
  BY <1>1, <1>3 DEF Opened
<1>7. ASSUME ~failed
      PROVE  /\ InStep(d, rest, n, requests[conn], ms)
             /\ DeliveredFrom(requests[conn], ms)
  <2>1. /\ InStep(client, wire[conn].rsp, n, requests[conn], responses[conn])
        /\ DeliveredFrom(requests[conn], responses[conn])
    BY <1>1, <1>3, <1>7 DEF ConnInv
  <2> QED
    BY <1>3, <1>4, <1>5, <2>1, DeliveredMore
<1> HIDE DEF d, ms
<1>8. ClientInv'
  <2>1. ~failed' => ~client'.errno /\ client'.left = <<>>
    BY <1>2, <1>7 DEF InStep
  <2> QED
    BY <1>2, <1>4, <2>1 DEF ClientInv
<1>9. ASSUME NEW m \in Conn PROVE ConnInv(m)'
  <2>1. CASE m # conn
    <3>1. wire'[m] = wire[m] /\ responses'[m] = responses[m]
      BY <1>1, <1>2, <2>1
    <3> QED
      BY <1>1, <1>2, <1>3, <2>1, <3>1, ClosedConn
  <2>2. CASE m = conn
    <3>1. /\ wire'[m].req = wire[m].req /\ wire'[m].rsp = rest /\ wire'[m].client
          /\ responses'[m] = ms
      BY <1>1, <1>2, <1>3, <2>2 DEF Wire
    <3>2. HandlerOk(server[m], wire[m], requests[m], handled[m], responses[m])
      BY <1>1 DEF ConnInv
    <3>3. HandlerOk(server[m], wire'[m], requests[m], handled[m], ms)
      BY <1>3, <2>2, <3>1, <3>2 DEF HandlerOk
    <3> QED
      BY <1>2, <1>3, <1>4, <1>7, <2>2, <3>1, <3>3 DEF ConnInv
  <2> QED
    BY <2>1, <2>2
<1> QED
  BY <1>6, <1>8, <1>9

LEMMA EndStep ==
  ASSUME HttpInv, ~Pipelining, conn # 0,
         NEW s \in Input(client, wire[conn].rsp, wire[conn].server), ClientEof(s)
  PROVE  Opened' /\ ClientInv' /\ \A m \in Conn : ConnInv(m)'
<1> DEFINE n == Replies(server[conn], handled[conn])
           d == [client EXCEPT !.at = "idle", !.cached = client.left]
<1>1. /\ HttpTypes /\ Opened /\ ClientInv
      /\ \A m \in Conn : ConnInv(m) /\ (m # conn => ~wire[m].client)
  BY ClientFacts
<1>2. ClientParses(s, "eof") /\ client' = d /\ UNCHANGED <<wire, responses, failed>>
  BY DEF ClientEof
<1>3. /\ conn \in Conn /\ wire[conn].client /\ client \in Reader
      /\ wire[conn].rsp \in Seq(Unit)
      /\ requests[conn] \in Seq(1..MaxRequests) /\ responses[conn] \in Seq(Seq(Unit))
      /\ n \in Nat /\ Outcome(client, s) = "eof"
      /\ Talks(client, wire[conn].rsp, n, requests[conn], responses[conn])
      /\ UNCHANGED <<conn, server, requests, handled>>
  BY <1>2, ParseFacts
<1>4. /\ Talks(d, wire[conn].rsp, n, requests[conn], responses[conn])
      /\ InStep(d, wire[conn].rsp, n, requests[conn], responses[conn])
      /\ d.pos = 0 /\ d.cached = d.left /\ d.left = <<>> /\ d.errno = client.errno
  <2> HIDE DEF n
  <2>1. Ended(client, wire[conn].rsp, n, requests[conn], responses[conn])
    BY <1>3, TalkEnds
  <2> QED
    BY <2>1 DEF Ended
<1> HIDE DEF d
<1>5. Opened'
  BY <1>1, <1>3 DEF Opened
<1>6. ClientInv'
  BY <1>1, <1>2, <1>4 DEF ClientInv
<1>7. ASSUME NEW m \in Conn PROVE ConnInv(m)'
  <2>1. CASE m # conn
    BY <1>1, <1>2, <1>3, <2>1, ClosedConn
  <2>2. CASE m = conn
    BY <1>1, <1>2, <1>3, <1>4, <2>2 DEF ConnInv
  <2> QED
    BY <2>1, <2>2
<1> QED
  BY <1>5, <1>6, <1>7

(* get_response fails, or the client is closed: no connection is open.     *)
LEMMA AllClosed ==
  ASSUME HttpInv, ~Pipelining, wire' = [wire EXCEPT ![conn].client = FALSE],
         UNCHANGED <<server, requests, handled, responses>>, failed => failed'
  PROVE  \A m \in Conn : ConnInv(m)'
<1>1. /\ wire \in [Conn -> Wire]
      /\ \A m \in Conn : ConnInv(m) /\ (m # conn => ~wire[m].client)
  BY ClientFacts
<1> SUFFICES ASSUME NEW m \in Conn PROVE ConnInv(m)'
  OBVIOUS
<1>2. wire'[m].req = wire[m].req /\ wire'[m].rsp = wire[m].rsp /\ ~wire'[m].client
  <2>1. CASE m = conn
    BY <1>1, <2>1 DEF Wire
  <2>2. CASE m # conn
    BY <1>1, <2>2
  <2> QED
    BY <2>1, <2>2
<1> QED
  BY <1>1, <1>2, ClosedConn

LEMMA FailStep ==
  ASSUME HttpInv, ~Pipelining,
         \/ ClientRecvFails
         \/ close
         \/ \E s \in Input(client, wire[conn].rsp, wire[conn].server) : ClientParseFails(s)
  PROVE  Opened' /\ ClientInv' /\ \A m \in Conn : ConnInv(m)'
<1>1. Opened /\ ClientInv /\ client \in Reader
  BY ClientFacts
<1>2. CASE ClientRecvFails
  <2>1. /\ client' = [client EXCEPT !.at = "idle"] /\ failed'
        /\ wire' = [wire EXCEPT ![conn].client = FALSE]
        /\ UNCHANGED <<conn, server, requests, handled, responses>>
    BY <1>2 DEF ClientRecvFails
  <2>2. /\ client'.cached = client.cached /\ client'.left = client.left
        /\ client'.pos = client.pos /\ client'.errno = client.errno
    BY <1>1, <2>1 DEF Reader
  <2>3. Opened' /\ ClientInv'
    BY <1>1, <2>1, <2>2 DEF Opened, ClientInv, Lost
  <2> QED
    BY <2>1, <2>3, AllClosed
<1>3. CASE close
  <2>1. /\ conn' = 0 /\ wire' = [wire EXCEPT ![conn].client = FALSE]
        /\ UNCHANGED <<client, server, requests, handled, responses, failed>>
    BY <1>3 DEF close
  <2>2. Opened' /\ ClientInv'
    BY <1>1, <2>1 DEF Opened, ClientInv
  <2> QED
    BY <2>1, <2>2, AllClosed
<1>4. ASSUME NEW s, ClientParseFails(s)
      PROVE  Opened' /\ ClientInv' /\ \A m \in Conn : ConnInv(m)'
  <2>1. /\ client' = [client EXCEPT !.at = "idle", !.errno = TRUE] /\ failed'
        /\ wire' = [wire EXCEPT ![conn].client = FALSE]
        /\ UNCHANGED <<conn, server, requests, handled, responses>>
    BY <1>4 DEF ClientParseFails, ClientParses
  <2>2. client'.cached = client.cached /\ client'.left = client.left /\ client'.errno
    BY <1>1, <2>1 DEF Reader
  <2>3. Opened' /\ ClientInv'
    BY <1>1, <2>1, <2>2 DEF Opened, ClientInv, Lost
  <2> QED
    BY <2>1, <2>3, AllClosed
<1> QED
  BY <1>2, <1>3, <1>4

(* A new connection is one that was never used.                            *)
LEMMA FreshConn ==
  ASSUME HttpTypes, Opened, conn = 0, NEW n \in Conn, n = Target
  PROVE  /\ requests[n] = <<>>
         /\ \E t \in 0..MaxConns :
               {m \in Conn : m = n \/ requests[m] # <<>>} = 1..t
<1> DEFINE used == {m \in Conn : requests[m] # <<>>}
<1>1. PICK t \in 0..MaxConns : used = 1..t
  BY DEF Opened
<1>2. Cardinality(used) = t
  <2>1. 1 \in Int /\ t \in Int /\ (IF 1 > t THEN 0 ELSE t - 1 + 1) = t
    BY HttpAssumption
  <2>2. Cardinality(1..t) = IF 1 > t THEN 0 ELSE t - 1 + 1
    BY <2>1, FS_Interval
  <2> QED
    BY <1>1, <2>1, <2>2
<1>3. n = t + 1
  BY <1>2 DEF Target
<1> DEFINE u == t + 1
<1>4. u \in 0..MaxConns /\ n \notin 1..t /\ 1..u = 1..t \cup {n} /\ MaxConns \in Nat
  BY <1>3, HttpAssumption DEF Conn
<1>5. requests[n] = <<>>
  BY <1>1, <1>4
<1>6. {m \in Conn : m = n \/ requests[m] # <<>>} = used \cup {n}
  OBVIOUS
<1> HIDE DEF u, used
<1> QED
  BY <1>1, <1>4, <1>5, <1>6

LEMMA SendStep ==
  ASSUME HttpInv, ~Pipelining, NEW n \in Conn, NEW k \in 0..MsgLen, send(n, k)
  PROVE  Opened' /\ ClientInv' /\ \A m \in Conn : ConnInv(m)'
<1> DEFINE id == Sent + 1
           ids == Append(requests[n], id)
           p == Replies(server[n], handled[n])
<1>1. /\ HttpTypes /\ Opened /\ ClientInv /\ client \in Reader /\ wire \in [Conn -> Wire]
      /\ \A m \in Conn : ConnInv(m) /\ (m # conn => ~wire[m].client)
  BY ClientFacts
<1>2. /\ server \in [Conn -> Reader] /\ requests \in [Conn -> Seq(1..MaxRequests)]
      /\ server[n] \in Reader /\ wire[n] \in Wire
      /\ wire[n].req \in Seq(Unit) /\ wire[n].rsp \in Seq(Unit)
      /\ requests[n] \in Seq(1..MaxRequests)
      /\ handled[n] \in Seq(Seq(Unit)) /\ responses[n] \in Seq(Seq(Unit))
      /\ p \in Nat /\ MsgLen \in Nat \ {0}
      /\ HandlerOk(server[n], wire[n], requests[n], handled[n], responses[n])
  <2>1. HandlerOk(server[n], wire[n], requests[n], handled[n], responses[n])
    BY <1>1 DEF ConnInv
  <2> QED
    BY <1>1, <2>1, ConnTypes, RepliesLaws, HttpAssumption DEF HttpTypes, TypeOK
<1>3. id \in 1..MaxRequests /\ client.at = "idle" /\ n = Target /\ (conn # 0 => n = conn)
  BY DEF send, Target
<1>4. Units(id, 0, k) = SubSeq(Message(id), 1, k)
  BY DEF Units
<1>5. /\ requests' = [requests EXCEPT ![n] = ids]
      /\ wire' = [wire EXCEPT ![n].req = @ \o Units(id, 0, k), ![n].server = @ \/ conn = 0,
                              ![n].client = k = MsgLen]
      /\ server' = [server EXCEPT ![n] = IF conn = 0 THEN read_message(@) ELSE @]
      /\ conn' = IF k = MsgLen THEN n ELSE 0
      /\ UNCHANGED <<client, handled, responses, failed>>
      /\ ~Outstanding(n)
      /\ conn # 0 /\ ~wire[n].client => k = 0
  BY <1>4 DEF send
<1> HIDE DEF id
<1>6. ids \in Seq(1..MaxRequests) /\ ids # <<>>
  <2>1. requests[n] \in Seq(1..MaxRequests) /\ id \in 1..MaxRequests
    BY <1>2, <1>3
  <2> QED
    BY <2>1, AppendProperties
<1>7. /\ requests'[n] = ids
      /\ wire'[n].req = wire[n].req \o Units(id, 0, k) /\ wire'[n].rsp = wire[n].rsp
      /\ wire'[n].client = (k = MsgLen)
      /\ server'[n] = IF conn = 0 THEN read_message(server[n]) ELSE server[n]
  <2>1. requests'[n] = ids
    BY <1>2, <1>5
  <2>2. server'[n] = IF conn = 0 THEN read_message(server[n]) ELSE server[n]
    BY <1>2, <1>5
  <2>3. wire'[n] = [wire[n] EXCEPT !.req = @ \o Units(id, 0, k), !.server = @ \/ conn = 0,
                                   !.client = k = MsgLen]
    BY <1>1, <1>5
  <2>4. /\ wire'[n].req = wire[n].req \o Units(id, 0, k) /\ wire'[n].rsp = wire[n].rsp
        /\ wire'[n].client = (k = MsgLen)
    BY <1>2, <2>3 DEF Wire
  <2> QED
    BY <2>1, <2>2, <2>4
<1> HIDE DEF ids
<1>8. ASSUME NEW m \in Conn, m # n PROVE ConnInv(m)' /\ requests'[m] = requests[m]
  <2>1. /\ server'[m] = server[m] /\ wire'[m] = wire[m] /\ requests'[m] = requests[m]
    BY <1>1, <1>2, <1>5, <1>8
  <2>2. ~wire[m].client
    <3>1. m # conn
      BY <1>3, <1>8, HttpAssumption DEF Conn
    <3> QED
      BY <1>1, <3>1
  <2> QED
    BY <1>1, <1>5, <2>1, <2>2, ClosedConn
<1>9. ClientInv'
  BY <1>1, <1>5 DEF ClientInv
<1>10. ~failed => DeliveredFrom(ids, responses[n])
  BY <1>1, <1>2, <1>3, DeliveredSent DEF ConnInv, ids
<1>11. k = MsgLen => conn' = n
  BY <1>5
<1>12. CASE conn = 0
  <2>1. /\ requests[n] = <<>>
        /\ \E t \in 0..MaxConns : {m \in Conn : m = n \/ requests[m] # <<>>} = 1..t
    BY <1>1, <1>3, <1>12, FreshConn
  <2>2. Opened'
    <3>1. {m \in Conn : requests'[m] # <<>>} = {m \in Conn : m = n \/ requests[m] # <<>>}
      BY <1>6, <1>7, <1>8
    <3>2. conn' # 0 => requests'[conn'] # <<>>
      BY <1>5, <1>6, <1>7
    <3> QED
      BY <2>1, <3>1, <3>2 DEF Opened
  <2>3. /\ server[n].at = "idle" /\ handled[n] = <<>> /\ responses[n] = <<>>
        /\ wire[n].rsp = <<>>
    BY <1>2, <2>1 DEF HandlerOk
  <2>4. HandlerOk(server'[n], wire'[n], ids, handled[n], responses[n])
    <3>1. HandlerOk(read_message(server[n]), wire'[n], Append(requests[n], id),
                    handled[n], responses[n])
      BY <1>2, <1>3, <1>7, <2>3, HandlerOpens
    <3> QED
      BY <1>7, <1>12, <3>1 DEF ids
  <2>5. Replies(server'[n], handled[n]) = 0
    <3>1. server'[n].at = "reading"
      BY <1>2, <1>7, <1>12, ReaderLaws
    <3> QED
      BY <2>3, <3>1, EmptySeq DEF Replies
  <2>6. /\ Talks(client, <<>>, 0, ids, <<>>)
        /\ ~failed => InStep(client, <<>>, 0, ids, <<>>)
    <3>1. /\ Talks(client, <<>>, 0, ids, <<>>)
          /\ client.pos = 0 /\ client.left = <<>> /\ ~client.errno =>
                InStep(client, <<>>, 0, ids, <<>>)
      BY <1>1, <1>3, <2>1, TalkOpens DEF ids, ClientInv
    <3> QED
      BY <1>1, <1>3, <3>1 DEF ClientInv
  <2>7. ConnInv(n)'
    BY <1>5, <1>7, <1>10, <1>11, <2>3, <2>4, <2>5, <2>6 DEF ConnInv
  <2> QED
    BY <1>8, <1>9, <2>2, <2>7
<1>13. CASE conn # 0
  <2>1. n = conn /\ requests[n] # <<>>
    BY <1>1, <1>3, <1>13 DEF Opened
  <2>2. Opened'
    <3>1. {m \in Conn : requests'[m] # <<>>} = {m \in Conn : requests[m] # <<>>}
      BY <1>6, <1>7, <1>8, <2>1
    <3>2. conn' # 0 => requests'[conn'] # <<>>
      BY <1>5, <1>6, <1>7
    <3> QED
      BY <1>1, <3>1, <3>2 DEF Opened
  <2>3. server[n].at # "idle" /\ server'[n] = server[n]
    BY <1>2, <1>7, <1>13, <2>1 DEF HandlerOk
  <2>4. ASSUME wire[n].client
        PROVE  /\ p = Len(requests[n])
               /\ Talks(client, wire[n].rsp, p, ids, responses[n])
               /\ ~failed => InStep(client, wire[n].rsp, p, ids, responses[n])
    <3>1. /\ Talks(client, wire[n].rsp, p, requests[n], responses[n])
          /\ ~failed => InStep(client, wire[n].rsp, p, requests[n], responses[n])
      BY <1>1, <2>4 DEF ConnInv
    <3>2. ~(Len(responses[n]) < Len(requests[n]))
      BY <1>5, <2>4 DEF Outstanding
    <3> HIDE DEF p
    <3> QED
      BY <1>1, <1>2, <1>3, <3>1, <3>2, TalkSends DEF ids
  <2>5. HandlerOk(server'[n], wire'[n], ids, handled[n], responses[n])
    <3>1. k = 0 \/ p = Len(requests[n])
      BY <1>5, <1>13, <2>4
    <3>2. HandlerOk(server[n], wire'[n], Append(requests[n], id), handled[n], responses[n])
      BY <1>2, <1>3, <1>7, <2>3, <3>1, HandlerHears
    <3> QED
      BY <2>3, <3>2 DEF ids
  <2>6. wire'[n].client => wire[n].client
    BY <1>2, <1>5, <1>7, <1>13
  <2>7. ConnInv(n)'
    BY <1>5, <1>7, <1>10, <1>11, <2>3, <2>4, <2>5, <2>6 DEF ConnInv
  <2> QED
    BY <1>8, <1>9, <2>2, <2>7
<1> QED
  BY <1>12, <1>13

LEMMA HttpStep == HttpInv /\ [Next]_vars => HttpInv'
<1> SUFFICES ASSUME HttpInv, [Next]_vars PROVE HttpInv'
  OBVIOUS
<1>1. HttpTypes'
  BY TypesStep DEF HttpInv
<1>2. ASSUME ~Pipelining PROVE Opened' /\ ClientInv' /\ \A m \in Conn : ConnInv(m)'
  <2>1. CASE UNCHANGED vars
    BY <1>2, <2>1 DEF HttpInv, Opened, ClientInv, ConnInv, vars
  <2>2. CASE Client
    BY <1>2, <2>2, SendStep, BeginStep, ReadStep, ReturnStep, EndStep, FailStep DEF Client
  <2>3. CASE \E n \in Conn : Handler(n)
    BY <1>2, <2>3, HandlerSteps
  <2> QED
    BY <2>1, <2>2, <2>3 DEF Next
<1> QED
  BY <1>1, <1>2 DEF HttpInv

(* The inductive invariant of client:send, get_response and handle_conn.   *)
THEOREM HttpInvariant == Spec => []HttpInv
<1> QED
  BY HttpInit, HttpStep, PTL DEF Spec

(* However the stream is cut and wherever sends and connections break,     *)
(* handle_conn gives its handler the requests sent on the connection,      *)
(* whole, once and in order, when the client waits for each response.      *)
THEOREM RequestsInOrder == Spec => []RequestsHandledInOrder
<1>1. HttpInv => RequestsHandledInOrder
  BY DEF HttpInv, ConnInv, HandlerOk, RequestsHandledInOrder
<1> QED
  BY <1>1, HttpInvariant, PTL

(* The responses get_response returns on a connection are those of the     *)
(* requests client:send sent on it, whole and in order, also after it has  *)
(* reconnected, until a call of get_response fails.                        *)
THEOREM ResponsesInOrder == Spec => []ResponsesMatchRequests
<1>1. HttpInv => ResponsesMatchRequests
  BY DEF HttpInv, ConnInv, ResponsesMatchRequests
<1> QED
  BY <1>1, HttpInvariant, PTL
=============================================================================
