------------------------------ MODULE MCBson ------------------------------
(* The values the codec is checked with: every type, the boundaries of the *)
(* integers and dates, strings that are empty or long enough to make the   *)
(* buffer grow twice or the ids of makeindex wrap, arrays with holes,      *)
(* tables whose pairs lua_next gives in either order, equal names, and     *)
(* nesting up to and past MAX_DEPTH.                                       *)
EXTENDS Bson

Zeros(n) == [i \in 1..n |-> 0]
Str(bytes) == <<"string", bytes>>
Num(n) == <<"number", n>>
Integer(bytes) == <<"integer", bytes>>
Object(o) == <<"object", o>>
A == Str(<<97>>)
B == Str(<<98>>)

Table(len, pairs) == [len |-> len, kv |-> pairs]
Nested(len, pairs) == <<"table", Table(len, pairs)>>

One == Integer(<<1>> \o Zeros(7))
MaxInt32 == Integer(<<255, 255, 255, 127>> \o Zeros(4))
AboveInt32 == Integer(<<0, 0, 0, 128>> \o Zeros(4))
MinusOne == Integer([i \in 1..8 |-> 255])
MinInt64 == Integer(Zeros(7) \o <<128>>)
Real == <<"real", <<0, 0, 0, 0, 0, 0, 248, 63>>>>
Date == Object(<<"date", <<1, 2, 3, 4>>>>)
LastDate == Object(<<"date", <<255, 255, 255, 255>>>>)
Timestamp == Object(<<"timestamp", <<7, 0, 0, 0>>, <<9, 0, 0, 0>>>>)
(* "0123456789abcdefABCDEF00" *)
ObjectId == Object(<<"objectid", [i \in 1..24 |-> IF i <= 10 THEN 47 + i ELSE IF i <= 16 THEN 86 + i ELSE IF i <= 22 THEN 48 + i ELSE 48]>>)
Other(type, bytes) == Object(<<"unsupported", bytes, type>>)

Fixeds == {One, MaxInt32, AboveInt32, MinusOne, MinInt64, Real,
           <<"boolean", <<0>>>>, <<"boolean", <<1>>>>, Date, LastDate,
           Timestamp, ObjectId}

Sizeds == {Str(<<>>), Str(<<120>>), Str([i \in 1..20 |-> 120]),
           Object(<<"regex", <<120>>, <<>>>>), Object(<<"regex", <<120>>, <<105, 109>>>>),
           Object(<<"binary", <<0, 1, 0>>>>), Object(<<"nil">>),
           Object(<<"minkey">>), Object(<<"maxkey">>),
           Other(BSON_SYMBOL, Int32Bytes(2) \o <<115, 0>>),
           Other(BSON_JSCODE, Int32Bytes(1) \o <<0>>),
           Other(BSON_DBPOINTER, Int32Bytes(1) \o Zeros(13)),
           Other(BSON_CODEWS, Int32Bytes(14) \o Int32Bytes(1) \o <<0>> \o Int32Bytes(5) \o <<0>>),
           Other(BSON_UNDEFINED, <<1>>), <<"function">>}

Level2(v) == Nested(0, <<<<A, Nested(1, <<<<Num(1), v>>>>)>>>>)

Nests == {Nested(0, <<>>),
          Nested(2, <<<<Num(1), One>>, <<Num(2), Str(<<120>>)>>>>),
          Nested(3, <<<<Num(1), One>>, <<Num(3), Real>>>>),
          Nested(3, <<<<Num(3), Real>>, <<Num(1), One>>>>),
          Nested(11, <<<<Num(10), One>>, <<Num(11), Real>>>>),
          Nested(1, <<<<Num(1), One>>, <<A, Real>>>>),
          Nested(1, <<<<A, Real>>, <<Num(1), One>>>>),
          Nested(0, <<<<Num(7), One>>, <<Str(<<55>>), Real>>>>),
          Nested(0, <<<<<<"boolean", <<1>>>>, One>>>>),
          Level2(ObjectId), Level2(Nested(0, <<>>)),
          <<"userdata", Table(0, <<<<A, One>>>>)>>,
          <<"userdata", Table(1, <<<<Num(1), Date>>>>)>>}

Seconds == {One, ObjectId, Str(<<120>>)}

(* The second value begins at offset 55, in the longest document all of    *)
(* whose offsets fit an id, and at offset 75, which does not.              *)
Long == {Table(0, <<<<A, Str([i \in 1..n |-> 120])>>, <<B, Real>>>>) : n \in {40, 60}}

MCTables ==
    Long \cup
    {Table(0, <<>>), Table(1, <<<<Num(1), One>>>>), Table(0, <<<<<<"boolean", <<1>>>>, One>>>>)}
      \cup {Table(0, <<<<A, v>>, <<B, w>>>>) : v \in Fixeds \cup Sizeds \cup Nests, w \in Seconds}
      \cup {Table(1, <<<<Num(1), w>>, <<Str(<<49>>), v>>>>) : v \in Fixeds, w \in Seconds}
      \cup {Table(0, <<<<B, w>>, <<A, v>>>>) : v \in Sizeds \cup Nests, w \in Seconds}

MCArguments ==
    {<<A, v, A, w>> : v \in Seconds \cup Nests, w \in Seconds}
      \cup {<<>>, <<A>>, <<Num(1), Real, B>>, <<Num(1), One>>, <<<<"boolean", <<1>>>>, One>>,
            <<Num(1), Real, Num(12), Date>>}

MCValues == {One, AboveInt32, Real, <<"boolean", <<0>>>>, LastDate, Timestamp,
             ObjectId, Str(<<120>>)}
=============================================================================
