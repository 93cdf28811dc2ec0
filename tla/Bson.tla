-------------------------------- MODULE Bson --------------------------------
(***************************************************************************)
(* cext/lua-bson.c: the encoder and decoder of BSON documents, the         *)
(* constructors of the types Lua does not have, and the index that lets a  *)
(* program overwrite fields of an encoded document in place.               *)
(*                                                                         *)
(* A byte is a number and a string a sequence of bytes.  A Lua value is a  *)
(* tuple of its type and its contents: 64-bit numbers are their 8 bytes,   *)
(* and a table is what the C code sees of it, the border lua_rawlen gives  *)
(* and the pairs in the order of lua_next.  A decoded table is the set of  *)
(* its pairs.  luaL_error is an err field that every later step keeps.     *)
(***************************************************************************)
EXTENDS Integers, SequencesExt

CONSTANTS DEFAULT_CAP,   \* size of the buffer inside struct bson
          INT_RANGE,     \* the number of values of an int, 2^32 in C
          MAX_DEPTH,     \* tables nested deeper are refused
          Tables,        \* the tables given to bson.encode
          Arguments,     \* the argument lists given to bson.encode_order
          Values,        \* the values written over fields
          MaxReplaces    \* bound: how often fields are overwritten

ASSUME BsonAssumption ==
    /\ DEFAULT_CAP \in Nat \ {0}
    /\ INT_RANGE \in Nat \ {0}
    /\ MAX_DEPTH \in Nat
    /\ MaxReplaces \in Nat

VARIABLES
    buf,       \* the struct bson of the last call, as it left it
    doc,       \* the bson userdata, <<>> before there is one
    index,     \* its user value: what makeindex found, {} before
    encodable, \* history: the answers the last call may give, TRUE for success
    fields,    \* history: the keys and values the document was given
    narrowed,  \* history: an integer did not fit the field it was assigned to
    replaces   \* number of fields overwritten so far

vars == <<buf, doc, index, encodable, fields, narrowed, replaces>>

BSON_REAL == 1
BSON_STRING == 2
BSON_DOCUMENT == 3
BSON_ARRAY == 4
BSON_BINARY == 5
BSON_UNDEFINED == 6
BSON_OBJECTID == 7
BSON_BOOLEAN == 8
BSON_DATE == 9
BSON_NULL == 10
BSON_REGEX == 11
BSON_DBPOINTER == 12
BSON_JSCODE == 13
BSON_SYMBOL == 14
BSON_CODEWS == 15
BSON_INT32 == 16
BSON_TIMESTAMP == 17
BSON_INT64 == 18
BSON_MAXKEY == 127
BSON_MINKEY == 255

(* bt | offset << BSON_TYPE_SHIFT.                                         *)
BSON_TYPE_SHIFT == 32

-----------------------------------------------------------------------------
(* Numbers as little-endian bytes.                                         *)
Int32Bytes(n) == [i \in 1..4 |-> (n \div <<1, 256, 65536, 16777216>>[i]) % 256]

(* get_length and read_int32.                                              *)
get_length(d) ==
    d[1] + 256 * d[2] + 65536 * d[3]
      + 16777216 * (IF d[4] < 128 THEN d[4] ELSE d[4] - 256)

(* An int64 that is the sign extension of its low half.                    *)
is_32bit(b) == SubSeq(b, 5, 8) = [i \in 1..4 |-> IF b[4] < 128 THEN 0 ELSE 255]

Extended(b) == b \o [i \in 1..4 |-> IF b[4] < 128 THEN 0 ELSE 255]

(* (int64_t)*ts * 1000 of the four bytes of an uint32_t.                   *)
Times1000(b) ==
    LET carry[i \in 0..8] == IF i = 0 THEN 0 ELSE
            (carry[i - 1] \div 256) + (IF i <= 4 THEN b[i] * 1000 ELSE 0)
    IN [i \in 1..8 |-> carry[i] % 256]

(* (uint32_t)(date / 1000) of the eight bytes of a date that is not        *)
(* negative.                                                               *)
Div1000(b) ==
    LET rest[i \in 1..9] == IF i = 9 THEN 0 ELSE (rest[i + 1] * 256 + b[i]) % 1000
    IN [i \in 1..4 |-> ((rest[i + 1] * 256 + b[i]) \div 1000) % 256]

(* A bit of a number.                                                      *)
Bit(b, i) == (b[i \div 8 + 1] \div 2^(i % 8)) % 2

(* C's conversion of an integer to a double, for the integers 1..2^53-1,   *)
(* which a double holds exactly.                                           *)
Double(b) ==
    LET high == Max({i \in 0..63 : Bit(b, i) = 1})
        bit(i) == CASE i >= 52 -> ((1023 + high) \div 2^(i - 52)) % 2
                    [] i < 52 /\ high - 52 + i >= 0 -> Bit(b, high - 52 + i)
                    [] OTHER -> 0
    IN [n \in 1..8 |-> MapThenSumSet(LAMBDA i : bit(8 * (n - 1) + i) * 2^i, 0..7)]

-----------------------------------------------------------------------------
(* struct bson: data is what ptr holds up to size.  overrun records a      *)
(* write past the capacity.  Unset is a byte that nobody wrote.            *)
Unset == 256

bson_create == [data |-> <<>>, cap |-> DEFAULT_CAP, heap |-> FALSE,
                err |-> FALSE, overrun |-> FALSE]

(* Mutant: the capacity is doubled once. *)
Grown_once(cap, sz) == 2 * cap

(* The do-while loop of bson_reserve.                                      *)
Grown(cap, sz) == Min({c \in {cap * 2^k : k \in 1..12} : c > sz})

(* memcpy of n bytes into a new block.                                     *)
Copied(data, n) == [i \in DOMAIN data |-> IF i <= n THEN data[i] ELSE Unset]

(* The buffer is copied when it moves from the stack to the heap; realloc  *)
(* keeps what is in the block.                                             *)
bson_reserve(b, sz) ==
    IF Len(b.data) + sz <= b.cap THEN b
    ELSE [b EXCEPT !.cap = Grown(@, Len(b.data) + sz), !.heap = TRUE,
                   !.data = IF b.heap THEN @ ELSE Copied(@, Len(@))]

(* A writer reserves sz bytes, which it says itself, and writes.           *)
Write(b, sz, bytes) ==
    IF b.err THEN b
    ELSE LET r == bson_reserve(b, sz)
         IN [r EXCEPT !.data = @ \o bytes,
                      !.overrun = @ \/ Len(r.data) + Len(bytes) > r.cap]

write_byte(b, v) == Write(b, 1, <<v>>)
write_int32(b, v) == Write(b, 4, v)
write_int64(b, v) == Write(b, 8, v)
write_double(b, v) == Write(b, 8, v)
write_string(b, str) == Write(b, Len(str) + 1, str \o <<0>>)
reserve_length(b) == Write(b, 4, <<Unset, Unset, Unset, Unset>>)

Overlaid(data, off, bytes) ==
    [i \in DOMAIN data |->
        IF i - off \in DOMAIN bytes THEN bytes[i - off] ELSE data[i]]

write_length(b, n, off) ==
    IF b.err THEN b ELSE [b EXCEPT !.data = Overlaid(@, off, Int32Bytes(n))]

luaL_error(b) == [b EXCEPT !.err = TRUE]

append_key(b, type, key) == write_string(write_byte(b, type), key)

append_number(b, key, v) ==
    CASE v[1] = "integer" /\ is_32bit(v[2]) ->
            write_int32(append_key(b, BSON_INT32, key), SubSeq(v[2], 1, 4))
      [] v[1] = "integer" /\ ~is_32bit(v[2]) ->
            write_int64(append_key(b, BSON_INT64, key), v[2])
      [] v[1] = "real" -> write_double(append_key(b, BSON_REAL, key), v[2])

(* bytes begins with the sub type, which the length does not count.        *)
write_binary(b, bytes) ==
    write_length(Write(reserve_length(b), Len(bytes), bytes), Len(bytes) - 1, Len(b.data))

(* The pattern and the options of a regex, which both end with a zero.     *)
LastZero(str) == Max({0} \cup {i \in 1..(Len(str) - 1) : str[i] = 0})
Pattern(str) == SubSeq(str, 1, LastZero(str) - 1)
Options(str) == SubSeq(str, LastZero(str) + 1, Len(str) - 1)

(* A string that begins with a zero is an object of the type in its second *)
(* byte.                                                                   *)
append_object(b, subt, str) ==
    CASE subt = BSON_BINARY -> write_binary(b, str)
      [] subt = BSON_OBJECTID -> IF Len(str) # 12 THEN luaL_error(b) ELSE Write(b, Len(str), str)
      [] subt \in {BSON_JSCODE, BSON_DBPOINTER, BSON_SYMBOL, BSON_CODEWS} -> Write(b, Len(str), str)
      [] subt = BSON_DATE ->
            IF Len(str) # 4 THEN luaL_error(b) ELSE write_int64(b, Times1000(str))
      [] subt = BSON_TIMESTAMP ->
            IF Len(str) # 8 THEN luaL_error(b)
            ELSE write_int32(write_int32(b, SubSeq(str, 1, 4)), SubSeq(str, 5, 8))
      [] subt = BSON_REGEX -> write_string(write_string(b, Pattern(str)), Options(str))
      [] subt \in {BSON_MINKEY, BSON_MAXKEY, BSON_NULL} -> b
      [] OTHER -> luaL_error(b)

append_string(b, key, str) ==
    IF Len(str) > 1 /\ str[1] = 0
    THEN append_object(append_key(b, str[2], key), str[2], SubSeq(str, 3, Len(str)))
    ELSE LET k == append_key(b, BSON_STRING, key)
         IN write_length(write_string(reserve_length(k), str), Len(str) + 1, Len(k.data))

-----------------------------------------------------------------------------
(* The constructors and bson.type.  An object is a tuple of the name that  *)
(* bson.type gives it and its arguments; the ones bson.type does not       *)
(* support come from a decoded document and carry their own type.          *)
ldate(d) == <<0, BSON_DATE>> \o d
ltimestamp(d, inc) == <<0, BSON_TIMESTAMP>> \o inc \o d
lregex(pattern, options) == <<0, BSON_REGEX>> \o pattern \o <<0>> \o options \o <<0>>
lbinary(str) == <<0, BSON_BINARY, 0>> \o str

(* The two digits of a byte: characters '0'..'9', 'a'..'f' and 'A'..'F'.   *)
hextoint(c) == CASE c \in 48..57 -> c - 48
                 [] c \in 97..122 -> c - 87
                 [] c \in 65..90 -> c - 55
                 [] OTHER -> 0

hex(n) == IF n < 10 THEN 48 + n ELSE 87 + n

(* bson.objectid of 24 digits; the id that it makes without them is given  *)
(* in digits too.                                                          *)
lobjectid(str) ==
    <<0, BSON_OBJECTID>> \o [i \in 1..12 |-> 16 * hextoint(str[2 * i - 1]) + hextoint(str[2 * i])]

Construct(o) ==
    CASE o[1] = "date" -> ldate(o[2])
      [] o[1] = "timestamp" -> ltimestamp(o[2], o[3])
      [] o[1] = "regex" -> lregex(o[2], o[3])
      [] o[1] = "binary" -> lbinary(o[2])
      [] o[1] = "objectid" -> lobjectid(o[2])
      [] o[1] = "nil" -> <<0, BSON_NULL>>
      [] o[1] = "minkey" -> <<0, BSON_MINKEY>>
      [] o[1] = "maxkey" -> <<0, BSON_MAXKEY>>
      [] o[1] = "unsupported" -> <<0, o[3]>> \o o[2]

lsubtype(subtype, bytes) ==
    CASE subtype = BSON_BINARY -> <<"binary", Tail(bytes)>>
      [] subtype = BSON_OBJECTID /\ Len(bytes) = 12 ->
            <<"objectid", [i \in 1..24 |->
                LET byte == bytes[(i + 1) \div 2]
                IN hex(IF i % 2 = 1 THEN byte \div 16 ELSE byte % 16)]>>
      [] subtype = BSON_DATE /\ Len(bytes) = 4 -> <<"date", bytes>>
      [] subtype = BSON_TIMESTAMP /\ Len(bytes) = 8 ->
            <<"timestamp", SubSeq(bytes, 5, 8), SubSeq(bytes, 1, 4)>>
      [] subtype = BSON_REGEX /\ LastZero(bytes) > 0 ->
            <<"regex", Pattern(bytes), Options(bytes)>>
      [] subtype = BSON_MINKEY -> <<"minkey">>
      [] subtype = BSON_MAXKEY -> <<"maxkey">>
      [] subtype = BSON_NULL -> <<"nil">>
      [] subtype \in {BSON_JSCODE, BSON_DBPOINTER, BSON_SYMBOL, BSON_CODEWS} ->
            <<"unsupported", bytes>>
      [] OTHER -> <<"error">>

ltype(v) ==
    IF v[1] = "string" /\ Len(v[2]) >= 2 /\ v[2][1] = 0
    THEN lsubtype(v[2][2], SubSeq(v[2], 3, Len(v[2])))
    ELSE v

-----------------------------------------------------------------------------
(* The encoder.  A table is a record of its border (len) and its pairs     *)
(* (kv); a userdata is the table it was encoded from.                      *)
IsArray(t) == t.len > 0 /\ Last(t.kv)[1] = <<"number", t.len>>

(* bson_numstr, and lua_tolstring of a number key: the decimal digits.     *)
RECURSIVE numstr(_)
numstr(n) == IF n < 10 THEN <<48 + n>> ELSE numstr(n \div 10) \o <<48 + (n % 10)>>

(* Mutant: keys of an array keep Lua's base. *)
ArrayKey_based1(k) == numstr(k[2])

(* A number key is a positive integer: a float, which lua_tointeger turns  *)
(* into 0, is not among the keys.                                          *)
ArrayKey(k) == numstr(k[2] - 1)

(* The name of a field of a document; only strings and numbers have one.   *)
KeyText(k) == IF k[1] = "number" THEN numstr(k[2]) ELSE k[2]

(* Mutant: one level less. *)
TooDeep_early(depth) == depth >= MAX_DEPTH
TooDeep(depth) == depth > MAX_DEPTH

RECURSIVE pack_dict(_, _, _, _)

append_table(b, key, t, depth) ==
    pack_dict(append_key(b, IF IsArray(t) THEN BSON_ARRAY ELSE BSON_DOCUMENT, key),
              t, IsArray(t), depth)

append_one(b, key, v, depth) ==
    CASE v[1] \in {"integer", "real"} -> append_number(b, key, v)
      [] v[1] = "userdata" ->
            LET inner == pack_dict(bson_create, v[2], FALSE, 0).data
            IN Write(append_key(b, BSON_DOCUMENT, key), get_length(inner), inner)
      [] v[1] = "string" -> append_string(b, key, v[2])
      [] v[1] = "object" -> append_string(b, key, Construct(v[2]))
      [] v[1] = "table" -> append_table(b, key, v[2], depth + 1)
      [] v[1] = "boolean" -> write_byte(append_key(b, BSON_BOOLEAN, key), v[2][1])
      [] OTHER -> luaL_error(b)

(* The end of a document: its terminator and its length.                   *)
Closed(b, length) ==
    LET e == write_byte(b, 0) IN write_length(e, Len(e.data) - length, length)

pack_dict(b, t, isarray, depth) ==
    IF TooDeep(depth) THEN luaL_error(b)
    ELSE LET pack(acc, pair) ==
               IF acc.err THEN acc
               ELSE IF isarray /\ pair[1][1] = "number"
                 THEN append_one(acc, ArrayKey(pair[1]), pair[2], depth)
               ELSE IF ~isarray /\ pair[1][1] \in {"number", "string"}
                 THEN append_one(acc, KeyText(pair[1]), pair[2], depth)
               ELSE luaL_error(acc)
         IN Closed(FoldLeft(pack, reserve_length(b), t.kv), Len(b.data))

(* pack_ordered_dict: the arguments are keys and values in turn.           *)
pack_ordered_dict(b, args) ==
    LET pack(acc, i) ==
          IF acc.err \/ args[i][1] \notin {"number", "string"} THEN luaL_error(acc)
          ELSE append_one(acc, KeyText(args[i]), args[i + 1], 0)
        firsts == [i \in 1..(Len(args) \div 2) |-> 2 * i - 1]
    IN Closed(FoldLeft(pack, reserve_length(b), firsts), Len(b.data))

lencode(t) == pack_dict(bson_create, t, FALSE, 0)

lencode_order(args) ==
    IF Len(args) % 2 # 0 THEN luaL_error(bson_create)
    ELSE pack_ordered_dict(bson_create, args)

-----------------------------------------------------------------------------
(* The decoder.  A reader is the bytes it has left; what is read is the    *)
(* value v and the number n of bytes it took.  A document is one that was  *)
(* encoded here, so no size in it is negative: the code does not look.     *)
Invalid == [ok |-> FALSE, v |-> <<>>, n |-> 0]
Got(v, n) == [ok |-> TRUE, v |-> v, n |-> n]

(* check_reader before what it guards.                                     *)
Checked(d, sz, read) == IF sz <= Len(d) THEN read ELSE Invalid

read_bytes(d, type, sz) == Checked(d, sz, Got(<<type, SubSeq(d, 1, sz)>>, sz))

ZeroAt(d) == Min({Len(d) + 1} \cup {i \in DOMAIN d : d[i] = 0})

read_cstring(d) == Checked(d, ZeroAt(d), Got(SubSeq(d, 1, ZeroAt(d) - 1), ZeroAt(d)))

(* make_object, of a value that takes n bytes of d.                        *)
make_object(d, type, bytes, n) ==
    Checked(d, n, Got(<<"string", <<0, type>> \o bytes>>, n))

(* A value whose first four bytes say that n bytes more belong to it.      *)
Sized(d, read(_)) == Checked(d, 4, read(get_length(d)))

RECURSIVE unpack_dict(_, _)

unpack_value(bt, d) ==
    CASE bt = BSON_REAL -> read_bytes(d, "real", 8)
      [] bt = BSON_BOOLEAN ->
            Checked(d, 1, Got(<<"boolean", <<IF d[1] = 0 THEN 0 ELSE 1>>>>, 1))
      [] bt = BSON_STRING ->
            Sized(d, LAMBDA sz : IF sz <= 0 THEN Invalid ELSE
                Checked(d, sz + 4, Got(<<"string", SubSeq(d, 5, sz + 3)>>, sz + 4)))
      [] bt = BSON_DOCUMENT -> unpack_dict(d, FALSE)
      [] bt = BSON_ARRAY -> unpack_dict(d, TRUE)
      [] bt = BSON_BINARY ->
            Sized(d, LAMBDA sz : make_object(d, bt, SubSeq(d, 5, sz + 5), sz + 5))
      [] bt = BSON_OBJECTID -> make_object(d, bt, SubSeq(d, 1, 12), 12)
      [] bt = BSON_DATE -> Checked(d, 8, make_object(d, bt, Div1000(d), 8))
      [] bt \in {BSON_MINKEY, BSON_MAXKEY, BSON_NULL} -> make_object(d, bt, <<>>, 0)
      [] bt = BSON_REGEX ->
            LET end == ZeroAt(d) + ZeroAt(SubSeq(d, ZeroAt(d) + 1, Len(d)))
            IN make_object(d, bt, SubSeq(d, 1, end), end)
      [] bt = BSON_INT32 -> Checked(d, 4, Got(<<"integer", Extended(SubSeq(d, 1, 4))>>, 4))
      [] bt = BSON_TIMESTAMP -> make_object(d, bt, SubSeq(d, 1, 8), 8)
      [] bt = BSON_INT64 -> read_bytes(d, "integer", 8)
      [] bt = BSON_DBPOINTER ->
            Sized(d, LAMBDA sz : make_object(d, bt, SubSeq(d, 1, sz + 16), sz + 16))
      [] bt \in {BSON_JSCODE, BSON_SYMBOL} ->
            Sized(d, LAMBDA sz : make_object(d, bt, SubSeq(d, 1, sz + 4), sz + 4))
      [] bt = BSON_CODEWS -> Sized(d, LAMBDA sz : make_object(d, bt, SubSeq(d, 1, sz), sz))
      [] OTHER -> Invalid

(* lua_rawset.                                                             *)
rawset(table, key, v) == {p \in table : p[1] # key} \cup {<<key, v>>}

Decimal(str) == FoldLeft(LAMBDA n, c : 10 * n + c - 48, 0, str)

(* The loop of unpack_dict over the elements t of a document.              *)
RECURSIVE unpack_fields(_, _, _)
unpack_fields(t, array, table) ==
    IF t = <<>> THEN Got(table, 0)
    ELSE LET name == read_cstring(Tail(t))
             value == unpack_value(t[1], SubSeq(t, name.n + 2, Len(t)))
             key == IF array THEN <<"number", Decimal(name.v) + 1>> ELSE <<"string", name.v>>
         IN IF name.ok /\ value.ok
            THEN unpack_fields(SubSeq(t, name.n + value.n + 2, Len(t)), array,
                               rawset(table, key, value.v))
            ELSE Invalid

unpack_dict(d, array) ==
    Sized(d, LAMBDA sz :
        LET r == unpack_fields(SubSeq(d, 5, sz - 1), array, {})
        IN Checked(d, sz, IF d[sz] = 0 /\ r.ok THEN Got(<<"table", r.v>>, sz) ELSE Invalid))

ldecode(d) == unpack_dict(SubSeq(d, 1, get_length(d)), FALSE)

-----------------------------------------------------------------------------
(* lmakeindex: the size of a value, and whether it may be overwritten.     *)
Skipped(n) == [fixed |-> FALSE, n |-> n]
Fixed(n) == [fixed |-> TRUE, n |-> n]

field_size(bt, d) ==
    CASE bt \in {BSON_INT64, BSON_TIMESTAMP, BSON_DATE, BSON_REAL} -> Fixed(8)
      [] bt = BSON_BOOLEAN -> Fixed(1)
      [] bt \in {BSON_JSCODE, BSON_SYMBOL, BSON_STRING} -> Skipped(get_length(d) + 4)
      [] bt \in {BSON_CODEWS, BSON_ARRAY, BSON_DOCUMENT} -> Skipped(get_length(d))
      [] bt = BSON_BINARY -> Skipped(get_length(d) + 5)
      [] bt = BSON_OBJECTID -> Fixed(12)
      [] bt \in {BSON_MINKEY, BSON_MAXKEY, BSON_NULL} -> Skipped(0)
      [] bt = BSON_REGEX -> Skipped(ZeroAt(d) + ZeroAt(SubSeq(d, ZeroAt(d) + 1, Len(d))))
      [] bt = BSON_INT32 -> Fixed(4)
      [] bt = BSON_DBPOINTER -> Skipped(get_length(d) + 16)

(* Mutant: the offset is that of the field, not of its value. *)
FieldId_ofName(bt, at, value) == bt + BSON_TYPE_SHIFT * (at - 1)

(* bt | (br.ptr - start) << BSON_TYPE_SHIFT as the int it is stored in,    *)
(* where the value begins at the 1-based position value.  The build wraps  *)
(* what does not fit.                                                      *)
AsInt(n) == ((n + INT_RANGE \div 2) % INT_RANGE) - INT_RANGE \div 2

FieldId(bt, at, value) == AsInt(bt + BSON_TYPE_SHIFT * (value - 1))

RECURSIVE index_fields(_, _, _)
index_fields(d, at, found) ==
    IF at >= Len(d) THEN found
    ELSE LET bt == d[at]
             name == read_cstring(SubSeq(d, at + 1, Len(d)))
             value == at + 1 + name.n
             size == field_size(bt, SubSeq(d, value, Len(d)))
         IN index_fields(d, value + size.n,
                IF size.fixed THEN rawset(found, name.v, FieldId(bt, at, value)) ELSE found)

lmakeindex(d) == index_fields(d, 5, {})

(* replace_object and lreplace: the bytes written over a field of type bt, *)
(* or an error.                                                            *)
ReplaceBuffer == [bson_create EXCEPT !.cap = 16, !.heap = TRUE]

replace_object(bt, str) ==
    IF Len(str) < 6 \/ str[1] # 0 \/ str[2] # bt THEN luaL_error(ReplaceBuffer)
    ELSE append_object(ReplaceBuffer, bt, SubSeq(str, 3, Len(str)))

Truth(v) == IF v = <<"boolean", <<0>>>> THEN 0 ELSE 1

Replacement(bt, v) ==
    CASE bt = BSON_REAL /\ v[1] = "real" -> write_double(ReplaceBuffer, v[2])
      [] bt = BSON_REAL /\ v[1] = "integer" -> write_double(ReplaceBuffer, Double(v[2]))
      [] bt = BSON_BOOLEAN -> write_byte(ReplaceBuffer, Truth(v))
      [] bt \in {BSON_OBJECTID, BSON_DATE, BSON_TIMESTAMP} /\ v[1] = "object" ->
            replace_object(bt, Construct(v[2]))
      [] bt = BSON_INT32 /\ v[1] = "integer" -> write_int32(ReplaceBuffer, SubSeq(v[2], 1, 4))
      [] bt = BSON_INT64 /\ v[1] = "integer" -> write_int64(ReplaceBuffer, v[2])
      [] OTHER -> luaL_error(ReplaceBuffer)

(* The bytes laid over the document; the offset is not looked at.          *)
lreplace(d, id, v) ==
    LET b == Replacement(id % BSON_TYPE_SHIFT, v)
        offset == id \div BSON_TYPE_SHIFT
    IN [b EXCEPT !.data = Overlaid(d, offset, b.data),
                 !.overrun = @ \/ offset < 0 \/ offset + Len(b.data) > Len(d)]

-----------------------------------------------------------------------------
(* What was given and what is decoded, compared without bytes.  Decoded    *)
(* values are described as bson.type describes them.  A number is the same *)
(* number whichever type carries it, an object id the same id in capital   *)
(* letters.  Of a table every key is there by its text, with the value the *)
(* last key of that text was given.  The keys of a list 1, 2, .. n are     *)
(* numbers again, those of a document, or of a table without number keys,  *)
(* strings; of a table that is neither, lua_next's order decides which.    *)
RECURSIVE Same(_, _), Encodable(_, _, _)

Lower(str) == [i \in DOMAIN str |-> IF str[i] \in 65..90 THEN str[i] + 32 ELSE str[i]]

HasKeys(t, type) == \E i \in DOMAIN t.kv : t.kv[i][1][1] = type
IsList(t) == t.kv # <<>> /\ \A i \in DOMAIN t.kv : t.kv[i][1] = <<"number", i>>

KeyTypes(v) ==
    CASE v[1] = "table" /\ IsList(v[2]) -> {"number"}
      [] v[1] = "table" /\ ~IsList(v[2]) /\ HasKeys(v[2], "number") -> {"number", "string"}
      [] OTHER -> {"string"}

SamePairs(pairs, decoded, types) ==
    /\ {KeyText(p[1]) : p \in ToSet(pairs)} = {KeyText(q[1]) : q \in decoded}
    /\ \E type \in types : \A q \in decoded : q[1][1] = type
    /\ \A i \in DOMAIN pairs : \A q \in decoded :
          KeyText(q[1]) = KeyText(pairs[i][1]) =>
             \/ Same(pairs[i][2], q[2])
             \/ \E j \in (i + 1)..Len(pairs) : KeyText(pairs[j][1]) = KeyText(q[1])

Same(v, d) ==
    CASE v[1] = "object" /\ v[2][1] = "unsupported" -> d = SubSeq(v[2], 1, 2)
      [] v[1] = "object" /\ v[2][1] = "objectid" -> d = <<"objectid", Lower(v[2][2])>>
      [] v[1] = "object" /\ v[2][1] \notin {"unsupported", "objectid"} -> d = v[2]
      [] v[1] \in {"table", "userdata"} ->
            d[1] = "table" /\ SamePairs(v[2].kv, d[2], KeyTypes(v))
      [] v[1] = "integer" -> d = v \/ d = <<"real", Double(v[2])>>
      [] OTHER -> d = v

(* A table below the document whose keys are strings as well as numbers    *)
(* may be refused: mixed says whether it is taken.                         *)
Encodable(v, depth, mixed) ==
    CASE v[1] = "table" ->
            /\ depth <= MAX_DEPTH
            /\ depth = 0 \/ mixed \/ ~(HasKeys(v[2], "number") /\ HasKeys(v[2], "string"))
            /\ \A p \in ToSet(v[2].kv) :
                  p[1][1] \in {"number", "string"} /\ Encodable(p[2], depth + 1, mixed)
      [] v[1] = "object" -> v[2][1] = "unsupported" => v[2][3] # BSON_UNDEFINED
      [] v[1] \in {"function", "lightuserdata"} -> FALSE
      [] OTHER -> TRUE

(* What a field takes: lua_toboolean of anything, a number for a real, an  *)
(* integer of its size, an object of its type.                             *)
Kind(v) == IF v[1] = "object" THEN v[2][1] ELSE v[1]

Fits(bt, old, v) ==
    CASE bt = BSON_BOOLEAN -> TRUE
      [] bt = BSON_REAL -> v[1] \in {"integer", "real"}
      [] bt = BSON_INT32 -> v[1] = "integer" /\ is_32bit(v[2])
      [] bt = BSON_INT64 -> v[1] = "integer"
      [] OTHER -> Kind(v) = Kind(old)

(* Decoded values, described in the same way.                              *)
RECURSIVE Described(_)
Described(v) ==
    IF v[1] = "table" THEN <<"table", {<<p[1], Described(p[2])>> : p \in v[2]}>> ELSE ltype(v)

-----------------------------------------------------------------------------
Init ==
    /\ buf = bson_create
    /\ doc = <<>>
    /\ index = {}
    /\ encodable = {TRUE}
    /\ fields = <<>>
    /\ narrowed = FALSE
    /\ replaces = 0

(* Both encoders copy the buffer into a new userdata and free it.  A call  *)
(* that raises returns no document, and does not come to bson_destroy.     *)
(* A behaviour is about one document.                                      *)
Returned(b) ==
    /\ doc = <<>> /\ fields = <<>>
    /\ buf' = b
    /\ doc' = IF b.err THEN <<>> ELSE b.data
    /\ UNCHANGED <<index, narrowed, replaces>>

encode(t) ==
    /\ Returned(lencode(t))
    /\ encodable' = {Encodable(<<"table", t>>, 0, mixed) : mixed \in BOOLEAN}
    /\ fields' = t.kv

encode_order(args) ==
    /\ Returned(lencode_order(args))
    /\ encodable' = {/\ Len(args) % 2 = 0
                      /\ \A i \in DOMAIN args :
                            IF i % 2 = 1 THEN args[i][1] \in {"number", "string"}
                            ELSE Encodable(args[i], 1, mixed) : mixed \in BOOLEAN}
    /\ fields' = [i \in 1..(Len(args) \div 2) |-> <<args[2 * i - 1], args[2 * i]>>]

makeindex ==
    /\ doc # <<>> /\ index = {}
    /\ index' = lmakeindex(doc)
    /\ UNCHANGED <<buf, doc, encodable, fields, narrowed, replaces>>

(* The field an assignment to key is about.                                *)
Position(key) ==
    Max({0} \cup {i \in DOMAIN fields : /\ KeyText(fields[i][1]) = key
                                        /\ Kind(fields[i][2]) \in {"integer", "real", "boolean",
                                               "objectid", "date", "timestamp"}})

(* doc[key] = v.                                                           *)
replace(key, v) ==
    /\ replaces < MaxReplaces
    /\ \E p \in index :
          LET bt == p[2] % BSON_TYPE_SHIFT
              given == IF bt = BSON_BOOLEAN THEN <<"boolean", <<Truth(v)>>>> ELSE v
          IN /\ p[1] = key
             /\ buf' = lreplace(doc, p[2], v)
             /\ fields' = IF buf'.err THEN fields
                          ELSE [fields EXCEPT ![Position(key)][2] = given]
             /\ encodable' = {Fits(bt, fields[Position(key)][2], v)}
             /\ narrowed' = (narrowed \/ (bt = BSON_INT32 /\ v[1] = "integer" /\ ~is_32bit(v[2])))
    /\ doc' = IF buf'.err THEN doc ELSE buf'.data
    /\ replaces' = replaces + 1
    /\ UNCHANGED index

(* The field is not in the index, or makeindex was not called.             *)
replaceRefused(key) ==
    /\ doc # <<>> /\ replaces < MaxReplaces
    /\ \A p \in index : p[1] # key
    /\ buf' = luaL_error(bson_create)
    /\ encodable' = {FALSE}
    /\ replaces' = replaces + 1
    /\ UNCHANGED <<doc, index, fields, narrowed>>

Next ==
    \/ \E t \in Tables : encode(t)
    \/ \E args \in Arguments : encode_order(args)
    \/ makeindex
    \/ \E key \in {KeyText(fields[i][1]) : i \in DOMAIN fields} :
          replaceRefused(key) \/ \E v \in Values : replace(key, v)

Spec == Init /\ [][Next]_vars

-----------------------------------------------------------------------------
(* A document whose offsets fit the ids of makeindex: below 2^26 bytes in  *)
(* the C code.  Beyond, an assignment writes outside of the document.      *)
Addressable == 2 * BSON_TYPE_SHIFT * Len(doc) <= INT_RANGE

Decodes ==
    LET r == ldecode(doc)
    IN /\ r.ok /\ r.n = Len(doc)
       /\ SamePairs(fields, Described(r.v)[2], {"string"})

(* A document says what it was given: decode gives every field, at every   *)
(* depth, under its name and with its value, whatever the buffer grew to   *)
(* while the document was written, with the fields that were overwritten   *)
(* since and no others changed.  Excepted is a document in which an        *)
(* integer was assigned to a 32 bit field that it does not fit: lreplace   *)
(* says it "must be a 32bit integer" and stores its low half.              *)
DecodesBack == doc # <<>> /\ ~narrowed /\ (Addressable \/ replaces = 0) => Decodes

(* encode, encode_order and an assignment to a field raise when they are   *)
(* given what a document cannot hold there (a value or key of another      *)
(* type, tables nested too deep, an odd number of arguments) and only      *)
(* then, but for tables below the document that mix string and number      *)
(* keys, which may be refused or not, and for the integers too large for a *)
(* 32 bit field, which lreplace should refuse and does not.                *)
RefusesUnencodable == ~narrowed => (~buf.err) \in encodable

(* No write goes past the end of the buffer, on the stack or on the heap   *)
(* after it grew, nor past the document that an assignment patches; and    *)
(* the buffer of an assignment is never grown, since it is no block of     *)
(* malloc.                                                                 *)
BufferHolds ==
    /\ Addressable \/ replaces = 0 => ~buf.overrun
    /\ replaces > 0 /\ ~buf.err => buf.cap = 16

(* The index knows a field if and only if its value has a fixed size, and  *)
(* by the type and the offset under which the decoder meets its value, in  *)
(* a document whose offsets fit the ids.                                   *)
IndexFindsValues ==
    index # {} /\ Addressable /\ ~narrowed =>
       /\ {p[1] : p \in index} = {KeyText(fields[i][1]) : i \in {j \in DOMAIN fields :
                                     Position(KeyText(fields[j][1])) = j}}
       /\ \A p \in index :
             Same(fields[Position(p[1])][2],
                  Described(unpack_value(p[2] % BSON_TYPE_SHIFT,
                               SubSeq(doc, p[2] \div BSON_TYPE_SHIFT + 1, Len(doc))).v))
=============================================================================
