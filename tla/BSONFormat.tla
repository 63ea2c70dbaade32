------------------------------ MODULE BSONFormat ------------------------------
(***************************************************************************)
(* What the vendored BSON headers put into a buffer and read out of it.    *)
(*                                                                         *)
(* A buffer is a sequence of bytes; a number is the digits ByteOrder       *)
(* writes, while a character, a type code and a BinData subtype fill one   *)
(* byte each as themselves (the NUL character and EOO are both 0).         *)
(* A C++ value handed to an append() overload is a record x whose field k  *)
(* names the overload.  A double is a fixed-point number of halves, which  *)
(* is enough for truncation to show.  Offsets start at 0 as in the code.   *)
(***************************************************************************)
EXTENDS ByteOrder, FiniteSets

CONSTANTS MilliPerSecond,    \* 1000 in the code
          NanoPerMilli       \* 1000000 in the code

ASSUME ClockAssumption == MilliPerSecond \in Nat \ {0} /\ NanoPerMilli \in Nat \ {0}

-----------------------------------------------------------------------------
(* bsontypes.h *)

BSONType == [MinKey |-> -1, EOO |-> 0, NumberDouble |-> 1, String |-> 2, Object |-> 3,
             Array |-> 4, BinData |-> 5, Undefined |-> 6, jstOID |-> 7, Bool |-> 8,
             Date |-> 9, jstNULL |-> 10, RegEx |-> 11, DBRef |-> 12, Code |-> 13,
             Symbol |-> 14, CodeWScope |-> 15, NumberInt |-> 16, Timestamp |-> 17,
             NumberLong |-> 18, MaxKey |-> 127]

\* Subtypes of BinData the code tells apart.
BinDataGeneral == 0
ByteArrayDeprecated == 2

\* canonicalizeBSONType(): where a type falls in the sort order.
canonicalizeBSONType(t) ==
    LET T == BSONType
    IN  CASE t \in {T.MinKey, T.MaxKey} -> t
          [] t \in {T.EOO, T.Undefined} -> 0
          [] t = T.jstNULL -> 5
          [] t \in {T.NumberDouble, T.NumberInt, T.NumberLong} -> 10
          [] t \in {T.String, T.Symbol} -> 15
          [] t = T.Object -> 20
          [] t = T.Array -> 25
          [] t = T.BinData -> 30
          [] t = T.jstOID -> 35
          [] t = T.Bool -> 40
          [] t = T.Date -> 45
          [] t = T.Timestamp -> 47
          [] t = T.RegEx -> 50
          [] t = T.DBRef -> 55
          [] t = T.Code -> 60
          [] t = T.CodeWScope -> 65

kOIDSize == 12
clearedOID == [i \in 1..kOIDSize |-> 0]

\* The largest int.
MaxInt == Power(INT.w) \div 2 - 1

-----------------------------------------------------------------------------
(* string_data-inl.h and the C string functions, on sequences of characters *)

NUL == 0

\* StringData::find(c): the first index of c, -1 for npos.
find(s, c) == IF \E i \in DOMAIN s : s[i] = c
              THEN (CHOOSE i \in DOMAIN s : s[i] = c /\ \A j \in 1..(i - 1) : s[j] # c) - 1
              ELSE -1

\* StringData::copyTo as appendStr calls it: the characters and, if asked for, a NUL.
appendStr(s, includeEndingNull) == IF includeEndingNull THEN Append(s, NUL) ELSE s

\* strlen of the C string that starts at offset p of b.
strlen(b, p) == LET n == find(SubSeq(b, p + 1, Len(b)), NUL)
                IN  IF n = -1 THEN Len(b) - p ELSE n

\* strlen of a C++ string passed as a const char*: it ends at its first NUL.
cstr(s) == LET n == find(s, NUL) IN IF n = -1 THEN s ELSE SubSeq(s, 1, n)

\* checkFieldName(): a name with a NUL in it is refused with an exception.
checkFieldName(name) == find(name, NUL) = -1

\* BSONObjBuilder::numStr(i): the decimal digits of a position below 100, as numStrs caches them.
Zero == 48
numStr(i) == IF i < 10 THEN <<Zero + i>> ELSE <<Zero + (i \div 10), Zero + (i % 10)>>

-----------------------------------------------------------------------------
(* BSONObjBuilder::append*: the bytes one call adds to the buffer *)

\* _b.appendNum((char)type); _b.appendStr(fieldName); then the value.
Element(type, name, val) == <<type>> \o appendStr(name, TRUE) \o val

\* Length-prefixed string: the length counts the terminating NUL.
SizedString(h, s) == writeLE(h, Len(s) + 1, INT) \o appendStr(s, TRUE)

appendBool(h, n, v) == Element(BSONType.Bool, n, <<IF v # 0 THEN 1 ELSE 0>>)
appendInt(h, n, v) == Element(BSONType.NumberInt, n, writeLE(h, v, INT))
appendUnsigned(h, n, v) == appendInt(h, n, Signed(Unsigned(v, INT.w), INT.w))
appendLongLong(h, n, v) == Element(BSONType.NumberLong, n, writeLE(h, v, LL))
appendDouble(h, n, v) == Element(BSONType.NumberDouble, n, writeLE(h, v, DOUBLE))

appendIntOrLL(h, n, v) ==
    IF -(MaxInt \div 2) < v /\ v < MaxInt \div 2 THEN appendInt(h, n, v)
                                                 ELSE appendLongLong(h, n, v)

\* appendNumber(size_t): maxInt is 1 << 30, a quarter of the range of an int.
appendNumberSize(h, n, v) ==
    IF v < Power(INT.w) \div 4 THEN appendInt(h, n, v) ELSE appendLongLong(h, n, v)

\* appendNumber(long long): int below 1 << 30, double below 1 << 40, long long from there.
appendNumberLL(h, n, v) ==
    LET maxInt == Power(INT.w) \div 4
        maxDouble == Power(5)
    IN  CASE -maxInt < v /\ v < maxInt -> appendInt(h, n, v)
          [] (v <= -maxInt \/ v >= maxInt) /\ -maxDouble < v /\ v < maxDouble
                -> appendDouble(h, n, 2 * v)
          [] OTHER -> appendLongLong(h, n, v)

\* append(OID), genOID() and appendOID(): no OID and none generated writes the null one.
appendOID(h, n, oid) == Element(BSONType.jstOID, n, oid)

appendTimeT(h, n, v) == Element(BSONType.Date, n,
                                writeLE(h, Unsigned(v, ULL.w) * MilliPerSecond, ULL))
\* appendDate() (in the driver's own source file): the milliseconds of the Date_t.
appendDate(h, n, v) == Element(BSONType.Date, n, writeLE(h, v, LL))

appendRegex(h, n, re, opt) == Element(BSONType.RegEx, n, appendStr(re, TRUE) \o appendStr(opt, TRUE))
appendCode(h, n, s) == Element(BSONType.Code, n, SizedString(h, s))
appendSymbol(h, n, s) == Element(BSONType.Symbol, n, SizedString(h, s))

\* append(const char*, int) with strlen or size() of a std::string, and append(StringData).
appendString(h, n, s) == Element(BSONType.String, n, SizedString(h, s))

appendNull(h, n) == Element(BSONType.jstNULL, n, <<>>)
appendMinKey(h, n) == Element(BSONType.MinKey, n, <<>>)
appendMaxKey(h, n) == Element(BSONType.MaxKey, n, <<>>)
appendUndefined(h, n) == Element(BSONType.Undefined, n, <<>>)

appendTimestamp(h, n, seconds, increment) ==
    Element(BSONType.Timestamp, n,
            writeLEAndAdvance(h, writeLEAndAdvance(h, <<>>, increment, UINT), seconds, UINT))

appendDBRef(h, n, ns, oid) == Element(BSONType.DBRef, n, SizedString(h, ns) \o oid)

appendBinData(h, n, type, data) ==
    Element(BSONType.BinData, n, writeLE(h, Len(data), INT) \o <<type>> \o data)
appendBinDataArrayDeprecated(h, n, data) ==
    Element(BSONType.BinData, n, writeLE(h, Len(data) + 4, INT) \o <<ByteArrayDeprecated>>
                                 \o writeLE(h, Len(data), INT) \o data)

\* BSONObj::objsize() and the bytes objdata() .. objdata() + objsize().
objsize(h, obj) == readLE(h, obj, 0, INT)
objdata(h, obj) == SubSeq(obj, 1, objsize(h, obj))

appendCodeWScope(h, n, code, scope) ==
    Element(BSONType.CodeWScope, n,
            writeLE(h, 4 + 4 + Len(code) + 1 + objsize(h, scope), INT)
            \o SizedString(h, code) \o objdata(h, scope))

\* append(BSONObj) and appendArray(BSONObj): a finished object by its own size.
appendObj(h, n, obj) == Element(BSONType.Object, n, objdata(h, obj))
appendArray(h, n, obj) == Element(BSONType.Array, n, objdata(h, obj))

\* subobjStart() / subarrayStart(): the header only, the body follows in the same buffer.
subStart(n, arr) == Element(IF arr THEN BSONType.Array ELSE BSONType.Object, n, <<>>)

\* _done(): EOO, then the size written over the first four bytes of the object at off.
done(h, b, off) ==
    LET e == Append(b, BSONType.EOO)
    IN  Overwrite(e, off, writeLE(h, Len(e) - off, INT))

\* Variant: the EOO of the unfinished object stays.
asTempObjKept(h, b, off) == done(h, b, off)

\* What asTempObj() leaves behind: the size is written, the next append overwrites the EOO.
asTempObj(h, b, off) == LET e == done(h, b, off) IN SubSeq(e, 1, Len(e) - 1)

\* The constructor skips the four bytes of the size; they are not set before _done().
Fresh == [i \in 1..INT.w |-> 0]

\* BSONObj(): the prototype, little endian on every build.
EmptyObject == Overwrite([i \in 1..5 |-> 0], 0, Digits(5, INT.w))

\* An object of int elements, as append(vector), append(list), append(set) build their array
\* in a builder of their own: numStr(0), numStr(1), ...
IntArray(h, vals) ==
    done(h, FoldLeft(LAMBDA acc, i : acc \o appendInt(h, numStr(i - 1), vals[i]),
                     Fresh, [i \in DOMAIN vals |-> i]), 0)

\* append(std::map): an object of a builder of its own, the keys in order.
IntMap(h, pairs) ==
    done(h, FoldLeft(LAMBDA acc, e : acc \o appendInt(h, e.n, e.v), Fresh, pairs), 0)

-----------------------------------------------------------------------------
(* BSONElement: accessors on the element whose type byte is at offset p of b *)

type(b, p) == b[p + 1]
eoo(b, p) == type(b, p) = BSONType.EOO
fieldNameSize(b, p) == IF eoo(b, p) THEN 0 ELSE strlen(b, p + 1) + 1
fieldName(b, p) == IF eoo(b, p) THEN <<>> ELSE SubSeq(b, p + 2, p + fieldNameSize(b, p))
value(b, p) == p + fieldNameSize(b, p) + 1

isBoolean(b, p) == type(b, p) = BSONType.Bool
isNumber(b, p) == type(b, p) \in {BSONType.NumberLong, BSONType.NumberDouble, BSONType.NumberInt}
isSimpleType(b, p) ==
    type(b, p) \in {BSONType.NumberLong, BSONType.NumberDouble, BSONType.NumberInt,
                    BSONType.String, BSONType.Bool, BSONType.Date, BSONType.jstOID}
isABSONObj(b, p) == type(b, p) \in {BSONType.Object, BSONType.Array}

isNull(b, p) == type(b, p) = BSONType.jstNULL
ok(b, p) == ~eoo(b, p)
mayEncapsulate(b, p) == type(b, p) \in {BSONType.Object, BSONType.Array, BSONType.CodeWScope}
canonicalType(b, p) == canonicalizeBSONType(type(b, p))

boolean(b, p) == b[value(b, p) + 1] # 0

\* Variant: the type is not looked at.
booleanUnchecked(b, p) == ~eoo(b, p) /\ value(b, p) < Len(b) /\ boolean(b, p)
booleanSafe(b, p) == isBoolean(b, p) /\ boolean(b, p)
date(h, b, p) == readLE(h, b, value(b, p), ULL)
_numberDouble(h, b, p) == readLE(h, b, value(b, p), DOUBLE)
_numberInt(h, b, p) == readLE(h, b, value(b, p), INT)
_numberLong(h, b, p) == readLE(h, b, value(b, p), LL)

\* A double is in halves: the conversions of C++ truncate toward zero.
TruncHalves(d) == IF d >= 0 THEN d \div 2 ELSE -((-d) \div 2)

numberDouble(h, b, p) ==
    CASE type(b, p) = BSONType.NumberDouble -> _numberDouble(h, b, p)
      [] type(b, p) = BSONType.NumberInt -> 2 * _numberInt(h, b, p)
      [] type(b, p) = BSONType.NumberLong -> 2 * _numberLong(h, b, p)
      [] OTHER -> 0
numberLong(h, b, p) ==
    CASE type(b, p) = BSONType.NumberDouble -> TruncHalves(_numberDouble(h, b, p))
      [] type(b, p) = BSONType.NumberInt -> _numberInt(h, b, p)
      [] type(b, p) = BSONType.NumberLong -> _numberLong(h, b, p)
      [] OTHER -> 0
\* safeNumberLong(): a double that does not fit goes to the nearest long long.
safeNumberLong(h, b, p) ==
    LET max == Power(LL.w) \div 2 - 1
        d == numberDouble(h, b, p)
    IN  CASE type(b, p) = BSONType.NumberDouble /\ d > 2 * max -> max
          [] type(b, p) = BSONType.NumberDouble /\ d < -2 * (max + 1) -> -(max + 1)
          [] OTHER -> numberLong(h, b, p)
\* numberInt() narrows a long long; a double beyond the ints, undefined behaviour, is not asked for.
numberInt(h, b, p) ==
    CASE type(b, p) = BSONType.NumberDouble -> TruncHalves(_numberDouble(h, b, p))
      [] type(b, p) = BSONType.NumberInt -> _numberInt(h, b, p)
      [] type(b, p) = BSONType.NumberLong -> Signed(Unsigned(_numberLong(h, b, p), INT.w), INT.w)
      [] OTHER -> 0

oid(b, off) == SubSeq(b, off + 1, off + kOIDSize)
valuestrsize(h, b, p) == readLE(h, b, value(b, p), INT)
valuestr(b, p) == value(b, p) + 4

\* n characters from offset off, and the C string there.
Chars(b, off, n) == SubSeq(b, off + 1, off + n)
CString(b, off) == Chars(b, off, strlen(b, off))

str(h, b, p) == IF type(b, p) = BSONType.String
                THEN Chars(b, valuestr(b, p), valuestrsize(h, b, p) - 1) ELSE <<>>
valuestrsafe(b, p) == IF type(b, p) = BSONType.String THEN CString(b, valuestr(b, p)) ELSE <<>>
valueStringData(h, b, p) == Chars(b, valuestr(b, p), valuestrsize(h, b, p) - 1)

codeWScopeCodeLen(h, b, p) == readLE(h, b, value(b, p) + 4, INT)
codeWScopeCode(h, b, p) == Chars(b, value(b, p) + 4 + 4, codeWScopeCodeLen(h, b, p) - 1)
codeWScopeScopeData(h, b, p) == value(b, p) + 4 + 4 + codeWScopeCodeLen(h, b, p)
codeWScopeScopeDataUnsafe(b, p) == value(b, p) + 4 + 4 + strlen(b, value(b, p) + 4 + 4) + 1

binDataType(b, p) == b[value(b, p) + 4 + 1]
binData(h, b, p) == Chars(b, value(b, p) + 5, valuestrsize(h, b, p))
\* Variant: the second length of the old subtype is taken for data.
binDataRaw(h, b, p) == binData(h, b, p)
binDataClean(h, b, p) ==
    IF binDataType(b, p) # ByteArrayDeprecated THEN binData(h, b, p)
    ELSE Chars(b, value(b, p) + 5 + 4, valuestrsize(h, b, p) - 4)

regex(b, p) == CString(b, value(b, p))
regexFlags(b, p) == CString(b, value(b, p) + Len(regex(b, p)) + 1)

timestamp(h, b, p) ==
    LET increment == readLEAndAdvance(h, b, value(b, p), UINT)
    IN  [seconds |-> readLE(h, b, increment.cur, UINT), increment |-> increment.v]

dbrefNS(b, p) == CString(b, value(b, p) + 4)
dbrefOID(h, b, p) == oid(b, value(b, p) + 4 + readLE(h, b, value(b, p), INT))

\* BSONElement::size() (in the driver's own source file): one byte of type, the name, the value.
size(h, b, p) ==
    LET t == type(b, p)
        T == BSONType
        val == CASE t \in {T.EOO, T.Undefined, T.jstNULL, T.MinKey, T.MaxKey} -> 0
                 [] t = T.Bool -> 1
                 [] t = T.NumberInt -> 4
                 [] t \in {T.Timestamp, T.Date, T.NumberDouble, T.NumberLong} -> 8
                 [] t = T.jstOID -> kOIDSize
                 [] t \in {T.String, T.Symbol, T.Code} -> valuestrsize(h, b, p) + 4
                 [] t \in {T.Object, T.Array, T.CodeWScope} -> valuestrsize(h, b, p)
                 [] t = T.DBRef -> valuestrsize(h, b, p) + 4 + kOIDSize
                 [] t = T.BinData -> valuestrsize(h, b, p) + 4 + 1
                 [] t = T.RegEx -> Len(regex(b, p)) + 1 + Len(regexFlags(b, p)) + 1
    IN  1 + fieldNameSize(b, p) + val
valuesize(h, b, p) == size(h, b, p) - fieldNameSize(b, p) - 1

\* append(BSONElement) copies the element as it is, appendAs() under a new name.
appendElement(h, b, p) == Chars(b, p, size(h, b, p))
appendAs(h, n, b, p) == Element(type(b, p), n, Chars(b, value(b, p), valuesize(h, b, p)))

\* trueValue(): zero, null, undefined and nothing at all are false.
trueValue(h, b, p) ==
    LET t == type(b, p)
    IN  CASE isNumber(b, p) -> numberDouble(h, b, p) # 0
          [] t = BSONType.Bool -> boolean(b, p)
          [] t \in {BSONType.EOO, BSONType.jstNULL, BSONType.Undefined} -> FALSE
          [] OTHER -> TRUE

\* chk(): the accessors that begin with a capital letter throw unless the type is the one asked
\* for.  What String(), Date(), Double(), Long(), Int(), Bool(), OID() and Timestamp() return.
chk(b, p, t) == type(b, p) = t
Typed(h, b, p, t) ==
    LET T == BSONType
    IN  CASE t = T.String -> str(h, b, p)
          [] t = T.Date -> Signed(date(h, b, p), LL.w)
          [] t = T.NumberDouble -> _numberDouble(h, b, p)
          [] t = T.NumberLong -> _numberLong(h, b, p)
          [] t = T.NumberInt -> _numberInt(h, b, p)
          [] t = T.Bool -> boolean(b, p)
          [] t = T.jstOID -> oid(b, value(b, p))
          [] t = T.Timestamp -> timestamp(h, b, p)

-----------------------------------------------------------------------------
(* BSONObjIterator over the object at offset off *)

\* The bytes at theend are the EOO.
theend(h, b, off) == off + readLE(h, b, off, INT) - 1

\* Where the iterator stands while more() holds, and last of all where it stands when it does
\* not: next() goes on by the size of the element.
Positions(h, b, off) ==
    LET end == theend(h, b, off)
        from[pos \in Nat] == <<pos>> \o IF pos < end THEN from[pos + size(h, b, pos)] ELSE <<>>
    IN  from[off + 4]

\* The elements next() returns, and what f is of each of them.
Iterate(h, b, off) == Front(Positions(h, b, off))
Each(elems, f(_)) == [i \in DOMAIN elems |-> f(elems[i])]

\* BSONObj::getField(): the first element with that name, as an offset; -1 stands for eoo.
getField(h, b, off, name) ==
    LET Named(p) == fieldName(b, p) = name
    IN  Head(Append(SelectSeq(Iterate(h, b, off), Named), -1))

\* hasField(): whether there is one.
hasField(h, b, off, name) == getField(h, b, off, name) # -1

\* isEmpty(), firstElementFieldName(), firstElementType(): without the iterator.
isEmpty(h, obj) == objsize(h, obj) <= 5
firstElementType(obj) == type(obj, 4)
firstElementFieldName(obj) == fieldName(obj, 4)

\* Ordering::make(): the set of the positions of a key pattern whose number is negative, and
\* get(i).
OrderingMake(h, obj) ==
    LET Negative(p) == numberDouble(h, obj, p) < 0
        signs == Each(Iterate(h, obj, 0), Negative)
    IN  {i - 1 : i \in {j \in DOMAIN signs : signs[j]}}
OrderingGet(bits, i) == IF i \in bits THEN -1 ELSE 1
=============================================================================
