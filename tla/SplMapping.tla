------------------------------ MODULE SplMapping ------------------------------
(***************************************************************************)
(* The conversions the generated operators make between SPL values and     *)
(* BSON: BSONCommon.pm writes a value, QueryCommon.pm reads an attribute.  *)
(*                                                                         *)
(* An SPL type is a record: [k |-> name] for a primitive type, with of for *)
(* the elements of a list (and set) or map, with attrs, a sequence of      *)
(* [n |-> name, t |-> type], for a tuple.  A map value is a sequence of    *)
(* entries [n, v] in key order, a tuple value the sequence of its values.  *)
(***************************************************************************)
EXTENDS BSONFormat

CONSTANT EnumValues       \* the strings isValidValue() accepts

SignedWidth == [int8 |-> 1, int16 |-> 2, int32 |-> 4, int64 |-> 8]
UnsignedWidth == [uint8 |-> 1, uint16 |-> 2, uint32 |-> 4, uint64 |-> 8]
Integral == DOMAIN SignedWidth \cup DOMAIN UnsignedWidth
Floating == {"float64", "decimal64"}
Strings == {"rstring", "ustring", "xml"}
Composite == {"list", "map", "tuple"}

\* The value of an integer assigned to an attribute of type k: it wraps to the width.
Narrow(k, v) == IF k \in DOMAIN SignedWidth
                THEN Signed(Unsigned(v, SignedWidth[k]), SignedWidth[k])
                ELSE Unsigned(v, UnsignedWidth[k])

\* C++ division and remainder truncate toward zero.
Div(a, n) == IF a >= 0 THEN a \div n ELSE -((-a) \div n)
Mod(a, n) == a - n * Div(a, n)

-----------------------------------------------------------------------------
(* BSONCommon.pm *)

\* timestamp -> Date_t: whole milliseconds.
millis(ts) == ts.s * MilliPerSecond + ts.ns \div NanoPerMilli

\* handlePrimitive(): the C++ value passed to append(), and by its type the overload.
\* int8, int16, uint8, uint16 promote to int; float and decimal to double.
Primitive(ty, v) ==
    CASE ty.k = "blob" -> [k |-> "bin", v |-> v, t |-> BinDataGeneral]
      [] ty.k \in Floating -> [k |-> "double", v |-> v]
      [] ty.k \in {"int64", "uint64"} -> [k |-> "long", v |-> Signed(Unsigned(v, LL.w), LL.w)]
      [] ty.k = "uint32" -> [k |-> "unsigned", v |-> v]
      [] ty.k \in Integral \ {"int64", "uint64", "uint32"} -> [k |-> "int", v |-> v]
      [] ty.k = "timestamp" -> [k |-> "date", v |-> millis(v)]
      [] ty.k = "boolean" -> [k |-> "bool", v |-> IF v THEN 1 ELSE 0]
      [] ty.k \in Strings \cup {"enum"} -> [k |-> "str", v |-> v]

\* buildBSONObject(): the calls on builders one value makes, in order.  A list, a map and a
\* tuple get a builder of their own, whose arr() or obj() is appended when it is full.
RECURSIVE Build(_, _, _)
Build(name, ty, v) ==
    LET Entry(i) ==
            CASE ty.k = "list" -> Build(<<>>, ty.of, v[i])
              [] ty.k = "map" -> Build(v[i].n, ty.of, v[i].v)
              [] ty.k = "tuple" -> Build(ty.attrs[i].n, ty.attrs[i].t, v[i])
    IN  IF ty.k \in Composite
        THEN <<[op |-> "new", n |-> name, arr |-> ty.k = "list"]>>
             \o FlattenSeq([i \in DOMAIN v |-> Entry(i)]) \o <<[op |-> "close"]>>
        ELSE <<[op |-> "append", n |-> name, x |-> Primitive(ty, v)]>>

-----------------------------------------------------------------------------
(* QueryCommon.pm *)

\* The value an attribute has before anything is assigned.
RECURSIVE Default(_)
Default(ty) ==
    CASE ty.k \in Integral \cup Floating -> 0
      [] ty.k = "boolean" -> FALSE
      [] ty.k = "timestamp" -> [s |-> 0, ns |-> 0]
      [] ty.k = "enum" -> CHOOSE s \in EnumValues : TRUE
      [] ty.k \in Strings \cup {"blob", "list", "map"} -> <<>>
      [] ty.k = "tuple" -> [i \in DOMAIN ty.attrs |-> Default(ty.attrs[i].t)]

Applied(v) == [applied |-> TRUE, v |-> v]
NotApplied(ty) == [applied |-> FALSE, v |-> Default(ty)]

\* handleTimestamp(): createTimestamp(int64 seconds, uint32 nanoseconds) on a signed number
\* of milliseconds.
createTimestamp(s, ns) == [s |-> s, ns |-> Unsigned(ns, INT.w)]
handleTimestamp(ty, h, b, p) ==
    LET ms == Signed(date(h, b, p), LL.w)
        ts == timestamp(h, b, p)
    IN  CASE type(b, p) = BSONType.Date ->
               Applied(createTimestamp(Div(ms, MilliPerSecond),
                                       Mod(ms, MilliPerSecond) * NanoPerMilli))
          [] type(b, p) = BSONType.Timestamp -> Applied(createTimestamp(ts.seconds, ts.increment))
          [] OTHER -> NotApplied(ty)

\* Variant: only elements of type Int are assigned.
handleIntOnly(ty, h, b, p) ==
    IF type(b, p) = BSONType.NumberInt THEN Applied(Narrow(ty.k, numberInt(h, b, p))) ELSE NotApplied(ty)

\* handleInt(): a double goes through spl_cast (external), an Int and a Long are assigned.
handleInt(ty, h, b, p) ==
    CASE type(b, p) = BSONType.NumberDouble
            -> Applied(Narrow(ty.k, TruncHalves(numberDouble(h, b, p))))
      [] type(b, p) = BSONType.NumberInt -> Applied(Narrow(ty.k, numberInt(h, b, p)))
      [] type(b, p) = BSONType.NumberLong -> Applied(Narrow(ty.k, numberLong(h, b, p)))
      [] OTHER -> NotApplied(ty)

\* handlePrimitive(): nothing is assigned unless the element is of a simple type.
handlePrimitive(ty, h, b, p) ==
    CASE ~isSimpleType(b, p) -> NotApplied(ty)
      [] isSimpleType(b, p) /\ ty.k = "blob" ->
            IF type(b, p) = BSONType.BinData THEN Applied(binDataClean(h, b, p)) ELSE NotApplied(ty)
      [] isSimpleType(b, p) /\ ty.k = "boolean" ->
            IF isBoolean(b, p) THEN Applied(boolean(b, p)) ELSE NotApplied(ty)
      [] isSimpleType(b, p) /\ ty.k = "enum" ->
            IF type(b, p) = BSONType.String /\ str(h, b, p) \in EnumValues
            THEN Applied(str(h, b, p)) ELSE NotApplied(ty)
      [] isSimpleType(b, p) /\ ty.k \in Floating ->
            IF isNumber(b, p) THEN Applied(numberDouble(h, b, p)) ELSE NotApplied(ty)
      [] isSimpleType(b, p) /\ ty.k \in Integral -> handleInt(ty, h, b, p)
      [] isSimpleType(b, p) /\ ty.k \in Strings ->
            IF type(b, p) = BSONType.String THEN Applied(str(h, b, p)) ELSE NotApplied(ty)
      [] isSimpleType(b, p) /\ ty.k = "timestamp" -> handleTimestamp(ty, h, b, p)

\* handleBSONObject() on the element at p: an array or map keeps the entries that were
\* applied and is itself applied if one was; a tuple looks its attributes up by name.
RECURSIVE handleBSONObject(_, _, _, _)
handleBSONObject(ty, h, b, p) ==
    LET Entry(q) == [n |-> fieldName(b, q), e |-> handleBSONObject(ty.of, h, b, q)]
        kept == SelectSeq(Each(Iterate(h, b, value(b, p)), Entry), LAMBDA x : x.e.applied)
        Collected(f(_)) == [applied |-> kept # <<>>, v |-> Each(kept, f)]
        Attr(a) == LET q == getField(h, b, value(b, p), a.n)
                   IN  IF q = -1 THEN Default(a.t) ELSE handleBSONObject(a.t, h, b, q).v
    IN  CASE ty.k = "list" /\ type(b, p) = BSONType.Array -> Collected(LAMBDA x : x.e.v)
          [] ty.k = "map" /\ type(b, p) = BSONType.Object ->
               Collected(LAMBDA x : [n |-> x.n, v |-> x.e.v])
          [] ty.k = "tuple" /\ type(b, p) = BSONType.Object -> Applied(Each(ty.attrs, Attr))
          [] ty.k \notin Composite -> handlePrimitive(ty, h, b, p)
          [] OTHER -> NotApplied(ty)
=============================================================================
