----------------------------- MODULE BSONDocument -----------------------------
(***************************************************************************)
(* A document is built call by call and read back.                         *)
(*                                                                         *)
(* An SPL value is written by the calls the generated code makes for it    *)
(* (BSONCommon.pm); any other document a collection may hold is built by   *)
(* an arbitrary sequence of calls on the driver's builders, sub-builders   *)
(* that share the parent's buffer and looks at the unfinished object       *)
(* included.  When the root builder is done the document is read through   *)
(* the iterator and the accessors, and into an SPL attribute               *)
(* (QueryCommon.pm).                                                       *)
(***************************************************************************)
EXTENDS SplMapping

CONSTANTS SplValues,     \* sequence of [ty, v]: SPL values written by the generated code
          Foreign,       \* sequence of the values other writers append
          Names,         \* field names
          MaxCalls       \* bound: calls that add to another writer's document, a value counting twice

VARIABLES host,          \* byte order of the build
          source,        \* which SPL value is being written, 0 for another writer's document
          todo,          \* calls the generated code still has to make
          calls,         \* calls another writer has made, by weight
          bufs,          \* buffers of the builders that own one, outermost first
          builders,      \* the open builders, outermost first
          doc,           \* the finished document, or <<>>
          built          \* its elements, as they were appended

vars == <<host, source, todo, calls, bufs, builders, doc, built>>

\* The root key of a written value; buildBSONObjectWithKey() makes b0 and one element.
Key == CHOOSE n \in Names : n # <<>>

\* The calls that write SPL value s under the root key, the obj() of b0 last.
Calls(s) == IF s = 0 THEN <<>>
            ELSE Append(Build(Key, SplValues[s].ty, SplValues[s].v), [op |-> "close"])

-----------------------------------------------------------------------------
(* Overload resolution: the bytes append(name, x) adds to the buffer. *)

AppendBytes(h, n, x) ==
    CASE x.k = "bool" -> appendBool(h, n, x.v)
      [] x.k = "int" -> appendInt(h, n, x.v)
      [] x.k = "unsigned" -> appendUnsigned(h, n, x.v)
      [] x.k = "long" -> appendLongLong(h, n, x.v)
      [] x.k = "intOrLL" -> appendIntOrLL(h, n, x.v)
      [] x.k = "numberSize" -> appendNumberSize(h, n, x.v)
      [] x.k = "numberLL" -> appendNumberLL(h, n, x.v)
      [] x.k = "double" -> appendDouble(h, n, x.v)
      [] x.k = "oid" -> appendOID(h, n, x.v)
      [] x.k = "noOid" -> appendOID(h, n, clearedOID)
      [] x.k = "timeT" -> appendTimeT(h, n, x.v)
      [] x.k = "date" -> appendDate(h, n, x.v)
      [] x.k = "regex" -> appendRegex(h, n, x.v, x.f)
      [] x.k = "code" -> appendCode(h, n, x.v)
      [] x.k = "symbol" -> appendSymbol(h, n, x.v)
      [] x.k = "cstr" -> appendString(h, n, cstr(x.v))
      [] x.k = "str" -> appendString(h, n, x.v)
      [] x.k = "null" -> appendNull(h, n)
      [] x.k = "minKey" -> appendMinKey(h, n)
      [] x.k = "maxKey" -> appendMaxKey(h, n)
      [] x.k = "undefined" -> appendUndefined(h, n)
      [] x.k = "timestamp" -> appendTimestamp(h, n, x.s, x.i)
      [] x.k = "dbref" -> appendDBRef(h, n, x.v, x.oid)
      [] x.k = "bin" -> appendBinData(h, n, x.t, x.v)
      [] x.k = "binDeprecated" -> appendBinDataArrayDeprecated(h, n, x.v)
      [] x.k = "codeWScope" -> appendCodeWScope(h, n, x.v, IntArray(h, x.scope))
      [] x.k = "ints" -> appendArray(h, n, IntArray(h, x.v))
      [] x.k = "intMap" -> appendObj(h, n, IntMap(h, x.v))
      [] x.k = "empty" -> appendObj(h, n, EmptyObject)
      [] x.k = "as" -> appendAs(h, n, appendString(h, <<>>, x.v), 0)
      [] x.k = "element" -> LET e == appendString(h, n, x.v) IN appendElement(h, e, 0)

\* What the overloads refuse with an exception: a NUL in the name (appendUndefined(), appendAs()
\* and append(BSONElement) do not look at it), in a map's key, in a regex.
Unchecked(x) == x.k \in {"undefined", "as", "element"}
Accepts(n, x) ==
    /\ Unchecked(x) \/ checkFieldName(n)
    /\ x.k = "regex" => find(x.v, NUL) = -1
    /\ x.k = "intMap" => \A i \in DOMAIN x.v : checkFieldName(x.v[i].n)

-----------------------------------------------------------------------------
(* The state machine *)

top == builders[Len(builders)]
buffer == bufs[Len(bufs)]

\* A builder over a buffer of its own, and one over the buffer of its parent.
Builder(off, n, arr, own) == [off |-> off, n |-> n, arr |-> arr, own |-> own, i |-> 0, elems |-> <<>>]

\* BSONArrayBuilder::num(): the next position; an object takes the name it is given.
NameOf(n) == IF top.arr THEN numStr(top.i) ELSE n

\* The top builder after one more element e under the name the caller gave.
With(n, e) == [builders EXCEPT ![Len(builders)].i = @ + 1,
                               ![Len(builders)].elems = Append(@, [n |-> NameOf(n), x |-> e])]
SetBuffer(b) == [bufs EXCEPT ![Len(bufs)] = b]

Init ==
    /\ host \in Hosts
    /\ source \in 0..Len(SplValues)
    /\ todo = Calls(source)
    /\ calls = 0
    /\ bufs = <<Fresh>>
    /\ builders = <<Builder(0, <<>>, FALSE, TRUE)>>
    /\ doc = <<>>
    /\ built = <<>>

\* What a call counts for against MaxCalls; closing a builder is always possible.
Weight(op) == CASE op = "append" -> 2 [] op = "close" -> 0 [] OTHER -> 1

\* The next call: the generated code's next one, or one of another writer's.
Call(op) ==
    /\ builders # <<>>
    /\ IF source = 0
       THEN /\ calls' = calls + Weight(op.op)
            /\ calls' <= MaxCalls
            /\ UNCHANGED todo
       ELSE todo # <<>> /\ Head(todo) = op /\ todo' = Tail(todo) /\ UNCHANGED calls
    /\ UNCHANGED <<host, source>>

\* b.append(name, value) and its relatives.  An element brings its name along, which is the C
\* string it has in its own document: a caller has no element whose name holds a NUL.
AppendValue(n, x) ==
    /\ Call([op |-> "append", n |-> n, x |-> x])
    /\ Accepts(NameOf(n), x)
    /\ x.k = "element" => checkFieldName(NameOf(n))
    /\ bufs' = SetBuffer(buffer \o AppendBytes(host, NameOf(n), x))
    /\ builders' = With(n, x)
    /\ UNCHANGED <<doc, built>>

\* BSONObjBuilder b; or BSONArrayBuilder b; for a value that will be appended under n.
NewBuilder(n, arr) ==
    /\ Call([op |-> "new", n |-> n, arr |-> arr])
    /\ bufs' = Append(bufs, Fresh)
    /\ builders' = Append(builders, Builder(0, n, arr, TRUE))
    /\ UNCHANGED <<doc, built>>

\* BSONObjBuilder sub(b.subobjStart(n)): the header, then the sub-builder's size field.
SubStart(n, arr) ==
    /\ source = 0
    /\ Call([op |-> "sub", n |-> n, arr |-> arr])
    /\ checkFieldName(NameOf(n))
    /\ LET header == buffer \o subStart(NameOf(n), arr)
       IN  /\ bufs' = SetBuffer(header \o Fresh)
           /\ builders' = Append(builders, Builder(Len(header), n, arr, FALSE))
    /\ UNCHANGED <<doc, built>>

\* asTempObj(): a look at the unfinished object, which leaves its size behind.
Peek ==
    /\ source = 0
    /\ Call([op |-> "peek"])
    /\ bufs' = SetBuffer(asTempObj(host, buffer, top.off))
    /\ UNCHANGED <<builders, doc, built>>

\* done() of a sub-builder: its bytes are already in the parent's buffer.
\* obj() or arr() of a builder of its own, appended to its parent (append, appendArray).
\* obj() of the root: the finished document.
Close ==
    /\ Call([op |-> "close"])
    /\ LET bytes == done(host, buffer, top.off)
           outer == Front(builders)
           up == outer[Len(outer)]
           e == [k |-> IF top.arr THEN "arr" ELSE "obj", elems |-> top.elems]
           name == IF up.arr THEN numStr(up.i) ELSE top.n
           added == [outer EXCEPT ![Len(outer)].i = @ + 1,
                                  ![Len(outer)].elems = Append(@, [n |-> name, x |-> e])]
           appended == bufs[Len(bufs) - 1] \o IF top.arr THEN appendArray(host, name, bytes)
                                                         ELSE appendObj(host, name, bytes)
       IN  \/ /\ outer # <<>> /\ ~top.own
              /\ bufs' = SetBuffer(bytes)
              /\ builders' = added
              /\ UNCHANGED <<doc, built>>
           \/ /\ outer # <<>> /\ top.own /\ checkFieldName(name)
              /\ bufs' = Append(SubSeq(bufs, 1, Len(bufs) - 2), appended)
              /\ builders' = added
              /\ UNCHANGED <<doc, built>>
           \/ /\ outer = <<>>
              /\ doc' = objdata(host, bytes)
              /\ built' = top.elems
              /\ bufs' = <<>> /\ builders' = <<>>

\* Values an append call may be given now: the generated call's own, or any.
Values == IF source = 0 THEN Foreign
          ELSE IF todo # <<>> /\ Head(todo).op = "append" THEN <<Head(todo).x>> ELSE <<>>

\* Names a call may be given now: a generated call's own, or any; an array takes none.
CallNames == IF builders = <<>> THEN {}
             ELSE IF source = 0 THEN (IF top.arr THEN {<<>>} ELSE Names)
             ELSE IF todo # <<>> /\ Head(todo).op # "close" THEN {Head(todo).n} ELSE {}

\* An append throws: every open builder is destroyed, and there is no document.
Refused ==
    /\ \/ \E n \in CallNames, i \in DOMAIN Values :
             Call([op |-> "append", n |-> n, x |-> Values[i]]) /\ ~Accepts(NameOf(n), Values[i])
       \/ \E n \in CallNames :
             source = 0 /\ Call([op |-> "sub", n |-> n, arr |-> FALSE]) /\ ~checkFieldName(NameOf(n))
       \/ /\ Call([op |-> "close"]) /\ Len(builders) > 1 /\ top.own
          /\ ~builders[Len(builders) - 1].arr /\ ~checkFieldName(top.n)
    /\ bufs' = <<>> /\ builders' = <<>>
    /\ UNCHANGED <<doc, built>>

\* The next tuple, or the next document of the collection; Init starts anywhere in the round.
NextDocument ==
    /\ builders = <<>>
    /\ source' = (source + 1) % (Len(SplValues) + 1)
    /\ todo' = Calls(source')
    /\ calls' = 0
    /\ bufs' = <<Fresh>>
    /\ builders' = <<Builder(0, <<>>, FALSE, TRUE)>>
    /\ doc' = <<>> /\ built' = <<>>
    /\ UNCHANGED host

Next ==
    \/ \E n \in CallNames, i \in DOMAIN Values : AppendValue(n, Values[i])
    \/ \E n \in CallNames, arr \in BOOLEAN : NewBuilder(n, arr)
    \/ \E n \in CallNames, arr \in BOOLEAN : SubStart(n, arr)
    \/ Refused
    \/ Peek
    \/ Close
    \/ NextDocument

Spec == Init /\ [][Next]_vars

-----------------------------------------------------------------------------
(* What a document means, whatever its bytes are *)

Numeric == {BSONType.NumberInt, BSONType.NumberLong, BSONType.NumberDouble}
Untyped == {BSONType.jstNULL, BSONType.MinKey, BSONType.MaxKey, BSONType.Undefined}
IntItems(v) == [i \in DOMAIN v |-> [n |-> numStr(i - 1), x |-> [k |-> "int", v |-> v[i]]]]

\* The type an element may have and its value; numbers are compared in halves.
RECURSIVE Meaning(_)
Meaning(x) ==
    LET T == BSONType
        Of(t, v) == [t |-> t, v |-> v]
        All(elems) == [i \in DOMAIN elems |-> [n |-> elems[i].n, e |-> Meaning(elems[i].x)]]
        nul == SelectInSeq(x.v, LAMBDA c : c = NUL)
    IN  CASE x.k = "bool" -> Of({T.Bool}, x.v # 0)
          [] x.k = "int" -> Of({T.NumberInt}, 2 * x.v)
          [] x.k = "unsigned" -> Of({T.NumberInt}, 2 * (IF x.v > MaxInt THEN x.v - Power(INT.w) ELSE x.v))
          [] x.k = "long" -> Of({T.NumberLong}, 2 * x.v)
          [] x.k \in {"intOrLL", "numberSize", "numberLL"} -> Of(Numeric, 2 * x.v)
          [] x.k = "double" -> Of({T.NumberDouble}, x.v)
          [] x.k = "oid" -> Of({T.jstOID}, x.v)
          [] x.k = "noOid" -> Of({T.jstOID}, [i \in 1..kOIDSize |-> 0])
          [] x.k = "timeT" -> Of({T.Date}, x.v * MilliPerSecond)
          [] x.k = "date" -> Of({T.Date}, x.v)
          [] x.k = "regex" -> Of({T.RegEx}, <<x.v, x.f>>)
          [] x.k = "code" -> Of({T.Code}, x.v)
          [] x.k = "symbol" -> Of({T.Symbol}, x.v)
          [] x.k \in {"str", "as", "element"} -> Of({T.String}, x.v)
          [] x.k = "cstr" -> Of({T.String}, IF nul = 0 THEN x.v ELSE SubSeq(x.v, 1, nul - 1))
          [] x.k = "null" -> Of({T.jstNULL}, <<>>)
          [] x.k = "minKey" -> Of({T.MinKey}, <<>>)
          [] x.k = "maxKey" -> Of({T.MaxKey}, <<>>)
          [] x.k = "undefined" -> Of({T.Undefined}, <<>>)
          [] x.k = "timestamp" -> Of({T.Timestamp}, <<x.s, x.i>>)
          [] x.k = "dbref" -> Of({T.DBRef}, <<x.v, x.oid>>)
          [] x.k \in {"bin", "binDeprecated"} -> Of({T.BinData}, x.v)
          [] x.k = "codeWScope" -> Of({T.CodeWScope}, <<x.v, All(IntItems(x.scope))>>)
          [] x.k = "ints" -> Of({T.Array}, All(IntItems(x.v)))
          [] x.k = "intMap" -> Of({T.Object}, All([i \in DOMAIN x.v |-> [n |-> x.v[i].n, x |-> [k |-> "int", v |-> x.v[i].v]]]))
          [] x.k = "empty" -> Of({T.Object}, <<>>)
          [] x.k = "arr" -> Of({T.Array}, All(x.elems))
          [] x.k = "obj" -> Of({T.Object}, All(x.elems))

\* The same, read from the bytes with the iterator and the accessors: the element at p.
RECURSIVE ReadElement(_, _, _)
ReadElement(h, b, p) ==
    LET T == BSONType
        t == type(b, p)
        Entry(q) == [n |-> fieldName(b, q), e |-> ReadElement(h, b, q)]
        All(off) == Each(Iterate(h, b, off), Entry)
        v == CASE t \in Numeric -> numberDouble(h, b, p)
               [] t = T.Bool -> boolean(b, p)
               [] t = T.jstOID -> oid(b, value(b, p))
               [] t = T.Date -> Signed(date(h, b, p), LL.w)
               [] t = T.RegEx -> <<regex(b, p), regexFlags(b, p)>>
               [] t \in {T.Code, T.Symbol} -> valueStringData(h, b, p)
               [] t = T.String -> str(h, b, p)
               [] t \in Untyped -> <<>>
               [] t = T.Timestamp -> <<timestamp(h, b, p).seconds, timestamp(h, b, p).increment>>
               [] t = T.DBRef -> <<dbrefNS(b, p), dbrefOID(h, b, p)>>
               [] t = T.BinData -> binDataClean(h, b, p)
               [] t = T.CodeWScope -> <<codeWScopeCode(h, b, p), All(codeWScopeScopeData(h, b, p))>>
               [] isABSONObj(b, p) -> All(value(b, p))
    IN  [t |-> t, v |-> v]

\* got is what was meant: same names in the same order, allowed types, equal values.
RECURSIVE Same(_, _)
Same(got, want) ==
    LET All(g, w) == Len(g) = Len(w) /\ \A i \in DOMAIN w : g[i].n = w[i].n /\ Same(g[i].e, w[i].e)
    IN  /\ got.t \in want.t
        /\ CASE isABSONObj(<<got.t>>, 0) -> All(got.v, want.v)
             [] got.t = BSONType.CodeWScope -> got.v[1] = want.v[1] /\ All(got.v[2], want.v[2])
             [] OTHER -> got.v = want.v

\* The format the comment of BSONObj defines: total size, elements, EOO, numbers little endian.
RECURSIVE Format(_)
Format(elems) ==
    LET Bytes(x, n) == IF x.k \in {"arr", "obj"} THEN subStart(n, x.k = "arr") \o Format(x.elems)
                                                 ELSE AppendBytes(Host("little", "builtin"), n, x)
        body == FlattenSeq([i \in DOMAIN elems |-> Bytes(elems[i].x, elems[i].n)])
    IN  Digits(INT.w + Len(body) + 1, INT.w) \o body \o <<0>>

\* Is every name, of the elements and of those inside them, the C string the format asks for?
RECURSIVE CStringNames(_)
CStringNames(elems) ==
    \A i \in DOMAIN elems :
        checkFieldName(elems[i].n) /\ (elems[i].x.k \in {"arr", "obj"} => CStringNames(elems[i].x.elems))

\* A finished document whose names are C strings: what a reader is meant for.
Readable == doc # <<>> /\ CStringNames(built)

\* The types a capital letter accessor asks for.
TypedTypes == {BSONType.String, BSONType.Date, BSONType.NumberDouble, BSONType.NumberLong,
               BSONType.NumberInt, BSONType.Bool, BSONType.jstOID, BSONType.Timestamp}

\* What a Query stores in an attribute of type ty for a written v: a blob is not read (it is not a
\* simple type), nor a collection with nothing in it that is read; a list and a map have the others
\* of their entries, in order; a timestamp has its whole milliseconds.
RECURSIVE Stays(_, _)
Stays(ty, v) ==
    CASE ty.k = "blob" -> FALSE
      [] ty.k = "list" -> \E i \in DOMAIN v : Stays(ty.of, v[i])
      [] ty.k = "map" -> \E i \in DOMAIN v : Stays(ty.of, v[i].v)
      [] OTHER -> TRUE
RECURSIVE Reread(_, _)
Reread(ty, v) ==
    CASE ty.k = "blob" -> <<>>
      [] ty.k = "timestamp" -> [v EXCEPT !.ns = @ - (@ % NanoPerMilli)]
      [] ty.k = "list" -> Each(SelectSeq(v, LAMBDA x : Stays(ty.of, x)), LAMBDA x : Reread(ty.of, x))
      [] ty.k = "map" -> Each(SelectSeq(v, LAMBDA x : Stays(ty.of, x.v)),
                              LAMBDA x : [n |-> x.n, v |-> Reread(ty.of, x.v)])
      [] ty.k = "tuple" -> [i \in DOMAIN v |-> Reread(ty.attrs[i].t, v[i])]
      [] OTHER -> v

\* Is there a time in v before the epoch by other than whole seconds, once cut to milliseconds?
RECURSIVE PartBeforeEpoch(_, _)
PartBeforeEpoch(ty, v) ==
    CASE ty.k = "timestamp" -> v.s < 0 /\ v.ns >= NanoPerMilli
      [] ty.k = "list" -> \E i \in DOMAIN v : PartBeforeEpoch(ty.of, v[i])
      [] ty.k = "map" -> \E i \in DOMAIN v : PartBeforeEpoch(ty.of, v[i].v)
      [] ty.k = "tuple" -> \E i \in DOMAIN v : PartBeforeEpoch(ty.attrs[i].t, v[i])
      [] OTHER -> FALSE

\* The bytes of an integer type, and the numbers it has.
Width(k) == IF k \in DOMAIN SignedWidth THEN SignedWidth[k] ELSE UnsignedWidth[k]
NumbersOf(k) == IF k \in DOMAIN SignedWidth
                THEN -(Power(Width(k)) \div 2) .. Power(Width(k)) \div 2 - 1
                ELSE 0 .. Power(Width(k)) - 1

\* The attribute of type ty read from the root element of the finished document.
Attribute(ty) == handleBSONObject(ty, host, doc, getField(host, doc, 0, Key))

-----------------------------------------------------------------------------
(* Properties *)

\* The builders that own a buffer have one each, from its start, and none is left when the
\* document is finished.
TypeOK ==
    /\ host \in Hosts
    /\ source \in 0..Len(SplValues)
    /\ calls \in 0..MaxCalls
    /\ Len(bufs) = Cardinality({i \in DOMAIN builders : builders[i].own})
    /\ \A i \in DOMAIN builders : builders[i].own => builders[i].off = 0
    /\ doc # <<>> => builders = <<>>

\* Whatever the byte order of the build and however the calls were nested (builders of their
\* own, sub-builders over the parent's buffer, looks at an unfinished object in between), every
\* open builder is at its place in its own buffer and the finished document is laid out as the BSON
\* format of the elements appended: every size counts exactly the bytes up to its EOO and every
\* number is little endian (bsonobjbuilder.h _done()).  That holds for a name with a NUL too, which
\* the unchecked appends write as they are given it; such a document is no BSON (ReadBack).
WireFormat == TypeOK /\ (doc # <<>> => doc = Format(built))

\* What a reader of a C string sees of s.
UpToNul(s) == SubSeq(s, 1, SelectInSeq(Append(s, NUL), LAMBDA c : c = NUL) - 1)

\* A reader gets back, in order, exactly the names, types and values the writer appended, and
\* the iterator stops on the EOO of every object it enters, for every document whose names have no
\* NUL in them; a name that has one, which appendAs() and appendUndefined() let through, ends there
\* (bsonelement.h, bsonobjiterator.h, bsonobjbuilder.h:132, 579).
ReadBack ==
    /\ doc # <<>> /\ built # <<>> => firstElementFieldName(doc) = UpToNul(built[1].n)
    /\ Readable =>
        LET stop == Last(Positions(host, doc, 0))
            Entry(p) == [n |-> fieldName(doc, p), e |-> ReadElement(host, doc, p)]
        IN  /\ stop = theend(host, doc, 0) /\ eoo(doc, stop) /\ stop = Len(doc) - 1
            /\ Same([t |-> BSONType.Object, v |-> Each(Iterate(host, doc, 0), Entry)],
                    Meaning([k |-> "obj", elems |-> built]))

\* What a capital letter accessor returned, in the unit of Meaning.
Plain(t, v) == CASE t = BSONType.Timestamp -> <<v.seconds, v.increment>>
                 [] t \in {BSONType.NumberInt, BSONType.NumberLong} -> 2 * v
                 [] OTHER -> v

\* The accessors on the element at p, which should mean w.
AccessorsAt(p, w) ==
    LET Is(t) == w.t = {t}
    IN  /\ \A t \in TypedTypes :
             chk(doc, p, t) => t \in w.t /\ Plain(t, Typed(host, doc, p, t)) = w.v
        /\ (\E t \in TypedTypes : Is(t)) => \E t \in TypedTypes : chk(doc, p, t)
        /\ ok(doc, p) /\ (isNull(doc, p) <=> Is(BSONType.jstNULL))
        /\ IF w.t \cap Numeric # {}
           THEN safeNumberLong(host, doc, p) = TruncHalves(w.v) /\ (trueValue(host, doc, p) <=> w.v # 0)
           ELSE numberDouble(host, doc, p) = 0 /\ numberInt(host, doc, p) = 0
        /\ booleanSafe(doc, p) <=> (Is(BSONType.Bool) /\ w.v)
        /\ Is(BSONType.String) \/ valuestrsafe(doc, p) = <<>>
        /\ Is(BSONType.CodeWScope) =>
             /\ mayEncapsulate(doc, p)
             /\ codeWScopeScopeDataUnsafe(doc, p) = codeWScopeScopeData(host, doc, p)
                <=> SelectInSeq(w.v[1], LAMBDA c : c = NUL) = 0

\* The accessors on the elements e, which should mean want, and the sort order of their types.
AccessorsOn(e, want, ordering) ==
    LET Num(i) == want[i].t \cap Numeric # {}
        Canonical(i) == canonicalType(doc, e[i])
    IN  /\ \A i \in DOMAIN e :
             /\ AccessorsAt(e[i], want[i])
             /\ OrderingGet(ordering, i - 1) = -1 <=> (Num(i) /\ want[i].v < 0)
        /\ \A i, j \in DOMAIN e :
             /\ Num(i) /\ Num(j) => Canonical(i) = Canonical(j)
             /\ want[i].t = {BSONType.MinKey} => Canonical(i) <= Canonical(j)
             /\ want[i].t = {BSONType.MaxKey} => Canonical(i) >= Canonical(j)

\* The accessors that check or convert agree with what was appended: a capital letter accessor
\* gives the value or throws, never the bytes of another type; the safe ones give their default;
\* the shortcuts that skip the iterator give what the walk gives; the deprecated way to a scope is
\* wrong exactly for code with a NUL in it.  The names of the document have no NUL in them
\* (bsonelement.h, bsonobj.h, ordering.h).
Accessors ==
    Readable =>
        /\ isEmpty(host, doc) <=> built = <<>>
        /\ eoo(doc, 4) <=> built = <<>>
        /\ firstElementFieldName(doc) = (IF built = <<>> THEN <<>> ELSE built[1].n)
        /\ firstElementType(doc) \in (IF built = <<>> THEN {BSONType.EOO} ELSE Meaning(built[1].x).t)
        /\ \A n \in Names : hasField(host, doc, 0, n) <=> \E i \in DOMAIN built : built[i].n = n
        /\ AccessorsOn(Iterate(host, doc, 0), Each(built, LAMBDA e : Meaning(e.x)),
                       OrderingMake(host, doc))

\* got is what a Query gets, in an attribute of type k, of an integer v written from type ty: of
\* the numbers of k the one equal to v modulo the width of k, so v itself when it is one of them.
\* An uint32 above the ints is stored as a negative Int; of it a wider type gets the 32 bits only.
IntegerReadAs(ty, v, k, got) ==
    LET negative == ty.k = "uint32" /\ v > MaxInt /\ Width(k) > INT.w
    IN  /\ got \in NumbersOf(k)
        /\ (got - v) % Power(IF negative THEN INT.w ELSE Width(k)) = 0
        /\ negative => got # v

\* got is what an attribute of type ty should get of what an operator wrote from spl.
ReadAs(spl, ty, got) ==
    /\ ty = spl.ty => (got = Reread(ty, spl.v) <=> ~PartBeforeEpoch(ty, spl.v))
    /\ ty.k \in Integral => IntegerReadAs(spl.ty, spl.v, ty.k, got)

\* A Query reads what an operator wrote.  As the same type: the value itself, but for what Stays and
\* Reread name, and the only values that come back wrong are times before the epoch with a part of
\* a second, whose negative remainder is taken as unsigned.  As another integer type: what fits, and
\* otherwise what is left in the width of the attribute (BSONCommon.pm:167, QueryCommon.pm:121, 215,
\* 333).
RoundTrip ==
    doc # <<>> /\ source # 0 =>
        LET spl == SplValues[source]
        IN  \A ty \in {spl.ty} \cup {[k |-> k] : k \in IF spl.ty.k \in Integral THEN Integral ELSE {}} :
                ReadAs(spl, ty, Attribute(ty).v)
=============================================================================
