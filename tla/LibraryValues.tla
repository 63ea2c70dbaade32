---------------------------- MODULE LibraryValues ----------------------------
(***************************************************************************)
(* The value classes of the vendored driver under every sequence of calls  *)
(* on them: strings that grow (TextUtils), numbers that travel between     *)
(* builds (PortableNumbers), sizes a tracker remembers (SizeTracker), and  *)
(* geometry objects that are parsed, made from one another, copied,        *)
(* assigned and asked for their bounding boxes (Geometry), and documents   *)
(* written with << (StreamBuilder).  A behaviour is about one of these     *)
(* subjects; the others keep their initial values.                         *)
(***************************************************************************)
EXTENDS PortableNumbers, TextUtils, Geometry, StreamBuilder, SizeTracker

CONSTANTS Letters,       \* character codes strings are made of
          MaxText,       \* bound: length of a string
          kOIDSize,      \* bytes of an object id, 12 in the code
          MaxNumber,     \* bound: numbers tried
          Docs,          \* sequence of the documents a geometry is read from
          Slots,         \* the geometry objects a program holds
          Points,        \* coordinates of the points made from values
          MaxGeo,        \* bound: calls on geometry objects
          Names,         \* field names written with <<
          MaxSaid        \* bound: operators << of a document

ASSUME LibraryAssumption == kOIDSize \in Nat \ {0}

VARIABLES left, right,   \* two strings
          objs,          \* what each slot holds: <<>> or <<object>>
          ops,           \* calls made on geometry objects
          refused,       \* the document the last parse refused, or 0
          crashed,       \* a slot whose null box was dereferenced, or 0
          built,         \* a builder written to with <<
          said           \* what was written, one <<token, operand>> for each <<

streamVars == <<built, said>>
geoVars == <<objs, ops, refused, crashed>>
vars == <<subject, left, right, number, sizeVars, geoVars, streamVars>>

Init ==
    /\ subject \in {"text", "number", "sizes", "geo", "stream"}
    /\ left = <<>> /\ right = <<>>
    /\ number = 0
    /\ NewTracker
    /\ objs = [s \in Slots |-> <<>>]
    /\ ops = 0 /\ refused = 0 /\ crashed = 0
    /\ built = NewStream /\ said = <<>>

-----------------------------------------------------------------------------
(* Strings and numbers *)

\* str::stream() << v, on either string.
GrowLeft(c) ==
    /\ subject = "text" /\ Len(left) < MaxText
    /\ left' = stream(left, <<c>>)
    /\ UNCHANGED <<subject, right, number, sizeVars, geoVars, streamVars>>
GrowRight(c) ==
    /\ subject = "text" /\ Len(right) < MaxText
    /\ right' = stream(right, <<c>>)
    /\ UNCHANGED <<subject, left, number, sizeVars, geoVars, streamVars>>

\* Object ids: from the bytes of a buffer, in the order of memcmp(); the null one and the largest.
fromBytes(buf) == SubSeq(buf, 1, kOIDSize)
OID0 == [i \in 1..kOIDSize |-> 0]
maxOID == [i \in 1..kOIDSize |-> 255]
compareOID(a, b) == memcmp(a, b, kOIDSize)
isSet(a) == compareOID(a, OID0) # 0

NextNumber ==
    /\ subject = "number" /\ number < MaxNumber
    /\ number' = number + 1
    /\ UNCHANGED <<subject, left, right, sizeVars, geoVars, streamVars>>

\* A finished builder tells its tracker.
Got(n) ==
    /\ subject = "sizes" /\ got(n)
    /\ UNCHANGED <<subject, left, right, number, geoVars, streamVars>>

-----------------------------------------------------------------------------
(* Geometry objects *)

Geometric ==
    /\ subject = "geo" /\ crashed = 0
    /\ ops < MaxGeo /\ ops' = ops + 1
    /\ UNCHANGED <<subject, left, right, number, sizeVars, streamVars>>

\* A new object, in the first free slot, or an exception.
Free == {s \in Slots : objs[s] = <<>>}
Put(made, i) ==
    /\ Free # {}
    /\ IF made = <<>> THEN refused' = i /\ UNCHANGED objs
       ELSE objs' = [objs EXCEPT ![Min(Free)] = made] /\ refused' = 0
    /\ UNCHANGED crashed

\* Parser::parse(doc), and the constructor of a class from a document of any type.
ParseDoc(i) == Geometric /\ Put(Parse(Docs[i]), i)
FromDoc(type, i) == Geometric /\ Put(Construct(type, Docs[i]), 0)

\* The constructors from values.
MakePoint(c) == Geometric /\ Put(<<PointOf(c)>>, 0)
MakeLineString(parts) == Geometric /\ Put(<<LineStringOf(parts)>>, 0)
MakePolygon(parts) == Geometric /\ Put(<<PolygonOf(parts)>>, 0)
MakeMultiLineString(parts) == Geometric /\ Put(<<MultiLineStringOf(parts)>>, 0)

\* The copy constructors and the assignments of the classes that have them: document, parts and
\* box are copied; an assignment swaps a copy in.
Copyable == {"Point", "LineString", "Polygon"}
CopyObject(other) == Geo(other.type, other.coords, other.kids, other.bson, other.box)
Copy(from) ==
    /\ Geometric
    /\ objs[from] # <<>> /\ objs[from][1].type \in Copyable
    /\ Put(<<CopyObject(objs[from][1])>>, 0)
Assign(s, from) ==
    /\ Geometric
    /\ objs[s] # <<>> /\ objs[from] # <<>> /\ s # from
    /\ objs[s][1].type = objs[from][1].type /\ objs[s][1].type \in Copyable
    /\ objs' = [objs EXCEPT ![s] = <<CopyObject(objs[from][1])>>]
    /\ UNCHANGED <<refused, crashed>>

\* The object goes out of scope, a collection with the geometries it owns.
Destroy(s) ==
    /\ Geometric
    /\ objs[s] # <<>>
    /\ objs' = [objs EXCEPT ![s] = <<>>]
    /\ UNCHANGED <<refused, crashed>>

\* getBoundingBox() of the object in slot s.
GetBox(s) ==
    /\ Geometric
    /\ objs[s] # <<>>
    /\ LET after_ == getBoundingBox(objs[s][1])
       IN  IF after_ = <<>> THEN crashed' = s /\ UNCHANGED <<objs, refused>>
           ELSE objs' = [objs EXCEPT ![s] = after_] /\ UNCHANGED <<refused, crashed>>

\* The process ends, and is started again.
Restart ==
    /\ crashed # 0
    /\ objs' = [s \in Slots |-> <<>>] /\ ops' = 0 /\ refused' = 0 /\ crashed' = 0
    /\ UNCHANGED <<subject, left, right, number, sizeVars, streamVars>>

-----------------------------------------------------------------------------
(* Documents written with << *)

Say(token, operand, after_) ==
    /\ subject = "stream" /\ Len(said) < MaxSaid
    /\ built' = after_
    /\ said' = Append(said, <<token, operand>>)
    /\ UNCHANGED <<subject, left, right, number, sizeVars, geoVars>>

\* A name, or a BSONField, may begin a statement of its own after a name without a value.
SayName(n) == built.at \in {"builder", "stream"} /\ Say("name", n, shiftName(built, n))
SayField(n) == built.at \in {"builder", "stream"} /\ Say("name", n, shiftField(built, BSONField(n)))
SayValue == built.at = "stream" /\ Say("value", "v", shiftValue(built, "v", <<>>))
SaySpecial(id) == built.at = "stream" /\ Say("value", valueOf[id], shiftSpecial(built, id))

\* A label on the stream, and on the builder, where massert may throw and leave nothing built.
SayLabel(l) ==
    \/ built.at = "stream" /\ Say("label", l, shiftLabel(built, l))
    \/ built.at = "builder" /\ mayContinue(built) /\ Say("label", l, shiftLabel(built, l))
    \/ built.at = "builder" /\ ~mayContinue(built) /\ Say("label", l, [built EXCEPT !.at = "thrown"])
SayLabelled == built.at = "labeler" /\ Say("labelled", "v", shiftLabelled(built, "v"))

\* What is appended at once.
SayFieldValue(n) == built.at = "builder" /\ Say("now", n, shiftFieldValue(built, make(BSONField(n), "v")))
SayElement(n) == built.at = "builder" /\ Say("now", n, shiftElement(built, Plain(n, "v")))
SayGENOID == built.at = "builder" /\ Say("oid", "_id", shiftGENOID(built))

Finish ==
    /\ subject = "stream" /\ built.at = "builder"
    /\ built' = finish(built)
    /\ UNCHANGED <<subject, left, right, number, sizeVars, geoVars, said>>

-----------------------------------------------------------------------------
\* Up to two parts of a class, taken from the slots.
Held(type) == {s \in Slots : objs[s] # <<>> /\ objs[s][1].type = type}
Parts(type) == {[i \in DOMAIN p |-> objs[p[i]][1]] : p \in UNION {[1..n -> Held(type)] : n \in 0..2}}

Next ==
    \/ \E c \in Letters : GrowLeft(c)
    \/ \E c \in Letters : GrowRight(c)
    \/ NextNumber
    \/ \E n \in Sizes : Got(n)
    \/ \E i \in DOMAIN Docs : ParseDoc(i)
    \/ \E type \in GeoObjType, i \in DOMAIN Docs : FromDoc(type, i)
    \/ \E c \in Points : MakePoint(c)
    \/ \E p \in Parts("Point") : MakeLineString(p)
    \/ \E p \in Parts("LineString") : MakePolygon(p)
    \/ \E p \in Parts("LineString") : MakeMultiLineString(p)
    \/ \E s \in Slots : Copy(s)
    \/ \E s, from \in Slots : Assign(s, from)
    \/ \E s \in Slots : GetBox(s)
    \/ \E s \in Slots : Destroy(s)
    \/ Restart
    \/ \E n \in Names : SayName(n) \/ SayField(n) \/ SayFieldValue(n) \/ SayElement(n)
    \/ \E id \in DOMAIN valueOf : SaySpecial(id)
    \/ \E l \in {"$gt", "$lt"} : SayLabel(l)
    \/ SayValue
    \/ SayLabelled
    \/ SayGENOID
    \/ Finish

Spec == Init /\ [][Next]_vars

-----------------------------------------------------------------------------
(* What the functions should compute *)

Clean(s) == \A i \in DOMAIN s : s[i] # NUL
Lower(s) == [i \in DOMAIN s |-> tolower(s[i])]
Before(s, t) == \/ IsStrictPrefix(s, t)
                \/ \E i \in DOMAIN s \cap DOMAIN t :
                      SubSeq(s, 1, i - 1) = SubSeq(t, 1, i - 1) /\ s[i] < t[i]
Occurs(s, t) == {i \in 0..Len(s) : IsPrefix(t, SubSeq(s, i + 1, Len(s)))}
Least(at) == IF at = {} THEN npos ELSE Min(at)
Greatest(at) == IF at = {} THEN npos ELSE Max(at)

\* What is left of left keeps, in their order, all characters that are none of right's.
StripsAll(rest) ==
    /\ \A c \in Letters : count(rest, c) = IF c \in ToSet(c_str(right)) THEN 0 ELSE count(left, c)
    /\ \A c, d \in Letters :
         (\E i, j \in DOMAIN rest : i < j /\ rest[i] = c /\ rest[j] = d)
            => \E i, j \in DOMAIN left : i < j /\ left[i] = c /\ left[j] = d

\* How deep the coordinates of a class are nested.
Depth == [Point |-> 1, LineString |-> 2, MultiPoint |-> 2, Polygon |-> 3, MultiLineString |-> 3,
          MultiPolygon |-> 4]
Numbers(e, n) == e.t = "array" /\ Len(e.a) = n /\ \A i \in DOMAIN e.a : e.a[i].t \in {"double", "int"}
RECURSIVE Nested(_, _)
Nested(e, n) == IF n = 1 THEN Numbers(e, dimensionality)
                ELSE e.t = "array" /\ \A i \in DOMAIN e.a : Nested(e.a[i], n - 1)
Named(doc) == Has(doc, "type") /\ doc.type.t = "string"
\* A GeoJSON object of this type; its numbers may be ints or doubles, as in the examples of the headers.
RECURSIVE WellFormed(_, _)
WellFormed(type, doc) ==
    /\ Named(doc) /\ type \in GeoObjType
    /\ Has(doc, "bbox") => Numbers(doc.bbox, 2 * dimensionality)
    /\ IF type = "GeometryCollection"
       THEN /\ Has(doc, "geometries") /\ doc.geometries.t = "array"
            /\ \A i \in DOMAIN doc.geometries.a :
                 LET e == doc.geometries.a[i] IN e.t = "object" /\ Named(e.o) /\ WellFormed(e.o.type.s, e.o)
       ELSE Has(doc, "coordinates") /\ Nested(doc.coordinates, Depth[type])

WellFormedDoc(doc) == Named(doc) /\ WellFormed(doc.type.s, doc)

\* Is one of the numbers of an element an int?  Then one of a document's coordinates or its box.
RECURSIVE HasInt(_)
HasInt(e) == CASE e.t = "int" -> TRUE
               [] e.t = "array" -> \E i \in DOMAIN e.a : HasInt(e.a[i])
               [] e.t = "object" -> \E f \in DOMAIN e.o \cap {"coordinates", "bbox", "geometries"} : HasInt(e.o[f])
               [] OTHER -> FALSE
IntNumbers(doc) == HasInt(ObjE(doc))

\* The coordinates of an object, nested as its class is.
RECURSIVE Shape(_)
Shape(g) == IF g.type = "Point" THEN g.coords ELSE [i \in DOMAIN g.kids |-> Shape(g.kids[i])]

\* The points, or corners of given boxes, that bound an object from below (k = 1) and above (k = 2).
RECURSIVE AllCoords(_)
AllCoords(g) == IF g.type = "Point" THEN {g.coords} ELSE UNION {AllCoords(g.kids[i]) : i \in DOMAIN g.kids}
Given(g) == Has(g.bson, "bbox")
GivenCorner(g, k) == [d \in 1..dimensionality |-> g.bson.bbox.a[(k - 1) * dimensionality + d].v]
RECURSIVE Corners(_, _)
Corners(g, k) ==
    IF Given(g) THEN {GivenCorner(g, k)}
    ELSE IF g.type = "GeometryCollection" THEN UNION {Corners(g.kids[i], k) : i \in DOMAIN g.kids}
    ELSE AllCoords(g)

\* An object and all it is made of.
RECURSIVE Family(_)
Family(g) == {g} \cup UNION {Family(g.kids[i]) : i \in DOMAIN g.kids}
Objects == {objs[s][1] : s \in {t \in Slots : objs[t] # <<>>}}

\* No box is given, and there is nothing to compute one from.
RECURSIVE Boxless(_)
Boxless(g) == /\ g.type = "GeometryCollection" /\ ~Given(g)
              /\ g.kids = <<>> \/ \E i \in DOMAIN g.kids : Boxless(g.kids[i])

\* What is said by the << of a document: the name a token belongs to, the names that follow it, the
\* labels of a name, each with its value, and the elements that are complete at token k.
NameAt(k) == Max({0} \cup {i \in 1..(k - 1) : said[i][1] = "name"})
Labels(i) == {k \in DOMAIN said : said[k][1] = "labelled" /\ NameAt(k) = i}
InOrder(at) == SetToSortSeq(at, LAMBDA a, b : a < b)
CompleteAt(k) ==
    LET i == NameAt(k)
        closes == k = Len(said) + 1 \/ said[k][1] = "name"
        sub == [j \in DOMAIN InOrder(Labels(i)) |-> <<said[InOrder(Labels(i))[j] - 1][2], "v">>]
    IN  IF closes THEN IF Labels(i) = {} THEN <<>> ELSE <<Elem(said[i][2], Object, sub)>>
        ELSE CASE said[k][1] = "value" -> <<Plain(said[i][2], said[k][2])>>
               [] said[k][1] = "now" -> <<Plain(said[k][2], "v")>>
               [] said[k][1] = "oid" -> <<Plain("_id", "oid")>>
               [] OTHER -> <<>>
Meant == FlattenSeq([k \in 1..(Len(said) + 1) |-> CompleteAt(k)])

-----------------------------------------------------------------------------
(* Properties *)

\* StringData orders strings as their characters do, whatever NULs they hold, and its finders give
\* the first and the last place, prefixes and suffixes exactly (string_data-inl.h).
StringDataLaws ==
    subject = "text" =>
      /\ compare(left, right) = -compare(right, left)
      /\ less(left, right) <=> Before(left, right)
      /\ equal(left, right) <=> left = right
      /\ find(left, right) = Least(Occurs(left, right))
      /\ startsWith(left, right) <=> 0 \in Occurs(left, right)
      /\ endsWith(left, right) <=> (Len(left) - Len(right)) \in Occurs(left, right)
      /\ equalCaseInsensitive(left, right) <=> Lower(left) = Lower(right)
      /\ \A c \in Letters, from \in 0..(MaxText + 1) :
           LET at == {i \in 0..(Len(left) - 1) : left[i + 1] = c}
           IN  /\ findChar(left, c, from) = Least({i \in at : i >= from})
               /\ rfind(left, c, from) = Greatest({i \in at : i < from})
      /\ fromCStr(copyTo(left, TRUE)) = left <=> Clean(left)

\* Object ids are ordered by their bytes as unsigned numbers, the first byte first, between the null
\* id and max(), and an id is set unless it is the null one, whatever bytes it has (oid.h).
OidOrder ==
    subject = "text" /\ Len(left) >= kOIDSize /\ Len(right) >= kOIDSize =>
      LET a == fromBytes(left) b == fromBytes(right)
      IN  /\ compareOID(a, b) < 0 <=> Before(a, b)
          /\ compareOID(a, b) = 0 <=> a = b
          /\ compareOID(OID0, a) <= 0 /\ compareOID(a, maxOID) <= 0
          /\ isSet(a) <=> \E i \in DOMAIN a : a[i] # 0

\* The functions on C strings agree with StringData on strings without NUL, and on the others with
\* what the strings are up to their first NUL; a split or a cut loses nothing but the separator; the
\* digits are read modulo the width of unsigned; stripTrailing() refuses a NUL, and takes every one of
\* the characters out, though str.h:226 says "remove trailing chars in place" (str.h).
CStringLaws ==
    subject = "text" =>
      LET s == c_str(left) t == c_str(right)
          digits == ToSet(SubSeq(left, 1, FirstAt(Append(s, NUL), 0, LAMBDA c : ~IsDigit(c))))
      IN  /\ strStartsWith(left, right) <=> startsWith(s, t)
          /\ strEndsWithC(left, right) <=> endsWith(s, t)
          /\ Clean(left) /\ Clean(right) => strEndsWith(left, right) <=> endsWith(left, right)
          /\ equals(left, right) <=> equal(s, t)
          /\ contains(left, right) <=> find(s, t) # npos
          /\ Clean(left) /\ Clean(right) /\ contains(left, right) =>
               left = before(left, right) \o right \o after(left, right)
          /\ shareCommonPrefix(left, right) = Max({n \in 0..Len(s) : IsPrefix(SubSeq(s, 1, n), t)})
          /\ \A c \in Letters \ {NUL} :
               LET first == splitOn(s, c) last == rSplitOn(s, c)
               IN  /\ first.found <=> count(s, c) > 0
                   /\ last.found <=> count(s, c) > 0
                   /\ first.found => s = first.L \o <<c>> \o first.R /\ count(first.L, c) = 0
                   /\ last.found => s = last.L \o <<c>> \o last.R /\ count(last.R, c) = 0
                   /\ beforeChar(s, c) = first.L /\ afterChar(s, c) = first.R
                   /\ count(left, c) = Cardinality({i \in DOMAIN left : left[i] = c})
          /\ ltrim(left) = <<>> \/ ltrim(left)[1] # Space
          /\ \E n \in 0..MaxText : s = [i \in 1..n |-> Space] \o ltrim(left)
          /\ digits = {} => toUnsigned(left) = 0
          /\ toUnsigned(left) <= WordMax
          /\ stripTrailing(left, right) = <<>> <=> ~Clean(left)
          /\ Clean(left) => StripsAll(stripTrailing(left, right)[1])

\* A box is the one the document gives, and otherwise the smallest around all points of the object:
\* also in a copy, after the object was made part of another, through collections of collections,
\* and when some of the parts have no points (geometry.h, geometrycollection.h).
BoxTight ==
    \A o \in Objects : \A g \in Family(o) :
        /\ g.box # NoBox /\ Given(g) => g.box = <<GivenCorner(g, 1), GivenCorner(g, 2)>>
        /\ g.box # NoBox /\ Corners(g, 1) # {} =>
             \A d \in 1..dimensionality : /\ g.box[1][d] = Min({c[d] : c \in Corners(g, 1)})
                                          /\ g.box[2][d] = Max({c[d] : c \in Corners(g, 2)})

\* The document of an object, given by the caller or created, reads back as the same shape, and a
\* box reads back from its own document; a query around the object holds it unchanged, and none is
\* made with a negative distance (createBSON() and the parsers, boundingbox.h, queryutils.h).
GeoRoundTrip ==
    \A o \in Objects : \A g \in Family(o) :
        /\ g.bson.type.s = g.type => /\ Parse(g.bson) # <<>>
                                     /\ Parse(g.bson)[1].type = g.type
                                     /\ Shape(Parse(g.bson)[1]) = Shape(g)
        /\ g.bson.type.s = g.type =>
             \A q \in {WITHINQUERY(g), INTERSECTSQUERY(g), NEARQUERY(g), NEARSPHEREQUERY(g)}
                      \cup UNION {ToSet(NEARQUERYWithin(g, d)) \cup ToSet(NEARSPHEREQUERYWithin(g, d)) : d \in -1..1} :
                 LET operand == q[CHOOSE op \in DOMAIN q : TRUE].o
                 IN  /\ Shape(Parse(operand["$geometry"].o)[1]) = Shape(g)
                     /\ Has(operand, "$maxDistance") => operand["$maxDistance"].v >= 0
        /\ g.box # NoBox => /\ BoundingBox(boxToBSON(g.box)) = <<g.box>>
                            /\ WITHINQUERYBox(g.box)["$geoWithin"].o["$box"].a = boxToNestedBSONArray(g.box)
                            /\ FlattenSeq([k \in 1..2 |-> boxToNestedBSONArray(g.box)[k].a]) = boxToBSONArray(g.box)

\* A document is refused exactly when it is no well-formed geometry or has an int among its numbers,
\* and no object is made of one whose coordinates, box or geometries are not those of its class
\* (parser-impl.h, geometry.h, boundingbox.h).  Double() throws on an int, so the code refuses
\* the examples of point.h:61-63 and boundingbox.h:98-102, which are made of int literals.
ParserExact ==
    /\ refused # 0 => ~WellFormedDoc(Docs[refused]) \/ IntNumbers(Docs[refused])
    /\ \A g \in Objects : WellFormed(g.type, g.bson) /\ ~IntNumbers(g.bson)

\* A null box is dereferenced exactly for a collection that is empty, or that has one in it, and
\* gives no box of its own (geometrycollection.h getBoundingBox()).
NullBoxOnlyEmpty ==
    /\ crashed # 0 => Boxless(objs[crashed][1])
    /\ \A g \in Objects : g.box # NoBox => ~Boxless(g)

\* A finished document has one element for every name that was given a value, in the order they were
\* completed; all labels between a name and the next one are in one subobject of it, in order; what
\* BSONField::gt() and OR() make is what << makes (bsonmisc.h: "{ a: { $gt: 23.4, $ne: 30 }, b: 2 }").
StreamAsSaid ==
    /\ built.at = "done" => built.doc = Meant
    /\ \A i \in DOMAIN built.doc :
         LET e == built.doc[i]
         IN  Len(e.sub) = 1 =>
               shiftFieldValue(NewStream, query(BSONField(e.name), e.sub[1][1], e.sub[1][2])).doc = <<e>>
    /\ Len(built.doc) \in 2..6 =>
         LET vals == [i \in DOMAIN built.doc |-> built.doc[i].value]
         IN  OR(vals) = <<Elem("$or", Object, [i \in DOMAIN vals |-> Plain(numStr[i], vals[i])])>>

\* << throws exactly when a label follows a name that already has its value, no name at all, or an
\* empty name whose first label it is not (massert "No subobject started").
StreamRefusals ==
    LET k == Len(said)
        i == NameAt(k)
    IN  said # <<>> /\ said[k][1] = "label" =>
          (built.at = "thrown" <=> \/ i = 0
                                   \/ said[i][2] = None /\ k # i + 1
                                   \/ \E j \in i..k : said[j][1] = "value")

\* Text as a whole: StringData, object ids and C strings, with NULs, empty and equal strings.
TextLaws == StringDataLaws /\ OidOrder /\ CStringLaws

\* Boxes as a whole: tight wherever there is one, and none only where there is nothing to bound.
BoundingBoxes == BoxTight /\ NullBoxOnlyEmpty

\* Geometry documents as a whole: what is made reads back, what is read is well formed, and what is
\* refused is malformed or has ints for its coordinates or its box.
GeoDocuments == GeoRoundTrip /\ ParserExact

\* << as a whole: a finished document is what was said, and << throws only where it must.
StreamLaws == StreamAsSaid /\ StreamRefusals
=============================================================================
