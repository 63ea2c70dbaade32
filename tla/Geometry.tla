------------------------------- MODULE Geometry -------------------------------
(***************************************************************************)
(* The geometry classes of the vendored driver (geo/*.h): GeoJSON objects  *)
(* parsed from BSON or made from values, and their bounding boxes, which   *)
(* are computed when first asked for and cached in the object.             *)
(*                                                                         *)
(* A BSON document is a record of the fields it has.  An element has its   *)
(* type t and its value: a number v (a coordinate is a small integer       *)
(* here), an array a, a string s, an object o.  What may throw gives <<>>  *)
(* when it does and <<result>> when it does not.                           *)
(***************************************************************************)
EXTENDS Integers, Sequences, SequencesExt, TLC

CONSTANTS TCoordinates,  \* the template argument: the names of the axes
          DoubleMax      \* numeric_limits<double>::max(), beyond every coordinate

\* A sequence of outcomes as one: the first exception ends the loop.
Collect(rs) == IF \A i \in DOMAIN rs : rs[i] # <<>> THEN <<[i \in DOMAIN rs |-> rs[i][1]]>> ELSE <<>>
Then(r, F(_)) == IF r = <<>> THEN <<>> ELSE F(r[1])
Loop(a, F(_)) == Collect([i \in DOMAIN a |-> F(a[i])])

-----------------------------------------------------------------------------
(* The BSON a geometry is read from and written to *)

Dbl(v) == [t |-> "double", v |-> v]
Arr(a) == [t |-> "array", a |-> a]
Str(s) == [t |-> "string", s |-> s]

\* BSONElement::Double() and Array() throw on any other type, an int included.
Double(e) == IF e.t = "double" THEN <<e.v>> ELSE <<>>
Array(e) == IF e.t = "array" THEN <<e.a>> ELSE <<>>
Obj(e) == IF e.t = "object" THEN <<e.o>> ELSE <<>>
Has(bson, f) == f \in DOMAIN bson

\* GeoObjType: one type name for each class.
GeoObjType == {"Point", "LineString", "Polygon", "MultiPoint", "MultiLineString", "MultiPolygon",
               "GeometryCollection"}

-----------------------------------------------------------------------------
(* Coordinates: a value for each axis, in the order of the axes *)

Coordinates2D == <<"x", "y">>
Coordinates2DGeographic == <<"longitude", "latitude">>
dimensionality == Len(TCoordinates)

ASSUME CoordinatesAssumption == TCoordinates \in {Coordinates2D, Coordinates2DGeographic} /\ DoubleMax \in Nat

\* The constructor from a vector, whose precondition is its length; a failed one throws.
Coordinates(v) == IF Len(v) = dimensionality THEN <<v>> ELSE <<>>
coordsToBSON(c) == [coordinates |-> Arr([d \in DOMAIN c |-> Dbl(c[d])])]

-----------------------------------------------------------------------------
(* Bounding boxes: _min and _max *)

NoBox == <<>>
Box(min, max) == <<min, max>>

\* BoundingBox(bson): the field bbox has the n low values, then the n high ones.
BoundingBox(bson) ==
    IF ~Has(bson, "bbox") THEN <<>>
    ELSE Then(Array(bson.bbox), LAMBDA a :
           IF Len(a) # 2 * dimensionality THEN <<>>
           ELSE Then(Loop(a, Double), LAMBDA v :
                  <<Box(SubSeq(v, 1, dimensionality), SubSeq(v, dimensionality + 1, Len(v)))>>))

boxToBSONArray(box) == [i \in 1..(2 * dimensionality) |->
                          Dbl(IF i <= dimensionality THEN box[1][i] ELSE box[2][i - dimensionality])]
boxToBSON(box) == [bbox |-> Arr(boxToBSONArray(box))]
boxToNestedBSONArray(box) == [k \in 1..2 |-> coordsToBSON(box[k]).coordinates]

\* A geometry without the field bbox has no box yet.
parseBoundingBox(bson) == IF Has(bson, "bbox") THEN BoundingBox(bson) ELSE <<NoBox>>

-----------------------------------------------------------------------------
(* The objects.  coords is a Point's; kids are the points, line strings, polygons *)
(* or geometries the others are made of; _boundingBox is empty until it is known. *)

Geo(type, coords, kids, bson, box) ==
    [type |-> type, coords |-> coords, kids |-> kids, bson |-> bson, box |-> box]

\* createBSON() of the classes that can be made from values.
createBSONPoint(c) == [type |-> Str("Point")] @@ coordsToBSON(c)
\* Variant of createBSON(): the parts in the reverse order.
createBSONReversed(type, parts) ==
    [type |-> Str(type),
     coordinates |-> Arr(Reverse([i \in DOMAIN parts |-> parts[i].bson.coordinates]))]

createBSONOf(type, parts) ==
    [type |-> Str(type), coordinates |-> Arr([i \in DOMAIN parts |-> parts[i].bson.coordinates])]

PointOf(c) == Geo("Point", c, <<>>, createBSONPoint(c), NoBox)
LineStringOf(points) == Geo("LineString", <<>>, points, createBSONOf("LineString", points), NoBox)
PolygonOf(rings) == Geo("Polygon", <<>>, rings, createBSONOf("Polygon", rings), NoBox)
MultiLineStringOf(lines) ==
    Geo("MultiLineString", <<>>, lines, createBSONOf("MultiLineString", lines), NoBox)

-----------------------------------------------------------------------------
(* Parsing *)

\* The test of the type field is a disjunction: every string passes it.
validateType(bson, typeStr) ==
    IF Has(bson, "type") /\ bson.type.t = "string" THEN <<bson>> ELSE <<>>

getCoordsField(bson) ==
    IF Has(bson, "coordinates") /\ bson.coordinates.t = "array" THEN <<bson.coordinates>> ELSE <<>>
parseCoords(e) == Then(Array(e), LAMBDA a : Loop(a, Double))
parsePoint(e) == Then(parseCoords(e), LAMBDA v : Then(Coordinates(v), LAMBDA c : <<PointOf(c)>>))
parsePointArray(a) == Loop(a, parsePoint)
parseLine(e) == Then(Array(e), LAMBDA a : Then(parsePointArray(a), LAMBDA p : <<LineStringOf(p)>>))
parsePolygon(e) == Then(Array(e), LAMBDA a : Then(Loop(a, parseLine), LAMBDA r : <<PolygonOf(r)>>))

\* The elements of the coordinates, each read by F.
parseAll(bson, F(_)) == Then(getCoordsField(bson), LAMBDA e : Loop(e.a, F))
parseAllPoints(bson) == parseAll(bson, parsePoint)
parseLinearRings(bson) == parseAll(bson, parseLine)
parseLineStrings(bson) == parseAll(bson, parseLine)
parseAllPolygons(bson) == parseAll(bson, parsePolygon)

\* The constructors from BSON: the type, then the parts, then the box.
Made(type, bson, coords, kids) ==
    Then(validateType(bson, type), LAMBDA b :
      Then(coords, LAMBDA c :
        Then(kids, LAMBDA k :
          Then(parseBoundingBox(b), LAMBDA box : <<Geo(type, c, k, b, box)>>))))

Point(bson) ==
    Made("Point", bson,
         Then(getCoordsField(bson), LAMBDA e : Then(parseCoords(e), Coordinates)), <<<<>>>>)
LineString(bson) == Made("LineString", bson, <<<<>>>>, parseAllPoints(bson))
Polygon(bson) == Made("Polygon", bson, <<<<>>>>, parseLinearRings(bson))
MultiPoint(bson) == Made("MultiPoint", bson, <<<<>>>>, parseAllPoints(bson))
MultiLineString(bson) == Made("MultiLineString", bson, <<<<>>>>, parseLineStrings(bson))
MultiPolygon(bson) == Made("MultiPolygon", bson, <<<<>>>>, parseAllPolygons(bson))

\* stringToType() throws on a name that is none of the seven.
stringToType(s) == IF s \in GeoObjType THEN <<s>> ELSE <<>>

RECURSIVE Parse(_)
\* The geometries of a collection, each of the class its own type names.
parseGeometries(bson) ==
    IF ~Has(bson, "geometries") THEN <<>>
    ELSE Then(Array(bson.geometries), LAMBDA a : Loop(a, LAMBDA e : Then(Obj(e), Parse)))
GeometryCollection(bson) == Made("GeometryCollection", bson, <<<<>>>>, parseGeometries(bson))

\* The constructor from BSON of the class a type name stands for.
Construct(type, bson) ==
    CASE type = "Point" -> Point(bson)
      [] type = "LineString" -> LineString(bson)
      [] type = "Polygon" -> Polygon(bson)
      [] type = "MultiPoint" -> MultiPoint(bson)
      [] type = "MultiLineString" -> MultiLineString(bson)
      [] type = "MultiPolygon" -> MultiPolygon(bson)
      [] type = "GeometryCollection" -> GeometryCollection(bson)

\* Parser::parse().
Parse(bson) ==
    IF Has(bson, "type") /\ bson.type.t = "string"
    THEN Then(stringToType(bson.type.s), LAMBDA t : Construct(t, bson)) ELSE <<>>

-----------------------------------------------------------------------------
(* Boxes of objects *)

RECURSIVE getPoints(_)
getPoints(g) ==
    CASE g.type = "Point" -> <<g>>
      [] g.type \in {"LineString", "MultiPoint"} -> g.kids
      [] OTHER -> FlattenSeq([i \in DOMAIN g.kids |-> getPoints(g.kids[i])])

\* Variant: the largest value starts at 0.
findMinAndMaxFromZero(points, d) ==
    [min |-> FoldLeft(LAMBDA m, p : IF p.coords[d] < m THEN p.coords[d] ELSE m, DoubleMax, points),
     max |-> FoldLeft(LAMBDA m, p : IF p.coords[d] > m THEN p.coords[d] ELSE m, 0, points)]

\* From the values farthest from 0 on the wrong side, so that the first point replaces both.
findMinAndMaxCoordinatesOfDimension(points, d) ==
    [min |-> FoldLeft(LAMBDA m, p : IF p.coords[d] < m THEN p.coords[d] ELSE m, DoubleMax, points),
     max |-> FoldLeft(LAMBDA m, p : IF p.coords[d] > m THEN p.coords[d] ELSE m, -DoubleMax, points)]
computeBoundingBox(points) ==
    LET of == [d \in 1..dimensionality |-> findMinAndMaxCoordinatesOfDimension(points, d)]
    IN  Box([d \in DOMAIN of |-> of[d].min], [d \in DOMAIN of |-> of[d].max])

\* The box around boxes: no box around none.
computeBoundingBoxOfBoxes(boxes) ==
    IF boxes = <<>> THEN NoBox
    ELSE LET Wider(a, b) == Box([d \in DOMAIN a[1] |-> IF b[1][d] < a[1][d] THEN b[1][d] ELSE a[1][d]],
                                [d \in DOMAIN a[2] |-> IF b[2][d] > a[2][d] THEN b[2][d] ELSE a[2][d]])
         IN  FoldLeft(Wider, boxes[1], Tail(boxes))

\* computeBoundingBox() of the classes: a point's own coordinates, the points of a shape, the
\* boxes of a collection's geometries.
pointBox(g) == Box(g.coords, g.coords)
shapeBox(g) == computeBoundingBox(getPoints(g))
collectionBox(kids) == computeBoundingBoxOfBoxes([i \in DOMAIN kids |-> kids[i].box])

\* getBoundingBox(): the object afterwards, its box cached and those of a collection's geometries
\* too.  A collection without geometries has no box to dereference.
RECURSIVE getBoundingBox(_)
getBoundingBox(g) ==
    IF g.box # NoBox THEN <<g>>
    ELSE IF g.type = "Point" THEN <<[g EXCEPT !.box = pointBox(g)]>>
    ELSE IF g.type # "GeometryCollection" THEN <<[g EXCEPT !.box = shapeBox(g)]>>
    ELSE Then(Loop(g.kids, getBoundingBox), LAMBDA kids :
           IF collectionBox(kids) = NoBox THEN <<>>
           ELSE <<[g EXCEPT !.kids = kids, !.box = collectionBox(kids)]>>)

-----------------------------------------------------------------------------
(* The queries around an object (queryutils.h): operator, then $geometry *)

ObjE(bson) == [t |-> "object", o |-> bson]
GEOQUERY(op, g) == op :> ObjE("$geometry" :> ObjE(g.bson))
WITHINQUERY(g) == GEOQUERY("$geoWithin", g)
WITHINQUERYBox(box) == "$geoWithin" :> ObjE("$box" :> Arr(boxToNestedBSONArray(box)))
INTERSECTSQUERY(g) == GEOQUERY("$geoIntersects", g)
NEARQUERY(g) == GEOQUERY("$near", g)
NEARSPHEREQUERY(g) == GEOQUERY("$nearSphere", g)

\* With a largest distance, which must not be negative.
Within(op, g, maxDistance) ==
    IF maxDistance >= 0
    THEN <<op :> ObjE(("$geometry" :> ObjE(g.bson)) @@ ("$maxDistance" :> Dbl(maxDistance)))>> ELSE <<>>
NEARQUERYWithin(g, maxDistance) == Within("$near", g, maxDistance)
NEARSPHEREQUERYWithin(g, maxDistance) == Within("$nearSphere", g, maxDistance)
=============================================================================
