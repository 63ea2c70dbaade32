--------------------------- MODULE MCLibraryValues ---------------------------
(* Small instances of LibraryValues for TLC: strings of up to three of five *)
(* characters, NUL and a digit among them; documents of every class, with   *)
(* and without a box, empty, nested, and wrong in each part.                *)
EXTENDS LibraryValues

MCTCoordinates == Coordinates2D
MCHosts == Builds
MCLetters == {NUL, Space, 49, 65, 97}
MCNames == {None, "a", "b"}
MCPoints == {<<1, -2>>, <<-1, 3>>}

C(x, y) == Arr(<<Dbl(x), Dbl(y)>>)
IntE(v) == [t |-> "int", v |-> v]
O(doc) == ObjE(doc)
D(type, coords) == [type |-> Str(type), coordinates |-> coords]
GC(geometries) == [type |-> Str("GeometryCollection"), geometries |-> Arr(geometries)]
WithBox(doc, a) == doc @@ [bbox |-> Arr(a)]
Wide == <<Dbl(-5), Dbl(-5), Dbl(5), Dbl(5)>>
Line == D("LineString", Arr(<<C(0, 1), C(2, -1)>>))
Rings == Arr(<<Arr(<<C(0, 0), C(2, 0), C(0, 3)>>), Arr(<<C(1, 1)>>)>>)

\* The documents of the examples in point.h:61 and boundingbox.h:98: BSON_ARRAY of int literals.
PointExample == D("Point", Arr(<<IntE(1), IntE(2)>>))
BoxExample == WithBox(D("LineString", Arr(<<Arr(<<IntE(0), IntE(0)>>), Arr(<<IntE(5), IntE(6)>>)>>)),
                      <<IntE(0), IntE(0), IntE(5), IntE(6)>>)

MCDocs ==
    << PointExample, BoxExample, D("Point", C(1, 2)),
       WithBox(D("Point", C(1, 2)), Wide), D("Point", Arr(<<IntE(1), Dbl(2)>>)),
       D("Point", Arr(<<Dbl(1)>>)), Line, D("LineString", Arr(<<>>)), WithBox(Line, Wide),
       D("Polygon", Rings), D("MultiPoint", Arr(<<C(0, 2), C(-1, 1)>>)), D("MultiLineString", Rings),
       D("MultiPolygon", Arr(<<Rings, Arr(<<>>)>>)), D("Circle", C(0, 0)), [coordinates |-> C(0, 0)],
       [type |-> IntE(1), coordinates |-> C(0, 0)], WithBox(Line, <<Dbl(0), Dbl(0), Dbl(1)>>),
       WithBox(Line, <<IntE(0), Dbl(0), Dbl(1), Dbl(1)>>), D("LineString", Dbl(3)),
       GC(<<O(D("Point", C(-2, 4))), O(D("LineString", Arr(<<>>)))>>), GC(<<>>), GC(<<O(GC(<<>>))>>),
       WithBox(GC(<<>>), Wide), GC(<<O(WithBox(Line, Wide)), O(GC(<<O(D("Point", C(6, 0)))>>))>>),
       GC(<<O(WithBox(GC(<<>>), Wide)), O(Line)>>), GC(<<O(Line), Dbl(1)>>),
       [type |-> Str("GeometryCollection"), coordinates |-> C(0, 0)], GC(<<O(D("Circle", C(0, 0)))>>) >>
=============================================================================
