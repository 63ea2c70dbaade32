---------------------------- MODULE MCBSONDocument ----------------------------
(* Small instances of BSONDocument for TLC: bytes of four values, so an int *)
(* has 256 values and a long long 65536, and short strings of character     *)
(* codes, some with a NUL inside.                                           *)
EXTENDS BSONDocument

MCNames == {<<>>, <<97>>, <<97, 0>>}
MCHosts == {Host("little", "builtin"), Host("big", "slow")}
MCEnum == {<<120>>, <<120, 121>>}

T(k) == [k |-> k]
ListOf(t) == [k |-> "list", of |-> t]
MapOf(t) == [k |-> "map", of |-> t]
S(t, v) == [ty |-> t, v |-> v]
AB == [k |-> "tuple", attrs |-> <<[n |-> <<97>>, t |-> T("uint32")], [n |-> <<98>>, t |-> ListOf(T("int8"))]>>]

MCSplValues ==
    << S(T("int8"), -2), S(T("uint8"), 3), S(T("int16"), -8), S(T("uint16"), 15),
       S(T("int32"), -128), S(T("int32"), 127), S(T("uint32"), 128), S(T("uint32"), 255),
       S(T("int64"), -32768), S(T("uint64"), 65535), S(T("float64"), -3), S(T("decimal64"), 1),
       S(T("boolean"), TRUE), S(T("boolean"), FALSE), S(T("rstring"), <<97, 0, 98>>),
       S(T("ustring"), <<>>), S(T("xml"), <<60>>), S(T("enum"), <<120>>), S(T("enum"), <<120, 121>>),
       S(T("timestamp"), [s |-> 3, ns |-> 7]), S(T("timestamp"), [s |-> 0, ns |-> 1]),
       S(T("timestamp"), [s |-> -1, ns |-> 2]), S(T("timestamp"), [s |-> -2, ns |-> 1]),
       S(ListOf(T("timestamp")), <<[s |-> -3, ns |-> 0], [s |-> -1, ns |-> 7]>>),
       S(T("blob"), <<7, 0>>), S(T("blob"), <<>>),
       S(ListOf(T("int32")), <<-1, 0, 5>>), S(ListOf(T("int32")), <<>>),
       S(ListOf(ListOf(T("uint32"))), <<<<200>>, <<>>, <<1, 2>>>>),
       S(ListOf(ListOf(T("uint32"))), <<<<200>>, <<1, 2>>>>),
       S(ListOf(T("blob")), <<<<1>>>>), S(ListOf(ListOf(T("uint8"))), <<<<>>, <<>>>>),
       S(MapOf(T("rstring")), <<[n |-> <<>>, v |-> <<0>>], [n |-> <<98>>, v |-> <<97>>]>>),
       S(MapOf(T("int8")), <<[n |-> <<0>>, v |-> 1]>>),
       S(MapOf(ListOf(T("int8"))), <<[n |-> <<97, 0>>, v |-> <<1>>]>>),
       S(MapOf(ListOf(T("boolean"))), <<[n |-> <<97>>, v |-> <<TRUE, FALSE>>], [n |-> <<98>>, v |-> <<>>]>>),
       S(AB, <<255, <<-1, 1>>>>), S(AB, <<7, <<>>>>), S(ListOf(AB), <<<<0, <<>>>>, <<130, <<-2>>>>>>),
       S([k |-> "tuple", attrs |-> <<>>], <<>>) >>

\* Values of other writers; plain ints, longs, strings and dates are among the SPL values.
MCForeign ==
    << [k |-> "bool", v |-> 2], [k |-> "intOrLL", v |-> 62], [k |-> "intOrLL", v |-> -63],
       [k |-> "numberSize", v |-> 63], [k |-> "numberSize", v |-> 64],
       [k |-> "numberLL", v |-> -63], [k |-> "numberLL", v |-> 64], [k |-> "numberLL", v |-> -1024],
       [k |-> "double", v |-> 5], [k |-> "oid", v |-> [i \in 1..12 |-> i % 4]], [k |-> "noOid", v |-> 0],
       [k |-> "timeT", v |-> 9], [k |-> "regex", v |-> <<94>>, f |-> <<105>>],
       [k |-> "code", v |-> <<102, 0, 103>>], [k |-> "symbol", v |-> <<115>>], [k |-> "cstr", v |-> <<97, 0, 98>>],
       [k |-> "null", v |-> 0], [k |-> "minKey", v |-> 0],
       [k |-> "maxKey", v |-> 0], [k |-> "undefined", v |-> 0],
       [k |-> "timestamp", s |-> 200, i |-> 3], [k |-> "dbref", v |-> <<110>>, oid |-> [i \in 1..12 |-> 3]],
       [k |-> "bin", v |-> <<1, 0, 2>>, t |-> 0], [k |-> "binDeprecated", v |-> <<3, 0>>],
       [k |-> "codeWScope", v |-> <<99>>, scope |-> <<1, -1>>], [k |-> "ints", v |-> <<4, -4>>],
       [k |-> "regex", v |-> <<0>>, f |-> <<>>],
       [k |-> "codeWScope", v |-> <<99, 0>>, scope |-> <<2>>], [k |-> "empty", v |-> 0],
       [k |-> "intMap", v |-> <<[n |-> <<98>>, v |-> 5]>>], [k |-> "intMap", v |-> <<[n |-> <<0>>, v |-> 5]>>],
       [k |-> "as", v |-> <<121>>], [k |-> "element", v |-> <<122, 0>>] >>
=============================================================================
