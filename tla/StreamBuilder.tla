---------------------------- MODULE StreamBuilder ----------------------------
(***************************************************************************)
(* The stream form of a BSONObjBuilder (bsonmisc.h, bsonobjbuilder.h):     *)
(* BSON("a" << GT << 1 << LT << 9 << "b" << 2).  A BSONObjBuilderValue-    *)
(* Stream holds the name of the field that was begun and the object its    *)
(* labelled values are collected in, until the next name or the end of the *)
(* document closes the field.                                              *)
(*                                                                         *)
(* An element is its name, its value and, when the value is an object made *)
(* of labels, what is in it.  The type C++ gives the last << decides what  *)
(* may follow: at is the builder, the stream after a name, or the Labeler. *)
(***************************************************************************)
EXTENDS Sequences, SequencesExt

None == ""                   \* StringData(), and equal to the empty name
Object == "object"           \* the value of an element that is a subobject
Elem(name, value, sub) == [name |-> name, value |-> value, sub |-> sub]
Plain(name, value) == Elem(name, value, <<>>)

\* A new builder and its stream; label is the one the Labeler holds.
NewStream == [doc |-> <<>>, _fieldName |-> None, _subobj |-> <<>>, label |-> None, at |-> "builder"]

append(b, e) == [b EXCEPT !.doc = Append(@, e)]
haveSubobj(b) == b._subobj # <<>>
subobjStarted(b) == b._fieldName # None

\* endField(): the subobject, if labels began one, is appended under the name; the next name is kept.
endField(b, next) ==
    LET closed == IF haveSubobj(b) THEN append(b, Elem(b._fieldName, Object, b._subobj)) ELSE b
    IN  [closed EXCEPT !._subobj = <<>>, !._fieldName = next]

-----------------------------------------------------------------------------
(* The operators << *)

\* builder << name and builder << BSONField.
shiftName(b, name) == [endField(b, name) EXCEPT !.at = "stream"]
shiftField(b, f) == [endField(b, f.name) EXCEPT !.at = "stream"]

\* stream << value; the labels DATENOW, BSONNULL, BSONUndefined, MINKEY and MAXKEY stand for values.
valueOf == [DATENOW |-> "date", BSONNULL |-> "null", BSONUndefined |-> "undefined",
            MINKEY |-> "minKey", MAXKEY |-> "maxKey"]
shiftValue(b, v, sub) ==
    [append(b, Elem(b._fieldName, v, sub)) EXCEPT !._fieldName = None, !.at = "builder"]
shiftSpecial(b, id) ==
    [append(b, Plain(b._fieldName, valueOf[id])) EXCEPT !._fieldName = None, !.at = "builder"]

\* stream << label gives a Labeler; labeler << value puts the value under the label.
shiftLabel(b, l) == [b EXCEPT !.label = l, !.at = "labeler"]
shiftLabelled(b, v) == [b EXCEPT !._subobj = Append(@, <<b.label, v>>), !.label = None, !.at = "builder"]

\* builder << label goes on with the field that was begun, and throws when there is none.
mayContinue(b) == subobjStarted(b)

\* builder << BSONFieldValue, << BSONElement and << GENOID append at once.
shiftFieldValue(b, fv) == append(b, Elem(fv.name, fv.value, fv.sub))
shiftElement(b, e) == append(b, e)
shiftGENOID(b) == append(b, Plain("_id", "oid"))

\* Variant: obj() leaves the last field open.
finishOpen(b) == [b EXCEPT !.at = "done"]

\* obj() closes the last field.
finish(b) == [endField(b, None) EXCEPT !.at = "done"]

-----------------------------------------------------------------------------
(* What is built from it *)

\* BSONField: make(), gt(), lt(), ne() give a BSONFieldValue.
BSONField(name) == [name |-> name]
BSONFieldValue(name, value, sub) == [name |-> name, value |-> value, sub |-> sub]
make(f, v) == BSONFieldValue(f.name, v, <<>>)
query(f, q, v) == BSONFieldValue(f.name, Object, << <<q, v>> >>)

\* BSON_ARRAY(x << y ...): each value under its index; OR(a, b, ...): the array under $or.
numStr == <<"0", "1", "2", "3", "4", "5">>
BSON_ARRAY(vals) ==
    finish(FoldLeft(LAMBDA b, i : shiftValue(shiftName(b, numStr[i]), vals[i], <<>>),
                    NewStream, [i \in DOMAIN vals |-> i])).doc
OR(queries) == finish(shiftValue(shiftName(NewStream, "$or"), Object, BSON_ARRAY(queries))).doc
=============================================================================
