----------------------------- MODULE SizeTracker -----------------------------
(***************************************************************************)
(* BSONSizeTracker (bson/bsonmisc.h): the sizes of the last documents that *)
(* were built, from which the next builder takes the size of its buffer.   *)
(***************************************************************************)
EXTENDS Integers, Sequences, SequencesExt, FiniteSetsExt

CONSTANTS TrackerSIZE,   \* sizes a tracker keeps, 10 in the code
          Sizes          \* sizes of finished buffers

ASSUME TrackerAssumption == TrackerSIZE \in Nat \ {0} /\ Sizes \subseteq Nat

VARIABLES _sizes, _pos,
          seen           \* the last sizes it was given, newest first

sizeVars == <<_sizes, _pos, seen>>

\* The sizes a new tracker starts with.
NewTracker ==
    /\ _sizes = [i \in 0..(TrackerSIZE - 1) |-> 512]
    /\ _pos = 0
    /\ seen = [i \in 1..TrackerSIZE |-> 512]

\* Variant of got(): the position does not move.
gotInPlace(n) ==
    /\ _sizes' = [_sizes EXCEPT ![_pos] = n]
    /\ seen' = <<n>> \o Front(seen)
    /\ UNCHANGED _pos

\* got(): the oldest size is replaced.
got(n) ==
    /\ _sizes' = [_sizes EXCEPT ![_pos] = n]
    /\ _pos' = (_pos + 1) % TrackerSIZE
    /\ seen' = <<n>> \o Front(seen)

\* getSize(): the largest of the sizes kept, 16 at least.
getSize ==
    LET x[i \in 0..TrackerSIZE] ==
            IF i = 0 THEN 16 ELSE IF _sizes[i - 1] > x[i - 1] THEN _sizes[i - 1] ELSE x[i - 1]
    IN  x[TrackerSIZE]

TrackerNext == \E n \in Sizes : got(n)
TrackerSpec == NewTracker /\ [][TrackerNext]_sizeVars

\* A tracker suggests the largest of the last TrackerSIZE sizes it was given, whatever the order
\* they came in, and never less than 16, and stays in its array (bsonmisc.h).
SizeRemembered == _pos \in DOMAIN _sizes /\ getSize = Max({16} \cup ToSet(seen))
=============================================================================
