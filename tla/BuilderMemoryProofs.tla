------------------------ MODULE BuilderMemoryProofs ------------------------
(***************************************************************************)
(* BuilderMemory for every buffer size, limit and nesting: the reserved    *)
(* byte of every open builder is in the buffer, and every block of the     *)
(* heap has one owner.                                                     *)
(***************************************************************************)
EXTENDS BuilderMemory, SizeTracker, FiniteSetTheorems, SequenceTheorems, WellFoundedInduction, TLAPS

\* The state a fresh BSONObjBuilder or StringBuilder is declared in satisfies the invariant.
LEMMA InitIInv == Init => IInv
<1> SUFFICES ASSUME Init PROVE IInv
  OBVIOUS
<1>1. IsFiniteSet(lost) /\ Cardinality(lost) = 0
  BY FS_EmptySet DEF Init
<1>5. topDone \in BOOLEAN /\ wild \in BOOLEAN /\ stack \in BOOLEAN
  BY Zenon DEF Init
<1>6. a \in Int /\ l \in Nat /\ size \in Nat /\ reservedBytes \in Nat /\ depth \in Nat
      /\ minSize \in Nat /\ by \in Nat /\ ooms \in Nat
  BY BuilderAssumption DEF Init
<1>2. TypeOK
  BY <1>5, <1>6 DEF Init, TypeOK, States
<1>4. Shape
  BY <1>1, BuilderAssumption DEF Init, Shape, Constructing
<1>3. DoneCannotFail /\ OwnedOnce /\ NoWildAccess
  BY <1>1, BuilderAssumption DEF Init, DoneCannotFail, OwnedOnce, NoWildAccess
<1> QED
  BY <1>2, <1>3, <1>4 DEF IInv

LEMMA ConstructKeeps ==
    ASSUME NEW k \in {"object", "string"}, NEW st \in BOOLEAN, IInv, Construct(k, st), (st => k = "string")
    PROVE  IInv'
<1>1. TypeOK'
  <2>1. size' \in Nat /\ l' \in Nat /\ reservedBytes' \in Nat /\ depth' \in Nat /\ ooms' \in Nat
    BY BuilderAssumption DEF IInv, TypeOK, Construct, Oom
  <2>2. data' \in Block \cup {NULL, BUF} /\ live' \subseteq Block
    BY BuilderAssumption DEF IInv, TypeOK, Construct
  <2>3. pc' \in States /\ topDone' \in BOOLEAN /\ kind' \in {"object", "string"} /\ stack' \in BOOLEAN
    BY DEF IInv, TypeOK, Construct, States
  <2> QED
    BY <2>1, <2>2, <2>3 DEF IInv, TypeOK, Construct, growth
<1>2. Shape'
  BY BuilderAssumption DEF IInv, TypeOK, Shape, DoneCannotFail, OwnedOnce, NoWildAccess, States, Constructing, Reserving, Undone, members, growth, Construct, Malloc, Oom
<1>3. DoneCannotFail'
  BY BuilderAssumption DEF IInv, TypeOK, Shape, DoneCannotFail, OwnedOnce, NoWildAccess, States, Constructing, Reserving, Undone, members, growth, Construct, Malloc, Oom
<1>4. OwnedOnce'
  <2>1. /\ live = lost /\ obj = NULL /\ lost' = lost /\ obj' = NULL
        /\ Cardinality(lost) <= ooms /\ lost \subseteq Block
    BY BuilderAssumption DEF IInv, TypeOK, Shape, OwnedOnce, Construct
  <2>2. CASE UNCHANGED ooms /\ data' \in Block \cup {BUF} /\ data' \notin live
             /\ live' = (IF data' = BUF THEN live ELSE live \cup {data'}) /\ pc' # "none"
    BY <2>1, <2>2, BuilderAssumption DEF OwnedOnce
  <2>3. CASE ooms' = ooms + 1 /\ data' = NULL /\ UNCHANGED <<live, pc>>
    <3>1. Cardinality(lost) \in Nat /\ ooms \in Nat
      BY FS_CardinalityType DEF IInv, Shape, TypeOK
    <3>2. Cardinality(lost') <= ooms'
      BY <2>1, <2>3, <3>1
    <3> QED
      BY <2>1, <2>3, <3>2, BuilderAssumption DEF OwnedOnce
  <2> QED
    BY <2>1, <2>2, <2>3, BuilderAssumption DEF Construct, Malloc, Oom, IInv, TypeOK
<1>5. NoWildAccess'
  BY BuilderAssumption DEF IInv, TypeOK, Shape, DoneCannotFail, OwnedOnce, NoWildAccess, States, Constructing, Reserving, Undone, members, growth, Construct, Malloc, Oom
<1> QED
  BY <1>1, <1>2, <1>3, <1>4, <1>5 DEF IInv

LEMMA ConstructorBodyKeeps ==
    ASSUME IInv, ConstructorBody
    PROVE  IInv'
<1>1. TypeOK'
  BY BuilderAssumption DEF IInv, TypeOK, Shape, DoneCannotFail, OwnedOnce, NoWildAccess, States, Constructing, Reserving, Undone, members, growth, ConstructorBody, SkipHolder, SkipSize, ReserveEOO, Grow, Use
<1>2. Shape'
  BY BuilderAssumption DEF IInv, TypeOK, Shape, DoneCannotFail, OwnedOnce, NoWildAccess, States, Constructing, Reserving, Undone, members, growth, ConstructorBody, SkipHolder, SkipSize, ReserveEOO, Grow, Use
<1>3. DoneCannotFail'
  BY BuilderAssumption DEF IInv, TypeOK, Shape, DoneCannotFail, OwnedOnce, NoWildAccess, States, Constructing, Reserving, Undone, members, growth, ConstructorBody, SkipHolder, SkipSize, ReserveEOO, Grow, Use
<1>4. OwnedOnce'
  BY BuilderAssumption DEF IInv, TypeOK, Shape, DoneCannotFail, OwnedOnce, NoWildAccess, States, Constructing, Reserving, Undone, members, growth, ConstructorBody, SkipHolder, SkipSize, ReserveEOO, Grow, Use
<1>5. NoWildAccess'
  BY BuilderAssumption DEF IInv, TypeOK, Shape, DoneCannotFail, OwnedOnce, NoWildAccess, States, Constructing, Reserving, Undone, members, growth, ConstructorBody, SkipHolder, SkipSize, ReserveEOO, Grow, Use
<1> QED
  BY <1>1, <1>2, <1>3, <1>4, <1>5 DEF IInv

LEMMA OpenedKeeps ==
    ASSUME IInv, Opened
    PROVE  IInv'
<1>1. TypeOK'
  <2>1. topDone' \in BOOLEAN
    BY Zenon DEF Opened
  <2>2. depth' \in Nat /\ pc' \in States
    BY DEF IInv, TypeOK, States, Opened
  <2> QED
    BY <2>1, <2>2 DEF IInv, TypeOK, Opened, members, growth
<1>2. Shape'
  BY BuilderAssumption DEF IInv, TypeOK, Shape, DoneCannotFail, OwnedOnce, NoWildAccess, States, Constructing, Reserving, Undone, members, growth, Opened
<1>3. DoneCannotFail'
  BY BuilderAssumption DEF IInv, TypeOK, Shape, DoneCannotFail, OwnedOnce, NoWildAccess, States, Constructing, Reserving, Undone, members, growth, Opened
<1>4. OwnedOnce'
  BY BuilderAssumption DEF IInv, TypeOK, Shape, DoneCannotFail, OwnedOnce, NoWildAccess, States, Constructing, Reserving, Undone, members, growth, Opened
<1>5. NoWildAccess'
  BY BuilderAssumption DEF IInv, TypeOK, Shape, DoneCannotFail, OwnedOnce, NoWildAccess, States, Constructing, Reserving, Undone, members, growth, Opened
<1> QED
  BY <1>1, <1>2, <1>3, <1>4, <1>5 DEF IInv

LEMMA AppendBytesKeeps ==
    ASSUME NEW n \in 1..MaxAppend, IInv, AppendBytes(n)
    PROVE  IInv'
<1>1. TypeOK'
  BY BuilderAssumption DEF IInv, TypeOK, Shape, DoneCannotFail, OwnedOnce, NoWildAccess, States, Constructing, Reserving, Undone, members, growth, AppendBytes, Grow, Use
<1>2. Shape'
  BY BuilderAssumption DEF IInv, TypeOK, Shape, DoneCannotFail, OwnedOnce, NoWildAccess, States, Constructing, Reserving, Undone, members, growth, AppendBytes, Grow, Use
<1>3. DoneCannotFail'
  BY BuilderAssumption DEF IInv, TypeOK, Shape, DoneCannotFail, OwnedOnce, NoWildAccess, States, Constructing, Reserving, Undone, members, growth, AppendBytes, Grow, Use
<1>4. OwnedOnce'
  BY BuilderAssumption DEF IInv, TypeOK, Shape, DoneCannotFail, OwnedOnce, NoWildAccess, States, Constructing, Reserving, Undone, members, growth, AppendBytes, Grow, Use
<1>5. NoWildAccess'
  BY BuilderAssumption DEF IInv, TypeOK, Shape, DoneCannotFail, OwnedOnce, NoWildAccess, States, Constructing, Reserving, Undone, members, growth, AppendBytes, Grow, Use
<1> QED
  BY <1>1, <1>2, <1>3, <1>4, <1>5 DEF IInv

LEMMA BadFieldNameKeeps ==
    ASSUME IInv, BadFieldName
    PROVE  IInv'
<1>1. TypeOK'
  BY BuilderAssumption DEF IInv, TypeOK, Shape, DoneCannotFail, OwnedOnce, NoWildAccess, States, Constructing, Reserving, Undone, members, growth, BadFieldName
<1>2. Shape'
  BY BuilderAssumption DEF IInv, TypeOK, Shape, DoneCannotFail, OwnedOnce, NoWildAccess, States, Constructing, Reserving, Undone, members, growth, BadFieldName
<1>3. DoneCannotFail'
  BY BuilderAssumption DEF IInv, TypeOK, Shape, DoneCannotFail, OwnedOnce, NoWildAccess, States, Constructing, Reserving, Undone, members, growth, BadFieldName
<1>4. OwnedOnce'
  BY BuilderAssumption DEF IInv, TypeOK, Shape, DoneCannotFail, OwnedOnce, NoWildAccess, States, Constructing, Reserving, Undone, members, growth, BadFieldName
<1>5. NoWildAccess'
  BY BuilderAssumption DEF IInv, TypeOK, Shape, DoneCannotFail, OwnedOnce, NoWildAccess, States, Constructing, Reserving, Undone, members, growth, BadFieldName
<1> QED
  BY <1>1, <1>2, <1>3, <1>4, <1>5 DEF IInv

LEMMA SubStartKeeps ==
    ASSUME NEW n \in 1..MaxAppend, IInv, SubStart(n)
    PROVE  IInv'
<1>1. TypeOK'
  BY BuilderAssumption DEF IInv, TypeOK, Shape, DoneCannotFail, OwnedOnce, NoWildAccess, States, Constructing, Reserving, Undone, members, growth, SubStart, Grow, Use
<1>2. Shape'
  BY BuilderAssumption DEF IInv, TypeOK, Shape, DoneCannotFail, OwnedOnce, NoWildAccess, States, Constructing, Reserving, Undone, members, growth, SubStart, Grow, Use
<1>3. DoneCannotFail'
  BY BuilderAssumption DEF IInv, TypeOK, Shape, DoneCannotFail, OwnedOnce, NoWildAccess, States, Constructing, Reserving, Undone, members, growth, SubStart, Grow, Use
<1>4. OwnedOnce'
  BY BuilderAssumption DEF IInv, TypeOK, Shape, DoneCannotFail, OwnedOnce, NoWildAccess, States, Constructing, Reserving, Undone, members, growth, SubStart, Grow, Use
<1>5. NoWildAccess'
  BY BuilderAssumption DEF IInv, TypeOK, Shape, DoneCannotFail, OwnedOnce, NoWildAccess, States, Constructing, Reserving, Undone, members, growth, SubStart, Grow, Use
<1> QED
  BY <1>1, <1>2, <1>3, <1>4, <1>5 DEF IInv

LEMMA DoneKeeps ==
    ASSUME IInv, Done
    PROVE  IInv'
<1>1. TypeOK'
  BY BuilderAssumption DEF IInv, TypeOK, Shape, DoneCannotFail, OwnedOnce, NoWildAccess, States, Constructing, Reserving, Undone, members, growth, Done, _done
<1>2. Shape'
  BY BuilderAssumption DEF IInv, TypeOK, Shape, DoneCannotFail, OwnedOnce, NoWildAccess, States, Constructing, Reserving, Undone, members, growth, Done, _done
<1>3. DoneCannotFail'
  BY BuilderAssumption DEF IInv, TypeOK, Shape, DoneCannotFail, OwnedOnce, NoWildAccess, States, Constructing, Reserving, Undone, members, growth, Done, _done
<1>4. OwnedOnce'
  BY BuilderAssumption DEF IInv, TypeOK, Shape, DoneCannotFail, OwnedOnce, NoWildAccess, States, Constructing, Reserving, Undone, members, growth, Done, _done
<1>5. NoWildAccess'
  BY BuilderAssumption DEF IInv, TypeOK, Shape, DoneCannotFail, OwnedOnce, NoWildAccess, States, Constructing, Reserving, Undone, members, growth, Done, _done
<1> QED
  BY <1>1, <1>2, <1>3, <1>4, <1>5 DEF IInv

LEMMA AsTempObjKeeps ==
    ASSUME IInv, AsTempObj
    PROVE  IInv'
<1>1. TypeOK'
  BY BuilderAssumption DEF IInv, TypeOK, Shape, DoneCannotFail, OwnedOnce, NoWildAccess, States, Constructing, Reserving, Undone, members, growth, AsTempObj
<1>2. Shape'
  BY BuilderAssumption DEF IInv, TypeOK, Shape, DoneCannotFail, OwnedOnce, NoWildAccess, States, Constructing, Reserving, Undone, members, growth, AsTempObj
<1>3. DoneCannotFail'
  BY BuilderAssumption DEF IInv, TypeOK, Shape, DoneCannotFail, OwnedOnce, NoWildAccess, States, Constructing, Reserving, Undone, members, growth, AsTempObj
<1>4. OwnedOnce'
  BY BuilderAssumption DEF IInv, TypeOK, Shape, DoneCannotFail, OwnedOnce, NoWildAccess, States, Constructing, Reserving, Undone, members, growth, AsTempObj
<1>5. NoWildAccess'
  BY BuilderAssumption DEF IInv, TypeOK, Shape, DoneCannotFail, OwnedOnce, NoWildAccess, States, Constructing, Reserving, Undone, members, growth, AsTempObj
<1> QED
  BY <1>1, <1>2, <1>3, <1>4, <1>5 DEF IInv

LEMMA ObjKeeps ==
    ASSUME IInv, Obj
    PROVE  IInv'
<1>1. TypeOK'
  BY BuilderAssumption DEF IInv, TypeOK, Shape, DoneCannotFail, OwnedOnce, NoWildAccess, States, Constructing, Reserving, Undone, members, growth, Obj, _done
<1>2. Shape'
  BY BuilderAssumption DEF IInv, TypeOK, Shape, DoneCannotFail, OwnedOnce, NoWildAccess, States, Constructing, Reserving, Undone, members, growth, Obj, _done
<1>3. DoneCannotFail'
  BY BuilderAssumption DEF IInv, TypeOK, Shape, DoneCannotFail, OwnedOnce, NoWildAccess, States, Constructing, Reserving, Undone, members, growth, Obj, _done
<1>4. OwnedOnce'
  BY BuilderAssumption DEF IInv, TypeOK, Shape, DoneCannotFail, OwnedOnce, NoWildAccess, States, Constructing, Reserving, Undone, members, growth, Obj, _done
<1>5. NoWildAccess'
  BY BuilderAssumption DEF IInv, TypeOK, Shape, DoneCannotFail, OwnedOnce, NoWildAccess, States, Constructing, Reserving, Undone, members, growth, Obj, _done
<1> QED
  BY <1>1, <1>2, <1>3, <1>4, <1>5 DEF IInv

LEMMA StringAppendKeeps ==
    ASSUME NEW n \in 1..MaxAppend, IInv, StringAppend(n)
    PROVE  IInv'
<1>1. TypeOK'
  BY BuilderAssumption DEF IInv, TypeOK, Shape, DoneCannotFail, OwnedOnce, NoWildAccess, States, Constructing, Reserving, Undone, members, growth, StringAppend, Grow, Use
<1>2. Shape'
  BY BuilderAssumption DEF IInv, TypeOK, Shape, DoneCannotFail, OwnedOnce, NoWildAccess, States, Constructing, Reserving, Undone, members, growth, StringAppend, Grow, Use
<1>3. DoneCannotFail'
  BY BuilderAssumption DEF IInv, TypeOK, Shape, DoneCannotFail, OwnedOnce, NoWildAccess, States, Constructing, Reserving, Undone, members, growth, StringAppend, Grow, Use
<1>4. OwnedOnce'
  BY BuilderAssumption DEF IInv, TypeOK, Shape, DoneCannotFail, OwnedOnce, NoWildAccess, States, Constructing, Reserving, Undone, members, growth, StringAppend, Grow, Use
<1>5. NoWildAccess'
  BY BuilderAssumption DEF IInv, TypeOK, Shape, DoneCannotFail, OwnedOnce, NoWildAccess, States, Constructing, Reserving, Undone, members, growth, StringAppend, Grow, Use
<1> QED
  BY <1>1, <1>2, <1>3, <1>4, <1>5 DEF IInv

LEMMA StringShrinkKeeps ==
    ASSUME NEW n \in 1..MaxAppend, IInv, StringShrink(n)
    PROVE  IInv'
<1>1. TypeOK'
  BY BuilderAssumption DEF IInv, TypeOK, Shape, DoneCannotFail, OwnedOnce, NoWildAccess, States, Constructing, Reserving, Undone, members, growth, StringShrink
<1>2. Shape'
  BY BuilderAssumption DEF IInv, TypeOK, Shape, DoneCannotFail, OwnedOnce, NoWildAccess, States, Constructing, Reserving, Undone, members, growth, StringShrink
<1>3. DoneCannotFail'
  BY BuilderAssumption DEF IInv, TypeOK, Shape, DoneCannotFail, OwnedOnce, NoWildAccess, States, Constructing, Reserving, Undone, members, growth, StringShrink
<1>4. OwnedOnce'
  BY BuilderAssumption DEF IInv, TypeOK, Shape, DoneCannotFail, OwnedOnce, NoWildAccess, States, Constructing, Reserving, Undone, members, growth, StringShrink
<1>5. NoWildAccess'
  BY BuilderAssumption DEF IInv, TypeOK, Shape, DoneCannotFail, OwnedOnce, NoWildAccess, States, Constructing, Reserving, Undone, members, growth, StringShrink
<1> QED
  BY <1>1, <1>2, <1>3, <1>4, <1>5 DEF IInv

LEMMA ResetKeeps ==
    ASSUME NEW max \in {0, InitSize}, IInv, Reset(max)
    PROVE  IInv'
<1>1. TypeOK'
  BY BuilderAssumption DEF IInv, TypeOK, Shape, DoneCannotFail, OwnedOnce, NoWildAccess, States, Constructing, Reserving, Undone, members, growth, Reset, Freed, FreeIsWild, Oom
<1>2. Shape'
  BY BuilderAssumption DEF IInv, TypeOK, Shape, DoneCannotFail, OwnedOnce, NoWildAccess, States, Constructing, Reserving, Undone, members, growth, Reset, Freed, FreeIsWild, Oom
<1>3. DoneCannotFail'
  BY BuilderAssumption DEF IInv, TypeOK, Shape, DoneCannotFail, OwnedOnce, NoWildAccess, States, Constructing, Reserving, Undone, members, growth, Reset, Freed, FreeIsWild, Oom
<1>4. OwnedOnce'
  <2>1. /\ live = ({data} \cap Block) \cup lost /\ obj = NULL /\ data # NULL
        /\ lost' = lost /\ obj' = obj /\ data \notin lost
        /\ Cardinality(lost) <= ooms /\ lost \subseteq Block /\ pc = "ready"
        /\ data \in Block \cup {BUF} /\ (data = BUF => stack)
    BY BuilderAssumption DEF IInv, TypeOK, Shape, OwnedOnce, Reset
  <2>2. Freed(data) = lost
    BY <2>1, BuilderAssumption DEF Freed
  <2>3. CASE UNCHANGED <<pc, live, data, size, ooms, wild>>
    BY <2>1, <2>3, BuilderAssumption DEF OwnedOnce
  <2>4. CASE UNCHANGED <<pc, ooms>> /\ data' \in Block \cup {BUF} /\ data' \notin lost
             /\ live' = lost \cup ({data'} \ {BUF})
    BY <2>1, <2>4, BuilderAssumption DEF OwnedOnce
  <2>5. CASE ooms' = ooms + 1 /\ data' = NULL /\ live' = lost /\ pc' = "unwinding"
    <3>1. Cardinality(lost) \in Nat /\ ooms \in Nat
      BY FS_CardinalityType DEF IInv, Shape, TypeOK
    <3>2. Cardinality(lost') <= ooms'
      BY <2>1, <2>5, <3>1
    <3> QED
      BY <2>1, <2>5, <3>2, BuilderAssumption DEF OwnedOnce
  <2> QED
    BY <2>1, <2>2, <2>3, <2>4, <2>5, BuilderAssumption DEF Reset, Oom
<1>5. NoWildAccess'
  BY BuilderAssumption DEF IInv, TypeOK, Shape, DoneCannotFail, OwnedOnce, NoWildAccess, States, Constructing, Reserving, Undone, members, growth, Reset, Freed, FreeIsWild, Oom
<1> QED
  BY <1>1, <1>2, <1>3, <1>4, <1>5 DEF IInv

LEMMA GrowLoopKeeps ==
    ASSUME IInv, GrowLoop
    PROVE  IInv'
<1>1. TypeOK'
  BY BuilderAssumption DEF IInv, TypeOK, Shape, DoneCannotFail, OwnedOnce, NoWildAccess, States, Constructing, Reserving, Undone, members, growth, GrowLoop, Wrap
<1>2. Shape'
  BY BuilderAssumption DEF IInv, TypeOK, Shape, DoneCannotFail, OwnedOnce, NoWildAccess, States, Constructing, Reserving, Undone, members, growth, GrowLoop, Wrap
<1>3. DoneCannotFail'
  BY BuilderAssumption DEF IInv, TypeOK, Shape, DoneCannotFail, OwnedOnce, NoWildAccess, States, Constructing, Reserving, Undone, members, growth, GrowLoop, Wrap
<1>4. OwnedOnce'
  BY BuilderAssumption DEF IInv, TypeOK, Shape, DoneCannotFail, OwnedOnce, NoWildAccess, States, Constructing, Reserving, Undone, members, growth, GrowLoop, Wrap
<1>5. NoWildAccess'
  BY BuilderAssumption DEF IInv, TypeOK, Shape, DoneCannotFail, OwnedOnce, NoWildAccess, States, Constructing, Reserving, Undone, members, growth, GrowLoop, Wrap
<1> QED
  BY <1>1, <1>2, <1>3, <1>4, <1>5 DEF IInv

LEMMA GrowRefusedKeeps ==
    ASSUME IInv, GrowRefused
    PROVE  IInv'
<1>1. TypeOK'
  BY BuilderAssumption DEF IInv, TypeOK, Shape, DoneCannotFail, OwnedOnce, NoWildAccess, States, Constructing, Reserving, Undone, members, growth, GrowRefused
<1>2. Shape'
  BY BuilderAssumption DEF IInv, TypeOK, Shape, DoneCannotFail, OwnedOnce, NoWildAccess, States, Constructing, Reserving, Undone, members, growth, GrowRefused
<1>3. DoneCannotFail'
  BY BuilderAssumption DEF IInv, TypeOK, Shape, DoneCannotFail, OwnedOnce, NoWildAccess, States, Constructing, Reserving, Undone, members, growth, GrowRefused
<1>4. OwnedOnce'
  BY BuilderAssumption DEF IInv, TypeOK, Shape, DoneCannotFail, OwnedOnce, NoWildAccess, States, Constructing, Reserving, Undone, members, growth, GrowRefused
<1>5. NoWildAccess'
  BY BuilderAssumption DEF IInv, TypeOK, Shape, DoneCannotFail, OwnedOnce, NoWildAccess, States, Constructing, Reserving, Undone, members, growth, GrowRefused
<1> QED
  BY <1>1, <1>2, <1>3, <1>4, <1>5 DEF IInv

LEMMA GrowDoneKeeps ==
    ASSUME IInv, GrowDone
    PROVE  IInv'
<1>1. TypeOK'
  BY BuilderAssumption DEF IInv, TypeOK, Shape, DoneCannotFail, OwnedOnce, NoWildAccess, States, Constructing, Reserving, Undone, members, growth, GrowDone, Freed, Use
<1>2. Shape'
  BY BuilderAssumption DEF IInv, TypeOK, Shape, DoneCannotFail, OwnedOnce, NoWildAccess, States, Constructing, Reserving, Undone, members, growth, GrowDone, Freed, Use
<1>3. DoneCannotFail'
  <2>1. /\ l + reservedBytes <= size /\ minSize = l + by + reservedBytes /\ a >= minSize
        /\ reservedBytes = (IF kind = "object" THEN Undone ELSE 0)
        /\ l \in Nat /\ by \in Nat /\ reservedBytes \in Nat /\ depth \in Nat /\ a \in Int
        /\ ~topDone /\ pc = "growing" /\ kind' = kind /\ depth' = depth /\ topDone' = topDone
        /\ (kind = "string" => after = "ready")
    BY BuilderAssumption DEF IInv, TypeOK, Shape, DoneCannotFail, Constructing, GrowDone
  <2>2. l' + reservedBytes' = l + by + reservedBytes /\ size' = a
    BY <2>1 DEF GrowDone, Use
  <2>3. CASE Reserving
    <3>1. by = 1
      BY <2>3 DEF IInv, Shape, GrowDone, Reserving
    <3>2. kind = "object" /\ reservedBytes' = reservedBytes + 1
      BY <2>1, <2>3, <3>1 DEF IInv, TypeOK, GrowDone, Use, Reserving
    <3>3. pc' \in {"opened", "subOpened"} /\ ~topDone'
      BY <2>1, <2>3 DEF GrowDone, Reserving
    <3>4. reservedBytes' = Undone'
      BY <2>1, <3>2, <3>3 DEF Undone
    <3> QED
      BY <2>1, <2>2, <3>2, <3>4 DEF DoneCannotFail
  <2>4. CASE ~Reserving
    BY <2>1, <2>2, <2>4 DEF GrowDone, Use, Reserving, Undone, DoneCannotFail
  <2> QED
    BY <2>3, <2>4
<1>4. OwnedOnce'
  BY BuilderAssumption DEF IInv, TypeOK, Shape, DoneCannotFail, OwnedOnce, NoWildAccess, States, Constructing, Reserving, Undone, members, growth, GrowDone, Freed, Use
<1>5. NoWildAccess'
  BY BuilderAssumption DEF IInv, TypeOK, Shape, DoneCannotFail, OwnedOnce, NoWildAccess, States, Constructing, Reserving, Undone, members, growth, GrowDone, Freed, Use
<1> QED
  BY <1>1, <1>2, <1>3, <1>4, <1>5 DEF IInv

LEMMA GrowOomKeeps ==
    ASSUME IInv, GrowOom
    PROVE  IInv'
<1>1. TypeOK'
  BY BuilderAssumption DEF IInv, TypeOK, Shape, DoneCannotFail, OwnedOnce, NoWildAccess, States, Constructing, Reserving, Undone, members, growth, GrowOom, Oom
<1>2. Shape'
  <2>1. IsFiniteSet(lost')
    <3>1. IsFiniteSet(lost) /\ (lost' = lost \/ lost' = lost \cup {data})
      BY DEF IInv, Shape, OwnedOnce, TypeOK, GrowOom
    <3> QED
      BY <3>1, FS_AddElement
  <2> QED
    BY <2>1, BuilderAssumption DEF IInv, TypeOK, Shape, Constructing, growth, GrowOom, Reserving
<1>3. DoneCannotFail'
  BY BuilderAssumption DEF IInv, TypeOK, Shape, DoneCannotFail, OwnedOnce, NoWildAccess, States, Constructing, Reserving, Undone, members, growth, GrowOom, Oom
<1>4. OwnedOnce'
  <2>1. /\ live = ({data} \cap Block) \cup lost /\ obj = NULL /\ data # NULL
        /\ obj' = obj /\ data \notin lost /\ live' = live
        /\ Cardinality(lost) <= ooms /\ lost \subseteq Block /\ pc' = "unwinding"
        /\ data \in Block \cup {BUF} /\ ooms' = ooms + 1 /\ ooms \in Nat
    BY BuilderAssumption DEF IInv, TypeOK, Shape, OwnedOnce, GrowOom, Oom
  <2>2. IsFiniteSet(lost) /\ Cardinality(lost) \in Nat
    BY FS_CardinalityType DEF IInv, Shape
  <2>3. CASE data = BUF
    <3>1. lost' = lost /\ data' = data /\ Cardinality(lost') <= ooms'
      BY <2>1, <2>2, <2>3 DEF GrowOom
    <3> QED
      BY <2>1, <2>3, <3>1, BuilderAssumption DEF OwnedOnce
  <2>4. CASE data # BUF
    <3>1. lost' = lost \cup {data} /\ data' = NULL
      BY <2>1, <2>4 DEF GrowOom
    <3>2. Cardinality(lost') = Cardinality(lost) + 1
      BY <2>1, <2>2, <3>1, FS_AddElement
    <3> QED
      BY <2>1, <2>2, <2>4, <3>1, <3>2, BuilderAssumption DEF OwnedOnce
  <2> QED
    BY <2>3, <2>4
<1>5. NoWildAccess'
  BY BuilderAssumption DEF IInv, TypeOK, Shape, DoneCannotFail, OwnedOnce, NoWildAccess, States, Constructing, Reserving, Undone, members, growth, GrowOom, Oom
<1> QED
  BY <1>1, <1>2, <1>3, <1>4, <1>5 DEF IInv

LEMMA EndScopeKeeps ==
    ASSUME IInv, EndScope
    PROVE  IInv'
<1>1. TypeOK'
  BY BuilderAssumption DEF IInv, TypeOK, Shape, DoneCannotFail, OwnedOnce, NoWildAccess, States, Constructing, Reserving, Undone, members, growth, EndScope
<1>2. Shape'
  BY BuilderAssumption DEF IInv, TypeOK, Shape, DoneCannotFail, OwnedOnce, NoWildAccess, States, Constructing, Reserving, Undone, members, growth, EndScope
<1>3. DoneCannotFail'
  BY BuilderAssumption DEF IInv, TypeOK, Shape, DoneCannotFail, OwnedOnce, NoWildAccess, States, Constructing, Reserving, Undone, members, growth, EndScope
<1>4. OwnedOnce'
  BY BuilderAssumption DEF IInv, TypeOK, Shape, DoneCannotFail, OwnedOnce, NoWildAccess, States, Constructing, Reserving, Undone, members, growth, EndScope
<1>5. NoWildAccess'
  BY BuilderAssumption DEF IInv, TypeOK, Shape, DoneCannotFail, OwnedOnce, NoWildAccess, States, Constructing, Reserving, Undone, members, growth, EndScope
<1> QED
  BY <1>1, <1>2, <1>3, <1>4, <1>5 DEF IInv

LEMMA DestroySubKeeps ==
    ASSUME IInv, DestroySub
    PROVE  IInv'
<1>1. TypeOK'
  <2>1. (~topDone /\ data # NULL) => reservedBytes >= 1 /\ l \in Nat
    BY BuilderAssumption DEF IInv, TypeOK, Shape, DoneCannotFail, Undone, Constructing, DestroySub
  <2>4. topDone' \in BOOLEAN
    BY Zenon DEF DestroySub
  <2>2. depth' \in Nat /\ l' \in Nat /\ reservedBytes' \in Nat
    BY <2>1 DEF IInv, TypeOK, DestroySub, _done
  <2>3. wild' \in BOOLEAN
    BY DEF IInv, TypeOK, DestroySub, _done
  <2> QED
    BY <2>2, <2>3, <2>4 DEF IInv, TypeOK, DestroySub, growth
<1>2. Shape'
  BY BuilderAssumption DEF IInv, TypeOK, Shape, DoneCannotFail, OwnedOnce, NoWildAccess, States, Constructing, Reserving, Undone, members, growth, DestroySub, _done
<1>3. DoneCannotFail'
  BY BuilderAssumption DEF IInv, TypeOK, Shape, DoneCannotFail, OwnedOnce, NoWildAccess, States, Constructing, Reserving, Undone, members, growth, DestroySub, _done
<1>4. OwnedOnce'
  BY BuilderAssumption DEF IInv, TypeOK, Shape, DoneCannotFail, OwnedOnce, NoWildAccess, States, Constructing, Reserving, Undone, members, growth, DestroySub, _done
<1>5. NoWildAccess'
  BY BuilderAssumption DEF IInv, TypeOK, Shape, DoneCannotFail, OwnedOnce, NoWildAccess, States, Constructing, Reserving, Undone, members, growth, DestroySub, _done
<1> QED
  BY <1>1, <1>2, <1>3, <1>4, <1>5 DEF IInv

LEMMA DestroyRootKeeps ==
    ASSUME IInv, DestroyRoot
    PROVE  IInv'
<1>1. TypeOK'
  BY BuilderAssumption DEF IInv, TypeOK, Shape, DoneCannotFail, OwnedOnce, NoWildAccess, States, Constructing, Reserving, Undone, members, growth, DestroyRoot, Freed, FreeIsWild
<1>2. Shape'
  BY BuilderAssumption DEF IInv, TypeOK, Shape, DoneCannotFail, OwnedOnce, NoWildAccess, States, Constructing, Reserving, Undone, members, growth, DestroyRoot, Freed, FreeIsWild
<1>3. DoneCannotFail'
  BY BuilderAssumption DEF IInv, TypeOK, Shape, DoneCannotFail, OwnedOnce, NoWildAccess, States, Constructing, Reserving, Undone, members, growth, DestroyRoot, Freed, FreeIsWild
<1>4. OwnedOnce'
  BY BuilderAssumption DEF IInv, TypeOK, Shape, DoneCannotFail, OwnedOnce, NoWildAccess, States, Constructing, Reserving, Undone, members, growth, DestroyRoot, Freed, FreeIsWild
<1>5. NoWildAccess'
  BY BuilderAssumption DEF IInv, TypeOK, Shape, DoneCannotFail, OwnedOnce, NoWildAccess, States, Constructing, Reserving, Undone, members, growth, DestroyRoot, Freed, FreeIsWild
<1> QED
  BY <1>1, <1>2, <1>3, <1>4, <1>5 DEF IInv

LEMMA ReleaseObjKeeps ==
    ASSUME IInv, ReleaseObj
    PROVE  IInv'
<1>1. TypeOK'
  BY BuilderAssumption DEF IInv, TypeOK, Shape, DoneCannotFail, OwnedOnce, NoWildAccess, States, Constructing, Reserving, Undone, members, growth, ReleaseObj
<1>2. Shape'
  BY BuilderAssumption DEF IInv, TypeOK, Shape, DoneCannotFail, OwnedOnce, NoWildAccess, States, Constructing, Reserving, Undone, members, growth, ReleaseObj
<1>3. DoneCannotFail'
  BY BuilderAssumption DEF IInv, TypeOK, Shape, DoneCannotFail, OwnedOnce, NoWildAccess, States, Constructing, Reserving, Undone, members, growth, ReleaseObj
<1>4. OwnedOnce'
  BY BuilderAssumption DEF IInv, TypeOK, Shape, DoneCannotFail, OwnedOnce, NoWildAccess, States, Constructing, Reserving, Undone, members, growth, ReleaseObj
<1>5. NoWildAccess'
  BY BuilderAssumption DEF IInv, TypeOK, Shape, DoneCannotFail, OwnedOnce, NoWildAccess, States, Constructing, Reserving, Undone, members, growth, ReleaseObj
<1> QED
  BY <1>1, <1>2, <1>3, <1>4, <1>5 DEF IInv

LEMMA StepIInv == IInv /\ [Next]_vars => IInv'
<1> SUFFICES ASSUME IInv, [Next]_vars PROVE IInv'
  OBVIOUS
<1>1. CASE UNCHANGED vars
  BY <1>1 DEF IInv, TypeOK, Shape, DoneCannotFail, OwnedOnce, NoWildAccess, Undone,
              Reserving, vars,               members, growth
<1>2. ASSUME NEW k \in {"object", "string"}, Construct(k, FALSE) PROVE IInv'
  BY <1>2, ConstructKeeps
<1>3. CASE Construct("string", TRUE)
  BY <1>3, ConstructKeeps
<1>4. ASSUME NEW n \in 1..MaxAppend,
             AppendBytes(n) \/ SubStart(n) \/ StringAppend(n) \/ StringShrink(n)
      PROVE IInv'
  BY <1>4, AppendBytesKeeps, SubStartKeeps, StringAppendKeeps, StringShrinkKeeps
<1>5. ASSUME NEW max \in {0, InitSize}, Reset(max) PROVE IInv'
  BY <1>5, ResetKeeps
<1>6. CASE ConstructorBody \/ Opened \/ BadFieldName \/ Done \/ AsTempObj \/ Obj
  BY <1>6, ConstructorBodyKeeps, OpenedKeeps, BadFieldNameKeeps, DoneKeeps, AsTempObjKeeps,
     ObjKeeps
<1>7. CASE GrowLoop \/ GrowRefused \/ GrowDone \/ GrowOom
  BY <1>7, GrowLoopKeeps, GrowRefusedKeeps, GrowDoneKeeps, GrowOomKeeps
<1>8. CASE EndScope \/ DestroySub \/ DestroyRoot \/ ReleaseObj
  BY <1>8, EndScopeKeeps, DestroySubKeeps, DestroyRootKeeps, ReleaseObjKeeps
<1> QED
  BY <1>1, <1>2, <1>3, <1>4, <1>5, <1>6, <1>7, <1>8 DEF Next

\* IInv is an invariant of the builder.
THEOREM Inductive == Spec => []IInv
<1> QED
  BY InitIInv, StepIInv, PTL DEF Spec

\* _done() never has to grow, whatever the sizes and limits: bsonobjbuilder.h says so of the
\* byte its constructors reserve.
THEOREM ReservedByte == Spec => []DoneCannotFail
<1>1. IInv => DoneCannotFail
  BY DEF IInv
<1> QED
  BY <1>1, Inductive, PTL

\* Every heap block of a builder has one owner until it is freed; the only blocks ever lost are
\* those of a failed realloc().
THEOREM Ownership == Spec => []OwnedOnce
<1>1. IInv => OwnedOnce
  BY DEF IInv
<1> QED
  BY <1>1, Inductive, PTL

\* No write past the buffer, no use after free and no double free, in any nesting of builders
\* and under any exception.
THEOREM MemorySafety == Spec => []NoWildAccess
<1>1. IInv => NoWildAccess
  BY DEF IInv
<1> QED
  BY <1>1, Inductive, PTL

-----------------------------------------------------------------------------
(* The tracker of sizes (SizeTracker) *)

LEMMA Induction ==
  ASSUME NEW S, 0 \in S, \A n \in Nat : n \in S => n + 1 \in S
  PROVE  \A n \in Nat : n \in S
<1> DEFINE T == {n \in Nat : n \notin S}
           R == OpToRel(<, Nat)
<1>1. SUFFICES ASSUME T # {} PROVE FALSE
  OBVIOUS
<1>2. IsWellFoundedOn(R, Nat)
  BY NatLessThanWellFounded
<1>3. PICK x \in T : \A y \in T : <<y, x>> \notin R
  <2> HIDE DEF R
  <2> QED
    BY <1>1, <1>2, WFMin
<1>4. \A y \in T : ~(y < x)
  BY <1>3 DEF OpToRel
<1>5. x # 0 /\ x - 1 \in Nat /\ (x - 1) + 1 = x /\ x - 1 < x
  OBVIOUS
<1>6. x - 1 \notin T
  BY <1>4, <1>5
<1> QED
  BY <1>5, <1>6

\* x counts up the largest of the first n sizes of s, from 16 on: the loop of getSize().
Largest(s, n, x) ==
    x = [i \in 0..n |-> IF i = 0 THEN 16 ELSE IF s[i - 1] > x[i - 1] THEN s[i - 1] ELSE x[i - 1]]

LEMMA LargestExists == ASSUME NEW s PROVE \A n \in Nat : \E x : Largest(s, n, x)
<1> DEFINE S == {n \in Nat : \E x : Largest(s, n, x)}
<1>1. 0 \in S
  <2> DEFINE g == [i \in 0..0 |-> 16]
  <2>1. g = [i \in 0..0 |-> IF i = 0 THEN 16 ELSE IF s[i - 1] > g[i - 1] THEN s[i - 1] ELSE g[i - 1]]
    OBVIOUS
  <2> QED
    BY <2>1 DEF Largest
<1>2. ASSUME NEW n \in Nat, n \in S PROVE n + 1 \in S
  <2>1. PICK f : Largest(s, n, f)
    BY <1>2
  <2> DEFINE new == IF s[n] > f[n] THEN s[n] ELSE f[n]
             g == [i \in 0..(n + 1) |-> IF i = n + 1 THEN new ELSE f[i]]
  <2>2. ASSUME NEW i \in 0..(n + 1)
        PROVE  g[i] = IF i = 0 THEN 16 ELSE IF s[i - 1] > g[i - 1] THEN s[i - 1] ELSE g[i - 1]
    <3>1. CASE i = n + 1
      <4>1. i # 0 /\ i - 1 = n /\ g[i - 1] = f[n] /\ g[i] = new
        BY <3>1
      <4> HIDE DEF g
      <4> QED
        BY <4>1
    <3>2. CASE i # n + 1
      <4>1. i \in 0..n /\ g[i] = f[i] /\ (i # 0 => g[i - 1] = f[i - 1])
        BY <3>2
      <4> HIDE DEF g, new
      <4> QED
        BY <2>1, <4>1 DEF Largest
    <3> QED
      BY <3>1, <3>2
  <2>3. Largest(s, n + 1, g)
    <3>1. g = [i \in 0..(n + 1) |-> g[i]]
      OBVIOUS
    <3> HIDE DEF g
    <3> QED
      BY <2>2, <3>1 DEF Largest
  <2> QED
    BY <2>3
<1>3. \A n \in Nat : n \in S
  <2> HIDE DEF S
  <2> QED
    BY <1>1, <1>2, Induction
<1> QED
  BY <1>3

LEMMA LargestIs ==
  ASSUME NEW s, NEW n \in Nat, \A i \in 0..(n - 1) : s[i] \in Nat, NEW x, Largest(s, n, x)
  PROVE  /\ x[n] \in Nat /\ x[n] >= 16 /\ \A i \in 0..(n - 1) : x[n] >= s[i]
         /\ x[n] = 16 \/ \E i \in 0..(n - 1) : x[n] = s[i]
<1> DEFINE Top(k) == /\ x[k] \in Nat /\ x[k] >= 16 /\ \A i \in 0..(k - 1) : x[k] >= s[i]
                     /\ x[k] = 16 \/ \E i \in 0..(k - 1) : x[k] = s[i]
           S == {k \in Nat : k \in 0..n => Top(k)}
           e(j) == IF j = 0 THEN 16 ELSE IF s[j - 1] > x[j - 1] THEN s[j - 1] ELSE x[j - 1]
<1>1. \A j \in 0..n : x[j] = e(j)
  <2>1. x = [j \in 0..n |-> e(j)]
    BY DEF Largest
  <2> HIDE DEF e
  <2> QED
    BY <2>1
<1>2. 0 \in S
  <2>1. x[0] = 16
    BY <1>1
  <2> QED
    BY <2>1
<1>3. ASSUME NEW k \in Nat, k \in S PROVE k + 1 \in S
  <2> HIDE DEF Top
  <2> SUFFICES ASSUME k + 1 \in 0..n PROVE Top(k + 1)
    OBVIOUS
  <2>1. k \in 0..n /\ k \in 0..(n - 1) /\ k + 1 # 0 /\ (k + 1) - 1 = k
    OBVIOUS
  <2>2. Top(k) /\ s[k] \in Nat
    BY <1>3, <2>1
  <2>3. x[k + 1] = IF s[k] > x[k] THEN s[k] ELSE x[k]
    BY <1>1, <2>1
  <2>4. \A i \in 0..((k + 1) - 1) : i = k \/ i \in 0..(k - 1)
    OBVIOUS
  <2>5. k \in 0..((k + 1) - 1) /\ \A i \in 0..(k - 1) : i \in 0..((k + 1) - 1)
    OBVIOUS
  <2> HIDE DEF S, e
  <2> USE DEF Top
  <2>6. CASE s[k] > x[k]
    <3>1. x[k + 1] = s[k]
      BY <2>3, <2>6
    <3>2. \A i \in 0..((k + 1) - 1) : x[k + 1] >= s[i]
      BY <1>3, <2>2, <2>4, <2>6, <3>1
    <3> QED
      BY <2>2, <2>5, <2>6, <3>1, <3>2
  <2>7. CASE ~(s[k] > x[k])
    <3>1. x[k + 1] = x[k]
      BY <2>3, <2>7
    <3>2. \A i \in 0..((k + 1) - 1) : x[k + 1] >= s[i]
      BY <2>2, <2>4, <2>7, <3>1
    <3> QED
      BY <2>2, <2>5, <3>1, <3>2
  <2> QED
    BY <2>6, <2>7
<1>4. n \in S
  <2> HIDE DEF S
  <2> QED
    BY <1>2, <1>3, Induction
<1> QED
  BY <1>4

\* The sizes kept are the last ones given, from the place before _pos backwards and around.
Kept(i) == IF i <= _pos THEN _sizes[_pos - i] ELSE _sizes[_pos + TrackerSIZE - i]
Tracked ==
    /\ _sizes = [i \in 0..(TrackerSIZE - 1) |-> _sizes[i]]
    /\ \A i \in 0..(TrackerSIZE - 1) : _sizes[i] \in Nat
    /\ _pos \in 0..(TrackerSIZE - 1)
    /\ seen \in Seq(Nat) /\ Len(seen) = TrackerSIZE
    /\ \A i \in 1..TrackerSIZE : seen[i] = Kept(i)

LEMMA InitTracked == NewTracker => Tracked
<1> SUFFICES ASSUME NewTracker PROVE Tracked
  OBVIOUS
<1> DEFINE N == TrackerSIZE
<1>1. N \in Nat \ {0}
  BY TrackerAssumption
<1> HIDE DEF N
<1>2. _sizes = [i \in 0..(N - 1) |-> 512] /\ _pos = 0 /\ seen = [i \in 1..N |-> 512]
  BY DEF NewTracker, N
<1>3. seen \in Seq(Nat) /\ Len(seen) = N
  BY <1>1, <1>2
<1>4. ASSUME NEW i \in 1..N PROVE seen[i] = Kept(i)
  <2>1. ~(i <= 0) /\ 0 + N - i \in 0..(N - 1) /\ seen[i] = 512
    BY <1>1, <1>2
  <2> QED
    BY <1>2, <2>1 DEF Kept, N
<1>5. _sizes = [i \in 0..(N - 1) |-> _sizes[i]] /\ \A i \in 0..(N - 1) : _sizes[i] \in Nat
  BY <1>2
<1>6. _pos \in 0..(N - 1)
  BY <1>1, <1>2
<1> QED
  BY <1>3, <1>4, <1>5, <1>6 DEF Tracked, N

LEMMA WrapsAround ==
  ASSUME NEW n \in Nat \ {0}, NEW p \in 0..(n - 1)
  PROVE  (p + 1) % n = IF p + 1 = n THEN 0 ELSE p + 1
<1>1. \A q \in Int, r \in 0..(n - 1) : (q * n + r) % n = r
  BY SMT
<1>2. CASE p + 1 = n
  <2>1. 1 * n + 0 = p + 1 /\ 1 \in Int /\ 0 \in 0..(n - 1)
    BY <1>2
  <2> QED
    BY <1>1, <1>2, <2>1
<1>3. CASE p + 1 # n
  <2>1. 0 * n + (p + 1) = p + 1 /\ 0 \in Int /\ p + 1 \in 0..(n - 1)
    BY <1>3
  <2> QED
    BY <1>1, <1>3, <2>1
<1> QED
  BY <1>2, <1>3

\* The newest size goes first, the oldest is forgotten.
LEMMA PushedFront ==
  ASSUME NEW n \in Nat \ {0}, NEW s \in Seq(Nat), Len(s) = n, NEW e \in Nat
  PROVE  /\ <<e>> \o Front(s) \in Seq(Nat) /\ Len(<<e>> \o Front(s)) = n
         /\ (<<e>> \o Front(s))[1] = e
         /\ \A i \in 2..n : (<<e>> \o Front(s))[i] = s[i - 1]
<1> DEFINE f == Front(s)
           g == <<e>> \o f
<1>1. /\ f \in Seq(Nat) /\ Len(f) = n - 1 /\ \A i \in 1..(n - 1) : f[i] = s[i]
  <2>1. \A i \in 1..(n - 1) : s[i] \in Nat
    BY ElementOfSeq
  <2>2. /\ SubSeq(s, 1, n - 1) \in Seq(Nat)
        /\ Len(SubSeq(s, 1, n - 1)) = IF 1 <= n - 1 THEN (n - 1) - 1 + 1 ELSE 0
        /\ \A i \in 1..((n - 1) - 1 + 1) : SubSeq(s, 1, n - 1)[i] = s[1 + i - 1]
    BY <2>1, SubSeqProperties
  <2>3. f = SubSeq(s, 1, n - 1)
    BY DEF Front
  <2> HIDE DEF f
  <2> QED
    BY <2>2, <2>3
<1> HIDE DEF f
<1>2. <<e>> \in Seq(Nat) /\ Len(<<e>>) = 1 /\ <<e>>[1] = e
  OBVIOUS
<1>3. /\ g \in Seq(Nat) /\ Len(g) = 1 + (n - 1)
      /\ \A i \in 1..(1 + (n - 1)) : g[i] = IF i <= 1 THEN <<e>>[i] ELSE f[i - 1]
  BY <1>1, <1>2, ConcatProperties
<1> HIDE DEF g
<1>4. \A i \in 2..n : i \in 1..(1 + (n - 1)) /\ ~(i <= 1) /\ i - 1 \in 1..(n - 1)
  OBVIOUS
<1>5. Len(g) = n /\ 1 \in 1..(1 + (n - 1))
  BY <1>3
<1> QED
  BY <1>1, <1>2, <1>3, <1>4, <1>5 DEF g, f

\* got()
LEMMA GotTracked ==
  ASSUME Tracked, NEW e \in Nat, got(e)
  PROVE  Tracked'
<1> DEFINE N == TrackerSIZE
           p == _pos
<1>1. N \in Nat \ {0} /\ p \in 0..(N - 1)
  BY TrackerAssumption DEF Tracked
<1>2. /\ _sizes = [i \in 0..(N - 1) |-> _sizes[i]] /\ \A i \in 0..(N - 1) : _sizes[i] \in Nat
  BY DEF Tracked
<1>3. _sizes' = [_sizes EXCEPT ![p] = e] /\ _pos' = (p + 1) % N /\ seen' = <<e>> \o Front(seen)
  BY DEF got
<1>4. \A i \in 1..N : seen[i] = IF i <= p THEN _sizes[p - i] ELSE _sizes[p + N - i]
  BY DEF Tracked, Kept
<1>5. seen \in Seq(Nat) /\ Len(seen) = N
  BY DEF Tracked
<1> HIDE DEF N, p
<1>6. /\ seen' \in Seq(Nat) /\ Len(seen') = N /\ seen'[1] = e
      /\ \A i \in 2..N : seen'[i] = seen[i - 1]
  <2> DEFINE g == <<e>> \o Front(seen)
  <2>1. g \in Seq(Nat) /\ Len(g) = N /\ g[1] = e /\ \A i \in 2..N : g[i] = seen[i - 1]
    BY <1>1, <1>5, PushedFront
  <2>2. seen' = g
    BY <1>3
  <2> HIDE DEF g
  <2> QED
    BY <2>1, <2>2
<1>7. /\ _sizes'[p] = e /\ \A i \in 0..(N - 1) : i # p => _sizes'[i] = _sizes[i]
      /\ _sizes' = [i \in 0..(N - 1) |-> _sizes'[i]] /\ \A i \in 0..(N - 1) : _sizes'[i] \in Nat
  BY <1>1, <1>2, <1>3
<1>8. _pos' = IF p + 1 = N THEN 0 ELSE p + 1
  BY <1>1, <1>3, WrapsAround
<1>9. _pos' \in 0..(N - 1)
  BY <1>1, <1>8
<1>10. ASSUME NEW i \in 1..N
       PROVE  seen'[i] = IF i <= _pos' THEN _sizes'[_pos' - i] ELSE _sizes'[_pos' + N - i]
  <2> DEFINE q == IF i <= _pos' THEN _pos' - i ELSE _pos' + N - i
             o == IF i - 1 <= p THEN p - (i - 1) ELSE p + N - (i - 1)
  <2>1. _sizes'[q] = IF i <= _pos' THEN _sizes'[_pos' - i] ELSE _sizes'[_pos' + N - i]
    OBVIOUS
  <2>2. CASE i = 1
    <3>1. q = p
      BY <1>1, <1>8, <2>2
    <3> HIDE DEF q
    <3> QED
      BY <1>6, <1>7, <2>1, <2>2, <3>1
  <2>3. CASE i # 1
    <3>1. i \in 2..N /\ i - 1 \in 1..N
      BY <1>1, <2>3
    <3>2. q = o /\ q # p /\ q \in 0..(N - 1)
      BY <1>1, <1>8, <3>1
    <3>3. seen[i - 1] = _sizes[o]
      BY <1>4, <3>1
    <3> HIDE DEF q, o
    <3> QED
      BY <1>6, <1>7, <2>1, <3>1, <3>2, <3>3
  <2> QED
    BY <2>2, <2>3
<1>11. \A i \in 1..N : seen'[i] = Kept(i)'
  BY <1>10 DEF Kept, N
<1> QED
  BY <1>6, <1>7, <1>9, <1>11 DEF Tracked, N

LEMMA RememberedWhenTracked == Tracked => SizeRemembered
<1> SUFFICES ASSUME Tracked PROVE SizeRemembered
  OBVIOUS
<1> DEFINE N == TrackerSIZE
           p == _pos
           S == {16} \cup ToSet(seen)
           m == getSize
<1>1. N \in Nat \ {0} /\ p \in 0..(N - 1)
  BY TrackerAssumption DEF Tracked
<1>2. /\ DOMAIN _sizes = 0..(N - 1) /\ \A i \in 0..(N - 1) : _sizes[i] \in Nat
  BY DEF Tracked
<1>3. \A i \in 1..N : seen[i] = IF i <= p THEN _sizes[p - i] ELSE _sizes[p + N - i]
  BY DEF Tracked, Kept
<1>4. DOMAIN seen = 1..N
  BY DEF Tracked
<1> HIDE DEF N, p
<1>5. ToSet(seen) = {_sizes[i] : i \in 0..(N - 1)}
  <2>1. ASSUME NEW i \in 1..N PROVE \E j \in 0..(N - 1) : seen[i] = _sizes[j]
    <3>1. CASE i <= p
      <4>1. p - i \in 0..(N - 1)
        BY <1>1, <3>1
      <4> QED
        BY <1>3, <3>1, <4>1
    <3>2. CASE ~(i <= p)
      <4>1. p + N - i \in 0..(N - 1)
        BY <1>1, <3>2
      <4> QED
        BY <1>3, <3>2, <4>1
    <3> QED
      BY <3>1, <3>2
  <2>2. ASSUME NEW j \in 0..(N - 1) PROVE \E i \in 1..N : seen[i] = _sizes[j]
    <3>1. CASE j < p
      <4>1. p - j \in 1..N /\ p - j <= p /\ p - (p - j) = j
        BY <1>1, <3>1
      <4> QED
        BY <1>3, <4>1
    <3>2. CASE ~(j < p)
      <4>1. p + N - j \in 1..N /\ ~(p + N - j <= p) /\ p + N - (p + N - j) = j
        BY <1>1, <3>2
      <4> QED
        BY <1>3, <4>1
    <3> QED
      BY <3>1, <3>2
  <2> QED
    <3> DEFINE T == {_sizes[i] : i \in 0..(N - 1)}
    <3>1. ToSet(seen) = {seen[i] : i \in 1..N}
      BY <1>4, Zenon DEF ToSet
    <3>2. \A y \in ToSet(seen) : y \in T
      BY <2>1, <3>1, Zenon
    <3>3. \A y \in T : y \in ToSet(seen)
      BY <2>2, <3>1, Zenon
    <3> HIDE DEF T
    <3>4. ToSet(seen) = T
      BY <3>2, <3>3, Zenon
    <3> QED
      BY <3>4 DEF T
<1>6. /\ m \in Nat /\ m >= 16 /\ \A i \in 0..(N - 1) : m >= _sizes[i]
      /\ m = 16 \/ \E i \in 0..(N - 1) : m = _sizes[i]
  <2> DEFINE x == CHOOSE x : Largest(_sizes, N, x)
  <2>1. Largest(_sizes, N, x)
    BY <1>1, LargestExists
  <2>2. m = x[N]
    BY DEF getSize, Largest, N
  <2> HIDE DEF x, m
  <2>3. /\ x[N] \in Nat /\ x[N] >= 16 /\ \A i \in 0..(N - 1) : x[N] >= _sizes[i]
        /\ x[N] = 16 \/ \E i \in 0..(N - 1) : x[N] = _sizes[i]
    <3>1. N \in Nat
      BY <1>1
    <3>2. \A i \in 0..(N - 1) : _sizes[i] \in Nat
      BY <1>2
    <3> HIDE <1>1, <1>2, <1>3, <1>4, <1>5
    <3> QED
      BY <2>1, <3>1, <3>2, LargestIs
  <2> QED
    BY <2>3, <2>2, Zenon
<1> HIDE DEF m
<1>7. m \in S /\ (\A y \in S : m >= y) /\ \A y \in S : y \in Nat
  BY <1>2, <1>5, <1>6
<1> HIDE DEF S
<1>8. Max(S) = m
  <2>1. \A y \in S : (\A z \in S : y >= z) => y = m
    BY <1>7
  <2> QED
    BY <1>7, <2>1 DEF Max
<1> QED
  BY <1>1, <1>2, <1>8 DEF SizeRemembered, S, m, N, p

\* A tracker never suggests less than one of the sizes it was given last, for any number of sizes
\* it keeps, any sizes and any number of documents: getSize() is the largest of them (bsonmisc.h).
THEOREM TrackerRemembers == TrackerSpec => []SizeRemembered
<1>1. Tracked /\ [TrackerNext]_sizeVars => Tracked'
  <2> SUFFICES ASSUME Tracked, [TrackerNext]_sizeVars PROVE Tracked'
    OBVIOUS
  <2>1. CASE TrackerNext
    <3>1. PICK e \in Sizes : got(e)
      BY <2>1 DEF TrackerNext
    <3>2. e \in Nat
      BY TrackerAssumption
    <3> QED
      BY <3>1, <3>2, GotTracked
  <2>2. CASE UNCHANGED sizeVars
    BY <2>2 DEF sizeVars, Tracked, Kept
  <2> QED
    BY <2>1, <2>2
<1> QED
  BY <1>1, InitTracked, RememberedWhenTracked, PTL DEF TrackerSpec
=============================================================================
