---------------------------- MODULE BuilderMemory ----------------------------
(***************************************************************************)
(* The memory of a builder: _BufBuilder (bson/util/builder.h) with its two *)
(* allocators, the BSONObjBuilders that share one buffer                   *)
(* (bson/bsonobjbuilder.h) and the StringBuilder, from construction to     *)
(* destruction, with every point at which an exception may leave it.       *)
(*                                                                         *)
(* What is written is left out: a call adds some number of bytes.  A block *)
(* of the heap is a name; BUF is the array inside a StackAllocator.        *)
(***************************************************************************)
EXTENDS Integers, FiniteSets

CONSTANTS Block,           \* heap blocks
          NULL, BUF,
          Holder,          \* sizeof(BSONObj::Holder)
          IntSize,         \* sizeof(int), the size field of an object
          InitSize,        \* initsize of the constructor, 512 in the code
          StackSize,       \* StackAllocator::SZ, 512 in the code
          MinAlloc,        \* first size grow_reallocate() tries, 64 in the code
          BufferMaxSize,   \* 64 MB in the code
          IntMax,          \* largest int
          MaxAppend,       \* bound: bytes one call adds
          MaxDepth,        \* bound: builders over one buffer
          MaxOom           \* bound: allocations that fail

ASSUME BuilderAssumption ==
    /\ NULL \notin Block /\ BUF \notin Block /\ NULL # BUF
    /\ Holder \in Nat /\ IntSize \in Nat \ {0} /\ InitSize \in Nat \ {0} /\ StackSize \in Nat \ {0}
    /\ MinAlloc \in Nat \ {0} /\ BufferMaxSize \in Nat /\ IntMax \in Nat
    /\ MaxAppend \in Nat \ {0} /\ MaxDepth \in Nat \ {0} /\ MaxOom \in Nat
    /\ BufferMaxSize <= IntMax

VARIABLES pc,              \* what the thread does with the builder
          kind,            \* "object": BSONObjBuilder; "string": StringBuilder
          stack,           \* is the allocator a StackAllocator
          live,            \* blocks allocated and not freed
          data, l, size, reservedBytes,      \* members of the _BufBuilder
          depth,           \* builders over the buffer
          topDone,         \* _doneCalled of the innermost one
          obj,             \* block of the BSONObj that obj() returned, or NULL
          a, minSize, after, by,             \* grow_reallocate(): its loop, where it returns to
          lost,            \* blocks no pointer leads to any more
          ooms,            \* allocations that have failed
          wild             \* was memory written or freed that the builder does not own

members == <<data, l, size, reservedBytes>>
growth == <<a, minSize, after, by>>
vars == <<pc, kind, stack, live, members, depth, topDone, obj, growth, lost, ooms, wild>>

\* int arithmetic in two's complement: what a * 2 is when it does not fit, on either side.
Wrap(n) == IF n > IntMax THEN n - 2 * (IntMax + 1)
           ELSE IF n < -(IntMax + 1) THEN n + 2 * (IntMax + 1) ELSE n

-----------------------------------------------------------------------------
(* The allocators *)

\* A fresh block, or the array of the StackAllocator when the size fits in it.
Malloc(sz, p) == IF stack' /\ sz <= StackSize THEN p = BUF ELSE p \in Block \ live

\* Free() of a pointer of this builder; freeing what is not allocated is wild.
Freed(p) == IF stack /\ p = BUF THEN live ELSE live \ {p}
FreeIsWild(p) == ~(stack /\ p = BUF) /\ p \notin live

\* malloc and realloc may fail.
Oom == ooms < MaxOom /\ ooms' = ooms + 1

Init ==
    /\ pc = "none" /\ kind = "object" /\ stack = FALSE
    /\ live = {} /\ data = NULL /\ l = 0 /\ size = 0 /\ reservedBytes = 0
    /\ depth = 0 /\ topDone = FALSE /\ obj = NULL
    /\ a = MinAlloc /\ minSize = 0 /\ after = "ready" /\ by = 0
    /\ lost = {} /\ ooms = 0 /\ wild = FALSE

\* The constructors: BSONObjBuilder(initsize) with room for the Holder, StringBuilder() with
\* the default size, StackStringBuilder() with the StackAllocator.
Construct(k, st) ==
    /\ pc = "none"
    /\ kind' = k /\ stack' = st
    /\ LET want == IF st THEN StackSize ELSE IF k = "object" THEN Holder + InitSize ELSE InitSize
       IN  \/ \E p \in Block \cup {BUF} :
                /\ Malloc(want, p)
                /\ data' = p
                /\ live' = IF p = BUF THEN live ELSE live \cup {p}
                /\ size' = want /\ l' = 0 /\ reservedBytes' = 0
                /\ pc' = IF k = "object" THEN "holder" ELSE "ready"
                /\ depth' = IF k = "object" THEN 0 ELSE 1
                /\ UNCHANGED ooms
           \/ /\ ~(st /\ want <= StackSize)
              /\ Oom
              /\ data' = NULL /\ UNCHANGED <<live, size, l, reservedBytes, pc, depth>>
    /\ topDone' = FALSE
    /\ UNCHANGED <<obj, growth, lost, wild>>

-----------------------------------------------------------------------------
(* grow(), reserveBytes() and grow_reallocate() *)

\* The room is there: the bytes are used, or reserved.
Use(n, reserve) ==
    IF reserve THEN reservedBytes' = reservedBytes + n /\ UNCHANGED l
               ELSE l' = l + n /\ UNCHANGED reservedBytes

\* Variant: the reserved bytes are not counted.
GrowUnreserved(n, reserve, next) ==
    LET need == l + n
    IN  IF need > size
        THEN /\ pc' = "growing" /\ a' = MinAlloc /\ minSize' = need
             /\ after' = next /\ by' = n
             /\ UNCHANGED <<l, reservedBytes>>
        ELSE Use(n, reserve) /\ pc' = next /\ UNCHANGED growth

\* grow(n) or reserveBytes(n), then on to next: at once when the buffer is large enough,
\* otherwise through grow_reallocate(), which starts at MinAlloc.
Grow(n, reserve, next) ==
    LET need == l + n + reservedBytes
    IN  IF need > size
        THEN /\ pc' = "growing" /\ a' = MinAlloc /\ minSize' = need
             /\ after' = next /\ by' = n
             /\ UNCHANGED <<l, reservedBytes>>
        ELSE Use(n, reserve) /\ pc' = next /\ UNCHANGED growth

\* Variant: the size is cut to the limit instead of passing it.
GrowLoopCut ==
    /\ pc = "growing" /\ a < minSize
    /\ a' = IF a * 2 > BufferMaxSize THEN BufferMaxSize ELSE a * 2
    /\ UNCHANGED <<pc, kind, stack, live, members, depth, topDone, obj, minSize, after, by,
                   lost, ooms, wild>>

\* while (a < minSize) a = a * 2;
GrowLoop ==
    /\ pc = "growing" /\ a < minSize
    /\ a' = Wrap(a * 2)
    /\ UNCHANGED <<pc, kind, stack, live, members, depth, topDone, obj, minSize, after, by,
                   lost, ooms, wild>>

\* Is the size that was asked for a reservation?  Only the builders' constructors reserve.
Reserving == after \in {"opened", "subOpened"}

\* Past the limit: msgasserted() throws, nothing has changed.
GrowRefused ==
    /\ pc = "growing" /\ a >= minSize /\ a > BufferMaxSize
    /\ pc' = "unwinding"
    /\ UNCHANGED <<kind, stack, live, members, depth, topDone, obj, growth, lost, ooms, wild>>

\* Realloc(): out of the StackAllocator's array, in place, or to another block.
GrowDone ==
    /\ pc = "growing" /\ a >= minSize /\ a <= BufferMaxSize
    /\ \/ /\ stack /\ data = BUF /\ a <= StackSize
          /\ UNCHANGED <<data, live, wild>>
       \/ /\ ~(stack /\ data = BUF /\ a <= StackSize)
          /\ \E p \in (Block \ live) \cup (live \cap {data}) :
                /\ data' = p
                /\ live' = Freed(data) \cup {p}
                /\ wild' = (wild \/ (data # BUF /\ data \notin live))
    /\ size' = a
    /\ Use(by, Reserving)
    /\ pc' = after
    /\ UNCHANGED <<kind, stack, depth, topDone, obj, growth, lost, ooms>>

\* Realloc() fails.  Leaving the StackAllocator's array it throws before data is assigned;
\* otherwise data becomes NULL and the block it pointed to, which realloc() has kept, is lost.
GrowOom ==
    /\ pc = "growing" /\ a >= minSize /\ a <= BufferMaxSize
    /\ ~(stack /\ data = BUF /\ a <= StackSize)
    /\ Oom
    /\ IF data = BUF THEN UNCHANGED <<data, lost>>
                     ELSE data' = NULL /\ lost' = lost \cup ({data} \cap live)
    /\ pc' = "unwinding"
    /\ UNCHANGED <<kind, stack, live, l, size, reservedBytes, depth, topDone, obj, growth, wild>>

-----------------------------------------------------------------------------
(* BSONObjBuilder *)

\* BSONObjBuilder(int): skip(sizeof(Holder)), skip(sizeof(int)), reserveBytes(1).
\* BSONObjBuilder(BufBuilder&): the same without the Holder.  Until the body is through, an
\* exception does not run this builder's destructor.
SkipHolder == pc = "holder" /\ Grow(Holder, FALSE, "size")
SkipSize == pc \in {"size", "subSize"}
            /\ Grow(IntSize, FALSE, IF pc = "size" THEN "reserve" ELSE "subReserve")
ReserveEOO == pc \in {"reserve", "subReserve"}
              /\ Grow(1, TRUE, IF pc = "reserve" THEN "opened" ELSE "subOpened")

ConstructorBody ==
    /\ SkipHolder \/ SkipSize \/ ReserveEOO
    /\ UNCHANGED <<kind, stack, live, data, size, depth, topDone, obj, lost, ooms, wild>>

\* The constructor returns: one more builder over the buffer.
Opened ==
    /\ pc \in {"opened", "subOpened"}
    /\ depth' = depth + 1 /\ topDone' = FALSE /\ pc' = "ready"
    /\ UNCHANGED <<kind, stack, live, members, obj, growth, lost, ooms, wild>>

\* Any append: type, name and value; a name with a NUL throws before the first byte.
AppendBytes(n) ==
    /\ pc = "ready" /\ kind = "object" /\ ~topDone
    /\ Grow(n, FALSE, "ready")
    /\ UNCHANGED <<kind, stack, live, data, size, depth, topDone, obj, lost, ooms, wild>>

BadFieldName ==
    /\ pc = "ready" /\ kind = "object" /\ ~topDone
    /\ pc' = "unwinding"
    /\ UNCHANGED <<kind, stack, live, members, depth, topDone, obj, growth, lost, ooms, wild>>

\* subobjStart(), subarrayStart(): the header, and the constructor of the sub-builder.
SubStart(n) ==
    /\ pc = "ready" /\ kind = "object" /\ ~topDone /\ depth < MaxDepth
    /\ Grow(n, FALSE, "subSize")
    /\ UNCHANGED <<kind, stack, live, data, size, depth, topDone, obj, lost, ooms, wild>>

\* _done(): claim the reserved byte, append EOO.  It writes whatever grow(1) finds, so it
\* must never have to grow; needing to is recorded as a wild write.
_done ==
    /\ reservedBytes' = reservedBytes - 1
    /\ l' = l + 1
    /\ wild' = (wild \/ data = NULL \/ reservedBytes < 1 \/ l + reservedBytes > size)

\* done(), doneFast(): nothing more if it has been called.
Done ==
    /\ pc = "ready" /\ kind = "object" /\ ~topDone
    /\ _done /\ topDone' = TRUE
    /\ UNCHANGED <<pc, kind, stack, live, data, size, depth, obj, growth, lost, ooms>>

\* asTempObj(): _done(), then the EOO is given back and its byte reserved again.
AsTempObj ==
    /\ pc = "ready" /\ kind = "object" /\ ~topDone
    /\ wild' = (wild \/ data = NULL \/ reservedBytes < 1 \/ l + reservedBytes > size)
    /\ UNCHANGED <<pc, kind, stack, live, members, depth, topDone, obj, growth, lost, ooms>>

\* Variant: no decouple(), so the builder still points to what the BSONObj owns.
ObjCoupled ==
    /\ pc = "ready" /\ kind = "object" /\ depth = 1 /\ obj = NULL
    /\ IF topDone THEN UNCHANGED <<l, reservedBytes, wild>> ELSE _done
    /\ topDone' = TRUE
    /\ obj' = data
    /\ pc' = "unwinding"
    /\ UNCHANGED <<kind, stack, live, data, size, depth, growth, lost, ooms>>

\* obj() of the root: _done() unless done, decouple(), takeOwnership() by a BSONObj.
Obj ==
    /\ pc = "ready" /\ kind = "object" /\ depth = 1 /\ obj = NULL
    /\ IF topDone THEN UNCHANGED <<l, reservedBytes, wild>> ELSE _done
    /\ topDone' = TRUE
    /\ obj' = data /\ data' = NULL
    /\ pc' = "unwinding"
    /\ UNCHANGED <<kind, stack, live, size, depth, growth, lost, ooms>>

-----------------------------------------------------------------------------
(* StringBuilder *)

\* SBNUM and appendDoubleNice(): room for the longest number, then back to what was printed;
\* operator<<(char), append(), write(): exactly the bytes.
StringAppend(n) ==
    /\ pc = "ready" /\ kind = "string"
    /\ Grow(n, FALSE, "ready")
    /\ UNCHANGED <<kind, stack, live, data, size, depth, topDone, obj, lost, ooms, wild>>
StringShrink(n) ==
    /\ pc = "ready" /\ kind = "string" /\ n <= l
    /\ l' = l - n
    /\ UNCHANGED <<pc, kind, stack, live, data, size, reservedBytes, depth, topDone, obj, growth,
                   lost, ooms, wild>>

\* reset(maxSize): a buffer that has grown past maxSize is replaced by one of that size.
Reset(max) ==
    /\ pc = "ready" /\ kind = "string"
    /\ l' = 0 /\ reservedBytes' = 0
    /\ \/ /\ max = 0 \/ size <= max
          /\ UNCHANGED <<pc, live, data, size, ooms, wild>>
       \/ /\ max > 0 /\ size > max
          /\ wild' = (wild \/ FreeIsWild(data))
          /\ \/ \E p \in Block \cup {BUF} :
                  /\ IF stack /\ max <= StackSize THEN p = BUF ELSE p \in Block \ Freed(data)
                  /\ data' = p /\ live' = Freed(data) \cup ({p} \ {BUF})
                  /\ size' = max /\ UNCHANGED <<pc, ooms>>
             \/ /\ ~(stack /\ max <= StackSize) /\ Oom
                /\ data' = NULL /\ live' = Freed(data) /\ pc' = "unwinding" /\ UNCHANGED size
    /\ UNCHANGED <<kind, stack, depth, topDone, obj, growth, lost>>

-----------------------------------------------------------------------------
(* Destruction: at the end of the scope, or while an exception unwinds it *)

\* The scope ends; a sub-builder may end before its parent goes on.
EndScope ==
    /\ pc = "ready" /\ depth = 1
    /\ pc' = "unwinding"
    /\ UNCHANGED <<kind, stack, live, members, depth, topDone, obj, growth, lost, ooms, wild>>

\* Variant: _done() also when the buffer is gone.
DestroySubAlways ==
    /\ pc \in {"ready", "unwinding"} /\ kind = "object" /\ depth > 1
    /\ IF ~topDone THEN _done ELSE UNCHANGED <<l, reservedBytes, wild>>
    /\ depth' = depth - 1 /\ topDone' = FALSE
    /\ UNCHANGED <<pc, kind, stack, live, data, size, obj, growth, lost, ooms>>

\* ~BSONObjBuilder() of a sub-builder: _done() if it was not called and there is a buffer.
DestroySub ==
    /\ pc \in {"ready", "unwinding"} /\ kind = "object" /\ depth > 1
    /\ IF ~topDone /\ data # NULL THEN _done ELSE UNCHANGED <<l, reservedBytes, wild>>
    /\ depth' = depth - 1 /\ topDone' = FALSE
    /\ UNCHANGED <<pc, kind, stack, live, data, size, obj, growth, lost, ooms>>

\* The builder that owns the buffer goes: ~_BufBuilder() kills what it still points to.
DestroyRoot ==
    /\ pc = "unwinding" /\ depth <= 1
    /\ IF data = NULL THEN UNCHANGED <<live, wild>>
       ELSE live' = Freed(data) /\ wild' = (wild \/ FreeIsWild(data))
    /\ data' = NULL
    /\ depth' = 0 /\ topDone' = FALSE
    /\ pc' = IF obj = NULL THEN "none" ELSE "sent"
    /\ UNCHANGED <<kind, stack, l, size, reservedBytes, obj, growth, lost, ooms>>

\* The last BSONObj goes: SharedBuffer frees the block.
ReleaseObj ==
    /\ pc = "sent"
    /\ live' = live \ {obj} /\ wild' = (wild \/ obj \notin live)
    /\ obj' = NULL /\ pc' = "none"
    /\ UNCHANGED <<kind, stack, members, depth, topDone, growth, lost, ooms>>

Next ==
    \/ \E k \in {"object", "string"} : Construct(k, FALSE)
    \/ Construct("string", TRUE)
    \/ ConstructorBody \/ Opened
    \/ \E n \in 1..MaxAppend : AppendBytes(n) \/ SubStart(n) \/ StringAppend(n) \/ StringShrink(n)
    \/ BadFieldName \/ Done \/ AsTempObj \/ Obj
    \/ \E max \in {0, InitSize} : Reset(max)
    \/ GrowLoop \/ GrowRefused \/ GrowDone \/ GrowOom
    \/ EndScope \/ DestroySub \/ DestroyRoot \/ ReleaseObj

Spec == Init /\ [][Next]_vars

\* The steps the thread takes by itself once it has called into the library or left a scope.
Busy == GrowLoop \/ GrowRefused \/ GrowDone \/ GrowOom \/ ConstructorBody \/ Opened
Leaving == pc = "unwinding" /\ (DestroySub \/ DestroyRoot)
FairSpec == Spec /\ WF_vars(Busy) /\ WF_vars(Leaving)

-----------------------------------------------------------------------------
(* Properties *)

States == {"none", "holder", "size", "reserve", "opened", "subSize", "subReserve", "subOpened",
           "ready", "growing", "unwinding", "sent"}

\* Every member of the builder and of the heap has its type, through every exception.
TypeOK ==
    /\ pc \in States /\ kind \in {"object", "string"} /\ stack \in BOOLEAN
    /\ live \subseteq Block /\ data \in Block \cup {NULL, BUF}
    /\ l \in Nat /\ size \in Nat /\ reservedBytes \in Nat
    /\ depth \in Nat /\ topDone \in BOOLEAN /\ obj \in Block \cup {NULL}
    /\ a \in Int /\ minSize \in Nat /\ by \in Nat
    /\ after \in {"size", "reserve", "opened", "subSize", "subReserve", "subOpened", "ready"}
    /\ lost \subseteq Block /\ ooms \in Nat /\ wild \in BOOLEAN

\* The builders over the buffer that have reserved the byte of their EOO and not used it.
Undone == depth - (IF topDone THEN 1 ELSE 0) + (IF pc \in {"opened", "subOpened"} THEN 1 ELSE 0)

\* "This means _done() can't fail" (bsonobjbuilder.h, the constructors): as long as there is a
\* buffer, every builder over it that is not done has its byte in it, however far the buffer has
\* been filled, whichever sub-builder is open and whatever exception is being unwound.
DoneCannotFail ==
    (pc \notin {"none", "sent"} /\ data # NULL) =>
        /\ l + reservedBytes <= size
        /\ reservedBytes = (IF kind = "object" THEN Undone ELSE 0)

\* Every heap block has exactly one owner: the builder, the BSONObj that obj() returned, or,
\* after a realloc() that failed, nobody (the one leak of grow_reallocate()); a builder that is
\* gone leaves nothing else behind.
OwnedOnce ==
    /\ live = ({data} \cap Block) \cup ({obj} \cap Block) \cup lost
    /\ data # obj \/ data = NULL
    /\ data \notin lost /\ obj \notin lost
    /\ Cardinality(lost) <= ooms
    /\ pc = "none" => live = lost

\* Nothing is written past the buffer, after it is gone, or freed twice: by _done() in a
\* destructor during unwinding, by ~_BufBuilder() after decouple(), by reset() or Realloc().
NoWildAccess == ~wild

\* A builder that has to grow ends up with a buffer, or with an exception: the doubling loop
\* of grow_reallocate() reaches the size or passes the limit (builder.h:281-288).  That takes an
\* append below half of the range of int: of a larger one the code says "past the 64MB limit" too,
\* but the loop wraps to 0 before it gets there.  An exception leaves every open builder, and the
\* one that owns the buffer frees it.
CallsEnd ==
    /\ pc = "growing" ~> pc # "growing"
    /\ pc = "unwinding" ~> pc \in {"none", "sent"}

\* The inductive invariant: what else ties the program counter to the members.
Constructing == {"holder", "size", "reserve", "opened", "subSize", "subReserve", "subOpened"}
Shape ==
    /\ pc \in Constructing \cup {"ready", "growing"} => data # NULL
    /\ pc \in {"none", "sent"} => data = NULL
    /\ obj # NULL => data = NULL /\ pc \in {"unwinding", "sent"}
    /\ pc = "sent" => obj # NULL
    /\ data = BUF => stack
    /\ stack => kind = "string"
    /\ kind = "string" => pc \notin Constructing
    /\ topDone => pc \in {"ready", "unwinding"} /\ depth >= 1 /\ kind = "object"
    /\ pc = "ready" => depth >= 1
    /\ pc = "growing" => /\ minSize = l + by + reservedBytes
                         /\ after = "ready" => depth >= 1
                         /\ kind = "string" => after = "ready"
                         /\ Reserving => by = 1
    /\ IsFiniteSet(lost)
IInv == TypeOK /\ Shape /\ DoneCannotFail /\ OwnedOnce /\ NoWildAccess
=============================================================================
