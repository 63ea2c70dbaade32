------------------------------- MODULE RefCount -------------------------------
(***************************************************************************)
(* Reference counted memory of the driver: SharedBuffer, behind every      *)
(* BSONObj (util/shared_buffer.h, with boost::intrusive_ptr), and Status   *)
(* with its ErrorInfo (base/status.h, base/status-inl.h).                  *)
(*                                                                         *)
(* A handle is one such object: a member of an operator, a local of a      *)
(* thread, a temporary.  Copies, assignments and destructions take several *)
(* steps and different threads' steps interleave; the count is an          *)
(* AtomicUInt32, whose operations are single steps (module AtomicWord).    *)
(***************************************************************************)
EXTENDS Integers, FiniteSets

CONSTANTS Handle,          \* objects that may refer to a block
          Block,           \* heap blocks, each with its Holder or ErrorInfo
          NULL,
          WordSize         \* values of an AtomicUInt32

\* A handle has its pointer, and the temporary that an assignment makes.
Slot == Handle \X {"ptr", "tmp"}

ASSUME RefCountAssumption ==
    /\ NULL \notin Block /\ IsFiniteSet(Slot)
    /\ WordSize \in Nat /\ Cardinality(Slot) < WordSize

VARIABLES pc,              \* where each handle's thread is in an operation on it
          p,               \* pointer of each slot
          own,             \* does the slot account for one of the count
          src,             \* the handle being copied
          dead,            \* the block whose count this handle took to 0
          refs,            \* count of each block
          mem              \* "none": not allocated, "live" or "freed"

counts == <<pc, p, own, src, dead, refs, mem>>

\* AtomicWord::fetchAndAdd() and subtractAndFetch(): the word afterwards.
fetchAndAdd(word, n) == (word + n) % WordSize
subtractAndFetch(word, n) == (word - n) % WordSize

ptr(h) == <<h, "ptr">>
tmp(h) == <<h, "tmp">>

\* Nobody is copying from h at this moment: a local is used by one thread, and a member that
\* threads share is neither assigned nor destroyed while they use it.
Unread(h) == \A g \in Handle : (g # h /\ pc[g] \in {"adding", "assigning"}) => src[g] # h

CountInit ==
    /\ pc = [h \in Handle |-> "idle"]
    /\ p = [s \in Slot |-> NULL]
    /\ own = [s \in Slot |-> FALSE]
    /\ src = [h \in Handle |-> h]
    /\ dead = [h \in Handle |-> NULL]
    /\ refs = [b \in Block |-> 0]
    /\ mem = [b \in Block |-> "none"]

\* takeOwnership(), allocate(), Status(code, reason): a new block, its count 1 from the start.
Take(h, b) ==
    /\ pc[h] = "idle" /\ p[ptr(h)] = NULL /\ Unread(h) /\ mem[b] # "live"
    /\ mem' = [mem EXCEPT ![b] = "live"]
    /\ refs' = [refs EXCEPT ![b] = 1]
    /\ p' = [p EXCEPT ![ptr(h)] = b]
    /\ own' = [own EXCEPT ![ptr(h)] = TRUE]
    /\ UNCHANGED <<pc, src, dead>>

\* Copy construction: the pointer first, then the count.
Copy(h, g) ==
    /\ h # g /\ pc[h] = "idle" /\ p[ptr(h)] = NULL /\ Unread(h)
    /\ pc[g] = "idle" /\ p[ptr(g)] # NULL
    /\ p' = [p EXCEPT ![ptr(h)] = p[ptr(g)]]
    /\ src' = [src EXCEPT ![h] = g]
    /\ pc' = [pc EXCEPT ![h] = "adding"]
    /\ UNCHANGED <<own, dead, refs, mem>>

\* operator=, h = g included: intrusive_ptr copies g into a temporary, Status refs it.
Assign(h, g) ==
    /\ pc[h] = "idle" /\ pc[g] = "idle" /\ Unread(h)
    /\ p' = [p EXCEPT ![tmp(h)] = p[ptr(g)]]
    /\ src' = [src EXCEPT ![h] = IF p[ptr(g)] = NULL THEN h ELSE g]
    /\ pc' = [pc EXCEPT ![h] = IF p[ptr(g)] = NULL THEN "dropping" ELSE "assigning"]
    /\ UNCHANGED <<own, dead, refs, mem>>

\* Variant: the pointer is copied and not counted.
AddRefUncounted(h) ==
    /\ pc[h] \in {"adding", "assigning"}
    /\ own' = [own EXCEPT ![IF pc[h] = "adding" THEN ptr(h) ELSE tmp(h)] = TRUE]
    /\ pc' = [pc EXCEPT ![h] = IF @ = "adding" THEN "idle" ELSE "dropping"]
    /\ src' = [src EXCEPT ![h] = h]
    /\ UNCHANGED <<p, dead, refs, mem>>

\* intrusive_ptr_add_ref(), Status::ref(): fetchAndAdd(1).
AddRef(h) ==
    /\ pc[h] \in {"adding", "assigning"}
    /\ LET s == IF pc[h] = "adding" THEN ptr(h) ELSE tmp(h)
       IN  /\ refs' = [refs EXCEPT ![p[s]] = fetchAndAdd(@, 1)]
           /\ own' = [own EXCEPT ![s] = TRUE]
    /\ pc' = [pc EXCEPT ![h] = IF @ = "adding" THEN "idle" ELSE "dropping"]
    /\ src' = [src EXCEPT ![h] = h]
    /\ UNCHANGED <<p, dead, mem>>

\* Moves: swap(), moveFrom(), Status(Status&&) leave the counts alone.
Move(h, g) ==
    /\ h # g /\ pc[h] = "idle" /\ pc[g] = "idle" /\ Unread(h) /\ Unread(g)
    /\ p' = [p EXCEPT ![ptr(h)] = p[ptr(g)], ![ptr(g)] = p[ptr(h)]]
    /\ own' = [own EXCEPT ![ptr(h)] = own[ptr(g)], ![ptr(g)] = own[ptr(h)]]
    /\ UNCHANGED <<pc, src, dead, refs, mem>>

\* ~SharedBuffer(), ~Status(): nothing to do for a null pointer.
Destroy(h) ==
    /\ pc[h] = "idle" /\ Unread(h) /\ p[ptr(h)] # NULL
    /\ pc' = [pc EXCEPT ![h] = "dropping"]
    /\ UNCHANGED <<p, own, src, dead, refs, mem>>

\* Variants: the block is deleted at a count of 1, and never.
ReleaseWhen(h, Last(_)) ==
    /\ pc[h] = "dropping"
    /\ LET b == p[ptr(h)]
           left == subtractAndFetch(refs[b], 1)
       IN  IF b = NULL
           THEN pc' = [pc EXCEPT ![h] = "storing"] /\ UNCHANGED <<refs, own, dead>>
           ELSE /\ refs' = [refs EXCEPT ![b] = left]
                /\ own' = [own EXCEPT ![ptr(h)] = FALSE]
                /\ dead' = [dead EXCEPT ![h] = IF Last(left) THEN b ELSE NULL]
                /\ pc' = [pc EXCEPT ![h] = IF Last(left) THEN "freeing" ELSE "storing"]
    /\ UNCHANGED <<p, src, mem>>
ReleaseEarly(h) == ReleaseWhen(h, LAMBDA left : left <= 1)
ReleaseNever(h) == ReleaseWhen(h, LAMBDA left : FALSE)

\* intrusive_ptr_release(), Status::unref() of the old pointer: subtractAndFetch(1), and the
\* block is deleted by whoever gets 0.
Release(h) ==
    /\ pc[h] = "dropping"
    /\ LET b == p[ptr(h)]
           left == subtractAndFetch(refs[b], 1)
       IN  IF b = NULL
           THEN pc' = [pc EXCEPT ![h] = "storing"] /\ UNCHANGED <<refs, own, dead>>
           ELSE /\ refs' = [refs EXCEPT ![b] = left]
                /\ own' = [own EXCEPT ![ptr(h)] = FALSE]
                /\ dead' = [dead EXCEPT ![h] = IF left = 0 THEN b ELSE NULL]
                /\ pc' = [pc EXCEPT ![h] = IF left = 0 THEN "freeing" ELSE "storing"]
    /\ UNCHANGED <<p, src, mem>>

\* free(), delete.
Free(h) ==
    /\ pc[h] = "freeing"
    /\ mem' = [mem EXCEPT ![dead[h]] = "freed"]
    /\ dead' = [dead EXCEPT ![h] = NULL]
    /\ pc' = [pc EXCEPT ![h] = "storing"]
    /\ UNCHANGED <<p, own, src, refs>>

\* The end of an assignment, _error = other._error, or of a destruction: no pointer is left.
\* (intrusive_ptr swaps before it releases; no other thread looks at h in between.)
Store(h) ==
    /\ pc[h] = "storing"
    /\ p' = [p EXCEPT ![ptr(h)] = p[tmp(h)], ![tmp(h)] = NULL]
    /\ own' = [own EXCEPT ![ptr(h)] = own[tmp(h)], ![tmp(h)] = FALSE]
    /\ pc' = [pc EXCEPT ![h] = "idle"]
    /\ UNCHANGED <<src, dead, refs, mem>>

\* What a thread does by itself once it has begun an operation on h.
Continue(h) == AddRef(h) \/ Release(h) \/ Free(h) \/ Store(h)

-----------------------------------------------------------------------------
(* Properties *)

CountTypeOK ==
    /\ pc \in [Handle -> {"idle", "adding", "assigning", "dropping", "freeing", "storing"}]
    /\ p \in [Slot -> Block \cup {NULL}] /\ own \in [Slot -> BOOLEAN]
    /\ src \in [Handle -> Handle] /\ dead \in [Handle -> Block \cup {NULL}]
    /\ refs \in [Block -> Nat] /\ mem \in [Block -> {"none", "live", "freed"}]

\* The slots that account for the count of b.
Owners(b) == {s \in Slot : own[s] /\ p[s] = b}

\* The count of a block is the number of pointers that stand for it, in the middle of any
\* number of copies, assignments and destructions too.
CountExact == \A b \in Block : mem[b] = "live" => refs[b] = Cardinality(Owners(b))

\* Memory a handle can be read through is allocated, and it is freed by exactly one of the
\* threads that drop it.
NoUseAfterFree ==
    /\ \A h \in Handle : (pc[h] = "idle" /\ p[ptr(h)] # NULL) => mem[p[ptr(h)]] = "live"
    /\ \A h \in Handle : pc[h] = "freeing" => mem[dead[h]] = "live" /\ Owners(dead[h]) = {}
    /\ \A h, g \in Handle : (pc[h] = "freeing" /\ pc[g] = "freeing" /\ h # g) => dead[h] # dead[g]

\* No block is lost: while it is allocated somebody points to it, or is about to free it.
NoLeak ==
    \A b \in Block : mem[b] = "live" =>
        \/ Owners(b) # {}
        \/ \E h \in Handle : pc[h] = "freeing" /\ dead[h] = b

\* The inductive invariant: which slots account for a count at each step of an operation,
SlotShape ==
    \A h \in Handle :
        /\ own[ptr(h)] <=> (p[ptr(h)] # NULL /\ pc[h] \in {"idle", "assigning", "dropping"})
        /\ own[tmp(h)] <=> (p[tmp(h)] # NULL /\ pc[h] # "assigning")
        /\ pc[h] \in {"idle", "adding"} => p[tmp(h)] = NULL
        /\ pc[h] = "adding" => p[ptr(h)] # NULL /\ src[h] # h
        /\ pc[h] = "assigning" => p[tmp(h)] # NULL
        /\ pc[h] = "freeing" <=> dead[h] # NULL
\* that what is being copied stays where it is until the count is taken,
SourceStays ==
    \A h \in Handle :
        /\ pc[h] = "adding" => p[ptr(src[h])] = p[ptr(h)] /\ own[ptr(src[h])]
        /\ pc[h] = "assigning" => p[ptr(src[h])] = p[tmp(h)] /\ own[ptr(src[h])]
        /\ pc[h] \in {"adding", "assigning"} => (src[h] = h \/ pc[src[h]] = "idle")
\* and that whoever accounts for a block keeps it.
OwnedLive == \A s \in Slot : own[s] => mem[p[s]] = "live"
CountInv == CountTypeOK /\ SlotShape /\ SourceStays /\ OwnedLive /\ CountExact /\ NoUseAfterFree /\ NoLeak
=============================================================================
