----------------------- MODULE OperatorLifecycleProofs -----------------------
(***************************************************************************)
(* RefCount and OperatorLifecycle for any number of handles, blocks,       *)
(* operators and threads.                                                  *)
(***************************************************************************)
EXTENDS OperatorLifecycle, FiniteSetTheorems, TLAPS

-----------------------------------------------------------------------------
(* The pointers that account for a count, and how many they are *)

LEMMA OwnersFinite ==
    ASSUME NEW b PROVE IsFiniteSet(Owners(b)) /\ Cardinality(Owners(b)) \in Nat
                       /\ Cardinality(Owners(b)) < WordSize
<1>1. Owners(b) \subseteq Slot
  BY DEF Owners
<1>2. IsFiniteSet(Owners(b)) /\ Cardinality(Owners(b)) <= Cardinality(Slot)
  BY <1>1, RefCountAssumption, FS_Subset
<1>3. Cardinality(Owners(b)) \in Nat /\ Cardinality(Slot) \in Nat
  BY <1>2, RefCountAssumption, FS_CardinalityType
<1> QED
  BY <1>2, <1>3, RefCountAssumption

\* One element for another: as many as before.
LEMMA Exchange ==
    ASSUME NEW A, IsFiniteSet(A), NEW x \in A, NEW y, y \notin A
    PROVE  Cardinality((A \ {x}) \cup {y}) = Cardinality(A)
<1>1. IsFiniteSet(A \ {x}) /\ Cardinality(A \ {x}) = Cardinality(A) - 1
  BY FS_RemoveElement
<1>2. y \notin A \ {x}
  OBVIOUS
<1>3. Cardinality((A \ {x}) \cup {y}) = Cardinality(A \ {x}) + 1
  BY <1>1, <1>2, FS_AddElement
<1>4. Cardinality(A) \in Nat
  BY FS_CardinalityType
<1> QED
  BY <1>1, <1>3, <1>4

\* Nobody frees a block that somebody accounts for.
LEMMA FreeingShape ==
    ASSUME CountInv, NEW h \in Handle, pc[h] = "freeing"
    PROVE  dead[h] \in Block /\ mem[dead[h]] = "live" /\ Owners(dead[h]) = {}
BY DEF CountInv, CountTypeOK, SlotShape, NoUseAfterFree

LEMMA SlotFacts ==
    /\ \A h \in Handle : ptr(h) \in Slot /\ tmp(h) \in Slot
    /\ \A h, g \in Handle : ptr(h) # tmp(g) /\ (ptr(h) = ptr(g) => h = g) /\ (tmp(h) = tmp(g) => h = g)
    /\ \A s \in Slot : \E h \in Handle : s = ptr(h) \/ s = tmp(h)
BY DEF Slot, ptr, tmp

LEMMA WordPositive == WordSize \in Nat \ {0}
<1>1. Cardinality(Slot) \in Nat
  BY RefCountAssumption, FS_CardinalityType
<1> QED
  BY <1>1, RefCountAssumption

\* A word of the count after either operation.
LEMMA WordType ==
    \A w \in Nat : fetchAndAdd(w, 1) \in Nat /\ subtractAndFetch(w, 1) \in Nat
BY WordPositive DEF fetchAndAdd, subtractAndFetch

-----------------------------------------------------------------------------
(* Every step of an operation keeps the invariant *)

LEMMA CopyKeeps ==
    ASSUME CountInv, NEW h \in Handle, NEW g \in Handle, Copy(h, g)
    PROVE  CountInv'
<1>1. CountTypeOK'
  BY SlotFacts, WordType DEF CountInv, CountTypeOK, SlotShape, Copy
<1>2. SlotShape'
  BY SlotFacts, RefCountAssumption DEF CountInv, CountTypeOK, SlotShape, Copy
<1>3. SourceStays'
  BY SlotFacts, RefCountAssumption DEF CountInv, CountTypeOK, SlotShape, SourceStays, Unread, Copy
<1>4. OwnedLive'
  BY SlotFacts, RefCountAssumption DEF CountInv, CountTypeOK, SlotShape, SourceStays, OwnedLive, Copy
<1>0. \A b \in Block : Owners(b)' = Owners(b)
  BY SlotFacts, RefCountAssumption DEF CountInv, CountTypeOK, SlotShape, Owners, Copy
<1>5. CountExact'
  BY <1>0 DEF CountInv, CountExact, Copy
<1>6. NoUseAfterFree'
  BY <1>0, SlotFacts, RefCountAssumption DEF CountInv, CountTypeOK, SlotShape, SourceStays, OwnedLive, NoUseAfterFree, Copy
<1>7. NoLeak'
  BY <1>0 DEF CountInv, CountTypeOK, NoLeak, Copy
<1> QED
  BY <1>1, <1>2, <1>3, <1>4, <1>5, <1>6, <1>7 DEF CountInv

LEMMA AssignKeeps ==
    ASSUME CountInv, NEW h \in Handle, NEW g \in Handle, Assign(h, g)
    PROVE  CountInv'
<1>1. CountTypeOK'
  BY SlotFacts, WordType DEF CountInv, CountTypeOK, SlotShape, Assign
<1>2. SlotShape'
  BY SlotFacts, RefCountAssumption DEF CountInv, CountTypeOK, SlotShape, Assign
<1>3. SourceStays'
  BY SlotFacts, RefCountAssumption DEF CountInv, CountTypeOK, SlotShape, SourceStays, Unread, Assign
<1>4. OwnedLive'
  BY SlotFacts, RefCountAssumption DEF CountInv, CountTypeOK, SlotShape, SourceStays, OwnedLive, Assign
<1>0. \A b \in Block : Owners(b)' = Owners(b)
  BY SlotFacts, RefCountAssumption DEF CountInv, CountTypeOK, SlotShape, Owners, Assign
<1>5. CountExact'
  BY <1>0 DEF CountInv, CountExact, Assign
<1>6. NoUseAfterFree'
  BY <1>0, SlotFacts, RefCountAssumption DEF CountInv, CountTypeOK, SlotShape, SourceStays, OwnedLive, NoUseAfterFree, Assign
<1>7. NoLeak'
  BY <1>0 DEF CountInv, CountTypeOK, NoLeak, Assign
<1> QED
  BY <1>1, <1>2, <1>3, <1>4, <1>5, <1>6, <1>7 DEF CountInv

LEMMA DestroyKeeps ==
    ASSUME CountInv, NEW h \in Handle, Destroy(h)
    PROVE  CountInv'
<1>1. CountTypeOK'
  BY SlotFacts, WordType DEF CountInv, CountTypeOK, SlotShape, Destroy
<1>2. SlotShape'
  BY SlotFacts, RefCountAssumption DEF CountInv, CountTypeOK, SlotShape, Destroy
<1>3. SourceStays'
  BY SlotFacts, RefCountAssumption DEF CountInv, CountTypeOK, SlotShape, SourceStays, Unread, Destroy
<1>4. OwnedLive'
  BY SlotFacts, RefCountAssumption DEF CountInv, CountTypeOK, SlotShape, SourceStays, OwnedLive, Destroy
<1>0. \A b \in Block : Owners(b)' = Owners(b)
  BY SlotFacts, RefCountAssumption DEF CountInv, CountTypeOK, SlotShape, Owners, Destroy
<1>5. CountExact'
  BY <1>0 DEF CountInv, CountExact, Destroy
<1>6. NoUseAfterFree'
  BY <1>0, SlotFacts, RefCountAssumption DEF CountInv, CountTypeOK, SlotShape, SourceStays, OwnedLive, NoUseAfterFree, Destroy
<1>7. NoLeak'
  BY <1>0 DEF CountInv, CountTypeOK, NoLeak, Destroy
<1> QED
  BY <1>1, <1>2, <1>3, <1>4, <1>5, <1>6, <1>7 DEF CountInv

LEMMA TakeKeeps ==
    ASSUME CountInv, NEW h \in Handle, NEW b \in Block, Take(h, b)
    PROVE  CountInv'
<1>1. CountTypeOK'
  BY SlotFacts, WordType DEF CountInv, CountTypeOK, SlotShape, Take
<1>2. SlotShape'
  BY SlotFacts, RefCountAssumption DEF CountInv, CountTypeOK, SlotShape, Take
<1>3. SourceStays'
  BY SlotFacts, RefCountAssumption DEF CountInv, CountTypeOK, SlotShape, SourceStays, Unread, Take
<1>4. OwnedLive'
  BY SlotFacts, RefCountAssumption DEF CountInv, CountTypeOK, SlotShape, SourceStays, OwnedLive, Take
<1>0. /\ Owners(b) = {} /\ Owners(b)' = {ptr(h)}
      /\ \A c \in Block \ {b} : Owners(c)' = Owners(c)
  <2>1. \A s \in Slot : own[s] => p[s] # b
    BY DEF CountInv, OwnedLive, Take
  <2>2. \A s \in Slot : s # ptr(h) => p'[s] = p[s] /\ own'[s] = own[s]
    BY SlotFacts DEF CountInv, CountTypeOK, Take
  <2>3. p'[ptr(h)] = b /\ own'[ptr(h)] /\ p[ptr(h)] = NULL /\ ~own[ptr(h)] /\ ptr(h) \in Slot
    BY SlotFacts DEF CountInv, CountTypeOK, SlotShape, Take
  <2>4. Owners(b)' = {ptr(h)}
    <3>1. \A s \in Slot : (own'[s] /\ p'[s] = b) <=> s = ptr(h)
      BY <2>1, <2>2, <2>3
    <3> QED
      BY <3>1, <2>3 DEF Owners
  <2>5. ASSUME NEW c \in Block \ {b} PROVE Owners(c)' = Owners(c)
    BY <2>2, <2>3 DEF Owners
  <2> QED
    BY <2>1, <2>4, <2>5 DEF Owners
<1>5. CountExact'
  <2>1. Cardinality({ptr(h)}) = 1
    BY FS_Singleton
  <2> QED
    BY <1>0, <2>1 DEF CountInv, CountTypeOK, CountExact, Take
<1>6. NoUseAfterFree'
  <2>1. \A g \in Handle : pc[g] = "freeing" => dead[g] # b
    BY FreeingShape DEF Take
  <2> QED
    BY <1>0, <2>1, FreeingShape, SlotFacts, RefCountAssumption DEF CountInv, CountTypeOK, SlotShape, OwnedLive, NoUseAfterFree, Take
<1>7. NoLeak'
  BY <1>0 DEF CountInv, CountTypeOK, NoLeak, Take
<1> QED
  BY <1>1, <1>2, <1>3, <1>4, <1>5, <1>6, <1>7 DEF CountInv

LEMMA AddRefKeeps ==
    ASSUME CountInv, NEW h \in Handle, AddRef(h)
    PROVE  CountInv'
<1>1. CountTypeOK'
  BY SlotFacts, WordType DEF CountInv, CountTypeOK, SlotShape, AddRef
<1>2. SlotShape'
  BY SlotFacts, RefCountAssumption DEF CountInv, CountTypeOK, SlotShape, AddRef, fetchAndAdd
<1>3. SourceStays'
  BY SlotFacts, RefCountAssumption DEF CountInv, CountTypeOK, SlotShape, SourceStays, Unread, AddRef, fetchAndAdd
<1>4. OwnedLive'
  BY SlotFacts, RefCountAssumption DEF CountInv, CountTypeOK, SlotShape, SourceStays, OwnedLive, AddRef, fetchAndAdd
<1>b. PICK x \in Slot : x = IF pc[h] = "adding" THEN ptr(h) ELSE tmp(h)
  BY SlotFacts
<1>c. p[x] \in Block
  BY <1>b, SlotFacts DEF CountInv, CountTypeOK, SlotShape, AddRef
<1>d. PICK b \in Block : b = p[x]
  BY <1>c
<1>a. ~own[x] /\ mem[b] = "live" /\ own'[x] /\ p' = p /\ p[x] = b
      /\ \A s \in Slot : s # x => own'[s] = own[s]
  BY <1>b, <1>c, <1>d, SlotFacts, RefCountAssumption DEF CountInv, CountTypeOK, SlotShape, SourceStays, OwnedLive, AddRef
<1>0. /\ Owners(b)' = Owners(b) \cup {x} /\ x \notin Owners(b)
      /\ \A c \in Block \ {b} : Owners(c)' = Owners(c)
  BY <1>a DEF Owners
<1>5. CountExact'
  <2>1. Cardinality(Owners(b)') = Cardinality(Owners(b)) + 1
    BY <1>0, OwnersFinite, FS_AddElement
  <2>2. Cardinality(Owners(b)) + 1 \in Nat /\ Cardinality(Owners(b)) + 1 < WordSize
    <3>1. Owners(b)' \subseteq Slot
      BY <1>0, <1>a DEF Owners
    <3>2. Cardinality(Owners(b)') <= Cardinality(Slot) /\ Cardinality(Slot) \in Nat
      BY <3>1, RefCountAssumption, FS_Subset, FS_CardinalityType
    <3> QED
      BY <2>1, <3>2, OwnersFinite, RefCountAssumption
  <2>3. refs[b] = Cardinality(Owners(b))
    BY <1>a DEF CountInv, CountExact
  <2>4. refs'[b] = Cardinality(Owners(b)')
    <3>1. (Cardinality(Owners(b)) + 1) % WordSize = Cardinality(Owners(b)) + 1
      BY <2>2, RefCountAssumption
    <3>2. refs'[b] = (refs[b] + 1) % WordSize
      BY <1>b, <1>d DEF CountInv, CountTypeOK, AddRef, fetchAndAdd
    <3> QED
      BY <2>1, <2>3, <3>1, <3>2
  <2>5. \A c \in Block \ {b} : refs'[c] = refs[c]
    BY <1>b, <1>d DEF CountInv, CountTypeOK, AddRef
  <2>6. mem' = mem
    BY DEF AddRef
  <2> QED
    BY <1>0, <2>4, <2>5, <2>6 DEF CountInv, CountExact
<1>6. NoUseAfterFree'
  <2>1. \A g \in Handle : pc[g] = "freeing" => dead[g] # b
    <3>1. SUFFICES ASSUME NEW g \in Handle, pc[g] = "freeing", dead[g] = b PROVE FALSE
      OBVIOUS
    <3>2. Owners(b) = {}
      BY <3>1, FreeingShape
    <3>3. own[ptr(src[h])] /\ p[ptr(src[h])] = b /\ ptr(src[h]) \in Slot
      BY <1>b, <1>d, SlotFacts DEF CountInv, CountTypeOK, SourceStays, AddRef
    <3> QED
      BY <3>2, <3>3 DEF Owners
  <2>2. \A g \in Handle : pc'[g] = "freeing" => pc[g] = "freeing" /\ dead'[g] = dead[g]
    BY DEF CountInv, CountTypeOK, AddRef
  <2>3. ASSUME NEW g \in Handle, pc'[g] = "freeing"
        PROVE  mem'[dead'[g]] = "live" /\ Owners(dead[g])' = {}
    <3>1. PICK c \in Block : c = dead[g]
      BY <2>2, <2>3, FreeingShape
    <3>2. c # b /\ mem[c] = "live" /\ Owners(c) = {} /\ dead'[g] = c
      BY <2>1, <2>2, <2>3, <3>1, FreeingShape
    <3>3. Owners(c)' = {}
      BY <1>0, <3>2
    <3>4. mem' = mem
      BY DEF AddRef
    <3> QED
      BY <3>2, <3>3, <3>4 DEF Owners
  <2>4. \A g \in Handle : (pc'[g] = "idle" /\ p'[ptr(g)] # NULL) => mem'[p'[ptr(g)]] = "live"
    BY <1>a, SlotFacts DEF CountInv, CountTypeOK, SlotShape, OwnedLive, AddRef
  <2> QED
    BY <2>2, <2>3, <2>4 DEF CountInv, NoUseAfterFree
<1>7. NoLeak'
  <2>1. mem' = mem /\ dead' = dead /\ \A g \in Handle : pc[g] = "freeing" => pc'[g] = "freeing"
    BY DEF CountInv, CountTypeOK, AddRef
  <2> QED
    BY <1>0, <2>1 DEF CountInv, NoLeak
<1> QED
  BY <1>1, <1>2, <1>3, <1>4, <1>5, <1>6, <1>7 DEF CountInv

LEMMA MoveKeeps ==
    ASSUME CountInv, NEW h \in Handle, NEW g \in Handle, Move(h, g)
    PROVE  CountInv'
<1>1. CountTypeOK'
  BY SlotFacts, WordType DEF CountInv, CountTypeOK, SlotShape, Move
<1>2. SlotShape'
  BY SlotFacts, RefCountAssumption DEF CountInv, CountTypeOK, SlotShape, Move
<1>3. SourceStays'
  BY SlotFacts, RefCountAssumption DEF CountInv, CountTypeOK, SlotShape, SourceStays, Unread, Move
<1>4. OwnedLive'
  BY SlotFacts, RefCountAssumption DEF CountInv, CountTypeOK, SlotShape, SourceStays, OwnedLive, Move
<1>b. PICK x \in Slot : x = ptr(h)
  BY SlotFacts
<1>c. PICK y \in Slot : y = ptr(g)
  BY SlotFacts
<1>a. /\ x # y /\ p'[x] = p[y] /\ p'[y] = p[x] /\ own'[x] = own[y] /\ own'[y] = own[x]
      /\ \A s \in Slot : (s # x /\ s # y) => p'[s] = p[s] /\ own'[s] = own[s]
  BY <1>b, <1>c, SlotFacts DEF CountInv, CountTypeOK, Move
<1>0. ASSUME NEW c \in Block PROVE Cardinality(Owners(c)') = Cardinality(Owners(c))
                                   /\ (Owners(c)' = {} <=> Owners(c) = {})
  <2>1. CASE x \in Owners(c) /\ y \notin Owners(c)
    <3>1. Owners(c)' = (Owners(c) \ {x}) \cup {y}
      BY <1>a, <2>1 DEF Owners
    <3> QED
      BY <2>1, <3>1, Exchange, OwnersFinite
  <2>2. CASE y \in Owners(c) /\ x \notin Owners(c)
    <3>1. Owners(c)' = (Owners(c) \ {y}) \cup {x}
      BY <1>a, <2>2 DEF Owners
    <3> QED
      BY <2>2, <3>1, Exchange, OwnersFinite
  <2>3. CASE x \in Owners(c) <=> y \in Owners(c)
    <3>1. Owners(c)' = Owners(c)
      BY <1>a, <2>3 DEF Owners
    <3> QED
      BY <3>1
  <2> QED
    BY <2>1, <2>2, <2>3
<1>5. CountExact'
  BY <1>0 DEF CountInv, CountExact, Move
<1>f. ASSUME NEW k \in Handle, pc'[k] = "freeing" PROVE mem'[dead'[k]] = "live" /\ Owners(dead[k])' = {}
  <2>1. PICK c \in Block : c = dead[k]
    BY <1>f, FreeingShape DEF CountInv, CountTypeOK, Move
  <2>2. mem[c] = "live" /\ Owners(c) = {} /\ dead'[k] = c /\ mem' = mem
    BY <1>f, <2>1, FreeingShape DEF CountInv, CountTypeOK, Move
  <2>3. Owners(c)' = {}
    BY <1>0, <2>2
  <2> QED
    BY <2>2, <2>3 DEF Owners
<1>6. NoUseAfterFree'
  <2>1. \A k \in Handle : (pc'[k] = "idle" /\ p'[ptr(k)] # NULL) => mem'[p'[ptr(k)]] = "live"
    BY <1>2, <1>4, SlotFacts DEF SlotShape, OwnedLive
  <2>2. \A k \in Handle : pc'[k] = "freeing" => pc[k] = "freeing" /\ dead'[k] = dead[k]
    BY DEF CountInv, CountTypeOK, Move
  <2> QED
    BY <1>f, <2>1, <2>2 DEF CountInv, NoUseAfterFree
<1>7. NoLeak'
  <2>1. mem' = mem /\ dead' = dead /\ \A k \in Handle : pc[k] = "freeing" => pc'[k] = "freeing"
    BY DEF CountInv, CountTypeOK, Move
  <2> QED
    BY <1>0, <2>1 DEF CountInv, NoLeak
<1> QED
  BY <1>1, <1>2, <1>3, <1>4, <1>5, <1>6, <1>7 DEF CountInv

LEMMA StoreKeeps ==
    ASSUME CountInv, NEW h \in Handle, Store(h)
    PROVE  CountInv'
<1>1. CountTypeOK'
  BY SlotFacts, WordType DEF CountInv, CountTypeOK, SlotShape, Store
<1>2. SlotShape'
  BY SlotFacts, RefCountAssumption DEF CountInv, CountTypeOK, SlotShape, Store
<1>3. SourceStays'
  BY SlotFacts, RefCountAssumption DEF CountInv, CountTypeOK, SlotShape, SourceStays, Unread, Store
<1>4. OwnedLive'
  BY SlotFacts, RefCountAssumption DEF CountInv, CountTypeOK, SlotShape, SourceStays, OwnedLive, Store
<1>b. PICK x \in Slot : x = ptr(h)
  BY SlotFacts
<1>c. PICK y \in Slot : y = tmp(h)
  BY SlotFacts
<1>a. /\ x # y /\ p'[x] = p[y] /\ own'[x] = own[y] /\ ~own'[y] /\ ~own[x]
      /\ \A s \in Slot : (s # x /\ s # y) => p'[s] = p[s] /\ own'[s] = own[s]
  BY <1>b, <1>c, SlotFacts DEF CountInv, CountTypeOK, SlotShape, Store
<1>0. ASSUME NEW c \in Block PROVE Cardinality(Owners(c)') = Cardinality(Owners(c))
                                   /\ (Owners(c)' = {} <=> Owners(c) = {})
  <2>1. CASE x \in Owners(c) /\ y \notin Owners(c)
    <3>1. Owners(c)' = (Owners(c) \ {x}) \cup {y}
      BY <1>a, <2>1 DEF Owners
    <3> QED
      BY <2>1, <3>1, Exchange, OwnersFinite
  <2>2. CASE y \in Owners(c) /\ x \notin Owners(c)
    <3>1. Owners(c)' = (Owners(c) \ {y}) \cup {x}
      BY <1>a, <2>2 DEF Owners
    <3> QED
      BY <2>2, <3>1, Exchange, OwnersFinite
  <2>3. CASE x \in Owners(c) <=> y \in Owners(c)
    <3>1. Owners(c)' = Owners(c)
      BY <1>a, <2>3 DEF Owners
    <3> QED
      BY <3>1
  <2> QED
    BY <2>1, <2>2, <2>3
<1>5. CountExact'
  BY <1>0 DEF CountInv, CountExact, Store
<1>f. ASSUME NEW k \in Handle, pc'[k] = "freeing" PROVE mem'[dead'[k]] = "live" /\ Owners(dead[k])' = {}
  <2>1. PICK c \in Block : c = dead[k]
    BY <1>f, FreeingShape DEF CountInv, CountTypeOK, Store
  <2>2. mem[c] = "live" /\ Owners(c) = {} /\ dead'[k] = c /\ mem' = mem
    BY <1>f, <2>1, FreeingShape DEF CountInv, CountTypeOK, Store
  <2>3. Owners(c)' = {}
    BY <1>0, <2>2
  <2> QED
    BY <2>2, <2>3 DEF Owners
<1>6. NoUseAfterFree'
  <2>1. \A k \in Handle : (pc'[k] = "idle" /\ p'[ptr(k)] # NULL) => mem'[p'[ptr(k)]] = "live"
    BY <1>2, <1>4, SlotFacts DEF SlotShape, OwnedLive
  <2>2. \A k \in Handle : pc'[k] = "freeing" => pc[k] = "freeing" /\ dead'[k] = dead[k]
    BY DEF CountInv, CountTypeOK, Store
  <2> QED
    BY <1>f, <2>1, <2>2 DEF CountInv, NoUseAfterFree
<1>7. NoLeak'
  <2>1. mem' = mem /\ dead' = dead /\ \A k \in Handle : pc[k] = "freeing" => pc'[k] = "freeing"
    BY DEF CountInv, CountTypeOK, Store
  <2> QED
    BY <1>0, <2>1 DEF CountInv, NoLeak
<1> QED
  BY <1>1, <1>2, <1>3, <1>4, <1>5, <1>6, <1>7 DEF CountInv

LEMMA ReleaseKeeps ==
    ASSUME CountInv, NEW h \in Handle, Release(h)
    PROVE  CountInv'
<1>1. CountTypeOK'
  <2>1. p[ptr(h)] = NULL \/ p[ptr(h)] \in Block
    BY SlotFacts DEF CountInv, CountTypeOK
  <2>2. refs' \in [Block -> Nat]
    BY <2>1, WordType, RefCountAssumption DEF CountInv, CountTypeOK, Release
  <2>3. own' = own \/ own' = [own EXCEPT ![ptr(h)] = FALSE]
    BY DEF Release
  <2>4. own' \in [Slot -> BOOLEAN]
    BY <2>3, SlotFacts DEF CountInv, CountTypeOK
  <2>5. dead' \in [Handle -> Block \cup {NULL}]
    BY <2>1 DEF CountInv, CountTypeOK, Release
  <2>6. pc' \in [Handle -> {"idle", "adding", "assigning", "dropping", "freeing", "storing"}]
    BY DEF CountInv, CountTypeOK, Release
  <2> QED
    BY <2>2, <2>4, <2>5, <2>6 DEF CountInv, CountTypeOK, Release
<1>2. SlotShape'
  BY SlotFacts, RefCountAssumption DEF CountInv, CountTypeOK, SlotShape, Release, subtractAndFetch
<1>3. SourceStays'
  <2>1. /\ p' = p /\ src' = src /\ pc[h] = "dropping" /\ pc'[h] \in {"storing", "freeing"}
        /\ \A k \in Handle : k # h => pc'[k] = pc[k]
        /\ \A s \in Slot : s # ptr(h) => own'[s] = own[s]
    BY SlotFacts DEF CountInv, CountTypeOK, Release
  <2>2. ASSUME NEW k \in Handle, pc'[k] \in {"adding", "assigning"}
        PROVE  k # h /\ pc'[k] = pc[k] /\ src[k] # h /\ src[k] \in Handle
               /\ own'[ptr(src[k])] = own[ptr(src[k])]
    BY <2>1, <2>2, SlotFacts DEF CountInv, CountTypeOK, SourceStays
  <2> QED
    BY <2>1, <2>2 DEF CountInv, SourceStays
<1>4. OwnedLive'
  BY SlotFacts, RefCountAssumption DEF CountInv, CountTypeOK, SlotShape, SourceStays, OwnedLive, Release, subtractAndFetch
<1>e. CASE p[ptr(h)] = NULL
  <2>0. p' = p /\ own' = own /\ refs' = refs /\ mem' = mem /\ dead' = dead
        /\ \A k \in Handle : pc'[k] = "freeing" <=> pc[k] = "freeing"
    BY <1>e, RefCountAssumption DEF CountInv, CountTypeOK, Release
  <2>1. \A c \in Block : Owners(c)' = Owners(c)
    BY <2>0 DEF Owners
  <2>2. CountExact'
    BY <2>0, <2>1 DEF CountInv, CountExact
  <2>3. NoLeak'
    BY <2>0, <2>1 DEF CountInv, NoLeak
  <2>4. \A k \in Handle : (pc'[k] = "idle" /\ p'[ptr(k)] # NULL) => mem'[p'[ptr(k)]] = "live"
    BY <1>2, <1>4, SlotFacts DEF SlotShape, OwnedLive
  <2>5. NoUseAfterFree'
    <3>1. \A k \in Handle : dead[k]' = dead[k]
      BY <2>0
    <3>2. \A k \in Handle : pc[k] = "freeing" => Owners(dead[k])' = {}
      BY <2>0, FreeingShape DEF Owners
    <3> QED
      BY <2>0, <2>4, <3>2 DEF CountInv, NoUseAfterFree
  <2> QED
    BY <1>1, <1>2, <1>3, <1>4, <2>2, <2>3, <2>5 DEF CountInv
<1>g. CASE p[ptr(h)] # NULL
  <2>b. PICK x \in Slot : x = ptr(h)
    BY SlotFacts
  <2>c. PICK b \in Block : b = p[x]
    BY <1>g, <2>b DEF CountInv, CountTypeOK
  <2>a. own[x] /\ ~own'[x] /\ p' = p /\ mem' = mem /\ mem[b] = "live" /\ p[x] = b
        /\ \A s \in Slot : s # x => own'[s] = own[s]
    BY <1>g, <2>b, <2>c, SlotFacts, RefCountAssumption DEF CountInv, CountTypeOK, SlotShape, OwnedLive, Release
  <2>0. /\ Owners(b)' = Owners(b) \ {x} /\ x \in Owners(b)
        /\ \A c \in Block \ {b} : Owners(c)' = Owners(c)
    BY <2>a DEF Owners
  <2>1. Cardinality(Owners(b)') = Cardinality(Owners(b)) - 1 /\ IsFiniteSet(Owners(b)')
    BY <2>0, OwnersFinite, FS_RemoveElement
  <2>2. refs[b] = Cardinality(Owners(b)) /\ refs[b] \in Nat /\ refs[b] < WordSize
    BY <2>a, OwnersFinite DEF CountInv, CountExact
  <2>3. refs[b] >= 1
    BY <2>0, <2>2, OwnersFinite, FS_EmptySet
  <2>4. subtractAndFetch(refs[b], 1) = refs[b] - 1
    <3>1. refs[b] - 1 \in 0 .. (WordSize - 1)
      BY <2>2, <2>3, WordPositive
    <3> QED
      BY <3>1, WordPositive DEF subtractAndFetch
  <2>5. /\ refs'[b] = refs[b] - 1 /\ \A c \in Block \ {b} : refs'[c] = refs[c]
        /\ pc'[h] = IF refs[b] - 1 = 0 THEN "freeing" ELSE "storing"
        /\ dead'[h] = IF refs[b] - 1 = 0 THEN b ELSE NULL
        /\ \A k \in Handle \ {h} : pc'[k] = pc[k] /\ dead'[k] = dead[k]
    BY <1>g, <2>b, <2>c, <2>4, RefCountAssumption DEF CountInv, CountTypeOK, Release
  <2>6. CountExact'
    <3>1. ASSUME NEW c \in Block, mem'[c] = "live" PROVE refs'[c] = Cardinality(Owners(c)')
      <4>1. CASE c = b
        <5>1. refs'[b] = Cardinality(Owners(b)')
          BY <2>1, <2>2, <2>5
        <5>2. Owners(c)' = Owners(b)'
          BY <4>1 DEF Owners
        <5> QED
          BY <4>1, <5>1, <5>2
      <4>2. CASE c # b
        BY <2>0, <2>5, <2>a, <3>1, <4>2 DEF CountInv, CountExact
      <4> QED
        BY <4>1, <4>2
    <3> QED
      BY <3>1 DEF CountExact
  <2>7. refs[b] - 1 = 0 => Owners(b)' = {}
    <3>1. Cardinality(Owners(b)') = refs[b] - 1
      BY <2>1, <2>2
    <3> QED
      BY <2>1, <3>1, FS_EmptySet
  <2>8. \A k \in Handle \ {h} : pc[k] = "freeing" => dead[k] # b
    BY <2>0, FreeingShape
  <2>9. ASSUME NEW k \in Handle, pc'[k] = "freeing"
        PROVE  mem'[dead'[k]] = "live" /\ Owners(dead[k])' = {}
    <3>1. CASE k = h
      <4>1. dead'[k] = b /\ Owners(b)' = {}
        BY <2>5, <2>7, <2>9, <3>1
      <4> QED
        BY <2>a, <4>1 DEF Owners
    <3>2. CASE k # h
      <4>1. pc[k] = "freeing" /\ dead'[k] = dead[k]
        BY <2>5, <2>9, <3>2
      <4>2. PICK c \in Block : c = dead[k]
        BY <4>1, FreeingShape
      <4>3. mem[c] = "live" /\ Owners(c) = {} /\ c # b /\ dead'[k] = c
        BY <4>1, <4>2, <2>8, <3>2, FreeingShape
      <4>4. Owners(c)' = {}
        BY <2>0, <4>3
      <4> QED
        BY <2>a, <4>3, <4>4 DEF Owners
    <3> QED
      BY <3>1, <3>2
  <2>10. \A k, j \in Handle : (pc'[k] = "freeing" /\ pc'[j] = "freeing" /\ k # j) => dead'[k] # dead'[j]
    BY <2>5, <2>8 DEF CountInv, NoUseAfterFree
  <2>11. \A k \in Handle : (pc'[k] = "idle" /\ p'[ptr(k)] # NULL) => mem'[p'[ptr(k)]] = "live"
    BY <1>2, <1>4, SlotFacts DEF SlotShape, OwnedLive
  <2>12. NoUseAfterFree'
    BY <2>9, <2>10, <2>11 DEF NoUseAfterFree
  <2>13. NoLeak'
    <3>1. ASSUME NEW c \in Block, mem'[c] = "live"
          PROVE  Owners(c)' # {} \/ \E k \in Handle : pc'[k] = "freeing" /\ dead'[k] = c
      <4>1. CASE c = b
        <5>1. refs[b] - 1 # 0 => Owners(b)' # {}
          BY <2>1, <2>2, FS_EmptySet
        <5> QED
          BY <2>5, <4>1, <5>1
      <4>2. CASE c # b
        <5>1. Owners(c) # {} \/ \E k \in Handle : pc[k] = "freeing" /\ dead[k] = c
          BY <2>a, <3>1 DEF CountInv, NoLeak
        <5>2. pc[h] # "freeing"
          BY DEF Release
        <5> QED
          BY <2>0, <2>5, <4>2, <5>1, <5>2
      <4> QED
        BY <4>1, <4>2
    <3> QED
      BY <3>1 DEF NoLeak
  <2> QED
    BY <1>1, <1>2, <1>3, <1>4, <2>6, <2>12, <2>13 DEF CountInv
<1> QED
  BY <1>e, <1>g

LEMMA FreeKeeps ==
    ASSUME CountInv, NEW h \in Handle, Free(h)
    PROVE  CountInv'
<1>1. CountTypeOK'
  BY SlotFacts, WordType DEF CountInv, CountTypeOK, SlotShape, Free
<1>2. SlotShape'
  BY SlotFacts, RefCountAssumption DEF CountInv, CountTypeOK, SlotShape, Free
<1>3. SourceStays'
  BY SlotFacts, RefCountAssumption DEF CountInv, CountTypeOK, SlotShape, SourceStays, Unread, Free
<1>d. PICK b \in Block : b = dead[h]
  BY FreeingShape DEF Free
<1>a. /\ mem[b] = "live" /\ Owners(b) = {} /\ p' = p /\ own' = own /\ refs' = refs
      /\ mem'[b] = "freed" /\ \A c \in Block \ {b} : mem'[c] = mem[c]
  BY <1>d, FreeingShape DEF CountInv, CountTypeOK, Free
<1>4. OwnedLive'
  <2>1. \A s \in Slot : own[s] => p[s] \in Block
    BY SlotFacts DEF CountInv, CountTypeOK, SlotShape
  <2>2. \A s \in Slot : own[s] => p[s] # b
    BY <1>a DEF Owners
  <2> QED
    BY <1>a, <2>1, <2>2 DEF CountInv, OwnedLive
<1>0. \A c \in Block : Owners(c)' = Owners(c)
  BY <1>a DEF Owners
<1>c. \A k \in Handle \ {h} : pc'[k] = pc[k] /\ dead'[k] = dead[k]
  BY DEF CountInv, CountTypeOK, Free
<1>e. pc'[h] = "storing" /\ \A k \in Handle \ {h} : pc[k] = "freeing" => dead[k] # b
  BY <1>d DEF CountInv, CountTypeOK, NoUseAfterFree, Free
<1>5. CountExact'
  BY <1>0, <1>a DEF CountInv, CountExact
<1>f. ASSUME NEW k \in Handle, pc'[k] = "freeing" PROVE mem'[dead'[k]] = "live" /\ Owners(dead[k])' = {}
  <2>1. k # h /\ pc[k] = "freeing" /\ dead'[k] = dead[k]
    BY <1>c, <1>e, <1>f
  <2>2. PICK c \in Block : c = dead[k]
    BY <2>1, FreeingShape
  <2>3. mem[c] = "live" /\ Owners(c) = {} /\ c # b /\ dead'[k] = c
    BY <1>e, <2>1, <2>2, FreeingShape
  <2>4. Owners(c)' = {}
    BY <1>0, <2>3
  <2> QED
    BY <1>a, <2>3, <2>4 DEF Owners
<1>6. NoUseAfterFree'
  <2>1. \A k \in Handle : (pc'[k] = "idle" /\ p'[ptr(k)] # NULL) => mem'[p'[ptr(k)]] = "live"
    BY <1>2, <1>4, SlotFacts DEF SlotShape, OwnedLive
  <2>2. \A k, j \in Handle : (pc'[k] = "freeing" /\ pc'[j] = "freeing" /\ k # j) => dead'[k] # dead'[j]
    BY <1>c, <1>e DEF CountInv, NoUseAfterFree
  <2> QED
    BY <1>f, <2>1, <2>2 DEF NoUseAfterFree
<1>7. NoLeak'
  <2>1. ASSUME NEW c \in Block, mem'[c] = "live"
        PROVE  Owners(c)' # {} \/ \E k \in Handle : pc'[k] = "freeing" /\ dead'[k] = c
    <3>1. c # b /\ mem[c] = "live"
      BY <1>a, <2>1
    <3>2. Owners(c) # {} \/ \E k \in Handle : pc[k] = "freeing" /\ dead[k] = c
      BY <3>1 DEF CountInv, NoLeak
    <3>3. \A k \in Handle : (pc[k] = "freeing" /\ dead[k] = c) => k # h
      BY <1>d, <3>1
    <3> QED
      BY <1>0, <1>c, <3>2, <3>3
  <2> QED
    BY <2>1 DEF NoLeak
<1> QED
  BY <1>1, <1>2, <1>3, <1>4, <1>5, <1>6, <1>7 DEF CountInv

\* Steps that leave the counts alone.
LEMMA CountStutter ==
    ASSUME CountInv, UNCHANGED counts PROVE CountInv'
BY DEF CountInv, counts, CountTypeOK, SlotShape, SourceStays, OwnedLive, CountExact, NoUseAfterFree, NoLeak, Owners

LEMMA ContinueKeeps ==
    ASSUME CountInv, NEW h \in Handle, Continue(h)
    PROVE  CountInv'
BY AddRefKeeps, ReleaseKeeps, FreeKeeps, StoreKeeps DEF Continue

LEMMA CountInitial == CountInit => CountInv
<1>1. SUFFICES ASSUME CountInit PROVE CountInv
  OBVIOUS
<1>2. \A b \in Block : mem[b] = "none"
  BY <1>1 DEF CountInit
<1>3. \A h \in Handle : pc[h] = "idle" /\ dead[h] = NULL /\ src[h] = h
  BY <1>1 DEF CountInit
<1>4. \A s \in Slot : p[s] = NULL /\ ~own[s]
  BY <1>1 DEF CountInit
<1>5. CountTypeOK
  BY <1>1 DEF CountInit, CountTypeOK
<1>6. SlotShape /\ SourceStays
  BY <1>3, <1>4, SlotFacts DEF SlotShape, SourceStays
<1>7. OwnedLive /\ CountExact /\ NoUseAfterFree /\ NoLeak
  BY <1>2, <1>3, <1>4, SlotFacts DEF OwnedLive, CountExact, NoUseAfterFree, NoLeak
<1> QED
  BY <1>5, <1>6, <1>7 DEF CountInv

-----------------------------------------------------------------------------
(* The life of the operators *)

\* An operator that exists keeps its document, and no operation on it is under way; a thread is
\* in an operator that exists and was constructed with the driver up.
MemberHeld ==
    /\ \A o \in Ops : op[o] \in {"constructing", "constructed", "ready", "stopping"} =>
           pc[o] = "idle" /\ p[ptr(o)] # NULL
    /\ \A o \in Ops : op[o] \in {"constructed", "ready", "stopping"} => status = "ok"
    /\ \A t \in Threads : at[t] # NULL => op[at[t]] \in {"ready", "stopping"}

LifeInv == TypeOK /\ CountInv /\ MemberHeld

LEMMA LifeInitial == Init => LifeInv
<1>1. SUFFICES ASSUME Init PROVE LifeInv
  OBVIOUS
<1>2. CountInv
  BY <1>1, CountInitial DEF Init
<1>3. TypeOK
  BY <1>1, <1>2, LifecycleAssumption DEF Init, TypeOK, CountInv, Phases
<1>4. MemberHeld
  BY <1>1 DEF Init, MemberHeld
<1> QED
  BY <1>2, <1>3, <1>4 DEF LifeInv

\* The counts keep their invariant whatever the operators do.
LEMMA StepCount ==
    ASSUME LifeInv, [Next]_vars PROVE CountInv'
<1>0. CountInv /\ TypeOK
  BY DEF LifeInv
<1>1. ASSUME NEW ok \in BOOLEAN, StaticInit(ok) PROVE CountInv'
  BY <1>0, <1>1, CountStutter DEF StaticInit
<1>2. ASSUME NEW o \in Ops, NEW b \in Block, BuildMembers(o, b) PROVE CountInv'
  BY <1>0, <1>2, TakeKeeps, LifecycleAssumption DEF BuildMembers
<1>3. ASSUME NEW o \in Ops, CheckStatus(o) PROVE CountInv'
  BY <1>0, <1>3, CountStutter, DestroyKeeps, LifecycleAssumption DEF CheckStatus
<1>4. ASSUME NEW o \in Ops, AllPortsReady(o) PROVE CountInv'
  BY <1>0, <1>4, CountStutter DEF AllPortsReady
<1>5. ASSUME NEW o \in Ops, PrepareToShutdown(o) PROVE CountInv'
  BY <1>0, <1>5, CountStutter DEF PrepareToShutdown
<1>6. ASSUME NEW o \in Ops, Destruct(o) PROVE CountInv'
  BY <1>0, <1>6, DestroyKeeps, LifecycleAssumption DEF Destruct
<1>7. ASSUME NEW t \in Threads, InProcess(t) PROVE CountInv'
  <2>1. Locals[t] \subseteq Handle /\ at[t] \in Handle
    BY <1>0, <1>7, LifecycleAssumption DEF TypeOK, InProcess
  <2>2. PICK h \in Locals[t] :
            \/ \E g \in Locals[t] \cup {at[t]} : Copy(h, g) \/ Assign(h, g)
            \/ \E g \in Locals[t] : Move(h, g)
            \/ Destroy(h)
    BY <1>7 DEF InProcess
  <2> QED
    BY <1>0, <2>1, <2>2, CopyKeeps, AssignKeeps, MoveKeeps, DestroyKeeps
<1>8. ASSUME NEW t \in Threads, Leave(t) PROVE CountInv'
  BY <1>0, <1>8, CountStutter DEF Leave
<1>9. ASSUME NEW t \in Threads, NEW o \in Ops, Enter(t, o) PROVE CountInv'
  BY <1>0, <1>9, CountStutter DEF Enter
<1>10. ASSUME NEW h \in Handle, CountStep(h) PROVE CountInv'
  BY <1>0, <1>10, ContinueKeeps DEF CountStep
<1>11. CASE UNCHANGED vars
  BY <1>0, <1>11, CountStutter DEF vars, counts
<1> QED
  BY <1>1, <1>2, <1>3, <1>4, <1>5, <1>6, <1>7, <1>8, <1>9, <1>10, <1>11 DEF Next

\* What a step does to the handle of an operator it is not about.
LEMMA Untouched ==
    ASSUME LifeInv, NEW o \in Ops, pc[o] = "idle"
    PROVE  /\ \A h \in Handle : Continue(h) => (pc'[o] = pc[o] /\ p'[ptr(o)] = p[ptr(o)])
           /\ \A h \in Handle, g \in Handle : (h # o /\ (Copy(h, g) \/ Assign(h, g))) =>
                 (pc'[o] = pc[o] /\ p'[ptr(o)] = p[ptr(o)])
           /\ \A h \in Handle, g \in Handle : (h # o /\ g # o /\ Move(h, g)) =>
                 (pc'[o] = pc[o] /\ p'[ptr(o)] = p[ptr(o)])
           /\ \A h \in Handle : (h # o /\ Destroy(h)) => (pc'[o] = pc[o] /\ p'[ptr(o)] = p[ptr(o)])
           /\ \A h \in Handle, b \in Block : (h # o /\ Take(h, b)) =>
                 (pc'[o] = pc[o] /\ p'[ptr(o)] = p[ptr(o)])
<1>0. CountTypeOK /\ o \in Handle
  BY LifecycleAssumption DEF LifeInv, CountInv
<1>1. \A h \in Handle : Continue(h) => h # o
  BY DEF Continue, AddRef, Release, Free, Store
<1>2. ASSUME NEW h \in Handle, h # o, Continue(h) PROVE pc'[o] = pc[o] /\ p'[ptr(o)] = p[ptr(o)]
  <2>1. CASE AddRef(h)
    BY <1>0, <1>2, <2>1, SlotFacts DEF CountTypeOK, AddRef
  <2>2. CASE Release(h)
    BY <1>0, <1>2, <2>2, SlotFacts DEF CountTypeOK, Release
  <2>3. CASE Free(h)
    BY <1>0, <1>2, <2>3, SlotFacts DEF CountTypeOK, Free
  <2>4. CASE Store(h)
    BY <1>0, <1>2, <2>4, SlotFacts DEF CountTypeOK, Store
  <2> QED
    BY <1>2, <2>1, <2>2, <2>3, <2>4 DEF Continue
<1>3. \A h \in Handle, g \in Handle : (h # o /\ (Copy(h, g) \/ Assign(h, g))) =>
          (pc'[o] = pc[o] /\ p'[ptr(o)] = p[ptr(o)])
  BY <1>0, SlotFacts DEF CountTypeOK, Copy, Assign
<1>4. \A h \in Handle, g \in Handle : (h # o /\ g # o /\ Move(h, g)) =>
          (pc'[o] = pc[o] /\ p'[ptr(o)] = p[ptr(o)])
  BY <1>0, SlotFacts DEF CountTypeOK, Move
<1>5. \A h \in Handle : (h # o /\ Destroy(h)) => (pc'[o] = pc[o] /\ p'[ptr(o)] = p[ptr(o)])
  BY <1>0, SlotFacts DEF CountTypeOK, Destroy
<1>6. \A h \in Handle, b \in Block : (h # o /\ Take(h, b)) => (pc'[o] = pc[o] /\ p'[ptr(o)] = p[ptr(o)])
  BY <1>0, SlotFacts DEF CountTypeOK, Take
<1> QED
  BY <1>1, <1>2, <1>3, <1>4, <1>5, <1>6

LEMMA StepType ==
    ASSUME LifeInv, [Next]_vars PROVE TypeOK'
<1>0. TypeOK /\ CountTypeOK'
  BY StepCount DEF LifeInv, CountInv
<1>1. ASSUME NEW ok \in BOOLEAN, StaticInit(ok) PROVE TypeOK'
  BY <1>0, <1>1, LifecycleAssumption DEF TypeOK, Phases, StaticInit
<1>2. ASSUME NEW o \in Ops, NEW b \in Block, BuildMembers(o, b) PROVE TypeOK'
  BY <1>0, <1>2, LifecycleAssumption DEF TypeOK, Phases, BuildMembers
<1>3. ASSUME NEW o \in Ops, CheckStatus(o) PROVE TypeOK'
  BY <1>0, <1>3, LifecycleAssumption DEF TypeOK, Phases, CheckStatus
<1>4. ASSUME NEW o \in Ops, AllPortsReady(o) PROVE TypeOK'
  BY <1>0, <1>4, LifecycleAssumption DEF TypeOK, Phases, AllPortsReady
<1>5. ASSUME NEW o \in Ops, PrepareToShutdown(o) PROVE TypeOK'
  BY <1>0, <1>5, LifecycleAssumption DEF TypeOK, Phases, PrepareToShutdown
<1>6. ASSUME NEW o \in Ops, Destruct(o) PROVE TypeOK'
  BY <1>0, <1>6, LifecycleAssumption DEF TypeOK, Phases, Destruct
<1>7. ASSUME NEW t \in Threads, InProcess(t) PROVE TypeOK'
  BY <1>0, <1>7, LifecycleAssumption DEF TypeOK, Phases, InProcess
<1>8. ASSUME NEW t \in Threads, Leave(t) PROVE TypeOK'
  BY <1>0, <1>8, LifecycleAssumption DEF TypeOK, Phases, Leave
<1>9. ASSUME NEW t \in Threads, NEW o \in Ops, Enter(t, o) PROVE TypeOK'
  BY <1>0, <1>9, LifecycleAssumption DEF TypeOK, Phases, Enter
<1>10. ASSUME NEW h \in Handle, CountStep(h) PROVE TypeOK'
  BY <1>0, <1>10, LifecycleAssumption DEF TypeOK, Phases, CountStep
<1>11. CASE UNCHANGED vars
  BY <1>0, <1>11 DEF TypeOK, vars
<1> QED
  BY <1>1, <1>2, <1>3, <1>4, <1>5, <1>6, <1>7, <1>8, <1>9, <1>10, <1>11 DEF Next

LEMMA StepHeld ==
    ASSUME LifeInv, [Next]_vars PROVE MemberHeld'
<1>0. TypeOK /\ MemberHeld /\ Ops \subseteq Handle /\ NULL \notin Ops
  BY LifecycleAssumption DEF LifeInv
<1>1. ASSUME NEW ok \in BOOLEAN, StaticInit(ok) PROVE MemberHeld'
  BY <1>0, <1>1 DEF TypeOK, MemberHeld, Phases, counts, StaticInit
<1>2. ASSUME NEW o \in Ops, NEW b \in Block, BuildMembers(o, b) PROVE MemberHeld'
  <2>1. pc'[o] = "idle" /\ p'[ptr(o)] # NULL /\ op' = [op EXCEPT ![o] = "constructing"]
        /\ UNCHANGED <<status, at>> /\ op[o] = "none"
    BY <1>0, <1>2, SlotFacts, RefCountAssumption DEF TypeOK, CountTypeOK, BuildMembers, Take
  <2>2. \A q \in Ops \ {o} : (pc[q] = "idle" /\ p[ptr(q)] # NULL) => (pc'[q] = "idle" /\ p'[ptr(q)] # NULL)
    BY <1>0, <1>2, Untouched DEF BuildMembers
  <2> QED
    BY <1>0, <2>1, <2>2 DEF TypeOK, MemberHeld, Phases
<1>3. ASSUME NEW o \in Ops, CheckStatus(o) PROVE MemberHeld'
  <2>1. \A q \in Ops \ {o} : (pc[q] = "idle" /\ p[ptr(q)] # NULL) => (pc'[q] = "idle" /\ p'[ptr(q)] # NULL)
    BY <1>0, <1>3, Untouched DEF CheckStatus, counts
  <2>2. /\ UNCHANGED <<status, at>> /\ op[o] = "constructing"
        /\ op'[o] = "gone" \/ (op'[o] = "constructed" /\ status = "ok" /\ UNCHANGED counts)
        /\ \A q \in Ops \ {o} : op'[q] = op[q]
    BY <1>0, <1>3 DEF TypeOK, CheckStatus
  <2>3. \A t \in Threads : at[t] # o
    BY <1>0, <2>2 DEF TypeOK, MemberHeld
  <2> QED
    BY <1>0, <2>1, <2>2, <2>3 DEF TypeOK, MemberHeld, counts
<1>4. ASSUME NEW o \in Ops, AllPortsReady(o) PROVE MemberHeld'
  BY <1>0, <1>4 DEF TypeOK, MemberHeld, Phases, counts, AllPortsReady
<1>5. ASSUME NEW o \in Ops, PrepareToShutdown(o) PROVE MemberHeld'
  BY <1>0, <1>5 DEF TypeOK, MemberHeld, Phases, counts, PrepareToShutdown
<1>6. ASSUME NEW o \in Ops, Destruct(o) PROVE MemberHeld'
  <2>1. \A q \in Ops \ {o} : (pc[q] = "idle" /\ p[ptr(q)] # NULL) => (pc'[q] = "idle" /\ p'[ptr(q)] # NULL)
    BY <1>0, <1>6, Untouched DEF Destruct, counts
  <2>2. /\ UNCHANGED <<status, at>> /\ op'[o] = "gone" /\ \A t \in Threads : at[t] # o
        /\ \A q \in Ops \ {o} : op'[q] = op[q]
    BY <1>0, <1>6 DEF TypeOK, Destruct
  <2> QED
    BY <1>0, <2>1, <2>2 DEF TypeOK, MemberHeld
<1>7. ASSUME NEW t \in Threads, InProcess(t) PROVE MemberHeld'
  <2>1. Locals[t] \subseteq Handle /\ at[t] \in Handle /\ Locals[t] \cap Ops = {}
    BY <1>0, <1>7, LifecycleAssumption DEF TypeOK, InProcess
  <2>2. PICK h \in Locals[t] :
            \/ \E g \in Locals[t] \cup {at[t]} : Copy(h, g) \/ Assign(h, g)
            \/ \E g \in Locals[t] : Move(h, g)
            \/ Destroy(h)
    BY <1>7 DEF InProcess
  <2>3. ASSUME NEW q \in Ops, pc[q] = "idle" PROVE pc'[q] = "idle" /\ p'[ptr(q)] = p[ptr(q)]
    BY <2>1, <2>2, <2>3, Untouched
  <2>4. UNCHANGED <<status, op, at>>
    BY <1>7 DEF InProcess
  <2> QED
    BY <1>0, <2>3, <2>4 DEF MemberHeld
<1>8. ASSUME NEW t \in Threads, Leave(t) PROVE MemberHeld'
  BY <1>0, <1>8 DEF TypeOK, MemberHeld, Phases, counts, Leave
<1>9. ASSUME NEW t \in Threads, NEW o \in Ops, Enter(t, o) PROVE MemberHeld'
  BY <1>0, <1>9 DEF TypeOK, MemberHeld, Phases, counts, Enter
<1>10. ASSUME NEW h \in Handle, CountStep(h) PROVE MemberHeld'
  <2>1. ASSUME NEW q \in Ops, pc[q] = "idle" PROVE pc'[q] = "idle" /\ p'[ptr(q)] = p[ptr(q)]
    BY <1>10, <2>1, Untouched DEF CountStep
  <2>2. UNCHANGED <<status, op, at>>
    BY <1>10 DEF CountStep
  <2> QED
    BY <1>0, <2>1, <2>2 DEF MemberHeld
<1>11. CASE UNCHANGED vars
  BY <1>0, <1>11 DEF MemberHeld, vars, counts
<1> QED
  BY <1>1, <1>2, <1>3, <1>4, <1>5, <1>6, <1>7, <1>8, <1>9, <1>10, <1>11 DEF Next

-----------------------------------------------------------------------------
(* The theorems *)

\* The counts, the slots and the phases of the operators fit together in every state.
THEOREM LifecycleInvariant == Spec => []LifeInv
<1>1. Init => LifeInv
  BY LifeInitial
<1>2. LifeInv /\ [Next]_vars => LifeInv'
  BY StepCount, StepType, StepHeld DEF LifeInv
<1> QED
  BY <1>1, <1>2, PTL DEF Spec

\* AtomicUInt32 counts of SharedBuffer::Holder and Status::ErrorInfo: however the threads'
\* copies, assignments and destructions interleave, a count is the number of its owners.
THEOREM ExactCounts == Spec => []CountExact
<1>1. LifeInv => CountExact
  BY DEF LifeInv, CountInv
<1> QED
  BY <1>1, LifecycleInvariant, PTL

\* intrusive_ptr_release(), Status::unref(): no pointer in use leads to freed memory, and one
\* thread frees a block.
THEOREM MemorySafe == Spec => []NoUseAfterFree
<1>1. LifeInv => NoUseAfterFree
  BY DEF LifeInv, CountInv
<1> QED
  BY <1>1, LifecycleInvariant, PTL

\* The same code loses no block.
THEOREM NothingLost == Spec => []NoLeak
<1>1. LifeInv => NoLeak
  BY DEF LifeInv, CountInv
<1> QED
  BY <1>1, LifecycleInvariant, PTL

\* Member findQueryBO_ of an operator with threads in process(), prepareToShutdown() called or
\* not, is there.
THEOREM MemberOutlives == Spec => []MemberAlive
<1>1. LifeInv => MemberAlive
  <2>1. SUFFICES ASSUME LifeInv, NEW t \in Threads, at[t] # NULL
                 PROVE  /\ status = "ok" /\ op[at[t]] \in {"ready", "stopping"}
                        /\ pc[at[t]] = "idle" /\ p[ptr(at[t])] # NULL /\ mem[p[ptr(at[t])]] = "live"
    BY DEF MemberAlive
  <2>2. at[t] \in Ops /\ at[t] \in Handle
    BY <2>1, LifecycleAssumption DEF LifeInv, TypeOK
  <2>3. status = "ok" /\ op[at[t]] \in {"ready", "stopping"} /\ pc[at[t]] = "idle" /\ p[ptr(at[t])] # NULL
    BY <2>1, <2>2 DEF LifeInv, MemberHeld
  <2> QED
    BY <2>2, <2>3, <2>1 DEF LifeInv, CountInv, NoUseAfterFree
<1> QED
  BY <1>1, LifecycleInvariant, PTL
=============================================================================
