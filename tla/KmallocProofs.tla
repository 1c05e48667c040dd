--------------------------- MODULE KmallocProofs ---------------------------
(* Proofs about memory/kmalloc.c for every number of size classes, slab    *)
(* capacities, heap size and number of frames.                             *)
EXTENDS Kmalloc, SequenceTheorems, FiniteSetTheorems, TLAPS

-----------------------------------------------------------------------------
(* What the invariants need besides: a free list holds objects of its slab, at *)
(* most once each; a cache's list holds the slabs of its class, once each; *)
(* only objects of slabs are owned; and the large allocations lie apart    *)
(* from each other, below the next large pointer, on mapped pages.         *)
FreeListsSound ==
  \A k \in 1 .. Len(slabs) :
     /\ ToSet(slabs[k].free_list) \subseteq 1 .. ObjectsPerSlab[slabs[k].cache]
     /\ IsInjective(slabs[k].free_list)
     /\ slabs[k].free_count = Len(slabs[k].free_list)

CacheListsSound ==
  \A i \in Cache :
     /\ IsInjective(caches[i])
     /\ ToSet(caches[i]) = {k \in 1 .. Len(slabs) : slabs[k].cache = i}

OwnedAreObjects ==
  held \cup Descriptors \subseteq UNION {Objects(k) : k \in 1 .. Len(slabs)}

RangesApart ==
  \A i, j \in 1 .. Len(large_allocations) :
     i # j => Unmapped(large_allocations[i])
                \cap Unmapped(large_allocations[j]) = {}

LargePagesServed ==
  /\ mapped \subseteq HeapBase + HeapPages .. large_heap - 1
  /\ UNION {Pages(a.ptr, a.size) : a \in ToSet(large_allocations)}
       \subseteq mapped
  /\ \A ptr \in owned_large :
       \E i \in 1 .. Len(large_allocations) : large_allocations[i].ptr = ptr

(* The inductive invariant. *)
IInv == /\ TypeOK
        /\ FreeListsSound
        /\ CacheListsSound
        /\ OwnedAreObjects
        /\ NoDoubleUse
        /\ RangesApart
        /\ LargePagesServed
        /\ FramesConserved

-----------------------------------------------------------------------------
(* Inserting at the front of a list: a new slab in its cache, an object    *)
(* on a free list, a descriptor in the list of large allocations.          *)
LEMMA FrontInsert ==
  ASSUME NEW S, NEW s \in Seq(S), NEW x \in S
  PROVE  LET t == <<x>> \o s IN
         /\ t \in Seq(S)
         /\ Len(t) = Len(s) + 1
         /\ t[1] = x
         /\ \A i \in 1 .. Len(s) : t[i + 1] = s[i]
         /\ \A i \in 2 .. Len(t) : t[i] = s[i - 1]
         /\ ToSet(t) = {x} \cup ToSet(s)
<1> DEFINE t == <<x>> \o s
<1>1. <<x>> \in Seq(S) /\ Len(<<x>>) = 1 /\ <<x>>[1] = x
  OBVIOUS
<1>2. Len(s) \in Nat /\ DOMAIN s = 1 .. Len(s)
  BY LenProperties
<1>3. t \in Seq(S) /\ Len(t) = Len(s) + 1
  BY <1>1, ConcatProperties
<1>4. \A i \in 1 .. Len(s) + 1 : t[i] = IF i <= 1 THEN x ELSE s[i - 1]
  BY <1>1, <1>2, ConcatProperties
<1>5. DOMAIN t = 1 .. Len(s) + 1
  BY <1>3, LenProperties
<1> HIDE DEF t
<1>6. ToSet(t) = {x} \cup ToSet(s)
  <2>1. ASSUME NEW i \in 1 .. Len(s) + 1 PROVE t[i] \in {x} \cup ToSet(s)
    <3>1. CASE i = 1
      BY <3>1, <1>2, <1>4
    <3>2. CASE i # 1
      <4>1. i - 1 \in DOMAIN s /\ t[i] = s[i - 1]
        BY <3>2, <1>2, <1>4
      <4> QED
        BY <4>1 DEF ToSet
    <3> QED
      BY <3>1, <3>2
  <2>2. x = t[1] /\ 1 \in DOMAIN t
    BY <1>2, <1>4, <1>5
  <2>3. ASSUME NEW i \in DOMAIN s PROVE s[i] \in ToSet(t)
    <3>1. i + 1 \in DOMAIN t /\ t[i + 1] = s[i]
      BY <2>3, <1>2, <1>4, <1>5
    <3> QED
      BY <3>1 DEF ToSet
  <2> QED
    BY <2>1, <2>2, <2>3, <1>5 DEF ToSet
<1>7. \A i \in 1 .. Len(s) : t[i + 1] = s[i]
  BY <1>2, <1>4
<1>8. t[1] = x /\ \A i \in 2 .. Len(t) : t[i] = s[i - 1]
  BY <1>2, <1>3, <1>4
<1> QED
  BY <1>3, <1>6, <1>7, <1>8 DEF t

(* Taking an element out of a list: what is left is the other elements, in *)
(* order.                                                                  *)
LEMMA TakenOut ==
  ASSUME NEW S, NEW s \in Seq(S), NEW i \in 1 .. Len(s)
  PROVE  LET r == RemoveAt(s, i) IN
         /\ r \in Seq(S)
         /\ Len(r) = Len(s) - 1
         /\ \A j \in 1 .. Len(s) - 1 : r[j] = IF j < i THEN s[j] ELSE s[j + 1]
<1> DEFINE u == SubSeq(s, 1, i - 1)
           v == SubSeq(s, i + 1, Len(s))
<1>1. Len(s) \in Nat /\ DOMAIN s = 1 .. Len(s)
      /\ \A j \in 1 .. Len(s) : s[j] \in S
  BY LenProperties
<1>2. /\ u \in Seq(S) /\ Len(u) = i - 1
      /\ \A j \in 1 .. i - 1 : u[j] = s[j]
  <2>1. \A j \in 1 .. i - 1 : s[j] \in S
    BY <1>1
  <2>2. /\ SubSeq(s, 1, i - 1) \in Seq(S)
        /\ Len(SubSeq(s, 1, i - 1))
             = IF 1 <= i - 1 THEN (i - 1) - 1 + 1 ELSE 0
        /\ \A j \in 1 .. (i - 1) - 1 + 1 : SubSeq(s, 1, i - 1)[j] = s[1 + j - 1]
    <3>1. i - 1 \in Int /\ 1 \in Int
      BY <1>1
    <3> QED
      BY <2>1, <3>1, SubSeqProperties
  <2> QED
    BY <1>1, <2>2
<1>3. /\ v \in Seq(S) /\ Len(v) = Len(s) - i
      /\ \A j \in 1 .. Len(s) - i : v[j] = s[i + j]
  <2>1. \A j \in i + 1 .. Len(s) : s[j] \in S
    BY <1>1
  <2>2. /\ SubSeq(s, i + 1, Len(s)) \in Seq(S)
        /\ Len(SubSeq(s, i + 1, Len(s)))
             = IF i + 1 <= Len(s) THEN Len(s) - (i + 1) + 1 ELSE 0
        /\ \A j \in 1 .. Len(s) - (i + 1) + 1 :
             SubSeq(s, i + 1, Len(s))[j] = s[(i + 1) + j - 1]
    <3>1. i + 1 \in Int /\ Len(s) \in Int
      BY <1>1
    <3> QED
      BY <2>1, <3>1, SubSeqProperties
  <2>3. ASSUME NEW j \in 1 .. Len(s) - i PROVE v[j] = s[i + j]
    <3>1. j \in 1 .. Len(s) - (i + 1) + 1 /\ (i + 1) + j - 1 = i + j
      BY <1>1
    <3> QED
      BY <2>2, <3>1
  <2>4. Len(v) = Len(s) - i
    <3>1. PICK n \in Nat : n = Len(s)
      BY <1>1
    <3>2. i \in Nat /\ i <= n
      BY <3>1, <1>1
    <3>3. Len(v) = IF i + 1 <= n THEN n - (i + 1) + 1 ELSE 0
      BY <2>2, <3>1, Zenon
    <3>4. Len(v) = n - i
      BY <3>2, <3>3
    <3> QED
      BY <3>1, <3>4
  <2> QED
    BY <2>2, <2>3, <2>4
<1>4. RemoveAt(s, i) = u \o v
  BY DEF RemoveAt
<1> HIDE DEF u, v
<1>5. /\ u \o v \in Seq(S) /\ Len(u \o v) = Len(u) + Len(v)
      /\ \A j \in 1 .. Len(u) + Len(v) :
           (u \o v)[j] = IF j <= Len(u) THEN u[j] ELSE v[j - Len(u)]
  BY <1>2, <1>3, ConcatProperties
<1>6. ASSUME NEW j \in 1 .. Len(s) - 1
      PROVE  (u \o v)[j] = IF j < i THEN s[j] ELSE s[j + 1]
  <2>1. CASE j < i
    BY <2>1, <1>1, <1>2, <1>3, <1>5
  <2>2. CASE ~(j < i)
    <3>1. (u \o v)[j] = v[j - (i - 1)]
      BY <2>2, <1>1, <1>2, <1>3, <1>5
    <3>2. j - (i - 1) \in 1 .. Len(s) - i /\ i + (j - (i - 1)) = j + 1
      BY <2>2, <1>1
    <3> QED
      BY <2>2, <3>1, <3>2, <1>3
  <2> QED
    BY <2>1, <2>2
<1> QED
  BY <1>1, <1>2, <1>3, <1>4, <1>5, <1>6

-----------------------------------------------------------------------------
(* alloc_from_slab on a slab with a free object: it takes the object at    *)
(* the head, and exactly that object leaves the free list.                 *)
LEMMA PoppedTakesHead ==
  ASSUME NEW fl \in Seq(Nat), IsInjective(fl), Len(fl) # 0
  PROVE  /\ Head(fl) \in ToSet(fl)
         /\ Tail(fl) \in Seq(Nat)
         /\ Len(Tail(fl)) = Len(fl) - 1
         /\ ToSet(Tail(fl)) \subseteq ToSet(fl) \ {Head(fl)}
         /\ IsInjective(Tail(fl))
<1> DEFINE t == Tail(fl)
<1>1. Len(fl) \in Nat \ {0} /\ DOMAIN fl = 1 .. Len(fl)
  BY LenProperties
<1>2. fl # <<>>
  BY EmptySeq
<1>3. /\ t \in Seq(Nat) /\ Len(t) = Len(fl) - 1
      /\ \A i \in 1 .. Len(t) : t[i] = fl[i + 1]
  BY <1>2, HeadTailProperties
<1>4. Head(fl) = fl[1]
  BY <1>1, <1>2
<1>5. DOMAIN t = 1 .. Len(fl) - 1
  BY <1>3, LenProperties
<1> HIDE DEF t
<1>6. \A i \in DOMAIN t : t[i] = fl[i + 1] /\ i + 1 \in DOMAIN fl /\ i + 1 # 1
  BY <1>1, <1>3, <1>5
<1>7. 1 \in DOMAIN fl
  BY <1>1
<1>8. ToSet(t) \subseteq ToSet(fl) \ {Head(fl)}
  BY <1>4, <1>6, <1>7 DEF ToSet, IsInjective
<1>9. IsInjective(t)
  <2>1. ASSUME NEW a \in DOMAIN t, NEW b \in DOMAIN t, t[a] = t[b]
        PROVE  a = b
    <3>1. a + 1 = b + 1
      BY <2>1, <1>6 DEF IsInjective
    <3> QED
      BY <3>1, <1>1, <1>5
  <2> QED
    BY <2>1 DEF IsInjective
<1> QED
  BY <1>3, <1>4, <1>7, <1>8, <1>9 DEF ToSet, t

(* A new slab: a free list of all its objects, each once. *)
LEMMA NewSlabSound ==
  ASSUME NEW c \in Cache
  PROVE  /\ NewSlab(c) \in Slab
         /\ NewSlab(c).cache = c
         /\ NewSlab(c).free_list \in Seq(Nat)
         /\ Len(NewSlab(c).free_list) = ObjectsPerSlab[c]
         /\ NewSlab(c).free_count = ObjectsPerSlab[c]
         /\ ToSet(NewSlab(c).free_list) = 1 .. ObjectsPerSlab[c]
         /\ IsInjective(NewSlab(c).free_list)
         /\ Head(NewSlab(c).free_list) = 1
<1> DEFINE n == ObjectsPerSlab[c]
           fl == [i \in 1 .. n |-> i]
<1>1. n \in Nat \ {0}
  BY KmallocAssumption
<1>2. NewSlab(c) = [cache |-> c, free_count |-> n, free_list |-> fl]
  BY DEF NewSlab
<1> HIDE DEF n
<1>3. fl \in Seq(Nat) /\ Len(fl) = n /\ fl[1] = 1
  BY <1>1
<1>4. ToSet(fl) = 1 .. n /\ IsInjective(fl)
  BY DEF ToSet, IsInjective
<1>5. Head(fl) = 1
  BY <1>1, <1>3
<1> HIDE DEF fl
<1> QED
  BY <1>1, <1>2, <1>3, <1>4, <1>5 DEF Slab, n

(* What alloc_from_slab does to a sound slab with a free object. *)
LEMMA PoppedSound ==
  ASSUME NEW s \in Slab,
         ToSet(s.free_list) \subseteq 1 .. ObjectsPerSlab[s.cache],
         IsInjective(s.free_list), s.free_count = Len(s.free_list),
         s.free_count # 0
  PROVE  /\ Popped(s) \in Slab
         /\ Popped(s).cache = s.cache
         /\ Head(s.free_list) \in ToSet(s.free_list)
         /\ ToSet(Popped(s).free_list)
              \subseteq ToSet(s.free_list) \ {Head(s.free_list)}
         /\ IsInjective(Popped(s).free_list)
         /\ Popped(s).free_count = Len(Popped(s).free_list)
<1>1. s.free_list \in Seq(Nat) /\ s.cache \in Cache /\ s.free_count \in Nat
  BY DEF Slab
<1>2. s.free_count - 1 \in Nat
  BY <1>1
<1>3. /\ Popped(s).cache = s.cache
      /\ Popped(s).free_count = s.free_count - 1
      /\ Popped(s).free_list = Tail(s.free_list)
  BY DEF Popped, Slab
<1>4. Popped(s).free_count = s.free_count - 1 /\ s.free_count - 1 \in Nat
  BY <1>1, <1>3
<1>5. /\ Head(s.free_list) \in ToSet(s.free_list)
      /\ Tail(s.free_list) \in Seq(Nat)
      /\ Len(Tail(s.free_list)) = Len(s.free_list) - 1
      /\ ToSet(Tail(s.free_list))
           \subseteq ToSet(s.free_list) \ {Head(s.free_list)}
      /\ IsInjective(Tail(s.free_list))
  BY <1>1, PoppedTakesHead
<1>6. Popped(s) \in Slab
  BY <1>2, <1>5 DEF Popped, Slab
<1> QED
  BY <1>3, <1>4, <1>5, <1>6

(* The objects on free lists, spelled out. *)
LEMMA FreeObjectsAre ==
  \A o : o \in FreeObjects <=> \E j \in 1 .. Len(slabs) :
            \E x \in ToSet(slabs[j].free_list) : o = <<j, x>>
BY DEF FreeObjects

(* A list holds at its positions what ToSet says. *)
LEMMA InToSet ==
  ASSUME NEW S, NEW s \in Seq(S)
  PROVE  \A x : x \in ToSet(s) <=> \E i \in 1 .. Len(s) : s[i] = x
BY LenProperties DEF ToSet

(* alloc_from_cache when a slab of the list has a free object. *)
LEMMA TakeFromListSound ==
  ASSUME IInv, NEW c \in Cache, NEW k \in 1 .. Len(slabs) + 1,
         TakeFromList(c, k)
  PROVE  /\ slabs' \in Seq(Slab) /\ Len(slabs') = Len(slabs)
         /\ \A j \in 1 .. Len(slabs) : slabs'[j].cache = slabs[j].cache
         /\ FreeListsSound' /\ CacheListsSound'
         /\ k \in 1 .. Len(slabs)
         /\ ObjectOf(k) \in FreeObjects
         /\ FreeObjects' \subseteq FreeObjects \ {ObjectOf(k)}
<1>1. slabs \in Seq(Slab) /\ caches \in [Cache -> Seq(Nat)]
  BY DEF IInv, TypeOK
<1>2. PICK i \in 1 .. Len(caches[c]) : k = caches[c][i] /\ HasFree(k)
  BY DEF TakeFromList
<1>3. k \in 1 .. Len(slabs)
  BY <1>1, <1>2, InToSet DEF IInv, CacheListsSound
<1> DEFINE s == slabs[k]
<1>4. /\ s \in Slab
      /\ ToSet(s.free_list) \subseteq 1 .. ObjectsPerSlab[s.cache]
      /\ IsInjective(s.free_list) /\ s.free_count = Len(s.free_list)
      /\ s.free_count # 0
  BY <1>1, <1>2, <1>3, ElementOfSeq DEF IInv, FreeListsSound, HasFree
<1>5. slabs' = [slabs EXCEPT ![k] = Popped(s)] /\ caches' = caches
  BY DEF TakeFromList
<1> DEFINE p == Popped(s)
<1>6. /\ p \in Slab /\ p.cache = s.cache
      /\ Head(s.free_list) \in ToSet(s.free_list)
      /\ ToSet(p.free_list) \subseteq ToSet(s.free_list) \ {Head(s.free_list)}
      /\ IsInjective(p.free_list) /\ p.free_count = Len(p.free_list)
  BY <1>4, PoppedSound
<1>7. slabs' = [slabs EXCEPT ![k] = p]
  BY <1>5
<1> HIDE DEF p
<1>8. /\ slabs' \in Seq(Slab) /\ Len(slabs') = Len(slabs)
      /\ \A j \in 1 .. Len(slabs) : slabs'[j] = IF j = k THEN p ELSE slabs[j]
  BY <1>1, <1>3, <1>6, <1>7, ExceptSeq
<1>9. \A j \in 1 .. Len(slabs) : slabs'[j].cache = slabs[j].cache
  BY <1>6, <1>8
<1>10. FreeListsSound'
  <2> SUFFICES ASSUME NEW j \in 1 .. Len(slabs)
               PROVE  /\ ToSet(slabs'[j].free_list)
                           \subseteq 1 .. ObjectsPerSlab[slabs'[j].cache]
                      /\ IsInjective(slabs'[j].free_list)
                      /\ slabs'[j].free_count = Len(slabs'[j].free_list)
    BY <1>8 DEF FreeListsSound
  <2>1. CASE j = k
    BY <2>1, <1>4, <1>6, <1>8
  <2>2. CASE j # k
    BY <2>2, <1>8 DEF IInv, FreeListsSound
  <2> QED
    BY <2>1, <2>2
<1>11. CacheListsSound'
  BY <1>5, <1>8, <1>9 DEF IInv, CacheListsSound
<1>12. Len(slabs) \in Nat
  BY <1>1, LenProperties
<1>13. ObjectOf(k) = <<k, Head(s.free_list)>>
  BY <1>3, <1>12 DEF ObjectOf
<1>14. ObjectOf(k) \in FreeObjects
  BY <1>3, <1>6, <1>13, FreeObjectsAre
<1>15. ASSUME NEW o \in FreeObjects'
       PROVE  o \in FreeObjects \ {ObjectOf(k)}
  <2>1. PICK j \in 1 .. Len(slabs) :
          \E x \in ToSet(slabs'[j].free_list) : o = <<j, x>>
    BY <1>8 DEF FreeObjects
  <2>2. PICK x \in ToSet(slabs'[j].free_list) : o = <<j, x>>
    BY <2>1
  <2>3. x \in ToSet(slabs[j].free_list)
    BY <1>6, <1>8
  <2>4. o # <<k, Head(s.free_list)>>
    BY <2>2, <1>6, <1>8
  <2> QED
    BY <2>2, <2>3, <2>4, <1>13, FreeObjectsAre
<1> QED
  BY <1>3, <1>8, <1>9, <1>10, <1>11, <1>14, <1>15

(* alloc_from_cache when it must create a slab. *)
LEMMA TakeFromNewSound ==
  ASSUME IInv, NEW c \in Cache, NEW k \in 1 .. Len(slabs) + 1,
         TakeFromNew(c, k)
  PROVE  /\ slabs' \in Seq(Slab) /\ Len(slabs') = Len(slabs) + 1
         /\ \A j \in 1 .. Len(slabs) : slabs'[j] = slabs[j]
         /\ slabs'[k].cache = c
         /\ caches' \in [Cache -> Seq(Nat)]
         /\ FreeListsSound' /\ CacheListsSound'
         /\ k = Len(slabs) + 1
         /\ ObjectOf(k) = <<k, 1>>
         /\ FreeObjects' \subseteq FreeObjects
              \cup {<<k, x>> : x \in 2 .. ObjectsPerSlab[c]}
<1>1. slabs \in Seq(Slab) /\ caches \in [Cache -> Seq(Nat)]
  BY DEF IInv, TypeOK
<1>2. /\ k = Len(slabs) + 1
      /\ slabs' = Append(slabs, Popped(NewSlab(c)))
      /\ caches' = [caches EXCEPT ![c] = <<k>> \o caches[c]]
  BY DEF TakeFromNew, Linked
<1>3. Len(slabs) \in Nat
  BY <1>1, LenProperties
<1> DEFINE s == NewSlab(c)
           p == Popped(NewSlab(c))
<1>4. ObjectsPerSlab[c] \in Nat \ {0}
  BY KmallocAssumption
<1>5. /\ s \in Slab /\ s.cache = c
      /\ ToSet(s.free_list) = 1 .. ObjectsPerSlab[c]
      /\ IsInjective(s.free_list) /\ s.free_count = Len(s.free_list)
      /\ s.free_count # 0 /\ Head(s.free_list) = 1
  BY <1>4, NewSlabSound
<1>6. /\ p \in Slab /\ p.cache = c
      /\ ToSet(p.free_list) \subseteq ToSet(s.free_list) \ {Head(s.free_list)}
      /\ IsInjective(p.free_list) /\ p.free_count = Len(p.free_list)
  <2> HIDE DEF s
  <2>1. ToSet(s.free_list) \subseteq 1 .. ObjectsPerSlab[s.cache]
    BY <1>5
  <2>2. /\ Popped(s) \in Slab /\ Popped(s).cache = s.cache
        /\ ToSet(Popped(s).free_list)
             \subseteq ToSet(s.free_list) \ {Head(s.free_list)}
        /\ IsInjective(Popped(s).free_list)
        /\ Popped(s).free_count = Len(Popped(s).free_list)
    BY <2>1, <1>5, PoppedSound
  <2> QED
    BY <2>2, <1>5 DEF s
<1>7. ToSet(p.free_list) \subseteq 2 .. ObjectsPerSlab[c]
  BY <1>4, <1>5, <1>6
<1>8. slabs' = Append(slabs, p)
  BY <1>2
<1> HIDE DEF s, p
<1>9. /\ slabs' \in Seq(Slab) /\ Len(slabs') = Len(slabs) + 1
      /\ \A j \in 1 .. Len(slabs) : slabs'[j] = slabs[j]
      /\ slabs'[Len(slabs) + 1] = p
  BY <1>1, <1>6, <1>8, AppendProperties
<1>10. \A j \in 1 .. Len(slabs) + 1 : j \in 1 .. Len(slabs) \/ j = k
  BY <1>2, <1>3
<1>11. slabs'[k] = p
  BY <1>2, <1>9
<1>12. FreeListsSound'
  <2> SUFFICES ASSUME NEW j \in 1 .. Len(slabs) + 1
               PROVE  /\ ToSet(slabs'[j].free_list)
                           \subseteq 1 .. ObjectsPerSlab[slabs'[j].cache]
                      /\ IsInjective(slabs'[j].free_list)
                      /\ slabs'[j].free_count = Len(slabs'[j].free_list)
    BY <1>9 DEF FreeListsSound
  <2>1. CASE j = k
    <3>1. ToSet(p.free_list) \subseteq 1 .. ObjectsPerSlab[p.cache]
      BY <1>4, <1>6, <1>7
    <3> QED
      BY <2>1, <3>1, <1>6, <1>11
  <2>2. CASE j \in 1 .. Len(slabs)
    BY <2>2, <1>9 DEF IInv, FreeListsSound
  <2> QED
    BY <2>1, <2>2, <1>10
<1>13. k \in Nat /\ caches[c] \in Seq(Nat)
  BY <1>1, <1>2, <1>3
<1> DEFINE l == <<k>> \o caches[c]
<1>14. /\ l \in Seq(Nat) /\ Len(l) = Len(caches[c]) + 1 /\ l[1] = k
       /\ \A i \in 2 .. Len(l) : l[i] = caches[c][i - 1]
       /\ ToSet(l) = {k} \cup ToSet(caches[c])
  BY <1>13, FrontInsert
<1>15. caches' = [caches EXCEPT ![c] = l]
  BY <1>2
<1> HIDE DEF l
<1>16. caches' \in [Cache -> Seq(Nat)]
  BY <1>1, <1>14, <1>15
<1>17. CacheListsSound'
  <2> SUFFICES ASSUME NEW i \in Cache
               PROVE  /\ IsInjective(caches'[i])
                      /\ ToSet(caches'[i])
                           = {j \in 1 .. Len(slabs') : slabs'[j].cache = i}
    BY DEF CacheListsSound
  <2>1. /\ IsInjective(caches[i])
        /\ ToSet(caches[i]) = {j \in 1 .. Len(slabs) : slabs[j].cache = i}
    BY DEF IInv, CacheListsSound
  <2>2. 1 .. Len(slabs') = 1 .. Len(slabs) \cup {k} /\ k \notin 1 .. Len(slabs)
    BY <1>2, <1>3, <1>9
  <2>3. CASE i = c
    <3>1. caches'[i] = l
      BY <2>3, <1>1, <1>15
    <3>2. ToSet(l) = {j \in 1 .. Len(slabs') : slabs'[j].cache = i}
      BY <2>1, <2>2, <2>3, <1>6, <1>9, <1>11, <1>14
    <3>3. IsInjective(l)
      <4>1. DOMAIN l = 1 .. Len(caches[c]) + 1 /\ Len(caches[c]) \in Nat
            /\ DOMAIN caches[c] = 1 .. Len(caches[c])
        BY <1>13, <1>14, LenProperties
      <4>2. \A a \in DOMAIN l : a # 1 => /\ a - 1 \in DOMAIN caches[c]
                                        /\ l[a] = caches[c][a - 1]
        BY <4>1, <1>14, SMTT(30)
      <4>3. \A a \in DOMAIN caches[c] : caches[c][a] # k
        BY <2>1, <2>2, <2>3 DEF ToSet
      <4>4. ASSUME NEW a \in DOMAIN l, NEW b \in DOMAIN l, l[a] = l[b]
            PROVE  a = b
        <5>1. CASE a = 1 \/ b = 1
          BY <5>1, <4>2, <4>3, <4>4, <1>14
        <5>2. CASE a # 1 /\ b # 1
          <6>1. a - 1 = b - 1
            BY <5>2, <4>2, <4>4, <2>1, <2>3 DEF IsInjective
          <6> QED
            BY <6>1, <4>1
        <5> QED
          BY <5>1, <5>2
      <4> QED
        BY <4>4 DEF IsInjective
    <3> QED
      BY <3>1, <3>2, <3>3
  <2>4. CASE i # c
    <3>1. caches'[i] = caches[i]
      BY <2>4, <1>1, <1>15
    <3> QED
      BY <3>1, <2>1, <2>2, <2>4, <1>6, <1>9, <1>11
  <2> QED
    BY <2>3, <2>4
<1>18. ObjectOf(k) = <<k, 1>>
  BY <1>2, <1>3 DEF ObjectOf
<1>19. ASSUME NEW o \in FreeObjects'
       PROVE  o \in FreeObjects \cup {<<k, x>> : x \in 2 .. ObjectsPerSlab[c]}
  <2>1. PICK j \in 1 .. Len(slabs) + 1 :
          \E x \in ToSet(slabs'[j].free_list) : o = <<j, x>>
    BY <1>9 DEF FreeObjects
  <2>2. PICK x \in ToSet(slabs'[j].free_list) : o = <<j, x>>
    BY <2>1
  <2>3. CASE j = k
    BY <2>2, <2>3, <1>7, <1>11
  <2>4. CASE j \in 1 .. Len(slabs)
    BY <2>2, <2>4, <1>9, FreeObjectsAre
  <2> QED
    BY <2>3, <2>4, <1>10
<1> QED
  BY <1>2, <1>6, <1>9, <1>11, <1>12, <1>16, <1>17, <1>18, <1>19

(* Any object alloc_from_cache returns was free and is now on no free      *)
(* list; the slabs, their free lists and the caches stay sound, and        *)
(* nothing that was owned becomes free.                                    *)
LEMMA AllocSound ==
  ASSUME IInv, NEW c \in Cache, NEW k \in 1 .. Len(slabs) + 1,
         alloc_from_cache(c, k)
  PROVE  /\ slabs' \in Seq(Slab) /\ caches' \in [Cache -> Seq(Nat)]
         /\ FreeListsSound' /\ CacheListsSound'
         /\ ObjectOf(k) \in Nat \X Nat
         /\ ObjectOf(k) \notin held \cup Descriptors
         /\ held \cup Descriptors \cup {ObjectOf(k)}
              \subseteq UNION {Objects(j)' : j \in 1 .. Len(slabs')}
         /\ FreeObjects' \cap (held \cup Descriptors \cup {ObjectOf(k)}) = {}
<1>1. /\ slabs \in Seq(Slab) /\ caches \in [Cache -> Seq(Nat)]
      /\ Len(slabs) \in Nat
  BY LenProperties DEF IInv, TypeOK
<1>2. (held \cup Descriptors) \cap FreeObjects = {}
  BY DEF IInv, NoDoubleUse
<1>3. \A o \in held \cup Descriptors :
        \E j \in 1 .. Len(slabs) :
          \E x \in 1 .. ObjectsPerSlab[slabs[j].cache] : o = <<j, x>>
  BY DEF IInv, OwnedAreObjects, Objects
<1>4. \A o : (\E j \in 1 .. Len(slabs') :
                \E x \in 1 .. ObjectsPerSlab[slabs'[j].cache] : o = <<j, x>>)
               => o \in UNION {Objects(j)' : j \in 1 .. Len(slabs')}
  BY DEF Objects
<1>5. CASE TakeFromList(c, k)
  <2>1. /\ slabs' \in Seq(Slab) /\ Len(slabs') = Len(slabs)
        /\ \A j \in 1 .. Len(slabs) : slabs'[j].cache = slabs[j].cache
        /\ FreeListsSound' /\ CacheListsSound'
        /\ k \in 1 .. Len(slabs)
        /\ ObjectOf(k) \in FreeObjects
        /\ FreeObjects' \subseteq FreeObjects \ {ObjectOf(k)}
    BY <1>5, TakeFromListSound
  <2>2. PICK j \in 1 .. Len(slabs) :
          \E x \in ToSet(slabs[j].free_list) : ObjectOf(k) = <<j, x>>
    BY <2>1, FreeObjectsAre
  <2>3. PICK x \in ToSet(slabs[j].free_list) : ObjectOf(k) = <<j, x>>
    BY <2>2
  <2>4. x \in 1 .. ObjectsPerSlab[slabs[j].cache]
    BY <2>3 DEF IInv, FreeListsSound
  <2>5. ObjectOf(k) \in Nat \X Nat
    BY <1>1, <2>3, <2>4
  <2>6. ASSUME NEW o \in held \cup Descriptors \cup {ObjectOf(k)}
        PROVE  o \in UNION {Objects(m)' : m \in 1 .. Len(slabs')}
    <3>1. \E m \in 1 .. Len(slabs) :
            \E y \in 1 .. ObjectsPerSlab[slabs[m].cache] : o = <<m, y>>
      BY <2>3, <2>4, <1>3
    <3> QED
      BY <3>1, <2>1, <1>4
  <2>7. caches' = caches
    BY <1>5 DEF TakeFromList
  <2> QED
    BY <2>1, <2>5, <2>6, <2>7, <1>1, <1>2
<1>6. CASE TakeFromNew(c, k)
  <2>1. /\ slabs' \in Seq(Slab) /\ Len(slabs') = Len(slabs) + 1
        /\ \A j \in 1 .. Len(slabs) : slabs'[j] = slabs[j]
        /\ slabs'[k].cache = c
        /\ caches' \in [Cache -> Seq(Nat)]
        /\ FreeListsSound' /\ CacheListsSound'
        /\ k = Len(slabs) + 1
        /\ ObjectOf(k) = <<k, 1>>
        /\ FreeObjects' \subseteq FreeObjects
             \cup {<<k, x>> : x \in 2 .. ObjectsPerSlab[c]}
    BY <1>6, TakeFromNewSound
  <2>2. \A o \in held \cup Descriptors : \A x : o # <<k, x>>
    BY <1>1, <1>3, <2>1
  <2>3. 1 \in 1 .. ObjectsPerSlab[c] /\ k \in 1 .. Len(slabs')
    BY <1>1, <2>1, KmallocAssumption
  <2>4. ASSUME NEW o \in held \cup Descriptors \cup {ObjectOf(k)}
        PROVE  o \in UNION {Objects(m)' : m \in 1 .. Len(slabs')}
    <3>1. CASE o = ObjectOf(k)
      BY <3>1, <2>1, <2>3, <1>4
    <3>2. CASE o \in held \cup Descriptors
      <4>1. PICK m \in 1 .. Len(slabs) :
              \E y \in 1 .. ObjectsPerSlab[slabs[m].cache] : o = <<m, y>>
        BY <3>2, <1>3
      <4>2. m \in 1 .. Len(slabs') /\ slabs'[m].cache = slabs[m].cache
        BY <1>1, <2>1
      <4> QED
        BY <4>1, <4>2, <1>4
    <3> QED
      BY <3>1, <3>2
  <2>5. ASSUME NEW o \in FreeObjects'
        PROVE  o \notin held \cup Descriptors \cup {ObjectOf(k)}
    <3>1. CASE o \in FreeObjects
      <4>1. \A x : o # <<k, x>>
        BY <3>1, <1>1, <2>1, FreeObjectsAre
      <4> QED
        BY <3>1, <4>1, <1>2, <2>1
    <3>2. CASE o \in {<<k, x>> : x \in 2 .. ObjectsPerSlab[c]}
      BY <3>2, <2>1, <2>2, KmallocAssumption
    <3> QED
      BY <3>1, <3>2, <2>1
  <2>6. ObjectOf(k) \in Nat \X Nat
    BY <1>1, <2>1
  <2> QED
    BY <2>1, <2>2, <2>4, <2>5, <2>6
<1> QED
  BY <1>5, <1>6 DEF alloc_from_cache

-----------------------------------------------------------------------------
(* The pages of a large allocation of n pages at the next large pointer    *)
(* are new, and mapping them takes n frames.                               *)
LEMMA LargePagesAreNew ==
  ASSUME IInv, NEW n \in Nat
  PROVE  /\ mapped \cap Pages(large_heap, n) = {}
         /\ Cardinality(mapped \cup Pages(large_heap, n))
              = Cardinality(mapped) + n
         /\ IsFiniteSet(mapped) /\ Cardinality(mapped) \in Nat
<1>1. /\ mapped \subseteq HeapBase + HeapPages .. large_heap - 1
      /\ large_heap \in Nat /\ HeapBase + HeapPages \in Nat
  BY KmallocAssumption DEF IInv, LargePagesServed, TypeOK, HeapPages
<1>2. mapped \cap Pages(large_heap, n) = {}
  BY <1>1 DEF Pages
<1>3. /\ IsFiniteSet(HeapBase + HeapPages .. large_heap - 1)
      /\ IsFiniteSet(Pages(large_heap, n))
      /\ Cardinality(Pages(large_heap, n)) = n
  <2>1. large_heap + n - 1 \in Int /\ large_heap - 1 \in Int
    BY <1>1
  <2>2. (IF large_heap > large_heap + n - 1 THEN 0
           ELSE (large_heap + n - 1) - large_heap + 1) = n
    BY <1>1
  <2> QED
    BY <1>1, <2>1, <2>2, FS_Interval, SMTT(30) DEF Pages
<1>4. IsFiniteSet(mapped)
  BY <1>1, <1>3, FS_Subset
<1>5. Cardinality(mapped \cup Pages(large_heap, n))
        = Cardinality(mapped) + n - Cardinality({})
  BY <1>2, <1>3, <1>4, FS_Union
<1>6. Cardinality(mapped) \in Nat /\ Cardinality({}) = 0
  BY <1>4, FS_CardinalityType, FS_EmptySet
<1> QED
  BY <1>2, <1>4, <1>5, <1>6

(* The pages the list of large allocations covers, spelled out. *)
LEMMA ListedPagesAre ==
  ASSUME large_allocations \in Seq(LargeAlloc)
  PROVE  \A p : p \in UNION {Pages(a.ptr, a.size) :
                               a \in ToSet(large_allocations)}
                 <=> \E i \in 1 .. Len(large_allocations) :
                       p \in Unmapped(large_allocations[i])
BY InToSet DEF Unmapped

(* Serving a large request: its frames leave pmm and its pages follow      *)
(* those served before.                                                    *)
LEMMA ServedSound ==
  ASSUME IInv, NEW n \in LargeSizes, frames >= n,
         large_heap + n <= HeapBase + HeapPages + MaxLargePages,
         frames' = frames - n,
         mapped' = mapped \cup Pages(large_heap, n),
         large_heap' = Advanced(n)
  PROVE  /\ n \in Nat \ {0} /\ large_heap \in Nat
         /\ frames' \in Nat
         /\ mapped' \subseteq Nat
         /\ large_heap' \in HeapBase + HeapPages
                             .. HeapBase + HeapPages + MaxLargePages
         /\ mapped' \subseteq HeapBase + HeapPages .. large_heap' - 1
         /\ frames' + Cardinality(mapped') = Frames
         /\ mapped \cap Pages(large_heap, n) = {}
<1>1. /\ n \in Nat \ {0} /\ large_heap \in Nat /\ frames \in Nat
      /\ HeapBase + HeapPages \in Nat /\ MaxLargePages \in Nat
      /\ large_heap >= HeapBase + HeapPages
      /\ mapped \subseteq HeapBase + HeapPages .. large_heap - 1
      /\ mapped \subseteq Nat
      /\ frames + Cardinality(mapped) = Frames
      /\ large_heap' = large_heap + n
  BY KmallocAssumption
     DEF IInv, TypeOK, LargePagesServed, FramesConserved, HeapPages, Advanced
<1>2. /\ mapped \cap Pages(large_heap, n) = {}
      /\ Cardinality(mapped \cup Pages(large_heap, n))
           = Cardinality(mapped) + n
      /\ Cardinality(mapped) \in Nat
  BY <1>1, LargePagesAreNew
<1>3. frames' + Cardinality(mapped') = Frames /\ frames' \in Nat
  BY <1>1, <1>2
<1>4. /\ mapped' \subseteq HeapBase + HeapPages .. large_heap' - 1
      /\ mapped' \subseteq Nat
  BY <1>1 DEF Pages
<1>5. large_heap' \in HeapBase + HeapPages
                       .. HeapBase + HeapPages + MaxLargePages
  BY <1>1
<1> QED
  BY <1>1, <1>2, <1>3, <1>4, <1>5

-----------------------------------------------------------------------------
(* init_kmalloc establishes the invariant. *)
LEMMA InitIInv == Init => IInv
<1> SUFFICES ASSUME Init PROVE IInv
  OBVIOUS
<1>1. /\ slabs = [i \in Cache |-> NewSlab(i)]
      /\ caches = [i \in Cache |-> <<i>>]
      /\ held = {} /\ large_allocations = <<>> /\ owned_large = {}
      /\ mapped = {} /\ frames = Frames /\ halted = FALSE
      /\ large_heap = HeapBase + HeapPages
  BY DEF Init
<1>2. NUM_CACHES \in Nat /\ Cache = 1 .. NUM_CACHES
  BY KmallocAssumption DEF Cache
<1>3. \A i \in Cache : NewSlab(i) \in Slab
  BY NewSlabSound
<1>4. slabs \in Seq(Slab) /\ Len(slabs) = NUM_CACHES
  BY <1>1, <1>2, <1>3
<1>5. \A i \in Cache : /\ <<i>> \in Seq(Nat) /\ Len(<<i>>) = 1
                       /\ <<i>>[1] = i /\ DOMAIN <<i>> = {1}
  BY <1>2
<1>6. TypeOK
  <2>1. caches \in [Cache -> Seq(Nat)]
    BY <1>1, <1>5
  <2>2. large_heap \in HeapBase + HeapPages
                        .. HeapBase + HeapPages + MaxLargePages
    BY <1>1, KmallocAssumption DEF HeapPages
  <2>3. large_allocations \in Seq(LargeAlloc)
    BY <1>1, EmptySeq
  <2> QED
    BY <2>1, <2>2, <2>3, <1>1, <1>4, KmallocAssumption DEF TypeOK
<1>7. FreeListsSound
  BY <1>1, <1>2, <1>4, NewSlabSound DEF FreeListsSound
<1>8. CacheListsSound
  <2> SUFFICES ASSUME NEW i \in Cache
               PROVE  /\ IsInjective(caches[i])
                      /\ ToSet(caches[i])
                           = {k \in 1 .. Len(slabs) : slabs[k].cache = i}
    BY DEF CacheListsSound
  <2>1. caches[i] = <<i>>
    BY <1>1
  <2>2. IsInjective(caches[i]) /\ ToSet(caches[i]) = {i}
    BY <2>1, <1>5 DEF IsInjective, ToSet
  <2>3. \A k \in Cache : slabs[k].cache = k
    BY <1>1, NewSlabSound
  <2> QED
    BY <2>2, <2>3, <1>2, <1>4
<1>9. ToSet(large_allocations) = {} /\ Len(large_allocations) = 0
  BY <1>1 DEF ToSet
<1>10. Descriptors = {}
  BY <1>9 DEF Descriptors
<1>11. OwnedAreObjects /\ NoDoubleUse
  BY <1>1, <1>7, <1>10 DEF OwnedAreObjects, NoDoubleUse, FreeListsSound
<1>12. RangesApart /\ LargePagesServed
  BY <1>1, <1>9 DEF RangesApart, LargePagesServed
<1>13. FramesConserved
  <2>1. frames + Cardinality(mapped) = Frames
    BY <1>1, FS_EmptySet, KmallocAssumption
  <2> QED
    BY <2>1, <1>1, <1>9 DEF FramesConserved
<1> QED
  BY <1>6, <1>7, <1>8, <1>11, <1>12, <1>13 DEF IInv

(* kmalloc of a slab object. *)
LEMMA KmallocIInv ==
  ASSUME IInv, NEW c \in Cache, kmalloc(c) PROVE IInv'
<1>1. PICK k \in 1 .. Len(slabs) + 1 :
         alloc_from_cache(c, k) /\ held' = held \cup {ObjectOf(k)}
  BY DEF kmalloc
<1>2. /\ large_heap' = large_heap /\ large_allocations' = large_allocations
      /\ owned_large' = owned_large /\ mapped' = mapped /\ frames' = frames
      /\ halted' = halted
  BY DEF kmalloc
<1>3. /\ slabs' \in Seq(Slab) /\ caches' \in [Cache -> Seq(Nat)]
      /\ FreeListsSound' /\ CacheListsSound'
      /\ ObjectOf(k) \in Nat \X Nat
      /\ ObjectOf(k) \notin held \cup Descriptors
      /\ held \cup Descriptors \cup {ObjectOf(k)}
           \subseteq UNION {Objects(j)' : j \in 1 .. Len(slabs')}
      /\ FreeObjects' \cap (held \cup Descriptors \cup {ObjectOf(k)}) = {}
  BY <1>1, AllocSound
<1>4. Descriptors' = Descriptors
  BY <1>2 DEF Descriptors
<1>5. TypeOK'
  BY <1>1, <1>2, <1>3 DEF IInv, TypeOK
<1>6. OwnedAreObjects'
  BY <1>1, <1>3, <1>4 DEF OwnedAreObjects
<1>7. NoDoubleUse'
  BY <1>1, <1>3, <1>4 DEF IInv, NoDoubleUse, FreeListsSound
<1>8. RangesApart' /\ LargePagesServed' /\ FramesConserved'
  BY <1>2 DEF IInv, RangesApart, LargePagesServed, FramesConserved
<1> QED
  BY <1>3, <1>5, <1>6, <1>7, <1>8 DEF IInv

(* kmalloc_large that gets its frames and its descriptor. *)
LEMMA KmallocLargeIInv ==
  ASSUME IInv, NEW n \in LargeSizes, kmalloc_large(n) PROVE IInv'
<1> DEFINE la == large_allocations
           A(o) == [ptr |-> large_heap, size |-> n, desc |-> o]
<1>1. PICK k \in 1 .. Len(slabs) + 1 :
         /\ alloc_from_cache(DescriptorCache, k)
         /\ la' = <<[ptr |-> large_heap, size |-> n, desc |-> ObjectOf(k)]>>
                    \o la
  BY DEF kmalloc_large
<1>2. /\ frames >= n
      /\ large_heap + n <= HeapBase + HeapPages + MaxLargePages
      /\ frames' = frames - n
      /\ mapped' = mapped \cup Pages(large_heap, n)
      /\ owned_large' = owned_large \cup {large_heap}
      /\ large_heap' = Advanced(n)
      /\ held' = held /\ halted' = halted /\ ~halted
  BY DEF kmalloc_large
<1>3. DescriptorCache \in Cache
  BY KmallocAssumption DEF DescriptorCache, Cache
<1>4. /\ slabs' \in Seq(Slab) /\ caches' \in [Cache -> Seq(Nat)]
      /\ FreeListsSound' /\ CacheListsSound'
      /\ ObjectOf(k) \in Nat \X Nat
      /\ ObjectOf(k) \notin held \cup Descriptors
      /\ held \cup Descriptors \cup {ObjectOf(k)}
           \subseteq UNION {Objects(j)' : j \in 1 .. Len(slabs')}
      /\ FreeObjects' \cap (held \cup Descriptors \cup {ObjectOf(k)}) = {}
  BY <1>1, <1>3, AllocSound
<1>5. /\ n \in Nat \ {0} /\ large_heap \in Nat
      /\ frames' \in Nat
      /\ mapped' \subseteq Nat
      /\ large_heap' \in HeapBase + HeapPages
                          .. HeapBase + HeapPages + MaxLargePages
      /\ mapped' \subseteq HeapBase + HeapPages .. large_heap' - 1
      /\ frames' + Cardinality(mapped') = Frames
      /\ mapped \cap Pages(large_heap, n) = {}
  BY <1>2, ServedSound
<1> DEFINE a == A(ObjectOf(k))
<1>6. a \in LargeAlloc /\ Unmapped(a) = Pages(large_heap, n)
      /\ a.desc = ObjectOf(k) /\ a.ptr = large_heap
  BY <1>4, <1>5 DEF LargeAlloc, Unmapped
<1>7. la \in Seq(LargeAlloc) /\ Len(la) \in Nat
  BY LenProperties DEF IInv, TypeOK
<1>8. la' = <<a>> \o la
  BY <1>1
<1> HIDE DEF a, A
<1>9. /\ la' \in Seq(LargeAlloc) /\ Len(la') = Len(la) + 1 /\ la'[1] = a
      /\ \A i \in 1 .. Len(la) : la'[i + 1] = la[i]
      /\ \A i \in 2 .. Len(la') : la'[i] = la[i - 1]
      /\ ToSet(la') = {a} \cup ToSet(la)
  BY <1>6, <1>7, <1>8, FrontInsert
<1>10. Descriptors' = Descriptors \cup {ObjectOf(k)}
  BY <1>6, <1>9 DEF Descriptors
<1>11. TypeOK'
  BY <1>2, <1>4, <1>5, <1>9 DEF IInv, TypeOK
<1>12. OwnedAreObjects'
  BY <1>2, <1>4, <1>10 DEF OwnedAreObjects
<1>13. NoDoubleUse'
  BY <1>2, <1>4, <1>10 DEF IInv, NoDoubleUse, FreeListsSound
<1>14. \A i \in 1 .. Len(la) : Unmapped(la[i]) \subseteq mapped
  BY <1>7, ListedPagesAre DEF IInv, LargePagesServed
<1>15. \A i \in 1 .. Len(la') : i = 1 \/ (i \in 2 .. Len(la')
                                         /\ i - 1 \in 1 .. Len(la))
  BY <1>7, <1>9
<1>16. RangesApart'
  <2> SUFFICES ASSUME NEW i \in 1 .. Len(la'), NEW j \in 1 .. Len(la'), i # j
               PROVE  Unmapped(la'[i]) \cap Unmapped(la'[j]) = {}
    BY DEF RangesApart, Unmapped
  <2>1. CASE i = 1 \/ j = 1
    <3>1. ASSUME NEW m \in 1 .. Len(la'), m # 1
          PROVE  Unmapped(la'[m]) \subseteq mapped
      <4>1. m \in 2 .. Len(la') /\ m - 1 \in 1 .. Len(la)
        BY <3>1, <1>15
      <4>2. la'[m] = la[m - 1]
        BY <4>1, <1>9
      <4> QED
        BY <4>1, <4>2, <1>14
    <3>2. Unmapped(la'[1]) \cap mapped = {}
      BY <1>5, <1>6, <1>9
    <3> QED
      BY <2>1, <3>1, <3>2, Zenon
  <2>2. CASE i # 1 /\ j # 1
    <3>1. i - 1 # j - 1 /\ i - 1 \in 1 .. Len(la) /\ j - 1 \in 1 .. Len(la)
          /\ la'[i] = la[i - 1] /\ la'[j] = la[j - 1]
      BY <2>2, <1>9, <1>15
    <3> QED
      BY <3>1 DEF IInv, RangesApart
  <2> QED
    BY <2>1, <2>2
<1>17. UNION {Pages(b.ptr, b.size) : b \in ToSet(la')}
         = (UNION {Pages(b.ptr, b.size) : b \in ToSet(la)})
             \cup Pages(large_heap, n)
  BY <1>6, <1>9 DEF Unmapped
<1>18. LargePagesServed'
  <2>1. ASSUME NEW ptr \in owned_large'
        PROVE  \E i \in 1 .. Len(la') : la'[i].ptr = ptr
    <3>1. CASE ptr = large_heap
      BY <3>1, <1>6, <1>7, <1>9
    <3>2. CASE ptr \in owned_large
      <4>1. PICK i \in 1 .. Len(la) : la[i].ptr = ptr
        BY <3>2 DEF IInv, LargePagesServed
      <4>2. i + 1 \in 1 .. Len(la') /\ la'[i + 1].ptr = ptr
        BY <4>1, <1>7, <1>9
      <4> QED
        BY <4>2
    <3> QED
      BY <3>1, <3>2, <1>2
  <2> QED
    BY <2>1, <1>2, <1>5, <1>17 DEF IInv, LargePagesServed
<1>19. FramesConserved'
  BY <1>2, <1>5, <1>17 DEF IInv, FramesConserved
<1> QED
  BY <1>4, <1>11, <1>12, <1>13, <1>16, <1>18, <1>19 DEF IInv

(* A step that touches no slab, cache, object or descriptor keeps what is   *)
(* said of them.                                                           *)
LEMMA SlabsUntouched ==
  ASSUME IInv, slabs' = slabs, caches' = caches, held' = held,
         large_allocations' = large_allocations
  PROVE  /\ FreeListsSound' /\ CacheListsSound' /\ OwnedAreObjects'
         /\ NoDoubleUse' /\ RangesApart'
<1>1. FreeListsSound' /\ CacheListsSound'
  BY DEF IInv, FreeListsSound, CacheListsSound
<1>2. OwnedAreObjects'
  BY DEF IInv, OwnedAreObjects, Descriptors, Objects
<1>3. Descriptors' = Descriptors /\ FreeObjects' = FreeObjects
  BY DEF Descriptors, FreeObjects
<1>4. NoDoubleUse'
  BY <1>3 DEF IInv, NoDoubleUse
<1>5. RangesApart'
  BY DEF IInv, RangesApart
<1> QED
  BY <1>1, <1>2, <1>4, <1>5

(* kmalloc_large that finds no slab for its descriptor: the pages stay     *)
(* mapped and the system halts.                                            *)
LEMMA KmallocLargeAssertsIInv ==
  ASSUME IInv, NEW n \in LargeSizes, kmalloc_large_asserts(n) PROVE IInv'
<1>1. /\ frames >= n
      /\ large_heap + n <= HeapBase + HeapPages + MaxLargePages
      /\ frames' = frames - n
      /\ mapped' = mapped \cup Pages(large_heap, n)
      /\ large_heap' = Advanced(n)
      /\ halted' = TRUE
      /\ slabs' = slabs /\ caches' = caches /\ held' = held
      /\ large_allocations' = large_allocations /\ owned_large' = owned_large
  BY DEF kmalloc_large_asserts
<1>2. /\ frames' \in Nat
      /\ mapped' \subseteq Nat
      /\ large_heap' \in HeapBase + HeapPages
                          .. HeapBase + HeapPages + MaxLargePages
      /\ mapped' \subseteq HeapBase + HeapPages .. large_heap' - 1
      /\ frames' + Cardinality(mapped') = Frames
  BY <1>1, ServedSound
<1>3. TypeOK'
  BY <1>1, <1>2 DEF IInv, TypeOK
<1>4. FreeListsSound' /\ CacheListsSound' /\ OwnedAreObjects'
      /\ NoDoubleUse' /\ RangesApart'
  BY <1>1, SlabsUntouched
<1>5. LargePagesServed' /\ FramesConserved'
  BY <1>1, <1>2 DEF IInv, LargePagesServed, FramesConserved
<1> QED
  BY <1>3, <1>4, <1>5 DEF IInv

(* A large request that runs out of frames puts back the ones it took. *)
LEMMA KmallocLargeFailsIInv ==
  ASSUME IInv, NEW n \in LargeSizes, kmalloc_large_fails(n) PROVE IInv'
<1>1. frames \in Nat
  BY DEF IInv, TypeOK
<1>2. mapped \cap Pages(large_heap, frames) = {}
  BY <1>1, LargePagesAreNew
<1>3. frames' = (frames - frames) + frames
      /\ mapped' = (mapped \cup Pages(large_heap, frames))
                     \ Pages(large_heap, frames)
  BY DEF kmalloc_large_fails, RolledBack
<1>4. frames' = frames /\ mapped' = mapped
  BY <1>1, <1>2, <1>3
<1>5. UNCHANGED <<slabs, caches, held, large_heap, large_allocations,
                  owned_large, halted>>
  BY DEF kmalloc_large_fails
<1>6. FreeListsSound' /\ CacheListsSound' /\ OwnedAreObjects'
      /\ NoDoubleUse' /\ RangesApart'
  BY <1>5, SlabsUntouched
<1> QED
  BY <1>4, <1>5, <1>6 DEF IInv, TypeOK, LargePagesServed, FramesConserved

(* kfree of a slab object: convert_to_vir_addr put the slab at twice the   *)
(* base, past the range kfree tests, so the object never returns.          *)
LEMMA KfreeIInv ==
  ASSUME IInv, NEW o \in held, kfree(o) PROVE IInv'
<1>1. PICK k \in 1 .. Len(slabs) : o \in Objects(k)
  BY DEF IInv, OwnedAreObjects
<1>2. o[1] \in 1 .. Len(slabs) /\ Len(slabs) \in Nat
  BY <1>1, LenProperties DEF Objects, IInv, TypeOK
<1>3. ~IsSlabAddress(SlabPage(o[1]), o[2])
  BY <1>2, KmallocAssumption DEF IsSlabAddress, SlabPage, SlabFrame, HeapPages
<1>4. /\ slabs' = slabs /\ held' = held \ {o}
      /\ UNCHANGED <<caches, large_heap, large_allocations, owned_large,
                     mapped, frames, halted>>
  BY <1>3 DEF kfree
<1>5. /\ Descriptors' = Descriptors /\ FreeObjects' = FreeObjects
      /\ \A j : Objects(j)' = Objects(j)
  BY <1>4 DEF Descriptors, FreeObjects, Objects
<1>6. TypeOK' /\ FreeListsSound' /\ CacheListsSound'
  BY <1>4 DEF IInv, TypeOK, FreeListsSound, CacheListsSound
<1>7. NoDoubleUse'
  BY <1>4, <1>5 DEF IInv, NoDoubleUse
<1>8. OwnedAreObjects'
  BY <1>4 DEF IInv, OwnedAreObjects, Descriptors, Objects
<1>9. RangesApart' /\ LargePagesServed' /\ FramesConserved'
  BY <1>4 DEF IInv, RangesApart, LargePagesServed, FramesConserved
<1> QED
  BY <1>6, <1>7, <1>8, <1>9 DEF IInv

(* kfree of a large pointer: the pages of its allocation, and no others,   *)
(* are unmapped, and their frames return to pmm.                           *)
LEMMA KfreeLargeIInv ==
  ASSUME IInv, NEW ptr \in owned_large, kfree_large(ptr) PROVE IInv'
<1> DEFINE la == large_allocations
<1>1. /\ owned_large' = owned_large \ {ptr}
      /\ slabs' = slabs /\ caches' = caches /\ held' = held
      /\ large_heap' = large_heap /\ halted' = halted
  BY DEF kfree_large
<1>2. /\ FreeListsSound' /\ CacheListsSound' /\ FreeObjects' = FreeObjects
      /\ \A j : Objects(j)' = Objects(j)
  BY <1>1 DEF IInv, FreeListsSound, CacheListsSound, FreeObjects, Objects
<1>3. CASE UNCHANGED <<large_allocations, mapped, frames>>
  <2>1. Descriptors' = Descriptors
    BY <1>3 DEF Descriptors
  <2>2. TypeOK' /\ NoDoubleUse'
    BY <1>1, <1>2, <1>3, <2>1 DEF IInv, TypeOK, NoDoubleUse
  <2>3. OwnedAreObjects'
    BY <1>1, <1>3 DEF IInv, OwnedAreObjects, Descriptors, Objects
  <2>4. RangesApart' /\ LargePagesServed' /\ FramesConserved'
    BY <1>1, <1>3 DEF IInv, RangesApart, LargePagesServed, FramesConserved
  <2> QED
    BY <1>2, <2>2, <2>3, <2>4 DEF IInv
<1>4. CASE ~IsSlabAddress(ptr, 0)
  <2>1. PICK i \in 1 .. Len(la) :
          /\ la[i].ptr = ptr
          /\ mapped' = mapped \ Unmapped(la[i])
          /\ frames' = frames + Cardinality(Unmapped(la[i]))
          /\ la' = RemoveAt(la, i)
    BY <1>4 DEF kfree_large
  <2>2. la \in Seq(LargeAlloc) /\ Len(la) \in Nat
    BY LenProperties DEF IInv, TypeOK
  <2>3. /\ la' \in Seq(LargeAlloc) /\ Len(la') = Len(la) - 1
        /\ \A j \in 1 .. Len(la) - 1 :
             la'[j] = IF j < i THEN la[j] ELSE la[j + 1]
    BY <2>1, <2>2, TakenOut
  <2> DEFINE old(j) == IF j < i THEN j ELSE j + 1
  <2>4. \A j \in 1 .. Len(la') :
          old(j) \in 1 .. Len(la) /\ old(j) # i /\ la'[j] = la[old(j)]
    BY <2>2, <2>3
  <2>5. \A j, m \in 1 .. Len(la') : j # m => old(j) # old(m)
    BY <2>2, <2>3
  <2>6. \A m \in 1 .. Len(la) : m # i => \E j \in 1 .. Len(la') : old(j) = m
    <3> SUFFICES ASSUME NEW m \in 1 .. Len(la), m # i
                 PROVE  \E j \in 1 .. Len(la') : old(j) = m
      OBVIOUS
    <3>1. CASE m < i
      <4>1. m \in 1 .. Len(la') /\ old(m) = m
        BY <3>1, <2>2, <2>3
      <4> QED
        BY <4>1
    <3>2. CASE m > i
      <4>1. m - 1 \in 1 .. Len(la') /\ old(m - 1) = m
        BY <3>2, <2>2, <2>3
      <4> QED
        BY <4>1
    <3> QED
      BY <3>1, <3>2, <2>2
  <2> HIDE DEF old
  <2>7. RangesApart'
    <3> SUFFICES ASSUME NEW j \in 1 .. Len(la'), NEW m \in 1 .. Len(la'), j # m
                 PROVE  Unmapped(la'[j]) \cap Unmapped(la'[m]) = {}
      BY DEF RangesApart, Unmapped
    <3> QED
      BY <2>4, <2>5 DEF IInv, RangesApart
  <2>8. \A m \in 1 .. Len(la) :
          m # i => Unmapped(la[m]) \cap Unmapped(la[i]) = {}
    BY DEF IInv, RangesApart
  <2>9. \A p : p \in UNION {Pages(b.ptr, b.size) : b \in ToSet(la)}
                 <=> \E m \in 1 .. Len(la) : p \in Unmapped(la[m])
    BY <2>2, ListedPagesAre
  <2>10. \A p : p \in UNION {Pages(b.ptr, b.size) : b \in ToSet(la')}
                  <=> \E j \in 1 .. Len(la') : p \in Unmapped(la'[j])
    BY <2>3, InToSet DEF Unmapped
  <2>11. UNION {Pages(b.ptr, b.size) : b \in ToSet(la')}
           = (UNION {Pages(b.ptr, b.size) : b \in ToSet(la)})
                \ Unmapped(la[i])
    <3>1. ASSUME NEW p
          PROVE  (\E j \in 1 .. Len(la') : p \in Unmapped(la'[j]))
                   <=> (\E m \in 1 .. Len(la) : p \in Unmapped(la[m]))
                         /\ p \notin Unmapped(la[i])
      <4>1. ASSUME NEW j \in 1 .. Len(la'), p \in Unmapped(la'[j])
            PROVE  (\E m \in 1 .. Len(la) : p \in Unmapped(la[m]))
                     /\ p \notin Unmapped(la[i])
        BY <4>1, <2>4, <2>8
      <4>2. ASSUME NEW m \in 1 .. Len(la), p \in Unmapped(la[m]),
                   p \notin Unmapped(la[i])
            PROVE  \E j \in 1 .. Len(la') : p \in Unmapped(la'[j])
        <5>1. m # i
          BY <4>2
        <5>2. PICK j \in 1 .. Len(la') : old(j) = m
          BY <5>1, <2>6
        <5> QED
          BY <4>2, <5>2, <2>4
      <4> QED
        BY <4>1, <4>2
    <3> QED
      BY <3>1, <2>9, <2>10
  <2>12. LargePagesServed'
    <3>1. ASSUME NEW q \in owned_large'
          PROVE  \E j \in 1 .. Len(la') : la'[j].ptr = q
      <4>1. q \in owned_large /\ q # ptr
        BY <1>1
      <4>2. PICK m \in 1 .. Len(la) : la[m].ptr = q
        BY <4>1 DEF IInv, LargePagesServed
      <4>3. PICK j \in 1 .. Len(la') : old(j) = m
        BY <4>1, <4>2, <2>1, <2>6
      <4> QED
        BY <4>2, <4>3, <2>4
    <3>2. /\ mapped \subseteq HeapBase + HeapPages .. large_heap - 1
          /\ UNION {Pages(b.ptr, b.size) : b \in ToSet(la)} \subseteq mapped
      BY DEF IInv, LargePagesServed
    <3>3. mapped' \subseteq HeapBase + HeapPages .. large_heap' - 1
      BY <3>2, <2>1, <1>1
    <3>4. UNION {Pages(b.ptr, b.size) : b \in ToSet(la')} \subseteq mapped'
      BY <3>2, <2>1, <2>11
    <3> QED
      BY <3>1, <3>3, <3>4 DEF LargePagesServed
  <2>13. Unmapped(la[i]) \subseteq mapped
    BY <2>9 DEF IInv, LargePagesServed
  <2>14. IsFiniteSet(mapped) /\ Cardinality(mapped) \in Nat
    BY LargePagesAreNew
  <2>15. /\ IsFiniteSet(Unmapped(la[i]))
         /\ Cardinality(Unmapped(la[i])) \in Nat
         /\ Cardinality(Unmapped(la[i])) <= Cardinality(mapped)
    BY <2>13, <2>14, FS_Subset, FS_CardinalityType
  <2>16. Cardinality(mapped') = Cardinality(mapped)
                                  - Cardinality(Unmapped(la[i]))
    <3>1. mapped \cap Unmapped(la[i]) = Unmapped(la[i])
      BY <2>13
    <3>2. mapped' = mapped \ Unmapped(la[i])
      BY <2>1
    <3>3. Cardinality(mapped \ Unmapped(la[i]))
            = Cardinality(mapped) - Cardinality(mapped \cap Unmapped(la[i]))
      BY ONLY <2>14, FS_Difference, Zenon
    <3> QED
      BY <3>1, <3>2, <3>3
  <2>17. frames + Cardinality(mapped) = Frames /\ frames \in Nat
    BY DEF IInv, FramesConserved, TypeOK
  <2>18. frames' + Cardinality(mapped') = Frames /\ frames' \in Nat
    BY <2>1, <2>14, <2>15, <2>16, <2>17
  <2>19. FramesConserved'
    <3>1. ~halted => mapped = UNION {Pages(b.ptr, b.size) : b \in ToSet(la)}
      BY DEF IInv, FramesConserved
    <3>2. ~halted' => mapped' = UNION {Pages(b.ptr, b.size) :
                                          b \in ToSet(la')}
      BY <3>1, <2>1, <2>11, <1>1
    <3> QED
      BY <3>2, <2>18 DEF FramesConserved
  <2>20. Descriptors' \subseteq Descriptors
    <3>1. ToSet(la') \subseteq ToSet(la)
      BY <2>2, <2>3, <2>4, InToSet
    <3> QED
      BY <3>1 DEF Descriptors
  <2>21. NoDoubleUse'
    BY <1>1, <1>2, <2>20 DEF IInv, NoDoubleUse
  <2>22. OwnedAreObjects'
    BY <1>1, <1>2, <2>20 DEF IInv, OwnedAreObjects
  <2>23. TypeOK'
    BY <1>1, <2>1, <2>3, <2>18 DEF IInv, TypeOK
  <2> QED
    BY <1>2, <2>7, <2>12, <2>19, <2>21, <2>22, <2>23 DEF IInv
<1> QED
  BY <1>3, <1>4 DEF kfree_large

(* Every step preserves the invariant. *)
LEMMA NextIInv == IInv /\ [Next]_vars => IInv'
<1> SUFFICES ASSUME IInv, [Next]_vars PROVE IInv'
  OBVIOUS
<1>1. ASSUME NEW c \in Cache, kmalloc_asserts(c) PROVE IInv'
  <2>1. /\ halted' = TRUE
        /\ UNCHANGED <<slabs, caches, held, large_heap, large_allocations,
                       owned_large, mapped, frames>>
    BY <1>1 DEF kmalloc_asserts
  <2>2. FreeListsSound' /\ CacheListsSound' /\ OwnedAreObjects'
        /\ NoDoubleUse' /\ RangesApart'
    BY <2>1, SlabsUntouched
  <2> QED
    BY <2>1, <2>2 DEF IInv, TypeOK, LargePagesServed, FramesConserved
<1>2. CASE UNCHANGED vars
  <2>1. FreeListsSound' /\ CacheListsSound' /\ OwnedAreObjects'
        /\ NoDoubleUse' /\ RangesApart'
    BY <1>2, SlabsUntouched DEF vars
  <2> QED
    BY <1>2, <2>1 DEF vars, IInv, TypeOK, LargePagesServed, FramesConserved
<1> QED
  BY <1>1, <1>2, KmallocIInv, KmallocLargeIInv, KmallocLargeAssertsIInv,
     KmallocLargeFailsIInv, KfreeIInv, KfreeLargeIInv DEF Next, Halted

(* IInv is an invariant of the heap. *)
LEMMA Invariant == Spec => []IInv
BY InitIInv, NextIInv, PTL DEF Spec

-----------------------------------------------------------------------------
(* Every variable always has its type. *)
THEOREM TypeCorrect == Spec => []TypeOK
<1>1. IInv => TypeOK
  BY DEF IInv
<1> QED
  BY <1>1, Invariant, PTL

(* kmalloc never returns an object that is in use, whatever the callers    *)
(* allocate and free and in whatever order, up to the assertion that       *)
(* halts the system.                                                       *)
THEOREM ObjectsExclusive == Spec => []NoDoubleUse
<1>1. IInv => NoDoubleUse
  BY DEF IInv
<1> QED
  BY <1>1, Invariant, PTL

(* Every slab is in the list of its size class, once, and in no other. *)
THEOREM SlabsPartitioned == Spec => []CachesPartitionSlabs
<1>1. IInv => CachesPartitionSlabs
  <2> SUFFICES ASSUME IInv, NEW k \in 1 .. Len(slabs), NEW i \in Cache
               PROVE  Cardinality({j \in 1 .. Len(caches[i]) :
                                     caches[i][j] = k})
                        = IF slabs[k].cache = i THEN 1 ELSE 0
    BY DEF CachesPartitionSlabs
  <2> DEFINE at == {j \in 1 .. Len(caches[i]) : caches[i][j] = k}
  <2>1. /\ IsInjective(caches[i])
        /\ ToSet(caches[i]) = {m \in 1 .. Len(slabs) : slabs[m].cache = i}
        /\ caches[i] \in Seq(Nat)
    BY DEF IInv, CacheListsSound, TypeOK
  <2>2. k \in ToSet(caches[i])
          <=> \E j \in 1 .. Len(caches[i]) : caches[i][j] = k
    BY <2>1, InToSet
  <2>3. CASE slabs[k].cache = i
    <3>1. PICK j \in 1 .. Len(caches[i]) : caches[i][j] = k
      BY <2>1, <2>2, <2>3
    <3>2. at = {j}
      BY <3>1, <2>1, LenProperties DEF IsInjective
    <3> QED
      BY <2>3, <3>2, FS_Singleton
  <2>4. CASE slabs[k].cache # i
    <3>1. at = {}
      BY <2>1, <2>2, <2>4
    <3> QED
      BY <2>4, <3>1, FS_EmptySet
  <2> QED
    BY <2>3, <2>4
<1> QED
  BY <1>1, Invariant, PTL

(* The pages of a large allocation a caller owns stay mapped until it      *)
(* frees them; no two large allocations share a page, and none takes a     *)
(* page of a slab.                                                         *)
THEOREM LargeRangesNeverOverlap == Spec => []LargeRangesSound
<1>1. IInv => LargeRangesSound
  <2> SUFFICES ASSUME IInv PROVE LargeRangesSound
    OBVIOUS
  <2> DEFINE la == large_allocations
  <2>1. la \in Seq(LargeAlloc) /\ slabs \in Seq(Slab) /\ Len(slabs) \in Nat
    BY LenProperties DEF IInv, TypeOK
  <2>2. \A a : a \in ToSet(la) <=> \E i \in 1 .. Len(la) : la[i] = a
    BY <2>1, InToSet
  <2>3. \A i \in 1 .. Len(la) : Unmapped(la[i]) \subseteq mapped
    BY <2>1, ListedPagesAre DEF IInv, LargePagesServed
  <2>4. ASSUME NEW ptr \in owned_large
        PROVE  \E a \in ToSet(la) :
                 a.ptr = ptr /\ Pages(a.ptr, a.size) \subseteq mapped
    <3>1. PICK i \in 1 .. Len(la) : la[i].ptr = ptr
      BY DEF IInv, LargePagesServed
    <3> QED
      BY <3>1, <2>2, <2>3 DEF Unmapped
  <2>5. ASSUME NEW a \in ToSet(la), NEW b \in ToSet(la), a # b
        PROVE  Pages(a.ptr, a.size) \cap Pages(b.ptr, b.size) = {}
    <3>1. PICK i \in 1 .. Len(la), j \in 1 .. Len(la) :
            la[i] = a /\ la[j] = b
      BY <2>2
    <3> QED
      BY <2>5, <3>1 DEF IInv, RangesApart, Unmapped
  <2>6. ASSUME NEW k \in 1 .. Len(slabs) PROVE SlabPage(k) \notin mapped
    <3>1. /\ mapped \subseteq HeapBase + HeapPages .. large_heap - 1
          /\ large_heap <= HeapBase + HeapPages + MaxLargePages
          /\ large_heap \in Int
      BY KmallocAssumption DEF IInv, LargePagesServed, TypeOK, HeapPages
    <3>2. HeapPages \in Nat /\ MaxLargePages \in Nat /\ HeapBase \in Nat
          /\ HeapPages + MaxLargePages <= HeapBase
      BY KmallocAssumption, LargeBoundAssumption DEF HeapPages
    <3>3. SlabPage(k) \in Nat /\ SlabPage(k) >= large_heap
      BY <2>1, <3>1, <3>2 DEF SlabPage, SlabFrame
    <3> QED
      BY <3>1, <3>3
  <2> QED
    BY <2>4, <2>5, <2>6 DEF LargeRangesSound
<1> QED
  BY <1>1, Invariant, PTL

(* No frame is lost or gained by a large request, served, failed half-way  *)
(* or freed.                                                               *)
THEOREM FramesNeverLost == Spec => []FramesConserved
<1>1. IInv => FramesConserved
  BY DEF IInv
<1> QED
  BY <1>1, Invariant, PTL
=============================================================================
