-------------------------- MODULE GPUResourcesProofs --------------------------
(***************************************************************************)
(* Proofs about the memory and the bindless SRVs of GPU resources.         *)
(*                                                                         *)
(* Heaps (HeapIsDividedUp).  Little is known of the free lists of the      *)
(* allocator; but whatever they hold, linking and unlinking blocks changes *)
(* no block's place, size or neighbours, unless a pointer to a deleted     *)
(* block is followed (SameBlocks, Lost).  So only the division of the heap *)
(* into blocks counts (Geometry): a block that is cut (SplitLower,         *)
(* SplitUpper) or takes in its neighbour (Absorb) leaves it a division.  A *)
(* merge first makes a division of the blocks but the one that is to be    *)
(* deleted, which stays a block until it is erased: Parted is about the    *)
(* blocks of a set.  The blocks in use are those of the allocations of the *)
(* heap (HeapRight), also while DeleteUnusedAllocations goes through them, *)
(* one after the other (Collected).                                        *)
(*                                                                         *)
(* Sub-allocations (SubAllocationsKeepTheirData).  The same allocator; but *)
(* the block of a reservation is returned twice, and other blocks may take *)
(* in their neighbours between the first and the second return.  Returned  *)
(* again, a block that still exists is free, and no block changes          *)
(* (DeletedTwice); of one that does not, the pointer is followed.  So the  *)
(* reservations that are kept keep their blocks (Visited).  What was       *)
(* written last at a handle is in the buffer, with no request on its way   *)
(* to the same bytes, or is the last such request (Stays).                 *)
(*                                                                         *)
(* Bindless SRVs (BindlessSRVsAreCurrent).  Every index is free once or    *)
(* taken once: the queue of free ones, the sentinels of the resources and  *)
(* the SRVs under construction have no index in common, and leave none out.*)
(* The descriptor of a described SRV follows its resource, since the lock  *)
(* of the descriptors keeps one from being described while they all are.   *)
(***************************************************************************)
EXTENDS GPUResourceHeap, BufferSubAllocations, BindlessSRVs, FiniteSetTheorems, SequenceTheorems,
        WellFoundedInduction, TLAPS

-----------------------------------------------------------------------------
(* Facts about numbers.                                                      *)

\* The sets 0 .. n, of the numbers n of S, are finite, so one of them is minimal.
LEMMA LeastNatural ==
    ASSUME NEW S \in SUBSET Nat, S # {}
    PROVE  \E m \in S : \A n \in S : m <= n
<1> DEFINE T == {0 .. n : n \in S}
<1>1. \A n \in S : IsFiniteSet(0 .. n) /\ 0 .. n \subseteq Nat
  BY FS_Interval
<1>2. T \subseteq FiniteSubsetsOf(Nat) /\ T # {}
  BY <1>1 DEF FiniteSubsetsOf
<1>3. \E X \in T : \A Y \in T : ~(<<Y, X>> \in StrictSubsetOrdering(Nat))
  <2> HIDE DEF T
  <2> QED BY <1>2, WFMin, FS_StrictSubsetOrderingWellFounded
<1>4. PICK m \in S : \A n \in S : ~(<<0 .. n, 0 .. m>> \in StrictSubsetOrdering(Nat))
  BY <1>3
<1>5. ASSUME NEW n \in S, n < m PROVE FALSE
  <2>1. m \in 0 .. m /\ m \notin 0 .. n
    BY <1>5
  <2>2. 0 .. n \subseteq 0 .. m /\ 0 .. n # 0 .. m /\ 0 .. n \subseteq Nat /\ 0 .. m \subseteq Nat
    BY <2>1, <1>5
  <2> QED BY <2>2, <1>4 DEF StrictSubsetOrdering
<1> QED BY <1>5

LEMMA Multiple ==
    ASSUME NEW k \in Nat, NEW m \in Nat \ {0}
    PROVE  (m * k) % m = 0
  OBVIOUS

LEMMA Divided ==
    ASSUME NEW x \in Nat, NEW m \in Nat \ {0}
    PROVE  x % m \in 0 .. m - 1 /\ x \div m \in Nat /\ x = m * (x \div m) + (x % m)
<1>1. x \in Int /\ m \in Int /\ m > 0
  OBVIOUS
<1>2. x % m \in 0 .. m - 1
  BY <1>1
<1>3. x \div m \in Int
  BY <1>1
<1>4. x = m * (x \div m) + (x % m)
  OBVIOUS
<1>5. x \div m >= 0
  BY <1>1
<1>6. x \div m \in Nat
  <2> DEFINE d == x \div m
  <2> HIDE DEF d
  <2> QED BY <1>3, <1>5 DEF d
<1> QED BY <1>2, <1>4, <1>6

\* Padding brings an offset to the next multiple of the alignment.
LEMMA Aligned ==
    ASSUME NEW x \in Nat, NEW m \in Nat \ {0}
    PROVE  LET d == (m - (x % m)) % m IN d \in Nat /\ (x + d) % m = 0
<1> DEFINE r == x % m
           k == x \div m
           d == (m - r) % m
<1>1. r \in 0 .. m - 1 /\ k \in Nat /\ x = m * k + r
  BY Divided
<1>2. CASE r = 0
  <2>1. d = 0
    <3>1. m * 1 = m /\ 1 \in Nat OBVIOUS
    <3>2. (m * 1) % m = 0 BY Multiple
    <3> QED BY <3>1, <3>2, <1>2
  <2>2. x + d = m * k
    BY <1>1, <1>2, <2>1
  <2>3. (m * k) % m = 0
    BY <1>1, Multiple
  <2> QED BY <2>1, <2>2, <2>3
<1>3. CASE r # 0
  <2>1. d = m - r
    <3>1. m - r \in 0 .. m - 1
      BY <1>1, <1>3
    <3> HIDE DEF r
    <3> QED BY <3>1
  <2>2. x + d = m * (k + 1) /\ k + 1 \in Nat
    BY <1>1, <2>1
  <2>3. (m * (k + 1)) % m = 0
    BY <2>2, Multiple
  <2>4. d \in Nat
    BY <1>1, <2>1
  <2> QED BY <2>2, <2>3, <2>4
<1> QED BY <1>2, <1>3

-----------------------------------------------------------------------------
(* Allocators.  One that has followed a pointer it should not have is lost:  *)
(* nothing is said of it, but that it stays so.                              *)

Records ==
    [offset : Nat, size : Nat \ {0}, free : BOOLEAN,
     prevPhysical : Blocks \cup {Null}, nextPhysical : Blocks \cup {Null},
     prevFree : Blocks \cup {Null, Junk}, nextFree : Blocks \cup {Null, Junk}]

IsAllocator(a) ==
    a = [block |-> a.block, list |-> a.list, refreed |-> a.refreed, corrupt |-> a.corrupt]
Lost(a) == IsAllocator(a) /\ a.corrupt = TRUE
Sound(a) ==
    /\ IsAllocator(a) /\ a.corrupt = FALSE
    /\ DOMAIN a.block \subseteq Blocks /\ a.block \in [DOMAIN a.block -> Records]

\* Two blocks that differ at most in the free list they are in.
SameBlock(p, q) ==
    /\ p.offset = q.offset /\ p.size = q.size /\ p.free = q.free
    /\ p.prevPhysical = q.prevPhysical /\ p.nextPhysical = q.nextPhysical
SameBlocks(a, c) ==
    /\ Sound(c) /\ DOMAIN c.block = DOMAIN a.block
    /\ \A p \in DOMAIN a.block : SameBlock(c.block[p], a.block[p])

LEMMA MakesSound ==
    ASSUME NEW D \in SUBSET Blocks, NEW block \in [D -> Records], NEW list, NEW refreed
    PROVE  Sound([block |-> block, list |-> list, refreed |-> refreed, corrupt |-> FALSE])
<1> DEFINE a == [block |-> block, list |-> list, refreed |-> refreed, corrupt |-> FALSE]
<1>1. a.block = block /\ DOMAIN a.block = D
  OBVIOUS
<1>2. IsAllocator(a) /\ a.corrupt = FALSE
  BY DEF IsAllocator
<1> QED BY <1>1, <1>2 DEF Sound

LEMMA SameBlocksTwice ==
    ASSUME NEW a, NEW c, NEW d, Lost(c) \/ SameBlocks(a, c),
           Lost(c) => Lost(d), Sound(c) => Lost(d) \/ SameBlocks(c, d)
    PROVE  Lost(d) \/ SameBlocks(a, d)
  BY DEF SameBlocks, SameBlock

LEMMA LostStays ==
    ASSUME NEW a, Lost(a), NEW p, NEW f, NEW v
    PROVE  Lost(Store(a, p, f, v)) /\ Lost(StoreUnlessNull(a, p, f, v))
<1>1. PICK block, list, refreed :
          a = [block |-> block, list |-> list, refreed |-> refreed, corrupt |-> TRUE]
  BY DEF Lost, IsAllocator
<1> QED BY <1>1 DEF Lost, IsAllocator, Store, StoreUnlessNull, Corrupted

\* An assignment to a pointer of a block that is there.
LEMMA Stored ==
    ASSUME NEW a, Sound(a), NEW p \in DOMAIN a.block,
           NEW f \in {"prevFree", "nextFree", "prevPhysical", "nextPhysical"},
           NEW v \in Blocks \cup {Null}
    PROVE  /\ Sound(Store(a, p, f, v)) /\ DOMAIN Store(a, p, f, v).block = DOMAIN a.block
           /\ Store(a, p, f, v).block = [a.block EXCEPT ![p] = [@ EXCEPT ![f] = v]]
<1>1. PICK block, list, refreed :
          a = [block |-> block, list |-> list, refreed |-> refreed, corrupt |-> FALSE]
  BY DEF Sound, IsAllocator
<1>2. a.block = block /\ block \in [DOMAIN block -> Records] /\ p \in DOMAIN block
  BY <1>1 DEF Sound
<1>3. Store(a, p, f, v) = [block |-> [block EXCEPT ![p] = [@ EXCEPT ![f] = v]],
                           list |-> list, refreed |-> refreed, corrupt |-> FALSE]
  BY <1>1, <1>2 DEF Store, Live
<1>4. [block[p] EXCEPT ![f] = v] \in Records
  BY <1>2 DEF Records
<1>5. [block EXCEPT ![p] = [@ EXCEPT ![f] = v]] \in [DOMAIN block -> Records]
  BY <1>2, <1>4
<1>6. DOMAIN block \in SUBSET Blocks
  BY <1>1 DEF Sound
<1>7. Sound(Store(a, p, f, v))
  BY <1>3, <1>5, <1>6, MakesSound
<1>8. Store(a, p, f, v).block = [block EXCEPT ![p] = [@ EXCEPT ![f] = v]]
  BY <1>3
<1>9. DOMAIN Store(a, p, f, v).block = DOMAIN block
  BY <1>8
<1> QED BY <1>2, <1>7, <1>8, <1>9

LEMMA LinkStored ==
    ASSUME NEW a, Sound(a), NEW p, NEW f \in {"prevFree", "nextFree"},
           NEW v \in Blocks \cup {Null, Junk}
    PROVE  Lost(Store(a, p, f, v)) \/ SameBlocks(a, Store(a, p, f, v))
<1>1. PICK block, list, refreed :
          a = [block |-> block, list |-> list, refreed |-> refreed, corrupt |-> FALSE]
  BY DEF Sound, IsAllocator
<1>2. a.block = block /\ block \in [DOMAIN block -> Records]
  BY <1>1 DEF Sound
<1>3. CASE p \notin DOMAIN block
  BY <1>1, <1>3 DEF Lost, IsAllocator, Store, Live, Corrupted
<1>4. CASE p \in DOMAIN block
  <2> DEFINE new == [block EXCEPT ![p] = [@ EXCEPT ![f] = v]]
  <2>1. Store(a, p, f, v) = [block |-> new,
                             list |-> list, refreed |-> refreed, corrupt |-> FALSE]
    BY <1>1, <1>2, <1>4 DEF Store, Live
  <2>2. [block[p] EXCEPT ![f] = v] \in Records /\ SameBlock([block[p] EXCEPT ![f] = v], block[p])
    BY <1>2, <1>4 DEF Records, SameBlock
  <2>3. /\ new \in [DOMAIN block -> Records]
        /\ \A q \in DOMAIN block : SameBlock(new[q], block[q])
    BY <1>2, <1>4, <2>2 DEF SameBlock
  <2> HIDE DEF new
  <2>4. DOMAIN block \in SUBSET Blocks
    BY <1>1 DEF Sound
  <2>5. Sound(Store(a, p, f, v))
    BY <2>1, <2>3, <2>4, MakesSound
  <2>6. Store(a, p, f, v).block = new
    BY <2>1
  <2> QED BY <1>2, <2>3, <2>5, <2>6 DEF SameBlocks
<1> QED BY <1>3, <1>4

LEMMA LinkStoredUnlessNull ==
    ASSUME NEW a, Sound(a), NEW p, NEW f \in {"prevFree", "nextFree"},
           NEW v \in Blocks \cup {Null, Junk}
    PROVE  Lost(StoreUnlessNull(a, p, f, v)) \/ SameBlocks(a, StoreUnlessNull(a, p, f, v))
<1>1. CASE p = Null
  BY <1>1 DEF StoreUnlessNull, SameBlocks, SameBlock
<1>2. CASE p # Null
  BY <1>2, LinkStored DEF StoreUnlessNull
<1> QED BY <1>1, <1>2

-----------------------------------------------------------------------------
(* The free lists: whatever state they are in, taking a block out of them or *)
(* putting it into them leaves the blocks as they are.                       *)

LEMMA ListStored ==
    ASSUME NEW a, NEW c, NEW b
    PROVE  /\ Lost(a) => Lost([a EXCEPT !.list[c] = b])
           /\ Sound(a) => SameBlocks(a, [a EXCEPT !.list[c] = b])
<1>1. ASSUME IsAllocator(a)
      PROVE  [a EXCEPT !.list[c] = b] = [block |-> a.block, list |-> [a.list EXCEPT ![c] = b],
                                         refreed |-> a.refreed, corrupt |-> a.corrupt]
  <2>1. PICK block, list, refreed, corrupt :
            a = [block |-> block, list |-> list, refreed |-> refreed, corrupt |-> corrupt]
    BY <1>1 DEF IsAllocator
  <2> QED BY <2>1
<1> QED BY <1>1 DEF Lost, Sound, IsAllocator, SameBlocks, SameBlock

LEMMA Inserted ==
    ASSUME NEW a, NEW b
    PROVE  /\ Lost(a) => Lost(InsertBlock(a, b))
           /\ Sound(a) /\ b \in DOMAIN a.block =>
                  Lost(InsertBlock(a, b)) \/ SameBlocks(a, InsertBlock(a, b))
<1> DEFINE c == PoolSearchInfo(a.block[b].size)
           h == a.list[c]
           first == Store(a, h, "prevFree", b)
           linked == IF h = Null THEN a ELSE Store(first, b, "nextFree", h)
<1>1. InsertBlock(a, b) = [linked EXCEPT !.list[c] = b]
  BY DEF InsertBlock
<1> HIDE DEF c
<1>2. Lost(a) => Lost(linked)
  BY LostStays
<1>3. ASSUME Sound(a), b \in DOMAIN a.block
      PROVE  Lost(linked) \/ SameBlocks(a, linked)
  <2>1. CASE h = Null
    BY <1>3, <2>1 DEF SameBlocks, SameBlock
  <2>2. CASE h # Null
    <3>1. Lost(first) \/ SameBlocks(a, first)
      BY <1>3, LinkStored DEF Sound
    <3>2. CASE h \notin DOMAIN a.block
      <4>1. Lost(first)
        BY <1>3, <3>2 DEF Store, Live, Corrupted, Lost, Sound, IsAllocator
      <4> QED BY <4>1, <2>2, LostStays
    <3>3. CASE h \in DOMAIN a.block
      <4>1. h \in Blocks
        BY <1>3, <3>3 DEF Sound
      <4>2. Sound(first) => Lost(linked) \/ SameBlocks(first, linked)
        BY <4>1, <2>2, LinkStored
      <4>3. Lost(first) => Lost(linked)
        BY <2>2, LostStays
      <4> HIDE DEF first, linked
      <4> QED BY <3>1, <4>2, <4>3, SameBlocksTwice
    <3> QED BY <3>2, <3>3
  <2> QED BY <2>1, <2>2
<1> HIDE DEF linked, h
<1>4. Sound(linked) => SameBlocks(linked, [linked EXCEPT !.list[c] = b])
  BY ListStored
<1>5. Lost(linked) => Lost([linked EXCEPT !.list[c] = b])
  BY ListStored
<1> QED BY <1>1, <1>2, <1>3, <1>4, <1>5, SameBlocksTwice

LEMMA HeadRemoved ==
    ASSUME NEW a, NEW c, Sound(a), a.list[c] \in DOMAIN a.block
    PROVE  Lost(RemoveHead(a, c)) \/ SameBlocks(a, RemoveHead(a, c))
<1> DEFINE next == a.block[a.list[c]].nextFree
           short == [a EXCEPT !.list[c] = next]
<1>1. RemoveHead(a, c) = StoreUnlessNull(short, next, "prevFree", Null)
  BY DEF RemoveHead
<1>2. SameBlocks(a, short)
  BY ListStored
<1> HIDE DEF short, next
<1>3. Sound(short) => Lost(RemoveHead(a, c)) \/ SameBlocks(short, RemoveHead(a, c))
  BY <1>1, LinkStoredUnlessNull
<1>4. Lost(short) => Lost(RemoveHead(a, c))
  BY <1>1, LostStays
<1> QED BY <1>2, <1>3, <1>4, SameBlocksTwice

LEMMA MergedRemoved ==
    ASSUME NEW a, NEW b, Sound(a), b \in DOMAIN a.block
    PROVE  Lost(RemoveMergedBlock(a, b)) \/ SameBlocks(a, RemoveMergedBlock(a, b))
  BY HeadRemoved DEF RemoveMergedBlock, SameBlocks, SameBlock
-----------------------------------------------------------------------------
(* The blocks of the set S divide the heap up.                               *)

Behind(blk, p) == blk[p].offset + blk[p].size

Geometry(S, blk) ==
    /\ \A p \in S : blk[p] \in Records /\ Behind(blk, p) <= HeapSizeInBytes
    /\ \A x \in 0 .. HeapSizeInBytes - 1 :
          \E p \in S : blk[p].offset <= x /\ x < Behind(blk, p)
    /\ \A p, q \in S : p # q =>
          Behind(blk, p) <= blk[q].offset \/ Behind(blk, q) <= blk[p].offset
    /\ \A p \in S :
          IF blk[p].nextPhysical = Null THEN Behind(blk, p) = HeapSizeInBytes
          ELSE blk[p].nextPhysical \in S /\ blk[blk[p].nextPhysical].offset = Behind(blk, p)
    /\ \A p \in S :
          IF blk[p].prevPhysical = Null THEN blk[p].offset = 0
          ELSE blk[p].prevPhysical \in S /\ Behind(blk, blk[p].prevPhysical) = blk[p].offset

Coalesced(S, blk) ==
    \A p \in S : blk[p].nextPhysical # Null => ~(blk[p].free /\ blk[blk[p].nextPhysical].free)

\* The next one of one block is the one whose previous one it is.
LEMMA Neighbours ==
    ASSUME NEW S, NEW blk, Geometry(S, blk), Null \notin S, NEW p \in S, NEW q \in S
    PROVE  blk[p].nextPhysical = q <=> blk[q].prevPhysical = p
<1> DEFINE o(r) == blk[r].offset
           e(r) == Behind(blk, r)
<1>1. \A r \in S : o(r) \in Nat /\ e(r) \in Nat /\ o(r) < e(r) /\ e(r) <= HeapSizeInBytes
  BY DEF Geometry, Behind, Records
<1>2. \A r, s \in S : r # s => e(r) <= o(s) \/ e(s) <= o(r)
  BY DEF Geometry
<1>3. blk[p].nextPhysical = q => o(q) = e(p)
  BY DEF Geometry
<1>4. blk[q].prevPhysical = p => o(q) = e(p)
  BY DEF Geometry
<1>5. /\ blk[p].nextPhysical = Null => e(p) = HeapSizeInBytes
      /\ blk[p].nextPhysical # Null => blk[p].nextPhysical \in S /\ o(blk[p].nextPhysical) = e(p)
  BY DEF Geometry
<1>6. /\ blk[q].prevPhysical = Null => o(q) = 0
      /\ blk[q].prevPhysical # Null => blk[q].prevPhysical \in S /\ e(blk[q].prevPhysical) = o(q)
  BY DEF Geometry
<1> HIDE DEF o, e
<1>7. ASSUME o(q) = e(p) PROVE blk[p].nextPhysical = q
  BY <1>1, <1>2, <1>5, <1>7, TLSFAssumption
<1>8. ASSUME o(q) = e(p) PROVE blk[q].prevPhysical = p
  BY <1>1, <1>2, <1>6, <1>8
<1> QED BY <1>3, <1>4, <1>7, <1>8

\* Geometry and Coalesced say nothing about the free lists.
LEMMA SameGeometry ==
    ASSUME NEW S, NEW blk, NEW new, Geometry(S, blk),
           \A p \in S : /\ new[p] \in Records
                        /\ new[p].offset = blk[p].offset /\ new[p].size = blk[p].size
                        /\ new[p].nextPhysical = blk[p].nextPhysical
                        /\ new[p].prevPhysical = blk[p].prevPhysical
    PROVE  Geometry(S, new)
<1>1. \A p \in S : Behind(new, p) = Behind(blk, p)
  BY DEF Behind
<1> QED BY <1>1 DEF Geometry

\* Block l of blk has become that of new by taking in r.
Absorbs(S, blk, new, l, r) ==
    \A p \in S \ {r} :
        /\ new[p] \in Records /\ new[p].offset = blk[p].offset
        /\ new[p].size = IF p = l THEN blk[l].size + blk[r].size ELSE blk[p].size
        /\ new[p].nextPhysical = blk[IF p = l THEN r ELSE p].nextPhysical
        /\ new[p].prevPhysical = IF p = blk[r].nextPhysical THEN l ELSE blk[p].prevPhysical

\* Block l takes in its next one, r.
LEMMA Absorb ==
    ASSUME NEW S, NEW blk, NEW new, Geometry(S, blk), Null \notin S,
           NEW l \in S, NEW r \in S, blk[l].nextPhysical = r, Absorbs(S, blk, new, l, r)
    PROVE  l # r /\ Geometry(S \ {r}, new)
<1> USE DEF Absorbs
<1> DEFINE o(p) == blk[p].offset
           e(p) == Behind(blk, p)
           n(p) == Behind(new, p)
           x == blk[r].nextPhysical
<1>1. \A p \in S : o(p) \in Nat /\ e(p) \in Nat /\ o(p) < e(p) /\ e(p) <= HeapSizeInBytes
  BY DEF Geometry, Behind, Records
<1>2. o(r) = e(l) /\ l # r /\ blk[r].prevPhysical = l
  <2>1. o(r) = e(l)
    BY DEF Geometry
  <2>2. blk[r].prevPhysical = l
    BY Neighbours
  <2> QED BY <1>1, <2>1, <2>2
<1>3. \A p \in S \ {r} : n(p) = IF p = l THEN e(r) ELSE e(p)
  <2>1. blk[l] \in Records /\ blk[r] \in Records
    BY DEF Geometry
  <2>2. blk[l].offset + (blk[l].size + blk[r].size) = blk[l].offset + blk[l].size + blk[r].size
    BY <2>1 DEF Records
  <2> QED BY <1>2, <2>2 DEF Behind
<1>4. \A p, q \in S : p # q => e(p) <= o(q) \/ e(q) <= o(p)
  BY DEF Geometry
<1>5. \A p \in S : /\ x = p => blk[p].prevPhysical = r
                   /\ blk[p].prevPhysical = r => x = p
  BY Neighbours
<1>6. \A p \in S : IF blk[p].nextPhysical = Null THEN e(p) = HeapSizeInBytes
                   ELSE blk[p].nextPhysical \in S /\ o(blk[p].nextPhysical) = e(p)
  BY DEF Geometry
<1>7. \A p \in S : IF blk[p].prevPhysical = Null THEN o(p) = 0
                   ELSE blk[p].prevPhysical \in S /\ e(blk[p].prevPhysical) = o(p)
  BY DEF Geometry
<1>8. \A p \in S : blk[p].nextPhysical = r <=> p = l
  BY <1>2, Neighbours
<1>9. x # r
  BY <1>1, <1>2, <1>5
<1>10. \A y \in 0 .. HeapSizeInBytes - 1 : \E p \in S : o(p) <= y /\ y < e(p)
  BY DEF Geometry
<1>11. \A p \in S \ {r} : /\ new[p] \in Records /\ new[p].offset = o(p)
                          /\ p # l => new[p].nextPhysical = blk[p].nextPhysical
                          /\ new[l].nextPhysical = x
                          /\ p = x => new[p].prevPhysical = l
                          /\ p # x => new[p].prevPhysical = blk[p].prevPhysical
  BY <1>2
<1> HIDE DEF o, e, n, x
<1>12. \A p \in S \ {r} : n(p) <= HeapSizeInBytes
  BY <1>1, <1>3
<1>13. ASSUME NEW y \in 0 .. HeapSizeInBytes - 1
       PROVE  \E p \in S \ {r} : o(p) <= y /\ y < n(p)
  <2>1. PICK p \in S : o(p) <= y /\ y < e(p)
    BY <1>10
  <2>2. CASE p = r
    BY <2>1, <2>2, <1>1, <1>2, <1>3, TLSFAssumption
  <2>3. CASE p # r
    BY <2>1, <2>3, <1>1, <1>2, <1>3, TLSFAssumption
  <2> QED BY <2>2, <2>3
<1>14. ASSUME NEW p \in S \ {r}, NEW q \in S \ {r}, p # q
       PROVE  n(p) <= o(q) \/ n(q) <= o(p)
  BY <1>14, <1>1, <1>2, <1>3, <1>4
<1>15. ASSUME NEW p \in S \ {r}
       PROVE  IF new[p].nextPhysical = Null THEN n(p) = HeapSizeInBytes
              ELSE new[p].nextPhysical \in S \ {r} /\ o(new[p].nextPhysical) = n(p)
  <2>1. CASE p = l
    BY <2>1, <1>2, <1>3, <1>6, <1>9, <1>11 DEF x
  <2>2. CASE p # l
    BY <2>2, <1>3, <1>6, <1>8, <1>11
  <2> QED BY <2>1, <2>2
<1>16. ASSUME NEW p \in S \ {r}
       PROVE  IF new[p].prevPhysical = Null THEN o(p) = 0
              ELSE new[p].prevPhysical \in S \ {r} /\ n(new[p].prevPhysical) = o(p)
  <2>1. CASE p = x
    <3>1. o(p) = e(r)
      BY <2>1, <1>6 DEF x
    <3>2. new[p].prevPhysical = l /\ l \in S \ {r}
      BY <2>1, <1>2, <1>11
    <3>3. n(l) = e(r)
      BY <1>2, <1>3
    <3> QED BY <3>1, <3>2, <3>3
  <2>2. CASE p # x
    <3>1. blk[p].prevPhysical # r /\ new[p].prevPhysical = blk[p].prevPhysical
      BY <2>2, <1>5, <1>11
    <3>2. CASE blk[p].prevPhysical = l
      <4>1. blk[l].nextPhysical = p
        BY <3>2, Neighbours
      <4> QED BY <4>1, <1>8
    <3>3. CASE blk[p].prevPhysical # l
      BY <3>1, <3>3, <1>3, <1>7
    <3> QED BY <3>2, <3>3
  <2> QED BY <2>1, <2>2
<1>17. \A p \in S \ {r} :
          IF new[p].nextPhysical = Null THEN n(p) = HeapSizeInBytes
          ELSE new[p].nextPhysical \in S \ {r} /\ new[new[p].nextPhysical].offset = n(p)
  BY <1>11, <1>15
<1>18. \A p, q \in S \ {r} : p # q => n(p) <= new[q].offset \/ n(q) <= new[p].offset
  BY <1>11, <1>14
<1>19. \A y \in 0 .. HeapSizeInBytes - 1 : \E p \in S \ {r} : new[p].offset <= y /\ y < n(p)
  BY <1>11, <1>13
<1>20. \A p \in S \ {r} :
          IF new[p].prevPhysical = Null THEN new[p].offset = 0
          ELSE new[p].prevPhysical \in S \ {r} /\ n(new[p].prevPhysical) = new[p].offset
  BY <1>11, <1>16
<1> QED BY <1>2, <1>11, <1>12, <1>17, <1>18, <1>19, <1>20 DEF Geometry, n

\* Block l keeps its lower part, and a new block r gets the rest.
LEMMA SplitUpper ==
    ASSUME NEW S, NEW blk, NEW new, Geometry(S, blk), Null \notin S,
           NEW l \in S, NEW r, r \notin S, r # Null,
           \A p \in S :
              /\ new[p] \in Records /\ new[p].offset = blk[p].offset
              /\ p # l => new[p].size = blk[p].size
              /\ new[p].nextPhysical = IF p = l THEN r ELSE blk[p].nextPhysical
              /\ new[p].prevPhysical = IF p = blk[l].nextPhysical THEN r ELSE blk[p].prevPhysical,
           new[r] \in Records, new[r].offset = Behind(new, l),
           new[r].size = blk[l].size - new[l].size,
           new[r].nextPhysical = blk[l].nextPhysical, new[r].prevPhysical = l
    PROVE  Geometry(S \cup {r}, new)
<1> DEFINE o(p) == blk[p].offset
           e(p) == Behind(blk, p)
           m(p) == new[p].offset
           n(p) == Behind(new, p)
           x == blk[l].nextPhysical
           N(p) == new[p].nextPhysical
           P(p) == new[p].prevPhysical
<1>1. /\ \A p \in S : o(p) \in Nat /\ e(p) \in Nat /\ o(p) < e(p) /\ e(p) <= HeapSizeInBytes
      /\ \A p \in S \cup {r} : m(p) \in Nat /\ n(p) \in Nat /\ m(p) < n(p)
  BY DEF Geometry, Behind, Records
<1>2. \A p \in S \ {l} : m(p) = o(p) /\ n(p) = e(p)
  BY DEF Behind
<1>3. m(l) = o(l) /\ m(r) = n(l) /\ n(r) = e(l)
  <2>1. blk[l] \in Records /\ new[l] \in Records
    BY DEF Geometry
  <2> QED BY <2>1 DEF Behind, Records
<1>4. \A p, q \in S : p # q => e(p) <= o(q) \/ e(q) <= o(p)
  BY DEF Geometry
<1>5. \A p \in S : blk[p].nextPhysical = x /\ x # Null => p = l
  <2>1. ASSUME NEW p \in S, blk[p].nextPhysical = x, x # Null PROVE p = l
    <3>1. x \in S
      BY <2>1 DEF Geometry
    <3> QED BY <3>1, <2>1, Neighbours
  <2> QED BY <2>1
<1>6. \A p \in S : IF blk[p].nextPhysical = Null THEN e(p) = HeapSizeInBytes
                   ELSE blk[p].nextPhysical \in S /\ o(blk[p].nextPhysical) = e(p)
  BY DEF Geometry
<1>7. \A p \in S : IF blk[p].prevPhysical = Null THEN o(p) = 0
                   ELSE blk[p].prevPhysical \in S /\ e(blk[p].prevPhysical) = o(p)
  BY DEF Geometry
<1>8. \A p \in S : blk[p].prevPhysical = l => p = x
  BY Neighbours
<1>9. \A y \in 0 .. HeapSizeInBytes - 1 : \E p \in S : o(p) <= y /\ y < e(p)
  BY DEF Geometry
<1>10. /\ N(l) = r /\ N(r) = x /\ \A p \in S \ {l} : N(p) = blk[p].nextPhysical
       /\ P(r) = l
       /\ x \in S => P(x) = r
       /\ \A p \in S \ {x} : P(p) = blk[p].prevPhysical
  OBVIOUS
<1> HIDE DEF o, e, m, n, x, N, P
<1>11. (x = Null /\ e(l) = HeapSizeInBytes) \/ (x \in S \ {l} /\ o(x) = e(l))
  <2>1. IF x = Null THEN e(l) = HeapSizeInBytes ELSE x \in S /\ o(x) = e(l)
    BY <1>6 DEF x
  <2>2. o(l) < e(l)
    BY <1>1
  <2>3. x # l \/ x = Null
    BY <2>1, <2>2, <1>1
  <2> QED BY <2>1, <2>3
<1>12. ASSUME NEW p \in S \cup {r} PROVE new[p] \in Records /\ n(p) <= HeapSizeInBytes
  BY <1>1, <1>2, <1>3, TLSFAssumption
<1>13. ASSUME NEW y \in 0 .. HeapSizeInBytes - 1
       PROVE  \E p \in S \cup {r} : m(p) <= y /\ y < n(p)
  <2>1. PICK p \in S : o(p) <= y /\ y < e(p)
    BY <1>9
  <2>2. CASE p = l
    BY <2>1, <2>2, <1>1, <1>3, TLSFAssumption
  <2>3. CASE p # l
    BY <2>1, <2>3, <1>2
  <2> QED BY <2>2, <2>3
<1>14. ASSUME NEW p \in S \cup {r}, NEW q \in S \cup {r}, p # q
       PROVE  n(p) <= m(q) \/ n(q) <= m(p)
  <2>1. CASE p # r /\ q # r
    BY <2>1, <1>14, <1>1, <1>2, <1>3, <1>4
  <2>2. CASE p = r /\ q # r
    BY <2>2, <1>1, <1>2, <1>3, <1>4
  <2>3. CASE p # r /\ q = r
    BY <2>3, <1>1, <1>2, <1>3, <1>4
  <2> QED BY <1>14, <2>1, <2>2, <2>3
<1>15. ASSUME NEW p \in S \cup {r}
       PROVE  IF N(p) = Null THEN n(p) = HeapSizeInBytes
              ELSE N(p) \in S \cup {r} /\ m(N(p)) = n(p)
  <2>1. CASE p = l
    BY <2>1, <1>3, <1>10
  <2>2. CASE p = r
    BY <2>2, <1>2, <1>3, <1>10, <1>11
  <2>3. CASE p \in S \ {l}
    <3>1. N(p) = blk[p].nextPhysical /\ n(p) = e(p)
      BY <2>3, <1>2, <1>10
    <3>2. N(p) # Null => N(p) \in S /\ o(N(p)) = e(p)
      BY <3>1, <2>3, <1>6
    <3>3. N(p) # Null => m(N(p)) = o(N(p))
      BY <3>2, <1>2, <1>3
    <3> QED BY <3>1, <3>2, <3>3, <2>3, <1>6
  <2> QED BY <2>1, <2>2, <2>3
<1>16. ASSUME NEW p \in S \cup {r}
       PROVE  IF P(p) = Null THEN m(p) = 0 ELSE P(p) \in S \cup {r} /\ n(P(p)) = m(p)
  <2>1. CASE p = r
    BY <2>1, <1>3, <1>10
  <2>2. CASE p = x /\ p # r
    <3>1. P(p) = r /\ m(p) = e(l)
      BY <2>2, <1>2, <1>10, <1>11
    <3> QED BY <3>1, <1>3
  <2>3. CASE p \in S \ {x}
    <3>1. P(p) = blk[p].prevPhysical /\ P(p) # l /\ m(p) = o(p)
      BY <2>3, <1>2, <1>3, <1>8, <1>10
    <3>2. P(p) # Null => P(p) \in S /\ e(P(p)) = o(p)
      BY <3>1, <2>3, <1>7
    <3>3. P(p) # Null => n(P(p)) = e(P(p))
      BY <3>1, <3>2, <1>2
    <3> QED BY <3>1, <3>2, <3>3, <2>3, <1>7
  <2> QED BY <2>1, <2>2, <2>3
<1> QED BY <1>12, <1>13, <1>14, <1>15, <1>16 DEF Geometry, m, n, N, P

\* Block r keeps its upper part, and a new block l gets what is before it.
LEMMA SplitLower ==
    ASSUME NEW S, NEW blk, NEW new, Geometry(S, blk), Null \notin S,
           NEW r \in S, NEW l, l \notin S, l # Null,
           \A p \in S :
              /\ new[p] \in Records
              /\ new[p].offset = IF p = r THEN Behind(new, l) ELSE blk[p].offset
              /\ new[p].size = IF p = r THEN blk[r].size - new[l].size ELSE blk[p].size
              /\ new[p].nextPhysical = IF p = blk[r].prevPhysical THEN l ELSE blk[p].nextPhysical
              /\ new[p].prevPhysical = IF p = r THEN l ELSE blk[p].prevPhysical,
           new[l] \in Records, new[l].offset = blk[r].offset,
           new[l].nextPhysical = r, new[l].prevPhysical = blk[r].prevPhysical
    PROVE  Geometry(S \cup {l}, new)
<1> DEFINE o(p) == blk[p].offset
           e(p) == Behind(blk, p)
           m(p) == new[p].offset
           n(p) == Behind(new, p)
           x == blk[r].prevPhysical
           N(p) == new[p].nextPhysical
           P(p) == new[p].prevPhysical
<1>1. /\ \A p \in S : o(p) \in Nat /\ e(p) \in Nat /\ o(p) < e(p) /\ e(p) <= HeapSizeInBytes
      /\ \A p \in S \cup {l} : m(p) \in Nat /\ n(p) \in Nat /\ m(p) < n(p)
  BY DEF Geometry, Behind, Records
<1>2. \A p \in S \ {r} : m(p) = o(p) /\ n(p) = e(p)
  BY DEF Behind
<1>3. m(l) = o(r) /\ m(r) = n(l) /\ n(r) = e(r)
  <2>1. blk[r] \in Records /\ new[r] \in Records
    BY DEF Geometry
  <2> QED BY <2>1 DEF Behind, Records
<1>4. \A p, q \in S : p # q => e(p) <= o(q) \/ e(q) <= o(p)
  BY DEF Geometry
<1>6. \A p \in S : IF blk[p].nextPhysical = Null THEN e(p) = HeapSizeInBytes
                   ELSE blk[p].nextPhysical \in S /\ o(blk[p].nextPhysical) = e(p)
  BY DEF Geometry
<1>7. \A p \in S : IF blk[p].prevPhysical = Null THEN o(p) = 0
                   ELSE blk[p].prevPhysical \in S /\ e(blk[p].prevPhysical) = o(p)
  BY DEF Geometry
<1>8. \A p \in S : blk[p].nextPhysical = r => p = x
  BY Neighbours
<1>9. \A y \in 0 .. HeapSizeInBytes - 1 : \E p \in S : o(p) <= y /\ y < e(p)
  BY DEF Geometry
<1>10. /\ P(r) = l /\ P(l) = x /\ \A p \in S \ {r} : P(p) = blk[p].prevPhysical
       /\ N(l) = r
       /\ x \in S => N(x) = l
       /\ \A p \in S \ {x} : N(p) = blk[p].nextPhysical
  OBVIOUS
<1> HIDE DEF o, e, m, n, x, N, P
<1>11. (x = Null /\ o(r) = 0) \/ (x \in S \ {r} /\ e(x) = o(r))
  <2>1. IF x = Null THEN o(r) = 0 ELSE x \in S /\ e(x) = o(r)
    BY <1>7 DEF x
  <2>2. o(r) < e(r)
    BY <1>1
  <2>3. x # r \/ x = Null
    BY <2>1, <2>2, <1>1
  <2> QED BY <2>1, <2>3
<1>12. ASSUME NEW p \in S \cup {l} PROVE new[p] \in Records /\ n(p) <= HeapSizeInBytes
  BY <1>1, <1>2, <1>3, TLSFAssumption
<1>13. ASSUME NEW y \in 0 .. HeapSizeInBytes - 1
       PROVE  \E p \in S \cup {l} : m(p) <= y /\ y < n(p)
  <2>1. PICK p \in S : o(p) <= y /\ y < e(p)
    BY <1>9
  <2>2. CASE p = r
    BY <2>1, <2>2, <1>1, <1>3, TLSFAssumption
  <2>3. CASE p # r
    BY <2>1, <2>3, <1>2
  <2> QED BY <2>2, <2>3
<1>14. ASSUME NEW p \in S \cup {l}, NEW q \in S \cup {l}, p # q
       PROVE  n(p) <= m(q) \/ n(q) <= m(p)
  <2>1. CASE p # l /\ q # l
    BY <2>1, <1>14, <1>1, <1>2, <1>3, <1>4
  <2>2. CASE p = l /\ q # l
    BY <2>2, <1>1, <1>2, <1>3, <1>4
  <2>3. CASE p # l /\ q = l
    BY <2>3, <1>1, <1>2, <1>3, <1>4
  <2> QED BY <1>14, <2>1, <2>2, <2>3
<1>15. ASSUME NEW p \in S \cup {l}
       PROVE  IF P(p) = Null THEN m(p) = 0 ELSE P(p) \in S \cup {l} /\ n(P(p)) = m(p)
  <2>1. CASE p = r
    BY <2>1, <1>3, <1>10
  <2>2. CASE p = l
    BY <2>2, <1>2, <1>3, <1>10, <1>11
  <2>3. CASE p \in S \ {r}
    <3>1. P(p) = blk[p].prevPhysical /\ m(p) = o(p)
      BY <2>3, <1>2, <1>10
    <3>2. P(p) # Null => P(p) \in S /\ e(P(p)) = o(p)
      BY <3>1, <2>3, <1>7
    <3>3. P(p) # Null => n(P(p)) = e(P(p))
      BY <3>2, <1>2, <1>3
    <3> QED BY <3>1, <3>2, <3>3, <2>3, <1>7
  <2> QED BY <2>1, <2>2, <2>3
<1>16. ASSUME NEW p \in S \cup {l}
       PROVE  IF N(p) = Null THEN n(p) = HeapSizeInBytes
              ELSE N(p) \in S \cup {l} /\ m(N(p)) = n(p)
  <2>1. CASE p = l
    BY <2>1, <1>3, <1>10
  <2>2. CASE p = x /\ p # l
    <3>1. N(p) = l /\ n(p) = o(r)
      BY <2>2, <1>2, <1>10, <1>11
    <3> QED BY <3>1, <1>3
  <2>3. CASE p \in S \ {x}
    <3>1. N(p) = blk[p].nextPhysical /\ N(p) # r /\ n(p) = e(p)
      BY <2>3, <1>2, <1>3, <1>8, <1>10
    <3>2. N(p) # Null => N(p) \in S /\ o(N(p)) = e(p)
      BY <3>1, <2>3, <1>6
    <3>3. N(p) # Null => m(N(p)) = o(N(p))
      BY <3>1, <3>2, <1>2
    <3> QED BY <3>1, <3>2, <3>3, <2>3, <1>6
  <2> QED BY <2>1, <2>2, <2>3
<1> QED BY <1>12, <1>13, <1>14, <1>15, <1>16 DEF Geometry, m, n, N, P

-----------------------------------------------------------------------------
(* Merging.                                                                  *)

\* The part of an allocator that says which memory is used.
InUse(a) == {p \in DOMAIN a.block : ~a.block[p].free}

LEMMA BlocksReplaced ==
    ASSUME NEW a, NEW blk, IsAllocator(a)
    PROVE  /\ IsAllocator([a EXCEPT !.block = blk])
           /\ [a EXCEPT !.block = blk].block = blk
           /\ [a EXCEPT !.block = blk].corrupt = a.corrupt
<1>1. PICK block, list, refreed, corrupt :
          a = [block |-> block, list |-> list, refreed |-> refreed, corrupt |-> corrupt]
  BY DEF IsAllocator
<1> QED BY <1>1 DEF IsAllocator

\* An allocator whose blocks are assigned new values is as sound as they are.
LEMMA SoundWith ==
    ASSUME NEW a, NEW D \in SUBSET Blocks, NEW blk \in [D -> Records]
    PROVE  /\ Sound(a) => Sound([a EXCEPT !.block = blk])
           /\ Lost(a) => Lost([a EXCEPT !.block = blk])
           /\ Sound(a) \/ Lost(a) => [a EXCEPT !.block = blk].block = blk
<1>1. DOMAIN blk = D
  OBVIOUS
<1> QED BY <1>1, BlocksReplaced DEF Sound, Lost

LEMMA LostMerges ==
    ASSUME NEW a, Lost(a), NEW l
    PROVE  Lost(MergeRight(a, l)) /\ Lost(MergeLeft(a, l))
<1>1. ASSUME NEW k, NEW new
      PROVE  Lost([a EXCEPT !.block[k] = new])
  <2>1. PICK block, list, refreed, corrupt :
            a = [block |-> block, list |-> list, refreed |-> refreed, corrupt |-> corrupt]
    BY DEF Lost, IsAllocator
  <2>2. IsAllocator([a EXCEPT !.block[k] = new])
    BY <2>1 DEF IsAllocator
  <2>3. [a EXCEPT !.block[k] = new].corrupt = a.corrupt
    BY <2>1
  <2> QED BY <2>2, <2>3 DEF Lost
<1>2. Lost(MergeRight(a, l))
  <2> DEFINE n == a.block[l].nextPhysical
             r == a.block[n]
             grown == [a EXCEPT !.block[l] = TakesIn(@, r)]
             moved == StoreUnlessNull(grown, r.nextPhysical, "prevPhysical", l)
             unlinked == StoreUnlessNull(moved, r.prevFree, "nextFree", r.nextFree)
  <2>1. MergeRight(a, l) = StoreUnlessNull(unlinked, unlinked.block[n].nextFree, "prevFree", r.prevFree)
    BY DEF MergeRight
  <2>2. Lost(grown)
    BY <1>1
  <2> HIDE DEF grown, n, r
  <2>3. Lost(moved)
    BY <2>2, LostStays
  <2> HIDE DEF moved
  <2>4. Lost(unlinked)
    BY <2>3, LostStays
  <2> HIDE DEF unlinked
  <2> QED BY <2>1, <2>4, LostStays
<1>3. Lost(MergeLeft(a, l))
  <2> DEFINE p == a.block[l].prevPhysical
             m == a.block[l]
             grown == [a EXCEPT !.block[p] = TakesIn(@, m)]
             moved == StoreUnlessNull(grown, m.nextPhysical, "prevPhysical", p)
             unlinked == StoreUnlessNull(moved, m.prevFree, "nextFree", m.nextFree)
  <2>1. MergeLeft(a, l) = StoreUnlessNull(unlinked, unlinked.block[l].nextFree, "prevFree", m.prevFree)
    BY DEF MergeLeft
  <2>2. Lost(grown)
    BY <1>1
  <2> HIDE DEF grown, p, m
  <2>3. Lost(moved)
    BY <2>2, LostStays
  <2> HIDE DEF moved
  <2>4. Lost(unlinked)
    BY <2>3, LostStays
  <2> HIDE DEF unlinked
  <2> QED BY <2>1, <2>4, LostStays
<1> QED BY <1>2, <1>3

LEMMA RecordTaken ==
    ASSUME NEW b \in Records, NEW r \in Records
    PROVE  LET c == TakesIn(b, r)
           IN  /\ c \in Records /\ c.size = b.size + r.size /\ c.nextPhysical = r.nextPhysical
               /\ c.offset = b.offset /\ c.free = b.free /\ c.prevPhysical = b.prevPhysical
<1> DEFINE s == b.size + r.size
           n == r.nextPhysical
<1>1. s \in Nat \ {0} /\ n \in Blocks \cup {Null}
  BY DEF Records
<1>2. TakesIn(b, r) = [b EXCEPT !.size = s, !.nextPhysical = n]
  BY DEF TakesIn
<1> HIDE DEF s, n
<1>3. LET c == TakesIn(b, r)
      IN  /\ c \in Records /\ c.size = s /\ c.nextPhysical = n
          /\ c.offset = b.offset /\ c.free = b.free /\ c.prevPhysical = b.prevPhysical
  BY <1>1, <1>2 DEF Records
<1> QED BY <1>3 DEF s, n

LEMMA RecordTold ==
    ASSUME NEW b \in Records, NEW p \in Blocks \cup {Null}
    PROVE  LET c == [b EXCEPT !.prevPhysical = p]
           IN  /\ c \in Records /\ c.size = b.size /\ c.nextPhysical = b.nextPhysical
               /\ c.offset = b.offset /\ c.free = b.free /\ c.prevPhysical = p
  BY DEF Records

LEMMA PreviousStored ==
    ASSUME NEW a, Sound(a), NEW p \in DOMAIN a.block, NEW v \in Blocks \cup {Null}
    PROVE  LET c == Store(a, p, "prevPhysical", v)
           IN  /\ Sound(c) /\ DOMAIN c.block = DOMAIN a.block
               /\ c.block = [a.block EXCEPT ![p] = [@ EXCEPT !.prevPhysical = v]]
  BY Stored

LEMMA NextStored ==
    ASSUME NEW a, Sound(a), NEW p \in DOMAIN a.block, NEW v \in Blocks \cup {Null}
    PROVE  LET c == Store(a, p, "nextPhysical", v)
           IN  /\ Sound(c) /\ DOMAIN c.block = DOMAIN a.block
               /\ c.block = [a.block EXCEPT ![p] = [@ EXCEPT !.nextPhysical = v]]
  BY Stored

\* The left one of two blocks takes in the right one.
TookIn(a, l, c) ==
    LET r == a.block[l].nextPhysical
    IN  /\ DOMAIN c.block = DOMAIN a.block
        /\ \A p \in DOMAIN a.block :
              /\ c.block[p].offset = a.block[p].offset
              /\ c.block[p].free = a.block[p].free
              /\ c.block[p].size = IF p = l THEN a.block[l].size + a.block[r].size
                                   ELSE a.block[p].size
              /\ c.block[p].nextPhysical = a.block[IF p = l THEN r ELSE p].nextPhysical
              /\ c.block[p].prevPhysical =
                    IF p = a.block[r].nextPhysical THEN l ELSE a.block[p].prevPhysical

LEMMA MergedBlocks ==
    ASSUME NEW a, NEW S, Sound(a), S \subseteq DOMAIN a.block, Geometry(S, a.block),
           NEW l \in S, a.block[l].nextPhysical \in S
    PROVE  \/ Lost(MergeRight(a, l))
           \/ Sound(MergeRight(a, l)) /\ TookIn(a, l, MergeRight(a, l))
<1> DEFINE n == a.block[l].nextPhysical
           r == a.block[n]
           x == r.nextPhysical
           D == DOMAIN a.block
           grown == [a EXCEPT !.block[l] = TakesIn(@, r)]
           moved == StoreUnlessNull(grown, r.nextPhysical, "prevPhysical", l)
           unlinked == StoreUnlessNull(moved, r.prevFree, "nextFree", r.nextFree)
           c == StoreUnlessNull(unlinked, unlinked.block[n].nextFree, "prevFree", r.prevFree)
           v == TakesIn(a.block[l], r)
           g == [a.block EXCEPT ![l] = v]
           w == [g[x] EXCEPT !.prevPhysical = l]
           m == IF x = Null THEN g ELSE [g EXCEPT ![x] = w]
<1>1. MergeRight(a, l) = c
  BY DEF MergeRight
<1>2. /\ D \subseteq Blocks /\ Null \notin Blocks
      /\ l \in D /\ n \in D /\ a.block \in [D -> Records] /\ r \in Records
      /\ x = Null \/ x \in D
  BY TLSFAssumption DEF Sound, Geometry
<1>3. /\ v \in Records /\ v.size = a.block[l].size + r.size /\ v.nextPhysical = x
      /\ v.offset = a.block[l].offset /\ v.free = a.block[l].free
      /\ v.prevPhysical = a.block[l].prevPhysical
  <2>1. a.block[l] \in Records
    BY <1>2
  <2> HIDE DEF r, D
  <2> QED BY <2>1, <1>2, RecordTaken
<1>4. Sound(grown) /\ grown.block = g /\ g \in [D -> Records]
  <2>1. PICK block, list, refreed :
            a = [block |-> block, list |-> list, refreed |-> refreed, corrupt |-> FALSE]
    BY DEF Sound, IsAllocator
  <2>2. a.block = block
    BY <2>1
  <2>3. grown = [a EXCEPT !.block[l] = v]
    OBVIOUS
  <2> HIDE DEF v, grown
  <2>4. g \in [D -> Records]
    BY <1>2, <1>3
  <2>5. grown = [block |-> g, list |-> list, refreed |-> refreed, corrupt |-> FALSE]
    BY <2>1, <2>2, <2>3
  <2> HIDE DEF g
  <2>6. grown.block = g
    BY <2>5
  <2> QED BY <2>4, <2>5, <2>6, <1>2, MakesSound
<1> HIDE DEF v, grown
<1>5. \A p \in D : /\ g[p] \in Records
                   /\ g[p].offset = a.block[p].offset
                   /\ g[p].free = a.block[p].free
                   /\ g[p].size = IF p = l THEN a.block[l].size + r.size ELSE a.block[p].size
                   /\ g[p].nextPhysical = IF p = l THEN x ELSE a.block[p].nextPhysical
                   /\ g[p].prevPhysical = a.block[p].prevPhysical
  BY <1>2, <1>3
<1> HIDE DEF g
<1>6. /\ Sound(moved) /\ moved.block = m /\ DOMAIN m = D
      /\ \A p \in D : /\ m[p].offset = g[p].offset
                      /\ m[p].free = g[p].free
                      /\ m[p].size = g[p].size
                      /\ m[p].nextPhysical = g[p].nextPhysical
                      /\ m[p].prevPhysical = IF p = x THEN l ELSE g[p].prevPhysical
  <2>1. CASE x = Null
    <3>1. moved = grown /\ m = g /\ \A p \in D : p # x
      BY <2>1, <1>2 DEF StoreUnlessNull
    <3> QED BY <3>1, <1>4
  <2>2. CASE x # Null
    <3> HIDE DEF r, D, w
    <3>1. moved = Store(grown, x, "prevPhysical", l)
      BY <2>2 DEF StoreUnlessNull
    <3>2. x \in DOMAIN grown.block /\ l \in Blocks /\ g[x] \in Records /\ x \in D
      BY <2>2, <1>2, <1>4, <1>5
    <3>3. /\ Sound(moved) /\ DOMAIN moved.block = D
          /\ moved.block = [g EXCEPT ![x] = [@ EXCEPT !.prevPhysical = l]]
      <4> HIDE DEF moved, x
      <4>1. DOMAIN g = D
        BY <1>4
      <4>2. x \in DOMAIN grown.block /\ l \in Blocks \cup {Null} /\ Sound(grown)
        BY <3>2, <1>4
      <4>3. LET d == Store(grown, x, "prevPhysical", l)
            IN  /\ Sound(d) /\ DOMAIN d.block = DOMAIN grown.block
                /\ d.block = [grown.block EXCEPT ![x] = [@ EXCEPT !.prevPhysical = l]]
        BY <4>2, PreviousStored
      <4> QED BY <3>1, <4>1, <4>3, <1>4
    <3>4. w.size = g[x].size /\ w.nextPhysical = g[x].nextPhysical
          /\ w.offset = g[x].offset /\ w.free = g[x].free /\ w.prevPhysical = l
      BY <3>2, RecordTold DEF w
    <3>5. moved.block = m
      BY <3>3, <2>2 DEF w
    <3>6. m = [g EXCEPT ![x] = w]
      BY <2>2
    <3>7. \A p \in D : m[p] = IF p = x THEN w ELSE g[p]
      BY <3>6, <1>4
    <3> HIDE DEF m
    <3> QED BY <3>3, <3>4, <3>5, <3>7
  <2> QED BY <2>1, <2>2
<1> HIDE DEF moved, m
<1>7. r.prevFree \in Blocks \cup {Null, Junk} /\ r.nextFree \in Blocks \cup {Null, Junk}
  BY <1>2 DEF Records
<1>8. Lost(unlinked) \/ SameBlocks(moved, unlinked)
  BY <1>6, <1>7, LinkStoredUnlessNull
<1>9. /\ Lost(unlinked) => Lost(c)
      /\ Sound(unlinked) => Lost(c) \/ SameBlocks(unlinked, c)
  <2> HIDE DEF unlinked, r
  <2> QED BY <1>7, LinkStoredUnlessNull, LostStays
<1> HIDE DEF unlinked
<1>10. Lost(c) \/ SameBlocks(moved, c)
  BY <1>8, <1>9, SameBlocksTwice
<1> HIDE DEF c
<1>11. CASE SameBlocks(moved, c)
  <2>1. /\ Sound(c) /\ DOMAIN c.block = D
        /\ \A p \in D : SameBlock(c.block[p], m[p])
    BY <1>6, <1>11 DEF SameBlocks
  <2> QED BY <1>1, <2>1, <1>5, <1>6 DEF SameBlock, TookIn
<1> QED BY <1>1, <1>10, <1>11

\* The blocks of S are live and divide the heap up; in a good allocator they
\* are all its blocks, and no two free ones are neighbours.
Parted(a, S) == Sound(a) /\ S \subseteq DOMAIN a.block /\ Geometry(S, a.block)
Good(a) == Parted(a, DOMAIN a.block) /\ Coalesced(DOMAIN a.block, a.block)

\* A merge takes the right one of two neighbours out of the division.
WithoutNext(a, S, l, c) ==
    LET r == a.block[l].nextPhysical
    IN  /\ Parted(c, S \ {r}) /\ DOMAIN c.block = DOMAIN a.block /\ l # r
        /\ \A p \in DOMAIN a.block : c.block[p].free = a.block[p].free
        /\ \A p \in S \ {r} :
              /\ p # l => c.block[p].offset = a.block[p].offset
              /\ p # l => c.block[p].size = a.block[p].size
              /\ c.block[p].nextPhysical = a.block[IF p = l THEN r ELSE p].nextPhysical
        /\ c.block[l].prevPhysical = a.block[l].prevPhysical

LEMMA Merges ==
    ASSUME NEW a, NEW S, Parted(a, S), NEW l \in S, a.block[l].nextPhysical \in S
    PROVE  Lost(MergeRight(a, l)) \/ WithoutNext(a, S, l, MergeRight(a, l))
<1> DEFINE r == a.block[l].nextPhysical
           c == MergeRight(a, l)
           D == DOMAIN a.block
<1>1. /\ Sound(a) /\ S \subseteq D /\ D \subseteq Blocks /\ Null \notin S
      /\ Geometry(S, a.block) /\ r \in S
  BY TLSFAssumption DEF Parted, Sound
<1>2. Lost(c) \/ (Sound(c) /\ TookIn(a, l, c))
  BY <1>1, MergedBlocks
<1> HIDE DEF c
<1>3. CASE ~Lost(c)
  <2> HIDE DEF r
  <2>1. \A p \in S \ {r} :
           /\ c.block[p] \in Records /\ c.block[p].offset = a.block[p].offset
           /\ c.block[p].size = IF p = l THEN a.block[l].size + a.block[r].size
                                ELSE a.block[p].size
           /\ c.block[p].nextPhysical = a.block[IF p = l THEN r ELSE p].nextPhysical
           /\ c.block[p].prevPhysical =
                 IF p = a.block[r].nextPhysical THEN l ELSE a.block[p].prevPhysical
    BY <1>1, <1>2, <1>3 DEF Sound, TookIn, r
  <2>2. a.block[l].nextPhysical = r
    BY DEF r
  <2> DEFINE blk == a.block
             new == c.block
  <2>3. l # r /\ Geometry(S \ {r}, new)
    <3>1. Geometry(S, blk) /\ Null \notin S /\ r \in S /\ blk[l].nextPhysical = r
      BY <1>1, <2>2
    <3>2. Absorbs(S, blk, new, l, r)
      BY <2>1 DEF Absorbs
    <3> HIDE DEF blk, new
    <3> QED BY <3>1, <3>2, Absorb
  <2>4. l # a.block[r].nextPhysical
    <3>1. \A p \in S : a.block[p] \in Records
      BY <1>1 DEF Geometry
    <3>2. a.block[r].offset = Behind(a.block, l)
      BY <1>1, <2>2 DEF Geometry
    <3>3. ASSUME a.block[r].nextPhysical = l PROVE a.block[l].offset = Behind(a.block, r)
      BY <1>1, <3>3 DEF Geometry
    <3> QED BY <3>1, <3>2, <3>3, <1>1 DEF Behind, Records
  <2> QED BY <2>3, <2>4, <1>1, <1>2, <1>3 DEF Parted, TookIn, WithoutNext, c, r
<1> QED BY <1>3 DEF c

LEMMA LeftMerge ==
    ASSUME NEW a, NEW S, Parted(a, S), NEW b \in S, a.block[b].prevPhysical \in S
    PROVE  LET p == a.block[b].prevPhysical
           IN  a.block[p].nextPhysical = b /\ MergeLeft(a, b) = MergeRight(a, p)
<1>1. Geometry(S, a.block) /\ Null \notin S
  BY TLSFAssumption DEF Parted, Sound
<1>2. a.block[a.block[b].prevPhysical].nextPhysical = b
  BY <1>1, Neighbours
<1> QED BY <1>2 DEF MergeLeft, MergeRight

LEMMA RefreedStored ==
    ASSUME NEW a, NEW x
    PROVE  /\ Lost(a) => Lost([a EXCEPT !.refreed = x])
           /\ Sound(a) => /\ Sound([a EXCEPT !.refreed = x])
                          /\ [a EXCEPT !.refreed = x].block = a.block
<1>1. ASSUME IsAllocator(a)
      PROVE  LET c == [a EXCEPT !.refreed = x]
             IN  IsAllocator(c) /\ c.block = a.block /\ c.corrupt = a.corrupt
  <2>1. PICK block, list, refreed, corrupt :
            a = [block |-> block, list |-> list, refreed |-> refreed, corrupt |-> corrupt]
    BY <1>1 DEF IsAllocator
  <2>2. [a EXCEPT !.refreed = x] = [block |-> block, list |-> list, refreed |-> x,
                                    corrupt |-> corrupt]
    BY <2>1
  <2> QED BY <2>1, <2>2 DEF IsAllocator
<1> QED BY <1>1 DEF Lost, Sound

LEMMA FieldStored ==
    ASSUME NEW a, NEW b, NEW value, IsAllocator(a)
    PROVE  [a EXCEPT !.block[b].free = value] =
               [a EXCEPT !.block = [a.block EXCEPT ![b] = [a.block[b] EXCEPT !.free = value]]]
<1>1. PICK block, list, refreed, corrupt :
          a = [block |-> block, list |-> list, refreed |-> refreed, corrupt |-> corrupt]
  BY DEF IsAllocator
<1> QED BY <1>1

\* The assignment mIsFree = value.
Marked(a, c, b, value) ==
    /\ DOMAIN c.block = DOMAIN a.block
    /\ \A p \in DOMAIN a.block :
          /\ c.block[p].offset = a.block[p].offset
          /\ c.block[p].size = a.block[p].size
          /\ c.block[p].nextPhysical = a.block[p].nextPhysical
          /\ c.block[p].prevPhysical = a.block[p].prevPhysical
          /\ c.block[p].free = IF p = b THEN value ELSE a.block[p].free

LEMMA FreeStored ==
    ASSUME NEW a, NEW b, NEW value \in BOOLEAN
    PROVE  LET c == [a EXCEPT !.block[b].free = value]
           IN  /\ Lost(a) => Lost(c)
               /\ Sound(a) /\ b \in DOMAIN a.block => Sound(c) /\ Marked(a, c, b, value)
<1> DEFINE c == [a EXCEPT !.block[b].free = value]
           v == [a.block[b] EXCEPT !.free = value]
           g == [a.block EXCEPT ![b] = v]
<1>1. ASSUME Lost(a) PROVE Lost(c)
  <2>1. PICK block, list, refreed, corrupt :
            a = [block |-> block, list |-> list, refreed |-> refreed, corrupt |-> corrupt]
    BY <1>1 DEF Lost, IsAllocator
  <2>2. IsAllocator(c)
    BY <2>1 DEF IsAllocator
  <2>3. c.corrupt = a.corrupt
    BY <2>1
  <2> QED BY <1>1, <2>2, <2>3 DEF Lost
<1>2. ASSUME Sound(a), b \in DOMAIN a.block
      PROVE  Sound(c) /\ Marked(a, c, b, value)
  <2>1. c = [a EXCEPT !.block = g]
    BY <1>2, FieldStored DEF Sound
  <2>2. a.block \in [DOMAIN a.block -> Records] /\ DOMAIN a.block \in SUBSET Blocks
    BY <1>2 DEF Sound
  <2>4. /\ v \in Records /\ v.free = value /\ v.offset = a.block[b].offset
        /\ v.size = a.block[b].size /\ v.nextPhysical = a.block[b].nextPhysical
        /\ v.prevPhysical = a.block[b].prevPhysical
    <3>1. a.block[b] \in Records
      BY <2>2, <1>2
    <3> QED BY <3>1 DEF Records
  <2> HIDE DEF v, c
  <2>5. /\ g \in [DOMAIN a.block -> Records] /\ DOMAIN g = DOMAIN a.block
        /\ \A p \in DOMAIN a.block : g[p] = IF p = b THEN v ELSE a.block[p]
    BY <2>2, <2>4
  <2> HIDE DEF g
  <2>6. Sound(c) /\ c.block = g
    BY <1>2, <2>1, <2>2, <2>5, SoundWith
  <2> QED BY <2>4, <2>5, <2>6 DEF Marked
<1> QED BY <1>1, <1>2

LEMMA Forgotten ==
    ASSUME NEW a, NEW q
    PROVE  /\ Lost(a) => Lost(Forget(a, q))
           /\ Sound(a) /\ q \in DOMAIN a.block =>
                 \/ Lost(Forget(a, q))
                 \/ /\ Sound(Forget(a, q))
                    /\ DOMAIN Forget(a, q).block = DOMAIN a.block \ {q}
                    /\ \A p \in DOMAIN a.block \ {q} :
                          SameBlock(Forget(a, q).block[p], a.block[p])
<1>3. ~(Lost(a) /\ Sound(a))
  BY DEF Lost, Sound
<1>1. CASE Lost(a)
  BY <1>1 DEF Forget, Lost, Sound
<1>2. CASE Sound(a) /\ q \in DOMAIN a.block
  <2> DEFINE m == RemoveMergedBlock(a, q)
             blk == [p \in DOMAIN m.block \ {q} |-> m.block[p]]
  <2>1. Lost(m) \/ SameBlocks(a, m)
    BY <1>2, MergedRemoved
  <2>2. Forget(a, q) = [m EXCEPT !.block = blk]
    BY <1>2 DEF Forget, Erase, Sound
  <2> HIDE DEF m
  <2>3. CASE Lost(m)
    <3>1. IsAllocator(m) /\ m.corrupt = TRUE
      BY <2>3 DEF Lost
    <3> HIDE DEF blk
    <3> QED BY <3>1, <2>2, BlocksReplaced DEF Lost
  <2>4. CASE SameBlocks(a, m)
    <3>1. /\ Sound(m) /\ DOMAIN m.block \in SUBSET Blocks /\ m.block \in [DOMAIN m.block -> Records]
          /\ DOMAIN m.block = DOMAIN a.block
          /\ \A p \in DOMAIN a.block : SameBlock(m.block[p], a.block[p])
      BY <2>4 DEF SameBlocks, Sound
    <3>2. /\ DOMAIN m.block \ {q} \in SUBSET Blocks /\ blk \in [DOMAIN m.block \ {q} -> Records]
          /\ DOMAIN blk = DOMAIN a.block \ {q}
          /\ \A p \in DOMAIN a.block \ {q} : blk[p] = m.block[p]
      BY <3>1
    <3> HIDE DEF blk
    <3>3. Sound(Forget(a, q)) /\ Forget(a, q).block = blk
      BY <3>1, <3>2, <2>2, SoundWith
    <3> QED BY <3>1, <3>2, <3>3, <1>2, <1>3
  <2> QED BY <2>1, <2>3, <2>4
<1> QED BY <1>1, <1>2, <1>3

\* The used blocks of c are those of a but for b, and have the memory they had.
Keeps(a, c, b) ==
    /\ InUse(c) \ {b} = InUse(a) \ {b}
    /\ \A p \in InUse(a) \ {b} : /\ c.block[p].offset = a.block[p].offset
                                 /\ c.block[p].size = a.block[p].size

LEMMA NeighboursOfGood ==
    ASSUME NEW a, Good(a), NEW b \in DOMAIN a.block
    PROVE  LET D == DOMAIN a.block
               n == a.block[b].nextPhysical
               p == a.block[b].prevPhysical
           IN  /\ n = Null \/ n \in D \ {b}
               /\ p = Null \/ p \in D \ {b}
               /\ n = p => n = Null
               /\ p # Null => a.block[p].nextPhysical = b
               /\ n # Null => a.block[n].nextPhysical # b
               /\ n # Null => a.block[n].prevPhysical = b
               /\ Null \notin D
<1> DEFINE D == DOMAIN a.block
           n == a.block[b].nextPhysical
           p == a.block[b].prevPhysical
           o(q) == a.block[q].offset
           e(q) == Behind(a.block, q)
<1>1. Geometry(D, a.block) /\ Null \notin D
  BY TLSFAssumption DEF Good, Parted, Sound
<1>2. \A q \in D : o(q) \in Nat /\ e(q) \in Nat /\ o(q) < e(q)
  BY <1>1 DEF Geometry, Behind, Records
<1>3. \A q, r \in D : a.block[q].nextPhysical = r <=> a.block[r].prevPhysical = q
  BY <1>1, Neighbours
<1>4. \A q \in D : a.block[q].nextPhysical # Null =>
          a.block[q].nextPhysical \in D /\ o(a.block[q].nextPhysical) = e(q)
  BY <1>1 DEF Geometry
<1>5. p # Null => p \in D
  BY <1>1 DEF Geometry
<1> HIDE DEF o, e, D
<1>6. n # Null => n \in D /\ o(n) = e(b)
  BY <1>4 DEF D
<1>7. p # Null => a.block[p].nextPhysical = b /\ o(b) = e(p)
  BY <1>1, <1>3, <1>4, <1>5 DEF D
<1>8. n # Null => a.block[n].nextPhysical # b
  <2> SUFFICES ASSUME n # Null, a.block[n].nextPhysical = b PROVE FALSE
    OBVIOUS
  <2>1. o(b) = e(n) /\ n \in D /\ b \in D /\ o(n) = e(b)
    BY <1>1, <1>4, <1>6 DEF D
  <2> QED BY <2>1, <1>2
<1>9. n # Null => a.block[n].prevPhysical = b
  BY <1>3, <1>6 DEF D
<1>10. b \in D
  BY DEF D
<1>11. n # Null => n # b
  BY <1>2, <1>6, <1>10
<1>12. p # Null => p # b
  BY <1>2, <1>5, <1>7, <1>10
<1>13. n = p => n = Null
  BY <1>7, <1>8
<1> QED BY <1>1, <1>5, <1>6, <1>7, <1>8, <1>9, <1>11, <1>12, <1>13 DEF D

\* TLSFMemoryBlock::FreeBlock and the deletion of what it has merged: the
\* memory of b, and no other, is not used any more, and is one free block with
\* the free memory on both of its sides.
LEMMA Deleted ==
    ASSUME NEW a, Good(a), NEW b \in InUse(a)
    PROVE  LET c == DeleteAllocation(a, b)
           IN  Lost(c) \/ (Good(c) /\ Keeps(a, c, b) /\ b \notin InUse(c))
<1> DEFINE D == DOMAIN a.block
           n == a.block[b].nextPhysical
           p == a.block[b].prevPhysical
           fn == IsFree(a, n)
           fp == IsFree(a, p)
           right == IF fn THEN MergeRight(a, b) ELSE a
           merged == IF fp THEN MergeLeft(right, b) ELSE right
           freed == Freed(a, merged, b)
           rest == IF fn THEN Forget(freed, n) ELSE freed
           c == Settle(rest, b, fp)
           S1 == IF fn THEN D \ {n} ELSE D
           S2 == IF fp THEN S1 \ {b} ELSE S1
           k == IF fp THEN p ELSE b
           x == IF fn THEN a.block[n].nextPhysical ELSE n
<1>1. /\ Sound(a) /\ Geometry(D, a.block) /\ Coalesced(D, a.block) /\ Parted(a, D)
      /\ b \in D /\ ~a.block[b].free /\ Null \notin D
      /\ n = Null \/ n \in D \ {b}
      /\ p = Null \/ p \in D \ {b}
      /\ n = p => n = Null
      /\ p # Null => a.block[p].nextPhysical = b
      /\ n # Null => a.block[n].nextPhysical # b
      /\ n # Null => a.block[n].prevPhysical = b
  BY NeighboursOfGood DEF Good, Parted, InUse
<1>2. DeleteAllocation(a, b) = c
  <2>1. {b, n, p} \ {Null} \subseteq D
    BY <1>1
  <2> QED BY <2>1 DEF DeleteAllocation, Merged
<1>3. /\ fn => n \in D \ {b} /\ a.block[n].free
      /\ fp => p \in D \ {b} /\ a.block[p].free /\ p # n
      /\ S1 \subseteq D /\ b \in S1 /\ (fp => p \in S1)
      /\ S2 \subseteq S1 /\ k \in S2
  BY <1>1 DEF IsFree
<1>4. \/ Lost(right)
      \/ /\ Parted(right, S1) /\ DOMAIN right.block = D
         /\ \A q \in D : right.block[q].free = a.block[q].free
         /\ \A q \in S1 : /\ q # b => right.block[q].offset = a.block[q].offset
                          /\ q # b => right.block[q].size = a.block[q].size
                          /\ right.block[q].nextPhysical = IF q = b THEN x ELSE a.block[q].nextPhysical
         /\ right.block[b].prevPhysical = p
  <2>1. CASE fn
    <3>1. right = MergeRight(a, b) /\ S1 = D \ {n} /\ x = a.block[n].nextPhysical
      BY <2>1
    <3>2. a.block[b].nextPhysical \in D
      BY <2>1, <1>3
    <3> HIDE DEF right, S1, x, D
    <3>3. Lost(right) \/ WithoutNext(a, D, b, right)
      BY <3>1, <3>2, <1>1, Merges
    <3> QED BY <3>1, <3>3 DEF D, WithoutNext
  <2>2. CASE ~fn
    BY <2>2, <1>1
  <2> QED BY <2>1, <2>2
<1> HIDE DEF right, S1, x
<1>5. \/ Lost(merged)
      \/ /\ Parted(merged, S2) /\ DOMAIN merged.block = D
         /\ \A q \in D : merged.block[q].free = a.block[q].free
         /\ \A q \in S2 : /\ q # k => merged.block[q].offset = a.block[q].offset
                          /\ q # k => merged.block[q].size = a.block[q].size
                          /\ merged.block[q].nextPhysical = IF q = k THEN x ELSE a.block[q].nextPhysical
  <2>1. CASE ~fp
    BY <2>1, <1>4
  <2>2. CASE fp /\ Lost(right)
    BY <2>2, LostMerges
  <2>3. CASE fp /\ ~Lost(right)
    <3>1. /\ merged = MergeLeft(right, b) /\ S2 = S1 \ {b} /\ k = p
          /\ Parted(right, S1) /\ b \in S1 /\ right.block[b].prevPhysical = p /\ p \in S1
      BY <2>3, <1>3, <1>4
    <3>2. right.block[p].nextPhysical = b /\ merged = MergeRight(right, p)
      BY <3>1, LeftMerge
    <3> HIDE DEF merged, S2, k, D, fp
    <3>3. Lost(merged) \/ WithoutNext(right, S1, p, merged)
      BY <3>1, <3>2, Merges
    <3>4. /\ DOMAIN right.block = D /\ S1 \subseteq D
          /\ \A q \in D : right.block[q].free = a.block[q].free
          /\ \A q \in S1 \ {b} : /\ right.block[q].offset = a.block[q].offset
                                /\ right.block[q].size = a.block[q].size
                                /\ right.block[q].nextPhysical = a.block[q].nextPhysical
          /\ right.block[b].nextPhysical = x
      BY <3>1, <2>3, <1>3, <1>4
    <3> HIDE DEF right
    <3>5. CASE WithoutNext(right, S1, p, merged)
      <4>1. /\ Parted(merged, S2) /\ DOMAIN merged.block = D /\ p # b
            /\ \A q \in D : merged.block[q].free = right.block[q].free
            /\ \A q \in S2 : /\ q # p => merged.block[q].offset = right.block[q].offset
                             /\ q # p => merged.block[q].size = right.block[q].size
                             /\ merged.block[q].nextPhysical =
                                    right.block[IF q = p THEN b ELSE q].nextPhysical
        BY <3>1, <3>2, <3>4, <3>5 DEF WithoutNext
      <4> QED BY <3>1, <3>4, <4>1
    <3> QED BY <3>3, <3>5
  <2> QED BY <2>1, <2>2, <2>3
<1> HIDE DEF merged
<1>6. \/ Lost(freed)
      \/ /\ Sound(freed) /\ DOMAIN freed.block = D /\ Geometry(S2, merged.block)
         /\ \A q \in D : /\ freed.block[q].free = IF q = b THEN TRUE ELSE a.block[q].free
                         /\ freed.block[q].offset = merged.block[q].offset
                         /\ freed.block[q].size = merged.block[q].size
                         /\ freed.block[q].nextPhysical = merged.block[q].nextPhysical
                         /\ freed.block[q].prevPhysical = merged.block[q].prevPhysical
  <2> DEFINE f == [merged EXCEPT !.block[b].free = TRUE]
  <2>1. freed = [f EXCEPT !.refreed = f.refreed \/ a.block[b].free]
    BY DEF Freed
  <2>2. CASE Lost(merged)
    <3>1. Lost(f)
      BY <2>2, FreeStored
    <3> DEFINE y == f.refreed \/ a.block[b].free
    <3>2. freed = [f EXCEPT !.refreed = y]
      BY <2>1
    <3> HIDE DEF f, y
    <3>3. Lost([f EXCEPT !.refreed = y])
      BY <3>1, RefreedStored
    <3> QED BY <3>2, <3>3
  <2>3. CASE ~Lost(merged)
    <3>1. /\ Sound(merged) /\ Geometry(S2, merged.block) /\ DOMAIN merged.block = D
          /\ \A q \in D : merged.block[q].free = a.block[q].free
      BY <2>3, <1>5 DEF Parted
    <3>2. b \in DOMAIN merged.block
      BY <3>1, <1>1
    <3>3. Sound(f) /\ Marked(merged, f, b, TRUE)
      <4>1. Sound(merged) => Sound(f) /\ Marked(merged, f, b, TRUE)
        BY <3>2, FreeStored
      <4> HIDE DEF f
      <4> QED BY <4>1, <3>1
    <3> DEFINE y == f.refreed \/ a.block[b].free
    <3>4. freed = [f EXCEPT !.refreed = y]
      BY <2>1
    <3> HIDE DEF f, y
    <3>5. Sound(freed) /\ freed.block = f.block
      <4>1. Sound(f)
        BY <3>3
      <4>2. Sound([f EXCEPT !.refreed = y]) /\ [f EXCEPT !.refreed = y].block = f.block
        BY <4>1, RefreedStored
      <4> QED BY <3>4, <4>2
    <3>6. DOMAIN f.block = D
      BY <3>1, <3>3 DEF Marked
    <3>7. \A q \in D : /\ f.block[q].free = IF q = b THEN TRUE ELSE a.block[q].free
                       /\ f.block[q].offset = merged.block[q].offset
                       /\ f.block[q].size = merged.block[q].size
                       /\ f.block[q].nextPhysical = merged.block[q].nextPhysical
                       /\ f.block[q].prevPhysical = merged.block[q].prevPhysical
      BY <3>1, <3>3 DEF Marked
    <3> QED BY <3>1, <3>5, <3>6, <3>7
  <2> QED BY <2>2, <2>3
<1> HIDE DEF freed
<1>7. \/ Lost(rest)
      \/ /\ Sound(rest) /\ DOMAIN rest.block = S1
         /\ \A q \in S1 : SameBlock(rest.block[q], freed.block[q])
  <2>1. CASE fn
    <3>1. rest = Forget(freed, n) /\ S1 = D \ {n} /\ n \in D
      BY <2>1, <1>3 DEF S1
    <3>2. (DOMAIN freed.block = D /\ Sound(freed)) \/ Lost(freed)
      BY <1>6
    <3> HIDE DEF rest, S1, n
    <3>3. \/ Lost(rest)
          \/ /\ Sound(rest) /\ DOMAIN rest.block = D \ {n}
             /\ \A q \in D \ {n} : SameBlock(rest.block[q], freed.block[q])
      BY <3>1, <3>2, Forgotten
    <3> QED BY <3>1, <3>3
  <2>2. CASE ~fn
    BY <2>2, <1>6 DEF S1, SameBlock
  <2> QED BY <2>1, <2>2
<1> HIDE DEF rest
<1>8. \/ Lost(c)
      \/ /\ Sound(c) /\ DOMAIN c.block = S2 /\ ~Lost(freed)
         /\ \A q \in S2 : SameBlock(c.block[q], freed.block[q])
  <2>1. CASE Lost(rest)
    BY <2>1 DEF Settle, Lost
  <2>2. CASE ~Lost(rest)
    <3>1. /\ Sound(rest) /\ DOMAIN rest.block = S1 /\ rest.corrupt = FALSE
          /\ \A q \in S1 : SameBlock(rest.block[q], freed.block[q])
      BY <2>2, <1>7 DEF Sound
    <3>2. ~Lost(freed)
      BY <2>2, Forgotten DEF rest
    <3>3. CASE fp
      <4>1. c = Forget(rest, b) /\ S2 = S1 \ {b} /\ b \in DOMAIN rest.block
        BY <3>1, <3>3, <1>3 DEF Settle
      <4>2. \/ Lost(c)
            \/ /\ Sound(c) /\ DOMAIN c.block = S1 \ {b}
               /\ \A q \in S1 \ {b} : SameBlock(c.block[q], rest.block[q])
        BY <3>1, <4>1, Forgotten
      <4> HIDE DEF c, S2
      <4>3. Lost(c) \/ (/\ Sound(c) /\ DOMAIN c.block = S2
                        /\ \A q \in S2 : SameBlock(c.block[q], rest.block[q]))
        BY <4>1, <4>2
      <4> QED BY <3>1, <3>2, <4>1, <4>3 DEF SameBlock
    <3>4. CASE ~fp
      <4>1. c = InsertBlock(rest, b) /\ S2 = S1 /\ b \in DOMAIN rest.block
        BY <3>1, <3>4, <1>3 DEF Settle
      <4>2. Lost(c) \/ SameBlocks(rest, c)
        BY <3>1, <4>1, Inserted
      <4> HIDE DEF c, S2
      <4>3. Lost(c) \/ (/\ Sound(c) /\ DOMAIN c.block = S2
                        /\ \A q \in S2 : SameBlock(c.block[q], rest.block[q]))
        BY <3>1, <4>1, <4>2 DEF SameBlocks
      <4> QED BY <3>1, <3>2, <4>1, <4>3 DEF SameBlock
    <3> QED BY <3>3, <3>4
  <2> QED BY <2>1, <2>2
<1> HIDE DEF c
<1>9. CASE ~Lost(c)
  <2> DEFINE B == c.block
  <2>1. /\ Sound(c) /\ DOMAIN B = S2 /\ S2 \subseteq D /\ Geometry(S2, merged.block)
        /\ \A q \in S2 : /\ SameBlock(B[q], freed.block[q]) /\ B[q] \in Records
                         /\ freed.block[q].free = IF q = b THEN TRUE ELSE a.block[q].free
                         /\ freed.block[q].offset = merged.block[q].offset
                         /\ freed.block[q].size = merged.block[q].size
                         /\ freed.block[q].nextPhysical = merged.block[q].nextPhysical
                         /\ freed.block[q].prevPhysical = merged.block[q].prevPhysical
    BY <1>3, <1>6, <1>8, <1>9 DEF Sound
  <2>2. ~Lost(merged)
    <3> DEFINE f == [merged EXCEPT !.block[b].free = TRUE]
    <3>1. freed = [f EXCEPT !.refreed = f.refreed \/ a.block[b].free]
      BY DEF Freed, freed
    <3>2. Lost(merged) => Lost(f)
      BY FreeStored
    <3> HIDE DEF f
    <3> QED BY <3>1, <3>2, <1>8, <1>9, RefreedStored
  <2>3. \A q \in S2 :
           /\ B[q] \in Records
           /\ q # b => B[q].free = a.block[q].free
           /\ q = b => B[q].free = TRUE
           /\ q # k => B[q].offset = a.block[q].offset /\ B[q].size = a.block[q].size
           /\ B[q].nextPhysical = IF q = k THEN x ELSE a.block[q].nextPhysical
    <3> HIDE DEF S2, D, k
    <3>1. \A q \in S2 : B[q] \in Records /\ B[q].free = freed.block[q].free
      BY <2>1 DEF SameBlock
    <3>2. \A q \in S2 : /\ q # b => B[q].free = a.block[q].free
                        /\ q = b => B[q].free = TRUE
      BY <2>1, <3>1
    <3>3. ASSUME NEW q \in S2
          PROVE  /\ B[q].offset = merged.block[q].offset /\ B[q].size = merged.block[q].size
                 /\ B[q].nextPhysical = merged.block[q].nextPhysical
      <4>1. /\ B[q].offset = freed.block[q].offset /\ B[q].size = freed.block[q].size
            /\ B[q].nextPhysical = freed.block[q].nextPhysical
        BY <2>1 DEF SameBlock
      <4>2. /\ freed.block[q].offset = merged.block[q].offset
            /\ freed.block[q].size = merged.block[q].size
            /\ freed.block[q].nextPhysical = merged.block[q].nextPhysical
        BY <2>1
      <4> HIDE DEF B
      <4> QED BY <4>1, <4>2
    <3>4. \A q \in S2 :
             /\ q # k => merged.block[q].offset = a.block[q].offset
             /\ q # k => merged.block[q].size = a.block[q].size
             /\ merged.block[q].nextPhysical = IF q = k THEN x ELSE a.block[q].nextPhysical
      BY <2>2, <1>5
    <3> HIDE DEF B
    <3> QED BY <3>1, <3>2, <3>3, <3>4
  <2>4. Geometry(S2, B)
    <3>1. \A q \in S2 : /\ B[q] \in Records
                        /\ B[q].offset = merged.block[q].offset
                        /\ B[q].size = merged.block[q].size
                        /\ B[q].nextPhysical = merged.block[q].nextPhysical
                        /\ B[q].prevPhysical = merged.block[q].prevPhysical
      BY <2>1 DEF SameBlock
    <3> HIDE DEF S2
    <3> QED BY <2>1, <3>1, SameGeometry
  <2>5. Coalesced(S2, B)
    <3>1. ASSUME NEW q \in S2, B[q].nextPhysical # Null,
                 B[q].free, B[B[q].nextPhysical].free
          PROVE  FALSE
      <4> DEFINE r == B[q].nextPhysical
      <4>1. r \in S2
        BY <2>4, <3>1 DEF Geometry
      <4>2. CASE q = k
        <5>1. r = x /\ x # Null
          BY <4>2, <2>3, <3>1
        <5>2. x \in D /\ x # b /\ ~a.block[x].free
          BY <5>1, <4>1, <2>1, <1>1, <1>3 DEF Coalesced, IsFree, x
        <5> QED BY <5>1, <5>2, <4>1, <2>3, <3>1
      <4>3. CASE q # k
        <5>1. r = a.block[q].nextPhysical /\ q \in D /\ r \in D
          BY <4>1, <4>3, <2>1, <2>3
        <5>2. ~(a.block[q].free /\ a.block[r].free)
          BY <5>1, <3>1, <1>1 DEF Coalesced
        <5>3. q # b
          BY <4>3, <1>3
        <5>4. a.block[q].free
          BY <5>3, <2>3, <3>1
        <5>5. r = b
          BY <5>2, <5>4, <4>1, <2>3, <3>1
        <5>6. q = p
          <6>1. Geometry(D, a.block) /\ Null \notin D /\ b \in D
            BY <1>1
          <6>2. a.block[q].nextPhysical = b /\ q \in D
            BY <5>1, <5>5
          <6> HIDE DEF D
          <6> QED BY <6>1, <6>2, Neighbours
        <5>7. fp
          BY <5>1, <5>4, <5>6, <1>1 DEF IsFree
        <5> QED BY <5>6, <5>7, <4>3
      <4> QED BY <4>2, <4>3
    <3> QED BY <3>1 DEF Coalesced
  <2>6. Keeps(a, c, b) /\ b \notin InUse(c)
    <3>1. ASSUME NEW q PROVE q \in InUse(c) => q \in InUse(a) \ {b}
      BY <2>1, <2>3 DEF InUse
    <3>2. ASSUME NEW q \in InUse(a) \ {b}
          PROVE  /\ q \in InUse(c) /\ q \in S2 /\ q # k
      BY <2>1, <2>3, <1>3 DEF InUse, S1
    <3>3. \A q \in InUse(a) \ {b} : B[q].offset = a.block[q].offset /\ B[q].size = a.block[q].size
      BY <3>2, <2>3
    <3> QED BY <3>1, <3>2, <3>3 DEF Keeps
  <2> QED BY <1>2, <2>1, <2>4, <2>5, <2>6 DEF Good, Parted
<1> QED BY <1>2, <1>9

-----------------------------------------------------------------------------
(* Splitting.                                                                *)

LEMMA BlockStored ==
    ASSUME NEW a, NEW b, NEW v
    PROVE  LET c == [a EXCEPT !.block[b] = v]
           IN  /\ Lost(a) => Lost(c)
               /\ Sound(a) /\ b \in DOMAIN a.block /\ v \in Records =>
                     Sound(c) /\ c.block = [a.block EXCEPT ![b] = v]
<1> DEFINE c == [a EXCEPT !.block[b] = v]
           g == [a.block EXCEPT ![b] = v]
<1>1. IsAllocator(a) => c = [a EXCEPT !.block = g]
  <2> SUFFICES ASSUME IsAllocator(a) PROVE c = [a EXCEPT !.block = g]
    OBVIOUS
  <2>1. PICK block, list, refreed, corrupt :
            a = [block |-> block, list |-> list, refreed |-> refreed, corrupt |-> corrupt]
    BY DEF IsAllocator
  <2>2. a.block = block
    BY <2>1
  <2>3. c = [block |-> g, list |-> list, refreed |-> refreed, corrupt |-> corrupt]
    BY <2>1, <2>2
  <2> HIDE DEF c, g
  <2> DEFINE d == [block |-> g, list |-> list, refreed |-> refreed, corrupt |-> corrupt]
  <2>4. [a EXCEPT !.block = g] = d
    BY <2>1
  <2> QED BY <2>3, <2>4
<1>2. ASSUME Lost(a) PROVE Lost(c)
  <2> HIDE DEF c, g
  <2>1. IsAllocator(a) /\ a.corrupt = TRUE
    BY <1>2 DEF Lost
  <2> DEFINE d == [a EXCEPT !.block = g]
  <2>2. IsAllocator(d) /\ d.corrupt = a.corrupt
    BY <2>1, BlocksReplaced
  <2>3. c = d
    BY <1>1, <2>1
  <2> HIDE DEF d
  <2> QED BY <2>1, <2>2, <2>3 DEF Lost
<1>3. ASSUME Sound(a), b \in DOMAIN a.block, v \in Records
      PROVE  Sound(c) /\ c.block = g
  <2>1. c = [a EXCEPT !.block = g]
    BY <1>1, <1>3 DEF Sound
  <2>2. g \in [DOMAIN a.block -> Records] /\ DOMAIN a.block \in SUBSET Blocks
    BY <1>3 DEF Sound
  <2> HIDE DEF c, g
  <2> QED BY <1>3, <2>1, <2>2, SoundWith
<1> QED BY <1>2, <1>3

\* A block is added.
Added(a, c, b, v) ==
    /\ DOMAIN c.block = DOMAIN a.block \cup {b}
    /\ \A p \in DOMAIN c.block : c.block[p] = IF p = b THEN v ELSE a.block[p]

LEMMA BlockAdded ==
    ASSUME NEW a, NEW b, NEW v
    PROVE  LET c == [a EXCEPT !.block = [p \in DOMAIN a.block \cup {b} |->
                                            IF p = b THEN v ELSE a.block[p]]]
           IN  /\ Lost(a) => Lost(c)
               /\ Sound(a) /\ b \in Blocks /\ v \in Records => Sound(c) /\ Added(a, c, b, v)
<1> DEFINE g == [p \in DOMAIN a.block \cup {b} |-> IF p = b THEN v ELSE a.block[p]]
           c == [a EXCEPT !.block = g]
<1>1. ASSUME Lost(a) PROVE Lost(c)
  <2> HIDE DEF g
  <2> QED BY <1>1, BlocksReplaced DEF Lost
<1>2. ASSUME Sound(a), b \in Blocks, v \in Records
      PROVE  Sound(c) /\ Added(a, c, b, v)
  <2>1. /\ DOMAIN a.block \cup {b} \in SUBSET Blocks
        /\ g \in [DOMAIN a.block \cup {b} -> Records]
    BY <1>2 DEF Sound
  <2>2. \A p \in DOMAIN a.block \cup {b} : g[p] = IF p = b THEN v ELSE a.block[p]
    OBVIOUS
  <2>3. DOMAIN g = DOMAIN a.block \cup {b}
    OBVIOUS
  <2> HIDE DEF g
  <2>4. Sound(c) /\ c.block = g
    BY <1>2, <2>1, SoundWith
  <2> HIDE DEF c
  <2> QED BY <2>2, <2>3, <2>4 DEF Added
<1> QED BY <1>1, <1>2

\* What AllocateBlock makes of the blocks a has: b is cut to the memory from
\* offset on, size units of it, the others stay.
Cut(a, c, b, offset, size) ==
    /\ DOMAIN a.block \subseteq DOMAIN c.block /\ c.block[b].offset = offset /\ c.block[b].size = size
    /\ \A p \in DOMAIN a.block \ {b} : /\ c.block[p].offset = a.block[p].offset
                                       /\ c.block[p].size = a.block[p].size
                                       /\ c.block[p].free = a.block[p].free
    /\ \A p \in DOMAIN c.block \ DOMAIN a.block : c.block[p].free = TRUE

\* No two free neighbours, unless the right one is b.
CoalescedBut(a, b) ==
    \A p \in DOMAIN a.block :
        a.block[p].nextPhysical \notin {Null, b} =>
            ~(a.block[p].free /\ a.block[a.block[p].nextPhysical].free)

LEMMA LeftSplit ==
    ASSUME NEW a, Good(a), NEW b \in DOMAIN a.block, a.block[b].free, NEW request,
           NEW left \in Blocks, left \notin DOMAIN a.block, NEW indeterminate \in {Null, Junk},
           AlignmentAdjustment(a.block[b], request) \in Nat,
           AlignmentAdjustment(a.block[b], request) < a.block[b].size
    PROVE  LET c == SplitLeft(a, b, request, left, indeterminate)
               d == AlignmentAdjustment(a.block[b], request)
           IN  /\ Parted(c, DOMAIN c.block) /\ CoalescedBut(c, b) /\ c.block[b].free
               /\ DOMAIN c.block \subseteq DOMAIN a.block \cup {left}
               /\ Cut(a, c, b, a.block[b].offset + d, a.block[b].size - d)
<1> DEFINE D == DOMAIN a.block
           m == a.block[b]
           d == AlignmentAdjustment(m, request)
           prev == m.prevPhysical
           padding == NewBlock(m.offset, d, prev, b, indeterminate)
           upper == [m EXCEPT !.size = @ - d, !.offset = @ + d, !.prevPhysical = left]
           shrunk == [a EXCEPT !.block[b] = upper]
           linked == StoreUnlessNull(shrunk, prev, "nextPhysical", left)
           c == [linked EXCEPT !.block = [p \in DOMAIN linked.block \cup {left} |->
                                            IF p = left THEN padding ELSE linked.block[p]]]
<1>1. SplitLeft(a, b, request, left, indeterminate) = IF d = 0 THEN a ELSE c
  BY DEF SplitLeft
<1>2. /\ Sound(a) /\ Geometry(D, a.block) /\ Coalesced(D, a.block) /\ b \in D
      /\ a.block \in [D -> Records] /\ D \subseteq Blocks /\ Null \notin D /\ Null \notin Blocks
      /\ prev = Null \/ prev \in D \ {b}
      /\ prev # Null => a.block[prev].nextPhysical = b
      /\ left \in Blocks \ D /\ d \in Nat /\ d < m.size
  BY NeighboursOfGood, TLSFAssumption DEF Good, Parted, Sound
<1> HIDE DEF D, d
<1>3. CASE d = 0
  <2>1. a.block[b].offset + 0 = a.block[b].offset /\ a.block[b].size - 0 = a.block[b].size
    <3>1. a.block[b] \in Records
      BY <1>2
    <3> QED BY <3>1 DEF Records
  <2>2. CoalescedBut(a, b)
    BY <1>2 DEF Coalesced, CoalescedBut, D
  <2> QED BY <1>1, <1>3, <2>1, <2>2 DEF Good, Cut, d
<1>4. CASE d # 0
  <2>1. /\ upper \in Records /\ upper.size = m.size - d /\ upper.offset = m.offset + d
        /\ upper.prevPhysical = left /\ upper.nextPhysical = m.nextPhysical
        /\ upper.free = m.free
    <3> DEFINE s == m.size - d
               o == m.offset + d
    <3>1. m \in Records
      BY <1>2
    <3> HIDE DEF m
    <3>2. s \in Nat \ {0} /\ o \in Nat /\ left \in Blocks \cup {Null}
      BY <3>1, <1>2 DEF Records
    <3>3. upper = [m EXCEPT !.size = s, !.offset = o, !.prevPhysical = left]
      OBVIOUS
    <3> HIDE DEF s, o, upper
    <3>4. /\ upper \in Records /\ upper.size = s /\ upper.offset = o
          /\ upper.prevPhysical = left /\ upper.nextPhysical = m.nextPhysical
          /\ upper.free = m.free
      BY <3>1, <3>2, <3>3 DEF Records
    <3> QED BY <3>4 DEF s, o
  <2> HIDE DEF upper
  <2>2. /\ padding \in Records /\ padding.offset = m.offset /\ padding.size = d
        /\ padding.free = TRUE /\ padding.prevPhysical = prev /\ padding.nextPhysical = b
    <3>1. m \in Records /\ d \in Nat \ {0} /\ b \in Blocks
      BY <1>2, <1>4
    <3> HIDE DEF m
    <3> QED BY <3>1 DEF Records, NewBlock
  <2> HIDE DEF padding
  <2>3. /\ Sound(shrunk) /\ shrunk.block = [a.block EXCEPT ![b] = upper]
        /\ DOMAIN shrunk.block = D
        /\ \A p \in D : shrunk.block[p] = IF p = b THEN upper ELSE a.block[p]
    <3>1. b \in DOMAIN a.block
      OBVIOUS
    <3>2. Sound(shrunk) /\ shrunk.block = [a.block EXCEPT ![b] = upper]
      BY <3>1, <2>1, <1>2, BlockStored
    <3> HIDE DEF shrunk
    <3> QED BY <3>2, <1>2
  <2> HIDE DEF shrunk
  <2>4. /\ Sound(linked) /\ DOMAIN linked.block = D
        /\ \A p \in D : /\ linked.block[p].offset = shrunk.block[p].offset
                        /\ linked.block[p].size = shrunk.block[p].size
                        /\ linked.block[p].free = shrunk.block[p].free
                        /\ linked.block[p].prevPhysical = shrunk.block[p].prevPhysical
                        /\ linked.block[p].nextPhysical =
                               IF p = prev THEN left ELSE shrunk.block[p].nextPhysical
    <3>1. CASE prev = Null
      <4>1. linked = shrunk /\ \A p \in D : p # prev
        BY <3>1, <1>2 DEF StoreUnlessNull
      <4> QED BY <4>1, <2>3
    <3>2. CASE prev # Null
      <4>1. linked = Store(shrunk, prev, "nextPhysical", left)
        BY <3>2 DEF StoreUnlessNull
      <4>2. prev \in DOMAIN shrunk.block /\ left \in Blocks \cup {Null} /\ prev \in D
        BY <3>2, <1>2, <2>3
      <4> HIDE DEF linked, prev
      <4>3. /\ Sound(linked) /\ DOMAIN linked.block = DOMAIN shrunk.block
            /\ linked.block = [shrunk.block EXCEPT ![prev] = [@ EXCEPT !.nextPhysical = left]]
        <5>1. LET e == Store(shrunk, prev, "nextPhysical", left)
              IN  /\ Sound(e) /\ DOMAIN e.block = DOMAIN shrunk.block
                  /\ e.block = [shrunk.block EXCEPT ![prev] = [@ EXCEPT !.nextPhysical = left]]
          BY <4>2, <2>3, NextStored
        <5> QED BY <5>1, <4>1
      <4>4. \A p \in D : shrunk.block[p] \in Records
        BY <2>3 DEF Sound
      <4>5. \A p \in D : linked.block[p] = IF p = prev THEN [shrunk.block[p] EXCEPT !.nextPhysical = left]
                                           ELSE shrunk.block[p]
        BY <4>3, <2>3
      <4> QED BY <4>2, <4>3, <4>4, <4>5, <2>3 DEF Records
    <3> QED BY <3>1, <3>2
  <2> HIDE DEF linked
  <2>5. /\ Sound(c) /\ DOMAIN c.block = D \cup {left}
        /\ \A p \in D \cup {left} : c.block[p] = IF p = left THEN padding ELSE linked.block[p]
    <3>1. Sound(c) /\ Added(linked, c, left, padding)
      <4>1. Sound(linked) /\ left \in Blocks /\ padding \in Records
        BY <2>2, <2>4
      <4> QED BY <4>1, BlockAdded, Zenon
    <3> HIDE DEF c
    <3> QED BY <3>1, <2>4 DEF Added
  <2> HIDE DEF c
  <2> DEFINE B == c.block
  <2>6. \A p \in D : /\ B[p] \in Records
                     /\ B[p].offset = IF p = b THEN m.offset + d ELSE a.block[p].offset
                     /\ B[p].size = IF p = b THEN m.size - d ELSE a.block[p].size
                     /\ B[p].nextPhysical = IF p = prev THEN left ELSE a.block[p].nextPhysical
                     /\ B[p].prevPhysical = IF p = b THEN left ELSE a.block[p].prevPhysical
    <3>1. \A p \in D : B[p] = linked.block[p] /\ B[p] \in Records
      BY <2>5, <1>2 DEF Sound
    <3>2. \A p \in D : /\ shrunk.block[p].offset = IF p = b THEN m.offset + d ELSE a.block[p].offset
                       /\ shrunk.block[p].size = IF p = b THEN m.size - d ELSE a.block[p].size
                       /\ shrunk.block[p].nextPhysical = a.block[p].nextPhysical
                       /\ shrunk.block[p].prevPhysical = IF p = b THEN left ELSE a.block[p].prevPhysical
      BY <2>1, <2>3
    <3>3. b # prev \/ prev = Null
      BY <1>2
    <3> HIDE DEF prev, m
    <3> QED BY <3>1, <3>2, <2>4
  <2>7. \A p \in D : B[p].free = a.block[p].free
    <3>1. \A p \in D : B[p].free = linked.block[p].free
      BY <2>5, <1>2
    <3>2. \A p \in D : shrunk.block[p].free = a.block[p].free
      BY <2>1, <2>3
    <3> QED BY <3>1, <3>2, <2>4
  <2>8. B[left] = padding
    BY <2>5
  <2>9. Geometry(D \cup {left}, B)
    <3>1. Behind(B, left) = m.offset + d
      BY <2>2, <2>8 DEF Behind
    <3>2. \A p \in D :
             /\ B[p] \in Records
             /\ B[p].offset = IF p = b THEN Behind(B, left) ELSE a.block[p].offset
             /\ B[p].size = IF p = b THEN a.block[b].size - B[left].size ELSE a.block[p].size
             /\ B[p].nextPhysical = IF p = a.block[b].prevPhysical THEN left ELSE a.block[p].nextPhysical
             /\ B[p].prevPhysical = IF p = b THEN left ELSE a.block[p].prevPhysical
      BY <3>1, <2>2, <2>6, <2>8
    <3>3. /\ B[left] \in Records /\ B[left].offset = a.block[b].offset
          /\ B[left].nextPhysical = b /\ B[left].prevPhysical = a.block[b].prevPhysical
      BY <2>2, <2>8
    <3>4. left \notin D /\ left # Null
      BY <1>2
    <3> HIDE DEF B
    <3> QED BY <3>2, <3>3, <3>4, <1>2, SplitLower
  <2>10. CoalescedBut(c, b)
    <3> SUFFICES ASSUME NEW p \in D \cup {left}, B[p].nextPhysical \notin {Null, b},
                        B[p].free, B[B[p].nextPhysical].free
                 PROVE  FALSE
      BY <2>5 DEF CoalescedBut
    <3>1. p \in D
      BY <2>2, <2>8
    <3>2. CASE p = prev
      <4>1. ~a.block[p].free
        BY <3>1, <3>2, <1>2 DEF Coalesced
      <4> QED BY <4>1, <3>1, <2>7
    <3>3. CASE p # prev
      <4>1. B[p].nextPhysical = a.block[p].nextPhysical /\ a.block[p].nextPhysical \in D
        BY <3>1, <3>3, <2>6, <1>2 DEF Geometry
      <4>2. ~(a.block[p].free /\ a.block[a.block[p].nextPhysical].free)
        BY <3>1, <4>1, <1>2 DEF Coalesced
      <4> QED BY <3>1, <4>1, <4>2, <2>7
    <3> QED BY <3>2, <3>3
  <2>11. Cut(a, c, b, m.offset + d, m.size - d)
    BY <1>2, <2>2, <2>5, <2>6, <2>7, <2>8 DEF Cut, D
  <2>12. c.block[b].free
    BY <1>2, <2>7
  <2>13. Parted(c, DOMAIN c.block)
    BY <2>5, <2>9 DEF Parted
  <2> QED BY <1>1, <1>4, <2>5, <2>10, <2>11, <2>12, <2>13 DEF D, d
<1> QED BY <1>3, <1>4

RightCut(a, c, b, right, size) ==
    /\ Good(c) /\ c.block[b].free = FALSE
    /\ DOMAIN c.block \subseteq DOMAIN a.block \cup {right}
    /\ Cut(a, c, b, a.block[b].offset, size)

LEMMA RightSplit ==
    ASSUME NEW a, Parted(a, DOMAIN a.block), NEW b \in DOMAIN a.block, CoalescedBut(a, b),
           a.block[b].free, NEW request, request.size \in Nat \ {0},
           request.size <= a.block[b].size,
           NEW right \in Blocks, right \notin DOMAIN a.block, NEW indeterminate \in {Null, Junk}
    PROVE  RightCut(a, SplitRight(a, b, request, right, indeterminate), b, right, request.size)
<1> DEFINE D == DOMAIN a.block
           m == a.block[b]
           rest == m.size - request.size
           next == m.nextPhysical
           remainder == NewBlock(m.offset + request.size, rest, b, next, indeterminate)
           lower == [m EXCEPT !.size = request.size, !.nextPhysical = right]
           shrunk == [a EXCEPT !.block[b] = lower]
           linked == StoreUnlessNull(shrunk, next, "prevPhysical", right)
           added == [linked EXCEPT !.block = [p \in DOMAIN linked.block \cup {right} |->
                                                IF p = right THEN remainder ELSE linked.block[p]]]
           split == IF rest = 0 THEN a ELSE added
           c == [split EXCEPT !.block[b].free = FALSE]
           s == request.size
<1>1. SplitRight(a, b, request, right, indeterminate) = c
  BY DEF SplitRight
<1>2. /\ Sound(a) /\ Geometry(D, a.block) /\ CoalescedBut(a, b) /\ b \in D
      /\ a.block \in [D -> Records] /\ D \subseteq Blocks /\ Null \notin D /\ Null \notin Blocks
      /\ next = Null \/ next \in D
      /\ right \in Blocks \ D /\ s \in Nat \ {0} /\ s <= m.size
      /\ m \in Records /\ m.free
  BY TLSFAssumption DEF Parted, Sound, Geometry
<1> HIDE DEF D, s
<1>3. rest \in Nat /\ (rest # 0 => rest \in Nat \ {0} /\ s < m.size)
  BY <1>2 DEF Records, s
<1>4. /\ Parted(split, DOMAIN split.block) /\ DOMAIN split.block \subseteq D \cup {right}
      /\ D \subseteq DOMAIN split.block
      /\ split.block[b].offset = m.offset /\ split.block[b].size = s
      /\ \A p \in D \ {b} : split.block[p].offset = a.block[p].offset
                            /\ split.block[p].size = a.block[p].size
      /\ \A p \in D : split.block[p].free = a.block[p].free
      /\ \A p \in DOMAIN split.block \ D : split.block[p].free = TRUE
      /\ \A p \in DOMAIN split.block : split.block[p].nextPhysical # Null =>
             \/ p = b \/ split.block[p].nextPhysical = b
             \/ ~(split.block[p].free /\ split.block[split.block[p].nextPhysical].free)
  <2>1. CASE rest = 0
    <3>1. split = a /\ s = m.size
      BY <2>1, <1>2 DEF Records, s
    <3> HIDE DEF split
    <3> QED BY <3>1, <1>2 DEF CoalescedBut, D, Parted
  <2>2. CASE rest # 0
    <3>1. split = added
      BY <2>2
    <3> HIDE DEF split, m
    <3>2. /\ lower \in Records /\ lower.size = s /\ lower.offset = m.offset
          /\ lower.prevPhysical = m.prevPhysical /\ lower.nextPhysical = right
          /\ lower.free = m.free
      <4>1. right \in Blocks \cup {Null} /\ s \in Nat \ {0} /\ m \in Records
        BY <1>2
      <4>2. lower = [m EXCEPT !.size = s, !.nextPhysical = right]
        BY DEF s
      <4> HIDE DEF lower
      <4> QED BY <4>1, <4>2 DEF Records
    <3> HIDE DEF lower
    <3>3. /\ remainder \in Records /\ remainder.offset = m.offset + s /\ remainder.size = m.size - s
          /\ remainder.free = TRUE /\ remainder.prevPhysical = b /\ remainder.nextPhysical = next
      <4>1. m \in Records /\ b \in Blocks /\ m.size - s \in Nat \ {0} /\ rest = m.size - s
        BY <1>2, <1>3, <2>2 DEF s
      <4>2. remainder = NewBlock(m.offset + s, m.size - s, b, next, indeterminate)
        BY DEF s
      <4> HIDE DEF remainder
      <4> QED BY <4>1, <4>2, <1>2 DEF Records, NewBlock
    <3> HIDE DEF remainder
    <3>4. /\ Sound(shrunk) /\ DOMAIN shrunk.block = D
          /\ \A p \in D : shrunk.block[p] = IF p = b THEN lower ELSE a.block[p]
      <4>1. b \in DOMAIN a.block
        OBVIOUS
      <4>2. Sound(shrunk) /\ shrunk.block = [a.block EXCEPT ![b] = lower]
        BY <4>1, <3>2, <1>2, BlockStored
      <4> HIDE DEF shrunk
      <4> QED BY <4>2, <1>2
    <3> HIDE DEF shrunk
    <3>5. /\ Sound(linked) /\ DOMAIN linked.block = D
          /\ \A p \in D : /\ linked.block[p].offset = shrunk.block[p].offset
                          /\ linked.block[p].size = shrunk.block[p].size
                          /\ linked.block[p].free = shrunk.block[p].free
                          /\ linked.block[p].nextPhysical = shrunk.block[p].nextPhysical
                          /\ linked.block[p].prevPhysical =
                                 IF p = next THEN right ELSE shrunk.block[p].prevPhysical
      <4>1. CASE next = Null
        <5>1. linked = shrunk /\ \A p \in D : p # next
          BY <4>1, <1>2 DEF StoreUnlessNull
        <5> QED BY <5>1, <3>4
      <4>2. CASE next # Null
        <5>1. linked = Store(shrunk, next, "prevPhysical", right)
          BY <4>2 DEF StoreUnlessNull
        <5>2. next \in DOMAIN shrunk.block /\ right \in Blocks \cup {Null} /\ next \in D
          BY <4>2, <1>2, <3>4
        <5> HIDE DEF linked, next
        <5>3. /\ Sound(linked) /\ DOMAIN linked.block = DOMAIN shrunk.block
              /\ linked.block = [shrunk.block EXCEPT ![next] = [@ EXCEPT !.prevPhysical = right]]
          <6>1. LET e == Store(shrunk, next, "prevPhysical", right)
                IN  /\ Sound(e) /\ DOMAIN e.block = DOMAIN shrunk.block
                    /\ e.block = [shrunk.block EXCEPT ![next] = [@ EXCEPT !.prevPhysical = right]]
            BY <5>2, <3>4, PreviousStored
          <6> QED BY <6>1, <5>1
        <5>4. \A p \in D : shrunk.block[p] \in Records
          BY <3>4 DEF Sound
        <5>5. \A p \in D : linked.block[p] = IF p = next THEN [shrunk.block[p] EXCEPT !.prevPhysical = right]
                                             ELSE shrunk.block[p]
          BY <5>3, <3>4
        <5> QED BY <5>2, <5>3, <5>4, <5>5, <3>4 DEF Records
      <4> QED BY <4>1, <4>2
    <3> HIDE DEF linked
    <3>6. /\ Sound(split) /\ DOMAIN split.block = D \cup {right}
          /\ \A p \in D \cup {right} :
                split.block[p] = IF p = right THEN remainder ELSE linked.block[p]
      <4>1. Sound(linked) /\ right \in Blocks /\ remainder \in Records
        BY <3>3, <3>5
      <4>2. Sound(added) /\ Added(linked, added, right, remainder)
        BY <4>1, BlockAdded, Zenon
      <4> HIDE DEF added
      <4> QED BY <4>2, <3>1, <3>5 DEF Added
    <3> HIDE DEF added
    <3> DEFINE B == split.block
    <3>7. /\ B[right] = remainder
          /\ \A p \in D : B[p] = linked.block[p] /\ B[p] \in Records
      BY <3>6, <1>2 DEF Sound
    <3>8. \A p \in D : /\ shrunk.block[p].offset = a.block[p].offset
                       /\ shrunk.block[p].size = IF p = b THEN s ELSE a.block[p].size
                       /\ shrunk.block[p].nextPhysical = IF p = b THEN right ELSE a.block[p].nextPhysical
                       /\ shrunk.block[p].prevPhysical = a.block[p].prevPhysical
      BY <3>2, <3>4 DEF m
    <3>9. \A p \in D : /\ B[p].offset = a.block[p].offset
                       /\ B[p].size = IF p = b THEN s ELSE a.block[p].size
                       /\ B[p].nextPhysical = IF p = b THEN right ELSE a.block[p].nextPhysical
                       /\ B[p].prevPhysical = IF p = next THEN right ELSE a.block[p].prevPhysical
      <4> HIDE DEF next, B
      <4> QED BY <3>5, <3>7, <3>8
    <3>10. \A p \in D : B[p].free = a.block[p].free
      <4>1. \A p \in D : shrunk.block[p].free = a.block[p].free
        BY <3>2, <3>4 DEF m
      <4>2. \A p \in D : B[p].free = linked.block[p].free
        BY <3>7
      <4> HIDE DEF B
      <4> QED BY <3>5, <4>1, <4>2
    <3>11. Geometry(D \cup {right}, B)
      <4>1. Behind(B, b) = m.offset + s
        BY <3>9, <1>2 DEF Behind, m
      <4>2. \A p \in D :
               /\ B[p] \in Records /\ B[p].offset = a.block[p].offset
               /\ p # b => B[p].size = a.block[p].size
               /\ B[p].nextPhysical = IF p = b THEN right ELSE a.block[p].nextPhysical
               /\ B[p].prevPhysical =
                     IF p = a.block[b].nextPhysical THEN right ELSE a.block[p].prevPhysical
        BY <3>7, <3>9 DEF m
      <4>3. /\ B[right] \in Records /\ B[right].offset = Behind(B, b)
            /\ B[right].size = a.block[b].size - B[b].size
            /\ B[right].nextPhysical = a.block[b].nextPhysical /\ B[right].prevPhysical = b
        BY <4>1, <3>3, <3>7, <3>9, <1>2 DEF m
      <4>4. right \notin D /\ right # Null
        BY <1>2
      <4> HIDE DEF B
      <4> QED BY <4>2, <4>3, <4>4, <1>2, SplitUpper
    <3>12. ASSUME NEW p \in D \cup {right}, B[p].nextPhysical # Null, p # b,
                  B[p].nextPhysical # b, B[p].free, B[B[p].nextPhysical].free
           PROVE  FALSE
      <4>1. CASE p = right
        <5>1. B[p].nextPhysical = next /\ next \in D
          BY <4>1, <3>3, <3>7, <3>12, <1>2
        <5>2. ~(a.block[b].free /\ a.block[next].free)
          BY <5>1, <3>12, <1>2 DEF CoalescedBut, m, D
        <5> QED BY <5>1, <5>2, <3>10, <3>12
      <4>2. CASE p \in D
        <5>1. B[p].nextPhysical = a.block[p].nextPhysical /\ a.block[p].nextPhysical \in D
          BY <4>2, <3>9, <3>12, <1>2 DEF Geometry
        <5>2. ~(a.block[p].free /\ a.block[a.block[p].nextPhysical].free)
          BY <4>2, <5>1, <3>12, <1>2 DEF CoalescedBut, D
        <5> QED BY <4>2, <5>1, <5>2, <3>10, <3>12
      <4> QED BY <4>1, <4>2
    <3>13. \A p \in DOMAIN split.block \ D : B[p].free = TRUE
      BY <3>3, <3>6, <3>7
    <3> QED BY <3>6, <3>9, <3>10, <3>11, <3>12, <3>13, <1>2 DEF Parted, m
  <2> QED BY <2>1, <2>2
<1> HIDE DEF split
<1>5. Sound(c) /\ Marked(split, c, b, FALSE)
  <2>1. Sound(split) /\ b \in DOMAIN split.block
    BY <1>2, <1>4 DEF Parted
  <2> QED BY <2>1, FreeStored
<1> HIDE DEF c
<1>6. Geometry(DOMAIN c.block, c.block)
  <2> DEFINE S == DOMAIN split.block
  <2>1. S = DOMAIN c.block /\ Geometry(S, split.block)
    BY <1>4, <1>5 DEF Parted, Marked
  <2>2. \A p \in S : /\ c.block[p] \in Records
                     /\ c.block[p].offset = split.block[p].offset
                     /\ c.block[p].size = split.block[p].size
                     /\ c.block[p].nextPhysical = split.block[p].nextPhysical
                     /\ c.block[p].prevPhysical = split.block[p].prevPhysical
    BY <1>5 DEF Sound, Marked
  <2> HIDE DEF S
  <2>3. Geometry(S, c.block)
    BY <2>1, <2>2, SameGeometry
  <2> QED BY <2>1, <2>3
<1>7. Coalesced(DOMAIN c.block, c.block)
  <2> SUFFICES ASSUME NEW p \in DOMAIN c.block, c.block[p].nextPhysical # Null,
                      c.block[p].free, c.block[c.block[p].nextPhysical].free
               PROVE  FALSE
    BY DEF Coalesced
  <2> DEFINE q == c.block[p].nextPhysical
  <2>1. q \in DOMAIN c.block /\ DOMAIN c.block = DOMAIN split.block
    BY <1>5, <1>6 DEF Geometry, Marked
  <2>2. q = split.block[p].nextPhysical
    BY <1>5, <2>1 DEF Marked
  <2>3. p # b /\ q # b
    BY <1>5, <2>1 DEF Marked
  <2>4. split.block[p].free /\ split.block[q].free
    BY <1>5, <2>1, <2>3 DEF Marked
  <2> QED BY <1>4, <2>1, <2>2, <2>3, <2>4
<1>8. c.block[b].free = FALSE /\ DOMAIN c.block = DOMAIN split.block
  <2>1. b \in DOMAIN split.block
    BY <1>2, <1>4
  <2> QED BY <1>5, <2>1 DEF Marked
<1>9. Cut(a, c, b, m.offset, s)
  <2>1. c.block[b].offset = m.offset /\ c.block[b].size = s
    <3>1. b \in DOMAIN split.block
      BY <1>2, <1>4
    <3>2. c.block[b].offset = split.block[b].offset /\ c.block[b].size = split.block[b].size
      BY <1>5, <3>1 DEF Marked
    <3> QED BY <1>4, <3>2
  <2>2. ASSUME NEW p \in D \ {b}
        PROVE  /\ c.block[p].offset = a.block[p].offset
               /\ c.block[p].size = a.block[p].size
               /\ c.block[p].free = a.block[p].free
    <3>1. /\ p \in DOMAIN split.block /\ split.block[p].offset = a.block[p].offset
          /\ split.block[p].size = a.block[p].size /\ split.block[p].free = a.block[p].free
      BY <1>4
    <3>2. /\ c.block[p].offset = split.block[p].offset /\ c.block[p].size = split.block[p].size
          /\ c.block[p].free = split.block[p].free
      BY <1>5, <3>1 DEF Marked
    <3> QED BY <3>1, <3>2
  <2>3. \A p \in DOMAIN c.block \ D : c.block[p].free = TRUE
    BY <1>2, <1>4, <1>5, <1>8 DEF Marked
  <2> QED BY <2>1, <2>2, <2>3, <1>4, <1>8 DEF Cut, D
<1> QED BY <1>1, <1>4, <1>5, <1>6, <1>7, <1>8, <1>9 DEF RightCut, Good, Parted, D, s

LEMMA LostSplits ==
    ASSUME NEW a, Lost(a), NEW b, NEW request, NEW name, NEW indeterminate
    PROVE  /\ Lost(SplitLeft(a, b, request, name, indeterminate))
           /\ Lost(SplitRight(a, b, request, name, indeterminate))
<1>1. Lost(SplitLeft(a, b, request, name, indeterminate))
  <2> DEFINE m == a.block[b]
             d == AlignmentAdjustment(m, request)
             prev == m.prevPhysical
             padding == NewBlock(m.offset, d, prev, b, indeterminate)
             upper == [m EXCEPT !.size = @ - d, !.offset = @ + d, !.prevPhysical = name]
             shrunk == [a EXCEPT !.block[b] = upper]
             linked == StoreUnlessNull(shrunk, prev, "nextPhysical", name)
             c == [linked EXCEPT !.block = [p \in DOMAIN linked.block \cup {name} |->
                                              IF p = name THEN padding ELSE linked.block[p]]]
  <2>1. SplitLeft(a, b, request, name, indeterminate) = IF d = 0 THEN a ELSE c
    BY DEF SplitLeft
  <2> HIDE DEF d, padding, upper
  <2>2. Lost(shrunk)
    BY BlockStored
  <2> HIDE DEF shrunk
  <2>3. Lost(linked)
    BY <2>2, LostStays
  <2> HIDE DEF linked
  <2>4. Lost(c)
    BY <2>3, BlockAdded, Zenon
  <2> QED BY <2>1, <2>4
<1>2. Lost(SplitRight(a, b, request, name, indeterminate))
  <2> DEFINE m == a.block[b]
             rest == m.size - request.size
             next == m.nextPhysical
             remainder == NewBlock(m.offset + request.size, rest, b, next, indeterminate)
             lower == [m EXCEPT !.size = request.size, !.nextPhysical = name]
             shrunk == [a EXCEPT !.block[b] = lower]
             linked == StoreUnlessNull(shrunk, next, "prevPhysical", name)
             added == [linked EXCEPT !.block = [p \in DOMAIN linked.block \cup {name} |->
                                                  IF p = name THEN remainder ELSE linked.block[p]]]
             split == IF rest = 0 THEN a ELSE added
             c == [split EXCEPT !.block[b].free = FALSE]
  <2>1. SplitRight(a, b, request, name, indeterminate) = c
    BY DEF SplitRight
  <2> HIDE DEF rest, remainder, lower
  <2>2. Lost(shrunk)
    BY BlockStored
  <2> HIDE DEF shrunk
  <2>3. Lost(linked)
    BY <2>2, LostStays
  <2> HIDE DEF linked
  <2>4. Lost(added)
    BY <2>3, BlockAdded, Zenon
  <2> HIDE DEF added
  <2>5. Lost(split)
    BY <2>4
  <2> HIDE DEF split
  <2>6. Lost(c)
    BY <2>5, FreeStored
  <2> QED BY <2>1, <2>6
<1> QED BY <1>1, <1>2

LEMMA CorruptStored ==
    ASSUME NEW a, NEW v, IsAllocator(a)
    PROVE  IsAllocator([a EXCEPT !.corrupt = v]) /\ [a EXCEPT !.corrupt = v].corrupt = v
<1>1. PICK block, list, refreed, corrupt :
          a = [block |-> block, list |-> list, refreed |-> refreed, corrupt |-> corrupt]
  BY DEF IsAllocator
<1> QED BY <1>1 DEF IsAllocator

LEMMA InsertedIfLive ==
    ASSUME NEW a, NEW b
    PROVE  /\ Lost(a) => Lost(Insert(a, b))
           /\ Sound(a) => Lost(Insert(a, b)) \/ SameBlocks(a, Insert(a, b))
<1>1. CASE Live(a, b)
  <2>1. Insert(a, b) = InsertBlock(a, b) /\ b \in DOMAIN a.block
    BY <1>1 DEF Insert, Live
  <2> QED BY <2>1, Inserted
<1>2. CASE ~Live(a, b)
  <2>1. Insert(a, b) = a
    BY <1>2 DEF Insert
  <2> QED BY <2>1 DEF SameBlocks, SameBlock
<1> QED BY <1>1, <1>2

LEMMA GoodStays ==
    ASSUME NEW a, NEW c, Good(a), SameBlocks(a, c)
    PROVE  /\ Good(c) /\ InUse(c) = InUse(a)
           /\ \A p \in DOMAIN a.block : /\ c.block[p].offset = a.block[p].offset
                                        /\ c.block[p].size = a.block[p].size
<1> DEFINE D == DOMAIN a.block
<1>1. /\ Sound(c) /\ DOMAIN c.block = D /\ Geometry(D, a.block) /\ Coalesced(D, a.block)
      /\ \A p \in D : /\ c.block[p] \in Records /\ SameBlock(c.block[p], a.block[p])
  BY DEF Good, Parted, SameBlocks, Sound
<1>2. \A p \in D : /\ c.block[p] \in Records
                   /\ c.block[p].offset = a.block[p].offset /\ c.block[p].size = a.block[p].size
                   /\ c.block[p].nextPhysical = a.block[p].nextPhysical
                   /\ c.block[p].prevPhysical = a.block[p].prevPhysical
  BY <1>1 DEF SameBlock
<1>3. \A p \in D : c.block[p].free = a.block[p].free
  BY <1>1 DEF SameBlock
<1>4. \A p \in D : a.block[p].nextPhysical # Null => a.block[p].nextPhysical \in D
  BY <1>1 DEF Geometry
<1>5. InUse(c) = InUse(a)
  BY <1>1, <1>3 DEF InUse
<1> HIDE DEF D
<1>6. Geometry(D, c.block)
  BY <1>1, <1>2, SameGeometry
<1>7. Coalesced(D, c.block)
  BY <1>1, <1>2, <1>3, <1>4 DEF Coalesced
<1> QED BY <1>1, <1>2, <1>5, <1>6, <1>7 DEF Good, Parted, D

\* Block b, free in a, is in use in c, with what was asked for.
Allocated(a, c, b, request) ==
    /\ Good(c) /\ b \in InUse(c) /\ b \in DOMAIN a.block \ InUse(a)
    /\ c.block[b].size = request.size /\ c.block[b].offset % request.alignment = 0
    /\ Keeps(a, c, b)

LEMMA AllocatedStays ==
    ASSUME NEW a, NEW c, NEW d, NEW b, NEW request,
           Allocated(a, c, b, request), SameBlocks(c, d)
    PROVE  Allocated(a, d, b, request)
<1>1. /\ Good(d) /\ InUse(d) = InUse(c)
      /\ \A p \in DOMAIN c.block : /\ d.block[p].offset = c.block[p].offset
                                   /\ d.block[p].size = c.block[p].size
  BY GoodStays DEF Allocated
<1>2. InUse(c) \subseteq DOMAIN c.block
  BY DEF InUse
<1>3. Keeps(a, d, b)
  BY <1>1, <1>2 DEF Allocated, Keeps
<1> QED BY <1>1, <1>2, <1>3 DEF Allocated

LEMMA AllocatesFrom ==
    ASSUME NEW a, Good(a), NEW c, NEW request \in [size : Nat \ {0}, alignment : Nat \ {0}],
           EndsSearch(a, request, c), NEW left \in Blocks, NEW right \in Blocks,
           left \notin DOMAIN a.block, right \notin DOMAIN a.block, left # right,
           NEW indeterminate \in {Null, Junk}
    PROVE  LET outcome == AllocateFrom(a, c, request, left, right, indeterminate)
           IN  \/ Lost(outcome.allocator)
               \/ Allocated(a, outcome.allocator, outcome.block, request)
<1> DEFINE b == a.list[c]
           D == DOMAIN a.block
           a0 == RemoveHead(a, c)
           a1 == SplitLeft(a0, b, request, left, indeterminate)
           a2 == SplitRight(a1, b, request, right, indeterminate)
           a3 == Insert(a2, left)
           a4 == Insert(a3, right)
           outcome == AllocateFrom(a, c, request, left, right, indeterminate)
<1>1. CASE b \notin D
  <2>1. outcome.allocator = Corrupted(a)
    BY <1>1 DEF AllocateFrom, Live
  <2>2. Lost(Corrupted(a))
    BY CorruptStored DEF Lost, Corrupted, Good, Parted, Sound
  <2> QED BY <2>1, <2>2
<1>2. CASE b \in D
  <2>1. outcome.allocator = a4 /\ outcome.block = b
    BY <1>2 DEF AllocateFrom, Live
  <2> HIDE DEF outcome
  <2>2. /\ Sound(a) /\ CanBlockAllocateResource(a.block[b], request)
    BY <1>2 DEF Good, Parted, EndsSearch, Live
  <2>3. Lost(a0) \/ SameBlocks(a, a0)
    BY <1>2, <2>2, HeadRemoved
  <2> HIDE DEF b
  <2>4. Lost(a0) => Lost(a4)
    <3> HIDE DEF a0
    <3>1. Lost(a0) => Lost(a1)
      BY LostSplits
    <3> HIDE DEF a1
    <3>2. Lost(a1) => Lost(a2)
      BY LostSplits
    <3> HIDE DEF a2
    <3>3. Lost(a2) => Lost(a3)
      BY InsertedIfLive
    <3> HIDE DEF a3
    <3>4. Lost(a3) => Lost(a4)
      BY InsertedIfLive
    <3> QED BY <3>1, <3>2, <3>3, <3>4
  <2>5. CASE SameBlocks(a, a0)
    <3> HIDE DEF a0
    <3>1. /\ Good(a0) /\ InUse(a0) = InUse(a) /\ DOMAIN a0.block = D
          /\ a0.block[b].offset = a.block[b].offset /\ a0.block[b].size = a.block[b].size
          /\ a0.block[b].free = a.block[b].free /\ a.block[b].free
          /\ \A p \in D : /\ a0.block[p].offset = a.block[p].offset
                          /\ a0.block[p].size = a.block[p].size
      BY <2>2, <2>5, <1>2, GoodStays DEF SameBlocks, SameBlock, CanBlockAllocateResource
    <3> DEFINE x == a.block[b].offset
               m == request.alignment
               d == AlignmentAdjustment(a.block[b], request)
               size == a.block[b].size
    <3>2. x \in Nat /\ m \in Nat \ {0} /\ request.size \in Nat \ {0} /\ size \in Nat
      <4>1. a.block[b] \in Records
        BY <1>2, <2>2 DEF Sound
      <4> QED BY <4>1 DEF Records
    <3>3. d = (m - (x % m)) % m
      BY DEF AlignmentAdjustment
    <3>4. d \in Nat /\ (x + d) % m = 0
      <4> HIDE DEF x, m, d
      <4> QED BY <3>2, <3>3, Aligned
    <3>5. d <= size /\ size - d >= request.size
      BY <2>2 DEF CanBlockAllocateResource
    <3>6. AlignmentAdjustment(a0.block[b], request) = d
      BY <3>1 DEF AlignmentAdjustment
    <3> HIDE DEF d, x, m, size
    <3>7. d < size
      BY <3>2, <3>4, <3>5
    <3>8. /\ Parted(a1, DOMAIN a1.block) /\ CoalescedBut(a1, b) /\ a1.block[b].free
          /\ DOMAIN a1.block \subseteq D \cup {left}
          /\ Cut(a0, a1, b, x + d, size - d)
      <4>1. b \in DOMAIN a0.block /\ a0.block[b].free /\ left \notin DOMAIN a0.block
        BY <3>1, <1>2
      <4>2. /\ AlignmentAdjustment(a0.block[b], request) \in Nat
            /\ AlignmentAdjustment(a0.block[b], request) < a0.block[b].size
        BY <3>1, <3>4, <3>6, <3>7 DEF size
      <4> HIDE DEF a1
      <4>3. LET e == SplitLeft(a0, b, request, left, indeterminate)
                f == AlignmentAdjustment(a0.block[b], request)
            IN  /\ Parted(e, DOMAIN e.block) /\ CoalescedBut(e, b) /\ e.block[b].free
                /\ DOMAIN e.block \subseteq DOMAIN a0.block \cup {left}
                /\ Cut(a0, e, b, a0.block[b].offset + f, a0.block[b].size - f)
        BY <4>1, <4>2, <3>1, LeftSplit
      <4> QED BY <4>3, <3>1, <3>6 DEF a1, x, size
    <3> HIDE DEF a1
    <3>9. b \in DOMAIN a1.block /\ a1.block[b].offset = x + d /\ a1.block[b].size = size - d
      BY <3>1, <3>8, <1>2 DEF Cut
    <3>10. /\ Good(a2) /\ a2.block[b].free = FALSE
           /\ Cut(a1, a2, b, x + d, request.size)
      <4>1. right \notin DOMAIN a1.block
        BY <3>8
      <4>2. request.size <= a1.block[b].size
        BY <3>2, <3>4, <3>5, <3>9
      <4> HIDE DEF a2
      <4>3. RightCut(a1, SplitRight(a1, b, request, right, indeterminate), b, right, request.size)
        <5>1. /\ Parted(a1, DOMAIN a1.block) /\ b \in DOMAIN a1.block /\ CoalescedBut(a1, b)
              /\ a1.block[b].free /\ request.size \in Nat \ {0}
          BY <3>2, <3>8, <3>9
        <5> QED BY <5>1, <4>1, <4>2, RightSplit, Zenon
      <4> QED BY <4>3, <3>9 DEF RightCut, a2
    <3> HIDE DEF a2
    <3>11. Allocated(a, a2, b, request)
      <4>1. /\ D \subseteq DOMAIN a1.block /\ DOMAIN a1.block \subseteq DOMAIN a2.block
            /\ \A p \in D \ {b} : /\ a2.block[p].offset = a.block[p].offset
                                  /\ a2.block[p].size = a.block[p].size
                                  /\ a2.block[p].free = a0.block[p].free
            /\ \A p \in DOMAIN a2.block \ D : a2.block[p].free = TRUE
        <5>1. D \subseteq DOMAIN a1.block /\ DOMAIN a1.block \subseteq DOMAIN a2.block
          BY <3>1, <3>8, <3>10 DEF Cut
        <5>2. \A p \in D \ {b} : /\ a2.block[p].offset = a.block[p].offset
                                 /\ a2.block[p].size = a.block[p].size
                                 /\ a2.block[p].free = a0.block[p].free
          BY <5>1, <3>1, <3>8, <3>10 DEF Cut
        <5>3. ASSUME NEW p \in DOMAIN a2.block \ D PROVE a2.block[p].free = TRUE
          <6>1. CASE p \in DOMAIN a1.block
            <7>1. a1.block[p].free = TRUE /\ p # b
              BY <6>1, <5>3, <3>1, <3>8, <1>2 DEF Cut
            <7>2. a2.block[p].free = a1.block[p].free
              BY <6>1, <7>1, <3>10 DEF Cut
            <7> QED BY <7>1, <7>2
          <6>2. CASE p \notin DOMAIN a1.block
            BY <6>2, <5>3, <3>10 DEF Cut
          <6> QED BY <6>1, <6>2
        <5> QED BY <5>1, <5>2, <5>3
      <4>2. b \in InUse(a2) /\ b \in D \ InUse(a)
        BY <4>1, <3>1, <3>10, <1>2 DEF InUse
      <4>3. InUse(a2) \ {b} = InUse(a0) \ {b}
        BY <4>1, <3>1 DEF InUse
      <4>4. InUse(a) \subseteq D
        BY DEF InUse
      <4>5. Keeps(a, a2, b)
        BY <4>1, <4>3, <4>4, <3>1 DEF Keeps
      <4>6. a2.block[b].size = request.size /\ a2.block[b].offset = x + d
        BY <3>10 DEF Cut
      <4> QED BY <4>2, <4>5, <4>6, <3>4, <3>10 DEF Allocated, m
    <3>12. Lost(a3) \/ Allocated(a, a3, b, request)
      <4>1. Sound(a2)
        BY <3>10 DEF Good, Parted
      <4>2. Lost(a3) \/ SameBlocks(a2, a3)
        BY <4>1, InsertedIfLive
      <4> QED BY <4>2, <3>11, AllocatedStays
    <3> HIDE DEF a3
    <3>13. Lost(a4) \/ Allocated(a, a4, b, request)
      <4>1. Lost(a3) => Lost(a4)
        BY InsertedIfLive
      <4>2. CASE Allocated(a, a3, b, request)
        <5>1. Sound(a3)
          BY <4>2 DEF Allocated, Good, Parted
        <5>2. Lost(a4) \/ SameBlocks(a3, a4)
          BY <5>1, InsertedIfLive
        <5> QED BY <5>2, <4>2, AllocatedStays
      <4> QED BY <4>1, <4>2, <3>12
    <3> QED BY <2>1, <3>13 DEF outcome
  <2> QED BY <2>1, <2>3, <2>4, <2>5 DEF outcome
<1> QED BY <1>1, <1>2

-----------------------------------------------------------------------------
(* The allocations.                                                          *)

LEMMA LowestOf ==
    ASSUME NEW S \in SUBSET Nat, S # {}
    PROVE  Lowest(S) \in S
  BY LeastNatural DEF Lowest

LEMMA TwoNames ==
    ASSUME NEW S \in SUBSET Nat, Cardinality(S) >= 2
    PROVE  Lowest(S) \in S /\ Lowest(S \ {Lowest(S)}) \in S \ {Lowest(S)}
<1>1. S # {}
  BY FS_EmptySet
<1>2. Lowest(S) \in S
  BY <1>1, LowestOf
<1>3. S \ {Lowest(S)} # {}
  <2>1. ASSUME S = {Lowest(S)} PROVE FALSE
    <3>1. Cardinality({Lowest(S)}) = 1
      BY FS_Singleton
    <3> QED BY <2>1, <3>1
  <2> QED BY <2>1, <1>2
<1>4. S \ {Lowest(S)} \in SUBSET Nat
  OBVIOUS
<1> QED BY <1>2, <1>3, <1>4, LowestOf

LEMMA Creates ==
    ASSUME NEW a, Good(a), NEW request \in [size : Nat \ {0}, alignment : Nat \ {0}], NEW held,
           Cardinality(FreshNames(a, held)) >= 2, NEW indeterminate \in {Null, Junk}
    PROVE  LET outcome == CreateAllocation(a, request, held, indeterminate)
           IN  \/ outcome.block = Null /\ outcome.allocator = a
               \/ Lost(outcome.allocator)
               \/ Allocated(a, outcome.allocator, outcome.block, request)
<1> DEFINE from == ListToTry(a, request)
           fresh == FreshNames(a, held)
           c == CHOOSE d \in from : TRUE
           left == Lowest(fresh)
           right == Lowest(fresh \ {left})
<1>1. fresh \in SUBSET Nat /\ fresh \subseteq Blocks /\ fresh \cap DOMAIN a.block = {}
  BY TLSFAssumption DEF FreshNames
<1>2. left \in fresh /\ right \in fresh /\ left # right
  BY <1>1, TwoNames
<1>3. CASE from = {}
  BY <1>3 DEF CreateAllocation
<1>4. CASE from # {}
  <2>1. CreateAllocation(a, request, held, indeterminate) =
            AllocateFrom(a, c, request, left, right, indeterminate)
    BY <1>4 DEF CreateAllocation
  <2>2. c \in from
    BY <1>4
  <2>3. EndsSearch(a, request, c)
    BY <2>2 DEF ListToTry
  <2>4. /\ left \in Blocks /\ right \in Blocks /\ left # right
        /\ left \notin DOMAIN a.block /\ right \notin DOMAIN a.block
    BY <1>1, <1>2
  <2> HIDE DEF c, left, right
  <2> QED BY <2>1, <2>3, <2>4, AllocatesFrom
<1> QED BY <1>3, <1>4

Allocations == [block : Blocks, request : Requests, resources : SUBSET Resources]

\* The block of an allocation is as large and as aligned as it was asked to be.
Serves(a, owned) ==
    /\ a.block[owned.block].size = owned.request.size
    /\ a.block[owned.block].offset % owned.request.alignment = 0

\* The inductive invariant.
HeapRight ==
    LET arr == mOwnedAllocationArr
    IN  /\ Good(mAllocator)
        /\ arr \in Seq(Allocations)
        /\ mHAllocation \in [Resources -> Blocks \cup {Null}]
        /\ InUse(mAllocator) = Held(arr)
        /\ \A i \in DOMAIN arr : Serves(mAllocator, arr[i])
        /\ \A i, j \in DOMAIN arr : arr[i].block = arr[j].block => i = j
        /\ \A r \in Created : \E i \in DOMAIN arr :
               r \in arr[i].resources /\ arr[i].block = mHAllocation[r]
HeapInv == Lost(mAllocator) \/ HeapRight

\* What DeleteUnusedAllocations has made once it has looked at the first n of the
\* allocations arr of allocator a.
Collected(a, arr, done, n) ==
    /\ done.used \in Seq(Allocations)
    /\ \A i \in DOMAIN done.used : \E j \in 1 .. n : done.used[i] = arr[j]
    /\ \A j \in 1 .. n : HasGPUResourceAssignments(arr[j]) =>
           \E i \in DOMAIN done.used : done.used[i] = arr[j]
    /\ \A i, j \in DOMAIN done.used : done.used[i].block = done.used[j].block => i = j
    /\ \/ Lost(done.allocator)
       \/ /\ Good(done.allocator)
          /\ InUse(done.allocator) = Held(done.used) \cup {arr[j].block : j \in n + 1 .. Len(arr)}
          /\ \A p \in InUse(done.allocator) :
                 /\ done.allocator.block[p].offset = a.block[p].offset
                 /\ done.allocator.block[p].size = a.block[p].size

LEMMA CollectsOne ==
    ASSUME NEW a, NEW arr \in Seq(Allocations), NEW done, NEW n \in 1 .. Len(arr),
           \A i, j \in DOMAIN arr : arr[i].block = arr[j].block => i = j,
           Collected(a, arr, done, n - 1)
    PROVE  Collected(a, arr, Collect(done, arr[n]), n)
<1> DEFINE owned == arr[n]
           next == Collect(done, owned)
           b == owned.block
           Rest(m) == {arr[j].block : j \in m + 1 .. Len(arr)}
<1>1. /\ owned \in Allocations /\ n \in DOMAIN arr /\ DOMAIN arr = 1 .. Len(arr)
      /\ n - 1 \in Nat /\ Len(arr) \in Nat /\ 1 .. n = (1 .. n - 1) \cup {n}
      /\ 1 .. n - 1 \subseteq DOMAIN arr
  <2>1. DOMAIN arr = 1 .. Len(arr) /\ Len(arr) \in Nat /\ n \in Nat /\ 1 <= n /\ n <= Len(arr)
    OBVIOUS
  <2>2. \A N \in Nat : n <= N => /\ n \in 1 .. N /\ n - 1 \in Nat /\ 1 .. n - 1 \subseteq 1 .. N
                                 /\ 1 .. n = (1 .. n - 1) \cup {n}
    BY <2>1
  <2>3. arr[n] \in Allocations
    OBVIOUS
  <2> QED BY <2>1, <2>2, <2>3
<1>2. Rest(n - 1) = Rest(n) \cup {b} /\ b \notin Rest(n)
  <2>1. n - 1 + 1 .. Len(arr) = (n + 1 .. Len(arr)) \cup {n}
    BY <1>1
  <2>2. Rest(n - 1) = Rest(n) \cup {b}
    BY <2>1
  <2>3. ASSUME NEW j \in n + 1 .. Len(arr) PROVE arr[j].block # b
    <3>1. j \in DOMAIN arr /\ j # n
      BY <1>1
    <3> QED BY <3>1, <1>1
  <2> QED BY <2>2, <2>3
<1>3. b \notin Held(done.used)
  <2> SUFFICES ASSUME NEW i \in DOMAIN done.used, done.used[i].block = b PROVE FALSE
    BY DEF Held
  <2>1. PICK j \in 1 .. n - 1 : done.used[i] = arr[j]
    BY DEF Collected
  <2> QED BY <2>1, <1>1
<1>4. CASE HasGPUResourceAssignments(owned)
  <2>1. next.allocator = done.allocator /\ next.used = Append(done.used, owned)
    BY <1>4 DEF Collect
  <2> HIDE DEF next, owned, Rest
  <2>2. done.used \in Seq(Allocations)
    BY DEF Collected
  <2>3. /\ next.used \in Seq(Allocations) /\ Len(next.used) = Len(done.used) + 1
        /\ DOMAIN next.used = DOMAIN done.used \cup {Len(done.used) + 1}
        /\ Len(done.used) + 1 \notin DOMAIN done.used
        /\ \A i \in DOMAIN done.used : next.used[i] = done.used[i]
        /\ next.used[Len(done.used) + 1] = owned
    BY <2>1, <2>2, <1>1
  <2>4. Held(next.used) = Held(done.used) \cup {b}
    BY <2>3 DEF Held
  <2>5. \A i \in DOMAIN next.used : \E j \in 1 .. n : next.used[i] = arr[j]
    <3>1. \A i \in DOMAIN done.used : \E j \in 1 .. n - 1 : done.used[i] = arr[j]
      BY DEF Collected
    <3> QED BY <3>1, <2>3, <1>1 DEF owned
  <2>6. ASSUME NEW j \in 1 .. n, HasGPUResourceAssignments(arr[j])
        PROVE  \E i \in DOMAIN next.used : next.used[i] = arr[j]
    <3>1. CASE j = n
      BY <3>1, <2>3 DEF owned
    <3>2. CASE j # n
      <4>1. PICK i \in DOMAIN done.used : done.used[i] = arr[j]
        BY <3>2, <2>6, <1>1 DEF Collected
      <4> QED BY <4>1, <2>3
    <3> QED BY <3>1, <3>2
  <2>7. \A i, j \in DOMAIN next.used : next.used[i].block = next.used[j].block => i = j
    <3>1. \A i \in DOMAIN done.used : done.used[i].block # b
      BY <1>3 DEF Held
    <3>2. \A i, j \in DOMAIN done.used : done.used[i].block = done.used[j].block => i = j
      BY DEF Collected
    <3> QED BY <3>1, <3>2, <2>3
  <2>8. Held(done.used) \cup Rest(n - 1) = Held(next.used) \cup Rest(n)
    BY <2>4, <1>2
  <2> QED BY <2>1, <2>3, <2>5, <2>6, <2>7, <2>8 DEF Collected, Rest, owned, next
<1>5. CASE ~HasGPUResourceAssignments(owned)
  <2>1. /\ next.used = done.used
        /\ next.allocator = IF done.allocator.corrupt THEN done.allocator
                            ELSE DeleteAllocation(done.allocator, b)
    BY <1>5 DEF Collect
  <2> HIDE DEF next, owned, Rest
  <2>2. /\ \A i \in DOMAIN done.used : \E j \in 1 .. n : done.used[i] = arr[j]
        /\ \A j \in 1 .. n : HasGPUResourceAssignments(arr[j]) =>
               \E i \in DOMAIN done.used : done.used[i] = arr[j]
    BY <1>1, <1>5 DEF Collected, owned
  <2>3. CASE Lost(done.allocator)
    <3>1. next.allocator = done.allocator
      BY <2>1, <2>3 DEF Lost
    <3> QED BY <2>1, <2>2, <2>3, <3>1 DEF Collected, owned, next
  <2>4. CASE ~Lost(done.allocator)
    <3> DEFINE d == done.allocator
    <3>1. /\ Good(d) /\ InUse(d) = Held(done.used) \cup Rest(n - 1)
          /\ \A p \in InUse(d) : /\ d.block[p].offset = a.block[p].offset
                                 /\ d.block[p].size = a.block[p].size
      BY <2>4 DEF Collected, Rest
    <3>2. b \in InUse(d) /\ d.corrupt = FALSE
      BY <3>1, <1>2 DEF Good, Parted, Sound
    <3>3. next.allocator = DeleteAllocation(d, b)
      BY <2>1, <3>2
    <3> HIDE DEF d
    <3>4. \/ Lost(next.allocator)
          \/ /\ Good(next.allocator) /\ Keeps(d, next.allocator, b)
             /\ b \notin InUse(next.allocator)
      BY <3>1, <3>2, <3>3, Deleted
    <3>5. CASE ~Lost(next.allocator)
      <4>1. InUse(next.allocator) = InUse(d) \ {b}
        BY <3>4, <3>5 DEF Keeps
      <4>2. InUse(next.allocator) = Held(next.used) \cup Rest(n)
        BY <4>1, <3>1, <2>1, <1>2, <1>3
      <4>3. \A p \in InUse(next.allocator) :
               /\ next.allocator.block[p].offset = a.block[p].offset
               /\ next.allocator.block[p].size = a.block[p].size
        BY <4>1, <3>1, <3>4, <3>5 DEF Keeps
      <4>4. /\ next.used \in Seq(Allocations)
            /\ \A i, j \in DOMAIN next.used : next.used[i].block = next.used[j].block => i = j
        BY <2>1 DEF Collected
      <4>5. /\ \A i \in DOMAIN next.used : \E j \in 1 .. n : next.used[i] = arr[j]
            /\ \A j \in 1 .. n : HasGPUResourceAssignments(arr[j]) =>
                   \E i \in DOMAIN next.used : next.used[i] = arr[j]
        BY <2>1, <2>2
      <4>6. Good(next.allocator)
        BY <3>4, <3>5
      <4>7. Collected(a, arr, next, n)
        BY <4>2, <4>3, <4>4, <4>5, <4>6 DEF Collected, Rest
      <4> QED BY <4>7 DEF next, owned
    <3>6. CASE Lost(next.allocator)
      <4>1. /\ next.used \in Seq(Allocations)
            /\ \A i, j \in DOMAIN next.used : next.used[i].block = next.used[j].block => i = j
        BY <2>1 DEF Collected
      <4>2. Collected(a, arr, next, n)
        BY <4>1, <3>6, <2>1, <2>2 DEF Collected
      <4> QED BY <4>2 DEF next, owned
    <3> QED BY <3>5, <3>6
  <2> QED BY <2>3, <2>4
<1> QED BY <1>4, <1>5

\* The function DeleteUnusedAllocations is defined with: every beginning of it
\* exists, so all of it does.
LEMMA CollectsAll ==
    ASSUME HeapRight
    PROVE  Collected(mAllocator, mOwnedAllocationArr, DeleteUnusedAllocations,
                     Len(mOwnedAllocationArr))
<1> DEFINE arr == mOwnedAllocationArr
           N == Len(arr)
           base == [allocator |-> mAllocator, used |-> <<>>]
           Step(done, n) == Collect(done, arr[n])
           Runs(f, n) == f = [m \in 0 .. n |-> IF m = 0 THEN base ELSE Step(f[m - 1], m)]
           failing == {n \in 0 .. N : ~\E f : Runs(f, n)}
           first == CHOOSE f : Runs(f, N)
<1>1. /\ arr \in Seq(Allocations) /\ N \in Nat
      /\ \A i, j \in DOMAIN arr : arr[i].block = arr[j].block => i = j
  BY DEF HeapRight
<1>2. DeleteUnusedAllocations = first[N]
  BY DEF DeleteUnusedAllocations
<1> HIDE DEF base, Step, N
<1>3. failing = {}
  <2> SUFFICES ASSUME failing # {} PROVE FALSE
    OBVIOUS
  <2>1. failing \in SUBSET Nat
    BY <1>1
  <2>2. PICK n \in failing : \A m \in failing : n <= m
    <3> HIDE DEF failing
    <3> QED BY <2>1, LeastNatural
  <2>3. n \in 0 .. N /\ n \in Nat /\ \A f : ~Runs(f, n)
    BY <2>1
  <2>4. CASE n = 0
    <3> DEFINE f == [m \in 0 .. 0 |-> base]
    <3>1. \A m \in 0 .. 0 : m = 0
      OBVIOUS
    <3>2. f = [m \in 0 .. 0 |-> IF m = 0 THEN base ELSE Step(f[m - 1], m)]
      BY <3>1
    <3> HIDE DEF f
    <3>3. Runs(f, n)
      BY <3>2, <2>4
    <3> QED BY <3>3, <2>3
  <2>5. CASE n # 0
    <3>1. n - 1 \in 0 .. N /\ n - 1 \notin failing /\ n - 1 \in Nat
      <4>1. n - 1 \in 0 .. N /\ ~(n <= n - 1)
        BY <2>3, <2>5, <1>1
      <4> HIDE DEF failing
      <4> QED BY <4>1, <2>2
    <3>2. PICK g : Runs(g, n - 1)
      BY <3>1
    <3> DEFINE f == [m \in 0 .. n |-> IF m = n THEN Step(g[n - 1], n) ELSE g[m]]
    <3>3. ASSUME NEW m \in 0 .. n
          PROVE  f[m] = IF m = 0 THEN base ELSE Step(f[m - 1], m)
      <4>1. CASE m = n
        <5>1. f[m] = Step(g[n - 1], n) /\ n - 1 \in 0 .. n /\ n - 1 # n
          BY <4>1, <2>3, <2>5
        <5>2. f[n - 1] = g[n - 1]
          BY <5>1
        <5> HIDE DEF f
        <5> QED BY <4>1, <5>1, <5>2, <2>5
      <4>2. CASE m # n
        <5>1. m \in 0 .. n - 1 /\ f[m] = g[m]
          BY <4>2, <2>3
        <5>2. g[m] = IF m = 0 THEN base ELSE Step(g[m - 1], m)
          BY <5>1, <3>2
        <5>3. m # 0 => f[m - 1] = g[m - 1]
          BY <5>1, <2>3
        <5> HIDE DEF f
        <5> QED BY <5>1, <5>2, <5>3
      <4> QED BY <4>1, <4>2
    <3>4. f = [m \in 0 .. n |-> f[m]]
      OBVIOUS
    <3> HIDE DEF f
    <3>5. [m \in 0 .. n |-> f[m]] = [m \in 0 .. n |-> IF m = 0 THEN base ELSE Step(f[m - 1], m)]
      BY <3>3
    <3>6. Runs(f, n)
      BY <3>4, <3>5
    <3> QED BY <3>6, <2>3
  <2> QED BY <2>4, <2>5
<1>4. Runs(first, N)
  <2>1. N \in 0 .. N /\ N \notin failing
    BY <1>1, <1>3
  <2>2. \E f : Runs(f, N)
    BY <2>1
  <2> HIDE DEF Runs
  <2> QED BY <2>2
<1> HIDE DEF first, failing
<1>5. \A n \in 0 .. N : first[n] = IF n = 0 THEN base ELSE Step(first[n - 1], n)
  BY <1>4
<1> DEFINE wrong == {n \in 0 .. N : ~Collected(mAllocator, arr, first[n], n)}
<1>6. wrong = {}
  <2> SUFFICES ASSUME wrong # {} PROVE FALSE
    OBVIOUS
  <2>1. wrong \in SUBSET Nat
    BY <1>1
  <2>2. PICK n \in wrong : \A m \in wrong : n <= m
    <3> HIDE DEF wrong
    <3> QED BY <2>1, LeastNatural
  <2>3. n \in 0 .. N /\ ~Collected(mAllocator, arr, first[n], n)
    OBVIOUS
  <2>4. CASE n = 0
    <3>1. first[n] = base
      BY <2>3, <2>4, <1>5
    <3>2. base.used = <<>> /\ base.allocator = mAllocator
      BY DEF base
    <3>3. Collected(mAllocator, arr, base, 0)
      <4>1. {arr[j].block : j \in 0 + 1 .. Len(arr)} = Held(arr)
        BY <1>1 DEF Held
      <4>2. Held(<<>>) = {} /\ <<>> \in Seq(Allocations) /\ DOMAIN <<>> = {} /\ 1 .. 0 = {}
        BY DEF Held
      <4> QED BY <3>2, <4>1, <4>2 DEF Collected, HeapRight
    <3> QED BY <2>3, <2>4, <3>1, <3>3
  <2>5. CASE n # 0
    <3>1. n \in 1 .. N /\ n - 1 \in 0 .. N /\ ~(n <= n - 1)
      BY <2>3, <2>5, <1>1
    <3>2. Collected(mAllocator, arr, first[n - 1], n - 1)
      <4>1. n - 1 \notin wrong
        <5> HIDE DEF wrong
        <5> QED BY <3>1, <2>2
      <4> QED BY <4>1, <3>1
    <3>3. first[n] = Collect(first[n - 1], arr[n])
      BY <2>3, <2>5, <1>5 DEF Step
    <3>4. n \in 1 .. Len(arr)
      BY <3>1 DEF N
    <3>5. Collected(mAllocator, arr, Collect(first[n - 1], arr[n]), n)
      BY <1>1, <3>2, <3>4, CollectsOne
    <3> QED BY <2>3, <3>3, <3>5
  <2> QED BY <2>4, <2>5
<1>7. Collected(mAllocator, arr, first[N], N)
  BY <1>1, <1>6
<1> QED BY <1>2, <1>7 DEF N

\* One free block, which is put in its list, is all there is.
LEMMA InitialIsGood ==
    ASSUME NEW indeterminate \in {Null, Junk}
    PROVE  LET a == InitialAllocator(indeterminate)
           IN  Lost(a) \/ (Good(a) /\ InUse(a) = {})
<1> DEFINE one == NewBlock(0, HeapSizeInBytes, Null, Null, indeterminate)
           block == [p \in {1} |-> one]
           list == [c \in Classes |-> Null]
           a == [block |-> block, list |-> list, refreed |-> FALSE, corrupt |-> FALSE]
<1>1. InitialAllocator(indeterminate) = InsertBlock(a, 1)
  BY DEF InitialAllocator
<1>2. /\ one \in Records /\ one.offset = 0 /\ one.size = HeapSizeInBytes /\ one.free = TRUE
      /\ one.nextPhysical = Null /\ one.prevPhysical = Null
  BY TLSFAssumption DEF NewBlock, Records
<1> HIDE DEF one, list
<1>3. {1} \in SUBSET Blocks /\ block \in [{1} -> Records] /\ block[1] = one
  BY <1>2, TLSFAssumption
<1>4. Sound(a) /\ a.block = block /\ DOMAIN a.block = {1}
  BY <1>3, MakesSound
<1> HIDE DEF block, a
<1>5. Geometry({1}, block) /\ Coalesced({1}, block)
  BY <1>2, <1>3, TLSFAssumption DEF Geometry, Coalesced, Behind
<1>6. Good(a)
  BY <1>4, <1>5 DEF Good, Parted
<1>7. InUse(a) = {}
  BY <1>2, <1>3, <1>4 DEF InUse
<1>8. Lost(InsertBlock(a, 1)) \/ SameBlocks(a, InsertBlock(a, 1))
  BY <1>4, Inserted
<1> QED BY <1>1, <1>6, <1>7, <1>8, GoodStays

LEMMA HeapInitially == Init => HeapInv
<1> SUFFICES ASSUME Init PROVE HeapInv
  OBVIOUS
<1>1. Lost(mAllocator) \/ (Good(mAllocator) /\ InUse(mAllocator) = {})
  BY InitialIsGood DEF Init
<1>2. /\ mOwnedAllocationArr = <<>> /\ Created = {}
      /\ mHAllocation \in [Resources -> Blocks \cup {Null}]
  BY DEF Init, Created
<1>3. mOwnedAllocationArr \in Seq(Allocations) /\ DOMAIN mOwnedAllocationArr = {}
  BY <1>2
<1>4. Held(mOwnedAllocationArr) = {}
  BY <1>3 DEF Held
<1> QED BY <1>1, <1>2, <1>3, <1>4 DEF HeapInv, HeapRight

\* What the heap allocates from once the unused allocations are gone.
LEMMA AllocationStep ==
    ASSUME HeapRight, NEW resources \in SUBSET (Resources \ Created), resources # {},
           NEW request \in Requests, AllocateResources(resources, request)
    PROVE  HeapInv'
<1> DEFINE arr == mOwnedAllocationArr
           collected == DeleteUnusedAllocations
           a == collected.allocator
           used == collected.used
           held == Held(used)
<1>1. Collected(mAllocator, arr, collected, Len(arr))
  BY CollectsAll
<1>2. /\ arr \in Seq(Allocations) /\ Len(arr) \in Nat /\ DOMAIN arr = 1 .. Len(arr)
      /\ mHAllocation \in [Resources -> Blocks \cup {Null}]
      /\ InUse(mAllocator) = Held(arr)
      /\ \A i \in DOMAIN arr : Serves(mAllocator, arr[i])
      /\ \A r \in Created : \E i \in DOMAIN arr :
             r \in arr[i].resources /\ arr[i].block = mHAllocation[r]
  BY DEF HeapRight
<1>3. PICK indeterminate \in {Null, Junk} :
        /\ Cardinality(FreshNames(a, held)) >= 2
        /\ IF a.corrupt
           THEN mAllocator' = a
           ELSE LET outcome == CreateAllocation(a, request, held, indeterminate)
                    allocated == [block |-> outcome.block, request |-> request,
                                  resources |-> resources]
                IN  /\ mAllocator' = outcome.allocator
                    /\ mOwnedAllocationArr' = IF outcome.block = Null THEN used
                                              ELSE Append(used, allocated)
                    /\ mHAllocation' = [r \in Resources |->
                           IF r \in resources THEN outcome.block ELSE mHAllocation[r]]
  BY DEF AllocateResources
<1> HIDE DEF collected
<1>4. /\ used \in Seq(Allocations)
      /\ \A i \in DOMAIN used : \E j \in DOMAIN arr : used[i] = arr[j]
      /\ \A j \in DOMAIN arr : HasGPUResourceAssignments(arr[j]) =>
             \E i \in DOMAIN used : used[i] = arr[j]
      /\ \A i, j \in DOMAIN used : used[i].block = used[j].block => i = j
  BY <1>1, <1>2 DEF Collected
<1>5. \/ Lost(a)
      \/ /\ Good(a) /\ InUse(a) = held
         /\ \A p \in InUse(a) : /\ a.block[p].offset = mAllocator.block[p].offset
                                /\ a.block[p].size = mAllocator.block[p].size
  <2>1. Len(arr) + 1 .. Len(arr) = {}
    BY <1>2
  <2>2. {arr[j].block : j \in Len(arr) + 1 .. Len(arr)} = {}
    BY <2>1
  <2>3. \/ Lost(a)
        \/ /\ Good(a)
           /\ InUse(a) = held \cup {arr[j].block : j \in Len(arr) + 1 .. Len(arr)}
           /\ \A p \in InUse(a) : /\ a.block[p].offset = mAllocator.block[p].offset
                                  /\ a.block[p].size = mAllocator.block[p].size
    BY <1>1 DEF Collected
  <2> QED BY <2>2, <2>3
<1>6. ASSUME NEW r \in Created
      PROVE  \E i \in DOMAIN used : r \in used[i].resources /\ used[i].block = mHAllocation[r]
  <2>1. PICK j \in DOMAIN arr : r \in arr[j].resources /\ arr[j].block = mHAllocation[r]
    BY <1>2
  <2>2. HasGPUResourceAssignments(arr[j])
    BY <2>1 DEF HasGPUResourceAssignments
  <2> QED BY <2>1, <2>2, <1>4
<1>7. CASE Lost(a)
  BY <1>3, <1>7 DEF HeapInv, Lost
<1>8. CASE ~Lost(a)
  <2>1. /\ Good(a) /\ InUse(a) = held
        /\ \A p \in InUse(a) : /\ a.block[p].offset = mAllocator.block[p].offset
                               /\ a.block[p].size = mAllocator.block[p].size
    BY <1>5, <1>8
  <2>2. a.corrupt = FALSE /\ DOMAIN a.block \subseteq Blocks /\ Null \notin Blocks
    BY <2>1, TLSFAssumption DEF Good, Parted, Sound
  <2> DEFINE outcome == CreateAllocation(a, request, held, indeterminate)
             b == outcome.block
             c == outcome.allocator
             allocated == [block |-> b, request |-> request, resources |-> resources]
  <2>3. /\ mAllocator' = c
        /\ mOwnedAllocationArr' = IF b = Null THEN used ELSE Append(used, allocated)
        /\ mHAllocation' = [r \in Resources |-> IF r \in resources THEN b ELSE mHAllocation[r]]
    BY <1>3, <2>2
  <2>4. \A i \in DOMAIN used : used[i] \in Allocations /\ used[i].block \in held
    BY <1>4 DEF Held
  <2>5. ASSUME NEW i \in DOMAIN used PROVE Serves(a, used[i])
    <3>1. PICK j \in DOMAIN arr : used[i] = arr[j]
      BY <1>4
    <3>2. Serves(mAllocator, used[i])
      BY <1>2, <3>1
    <3> QED BY <3>2, <2>1, <2>4 DEF Serves
  <2>6. request \in [size : Nat \ {0}, alignment : Nat \ {0}]
    BY HeapAssumption, TLSFAssumption
  <2>7. \/ b = Null /\ c = a
        \/ Lost(c)
        \/ Allocated(a, c, b, request)
    BY <1>3, <2>1, <2>6, Creates
  <2> HIDE DEF outcome, a, used, held
  <2>8. CASE b = Null /\ c = a
    <3>1. mAllocator' = a /\ mOwnedAllocationArr' = used
      BY <2>3, <2>8
    <3>2. \A r \in resources : r \in Resources /\ mHAllocation[r] = Null
      BY DEF Created
    <3>3. mHAllocation' = mHAllocation
      BY <2>3, <2>8, <3>2, <1>2
    <3>4. Created' = Created
      BY <3>3 DEF Created
    <3>5. InUse(mAllocator)' = Held(mOwnedAllocationArr)'
      BY <3>1, <2>1 DEF held
    <3> QED BY <3>1, <3>3, <3>4, <3>5, <2>1, <2>5, <1>2, <1>4, <1>6 DEF HeapInv, HeapRight
  <2>9. CASE Lost(c)
    BY <2>3, <2>9 DEF HeapInv
  <2>10. CASE Allocated(a, c, b, request)
    <3>1. /\ Good(c) /\ b \in InUse(c) /\ b \in DOMAIN a.block /\ b \notin held
          /\ c.block[b].size = request.size /\ c.block[b].offset % request.alignment = 0
          /\ InUse(c) \ {b} = InUse(a) \ {b}
          /\ \A p \in InUse(a) \ {b} : /\ c.block[p].offset = a.block[p].offset
                                       /\ c.block[p].size = a.block[p].size
      BY <2>1, <2>10 DEF Allocated, Keeps
    <3>2. b \in Blocks /\ b # Null
      BY <3>1, <2>2
    <3> DEFINE next == Append(used, allocated)
    <3>3. allocated \in Allocations
      BY <3>2 DEF Allocations
    <3>4. /\ next \in Seq(Allocations) /\ DOMAIN next = DOMAIN used \cup {Len(used) + 1}
          /\ Len(used) + 1 \notin DOMAIN used /\ next[Len(used) + 1] = allocated
          /\ \A i \in DOMAIN used : next[i] = used[i]
      BY <3>3, <1>4
    <3>5. mOwnedAllocationArr' = next
      BY <2>3, <3>2
    <3> HIDE DEF next
    <3>6. Held(next) = held \cup {b}
      BY <3>4 DEF Held, held
    <3>7. InUse(c) = Held(next)
      BY <3>1, <3>6, <2>1
    <3>8. ASSUME NEW i \in DOMAIN next PROVE Serves(c, next[i])
      <4>1. CASE i \in DOMAIN used
        <5>1. used[i].block \in InUse(a) \ {b} /\ Serves(a, used[i])
          BY <4>1, <2>1, <2>4, <2>5, <3>1
        <5> QED BY <5>1, <4>1, <3>1, <3>4 DEF Serves
      <4>2. CASE i = Len(used) + 1
        BY <4>2, <3>1, <3>4 DEF Serves
      <4> QED BY <4>1, <4>2, <3>4
    <3>9. \A i, j \in DOMAIN next : next[i].block = next[j].block => i = j
      <4>1. \A i \in DOMAIN used : used[i].block # b
        BY <2>4, <3>1
      <4> QED BY <4>1, <1>4, <3>4
    <3>10. mHAllocation' \in [Resources -> Blocks \cup {Null}]
      BY <2>3, <3>2, <1>2
    <3>11. ASSUME NEW r \in Created'
           PROVE  \E i \in DOMAIN next : r \in next[i].resources /\ next[i].block = mHAllocation'[r]
      <4>1. CASE r \in resources
        <5>1. mHAllocation'[r] = b
          BY <4>1, <2>3
        <5> QED BY <4>1, <5>1, <3>4
      <4>2. CASE r \notin resources
        <5>1. r \in Created /\ mHAllocation'[r] = mHAllocation[r]
          BY <4>2, <2>3 DEF Created
        <5>2. PICK i \in DOMAIN used : r \in used[i].resources /\ used[i].block = mHAllocation[r]
          BY <5>1, <1>6
        <5> QED BY <5>1, <5>2, <3>4
      <4> QED BY <4>1, <4>2
    <3>12. \A i \in DOMAIN mOwnedAllocationArr' : Serves(mAllocator', mOwnedAllocationArr'[i])
      BY <3>5, <3>8, <2>3
    <3>13. Good(mAllocator)' /\ InUse(mAllocator)' = Held(mOwnedAllocationArr)'
      BY <2>3, <3>1, <3>5, <3>7
    <3>14. /\ mOwnedAllocationArr' \in Seq(Allocations)
           /\ \A i, j \in DOMAIN mOwnedAllocationArr' :
                 mOwnedAllocationArr'[i].block = mOwnedAllocationArr'[j].block => i = j
      BY <3>4, <3>5, <3>9
    <3>15. \A r \in Created' : \E i \in DOMAIN mOwnedAllocationArr' :
              r \in mOwnedAllocationArr'[i].resources /\ mOwnedAllocationArr'[i].block = mHAllocation'[r]
      BY <3>5, <3>11
    <3> QED BY <3>10, <3>12, <3>13, <3>14, <3>15 DEF HeapInv, HeapRight
  <2> QED BY <2>7, <2>8, <2>9, <2>10
<1> QED BY <1>7, <1>8

LEMMA RevocationStep ==
    ASSUME HeapRight, NEW r \in Resources, RevokeGPUResourceAssignment(r)
    PROVE  HeapRight'
<1> DEFINE arr == mOwnedAllocationArr
           next == mOwnedAllocationArr'
<1>1. /\ arr \in Seq(Allocations) /\ Good(mAllocator) /\ DOMAIN arr = 1 .. Len(arr)
      /\ mHAllocation \in [Resources -> Blocks \cup {Null}]
      /\ InUse(mAllocator) = Held(arr)
      /\ \A i \in DOMAIN arr : Serves(mAllocator, arr[i])
      /\ \A i, j \in DOMAIN arr : arr[i].block = arr[j].block => i = j
      /\ \A s \in Created : \E i \in DOMAIN arr :
             s \in arr[i].resources /\ arr[i].block = mHAllocation[s]
  BY DEF HeapRight
<1>2. /\ next = [i \in DOMAIN arr |->
                    IF arr[i].block # mHAllocation[r] THEN arr[i]
                    ELSE [arr[i] EXCEPT !.resources = @ \ {r}]]
      /\ mHAllocation' = [mHAllocation EXCEPT ![r] = Null] /\ mAllocator' = mAllocator
  BY DEF RevokeGPUResourceAssignment
<1>3. ASSUME NEW i \in DOMAIN arr
      PROVE  /\ next[i] \in Allocations /\ next[i].block = arr[i].block
             /\ next[i].request = arr[i].request /\ arr[i].resources \ {r} \subseteq next[i].resources
  <2>1. arr[i] \in Allocations
    BY <1>1
  <2> DEFINE less == [arr[i] EXCEPT !.resources = @ \ {r}]
  <2>2. /\ less \in Allocations /\ less.block = arr[i].block
        /\ less.request = arr[i].request /\ less.resources = arr[i].resources \ {r}
    BY <2>1 DEF Allocations
  <2>3. next[i] = arr[i] \/ next[i] = less
    BY <1>2
  <2> QED BY <2>1, <2>2, <2>3
<1>4. DOMAIN next = DOMAIN arr
  BY <1>2
<1>5. next \in Seq(Allocations)
  <2>1. Len(arr) \in Nat
    BY <1>1
  <2>2. next \in [1 .. Len(arr) -> Allocations]
    BY <1>1, <1>2, <1>3
  <2> QED BY <2>1, <2>2, SeqDef
<1>6. Held(next) = Held(arr)
  BY <1>3, <1>4 DEF Held
<1>7. \A i \in DOMAIN next : Serves(mAllocator, next[i])
  BY <1>1, <1>3, <1>4 DEF Serves
<1>8. \A i, j \in DOMAIN next : next[i].block = next[j].block => i = j
  BY <1>1, <1>3, <1>4
<1>9. mHAllocation' \in [Resources -> Blocks \cup {Null}]
  BY <1>1, <1>2
<1>10. ASSUME NEW s \in Created'
       PROVE  \E i \in DOMAIN next : s \in next[i].resources /\ next[i].block = mHAllocation'[s]
  <2>1. s \in Created /\ s # r /\ mHAllocation'[s] = mHAllocation[s]
    BY <1>1, <1>2 DEF Created
  <2>2. PICK i \in DOMAIN arr : s \in arr[i].resources /\ arr[i].block = mHAllocation[s]
    BY <1>1, <2>1
  <2> QED BY <2>1, <2>2, <1>3, <1>4
<1>11. InUse(mAllocator)' = Held(mOwnedAllocationArr)'
  BY <1>1, <1>2, <1>6
<1>12. Good(mAllocator)' /\ \A i \in DOMAIN next : Serves(mAllocator', next[i])
  BY <1>1, <1>2, <1>7
<1> QED BY <1>5, <1>8, <1>9, <1>10, <1>11, <1>12 DEF HeapRight

LEMMA HeapStep == HeapInv /\ [Next]_vars => HeapInv'
<1> SUFFICES ASSUME HeapInv, [Next]_vars PROVE HeapInv'
  OBVIOUS
<1>1. CASE UNCHANGED vars
  <2>1. mAllocator' = mAllocator /\ UNCHANGED <<mOwnedAllocationArr, mHAllocation>>
    BY <1>1 DEF vars
  <2> QED BY <2>1 DEF HeapInv, HeapRight, Created
<1>2. CASE Next
  <2>1. ~mAllocator.corrupt
    BY <1>2 DEF Next, AllocateResources, RevokeGPUResourceAssignment
  <2>2. HeapRight
    BY <2>1 DEF HeapInv, Lost
  <2>3. ASSUME NEW resources \in SUBSET (Resources \ Created), NEW request \in Requests,
               resources # {}, AllocateResources(resources, request)
        PROVE  HeapInv'
    BY <2>2, <2>3, AllocationStep
  <2>4. ASSUME NEW r \in Resources, RevokeGPUResourceAssignment(r)
        PROVE  HeapInv'
    BY <2>2, <2>4, RevocationStep DEF HeapInv
  <2> QED BY <1>2, <2>3, <2>4 DEF Next
<1> QED BY <1>1, <1>2

LEMMA GoodIsTiled == HeapInv => BlocksTileHeap
<1> SUFFICES ASSUME HeapInv, ~mAllocator.corrupt PROVE BlocksTileHeap
  BY DEF BlocksTileHeap
<1> DEFINE blk == mAllocator.block
           S == DOMAIN blk
           H == HeapSizeInBytes
<1>1. /\ Geometry(S, blk) /\ Coalesced(S, blk) /\ S \subseteq Blocks /\ Null \notin S
      /\ H \in Nat \ {0}
  BY TLSFAssumption DEF HeapInv, HeapRight, Lost, Good, Parted, Sound
<1> HIDE DEF blk, S
<1>2. \A p \in S : /\ blk[p].offset \in Nat /\ blk[p].size \in Nat \ {0}
                   /\ blk[p].offset + blk[p].size <= H
  BY <1>1 DEF Geometry, Records, Behind
<1>3. \A p, q \in S : p # q => \/ blk[p].offset + blk[p].size <= blk[q].offset
                               \/ blk[q].offset + blk[q].size <= blk[p].offset
  BY <1>1 DEF Geometry, Behind
<1>4. UNION {Bytes(blk[p]) : p \in S} = 0 .. H - 1
  <2>1. ASSUME NEW p \in S PROVE Bytes(blk[p]) \subseteq 0 .. H - 1
    BY <1>1, <1>2 DEF Bytes
  <2>2. ASSUME NEW x \in 0 .. H - 1 PROVE \E p \in S : x \in Bytes(blk[p])
    <3>1. PICK p \in S : blk[p].offset <= x /\ x < blk[p].offset + blk[p].size
      BY <1>1 DEF Geometry, Behind
    <3> QED BY <3>1, <1>2 DEF Bytes
  <2> QED BY <2>1, <2>2
<1>5. \A p, q \in S : p # q => Bytes(blk[p]) \cap Bytes(blk[q]) = {}
  BY <1>2, <1>3 DEF Bytes
<1>6. ASSUME NEW p \in S
      PROVE  blk[p].nextPhysical =
                IF blk[p].offset + blk[p].size = H THEN Null
                ELSE CHOOSE q \in S : blk[q].offset = blk[p].offset + blk[p].size
  <2> DEFINE n == blk[p].nextPhysical
             e == blk[p].offset + blk[p].size
  <2>1. IF n = Null THEN e = H ELSE n \in S /\ blk[n].offset = e
    BY <1>1 DEF Geometry, Behind
  <2> HIDE DEF n, e
  <2>2. n # Null => e # H
    BY <2>1, <1>1, <1>2
  <2>3. ASSUME n # Null PROVE n = CHOOSE q \in S : blk[q].offset = e
    <3>1. \A q \in S : blk[q].offset = e => q = n
      BY <2>1, <2>3, <1>2, <1>3
    <3> QED BY <3>1, <2>1, <2>3
  <2> QED BY <2>1, <2>2, <2>3 DEF n, e
<1>7. \A p, q \in S : blk[p].nextPhysical = q <=> blk[q].prevPhysical = p
  BY <1>1, Neighbours
<1>8. \A p, q \in S : blk[p].nextPhysical = q => ~(blk[p].free /\ blk[q].free)
  BY <1>1 DEF Coalesced
<1>9. \A p \in S : blk[p].size > 0
  BY <1>2
<1> QED BY <1>4, <1>5, <1>6, <1>7, <1>8, <1>9 DEF BlocksTileHeap, Block, LiveBlocks, S, blk

LEMMA RightIsApart == HeapInv => AllocationsApart
<1> SUFFICES ASSUME HeapInv, ~mAllocator.corrupt PROVE AllocationsApart
  BY DEF AllocationsApart
<1>1. HeapRight
  BY DEF HeapInv, Lost
<1>2. \A i \in DOMAIN mOwnedAllocationArr :
          /\ mOwnedAllocationArr[i].block \in InUse(mAllocator)
          /\ Serves(mAllocator, mOwnedAllocationArr[i])
          /\ \A j \in DOMAIN mOwnedAllocationArr :
                mOwnedAllocationArr[i].block = mOwnedAllocationArr[j].block => i = j
  BY <1>1 DEF HeapRight, Held
<1>3. \A p \in LiveBlocks : Block(p).free <=> p \notin Held(mOwnedAllocationArr)
  BY <1>1 DEF HeapRight, LiveBlocks, Block, InUse
<1>4. \A r \in Created : \E i \in DOMAIN mOwnedAllocationArr :
          /\ r \in mOwnedAllocationArr[i].resources
          /\ mOwnedAllocationArr[i].block = mHAllocation[r]
  BY <1>1 DEF HeapRight
<1> QED BY <1>2, <1>3, <1>4 DEF AllocationsApart, Serves, LiveBlocks, Block, InUse

\* The blocks of a heap divide it up, no two free ones are neighbours, and the blocks
\* in use are those of its allocations, whatever is allocated from GPUResourceHeap and
\* destroyed: unless a pointer to a deleted block is followed, of which nothing is known.
THEOREM HeapIsDividedUpTheorem == Spec => []HeapIsDividedUp
<1>1. HeapInv => HeapIsDividedUp
  BY GoodIsTiled, RightIsApart DEF HeapIsDividedUp
<1> QED BY HeapInitially, HeapStep, <1>1, PTL DEF Spec

-----------------------------------------------------------------------------
(* Sub-allocations of a buffer.                                              *)

Reservations == [block : Blocks, mReadyForDestruction : BOOLEAN]
WriteRequests == [bytes : SUBSET (0 .. HeapSizeInBytes - 1), data : UNION {Data[s] : s \in SubAllocations}]
MemoryOf(a, p) == a.block[p].offset .. a.block[p].offset + a.block[p].size - 1

\* Every reservation has a block of its own, in use, and every valid handle a
\* reservation of its own, not marked and large enough.
ReservationsRight ==
    LET a == mBufferMemoryAllocator
        arr == mReservationPtrArr
        h == mHReservation
    IN  /\ Good(a)
        /\ arr \in Seq(Reservations)
        /\ \A i, j \in DOMAIN arr : arr[i].block = arr[j].block => i = j
        /\ \A i \in DOMAIN arr : arr[i].block \in InUse(a)
        /\ h \in [SubAllocations -> Blocks \cup {Null}]
        /\ \A s \in SubAllocations : h[s] # Null =>
              /\ \E i \in DOMAIN arr : arr[i] = [block |-> h[s], mReadyForDestruction |-> FALSE]
              /\ Requirement[s].size <= a.block[h[s]].size
        /\ \A s, t \in SubAllocations : h[s] = h[t] /\ h[s] # Null => s = t

\* What was written last is in the buffer and no request is on its way there, or
\* it is the last of the requests on their way there.
Stays(request) ==
    \/ /\ \A byte \in request.bytes : contents[byte] = request.data
       /\ \A i \in DOMAIN mPendingWriteRequestArr :
             mPendingWriteRequestArr[i].bytes \cap request.bytes = {}
    \/ \E i \in DOMAIN mPendingWriteRequestArr :
          /\ mPendingWriteRequestArr[i] = request
          /\ \A j \in DOMAIN mPendingWriteRequestArr :
                j > i => mPendingWriteRequestArr[j].bytes \cap request.bytes = {}

DataRight ==
    /\ contents = [byte \in 0 .. HeapSizeInBytes - 1 |-> contents[byte]]
    /\ mPendingWriteRequestArr \in Seq(WriteRequests)
    /\ creation = "initialized" => mPendingWriteRequestArr = <<>>
    /\ written \in [SubAllocations -> WriteRequests \cup {Nothing}]
    /\ writing \in [SubAllocations -> WriteRequests \cup {Nothing}]
    /\ \A s \in SubAllocations : writing[s] # Nothing =>
          /\ mHReservation[s] # Null /\ creation # "none"
          /\ writing[s].bytes \subseteq MemoryOf(mBufferMemoryAllocator, mHReservation[s])
    /\ \A s \in SubAllocations : mHReservation[s] # Null /\ written[s] # Nothing =>
          /\ written[s].bytes \subseteq MemoryOf(mBufferMemoryAllocator, mHReservation[s])
          /\ s \notin overtaken => Stays(written[s])

BufferRight == ReservationsRight /\ DataRight
BufferInv == Lost(mBufferMemoryAllocator) \/ BufferRight

\* DeleteAllocation once more, of a block that is free already: it is put in its
\* list a second time.
LEMMA DeletedTwice ==
    ASSUME NEW a, Good(a), NEW b \in DOMAIN a.block, a.block[b].free
    PROVE  LET c == DeleteAllocation(a, b)
           IN  Lost(c) \/ SameBlocks(a, c)
<1> DEFINE n == a.block[b].nextPhysical
           p == a.block[b].prevPhysical
           f == [a EXCEPT !.block[b].free = TRUE]
           y == f.refreed \/ a.block[b].free
           freed == [f EXCEPT !.refreed = y]
<1>1. /\ Sound(a) /\ a.block \in [DOMAIN a.block -> Records]
      /\ Coalesced(DOMAIN a.block, a.block) /\ a.block[b].free = TRUE
  BY DEF Good, Parted, Sound, Records
<1>2. /\ n = Null \/ n \in DOMAIN a.block
      /\ p = Null \/ p \in DOMAIN a.block
      /\ p # Null => a.block[p].nextPhysical = b
      /\ Null \notin DOMAIN a.block
  BY NeighboursOfGood
<1>3. ~IsFree(a, n) /\ ~IsFree(a, p)
  BY <1>1, <1>2 DEF IsFree, Coalesced
<1>4. DeleteAllocation(a, b) = Settle(freed, b, FALSE)
  <2>1. Merged(a, b) = a /\ Freed(a, a, b) = freed
    BY <1>3 DEF Merged, Freed
  <2>2. {b, n, p} \ {Null} \subseteq DOMAIN a.block
    BY <1>2
  <2>3. IsFree(a, p) = FALSE
    BY <1>3 DEF IsFree
  <2> HIDE DEF freed
  <2> QED BY <1>3, <2>1, <2>2, <2>3 DEF DeleteAllocation
<1>5. Sound(f) /\ Marked(a, f, b, TRUE)
  BY <1>1, FreeStored
<1>6. Sound(freed) /\ freed.block = f.block
  <2> HIDE DEF f, y
  <2> QED BY <1>5, RefreedStored
<1>7. SameBlocks(a, freed) /\ b \in DOMAIN freed.block
  BY <1>1, <1>5, <1>6 DEF SameBlocks, SameBlock, Marked
<1> HIDE DEF freed
<1>8. DeleteAllocation(a, b) = InsertBlock(freed, b)
  BY <1>4, <1>6 DEF Settle, Sound
<1>9. Lost(InsertBlock(freed, b)) \/ SameBlocks(freed, InsertBlock(freed, b))
  BY <1>6, <1>7, Inserted
<1> HIDE DEF n, p, f, y
<1>10. CASE SameBlocks(freed, InsertBlock(freed, b))
  <2>1. SameBlocks(a, InsertBlock(freed, b))
    BY <1>7, <1>10 DEF SameBlocks, SameBlock
  <2> QED BY <1>8, <2>1
<1> QED BY <1>8, <1>9, <1>10

\* Of the blocks of a, those of the reservations that are not ready are where they
\* were in c.
Spares(a, c) ==
    \/ Lost(c)
    \/ /\ Good(c)
       /\ \A i \in DOMAIN mReservationPtrArr :
             LET p == mReservationPtrArr[i].block
             IN  ~ReadyForDestruction(mReservationPtrArr[i]) =>
                    /\ p \in InUse(c)
                    /\ c.block[p].offset = a.block[p].offset
                    /\ c.block[p].size = a.block[p].size

\* A block that is returned is not one of those, so whatever was returned before,
\* they stay where they are.
LEMMA ReturnSpares ==
    ASSUME NEW a, NEW c, Spares(a, c), NEW i \in DOMAIN mReservationPtrArr,
           \A j, k \in DOMAIN mReservationPtrArr :
               mReservationPtrArr[j].block = mReservationPtrArr[k].block => j = k
    PROVE  /\ ReadyForDestruction(mReservationPtrArr[i]) =>
                 Spares(a, DeleteSubAllocation(c, mReservationPtrArr[i]))
           /\ Spares(a, Destroy(c, mReservationPtrArr[i]))
<1> DEFINE r == mReservationPtrArr[i]
           b == r.block
           d == DeleteSubAllocation(c, r)
<1>1. ASSUME ReadyForDestruction(r) PROVE Spares(a, d)
  <2>1. CASE Lost(c)
    <3>1. d = Corrupted(c)
      BY <2>1 DEF DeleteSubAllocation, Lost
    <3>2. Lost(Corrupted(c))
      BY <2>1, CorruptStored DEF Corrupted, Lost
    <3> QED BY <3>1, <3>2 DEF Spares
  <2>2. CASE Good(c) /\ b \notin DOMAIN c.block
    <3>1. d = Corrupted(c)
      BY <2>2 DEF DeleteSubAllocation, Live
    <3>2. Lost(Corrupted(c))
      BY <2>2, CorruptStored DEF Corrupted, Lost, Good, Parted, Sound
    <3> QED BY <3>1, <3>2 DEF Spares
  <2>3. CASE Good(c) /\ b \in DOMAIN c.block
    <3>1. d = DeleteAllocation(c, b)
      BY <2>3 DEF DeleteSubAllocation, Live, Good, Parted, Sound
    <3>2. Lost(d) \/ (Good(d) /\ Keeps(c, d, b))
      <4>1. CASE b \in InUse(c)
        BY <4>1, <2>3, <3>1, Deleted
      <4>2. CASE b \notin InUse(c)
        <5>1. c.block[b].free
          BY <4>2, <2>3 DEF InUse
        <5>2. Lost(d) \/ SameBlocks(c, d)
          BY <5>1, <2>3, <3>1, DeletedTwice
        <5>3. ASSUME SameBlocks(c, d) PROVE Good(d) /\ Keeps(c, d, b)
          <6>1. InUse(c) \subseteq DOMAIN c.block
            BY DEF InUse
          <6> QED BY <2>3, <5>3, <6>1, GoodStays DEF Keeps
        <5> QED BY <5>2, <5>3
      <4> QED BY <4>1, <4>2
    <3> HIDE DEF d
    <3>3. ASSUME ~Lost(d), NEW j \in DOMAIN mReservationPtrArr,
                 ~ReadyForDestruction(mReservationPtrArr[j])
          PROVE  LET p == mReservationPtrArr[j].block
                 IN  /\ p \in InUse(d)
                     /\ d.block[p].offset = a.block[p].offset
                     /\ d.block[p].size = a.block[p].size
      <4> DEFINE p == mReservationPtrArr[j].block
      <4>1. p # b
        BY <1>1, <3>3
      <4>2. /\ p \in InUse(c) /\ c.block[p].offset = a.block[p].offset
            /\ c.block[p].size = a.block[p].size
        BY <2>3, <3>3 DEF Spares, Lost, Good, Parted, Sound
      <4> QED BY <3>2, <3>3, <4>1, <4>2 DEF Keeps
    <3> QED BY <3>2, <3>3 DEF Spares
  <2> QED BY <2>1, <2>2, <2>3 DEF Spares
<1> HIDE DEF d
<1> QED BY <1>1 DEF Destroy, d

\* What EraseReady has made once it has looked at the first n of the reservations:
\* those that are not ready are kept.
Visited(done, n) ==
    /\ Spares(mBufferMemoryAllocator, done.allocator)
    /\ done.kept \in Seq(Reservations) /\ Len(done.kept) <= n
    /\ \A i \in DOMAIN done.kept : /\ ~ReadyForDestruction(done.kept[i])
                                   /\ \E j \in 1 .. n : done.kept[i] = mReservationPtrArr[j]
    /\ \A j \in 1 .. n : ~ReadyForDestruction(mReservationPtrArr[j]) =>
          \E i \in DOMAIN done.kept : done.kept[i] = mReservationPtrArr[j]
    /\ \A i, j \in DOMAIN done.kept : done.kept[i].block = done.kept[j].block => i = j

\* The predicate is asked about one more reservation, and one that is kept is moved.
LEMMA VisitsOne ==
    ASSUME ReservationsRight, NEW n \in 1 .. Len(mReservationPtrArr), NEW done,
           Visited(done, n - 1)
    PROVE  Visited(Visit(done, n), n)
<1> DEFINE arr == mReservationPtrArr
           r == arr[n]
           kept == done.kept
           place == Len(kept) + 1
           next == Visit(done, n)
<1>1. /\ arr \in Seq(Reservations) /\ Len(arr) \in Nat /\ DOMAIN arr = 1 .. Len(arr)
      /\ \A i, j \in DOMAIN arr : arr[i].block = arr[j].block => i = j
  BY DEF ReservationsRight
<1>2. /\ r \in Reservations /\ n \in DOMAIN arr /\ n \in Nat /\ n - 1 \in Nat
      /\ 1 .. n = (1 .. n - 1) \cup {n} /\ n \notin 1 .. n - 1 /\ 1 .. n \subseteq DOMAIN arr
  BY <1>1
<1>3. /\ Spares(mBufferMemoryAllocator, done.allocator)
      /\ kept \in Seq(Reservations) /\ Len(kept) <= n - 1
      /\ \A i \in DOMAIN kept : /\ ~ReadyForDestruction(kept[i])
                                /\ \E j \in 1 .. n - 1 : kept[i] = arr[j]
      /\ \A j \in 1 .. n - 1 : ~ReadyForDestruction(arr[j]) =>
            \E i \in DOMAIN kept : kept[i] = arr[j]
      /\ \A i, j \in DOMAIN kept : kept[i].block = kept[j].block => i = j
  BY DEF Visited
<1>4. place \in 1 .. n /\ place \in DOMAIN arr
  BY <1>1, <1>2, <1>3
<1>5. CASE ReadyForDestruction(r)
  <2>1. next.allocator = DeleteSubAllocation(done.allocator, r) /\ next.kept = kept
    BY <1>5 DEF Visit
  <2>2. Spares(mBufferMemoryAllocator, next.allocator)
    BY <1>1, <1>2, <1>3, <1>5, <2>1, ReturnSpares
  <2> HIDE DEF next, arr, kept
  <2>3. \A j \in 1 .. n : ~ReadyForDestruction(arr[j]) => \E i \in DOMAIN kept : kept[i] = arr[j]
    BY <1>2, <1>3, <1>5
  <2>4. \A i \in DOMAIN kept : /\ ~ReadyForDestruction(kept[i])
                               /\ \E j \in 1 .. n : kept[i] = arr[j]
    BY <1>2, <1>3
  <2>5. Len(kept) <= n
    BY <1>2, <1>3
  <2>6. Visited(next, n)
    BY <1>3, <2>1, <2>2, <2>3, <2>4, <2>5 DEF Visited, arr
  <2> QED BY <2>6 DEF next
<1>6. CASE ~ReadyForDestruction(r)
  <2>1. /\ next.allocator = IF place = n THEN done.allocator
                            ELSE Destroy(done.allocator, arr[place])
        /\ next.kept = Append(kept, r)
    BY <1>6 DEF Visit
  <2>2. Spares(mBufferMemoryAllocator, next.allocator)
    <3>1. Spares(mBufferMemoryAllocator, Destroy(done.allocator, arr[place]))
      BY <1>1, <1>3, <1>4, ReturnSpares
    <3> QED BY <1>3, <2>1, <3>1
  <2> HIDE DEF next, kept
  <2>3. /\ next.kept \in Seq(Reservations) /\ Len(next.kept) = Len(kept) + 1
        /\ DOMAIN next.kept = DOMAIN kept \cup {Len(kept) + 1}
        /\ Len(kept) + 1 \notin DOMAIN kept
        /\ next.kept[Len(kept) + 1] = r
        /\ \A i \in DOMAIN kept : next.kept[i] = kept[i]
    BY <1>2, <1>3, <2>1
  <2>4. Len(next.kept) <= n
    BY <1>2, <1>3, <2>3
  <2> HIDE DEF arr
  <2>5. ASSUME NEW i \in DOMAIN next.kept
        PROVE  /\ ~ReadyForDestruction(next.kept[i])
               /\ \E j \in 1 .. n : next.kept[i] = arr[j]
    <3>1. CASE i \in DOMAIN kept
      <4>1. PICK j \in 1 .. n - 1 : kept[i] = arr[j]
        BY <1>3, <3>1
      <4>2. j \in 1 .. n /\ next.kept[i] = kept[i] /\ ~ReadyForDestruction(kept[i])
        BY <1>2, <1>3, <2>3, <3>1
      <4> QED BY <4>1, <4>2
    <3>2. CASE i = Len(kept) + 1
      <4>1. n \in 1 .. n /\ next.kept[i] = arr[n]
        BY <1>2, <2>3, <3>2
      <4> QED BY <4>1, <1>6
    <3> QED BY <3>1, <3>2, <2>3
  <2>6. \A j \in 1 .. n : ~ReadyForDestruction(arr[j]) =>
           \E i \in DOMAIN next.kept : next.kept[i] = arr[j]
    <3>1. ASSUME NEW j \in 1 .. n, ~ReadyForDestruction(arr[j])
          PROVE  \E i \in DOMAIN next.kept : next.kept[i] = arr[j]
      <4>1. CASE j = n
        BY <2>3, <4>1
      <4>2. CASE j # n
        <5>1. PICK i \in DOMAIN kept : kept[i] = arr[j]
          BY <1>2, <1>3, <3>1, <4>2
        <5> QED BY <5>1, <2>3
      <4> QED BY <4>1, <4>2
    <3> QED BY <3>1
  <2>7. \A i, j \in DOMAIN next.kept : next.kept[i].block = next.kept[j].block => i = j
    <3>1. \A i \in DOMAIN kept : kept[i].block # r.block
      BY <1>1, <1>2, <1>3
    <3> HIDE DEF r
    <3> QED BY <1>3, <2>3, <3>1
  <2>8. Visited(next, n)
    BY <2>2, <2>3, <2>4, <2>5, <2>6, <2>7 DEF Visited, arr
  <2> QED BY <2>8 DEF next
<1> QED BY <1>5, <1>6

\* One more of those left at the end is destroyed.
LEMMA FinishesOne ==
    ASSUME ReservationsRight, NEW n \in DOMAIN mReservationPtrArr, NEW done,
           Visited(done, Len(mReservationPtrArr))
    PROVE  Visited(Finish(done, n), Len(mReservationPtrArr))
<1>1. CASE n <= Len(done.kept)
  BY <1>1 DEF Finish
<1>2. CASE ~(n <= Len(done.kept))
  <2> DEFINE next == Finish(done, n)
  <2>1. /\ next.allocator = Destroy(done.allocator, mReservationPtrArr[n])
        /\ next.kept = done.kept
    BY <1>2 DEF Finish
  <2>2. Spares(mBufferMemoryAllocator, next.allocator)
    BY <2>1, ReturnSpares DEF Visited, ReservationsRight
  <2> HIDE DEF next
  <2>3. Visited(next, Len(mReservationPtrArr))
    BY <2>1, <2>2 DEF Visited
  <2> QED BY <2>3 DEF next
<1> QED BY <1>1, <1>2

\* As for DeleteUnusedAllocations: every beginning of the function EraseReady is
\* defined with exists, so all of it does.
LEMMA ErasesAll ==
    ASSUME ReservationsRight
    PROVE  Visited(EraseReady, Len(mReservationPtrArr))
<1> DEFINE arr == mReservationPtrArr
           last == Len(arr)
           N == 2 * last
           base == [allocator |-> mBufferMemoryAllocator, kept |-> <<>>]
           Step(done, n) == IF n <= last THEN Visit(done, n) ELSE Finish(done, n - last)
           Runs(f, n) == f = [m \in 0 .. n |-> IF m = 0 THEN base ELSE Step(f[m - 1], m)]
           failing == {n \in 0 .. N : ~\E f : Runs(f, n)}
           all == CHOOSE f : Runs(f, N)
<1>1. /\ arr \in Seq(Reservations) /\ last \in Nat /\ N \in Nat /\ DOMAIN arr = 1 .. last
      /\ \A i, j \in DOMAIN arr : arr[i].block = arr[j].block => i = j
  BY DEF ReservationsRight
<1>2. EraseReady = all[N]
  BY DEF EraseReady
<1> HIDE DEF base, Step, N, last
<1>3. failing = {}
  <2> SUFFICES ASSUME failing # {} PROVE FALSE
    OBVIOUS
  <2>1. failing \in SUBSET Nat
    BY <1>1
  <2>2. PICK n \in failing : \A m \in failing : n <= m
    <3> HIDE DEF failing
    <3> QED BY <2>1, LeastNatural
  <2>3. n \in 0 .. N /\ n \in Nat /\ \A f : ~Runs(f, n)
    BY <2>1
  <2>4. CASE n = 0
    <3> DEFINE f == [m \in 0 .. 0 |-> base]
    <3>1. \A m \in 0 .. 0 : m = 0
      OBVIOUS
    <3>2. f = [m \in 0 .. 0 |-> IF m = 0 THEN base ELSE Step(f[m - 1], m)]
      BY <3>1
    <3> HIDE DEF f
    <3>3. Runs(f, n)
      BY <3>2, <2>4
    <3> QED BY <3>3, <2>3
  <2>5. CASE n # 0
    <3>1. n - 1 \in 0 .. N /\ n - 1 \notin failing /\ n - 1 \in Nat
      <4>1. n - 1 \in 0 .. N /\ ~(n <= n - 1)
        BY <2>3, <2>5, <1>1
      <4> HIDE DEF failing
      <4> QED BY <4>1, <2>2
    <3>2. PICK g : Runs(g, n - 1)
      BY <3>1
    <3> DEFINE f == [m \in 0 .. n |-> IF m = n THEN Step(g[n - 1], n) ELSE g[m]]
    <3>3. ASSUME NEW m \in 0 .. n
          PROVE  f[m] = IF m = 0 THEN base ELSE Step(f[m - 1], m)
      <4>1. CASE m = n
        <5>1. f[m] = Step(g[n - 1], n) /\ n - 1 \in 0 .. n /\ n - 1 # n
          BY <4>1, <2>3, <2>5
        <5>2. f[n - 1] = g[n - 1]
          BY <5>1
        <5> HIDE DEF f
        <5> QED BY <4>1, <5>1, <5>2, <2>5
      <4>2. CASE m # n
        <5>1. m \in 0 .. n - 1 /\ f[m] = g[m]
          BY <4>2, <2>3
        <5>2. g[m] = IF m = 0 THEN base ELSE Step(g[m - 1], m)
          BY <5>1, <3>2
        <5>3. m # 0 => f[m - 1] = g[m - 1]
          BY <5>1, <2>3
        <5> HIDE DEF f
        <5> QED BY <5>1, <5>2, <5>3
      <4> QED BY <4>1, <4>2
    <3>4. f = [m \in 0 .. n |-> f[m]]
      OBVIOUS
    <3> HIDE DEF f
    <3>5. [m \in 0 .. n |-> f[m]] = [m \in 0 .. n |-> IF m = 0 THEN base ELSE Step(f[m - 1], m)]
      BY <3>3
    <3>6. Runs(f, n)
      BY <3>4, <3>5
    <3> QED BY <3>6, <2>3
  <2> QED BY <2>4, <2>5
<1>4. Runs(all, N)
  <2>1. N \in 0 .. N /\ N \notin failing
    BY <1>1, <1>3
  <2>2. \E f : Runs(f, N)
    BY <2>1
  <2> HIDE DEF Runs
  <2> QED BY <2>2
<1> HIDE DEF all, failing
<1>5. \A n \in 0 .. N : all[n] = IF n = 0 THEN base ELSE Step(all[n - 1], n)
  BY <1>4
<1> DEFINE Seen(n) == IF n <= last THEN n ELSE last
           wrong == {n \in 0 .. N : ~Visited(all[n], Seen(n))}
<1>6. wrong = {}
  <2> SUFFICES ASSUME wrong # {} PROVE FALSE
    OBVIOUS
  <2>1. wrong \in SUBSET Nat
    BY <1>1
  <2>2. PICK n \in wrong : \A m \in wrong : n <= m
    <3> HIDE DEF wrong
    <3> QED BY <2>1, LeastNatural
  <2>3. n \in 0 .. N /\ ~Visited(all[n], Seen(n))
    OBVIOUS
  <2>4. CASE n = 0
    <3>1. all[n] = base /\ Seen(n) = 0
      BY <2>3, <2>4, <1>1, <1>5
    <3>2. base.kept = <<>> /\ base.allocator = mBufferMemoryAllocator
      BY DEF base
    <3>3. Spares(mBufferMemoryAllocator, mBufferMemoryAllocator)
      BY DEF Spares, ReservationsRight
    <3>4. Visited(base, 0)
      <4>1. <<>> \in Seq(Reservations) /\ DOMAIN <<>> = {} /\ 1 .. 0 = {} /\ Len(<<>>) = 0
        OBVIOUS
      <4> QED BY <3>2, <3>3, <4>1 DEF Visited
    <3> QED BY <2>3, <3>1, <3>4
  <2>5. CASE n # 0
    <3>1. /\ n - 1 \in 0 .. N /\ ~(n <= n - 1)
          /\ n <= last => n \in 1 .. last /\ Seen(n) = n /\ Seen(n - 1) = n - 1
          /\ ~(n <= last) => n - last \in 1 .. last /\ Seen(n) = last /\ Seen(n - 1) = last
      BY <2>3, <2>5, <1>1 DEF N
    <3>2. Visited(all[n - 1], Seen(n - 1))
      <4>1. n - 1 \notin wrong
        <5> HIDE DEF wrong
        <5> QED BY <3>1, <2>2
      <4> QED BY <4>1, <3>1
    <3>3. all[n] = IF n <= last THEN Visit(all[n - 1], n) ELSE Finish(all[n - 1], n - last)
      BY <2>3, <2>5, <1>5 DEF Step
    <3> HIDE DEF Seen, wrong
    <3>4. CASE n <= last
      <4>1. n \in 1 .. Len(mReservationPtrArr) /\ Visited(all[n - 1], n - 1)
        BY <3>1, <3>2, <3>4 DEF last
      <4>2. Visited(Visit(all[n - 1], n), n)
        BY <4>1, VisitsOne
      <4> QED BY <2>3, <3>1, <3>3, <3>4, <4>2
    <3>5. CASE ~(n <= last)
      <4>1. n - last \in DOMAIN mReservationPtrArr /\ Visited(all[n - 1], Len(mReservationPtrArr))
        BY <1>1, <3>1, <3>2, <3>5 DEF last
      <4>2. Visited(Finish(all[n - 1], n - last), Len(mReservationPtrArr))
        BY <4>1, FinishesOne
      <4> QED BY <2>3, <3>1, <3>3, <3>5, <4>2 DEF last
    <3> QED BY <3>4, <3>5
  <2> QED BY <2>4, <2>5
<1>7. Visited(all[N], last)
  <2>1. N \in 0 .. N /\ Seen(N) = last
    BY <1>1 DEF N
  <2> QED BY <2>1, <1>6
<1> QED BY <1>2, <1>7 DEF last

\* The memory of two blocks in use is apart.
LEMMA MemoryIsApart ==
    ASSUME NEW a, Good(a), NEW p \in InUse(a)
    PROVE  /\ a.block[p].offset \in Nat /\ a.block[p].size \in Nat
           /\ MemoryOf(a, p) \subseteq 0 .. HeapSizeInBytes - 1
           /\ \A q \in InUse(a) : p # q => MemoryOf(a, p) \cap MemoryOf(a, q) = {}
<1>1. /\ Geometry(DOMAIN a.block, a.block) /\ InUse(a) \subseteq DOMAIN a.block
      /\ HeapSizeInBytes \in Nat
  BY TLSFAssumption DEF Good, Parted, InUse
<1>2. \A q \in InUse(a) : /\ a.block[q].offset \in Nat /\ a.block[q].size \in Nat
                          /\ Behind(a.block, q) = a.block[q].offset + a.block[q].size
                          /\ Behind(a.block, q) <= HeapSizeInBytes
  BY <1>1 DEF Geometry, Records, Behind
<1>3. MemoryOf(a, p) \subseteq 0 .. HeapSizeInBytes - 1
  BY <1>1, <1>2 DEF MemoryOf
<1>4. ASSUME NEW q \in InUse(a), p # q PROVE MemoryOf(a, p) \cap MemoryOf(a, q) = {}
  <2>1. Behind(a.block, p) <= a.block[q].offset \/ Behind(a.block, q) <= a.block[p].offset
    BY <1>1, <1>4 DEF Geometry
  <2> QED BY <2>1, <1>2 DEF MemoryOf
<1> QED BY <1>2, <1>3, <1>4

\* The handles' blocks are in use.
LEMMA HandlesAreRight ==
    ASSUME ReservationsRight, NEW s \in SubAllocations, IsReservationValid(s)
    PROVE  LET a == mBufferMemoryAllocator
               p == mHReservation[s]
           IN  /\ p \in InUse(a) /\ p \in Blocks /\ Good(a)
               /\ BytesOf(s) \subseteq MemoryOf(a, p)
               /\ MemoryOf(a, p) \subseteq 0 .. HeapSizeInBytes - 1
               /\ \A t \in SubAllocations \ {s} : IsReservationValid(t) =>
                     MemoryOf(a, p) \cap MemoryOf(a, mHReservation[t]) = {}
<1> DEFINE a == mBufferMemoryAllocator
           p == mHReservation[s]
<1>1. Good(a)
  BY DEF ReservationsRight
<1>2. \A t \in SubAllocations : IsReservationValid(t) => mHReservation[t] \in InUse(a)
  BY DEF ReservationsRight, IsReservationValid
<1>3. p \in InUse(a) /\ Requirement[s].size <= a.block[p].size /\ p \in Blocks
  BY <1>2 DEF ReservationsRight, IsReservationValid
<1>4. Requirement[s].size \in Nat
  BY SubAllocationAssumption, TLSFAssumption
<1>5. a.block[p].offset \in Nat /\ a.block[p].size \in Nat
  BY <1>1, <1>3, MemoryIsApart
<1>6. BytesOf(s) \subseteq MemoryOf(a, p)
  BY <1>3, <1>4, <1>5 DEF BytesOf, MemoryOf
<1>7. ASSUME NEW t \in SubAllocations \ {s}, IsReservationValid(t)
      PROVE  MemoryOf(a, p) \cap MemoryOf(a, mHReservation[t]) = {}
  <2>1. mHReservation[t] # p
    BY <1>7 DEF ReservationsRight, IsReservationValid
  <2> QED BY <1>1, <1>2, <1>3, <1>7, <2>1, MemoryIsApart
<1> QED BY <1>1, <1>3, <1>6, <1>7, MemoryIsApart

\* The property, of a state that is right.
LEMMA RightKeepsData == BufferInv => SubAllocationsKeepTheirData
<1> SUFFICES ASSUME BufferInv, ~mBufferMemoryAllocator.corrupt,
                    NEW s \in SubAllocations, IsReservationValid(s)
             PROVE  /\ \E i \in DOMAIN mReservationPtrArr :
                          mReservationPtrArr[i] = [block |-> mHReservation[s],
                                                   mReadyForDestruction |-> FALSE]
                    /\ ~mBufferMemoryAllocator.block[mHReservation[s]].free
                    /\ \A t \in SubAllocations \ {s} : IsReservationValid(t) =>
                          BytesOf(s) \cap BytesOf(t) = {}
                    /\ creation = "initialized" /\ written[s] # Nothing /\ s \notin overtaken
                        => \A byte \in written[s].bytes : contents[byte] = written[s].data
  BY DEF SubAllocationsKeepTheirData
<1>1. ReservationsRight /\ DataRight
  BY DEF BufferInv, BufferRight, Lost
<1>2. /\ mHReservation[s] \in InUse(mBufferMemoryAllocator)
      /\ \A t \in SubAllocations : IsReservationValid(t) =>
            BytesOf(t) \subseteq MemoryOf(mBufferMemoryAllocator, mHReservation[t])
      /\ \A t \in SubAllocations \ {s} : IsReservationValid(t) =>
            MemoryOf(mBufferMemoryAllocator, mHReservation[s])
              \cap MemoryOf(mBufferMemoryAllocator, mHReservation[t]) = {}
  BY <1>1, HandlesAreRight
<1>3. \E i \in DOMAIN mReservationPtrArr :
         mReservationPtrArr[i] = [block |-> mHReservation[s], mReadyForDestruction |-> FALSE]
  BY <1>1 DEF ReservationsRight, IsReservationValid
<1>4. ASSUME creation = "initialized", written[s] # Nothing, s \notin overtaken
      PROVE  \A byte \in written[s].bytes : contents[byte] = written[s].data
  <2>1. Stays(written[s]) /\ mPendingWriteRequestArr = <<>>
    BY <1>1, <1>4 DEF DataRight, IsReservationValid
  <2> QED BY <2>1 DEF Stays
<1> QED BY <1>2, <1>3, <1>4 DEF InUse

\* Marking a reservation changes no block, and no other reservation.
LEMMA Marks ==
    ASSUME NEW arr \in Seq(Reservations), NEW block
    PROVE  LET m == MarkForDestruction(arr, block)
           IN  /\ m \in Seq(Reservations) /\ DOMAIN m = DOMAIN arr /\ Len(m) = Len(arr)
               /\ \A i \in DOMAIN arr : /\ m[i].block = arr[i].block
                                        /\ arr[i].block # block => m[i] = arr[i]
<1> DEFINE m == MarkForDestruction(arr, block)
<1>1. ASSUME NEW i \in DOMAIN arr
      PROVE  /\ m[i] \in Reservations /\ m[i].block = arr[i].block
             /\ arr[i].block # block => m[i] = arr[i]
  <2>1. arr[i] \in Reservations
    OBVIOUS
  <2>2. m[i] = IF arr[i].block = block THEN [arr[i] EXCEPT !.mReadyForDestruction = TRUE]
               ELSE arr[i]
    BY DEF MarkForDestruction
  <2> HIDE DEF m
  <2> QED BY <2>1, <2>2 DEF Reservations
<1>2. DOMAIN m = 1 .. Len(arr) /\ Len(arr) \in Nat /\ DOMAIN arr = 1 .. Len(arr)
  BY DEF MarkForDestruction
<1>3. m = [i \in 1 .. Len(arr) |-> m[i]]
  BY <1>2 DEF MarkForDestruction
<1> HIDE DEF m
<1>4. m \in [1 .. Len(arr) -> Reservations]
  BY <1>1, <1>2, <1>3
<1>5. m \in Seq(Reservations) /\ Len(m) = Len(arr)
  BY <1>2, <1>4, SeqDef
<1> QED BY <1>1, <1>2, <1>5 DEF m

\* A step that leaves the data alone and moves none of it.
LEMMA DataStays ==
    ASSUME DataRight, UNCHANGED <<contents, mPendingWriteRequestArr, creation, writing>>,
           written' \in [SubAllocations -> WriteRequests \cup {Nothing}],
           \A t \in SubAllocations : writing[t] # Nothing =>
               /\ mHReservation'[t] = mHReservation[t]
               /\ MemoryOf(mBufferMemoryAllocator', mHReservation[t])
                    = MemoryOf(mBufferMemoryAllocator, mHReservation[t]),
           \A t \in SubAllocations : mHReservation'[t] # Null /\ written'[t] # Nothing =>
               \E u \in SubAllocations :
                  /\ mHReservation[u] # Null /\ written[u] = written'[t]
                  /\ MemoryOf(mBufferMemoryAllocator', mHReservation'[t])
                       = MemoryOf(mBufferMemoryAllocator, mHReservation[u])
                  /\ t \notin overtaken' => u \notin overtaken
    PROVE  DataRight'
<1>1. \A request : Stays(request) => Stays(request)'
  BY DEF Stays
<1>2. \A t \in SubAllocations : writing'[t] # Nothing =>
          /\ mHReservation'[t] # Null /\ creation' # "none"
          /\ writing'[t].bytes \subseteq MemoryOf(mBufferMemoryAllocator', mHReservation'[t])
  BY DEF DataRight
<1>3. ASSUME NEW t \in SubAllocations, mHReservation'[t] # Null, written'[t] # Nothing
      PROVE  /\ written'[t].bytes \subseteq MemoryOf(mBufferMemoryAllocator', mHReservation'[t])
             /\ t \notin overtaken' => Stays(written[t])'
  <2>1. PICK u \in SubAllocations :
          /\ mHReservation[u] # Null /\ written[u] = written'[t]
          /\ MemoryOf(mBufferMemoryAllocator', mHReservation'[t])
               = MemoryOf(mBufferMemoryAllocator, mHReservation[u])
          /\ t \notin overtaken' => u \notin overtaken
    BY <1>3
  <2>2. /\ written[u].bytes \subseteq MemoryOf(mBufferMemoryAllocator, mHReservation[u])
        /\ u \notin overtaken => Stays(written[u])
    BY <1>3, <2>1 DEF DataRight
  <2>3. t \notin overtaken' => Stays(written[t])'
    BY <2>1, <2>2 DEF Stays
  <2> QED BY <2>1, <2>2, <2>3
<1>4. /\ contents' = [byte \in 0 .. HeapSizeInBytes - 1 |-> contents'[byte]]
      /\ mPendingWriteRequestArr' \in Seq(WriteRequests)
      /\ creation' = "initialized" => mPendingWriteRequestArr' = <<>>
      /\ writing' \in [SubAllocations -> WriteRequests \cup {Nothing}]
  BY DEF DataRight
<1> QED BY <1>2, <1>3, <1>4 DEF DataRight

\* The reservation of a sub-allocation that goes is marked, and no other.
LEMMA DestructionStep ==
    ASSUME BufferRight, NEW s \in SubAllocations, DestroySubAllocation(s)
    PROVE  BufferRight'
<1> DEFINE a == mBufferMemoryAllocator
           arr == mReservationPtrArr
           h == mHReservation
           b == h[s]
<1>1. /\ Good(a) /\ arr \in Seq(Reservations)
      /\ \A i, j \in DOMAIN arr : arr[i].block = arr[j].block => i = j
      /\ \A i \in DOMAIN arr : arr[i].block \in InUse(a)
      /\ h \in [SubAllocations -> Blocks \cup {Null}]
      /\ \A t \in SubAllocations : h[t] # Null =>
            /\ \E i \in DOMAIN arr : arr[i] = [block |-> h[t], mReadyForDestruction |-> FALSE]
            /\ Requirement[t].size <= a.block[h[t]].size
      /\ \A t, u \in SubAllocations : h[t] = h[u] /\ h[t] # Null => t = u
  BY DEF BufferRight, ReservationsRight
<1>2. /\ arr' = MarkForDestruction(arr, b) /\ h' = [h EXCEPT ![s] = Null] /\ a' = a
      /\ b # Null /\ writing[s] = Nothing
      /\ written' = [written EXCEPT ![s] = Nothing] /\ overtaken' = overtaken \ {s}
      /\ UNCHANGED <<contents, mPendingWriteRequestArr, creation, writing>>
  BY DEF DestroySubAllocation, May, IsReservationValid
<1>3. /\ arr' \in Seq(Reservations) /\ DOMAIN arr' = DOMAIN arr
      /\ \A i \in DOMAIN arr : /\ arr'[i].block = arr[i].block
                               /\ arr[i].block # b => arr'[i] = arr[i]
  BY <1>1, <1>2, Marks
<1>4. \A t \in SubAllocations : /\ t # s => h'[t] = h[t]
                                /\ h'[s] = Null
  BY <1>1, <1>2
<1>5. ASSUME NEW t \in SubAllocations, h'[t] # Null
      PROVE  \E i \in DOMAIN arr' : arr'[i] = [block |-> h'[t], mReadyForDestruction |-> FALSE]
  <2>1. t # s /\ h'[t] = h[t] /\ h[t] # b
    BY <1>1, <1>2, <1>4, <1>5
  <2>2. PICK i \in DOMAIN arr : arr[i] = [block |-> h[t], mReadyForDestruction |-> FALSE]
    BY <1>1, <1>5, <2>1
  <2>3. arr[i].block = h[t]
    BY <2>2
  <2> QED BY <1>3, <2>1, <2>2, <2>3
<1>6. ReservationsRight'
  <2>1. h' \in [SubAllocations -> Blocks \cup {Null}]
    BY <1>1, <1>2
  <2>2. \A t \in SubAllocations : h'[t] # Null => Requirement[t].size <= a'.block[h'[t]].size
    BY <1>1, <1>2, <1>4
  <2>3. \A t, u \in SubAllocations : h'[t] = h'[u] /\ h'[t] # Null => t = u
    BY <1>1, <1>4
  <2>4. Good(a)' /\ \A i \in DOMAIN arr' : arr'[i].block \in InUse(a')
    BY <1>1, <1>2, <1>3
  <2>5. \A i, j \in DOMAIN arr' : arr'[i].block = arr'[j].block => i = j
    BY <1>1, <1>3
  <2> QED BY <1>3, <1>5, <2>1, <2>2, <2>3, <2>4, <2>5 DEF ReservationsRight
<1>7. DataRight'
  <2>1. DataRight /\ written' \in [SubAllocations -> WriteRequests \cup {Nothing}]
    BY <1>2 DEF BufferRight, DataRight
  <2>2. \A t \in SubAllocations : writing[t] # Nothing => h'[t] = h[t]
    BY <1>2, <1>4
  <2>3. ASSUME NEW t \in SubAllocations, h'[t] # Null
        PROVE  /\ h[t] # Null /\ written[t] = written'[t] /\ h'[t] = h[t]
               /\ t \notin overtaken' => t \notin overtaken
    <3>1. t # s
      BY <1>4, <2>3
    <3>2. written'[t] = written[t]
      BY <1>2, <2>1, <3>1 DEF DataRight
    <3> QED BY <1>2, <1>4, <2>3, <3>1, <3>2
  <2> HIDE DEF a, h
  <2>4. \A t \in SubAllocations : h'[t] # Null /\ written'[t] # Nothing =>
           \E u \in SubAllocations :
              /\ h[u] # Null /\ written[u] = written'[t]
              /\ MemoryOf(a', h'[t]) = MemoryOf(a, h[u])
              /\ t \notin overtaken' => u \notin overtaken
    BY <1>2, <2>3
  <2>5. \A t \in SubAllocations : writing[t] # Nothing =>
           h'[t] = h[t] /\ MemoryOf(a', h[t]) = MemoryOf(a, h[t])
    BY <1>2, <2>2
  <2> USE DEF a, h
  <2> QED BY <1>2, <2>1, <2>4, <2>5, DataStays
<1> QED BY <1>6, <1>7 DEF BufferRight

\* What a sub-allocation had is another's, and what that had is marked.
LEMMA PassingStep ==
    ASSUME BufferRight, NEW s \in SubAllocations, NEW v \in SubAllocations,
           PassReservation(s, v)
    PROVE  BufferRight'
<1> DEFINE a == mBufferMemoryAllocator
           arr == mReservationPtrArr
           h == mHReservation
           b == h[s]
<1>1. /\ Good(a) /\ arr \in Seq(Reservations)
      /\ \A i, j \in DOMAIN arr : arr[i].block = arr[j].block => i = j
      /\ \A i \in DOMAIN arr : arr[i].block \in InUse(a)
      /\ h \in [SubAllocations -> Blocks \cup {Null}]
      /\ \A t \in SubAllocations : h[t] # Null =>
            /\ \E i \in DOMAIN arr : arr[i] = [block |-> h[t], mReadyForDestruction |-> FALSE]
            /\ Requirement[t].size <= a.block[h[t]].size
      /\ \A t, u \in SubAllocations : h[t] = h[u] /\ h[t] # Null => t = u
  BY DEF BufferRight, ReservationsRight
<1>2. /\ arr' = MarkForDestruction(arr, h[v]) /\ h' = [h EXCEPT ![v] = h[s], ![s] = Null]
      /\ a' = a /\ s # v /\ b # Null /\ writing[s] = Nothing /\ writing[v] = Nothing
      /\ a.block[b].size >= Requirement[v].size
      /\ written' = [written EXCEPT ![v] = written[s], ![s] = Nothing]
      /\ overtaken' = (overtaken \ {s, v}) \cup (IF s \in overtaken THEN {v} ELSE {})
      /\ UNCHANGED <<contents, mPendingWriteRequestArr, creation, writing>>
  BY DEF PassReservation, May, IsReservationValid, IsReservationCompatible
<1>3. /\ arr' \in Seq(Reservations) /\ DOMAIN arr' = DOMAIN arr
      /\ \A i \in DOMAIN arr : /\ arr'[i].block = arr[i].block
                               /\ arr[i].block # h[v] => arr'[i] = arr[i]
  BY <1>1, <1>2, Marks
<1>4. \A t \in SubAllocations : h'[t] = IF t = s THEN Null ELSE IF t = v THEN h[s] ELSE h[t]
  BY <1>1, <1>2
<1> DEFINE From(t) == IF t = v THEN s ELSE t
<1>5. ASSUME NEW t \in SubAllocations, h'[t] # Null
      PROVE  /\ From(t) \in SubAllocations /\ h'[t] = h[From(t)] /\ From(t) # v /\ t # s
  BY <1>2, <1>4, <1>5
<1>6. ReservationsRight'
  <2>1. h' \in [SubAllocations -> Blocks \cup {Null}]
    BY <1>1, <1>2
  <2>2. ASSUME NEW t \in SubAllocations, h'[t] # Null
        PROVE  /\ \E i \in DOMAIN arr' : arr'[i] = [block |-> h'[t], mReadyForDestruction |-> FALSE]
               /\ Requirement[t].size <= a'.block[h'[t]].size
    <3>1. h'[t] = h[From(t)] /\ From(t) \in SubAllocations /\ From(t) # v
      BY <1>5, <2>2
    <3>2. h[From(t)] # h[v]
      BY <1>1, <2>2, <3>1
    <3>3. PICK i \in DOMAIN arr : arr[i] = [block |-> h[From(t)], mReadyForDestruction |-> FALSE]
      BY <1>1, <2>2, <3>1
    <3>4. arr[i].block = h[From(t)]
      BY <3>3
    <3>5. arr'[i] = [block |-> h'[t], mReadyForDestruction |-> FALSE]
      BY <1>3, <3>1, <3>2, <3>3, <3>4
    <3>6. Requirement[t].size <= a.block[h'[t]].size
      <4>1. CASE t = v
        <5>1. Requirement[v].size \in Nat /\ a.block[b].size \in Nat
          <6>1. b \in InUse(a)
            BY <1>1, <1>2
          <6> QED BY <1>1, <6>1, MemoryIsApart, SubAllocationAssumption, TLSFAssumption
        <5>2. h'[t] = b
          BY <4>1, <1>2, <1>4
        <5> HIDE DEF a, b, h
        <5> QED BY <4>1, <5>1, <5>2, <1>2
      <4>2. CASE t # v
        BY <4>2, <1>1, <2>2, <3>1
      <4> QED BY <4>1, <4>2
    <3> QED BY <1>2, <1>3, <3>5, <3>6
  <2>3. ASSUME NEW t \in SubAllocations, NEW u \in SubAllocations, h'[t] = h'[u], h'[t] # Null
        PROVE  t = u
    <3>1. From(t) = From(u)
      BY <1>1, <1>5, <2>3
    <3> QED BY <1>5, <2>3, <3>1
  <2>4. Good(a)' /\ \A i \in DOMAIN arr' : arr'[i].block \in InUse(a')
    BY <1>1, <1>2, <1>3
  <2>5. \A i, j \in DOMAIN arr' : arr'[i].block = arr'[j].block => i = j
    BY <1>1, <1>3
  <2> QED BY <1>3, <2>1, <2>2, <2>3, <2>4, <2>5 DEF ReservationsRight
<1>7. DataRight'
  <2>1. DataRight /\ written \in [SubAllocations -> WriteRequests \cup {Nothing}]
    BY DEF BufferRight, DataRight
  <2>2. written' \in [SubAllocations -> WriteRequests \cup {Nothing}]
    BY <1>2, <2>1
  <2>3. \A t \in SubAllocations : writing[t] # Nothing => h'[t] = h[t]
    BY <1>2, <1>4
  <2>4. ASSUME NEW t \in SubAllocations, h'[t] # Null
        PROVE  /\ From(t) \in SubAllocations /\ h[From(t)] # Null
               /\ written[From(t)] = written'[t] /\ h'[t] = h[From(t)]
               /\ t \notin overtaken' => From(t) \notin overtaken
    <3>1. /\ From(t) \in SubAllocations /\ h'[t] = h[From(t)] /\ t # s
      BY <1>5, <2>4
    <3>2. written'[t] = written[From(t)]
      BY <1>2, <2>1, <3>1
    <3>3. t \notin overtaken' => From(t) \notin overtaken
      BY <1>2, <3>1
    <3> QED BY <2>4, <3>1, <3>2, <3>3
  <2> HIDE DEF a, h, From
  <2>5. \A t \in SubAllocations : h'[t] # Null /\ written'[t] # Nothing =>
           \E u \in SubAllocations :
              /\ h[u] # Null /\ written[u] = written'[t]
              /\ MemoryOf(a', h'[t]) = MemoryOf(a, h[u])
              /\ t \notin overtaken' => u \notin overtaken
    BY <1>2, <2>4
  <2>6. \A t \in SubAllocations : writing[t] # Nothing =>
           h'[t] = h[t] /\ MemoryOf(a', h[t]) = MemoryOf(a, h[t])
    BY <1>2, <2>3
  <2> USE DEF a, h
  <2> QED BY <1>2, <2>1, <2>2, <2>5, <2>6, DataStays
<1> QED BY <1>6, <1>7 DEF BufferRight

\* A request written to its own memory replaces nothing that others have written.
LEMMA WritingStep ==
    ASSUME BufferRight, NEW s \in SubAllocations, WriteToBuffer(s)
    PROVE  BufferRight'
<1> DEFINE a == mBufferMemoryAllocator
           h == mHReservation
           pending == mPendingWriteRequestArr
<1>1. /\ IsReservationValid(s) /\ h' = h /\ a' = a /\ creation' = creation
      /\ contents' = contents /\ overtaken' = overtaken
      /\ mReservationPtrArr' = mReservationPtrArr
  BY DEF WriteToBuffer
<1>2. PICK data \in Data[s] :
        LET request == [bytes |-> BytesOf(s), data |-> data]
        IN  IF IsD3D12ResourceCreated
            THEN /\ writing' = [writing EXCEPT ![s] = request]
                 /\ UNCHANGED <<mPendingWriteRequestArr, written>>
            ELSE /\ mPendingWriteRequestArr' = Append(pending, request)
                 /\ written' = [written EXCEPT ![s] = request]
                 /\ UNCHANGED writing
  BY DEF WriteToBuffer
<1>3. ReservationsRight'
  BY <1>1 DEF BufferRight, ReservationsRight, IsReservationValid
<1>4. /\ BytesOf(s) \subseteq MemoryOf(a, h[s]) /\ MemoryOf(a, h[s]) \subseteq 0 .. HeapSizeInBytes - 1
      /\ \A t \in SubAllocations \ {s} : h[t] # Null =>
            MemoryOf(a, h[s]) \cap MemoryOf(a, h[t]) = {}
  BY <1>1, HandlesAreRight DEF BufferRight, IsReservationValid
<1>5. PICK request \in WriteRequests : request = [bytes |-> BytesOf(s), data |-> data]
  BY <1>4 DEF WriteRequests
<1>9. request.bytes = BytesOf(s)
  BY <1>5
<1>6. /\ contents = [byte \in 0 .. HeapSizeInBytes - 1 |-> contents[byte]]
      /\ pending \in Seq(WriteRequests)
      /\ creation = "initialized" => pending = <<>>
      /\ written \in [SubAllocations -> WriteRequests \cup {Nothing}]
      /\ writing \in [SubAllocations -> WriteRequests \cup {Nothing}]
      /\ \A t \in SubAllocations : writing[t] # Nothing =>
            /\ h[t] # Null /\ creation # "none" /\ writing[t].bytes \subseteq MemoryOf(a, h[t])
      /\ \A t \in SubAllocations : h[t] # Null /\ written[t] # Nothing =>
            /\ written[t].bytes \subseteq MemoryOf(a, h[t])
            /\ t \notin overtaken => Stays(written[t])
  BY DEF BufferRight, DataRight
<1>7. CASE IsD3D12ResourceCreated
  <2>1. /\ writing' = [writing EXCEPT ![s] = request]
        /\ UNCHANGED <<mPendingWriteRequestArr, written>>
        /\ creation # "none" /\ h[s] # Null
    BY <1>1, <1>2, <1>5, <1>7 DEF IsD3D12ResourceCreated, IsReservationValid
  <2> HIDE DEF a, h, pending
  <2>2. /\ writing' \in [SubAllocations -> WriteRequests \cup {Nothing}]
        /\ \A t \in SubAllocations : writing'[t] = IF t = s THEN request ELSE writing[t]
    BY <1>5, <1>6, <2>1
  <2>3. \A t \in SubAllocations : writing'[t] # Nothing =>
           /\ h'[t] # Null /\ creation' # "none" /\ writing'[t].bytes \subseteq MemoryOf(a', h'[t])
    BY <1>1, <1>4, <1>5, <1>9, <1>6, <2>1, <2>2
  <2>4. \A r : Stays(r) => Stays(r)'
    BY <1>1, <2>1 DEF Stays
  <2>5. \A t \in SubAllocations : h'[t] # Null /\ written'[t] # Nothing =>
            /\ written'[t].bytes \subseteq MemoryOf(a', h'[t])
            /\ t \notin overtaken' => Stays(written[t])'
    BY <1>1, <1>6, <2>1 DEF Stays
  <2>6. DataRight'
    <3> USE DEF a, h
    <3> QED BY <1>1, <1>6, <2>1, <2>2, <2>3, <2>5 DEF DataRight, pending
  <2> QED BY <1>3, <2>6 DEF BufferRight
<1>8. CASE ~IsD3D12ResourceCreated
  <2>1. /\ pending' = Append(pending, request) /\ written' = [written EXCEPT ![s] = request]
        /\ UNCHANGED writing /\ creation = "none" /\ h[s] # Null
    BY <1>1, <1>2, <1>5, <1>8 DEF IsD3D12ResourceCreated, IsReservationValid
  <2> DEFINE last == Len(pending) + 1
  <2>2. /\ pending' \in Seq(WriteRequests) /\ DOMAIN pending' = DOMAIN pending \cup {last}
        /\ last \notin DOMAIN pending /\ pending'[last] = request
        /\ \A i \in DOMAIN pending : pending'[i] = pending[i] /\ i < last /\ i \in Nat
        /\ last \in Nat
    BY <1>5, <1>6, <2>1
  <2> HIDE DEF last, a, h, pending
  <2>3. /\ written' \in [SubAllocations -> WriteRequests \cup {Nothing}]
        /\ \A t \in SubAllocations : written'[t] = IF t = s THEN request ELSE written[t]
    BY <1>5, <1>6, <2>1
  <2>4. Stays(request)'
    <3>1. \A j \in DOMAIN pending' : ~(j > last)
      BY <2>2
    <3> QED BY <2>2, <3>1 DEF Stays, pending
  <2>5. ASSUME NEW t \in SubAllocations \ {s}, h[t] # Null, written[t] # Nothing, t \notin overtaken
        PROVE  Stays(written[t])'
    <3> DEFINE r == written[t]
    <3>1. Stays(r) /\ r.bytes \cap request.bytes = {}
      BY <1>4, <1>9, <1>6, <2>5
    <3> HIDE DEF r
    <3>2. CASE /\ \A byte \in r.bytes : contents[byte] = r.data
               /\ \A i \in DOMAIN pending : pending[i].bytes \cap r.bytes = {}
      <4>1. \A i \in DOMAIN pending' : pending'[i].bytes \cap r.bytes = {}
        BY <2>2, <3>1, <3>2
      <4> QED BY <1>1, <2>1, <2>3, <3>2, <4>1 DEF Stays, r, pending
    <3>3. CASE \E i \in DOMAIN pending :
                  /\ pending[i] = r
                  /\ \A j \in DOMAIN pending : j > i => pending[j].bytes \cap r.bytes = {}
      <4>1. PICK i \in DOMAIN pending :
                  /\ pending[i] = r
                  /\ \A j \in DOMAIN pending : j > i => pending[j].bytes \cap r.bytes = {}
        BY <3>3
      <4>2. \A j \in DOMAIN pending' : j > i => pending'[j].bytes \cap r.bytes = {}
        BY <2>2, <3>1, <4>1
      <4>3. i \in DOMAIN pending' /\ pending'[i] = r
        BY <2>2, <4>1
      <4> QED BY <2>3, <4>2, <4>3 DEF Stays, r, pending
    <3> QED BY <3>1, <3>2, <3>3 DEF Stays, pending
  <2>6. \A t \in SubAllocations : h'[t] # Null /\ written'[t] # Nothing =>
            /\ written'[t].bytes \subseteq MemoryOf(a', h'[t])
            /\ t \notin overtaken' => Stays(written[t])'
    <3>1. Stays(written[s])'
      BY <2>3, <2>4 DEF Stays
    <3>2. \A t \in SubAllocations : h'[t] # Null /\ written'[t] # Nothing =>
             written'[t].bytes \subseteq MemoryOf(a', h'[t])
      BY <1>1, <1>4, <1>5, <1>9, <1>6, <2>3
    <3>3. ASSUME NEW t \in SubAllocations, h'[t] # Null, written'[t] # Nothing, t \notin overtaken'
          PROVE  Stays(written[t])'
      <4>1. t # s => h[t] # Null /\ written[t] # Nothing /\ t \notin overtaken
        BY <1>1, <2>3, <3>3
      <4> QED BY <2>5, <3>1, <4>1
    <3> QED BY <3>2, <3>3
  <2>7. DataRight'
    <3> USE DEF a, h, pending
    <3>1. contents' = [byte \in 0 .. HeapSizeInBytes - 1 |-> contents'[byte]]
      BY <1>1, <1>6
    <3> QED BY <1>1, <1>6, <2>1, <2>2, <2>3, <2>6, <3>1 DEF DataRight
  <2> QED BY <1>3, <2>7 DEF BufferRight
<1> QED BY <1>7, <1>8

\* What is copied meets no memory but its own; what an older request is yet to
\* replace is overtaken.
LEMMA CopyingStep ==
    ASSUME BufferRight, NEW s \in SubAllocations, CopyIntoBuffer(s)
    PROVE  BufferRight'
<1> DEFINE a == mBufferMemoryAllocator
           h == mHReservation
           pending == mPendingWriteRequestArr
           request == writing[s]
           older == {i \in DOMAIN pending : pending[i].bytes \cap request.bytes # {}}
<1>1. /\ request # Nothing /\ contents' = Copy(contents, request)
      /\ overtaken' = IF older = {} THEN overtaken \ {s} ELSE overtaken \cup {s}
      /\ written' = [written EXCEPT ![s] = request] /\ writing' = [writing EXCEPT ![s] = Nothing]
      /\ h' = h /\ a' = a /\ creation' = creation /\ pending' = pending
      /\ mReservationPtrArr' = mReservationPtrArr
  BY DEF CopyIntoBuffer
<1>2. ReservationsRight'
  BY <1>1 DEF BufferRight, ReservationsRight
<1>3. /\ contents = [byte \in 0 .. HeapSizeInBytes - 1 |-> contents[byte]]
      /\ pending \in Seq(WriteRequests)
      /\ creation = "initialized" => pending = <<>>
      /\ written \in [SubAllocations -> WriteRequests \cup {Nothing}]
      /\ writing \in [SubAllocations -> WriteRequests \cup {Nothing}]
      /\ \A t \in SubAllocations : writing[t] # Nothing =>
            /\ h[t] # Null /\ creation # "none" /\ writing[t].bytes \subseteq MemoryOf(a, h[t])
      /\ \A t \in SubAllocations : h[t] # Null /\ written[t] # Nothing =>
            /\ written[t].bytes \subseteq MemoryOf(a, h[t])
            /\ t \notin overtaken => Stays(written[t])
  BY DEF BufferRight, DataRight
<1>4. \A t \in SubAllocations \ {s} : h[t] # Null =>
         MemoryOf(a, h[s]) \cap MemoryOf(a, h[t]) = {}
  BY <1>1, <1>3, HandlesAreRight DEF BufferRight, IsReservationValid
<1>5. /\ h[s] # Null /\ request \in WriteRequests /\ request.bytes \subseteq MemoryOf(a, h[s])
      /\ request.bytes \subseteq 0 .. HeapSizeInBytes - 1
  BY <1>1, <1>3 DEF WriteRequests
<1> HIDE DEF a, h, pending, request, older
<1>6. /\ contents' = [byte \in 0 .. HeapSizeInBytes - 1 |-> contents'[byte]]
      /\ \A byte \in request.bytes : contents'[byte] = request.data
      /\ \A byte \in (0 .. HeapSizeInBytes - 1) \ request.bytes : contents'[byte] = contents[byte]
  BY <1>1, <1>3, <1>5 DEF Copy
<1>7. \A t \in SubAllocations : /\ written'[t] = IF t = s THEN request ELSE written[t]
                                /\ writing'[t] = IF t = s THEN Nothing ELSE writing[t]
  BY <1>1, <1>3
<1>8. ASSUME s \notin overtaken' PROVE Stays(written[s])'
  <2>1. older = {}
    BY <1>1, <1>8
  <2>2. \A i \in DOMAIN pending : pending[i].bytes \cap request.bytes = {}
    BY <2>1 DEF older
  <2> QED BY <1>1, <1>6, <1>7, <2>2 DEF Stays, pending
<1>9. ASSUME NEW t \in SubAllocations \ {s}, h[t] # Null, written[t] # Nothing, t \notin overtaken
      PROVE  Stays(written[t])'
  <2> DEFINE r == written[t]
  <2>1. /\ Stays(r) /\ r.bytes \cap request.bytes = {} /\ r \in WriteRequests
        /\ r.bytes \subseteq 0 .. HeapSizeInBytes - 1 /\ written'[t] = r
    BY <1>3, <1>4, <1>5, <1>7, <1>9 DEF WriteRequests
  <2> HIDE DEF r
  <2>2. \A byte \in r.bytes : contents'[byte] = contents[byte]
    BY <1>6, <2>1
  <2> QED BY <1>1, <2>1, <2>2 DEF Stays, pending
<1>10. \A t \in SubAllocations : h'[t] # Null /\ written'[t] # Nothing =>
          /\ written'[t].bytes \subseteq MemoryOf(a', h'[t])
          /\ t \notin overtaken' => Stays(written[t])'
  <2>1. \A t \in SubAllocations : h'[t] # Null /\ written'[t] # Nothing =>
           written'[t].bytes \subseteq MemoryOf(a', h'[t])
    BY <1>1, <1>3, <1>5, <1>7
  <2>2. ASSUME NEW t \in SubAllocations, h'[t] # Null, written'[t] # Nothing, t \notin overtaken'
        PROVE  Stays(written[t])'
    <3>1. t # s => h[t] # Null /\ written[t] # Nothing /\ t \notin overtaken
      BY <1>1, <1>7, <2>2
    <3> QED BY <1>8, <1>9, <2>2, <3>1
  <2> QED BY <2>1, <2>2
<1>11. \A t \in SubAllocations : writing'[t] # Nothing =>
          /\ h'[t] # Null /\ creation' # "none" /\ writing'[t].bytes \subseteq MemoryOf(a', h'[t])
  BY <1>1, <1>3, <1>7
<1>12. /\ written' \in [SubAllocations -> WriteRequests \cup {Nothing}]
       /\ writing' \in [SubAllocations -> WriteRequests \cup {Nothing}]
  BY <1>1, <1>3, <1>5
<1>13. DataRight'
  <2> USE DEF a, h, pending
  <2> QED BY <1>1, <1>3, <1>6, <1>10, <1>11, <1>12 DEF DataRight
<1> QED BY <1>2, <1>13 DEF BufferRight

\* Nothing but the time from which on data is copied depends on the resource.
LEMMA CreationStep == BufferRight /\ CreateD3D12Resource => BufferRight'
<1> SUFFICES ASSUME BufferRight, CreateD3D12Resource PROVE BufferRight'
  OBVIOUS
<1>1. /\ UNCHANGED <<mBufferMemoryAllocator, mReservationPtrArr, mHReservation>>
      /\ UNCHANGED <<mPendingWriteRequestArr, contents, writing, written, overtaken>>
      /\ creation' = "created"
  BY DEF CreateD3D12Resource
<1>2. ReservationsRight'
  BY <1>1 DEF BufferRight, ReservationsRight
<1>3. \A s \in SubAllocations : Stays(written[s]) => Stays(written[s])'
  BY <1>1 DEF Stays
<1>4. DataRight'
  <2>1. DataRight
    BY DEF BufferRight
  <2> QED BY <1>1, <1>3, <2>1 DEF DataRight
<1> QED BY <1>2, <1>4 DEF BufferRight

\* The last of the requests that write a byte is the one found there.
LEMMA TransferStep == BufferRight /\ TransferTemporaryCPUDataToGPUBuffer => BufferRight'
<1> SUFFICES ASSUME BufferRight, TransferTemporaryCPUDataToGPUBuffer PROVE BufferRight'
  OBVIOUS
<1> DEFINE pending == mPendingWriteRequestArr
           memory == 0 .. HeapSizeInBytes - 1
<1>1. /\ UNCHANGED <<mBufferMemoryAllocator, mReservationPtrArr, mHReservation>>
      /\ UNCHANGED <<writing, written, overtaken>>
      /\ creation' = "initialized" /\ contents' = Transferred /\ pending' = <<>>
  BY DEF TransferTemporaryCPUDataToGPUBuffer
<1>2. ReservationsRight'
  BY <1>1 DEF BufferRight, ReservationsRight
<1>3. DataRight
  BY DEF BufferRight
<1>4. contents = [byte \in memory |-> contents[byte]] /\ pending \in Seq(WriteRequests)
  BY <1>3 DEF DataRight
<1>5. /\ contents' = [byte \in memory |-> contents'[byte]]
      /\ \A byte \in memory : contents'[byte] =
            IF Writers(byte) = {} THEN contents[byte] ELSE pending[Max(Writers(byte))].data
  <2>1. DOMAIN contents = memory
    BY <1>4
  <2>2. contents' = [byte \in memory |->
            IF Writers(byte) = {} THEN contents[byte] ELSE pending[Max(Writers(byte))].data]
    BY <1>1, <2>1 DEF Transferred
  <2> HIDE DEF memory, pending
  <2> QED BY <2>2
<1>6. ASSUME NEW s \in SubAllocations, written[s] # Nothing, Stays(written[s])
      PROVE  Stays(written[s])'
  <2> DEFINE r == written[s]
  <2>1. r \in WriteRequests /\ r.bytes \subseteq memory /\ written'[s] = r
    BY <1>1, <1>3, <1>6 DEF DataRight, WriteRequests
  <2> HIDE DEF r, memory
  <2>2. \A byte \in r.bytes : contents'[byte] = r.data
    <3>1. CASE /\ \A byte \in r.bytes : contents[byte] = r.data
               /\ \A i \in DOMAIN pending : pending[i].bytes \cap r.bytes = {}
      <4>1. \A byte \in r.bytes : Writers(byte) = {}
        BY <3>1 DEF Writers
      <4> QED BY <1>5, <2>1, <3>1, <4>1
    <3>2. CASE \E i \in DOMAIN pending :
                  /\ pending[i] = r
                  /\ \A j \in DOMAIN pending : j > i => pending[j].bytes \cap r.bytes = {}
      <4>1. PICK i \in DOMAIN pending :
                  /\ pending[i] = r
                  /\ \A j \in DOMAIN pending : j > i => pending[j].bytes \cap r.bytes = {}
        BY <3>2
      <4>2. DOMAIN pending \subseteq Nat /\ i \in Nat
        BY <1>4, <4>1
      <4>3. ASSUME NEW byte \in r.bytes PROVE Writers(byte) # {} /\ Max(Writers(byte)) = i
        <5>1. i \in Writers(byte)
          BY <4>1, <4>3 DEF Writers
        <5>2. \A j \in Writers(byte) : j \in Nat /\ i >= j
          BY <4>1, <4>2, <4>3 DEF Writers
        <5>3. \A x \in Writers(byte) : (\A j \in Writers(byte) : x >= j) => x = i
          BY <4>2, <5>1, <5>2
        <5> QED BY <5>1, <5>2, <5>3 DEF Max
      <4> QED BY <1>5, <2>1, <4>1, <4>3
    <3> QED BY <1>6, <3>1, <3>2 DEF Stays, r
  <2>3. \A i \in DOMAIN pending' : pending'[i].bytes \cap r.bytes = {}
    BY <1>1
  <2> QED BY <2>1, <2>2, <2>3 DEF Stays
<1>7. DataRight'
  <2>1. \A s \in SubAllocations : mHReservation'[s] # Null /\ written'[s] # Nothing =>
           /\ written'[s].bytes \subseteq MemoryOf(mBufferMemoryAllocator', mHReservation'[s])
           /\ s \notin overtaken' => Stays(written[s])'
    BY <1>1, <1>3, <1>6 DEF DataRight
  <2>2. pending' \in Seq(WriteRequests)
    BY <1>1
  <2>3. \A s \in SubAllocations : writing'[s] # Nothing =>
           /\ mHReservation'[s] # Null /\ creation' # "none"
           /\ writing'[s].bytes \subseteq MemoryOf(mBufferMemoryAllocator', mHReservation'[s])
    BY <1>1, <1>3 DEF DataRight
  <2>4. /\ written' \in [SubAllocations -> WriteRequests \cup {Nothing}]
        /\ writing' \in [SubAllocations -> WriteRequests \cup {Nothing}]
    BY <1>1, <1>3 DEF DataRight
  <2> QED BY <1>1, <1>5, <2>1, <2>2, <2>3, <2>4 DEF DataRight
<1> QED BY <1>2, <1>7 DEF BufferRight

\* The new block is none of those kept, and what is in these stays.
LEMMA AssignmentStep ==
    ASSUME BufferRight, NEW s \in SubAllocations, AssignReservationToSubAllocation(s)
    PROVE  BufferInv'
<1> DEFINE a == mBufferMemoryAllocator
           arr == mReservationPtrArr
           h == mHReservation
<1>1. /\ Good(a) /\ arr \in Seq(Reservations) /\ Len(arr) \in Nat /\ DOMAIN arr = 1 .. Len(arr)
      /\ h \in [SubAllocations -> Blocks \cup {Null}]
      /\ \A t \in SubAllocations : h[t] # Null =>
            /\ \E i \in DOMAIN arr : arr[i] = [block |-> h[t], mReadyForDestruction |-> FALSE]
            /\ Requirement[t].size <= a.block[h[t]].size
      /\ \A t, u \in SubAllocations : h[t] = h[u] /\ h[t] # Null => t = u
  BY DEF BufferRight, ReservationsRight
<1>2. PICK erased : erased = EraseReady
  OBVIOUS
<1> DEFINE swept == erased.allocator
           kept == erased.kept
           held == {kept[i].block : i \in DOMAIN kept}
<1>3. PICK indeterminate \in {Null, Junk} :
        /\ Cardinality(FreshNames(swept, held)) >= 2
        /\ LET outcome == CreateAllocation(swept, Requirement[s], held, indeterminate)
           IN  IF swept.corrupt \/ outcome.block = Null
               THEN /\ a' = IF swept.corrupt THEN swept ELSE outcome.allocator
                    /\ arr' = kept
                    /\ UNCHANGED <<mHReservation, written, overtaken>>
               ELSE /\ a' = outcome.allocator
                    /\ arr' = Append(MarkForDestruction(kept, h[s]),
                                     [block |-> outcome.block, mReadyForDestruction |-> FALSE])
                    /\ h' = [h EXCEPT ![s] = outcome.block]
                    /\ written' = [written EXCEPT ![s] = Nothing]
                    /\ overtaken' = overtaken \ {s}
  BY <1>2 DEF AssignReservationToSubAllocation
<1>4. /\ UNCHANGED <<mPendingWriteRequestArr, creation, contents, writing>> /\ writing[s] = Nothing
  BY DEF AssignReservationToSubAllocation, May
<1>5. Visited(erased, Len(arr))
  BY <1>2, ErasesAll DEF BufferRight
<1>6. /\ Spares(a, swept) /\ kept \in Seq(Reservations)
      /\ \A i \in DOMAIN kept : /\ ~ReadyForDestruction(kept[i])
                                /\ \E j \in DOMAIN arr : kept[i] = arr[j]
      /\ \A j \in DOMAIN arr : ~ReadyForDestruction(arr[j]) =>
            \E i \in DOMAIN kept : kept[i] = arr[j]
      /\ \A i, j \in DOMAIN kept : kept[i].block = kept[j].block => i = j
  BY <1>1, <1>5 DEF Visited
<1> HIDE DEF swept, kept, held
<1>7. CASE Lost(swept)
  BY <1>3, <1>7 DEF BufferInv, Lost
<1>8. CASE ~Lost(swept)
  <2>1. Good(swept) /\ swept.corrupt = FALSE /\ DOMAIN swept.block \subseteq Blocks
    BY <1>6, <1>8 DEF Spares, Good, Parted, Sound
  <2>2. \A i \in DOMAIN kept :
           /\ kept[i].block \in InUse(swept) /\ kept[i].block \in Blocks
           /\ swept.block[kept[i].block].offset = a.block[kept[i].block].offset
           /\ swept.block[kept[i].block].size = a.block[kept[i].block].size
    <3>1. InUse(swept) \subseteq Blocks
      BY <2>1 DEF InUse
    <3> QED BY <1>6, <1>8, <3>1 DEF Spares
  <2>3. ASSUME NEW t \in SubAllocations, h[t] # Null
        PROVE  /\ \E i \in DOMAIN kept : kept[i] = [block |-> h[t], mReadyForDestruction |-> FALSE]
               /\ h[t] \in InUse(swept)
               /\ swept.block[h[t]].offset = a.block[h[t]].offset
               /\ swept.block[h[t]].size = a.block[h[t]].size
    <3>1. PICK j \in DOMAIN arr : arr[j] = [block |-> h[t], mReadyForDestruction |-> FALSE]
      BY <1>1, <2>3
    <3>2. ~ReadyForDestruction(arr[j]) /\ arr[j].block = h[t]
      BY <3>1 DEF ReadyForDestruction
    <3>3. PICK i \in DOMAIN kept : kept[i] = arr[j]
      BY <1>6, <3>2
    <3> QED BY <2>2, <3>1, <3>2, <3>3
  <2>4. Requirement[s] \in [size : Nat \ {0}, alignment : Nat \ {0}]
    BY SubAllocationAssumption, TLSFAssumption
  <2> DEFINE outcome == CreateAllocation(swept, Requirement[s], held, indeterminate)
             c == outcome.allocator
             b == outcome.block
  <2>5. \/ b = Null /\ c = swept
        \/ Lost(c)
        \/ Allocated(swept, c, b, Requirement[s])
    BY <1>3, <2>1, <2>4, Creates
  <2>6. IF b = Null
        THEN /\ a' = c /\ arr' = kept
             /\ UNCHANGED <<mHReservation, written, overtaken>>
        ELSE /\ a' = c
             /\ arr' = Append(MarkForDestruction(kept, h[s]),
                              [block |-> b, mReadyForDestruction |-> FALSE])
             /\ h' = [h EXCEPT ![s] = b]
             /\ written' = [written EXCEPT ![s] = Nothing]
             /\ overtaken' = overtaken \ {s}
    BY <1>3, <2>1
  <2>7. DataRight /\ written \in [SubAllocations -> WriteRequests \cup {Nothing}]
    BY DEF BufferRight, DataRight
  <2> HIDE DEF outcome, a, arr, h
  <2>8. CASE Lost(c)
    BY <2>6, <2>8 DEF BufferInv, a
  <2>9. CASE b = Null /\ c = swept
    <3>1. a' = swept /\ arr' = kept /\ UNCHANGED <<mHReservation, written, overtaken>> /\ h' = h
      BY <2>6, <2>9 DEF h
    <3>2. ReservationsRight'
      <4>1. \A t \in SubAllocations : h'[t] # Null =>
               /\ \E i \in DOMAIN arr' : arr'[i] = [block |-> h'[t], mReadyForDestruction |-> FALSE]
               /\ Requirement[t].size <= a'.block[h'[t]].size
        BY <1>1, <2>3, <3>1
      <4>2. Good(a)' /\ \A i \in DOMAIN arr' : arr'[i].block \in InUse(a')
        BY <2>1, <2>2, <3>1
      <4>3. arr' \in Seq(Reservations)
        BY <1>6, <3>1
      <4>4. \A i, j \in DOMAIN arr' : arr'[i].block = arr'[j].block => i = j
        BY <1>6, <3>1
      <4>5. /\ h' \in [SubAllocations -> Blocks \cup {Null}]
            /\ \A t, u \in SubAllocations : h'[t] = h'[u] /\ h'[t] # Null => t = u
        BY <1>1, <3>1
      <4> USE DEF a, arr, h
      <4> QED BY <4>1, <4>2, <4>3, <4>4, <4>5 DEF ReservationsRight
    <3>3. \A t \in SubAllocations : h[t] # Null => MemoryOf(a', h[t]) = MemoryOf(a, h[t])
      BY <2>3, <3>1 DEF MemoryOf
    <3>4. DataRight'
      <4>1. \A t \in SubAllocations : writing[t] # Nothing => h[t] # Null
        BY <2>7 DEF DataRight, h
      <4>2. \A t \in SubAllocations : writing[t] # Nothing =>
               h'[t] = h[t] /\ MemoryOf(a', h[t]) = MemoryOf(a, h[t])
        BY <3>1, <3>3, <4>1
      <4>3. \A t \in SubAllocations : h'[t] # Null /\ written'[t] # Nothing =>
               \E u \in SubAllocations :
                  /\ h[u] # Null /\ written[u] = written'[t]
                  /\ MemoryOf(a', h'[t]) = MemoryOf(a, h[u])
                  /\ t \notin overtaken' => u \notin overtaken
        BY <3>1, <3>3
      <4> USE DEF a, h
      <4> QED BY <1>4, <2>7, <3>1, <4>2, <4>3, DataStays
    <3> QED BY <3>2, <3>4 DEF BufferInv, BufferRight
  <2>10. CASE Allocated(swept, c, b, Requirement[s])
    <3>1. /\ Good(c) /\ b \in InUse(c) /\ b \in Blocks /\ b # Null /\ b \notin InUse(swept)
          /\ c.block[b].size = Requirement[s].size
          /\ \A p \in InUse(swept) : /\ p \in InUse(c)
                                     /\ c.block[p].offset = swept.block[p].offset
                                     /\ c.block[p].size = swept.block[p].size
      BY <2>1, <2>10, TLSFAssumption DEF Allocated, Keeps
    <3> DEFINE marked == MarkForDestruction(kept, h[s])
               new == [block |-> b, mReadyForDestruction |-> FALSE]
               last == Len(kept) + 1
    <3>2. /\ a' = c /\ arr' = Append(marked, new)
          /\ h' = [h EXCEPT ![s] = b]
          /\ written' = [written EXCEPT ![s] = Nothing]
          /\ overtaken' = overtaken \ {s}
      BY <2>6, <3>1
    <3>3. /\ marked \in Seq(Reservations) /\ DOMAIN marked = DOMAIN kept /\ Len(marked) = Len(kept)
          /\ \A i \in DOMAIN kept : /\ marked[i].block = kept[i].block
                                    /\ kept[i].block # h[s] => marked[i] = kept[i]
      BY <1>6, Marks
    <3>4. new \in Reservations /\ new.block = b
      BY <3>1 DEF Reservations
    <3> HIDE DEF marked
    <3>5. /\ arr' \in Seq(Reservations) /\ DOMAIN arr' = DOMAIN kept \cup {last}
          /\ last \notin DOMAIN kept /\ arr'[last] = new
          /\ \A i \in DOMAIN kept : arr'[i] = marked[i]
      <4> HIDE DEF new
      <4> QED BY <1>6, <3>2, <3>3, <3>4
    <3>6. \A t \in SubAllocations : h'[t] = IF t = s THEN b ELSE h[t]
      BY <1>1, <3>2
    <3> HIDE DEF c, b, last
    <3>7. ASSUME NEW t \in SubAllocations \ {s}, h[t] # Null
          PROVE  /\ \E i \in DOMAIN arr' : arr'[i] = [block |-> h[t], mReadyForDestruction |-> FALSE]
                 /\ h[t] # b
                 /\ a'.block[h[t]].offset = a.block[h[t]].offset
                 /\ a'.block[h[t]].size = a.block[h[t]].size
      <4>1. PICK i \in DOMAIN kept : kept[i] = [block |-> h[t], mReadyForDestruction |-> FALSE]
        BY <2>3, <3>7
      <4>2. h[t] # h[s] /\ kept[i].block = h[t]
        BY <1>1, <3>7, <4>1
      <4>3. i \in DOMAIN arr' /\ arr'[i] = kept[i]
        BY <3>3, <3>5, <4>2
      <4>4. /\ h[t] \in InUse(swept) /\ swept.block[h[t]].offset = a.block[h[t]].offset
            /\ swept.block[h[t]].size = a.block[h[t]].size
        BY <2>3, <3>7
      <4>5. \E j \in DOMAIN arr' : arr'[j] = [block |-> h[t], mReadyForDestruction |-> FALSE]
        BY <4>1, <4>3
      <4> QED BY <3>1, <3>2, <4>4, <4>5
    <3>8. ReservationsRight'
      <4>1. ASSUME NEW t \in SubAllocations, h'[t] # Null
            PROVE  /\ \E i \in DOMAIN arr' : arr'[i] = [block |-> h'[t], mReadyForDestruction |-> FALSE]
                   /\ Requirement[t].size <= a'.block[h'[t]].size
        <5>1. CASE t = s
          <6>1. h'[t] = b /\ last \in DOMAIN arr'
                /\ arr'[last] = [block |-> h'[t], mReadyForDestruction |-> FALSE]
            BY <3>5, <3>6, <5>1
          <6>2. Requirement[t].size <= a'.block[h'[t]].size
            <7>1. Requirement[s].size \in Nat /\ a'.block[h'[t]].size = Requirement[s].size
              BY <2>4, <3>1, <3>2, <6>1
            <7> QED BY <5>1, <7>1
          <6> QED BY <6>1, <6>2
        <5>2. CASE t # s
          <6>1. h'[t] = h[t] /\ h[t] # Null /\ t \in SubAllocations \ {s}
            BY <3>6, <4>1, <5>2
          <6> QED BY <1>1, <3>7, <6>1
        <5> QED BY <5>1, <5>2
      <4>2. \A i \in DOMAIN arr' : arr'[i].block \in InUse(a')
        <5>1. \A i \in DOMAIN kept : arr'[i].block \in InUse(c)
          BY <2>2, <3>1, <3>3, <3>5
        <5> QED BY <3>1, <3>2, <3>4, <3>5, <5>1
      <4>3. \A i, j \in DOMAIN arr' : arr'[i].block = arr'[j].block => i = j
        <5>1. \A i \in DOMAIN kept : arr'[i].block = kept[i].block /\ kept[i].block # b
          BY <2>2, <3>1, <3>3, <3>5
        <5> QED BY <1>6, <3>4, <3>5, <5>1
      <4>4. h' \in [SubAllocations -> Blocks \cup {Null}]
        BY <1>1, <3>1, <3>2
      <4>5. \A t, u \in SubAllocations : h'[t] = h'[u] /\ h'[t] # Null => t = u
        BY <1>1, <3>6, <3>7
      <4>6. Good(a)'
        BY <3>1, <3>2
      <4> USE DEF a, arr, h
      <4> QED BY <3>5, <4>1, <4>2, <4>3, <4>4, <4>5, <4>6 DEF ReservationsRight
    <3>9. DataRight'
      <4>1. \A t \in SubAllocations : writing[t] # Nothing => h[t] # Null /\ t # s
        BY <1>4, <2>7 DEF DataRight, h
      <4>2. \A t \in SubAllocations \ {s} : h[t] # Null => MemoryOf(a', h[t]) = MemoryOf(a, h[t])
        BY <3>7 DEF MemoryOf
      <4>3. \A t \in SubAllocations : writing[t] # Nothing =>
               h'[t] = h[t] /\ MemoryOf(a', h[t]) = MemoryOf(a, h[t])
        BY <3>6, <4>1, <4>2
      <4>4. /\ written' \in [SubAllocations -> WriteRequests \cup {Nothing}]
            /\ \A t \in SubAllocations : written'[t] = IF t = s THEN Nothing ELSE written[t]
        BY <2>7, <3>2
      <4>5. ASSUME NEW t \in SubAllocations, h'[t] # Null, written'[t] # Nothing
            PROVE  /\ h[t] # Null /\ written[t] = written'[t]
                   /\ MemoryOf(a', h'[t]) = MemoryOf(a, h[t])
                   /\ t \notin overtaken' => t \notin overtaken
        <5>1. t # s
          BY <4>4, <4>5
        <5> QED BY <3>2, <3>6, <4>2, <4>4, <4>5, <5>1
      <4>6. \A t \in SubAllocations : h'[t] # Null /\ written'[t] # Nothing =>
               \E u \in SubAllocations :
                  /\ h[u] # Null /\ written[u] = written'[t]
                  /\ MemoryOf(a', h'[t]) = MemoryOf(a, h[u])
                  /\ t \notin overtaken' => u \notin overtaken
        BY <4>5
      <4> USE DEF a, h
      <4> QED BY <1>4, <2>7, <4>3, <4>4, <4>6, DataStays
    <3> QED BY <3>8, <3>9 DEF BufferInv, BufferRight
  <2> QED BY <2>5, <2>8, <2>9, <2>10
<1> QED BY <1>7, <1>8

LEMMA BufferInitially == BufferInit => BufferInv
<1> SUFFICES ASSUME BufferInit PROVE BufferInv
  OBVIOUS
<1>1. PICK indeterminate \in {Null, Junk} :
          mBufferMemoryAllocator = InitialAllocator(indeterminate)
  BY DEF BufferInit
<1>2. /\ mReservationPtrArr = <<>> /\ mHReservation = [s \in SubAllocations |-> Null]
      /\ mPendingWriteRequestArr = <<>> /\ creation = "none"
      /\ contents = [byte \in 0 .. HeapSizeInBytes - 1 |-> Nothing]
      /\ writing = [s \in SubAllocations |-> Nothing]
      /\ written = [s \in SubAllocations |-> Nothing]
  BY DEF BufferInit
<1>3. Lost(mBufferMemoryAllocator) \/ Good(mBufferMemoryAllocator)
  BY <1>1, InitialIsGood
<1>4. ASSUME Good(mBufferMemoryAllocator) PROVE ReservationsRight
  <2>1. mReservationPtrArr \in Seq(Reservations) /\ DOMAIN mReservationPtrArr = {}
    BY <1>2
  <2>2. /\ mHReservation \in [SubAllocations -> Blocks \cup {Null}]
        /\ \A s \in SubAllocations : mHReservation[s] = Null
    BY <1>2
  <2> QED BY <1>4, <2>1, <2>2 DEF ReservationsRight
<1>5. DataRight
  <2>1. mPendingWriteRequestArr \in Seq(WriteRequests)
    BY <1>2
  <2>2. \A s \in SubAllocations : /\ mHReservation[s] = Null
                                  /\ writing[s] = Nothing
    BY <1>2
  <2>3. /\ written \in [SubAllocations -> WriteRequests \cup {Nothing}]
        /\ writing \in [SubAllocations -> WriteRequests \cup {Nothing}]
        /\ contents = [byte \in 0 .. HeapSizeInBytes - 1 |-> contents[byte]]
        /\ creation # "initialized"
    BY <1>2
  <2> QED BY <2>1, <2>2, <2>3 DEF DataRight
<1> QED BY <1>3, <1>4, <1>5 DEF BufferInv, BufferRight

LEMMA BufferStep == BufferInv /\ [BufferNext]_bufferVars => BufferInv'
<1> SUFFICES ASSUME BufferInv, [BufferNext]_bufferVars PROVE BufferInv'
  OBVIOUS
<1>1. CASE UNCHANGED bufferVars
  <2>1. /\ UNCHANGED <<mBufferMemoryAllocator, mReservationPtrArr, mHReservation>>
        /\ UNCHANGED <<mPendingWriteRequestArr, creation, contents>>
        /\ UNCHANGED <<writing, written, overtaken>>
    BY <1>1 DEF bufferVars
  <2>2. \A s \in SubAllocations : Stays(written[s]) => Stays(written[s])'
    BY <2>1 DEF Stays
  <2>3. ReservationsRight => ReservationsRight'
    BY <2>1 DEF ReservationsRight
  <2>4. DataRight => DataRight'
    BY <2>1, <2>2 DEF DataRight
  <2> QED BY <2>1, <2>3, <2>4 DEF BufferInv, BufferRight
<1>2. CASE BufferNext
  <2>1. CASE Lost(mBufferMemoryAllocator)
    <3>1. mBufferMemoryAllocator' = mBufferMemoryAllocator
      BY <1>2, <2>1 DEF BufferNext, AssignReservationToSubAllocation, DestroySubAllocation,
         WriteToBuffer, CopyIntoBuffer, PassReservation, CreateD3D12Resource,
         TransferTemporaryCPUDataToGPUBuffer, May, Lost
    <3> QED BY <2>1, <3>1 DEF BufferInv
  <2>2. CASE BufferRight
    <3>1. ASSUME NEW s \in SubAllocations, AssignReservationToSubAllocation(s) PROVE BufferInv'
      BY <2>2, <3>1, AssignmentStep
    <3>2. ASSUME NEW s \in SubAllocations, DestroySubAllocation(s) PROVE BufferInv'
      BY <2>2, <3>2, DestructionStep DEF BufferInv
    <3>3. ASSUME NEW s \in SubAllocations, WriteToBuffer(s) PROVE BufferInv'
      BY <2>2, <3>3, WritingStep DEF BufferInv
    <3>4. ASSUME NEW s \in SubAllocations, CopyIntoBuffer(s) PROVE BufferInv'
      BY <2>2, <3>4, CopyingStep DEF BufferInv
    <3>5. ASSUME NEW s \in SubAllocations, NEW t \in SubAllocations, PassReservation(s, t)
          PROVE  BufferInv'
      BY <2>2, <3>5, PassingStep DEF BufferInv
    <3>6. ASSUME CreateD3D12Resource PROVE BufferInv'
      BY <2>2, <3>6, CreationStep DEF BufferInv
    <3>7. ASSUME TransferTemporaryCPUDataToGPUBuffer PROVE BufferInv'
      BY <2>2, <3>7, TransferStep DEF BufferInv
    <3> QED BY <1>2, <3>1, <3>2, <3>3, <3>4, <3>5, <3>6, <3>7 DEF BufferNext
  <2> QED BY <2>1, <2>2 DEF BufferInv
<1> QED BY <1>1, <1>2

\* What is written through a valid handle is not written over by what is written through
\* others nor by requests that are older, however often reservations are made, passed on,
\* given up and their blocks returned twice, and whenever the resource is created: unless
\* a pointer to a deleted block is followed, of which nothing is known.
THEOREM SubAllocationsKeepTheirDataTheorem == BufferSpec => []SubAllocationsKeepTheirData
  BY BufferInitially, BufferStep, RightKeepsData, PTL DEF BufferSpec

-----------------------------------------------------------------------------
(* Bindless SRVs. *)

Sentinels == [resource : GPUResources, view : Views, index : Indices]
\* The sentinels of the SRVs, and the sentinel an SRV under construction will have.
SentinelsInUse == UNION {mBindlessSentinelArr[r] : r \in GPUResources}

Types ==
    /\ mBindlessIndexQueue \in Seq(Indices)
    /\ mHeap = [i \in Indices |-> mHeap[i]]
    /\ mResourceContainer \subseteq GPUResources
    /\ mBindlessSentinelArr \in [GPUResources -> SUBSET Sentinels]
    /\ creating \subseteq [resource : GPUResources, view : Views, index : Indices, done : BOOLEAN]
    /\ allocation = [v \in DOMAIN allocation |-> allocation[v]]

SentinelsAreTheirs ==
    /\ \A r \in GPUResources : \A s \in mBindlessSentinelArr[r] : s.resource = r
    /\ \A v \in DOMAIN allocation :
          /\ allocation[v] \in Sentinels /\ allocation[v].view = v
          /\ allocation[v] \in mBindlessSentinelArr[allocation[v].resource]

\* Every index is free once, or taken once.
IndicesAreApart ==
    /\ \A i, j \in DOMAIN mBindlessIndexQueue :
          mBindlessIndexQueue[i] = mBindlessIndexQueue[j] => i = j
    /\ \A s, t \in SentinelsInUse : s.index = t.index => s = t
    /\ \A c, d \in creating : c.index = d.index => c = d
    /\ \A s \in SentinelsInUse, c \in creating : s.index # c.index
    /\ \A i \in DOMAIN mBindlessIndexQueue :
          /\ \A s \in SentinelsInUse : mBindlessIndexQueue[i] # s.index
          /\ \A c \in creating : mBindlessIndexQueue[i] # c.index
    /\ \A n \in Indices :
          \/ \E i \in DOMAIN mBindlessIndexQueue : mBindlessIndexQueue[i] = n
          \/ \E s \in SentinelsInUse : s.index = n
          \/ \E c \in creating : c.index = n

DescriptorsAreWritten ==
    /\ \A r \in mResourceContainer : \A s \in mBindlessSentinelArr[r] :
          mHeap[s.index] = Of(r, s.view)
    /\ \A c \in creating : c.done /\ c.resource \in mResourceContainer =>
          mHeap[c.index] = Of(c.resource, c.view)

BindlessInv == Types /\ SentinelsAreTheirs /\ IndicesAreApart /\ DescriptorsAreWritten

\* At first all indices are free.
LEMMA BindlessInitially ==
    ASSUME BindlessInit
    PROVE  BindlessInv
<1> DEFINE N == BINDLESS_SRVS_PARTITION_SIZE
<1>1. N \in Nat
  BY BindlessAssumption
<1>2. mBindlessIndexQueue \in Seq(Indices) /\ Len(mBindlessIndexQueue) = N
  BY <1>1 DEF BindlessInit, Indices
<1>3. Types
  BY <1>1, <1>2 DEF BindlessInit, Types
<1>4. SentinelsInUse = {} /\ creating = {} /\ DOMAIN allocation = {}
  BY DEF BindlessInit, SentinelsInUse
<1>5. IndicesAreApart
  <2>1. DOMAIN mBindlessIndexQueue = 1 .. N
    BY DEF BindlessInit
  <2>2. ASSUME NEW n \in Indices
        PROVE  n + 1 \in 1 .. N /\ mBindlessIndexQueue[n + 1] = n
    BY <1>1 DEF Indices, BindlessInit
  <2>3. ASSUME NEW i \in 1 .. N, NEW j \in 1 .. N, mBindlessIndexQueue[i] = mBindlessIndexQueue[j]
        PROVE  i = j
    BY <1>1, <2>3 DEF BindlessInit
  <2>4. QED
    BY <1>4, <2>1, <2>2, <2>3 DEF IndicesAreApart
<1>6. SentinelsAreTheirs /\ DescriptorsAreWritten
  BY <1>4 DEF SentinelsAreTheirs, DescriptorsAreWritten, BindlessInit
<1>7. QED
  BY <1>3, <1>5, <1>6 DEF BindlessInv

\* AllocateBindlessSRV: an index leaves the queue for an SRV under construction.
LEMMA Allocating ==
    ASSUME BindlessInv, NEW r \in GPUResources, NEW v \in Views, AllocateBindlessSRV(r, v)
    PROVE  BindlessInv'
<1> DEFINE q == mBindlessIndexQueue
           new == [resource |-> r, view |-> v, index |-> Head(mBindlessIndexQueue), done |-> FALSE]
<1>1. q \in Seq(Indices) /\ q # <<>>
  BY DEF BindlessInv, Types, AllocateBindlessSRV
<1>2. /\ Head(q) = q[1] /\ Head(q) \in Indices /\ 1 \in DOMAIN q
      /\ q' = Tail(q) /\ q' \in Seq(Indices) /\ DOMAIN q' = 1 .. Len(q) - 1
      /\ \A i \in DOMAIN q' : i + 1 \in DOMAIN q /\ q'[i] = q[i + 1] /\ i + 1 # 1
      /\ \A i \in DOMAIN q : i = 1 \/ (i - 1 \in DOMAIN q' /\ q'[i - 1] = q[i])
  BY <1>1 DEF AllocateBindlessSRV
<1>3. creating' = creating \cup {new} /\ SentinelsInUse' = SentinelsInUse
  BY DEF AllocateBindlessSRV, SentinelsInUse
<1>4. /\ new \in [resource : GPUResources, view : Views, index : Indices, done : BOOLEAN]
      /\ new.index = q[1] /\ ~ new.done
  BY <1>2
<1>5. Types'
  BY <1>2, <1>3, <1>4 DEF BindlessInv, Types, AllocateBindlessSRV
<1>6. IndicesAreApart'
  <2> HIDE DEF new
  <2>1. ASSUME NEW i \in DOMAIN q', NEW j \in DOMAIN q', q'[i] = q'[j]
        PROVE  i = j
    BY <1>1, <1>2, <2>1 DEF BindlessInv, IndicesAreApart
  <2>2. ASSUME NEW i \in DOMAIN q'
        PROVE  /\ \A s \in SentinelsInUse' : q'[i] # s.index
               /\ \A c \in creating' : q'[i] # c.index
    BY <1>2, <1>3, <1>4 DEF BindlessInv, IndicesAreApart
  <2>3. ASSUME NEW n \in Indices
        PROVE  \/ \E i \in DOMAIN q' : q'[i] = n
               \/ \E s \in SentinelsInUse' : s.index = n
               \/ \E c \in creating' : c.index = n
    <3>1. CASE \E i \in DOMAIN q : q[i] = n
      <4>1. PICK i \in DOMAIN q : q[i] = n
        BY <3>1
      <4>2. new \in creating' /\ new.index = q[1]
        BY <1>3, <1>4
      <4>3. CASE i = 1
        BY <4>1, <4>2, <4>3
      <4>4. CASE i # 1
        BY <1>2, <4>1, <4>4
      <4>5. QED
        BY <4>3, <4>4
    <3>2. CASE (\E s \in SentinelsInUse : s.index = n) \/ (\E c \in creating : c.index = n)
      BY <1>3, <3>2
    <3>3. QED
      BY <3>1, <3>2 DEF BindlessInv, IndicesAreApart
  <2>4. /\ \A c, d \in creating' : c.index = d.index => c = d
        /\ \A s \in SentinelsInUse', c \in creating' : s.index # c.index
    BY <1>2, <1>3, <1>4 DEF BindlessInv, IndicesAreApart
  <2>5. QED
    BY <1>3, <2>1, <2>2, <2>3, <2>4 DEF BindlessInv, IndicesAreApart
<1>7. SentinelsAreTheirs'
  BY DEF BindlessInv, SentinelsAreTheirs, AllocateBindlessSRV
<1>8. DescriptorsAreWritten'
  BY <1>3, <1>4 DEF BindlessInv, DescriptorsAreWritten, AllocateBindlessSRV
<1>9. QED
  BY <1>5, <1>6, <1>7, <1>8 DEF BindlessInv

\* Under the lock, the descriptor of a new SRV is written if its resource exists.
LEMMA Describing ==
    ASSUME BindlessInv, NEW c \in creating, DescribeNewSRV(c)
    PROVE  BindlessInv'
<1> DEFINE new == [c EXCEPT !.done = TRUE]
<1>1. /\ c \in [resource : GPUResources, view : Views, index : Indices, done : BOOLEAN]
      /\ ~ c.done
  BY DEF BindlessInv, Types, DescribeNewSRV
<1>2. /\ new \in [resource : GPUResources, view : Views, index : Indices, done : BOOLEAN]
      /\ new.resource = c.resource /\ new.view = c.view /\ new.index = c.index
  BY <1>1
<1>3. /\ creating' = (creating \ {c}) \cup {new}
      /\ SentinelsInUse' = SentinelsInUse /\ UNCHANGED <<mBindlessIndexQueue, mResourceContainer,
                                       mBindlessSentinelArr, allocation>>
      /\ mHeap' = IF c.resource \in mResourceContainer
                  THEN [mHeap EXCEPT ![c.index] = Of(c.resource, c.view)] ELSE mHeap
  BY DEF DescribeNewSRV, SentinelsInUse
<1> HIDE DEF new
<1>4. Types'
  BY <1>1, <1>2, <1>3 DEF BindlessInv, Types
<1>5. IndicesAreApart'
  <2>1. ASSUME NEW d \in creating', NEW e \in creating', d.index = e.index
        PROVE  d = e
    BY <1>2, <1>3, <2>1 DEF BindlessInv, IndicesAreApart
  <2>2. \A s \in SentinelsInUse', d \in creating' : s.index # d.index
    BY <1>2, <1>3 DEF BindlessInv, IndicesAreApart
  <2>3. \A i \in DOMAIN mBindlessIndexQueue : \A d \in creating' : mBindlessIndexQueue[i] # d.index
    BY <1>2, <1>3 DEF BindlessInv, IndicesAreApart
  <2>4. ASSUME NEW n, NEW d \in creating, d.index = n
        PROVE  \E e \in creating' : e.index = n
    BY <1>2, <1>3, <2>4
  <2>5. QED
    BY <1>3, <2>1, <2>2, <2>3, <2>4 DEF BindlessInv, IndicesAreApart
<1>6. SentinelsAreTheirs'
  BY <1>3 DEF BindlessInv, SentinelsAreTheirs
<1>7. DescriptorsAreWritten'
  <2>1. ASSUME NEW r \in mResourceContainer', NEW s \in mBindlessSentinelArr[r]
        PROVE  mHeap'[s.index] = Of(r, s.view)
    <3>1. r \in GPUResources /\ s \in SentinelsInUse /\ s \in Sentinels
      BY <1>3, <2>1 DEF BindlessInv, Types, SentinelsInUse
    <3>4. s.index # c.index
      BY <3>1 DEF BindlessInv, IndicesAreApart
    <3>2. mHeap[s.index] = Of(r, s.view)
      BY <1>3, <2>1 DEF BindlessInv, DescriptorsAreWritten
    <3>3. QED
      BY <1>3, <3>1, <3>2, <3>4 DEF BindlessInv, Types, Sentinels
  <2>2. ASSUME NEW d \in creating', d.done, d.resource \in mResourceContainer'
        PROVE  mHeap'[d.index] = Of(d.resource, d.view)
    <3>1. CASE d = new
      BY <1>1, <1>2, <1>3, <2>2, <3>1 DEF BindlessInv, Types
    <3>2. CASE d # new
      <4>1. d \in creating /\ d # c /\ d.index # c.index /\ d.index \in Indices
        BY <1>3, <2>2, <3>2 DEF BindlessInv, Types, IndicesAreApart
      <4>2. mHeap[d.index] = Of(d.resource, d.view)
        BY <1>3, <2>2, <4>1 DEF BindlessInv, DescriptorsAreWritten
      <4>3. QED
        BY <1>3, <4>1, <4>2 DEF BindlessInv, Types
    <3>3. QED
      BY <3>1, <3>2
  <2>3. QED
    BY <1>3, <2>1, <2>2 DEF DescriptorsAreWritten
<1>8. QED
  BY <1>4, <1>5, <1>6, <1>7 DEF BindlessInv

\* The SRV under construction becomes a sentinel.
LEMMA Finishing ==
    ASSUME BindlessInv, NEW c \in creating, FinishBindlessSRV(c)
    PROVE  BindlessInv'
<1> DEFINE new == [resource |-> c.resource, view |-> c.view, index |-> c.index]
<1>1. c \in [resource : GPUResources, view : Views, index : Indices, done : BOOLEAN] /\ c.done
  BY DEF BindlessInv, Types, FinishBindlessSRV
<1>2. /\ new \in Sentinels
      /\ new.resource = c.resource /\ new.view = c.view /\ new.index = c.index
  BY <1>1 DEF Sentinels
<1>3. /\ creating' = creating \ {c}
      /\ mBindlessSentinelArr' =
             [mBindlessSentinelArr EXCEPT ![c.resource] = @ \cup {new}]
      /\ allocation' = [v \in DOMAIN allocation \cup {c.view} |->
                            IF v = c.view THEN new ELSE allocation[v]]
      /\ UNCHANGED <<mBindlessIndexQueue, mHeap, mResourceContainer>>
  BY DEF FinishBindlessSRV
<1> HIDE DEF new
<1>4. \A r \in GPUResources :
         mBindlessSentinelArr'[r] = IF r = c.resource THEN mBindlessSentinelArr[r] \cup {new}
                                                      ELSE mBindlessSentinelArr[r]
  BY <1>1, <1>3 DEF BindlessInv, Types
<1>5. SentinelsInUse' = SentinelsInUse \cup {new}
  <2>1. c.resource \in GPUResources
    BY <1>1
  <2>2. ASSUME NEW s
        PROVE  s \in SentinelsInUse' <=> s \in SentinelsInUse \/ s = new
    <3>1. /\ s \in SentinelsInUse <=> \E r \in GPUResources : s \in mBindlessSentinelArr[r]
          /\ s \in SentinelsInUse' <=> \E r \in GPUResources : s \in mBindlessSentinelArr'[r]
      BY DEF SentinelsInUse
    <3>2. QED
      BY <1>4, <2>1, <3>1
  <2>3. QED
    BY <2>2
<1>6. Types'
  BY <1>1, <1>2, <1>3, <1>4 DEF BindlessInv, Types
<1>7. IndicesAreApart'
  <2>1. ASSUME NEW s \in SentinelsInUse', NEW t \in SentinelsInUse', s.index = t.index
        PROVE  s = t
    BY <1>2, <1>5, <2>1 DEF BindlessInv, IndicesAreApart
  <2>2. ASSUME NEW s \in SentinelsInUse', NEW d \in creating'
        PROVE  s.index # d.index
    BY <1>2, <1>3, <1>5, <2>2 DEF BindlessInv, IndicesAreApart
  <2>3. \A i \in DOMAIN mBindlessIndexQueue : \A s \in SentinelsInUse' : mBindlessIndexQueue[i] # s.index
    BY <1>2, <1>5 DEF BindlessInv, IndicesAreApart
  <2>4. ASSUME NEW n
        PROVE  /\ (\E s \in SentinelsInUse : s.index = n) => \E s \in SentinelsInUse' : s.index = n
               /\ (\E d \in creating : d.index = n) =>
                     (\E d \in creating' : d.index = n) \/ \E s \in SentinelsInUse' : s.index = n
    BY <1>2, <1>3, <1>5
  <2>5. QED
    BY <1>3, <2>1, <2>2, <2>3, <2>4 DEF BindlessInv, IndicesAreApart
<1>8. SentinelsAreTheirs'
  BY <1>1, <1>2, <1>3, <1>4 DEF BindlessInv, SentinelsAreTheirs, Sentinels
<1>9. DescriptorsAreWritten'
  BY <1>1, <1>2, <1>3, <1>4 DEF BindlessInv, DescriptorsAreWritten, Types
<1>10. QED
  BY <1>6, <1>7, <1>8, <1>9 DEF BindlessInv

\* A resource is created, and the descriptors of all its sentinels are written.
LEMMA Creating ==
    ASSUME BindlessInv, NEW r \in GPUResources, CreateResource(r)
    PROVE  BindlessInv'
<1>1. /\ mHeap' = UpdateBindlessSRVs(r) /\ mResourceContainer' = mResourceContainer \cup {r}
      /\ \A c \in creating : c.resource # r
      /\ UNCHANGED <<mBindlessIndexQueue, mBindlessSentinelArr, creating, allocation>>
  BY DEF CreateResource, WriteLock, Readers
<1>2. Types' /\ SentinelsAreTheirs' /\ IndicesAreApart'
  BY <1>1 DEF BindlessInv, Types, SentinelsAreTheirs, IndicesAreApart, SentinelsInUse, UpdateBindlessSRVs
<1>3. ASSUME NEW s \in mBindlessSentinelArr[r]
      PROVE  mHeap'[s.index] = Of(r, s.view)
  <2>1. s \in SentinelsInUse /\ s.index \in Indices
    BY DEF SentinelsInUse, BindlessInv, Types, Sentinels
  <2>2. \A t \in mBindlessSentinelArr[r] : t.index = s.index => t = s
    BY <2>1 DEF SentinelsInUse, BindlessInv, IndicesAreApart
  <2>3. PICK t \in mBindlessSentinelArr[r] :
           t.index = s.index /\ mHeap'[s.index] = Of(r, t.view)
    BY <1>1, <2>1 DEF UpdateBindlessSRVs
  <2>4. QED
    BY <2>2, <2>3
<1>4. ASSUME NEW s \in SentinelsInUse, s \notin mBindlessSentinelArr[r]
      PROVE  mHeap'[s.index] = mHeap[s.index]
  <2>1. s.index \in Indices
    BY DEF SentinelsInUse, BindlessInv, Types, Sentinels
  <2>2. ~ \E t \in mBindlessSentinelArr[r] : t.index = s.index
    BY <1>4 DEF SentinelsInUse, BindlessInv, IndicesAreApart
  <2>3. QED
    BY <1>1, <2>1, <2>2 DEF UpdateBindlessSRVs
<1>5. ASSUME NEW c \in creating
      PROVE  mHeap'[c.index] = mHeap[c.index]
  <2>1. c.index \in Indices
    BY DEF BindlessInv, Types
  <2>2. ~ \E t \in mBindlessSentinelArr[r] : t.index = c.index
    BY DEF SentinelsInUse, BindlessInv, IndicesAreApart
  <2>3. QED
    BY <1>1, <2>1, <2>2 DEF UpdateBindlessSRVs
<1>6. DescriptorsAreWritten'
  <2>1. ASSUME NEW o \in mResourceContainer', NEW s \in mBindlessSentinelArr'[o]
        PROVE  mHeap'[s.index] = Of(o, s.view)
    <3>1. CASE o = r
      BY <1>1, <1>3, <2>1, <3>1
    <3>2. CASE o # r
      <4>1. o \in mResourceContainer /\ o \in GPUResources /\ s \in mBindlessSentinelArr[o]
        BY <1>1, <2>1, <3>2 DEF BindlessInv, Types
      <4>2. s \in SentinelsInUse /\ s.resource = o /\ s \notin mBindlessSentinelArr[r]
        BY <3>2, <4>1 DEF SentinelsInUse, BindlessInv, SentinelsAreTheirs
      <4>3. mHeap[s.index] = Of(o, s.view)
        BY <4>1 DEF BindlessInv, DescriptorsAreWritten
      <4>4. QED
        BY <1>4, <4>2, <4>3
    <3>3. QED
      BY <3>1, <3>2
  <2>2. \A c \in creating' : c.done /\ c.resource \in mResourceContainer' =>
           mHeap'[c.index] = Of(c.resource, c.view)
    BY <1>1, <1>5 DEF BindlessInv, DescriptorsAreWritten
  <2>3. QED
    BY <2>1, <2>2 DEF DescriptorsAreWritten
<1>7. QED
  BY <1>2, <1>6 DEF BindlessInv

\* A sentinel goes, and its index joins the queue.
LEMMA Returning ==
    ASSUME BindlessInv, NEW v \in Views, ReturnBindlessSRV(v)
    PROVE  BindlessInv'
<1> DEFINE q == mBindlessIndexQueue
<1>1. PICK s : s = allocation[v]
  OBVIOUS
<1>2. /\ v \in DOMAIN allocation /\ s \in Sentinels /\ s.view = v /\ s.resource \in GPUResources
      /\ s.index \in Indices /\ s \in mBindlessSentinelArr[s.resource] /\ s \in SentinelsInUse
  BY <1>1 DEF BindlessInv, SentinelsAreTheirs, Sentinels, ReturnBindlessSRV, SentinelsInUse
<1>3. /\ mBindlessSentinelArr' = [mBindlessSentinelArr EXCEPT ![s.resource] = @ \ {s}]
      /\ q' = Append(q, s.index)
      /\ allocation' = [w \in DOMAIN allocation \ {v} |-> allocation[w]]
      /\ UNCHANGED <<mHeap, mResourceContainer, creating>>
  BY <1>1 DEF ReturnBindlessSRV
<1>4. \A r \in GPUResources :
         mBindlessSentinelArr'[r] = IF r = s.resource THEN mBindlessSentinelArr[r] \ {s}
                                                      ELSE mBindlessSentinelArr[r]
  BY <1>2, <1>3 DEF BindlessInv, Types
<1>5. SentinelsInUse' = SentinelsInUse \ {s}
  <2>1. ASSUME NEW t
        PROVE  t \in SentinelsInUse' <=> t \in SentinelsInUse /\ t # s
    <3>1. /\ t \in SentinelsInUse <=> \E r \in GPUResources : t \in mBindlessSentinelArr[r]
          /\ t \in SentinelsInUse' <=> \E r \in GPUResources : t \in mBindlessSentinelArr'[r]
      BY DEF SentinelsInUse
    <3>2. \A r \in GPUResources : s \in mBindlessSentinelArr[r] => r = s.resource
      BY DEF BindlessInv, SentinelsAreTheirs
    <3>3. QED
      BY <1>4, <3>1, <3>2
  <2>2. QED
    BY <2>1
<1>6. /\ q \in Seq(Indices) /\ q' \in Seq(Indices)
      /\ DOMAIN q = 1 .. Len(q) /\ DOMAIN q' = 1 .. Len(q) + 1 /\ Len(q) \in Nat
      /\ \A i \in 1 .. Len(q) : q'[i] = q[i]
      /\ q'[Len(q) + 1] = s.index
  BY <1>2, <1>3 DEF BindlessInv, Types
<1>7. Types'
  BY <1>2, <1>3, <1>4, <1>6 DEF BindlessInv, Types
<1>8. IndicesAreApart'
  <2>1. \A i \in DOMAIN q : q[i] # s.index
    BY <1>2 DEF BindlessInv, IndicesAreApart
  <2>2. ASSUME NEW i \in DOMAIN q', NEW j \in DOMAIN q', q'[i] = q'[j]
        PROVE  i = j
    <3>1. /\ i \in DOMAIN q \/ i = Len(q) + 1
          /\ j \in DOMAIN q \/ j = Len(q) + 1
      BY <1>6
    <3>2. QED
      BY <1>6, <2>1, <2>2, <3>1 DEF BindlessInv, IndicesAreApart
  <2>3. ASSUME NEW i \in DOMAIN q'
        PROVE  /\ \A t \in SentinelsInUse' : q'[i] # t.index
               /\ \A c \in creating' : q'[i] # c.index
    <3>1. CASE i \in DOMAIN q
      BY <1>3, <1>5, <1>6, <3>1 DEF BindlessInv, IndicesAreApart
    <3>2. CASE i = Len(q) + 1
      <4>1. q'[i] = s.index
        BY <1>6, <3>2
      <4>2. QED
        BY <1>2, <1>3, <1>5, <4>1 DEF BindlessInv, IndicesAreApart
    <3>3. QED
      BY <1>6, <3>1, <3>2
  <2>4. ASSUME NEW n \in Indices
        PROVE  \/ \E i \in DOMAIN q' : q'[i] = n
               \/ \E t \in SentinelsInUse' : t.index = n
               \/ \E c \in creating' : c.index = n
    <3>1. CASE \E i \in DOMAIN q : q[i] = n
      BY <1>6, <3>1
    <3>2. CASE n = s.index
      <4>1. Len(q) + 1 \in DOMAIN q' /\ q'[Len(q) + 1] = n
        BY <1>6, <3>2
      <4>2. QED
        BY <4>1
    <3>3. CASE n # s.index /\ \E t \in SentinelsInUse : t.index = n
      BY <1>5, <3>3
    <3>4. CASE \E c \in creating : c.index = n
      BY <1>3, <3>4
    <3>5. QED
      BY <3>1, <3>2, <3>3, <3>4 DEF BindlessInv, IndicesAreApart
  <2>5. QED
    BY <1>3, <1>5, <2>2, <2>3, <2>4 DEF BindlessInv, IndicesAreApart
<1>9. SentinelsAreTheirs'
  <2>1. ASSUME NEW r \in GPUResources, NEW t \in mBindlessSentinelArr'[r]
        PROVE  t.resource = r
    <3>1. t \in mBindlessSentinelArr[r]
      BY <1>4, <2>1
    <3>2. QED
      BY <3>1 DEF BindlessInv, SentinelsAreTheirs
  <2>2. ASSUME NEW w \in DOMAIN allocation'
        PROVE  /\ allocation'[w] \in Sentinels /\ allocation'[w].view = w
               /\ allocation'[w] \in mBindlessSentinelArr'[allocation'[w].resource]
    <3>1. PICK t : t = allocation[w]
      OBVIOUS
    <3>2. w \in DOMAIN allocation /\ w # v /\ allocation'[w] = t
      BY <1>3, <2>2, <3>1
    <3>3. t \in Sentinels /\ t.view = w /\ t \in mBindlessSentinelArr[t.resource]
          /\ t.resource \in GPUResources
      BY <3>1, <3>2 DEF BindlessInv, SentinelsAreTheirs, Sentinels
    <3>4. t # s
      BY <1>2, <3>2, <3>3
    <3>5. QED
      BY <1>4, <3>2, <3>3, <3>4
  <2>3. QED
    BY <2>1, <2>2 DEF SentinelsAreTheirs
<1>10. DescriptorsAreWritten'
  BY <1>3, <1>4 DEF BindlessInv, DescriptorsAreWritten, Types
<1>11. QED
  BY <1>7, <1>8, <1>9, <1>10 DEF BindlessInv

\* Every step; a resource is destroyed only without sentinels.
LEMMA BindlessStep ==
    ASSUME BindlessInv, [BindlessNext]_bindlessVars
    PROVE  BindlessInv'
<1>1. ASSUME NEW r \in GPUResources, DestroyResource(r)
      PROVE  BindlessInv'
  BY <1>1 DEF DestroyResource, BindlessInv, Types, SentinelsAreTheirs, IndicesAreApart,
              DescriptorsAreWritten, SentinelsInUse
<1>2. CASE UNCHANGED bindlessVars
  BY <1>2 DEF bindlessVars, BindlessInv, Types, SentinelsAreTheirs, IndicesAreApart,
              DescriptorsAreWritten, SentinelsInUse
<1>3. QED
  BY <1>1, <1>2, Allocating, Describing, Finishing, Creating, Returning DEF BindlessNext

-----------------------------------------------------------------------------
(* The property counts the indices. *)

\* Elements whose indices differ are as many as their indices.
LEMMA IndicesAreCounted ==
    ASSUME NEW S, \A s \in S : s.index \in Indices,
           \A s, t \in S : s.index = t.index => s = t,
           BINDLESS_SRVS_PARTITION_SIZE \in Nat
    PROVE  /\ IsFiniteSet({s.index : s \in S})
           /\ Cardinality({s.index : s \in S}) = Cardinality(S)
<1> DEFINE T == {s.index : s \in S}
           f == [s \in S |-> s.index]
           g == [n \in T |-> CHOOSE s \in S : s.index = n]
<1>1. IsFiniteSet(Indices)
  BY FS_Interval DEF Indices
<1>2. T \in SUBSET Indices
  OBVIOUS
<1>3. IsFiniteSet(T)
  BY <1>1, <1>2, FS_Subset
<1>4. \A n \in T : g[n] \in S /\ g[n].index = n
  OBVIOUS
<1>5. g \in Bijection(T, S)
  <2>1. g \in [T -> S]
    BY <1>4
  <2>2. \A m, n \in T : g[m] = g[n] => m = n
    BY <1>4
  <2>3. ASSUME NEW s \in S
        PROVE  \E n \in T : g[n] = s
    <3>1. s.index \in T /\ g[s.index] \in S /\ g[s.index].index = s.index
      BY <1>4
    <3>2. QED
      BY <3>1
  <2>4. QED
    BY <2>1, <2>2, <2>3 DEF Bijection, Injection, Surjection, IsInjective
<1>6. ExistsBijection(T, S)
  BY <1>5 DEF ExistsBijection
<1>7. QED
  BY <1>3, <1>6, FS_Bijection

\* The numbers of indices of the property, from what is apart.
LEMMA EverythingIsCounted ==
    ASSUME BindlessInv
    PROVE  BindlessSRVsAreCurrent
<1> DEFINE q == mBindlessIndexQueue
           used == {s.index : s \in SentinelsInUse}
           made == {c.index : c \in creating}
           free == {q[i] : i \in DOMAIN q}
<1>1. BINDLESS_SRVS_PARTITION_SIZE \in Nat
  BY BindlessAssumption
<1>2. /\ \A s \in SentinelsInUse : s.index \in Indices
      /\ \A c \in creating : c.index \in Indices
  BY DEF BindlessInv, Types, Sentinels, SentinelsInUse
<1>3. IsFiniteSet(used) /\ Cardinality(used) = Cardinality(SentinelsInUse)
  BY <1>1, <1>2, IndicesAreCounted DEF BindlessInv, IndicesAreApart
<1>4. IsFiniteSet(made) /\ Cardinality(made) = Cardinality(creating)
  BY <1>1, <1>2, IndicesAreCounted DEF BindlessInv, IndicesAreApart
<1>5. /\ q \in Seq(Indices) /\ Len(q) \in Nat /\ DOMAIN q = 1 .. Len(q)
      /\ \A i \in 1 .. Len(q) : q[i] \in Indices
  BY DEF BindlessInv, Types
<1>6. IsFiniteSet(free) /\ Cardinality(free) = Len(q)
  <2>1. q \in Bijection(1 .. Len(q), free)
    BY <1>5 DEF Bijection, Injection, Surjection, IsInjective, BindlessInv, IndicesAreApart
  <2>2. IsFiniteSet(1 .. Len(q)) /\ Cardinality(1 .. Len(q)) = Len(q)
    <3>1. PICK n : n = Len(q)
      OBVIOUS
    <3>2. 1 \in Int /\ n \in Int /\ n \in Nat
      BY <1>5, <3>1
    <3>3. IsFiniteSet(1 .. n) /\ Cardinality(1 .. n) = n
      BY <3>2, FS_Interval
    <3>4. QED
      BY <3>1, <3>3
  <2>3. ExistsBijection(1 .. Len(q), free)
    BY <2>1 DEF ExistsBijection
  <2>4. QED
    BY <2>2, <2>3, FS_Bijection
<1>7. used \cap made = {} /\ (used \cup made) \cap free = {}
  BY DEF BindlessInv, IndicesAreApart
<1>8. (used \cup made) \cup free = Indices
  <2>1. (used \cup made) \cup free \subseteq Indices
    BY <1>2, <1>5
  <2>2. ASSUME NEW n \in Indices
        PROVE  n \in (used \cup made) \cup free
    BY DEF BindlessInv, IndicesAreApart
  <2>3. QED
    BY <2>1, <2>2
<1>9. Cardinality(Indices) = BINDLESS_SRVS_PARTITION_SIZE
  BY <1>1, FS_Interval DEF Indices
<1> HIDE DEF used, made, free, q
<1>10. /\ IsFiniteSet(used \cup made)
       /\ Cardinality(used \cup made) = Cardinality(SentinelsInUse) + Cardinality(creating)
  <2>1. Cardinality(used) \in Nat /\ Cardinality(made) \in Nat
    BY <1>3, <1>4, FS_CardinalityType
  <2>2. PICK both : both = used \cap made
    OBVIOUS
  <2>3. both = {} /\ Cardinality({}) = 0
    BY <1>7, <2>2, FS_EmptySet
  <2>4. /\ IsFiniteSet(used \cup made)
        /\ Cardinality(used \cup made) =
               Cardinality(used) + Cardinality(made) - Cardinality(used \cap made)
    BY <1>3, <1>4, FS_Union
  <2>5. Cardinality(used \cap made) = 0
    BY <2>2, <2>3
  <2>6. Cardinality(used \cup made) = Cardinality(used) + Cardinality(made)
    BY <2>1, <2>4, <2>5
  <2>7. QED
    BY <1>3, <1>4, <2>4, <2>6
<1>11. Cardinality(used \cup made) + Len(q) = BINDLESS_SRVS_PARTITION_SIZE
  <2>1. Cardinality(used \cup made) \in Nat /\ Cardinality(free) \in Nat
    BY <1>6, <1>10, FS_CardinalityType
  <2>2. PICK taken : taken = used \cup made
    OBVIOUS
  <2>3. Cardinality(taken \cup free) = Cardinality(taken) + Cardinality(free) - Cardinality(taken \cap free)
    BY <1>6, <1>10, <2>2, FS_Union
  <2>4. Cardinality(taken \cap free) = 0
    BY <1>7, <2>2, FS_EmptySet
  <2>5. Cardinality(taken \cup free) = BINDLESS_SRVS_PARTITION_SIZE
    BY <1>8, <1>9, <2>2
  <2>6. QED
    BY <1>6, <2>1, <2>2, <2>3, <2>4, <2>5
<1>12. \A v \in DOMAIN allocation : allocation[v].resource \in mResourceContainer =>
          mHeap[allocation[v].index] = Of(allocation[v].resource, v)
  BY DEF BindlessInv, SentinelsAreTheirs, DescriptorsAreWritten
<1>13. QED
  BY <1>8, <1>10, <1>11, <1>12 DEF BindlessSRVsAreCurrent, SentinelsInUse, used, made, free, q

\* The index of a bindless SRV leads to the descriptor of its own view as soon as
\* its resource exists, and no index is lost or in use twice, for any number of
\* indices, resources and views (GPUResourceBindlessSRVManager, CreateBindlessSRV).
THEOREM BindlessSRVsAreCurrentTheorem == BindlessSpec => []BindlessSRVsAreCurrent
<1>1. BindlessInit => BindlessInv
  BY BindlessInitially
<1>2. BindlessInv /\ [BindlessNext]_bindlessVars => BindlessInv'
  BY BindlessStep
<1>3. BindlessInv => BindlessSRVsAreCurrent
  BY EverythingIsCounted
<1>4. QED
  BY <1>1, <1>2, <1>3, PTL DEF BindlessSpec
=============================================================================
