----------------------------- MODULE EngineHeaps -----------------------------
(***************************************************************************)
(* Brawler::D3DHeapPool of the engine: a group of heaps of one type, each    *)
(* with a D3DHeapBuddyAllocator, from which resources are placed under the   *)
(* lock of the group.  A resource that is destroyed gives its memory back    *)
(* on its own thread, without the lock (~D3DHeapAllocationHandle): what it   *)
(* and a thread that allocates read and write of the nodes is interleaved.   *)
(*                                                                         *)
(* A node's children are made when a search first looks for them; here they  *)
(* exist from the start, as they are then.  No heap is ever evicted.         *)
(***************************************************************************)
EXTENDS Naturals, Sequences, FiniteSets, FiniteSetsExt

CONSTANTS Resources,
          Info,               \* of each resource: its size and its alignment
          MINIMUM_HEAP_SIZE,
          MinimumNodeSize,
          MaxHeaps            \* bound: heaps of the group

VARIABLES ResidentHeaps,   \* each a size, and what its nodes have available and are reserved
          mHAllocation,    \* [resource -> its heap and node]
          creating,        \* the holder of CritSection: the resource, the next heap to try
          walks,           \* [resource -> the node that its handle is about to update]
          raced            \* history: the heaps that two handles have updated at once

heapVars == <<ResidentHeaps, mHAllocation, creating, walks, raced>>

None == [heap |-> 0]

-----------------------------------------------------------------------------
(* The nodes of a heap: powers of two at multiples of their size.            *)

PowersOfTwo == {2 ^ k : k \in 0 .. 10}
Sizes(heapSize) == {s \in PowersOfTwo : MinimumNodeSize <= s /\ s <= heapSize}
Nodes(heapSize) ==
    {n \in [offset : 0 .. heapSize - 1, size : Sizes(heapSize)] : n.offset % n.size = 0}

LeftChild(n)  == [offset |-> n.offset, size |-> n.size \div 2]
RightChild(n) == [offset |-> n.offset + n.size \div 2, size |-> n.size \div 2]
ParentNode(n) == [offset |-> (n.offset \div (2 * n.size)) * 2 * n.size, size |-> 2 * n.size]
Bytes(n)      == n.offset .. n.offset + n.size - 1
HeadNode(heap) == [offset |-> 0, size |-> heap.size]
AlignUp(offset, alignment) == ((offset + alignment - 1) \div alignment) * alignment

HeapAssumption ==
    /\ MINIMUM_HEAP_SIZE \in PowersOfTwo /\ MinimumNodeSize \in PowersOfTwo
    /\ MinimumNodeSize <= MINIMUM_HEAP_SIZE /\ MaxHeaps \in Nat
    /\ \A r \in Resources : /\ Info[r].size \in Nat \ {0}
                            /\ Info[r].size % MinimumNodeSize = 0
                            /\ Info[r].alignment \in PowersOfTwo

\* GetHeapDescriptionFromResourceCreationInfo, and the maximum after it.
NewHeap(r) ==
    LET size == Max({MINIMUM_HEAP_SIZE, Min({s \in PowersOfTwo : s >= Info[r].size})})
    IN  [size |-> size, available |-> [n \in Nodes(size) |-> n.size],
         reserved |-> [n \in Nodes(size) |-> FALSE]]

-----------------------------------------------------------------------------
(* D3DHeapBuddyAllocator::Allocate. *)

\* FindSuitableNodeForReservation goes down to nodes of this size.
SizeSearched(heap, r) == Min({s \in Sizes(heap.size) : s >= Info[r].size})

\* A mutant: only the node itself is not reserved.
NodeOnly(heap, n) == {n}
NodeAndAbove(heap, n) == {m \in Nodes(heap.size) : Bytes(n) \subseteq Bytes(m)}

Suitable(heap, r) ==
    {n \in Nodes(heap.size) :
        /\ n.size = SizeSearched(heap, r)
        /\ \A m \in NodeAndAbove(heap, n) : ~ heap.reserved[m]
        /\ AlignUp(n.offset, Info[r].alignment) - n.offset + Info[r].size <= heap.available[n]}

\* From left to right, unless it is known beforehand that there is none.
SuitableNode(heap, r) ==
    IF heap.available[HeadNode(heap)] < Info[r].size THEN {}
    ELSE {n \in Suitable(heap, r) : \A m \in Suitable(heap, r) : n.offset <= m.offset}

\* CreateReservation, and its first half.
Reserve(heap, n) == [heap EXCEPT !.available[n] = 0, !.reserved[n] = TRUE]
ChildrenOf(heap, n) == Max({heap.available[LeftChild(n)], heap.available[RightChild(n)]})

ReserveAndUpdate(heap, n) ==
    LET available[m \in Nodes(heap.size)] ==
            IF n = m THEN 0
            ELSE IF ~ (Bytes(n) \subseteq Bytes(m)) THEN heap.available[m]
            ELSE Max({available[LeftChild(m)], available[RightChild(m)]})
    IN  [Reserve(heap, n) EXCEPT !.available = available]

-----------------------------------------------------------------------------
(* UpdateAvailableSize, from a node to the head: what a node's children have *)
(* is read, and then it is written to the node.                              *)

\* The walk of a handle whose node is n.
WalkFrom(h, n) ==
    IF n.size = ResidentHeaps[h].size THEN None
    ELSE [heap |-> h, node |-> ParentNode(n), read |-> FALSE, size |-> 0]

Walking(h) == {r \in Resources : walks[r].heap = h}

Read(r) ==
    LET w == walks[r]
    IN  /\ w # None /\ ~ w.read
        /\ walks' = [walks EXCEPT ![r].read = TRUE,
                                  ![r].size = ChildrenOf(ResidentHeaps[w.heap], w.node)]
        /\ UNCHANGED <<ResidentHeaps, mHAllocation, creating, raced>>

Write(r) ==
    LET w == walks[r]
    IN  /\ w # None /\ w.read
        /\ ResidentHeaps' = [ResidentHeaps EXCEPT ![w.heap].available[w.node] = w.size]
        /\ walks' = [walks EXCEPT ![r] = WalkFrom(w.heap, w.node)]
        /\ UNCHANGED <<mHAllocation, creating, raced>>

BeginWalk(r, h, n) ==
    /\ walks' = [walks EXCEPT ![r] = WalkFrom(h, n)]
    /\ raced' = IF Walking(h) # {} THEN raced \cup {h} ELSE raced

-----------------------------------------------------------------------------
(* D3DHeapPool::CreatePlacedResource, and the end of a resource.             *)

BeingCreated(r) == creating # None /\ creating.resource = r

CreatePlacedResource(r) ==
    /\ creating = None /\ mHAllocation[r] = None /\ walks[r] = None
    /\ creating' = [heap |-> 1, resource |-> r]
    /\ UNCHANGED <<ResidentHeaps, mHAllocation, walks, raced>>

\* D3DHeap::AllocateResource, for the next heap.
AllocateResource ==
    /\ creating # None
    /\ LET h == creating.heap
           r == creating.resource
       IN  /\ mHAllocation[r] = None /\ h <= Len(ResidentHeaps)
           /\ IF SuitableNode(ResidentHeaps[h], r) = {}
              THEN /\ creating' = [creating EXCEPT !.heap = h + 1]
                   /\ UNCHANGED <<ResidentHeaps, mHAllocation, walks, raced>>
              ELSE \E n \in SuitableNode(ResidentHeaps[h], r) :
                      /\ ResidentHeaps' = [ResidentHeaps EXCEPT ![h] = Reserve(@, n)]
                      /\ mHAllocation' = [mHAllocation EXCEPT ![r] = [heap |-> h, node |-> n]]
                      /\ BeginWalk(r, h, n) /\ UNCHANGED creating

\* InitializeIMPL, when the handle is made, and the end of the lock.
EndCreation ==
    /\ creating # None
    /\ LET r == creating.resource IN mHAllocation[r] # None /\ walks[r] = None
    /\ creating' = None
    /\ UNCHANGED <<ResidentHeaps, mHAllocation, walks, raced>>

\* No other thread knows a heap before it is in the group.
CreateHeap ==
    /\ creating # None
    /\ LET r == creating.resource
       IN  /\ mHAllocation[r] = None
           /\ creating.heap > Len(ResidentHeaps) /\ Len(ResidentHeaps) < MaxHeaps
           /\ \E n \in SuitableNode(NewHeap(r), r) :
                 /\ ResidentHeaps' = Append(ResidentHeaps, ReserveAndUpdate(NewHeap(r), n))
                 /\ mHAllocation' = [mHAllocation EXCEPT
                                        ![r] = [heap |-> Len(ResidentHeaps) + 1, node |-> n]]
    /\ creating' = None
    /\ UNCHANGED <<walks, raced>>

\* ~D3DHeapAllocationHandle: DeleteReservation, by any thread.
DeleteReservation(r) ==
    /\ mHAllocation[r] # None /\ ~ BeingCreated(r)
    /\ LET h == mHAllocation[r].heap
           n == mHAllocation[r].node
       IN  /\ ResidentHeaps' = [ResidentHeaps EXCEPT ![h].available[n] = n.size,
                                                     ![h].reserved[n] = FALSE]
           /\ BeginWalk(r, h, n)
    /\ mHAllocation' = [mHAllocation EXCEPT ![r] = None]
    /\ UNCHANGED creating

HeapsInit ==
    /\ ResidentHeaps = <<>> /\ creating = None /\ raced = {}
    /\ mHAllocation = [r \in Resources |-> None]
    /\ walks = [r \in Resources |-> None]

HeapsNext ==
    \/ \E r \in Resources : CreatePlacedResource(r) \/ DeleteReservation(r) \/ Read(r) \/ Write(r)
    \/ AllocateResource \/ EndCreation \/ CreateHeap

-----------------------------------------------------------------------------
(* Properties. *)

BytesOf(r) ==
    LET offset == AlignUp(mHAllocation[r].node.offset, Info[r].alignment)
    IN  offset .. offset + Info[r].size - 1

\* What is reserved is in the node and below no other reservation, whoever frees what
\* meanwhile.
ResourcesApart ==
    \A r \in Resources : mHAllocation[r] # None =>
        /\ BytesOf(r) \subseteq Bytes(mHAllocation[r].node)
        /\ \A s \in Resources \ {r} :
              mHAllocation[s].heap = mHAllocation[r].heap => BytesOf(r) \cap BytesOf(s) = {}

\* A node is as it was made, with nothing reserved in it, or has what its larger child
\* has: once split it is not whole again.
SizeIsRight(heap, n) ==
    IF heap.reserved[n] THEN heap.available[n] = 0
    ELSE \/ /\ heap.available[n] = n.size
            /\ \A m \in Nodes(heap.size) : Bytes(m) \subseteq Bytes(n) => ~ heap.reserved[m]
         \/ n.size > MinimumNodeSize /\ heap.available[n] = ChildrenOf(heap, n)

\* Both: two resources never share memory, and what the nodes say is available is right
\* when no handle is at work, unless two were at once (D3DHeapBuddyAllocatorNode).
HeapsAreRight ==
    /\ ResourcesApart
    /\ \A h \in DOMAIN ResidentHeaps \ raced : Walking(h) = {} =>
          \A n \in Nodes(ResidentHeaps[h].size) : SizeIsRight(ResidentHeaps[h], n)

\* A new heap is large enough for the resource it is made for (D3DHeapPool.cpp:117).
NewHeapSuffices == \A r \in Resources : SuitableNode(NewHeap(r), r) # {}
=============================================================================
