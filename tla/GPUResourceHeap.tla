---------------------------- MODULE GPUResourceHeap ----------------------------
(***************************************************************************)
(* Brawler::D3D12::GPUResourceHeap: resources that alias one another share *)
(* an allocation, a block of the heap's TLSFAllocator.  A resource that is *)
(* destroyed revokes its assignment; the block of an allocation that has   *)
(* no resource left is returned when the heap is next allocated from.      *)
(*                                                                         *)
(* The heap is resident and alive here; module Residency has the rest.     *)
(* Nothing is defined once the allocator has followed a pointer it should  *)
(* not have, so no action is enabled then.                                 *)
(***************************************************************************)
EXTENDS TLSFAllocator, Sequences, SequencesExt

CONSTANTS Resources,
          Requests        \* the sizes and alignments asked for

ASSUME HeapAssumption ==
    Requests \subseteq [size : 1 .. HeapSizeInBytes, alignment : Nat \ {0}]

VARIABLES mAllocator,
          mOwnedAllocationArr, \* the allocations, in the order they were made
          mHAllocation         \* the block of the allocation a resource's handle leads to

vars == <<mAllocator, mOwnedAllocationArr, mHAllocation>>

Held(arr)     == {arr[i].block : i \in DOMAIN arr}
Created       == {r \in Resources : mHAllocation[r] # Null}
HasGPUResourceAssignments(allocation) == allocation.resources # {}

\* DeleteUnusedAllocations, at one allocation: it is kept, or its block is returned.
Collect(done, owned) ==
    IF HasGPUResourceAssignments(owned)
    THEN [allocator |-> done.allocator, used |-> Append(done.used, owned)]
    ELSE [allocator |-> IF done.allocator.corrupt THEN done.allocator
                        ELSE DeleteAllocation(done.allocator, owned.block),
          used |-> done.used]

\* The allocations that have a resource left, and the allocator once the blocks of
\* the others are returned, in the order of mOwnedAllocationArr.
DeleteUnusedAllocations ==
    LET first[n \in 0 .. Len(mOwnedAllocationArr)] ==
            IF n = 0 THEN [allocator |-> mAllocator, used |-> <<>>]
            ELSE Collect(first[n - 1], mOwnedAllocationArr[n])
    IN  first[Len(mOwnedAllocationArr)]

Init == /\ \E indeterminate \in {Null, Junk} : mAllocator = InitialAllocator(indeterminate)
        /\ mOwnedAllocationArr = <<>>
        /\ mHAllocation = [r \in Resources |-> Null]

AllocateResources(resources, request) ==
    /\ ~mAllocator.corrupt
    /\ \E collected \in {DeleteUnusedAllocations}, indeterminate \in {Null, Junk} :
        LET a == collected.allocator
            held == Held(collected.used)
        IN  /\ Cardinality(FreshNames(a, held)) >= 2
            /\ IF a.corrupt
               THEN /\ mAllocator' = a
                    /\ UNCHANGED <<mOwnedAllocationArr, mHAllocation>>
               ELSE \E outcome \in {CreateAllocation(a, request, held, indeterminate)} :
                    LET allocation == [block |-> outcome.block, request |-> request,
                                       resources |-> resources]
                    IN  /\ mAllocator' = outcome.allocator
                        /\ mOwnedAllocationArr' =
                               IF outcome.block = Null THEN collected.used
                               ELSE Append(collected.used, allocation)
                        /\ mHAllocation' = [r \in Resources |->
                               IF r \in resources THEN outcome.block ELSE mHAllocation[r]]

\* The resource is destroyed, its container and the handle in it.
RevokeGPUResourceAssignment(r) ==
    /\ ~mAllocator.corrupt
    /\ r \in Created
    /\ mOwnedAllocationArr' =
           [i \in DOMAIN mOwnedAllocationArr |->
                IF mOwnedAllocationArr[i].block # mHAllocation[r] THEN mOwnedAllocationArr[i]
                ELSE [mOwnedAllocationArr[i] EXCEPT !.resources = @ \ {r}]]
    /\ mHAllocation' = [mHAllocation EXCEPT ![r] = Null]
    /\ UNCHANGED mAllocator

Next ==
    \/ \E resources \in SUBSET (Resources \ Created), request \in Requests :
           resources # {} /\ AllocateResources(resources, request)
    \/ \E r \in Resources : RevokeGPUResourceAssignment(r)

Spec == Init /\ [][Next]_vars
-----------------------------------------------------------------------------
Bytes(b) == b.offset .. b.offset + b.size - 1
Block(p) == mAllocator.block[p]
LiveBlocks == DOMAIN mAllocator.block

\* The blocks partition the heap, the pointers to physical neighbours lead
\* from each block to the ones before and after it, and free memory is
\* coalesced, no two neighbours being free: what splitting and merging
\* (TLSFMemoryBlock::AllocateBlock, FreeBlock) must keep.
BlocksTileHeap ==
    ~mAllocator.corrupt =>
      /\ UNION {Bytes(Block(p)) : p \in LiveBlocks} = 0 .. HeapSizeInBytes - 1
      /\ \A p \in LiveBlocks :
           /\ Block(p).size > 0
           /\ \A q \in LiveBlocks \ {p} : Bytes(Block(p)) \cap Bytes(Block(q)) = {}
           /\ Block(p).nextPhysical =
                IF Block(p).offset + Block(p).size = HeapSizeInBytes THEN Null
                ELSE CHOOSE q \in LiveBlocks : Block(q).offset = Block(p).offset + Block(p).size
           /\ \A q \in LiveBlocks :
                /\ Block(p).nextPhysical = q <=> Block(q).prevPhysical = p
                /\ Block(p).nextPhysical = q => ~(Block(p).free /\ Block(q).free)

\* Two allocations never share memory, each has the size and alignment it
\* was asked for, and what no allocation holds is free: a block is neither
\* handed out twice nor leaked.
AllocationsApart ==
    LET arr == mOwnedAllocationArr
    IN  ~mAllocator.corrupt =>
          /\ \A i \in DOMAIN arr :
               /\ arr[i].block \in LiveBlocks
               /\ Block(arr[i].block).size = arr[i].request.size
               /\ Block(arr[i].block).offset % arr[i].request.alignment = 0
               /\ \A j \in DOMAIN arr : arr[i].block = arr[j].block => i = j
          /\ \A r \in Created : \E i \in DOMAIN arr :
                 r \in arr[i].resources /\ arr[i].block = mHAllocation[r]
          /\ \A p \in LiveBlocks : Block(p).free <=> p \notin Held(arr)

\* Both: the memory of the heap is divided up among the allocations and what is
\* free, through any sequence of splits, merges and late releases.
HeapIsDividedUp == BlocksTileHeap /\ AllocationsApart
=============================================================================
