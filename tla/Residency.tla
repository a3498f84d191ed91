------------------------------ MODULE Residency ------------------------------
(***************************************************************************)
(* Brawler::D3D12::GPUResidencyManager over the heaps of one               *)
(* GPUResourceHeapPool and the committed resources.                        *)
(*                                                                         *)
(* Three activities share them: the frame, which marks what its passes use *)
(* and then executes a residency pass; an AsyncGPUResourceBuilder job,     *)
(* which places a resource; and the application, which destroys resources. *)
(* Space within a heap is a number of resources here (module               *)
(* GPUResourceHeap has the blocks).  What the operating system does        *)
(* - its budget, whether memory suffices - is external.                    *)
(***************************************************************************)
EXTENDS Integers, Sequences, FiniteSets, FiniteSetsExt, SequencesExt

CONSTANTS Heaps,                \* bound: the heap objects there may be at once
          Placed, Committed,    \* resources
          HeapSize, CommittedSize,
          Room,                 \* the resources that fit in a heap
          Capacity,             \* memory the device can make resident
          Budgets,              \* what QueryVideoMemoryInfo may answer
          IsEvictionHelpful,    \* the virtual address space exceeds the budget
          MAX_FRAMES_IN_FLIGHT,
          MaskBits,             \* 32 in the code
          EstimateBits,         \* 64 in the code
          MaxFrame,             \* bound
          NoHeap

ASSUME ResidencyAssumption ==
    /\ Room \in Nat \ {0} /\ NoHeap \notin Heaps
    /\ MAX_FRAMES_IN_FLIGHT \in Nat \ {0} /\ MaskBits \in Nat /\ MaskBits >= MAX_FRAMES_IN_FLIGHT
    /\ Capacity \in Nat /\ Budgets \subseteq Nat
    /\ Placed \cap Committed = {} /\ Heaps \cap Committed = {}

\* A fact of arithmetic.
ASSUME PowersOfTwo ==
    \A n \in 0 .. MaskBits : 2^n \in Nat \ {0} /\ (n # 0 => 2^n % 2 = 0)

Resources == Placed \cup Committed
Objects   == Heaps \cup Committed
Size(o)   == IF o \in Heaps THEN HeapSize ELSE CommittedSize

VARIABLES mFrame,           \* the current frame number
          mUsageTracker,    \* of each resource: [lastUse, mask]
          mPageableObjArr,  \* the objects registered with the manager
          mIsResident,
          mHeap,            \* the objects whose Direct3D object exists
          assigned,         \* the resources placed in each heap
          mHeaps,           \* the pool's heaps, in order
          pass,             \* the residency pass
          builder,          \* the AsyncGPUResourceBuilder's allocation
          undefined         \* an object was used that is gone or has no Direct3D object

vars == <<mFrame, mUsageTracker, mPageableObjArr, mIsResident, mHeap, assigned, mHeaps,
          pass, builder, undefined>>

Idle == [pc |-> "idle", todo |-> {}, ok |-> TRUE, method |-> "none", cached |-> FALSE, cache |-> {},
         chosen |-> {}, estimate |-> 0, target |-> 0]
NotBuilding == [pc |-> "idle", resource |-> NoHeap, cursor |-> 0, heap |-> NoHeap]

Init == /\ mFrame = 1
        /\ mUsageTracker = [r \in Resources |-> [lastUse |-> 0, mask |-> 0]]
        /\ mPageableObjArr = Committed
        /\ mIsResident = [o \in Objects |-> TRUE]
        /\ mHeap = Committed
        /\ assigned = [h \in Heaps |-> {}]
        /\ mHeaps = <<>>
        /\ pass = Idle
        /\ builder = NotBuilding
        /\ undefined = FALSE
-----------------------------------------------------------------------------
(* The usage tracker.                                                       *)

\* The mask is shifted only when the resource is used again.
MarkAsUsedForCurrentFrame(t) ==
    IF t.lastUse = mFrame THEN t
    ELSE LET shifted == (t.mask * 2^((mFrame - t.lastUse) % MaskBits)) % 2^MaskBits
         IN  [lastUse |-> mFrame, mask |-> IF shifted % 2 = 1 THEN shifted ELSE shifted + 1]
\* A mutant: the bit of the current frame is not set.
ForgetToMark(t) ==
    IF t.lastUse = mFrame THEN t
    ELSE [lastUse |-> mFrame,
          mask |-> (t.mask * 2^((mFrame - t.lastUse) % MaskBits)) % 2^MaskBits]

\* A mutant: the bit of the last use is shifted out of the comparison.
IsSafeOneFrameEarly(r) == (mUsageTracker[r].mask \div 2) % 2^MAX_FRAMES_IN_FLIGHT = 0
IsResourceSafeToEvict(r) == mUsageTracker[r].mask % 2^MAX_FRAMES_IN_FLIGHT = 0

PoolHeaps == {mHeaps[i] : i \in DOMAIN mHeaps}
Contents(o)       == IF o \in Heaps THEN assigned[o] ELSE {o}
NeedsResidency(o) == \E r \in Contents(o) : ~IsResourceSafeToEvict(r)
IsDeletionSafe(o) == o \in Heaps /\ assigned[o] = {}

\* The memory in use: what is resident of what exists.
TotalSize(S)   == FoldSet(LAMBDA o, n : n + Size(o), 0, S)
CurrentUsage   == TotalSize({o \in mHeap : mIsResident[o]})
-----------------------------------------------------------------------------
(* The frame.                                                               *)

\* FrameGraphBuilder::UpdateResourceUsageForCurrentFrame for what exists, and
\* the objects GetEvictedObjectsNeedingResidency returns.
BeginPass(used) ==
    /\ ~undefined /\ pass.pc = "idle"
    /\ mUsageTracker' = [r \in Resources |->
           IF r \in used THEN MarkAsUsedForCurrentFrame(mUsageTracker[r]) ELSE mUsageTracker[r]]
    /\ pass' = [Idle EXCEPT !.pc = "gather"]
    /\ UNCHANGED <<mFrame, mPageableObjArr, mIsResident, mHeap, assigned, mHeaps, builder, undefined>>

GetEvictedObjectsNeedingResidency ==
    /\ ~undefined /\ pass.pc = "gather"
    /\ pass' = [pass EXCEPT !.pc = "makeResident",
                   !.todo = {o \in mPageableObjArr : ~mIsResident[o] /\ NeedsResidency(o)},
                   !.method = IF IsEvictionHelpful THEN "evict" ELSE "delete"]
    /\ UNCHANGED <<mFrame, mUsageTracker, mPageableObjArr, mIsResident, mHeap, assigned, mHeaps,
                   builder, undefined>>

\* GetD3D12PageableObject dereferences the object, then its Direct3D object.
Usable(S) == S \subseteq mPageableObjArr \cap mHeap

\* TryMakeResident.  A second call finds nothing to do if the first succeeded.
TryMakeResident ==
    /\ ~undefined /\ pass.pc = "makeResident"
    /\ LET fits == CurrentUsage + TotalSize(pass.todo) <= Capacity
       IN  /\ mIsResident' = [o \in Objects |-> mIsResident[o] \/ (o \in pass.todo /\ fits)]
           /\ pass' = [pass EXCEPT !.pc = "budget", !.ok = pass.todo = {} \/ fits,
                                   !.todo = IF fits THEN {} ELSE @]
    /\ undefined' = ~Usable(pass.todo)
    /\ UNCHANGED <<mFrame, mUsageTracker, mPageableObjArr, mHeap, assigned, mHeaps, builder>>

\* The condition of the loop.  The target is 80% of the budget.
QueryBudget(budget) ==
    /\ ~undefined /\ pass.pc = "budget"
    /\ IF CurrentUsage > budget
       THEN pass' = [pass EXCEPT !.pc = "free", !.estimate = CurrentUsage,
                                 !.target = (4 * budget) \div 5]
       ELSE pass' = [pass EXCEPT !.pc = IF pass.ok THEN "done" ELSE "throw"]
    /\ UNCHANGED <<mFrame, mUsageTracker, mPageableObjArr, mIsResident, mHeap, assigned, mHeaps,
                   builder, undefined>>

\* The first TryFreeResidency of a state caches the objects it may free.  Among
\* those that may be evicted, the usage metrics are all 0.
CacheObjects ==
    /\ ~undefined /\ pass.pc = "free" /\ ~pass.cached
    /\ pass' = [pass EXCEPT !.cached = TRUE,
                   !.cache = IF pass.method = "evict"
                             THEN {o \in mPageableObjArr : ~NeedsResidency(o)}
                             ELSE {o \in mPageableObjArr : IsDeletionSafe(o)}]
    /\ UNCHANGED <<mFrame, mUsageTracker, mPageableObjArr, mIsResident, mHeap, assigned, mHeaps,
                   builder, undefined>>

\* Nothing can be freed: ERROR_CANNOT_FREE_OBJECTS, and the fallback state.
FallBack ==
    /\ ~undefined /\ pass.pc = "free" /\ pass.cached /\ pass.cache = {} /\ pass.chosen = {}
    /\ pass' = IF pass.method = "evict"
               THEN [pass EXCEPT !.pc = "budget", !.method = "delete", !.cached = FALSE]
               ELSE [pass EXCEPT !.pc = IF pass.ok THEN "done" ELSE "throw"]
    /\ UNCHANGED <<mFrame, mUsageTracker, mPageableObjArr, mIsResident, mHeap, assigned, mHeaps,
                   builder, undefined>>

\* The element at the end of the sorted cache.
IsNext(o) == /\ o \in pass.cache
             /\ \A p \in pass.cache :
                    IF pass.method = "evict" THEN Size(o) >= Size(p) ELSE Size(o) <= Size(p)
Estimate(o) == (pass.estimate - Size(o)) % 2^EstimateBits
MoreToFree  == pass.estimate > pass.target /\ pass.cache # {}

\* GetObjectsToEvict: one object more.
ChooseToEvict ==
    /\ ~undefined /\ pass.pc = "free" /\ pass.cached /\ pass.method = "evict" /\ MoreToFree
    /\ \E o \in pass.cache :
         /\ IsNext(o)
         /\ pass' = [pass EXCEPT !.cache = @ \ {o}, !.chosen = @ \cup {o}, !.estimate = Estimate(o)]
    /\ UNCHANGED <<mFrame, mUsageTracker, mPageableObjArr, mIsResident, mHeap, assigned, mHeaps,
                   builder, undefined>>

\* What follows a success: another attempt to make the objects resident if
\* the last one failed, and the loop's condition.
Succeeded == [pass EXCEPT !.pc = IF pass.ok THEN "budget" ELSE "makeResident", !.chosen = {}]

\* A mutant: evicted objects stay in the cache.
EvictCached ==
    /\ ~undefined /\ pass.pc = "free" /\ pass.chosen # {} /\ ~MoreToFree
    /\ mIsResident' = [o \in Objects |-> mIsResident[o] /\ o \notin pass.chosen]
    /\ pass' = [Succeeded EXCEPT !.cache = @ \cup pass.chosen]
    /\ undefined' = ~Usable(pass.chosen)
    /\ UNCHANGED <<mFrame, mUsageTracker, mPageableObjArr, mHeap, assigned, mHeaps, builder>>

EvictObjects ==
    /\ ~undefined /\ pass.pc = "free" /\ pass.chosen # {} /\ ~MoreToFree
    /\ mIsResident' = [o \in Objects |-> mIsResident[o] /\ o \notin pass.chosen]
    /\ pass' = Succeeded
    /\ undefined' = ~Usable(pass.chosen)
    /\ UNCHANGED <<mFrame, mUsageTracker, mPageableObjArr, mHeap, assigned, mHeaps, builder>>

\* DeleteObjects: one DeleteD3D12PageableObject of it, and the end of the loop
\* after the last.
DeleteD3D12PageableObject ==
    /\ ~undefined /\ pass.pc = "free" /\ pass.cached /\ pass.method = "delete" /\ MoreToFree
    /\ \E o \in pass.cache :
         LET next == [pass EXCEPT !.cache = @ \ {o}, !.estimate = Estimate(o)]
         IN  /\ IsNext(o)
             /\ mHeap' = mHeap \ {o}
             /\ pass' = IF next.estimate > pass.target /\ next.cache # {} THEN next
                        ELSE [Succeeded EXCEPT !.cache = @ \ {o}]
             /\ undefined' = (o \notin mPageableObjArr)
    /\ UNCHANGED <<mFrame, mUsageTracker, mPageableObjArr, mIsResident, assigned, mHeaps, builder>>

\* The pass returns, or throws that the frame's objects cannot be made
\* resident; the frame ends, and with the throw the program.
EndPass ==
    /\ ~undefined /\ pass.pc = "done" /\ mFrame < MaxFrame
    /\ pass' = Idle
    /\ mFrame' = mFrame + 1
    /\ UNCHANGED <<mUsageTracker, mPageableObjArr, mIsResident, mHeap, assigned, mHeaps, builder,
                   undefined>>
-----------------------------------------------------------------------------
(* Placing a resource: GPUResourceHeapPool::AllocateResources, under the   *)
(* pool's lock throughout.                                                  *)

\* CheckForDeletedHeaps: the others stay, in their order.  The destructors of the
\* deleted ones unregister them, and destroy the allocations, to which the handles
\* of resources still placed there lead.
CheckForDeletedHeaps(r) ==
    /\ ~undefined /\ builder.pc = "idle"
    /\ r \in Placed /\ \A h \in Heaps : r \notin assigned[h]
    /\ \E n \in 0 .. Len(mHeaps) : \E kept \in [1 .. n -> DOMAIN mHeaps] :
          /\ \A i, j \in 1 .. n : i < j => kept[i] < kept[j]
          /\ {kept[i] : i \in 1 .. n} = {k \in DOMAIN mHeaps : mHeaps[k] \in mHeap}
          /\ mHeaps' = [i \in 1 .. n |-> mHeaps[kept[i]]]
    /\ mPageableObjArr' = mPageableObjArr \ (PoolHeaps \ mHeap)
    /\ builder' = [NotBuilding EXCEPT !.pc = "look", !.resource = r, !.cursor = 1]
    /\ undefined' = (\E h \in PoolHeaps \ mHeap : assigned[h] # {})
    /\ UNCHANGED <<mFrame, mUsageTracker, mIsResident, mHeap, assigned, pass>>

\* GPUResourceHeap::AllocateResources tests IsResident before it takes its lock.
CheckResidency ==
    /\ ~undefined /\ builder.pc = "look" /\ builder.cursor <= Len(mHeaps)
    /\ builder' = IF mIsResident[mHeaps[builder.cursor]]
                  THEN [builder EXCEPT !.pc = "place", !.heap = mHeaps[builder.cursor]]
                  ELSE [builder EXCEPT !.cursor = @ + 1]
    /\ UNCHANGED <<mFrame, mUsageTracker, mPageableObjArr, mIsResident, mHeap, assigned, mHeaps,
                   pass, undefined>>

PlaceResource ==
    /\ ~undefined /\ builder.pc = "place"
    /\ LET h == builder.heap
           fits == Cardinality(assigned[h]) < Room
       IN  /\ undefined' = (h \notin mHeap)
           /\ assigned' = [assigned EXCEPT ![h] = IF fits THEN @ \cup {builder.resource} ELSE @]
           /\ builder' = IF fits THEN NotBuilding
                         ELSE [builder EXCEPT !.pc = "look", !.cursor = @ + 1, !.heap = NoHeap]
    /\ UNCHANGED <<mFrame, mUsageTracker, mPageableObjArr, mIsResident, mHeap, mHeaps, pass>>

\* No heap has room: another is constructed, which registers it.
ConstructHeap ==
    /\ ~undefined /\ builder.pc = "look" /\ builder.cursor > Len(mHeaps)
    /\ \E h \in Heaps \ (mPageableObjArr \cup pass.cache \cup pass.chosen \cup pass.todo) :
         /\ mPageableObjArr' = mPageableObjArr \cup {h}
         /\ mIsResident' = [mIsResident EXCEPT ![h] = TRUE]
         /\ assigned' = [assigned EXCEPT ![h] = {}]
         /\ builder' = [builder EXCEPT !.pc = "initialize", !.heap = h]
    /\ UNCHANGED <<mFrame, mUsageTracker, mHeap, mHeaps, pass, undefined>>

\* InitializeHeap: resident if the memory suffices, else evicted, in which
\* case its AllocateResources refuses the resource; or neither can be created,
\* and the heap object is destroyed.
InitializeHeap ==
    /\ ~undefined /\ builder.pc = "initialize"
    /\ LET h == builder.heap
           fits == CurrentUsage + HeapSize <= Capacity
           Created(resident) ==
               /\ mHeap' = mHeap \cup {h}
               /\ mHeaps' = Append(mHeaps, h)
               /\ mIsResident' = [mIsResident EXCEPT ![h] = resident]
               /\ builder' = IF resident THEN [builder EXCEPT !.pc = "place"] ELSE NotBuilding
               /\ UNCHANGED mPageableObjArr
       IN  IF fits THEN Created(TRUE)
           ELSE \/ Created(FALSE)
                \/ /\ mPageableObjArr' = mPageableObjArr \ {h}
                   /\ builder' = NotBuilding
                   /\ UNCHANGED <<mHeap, mHeaps, mIsResident>>
    /\ UNCHANGED <<mFrame, mUsageTracker, assigned, pass, undefined>>

\* A resource is destroyed; its handle revokes the assignment.  One of the
\* same name may be created later, with a usage tracker of its own.
RevokeGPUResourceAssignment(r) ==
    /\ ~undefined /\ pass.pc = "idle"
    /\ \E h \in Heaps :
         /\ r \in assigned[h]
         /\ assigned' = [assigned EXCEPT ![h] = @ \ {r}]
    /\ mUsageTracker' = [mUsageTracker EXCEPT ![r] = [lastUse |-> mFrame - 1, mask |-> 0]]
    /\ UNCHANGED <<mFrame, mPageableObjArr, mIsResident, mHeap, mHeaps, pass, builder, undefined>>
-----------------------------------------------------------------------------
Exist == Committed \cup UNION {assigned[h] : h \in Heaps}

PassStep ==
    \/ GetEvictedObjectsNeedingResidency \/ TryMakeResident
    \/ \E budget \in Budgets : QueryBudget(budget)
    \/ CacheObjects \/ FallBack \/ ChooseToEvict \/ EvictObjects \/ DeleteD3D12PageableObject

BuilderStep == CheckResidency \/ PlaceResource \/ ConstructHeap \/ InitializeHeap

Next ==
    \/ \E used \in SUBSET Exist : BeginPass(used)
    \/ PassStep \/ EndPass
    \/ \E r \in Placed : CheckForDeletedHeaps(r) \/ RevokeGPUResourceAssignment(r)
    \/ BuilderStep

\* The thread that executes the pass executes nothing else until it ends.
Spec == Init /\ [][Next]_vars /\ WF_vars(PassStep)
-----------------------------------------------------------------------------
\* The pass ends: each round of its loop frees something, falls back, or is
\* the last (GPUResidencyManager.cpp:88), whatever the budget does meanwhile.
PassEnds == (pass.pc = "gather") ~> (pass.pc \in {"done", "throw"} \/ undefined)

\* A pass that returns leaves every object the current frame uses resident.
UsedIsResident ==
    pass.pc = "done" /\ ~undefined =>
        \A o \in Objects : (\E r \in Contents(o) \cap Exist : mUsageTracker[r].lastUse = mFrame)
                              => mIsResident[o]

\* No step evicts an object that a frame in flight uses, nor deletes the
\* heap of such a resource.
InFlight(r) == mUsageTracker[r].mask # 0 /\ mUsageTracker[r].lastUse > mFrame - MAX_FRAMES_IN_FLIGHT
NeverEvictInFlight ==
    [][\A o \in Objects : (mIsResident[o] /\ ~mIsResident'[o])
                             => \A r \in Contents(o) : ~InFlight(r)]_vars

\* Both: what a frame uses is resident from the pass on until its end
\* (GPUResidencyManager::UpdateResourceResidency).
ResidencyIsKept == []UsedIsResident /\ NeverEvictInFlight
=============================================================================
