---------------------------- MODULE BindlessSRVs ----------------------------
(***************************************************************************)
(* The bindless SRVs of I_GPUResource: each is a descriptor at an index of *)
(* the GPUResourceDescriptorHeap, which shaders are told.  An SRV may be   *)
(* made before its resource has an ID3D12Resource, or while one is being   *)
(* created; mResourceCritSection, held shared by the former and            *)
(* exclusively by the latter, is all that keeps the two apart.             *)
(***************************************************************************)
EXTENDS Naturals, Sequences, SequencesExt, FiniteSets

CONSTANTS GPUResources, Views,
          BINDLESS_SRVS_PARTITION_SIZE,
          NoDescriptor

ASSUME BindlessAssumption == BINDLESS_SRVS_PARTITION_SIZE \in Nat

Indices == 0 .. BINDLESS_SRVS_PARTITION_SIZE - 1
Of(r, v) == [resource |-> r, view |-> v]

VARIABLES mBindlessIndexQueue,    \* the free indices
          mHeap,                  \* the descriptors at the indices
          mResourceContainer,     \* the resources that have an ID3D12Resource
          mBindlessSentinelArr,   \* of each resource: sentinels, with index and view
          creating,               \* the SRVs under construction, with what is done of it
          allocation              \* by view: its sentinel, or Nothing

bindlessVars == <<mBindlessIndexQueue, mHeap, mResourceContainer, mBindlessSentinelArr,
                  creating, allocation>>

BindlessInit ==
    /\ mBindlessIndexQueue = [i \in 1 .. BINDLESS_SRVS_PARTITION_SIZE |-> i - 1]
    /\ mHeap = [i \in Indices |-> NoDescriptor]
    /\ mResourceContainer = {}
    /\ mBindlessSentinelArr = [r \in GPUResources |-> {}]
    /\ creating = {} /\ allocation = <<>>

\* Readers of mResourceCritSection.
Readers(r) == {c \in creating : c.resource = r}

\* CreateBindlessSRV: under the shared lock, an index is taken.  An empty queue
\* would end the application.
AllocateBindlessSRV(r, v) ==
    /\ v \notin DOMAIN allocation /\ \A c \in creating : c.view # v
    /\ mBindlessIndexQueue # <<>>
    /\ mBindlessIndexQueue' = Tail(mBindlessIndexQueue)
    /\ creating' = creating \cup
           {[resource |-> r, view |-> v, index |-> Head(mBindlessIndexQueue), done |-> FALSE]}
    /\ UNCHANGED <<mHeap, mResourceContainer, mBindlessSentinelArr, allocation>>

\* UpdateBindlessSRV, if there is something to describe.
DescribeNewSRV(c) ==
    /\ c \in creating /\ ~c.done
    /\ creating' = (creating \ {c}) \cup {[c EXCEPT !.done = TRUE]}
    /\ mHeap' = IF c.resource \in mResourceContainer
                THEN [mHeap EXCEPT ![c.index] = Of(c.resource, c.view)] ELSE mHeap
    /\ UNCHANGED <<mBindlessIndexQueue, mResourceContainer, mBindlessSentinelArr, allocation>>

\* mBindlessSentinelArr.PushBack, the result, and the end of the lock.
FinishBindlessSRV(c) ==
    LET sentinel == [resource |-> c.resource, view |-> c.view, index |-> c.index]
    IN  /\ c \in creating /\ c.done
        /\ creating' = creating \ {c}
        /\ mBindlessSentinelArr' = [mBindlessSentinelArr EXCEPT ![c.resource] = @ \cup {sentinel}]
        /\ allocation' = [v \in DOMAIN allocation \cup {c.view} |->
                              IF v = c.view THEN sentinel ELSE allocation[v]]
        /\ UNCHANGED <<mBindlessIndexQueue, mHeap, mResourceContainer>>

\* A mutant: the resource is created under no lock.
NoLock(r) == TRUE
\* ScopedSharedWriteLock on mResourceCritSection.
WriteLock(r) == Readers(r) = {}

\* A mutant: only SRVs made from now on have a descriptor.
NotUpdated(r) == mHeap
\* UpdateDescriptors: the descriptors of all the sentinels.
UpdateBindlessSRVs(r) ==
    [i \in Indices |->
        IF \E sentinel \in mBindlessSentinelArr[r] : sentinel.index = i
        THEN Of(r, (CHOOSE sentinel \in mBindlessSentinelArr[r] : sentinel.index = i).view)
        ELSE mHeap[i]]

\* CreateCommittedD3D12Resource and CreatePlacedD3D12Resource.
CreateResource(r) ==
    /\ r \notin mResourceContainer /\ WriteLock(r)
    /\ mHeap' = UpdateBindlessSRVs(r)
    /\ mResourceContainer' = mResourceContainer \cup {r}
    /\ UNCHANGED <<mBindlessIndexQueue, mBindlessSentinelArr, creating, allocation>>

\* ~BindlessSRVAllocation: the sentinel is erased, and its destructor returns
\* the index to the queue.
ReturnBindlessSRV(v) ==
    /\ v \in DOMAIN allocation
    /\ LET sentinel == allocation[v] IN
         /\ mBindlessSentinelArr' = [mBindlessSentinelArr EXCEPT ![sentinel.resource] = @ \ {sentinel}]
         /\ mBindlessIndexQueue' = Append(mBindlessIndexQueue, sentinel.index)
    /\ allocation' = [w \in DOMAIN allocation \ {v} |-> allocation[w]]
    /\ UNCHANGED <<mHeap, mResourceContainer, creating>>

\* ~I_GPUResource: its SRVs are gone, as ~GPUResourceBindlessSRVManager asserts.
\* The memory may become a resource of the same name.
DestroyResource(r) ==
    /\ r \in mResourceContainer /\ Readers(r) = {} /\ mBindlessSentinelArr[r] = {}
    /\ mResourceContainer' = mResourceContainer \ {r}
    /\ UNCHANGED <<mBindlessIndexQueue, mHeap, mBindlessSentinelArr, creating, allocation>>

BindlessNext ==
    \/ \E r \in GPUResources : \/ CreateResource(r) \/ DestroyResource(r)
                               \/ \E v \in Views : AllocateBindlessSRV(r, v)
    \/ \E c \in creating : DescribeNewSRV(c) \/ FinishBindlessSRV(c)
    \/ \E v \in Views : ReturnBindlessSRV(v)

BindlessSpec == BindlessInit /\ [][BindlessNext]_bindlessVars

-----------------------------------------------------------------------------
\* An index that shaders use leads to the view it was made for as soon as there is
\* a resource to see, and to no other view; and no index is lost or in use twice.
BindlessSRVsAreCurrent ==
    LET inUse == UNION {mBindlessSentinelArr[r] : r \in GPUResources}
        taken == {s.index : s \in inUse} \cup {c.index : c \in creating}
    IN  /\ \A v \in DOMAIN allocation : allocation[v].resource \in mResourceContainer =>
              mHeap[allocation[v].index] = Of(allocation[v].resource, v)
        /\ Cardinality(taken) = Cardinality(inUse) + Cardinality(creating)
        /\ taken \cup {mBindlessIndexQueue[i] : i \in DOMAIN mBindlessIndexQueue} = Indices
        /\ Cardinality(taken) + Len(mBindlessIndexQueue) = BINDLESS_SRVS_PARTITION_SIZE
=============================================================================
