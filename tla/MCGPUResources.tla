---------------------------- MODULE MCGPUResources ----------------------------
(* Three levels, each on its own: a heap of five units with two resources that    *)
(* are alike, a buffer of as many with two sub-allocations, and two bindless SRVs *)
(* of two resources.                                                              *)
EXTENDS GPUResourceHeap, BufferSubAllocations, BindlessSRVs, TLC

SmallRequests == [size : 1 .. 2, alignment : 1 .. 2]
ManyBlocks == 1 .. 6
Alike == Permutations(Resources)
NoView == [resource |-> "none", view |-> "none"]

TwoRequirements == [a |-> [size |-> 3, alignment |-> 1], b |-> [size |-> 2, alignment |-> 1]]
TwoData == [a |-> {<<"a">>}, b |-> {<<"b">>}]

VARIABLE level
levels == <<level, vars, bufferVars, bindlessVars>>

\* The allocators of the other levels need no choice.
Start ==
    /\ level \in {"heap", "buffer", "bindless"}
    /\ Init /\ BufferInit /\ BindlessInit
    /\ level # "heap" => mAllocator = InitialAllocator(Null)
    /\ level # "buffer" => mBufferMemoryAllocator = InitialAllocator(Null)

InHeap     == level = "heap" /\ UNCHANGED <<level, bufferVars, bindlessVars>>
InBuffer   == level = "buffer" /\ UNCHANGED <<level, vars, bindlessVars>>
InBindless == level = "bindless" /\ UNCHANGED <<level, vars, bufferVars>>
Step == \/ InHeap /\ Next
        \/ InBuffer /\ BufferNext
        \/ InBindless /\ BindlessNext

AllLevels == Start /\ [][Step]_levels
=============================================================================
