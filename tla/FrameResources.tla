---------------------------- MODULE FrameResources ----------------------------
(***************************************************************************)
(* What the frames of BrawlerD3D12Framework use in turn: the per-frame     *)
(* partitions of the GPUResourceDescriptorHeap, filled by                  *)
(* DescriptorTableBuilders, and the command allocators of the FrameGraphs. *)
(* Which of them a thread uses depends on the frame number cached on it:   *)
(* a job caches that of its creator, and a thread that waits in one job    *)
(* executes others, of other frames, on top of it.                         *)
(*                                                                         *)
(* Each frame has one GPUExecutionModule, which records a command list for *)
(* every builder.  Command lists are all of one queue: every queue has an  *)
(* array of allocators of its own.  Module FrameSubmission has how the     *)
(* frames follow one another, and that the GPU executes them in order.     *)
(***************************************************************************)
EXTENDS Naturals, Sequences, SequencesExt, FiniteSets

CONSTANTS Workers, Main,          \* the threads
          Builders,               \* DescriptorTableBuilders, with one descriptor each
          PER_FRAME_DESCRIPTORS,  \* of either partition
          NoDescriptor,
          MaxFramesProcessed      \* bound

MAX_FRAMES_IN_FLIGHT == 2
Threads == Workers \cup {Main}
Slots == 0 .. MAX_FRAMES_IN_FLIGHT - 1

\* GPUResourceDescriptorHeap asserts that the limit is not exceeded, though with
\* twice the limit.
ASSUME FrameResourcesAssumption ==
    /\ IsFiniteSet(Builders) /\ PER_FRAME_DESCRIPTORS \in Nat
    /\ Cardinality(Builders) <= PER_FRAME_DESCRIPTORS

VARIABLES mCurrFrameNum,
          processing,              \* whether the main thread has reset the FrameGraph
          mCachedFrameNumberStack, \* by thread
          queued,                  \* the jobs nobody executes
          stack,                   \* by thread: its jobs
          mPerFrameIndexArr, mHeap,
          mDescriptorTable,        \* by builder
          mTableCreationCritSection,   \* by builder: the thread that holds it, if any
          cmdAllocatorPtrArr,      \* by thread: the slots it has cached an allocator of
          NeedsReset,              \* the allocators, by thread and slot, to be reset
          recorded,                \* the command lists the GPU has not executed
          submitted, executed      \* frames

frameVars == <<mCurrFrameNum, processing, mCachedFrameNumberStack, queued, stack,
               mPerFrameIndexArr, mHeap, mDescriptorTable, mTableCreationCritSection,
               cmdAllocatorPtrArr, NeedsReset, recorded, submitted, executed>>
jobVars  == <<mCachedFrameNumberStack, queued>>
heapVars == <<mPerFrameIndexArr, mHeap, mDescriptorTable, mTableCreationCritSection>>
allocatorVars == <<cmdAllocatorPtrArr, NeedsReset>>
mainVars == <<mCurrFrameNum, processing, submitted, executed>>

Indices == 0 .. MAX_FRAMES_IN_FLIGHT * PER_FRAME_DESCRIPTORS - 1

FramesInit ==
    /\ mCurrFrameNum = 0 /\ processing = FALSE
    /\ mCachedFrameNumberStack = [t \in Threads |-> <<>>]
    /\ queued = {} /\ stack = [t \in Threads |-> <<>>]
    /\ mPerFrameIndexArr = [s \in Slots |-> 0]
    /\ mHeap = [i \in Indices |-> NoDescriptor]
    /\ mDescriptorTable = [b \in Builders |-> <<>>]
    /\ mTableCreationCritSection = [b \in Builders |-> {}]
    /\ cmdAllocatorPtrArr = [t \in Threads |-> {}] /\ NeedsReset = {}
    /\ recorded = {} /\ submitted = {} /\ executed = 0

\* A mutant: the frame number at the bottom of the stack.
FirstCachedFrameNumber(t) ==
    IF mCachedFrameNumberStack[t] # <<>> THEN Head(mCachedFrameNumberStack[t]) ELSE mCurrFrameNum

GetTrueFrameNumber == mCurrFrameNum
GetCurrentFrameNumber(t) ==
    IF mCachedFrameNumberStack[t] # <<>> THEN Last(mCachedFrameNumberStack[t])
    ELSE GetTrueFrameNumber
SlotOf(t) == GetCurrentFrameNumber(t) % MAX_FRAMES_IN_FLIGHT

At(t, step) == stack[t] # <<>> /\ Last(stack[t]).step = step
Job(t) == Last(stack[t])
Goto(t, job) == stack' = [stack EXCEPT ![t] = Append(Front(@), job)]
To(t, step) == Goto(t, [Job(t) EXCEPT !.step = step])

-----------------------------------------------------------------------------
(* The main thread.                                                         *)

ResetPerFrameDescriptorHeapIndex ==
    [mPerFrameIndexArr EXCEPT ![GetTrueFrameNumber % MAX_FRAMES_IN_FLIGHT] = 0]

\* The command lists once their allocators are reset.
ResetCommandAllocators(allocators) ==
    {IF l.allocator \in allocators THEN [l EXCEPT !.intact = FALSE] ELSE l : l \in recorded}

\* ProcessFrame, up to ResetFrameGraph: once the events of the frame's fences are
\* set, what the frame two before used is free.
ProcessFrame ==
    LET slot == mCurrFrameNum % MAX_FRAMES_IN_FLIGHT
        reset == {a \in NeedsReset : a.slot = slot}
    IN  /\ stack[Main] = <<>> /\ ~processing /\ mCurrFrameNum < MaxFramesProcessed
        /\ mCurrFrameNum < executed + MAX_FRAMES_IN_FLIGHT
        /\ processing' = TRUE
        /\ mPerFrameIndexArr' = ResetPerFrameDescriptorHeapIndex
        /\ NeedsReset' = NeedsReset \ reset
        /\ recorded' = ResetCommandAllocators(reset)
        /\ UNCHANGED <<mCurrFrameNum, jobVars, stack, mHeap, mDescriptorTable,
                       mTableCreationCritSection, cmdAllocatorPtrArr, submitted, executed>>

NewJob(t, kind, builders) ==
    {[kind |-> kind, builder |-> b, frame |-> mCurrFrameNum,
      mCachedFrameNumber |-> GetCurrentFrameNumber(t)] : b \in builders}

\* SubmitFrameGraph, and AdvanceFrame.
SubmitFrameGraph ==
    /\ stack[Main] = <<>> /\ processing
    /\ queued' = queued \cup NewJob(Main, "module", {NoDescriptor})
    /\ processing' = FALSE /\ mCurrFrameNum' = mCurrFrameNum + 1
    /\ UNCHANGED <<mCachedFrameNumberStack, stack, heapVars, allocatorVars, recorded,
                   submitted, executed>>

\* Once the submission job has them, the command lists are executed.
GPUExecutes ==
    /\ executed \in submitted
    /\ executed' = executed + 1
    /\ recorded' = {l \in recorded : l.frame # executed}
    /\ UNCHANGED <<mCurrFrameNum, processing, jobVars, stack, heapVars, allocatorVars, submitted>>

-----------------------------------------------------------------------------
(* Jobs.                                                                    *)

\* Job::Execute, by a worker without a job, by the main thread while the frame's
\* builders are created, and by who waits for the jobs of a module.
Execute(t) ==
    /\ \/ stack[t] = <<>> /\ (t # Main \/ processing)
       \/ At(t, "wait")
    /\ \E job \in queued :
          /\ queued' = queued \ {job}
          /\ stack' = [stack EXCEPT ![t] = Append(@,
                [kind |-> job.kind, builder |-> job.builder, frame |-> job.frame,
                 step |-> IF job.kind = "module" THEN "module" ELSE "reset",
                 index |-> 0, allocator |-> [thread |-> t, slot |-> 0]])]
          /\ mCachedFrameNumberStack' =
                [mCachedFrameNumberStack EXCEPT ![t] = Append(@, job.mCachedFrameNumber)]
    /\ UNCHANGED <<mainVars, heapVars, allocatorVars, recorded>>

Return(t) ==
    /\ stack' = [stack EXCEPT ![t] = Front(@)]
    /\ mCachedFrameNumberStack' = [mCachedFrameNumberStack EXCEPT ![t] = Front(@)]

\* SubmitCommandListsForRenderPasses: a job for every command list.
CreateRecordJobs(t) ==
    /\ At(t, "module") /\ To(t, "wait")
    /\ queued' = queued \cup
          {[job EXCEPT !.frame = Job(t).frame] : job \in NewJob(t, "record", Builders)}
    /\ UNCHANGED <<mainVars, mCachedFrameNumberStack, heapVars, allocatorVars, recorded>>

ModuleEnds(t) ==
    /\ At(t, "wait")
    /\ \A b \in Builders : \E l \in recorded : l.builder = b /\ l.frame = Job(t).frame
    /\ submitted' = submitted \cup {Job(t).frame}
    /\ Return(t)
    /\ UNCHANGED <<mCurrFrameNum, processing, executed, queued, heapVars, allocatorVars, recorded>>

\* Of the CommandAllocatorStorage, which notes that the allocator is to be reset.
GetD3D12CommandAllocator(allocator) == NeedsReset \cup {allocator}

\* ResetCommandList: the storage is asked only for the allocators that the thread
\* has not had before.
ResetCommandList(t) ==
    LET allocator == [thread |-> t, slot |-> SlotOf(t)]
    IN  /\ At(t, "reset") /\ Goto(t, [Job(t) EXCEPT !.step = "table", !.allocator = allocator])
        /\ cmdAllocatorPtrArr' = [cmdAllocatorPtrArr EXCEPT ![t] = @ \cup {SlotOf(t)}]
        /\ NeedsReset' = IF SlotOf(t) \in cmdAllocatorPtrArr[t] THEN NeedsReset
                         ELSE GetD3D12CommandAllocator(allocator)
        /\ UNCHANGED <<mainVars, jobVars, heapVars, recorded>>

\* A mutant: off by one.
ValidOneFrameLate(t, table) == table # <<>> /\ table[1].mCreationFrameNum + 1 >= GetCurrentFrameNumber(t)
IsDescriptorTableValid(t, table) ==
    table # <<>> /\ table[1].mCreationFrameNum >= GetCurrentFrameNumber(t)

\* GetDescriptorTable: the lock is taken, and the table returned if it is valid.
GetDescriptorTable(t) ==
    LET b == Job(t).builder
    IN  /\ At(t, "table") /\ mTableCreationCritSection[b] = {}
        /\ IF IsDescriptorTableValid(t, mDescriptorTable[b])
           THEN /\ Goto(t, [Job(t) EXCEPT !.step = "close",
                                          !.index = mDescriptorTable[b][1].index])
                /\ UNCHANGED mTableCreationCritSection
           ELSE /\ To(t, "reserve")
                /\ mTableCreationCritSection' = [mTableCreationCritSection EXCEPT ![b] = {t}]
        /\ UNCHANGED <<mainVars, jobVars, mPerFrameIndexArr, mHeap, mDescriptorTable,
                       allocatorVars, recorded>>

\* CreatePerFrameDescriptorHeapReservation.
ReserveDescriptors(t) ==
    /\ At(t, "reserve")
    /\ Goto(t, [Job(t) EXCEPT !.step = "copy",
                   !.index = SlotOf(t) * PER_FRAME_DESCRIPTORS + mPerFrameIndexArr[SlotOf(t)]])
    /\ mPerFrameIndexArr' = [mPerFrameIndexArr EXCEPT ![SlotOf(t)] = @ + 1]
    /\ UNCHANGED <<mainVars, jobVars, mHeap, mDescriptorTable, mTableCreationCritSection,
                   allocatorVars, recorded>>

CreatePerFrameDescriptorTable(t) ==
    <<[index |-> Job(t).index, mCreationFrameNum |-> GetCurrentFrameNumber(t)]>>

\* The end of CreateDescriptorTable, and of the lock.
CopyDescriptors(t) ==
    LET b == Job(t).builder
    IN  /\ At(t, "copy") /\ To(t, "close")
        /\ mHeap' = [i \in Indices |-> IF i = Job(t).index THEN b ELSE mHeap[i]]
        /\ mDescriptorTable' =
               [mDescriptorTable EXCEPT ![b] = CreatePerFrameDescriptorTable(t)]
        /\ mTableCreationCritSection' = [mTableCreationCritSection EXCEPT ![b] = {}]
        /\ UNCHANGED <<mainVars, jobVars, mPerFrameIndexArr, allocatorVars, recorded>>

\* CloseCommandList, the end of the job.
CloseCommandList(t) ==
    /\ At(t, "close") /\ Return(t)
    /\ recorded' = recorded \cup {[frame |-> Job(t).frame, builder |-> Job(t).builder,
                                   index |-> Job(t).index, allocator |-> Job(t).allocator,
                                   intact |-> TRUE]}
    /\ UNCHANGED <<mainVars, queued, heapVars, allocatorVars>>

FramesNext ==
    \/ ProcessFrame \/ SubmitFrameGraph \/ GPUExecutes
    \/ \E t \in Threads :
          \/ Execute(t) \/ CreateRecordJobs(t) \/ ModuleEnds(t) \/ ResetCommandList(t)
          \/ GetDescriptorTable(t) \/ ReserveDescriptors(t) \/ CopyDescriptors(t)
          \/ CloseCommandList(t)

FramesSpec == FramesInit /\ [][FramesNext]_frameVars

-----------------------------------------------------------------------------
\* From the moment a command list refers to a descriptor table until the GPU has
\* executed it, the table has the descriptors of its builder and the allocator its
\* commands, even when the table is that of a later frame; and no two command lists
\* are recorded with one allocator at a time.
FramesKeepTheirResources ==
    LET open == UNION {{stack[t][i] : i \in DOMAIN stack[t]} : t \in Threads}
        recording == {l \in open : l.step \in {"table", "reserve", "copy", "close"}}
    IN  /\ \A l \in recorded : l.intact /\ mHeap[l.index] = l.builder
        /\ \A l \in recording : l.step = "close" => mHeap[l.index] = l.builder
        /\ \A t \in Threads : \A i, j \in DOMAIN stack[t] :
              {stack[t][i], stack[t][j]} \subseteq recording
                 /\ stack[t][i].allocator = stack[t][j].allocator => i = j
        /\ \A s \in Slots : mPerFrameIndexArr[s] <= PER_FRAME_DESCRIPTORS
=============================================================================
