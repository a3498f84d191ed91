----------------------------- MODULE Application -----------------------------
(***************************************************************************)
(* The engine's main loop, Brawler::Application::Run: updates of a fixed    *)
(* time step until they have caught up with the clock, then a frame.  An     *)
(* update first does what bundles of requests ask of the stack of            *)
(* application states, and then updates the states from the top down to one  *)
(* that does not let those below it be updated.  Any thread submits bundles. *)
(*                                                                         *)
(* A frame has a segment of the ResourceDescriptorHeap.  The threads that    *)
(* record commands reserve tables in it while the main thread goes on to     *)
(* the next frame; they also give resources bindless SRVs.  Direct3D is      *)
(* external, and a failing assertion ends the program.                       *)
(***************************************************************************)
EXTENDS Naturals, Sequences, SequencesExt, FiniteSets

CONSTANTS PHYSICS_TIMESTEP_TICKS,
          FrameTicks,                \* what may have elapsed since the last frame
          Transparent,               \* the application states that let others be updated
          RequestBundles,
          REQUEST_QUEUE_SIZE,
          Recorders,                 \* threads that record commands
          Resources,
          Description,               \* [resource -> [isBuffer, srv: its dimension or "none"]]
          DescriptorTables,          \* the descriptors that are added, in order
          BINDLESS_SRV_SEGMENT_SIZE, PER_FRAME_SEGMENT_COUNT, PER_FRAME_SEGMENT_SIZE,
          MaxFrames, MaxBundles,
          MaxTables                  \* bounds; nobody tries again once there was no room

VARIABLES phase,               \* where Run is
          mRunning, accumulator, mCurrUpdateTick,
          mStateStack, mRequestQueue,
          below,               \* the states from here down are still to be updated
          now,                 \* history: what has elapsed at the start of the frame
          submitted,           \* history: the bundles accepted
          due,                 \* history: how many before this update
          updated,             \* history: the states updated in this update
          mCurrFrameNum, mPerFrameIndexArr,
          descriptors,         \* of the heap; first the bindless ones
          binding,             \* [recorder -> the table it is about to create]
          tables,              \* those of this frame and of the PER_FRAME_SEGMENT_COUNT - 1 before
          mFreeBindlessIndexQueue,
          mBindlessSRVAllocation,  \* [resource -> its index, if it has one]
          reservedIndex            \* [resource -> the index of its next bindless SRV]

updateVars == <<accumulator, mCurrUpdateTick, mStateStack, below, now, due, updated>>
requestVars == <<mRequestQueue, submitted>>
tableVars == <<descriptors, binding, tables>>
bindlessVars == <<mFreeBindlessIndexQueue, mBindlessSRVAllocation, reservedIndex>>
applicationVars == <<phase, mRunning, updateVars, requestVars, mCurrFrameNum, mPerFrameIndexArr,
                     tableVars, bindlessVars>>

-----------------------------------------------------------------------------
(* The stack of states; a request of type "push" has the state that is pushed. *)

RequestStatePop   == [type |-> "pop", state |-> "COUNT_OR_ERROR"]
RequestStateClear == [type |-> "clear", state |-> "COUNT_OR_ERROR"]

Request(stack, request) ==
    CASE request.type = "push" -> Append(stack, request.state)
      [] request = RequestStatePop   -> Front(stack)
      [] request = RequestStateClear -> <<>>

RequestsOf(stack, bundle) == FoldLeft(Request, stack, bundle)

\* Popping from an empty stack fails an assertion.
CanPop(stack, bundle) ==
    \A i \in DOMAIN bundle :
        bundle[i] = RequestStatePop => RequestsOf(stack, SubSeq(bundle, 1, i - 1)) # <<>>

-----------------------------------------------------------------------------
(* Descriptor tables and the heap. *)

\* ResourceCPUVisibleDescriptorManager::CreateCPUVisibleDescriptors.
HasCBV(r) == Description[r].isBuffer
HasSRV(r) == Description[r].srv # "none"
\* I_GPUResource::GetUAVDescription makes a description of that of the SRV.
HasUAV(r) == HasSRV(r) /\ Description[r].srv # "texture 3D"

CPUVisibleDescriptors == {[type |-> "CBV", resource |-> r] : r \in {s \in Resources : HasCBV(s)}}
                    \cup {[type |-> "SRV", resource |-> r] : r \in {s \in Resources : HasSRV(s)}}
                    \cup {[type |-> "UAV", resource |-> r] : r \in {s \in Resources : HasUAV(s)}}

\* GetCPUVisibleDescriptorHandle asserts that the descriptor has been created.
ApplicationAssumption ==
    /\ PHYSICS_TIMESTEP_TICKS \in Nat \ {0} /\ FrameTicks \subseteq Nat
    /\ PER_FRAME_SEGMENT_COUNT \in Nat \ {0} /\ PER_FRAME_SEGMENT_SIZE \in Nat
    /\ BINDLESS_SRV_SEGMENT_SIZE \in Nat /\ REQUEST_QUEUE_SIZE \in Nat \ {0}
    /\ DescriptorTables \subseteq Seq(CPUVisibleDescriptors)

\* A mutant: the range of the type, wherever it is.
AddToItsType(ranges, d) ==
    IF \E i \in DOMAIN ranges : ranges[i].type = d.type
    THEN LET i == CHOOSE j \in DOMAIN ranges : ranges[j].type = d.type
         IN  [ranges EXCEPT ![i].resources = Append(@, d.resource)]
    ELSE Append(ranges, [type |-> d.type, resources |-> <<d.resource>>])

\* mRangeArr: descriptors of one type that were added one after another are a range.
AddDescriptor(ranges, d) ==
    IF ranges # <<>> /\ Last(ranges).type = d.type
    THEN [ranges EXCEPT ![Len(ranges)].resources = Append(@, d.resource)]
    ELSE Append(ranges, [type |-> d.type, resources |-> <<d.resource>>])
RangesOf(table) == FoldLeft(AddDescriptor, <<>>, table)

\* What is copied for each of its ranges.
DescriptorsOf(range) ==
    [i \in DOMAIN range.resources |-> [type |-> range.type, resource |-> range.resources[i]]]
CopiedFor(table) == FlattenSeq([i \in DOMAIN RangesOf(table) |-> DescriptorsOf(RangesOf(table)[i])])

SegmentOf(frame) == frame % PER_FRAME_SEGMENT_COUNT

\* A mutant: all frames have the same segment.
OneSegment(perFrameIndex) == perFrameIndex + BINDLESS_SRV_SEGMENT_SIZE
GetDescriptorHeapIndexFromPerFrameIndex(perFrameIndex) ==
    perFrameIndex + BINDLESS_SRV_SEGMENT_SIZE + SegmentOf(mCurrFrameNum) * PER_FRAME_SEGMENT_SIZE

HeapIndices == 0 .. BINDLESS_SRV_SEGMENT_SIZE + PER_FRAME_SEGMENT_COUNT * PER_FRAME_SEGMENT_SIZE - 1
Unwritten == [type |-> "none"]
NoTable   == [is |-> "none"]
Cells(t)  == t.begin .. t.begin + Len(t.table) - 1

-----------------------------------------------------------------------------
InitializeFreeBindlessIndexQueue ==
    mFreeBindlessIndexQueue = [i \in 1 .. BINDLESS_SRV_SEGMENT_SIZE |-> i - 1]

ApplicationInit ==
    /\ phase = "frame" /\ mRunning = TRUE
    /\ accumulator = 0 /\ mCurrUpdateTick = 0 /\ now = 0
    /\ mStateStack = <<>> /\ mRequestQueue = <<>> /\ below = 0
    /\ submitted = <<>> /\ due = 0 /\ updated = <<>>
    /\ mCurrFrameNum = 0 /\ mPerFrameIndexArr = [s \in 0 .. PER_FRAME_SEGMENT_COUNT - 1 |-> 0]
    /\ descriptors = [i \in HeapIndices |-> Unwritten]
    /\ binding = [b \in Recorders |-> NoTable] /\ tables = {}
    /\ InitializeFreeBindlessIndexQueue
    /\ mBindlessSRVAllocation = [r \in Resources |-> {}]
    /\ reservedIndex = [r \in Resources |-> {}]

(* Application::Run. *)

BeginFrame ==
    /\ phase = "frame" /\ mRunning /\ mCurrFrameNum < MaxFrames
    /\ \E elapsed \in FrameTicks :
          /\ accumulator' = accumulator + elapsed
          /\ now' = now + elapsed
    /\ phase' = "updates"
    /\ UNCHANGED <<mRunning, mCurrUpdateTick, mStateStack, below, due, updated, requestVars,
                   mCurrFrameNum, mPerFrameIndexArr, tableVars, bindlessVars>>

\* With PreUpdate: AssetManager::UpdateAssetDependencies is a module of its own.
BeginUpdate ==
    /\ phase = "updates" /\ accumulator >= PHYSICS_TIMESTEP_TICKS
    /\ phase' = "requests" /\ due' = Len(submitted) /\ updated' = <<>>
    /\ UNCHANGED <<mRunning, accumulator, mCurrUpdateTick, mStateStack, below, now, requestVars,
                   mCurrFrameNum, mPerFrameIndexArr, tableVars, bindlessVars>>

ProcessStateStackRequests ==
    /\ phase = "requests" /\ mRequestQueue # <<>>
    /\ IF CanPop(mStateStack, Head(mRequestQueue))
       THEN /\ mStateStack' = RequestsOf(mStateStack, Head(mRequestQueue))
            /\ phase' = phase
       ELSE phase' = "aborted" /\ UNCHANGED mStateStack
    /\ mRequestQueue' = Tail(mRequestQueue)
    /\ UNCHANGED <<mRunning, accumulator, mCurrUpdateTick, below, now, due, updated, submitted,
                   mCurrFrameNum, mPerFrameIndexArr, tableVars, bindlessVars>>

\* A mutant: one bundle for every update.
AfterOneBundle == mRequestQueue = <<>> \/ Len(submitted) - Len(mRequestQueue) > 0
NoneIsLeft == mRequestQueue = <<>>
BeginStates ==
    /\ phase = "requests" /\ NoneIsLeft
    /\ phase' = "states" /\ below' = Len(mStateStack)
    /\ UNCHANGED <<mRunning, accumulator, mCurrUpdateTick, mStateStack, now, due, updated,
                   requestVars, mCurrFrameNum, mPerFrameIndexArr, tableVars, bindlessVars>>

\* The update of a state may call Terminate.
UpdateState ==
    /\ phase = "states" /\ below > 0
    /\ LET state == mStateStack[below]
       IN  /\ updated' = Append(updated, state)
           /\ below' = IF state \in Transparent THEN below - 1 ELSE 0
    /\ mRunning' \in {mRunning, FALSE}
    /\ UNCHANGED <<phase, accumulator, mCurrUpdateTick, mStateStack, now, due, requestVars,
                   mCurrFrameNum, mPerFrameIndexArr, tableVars, bindlessVars>>

\* A mutant: the rest of the time is dropped.
CaughtUp(ticks) == 0
AfterUpdate(ticks) == ticks - PHYSICS_TIMESTEP_TICKS

\* PostUpdate; nothing is drawn on the way out but the frame that has begun.
EndUpdate ==
    /\ phase = "states" /\ below = 0
    /\ mCurrUpdateTick' = mCurrUpdateTick + 1
    /\ IF mRunning THEN phase' = "updates" /\ accumulator' = AfterUpdate(accumulator)
                   ELSE phase' = "draw" /\ UNCHANGED accumulator
    /\ UNCHANGED <<mRunning, mStateStack, below, now, due, updated, requestVars, mCurrFrameNum,
                   mPerFrameIndexArr, tableVars, bindlessVars>>

\* Renderer::AdvanceFrame, up to ResourceDescriptorHeap::AdvanceFrame.
NextFrame ==
    /\ phase' = "advance"
    /\ mCurrFrameNum' = mCurrFrameNum + 1
Draw ==
    /\ \/ phase = "draw"
       \/ phase = "updates" /\ accumulator < PHYSICS_TIMESTEP_TICKS
    /\ NextFrame
    /\ tables' = {t \in tables : t.frame + PER_FRAME_SEGMENT_COUNT > mCurrFrameNum'}
    /\ UNCHANGED <<mRunning, updateVars, requestVars, mPerFrameIndexArr, descriptors, binding,
                   bindlessVars>>

AdvanceFrame ==
    /\ phase = "advance" /\ phase' = "frame"
    /\ mPerFrameIndexArr' = [mPerFrameIndexArr EXCEPT ![SegmentOf(mCurrFrameNum)] = 0]
    /\ UNCHANGED <<mRunning, updateVars, requestVars, mCurrFrameNum, tableVars, bindlessVars>>

EndRun ==
    /\ phase = "frame" /\ ~ mRunning /\ phase' = "ended"
    /\ UNCHANGED <<mRunning, updateVars, requestVars, mCurrFrameNum, mPerFrameIndexArr,
                   tableVars, bindlessVars>>

(* ApplicationStateStack::SubmitStateStackRequestBundle, of any thread. *)

SubmitStateStackRequestBundle ==
    /\ phase \notin {"ended", "aborted"} /\ Len(submitted) < MaxBundles
    /\ \E bundle \in RequestBundles :
          IF Len(mRequestQueue) < REQUEST_QUEUE_SIZE
          THEN /\ mRequestQueue' = Append(mRequestQueue, bundle)
               /\ submitted' = Append(submitted, bundle)
               /\ phase' = phase
          ELSE phase' = "aborted" /\ UNCHANGED requestVars
    /\ UNCHANGED <<mRunning, updateVars, mCurrFrameNum, mPerFrameIndexArr, tableVars, bindlessVars>>

-----------------------------------------------------------------------------
(* ResourceDescriptorTable::CreatePerFrameDescriptorTable, of a recorder.    *)

IsRunning == phase \notin {"ended", "aborted"}

GetCurrentPerFrameIndexTracker(b) ==
    /\ IsRunning /\ binding[b] = NoTable /\ Cardinality(tables) < MaxTables
    /\ mPerFrameIndexArr[SegmentOf(mCurrFrameNum)] <= PER_FRAME_SEGMENT_SIZE
    /\ \E table \in DescriptorTables :
          binding' = [binding EXCEPT ![b] =
              [is |-> "tracker", table |-> table, frame |-> mCurrFrameNum,
               inStep |-> phase # "advance"]]
    /\ UNCHANGED <<phase, mRunning, updateVars, requestVars, mCurrFrameNum, mPerFrameIndexArr,
                   descriptors, tables, bindlessVars>>

\* The tracker stays where it is when there is no room.
CreatePerFrameReservation(b) ==
    /\ IsRunning /\ binding[b].is = "tracker"
    /\ LET tracker == SegmentOf(binding[b].frame)
           size    == Len(binding[b].table)
           index   == mPerFrameIndexArr[tracker]
       IN  /\ mPerFrameIndexArr' = [mPerFrameIndexArr EXCEPT ![tracker] = index + size]
           /\ binding' = [binding EXCEPT ![b] =
                 IF index + size > PER_FRAME_SEGMENT_SIZE THEN NoTable
                 ELSE [is |-> "reserved", table |-> @.table, frame |-> @.frame,
                       inStep |-> @.inStep, index |-> index]]
    /\ UNCHANGED <<phase, mRunning, updateVars, requestVars, mCurrFrameNum, descriptors, tables,
                   bindlessVars>>

CreatePerFrameDescriptorTable(b) ==
    /\ IsRunning /\ binding[b].is = "reserved"
    /\ LET t == [frame |-> mCurrFrameNum, table |-> binding[b].table,
                 begin |-> GetDescriptorHeapIndexFromPerFrameIndex(binding[b].index),
                 inStep |-> binding[b].inStep /\ binding[b].frame = mCurrFrameNum]
       IN  /\ descriptors' = [i \in HeapIndices |->
                 IF i \in Cells(t) THEN CopiedFor(t.table)[i - t.begin + 1] ELSE descriptors[i]]
           /\ tables' = tables \cup {t}
    /\ binding' = [binding EXCEPT ![b] = NoTable]
    /\ UNCHANGED <<phase, mRunning, updateVars, requestVars, mCurrFrameNum, mPerFrameIndexArr,
                   bindlessVars>>

(* I_GPUResource::CreateBindlessSRV, under the lock of the resource, and its  *)
(* destruction.                                                            *)

TryPopBindlessIndex(r) ==
    /\ IsRunning /\ HasSRV(r) /\ reservedIndex[r] = {} /\ mFreeBindlessIndexQueue # <<>>
    /\ reservedIndex' = [reservedIndex EXCEPT ![r] = {Head(mFreeBindlessIndexQueue)}]
    /\ mFreeBindlessIndexQueue' = Tail(mFreeBindlessIndexQueue)
    /\ UNCHANGED <<phase, mRunning, updateVars, requestVars, mCurrFrameNum, mPerFrameIndexArr,
                   tableVars, mBindlessSRVAllocation>>

\* A mutant: what the resource had is forgotten.
Forgotten(r) == <<>>
\* ResourceDescriptorHeap::DeleteAllocation.
GivenBack(r) == SetToSeq(mBindlessSRVAllocation[r])

\* ResourceDescriptorHeapAllocation::operator=, and its destructor.
SetBindlessSRVAllocation(r, allocation) ==
    /\ mFreeBindlessIndexQueue' = mFreeBindlessIndexQueue \o GivenBack(r)
    /\ mBindlessSRVAllocation' = [mBindlessSRVAllocation EXCEPT ![r] = allocation]

CreateBindlessSRV(r) ==
    /\ IsRunning /\ reservedIndex[r] # {}
    /\ descriptors' = [i \in HeapIndices |->
          IF i \in reservedIndex[r] THEN [type |-> "SRV", resource |-> r] ELSE descriptors[i]]
    /\ SetBindlessSRVAllocation(r, reservedIndex[r])
    /\ reservedIndex' = [reservedIndex EXCEPT ![r] = {}]
    /\ UNCHANGED <<phase, mRunning, updateVars, requestVars, mCurrFrameNum, mPerFrameIndexArr,
                   binding, tables>>

DestroyResource(r) ==
    /\ IsRunning /\ reservedIndex[r] = {} /\ mBindlessSRVAllocation[r] # {}
    /\ SetBindlessSRVAllocation(r, {})
    /\ UNCHANGED <<phase, mRunning, updateVars, requestVars, mCurrFrameNum, mPerFrameIndexArr,
                   tableVars, reservedIndex>>

ApplicationNext ==
    \/ BeginFrame \/ BeginUpdate \/ ProcessStateStackRequests \/ BeginStates \/ UpdateState
    \/ EndUpdate \/ Draw \/ AdvanceFrame \/ EndRun \/ SubmitStateStackRequestBundle
    \/ \E b \in Recorders : \/ GetCurrentPerFrameIndexTracker(b)
                            \/ CreatePerFrameReservation(b)
                            \/ CreatePerFrameDescriptorTable(b)
    \/ \E r \in Resources : \/ TryPopBindlessIndex(r) \/ CreateBindlessSRV(r)
                            \/ DestroyResource(r)

-----------------------------------------------------------------------------
\* While the program goes on, a frame is drawn of a world that is less than one time
\* step behind the clock, and never ahead of it.
FramesFollowTime ==
    phase = "advance" /\ mRunning =>
        /\ mCurrUpdateTick * PHYSICS_TIMESTEP_TICKS <= now
        /\ now < (mCurrUpdateTick + 1) * PHYSICS_TIMESTEP_TICKS

\* The states of an update are those that the bundles make, taken in the order of
\* their submission and none missing of those that were submitted before it; they
\* are updated from the top down to the first that is not transparent, although
\* others submit bundles meanwhile.
Processed == SubSeq(submitted, 1, Len(submitted) - Len(mRequestQueue))
ToUpdate(stack) ==
    LET opaque == {i \in DOMAIN stack : stack[i] \notin Transparent}
        last   == IF opaque = {} THEN 1 ELSE CHOOSE i \in opaque : \A j \in opaque : j <= i
    IN  Reverse(SubSeq(stack, last, Len(stack)))
StatesAreUpdated ==
    phase = "states" =>
        /\ Len(Processed) >= due
        /\ mStateStack = RequestsOf(<<>>, FlattenSeq(Processed))
        /\ IF below = 0 THEN updated = ToUpdate(mStateStack)
           ELSE IsPrefix(updated, ToUpdate(mStateStack))

UpdatesAreDone == FramesFollowTime /\ StatesAreUpdated

\* The descriptors of a table stay the ones that were added to it, in that order,
\* until its segment comes round again.  What may share memory with others is a table
\* for which the frame number is read on both sides of an advance, or between the
\* two halves of one (see the README).
TablesAreInPlace ==
    \A t \in tables : t.inStep =>
        \A i \in DOMAIN t.table :
            \/ descriptors[t.begin + i - 1] = t.table[i]
            \/ \E u \in tables : ~ u.inStep /\ t.begin + i - 1 \in Cells(u)

\* A bindless index is free, reserved, or that of one resource, whose SRV is there.
BindlessSRVsAreInPlace ==
    LET taken(r) == mBindlessSRVAllocation[r] \cup reservedIndex[r]
    IN  /\ \A r \in Resources : \A i \in mBindlessSRVAllocation[r] :
              descriptors[i] = [type |-> "SRV", resource |-> r]
        /\ \A r, s \in Resources : r # s => taken(r) \cap taken(s) = {}
        /\ \A r \in Resources : taken(r) \cap ToSet(mFreeBindlessIndexQueue) = {}
        /\ Len(mFreeBindlessIndexQueue) = BINDLESS_SRV_SEGMENT_SIZE
              - Cardinality(UNION {taken(r) : r \in Resources})

DescriptorsAreInPlace == TablesAreInPlace /\ BindlessSRVsAreInPlace
=============================================================================
