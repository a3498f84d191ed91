------------------------ MODULE BufferSubAllocations ------------------------
(***************************************************************************)
(* Brawler::D3D12::BufferResource and its BufferSubAllocationManager: sub- *)
(* allocations of one buffer in an upload heap.  Each is given a           *)
(* reservation, a block of the manager's TLSFAllocator, through a handle;  *)
(* what is written before the ID3D12Resource exists is kept and copied     *)
(* once it does.                                                           *)
(*                                                                         *)
(* Each sub-allocation belongs to one thread; yet another one creates the  *)
(* ID3D12Resource (I_GPUResource::CreatePlacedD3D12Resource).  As in       *)
(* GPUResourceHeap, nothing is enabled after the allocator has followed a  *)
(* pointer it should not have.                                             *)
(***************************************************************************)
EXTENDS TLSFAllocator, Sequences, FiniteSetsExt

CONSTANTS SubAllocations,
          Requirement,      \* of each: its size and placement alignment
          Data,             \* of each: what may be written to it
          MaxPending        \* bound: the requests kept

ASSUME SubAllocationAssumption ==
    /\ Requirement \in [SubAllocations -> [size : 1 .. HeapSizeInBytes, alignment : Nat \ {0}]]
    /\ DOMAIN Data = SubAllocations /\ MaxPending \in Nat

VARIABLES mBufferMemoryAllocator,
          mReservationPtrArr,        \* the reservations: their blocks, and whether marked
          mHReservation,             \* by sub-allocation: the block its handle leads to
          mPendingWriteRequestArr,   \* what was written early
          creation,                  \* of the ID3D12Resource
          contents,                  \* by byte of the buffer
          writing,                   \* what a thread is about to copy
          written,                   \* the last of what a sub-allocation holds
          overtaken                  \* whose data met an older request on its way

bufferVars == <<mBufferMemoryAllocator, mReservationPtrArr, mHReservation,
                mPendingWriteRequestArr, creation, contents, writing, written, overtaken>>

Nothing == <<>>
BufferInit ==
    /\ \E indeterminate \in {Null, Junk} :
          mBufferMemoryAllocator = InitialAllocator(indeterminate)
    /\ mReservationPtrArr = <<>>
    /\ mHReservation = [s \in SubAllocations |-> Null]
    /\ mPendingWriteRequestArr = <<>> /\ creation = "none"
    /\ contents = [byte \in 0 .. HeapSizeInBytes - 1 |-> Nothing]
    /\ writing = [s \in SubAllocations |-> Nothing]
    /\ written = [s \in SubAllocations |-> Nothing]
    /\ overtaken = {}

IsReservationValid(s) == mHReservation[s] # Null
BytesOf(s) ==
    LET offset == mBufferMemoryAllocator.block[mHReservation[s]].offset
    IN  offset .. offset + Requirement[s].size - 1
May(s) == ~mBufferMemoryAllocator.corrupt /\ writing[s] = Nothing

-----------------------------------------------------------------------------
(* Reservations.                                                            *)

DeleteSubAllocation(a, reservation) ==
    IF a.corrupt \/ ~Live(a, reservation.block) THEN Corrupted(a)
    ELSE DeleteAllocation(a, reservation.block)

ReadyForDestruction(reservation) == reservation.mReadyForDestruction

\* The EraseIf of AssignReservationToSubAllocation, std::erase_if on a vector:
\* the predicate returns the block of a reservation that is ready, and the
\* destructor returns it once more.  That is called when a reservation that
\* stays, one of "kept", is moved to its place, or at the end.
Destroy(a, reservation) ==
    IF ReadyForDestruction(reservation) THEN DeleteSubAllocation(a, reservation) ELSE a
Visit(done, i) ==
    LET reservation == mReservationPtrArr[i]
        place == Len(done.kept) + 1
    IN  IF ReadyForDestruction(reservation)
        THEN [allocator |-> DeleteSubAllocation(done.allocator, reservation), kept |-> done.kept]
        ELSE [allocator |-> IF place = i THEN done.allocator
                            ELSE Destroy(done.allocator, mReservationPtrArr[place]),
              kept |-> Append(done.kept, reservation)]
Finish(done, i) ==
    IF i <= Len(done.kept) THEN done
    ELSE [allocator |-> Destroy(done.allocator, mReservationPtrArr[i]), kept |-> done.kept]
EraseReady ==
    LET last == Len(mReservationPtrArr)
        erased[n \in 0 .. 2 * last] ==
            IF n = 0 THEN [allocator |-> mBufferMemoryAllocator, kept |-> <<>>]
            ELSE IF n <= last THEN Visit(erased[n - 1], n)
            ELSE Finish(erased[n - 1], n - last)
    IN  erased[2 * last]

\* MarkReservationForDestruction, for the handle that leads to a block, if any.
MarkForDestruction(arr, block) ==
    [i \in DOMAIN arr |-> IF arr[i].block = block
                          THEN [arr[i] EXCEPT !.mReadyForDestruction = TRUE] ELSE arr[i]]

\* AssignReservationToSubAllocation, for a new sub-allocation or one that gives
\* up what it has; it is told apart from the other by its handle only.
AssignReservationToSubAllocation(s) ==
    /\ May(s)
    /\ \E erased \in {EraseReady}, indeterminate \in {Null, Junk} :
         LET swept == erased.allocator
             held == {erased.kept[i].block : i \in DOMAIN erased.kept}
         IN  /\ Cardinality(FreshNames(swept, held)) >= 2
             /\ \E outcome \in {CreateAllocation(swept, Requirement[s], held, indeterminate)} :
                  IF swept.corrupt \/ outcome.block = Null
                  THEN /\ mBufferMemoryAllocator' =
                              IF swept.corrupt THEN swept ELSE outcome.allocator
                       /\ mReservationPtrArr' = erased.kept
                       /\ UNCHANGED <<mHReservation, written, overtaken>>
                  ELSE /\ mBufferMemoryAllocator' = outcome.allocator
                       /\ mReservationPtrArr' =
                              Append(MarkForDestruction(erased.kept, mHReservation[s]),
                                     [block |-> outcome.block, mReadyForDestruction |-> FALSE])
                       /\ mHReservation' = [mHReservation EXCEPT ![s] = outcome.block]
                       /\ written' = [written EXCEPT ![s] = Nothing]
                       /\ overtaken' = overtaken \ {s}
    /\ UNCHANGED <<mPendingWriteRequestArr, creation, contents, writing>>

\* The sub-allocation goes out of scope, and its handle with it.
DestroySubAllocation(s) ==
    /\ May(s) /\ IsReservationValid(s)
    /\ mReservationPtrArr' = MarkForDestruction(mReservationPtrArr, mHReservation[s])
    /\ mHReservation' = [mHReservation EXCEPT ![s] = Null]
    /\ written' = [written EXCEPT ![s] = Nothing]
    /\ overtaken' = overtaken \ {s}
    /\ UNCHANGED <<mBufferMemoryAllocator, mPendingWriteRequestArr, creation, contents, writing>>

\* t.AssignReservation(s.RevokeReservation()): what t had is marked.
IsReservationCompatible(t, block) ==
    LET b == mBufferMemoryAllocator.block[block]
    IN  b.offset % Requirement[t].alignment = 0 /\ b.size >= Requirement[t].size
PassReservation(s, t) ==
    /\ May(s) /\ May(t) /\ s # t /\ IsReservationValid(s)
    /\ IsReservationCompatible(t, mHReservation[s])
    /\ mReservationPtrArr' = MarkForDestruction(mReservationPtrArr, mHReservation[t])
    /\ mHReservation' = [mHReservation EXCEPT ![t] = mHReservation[s], ![s] = Null]
    /\ written' = [written EXCEPT ![t] = written[s], ![s] = Nothing]
    /\ overtaken' = (overtaken \ {s, t}) \cup (IF s \in overtaken THEN {t} ELSE {})
    /\ UNCHANGED <<mBufferMemoryAllocator, mPendingWriteRequestArr, creation, contents, writing>>

-----------------------------------------------------------------------------
(* Data.                                                                    *)

IsD3D12ResourceCreated == creation # "none"
Copy(buffer, request) ==
    [byte \in DOMAIN buffer |-> IF byte \in request.bytes THEN request.data ELSE buffer[byte]]

\* WriteToBuffer, up to the end of its lock: the data is kept, or the thread
\* goes on to copy it.  The data fills the sub-allocation.
WriteToBuffer(s) ==
    /\ May(s) /\ IsReservationValid(s)
    /\ \E data \in Data[s] :
         LET request == [bytes |-> BytesOf(s), data |-> data]
         IN  /\ request # written[s]
             /\ IF IsD3D12ResourceCreated
                THEN /\ writing' = [writing EXCEPT ![s] = request]
                     /\ UNCHANGED <<mPendingWriteRequestArr, written>>
                ELSE /\ Len(mPendingWriteRequestArr) < MaxPending
                     /\ mPendingWriteRequestArr' = Append(mPendingWriteRequestArr, request)
                     /\ written' = [written EXCEPT ![s] = request]
                     /\ UNCHANGED writing
    /\ UNCHANGED <<mBufferMemoryAllocator, mReservationPtrArr, mHReservation, creation,
                   contents, overtaken>>

\* The memcpy into the mapped buffer.
CopyIntoBuffer(s) ==
    /\ writing[s] # Nothing
    /\ contents' = Copy(contents, writing[s])
    /\ LET older == {i \in DOMAIN mPendingWriteRequestArr :
                        mPendingWriteRequestArr[i].bytes \cap writing[s].bytes # {}}
       IN  overtaken' = IF older = {} THEN overtaken \ {s} ELSE overtaken \cup {s}
    /\ written' = [written EXCEPT ![s] = writing[s]]
    /\ writing' = [writing EXCEPT ![s] = Nothing]
    /\ UNCHANGED <<mBufferMemoryAllocator, mReservationPtrArr, mHReservation,
                   mPendingWriteRequestArr, creation>>

\* CreatePlacedD3D12Resource, up to the end of its lock: from then on the
\* resource can be seen.
CreateD3D12Resource ==
    /\ creation = "none" /\ creation' = "created"
    /\ UNCHANGED <<mBufferMemoryAllocator, mReservationPtrArr, mHReservation,
                   mPendingWriteRequestArr, contents, writing, written, overtaken>>

Writers(byte) == {i \in DOMAIN mPendingWriteRequestArr :
                     byte \in mPendingWriteRequestArr[i].bytes}

\* A mutant: from the last request to the first.
LastToFirst ==
    [byte \in DOMAIN contents |->
        IF Writers(byte) = {} THEN contents[byte]
        ELSE mPendingWriteRequestArr[Min(Writers(byte))].data]

\* The requests are copied in their order, so that the last one stays.
Transferred ==
    [byte \in DOMAIN contents |->
        IF Writers(byte) = {} THEN contents[byte]
        ELSE mPendingWriteRequestArr[Max(Writers(byte))].data]

\* OnD3D12ResourceInitialized, the callback after that.
TransferTemporaryCPUDataToGPUBuffer ==
    /\ creation = "created" /\ creation' = "initialized"
    /\ contents' = Transferred /\ mPendingWriteRequestArr' = <<>>
    /\ UNCHANGED <<mBufferMemoryAllocator, mReservationPtrArr, mHReservation, writing,
                   written, overtaken>>

BufferNext ==
    \/ \E s \in SubAllocations :
          \/ AssignReservationToSubAllocation(s) \/ DestroySubAllocation(s)
          \/ WriteToBuffer(s) \/ CopyIntoBuffer(s)
          \/ \E t \in SubAllocations : PassReservation(s, t)
    \/ CreateD3D12Resource \/ TransferTemporaryCPUDataToGPUBuffer

BufferSpec == BufferInit /\ [][BufferNext]_bufferVars

-----------------------------------------------------------------------------
\* What is written through a handle stays where it was written for as long as the
\* handle is valid, whatever becomes of the other sub-allocations, their late
\* returned blocks and their early data.  The exception is data copied between the
\* creation of the resource and the transfer, which an older request may replace.
SubAllocationsKeepTheirData ==
    ~mBufferMemoryAllocator.corrupt =>
        \A s \in SubAllocations : IsReservationValid(s) =>
            /\ \E i \in DOMAIN mReservationPtrArr :
                  mReservationPtrArr[i] = [block |-> mHReservation[s],
                                           mReadyForDestruction |-> FALSE]
            /\ ~mBufferMemoryAllocator.block[mHReservation[s]].free
            /\ \A t \in SubAllocations \ {s} : IsReservationValid(t) =>
                  BytesOf(s) \cap BytesOf(t) = {}
            /\ creation = "initialized" /\ written[s] # Nothing /\ s \notin overtaken
                => \A byte \in written[s].bytes : contents[byte] = written[s].data
=============================================================================
