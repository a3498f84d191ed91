--------------------------- MODULE ThreadSafeQueue ---------------------------
(***************************************************************************)
(* Brawler::ThreadSafeQueue<T, NumElements>, the lock-free ring buffer     *)
(* every job queue of the suite is made of, one action per atomic access.  *)
(*                                                                         *)
(* The ring has NumElements + 1 slots.  A PushBack claims the slot at      *)
(* EndIndex by a compare/exchange of both packed indices, writes the       *)
(* element into mBackingMemory and then publishes it by storing its        *)
(* address in mArr.  A TryPop claims the slot at BeginIndex the same way,  *)
(* spins until the address is there, exchanges it with nullptr and moves   *)
(* the element out.                                                        *)
(*                                                                         *)
(* An element is named by its ticket: the number of claims PushBack made   *)
(* before the one that placed it.  The non-null pointer a slot of mArr can *)
(* hold is always the address of the same slot of mBackingMemory, so mArr  *)
(* is modelled by whether the slot holds it.                               *)
(***************************************************************************)
EXTENDS Naturals, FiniteSets

CONSTANTS Threads,       \* the threads calling PushBack and TryPop
          NumElements,   \* the template parameter: how many elements fit
          MaxPushes      \* bound: no PushBack begins after so many claims

ASSUME QueueAssumption == /\ NumElements \in Nat \ {0}
                          /\ MaxPushes \in Nat

NumSlots == NumElements + 1              \* mArr.size()
Slots    == 0 .. NumElements
Offsets  == [begin : Slots, end : Slots]   \* QueueInfo, unpacked

VARIABLES
    mPackedOffsets,   \* BeginIndex and EndIndex, always read and written as one
    mArr,             \* slot -> does it hold the address of its element?
    mBackingMemory,   \* slot -> ticket of the element last written there
    pc,               \* thread -> the step of the call it is in
    currOffsets,      \* thread -> its copy of the packed offsets
    claimedIndex,     \* thread -> the slot its compare/exchange claimed
    ticket,           \* thread -> ticket of the element it pushes or pops
    pushes,           \* how many claims PushBack has made
    pops,             \* how many claims TryPop has made
    slotTicket,       \* slot -> ticket of the last PushBack that claimed it
    lapped            \* has a PushBack claimed a slot still being emptied?

offsetVars == <<mPackedOffsets, pushes, pops, slotTicket, lapped>>
localVars  == <<currOffsets, claimedIndex, ticket>>
vars       == <<mPackedOffsets, mArr, mBackingMemory, pc, currOffsets,
                claimedIndex, ticket, pushes, pops, slotTicket, lapped>>

Steps == {"idle", "pushClaim", "pushWrite", "pushStore",
          "popClaim", "popTake", "popMove"}

NextSlot(i) == (i + 1) % NumSlots

Full(o)    == NextSlot(o.end) = o.begin
IsEmpty(o) == o.begin = o.end

\* The slots a thread has claimed and has not finished with.
Writing(t)  == pc[t] \in {"pushWrite", "pushStore"}
Emptying(t) == pc[t] \in {"popTake", "popMove"}

Goto(t, step) == pc' = [pc EXCEPT ![t] = step]

------------------------------------------------------------------------------
Init ==
    /\ mPackedOffsets = [begin |-> 0, end |-> 0]
    /\ mArr = [i \in Slots |-> FALSE]
    /\ mBackingMemory = [i \in Slots |-> 0]
    /\ pc = [t \in Threads |-> "idle"]
    /\ currOffsets = [t \in Threads |-> [begin |-> 0, end |-> 0]]
    /\ claimedIndex = [t \in Threads |-> 0]
    /\ ticket = [t \in Threads |-> 0]
    /\ pushes = 0
    /\ pops = 0
    /\ slotTicket = [i \in Slots |-> 0]
    /\ lapped = FALSE

\* A call begins by loading the packed offsets.
Load(t, step) ==
    /\ pc[t] = "idle"
    /\ Goto(t, step)
    /\ currOffsets' = [currOffsets EXCEPT ![t] = mPackedOffsets]
    /\ UNCHANGED <<mArr, mBackingMemory, claimedIndex, ticket, offsetVars>>

PushLoad(t) == pushes < MaxPushes /\ Load(t, "pushClaim")
PopLoad(t)  == Load(t, "popClaim")

\* The compare/exchange found other offsets than the ones the thread holds,
\* and loaded them: the thread tries again with these.
ClaimRetry(t) ==
    /\ mPackedOffsets # currOffsets[t]
    /\ currOffsets' = [currOffsets EXCEPT ![t] = mPackedOffsets]
    /\ UNCHANGED <<mArr, mBackingMemory, pc, claimedIndex, ticket, offsetVars>>

\* Mutant: the offsets are stored without comparing them first.
ClaimedBlindly(t, i, k, step) ==
    /\ claimedIndex' = [claimedIndex EXCEPT ![t] = i]
    /\ ticket' = [ticket EXCEPT ![t] = k]
    /\ Goto(t, step)
    /\ UNCHANGED <<mArr, mBackingMemory, currOffsets>>

\* The compare/exchange succeeded: the thread owns slot i and element k.
Claimed(t, i, k, step) ==
    /\ mPackedOffsets = currOffsets[t]
    /\ claimedIndex' = [claimedIndex EXCEPT ![t] = i]
    /\ ticket' = [ticket EXCEPT ![t] = k]
    /\ Goto(t, step)
    /\ UNCHANGED <<mArr, mBackingMemory, currOffsets>>

PushFull(t) ==
    /\ pc[t] = "pushClaim"
    /\ Full(currOffsets[t])
    /\ Goto(t, "idle")
    /\ UNCHANGED <<mArr, mBackingMemory, localVars, offsetVars>>

PushRetry(t) == pc[t] = "pushClaim" /\ ~Full(currOffsets[t]) /\ ClaimRetry(t)

PushClaim(t) ==
    /\ pc[t] = "pushClaim"
    /\ ~Full(currOffsets[t])
    /\ LET i == currOffsets[t].end
       IN  /\ Claimed(t, i, pushes, "pushWrite")
           /\ mPackedOffsets' = [mPackedOffsets EXCEPT !.end = NextSlot(@)]
           /\ slotTicket' = [slotTicket EXCEPT ![i] = pushes]
           /\ lapped' = (lapped \/ \E p \in Threads :
                                       Emptying(p) /\ claimedIndex[p] = i)
    /\ pushes' = pushes + 1
    /\ UNCHANGED pops

\* Mutant: an element in the slot beyond NumElements is not published.
PushWriteInBounds(t) ==
    /\ pc[t] = "pushWrite"
    /\ mBackingMemory' = [mBackingMemory EXCEPT ![claimedIndex[t]] = ticket[t]]
    /\ Goto(t, IF claimedIndex[t] < NumElements THEN "pushStore" ELSE "idle")
    /\ UNCHANGED <<mArr, localVars, offsetVars>>

PushWrite(t) ==
    /\ pc[t] = "pushWrite"
    /\ mBackingMemory' = [mBackingMemory EXCEPT ![claimedIndex[t]] = ticket[t]]
    /\ Goto(t, "pushStore")
    /\ UNCHANGED <<mArr, localVars, offsetVars>>

PushStore(t) ==
    /\ pc[t] = "pushStore"
    /\ mArr' = [mArr EXCEPT ![claimedIndex[t]] = TRUE]
    /\ Goto(t, "idle")
    /\ UNCHANGED <<mBackingMemory, localVars, offsetVars>>

PopEmpty(t) ==
    /\ pc[t] = "popClaim"
    /\ IsEmpty(currOffsets[t])
    /\ Goto(t, "idle")
    /\ UNCHANGED <<mArr, mBackingMemory, localVars, offsetVars>>

PopRetry(t) == pc[t] = "popClaim" /\ ~IsEmpty(currOffsets[t]) /\ ClaimRetry(t)

PopClaim(t) ==
    /\ pc[t] = "popClaim"
    /\ ~IsEmpty(currOffsets[t])
    /\ LET i == currOffsets[t].begin
       IN  /\ Claimed(t, i, slotTicket[i], "popTake")
           /\ mPackedOffsets' = [mPackedOffsets EXCEPT !.begin = NextSlot(@)]
    /\ pops' = pops + 1
    /\ UNCHANGED <<pushes, slotTicket, lapped>>

\* Mutant: TryPop does not wait for the element to be stored.
PopTakeAtOnce(t) ==
    /\ pc[t] = "popTake"
    /\ mArr' = [mArr EXCEPT ![claimedIndex[t]] = FALSE]
    /\ Goto(t, "popMove")
    /\ UNCHANGED <<mBackingMemory, localVars, offsetVars>>

\* The wait for the element: the thread spins until the slot is not null, and
\* the compare/exchange that finds its address leaves nullptr behind.
PopTake(t) ==
    /\ pc[t] = "popTake"
    /\ mArr[claimedIndex[t]]
    /\ mArr' = [mArr EXCEPT ![claimedIndex[t]] = FALSE]
    /\ Goto(t, "popMove")
    /\ UNCHANGED <<mBackingMemory, localVars, offsetVars>>

\* The element is moved out of mBackingMemory and TryPop returns it.
PopMove(t) ==
    /\ pc[t] = "popMove"
    /\ Goto(t, "idle")
    /\ UNCHANGED <<mArr, mBackingMemory, localVars, offsetVars>>

Push(t) == \/ PushFull(t) \/ PushRetry(t) \/ PushClaim(t)
           \/ PushWrite(t) \/ PushStore(t)
Pop(t)  == \/ PopEmpty(t) \/ PopRetry(t) \/ PopClaim(t)
           \/ PopTake(t) \/ PopMove(t)

Next == \E t \in Threads : PushLoad(t) \/ PopLoad(t) \/ Push(t) \/ Pop(t)

Spec == Init /\ [][Next]_vars

\* Threads may stop calling the queue, but a call that has begun goes on: the
\* operating system keeps scheduling the thread inside it.
FairSpec == Spec /\ \A t \in Threads : WF_vars(Push(t)) /\ WF_vars(Pop(t))

------------------------------------------------------------------------------
\* Number of slots from BeginIndex to EndIndex around the ring.
RingSize(o) == IF o.end >= o.begin THEN o.end - o.begin
                                   ELSE NumSlots - (o.begin - o.end)

------------------------------------------------------------------------------
\* Every variable keeps to its C++ type, tickets being natural numbers.
TypeOK ==
    /\ mPackedOffsets \in Offsets
    /\ mArr \in [Slots -> BOOLEAN]
    /\ mBackingMemory \in [Slots -> Nat]
    /\ pc \in [Threads -> Steps]
    /\ currOffsets \in [Threads -> Offsets]
    /\ claimedIndex \in [Threads -> Slots]
    /\ ticket \in [Threads -> Nat]
    /\ pushes \in Nat
    /\ pops \in Nat
    /\ slotTicket \in [Slots -> Nat]
    /\ lapped \in BOOLEAN

\* The two packed indices, which wrap around the ring and are exchanged on the
\* strength of a copy that may be any number of laps old, always delimit
\* exactly the elements inserted and not claimed, never more than NumElements.
OffsetsCountElements ==
    /\ pops + RingSize(mPackedOffsets) = pushes
    /\ RingSize(mPackedOffsets) <= NumElements

\* Unless a PushBack has claimed a slot that a TryPop was still emptying, the
\* element a TryPop is about to move out is the one it claimed.
ClaimedElementIntact ==
    \A t \in Threads : pc[t] = "popMove" =>
        lapped \/ mBackingMemory[claimedIndex[t]] = ticket[t]

\* Unless lapped, no two calls touch the same slot of mBackingMemory at the
\* same time, although it is not atomic: of two calls that own a slot, one is
\* a TryPop waiting for the other, a PushBack, to publish the element.
NoDataRace ==
    \A t, u \in Threads :
        (/\ t # u
         /\ Writing(t) \/ pc[t] = "popMove"
         /\ Writing(u) \/ pc[u] = "popMove"
         /\ claimedIndex[t] = claimedIndex[u]) => lapped

\* Unless lapped, TryPop waits for nothing that will not come: the slot it has
\* claimed holds an element or a PushBack in progress will store one there.
WaitIsAnswered ==
    \A t \in Threads : pc[t] = "popTake" =>
        \/ lapped
        \/ mArr[claimedIndex[t]]
        \/ \E u \in Threads : Writing(u) /\ claimedIndex[u] = claimedIndex[t]

\* No element is lost, torn or taken twice.
QueueIntact ==
    OffsetsCountElements /\ ClaimedElementIntact /\ NoDataRace /\ WaitIsAnswered

\* Unless lapped, no call to TryPop that has claimed an element waits for it for
\* ever: time and again there is none that waits.
TryPopReturns == []<>(lapped \/ \A t \in Threads : pc[t] # "popTake")

\* The slots between the indices, read from BeginIndex, are a bounded FIFO
\* queue of the elements, whatever the interleaving of claims.
Queue == INSTANCE BoundedQueue WITH
            queue    <- [k \in 1 .. RingSize(mPackedOffsets) |->
                            slotTicket[(mPackedOffsets.begin + k - 1) % NumSlots]],
            inserted <- pushes
ImplementsBoundedQueue == Queue!Spec
=============================================================================
