------------------------ MODULE ThreadSafeQueueProofs ------------------------
(***************************************************************************)
(* Proofs, for any set of threads and any capacity, that the packed        *)
(* offsets always delimit the elements in the queue and that, as long as   *)
(* no PushBack claims a slot a TryPop is still emptying, every TryPop      *)
(* returns the element it claimed without a data race; and that its claims *)
(* are the operations of a BoundedQueue.                                   *)
(***************************************************************************)
EXTENDS ThreadSafeQueue, SequenceTheorems, TLAPS

(***************************************************************************)
(* Arithmetic of the ring.                                                 *)
(***************************************************************************)

\* The remainder PushBack and TryPop take is a wrap at the last slot.
LEMMA NextSlotWraps ==
    ASSUME NEW i \in Slots
    PROVE  /\ NextSlot(i) = IF i = NumElements THEN 0 ELSE i + 1
           /\ NextSlot(i) \in Slots
<1>1. NextSlot(i) = IF i = NumElements THEN 0 ELSE i + 1
  BY QueueAssumption DEF NextSlot, NumSlots, Slots
<1>2. QED BY <1>1, QueueAssumption DEF Slots

\* The number of slots between the indices is never negative.
LEMMA RingSizeIsNat ==
    ASSUME NEW o \in Offsets PROVE RingSize(o) \in Nat
<1>1. o.begin \in Slots /\ o.end \in Slots BY DEF Offsets
<1>2. QED BY <1>1, QueueAssumption DEF RingSize, NumSlots, Slots

\* Claiming the slot at EndIndex of a queue that is not full adds one element.
LEMMA ClaimEndGrows ==
    ASSUME NEW o \in Offsets, ~Full(o)
    PROVE  LET p == [o EXCEPT !.end = NextSlot(@)]
           IN  /\ p \in Offsets
               /\ RingSize(p) = RingSize(o) + 1
               /\ RingSize(p) <= NumElements
<1> DEFINE p == [o EXCEPT !.end = NextSlot(@)]
<1>1. o.begin \in Slots /\ o.end \in Slots BY DEF Offsets
<1>2. p.begin = o.begin /\ p.end = NextSlot(o.end) BY DEF Offsets
<1>3. p \in Offsets BY <1>1, NextSlotWraps DEF Offsets
<1>4. p.end = IF o.end = NumElements THEN 0 ELSE o.end + 1
  BY <1>1, <1>2, NextSlotWraps
<1>5. p.end # o.begin BY <1>2 DEF Full
<1>6. QED BY <1>1, <1>2, <1>3, <1>4, <1>5, QueueAssumption
          DEF RingSize, NumSlots, Slots

\* Claiming the slot at BeginIndex of a queue that is not empty removes one.
LEMMA ClaimBeginShrinks ==
    ASSUME NEW o \in Offsets, ~IsEmpty(o)
    PROVE  LET p == [o EXCEPT !.begin = NextSlot(@)]
           IN  /\ p \in Offsets
               /\ RingSize(p) + 1 = RingSize(o)
<1> DEFINE p == [o EXCEPT !.begin = NextSlot(@)]
<1>1. o.begin \in Slots /\ o.end \in Slots /\ o.begin # o.end
  BY DEF Offsets, IsEmpty
<1>2. p.end = o.end /\ p.begin = NextSlot(o.begin) BY DEF Offsets
<1>3. p \in Offsets BY <1>1, NextSlotWraps DEF Offsets
<1>4. p.begin = IF o.begin = NumElements THEN 0 ELSE o.begin + 1
  BY <1>1, <1>2, NextSlotWraps
<1>5. QED BY <1>1, <1>2, <1>3, <1>4, QueueAssumption
          DEF RingSize, NumSlots, Slots

------------------------------------------------------------------------------
\* Every variable keeps to its type, from the constructor on.
THEOREM TypeCorrect == Spec => []TypeOK
<1>1. Init => TypeOK
  <2>1. 0 \in Slots BY QueueAssumption DEF Slots
  <2>2. [begin |-> 0, end |-> 0] \in Offsets BY <2>1 DEF Offsets
  <2>3. Init => /\ mArr \in [Slots -> BOOLEAN]
                /\ lapped \in BOOLEAN
    BY DEF Init
  <2>4. Init => /\ mBackingMemory \in [Slots -> Nat]
                /\ slotTicket \in [Slots -> Nat]
                /\ pc \in [Threads -> Steps]
                /\ claimedIndex \in [Threads -> Slots]
                /\ ticket \in [Threads -> Nat]
    BY <2>1 DEF Init, Steps
  <2>5. Init => /\ mPackedOffsets \in Offsets
                /\ currOffsets \in [Threads -> Offsets]
                /\ pushes \in Nat
                /\ pops \in Nat
    BY <2>2 DEF Init
  <2>6. QED BY <2>3, <2>4, <2>5 DEF TypeOK
<1>2. TypeOK /\ [Next]_vars => TypeOK'
  <2> SUFFICES ASSUME TypeOK, [Next]_vars PROVE TypeOK'
    OBVIOUS
  <2> USE DEF TypeOK, Goto, localVars, offsetVars
  <2>1. ASSUME NEW t \in Threads, PushLoad(t) \/ PopLoad(t) PROVE TypeOK'
    BY <2>1 DEF PushLoad, PopLoad, Load, Steps
  <2>2. ASSUME NEW t \in Threads, PushRetry(t) \/ PopRetry(t) PROVE TypeOK'
    BY <2>2 DEF PushRetry, PopRetry, ClaimRetry
  <2>3. ASSUME NEW t \in Threads, PushFull(t) \/ PopEmpty(t) PROVE TypeOK'
    BY <2>3 DEF PushFull, PopEmpty, Steps
  <2>4. ASSUME NEW t \in Threads, PushClaim(t) PROVE TypeOK'
    <3>1. currOffsets[t].end \in Slots BY DEF Offsets
    <3>2. mPackedOffsets' \in Offsets
      BY <2>4, ClaimEndGrows DEF PushClaim, Claimed
    <3>3. lapped' \in BOOLEAN BY <2>4 DEF PushClaim
    <3>4. QED BY <2>4, <3>1, <3>2, <3>3 DEF PushClaim, Claimed, Steps
  <2>5. ASSUME NEW t \in Threads, PopClaim(t) PROVE TypeOK'
    <3>1. currOffsets[t].begin \in Slots BY DEF Offsets
    <3>2. mPackedOffsets' \in Offsets
      BY <2>5, ClaimBeginShrinks DEF PopClaim, Claimed
    <3>3. QED BY <2>5, <3>1, <3>2 DEF PopClaim, Claimed, Steps
  <2>6. ASSUME NEW t \in Threads, PushWrite(t) \/ PushStore(t) PROVE TypeOK'
    BY <2>6 DEF PushWrite, PushStore, Steps
  <2>7. ASSUME NEW t \in Threads, PopTake(t) \/ PopMove(t) PROVE TypeOK'
    BY <2>7 DEF PopTake, PopMove, Steps
  <2>8. CASE UNCHANGED vars
    BY <2>8 DEF vars
  <2>9. QED BY <2>1, <2>2, <2>3, <2>4, <2>5, <2>6, <2>7, <2>8
            DEF Next, Push, Pop
<1>3. QED BY <1>1, <1>2, PTL DEF Spec

------------------------------------------------------------------------------
\* The packed indices delimit the elements inserted and not claimed.
THEOREM OffsetsCorrect == Spec => []OffsetsCountElements
<1>1. Init => OffsetsCountElements
  BY QueueAssumption DEF Init, OffsetsCountElements, RingSize
<1>2. TypeOK /\ OffsetsCountElements /\ [Next]_vars => OffsetsCountElements'
  <2> SUFFICES ASSUME TypeOK, OffsetsCountElements, [Next]_vars
               PROVE  OffsetsCountElements'
    OBVIOUS
  <2> USE DEF OffsetsCountElements
  <2>1. CASE UNCHANGED <<mPackedOffsets, pushes, pops>>
    BY <2>1 DEF RingSize, NumSlots
  <2>2. ASSUME NEW t \in Threads, PushClaim(t) PROVE OffsetsCountElements'
    <3>1. /\ mPackedOffsets \in Offsets
          /\ ~Full(mPackedOffsets)
          /\ mPackedOffsets' = [mPackedOffsets EXCEPT !.end = NextSlot(@)]
          /\ pushes' = pushes + 1 /\ pops' = pops
      BY <2>2 DEF PushClaim, Claimed, TypeOK
    <3>2. /\ RingSize(mPackedOffsets') = RingSize(mPackedOffsets) + 1
          /\ RingSize(mPackedOffsets') <= NumElements
      BY <3>1, ClaimEndGrows
    <3>3. RingSize(mPackedOffsets) \in Nat BY <3>1, RingSizeIsNat
    <3>4. QED BY <3>1, <3>2, <3>3, QueueAssumption DEF TypeOK
  <2>3. ASSUME NEW t \in Threads, PopClaim(t) PROVE OffsetsCountElements'
    <3>1. /\ mPackedOffsets \in Offsets
          /\ ~IsEmpty(mPackedOffsets)
          /\ mPackedOffsets' = [mPackedOffsets EXCEPT !.begin = NextSlot(@)]
          /\ pushes' = pushes /\ pops' = pops + 1
      BY <2>3 DEF PopClaim, Claimed, TypeOK
    <3>2. RingSize(mPackedOffsets') + 1 = RingSize(mPackedOffsets)
      BY <3>1, ClaimBeginShrinks
    <3>3. RingSize(mPackedOffsets') \in Nat
      BY <3>1, ClaimBeginShrinks, RingSizeIsNat
    <3>4. QED BY <3>1, <3>2, <3>3, QueueAssumption DEF TypeOK
  <2>4. QED
    BY <2>1, <2>2, <2>3
       DEF Next, Push, Pop, PushLoad, PopLoad, Load, PushFull, PushRetry,
           PushWrite, PushStore, PopEmpty, PopRetry, PopTake, PopMove,
           ClaimRetry, offsetVars, vars
<1>3. QED BY <1>1, <1>2, TypeCorrect, PTL DEF Spec

------------------------------------------------------------------------------
(***************************************************************************)
(* The inductive invariant behind what TryPop promises.  An element is in  *)
(* a slot, or about to be, exactly as long as the slot is live (between    *)
(* the indices) or its popper still waits; a slot has at most one writer   *)
(* and one emptier, and both know the element by the ticket of the last    *)
(* claim.                                                                  *)
(***************************************************************************)
LiveIn(o, i) == IF o.end >= o.begin THEN o.begin <= i /\ i < o.end
                                    ELSE o.begin <= i \/ i < o.end
Live(i) == LiveIn(mPackedOffsets, i)

WritingAt(t, i)  == Writing(t) /\ claimedIndex[t] = i
EmptyingAt(t, i) == Emptying(t) /\ claimedIndex[t] = i
TakingAt(t, i)   == pc[t] = "popTake" /\ claimedIndex[t] = i
MovingAt(t, i)   == pc[t] = "popMove" /\ claimedIndex[t] = i

SlotInv(i) ==
    /\ \A t, u \in Threads : WritingAt(t, i) /\ WritingAt(u, i) => t = u
    /\ \A t, u \in Threads : EmptyingAt(t, i) /\ EmptyingAt(u, i) => t = u
    /\ \A t \in Threads : WritingAt(t, i) =>
          /\ ~mArr[i]
          /\ ticket[t] = slotTicket[i]
          /\ pc[t] = "pushStore" => mBackingMemory[i] = slotTicket[i]
    /\ mArr[i] => mBackingMemory[i] = slotTicket[i]
    /\ \/ Live(i)
       \/ \E t \in Threads : TakingAt(t, i)
       <=> \/ mArr[i]
           \/ \E t \in Threads : WritingAt(t, i)
    /\ \A t \in Threads : EmptyingAt(t, i) =>
          ~Live(i) /\ ticket[t] = slotTicket[i]
    /\ \A t \in Threads : MovingAt(t, i) => mBackingMemory[i] = slotTicket[i]

SlotsInv == lapped \/ \A i \in Slots : SlotInv(i)

\* A claim by PushBack brings the free slot at EndIndex to life, and no other.
LEMMA ClaimEndLives ==
    ASSUME NEW o \in Offsets, ~Full(o), NEW i \in Slots
    PROVE  LET p == [o EXCEPT !.end = NextSlot(@)]
           IN  /\ ~LiveIn(o, o.end)
               /\ LiveIn(p, i) <=> LiveIn(o, i) \/ i = o.end
<1> DEFINE p == [o EXCEPT !.end = NextSlot(@)]
<1>1. o.begin \in Slots /\ o.end \in Slots BY DEF Offsets
<1>2. p.begin = o.begin /\ p.end = NextSlot(o.end) BY DEF Offsets
<1>3. p.end = IF o.end = NumElements THEN 0 ELSE o.end + 1
  BY <1>1, <1>2, NextSlotWraps
<1>4. p.end # o.begin BY <1>2 DEF Full
<1>5. QED BY <1>1, <1>2, <1>3, <1>4, QueueAssumption DEF LiveIn, Slots

\* A claim by TryPop ends the life of the slot at BeginIndex, and no other.
LEMMA ClaimBeginDies ==
    ASSUME NEW o \in Offsets, ~IsEmpty(o), NEW i \in Slots
    PROVE  LET p == [o EXCEPT !.begin = NextSlot(@)]
           IN  /\ LiveIn(o, o.begin)
               /\ LiveIn(p, i) <=> LiveIn(o, i) /\ i # o.begin
<1> DEFINE p == [o EXCEPT !.begin = NextSlot(@)]
<1>1. o.begin \in Slots /\ o.end \in Slots /\ o.begin # o.end
  BY DEF Offsets, IsEmpty
<1>2. p.end = o.end /\ p.begin = NextSlot(o.begin) BY DEF Offsets
<1>3. p.begin = IF o.begin = NumElements THEN 0 ELSE o.begin + 1
  BY <1>1, <1>2, NextSlotWraps
<1>4. QED BY <1>1, <1>2, <1>3, QueueAssumption DEF LiveIn, Slots

\* What the steps do to the slots they own, and to no other, keeps SlotInv.
LEMMA SlotsInvInductive == TypeOK /\ SlotsInv /\ [Next]_vars => SlotsInv'
<1> SUFFICES ASSUME TypeOK, SlotsInv, [Next]_vars, ~lapped',
                    NEW i \in Slots
             PROVE  SlotInv(i)'
  BY DEF SlotsInv
<1>0. SlotInv(i) /\ ~lapped
  <2>1. ~lapped
    BY DEF Next, Push, Pop, PushLoad, PopLoad, Load, PushFull, PushRetry,
           PushClaim, PushWrite, PushStore, PopEmpty, PopRetry, PopClaim,
           PopTake, PopMove, ClaimRetry, offsetVars, vars
  <2>2. QED BY <2>1 DEF SlotsInv
<1> DEFINE Unowned(t) == pc[t] \in {"idle", "pushClaim", "popClaim"}
\* Steps that own no slot before or after them.
<1>1. ASSUME NEW t \in Threads, Unowned(t), Unowned(t)',
             \A u \in Threads \ {t} : pc'[u] = pc[u],
             UNCHANGED <<mPackedOffsets, mArr, mBackingMemory, claimedIndex,
                         ticket, slotTicket>>
      PROVE  SlotInv(i)'
  BY <1>0, <1>1 DEF SlotInv, WritingAt, EmptyingAt, TakingAt, MovingAt,
                    Writing, Emptying, Live
<1>2. ASSUME NEW t \in Threads,
             \/ PushLoad(t) \/ PushFull(t) \/ PushRetry(t)
             \/ PopLoad(t) \/ PopEmpty(t) \/ PopRetry(t)
      PROVE  SlotInv(i)'
  <2>1. /\ Unowned(t) /\ Unowned(t)'
        /\ \A u \in Threads \ {t} : pc'[u] = pc[u]
        /\ UNCHANGED <<mPackedOffsets, mArr, mBackingMemory, claimedIndex,
                       ticket, slotTicket>>
    BY <1>2 DEF TypeOK, PushLoad, PopLoad, Load, PushFull, PushRetry,
                PopEmpty, PopRetry, ClaimRetry, Goto, offsetVars, localVars
  <2>2. QED BY <1>1, <2>1
<1>3. ASSUME NEW t \in Threads, PushClaim(t) PROVE SlotInv(i)'
  <2>1. /\ mPackedOffsets \in Offsets /\ ~Full(mPackedOffsets)
        /\ mPackedOffsets' = [mPackedOffsets EXCEPT !.end = NextSlot(@)]
    BY <1>3 DEF PushClaim, Claimed, TypeOK
  <2>2. /\ ~Live(mPackedOffsets.end)
        /\ Live(i)' <=> Live(i) \/ i = mPackedOffsets.end
    BY <2>1, ClaimEndLives DEF Live
  <2>3. mPackedOffsets.end \in Slots BY <2>1 DEF Offsets
  <2>4. /\ \A u \in Threads : WritingAt(u, i)' <=>
              IF u = t THEN i = mPackedOffsets.end ELSE WritingAt(u, i)
        /\ \A u \in Threads : EmptyingAt(u, i)' <=> EmptyingAt(u, i)
        /\ \A u \in Threads : TakingAt(u, i)' <=> TakingAt(u, i)
        /\ \A u \in Threads : MovingAt(u, i)' <=> MovingAt(u, i)
        /\ pc'[t] = "pushWrite" /\ \A u \in Threads \ {t} : pc'[u] = pc[u]
    BY <1>3 DEF PushClaim, Claimed, Goto, TypeOK, WritingAt, EmptyingAt,
                TakingAt, MovingAt, Writing, Emptying
  <2>5. /\ ~WritingAt(t, i) /\ ~EmptyingAt(t, i)
    BY <1>3 DEF PushClaim, WritingAt, EmptyingAt, Writing, Emptying
  <2>6. /\ mArr' = mArr /\ mBackingMemory' = mBackingMemory
        /\ \A u \in Threads \ {t} : ticket'[u] = ticket[u]
        /\ ticket'[t] = pushes
        /\ slotTicket'[i] = IF i = mPackedOffsets.end THEN pushes
                                                      ELSE slotTicket[i]
    BY <1>3, <2>3 DEF PushClaim, Claimed, TypeOK
  <2>7. i = mPackedOffsets.end => \A u \in Threads : ~EmptyingAt(u, i)
    BY <1>3 DEF PushClaim, Claimed, EmptyingAt
  <2>8. \A u \in Threads : TakingAt(u, i) \/ MovingAt(u, i) => EmptyingAt(u, i)
    BY DEF TakingAt, MovingAt, EmptyingAt, Emptying
  <2>9. CASE i = mPackedOffsets.end
    <3>1. ~mArr[i] /\ \A u \in Threads : ~WritingAt(u, i)
      BY <1>0, <2>2, <2>7, <2>8, <2>9 DEF SlotInv
    <3>2. QED BY <1>0, <2>2, <2>4, <2>6, <2>7, <2>8, <2>9, <3>1 DEF SlotInv
  <2>10. CASE i # mPackedOffsets.end
    BY <1>0, <2>2, <2>4, <2>5, <2>6, <2>10 DEF SlotInv
  <2>11. QED BY <2>9, <2>10
<1>4. ASSUME NEW t \in Threads, PopClaim(t) PROVE SlotInv(i)'
  <2>1. /\ mPackedOffsets \in Offsets /\ ~IsEmpty(mPackedOffsets)
        /\ mPackedOffsets' = [mPackedOffsets EXCEPT !.begin = NextSlot(@)]
    BY <1>4 DEF PopClaim, Claimed, TypeOK
  <2>2. /\ Live(mPackedOffsets.begin)
        /\ Live(i)' <=> Live(i) /\ i # mPackedOffsets.begin
    BY <2>1, ClaimBeginDies DEF Live
  <2>3. mPackedOffsets.begin \in Slots BY <2>1 DEF Offsets
  <2>4. /\ \A u \in Threads : WritingAt(u, i)' <=> WritingAt(u, i)
        /\ \A u \in Threads : EmptyingAt(u, i)' <=>
              IF u = t THEN i = mPackedOffsets.begin ELSE EmptyingAt(u, i)
        /\ \A u \in Threads : TakingAt(u, i)' <=>
              IF u = t THEN i = mPackedOffsets.begin ELSE TakingAt(u, i)
        /\ \A u \in Threads : MovingAt(u, i)' <=> MovingAt(u, i)
        /\ pc'[t] = "popTake" /\ \A u \in Threads \ {t} : pc'[u] = pc[u]
    BY <1>4 DEF PopClaim, Claimed, Goto, TypeOK, WritingAt, EmptyingAt,
                TakingAt, MovingAt, Writing, Emptying
  <2>5. /\ ~WritingAt(t, i) /\ ~EmptyingAt(t, i) /\ ~TakingAt(t, i)
        /\ ~MovingAt(t, i)
    BY <1>4 DEF PopClaim, WritingAt, EmptyingAt, TakingAt, MovingAt,
                Writing, Emptying
  <2>6. /\ mArr' = mArr /\ mBackingMemory' = mBackingMemory
        /\ slotTicket' = slotTicket
        /\ \A u \in Threads \ {t} : ticket'[u] = ticket[u]
        /\ ticket'[t] = slotTicket[mPackedOffsets.begin]
    BY <1>4 DEF PopClaim, Claimed, TypeOK
  <2>7. CASE i = mPackedOffsets.begin
    <3>1. \A u \in Threads : ~EmptyingAt(u, i)
      BY <1>0, <2>2, <2>7 DEF SlotInv
    <3>2. QED BY <1>0, <2>2, <2>4, <2>5, <2>6, <2>7, <3>1 DEF SlotInv
  <2>8. CASE i # mPackedOffsets.begin
    BY <1>0, <2>2, <2>4, <2>5, <2>6, <2>8 DEF SlotInv
  <2>9. QED BY <2>7, <2>8
<1>5. ASSUME NEW t \in Threads, PushWrite(t) PROVE SlotInv(i)'
  <2>1. /\ \A u \in Threads : WritingAt(u, i)' <=> WritingAt(u, i)
        /\ \A u \in Threads : EmptyingAt(u, i)' <=> EmptyingAt(u, i)
        /\ \A u \in Threads : TakingAt(u, i)' <=> TakingAt(u, i)
        /\ \A u \in Threads : MovingAt(u, i)' <=> MovingAt(u, i)
        /\ pc'[t] = "pushStore" /\ \A u \in Threads \ {t} : pc'[u] = pc[u]
        /\ WritingAt(t, claimedIndex[t]) /\ ~EmptyingAt(t, i)
    BY <1>5 DEF PushWrite, Goto, localVars, TypeOK, WritingAt, EmptyingAt,
                TakingAt, MovingAt, Writing, Emptying
  <2>2. /\ UNCHANGED <<mPackedOffsets, mArr, ticket, slotTicket>>
        /\ mBackingMemory'[i] = IF claimedIndex[t] = i THEN ticket[t]
                                ELSE mBackingMemory[i]
    BY <1>5 DEF PushWrite, localVars, offsetVars, TypeOK
  <2>3. Live(i)' <=> Live(i) BY <2>2 DEF Live
  <2>4. \A u \in Threads : MovingAt(u, i) =>
          /\ EmptyingAt(u, i)
          /\ ~\E w \in Threads : TakingAt(w, i)
    BY <1>0 DEF SlotInv, MovingAt, EmptyingAt, TakingAt, Emptying
  <2>5. CASE claimedIndex[t] = i
    <3>1. \A u \in Threads : ~MovingAt(u, i)
      BY <1>0, <2>1, <2>4, <2>5 DEF SlotInv
    <3>2. \A u \in Threads : WritingAt(u, i) => u = t
      BY <1>0, <2>1, <2>5 DEF SlotInv
    <3>3. QED BY <1>0, <2>1, <2>2, <2>3, <2>5, <3>1, <3>2 DEF SlotInv
  <2>6. CASE claimedIndex[t] # i
    <3>1. ~WritingAt(t, i) BY <2>6 DEF WritingAt
    <3>2. QED BY <1>0, <2>1, <2>2, <2>3, <2>6, <3>1 DEF SlotInv
  <2>7. QED BY <2>5, <2>6
<1>6. ASSUME NEW t \in Threads, PushStore(t) PROVE SlotInv(i)'
  <2>1. /\ \A u \in Threads : WritingAt(u, i)' <=> u # t /\ WritingAt(u, i)
        /\ \A u \in Threads : EmptyingAt(u, i)' <=> EmptyingAt(u, i)
        /\ \A u \in Threads : TakingAt(u, i)' <=> TakingAt(u, i)
        /\ \A u \in Threads : MovingAt(u, i)' <=> MovingAt(u, i)
        /\ \A u \in Threads \ {t} : pc'[u] = pc[u]
        /\ pc[t] = "pushStore" /\ WritingAt(t, claimedIndex[t])
    BY <1>6 DEF PushStore, Goto, localVars, TypeOK, WritingAt, EmptyingAt,
                TakingAt, MovingAt, Writing, Emptying
  <2>2. /\ UNCHANGED <<mPackedOffsets, mBackingMemory, ticket, slotTicket>>
        /\ mArr'[i] <=> (mArr[i] \/ claimedIndex[t] = i)
    BY <1>6 DEF PushStore, localVars, offsetVars, TypeOK
  <2>3. Live(i)' <=> Live(i) BY <2>2 DEF Live
  <2>4. CASE claimedIndex[t] = i
    <3>1. \A u \in Threads : WritingAt(u, i) => u = t
      BY <1>0, <2>1, <2>4 DEF SlotInv
    <3>2. QED BY <1>0, <2>1, <2>2, <2>3, <2>4, <3>1 DEF SlotInv
  <2>5. CASE claimedIndex[t] # i
    <3>1. ~WritingAt(t, i) BY <2>5 DEF WritingAt
    <3>2. QED BY <1>0, <2>1, <2>2, <2>3, <2>5, <3>1 DEF SlotInv
  <2>6. QED BY <2>4, <2>5
<1>7. ASSUME NEW t \in Threads, PopTake(t) PROVE SlotInv(i)'
  <2>1. /\ \A u \in Threads : WritingAt(u, i)' <=> WritingAt(u, i)
        /\ \A u \in Threads : EmptyingAt(u, i)' <=> EmptyingAt(u, i)
        /\ \A u \in Threads : TakingAt(u, i)' <=> u # t /\ TakingAt(u, i)
        /\ \A u \in Threads : MovingAt(u, i)' <=>
              IF u = t THEN claimedIndex[t] = i ELSE MovingAt(u, i)
        /\ \A u \in Threads \ {t} : pc'[u] = pc[u]
        /\ EmptyingAt(t, claimedIndex[t]) /\ ~WritingAt(t, i)
        /\ TakingAt(t, claimedIndex[t])
        /\ mArr[claimedIndex[t]]
    BY <1>7 DEF PopTake, Goto, localVars, TypeOK, WritingAt, EmptyingAt,
                TakingAt, MovingAt, Writing, Emptying
  <2>2. /\ UNCHANGED <<mPackedOffsets, mBackingMemory, ticket, slotTicket>>
        /\ mArr'[i] <=> (mArr[i] /\ claimedIndex[t] # i)
    BY <1>7 DEF PopTake, localVars, offsetVars, TypeOK
  <2>3. Live(i)' <=> Live(i) BY <2>2 DEF Live
  <2>4. \A u \in Threads : TakingAt(u, i) => EmptyingAt(u, i)
    BY DEF TakingAt, EmptyingAt, Emptying
  <2>5. CASE claimedIndex[t] = i
    <3>1. /\ \A u \in Threads : EmptyingAt(u, i) => u = t
          /\ \A u \in Threads : ~WritingAt(u, i)
          /\ ~Live(i) /\ mBackingMemory[i] = slotTicket[i]
      BY <1>0, <2>1, <2>5 DEF SlotInv
    <3>2. QED BY <1>0, <2>1, <2>2, <2>3, <2>4, <2>5, <3>1 DEF SlotInv
  <2>6. CASE claimedIndex[t] # i
    <3>1. ~TakingAt(t, i) /\ ~MovingAt(t, i) BY <2>6 DEF TakingAt, MovingAt
    <3>2. \A u \in Threads : WritingAt(u, i) => u # t BY <2>1
    <3>3. QED BY <1>0, <2>1, <2>2, <2>3, <2>6, <3>1, <3>2 DEF SlotInv
  <2>7. QED BY <2>5, <2>6
<1>8. ASSUME NEW t \in Threads, PopMove(t) PROVE SlotInv(i)'
  <2>1. /\ \A u \in Threads : WritingAt(u, i)' <=> WritingAt(u, i)
        /\ \A u \in Threads : EmptyingAt(u, i)' <=> u # t /\ EmptyingAt(u, i)
        /\ \A u \in Threads : TakingAt(u, i)' <=> TakingAt(u, i)
        /\ \A u \in Threads : MovingAt(u, i)' <=> u # t /\ MovingAt(u, i)
        /\ \A u \in Threads \ {t} : pc'[u] = pc[u]
        /\ ~WritingAt(t, i)
    BY <1>8 DEF PopMove, Goto, localVars, TypeOK, WritingAt, EmptyingAt,
                TakingAt, MovingAt, Writing, Emptying
  <2>2. UNCHANGED <<mPackedOffsets, mArr, mBackingMemory, ticket, slotTicket>>
    BY <1>8 DEF PopMove, localVars, offsetVars
  <2>3. Live(i)' <=> Live(i) BY <2>2 DEF Live
  <2>4. QED BY <1>0, <2>1, <2>2, <2>3 DEF SlotInv
<1>9. CASE UNCHANGED vars
  BY <1>0, <1>9 DEF vars, SlotInv, WritingAt, EmptyingAt, TakingAt, MovingAt,
                    Writing, Emptying, Live
<1>10. QED
  BY <1>2, <1>3, <1>4, <1>5, <1>6, <1>7, <1>8, <1>9 DEF Next, Push, Pop

\* The inductive invariant holds from the empty queue on.
THEOREM SlotsCorrect == Spec => []SlotsInv
<1>1. Init => SlotsInv
  <2> SUFFICES ASSUME Init, NEW i \in Slots PROVE SlotInv(i)
    BY DEF SlotsInv
  <2>1. \A t \in Threads : pc[t] = "idle" BY DEF Init
  <2>2. ~Live(i) /\ ~mArr[i]
    BY QueueAssumption DEF Init, Live, LiveIn, Slots
  <2>3. QED BY <2>1, <2>2 DEF SlotInv, WritingAt, EmptyingAt, TakingAt,
                              MovingAt, Writing, Emptying
<1>2. QED BY <1>1, SlotsInvInductive, TypeCorrect, PTL DEF Spec

------------------------------------------------------------------------------
\* Unless lapped, the element a TryPop moves out is the one it claimed.
THEOREM ClaimedElementCorrect == Spec => []ClaimedElementIntact
<1>1. TypeOK /\ SlotsInv => ClaimedElementIntact
  BY DEF TypeOK, SlotsInv, SlotInv, ClaimedElementIntact, MovingAt, EmptyingAt,
         Emptying
<1>2. QED BY <1>1, TypeCorrect, SlotsCorrect, PTL

\* Unless lapped, no two calls touch a slot's memory at the same time.
THEOREM DataRaceFree == Spec => []NoDataRace
<1>1. TypeOK /\ SlotsInv => NoDataRace
  <2> SUFFICES ASSUME TypeOK, SlotsInv, ~lapped,
                      NEW t \in Threads, NEW u \in Threads, t # u,
                      Writing(t) \/ pc[t] = "popMove",
                      Writing(u) \/ pc[u] = "popMove",
                      claimedIndex[t] = claimedIndex[u]
               PROVE  FALSE
    BY DEF NoDataRace
  <2> DEFINE i == claimedIndex[t]
  <2>1. i \in Slots /\ SlotInv(i) BY DEF TypeOK, SlotsInv
  <2>2. ASSUME NEW m \in Threads, NEW w \in Threads,
               MovingAt(m, i), WritingAt(w, i)
        PROVE  FALSE
    <3>1. \A v \in Threads : TakingAt(v, i) => v = m
      BY <2>1, <2>2 DEF SlotInv, MovingAt, TakingAt, EmptyingAt, Emptying
    <3>2. ~TakingAt(m, i) BY <2>2 DEF MovingAt, TakingAt
    <3>3. ~Live(i) BY <2>1, <2>2 DEF SlotInv, MovingAt, EmptyingAt, Emptying
    <3>4. QED BY <2>1, <2>2, <3>1, <3>2, <3>3 DEF SlotInv
  <2>3. \A v \in {t, u} : MovingAt(v, i) \/ WritingAt(v, i)
    BY DEF MovingAt, WritingAt
  <2>4. ~(WritingAt(t, i) /\ WritingAt(u, i)) BY <2>1 DEF SlotInv
  <2>5. ~(MovingAt(t, i) /\ MovingAt(u, i))
    BY <2>1 DEF SlotInv, MovingAt, EmptyingAt, Emptying
  <2>6. QED BY <2>2, <2>3, <2>4, <2>5
<1>2. QED BY <1>1, TypeCorrect, SlotsCorrect, PTL

\* Unless lapped, a TryPop never waits for an element nobody will store.
THEOREM WaitsAreAnswered == Spec => []WaitIsAnswered
<1>1. TypeOK /\ SlotsInv => WaitIsAnswered
  <2> SUFFICES ASSUME TypeOK, SlotsInv, ~lapped, NEW t \in Threads,
                      pc[t] = "popTake", ~mArr[claimedIndex[t]]
               PROVE  \E u \in Threads :
                         Writing(u) /\ claimedIndex[u] = claimedIndex[t]
    BY DEF WaitIsAnswered
  <2>1. SlotInv(claimedIndex[t]) BY DEF TypeOK, SlotsInv
  <2>2. TakingAt(t, claimedIndex[t]) BY DEF TakingAt
  <2>3. QED BY <2>1, <2>2 DEF SlotInv, WritingAt
<1>2. QED BY <1>1, TypeCorrect, SlotsCorrect, PTL

\* No element is lost, torn or taken twice, but where a PushBack has lapped.
THEOREM QueueCorrect == Spec => []QueueIntact
BY OffsetsCorrect, ClaimedElementCorrect, DataRaceFree, WaitsAreAnswered, PTL
   DEF QueueIntact

(***************************************************************************)
(* The refinement of BoundedQueue.                                         *)
(***************************************************************************)
\* The tickets in the slots from BeginIndex to EndIndex, as the refinement of
\* BoundedQueue reads them.
Content(o, tickets) ==
    [k \in 1 .. RingSize(o) |-> tickets[(o.begin + k - 1) % NumSlots]]

\* A remainder of less than two laps is at most one wrap.
LEMMA Wraps ==
    ASSUME NEW x \in Nat, x < 2 * NumSlots
    PROVE  x % NumSlots = IF x < NumSlots THEN x ELSE x - NumSlots
BY QueueAssumption DEF NumSlots

\* The slots from BeginIndex on, counted round the ring, are those of the queue
\* until EndIndex is met.
LEMMA PlaceOf ==
    ASSUME NEW o \in Offsets, NEW k \in 1 .. NumSlots
    PROVE  /\ (o.begin + k - 1) % NumSlots \in Slots
           /\ k <= RingSize(o) => (o.begin + k - 1) % NumSlots # o.end
           /\ k = RingSize(o) + 1 => (o.begin + k - 1) % NumSlots = o.end
<1>1. o.begin \in Slots /\ o.end \in Slots BY DEF Offsets
<1> DEFINE x == o.begin + k - 1
<1>2. x \in Nat /\ x < 2 * NumSlots BY <1>1, QueueAssumption DEF Slots, NumSlots
<1>3. x % NumSlots = IF x < NumSlots THEN x ELSE x - NumSlots BY <1>2, Wraps
<1>4. QED BY <1>1, <1>2, <1>3, QueueAssumption DEF RingSize, Slots, NumSlots

\* Counting from the slot after b is counting one further from b.
LEMMA NextPlace ==
    ASSUME NEW b \in Slots, NEW i \in 1 .. NumElements
    PROVE  (NextSlot(b) + i - 1) % NumSlots = (b + i) % NumSlots
<1>1. NextSlot(b) \in Slots /\ NextSlot(b) = IF b = NumElements THEN 0 ELSE b + 1
  BY NextSlotWraps
<1> DEFINE n == NextSlot(b)
<1> HIDE DEF n
<1>2. n \in Slots /\ n = IF b = NumElements THEN 0 ELSE b + 1 BY <1>1 DEF n
<1>3. /\ NumElements \in Nat /\ n \in Nat /\ n <= NumElements /\ b \in Nat
      /\ b <= NumElements /\ i \in Nat /\ 1 <= i /\ i <= NumElements
      /\ NumSlots = NumElements + 1
  BY <1>2, QueueAssumption DEF Slots, NumSlots
<1> DEFINE x == n + i - 1
           y == b + i
<1>4. /\ x \in Nat /\ x < 2 * NumSlots /\ y \in Nat /\ y < 2 * NumSlots
      /\ n = 0 => x + NumSlots = y
      /\ n # 0 => x = y
      /\ n = 0 => y >= NumSlots
  BY <1>2, <1>3
<1> HIDE DEF x, y
<1>5. x % NumSlots = IF x < NumSlots THEN x ELSE x - NumSlots BY <1>4, Wraps
<1>6. y % NumSlots = IF y < NumSlots THEN y ELSE y - NumSlots BY <1>4, Wraps
<1>7. x % NumSlots = y % NumSlots BY <1>3, <1>4, <1>5, <1>6
<1>8. QED BY <1>7 DEF n, x, y

\* The queue read off the ring is a sequence of as many tickets as it holds.
LEMMA ContentIsSeq ==
    ASSUME NEW o \in Offsets, NEW tickets \in [Slots -> Nat]
    PROVE  /\ Content(o, tickets) \in Seq(Nat)
           /\ Len(Content(o, tickets)) = RingSize(o)
           /\ \A k \in 1 .. RingSize(o) :
                 Content(o, tickets)[k] = tickets[(o.begin + k - 1) % NumSlots]
<1>1. o.begin \in Slots /\ o.end \in Slots BY DEF Offsets
<1>2. RingSize(o) \in Nat /\ RingSize(o) <= NumSlots
  <2>1. RingSize(o) \in Nat BY RingSizeIsNat
  <2>2. RingSize(o) <= NumSlots
    BY <1>1, QueueAssumption, SMTT(30) DEF RingSize, Slots, NumSlots
  <2> QED BY <2>1, <2>2
<1>3. ASSUME NEW k \in 1 .. RingSize(o)
      PROVE  tickets[(o.begin + k - 1) % NumSlots] \in Nat
  <2>1. k \in 1 .. NumSlots BY <1>2, QueueAssumption DEF NumSlots
  <2>2. (o.begin + k - 1) % NumSlots \in Slots BY <2>1, PlaceOf
  <2> QED BY <2>2
<1>4. QED BY <1>2, <1>3, SMTT(30) DEF Content

\* PushBack, claiming the slot at EndIndex, appends to the queue.
LEMMA ClaimEndAppends ==
    ASSUME NEW o \in Offsets, NEW tickets \in [Slots -> Nat], NEW k \in Nat, ~Full(o)
    PROVE  Content([o EXCEPT !.end = NextSlot(@)], [tickets EXCEPT ![o.end] = k])
               = Append(Content(o, tickets), k)
<1> DEFINE p == [o EXCEPT !.end = NextSlot(@)]
           after == [tickets EXCEPT ![o.end] = k]
<1>1. /\ o.begin \in Slots /\ o.end \in Slots /\ p \in Offsets /\ p.begin = o.begin
      /\ RingSize(p) = RingSize(o) + 1 /\ RingSize(p) <= NumElements
      /\ RingSize(o) \in Nat /\ after \in [Slots -> Nat]
  BY ClaimEndGrows, RingSizeIsNat DEF Offsets
<1>2. \A i \in 1 .. RingSize(o) :
         after[(o.begin + i - 1) % NumSlots] = tickets[(o.begin + i - 1) % NumSlots]
  BY <1>1, PlaceOf, QueueAssumption DEF NumSlots
<1>3. after[(o.begin + (RingSize(o) + 1) - 1) % NumSlots] = k
  BY <1>1, PlaceOf, QueueAssumption DEF NumSlots
<1>4. /\ Content(o, tickets) \in Seq(Nat) /\ Len(Content(o, tickets)) = RingSize(o)
      /\ \A i \in 1 .. RingSize(o) :
            Content(o, tickets)[i] = tickets[(o.begin + i - 1) % NumSlots]
  BY ContentIsSeq
<1> HIDE DEF p, after
<1>5. /\ Content(p, after) \in Seq(Nat) /\ Len(Content(p, after)) = RingSize(o) + 1
      /\ \A i \in 1 .. RingSize(o) + 1 :
            Content(p, after)[i] = after[(o.begin + i - 1) % NumSlots]
  BY <1>1, ContentIsSeq
<1>6. /\ Append(Content(o, tickets), k) \in Seq(Nat)
      /\ Len(Append(Content(o, tickets), k)) = RingSize(o) + 1
      /\ \A i \in 1 .. RingSize(o) + 1 :
            Append(Content(o, tickets), k)[i] = IF i = RingSize(o) + 1 THEN k
                                                ELSE Content(o, tickets)[i]
  BY <1>1, <1>4, AppendProperties
<1>7. Content(p, after) = Append(Content(o, tickets), k)
  <2>1. \A i \in 1 .. Len(Content(p, after)) :
            Content(p, after)[i] = Append(Content(o, tickets), k)[i]
    <3>1. SUFFICES ASSUME NEW i \in 1 .. RingSize(o) + 1
                   PROVE  Content(p, after)[i] = Append(Content(o, tickets), k)[i]
      BY <1>5
    <3>2. CASE i = RingSize(o) + 1 BY <1>1, <1>3, <1>5, <1>6, <3>2
    <3>3. CASE i # RingSize(o) + 1
      <4>1. i \in 1 .. RingSize(o) BY <1>1, <3>3
      <4>2. QED BY <1>1, <1>2, <1>4, <3>3, <1>5, <1>6, <4>1
    <3>4. QED BY <3>2, <3>3
  <2>2. QED BY <1>1, <1>5, <1>6, <2>1, SeqEqual
<1>8. QED BY <1>7 DEF p, after

\* TryPop, claiming the slot at BeginIndex, takes the head of the queue.
LEMMA ClaimBeginTakesHead ==
    ASSUME NEW o \in Offsets, NEW tickets \in [Slots -> Nat], ~IsEmpty(o)
    PROVE  /\ Content(o, tickets) # << >>
           /\ Content([o EXCEPT !.begin = NextSlot(@)], tickets) = Tail(Content(o, tickets))
<1> DEFINE p == [o EXCEPT !.begin = NextSlot(@)]
<1>1. /\ o.begin \in Slots /\ p \in Offsets /\ p.begin = NextSlot(o.begin)
      /\ p.begin \in Slots
      /\ RingSize(p) + 1 = RingSize(o) /\ RingSize(p) \in Nat /\ RingSize(p) <= NumElements
  <2>1. p \in Offsets /\ RingSize(p) + 1 = RingSize(o) BY ClaimBeginShrinks
  <2>2. o.begin \in Slots /\ p.begin = NextSlot(o.begin) BY DEF Offsets
  <2>3. p.begin \in Slots /\ p.end \in Slots BY <2>1 DEF Offsets
  <2>4. RingSize(p) \in Nat /\ RingSize(p) <= NumElements
    BY <2>3, QueueAssumption DEF RingSize, Slots, NumSlots
  <2>5. QED BY <2>1, <2>2, <2>3, <2>4
<1>2. \A i \in 1 .. RingSize(p) :
         (p.begin + i - 1) % NumSlots = (o.begin + i) % NumSlots
  BY <1>1, NextPlace, QueueAssumption
<1>3. /\ Content(o, tickets) \in Seq(Nat) /\ Len(Content(o, tickets)) = RingSize(p) + 1
      /\ \A i \in 1 .. RingSize(p) + 1 :
            Content(o, tickets)[i] = tickets[(o.begin + i - 1) % NumSlots]
  BY <1>1, ContentIsSeq
<1>4. /\ Content(p, tickets) \in Seq(Nat) /\ Len(Content(p, tickets)) = RingSize(p)
      /\ \A i \in 1 .. RingSize(p) :
            Content(p, tickets)[i] = tickets[(p.begin + i - 1) % NumSlots]
  BY <1>1, ContentIsSeq
<1> HIDE DEF p
<1>5. Content(o, tickets) # << >> BY <1>1, <1>3
<1>6. /\ Tail(Content(o, tickets)) \in Seq(Nat)
      /\ Len(Tail(Content(o, tickets))) = RingSize(p)
      /\ \A i \in 1 .. RingSize(p) :
            Tail(Content(o, tickets))[i] = Content(o, tickets)[i + 1]
  BY <1>1, <1>3, <1>5, HeadTailProperties
<1>7. \A i \in 1 .. Len(Content(p, tickets)) :
         Content(p, tickets)[i] = Tail(Content(o, tickets))[i]
  <2>1. SUFFICES ASSUME NEW i \in 1 .. RingSize(p)
                 PROVE  Content(p, tickets)[i] = Tail(Content(o, tickets))[i]
    BY <1>4
  <2>2. i + 1 \in 1 .. RingSize(p) + 1 BY <1>1
  <2>3. Tail(Content(o, tickets))[i] = tickets[(o.begin + i) % NumSlots]
    <3>1. o.begin + (i + 1) - 1 = o.begin + i BY <1>1 DEF Slots
    <3>2. QED BY <1>3, <1>6, <2>2, <3>1
  <2>4. QED BY <1>2, <1>4, <2>3
<1>8. Content(p, tickets) = Tail(Content(o, tickets))
  BY <1>1, <1>4, <1>6, <1>7, SeqEqual
<1>9. QED BY <1>5, <1>8 DEF p

\* A queue just constructed is the empty one.
LEMMA InitIsEmpty == Init => Queue!Init
<1>1. SUFFICES ASSUME Init PROVE Queue!Init OBVIOUS
<1>2. RingSize(mPackedOffsets) = 0 BY <1>1 DEF Init, RingSize
<1>3. QED BY <1>1, <1>2 DEF Init, Queue!Init

\* Only a successful compare_exchange is a step of the bounded queue: a PushBack's
\* inserts, a TryPop's removes, and every other step is invisible.
LEMMA EveryStepIsOneOfTheQueue ==
    ASSUME TypeOK, OffsetsCountElements, [Next]_vars
    PROVE  [Queue!Next]_<<Content(mPackedOffsets, slotTicket), pushes>>
<1>1. CASE UNCHANGED <<mPackedOffsets, slotTicket, pushes>>
  BY <1>1 DEF Content, RingSize
<1>2. ASSUME NEW t \in Threads, PushClaim(t) PROVE Queue!Insert
  <2>1. /\ mPackedOffsets \in Offsets /\ slotTicket \in [Slots -> Nat] /\ pushes \in Nat
        /\ ~Full(mPackedOffsets)
        /\ mPackedOffsets' = [mPackedOffsets EXCEPT !.end = NextSlot(@)]
        /\ slotTicket' = [slotTicket EXCEPT ![mPackedOffsets.end] = pushes]
        /\ pushes' = pushes + 1
    BY <1>2 DEF PushClaim, Claimed, TypeOK
  <2>2. Content(mPackedOffsets', slotTicket') = Append(Content(mPackedOffsets, slotTicket), pushes)
    BY <2>1, ClaimEndAppends
  <2>3. Len(Content(mPackedOffsets, slotTicket)) < NumElements
    <3>1. /\ RingSize(mPackedOffsets') = RingSize(mPackedOffsets) + 1
          /\ RingSize(mPackedOffsets') <= NumElements
      BY <2>1, ClaimEndGrows
    <3>2. QED BY <2>1, <3>1, ContentIsSeq, RingSizeIsNat, QueueAssumption
  <2>4. QED BY <2>1, <2>2, <2>3 DEF Queue!Insert, Content
<1>3. ASSUME NEW t \in Threads, PopClaim(t) PROVE Queue!Remove
  <2>1. /\ mPackedOffsets \in Offsets /\ slotTicket \in [Slots -> Nat]
        /\ ~IsEmpty(mPackedOffsets)
        /\ mPackedOffsets' = [mPackedOffsets EXCEPT !.begin = NextSlot(@)]
        /\ slotTicket' = slotTicket /\ pushes' = pushes
    BY <1>3 DEF PopClaim, Claimed, TypeOK
  <2>2. /\ Content(mPackedOffsets, slotTicket) # << >>
        /\ Content(mPackedOffsets', slotTicket') = Tail(Content(mPackedOffsets, slotTicket))
    BY <2>1, ClaimBeginTakesHead
  <2>3. QED BY <2>1, <2>2 DEF Queue!Remove, Content
<1>4. QED
  BY <1>1, <1>2, <1>3
     DEF Queue!Next, Next, Push, Pop, PushLoad, PopLoad, Load, PushFull, PushRetry,
         PushWrite, PushStore, PopEmpty, PopRetry, PopTake, PopMove, ClaimRetry,
         offsetVars, vars

\* For any set of threads and any capacity PushBack and TryPop are, at their
\* claims, the operations of a bounded FIFO queue.
THEOREM QueueImplementsBoundedQueue == Spec => ImplementsBoundedQueue
<1>1. TypeOK /\ OffsetsCountElements /\ [Next]_vars
         => [Queue!Next]_<<Content(mPackedOffsets, slotTicket), pushes>>
  BY EveryStepIsOneOfTheQueue
<1>2. QED BY InitIsEmpty, <1>1, TypeCorrect, OffsetsCorrect, PTL
          DEF Spec, ImplementsBoundedQueue, Queue!Spec, Content
=============================================================================
