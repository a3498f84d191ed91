---------------------------- MODULE TLSFAllocator ----------------------------
(***************************************************************************)
(* Brawler::D3D12::TLSFAllocator and TLSFMemoryBlock: the blocks of one    *)
(* heap in physical order, and the free ones in lists segregated by size   *)
(* class.  An allocator is a value [block, list, refreed, corrupt]; every  *)
(* operation runs under mCritSection, so it is an operator from allocators *)
(* to allocators.                                                          *)
(*                                                                         *)
(* A pointer is the name of a block.  Names of deleted blocks stay in use  *)
(* for as long as some pointer holds them; following such a pointer, or    *)
(* the indeterminate mPrevFreeBlockPtr of a new block, is undefined and    *)
(* sets "corrupt".                                                         *)
(***************************************************************************)
EXTENDS Integers, FiniteSets

CONSTANTS HeapSizeInBytes,
          SLI,            \* 5 in the code
          Blocks,         \* bound: the names blocks may have, numbers
          Null,
          Junk            \* an indeterminate pointer that is not null

Log2(n) == CHOOSE k \in 0 .. n : 2^k <= n /\ n < 2^(k + 1)

ASSUME TLSFAssumption ==
    /\ HeapSizeInBytes \in Nat \ {0}
    /\ SLI \in Nat
    /\ Blocks \subseteq Nat /\ 1 \in Blocks
    /\ Null \notin Blocks
    /\ Junk \notin Blocks \cup {Null}

\* The class of a size.  Below 2^SLI the shift distance is negative; taken
\* modulo 64, as the processor does, it leaves 0.
PoolSearchInfo(size) ==
    LET fl == Log2(size)
    IN  <<fl, IF fl < SLI THEN 0 ELSE (size \div 2^(fl - SLI)) % 2^SLI>>

FirstLevels  == 0 .. Log2(HeapSizeInBytes)
SecondLevels == 0 .. 2^SLI - 1
Classes      == FirstLevels \X SecondLevels

Corrupted(a) == [a EXCEPT !.corrupt = TRUE]
Live(a, p)   == p \in DOMAIN a.block

\* The assignment p->field = v.
Store(a, p, field, v) ==
    IF Live(a, p) THEN [a EXCEPT !.block[p][field] = v] ELSE Corrupted(a)
StoreUnlessNull(a, p, field, v) == IF p = Null THEN a ELSE Store(a, p, field, v)

\* A TLSFMemoryBlock as its constructor and the first setters leave it: the
\* constructor does not initialize mPrevFreeBlockPtr.
NewBlock(offset, size, prev, next, indeterminate) ==
    [offset |-> offset, size |-> size, free |-> TRUE, prevPhysical |-> prev,
     nextPhysical |-> next, prevFree |-> indeterminate, nextFree |-> Null]

AlignmentAdjustment(b, request) ==
    (request.alignment - (b.offset % request.alignment)) % request.alignment

CanBlockAllocateResource(b, request) ==
    /\ b.free
    /\ AlignmentAdjustment(b, request) <= b.size
    /\ b.size - AlignmentAdjustment(b, request) >= request.size

-----------------------------------------------------------------------------
(* The free lists.  A bit of a mask is set iff the list, or one of the      *)
(* lists, it stands for is not empty.                                       *)

InsertBlock(a, b) ==
    LET c == PoolSearchInfo(a.block[b].size)
        h == a.list[c]
        linked == IF h = Null THEN a
                  ELSE Store(Store(a, h, "prevFree", b), b, "nextFree", h)
    IN  [linked EXCEPT !.list[c] = b]

\* The head of list c leaves the list; its own pointers keep their values.
RemoveHead(a, c) ==
    LET next == a.block[a.list[c]].nextFree
    IN  StoreUnlessNull([a EXCEPT !.list[c] = next], next, "prevFree", Null)

RemoveMergedBlock(a, b) ==
    LET c == PoolSearchInfo(a.block[b].size)
    IN  IF a.list[c] = b THEN RemoveHead(a, c) ELSE a

\* GetNextHighestStorageClassIndex: the first list from <<fl, sl>> on, in the
\* same first level, that is not empty.
NextHighest(a, fl, sl) ==
    {<<fl, s>> : s \in {i \in SecondLevels :
        /\ sl <= i
        /\ a.list[<<fl, i>>] # Null
        /\ \A j \in sl .. i - 1 : a.list[<<fl, j>>] = Null}}

\* The lists whose head TryExtractFreeBlock looks at, in this order: the one
\* of the requested size or the next above it, then one for each first level
\* from the requested one on.
Attempt(a, request, i) ==
    LET c == PoolSearchInfo(request.size)
    IN  IF i = 0 THEN NextHighest(a, c[1], c[2]) ELSE NextHighest(a, c[1] + i - 1, 0)

\* The search ends at the head of list c: a block that will do, or a deleted one.
EndsSearch(a, request, c) ==
    ~Live(a, a.list[c]) \/ CanBlockAllocateResource(a.block[a.list[c]], request)

\* The list at which the search ends; {} if there is none.
ListToTry(a, request) ==
    LET levels  == 0 .. Log2(HeapSizeInBytes) - PoolSearchInfo(request.size)[1] + 1
        ends(i) == {c \in Attempt(a, request, i) : EndsSearch(a, request, c)}
        first   == {i \in levels : \A j \in levels : ends(j) # {} => i <= j}
    IN  UNION {ends(i) : i \in first}

-----------------------------------------------------------------------------
(* Splitting and merging.                                                   *)

\* AllocateBlock's padding on the left of b, when its offset is not aligned.
SplitLeft(a, b, request, left, indeterminate) ==
    LET m == a.block[b]
        adjustment == AlignmentAdjustment(m, request)
        prev == m.prevPhysical
        padding == NewBlock(m.offset, adjustment, prev, b, indeterminate)
        upper == [m EXCEPT !.size = @ - adjustment, !.offset = @ + adjustment,
                           !.prevPhysical = left]
        shrunk == [a EXCEPT !.block[b] = upper]
        linked == StoreUnlessNull(shrunk, prev, "nextPhysical", left)
    IN  IF adjustment = 0 THEN a
        ELSE [linked EXCEPT !.block = [p \in DOMAIN @ \cup {left} |->
                                        IF p = left THEN padding ELSE @[p]]]

\* What b does not need, on its right; b is in use from here on.
SplitRight(a, b, request, right, indeterminate) ==
    LET m == a.block[b]
        rest == m.size - request.size
        next == m.nextPhysical
        remainder == NewBlock(m.offset + request.size, rest, b, next, indeterminate)
        shrunk == [a EXCEPT !.block[b] = [m EXCEPT !.size = request.size, !.nextPhysical = right]]
        linked == StoreUnlessNull(shrunk, next, "prevPhysical", right)
        split  == IF rest = 0 THEN a
                  ELSE [linked EXCEPT !.block = [p \in DOMAIN @ \cup {right} |->
                                            IF p = right THEN remainder ELSE @[p]]]
    IN  [split EXCEPT !.block[b].free = FALSE]

Insert(a, b) == IF Live(a, b) THEN InsertBlock(a, b) ELSE a

\* TLSFAllocator::Initialize.
InitialAllocator(indeterminate) ==
    InsertBlock([block |-> [p \in {1} |-> NewBlock(0, HeapSizeInBytes, Null, Null, indeterminate)],
                 list |-> [c \in Classes |-> Null],
                 refreed |-> FALSE, corrupt |-> FALSE], 1)

\* The names no pointer holds; "held" are those the allocator's clients hold.
Pointers(a) ==
    UNION {{a.block[p].prevPhysical, a.block[p].nextPhysical, a.block[p].prevFree,
            a.block[p].nextFree} : p \in DOMAIN a.block} \cup {a.list[c] : c \in Classes}
FreshNames(a, held) == Blocks \ (DOMAIN a.block \cup Pointers(a) \cup held)
Lowest(S) == CHOOSE p \in S : \A q \in S : p <= q

\* AllocateBlock on the head of list c, with names for what it splits off.
AllocateFrom(a, c, request, left, right, indeterminate) ==
    LET b == a.list[c]
        split == SplitRight(SplitLeft(RemoveHead(a, c), b, request, left, indeterminate),
                            b, request, right, indeterminate)
    IN  IF ~Live(a, b) THEN [allocator |-> Corrupted(a), block |-> Null]
        ELSE [allocator |-> Insert(Insert(split, left), right), block |-> b]

\* TLSFAllocator::CreateAllocation: the allocator afterwards and the block,
\* Null if no block can hold the request.
CreateAllocation(a, request, held, indeterminate) ==
    LET from == ListToTry(a, request)
        fresh == FreshNames(a, held)
    IN  IF from = {} THEN [allocator |-> a, block |-> Null]
        ELSE AllocateFrom(a, CHOOSE c \in from : TRUE, request, Lowest(fresh),
                          Lowest(fresh \ {Lowest(fresh)}), indeterminate)

\* Block b with the memory of its right neighbour r.
TakesIn(b, r) == [b EXCEPT !.size = @ + r.size, !.nextPhysical = r.nextPhysical]

\* FreeBlock's first half: the right neighbour is merged into b.
MergeRight(a, b) ==
    LET n == a.block[b].nextPhysical
        r == a.block[n]
        grown == [a EXCEPT !.block[b] = TakesIn(@, r)]
        moved == StoreUnlessNull(grown, r.nextPhysical, "prevPhysical", b)
        unlinked == StoreUnlessNull(moved, r.prevFree, "nextFree", r.nextFree)
    IN  StoreUnlessNull(unlinked, unlinked.block[n].nextFree, "prevFree", r.prevFree)

\* A mutant: the block after the merged one is not told.
MergeLeftHalf(a, b) ==
    LET p == a.block[b].prevPhysical
    IN  [a EXCEPT !.block[p].size = @ + a.block[b].size,
                  !.block[p].nextPhysical = a.block[b].nextPhysical]

\* FreeBlock's second half: b is merged into its left neighbour, which stays
\* in whatever list it is in.
MergeLeft(a, b) ==
    LET p == a.block[b].prevPhysical
        m == a.block[b]
        grown == [a EXCEPT !.block[p] = TakesIn(@, m)]
        moved == StoreUnlessNull(grown, m.nextPhysical, "prevPhysical", p)
        unlinked == StoreUnlessNull(moved, m.prevFree, "nextFree", m.nextFree)
    IN  StoreUnlessNull(unlinked, unlinked.block[b].nextFree, "prevFree", m.prevFree)

Erase(a, p) == [a EXCEPT !.block = [q \in DOMAIN @ \ {p} |-> @[q]]]
Forget(a, p) == IF a.corrupt THEN a ELSE Erase(RemoveMergedBlock(a, p), p)

IsFree(a, p) == p # Null /\ a.block[p].free

\* FreeBlock: b and those of its neighbours that are free become one block.
Merged(a, b) ==
    LET right == IF IsFree(a, a.block[b].nextPhysical) THEN MergeRight(a, b) ELSE a
    IN  IF IsFree(a, a.block[b].prevPhysical) THEN MergeLeft(right, b) ELSE right
Freed(a, merged, b) ==
    LET free == [merged EXCEPT !.block[b].free = TRUE]
    IN  [free EXCEPT !.refreed = @ \/ a.block[b].free]

\* What was merged into its left neighbour is deleted, else it is put in a list.
Settle(a, b, left) ==
    IF a.corrupt THEN a ELSE IF left THEN Forget(a, b) ELSE InsertBlock(a, b)

\* TLSFAllocator::DeleteAllocation.
DeleteAllocation(a, b) ==
    LET next  == a.block[b].nextPhysical
        prev  == a.block[b].prevPhysical
        freed == Freed(a, Merged(a, b), b)
    IN  IF ~({b, next, prev} \ {Null} \subseteq DOMAIN a.block) THEN Corrupted(a)
        ELSE Settle(IF IsFree(a, next) THEN Forget(freed, next) ELSE freed, b, IsFree(a, prev))
=============================================================================
