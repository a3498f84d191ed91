---------------------------- MODULE ResidencyProofs ----------------------------
(***************************************************************************)
(* Proof that Residency keeps what the frames use resident (ResidencyIsKept). *)
(*                                                                         *)
(* A usage mask is 0 until its resource is first used, and odd from then on, *)
(* so that an object is needed as soon as the mask of something in it is not *)
(* 0.  While a pass runs only the builder changes what an object contains,   *)
(* and what it places has never been used.  Thus what the pass may evict     *)
(* remains free of use, and what is needed remains in its list until it is   *)
(* resident.                                                                *)
(***************************************************************************)
EXTENDS Residency, TLAPS

\* Something was placed in the object, or the committed resource, and used.
Needed(o) == \E r \in Contents(o) : mUsageTracker[r].mask # 0

Passes ==
    [pc : {"idle", "gather", "makeResident", "budget", "free", "done", "throw"},
     todo : SUBSET Objects, ok : BOOLEAN, method : {"none", "evict", "delete"},
     cached : BOOLEAN, cache : SUBSET Objects, chosen : SUBSET Objects,
     estimate : {pass.estimate}, target : {pass.target}]
Builders ==
    [pc : {"idle", "look", "place", "initialize"}, resource : Placed \cup {NoHeap},
     cursor : Nat, heap : Heaps \cup {NoHeap}]
Types ==
    /\ mFrame \in Nat \ {0}
    /\ mUsageTracker \in [Resources -> [lastUse : Nat, mask : Nat]]
    /\ mPageableObjArr \subseteq Objects
    /\ mIsResident \in [Objects -> BOOLEAN]
    /\ assigned \in [Heaps -> SUBSET Placed]
    /\ mHeaps \in Seq(Heaps)
    /\ pass \in Passes
    /\ builder \in Builders

\* The usage trackers.
UseIsMarked ==
    \A r \in Resources :
        /\ mUsageTracker[r].lastUse <= mFrame
        /\ mUsageTracker[r].mask # 0 => mUsageTracker[r].mask % 2 = 1
        /\ mUsageTracker[r].lastUse = mFrame => mUsageTracker[r].mask # 0

\* A resource that is placed nowhere has not been used.
UnplacedIsUnused ==
    \A r \in Placed : (\A h \in Heaps : r \notin assigned[h]) =>
        mUsageTracker[r].mask = 0 /\ mUsageTracker[r].lastUse # mFrame

\* The heaps of the pool, and whatever contains a resource, are registered.
Registered ==
    /\ Committed \cup PoolHeaps \subseteq mPageableObjArr
    /\ \A h \in Heaps : assigned[h] # {} => h \in mPageableObjArr

\* The builder's resource is placed nowhere yet; a heap it constructs is empty.
Building ==
    /\ builder.pc # "idle" =>
           builder.resource \in Placed /\ \A h \in Heaps : builder.resource \notin assigned[h]
    /\ builder.pc \in {"place", "initialize"} =>
           builder.heap \in Heaps \cap mPageableObjArr
    /\ builder.pc = "look" => builder.cursor >= 1
    /\ builder.pc = "initialize" =>
           assigned[builder.heap] = {} /\ builder.heap \notin PoolHeaps

\* What the pass may evict is not needed.
Evictable ==
    /\ pass.method # "evict" => pass.chosen = {}
    /\ pass.method = "evict" => \A o \in pass.cache \cup pass.chosen : ~Needed(o)
    /\ ~pass.cached => pass.cache \cup pass.chosen = {}
    /\ pass.pc \in {"idle", "gather"} => ~pass.cached

\* What is needed is resident, or on the pass's list.
NeededIsListed ==
    /\ pass.pc \in {"makeResident", "budget", "free", "done"} =>
           \A o \in Objects : Needed(o) =>
               mIsResident[o] \/ (o \in pass.todo /\ (pass.ok => pass.pc = "makeResident"))
    /\ pass.pc = "done" => pass.ok

Safe == UseIsMarked /\ UnplacedIsUnused /\ Registered /\ Building /\ Evictable /\ NeededIsListed

\* Where an object was used that is gone, nothing is promised.
IInv == ~undefined => Types /\ Safe
-----------------------------------------------------------------------------
(* The usage masks.                                                         *)

\* An odd number is no multiple of an even one.
LEMMA EvenMultiples ==
    ASSUME NEW n \in Nat, NEW k \in Nat, k # 0, k % 2 = 0, n % k = 0
    PROVE  n % 2 = 0
<1> DEFINE q == n \div k
           p == k \div 2
<1>1. n = k * q /\ q \in Nat
  OBVIOUS
<1>2. k = 2 * p /\ p \in Nat
  OBVIOUS
<1> HIDE DEF p, q
<1>3. n = (2 * p) * q
  BY <1>1, <1>2
<1>4. p * q \in Nat
  BY <1>1, <1>2
<1>5. n = 2 * (p * q)
  BY <1>1, <1>2, <1>3
<1> QED  BY <1>4, <1>5

\* What IsResourceSafeToEvict accepts was never used: shifting keeps the mask odd.
LEMMA OnlyUnusedIsSafe ==
    ASSUME Types, UseIsMarked, NEW r \in Resources
    PROVE  IsResourceSafeToEvict(r) => mUsageTracker[r].mask = 0
<1>1. 2^MAX_FRAMES_IN_FLIGHT \in Nat \ {0} /\ 2^MAX_FRAMES_IN_FLIGHT % 2 = 0
  <2>1. MAX_FRAMES_IN_FLIGHT \in 0 .. MaskBits /\ MAX_FRAMES_IN_FLIGHT # 0
    BY ResidencyAssumption
  <2> QED  BY <2>1, PowersOfTwo
<1>2. mUsageTracker[r].mask \in Nat /\ (mUsageTracker[r].mask # 0 => mUsageTracker[r].mask % 2 = 1)
  BY DEF Types, UseIsMarked
<1> QED  BY <1>1, <1>2, EvenMultiples DEF IsResourceSafeToEvict

LEMMA NeededNeedsResidency ==
    ASSUME Types, UseIsMarked, NEW o \in Objects
    PROVE  Contents(o) \subseteq Resources /\ (Needed(o) => NeedsResidency(o))
<1>1. Contents(o) \subseteq Resources
  BY DEF Contents, Types, Objects, Resources
<1> QED  BY <1>1, OnlyUnusedIsSafe DEF Needed, NeedsResidency

\* A use sets the lowest bit of the mask, whatever it was.
LEMMA MarkingIsMarked ==
    ASSUME Types, UseIsMarked, NEW r \in Resources
    PROVE  LET t == MarkAsUsedForCurrentFrame(mUsageTracker[r])
           IN  /\ t \in [lastUse : Nat, mask : Nat]
               /\ t.lastUse = mFrame /\ t.mask # 0 /\ t.mask % 2 = 1
<1> DEFINE t == mUsageTracker[r]
           shifted == (t.mask * 2^((mFrame - t.lastUse) % MaskBits)) % 2^MaskBits
<1>1. t \in [lastUse : Nat, mask : Nat] /\ mFrame \in Nat
  BY DEF Types
<1>2. CASE t.lastUse = mFrame
  BY <1>1, <1>2 DEF MarkAsUsedForCurrentFrame, UseIsMarked
<1>3. CASE t.lastUse # mFrame
  <2>1. MaskBits \in Nat \ {0}
    BY ResidencyAssumption
  <2>2. (mFrame - t.lastUse) % MaskBits \in 0 .. MaskBits
    BY <1>1, <2>1
  <2>3. 2^((mFrame - t.lastUse) % MaskBits) \in Nat
    BY <2>2, PowersOfTwo
  <2>4. 2^MaskBits \in Nat \ {0}
    BY <2>1, PowersOfTwo
  <2>5. t.mask * 2^((mFrame - t.lastUse) % MaskBits) \in Nat
    BY <1>1, <2>3
  <2>6. shifted \in Nat
    BY <2>4, <2>5
  <2>7. \A n \in Nat : n % 2 = 1 => n # 0
    OBVIOUS
  <2>8. \A n \in Nat : n % 2 # 1 => (n + 1) % 2 = 1
    OBVIOUS
  <2>9. PICK n \in Nat : n = shifted
    BY <2>6
  <2>10. MarkAsUsedForCurrentFrame(t) = [lastUse |-> mFrame, mask |-> IF n % 2 = 1 THEN n ELSE n + 1]
    BY <1>3, <2>9 DEF MarkAsUsedForCurrentFrame
  <2> HIDE DEF shifted
  <2> QED  BY <1>1, <2>7, <2>8, <2>10
<1> QED  BY <1>2, <1>3
\* What a needed object contains is registered, so the pass looks at it.
LEMMA NeededIsRegistered ==
    ASSUME Types, Registered, NEW o \in Objects, Needed(o)
    PROVE  o \in mPageableObjArr
BY DEF Types, Registered, Needed, Contents, Objects

\* A step that leaves the contents and the trackers alone changes no need.
LEMMA NeedIsUnchanged ==
    ASSUME UNCHANGED <<assigned, mUsageTracker>>
    PROVE  \A o : Needed(o)' <=> Needed(o)
BY DEF Needed, Contents

LEMMA InitialState == Init => IInv
<1> SUFFICES ASSUME Init PROVE IInv
  OBVIOUS
<1>1. Types
  BY DEF Init, Types, Passes, Idle, NotBuilding, Builders, Resources, Objects
<1>2. PoolHeaps = {}
  BY DEF Init, PoolHeaps
<1>3. UseIsMarked /\ UnplacedIsUnused /\ Registered
  BY <1>2 DEF Init, UseIsMarked, UnplacedIsUnused, Registered, Resources
<1>4. Building /\ Evictable /\ NeededIsListed
  BY DEF Init, Building, Evictable, NeededIsListed, Idle, NotBuilding
<1> QED  BY <1>1, <1>3, <1>4 DEF IInv, Safe
-----------------------------------------------------------------------------
(* Each step preserves the invariant.                                       *)

LEMMA BeginPassKeeps ==
    ASSUME Types, Safe, NEW used \in SUBSET Exist, BeginPass(used)
    PROVE  Types' /\ Safe'
<1>1. Exist \subseteq Resources /\ \A r \in Placed : r \in Exist => \E h \in Heaps : r \in assigned[h]
  BY ResidencyAssumption DEF Exist, Types, Resources
<1>2. \A r \in Resources :
          /\ r \in used => /\ mUsageTracker'[r] \in [lastUse : Nat, mask : Nat]
                           /\ mUsageTracker'[r].lastUse = mFrame
                           /\ mUsageTracker'[r].mask # 0 /\ mUsageTracker'[r].mask % 2 = 1
          /\ r \notin used => mUsageTracker'[r] = mUsageTracker[r]
  BY MarkingIsMarked DEF BeginPass, Safe
<1>3. pass' = [Idle EXCEPT !.pc = "gather"]
  BY DEF BeginPass
<1>4. mUsageTracker' \in [Resources -> [lastUse : Nat, mask : Nat]]
  <2>1. \A r \in Resources : mUsageTracker'[r] \in [lastUse : Nat, mask : Nat]
    BY <1>2 DEF Types
  <2> QED  BY <2>1 DEF BeginPass
<1>5. Types'
  BY <1>3, <1>4 DEF Types, Passes, BeginPass, Idle
<1>6. UseIsMarked'
  BY <1>2 DEF UseIsMarked, Safe, Types, BeginPass
<1>7. UnplacedIsUnused'
  BY <1>1, <1>2 DEF UnplacedIsUnused, Safe, BeginPass, Resources
<1>8. Registered' /\ Building'
  BY DEF Registered, Building, Safe, BeginPass, PoolHeaps
<1>9. Evictable' /\ NeededIsListed'
  BY <1>3 DEF Evictable, NeededIsListed, Idle
<1> QED  BY <1>5, <1>6, <1>7, <1>8, <1>9 DEF Safe

\* A step of the pass itself changes only what is resident, and its own state.
PassOnly == UNCHANGED <<mFrame, mUsageTracker, mPageableObjArr, assigned, mHeaps, builder>>

LEMMA PassKeepsTheRest ==
    ASSUME Types, Safe, PassOnly
    PROVE  /\ UseIsMarked' /\ UnplacedIsUnused' /\ Registered' /\ Building'
           /\ \A o \in Objects : Needed(o)' <=> Needed(o)
           /\ pass' \in Passes' /\ mIsResident' \in [Objects -> BOOLEAN] => Types'
<1>1. UseIsMarked' /\ UnplacedIsUnused' /\ Building'
  BY DEF PassOnly, Safe, UseIsMarked, UnplacedIsUnused, Building, PoolHeaps
<1>2. Registered'
  BY DEF PassOnly, Safe, Registered, PoolHeaps
<1>3. \A o \in Objects : Needed(o)' <=> Needed(o)
  BY NeedIsUnchanged DEF PassOnly
<1>4. pass' \in Passes' /\ mIsResident' \in [Objects -> BOOLEAN] => Types'
  BY DEF PassOnly, Types
<1> QED  BY <1>1, <1>2, <1>3, <1>4

LEMMA PassStepKeeps ==
    ASSUME Types, Safe, PassStep
    PROVE  Types' /\ Safe'
<1>1. PassOnly /\ ~undefined
  BY DEF PassStep, PassOnly, GetEvictedObjectsNeedingResidency, TryMakeResident, QueryBudget,
         CacheObjects, FallBack, ChooseToEvict, EvictObjects, DeleteD3D12PageableObject
<1>2. /\ UseIsMarked' /\ UnplacedIsUnused' /\ Registered' /\ Building'
      /\ \A o \in Objects : Needed(o)' <=> Needed(o)
      /\ pass' \in Passes' /\ mIsResident' \in [Objects -> BOOLEAN] => Types'
  BY <1>1, PassKeepsTheRest
<1>3. SUFFICES pass' \in Passes' /\ mIsResident' \in [Objects -> BOOLEAN] /\ Evictable' /\ NeededIsListed'
  BY <1>2 DEF Safe
<1>4. /\ pass \in Passes /\ mIsResident \in [Objects -> BOOLEAN] /\ mPageableObjArr \subseteq Objects
      /\ Evictable /\ NeededIsListed
  BY DEF Types, Safe
<1>5. CASE GetEvictedObjectsNeedingResidency
  <2>1. \A o \in Objects : Needed(o) => o \in mPageableObjArr /\ NeedsResidency(o)
    BY NeededIsRegistered, NeededNeedsResidency DEF Safe
  <2>2. pass' \in Passes' /\ mIsResident' \in [Objects -> BOOLEAN]
    BY <1>4, <1>5 DEF GetEvictedObjectsNeedingResidency, Passes
  <2>3. Evictable'
    BY <1>2, <1>4, <1>5 DEF GetEvictedObjectsNeedingResidency, Passes, Evictable
  <2>4. NeededIsListed'
    BY <1>2, <1>4, <1>5, <2>1 DEF GetEvictedObjectsNeedingResidency, Passes, NeededIsListed
  <2> QED  BY <2>2, <2>3, <2>4
<1>6. CASE TryMakeResident
  <2> DEFINE fits == CurrentUsage + TotalSize(pass.todo) <= Capacity
  <2>1. PICK f \in BOOLEAN :
           /\ mIsResident' = [o \in Objects |-> mIsResident[o] \/ (o \in pass.todo /\ f)]
           /\ pass' = [pass EXCEPT !.pc = "budget", !.ok = pass.todo = {} \/ f,
                                   !.todo = IF f THEN {} ELSE @]
    <3>1. /\ mIsResident' = [o \in Objects |-> mIsResident[o] \/ (o \in pass.todo /\ fits)]
          /\ pass' = [pass EXCEPT !.pc = "budget", !.ok = pass.todo = {} \/ fits,
                                  !.todo = IF fits THEN {} ELSE @]
      BY <1>6 DEF TryMakeResident
    <3>2. fits \in BOOLEAN
      OBVIOUS
    <3> HIDE DEF fits
    <3> QED  BY <3>1, <3>2
  <2>2. pass.pc = "makeResident"
    BY <1>6 DEF TryMakeResident
  <2>3. pass' \in Passes' /\ mIsResident' \in [Objects -> BOOLEAN]
    BY <1>4, <2>1 DEF Passes
  <2>4. Evictable'
    BY <1>2, <1>4, <2>1 DEF Passes, Evictable
  <2>5. NeededIsListed'
    BY <1>2, <1>4, <2>1, <2>2 DEF Passes, NeededIsListed
  <2> QED  BY <2>3, <2>4, <2>5
<1>7. CASE \E budget \in Budgets : QueryBudget(budget)
  <2>1. pass' \in Passes' /\ mIsResident' \in [Objects -> BOOLEAN]
    BY <1>4, <1>7, ZenonT(60) DEF QueryBudget, Passes
  <2>2. Evictable'
    BY <1>2, <1>4, <1>7, ZenonT(60) DEF QueryBudget, Passes, Evictable
  <2>3. NeededIsListed'
    BY <1>2, <1>4, <1>7 DEF QueryBudget, Passes, NeededIsListed
  <2> QED  BY <2>1, <2>2, <2>3
<1>8. CASE CacheObjects
  <2>1. \A o \in Objects : Needed(o) => NeedsResidency(o)
    BY NeededNeedsResidency DEF Safe
  <2>2. pass' \in Passes' /\ mIsResident' \in [Objects -> BOOLEAN]
    BY <1>4, <1>8 DEF CacheObjects, Passes
  <2>3. Evictable'
    BY <1>2, <1>4, <1>8, <2>1 DEF CacheObjects, Passes, Evictable
  <2>4. NeededIsListed'
    BY <1>2, <1>4, <1>8 DEF CacheObjects, Passes, NeededIsListed
  <2> QED  BY <2>2, <2>3, <2>4
<1>9. CASE FallBack
  <2>1. pass' \in Passes' /\ mIsResident' \in [Objects -> BOOLEAN]
    BY <1>4, <1>9 DEF FallBack, Passes
  <2>2. Evictable'
    BY <1>2, <1>4, <1>9 DEF FallBack, Passes, Evictable
  <2>3. NeededIsListed'
    BY <1>2, <1>4, <1>9 DEF FallBack, Passes, NeededIsListed
  <2> QED  BY <2>1, <2>2, <2>3
<1>10. CASE ChooseToEvict
  <2>1. PICK o \in pass.cache :
           pass' = [pass EXCEPT !.cache = @ \ {o}, !.chosen = @ \cup {o}, !.estimate = Estimate(o)]
    BY <1>10 DEF ChooseToEvict
  <2>2. pass.pc = "free" /\ pass.cached /\ pass.method = "evict" /\ mIsResident' = mIsResident
    BY <1>10 DEF ChooseToEvict
  <2>3. pass' \in Passes' /\ mIsResident' \in [Objects -> BOOLEAN]
    BY <1>4, <2>1, <2>2 DEF Passes
  <2>4. Evictable'
    BY <1>2, <1>4, <2>1, <2>2 DEF Passes, Evictable
  <2>5. NeededIsListed'
    BY <1>2, <1>4, <2>1, <2>2 DEF Passes, NeededIsListed
  <2> QED  BY <2>3, <2>4, <2>5
<1>11. CASE EvictObjects
  <2>1. \A o \in pass.chosen : ~Needed(o)
    BY <1>4, <1>11 DEF EvictObjects, Evictable
  <2>2. pass' \in Passes' /\ mIsResident' \in [Objects -> BOOLEAN]
    BY <1>4, <1>11 DEF EvictObjects, Succeeded, Passes
  <2>3. Evictable'
    BY <1>2, <1>4, <1>11 DEF EvictObjects, Succeeded, Passes, Evictable
  <2>4. NeededIsListed'
    BY <1>2, <1>4, <1>11, <2>1 DEF EvictObjects, Succeeded, Passes, NeededIsListed
  <2> QED  BY <2>2, <2>3, <2>4
<1>12. CASE DeleteD3D12PageableObject
  <2>1. PICK o \in pass.cache :
           pass' = LET next == [pass EXCEPT !.cache = @ \ {o}, !.estimate = Estimate(o)]
                   IN  IF next.estimate > pass.target /\ next.cache # {} THEN next
                       ELSE [Succeeded EXCEPT !.cache = @ \ {o}]
    BY <1>12 DEF DeleteD3D12PageableObject
  <2>2. pass.pc = "free" /\ pass.method = "delete" /\ mIsResident' = mIsResident
    BY <1>12 DEF DeleteD3D12PageableObject
  <2>3. pass' \in Passes' /\ mIsResident' \in [Objects -> BOOLEAN]
    BY <1>4, <2>1, <2>2 DEF Succeeded, Passes
  <2>4. Evictable'
    BY <1>2, <1>4, <2>1, <2>2 DEF Succeeded, Passes, Evictable
  <2>5. NeededIsListed'
    BY <1>2, <1>4, <2>1, <2>2 DEF Succeeded, Passes, NeededIsListed
  <2> QED  BY <2>3, <2>4, <2>5
<1> QED  BY <1>5, <1>6, <1>7, <1>8, <1>9, <1>10, <1>11, <1>12 DEF PassStep

LEMMA EndPassKeeps ==
    ASSUME Types, Safe, EndPass
    PROVE  Types' /\ Safe'
<1>1. mFrame \in Nat \ {0} /\ mFrame' = mFrame + 1 /\ pass' = Idle
  BY DEF EndPass, Types
<1>2. Types'
  BY <1>1 DEF EndPass, Types, Passes, Idle
<1>3. \A r \in Resources : mUsageTracker[r].lastUse \in Nat /\ mUsageTracker[r].lastUse <= mFrame
  BY DEF Types, Safe, UseIsMarked
<1>4. UseIsMarked'
  BY <1>1, <1>3 DEF EndPass, Safe, UseIsMarked
<1>5. UnplacedIsUnused'
  BY <1>1, <1>3 DEF EndPass, Safe, UnplacedIsUnused, Resources
<1>6. Registered' /\ Building'
  BY DEF EndPass, Safe, Registered, Building, PoolHeaps
<1>7. Evictable' /\ NeededIsListed'
  BY <1>1 DEF Evictable, NeededIsListed, Idle
<1> QED  BY <1>2, <1>4, <1>5, <1>6, <1>7 DEF Safe

LEMMA RevokeKeeps ==
    ASSUME Types, Safe, NEW r \in Placed, RevokeGPUResourceAssignment(r)
    PROVE  Types' /\ Safe'
<1>1. PICK h \in Heaps : r \in assigned[h] /\ assigned' = [assigned EXCEPT ![h] = @ \ {r}]
  BY DEF RevokeGPUResourceAssignment
<1>2. \A k \in Heaps : assigned'[k] \subseteq assigned[k]
  BY <1>1 DEF Types
<1>3. \A s \in Resources : mUsageTracker'[s] = IF s = r THEN [lastUse |-> mFrame - 1, mask |-> 0]
                                               ELSE mUsageTracker[s]
  BY DEF RevokeGPUResourceAssignment, Types
<1>4. mFrame \in Nat \ {0} /\ mFrame' = mFrame
  BY DEF Types, RevokeGPUResourceAssignment
<1>5. Types'
  BY <1>1, <1>4 DEF RevokeGPUResourceAssignment, Types, Passes, Resources
<1>6. UseIsMarked'
  BY <1>3, <1>4 DEF Safe, UseIsMarked
<1>7. UnplacedIsUnused'
  <2> SUFFICES ASSUME NEW s \in Placed, s # r, \A k \in Heaps : s \notin assigned'[k]
               PROVE  mUsageTracker[s].mask = 0 /\ mUsageTracker[s].lastUse # mFrame
    BY <1>3, <1>4 DEF UnplacedIsUnused, Resources
  <2>1. \A k \in Heaps : s \notin assigned[k]
    BY <1>1 DEF Types
  <2> QED  BY <2>1 DEF Safe, UnplacedIsUnused
<1>8. Registered'
  BY <1>2 DEF RevokeGPUResourceAssignment, Safe, Registered, PoolHeaps
<1>9. Building'
  BY <1>2 DEF RevokeGPUResourceAssignment, Safe, Building, PoolHeaps
<1>10. Evictable' /\ NeededIsListed'
  <2>1. pass.pc = "idle" /\ pass' = pass
    BY DEF RevokeGPUResourceAssignment
  <2>2. pass.cache \cup pass.chosen = {}
    BY <2>1 DEF Safe, Evictable
  <2> QED  BY <2>1, <2>2 DEF Safe, Evictable, NeededIsListed
<1> QED  BY <1>5, <1>6, <1>7, <1>8, <1>9, <1>10 DEF Safe
-----------------------------------------------------------------------------
(* The builder.                                                             *)

\* What a step of the builder has to show for the pass: nothing becomes
\* needed, and what ceases to be resident is not needed.
LEMMA BuilderLeavesThePass ==
    ASSUME Types, Safe, UNCHANGED pass,
           \A o \in Objects : Needed(o)' => Needed(o),
           \A o \in Objects : Needed(o) /\ mIsResident[o] => mIsResident'[o]
    PROVE  Evictable' /\ NeededIsListed'
<1>1. pass \in Passes
  BY DEF Types
<1>2. Evictable'
  BY <1>1 DEF Safe, Evictable, Passes
<1>3. NeededIsListed'
  BY DEF Safe, NeededIsListed
<1> QED  BY <1>2, <1>3

LEMMA CheckForDeletedHeapsKeeps ==
    ASSUME Types, Safe, NEW r \in Placed, CheckForDeletedHeaps(r), ~undefined'
    PROVE  Types' /\ Safe'
<1>1. PICK n \in 0 .. Len(mHeaps) : \E kept \in [1 .. n -> DOMAIN mHeaps] :
          /\ {kept[i] : i \in 1 .. n} = {k \in DOMAIN mHeaps : mHeaps[k] \in mHeap}
          /\ mHeaps' = [i \in 1 .. n |-> mHeaps[kept[i]]]
  BY DEF CheckForDeletedHeaps
<1>2. mHeaps \in Seq(Heaps) /\ n \in Nat
  BY <1>1 DEF Types
<1>3. mHeaps' \in Seq(Heaps) /\ DOMAIN mHeaps' = 1 .. n
  BY <1>1, <1>2
<1>4. PoolHeaps' \subseteq PoolHeaps \cap mHeap
  BY <1>1, <1>3 DEF PoolHeaps
<1>5. \A h \in PoolHeaps \ mHeap : h \in Heaps /\ assigned[h] = {}
  <2>1. PoolHeaps \subseteq Heaps
    BY <1>2 DEF PoolHeaps
  <2> QED  BY <2>1 DEF CheckForDeletedHeaps
<1>6. builder' = [NotBuilding EXCEPT !.pc = "look", !.resource = r, !.cursor = 1]
  BY DEF CheckForDeletedHeaps
<1>7. Types'
  <2>1. builder' \in Builders
    BY <1>6 DEF NotBuilding, Builders
  <2> QED  BY <1>3, <2>1 DEF CheckForDeletedHeaps, Types, Passes
<1>8. UseIsMarked' /\ UnplacedIsUnused'
  BY DEF CheckForDeletedHeaps, Safe, UseIsMarked, UnplacedIsUnused
<1>9. Registered'
  BY <1>4, <1>5, ResidencyAssumption DEF CheckForDeletedHeaps, Safe, Registered
<1>10. Building'
  BY <1>6 DEF CheckForDeletedHeaps, Building, NotBuilding
<1>11. Evictable' /\ NeededIsListed'
  BY BuilderLeavesThePass, NeedIsUnchanged DEF CheckForDeletedHeaps
<1> QED  BY <1>7, <1>8, <1>9, <1>10, <1>11 DEF Safe

LEMMA CheckResidencyKeeps ==
    ASSUME Types, Safe, CheckResidency
    PROVE  Types' /\ Safe'
<1> DEFINE h == mHeaps[builder.cursor]
<1>1. h \in PoolHeaps /\ h \in Heaps
  BY DEF CheckResidency, Types, Builders, Safe, Building, PoolHeaps
<1>2. Types'
  <2>1. \/ builder' = [builder EXCEPT !.pc = "place", !.heap = h]
        \/ builder' = [builder EXCEPT !.cursor = @ + 1]
    BY DEF CheckResidency
  <2>2. builder' \in Builders
    <3>1. builder \in Builders
      BY DEF Types
    <3>2. [builder EXCEPT !.pc = "place", !.heap = h] \in Builders
      BY <1>1, <3>1 DEF Builders
    <3>3. [builder EXCEPT !.cursor = @ + 1] \in Builders
      BY <3>1 DEF Builders
    <3> QED  BY <2>1, <3>2, <3>3
  <2> QED  BY <2>2 DEF CheckResidency, Types, Passes
<1>3. UseIsMarked' /\ UnplacedIsUnused' /\ Registered'
  BY DEF CheckResidency, Safe, UseIsMarked, UnplacedIsUnused, Registered, PoolHeaps
<1>4. Building'
  BY <1>1 DEF CheckResidency, Safe, Types, Builders, Registered, Building
<1>5. Evictable' /\ NeededIsListed'
  BY BuilderLeavesThePass, NeedIsUnchanged DEF CheckResidency
<1> QED  BY <1>2, <1>3, <1>4, <1>5 DEF Safe

LEMMA PlaceResourceKeeps ==
    ASSUME Types, Safe, PlaceResource
    PROVE  Types' /\ Safe'
<1> DEFINE h == builder.heap
           r == builder.resource
<1>1. h \in Heaps \cap mPageableObjArr /\ r \in Placed /\ \A k \in Heaps : r \notin assigned[k]
  BY DEF PlaceResource, Safe, Building
<1>2. PICK fits \in BOOLEAN :
          /\ assigned' = [assigned EXCEPT ![h] = IF fits THEN @ \cup {r} ELSE @]
          /\ builder' = IF fits THEN NotBuilding
                        ELSE [builder EXCEPT !.pc = "look", !.cursor = @ + 1, !.heap = NoHeap]
  <2> DEFINE f == Cardinality(assigned[h]) < Room
  <2>1. f \in BOOLEAN
    OBVIOUS
  <2>2. /\ assigned' = [assigned EXCEPT ![h] = IF f THEN @ \cup {r} ELSE @]
        /\ builder' = IF f THEN NotBuilding
                      ELSE [builder EXCEPT !.pc = "look", !.cursor = @ + 1, !.heap = NoHeap]
    BY DEF PlaceResource
  <2> HIDE DEF f
  <2> QED  BY <2>1, <2>2
<1>3. \A k \in Heaps : assigned'[k] = IF k = h /\ fits THEN assigned[k] \cup {r} ELSE assigned[k]
  BY <1>1, <1>2 DEF Types
<1>4. mUsageTracker[r].mask = 0 /\ r \in Resources
  BY <1>1 DEF Safe, UnplacedIsUnused, Resources
<1>5. Types'
  <2>1. builder' \in Builders
    <3>1. builder \in Builders
      BY DEF Types
    <3>2. [builder EXCEPT !.pc = "look", !.cursor = @ + 1, !.heap = NoHeap] \in Builders
      <4>1. \A c \in Nat : [builder EXCEPT !.pc = "look", !.cursor = c, !.heap = NoHeap] \in Builders
        BY <3>1 DEF Builders
      <4>2. builder.cursor + 1 \in Nat
        BY <3>1 DEF Builders
      <4> QED  BY <4>1, <4>2
    <3>3. NotBuilding \in Builders
      BY DEF NotBuilding, Builders
    <3> QED  BY <1>2, <3>2, <3>3
  <2>2. assigned' \in [Heaps -> SUBSET Placed]
    BY <1>1, <1>2 DEF Types
  <2> QED  BY <2>1, <2>2 DEF PlaceResource, Types, Passes
<1>6. UseIsMarked' /\ UnplacedIsUnused'
  BY <1>3 DEF PlaceResource, Safe, UseIsMarked, UnplacedIsUnused
<1>7. Registered'
  BY <1>1, <1>3 DEF PlaceResource, Safe, Registered, PoolHeaps
<1>8. Building'
  BY <1>1, <1>2, <1>3 DEF PlaceResource, Types, Builders, Safe, NotBuilding, Building
<1>9. \A o \in Objects : Needed(o)' => Needed(o)
  BY <1>3, <1>4 DEF PlaceResource, Needed, Contents
<1>10. Evictable' /\ NeededIsListed'
  BY <1>9, BuilderLeavesThePass DEF PlaceResource
<1> QED  BY <1>5, <1>6, <1>7, <1>8, <1>10 DEF Safe

LEMMA ConstructHeapKeeps ==
    ASSUME Types, Safe, ConstructHeap
    PROVE  Types' /\ Safe'
<1>1. PICK h \in Heaps \ mPageableObjArr :
         /\ mPageableObjArr' = mPageableObjArr \cup {h}
         /\ mIsResident' = [mIsResident EXCEPT ![h] = TRUE]
         /\ assigned' = [assigned EXCEPT ![h] = {}]
         /\ builder' = [builder EXCEPT !.pc = "initialize", !.heap = h]
  BY DEF ConstructHeap
<1>2. assigned[h] = {} /\ h \notin PoolHeaps
  BY <1>1 DEF Safe, Registered
<1>3. assigned' = assigned
  BY <1>1, <1>2 DEF Types
<1>4. Types'
  BY <1>1, <1>3, ZenonT(60) DEF ConstructHeap, Types, Passes, Builders, Objects
<1>5. UseIsMarked' /\ UnplacedIsUnused' /\ Registered'
  BY <1>1, <1>3 DEF ConstructHeap, Safe, UseIsMarked, UnplacedIsUnused, Registered, PoolHeaps
<1>6. Building'
  BY <1>1, <1>2, <1>3 DEF ConstructHeap, Safe, Types, Builders, Building, PoolHeaps
<1>7. \A o \in Objects : mIsResident[o] => mIsResident'[o]
  BY <1>1 DEF Types
<1>8. Evictable' /\ NeededIsListed'
  BY <1>3, <1>7, BuilderLeavesThePass, NeedIsUnchanged DEF ConstructHeap
<1> QED  BY <1>4, <1>5, <1>6, <1>8 DEF Safe

LEMMA InitializeHeapKeeps ==
    ASSUME Types, Safe, InitializeHeap
    PROVE  Types' /\ Safe'
<1> DEFINE h == builder.heap
<1>1. /\ h \in Heaps \cap mPageableObjArr /\ assigned[h] = {} /\ h \notin PoolHeaps
      /\ h \in Objects /\ h \notin Committed
  BY ResidencyAssumption DEF InitializeHeap, Safe, Building, Objects
<1>2. ~Needed(h)
  BY <1>1 DEF Needed, Contents
<1>3. /\ UNCHANGED <<mFrame, mUsageTracker, assigned, pass, undefined>>
      /\ \/ \E resident \in BOOLEAN :
              /\ mHeaps' = Append(mHeaps, h)
              /\ mIsResident' = [mIsResident EXCEPT ![h] = resident]
              /\ builder' = IF resident THEN [builder EXCEPT !.pc = "place"] ELSE NotBuilding
              /\ UNCHANGED mPageableObjArr
         \/ /\ mPageableObjArr' = mPageableObjArr \ {h}
            /\ builder' = NotBuilding
            /\ UNCHANGED <<mHeaps, mIsResident>>
  BY DEF InitializeHeap
<1>4. UseIsMarked' /\ UnplacedIsUnused'
  BY <1>3 DEF Safe, UseIsMarked, UnplacedIsUnused
<1>5. \A o \in Objects : Needed(o) /\ mIsResident[o] => mIsResident'[o]
  BY <1>2, <1>3 DEF Types
<1>6. Evictable' /\ NeededIsListed'
  BY <1>3, <1>5, BuilderLeavesThePass, NeedIsUnchanged
<1>7. mHeaps \in Seq(Heaps)
  BY DEF Types
<1>8. CASE mHeaps' = Append(mHeaps, h) /\ mPageableObjArr' = mPageableObjArr
  <2>1. PICK resident \in BOOLEAN :
           /\ mIsResident' = [mIsResident EXCEPT ![h] = resident]
           /\ builder' = IF resident THEN [builder EXCEPT !.pc = "place"] ELSE NotBuilding
    BY <1>1, <1>3, <1>8
  <2>2. Types'
    <3>1. builder' \in Builders
      BY <2>1 DEF Types, NotBuilding, Builders
    <3>2. mIsResident' \in [Objects -> BOOLEAN]
      BY <2>1 DEF Types
    <3> QED  BY <1>1, <1>3, <1>8, <3>1, <3>2 DEF Types, Passes
  <2>3. PoolHeaps' = PoolHeaps \cup {h}
    BY <1>1, <1>7, <1>8 DEF PoolHeaps
  <2>4. Registered'
    BY <1>1, <1>3, <1>8, <2>3 DEF Safe, Registered
  <2>5. Building'
    BY <1>1, <1>3, <1>8, <2>1 DEF InitializeHeap, Safe, Types, Builders, Building, NotBuilding
  <2> QED  BY <1>4, <1>6, <2>2, <2>4, <2>5 DEF Safe
<1>9. CASE /\ mPageableObjArr' = mPageableObjArr \ {h} /\ builder' = NotBuilding
           /\ UNCHANGED <<mHeaps, mIsResident>>
  <2>1. Types'
    BY <1>3, <1>9 DEF Types, Passes, NotBuilding, Builders
  <2>2. Registered'
    BY <1>1, <1>3, <1>9 DEF Safe, Registered, PoolHeaps
  <2>3. Building'
    BY <1>9 DEF Building, NotBuilding
  <2> QED  BY <1>4, <1>6, <2>1, <2>2, <2>3 DEF Safe
<1> QED  BY <1>3, <1>8, <1>9
-----------------------------------------------------------------------------
LEMMA Inductive == IInv /\ [Next]_vars => IInv'
<1> SUFFICES ASSUME IInv, [Next]_vars PROVE IInv'
  OBVIOUS
<1>1. CASE UNCHANGED vars
  <2>1. Types' = Types
    BY <1>1 DEF vars, Types, Passes, Builders
  <2>2. Safe' = Safe
    BY <1>1 DEF vars, Safe, UseIsMarked, UnplacedIsUnused, Registered, Building, Evictable,
                NeededIsListed, PoolHeaps, Needed, Contents
  <2> QED  BY <1>1, <2>1, <2>2 DEF vars, IInv, Safe
<1>2. CASE Next /\ ~undefined'
  <2>1. Types /\ Safe
    BY <1>2 DEF IInv, Safe, Next, BeginPass, PassStep, EndPass, BuilderStep, CheckForDeletedHeaps,
                RevokeGPUResourceAssignment, GetEvictedObjectsNeedingResidency, TryMakeResident,
                QueryBudget, CacheObjects, FallBack, ChooseToEvict, EvictObjects,
                DeleteD3D12PageableObject, CheckResidency, PlaceResource, ConstructHeap, InitializeHeap
  <2>2. Types' /\ Safe'
    BY <1>2, <2>1, BeginPassKeeps, PassStepKeeps, EndPassKeeps, CheckForDeletedHeapsKeeps,
       RevokeKeeps, CheckResidencyKeeps, PlaceResourceKeeps, ConstructHeapKeeps, InitializeHeapKeeps
       DEF Next, BuilderStep
  <2> QED  BY <2>2 DEF IInv, Safe
<1> QED  BY <1>1, <1>2 DEF IInv

\* The invariant holds in every state of every behaviour.
THEOREM InvariantHolds == Spec => []IInv
<1>1. Init => IInv
  BY InitialState
<1>2. IInv /\ [Next]_vars => IInv'
  BY Inductive
<1> QED  BY <1>1, <1>2, PTL DEF Spec

\* A pass that returns leaves every object resident that the frame uses
\* (GPUResidencyManager::UpdateResourceResidency).
THEOREM UsedIsResidentAfterPass == Spec => []UsedIsResident
<1>1. IInv => UsedIsResident
  <2> SUFFICES ASSUME IInv, pass.pc = "done", ~undefined, NEW o \in Objects,
                      NEW r \in Contents(o) \cap Exist, mUsageTracker[r].lastUse = mFrame
               PROVE  mIsResident[o]
    BY DEF UsedIsResident
  <2>1. Types /\ Safe
    BY DEF IInv
  <2>2. r \in Resources
    BY <2>1 DEF Contents, Types, Objects, Resources
  <2>3. Needed(o)
    BY <2>1, <2>2 DEF Safe, UseIsMarked, Needed
  <2> QED  BY <2>1, <2>3 DEF Safe, NeededIsListed
<1> QED  BY <1>1, InvariantHolds, PTL

\* No step makes an object non-resident whose contents a frame in flight uses.
LEMMA EvictionIsSafe ==
    ASSUME IInv, Next, NEW o \in Objects, mIsResident[o], ~mIsResident'[o], NEW r \in Contents(o)
    PROVE  ~InFlight(r)
<1>1. ~undefined /\ mIsResident' # mIsResident
  BY DEF Next, BeginPass, PassStep, EndPass, BuilderStep, CheckForDeletedHeaps,
         RevokeGPUResourceAssignment, GetEvictedObjectsNeedingResidency, TryMakeResident,
         QueryBudget, CacheObjects, FallBack, ChooseToEvict, EvictObjects,
         DeleteD3D12PageableObject, CheckResidency, PlaceResource, ConstructHeap, InitializeHeap
<1>2. Types /\ Safe
  BY <1>1 DEF IInv
<1>3. SUFFICES ~Needed(o)
  BY DEF Needed, InFlight
<1>4. CASE TryMakeResident
  BY <1>4 DEF TryMakeResident
<1>5. CASE EvictObjects
  BY <1>2, <1>5 DEF EvictObjects, Safe, Evictable
<1>6. CASE ConstructHeap
  BY <1>2, <1>6 DEF ConstructHeap, Types
<1>7. CASE InitializeHeap
  <2>1. o = builder.heap /\ assigned[o] = {} /\ o \in Heaps
    BY <1>2, <1>7 DEF InitializeHeap, Types, Safe, Building
  <2> QED  BY <2>1 DEF Needed, Contents
<1> QED
  BY <1>1, <1>4, <1>5, <1>6, <1>7
     DEF Next, BeginPass, PassStep, EndPass, BuilderStep, CheckForDeletedHeaps,
         RevokeGPUResourceAssignment, GetEvictedObjectsNeedingResidency, QueryBudget,
         CacheObjects, FallBack, ChooseToEvict, DeleteD3D12PageableObject, CheckResidency,
         PlaceResource

THEOREM NoneInFlightIsEvicted == Spec => NeverEvictInFlight
<1>1. IInv /\ [Next]_vars =>
          [\A o \in Objects : (mIsResident[o] /\ ~mIsResident'[o])
                                 => \A r \in Contents(o) : ~InFlight(r)]_vars
  BY EvictionIsSafe
<1> QED  BY <1>1, InvariantHolds, PTL DEF Spec, NeverEvictInFlight

\* Both together: what a frame uses is resident from its pass until its end.
THEOREM ResidencyTheorem == Spec => ResidencyIsKept
BY UsedIsResidentAfterPass, NoneInFlightIsEvicted, PTL DEF ResidencyIsKept
=============================================================================
