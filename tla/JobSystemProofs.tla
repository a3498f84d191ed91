---------------------------- MODULE JobSystemProofs ----------------------------
(***************************************************************************)
(* Proof that groups of jobs are joined (GroupsAreJoined), for any number of *)
(* threads, jobs and queue slots.                                           *)
(*                                                                         *)
(* A job is in one place: waiting to be dispatched, in the queue, or on one *)
(* stack, and counts as executed from the moment its counter is decremented. *)
(* So the counter of a group that is waited for is the number of its jobs   *)
(* that are not executed, and a callback leaves its wait only when all are. *)
(***************************************************************************)
EXTENDS JobSystem, FiniteSetTheorems, SequenceTheorems, TLAPS

FrameSet == [job : Makers, phase : Phases, pending : SUBSET Jobs]
Types ==
    /\ queue \in Seq(Jobs)
    /\ stack \in [Threads -> Seq(FrameSet)]
    /\ maker \in [Jobs -> Makers \cup {Nobody}]
    /\ mode \in [Makers -> {"none", "sync", "async"}]
    /\ mCounter \in [Makers -> Nat]
    /\ executed \subseteq Jobs
    /\ exceptions \in Seq(Makers)
    /\ threw \subseteq Jobs

MainAtBottom == stack[Main] # <<>> /\ stack[Main][1].job = Main

\* What a frame says of its job.  Under another frame, a callback waits.
FrameIsRight(f) ==
    /\ f.job \in Jobs => maker[f.job] \in Makers
    /\ f.job \in executed <=> f.phase = "spin"
    /\ f.phase = "catch" => f.job \in Jobs
    /\ f.phase = "dispatch" => mode[f.job] # "none"
    /\ f.phase = "await" => mode[f.job] = "sync"
    /\ f.phase = "spin" => threw # {}
    /\ f.pending \subseteq Group(f.job) \ executed
FramesAreRight ==
    \A t \in Threads : \A d \in 1 .. Len(stack[t]) :
        /\ FrameIsRight(stack[t][d])
        /\ d < Len(stack[t]) => stack[t][d].phase \in {"dispatch", "await"}

\* A job is in one place only.
OnOneStack ==
    \A t, u \in Threads : \A d \in 1 .. Len(stack[t]), e \in 1 .. Len(stack[u]) :
        stack[t][d].job = stack[u][e].job => t = u /\ d = e
QueuedOnce ==
    \A k \in 1 .. Len(queue) :
        /\ queue[k] \notin executed /\ maker[queue[k]] \in Makers
        /\ \A l \in 1 .. Len(queue) : queue[l] = queue[k] => l = k
        /\ \A t \in Threads : \A d \in 1 .. Len(stack[t]) :
               stack[t][d].job # queue[k] /\ queue[k] \notin stack[t][d].pending
PendingIsNotOnStack ==
    \A t, u \in Threads : \A d \in 1 .. Len(stack[t]), e \in 1 .. Len(stack[u]) :
        stack[u][e].job \notin stack[t][d].pending

\* The counter of a group that is waited for.
CounterIsRight(m) ==
    /\ mode[m] = "none" => Group(m) = {}
    /\ mode[m] = "sync" => /\ Cardinality(Group(m)) <= MaxGroup
                           /\ mCounter[m] = Cardinality(Group(m) \ executed)
CountersAreRight ==
    /\ \A j \in executed : maker[j] \in Makers
    /\ \A m \in Makers : CounterIsRight(m)

\* Until one throws, there is a callback that waits for each job in such a group.
SomeoneWaits(m) ==
    \E t \in Threads : \E d \in 1 .. Len(stack[t]) :
        stack[t][d].job = m /\ stack[t][d].phase \in {"dispatch", "await"}
MakersWait ==
    /\ exceptions # <<>> => threw # {}
    /\ threw = {} => \A j \in Jobs \ executed :
           maker[j] \in Makers /\ mode[maker[j]] = "sync" => SomeoneWaits(maker[j])
-----------------------------------------------------------------------------
(* What the changes of a stack do to its frames.                            *)

LEMMA TopIsAFrame ==
    ASSUME Types, NEW t \in Threads, Busy(t)
    PROVE  /\ Len(stack[t]) \in Nat \ {0}
           /\ Top(t) = stack[t][Len(stack[t])] /\ Top(t) \in FrameSet
<1>1. stack[t] \in Seq(FrameSet) /\ stack[t] # <<>>
  BY DEF Types, Busy
<1>2. Len(stack[t]) \in Nat \ {0}
  BY <1>1
<1> QED  BY <1>1, <1>2 DEF Top, Depth

LEMMA TopChanges ==
    ASSUME Types, NEW t \in Threads, Busy(t), NEW f \in FrameSet, SetTop(t, f)
    PROVE  /\ stack' \in [Threads -> Seq(FrameSet)]
           /\ \A u \in Threads : Len(stack'[u]) = Len(stack[u])
           /\ \A u \in Threads : \A d \in 1 .. Len(stack[u]) :
                 stack'[u][d] = IF u = t /\ d = Len(stack[t]) THEN f ELSE stack[u][d]
<1>1. stack \in [Threads -> Seq(FrameSet)] /\ Len(stack[t]) \in Nat \ {0}
  BY TopIsAFrame DEF Types
<1>2. stack' = [stack EXCEPT ![t] = [stack[t] EXCEPT ![Len(stack[t])] = f]]
  BY <1>1 DEF SetTop, Depth
<1>3. /\ [stack[t] EXCEPT ![Len(stack[t])] = f] \in Seq(FrameSet)
      /\ Len([stack[t] EXCEPT ![Len(stack[t])] = f]) = Len(stack[t])
  BY <1>1, ExceptSeq
<1> QED  BY <1>1, <1>2, <1>3

LEMMA TopIsPushed ==
    ASSUME Types, NEW t \in Threads, NEW f \in FrameSet,
           stack' = [stack EXCEPT ![t] = Append(@, f)]
    PROVE  /\ stack' \in [Threads -> Seq(FrameSet)]
           /\ \A u \in Threads : Len(stack'[u]) = IF u = t THEN Len(stack[u]) + 1 ELSE Len(stack[u])
           /\ \A u \in Threads : \A d \in 1 .. Len(stack'[u]) :
                 stack'[u][d] = IF u = t /\ d = Len(stack[t]) + 1 THEN f ELSE stack[u][d]
BY DEF Types

LEMMA TopIsPopped ==
    ASSUME Types, NEW t \in Threads, Busy(t),
           stack' = [stack EXCEPT ![t] = SubSeq(@, 1, Depth(t) - 1)]
    PROVE  /\ stack' \in [Threads -> Seq(FrameSet)]
           /\ \A u \in Threads : Len(stack'[u]) = Len(stack[u]) - IF u = t THEN 1 ELSE 0
           /\ \A u \in Threads : \A d \in 1 .. Len(stack'[u]) : stack'[u][d] = stack[u][d]
<1>1. stack[t] \in Seq(FrameSet) /\ Len(stack[t]) \in Nat \ {0}
  BY TopIsAFrame DEF Types
<1> DEFINE below == SubSeq(stack[t], 1, Len(stack[t]) - 1)
<1>2. /\ below \in Seq(FrameSet) /\ Len(below) = Len(stack[t]) - 1
      /\ \A d \in 1 .. Len(stack[t]) - 1 : below[d] = stack[t][d]
  BY <1>1
<1> QED  BY <1>1, <1>2 DEF Types, Depth

Good == /\ MainAtBottom /\ FramesAreRight /\ OnOneStack /\ QueuedOnce
        /\ PendingIsNotOnStack /\ CountersAreRight /\ MakersWait
IInv == Types /\ Good

\* Where each frame keeps its job, jobs stay in one place.
LEMMA JobsKeepTheirPlaces ==
    ASSUME Types, OnOneStack, MainAtBottom, stack' \in [Threads -> Seq(FrameSet)],
           \A u \in Threads : Len(stack'[u]) = Len(stack[u]),
           \A u \in Threads : \A d \in 1 .. Len(stack[u]) : stack'[u][d].job = stack[u][d].job
    PROVE  OnOneStack' /\ MainAtBottom'
<1>1. OnOneStack'
  BY DEF OnOneStack
<1>2. MainAtBottom'
  <2>1. Main \in Threads /\ Len(stack[Main]) # 0
    BY DEF MainAtBottom, Types, Threads
  <2>2. Len(stack[Main]) \in Nat \ {0}
    BY <2>1 DEF Types
  <2>3. stack'[Main] # <<>> /\ stack'[Main][1].job = stack[Main][1].job
    BY <2>1, <2>2
  <2> QED  BY <2>3 DEF MainAtBottom
<1> QED  BY <1>1, <1>2

\* A step that changes the phase of the innermost frame, from q to p.
LEMMA PhaseChanges ==
    ASSUME Types, Good, NEW t \in Threads, NEW q, In(t, q), NEW p \in Phases, SetPhase(t, p)
    PROVE  LET n == Len(stack[t])
           IN  /\ n \in Nat \ {0} /\ Top(t) = stack[t][n] /\ Top(t) \in FrameSet /\ Top(t).phase = q
               /\ stack' \in [Threads -> Seq(FrameSet)]
               /\ \A u \in Threads : Len(stack'[u]) = Len(stack[u])
               /\ \A u \in Threads : \A d \in 1 .. Len(stack[u]) :
                     /\ stack'[u][d].job = stack[u][d].job
                     /\ stack'[u][d].pending = stack[u][d].pending
                     /\ stack'[u][d].phase = IF u = t /\ d = n THEN p ELSE stack[u][d].phase
               /\ OnOneStack' /\ MainAtBottom' /\ PendingIsNotOnStack'
<1> DEFINE n == Len(stack[t])
           f == [Top(t) EXCEPT !.phase = p]
<1>1. n \in Nat \ {0} /\ Top(t) = stack[t][n] /\ Top(t) \in FrameSet /\ Top(t).phase = q
  BY TopIsAFrame DEF In
<1>2. f \in FrameSet /\ f.job = Top(t).job /\ f.phase = p /\ f.pending = Top(t).pending
  BY <1>1 DEF FrameSet
<1>3. /\ stack' \in [Threads -> Seq(FrameSet)]
      /\ \A u \in Threads : Len(stack'[u]) = Len(stack[u])
      /\ \A u \in Threads : \A d \in 1 .. Len(stack[u]) :
            stack'[u][d] = IF u = t /\ d = n THEN f ELSE stack[u][d]
  BY <1>2, TopChanges DEF In, SetPhase
<1> HIDE DEF f
<1>4. \A u \in Threads : \A d \in 1 .. Len(stack[u]) :
         /\ stack'[u][d].job = stack[u][d].job
         /\ stack'[u][d].pending = stack[u][d].pending
         /\ stack'[u][d].phase = IF u = t /\ d = n THEN p ELSE stack[u][d].phase
  BY <1>1, <1>2, <1>3
<1>5. OnOneStack' /\ MainAtBottom'
  BY <1>3, <1>4, JobsKeepTheirPlaces DEF Good
<1>6. PendingIsNotOnStack'
  BY <1>3, <1>4 DEF Good, PendingIsNotOnStack
<1> QED  BY <1>1, <1>3, <1>4, <1>5, <1>6
-----------------------------------------------------------------------------
(* Each step preserves the invariant.                                       *)

LEMMA DispatchEndsKeeps ==
    ASSUME Types, Good, NEW t \in Threads, DispatchEnds(t)
    PROVE  Types' /\ Good'
<1> DEFINE n == Len(stack[t])
<1>1. PICK p \in Phases : SetPhase(t, p) /\ p = IF mode[Top(t).job] = "sync" THEN "await" ELSE "run"
  BY DEF DispatchEnds, Phases
<1>2. /\ n \in Nat \ {0} /\ Top(t) = stack[t][n] /\ Top(t) \in FrameSet /\ Top(t).phase = "dispatch"
      /\ stack' \in [Threads -> Seq(FrameSet)]
      /\ \A u \in Threads : Len(stack'[u]) = Len(stack[u])
      /\ \A u \in Threads : \A d \in 1 .. Len(stack[u]) :
            /\ stack'[u][d].job = stack[u][d].job
            /\ stack'[u][d].pending = stack[u][d].pending
            /\ stack'[u][d].phase = IF u = t /\ d = n THEN p ELSE stack[u][d].phase
      /\ OnOneStack' /\ MainAtBottom' /\ PendingIsNotOnStack'
  BY <1>1, PhaseChanges DEF DispatchEnds
<1>3. UNCHANGED <<queue, maker, mode, mCounter, executed, exceptions, killed, threw>>
  BY DEF DispatchEnds
<1>4. Types'
  BY <1>2, <1>3 DEF Types
<1>5. FramesAreRight'
  BY <1>1, <1>2, <1>3 DEF Good, FramesAreRight, FrameIsRight, Group
<1>6. QueuedOnce'
  BY <1>2, <1>3 DEF Good, QueuedOnce
<1>7. CountersAreRight'
  BY <1>3 DEF Good, CountersAreRight, CounterIsRight, Group
<1>8. ASSUME NEW x \in Makers, mode[x] = "sync", SomeoneWaits(x) PROVE SomeoneWaits(x)'
  <2>1. PICK u \in Threads : \E d \in 1 .. Len(stack[u]) :
            stack[u][d].job = x /\ stack[u][d].phase \in {"dispatch", "await"}
    BY <1>8 DEF SomeoneWaits
  <2>2. PICK d \in 1 .. Len(stack[u]) :
            stack[u][d].job = x /\ stack[u][d].phase \in {"dispatch", "await"}
    BY <2>1
  <2>3. stack'[u][d].job = x /\ stack'[u][d].phase \in {"dispatch", "await"}
    BY <1>1, <1>2, <1>8, <2>2
  <2> QED  BY <1>2, <2>3 DEF SomeoneWaits
<1>9. MakersWait'
  BY <1>3, <1>8 DEF Good, MakersWait
<1> QED  BY <1>2, <1>4, <1>5, <1>6, <1>7, <1>9 DEF Good

\* The counter of a group that is waited for is 0 only when all its jobs are executed.
LEMMA FinishedGroup ==
    ASSUME Types, CountersAreRight, NEW m \in Makers, mode[m] = "sync", IsFinished(m)
    PROVE  Group(m) \subseteq executed
<1>1. IsFiniteSet(Group(m) \ executed)
  BY FS_Subset, JobAssumption DEF Group
<1>2. Cardinality(Group(m) \ executed) = 0
  BY DEF CountersAreRight, CounterIsRight, IsFinished
<1> QED  BY <1>1, <1>2, FS_EmptySet

LEMMA AwaitEndsKeeps ==
    ASSUME Types, Good, NEW t \in Threads, AwaitEnds(t)
    PROVE  Types' /\ Good'
<1> DEFINE n == Len(stack[t])
           p == "run"
<1>1. p \in Phases /\ SetPhase(t, p)
  BY DEF AwaitEnds, Phases
<1>2. /\ n \in Nat \ {0} /\ Top(t) = stack[t][n] /\ Top(t) \in FrameSet /\ Top(t).phase = "await"
      /\ stack' \in [Threads -> Seq(FrameSet)]
      /\ \A u \in Threads : Len(stack'[u]) = Len(stack[u])
      /\ \A u \in Threads : \A d \in 1 .. Len(stack[u]) :
            /\ stack'[u][d].job = stack[u][d].job
            /\ stack'[u][d].pending = stack[u][d].pending
            /\ stack'[u][d].phase = IF u = t /\ d = n THEN p ELSE stack[u][d].phase
      /\ OnOneStack' /\ MainAtBottom' /\ PendingIsNotOnStack'
  BY <1>1, PhaseChanges DEF AwaitEnds
<1>3. UNCHANGED <<queue, maker, mode, mCounter, executed, exceptions, killed, threw>>
  BY DEF AwaitEnds
<1>4. Types'
  BY <1>2, <1>3 DEF Types
<1>5. FramesAreRight'
  BY <1>2, <1>3 DEF Good, FramesAreRight, FrameIsRight, Group
<1>6. QueuedOnce'
  BY <1>2, <1>3 DEF Good, QueuedOnce
<1>7. CountersAreRight'
  BY <1>3 DEF Good, CountersAreRight, CounterIsRight, Group
<1>8. Group(Top(t).job) \subseteq executed
  <2>1. Top(t).job \in Makers /\ mode[Top(t).job] = "sync"
    BY <1>2 DEF Good, FramesAreRight, FrameIsRight, FrameSet
  <2> QED  BY <2>1, FinishedGroup DEF AwaitEnds, Good
<1>9. MakersWait'
  <2>1. ASSUME NEW x \in Makers, x # Top(t).job, SomeoneWaits(x) PROVE SomeoneWaits(x)'
    BY <1>2, <2>1 DEF SomeoneWaits
  <2>2. \A j \in Jobs \ executed : maker[j] # Top(t).job
    BY <1>8 DEF Group
  <2> QED  BY <1>3, <2>1, <2>2 DEF Good, MakersWait
<1> QED  BY <1>2, <1>4, <1>5, <1>6, <1>7, <1>9 DEF Good

LEMMA JobThrowsKeeps ==
    ASSUME Types, Good, NEW t \in Threads, JobThrows(t)
    PROVE  Types' /\ Good'
<1> DEFINE n == Len(stack[t])
           p == "catch"
<1>1. p \in Phases /\ SetPhase(t, p)
  BY DEF JobThrows, Phases
<1>2. /\ n \in Nat \ {0} /\ Top(t) = stack[t][n] /\ Top(t) \in FrameSet /\ Top(t).phase = "run"
      /\ stack' \in [Threads -> Seq(FrameSet)]
      /\ \A u \in Threads : Len(stack'[u]) = Len(stack[u])
      /\ \A u \in Threads : \A d \in 1 .. Len(stack[u]) :
            /\ stack'[u][d].job = stack[u][d].job
            /\ stack'[u][d].pending = stack[u][d].pending
            /\ stack'[u][d].phase = IF u = t /\ d = n THEN p ELSE stack[u][d].phase
      /\ OnOneStack' /\ MainAtBottom' /\ PendingIsNotOnStack'
  BY <1>1, PhaseChanges DEF JobThrows
<1>3. /\ UNCHANGED <<queue, maker, mode, mCounter, executed, exceptions, killed, threw>>
      /\ Top(t).job \in Jobs
  BY JobAssumption DEF JobThrows
<1>4. Types'
  BY <1>2, <1>3 DEF Types
<1>5. FramesAreRight'
  BY <1>2, <1>3 DEF Good, FramesAreRight, FrameIsRight, Group
<1>6. QueuedOnce'
  BY <1>2, <1>3, SMTT(30) DEF Good, QueuedOnce
<1>7. CountersAreRight'
  BY <1>3 DEF Good, CountersAreRight, CounterIsRight, Group
<1>8. MakersWait'
  <2>1. ASSUME NEW x \in Makers, SomeoneWaits(x) PROVE SomeoneWaits(x)'
    BY <1>2, <2>1 DEF SomeoneWaits
  <2> QED  BY <1>3, <2>1 DEF Good, MakersWait
<1> QED  BY <1>2, <1>4, <1>5, <1>6, <1>7, <1>8 DEF Good

\* Executing a job and decrementing its group's counter keeps the counters right.
LEMMA CountersFollow ==
    ASSUME Types, CountersAreRight, NEW j \in Jobs \ executed, maker[j] \in Makers,
           executed' = executed \cup {j}, DecrementCounter(maker[j]), UNCHANGED <<maker, mode>>
    PROVE  CountersAreRight' /\ mCounter' \in [Makers -> Nat]
<1> DEFINE m == maker[j]
<1>1. Modulus \in Nat \ {0, 1} /\ MaxGroup < Modulus
  BY JobAssumption DEF Modulus
<1>2. \A x \in Makers : mCounter[x] \in Nat
  BY DEF Types
<1>3. mCounter' = [mCounter EXCEPT ![m] = (mCounter[m] + Modulus - 1) % Modulus]
  BY DEF DecrementCounter, Types
<1>4. mCounter' \in [Makers -> Nat]
  BY <1>1, <1>2, <1>3 DEF Types
<1>5. \A x \in Makers : Group(x)' = Group(x)
  BY DEF Group
<1>6. \A i \in executed' : maker'[i] \in Makers
  BY DEF CountersAreRight
<1>7. ASSUME NEW x \in Makers PROVE CounterIsRight(x)'
  <2>1. CASE x # m
    <3>1. mCounter'[x] = mCounter[x]
      BY <1>3, <2>1 DEF Types
    <3>2. Group(x) \ executed' = Group(x) \ executed
      BY <2>1 DEF Group
    <3> QED  BY <1>5, <3>1, <3>2 DEF CountersAreRight, CounterIsRight
  <2>2. CASE x = m /\ mode[m] = "sync"
    <3> DEFINE left == Group(m) \ executed
    <3>1. IsFiniteSet(Group(m)) /\ IsFiniteSet(left)
      BY FS_Subset, JobAssumption DEF Group
    <3>2. j \in left
      BY DEF Group
    <3>3. /\ Cardinality(left \ {j}) = Cardinality(left) - 1
          /\ Cardinality(left) \in Nat \ {0}
      BY <3>1, <3>2, FS_RemoveElement, FS_EmptySet, FS_CardinalityType
    <3>4. Cardinality(left) <= Cardinality(Group(m)) /\ Cardinality(Group(m)) \in Nat
      BY <3>1, FS_Subset, FS_CardinalityType
    <3>5. Cardinality(Group(m)) <= MaxGroup /\ mCounter[m] = Cardinality(left)
      BY <2>2 DEF CountersAreRight, CounterIsRight
    <3>6. mCounter[m] \in 1 .. Modulus - 1
      BY <1>1, <3>3, <3>4, <3>5, JobAssumption
    <3>7. \A c, b \in Nat : c \in 1 .. b - 1 => (c + b - 1) % b = c - 1
      OBVIOUS
    <3>8. mCounter'[m] = mCounter[m] - 1
      BY <1>1, <1>3, <3>6, <3>7 DEF Types
    <3>9. Group(m) \ executed' = left \ {j}
      OBVIOUS
    <3> QED  BY <1>5, <2>2, <3>3, <3>5, <3>8, <3>9 DEF CounterIsRight
  <2>3. CASE x = m /\ mode[m] # "sync"
    BY <1>5, <2>3 DEF CountersAreRight, CounterIsRight
  <2> QED  BY <2>1, <2>2, <2>3
<1> QED  BY <1>4, <1>6, <1>7 DEF CountersAreRight

LEMMA CatchDecrementsKeeps ==
    ASSUME Types, Good, NEW t \in Threads, CatchDecrements(t)
    PROVE  Types' /\ Good'
<1> DEFINE n == Len(stack[t])
           p == "spin"
           j == Top(t).job
<1>1. p \in Phases /\ SetPhase(t, p)
  BY DEF CatchDecrements, Phases
<1>2. /\ n \in Nat \ {0} /\ Top(t) = stack[t][n] /\ Top(t) \in FrameSet /\ Top(t).phase = "catch"
      /\ stack' \in [Threads -> Seq(FrameSet)]
      /\ \A u \in Threads : Len(stack'[u]) = Len(stack[u])
      /\ \A u \in Threads : \A d \in 1 .. Len(stack[u]) :
            /\ stack'[u][d].job = stack[u][d].job
            /\ stack'[u][d].pending = stack[u][d].pending
            /\ stack'[u][d].phase = IF u = t /\ d = n THEN p ELSE stack[u][d].phase
      /\ OnOneStack' /\ MainAtBottom' /\ PendingIsNotOnStack'
  BY <1>1, PhaseChanges DEF CatchDecrements
<1>3. /\ UNCHANGED <<queue, maker, mode, exceptions, killed>>
      /\ executed' = executed \cup {j} /\ threw' = threw \cup {j} /\ DecrementCounter(maker[j])
  BY DEF CatchDecrements
<1>4. j \in Jobs \ executed /\ maker[j] \in Makers
  BY <1>2 DEF Good, FramesAreRight, FrameIsRight, FrameSet
<1>5. CountersAreRight' /\ mCounter' \in [Makers -> Nat]
  BY <1>3, <1>4, CountersFollow DEF Good
<1>6. Types'
  BY <1>2, <1>3, <1>4, <1>5 DEF Types
<1>7. \A u \in Threads : \A d \in 1 .. Len(stack[u]) :
         /\ stack[u][d].job = j => u = t /\ d = n
         /\ j \notin stack[u][d].pending
  BY <1>2 DEF Good, OnOneStack, PendingIsNotOnStack
<1>8. FramesAreRight'
  <2> SUFFICES ASSUME NEW u \in Threads, NEW d \in 1 .. Len(stack[u])
               PROVE  /\ FrameIsRight(stack[u][d])'
                      /\ d < Len(stack[u]) => stack'[u][d].phase \in {"dispatch", "await"}
    BY <1>2 DEF FramesAreRight
  <2>1. /\ FrameIsRight(stack[u][d])
        /\ d < Len(stack[u]) => stack[u][d].phase \in {"dispatch", "await"}
    BY DEF Good, FramesAreRight
  <2>2. CASE u = t /\ d = n
    <3>1. stack'[u][d].job = j /\ stack'[u][d].phase = "spin"
      BY <1>2, <2>2
    <3>2. stack'[u][d].pending \subseteq Group(j) \ executed'
      BY <1>2, <1>3, <1>7, <2>1, <2>2 DEF FrameIsRight
    <3>3. j \in executed' /\ threw' # {} /\ maker'[j] \in Makers
      BY <1>3, <1>4
    <3> HIDE DEF j
    <3> QED  BY <1>3, <2>2, <3>1, <3>2, <3>3 DEF FrameIsRight, Group
  <2>3. CASE ~(u = t /\ d = n)
    BY <1>2, <1>3, <1>4, <1>7, <2>1, <2>3 DEF FrameIsRight, Group
  <2> QED  BY <2>2, <2>3
<1>9. QueuedOnce'
  BY <1>2, <1>3 DEF Good, QueuedOnce
<1>10. MakersWait'
  BY <1>3 DEF MakersWait
<1> QED  BY <1>2, <1>5, <1>6, <1>8, <1>9, <1>10 DEF Good

LEMMA HandleThrownExceptionsKeeps ==
    ASSUME Types, Good, HandleThrownExceptions
    PROVE  Types' /\ Good'
<1> DEFINE n == Len(stack[Main])
           f == Struck(Top(Main))
<1>1. Main \in Threads /\ Busy(Main) /\ threw # {}
  BY DEF HandleThrownExceptions, Threads, Good, MainAtBottom, Busy, MakersWait
<1>2. /\ n \in Nat \ {0} /\ Top(Main) = stack[Main][n] /\ Top(Main) \in FrameSet
      /\ Top(Main).phase = "await"
  BY <1>1, TopIsAFrame DEF HandleThrownExceptions, LooksForJob, In
<1>3. /\ f \in FrameSet /\ f.job = Top(Main).job /\ f.pending = {}
      /\ f.phase = IF f.job = Main THEN "ended" ELSE "catch"
  BY <1>2 DEF Struck, FrameSet, Phases
<1>4. /\ stack' \in [Threads -> Seq(FrameSet)]
      /\ \A u \in Threads : Len(stack'[u]) = Len(stack[u])
      /\ \A u \in Threads : \A d \in 1 .. Len(stack[u]) :
            stack'[u][d] = IF u = Main /\ d = n THEN f ELSE stack[u][d]
  BY <1>1, <1>3, TopChanges DEF HandleThrownExceptions
<1> HIDE DEF f
<1>5. /\ UNCHANGED <<queue, maker, mode, mCounter, executed, killed, threw>>
      /\ exceptions' = Tail(exceptions) /\ exceptions # <<>>
  BY DEF HandleThrownExceptions
<1>6. Types'
  BY <1>4, <1>5 DEF Types
<1>7. \A u \in Threads : \A d \in 1 .. Len(stack[u]) :
         /\ stack'[u][d].job = stack[u][d].job
         /\ stack'[u][d].pending \subseteq stack[u][d].pending
  BY <1>2, <1>3, <1>4
<1>8. OnOneStack' /\ MainAtBottom'
  BY <1>4, <1>7, JobsKeepTheirPlaces DEF Good
<1>9. FramesAreRight'
  <2> SUFFICES ASSUME NEW u \in Threads, NEW d \in 1 .. Len(stack[u])
               PROVE  /\ FrameIsRight(stack[u][d])'
                      /\ d < Len(stack[u]) => stack'[u][d].phase \in {"dispatch", "await"}
    BY <1>4 DEF FramesAreRight
  <2>1. /\ FrameIsRight(stack[u][d])
        /\ d < Len(stack[u]) => stack[u][d].phase \in {"dispatch", "await"}
    BY DEF Good, FramesAreRight
  <2>2. CASE u = Main /\ d = n
    <3>1. f.job \in Makers /\ f.job \notin executed /\ (f.job \in Jobs => maker[f.job] \in Makers)
      BY <1>2, <1>3, <2>1, <2>2 DEF FrameIsRight, FrameSet
    <3>2. stack'[u][d] = f
      BY <1>4, <2>2
    <3> QED  BY <1>3, <1>5, <2>2, <3>1, <3>2 DEF FrameIsRight, Makers
  <2>3. CASE ~(u = Main /\ d = n)
    BY <1>4, <1>5, <2>1, <2>3 DEF FrameIsRight, Group
  <2> QED  BY <2>2, <2>3
<1>10. QueuedOnce'
  BY <1>4, <1>5, <1>7 DEF Good, QueuedOnce
<1>11. PendingIsNotOnStack'
  <2> SUFFICES ASSUME NEW u \in Threads, NEW v \in Threads,
                      NEW d \in 1 .. Len(stack[u]), NEW e \in 1 .. Len(stack[v])
               PROVE  stack'[v][e].job \notin stack'[u][d].pending
    BY <1>4 DEF PendingIsNotOnStack
  <2>1. stack[v][e].job \notin stack[u][d].pending
    BY DEF Good, PendingIsNotOnStack
  <2> QED  BY <1>7, <2>1
<1>12. CountersAreRight'
  BY <1>5 DEF Good, CountersAreRight, CounterIsRight, Group
<1>13. MakersWait'
  BY <1>1, <1>5 DEF MakersWait
<1> QED  BY <1>6, <1>8, <1>9, <1>10, <1>11, <1>12, <1>13 DEF Good

\* A job leaves its stack; the other frames keep their jobs and dispatch no others.
LEMMA JobLeaves ==
    ASSUME Types, Good, NEW t \in Threads, Busy(t), Top(t).job \in Jobs,
           stack' \in [Threads -> Seq(FrameSet)],
           \A u \in Threads : Len(stack'[u]) = Len(stack[u]) - IF u = t THEN 1 ELSE 0,
           \A u \in Threads : \A d \in 1 .. Len(stack'[u]) :
               /\ stack'[u][d].job = stack[u][d].job
               /\ stack'[u][d].pending \subseteq stack[u][d].pending
    PROVE  /\ OnOneStack' /\ PendingIsNotOnStack' /\ MainAtBottom'
           /\ \A u \in Threads : /\ Len(stack[u]) \in Nat /\ Len(stack'[u]) \in Nat
                                 /\ 1 .. Len(stack'[u]) \subseteq 1 .. Len(stack[u])
<1>1. \A u \in Threads : /\ Len(stack[u]) \in Nat /\ Len(stack'[u]) \in Nat
                         /\ 1 .. Len(stack'[u]) \subseteq 1 .. Len(stack[u])
  BY TopIsAFrame DEF Types
<1>2. OnOneStack' /\ PendingIsNotOnStack'
  <2> SUFFICES ASSUME NEW u \in Threads, NEW v \in Threads,
                      NEW d \in 1 .. Len(stack'[u]), NEW e \in 1 .. Len(stack'[v])
               PROVE  /\ stack'[u][d].job = stack'[v][e].job => u = v /\ d = e
                      /\ stack'[v][e].job \notin stack'[u][d].pending
    BY DEF OnOneStack, PendingIsNotOnStack
  <2>1. d \in 1 .. Len(stack[u]) /\ e \in 1 .. Len(stack[v])
    BY <1>1
  <2>2. OnOneStack /\ PendingIsNotOnStack
    BY DEF Good
  <2>3. /\ stack[u][d].job = stack[v][e].job => u = v /\ d = e
        /\ stack[v][e].job \notin stack[u][d].pending
    BY <2>1, <2>2 DEF OnOneStack, PendingIsNotOnStack
  <2> QED  BY <2>3
<1>3. MainAtBottom'
  <2>1. Main \in Threads /\ stack[Main] # <<>> /\ stack[Main][1].job = Main /\ Main \notin Jobs
    BY JobAssumption DEF Good, MainAtBottom, Threads
  <2>2. Len(stack[Main]) \in Nat \ {0}
    BY <2>1 DEF Types
  <2>3. Len(stack'[Main]) # 0
    BY <2>1, <2>2, TopIsAFrame
  <2>4. 1 \in 1 .. Len(stack'[Main]) /\ stack'[Main] \in Seq(FrameSet)
    BY <1>1, <2>1, <2>3
  <2> QED  BY <2>1, <2>3, <2>4 DEF MainAtBottom
<1> QED  BY <1>1, <1>2, <1>3

LEMMA JobReturnsKeeps ==
    ASSUME Types, Good, NEW t \in Threads, JobReturns(t)
    PROVE  Types' /\ Good'
<1> DEFINE n == Len(stack[t])
           j == Top(t).job
<1>1. /\ n \in Nat \ {0} /\ Top(t) = stack[t][n] /\ Top(t) \in FrameSet /\ Top(t).phase = "run"
      /\ j \in Jobs
  BY TopIsAFrame DEF JobReturns, In
<1>2. /\ stack' \in [Threads -> Seq(FrameSet)]
      /\ \A u \in Threads : Len(stack'[u]) = Len(stack[u]) - IF u = t THEN 1 ELSE 0
      /\ \A u \in Threads : \A d \in 1 .. Len(stack'[u]) : stack'[u][d] = stack[u][d]
  BY TopIsPopped DEF JobReturns, In
<1>3. /\ OnOneStack' /\ PendingIsNotOnStack' /\ MainAtBottom'
      /\ \A u \in Threads : /\ Len(stack[u]) \in Nat /\ Len(stack'[u]) \in Nat
                            /\ 1 .. Len(stack'[u]) \subseteq 1 .. Len(stack[u])
  BY <1>1, <1>2, JobLeaves DEF JobReturns, In
<1>4. /\ UNCHANGED <<queue, maker, mode, exceptions, killed, threw>>
      /\ executed' = executed \cup {j} /\ DecrementCounter(maker[j])
  BY DEF JobReturns
<1>5. j \in Jobs \ executed /\ maker[j] \in Makers
  BY <1>1 DEF Good, FramesAreRight, FrameIsRight
<1>6. CountersAreRight' /\ mCounter' \in [Makers -> Nat]
  BY <1>4, <1>5, CountersFollow DEF Good
<1>7. Types'
  BY <1>2, <1>4, <1>5, <1>6 DEF Types
<1>8. \A u \in Threads : \A d \in 1 .. Len(stack[u]) :
         /\ stack[u][d].job = j => u = t /\ d = n
         /\ j \notin stack[u][d].pending
  BY <1>1 DEF Good, OnOneStack, PendingIsNotOnStack
<1>9. FramesAreRight'
  <2> SUFFICES ASSUME NEW u \in Threads, NEW d \in 1 .. Len(stack'[u])
               PROVE  /\ FrameIsRight(stack[u][d])'
                      /\ d < Len(stack'[u]) => stack'[u][d].phase \in {"dispatch", "await"}
    BY DEF FramesAreRight
  <2>1. /\ FrameIsRight(stack[u][d])
        /\ d < Len(stack[u]) => stack[u][d].phase \in {"dispatch", "await"}
    BY <1>3 DEF Good, FramesAreRight
  <2>2. /\ stack'[u][d] = stack[u][d] /\ stack[u][d].job # j /\ j \notin stack[u][d].pending
        /\ Len(stack'[u]) <= Len(stack[u])
    BY <1>1, <1>2, <1>3, <1>8
  <2> HIDE DEF j
  <2> QED  BY <1>3, <1>4, <2>1, <2>2 DEF FrameIsRight, Group
<1>10. QueuedOnce'
  <2>1. \A k \in 1 .. Len(queue) : queue[k] # j
    BY <1>1 DEF Good, QueuedOnce
  <2>2. \A u \in Threads : \A d \in 1 .. Len(stack'[u]) :
           d \in 1 .. Len(stack[u]) /\ stack'[u][d] = stack[u][d]
    BY <1>2, <1>3
  <2> HIDE DEF j
  <2> QED  BY <1>4, <2>1, <2>2 DEF Good, QueuedOnce
<1>11. MakersWait'
  <2>1. ASSUME NEW x \in Makers, SomeoneWaits(x) PROVE SomeoneWaits(x)'
    <3>1. PICK u \in Threads : \E d \in 1 .. Len(stack[u]) :
             stack[u][d].job = x /\ stack[u][d].phase \in {"dispatch", "await"}
      BY <2>1 DEF SomeoneWaits
    <3>2. PICK d \in 1 .. Len(stack[u]) :
             stack[u][d].job = x /\ stack[u][d].phase \in {"dispatch", "await"}
      BY <3>1
    <3>3. d \in 1 .. Len(stack'[u])
      BY <1>1, <1>2, <1>3, <3>2
    <3> QED  BY <1>2, <3>2, <3>3 DEF SomeoneWaits
  <2> QED  BY <1>4, <2>1 DEF Good, MakersWait
<1> QED  BY <1>3, <1>6, <1>7, <1>9, <1>10, <1>11 DEF Good

LEMMA RethrowKeeps ==
    ASSUME Types, Good, NEW t \in Threads, Rethrow(t)
    PROVE  Types' /\ Good'
<1> DEFINE n == Len(stack[t])
           below == SubSeq(stack[t], 1, n - 1)
<1>1. /\ n \in Nat \ {0} /\ Top(t) = stack[t][n] /\ Top(t) \in FrameSet /\ Top(t).phase = "spin"
      /\ stack[t] \in Seq(FrameSet)
  BY TopIsAFrame DEF Rethrow, In, Types
<1>2. Top(t).job \in Jobs /\ threw # {}
  <2>1. FrameIsRight(stack[t][n])
    BY <1>1 DEF Good, FramesAreRight
  <2> QED  BY <1>1, <2>1 DEF FrameIsRight, Types
<1>3. /\ below \in Seq(FrameSet) /\ Len(below) = n - 1
      /\ \A d \in 1 .. n - 1 : below[d] = stack[t][d] /\ below[d] \in FrameSet
  BY <1>1
<1>4. \A f \in FrameSet : /\ Struck(f) \in FrameSet
                          /\ Struck(f).job = f.job /\ Struck(f).pending = {}
                          /\ Struck(f).phase = IF f.job = Main THEN "ended" ELSE "catch"
  BY DEF Struck, FrameSet, Phases
<1>5. /\ UNCHANGED <<queue, maker, mode, mCounter, executed, threw>>
      /\ IF below = <<>>
         THEN stack' = [stack EXCEPT ![t] = <<>>] /\ exceptions' = Append(exceptions, Top(t).job)
         ELSE /\ stack' = [stack EXCEPT ![t] = [below EXCEPT ![Len(below)] = Struck(below[Len(below)])]]
              /\ UNCHANGED exceptions
  BY DEF Rethrow, Depth
<1> HIDE DEF below
<1>6. /\ exceptions' \in Seq(Makers)
      /\ stack' \in [Threads -> Seq(FrameSet)]
      /\ \A u \in Threads : Len(stack'[u]) = Len(stack[u]) - IF u = t THEN 1 ELSE 0
      /\ \A u \in Threads : \A d \in 1 .. Len(stack'[u]) :
            stack'[u][d] = IF u = t /\ d = n - 1 THEN Struck(stack[u][d]) ELSE stack[u][d]
  <2>1. /\ exceptions' \in Seq(Makers)
        /\ \E q \in Seq(FrameSet) :
              /\ stack' = [stack EXCEPT ![t] = q] /\ Len(q) = n - 1
              /\ \A d \in 1 .. n - 1 :
                    q[d] = IF d = n - 1 THEN Struck(stack[t][d]) ELSE stack[t][d]
    <3>1. CASE below = <<>>
      <4>1. n = 1 /\ Len(<<>>) = 0 /\ <<>> \in Seq(FrameSet)
        BY <1>1, <1>3, <3>1
      <4>2. exceptions \in Seq(Makers) /\ Top(t).job \in Makers
        BY <1>2 DEF Types, Makers
      <4>3. exceptions' \in Seq(Makers)
        BY <1>5, <3>1, <4>2
      <4>4. stack' = [stack EXCEPT ![t] = <<>>] /\ n - 1 = 0 /\ 1 .. n - 1 = {}
        BY <1>5, <3>1, <4>1
      <4> QED  BY <4>1, <4>3, <4>4
    <3>2. CASE below # <<>>
      <4> DEFINE q == [below EXCEPT ![n - 1] = Struck(below[n - 1])]
      <4>1. n - 1 \in 1 .. n - 1
        BY <1>1, <1>3, <3>2
      <4>2. stack' = [stack EXCEPT ![t] = q] /\ exceptions' \in Seq(Makers)
        BY <1>3, <1>5, <3>2 DEF Types
      <4>3. Struck(below[n - 1]) \in FrameSet /\ below[n - 1] = stack[t][n - 1]
        BY <1>3, <1>4, <4>1
      <4>4. q \in Seq(FrameSet) /\ Len(q) = n - 1
        BY <1>3, <4>1, <4>3, ExceptSeq
      <4>5. \A d \in 1 .. n - 1 : q[d] = IF d = n - 1 THEN Struck(stack[t][d]) ELSE stack[t][d]
        BY <1>3, <4>1, <4>3
      <4> HIDE DEF q
      <4> QED  BY <4>2, <4>4, <4>5
    <3> QED  BY <3>1, <3>2
  <2>2. stack \in [Threads -> Seq(FrameSet)]
    BY DEF Types
  <2> QED  BY <2>1, <2>2
<1>7. \A u \in Threads : \A d \in 1 .. Len(stack'[u]) :
         d \in 1 .. Len(stack[u]) /\ stack[u][d] \in FrameSet
  BY <1>1, <1>6 DEF Types
<1>8. \A u \in Threads : \A d \in 1 .. Len(stack'[u]) :
         /\ stack'[u][d].job = stack[u][d].job
         /\ stack'[u][d].pending \subseteq stack[u][d].pending
  BY <1>4, <1>6, <1>7
<1>9. OnOneStack' /\ PendingIsNotOnStack' /\ MainAtBottom'
  BY <1>2, <1>6, <1>8, JobLeaves DEF Rethrow, In
<1>10. Types'
  BY <1>5, <1>6 DEF Types
<1>11. FramesAreRight'
  <2> SUFFICES ASSUME NEW u \in Threads, NEW d \in 1 .. Len(stack'[u])
               PROVE  /\ FrameIsRight(stack[u][d])'
                      /\ d < Len(stack'[u]) => stack'[u][d].phase \in {"dispatch", "await"}
    BY DEF FramesAreRight
  <2>1. /\ FrameIsRight(stack[u][d])
        /\ d < Len(stack[u]) => stack[u][d].phase \in {"dispatch", "await"}
    BY <1>7 DEF Good, FramesAreRight
  <2>2. CASE u = t /\ d = n - 1
    <3> DEFINE f == stack'[u][d]
    <3>1. f.job \in Makers /\ f.job \notin executed /\ (f.job \in Jobs => maker[f.job] \in Makers)
      BY <1>1, <1>7, <1>8, <2>1, <2>2 DEF FrameIsRight, FrameSet
    <3>2. f.pending = {} /\ f.phase = IF f.job = Main THEN "ended" ELSE "catch"
      <4>1. f = Struck(stack[u][d]) /\ stack[u][d] \in FrameSet
        BY <1>6, <1>7, <2>2
      <4> HIDE DEF f
      <4> QED  BY <1>4, <4>1
    <3>3. d = Len(stack'[u])
      BY <1>6, <2>2
    <3> QED  BY <1>5, <3>1, <3>2, <3>3 DEF FrameIsRight, Makers
  <2>3. CASE ~(u = t /\ d = n - 1)
    <3>1. stack'[u][d] = stack[u][d] /\ (d < Len(stack'[u]) => d < Len(stack[u]))
      BY <1>1, <1>6, <1>7, <2>3
    <3> QED  BY <1>5, <2>1, <3>1 DEF FrameIsRight, Group
  <2> QED  BY <2>2, <2>3
<1>12. QueuedOnce'
  BY <1>5, <1>7, <1>8, SMTT(30) DEF Good, QueuedOnce
<1>13. CountersAreRight'
  BY <1>5 DEF Good, CountersAreRight, CounterIsRight, Group
<1>14. MakersWait'
  BY <1>2, <1>5 DEF MakersWait
<1> QED  BY <1>9, <1>10, <1>11, <1>12, <1>13, <1>14 DEF Good

\* A job that was on no stack enters one; the other frames keep their jobs.
LEMMA JobEnters ==
    ASSUME Types, Good, NEW t \in Threads, NEW j \in Jobs,
           stack' \in [Threads -> Seq(FrameSet)],
           \A u \in Threads : Len(stack'[u]) = IF u = t THEN Len(stack[u]) + 1 ELSE Len(stack[u]),
           stack'[t][Len(stack[t]) + 1] = Frame(j),
           \A u \in Threads : \A d \in 1 .. Len(stack[u]) :
               /\ stack'[u][d].job = stack[u][d].job /\ stack[u][d].job # j
               /\ stack'[u][d].pending \subseteq stack[u][d].pending \ {j}
    PROVE  OnOneStack' /\ PendingIsNotOnStack' /\ MainAtBottom'
<1>1. \A u \in Threads : /\ Len(stack[u]) \in Nat
                         /\ \A d \in 1 .. Len(stack'[u]) :
                               d \in 1 .. Len(stack[u]) \/ (u = t /\ d = Len(stack[t]) + 1)
  BY DEF Types
<1>2. OnOneStack /\ PendingIsNotOnStack /\ Frame(j).job = j /\ Frame(j).pending = {}
  BY DEF Good, Frame
<1>3. ASSUME NEW u \in Threads, NEW v \in Threads,
             NEW d \in 1 .. Len(stack'[u]), NEW e \in 1 .. Len(stack'[v])
      PROVE  /\ stack'[u][d].job = stack'[v][e].job => u = v /\ d = e
             /\ stack'[v][e].job \notin stack'[u][d].pending
  <2>1. CASE d \in 1 .. Len(stack[u]) /\ e \in 1 .. Len(stack[v])
    <3>1. /\ stack[u][d].job = stack[v][e].job => u = v /\ d = e
          /\ stack[v][e].job \notin stack[u][d].pending
      BY <1>2, <2>1 DEF OnOneStack, PendingIsNotOnStack
    <3> QED  BY <2>1, <3>1
  <2>2. CASE d \in 1 .. Len(stack[u]) /\ v = t /\ e = Len(stack[t]) + 1
    BY <1>2, <2>2
  <2>3. CASE u = t /\ d = Len(stack[t]) + 1
    BY <1>1, <1>2, <2>3
  <2> QED  BY <1>1, <2>1, <2>2, <2>3
<1>4. MainAtBottom'
  <2>1. Main \in Threads /\ stack[Main] # <<>> /\ stack[Main][1].job = Main
    BY DEF Good, MainAtBottom, Threads
  <2>2. Len(stack[Main]) \in Nat \ {0}
    BY <2>1 DEF Types
  <2>3. Len(stack'[Main]) \in Nat \ {0} /\ 1 \in 1 .. Len(stack[Main])
    BY <2>1, <2>2
  <2>4. stack'[Main][1].job = Main /\ stack'[Main] # <<>>
    BY <2>1, <2>3
  <2> QED  BY <2>4 DEF MainAtBottom
<1>5. OnOneStack'
  <2>1. \A u, v \in Threads : \A d \in 1 .. Len(stack'[u]), e \in 1 .. Len(stack'[v]) :
           stack'[u][d].job = stack'[v][e].job => u = v /\ d = e
    BY <1>3
  <2> QED  BY <2>1 DEF OnOneStack
<1>6. PendingIsNotOnStack'
  <2>1. \A u, v \in Threads : \A d \in 1 .. Len(stack'[u]), e \in 1 .. Len(stack'[v]) :
           stack'[v][e].job \notin stack'[u][d].pending
    BY <1>3
  <2> QED  BY <2>1 DEF PendingIsNotOnStack
<1> QED  BY <1>4, <1>5, <1>6

LEMMA TryExecuteJobKeeps ==
    ASSUME Types, Good, NEW t \in Threads, TryExecuteJob(t)
    PROVE  Types' /\ Good'
<1> DEFINE n == Len(stack[t])
           j == Head(queue)
<1>1. /\ queue \in Seq(Jobs) /\ queue # <<>> /\ queue' = Tail(queue)
      /\ stack' = [stack EXCEPT ![t] = Append(@, Frame(j))]
      /\ UNCHANGED <<maker, mode, mCounter, executed, exceptions, killed, threw>>
  BY DEF TryExecuteJob, Types
<1>2. /\ Len(queue) \in Nat \ {0} /\ j = queue[1] /\ j \in Jobs
      /\ queue' \in Seq(Jobs) /\ Len(queue') = Len(queue) - 1
      /\ \A k \in 1 .. Len(queue') : queue'[k] = queue[k + 1] /\ k + 1 \in 1 .. Len(queue)
  BY <1>1
<1>3. /\ j \notin executed /\ maker[j] \in Makers
      /\ \A k \in 1 .. Len(queue') : queue'[k] # j
      /\ \A u \in Threads : \A d \in 1 .. Len(stack[u]) :
            stack[u][d].job # j /\ j \notin stack[u][d].pending
  <2>1. 1 \in 1 .. Len(queue) /\ QueuedOnce
    BY <1>2 DEF Good
  <2> QED  BY <1>2, <2>1 DEF QueuedOnce
<1>4. /\ Frame(j) \in FrameSet /\ Frame(j).job = j /\ Frame(j).phase = "run" /\ Frame(j).pending = {}
  BY <1>2 DEF Frame, FrameSet, Makers, Phases
<1> HIDE DEF j
<1>5. /\ stack' \in [Threads -> Seq(FrameSet)]
      /\ \A u \in Threads : Len(stack'[u]) = IF u = t THEN Len(stack[u]) + 1 ELSE Len(stack[u])
      /\ \A u \in Threads : \A d \in 1 .. Len(stack'[u]) :
            stack'[u][d] = IF u = t /\ d = n + 1 THEN Frame(j) ELSE stack[u][d]
  BY <1>1, <1>4 DEF Types
<1>6. \A u \in Threads :
         /\ Len(stack[u]) \in Nat
         /\ \A d \in 1 .. Len(stack[u]) : d \in 1 .. Len(stack'[u]) /\ stack'[u][d] = stack[u][d]
         /\ \A d \in 1 .. Len(stack'[u]) : d \in 1 .. Len(stack[u]) \/ (u = t /\ d = n + 1)
  BY <1>5 DEF Types
<1>7. stack'[t][n + 1] = Frame(j)
  <2>1. n + 1 \in 1 .. Len(stack'[t])
    BY <1>5, <1>6
  <2> QED  BY <1>5, <2>1
<1>8. OnOneStack' /\ PendingIsNotOnStack' /\ MainAtBottom'
  <2>1. \A u \in Threads : \A d \in 1 .. Len(stack[u]) :
           /\ stack'[u][d].job = stack[u][d].job /\ stack[u][d].job # j
           /\ stack'[u][d].pending \subseteq stack[u][d].pending \ {j}
    BY <1>3, <1>6
  <2> QED  BY <1>2, <1>5, <1>7, <2>1, JobEnters, SMTT(30)
<1>9. Types'
  BY <1>1, <1>2, <1>5 DEF Types
<1>10. FramesAreRight'
  <2> SUFFICES ASSUME NEW u \in Threads, NEW d \in 1 .. Len(stack'[u])
               PROVE  /\ FrameIsRight(stack[u][d])'
                      /\ d < Len(stack'[u]) => stack'[u][d].phase \in {"dispatch", "await"}
    BY DEF FramesAreRight
  <2>1. CASE u = t /\ d = n + 1
    <3>1. stack'[u][d] = Frame(j) /\ ~(d < Len(stack'[u]))
      BY <1>5, <1>6, <2>1
    <3> QED  BY <1>1, <1>3, <1>4, <3>1 DEF FrameIsRight
  <2>2. CASE d \in 1 .. Len(stack[u])
    <3>1. /\ FrameIsRight(stack[u][d])
          /\ d < Len(stack[u]) => stack[u][d].phase \in {"dispatch", "await"}
      BY <2>2 DEF Good, FramesAreRight
    <3>2. FrameIsRight(stack[u][d])'
      BY <1>1, <1>6, <2>2, <3>1 DEF FrameIsRight, Group
    <3>3. u = t /\ d = Len(stack[t]) => stack[u][d].phase = "await"
      BY <1>6, <2>2 DEF TryExecuteJob, LooksForJob, Busy, In, Top, Depth
    <3> QED  BY <1>5, <1>6, <2>2, <3>1, <3>2, <3>3
  <2> QED  BY <1>6, <2>1, <2>2
<1>11. QueuedOnce'
  <2> SUFFICES ASSUME NEW k \in 1 .. Len(queue')
               PROVE  /\ queue'[k] \notin executed /\ maker[queue'[k]] \in Makers
                      /\ \A l \in 1 .. Len(queue') : queue'[l] = queue'[k] => l = k
                      /\ \A u \in Threads : \A d \in 1 .. Len(stack'[u]) :
                            stack'[u][d].job # queue'[k] /\ queue'[k] \notin stack'[u][d].pending
    BY <1>1 DEF QueuedOnce
  <2>1. /\ queue'[k] \notin executed /\ maker[queue'[k]] \in Makers
        /\ \A l \in 1 .. Len(queue) : queue[l] = queue'[k] => l = k + 1
        /\ \A u \in Threads : \A d \in 1 .. Len(stack[u]) :
               stack[u][d].job # queue'[k] /\ queue'[k] \notin stack[u][d].pending
    BY <1>2 DEF Good, QueuedOnce
  <2>2. \A l \in 1 .. Len(queue') : queue'[l] = queue'[k] => l = k
    BY <1>2, <2>1
  <2>3. \A u \in Threads : \A d \in 1 .. Len(stack'[u]) :
           stack'[u][d].job # queue'[k] /\ queue'[k] \notin stack'[u][d].pending
    <3> SUFFICES ASSUME NEW u \in Threads, NEW d \in 1 .. Len(stack'[u])
                 PROVE  stack'[u][d].job # queue'[k] /\ queue'[k] \notin stack'[u][d].pending
      OBVIOUS
    <3>1. CASE u = t /\ d = n + 1
      BY <1>3, <1>4, <1>7, <3>1
    <3>2. CASE d \in 1 .. Len(stack[u])
      BY <1>6, <2>1, <3>2
    <3> QED  BY <1>6, <3>1, <3>2
  <2> QED  BY <2>1, <2>2, <2>3
<1>12. CountersAreRight'
  BY <1>1 DEF Good, CountersAreRight, CounterIsRight, Group
<1>13. MakersWait'
  <2>1. ASSUME NEW x \in Makers, SomeoneWaits(x) PROVE SomeoneWaits(x)'
    BY <1>6, <2>1 DEF SomeoneWaits
  <2> QED  BY <1>1, <2>1 DEF Good, MakersWait
<1> QED  BY <1>8, <1>9, <1>10, <1>11, <1>12, <1>13 DEF Good

LEMMA DispatchJobKeeps ==
    ASSUME Types, Good, NEW t \in Threads, DispatchJob(t)
    PROVE  Types' /\ Good'
<1> DEFINE n == Len(stack[t])
           m == Top(t).job
<1>1. /\ n \in Nat \ {0} /\ Top(t) = stack[t][n] /\ Top(t) \in FrameSet
      /\ Top(t).phase = "dispatch" /\ m \in Makers
  BY TopIsAFrame DEF DispatchJob, In, FrameSet
<1>2. PICK j \in Top(t).pending :
         LET f == [Top(t) EXCEPT !.pending = @ \ {j}]
         IN  IF Len(queue) < JOB_QUEUE_SIZE
             THEN queue' = Append(queue, j) /\ SetTop(t, f)
             ELSE /\ stack' = [stack EXCEPT ![t] = Append([@ EXCEPT ![Depth(t)] = f], Frame(j))]
                  /\ UNCHANGED queue
  BY DEF DispatchJob
<1> DEFINE f == [Top(t) EXCEPT !.pending = @ \ {j}]
<1>3. /\ f \in FrameSet /\ f.job = m /\ f.phase = "dispatch" /\ f.pending = Top(t).pending \ {j}
  BY <1>1 DEF FrameSet
<1>4. UNCHANGED <<maker, mode, mCounter, executed, exceptions, killed, threw>>
  BY DEF DispatchJob
<1>5. /\ j \in Jobs /\ j \notin executed /\ maker[j] = m
      /\ \A u \in Threads : \A d \in 1 .. Len(stack[u]) :
            /\ stack[u][d].job # j
            /\ j \in stack[u][d].pending => u = t /\ d = n
      /\ \A k \in 1 .. Len(queue) : queue[k] # j
  <2>1. FrameIsRight(stack[t][n]) /\ n \in 1 .. Len(stack[t])
    BY <1>1 DEF Good, FramesAreRight
  <2>2. j \in Jobs /\ j \notin executed /\ maker[j] = m
    BY <1>1, <2>1 DEF FrameIsRight, Group
  <2>3. \A u \in Threads : \A d \in 1 .. Len(stack[u]) : stack[u][d].job # j
    BY <1>1, <2>1 DEF Good, PendingIsNotOnStack
  <2>4. \A k \in 1 .. Len(queue) : queue[k] # j
    BY <1>1, <2>1 DEF Good, QueuedOnce
  <2>5. ASSUME NEW u \in Threads, NEW d \in 1 .. Len(stack[u]), j \in stack[u][d].pending
        PROVE  u = t /\ d = n
    <3>1. stack[u][d].job = stack[t][n].job
      BY <1>1, <2>2, <2>5 DEF Good, FramesAreRight, FrameIsRight, Group
    <3> QED  BY <2>1, <3>1 DEF Good, OnOneStack
  <2> QED  BY <2>2, <2>3, <2>4, <2>5
<1>6. queue \in Seq(Jobs) /\ Len(queue) \in Nat
  BY DEF Types
<1> HIDE DEF f, m
<1>7. CountersAreRight'
  BY <1>4 DEF Good, CountersAreRight, CounterIsRight, Group
\* What the frames of before become, whoever gets the job.
<1>8. ASSUME \A u \in Threads : \A d \in 1 .. Len(stack[u]) :
                /\ d \in 1 .. Len(stack'[u])
                /\ stack'[u][d] = IF u = t /\ d = n THEN f ELSE stack[u][d]
      PROVE  /\ \A u \in Threads : \A d \in 1 .. Len(stack[u]) :
                   /\ stack'[u][d].job = stack[u][d].job /\ stack[u][d].job # j
                   /\ stack'[u][d].pending \subseteq stack[u][d].pending \ {j}
                   /\ FrameIsRight(stack[u][d])'
                   /\ stack'[u][d].phase = stack[u][d].phase
             /\ MakersWait'
  <2>1. ASSUME NEW u \in Threads, NEW d \in 1 .. Len(stack[u])
        PROVE  /\ stack'[u][d].job = stack[u][d].job /\ stack[u][d].job # j
               /\ stack'[u][d].pending \subseteq stack[u][d].pending \ {j}
               /\ stack'[u][d].phase = stack[u][d].phase
    BY <1>1, <1>3, <1>5, <1>8, <2>1 DEF m
  <2>2. ASSUME NEW u \in Threads, NEW d \in 1 .. Len(stack[u])
        PROVE  FrameIsRight(stack[u][d])'
    <3>1. FrameIsRight(stack[u][d])
      BY DEF Good, FramesAreRight
    <3> QED  BY <1>4, <2>1, <3>1 DEF FrameIsRight, Group
  <2>3. ASSUME NEW x \in Makers, SomeoneWaits(x) PROVE SomeoneWaits(x)'
    BY <1>8, <2>1, <2>3 DEF SomeoneWaits
  <2>4. MakersWait'
    BY <1>4, <2>3 DEF Good, MakersWait
  <2> QED  BY <2>1, <2>2, <2>4
<1>9. CASE Len(queue) < JOB_QUEUE_SIZE
  <2>1. /\ stack' \in [Threads -> Seq(FrameSet)]
        /\ \A u \in Threads : Len(stack'[u]) = Len(stack[u])
        /\ \A u \in Threads : \A d \in 1 .. Len(stack[u]) :
              stack'[u][d] = IF u = t /\ d = n THEN f ELSE stack[u][d]
    BY <1>2, <1>3, <1>9, TopChanges DEF DispatchJob, In, f
  <2>2. /\ queue' \in Seq(Jobs) /\ Len(queue') = Len(queue) + 1
        /\ \A k \in 1 .. Len(queue') : queue'[k] = IF k = Len(queue) + 1 THEN j ELSE queue[k]
    BY <1>2, <1>5, <1>6, <1>9
  <2>3. /\ \A u \in Threads : \A d \in 1 .. Len(stack[u]) :
              /\ stack'[u][d].job = stack[u][d].job /\ stack[u][d].job # j
              /\ stack'[u][d].pending \subseteq stack[u][d].pending \ {j}
              /\ FrameIsRight(stack[u][d])'
              /\ stack'[u][d].phase = stack[u][d].phase
        /\ MakersWait'
    BY <1>8, <2>1
  <2>4. Types'
    BY <1>4, <2>1, <2>2 DEF Types
  <2>5. FramesAreRight'
    <3>1. \A u \in Threads : \A d \in 1 .. Len(stack[u]) :
             d < Len(stack[u]) => stack[u][d].phase \in {"dispatch", "await"}
      BY DEF Good, FramesAreRight
    <3> QED  BY <2>1, <2>3, <3>1 DEF FramesAreRight
  <2>6. OnOneStack' /\ MainAtBottom'
    BY <2>1, <2>3, JobsKeepTheirPlaces DEF Good
  <2>7. PendingIsNotOnStack'
    <3> SUFFICES ASSUME NEW u \in Threads, NEW v \in Threads,
                        NEW d \in 1 .. Len(stack[u]), NEW e \in 1 .. Len(stack[v])
                 PROVE  stack'[v][e].job \notin stack'[u][d].pending
      BY <2>1 DEF PendingIsNotOnStack
    <3>1. stack[v][e].job \notin stack[u][d].pending
      BY DEF Good, PendingIsNotOnStack
    <3> QED  BY <2>3, <3>1
  <2>8. QueuedOnce'
    <3> SUFFICES ASSUME NEW k \in 1 .. Len(queue')
                 PROVE  /\ queue'[k] \notin executed /\ maker[queue'[k]] \in Makers
                        /\ \A l \in 1 .. Len(queue') : queue'[l] = queue'[k] => l = k
                        /\ \A u \in Threads : \A d \in 1 .. Len(stack[u]) :
                              stack'[u][d].job # queue'[k] /\ queue'[k] \notin stack'[u][d].pending
      BY <1>4, <2>1 DEF QueuedOnce
    <3>1. CASE k = Len(queue) + 1
      <4>1. queue'[k] = j /\ \A l \in 1 .. Len(queue') : queue'[l] = j => l = k
        BY <1>5, <1>6, <2>2, <3>1
      <4> QED  BY <1>1, <1>5, <2>3, <4>1
    <3>2. CASE k # Len(queue) + 1
      <4>1. k \in 1 .. Len(queue) /\ queue'[k] = queue[k]
        BY <1>6, <2>2, <3>2
      <4>2. /\ queue[k] \notin executed /\ maker[queue[k]] \in Makers /\ queue[k] # j
            /\ \A l \in 1 .. Len(queue) : queue[l] = queue[k] => l = k
            /\ \A u \in Threads : \A d \in 1 .. Len(stack[u]) :
                   stack[u][d].job # queue[k] /\ queue[k] \notin stack[u][d].pending
        BY <1>5, <4>1 DEF Good, QueuedOnce
      <4>3. \A l \in 1 .. Len(queue') : queue'[l] = queue'[k] => l = k
        BY <1>6, <2>2, <4>1, <4>2
      <4> QED  BY <2>3, <4>1, <4>2, <4>3
    <3> QED  BY <3>1, <3>2
  <2> QED  BY <1>7, <2>3, <2>4, <2>5, <2>6, <2>7, <2>8 DEF Good
<1>10. CASE ~(Len(queue) < JOB_QUEUE_SIZE)
  <2> DEFINE q == [stack[t] EXCEPT ![n] = f]
  <2>1. q \in Seq(FrameSet) /\ Len(q) = n /\ \A d \in 1 .. n : q[d] = IF d = n THEN f ELSE stack[t][d]
    <3>1. stack[t] \in Seq(FrameSet)
      BY DEF Types
    <3> QED  BY <1>1, <1>3, <3>1, ExceptSeq
  <2>2. stack' = [stack EXCEPT ![t] = Append(q, Frame(j))] /\ queue' = queue
    BY <1>2, <1>10 DEF Depth, f
  <2> HIDE DEF q
  <2>3. Frame(j) \in FrameSet /\ Frame(j).job = j /\ Frame(j).phase = "run" /\ Frame(j).pending = {}
    BY <1>5 DEF Frame, FrameSet, Makers, Phases
  <2>4. /\ stack' \in [Threads -> Seq(FrameSet)]
        /\ \A u \in Threads : Len(stack'[u]) = IF u = t THEN Len(stack[u]) + 1 ELSE Len(stack[u])
        /\ stack'[t][n + 1] = Frame(j)
        /\ \A u \in Threads : \A d \in 1 .. Len(stack[u]) :
              stack'[u][d] = IF u = t /\ d = n THEN f ELSE stack[u][d]
    BY <1>1, <2>1, <2>2, <2>3 DEF Types
  <2>5. \A u \in Threads :
           /\ Len(stack[u]) \in Nat
           /\ \A d \in 1 .. Len(stack[u]) : d \in 1 .. Len(stack'[u])
           /\ \A d \in 1 .. Len(stack'[u]) : d \in 1 .. Len(stack[u]) \/ (u = t /\ d = n + 1)
    BY <2>4 DEF Types
  <2>6. /\ \A u \in Threads : \A d \in 1 .. Len(stack[u]) :
              /\ stack'[u][d].job = stack[u][d].job /\ stack[u][d].job # j
              /\ stack'[u][d].pending \subseteq stack[u][d].pending \ {j}
              /\ FrameIsRight(stack[u][d])'
              /\ stack'[u][d].phase = stack[u][d].phase
        /\ MakersWait'
    BY <1>8, <2>4, <2>5
  <2>7. Types'
    BY <1>4, <2>2, <2>4 DEF Types
  <2>8. OnOneStack' /\ PendingIsNotOnStack' /\ MainAtBottom'
    BY <1>5, <2>4, <2>6, JobEnters, SMTT(30)
  <2>9. FramesAreRight'
    <3> SUFFICES ASSUME NEW u \in Threads, NEW d \in 1 .. Len(stack'[u])
                 PROVE  /\ FrameIsRight(stack[u][d])'
                        /\ d < Len(stack'[u]) => stack'[u][d].phase \in {"dispatch", "await"}
      BY DEF FramesAreRight
    <3>1. CASE u = t /\ d = n + 1
      <4>1. stack'[u][d] = Frame(j) /\ ~(d < Len(stack'[u]))
        BY <2>4, <2>5, <3>1
      <4> QED  BY <1>1, <1>4, <1>5, <2>3, <4>1 DEF FrameIsRight
    <3>2. CASE d \in 1 .. Len(stack[u])
      <4>1. d < Len(stack[u]) => stack[u][d].phase \in {"dispatch", "await"}
        BY <3>2 DEF Good, FramesAreRight
      <4>2. u = t /\ d = n => stack[u][d].phase = "dispatch"
        BY <1>1
      <4> QED  BY <2>4, <2>5, <2>6, <3>2, <4>1, <4>2
    <3> QED  BY <2>5, <3>1, <3>2
  <2>10. QueuedOnce'
    <3> SUFFICES ASSUME NEW k \in 1 .. Len(queue), NEW u \in Threads, NEW d \in 1 .. Len(stack'[u])
                 PROVE  stack'[u][d].job # queue[k] /\ queue[k] \notin stack'[u][d].pending
      BY <1>4, <2>2 DEF Good, QueuedOnce
    <3>1. CASE u = t /\ d = n + 1
      BY <1>5, <2>3, <2>4, <3>1
    <3>2. CASE d \in 1 .. Len(stack[u])
      <4>1. stack[u][d].job # queue[k] /\ queue[k] \notin stack[u][d].pending
        BY <3>2 DEF Good, QueuedOnce
      <4> QED  BY <2>6, <3>2, <4>1
    <3> QED  BY <2>5, <3>1, <3>2
  <2> QED  BY <1>7, <2>6, <2>7, <2>8, <2>9, <2>10 DEF Good
<1> QED  BY <1>9, <1>10

LEMMA ForkKeeps ==
    ASSUME Types, Good, NEW t \in Threads, NEW how \in {"sync", "async"}, Fork(t, how)
    PROVE  Types' /\ Good'
<1> DEFINE n == Len(stack[t])
<1>1. /\ n \in Nat \ {0} /\ Top(t) = stack[t][n] /\ Top(t) \in FrameSet /\ Top(t).phase = "run"
  BY TopIsAFrame DEF Fork, In
<1>2. PICK m \in Makers : m = Top(t).job
  BY <1>1 DEF FrameSet
<1> PICK group \in (SUBSET {j \in Jobs : maker[j] = Nobody}) \ {{}} :
          /\ Cardinality(group) <= MaxGroup
          /\ maker' = [j \in Jobs |-> IF j \in group THEN Top(t).job ELSE maker[j]]
          /\ IF how = "sync" THEN SetCounterValue(Top(t).job, Cardinality(group))
                             ELSE UNCHANGED mCounter
          /\ SetTop(t, [Top(t) EXCEPT !.phase = "dispatch", !.pending = group])
  BY DEF Fork
<1>3. /\ maker' = [j \in Jobs |-> IF j \in group THEN m ELSE maker[j]]
      /\ mCounter' = IF how = "sync" THEN [mCounter EXCEPT ![m] = Cardinality(group)] ELSE mCounter
  <2>1. maker' = [j \in Jobs |-> IF j \in group THEN m ELSE maker[j]]
    BY <1>2
  <2>2. mCounter' = IF how = "sync" THEN [mCounter EXCEPT ![m] = Cardinality(group)] ELSE mCounter
    BY <1>2 DEF SetCounterValue
  <2> QED  BY <2>1, <2>2
<1>4. PICK f \in FrameSet : /\ f = [Top(t) EXCEPT !.phase = "dispatch", !.pending = group]
                           /\ f.job = m /\ f.phase = "dispatch" /\ f.pending = group
  <2> DEFINE g == [Top(t) EXCEPT !.phase = "dispatch", !.pending = group]
  <2>1. g \in FrameSet /\ g.job = m /\ g.phase = "dispatch" /\ g.pending = group
    BY <1>1, <1>2, <1>3 DEF FrameSet, Phases
  <2> HIDE DEF g
  <2>2. \E f \in FrameSet : f = g /\ f.job = m /\ f.phase = "dispatch" /\ f.pending = group
    BY <2>1
  <2> QED  BY <2>2 DEF g
<1>5. /\ stack' \in [Threads -> Seq(FrameSet)]
      /\ \A u \in Threads : Len(stack'[u]) = Len(stack[u])
      /\ \A u \in Threads : \A d \in 1 .. Len(stack[u]) :
            stack'[u][d] = IF u = t /\ d = n THEN f ELSE stack[u][d]
  BY <1>3, <1>4, TopChanges DEF Fork, In
<1>6. /\ UNCHANGED <<queue, executed, exceptions, killed, threw>>
      /\ mode[m] = "none" /\ mode' = [mode EXCEPT ![m] = how]
  BY <1>2 DEF Fork
<1>7. \A j \in group : j \in Jobs /\ maker[j] \notin Makers /\ maker'[j] = m
  BY <1>3, JobAssumption
<1>8. /\ Group(m) = {}
      /\ \A x \in Makers : Group(x)' = IF x = m THEN group ELSE Group(x)
      /\ \A j \in Jobs : maker[j] \in Makers => maker'[j] = maker[j] /\ maker[j] # m /\ j \notin group
  <2>1. Group(m) = {}
    BY <1>6 DEF Good, CountersAreRight, CounterIsRight
  <2>2. \A x \in Makers : Group(x)' = IF x = m THEN group ELSE Group(x)
    BY <1>3, <1>7, <2>1 DEF Group
  <2> QED  BY <1>3, <1>7, <2>1, <2>2 DEF Group
<1>9. group \cap executed = {}
  BY <1>7 DEF Good, CountersAreRight
<1>10. Types'
  <2>1. IsFiniteSet(group)
    BY <1>3, FS_Subset, JobAssumption
  <2>2. mCounter' \in [Makers -> Nat]
    BY <1>3, <2>1, FS_CardinalityType DEF Types
  <2> QED  BY <1>3, <1>5, <1>6, <2>2 DEF Types
<1>11. \A u \in Threads : \A d \in 1 .. Len(stack[u]) :
          /\ stack'[u][d].job = stack[u][d].job
          /\ stack[u][d].job = m => u = t /\ d = n
          /\ stack[u][d].job \notin group
  <2> SUFFICES ASSUME NEW u \in Threads, NEW d \in 1 .. Len(stack[u])
               PROVE  /\ stack'[u][d].job = stack[u][d].job
                      /\ stack[u][d].job = m => u = t /\ d = n
                      /\ stack[u][d].job \notin group
    OBVIOUS
  <2>1. stack'[u][d].job = stack[u][d].job
    BY <1>1, <1>2, <1>4, <1>5
  <2>2. stack[u][d].job = m => u = t /\ d = n
    BY <1>1, <1>2 DEF Good, OnOneStack
  <2>3. FrameIsRight(stack[u][d])
    BY DEF Good, FramesAreRight
  <2> QED  BY <1>7, <2>1, <2>2, <2>3 DEF FrameIsRight
<1>12. OnOneStack' /\ MainAtBottom'
  BY <1>5, <1>11, JobsKeepTheirPlaces DEF Good
<1>13. FramesAreRight'
  <2> SUFFICES ASSUME NEW u \in Threads, NEW d \in 1 .. Len(stack[u])
               PROVE  /\ FrameIsRight(stack[u][d])'
                      /\ d < Len(stack[u]) => stack'[u][d].phase \in {"dispatch", "await"}
    BY <1>5 DEF FramesAreRight
  <2>1. /\ FrameIsRight(stack[u][d])
        /\ d < Len(stack[u]) => stack[u][d].phase \in {"dispatch", "await"}
    BY DEF Good, FramesAreRight
  <2>2. CASE u = t /\ d = n
    <3>1. stack'[u][d] = f /\ m \notin executed /\ (m \in Jobs => maker'[m] \in Makers)
      BY <1>1, <1>2, <1>5, <1>8, <2>1, <2>2 DEF FrameIsRight
    <3>2. mode'[m] = how /\ how # "none" /\ Group(m)' = group
      BY <1>6, <1>8 DEF Types
    <3> QED  BY <1>4, <1>6, <1>9, <2>2, <3>1, <3>2 DEF FrameIsRight
  <2>3. CASE ~(u = t /\ d = n)
    <3>1. PICK g \in FrameSet : g = stack[u][d]
      BY DEF Types
    <3>2. stack'[u][d] = g /\ g.job # m /\ g.job \in Makers
      BY <1>5, <1>11, <2>3, <3>1 DEF FrameSet
    <3>3. mode'[g.job] = mode[g.job] /\ Group(g.job)' = Group(g.job)
      BY <1>6, <1>8, <3>1, <3>2 DEF Types
    <3> QED  BY <1>6, <1>8, <2>1, <3>1, <3>2, <3>3 DEF FrameIsRight
  <2> QED  BY <2>2, <2>3
<1>14. QueuedOnce'
  <2> SUFFICES ASSUME NEW k \in 1 .. Len(queue)
               PROVE  /\ maker'[queue[k]] \in Makers
                      /\ \A u \in Threads : \A d \in 1 .. Len(stack[u]) :
                            stack'[u][d].job # queue[k] /\ queue[k] \notin stack'[u][d].pending
    BY <1>5, <1>6 DEF Good, QueuedOnce
  <2>1. queue[k] \in Jobs
    BY DEF Types
  <2>2. /\ maker[queue[k]] \in Makers
        /\ \A u \in Threads : \A d \in 1 .. Len(stack[u]) :
              stack[u][d].job # queue[k] /\ queue[k] \notin stack[u][d].pending
    BY DEF Good, QueuedOnce
  <2>3. queue[k] \notin group /\ maker'[queue[k]] = maker[queue[k]]
    BY <1>8, <2>1, <2>2
  <2>4. \A u \in Threads : \A d \in 1 .. Len(stack[u]) :
           stack'[u][d].pending = IF u = t /\ d = n THEN group ELSE stack[u][d].pending
    BY <1>4, <1>5
  <2> QED  BY <1>11, <2>2, <2>3, <2>4
<1>15. PendingIsNotOnStack'
  <2> SUFFICES ASSUME NEW u \in Threads, NEW v \in Threads,
                      NEW d \in 1 .. Len(stack[u]), NEW e \in 1 .. Len(stack[v])
               PROVE  stack'[v][e].job \notin stack'[u][d].pending
    BY <1>5 DEF PendingIsNotOnStack
  <2>1. stack[v][e].job \notin stack[u][d].pending
    BY DEF Good, PendingIsNotOnStack
  <2>2. stack'[u][d].pending \in {group, stack[u][d].pending}
    BY <1>4, <1>5
  <2>3. stack'[v][e].job = stack[v][e].job /\ stack[v][e].job \notin group
    BY <1>11
  <2> QED  BY <2>1, <2>2, <2>3
<1>16. CountersAreRight'
  <2>1. \A j \in executed' : maker'[j] \in Makers
    BY <1>6, <1>8 DEF Good, CountersAreRight, Types
  <2>2. ASSUME NEW x \in Makers PROVE CounterIsRight(x)'
    <3>1. CASE x = m
      <4>1. Group(x)' = group /\ group \ executed = group /\ mode'[x] = how
        BY <1>6, <1>8, <1>9, <3>1 DEF Types
      <4>2. how = "sync" => mCounter'[x] = Cardinality(group)
        BY <1>3, <3>1 DEF Types
      <4> QED  BY <1>3, <1>6, <4>1, <4>2 DEF CounterIsRight
    <3>2. CASE x # m
      <4>1. Group(x)' = Group(x) /\ mode'[x] = mode[x] /\ mCounter'[x] = mCounter[x]
        BY <1>3, <1>6, <1>8, <3>2 DEF Types
      <4> QED  BY <1>6, <4>1 DEF Good, CountersAreRight, CounterIsRight
    <3> QED  BY <3>1, <3>2
  <2> QED  BY <2>1, <2>2 DEF CountersAreRight
<1>17. MakersWait'
  <2>1. SomeoneWaits(m)'
    <3>1. n \in 1 .. Len(stack'[t]) /\ stack'[t][n] = f
      BY <1>1, <1>5
    <3> QED  BY <1>4, <3>1 DEF SomeoneWaits
  <2>2. ASSUME NEW x \in Makers, SomeoneWaits(x) PROVE SomeoneWaits(x)'
    BY <1>1, <1>5, <2>2 DEF SomeoneWaits
  <2>3. ASSUME threw = {}, NEW j \in Jobs \ executed, maker'[j] \in Makers, mode'[maker'[j]] = "sync"
        PROVE  maker'[j] = m \/ (SomeoneWaits(maker[j]) /\ maker'[j] = maker[j])
    <3>1. CASE j \in group
      BY <1>7, <3>1
    <3>2. CASE j \notin group
      <4>1. maker'[j] = maker[j] /\ maker[j] \in Makers /\ maker[j] # m
        BY <1>3, <1>8, <2>3, <3>2
      <4>2. mode[maker[j]] = "sync"
        BY <1>6, <2>3, <4>1 DEF Types
      <4> QED  BY <2>3, <4>1, <4>2 DEF Good, MakersWait
    <3> QED  BY <3>1, <3>2
  <2>4. ASSUME threw = {}, NEW j \in Jobs \ executed, maker'[j] \in Makers, mode'[maker'[j]] = "sync"
        PROVE  SomeoneWaits(maker[j])'
    <3>1. PICK x \in Makers : x = maker'[j]
      BY <2>4
    <3>2. SomeoneWaits(x)'
      BY <2>1, <2>2, <2>3, <2>4, <3>1
    <3> QED  BY <3>1, <3>2 DEF SomeoneWaits
  <2> QED  BY <1>6, <2>4 DEF Good, MakersWait
<1> QED  BY <1>10, <1>12, <1>13, <1>14, <1>15, <1>16, <1>17 DEF Good
-----------------------------------------------------------------------------
LEMMA InitialState == Init => Types /\ Good
<1> SUFFICES ASSUME Init PROVE Types /\ Good
  OBVIOUS
<1>1. /\ Main \in Threads /\ Main \in Makers /\ Main \notin Jobs /\ Nobody \notin Makers
      /\ Frame(Main) \in FrameSet /\ Frame(Main).job = Main /\ Frame(Main).phase = "run"
      /\ Frame(Main).pending = {}
  BY JobAssumption DEF Threads, Makers, Frame, FrameSet, Phases
<1>2. /\ \A t \in Threads : /\ stack[t] \in Seq(FrameSet)
                            /\ Len(stack[t]) = IF t = Main THEN 1 ELSE 0
      /\ stack[Main] # <<>> /\ stack[Main][1] = Frame(Main)
  BY <1>1 DEF Init
<1>3. \A m \in Makers : Group(m) = {}
  BY <1>1 DEF Init, Group
<1>4. Types
  BY <1>1, <1>2 DEF Init, Types
<1>5. \A t \in Threads : \A d \in 1 .. Len(stack[t]) : t = Main /\ d = 1 /\ stack[t][d] = Frame(Main)
  BY <1>2
<1>6. FrameIsRight(Frame(Main))
  BY <1>1, <1>3 DEF Init, FrameIsRight
<1>7. MainAtBottom /\ OnOneStack /\ PendingIsNotOnStack
  BY <1>1, <1>2, <1>5 DEF MainAtBottom, OnOneStack, PendingIsNotOnStack
<1>8. FramesAreRight
  BY <1>2, <1>5, <1>6 DEF FramesAreRight
<1>9. QueuedOnce /\ CountersAreRight
  BY <1>3 DEF Init, QueuedOnce, CountersAreRight, CounterIsRight
<1>10. MakersWait
  BY <1>1 DEF Init, MakersWait
<1> QED  BY <1>4, <1>7, <1>8, <1>9, <1>10 DEF Good

LEMMA StepsKeep ==
    ASSUME Types, Good, [Next]_vars
    PROVE  Types' /\ Good'
<1>1. CASE Next
  <2>1. PICK t \in Threads : Forks(t) \/ Proceed(t) \/ Finish(t)
    BY <1>1 DEF Next
  <2> QED
    BY <2>1, ForkKeeps, DispatchJobKeeps, DispatchEndsKeeps, AwaitEndsKeeps, TryExecuteJobKeeps,
       CatchDecrementsKeeps, RethrowKeeps, HandleThrownExceptionsKeeps, JobReturnsKeeps, JobThrowsKeeps
       DEF Forks, ExecuteJobs, ExecuteJobsAsync, Proceed, Finish
<1>2. CASE UNCHANGED vars
  <2>1. Types'
    BY <1>2 DEF vars, Types
  <2>2. MainAtBottom' /\ OnOneStack' /\ PendingIsNotOnStack'
    BY <1>2 DEF vars, Good, MainAtBottom, OnOneStack, PendingIsNotOnStack
  <2>3. FramesAreRight'
    BY <1>2 DEF vars, Good, FramesAreRight, FrameIsRight, Group
  <2>4. QueuedOnce'
    BY <1>2 DEF vars, Good, QueuedOnce
  <2>5. CountersAreRight'
    BY <1>2 DEF vars, Good, CountersAreRight, CounterIsRight, Group
  <2>6. MakersWait'
    BY <1>2 DEF vars, Good, MakersWait, SomeoneWaits
  <2> QED  BY <2>1, <2>2, <2>3, <2>4, <2>5, <2>6 DEF Good
<1> QED  BY <1>1, <1>2

\* The invariant holds in every state of every behaviour.
THEOREM InvariantHolds == Spec => []IInv
<1>1. Init => IInv
  BY InitialState DEF IInv
<1>2. IInv /\ [Next]_vars => IInv'
  BY StepsKeep DEF IInv
<1> QED  BY <1>1, <1>2, PTL DEF Spec

\* Until a callback throws, each outlives the jobs it waits for (Job::Execute,
\* JobGroup::ExecuteJobs), on whichever stacks and in whichever order they execute.
THEOREM CallbacksOutliveTheirJobs == Spec => []StackSafety
<1>1. Types /\ Good => StackSafety
  <2> SUFFICES ASSUME Types, Good, threw = {},
                      NEW j \in (Queued \cup OnStack) \ (executed \cup {Main}),
                      mode[maker[j]] = "sync"
               PROVE  \E f \in Frames : f.job = maker[j] /\ f.phase \in {"dispatch", "await"}
    BY DEF StackSafety, MakerOutlivesJobs
  <2>1. j \in Jobs /\ maker[j] \in Makers
    <3>1. CASE j \in Queued
      BY <3>1 DEF Queued, Types, Good, QueuedOnce
    <3>2. CASE j \in OnStack
      <4>1. PICK t \in Threads : \E d \in 1 .. Len(stack[t]) : j = stack[t][d].job
        BY <3>2 DEF OnStack, Frames
      <4>2. PICK d \in 1 .. Len(stack[t]) : j = stack[t][d].job
        BY <4>1
      <4>3. stack[t][d] \in FrameSet /\ FrameIsRight(stack[t][d])
        BY DEF Types, Good, FramesAreRight
      <4> QED  BY <4>2, <4>3 DEF FrameSet, Makers, FrameIsRight
    <3> QED  BY <3>1, <3>2
  <2>2. SomeoneWaits(maker[j])
    BY <2>1 DEF Good, MakersWait
  <2> QED  BY <2>2 DEF SomeoneWaits, Frames
<1> QED  BY <1>1, InvariantHolds, PTL DEF IInv

\* A group that is waited for is left only after all its jobs (JobGroup::ExecuteJobs),
\* and passes an exception on only then (Job::Execute).
THEOREM GroupsAreLeftLast == Spec => JoinAfterAll
<1>1. ASSUME Types, Good, NEW t \in Threads, AwaitEnds(t)
      PROVE  Group(Top(t).job) \subseteq executed
  <2>1. Top(t) = stack[t][Len(stack[t])] /\ Top(t).phase = "await" /\ Len(stack[t]) \in Nat \ {0}
    BY <1>1, TopIsAFrame DEF AwaitEnds, In
  <2>2. Top(t).job \in Makers /\ mode[Top(t).job] = "sync"
    BY <1>1, <2>1, TopIsAFrame DEF AwaitEnds, In, Good, FramesAreRight, FrameIsRight, FrameSet
  <2> QED  BY <1>1, <2>2, FinishedGroup DEF AwaitEnds, Good
<1>2. ASSUME Types, Good, NEW t \in Threads, Rethrow(t), mode[maker[Top(t).job]] = "sync"
      PROVE  Group(maker[Top(t).job]) \subseteq executed
  <2>1. Top(t) = stack[t][Len(stack[t])] /\ Top(t).phase = "spin" /\ Len(stack[t]) \in Nat \ {0}
    BY <1>2, TopIsAFrame DEF Rethrow, In
  <2>2. FrameIsRight(stack[t][Len(stack[t])])
    BY <1>2, <2>1 DEF Good, FramesAreRight
  <2>3. maker[Top(t).job] \in Makers
    BY <1>2, <2>1, <2>2 DEF FrameIsRight, Types
  <2> QED  BY <1>2, <2>3, FinishedGroup DEF Rethrow, SiblingsEnded, Good
<1>3. Types /\ Good =>
        [\A t \in Threads :
          /\ AwaitEnds(t) => Group(Top(t).job) \subseteq executed
          /\ (Rethrow(t) /\ mode[maker[Top(t).job]] = "sync")
                => Group(maker[Top(t).job]) \subseteq executed]_vars
  BY <1>1, <1>2
<1> QED  BY <1>3, InvariantHolds, PTL DEF JoinAfterAll, IInv

\* Both together: groups are joined.
THEOREM GroupsAreJoinedTheorem == Spec => GroupsAreJoined
BY CallbacksOutliveTheirJobs, GroupsAreLeftLast, PTL DEF GroupsAreJoined
=============================================================================
