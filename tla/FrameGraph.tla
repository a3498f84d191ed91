----------------------------- MODULE FrameGraph -----------------------------
(***************************************************************************)
(* Brawler::D3D12::FrameGraph: the render modules add bundles of render    *)
(* passes, from which the frame graph makes sync points, execution         *)
(* modules, groups of transient resources that share memory, and the       *)
(* events that put every sub-resource into the state a pass requires.      *)
(*                                                                         *)
(* The analysis of a resource is one job and touches that resource only,   *)
(* so the order of the jobs makes no difference and one step analyses a    *)
(* module for all of them.  The GPU then executes one module at a time, by *)
(* the rules of Direct3D 12 for promotion, decay and barriers, and faults  *)
(* has what is wrong with its commands.  An assertion that fails ends the  *)
(* program (a debug build).                                                *)
(***************************************************************************)
EXTENDS Integers, FiniteSets, Sequences, SequencesExt, FiniteSetsExt

CONSTANTS Resources,
          SubResourceCount,    \* of every resource
          AlwaysDecays,        \* the buffers and simultaneous-access textures
          SpecialInit,         \* the render targets
          Transient,           \* the resources created anew for every frame
          InitialState,        \* by resource
          ResourceSize,        \* by resource
          HeapType,            \* by resource
          CanAliasBeforeUseOnGPU, CanAliasAfterUseOnGPU,  \* sets of resources
          Bundles,             \* what a render module may add
          MaxPasses,           \* bound: the passes the render modules add to a frame
          MaxFrames,           \* bound
          MaxPassesPerModule   \* MAX_RENDER_PASSES_PER_GPU_EXECUTION_MODULE

(***************************************************************************)
(* The states of one sub-resource and the barriers it needs, as            *)
(* GPUSubResourceStateBarrierMerger finds them while it walks the render   *)
(* passes of a frame.  A D3D12_RESOURCE_STATES value is the set of its     *)
(* bits, and COMMON (also PRESENT) has none.  An optional value is a set   *)
(* with at most one element; a render pass is named by its module, its     *)
(* queue and its place in that queue.                                      *)
(***************************************************************************)
Queues == {"DIRECT", "COMPUTE", "COPY"}

COMMON     == {}
WriteBits  == {"RENDER_TARGET", "UNORDERED_ACCESS", "COPY_DEST"}
ReadBits   == {"PIXEL_SHADER_RESOURCE", "NON_PIXEL_SHADER_RESOURCE", "COPY_SOURCE"}
States     == SUBSET (WriteBits \cup ReadBits)
Promotable == ReadBits \cup {"COPY_DEST"}

The(option) == CHOOSE x \in option : TRUE

IsValidReadState(state)  == state \cap WriteBits = {}
IsValidWriteState(state) == \/ state = COMMON
                            \/ state \cap ReadBits = {} /\ Cardinality(state) = 1
IsResourceStateValid(state) == IsValidReadState(state) \/ IsValidWriteState(state)

StatesOfQueue(queue) ==
    CASE queue = "DIRECT"  -> ReadBits \cup WriteBits
      [] queue = "COMPUTE" -> {"COPY_DEST", "COPY_SOURCE", "UNORDERED_ACCESS",
                               "NON_PIXEL_SHADER_RESOURCE"}
      [] queue = "COPY"    -> {"COPY_DEST", "COPY_SOURCE"}

CanQueuePerformResourceTransition(queue, before, after) ==
    before \cup after \subseteq StatesOfQueue(queue)

\* always: the resource is a buffer, or a texture with simultaneous access.
IsImplicitStateTransitionPossible(always, promoted) ==
    IsResourceStateValid(promoted) /\ (always \/ promoted \subseteq Promotable)

-----------------------------------------------------------------------------
(* BarrierMergerStateContainer and GPUSubResourceStateBarrierMerger.       *)

NewMerger(always, state) ==
    [always    |-> always,
     before    |-> state,
     after     |-> {},
     implicit  |-> state = COMMON,   \* mAllowImplicitTransitions
     begin     |-> <<>>,             \* mBeginBarrierPassArr
     end       |-> {},               \* mEndBarrierPass
     wasUAV    |-> FALSE,
     events    |-> <<>>,
     failed    |-> FALSE]            \* the assertion of UpdateAfterState failed

IsImplicitTransitionPossible(m, required) ==
    m.implicit /\ IsImplicitStateTransitionPossible(m.always, m.before \cup required)

CanAfterStateBeCombined(m, required) ==
    \/ m.after = {}
    \/ IsImplicitTransitionPossible(m, required)
    \/ LET after == The(m.after)
       IN  IF COMMON \in {after, required} THEN after = required
           ELSE IsResourceStateValid(after \cup required)

HasExplicitStateTransition(m) == m.after # {} /\ The(m.after) # m.before

DoImplicitReadStateTransitionsAllowStateDecay(m) == m.implicit /\ IsValidReadState(m.before)

UpdateAfterState(m, required) ==
    IF IsImplicitTransitionPossible(m, required)
    THEN [m EXCEPT !.before = @ \cup required]
    ELSE [m EXCEPT !.implicit = FALSE,
                   !.after    = {IF @ = {} THEN required ELSE The(@) \cup required},
                   !.failed   = @ \/ ~CanAfterStateBeCombined(m, required)]

SwapStates(m) ==
    IF m.after = {} THEN m
    ELSE [m EXCEPT !.before = The(m.after), !.after = {},
                   !.implicit = @ \/ The(m.after) = COMMON]

EraseBarrierPasses(m) == [m EXCEPT !.begin = <<>>, !.end = {}]

\* A split barrier where a pass that could begin it is on a queue that knows
\* both states, and a whole one before the pass that needs it otherwise.
TransitionEvents(m) ==
    LET before == m.before
        after  == The(m.after)
        transition(at, flag) == [kind |-> "TRANSITION", at |-> at, before |-> before,
                                 after |-> after, flag |-> flag]
        able == {i \in DOMAIN m.begin :
                    CanQueuePerformResourceTransition(m.begin[i].queue, before, after)}
        first == CHOOSE i \in able : \A j \in able : i <= j
    IN  IF able = {} THEN <<transition(The(m.end), "NONE")>>
        ELSE <<transition(m.begin[first], "BEGIN_ONLY"), transition(The(m.end), "END_ONLY")>>

NeedsBarrier(before, after) ==
    IF COMMON \in {before, after} THEN before # after ELSE ~(after \subseteq before)

CommitExistingExplicitResourceTransition(m) ==
    EraseBarrierPasses(
        IF ~HasExplicitStateTransition(m) THEN SwapStates(m)
        ELSE IF NeedsBarrier(m.before, The(m.after))
        THEN SwapStates([m EXCEPT !.events = @ \o TransitionEvents(m)])
        ELSE m)

DecayResourceState(m) ==
    [CommitExistingExplicitResourceTransition(m) EXCEPT
        !.before = COMMON, !.after = {}, !.implicit = TRUE]

\* A mutant: a split barrier may begin before the resource is initialised.
AddBeginPassUninitialised(m, at, requiresInitialization) ==
    IF m.end # {} \/ \E i \in DOMAIN m.begin : m.begin[i].queue = at.queue THEN m
    ELSE [m EXCEPT !.begin = Append(@, at)]

AddPotentialBeginBarrierRenderPass(m, at, requiresInitialization) ==
    IF \/ m.end # {} \/ requiresInitialization
       \/ \E i \in DOMAIN m.begin : m.begin[i].queue = at.queue
    THEN m
    ELSE [m EXCEPT !.begin = Append(@, at)]

CanUseAdditionalBeginBarrierRenderPasses(m) ==
    \A i \in DOMAIN m.begin : m.begin[i].queue # "DIRECT"

CheckForOtherGPUResourceEvents(m, required, at, requiresInitialization) ==
    LET event(kind) == [kind |-> kind, at |-> at, before |-> COMMON, after |-> COMMON,
                        flag |-> "NONE"]
        isUAV == required = {"UNORDERED_ACCESS"}
    IN  [m EXCEPT
            !.events = @ \o (IF requiresInitialization THEN <<event("INITIALIZATION")>> ELSE <<>>)
                         \o (IF isUAV /\ m.wasUAV THEN <<event("UAV_BARRIER")>> ELSE <<>>),
            !.wasUAV = isUAV]

HandleResourceDependency(merger, required, at, requiresInitialization) ==
    LET checked == CheckForOtherGPUResourceEvents(merger, required, at, requiresInitialization)
        committed == IF CanAfterStateBeCombined(checked, required) THEN checked
                     ELSE CommitExistingExplicitResourceTransition(checked)
        erased == IF IsImplicitTransitionPossible(committed, required)
                  THEN EraseBarrierPasses(committed) ELSE committed
        updated == UpdateAfterState(erased, required)
    IN  IF HasExplicitStateTransition(updated) /\ updated.end = {}
        THEN [updated EXCEPT !.end = {at}] ELSE updated

-----------------------------------------------------------------------------
(* The frame graph.  A pass maps the sub-resources it uses to the states it *)
(* requires; a bundle and a module have a sequence of passes for every      *)
(* queue.                                                                  *)

QueueOrder == <<"DIRECT", "COMPUTE", "COPY">>
Subs       == Resources \X (1 .. SubResourceCount)

NoPasses          == [q \in Queues |-> <<>>]
PassCount(bundle) == MapThenSumSet(LAMBDA q : Len(bundle[q]), Queues)
UsedQueues(bundle) == {q \in Queues : bundle[q] # <<>>}
PassesUsing(bundle, q, sub) == {pass \in Range(bundle[q]) : sub \in DOMAIN pass}
QueuesUsing(bundle, sub)    == {q \in Queues : PassesUsing(bundle, q, sub) # {}}
QueuesUsingResource(bundle, r) ==
    UNION {QueuesUsing(bundle, <<r, i>>) : i \in 1 .. SubResourceCount}
RequiredStates(bundle, sub) ==
    {pass[sub] : pass \in UNION {PassesUsing(bundle, q, sub) : q \in Queues}}
UsedResources(bundle) ==
    {r \in Resources : QueuesUsingResource(bundle, r) # {}}

\* What the assertions of RenderPass, I_RenderModule and the sync point
\* factory demand of a bundle.
IsLegal(bundle) ==
    /\ UsedQueues(bundle) \notin {{}, {"COMPUTE"}}
    /\ \A q \in Queues : \A pass \in Range(bundle[q]) : \A sub \in DOMAIN pass :
         sub \in Subs /\ IsResourceStateValid(pass[sub]) /\ pass[sub] \subseteq StatesOfQueue(q)
    /\ \A sub \in Subs : Cardinality(QueuesUsing(bundle, sub)) > 1 =>
         /\ "COPY" \notin QueuesUsing(bundle, sub)
         /\ COMMON \notin RequiredStates(bundle, sub)
         /\ IsValidReadState(UNION RequiredStates(bundle, sub))

ASSUME FrameGraphAssumption ==
    /\ SubResourceCount \in Nat \ {0} /\ {MaxPasses, MaxFrames, MaxPassesPerModule} \subseteq Nat
    /\ AlwaysDecays \cup SpecialInit \cup Transient \subseteq Resources
    /\ \A r \in AlwaysDecays : InitialState[r] = COMMON
    /\ \A r \in SpecialInit  : InitialState[r] = {"RENDER_TARGET"}
    /\ \A bundle \in Bundles : IsLegal(bundle)

VARIABLES phase,        \* "build", "analyse", "execute", or "failed" after an assertion
          mRenderPassBundleArr,
          mExecutionModuleArr,
          mAliasableResourcesArr,
          mSubResourceState,            \* what the resource remembers between frames
          mRequiresSpecialInitialization,
          merger,                       \* by sub-resource
          currModule,                   \* the next module to analyse or to execute
          gpu,                          \* by sub-resource: what the GPU has
          frame                         \* ghost: bounds the behaviour

vars == <<phase, mRenderPassBundleArr, mExecutionModuleArr, mAliasableResourcesArr,
          mSubResourceState, mRequiresSpecialInitialization, merger, currModule, gpu, frame>>

-----------------------------------------------------------------------------
(* FrameGraphBuilder and FrameGraphSyncPointFactory.                       *)

\* A mutant: the copy queue needs no sync point.
SharedDependencies(bundle) ==
    {sub \in Subs : /\ sub[1] \notin AlwaysDecays
                    /\ {"DIRECT", "COMPUTE"} \subseteq QueuesUsing(bundle, sub)}

\* The sub-resources a sync point has to put into one state for all queues.
SyncPointDependencies(bundle) ==
    {sub \in Subs : /\ sub[1] \notin AlwaysDecays
                    /\ \/ {"DIRECT", "COMPUTE"} \subseteq QueuesUsing(bundle, sub)
                       \/ "COPY" \in QueuesUsing(bundle, sub)}

CombinedState(bundle, sub) ==
    IF "COPY" \in QueuesUsing(bundle, sub) THEN COMMON
    ELSE UNION RequiredStates(bundle, sub)

\* An optional bundle with one empty pass, for the dependencies that need it.
CreateSyncPoint(bundle) ==
    LET pass == [sub \in SyncPointDependencies(bundle) |-> CombinedState(bundle, sub)]
    IN  IF SyncPointDependencies(bundle) = {} THEN <<>>
        ELSE <<[passes |-> [NoPasses EXCEPT !["DIRECT"] = <<pass>>], isSyncPoint |-> TRUE]>>

CreateSyncPointForRenderPassBundle(bundle) ==
    IF UsedQueues(bundle) = {"DIRECT"} THEN <<>> ELSE CreateSyncPoint(bundle)

CreateSyncPoints(bundles) ==
    FlattenSeq([i \in DOMAIN bundles |->
                    CreateSyncPointForRenderPassBundle(bundles[i])
                        \o <<[passes |-> bundles[i], isSyncPoint |-> FALSE]>>])

(* FrameGraphExecutionContext::CreateGPUExecutionModules.                  *)

CanAddBundleToModule(module, bundle) ==
    \/ PassCount(module) = 0
    \/ /\ ~bundle.isSyncPoint
       /\ UsedQueues(module) = {"DIRECT"} /\ UsedQueues(bundle.passes) = {"DIRECT"}
       /\ PassCount(module) + PassCount(bundle.passes) <= MaxPassesPerModule

AddRenderPassBundle(module, bundle) == [q \in Queues |-> module[q] \o bundle.passes[q]]

CreateGPUExecutionModules(bundles) ==
    FoldLeft(LAMBDA modules, bundle :
                IF modules # <<>> /\ CanAddBundleToModule(Last(modules), bundle)
                THEN Front(modules) \o <<AddRenderPassBundle(Last(modules), bundle)>>
                ELSE Append(modules, bundle.passes),
             <<>>, bundles)

-----------------------------------------------------------------------------
(* TransientGPUResourceAliasTracker.                                       *)

Lifetime(bundles, r) == {i \in DOMAIN bundles : r \in UsedResources(bundles[i].passes)}
FirstUse(bundles, r) == Min(Lifetime(bundles, r))
LastUse(bundles, r)  == Max(Lifetime(bundles, r))

\* A mutant: a resource may start in the bundle in which the other ends.
OverlapsInside(bundles, r, s) ==
    FirstUse(bundles, r) < LastUse(bundles, s) /\ FirstUse(bundles, s) < LastUse(bundles, r)

Overlaps(bundles, r, s) ==
    FirstUse(bundles, r) <= LastUse(bundles, s) /\ FirstUse(bundles, s) <= LastUse(bundles, r)

\* r keeps what the CPU wrote into it, or has to read from it, next to s.
KeepsItsContents(bundles, r, s) ==
    /\ r \in CanAliasBeforeUseOnGPU \/ FirstUse(bundles, r) < FirstUse(bundles, s)
    /\ r \in CanAliasAfterUseOnGPU \/ LastUse(bundles, s) < LastUse(bundles, r)

CanJoin(bundles, group, r) ==
    \A s \in Range(group) : /\ ~Overlaps(bundles, s, r)
                            /\ KeepsItsContents(bundles, r, s) /\ KeepsItsContents(bundles, s, r)
                            /\ HeapType[r] = HeapType[s]

\* The resources by size; the set of the code breaks ties by their addresses.
SortedResourceInfoSets(bundles) ==
    {order \in SetToSeqs({r \in Transient : Lifetime(bundles, r) # {}}) :
        \A i, j \in DOMAIN order : i < j => ResourceSize[order[i]] >= ResourceSize[order[j]]}

NextGroup(bundles, order) ==
    FoldLeft(LAMBDA group, r : IF CanJoin(bundles, group, r) THEN Append(group, r) ELSE group,
             <<>>, order)

\* Groups are taken from the front of order until nothing is left of it.
CalculateAliasableResources(bundles, order) ==
    FoldLeft(LAMBDA found, i :
                LET rest == SelectSeq(order, LAMBDA r : \A g \in Range(found) : r \notin Range(g))
                IN  IF rest = <<>> THEN found ELSE Append(found, NextGroup(bundles, rest)),
             <<>>, order)

-----------------------------------------------------------------------------
(* GPUResourceStateTracker.                                                *)

TrackPass(acc, sub, k, q, i) ==
    LET pass == mExecutionModuleArr[k][q][i]
        at == [module |-> k, queue |-> q, index |-> i]
    IN  IF sub \in DOMAIN pass
        THEN [merger |-> HandleResourceDependency(acc.merger, pass[sub], at, acc.init), init |-> FALSE]
        ELSE [acc EXCEPT !.merger = AddPotentialBeginBarrierRenderPass(@, at, acc.init)]

\* acc has the merger of sub and whether its resource is not initialised yet.
TrackForSubResource(acc, sub, k) ==
    LET module == mExecutionModuleArr[k]
        users == QueuesUsing(module, sub)
        places(q) == [i \in DOMAIN module[q] |-> i]
    IN  IF Cardinality(users) = 1
        THEN FoldLeft(LAMBDA a, i : TrackPass(a, sub, k, The(users), i), acc, places(The(users)))
        ELSE IF users = {} /\ CanUseAdditionalBeginBarrierRenderPasses(acc.merger)
        THEN FoldLeft(LAMBDA a, q : IF module[q] = <<>> THEN a ELSE TrackPass(a, sub, k, q, 1),
                      acc, QueueOrder)
        ELSE acc

IsUsedInCopyQueue(r, k) == "COPY" \in QueuesUsingResource(mExecutionModuleArr[k], r)

CheckForResourceStateDecay(m, sub, k) ==
    IF \/ m.always \/ IsUsedInCopyQueue(sub[1], k)
       \/ DoImplicitReadStateTransitionsAllowStateDecay(m)
    THEN DecayResourceState(m) ELSE m

\* The debug assertion of CheckForResourceStateDecay.
CopyUseAsserted(k) ==
    \A sub \in Subs : IsUsedInCopyQueue(sub[1], k) =>
        Cardinality(QueuesUsing(mExecutionModuleArr[k], sub)) = 1

\* The mergers of r after module k, in the order of its sub-resources.
TrackResource(r, k) ==
    FoldLeft(LAMBDA acc, i :
                LET tracked == TrackForSubResource([merger |-> merger[<<r, i>>], init |-> acc.init],
                                                   <<r, i>>, k)
                IN  [mergers |-> Append(acc.mergers,
                                        CheckForResourceStateDecay(tracked.merger, <<r, i>>, k)),
                     init |-> tracked.init],
             [mergers |-> <<>>, init |-> r \in mRequiresSpecialInitialization],
             [i \in 1 .. SubResourceCount |-> i])

\* A mutant: the last transition is forgotten.
LeaveUncommitted(m) == m

FinalizeStateTracking(m) == CommitExistingExplicitResourceTransition(m)

-----------------------------------------------------------------------------
(* The GPU.                                                                *)

CanQueueHandleGPUResourceEvent(event) ==
    \/ event.at.queue = "DIRECT"
    \/ event.at.queue = "COMPUTE" /\ event.kind = "UAV_BARRIER"
    \/ /\ event.kind = "TRANSITION"
       /\ CanQueuePerformResourceTransition(event.at.queue, event.before, event.after)

Fault(s, fault, wrong) == IF wrong THEN [s EXCEPT !.faults = @ \cup {fault}] ELSE s

\* s is what the GPU has of a sub-resource.  A split barrier that has begun
\* and not ended is in s.split.
Transition(s, event) ==
    LET checked == Fault(s, "BARRIER",
                         \/ s.state # event.before \/ ~IsResourceStateValid(event.after)
                         \/ s.split # (IF event.flag = "END_ONLY" THEN {event.after} ELSE {}))
    IN  IF event.flag = "BEGIN_ONLY" THEN [checked EXCEPT !.split = {event.after}]
        ELSE [checked EXCEPT !.state = event.after, !.promoted = FALSE, !.split = {},
                             !.unordered = FALSE]

PerformEvent(s, event) ==
    CASE event.kind = "TRANSITION"  -> Transition(s, event)
      [] event.kind = "UAV_BARRIER" -> [s EXCEPT !.unordered = FALSE]
      [] OTHER -> s

\* A pass on the queue uses the sub-resource in the state it requires.
\* COMMON is for what happens once the command lists have been executed.
Use(s, always, queue, required) ==
    LET canPromote == /\ s.state = COMMON \/ s.promoted
                      /\ IsImplicitStateTransitionPossible(always, s.state \cup required)
        isUAV == required = {"UNORDERED_ACCESS"}
        stateless == Fault(s, "STATE", ~(required \subseteq s.state \/ canPromote))
        unsplit == Fault(stateless, "SPLIT", s.split # {})
        ordered == Fault(unsplit, "UAV", isUAV /\ s.unordered)
        common == Fault(ordered, "COPY", queue = "COPY" /\ ~s.copied /\ s.state # COMMON)
        initialised == Fault(common, "CONTENTS", ~s.initialised)
    IN  IF required = COMMON THEN [initialised EXCEPT !.asCommon = TRUE, !.used = TRUE]
        ELSE [initialised EXCEPT !.state = @ \cup required,
                                 !.promoted = @ \/ ~(required \subseteq s.state),
                                 !.copied = @ \/ queue = "COPY",
                                 !.asCommon = FALSE, !.unordered = isUAV, !.used = TRUE]

\* The end of a call of ExecuteCommandLists.
Decay(s, always) ==
    LET decays == always \/ s.copied \/ (s.promoted /\ IsValidReadState(s.state))
        decayed == IF decays THEN [s EXCEPT !.state = COMMON, !.promoted = FALSE] ELSE s
    IN  [Fault(decayed, "STATE", decayed.asCommon /\ decayed.state # COMMON)
            EXCEPT !.copied = FALSE, !.asCommon = FALSE, !.unordered = FALSE]

\* What the GPU has after the events, and after the initialisation of a
\* resource, which is of all its sub-resources and before their barriers.
PerformEvents(g, events) ==
    LET initialises(r) == \E i \in 1 .. SubResourceCount :
            \E event \in Range(events[<<r, i>>]) : event.kind = "INITIALIZATION"
        start(sub) == IF ~initialises(sub[1]) THEN g[sub]
                      ELSE [Fault(g[sub], "CONTENTS", \/ g[sub].used \/ g[sub].split # {}
                                                      \/ g[sub].state # {"RENDER_TARGET"})
                                EXCEPT !.initialised = TRUE]
    IN  [sub \in Subs |-> FoldLeft(PerformEvent, start(sub), events[sub])]

EventsWhich(Chosen(_)) == [sub \in Subs |-> SelectSeq(merger[sub].events, Chosen)]

RecordRenderPass(g, k, q, i) ==
    LET pass == mExecutionModuleArr[k][q][i]
        here(event) == /\ event.at = [module |-> k, queue |-> q, index |-> i]
                       /\ CanQueueHandleGPUResourceEvent(event)
        ready == PerformEvents(g, EventsWhich(here))
    IN  [sub \in Subs |-> IF sub \in DOMAIN pass
                          THEN Use(ready[sub], sub[1] \in AlwaysDecays, q, pass[sub]) ELSE ready[sub]]

RecordQueue(g, k, q) ==
    FoldLeft(LAMBDA acc, i : RecordRenderPass(acc, k, q, i), g,
             [i \in DOMAIN mExecutionModuleArr[k][q] |-> i])

DecayAll(g) == [sub \in Subs |-> Decay(g[sub], sub[1] \in AlwaysDecays)]

\* The events no queue of the module can handle are in a DIRECT command list
\* of their own, which is executed before the module.
SubmitCommandListsForRenderPasses(k) ==
    LET unhandled(event) == event.at.module = k /\ ~CanQueueHandleGPUResourceEvent(event)
    IN  DecayAll(FoldLeft(LAMBDA acc, q : RecordQueue(acc, k, q),
                          DecayAll(PerformEvents(gpu, EventsWhich(unhandled))), QueueOrder))

-----------------------------------------------------------------------------
NewOnGPU(sub) == [state |-> InitialState[sub[1]], promoted |-> FALSE, split |-> {},
                  unordered |-> FALSE, copied |-> FALSE, asCommon |-> FALSE, used |-> FALSE,
                  initialised |-> sub[1] \notin SpecialInit, faults |-> {}]

Init == /\ phase = "build" /\ frame = 1 /\ currModule = 0
        /\ mRenderPassBundleArr = <<>> /\ mExecutionModuleArr = <<>> /\ mAliasableResourcesArr = <<>>
        /\ mSubResourceState = [sub \in Subs |-> InitialState[sub[1]]]
        /\ mRequiresSpecialInitialization = SpecialInit
        /\ merger = [sub \in Subs |-> NewMerger(sub[1] \in AlwaysDecays, InitialState[sub[1]])]
        /\ gpu = [sub \in Subs |-> NewOnGPU(sub)]

AddBundle ==
    /\ phase = "build"
    /\ \E bundle \in Bundles :
         /\ MapThenSumSet(LAMBDA i : PassCount(mRenderPassBundleArr[i]),
                          DOMAIN mRenderPassBundleArr) + PassCount(bundle) <= MaxPasses
         /\ mRenderPassBundleArr' = Append(mRenderPassBundleArr, bundle)
    /\ UNCHANGED <<phase, mExecutionModuleArr, mAliasableResourcesArr, mSubResourceState,
                   mRequiresSpecialInitialization, merger, currModule, gpu, frame>>

CompileFrameGraph ==
    LET bundles == CreateSyncPoints(mRenderPassBundleArr)
    IN  /\ phase = "build" /\ mRenderPassBundleArr # <<>>
        /\ \E order \in SortedResourceInfoSets(bundles) :
             mAliasableResourcesArr' = CalculateAliasableResources(bundles, order)
        /\ mExecutionModuleArr' = CreateGPUExecutionModules(bundles)
        /\ merger' = [sub \in Subs |-> NewMerger(sub[1] \in AlwaysDecays, mSubResourceState[sub])]
        /\ phase' = "analyse" /\ currModule' = 1
        /\ UNCHANGED <<mRenderPassBundleArr, mSubResourceState, mRequiresSpecialInitialization,
                       gpu, frame>>

\* GPUResourceStateTracker::TrackGPUExecutionModule, for every resource.
TrackGPUExecutionModule ==
    LET tracked == [r \in Resources |-> TrackResource(r, currModule)]
        mergers == [sub \in Subs |-> tracked[sub[1]].mergers[sub[2]]]
    IN  /\ phase = "analyse" /\ currModule <= Len(mExecutionModuleArr)
        /\ merger' = mergers
        /\ mRequiresSpecialInitialization' = {r \in Resources : tracked[r].init}
        /\ phase' = IF CopyUseAsserted(currModule) /\ \A sub \in Subs : ~mergers[sub].failed
                    THEN "analyse" ELSE "failed"
        /\ currModule' = currModule + 1
        /\ UNCHANGED <<mRenderPassBundleArr, mExecutionModuleArr, mAliasableResourcesArr,
                       mSubResourceState, gpu, frame>>

FinishAnalysis ==
    LET final == [sub \in Subs |-> FinalizeStateTracking(merger[sub])]
    IN  /\ phase = "analyse" /\ currModule > Len(mExecutionModuleArr)
        /\ merger' = final
        /\ mSubResourceState' = [sub \in Subs |-> final[sub].before]
        /\ phase' = "execute" /\ currModule' = 1
        /\ UNCHANGED <<mRenderPassBundleArr, mExecutionModuleArr, mAliasableResourcesArr,
                       mRequiresSpecialInitialization, gpu, frame>>

ExecuteModule ==
    /\ phase = "execute" /\ currModule <= Len(mExecutionModuleArr)
    /\ gpu' = SubmitCommandListsForRenderPasses(currModule)
    /\ currModule' = currModule + 1
    /\ UNCHANGED <<phase, mRenderPassBundleArr, mExecutionModuleArr, mAliasableResourcesArr,
                   mSubResourceState, mRequiresSpecialInitialization, merger, frame>>

\* The next frame, with new transient resources.
ResetFrameGraph ==
    LET keep(f, new) == [sub \in Subs |-> IF sub[1] \in Transient THEN new[sub] ELSE f[sub]]
    IN  /\ phase = "execute" /\ currModule > Len(mExecutionModuleArr) /\ frame < MaxFrames
        /\ phase' = "build" /\ frame' = frame + 1 /\ currModule' = 0
        /\ mRenderPassBundleArr' = <<>> /\ mExecutionModuleArr' = <<>>
        /\ mAliasableResourcesArr' = <<>>
        /\ mSubResourceState' = keep(mSubResourceState, [sub \in Subs |-> InitialState[sub[1]]])
        /\ mRequiresSpecialInitialization' =
               mRequiresSpecialInitialization \cup (SpecialInit \cap Transient)
        /\ gpu' = keep(gpu, [sub \in Subs |-> NewOnGPU(sub)])
        /\ merger' = [sub \in Subs |->
                          NewMerger(sub[1] \in AlwaysDecays, mSubResourceState'[sub])]

Next == \/ AddBundle \/ CompileFrameGraph \/ TrackGPUExecutionModule
        \/ FinishAnalysis \/ ExecuteModule \/ ResetFrameGraph

Spec == Init /\ [][Next]_vars

-----------------------------------------------------------------------------
NoFault(faults) == \A sub \in Subs : gpu[sub].faults \cap faults = {}

\* Whatever passes, on whatever queues, use a sub-resource, the GPU finds it
\* in the state they require: every barrier starts from the state it is in,
\* nothing is used between the two halves of a split barrier, and the copy
\* queue finds it in COMMON.
EveryUseSeesItsState == NoFault({"STATE", "BARRIER", "SPLIT", "COPY"})

\* A render target is initialised before it is first used, and while it is
\* still in the state it was created in; and two uses for unordered access have
\* a barrier between them or are in command lists executed one after the other.
ContentsAreOrdered == NoFault({"CONTENTS", "UAV"})

\* Where r is used: the module, the queue and the place in that queue.
UsesOf(r) == {at \in [module : DOMAIN mExecutionModuleArr, queue : Queues, index : 1 .. MaxPasses] :
    LET passes == mExecutionModuleArr[at.module][at.queue]
    IN  /\ at.index \in DOMAIN passes
        /\ \E i \in 1 .. SubResourceCount : <<r, i>> \in DOMAIN passes[at.index]}
ExecutedBefore(at, other) ==
    \/ at.module < other.module
    \/ at.module = other.module /\ at.queue = other.queue /\ at.index < other.index

\* Transient resources that share memory take turns: the GPU is done with one
\* before it uses the other, which loses nothing the CPU wrote into a
\* resource or has yet to read from it; each has memory, and only once.
AliasedResourcesTakeTurns ==
    phase # "build" =>
        /\ \A r \in Transient : UsesOf(r) # {} =>
             Cardinality({i \in DOMAIN mAliasableResourcesArr : r \in Range(mAliasableResourcesArr[i])}) = 1
        /\ \A group \in Range(mAliasableResourcesArr) :
             \A r, s \in Range(group) : r # s =>
                LET precedes(x, y) == \A at \in UsesOf(x), other \in UsesOf(y) : ExecutedBefore(at, other)
                IN  /\ precedes(r, s) \/ precedes(s, r)
                    /\ r \notin CanAliasBeforeUseOnGPU => precedes(r, s)
                    /\ r \notin CanAliasAfterUseOnGPU  => precedes(s, r)
=============================================================================
