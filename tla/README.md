# Brawler Engine Suite: TLA+ models, checks and proofs

The suite is a set of C++20 programs around a Direct3D 12 renderer. What is hard in it is
concurrency: a hand-written lock-free queue, a job system whose threads run jobs on top of one
another's stacks, a frame pipeline in which the main thread, the workers, the "handler" of the
submission sinks and the GPU meet through atomics and fences, memory that is handed out on one
thread and given back on another. And it has what other programs have: files that survive the
program that wrote half of them, parsers that go on after an error, caches that may be stale. The
modules here model these parts as the code has them, TLC checks them on small instances, and
TLAPS proves for all values of their constants the invariants of those everything else stands on.

Paths below are relative to `src/`; `D3D/` abbreviates `BrawlerD3D12Framework/src/`.

- [Reading guide](#reading-guide)
- [Inventory of the suite](#inventory-of-the-suite)
- [The modules and the code](#the-modules-and-the-code)
- [Runs, bounds and what they show](#runs-bounds-and-what-they-show)
- [Fairness](#fairness)
- [Proofs](#proofs)
- [Disagreements between code and documentation](#disagreements-between-code-and-documentation)
- [Assumptions and what is left out](#assumptions-and-what-is-left-out)

## Reading guide

| module | what it is |
| --- | --- |
| `BoundedQueue` | abstract: a FIFO queue of bounded length |
| `ThreadSafeQueue` | the lock-free ring, one action per atomic access |
| `WorkerThreadPool` | dispatch, sleep, wakeup, exceptions, shutdown |
| `JobSystem` | groups, counters, stealing while waiting, unwinding |
| `FrameSubmission` | a frame from `ProcessFrame` to the GPU and back |
| `SerialTimeline` | abstract: groups executed one at a time, in order |
| `CommandQueues` | three command queues that halt one another |
| `TLSFAllocator` | blocks, free lists, splitting and merging, as operators |
| `GPUResourceHeap` | resources that alias one another in one heap |
| `BufferSubAllocations` | reservations in one buffer, and data written early |
| `BindlessSRVs` | indices and descriptors against the creation of the resource |
| `Residency` | budget, eviction, deletion, and a builder that places resources meanwhile |
| `FrameGraph` | sync points, execution modules, barriers, aliasing; and the GPU's rules |
| `FrameResources` | descriptor tables and command allocators that frames use in turn |
| `RenderJobs` | the first engine's bundles of render jobs |
| `PipelineCache` | initialization of the renderer, and the file of compiled PSOs |
| `EngineHeaps` | buddy allocators, allocation with and release without the lock |
| `Settings` | settings that go through files from one program to the next |
| `Application` | updates, frames, application states, descriptors of the first engine |
| `AssetDependencies` | groups of assets, their ticks, their requests |
| `AudioStreaming` | a song played from a ring of three blocks |
| `AssetJobs` | what both I/O handlers share: jobs, delayed jobs, events |
| `Win32AssetIO`, `DirectStorageAssetIO` | the two handlers |
| `AssetIO` | the AssetManager over either of them |
| `AssetData` | what happens to the data of a request |
| `BPKArchive` | packed archives: writing, mapping, decompression |
| `FilePacker` | a build: jobs, `.bcainfo` files, cache, linker; killed and repeated |
| `TextureResolution` | the GPU passes that compress one texture |
| `ModelExport` | the exporter, from the command line to its files |
| `*Proofs` | theorems about the modules named, checked by TLAPS |
| `MC*` | instances and compositions for TLC |

How they compose:

    ThreadSafeQueue ==implements==> BoundedQueue
                                        |  used as the job queue of
                  +---------------------+---------------------+
                  v                     v                     v
           WorkerThreadPool         JobSystem          FrameSubmission
                  |                     |                |         ^
                  v                     v      OneHandler|         | one GPU timeline,
               AssetJobs         FrameResources          v         | in order
              /         \                      CommandQueues ==implements==> SerialTimeline
     Win32AssetIO  DirectStorageAssetIO
              \         /                     TLSFAllocator
               AssetIO                          /        \
                                     GPUResourceHeap   BufferSubAllocations
     AssetDependencies                     |
            |                          Residency
     AudioStreaming
                                     BPKArchive         TextureResolution
                                         |                     |
                                     FilePacker            ModelExport

Each level takes from the level below only what that level was shown to implement. The pool, the
job system and the frame pipeline treat a `ThreadSafeQueue` as a `BoundedQueue` whose operations
are single steps; `AssetJobs` treats the pool as a store of jobs that loses none;
`FrameSubmission` treats the GPU as one timeline; `CommandQueues` lets one thread at a time
submit, which is `OneHandler` of `FrameSubmission`; and `FrameResources` takes from it that the
GPU executes frames in order and that a frame waits for the one two before.

Several levels that share nothing are sometimes checked in one run: its MC module has a variable
`level` that never changes, and each property is about its own level. A definition that begins
with the comment "Mutant" is not part of the model. It is a plausible mistake in the definition
it is named after, kept to show that the properties notice it.

`PROJECT.json` has, for every definition, the lines of the code it stands for, and under
`hazards` the lines at which this code can go wrong in ways a test would hardly reach, each with
the properties that would notice.

## Inventory of the suite

Seven projects. Each contains its own copy of what it shares with others.

### BrawlerD3D12Framework: the current renderer and job system

**ThreadSafeQueue** (`D3D/ThreadSafeQueue.ixx`). State: `mPackedOffsets` (BeginIndex and EndIndex
in one atomic), `mArr` (a pointer per slot), `mBackingMemory`. Operations: `PushBack`, `TryPop`,
`IsEmpty`, by any number of threads. Hard: the claim of a slot and the access to its element are
separate steps; offsets may be whole laps old (ABA); a pop may have to wait for a push.

**WorkerThreadPool, WorkerThread**. State: a queue per priority, `mJobQueueNotifier` on which
idle workers sleep, the exception queue, flags of initialization and shutdown. Hard: sleep and
dispatch race; shutdown races with both.

**Job, JobGroup, JobCounter, JobRunner**. State: a counter per group and the call stacks of the
threads. Hard: a stack interleaves calls of unrelated jobs, and an exception unwinds all of it.

**Delayed jobs** (`DelayedJobSubmitter.cpp`). A vector of groups per thread, each with an event
it waits for. Hard: who looks at the vector, and when.

**Cached frame numbers, thread-local resources** (`ThreadLocalResources.cpp`, `EngineUtil.cpp`).
A stack of frame numbers on each thread, so that a job sees the frame it was made in.

**Frame processing and submission** (`Renderer.cpp`, `FrameGraph.cpp`, `GPUCommandManager.cpp`,
`GPUCommandContextSink.cpp`). State: a FrameGraph and a sink for each frame in flight, the queue
of fence collections, the flag that some thread drains the sinks. Hard: nearly every pair of its
operations may overlap for adjacent frames.

**Command queues** (`GPUCommandQueue.ixx`, `GPUFence.cpp`, part of `GPUCommandManager.cpp`).
Hard: queues run in parallel and wait only for the queues of the last group.

**Command recording**. Contexts come from a vault; allocators belong to a thread, a queue type
and a frame. Hard: a thread that waits in one frame's job executes another's.

**Frame graph compilation, resource state tracking, transient resources and aliasing**
(`FrameGraphBuilder.cpp`, `GPUExecutionModule.cpp`, `GPUResourceStateTracker.cpp`,
`GPUSubResourceStateBarrierMerger.cpp`, `TransientGPUResourceManager.cpp`). Pure functions from
render passes to barriers and memory; hard because the GPU changes states by itself (promotion
and decay), queues cannot execute each other's barriers, and memory is shared.

**TLSFAllocator, heaps of placed resources, buffer suballocation** (`TLSFAllocator.cpp`,
`GPUResourceHeap.ixx`, `BufferSubAllocationManager.cpp`). Free lists by size class over a chain
of blocks; users that return blocks late, or twice.

**GPU residency** (`GPUResidencyManager.cpp`, `GPUResourceUsageTracker.cpp`). Evicts, deletes and
makes resident against a budget, concurrently with a job that places a resource.

**Descriptor heap and bindless SRVs** (`GPUResourceDescriptorHeap.cpp`,
`GPUResourceBindlessSRVManager.cpp`). Per-frame partitions, and indices that are recycled.

**Renderer, device, pipeline states** (`Renderer.cpp`, `GPUDevice.cpp`, `PSOLibrary.cpp`,
`PSODatabase.cpp`). Initialization in jobs, and a file of compiled PSOs.

**Persistent managers, resource and view wrappers, containers**: no protocol of their own.

### The other projects

**BrawlerAssetManagement**: asset requests, executed by a Win32 or a DirectStorage handler, with
chains of delayed jobs. **BrawlerEngine**: the first engine: render jobs, buddy-allocated heaps,
settings, a stack of application states, descriptors, asset dependencies, archives; also an older
pool that spins, and an unfinished scene graph. **BrawlerResourceStreaming**: audio streaming on
copies of the engine's asset dependencies. **BrawlerFilePacker**: builds packed archives with a
pool that has a queue per worker. **BrawlerModelExport**: an offline tool that compresses
textures on the GPU. **BrawlerShaderCompiler**: generates source files.

What makes each of them correct is what the properties of its run say, below.

## The modules and the code

### ThreadSafeQueue

`PushBack` is `PushLoad` (the load of the packed offsets), then `PushFull`, `PushRetry` (the
compare/exchange fails and reloads) or `PushClaim` (it succeeds), then `PushWrite` (the element
is moved into `mBackingMemory`) and `PushStore` (its address is stored in `mArr`). `TryPop` is
`PopLoad`, `PopEmpty`/`PopRetry`/`PopClaim`, `PopTake` (the spin on `mArr` and the exchange with
nullptr) and `PopMove`. An element is its *ticket*, the number of claims before its own, so that
"the same element" can be said. `pushes`, `pops`, `slotTicket` and `lapped` are history: they
never guard a step of the code (`pushes` bounds the model only). `lapped` becomes true when a
push claims a slot a pop is still emptying, the one thing the code does not prevent; what an
element promises is stated as `lapped \/ ...`. It excuses nothing else: the offsets and the
refinement of `BoundedQueue` hold regardless. With the code's 1024 elements, lapping needs 1024
pushes while one pop is suspended.

### WorkerThreadPool

Every load, store, increment, `TryPop`, `PushBack` and notification of `DispatchJob`,
`AcquireQueuedJob`, `WorkerThread::ExecuteMainLoop` and the destructor is a step.
`std::atomic::wait` is two: `WaitForJobDispatch` compares the notifier with the value loaded
before the search and sleeps if it is unchanged, as one step, and a notification sends a sleeper
back to that comparison. A job is a name; it may dispatch others, return or throw. Two of the
four priorities are enough for a job to arrive in a queue the search has passed.

### JobSystem

A thread's `stack` is a sequence of frames, each a callback in a phase: running, dispatching its
group, awaiting it, in the catch block of `Job::Execute`, or spinning there for its siblings.
`DispatchJob` pushes a job or, when the queue is full, puts its frame on top of the
dispatcher's; `TryExecuteJob` puts a queued job on top of an awaiting frame or an idle worker.
`JobReturns`, `CatchDecrements` and `Rethrow` are the ends of `Job::Execute`; `Struck` is what
an exception does to the frame below. Counters wrap at `2^CounterBits`, because an asynchronous
group decrements from zero. A callback makes at most one group and a job is in one group: a
second group by the same callback repeats the first, with a counter of its own.

### FrameSubmission

Main's bottom call is `ProcessFrame(n)`: `ResetFrameGraph` (wait for the events of the frame two
before), `CompileFrameGraph` (a job stands for the compilation's jobs, and Main executes queued
jobs meanwhile), `BeginSubmission` and `SpanWaitEnds` (dispatch the submission job and wait,
executing nothing, until it has initialized the sink), `DispatchModule` for each execution
module, `AdvanceFrame`. The submission job initializes the sink, pushes its fences under the
mutex (`PushFences`), and drains the sinks if nobody does: `LoadNotifier`, `SubmitNext`,
`FindEmptyPoint`, `SinkWaitEnds`, and under the mutex `PopFences`. `GPUExecutes` executes the
next command of `timeline` and sets the event of a fence it reaches. Modules of a frame are
recorded by jobs that end in any order (`ModuleEnds`).

### CommandQueues

`given[q]` is all that a queue was ever given: batches, each with the fence values it waits for
first (`Halt`). `completed[q]` is the value of its fence. A group may have command lists for a
queue without commands in them; the code then executes them without waiting and signals the
fence all the same, and so does the model (`lists` and `used`). `usedBy` is history.

### TLSFAllocator, GPUResourceHeap, BufferSubAllocations

An allocator is a value `[block, list, refreed, corrupt]`; `CreateAllocation` and
`DeleteAllocation` are operators, since each runs under one lock. The pointers of blocks and
lists are followed one by one, as in the code, over *names* of blocks: a deleted block's name
stays in use as long as a pointer holds it. That matters, because a released block that merges
into its left neighbour leaves that neighbour in the list of its old size, and the
`mPrevFreeBlockPtr` of a new block is not initialized: what following one of these leads to is
undefined, and sets `corrupt`. In `GPUResourceHeap`, `AllocateResources` places one or several
resources that alias one another, `RevokeGPUResourceAssignment` is a resource's end, and
`DeleteUnusedAllocations` returns blocks when the heap is next allocated from.
`BufferSubAllocations` has reservations and their handles (`AssignReservationToSubAllocation`,
`PassReservation`, `DestroySubAllocation`) and `WriteToBuffer` before, while and after the
buffer's `ID3D12Resource` is created. The predicate that erases a
ready reservation returns its block and so does its destructor: the block is freed twice, which
the model does too (`refreed`).

### BindlessSRVs

`AllocateBindlessSRV`, `DescribeNewSRV` and `FinishBindlessSRV` under the shared
`mResourceCritSection`, `CreateResource` and `UpdateBindlessSRVs` around and under the exclusive
one; the queue of free indices; sentinels that give indices back. A descriptor is what it
describes: a view of a resource that exists, or nothing.

### Residency

The steps of a residency pass (gather, make resident, look at the budget, choose, evict or
delete one object, again), interleaved with the steps of an `AsyncGPUResourceBuilder` that looks
for a heap, places, or constructs a heap and registers it, and with the destruction of
resources. Usage masks have three bits, where the code's have 32. `undefined` is set when a pass
meets a heap whose `ID3D12Heap` was deleted, after which nothing is promised.

### FrameGraph, FrameResources

`FrameGraph` has the whole compilation of a frame as functions of the bundles of passes: sync
points, modules, the state trackers with merging, promotion, decay, split barriers, special
initialization and UAV barriers, the hoisting of events that a queue cannot execute, and the
greedy grouping of transient resources. The GPU is an abstract machine: it executes the passes
and barriers of one module after the other by the rules of Direct3D 12 and collects in `faults`
whatever is wrong with a command.

`FrameResources` has what follows from the frame number cached on a thread: a partition of the
descriptor heap, the table of a `DescriptorTableBuilder`, the command allocator. A thread that
waits in a job of one frame executes jobs of another on top of it.

### RenderJobs

`SubmitRenderJobBundle` (any thread, bounded queue); `ExtractBundle` of the master render thread
with the bundle's command lists, fence values and the before states of its transitions;
`BeginRecording`, `RecordCommands` and `EndRecording` in jobs, in any order;
`SubmitCommandLists`, in the order of the bundles; `CompleteOldest`; and each queue of the GPU by
itself (`ExecuteOnGPU`, `SignalOnGPU`). With nothing to extract or update, the master render
thread executes a job (`TryExecuteJob`), any job: one that waits for the event of a bundle
(`WaitForEventCompletion`), on top of which others are executed, recordings among them; or one that
finds the queue of bundles full (`PushBackFails`). `stacks` has the stacks of jobs on which
somebody waits; a recording that waits for its command lists executes jobs, too. If the queue of
jobs is full, `ExtractBundle` executes the recording itself.

### PipelineCache, EngineHeaps, Settings, Application

`PipelineCache`: `Renderer::Initialize` as jobs; the mapped file; `CompilePSO` from the library or
from the definition; `SerializePSOLibrary` as the steps `OpenStream`, `ResizeFile`, `BeginWriting`
and `EndWriting`, each of which may be the last before `Kill`. Between programs definitions and
adapters change. `EngineHeaps`: allocation under the lock of the group and the node-by-node walk
of a release without it. `Settings`: loading, setting and saving over files as sequences of
tokens, edits by users and kills. `Application`: updates of fixed length and frames, requests to
the stack of states, `ResourceDescriptorHeap` with tables of frames in progress and bindless
indices.

### AssetDependencies, AudioStreaming

An update activates the groups submitted (`BeginUpdate`), checks their assets (`UpdateAssetData`),
packs the requests they make into jobs by size (`PullRequests`) and waits for these
(`ExecuteRequest`, `EndUpdate`). `AudioStreaming` is one client: its voice requests blocks
(`BeginVoiceUpdate`) and submits what is loaded (`SubmitSourceBuffer`), and XAudio2 plays it
(`BufferEnds`), over a ring of blocks in which only the number of blocks requested keeps the
writer from the reader.

### AssetJobs, Win32AssetIO, DirectStorageAssetIO, AssetIO, AssetData

A job is a record with its kind; each thread has a stack of jobs, since one that waits for a
group executes others, and its own delayed jobs. `Win32AssetIO` has the relaxed store of
`mActiveRequestsExist` in a store buffer that drains later. `DirectStorageAssetIO` has the status
array and the decompression job passed from thread to thread. `AssetIO` composes both with the
requests of the application. `AssetData` follows the bytes: archive, table of contents, blocks of
ZStandard, place in memory.

### FilePacker, BPKArchive

A build is Main and its workers over queues of their own, with stealing; jobs compile assets, and
one parses each `.bcainfo` file; the jobs of the assets of its directory execute others until
`ReadyFlag` is raised. The flags and descriptions are kept by directory (`mBCAInfoParentPathMap`):
the directories that have a `.bcainfo` are registered by the paths under which they are found
below the root, and `UpdateBCAInfoDatabase` looks up the parent of the *absolute* path of the
*first* file described, which throws if there is no such entry: with a root given by a relative
path (`RootDataDirectory`), or if the first name leads to another directory, since `ParseFileName`
takes any name that leads to a file. Descriptions of files elsewhere are then kept where nobody
looks for them, and two files may write to one entry at once (`Writers`; what two threads find in
a map that one of them changes is undefined, and may end the program, as what jobs find of the
linker does once an exception has left Main: `Undefined`). Compiled assets are kept as `.bca`
files under the hash of their source. `Crash` ends a build anywhere; `StartBuild` begins the next
one on edited sources. `BPKArchive` has the packed file, the view that is mapped in multiples of
the system's granularity, and the loop around ZStandard.

### ModelExport, TextureResolution

The recursive-descent parser of the command line with the error it keeps; import, levels of
detail, one texture per distinct image, frames in which the GPU compresses (the passes are those
of `TextureResolution`), and the serialization by jobs, of which the first to take a texture
writes it. Update and serialization are groups in groups: a job for each level of detail makes
one for each mesh (`ForkMeshes`), which makes two (`ForkParts`); the render module's job makes one for
each texture (`BuildFrameGraph`). The exporter is built with the job system of `D3D/`, so a job that
has made a group stays on its thread's stack and executes others on top (`AwaitEnds`). A job is
named by the path that leads to it, and a group by the job that made it. An exception
lowers the counter and then spins until the job's group is finished (`Throws`), strikes the job beneath,
and so on (`Rethrow`); below the last one it goes to the pool's queue and kills the worker, and
Main finds it when next it looks for a job (`HandleThrownExceptions`). Until then the counter
may already have let Main go on. If it leaves Main, the model is destroyed while workers may
still use it (`Dies`), and else the program ends (`Exit`).

## Runs, bounds and what they show

| run | instance | states | properties |
| --- | --- | --- | --- |
| `queue` | 3 threads, 2 elements (3 slots), 3 pushes | 263k | `QueueIntact`, `ImplementsBoundedQueue`, `TryPopReturns` |
| `jobs` | 1 worker and Main, 4 jobs, groups of 2, queue of 1, 2-bit counters, one may throw | 199k | `GroupsAreJoined`, `WaitsEnd` |
| `frames` | 2 workers; 5 frames of 2, 1, 0, 1, 1 modules, 2 in flight, queue of 2; and the pool with 2 jobs, queues of 1 | 118k | `SinksInOrder`, `ResetAfterExecution`, `EveryFrameIsExecuted`, `PoolGoesOn` |
| `command_queues` | 3 queues, 3 groups | 603k | `GroupsExecuteInOrder`, `ImplementsSerialTimeline`, `GroupIsExecuted` |
| `resources` | 2 resources in a heap of 5; sub-allocations of 3 and 2 in a buffer of 5; 2 bindless SRVs of 2 resources | 97k | `HeapIsDividedUp`, `SubAllocationsKeepTheirData`, `BindlessSRVsAreCurrent` |
| `residency` | 2 heaps, 2 placed and 1 committed resource, 3 frames, budgets of 2 and 3 | 667k | `ResidencyIsKept`, `PassEnds` |
| `frame_graph` | 2 frames of up to 4 passes, a texture and 2 transient resources; 2 workers, 2 tables, 3 frames | 731k | `EveryUseSeesItsState`, `ContentsAreOrdered`, `AliasedResourcesTakeTurns`, `FramesKeepTheirResources` |
| `engine` | 3 bundles of 3 kinds, queue of 2, stacks of 3, 1 wait at a time; 2 PSOs; 3 resources in 2 heaps of 4; 3 settings, 5 edits; 3 frames; 2 recorders, 2 tables | 406k | `FencesTellTheTruth`, `TransitionsMatchTheGPU`, `PSOsAreCurrent`, `HeapsAreDividedUp`, `UpdatesAreComplete`, `EngineGoesOn`, `SettingsComeBack` |
| `streaming` | a song of 4 blocks, another asset, 3 groups, 3 other requests | 222k | `UpdateIsComplete`, `QueuedBuffersAreIntact`, `StreamingGoesOn` |
| `asset_io` | 2 dependencies of 2 priorities, 2 threads, 2 loading jobs, either handler; 4 requests for data | 291k | `AssetsAreLoaded`, `OneLoader`, `EveryRequestCompletes` |
| `packer` | 2 assets, 2 directories, 7 pairs of `.bcainfo` files, root absolute or relative, 2 workers, 2 builds, 1 crash | 486k | `AssetsArePackedAsDescribed`, `AssetIsRead`, `BuildEnds` |
| `model_export` | 5302 command lines, 1 or 2 levels of detail, scenes of 1 and 2 meshes, 4 ways for a file to be wrong; Main and 2 workers, 5 frames | 248k | `CommandLineIsUnderstood`, `ModelIsExported`, `ExportEnds` |

Why these bounds reach the interesting cases:

- *Queue.* Three pushes reuse a slot of a ring of three, wrap both indices and fill the queue.
  Two threads can compete for a claim while a third is stalled anywhere.
- *Jobs.* Four jobs make a group within a group while a fourth job, stolen, lies between them on
  the stack. A queue of one forces inline execution. Two bits are the fewest that hold a group
  of two and show the wrap.
- *Frames.* Five frames go more than twice around two FrameGraphs and sinks, with the frame
  without modules and the frame of two in each other's way; a queue of two fills up. In the pool
  a queue of one is full after one dispatch, so the dispatcher executes the job itself; two
  workers let one sleep while the other is between its search and its sleep.
- *Command queues.* All sequences of three groups: the third depends on the first only through
  the second, which may use other queues.
- *Resources.* In five units, sizes and alignments of one and two split at both ends, merge on
  both sides, and make lists of two sizes; there are more names than blocks, so that an old name
  can dangle. Sub-allocations of three and two units fill the buffer, and of one that is given up
  the block is returned, and returned again, with a neighbour on its left or its right. Two
  requests can be pending for the same bytes. Three resources in a heap of four, checked once, had
  57,676 states and no surprise; neither had three SRVs of two resources with three indices (1.4
  million).
- *Residency.* A budget that may drop by one makes the pass free memory by either method while
  the builder is anywhere; three frames let a use expire, with two in flight.
- *Frame graph.* Four passes can be two modules of two queues each way round, and two frames
  show what is carried over. Everything is restricted to *one* kind of read state: the code is
  wrong otherwise (see the disagreements). Three frames over two tables come back to the memory
  of the first; four frames were checked once (4.7 million states).
- *Engine.* The third bundle is the first that can reuse command lists of a completed one while
  another is running; a queue of two refuses one. On a stack of three there is room for the
  master's job, a wait, and the recording of what it waits for, or a recording, a wait and a
  recording. The buffer is created in a read state. Two PSOs, three adapters, two kills and two
  changes leave behind every kind of file there is. Three resources in heaps of four need a second
  heap. Frames of 1, 3 and 4 ticks over a step of 2 skip updates, and repeat them. More kills,
  four resources, two disturbances and four bundles were each checked once.
- *Streaming.* Four blocks wrap a ring of three, and with two buffers wanted the block requested
  next is the third. `JOB_COUNT_LIMIT` 1 makes requests queue up.
- *Asset I/O.* A queue of one overflows; a dependency of two priorities completes on two threads
  at once. Three dependencies were checked once, for safety (7 million states with the one
  handler, 2.2 with the other) and with one loader for liveness.
- *Packer.* Two workers, one killed, leave jobs in a queue nobody reads. A crash between builds
  leaves each kind of cached file. A directory with assets and one below it are enough for a
  description that goes astray: to a directory that is registered, to one that is not, and for two
  that meet.
- *Model export.* Widths of 8 and 16 have whole and partial batches of blocks; widths 1 to 32
  were checked once for the compression alone. Command lines are all those of four arguments out
  of the classes the parser can tell apart, and a good option with up to four more. Two levels of
  detail are the fewest whose jobs can lie on one another's stacks; files that fail in the import,
  as a whole or with the second mesh, in the update, and in the building of a frame are combined
  with one another, and the latter two with a good one. With two workers one may be lost
  and the other go on.

`CHECK_DEADLOCK FALSE` stands in the configurations of systems that end. `queue`, `streaming`
and `asset_io` never end, and deadlock is checked there. What should not stop is stated as
liveness in all others.

What is excepted, each exception being a state TLC reaches and the code does not handle:

- `QueueIntact`: `lapped`, see above.
- `WaitsEnd` and the stacks in `GroupsAreJoined`: executions in which something was thrown.
- `FrameIsExecuted`: `Overtaken`, a submission job that pushed its fences before that of the
  frame before it, and `MainSubmits`, Main executing the submission job because the queue was
  full. In both, TLC finds a behaviour in which Main or the handler waits for ever without
  executing jobs. The run has two workers: with one the property fails, for queues of 1, 2 and 4.
- `DestructorStops`: a worker that is between the test of its loop and its load of the notifier.
- `HeapIsDividedUp`, `SubAllocationsKeepTheirData`: `corrupt`. The latter also excepts a direct
  write between the moment at which the resource is visible and the transfer of the older
  writes, which overwrites it (`overtaken`).
- `ResidencyIsKept`: `undefined`, a pass that meets a heap already deleted.
- `HeapsAreDividedUp`: what nodes say is available, in a heap in which two releases or a release
  and an allocation `raced`; memory is not shared there either.
- `EveryBundleCompletes`: `Hangs`, a wait for the event of a bundle on top of the recording of that
  bundle or of an earlier one, or any wait for a bundle, or for room in the queue, on the master
  render thread.
- `TransitionsMatchTheGPU`: `DecayIsForgotten`, the first transition of a resource that decays, was
  created in another state than COMMON and was read by an earlier bundle.
- `CatchesUp`: a cache file the program `CannotBeReplaced`: it is empty, or larger than the new
  library.
- `EveryRequestCompletes`: a store of false that was `overtaken`.
- `BuildEnds`: `NeverReady`, a directory with assets and a `.bcainfo` whose flag nobody raises, since
  no file describes first a file of that directory, or the root was given by a relative path; and
  `NobodyMakesRoom`. `AssetIsRead`: `EmptyChunkAtTheEnd`. `AssetsArePackedAsDescribed`: once a build
  was killed, an archive of which only a beginning is left may be used again; which description
  counts is left open where two files write to one entry.
- `CommandLineIsUnderstood`: command lines with a slip the parser forgives (`IsCommandLineWith`);
  `ModelIsExported`: the bounding box of a mesh on the negative side of an axis, and a model in the
  course of which a worker threw an exception that Main has not come to see (`HasThrown`): it may be
  incomplete.
- `ExportEnds`: `Spins`, a job that throws and waits in its catch block for ever; and `LacksWorkers`,
  a frame processed when a worker has ended with an exception, as `FrameSubmission` says nothing
  of the frames of a pool that lost some.

The reasons are below, among the disagreements.

Liveness is about time and again everything asked for being done (`[]<>`), where requests are
bounded: that is the same as every request being answered, and cheaper to check.

## Fairness

Threads are scheduled by the operating system, so a thread *inside* a call of the modelled code
is weakly fair; no fairness makes an application call something. So: `Push(t)` and `Pop(t)` in
the queue; `Proceed` and `Finish` of each thread in the job system, `JobReturns` as an
alternative to `JobThrows` ("callbacks end"); in the pool the steps of each worker, those of
Main except between two calls, and `SetInitialized`, which every application calls right after
it has built the pool. In `FrameSubmission` the application keeps processing frames, each thread
executes, and so does the GPU; in `CommandQueues` only the GPU needs fairness. A residency pass
goes on (`PassStep`), whatever the builder does. In `RenderJobs` the master render thread loops,
each bundle's recording is executed by some thread, a wait whose event is completed returns
(`Waiter`), each queue of the GPU executes or signals; no fairness makes a job wait, or fails a
push. In `PipelineCache` a program
starts, initializes, writes its file and exits if it is not killed. In `AudioStreaming` the
application's loop runs and XAudio2 plays on. In `AssetIO` each thread executes jobs and looks at
its delayed jobs, the application submits requests every update, DirectStorage reads, and the
store buffer drains. In `FilePacker` and `ModelExport` every thread, and the GPU, goes on: a
thread that awaits a group or has no job executes those there are.

Only weak fairness is used: no run depends on winning a race again and again. In particular
`TryPopReturns` is about a pop that has claimed; a retry loop may lose for ever and nothing is
claimed about it. `resources`, `frame_graph` and the levels for heaps, settings, the application
and the data of assets are about safety only.

## Proofs

Eight modules hold theorems; TLAPS checks them to the last leaf, for every value of the
constants that satisfies the named ASSUMEs of the modules they extend. What a run checks on a
small instance is stated by a theorem wherever the names agree. Each inductive invariant was
first checked by TLC, as an invariant, on bounds at least those of the run.

| theorem | states | for |
| --- | --- | --- |
| `QueueCorrect` | `[]QueueIntact` | any threads, capacity, number of pushes |
| `QueueImplementsBoundedQueue` | `ImplementsBoundedQueue` | the same |
| `GroupsAreJoinedTheorem` | `GroupsAreJoined` | any threads, jobs, queue, counter width the groups fit in |
| `OrderOfExecution` | `[]GroupsExecuteInOrder` | any queues, any number of groups |
| `QueuesImplementSerialTimeline` | `ImplementsSerialTimeline` | the same |
| `FramesKeepTheirResourcesTheorem` | `[]FramesKeepTheirResources` | any threads, frames, builders that a partition of the descriptor heap has room for |
| `FramesTakeTurns` | `[]SinksInOrder` | any threads, frames, modules, queue; at most two frames in flight |
| `FrameGraphsAreFree` | `ResetAfterExecution` | the same |
| `ResidencyTheorem` | `ResidencyIsKept` | any objects, budgets, frames in flight |
| `HeapIsDividedUpTheorem` | `[]HeapIsDividedUp` | any size of heap, resources, requests |
| `SubAllocationsKeepTheirDataTheorem` | `[]SubAllocationsKeepTheirData` | any buffer, sub-allocations, requirements, data |
| `BindlessSRVsAreCurrentTheorem` | `[]BindlessSRVsAreCurrent` | any resources, views, indices |
| `FencesTellTheTruthTheorem` | `[]FencesTellTheTruth` | any bundles, any number of them |
| `TransitionsMatchTheGPUTheorem` | `[]TransitionsMatchTheGPU` | the same, whatever state a resource is created in |
| `PSOsAreCurrentTheorem` | `[]PSOsAreCurrent` | any PSOs, versions, adapters, kills, changes |
| `OneLoaderTheorem` | `[]OneLoader` | either handler, any threads, dependencies, priorities, loaders |
| `DependencyOutlivesItsLoadingTheorem` | the level of requests of `[]AssetsAreLoaded` | the same, each request of one dependency, which has them by priority |
| `QueuedBuffersAreIntactTheorem` | `[]QueuedBuffersAreIntact` | any file, ring larger than what the voice asks for in advance, groups, requests |
| `UpdatesTheorem` | two parts of `[]UpdateIsComplete` | the same |

**ThreadSafeQueueProofs.** The packed offsets delimit exactly the elements pushed and not popped
(`OffsetsCorrect`), because a compare/exchange that succeeds compared the *current* offsets,
however old the copy. What `TryPop` promises unless lapped follows from `SlotsInv`, which says of
each slot that at most one thread writes it and one empties it, that a written slot holds the
ticket of its last claim, and that *it is live, or awaited by a pop, exactly if it is published
or being written*; the last clause ties offsets, pointers and program counters together. For the
refinement, the content of the queue is read off the ring: a claim at EndIndex appends, one at
BeginIndex takes the head, everything else stutters.

**CommandQueuesProofs.** A queue waits only for the queues of the *last* group, so the invariant
says why this suffices: the value a batch waits for covers the batch of the group before on each
queue that group used (`HaltsCover`); a queue's own batches ascend; a group submitted left a
batch on some queue (`NoGroupEmpty`), so that the order is carried through it to all earlier
groups; a fence is not ahead of its queue. For the timeline, the groups retired are a prefix, and
a group begun and not retired is the only one.

**CommandQueuesProofs, what frames use in turn.** A job of a frame is queued, on one stack, or
over, and a recording job that is over left its command list (`JobsRight`): so a module ends, and
its frame can be executed, only when no job of the frame is left, and jobs and lists are always of
the last two frames. Only the topmost job of a thread does not wait, so the frame number on top
of the thread's stack is that of the job which asks for it (`StacksRight`), and the allocators
it takes are in its frame's slot; `ProcessFrame` resets the other one. Descriptors are harder,
because `GetDescriptorTable` also returns the table that a job of the *next* frame has created,
and a table stays with its builder when its frame is over. `DescriptorsRight` is about
everything that refers to a descriptor: command lists, jobs about to close one, and the tables
that may still be returned. The descriptor is in the used part of the slot of the frame of who
refers to it, or of the frame after, and nobody is about to overwrite it. Finally a builder
reserves at most one descriptor a frame: those used, and the builders that may still reserve one,
are no more than there are builders (`IndicesRight`), so a slot never runs into the next.

**JobSystemProofs.** A job is in one place: waiting to be dispatched, in the queue, or on one
stack, and counts as executed from the moment its counter is decremented. So the counter of a
group somebody waits for is the number of its jobs not executed, which `MaxGroup < Modulus`
keeps from wrapping, and a callback leaves its wait only when they all are. Until something is
thrown, a call below another one on a stack dispatches or awaits, and each job of a group that
was not executed has somebody waiting for it.

**FrameSubmissionProofs** has two layers. Of the stacks of calls only the innermost ones that
execute a submission job matter; every action is one of ten events of that view. A frame between
the dispatch of its submission job and its signal is in one place (queued, fresh on a thread, or
among the fences); a pending frame's FrameGraph is not reset for the one two later, so two
pending frames have different slots and find their sinks untouched. With two frames in flight,
the code's `MAX_FRAMES_IN_FLIGHT`, at most two fences are queued, so the handler's next sink is
that of the next head. With three the theorem is false: submission jobs overtake one another,
and TLC shows the handler draining one frame's sink and signalling another's fences.

**ResidencyProofs.** A usage mask is 0 until its resource is first used and odd ever after:
`MarkAsUsedForCurrentFrame` shifts only when the resource is used again. So a resource once used
never becomes "safe to evict"; during a pass the trackers do not change; the builder places only
resources that were never used; new heaps are empty. That objects of use stay resident follows; so
does that nothing once used is ever evicted, which the code surely does not mean.

**GPUResourcesProofs, heaps.** Little can be said of the free lists (they may hold a merged block
under its old size, and a pointer may be wild), and nothing needs to be: whatever they hold,
linking and unlinking changes no block's place, size or neighbours unless a pointer to a deleted
block is followed (`SameBlocks`, `Lost`). What counts is the division of the heap into blocks
(`Geometry`): cutting a block (`SplitLower`, `SplitUpper`) and taking in a neighbour (`Absorb`)
leave it one. A merge first makes a division of all blocks but the one to be deleted, so `Parted`
is about the blocks of a set. The blocks in use are those of the heap's allocations, each as
large and as aligned as asked for, and each created resource has a place in one (`HeapRight`);
that also holds at each step of `DeleteUnusedAllocations`, a recursive function about which the
induction is made with the least counterexample (`LeastNatural`, `Collected`).

**GPUResourcesProofs, sub-allocations.** The same allocator, with one more difficulty: the block
of a reservation is returned twice, and between the two returns other blocks may merge or be
split. A block that is returned again and still exists is free, so `DeleteAllocation` finds it
merged with its neighbours as it is, and no block changes (`DeletedTwice`); if it no longer
exists, a pointer to a deleted block is followed, and the allocator is `Lost`. So every
reservation that is kept keeps its block through the whole of `EraseReady` (`Spares`, `Visited`;
an induction by least counterexample again). `ReservationsRight` says that every reservation has
a block in use of its own, and every valid handle an unmarked reservation of its own, with room
for what was asked for. Then memory of two handles never meets, and for the data it is enough
that what was written last through a handle lies within its memory and either is in the buffer
with no other request pending for its bytes, or is the last pending request for each of them
(`Stays`, `DataRight`). Passing a reservation on passes on what was written; the transfer copies
the requests in order, so the last one stays.

**GPUResourcesProofs, bindless SRVs.** Every index is free once or taken once: the queue of free
ones, the sentinels and the SRVs under construction are pairwise apart and leave none out. The
descriptor of a described SRV follows its resource, since the exclusive lock keeps SRVs from
being described while all are.

**RenderJobsProofs, rendering.** A bundle is known by its number. On each queue bundles get fence
values in their order, and so are their lists submitted and executed: the queue of the GPU holds,
for one bundle after the other, the lists and the signal (`QueuesAreInOrder`), and a fence has
reached a bundle's value only if the GPU is through with it (`FencesAreRight`). So a completed
bundle is an executed one, and the lists taken back are no other's. For the states: a resource
that does not decay is used on one queue by all bundles that are running (`OneQueue`, since
clients wait before they cross queues), so each bundle that changes it leaves the state that the
next one remembers (`StatesFollow`), and before the GPU executes a bundle, the resource is in the
state the bundle remembers (`GPUFollows`). A resource that decays keeps the state it was created
in until a bundle uses it, and is in COMMON from then on; the engine remembers the former until a
bundle *writes* it (`DecaysAreKnown`). So what is remembered is wrong only between the first read
and the first transition, if the resource was created in another state, as the tests do
(`BrawlerEngine/src/D3D12ResourcesTest.cpp:54`, `RenderJobSystemTest.cpp:102`): that transition is
what the property excepts, and nothing is assumed of initial states. Stacks and waits do not
matter to either theorem.

**RenderJobsProofs, pipeline cache.** While the components are initialized no PSO exists;
afterwards all are, the root signatures among them, and the library, if any, is of the device's
driver, since another is refused. Definitions change only between two programs, and a PSO is
taken from the library only if it is that of its definition. The file may be anything.

**AssetIOProofs, loading.** A loading job is live until it has decremented the counter. Live
loading jobs have different numbers, and the counter is how many there are; so the one that takes
it to 0, and delays the starter, is the last, and those started next find none of the former. That
positions of delayed jobs shift as others are dispatched is an injection between them.

**AssetIOProofs, what is loaded.** `LoadingInv` is about places: of frames on stacks, of delayed
jobs, of requests in queues. A dependency is prepared once, by a job that is queued or on one
stack (`PreparedOnce`), and once there is an object for it, nothing is left of its preparation but the
store of the pointer. With the Win32 handler a request not yet notified of is still to be pushed, in
one place of one queue, or with one loading job (`OnePlace`), and `mActiveRequestCounter` is
how many of a dependency's requests are so (`RequestsAreCounted`); so whoever takes it to 0 holds the
last one, and the rest is in memory. With DirectStorage each priority a dependency has is to be
enqueued, or has one notification (delayed, queued or on a stack), or has been counted
(`OneNote`, `EntriesAreCounted`); the entry a notification waits for contains the requests it is for
(`NoteFollows`), and a request is decompressed by one job at most, before it is in memory. Then
what refers to a deleted object would be outstanding, and nothing of a finished dependency is. The
proof has a lemma for each operation, and for each way it changes a stack: the top moves on,
leaves, or a job comes.

**AssetIOProofs, streaming.** The ring is seen as the positions played and loaded since the
program began: slot and block of a position are remainders, and the lemmas about `%` say when two
positions share a slot (`SlotFacts`, `RingIsInOrder`). A block is written
only into a slot XAudio2 is through with, because loaded and played are never further apart than
`DESIRED_QUEUED_AUDIO_BUFFER_COUNT`, which is less than the ring. That needs more than the ring:
the voice counts what is queued in XAudio2, not what it has asked for, so the bound holds only
because everything asked for in one update is loaded when the voice is updated next. It is,
because the song's group is a plain `AssetDependencyGroup`, checked in every update, and its
requests are critical, so that the update does not end before they do. That a plain active group
is always reached is an argument about the tree of groups (`ChecksGoDown`): a check under way below
the heads has a parent of less rank that is under way too, so if all active groups are checked there
is none: its least one would have a lesser.

**AssetIOProofs, updates.** Among the jobs of one update that check the same asset, the one whose
compare/exchange advanced the tick is the only one that updates it (`OneJobWins`), since the tick
it left behind differs from the one all others compare with. A critical request is in its queue,
in a job, or done; the requests are pulled until both queues have none left, and execution ends
with no job left (`RequestsEnd`).

*Only model-checked.* Liveness under fairness and ENABLED are out of the prover's reach: all
properties that end in `GoesOn`, `Ends`, `Completes`, `IsExecuted`, `ComeBack`, `Returns`. So are
modules that declare a RECURSIVE operator, as `FilePacker` and `ModelExport` do for their parsers.
The third part of `UpdateIsComplete`, the bytes of a job, is a sum over a set, a fold of which
nothing is provable without an induction that takes an operator. `FrameGraph`'s properties are
about large pure functions, compositions of folds, and remain with TLC, which checks them on every
frame within the bounds. Of `AssetsAreLoaded` the level of requests is proved, that of the data
(`AssetData`, the bytes of an archive) is not; nor are the levels of `engine` not named above.
`PowersOfTwo` of `Residency` is arithmetic the prover has no facts about (`^` is uninterpreted to
it); TLC evaluates it, for the constants of the run.

## Disagreements between code and documentation

None of these is a run of its own. Each was met while modelling: TLC finds the state when the
exception in the property is taken out, or, where "by reading" is said, nobody but the reader
found it. The passing runs are about what remains true.

*Queue and jobs (`D3D/`)*

1. `TryPop` may return an element other than the one it claimed: the slot is free for `PushBack`
   from the claim on (`ThreadSafeQueue.ixx:99`), and emptied at `:215-221`.
2. BrawlerResourceStreaming's `GetSize` (`ThreadSafeQueue.ixx:261`) subtracts from `NumElements`
   where the ring has one slot more (`:127`), so it is one short when the ring wraps.
3. A worker between the test of its loop and its load of the notifier misses the destructor's
   notification (`WorkerThreadPool.cpp:52`), and `join` does not return.
4. The wait in the catch block of `Job::Execute` is there to keep unwinding from harm
   (`Job.cpp:56`), but the exception leaves a stolen job into an unrelated callback whose own
   jobs still run (`:63`). It does not end when the group was asynchronous, or when a sibling is
   suspended beneath the job that threw (`:60`).
5. A frame may be submitted before the frame before it: Main is released
   (`GPUCommandManager.cpp:116`) before the fences are pushed (`:89`). With two frames in flight
   sinks and fences stay matched even so; with three they would not.

*Memory and descriptors (`D3D/`)*

6. `TLSFAllocator`: a free block that absorbs its right neighbour stays in the list of its old
   size; a new block's `mPrevFreeBlockPtr` is never initialized; a ready sub-allocation's block
   is returned twice (`BufferSubAllocationManager.cpp:174-183` and the reservation's destructor).
7. An early write to a buffer that is pending when the resource becomes visible overwrites a
   later, direct one (`I_GPUResource.cpp:117-120`).
8. The residency pass may look for the residency of a heap already deleted
   (`GPUResidencyManager.cpp:88`, `EvictPageableGPUObjectState.cpp:65`). What was once used is
   never evicted, because the mask is shifted only on use.
9. Bindless indices are reclaimed at once (`GPUResourceDescriptorHeap.cpp:94-99`) though the GPU
   may still read them; the limit asserted at `:135` is not the one its text names.
10. Command allocators are reset only on their first use: `EngineUtil.cpp:118` caches the
    pointer, so `NeedsReset` is not looked at again (`CommandAllocatorStorage.ixx:48-53` says
    each is reset). They grow; nothing is reset too early.

*Frame graph (`D3D/`)*

11. A transition that needs no barrier leaves states behind with which later ones are combined
    that cannot be (`GPUSubResourceStateBarrierMerger.cpp:116`); combined read states let a use
    fall between the halves of a split barrier; a texture promoted to COPY_DEST on the DIRECT
    queue and then required in COMMON gets no barrier (`FrameGraphBuilder.cpp:35-37`). Hence the
    run's one read state, and no such use.
12. By reading: an event a COMPUTE pass cannot execute is hoisted before the whole module; with
    two sub-resources, special initialization is attached to the first pass that uses
    sub-resource 0; no aliasing barrier is made across modules.

*The first engine (`BrawlerEngine/src/`)*

13. `ResourceTransitionRequestManager.cpp:73` against `:89`: a resource that decays, was not
    created in COMMON and is read before its first transition has decayed by then, but the
    transition is recorded with the state of its creation. That the master render thread, when
    idle, may execute any job (`RenderJobManager.cpp:103-105`) does not go with waiting in a job
    for the event of a bundle (`RenderEventHandle.cpp:17-21`): on that thread (`:115`) the wait
    never ends, nor does `PushBack` onto a full queue, and no bundle is submitted any more. The
    same holds for a wait on top of a recording job that waits for its lists (`:211`), if the
    bundle is the same or a later one.
14. A descriptor table reserved while the frame advances may share descriptors with tables of
    the new frame: one read of the frame number chooses the tracker
    (`ResourceDescriptorHeap.cpp:131`), another the index (`:136`), and `Renderer.cpp:126-133`
    increments the number before it resets the counter. Two assertions (`:107`, `:126`) have side
    effects, so that release builds have no bindless SRV at all.
15. A node of the buddy allocator that was split never becomes whole again, against
    `D3DHeapBuddyAllocator.ixx` (`GetLargestAvailableRegionSize`); a lost update of the lock-free
    walk makes a node too small for good.
16. After `Terminate` another frame is drawn (`Application.cpp:94-107`), and nobody fetches the
    window's messages, so `WM_DESTROY` does not arrive.
17. `Settings`: a number cut by a kill is loaded as a smaller number; a word for a number throws
    in the constructor; numbers on adjacent lines merge.
18. An asset compares its counter with a tick that went on without it (`I_Asset.cpp:61`).
19. An asset whose size is a multiple of a chunk's has an empty last chunk, which cannot be
    mapped at the aligned end of the file (`BPKZSTDContext.cpp:34`); the loop at
    `I_ZSTDContext.cpp:64` may end while ZStandard holds output.
20. The pipeline cache (`D3D/PSOLibrary.cpp`): an empty file makes every later start throw; a
    longer file cannot be shrunk while it is mapped, and is never replaced.

*Asset I/O (`BrawlerAssetManagement/src/`)*

21. The relaxed store of false (`Win32AssetIORequestHandler.cpp:91`) may overtake a true, and
    with it a request (comment at `:107-109`).
22. The last decompressed block keeps its full size (`ZSTDDecompressionOperation.cpp:102`), so
    the Win32 handler writes beyond the asset, and DirectStorage's upload path refuses it.

*Tools*

23. A `.bcainfo` file that describes nothing, or is wrong from the start, never raises `ReadyFlag`
    (`BCAInfoDatabase.cpp:57`): its directory's jobs wait for ever. Neither does any with a
    relative root, since directories are registered as they are found (`:27`,
    `AssetCompiler.cpp:108`) and looked up by absolute paths (`SourceAssetInfoParser.cpp:124`):
    `.at` throws (`BCAInfoDatabase.cpp:51`); only assertions require otherwise (`:49`, `:62`). A
    name should be that of a file "in the same directory" (`SourceAssetInfoParser.cpp:83-84`), but
    any that leads to a file is taken, and the first decides for all where the descriptions go
    (`BCAInfoDatabase.cpp:35`). By reading: a name whose case differs from the file's is described
    in vain (`:83`). After an exception has left Main, workers go on with a context and a linker
    that are gone (`Application.ixx:45-48`, `AssetCompiler.cpp:126-131`). Main's `AddJob` does not
    look at exceptions when all workers are dead and the queue is full (`WorkerThread.cpp:43`). A
    killed build leaves a `.bca` that the next one takes for whole (`BCAArchive.cpp:128`). The
    packer writes `Compiled Packages/Data.bpk`, the engine reads `Data/Data.bpk`.
24. The exporter's parser goes on after a rule that failed (`CommandLineParser.cpp:253`), refuses
    arguments after a whole command line without a message (`:151-156`), and reads past the end
    after a last `/ModelName` (`:206-207`). `StaticVertexBuffer.cpp:21` starts a maximum at the
    smallest *positive* float. `IndexBuffer.cpp:52` ends a debug build with two levels of detail.
    `LODResolver.cpp:157` dereferences an empty optional for a scene without meshes.
25. An exception of the exporter's jobs (`D3D/Job.cpp`). A texture that is missing throws in a job
    of one level of detail (`OpaqueDiffuseModelTextureResolver.cpp:116-124`); each job that the
    exception leaves waits for its group (`Job.cpp:60`), for ever if another job of the group is
    suspended beneath it on its stack: the comment at `:56` does not think of it. And since the
    counter comes first (`:54`) and the exception reaches the pool only later
    (`WorkerThread.cpp:78`), Main may go on with a level of detail that was not imported:
    `mMeshResolverCollectionPtr` is null (`LODResolver.cpp:66`), or a model with some of its
    meshes is exported as a success.
26. By reading, in BrawlerResourceStreaming's WAVE parser: the RIFF chunk drops `mBytesCopied`
    bytes (`:99`), the format chunk its whole size (`:157`).

## Assumptions and what is left out

- Atomic operations are sequentially consistent, except the store of item 21. The code relaxes
  also the increments of the notifier, which are locked instructions on the solution's platforms.
- Assertions end the program where the model says so (`FrameGraph`, `Application`: a debug
  build); elsewhere they are not steps.
- The Renderer that holds `GPUCommandManager` is value-initialized
  (`BrawlerModelExport/src/Application.cpp:27`), so `IsThreadHandlingSinks` begins as false.
- `FrameSubmission` has one fence per frame where the code has three; the jobs of a compilation
  are one job. No job is delayed there.
- `FrameResources`: recording jobs do not wait inside an open command list (two lists would share
  an allocator), and the GPU executes frames in order.
- `FrameGraph`: one sub-resource, two transient resources; the aliasing barriers are not
  modelled, nor the jobs that allocate persistent resources (`FrameGraph.cpp:27-92`).
- `RenderJobs`: no bundle without a job, no end of the master render thread; clients wait for a
  bundle before they use its resources on another queue, as the code demands of them.
- `AssetJobs`: the pool's queues are never full, priorities of jobs do not matter, nothing throws;
  the application executes jobs between its updates. A request
  belongs to one builder, which has its requests by priority, and a status array has an entry at least.
- `AudioStreaming`: the group submitted with the song is plain and owned by no other, as the one
  of `Application::Initialize` is; groups are submitted between updates; the WAVE header is in the
  first block; no critical request starves a larger one for ever, which `JOB_COUNT_LIMIT` 1 would
  allow.
- `RenderJobs`: of waits in jobs only those on the stack of a recording or of the master render thread
  are kept: others keep nobody from going on.
- `FilePacker`: a build forgets the archive of the one before, which nothing reads; one group of
  jobs.
- `ModelExport`: the queue of jobs, of 1024, is never full; to take a job and to dispatch those of
  its group is one step, and a group that serializes one mesh's buffers; the serialization itself does
  not throw. In the course of `ProcessFrame` an exception may be found, but no job is taken.
- `PipelineCache`, `Settings`, `FilePacker`: the file system is external and does what it says;
  one program at a time; no failure of streams and directories but those named.
- Direct3D, XAudio2, DirectStorage, ZStandard and the shaders are external, modelled by how the
  code uses them.

Not modelled: the persistent managers (they choose a pool and keep no state), wrappers of
Direct3D objects, formats, logging, geometry (`NormalBoundingConeSolver`), generated text and the
shader compiler, containers that hold one lock throughout: they have no protocol to check. The
older pools, which spin, are earlier versions of `WorkerThreadPool`. The scene graph is
unfinished: nothing creates one, and `SceneGraph::Update` never executes the updates of its
nodes.

Left to do: `FrameGraph`'s barrier analysis for any sequence of passes, which
needs the induction over passes written with least counterexamples, as for the heap; the order of
frames with the three fences of a collection apart.
