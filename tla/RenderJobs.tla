----------------------------- MODULE RenderJobs -----------------------------
(***************************************************************************)
(* Brawler::RenderJobManager of the engine: any thread submits bundles of  *)
(* render jobs; the master render thread gives each of them command lists  *)
(* and fence values and has jobs record the lists; it submits the recorded *)
(* lists to the queues of the GPU in the order of the bundles, and when    *)
(* the fences of the oldest bundle have been signalled it completes the    *)
(* bundle's event and takes the command lists back.  With nothing to do,   *)
(* it executes a job.                                                      *)
(*                                                                         *)
(* The resource transitions a job asks for get their before states on the  *)
(* master render thread, when its bundle is extracted, so that bundles can *)
(* be recorded in any order.  The GPU executes its queues independently.   *)
(***************************************************************************)
EXTENDS Integers, Sequences, FiniteSets

CONSTANTS Resources,
          States,             \* of a resource on the GPU
          Decays,             \* the buffers and simultaneous-access textures
          InitialState,       \* by resource: the state it was created in
          Bundles,            \* what is submitted: by queue, a sequence of jobs
          MaxBundles,         \* bound: bundles submitted
          MaxDepth,           \* bound: what a stack has on it
          MaxWaits,           \* bound: waits for an event at the same time
          RENDER_JOB_BUNDLE_QUEUE_SIZE

Queues == {"DIRECT", "COMPUTE", "COPY"}
COMMON == "COMMON"

\* A job has the transitions its callback makes, in order, each followed by a
\* use of the resource in the new state, and the resources it only reads.
JobSet == [transitions : Seq([res : Resources, to : States]), reads : SUBSET Resources]
JobsOf(bundle)   == UNION {{q} \X DOMAIN bundle[q] : q \in Queues}
Job(bundle, j)   == bundle[j[1]][j[2]]
Writes(job)      == {job.transitions[k].res : k \in DOMAIN job.transitions}
UsesOf(job)      == Writes(job) \cup job.reads
UsedQueues(bundle) == {q \in Queues : bundle[q] # <<>>}

\* A resource that a job writes belongs to that job alone, and a resource that
\* does not allow simultaneous access belongs to one queue.
CheckResourceDependencyConflicts(bundle) ==
    \A j, k \in JobsOf(bundle) : j # k =>
        \A r \in UsesOf(Job(bundle, j)) \cap UsesOf(Job(bundle, k)) :
            /\ r \notin Writes(Job(bundle, j))
            /\ j[1] # k[1] => r \in Decays

ASSUME RenderJobsAssumption ==
    /\ MaxBundles \in Nat /\ MaxDepth \in Nat /\ MaxWaits \in Nat
    /\ RENDER_JOB_BUNDLE_QUEUE_SIZE \in Nat \ {0}
    /\ Decays \subseteq Resources /\ InitialState \in [Resources -> States]
    /\ \A b \in Bundles : /\ b \in [Queues -> Seq(JobSet)]
                          /\ UsedQueues(b) # {}
                          /\ CheckResourceDependencyConflicts(b)

VARIABLES submitted,        \* the bundles, in the order of their submission
          extracted,        \* how many of them the master render thread has popped
          mRunningJobQueue, \* the environments, oldest first
          recordings,       \* by bundle: its recording job, with the jobs still to record
          mFree,            \* by queue: the list of free command lists
          made,             \* by queue: command lists constructed so far
          mNextValue,       \* by queue: NextAvailableValue of the fence
          commands,         \* by command list: what is recorded in it
          mCurrState,       \* by resource: the state the engine remembers
          completed,        \* the bundles whose ExecutionCompletionFlag is set
          master,           \* where the master render thread is
          stacks,           \* of the threads in jobs that something waits for
          gpuQueue, gpuFence, gpuState,  \* of the GPU
          executed          \* history: <<bundle, queue>> the GPU has executed
threads == <<master, stacks>>
engine == <<mRunningJobQueue, mFree, made, mNextValue, mCurrState, completed>>
gpu    == <<gpuQueue, gpuFence, gpuState, executed>>
vars   == <<submitted, extracted, recordings, commands, threads, engine, gpu>>

Ids == 1 .. Len(submitted)

\* The transitions of a resource in one job follow each other; the first one
\* starts in the state that was remembered when the bundle was extracted.
Earlier(job, k) == {i \in 1 .. k - 1 : job.transitions[i].res = job.transitions[k].res}
Latest(S)       == CHOOSE i \in S : \A j \in S : j <= i
BeforeState(job, k, remembered) ==
    IF Earlier(job, k) = {} THEN remembered[job.transitions[k].res]
    ELSE job.transitions[Latest(Earlier(job, k))].to
FinalState(job, r) ==
    job.transitions[Latest({k \in DOMAIN job.transitions : job.transitions[k].res = r})].to

\* The states that are remembered once the transitions of a bundle are known.
InitializeResourceTransitions(bundle) ==
    [r \in Resources |->
       LET writers == {j \in JobsOf(bundle) : r \in Writes(Job(bundle, j))}
       IN  IF writers = {} THEN mCurrState[r]
           ELSE IF r \in Decays THEN COMMON
           ELSE FinalState(Job(bundle, CHOOSE j \in writers : TRUE), r)]

\* What a job records: a transition out of COMMON that the GPU makes on its
\* own gets no barrier.
Record(job, remembered) ==
    [k \in DOMAIN job.transitions |->
       LET from == BeforeState(job, k, remembered)
       IN  [res |-> job.transitions[k].res, from |-> from, to |-> job.transitions[k].to,
            barrier |-> ~(job.transitions[k].res \in Decays /\ from = COMMON)]]

-----------------------------------------------------------------------------
(* Jobs.  The recording of a bundle, while it waits for its command lists, and
   a job that waits for the event of a bundle, execute other jobs on top of
   themselves; a stack is a sequence of such frames.  At the bottom of the
   stack of the master render thread is the job it executes when it has nothing
   else to do, or the dispatch of a recording that it executes itself because
   the queue of jobs is full.  Waits below which there is neither are left out:
   they keep nobody from going on. *)
Frame(kind, id) == [kind |-> kind, id |-> id]
TopOf(stack)    == stack[Len(stack)]
IsTop(stack, kind, id) == stack \in stacks /\ TopOf(stack) = Frame(kind, id)

\* What can be executed on top of it now.
IsWaiting(stack) ==
    /\ stack \in stacks /\ Len(stack) < MaxDepth
    /\ \/ TopOf(stack).kind = "recording" /\ recordings[TopOf(stack).id].left # {}
       \/ TopOf(stack).kind = "event" /\ TopOf(stack).id \notin completed
PushFrame(stack, frame) == stacks' = (stacks \ {stack}) \cup {Append(stack, frame)}
PopFrame(stack) ==
    stacks' = (stacks \ {stack})
                \cup IF Len(stack) = 1 THEN {} ELSE {SubSeq(stack, 1, Len(stack) - 1)}
Waits == UNION {{<<stack, k>> : k \in {i \in DOMAIN stack : stack[i].kind = "event"}} : stack \in stacks}

\* The idle master render thread.  What other jobs do does not matter here.
TryExecuteJob ==
    /\ master = "extract" /\ extracted = Len(submitted) /\ mRunningJobQueue = <<>>
    /\ master' = "job" /\ stacks' = stacks \cup {<<Frame("job", 0)>>}
    /\ UNCHANGED <<submitted, extracted, recordings, commands, engine, gpu>>
ReturnToLoop ==
    /\ \E kind \in {"job", "dispatch"} :
          IsTop(<<Frame(kind, 0)>>, kind, 0) /\ PopFrame(<<Frame(kind, 0)>>)
    /\ master' = "extract"
    /\ UNCHANGED <<submitted, extracted, recordings, commands, engine, gpu>>

\* A job on top of a stack has submitted a bundle, or depends on one, and waits.
WaitForEventCompletion(stack, id) ==
    /\ IsWaiting(stack) \/ IsTop(stack, "job", 0)
    /\ id \in Ids \ completed /\ Cardinality(Waits) < MaxWaits
    /\ PushFrame(stack, Frame("event", id))
    /\ UNCHANGED <<submitted, extracted, recordings, commands, master, engine, gpu>>
EventIsCompleted(stack, id) ==
    /\ IsTop(stack, "event", id) /\ id \in completed
    /\ PopFrame(stack)
    /\ UNCHANGED <<submitted, extracted, recordings, commands, master, engine, gpu>>

\* PushBack onto the full queue is tried again and again; on the master render
\* thread there is nobody else to make room.
PushBackFails ==
    /\ Len(submitted) - extracted = RENDER_JOB_BUNDLE_QUEUE_SIZE
    /\ IsTop(<<Frame("job", 0)>>, "job", 0)
    /\ PushFrame(<<Frame("job", 0)>>, Frame("push", Len(submitted) + 1))
    /\ UNCHANGED <<submitted, extracted, recordings, commands, master, engine, gpu>>

-----------------------------------------------------------------------------
(* SubmitRenderJobBundle.  The GPU runs its queues side by side and nothing
   in the manager makes one wait for another, so that whoever submits a bundle
   waits for the events of the bundles it depends on, unless the resource they
   share is used on the same queue only. *)
SharedResources(a, b) ==
    {r \in Resources : \E j \in JobsOf(a), k \in JobsOf(b) :
        /\ r \in UsesOf(Job(a, j)) \cap UsesOf(Job(b, k))
        /\ r \in Decays => r \in Writes(Job(a, j)) \cup Writes(Job(b, k))}
QueuesUsing(bundle, r) == {j[1] : j \in {i \in JobsOf(bundle) : r \in UsesOf(Job(bundle, i))}}
DependsOn(bundle, other) ==
    \E r \in SharedResources(bundle, other) :
        Cardinality(QueuesUsing(bundle, r) \cup QueuesUsing(other, r)) > 1

SubmitRenderJobBundle(bundle) ==
    /\ Len(submitted) < MaxBundles
    /\ Len(submitted) - extracted < RENDER_JOB_BUNDLE_QUEUE_SIZE
    /\ \A id \in Ids \ completed : ~DependsOn(bundle, submitted[id])
    /\ submitted' = Append(submitted, bundle)
    /\ UNCHANGED <<extracted, recordings, commands, threads, engine, gpu>>

(* ExtractRenderJobBundlesFromQueue: one bundle after the other, until none is
   left; then the running bundles are updated, if there are any. *)
TakeLists(q, n) ==
    [i \in 1 .. n |-> IF i <= Len(mFree[q]) THEN mFree[q][i] ELSE made[q] + i - Len(mFree[q])]
RestOfFree(q, n) == SubSeq(mFree[q], n + 1, Len(mFree[q]))
NewLists(q, n)   == IF n > Len(mFree[q]) THEN n - Len(mFree[q]) ELSE 0

CreateRenderJobExecutionEnvironment(id, bundle) ==
    [id         |-> id,
     lists      |-> [q \in Queues |-> TakeLists(q, Len(bundle[q]))],
     fenceValue |-> [q \in UsedQueues(bundle) |-> mNextValue[q]],
     remembered |-> mCurrState,
     recorded   |-> FALSE,      \* RecordingCompletionFlag
     submitted  |-> FALSE]      \* CmdListsSubmitted

Recording(bundle) == [phase |-> "recording", left |-> JobsOf(bundle)]

\* The recording job is put into the queue of jobs, or executed here.
ExtractBundle ==
    /\ master = "extract" /\ extracted < Len(submitted)
    /\ LET bundle == submitted[extracted + 1]
       IN  /\ mRunningJobQueue' = Append(mRunningJobQueue,
                  CreateRenderJobExecutionEnvironment(extracted + 1, bundle))
           /\ mFree' = [q \in Queues |-> RestOfFree(q, Len(bundle[q]))]
           /\ made' = [q \in Queues |-> made[q] + NewLists(q, Len(bundle[q]))]
           /\ mNextValue' = [q \in Queues |-> mNextValue[q] + IF q \in UsedQueues(bundle) THEN 1 ELSE 0]
           /\ mCurrState' = InitializeResourceTransitions(bundle)
    /\ extracted' = extracted + 1
    /\ \/ /\ recordings' = Append(recordings, [phase |-> "dispatched", left |-> {}])
          /\ UNCHANGED threads
       \/ /\ recordings' = Append(recordings, Recording(submitted[extracted + 1]))
          /\ stacks' = stacks \cup {<<Frame("dispatch", 0), Frame("recording", extracted + 1)>>}
          /\ master' = "job"
    /\ UNCHANGED <<submitted, commands, completed, gpu>>

BeginUpdate ==
    /\ master = "extract" /\ extracted = Len(submitted) /\ mRunningJobQueue # <<>>
    /\ master' = "submit"
    /\ UNCHANGED <<submitted, extracted, recordings, commands, stacks, engine, gpu>>

-----------------------------------------------------------------------------
(* DispatchCommandListRecordingJob: a job of the job system has one job of its
   own record each command list, waits for them, and sets the flag.  It is
   executed by a thread without anything to do, or on top of a stack. *)
BeginRecording(id) ==
    /\ id \in DOMAIN recordings /\ recordings[id].phase = "dispatched"
    /\ recordings' = [recordings EXCEPT ![id] = Recording(submitted[id])]
    /\ \E stack \in {<<>>} \cup {s \in stacks : IsWaiting(s)} :
          PushFrame(stack, Frame("recording", id))
    /\ UNCHANGED <<submitted, extracted, commands, master, engine, gpu>>

Environment(id) == CHOOSE e \in DOMAIN mRunningJobQueue : mRunningJobQueue[e].id = id
ListOf(env, j)  == <<j[1], env.lists[j[1]][j[2]]>>

RecordCommands(id, j) ==
    /\ id \in DOMAIN recordings /\ j \in recordings[id].left
    /\ LET env == mRunningJobQueue[Environment(id)]
       IN  commands' = [list \in DOMAIN commands \cup {ListOf(env, j)} |->
                           IF list = ListOf(env, j) THEN Record(Job(submitted[id], j), env.remembered)
                           ELSE commands[list]]
    /\ recordings' = [recordings EXCEPT ![id].left = @ \ {j}]
    /\ UNCHANGED <<submitted, extracted, threads, engine, gpu>>

EndRecording(id) ==
    /\ id \in DOMAIN recordings
    /\ recordings[id] = [phase |-> "recording", left |-> {}]
    /\ \E stack \in stacks : IsTop(stack, "recording", id) /\ PopFrame(stack)
    /\ recordings' = [recordings EXCEPT ![id].phase = "done"]
    /\ mRunningJobQueue' = [mRunningJobQueue EXCEPT ![Environment(id)].recorded = TRUE]
    /\ UNCHANGED <<submitted, extracted, commands, mFree, made, mNextValue, mCurrState,
                   completed, master, gpu>>

-----------------------------------------------------------------------------
(* UpdateRunningJobQueue: submit the bundles in order, up to the first one
   that is not recorded ... *)
Unsubmitted == {e \in DOMAIN mRunningJobQueue : ~mRunningJobQueue[e].submitted}
Oldest(S)   == CHOOSE e \in S : \A f \in S : e <= f
OutOfOrder(e) == mRunningJobQueue[e].recorded
CanSubmit(e) ==
    /\ mRunningJobQueue[e].recorded
    /\ \A f \in Unsubmitted : e <= f

\* ExecuteCommandLists, then Signal, on every queue the bundle has a fence value for.
SignalForgotten(env, q) ==
    IF q = "COPY" THEN <<[kind |-> "lists", id |-> env.id, lists |-> env.lists[q]]>>
    ELSE <<[kind |-> "lists", id |-> env.id, lists |-> env.lists[q]],
           [kind |-> "signal", value |-> env.fenceValue[q]]>>
CommandsFor(env, q) ==
    <<[kind |-> "lists", id |-> env.id, lists |-> env.lists[q]],
      [kind |-> "signal", value |-> env.fenceValue[q]]>>
SubmitCommandLists(e) ==
    /\ master = "submit" /\ e \in Unsubmitted /\ CanSubmit(e)
    /\ LET env == mRunningJobQueue[e]
       IN  gpuQueue' = [q \in Queues |->
              IF q \in DOMAIN env.fenceValue THEN gpuQueue[q] \o CommandsFor(env, q)
              ELSE gpuQueue[q]]
    /\ mRunningJobQueue' = [mRunningJobQueue EXCEPT ![e].submitted = TRUE]
    /\ UNCHANGED <<submitted, extracted, recordings, commands, threads, mFree, made,
                   mNextValue, mCurrState, completed, gpuFence, gpuState, executed>>

EndSubmission ==
    /\ master = "submit" /\ ~\E e \in Unsubmitted : CanSubmit(e)
    /\ master' = "complete"
    /\ UNCHANGED <<submitted, extracted, recordings, commands, stacks, engine, gpu>>

(* ... then complete the bundles in order, up to the first one the GPU has not
   executed. *)
AnyFenceCompleted(env) == \E q \in DOMAIN env.fenceValue : gpuFence[q] >= env.fenceValue[q]
FencesCompleted(env) == \A q \in DOMAIN env.fenceValue : gpuFence[q] >= env.fenceValue[q]
Reversed(seq)        == [i \in DOMAIN seq |-> seq[Len(seq) + 1 - i]]

\* ResetCommandList makes the memory of the recorded commands available again.
CompleteOldest ==
    /\ master = "complete" /\ mRunningJobQueue # <<>>
    /\ LET env == Head(mRunningJobQueue)
       IN  /\ FencesCompleted(env)
           /\ completed' = completed \cup {env.id}
           /\ mFree' = [q \in Queues |-> Reversed(env.lists[q]) \o mFree[q]]
           /\ commands' = [list \in DOMAIN commands \ {ListOf(env, j) : j \in JobsOf(submitted[env.id])}
                             |-> commands[list]]
    /\ mRunningJobQueue' = Tail(mRunningJobQueue)
    /\ UNCHANGED <<submitted, extracted, recordings, made, mNextValue, mCurrState, threads, gpu>>

EndUpdate ==
    /\ master = "complete"
    /\ mRunningJobQueue # <<>> => ~FencesCompleted(Head(mRunningJobQueue))
    /\ master' = "extract"
    /\ UNCHANGED <<submitted, extracted, recordings, commands, stacks, engine, gpu>>

-----------------------------------------------------------------------------
(* The GPU.  A resource that decays is in the state COMMON again when the
   command lists of one call have been executed. *)
Contents(q, entry)  == {commands[<<q, entry.lists[i]>>] : i \in DOMAIN entry.lists}
StateAfter(q, entry, r) ==
    LET writing  == {list \in Contents(q, entry) : r \in {list[k].res : k \in DOMAIN list}}
        accessed == UNION {UsesOf(submitted[entry.id][q][i]) : i \in DOMAIN submitted[entry.id][q]}
    IN  IF r \in Decays THEN IF r \in accessed THEN COMMON ELSE gpuState[r]
        ELSE IF writing = {} THEN gpuState[r]
        ELSE LET list == CHOOSE l \in writing : TRUE
             IN  list[Latest({k \in DOMAIN list : list[k].res = r})].to

ExecuteOnGPU(q) ==
    /\ gpuQueue[q] # <<>> /\ Head(gpuQueue[q]).kind = "lists"
    /\ gpuState' = [r \in Resources |-> StateAfter(q, Head(gpuQueue[q]), r)]
    /\ executed' = executed \cup {<<Head(gpuQueue[q]).id, q>>}
    /\ gpuQueue' = [gpuQueue EXCEPT ![q] = Tail(@)]
    /\ UNCHANGED <<submitted, extracted, recordings, commands, threads, engine, gpuFence>>

SignalOnGPU(q) ==
    /\ gpuQueue[q] # <<>> /\ Head(gpuQueue[q]).kind = "signal"
    /\ gpuFence' = [gpuFence EXCEPT ![q] = Head(gpuQueue[q]).value]
    /\ gpuQueue' = [gpuQueue EXCEPT ![q] = Tail(@)]
    /\ UNCHANGED <<submitted, extracted, recordings, commands, threads, engine, gpuState, executed>>

-----------------------------------------------------------------------------
Init ==
    /\ submitted = <<>> /\ extracted = 0 /\ recordings = <<>>
    /\ master = "extract" /\ stacks = {}
    /\ mRunningJobQueue = <<>> /\ completed = {}
    /\ mFree = [q \in Queues |-> <<>>] /\ made = [q \in Queues |-> 0]
    /\ mNextValue = [q \in Queues |-> 1] /\ gpuFence = [q \in Queues |-> 0]
    /\ commands = <<>> /\ gpuQueue = [q \in Queues |-> <<>>] /\ executed = {}
    /\ mCurrState = InitialState /\ gpuState = InitialState

RunMasterRenderThreadLoop ==
    \/ ExtractBundle \/ BeginUpdate \/ EndSubmission \/ CompleteOldest \/ EndUpdate
    \/ TryExecuteJob \/ ReturnToLoop
    \/ \E e \in DOMAIN mRunningJobQueue : SubmitCommandLists(e)
Recorder(id) ==
    \/ BeginRecording(id) \/ EndRecording(id)
    \/ \E j \in JobsOf(submitted[id]) : RecordCommands(id, j)
Waiter == \E stack \in stacks : \E id \in completed : EventIsCompleted(stack, id)
Next ==
    \/ \E bundle \in Bundles : SubmitRenderJobBundle(bundle)
    \/ ExtractBundle
    \/ BeginUpdate
    \/ \E e \in DOMAIN mRunningJobQueue : SubmitCommandLists(e)
    \/ EndSubmission
    \/ CompleteOldest
    \/ EndUpdate
    \/ TryExecuteJob
    \/ ReturnToLoop
    \/ \E stack \in stacks : \E id \in Ids : WaitForEventCompletion(stack, id)
    \/ \E stack \in stacks : \E id \in completed : EventIsCompleted(stack, id)
    \/ PushBackFails
    \/ \E id \in DOMAIN recordings : BeginRecording(id)
    \/ \E id \in DOMAIN recordings : \E j \in JobsOf(submitted[id]) : RecordCommands(id, j)
    \/ \E id \in DOMAIN recordings : EndRecording(id)
    \/ \E q \in Queues : ExecuteOnGPU(q)
    \/ \E q \in Queues : SignalOnGPU(q)

(* The master render thread keeps running, a thread of the pool takes every
   job of the job system, and the GPU makes progress on every queue. *)
Fairness ==
    /\ WF_vars(RunMasterRenderThreadLoop)
    /\ \A id \in 1 .. MaxBundles : WF_vars(id \in Ids /\ Recorder(id))
    /\ WF_vars(Waiter)
    /\ \A q \in Queues : WF_vars(ExecuteOnGPU(q) \/ SignalOnGPU(q))
Spec == Init /\ [][Next]_vars /\ Fairness

-----------------------------------------------------------------------------
\* A command list is free, or it belongs to one running bundle: it is never reset
\* while it is recorded into or the GPU has yet to execute it
\* (RenderJobManager.cpp:266).
ListsInUse(q)  == UNION {{mRunningJobQueue[e].lists[q][i] : i \in DOMAIN mRunningJobQueue[e].lists[q]} :
                         e \in DOMAIN mRunningJobQueue}
ListsOnGPU(q)  == UNION {{gpuQueue[q][n].lists[i] : i \in DOMAIN gpuQueue[q][n].lists} :
                         n \in {m \in DOMAIN gpuQueue[q] : gpuQueue[q][m].kind = "lists"}}
ListsAreExclusive ==
    \A q \in Queues :
        /\ \A i, j \in DOMAIN mFree[q] : i # j => mFree[q][i] # mFree[q][j]
        /\ \A i \in DOMAIN mFree[q] : mFree[q][i] \notin ListsInUse(q)
        /\ \A e, f \in DOMAIN mRunningJobQueue :
             \A i \in DOMAIN mRunningJobQueue[e].lists[q], j \in DOMAIN mRunningJobQueue[f].lists[q] :
                <<e, i>> # <<f, j>> => mRunningJobQueue[e].lists[q][i] # mRunningJobQueue[f].lists[q][j]
        /\ ListsOnGPU(q) \subseteq ListsInUse(q)

\* A completed event means that the GPU has executed every command of the bundle
\* and that all earlier bundles are completed, too (RenderEventHandle::
\* IsEventCompleted).
CompletedMeansExecuted ==
    \A id \in completed :
        /\ \A q \in UsedQueues(submitted[id]) : <<id, q>> \in executed
        /\ 1 .. id \subseteq completed

\* What the fence values of the three queues are trusted with.
FencesTellTheTruth == ListsAreExclusive /\ CompletedMeansExecuted

\* The GPU finds every resource in the state that the commands it is about to
\* execute expect, although they were recorded out of order and before the GPU
\* got there (ResourceTransitionRequestManager.cpp:76): a barrier's before state is
\* the state, and a transition without a barrier starts in COMMON.  The exception is
\* the first transition of a resource that decays, if it was created in another state
\* than COMMON and was already read in an earlier bundle: it has decayed by then, but
\* only a transition makes the engine remember that (:89).
IsUsedBefore(id, r) ==
    \E jd \in 1 .. id - 1 : \E j \in JobsOf(submitted[jd]) : r \in UsesOf(Job(submitted[jd], j))
IsWrittenBefore(id, r) ==
    \E jd \in 1 .. id - 1 : \E j \in JobsOf(submitted[jd]) : r \in Writes(Job(submitted[jd], j))
DecayIsForgotten(id, r) ==
    /\ r \in Decays /\ InitialState[r] # COMMON
    /\ IsUsedBefore(id, r) /\ ~IsWrittenBefore(id, r)
ListIsValid(id, list) ==
    \A k \in DOMAIN list :
        LET earlier == {i \in 1 .. k - 1 : list[i].res = list[k].res}
        IN  \/ list[k].from = IF earlier = {} THEN gpuState[list[k].res] ELSE list[Latest(earlier)].to
            \/ earlier = {} /\ DecayIsForgotten(id, list[k].res)
TransitionsMatchTheGPU ==
    \A q \in Queues :
        (gpuQueue[q] # <<>> /\ Head(gpuQueue[q]).kind = "lists") =>
            /\ \A i \in DOMAIN Head(gpuQueue[q]).lists :
                   <<q, Head(gpuQueue[q]).lists[i]>> \in DOMAIN commands
            /\ \A list \in Contents(q, Head(gpuQueue[q])) : ListIsValid(Head(gpuQueue[q]).id, list)

\* Every bundle that is submitted is completed, so WaitForEventCompletion returns.
\* The exception is a job that waits for the event of a bundle on top of what must end
\* before that: on top of the recording of the bundle, or of an earlier one, or on the
\* master render thread; there it must not wait for a place in the queue either.
Hangs ==
    \E stack \in stacks : \E k \in DOMAIN stack :
        /\ stack[k].kind \in {"event", "push"}
        /\ \E i \in 1 .. k - 1 : stack[i].kind # "event" /\ stack[i].id <= stack[k].id
EveryBundleCompletes == []<>(Ids \subseteq completed \/ Hangs)
=============================================================================
