--------------------------- MODULE FrameSubmission ---------------------------
(***************************************************************************)
(* How a frame goes from Renderer::ProcessFrame to the GPU: FrameGraph and *)
(* its fences, the CPU jobs that compile a frame and record its execution  *)
(* modules, and GPUCommandManager, one of whose submission jobs drains the *)
(* GPUCommandContextSinks of the frames in flight.                         *)
(*                                                                         *)
(* Main and the workers execute the jobs of one BoundedQueue, as in        *)
(* JobSystem; jobs that only record commands are left out, so a job that   *)
(* awaits them goes on at any time.  The GPU executes what is submitted to *)
(* it in order (the three command queues halt one another for it), and the *)
(* three fences of a FrameGraphFenceCollection are one.                    *)
(***************************************************************************)
EXTENDS Integers, Sequences, FiniteSets

CONSTANTS Workers,
          Main,                  \* the thread that calls ProcessFrame
          NumFrames,             \* bound: frames processed
          NumModules,            \* frame -> how many GPUExecutionModules it has
          JOB_QUEUE_SIZE,
          MAX_FRAMES_IN_FLIGHT

Threads    == Workers \cup {Main}
FrameNums  == 0 .. NumFrames - 1
Slots      == 0 .. MAX_FRAMES_IN_FLIGHT - 1  \* of FrameGraphs and of sinks
Slot(n)    == n % MAX_FRAMES_IN_FLIGHT
Modules(n) == 1 .. NumModules[n]

ASSUME FrameAssumption ==
    /\ Main \notin Workers
    /\ NumFrames \in Nat \ {0}
    /\ NumModules \in [FrameNums -> Nat]
    /\ JOB_QUEUE_SIZE \in Nat \ {0}
    /\ MAX_FRAMES_IN_FLIGHT \in Nat \ {0}

VARIABLES
    queue,            \* the queued jobs
    stack,            \* thread -> the calls it is inside of, innermost last
    compiled,         \* the frames whose compilation jobs have ended
    spanInitialized,  \* the local of BeginGPUCommandContextSubmission
    mCmdContextSinkArr,    \* slot -> [frame, notifier, submitted modules]
    FenceCollectionQueue,  \* the frames of mSinkInfo.FenceCollectionQueue
    IsThreadHandlingSinks,
    hEvent,           \* slot -> the HEvents of that FrameGraph's fences are set
    timeline,         \* what the GPU has been given, in order
    executed          \* how much of it the GPU has executed

cpuVars  == <<queue, stack>>
sinkVars == <<FenceCollectionQueue, IsThreadHandlingSinks>>
gpuVars  == <<hEvent, timeline, executed>>
vars == <<queue, stack, compiled, spanInitialized, mCmdContextSinkArr,
          sinkVars, gpuVars>>

(***************************************************************************)
(* Calls.  Main is inside ProcessFrame(frame) throughout; index counts the *)
(* modules it has dispatched.  A submission job that drains handles sink;  *)
(* index counts the submission points handled, seen is oldNotifierValue.   *)
(***************************************************************************)
Job(kind, n, i) == [kind |-> kind, frame |-> n, index |-> i]
Call(j) == [job |-> j, sink |-> Slot(j.frame), index |-> 0, seen |-> 0,
            pc |-> CASE j.kind = "process" -> "wait"
                     [] j.kind = "submit"  -> "init"
                     [] OTHER              -> "await"]

Depth(t) == Len(stack[t])
Busy(t)  == stack[t] # <<>>
Top(t)   == stack[t][Depth(t)]
At(t, pc) == Busy(t) /\ Top(t).pc = pc
SetTop(t, call)  == stack' = [stack EXCEPT ![t][Depth(t)] = call]
Goto(t, pc)      == SetTop(t, [Top(t) EXCEPT !.pc = pc])
Return(t)        == stack' = [stack EXCEPT ![t] = SubSeq(@, 1, Depth(t) - 1)]

Signal(n) == [kind |-> "signal", frame |-> n, index |-> 0]

Init ==
    /\ queue = <<>>
    /\ stack = [t \in Threads |->
                   IF t = Main THEN <<Call(Job("process", 0, 0))>> ELSE <<>>]
    /\ compiled = {}
    /\ spanInitialized = FALSE
    /\ mCmdContextSinkArr = [s \in Slots |-> [frame |-> -1, notifier |-> 0,
                                              submitted |-> {}]]
    /\ FenceCollectionQueue = <<>>
    /\ IsThreadHandlingSinks = FALSE
    /\ hEvent = [s \in Slots |-> TRUE]
    /\ timeline = <<>>
    /\ executed = 0

(***************************************************************************)
(* WorkerThreadPool::DispatchJob: a job the full queue refuses is executed *)
(* on the spot, on top of the call that dispatches it.                     *)
(***************************************************************************)
Dispatch(t, call, j) ==
    IF Len(queue) < JOB_QUEUE_SIZE
    THEN queue' = Append(queue, j) /\ SetTop(t, call)
    ELSE /\ stack' = [stack EXCEPT ![t] = Append([@ EXCEPT ![Depth(t)] = call],
                                                 Call(j))]
         /\ UNCHANGED queue

\* An idle worker takes jobs, and so does a thread that waits for other jobs:
\* inside ExecuteJobs, or in CompileFrameGraph's loop.
TryExecuteJob(t) ==
    /\ \/ ~Busy(t)
       \/ At(t, "await")
       \/ At(t, "compiling") /\ Top(t).job.frame \notin compiled
    /\ queue # <<>>
    /\ queue' = Tail(queue)
    /\ stack' = [stack EXCEPT ![t] = Append(@, Call(Head(queue)))]
    /\ UNCHANGED <<compiled, spanInitialized, mCmdContextSinkArr, sinkVars, gpuVars>>

(***************************************************************************)
(* Main: Renderer::ProcessFrame and AdvanceFrame.                          *)
(***************************************************************************)
\* Mutant: the FrameGraph is reset without waiting for its last frame.
ResetAtOnce ==
    /\ At(Main, "wait")
    /\ hEvent' = [hEvent EXCEPT ![Slot(Top(Main).job.frame)] = FALSE]
    /\ Goto(Main, "compile")
    /\ UNCHANGED <<queue, compiled, spanInitialized, mCmdContextSinkArr, sinkVars,
                   timeline, executed>>

\* ResetFrameGraph waits for the (auto-reset) events of its fences.
ResetFrameGraph ==
    /\ At(Main, "wait")
    /\ hEvent[Slot(Top(Main).job.frame)]
    /\ hEvent' = [hEvent EXCEPT ![Slot(Top(Main).job.frame)] = FALSE]
    /\ Goto(Main, "compile")
    /\ UNCHANGED <<queue, compiled, spanInitialized, mCmdContextSinkArr, sinkVars,
                   timeline, executed>>

\* CreateFrameGraphBuilders and CompileFrameGraph dispatch jobs and execute
\* queued ones until theirs have ended; one job stands for theirs here.
CompileFrameGraph ==
    /\ At(Main, "compile")
    /\ Dispatch(Main, [Top(Main) EXCEPT !.pc = "compiling"],
                Job("compile", Top(Main).job.frame, 0))
    /\ UNCHANGED <<compiled, spanInitialized, mCmdContextSinkArr, sinkVars, gpuVars>>

\* BeginGPUCommandContextSubmission dispatches the submission job.
BeginSubmission ==
    /\ At(Main, "compiling")
    /\ Top(Main).job.frame \in compiled
    /\ spanInitialized' = FALSE
    /\ Dispatch(Main, [Top(Main) EXCEPT !.pc = "span"],
                Job("submit", Top(Main).job.frame, 0))
    /\ UNCHANGED <<compiled, mCmdContextSinkArr, sinkVars, gpuVars>>

\* Its wait for the submission points executes no jobs.
SpanWaitEnds ==
    /\ At(Main, "span")
    /\ spanInitialized
    /\ Goto(Main, "modules")
    /\ UNCHANGED <<queue, compiled, spanInitialized, mCmdContextSinkArr, sinkVars,
                   gpuVars>>

\* FrameGraphExecutionContext::SubmitFrameGraph.
DispatchModule ==
    LET n == Top(Main).job.frame
        i == Top(Main).index + 1
    IN  /\ At(Main, "modules")
        /\ i \in Modules(n)
        /\ Dispatch(Main, [Top(Main) EXCEPT !.index = i], Job("module", n, i))
        /\ UNCHANGED <<compiled, spanInitialized, mCmdContextSinkArr, sinkVars,
                       gpuVars>>

AdvanceFrame ==
    LET n == Top(Main).job.frame
    IN  /\ At(Main, "modules")
        /\ Top(Main).index = NumModules[n]
        /\ n + 1 \in FrameNums
        /\ SetTop(Main, Call(Job("process", n + 1, 0)))
        /\ UNCHANGED <<queue, compiled, spanInitialized, mCmdContextSinkArr,
                       sinkVars, gpuVars>>

(***************************************************************************)
(* The jobs that await others, and what they do once these have ended.     *)
(***************************************************************************)
CompileEnds(t) ==
    /\ At(t, "await")
    /\ Top(t).job.kind = "compile"
    /\ compiled' = compiled \cup {Top(t).job.frame}
    /\ Return(t)
    /\ UNCHANGED <<queue, spanInitialized, mCmdContextSinkArr, sinkVars, gpuVars>>

\* Mutant: the sink's handler is not told.
ModuleEndsSilently(t) ==
    LET j == Top(t).job
    IN  /\ At(t, "await")
        /\ j.kind = "module"
        /\ mCmdContextSinkArr' =
              [mCmdContextSinkArr EXCEPT ![Slot(j.frame)].submitted = @ \cup {j.index}]
        /\ Return(t)
        /\ UNCHANGED <<queue, compiled, spanInitialized, sinkVars, gpuVars>>

\* SubmitGPUCommandContextGroups, at the end of SubmitCommandListsForRenderPasses.
ModuleEnds(t) ==
    LET j    == Top(t).job
        sink == mCmdContextSinkArr[Slot(j.frame)]
    IN  /\ At(t, "await")
        /\ j.kind = "module"
        /\ mCmdContextSinkArr' =
              [mCmdContextSinkArr EXCEPT ![Slot(j.frame)] =
                  [sink EXCEPT !.submitted = @ \cup {j.index}, !.notifier = @ + 1]]
        /\ Return(t)
        /\ UNCHANGED <<queue, compiled, spanInitialized, sinkVars, gpuVars>>

(***************************************************************************)
(* The submission job, which ends unless it finds no other draining.       *)
(***************************************************************************)
InitializeSinkForCurrentFrame(t) ==
    LET n == Top(t).job.frame
    IN  /\ At(t, "init")
        /\ mCmdContextSinkArr' =
              [mCmdContextSinkArr EXCEPT ![Slot(n)] =
                  [frame |-> n, notifier |-> 0, submitted |-> {}]]
        /\ spanInitialized' = TRUE
        /\ Goto(t, "push")
        /\ UNCHANGED <<queue, compiled, sinkVars, gpuVars>>

PushFences(t) ==
    /\ At(t, "push")
    /\ FenceCollectionQueue' = Append(FenceCollectionQueue, Top(t).job.frame)
    /\ IF IsThreadHandlingSinks THEN Return(t) ELSE Goto(t, "load")
    /\ IsThreadHandlingSinks' = TRUE
    /\ UNCHANGED <<queue, compiled, spanInitialized, mCmdContextSinkArr, gpuVars>>

(***************************************************************************)
(* DrainGPUCommandContextSinks, and RunGPUSubmissionLoop on each sink.     *)
(***************************************************************************)
Sink(t)         == mCmdContextSinkArr[Top(t).sink]
NumPoints(t)    == NumModules[Sink(t).frame]

LoadNotifier(t) ==
    /\ At(t, "load")
    /\ SetTop(t, [Top(t) EXCEPT !.seen = Sink(t).notifier,
                                !.pc = IF Top(t).index < NumPoints(t)
                                       THEN "extract" ELSE "pop"])
    /\ UNCHANGED <<queue, compiled, spanInitialized, mCmdContextSinkArr, sinkVars,
                   gpuVars>>

Submit(t, i) ==
    /\ i \in Sink(t).submitted
    /\ mCmdContextSinkArr' =
          [mCmdContextSinkArr EXCEPT ![Top(t).sink].submitted = @ \ {i}]
    /\ timeline' = Append(timeline, Job("module", Sink(t).frame, i))
    /\ SetTop(t, [Top(t) EXCEPT !.index = @ + 1,
                                !.pc = IF Top(t).index + 1 < NumPoints(t)
                                       THEN "extract" ELSE "pop"])
    /\ UNCHANGED <<queue, compiled, spanInitialized, sinkVars, hEvent, executed>>

SubmitNext(t) == At(t, "extract") /\ Submit(t, Top(t).index + 1)

FindEmptyPoint(t) ==
    /\ At(t, "extract")
    /\ Top(t).index + 1 \notin Sink(t).submitted
    /\ Goto(t, "sleep")
    /\ UNCHANGED <<queue, compiled, spanInitialized, mCmdContextSinkArr, sinkVars,
                   gpuVars>>

\* mSinkNotifier.wait: no job is executed meanwhile.
SinkWaitEnds(t) ==
    /\ At(t, "sleep")
    /\ Sink(t).notifier # Top(t).seen
    /\ Goto(t, "load")
    /\ UNCHANGED <<queue, compiled, spanInitialized, mCmdContextSinkArr, sinkVars,
                   gpuVars>>

\* Mutant: the handler lets go too early.
PopFencesLettingGo(t) ==
    /\ At(t, "pop")
    /\ FenceCollectionQueue' = Tail(FenceCollectionQueue)
    /\ IsThreadHandlingSinks' = FALSE
    /\ timeline' = Append(timeline, Signal(Head(FenceCollectionQueue)))
    /\ IF FenceCollectionQueue' = <<>>
       THEN Return(t)
       ELSE SetTop(t, [Top(t) EXCEPT !.sink = (@ + 1) % MAX_FRAMES_IN_FLIGHT,
                                     !.index = 0, !.pc = "load"])
    /\ UNCHANGED <<queue, compiled, spanInitialized, mCmdContextSinkArr, hEvent,
                   executed>>

\* The end of an iteration of DrainGPUCommandContextSinks, under the mutex.
PopFences(t) ==
    /\ At(t, "pop")
    /\ FenceCollectionQueue' = Tail(FenceCollectionQueue)
    /\ IsThreadHandlingSinks' = (FenceCollectionQueue' # <<>>)
    /\ timeline' = Append(timeline, Signal(Head(FenceCollectionQueue)))
    /\ IF FenceCollectionQueue' = <<>>
       THEN Return(t)
       ELSE SetTop(t, [Top(t) EXCEPT !.sink = (@ + 1) % MAX_FRAMES_IN_FLIGHT,
                                     !.index = 0, !.pc = "load"])
    /\ UNCHANGED <<queue, compiled, spanInitialized, mCmdContextSinkArr, hEvent,
                   executed>>

\* The GPU: a fence that reaches its value sets the event it was given.
GPUExecutes ==
    /\ executed < Len(timeline)
    /\ executed' = executed + 1
    /\ LET c == timeline[executed + 1]
       IN  hEvent' = IF c.kind = "signal" THEN [hEvent EXCEPT ![Slot(c.frame)] = TRUE]
                                          ELSE hEvent
    /\ UNCHANGED <<cpuVars, compiled, spanInitialized, mCmdContextSinkArr, sinkVars,
                   timeline>>

------------------------------------------------------------------------------
ProcessFrame == \/ ResetFrameGraph \/ CompileFrameGraph \/ BeginSubmission
                \/ SpanWaitEnds \/ DispatchModule \/ AdvanceFrame
Drain(t)     == \/ LoadNotifier(t) \/ SubmitNext(t) \/ FindEmptyPoint(t)
                \/ SinkWaitEnds(t) \/ PopFences(t)
Execute(t)   == \/ TryExecuteJob(t) \/ CompileEnds(t) \/ ModuleEnds(t)
                \/ InitializeSinkForCurrentFrame(t) \/ PushFences(t) \/ Drain(t)

Next == ProcessFrame \/ (\E t \in Threads : Execute(t)) \/ GPUExecutes

Spec == Init /\ [][Next]_vars

\* Threads keep being scheduled, the application keeps processing frames up to
\* the bound, and the GPU executes what it is given.
FairSpec == /\ Spec
            /\ WF_vars(ProcessFrame)
            /\ \A t \in Threads : WF_vars(Execute(t))
            /\ WF_vars(GPUExecutes)

------------------------------------------------------------------------------
Calls(t)  == {stack[t][d] : d \in 1 .. Depth(t)}
AllCalls  == UNION {Calls(t) : t \in Threads}
Queued    == {queue[k] : k \in 1 .. Len(queue)}
Handlers  == {t \in Threads :
                 \E c \in Calls(t) : c.pc \in {"load", "extract", "sleep", "pop"}}
\* Where frame n's fences are signalled, and where module i of it executes.
Signals(n)    == {k \in 1 .. Len(timeline) : timeline[k] = Signal(n)}
Places(n, i)  == {k \in 1 .. Len(timeline) : timeline[k] = Job("module", n, i)}
Frame(n)      == UNION {Places(n, i) : i \in Modules(n)}
Completed(n)  == \E k \in Signals(n) : k <= executed

\* The frames in the order in which submission jobs pushed their fences.
Pushed == LET signals == SelectSeq(timeline, LAMBDA c : c.kind = "signal")
          IN  [k \in 1 .. Len(signals) |-> signals[k].frame] \o FenceCollectionQueue

\* A submission job has overtaken that of the frame before.
Overtaken == \E k \in 1 .. Len(Pushed) : Pushed[k] # k - 1

\* Main executes a submission job itself, because the job queue was full.
MainSubmits == \E c \in Calls(Main) : c.job.kind = "submit"

\* The sinks have one handler at a time, and one whenever a frame's fences are
\* queued: no frame is left behind when a handler stops.
OneHandler ==
    /\ Cardinality(Handlers) = IF IsThreadHandlingSinks THEN 1 ELSE 0
    /\ IsThreadHandlingSinks <=> FenceCollectionQueue # <<>>

\* The GPU gets each frame's modules once each and in the order of the frame,
\* whatever the order in which they are recorded, and the frame's fences after
\* them, with nothing of another frame in between for the fences to wait for.
FrameInOnePiece ==
    \A n \in FrameNums :
        /\ \A i \in Modules(n) : Cardinality(Places(n, i)) <= 1
        /\ \A i, j \in Modules(n) : i < j =>
              \A k \in Places(n, j) : \E l \in Places(n, i) : l < k
        /\ \A k \in Signals(n) : k - NumModules[n] .. k - 1 = Frame(n)

\* Frames are handed on one by one, and none is left behind.
SinksInOrder == OneHandler /\ FrameInOnePiece

\* A FrameGraph is reset, and its command allocators and transient resources
\* with it, only when the GPU has executed all of its last frame.
ResetAfterExecution ==
    [][ResetFrameGraph => LET n == Top(Main).job.frame - MAX_FRAMES_IN_FLIGHT
                          IN  n >= 0 => Completed(n)]_vars

\* Every frame begun is executed by the GPU to its end, with the workers' help
\* or without, although Main and the handler of the sinks wait without
\* executing jobs; unless one submission job overtakes another, or Main has to
\* execute one itself.
FrameIsExecuted == []<>((\A n \in FrameNums : Completed(n)) \/ Overtaken \/ MainSubmits)
=============================================================================
