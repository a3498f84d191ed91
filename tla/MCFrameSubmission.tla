------------------------- MODULE MCFrameSubmission -------------------------
(* The threads of the pool at two levels, each on its own: with jobs that may *)
(* do anything, and with those that record and submit frames.                 *)
EXTENDS FrameSubmission, TLC

CONSTANTS w, j1, j2, NoJob, EXCEPTION_QUEUE_SIZE

\* Two modules in the first frame, none in the third, one in each of the others.
UnevenFrames == [n \in FrameNums |-> CASE n = 0 -> 2 [] n = 2 -> 0 [] OTHER -> 1]

VARIABLES level, mJobQueueArr, mJobQueueNotifier, mExceptionPtrQueue, mInitialized, mActive,
          mKeepGoing, pc, previousJobQueueNotifierValue, searched, poolStack, inHand, undispatched

PoolJobs == {j1, j2}
Pool == INSTANCE WorkerThreadPool WITH
            Jobs <- PoolJobs, Priority <- [j \in PoolJobs |-> 0], JOB_QUEUE_SIZE <- 1,
            stack <- poolStack

ASSUME Pool!PoolAssumption

poolVars == <<mJobQueueArr, mJobQueueNotifier, mExceptionPtrQueue, mInitialized, mActive,
              mKeepGoing, pc, previousJobQueueNotifierValue, searched, poolStack, inHand, undispatched>>
levels == <<level, vars, poolVars>>

Start == level \in {"frames", "pool"} /\ Init /\ Pool!Init

InFrames == level = "frames" /\ UNCHANGED <<level, poolVars>>
InPool == level = "pool" /\ UNCHANGED <<level, vars>>
Step == \/ InFrames /\ Next
        \/ InPool /\ Pool!Next

BothFair ==
    /\ Start /\ [][Step]_levels
    /\ WF_levels(InFrames /\ ProcessFrame)
    /\ \A t \in Threads : WF_levels(InFrames /\ Execute(t))
    /\ WF_levels(InFrames /\ GPUExecutes)
    /\ \A t \in Workers : WF_levels(InPool /\ Pool!WorkerStep(t))
    /\ WF_levels(InPool /\ Pool!MainGoesOn)
    /\ WF_levels(InPool /\ Pool!SetInitialized)

\* Those of the pool: a job that was dispatched does not stay in its queue, and
\* the destructor's notification makes every worker exit.  One of the jobs and
\* one of the workers will do, as they are all alike.
PoolGoesOn == Pool!JobIsTaken(j1) /\ Pool!DestructorStops(w)

\* That of the frames: each that was begun is executed by the GPU.
EveryFrameIsExecuted == level = "frames" => FrameIsExecuted
=============================================================================
