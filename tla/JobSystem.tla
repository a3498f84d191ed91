------------------------------ MODULE JobSystem ------------------------------
(***************************************************************************)
(* Brawler::Job, JobGroup, JobCounter and JobRunner: fork and join of CPU  *)
(* jobs.  A job adds jobs to a JobGroup and either waits for them          *)
(* (ExecuteJobs, co_await) or does not (ExecuteJobsAsync).  A thread that  *)
(* waits executes other queued jobs on top of its own stack, so a stack    *)
(* interleaves frames of unrelated jobs; a job that throws unwinds it.     *)
(*                                                                         *)
(* The queues are one BoundedQueue (ThreadSafeQueue implements it; their   *)
(* priorities and the sleep of idle workers are in WorkerThreadPool).  A   *)
(* JobGroup is named by the job that makes it.                             *)
(***************************************************************************)
EXTENDS Naturals, Sequences, FiniteSets

CONSTANTS Workers,
          Main,          \* the main thread, and the application code it runs
          Jobs,          \* bound: the jobs there can be, each added to one group
          Nobody,
          Throwing,      \* the jobs whose callback may throw
          MaxGroup,      \* bound: jobs in one group
          JOB_QUEUE_SIZE,
          CounterBits    \* JobCounter wraps at 2^CounterBits, 2^32 in the code

Threads  == Workers \cup {Main}
Makers   == Jobs \cup {Main}       \* who can make a JobGroup
Modulus  == 2 ^ CounterBits

ASSUME JobAssumption ==
    /\ Main \notin Workers \cup Jobs
    /\ Nobody \notin Makers
    /\ IsFiniteSet(Jobs)
    /\ Throwing \subseteq Jobs
    /\ JOB_QUEUE_SIZE \in Nat \ {0}
    /\ MaxGroup \in Nat \ {0}
    /\ CounterBits \in Nat
    /\ MaxGroup < Modulus

VARIABLES
    queue,         \* the queued jobs
    stack,         \* thread -> frames, [job, phase, pending], innermost last
    maker,         \* job -> whose JobGroup it was added to
    mode,          \* maker -> "none", "sync" or "async": how it runs its group
    mCounter,      \* maker -> the value of its group's JobCounter
    executed,      \* the jobs whose callback has returned or thrown
    exceptions,    \* mExceptionPtrQueue: jobs whose exception waits for Main
    killed,        \* the workers that passed an exception on and stopped
    threw          \* the jobs an exception has left so far

vars == <<queue, stack, maker, mode, mCounter, executed, exceptions, killed,
          threw>>

(***************************************************************************)
(* Phases of a frame: "run"ning the callback; "dispatch"ing the jobs of    *)
(* its group, pending being the ones left; "await"ing them; having caught  *)
(* an exception ("catch"); waiting for its siblings to rethrow it          *)
(* ("spin").  The frame of Main is the application's; "ended" when an      *)
(* exception has unwound it.                                               *)
(***************************************************************************)
Phases == {"run", "dispatch", "await", "catch", "spin", "ended"}
Frame(j) == [job |-> j, phase |-> "run", pending |-> {}]

Depth(t) == Len(stack[t])
Busy(t)  == stack[t] # <<>>
Top(t)   == stack[t][Depth(t)]
In(t, phase) == Busy(t) /\ Top(t).phase = phase

Frames    == UNION {{stack[t][d] : d \in 1 .. Len(stack[t])} : t \in Threads}
OnStack   == {f.job : f \in Frames}
Queued    == {queue[k] : k \in 1 .. Len(queue)}
Group(m)  == {j \in Jobs : maker[j] = m}

SetTop(t, f)   == stack' = [stack EXCEPT ![t][Depth(t)] = f]
SetPhase(t, p) == SetTop(t, [Top(t) EXCEPT !.phase = p])

(***************************************************************************)
(* JobCounter.                                                             *)
(***************************************************************************)
DecrementCounter(m)   == mCounter' = [mCounter EXCEPT ![m] = (@ + Modulus - 1) % Modulus]
SetCounterValue(m, n) == mCounter' = [mCounter EXCEPT ![m] = n]
IsFinished(m)         == mCounter[m] = 0

------------------------------------------------------------------------------
Init ==
    /\ queue = <<>>
    /\ stack = [t \in Threads |-> IF t = Main THEN <<Frame(Main)>> ELSE <<>>]
    /\ maker = [j \in Jobs |-> Nobody]
    /\ mode = [m \in Makers |-> "none"]
    /\ mCounter = [m \in Makers |-> 0]
    /\ executed = {}
    /\ exceptions = <<>>
    /\ killed = {}
    /\ threw = {}

(***************************************************************************)
(* JobGroup::ExecuteJobs sets the counter before it dispatches the jobs;   *)
(* ExecuteJobsAsync leaves it alone.  Each callback makes one group.       *)
(***************************************************************************)
Fork(t, how) ==
    /\ In(t, "run")
    /\ mode[Top(t).job] = "none"
    /\ \E group \in (SUBSET {j \in Jobs : maker[j] = Nobody}) \ {{}} :
          /\ Cardinality(group) <= MaxGroup
          /\ maker' = [j \in Jobs |-> IF j \in group THEN Top(t).job ELSE maker[j]]
          /\ IF how = "sync" THEN SetCounterValue(Top(t).job, Cardinality(group))
                             ELSE UNCHANGED mCounter
          /\ SetTop(t, [Top(t) EXCEPT !.phase = "dispatch", !.pending = group])
    /\ mode' = [mode EXCEPT ![Top(t).job] = how]
    /\ UNCHANGED <<queue, executed, exceptions, killed, threw>>

ExecuteJobs(t)      == Fork(t, "sync")
ExecuteJobsAsync(t) == Fork(t, "async")

\* DispatchJob: a job the full queue refuses is executed on the spot.
DispatchJob(t) ==
    /\ In(t, "dispatch")
    /\ \E j \in Top(t).pending :
          LET f == [Top(t) EXCEPT !.pending = @ \ {j}]
          IN  IF Len(queue) < JOB_QUEUE_SIZE
              THEN queue' = Append(queue, j) /\ SetTop(t, f)
              ELSE /\ stack' = [stack EXCEPT ![t] =
                                   Append([@ EXCEPT ![Depth(t)] = f], Frame(j))]
                   /\ UNCHANGED queue
    /\ UNCHANGED <<maker, mode, mCounter, executed, exceptions, killed, threw>>

DispatchEnds(t) ==
    /\ In(t, "dispatch")
    /\ Top(t).pending = {}
    /\ SetPhase(t, IF mode[Top(t).job] = "sync" THEN "await" ELSE "run")
    /\ UNCHANGED <<queue, maker, mode, mCounter, executed, exceptions, killed,
                   threw>>

(***************************************************************************)
(* Awaiter::await_suspend executes queued jobs until the counter is zero;  *)
(* a worker with an empty stack executes them until it is killed.          *)
(***************************************************************************)
AwaitEnds(t) ==
    /\ In(t, "await")
    /\ IsFinished(Top(t).job)
    /\ SetPhase(t, "run")
    /\ UNCHANGED <<queue, maker, mode, mCounter, executed, exceptions, killed,
                   threw>>

\* Mutant: a thread that waits for a group executes no other jobs.
LooksWhenIdle(t) == ~Busy(t) /\ t \notin killed

LooksForJob(t) ==
    IF Busy(t) THEN In(t, "await") /\ ~IsFinished(Top(t).job)
               ELSE t \notin killed

TryExecuteJob(t) ==
    /\ LooksForJob(t)
    /\ t = Main => exceptions = <<>>
    /\ queue # <<>>
    /\ queue' = Tail(queue)
    /\ stack' = [stack EXCEPT ![t] = Append(@, Frame(Head(queue)))]
    /\ UNCHANGED <<maker, mode, mCounter, executed, exceptions, killed, threw>>

(***************************************************************************)
(* The end of Job::Execute.                                                *)
(***************************************************************************)
JobReturns(t) ==
    LET j == Top(t).job
    IN  /\ In(t, "run")
        /\ j \in Jobs
        /\ stack' = [stack EXCEPT ![t] = SubSeq(@, 1, Depth(t) - 1)]
        /\ DecrementCounter(maker[j])
        /\ executed' = executed \cup {j}
        /\ UNCHANGED <<queue, maker, mode, exceptions, killed, threw>>

JobThrows(t) ==
    /\ In(t, "run")
    /\ Top(t).job \in Throwing
    /\ SetPhase(t, "catch")
    /\ UNCHANGED <<queue, maker, mode, mCounter, executed, exceptions, killed,
                   threw>>

CatchDecrements(t) ==
    LET j == Top(t).job
    IN  /\ In(t, "catch")
        /\ SetPhase(t, "spin")
        /\ DecrementCounter(maker[j])
        /\ executed' = executed \cup {j}
        /\ threw' = threw \cup {j}
        /\ UNCHANGED <<queue, maker, mode, exceptions, killed>>

\* What an exception does to the frame f it reaches: it leaves the callback,
\* whether it was dispatching or awaiting, for the catch block of its Execute.
Struck(f) == [f EXCEPT !.phase = IF f.job = Main THEN "ended" ELSE "catch",
                       !.pending = {}]

\* Mutant: an exception is passed on without waiting for the other jobs.
PassesOnAtOnce(j) == TRUE

SiblingsEnded(j) == IsFinished(maker[j])

Rethrow(t) ==
    LET below == SubSeq(stack[t], 1, Depth(t) - 1)
        last  == Len(below)
    IN  /\ In(t, "spin")
        /\ SiblingsEnded(Top(t).job)
        /\ IF below = <<>>
           THEN /\ stack' = [stack EXCEPT ![t] = <<>>]
                /\ exceptions' = Append(exceptions, Top(t).job)
                /\ killed' = killed \cup {t}
           ELSE /\ stack' = [stack EXCEPT ![t] =
                                [below EXCEPT ![last] = Struck(@)]]
                /\ UNCHANGED <<exceptions, killed>>
        /\ UNCHANGED <<queue, maker, mode, mCounter, executed, threw>>

\* Main, looking for a job while it waits, rethrows a worker's exception.
HandleThrownExceptions ==
    /\ LooksForJob(Main)
    /\ exceptions # <<>>
    /\ exceptions' = Tail(exceptions)
    /\ SetTop(Main, Struck(Top(Main)))
    /\ UNCHANGED <<queue, maker, mode, mCounter, executed, killed, threw>>

------------------------------------------------------------------------------
Forks(t)   == ExecuteJobs(t) \/ ExecuteJobsAsync(t)
Proceed(t) == \/ DispatchJob(t) \/ DispatchEnds(t) \/ AwaitEnds(t)
              \/ TryExecuteJob(t) \/ CatchDecrements(t) \/ Rethrow(t)
              \/ t = Main /\ HandleThrownExceptions
Finish(t)  == JobReturns(t) \/ JobThrows(t)

Next == \E t \in Threads : Forks(t) \/ Proceed(t) \/ Finish(t)

Spec == Init /\ [][Next]_vars

\* Threads keep being scheduled and callbacks end; when one makes its group,
\* and how often the application does, is not promised.
FairSpec == Spec /\ \A t \in Threads : WF_vars(Proceed(t) \/ Finish(t))

------------------------------------------------------------------------------
\* No job that a callback waits for is queued or executing once the frame of
\* that callback, whose memory the job may use, is gone or unwinding.  Job.cpp:56:
\* a thread waits for the counter, "otherwise, we risk stack unwinding wreaking
\* havoc on the memory accessed by other threads."
MakerOutlivesJobs ==
    \A j \in (Queued \cup OnStack) \ (executed \cup {Main}) :
        mode[maker[j]] = "sync" => \E f \in Frames :
            f.job = maker[j] /\ f.phase \in {"dispatch", "await"}

\* It is so as long as no callback has thrown: a callback's frame outlives the
\* jobs it waits for, on whichever stacks and in whichever order they execute.
StackSafety == threw = {} => MakerOutlivesJobs

\* ExecuteJobs returns only after every job of the group has been executed, and a
\* job of such a group that threw passes the exception on only after all its
\* siblings ended.
JoinAfterAll ==
    [][\A t \in Threads :
          /\ AwaitEnds(t) => Group(Top(t).job) \subseteq executed
          /\ (Rethrow(t) /\ mode[maker[Top(t).job]] = "sync")
                => Group(maker[Top(t).job]) \subseteq executed]_vars

\* Both: until one throws, a callback outlives the jobs it waits for, and at no time
\* does a group return without them (Job::Execute, JobGroup::ExecuteJobs).
GroupsAreJoined == []StackSafety /\ JoinAfterAll

\* As long as nothing is thrown, no callback waits for its jobs for ever: time
\* and again none waits (a job is executed once),
\* although every thread that could execute them may itself be waiting, with
\* other jobs buried in its stack.
Awaiting(m) == \E f \in Frames : f.job = m /\ f.phase \in {"dispatch", "await"}
WaitsEnd == []<>(threw # {} \/ \A m \in Makers : ~Awaiting(m))
=============================================================================
