---------------------------- MODULE CommandQueues ----------------------------
(***************************************************************************)
(* GPUCommandManager::SubmitGPUCommandContextGroup and the                 *)
(* GPUCommandQueues.  A D3D12 command queue executes what it is given in   *)
(* order, but the queues are not ordered with respect to one another,      *)
(* except that the queues a group uses are told to wait for the fences of  *)
(* the queues that the group before it used.  One thread at a time submits *)
(* groups (OneHandler of FrameSubmission).                                 *)
(***************************************************************************)
EXTENDS Naturals, Sequences, FiniteSets

CONSTANTS Queues,      \* DIRECT, COMPUTE and COPY
          NumGroups    \* bound: groups submitted

ASSUME QueueAssumption ==
    /\ IsFiniteSet(Queues)
    /\ NumGroups \in Nat

VARIABLES
    mLastSubmissionQueues,
    given,       \* queue -> the batches of command lists it was ever given
    completed,   \* queue -> the value its fence has reached: batches executed
    running,     \* the queues that are executing the batch after these
    usedBy       \* history: group, by submission -> the queues it has commands for

vars == <<mLastSubmissionQueues, given, completed, running, usedBy>>

Groups == 1 .. Len(usedBy)

\* A fence is signalled after each batch, so it counts the batches.
mCurrSignalValue(q) == Len(given[q])

Init ==
    /\ mLastSubmissionQueues = {}
    /\ given = [q \in Queues |-> <<>>]
    /\ completed = [q \in Queues |-> 0]
    /\ running = {}
    /\ usedBy = <<>>

(***************************************************************************)
(* The fences, with their values, for which a queue is told to wait before *)
(* it executes its part of a group that has commands for the queues used.  *)
(***************************************************************************)
\* Mutants: only a queue the last group did not use waits; a queue waits for
\* the batch it is about to be given.
HaltUnlessUsed(q, used) ==
    [r \in IF q \in used \ mLastSubmissionQueues THEN mLastSubmissionQueues ELSE {}
        |-> mCurrSignalValue(r)]
HaltForNext(q, used) ==
    [r \in IF q \in used THEN mLastSubmissionQueues \ {q} ELSE {}
        |-> mCurrSignalValue(r) + 1]

Halt(q, used) ==
    [r \in IF q \in used THEN mLastSubmissionQueues \ {q} ELSE {}
        |-> mCurrSignalValue(r)]

\* Mutant: a group without commands counts as the last submission.
SubmitForgetting(lists, used) ==
    /\ mLastSubmissionQueues' = used
    /\ usedBy' = IF used = {} THEN usedBy ELSE Append(usedBy, used)
    /\ given' = IF used = {} THEN given ELSE
                [q \in Queues |->
                    IF q \in lists
                    THEN Append(given[q], [group |-> Len(usedBy) + 1,
                                           halts |-> Halt(q, used)])
                    ELSE given[q]]
    /\ UNCHANGED <<completed, running>>

\* A group has command lists for the queues lists, and the lists for the
\* queues used have commands in them; one without commands is not submitted.
SubmitGPUCommandContextGroup(lists, used) ==
    /\ used # {}
    /\ given' = [q \in Queues |->
                    IF q \in lists
                    THEN Append(given[q], [group |-> Len(usedBy) + 1,
                                           halts |-> Halt(q, used)])
                    ELSE given[q]]
    /\ mLastSubmissionQueues' = used
    /\ usedBy' = Append(usedBy, used)
    /\ UNCHANGED <<completed, running>>

(***************************************************************************)
(* The GPU.                                                                *)
(***************************************************************************)
Batch(q) == given[q][completed[q] + 1]

ExecuteCommandLists(q) ==
    /\ q \notin running
    /\ completed[q] < Len(given[q])
    /\ \A r \in DOMAIN Batch(q).halts : completed[r] >= Batch(q).halts[r]
    /\ running' = running \cup {q}
    /\ UNCHANGED <<mLastSubmissionQueues, given, completed, usedBy>>

\* The one Signal that follows the command lists of a batch takes effect.
SignalFence(q) ==
    /\ q \in running
    /\ running' = running \ {q}
    /\ completed' = [completed EXCEPT ![q] = @ + 1]
    /\ UNCHANGED <<mLastSubmissionQueues, given, usedBy>>

------------------------------------------------------------------------------
GPUStep == \E q \in Queues : ExecuteCommandLists(q) \/ SignalFence(q)

Next == \/ /\ Len(usedBy) < NumGroups
           /\ \E lists \in SUBSET Queues : \E used \in SUBSET lists :
                  SubmitGPUCommandContextGroup(lists, used)
        \/ GPUStep

Spec == Init /\ [][Next]_vars

\* The GPU goes on as long as some queue can.
FairSpec == Spec /\ WF_vars(GPUStep)

------------------------------------------------------------------------------
\* The lists a queue is given belong to a group, and name queues to wait for.
IsBatch(b) == /\ b.group \in Nat \ {0}
              /\ DOMAIN b.halts \subseteq Queues
              /\ \A r \in DOMAIN b.halts : b.halts[r] \in Nat

\* Types, and: a queue's fence never gets ahead of what the queue was given,
\* and while the queue executes, it lags behind.
TypeOK ==
    /\ mLastSubmissionQueues \subseteq Queues
    /\ DOMAIN given = Queues
    /\ \A q \in Queues : \A k \in 1 .. Len(given[q]) : IsBatch(given[q][k])
    /\ \A q \in Queues :
           completed[q] + (IF q \in running THEN 1 ELSE 0) \in 0 .. Len(given[q])
    /\ running \subseteq Queues
    /\ usedBy \in Seq(SUBSET Queues)

\* Queue q has begun, or executed, its part of group g.
Begun(g, q) == \E k \in 1 .. Len(given[q]) :
                   /\ given[q][k].group = g
                   /\ k <= completed[q] \/ (q \in running /\ k = completed[q] + 1)
Done(g, q)  == \E k \in 1 .. Len(given[q]) : given[q][k].group = g /\ k <= completed[q]

\* No queue begins a group before every queue has executed all the commands it
\* has of all earlier groups, although a queue waits only for the queues of the
\* group before, and for none if that was a group it alone executed.
GroupsExecuteInOrder ==
    \A g \in Groups : \A q \in usedBy[g] : Begun(g, q) =>
        \A h \in 1 .. g - 1 : \A r \in usedBy[h] : Done(h, r)

\* The queues together are one timeline that executes a group at a time.
Retired(g) == \A q \in usedBy[g] : Done(g, q)
Timeline == INSTANCE SerialTimeline WITH
    submitted <- Len(usedBy),
    retired   <- Cardinality({g \in Groups : Retired(g)}),
    active    <- \E g \in Groups : ~Retired(g) /\ \E q \in usedBy[g] : Begun(g, q)
ImplementsSerialTimeline == Timeline!Spec

\* The queues never wait for one another in a circle: time and again, everything
\* submitted has been executed to its end (there are only NumGroups groups).
GroupIsExecuted == []<>(\A g \in Groups : Retired(g))
=============================================================================
