------------------------- MODULE CommandQueuesProofs -------------------------
(***************************************************************************)
(* GPUCommandManager makes the command queues execute the groups in the    *)
(* order of submission: proved for any set of queues and any number of     *)
(* groups.  A queue waits only for the queues of the group before, so the  *)
(* invariant says why that is enough: the fence value it waits for covers  *)
(* that group's batch (HaltsCover), the queue's own batches are in order   *)
(* (BatchesInOrder), and every group left a batch somewhere (NoGroupEmpty),*)
(* which carries the order on to all the groups before that.               *)
(*                                                                         *)
(* Because the GPU executes frames in that order, a frame may use what the *)
(* frame two before used: the second part proves of FrameResources, for    *)
(* any set of threads and of builders and any number of frames, that       *)
(* command lists keep their allocators and descriptors until then.         *)
(***************************************************************************)
EXTENDS CommandQueues, FrameResources, FiniteSetTheorems, SequenceTheorems, TLAPS

Batches == [group : Nat \ {0}, halts : UNION {[R -> Nat] : R \in SUBSET Queues}]

Types ==
    /\ mLastSubmissionQueues \subseteq Queues
    /\ given \in [Queues -> Seq(Batches)]
    /\ completed \in [Queues -> Nat]
    /\ running \subseteq Queues
    /\ usedBy \in Seq(SUBSET Queues)

FencesLag ==
    /\ \A q \in Queues : completed[q] <= Len(given[q])
    /\ \A q \in running : completed[q] + 1 <= Len(given[q])

\* A queue's batches are of groups that exist, in ascending order.
BatchesInOrder ==
    \A q \in Queues : \A k \in 1 .. Len(given[q]) :
        /\ given[q][k].group \in 1 .. Len(usedBy)
        /\ \A j \in 1 .. k - 1 : given[q][j].group < given[q][k].group

HasBatch(q, g) == \E k \in 1 .. Len(given[q]) : given[q][k].group = g

NoGroupEmpty ==
    \A g \in 1 .. Len(usedBy) :
        /\ usedBy[g] # {}
        /\ \A q \in usedBy[g] : HasBatch(q, g)

LastIsRemembered ==
    /\ Len(usedBy) = 0 => mLastSubmissionQueues = {}
    /\ Len(usedBy) > 0 => mLastSubmissionQueues = usedBy[Len(usedBy)]

\* The halts of batch k of queue q wait for queue r's batch of group g.
Covers(q, k, r, g) ==
    /\ r \in DOMAIN given[q][k].halts
    /\ \E m \in 1 .. Len(given[r]) : /\ given[r][m].group = g
                                     /\ m <= given[q][k].halts[r]

HaltsCover ==
    \A q \in Queues : \A k \in 1 .. Len(given[q]) :
        \A g \in 1 .. Len(usedBy) - 1 :
            given[q][k].group = g + 1 /\ q \in usedBy[g + 1] =>
                \A r \in usedBy[g] \ {q} : Covers(q, k, r, g)

Order == BatchesInOrder /\ NoGroupEmpty /\ LastIsRemembered /\ HaltsCover

IInv == Types /\ FencesLag /\ Order /\ GroupsExecuteInOrder

------------------------------------------------------------------------------
\* A batch made for a group has the type of a batch.
LEMMA HaltType ==
    ASSUME Types, NEW q \in Queues, NEW used \in SUBSET Queues
    PROVE  /\ DOMAIN Halt(q, used) \subseteq mLastSubmissionQueues
           /\ \A r \in DOMAIN Halt(q, used) : Halt(q, used)[r] = Len(given[r])
           /\ q \in used => DOMAIN Halt(q, used) = mLastSubmissionQueues \ {q}
           /\ [group |-> Len(usedBy) + 1, halts |-> Halt(q, used)] \in Batches
<1> DEFINE R == IF q \in used THEN mLastSubmissionQueues \ {q} ELSE {}
<1>1. R \in SUBSET Queues /\ R \subseteq mLastSubmissionQueues
  BY DEF Types
<1>2. Halt(q, used) = [r \in R |-> Len(given[r])]
  BY DEF Halt, mCurrSignalValue
<1>3. \A r \in R : Len(given[r]) \in Nat
  BY <1>1 DEF Types
<1>4. Halt(q, used) \in [R -> Nat]
  BY <1>2, <1>3
<1>5. Halt(q, used) \in UNION {[S -> Nat] : S \in SUBSET Queues}
  BY <1>1, <1>4
<1>6. Len(usedBy) + 1 \in Nat \ {0}
  BY DEF Types
<1>7. [group |-> Len(usedBy) + 1, halts |-> Halt(q, used)] \in Batches
  BY <1>5, <1>6 DEF Batches
<1>8. q \in used => R = mLastSubmissionQueues \ {q}
  OBVIOUS
<1> HIDE DEF R
<1> QED
  BY <1>1, <1>2, <1>7, <1>8

\* What a queue was given only ever grows, by at most one batch a submission.
LEMMA GivenGrows ==
    ASSUME Types, NEW lists \in SUBSET Queues, NEW used \in SUBSET lists,
           SubmitGPUCommandContextGroup(lists, used), NEW q \in Queues
    PROVE  /\ given'[q] \in Seq(Batches)
           /\ Len(given[q]) \in Nat
           /\ Len(given[q]) <= Len(given'[q])
           /\ \A k \in 1 .. Len(given[q]) : given'[q][k] = given[q][k]
           /\ q \in lists => Len(given'[q]) = Len(given[q]) + 1
           /\ \A k \in 1 .. Len(given'[q]) :
                  \/ k \in 1 .. Len(given[q])
                  \/ /\ k = Len(given[q]) + 1
                     /\ given'[q][k] = [group |-> Len(usedBy) + 1,
                                        halts |-> Halt(q, used)]
<1> DEFINE b == [group |-> Len(usedBy) + 1, halts |-> Halt(q, used)]
<1>1. b \in Batches
  BY HaltType
<1>2. given[q] \in Seq(Batches)
  BY DEF Types
<1>3. given'[q] = IF q \in lists THEN Append(given[q], b) ELSE given[q]
  BY DEF SubmitGPUCommandContextGroup
<1> HIDE DEF b
<1>4. CASE q \in lists
  <2>1. given'[q] = Append(given[q], b)
    BY <1>3, <1>4
  <2>2. /\ given'[q] \in Seq(Batches)
        /\ Len(given'[q]) = Len(given[q]) + 1
        /\ \A k \in 1 .. Len(given[q]) : given'[q][k] = given[q][k]
        /\ given'[q][Len(given[q]) + 1] = b
    BY <2>1, <1>1, <1>2
  <2>3. Len(given[q]) \in Nat
    BY <1>2
  <2>4. \A k \in 1 .. Len(given'[q]) :
            k \in 1 .. Len(given[q]) \/ k = Len(given[q]) + 1
    BY <2>2, <2>3
  <2> QED
    BY <2>2, <2>3, <2>4 DEF b
<1>5. CASE q \notin lists
  <2>1. given'[q] = given[q]
    BY <1>3, <1>5
  <2> QED
    BY <2>1, <1>2, <1>5
<1> QED
  BY <1>4, <1>5

\* The history of groups grows by the group submitted.
LEMMA UsedGrows ==
    ASSUME Types, NEW lists \in SUBSET Queues, NEW used \in SUBSET lists,
           SubmitGPUCommandContextGroup(lists, used)
    PROVE  /\ usedBy' \in Seq(SUBSET Queues)
           /\ Len(usedBy) \in Nat
           /\ Len(usedBy') = Len(usedBy) + 1
           /\ \A g \in 1 .. Len(usedBy) : usedBy'[g] = usedBy[g]
           /\ usedBy'[Len(usedBy) + 1] = used
<1>1. usedBy \in Seq(SUBSET Queues) /\ used \in SUBSET Queues
  BY DEF Types
<1>2. usedBy' = Append(usedBy, used)
  BY DEF SubmitGPUCommandContextGroup
<1> QED
  BY <1>1, <1>2

------------------------------------------------------------------------------
\* Before anything is submitted, the invariant holds of empty queues.
LEMMA InitOK == Init => IInv
<1> SUFFICES ASSUME Init PROVE IInv
  OBVIOUS
<1>1. Types
  <2>1. usedBy \in Seq(SUBSET Queues)
    BY DEF Init
  <2>2. given \in [Queues -> Seq(Batches)]
    BY DEF Init
  <2> QED
    BY <2>1, <2>2 DEF Init, Types
<1>2. Len(usedBy) = 0 /\ \A q \in Queues : Len(given[q]) = 0
  BY DEF Init
<1>3. FencesLag /\ Order
  BY <1>2 DEF Init, FencesLag, Order, BatchesInOrder, NoGroupEmpty,
              LastIsRemembered, HaltsCover
<1>4. GroupsExecuteInOrder
  BY <1>2 DEF GroupsExecuteInOrder, Groups
<1> QED
  BY <1>1, <1>3, <1>4 DEF IInv

\* A submission keeps the types, and no fence ahead of its queue.
LEMMA SubmitTypes ==
    ASSUME IInv, NEW lists \in SUBSET Queues, NEW used \in SUBSET lists,
           SubmitGPUCommandContextGroup(lists, used)
    PROVE  Types' /\ FencesLag'
<1>1. Types
  BY DEF IInv
<1>2. used \subseteq Queues
  OBVIOUS
<1>3. \A q \in Queues : /\ given'[q] \in Seq(Batches)
                        /\ Len(given[q]) \in Nat
                        /\ Len(given[q]) <= Len(given'[q])
  BY <1>1, GivenGrows
<1>4. given' = [q \in Queues |-> given'[q]]
  BY DEF SubmitGPUCommandContextGroup
<1>5. given' \in [Queues -> Seq(Batches)]
  BY <1>3, <1>4
<1>6. Types'
  BY <1>1, <1>2, <1>5, UsedGrows DEF Types, SubmitGPUCommandContextGroup
<1>7. completed' = completed /\ running' = running
  BY DEF SubmitGPUCommandContextGroup
<1>8. \A q \in Queues : completed[q] \in Nat /\ Len(given'[q]) \in Nat
  BY <1>1, <1>3 DEF Types
<1>9. FencesLag'
  <2>1. ASSUME NEW q \in Queues PROVE completed'[q] <= Len(given'[q])
    BY <1>3, <1>7, <1>8 DEF IInv, FencesLag
  <2>2. ASSUME NEW q \in running' PROVE completed'[q] + 1 <= Len(given'[q])
    <3>1. q \in Queues /\ q \in running
      BY <1>1, <1>7 DEF Types
    <3> QED
      BY <3>1, <1>3, <1>7, <1>8 DEF IInv, FencesLag
  <2> QED
    BY <2>1, <2>2 DEF FencesLag
<1> QED
  BY <1>6, <1>9

------------------------------------------------------------------------------
\* A submission keeps the order among what the queues were given.
LEMMA SubmitOrder ==
    ASSUME IInv, NEW lists \in SUBSET Queues, NEW used \in SUBSET lists,
           SubmitGPUCommandContextGroup(lists, used)
    PROVE  Order'
<1> DEFINE n == Len(usedBy)
<1>0. Types /\ Order
  BY DEF IInv
<1>1. /\ n \in Nat
      /\ Len(usedBy') = n + 1
      /\ \A g \in 1 .. n : usedBy'[g] = usedBy[g]
      /\ usedBy'[n + 1] = used
  BY <1>0, UsedGrows
<1>2. used # {} /\ mLastSubmissionQueues' = used
  BY DEF SubmitGPUCommandContextGroup
<1>3. \A g \in 1 .. n : usedBy[g] \subseteq Queues
  BY <1>0 DEF Types
<1>g. ASSUME NEW q \in Queues
      PROVE  /\ Len(given[q]) \in Nat /\ Len(given'[q]) \in Nat
             /\ Len(given[q]) <= Len(given'[q])
             /\ \A k \in 1 .. Len(given[q]) : given'[q][k] = given[q][k]
             /\ \A k \in 1 .. Len(given'[q]) :
                    \/ k \in 1 .. Len(given[q])
                    \/ /\ k = Len(given[q]) + 1
                       /\ given'[q][k] = [group |-> n + 1, halts |-> Halt(q, used)]
  <2>1. given'[q] \in Seq(Batches)
    BY <1>0, GivenGrows
  <2>2. Len(given'[q]) \in Nat
    BY <2>1
  <2> QED
    BY <1>0, <2>2, GivenGrows
<1> HIDE DEF n
<1>4. BatchesInOrder'
  <2> SUFFICES ASSUME NEW q \in Queues, NEW k \in 1 .. Len(given'[q])
               PROVE  /\ given'[q][k].group \in 1 .. Len(usedBy')
                      /\ \A j \in 1 .. k - 1 :
                             given'[q][j].group < given'[q][k].group
    BY DEF BatchesInOrder
  <2>1. \A j \in 1 .. Len(given[q]) :
            /\ given'[q][j] = given[q][j]
            /\ given[q][j].group \in 1 .. n
            /\ \A i \in 1 .. j - 1 : given[q][i].group < given[q][j].group
    BY <1>0, <1>g DEF Order, BatchesInOrder, n
  <2>2. Len(given[q]) \in Nat
    BY <1>g
  <2>3. CASE k \in 1 .. Len(given[q])
    <3>1. \A j \in 1 .. k - 1 : j \in 1 .. Len(given[q])
      BY <2>2, <2>3
    <3>2. given'[q][k].group \in 1 .. n
      BY <2>1, <2>3
    <3>3. given'[q][k].group \in 1 .. Len(usedBy')
      BY <3>2, <1>1
    <3>4. \A j \in 1 .. k - 1 : given'[q][j].group < given'[q][k].group
      BY <2>1, <2>3, <3>1
    <3> QED
      BY <3>3, <3>4
  <2>4. CASE k = Len(given[q]) + 1 /\ given'[q][k].group = n + 1
    <3>1. \A j \in 1 .. k - 1 : j \in 1 .. Len(given[q])
      BY <2>2, <2>4
    <3> QED
      BY <2>1, <2>4, <3>1, <1>1, SMTT(30)
  <2>5. \/ k \in 1 .. Len(given[q])
        \/ k = Len(given[q]) + 1 /\ given'[q][k].group = n + 1
    <3>1. \/ k \in 1 .. Len(given[q])
          \/ /\ k = Len(given[q]) + 1
             /\ given'[q][k] = [group |-> n + 1, halts |-> Halt(q, used)]
      BY <1>g
    <3> QED
      BY <3>1
  <2> QED
    BY <2>3, <2>4, <2>5
<1>5. NoGroupEmpty'
  <2> SUFFICES ASSUME NEW g \in 1 .. Len(usedBy')
               PROVE  /\ usedBy'[g] # {}
                      /\ \A q \in usedBy'[g] :
                             \E k \in 1 .. Len(given'[q]) : given'[q][k].group = g
    BY DEF NoGroupEmpty, HasBatch
  <2>1. CASE g \in 1 .. n
    <3>1. usedBy'[g] = usedBy[g] /\ usedBy[g] # {}
      BY <1>0, <1>1, <2>1 DEF Order, NoGroupEmpty, n
    <3>2. ASSUME NEW q \in usedBy[g]
          PROVE  \E k \in 1 .. Len(given'[q]) : given'[q][k].group = g
      <4>1. q \in Queues
        BY <1>3, <2>1
      <4>2. PICK k \in 1 .. Len(given[q]) : given[q][k].group = g
        BY <1>0, <2>1 DEF Order, NoGroupEmpty, HasBatch, n
      <4>3. given'[q][k] = given[q][k]
        BY <4>1, <4>2, <1>g
      <4>4. /\ Len(given[q]) \in Nat /\ Len(given'[q]) \in Nat
            /\ Len(given[q]) <= Len(given'[q])
        BY <4>1, <1>g
      <4>5. k \in 1 .. Len(given'[q])
        BY <4>4
      <4> QED
        BY <4>2, <4>3, <4>5
    <3> QED
      BY <3>1, <3>2
  <2>2. CASE g = n + 1
    <3>1. usedBy'[g] = used
      BY <2>2, <1>1
    <3>2. ASSUME NEW q \in used
          PROVE  \E k \in 1 .. Len(given'[q]) : given'[q][k].group = g
      <4>1. q \in Queues /\ q \in lists
        OBVIOUS
      <4>2. Len(given[q]) \in Nat /\ Len(given'[q]) = Len(given[q]) + 1
        BY <4>1, <1>0, GivenGrows
      <4>3. Len(given[q]) + 1 \in 1 .. Len(given'[q])
        BY <4>2
      <4>4. Len(given[q]) + 1 \notin 1 .. Len(given[q])
        BY <4>2
      <4>5. given'[q][Len(given[q]) + 1] = [group |-> n + 1, halts |-> Halt(q, used)]
        BY <4>1, <4>3, <4>4, <1>g
      <4>6. given'[q][Len(given[q]) + 1].group = g
        BY <4>5, <2>2
      <4> QED
        BY <4>3, <4>6
    <3> QED
      BY <3>1, <3>2, <1>2
  <2>3. g \in 1 .. n \/ g = n + 1
    BY <1>1
  <2> QED
    BY <2>1, <2>2, <2>3
<1>6. LastIsRemembered'
  BY <1>1, <1>2 DEF LastIsRemembered
<1>7. HaltsCover'
  <2> SUFFICES ASSUME NEW q \in Queues, NEW k \in 1 .. Len(given'[q]),
                      NEW g \in 1 .. Len(usedBy') - 1,
                      given'[q][k].group = g + 1, q \in usedBy'[g + 1],
                      NEW r \in usedBy'[g] \ {q}
               PROVE  Covers(q, k, r, g)'
    BY DEF HaltsCover
  <2>1. g \in 1 .. n /\ usedBy'[g] = usedBy[g] /\ r \in usedBy[g] /\ r \in Queues
    BY <1>1, <1>3
  <2>2. /\ Len(given[r]) \in Nat /\ Len(given'[r]) \in Nat
        /\ Len(given[r]) <= Len(given'[r])
        /\ \A m \in 1 .. Len(given[r]) : given'[r][m] = given[r][m]
    BY <2>1, <1>g
  <2>3. \A m \in 1 .. Len(given[r]) : m \in 1 .. Len(given'[r])
    BY <2>2
  <2>4. CASE k \in 1 .. Len(given[q])
    <3>1. given'[q][k] = given[q][k] /\ given[q][k].group \in 1 .. n
      BY <2>4, <1>0, <1>g DEF Order, BatchesInOrder, n
    <3>2. g \in 1 .. n - 1 /\ usedBy'[g + 1] = usedBy[g + 1]
      BY <3>1, <2>1, <1>1
    <3>3. Covers(q, k, r, g)
      BY <3>1, <3>2, <2>1, <2>4, <1>0 DEF Order, HaltsCover, n
    <3> QED
      BY <3>1, <3>3, <2>2, <2>3 DEF Covers
  <2>5. CASE /\ k = Len(given[q]) + 1
             /\ given'[q][k] = [group |-> n + 1, halts |-> Halt(q, used)]
    <3>1. g = n /\ n > 0
      BY <2>1, <2>5, <1>1
    <3>2. q \in used /\ r \in mLastSubmissionQueues \ {q}
      BY <3>1, <2>1, <1>0, <1>1 DEF Order, LastIsRemembered, n
    <3>3. r \in DOMAIN Halt(q, used) /\ Halt(q, used)[r] = Len(given[r])
      BY <3>2, <1>0, HaltType
    <3>4. PICK m \in 1 .. Len(given[r]) : given[r][m].group = g
      BY <2>1, <1>0 DEF Order, NoGroupEmpty, HasBatch, n
    <3>5. m \in 1 .. Len(given'[r]) /\ given'[r][m].group = g /\ m <= Len(given[r])
      BY <3>4, <2>2, <2>3
    <3>6. given'[q][k].halts = Halt(q, used)
      BY <2>5
    <3> QED
      BY <3>3, <3>5, <3>6 DEF Covers
  <2>6. \/ k \in 1 .. Len(given[q])
        \/ /\ k = Len(given[q]) + 1
           /\ given'[q][k] = [group |-> n + 1, halts |-> Halt(q, used)]
    BY <1>g
  <2> QED
    BY <2>4, <2>5, <2>6
<1> QED
  BY <1>4, <1>5, <1>6, <1>7 DEF Order

\* A submission only appends batches no queue has begun: what has begun, or is
\* done, stays as it is.
LEMMA SubmitKeepsOrder ==
    ASSUME IInv, NEW lists \in SUBSET Queues, NEW used \in SUBSET lists,
           SubmitGPUCommandContextGroup(lists, used)
    PROVE  GroupsExecuteInOrder'
<1> DEFINE n == Len(usedBy)
<1>1. Types /\ FencesLag /\ BatchesInOrder
  BY DEF IInv, Order
<1>2. /\ n \in Nat
      /\ Len(usedBy') = n + 1
      /\ \A g \in 1 .. n : usedBy'[g] = usedBy[g]
      /\ usedBy'[n + 1] = used
      /\ \A g \in 1 .. n : usedBy[g] \subseteq Queues
  <2>1. usedBy \in Seq(SUBSET Queues)
    BY <1>1 DEF Types
  <2>2. \A g \in 1 .. n : usedBy[g] \subseteq Queues
    BY <2>1
  <2>3. /\ n \in Nat
        /\ Len(usedBy') = n + 1
        /\ \A g \in 1 .. n : usedBy'[g] = usedBy[g]
        /\ usedBy'[n + 1] = used
    BY <1>1, UsedGrows
  <2> QED BY <2>2, <2>3
<1>3. completed' = completed /\ running' = running
  BY DEF SubmitGPUCommandContextGroup
<1>4. ASSUME NEW q \in Queues
      PROVE  /\ Len(given[q]) \in Nat /\ Len(given'[q]) \in Nat
             /\ Len(given[q]) <= Len(given'[q])
             /\ \A k \in 1 .. Len(given[q]) : given'[q][k] = given[q][k]
             /\ completed[q] \in Nat /\ completed[q] <= Len(given[q])
             /\ q \in running => completed[q] + 1 <= Len(given[q])
             /\ \A k \in 1 .. Len(given[q]) : given[q][k].group \in 1 .. n
  <2>1. given'[q] \in Seq(Batches)
    BY <1>1, GivenGrows
  <2>2. Len(given'[q]) \in Nat
    BY <2>1
  <2>3. completed[q] \in Nat /\ completed[q] <= Len(given[q])
    BY <1>1 DEF Types, FencesLag
  <2>4. q \in running => completed[q] + 1 <= Len(given[q])
    BY <1>1 DEF FencesLag
  <2>5. \A k \in 1 .. Len(given[q]) : given[q][k].group \in 1 .. n
    BY <1>1 DEF BatchesInOrder
  <2> QED
    BY <1>1, <2>2, <2>3, <2>4, <2>5, GivenGrows
<1> HIDE DEF n
<1>5. ASSUME NEW g \in 1 .. n + 1, NEW q \in Queues, Begun(g, q)'
      PROVE  g \in 1 .. n /\ Begun(g, q)
  <2>1. PICK k \in 1 .. Len(given'[q]) :
            /\ given'[q][k].group = g
            /\ k <= completed[q] \/ (q \in running /\ k = completed[q] + 1)
    BY <1>3, <1>5 DEF Begun
  <2>2. k \in 1 .. Len(given[q])
    BY <2>1, <1>4
  <2>3. given[q][k].group = g /\ g \in 1 .. n
    BY <2>1, <2>2, <1>4
  <2> QED
    BY <2>1, <2>2, <2>3 DEF Begun
<1>6. ASSUME NEW g \in 1 .. n, NEW q \in Queues, Done(g, q)
      PROVE  Done(g, q)'
  <2>1. PICK k \in 1 .. Len(given[q]) : given[q][k].group = g /\ k <= completed[q]
    BY <1>6 DEF Done
  <2>2. k \in 1 .. Len(given'[q]) /\ given'[q][k].group = g
    BY <2>1, <1>4
  <2> QED
    BY <2>1, <2>2, <1>3 DEF Done
<1>7. SUFFICES ASSUME NEW g \in 1 .. n + 1, NEW q \in usedBy'[g], Begun(g, q)',
                      NEW h \in 1 .. g - 1, NEW r \in usedBy'[h]
               PROVE  Done(h, r)'
  BY <1>2 DEF GroupsExecuteInOrder, Groups
<1>8. q \in Queues
  <2>1. g \in 1 .. n \/ g = n + 1
    BY <1>2
  <2>2. used \subseteq Queues
    OBVIOUS
  <2> QED
    BY <2>1, <2>2, <1>2
<1>9. g \in 1 .. n /\ Begun(g, q)
  BY <1>5, <1>7, <1>8
<1>10. h \in 1 .. n /\ h \in 1 .. g - 1
  BY <1>9, <1>2
<1>11. q \in usedBy[g] /\ r \in usedBy[h] /\ r \in Queues
  BY <1>2, <1>9, <1>10
<1>12. Done(h, r)
  BY <1>9, <1>10, <1>11 DEF IInv, GroupsExecuteInOrder, Groups, n
<1> QED
  BY <1>6, <1>10, <1>11, <1>12

------------------------------------------------------------------------------
\* A queue that may begin a group finds the whole past done: by what it was
\* told to wait for, or by its own order, for the group before, and through any
\* queue of that group for the groups before it.
LEMMA BeginsInOrder ==
    ASSUME IInv, NEW q \in Queues, ExecuteCommandLists(q),
           NEW g \in 1 .. Len(usedBy), Batch(q).group = g, q \in usedBy[g],
           NEW h \in 1 .. g - 1, NEW r \in usedBy[h]
    PROVE  Done(h, r)
<1> DEFINE k == completed[q] + 1
<1>1. Types /\ FencesLag /\ Order /\ GroupsExecuteInOrder
  BY DEF IInv
<1>2. Len(usedBy) \in Nat /\ g \in Nat /\ h \in Nat
      /\ \A f \in 1 .. Len(usedBy) : usedBy[f] \subseteq Queues
  BY <1>1 DEF Types
<1>3. \A p \in Queues : completed[p] \in Nat /\ Len(given[p]) \in Nat
                        /\ completed[p] <= Len(given[p])
  BY <1>1 DEF Types, FencesLag
<1>4. k \in 1 .. Len(given[q]) /\ given[q][k].group = g
  BY <1>3 DEF ExecuteCommandLists, Batch
<1>5. \A p \in DOMAIN given[q][k].halts : completed[p] >= given[q][k].halts[p]
  BY DEF ExecuteCommandLists, Batch
<1>6. \A p \in DOMAIN given[q][k].halts : given[q][k].halts[p] \in Nat
  <2>1. given[q][k] \in Batches
    BY <1>1, <1>4 DEF Types
  <2>2. PICK R \in SUBSET Queues : given[q][k].halts \in [R -> Nat]
    BY <2>1 DEF Batches
  <2> QED
    BY <2>2
<1> HIDE DEF k
<1>7. ASSUME NEW p \in usedBy[g - 1], g > 1
      PROVE  Done(g - 1, p)
  <2>1. g - 1 \in 1 .. Len(usedBy) - 1 /\ g - 1 \in 1 .. Len(usedBy)
        /\ (g - 1) + 1 = g /\ p \in Queues
    BY <1>2, <1>7
  <2>2. CASE p # q
    <3>1. Covers(q, k, p, g - 1)
      BY <1>1, <1>4, <2>1, <2>2 DEF Order, HaltsCover
    <3>2. PICK m \in 1 .. Len(given[p]) : given[p][m].group = g - 1
                                          /\ m <= given[q][k].halts[p]
      BY <3>1 DEF Covers
    <3>3. p \in DOMAIN given[q][k].halts
      BY <3>1 DEF Covers
    <3>4. m <= completed[p]
      BY <3>2, <3>3, <1>3, <1>5, <1>6, <2>1, SMTT(30)
    <3> QED
      BY <3>2, <3>4 DEF Done
  <2>3. CASE p = q
    <3>1. PICK m \in 1 .. Len(given[q]) : given[q][m].group = g - 1
      BY <1>1, <2>1, <2>3 DEF Order, NoGroupEmpty, HasBatch
    <3>2. ~ (k < m)
      <4>1. k < m => k \in 1 .. m - 1
        BY <1>3, <1>4
      <4>2. k < m => given[q][k].group < given[q][m].group
        BY <4>1, <3>1, <1>1 DEF Order, BatchesInOrder
      <4>3. k < m => g < g - 1
        BY <4>2, <3>1, <1>4
      <4> QED
        BY <4>3, <1>2
    <3>3. k # m
      BY <3>1, <1>4, <1>2
    <3>4. m <= completed[q]
      BY <3>2, <3>3, <1>3 DEF k
    <3> QED
      BY <3>1, <3>4, <2>3 DEF Done
  <2> QED
    BY <2>2, <2>3
<1>8. g > 1 /\ g - 1 \in 1 .. Len(usedBy) /\ (h = g - 1 \/ h \in 1 .. (g - 1) - 1)
  BY <1>2
<1>9. CASE h = g - 1
  BY <1>7, <1>8, <1>9
<1>10. CASE h \in 1 .. (g - 1) - 1
  <2>1. PICK p \in usedBy[g - 1] : TRUE
    BY <1>1, <1>8 DEF Order, NoGroupEmpty
  <2>2. Begun(g - 1, p)
    BY <1>7, <1>8 DEF Done, Begun
  <2> QED
    BY <2>1, <2>2, <1>1, <1>8, <1>10 DEF GroupsExecuteInOrder, Groups
<1> QED
  BY <1>8, <1>9, <1>10

\* A queue that begins its next batch keeps the invariant: BeginsInOrder.
LEMMA ExecuteOK ==
    ASSUME IInv, NEW q \in Queues, ExecuteCommandLists(q)
    PROVE  IInv'
<1>1. /\ Types /\ FencesLag /\ Order /\ GroupsExecuteInOrder
      /\ running' = running \cup {q}
      /\ UNCHANGED <<mLastSubmissionQueues, given, completed, usedBy>>
  BY DEF IInv, ExecuteCommandLists
<1>2. Types'
  BY <1>1 DEF Types
<1>3. FencesLag'
  <2>1. completed[q] + 1 <= Len(given[q])
    BY <1>1 DEF ExecuteCommandLists, Types
  <2> QED
    BY <1>1, <2>1 DEF FencesLag
<1>4. Order'
  BY <1>1 DEF Order, BatchesInOrder, NoGroupEmpty, HasBatch, LastIsRemembered,
              HaltsCover, Covers
<1>5. GroupsExecuteInOrder'
  <2> SUFFICES ASSUME NEW g \in 1 .. Len(usedBy), NEW p \in usedBy[g], Begun(g, p)',
                      NEW h \in 1 .. g - 1, NEW r \in usedBy[h]
               PROVE  Done(h, r)
    BY <1>1 DEF GroupsExecuteInOrder, Groups, Done
  <2>1. CASE Begun(g, p)
    BY <1>1, <2>1 DEF GroupsExecuteInOrder, Groups
  <2>2. CASE ~ Begun(g, p)
    <3>1. PICK k \in 1 .. Len(given[p]) :
              /\ given[p][k].group = g
              /\ k <= completed[p] \/ (p \in running' /\ k = completed[p] + 1)
      BY <1>1 DEF Begun
    <3>2. p = q /\ k = completed[q] + 1
      BY <3>1, <2>2, <1>1 DEF Begun
    <3>3. Batch(q).group = g
      BY <3>1, <3>2 DEF Batch
    <3> QED
      BY <3>2, <3>3, BeginsInOrder
  <2> QED
    BY <2>1, <2>2
<1> QED
  BY <1>2, <1>3, <1>4, <1>5 DEF IInv

\* A queue that signals its fence keeps the invariant: what is done stays done.
LEMMA SignalOK ==
    ASSUME IInv, NEW q \in Queues, SignalFence(q)
    PROVE  IInv'
<1>1. /\ Types /\ FencesLag /\ Order /\ GroupsExecuteInOrder
      /\ q \in running
      /\ running' = running \ {q}
      /\ completed' = [completed EXCEPT ![q] = @ + 1]
      /\ UNCHANGED <<mLastSubmissionQueues, given, usedBy>>
  BY DEF IInv, SignalFence
<1>2. \A p \in Queues : completed[p] \in Nat
  BY <1>1 DEF Types
<1>3. completed'[q] = completed[q] + 1
      /\ \A p \in Queues \ {q} : completed'[p] = completed[p]
  BY <1>1 DEF Types
<1>4. Types'
  BY <1>1, <1>2 DEF Types
<1>5. FencesLag'
  <2>1. \A p \in Queues : completed'[p] <= Len(given'[p])
    BY <1>1, <1>3 DEF FencesLag
  <2>2. \A p \in running' : p \in Queues \ {q} /\ completed'[p] = completed[p]
    BY <1>1, <1>3 DEF Types
  <2>3. \A p \in running' : completed'[p] + 1 <= Len(given'[p])
    BY <1>1, <2>2 DEF FencesLag
  <2> QED
    BY <2>1, <2>3 DEF FencesLag
<1>6. Order'
  BY <1>1 DEF Order, BatchesInOrder, NoGroupEmpty, HasBatch, LastIsRemembered,
              HaltsCover, Covers
<1>7. ASSUME NEW g \in 1 .. Len(usedBy), NEW p \in Queues, Begun(g, p)'
      PROVE  Begun(g, p)
  <2>1. PICK k \in 1 .. Len(given[p]) :
            /\ given[p][k].group = g
            /\ k <= completed'[p] \/ (p \in running' /\ k = completed'[p] + 1)
    BY <1>1, <1>7 DEF Begun
  <2>2. CASE p = q
    <3>1. k <= completed[q] + 1
      BY <2>1, <2>2, <1>1, <1>3
    <3>2. k <= completed[p] \/ (p \in running /\ k = completed[p] + 1)
      BY <3>1, <2>2, <1>1, <1>2
    <3> QED
      BY <2>1, <3>2 DEF Begun
  <2>3. CASE p # q
    <3>1. k <= completed[p] \/ (p \in running /\ k = completed[p] + 1)
      BY <2>1, <2>3, <1>1, <1>3
    <3> QED
      BY <2>1, <3>1 DEF Begun
  <2> QED
    BY <2>2, <2>3
<1>8. ASSUME NEW g \in 1 .. Len(usedBy), NEW p \in Queues, Done(g, p)
      PROVE  Done(g, p)'
  <2>1. PICK k \in 1 .. Len(given[p]) : given[p][k].group = g /\ k <= completed[p]
    BY <1>8 DEF Done
  <2>2. k <= completed'[p]
    BY <2>1, <1>2, <1>3
  <2> QED
    BY <2>1, <2>2, <1>1 DEF Done
<1>9. GroupsExecuteInOrder'
  <2> SUFFICES ASSUME NEW g \in 1 .. Len(usedBy), NEW p \in usedBy[g], Begun(g, p)',
                      NEW h \in 1 .. g - 1, NEW r \in usedBy[h]
               PROVE  Done(h, r)'
    BY <1>1 DEF GroupsExecuteInOrder, Groups
  <2>1. h \in 1 .. Len(usedBy) /\ Len(usedBy) \in Nat
    BY <1>1 DEF Types
  <2>2. p \in Queues /\ r \in Queues
    BY <2>1, <1>1 DEF Types
  <2>3. Begun(g, p)
    BY <2>2, <1>7
  <2>4. Done(h, r)
    BY <2>3, <1>1 DEF GroupsExecuteInOrder, Groups
  <2> QED
    BY <2>1, <2>2, <2>4, <1>8
<1> QED
  BY <1>4, <1>5, <1>6, <1>9 DEF IInv

------------------------------------------------------------------------------
\* Every step keeps the invariant.
LEMMA IInvInductive == IInv /\ [Next]_vars => IInv'
<1> SUFFICES ASSUME IInv, [Next]_vars PROVE IInv'
  OBVIOUS
<1>1. ASSUME NEW lists \in SUBSET Queues, NEW used \in SUBSET lists,
             SubmitGPUCommandContextGroup(lists, used)
      PROVE  IInv'
  BY <1>1, SubmitTypes, SubmitOrder, SubmitKeepsOrder DEF IInv
<1>2. ASSUME NEW q \in Queues, ExecuteCommandLists(q) PROVE IInv'
  BY <1>2, ExecuteOK
<1>3. ASSUME NEW q \in Queues, SignalFence(q) PROVE IInv'
  BY <1>3, SignalOK
<1>4. CASE UNCHANGED vars
  BY <1>4 DEF vars, IInv, Types, FencesLag, Order, BatchesInOrder, NoGroupEmpty,
              HasBatch, LastIsRemembered, HaltsCover, Covers,
              GroupsExecuteInOrder, Groups, Begun, Done
<1> QED
  BY <1>1, <1>2, <1>3, <1>4 DEF Next, GPUStep

\* The inductive invariant holds of every state SubmitGPUCommandContextGroup
\* and the GPU can reach.
THEOREM Invariance == Spec => []IInv
  BY InitOK, IInvInductive, PTL DEF Spec

\* The lists, halts and fences keep their types, and no fence gets ahead of what
\* GPUCommandQueue::SubmitGPUCommandContextGroup gave its queue.
THEOREM TypeCorrect == Spec => []TypeOK
<1>1. IInv => TypeOK
  <2> SUFFICES ASSUME IInv PROVE TypeOK
    OBVIOUS
  <2>1. Types /\ FencesLag
    BY DEF IInv
  <2>2. DOMAIN given = Queues
    BY <2>1 DEF Types
  <2>3. ASSUME NEW q \in Queues, NEW k \in 1 .. Len(given[q])
        PROVE  IsBatch(given[q][k])
    <3>1. given[q][k] \in Batches
      BY <2>1 DEF Types
    <3>2. PICK R \in SUBSET Queues : given[q][k].halts \in [R -> Nat]
      BY <3>1 DEF Batches
    <3>3. given[q][k].group \in Nat \ {0}
      BY <3>1 DEF Batches
    <3> QED
      BY <3>2, <3>3 DEF IsBatch
  <2>4. ASSUME NEW q \in Queues
        PROVE  completed[q] + (IF q \in running THEN 1 ELSE 0) \in 0 .. Len(given[q])
    <3>1. completed[q] \in Nat /\ Len(given[q]) \in Nat
      BY <2>1 DEF Types
    <3>2. completed[q] <= Len(given[q])
          /\ (q \in running => completed[q] + 1 <= Len(given[q]))
      BY <2>1 DEF FencesLag
    <3> QED
      BY <3>1, <3>2
  <2> QED
    BY <2>1, <2>2, <2>3, <2>4 DEF TypeOK, Types
<1> QED
  BY <1>1, Invariance, PTL

\* HaltGPUCommandQueueForPreviousSubmission is enough: no queue begins a group
\* before every queue has executed its commands of all the groups before.
THEOREM OrderOfExecution == Spec => []GroupsExecuteInOrder
<1>1. IInv => GroupsExecuteInOrder
  BY DEF IInv
<1> QED
  BY <1>1, Invariance, PTL

(***************************************************************************)
(* The refinement of SerialTimeline.                                       *)
(***************************************************************************)
\* What the refinement of SerialTimeline reads off the queues: the groups that
\* are through, and whether one has begun and is not.
RetiredGroups == {g \in Groups : Retired(g)}
Active == \E g \in Groups : ~Retired(g) /\ \E q \in usedBy[g] : Begun(g, q)

\* The retired groups can be counted, and while one is not retired they are
\* fewer than all.
LEMMA RetiredIsFinite ==
    ASSUME Types
    PROVE  /\ IsFiniteSet(RetiredGroups)
           /\ Cardinality(RetiredGroups) \in Nat
           /\ \A g \in Groups : g \notin RetiredGroups =>
                  Cardinality(RetiredGroups) < Len(usedBy)
<1>1. Len(usedBy) \in Nat BY DEF Types
<1>2. IsFiniteSet(Groups) /\ Cardinality(Groups) = Len(usedBy)
  <2>1. 1 \in Int /\ Len(usedBy) \in Int /\ (1 > Len(usedBy) => Len(usedBy) = 0)
    BY <1>1
  <2>2. IsFiniteSet(Groups) BY <2>1, FS_Interval DEF Groups
  <2>3. Cardinality(Groups) = IF 1 > Len(usedBy) THEN 0 ELSE Len(usedBy) - 1 + 1
    BY <2>1, FS_Interval DEF Groups
  <2> QED BY <1>1, <2>1, <2>2, <2>3
<1>3. RetiredGroups \subseteq Groups BY DEF RetiredGroups
<1>4. QED BY <1>2, <1>3, FS_Subset, FS_CardinalityType

\* The batch a queue executes next is of a group not yet done on that queue.
LEMMA BatchOfNext ==
    ASSUME IInv, NEW q \in Queues, completed[q] < Len(given[q])
    PROVE  /\ Batch(q).group \in Groups
           /\ ~Done(Batch(q).group, q)
<1> DEFINE k == completed[q] + 1
<1>1. Types /\ BatchesInOrder BY DEF IInv, Order
<1>2. completed[q] \in Nat /\ Len(given[q]) \in Nat BY <1>1 DEF Types
<1>3. k \in 1 .. Len(given[q]) BY <1>2
<1>4. /\ given[q][k].group \in 1 .. Len(usedBy)
      /\ \A j \in 1 .. k - 1 : given[q][j].group < given[q][k].group
  BY <1>1, <1>3 DEF BatchesInOrder
<1>5. Len(usedBy) \in Nat BY <1>1 DEF Types
<1>6. ASSUME NEW m \in 1 .. Len(given[q]), given[q][m].group = given[q][k].group,
             m <= completed[q]
      PROVE  FALSE
  <2>1. m \in 1 .. k - 1 BY <1>2, <1>6
  <2>2. given[q][k].group < given[q][k].group BY <1>4, <1>6, <2>1
  <2>3. QED BY <1>4, <1>5, <2>2
<1>7. QED BY <1>4, <1>6 DEF Batch, Groups, Done

\* Before the first submission the timeline is empty.
LEMMA InitIsEmpty == Init => Timeline!Init
<1> SUFFICES ASSUME Init PROVE Timeline!Init OBVIOUS
<1>1. usedBy = <<>> /\ Len(usedBy) = 0 BY DEF Init
<1>2. Groups = {} BY <1>1 DEF Groups
<1>3. {g \in Groups : Retired(g)} = {} BY <1>2
<1>4. Cardinality({g \in Groups : Retired(g)}) = 0 BY <1>3, FS_EmptySet
<1>5. ~ \E g \in Groups : ~Retired(g) /\ \E q \in usedBy[g] : Begun(g, q) BY <1>2
<1> QED BY <1>1, <1>4, <1>5 DEF Timeline!Init

\* A submission adds one group at the end and changes nothing of what has begun
\* or is through.
LEMMA SubmissionIsSubmit ==
    ASSUME IInv, NEW lists \in SUBSET Queues, NEW used \in SUBSET lists,
           SubmitGPUCommandContextGroup(lists, used)
    PROVE  Timeline!Submit
<1>1. Types /\ FencesLag /\ BatchesInOrder
  BY DEF IInv, Order
<1>0. PICK n \in Nat : n = Len(usedBy) BY <1>1 DEF Types
<1>2. /\ n \in Nat
      /\ Len(usedBy') = n + 1
      /\ \A g \in 1 .. n : usedBy'[g] = usedBy[g]
      /\ usedBy'[n + 1] = used
      /\ \A g \in 1 .. n : usedBy[g] \subseteq Queues
  BY <1>0, <1>1, UsedGrows DEF Types
<1>3. /\ completed' = completed /\ running' = running /\ used # {}
  BY DEF SubmitGPUCommandContextGroup
<1>4. ASSUME NEW q \in Queues
      PROVE  /\ Len(given[q]) \in Nat /\ Len(given'[q]) \in Nat
             /\ Len(given[q]) <= Len(given'[q])
             /\ \A k \in 1 .. Len(given[q]) : given'[q][k] = given[q][k]
             /\ completed[q] \in Nat /\ completed[q] <= Len(given[q])
             /\ q \in running => completed[q] + 1 <= Len(given[q])
             /\ \A k \in 1 .. Len(given[q]) : given[q][k].group \in 1 .. n
  <2>1. given'[q] \in Seq(Batches) BY <1>1, GivenGrows
  <2>2. Len(given'[q]) \in Nat BY <2>1
  <2>3. completed[q] \in Nat /\ completed[q] <= Len(given[q])
    BY <1>1 DEF Types, FencesLag
  <2>4. q \in running => completed[q] + 1 <= Len(given[q])
    BY <1>1 DEF FencesLag
  <2>5. \A k \in 1 .. Len(given[q]) : given[q][k].group \in 1 .. n
    BY <1>0, <1>1 DEF BatchesInOrder
  <2> QED BY <1>1, <2>2, <2>3, <2>4, <2>5, GivenGrows
\* What has begun, or is done, was given before.
<1>5. ASSUME NEW q \in Queues, NEW k \in 1 .. Len(given'[q]),
             k <= completed[q] \/ (q \in running /\ k = completed[q] + 1)
      PROVE  k \in 1 .. Len(given[q]) /\ given'[q][k] = given[q][k]
  BY <1>4, <1>5
<1>6. ASSUME NEW q \in Queues, NEW g \in 1 .. n + 1
      PROVE  /\ Done(g, q)' <=> Done(g, q)
             /\ Begun(g, q)' <=> Begun(g, q)
  <2>1. \A k \in 1 .. Len(given[q]) : k \in 1 .. Len(given'[q]) BY <1>4
  <2>2. Done(g, q)' => Done(g, q) BY <1>3, <1>5 DEF Done
  <2>3. Begun(g, q)' => Begun(g, q) BY <1>3, <1>5 DEF Begun
  <2>4. Done(g, q) => Done(g, q)' BY <1>3, <1>4, <2>1 DEF Done
  <2>5. Begun(g, q) => Begun(g, q)' BY <1>3, <1>4, <2>1 DEF Begun
  <2> QED BY <2>2, <2>3, <2>4, <2>5
<1>7. ASSUME NEW q \in Queues PROVE ~Done(n + 1, q) /\ ~Begun(n + 1, q)
  BY <1>2, <1>4 DEF Done, Begun
<1>8. ASSUME NEW g \in 1 .. n
      PROVE  /\ Retired(g)' <=> Retired(g)
             /\ (\E q \in usedBy'[g] : Begun(g, q)') <=> (\E q \in usedBy[g] : Begun(g, q))
  <2>1. g \in 1 .. n + 1 /\ usedBy'[g] = usedBy[g] /\ usedBy[g] \subseteq Queues
    BY <1>2
  <2> QED BY <2>1, <1>6 DEF Retired
<1>9. ~Retired(n + 1)' /\ ~ \E q \in usedBy'[n + 1] : Begun(n + 1, q)'
  <2>1. n + 1 \in 1 .. n + 1 /\ used \subseteq Queues BY <1>2
  <2>2. ASSUME NEW p \in used PROVE ~Done(n + 1, p)' /\ ~Begun(n + 1, p)'
    <3>1. p \in Queues BY <2>1
    <3>2. ~Done(n + 1, p) /\ ~Begun(n + 1, p) BY <1>7, <3>1
    <3>3. /\ Done(n + 1, p)' <=> Done(n + 1, p)
          /\ Begun(n + 1, p)' <=> Begun(n + 1, p)
      BY <1>6, <2>1, <3>1
    <3> QED BY <3>2, <3>3
  <2>3. PICK p \in used : TRUE BY <1>3
  <2>4. ~Retired(n + 1)'
    <3>1. ~Done(n + 1, p)' BY <2>2
    <3> QED BY <1>2, <2>3, <3>1 DEF Retired
  <2>5. ASSUME NEW r \in usedBy'[n + 1] PROVE ~Begun(n + 1, r)'
    BY <1>2, <2>2, <2>5
  <2> QED BY <2>4, <2>5
<1>10. Groups = 1 .. n /\ Groups' = 1 .. n + 1 BY <1>0, <1>2 DEF Groups
<1>11. \A g \in Groups' : g \in 1 .. n \/ g = n + 1 BY <1>2, <1>10
<1>12. \A g \in 1 .. n : g \in Groups' BY <1>2, <1>10
<1>13. RetiredGroups' = RetiredGroups
  <2>1. ASSUME NEW g \in 1 .. n PROVE g \in RetiredGroups' <=> g \in RetiredGroups
    <3>1. g \in Groups /\ g \in Groups' BY <1>10, <1>12, <2>1
    <3>2. g \in RetiredGroups <=> Retired(g) BY <3>1 DEF RetiredGroups
    <3>3. g \in RetiredGroups' <=> Retired(g)' BY <3>1 DEF RetiredGroups
    <3> QED BY <1>8, <3>2, <3>3
  <2>2. n + 1 \notin RetiredGroups' BY <1>9 DEF RetiredGroups
  <2>3. RetiredGroups \subseteq 1 .. n BY <1>10 DEF RetiredGroups
  <2>4. \A g \in RetiredGroups' : g \in 1 .. n \/ g = n + 1
    BY <1>11 DEF RetiredGroups
  <2> QED BY <2>1, <2>2, <2>3, <2>4
<1>14. Active' = Active
  <2>1. Active => Active'
    <3> SUFFICES ASSUME NEW g \in Groups, ~Retired(g), \E q \in usedBy[g] : Begun(g, q)
                 PROVE  Active'
      BY DEF Active
    <3>1. g \in 1 .. n /\ g \in Groups' BY <1>10, <1>12
    <3>2. ~Retired(g)' /\ \E q \in usedBy'[g] : Begun(g, q)' BY <1>8, <3>1
    <3> QED BY <3>1, <3>2 DEF Active
  <2>2. Active' => Active
    <3> SUFFICES ASSUME NEW g \in Groups', ~Retired(g)',
                        \E q \in usedBy'[g] : Begun(g, q)'
                 PROVE  Active
      BY DEF Active
    <3>1. g # n + 1 BY <1>9
    <3>2. g \in 1 .. n /\ g \in Groups BY <1>10, <1>11, <3>1
    <3>3. ~Retired(g) /\ \E q \in usedBy[g] : Begun(g, q) BY <1>8, <3>2
    <3> QED BY <3>2, <3>3 DEF Active
  <2> QED BY <2>1, <2>2 DEF Active
<1> QED BY <1>0, <1>2, <1>13, <1>14 DEF Timeline!Submit, RetiredGroups, Active

\* A queue that starts a batch begins a group on the timeline, or joins the
\* queues that execute it already.
LEMMA ExecutionIsBegin ==
    ASSUME IInv, NEW q \in Queues, ExecuteCommandLists(q)
    PROVE  Timeline!Begin \/ UNCHANGED <<Len(usedBy), Cardinality(RetiredGroups), Active>>
<1>1. /\ Types /\ running' = running \cup {q}
      /\ UNCHANGED <<mLastSubmissionQueues, given, completed, usedBy>>
      /\ completed[q] < Len(given[q])
  BY DEF IInv, ExecuteCommandLists
<1>2. \A g, p : Done(g, p)' <=> Done(g, p) BY <1>1 DEF Done
<1>3. Groups' = Groups BY <1>1 DEF Groups
<1>4. \A g \in Groups : Retired(g)' <=> Retired(g) BY <1>1, <1>2 DEF Retired
<1>5. RetiredGroups' = RetiredGroups BY <1>3, <1>4 DEF RetiredGroups
<1>6. \A g, p : Begun(g, p) => Begun(g, p)' BY <1>1 DEF Begun
<1>7. Active => Active'
  BY <1>1, <1>3, <1>4, <1>6 DEF Active
<1>8. Active \in BOOLEAN /\ Active' \in BOOLEAN BY DEF Active
<1>9. CASE Active' = Active BY <1>1, <1>5, <1>9
<1>10. CASE Active' # Active
  <2>1. ~Active /\ Active' BY <1>7, <1>8, <1>10
  <2>2. PICK g \in Groups : ~Retired(g) BY <1>3, <1>4, <2>1 DEF Active
  <2>3. g \notin RetiredGroups BY <2>2 DEF RetiredGroups
  <2>4. Cardinality(RetiredGroups) < Len(usedBy) BY <1>1, <2>3, RetiredIsFinite
  <2> QED BY <1>1, <1>5, <2>1, <2>4 DEF Timeline!Begin, RetiredGroups, Active
<1> QED BY <1>9, <1>10

\* A queue that signals ends the group on the timeline if it was the last of the
\* queues the group uses; no other group can have begun before.
LEMMA SignalIsEnd ==
    ASSUME IInv, NEW q \in Queues, SignalFence(q)
    PROVE  Timeline!End \/ UNCHANGED <<Len(usedBy), Cardinality(RetiredGroups), Active>>
<1>1. /\ Types /\ FencesLag /\ Order /\ GroupsExecuteInOrder
      /\ q \in running /\ running' = running \ {q}
      /\ completed' = [completed EXCEPT ![q] = @ + 1]
      /\ UNCHANGED <<mLastSubmissionQueues, given, usedBy>>
  BY DEF IInv, SignalFence
<1>2. \A p \in Queues : completed[p] \in Nat /\ Len(given[p]) \in Nat BY <1>1 DEF Types
<1>3. /\ completed'[q] = completed[q] + 1
      /\ \A p \in Queues \ {q} : completed'[p] = completed[p]
  BY <1>1 DEF Types
<1>4. completed[q] + 1 \in 1 .. Len(given[q]) BY <1>1, <1>2 DEF FencesLag
<1>0. PICK g \in Groups : g = Batch(q).group /\ ~Done(g, q)
  <2>1. completed[q] < Len(given[q]) BY <1>2, <1>4
  <2> QED BY <2>1, BatchOfNext
<1>5. g \in Groups /\ ~Done(g, q) BY <1>0
<1>6. given[q][completed[q] + 1].group = g BY <1>0 DEF Batch
<1>7. Groups' = Groups BY <1>1 DEF Groups
<1>8. \A f \in Groups : usedBy[f] \subseteq Queues /\ usedBy[f] # {}
  BY <1>1 DEF Groups, Types, Order, NoGroupEmpty
<1>9. ASSUME NEW f \in Groups, NEW p \in Queues
      PROVE  Done(f, p)' <=> Done(f, p) \/ (f = g /\ p = q)
  <2>1. CASE p # q BY <1>1, <1>3, <2>1 DEF Done
  <2>2. CASE p = q
    <3>1. \A k \in 1 .. Len(given[q]) :
             k <= completed[q] + 1 <=> k <= completed[q] \/ k = completed[q] + 1
      BY <1>2
    <3> QED BY <1>1, <1>3, <1>4, <1>6, <2>2, <3>1 DEF Done
  <2> QED BY <2>1, <2>2
<1>10. ASSUME NEW f \in Groups, NEW p \in Queues
       PROVE  Begun(f, p)' <=> Begun(f, p)
  <2>1. CASE p # q BY <1>1, <1>3, <2>1 DEF Begun
  <2>2. CASE p = q
    <3>1. \A k \in 1 .. Len(given[q]) :
             k <= completed[q] + 1 <=> k <= completed[q] \/ k = completed[q] + 1
      BY <1>2
    <3> QED BY <1>1, <1>3, <2>2, <3>1 DEF Begun
  <2> QED BY <2>1, <2>2
<1>11. Begun(g, q) BY <1>1, <1>4, <1>6 DEF Begun
<1>12. \A f \in Groups : f # g \/ q \notin usedBy[f] => (Retired(f)' <=> Retired(f))
  BY <1>1, <1>8, <1>9 DEF Retired
<1>13. CASE Retired(g)' <=> Retired(g)
  <2>1. \A f \in Groups : Retired(f)' <=> Retired(f) BY <1>12, <1>13 DEF Retired
  <2>2. RetiredGroups' = RetiredGroups BY <1>7, <2>1 DEF RetiredGroups
  <2>3. Active' <=> Active BY <1>1, <1>7, <1>8, <1>10, <2>1 DEF Active
  <2>4. Active' = Active BY <2>3 DEF Active
  <2> QED BY <1>1, <2>2, <2>4
<1>14. CASE ~(Retired(g)' <=> Retired(g))
  <2>1. q \in usedBy[g] BY <1>5, <1>12, <1>14 DEF Retired
  <2>2. ~Retired(g) /\ Retired(g)' BY <1>5, <1>14, <2>1 DEF Retired
  <2>3. Active BY <1>5, <1>11, <2>1, <2>2 DEF Active
  <2>4. \A f \in Groups : Retired(f)' <=> Retired(f) \/ f = g BY <1>12, <2>2 DEF Retired
  <2>5. RetiredGroups' = RetiredGroups \cup {g} /\ g \notin RetiredGroups
    BY <1>5, <1>7, <2>2, <2>4 DEF RetiredGroups
  <2>6. Cardinality(RetiredGroups') = Cardinality(RetiredGroups) + 1
    BY <1>1, <2>5, RetiredIsFinite, FS_AddElement
  <2>7. ~Active'
    <3> SUFFICES ASSUME NEW f \in Groups, ~Retired(f)', NEW p \in usedBy[f], Begun(f, p)'
                 PROVE  FALSE
      BY <1>1, <1>7 DEF Active
    <3>1. f # g /\ ~Retired(f) BY <2>2, <2>4
    <3>2. Begun(f, p) BY <1>8, <1>10
    <3>3. f < g \/ g < f
      <4>1. f \in Nat /\ g \in Nat BY <1>5 DEF Groups
      <4> QED BY <3>1, <4>1
    <3>4. CASE f < g
      <4>1. f \in 1 .. g - 1 BY <1>5, <3>4 DEF Groups
      <4>2. \A r \in usedBy[f] : Done(f, r)
        BY <1>1, <1>5, <1>11, <2>1, <4>1 DEF GroupsExecuteInOrder
      <4> QED BY <3>1, <4>2 DEF Retired
    <3>5. CASE g < f
      <4>1. g \in 1 .. f - 1 BY <1>5, <3>5 DEF Groups
      <4>2. \A r \in usedBy[g] : Done(g, r)
        BY <1>1, <3>2, <4>1 DEF GroupsExecuteInOrder
      <4> QED BY <2>2, <4>2 DEF Retired
    <3> QED BY <3>3, <3>4, <3>5
  <2>8. Active' = FALSE BY <2>7 DEF Active
  <2> QED BY <1>1, <2>3, <2>6, <2>8 DEF Timeline!End, RetiredGroups, Active
<1> QED BY <1>13, <1>14

\* Every step of the queues is a step of the timeline or invisible there.
LEMMA EveryStepIsOneOfTheTimeline ==
    ASSUME IInv, [Next]_vars
    PROVE  [Timeline!Submit \/ Timeline!Begin \/ Timeline!End]_<<Len(usedBy),
                Cardinality(RetiredGroups), Active>>
<1>1. ASSUME NEW lists \in SUBSET Queues, NEW used \in SUBSET lists,
             SubmitGPUCommandContextGroup(lists, used)
      PROVE  Timeline!Submit
  BY <1>1, SubmissionIsSubmit
<1>2. ASSUME NEW q \in Queues, ExecuteCommandLists(q)
      PROVE  Timeline!Begin \/ UNCHANGED <<Len(usedBy), Cardinality(RetiredGroups), Active>>
  BY <1>2, ExecutionIsBegin
<1>3. ASSUME NEW q \in Queues, SignalFence(q)
      PROVE  Timeline!End \/ UNCHANGED <<Len(usedBy), Cardinality(RetiredGroups), Active>>
  BY <1>3, SignalIsEnd
<1>4. CASE UNCHANGED vars
  BY <1>4 DEF vars, RetiredGroups, Active, Groups, Retired, Begun, Done
<1> QED BY <1>1, <1>2, <1>3, <1>4 DEF Next, GPUStep

\* For any set of queues and any number of groups the fences make the queues
\* execute groups as one serial timeline would, one after the other.
THEOREM QueuesImplementSerialTimeline == Spec => ImplementsSerialTimeline
<1>1. IInv /\ [Next]_vars
        => [Timeline!Submit \/ Timeline!Begin \/ Timeline!End]_<<Len(usedBy),
                Cardinality({g \in Groups : Retired(g)}),
                \E g \in Groups : ~Retired(g) /\ \E q \in usedBy[g] : Begun(g, q)>>
  BY EveryStepIsOneOfTheTimeline DEF RetiredGroups, Active
<1> QED BY InitIsEmpty, <1>1, Invariance, PTL
        DEF Spec, ImplementsSerialTimeline, Timeline!Spec

-----------------------------------------------------------------------------
(* What frames use in turn.                                                 *)

Allocators == [thread : Threads, slot : Slots]
Modules == [kind : {"module"}, builder : {NoDescriptor}, frame : Nat, step : {"module", "wait"},
            index : Nat, allocator : Allocators]
Records == [kind : {"record"}, builder : Builders, frame : Nat,
            step : {"reset", "table", "reserve", "copy", "close"},
            index : Nat, allocator : Allocators]
Jobs == [kind : {"module"}, builder : {NoDescriptor}, frame : Nat, mCachedFrameNumber : Nat]
          \cup [kind : {"record"}, builder : Builders, frame : Nat, mCachedFrameNumber : Nat]
Lists == [frame : Nat, builder : Builders, index : Nat, allocator : Allocators, intact : {TRUE}]
Tables == [index : Nat, mCreationFrameNum : Nat]

\* The jobs that threads execute, by thread and depth.
Places == {x \in Threads \X Nat : x[2] \in DOMAIN stack[x[1]]}
Call(x) == stack[x[1]][x[2]]
IsTop(x) == x[2] = Len(stack[x[1]])

\* Only the topmost job of a thread does not wait, and the frame number cached
\* for each is that of its frame.
StacksRight ==
    /\ stack \in [Threads -> Seq(Modules \cup Records)]
    /\ mCachedFrameNumberStack \in [Threads -> Seq(Nat)]
    /\ \A t \in Threads : Len(mCachedFrameNumberStack[t]) = Len(stack[t])
    /\ \A x \in Places : /\ mCachedFrameNumberStack[x[1]][x[2]] = Call(x).frame
                         /\ ~IsTop(x) => Call(x).step = "wait"

\* Frames two apart are never in flight at one time.
FramesRight ==
    /\ mCurrFrameNum \in Nat /\ executed \in Nat /\ processing \in BOOLEAN
    /\ submitted \subseteq 0 .. mCurrFrameNum - 1
    /\ executed <= mCurrFrameNum
    /\ mCurrFrameNum <= executed + (IF processing THEN 1 ELSE 2)

\* A job is queued, executed by one thread, or over, and then it has left its
\* command list, until its frame is submitted and executed.
Same(j, k) == j.kind = k.kind /\ j.builder = k.builder /\ j.frame = k.frame
IsLive(frame) == frame \in executed .. mCurrFrameNum - 1
Unbegun(frame) ==
    \/ \E j \in queued : j.kind = "module" /\ j.frame = frame
    \/ \E x \in Places : Call(x).step = "module" /\ Call(x).frame = frame
QueuedRight ==
    /\ queued \in SUBSET Jobs
    /\ \A j \in queued :
          /\ j.mCachedFrameNumber = j.frame
          /\ IsLive(j.frame) /\ j.frame \notin submitted
          /\ \A x \in Places : ~Same(j, Call(x))
          /\ j.kind = "record" => ~Unbegun(j.frame)
CallsRight ==
    \A x \in Places :
        /\ IsLive(Call(x).frame) /\ Call(x).frame \notin submitted
        /\ \A y \in Places : Same(Call(x), Call(y)) => x = y
        /\ Call(x).kind = "record" => ~Unbegun(Call(x).frame)
IsRecordJob(j, b, frame) == j.kind = "record" /\ j.builder = b /\ j.frame = frame
RecordedRight ==
    /\ recorded \in SUBSET Lists
    /\ \A l \in recorded :
          /\ IsLive(l.frame) /\ ~Unbegun(l.frame)
          /\ \A j \in queued : ~IsRecordJob(j, l.builder, l.frame)
          /\ \A x \in Places : ~IsRecordJob(Call(x), l.builder, l.frame)
JobsRight == QueuedRight /\ CallsRight /\ RecordedRight

\* The allocators are those of the slot of the frame.
SlotOfFrame(frame) == frame % MAX_FRAMES_IN_FLIGHT
AllocatorsRight ==
    /\ \A x \in Places : Call(x).step \in {"table", "reserve", "copy", "close"} =>
          Call(x).allocator = [thread |-> x[1], slot |-> SlotOfFrame(Call(x).frame)]
    /\ \A l \in recorded : l.allocator.slot = SlotOfFrame(l.frame)

\* Indices of the descriptor heap that are referred to: by command lists, and by tables
\* that may be returned.
Latest == IF processing THEN mCurrFrameNum ELSE mCurrFrameNum - 1
Used(slot) == {i \in Nat : /\ slot * PER_FRAME_DESCRIPTORS <= i
                           /\ i < slot * PER_FRAME_DESCRIPTORS + mPerFrameIndexArr[slot]}
Reference(index, builder, frame) == [index |-> index, builder |-> builder, frame |-> frame]
Current(b) == mDescriptorTable[b] # <<>> /\ mDescriptorTable[b][1].mCreationFrameNum >= Latest - 1
References ==
    {Reference(l.index, l.builder, l.frame) : l \in recorded}
      \cup {Reference(Call(x).index, Call(x).builder, Call(x).frame) :
                x \in {y \in Places : Call(y).step = "close"}}
      \cup {Reference(mDescriptorTable[b][1].index, b, mDescriptorTable[b][1].mCreationFrameNum) :
                b \in {b \in Builders : Current(b)}}
Copying == {x \in Places : Call(x).step = "copy"}
DescriptorsRight ==
    /\ mDescriptorTable \in [Builders -> {<<>>} \cup {<<table>> : table \in Tables}]
    /\ \A b \in Builders : mDescriptorTable[b] # <<>> =>
          mDescriptorTable[b][1].mCreationFrameNum < mCurrFrameNum
    /\ \A b \in Builders : Current(b) =>
          mDescriptorTable[b][1].index \in Used(SlotOfFrame(mDescriptorTable[b][1].mCreationFrameNum))
    /\ \A r \in References :
          /\ r \in [index : Nat, builder : Builders, frame : Nat]
          /\ mHeap[r.index] = r.builder
          /\ \E f \in {r.frame, r.frame + 1} : f < mCurrFrameNum /\ r.index \in Used(SlotOfFrame(f))
    /\ \A x \in Copying :
          /\ Call(x).index \in Used(SlotOfFrame(Call(x).frame))
          /\ \A r \in References : r.index # Call(x).index
          /\ \A y \in Copying : Call(x).index = Call(y).index => x = y

\* The builders that may still reserve a descriptor for a frame.
Waiting(frame) ==
    {b \in Builders :
        \/ frame >= mCurrFrameNum \/ Unbegun(frame)
        \/ \E j \in queued : IsRecordJob(j, b, frame)
        \/ \E x \in Places : /\ Call(x).step \in {"reset", "table", "reserve"}
                             /\ IsRecordJob(Call(x), b, frame)}
IndicesRight ==
    /\ mPerFrameIndexArr \in [Slots -> 0 .. Cardinality(Builders)]
    /\ \A frame \in Nat : frame \in Latest - 1 .. Latest =>
          mPerFrameIndexArr[SlotOfFrame(frame)] + Cardinality(Waiting(frame)) <= Cardinality(Builders)

FramesInv == StacksRight /\ FramesRight /\ JobsRight /\ AllocatorsRight /\ DescriptorsRight /\ IndicesRight

\* Two slots, that frames use in turn.
LEMMA Slotted ==
    /\ PER_FRAME_DESCRIPTORS \in Nat /\ IsFiniteSet(Builders) /\ Cardinality(Builders) \in Nat
    /\ Cardinality(Builders) <= PER_FRAME_DESCRIPTORS
    /\ Slots = {0, 1}
    /\ 0 * PER_FRAME_DESCRIPTORS = 0 /\ 1 * PER_FRAME_DESCRIPTORS = PER_FRAME_DESCRIPTORS
    /\ MAX_FRAMES_IN_FLIGHT * PER_FRAME_DESCRIPTORS = PER_FRAME_DESCRIPTORS + PER_FRAME_DESCRIPTORS
    /\ \A f \in Nat : /\ SlotOfFrame(f) \in Slots /\ SlotOfFrame(f + 1) \in Slots
                      /\ SlotOfFrame(f) # SlotOfFrame(f + 1)
<1>1. Cardinality(Builders) \in Nat
  BY FrameResourcesAssumption, FS_CardinalityType
<1>2. Slots = {0, 1}
  BY DEF Slots, MAX_FRAMES_IN_FLIGHT
<1>3. \A f \in Nat : /\ SlotOfFrame(f) \in Slots /\ SlotOfFrame(f + 1) \in Slots
                     /\ SlotOfFrame(f) # SlotOfFrame(f + 1)
  BY <1>2 DEF SlotOfFrame, MAX_FRAMES_IN_FLIGHT
<1> QED BY <1>1, <1>2, <1>3, FrameResourcesAssumption DEF MAX_FRAMES_IN_FLIGHT

\* The descriptors of a slot are its own.
LEMMA UsedApart ==
    ASSUME mPerFrameIndexArr \in [Slots -> 0 .. Cardinality(Builders)]
    PROVE  /\ Used(0) = {i \in Nat : i < mPerFrameIndexArr[0]}
           /\ Used(1) = {i \in Nat : /\ PER_FRAME_DESCRIPTORS <= i
                                     /\ i < PER_FRAME_DESCRIPTORS + mPerFrameIndexArr[1]}
           /\ \A s \in Slots : Used(s) \subseteq Indices
           /\ \A s, r \in Slots : s # r => Used(s) \cap Used(r) = {}
<1>1. /\ mPerFrameIndexArr[0] \in 0 .. Cardinality(Builders)
      /\ mPerFrameIndexArr[1] \in 0 .. Cardinality(Builders)
  BY Slotted
<1>2. /\ Used(0) = {i \in Nat : i < mPerFrameIndexArr[0]}
      /\ Used(1) = {i \in Nat : /\ PER_FRAME_DESCRIPTORS <= i
                                /\ i < PER_FRAME_DESCRIPTORS + mPerFrameIndexArr[1]}
  BY <1>1, Slotted DEF Used
<1>3. \A s \in Slots : Used(s) \subseteq Indices
  BY <1>1, <1>2, Slotted DEF Indices
<1>4. Used(0) \cap Used(1) = {}
  BY <1>1, <1>2, Slotted
<1> QED BY <1>2, <1>3, <1>4, Slotted

Top(t) == <<t, Len(stack[t])>>

\* Where the stacks are well formed, so is a job on one of them.
LEMMA CallsAreTyped ==
    ASSUME StacksRight
    PROVE  /\ \A x \in Places : /\ x \in Threads \X Nat /\ x = <<x[1], x[2]>> /\ x[1] \in Threads
                                /\ x[2] \in 1 .. Len(stack[x[1]])
                                /\ Call(x) \in Modules \cup Records
           /\ \A t \in Threads : stack[t] # <<>> =>
                 /\ Top(t) \in Places /\ Call(Top(t)) = Job(t) /\ IsTop(Top(t))
                 /\ GetCurrentFrameNumber(t) = Job(t).frame
           /\ \A x \in Places : IsTop(x) => x = Top(x[1])
<1>1. stack \in [Threads -> Seq(Modules \cup Records)]
  BY DEF StacksRight
<1>2. \A x \in Places : /\ x \in Threads \X Nat /\ x = <<x[1], x[2]>> /\ x[1] \in Threads
                        /\ x[2] \in 1 .. Len(stack[x[1]])
                        /\ Call(x) \in Modules \cup Records
  BY <1>1 DEF Places, Call
<1>3. ASSUME NEW t \in Threads, stack[t] # <<>>
      PROVE  /\ Top(t) \in Places /\ Call(Top(t)) = Job(t) /\ IsTop(Top(t))
             /\ GetCurrentFrameNumber(t) = Job(t).frame
  <2>1. stack[t] \in Seq(Modules \cup Records) /\ Len(stack[t]) \in Nat /\ Len(stack[t]) > 0
    BY <1>1, <1>3, EmptySeq
  <2>2. Top(t) \in Places /\ Call(Top(t)) = Job(t) /\ IsTop(Top(t))
    BY <2>1 DEF Top, Places, Call, Job, Last, IsTop
  <2>3. /\ mCachedFrameNumberStack[t] \in Seq(Nat)
        /\ Len(mCachedFrameNumberStack[t]) = Len(stack[t])
        /\ mCachedFrameNumberStack[t][Len(stack[t])] = Call(Top(t)).frame
    BY <2>2 DEF StacksRight, Top
  <2>4. mCachedFrameNumberStack[t] # <<>>
    BY <2>1, <2>3
  <2> QED BY <2>2, <2>3, <2>4 DEF GetCurrentFrameNumber, Last
<1>4. \A x \in Places : IsTop(x) => x = Top(x[1])
  BY <1>2 DEF IsTop, Top
<1> QED BY <1>2, <1>3, <1>4

\* What Front leaves of a sequence.
LEMMA FrontOf ==
    ASSUME NEW S, NEW s \in Seq(S), Len(s) > 0
    PROVE  /\ SubSeq(s, 1, Len(s) - 1) \in Seq(S)
           /\ Len(SubSeq(s, 1, Len(s) - 1)) = Len(s) - 1
           /\ \A i \in 1 .. Len(s) - 1 : SubSeq(s, 1, Len(s) - 1)[i] = s[i]
<1>1. Len(s) \in Nat /\ \A i \in 1 .. Len(s) - 1 : s[i] \in S
  OBVIOUS
<1> DEFINE n == Len(s) - 1
<1>2. n \in Nat /\ \A i \in 1 .. n : s[i] \in S
  BY <1>1
<1> HIDE DEF n
<1>3. /\ SubSeq(s, 1, n) \in Seq(S)
      /\ Len(SubSeq(s, 1, n)) = IF 1 <= n THEN n - 1 + 1 ELSE 0
      /\ \A i \in 1 .. n - 1 + 1 : SubSeq(s, 1, n)[i] = s[1 + i - 1]
  BY <1>2, SubSeqProperties
<1>4. Len(SubSeq(s, 1, n)) = n /\ \A i \in 1 .. n : SubSeq(s, 1, n)[i] = s[i]
  BY <1>2, <1>3
<1> QED BY <1>3, <1>4 DEF n

\* The jobs of a module, and those that record.
LEMMA KindsOfCalls ==
    ASSUME NEW c \in Modules \cup Records
    PROVE  /\ c.frame \in Nat /\ c.index \in Nat
           /\ \/ /\ c \in Modules /\ c.kind = "module" /\ c.builder = NoDescriptor
                 /\ c.step \in {"module", "wait"}
              \/ /\ c \in Records /\ c.kind = "record" /\ c.builder \in Builders
                 /\ c.step \in {"reset", "table", "reserve", "copy", "close"}
  BY DEF Modules, Records

\* A job goes on to its next step.
LEMMA Goes ==
    ASSUME StacksRight, NEW t \in Threads, stack[t] # <<>>,
           NEW job \in Modules \cup Records, Goto(t, job)
    PROVE  /\ stack' \in [Threads -> Seq(Modules \cup Records)]
           /\ \A u \in Threads : Len(stack'[u]) = Len(stack[u])
           /\ Places' = Places
           /\ \A x \in Places : /\ Call(x)' = IF x = Top(t) THEN job ELSE Call(x)
                                /\ IsTop(x)' <=> IsTop(x)
<1> DEFINE s == stack[t]
           r == Append(Front(s), job)
<1>1. stack \in [Threads -> Seq(Modules \cup Records)] /\ s \in Seq(Modules \cup Records)
  BY DEF StacksRight
<1>2. Len(s) \in Nat /\ Len(s) > 0
  BY <1>1, EmptySeq
<1>3. /\ Front(s) \in Seq(Modules \cup Records) /\ Len(Front(s)) = Len(s) - 1
      /\ \A i \in 1 .. Len(s) - 1 : Front(s)[i] = s[i]
  <2>1. /\ SubSeq(s, 1, Len(s) - 1) \in Seq(Modules \cup Records)
        /\ Len(SubSeq(s, 1, Len(s) - 1)) = Len(s) - 1
        /\ \A i \in 1 .. Len(s) - 1 : SubSeq(s, 1, Len(s) - 1)[i] = s[i]
    BY <1>1, <1>2, FrontOf
  <2> QED BY <2>1 DEF Front
<1>4. /\ r \in Seq(Modules \cup Records) /\ Len(r) = Len(s)
      /\ \A i \in 1 .. Len(s) : r[i] = IF i = Len(s) THEN job ELSE s[i]
  BY <1>2, <1>3
<1>5. stack' = [stack EXCEPT ![t] = r]
  BY DEF Goto
<1> HIDE DEF r, s
<1>6. stack' \in [Threads -> Seq(Modules \cup Records)]
  BY <1>1, <1>4, <1>5
<1>7. \A u \in Threads : stack'[u] = IF u = t THEN r ELSE stack[u]
  BY <1>1, <1>5
<1>8. \A u \in Threads : Len(stack'[u]) = Len(stack[u])
  BY <1>4, <1>7 DEF s
<1>9. \A u \in Threads : DOMAIN stack'[u] = DOMAIN stack[u]
  BY <1>1, <1>6, <1>8
<1>10. Places' = Places
  BY <1>9 DEF Places
<1>11. ASSUME NEW x \in Places
       PROVE  Call(x)' = (IF x = Top(t) THEN job ELSE Call(x)) /\ (IsTop(x)' <=> IsTop(x))
  <2>1. x = <<x[1], x[2]>> /\ x[1] \in Threads /\ x[2] \in 1 .. Len(stack[x[1]])
    BY CallsAreTyped
  <2>2. IsTop(x)' <=> IsTop(x)
    BY <1>8, <2>1 DEF IsTop
  <2>3. CASE x[1] # t
    BY <1>7, <2>1, <2>2, <2>3 DEF Call, Top
  <2>4. CASE x[1] = t
    <3>1. Call(x)' = r[x[2]] /\ x[2] \in 1 .. Len(s)
      BY <1>7, <2>1, <2>4 DEF Call, s
    <3>2. x = Top(t) <=> x[2] = Len(s)
      BY <2>1, <2>4 DEF Top, s
    <3> QED BY <1>4, <2>2, <2>4, <3>1, <3>2 DEF Call, s
  <2> QED BY <2>3, <2>4
<1> QED BY <1>6, <1>8, <1>10, <1>11

\* A job is over, and the one below it goes on.
LEMMA Returns ==
    ASSUME StacksRight, NEW t \in Threads, stack[t] # <<>>, Return(t)
    PROVE  /\ StacksRight'
           /\ Places' = Places \ {Top(t)}
           /\ \A x \in Places' : Call(x)' = Call(x)
<1> DEFINE s == stack[t]
           c == mCachedFrameNumberStack[t]
           n == Len(s) - 1
<1>1. /\ stack \in [Threads -> Seq(Modules \cup Records)] /\ s \in Seq(Modules \cup Records)
      /\ mCachedFrameNumberStack \in [Threads -> Seq(Nat)] /\ c \in Seq(Nat) /\ Len(c) = Len(s)
  BY DEF StacksRight
<1>2. Len(s) \in Nat /\ Len(s) > 0 /\ n \in Nat
  BY <1>1, EmptySeq
<1>3. /\ Front(s) \in Seq(Modules \cup Records) /\ Len(Front(s)) = n
      /\ \A i \in 1 .. n : Front(s)[i] = s[i]
  BY <1>1, <1>2, FrontOf DEF Front
<1>4. /\ Front(c) \in Seq(Nat) /\ Len(Front(c)) = n
      /\ \A i \in 1 .. n : Front(c)[i] = c[i]
  <2>1. Len(c) > 0
    BY <1>1, <1>2
  <2>2. /\ SubSeq(c, 1, Len(c) - 1) \in Seq(Nat) /\ Len(SubSeq(c, 1, Len(c) - 1)) = Len(c) - 1
        /\ \A i \in 1 .. Len(c) - 1 : SubSeq(c, 1, Len(c) - 1)[i] = c[i]
    BY <1>1, <2>1, FrontOf
  <2> QED BY <1>1, <2>2 DEF Front
<1>5. /\ stack' = [stack EXCEPT ![t] = Front(s)]
      /\ mCachedFrameNumberStack' = [mCachedFrameNumberStack EXCEPT ![t] = Front(c)]
  BY <1>1 DEF Return
<1> HIDE DEF s, c, n
<1>6. /\ stack' \in [Threads -> Seq(Modules \cup Records)]
      /\ mCachedFrameNumberStack' \in [Threads -> Seq(Nat)]
  BY <1>1, <1>3, <1>4, <1>5
<1>7. \A u \in Threads :
         /\ stack'[u] = IF u = t THEN Front(s) ELSE stack[u]
         /\ mCachedFrameNumberStack'[u] = IF u = t THEN Front(c) ELSE mCachedFrameNumberStack[u]
  BY <1>1, <1>5
<1>8. /\ \A u \in Threads : DOMAIN stack'[u] = IF u = t THEN 1 .. n ELSE DOMAIN stack[u]
      /\ DOMAIN stack[t] = 1 .. Len(s)
  BY <1>1, <1>3, <1>7 DEF s
<1>9. Places' = Places \ {Top(t)}
  <2>1. ASSUME NEW x \in Threads \X Nat
        PROVE  x[2] \in DOMAIN stack'[x[1]] <=> x[2] \in DOMAIN stack[x[1]] /\ x # Top(t)
    <3>1. CASE x[1] = t
      BY <1>2, <1>8, <3>1 DEF Top, s, n
    <3>2. CASE x[1] # t
      BY <1>8, <3>2 DEF Top
    <3> QED BY <3>1, <3>2
  <2> QED BY <2>1 DEF Places
<1>10. ASSUME NEW x \in Places'
       PROVE  /\ Call(x)' = Call(x) /\ x \in Places
              /\ mCachedFrameNumberStack'[x[1]][x[2]] = mCachedFrameNumberStack[x[1]][x[2]]
              /\ ~IsTop(x)' => ~IsTop(x)
  <2>1. x \in Places /\ x # Top(t) /\ x[1] \in Threads /\ x = <<x[1], x[2]>>
        /\ x[2] \in 1 .. Len(stack[x[1]])
    BY <1>9, CallsAreTyped
  <2>2. CASE x[1] # t
    BY <1>7, <2>1, <2>2 DEF Call, IsTop
  <2>3. CASE x[1] = t
    <3>1. x[2] # Len(s) /\ x[2] \in 1 .. n
      BY <1>2, <2>1, <2>3 DEF Top, s, n
    <3> QED BY <1>3, <1>4, <1>7, <2>1, <2>3, <3>1 DEF Call, IsTop, s, c
  <2> QED BY <2>2, <2>3
<1>11. \A u \in Threads : Len(mCachedFrameNumberStack'[u]) = Len(stack'[u])
  BY <1>3, <1>4, <1>7 DEF StacksRight
<1>12. \A x \in Places' : /\ mCachedFrameNumberStack'[x[1]][x[2]] = Call(x)'.frame
                          /\ ~IsTop(x)' => Call(x)'.step = "wait"
  BY <1>10 DEF StacksRight
<1> QED BY <1>6, <1>9, <1>10, <1>11, <1>12 DEF StacksRight

\* A job is begun on top of another one that waits, or of none.
LEMMA Begins ==
    ASSUME StacksRight, NEW t \in Threads, stack[t] = <<>> \/ At(t, "wait"),
           NEW job \in Modules \cup Records, NEW frame \in Nat, job.frame = frame,
           stack' = [stack EXCEPT ![t] = Append(@, job)],
           mCachedFrameNumberStack' = [mCachedFrameNumberStack EXCEPT ![t] = Append(@, frame)]
    PROVE  LET new == <<t, Len(stack[t]) + 1>>
           IN  /\ StacksRight'
               /\ new \notin Places /\ Places' = Places \cup {new}
               /\ \A x \in Places : Call(x)' = Call(x)
               /\ \A x \in Places' \ Places : Call(x)' = job
<1> DEFINE s == stack[t]
           c == mCachedFrameNumberStack[t]
           n == Len(s) + 1
           new == <<t, n>>
           r == Append(s, job)
           d == Append(c, frame)
<1>1. /\ stack \in [Threads -> Seq(Modules \cup Records)] /\ s \in Seq(Modules \cup Records)
      /\ mCachedFrameNumberStack \in [Threads -> Seq(Nat)] /\ c \in Seq(Nat) /\ Len(c) = Len(s)
  BY DEF StacksRight
<1>2. Len(s) \in Nat /\ n \in Nat
  BY <1>1
<1>3. /\ r \in Seq(Modules \cup Records) /\ Len(r) = n
      /\ \A i \in 1 .. Len(s) : r[i] = s[i]
      /\ r[n] = job
  BY <1>1, <1>2
<1>4. /\ d \in Seq(Nat) /\ Len(d) = n
      /\ \A i \in 1 .. Len(s) : d[i] = c[i]
      /\ d[n] = frame
  BY <1>1, <1>2
<1>5. /\ stack' = [stack EXCEPT ![t] = r]
      /\ mCachedFrameNumberStack' = [mCachedFrameNumberStack EXCEPT ![t] = d]
  BY <1>1
<1> HIDE DEF s, c, r, d
<1>6. /\ stack' \in [Threads -> Seq(Modules \cup Records)]
      /\ mCachedFrameNumberStack' \in [Threads -> Seq(Nat)]
  BY <1>1, <1>3, <1>4, <1>5
<1>7. \A u \in Threads :
         /\ stack'[u] = IF u = t THEN r ELSE stack[u]
         /\ mCachedFrameNumberStack'[u] = IF u = t THEN d ELSE mCachedFrameNumberStack[u]
  BY <1>1, <1>5
<1>8. /\ \A u \in Threads : DOMAIN stack'[u] = IF u = t THEN 1 .. n ELSE DOMAIN stack[u]
      /\ DOMAIN stack[t] = 1 .. Len(s)
  BY <1>1, <1>3, <1>7 DEF s
<1>9. Places' = Places \cup {new} /\ new \notin Places
  <2>1. ASSUME NEW x \in Threads \X Nat
        PROVE  x[2] \in DOMAIN stack'[x[1]] <=> x[2] \in DOMAIN stack[x[1]] \/ x = new
    <3>1. CASE x[1] = t
      BY <1>2, <1>8, <3>1 DEF s
    <3>2. CASE x[1] # t
      BY <1>8, <3>2
    <3> QED BY <3>1, <3>2
  <2>2. new \in Threads \X Nat /\ n \notin DOMAIN stack[t]
    BY <1>2, <1>8
  <2> QED BY <2>1, <2>2 DEF Places
<1>10. ASSUME NEW x \in Places
       PROVE  /\ Call(x)' = Call(x)
              /\ mCachedFrameNumberStack'[x[1]][x[2]] = mCachedFrameNumberStack[x[1]][x[2]]
              /\ Call(x).step = "wait" \/ (IsTop(x) /\ IsTop(x)')
  <2>1. /\ x[1] \in Threads /\ x = <<x[1], x[2]>> /\ x[2] \in 1 .. Len(stack[x[1]])
        /\ ~IsTop(x) => Call(x).step = "wait"
    BY CallsAreTyped DEF StacksRight
  <2>2. CASE x[1] # t
    BY <1>7, <2>1, <2>2 DEF Call, IsTop
  <2>3. CASE x[1] = t
    <3> DEFINE k == x[2]
    <3>0. k \in 1 .. Len(s)
      BY <2>1, <2>3 DEF s
    <3> HIDE DEF k
    <3>1. Call(x)' = Call(x) /\ mCachedFrameNumberStack'[x[1]][x[2]] = mCachedFrameNumberStack[x[1]][x[2]]
      <4>1. stack'[t][k] = s[k] /\ mCachedFrameNumberStack'[t][k] = c[k]
        BY <1>3, <1>4, <1>7, <3>0
      <4> QED BY <2>3, <4>1 DEF Call, s, c, k
    <3>2. stack[t] # <<>>
      BY <1>2, <2>1, <2>3 DEF s
    <3>3. IsTop(x) => Call(x).step = "wait"
      BY <2>1, <2>3, <3>2 DEF At, Last, IsTop, Call
    <3> QED BY <2>1, <3>1, <3>3
  <2> QED BY <2>2, <2>3
<1>11. ASSUME NEW x \in Threads \X Nat, x = new
       PROVE  /\ Call(x)' = job /\ mCachedFrameNumberStack'[x[1]][x[2]] = frame
              /\ IsTop(x)'
  <2>1. x[1] = t /\ x[2] = n
    BY <1>11
  <2>2. stack'[t][n] = job /\ mCachedFrameNumberStack'[t][n] = frame /\ n = Len(stack'[t])
    BY <1>3, <1>4, <1>7
  <2> QED BY <2>1, <2>2 DEF Call, IsTop
<1>12. \A u \in Threads : Len(mCachedFrameNumberStack'[u]) = Len(stack'[u])
  BY <1>3, <1>4, <1>7 DEF StacksRight
<1>13. \A x \in Places' : /\ mCachedFrameNumberStack'[x[1]][x[2]] = Call(x)'.frame
                          /\ ~IsTop(x)' => Call(x)'.step = "wait"
  <2>1. ASSUME NEW x \in Places
        PROVE  /\ mCachedFrameNumberStack'[x[1]][x[2]] = Call(x)'.frame
               /\ ~IsTop(x)' => Call(x)'.step = "wait"
    BY <1>10 DEF StacksRight
  <2>2. ASSUME NEW x \in Places', x = new
        PROVE  /\ mCachedFrameNumberStack'[x[1]][x[2]] = Call(x)'.frame
               /\ ~IsTop(x)' => Call(x)'.step = "wait"
    <3>1. x \in Threads \X Nat
      BY <1>2, <2>2
    <3> QED BY <1>11, <2>2, <3>1
  <2> QED BY <1>9, <2>1, <2>2
<1>14. \A x \in Places' \ Places : Call(x)' = job
  <2>1. \A x \in Places' \ Places : x = new /\ x \in Threads \X Nat
    BY <1>2, <1>9
  <2> QED BY <1>11, <2>1
<1> QED BY <1>6, <1>9, <1>10, <1>12, <1>13, <1>14 DEF StacksRight, s

\* A record job that goes on is the same job.
LEMMA RecordGoes ==
    ASSUME StacksRight, FramesRight, JobsRight, NEW t \in Threads, stack[t] # <<>>,
           Job(t) \in Records, NEW job \in Records, Same(job, Job(t)), Goto(t, job),
           UNCHANGED <<mCachedFrameNumberStack, queued, recorded, mCurrFrameNum, processing,
                       submitted, executed>>
    PROVE  /\ StacksRight' /\ FramesRight' /\ JobsRight'
           /\ Top(t) \in Places /\ Call(Top(t)) = Job(t) /\ Places' = Places
           /\ \A x \in Places : Call(x)' = IF x = Top(t) THEN job ELSE Call(x)
           /\ \A frame : Unbegun(frame)' <=> Unbegun(frame)
<1>1. /\ stack' \in [Threads -> Seq(Modules \cup Records)]
      /\ \A u \in Threads : Len(stack'[u]) = Len(stack[u])
      /\ Places' = Places
      /\ \A x \in Places : /\ Call(x)' = IF x = Top(t) THEN job ELSE Call(x)
                           /\ IsTop(x)' <=> IsTop(x)
  BY Goes
<1>2. Top(t) \in Places /\ Call(Top(t)) = Job(t) /\ IsTop(Top(t))
  BY CallsAreTyped
<1>3. \A x \in Places : Same(Call(x)', Call(x))
  BY <1>1, <1>2 DEF Same
<1>4. job.step \notin {"module", "wait"} /\ Job(t).step \notin {"module", "wait"}
  BY DEF Records
<1>5. \A x \in Places : Call(x)'.step = "module" <=> Call(x).step = "module"
  BY <1>1, <1>2, <1>4
<1>6. \A frame : Unbegun(frame)' <=> Unbegun(frame)
  BY <1>1, <1>3, <1>5 DEF Unbegun, Same
<1>7. StacksRight'
  <2>1. ASSUME NEW x \in Places
        PROVE  /\ mCachedFrameNumberStack'[x[1]][x[2]] = Call(x)'.frame
               /\ ~IsTop(x)' => Call(x)'.step = "wait"
    BY <1>1, <1>2, <1>3 DEF StacksRight, Same
  <2> QED BY <1>1, <2>1 DEF StacksRight
<1>8. FramesRight'
  BY DEF FramesRight
<1>9. QueuedRight'
  BY <1>1, <1>3, <1>6 DEF JobsRight, QueuedRight, Same, IsLive
<1>10. CallsRight'
  BY <1>1, <1>3, <1>6 DEF JobsRight, CallsRight, Same, IsLive
<1>11. RecordedRight'
  BY <1>1, <1>3, <1>6 DEF JobsRight, RecordedRight, Same, IsLive, IsRecordJob
<1> QED BY <1>1, <1>2, <1>6, <1>7, <1>8, <1>9, <1>10, <1>11 DEF JobsRight

\* A builder that has a table has an index in it and a frame number.
LEMMA TablesAreTyped ==
    ASSUME DescriptorsRight
    PROVE  \A b \in Builders : mDescriptorTable[b] # <<>> =>
               /\ mDescriptorTable[b][1] \in Tables
               /\ mDescriptorTable[b][1].index \in Nat
               /\ mDescriptorTable[b][1].mCreationFrameNum \in Nat
<1>1. ASSUME NEW b \in Builders, mDescriptorTable[b] # <<>>
      PROVE  mDescriptorTable[b][1] \in Tables
  <2>1. PICK table \in Tables : mDescriptorTable[b] = <<table>>
    BY <1>1 DEF DescriptorsRight
  <2> QED BY <2>1
<1> QED BY <1>1 DEF Tables

\* Builders that do not wait any more make room.
LEMMA IndicesKept ==
    ASSUME FramesRight, IndicesRight, UNCHANGED mPerFrameIndexArr, Latest' = Latest,
           \A frame \in Nat : frame <= Latest => Waiting(frame)' \subseteq Waiting(frame)
    PROVE  IndicesRight'
<1>1. ASSUME NEW frame \in Nat, frame \in Latest - 1 .. Latest
      PROVE  mPerFrameIndexArr[SlotOfFrame(frame)] + Cardinality(Waiting(frame)')
               <= Cardinality(Builders)
  <2>1. Waiting(frame)' \subseteq Waiting(frame) /\ Waiting(frame) \subseteq Builders
    BY <1>1 DEF Waiting, Latest, FramesRight
  <2>2. /\ IsFiniteSet(Waiting(frame))
        /\ Cardinality(Waiting(frame)') <= Cardinality(Waiting(frame))
        /\ Cardinality(Waiting(frame)') \in Nat /\ Cardinality(Waiting(frame)) \in Nat
    BY <2>1, Slotted, FS_Subset, FS_CardinalityType
  <2>3. mPerFrameIndexArr[SlotOfFrame(frame)] \in Nat
    BY Slotted DEF IndicesRight
  <2> QED BY <1>1, <2>2, <2>3, Slotted DEF IndicesRight
<1> QED BY <1>1 DEF IndicesRight

\* The frames in flight are the last two.
LEMMA LiveFrames ==
    ASSUME FramesRight, NEW frame, IsLive(frame)
    PROVE  frame \in Nat /\ frame \in Latest - 1 .. Latest /\ frame < mCurrFrameNum
  BY DEF FramesRight, IsLive, Latest

\* What is kept of a step that neither refers to a new descriptor nor reserves one.
LEMMA QuietStep ==
    ASSUME FramesRight, DescriptorsRight, IndicesRight,
           UNCHANGED <<mPerFrameIndexArr, mHeap, mDescriptorTable>>,
           Latest' = Latest, mCurrFrameNum' \in Nat, mCurrFrameNum <= mCurrFrameNum',
           \A l \in recorded' : Reference(l.index, l.builder, l.frame) \in References,
           \A x \in Places' : Call(x)'.step \in {"copy", "close"} =>
               x \in Places /\ Call(x)' = Call(x),
           \A frame \in Nat : frame <= Latest => Waiting(frame)' \subseteq Waiting(frame)
    PROVE  DescriptorsRight' /\ IndicesRight'
<1>1. /\ \A slot : Used(slot)' = Used(slot)
      /\ \A b \in Builders : Current(b)' <=> Current(b)
  BY DEF Used, Current
<1>2. References' \subseteq References
  <2>1. ASSUME NEW x \in Places', Call(x)'.step = "close"
        PROVE  Reference(Call(x)'.index, Call(x)'.builder, Call(x)'.frame) \in References
    <3>1. x \in {y \in Places : Call(y).step = "close"} /\ Call(x)' = Call(x)
      BY <2>1
    <3> QED BY <3>1 DEF References
  <2>2. ASSUME NEW b \in Builders, Current(b)'
        PROVE  Reference(mDescriptorTable[b][1].index, b,
                         mDescriptorTable[b][1].mCreationFrameNum) \in References
    BY <1>1, <2>2 DEF References
  <2>3. ASSUME NEW r \in References' PROVE r \in References
    <3>1. CASE \E l \in recorded' : r = Reference(l.index, l.builder, l.frame)
      BY <3>1
    <3>2. CASE \E x \in Places' : /\ Call(x)'.step = "close"
                                  /\ r = Reference(Call(x)'.index, Call(x)'.builder, Call(x)'.frame)
      BY <2>1, <3>2
    <3>3. CASE \E b \in Builders : /\ Current(b)'
                                   /\ r = Reference(mDescriptorTable[b][1].index, b,
                                                    mDescriptorTable[b][1].mCreationFrameNum)
      BY <2>2, <3>3
    <3> QED BY <2>3, <3>1, <3>2, <3>3 DEF References, Reference
  <2> QED BY <2>3
<1>3. \A x \in Copying' : x \in Copying /\ Call(x)' = Call(x)
  BY DEF Copying
<1>4. ASSUME NEW r \in References'
      PROVE  /\ r \in [index : Nat, builder : Builders, frame : Nat]
             /\ mHeap'[r.index] = r.builder
             /\ \E f \in {r.frame, r.frame + 1} :
                   f < mCurrFrameNum' /\ r.index \in Used(SlotOfFrame(f))'
  <2>1. /\ r \in [index : Nat, builder : Builders, frame : Nat]
        /\ mHeap[r.index] = r.builder
        /\ \E f \in {r.frame, r.frame + 1} : f < mCurrFrameNum /\ r.index \in Used(SlotOfFrame(f))
    BY <1>2, <1>4 DEF DescriptorsRight
  <2>2. PICK f \in {r.frame, r.frame + 1} : f < mCurrFrameNum /\ r.index \in Used(SlotOfFrame(f))
    BY <2>1
  <2>3. f \in Nat /\ f < mCurrFrameNum'
    BY <2>1, <2>2 DEF FramesRight
  <2> QED BY <1>1, <2>1, <2>2, <2>3
<1>5. DescriptorsRight'
  <2>1. \A b \in Builders : mDescriptorTable'[b] # <<>> =>
            mDescriptorTable'[b][1].mCreationFrameNum < mCurrFrameNum'
    BY TablesAreTyped DEF DescriptorsRight, FramesRight
  <2> QED BY <1>1, <1>2, <1>3, <1>4, <2>1 DEF DescriptorsRight
<1>6. IndicesRight'
  BY IndicesKept
<1> QED BY <1>5, <1>6

\* A job is taken out of those queued, and is the same job where it is executed.
LEMMA ExecuteStep ==
    ASSUME FramesInv, NEW t \in Threads, Execute(t)
    PROVE  FramesInv'
<1> USE DEF FramesInv, JobsRight
<1>1. PICK job \in queued :
          /\ queued' = queued \ {job}
          /\ stack' = [stack EXCEPT ![t] = Append(@,
                [kind |-> job.kind, builder |-> job.builder, frame |-> job.frame,
                 step |-> IF job.kind = "module" THEN "module" ELSE "reset",
                 index |-> 0, allocator |-> [thread |-> t, slot |-> 0]])]
          /\ mCachedFrameNumberStack' =
                [mCachedFrameNumberStack EXCEPT ![t] = Append(@, job.mCachedFrameNumber)]
  BY DEF Execute
<1> DEFINE call == [kind |-> job.kind, builder |-> job.builder, frame |-> job.frame,
                    step |-> IF job.kind = "module" THEN "module" ELSE "reset",
                    index |-> 0, allocator |-> [thread |-> t, slot |-> 0]]
<1>2. job \in Jobs /\ queued \subseteq Jobs
  BY DEF QueuedRight
<1>3. /\ call \in Modules \cup Records /\ Same(job, call) /\ call.step \notin {"copy", "close"}
      /\ call.step \notin {"table", "reserve"} /\ call.frame \in Nat /\ call.frame = job.frame
      /\ call.step = "module" <=> job.kind = "module"
      /\ call.kind = job.kind /\ call.builder = job.builder
  BY <1>2, Slotted DEF Jobs, Modules, Records, Allocators, Same
<1>4. job.mCachedFrameNumber = job.frame
  BY DEF QueuedRight
<1> HIDE DEF call
<1>5. /\ StacksRight'
      /\ \A x \in Places : x \in Places' /\ Call(x)' = Call(x)
      /\ \A x \in Places' : x \in Places \/ Call(x)' = call
      /\ \A x, y \in Places' : x \notin Places /\ y \notin Places => x = y
      /\ \E x \in Places' : x \notin Places
  <2>1. stack[t] = <<>> \/ At(t, "wait")
    BY DEF Execute
  <2>2. stack' = [stack EXCEPT ![t] = Append(@, call)]
    BY <1>1 DEF call
  <2>3. mCachedFrameNumberStack' = [mCachedFrameNumberStack EXCEPT ![t] = Append(@, call.frame)]
    BY <1>1, <1>3, <1>4
  <2> DEFINE new == <<t, Len(stack[t]) + 1>>
  <2>4. /\ StacksRight'
        /\ new \notin Places /\ Places' = Places \cup {new}
        /\ \A x \in Places : Call(x)' = Call(x)
        /\ \A x \in Places' \ Places : Call(x)' = call
    BY <1>3, <2>1, <2>2, <2>3, Begins
  <2> QED BY <2>4
<1>6. UNCHANGED <<mCurrFrameNum, processing, submitted, executed, mPerFrameIndexArr, mHeap,
                  mDescriptorTable, recorded>>
  BY DEF Execute, mainVars, heapVars
<1>7. FramesRight'
  BY <1>6 DEF FramesRight
<1>8. \A j \in queued' : ~Same(j, job)
  BY <1>1, <1>2 DEF Same, Jobs, QueuedRight
<1>9. \A frame : Unbegun(frame)' <=> Unbegun(frame)
  <2>1. \A frame : Unbegun(frame)' => Unbegun(frame)
    BY <1>1, <1>3, <1>5 DEF Unbegun
  <2>2. \A frame : Unbegun(frame) => Unbegun(frame)'
    BY <1>1, <1>3, <1>5 DEF Unbegun
  <2> QED BY <2>1, <2>2
<1>10. /\ IsLive(job.frame) /\ job.frame \notin submitted
       /\ \A x \in Places : ~Same(job, Call(x))
       /\ job.kind = "record" => ~Unbegun(job.frame)
  BY DEF QueuedRight
<1>11. QueuedRight'
  <2>1. ASSUME NEW j \in queued', NEW x \in Places' PROVE ~Same(j, Call(x)')
    <3>1. CASE x \in Places
      BY <1>1, <1>5, <3>1 DEF QueuedRight
    <3>2. CASE x \notin Places
      BY <1>3, <1>5, <1>8, <3>2 DEF Same
    <3> QED BY <3>1, <3>2
  <2>2. queued' \subseteq queued
    BY <1>1
  <2>3. \A j \in queued' : /\ j.mCachedFrameNumber = j.frame
                           /\ IsLive(j.frame)' /\ j.frame \notin submitted'
                           /\ j.kind = "record" => ~Unbegun(j.frame)'
    BY <1>6, <1>9, <2>2 DEF QueuedRight, IsLive
  <2> QED BY <1>2, <2>1, <2>2, <2>3 DEF QueuedRight
<1>12. CallsRight'
  <2>1. ASSUME NEW x \in Places'
        PROVE  /\ IsLive(Call(x).frame)' /\ Call(x)'.frame \notin submitted'
               /\ Call(x)'.kind = "record" => ~Unbegun(Call(x).frame)'
    <3>1. CASE x \in Places
      BY <1>5, <1>6, <1>9, <3>1 DEF CallsRight, IsLive
    <3>2. CASE x \notin Places
      BY <1>3, <1>5, <1>6, <1>9, <1>10, <3>2 DEF IsLive
    <3> QED BY <3>1, <3>2
  <2>2. ASSUME NEW x \in Places', NEW y \in Places', Same(Call(x)', Call(y)')
        PROVE  x = y
    <3>1. CASE x \in Places /\ y \in Places
      BY <1>5, <2>2, <3>1 DEF CallsRight
    <3>2. CASE x \notin Places /\ y \in Places
      BY <1>3, <1>5, <1>10, <2>2, <3>2 DEF Same
    <3>3. CASE x \in Places /\ y \notin Places
      BY <1>3, <1>5, <1>10, <2>2, <3>3 DEF Same
    <3> QED BY <1>5, <3>1, <3>2, <3>3
  <2> QED BY <2>1, <2>2 DEF CallsRight
<1>13. RecordedRight'
  <2>1. \A l \in recorded : ~IsRecordJob(job, l.builder, l.frame)
    BY DEF RecordedRight
  <2>2. ASSUME NEW l \in recorded, NEW x \in Places'
        PROVE  ~IsRecordJob(Call(x)', l.builder, l.frame)
    BY <1>3, <1>5, <2>1 DEF RecordedRight, IsRecordJob
  <2> QED BY <1>1, <1>6, <1>9, <2>2 DEF RecordedRight, IsLive
<1>14. AllocatorsRight'
  <2>1. ASSUME NEW x \in Places', Call(x)'.step \in {"table", "reserve", "copy", "close"}
        PROVE  x \in Places /\ Call(x)' = Call(x)
    BY <1>3, <1>5, <2>1
  <2> QED BY <1>6, <2>1 DEF AllocatorsRight
<1>15. \A frame \in Nat : Waiting(frame)' \subseteq Waiting(frame)
  <2>1. ASSUME NEW frame \in Nat, NEW b \in Builders, NEW x \in Places',
               Call(x)'.step \in {"reset", "table", "reserve"}, IsRecordJob(Call(x)', b, frame)
        PROVE  b \in Waiting(frame)
    <3>1. CASE x \in Places
      BY <1>5, <2>1, <3>1 DEF Waiting
    <3>2. CASE x \notin Places
      BY <1>3, <1>5, <2>1, <3>2 DEF Waiting, IsRecordJob
    <3> QED BY <3>1, <3>2
  <2>2. ASSUME NEW frame \in Nat, NEW b \in Builders, NEW j \in queued', IsRecordJob(j, b, frame)
        PROVE  b \in Waiting(frame)
    BY <1>1, <2>2 DEF Waiting
  <2> QED BY <1>6, <1>9, <2>1, <2>2 DEF Waiting
<1>16. DescriptorsRight' /\ IndicesRight'
  <2>1. \A l \in recorded' : Reference(l.index, l.builder, l.frame) \in References
    BY <1>6 DEF References
  <2>2. \A x \in Places' : Call(x)'.step \in {"copy", "close"} => x \in Places /\ Call(x)' = Call(x)
    BY <1>3, <1>5
  <2>3. Latest' = Latest /\ mCurrFrameNum' \in Nat /\ mCurrFrameNum <= mCurrFrameNum'
    BY <1>6 DEF Latest, FramesRight
  <2> QED BY <1>6, <1>15, <2>1, <2>2, <2>3, QuietStep
<1> QED BY <1>5, <1>7, <1>11, <1>12, <1>13, <1>14, <1>16

\* Every record job is queued once the module's job waits for it.
LEMMA CreationOfJobs ==
    ASSUME FramesInv, NEW t \in Threads, CreateRecordJobs(t)
    PROVE  FramesInv'
<1> USE DEF FramesInv, JobsRight
<1> DEFINE call == Job(t)
           frame == call.frame
           waits == [call EXCEPT !.step = "wait"]
           Created(b) == [kind |-> "record", builder |-> b, frame |-> frame,
                          mCachedFrameNumber |-> frame]
<1>1. /\ stack[t] # <<>> /\ call.step = "module" /\ Goto(t, waits)
      /\ Top(t) \in Places /\ Call(Top(t)) = call /\ IsTop(Top(t))
      /\ GetCurrentFrameNumber(t) = frame
  BY CallsAreTyped DEF CreateRecordJobs, At, Job, To
<1>2. call \in Modules \cup Records
  BY <1>1, CallsAreTyped
<1>3. call \in Modules /\ waits \in Modules /\ Same(waits, call) /\ frame \in Nat
      /\ call.kind = "module" /\ waits.step = "wait" /\ waits.frame = frame
  BY <1>1, <1>2, KindsOfCalls DEF Modules, Same
<1>4. queued' = queued \cup {Created(b) : b \in Builders}
  <2> DEFINE New(b) == [kind |-> "record", builder |-> b, frame |-> mCurrFrameNum,
                        mCachedFrameNumber |-> frame]
  <2>1. NewJob(t, "record", Builders) = {New(b) : b \in Builders}
    BY <1>1 DEF NewJob
  <2>2. queued' = queued \cup {[j EXCEPT !.frame = frame] : j \in NewJob(t, "record", Builders)}
    BY DEF CreateRecordJobs
  <2>3. \A b \in Builders : [New(b) EXCEPT !.frame = frame] = Created(b)
    OBVIOUS
  <2> HIDE DEF New, Created
  <2>4. {[j EXCEPT !.frame = frame] : j \in {New(b) : b \in Builders}}
          = {Created(b) : b \in Builders}
    BY <2>3
  <2> QED BY <2>1, <2>2, <2>4
<1>5. UNCHANGED <<mCurrFrameNum, processing, submitted, executed, mPerFrameIndexArr, mHeap,
                  mDescriptorTable, recorded, mCachedFrameNumberStack>>
  BY DEF CreateRecordJobs, mainVars, heapVars
<1> HIDE DEF call, waits
<1>6. /\ stack' \in [Threads -> Seq(Modules \cup Records)]
      /\ \A u \in Threads : Len(stack'[u]) = Len(stack[u])
      /\ Places' = Places
      /\ \A x \in Places : /\ Call(x)' = IF x = Top(t) THEN waits ELSE Call(x)
                           /\ IsTop(x)' <=> IsTop(x)
  BY <1>1, <1>3, Goes
<1>7. \A x \in Places : Same(Call(x)', Call(x)) /\ Call(x)'.frame = Call(x).frame
  BY <1>1, <1>3, <1>6 DEF Same
<1>8. StacksRight'
  <2>1. ASSUME NEW x \in Places
        PROVE  /\ mCachedFrameNumberStack'[x[1]][x[2]] = Call(x)'.frame
               /\ ~IsTop(x)' => Call(x)'.step = "wait"
    BY <1>1, <1>5, <1>6, <1>7 DEF StacksRight
  <2> QED BY <1>5, <1>6, <2>1 DEF StacksRight
<1>9. FramesRight'
  BY <1>5 DEF FramesRight
<1>10. /\ IsLive(frame) /\ frame \notin submitted
       /\ \A x \in Places : Call(x).frame = frame /\ Call(x).kind = "record" => FALSE
       /\ \A j \in queued : j.frame = frame => j.kind # "record"
       /\ \A l \in recorded : l.frame # frame
  <2>1. Unbegun(frame)
    BY <1>1 DEF Unbegun
  <2> QED BY <1>1, <2>1 DEF CallsRight, QueuedRight, RecordedRight
<1>11. \A b \in Builders : /\ Created(b).kind = "record" /\ Created(b).builder = b
                           /\ Created(b).frame = frame /\ Created(b).mCachedFrameNumber = frame
                           /\ Created(b) \in Jobs
  BY <1>3 DEF Jobs
<1>12. \A f : Unbegun(f)' <=> Unbegun(f) /\ f # frame
  <2>1. ASSUME NEW f, Unbegun(f)' PROVE Unbegun(f) /\ f # frame
    <3>1. CASE \E j \in queued' : j.kind = "module" /\ j.frame = f
      <4>1. PICK j \in queued' : j.kind = "module" /\ j.frame = f
        BY <3>1
      <4>2. j \in queued
        BY <1>4, <1>11, <4>1
      <4>3. j \in Jobs /\ j.builder = NoDescriptor
        BY <4>1, <4>2 DEF QueuedRight, Jobs
      <4>4. call.builder = NoDescriptor
        BY <1>3 DEF Modules
      <4>5. f # frame
        BY <1>1, <1>3, <4>1, <4>2, <4>3, <4>4 DEF QueuedRight, Same
      <4> QED BY <4>1, <4>2, <4>5 DEF Unbegun
    <3>2. CASE \E x \in Places' : Call(x)'.step = "module" /\ Call(x)'.frame = f
      <4>1. PICK x \in Places : Call(x)'.step = "module" /\ Call(x)'.frame = f
        BY <1>6, <3>2
      <4>2. x # Top(t) /\ Call(x)' = Call(x)
        BY <1>3, <1>6, <4>1
      <4>3. Call(x) \in Modules \cup Records
        BY CallsAreTyped
      <4>4. Call(x).kind = "module" /\ Call(x).builder = NoDescriptor
        BY <4>1, <4>2, <4>3, KindsOfCalls
      <4>5. call.builder = NoDescriptor
        BY <1>3 DEF Modules
      <4>6. f # frame
        BY <1>1, <1>3, <4>1, <4>2, <4>4, <4>5 DEF CallsRight, Same
      <4> QED BY <4>1, <4>2, <4>6 DEF Unbegun
    <3> QED BY <2>1, <3>1, <3>2 DEF Unbegun
  <2>2. ASSUME NEW f, Unbegun(f), f # frame PROVE Unbegun(f)'
    <3>1. CASE \E j \in queued : j.kind = "module" /\ j.frame = f
      BY <1>4, <3>1 DEF Unbegun
    <3>2. CASE \E x \in Places : Call(x).step = "module" /\ Call(x).frame = f
      BY <1>1, <1>6, <2>2, <3>2 DEF Unbegun
    <3> QED BY <2>2, <3>1, <3>2 DEF Unbegun
  <2> QED BY <2>1, <2>2
<1>13. QueuedRight'
  <2>1. ASSUME NEW j \in queued
        PROVE  /\ j \in Jobs /\ j.mCachedFrameNumber = j.frame
               /\ IsLive(j.frame)' /\ j.frame \notin submitted'
               /\ \A x \in Places' : ~Same(j, Call(x)')
               /\ j.kind = "record" => ~Unbegun(j.frame)'
    BY <1>5, <1>6, <1>7, <1>12 DEF QueuedRight, IsLive, Same
  <2>2. ASSUME NEW b \in Builders, NEW j, j = Created(b)
        PROVE  /\ j \in Jobs /\ j.mCachedFrameNumber = j.frame
               /\ IsLive(j.frame)' /\ j.frame \notin submitted'
               /\ \A x \in Places' : ~Same(j, Call(x)')
               /\ j.kind = "record" => ~Unbegun(j.frame)'
    <3>1. j.kind = "record" /\ j.frame = frame /\ j.mCachedFrameNumber = frame /\ j \in Jobs
      BY <1>11, <2>2
    <3>2. IsLive(j.frame)' /\ j.frame \notin submitted' /\ ~Unbegun(j.frame)'
      BY <1>5, <1>10, <1>12, <3>1 DEF IsLive
    <3>3. \A x \in Places' : ~Same(j, Call(x)')
      BY <1>6, <1>7, <1>10, <3>1 DEF Same
    <3> QED BY <3>1, <3>2, <3>3
  <2>3. \A j \in queued' : j \in queued \/ \E b \in Builders : j = Created(b)
    BY <1>4
  <2> HIDE DEF Created
  <2> QED BY <2>1, <2>2, <2>3 DEF QueuedRight
<1>14. CallsRight'
  BY <1>5, <1>6, <1>7, <1>12 DEF CallsRight, IsLive, Same
<1>15. RecordedRight'
  <2>1. ASSUME NEW l \in recorded, NEW j \in queued' PROVE ~IsRecordJob(j, l.builder, l.frame)
    BY <1>4, <1>10, <1>11 DEF RecordedRight, IsRecordJob
  <2>2. ASSUME NEW l \in recorded, NEW x \in Places'
        PROVE  ~IsRecordJob(Call(x)', l.builder, l.frame)
    BY <1>6, <1>7 DEF RecordedRight, IsRecordJob, Same
  <2> QED BY <1>5, <1>12, <2>1, <2>2 DEF RecordedRight, IsLive
<1>16. AllocatorsRight'
  <2>1. ASSUME NEW x \in Places', Call(x)'.step \in {"table", "reserve", "copy", "close"}
        PROVE  x \in Places /\ Call(x)' = Call(x)
    BY <1>3, <1>6, <2>1
  <2> QED BY <1>5, <2>1 DEF AllocatorsRight
<1>17. \A f \in Nat : Waiting(f)' \subseteq Waiting(f)
  <2>1. ASSUME NEW f \in Nat, NEW b \in Builders, NEW x \in Places',
               Call(x)'.step \in {"reset", "table", "reserve"}, IsRecordJob(Call(x)', b, f)
        PROVE  b \in Waiting(f)
    BY <1>3, <1>6, <2>1 DEF Waiting
  <2>2. ASSUME NEW f \in Nat, NEW b \in Builders, NEW j \in queued', IsRecordJob(j, b, f)
        PROVE  b \in Waiting(f)
    <3>1. CASE f = frame
      BY <1>1, <3>1 DEF Waiting, Unbegun
    <3>2. CASE f # frame
      BY <1>4, <1>11, <2>2, <3>2 DEF Waiting, IsRecordJob
    <3> QED BY <3>1, <3>2
  <2> QED BY <1>5, <1>12, <2>1, <2>2 DEF Waiting
<1>18. DescriptorsRight' /\ IndicesRight'
  <2>1. \A l \in recorded' : Reference(l.index, l.builder, l.frame) \in References
    BY <1>5 DEF References
  <2>2. \A x \in Places' : Call(x)'.step \in {"copy", "close"} => x \in Places /\ Call(x)' = Call(x)
    BY <1>3, <1>6
  <2>3. Latest' = Latest /\ mCurrFrameNum' \in Nat /\ mCurrFrameNum <= mCurrFrameNum'
    BY <1>5 DEF Latest, FramesRight
  <2> QED BY <1>5, <1>17, <2>1, <2>2, <2>3, QuietStep
<1> QED BY <1>8, <1>9, <1>13, <1>14, <1>15, <1>16, <1>18

\* When each builder has its command list, no job of the frame is left.
LEMMA ModuleStep ==
    ASSUME FramesInv, NEW t \in Threads, ModuleEnds(t)
    PROVE  FramesInv'
<1> USE DEF FramesInv, JobsRight
<1> DEFINE frame == Job(t).frame
<1>1. /\ stack[t] # <<>> /\ Job(t).step = "wait" /\ Return(t)
      /\ Top(t) \in Places /\ Call(Top(t)) = Job(t)
      /\ Job(t) \in Modules \cup Records
  BY CallsAreTyped DEF ModuleEnds, At, Job
<1>2. /\ Job(t).kind = "module" /\ Job(t).builder = NoDescriptor /\ frame \in Nat
      /\ \A b \in Builders : \E l \in recorded : l.builder = b /\ l.frame = frame
      /\ submitted' = submitted \cup {frame}
  BY <1>1, KindsOfCalls DEF ModuleEnds
<1>3. UNCHANGED <<mCurrFrameNum, processing, executed, queued, mPerFrameIndexArr, mHeap,
                  mDescriptorTable, recorded>>
  BY DEF ModuleEnds, heapVars
<1>4. /\ StacksRight' /\ Places' = Places \ {Top(t)}
      /\ \A x \in Places' : Call(x)' = Call(x)
  BY <1>1, Returns
<1> HIDE DEF frame
<1>5. /\ \A j \in queued : j.frame # frame
      /\ \A x \in Places' : Call(x).frame # frame
  <2>1. ASSUME NEW j \in queued, j.frame = frame PROVE FALSE
    <3>1. j \in Jobs
      BY DEF QueuedRight
    <3>2. CASE j.kind = "module"
      <4>1. Same(j, Call(Top(t)))
        BY <1>1, <1>2, <2>1, <3>1, <3>2 DEF Same, Jobs, frame
      <4> QED BY <1>1, <4>1 DEF QueuedRight
    <3>3. CASE j.kind = "record"
      <4>1. j.builder \in Builders
        BY <3>1, <3>3 DEF Jobs
      <4> QED BY <1>2, <2>1, <3>3, <4>1 DEF RecordedRight, IsRecordJob
    <3> QED BY <3>1, <3>2, <3>3 DEF Jobs
  <2>2. ASSUME NEW x \in Places', Call(x).frame = frame PROVE FALSE
    <3>1. x \in Places /\ x # Top(t) /\ Call(x) \in Modules \cup Records
      BY <1>4, CallsAreTyped
    <3>2. CASE Call(x).kind = "module"
      <4>1. Same(Call(x), Call(Top(t)))
        BY <1>1, <1>2, <2>2, <3>1, <3>2, KindsOfCalls DEF Same, frame
      <4> QED BY <1>1, <3>1, <4>1 DEF CallsRight
    <3>3. CASE Call(x).kind = "record"
      <4>1. Call(x).builder \in Builders
        BY <3>1, <3>3, KindsOfCalls
      <4> QED BY <1>2, <2>2, <3>1, <3>3, <4>1 DEF RecordedRight, IsRecordJob
    <3> QED BY <3>1, <3>2, <3>3, KindsOfCalls
  <2> QED BY <2>1, <2>2
<1>6. FramesRight'
  <2>1. IsLive(frame)
    BY <1>1 DEF CallsRight, frame
  <2>2. frame \in 0 .. mCurrFrameNum - 1
    BY <1>2, <2>1 DEF IsLive, FramesRight
  <2> QED BY <1>2, <1>3, <2>2 DEF FramesRight
<1>7. \A f : Unbegun(f)' => Unbegun(f)
  BY <1>3, <1>4 DEF Unbegun
<1>8. QueuedRight'
  BY <1>2, <1>3, <1>4, <1>5, <1>7 DEF QueuedRight, IsLive
<1>9. CallsRight'
  BY <1>2, <1>3, <1>4, <1>5, <1>7 DEF CallsRight, IsLive
<1>10. RecordedRight'
  BY <1>3, <1>4, <1>7 DEF RecordedRight, IsLive
<1>11. AllocatorsRight'
  BY <1>3, <1>4 DEF AllocatorsRight
<1>12. \A f \in Nat : Waiting(f)' \subseteq Waiting(f)
  BY <1>3, <1>4, <1>7 DEF Waiting
<1>13. DescriptorsRight' /\ IndicesRight'
  <2>1. \A l \in recorded' : Reference(l.index, l.builder, l.frame) \in References
    BY <1>3 DEF References
  <2>2. \A x \in Places' : Call(x)'.step \in {"copy", "close"} => x \in Places /\ Call(x)' = Call(x)
    BY <1>4
  <2>3. Latest' = Latest /\ mCurrFrameNum' \in Nat /\ mCurrFrameNum <= mCurrFrameNum'
    BY <1>3 DEF Latest, FramesRight
  <2> QED BY <1>3, <1>12, <2>1, <2>2, <2>3, QuietStep
<1> QED BY <1>4, <1>6, <1>8, <1>9, <1>10, <1>11, <1>13

\* A command list that was referred to by its job is referred to by itself.
LEMMA CloseStep ==
    ASSUME FramesInv, NEW t \in Threads, CloseCommandList(t)
    PROVE  FramesInv'
<1> USE DEF FramesInv, JobsRight
<1>0. PICK call : call = Job(t)
  OBVIOUS
<1>a. PICK list : list = [frame |-> call.frame, builder |-> call.builder, index |-> call.index,
                          allocator |-> call.allocator, intact |-> TRUE]
  OBVIOUS
<1>1. /\ stack[t] # <<>> /\ call.step = "close" /\ Return(t)
      /\ Top(t) \in Places /\ Call(Top(t)) = call
      /\ call \in Modules \cup Records
  BY <1>0, CallsAreTyped DEF CloseCommandList, At, Job
<1>2. recorded' = recorded \cup {list}
  BY <1>0, <1>a DEF CloseCommandList
<1>3. UNCHANGED <<mCurrFrameNum, processing, submitted, executed, queued, mPerFrameIndexArr,
                  mHeap, mDescriptorTable>>
  BY DEF CloseCommandList, heapVars, mainVars
<1>4. /\ StacksRight' /\ Places' = Places \ {Top(t)}
      /\ \A x \in Places' : Call(x)' = Call(x)
  BY <1>1, Returns
<1>5. /\ call \in Records /\ call.kind = "record" /\ call.builder \in Builders
      /\ list \in Lists /\ list.frame = call.frame /\ list.builder = call.builder
      /\ list.index = call.index /\ list.allocator = call.allocator
  BY <1>a, <1>1, KindsOfCalls DEF Records, Lists
<1>6. FramesRight'
  BY <1>3 DEF FramesRight
<1>7. \A f : Unbegun(f)' => Unbegun(f)
  BY <1>3, <1>4 DEF Unbegun
<1>8. QueuedRight'
  BY <1>3, <1>4, <1>7 DEF QueuedRight, IsLive
<1>9. CallsRight'
  BY <1>3, <1>4, <1>7 DEF CallsRight, IsLive
<1>10. RecordedRight'
  <2>1. /\ IsLive(list.frame)' /\ ~Unbegun(list.frame)'
        /\ \A j \in queued : ~IsRecordJob(j, list.builder, list.frame)
        /\ \A x \in Places' : ~IsRecordJob(Call(x)', list.builder, list.frame)
    <3>1. IsLive(list.frame)' /\ ~Unbegun(list.frame)'
      BY <1>1, <1>3, <1>5, <1>7 DEF CallsRight, IsLive
    <3>2. \A j \in queued : ~IsRecordJob(j, list.builder, list.frame)
      BY <1>1, <1>5 DEF QueuedRight, IsRecordJob, Same
    <3>3. \A x \in Places' : ~IsRecordJob(Call(x)', list.builder, list.frame)
      BY <1>1, <1>4, <1>5 DEF CallsRight, IsRecordJob, Same
    <3> QED BY <3>1, <3>2, <3>3
  <2>2. ASSUME NEW l \in recorded
        PROVE  /\ IsLive(l.frame)' /\ ~Unbegun(l.frame)'
               /\ \A j \in queued' : ~IsRecordJob(j, l.builder, l.frame)
               /\ \A x \in Places' : ~IsRecordJob(Call(x)', l.builder, l.frame)
    BY <1>3, <1>4, <1>7 DEF RecordedRight, IsLive
  <2> QED BY <1>2, <1>3, <1>5, <2>1, <2>2 DEF RecordedRight
<1>11. AllocatorsRight'
  <2>1. list.allocator.slot = SlotOfFrame(list.frame)
    <3>1. Call(Top(t)).allocator
            = [thread |-> Top(t)[1], slot |-> SlotOfFrame(Call(Top(t)).frame)]
      BY <1>1 DEF AllocatorsRight
    <3>2. Call(Top(t)).allocator.slot = SlotOfFrame(Call(Top(t)).frame)
      BY <3>1
    <3> QED BY <1>1, <1>5, <3>2
  <2> QED BY <1>2, <1>4, <2>1 DEF AllocatorsRight
<1>12. \A f \in Nat : Waiting(f)' \subseteq Waiting(f)
  BY <1>3, <1>4, <1>7 DEF Waiting
<1>13. DescriptorsRight' /\ IndicesRight'
  <2>1. ASSUME NEW l \in recorded'
        PROVE  Reference(l.index, l.builder, l.frame) \in References
    <3>1. CASE l = list
      <4>1. Reference(list.index, list.builder, list.frame)
              = Reference(Call(Top(t)).index, Call(Top(t)).builder, Call(Top(t)).frame)
        BY <1>1, <1>5
      <4>2. Top(t) \in {y \in Places : Call(y).step = "close"}
        BY <1>1
      <4> QED BY <3>1, <4>1, <4>2 DEF References
    <3>2. CASE l \in recorded
      BY <3>2 DEF References
    <3> QED BY <1>2, <2>1, <3>1, <3>2
  <2>2. \A x \in Places' : Call(x)'.step \in {"copy", "close"} => x \in Places /\ Call(x)' = Call(x)
    BY <1>4
  <2>3. Latest' = Latest /\ mCurrFrameNum' \in Nat /\ mCurrFrameNum <= mCurrFrameNum'
    BY <1>3 DEF Latest, FramesRight
  <2> QED BY <1>3, <1>12, <2>1, <2>2, <2>3, QuietStep
<1> QED BY <1>4, <1>6, <1>8, <1>9, <1>10, <1>11, <1>13

\* No job is of the frame that is submitted.
LEMMA SubmissionStep ==
    ASSUME FramesInv, SubmitFrameGraph
    PROVE  FramesInv'
<1> USE DEF FramesInv, JobsRight
<1>a. PICK frame \in Nat : frame = mCurrFrameNum
  BY DEF FramesRight
<1>0. PICK job : job = [kind |-> "module", builder |-> NoDescriptor, frame |-> frame,
                        mCachedFrameNumber |-> frame]
  OBVIOUS
<1>1. Main \in Threads /\ stack[Main] = <<>> /\ processing
  BY DEF SubmitFrameGraph, Threads
<1>2. GetCurrentFrameNumber(Main) = mCurrFrameNum
  <2>1. mCachedFrameNumberStack[Main] \in Seq(Nat) /\ Len(mCachedFrameNumberStack[Main]) = 0
    BY <1>1 DEF StacksRight
  <2>2. mCachedFrameNumberStack[Main] = <<>>
    BY <2>1
  <2> QED BY <2>2 DEF GetCurrentFrameNumber, GetTrueFrameNumber
<1>3. /\ queued' = queued \cup {job}
      /\ mCurrFrameNum' = mCurrFrameNum + 1 /\ processing' = FALSE
  BY <1>a, <1>0, <1>2 DEF SubmitFrameGraph, NewJob
<1>4. UNCHANGED <<mCachedFrameNumberStack, stack, submitted, executed, mPerFrameIndexArr, mHeap,
                  mDescriptorTable, recorded>>
  BY DEF SubmitFrameGraph, heapVars
<1>5. /\ job \in Jobs /\ job.kind = "module" /\ job.frame = frame
      /\ job.mCachedFrameNumber = frame
  BY <1>a, <1>0 DEF Jobs
<1>6. Places' = Places /\ \A x \in Places : Call(x)' = Call(x) /\ (IsTop(x)' <=> IsTop(x))
  BY <1>4 DEF Places, Call, IsTop
<1>7. StacksRight'
  BY <1>4, <1>6 DEF StacksRight
<1>8. FramesRight'
  <2>1. /\ mCurrFrameNum \in Nat /\ executed \in Nat /\ submitted \subseteq 0 .. mCurrFrameNum - 1
        /\ executed <= mCurrFrameNum /\ mCurrFrameNum <= executed + 1
    BY <1>1 DEF FramesRight
  <2>2. mCurrFrameNum' \in Nat /\ submitted' \subseteq 0 .. mCurrFrameNum' - 1
    BY <1>3, <1>4, <2>1
  <2>3. executed' \in Nat /\ executed' <= mCurrFrameNum' /\ mCurrFrameNum' <= executed' + 2
    BY <1>3, <1>4, <2>1
  <2> QED BY <1>3, <2>2, <2>3 DEF FramesRight
<1>9. /\ \A f : IsLive(f) => IsLive(f)' /\ f # frame
      /\ IsLive(frame)' /\ frame \notin submitted
  BY <1>a, <1>0, <1>3, <1>4 DEF IsLive, FramesRight
<1>10. \A f : Unbegun(f)' => Unbegun(f) \/ f = frame
  BY <1>3, <1>5, <1>6 DEF Unbegun
<1>11. QueuedRight'
  <2>1. ASSUME NEW j \in queued
        PROVE  /\ j.mCachedFrameNumber = j.frame
               /\ IsLive(j.frame)' /\ j.frame \notin submitted'
               /\ \A x \in Places' : ~Same(j, Call(x)')
               /\ j.kind = "record" => ~Unbegun(j.frame)'
    BY <1>4, <1>6, <1>9, <1>10 DEF QueuedRight
  <2>2. \A x \in Places' : ~Same(job, Call(x)')
    BY <1>5, <1>6, <1>9 DEF Same, CallsRight
  <2> QED BY <1>3, <1>4, <1>5, <1>9, <2>1, <2>2 DEF QueuedRight
<1>12. CallsRight'
  BY <1>4, <1>6, <1>9, <1>10 DEF CallsRight
<1>13. RecordedRight'
  BY <1>3, <1>4, <1>5, <1>6, <1>9, <1>10 DEF RecordedRight, IsRecordJob
<1>14. AllocatorsRight'
  BY <1>4, <1>6 DEF AllocatorsRight
<1>15. Latest' = Latest /\ mCurrFrameNum' \in Nat /\ mCurrFrameNum <= mCurrFrameNum'
       /\ Latest = mCurrFrameNum
  BY <1>1, <1>3 DEF Latest, FramesRight
<1>16. \A f \in Nat : f <= Latest => Waiting(f)' \subseteq Waiting(f)
  BY <1>a, <1>0, <1>3, <1>5, <1>6, <1>10, <1>15 DEF Waiting, IsRecordJob
<1>17. DescriptorsRight' /\ IndicesRight'
  <2>1. \A l \in recorded' : Reference(l.index, l.builder, l.frame) \in References
    BY <1>4 DEF References
  <2>2. \A x \in Places' : Call(x)'.step \in {"copy", "close"} => x \in Places /\ Call(x)' = Call(x)
    BY <1>6
  <2> QED BY <1>4, <1>15, <1>16, <2>1, <2>2, QuietStep
<1> QED BY <1>7, <1>8, <1>11, <1>12, <1>13, <1>14, <1>17

\* Jobs are of frames that are not submitted, and one that is executed was.
LEMMA ExecutionStep ==
    ASSUME FramesInv, GPUExecutes
    PROVE  FramesInv'
<1> USE DEF FramesInv, JobsRight
<1>1. /\ executed \in submitted /\ executed' = executed + 1
      /\ recorded' = {l \in recorded : l.frame # executed}
  BY DEF GPUExecutes
<1>2. UNCHANGED <<mCurrFrameNum, processing, mCachedFrameNumberStack, stack, queued, submitted,
                  mPerFrameIndexArr, mHeap, mDescriptorTable>>
  BY DEF GPUExecutes, jobVars, heapVars
<1>3. Places' = Places /\ \A x \in Places : Call(x)' = Call(x) /\ (IsTop(x)' <=> IsTop(x))
  BY <1>2 DEF Places, Call, IsTop
<1>4. StacksRight'
  BY <1>2, <1>3 DEF StacksRight
<1>5. FramesRight'
  <2>1. /\ mCurrFrameNum \in Nat /\ executed \in Nat /\ executed < mCurrFrameNum
    BY <1>1 DEF FramesRight
  <2> QED BY <1>1, <1>2, <2>1 DEF FramesRight
<1>6. \A f : IsLive(f) /\ f # executed => IsLive(f)'
  BY <1>1, <1>2 DEF IsLive, FramesRight
<1>7. \A f : Unbegun(f)' <=> Unbegun(f)
  BY <1>2, <1>3 DEF Unbegun
<1>8. QueuedRight'
  BY <1>1, <1>2, <1>3, <1>6, <1>7 DEF QueuedRight
<1>9. CallsRight'
  BY <1>1, <1>2, <1>3, <1>6, <1>7 DEF CallsRight
<1>10. RecordedRight'
  BY <1>1, <1>2, <1>3, <1>6, <1>7 DEF RecordedRight
<1>11. AllocatorsRight'
  BY <1>1, <1>3 DEF AllocatorsRight
<1>12. \A f \in Nat : Waiting(f)' \subseteq Waiting(f)
  BY <1>2, <1>3, <1>7 DEF Waiting
<1>13. DescriptorsRight' /\ IndicesRight'
  <2>1. \A l \in recorded' : Reference(l.index, l.builder, l.frame) \in References
    BY <1>1 DEF References
  <2>2. \A x \in Places' : Call(x)'.step \in {"copy", "close"} => x \in Places /\ Call(x)' = Call(x)
    BY <1>3
  <2>3. Latest' = Latest /\ mCurrFrameNum' \in Nat /\ mCurrFrameNum <= mCurrFrameNum'
    BY <1>2 DEF Latest, FramesRight
  <2> QED BY <1>2, <1>12, <2>1, <2>2, <2>3, QuietStep
<1> QED BY <1>4, <1>5, <1>8, <1>9, <1>10, <1>11, <1>13

\* Of what the frame two before has used nothing is in use.
LEMMA ProcessStep ==
    ASSUME FramesInv, ProcessFrame
    PROVE  FramesInv'
<1> USE DEF FramesInv, JobsRight
<1>0. PICK c \in Nat : c = mCurrFrameNum
  BY DEF FramesRight
<1>1. /\ ~processing /\ processing' = TRUE /\ c < executed + 2 /\ executed \in Nat /\ executed <= c
      /\ mPerFrameIndexArr' = [mPerFrameIndexArr EXCEPT ![SlotOfFrame(c)] = 0]
  BY <1>0 DEF ProcessFrame, ResetPerFrameDescriptorHeapIndex, GetTrueFrameNumber, SlotOfFrame,
              FramesRight, MAX_FRAMES_IN_FLIGHT
<1>2. UNCHANGED <<mCurrFrameNum, mCachedFrameNumberStack, queued, stack, mHeap, mDescriptorTable,
                  submitted, executed>>
  BY DEF ProcessFrame, jobVars
<1>3. \A f : IsLive(f) => f \in Nat /\ f = c - 1
  BY <1>0, <1>1 DEF IsLive
<1>4. recorded' = recorded
  <2> DEFINE reset == {a \in NeedsReset : a.slot = SlotOfFrame(c)}
  <2>1. recorded' = {IF l.allocator \in reset THEN [l EXCEPT !.intact = FALSE] ELSE l : l \in recorded}
    BY <1>0 DEF ProcessFrame, ResetCommandAllocators, SlotOfFrame
  <2>2. ASSUME NEW l \in recorded PROVE l.allocator \notin reset
    <3>1. l.allocator.slot = SlotOfFrame(l.frame) /\ l.frame \in Nat /\ l.frame + 1 = c
      BY <1>0, <1>3 DEF AllocatorsRight, RecordedRight
    <3>2. SlotOfFrame(l.frame) # SlotOfFrame(l.frame + 1)
      BY <3>1, Slotted
    <3>3. l.allocator.slot # SlotOfFrame(c)
      BY <3>1, <3>2
    <3> QED BY <3>3
  <2> HIDE DEF reset
  <2> QED BY <2>1, <2>2
<1>5. Places' = Places /\ \A x \in Places : Call(x)' = Call(x) /\ (IsTop(x)' <=> IsTop(x))
  BY <1>2 DEF Places, Call, IsTop
<1>6. StacksRight'
  BY <1>2, <1>5 DEF StacksRight
<1>7. FramesRight'
  <2>1. mCurrFrameNum \in Nat /\ mCurrFrameNum <= executed + 1
    BY <1>0, <1>1
  <2> QED BY <1>1, <1>2, <2>1 DEF FramesRight
<1>8. \A f : Unbegun(f)' <=> Unbegun(f)
  BY <1>2, <1>5 DEF Unbegun
<1>9. QueuedRight'
  BY <1>2, <1>5, <1>8 DEF QueuedRight, IsLive
<1>10. CallsRight'
  BY <1>2, <1>5, <1>8 DEF CallsRight, IsLive
<1>11. RecordedRight'
  BY <1>2, <1>4, <1>5, <1>8 DEF RecordedRight, IsLive
<1>12. AllocatorsRight'
  BY <1>4, <1>5 DEF AllocatorsRight
<1>13. Latest = c - 1 /\ Latest' = c
  BY <1>0, <1>1, <1>2 DEF Latest
<1>14. \A f \in Nat : f + 1 = c => Used(SlotOfFrame(f))' = Used(SlotOfFrame(f))
  <2>1. ASSUME NEW f \in Nat, f + 1 = c
        PROVE  mPerFrameIndexArr'[SlotOfFrame(f)] = mPerFrameIndexArr[SlotOfFrame(f)]
    BY <1>1, <2>1, Slotted DEF IndicesRight
  <2> QED BY <2>1 DEF Used
<1>15. \A r \in References' : r \in References /\ r.frame = c - 1
  <2>1. ASSUME NEW b \in Builders, Current(b)'
        PROVE  Current(b) /\ mDescriptorTable[b][1].mCreationFrameNum = c - 1
    BY <1>0, <1>2, <1>13, <2>1, TablesAreTyped DEF Current, DescriptorsRight
  <2>2. ASSUME NEW l \in recorded
        PROVE  /\ Reference(l.index, l.builder, l.frame) \in References
               /\ Reference(l.index, l.builder, l.frame).frame = c - 1
    BY <1>3 DEF References, Reference, RecordedRight
  <2>3. ASSUME NEW x \in Places, Call(x).step = "close"
        PROVE  /\ Reference(Call(x).index, Call(x).builder, Call(x).frame) \in References
               /\ Reference(Call(x).index, Call(x).builder, Call(x).frame).frame = c - 1
    <3>1. x \in {y \in Places : Call(y).step = "close"}
      BY <2>3
    <3> QED BY <1>3, <3>1 DEF References, Reference, CallsRight
  <2>4. ASSUME NEW b \in Builders, Current(b)'
        PROVE  LET table == mDescriptorTable[b][1]
                   r == Reference(table.index, b, table.mCreationFrameNum)
               IN  r \in References /\ r.frame = c - 1
    BY <2>1, <2>4 DEF References, Reference
  <2>5. ASSUME NEW r \in References' PROVE r \in References /\ r.frame = c - 1
    <3>1. CASE \E l \in recorded' : r = Reference(l.index, l.builder, l.frame)
      BY <1>4, <2>2, <3>1
    <3>2. CASE \E x \in Places' : /\ Call(x)'.step = "close"
                                  /\ r = Reference(Call(x)'.index, Call(x)'.builder, Call(x)'.frame)
      BY <1>5, <2>3, <3>2
    <3>3. CASE \E b \in Builders : /\ Current(b)'
                                   /\ r = Reference(mDescriptorTable'[b][1].index, b,
                                                    mDescriptorTable'[b][1].mCreationFrameNum)
      BY <1>2, <2>4, <3>3
    <3> QED BY <2>5, <3>1, <3>2, <3>3 DEF References, Reference
  <2> QED BY <2>5
<1>16. DescriptorsRight'
  <2>1. ASSUME NEW b \in Builders, Current(b)'
        PROVE  mDescriptorTable[b][1].index \in Used(SlotOfFrame(mDescriptorTable[b][1].mCreationFrameNum))'
    <3>0. mDescriptorTable[b] # <<>>
      BY <1>2, <2>1 DEF Current
    <3>1. PICK F \in Nat : F = mDescriptorTable[b][1].mCreationFrameNum
      BY <3>0, TablesAreTyped
    <3>2. F + 1 = c /\ Current(b)
      BY <1>0, <1>2, <1>13, <2>1, <3>1 DEF Current, DescriptorsRight
    <3>3. mDescriptorTable[b][1].index \in Used(SlotOfFrame(F))
      BY <3>1, <3>2 DEF DescriptorsRight
    <3>4. Used(SlotOfFrame(F))' = Used(SlotOfFrame(F))
      BY <1>14, <3>2
    <3>5. mDescriptorTable' = mDescriptorTable
      BY <1>2
    <3> QED BY <3>1, <3>3, <3>4, <3>5
  <2>2. ASSUME NEW r \in References'
        PROVE  /\ r \in [index : Nat, builder : Builders, frame : Nat]
               /\ mHeap'[r.index] = r.builder
               /\ \E f \in {r.frame, r.frame + 1} :
                     f < mCurrFrameNum' /\ r.index \in Used(SlotOfFrame(f))'
    <3>1. /\ r \in [index : Nat, builder : Builders, frame : Nat] /\ r.frame + 1 = c
          /\ mHeap[r.index] = r.builder
          /\ \E f \in {r.frame, r.frame + 1} : f < mCurrFrameNum /\ r.index \in Used(SlotOfFrame(f))
      BY <1>15 DEF DescriptorsRight
    <3>2. r.index \in Used(SlotOfFrame(r.frame)) /\ r.frame \in Nat /\ r.frame < c
      BY <1>0, <3>1
    <3>3. Used(SlotOfFrame(r.frame))' = Used(SlotOfFrame(r.frame))
      BY <1>14, <3>1, <3>2
    <3> QED BY <1>0, <1>2, <3>1, <3>2, <3>3
  <2>3. ASSUME NEW x \in Copying'
        PROVE  /\ Call(x)'.index \in Used(SlotOfFrame(Call(x).frame))'
               /\ \A r \in References' : r.index # Call(x)'.index
               /\ \A y \in Copying' : Call(x)'.index = Call(y)'.index => x = y
    <3>1. /\ x \in Copying /\ Call(x)' = Call(x)
          /\ \A y \in Copying' : y \in Copying /\ Call(y)' = Call(y)
      BY <1>5 DEF Copying
    <3>2. PICK f \in Nat : f = Call(x).frame /\ f + 1 = c
      BY <1>3, <3>1 DEF Copying, CallsRight
    <3>3. Used(SlotOfFrame(f))' = Used(SlotOfFrame(f))
      BY <1>14, <3>2
    <3>4. Call(x).index \in Used(SlotOfFrame(f))
      BY <3>1, <3>2 DEF DescriptorsRight
    <3>5. Call(x)'.index \in Used(SlotOfFrame(f))' /\ Call(x)'.frame = f
      BY <3>1, <3>2, <3>3, <3>4
    <3>6. Call(x)'.index \in Used(SlotOfFrame(Call(x).frame))'
      BY <3>5 DEF Used
    <3> QED BY <1>15, <3>1, <3>6 DEF DescriptorsRight
  <2>4. \A b \in Builders : Current(b)' =>
            mDescriptorTable'[b][1].index \in Used(SlotOfFrame(mDescriptorTable[b][1].mCreationFrameNum))'
    BY <1>2, <2>1
  <2> QED BY <1>2, <2>2, <2>3, <2>4 DEF DescriptorsRight
<1>17. IndicesRight'
  <2>1. mPerFrameIndexArr' \in [Slots -> 0 .. Cardinality(Builders)]
    BY <1>1, Slotted DEF IndicesRight
  <2>2. ASSUME NEW f \in Nat, f \in c - 1 .. c
        PROVE  mPerFrameIndexArr'[SlotOfFrame(f)] + Cardinality(Waiting(f)') <= Cardinality(Builders)
    <3>1. Waiting(f)' = Waiting(f)
      BY <1>2, <1>5, <1>8 DEF Waiting
    <3>2. CASE f = c
      <4>1. mPerFrameIndexArr'[SlotOfFrame(f)] = 0
        BY <1>1, <3>2, Slotted DEF IndicesRight
      <4>2. Waiting(f)' \subseteq Builders
        BY <3>1 DEF Waiting
      <4>3. Cardinality(Waiting(f)') <= Cardinality(Builders) /\ Cardinality(Waiting(f)') \in Nat
        BY <4>2, Slotted, FS_Subset, FS_CardinalityType
      <4> QED BY <4>1, <4>3
    <3>3. CASE f # c
      <4>1. f + 1 = c /\ f \in Latest - 1 .. Latest
        BY <1>13, <2>2, <3>3
      <4>2. SlotOfFrame(f) # SlotOfFrame(c) /\ SlotOfFrame(f) \in Slots
        BY <4>1, Slotted
      <4>3. mPerFrameIndexArr'[SlotOfFrame(f)] = mPerFrameIndexArr[SlotOfFrame(f)]
        BY <1>1, <4>2 DEF IndicesRight
      <4> QED BY <3>1, <4>1, <4>3 DEF IndicesRight
    <3> QED BY <3>2, <3>3
  <2> QED BY <1>13, <2>1, <2>2 DEF IndicesRight
<1> QED BY <1>6, <1>7, <1>9, <1>10, <1>11, <1>12, <1>16, <1>17

\* A record job goes on: what it and the other jobs are does not change.
LEMMA RecordStep ==
    ASSUME FramesInv, NEW t \in Threads, stack[t] # <<>>,
           Job(t) \in Records, NEW job \in Records, Same(job, Job(t)), Goto(t, job),
           UNCHANGED <<mCachedFrameNumberStack, queued, recorded, mCurrFrameNum, processing,
                       submitted, executed>>,
           job.allocator = IF Job(t).step = "reset"
                           THEN [thread |-> t, slot |-> SlotOfFrame(Job(t).frame)]
                           ELSE Job(t).allocator,
           job.step \in {"reset", "table", "reserve"} => Job(t).step \in {"reset", "table", "reserve"}
    PROVE  /\ StacksRight' /\ FramesRight' /\ JobsRight' /\ AllocatorsRight'
           /\ Top(t) \in Places /\ Call(Top(t)) = Job(t) /\ Places' = Places
           /\ \A x \in Places : Call(x)' = IF x = Top(t) THEN job ELSE Call(x)
           /\ \A frame : Unbegun(frame)' <=> Unbegun(frame)
           /\ \A frame \in Nat : Waiting(frame)' \subseteq Waiting(frame)
           /\ Latest' = Latest
<1> USE DEF FramesInv
<1>1. /\ StacksRight' /\ FramesRight' /\ JobsRight'
      /\ Top(t) \in Places /\ Call(Top(t)) = Job(t) /\ Places' = Places
      /\ \A x \in Places : Call(x)' = IF x = Top(t) THEN job ELSE Call(x)
      /\ \A frame : Unbegun(frame)' <=> Unbegun(frame)
  BY RecordGoes
<1>2. AllocatorsRight'
  <2>1. ASSUME NEW x \in Places, Call(x)'.step \in {"table", "reserve", "copy", "close"}
        PROVE  Call(x)'.allocator = [thread |-> x[1], slot |-> SlotOfFrame(Call(x)'.frame)]
    <3>1. CASE x # Top(t)
      BY <1>1, <2>1, <3>1 DEF AllocatorsRight
    <3>2. CASE x = Top(t)
      <4>1. Call(x)' = job /\ x[1] = t /\ job.frame = Job(t).frame /\ Call(x) = Job(t)
        BY <1>1, <3>2 DEF Top, Same
      <4>2. CASE Job(t).step = "reset"
        BY <4>1, <4>2
      <4>3. CASE Job(t).step # "reset"
        <5>1. Job(t).step \in {"table", "reserve", "copy", "close"}
          BY <4>3 DEF Records
        <5> QED BY <2>1, <4>1, <4>3, <5>1 DEF AllocatorsRight
      <4> QED BY <4>2, <4>3
    <3> QED BY <3>1, <3>2
  <2>2. \A x \in Places' : Call(x)'.step \in {"table", "reserve", "copy", "close"} =>
            Call(x)'.allocator = [thread |-> x[1], slot |-> SlotOfFrame(Call(x)'.frame)]
    BY <1>1, <2>1
  <2> QED BY <2>2 DEF AllocatorsRight, SlotOfFrame
<1>3. ASSUME NEW frame \in Nat, NEW b \in Waiting(frame)' PROVE b \in Waiting(frame)
  <2>1. CASE \E x \in Places' : /\ Call(x)'.step \in {"reset", "table", "reserve"}
                                /\ IsRecordJob(Call(x)', b, frame)
    <3>1. PICK x \in Places : /\ Call(x)'.step \in {"reset", "table", "reserve"}
                              /\ IsRecordJob(Call(x)', b, frame)
      BY <1>1, <2>1
    <3>2. Call(x).step \in {"reset", "table", "reserve"} /\ IsRecordJob(Call(x), b, frame)
      BY <1>1, <3>1 DEF IsRecordJob, Same
    <3> QED BY <1>3, <3>2 DEF Waiting
  <2> QED BY <1>1, <1>3, <2>1 DEF Waiting
<1>4. Latest' = Latest
  BY DEF Latest
<1> QED BY <1>1, <1>2, <1>3, <1>4

\* The allocator is that of the job's frame.
LEMMA ResetStep ==
    ASSUME FramesInv, NEW t \in Threads, ResetCommandList(t)
    PROVE  FramesInv'
<1> USE DEF FramesInv
<1>0. PICK call : call = Job(t)
  OBVIOUS
<1>1. /\ stack[t] # <<>> /\ call.step = "reset" /\ call \in Modules \cup Records
      /\ GetCurrentFrameNumber(t) = call.frame
  BY <1>0, CallsAreTyped DEF ResetCommandList, At, Job
<1>2. call \in Records /\ call.frame \in Nat
  BY <1>1, KindsOfCalls
<1>3. PICK job : job = [call EXCEPT !.step = "table",
                            !.allocator = [thread |-> t, slot |-> SlotOfFrame(call.frame)]]
  OBVIOUS
<1>4. /\ job \in Records /\ Same(job, call) /\ job.step = "table"
      /\ job.allocator = [thread |-> t, slot |-> SlotOfFrame(call.frame)]
  BY <1>2, <1>3, Slotted DEF Records, Same, Allocators
<1>5. Goto(t, job)
  BY <1>0, <1>1, <1>3 DEF ResetCommandList, SlotOf, SlotOfFrame
<1>6. UNCHANGED <<mCachedFrameNumberStack, queued, recorded, mCurrFrameNum, processing,
                  submitted, executed, mPerFrameIndexArr, mHeap, mDescriptorTable>>
  BY DEF ResetCommandList, mainVars, jobVars, heapVars
<1>7. /\ StacksRight' /\ FramesRight' /\ JobsRight' /\ AllocatorsRight'
      /\ Top(t) \in Places /\ Call(Top(t)) = Job(t) /\ Places' = Places
      /\ \A x \in Places : Call(x)' = IF x = Top(t) THEN job ELSE Call(x)
      /\ \A frame \in Nat : Waiting(frame)' \subseteq Waiting(frame)
      /\ Latest' = Latest
  BY <1>0, <1>1, <1>2, <1>4, <1>5, <1>6, RecordStep
<1>8. DescriptorsRight' /\ IndicesRight'
  <2>1. \A l \in recorded' : Reference(l.index, l.builder, l.frame) \in References
    BY <1>6 DEF References
  <2>2. \A x \in Places' : Call(x)'.step \in {"copy", "close"} => x \in Places /\ Call(x)' = Call(x)
    BY <1>4, <1>7
  <2>3. mCurrFrameNum' \in Nat /\ mCurrFrameNum <= mCurrFrameNum'
    BY <1>6 DEF FramesRight
  <2> QED BY <1>6, <1>7, <2>1, <2>2, <2>3, QuietStep
<1> QED BY <1>7, <1>8

\* A table that is valid is of the job's frame or of the next one, and a reference
\* to the same descriptor.
LEMMA TableStep ==
    ASSUME FramesInv, NEW t \in Threads, GetDescriptorTable(t)
    PROVE  FramesInv'
<1> USE DEF FramesInv
<1>0. PICK call, b, f : call = Job(t) /\ b = call.builder /\ f = call.frame
  OBVIOUS
<1>1. /\ stack[t] # <<>> /\ call.step = "table" /\ call \in Modules \cup Records
      /\ GetCurrentFrameNumber(t) = f
      /\ Top(t) \in Places /\ Call(Top(t)) = call
  BY <1>0, CallsAreTyped DEF GetDescriptorTable, At, Job
<1>2. call \in Records /\ f \in Nat /\ b \in Builders /\ call.kind = "record"
  BY <1>0, <1>1, KindsOfCalls
<1>3. UNCHANGED <<mCachedFrameNumberStack, queued, recorded, mCurrFrameNum, processing,
                  submitted, executed, mPerFrameIndexArr, mHeap, mDescriptorTable>>
  BY DEF GetDescriptorTable, mainVars, jobVars
<1>4. mCurrFrameNum' \in Nat /\ mCurrFrameNum <= mCurrFrameNum'
  BY <1>3 DEF FramesRight
<1>5. CASE ~IsDescriptorTableValid(t, mDescriptorTable[b])
  <2>1. PICK job : job = [call EXCEPT !.step = "reserve"]
    OBVIOUS
  <2>2. /\ job \in Records /\ Same(job, call) /\ job.step = "reserve"
        /\ job.allocator = call.allocator
    BY <1>2, <2>1 DEF Records, Same
  <2>3. Goto(t, job)
    BY <1>0, <1>5, <2>1 DEF GetDescriptorTable, To
  <2>4. /\ StacksRight' /\ FramesRight' /\ JobsRight' /\ AllocatorsRight' /\ Places' = Places
        /\ \A x \in Places : Call(x)' = IF x = Top(t) THEN job ELSE Call(x)
        /\ \A frame \in Nat : Waiting(frame)' \subseteq Waiting(frame)
        /\ Latest' = Latest
    BY <1>0, <1>1, <1>2, <1>3, <2>2, <2>3, RecordStep
  <2>5. DescriptorsRight' /\ IndicesRight'
    <3>1. \A l \in recorded' : Reference(l.index, l.builder, l.frame) \in References
      BY <1>3 DEF References
    <3>2. \A x \in Places' : Call(x)'.step \in {"copy", "close"} => x \in Places /\ Call(x)' = Call(x)
      BY <2>2, <2>4
    <3> QED BY <1>3, <1>4, <2>4, <3>1, <3>2, QuietStep
  <2> QED BY <2>4, <2>5
<1>6. CASE IsDescriptorTableValid(t, mDescriptorTable[b])
  <2>1. mDescriptorTable[b] # <<>>
    BY <1>6 DEF IsDescriptorTableValid
  <2>2. PICK i \in Nat, F \in Nat : /\ i = mDescriptorTable[b][1].index
                                    /\ F = mDescriptorTable[b][1].mCreationFrameNum
    BY <1>2, <2>1, TablesAreTyped
  <2>3. f <= F /\ F < mCurrFrameNum /\ mCurrFrameNum \in Nat
    BY <1>1, <1>2, <1>6, <2>1, <2>2 DEF IsDescriptorTableValid, DescriptorsRight, FramesRight
  <2>4. IsLive(f) /\ f \in Latest - 1 .. Latest
    BY <1>0, <1>1, LiveFrames DEF JobsRight, CallsRight
  <2>5. F \in {f, f + 1} /\ F >= Latest - 1
    BY <1>2, <2>3, <2>4 DEF Latest
  <2>6. Current(b)
    BY <2>1, <2>2, <2>5 DEF Current
  <2>7. Reference(i, b, F) \in References /\ i \in Used(SlotOfFrame(F))
    BY <1>2, <2>2, <2>6 DEF References, DescriptorsRight
  <2>8. mHeap[i] = b /\ \A x \in Copying : i # Call(x).index
    <3>1. /\ mHeap[Reference(i, b, F).index] = Reference(i, b, F).builder
          /\ \A x \in Copying : Reference(i, b, F).index # Call(x).index
      BY <2>7 DEF DescriptorsRight
    <3> QED BY <3>1 DEF Reference
  <2>9. PICK job : job = [call EXCEPT !.step = "close", !.index = i]
    OBVIOUS
  <2>10. /\ job \in Records /\ Same(job, call) /\ job.step = "close" /\ job.index = i
         /\ job.builder = b /\ job.frame = f /\ job.allocator = call.allocator
    BY <1>0, <1>2, <2>9 DEF Records, Same
  <2>11. Goto(t, job)
    BY <1>0, <1>6, <2>2, <2>9 DEF GetDescriptorTable
  <2>12. /\ StacksRight' /\ FramesRight' /\ JobsRight' /\ AllocatorsRight' /\ Places' = Places
         /\ \A x \in Places : Call(x)' = IF x = Top(t) THEN job ELSE Call(x)
         /\ \A frame \in Nat : Waiting(frame)' \subseteq Waiting(frame)
         /\ Latest' = Latest
    BY <1>0, <1>1, <1>2, <1>3, <2>10, <2>11, RecordStep
  <2>13. IndicesRight'
    BY <1>3, <2>12, IndicesKept
  <2>14. /\ \A slot : Used(slot)' = Used(slot)
         /\ \A a \in Builders : Current(a)' <=> Current(a)
    BY <1>3, <2>12 DEF Used, Current
  <2>15. Copying' \subseteq Copying /\ \A x \in Copying' : Call(x)' = Call(x)
    BY <2>10, <2>12 DEF Copying
  <2>16. \A r \in References' : r \in References \/ r = Reference(i, b, f)
    <3>1. ASSUME NEW x \in Places', Call(x)'.step = "close"
          PROVE  LET r == Reference(Call(x)'.index, Call(x)'.builder, Call(x)'.frame)
                 IN  r \in References \/ r = Reference(i, b, f)
      <4>1. CASE x = Top(t)
        BY <2>10, <2>12, <3>1, <4>1
      <4>2. CASE x # Top(t)
        <5>1. x \in {y \in Places : Call(y).step = "close"} /\ Call(x)' = Call(x)
          BY <2>12, <3>1, <4>2
        <5> QED BY <5>1 DEF References
      <4> QED BY <4>1, <4>2
    <3>2. ASSUME NEW r \in References' PROVE r \in References \/ r = Reference(i, b, f)
      <4>1. CASE \E l \in recorded' : r = Reference(l.index, l.builder, l.frame)
        BY <1>3, <4>1 DEF References
      <4>2. CASE \E x \in Places' : /\ Call(x)'.step = "close"
                                    /\ r = Reference(Call(x)'.index, Call(x)'.builder, Call(x)'.frame)
        BY <3>1, <4>2
      <4>3. CASE \E a \in Builders : /\ Current(a)'
                                     /\ r = Reference(mDescriptorTable'[a][1].index, a,
                                                      mDescriptorTable'[a][1].mCreationFrameNum)
        BY <1>3, <2>14, <4>3 DEF References
      <4> QED BY <3>2, <4>1, <4>2, <4>3 DEF References, Reference
    <3> QED BY <3>2
  <2>17. ASSUME NEW r \in References'
         PROVE  /\ r \in [index : Nat, builder : Builders, frame : Nat]
                /\ mHeap'[r.index] = r.builder
                /\ \E g \in {r.frame, r.frame + 1} :
                      g < mCurrFrameNum' /\ r.index \in Used(SlotOfFrame(g))'
                /\ \A x \in Copying' : r.index # Call(x)'.index
    <3>1. CASE r \in References
      BY <1>3, <2>14, <2>15, <3>1 DEF DescriptorsRight
    <3>2. CASE r = Reference(i, b, f)
      <4>1. /\ r \in [index : Nat, builder : Builders, frame : Nat]
            /\ r.index = i /\ r.builder = b /\ r.frame = f
        BY <1>2, <3>2 DEF Reference
      <4>2. F < mCurrFrameNum' /\ i \in Used(SlotOfFrame(F))'
        BY <1>3, <2>3, <2>7, <2>14
      <4> QED BY <1>3, <2>5, <2>8, <2>15, <4>1, <4>2
    <3> QED BY <2>16, <3>1, <3>2
  <2>18. DescriptorsRight'
    <3>1. \A x \in Copying' :
             /\ Call(x)'.index \in Used(SlotOfFrame(Call(x).frame))'
             /\ \A y \in Copying' : Call(x)'.index = Call(y)'.index => x = y
      <4>1. ASSUME NEW x \in Copying' PROVE Call(x)'.index \in Used(SlotOfFrame(Call(x).frame))'
        <5>1. PICK g : g = Call(x).frame
          OBVIOUS
        <5>2. Call(x)'.index \in Used(SlotOfFrame(g))' /\ Call(x)'.frame = g
          BY <2>14, <2>15, <5>1 DEF DescriptorsRight
        <5> QED BY <5>2 DEF Used
      <4> QED BY <2>15, <4>1 DEF DescriptorsRight
    <3>2. \A a \in Builders : Current(a)' =>
              mDescriptorTable'[a][1].index \in Used(SlotOfFrame(mDescriptorTable[a][1].mCreationFrameNum))'
      BY <1>3, <2>14 DEF DescriptorsRight
    <3> QED BY <1>3, <2>17, <3>1, <3>2 DEF DescriptorsRight
  <2> QED BY <2>12, <2>13, <2>18
<1> QED BY <1>5, <1>6

\* The descriptor that is reserved is no other's.
LEMMA Reserved ==
    ASSUME NEW s \in Slots, mPerFrameIndexArr \in [Slots -> 0 .. Cardinality(Builders)],
           mPerFrameIndexArr[s] + 1 <= Cardinality(Builders),
           mPerFrameIndexArr' = [mPerFrameIndexArr EXCEPT ![s] = @ + 1]
    PROVE  LET index == s * PER_FRAME_DESCRIPTORS + mPerFrameIndexArr[s]
           IN  /\ index \in Nat /\ index \in Used(s)'
               /\ \A r \in Slots : Used(r) \subseteq Used(r)' /\ index \notin Used(r)
               /\ mPerFrameIndexArr' \in [Slots -> 0 .. Cardinality(Builders)]
<1>1. /\ mPerFrameIndexArr[0] \in 0 .. Cardinality(Builders)
      /\ mPerFrameIndexArr[1] \in 0 .. Cardinality(Builders)
      /\ mPerFrameIndexArr[s] \in 0 .. Cardinality(Builders)
  BY Slotted
<1>2. mPerFrameIndexArr' \in [Slots -> 0 .. Cardinality(Builders)]
  BY <1>1, Slotted
<1>3. \A r \in Slots : mPerFrameIndexArr'[r] = IF r = s THEN mPerFrameIndexArr[r] + 1
                                               ELSE mPerFrameIndexArr[r]
  OBVIOUS
<1>4. CASE s = 0
  <2>1. mPerFrameIndexArr'[0] = mPerFrameIndexArr[0] + 1 /\ mPerFrameIndexArr'[1] = mPerFrameIndexArr[1]
    BY <1>3, <1>4, Slotted
  <2> QED BY <1>1, <1>2, <1>4, <2>1, Slotted DEF Used
<1>5. CASE s = 1
  <2>1. mPerFrameIndexArr'[1] = mPerFrameIndexArr[1] + 1 /\ mPerFrameIndexArr'[0] = mPerFrameIndexArr[0]
    BY <1>3, <1>5, Slotted
  <2> QED BY <1>1, <1>2, <1>5, <2>1, Slotted DEF Used
<1> QED BY <1>4, <1>5, Slotted

\* A builder that waits for a descriptor of a frame has one left.
LEMMA ReserveStep ==
    ASSUME FramesInv, NEW t \in Threads, ReserveDescriptors(t)
    PROVE  FramesInv'
<1> USE DEF FramesInv
<1>0. PICK call, b, f, s : call = Job(t) /\ b = call.builder /\ f = call.frame /\ s = SlotOfFrame(f)
  OBVIOUS
<1>1. /\ stack[t] # <<>> /\ call.step = "reserve" /\ call \in Modules \cup Records
      /\ GetCurrentFrameNumber(t) = f
      /\ Top(t) \in Places /\ Call(Top(t)) = call
  BY <1>0, CallsAreTyped DEF ReserveDescriptors, At, Job
<1>2. /\ call \in Records /\ f \in Nat /\ b \in Builders /\ call.kind = "record"
      /\ s \in Slots /\ SlotOf(t) = s
  BY <1>0, <1>1, KindsOfCalls, Slotted DEF SlotOf, SlotOfFrame
<1>3. UNCHANGED <<mCachedFrameNumberStack, queued, recorded, mCurrFrameNum, processing,
                  submitted, executed, mHeap, mDescriptorTable>>
  BY DEF ReserveDescriptors, mainVars, jobVars
<1>4. mPerFrameIndexArr' = [mPerFrameIndexArr EXCEPT ![s] = @ + 1]
  BY <1>2 DEF ReserveDescriptors
<1>5. PICK index : index = s * PER_FRAME_DESCRIPTORS + mPerFrameIndexArr[s]
  OBVIOUS
<1>6. f \in Latest - 1 .. Latest /\ f < mCurrFrameNum
  BY <1>0, <1>1, LiveFrames DEF JobsRight, CallsRight
<1>7. b \in Waiting(f) /\ Waiting(f) \subseteq Builders
  BY <1>0, <1>1, <1>2 DEF Waiting, IsRecordJob
<1>8. /\ IsFiniteSet(Waiting(f)) /\ Cardinality(Waiting(f)) \in Nat
      /\ Cardinality(Waiting(f) \ {b}) = Cardinality(Waiting(f)) - 1
      /\ Cardinality(Waiting(f) \ {b}) \in Nat
  <2>1. IsFiniteSet(Waiting(f))
    BY <1>7, Slotted, FS_Subset
  <2>2. /\ IsFiniteSet(Waiting(f) \ {b})
        /\ Cardinality(Waiting(f) \ {b}) = Cardinality(Waiting(f)) - 1
    BY <1>7, <2>1, FS_RemoveElement
  <2> QED BY <2>1, <2>2, FS_CardinalityType
<1>9. /\ mPerFrameIndexArr[s] + Cardinality(Waiting(f)) <= Cardinality(Builders)
      /\ mPerFrameIndexArr[s] \in Nat
  BY <1>0, <1>2, <1>6 DEF IndicesRight
<1>10. mPerFrameIndexArr[s] + 1 <= Cardinality(Builders)
  <2>1. Cardinality(Builders) \in Nat
    BY Slotted
  <2> QED BY <1>8, <1>9, <2>1
<1>11. /\ index \in Nat /\ index \in Used(s)'
       /\ \A r \in Slots : Used(r) \subseteq Used(r)' /\ index \notin Used(r)
       /\ mPerFrameIndexArr' \in [Slots -> 0 .. Cardinality(Builders)]
  BY <1>2, <1>4, <1>5, <1>10, Reserved DEF IndicesRight
<1>12. PICK job : job = [call EXCEPT !.step = "copy", !.index = index]
  OBVIOUS
<1>13. /\ job \in Records /\ Same(job, call) /\ job.step = "copy" /\ job.index = index
       /\ job.builder = b /\ job.frame = f /\ job.allocator = call.allocator
  BY <1>0, <1>2, <1>11, <1>12 DEF Records, Same
<1>14. Goto(t, job)
  BY <1>0, <1>2, <1>5, <1>12 DEF ReserveDescriptors
<1>15. /\ StacksRight' /\ FramesRight' /\ JobsRight' /\ AllocatorsRight' /\ Places' = Places
       /\ \A x \in Places : Call(x)' = IF x = Top(t) THEN job ELSE Call(x)
       /\ \A frame : Unbegun(frame)' <=> Unbegun(frame)
       /\ \A frame \in Nat : Waiting(frame)' \subseteq Waiting(frame)
       /\ Latest' = Latest
  BY <1>0, <1>1, <1>2, <1>3, <1>13, <1>14, RecordStep
<1>16. b \notin Waiting(f)'
  <2>1. ~(f >= mCurrFrameNum') /\ ~Unbegun(f)'
    <3>1. ~Unbegun(f)
      BY <1>0, <1>1, <1>2 DEF JobsRight, CallsRight
    <3>2. ~(f >= mCurrFrameNum)
      BY <1>2, <1>6 DEF FramesRight
    <3> QED BY <1>3, <1>15, <3>1, <3>2
  <2>2. \A j \in queued' : ~IsRecordJob(j, b, f)
    BY <1>0, <1>1, <1>2, <1>3 DEF JobsRight, QueuedRight, Same, IsRecordJob
  <2>3. ASSUME NEW x \in Places', Call(x)'.step \in {"reset", "table", "reserve"},
               IsRecordJob(Call(x)', b, f)
        PROVE  FALSE
    <3>1. x # Top(t) /\ Call(x)' = Call(x)
      BY <1>13, <1>15, <2>3
    <3>2. Same(Call(x), Call(Top(t)))
      BY <1>0, <1>1, <1>2, <2>3, <3>1 DEF IsRecordJob, Same
    <3> QED BY <1>1, <1>15, <3>1, <3>2 DEF JobsRight, CallsRight
  <2> QED BY <2>1, <2>2, <2>3 DEF Waiting
<1>17. IndicesRight'
  <2>1. ASSUME NEW g \in Nat, g \in Latest - 1 .. Latest
        PROVE  mPerFrameIndexArr'[SlotOfFrame(g)] + Cardinality(Waiting(g)') <= Cardinality(Builders)
    <3>1. CASE g = f
      <4>1. Waiting(g)' \subseteq Waiting(f) \ {b} /\ IsFiniteSet(Waiting(f) \ {b})
        BY <1>7, <1>15, <1>16, <3>1, Slotted, FS_Subset
      <4>2. /\ Cardinality(Waiting(g)') <= Cardinality(Waiting(f) \ {b})
            /\ Cardinality(Waiting(g)') \in Nat
        BY <4>1, FS_Subset, FS_CardinalityType
      <4>3. mPerFrameIndexArr'[SlotOfFrame(g)] = mPerFrameIndexArr[s] + 1
        BY <1>0, <1>2, <1>4, <3>1 DEF IndicesRight
      <4> QED BY <1>8, <1>9, <4>2, <4>3, Slotted
    <3>2. CASE g # f
      <4>1. g = f + 1 \/ f = g + 1
        BY <1>2, <1>6, <2>1, <3>2 DEF Latest, FramesRight
      <4>2. SlotOfFrame(g) # s /\ SlotOfFrame(g) \in Slots
        BY <1>0, <1>2, <2>1, <4>1, Slotted
      <4>3. mPerFrameIndexArr'[SlotOfFrame(g)] = mPerFrameIndexArr[SlotOfFrame(g)]
        BY <1>4, <4>2 DEF IndicesRight
      <4>4. Waiting(g)' \subseteq Waiting(g) /\ Waiting(g) \subseteq Builders
        BY <1>15 DEF Waiting
      <4>5. /\ Cardinality(Waiting(g)') <= Cardinality(Waiting(g))
            /\ Cardinality(Waiting(g)') \in Nat /\ Cardinality(Waiting(g)) \in Nat
        BY <4>4, Slotted, FS_Subset, FS_CardinalityType
      <4>6. mPerFrameIndexArr[SlotOfFrame(g)] + Cardinality(Waiting(g)) <= Cardinality(Builders)
        BY <2>1 DEF IndicesRight
      <4>7. mPerFrameIndexArr[SlotOfFrame(g)] \in Nat
        BY <4>2 DEF IndicesRight
      <4> QED BY <4>3, <4>5, <4>6, <4>7, Slotted
    <3> QED BY <3>1, <3>2
  <2> QED BY <1>11, <1>15, <2>1 DEF IndicesRight
<1>18. \A b2 \in Builders : Current(b2)' <=> Current(b2)
  BY <1>3, <1>15 DEF Current
<1>19. References' \subseteq References
  <2>1. ASSUME NEW r \in References' PROVE r \in References
    <3>1. CASE \E l \in recorded' : r = Reference(l.index, l.builder, l.frame)
      BY <1>3, <3>1 DEF References
    <3>2. CASE \E x \in Places' : /\ Call(x)'.step = "close"
                                  /\ r = Reference(Call(x)'.index, Call(x)'.builder, Call(x)'.frame)
      <4>1. PICK x \in Places' : /\ Call(x)'.step = "close"
                                 /\ r = Reference(Call(x)'.index, Call(x)'.builder, Call(x)'.frame)
        BY <3>2
      <4>2. x \in {y \in Places : Call(y).step = "close"} /\ Call(x)' = Call(x)
        BY <1>13, <1>15, <4>1
      <4> QED BY <4>1, <4>2 DEF References
    <3>3. CASE \E a \in Builders : /\ Current(a)'
                                   /\ r = Reference(mDescriptorTable'[a][1].index, a,
                                                    mDescriptorTable'[a][1].mCreationFrameNum)
      BY <1>3, <1>18, <3>3 DEF References
    <3> QED BY <2>1, <3>1, <3>2, <3>3 DEF References, Reference
  <2> QED BY <2>1
<1>20. \A x \in Copying' : \/ x = Top(t) /\ Call(x)' = job
                           \/ x \in Copying /\ Call(x)' = Call(x)
  BY <1>15 DEF Copying
<1>21. ASSUME NEW r \in References'
       PROVE  /\ r \in [index : Nat, builder : Builders, frame : Nat]
              /\ mHeap'[r.index] = r.builder
              /\ \E g \in {r.frame, r.frame + 1} :
                    g < mCurrFrameNum' /\ r.index \in Used(SlotOfFrame(g))'
              /\ r.index # index
              /\ \A x \in Copying : r.index # Call(x).index
  <2>1. /\ r \in [index : Nat, builder : Builders, frame : Nat]
        /\ mHeap[r.index] = r.builder
        /\ \A x \in Copying : r.index # Call(x).index
        /\ \E g \in {r.frame, r.frame + 1} : g < mCurrFrameNum /\ r.index \in Used(SlotOfFrame(g))
    BY <1>19, <1>21 DEF DescriptorsRight
  <2>2. PICK g \in {r.frame, r.frame + 1} : g < mCurrFrameNum /\ r.index \in Used(SlotOfFrame(g))
    BY <2>1
  <2>3. g \in Nat /\ SlotOfFrame(g) \in Slots
    BY <2>1, <2>2, Slotted
  <2> QED BY <1>3, <1>11, <2>1, <2>2, <2>3
<1>22. \A x \in Copying : /\ Call(x).index \in Used(SlotOfFrame(Call(x).frame))
                          /\ SlotOfFrame(Call(x).frame) \in Slots
                          /\ Call(x).index # index
  <2>1. ASSUME NEW x \in Copying
        PROVE  /\ Call(x).index \in Used(SlotOfFrame(Call(x).frame))
               /\ SlotOfFrame(Call(x).frame) \in Slots
    <3>1. Call(x).frame \in Nat
      BY CallsAreTyped, KindsOfCalls DEF Copying
    <3> QED BY <3>1, Slotted DEF DescriptorsRight
  <2> QED BY <1>11, <2>1
<1>23. DescriptorsRight'
  <2>1. ASSUME NEW x \in Copying'
        PROVE  /\ Call(x)'.index \in Used(SlotOfFrame(Call(x).frame))'
               /\ \A r \in References' : r.index # Call(x)'.index
               /\ \A y \in Copying' : Call(x)'.index = Call(y)'.index => x = y
    <3>0. PICK r : r = SlotOfFrame(Call(x).frame)'
      OBVIOUS
    <3>1. CASE x = Top(t) /\ Call(x)' = job
      <4>1. Call(x)'.index = index /\ r = s
        BY <1>0, <1>13, <3>0, <3>1 DEF SlotOfFrame
      <4>2. Call(x)'.index \in Used(r)'
        BY <1>11, <4>1
      <4>3. Call(x)'.index \in Used(SlotOfFrame(Call(x).frame))'
        BY <3>0, <4>2 DEF Used
      <4> QED BY <1>13, <1>20, <1>21, <1>22, <3>1, <4>1, <4>3
    <3>2. CASE x \in Copying /\ Call(x)' = Call(x)
      <4>1. Call(x)'.index \in Used(r)'
        <5>1. r = SlotOfFrame(Call(x).frame)
          BY <3>0, <3>2 DEF SlotOfFrame
        <5>2. Call(x).index \in Used(r) /\ r \in Slots
          BY <1>22, <3>2, <5>1
        <5> QED BY <1>11, <3>2, <5>2
      <4>2. Call(x)'.index \in Used(SlotOfFrame(Call(x).frame))'
        BY <3>0, <4>1 DEF Used
      <4> QED BY <1>13, <1>20, <1>21, <1>22, <3>2, <4>2 DEF DescriptorsRight
    <3> QED BY <1>20, <3>1, <3>2
  <2>2. ASSUME NEW a \in Builders, Current(a)'
        PROVE  mDescriptorTable'[a][1].index \in Used(SlotOfFrame(mDescriptorTable[a][1].mCreationFrameNum))'
    <3>1. PICK F : F = mDescriptorTable[a][1].mCreationFrameNum
      OBVIOUS
    <3>2. mDescriptorTable[a] # <<>>
      BY <1>3, <2>2 DEF Current
    <3>3. F \in Nat /\ mDescriptorTable[a][1].index \in Used(SlotOfFrame(F))
      BY <1>18, <2>2, <3>1, <3>2, TablesAreTyped DEF DescriptorsRight
    <3>4. mDescriptorTable[a][1].index \in Used(SlotOfFrame(F))'
      BY <1>11, <3>3, Slotted
    <3> QED BY <1>3, <3>1, <3>4 DEF Used
  <2> QED BY <1>3, <1>21, <2>1, <2>2 DEF DescriptorsRight
<1> QED BY <1>15, <1>17, <1>23

\* The descriptor that is copied to is referred to by nobody.
LEMMA CopyStep ==
    ASSUME FramesInv, NEW t \in Threads, CopyDescriptors(t)
    PROVE  FramesInv'
<1> USE DEF FramesInv
<1>0. PICK call, b, f, i, place : /\ call = Job(t) /\ b = call.builder /\ f = call.frame
                                  /\ i = call.index /\ place = Top(t)
  OBVIOUS
<1>1. /\ stack[t] # <<>> /\ call.step = "copy" /\ call \in Modules \cup Records
      /\ GetCurrentFrameNumber(t) = f
      /\ place \in Places /\ Call(place) = call
  BY <1>0, CallsAreTyped DEF CopyDescriptors, At, Job
<1>2. call \in Records /\ f \in Nat /\ i \in Nat /\ b \in Builders /\ call.kind = "record"
  BY <1>0, <1>1, KindsOfCalls
<1>3. UNCHANGED <<mCachedFrameNumberStack, queued, recorded, mCurrFrameNum, processing,
                  submitted, executed, mPerFrameIndexArr>>
  BY DEF CopyDescriptors, mainVars, jobVars
<1>4. /\ mHeap' = [j \in Indices |-> IF j = i THEN b ELSE mHeap[j]]
      /\ mDescriptorTable' =
             [mDescriptorTable EXCEPT ![b] = <<[index |-> i, mCreationFrameNum |-> f]>>]
  BY <1>0, <1>1 DEF CopyDescriptors, CreatePerFrameDescriptorTable
<1>5. PICK job : job = [call EXCEPT !.step = "close"]
  OBVIOUS
<1>6. /\ job \in Records /\ Same(job, call) /\ job.step = "close" /\ job.index = i
      /\ job.builder = b /\ job.frame = f /\ job.allocator = call.allocator
  BY <1>0, <1>2, <1>5 DEF Records, Same
<1>7. Goto(t, job)
  BY <1>0, <1>5 DEF CopyDescriptors, To
<1>8. /\ StacksRight' /\ FramesRight' /\ JobsRight' /\ AllocatorsRight' /\ Places' = Places
      /\ \A x \in Places : Call(x)' = IF x = place THEN job ELSE Call(x)
      /\ \A frame \in Nat : Waiting(frame)' \subseteq Waiting(frame)
      /\ Latest' = Latest
  BY <1>0, <1>1, <1>2, <1>3, <1>6, <1>7, RecordStep
<1>9. IndicesRight'
  BY <1>3, <1>8, IndicesKept
<1>10. \A slot : Used(slot)' = Used(slot)
  BY <1>3 DEF Used
<1>11. /\ i \in Used(SlotOfFrame(f)) /\ \A r \in References : r.index # i
       /\ \A x \in Copying : x # place => Call(x).index # i
       /\ place \in Copying
  BY <1>0, <1>1 DEF Copying, DescriptorsRight
<1>12. f < mCurrFrameNum
  BY <1>0, <1>1, LiveFrames DEF JobsRight, CallsRight
<1>13. \A slot \in Slots : Used(slot) \subseteq Indices
  BY UsedApart DEF IndicesRight
<1>14. i \in Indices /\ mHeap'[i] = b
  <2>1. i \in Indices
    BY <1>2, <1>11, <1>13, Slotted
  <2> QED BY <1>4, <2>1
<1>15. /\ mDescriptorTable'[b] = <<[index |-> i, mCreationFrameNum |-> f]>>
       /\ mDescriptorTable'[b] # <<>>
       /\ mDescriptorTable'[b][1].index = i /\ mDescriptorTable'[b][1].mCreationFrameNum = f
       /\ \A a \in Builders : a # b => mDescriptorTable'[a] = mDescriptorTable[a]
       /\ mDescriptorTable' \in [Builders -> {<<>>} \cup {<<table>> : table \in Tables}]
  <2>1. mDescriptorTable \in [Builders -> {<<>>} \cup {<<table>> : table \in Tables}]
    BY DEF DescriptorsRight
  <2>2. PICK table : table = [index |-> i, mCreationFrameNum |-> f]
    OBVIOUS
  <2>3. table \in Tables /\ table.index = i /\ table.mCreationFrameNum = f
    BY <1>2, <2>2 DEF Tables
  <2>4. mDescriptorTable' = [mDescriptorTable EXCEPT ![b] = <<table>>]
    BY <1>4, <2>2
  <2>5. mDescriptorTable'[b] = <<table>> /\ <<table>> # <<>> /\ <<table>>[1] = table
    BY <1>2, <2>1, <2>4
  <2>6. \A a \in Builders : a # b => mDescriptorTable'[a] = mDescriptorTable[a]
    BY <2>1, <2>4
  <2>7. mDescriptorTable' \in [Builders -> {<<>>} \cup {<<tb>> : tb \in Tables}]
    BY <2>1, <2>3, <2>4
  <2>8. /\ mDescriptorTable'[b] # <<>>
        /\ mDescriptorTable'[b][1].index = i /\ mDescriptorTable'[b][1].mCreationFrameNum = f
    BY <2>3, <2>5
  <2> QED BY <2>2, <2>5, <2>6, <2>7, <2>8
<1>16. \A a \in Builders : a # b => (Current(a)' <=> Current(a))
  BY <1>8, <1>15 DEF Current
<1>17. ASSUME NEW x \in Copying'
       PROVE  x \in Copying /\ x # place /\ Call(x)' = Call(x)
  <2>1. x \in Places /\ Call(x)'.step = "copy"
    BY <1>8 DEF Copying
  <2> QED BY <1>6, <1>8, <2>1 DEF Copying
<1>18. ASSUME NEW r \in References' PROVE r \in References \/ r = Reference(i, b, f)
  <2>1. CASE \E l \in recorded' : r = Reference(l.index, l.builder, l.frame)
    BY <1>3, <2>1 DEF References
  <2>2. CASE \E x \in Places' : /\ Call(x)'.step = "close"
                                /\ r = Reference(Call(x)'.index, Call(x)'.builder, Call(x)'.frame)
    <3>1. PICK x \in Places : /\ Call(x)'.step = "close"
                              /\ r = Reference(Call(x)'.index, Call(x)'.builder, Call(x)'.frame)
      BY <1>8, <2>2
    <3>2. CASE x = place
      BY <1>6, <1>8, <3>1, <3>2
    <3>3. CASE x # place
      <4>1. x \in {y \in Places : Call(y).step = "close"} /\ Call(x)' = Call(x)
        BY <1>8, <3>1, <3>3
      <4> QED BY <3>1, <4>1 DEF References
    <3> QED BY <3>2, <3>3
  <2>3. CASE \E a \in Builders : /\ Current(a)'
                                 /\ r = Reference(mDescriptorTable'[a][1].index, a,
                                                  mDescriptorTable'[a][1].mCreationFrameNum)
    <3>1. PICK a \in Builders : /\ Current(a)'
                                /\ r = Reference(mDescriptorTable'[a][1].index, a,
                                                 mDescriptorTable'[a][1].mCreationFrameNum)
      BY <2>3
    <3>2. CASE a = b
      BY <1>15, <3>1, <3>2
    <3>3. CASE a # b
      BY <1>15, <1>16, <3>1, <3>3 DEF References
    <3> QED BY <3>2, <3>3
  <2> QED BY <1>18, <2>1, <2>2, <2>3 DEF References, Reference
<1>19. ASSUME NEW r \in References'
       PROVE  /\ r \in [index : Nat, builder : Builders, frame : Nat]
              /\ mHeap'[r.index] = r.builder
              /\ \E g \in {r.frame, r.frame + 1} :
                    g < mCurrFrameNum' /\ r.index \in Used(SlotOfFrame(g))'
              /\ \A x \in Copying' : r.index # Call(x)'.index
  <2>1. CASE r \in References
    <3>1. /\ r \in [index : Nat, builder : Builders, frame : Nat]
          /\ mHeap[r.index] = r.builder
          /\ \A x \in Copying : r.index # Call(x).index
          /\ \E g \in {r.frame, r.frame + 1} : g < mCurrFrameNum /\ r.index \in Used(SlotOfFrame(g))
      BY <2>1 DEF DescriptorsRight
    <3>2. PICK g \in {r.frame, r.frame + 1} : g < mCurrFrameNum /\ r.index \in Used(SlotOfFrame(g))
      BY <3>1
    <3>3. r.index \in Indices
      <4>1. g \in Nat
        BY <3>1, <3>2
      <4> QED BY <1>13, <3>2, <4>1, Slotted
    <3>4. mHeap'[r.index] = r.builder
      BY <1>4, <1>11, <2>1, <3>1, <3>3
    <3> QED BY <1>3, <1>10, <1>17, <3>1, <3>2, <3>4
  <2>2. CASE r = Reference(i, b, f)
    <3>1. /\ r \in [index : Nat, builder : Builders, frame : Nat]
          /\ r.index = i /\ r.builder = b /\ r.frame = f
      BY <1>2, <2>2 DEF Reference
    <3>2. f < mCurrFrameNum' /\ i \in Used(SlotOfFrame(f))'
      BY <1>3, <1>10, <1>11, <1>12
    <3> QED BY <1>11, <1>14, <1>17, <3>1, <3>2
  <2> QED BY <1>18, <2>1, <2>2
<1>20. DescriptorsRight'
  <2>1. ASSUME NEW x \in Copying'
        PROVE  /\ Call(x)'.index \in Used(SlotOfFrame(Call(x).frame))'
               /\ \A y \in Copying' : Call(x)'.index = Call(y)'.index => x = y
    <3>1. PICK r : r = SlotOfFrame(Call(x).frame)
      OBVIOUS
    <3>2. Call(x)'.index \in Used(r)' /\ r = SlotOfFrame(Call(x).frame)'
      BY <1>10, <1>17, <3>1 DEF DescriptorsRight, SlotOfFrame
    <3>3. Call(x)'.index \in Used(SlotOfFrame(Call(x).frame))'
      BY <3>2 DEF Used
    <3> QED BY <1>17, <3>3 DEF DescriptorsRight
  <2>2. ASSUME NEW a \in Builders, Current(a)'
        PROVE  mDescriptorTable'[a][1].index \in Used(SlotOfFrame(mDescriptorTable[a][1].mCreationFrameNum))'
    <3>1. PICK r : r = SlotOfFrame(mDescriptorTable[a][1].mCreationFrameNum)'
      OBVIOUS
    <3>2. CASE a = b
      <4>1. r = SlotOfFrame(f)
        BY <1>15, <3>1, <3>2 DEF SlotOfFrame
      <4>2. mDescriptorTable'[a][1].index \in Used(r)'
        BY <1>10, <1>11, <1>15, <3>2, <4>1
      <4> QED BY <3>1, <4>2 DEF Used
    <3>3. CASE a # b
      <4>1. r = SlotOfFrame(mDescriptorTable[a][1].mCreationFrameNum) /\ Current(a)
        BY <1>15, <1>16, <2>2, <3>1, <3>3 DEF SlotOfFrame
      <4>2. mDescriptorTable'[a][1].index \in Used(r)'
        BY <1>10, <1>15, <3>3, <4>1 DEF DescriptorsRight
      <4> QED BY <3>1, <4>2 DEF Used
    <3> QED BY <3>2, <3>3
  <2>3. ASSUME NEW a \in Builders, mDescriptorTable'[a] # <<>>
        PROVE  mDescriptorTable'[a][1].mCreationFrameNum < mCurrFrameNum'
    <3>1. CASE a = b
      BY <1>3, <1>12, <1>15, <3>1
    <3>2. CASE a # b
      BY <1>3, <1>15, <2>3, <3>2 DEF DescriptorsRight
    <3> QED BY <3>1, <3>2
  <2> QED BY <1>15, <1>19, <2>1, <2>2, <2>3 DEF DescriptorsRight
<1> QED BY <1>8, <1>9, <1>20

-----------------------------------------------------------------------------
\* Nothing is used, and no frame is in flight.
LEMMA FramesInitially == FramesInit => FramesInv
<1> SUFFICES ASSUME FramesInit PROVE FramesInv
  OBVIOUS
<1> USE DEF FramesInit
<1>1. /\ Places = {}
      /\ stack \in [Threads -> Seq(Modules \cup Records)]
      /\ mCachedFrameNumberStack \in [Threads -> Seq(Nat)]
      /\ \A t \in Threads : Len(mCachedFrameNumberStack[t]) = Len(stack[t])
  <2>1. <<>> \in Seq(Modules \cup Records) /\ <<>> \in Seq(Nat) /\ DOMAIN <<>> = {} /\ Len(<<>>) = 0
    OBVIOUS
  <2>2. /\ stack \in [Threads -> Seq(Modules \cup Records)]
        /\ mCachedFrameNumberStack \in [Threads -> Seq(Nat)]
    BY <2>1
  <2>3. \A t \in Threads : /\ stack[t] = <<>> /\ mCachedFrameNumberStack[t] = <<>>
                           /\ DOMAIN stack[t] = {}
    BY <2>1
  <2> QED BY <2>1, <2>2, <2>3 DEF Places
<1>2. StacksRight
  BY <1>1 DEF StacksRight
<1>3. FramesRight
  <2>1. /\ mCurrFrameNum \in Nat /\ executed \in Nat /\ executed <= mCurrFrameNum
        /\ submitted \subseteq 0 .. mCurrFrameNum - 1
    OBVIOUS
  <2>2. processing \in BOOLEAN
    OBVIOUS
  <2>3. mCurrFrameNum <= executed + 2 /\ ~processing
    OBVIOUS
  <2> QED BY <2>1, <2>2, <2>3 DEF FramesRight
<1>4. JobsRight /\ AllocatorsRight
  BY <1>1 DEF JobsRight, QueuedRight, CallsRight, RecordedRight, AllocatorsRight
<1>5. DescriptorsRight
  <2>1. \A b \in Builders : ~Current(b)
    BY DEF Current
  <2>2. References = {} /\ Copying = {}
    BY <1>1, <2>1 DEF References, Copying
  <2> QED BY <2>1, <2>2 DEF DescriptorsRight
<1>6. IndicesRight
  <2>1. mPerFrameIndexArr \in [Slots -> 0 .. Cardinality(Builders)]
    BY Slotted
  <2>2. \A frame \in Nat : frame \notin Latest - 1 .. Latest
    BY DEF Latest
  <2> QED BY <2>1, <2>2 DEF IndicesRight
<1> QED BY <1>2, <1>3, <1>4, <1>5, <1>6 DEF FramesInv

\* Each step of the main thread, of the GPU and of a job.
LEMMA FramesStep == FramesInv /\ [FramesNext]_frameVars => FramesInv'
<1> SUFFICES ASSUME FramesInv, [FramesNext]_frameVars PROVE FramesInv'
  OBVIOUS
<1>1. CASE ProcessFrame
  BY <1>1, ProcessStep
<1>2. CASE SubmitFrameGraph
  BY <1>2, SubmissionStep
<1>3. CASE GPUExecutes
  BY <1>3, ExecutionStep
<1>4. ASSUME NEW t \in Threads,
             \/ Execute(t) \/ CreateRecordJobs(t) \/ ModuleEnds(t) \/ ResetCommandList(t)
             \/ GetDescriptorTable(t) \/ ReserveDescriptors(t) \/ CopyDescriptors(t)
             \/ CloseCommandList(t)
      PROVE  FramesInv'
  BY <1>4, ExecuteStep, CreationOfJobs, ModuleStep, ResetStep, TableStep, ReserveStep, CopyStep,
     CloseStep
<1>5. CASE UNCHANGED frameVars
  <2> USE <1>5 DEF frameVars
  <2>1. /\ Places' = Places /\ \A x \in Places : Call(x)' = Call(x) /\ (IsTop(x)' <=> IsTop(x))
        /\ Latest' = Latest
    BY DEF Places, Call, IsTop, Latest
  <2>2. \A frame : Unbegun(frame)' <=> Unbegun(frame)
    BY <2>1 DEF Unbegun
  <2>3. StacksRight' /\ FramesRight' /\ JobsRight' /\ AllocatorsRight'
    <3>1. StacksRight'
      BY <2>1 DEF FramesInv, StacksRight
    <3>2. FramesRight'
      BY DEF FramesInv, FramesRight
    <3>3. QueuedRight'
      BY <2>1, <2>2 DEF FramesInv, JobsRight, QueuedRight, IsLive
    <3>4. CallsRight'
      BY <2>1, <2>2 DEF FramesInv, JobsRight, CallsRight, IsLive
    <3>5. RecordedRight'
      BY <2>1, <2>2 DEF FramesInv, JobsRight, RecordedRight, IsLive
    <3>6. AllocatorsRight'
      BY <2>1 DEF FramesInv, AllocatorsRight
    <3> QED BY <3>1, <3>2, <3>3, <3>4, <3>5, <3>6 DEF JobsRight
  <2>4. DescriptorsRight' /\ IndicesRight'
    <3>1. \A l \in recorded' : Reference(l.index, l.builder, l.frame) \in References
      BY DEF References
    <3>2. \A x \in Places' : Call(x)'.step \in {"copy", "close"} => x \in Places /\ Call(x)' = Call(x)
      BY <2>1
    <3>3. mCurrFrameNum' \in Nat /\ mCurrFrameNum <= mCurrFrameNum'
      BY DEF FramesInv, FramesRight
    <3>4. \A frame \in Nat : Waiting(frame)' \subseteq Waiting(frame)
      BY <2>1, <2>2 DEF Waiting
    <3> QED BY <2>1, <3>1, <3>2, <3>3, <3>4, QuietStep DEF FramesInv
  <2> QED BY <2>3, <2>4 DEF FramesInv
<1> QED BY <1>1, <1>2, <1>3, <1>4, <1>5 DEF FramesNext

\* The invariant is enough: what refers to a descriptor finds that of its builder.
LEMMA KeepsResources == FramesInv => FramesKeepTheirResources
<1> SUFFICES ASSUME FramesInv PROVE FramesKeepTheirResources
  OBVIOUS
<1> USE DEF FramesInv
<1> DEFINE open == UNION {{stack[t][i] : i \in DOMAIN stack[t]} : t \in Threads}
           recording == {l \in open : l.step \in {"table", "reserve", "copy", "close"}}
<1>1. ASSUME NEW t \in Threads, NEW i \in DOMAIN stack[t]
      PROVE  <<t, i>> \in Places /\ Call(<<t, i>>) = stack[t][i]
  <2>1. i \in Nat
    BY <1>1 DEF StacksRight
  <2> QED BY <2>1 DEF Places, Call
<1>2. ASSUME NEW l \in recorded PROVE l.intact /\ mHeap[l.index] = l.builder
  <2>1. l.intact
    BY <1>2 DEF JobsRight, RecordedRight, Lists
  <2>2. Reference(l.index, l.builder, l.frame) \in References
    BY <1>2 DEF References
  <2>3. mHeap[Reference(l.index, l.builder, l.frame).index]
          = Reference(l.index, l.builder, l.frame).builder
    BY <2>2 DEF DescriptorsRight
  <2> QED BY <2>1, <2>3 DEF Reference
<1>3. ASSUME NEW l \in recording, l.step = "close" PROVE mHeap[l.index] = l.builder
  <2>1. PICK t \in Threads : \E i \in DOMAIN stack[t] : l = stack[t][i]
    BY <1>3
  <2>2. PICK i \in DOMAIN stack[t] : l = stack[t][i]
    BY <2>1
  <2>3. PICK x \in Places : l = Call(x)
    BY <1>1, <2>2
  <2>4. x \in {y \in Places : Call(y).step = "close"}
    BY <1>3, <2>3
  <2>5. Reference(l.index, l.builder, l.frame) \in References
    BY <2>3, <2>4 DEF References
  <2>6. mHeap[Reference(l.index, l.builder, l.frame).index]
          = Reference(l.index, l.builder, l.frame).builder
    BY <2>5 DEF DescriptorsRight
  <2> QED BY <2>6 DEF Reference
<1>4. ASSUME NEW t \in Threads, NEW i \in DOMAIN stack[t], NEW j \in DOMAIN stack[t],
             {stack[t][i], stack[t][j]} \subseteq recording
      PROVE  i = j
  <2>1. stack[t][i].step # "wait" /\ stack[t][j].step # "wait"
    BY <1>4
  <2>2. IsTop(<<t, i>>) /\ IsTop(<<t, j>>)
    BY <1>1, <2>1 DEF StacksRight
  <2> QED BY <2>2 DEF IsTop
<1>5. \A s \in Slots : mPerFrameIndexArr[s] <= PER_FRAME_DESCRIPTORS
  <2>1. \A s \in Slots : mPerFrameIndexArr[s] \in 0 .. Cardinality(Builders)
    BY DEF IndicesRight
  <2>2. /\ Cardinality(Builders) \in Nat /\ PER_FRAME_DESCRIPTORS \in Nat
        /\ Cardinality(Builders) <= PER_FRAME_DESCRIPTORS
    BY Slotted
  <2> QED BY <2>1, <2>2
<1> QED BY <1>2, <1>3, <1>4, <1>5 DEF FramesKeepTheirResources

\* For any threads, any builders a partition has room for and any number of frames:
\* from the moment a command list refers to a descriptor table until the GPU has
\* executed it, the table has its builder's descriptors and the allocator its commands,
\* though ProcessFrame resets what the frame two before used, and a thread that waits
\* in a job of one frame executes those of another (Util::Engine, DescriptorTableBuilder).
THEOREM FramesKeepTheirResourcesTheorem == FramesSpec => []FramesKeepTheirResources
<1>1. FramesSpec => []FramesInv
  BY FramesInitially, FramesStep, PTL DEF FramesSpec
<1> QED BY <1>1, KeepsResources, PTL
=============================================================================
