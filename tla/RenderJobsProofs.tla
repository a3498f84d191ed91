-------------------------- MODULE RenderJobsProofs --------------------------
(***************************************************************************)
(* Proofs about the rendering of the engine: RenderJobs, for any bundles,  *)
(* resources and states, and any number of bundles; and, at the end, the   *)
(* pipeline state objects it renders with.                                 *)
(*                                                                         *)
(* A bundle is known by its number: the running ones are those behind the  *)
(* completed ones, up to the last one extracted (Envs).  On each queue the *)
(* bundles get fence values in their order, and so are their command lists *)
(* submitted and executed: the queue of the GPU holds, for one bundle      *)
(* after the other, the lists and the signal of the bundle's value         *)
(* (QueuesAreInOrder), and the fence has reached the value of a bundle     *)
(* only if the GPU has executed it (FencesAreRight).                       *)
(*                                                                         *)
(* A resource that does not decay is used on one queue by all the bundles  *)
(* that are not completed (OneQueue), so the bundles that write it are     *)
(* executed in their order, and each leaves the state that the next one    *)
(* remembers (StatesFollow): before the GPU executes a bundle, its state   *)
(* is the one the bundle remembers (GPUFollows).                           *)
(*                                                                         *)
(* PSOs (PSOsAreCurrent).  While the components of the renderer are        *)
(* initialized, no PSO is compiled; afterwards all of them are initialized,*)
(* the root signatures among them, the device has what is required, and    *)
(* the pipeline library, if there is one, was made by the device's driver, *)
(* as another one is refused.  Definitions change only between two         *)
(* programs, and a PSO of the library is used only if it is that of its    *)
(* definition.                                                             *)
(***************************************************************************)
EXTENDS RenderJobs, PipelineCache, FiniteSetTheorems, SequenceTheorems,
        WellFoundedInduction, TLAPS

-----------------------------------------------------------------------------
(* The environments of the bundles that are running, by the bundle's number. *)

Completed == extracted - Len(mRunningJobQueue)
Running   == Completed + 1 .. extracted
Envs      == [id \in Running |-> mRunningJobQueue[id - Completed]]

Memory       == [Resources -> States \cup {COMMON}]
Environments == [id : Nat, lists : [Queues -> Seq(Nat)],
                 fenceValue : UNION {[S -> Nat] : S \in SUBSET Queues},
                 remembered : Memory, recorded : BOOLEAN, submitted : BOOLEAN]
Entries == [kind : {"lists"}, id : Nat, lists : Seq(Nat)] \cup [kind : {"signal"}, value : Nat]

Types ==
    /\ submitted \in Seq(Bundles)
    /\ extracted \in 0 .. Len(submitted)
    /\ mRunningJobQueue \in Seq(Environments) /\ Len(mRunningJobQueue) <= extracted
    /\ mFree \in [Queues -> Seq(Nat)]
    /\ made \in [Queues -> Nat]
    /\ mNextValue \in [Queues -> Nat]
    /\ mCurrState \in Memory
    /\ gpuQueue \in [Queues -> Seq(Entries)]
    /\ gpuFence \in [Queues -> Nat]

BundlesAreInOrder ==
    /\ \A id \in Running : Envs[id].id = id
    /\ completed = 1 .. Completed
    /\ executed \subseteq (1 .. extracted) \X Queues

-----------------------------------------------------------------------------
(* The values of the fences, and the queues of the GPU.                      *)

Uses(id, q) == q \in UsedQueues(submitted[id])

ValuesIncrease ==
    /\ \A id \in Running : DOMAIN Envs[id].fenceValue = UsedQueues(submitted[id])
    /\ \A q \in Queues :
          /\ gpuFence[q] < mNextValue[q]
          /\ \A id \in Running : Uses(id, q) =>
                /\ Envs[id].fenceValue[q] < mNextValue[q]
                /\ \A jd \in Running : id < jd /\ Uses(jd, q) =>
                      Envs[id].fenceValue[q] < Envs[jd].fenceValue[q]

IsLists(q, m)  == gpuQueue[q][m].kind = "lists"
IsSignal(q, m) == gpuQueue[q][m].kind = "signal"

\* The lists are those of a bundle, and the signal behind them is the bundle's.
AreListsOf(q, m, id) ==
    /\ m + 1 \in 1 .. Len(gpuQueue[q]) /\ IsSignal(q, m + 1)
    /\ id \in Running /\ Envs[id].submitted /\ Uses(id, q) /\ <<id, q>> \notin executed
    /\ gpuQueue[q][m].lists = Envs[id].lists[q]
    /\ gpuQueue[q][m + 1].value = Envs[id].fenceValue[q]

QueuesAreInOrder ==
    \A q \in Queues : \A m \in 1 .. Len(gpuQueue[q]) :
        /\ IsLists(q, m) => AreListsOf(q, m, gpuQueue[q][m].id)
        /\ IsSignal(q, m) =>
              /\ m > 1 => IsLists(q, m - 1)
              /\ gpuFence[q] < gpuQueue[q][m].value /\ gpuQueue[q][m].value < mNextValue[q]
              /\ \A n \in 1 .. Len(gpuQueue[q]) : m < n /\ IsSignal(q, n) =>
                    gpuQueue[q][m].value < gpuQueue[q][n].value

HeadIsExecuted ==
    \A q \in Queues : 1 <= Len(gpuQueue[q]) /\ IsSignal(q, 1) =>
        \A id \in Running : Uses(id, q) /\ Envs[id].fenceValue[q] = gpuQueue[q][1].value
            => <<id, q>> \in executed

IsSignalled(id, q) == Envs[id].fenceValue[q] <= gpuFence[q] /\ <<id, q>> \in executed
IsQueued(id, q) ==
    \E m \in 1 .. Len(gpuQueue[q]) :
        IsSignal(q, m) /\ gpuQueue[q][m].value = Envs[id].fenceValue[q]
IsAhead(id, q) ==
    /\ Envs[id].fenceValue[q] > gpuFence[q] /\ <<id, q>> \notin executed
    /\ \A m \in 1 .. Len(gpuQueue[q]) : IsSignal(q, m) =>
          gpuQueue[q][m].value < Envs[id].fenceValue[q]

FencesAreRight ==
    \A id \in Running : \A q \in Queues : Uses(id, q) =>
        /\ Envs[id].submitted => IsSignalled(id, q) \/ IsQueued(id, q)
        /\ ~Envs[id].submitted => IsAhead(id, q)

-----------------------------------------------------------------------------
(* The command lists.                                                        *)

ListsAreRight ==
    \A q \in Queues :
        /\ \A i \in 1 .. Len(mFree[q]) : mFree[q][i] \in 1 .. made[q]
        /\ \A i, j \in 1 .. Len(mFree[q]) : mFree[q][i] = mFree[q][j] => i = j
        /\ \A id \in Running :
              /\ Len(Envs[id].lists[q]) = Len(submitted[id][q])
              /\ \A i \in 1 .. Len(Envs[id].lists[q]) :
                    /\ Envs[id].lists[q][i] \in 1 .. made[q]
                    /\ \A j \in 1 .. Len(mFree[q]) : Envs[id].lists[q][i] # mFree[q][j]
        /\ \A id, jd \in Running :
             \A i \in 1 .. Len(Envs[id].lists[q]), j \in 1 .. Len(Envs[jd].lists[q]) :
                Envs[id].lists[q][i] = Envs[jd].lists[q][j] => id = jd /\ i = j

FenceInv ==
    /\ Types /\ BundlesAreInOrder /\ ValuesIncrease /\ QueuesAreInOrder
    /\ HeadIsExecuted /\ FencesAreRight /\ ListsAreRight /\ CompletedMeansExecuted

-----------------------------------------------------------------------------
(* Facts about numbers and sequences.                                        *)

\* The sets 0 .. n, of the numbers n of S, are finite, so one of them is minimal.
LEMMA LeastNatural ==
    ASSUME NEW S \in SUBSET Nat, S # {}
    PROVE  \E m \in S : \A n \in S : m <= n
<1> DEFINE T == {0 .. n : n \in S}
<1>1. \A n \in S : IsFiniteSet(0 .. n) /\ 0 .. n \subseteq Nat
  BY FS_Interval
<1>2. T \subseteq FiniteSubsetsOf(Nat) /\ T # {}
  BY <1>1 DEF FiniteSubsetsOf
<1>3. \E X \in T : \A Y \in T : ~(<<Y, X>> \in StrictSubsetOrdering(Nat))
  <2> HIDE DEF T
  <2> QED BY <1>2, WFMin, FS_StrictSubsetOrderingWellFounded
<1>4. PICK m \in S : \A n \in S : ~(<<0 .. n, 0 .. m>> \in StrictSubsetOrdering(Nat))
  BY <1>3
<1>5. ASSUME NEW n \in S, n < m PROVE FALSE
  <2>1. m \in 0 .. m /\ m \notin 0 .. n
    BY <1>5
  <2>2. 0 .. n \subseteq 0 .. m /\ 0 .. n # 0 .. m /\ 0 .. n \subseteq Nat /\ 0 .. m \subseteq Nat
    BY <2>1, <1>5
  <2> QED BY <2>2, <1>4 DEF StrictSubsetOrdering
<1> QED BY <1>5

LEMMA GreatestNatural ==
    ASSUME NEW N \in Nat, NEW S, S \subseteq 0 .. N, S # {}
    PROVE  \E m \in S : \A n \in S : n <= m
<1> DEFINE T == {n \in Nat : \E i \in S : n = N - i}
<1>1. PICK i \in S : TRUE
  OBVIOUS
<1>2. i \in 0 .. N /\ N - i \in T
  BY <1>1
<1>3. PICK m \in T : \A n \in T : m <= n
  BY <1>2, LeastNatural
<1>4. PICK k \in S : m = N - k
  OBVIOUS
<1>5. ASSUME NEW n \in S PROVE n <= k
  <2>1. N - n \in T /\ n \in 0 .. N /\ k \in 0 .. N
    OBVIOUS
  <2>2. m <= N - n
    BY <2>1, <1>3
  <2> QED BY <2>1, <2>2, <1>4
<1> QED BY <1>5

LEMMA LatestExists ==
    ASSUME NEW N \in Nat, NEW S, S \subseteq 1 .. N, S # {}
    PROVE  Latest(S) \in S
<1>1. S \subseteq 0 .. N
  OBVIOUS
<1>2. \E m \in S : \A n \in S : n <= m
  BY <1>1, GreatestNatural
<1> QED BY <1>2, Zenon DEF Latest

LEMMA SeqIsEmpty ==
    ASSUME NEW S, NEW s \in Seq(S)
    PROVE  Len(s) \in Nat /\ (s = <<>> <=> Len(s) = 0)
OBVIOUS

-----------------------------------------------------------------------------
(* Bundles and their jobs.                                                   *)

LEMMA BundleTypes ==
    ASSUME NEW b \in Bundles
    PROVE  /\ b \in [Queues -> Seq(JobSet)] /\ UsedQueues(b) # {} /\ UsedQueues(b) \subseteq Queues
           /\ \A q \in Queues : Len(b[q]) \in Nat /\ (q \in UsedQueues(b) <=> Len(b[q]) > 0)
           /\ CheckResourceDependencyConflicts(b)
<1>1. /\ b \in [Queues -> Seq(JobSet)] /\ UsedQueues(b) # {}
      /\ CheckResourceDependencyConflicts(b)
  BY RenderJobsAssumption
<1>2. ASSUME NEW q \in Queues PROVE Len(b[q]) \in Nat /\ (q \in UsedQueues(b) <=> Len(b[q]) > 0)
  <2>1. b[q] \in Seq(JobSet) BY <1>1
  <2>2. Len(b[q]) \in Nat /\ (b[q] = <<>> <=> Len(b[q]) = 0) BY <2>1, SeqIsEmpty
  <2> QED BY <2>2 DEF UsedQueues
<1> QED BY <1>1, <1>2 DEF UsedQueues

LEMMA JobTypes ==
    ASSUME NEW b \in Bundles, NEW j \in JobsOf(b)
    PROVE  /\ j = <<j[1], j[2]>> /\ j[1] \in Queues /\ j[2] \in 1 .. Len(b[j[1]])
           /\ j[1] \in UsedQueues(b)
           /\ Job(b, j) \in JobSet
<1>1. PICK q \in Queues : j \in {q} \X DOMAIN b[q]
  BY DEF JobsOf
<1>2. b[q] \in Seq(JobSet) /\ DOMAIN b[q] = 1 .. Len(b[q]) /\ Len(b[q]) \in Nat
  BY BundleTypes, LenProperties
<1>3. j = <<j[1], j[2]>> /\ j[1] = q /\ j[2] \in 1 .. Len(b[q])
  BY <1>1, <1>2
<1>4. b[q][j[2]] \in JobSet
  BY <1>2, <1>3, ElementOfSeq
<1>5. q \in UsedQueues(b)
  BY <1>2, <1>3, BundleTypes
<1> QED BY <1>3, <1>4, <1>5 DEF Job

LEMMA JobOf ==
    ASSUME NEW b \in Bundles, NEW q \in Queues, NEW i \in 1 .. Len(b[q])
    PROVE  <<q, i>> \in JobsOf(b)
<1>1. b[q] \in Seq(JobSet) /\ DOMAIN b[q] = 1 .. Len(b[q])
  BY BundleTypes, LenProperties
<1> QED BY <1>1 DEF JobsOf

\* The last transition of a resource.
LEMMA FinalTypes ==
    ASSUME NEW job \in JobSet, NEW r \in Writes(job)
    PROVE  /\ Latest({k \in DOMAIN job.transitions : job.transitions[k].res = r})
                 \in DOMAIN job.transitions
           /\ FinalState(job, r) \in States
           /\ r \in Resources
<1> DEFINE t == job.transitions
           Js == {k \in DOMAIN t : t[k].res = r}
<1>1. t \in Seq([res : Resources, to : States])
  BY DEF JobSet
<1>2. Len(t) \in Nat /\ DOMAIN t = 1 .. Len(t)
  BY <1>1, LenProperties
<1>3. PICK k \in DOMAIN t : t[k].res = r
  BY DEF Writes
<1>4. Js # {} /\ Js \subseteq 1 .. Len(t)
  BY <1>2, <1>3
<1>5. Latest(Js) \in Js
  <2> HIDE DEF Js
  <2> QED BY <1>2, <1>4, LatestExists
<1>6. t[Latest(Js)] \in [res : Resources, to : States]
  BY <1>1, <1>2, <1>5, ElementOfSeq
<1>7. t[Latest(Js)].to \in States /\ t[Latest(Js)].res = r
  BY <1>6, <1>5
<1> QED BY <1>5, <1>6, <1>7 DEF FinalState

-----------------------------------------------------------------------------
(* What the actions do to the environments.                                  *)

LEMMA EnvironmentTypes ==
    ASSUME Types
    PROVE  /\ extracted \in Nat /\ Len(submitted) \in Nat /\ extracted <= Len(submitted)
           /\ Completed \in Nat /\ Completed <= extracted
           /\ Running \subseteq 1 .. extracted /\ Running \subseteq Nat
           /\ Envs \in [Running -> Environments]
           /\ \A id \in 1 .. Len(submitted) : submitted[id] \in Bundles
           /\ \A id \in 1 .. extracted : submitted[id] \in Bundles
<1>1. /\ extracted \in Nat /\ Len(submitted) \in Nat /\ extracted <= Len(submitted)
      /\ Len(mRunningJobQueue) \in Nat /\ Len(mRunningJobQueue) <= extracted
  BY LenProperties DEF Types
<1>2. \A id \in 1 .. Len(submitted) : submitted[id] \in Bundles
  BY ElementOfSeq DEF Types
<1>3. \A id \in Running : id - Completed \in 1 .. Len(mRunningJobQueue)
  BY <1>1 DEF Running, Completed
<1>4. \A id \in Running : mRunningJobQueue[id - Completed] \in Environments
  BY <1>3, ElementOfSeq DEF Types
<1>5. Envs \in [Running -> Environments]
  BY <1>4 DEF Envs
<1> QED BY <1>1, <1>2, <1>5 DEF Running, Completed

\* Numbers of bundles, and places in the queue of the running ones.
LEMMA PlacesOfBundles ==
    ASSUME Types
    PROVE  /\ Len(mRunningJobQueue) \in Nat /\ DOMAIN mRunningJobQueue = 1 .. Len(mRunningJobQueue)
           /\ \A id \in Running : /\ id \in Nat /\ id - Completed \in 1 .. Len(mRunningJobQueue)
                                 /\ Envs[id] = mRunningJobQueue[id - Completed]
           /\ \A e \in 1 .. Len(mRunningJobQueue) :
                 /\ e \in Nat /\ Completed + e \in Running /\ Completed + e - Completed = e
                 /\ Envs[Completed + e] = mRunningJobQueue[e]
<1>1. PICK n, c : n = Len(mRunningJobQueue) /\ c = Completed
  OBVIOUS
<1>2. /\ n \in Nat /\ c \in Nat /\ extracted = c + n /\ Running = c + 1 .. extracted
      /\ DOMAIN mRunningJobQueue = 1 .. n
  <2>1. n \in Nat /\ c \in Nat /\ extracted \in Nat /\ DOMAIN mRunningJobQueue = 1 .. n
    BY <1>1, EnvironmentTypes, LenProperties, Zenon DEF Types
  <2>2. c = extracted - n
    BY <1>1 DEF Completed
  <2> QED BY <2>1, <2>2, <1>1 DEF Running
<1>3. \A id \in Running : id \in Nat /\ id - c \in 1 .. n
  BY <1>2
<1>4. \A e \in 1 .. n : e \in Nat /\ c + e \in Running /\ c + e - c = e
  BY <1>2
<1>5. \A id \in Running : Envs[id] = mRunningJobQueue[id - c]
  BY <1>1 DEF Envs
<1>6. ASSUME NEW e \in 1 .. n PROVE Envs[c + e] = mRunningJobQueue[e]
  <2>1. PICK id : id = c + e
    OBVIOUS
  <2>2. id \in Running /\ e \in Nat
    BY <2>1, <1>4
  <2>3. id - c = e
    BY <2>1, <2>2, <1>2
  <2> QED BY <2>1, <2>2, <2>3, <1>5
<1> QED BY <1>1, <1>2, <1>3, <1>4, <1>5, <1>6

LEMMA FieldTypes ==
    ASSUME NEW e \in Environments
    PROVE  /\ e.id \in Nat /\ e.lists \in [Queues -> Seq(Nat)] /\ e.remembered \in Memory
           /\ e.recorded \in BOOLEAN /\ e.submitted \in BOOLEAN
           /\ \A q \in Queues : Len(e.lists[q]) \in Nat /\ DOMAIN e.lists[q] = 1 .. Len(e.lists[q])
           /\ \A q \in DOMAIN e.fenceValue : e.fenceValue[q] \in Nat
<1>1. e.lists \in [Queues -> Seq(Nat)]
  BY DEF Environments
<1>2. \A q \in Queues : Len(e.lists[q]) \in Nat /\ DOMAIN e.lists[q] = 1 .. Len(e.lists[q])
  BY <1>1, LenProperties
<1>3. PICK S \in SUBSET Queues : e.fenceValue \in [S -> Nat]
  BY DEF Environments
<1> QED BY <1>1, <1>2, <1>3 DEF Environments

LEMMA NoEnvironmentChanges ==
    ASSUME UNCHANGED <<extracted, mRunningJobQueue>>
    PROVE  Completed' = Completed /\ Running' = Running /\ Envs' = Envs
BY DEF Completed, Running, Envs

\* The lists for n jobs: free ones first, then new ones.
LEMMA ListsAreTaken ==
    ASSUME Types, NEW q \in Queues, NEW n \in Nat
    PROVE  /\ Len(mFree[q]) \in Nat /\ made[q] \in Nat
           /\ TakeLists(q, n) \in Seq(Nat) /\ Len(TakeLists(q, n)) = n
           /\ \A i \in 1 .. n : TakeLists(q, n)[i] =
                 IF i <= Len(mFree[q]) THEN mFree[q][i] ELSE made[q] + i - Len(mFree[q])
           /\ RestOfFree(q, n) \in Seq(Nat)
           /\ Len(RestOfFree(q, n)) = IF n < Len(mFree[q]) THEN Len(mFree[q]) - n ELSE 0
           /\ \A i \in 1 .. Len(RestOfFree(q, n)) : RestOfFree(q, n)[i] = mFree[q][n + i]
           /\ NewLists(q, n) = IF n > Len(mFree[q]) THEN n - Len(mFree[q]) ELSE 0
           /\ NewLists(q, n) \in Nat
<1>1. mFree[q] \in Seq(Nat) /\ Len(mFree[q]) \in Nat /\ made[q] \in Nat
  BY LenProperties DEF Types
<1>2. \A i \in 1 .. Len(mFree[q]) : mFree[q][i] \in Nat
  BY <1>1, ElementOfSeq
<1>3. \A i \in 1 .. n :
         (IF i <= Len(mFree[q]) THEN mFree[q][i] ELSE made[q] + i - Len(mFree[q])) \in Nat
  BY <1>1, <1>2
<1>4. TakeLists(q, n) \in [1 .. n -> Nat]
  BY <1>3 DEF TakeLists
<1>5. TakeLists(q, n) \in Seq(Nat) /\ Len(TakeLists(q, n)) = n
  BY <1>4
<1>6. \A i \in n + 1 .. Len(mFree[q]) : mFree[q][i] \in Nat
  BY <1>2
<1>7. /\ RestOfFree(q, n) \in Seq(Nat)
      /\ Len(RestOfFree(q, n)) = IF n + 1 <= Len(mFree[q]) THEN Len(mFree[q]) - (n + 1) + 1 ELSE 0
      /\ \A i \in 1 .. Len(mFree[q]) - (n + 1) + 1 : RestOfFree(q, n)[i] = mFree[q][n + 1 + i - 1]
  BY SMTT(30), <1>1, <1>6, SubSeqProperties DEF RestOfFree
<1>8. Len(RestOfFree(q, n)) = IF n < Len(mFree[q]) THEN Len(mFree[q]) - n ELSE 0
  BY <1>1, <1>7
<1>9. \A i \in 1 .. Len(RestOfFree(q, n)) : /\ i \in 1 .. Len(mFree[q]) - (n + 1) + 1
                                             /\ n + 1 + i - 1 = n + i
  BY <1>1, <1>8
<1>10. \A i \in 1 .. Len(RestOfFree(q, n)) : RestOfFree(q, n)[i] = mFree[q][n + i]
  BY <1>7, <1>9
<1>11. \A i \in 1 .. n : TakeLists(q, n)[i] =
          IF i <= Len(mFree[q]) THEN mFree[q][i] ELSE made[q] + i - Len(mFree[q])
  BY DEF TakeLists
<1>12. /\ NewLists(q, n) = IF n > Len(mFree[q]) THEN n - Len(mFree[q]) ELSE 0
       /\ NewLists(q, n) \in Nat
  BY <1>1 DEF NewLists
<1> QED BY <1>1, <1>5, <1>7, <1>8, <1>10, <1>11, <1>12

LEMMA NewEnvironment ==
    ASSUME Types, NEW id \in Nat, NEW b \in Bundles
    PROVE  LET e == CreateRenderJobExecutionEnvironment(id, b)
           IN  /\ e \in Environments
               /\ e.id = id /\ ~e.submitted /\ ~e.recorded /\ e.remembered = mCurrState
               /\ DOMAIN e.fenceValue = UsedQueues(b)
               /\ \A q \in UsedQueues(b) : e.fenceValue[q] = mNextValue[q]
               /\ \A q \in Queues : e.lists[q] = TakeLists(q, Len(b[q]))
<1> DEFINE e == CreateRenderJobExecutionEnvironment(id, b)
           Ls == [q \in Queues |-> TakeLists(q, Len(b[q]))]
           Fs == [q \in UsedQueues(b) |-> mNextValue[q]]
<1>1. Ls \in [Queues -> Seq(Nat)]
  BY BundleTypes, ListsAreTaken
<1>2. Fs \in [UsedQueues(b) -> Nat] /\ UsedQueues(b) \in SUBSET Queues
  BY BundleTypes DEF Types
<1>3. Fs \in UNION {[S -> Nat] : S \in SUBSET Queues}
  BY <1>2
<1>4. mCurrState \in Memory
  BY DEF Types
<1>5. e = [id |-> id, lists |-> Ls, fenceValue |-> Fs, remembered |-> mCurrState,
           recorded |-> FALSE, submitted |-> FALSE]
  BY DEF CreateRenderJobExecutionEnvironment
<1> HIDE DEF e, Ls, Fs
<1>6. e \in Environments
  BY <1>1, <1>3, <1>4, <1>5 DEF Environments
<1>7. /\ e.id = id /\ ~e.submitted /\ ~e.recorded /\ e.remembered = mCurrState
      /\ e.fenceValue = Fs /\ e.lists = Ls
  BY <1>5
<1> QED BY <1>6, <1>7 DEF Fs, Ls, e

\* The bundle behind the running ones gets an environment.
LEMMA EnvironmentIsAdded ==
    ASSUME Types, ExtractBundle
    PROVE  /\ extracted + 1 \in 1 .. Len(submitted)
           /\ Completed' = Completed /\ extracted' = extracted + 1
           /\ Running' = Running \cup {extracted + 1} /\ extracted + 1 \notin Running
           /\ \A id \in Running : Envs'[id] = Envs[id]
           /\ Envs'[extracted + 1] =
                 CreateRenderJobExecutionEnvironment(extracted + 1, submitted[extracted + 1])
           /\ mRunningJobQueue' \in Seq(Environments)
           /\ Len(mRunningJobQueue') <= extracted'
<1> DEFINE n == extracted + 1
           e == CreateRenderJobExecutionEnvironment(n, submitted[n])
<1>1. n \in 1 .. Len(submitted) /\ n \in Nat /\ submitted[n] \in Bundles /\ extracted \in Nat
  BY EnvironmentTypes DEF ExtractBundle
<1>2. e \in Environments
  BY <1>1, NewEnvironment
<1>3. /\ mRunningJobQueue \in Seq(Environments) /\ Len(mRunningJobQueue) \in Nat
      /\ Len(mRunningJobQueue) <= extracted
  BY LenProperties DEF Types
<1>4. mRunningJobQueue' = Append(mRunningJobQueue, e) /\ extracted' = n
  BY DEF ExtractBundle
<1> HIDE DEF e
<1>5. /\ mRunningJobQueue' \in Seq(Environments)
      /\ Len(mRunningJobQueue') = Len(mRunningJobQueue) + 1
      /\ \A i \in 1 .. Len(mRunningJobQueue) : mRunningJobQueue'[i] = mRunningJobQueue[i]
      /\ mRunningJobQueue'[Len(mRunningJobQueue) + 1] = e
  BY <1>2, <1>3, <1>4, AppendProperties
<1>6. Completed' = Completed /\ Completed \in Nat
  BY <1>1, <1>3, <1>4, <1>5 DEF Completed
<1>7. Running' = Running \cup {n} /\ n \notin Running
  BY <1>1, <1>3, <1>4, <1>6 DEF Running, Completed
<1>8. ASSUME NEW id \in Running PROVE Envs'[id] = Envs[id]
  <2>1. id - Completed \in 1 .. Len(mRunningJobQueue)
    BY <1>1, <1>3 DEF Running, Completed
  <2>2. Envs'[id] = mRunningJobQueue'[id - Completed]
    BY <1>6, <1>7 DEF Envs
  <2> QED BY <2>1, <2>2, <1>5 DEF Envs
<1>9. Envs'[n] = e
  <2>1. Envs'[n] = mRunningJobQueue'[n - Completed]
    BY <1>6, <1>7 DEF Envs
  <2>2. n - Completed = Len(mRunningJobQueue) + 1
    BY <1>1, <1>3 DEF Completed
  <2> QED BY <2>1, <2>2, <1>5
<1> QED BY <1>1, <1>3, <1>4, <1>5, <1>6, <1>7, <1>8, <1>9 DEF e

\* The oldest bundle leaves.
LEMMA EnvironmentIsRemoved ==
    ASSUME Types, CompleteOldest
    PROVE  /\ Completed + 1 \in Running /\ Head(mRunningJobQueue) = Envs[Completed + 1]
           /\ Completed' = Completed + 1 /\ extracted' = extracted
           /\ Running' = Running \ {Completed + 1}
           /\ \A id \in Running' : Envs'[id] = Envs[id]
           /\ mRunningJobQueue' \in Seq(Environments)
           /\ Len(mRunningJobQueue') <= extracted'
<1>1. /\ mRunningJobQueue \in Seq(Environments) /\ Len(mRunningJobQueue) \in Nat
      /\ mRunningJobQueue # <<>> /\ extracted \in Nat /\ Len(mRunningJobQueue) <= extracted
  BY EnvironmentTypes, LenProperties DEF Types, CompleteOldest
<1>2. Len(mRunningJobQueue) > 0
  BY <1>1, SeqIsEmpty
<1>3. mRunningJobQueue' = Tail(mRunningJobQueue) /\ extracted' = extracted
  BY DEF CompleteOldest
<1>4. /\ mRunningJobQueue' \in Seq(Environments)
      /\ Len(mRunningJobQueue') = Len(mRunningJobQueue) - 1
      /\ \A i \in 1 .. Len(mRunningJobQueue) - 1 : mRunningJobQueue'[i] = mRunningJobQueue[i + 1]
  BY <1>1, <1>3, HeadTailProperties
<1>5. Completed' = Completed + 1 /\ Completed \in Nat
  BY <1>1, <1>3, <1>4 DEF Completed
<1>6. Completed + 1 \in Running /\ Running' = Running \ {Completed + 1}
  BY <1>1, <1>2, <1>3, <1>5 DEF Running, Completed
<1>7. Head(mRunningJobQueue) = Envs[Completed + 1]
  <2>1. \A id \in Running : Envs[id] = mRunningJobQueue[id - Completed]
    BY DEF Envs
  <2>2. Completed + 1 - Completed = 1
    BY <1>5
  <2>3. Head(mRunningJobQueue) = mRunningJobQueue[1]
    BY <1>1
  <2> QED BY <2>1, <2>2, <2>3, <1>5, <1>6
<1>8. ASSUME NEW id \in Running' PROVE Envs'[id] = Envs[id]
  <2>1. /\ id \in Running /\ id - Completed' \in 1 .. Len(mRunningJobQueue) - 1
        /\ id - Completed' + 1 = id - Completed
    BY <1>1, <1>2, <1>5, <1>6 DEF Running, Completed
  <2>2. Envs'[id] = mRunningJobQueue'[id - Completed'] /\ Envs[id] = mRunningJobQueue[id - Completed]
    BY <2>1 DEF Envs
  <2> QED BY <2>1, <2>2, <1>4
<1> QED BY <1>1, <1>3, <1>4, <1>5, <1>6, <1>7, <1>8

\* An environment is marked.
LEMMA EnvironmentIsMarked ==
    ASSUME Types, NEW e \in 1 .. Len(mRunningJobQueue), NEW x \in Environments,
           mRunningJobQueue' = [mRunningJobQueue EXCEPT ![e] = x], extracted' = extracted
    PROVE  /\ Completed + e \in Running /\ Envs[Completed + e] = mRunningJobQueue[e]
           /\ Completed' = Completed /\ Running' = Running
           /\ Envs'[Completed + e] = x
           /\ \A id \in Running \ {Completed + e} : Envs'[id] = Envs[id]
           /\ mRunningJobQueue' \in Seq(Environments)
           /\ Len(mRunningJobQueue') <= extracted'
<1>1. /\ mRunningJobQueue \in Seq(Environments) /\ Len(mRunningJobQueue) \in Nat
      /\ extracted \in Nat /\ Len(mRunningJobQueue) <= extracted
  BY EnvironmentTypes, LenProperties DEF Types
<1>2. /\ mRunningJobQueue' \in Seq(Environments)
      /\ Len(mRunningJobQueue') = Len(mRunningJobQueue)
      /\ \A i \in 1 .. Len(mRunningJobQueue) :
            mRunningJobQueue'[i] = IF i = e THEN x ELSE mRunningJobQueue[i]
  BY <1>1, ExceptSeq
<1>3. Completed' = Completed /\ Running' = Running /\ Completed \in Nat
  BY <1>1, <1>2 DEF Completed, Running
<1>4. Completed + e \in Running /\ Completed + e - Completed = e
  BY <1>1, <1>3 DEF Completed, Running
<1>5. ASSUME NEW id \in Running
      PROVE  /\ id - Completed \in 1 .. Len(mRunningJobQueue)
             /\ id - Completed = e <=> id = Completed + e
  BY <1>1, <1>3 DEF Completed, Running
<1>6. ASSUME NEW id \in Running
      PROVE  Envs[id] = mRunningJobQueue[id - Completed] /\ Envs'[id] = mRunningJobQueue'[id - Completed]
  BY <1>3 DEF Envs
<1> QED BY <1>1, <1>2, <1>3, <1>4, <1>5, <1>6

\* Apart from the two flags environments do not change.
SameCommands(x, y) ==
    x.id = y.id /\ x.lists = y.lists /\ x.fenceValue = y.fenceValue /\ x.remembered = y.remembered

LEMMA FlagsAreSet ==
    ASSUME NEW x \in Environments
    PROVE  /\ [x EXCEPT !.submitted = TRUE] \in Environments
           /\ SameCommands([x EXCEPT !.submitted = TRUE], x)
           /\ [x EXCEPT !.submitted = TRUE].submitted
           /\ [x EXCEPT !.submitted = TRUE].recorded = x.recorded
           /\ [x EXCEPT !.recorded = TRUE] \in Environments
           /\ SameCommands([x EXCEPT !.recorded = TRUE], x)
           /\ [x EXCEPT !.recorded = TRUE].recorded
           /\ [x EXCEPT !.recorded = TRUE].submitted = x.submitted
BY DEF Environments, SameCommands

\* The oldest bundle that is not submitted, n, is submitted.
LEMMA EnvironmentIsSubmitted ==
    ASSUME Types, NEW e \in DOMAIN mRunningJobQueue, SubmitCommandLists(e),
           NEW n, n = Completed + e
    PROVE  /\ n \in Running /\ ~Envs[n].submitted /\ Envs[n].recorded
           /\ mRunningJobQueue[e] = Envs[n]
           /\ \A id \in Running : ~Envs[id].submitted => n <= id
           /\ Completed' = Completed /\ extracted' = extracted /\ Running' = Running
           /\ \A id \in Running :
                 /\ SameCommands(Envs'[id], Envs[id]) /\ Envs'[id].recorded = Envs[id].recorded
                 /\ Envs'[id].submitted <=> id = n \/ Envs[id].submitted
           /\ mRunningJobQueue' \in Seq(Environments)
           /\ Len(mRunningJobQueue') <= extracted'
<1> DEFINE x == mRunningJobQueue[e]
           y == [x EXCEPT !.submitted = TRUE]
<1>1. e \in 1 .. Len(mRunningJobQueue) /\ mRunningJobQueue \in Seq(Environments)
  BY LenProperties DEF Types
<1>2. x \in Environments
  BY <1>1, ElementOfSeq
<1>3. /\ y \in Environments /\ SameCommands(y, x) /\ y.submitted /\ y.recorded = x.recorded
  BY <1>2, FlagsAreSet
<1>4. mRunningJobQueue' = [mRunningJobQueue EXCEPT ![e] = y] /\ extracted' = extracted
  BY DEF SubmitCommandLists
<1> HIDE DEF y
<1>5. /\ n \in Running /\ Envs[n] = x /\ Completed' = Completed /\ Running' = Running
      /\ Envs'[n] = y
      /\ \A id \in Running \ {n} : Envs'[id] = Envs[id]
      /\ mRunningJobQueue' \in Seq(Environments) /\ Len(mRunningJobQueue') <= extracted'
  BY <1>1, <1>3, <1>4, EnvironmentIsMarked
<1>6. ~Envs[n].submitted /\ Envs[n].recorded
  BY <1>5 DEF SubmitCommandLists, Unsubmitted, CanSubmit
<1>7. ASSUME NEW id \in Running, ~Envs[id].submitted PROVE n <= id
  <2>1. /\ Completed \in Nat /\ id - Completed \in 1 .. Len(mRunningJobQueue) /\ id \in Nat
        /\ Len(mRunningJobQueue) \in Nat
    BY EnvironmentTypes, PlacesOfBundles
  <2>2. Envs[id] = mRunningJobQueue[id - Completed]
    BY PlacesOfBundles
  <2>3. id - Completed \in Unsubmitted
    BY <2>1, <2>2, <1>1, <1>7, LenProperties DEF Unsubmitted
  <2>4. e <= id - Completed
    BY <2>3 DEF SubmitCommandLists, CanSubmit
  <2> QED BY <2>1, <2>4, <1>1
<1>8. ASSUME NEW id \in Running
      PROVE  /\ SameCommands(Envs'[id], Envs[id]) /\ Envs'[id].recorded = Envs[id].recorded
             /\ Envs'[id].submitted <=> id = n \/ Envs[id].submitted
  <2>1. CASE id = n
    BY <2>1, <1>3, <1>5
  <2>2. CASE id # n
    <3>1. Envs'[id] = Envs[id]
      BY <2>2, <1>5
    <3> QED BY <3>1, <2>2 DEF SameCommands
  <2> QED BY <2>1, <2>2
<1> QED BY <1>4, <1>5, <1>6, <1>7, <1>8

LEMMA EnvironmentOf ==
    ASSUME Types, BundlesAreInOrder, NEW id \in Running
    PROVE  /\ Environment(id) \in DOMAIN mRunningJobQueue
           /\ Completed + Environment(id) = id
           /\ mRunningJobQueue[Environment(id)] = Envs[id]
<1>1. PICK e : e = Environment(id)
  OBVIOUS
<1>2. /\ id - Completed \in DOMAIN mRunningJobQueue
      /\ mRunningJobQueue[id - Completed].id = id
  BY PlacesOfBundles DEF BundlesAreInOrder
<1>3. e \in DOMAIN mRunningJobQueue /\ mRunningJobQueue[e].id = id
  BY <1>1, <1>2, Zenon DEF Environment
<1>4. Completed + e = id
  <2>1. PICK jd : jd = Completed + e
    OBVIOUS
  <2>2. jd \in Running /\ Envs[jd] = mRunningJobQueue[e]
    BY <2>1, <1>3, PlacesOfBundles
  <2> QED BY <2>1, <2>2, <1>3 DEF BundlesAreInOrder
<1> QED BY <1>1, <1>3, <1>4, PlacesOfBundles

\* A bundle is recorded.
LEMMA EnvironmentIsRecorded ==
    ASSUME Types, BundlesAreInOrder, NEW id, EndRecording(id)
    PROVE  /\ Completed' = Completed /\ extracted' = extracted /\ Running' = Running
           /\ \A jd \in Running :
                 /\ SameCommands(Envs'[jd], Envs[jd]) /\ Envs'[jd].submitted = Envs[jd].submitted
                 /\ id \in Running => (Envs'[jd].recorded <=> jd = id \/ Envs[jd].recorded)
           /\ mRunningJobQueue' \in Seq(Environments)
           /\ Len(mRunningJobQueue') <= extracted'
<1> DEFINE e == Environment(id)
           x == mRunningJobQueue[e]
           y == [x EXCEPT !.recorded = TRUE]
<1>1. /\ mRunningJobQueue \in Seq(Environments) /\ Len(mRunningJobQueue) \in Nat
      /\ DOMAIN mRunningJobQueue = 1 .. Len(mRunningJobQueue)
      /\ Completed \in Nat /\ Running \subseteq Nat /\ Len(mRunningJobQueue) <= extracted
  BY LenProperties, EnvironmentTypes DEF Types
<1>2. mRunningJobQueue' = [mRunningJobQueue EXCEPT ![e] = y] /\ extracted' = extracted
  BY DEF EndRecording
<1>3. id \in Running => e \in 1 .. Len(mRunningJobQueue) /\ Completed + e = id
  BY <1>1, EnvironmentOf
<1> HIDE DEF e
<1>4. CASE e \in 1 .. Len(mRunningJobQueue)
  <2>1. x \in Environments
    BY <1>1, <1>4, ElementOfSeq
  <2>2. y \in Environments /\ SameCommands(y, x) /\ y.recorded /\ y.submitted = x.submitted
    BY <2>1, FlagsAreSet
  <2> HIDE DEF y
  <2>3. PICK n : n = Completed + e
    OBVIOUS
  <2>4. /\ n \in Running /\ Envs[n] = x /\ Completed' = Completed /\ Running' = Running
        /\ Envs'[n] = y
        /\ \A jd \in Running \ {n} : Envs'[jd] = Envs[jd]
        /\ mRunningJobQueue' \in Seq(Environments) /\ Len(mRunningJobQueue') <= extracted'
    BY <1>2, <1>4, <2>2, <2>3, EnvironmentIsMarked
  <2>5. id \in Running => n = id
    BY <1>3, <2>3
  <2>6. ASSUME NEW jd \in Running
        PROVE  /\ SameCommands(Envs'[jd], Envs[jd]) /\ Envs'[jd].submitted = Envs[jd].submitted
               /\ id \in Running => (Envs'[jd].recorded <=> jd = id \/ Envs[jd].recorded)
    <3>1. CASE jd = n
      BY <3>1, <2>2, <2>4, <2>5
    <3>2. CASE jd # n
      <4>1. Envs'[jd] = Envs[jd]
        BY <3>2, <2>4
      <4> QED BY <4>1, <3>2, <2>5 DEF SameCommands
    <3> QED BY <3>1, <3>2
  <2> QED BY <1>2, <2>4, <2>6
<1>5. CASE e \notin 1 .. Len(mRunningJobQueue)
  <2>1. mRunningJobQueue' = mRunningJobQueue
    <3>1. e \notin DOMAIN mRunningJobQueue
      BY <1>1, <1>5
    <3>2. \A k \in DOMAIN mRunningJobQueue : mRunningJobQueue'[k] = mRunningJobQueue[k]
      BY <1>2, <3>1
    <3> HIDE DEF y
    <3>3. DOMAIN mRunningJobQueue' = DOMAIN mRunningJobQueue
      BY <1>2
    <3>4. mRunningJobQueue' = [k \in DOMAIN mRunningJobQueue |-> mRunningJobQueue'[k]]
      BY <1>2
    <3>5. mRunningJobQueue = [k \in DOMAIN mRunningJobQueue |-> mRunningJobQueue[k]]
      BY <1>1
    <3> QED BY <3>2, <3>3, <3>4, <3>5
  <2>2. Completed' = Completed /\ Running' = Running /\ Envs' = Envs
    BY <1>2, <2>1, NoEnvironmentChanges
  <2>3. id \notin Running
    BY <1>3, <1>5
  <2> QED BY <1>1, <1>2, <2>1, <2>2, <2>3 DEF SameCommands
<1> QED BY <1>4, <1>5

-----------------------------------------------------------------------------
(* Steps that leave the fences and the lists alone.                          *)

LEMMA ValuesAndListsStay ==
    ASSUME ValuesIncrease, ListsAreRight, Running' = Running,
           \A id \in Running : submitted'[id] = submitted[id] /\ SameCommands(Envs'[id], Envs[id]),
           \A q \in Queues : gpuFence'[q] < mNextValue'[q],
           UNCHANGED <<mFree, made, mNextValue>>
    PROVE  ValuesIncrease' /\ ListsAreRight'
<1>1. ValuesIncrease'
  BY DEF ValuesIncrease, Uses, SameCommands
<1>2. ListsAreRight'
  <2>1. \A id \in Running : Envs'[id].lists = Envs[id].lists
    BY DEF SameCommands
  <2>2. ASSUME NEW q \in Queues
        PROVE  /\ \A i \in 1 .. Len(mFree'[q]) : mFree'[q][i] \in 1 .. made'[q]
               /\ \A i, j \in 1 .. Len(mFree'[q]) : mFree'[q][i] = mFree'[q][j] => i = j
    BY DEF ListsAreRight
  <2>3. ASSUME NEW q \in Queues, NEW id \in Running'
        PROVE  /\ Len(Envs'[id].lists[q]) = Len(submitted'[id][q])
               /\ \A i \in 1 .. Len(Envs'[id].lists[q]) :
                     /\ Envs'[id].lists[q][i] \in 1 .. made'[q]
                     /\ \A j \in 1 .. Len(mFree'[q]) : Envs'[id].lists[q][i] # mFree'[q][j]
    BY <2>1 DEF ListsAreRight
  <2>4. ASSUME NEW q \in Queues, NEW id \in Running', NEW jd \in Running',
               NEW i \in 1 .. Len(Envs'[id].lists[q]), NEW j \in 1 .. Len(Envs'[jd].lists[q]),
               Envs'[id].lists[q][i] = Envs'[jd].lists[q][j]
        PROVE  id = jd /\ i = j
    <3>1. /\ i \in 1 .. Len(Envs[id].lists[q]) /\ j \in 1 .. Len(Envs[jd].lists[q])
          /\ Envs[id].lists[q][i] = Envs[jd].lists[q][j]
      BY <2>1, <2>4
    <3> QED BY <3>1 DEF ListsAreRight
  <2> QED BY <2>2, <2>3, <2>4 DEF ListsAreRight
<1> QED BY <1>1, <1>2

LEMMA FencesStay ==
    ASSUME FenceInv, Types',
           extracted' = extracted, Completed' = Completed, Running' = Running,
           \A id \in 1 .. extracted : submitted'[id] = submitted[id],
           \A id \in Running : /\ SameCommands(Envs'[id], Envs[id])
                               /\ Envs'[id].submitted = Envs[id].submitted,
           UNCHANGED <<mFree, made, mNextValue, completed, gpuQueue, gpuFence, executed>>
    PROVE  FenceInv'
<1>1. /\ Types /\ BundlesAreInOrder /\ ValuesIncrease /\ QueuesAreInOrder
      /\ HeadIsExecuted /\ FencesAreRight /\ ListsAreRight /\ CompletedMeansExecuted
  BY DEF FenceInv
<1>2. /\ Running \subseteq 1 .. extracted /\ Completed \in Nat /\ extracted \in Nat
      /\ Completed <= extracted
  BY <1>1, EnvironmentTypes
<1>3. \A id \in Running : submitted'[id] = submitted[id]
  BY <1>2
<1>4. BundlesAreInOrder'
  BY <1>1 DEF BundlesAreInOrder, SameCommands
<1>5. ValuesIncrease' /\ ListsAreRight'
  <2>1. \A q \in Queues : gpuFence'[q] < mNextValue'[q]
    BY <1>1 DEF ValuesIncrease
  <2> QED BY <2>1, <1>1, <1>3, ValuesAndListsStay
<1>6. QueuesAreInOrder'
  <2>1. \A q, m : (IsLists(q, m) <=> IsLists(q, m)') /\ (IsSignal(q, m) <=> IsSignal(q, m)')
    BY DEF IsLists, IsSignal
  <2>2. ASSUME NEW q, NEW m, NEW id, AreListsOf(q, m, id) PROVE AreListsOf(q, m, id)'
    BY <2>1, <2>2, <1>3 DEF AreListsOf, Uses, SameCommands
  <2> QED BY <1>1, <2>1, <2>2 DEF QueuesAreInOrder
<1>7. HeadIsExecuted'
  BY <1>1, <1>3 DEF HeadIsExecuted, IsSignal, Uses, SameCommands
<1>8. FencesAreRight'
  BY <1>1, <1>3 DEF FencesAreRight, IsSignalled, IsQueued, IsAhead, IsSignal, Uses, SameCommands
<1>9. CompletedMeansExecuted'
  <2>1. \A id \in completed : submitted'[id] = submitted[id]
    BY <1>1, <1>2 DEF BundlesAreInOrder
  <2> QED BY <2>1, <1>1 DEF CompletedMeansExecuted
<1> QED BY <1>4, <1>5, <1>6, <1>7, <1>8, <1>9 DEF FenceInv

LEMMA SubmitKeepsFences ==
    ASSUME FenceInv, NEW b \in Bundles, SubmitRenderJobBundle(b)
    PROVE  FenceInv'
<1>1. Types /\ extracted \in Nat /\ Len(submitted) \in Nat /\ extracted <= Len(submitted)
  BY EnvironmentTypes DEF FenceInv
<1>2. /\ submitted' \in Seq(Bundles) /\ Len(submitted') = Len(submitted) + 1
      /\ \A id \in 1 .. Len(submitted) : submitted'[id] = submitted[id]
  BY <1>1, AppendProperties DEF SubmitRenderJobBundle, Types
<1>3. Completed' = Completed /\ Running' = Running /\ Envs' = Envs
  BY NoEnvironmentChanges DEF SubmitRenderJobBundle, engine
<1>4. UNCHANGED <<extracted, mRunningJobQueue, mFree, made, mNextValue, mCurrState, completed,
                  gpuQueue, gpuFence, executed>>
  BY DEF SubmitRenderJobBundle, engine, gpu
<1>5. Types'
  BY <1>1, <1>2, <1>4 DEF Types
<1>6. \A id \in 1 .. extracted : submitted'[id] = submitted[id]
  BY <1>1, <1>2
<1> QED BY <1>3, <1>4, <1>5, <1>6, FencesStay DEF SameCommands

\* What is executed on top of waits, and on the idle master render thread.
JobsWait ==
    \/ TryExecuteJob \/ ReturnToLoop \/ PushBackFails
    \/ \E stack \in stacks : \E id \in Ids : WaitForEventCompletion(stack, id)
    \/ \E stack \in stacks : \E id \in completed : EventIsCompleted(stack, id)

LEMMA WaitsChangeNothing ==
    ASSUME JobsWait
    PROVE  UNCHANGED <<submitted, extracted, recordings, commands, engine, gpu>>
BY DEF JobsWait, TryExecuteJob, ReturnToLoop, PushBackFails, WaitForEventCompletion, EventIsCompleted

LEMMA OthersKeepFences ==
    ASSUME FenceInv,
           \/ BeginUpdate \/ EndSubmission \/ EndUpdate \/ JobsWait
           \/ \E id \in DOMAIN recordings : BeginRecording(id)
           \/ \E id \in DOMAIN recordings : \E j \in JobsOf(submitted[id]) : RecordCommands(id, j)
           \/ UNCHANGED vars
    PROVE  FenceInv'
<1>1. UNCHANGED <<submitted, engine, gpu, extracted>>
  BY WaitsChangeNothing DEF BeginUpdate, EndSubmission, EndUpdate, BeginRecording, RecordCommands, vars
<1>2. UNCHANGED <<submitted, extracted, mRunningJobQueue, mFree, made, mNextValue, mCurrState,
                  completed, gpuQueue, gpuFence, executed>>
  BY <1>1 DEF engine, gpu
<1>3. Completed' = Completed /\ Running' = Running /\ Envs' = Envs
  BY <1>2, NoEnvironmentChanges
<1>4. Types'
  BY <1>2 DEF FenceInv, Types
<1> QED BY <1>2, <1>3, <1>4, FencesStay DEF SameCommands

LEMMA EndRecordingKeepsFences ==
    ASSUME FenceInv, NEW id, EndRecording(id)
    PROVE  FenceInv'
<1>1. Types /\ BundlesAreInOrder
  BY DEF FenceInv
<1>2. /\ Completed' = Completed /\ extracted' = extracted /\ Running' = Running
      /\ \A jd \in Running : /\ SameCommands(Envs'[jd], Envs[jd])
                             /\ Envs'[jd].submitted = Envs[jd].submitted
      /\ mRunningJobQueue' \in Seq(Environments) /\ Len(mRunningJobQueue') <= extracted'
  BY <1>1, EnvironmentIsRecorded
<1>3. UNCHANGED <<submitted, extracted, mFree, made, mNextValue, mCurrState, completed,
                  gpuQueue, gpuFence, executed>>
  BY DEF EndRecording, gpu
<1>4. Types'
  BY <1>1, <1>2, <1>3 DEF Types
<1> QED BY <1>2, <1>3, <1>4, FencesStay

-----------------------------------------------------------------------------
(* The master render thread takes a bundle.                                  *)

LEMMA TransitionsAreInitialized ==
    ASSUME NEW b \in Bundles, mCurrState \in Memory
    PROVE  InitializeResourceTransitions(b) \in Memory
<1> DEFINE writers(r) == {j \in JobsOf(b) : r \in Writes(Job(b, j))}
<1>1. ASSUME NEW r \in Resources, writers(r) # {}
      PROVE  FinalState(Job(b, CHOOSE j \in writers(r) : TRUE), r) \in States
  <2>1. PICK j : j = CHOOSE i \in writers(r) : TRUE
    OBVIOUS
  <2>2. j \in writers(r)
    <3> HIDE DEF writers
    <3> QED BY <2>1, <1>1, Zenon
  <2>3. j \in JobsOf(b) /\ r \in Writes(Job(b, j))
    BY <2>2
  <2>4. FinalState(Job(b, j), r) \in States
    BY <2>3, JobTypes, FinalTypes
  <2> QED BY <2>1, <2>4
<1>2. ASSUME NEW r \in Resources
      PROVE  (IF writers(r) = {} THEN mCurrState[r] ELSE IF r \in Decays THEN COMMON
              ELSE FinalState(Job(b, CHOOSE j \in writers(r) : TRUE), r)) \in States \cup {COMMON}
  <2>1. mCurrState[r] \in States \cup {COMMON}
    BY DEF Memory
  <2> HIDE DEF writers
  <2> QED BY <1>1, <2>1
<1>3. InitializeResourceTransitions(b) =
        [r \in Resources |-> IF writers(r) = {} THEN mCurrState[r] ELSE IF r \in Decays THEN COMMON
                             ELSE FinalState(Job(b, CHOOSE j \in writers(r) : TRUE), r)]
  BY DEF InitializeResourceTransitions
<1> HIDE DEF writers
<1> QED BY <1>2, <1>3 DEF Memory

LEMMA ExtractKeepsFences ==
    ASSUME FenceInv, ExtractBundle
    PROVE  FenceInv'
<1>1. PICK n : n = extracted + 1
  OBVIOUS
<1>2. PICK b : b = submitted[n]
  OBVIOUS
<1>3. /\ Types /\ BundlesAreInOrder /\ ValuesIncrease /\ QueuesAreInOrder
      /\ HeadIsExecuted /\ FencesAreRight /\ ListsAreRight /\ CompletedMeansExecuted
  BY DEF FenceInv
<1>4. /\ n \in 1 .. Len(submitted) /\ Completed' = Completed /\ extracted' = n
      /\ Running' = Running \cup {n} /\ n \notin Running
      /\ \A id \in Running : Envs'[id] = Envs[id]
      /\ Envs'[n] = CreateRenderJobExecutionEnvironment(n, b)
      /\ mRunningJobQueue' \in Seq(Environments) /\ Len(mRunningJobQueue') <= extracted'
  BY <1>3, <1>1, <1>2, EnvironmentIsAdded
<1>5. /\ extracted \in Nat /\ n \in Nat /\ Completed \in Nat /\ Completed <= extracted
      /\ Running \subseteq 1 .. extracted
      /\ \A id \in 1 .. Len(submitted) : submitted[id] \in Bundles
      /\ Envs \in [Running -> Environments]
  BY <1>3, <1>1, EnvironmentTypes
<1>6. b \in Bundles
  BY <1>2, <1>4, <1>5
<1>7. /\ Envs'[n] \in Environments
      /\ Envs'[n].id = n /\ ~Envs'[n].submitted /\ ~Envs'[n].recorded
      /\ Envs'[n].remembered = mCurrState
      /\ DOMAIN Envs'[n].fenceValue = UsedQueues(b)
      /\ \A q \in UsedQueues(b) : Envs'[n].fenceValue[q] = mNextValue[q]
      /\ \A q \in Queues : Envs'[n].lists[q] = TakeLists(q, Len(b[q]))
  BY <1>3, <1>4, <1>5, <1>6, NewEnvironment
<1>8. UNCHANGED <<submitted, completed, gpuQueue, gpuFence, executed>>
  BY DEF ExtractBundle, gpu
<1>9. /\ mFree' = [q \in Queues |-> RestOfFree(q, Len(b[q]))]
      /\ made' = [q \in Queues |-> made[q] + NewLists(q, Len(b[q]))]
      /\ mNextValue' = [q \in Queues |-> mNextValue[q] + IF q \in UsedQueues(b) THEN 1 ELSE 0]
      /\ mCurrState' = InitializeResourceTransitions(b)
  BY <1>1, <1>2 DEF ExtractBundle
<1>10. \A q \in Queues : /\ mNextValue[q] \in Nat /\ mNextValue'[q] \in Nat
                         /\ mNextValue[q] <= mNextValue'[q]
                         /\ q \in UsedQueues(b) => mNextValue[q] < mNextValue'[q]
  BY <1>3, <1>9 DEF Types
<1>11. ASSUME NEW q \in Queues, NEW id \in Running
       PROVE  Uses(id, q) => Envs[id].fenceValue[q] \in Nat
  BY <1>3, <1>5, FieldTypes DEF ValuesIncrease, Uses
<1>12. \A q \in Queues : gpuFence[q] \in Nat /\ gpuQueue[q] \in Seq(Entries)
  BY <1>3 DEF Types
<1>13. ASSUME NEW q \in Queues, NEW m \in 1 .. Len(gpuQueue[q]), IsSignal(q, m)
       PROVE  gpuQueue[q][m].value \in Nat
  <2>1. gpuQueue[q][m] \in Entries
    BY <1>12, ElementOfSeq
  <2> QED BY <2>1, <1>13 DEF Entries, IsSignal
<1>14. Types'
  <2>1. ASSUME NEW q \in Queues PROVE Len(b[q]) \in Nat /\ mFree'[q] \in Seq(Nat) /\ made'[q] \in Nat
    <3>1. Len(b[q]) \in Nat
      BY <1>6, BundleTypes
    <3>2. RestOfFree(q, Len(b[q])) \in Seq(Nat) /\ NewLists(q, Len(b[q])) \in Nat /\ made[q] \in Nat
      BY <1>3, <3>1, ListsAreTaken
    <3> QED BY <1>9, <3>1, <3>2
  <2>2. mFree' \in [Queues -> Seq(Nat)] /\ made' \in [Queues -> Nat]
    BY <2>1, <1>9
  <2>3. mNextValue' \in [Queues -> Nat]
    BY <1>9, <1>10
  <2>4. mCurrState' \in Memory
    BY <1>3, <1>6, <1>9, TransitionsAreInitialized DEF Types
  <2>5. extracted' \in 0 .. Len(submitted)
    BY <1>4, <1>5
  <2> QED BY <1>3, <1>4, <1>8, <2>2, <2>3, <2>4, <2>5 DEF Types
<1>15. BundlesAreInOrder'
  <2>1. executed \subseteq (1 .. n) \X Queues
    <3>1. 1 .. extracted \subseteq 1 .. n
      BY <1>5, <1>1
    <3> QED BY <3>1, <1>3 DEF BundlesAreInOrder
  <2> QED BY <2>1, <1>3, <1>4, <1>7, <1>8 DEF BundlesAreInOrder
<1>16. ValuesIncrease'
  <2>1. ASSUME NEW id \in Running' PROVE DOMAIN Envs'[id].fenceValue = UsedQueues(submitted'[id])
    BY <1>3, <1>4, <1>7, <1>8, <1>1, <1>2 DEF ValuesIncrease
  <2>2. ASSUME NEW q \in Queues PROVE gpuFence'[q] < mNextValue'[q]
    BY <1>3, <1>8, <1>10, <1>12 DEF ValuesIncrease
  <2>3. ASSUME NEW q \in Queues, NEW id \in Running', q \in UsedQueues(submitted'[id])
        PROVE  Envs'[id].fenceValue[q] < mNextValue'[q]
    <3>1. CASE id = n
      BY <3>1, <2>3, <1>7, <1>8, <1>10, <1>1, <1>2
    <3>2. CASE id # n
      <4>1. id \in Running /\ Envs'[id] = Envs[id] /\ Uses(id, q)
        BY <3>2, <2>3, <1>4, <1>8 DEF Uses
      <4>2. Envs[id].fenceValue[q] < mNextValue[q] /\ Envs[id].fenceValue[q] \in Nat
        BY <4>1, <1>3, <1>11 DEF ValuesIncrease
      <4> QED BY <4>1, <4>2, <1>10
    <3> QED BY <3>1, <3>2
  <2>4. ASSUME NEW q \in Queues, NEW id \in Running', NEW jd \in Running', id < jd,
               q \in UsedQueues(submitted'[id]), q \in UsedQueues(submitted'[jd])
        PROVE  Envs'[id].fenceValue[q] < Envs'[jd].fenceValue[q]
    <3>1. id \in Running /\ Envs'[id] = Envs[id] /\ Uses(id, q)
      BY <2>4, <1>4, <1>5, <1>8, <1>1 DEF Uses
    <3>2. CASE jd = n
      <4>1. Envs'[jd].fenceValue[q] = mNextValue[q]
        BY <3>2, <2>4, <1>7, <1>8, <1>1, <1>2
      <4> QED BY <4>1, <3>1, <1>3 DEF ValuesIncrease
    <3>3. CASE jd # n
      <4>1. jd \in Running /\ Envs'[jd] = Envs[jd] /\ Uses(jd, q)
        BY <3>3, <2>4, <1>4, <1>8 DEF Uses
      <4> QED BY <4>1, <3>1, <2>4, <1>3 DEF ValuesIncrease
    <3> QED BY <3>2, <3>3
  <2> QED BY <2>1, <2>2, <2>3, <2>4 DEF ValuesIncrease, Uses
<1>17. QueuesAreInOrder'
  <2>1. \A q, m : (IsLists(q, m) <=> IsLists(q, m)') /\ (IsSignal(q, m) <=> IsSignal(q, m)')
    BY <1>8 DEF IsLists, IsSignal
  <2>2. ASSUME NEW q, NEW m, NEW id, AreListsOf(q, m, id) PROVE AreListsOf(q, m, id)'
    BY <2>1, <2>2, <1>4, <1>8 DEF AreListsOf, Uses
  <2>3. ASSUME NEW q \in Queues, NEW m \in 1 .. Len(gpuQueue'[q]), IsSignal(q, m)'
        PROVE  /\ m > 1 => IsLists(q, m - 1)'
               /\ gpuFence'[q] < gpuQueue'[q][m].value /\ gpuQueue'[q][m].value < mNextValue'[q]
               /\ \A k \in 1 .. Len(gpuQueue'[q]) : m < k /\ IsSignal(q, k)' =>
                     gpuQueue'[q][m].value < gpuQueue'[q][k].value
    <3>1. /\ m > 1 => IsLists(q, m - 1)
          /\ gpuFence[q] < gpuQueue[q][m].value /\ gpuQueue[q][m].value < mNextValue[q]
          /\ \A k \in 1 .. Len(gpuQueue[q]) : m < k /\ IsSignal(q, k) =>
                gpuQueue[q][m].value < gpuQueue[q][k].value
      BY <2>1, <2>3, <1>3, <1>8 DEF QueuesAreInOrder
    <3>2. gpuQueue[q][m].value \in Nat
      BY <2>1, <2>3, <1>8, <1>13
    <3> QED BY <3>1, <3>2, <2>1, <1>8, <1>10
  <2> QED BY <1>3, <1>8, <2>1, <2>2, <2>3 DEF QueuesAreInOrder
<1>18. HeadIsExecuted'
  <2> SUFFICES ASSUME NEW q \in Queues, 1 <= Len(gpuQueue[q]), IsSignal(q, 1),
                      NEW id \in Running', q \in UsedQueues(submitted[id]),
                      Envs'[id].fenceValue[q] = gpuQueue[q][1].value
               PROVE  <<id, q>> \in executed
    BY <1>8 DEF HeadIsExecuted, IsSignal, Uses
  <2>1. 1 \in 1 .. Len(gpuQueue[q])
    BY <1>12, LenProperties
  <2>2. gpuQueue[q][1].value < mNextValue[q] /\ gpuQueue[q][1].value \in Nat
    BY <2>1, <1>3, <1>13 DEF QueuesAreInOrder
  <2>3. id # n
    BY <2>2, <1>7, <1>10, <1>1, <1>2
  <2>4. id \in Running /\ Envs'[id] = Envs[id]
    BY <2>3, <1>4
  <2> QED BY <2>4, <1>3 DEF HeadIsExecuted, Uses
<1>19. FencesAreRight'
  <2>1. ASSUME NEW id \in Running, NEW q \in Queues
        PROVE  /\ IsSignalled(id, q) => IsSignalled(id, q)'
               /\ IsQueued(id, q) => IsQueued(id, q)'
               /\ IsAhead(id, q) => IsAhead(id, q)'
    BY <1>4, <1>8 DEF IsSignalled, IsQueued, IsAhead, IsSignal
  <2>2. ASSUME NEW q \in Queues, q \in UsedQueues(b)
        PROVE  IsAhead(n, q)'
    <3>1. Envs'[n].fenceValue[q] = mNextValue[q]
      BY <2>2, <1>7
    <3>2. <<n, q>> \notin executed'
      BY <1>3, <1>5, <1>8, <1>1 DEF BundlesAreInOrder
    <3>3. gpuFence'[q] < mNextValue[q]
      BY <1>3, <1>8 DEF ValuesIncrease
    <3>4. \A m \in 1 .. Len(gpuQueue'[q]) : IsSignal(q, m)' => gpuQueue'[q][m].value < mNextValue[q]
      BY <1>3, <1>8 DEF QueuesAreInOrder, IsSignal
    <3> QED BY <3>1, <3>2, <3>3, <3>4 DEF IsAhead
  <2>3. ASSUME NEW id \in Running', NEW q \in Queues, Uses(id, q)'
        PROVE  /\ Envs'[id].submitted => IsSignalled(id, q)' \/ IsQueued(id, q)'
               /\ ~Envs'[id].submitted => IsAhead(id, q)'
    <3>1. CASE id = n
      BY <3>1, <2>2, <2>3, <1>7, <1>8, <1>1, <1>2 DEF Uses
    <3>2. CASE id # n
      <4>1. id \in Running /\ Envs'[id] = Envs[id] /\ Uses(id, q)
        BY <3>2, <2>3, <1>4, <1>8 DEF Uses
      <4> QED BY <4>1, <2>1, <1>3 DEF FencesAreRight
    <3> QED BY <3>1, <3>2
  <2> QED BY <2>3 DEF FencesAreRight
<1>20. ListsAreRight'
  <2> SUFFICES ASSUME NEW q \in Queues
               PROVE  /\ \A i \in 1 .. Len(mFree'[q]) : mFree'[q][i] \in 1 .. made'[q]
                      /\ \A i, j \in 1 .. Len(mFree'[q]) : mFree'[q][i] = mFree'[q][j] => i = j
                      /\ \A id \in Running' :
                            /\ Len(Envs'[id].lists[q]) = Len(submitted'[id][q])
                            /\ \A i \in 1 .. Len(Envs'[id].lists[q]) :
                                  /\ Envs'[id].lists[q][i] \in 1 .. made'[q]
                                  /\ \A j \in 1 .. Len(mFree'[q]) :
                                        Envs'[id].lists[q][i] # mFree'[q][j]
                      /\ \A id, jd \in Running' :
                           \A i \in 1 .. Len(Envs'[id].lists[q]), j \in 1 .. Len(Envs'[jd].lists[q]) :
                              Envs'[id].lists[q][i] = Envs'[jd].lists[q][j] => id = jd /\ i = j
    BY DEF ListsAreRight
  <2> DEFINE free == mFree[q]
             rest == RestOfFree(q, Len(b[q]))
             taken == TakeLists(q, Len(b[q]))
             k == Len(b[q])
  <2>1. k \in Nat
    BY <1>6, BundleTypes
  <2>2. /\ Len(free) \in Nat /\ made[q] \in Nat
        /\ Len(taken) = k
        /\ \A i \in 1 .. k : taken[i] = IF i <= Len(free) THEN free[i] ELSE made[q] + i - Len(free)
        /\ Len(rest) = IF k < Len(free) THEN Len(free) - k ELSE 0
        /\ \A i \in 1 .. Len(rest) : rest[i] = free[k + i]
        /\ NewLists(q, k) = IF k > Len(free) THEN k - Len(free) ELSE 0
    BY <1>3, <2>1, ListsAreTaken
  <2>3. mFree'[q] = rest /\ made'[q] = made[q] + NewLists(q, k) /\ Envs'[n].lists[q] = taken
    BY <1>7, <1>9
  <2>4. /\ \A i \in 1 .. Len(free) : free[i] \in 1 .. made[q]
        /\ \A i, j \in 1 .. Len(free) : free[i] = free[j] => i = j
    BY <1>3 DEF ListsAreRight
  <2> HIDE DEF free, rest, taken, k
  <2>5. \A i \in 1 .. Len(rest) : k + i \in 1 .. Len(free)
    BY <2>1, <2>2
  <2>6. \A i \in 1 .. made[q] : i \in 1 .. made'[q] /\ i \in Nat
    BY <2>1, <2>2, <2>3
  <2>7. ASSUME NEW i \in 1 .. Len(rest) PROVE rest[i] \in 1 .. made'[q]
    <3>1. free[k + i] \in 1 .. made[q]
      BY <2>4, <2>5
    <3> QED BY <3>1, <2>2, <2>6
  <2>8. ASSUME NEW i \in 1 .. Len(rest), NEW j \in 1 .. Len(rest), rest[i] = rest[j] PROVE i = j
    <3>1. k + i \in 1 .. Len(free) /\ k + j \in 1 .. Len(free) /\ free[k + i] = free[k + j]
      BY <2>2, <2>5, <2>8
    <3>2. k + i = k + j
      BY <3>1, <2>4
    <3>3. i \in Nat /\ j \in Nat
      BY <2>1, <2>2
    <3> QED BY <3>2, <3>3, <2>1
  <2>9. ASSUME NEW i \in 1 .. k
        PROVE  /\ taken[i] \in 1 .. made'[q]
               /\ i <= Len(free) => /\ i \in 1 .. Len(free) /\ taken[i] = free[i]
                                    /\ taken[i] \in 1 .. made[q]
               /\ i > Len(free) => taken[i] = made[q] + i - Len(free) /\ taken[i] > made[q]
    <3>1. CASE i <= Len(free)
      BY <3>1, <2>1, <2>2, <2>4, <2>6
    <3>2. CASE i > Len(free)
      BY <3>2, <2>1, <2>2, <2>3
    <3> QED BY <3>1, <3>2, <2>1, <2>2
  <2>10. ASSUME NEW i \in 1 .. k, NEW j \in 1 .. Len(rest), taken[i] = rest[j] PROVE FALSE
    <3>1. rest[j] = free[k + j] /\ k + j \in 1 .. Len(free) /\ rest[j] \in 1 .. made[q]
      BY <2>2, <2>4, <2>5
    <3>2. CASE i <= Len(free)
      <4>1. i = k + j
        BY <3>1, <3>2, <2>4, <2>9, <2>10
      <4> QED BY <4>1, <2>1, <2>2
    <3>3. CASE i > Len(free)
      BY <3>1, <3>3, <2>2, <2>9, <2>10
    <3> QED BY <3>2, <3>3, <2>1, <2>2
  <2>11. ASSUME NEW i \in 1 .. k, NEW j \in 1 .. k, taken[i] = taken[j] PROVE i = j
    <3>1. CASE i <= Len(free) /\ j <= Len(free)
      BY <3>1, <2>4, <2>9, <2>11
    <3>2. CASE i <= Len(free) /\ j > Len(free)
      BY <3>2, <2>2, <2>4, <2>9, <2>11
    <3>3. CASE i > Len(free) /\ j <= Len(free)
      BY <3>3, <2>2, <2>4, <2>9, <2>11
    <3>4. CASE i > Len(free) /\ j > Len(free)
      BY <3>4, <2>1, <2>2, <2>9, <2>11
    <3> QED BY <3>1, <3>2, <3>3, <3>4, <2>1, <2>2
  <2>12. ASSUME NEW id \in Running
         PROVE  /\ Envs'[id].lists[q] = Envs[id].lists[q]
                /\ Len(Envs[id].lists[q]) = Len(submitted'[id][q])
                /\ \A i \in 1 .. Len(Envs[id].lists[q]) :
                      /\ Envs[id].lists[q][i] \in 1 .. made[q]
                      /\ \A j \in 1 .. Len(free) : Envs[id].lists[q][i] # free[j]
    BY <1>3, <1>4, <1>8 DEF ListsAreRight, free
  <2>13. ASSUME NEW id \in Running, NEW i \in 1 .. Len(Envs[id].lists[q]), NEW j \in 1 .. k
         PROVE  Envs[id].lists[q][i] # taken[j]
    <3>1. CASE j <= Len(free)
      <4>1. taken[j] = free[j] /\ j \in 1 .. Len(free)
        BY <3>1, <2>9
      <4> QED BY <4>1, <2>12
    <3>2. CASE j > Len(free)
      <4>1. taken[j] > made[q]
        BY <3>2, <2>9
      <4>2. Envs[id].lists[q][i] \in 1 .. made[q]
        BY <2>12
      <4> QED BY SMTT(30), <4>1, <4>2, <2>2
    <3> QED BY <3>1, <3>2, <2>1, <2>2
  <2>14. ASSUME NEW id \in Running'
         PROVE  /\ Len(Envs'[id].lists[q]) = Len(submitted'[id][q])
                /\ \A i \in 1 .. Len(Envs'[id].lists[q]) :
                      /\ Envs'[id].lists[q][i] \in 1 .. made'[q]
                      /\ \A j \in 1 .. Len(rest) : Envs'[id].lists[q][i] # rest[j]
    <3>1. CASE id = n
      <4>1. Envs'[id].lists[q] = taken /\ submitted'[id] = b
        BY <3>1, <2>3, <1>8, <1>1, <1>2
      <4>2. Len(submitted'[id][q]) = k
        BY <4>1 DEF k
      <4> QED BY <4>1, <4>2, <2>2, <2>9, <2>10
    <3>2. CASE id # n
      <4>1. id \in Running
        BY <3>2, <1>4
      <4>2. ASSUME NEW i \in 1 .. Len(Envs[id].lists[q])
            PROVE  /\ Envs[id].lists[q][i] \in 1 .. made'[q]
                   /\ \A j \in 1 .. Len(rest) : Envs[id].lists[q][i] # rest[j]
        <5>1. /\ Envs[id].lists[q][i] \in 1 .. made[q]
              /\ \A j \in 1 .. Len(free) : Envs[id].lists[q][i] # free[j]
          BY <4>1, <2>12
        <5> QED BY <5>1, <2>2, <2>5, <2>6
      <4> QED BY <4>1, <4>2, <2>12
    <3> QED BY <3>1, <3>2
  <2>15. ASSUME NEW id \in Running', NEW jd \in Running',
                NEW i \in 1 .. Len(Envs'[id].lists[q]), NEW j \in 1 .. Len(Envs'[jd].lists[q]),
                Envs'[id].lists[q][i] = Envs'[jd].lists[q][j]
         PROVE  id = jd /\ i = j
    <3>1. CASE id = n /\ jd = n
      BY <3>1, <2>2, <2>3, <2>11, <2>15
    <3>2. CASE id = n /\ jd # n
      <4>1. jd \in Running /\ Envs'[jd].lists[q] = Envs[jd].lists[q] /\ Envs'[id].lists[q] = taken
        BY <3>2, <1>4, <2>3, <2>12
      <4>2. i \in 1 .. k /\ j \in 1 .. Len(Envs[jd].lists[q]) /\ taken[i] = Envs[jd].lists[q][j]
        BY <4>1, <2>2, <2>15
      <4> QED BY <4>1, <4>2, <2>13
    <3>3. CASE id # n /\ jd = n
      <4>1. id \in Running /\ Envs'[id].lists[q] = Envs[id].lists[q] /\ Envs'[jd].lists[q] = taken
        BY <3>3, <1>4, <2>3, <2>12
      <4>2. j \in 1 .. k /\ i \in 1 .. Len(Envs[id].lists[q]) /\ taken[j] = Envs[id].lists[q][i]
        BY <4>1, <2>2, <2>15
      <4> QED BY <4>1, <4>2, <2>13
    <3>4. CASE id # n /\ jd # n
      <4>1. id \in Running /\ jd \in Running
        BY <3>4, <1>4
      <4>2. /\ i \in 1 .. Len(Envs[id].lists[q]) /\ j \in 1 .. Len(Envs[jd].lists[q])
            /\ Envs[id].lists[q][i] = Envs[jd].lists[q][j]
        BY <4>1, <2>12, <2>15
      <4> QED BY <4>1, <4>2, <1>3 DEF ListsAreRight
    <3> QED BY <3>1, <3>2, <3>3, <3>4
  <2> QED BY <2>3, <2>7, <2>8, <2>14, <2>15
<1>21. CompletedMeansExecuted'
  BY <1>3, <1>8 DEF CompletedMeansExecuted
<1> QED BY <1>14, <1>15, <1>16, <1>17, <1>18, <1>19, <1>20, <1>21 DEF FenceInv

-----------------------------------------------------------------------------
(* The master render thread submits a bundle.                                *)

\* Each queue the bundle uses gets its lists and its signal.
LEMMA CommandsAreAppended ==
    ASSUME Types, BundlesAreInOrder, ValuesIncrease, ListsAreRight,
           NEW e \in DOMAIN mRunningJobQueue, SubmitCommandLists(e), NEW n, n = Completed + e
    PROVE  /\ gpuQueue' \in [Queues -> Seq(Entries)]
           /\ \A q \in Queues :
                 /\ Uses(n, q) =>
                       /\ Len(gpuQueue'[q]) = Len(gpuQueue[q]) + 2
                       /\ \A m \in 1 .. Len(gpuQueue[q]) : gpuQueue'[q][m] = gpuQueue[q][m]
                       /\ gpuQueue'[q][Len(gpuQueue[q]) + 1] =
                             [kind |-> "lists", id |-> n, lists |-> Envs[n].lists[q]]
                       /\ gpuQueue'[q][Len(gpuQueue[q]) + 2] =
                             [kind |-> "signal", value |-> Envs[n].fenceValue[q]]
                 /\ ~Uses(n, q) => gpuQueue'[q] = gpuQueue[q]
<1>1. /\ n \in Running /\ mRunningJobQueue[e] = Envs[n] /\ Envs[n] \in Environments
      /\ Envs[n].id = n /\ DOMAIN Envs[n].fenceValue = UsedQueues(submitted[n]) /\ n \in Nat
  BY EnvironmentIsSubmitted, EnvironmentTypes DEF BundlesAreInOrder, ValuesIncrease
<1>2. gpuQueue' = [q \in Queues |-> IF Uses(n, q) THEN gpuQueue[q] \o CommandsFor(Envs[n], q)
                                    ELSE gpuQueue[q]]
  BY <1>1 DEF SubmitCommandLists, Uses
<1>3. ASSUME NEW q \in Queues, Uses(n, q)
      PROVE  /\ gpuQueue'[q] \in Seq(Entries)
             /\ Len(gpuQueue'[q]) = Len(gpuQueue[q]) + 2
             /\ \A m \in 1 .. Len(gpuQueue[q]) : gpuQueue'[q][m] = gpuQueue[q][m]
             /\ gpuQueue'[q][Len(gpuQueue[q]) + 1] =
                   [kind |-> "lists", id |-> n, lists |-> Envs[n].lists[q]]
             /\ gpuQueue'[q][Len(gpuQueue[q]) + 2] =
                   [kind |-> "signal", value |-> Envs[n].fenceValue[q]]
  <2> DEFINE x == [kind |-> "lists", id |-> n, lists |-> Envs[n].lists[q]]
             y == [kind |-> "signal", value |-> Envs[n].fenceValue[q]]
  <2>1. CommandsFor(Envs[n], q) = <<x, y>>
    BY <1>1 DEF CommandsFor
  <2>2. Envs[n].lists[q] \in Seq(Nat) /\ Envs[n].fenceValue[q] \in Nat
    BY <1>1, <1>3, FieldTypes DEF Uses
  <2>3. x \in Entries /\ y \in Entries
    BY <2>2, <1>1 DEF Entries
  <2>4. gpuQueue[q] \in Seq(Entries) /\ gpuQueue'[q] = gpuQueue[q] \o <<x, y>>
    BY <1>2, <1>3, <2>1 DEF Types
  <2> HIDE DEF x, y
  <2>5. <<x, y>> \in Seq(Entries) /\ Len(<<x, y>>) = 2 /\ <<x, y>>[1] = x /\ <<x, y>>[2] = y
    BY <2>3
  <2>6. Len(gpuQueue[q]) \in Nat
    BY <2>4, LenProperties
  <2>7. /\ gpuQueue'[q] \in Seq(Entries) /\ Len(gpuQueue'[q]) = Len(gpuQueue[q]) + 2
        /\ \A i \in 1 .. Len(gpuQueue[q]) + 2 : gpuQueue'[q][i] =
              IF i <= Len(gpuQueue[q]) THEN gpuQueue[q][i] ELSE <<x, y>>[i - Len(gpuQueue[q])]
    BY <2>4, <2>5, ConcatProperties
  <2>8. \A m \in 1 .. Len(gpuQueue[q]) : gpuQueue'[q][m] = gpuQueue[q][m]
    BY <2>6, <2>7
  <2>9. gpuQueue'[q][Len(gpuQueue[q]) + 1] = x /\ gpuQueue'[q][Len(gpuQueue[q]) + 2] = y
    <3>1. PICK k, i, j : k = Len(gpuQueue[q]) /\ i = k + 1 /\ j = k + 2
      OBVIOUS
    <3>2. i - k = 1 /\ j - k = 2 /\ ~(i <= k) /\ ~(j <= k) /\ i \in 1 .. k + 2 /\ j \in 1 .. k + 2
      BY <3>1, <2>6
    <3>3. gpuQueue'[q][i] = <<x, y>>[i - k] /\ gpuQueue'[q][j] = <<x, y>>[j - k]
      BY <3>1, <3>2, <2>7
    <3> QED BY <3>1, <3>2, <3>3, <2>5
  <2> QED BY <2>7, <2>8, <2>9 DEF x, y
<1>4. \A q \in Queues : ~Uses(n, q) => gpuQueue'[q] = gpuQueue[q] /\ gpuQueue'[q] \in Seq(Entries)
  BY <1>2 DEF Types
<1>5. gpuQueue' \in [Queues -> Seq(Entries)]
  <2>1. \A q \in Queues : gpuQueue'[q] \in Seq(Entries)
    BY <1>3, <1>4
  <2> QED BY <2>1, <1>2
<1> QED BY <1>3, <1>4, <1>5

LEMMA SubmitCommandListsKeepsFences ==
    ASSUME FenceInv, NEW e \in DOMAIN mRunningJobQueue, SubmitCommandLists(e)
    PROVE  FenceInv'
<1>1. PICK n : n = Completed + e
  OBVIOUS
<1>2. /\ Types /\ BundlesAreInOrder /\ ValuesIncrease /\ QueuesAreInOrder
      /\ HeadIsExecuted /\ FencesAreRight /\ ListsAreRight /\ CompletedMeansExecuted
  BY DEF FenceInv
<1>3. /\ n \in Running /\ ~Envs[n].submitted
      /\ \A id \in Running : ~Envs[id].submitted => n <= id
      /\ Completed' = Completed /\ extracted' = extracted /\ Running' = Running
      /\ \A id \in Running : /\ SameCommands(Envs'[id], Envs[id])
                             /\ Envs'[id].submitted <=> id = n \/ Envs[id].submitted
      /\ mRunningJobQueue' \in Seq(Environments) /\ Len(mRunningJobQueue') <= extracted'
  BY <1>1, <1>2, EnvironmentIsSubmitted
<1>4. UNCHANGED <<submitted, mFree, made, mNextValue, mCurrState, completed, gpuFence, executed>>
  BY DEF SubmitCommandLists
<1>5. /\ gpuQueue' \in [Queues -> Seq(Entries)]
      /\ \A q \in Queues :
            /\ Uses(n, q) =>
                  /\ Len(gpuQueue'[q]) = Len(gpuQueue[q]) + 2
                  /\ \A m \in 1 .. Len(gpuQueue[q]) : gpuQueue'[q][m] = gpuQueue[q][m]
                  /\ gpuQueue'[q][Len(gpuQueue[q]) + 1] =
                        [kind |-> "lists", id |-> n, lists |-> Envs[n].lists[q]]
                  /\ gpuQueue'[q][Len(gpuQueue[q]) + 2] =
                        [kind |-> "signal", value |-> Envs[n].fenceValue[q]]
            /\ ~Uses(n, q) => gpuQueue'[q] = gpuQueue[q]
  BY <1>1, <1>2, CommandsAreAppended
<1>6. Types'
  BY <1>2, <1>3, <1>4, <1>5 DEF Types
<1>7. BundlesAreInOrder'
  BY <1>2, <1>3, <1>4 DEF BundlesAreInOrder, SameCommands
<1>8. ValuesIncrease' /\ ListsAreRight'
  <2>1. \A q \in Queues : gpuFence'[q] < mNextValue'[q]
    BY <1>2, <1>4 DEF ValuesIncrease
  <2> QED BY <2>1, <1>2, <1>3, <1>4, ValuesAndListsStay
<1>9. CompletedMeansExecuted'
  BY <1>2, <1>4 DEF CompletedMeansExecuted
<1>10. ASSUME NEW q \in Queues
       PROVE  /\ Len(gpuQueue[q]) \in Nat /\ Len(gpuQueue'[q]) \in Nat
              /\ Uses(n, q) => Len(gpuQueue'[q]) = Len(gpuQueue[q]) + 2
              /\ ~Uses(n, q) => Len(gpuQueue'[q]) = Len(gpuQueue[q])
              /\ \A m \in 1 .. Len(gpuQueue[q]) : gpuQueue'[q][m] = gpuQueue[q][m]
  <2>1. Len(gpuQueue[q]) \in Nat /\ Len(gpuQueue'[q]) \in Nat
    BY <1>5, LenProperties, <1>2 DEF Types
  <2> QED BY <2>1, <1>5
\* What was in a queue stays there, and what is behind it belongs to n.
<1>11. ASSUME NEW q \in Queues, NEW m \in 1 .. Len(gpuQueue[q])
       PROVE  /\ m \in 1 .. Len(gpuQueue'[q]) /\ gpuQueue'[q][m] = gpuQueue[q][m]
              /\ IsLists(q, m)' <=> IsLists(q, m)
              /\ IsSignal(q, m)' <=> IsSignal(q, m)
  <2>1. m \in 1 .. Len(gpuQueue'[q])
    BY <1>10
  <2>2. gpuQueue'[q][m] = gpuQueue[q][m]
    BY <1>10
  <2> QED BY <2>1, <2>2 DEF IsLists, IsSignal
<1>12. ASSUME NEW q \in Queues, NEW m \in 1 .. Len(gpuQueue'[q]), m \notin 1 .. Len(gpuQueue[q])
       PROVE  /\ Uses(n, q)
              /\ \/ /\ m = Len(gpuQueue[q]) + 1 /\ m + 1 \in 1 .. Len(gpuQueue'[q])
                    /\ IsLists(q, m)' /\ ~IsSignal(q, m)'
                    /\ gpuQueue'[q][m].id = n /\ gpuQueue'[q][m].lists = Envs[n].lists[q]
                    /\ IsSignal(q, m + 1)' /\ gpuQueue'[q][m + 1].value = Envs[n].fenceValue[q]
                 \/ /\ m = Len(gpuQueue[q]) + 2 /\ m - 1 = Len(gpuQueue[q]) + 1
                    /\ m = Len(gpuQueue'[q])
                    /\ IsSignal(q, m)' /\ ~IsLists(q, m)' /\ IsLists(q, m - 1)'
                    /\ gpuQueue'[q][m].value = Envs[n].fenceValue[q]
  <2>1. Uses(n, q)
    BY <1>10, <1>12
  <2>2. PICK k : k = Len(gpuQueue[q])
    OBVIOUS
  <2>3. k \in Nat /\ Len(gpuQueue'[q]) = k + 2 /\ m \in 1 .. k + 2 /\ m \notin 1 .. k
    BY <2>1, <2>2, <1>10, <1>12
  <2>4. /\ gpuQueue'[q][k + 1] = [kind |-> "lists", id |-> n, lists |-> Envs[n].lists[q]]
        /\ gpuQueue'[q][k + 2] = [kind |-> "signal", value |-> Envs[n].fenceValue[q]]
    BY <2>1, <2>2, <1>5
  <2>5. CASE m = k + 1
    <3>1. m + 1 = k + 2 /\ m + 1 \in 1 .. k + 2
      BY <2>3, <2>5
    <3> QED BY <3>1, <2>1, <2>2, <2>3, <2>4, <2>5 DEF IsLists, IsSignal
  <2>6. CASE m = k + 2
    <3>1. m - 1 = k + 1
      BY <2>3, <2>6
    <3> QED BY <3>1, <2>1, <2>2, <2>3, <2>4, <2>6 DEF IsLists, IsSignal
  <2> QED BY <2>3, <2>5, <2>6
<1>13. ASSUME NEW q \in Queues, Uses(n, q)
       PROVE  /\ Envs[n].fenceValue[q] > gpuFence[q] /\ <<n, q>> \notin executed
              /\ \A m \in 1 .. Len(gpuQueue[q]) : IsSignal(q, m) =>
                    gpuQueue[q][m].value < Envs[n].fenceValue[q]
              /\ Envs[n].fenceValue[q] < mNextValue[q]
              /\ Envs[n].fenceValue[q] \in Nat
  <2>1. Envs[n].fenceValue[q] \in Nat
    BY <1>2, <1>3, <1>13, EnvironmentTypes, FieldTypes DEF ValuesIncrease, Uses
  <2> QED BY <2>1, <1>2, <1>3, <1>13 DEF FencesAreRight, IsAhead, ValuesIncrease
<1>14. ASSUME NEW id, NEW q \in Queues
       PROVE  /\ id \in Running' <=> id \in Running
              /\ Uses(id, q)' <=> Uses(id, q)
              /\ <<id, q>> \in executed' <=> <<id, q>> \in executed
              /\ id \in Running => /\ Envs'[id].lists = Envs[id].lists
                                   /\ Envs'[id].fenceValue = Envs[id].fenceValue
                                   /\ Envs[id].submitted => Envs'[id].submitted
  BY <1>3, <1>4 DEF Uses, SameCommands
<1>15. ASSUME NEW q \in Queues, NEW m \in 1 .. Len(gpuQueue'[q]), IsLists(q, m)',
              NEW id, id = gpuQueue'[q][m].id
       PROVE  AreListsOf(q, m, id)'
  <2>1. CASE m \in 1 .. Len(gpuQueue[q])
    <3>1. AreListsOf(q, m, id)
      BY <2>1, <1>2, <1>11, <1>15 DEF QueuesAreInOrder
    <3>2. /\ m + 1 \in 1 .. Len(gpuQueue'[q]) /\ IsSignal(q, m + 1)'
          /\ gpuQueue'[q][m] = gpuQueue[q][m] /\ gpuQueue'[q][m + 1] = gpuQueue[q][m + 1]
      BY <3>1, <2>1, <1>11 DEF AreListsOf
    <3> QED BY <3>1, <3>2, <1>14 DEF AreListsOf
  <2>2. CASE m \notin 1 .. Len(gpuQueue[q])
    <3>1. /\ Uses(n, q) /\ m + 1 \in 1 .. Len(gpuQueue'[q])
          /\ id = n /\ gpuQueue'[q][m].lists = Envs[n].lists[q]
          /\ IsSignal(q, m + 1)' /\ gpuQueue'[q][m + 1].value = Envs[n].fenceValue[q]
      BY <2>2, <1>12, <1>15
    <3>2. Envs'[n].submitted /\ <<n, q>> \notin executed'
      BY <3>1, <1>3, <1>13, <1>14
    <3> QED BY <3>1, <3>2, <1>3, <1>14 DEF AreListsOf
  <2> QED BY <2>1, <2>2
<1>16. ASSUME NEW q \in Queues, NEW m \in 1 .. Len(gpuQueue'[q]), IsSignal(q, m)'
       PROVE  /\ m > 1 => IsLists(q, m - 1)'
              /\ gpuFence'[q] < gpuQueue'[q][m].value /\ gpuQueue'[q][m].value < mNextValue'[q]
              /\ \A k \in 1 .. Len(gpuQueue'[q]) : m < k /\ IsSignal(q, k)' =>
                    gpuQueue'[q][m].value < gpuQueue'[q][k].value
  <2>1. CASE m \in 1 .. Len(gpuQueue[q])
    <3>1. /\ IsSignal(q, m) /\ gpuQueue'[q][m] = gpuQueue[q][m]
          /\ m > 1 => IsLists(q, m - 1)
          /\ gpuFence[q] < gpuQueue[q][m].value /\ gpuQueue[q][m].value < mNextValue[q]
          /\ \A k \in 1 .. Len(gpuQueue[q]) : m < k /\ IsSignal(q, k) =>
                gpuQueue[q][m].value < gpuQueue[q][k].value
      BY <2>1, <1>2, <1>11, <1>16 DEF QueuesAreInOrder
    <3>2. m > 1 => m - 1 \in 1 .. Len(gpuQueue[q])
      BY <2>1, <1>10
    <3>3. m > 1 => IsLists(q, m - 1)'
      BY <3>1, <3>2, <1>11
    <3>4. ASSUME NEW k \in 1 .. Len(gpuQueue'[q]), m < k, IsSignal(q, k)'
          PROVE  gpuQueue'[q][m].value < gpuQueue'[q][k].value
      <4>1. CASE k \in 1 .. Len(gpuQueue[q])
        BY <4>1, <3>1, <3>4, <1>11
      <4>2. CASE k \notin 1 .. Len(gpuQueue[q])
        <5>1. Uses(n, q) /\ gpuQueue'[q][k].value = Envs[n].fenceValue[q]
          BY <4>2, <3>4, <1>12
        <5> QED BY <5>1, <3>1, <2>1, <1>13
      <4> QED BY <4>1, <4>2
    <3> QED BY <3>1, <3>3, <3>4, <1>4
  <2>2. CASE m \notin 1 .. Len(gpuQueue[q])
    <3>1. /\ Uses(n, q) /\ m = Len(gpuQueue'[q]) /\ IsLists(q, m - 1)'
          /\ gpuQueue'[q][m].value = Envs[n].fenceValue[q]
      BY <2>2, <1>12, <1>16
    <3>2. \A k \in 1 .. Len(gpuQueue'[q]) : ~(m < k)
      BY <3>1, <1>10
    <3> QED BY <3>1, <3>2, <1>4, <1>13
  <2> QED BY <2>1, <2>2
<1>17. QueuesAreInOrder'
  <2>1. \A q \in Queues : \A m \in 1 .. Len(gpuQueue'[q]) :
           IsLists(q, m)' => \A id : id = gpuQueue'[q][m].id => AreListsOf(q, m, id)'
    BY <1>15
  <2> QED BY <2>1, <1>16 DEF QueuesAreInOrder
<1>18. HeadIsExecuted'
  <2> SUFFICES ASSUME NEW q \in Queues, 1 <= Len(gpuQueue'[q]), IsSignal(q, 1)',
                      NEW id \in Running', Uses(id, q)',
                      Envs'[id].fenceValue[q] = gpuQueue'[q][1].value
               PROVE  <<id, q>> \in executed
    BY <1>4 DEF HeadIsExecuted
  <2>1. 1 \in 1 .. Len(gpuQueue'[q])
    BY <1>10
  <2>2. CASE 1 \in 1 .. Len(gpuQueue[q])
    <3>1. IsSignal(q, 1) /\ gpuQueue'[q][1] = gpuQueue[q][1] /\ 1 <= Len(gpuQueue[q])
      BY <2>2, <1>10, <1>11
    <3> QED BY <3>1, <1>2, <1>14 DEF HeadIsExecuted
  <2>3. CASE 1 \notin 1 .. Len(gpuQueue[q])
    <3>1. Len(gpuQueue[q]) = 0
      BY <2>3, <1>10
    <3>2. 1 # Len(gpuQueue[q]) + 2
      BY <3>1
    <3> QED BY <3>2, <2>1, <2>3, <1>12
  <2> QED BY <2>2, <2>3
<1>19. ASSUME NEW id \in Running', NEW q \in Queues, Uses(id, q)'
       PROVE  /\ Envs'[id].submitted => IsSignalled(id, q)' \/ IsQueued(id, q)'
              /\ ~Envs'[id].submitted => IsAhead(id, q)'
  <2>1. id \in Running /\ Uses(id, q) /\ Envs'[id].fenceValue = Envs[id].fenceValue
    BY <1>14, <1>19
  <2>2. CASE id = n
    <3>1. PICK k : k = Len(gpuQueue[q]) + 2
      OBVIOUS
    <3>2. k # Len(gpuQueue[q]) + 1 /\ k \notin 1 .. Len(gpuQueue[q]) /\ k \in 1 .. Len(gpuQueue'[q])
      BY <3>1, <2>1, <2>2, <1>10
    <3>3. IsSignal(q, k)' /\ gpuQueue'[q][k].value = Envs'[id].fenceValue[q]
      BY <3>2, <2>1, <2>2, <1>12
    <3>4. IsQueued(id, q)'
      BY <3>2, <3>3 DEF IsQueued
    <3> QED BY <3>4, <2>2, <1>3
  <2>3. CASE id # n /\ Envs'[id].submitted
    <3>1. IsSignalled(id, q) \/ IsQueued(id, q)
      BY <2>1, <2>3, <1>2, <1>3 DEF FencesAreRight
    <3>2. IsSignalled(id, q) => IsSignalled(id, q)'
      BY <2>1, <1>4 DEF IsSignalled
    <3>3. IsQueued(id, q) => IsQueued(id, q)'
      BY <2>1, <1>11 DEF IsQueued
    <3> QED BY <3>1, <3>2, <3>3, <2>3
  <2>4. CASE id # n /\ ~Envs'[id].submitted
    <3>1. IsAhead(id, q) /\ n <= id
      BY <2>1, <2>4, <1>2, <1>3 DEF FencesAreRight
    <3>2. Uses(n, q) => Envs[n].fenceValue[q] < Envs[id].fenceValue[q]
      <4>1. n \in Nat /\ id \in Nat
        BY <2>1, <1>2, <1>3, EnvironmentTypes
      <4>2. n < id
        BY <4>1, <3>1, <2>4
      <4> QED BY <4>2, <2>1, <1>2, <1>3 DEF ValuesIncrease
    <3>3. ASSUME NEW m \in 1 .. Len(gpuQueue'[q]), IsSignal(q, m)'
          PROVE  gpuQueue'[q][m].value < Envs'[id].fenceValue[q]
      <4>1. CASE m \in 1 .. Len(gpuQueue[q])
        BY <4>1, <3>1, <3>3, <2>1, <1>11 DEF IsAhead
      <4>2. CASE m \notin 1 .. Len(gpuQueue[q])
        BY <4>2, <3>2, <3>3, <2>1, <1>12
      <4> QED BY <4>1, <4>2
    <3> QED BY <3>1, <3>3, <2>1, <2>4, <1>4 DEF IsAhead
  <2> QED BY <2>2, <2>3, <2>4
<1>20. FencesAreRight'
  BY <1>19 DEF FencesAreRight
<1> QED BY <1>6, <1>7, <1>8, <1>9, <1>17, <1>18, <1>20 DEF FenceInv

-----------------------------------------------------------------------------
(* The master render thread completes a bundle.                              *)

LEMMA ListsAreReturned ==
    ASSUME NEW s \in Seq(Nat), NEW free \in Seq(Nat)
    PROVE  /\ Reversed(s) \o free \in Seq(Nat) /\ Len(s) \in Nat /\ Len(free) \in Nat
           /\ Len(Reversed(s) \o free) = Len(s) + Len(free)
           /\ \A i \in 1 .. Len(s) : /\ (Reversed(s) \o free)[i] = s[Len(s) + 1 - i]
                                     /\ Len(s) + 1 - i \in 1 .. Len(s)
           /\ \A i \in 1 .. Len(s) + Len(free) : i > Len(s) =>
                 /\ (Reversed(s) \o free)[i] = free[i - Len(s)]
                 /\ i - Len(s) \in 1 .. Len(free)
<1>1. /\ Len(s) \in Nat /\ Len(free) \in Nat /\ DOMAIN s = 1 .. Len(s)
      /\ \A i \in 1 .. Len(s) : s[i] \in Nat
  BY LenProperties, ElementOfSeq
<1>2. PICK k : k = Len(s)
  OBVIOUS
<1>3. Reversed(s) = [i \in 1 .. k |-> s[k + 1 - i]]
  BY <1>1, <1>2 DEF Reversed
<1>4. \A i \in 1 .. k : k + 1 - i \in 1 .. k /\ s[k + 1 - i] \in Nat
  BY <1>1, <1>2
<1>5. Reversed(s) \in [1 .. k -> Nat] /\ k \in Nat
  BY <1>1, <1>2, <1>3, <1>4
<1>6. Reversed(s) \in Seq(Nat) /\ Len(Reversed(s)) = k
  BY <1>5
<1>7. \A i \in 1 .. k : Reversed(s)[i] = s[k + 1 - i]
  BY <1>3
<1> HIDE DEF Reversed
<1>8. /\ Reversed(s) \o free \in Seq(Nat) /\ Len(Reversed(s) \o free) = k + Len(free)
      /\ \A i \in 1 .. k + Len(free) : (Reversed(s) \o free)[i] =
            IF i <= k THEN Reversed(s)[i] ELSE free[i - k]
  BY <1>6, ConcatProperties
<1>9. ASSUME NEW i \in 1 .. k PROVE (Reversed(s) \o free)[i] = s[k + 1 - i]
  <2>1. i \in 1 .. k + Len(free) /\ i <= k
    BY <1>1, <1>5
  <2> QED BY <2>1, <1>7, <1>8
<1>10. ASSUME NEW i \in 1 .. k + Len(free), i > k
       PROVE  (Reversed(s) \o free)[i] = free[i - k] /\ i - k \in 1 .. Len(free)
  <2>1. i - k \in 1 .. Len(free) /\ ~(i <= k)
    BY <1>1, <1>5, <1>10
  <2> QED BY <2>1, <1>8
<1> QED BY <1>1, <1>2, <1>4, <1>8, <1>9, <1>10

\* The GPU has executed the bundle that is completed.
LEMMA CompletedIsExecuted ==
    ASSUME Types, ValuesIncrease, QueuesAreInOrder, FencesAreRight, CompleteOldest,
           NEW n, n = Completed + 1
    PROVE  /\ n \in Running /\ Envs[n].submitted
           /\ \A q \in UsedQueues(submitted[n]) : <<n, q>> \in executed
<1>1. n \in Running /\ Head(mRunningJobQueue) = Envs[n]
  BY EnvironmentIsRemoved
<1>2. /\ Envs[n] \in Environments /\ DOMAIN Envs[n].fenceValue = UsedQueues(submitted[n])
      /\ submitted[n] \in Bundles
  BY <1>1, EnvironmentTypes DEF ValuesIncrease
<1>3. UsedQueues(submitted[n]) # {} /\ UsedQueues(submitted[n]) \subseteq Queues
  BY <1>2, BundleTypes
<1>4. ASSUME NEW q \in UsedQueues(submitted[n])
      PROVE  /\ q \in Queues /\ Uses(n, q) /\ gpuFence[q] \in Nat /\ Envs[n].fenceValue[q] \in Nat
             /\ gpuFence[q] >= Envs[n].fenceValue[q]
  BY <1>1, <1>2, <1>3, FieldTypes DEF CompleteOldest, FencesCompleted, Uses, Types
<1>5. Envs[n].submitted
  <2>1. PICK q \in UsedQueues(submitted[n]) : TRUE
    BY <1>3
  <2>2. Envs[n].fenceValue[q] \in Nat /\ gpuFence[q] >= Envs[n].fenceValue[q] /\ gpuFence[q] \in Nat
    BY <1>4
  <2>3. ~(Envs[n].fenceValue[q] > gpuFence[q])
    BY <2>2
  <2>4. ~IsAhead(n, q)
    BY <2>3 DEF IsAhead
  <2> QED BY <2>4, <1>1, <1>4 DEF FencesAreRight
<1>6. ASSUME NEW q \in UsedQueues(submitted[n]) PROVE <<n, q>> \in executed
  <2>1. IsSignalled(n, q) \/ IsQueued(n, q)
    BY <1>1, <1>4, <1>5 DEF FencesAreRight
  <2>2. ~IsQueued(n, q)
    BY <1>4 DEF IsQueued, QueuesAreInOrder
  <2> QED BY <2>1, <2>2 DEF IsSignalled
<1> QED BY <1>1, <1>5, <1>6

LEMMA CompleteKeepsFences ==
    ASSUME FenceInv, CompleteOldest
    PROVE  FenceInv'
<1>1. PICK n : n = Completed + 1
  OBVIOUS
<1>2. /\ Types /\ BundlesAreInOrder /\ ValuesIncrease /\ QueuesAreInOrder
      /\ HeadIsExecuted /\ FencesAreRight /\ ListsAreRight /\ CompletedMeansExecuted
  BY DEF FenceInv
<1>3. /\ n \in Running /\ Head(mRunningJobQueue) = Envs[n]
      /\ Completed' = n /\ extracted' = extracted
      /\ Running' = Running \ {n}
      /\ \A id \in Running' : Envs'[id] = Envs[id]
      /\ mRunningJobQueue' \in Seq(Environments) /\ Len(mRunningJobQueue') <= extracted'
  BY <1>1, <1>2, EnvironmentIsRemoved
<1>4. /\ Completed \in Nat /\ n \in Nat /\ Envs \in [Running -> Environments]
      /\ Envs[n] \in Environments /\ Envs[n].id = n
  BY <1>1, <1>2, <1>3, EnvironmentTypes DEF BundlesAreInOrder
<1>5. UNCHANGED <<submitted, made, mNextValue, mCurrState, gpuQueue, gpuFence, executed>>
  BY DEF CompleteOldest, gpu
<1>6. /\ completed' = completed \cup {n}
      /\ mFree' = [q \in Queues |-> Reversed(Envs[n].lists[q]) \o mFree[q]]
  BY <1>3, <1>4 DEF CompleteOldest
<1>7. \A q \in UsedQueues(submitted[n]) : <<n, q>> \in executed
  BY <1>1, <1>2, CompletedIsExecuted
<1>8. ASSUME NEW q \in Queues
      PROVE  Envs[n].lists[q] \in Seq(Nat) /\ mFree[q] \in Seq(Nat)
  BY <1>2, <1>4, FieldTypes DEF Types
<1>9. Types'
  <2>1. mFree' \in [Queues -> Seq(Nat)]
    <3>1. \A q \in Queues : Reversed(Envs[n].lists[q]) \o mFree[q] \in Seq(Nat)
      BY <1>8, ListsAreReturned
    <3> QED BY <3>1, <1>6
  <2> QED BY <2>1, <1>2, <1>3, <1>5 DEF Types
<1>10. BundlesAreInOrder'
  <2>1. completed' = 1 .. n
    BY <1>1, <1>2, <1>4, <1>6 DEF BundlesAreInOrder
  <2> QED BY <2>1, <1>2, <1>3, <1>5 DEF BundlesAreInOrder
<1>11. ValuesIncrease'
  BY <1>2, <1>3, <1>5 DEF ValuesIncrease, Uses
<1>12. QueuesAreInOrder'
  <2>1. \A q, m : (IsLists(q, m) <=> IsLists(q, m)') /\ (IsSignal(q, m) <=> IsSignal(q, m)')
    BY <1>5 DEF IsLists, IsSignal
  <2>2. ASSUME NEW q, NEW m, NEW id, AreListsOf(q, m, id) PROVE AreListsOf(q, m, id)'
    <3>1. id \in Running /\ Uses(id, q) /\ <<id, q>> \notin executed
      BY <2>2 DEF AreListsOf
    <3>2. id # n
      BY <3>1, <1>7 DEF Uses
    <3>3. id \in Running' /\ Envs'[id] = Envs[id]
      BY <3>1, <3>2, <1>3
    <3> QED BY <2>1, <2>2, <3>3, <1>5 DEF AreListsOf, Uses
  <2> QED BY <1>2, <1>5, <2>1, <2>2 DEF QueuesAreInOrder
<1>13. HeadIsExecuted'
  BY <1>2, <1>3, <1>5 DEF HeadIsExecuted, IsSignal, Uses
<1>14. FencesAreRight'
  <2>1. ASSUME NEW id \in Running', NEW q \in Queues
        PROVE  /\ id \in Running /\ Envs'[id] = Envs[id] /\ (Uses(id, q)' <=> Uses(id, q))
               /\ IsSignalled(id, q)' <=> IsSignalled(id, q)
               /\ IsQueued(id, q)' <=> IsQueued(id, q)
               /\ IsAhead(id, q)' <=> IsAhead(id, q)
    BY <1>3, <1>5 DEF IsSignalled, IsQueued, IsAhead, IsSignal, Uses
  <2> QED BY <2>1, <1>2 DEF FencesAreRight
<1>15. CompletedMeansExecuted'
  <2>1. \A id \in completed : 1 .. id \subseteq completed'
    BY <1>2, <1>6 DEF CompletedMeansExecuted
  <2>2. 1 .. n \subseteq completed'
    BY <1>1, <1>2, <1>4, <1>6 DEF BundlesAreInOrder
  <2> QED BY <2>1, <2>2, <1>2, <1>5, <1>6, <1>7 DEF CompletedMeansExecuted
<1>16. ASSUME NEW q \in Queues
       PROVE  /\ \A i \in 1 .. Len(mFree'[q]) : mFree'[q][i] \in 1 .. made'[q]
              /\ \A i, j \in 1 .. Len(mFree'[q]) : mFree'[q][i] = mFree'[q][j] => i = j
              /\ \A id \in Running' : \A i \in 1 .. Len(Envs[id].lists[q]) :
                    \A j \in 1 .. Len(mFree'[q]) : Envs[id].lists[q][i] # mFree'[q][j]
  <2> DEFINE s == Envs[n].lists[q]
             free == mFree[q]
             all == Reversed(s) \o free
             k == Len(s)
  <2>1. /\ k \in Nat /\ Len(free) \in Nat /\ Len(all) = k + Len(free)
        /\ \A i \in 1 .. k : all[i] = s[k + 1 - i] /\ k + 1 - i \in 1 .. k
        /\ \A i \in 1 .. k + Len(free) : i > k => all[i] = free[i - k] /\ i - k \in 1 .. Len(free)
    BY <1>8, ListsAreReturned
  <2>2. mFree'[q] = all /\ made'[q] = made[q]
    BY <1>5, <1>6
  <2>3. /\ \A i \in 1 .. k : s[i] \in 1 .. made[q] /\ \A j \in 1 .. Len(free) : s[i] # free[j]
        /\ \A i, j \in 1 .. k : s[i] = s[j] => i = j
        /\ \A i \in 1 .. Len(free) : free[i] \in 1 .. made[q]
        /\ \A i, j \in 1 .. Len(free) : free[i] = free[j] => i = j
    BY <1>2, <1>3 DEF ListsAreRight
  <2>4. ASSUME NEW id \in Running', NEW i \in 1 .. Len(Envs[id].lists[q])
        PROVE  /\ \A j \in 1 .. k : Envs[id].lists[q][i] # s[j]
               /\ \A j \in 1 .. Len(free) : Envs[id].lists[q][i] # free[j]
    <3>1. id \in Running /\ id # n
      BY <1>3
    <3> QED BY <3>1, <1>2, <1>3 DEF ListsAreRight
  <2> HIDE DEF s, free, all, k
  <2>5. ASSUME NEW i \in 1 .. Len(all) PROVE i \in 1 .. k \/ (i \in 1 .. k + Len(free) /\ i > k)
    <3>1. i \in 1 .. k + Len(free)
      BY <2>1
    <3> QED BY <3>1, <2>1
  <2>6. ASSUME NEW i \in 1 .. Len(all) PROVE all[i] \in 1 .. made[q]
    BY <2>1, <2>3, <2>5
  <2>7. ASSUME NEW i \in 1 .. Len(all), NEW j \in 1 .. Len(all), all[i] = all[j] PROVE i = j
    <3>1. CASE i \in 1 .. k /\ j \in 1 .. k
      <4>1. k + 1 - i = k + 1 - j
        BY <3>1, <2>1, <2>3, <2>7
      <4> QED BY <4>1, <3>1, <2>1
    <3>2. CASE i \in 1 .. k /\ ~(j \in 1 .. k)
      BY <3>2, <2>1, <2>3, <2>5, <2>7
    <3>3. CASE ~(i \in 1 .. k) /\ j \in 1 .. k
      BY <3>3, <2>1, <2>3, <2>5, <2>7
    <3>4. CASE ~(i \in 1 .. k) /\ ~(j \in 1 .. k)
      <4>1. i > k /\ j > k /\ i \in Nat /\ j \in Nat
        BY <3>4, <2>1, <2>5
      <4>2. /\ all[i] = free[i - k] /\ i - k \in 1 .. Len(free)
            /\ all[j] = free[j - k] /\ j - k \in 1 .. Len(free)
        BY <3>4, <2>1, <2>5
      <4>3. i - k = j - k
        BY <4>2, <2>3, <2>7
      <4> QED BY <4>1, <4>3, <2>1
    <3> QED BY <3>1, <3>2, <3>3, <3>4
  <2>8. ASSUME NEW id \in Running', NEW i \in 1 .. Len(Envs[id].lists[q]), NEW j \in 1 .. Len(all)
        PROVE  Envs[id].lists[q][i] # all[j]
    <3>1. CASE j \in 1 .. k
      <4>1. all[j] = s[k + 1 - j] /\ k + 1 - j \in 1 .. k
        BY <3>1, <2>1
      <4> QED BY <4>1, <2>4
    <3>2. CASE ~(j \in 1 .. k)
      <4>1. all[j] = free[j - k] /\ j - k \in 1 .. Len(free)
        BY <3>2, <2>1, <2>5
      <4> QED BY <4>1, <2>4
    <3> QED BY <3>1, <3>2
  <2> QED BY <2>2, <2>6, <2>7, <2>8
<1>17. ListsAreRight'
  <2>1. ASSUME NEW id \in Running', NEW q \in Queues
        PROVE  /\ Envs'[id] = Envs[id] /\ id \in Running
               /\ Len(Envs[id].lists[q]) = Len(submitted'[id][q])
               /\ \A i \in 1 .. Len(Envs[id].lists[q]) : Envs[id].lists[q][i] \in 1 .. made'[q]
    BY <1>2, <1>3, <1>5 DEF ListsAreRight
  <2>2. ASSUME NEW q \in Queues, NEW id \in Running', NEW jd \in Running',
               NEW i \in 1 .. Len(Envs'[id].lists[q]), NEW j \in 1 .. Len(Envs'[jd].lists[q]),
               Envs'[id].lists[q][i] = Envs'[jd].lists[q][j]
        PROVE  id = jd /\ i = j
    <3>1. /\ id \in Running /\ jd \in Running
          /\ i \in 1 .. Len(Envs[id].lists[q]) /\ j \in 1 .. Len(Envs[jd].lists[q])
          /\ Envs[id].lists[q][i] = Envs[jd].lists[q][j]
      BY <2>1, <2>2
    <3> QED BY <3>1, <1>2 DEF ListsAreRight
  <2>3. ASSUME NEW q \in Queues, NEW id \in Running'
        PROVE  /\ Len(Envs'[id].lists[q]) = Len(submitted'[id][q])
               /\ \A i \in 1 .. Len(Envs'[id].lists[q]) :
                     /\ Envs'[id].lists[q][i] \in 1 .. made'[q]
                     /\ \A j \in 1 .. Len(mFree'[q]) : Envs'[id].lists[q][i] # mFree'[q][j]
    BY <2>1, <1>16
  <2> QED BY <1>16, <2>2, <2>3 DEF ListsAreRight
<1> QED BY <1>9, <1>10, <1>11, <1>12, <1>13, <1>14, <1>15, <1>17 DEF FenceInv

-----------------------------------------------------------------------------
(* The GPU takes the first entry of a queue.                                 *)

LEMMA QueueMovesOn ==
    ASSUME Types, NEW q \in Queues, gpuQueue[q] # <<>>,
           gpuQueue' = [gpuQueue EXCEPT ![q] = Tail(@)]
    PROVE  /\ gpuQueue' \in [Queues -> Seq(Entries)]
           /\ Len(gpuQueue[q]) \in Nat /\ Len(gpuQueue'[q]) \in Nat
           /\ 1 \in 1 .. Len(gpuQueue[q]) /\ Head(gpuQueue[q]) = gpuQueue[q][1]
           /\ \A m \in 1 .. Len(gpuQueue'[q]) :
                 /\ m + 1 \in 1 .. Len(gpuQueue[q]) /\ 1 < m + 1
                 /\ gpuQueue'[q][m] = gpuQueue[q][m + 1]
                 /\ IsLists(q, m)' <=> IsLists(q, m + 1)
                 /\ IsSignal(q, m)' <=> IsSignal(q, m + 1)
           /\ \A m \in 1 .. Len(gpuQueue[q]) : m # 1 =>
                 m - 1 \in 1 .. Len(gpuQueue'[q]) /\ m - 1 + 1 = m
           /\ \A p \in Queues : p # q =>
                 /\ gpuQueue'[p] = gpuQueue[p]
                 /\ \A m : (IsLists(p, m)' <=> IsLists(p, m)) /\ (IsSignal(p, m)' <=> IsSignal(p, m))
<1>1. PICK s \in Seq(Entries) : s = gpuQueue[q]
  BY DEF Types
<1>2. /\ Len(s) \in Nat /\ Len(s) > 0 /\ Head(s) = s[1]
      /\ Tail(s) \in Seq(Entries) /\ Len(Tail(s)) = Len(s) - 1
      /\ \A i \in 1 .. Len(s) - 1 : Tail(s)[i] = s[i + 1]
  <2>1. Len(s) \in Nat /\ Len(s) > 0
    BY <1>1, SeqIsEmpty
  <2>2. Head(s) = s[1]
    BY <1>1
  <2> QED BY <2>1, <2>2, <1>1, HeadTailProperties
<1>3. gpuQueue \in [Queues -> Seq(Entries)]
  BY DEF Types
<1>4. gpuQueue'[q] = Tail(s) /\ \A p \in Queues : p # q => gpuQueue'[p] = gpuQueue[p]
  BY <1>1, <1>3
<1>5. gpuQueue' \in [Queues -> Seq(Entries)]
  BY <1>2, <1>3, <1>4
<1>6. ASSUME NEW m \in 1 .. Len(Tail(s))
      PROVE  m + 1 \in 1 .. Len(s) /\ 1 < m + 1 /\ Tail(s)[m] = s[m + 1]
  BY <1>2
<1>7. \A m \in 1 .. Len(s) : m # 1 => m - 1 \in 1 .. Len(Tail(s)) /\ m - 1 + 1 = m
  BY <1>2
<1>8. \A m \in 1 .. Len(Tail(s)) : /\ IsLists(q, m)' <=> IsLists(q, m + 1)
                                   /\ IsSignal(q, m)' <=> IsSignal(q, m + 1)
  BY <1>1, <1>4, <1>6 DEF IsLists, IsSignal
<1>9. ASSUME NEW p \in Queues, p # q
      PROVE  \A m : (IsLists(p, m)' <=> IsLists(p, m)) /\ (IsSignal(p, m)' <=> IsSignal(p, m))
  BY <1>4, <1>9 DEF IsLists, IsSignal
<1>10. Len(Tail(s)) \in Nat /\ 1 \in 1 .. Len(s)
  BY <1>2
<1> QED BY <1>1, <1>2, <1>4, <1>5, <1>6, <1>7, <1>8, <1>9, <1>10

LEMMA QueuesStayInOrder ==
    ASSUME FenceInv, NEW q \in Queues, gpuQueue[q] # <<>>,
           gpuQueue' = [gpuQueue EXCEPT ![q] = Tail(@)],
           UNCHANGED <<submitted, Running, Envs, mNextValue>>,
           \A p \in Queues : \A m \in 1 .. Len(gpuQueue'[p]) :
              /\ IsLists(p, m)' => <<gpuQueue'[p][m].id, p>> \notin executed'
              /\ IsSignal(p, m)' => gpuFence'[p] < gpuQueue'[p][m].value
    PROVE  QueuesAreInOrder'
<1>1. Types /\ QueuesAreInOrder
  BY DEF FenceInv
<1>2. \A id, p : Uses(id, p)' <=> Uses(id, p)
  BY DEF Uses
<1>3. ASSUME NEW p \in Queues, NEW m \in 1 .. Len(gpuQueue'[p]), IsLists(p, m)',
             NEW id, id = gpuQueue'[p][m].id
      PROVE  AreListsOf(p, m, id)'
  <2>1. CASE p = q
    <3>1. /\ m + 1 \in 1 .. Len(gpuQueue[q]) /\ IsLists(q, m + 1)
          /\ gpuQueue'[q][m] = gpuQueue[q][m + 1] /\ 1 < m + 1
      BY <2>1, <1>1, <1>3, QueueMovesOn
    <3>2. AreListsOf(q, m + 1, id)
      BY <3>1, <2>1, <1>1, <1>3 DEF QueuesAreInOrder
    <3>3. m + 1 + 1 \in 1 .. Len(gpuQueue[q]) /\ IsSignal(q, m + 1 + 1)
      BY <3>2 DEF AreListsOf
    <3>4. m + 1 + 1 # 1 /\ m + 1 + 1 - 1 = m + 1
      BY <2>1
    <3>5. m + 1 \in 1 .. Len(gpuQueue'[q])
      BY <3>3, <3>4, <1>1, QueueMovesOn
    <3>6. IsSignal(q, m + 1)' /\ gpuQueue'[q][m + 1] = gpuQueue[q][m + 1 + 1]
      BY <3>3, <3>5, <1>1, QueueMovesOn
    <3> QED BY <3>1, <3>2, <3>5, <3>6, <2>1, <1>2, <1>3 DEF AreListsOf
  <2>2. CASE p # q
    <3>1. /\ gpuQueue'[p] = gpuQueue[p]
          /\ \A k : (IsLists(p, k)' <=> IsLists(p, k)) /\ (IsSignal(p, k)' <=> IsSignal(p, k))
      BY <2>2, <1>1, QueueMovesOn
    <3>2. AreListsOf(p, m, id)
      BY <3>1, <1>1, <1>3 DEF QueuesAreInOrder
    <3> QED BY <3>1, <3>2, <1>2, <1>3 DEF AreListsOf
  <2> QED BY <2>1, <2>2
<1>4. ASSUME NEW p \in Queues, NEW m \in 1 .. Len(gpuQueue'[p]), IsSignal(p, m)'
      PROVE  /\ m > 1 => IsLists(p, m - 1)'
             /\ gpuQueue'[p][m].value < mNextValue'[p]
             /\ \A k \in 1 .. Len(gpuQueue'[p]) : m < k /\ IsSignal(p, k)' =>
                   gpuQueue'[p][m].value < gpuQueue'[p][k].value
  <2>1. CASE p = q
    <3>1. /\ m + 1 \in 1 .. Len(gpuQueue[q]) /\ IsSignal(q, m + 1)
          /\ gpuQueue'[q][m] = gpuQueue[q][m + 1] /\ 1 < m + 1
      BY <2>1, <1>1, <1>4, QueueMovesOn
    <3>2. /\ IsLists(q, m + 1 - 1)
          /\ gpuQueue[q][m + 1].value < mNextValue[q]
          /\ \A k \in 1 .. Len(gpuQueue[q]) : m + 1 < k /\ IsSignal(q, k) =>
                gpuQueue[q][m + 1].value < gpuQueue[q][k].value
      BY <3>1, <1>1 DEF QueuesAreInOrder
    <3>3. ASSUME m > 1 PROVE IsLists(q, m - 1)'
      <4>1. /\ m \in 1 .. Len(gpuQueue[q]) /\ m # 1 /\ m + 1 - 1 = m
        BY <3>1, <3>3, <2>1
      <4>2. m - 1 \in 1 .. Len(gpuQueue'[q]) /\ m - 1 + 1 = m
        BY <4>1, <1>1, QueueMovesOn
      <4>3. IsLists(q, m - 1)' <=> IsLists(q, m - 1 + 1)
        BY <4>2, <1>1, QueueMovesOn
      <4> QED BY <4>1, <4>2, <4>3, <3>2
    <3>4. ASSUME NEW k \in 1 .. Len(gpuQueue'[q]), m < k, IsSignal(q, k)'
          PROVE  gpuQueue'[q][m].value < gpuQueue'[q][k].value
      <4>1. /\ k + 1 \in 1 .. Len(gpuQueue[q]) /\ IsSignal(q, k + 1)
            /\ gpuQueue'[q][k] = gpuQueue[q][k + 1]
        BY <3>4, <1>1, QueueMovesOn
      <4>2. m + 1 < k + 1
        BY <3>4, <2>1
      <4> QED BY <4>1, <4>2, <3>1, <3>2
    <3> QED BY <3>1, <3>2, <3>3, <3>4, <2>1
  <2>2. CASE p # q
    <3>1. /\ gpuQueue'[p] = gpuQueue[p]
          /\ \A k : (IsLists(p, k)' <=> IsLists(p, k)) /\ (IsSignal(p, k)' <=> IsSignal(p, k))
      BY <2>2, <1>1, QueueMovesOn
    <3> QED BY <3>1, <1>1, <1>4 DEF QueuesAreInOrder
  <2> QED BY <2>1, <2>2
<1>5. \A p \in Queues : \A m \in 1 .. Len(gpuQueue'[p]) :
         IsLists(p, m)' => \A id : id = gpuQueue'[p][m].id => AreListsOf(p, m, id)'
  BY <1>3
<1> QED BY <1>4, <1>5 DEF QueuesAreInOrder

LEMMA ExecuteKeepsFences ==
    ASSUME FenceInv, NEW q \in Queues, ExecuteOnGPU(q)
    PROVE  FenceInv'
<1>1. /\ Types /\ BundlesAreInOrder /\ ValuesIncrease /\ QueuesAreInOrder
      /\ HeadIsExecuted /\ FencesAreRight /\ ListsAreRight /\ CompletedMeansExecuted
  BY DEF FenceInv
<1>2. /\ gpuQueue[q] # <<>> /\ gpuQueue' = [gpuQueue EXCEPT ![q] = Tail(@)]
      /\ Head(gpuQueue[q]).kind = "lists" /\ executed' = executed \cup {<<Head(gpuQueue[q]).id, q>>}
      /\ UNCHANGED <<submitted, extracted, mRunningJobQueue, mFree, made, mNextValue, mCurrState,
                     completed, gpuFence>>
  BY DEF ExecuteOnGPU, engine
<1>3. PICK n : n = gpuQueue[q][1].id
  OBVIOUS
<1>4. /\ 1 \in 1 .. Len(gpuQueue[q]) /\ IsLists(q, 1) /\ executed' = executed \cup {<<n, q>>}
      /\ gpuQueue' \in [Queues -> Seq(Entries)]
  BY <1>1, <1>2, <1>3, QueueMovesOn DEF IsLists
<1>5. /\ 2 \in 1 .. Len(gpuQueue[q]) /\ IsSignal(q, 2) /\ n \in Running /\ Envs[n].submitted
      /\ Uses(n, q) /\ gpuQueue[q][2].value = Envs[n].fenceValue[q]
  <2>1. AreListsOf(q, 1, n) /\ 1 + 1 = 2
    BY <1>1, <1>3, <1>4 DEF QueuesAreInOrder
  <2> QED BY <2>1 DEF AreListsOf
<1>6. Completed' = Completed /\ Running' = Running /\ Envs' = Envs
  BY <1>2, NoEnvironmentChanges
<1>7. \A id, p : Uses(id, p)' <=> Uses(id, p)
  BY <1>2 DEF Uses
<1>8. Types'
  BY <1>1, <1>2, <1>4 DEF Types
<1>9. BundlesAreInOrder'
  <2>1. n \in 1 .. extracted
    BY <1>1, <1>5, EnvironmentTypes
  <2> QED BY <2>1, <1>1, <1>2, <1>4, <1>6 DEF BundlesAreInOrder
<1>10. ValuesIncrease' /\ ListsAreRight'
  <2>1. \A p \in Queues : gpuFence'[p] < mNextValue'[p]
    BY <1>1, <1>2 DEF ValuesIncrease
  <2>2. \A id \in Running : SameCommands(Envs'[id], Envs[id])
    BY <1>6 DEF SameCommands
  <2> QED BY <2>1, <2>2, <1>1, <1>2, <1>6, ValuesAndListsStay
<1>11. CompletedMeansExecuted'
  BY <1>1, <1>2 DEF CompletedMeansExecuted
\* Values tell the bundles of a queue apart.
<1>12. ASSUME NEW id \in Running, Uses(id, q), Envs[id].fenceValue[q] = Envs[n].fenceValue[q]
       PROVE  id = n
  <2>1. id \in Nat /\ n \in Nat
    BY <1>1, <1>5, EnvironmentTypes
  <2>2. Envs[n].fenceValue[q] \in Nat
    BY <1>1, <1>5, EnvironmentTypes, FieldTypes DEF ValuesIncrease, Uses
  <2>3. ~(id < n) /\ ~(n < id)
    BY <2>2, <1>1, <1>5, <1>12 DEF ValuesIncrease
  <2> QED BY <2>1, <2>3
<1>13. QueuesAreInOrder'
  <2>1. ASSUME NEW p \in Queues, NEW m \in 1 .. Len(gpuQueue'[p]), IsLists(p, m)',
               NEW id, id = gpuQueue'[p][m].id
        PROVE  <<id, p>> \notin executed'
    <3>1. CASE p = q
      <4>1. /\ m + 1 \in 1 .. Len(gpuQueue[q]) /\ IsLists(q, m + 1) /\ 1 < m + 1
            /\ gpuQueue'[q][m] = gpuQueue[q][m + 1]
        BY <3>1, <2>1, <1>1, <1>2, QueueMovesOn
      <4>2. AreListsOf(q, m + 1, id)
        BY <4>1, <3>1, <2>1, <1>1 DEF QueuesAreInOrder
      <4>3. /\ m + 1 + 1 \in 1 .. Len(gpuQueue[q]) /\ IsSignal(q, m + 1 + 1)
            /\ gpuQueue[q][m + 1 + 1].value = Envs[id].fenceValue[q] /\ <<id, q>> \notin executed
        BY <4>2 DEF AreListsOf
      <4>4. 2 < m + 1 + 1
        BY <4>1, <3>1
      <4>5. gpuQueue[q][2].value < gpuQueue[q][m + 1 + 1].value
        BY <4>3, <4>4, <1>1, <1>5 DEF QueuesAreInOrder
      <4>6. Envs[n].fenceValue[q] \in Nat
        BY <1>1, <1>5, EnvironmentTypes, FieldTypes DEF ValuesIncrease, Uses
      <4>7. id # n
        BY <4>3, <4>5, <4>6, <1>5
      <4> QED BY <4>3, <4>7, <3>1, <1>4
    <3>2. CASE p # q
      <4>1. gpuQueue'[p] = gpuQueue[p] /\ (IsLists(p, m)' <=> IsLists(p, m))
        BY <3>2, <1>1, <1>2, QueueMovesOn
      <4>2. <<id, p>> \notin executed
        BY <4>1, <2>1, <1>1 DEF QueuesAreInOrder, AreListsOf
      <4> QED BY <4>2, <3>2, <1>4
    <3> QED BY <3>1, <3>2
  <2>2. ASSUME NEW p \in Queues, NEW m \in 1 .. Len(gpuQueue'[p]), IsSignal(p, m)'
        PROVE  gpuFence'[p] < gpuQueue'[p][m].value
    <3>1. CASE p = q
      <4>1. /\ m + 1 \in 1 .. Len(gpuQueue[q]) /\ IsSignal(q, m + 1)
            /\ gpuQueue'[q][m] = gpuQueue[q][m + 1]
        BY <3>1, <2>2, <1>1, <1>2, QueueMovesOn
      <4> QED BY <4>1, <3>1, <1>1, <1>2 DEF QueuesAreInOrder
    <3>2. CASE p # q
      <4>1. gpuQueue'[p] = gpuQueue[p] /\ (IsSignal(p, m)' <=> IsSignal(p, m))
        BY <3>2, <1>1, <1>2, QueueMovesOn
      <4> QED BY <4>1, <2>2, <1>1, <1>2 DEF QueuesAreInOrder
    <3> QED BY <3>1, <3>2
  <2>3. \A p \in Queues : \A m \in 1 .. Len(gpuQueue'[p]) :
           /\ IsLists(p, m)' => <<gpuQueue'[p][m].id, p>> \notin executed'
           /\ IsSignal(p, m)' => gpuFence'[p] < gpuQueue'[p][m].value
    BY <2>1, <2>2
  <2> QED BY <2>3, <1>2, <1>6, QueuesStayInOrder
<1>14. HeadIsExecuted'
  <2> SUFFICES ASSUME NEW p \in Queues, 1 <= Len(gpuQueue'[p]), IsSignal(p, 1)',
                      NEW id \in Running, Uses(id, p),
                      Envs[id].fenceValue[p] = gpuQueue'[p][1].value
               PROVE  <<id, p>> \in executed'
    BY <1>6, <1>7 DEF HeadIsExecuted
  <2>1. CASE p = q
    <3>1. 1 \in 1 .. Len(gpuQueue'[q]) /\ 1 + 1 = 2
      <4>1. Len(gpuQueue'[q]) \in Nat
        BY <1>1, <1>2, QueueMovesOn
      <4> QED BY <4>1, <2>1
    <3>2. gpuQueue'[q][1] = gpuQueue[q][2]
      <4>1. PICK one, two : one = 1 /\ two = 2
        OBVIOUS
      <4>2. one + 1 = two /\ one \in 1 .. Len(gpuQueue'[q])
        BY <4>1, <3>1
      <4>3. gpuQueue'[q][one] = gpuQueue[q][one + 1]
        BY <4>2, <1>1, <1>2, QueueMovesOn
      <4> QED BY <4>1, <4>2, <4>3
    <3>3. id = n
      BY <3>2, <2>1, <1>5, <1>12
    <3> QED BY <3>3, <2>1, <1>4
  <2>2. CASE p # q
    <3>1. gpuQueue'[p] = gpuQueue[p] /\ (IsSignal(p, 1)' <=> IsSignal(p, 1))
      BY <2>2, <1>1, <1>2, QueueMovesOn
    <3> QED BY <3>1, <1>1, <1>4 DEF HeadIsExecuted
  <2> QED BY <2>1, <2>2
<1>15. ASSUME NEW id \in Running, NEW p \in Queues, Uses(id, p)
       PROVE  /\ Envs[id].submitted => IsSignalled(id, p)' \/ IsQueued(id, p)'
              /\ ~Envs[id].submitted => IsAhead(id, p)'
  <2>1. IsSignalled(id, p) => IsSignalled(id, p)'
    BY <1>2, <1>4, <1>6 DEF IsSignalled
  <2>2. ASSUME IsQueued(id, p) PROVE IsQueued(id, p)'
    <3>1. PICK m \in 1 .. Len(gpuQueue[p]) : /\ IsSignal(p, m)
                                             /\ gpuQueue[p][m].value = Envs[id].fenceValue[p]
      BY <2>2 DEF IsQueued
    <3>2. CASE p = q
      <4>1. m # 1
        BY <3>1, <3>2, <1>4 DEF IsLists, IsSignal
      <4>2. m - 1 \in 1 .. Len(gpuQueue'[q]) /\ m - 1 + 1 = m
        BY <4>1, <3>2, <1>1, <1>2, QueueMovesOn
      <4>3. IsSignal(q, m - 1)' /\ gpuQueue'[q][m - 1] = gpuQueue[q][m]
        <5>1. /\ gpuQueue'[q][m - 1] = gpuQueue[q][m - 1 + 1]
              /\ IsSignal(q, m - 1)' <=> IsSignal(q, m - 1 + 1)
          BY <4>2, <1>1, <1>2, QueueMovesOn
        <5> QED BY <5>1, <4>2, <3>1, <3>2
      <4> QED BY <4>2, <4>3, <3>1, <3>2, <1>6 DEF IsQueued
    <3>3. CASE p # q
      <4>1. gpuQueue'[p] = gpuQueue[p] /\ (IsSignal(p, m)' <=> IsSignal(p, m))
        BY <3>3, <1>1, <1>2, QueueMovesOn
      <4> QED BY <4>1, <3>1, <1>6 DEF IsQueued
    <3> QED BY <3>2, <3>3
  <2>3. ASSUME IsAhead(id, p), ~Envs[id].submitted PROVE IsAhead(id, p)'
    <3>1. <<id, p>> \notin executed'
      BY <2>3, <1>4, <1>5 DEF IsAhead
    <3>2. ASSUME NEW m \in 1 .. Len(gpuQueue'[p]), IsSignal(p, m)'
          PROVE  gpuQueue'[p][m].value < Envs[id].fenceValue[p]
      <4>1. CASE p = q
        <5>1. /\ m + 1 \in 1 .. Len(gpuQueue[q]) /\ IsSignal(q, m + 1)
              /\ gpuQueue'[q][m] = gpuQueue[q][m + 1]
          BY <4>1, <3>2, <1>1, <1>2, QueueMovesOn
        <5> QED BY <5>1, <4>1, <2>3 DEF IsAhead
      <4>2. CASE p # q
        <5>1. gpuQueue'[p] = gpuQueue[p] /\ (IsSignal(p, m)' <=> IsSignal(p, m))
          BY <4>2, <1>1, <1>2, QueueMovesOn
        <5> QED BY <5>1, <3>2, <2>3 DEF IsAhead
      <4> QED BY <4>1, <4>2
    <3> QED BY <3>1, <3>2, <2>3, <1>2, <1>6 DEF IsAhead
  <2> QED BY <2>1, <2>2, <2>3, <1>1, <1>15 DEF FencesAreRight
<1>16. FencesAreRight'
  BY <1>6, <1>7, <1>15 DEF FencesAreRight
<1> QED BY <1>8, <1>9, <1>10, <1>11, <1>13, <1>14, <1>16 DEF FenceInv

LEMMA SignalKeepsFences ==
    ASSUME FenceInv, NEW q \in Queues, SignalOnGPU(q)
    PROVE  FenceInv'
<1>1. /\ Types /\ BundlesAreInOrder /\ ValuesIncrease /\ QueuesAreInOrder
      /\ HeadIsExecuted /\ FencesAreRight /\ ListsAreRight /\ CompletedMeansExecuted
  BY DEF FenceInv
<1>2. PICK v : v = gpuQueue[q][1].value
  OBVIOUS
<1>3. /\ gpuQueue[q] # <<>> /\ gpuQueue' = [gpuQueue EXCEPT ![q] = Tail(@)]
      /\ Head(gpuQueue[q]).kind = "signal"
      /\ gpuFence' = [gpuFence EXCEPT ![q] = Head(gpuQueue[q]).value]
      /\ UNCHANGED <<submitted, extracted, mRunningJobQueue, mFree, made, mNextValue, mCurrState,
                     completed, executed>>
  BY DEF SignalOnGPU, engine
<1>4. /\ 1 \in 1 .. Len(gpuQueue[q]) /\ IsSignal(q, 1) /\ 1 <= Len(gpuQueue[q])
      /\ gpuQueue' \in [Queues -> Seq(Entries)]
      /\ gpuQueue[q][1] \in Entries /\ Len(gpuQueue[q]) \in Nat
  <2>1. /\ 1 \in 1 .. Len(gpuQueue[q]) /\ IsSignal(q, 1)
        /\ gpuQueue' \in [Queues -> Seq(Entries)] /\ Len(gpuQueue[q]) \in Nat
    BY <1>1, <1>3, QueueMovesOn DEF IsSignal
  <2>2. gpuQueue[q] \in Seq(Entries)
    BY <1>1 DEF Types
  <2> QED BY <2>1, <2>2, ElementOfSeq
<1>5. /\ gpuFence'[q] = v /\ v \in Nat /\ gpuFence[q] < v /\ v < mNextValue[q]
      /\ gpuFence' \in [Queues -> Nat]
      /\ \A p \in Queues : p # q => gpuFence'[p] = gpuFence[p]
  <2>1. v \in Nat
    BY <1>2, <1>4 DEF Entries, IsSignal
  <2>2. gpuFence \in [Queues -> Nat] /\ Head(gpuQueue[q]).value = v
    BY <1>1, <1>2, <1>3, QueueMovesOn DEF Types
  <2>3. gpuFence[q] < v /\ v < mNextValue[q]
    BY <1>1, <1>2, <1>4 DEF QueuesAreInOrder
  <2> QED BY <2>1, <2>2, <2>3, <1>3
<1>6. Completed' = Completed /\ Running' = Running /\ Envs' = Envs
  BY <1>3, NoEnvironmentChanges
<1>7. \A id, p : Uses(id, p)' <=> Uses(id, p)
  BY <1>3 DEF Uses
<1>8. Types'
  BY <1>1, <1>3, <1>4, <1>5 DEF Types
<1>9. BundlesAreInOrder'
  BY <1>1, <1>3, <1>6 DEF BundlesAreInOrder
<1>10. ValuesIncrease' /\ ListsAreRight'
  <2>1. \A p \in Queues : gpuFence'[p] < mNextValue'[p]
    BY <1>1, <1>3, <1>5 DEF ValuesIncrease
  <2>2. \A id \in Running : SameCommands(Envs'[id], Envs[id])
    BY <1>6 DEF SameCommands
  <2> QED BY <2>1, <2>2, <1>1, <1>3, <1>6, ValuesAndListsStay
<1>11. CompletedMeansExecuted'
  BY <1>1, <1>3 DEF CompletedMeansExecuted
<1>12. QueuesAreInOrder'
  <2>1. ASSUME NEW p \in Queues, NEW m \in 1 .. Len(gpuQueue'[p])
        PROVE  /\ IsLists(p, m)' => <<gpuQueue'[p][m].id, p>> \notin executed'
               /\ IsSignal(p, m)' => gpuFence'[p] < gpuQueue'[p][m].value
    <3>1. CASE p = q
      <4>1. /\ m + 1 \in 1 .. Len(gpuQueue[q]) /\ 1 < m + 1
            /\ gpuQueue'[q][m] = gpuQueue[q][m + 1]
            /\ IsLists(q, m)' <=> IsLists(q, m + 1)
            /\ IsSignal(q, m)' <=> IsSignal(q, m + 1)
        BY <3>1, <2>1, <1>1, <1>3, QueueMovesOn
      <4>2. IsLists(q, m + 1) => <<gpuQueue[q][m + 1].id, q>> \notin executed
        BY <4>1, <1>1 DEF QueuesAreInOrder, AreListsOf
      <4>3. IsSignal(q, m + 1) => v < gpuQueue[q][m + 1].value
        <5>1. \A k \in 1 .. Len(gpuQueue[q]) : 1 < k /\ IsSignal(q, k) =>
                 gpuQueue[q][1].value < gpuQueue[q][k].value
          BY <1>1, <1>4 DEF QueuesAreInOrder
        <5> QED BY <5>1, <4>1, <1>2
      <4> QED BY SMTT(30), <4>1, <4>2, <4>3, <3>1, <1>3, <1>5
    <3>2. CASE p # q
      <4>1. /\ gpuQueue'[p] = gpuQueue[p] /\ gpuFence'[p] = gpuFence[p]
            /\ IsLists(p, m)' <=> IsLists(p, m)
            /\ IsSignal(p, m)' <=> IsSignal(p, m)
        BY <3>2, <1>1, <1>3, <1>5, QueueMovesOn
      <4> QED BY <4>1, <2>1, <1>1, <1>3 DEF QueuesAreInOrder, AreListsOf
    <3> QED BY <3>1, <3>2
  <2> QED BY <2>1, <1>3, <1>6, QueuesStayInOrder
<1>13. HeadIsExecuted'
  <2> SUFFICES ASSUME NEW p \in Queues, 1 <= Len(gpuQueue'[p]), IsSignal(p, 1)',
                      NEW id \in Running, Uses(id, p),
                      Envs[id].fenceValue[p] = gpuQueue'[p][1].value
               PROVE  <<id, p>> \in executed
    BY <1>3, <1>6, <1>7 DEF HeadIsExecuted
  <2>1. CASE p = q
    <3>1. Len(gpuQueue'[q]) \in Nat
      BY <1>1, <1>3, QueueMovesOn
    <3>2. 1 \in 1 .. Len(gpuQueue'[q]) /\ 1 + 1 = 2
      BY <3>1, <2>1
    <3>3. 2 \in 1 .. Len(gpuQueue[q]) /\ IsSignal(q, 2)
      <4>1. PICK one, two : one = 1 /\ two = 2
        OBVIOUS
      <4>2. one + 1 = two /\ one \in 1 .. Len(gpuQueue'[q]) /\ IsSignal(q, one)'
        BY <4>1, <3>2, <2>1
      <4>3. one + 1 \in 1 .. Len(gpuQueue[q]) /\ IsSignal(q, one + 1)
        BY <4>2, <1>1, <1>3, QueueMovesOn
      <4> QED BY <4>1, <4>2, <4>3
    <3>4. 2 > 1 /\ 2 - 1 = 1
      OBVIOUS
    <3>5. IsLists(q, 1)
      BY <3>3, <3>4, <1>1 DEF QueuesAreInOrder
    <3> QED BY <3>5, <1>4 DEF IsLists, IsSignal
  <2>2. CASE p # q
    <3>1. gpuQueue'[p] = gpuQueue[p] /\ (IsSignal(p, 1)' <=> IsSignal(p, 1))
      BY <2>2, <1>1, <1>3, QueueMovesOn
    <3> QED BY <3>1, <1>1 DEF HeadIsExecuted
  <2> QED BY <2>1, <2>2
<1>14. ASSUME NEW id \in Running, NEW p \in Queues, Uses(id, p)
       PROVE  /\ Envs[id].submitted => IsSignalled(id, p)' \/ IsQueued(id, p)'
              /\ ~Envs[id].submitted => IsAhead(id, p)'
  <2>1. Envs[id].fenceValue[p] \in Nat /\ gpuFence[p] \in Nat
    BY <1>1, <1>14, EnvironmentTypes, FieldTypes DEF ValuesIncrease, Uses, Types
  <2>2. IsSignalled(id, p) => IsSignalled(id, p)'
    BY <2>1, <1>3, <1>5, <1>6 DEF IsSignalled
  <2>3. ASSUME IsQueued(id, p) PROVE IsSignalled(id, p)' \/ IsQueued(id, p)'
    <3>1. PICK m \in 1 .. Len(gpuQueue[p]) : /\ IsSignal(p, m)
                                             /\ gpuQueue[p][m].value = Envs[id].fenceValue[p]
      BY <2>3 DEF IsQueued
    <3>2. CASE p = q /\ m = 1
      <4>1. <<id, q>> \in executed
        BY <3>1, <3>2, <1>1, <1>4, <1>14 DEF HeadIsExecuted
      <4> QED BY <4>1, <3>1, <3>2, <2>1, <1>2, <1>3, <1>5, <1>6 DEF IsSignalled
    <3>3. CASE p = q /\ m # 1
      <4>1. m - 1 \in 1 .. Len(gpuQueue'[q]) /\ m - 1 + 1 = m
        BY <3>3, <1>1, <1>3, QueueMovesOn
      <4>2. IsSignal(q, m - 1)' /\ gpuQueue'[q][m - 1] = gpuQueue[q][m]
        <5>1. /\ gpuQueue'[q][m - 1] = gpuQueue[q][m - 1 + 1]
              /\ IsSignal(q, m - 1)' <=> IsSignal(q, m - 1 + 1)
          BY <4>1, <1>1, <1>3, QueueMovesOn
        <5> QED BY <5>1, <4>1, <3>1, <3>3
      <4> QED BY <4>1, <4>2, <3>1, <3>3, <1>6 DEF IsQueued
    <3>4. CASE p # q
      <4>1. gpuQueue'[p] = gpuQueue[p] /\ (IsSignal(p, m)' <=> IsSignal(p, m))
        BY <3>4, <1>1, <1>3, QueueMovesOn
      <4> QED BY <4>1, <3>1, <1>6 DEF IsQueued
    <3> QED BY <3>2, <3>3, <3>4
  <2>4. ASSUME IsAhead(id, p) PROVE IsAhead(id, p)'
    <3>1. gpuFence'[p] < Envs[id].fenceValue[p]
      <4>1. CASE p = q
        <5>1. v < Envs[id].fenceValue[p]
          BY <4>1, <2>4, <1>2, <1>4 DEF IsAhead
        <5> QED BY <5>1, <4>1, <1>5
      <4>2. CASE p # q
        BY <4>2, <2>1, <2>4, <1>5 DEF IsAhead
      <4> QED BY <4>1, <4>2
    <3>2. ASSUME NEW m \in 1 .. Len(gpuQueue'[p]), IsSignal(p, m)'
          PROVE  gpuQueue'[p][m].value < Envs[id].fenceValue[p]
      <4>1. CASE p = q
        <5>1. /\ m + 1 \in 1 .. Len(gpuQueue[q]) /\ IsSignal(q, m + 1)
              /\ gpuQueue'[q][m] = gpuQueue[q][m + 1]
          BY <4>1, <3>2, <1>1, <1>3, QueueMovesOn
        <5> QED BY <5>1, <4>1, <2>4 DEF IsAhead
      <4>2. CASE p # q
        <5>1. gpuQueue'[p] = gpuQueue[p] /\ (IsSignal(p, m)' <=> IsSignal(p, m))
          BY <4>2, <1>1, <1>3, QueueMovesOn
        <5> QED BY <5>1, <3>2, <2>4 DEF IsAhead
      <4> QED BY <4>1, <4>2
    <3>3. Envs[id].fenceValue[p] > gpuFence'[p]
      <4>1. gpuFence'[p] \in Nat
        BY <1>5
      <4> QED BY <4>1, <3>1, <2>1
    <3> QED BY <3>2, <3>3, <2>4, <1>3, <1>6 DEF IsAhead
  <2> QED BY <2>2, <2>3, <2>4, <1>1, <1>14 DEF FencesAreRight
<1>15. FencesAreRight'
  BY <1>6, <1>7, <1>14 DEF FencesAreRight
<1> QED BY <1>8, <1>9, <1>10, <1>11, <1>12, <1>13, <1>15 DEF FenceInv

-----------------------------------------------------------------------------
(* The invariant, and what follows from it.                                  *)

LEMMA FenceInvStart == ASSUME Init PROVE FenceInv
<1>1. /\ Len(mRunningJobQueue) = 0 /\ Len(submitted) = 0 /\ extracted = 0
      /\ mRunningJobQueue \in Seq(Environments) /\ submitted \in Seq(Bundles)
  BY DEF Init
<1>2. Completed = 0 /\ Running = {}
  BY <1>1 DEF Completed, Running
<1>3. \A q \in Queues : /\ mFree[q] = <<>> /\ gpuQueue[q] = <<>> /\ made[q] = 0
                        /\ mNextValue[q] = 1 /\ gpuFence[q] = 0
  BY DEF Init
<1>4. \A q \in Queues : 1 .. Len(mFree[q]) = {} /\ 1 .. Len(gpuQueue[q]) = {} /\ ~(1 <= Len(gpuQueue[q]))
  BY <1>3
<1>5. Types
  <2>1. /\ mFree \in [Queues -> Seq(Nat)] /\ made \in [Queues -> Nat]
        /\ mNextValue \in [Queues -> Nat] /\ gpuQueue \in [Queues -> Seq(Entries)]
        /\ gpuFence \in [Queues -> Nat]
    BY DEF Init
  <2>2. mCurrState \in Memory
    BY RenderJobsAssumption DEF Init, Memory
  <2> QED BY <2>1, <2>2, <1>1 DEF Types
<1>6. BundlesAreInOrder
  BY <1>1, <1>2 DEF BundlesAreInOrder, Init
<1>7. ValuesIncrease
  BY <1>2, <1>3 DEF ValuesIncrease
<1>8. QueuesAreInOrder /\ HeadIsExecuted
  BY <1>4 DEF QueuesAreInOrder, HeadIsExecuted
<1>9. FencesAreRight /\ ListsAreRight
  BY <1>2, <1>4 DEF FencesAreRight, ListsAreRight
<1>10. CompletedMeansExecuted
  BY DEF Init, CompletedMeansExecuted
<1> QED BY <1>5, <1>6, <1>7, <1>8, <1>9, <1>10 DEF FenceInv

LEMMA FenceInvStep == ASSUME FenceInv, [Next]_vars PROVE FenceInv'
<1>1. ASSUME NEW b \in Bundles, SubmitRenderJobBundle(b) PROVE FenceInv'
  BY <1>1, SubmitKeepsFences
<1>2. CASE ExtractBundle
  BY <1>2, ExtractKeepsFences
<1>3. ASSUME NEW e \in DOMAIN mRunningJobQueue, SubmitCommandLists(e) PROVE FenceInv'
  BY <1>3, SubmitCommandListsKeepsFences
<1>4. CASE CompleteOldest
  BY <1>4, CompleteKeepsFences
<1>5. ASSUME NEW id \in DOMAIN recordings, EndRecording(id) PROVE FenceInv'
  BY <1>5, EndRecordingKeepsFences
<1>6. ASSUME NEW q \in Queues, ExecuteOnGPU(q) PROVE FenceInv'
  BY <1>6, ExecuteKeepsFences
<1>7. ASSUME NEW q \in Queues, SignalOnGPU(q) PROVE FenceInv'
  BY <1>7, SignalKeepsFences
<1>8. CASE \/ BeginUpdate \/ EndSubmission \/ EndUpdate \/ JobsWait
           \/ \E id \in DOMAIN recordings : BeginRecording(id)
           \/ \E id \in DOMAIN recordings : \E j \in JobsOf(submitted[id]) : RecordCommands(id, j)
           \/ UNCHANGED vars
  BY <1>8, OthersKeepFences
<1> QED BY <1>1, <1>2, <1>3, <1>4, <1>5, <1>6, <1>7, <1>8 DEF Next, JobsWait

LEMMA ListsAreExclusiveFromInv == ASSUME FenceInv PROVE ListsAreExclusive
<1>1. Types /\ BundlesAreInOrder /\ ListsAreRight /\ QueuesAreInOrder
  BY DEF FenceInv
<1>2. /\ Completed \in Nat /\ Envs \in [Running -> Environments]
      /\ DOMAIN mRunningJobQueue = 1 .. Len(mRunningJobQueue) /\ Len(mRunningJobQueue) \in Nat
  BY <1>1, EnvironmentTypes, LenProperties DEF Types
<1>3. ASSUME NEW e \in DOMAIN mRunningJobQueue
      PROVE  /\ e \in Nat /\ Completed + e \in Running /\ mRunningJobQueue[e] = Envs[Completed + e]
             /\ \A q \in Queues : DOMAIN mRunningJobQueue[e].lists[q] =
                                     1 .. Len(mRunningJobQueue[e].lists[q])
  <2>1. e \in Nat /\ Completed + e \in Running /\ mRunningJobQueue[e] = Envs[Completed + e]
    BY <1>1, <1>2, PlacesOfBundles
  <2> QED BY <2>1, <1>2, FieldTypes
<1>4. \A id \in Running : /\ id - Completed \in DOMAIN mRunningJobQueue
                         /\ Envs[id] = mRunningJobQueue[id - Completed]
  BY <1>1, <1>2, PlacesOfBundles
<1>5. \A q \in Queues : DOMAIN mFree[q] = 1 .. Len(mFree[q])
  BY <1>1, LenProperties DEF Types
<1>6. ASSUME NEW q \in Queues, NEW i \in DOMAIN mFree[q] PROVE mFree[q][i] \notin ListsInUse(q)
  <2>1. ASSUME NEW e \in DOMAIN mRunningJobQueue, NEW j \in DOMAIN mRunningJobQueue[e].lists[q]
        PROVE  mRunningJobQueue[e].lists[q][j] # mFree[q][i]
    <3>1. PICK id : id = Completed + e
      OBVIOUS
    <3>2. id \in Running /\ mRunningJobQueue[e] = Envs[id] /\ j \in 1 .. Len(Envs[id].lists[q])
      BY <3>1, <2>1, <1>3
    <3>3. i \in 1 .. Len(mFree[q])
      BY <1>5, <1>6
    <3> QED BY <3>2, <3>3, <1>1 DEF ListsAreRight
  <2> QED BY <2>1 DEF ListsInUse
<1>7. ASSUME NEW q \in Queues, NEW e \in DOMAIN mRunningJobQueue, NEW f \in DOMAIN mRunningJobQueue,
             NEW i \in DOMAIN mRunningJobQueue[e].lists[q],
             NEW j \in DOMAIN mRunningJobQueue[f].lists[q],
             mRunningJobQueue[e].lists[q][i] = mRunningJobQueue[f].lists[q][j]
      PROVE  <<e, i>> = <<f, j>>
  <2>1. PICK id, jd : id = Completed + e /\ jd = Completed + f
    OBVIOUS
  <2>2. /\ id \in Running /\ mRunningJobQueue[e] = Envs[id] /\ i \in 1 .. Len(Envs[id].lists[q])
        /\ jd \in Running /\ mRunningJobQueue[f] = Envs[jd] /\ j \in 1 .. Len(Envs[jd].lists[q])
    BY <2>1, <1>3, <1>7
  <2>3. Envs[id].lists[q][i] = Envs[jd].lists[q][j]
    BY <2>2, <1>7
  <2>4. id = jd /\ i = j
    BY <2>2, <2>3, <1>1 DEF ListsAreRight
  <2>5. e \in Nat /\ f \in Nat
    BY <1>3
  <2> QED BY <2>1, <2>4, <2>5, <1>2
<1>8. ASSUME NEW q \in Queues PROVE ListsOnGPU(q) \subseteq ListsInUse(q)
  <2>1. DOMAIN gpuQueue[q] = 1 .. Len(gpuQueue[q])
    BY <1>1, LenProperties DEF Types
  <2>2. ASSUME NEW m \in DOMAIN gpuQueue[q], gpuQueue[q][m].kind = "lists",
               NEW i \in DOMAIN gpuQueue[q][m].lists
        PROVE  gpuQueue[q][m].lists[i] \in ListsInUse(q)
    <3>1. PICK id \in Running : gpuQueue[q][m].lists = Envs[id].lists[q]
      <4>1. m \in 1 .. Len(gpuQueue[q]) /\ IsLists(q, m)
        BY <2>1, <2>2 DEF IsLists
      <4>2. AreListsOf(q, m, gpuQueue[q][m].id)
        BY <4>1, <1>1 DEF QueuesAreInOrder
      <4> QED BY <4>2 DEF AreListsOf
    <3>2. PICK e \in DOMAIN mRunningJobQueue : Envs[id] = mRunningJobQueue[e]
      BY <1>4
    <3>3. i \in DOMAIN mRunningJobQueue[e].lists[q]
      BY <3>1, <3>2, <2>2
    <3>4. gpuQueue[q][m].lists[i] = mRunningJobQueue[e].lists[q][i]
      BY <3>1, <3>2
    <3> QED BY <3>3, <3>4 DEF ListsInUse
  <2> QED BY <2>2 DEF ListsOnGPU
<1> QED BY <1>1, <1>5, <1>6, <1>7, <1>8 DEF ListsAreExclusive, ListsAreRight

\* A command list is never handed out, or reset, while it is recorded into or
\* while the GPU has yet to execute it, and the event of a bundle is completed
\* only when the GPU has executed all that the bundle submitted: the fences of
\* the three queues tell the truth about every bundle
\* (RenderJobManager.cpp:266).
THEOREM FencesTellTheTruthTheorem == Spec => []FencesTellTheTruth
<1>1. Init => FenceInv
  BY FenceInvStart
<1>2. FenceInv /\ [Next]_vars => FenceInv'
  BY FenceInvStep
<1>3. FenceInv => FencesTellTheTruth
  BY ListsAreExclusiveFromInv DEF FencesTellTheTruth, FenceInv
<1> QED BY <1>1, <1>2, <1>3, PTL DEF Spec

-----------------------------------------------------------------------------
(* What is recorded, and the states of the resources.                        *)

Recordings == [phase : {"dispatched", "recording", "done"}, left : SUBSET (Queues \X Nat)]

IsRecorded(id, j) ==
    /\ ListOf(Envs[id], j) \in DOMAIN commands
    /\ commands[ListOf(Envs[id], j)] = Record(Job(submitted[id], j), Envs[id].remembered)

RecordingsAreRight ==
    /\ recordings \in Seq(Recordings) /\ Len(recordings) = extracted
    /\ \A id \in 1 .. Completed : recordings[id].phase = "done"
    /\ \A id \in 1 .. extracted : recordings[id].phase # "recording" => recordings[id].left = {}
    /\ \A id \in Running :
          /\ Envs[id].submitted => Envs[id].recorded
          /\ Envs[id].recorded => recordings[id].phase = "done"
          /\ recordings[id].phase # "dispatched" =>
                \A j \in JobsOf(submitted[id]) \ recordings[id].left : IsRecorded(id, j)

\* The bundles that are not completed use a resource on one queue, or they only
\* read one that decays.
Meet(r, a, b) == /\ r \in UsesOf(a) /\ r \in UsesOf(b)
                 /\ r \in Decays => r \in Writes(a) \cup Writes(b)
OneQueue ==
    \A id, jd \in Completed + 1 .. Len(submitted) : \A r \in Resources :
        \A j \in JobsOf(submitted[id]), k \in JobsOf(submitted[jd]) :
            Meet(r, Job(submitted[id], j), Job(submitted[jd], k)) => j[1] = k[1]

\* What decays has been used, for the GPU, or written, for the engine; it is still
\* in the state it was created in otherwise.
HasDecayed(r) ==
    \E id \in 1 .. extracted : \E j \in JobsOf(submitted[id]) :
        r \in UsesOf(Job(submitted[id], j)) /\ <<id, j[1]>> \in executed
Decayed(r, has) == IF has THEN COMMON ELSE InitialState[r]
DecaysAreKnown ==
    \A r \in Decays :
        /\ gpuState[r] = Decayed(r, HasDecayed(r))
        /\ mCurrState[r] = Decayed(r, IsWrittenBefore(extracted + 1, r))
        /\ \A id \in Running : Envs[id].remembered[r] = Decayed(r, IsWrittenBefore(id, r))

\* The running bundles that write a resource, and the one to come.
Writers(b, r) == {j \in JobsOf(b) : r \in Writes(Job(b, j))}
WrittenIn(r)  == {id \in Running : Writers(submitted[id], r) # {}}
InTurn(r)     == WrittenIn(r) \cup {extracted + 1}
Before(id, r) == IF id \in Running THEN Envs[id].remembered[r] ELSE mCurrState[r]
IsFinal(id, r, state) ==
    \A j \in Writers(submitted[id], r) : FinalState(Job(submitted[id], j), r) = state

StatesFollow ==
    \A r \in Resources \ Decays : \A id \in InTurn(r), jd \in WrittenIn(r) :
        jd < id /\ (\A kd \in WrittenIn(r) : ~(jd < kd /\ kd < id)) => IsFinal(jd, r, Before(id, r))

IsWritten(id, r)   == \A j \in Writers(submitted[id], r) : <<id, j[1]>> \in executed
IsUnwritten(id, r) == \A j \in Writers(submitted[id], r) : <<id, j[1]>> \notin executed
GPUIsBetween(id, r) ==
    /\ \A jd \in WrittenIn(r) : jd < id => IsWritten(jd, r)
    /\ id \in Running => IsUnwritten(id, r)
GPUFollows ==
    \A r \in Resources \ Decays : \A id \in InTurn(r) :
        GPUIsBetween(id, r) => Before(id, r) = gpuState[r]

\* Another job of the bundle does not use what a job writes.
LEMMA WriterIsAlone ==
    ASSUME NEW b \in Bundles, NEW r, NEW j \in Writers(b, r), NEW k \in JobsOf(b),
           r \in UsesOf(Job(b, k))
    PROVE  j = k
<1>1. CheckResourceDependencyConflicts(b)
  BY BundleTypes
<1>2. j \in JobsOf(b) /\ r \in Writes(Job(b, j)) /\ r \in UsesOf(Job(b, j))
  BY DEF Writers, UsesOf
<1> QED BY <1>1, <1>2 DEF CheckResourceDependencyConflicts

LEMMA WriterTypes ==
    ASSUME NEW b \in Bundles, NEW r, NEW j \in Writers(b, r)
    PROVE  /\ j \in JobsOf(b) /\ r \in Writes(Job(b, j)) /\ r \in UsesOf(Job(b, j))
           /\ r \in Resources /\ j[1] \in Queues /\ j[1] \in UsedQueues(b)
           /\ Job(b, j) \in JobSet /\ FinalState(Job(b, j), r) \in States
<1>1. j \in JobsOf(b) /\ r \in Writes(Job(b, j)) /\ r \in UsesOf(Job(b, j))
  BY DEF Writers, UsesOf
<1>2. j[1] \in Queues /\ j[1] \in UsedQueues(b) /\ Job(b, j) \in JobSet
  BY <1>1, JobTypes
<1> QED BY <1>1, <1>2, FinalTypes

\* What is recorded has the transitions of the job.
LEMMA RecordedTransitions ==
    ASSUME NEW job \in JobSet, NEW memory
    PROVE  LET list == Record(job, memory) IN
           /\ DOMAIN list = DOMAIN job.transitions
           /\ \A k \in DOMAIN list : /\ list[k].res = job.transitions[k].res
                                     /\ list[k].to = job.transitions[k].to
                                     /\ list[k].from = BeforeState(job, k, memory)
           /\ {list[k].res : k \in DOMAIN list} = Writes(job)
<1>1. PICK list : list = Record(job, memory)
  OBVIOUS
<1>2. /\ DOMAIN list = DOMAIN job.transitions
      /\ \A k \in DOMAIN list : /\ list[k].res = job.transitions[k].res
                                /\ list[k].to = job.transitions[k].to
                                /\ list[k].from = BeforeState(job, k, memory)
  BY <1>1 DEF Record
<1>3. {list[k].res : k \in DOMAIN list} = Writes(job)
  BY <1>2 DEF Writes
<1> QED BY <1>1, <1>2, <1>3

LEMMA RecordedFinalState ==
    ASSUME NEW job \in JobSet, NEW memory, NEW r \in Writes(job), NEW list, list = Record(job, memory)
    PROVE  list[Latest({k \in DOMAIN list : list[k].res = r})].to = FinalState(job, r)
<1>1. /\ DOMAIN list = DOMAIN job.transitions
      /\ \A k \in DOMAIN list : /\ list[k].res = job.transitions[k].res
                                /\ list[k].to = job.transitions[k].to
  BY RecordedTransitions
<1>2. {k \in DOMAIN list : list[k].res = r} = {k \in DOMAIN job.transitions : job.transitions[k].res = r}
  BY <1>1
<1>3. PICK n : n = Latest({k \in DOMAIN job.transitions : job.transitions[k].res = r})
  OBVIOUS
<1>4. n \in DOMAIN job.transitions
  BY <1>3, FinalTypes
<1>5. FinalState(job, r) = job.transitions[n].to
  BY <1>3 DEF FinalState
<1> QED BY <1>1, <1>2, <1>3, <1>4, <1>5

\* A list is valid if the states the job remembers are those of the GPU.
LEMMA RecordedIsValid ==
    ASSUME NEW job \in JobSet, NEW memory, NEW id,
           \A r \in Writes(job) : memory[r] = gpuState[r] \/ DecayIsForgotten(id, r)
    PROVE  ListIsValid(id, Record(job, memory))
<1>1. PICK list : list = Record(job, memory)
  OBVIOUS
<1>2. /\ DOMAIN list = DOMAIN job.transitions
      /\ \A k \in DOMAIN list : /\ list[k].res = job.transitions[k].res
                                /\ list[k].to = job.transitions[k].to
                                /\ list[k].from = BeforeState(job, k, memory)
      /\ {list[k].res : k \in DOMAIN list} = Writes(job)
  BY <1>1, RecordedTransitions
<1>3. job.transitions \in Seq([res : Resources, to : States])
  BY DEF JobSet
<1>4. DOMAIN job.transitions = 1 .. Len(job.transitions) /\ Len(job.transitions) \in Nat
  BY <1>3, LenProperties
<1>5. ASSUME NEW k \in DOMAIN list
      PROVE  LET earlier == {i \in 1 .. k - 1 : list[i].res = list[k].res}
             IN  \/ list[k].from = IF earlier = {} THEN gpuState[list[k].res]
                                   ELSE list[Latest(earlier)].to
                 \/ earlier = {} /\ DecayIsForgotten(id, list[k].res)
  <2> DEFINE S == {i \in 1 .. k - 1 : list[i].res = list[k].res}
  <2>1. k \in Nat /\ \A i \in 1 .. k - 1 : i \in DOMAIN list
    BY <1>2, <1>4
  <2>2. S = Earlier(job, k)
    BY <2>1, <1>2 DEF Earlier
  <2>3. list[k].from = BeforeState(job, k, memory)
    BY <1>2
  <2>4. CASE S = {}
    <3>1. list[k].from = memory[list[k].res]
      BY <2>2, <2>3, <2>4, <1>2 DEF BeforeState
    <3>2. list[k].res \in Writes(job)
      BY <1>2
    <3> QED BY <3>1, <3>2, <2>4
  <2>5. CASE S # {}
    <3>1. PICK n : n = Latest(S)
      OBVIOUS
    <3>2. list[k].from = job.transitions[n].to
      BY <3>1, <2>2, <2>3, <2>5 DEF BeforeState
    <3>3. n \in S
      <4>1. S \subseteq 1 .. k
        BY <2>1
      <4> HIDE DEF S
      <4> QED BY <4>1, <3>1, <2>1, <2>5, LatestExists
    <3>4. n \in DOMAIN list
      BY <3>3, <2>1
    <3>5. list[k].from = list[n].to
      BY <3>2, <3>4, <1>2
    <3> HIDE DEF S
    <3> QED BY <3>1, <3>5, <2>5 DEF S
  <2> QED BY <2>4, <2>5
<1> QED BY <1>1, <1>5 DEF ListIsValid

\* No two jobs are recorded in the same list.
LEMMA ListsDiffer ==
    ASSUME FenceInv, NEW id \in Running, NEW jd \in Running,
           NEW j \in JobsOf(submitted[id]), NEW k \in JobsOf(submitted[jd]),
           ListOf(Envs[id], j) = ListOf(Envs[jd], k)
    PROVE  id = jd /\ j = k
<1>1. Types /\ ListsAreRight
  BY DEF FenceInv
<1>2. submitted[id] \in Bundles /\ submitted[jd] \in Bundles
  BY <1>1, EnvironmentTypes
<1>3. /\ j = <<j[1], j[2]>> /\ j[1] \in Queues /\ j[2] \in 1 .. Len(submitted[id][j[1]])
      /\ k = <<k[1], k[2]>> /\ k[1] \in Queues /\ k[2] \in 1 .. Len(submitted[jd][k[1]])
  BY <1>2, JobTypes
<1>4. j[1] = k[1] /\ Envs[id].lists[j[1]][j[2]] = Envs[jd].lists[k[1]][k[2]]
  BY DEF ListOf
<1>5. j[2] \in 1 .. Len(Envs[id].lists[j[1]]) /\ k[2] \in 1 .. Len(Envs[jd].lists[j[1]])
  BY <1>1, <1>3, <1>4 DEF ListsAreRight
<1>6. id = jd /\ j[2] = k[2]
  BY SMTT(30), <1>1, <1>3, <1>4, <1>5 DEF ListsAreRight
<1> QED BY <1>3, <1>4, <1>6

\* Of the bundles that use a queue, the GPU has executed on it exactly those
\* before the one whose lists are next.
LEMMA ExecutionOrder ==
    ASSUME FenceInv, NEW q \in Queues, 1 \in 1 .. Len(gpuQueue[q]), IsLists(q, 1),
           NEW n, n = gpuQueue[q][1].id
    PROVE  /\ n \in Running /\ Uses(n, q) /\ Envs[n].submitted
           /\ gpuQueue[q][1].lists = Envs[n].lists[q]
           /\ \A id \in Running : Uses(id, q) => (<<id, q>> \in executed <=> id < n)
<1>1. Types /\ ValuesIncrease /\ QueuesAreInOrder /\ FencesAreRight
  BY DEF FenceInv
<1>2. /\ n \in Running /\ Uses(n, q) /\ Envs[n].submitted /\ <<n, q>> \notin executed
      /\ gpuQueue[q][1].lists = Envs[n].lists[q]
      /\ 2 \in 1 .. Len(gpuQueue[q]) /\ IsSignal(q, 2)
      /\ gpuQueue[q][2].value = Envs[n].fenceValue[q]
  <2>1. AreListsOf(q, 1, n) /\ 1 + 1 = 2
    BY <1>1 DEF QueuesAreInOrder
  <2> QED BY <2>1 DEF AreListsOf
<1>3. \A id \in Running : /\ id \in Nat
                          /\ Uses(id, q) => Envs[id].fenceValue[q] \in Nat
  BY <1>1, EnvironmentTypes, FieldTypes DEF ValuesIncrease, Uses
<1>4. gpuFence[q] \in Nat /\ Len(gpuQueue[q]) \in Nat
  BY <1>1, LenProperties DEF Types
<1>5. gpuFence[q] < Envs[n].fenceValue[q]
  BY <1>1, <1>2 DEF QueuesAreInOrder
<1>6. ASSUME NEW id \in Running, Uses(id, q), IsQueued(id, q)
      PROVE  Envs[id].fenceValue[q] >= Envs[n].fenceValue[q] /\ <<id, q>> \notin executed
  <2>1. PICK m \in 1 .. Len(gpuQueue[q]) : /\ IsSignal(q, m)
                                           /\ gpuQueue[q][m].value = Envs[id].fenceValue[q]
    BY <1>6 DEF IsQueued
  <2>2. m # 1
    BY <2>1 DEF IsLists, IsSignal
  <2>3. m > 1 /\ m - 1 \in 1 .. Len(gpuQueue[q]) /\ m - 1 + 1 = m /\ (m = 2 \/ 2 < m)
    BY <2>2, <1>4
  <2>4. 2 < m => gpuQueue[q][2].value < gpuQueue[q][m].value
    BY <1>1, <1>2, <2>1 DEF QueuesAreInOrder
  <2>5. Envs[id].fenceValue[q] >= Envs[n].fenceValue[q]
    BY <2>1, <2>3, <2>4, <1>2, <1>3, <1>6
  <2>6. PICK k : k = m - 1
    OBVIOUS
  <2>7. k \in 1 .. Len(gpuQueue[q]) /\ k + 1 = m /\ IsLists(q, k)
    BY <2>1, <2>3, <2>6, <1>1 DEF QueuesAreInOrder
  <2>8. PICK jd : jd = gpuQueue[q][k].id
    OBVIOUS
  <2>9. AreListsOf(q, k, jd)
    BY <2>7, <2>8, <1>1 DEF QueuesAreInOrder
  <2>10. /\ jd \in Running /\ Uses(jd, q) /\ <<jd, q>> \notin executed
         /\ gpuQueue[q][m].value = Envs[jd].fenceValue[q]
    BY <2>7, <2>9 DEF AreListsOf
  <2>11. id = jd
    <3>1. /\ id < jd => Envs[id].fenceValue[q] < Envs[jd].fenceValue[q]
          /\ jd < id => Envs[jd].fenceValue[q] < Envs[id].fenceValue[q]
      BY <2>10, <1>1, <1>6 DEF ValuesIncrease
    <3>2. /\ Envs[jd].fenceValue[q] = Envs[id].fenceValue[q] /\ Envs[id].fenceValue[q] \in Nat
          /\ id \in Nat /\ jd \in Nat
      BY <2>1, <2>10, <1>3, <1>6
    <3> QED BY <3>1, <3>2
  <2> QED BY <2>5, <2>10, <2>11
<1>7. ASSUME NEW id \in Running, Uses(id, q), id < n PROVE <<id, q>> \in executed
  <2>1. Envs[id].fenceValue[q] < Envs[n].fenceValue[q]
    BY <1>1, <1>2, <1>7 DEF ValuesIncrease
  <2>2. ~IsQueued(id, q)
    <3>1. Envs[id].fenceValue[q] \in Nat /\ Envs[n].fenceValue[q] \in Nat
      BY <1>2, <1>3, <1>7
    <3>2. ~(Envs[id].fenceValue[q] >= Envs[n].fenceValue[q])
      BY <3>1, <2>1
    <3> QED BY <3>2, <1>6, <1>7
  <2>3. ~IsAhead(id, q)
    <3>1. ~(gpuQueue[q][2].value < Envs[id].fenceValue[q])
      BY <2>1, <1>2, <1>3, <1>7
    <3> QED BY <3>1, <1>2 DEF IsAhead
  <2>4. IsSignalled(id, q)
    BY <2>2, <2>3, <1>1, <1>7 DEF FencesAreRight
  <2> QED BY <2>4 DEF IsSignalled
<1>8. ASSUME NEW id \in Running, Uses(id, q), ~(id < n) PROVE <<id, q>> \notin executed
  <2>1. CASE id = n
    BY <2>1, <1>2
  <2>2. CASE id # n
    <3>1. Envs[n].fenceValue[q] < Envs[id].fenceValue[q]
      <4>1. n < id
        BY <2>2, <1>2, <1>3, <1>8
      <4> QED BY <4>1, <1>1, <1>2, <1>8 DEF ValuesIncrease
    <3>2. ~IsSignalled(id, q)
      BY <3>1, <1>2, <1>3, <1>4, <1>5, <1>8 DEF IsSignalled
    <3>3. IsAhead(id, q) => <<id, q>> \notin executed
      BY DEF IsAhead
    <3> QED BY <3>2, <3>3, <1>1, <1>6, <1>8 DEF FencesAreRight
  <2> QED BY <2>1, <2>2
<1> QED BY <1>2, <1>7, <1>8

-----------------------------------------------------------------------------
(* The recordings.                                                           *)

LEMMA RecordedStays ==
    ASSUME NEW id, NEW j, SameCommands(Envs'[id], Envs[id]), submitted'[id] = submitted[id],
           IsRecorded(id, j), ListOf(Envs[id], j) \in DOMAIN commands',
           commands'[ListOf(Envs[id], j)] = commands[ListOf(Envs[id], j)]
    PROVE  IsRecorded(id, j)'
<1>1. /\ ListOf(Envs'[id], j) = ListOf(Envs[id], j)
      /\ Envs'[id].remembered = Envs[id].remembered
  BY DEF SameCommands, ListOf
<1> QED BY <1>1 DEF IsRecorded, ListOf

\* Steps that leave the recordings alone.
LEMMA RecordingsStay ==
    ASSUME Types, RecordingsAreRight, UNCHANGED <<extracted, recordings, commands>>,
           Completed' = Completed, Running' = Running,
           \A id \in Running :
              /\ SameCommands(Envs'[id], Envs[id]) /\ submitted'[id] = submitted[id]
              /\ Envs'[id].submitted => Envs'[id].recorded
              /\ Envs'[id].recorded => Envs[id].recorded
    PROVE  RecordingsAreRight'
<1>1. ASSUME NEW id \in Running', recordings'[id].phase # "dispatched",
             NEW j \in JobsOf(submitted'[id]) \ recordings'[id].left
      PROVE  IsRecorded(id, j)'
  <2>1. /\ id \in Running /\ SameCommands(Envs'[id], Envs[id]) /\ submitted'[id] = submitted[id]
        /\ IsRecorded(id, j)
    BY <1>1 DEF RecordingsAreRight
  <2> QED BY <2>1, RecordedStays DEF IsRecorded
<1>2. /\ recordings' \in Seq(Recordings) /\ Len(recordings') = extracted'
      /\ \A id \in 1 .. Completed' : recordings'[id].phase = "done"
      /\ \A id \in 1 .. extracted' : recordings'[id].phase # "recording" => recordings'[id].left = {}
      /\ \A id \in Running' : /\ Envs'[id].submitted => Envs'[id].recorded
                              /\ Envs'[id].recorded => recordings'[id].phase = "done"
  BY DEF RecordingsAreRight
<1> QED BY <1>1, <1>2 DEF RecordingsAreRight

LEMMA RecordingTypes ==
    ASSUME NEW b \in Bundles
    PROVE  /\ Recording(b) \in Recordings
           /\ Recording(b).phase = "recording" /\ Recording(b).left = JobsOf(b)
<1>1. JobsOf(b) \subseteq Queues \X Nat
  <2>1. \A j \in JobsOf(b) : /\ j = <<j[1], j[2]>> /\ j[1] \in Queues
                            /\ j[2] \in 1 .. Len(b[j[1]])
    BY JobTypes
  <2>2. \A q \in Queues : Len(b[q]) \in Nat
    BY BundleTypes
  <2>3. ASSUME NEW j \in JobsOf(b) PROVE j \in Queues \X Nat
    <3>1. j[1] \in Queues /\ j[2] \in Nat /\ j = <<j[1], j[2]>>
      BY <2>1, <2>2
    <3> QED BY <3>1
  <2> QED BY <2>3
<1> QED BY <1>1 DEF Recording, Recordings

LEMMA ExtractKeepsRecordings ==
    ASSUME FenceInv, RecordingsAreRight, ExtractBundle
    PROVE  RecordingsAreRight'
<1>1. PICK n : n = extracted + 1
  OBVIOUS
<1>2. Types /\ extracted \in Nat /\ Completed \in Nat /\ Completed <= extracted /\ Running \subseteq 1 .. extracted
  BY EnvironmentTypes DEF FenceInv
<1>3. /\ n \in 1 .. Len(submitted) /\ Completed' = Completed /\ extracted' = n
      /\ Running' = Running \cup {n} /\ n \notin Running
      /\ \A id \in Running : Envs'[id] = Envs[id]
      /\ Envs'[n] = CreateRenderJobExecutionEnvironment(n, submitted[n])
  BY <1>1, <1>2, EnvironmentIsAdded
<1>4. ~Envs'[n].submitted /\ ~Envs'[n].recorded
  BY <1>3 DEF CreateRenderJobExecutionEnvironment
<1>5. /\ recordings \in Seq(Recordings) /\ Len(recordings) = extracted
      /\ submitted' = submitted /\ commands' = commands
      /\ \/ recordings' = Append(recordings, [phase |-> "dispatched", left |-> {}])
         \/ recordings' = Append(recordings, Recording(submitted[n]))
  BY <1>1 DEF RecordingsAreRight, ExtractBundle
<1>6. /\ [phase |-> "dispatched", left |-> {}] \in Recordings
      /\ Recording(submitted[n]) \in Recordings
      /\ Recording(submitted[n]).phase = "recording"
      /\ Recording(submitted[n]).left = JobsOf(submitted[n])
  <2>1. submitted[n] \in Bundles
    BY <1>2, <1>3, EnvironmentTypes
  <2> QED BY <2>1, RecordingTypes DEF Recordings
<1>7. PICK new \in Recordings :
         /\ recordings' = Append(recordings, new)
         /\ \/ new = [phase |-> "dispatched", left |-> {}]
            \/ new = Recording(submitted[n])
  BY <1>5, <1>6
<1>14. \/ new.phase = "dispatched" /\ new.left = {}
       \/ new.phase = "recording" /\ new.left = JobsOf(submitted[n])
  BY <1>6, <1>7
<1>8. /\ recordings' \in Seq(Recordings) /\ Len(recordings') = n
      /\ \A id \in 1 .. extracted : recordings'[id] = recordings[id]
      /\ recordings'[n] = new
  BY <1>1, <1>2, <1>5, <1>7, AppendProperties
<1>9. \A id \in 1 .. n : id # n => id \in 1 .. extracted
  BY <1>1, <1>2
<1>10. ASSUME NEW id \in Running', recordings'[id].phase # "dispatched",
              NEW j \in JobsOf(submitted'[id]) \ recordings'[id].left
       PROVE  IsRecorded(id, j)'
  <2>1. id # n
    <3>1. ASSUME id = n PROVE FALSE
      <4>1. new.phase # "dispatched" /\ j \notin new.left /\ j \in JobsOf(submitted[n])
        BY <3>1, <1>5, <1>8, <1>10
      <4> QED BY <4>1, <1>14
    <3> QED BY <3>1
  <2>2. id \in Running /\ recordings'[id] = recordings[id] /\ Envs'[id] = Envs[id]
    BY <2>1, <1>2, <1>3, <1>8
  <2>3. IsRecorded(id, j)
    BY <2>2, <1>5, <1>10 DEF RecordingsAreRight
  <2> QED BY <2>2, <2>3, <1>5 DEF IsRecorded
<1>11. \A id \in 1 .. extracted' : recordings'[id].phase # "recording" => recordings'[id].left = {}
  BY <1>3, <1>8, <1>9, <1>14 DEF RecordingsAreRight
<1>12. \A id \in 1 .. Completed' : recordings'[id].phase = "done"
  <2>1. \A id \in 1 .. Completed : id \in 1 .. extracted
    BY <1>2
  <2> QED BY <2>1, <1>3, <1>8 DEF RecordingsAreRight
<1>13. ASSUME NEW id \in Running'
       PROVE  /\ Envs'[id].submitted => Envs'[id].recorded
              /\ Envs'[id].recorded => recordings'[id].phase = "done"
  <2>1. CASE id = n
    BY <2>1, <1>4
  <2>2. CASE id # n
    <3>1. id \in Running /\ recordings'[id] = recordings[id] /\ Envs'[id] = Envs[id]
      BY <2>2, <1>2, <1>3, <1>8
    <3> QED BY <3>1 DEF RecordingsAreRight
  <2> QED BY <2>1, <2>2
<1> QED BY <1>3, <1>8, <1>10, <1>11, <1>12, <1>13 DEF RecordingsAreRight

\* Recording takes place in bundles that are running only.
LEMMA RecordedAreRunning ==
    ASSUME Types, RecordingsAreRight
    PROVE  /\ DOMAIN recordings = 1 .. extracted
           /\ \A id \in DOMAIN recordings : /\ recordings[id] \in Recordings
                                            /\ recordings[id].phase # "done" => id \in Running
<1>1. DOMAIN recordings = 1 .. extracted /\ recordings \in Seq(Recordings)
  BY LenProperties DEF RecordingsAreRight
<1>2. \A id \in DOMAIN recordings : recordings[id] \in Recordings
  BY <1>1, ElementOfSeq, LenProperties
<1>3. /\ extracted \in Nat /\ Completed \in Nat
      /\ Running = Completed + 1 .. extracted
  BY EnvironmentTypes DEF Running
<1>4. \A id \in 1 .. extracted : id \in 1 .. Completed \/ id \in Running
  BY <1>3
<1> QED BY <1>1, <1>2, <1>4 DEF RecordingsAreRight

LEMMA BeginKeepsRecordings ==
    ASSUME FenceInv, RecordingsAreRight, NEW id, BeginRecording(id)
    PROVE  RecordingsAreRight'
<1>1. Types
  BY DEF FenceInv
<1>2. /\ id \in DOMAIN recordings /\ recordings[id].phase = "dispatched"
      /\ UNCHANGED <<submitted, extracted, commands, mRunningJobQueue>>
  BY DEF BeginRecording, engine
<1>3. /\ id \in Running /\ submitted[id] \in Bundles /\ DOMAIN recordings = 1 .. extracted
      /\ Running \subseteq 1 .. extracted /\ recordings \in Seq(Recordings)
      /\ Len(recordings) = extracted
  BY <1>1, <1>2, RecordedAreRunning, EnvironmentTypes DEF RecordingsAreRight
<1>4. Completed' = Completed /\ Running' = Running /\ Envs' = Envs
  BY <1>2, NoEnvironmentChanges
<1>6. PICK new \in Recordings : /\ new = Recording(submitted[id])
                               /\ new.phase = "recording" /\ new.left = JobsOf(submitted[id])
  BY <1>3, RecordingTypes
<1>7. recordings' = [recordings EXCEPT ![id] = new]
  BY <1>6 DEF BeginRecording
<1>8. /\ recordings' \in Seq(Recordings) /\ Len(recordings') = extracted
      /\ \A jd \in 1 .. extracted : recordings'[jd] = IF jd = id THEN new ELSE recordings[jd]
  BY <1>2, <1>3, <1>6, <1>7, ExceptSeq
<1>9. ASSUME NEW jd \in Running', recordings'[jd].phase # "dispatched",
             NEW j \in JobsOf(submitted'[jd]) \ recordings'[jd].left
      PROVE  IsRecorded(jd, j)'
  <2>1. CASE jd = id
    BY <2>1, <1>2, <1>3, <1>6, <1>8, <1>9
  <2>2. CASE jd # id
    <3>1. jd \in Running /\ recordings'[jd] = recordings[jd]
      BY <2>2, <1>3, <1>4, <1>8
    <3>2. IsRecorded(jd, j)
      BY <3>1, <1>2, <1>9 DEF RecordingsAreRight
    <3> QED BY <3>2, <1>2, <1>4 DEF IsRecorded
  <2> QED BY <2>1, <2>2
<1>10. /\ \A jd \in 1 .. Completed : recordings'[jd].phase = "done"
       /\ \A jd \in 1 .. extracted : recordings'[jd].phase # "recording" => recordings'[jd].left = {}
  <2>1. \A jd \in 1 .. Completed : jd # id /\ jd \in 1 .. extracted
    <3>1. Completed \in Nat /\ extracted \in Nat /\ Completed <= extracted
      BY <1>1, EnvironmentTypes
    <3>2. \A jd \in Running : jd \notin 1 .. Completed
      BY <3>1 DEF Running
    <3>3. \A jd \in 1 .. Completed : jd \in 1 .. extracted
      BY <3>1
    <3> QED BY <3>2, <3>3, <1>3
  <2> QED BY <2>1, <1>6, <1>8 DEF RecordingsAreRight
<1>11. \A jd \in Running : /\ Envs[jd].submitted => Envs[jd].recorded
                           /\ Envs[jd].recorded => recordings'[jd].phase = "done"
  BY <1>2, <1>3, <1>8 DEF RecordingsAreRight
<1> QED BY <1>2, <1>4, <1>8, <1>9, <1>10, <1>11 DEF RecordingsAreRight

LEMMA RecordKeepsRecordings ==
    ASSUME FenceInv, RecordingsAreRight, NEW id, NEW j \in JobsOf(submitted[id]), RecordCommands(id, j)
    PROVE  RecordingsAreRight'
<1>1. Types /\ BundlesAreInOrder
  BY DEF FenceInv
<1>2. /\ id \in DOMAIN recordings /\ j \in recordings[id].left
      /\ UNCHANGED <<submitted, extracted, mRunningJobQueue>>
  BY DEF RecordCommands, engine
<1>3. /\ recordings[id].phase = "recording" /\ id \in Running /\ recordings[id] \in Recordings
      /\ DOMAIN recordings = 1 .. extracted
      /\ Running \subseteq 1 .. extracted /\ recordings \in Seq(Recordings)
      /\ Len(recordings) = extracted
  BY <1>1, <1>2, RecordedAreRunning, EnvironmentTypes DEF RecordingsAreRight
<1>4. Completed' = Completed /\ Running' = Running /\ Envs' = Envs
  BY <1>2, NoEnvironmentChanges
<1>5. PICK new : new = [recordings[id] EXCEPT !.left = recordings[id].left \ {j}]
  OBVIOUS
<1>6. new \in Recordings /\ new.phase = "recording" /\ new.left = recordings[id].left \ {j}
  BY <1>3, <1>5 DEF Recordings
<1>7. recordings' = [recordings EXCEPT ![id] = new]
  BY <1>5 DEF RecordCommands
<1>8. /\ recordings' \in Seq(Recordings) /\ Len(recordings') = extracted
      /\ \A jd \in 1 .. extracted : recordings'[jd] = IF jd = id THEN new ELSE recordings[jd]
  BY <1>2, <1>3, <1>6, <1>7, ExceptSeq
<1>9. /\ DOMAIN commands' = DOMAIN commands \cup {ListOf(Envs[id], j)}
      /\ commands'[ListOf(Envs[id], j)] = Record(Job(submitted[id], j), Envs[id].remembered)
      /\ \A list \in DOMAIN commands : list # ListOf(Envs[id], j) => commands'[list] = commands[list]
  <2>1. mRunningJobQueue[Environment(id)] = Envs[id]
    BY <1>1, <1>3, EnvironmentOf
  <2>2. commands' = [list \in DOMAIN commands \cup {ListOf(Envs[id], j)} |->
                       IF list = ListOf(Envs[id], j)
                       THEN Record(Job(submitted[id], j), Envs[id].remembered)
                       ELSE commands[list]]
    BY <2>1 DEF RecordCommands
  <2> QED BY <2>2
<1>10. ASSUME NEW jd \in Running', recordings'[jd].phase # "dispatched",
              NEW k \in JobsOf(submitted'[jd]) \ recordings'[jd].left
       PROVE  IsRecorded(jd, k)'
  <2>1. CASE jd = id /\ k = j
    BY <2>1, <1>2, <1>4, <1>9 DEF IsRecorded, ListOf
  <2>2. CASE ~(jd = id /\ k = j)
    <3>1. jd \in Running /\ jd \in 1 .. extracted /\ k \in JobsOf(submitted[jd])
      BY <1>2, <1>3, <1>4, <1>10
    <3>2. recordings[jd].phase # "dispatched" /\ k \notin recordings[jd].left
      <4>1. CASE jd = id
        BY <4>1, <2>2, <3>1, <1>3, <1>6, <1>8, <1>10
      <4>2. CASE jd # id
        BY <4>2, <3>1, <1>8, <1>10
      <4> QED BY <4>1, <4>2
    <3>3. IsRecorded(jd, k)
      BY <3>1, <3>2 DEF RecordingsAreRight
    <3>4. ListOf(Envs[jd], k) # ListOf(Envs[id], j)
      BY <2>2, <3>1, <1>3, ListsDiffer
    <3>5. ListOf(Envs[jd], k) \in DOMAIN commands
      BY <3>3 DEF IsRecorded
    <3>6. SameCommands(Envs'[jd], Envs[jd])
      BY <1>4 DEF SameCommands
    <3> QED BY <3>3, <3>4, <3>5, <3>6, <1>2, <1>9, RecordedStays
  <2> QED BY <2>1, <2>2
<1>11. /\ \A jd \in 1 .. Completed : recordings'[jd].phase = "done"
       /\ \A jd \in 1 .. extracted : recordings'[jd].phase # "recording" => recordings'[jd].left = {}
  <2>1. \A jd \in 1 .. Completed : jd \in 1 .. extracted
    BY <1>1, EnvironmentTypes
  <2> QED BY <2>1, <1>3, <1>6, <1>8 DEF RecordingsAreRight
<1>12. \A jd \in Running : /\ Envs[jd].submitted => Envs[jd].recorded
                           /\ Envs[jd].recorded => recordings'[jd].phase = "done"
  BY <1>3, <1>8 DEF RecordingsAreRight
<1> QED BY <1>2, <1>4, <1>8, <1>10, <1>11, <1>12 DEF RecordingsAreRight

LEMMA EndKeepsRecordings ==
    ASSUME FenceInv, RecordingsAreRight, NEW id, EndRecording(id)
    PROVE  RecordingsAreRight'
<1>1. Types /\ BundlesAreInOrder
  BY DEF FenceInv
<1>2. /\ id \in DOMAIN recordings /\ recordings[id] = [phase |-> "recording", left |-> {}]
      /\ UNCHANGED <<submitted, extracted, commands>>
  BY DEF EndRecording
<1>3. /\ recordings[id].phase = "recording" /\ id \in Running /\ recordings[id] \in Recordings
      /\ recordings[id].left = {}
      /\ DOMAIN recordings = 1 .. extracted
      /\ Running \subseteq 1 .. extracted /\ recordings \in Seq(Recordings)
      /\ Len(recordings) = extracted
  <2>1. recordings[id].phase = "recording" /\ recordings[id].left = {}
    BY <1>2
  <2>2. recordings[id].phase # "done"
    BY <2>1
  <2> QED BY <2>1, <2>2, <1>1, <1>2, RecordedAreRunning, EnvironmentTypes DEF RecordingsAreRight
<1>4. /\ Completed' = Completed /\ Running' = Running
      /\ \A jd \in Running : /\ SameCommands(Envs'[jd], Envs[jd])
                             /\ Envs'[jd].submitted = Envs[jd].submitted
                             /\ Envs'[jd].recorded <=> jd = id \/ Envs[jd].recorded
  BY <1>1, <1>3, EnvironmentIsRecorded
<1>5. PICK new : new = [recordings[id] EXCEPT !.phase = "done"]
  OBVIOUS
<1>6. new \in Recordings /\ new.phase = "done" /\ new.left = {}
  BY <1>3, <1>5 DEF Recordings
<1>7. recordings' = [recordings EXCEPT ![id] = new]
  BY <1>5 DEF EndRecording
<1>8. /\ recordings' \in Seq(Recordings) /\ Len(recordings') = extracted
      /\ \A jd \in 1 .. extracted : recordings'[jd] = IF jd = id THEN new ELSE recordings[jd]
  BY <1>2, <1>3, <1>6, <1>7, ExceptSeq
<1>9. ASSUME NEW jd \in Running', recordings'[jd].phase # "dispatched",
             NEW k \in JobsOf(submitted'[jd]) \ recordings'[jd].left
      PROVE  IsRecorded(jd, k)'
  <2>1. jd \in Running /\ jd \in 1 .. extracted /\ k \in JobsOf(submitted[jd])
    BY <1>2, <1>3, <1>4, <1>9
  <2>2. recordings[jd].phase # "dispatched" /\ k \notin recordings[jd].left
    <3>1. CASE jd = id
      BY <3>1, <1>3
    <3>2. CASE jd # id
      BY <3>2, <2>1, <1>8, <1>9
    <3> QED BY <3>1, <3>2
  <2>3. IsRecorded(jd, k) /\ SameCommands(Envs'[jd], Envs[jd])
    BY <2>1, <2>2, <1>4 DEF RecordingsAreRight
  <2> QED BY <2>3, <1>2, RecordedStays DEF IsRecorded
<1>10. /\ \A jd \in 1 .. Completed : recordings'[jd].phase = "done"
       /\ \A jd \in 1 .. extracted : recordings'[jd].phase # "recording" => recordings'[jd].left = {}
  <2>1. \A jd \in 1 .. Completed : jd \in 1 .. extracted
    BY <1>1, EnvironmentTypes
  <2> QED BY <2>1, <1>6, <1>8 DEF RecordingsAreRight
<1>11. ASSUME NEW jd \in Running
       PROVE  /\ Envs'[jd].submitted => Envs'[jd].recorded
              /\ Envs'[jd].recorded => recordings'[jd].phase = "done"
  <2>1. jd \in 1 .. extracted
    BY <1>3
  <2> QED BY <2>1, <1>4, <1>6, <1>8 DEF RecordingsAreRight
<1> QED BY <1>2, <1>4, <1>8, <1>9, <1>10, <1>11 DEF RecordingsAreRight

LEMMA CompleteKeepsRecordings ==
    ASSUME FenceInv, RecordingsAreRight, CompleteOldest
    PROVE  RecordingsAreRight'
<1>1. PICK n : n = Completed + 1
  OBVIOUS
<1>2. /\ Types /\ BundlesAreInOrder /\ ValuesIncrease /\ QueuesAreInOrder /\ FencesAreRight
      /\ Completed \in Nat
  BY EnvironmentTypes DEF FenceInv
<1>3. /\ n \in Running /\ Head(mRunningJobQueue) = Envs[n] /\ Envs[n].id = n
      /\ Completed' = n /\ extracted' = extracted
      /\ Running' = Running \ {n}
      /\ \A id \in Running' : Envs'[id] = Envs[id]
  BY <1>1, <1>2, EnvironmentIsRemoved DEF BundlesAreInOrder
<1>4. UNCHANGED <<submitted, recordings>>
  BY DEF CompleteOldest
<1>5. commands' = [list \in DOMAIN commands \ {ListOf(Envs[n], j) : j \in JobsOf(submitted[n])}
                     |-> commands[list]]
  BY <1>3 DEF CompleteOldest
<1>6. recordings[n].phase = "done"
  BY <1>1, <1>2, <1>3, CompletedIsExecuted DEF RecordingsAreRight
<1>7. \A id \in 1 .. Completed' : recordings'[id].phase = "done"
  <2>1. \A id \in 1 .. Completed' : id = n \/ id \in 1 .. Completed
    BY <1>1, <1>2, <1>3
  <2> QED BY <2>1, <1>4, <1>6 DEF RecordingsAreRight
<1>8. ASSUME NEW id \in Running', recordings'[id].phase # "dispatched",
             NEW j \in JobsOf(submitted'[id]) \ recordings'[id].left
      PROVE  IsRecorded(id, j)'
  <2>1. id \in Running /\ id # n /\ Envs'[id] = Envs[id] /\ j \in JobsOf(submitted[id])
    BY <1>3, <1>4, <1>8
  <2>2. IsRecorded(id, j)
    BY <2>1, <1>4, <1>8 DEF RecordingsAreRight
  <2>3. ASSUME NEW k \in JobsOf(submitted[n]) PROVE ListOf(Envs[id], j) # ListOf(Envs[n], k)
    BY <2>1, <1>3, ListsDiffer
  <2>4. ListOf(Envs[id], j) \in DOMAIN commands
    BY <2>2 DEF IsRecorded
  <2>5. /\ ListOf(Envs[id], j) \in DOMAIN commands'
        /\ commands'[ListOf(Envs[id], j)] = commands[ListOf(Envs[id], j)]
    BY <2>3, <2>4, <1>5
  <2>6. SameCommands(Envs'[id], Envs[id])
    BY <2>1 DEF SameCommands
  <2> QED BY <2>2, <2>5, <2>6, <1>4, RecordedStays
<1> QED BY <1>3, <1>4, <1>7, <1>8 DEF RecordingsAreRight

LEMMA RecordingsStep == ASSUME FenceInv, FenceInv', RecordingsAreRight, [Next]_vars PROVE RecordingsAreRight'
<1>1. Types
  BY DEF FenceInv
<1>2. /\ \A id \in Running : submitted[id] \in Bundles /\ id \in 1 .. Len(submitted)
      /\ extracted \in Nat /\ Len(submitted) \in Nat
      /\ submitted \in Seq(Bundles)
  BY <1>1, EnvironmentTypes DEF Types
<1>3. ASSUME UNCHANGED <<extracted, recordings, commands, mRunningJobQueue>>,
             \A id \in Running : submitted'[id] = submitted[id]
      PROVE  RecordingsAreRight'
  <2>1. Completed' = Completed /\ Running' = Running /\ Envs' = Envs
    BY <1>3, NoEnvironmentChanges
  <2>2. \A id \in Running : Envs[id].submitted => Envs[id].recorded
    BY DEF RecordingsAreRight
  <2> QED BY <2>1, <2>2, <1>1, <1>3, RecordingsStay DEF SameCommands
<1>4. ASSUME NEW b \in Bundles, SubmitRenderJobBundle(b) PROVE RecordingsAreRight'
  <2>1. \A id \in Running : submitted'[id] = submitted[id]
    BY <1>2, <1>4, AppendProperties DEF SubmitRenderJobBundle
  <2> QED BY <2>1, <1>3, <1>4 DEF SubmitRenderJobBundle, engine
<1>5. CASE ExtractBundle
  BY <1>5, ExtractKeepsRecordings
<1>6. ASSUME NEW e \in DOMAIN mRunningJobQueue, SubmitCommandLists(e) PROVE RecordingsAreRight'
  <2>1. PICK n : n = Completed + e
    OBVIOUS
  <2>2. /\ n \in Running /\ Envs[n].recorded
        /\ Completed' = Completed /\ Running' = Running
        /\ \A id \in Running :
              /\ SameCommands(Envs'[id], Envs[id]) /\ Envs'[id].recorded = Envs[id].recorded
              /\ Envs'[id].submitted <=> id = n \/ Envs[id].submitted
    BY <2>1, <1>1, <1>6, EnvironmentIsSubmitted
  <2>3. UNCHANGED <<extracted, recordings, commands, submitted>>
    BY <1>6 DEF SubmitCommandLists
  <2>4. \A id \in Running : Envs'[id].submitted => Envs'[id].recorded
    BY <2>2 DEF RecordingsAreRight
  <2> QED BY <2>2, <2>3, <2>4, <1>1, RecordingsStay
<1>7. CASE CompleteOldest
  BY <1>7, CompleteKeepsRecordings
<1>8. ASSUME NEW id \in DOMAIN recordings, BeginRecording(id) PROVE RecordingsAreRight'
  BY <1>8, BeginKeepsRecordings
<1>9. ASSUME NEW id \in DOMAIN recordings, NEW j \in JobsOf(submitted[id]), RecordCommands(id, j)
      PROVE  RecordingsAreRight'
  BY <1>9, RecordKeepsRecordings
<1>10. ASSUME NEW id \in DOMAIN recordings, EndRecording(id) PROVE RecordingsAreRight'
  BY <1>10, EndKeepsRecordings
<1>11. CASE \/ BeginUpdate \/ EndSubmission \/ EndUpdate \/ JobsWait \/ UNCHANGED vars
            \/ \E q \in Queues : ExecuteOnGPU(q) \/ SignalOnGPU(q)
  BY <1>3, <1>11, WaitsChangeNothing DEF BeginUpdate, EndSubmission, EndUpdate, ExecuteOnGPU, SignalOnGPU, vars, engine
<1> QED BY <1>4, <1>5, <1>6, <1>7, <1>8, <1>9, <1>10, <1>11 DEF Next, JobsWait

-----------------------------------------------------------------------------
(* One queue for a resource, unless it is only read and decays.              *)

LEMMA OnlyOne ==
    ASSUME NEW S, IsFiniteSet(S), ~(Cardinality(S) > 1), NEW x \in S, NEW y \in S
    PROVE  x = y
<1>1. IsFiniteSet(S \ {x}) /\ Cardinality(S \ {x}) = Cardinality(S) - 1
  BY FS_RemoveElement
<1>2. Cardinality(S) \in Nat /\ Cardinality(S \ {x}) \in Nat
  BY <1>1, FS_CardinalityType
<1>3. Cardinality(S \ {x}) = 0
  BY <1>1, <1>2
<1>4. S \ {x} = {}
  BY <1>1, <1>3, FS_EmptySet
<1> QED BY <1>4

LEMMA SameQueue ==
    ASSUME NEW a \in Bundles, NEW b \in Bundles, ~DependsOn(a, b),
           NEW r \in Resources, NEW j \in JobsOf(a), NEW k \in JobsOf(b),
           Meet(r, Job(a, j), Job(b, k))
    PROVE  j[1] = k[1]
<1>1. PICK S : S = QueuesUsing(a, r) \cup QueuesUsing(b, r)
  OBVIOUS
<1>2. r \in SharedResources(a, b)
  BY DEF SharedResources, Meet
<1>3. ~(Cardinality(S) > 1)
  BY <1>1, <1>2 DEF DependsOn
<1>4. S \subseteq Queues
  <2>1. QueuesUsing(a, r) \subseteq Queues /\ QueuesUsing(b, r) \subseteq Queues
    BY JobTypes DEF QueuesUsing
  <2> QED BY <2>1, <1>1
<1>5. IsFiniteSet(Queues)
  <2>1. Queues = (({} \cup {"DIRECT"}) \cup {"COMPUTE"}) \cup {"COPY"}
    BY DEF Queues
  <2> QED BY <2>1, FS_EmptySet, FS_AddElement
<1>6. IsFiniteSet(S)
  BY <1>4, <1>5, FS_Subset
<1>7. j[1] \in S /\ k[1] \in S
  BY <1>1 DEF QueuesUsing, Meet
<1> QED BY <1>3, <1>6, <1>7, OnlyOne

LEMMA SubmitKeepsOneQueue ==
    ASSUME FenceInv, OneQueue, NEW b \in Bundles, SubmitRenderJobBundle(b)
    PROVE  OneQueue'
<1>1. PICK n : n = Len(submitted) + 1
  OBVIOUS
<1>2. /\ Types /\ BundlesAreInOrder /\ submitted \in Seq(Bundles) /\ Len(submitted) \in Nat
      /\ Completed \in Nat /\ n \in Nat
      /\ \A id \in 1 .. Len(submitted) : submitted[id] \in Bundles
  BY <1>1, EnvironmentTypes DEF FenceInv, Types
<1>3. /\ submitted' = Append(submitted, b) /\ Completed' = Completed
      /\ \A id \in Ids \ completed : ~DependsOn(b, submitted[id])
  <2>1. UNCHANGED <<extracted, mRunningJobQueue>>
    BY DEF SubmitRenderJobBundle, engine
  <2> QED BY <2>1, NoEnvironmentChanges DEF SubmitRenderJobBundle
<1>4. /\ Len(submitted') = n /\ submitted'[n] = b
      /\ \A id \in 1 .. Len(submitted) : submitted'[id] = submitted[id]
  BY <1>1, <1>2, <1>3, AppendProperties
<1>5. \A id \in Completed + 1 .. n : id = n \/ id \in Completed + 1 .. Len(submitted)
  BY <1>1, <1>2
<1>6. ASSUME NEW id \in Completed + 1 .. Len(submitted)
      PROVE  submitted'[id] = submitted[id] /\ submitted[id] \in Bundles /\ ~DependsOn(b, submitted[id])
  <2>1. id \in 1 .. Len(submitted) /\ id \notin 1 .. Completed
    BY <1>2
  <2> QED BY <2>1, <1>2, <1>3, <1>4 DEF BundlesAreInOrder, Ids
<1>7. CheckResourceDependencyConflicts(b)
  BY BundleTypes
<1>8. ASSUME NEW id \in Completed + 1 .. n, NEW jd \in Completed + 1 .. n, NEW r \in Resources,
             NEW j \in JobsOf(submitted'[id]), NEW k \in JobsOf(submitted'[jd]),
             Meet(r, Job(submitted'[id], j), Job(submitted'[jd], k))
      PROVE  j[1] = k[1]
  <2>1. CASE id = n /\ jd = n
    <3>1. /\ j \in JobsOf(b) /\ k \in JobsOf(b)
          /\ r \in UsesOf(Job(b, j)) \cap UsesOf(Job(b, k))
          /\ r \in Decays => r \in Writes(Job(b, j)) \cup Writes(Job(b, k))
      BY <2>1, <1>4, <1>8 DEF Meet
    <3>2. j # k => /\ r \notin Writes(Job(b, j)) /\ r \notin Writes(Job(b, k))
                   /\ j[1] # k[1] => r \in Decays
      BY <3>1, <1>7 DEF CheckResourceDependencyConflicts
    <3> QED BY <3>1, <3>2
  <2>2. CASE id = n /\ jd \in Completed + 1 .. Len(submitted)
    BY <2>2, <1>4, <1>6, <1>8, SameQueue
  <2>3. CASE id \in Completed + 1 .. Len(submitted) /\ jd = n
    <3>1. Meet(r, Job(b, k), Job(submitted[id], j))
      BY <2>3, <1>4, <1>6, <1>8 DEF Meet
    <3>2. k[1] = j[1]
      BY <2>3, <3>1, <1>4, <1>6, SameQueue
    <3> QED BY <3>2
  <2>4. CASE id \in Completed + 1 .. Len(submitted) /\ jd \in Completed + 1 .. Len(submitted)
    <3>1. submitted'[id] = submitted[id] /\ submitted'[jd] = submitted[jd]
      BY <2>4, <1>6
    <3> QED BY <2>4, <3>1, <1>8 DEF OneQueue
  <2> QED BY <2>1, <2>2, <2>3, <2>4, <1>5
<1>9. \A id \in (Completed + 1 .. Len(submitted))' : id \in Completed + 1 .. n
  BY <1>3, <1>4
<1> QED BY <1>8, <1>9 DEF OneQueue

\* Bundles are completed, and are otherwise left alone.
LEMMA OneQueueStays ==
    ASSUME OneQueue, submitted' = submitted, Len(submitted) \in Nat,
           Completed \in Nat, Completed' \in Nat, Completed <= Completed'
    PROVE  OneQueue'
<1>1. PICK c, d, n : c = Completed /\ d = Completed' /\ n = Len(submitted)
  OBVIOUS
<1>2. c \in Nat /\ d \in Nat /\ n \in Nat /\ c <= d
  BY <1>1
<1>3. \A id \in d + 1 .. n : id \in c + 1 .. n
  BY <1>2
<1>4. \A id \in (Completed + 1 .. Len(submitted))' : id \in Completed + 1 .. Len(submitted)
  BY <1>1, <1>3
<1>5. ASSUME NEW id \in (Completed + 1 .. Len(submitted))', NEW jd \in (Completed + 1 .. Len(submitted))',
             NEW r \in Resources,
             NEW j \in JobsOf(submitted'[id]), NEW k \in JobsOf(submitted'[jd]),
             Meet(r, Job(submitted'[id], j), Job(submitted'[jd], k))
      PROVE  j[1] = k[1]
  <2>1. id \in Completed + 1 .. Len(submitted) /\ jd \in Completed + 1 .. Len(submitted)
    BY <1>4
  <2>2. j \in JobsOf(submitted[id]) /\ k \in JobsOf(submitted[jd])
    OBVIOUS
  <2>3. Meet(r, Job(submitted[id], j), Job(submitted[jd], k))
    BY <1>5
  <2> QED BY <2>1, <2>2, <2>3 DEF OneQueue
<1> QED BY <1>5 DEF OneQueue, Meet

-----------------------------------------------------------------------------
(* The states of the resources.                                              *)

ResourceInv == DecaysAreKnown /\ StatesFollow /\ GPUFollows

LEMMA DecaysStay ==
    ASSUME Types, UNCHANGED <<extracted, executed>>,
           \A id \in 1 .. extracted : submitted'[id] = submitted[id],
           NEW r
    PROVE  /\ HasDecayed(r)' <=> HasDecayed(r)
           /\ \A id \in Running \cup {extracted + 1} :
                 IsWrittenBefore(id, r)' <=> IsWrittenBefore(id, r)
<1>1. extracted \in Nat /\ Running \subseteq 1 .. extracted
  BY EnvironmentTypes
<1>2. HasDecayed(r)' <=> HasDecayed(r)
  BY DEF HasDecayed
<1>3. ASSUME NEW id \in Running \cup {extracted + 1}, NEW jd \in 1 .. id - 1
      PROVE  jd \in 1 .. extracted
  BY <1>1
<1>4. ASSUME NEW id \in Running \cup {extracted + 1}
      PROVE  IsWrittenBefore(id, r)' <=> IsWrittenBefore(id, r)
  BY <1>3 DEF IsWrittenBefore
<1> QED BY <1>2, <1>4

\* Most steps change neither the states nor what the GPU has executed.
LEMMA ResourcesStay ==
    ASSUME Types, ResourceInv, UNCHANGED <<extracted, mCurrState, gpuState, executed>>,
           Running' = Running,
           \A id \in Running : Envs'[id].remembered = Envs[id].remembered,
           \A id \in 1 .. extracted : submitted'[id] = submitted[id]
    PROVE  ResourceInv'
<1> \A id \in Running : submitted'[id] = submitted[id]
  BY EnvironmentTypes
<1>1. \A r : WrittenIn(r)' = WrittenIn(r) /\ InTurn(r)' = InTurn(r)
  BY DEF WrittenIn, InTurn
<1>2. \A r, id : Before(id, r)' = Before(id, r)
  BY DEF Before
<1>3. \A r : \A id \in Running :
         /\ IsWritten(id, r)' <=> IsWritten(id, r)
         /\ IsUnwritten(id, r)' <=> IsUnwritten(id, r)
         /\ \A state : IsFinal(id, r, state)' <=> IsFinal(id, r, state)
  BY DEF IsWritten, IsUnwritten, IsFinal
<1>4. \A r : WrittenIn(r) \subseteq Running
  BY DEF WrittenIn
<1>5. \A r, id : GPUIsBetween(id, r)' <=> GPUIsBetween(id, r)
  BY <1>1, <1>3, <1>4 DEF GPUIsBetween
<1>6. DecaysAreKnown'
  BY DecaysStay DEF ResourceInv, DecaysAreKnown, Decayed
<1>7. StatesFollow'
  BY <1>1, <1>2, <1>3, <1>4 DEF ResourceInv, StatesFollow
<1>8. GPUFollows'
  BY <1>1, <1>2, <1>5 DEF ResourceInv, GPUFollows
<1> QED BY <1>6, <1>7, <1>8 DEF ResourceInv

LEMMA ExtractKeepsResources ==
    ASSUME FenceInv, ResourceInv, ExtractBundle
    PROVE  ResourceInv'
<1>1. PICK n, b : n = extracted + 1 /\ b = submitted[n]
  OBVIOUS
<1>2. /\ Types /\ BundlesAreInOrder /\ extracted \in Nat /\ Completed \in Nat /\ Completed <= extracted
      /\ Running \subseteq 1 .. extracted
      /\ \A id \in 1 .. Len(submitted) : submitted[id] \in Bundles
  BY EnvironmentTypes DEF FenceInv
<1>3. /\ n \in 1 .. Len(submitted) /\ n \in Nat /\ extracted' = n
      /\ Running' = Running \cup {n} /\ n \notin Running
      /\ \A id \in Running : Envs'[id] = Envs[id]
      /\ Envs'[n] = CreateRenderJobExecutionEnvironment(n, b)
  <2>1. /\ extracted + 1 \in 1 .. Len(submitted)
        /\ extracted' = extracted + 1
        /\ Running' = Running \cup {extracted + 1} /\ extracted + 1 \notin Running
        /\ \A id \in Running : Envs'[id] = Envs[id]
        /\ Envs'[extracted + 1] =
              CreateRenderJobExecutionEnvironment(extracted + 1, submitted[extracted + 1])
    BY <1>2, EnvironmentIsAdded
  <2>2. submitted[n] = b /\ n \in Nat
    BY <1>1, <1>2
  <2> QED BY <1>1, <2>1, <2>2
<1>4. b \in Bundles
  BY <1>1, <1>2, <1>3
<1>5. Envs'[n].remembered = mCurrState
  BY <1>3 DEF CreateRenderJobExecutionEnvironment
<1>6. /\ submitted' = submitted /\ gpuState' = gpuState /\ executed' = executed
      /\ mCurrState' = InitializeResourceTransitions(b)
  BY <1>1 DEF ExtractBundle, gpu
<1>7. \A r \in Resources : mCurrState'[r] = IF Writers(b, r) = {} THEN mCurrState[r]
                                            ELSE IF r \in Decays THEN COMMON
                                            ELSE FinalState(Job(b, CHOOSE j \in Writers(b, r) : TRUE), r)
  BY <1>6, Zenon DEF InitializeResourceTransitions, Writers
<1>8. DecaysAreKnown'
  <2> SUFFICES ASSUME NEW r \in Decays
               PROVE  /\ gpuState'[r] = Decayed(r, HasDecayed(r)')
                      /\ mCurrState'[r] = Decayed(r, IsWrittenBefore(n + 1, r)')
                      /\ \A id \in Running' :
                            Envs'[id].remembered[r] = Decayed(r, IsWrittenBefore(id, r)')
    BY <1>3 DEF DecaysAreKnown, Decayed
  <2>1. /\ r \in Resources /\ gpuState[r] = Decayed(r, HasDecayed(r))
        /\ mCurrState[r] = Decayed(r, IsWrittenBefore(n, r))
        /\ \A id \in Running : Envs[id].remembered[r] = Decayed(r, IsWrittenBefore(id, r))
    BY <1>1, RenderJobsAssumption DEF ResourceInv, DecaysAreKnown
  <2>2. HasDecayed(r)' <=> HasDecayed(r)
    <3>1. ASSUME NEW id \in 1 .. n, NEW q, <<id, q>> \in executed PROVE id \in 1 .. extracted
      BY <3>1, <1>2 DEF BundlesAreInOrder
    <3>2. \A id \in 1 .. extracted : id \in 1 .. n
      BY <1>1, <1>2
    <3> QED BY <3>1, <3>2, <1>3, <1>6 DEF HasDecayed
  <2>3. \A id : IsWrittenBefore(id, r)' <=> IsWrittenBefore(id, r)
    BY <1>6 DEF IsWrittenBefore
  <2>4. IsWrittenBefore(n + 1, r) <=> IsWrittenBefore(n, r) \/ Writers(b, r) # {}
    <3>1. \A jd \in 1 .. (n + 1) - 1 : jd \in 1 .. n - 1 \/ jd = n
      BY <1>3
    <3>2. /\ n \in 1 .. (n + 1) - 1
          /\ \A jd \in 1 .. n - 1 : jd \in 1 .. (n + 1) - 1
      BY <1>3
    <3>3. Writers(b, r) # {} <=> \E j \in JobsOf(submitted[n]) : r \in Writes(Job(submitted[n], j))
      BY <1>1 DEF Writers
    <3>4. ASSUME NEW jd, jd \in 1 .. n - 1 \/ jd = n PROVE jd \in 1 .. (n + 1) - 1
      BY <3>2, <3>4
    <3>5. ASSUME IsWrittenBefore(n + 1, r) PROVE IsWrittenBefore(n, r) \/ Writers(b, r) # {}
      <4>1. PICK jd \in 1 .. (n + 1) - 1 :
               \E j \in JobsOf(submitted[jd]) : r \in Writes(Job(submitted[jd], j))
        BY <3>5 DEF IsWrittenBefore
      <4>2. CASE jd \in 1 .. n - 1
        BY <4>1, <4>2 DEF IsWrittenBefore
      <4>3. CASE jd = n
        BY <4>1, <4>3, <3>3
      <4> QED BY <4>2, <4>3, <3>1
    <3>6. ASSUME IsWrittenBefore(n, r) \/ Writers(b, r) # {} PROVE IsWrittenBefore(n + 1, r)
      <4>1. PICK jd : /\ jd \in 1 .. n - 1 \/ jd = n
                      /\ \E j \in JobsOf(submitted[jd]) : r \in Writes(Job(submitted[jd], j))
        BY <3>3, <3>6 DEF IsWrittenBefore
      <4> QED BY <4>1, <3>4 DEF IsWrittenBefore
    <3> QED BY <3>5, <3>6
  <2>5. mCurrState'[r] = Decayed(r, IsWrittenBefore(n + 1, r)')
    BY <2>1, <2>3, <2>4, <1>7 DEF Decayed
  <2>6. \A id \in Running' : Envs'[id].remembered[r] = Decayed(r, IsWrittenBefore(id, r)')
    BY <2>1, <2>3, <1>3, <1>5 DEF Decayed
  <2> QED BY <2>1, <2>2, <2>5, <2>6, <1>6 DEF Decayed
<1>9. PICK m : m = n + 1
  OBVIOUS
<1>10. /\ m \in Nat /\ n < m /\ n # m /\ n \notin Running /\ m \notin Running /\ m \notin Running'
       /\ \A id \in Running : id \in Nat /\ id < n /\ id < m
  <2>1. m \in Nat /\ n < m /\ n # m
    BY <1>3, <1>9
  <2>2. \A id \in 1 .. extracted : id \in Nat /\ id < n /\ id < m
    BY <1>1, <1>2, <1>9
  <2>3. \A id \in Running : id \in Nat /\ id < n /\ id < m
    BY <2>2, <1>2
  <2>4. m \notin Running
    BY <2>1, <2>3
  <2> QED BY <2>1, <2>3, <2>4, <1>3
<1>11. ASSUME NEW r
       PROVE  /\ WrittenIn(r) \subseteq Running /\ InTurn(r) = WrittenIn(r) \cup {n}
              /\ WrittenIn(r)' = WrittenIn(r) \cup IF Writers(b, r) = {} THEN {} ELSE {n}
              /\ InTurn(r)' = WrittenIn(r)' \cup {m}
              /\ \A id \in Running : Before(id, r)' = Before(id, r)
              /\ Before(n, r) = mCurrState[r] /\ Before(n, r)' = mCurrState[r]
              /\ Before(m, r)' = mCurrState'[r]
  <2>1. WrittenIn(r)' = {id \in Running' : Writers(submitted[id], r) # {}}
    BY <1>6 DEF WrittenIn
  <2>2. WrittenIn(r)' = WrittenIn(r) \cup IF Writers(b, r) = {} THEN {} ELSE {n}
    BY <2>1, <1>1, <1>3 DEF WrittenIn
  <2>3. InTurn(r) = WrittenIn(r) \cup {n} /\ InTurn(r)' = WrittenIn(r)' \cup {m}
    BY <1>1, <1>3, <1>9 DEF InTurn
  <2>4. /\ \A id \in Running : Before(id, r)' = Before(id, r)
        /\ Before(n, r) = mCurrState[r] /\ Before(n, r)' = mCurrState[r]
        /\ Before(m, r)' = mCurrState'[r]
    BY <1>3, <1>5, <1>10 DEF Before
  <2> QED BY <2>2, <2>3, <2>4 DEF WrittenIn
<1>12. \A r, id : /\ IsWritten(id, r)' <=> IsWritten(id, r)
                  /\ IsUnwritten(id, r)' <=> IsUnwritten(id, r)
                  /\ \A state : IsFinal(id, r, state)' <=> IsFinal(id, r, state)
  BY <1>6 DEF IsWritten, IsUnwritten, IsFinal
<1>13. ASSUME NEW r \in Resources \ Decays, NEW id \in InTurn(r)', NEW jd \in WrittenIn(r)', jd < id,
              \A kd \in WrittenIn(r)' : ~(jd < kd /\ kd < id)
       PROVE  IsFinal(jd, r, Before(id, r)')
  <2>1. CASE id \in WrittenIn(r)
    <3>1. id \in Running /\ id < n
      BY <2>1, <1>10, <1>11
    <3>2. jd # n
      <4>1. id \in Nat /\ n \in Nat /\ ~(n < id)
        BY <3>1, <1>3, <1>10
      <4> QED BY <4>1, <1>13
    <3>3. jd \in WrittenIn(r)
      BY <3>2, <1>11, <1>13
    <3>4. IsFinal(jd, r, Before(id, r))
      BY <2>1, <3>3, <1>11, <1>13 DEF ResourceInv, StatesFollow
    <3> QED BY <3>1, <3>4, <1>11
  <2>2. CASE id = n
    <3>1. jd # n
      BY <2>2, <1>10, <1>13
    <3>2. jd \in WrittenIn(r) /\ n \in InTurn(r)
      BY <3>1, <1>11, <1>13
    <3>3. IsFinal(jd, r, Before(n, r))
      BY <2>2, <3>2, <1>11, <1>13 DEF ResourceInv, StatesFollow
    <3> QED BY <2>2, <3>3, <1>11
  <2>3. CASE id = m /\ Writers(b, r) = {}
    <3>1. jd \in WrittenIn(r) /\ n \in InTurn(r) /\ jd < n /\ WrittenIn(r)' = WrittenIn(r)
      BY <2>3, <1>10, <1>11, <1>13
    <3>2. \A kd \in WrittenIn(r) : ~(jd < kd /\ kd < n)
      BY <2>3, <3>1, <1>10, <1>11, <1>13
    <3>3. IsFinal(jd, r, Before(n, r))
      BY <3>1, <3>2 DEF ResourceInv, StatesFollow
    <3>4. Before(m, r)' = Before(n, r)
      BY <2>3, <1>7, <1>11
    <3> QED BY <2>3, <3>3, <3>4
  <2>4. CASE id = m /\ Writers(b, r) # {}
    <3>1. n \in WrittenIn(r)' /\ n < id
      BY <2>4, <1>10, <1>11
    <3>2. jd = n
      <4>1. ~(jd < n)
        BY <3>1, <1>13
      <4> QED BY <4>1, <1>10, <1>11, <1>13
    <3>3. PICK w : w = CHOOSE j \in Writers(b, r) : TRUE
      OBVIOUS
    <3>4. w \in Writers(b, r)
      BY <2>4, <3>3, Zenon
    <3>5. Before(m, r)' = FinalState(Job(b, w), r)
      BY <2>4, <3>3, <1>7, <1>11
    <3>6. \A j \in Writers(b, r) : j = w
      BY <3>4, <1>4, WriterIsAlone, WriterTypes
    <3> QED BY <2>4, <3>2, <3>5, <3>6, <1>1 DEF IsFinal
  <2> QED BY <2>1, <2>2, <2>3, <2>4, <1>11, <1>13
<1>14. ASSUME NEW r \in Resources \ Decays, NEW id \in InTurn(r)', GPUIsBetween(id, r)'
       PROVE  Before(id, r)' = gpuState[r]
  <2>1. ASSUME NEW jd \in WrittenIn(r), jd < id PROVE IsWritten(jd, r)
    BY <2>1, <1>11, <1>12, <1>14 DEF GPUIsBetween
  <2>2. CASE id \in WrittenIn(r)
    <3>1. id \in Running /\ id \in Running' /\ id \in InTurn(r)
      BY <2>2, <1>3, <1>11
    <3>2. GPUIsBetween(id, r)
      BY <2>1, <3>1, <1>12, <1>14 DEF GPUIsBetween
    <3> QED BY <3>1, <3>2, <1>11 DEF ResourceInv, GPUFollows
  <2>3. CASE id = n
    <3>1. GPUIsBetween(n, r) /\ n \in InTurn(r)
      BY <2>1, <2>3, <1>10, <1>11 DEF GPUIsBetween
    <3> QED BY <2>3, <3>1, <1>11 DEF ResourceInv, GPUFollows
  <2>4. CASE id = m /\ Writers(b, r) = {}
    <3>1. ASSUME NEW jd \in WrittenIn(r) PROVE IsWritten(jd, r)
      BY <2>1, <2>4, <1>10, <1>11
    <3>2. GPUIsBetween(n, r) /\ n \in InTurn(r)
      BY <3>1, <1>10, <1>11 DEF GPUIsBetween
    <3> QED BY <2>4, <3>2, <1>7, <1>11 DEF ResourceInv, GPUFollows
  <2>5. CASE id = m /\ Writers(b, r) # {}
    <3>1. IsWritten(n, r)
      BY <2>5, <1>10, <1>11, <1>12, <1>14 DEF GPUIsBetween
    <3>2. PICK j \in Writers(b, r) : <<n, j[1]>> \in executed
      BY <2>5, <3>1, <1>1 DEF IsWritten
    <3>3. n \in 1 .. extracted
      BY <3>2, <1>2 DEF BundlesAreInOrder
    <3> QED BY <3>3, <1>1, <1>2
  <2> QED BY <2>2, <2>3, <2>4, <2>5, <1>11, <1>14
<1>15. StatesFollow'
  BY <1>12, <1>13 DEF StatesFollow
<1>16. GPUFollows'
  BY <1>6, <1>14 DEF GPUFollows
<1> QED BY <1>8, <1>15, <1>16 DEF ResourceInv

LEMMA CompleteKeepsResources ==
    ASSUME FenceInv, ResourceInv, CompleteOldest
    PROVE  ResourceInv'
<1>1. PICK n : n = Completed + 1
  OBVIOUS
<1>2. /\ Types /\ ValuesIncrease /\ QueuesAreInOrder /\ FencesAreRight
      /\ extracted \in Nat /\ Completed \in Nat /\ Running \subseteq 1 .. extracted
      /\ \A id \in 1 .. extracted : submitted[id] \in Bundles
  BY EnvironmentTypes DEF FenceInv
<1>3. /\ n \in Running /\ extracted' = extracted
      /\ Running' = Running \ {n}
      /\ \A id \in Running' : Envs'[id] = Envs[id]
  BY <1>1, <1>2, EnvironmentIsRemoved
<1>4. UNCHANGED <<submitted, mCurrState, gpuState, executed>>
  BY DEF CompleteOldest, gpu
<1>5. submitted[n] \in Bundles /\ \A q \in UsedQueues(submitted[n]) : <<n, q>> \in executed
  BY <1>1, <1>2, <1>3, CompletedIsExecuted
<1>6. \A id \in Running' : id \in Nat /\ n < id
  BY <1>1, <1>2, <1>3 DEF Running
<1>7. extracted + 1 \notin Running
  BY <1>2
<1>8. ASSUME NEW r
      PROVE  /\ WrittenIn(r)' = WrittenIn(r) \ {n} /\ WrittenIn(r) \subseteq Running
             /\ InTurn(r) = WrittenIn(r) \cup {extracted + 1}
             /\ InTurn(r)' = WrittenIn(r)' \cup {extracted + 1}
             /\ \A id \in InTurn(r)' : Before(id, r)' = Before(id, r)
             /\ IsWritten(n, r)
  <2>1. WrittenIn(r)' = WrittenIn(r) \ {n} /\ WrittenIn(r) \subseteq Running
    BY <1>3, <1>4 DEF WrittenIn
  <2>2. InTurn(r) = WrittenIn(r) \cup {extracted + 1} /\ InTurn(r)' = WrittenIn(r)' \cup {extracted + 1}
    BY <1>3 DEF InTurn
  <2>3. ASSUME NEW id \in InTurn(r)'
        PROVE  id \in Running' \/ (id \notin Running /\ id \notin Running')
    <3>1. CASE id \in WrittenIn(r)'
      BY <3>1, <2>1, <1>3
    <3>2. CASE id = extracted + 1
      BY <3>2, <1>3, <1>7
    <3> QED BY <3>1, <3>2, <2>2, <2>3
  <2>4. \A id \in InTurn(r)' : Before(id, r)' = Before(id, r)
    BY <2>3, <1>3, <1>4 DEF Before
  <2>5. IsWritten(n, r)
    BY <1>5, WriterTypes DEF IsWritten
  <2> QED BY <2>1, <2>2, <2>4, <2>5
<1>9. \A r, id : /\ IsWritten(id, r)' <=> IsWritten(id, r)
                 /\ IsUnwritten(id, r)' <=> IsUnwritten(id, r)
                 /\ \A state : IsFinal(id, r, state)' <=> IsFinal(id, r, state)
  BY <1>4 DEF IsWritten, IsUnwritten, IsFinal
<1>10. ASSUME NEW r \in Resources \ Decays, NEW id \in InTurn(r)', NEW jd \in WrittenIn(r)', jd < id,
              \A kd \in WrittenIn(r)' : ~(jd < kd /\ kd < id)
       PROVE  IsFinal(jd, r, Before(id, r)')
  <2>1. jd \in Running' /\ n < jd /\ jd \in Nat /\ n \in Nat
    <3>1. jd \in Running'
      BY <1>3, <1>8, <1>10
    <3> QED BY <3>1, <1>1, <1>2, <1>6
  <2>2. ~(jd < n)
    BY <2>1
  <2>3. \A kd \in WrittenIn(r) : ~(jd < kd /\ kd < id)
    BY <2>2, <1>8, <1>10
  <2>4. id \in InTurn(r) /\ jd \in WrittenIn(r)
    BY <1>8, <1>10
  <2>5. IsFinal(jd, r, Before(id, r))
    BY <2>3, <2>4, <1>10 DEF ResourceInv, StatesFollow
  <2> QED BY <2>5, <1>8, <1>10
<1>11. ASSUME NEW r \in Resources \ Decays, NEW id \in InTurn(r)', GPUIsBetween(id, r)'
       PROVE  Before(id, r)' = gpuState[r]
  <2>1. ASSUME NEW jd \in WrittenIn(r), jd < id PROVE IsWritten(jd, r)
    BY <2>1, <1>8, <1>9, <1>11 DEF GPUIsBetween
  <2>2. id \in Running => id \in Running'
    BY <1>3, <1>7, <1>8, <1>11
  <2>3. GPUIsBetween(id, r)
    BY <2>1, <2>2, <1>9, <1>11 DEF GPUIsBetween
  <2> QED BY <2>3, <1>8, <1>11 DEF ResourceInv, GPUFollows
<1>12. DecaysAreKnown'
  <2>1. \A r : /\ HasDecayed(r)' <=> HasDecayed(r)
              /\ \A id \in Running \cup {extracted + 1} :
                    IsWrittenBefore(id, r)' <=> IsWrittenBefore(id, r)
    BY <1>2, <1>3, <1>4, DecaysStay
  <2> QED BY <2>1, <1>3, <1>4 DEF ResourceInv, DecaysAreKnown, Decayed
<1>13. StatesFollow'
  BY <1>9, <1>10 DEF StatesFollow
<1>14. GPUFollows'
  BY <1>4, <1>11 DEF GPUFollows
<1> QED BY <1>12, <1>13, <1>14 DEF ResourceInv

\* The GPU is about to execute what the jobs of a bundle have recorded.
LEMMA HeadContents ==
    ASSUME FenceInv, RecordingsAreRight, NEW q \in Queues, gpuQueue[q] # <<>>,
           NEW entry, entry = Head(gpuQueue[q]), entry.kind = "lists", NEW n, n = entry.id
    PROVE  /\ n \in Running /\ submitted[n] \in Bundles /\ Uses(n, q)
           /\ \A id \in Running : Uses(id, q) => (<<id, q>> \in executed <=> id < n)
           /\ DOMAIN entry.lists = 1 .. Len(submitted[n][q])
           /\ \A i \in DOMAIN entry.lists :
                 /\ <<q, i>> \in JobsOf(submitted[n])
                 /\ <<q, entry.lists[i]>> \in DOMAIN commands
                 /\ commands[<<q, entry.lists[i]>>] =
                       Record(Job(submitted[n], <<q, i>>), Envs[n].remembered)
<1>1. Types /\ ListsAreRight
  BY DEF FenceInv
<1>2. gpuQueue[q] \in Seq(Entries) /\ Len(gpuQueue[q]) \in Nat
  BY <1>1, LenProperties DEF Types
<1>3. Len(gpuQueue[q]) > 0 /\ Head(gpuQueue[q]) = gpuQueue[q][1]
  BY <1>2, SeqIsEmpty
<1>4. 1 \in 1 .. Len(gpuQueue[q]) /\ IsLists(q, 1) /\ n = gpuQueue[q][1].id
  <2>1. 1 \in 1 .. Len(gpuQueue[q])
    BY <1>2, <1>3
  <2> QED BY <2>1, <1>3 DEF IsLists
<1>5. /\ n \in Running /\ Uses(n, q) /\ Envs[n].submitted /\ entry.lists = Envs[n].lists[q]
      /\ \A id \in Running : Uses(id, q) => (<<id, q>> \in executed <=> id < n)
  BY <1>3, <1>4, ExecutionOrder
<1>6. submitted[n] \in Bundles /\ Envs[n] \in Environments
  BY <1>1, <1>5, EnvironmentTypes
<1>7. DOMAIN entry.lists = 1 .. Len(submitted[n][q])
  BY <1>1, <1>5, <1>6, FieldTypes DEF ListsAreRight
<1>8. \A j \in JobsOf(submitted[n]) : IsRecorded(n, j)
  <2>1. recordings[n].phase = "done" /\ n \in 1 .. extracted
    BY <1>1, <1>5, EnvironmentTypes DEF RecordingsAreRight
  <2>2. recordings[n].left = {}
    BY <2>1 DEF RecordingsAreRight
  <2>3. recordings[n].phase # "dispatched"
    BY <2>1
  <2> QED BY <2>2, <2>3, <1>5 DEF RecordingsAreRight
<1>9. ASSUME NEW i \in DOMAIN entry.lists
      PROVE  /\ <<q, i>> \in JobsOf(submitted[n])
             /\ <<q, entry.lists[i]>> \in DOMAIN commands
             /\ commands[<<q, entry.lists[i]>>] =
                   Record(Job(submitted[n], <<q, i>>), Envs[n].remembered)
  <2>1. PICK j : j = <<q, i>>
    OBVIOUS
  <2>2. j \in JobsOf(submitted[n]) /\ j[1] = q /\ j[2] = i
    BY <2>1, <1>6, <1>7, <1>9, JobOf
  <2>3. ListOf(Envs[n], j) = <<q, entry.lists[i]>>
    BY <2>2, <1>5 DEF ListOf
  <2>4. IsRecorded(n, j)
    BY <2>2, <1>8
  <2> QED BY <2>1, <2>2, <2>3, <2>4 DEF IsRecorded
<1> QED BY <1>5, <1>6, <1>7, <1>9

\* What the lists do to a resource that does not decay.
LEMMA StateAfterLists ==
    ASSUME FenceInv, RecordingsAreRight, NEW q \in Queues, gpuQueue[q] # <<>>,
           NEW entry, entry = Head(gpuQueue[q]), entry.kind = "lists", NEW n, n = entry.id,
           NEW r \in Resources \ Decays
    PROVE  /\ (\A j \in Writers(submitted[n], r) : j[1] # q) => StateAfter(q, entry, r) = gpuState[r]
           /\ \A j \in Writers(submitted[n], r) : j[1] = q =>
                 StateAfter(q, entry, r) = FinalState(Job(submitted[n], j), r)
<1> DEFINE writing == {list \in Contents(q, entry) : r \in {list[k].res : k \in DOMAIN list}}
           b       == submitted[n]
<1>1. /\ b \in Bundles
      /\ DOMAIN entry.lists = 1 .. Len(b[q])
      /\ \A i \in DOMAIN entry.lists :
            /\ <<q, i>> \in JobsOf(b)
            /\ commands[<<q, entry.lists[i]>>] = Record(Job(b, <<q, i>>), Envs[n].remembered)
  BY HeadContents
<1>2. StateAfter(q, entry, r) =
        IF writing = {} THEN gpuState[r]
        ELSE (CHOOSE l \in writing : TRUE)[Latest({k \in DOMAIN (CHOOSE l \in writing : TRUE) :
                                                     (CHOOSE l \in writing : TRUE)[k].res = r})].to
  BY DEF StateAfter
<1>3. ASSUME NEW list \in writing
      PROVE  \E j \in Writers(b, r) : j[1] = q /\ list = Record(Job(b, j), Envs[n].remembered)
  <2>1. PICK i \in DOMAIN entry.lists : list = commands[<<q, entry.lists[i]>>]
    BY DEF Contents
  <2>2. PICK j : j = <<q, i>>
    OBVIOUS
  <2>3. j \in JobsOf(b) /\ j[1] = q /\ list = Record(Job(b, j), Envs[n].remembered)
    BY <2>1, <2>2, <1>1
  <2>4. Job(b, j) \in JobSet
    BY <2>3, <1>1, JobTypes
  <2>5. {list[k].res : k \in DOMAIN list} = Writes(Job(b, j))
    <3>1. PICK job, memory : job = Job(b, j) /\ memory = Envs[n].remembered
      OBVIOUS
    <3>2. job \in JobSet /\ list = Record(job, memory)
      BY <3>1, <2>3, <2>4
    <3>3. PICK new : new = Record(job, memory)
      OBVIOUS
    <3>4. {new[k].res : k \in DOMAIN new} = Writes(job)
      BY <3>2, <3>3, RecordedTransitions
    <3>5. list = new
      BY <3>2, <3>3
    <3> QED BY <3>1, <3>4, <3>5
  <2>6. r \in Writes(Job(b, j))
    BY <2>5
  <2> QED BY <2>3, <2>6 DEF Writers
<1>4. ASSUME NEW j \in Writers(b, r), j[1] = q
      PROVE  Record(Job(b, j), Envs[n].remembered) \in writing
  <2>1. /\ j \in JobsOf(b) /\ j = <<j[1], j[2]>> /\ j[2] \in 1 .. Len(b[q])
        /\ Job(b, j) \in JobSet /\ r \in Writes(Job(b, j))
    BY <1>1, <1>4, JobTypes, WriterTypes
  <2>2. PICK i : i = j[2]
    OBVIOUS
  <2>3. i \in DOMAIN entry.lists /\ j = <<q, i>>
    BY <2>1, <2>2, <1>1, <1>4
  <2>4. PICK list : list = Record(Job(b, j), Envs[n].remembered)
    OBVIOUS
  <2>5. commands[<<q, entry.lists[i]>>] = list
    BY <2>3, <2>4, <1>1
  <2>6. list \in Contents(q, entry)
    BY <2>3, <2>5 DEF Contents
  <2>7. {list[k].res : k \in DOMAIN list} = Writes(Job(b, j))
    <3>1. PICK job, memory : job = Job(b, j) /\ memory = Envs[n].remembered
      OBVIOUS
    <3>2. job \in JobSet /\ list = Record(job, memory)
      BY <3>1, <2>1, <2>4
    <3>3. PICK new : new = Record(job, memory)
      OBVIOUS
    <3>4. {new[k].res : k \in DOMAIN new} = Writes(job)
      BY <3>2, <3>3, RecordedTransitions
    <3>5. list = new
      BY <3>2, <3>3
    <3> QED BY <3>1, <3>4, <3>5
  <2> QED BY <2>1, <2>4, <2>6, <2>7
<1>5. ASSUME \A j \in Writers(b, r) : j[1] # q PROVE StateAfter(q, entry, r) = gpuState[r]
  <2>1. writing = {}
    BY <1>3, <1>5
  <2> HIDE DEF writing
  <2> QED BY <2>1, <1>2
<1>6. ASSUME NEW j \in Writers(b, r), j[1] = q
      PROVE  StateAfter(q, entry, r) = FinalState(Job(b, j), r)
  <2>1. writing # {}
    BY <1>4, <1>6
  <2>2. PICK list : list = CHOOSE l \in writing : TRUE
    OBVIOUS
  <2>3. list \in writing
    <3> HIDE DEF writing
    <3> QED BY <2>1, <2>2, Zenon
  <2>4. PICK k \in Writers(b, r) : list = Record(Job(b, k), Envs[n].remembered)
    BY <2>3, <1>3
  <2>5. k = j
    BY <1>1, <1>6, <2>4, WriterIsAlone, WriterTypes
  <2>6. Job(b, j) \in JobSet /\ r \in Writes(Job(b, j))
    BY <1>1, <1>6, WriterTypes
  <2>7. list[Latest({m \in DOMAIN list : list[m].res = r})].to = FinalState(Job(b, j), r)
    <3>1. PICK job, memory : job = Job(b, j) /\ memory = Envs[n].remembered
      OBVIOUS
    <3>2. job \in JobSet /\ r \in Writes(job) /\ list = Record(job, memory)
      BY <3>1, <2>4, <2>5, <2>6
    <3>3. list[Latest({m \in DOMAIN list : list[m].res = r})].to = FinalState(job, r)
      BY <3>2, RecordedFinalState
    <3> QED BY <3>1, <3>3
  <2>8. StateAfter(q, entry, r) = list[Latest({m \in DOMAIN list : list[m].res = r})].to
    <3> HIDE DEF writing
    <3> QED BY <2>1, <2>2, <1>2, Zenon
  <2> QED BY <2>7, <2>8
<1> QED BY <1>5, <1>6

LEMMA ExecuteKeepsResources ==
    ASSUME FenceInv, RecordingsAreRight, OneQueue, ResourceInv, NEW q \in Queues, ExecuteOnGPU(q)
    PROVE  ResourceInv'
<1>1. PICK entry, n : entry = Head(gpuQueue[q]) /\ n = entry.id
  OBVIOUS
<1>2. /\ gpuQueue[q] # <<>> /\ entry.kind = "lists"
      /\ gpuState' = [r \in Resources |-> StateAfter(q, entry, r)]
      /\ executed' = executed \cup {<<n, q>>}
      /\ UNCHANGED <<submitted, extracted, mRunningJobQueue, mCurrState>>
  BY <1>1 DEF ExecuteOnGPU, engine
<1>3. Running' = Running /\ Envs' = Envs
  BY <1>2, NoEnvironmentChanges
<1>4. /\ Types /\ Running \subseteq 1 .. extracted /\ Running \subseteq Nat
      /\ extracted \in Nat /\ Completed \in Nat
      /\ \A id \in Running : submitted[id] \in Bundles /\ id \in Completed + 1 .. Len(submitted)
  <2>1. Types
    BY DEF FenceInv
  <2>2. /\ extracted \in Nat /\ Len(submitted) \in Nat /\ Completed \in Nat
        /\ extracted <= Len(submitted) /\ Running = Completed + 1 .. extracted
    BY <2>1, EnvironmentTypes DEF Running
  <2>3. \A id \in Running : id \in Completed + 1 .. Len(submitted)
    BY <2>2
  <2> QED BY <2>1, <2>3, EnvironmentTypes
<1>5. /\ n \in Running /\ Uses(n, q)
      /\ \A id \in Running : Uses(id, q) => (<<id, q>> \in executed <=> id < n)
  BY <1>1, <1>2, HeadContents
<1>6. DecaysAreKnown'
  <2> SUFFICES ASSUME NEW r \in Decays
               PROVE  gpuState'[r] = Decayed(r, HasDecayed(r)')
    BY <1>2, <1>3 DEF ResourceInv, DecaysAreKnown, Decayed, IsWrittenBefore
  <2>1. r \in Resources /\ gpuState[r] = Decayed(r, HasDecayed(r))
    BY RenderJobsAssumption DEF ResourceInv, DecaysAreKnown
  <2>2. PICK accessed :
           accessed = UNION {UsesOf(submitted[n][q][i]) : i \in DOMAIN submitted[n][q]}
    OBVIOUS
  <2>3. gpuState'[r] = IF r \in accessed THEN COMMON ELSE gpuState[r]
    BY <2>1, <2>2, <1>1, <1>2 DEF StateAfter
  <2>4. r \in accessed <=> \E j \in JobsOf(submitted[n]) : j[1] = q /\ r \in UsesOf(Job(submitted[n], j))
    <3>1. \A i \in DOMAIN submitted[n][q] : <<q, i>> \in JobsOf(submitted[n])
      BY DEF JobsOf
    <3>2. \A j \in JobsOf(submitted[n]) : j[1] = q => j[2] \in DOMAIN submitted[n][q]
      BY DEF JobsOf
    <3> QED BY <2>2, <3>1, <3>2 DEF Job
  <2>5. HasDecayed(r)' <=> HasDecayed(r) \/ r \in accessed
    <3>1. n \in 1 .. extracted
      BY <1>4, <1>5
    <3>2. ASSUME NEW id, NEW p PROVE <<id, p>> \in executed' <=> <<id, p>> \in executed \/ (id = n /\ p = q)
      BY <1>2
    <3> QED BY <3>1, <3>2, <2>4, <1>2 DEF HasDecayed
  <2> QED BY <2>1, <2>3, <2>5 DEF Decayed
<1>7. \A r : /\ WrittenIn(r)' = WrittenIn(r) /\ InTurn(r)' = InTurn(r)
             /\ WrittenIn(r) \subseteq Running
             /\ InTurn(r) = WrittenIn(r) \cup {extracted + 1}
  BY <1>2, <1>3 DEF WrittenIn, InTurn
<1>8. \A r, id : /\ Before(id, r)' = Before(id, r)
                 /\ \A state : IsFinal(id, r, state)' <=> IsFinal(id, r, state)
  BY <1>2, <1>3 DEF Before, IsFinal
<1>9. StatesFollow'
  BY <1>7, <1>8 DEF ResourceInv, StatesFollow
<1>10. ASSUME NEW r \in Resources \ Decays, NEW id \in InTurn(r), GPUIsBetween(id, r)'
       PROVE  Before(id, r) = gpuState'[r]
  <2>1. gpuState'[r] = StateAfter(q, entry, r)
    BY <1>2
  <2>2. /\ \A jd \in WrittenIn(r) : jd < id => IsWritten(jd, r)'
        /\ id \in Running => IsUnwritten(id, r)'
    BY <1>3, <1>7, <1>10 DEF GPUIsBetween
  <2>3. CASE \A j \in Writers(submitted[n], r) : j[1] # q
    <3>1. ASSUME NEW jd, NEW j \in Writers(submitted[jd], r)
          PROVE  <<jd, j[1]>> \in executed' <=> <<jd, j[1]>> \in executed
      BY <2>3, <1>2
    <3>2. \A jd : /\ IsWritten(jd, r)' <=> IsWritten(jd, r)
                  /\ IsUnwritten(jd, r)' <=> IsUnwritten(jd, r)
      BY <3>1, <1>2 DEF IsWritten, IsUnwritten
    <3>3. GPUIsBetween(id, r)
      BY <2>2, <3>2 DEF GPUIsBetween
    <3>4. gpuState'[r] = gpuState[r]
      BY <2>1, <2>3, <1>1, <1>2, StateAfterLists
    <3> QED BY <3>3, <3>4, <1>10 DEF ResourceInv, GPUFollows
  <2>4. ASSUME NEW j \in Writers(submitted[n], r), j[1] = q
        PROVE  Before(id, r) = gpuState'[r]
    <3>1. gpuState'[r] = FinalState(Job(submitted[n], j), r)
      BY <2>1, <2>4, <1>1, <1>2, StateAfterLists
    <3>2. ASSUME NEW jd \in WrittenIn(r)
          PROVE  \E k \in Writers(submitted[jd], r) : k[1] = q /\ Uses(jd, q)
      <4>1. PICK k \in Writers(submitted[jd], r) : jd \in Running
        BY DEF WrittenIn
      <4>2. /\ k \in JobsOf(submitted[jd]) /\ r \in UsesOf(Job(submitted[jd], k))
            /\ j \in JobsOf(submitted[n]) /\ r \in UsesOf(Job(submitted[n], j))
            /\ k[1] \in UsedQueues(submitted[jd])
        BY <4>1, <1>4, <1>5, <2>4, WriterTypes
      <4>3. k[1] = q
        BY <4>1, <4>2, <1>4, <1>5, <2>4 DEF OneQueue, Meet
      <4> QED BY <4>2, <4>3 DEF Uses
    <3>3. n \in WrittenIn(r)
      BY <2>4, <1>5 DEF WrittenIn
    <3>4. n < id
      <4>1. CASE id \in WrittenIn(r)
        <5>1. PICK k \in Writers(submitted[id], r) : k[1] = q /\ Uses(id, q)
          BY <4>1, <3>2
        <5>2. id \in Running /\ IsUnwritten(id, r)'
          BY <4>1, <2>2, <1>7
        <5>3. <<id, q>> \notin executed'
          BY <5>1, <5>2, <1>2 DEF IsUnwritten
        <5>4. ~(id < n) /\ id # n /\ id \in Nat /\ n \in Nat
          BY <5>1, <5>2, <5>3, <1>2, <1>4, <1>5
        <5> QED BY <5>4
      <4>2. CASE id = extracted + 1
        BY <4>2, <1>4, <1>5
      <4> QED BY <4>1, <4>2, <1>7, <1>10
    <3>5. ASSUME NEW kd \in WrittenIn(r), n < kd, kd < id PROVE FALSE
      <4>1. PICK k \in Writers(submitted[kd], r) : k[1] = q /\ Uses(kd, q)
        BY <3>2
      <4>2. IsWritten(kd, r)' /\ kd \in Running
        BY <3>5, <2>2, <1>7
      <4>3. <<kd, q>> \in executed'
        BY <4>1, <4>2, <1>2 DEF IsWritten
      <4>4. kd \in Nat /\ n \in Nat
        BY <4>2, <1>4, <1>5
      <4>5. kd # n /\ ~(kd < n)
        BY <4>4, <3>5
      <4> QED BY <4>1, <4>2, <4>3, <4>5, <1>2, <1>5
    <3>6. IsFinal(n, r, Before(id, r))
      BY <3>3, <3>4, <3>5, <1>10 DEF ResourceInv, StatesFollow
    <3> QED BY <3>1, <3>6, <2>4 DEF IsFinal
  <2> QED BY <2>3, <2>4
<1>11. GPUFollows'
  BY <1>7, <1>8, <1>10 DEF GPUFollows
<1> QED BY <1>6, <1>9, <1>11 DEF ResourceInv

LEMMA StateInvStep ==
    ASSUME FenceInv, FenceInv', RecordingsAreRight, OneQueue, ResourceInv, [Next]_vars
    PROVE  OneQueue' /\ ResourceInv'
<1>1. Types /\ Types'
  BY DEF FenceInv
<1>2. /\ \A id \in Running : submitted[id] \in Bundles /\ id \in 1 .. Len(submitted)
      /\ Len(submitted) \in Nat /\ submitted \in Seq(Bundles)
      /\ Completed \in Nat
  BY <1>1, EnvironmentTypes DEF Types
<1>3. Completed' \in Nat
  <2>1. /\ mRunningJobQueue' \in Seq(Environments) /\ Len(mRunningJobQueue') <= extracted'
        /\ submitted' \in Seq(Bundles) /\ extracted' \in 0 .. Len(submitted')
    BY <1>1 DEF Types
  <2>2. PICK m, n, k : m = Len(mRunningJobQueue') /\ n = extracted' /\ k = Len(submitted')
    OBVIOUS
  <2>3. m \in Nat /\ k \in Nat /\ n \in 0 .. k /\ m <= n
    BY <2>1, <2>2, LenProperties
  <2>4. Completed' = n - m
    BY <2>2 DEF Completed
  <2> QED BY <2>3, <2>4
<1>4. ASSUME UNCHANGED <<submitted, extracted, mRunningJobQueue>>
      PROVE  OneQueue' /\ Completed' = Completed /\ Running' = Running /\ Envs' = Envs
  <2>1. Completed' = Completed /\ Running' = Running /\ Envs' = Envs
    BY <1>4, NoEnvironmentChanges
  <2>2. Completed <= Completed'
    BY <2>1, <1>2
  <2> QED BY <2>1, <2>2, <1>2, <1>3, <1>4, OneQueueStays
<1>5. ASSUME UNCHANGED <<submitted, extracted, mRunningJobQueue, mCurrState, gpuState, executed>>
      PROVE  OneQueue' /\ ResourceInv'
  <2>1. OneQueue' /\ Running' = Running /\ Envs' = Envs
    BY <1>4, <1>5
  <2>2. \A id \in Running : Envs'[id].remembered = Envs[id].remembered
    BY <2>1
  <2> QED BY <2>1, <2>2, <1>1, <1>5, ResourcesStay
<1>6. ASSUME NEW b \in Bundles, SubmitRenderJobBundle(b) PROVE OneQueue' /\ ResourceInv'
  <2>1. UNCHANGED <<extracted, mRunningJobQueue, mCurrState, gpuState, executed>>
    BY <1>6 DEF SubmitRenderJobBundle, engine, gpu
  <2>2. Running' = Running /\ Envs' = Envs
    BY <2>1, NoEnvironmentChanges
  <2>3. \A id \in 1 .. extracted : submitted'[id] = submitted[id]
    <3>1. \A id \in 1 .. Len(submitted) : submitted'[id] = submitted[id]
      BY <1>2, <1>6, AppendProperties DEF SubmitRenderJobBundle
    <3>2. \A id \in 1 .. extracted : id \in 1 .. Len(submitted)
      BY <1>1, EnvironmentTypes
    <3> QED BY <3>1, <3>2
  <2>4. ResourceInv'
    BY <2>1, <2>2, <2>3, <1>1, ResourcesStay
  <2> QED BY <2>4, <1>6, SubmitKeepsOneQueue
<1>7. CASE ExtractBundle
  <2>1. Completed' = Completed
    BY <1>1, <1>7, EnvironmentIsAdded
  <2>2. Completed <= Completed' /\ submitted' = submitted
    BY <2>1, <1>2, <1>7 DEF ExtractBundle
  <2>3. OneQueue'
    BY <2>2, <1>2, <1>3, OneQueueStays
  <2> QED BY <2>3, <1>7, ExtractKeepsResources
<1>8. ASSUME NEW e \in DOMAIN mRunningJobQueue, SubmitCommandLists(e) PROVE OneQueue' /\ ResourceInv'
  <2>1. PICK n : n = Completed + e
    OBVIOUS
  <2>2. /\ Completed' = Completed /\ Running' = Running
        /\ \A id \in Running : SameCommands(Envs'[id], Envs[id])
    BY <2>1, <1>1, <1>8, EnvironmentIsSubmitted
  <2>3. UNCHANGED <<submitted, extracted, mCurrState, gpuState, executed>>
    BY <1>8 DEF SubmitCommandLists
  <2>4. Completed <= Completed'
    BY <2>2, <1>2
  <2>5. OneQueue'
    BY <2>3, <2>4, <1>2, <1>3, OneQueueStays
  <2>6. \A id \in Running : Envs'[id].remembered = Envs[id].remembered
    BY <2>2 DEF SameCommands
  <2>7. ResourceInv'
    BY <2>2, <2>3, <2>6, <1>1, ResourcesStay
  <2> QED BY <2>5, <2>7
<1>9. CASE CompleteOldest
  <2>1. Completed' = Completed + 1 /\ submitted' = submitted
    BY <1>1, <1>9, EnvironmentIsRemoved DEF CompleteOldest
  <2>2. Completed <= Completed'
    BY <2>1, <1>2
  <2>3. OneQueue'
    BY <2>1, <2>2, <1>2, <1>3, OneQueueStays
  <2> QED BY <2>3, <1>9, CompleteKeepsResources
<1>10. ASSUME NEW id \in DOMAIN recordings, EndRecording(id) PROVE OneQueue' /\ ResourceInv'
  <2>1. /\ Completed' = Completed /\ extracted' = extracted /\ Running' = Running
        /\ \A jd \in Running : SameCommands(Envs'[jd], Envs[jd])
    BY <1>1, <1>10, EnvironmentIsRecorded DEF FenceInv
  <2>2. UNCHANGED <<submitted, extracted, mCurrState, gpuState, executed>>
    BY <1>10 DEF EndRecording, gpu
  <2>3. Completed <= Completed'
    BY <2>1, <1>2
  <2>4. OneQueue'
    BY <2>2, <2>3, <1>2, <1>3, OneQueueStays
  <2>5. \A jd \in Running : Envs'[jd].remembered = Envs[jd].remembered
    BY <2>1 DEF SameCommands
  <2>6. ResourceInv'
    BY <2>1, <2>2, <2>5, <1>1, ResourcesStay
  <2> QED BY <2>4, <2>6
<1>11. ASSUME NEW q \in Queues, ExecuteOnGPU(q) PROVE OneQueue' /\ ResourceInv'
  <2>1. OneQueue'
    BY <1>4, <1>11 DEF ExecuteOnGPU, engine
  <2> QED BY <2>1, <1>11, ExecuteKeepsResources
<1>12. ASSUME NEW id \in DOMAIN recordings, BeginRecording(id) PROVE OneQueue' /\ ResourceInv'
  BY <1>5, <1>12 DEF BeginRecording, engine, gpu
<1>13. ASSUME NEW id \in DOMAIN recordings, NEW j \in JobsOf(submitted[id]), RecordCommands(id, j)
       PROVE  OneQueue' /\ ResourceInv'
  BY <1>5, <1>13 DEF RecordCommands, engine, gpu
<1>14. ASSUME NEW q \in Queues, SignalOnGPU(q) PROVE OneQueue' /\ ResourceInv'
  BY <1>5, <1>14 DEF SignalOnGPU, engine
<1>15. CASE BeginUpdate \/ EndSubmission \/ EndUpdate \/ JobsWait \/ UNCHANGED vars
  BY <1>5, <1>15, WaitsChangeNothing DEF BeginUpdate, EndSubmission, EndUpdate, vars, engine, gpu
<1> QED BY <1>6, <1>7, <1>8, <1>9, <1>10, <1>11, <1>12, <1>13, <1>14, <1>15 DEF Next, JobsWait

LEMMA StateInvStart ==
    ASSUME Init
    PROVE  RecordingsAreRight /\ OneQueue /\ ResourceInv
<1>1. /\ Completed = 0 /\ Running = {} /\ extracted = 0
      /\ submitted = <<>> /\ Len(submitted) = 0
  <2>1. extracted = 0 /\ mRunningJobQueue = <<>> /\ submitted = <<>>
    BY DEF Init
  <2>2. Len(mRunningJobQueue) = 0 /\ Len(submitted) = 0
    BY <2>1
  <2>3. Completed = extracted - Len(mRunningJobQueue)
    BY DEF Completed
  <2>4. Completed = 0
    BY <2>1, <2>2, <2>3
  <2> QED BY <2>1, <2>2, <2>4 DEF Running
<1>2. RecordingsAreRight
  <2>1. recordings = <<>>
    BY DEF Init
  <2>2. recordings \in Seq(Recordings) /\ Len(recordings) = 0
    BY <2>1
  <2> QED BY <2>2, <1>1 DEF RecordingsAreRight
<1>3. OneQueue
  BY <1>1 DEF OneQueue
<1>4. mCurrState = InitialState /\ gpuState = InitialState
  BY DEF Init
<1>5. DecaysAreKnown
  <2>1. \A r : ~HasDecayed(r) /\ ~IsWrittenBefore(extracted + 1, r)
    BY <1>1 DEF HasDecayed, IsWrittenBefore
  <2> QED BY <2>1, <1>1, <1>4 DEF DecaysAreKnown, Decayed
<1>6. \A r : WrittenIn(r) = {} /\ InTurn(r) = {extracted + 1}
  BY <1>1 DEF WrittenIn, InTurn
<1>7. StatesFollow
  BY <1>6 DEF StatesFollow
<1>8. GPUFollows
  BY <1>1, <1>4, <1>6 DEF GPUFollows, Before
<1> QED BY <1>2, <1>3, <1>5, <1>7, <1>8 DEF ResourceInv

\* The first transition of a resource that decays.
LEMMA DecayIsKnown ==
    ASSUME FenceInv, OneQueue, ResourceInv, NEW q \in Queues, NEW n \in Running, Uses(n, q),
           \A id \in Running : Uses(id, q) => (<<id, q>> \in executed <=> id < n),
           NEW r \in Decays, NEW j \in Writers(submitted[n], r), j[1] = q
    PROVE  Envs[n].remembered[r] = gpuState[r] \/ DecayIsForgotten(n, r)
<1>1. /\ Types /\ BundlesAreInOrder /\ CompletedMeansExecuted
      /\ extracted \in Nat /\ Completed \in Nat /\ Len(submitted) \in Nat
      /\ extracted <= Len(submitted) /\ Completed <= extracted
      /\ Running = Completed + 1 .. extracted
      /\ \A id \in 1 .. extracted : submitted[id] \in Bundles
  BY EnvironmentTypes DEF FenceInv, Running
<1>2. /\ \A id \in Running : id \in Completed + 1 .. Len(submitted)
      /\ n \in Nat /\ n \in 1 .. extracted /\ r \in Resources
  BY <1>1, RenderJobsAssumption
<1>3. /\ submitted[n] \in Bundles /\ j \in JobsOf(submitted[n])
      /\ r \in Writes(Job(submitted[n], j)) /\ r \in UsesOf(Job(submitted[n], j))
  BY <1>1, <1>2, WriterTypes
<1>4. ASSUME NEW id \in Running, NEW k \in JobsOf(submitted[id]), r \in UsesOf(Job(submitted[id], k))
      PROVE  k[1] = q /\ Uses(id, q) /\ (<<id, k[1]>> \in executed <=> id < n)
  <2>1. Meet(r, Job(submitted[id], k), Job(submitted[n], j))
    BY <1>3, <1>4 DEF Meet
  <2>2. k[1] = j[1]
    BY <2>1, <1>2, <1>3 DEF OneQueue
  <2>3. k[1] \in UsedQueues(submitted[id])
    BY <1>1, JobTypes
  <2> QED BY <2>2, <2>3 DEF Uses
<1>5. CASE IsWrittenBefore(n, r)
  <2>1. PICK jd \in 1 .. n - 1 : \E k \in JobsOf(submitted[jd]) : r \in Writes(Job(submitted[jd], k))
    BY <1>5 DEF IsWrittenBefore
  <2>2. PICK k \in JobsOf(submitted[jd]) : r \in UsesOf(Job(submitted[jd], k))
    BY <2>1 DEF UsesOf
  <2>3. jd \in 1 .. extracted /\ jd < n /\ (jd \in 1 .. Completed \/ jd \in Running)
    BY <1>1, <1>2
  <2>4. <<jd, k[1]>> \in executed
    <3>1. CASE jd \in 1 .. Completed
      <4>1. jd \in completed /\ k[1] \in UsedQueues(submitted[jd])
        BY <2>3, <3>1, <1>1, JobTypes DEF BundlesAreInOrder
      <4> QED BY <4>1, <1>1 DEF CompletedMeansExecuted
    <3>2. CASE jd \in Running
      BY <2>2, <2>3, <3>2, <1>4
    <3> QED BY <2>3, <3>1, <3>2
  <2>5. HasDecayed(r)
    BY <2>2, <2>3, <2>4 DEF HasDecayed
  <2> QED BY <2>5, <1>5 DEF ResourceInv, DecaysAreKnown, Decayed
<1>6. CASE ~IsWrittenBefore(n, r) /\ ~IsUsedBefore(n, r)
  <2>1. ASSUME NEW id \in 1 .. extracted, NEW k \in JobsOf(submitted[id]),
               r \in UsesOf(Job(submitted[id], k)), <<id, k[1]>> \in executed
        PROVE  FALSE
    <3>1. id \notin 1 .. n - 1
      BY <2>1, <1>6 DEF IsUsedBefore
    <3>2. id \in Running /\ ~(id < n)
      BY <3>1, <1>1, <1>2
    <3> QED BY <2>1, <3>2, <1>4
  <2>2. ~HasDecayed(r)
    BY <2>1 DEF HasDecayed
  <2> QED BY <2>2, <1>6 DEF ResourceInv, DecaysAreKnown, Decayed
<1>7. CASE ~IsWrittenBefore(n, r) /\ IsUsedBefore(n, r)
  <2>1. CASE InitialState[r] = COMMON
    BY <2>1 DEF ResourceInv, DecaysAreKnown, Decayed
  <2>2. CASE InitialState[r] # COMMON
    BY <2>2, <1>7 DEF DecayIsForgotten
  <2> QED BY <2>1, <2>2
<1> QED BY <1>5, <1>6, <1>7

LEMMA TransitionsMatchFromInv ==
    ASSUME FenceInv, RecordingsAreRight, OneQueue, ResourceInv
    PROVE  TransitionsMatchTheGPU
<1>1. ASSUME NEW q \in Queues, gpuQueue[q] # <<>>, Head(gpuQueue[q]).kind = "lists"
      PROVE  /\ \A i \in DOMAIN Head(gpuQueue[q]).lists :
                    <<q, Head(gpuQueue[q]).lists[i]>> \in DOMAIN commands
             /\ \A list \in Contents(q, Head(gpuQueue[q])) : ListIsValid(Head(gpuQueue[q]).id, list)
  <2>1. PICK entry, n : entry = Head(gpuQueue[q]) /\ n = entry.id
    OBVIOUS
  <2>2. /\ n \in Running /\ submitted[n] \in Bundles /\ Uses(n, q)
        /\ \A id \in Running : Uses(id, q) => (<<id, q>> \in executed <=> id < n)
        /\ DOMAIN entry.lists = 1 .. Len(submitted[n][q])
        /\ \A i \in DOMAIN entry.lists :
              /\ <<q, i>> \in JobsOf(submitted[n])
              /\ <<q, entry.lists[i]>> \in DOMAIN commands
              /\ commands[<<q, entry.lists[i]>>] =
                    Record(Job(submitted[n], <<q, i>>), Envs[n].remembered)
    BY <2>1, <1>1, HeadContents
  <2>3. /\ Running \subseteq Nat
        /\ \A id \in Running : submitted[id] \in Bundles /\ id \in Completed + 1 .. Len(submitted)
    <3>1. Types
      BY DEF FenceInv
    <3>2. /\ extracted \in Nat /\ Len(submitted) \in Nat /\ Completed \in Nat
          /\ extracted <= Len(submitted) /\ Running = Completed + 1 .. extracted
      BY <3>1, EnvironmentTypes DEF Running
    <3>3. \A id \in Running : id \in Completed + 1 .. Len(submitted)
      BY <3>2
    <3> QED BY <3>1, <3>3, EnvironmentTypes
  <2>4. ASSUME NEW j \in JobsOf(submitted[n]), j[1] = q, NEW r \in Writes(Job(submitted[n], j))
        PROVE  Envs[n].remembered[r] = gpuState[r] \/ DecayIsForgotten(n, r)
    <3>1. /\ j \in Writers(submitted[n], r) /\ r \in Resources
          /\ r \in UsesOf(Job(submitted[n], j))
      <4>1. j \in Writers(submitted[n], r)
        BY <2>4 DEF Writers
      <4> QED BY <4>1, <2>2, WriterTypes
    <3>2. CASE r \in Decays
      BY <3>1, <3>2, <2>1, <2>2, <2>4, <1>1, DecayIsKnown
    <3>3. CASE r \notin Decays
      <4>1. ASSUME NEW jd \in WrittenIn(r), NEW k \in Writers(submitted[jd], r)
            PROVE  jd \in Running /\ k[1] = q /\ Uses(jd, q)
        <5>1. jd \in Running
          BY DEF WrittenIn
        <5>2. /\ k \in JobsOf(submitted[jd]) /\ r \in UsesOf(Job(submitted[jd], k))
              /\ k[1] \in UsedQueues(submitted[jd])
          BY <5>1, <2>3, <4>1, WriterTypes
        <5>3. /\ jd \in Completed + 1 .. Len(submitted) /\ n \in Completed + 1 .. Len(submitted)
              /\ r \in Resources \ Decays
          BY <5>1, <2>2, <2>3, <3>1, <3>3
        <5>4. k[1] = j[1]
          BY <5>2, <5>3, <2>4, <3>1 DEF OneQueue, Meet
        <5> QED BY <5>1, <5>2, <5>4, <2>4 DEF Uses
      <4>2. n \in WrittenIn(r) /\ n \in InTurn(r)
        BY <3>1, <2>2 DEF WrittenIn, InTurn
      <4>3. ASSUME NEW jd \in WrittenIn(r), jd < n PROVE IsWritten(jd, r)
        BY <4>1, <4>3, <2>2 DEF IsWritten
      <4>4. IsUnwritten(n, r)
        <5>1. n \in Nat
          BY <2>2, <2>3
        <5>2. ~(n < n)
          BY <5>1
        <5>3. <<n, q>> \notin executed
          BY <5>1, <5>2, <2>2
        <5> QED BY <5>3, <4>1, <4>2 DEF IsUnwritten
      <4>5. GPUIsBetween(n, r)
        BY <4>3, <4>4 DEF GPUIsBetween
      <4>6. Before(n, r) = gpuState[r]
        BY <4>2, <4>5, <3>1, <3>3 DEF ResourceInv, GPUFollows
      <4> QED BY <4>6, <2>2 DEF Before
    <3> QED BY <3>2, <3>3
  <2>5. ASSUME NEW list \in Contents(q, entry) PROVE ListIsValid(n, list)
    <3>1. PICK i \in DOMAIN entry.lists : list = commands[<<q, entry.lists[i]>>]
      BY DEF Contents
    <3>2. PICK j : j = <<q, i>>
      OBVIOUS
    <3>3. /\ j \in JobsOf(submitted[n]) /\ j[1] = q
          /\ list = Record(Job(submitted[n], j), Envs[n].remembered)
      BY <3>1, <3>2, <2>2
    <3>4. PICK job, memory : job = Job(submitted[n], j) /\ memory = Envs[n].remembered
      OBVIOUS
    <3>5. /\ job \in JobSet /\ list = Record(job, memory)
          /\ \A r \in Writes(job) : memory[r] = gpuState[r] \/ DecayIsForgotten(n, r)
      BY <3>3, <3>4, <2>2, <2>4, JobTypes
    <3> QED BY <3>5, RecordedIsValid
  <2> QED BY <2>1, <2>2, <2>5
<1> QED BY <1>1 DEF TransitionsMatchTheGPU

\* The GPU finds every resource in the state in which the commands of a list start,
\* although their before states were fixed when the bundle was extracted and the
\* lists were recorded in any order (ResourceTransitionRequestManager.cpp:76),
\* whatever state a resource was created in and whether it decays or not; but for
\* the first transition of one whose decay the engine did not notice.
THEOREM TransitionsMatchTheGPUTheorem == Spec => []TransitionsMatchTheGPU
<1> DEFINE Inv == FenceInv /\ RecordingsAreRight /\ OneQueue /\ ResourceInv
<1>1. Init => Inv
  BY FenceInvStart, StateInvStart
<1>2. Inv /\ [Next]_vars => Inv'
  <2>1. Inv /\ [Next]_vars => FenceInv'
    BY FenceInvStep
  <2> QED BY <2>1, RecordingsStep, StateInvStep
<1>3. Inv => TransitionsMatchTheGPU
  BY TransitionsMatchFromInv
<1> QED
  <2> HIDE DEF Inv
  <2> QED BY <1>1, <1>2, <1>3, PTL DEF Spec

-----------------------------------------------------------------------------
(* The pipeline cache. *)

\* The PSOs of a program that has not compiled any.
NoPSOs == [p \in PSOs |-> None]

BeforeComponents ==
    phase \in {"off", "device"} =>
        /\ jobs \subseteq {"bindless SRVs"} /\ initialized \subseteq {"bindless SRVs"}
        /\ mPSOMap = NoPSOs /\ mPipelineLibrary = NoLibrary
DuringComponents ==
    phase = "components" =>
        /\ jobs \subseteq Components \cup {"bindless SRVs"} /\ Components \subseteq jobs \cup initialized
        /\ mPSOMap = NoPSOs
AfterComponents ==
    phase \in {"PSOs", "bindless SRVs", "running"} =>
        /\ jobs \subseteq PSOs \cup {"bindless SRVs"} /\ Components \subseteq initialized

CacheInv ==
    /\ phase \in {"off", "device", "components", "PSOs", "bindless SRVs", "running"}
    /\ mPSOMap = [p \in PSOs |-> mPSOMap[p]]
    /\ BeforeComponents /\ DuringComponents /\ AfterComponents
    /\ phase \notin {"off", "device"} => driver \in Capable
    /\ mPipelineLibrary # NoLibrary => mPipelineLibrary.driver = driver
    /\ PSOsAreCurrent

\* A computer on which no program has run.
LEMMA CacheInitially == CacheInit => CacheInv
  BY DEF CacheInit, CacheInv, BeforeComponents, DuringComponents, AfterComponents, PSOsAreCurrent,
         NoPSOs

\* A program that ends leaves nothing but the file.
LEMMA NothingRuns == NotRunning => CacheInv'
  BY DEF NotRunning, CacheInv, BeforeComponents, DuringComponents, AfterComponents,
         PSOsAreCurrent, NoPSOs

\* Every step of a program, and what happens between two programs.
LEMMA CacheStep ==
    ASSUME CacheInv, [CacheNext]_cacheVars
    PROVE  CacheInv'
<1> USE DEF CacheInv, BeforeComponents, DuringComponents, AfterComponents, PSOsAreCurrent, NoPSOs,
            cacheFileVars, Joined
<1>1. CASE Start
  BY <1>1 DEF Start
<1>2. CASE InitializeDevice
  BY <1>2 DEF InitializeDevice, IsSupported
<1>3. CASE \E c \in Components \cup {"bindless SRVs"} : InitializeComponent(c)
  BY <1>3 DEF InitializeComponent
<1>4. CASE MapLibrary
  BY <1>4, PipelineCacheAssumption DEF MapLibrary, CreatePipelineLibrary, Components
<1>5. CASE LoadPSOs
  BY <1>5 DEF LoadPSOs
<1>6. ASSUME NEW p \in PSOs, CompilePSO(p) PROVE CacheInv'
  BY <1>6, PipelineCacheAssumption DEF CompilePSO, CanLoadPipeline, Components
<1>7. CASE SerializePSOLibraryAsync
  BY <1>7 DEF SerializePSOLibraryAsync
<1>8. CASE EndInitialize
  BY <1>8 DEF EndInitialize
<1>9. CASE SerializePSOLibrary
  <2>1. ASSUME NEW a, NEW b, Serializing(a, b) PROVE CacheInv'
    BY <2>1 DEF Serializing
  <2>2. CASE ResizingFails
    BY <2>2, NothingRuns DEF ResizingFails
  <2>3. QED
    BY <1>9, <2>1, <2>2 DEF SerializePSOLibrary, OpenStream, ResizeFile, BeginWriting, EndWriting
<1>10. CASE Change
  BY <1>10 DEF Change, programVars
<1>11. CASE NoDevice \/ MappingFails \/ Exit \/ Kill
  BY <1>11, NothingRuns DEF NoDevice, MappingFails, Exit, Kill
<1>12. CASE UNCHANGED cacheVars
  BY <1>12 DEF cacheVars, programVars
<1>13. QED
  BY <1>1, <1>2, <1>3, <1>4, <1>5, <1>6, <1>7, <1>8, <1>9, <1>10, <1>11, <1>12
     DEF CacheNext, Initialize

\* Every PSO a program has compiled or taken from the library is that of its own
\* definition and of its own device's driver, and was made when its root signature
\* was there, whatever file earlier programs left (PSODatabase::CompilePSO,
\* PSOLibrary::Initialize).
THEOREM PSOsAreCurrentTheorem == CacheSpec => []PSOsAreCurrent
<1>1. CacheInv => PSOsAreCurrent
  BY DEF CacheInv
<1>2. QED
  BY CacheInitially, CacheStep, <1>1, PTL DEF CacheSpec
=============================================================================
