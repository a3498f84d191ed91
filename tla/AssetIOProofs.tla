---------------------------- MODULE AssetIOProofs ----------------------------
(***************************************************************************)
(* Proofs about assets: the loading of their files (AssetIO), the update   *)
(* of the asset dependencies and the streaming of audio (AudioStreaming).  *)
(*                                                                         *)
(* Loading.  Whichever handler the AssetManager has, there is always       *)
(* exactly one of: the delayed job that starts the loading, that job, and  *)
(* the jobs it started (OneLoader).                                        *)
(* A loading job is live until it has decremented remainingThreadsCounter. *)
(* Live loading jobs have different numbers, and the counter is the number *)
(* of them; so the job that takes it to 0, and delays the job that starts  *)
(* the loading, is the last one, and the jobs that are started next find   *)
(* none of the former.  What else a step does with jobs, delayed jobs and  *)
(* stacks changes neither the live loading jobs nor the jobs that start    *)
(* them, whatever the requests are.                                        *)
(*                                                                         *)
(* What is loaded.  An event is complete only when the data is in memory,  *)
(* and nothing refers to an object that is gone                            *)
(* (DependencyOutlivesItsLoading).  A dependency is prepared once.  With   *)
(* the Win32 handler each request its counter has not been decremented for *)
(* is yet to be pushed, in one place of one queue, or with one loading     *)
(* job; the counter is the number of these.  With DirectStorage each       *)
(* priority of a dependency is yet to be enqueued, or waits in one         *)
(* notification, or has been counted, the counter is the number of the     *)
(* last, and a request is decompressed by one job at most.                 *)
(*                                                                         *)
(* Streaming.  The buffers queued in XAudio2 keep their blocks             *)
(* (QueuedBuffersAreIntact).  The ring is seen as the positions played and *)
(* loaded since the program began.  They are never further apart than the  *)
(* buffers the voice wants, because it only asks for what it lacks when    *)
(* everything it asked for before has been loaded; and that is so because  *)
(* the asset is updated in every update of the dependencies, and its loads *)
(* are critical.  That every update reaches the asset is an argument about *)
(* the tree of groups: if every active group has been checked, no check is *)
(* under way, or one of least rank would be begun by one of less.          *)
(*                                                                         *)
(* Updates.  No two jobs of an update update one asset, and a critical     *)
(* request is over when the update is (two parts of UpdateIsComplete).     *)
(***************************************************************************)
EXTENDS AssetIO, AudioStreaming, SequenceTheorems, FiniteSetTheorems,
        WellFoundedInduction, TLAPS

Jobs == {BeginLoading} \cup [kind : {"prepare"}, dependency : Dependencies]
        \cup [kind : {"load"}, number : 1 .. LOADING_THREADS]
        \cup [kind : {"load"}, number : 1 .. LOADING_THREADS, waiter : Threads, depth : Nat]
        \cup [kind : {"notification"}, dependency : Dependencies, priority : Priorities]

\* A sequence, of anything.
IsSequence(s) == s \in Seq({s[i] : i \in DOMAIN s})

\* The jobs there are.
IsFrame(f) == f = [job |-> f.job, pc |-> f.pc, at |-> f.at, left |-> f.left] /\ f.job \in Jobs
StackTypes ==
    /\ stack = [t \in Threads |-> stack[t]]
    /\ \A t \in Threads :
          IsSequence(stack[t]) /\ \A i \in DOMAIN stack[t] : IsFrame(stack[t][i])
DelayTypes ==
    /\ mSubmissionInfoArr = [t \in Threads |-> mSubmissionInfoArr[t]]
    /\ \A t \in Threads :
          /\ IsSequence(mSubmissionInfoArr[t])
          /\ \A i \in DOMAIN mSubmissionInfoArr[t] :
                mSubmissionInfoArr[t][i].job \in {j \in Jobs : j.kind # "load"}
Types == mJobQueue \subseteq Jobs /\ StackTypes /\ DelayTypes

\* The job that starts the loading: delayed, or being executed.
Delayed == {x \in Threads \X Nat :
               /\ x[2] \in DOMAIN mSubmissionInfoArr[x[1]]
               /\ mSubmissionInfoArr[x[1]][x[2]].job = BeginLoading}
Begins(f) == f.job = BeginLoading /\ f.pc # "wait"
Beginning == {x \in Threads \X Nat : x[2] \in DOMAIN stack[x[1]] /\ Begins(stack[x[1]][x[2]])}
IsQueued  == BeginLoading \in mJobQueue
NoneBegins == Delayed = {} /\ Beginning = {} /\ ~ IsQueued

OneBegins ==
    /\ \A x, y \in Delayed : x = y
    /\ \A x, y \in Beginning : x = y
    /\ Delayed # {} => Beginning = {} /\ ~ IsQueued
    /\ Beginning # {} => ~ IsQueued

\* Live loading jobs.
QueuedLoads == {j \in mJobQueue : j.kind = "load"}
Loads(f) == f.job.kind = "load" /\ f.pc # "leave"
LoadFrames == {x \in Threads \X Nat : x[2] \in DOMAIN stack[x[1]] /\ Loads(stack[x[1]][x[2]])}
NumberOf(x) == stack[x[1]][x[2]].job.number
LiveNumbers == {j.number : j \in QueuedLoads} \cup {NumberOf(x) : x \in LoadFrames}

LoadsDiffer ==
    /\ \A j, k \in QueuedLoads : j.number = k.number => j = k
    /\ \A x, y \in LoadFrames : NumberOf(x) = NumberOf(y) => x = y
    /\ \A j \in QueuedLoads, x \in LoadFrames : j.number # NumberOf(x)

LoadersAreCounted ==
    /\ remainingThreadsCounter = Cardinality(LiveNumbers)
    /\ remainingThreadsCounter = 0 <=> ~ NoneBegins

LoaderInv == Types /\ OneBegins /\ LoadsDiffer /\ LoadersAreCounted

-----------------------------------------------------------------------------
(* Sequences of anything. *)

LEMMA SequenceLength ==
    ASSUME NEW s, IsSequence(s)
    PROVE  Len(s) \in Nat /\ DOMAIN s = 1 .. Len(s) /\ (s # <<>> => Len(s) \in DOMAIN s)
<1>1. PICK S : s \in Seq(S)
  BY DEF IsSequence
<1>2. Len(s) \in Nat /\ DOMAIN s = 1 .. Len(s)
  BY <1>1, LenProperties
<1>3. s # <<>> => Len(s) \in Nat \ {0}
  BY <1>1, EmptySeq
<1>4. QED
  BY <1>2, <1>3

LEMMA EmptySequence == IsSequence(<<>>) /\ DOMAIN <<>> = {}
  BY EmptySeq DEF IsSequence

LEMMA OneElement ==
    ASSUME NEW e
    PROVE  IsSequence(<<e>>) /\ DOMAIN <<e>> = {1} /\ <<e>>[1] = e
  BY DEF IsSequence

LEMMA SequenceOf ==
    ASSUME NEW s, NEW S, s \in Seq(S)
    PROVE  IsSequence(s)
<1>1. Len(s) \in Nat /\ s \in [1 .. Len(s) -> S] /\ DOMAIN s = 1 .. Len(s)
  BY LenProperties
<1>2. s \in [1 .. Len(s) -> {s[i] : i \in DOMAIN s}]
  BY <1>1
<1>3. QED
  BY <1>1, <1>2, SeqDef DEF IsSequence

LEMMA Appended ==
    ASSUME NEW s, IsSequence(s), NEW e
    PROVE  /\ IsSequence(Append(s, e))
           /\ DOMAIN Append(s, e) = DOMAIN s \cup {Len(s) + 1} /\ Len(s) + 1 \notin DOMAIN s
           /\ \A i \in DOMAIN s : Append(s, e)[i] = s[i]
           /\ Append(s, e)[Len(s) + 1] = e
<1> DEFINE S == {s[i] : i \in DOMAIN s} \cup {e}
<1>1. s \in Seq(S)
  BY SeqMonotonic DEF IsSequence
<1>2. e \in S
  OBVIOUS
<1> HIDE DEF S
<1>3. /\ Append(s, e) \in Seq(S) /\ Len(Append(s, e)) = Len(s) + 1
      /\ \A i \in 1 .. Len(s) : Append(s, e)[i] = s[i]
      /\ Append(s, e)[Len(s) + 1] = e
  BY <1>1, <1>2, AppendProperties
<1>4. Len(s) \in Nat /\ DOMAIN s = 1 .. Len(s)
  BY <1>1, LenProperties
<1>5. DOMAIN Append(s, e) = 1 .. Len(s) + 1
  BY <1>3, LenProperties
<1>6. IsSequence(Append(s, e))
  BY <1>3, SequenceOf
<1>7. QED
  BY <1>3, <1>4, <1>5, <1>6

LEMMA Shortened ==
    ASSUME NEW s, IsSequence(s), s # <<>>
    PROVE  LET r == SubSeq(s, 1, Len(s) - 1) IN
           /\ IsSequence(r) /\ DOMAIN r = DOMAIN s \ {Len(s)}
           /\ \A i \in DOMAIN r : r[i] = s[i]
<1> DEFINE r == SubSeq(s, 1, Len(s) - 1)
           S == {s[i] : i \in DOMAIN s}
<1>1. Len(s) \in Nat /\ DOMAIN s = 1 .. Len(s) /\ Len(s) \in 1 .. Len(s)
  BY SequenceLength
<1>2. PICK n : n = Len(s) - 1 /\ n \in Nat
  BY <1>1
<1>3. \A i \in 1 .. n : s[i] \in S
  BY <1>1, <1>2
<1> HIDE DEF S
<1>4. /\ r \in Seq(S) /\ Len(r) = n
      /\ \A i \in 1 .. n : r[i] = s[i]
  <2>1. 1 \in Int /\ n \in Int
    BY <1>2
  <2>2. /\ SubSeq(s, 1, n) \in Seq(S)
        /\ Len(SubSeq(s, 1, n)) = IF 1 <= n THEN n - 1 + 1 ELSE 0
        /\ \A i \in 1 .. n - 1 + 1 : SubSeq(s, 1, n)[i] = s[1 + i - 1]
    BY <1>3, <2>1, SubSeqProperties
  <2>3. QED
    BY <1>2, <2>2
<1>5. DOMAIN r = 1 .. n
  BY <1>4, LenProperties
<1>6. IsSequence(r)
  BY <1>4, SequenceOf
<1>7. QED
  BY <1>1, <1>2, <1>4, <1>5, <1>6

LEMMA Removed ==
    ASSUME NEW s, IsSequence(s), NEW k \in DOMAIN s
    PROVE  LET r == SubSeq(s, 1, k - 1) \o SubSeq(s, k + 1, Len(s)) IN
           /\ IsSequence(r) /\ Len(r) = Len(s) - 1 /\ DOMAIN r = 1 .. Len(s) - 1
           /\ \A i \in DOMAIN r : r[i] = IF i < k THEN s[i] ELSE s[i + 1]
<1> DEFINE S == {s[i] : i \in DOMAIN s}
<1>1. Len(s) \in Nat /\ DOMAIN s = 1 .. Len(s) /\ k \in 1 .. Len(s)
  BY SequenceLength
<1>2. PICK a, b : a = SubSeq(s, 1, k - 1) /\ b = SubSeq(s, k + 1, Len(s))
  OBVIOUS
<1>3. \A i \in 1 .. Len(s) : s[i] \in S
  BY <1>1
<1> HIDE DEF S
<1>4. /\ a \in Seq(S) /\ Len(a) = k - 1
      /\ \A i \in 1 .. k - 1 : a[i] = s[i]
  <2>1. PICK n : n = k - 1 /\ n \in Nat
    BY <1>1
  <2>2. 1 \in Int /\ n \in Int /\ \A i \in 1 .. n : s[i] \in S
    BY <1>1, <1>3, <2>1
  <2>3. /\ SubSeq(s, 1, n) \in Seq(S)
        /\ Len(SubSeq(s, 1, n)) = IF 1 <= n THEN n - 1 + 1 ELSE 0
        /\ \A i \in 1 .. n - 1 + 1 : SubSeq(s, 1, n)[i] = s[1 + i - 1]
    BY <2>2, SubSeqProperties
  <2>4. QED
    BY <1>2, <2>1, <2>3
<1>5. /\ b \in Seq(S) /\ Len(b) = Len(s) - k
      /\ \A i \in 1 .. Len(s) - k : b[i] = s[k + i]
  <2>1. PICK m, n : m = k + 1 /\ n = Len(s) /\ m \in Nat /\ n \in Nat
    BY <1>1
  <2>2. m \in Int /\ n \in Int /\ \A i \in m .. n : s[i] \in S
    BY <1>1, <1>3, <2>1
  <2>3. /\ SubSeq(s, m, n) \in Seq(S)
        /\ Len(SubSeq(s, m, n)) = IF m <= n THEN n - m + 1 ELSE 0
        /\ \A i \in 1 .. n - m + 1 : SubSeq(s, m, n)[i] = s[m + i - 1]
    BY <2>2, SubSeqProperties
  <2>4. /\ Len(s) - k = n - m + 1
        /\ \A i \in 1 .. Len(s) - k : m + i - 1 = k + i
    BY <1>1, <2>1
  <2>5. b = SubSeq(s, m, n)
    BY <1>2, <2>1
  <2>6. b \in Seq(S) /\ Len(b) = Len(s) - k
    BY <1>1, <2>1, <2>3, <2>5
  <2>7. ASSUME NEW i \in 1 .. Len(s) - k
        PROVE  b[i] = s[k + i]
    <3>1. i \in 1 .. n - m + 1 /\ m + i - 1 = k + i
      BY <2>4
    <3>2. b[i] = s[m + i - 1]
      BY <2>3, <2>5, <3>1
    <3>3. QED
      BY <3>1, <3>2
  <2>8. QED
    BY <2>6, <2>7
<1>6. PICK r : r = a \o b
  OBVIOUS
<1>7. /\ r \in Seq(S) /\ Len(r) = Len(a) + Len(b)
      /\ \A i \in 1 .. Len(a) + Len(b) : r[i] = IF i <= Len(a) THEN a[i] ELSE b[i - Len(a)]
  BY <1>4, <1>5, <1>6, ConcatProperties
<1>8. Len(r) = Len(s) - 1 /\ DOMAIN r = 1 .. Len(s) - 1 /\ IsSequence(r)
  BY <1>1, <1>4, <1>5, <1>7, LenProperties, SequenceOf
<1>9. ASSUME NEW i \in 1 .. Len(s) - 1
      PROVE  r[i] = IF i < k THEN s[i] ELSE s[i + 1]
  <2>1. i \in 1 .. Len(a) + Len(b)
    BY <1>1, <1>4, <1>5
  <2>2. CASE i < k
    BY <1>1, <1>4, <1>7, <2>1, <2>2
  <2>3. CASE ~ (i < k)
    <3>1. i - Len(a) \in 1 .. Len(s) - k /\ k + (i - Len(a)) = i + 1 /\ ~ (i <= Len(a))
      BY <1>1, <1>4, <2>3
    <3>2. r[i] = b[i - Len(a)]
      BY <1>7, <2>1, <3>1
    <3>3. QED
      BY <1>5, <2>3, <3>1, <3>2
  <2>4. QED
    BY <2>2, <2>3
<1>10. QED
  BY <1>2, <1>6, <1>8, <1>9

-----------------------------------------------------------------------------
(* What the operations on stacks do to the jobs on them. *)

Place(t) == <<t, Len(stack[t])>>
NumbersKept == \A x \in LoadFrames' : NumberOf(x)' = NumberOf(x)
StackKept == /\ StackTypes' /\ Beginning' = Beginning
             /\ LoadFrames' = LoadFrames /\ NumbersKept

LEMMA TopTypes ==
    ASSUME StackTypes, NEW t \in Threads, stack[t] # <<>>
    PROVE  /\ Len(stack[t]) \in DOMAIN stack[t] /\ Len(stack[t]) \in Nat
           /\ DOMAIN stack[t] = 1 .. Len(stack[t])
           /\ IsSequence(stack[t]) /\ IsFrame(Top(t)) /\ Top(t) = stack[t][Len(stack[t])]
           /\ Place(t) \in Threads \X Nat
           /\ Place(t) \in Beginning <=> Begins(Top(t))
           /\ Place(t) \in LoadFrames <=> Loads(Top(t))
           /\ NumberOf(Place(t)) = Top(t).job.number
<1>1. IsSequence(stack[t]) /\ \A i \in DOMAIN stack[t] : IsFrame(stack[t][i])
  BY DEF StackTypes
<1>2. /\ Len(stack[t]) \in DOMAIN stack[t] /\ Len(stack[t]) \in Nat
      /\ DOMAIN stack[t] = 1 .. Len(stack[t])
  BY <1>1, SequenceLength
<1>3. Place(t)[1] = t /\ Place(t)[2] = Len(stack[t]) /\ Place(t) \in Threads \X Nat
  BY <1>2 DEF Place
<1>4. QED
  BY <1>1, <1>2, <1>3 DEF Top, Beginning, LoadFrames, NumberOf

\* The frame on top of a stack changes, and goes on with the same job.
LEMMA TopReplaced ==
    ASSUME StackTypes, NEW t \in Threads, stack[t] # <<>>,
           NEW g, IsFrame(g), g.job = Top(t).job,
           stack' = [stack EXCEPT ![t] = [stack[t] EXCEPT ![Len(stack[t])] = g]]
    PROVE  /\ StackTypes' /\ NumbersKept
           /\ Beginning' = IF Begins(g) THEN Beginning \cup {Place(t)} ELSE Beginning \ {Place(t)}
           /\ LoadFrames' = IF Loads(g) THEN LoadFrames \cup {Place(t)} ELSE LoadFrames \ {Place(t)}
<1> DEFINE k == Len(stack[t])
<1>1. /\ k \in DOMAIN stack[t] /\ k \in Nat /\ IsSequence(stack[t]) /\ DOMAIN stack[t] = 1 .. k
      /\ Top(t) = stack[t][k]
  BY TopTypes
<1>2. /\ \A u \in Threads : stack'[u] = IF u = t THEN [stack[t] EXCEPT ![k] = g] ELSE stack[u]
      /\ stack' = [u \in Threads |-> stack'[u]]
  BY DEF StackTypes
<1>3. /\ \A u \in Threads : DOMAIN stack'[u] = DOMAIN stack[u]
      /\ \A u \in Threads : \A i \in DOMAIN stack[u] :
            stack'[u][i] = IF u = t /\ i = k THEN g ELSE stack[u][i]
  BY <1>1, <1>2
<1>4. ASSUME NEW u \in Threads
      PROVE  IsSequence(stack'[u])
  <2>1. CASE u # t
    BY <1>2, <2>1 DEF StackTypes
  <2>2. CASE u = t
    <3>1. PICK S : S = {stack[t][i] : i \in DOMAIN stack[t]} \cup {g}
      OBVIOUS
    <3>2. stack[t] \in Seq(S) /\ g \in S /\ k \in 1 .. Len(stack[t])
      BY <1>1, <3>1, SeqMonotonic DEF IsSequence
    <3>3. [stack[t] EXCEPT ![k] = g] \in Seq(S)
      BY <3>2, ExceptSeq
    <3>4. QED
      BY <1>2, <2>2, <3>3, SequenceOf
  <2>3. QED
    BY <2>1, <2>2
<1>5. StackTypes'
  BY <1>2, <1>3, <1>4 DEF StackTypes
<1>6. \A u \in Threads : \A i \in DOMAIN stack[u] : stack'[u][i].job = stack[u][i].job
  BY <1>1, <1>3
<1>7. NumbersKept
  BY <1>3, <1>6 DEF NumbersKept, LoadFrames, NumberOf
<1>8. \A x \in Threads \X Nat : x = Place(t) <=> x[1] = t /\ x[2] = k
  BY DEF Place
<1>9. Place(t) \in Threads \X Nat
  BY <1>1 DEF Place
<1> HIDE DEF k
<1>10. ASSUME NEW x \in Threads \X Nat
       PROVE  /\ x \in Beginning' <=> IF x = Place(t) THEN Begins(g) ELSE x \in Beginning
              /\ x \in LoadFrames' <=> IF x = Place(t) THEN Loads(g) ELSE x \in LoadFrames
  BY <1>1, <1>3, <1>8 DEF Beginning, LoadFrames
<1>11. QED
  <2>1. /\ Beginning \subseteq Threads \X Nat /\ Beginning' \subseteq Threads \X Nat
        /\ LoadFrames \subseteq Threads \X Nat /\ LoadFrames' \subseteq Threads \X Nat
    BY DEF Beginning, LoadFrames
  <2>2. Beginning' = IF Begins(g) THEN Beginning \cup {Place(t)} ELSE Beginning \ {Place(t)}
    BY <1>9, <1>10, <2>1
  <2>3. LoadFrames' = IF Loads(g) THEN LoadFrames \cup {Place(t)} ELSE LoadFrames \ {Place(t)}
    BY <1>9, <1>10, <2>1
  <2>4. QED
    BY <1>5, <1>7, <2>2, <2>3

\* The frame on top of a stack goes, and no other changes its job or where it is.
LEMMA TopPopped ==
    ASSUME StackTypes, NEW t \in Threads, stack[t] # <<>>,
           stack' = [u \in Threads |-> stack'[u]],
           \A u \in Threads :
              /\ IsSequence(stack'[u])
              /\ DOMAIN stack'[u] = IF u = t THEN DOMAIN stack[t] \ {Len(stack[t])} ELSE DOMAIN stack[u]
              /\ \A i \in DOMAIN stack'[u] :
                    /\ IsFrame(stack'[u][i])
                    /\ stack'[u][i].job = stack[u][i].job /\ stack'[u][i].pc = stack[u][i].pc
    PROVE  /\ StackTypes' /\ NumbersKept
           /\ Beginning' = Beginning \ {Place(t)} /\ LoadFrames' = LoadFrames \ {Place(t)}
<1>1. StackTypes'
  BY DEF StackTypes
<1>2. \A x \in Threads \X Nat : x = Place(t) <=> x[1] = t /\ x[2] = Len(stack[t])
  BY DEF Place
<1>3. ASSUME NEW x \in Threads \X Nat
      PROVE  /\ x \in Beginning' <=> x \in Beginning /\ x # Place(t)
             /\ x \in LoadFrames' <=> x \in LoadFrames /\ x # Place(t)
  BY <1>2 DEF Beginning, LoadFrames, Begins, Loads
<1>4. NumbersKept
  BY DEF NumbersKept, LoadFrames, NumberOf
<1>5. /\ Beginning \subseteq Threads \X Nat /\ Beginning' \subseteq Threads \X Nat
      /\ LoadFrames \subseteq Threads \X Nat /\ LoadFrames' \subseteq Threads \X Nat
  BY DEF Beginning, LoadFrames
<1>6. QED
  BY <1>1, <1>3, <1>4, <1>5

\* Goto changes the place of the job on top.
LEMMA GotoTop ==
    ASSUME StackTypes, NEW t \in Threads, stack[t] # <<>>, NEW pc, NEW at, Goto(t, pc, at)
    PROVE  \E g : /\ IsFrame(g) /\ g.job = Top(t).job /\ g.pc = pc /\ g.at = at
                  /\ stack' = [stack EXCEPT ![t] = [stack[t] EXCEPT ![Len(stack[t])] = g]]
<1>1. /\ Len(stack[t]) \in DOMAIN stack[t] /\ IsFrame(Top(t)) /\ Top(t) = stack[t][Len(stack[t])]
  BY TopTypes
<1>2. PICK g : g = [job |-> Top(t).job, pc |-> pc, at |-> at, left |-> Top(t).left]
  OBVIOUS
<1>3. IsFrame(g) /\ g.job = Top(t).job /\ g.pc = pc /\ g.at = at
  BY <1>1, <1>2 DEF IsFrame
<1>4. [[Top(t) EXCEPT !.pc = pc] EXCEPT !.at = at] = g
  <2>1. PICK j, p, a, l : j = Top(t).job /\ p = Top(t).pc /\ a = Top(t).at /\ l = Top(t).left
    OBVIOUS
  <2>2. Top(t) = [job |-> j, pc |-> p, at |-> a, left |-> l]
    BY <1>1, <2>1 DEF IsFrame
  <2>3. g = [job |-> j, pc |-> pc, at |-> at, left |-> l]
    BY <1>2, <2>1
  <2>4. PICK h : h = [Top(t) EXCEPT !.pc = pc]
    OBVIOUS
  <2>5. h = [job |-> j, pc |-> pc, at |-> a, left |-> l]
    BY <2>2, <2>4
  <2>6. [h EXCEPT !.at = at] = g
    BY <2>3, <2>5
  <2>7. QED
    BY <2>4, <2>6
<1>5. PICK f, k : f = Top(t) /\ k = Len(stack[t])
  OBVIOUS
<1>6. stack' = [stack EXCEPT ![t] = [stack[t] EXCEPT ![k] = g]]
  <2>1. PICK s1 : s1 = [stack EXCEPT ![t][k].pc = pc]
    OBVIOUS
  <2>2. s1 = [stack EXCEPT ![t] = [stack[t] EXCEPT ![k] = [f EXCEPT !.pc = pc]]]
    BY <1>1, <1>5, <2>1
  <2>3. stack' = [s1 EXCEPT ![t][k].at = at]
    BY <1>5, <2>1 DEF Goto
  <2>4. s1[t] = [stack[t] EXCEPT ![k] = [f EXCEPT !.pc = pc]] /\ DOMAIN s1 = Threads
    BY <2>2 DEF StackTypes
  <2>5. s1[t][k] = [f EXCEPT !.pc = pc]
    BY <1>1, <1>5, <2>4
  <2>6. stack' = [s1 EXCEPT ![t] = [s1[t] EXCEPT ![k] = g]]
    BY <1>4, <1>5, <2>3, <2>5
  <2>7. [s1[t] EXCEPT ![k] = g] = [stack[t] EXCEPT ![k] = g]
    BY <2>4
  <2>8. QED
    BY <2>2, <2>6, <2>7 DEF StackTypes
<1>7. QED
  BY <1>3, <1>5, <1>6

LEMMA GotoReplaces ==
    ASSUME StackTypes, NEW t \in Threads, stack[t] # <<>>, NEW pc, NEW at, Goto(t, pc, at)
    PROVE  /\ StackTypes' /\ NumbersKept
           /\ Beginning' = IF Top(t).job = BeginLoading /\ pc # "wait"
                           THEN Beginning \cup {Place(t)} ELSE Beginning \ {Place(t)}
           /\ LoadFrames' = IF Top(t).job.kind = "load" /\ pc # "leave"
                            THEN LoadFrames \cup {Place(t)} ELSE LoadFrames \ {Place(t)}
<1>1. QED
  BY GotoTop, TopReplaced DEF Begins, Loads

\* A job goes on.
LEMMA GotoKeeps ==
    ASSUME StackTypes, NEW t \in Threads, stack[t] # <<>>, NEW pc, NEW at, Goto(t, pc, at),
           Top(t).pc # "wait", pc # "wait", Top(t).pc # "leave", pc # "leave"
    PROVE  StackKept
<1>1. /\ Place(t) \in Beginning <=> Top(t).job = BeginLoading
      /\ Place(t) \in LoadFrames <=> Top(t).job.kind = "load"
  BY TopTypes DEF Begins, Loads
<1>2. QED
  BY <1>1, GotoReplaces DEF StackKept

LEMMA LoopTop ==
    ASSUME StackTypes, NEW t \in Threads, stack[t] # <<>>, Loop(t)
    PROVE  \E g : /\ IsFrame(g) /\ g.job = Top(t).job /\ g.pc = Top(t).pc /\ g.at = Top(t).at + 1
                  /\ stack' = [stack EXCEPT ![t] = [stack[t] EXCEPT ![Len(stack[t])] = g]]
<1>1. /\ Len(stack[t]) \in DOMAIN stack[t] /\ IsFrame(Top(t)) /\ Top(t) = stack[t][Len(stack[t])]
  BY TopTypes
<1>2. PICK g : g = [job |-> Top(t).job, pc |-> Top(t).pc, at |-> Top(t).at + 1, left |-> Top(t).left]
  OBVIOUS
<1>3. IsFrame(g) /\ g.job = Top(t).job /\ g.pc = Top(t).pc /\ g.at = Top(t).at + 1
  BY <1>1, <1>2 DEF IsFrame
<1>4. [Top(t) EXCEPT !.at = Top(t).at + 1] = g
  BY <1>1, <1>2 DEF IsFrame
<1>5. stack' = [stack EXCEPT ![t] = [stack[t] EXCEPT ![Len(stack[t])] = g]]
  BY <1>1, <1>4 DEF Loop, StackTypes
<1>6. QED
  BY <1>3, <1>5

LEMMA LoopKeeps ==
    ASSUME StackTypes, NEW t \in Threads, stack[t] # <<>>, Loop(t)
    PROVE  StackKept
<1>1. /\ Place(t) \in Beginning <=> Begins(Top(t))
      /\ Place(t) \in LoadFrames <=> Loads(Top(t))
  BY TopTypes
<1>2. PICK g : /\ IsFrame(g) /\ g.job = Top(t).job /\ g.pc = Top(t).pc
               /\ stack' = [stack EXCEPT ![t] = [stack[t] EXCEPT ![Len(stack[t])] = g]]
  BY LoopTop
<1>3. QED
  BY <1>1, <1>2, TopReplaced DEF Begins, Loads, StackKept

LEMMA ReturnPopsTop ==
    ASSUME StackTypes, NEW t \in Threads, stack[t] # <<>>, Return(t)
    PROVE  /\ stack' = [u \in Threads |-> stack'[u]]
           /\ \A u \in Threads :
                 /\ IsSequence(stack'[u])
                 /\ DOMAIN stack'[u] = IF u = t THEN DOMAIN stack[t] \ {Len(stack[t])} ELSE DOMAIN stack[u]
                 /\ \A i \in DOMAIN stack'[u] :
                       /\ IsFrame(stack'[u][i]) /\ stack'[u][i].job = stack[u][i].job
                       /\ stack'[u][i].pc = stack[u][i].pc /\ stack'[u][i].at = stack[u][i].at
<1>1. PICK r : r = SubSeq(stack[t], 1, Len(stack[t]) - 1)
  OBVIOUS
<1>2. /\ IsSequence(r) /\ DOMAIN r = DOMAIN stack[t] \ {Len(stack[t])}
      /\ \A i \in DOMAIN r : r[i] = stack[t][i]
  BY <1>1, TopTypes, Shortened
<1>3. /\ \A u \in Threads : stack'[u] = IF u = t THEN r ELSE stack[u]
      /\ stack' = [u \in Threads |-> stack'[u]]
  BY <1>1 DEF Return, StackTypes
<1>4. QED
  BY <1>2, <1>3 DEF StackTypes

LEMMA ReturnPops ==
    ASSUME StackTypes, NEW t \in Threads, stack[t] # <<>>, Return(t)
    PROVE  /\ StackTypes' /\ NumbersKept
           /\ Beginning' = Beginning \ {Place(t)} /\ LoadFrames' = LoadFrames \ {Place(t)}
<1>1. QED
  BY ReturnPopsTop, TopPopped

LEMMA ReturnKeeps ==
    ASSUME StackTypes, NEW t \in Threads, stack[t] # <<>>, Return(t),
           ~ Begins(Top(t)), ~ Loads(Top(t))
    PROVE  StackKept
<1>1. Place(t) \notin Beginning /\ Place(t) \notin LoadFrames
  BY TopTypes
<1>2. /\ StackTypes' /\ NumbersKept
      /\ Beginning' = Beginning \ {Place(t)} /\ LoadFrames' = LoadFrames \ {Place(t)}
  BY ReturnPops
<1>3. QED
  BY <1>1, <1>2 DEF StackKept

LEMMA ReturnToPops ==
    ASSUME StackTypes, NEW t \in Threads, stack[t] # <<>>, NEW w, NEW d, ReturnTo(t, w, d)
    PROVE  /\ stack' = [u \in Threads |-> stack'[u]]
           /\ \A u \in Threads :
                 /\ IsSequence(stack'[u])
                 /\ DOMAIN stack'[u] = IF u = t THEN DOMAIN stack[t] \ {Len(stack[t])} ELSE DOMAIN stack[u]
                 /\ \A i \in DOMAIN stack'[u] :
                       /\ IsFrame(stack'[u][i]) /\ stack'[u][i].job = stack[u][i].job
                       /\ stack'[u][i].pc = stack[u][i].pc /\ stack'[u][i].at = stack[u][i].at
<1>1. PICK r : r = SubSeq(stack[t], 1, Len(stack[t]) - 1)
  OBVIOUS
<1>2. /\ IsSequence(r) /\ DOMAIN r = DOMAIN stack[t] \ {Len(stack[t])}
      /\ \A i \in DOMAIN r : r[i] = stack[t][i]
  BY <1>1, TopTypes, Shortened
<1>3. PICK own : own = [u \in Threads |-> IF u = t THEN r ELSE stack[u]]
  OBVIOUS
<1>4. /\ stack' = [u \in Threads |-> stack'[u]]
      /\ \A u \in Threads :
            stack'[u] = IF u = w THEN [own[u] EXCEPT ![d].left = @ - 1] ELSE own[u]
  BY <1>1, <1>3 DEF ReturnTo
<1>5. ASSUME NEW u \in Threads
      PROVE  /\ IsSequence(own[u])
             /\ DOMAIN own[u] = IF u = t THEN DOMAIN stack[t] \ {Len(stack[t])} ELSE DOMAIN stack[u]
             /\ \A i \in DOMAIN own[u] : own[u][i] = stack[u][i] /\ IsFrame(own[u][i])
  BY <1>2, <1>3 DEF StackTypes
<1>6. ASSUME NEW u \in Threads
      PROVE  /\ IsSequence(stack'[u])
             /\ DOMAIN stack'[u] = DOMAIN own[u]
             /\ \A i \in DOMAIN stack'[u] :
                   /\ IsFrame(stack'[u][i])
                   /\ stack'[u][i].job = own[u][i].job /\ stack'[u][i].pc = own[u][i].pc
                   /\ stack'[u][i].at = own[u][i].at
  <2>1. CASE u # w
    BY <1>4, <1>5, <2>1
  <2>2. CASE u = w
    <3>1. PICK s, e : s = own[u] /\ e = [s[d] EXCEPT !.left = s[d].left - 1]
      OBVIOUS
    <3>2. stack'[u] = [s EXCEPT ![d] = e]
      BY <1>4, <2>2, <3>1
    <3>3. CASE d \in DOMAIN s
      <4>1. IsFrame(s[d])
        BY <1>5, <3>1, <3>3
      <4>2. IsFrame(e) /\ e.job = s[d].job /\ e.pc = s[d].pc /\ e.at = s[d].at
        BY <3>1, <4>1 DEF IsFrame
      <4>3. PICK S : S = {s[i] : i \in DOMAIN s} \cup {e}
        OBVIOUS
      <4>4. s \in Seq(S) /\ e \in S /\ d \in 1 .. Len(s) /\ DOMAIN s = 1 .. Len(s)
        <5>1. IsSequence(s)
          BY <1>5, <3>1
        <5>2. s \in Seq(S)
          BY <4>3, <5>1, SeqMonotonic DEF IsSequence
        <5>3. DOMAIN s = 1 .. Len(s)
          BY <5>1, SequenceLength
        <5>4. QED
          BY <3>3, <4>3, <5>2, <5>3
      <4>5. [s EXCEPT ![d] = e] \in Seq(S)
        BY <4>4, ExceptSeq
      <4>6. IsSequence(stack'[u])
        BY <3>2, <4>5, SequenceOf
      <4>7. \A i \in DOMAIN s : stack'[u][i] = IF i = d THEN e ELSE s[i]
        BY <3>2
      <4>8. DOMAIN stack'[u] = DOMAIN s
        BY <3>2
      <4>9. QED
        BY <1>5, <3>1, <4>2, <4>6, <4>7, <4>8
    <3>4. CASE d \notin DOMAIN s
      <4>1. s = [i \in DOMAIN s |-> s[i]]
        <5>1. PICK S : s \in Seq(S)
          BY <1>5, <3>1 DEF IsSequence
        <5>2. QED
          BY <5>1, LenProperties
      <4>2. stack'[u] = s
        BY <3>2, <3>4, <4>1
      <4>3. QED
        BY <1>5, <3>1, <4>2
    <3>5. QED
      BY <3>3, <3>4
  <2>3. QED
    BY <2>1, <2>2
<1>7. \A u \in Threads :
         /\ IsSequence(stack'[u])
         /\ DOMAIN stack'[u] = IF u = t THEN DOMAIN stack[t] \ {Len(stack[t])} ELSE DOMAIN stack[u]
         /\ \A i \in DOMAIN stack'[u] :
               /\ IsFrame(stack'[u][i])
               /\ stack'[u][i].job = stack[u][i].job /\ stack'[u][i].pc = stack[u][i].pc
               /\ stack'[u][i].at = stack[u][i].at
  <2>1. ASSUME NEW u \in Threads
        PROVE  /\ IsSequence(stack'[u])
               /\ DOMAIN stack'[u] = IF u = t THEN DOMAIN stack[t] \ {Len(stack[t])} ELSE DOMAIN stack[u]
    BY <1>5, <1>6
  <2>2. ASSUME NEW u \in Threads, NEW i \in DOMAIN stack'[u]
        PROVE  /\ IsFrame(stack'[u][i])
               /\ stack'[u][i].job = stack[u][i].job /\ stack'[u][i].pc = stack[u][i].pc
               /\ stack'[u][i].at = stack[u][i].at
    BY <1>5, <1>6, <2>1
  <2>3. QED
    BY <2>1, <2>2
<1>8. QED
  BY <1>4, <1>7

LEMMA ReturnToKeeps ==
    ASSUME StackTypes, NEW t \in Threads, stack[t] # <<>>, NEW w, NEW d, ReturnTo(t, w, d),
           ~ Begins(Top(t)), ~ Loads(Top(t))
    PROVE  StackKept
<1>1. /\ StackTypes' /\ NumbersKept
      /\ Beginning' = Beginning \ {Place(t)} /\ LoadFrames' = LoadFrames \ {Place(t)}
  BY ReturnToPops, TopPopped
<1>2. QED
  BY <1>1, TopTypes DEF StackKept

\* A job is taken from the queue.
LEMMA FramePushed ==
    ASSUME StackTypes, NEW t \in Threads, NEW j \in Jobs,
           stack' = [stack EXCEPT ![t] = Append(stack[t], Frame(j))]
    PROVE  /\ StackTypes'
           /\ \E x : /\ x \in Threads \X Nat
                     /\ x \notin Beginning /\ x \notin LoadFrames
                     /\ NumberOf(x)' = j.number
                     /\ \A y \in LoadFrames : NumberOf(y)' = NumberOf(y)
                     /\ Beginning' = IF j = BeginLoading THEN Beginning \cup {x} ELSE Beginning
                     /\ LoadFrames' = IF j.kind = "load" THEN LoadFrames \cup {x} ELSE LoadFrames
<1>1. PICK s, e, k : s = stack[t] /\ e = Frame(j) /\ k = Len(stack[t]) + 1
  OBVIOUS
<1>2. IsFrame(e) /\ e.job = j /\ e.pc = "start"
  BY <1>1 DEF IsFrame, Frame
<1>3. IsSequence(s) /\ Len(s) \in Nat /\ DOMAIN s = 1 .. Len(s)
  BY <1>1, SequenceLength DEF StackTypes
<1>4. PICK r : r = Append(s, e)
  OBVIOUS
<1>5. /\ IsSequence(r) /\ DOMAIN r = DOMAIN s \cup {k} /\ k \notin DOMAIN s /\ k \in Nat
      /\ \A i \in DOMAIN s : r[i] = s[i]
      /\ r[k] = e
  BY <1>1, <1>3, <1>4, Appended
<1>6. /\ stack' = [u \in Threads |-> stack'[u]]
      /\ \A u \in Threads : stack'[u] = IF u = t THEN r ELSE stack[u]
  BY <1>1, <1>4 DEF StackTypes
<1>7. StackTypes'
  BY <1>1, <1>2, <1>5, <1>6 DEF StackTypes
<1>8. PICK x : x = <<t, k>> /\ x[1] = t /\ x[2] = k /\ x \in Threads \X Nat
  <2>1. PICK x : x = <<t, k>>
    OBVIOUS
  <2>2. QED
    BY <1>5, <2>1
<1>9. \A y \in Threads \X Nat : y = x <=> y[1] = t /\ y[2] = k
  BY <1>8
<1>10. ASSUME NEW y \in Threads \X Nat
       PROVE  /\ y \in Beginning' <=> (y \in Beginning \/ (y = x /\ j = BeginLoading))
              /\ y \in LoadFrames' <=> (y \in LoadFrames \/ (y = x /\ j.kind = "load"))
              /\ y \in LoadFrames => NumberOf(y)' = NumberOf(y)
  BY <1>1, <1>2, <1>5, <1>6, <1>8, <1>9, SMTT(30)
     DEF Beginning, LoadFrames, Begins, Loads, NumberOf
<1>11. x \notin Beginning /\ x \notin LoadFrames /\ NumberOf(x)' = j.number
  BY <1>1, <1>2, <1>5, <1>6, <1>8 DEF Beginning, LoadFrames, NumberOf
<1>12. /\ Beginning \subseteq Threads \X Nat /\ Beginning' \subseteq Threads \X Nat
       /\ LoadFrames \subseteq Threads \X Nat /\ LoadFrames' \subseteq Threads \X Nat
  BY DEF Beginning, LoadFrames
<1>13. /\ Beginning' = IF j = BeginLoading THEN Beginning \cup {x} ELSE Beginning
       /\ LoadFrames' = IF j.kind = "load" THEN LoadFrames \cup {x} ELSE LoadFrames
  BY <1>8, <1>10, <1>12
<1>14. QED
  BY <1>7, <1>8, <1>10, <1>11, <1>12, <1>13

-----------------------------------------------------------------------------
(* Jobs that are delayed. *)

LEMMA DelayAdds ==
    ASSUME DelayTypes, NEW t \in Threads, NEW event, NEW j \in Jobs, j.kind # "load",
           Delay(t, event, j)
    PROVE  /\ DelayTypes'
           /\ \E x : Delayed' = IF j = BeginLoading THEN Delayed \cup {x} ELSE Delayed
<1>1. PICK s, e, k : s = mSubmissionInfoArr[t] /\ e = [event |-> event, job |-> j]
                     /\ k = Len(mSubmissionInfoArr[t]) + 1
  OBVIOUS
<1>2. e.job = j
  BY <1>1
<1>3. IsSequence(s) /\ Len(s) \in Nat /\ DOMAIN s = 1 .. Len(s)
  BY <1>1, SequenceLength DEF DelayTypes
<1>4. PICK r : r = Append(s, e)
  OBVIOUS
<1>5. /\ IsSequence(r) /\ DOMAIN r = DOMAIN s \cup {k} /\ k \notin DOMAIN s /\ k \in Nat
      /\ \A i \in DOMAIN s : r[i] = s[i]
      /\ r[k] = e
  BY <1>1, <1>3, <1>4, Appended
<1>6. /\ mSubmissionInfoArr' = [u \in Threads |-> mSubmissionInfoArr'[u]]
      /\ \A u \in Threads : mSubmissionInfoArr'[u] = IF u = t THEN r ELSE mSubmissionInfoArr[u]
  BY <1>1, <1>4 DEF DelayTypes, Delay
<1>7. DelayTypes'
  BY <1>1, <1>2, <1>5, <1>6 DEF DelayTypes
<1>8. PICK x : x = <<t, k>>
  OBVIOUS
<1>9. x[1] = t /\ x[2] = k /\ x \in Threads \X Nat
  BY <1>5, <1>8
<1>10. \A y \in Threads \X Nat : y = x <=> y[1] = t /\ y[2] = k
  BY <1>8, <1>9
<1>11. ASSUME NEW y \in Threads \X Nat
       PROVE  y \in Delayed' <=> (y \in Delayed \/ (y = x /\ j = BeginLoading))
  BY <1>1, <1>2, <1>5, <1>6, <1>9, <1>10 DEF Delayed
<1>12. Delayed \subseteq Threads \X Nat /\ Delayed' \subseteq Threads \X Nat
  BY DEF Delayed
<1>13. Delayed' = IF j = BeginLoading THEN Delayed \cup {x} ELSE Delayed
  BY <1>9, <1>11, <1>12
<1>14. QED
  BY <1>7, <1>13

LEMMA DelayEnds ==
    ASSUME DelayTypes, \A x, y \in Delayed : x = y,
           NEW t \in Threads, NEW k \in DOMAIN mSubmissionInfoArr[t],
           CheckForDelayedJobSubmission(t, k)
    PROVE  /\ DelayTypes'
           /\ \A x, y \in Delayed' : x = y
           /\ mSubmissionInfoArr[t][k].job = BeginLoading => Delayed # {} /\ Delayed' = {}
           /\ mSubmissionInfoArr[t][k].job # BeginLoading => (Delayed' = {} <=> Delayed = {})
<1>1. PICK s : s = mSubmissionInfoArr[t]
  OBVIOUS
<1>2. PICK r : r = SubSeq(s, 1, k - 1) \o SubSeq(s, k + 1, Len(s))
  OBVIOUS
<1>3. IsSequence(s) /\ Len(s) \in Nat /\ DOMAIN s = 1 .. Len(s) /\ k \in 1 .. Len(s)
  BY <1>1, SequenceLength DEF DelayTypes
<1>4. /\ IsSequence(r) /\ DOMAIN r = 1 .. Len(s) - 1
      /\ \A i \in DOMAIN r : r[i] = IF i < k THEN s[i] ELSE s[i + 1]
  BY <1>2, <1>3, Removed
<1>5. /\ mSubmissionInfoArr' = [u \in Threads |-> mSubmissionInfoArr'[u]]
      /\ \A u \in Threads : mSubmissionInfoArr'[u] = IF u = t THEN r ELSE mSubmissionInfoArr[u]
  BY <1>1, <1>2 DEF DelayTypes, CheckForDelayedJobSubmission
<1>6. \A i \in DOMAIN r : /\ i \in Nat /\ (i < k => i \in DOMAIN s)
                          /\ (~ (i < k) => i + 1 \in DOMAIN s)
  BY <1>3, <1>4
<1>7. DelayTypes'
  <2>1. ASSUME NEW i \in DOMAIN r
        PROVE  r[i].job \in {j \in Jobs : j.kind # "load"}
    BY <1>1, <1>4, <1>6 DEF DelayTypes
  <2>2. QED
    BY <1>4, <1>5, <2>1 DEF DelayTypes
\* Where it was before.
<1> DEFINE Old(i) == IF i < k THEN i ELSE i + 1
<1>8. ASSUME NEW x \in Threads \X Nat, x[1] # t
      PROVE  x \in Delayed' <=> x \in Delayed
  BY <1>5, <1>8 DEF Delayed
<1>9. ASSUME NEW i \in Nat
      PROVE  <<t, i>> \in Delayed' <=> i \in DOMAIN r /\ <<t, Old(i)>> \in Delayed
  <2>1. PICK x, y, o : x = <<t, i>> /\ o = Old(i) /\ y = <<t, Old(i)>>
    OBVIOUS
  <2>2. /\ x \in Threads \X Nat /\ x[1] = t /\ x[2] = i
        /\ y \in Threads \X Nat /\ y[1] = t /\ y[2] = o
    BY <2>1
  <2>3. x \in Delayed' <=> i \in DOMAIN r /\ r[i].job = BeginLoading
    BY <1>5, <2>2 DEF Delayed
  <2>4. y \in Delayed <=> o \in DOMAIN s /\ s[o].job = BeginLoading
    BY <1>1, <2>2 DEF Delayed
  <2>5. i \in DOMAIN r => o \in DOMAIN s /\ r[i] = s[o]
    BY <1>4, <1>6, <2>1
  <2>6. QED
    BY <2>1, <2>3, <2>4, <2>5
<1>10. Delayed \subseteq Threads \X Nat /\ Delayed' \subseteq Threads \X Nat
  BY DEF Delayed
<1>11. <<t, k>> \in Delayed <=> mSubmissionInfoArr[t][k].job = BeginLoading
  <2>1. PICK x : x = <<t, k>>
    OBVIOUS
  <2>2. x \in Threads \X Nat /\ x[1] = t /\ x[2] = k
    BY <1>3, <2>1
  <2>3. QED
    BY <1>1, <1>3, <2>1, <2>2 DEF Delayed
\* Each delayed job that remains was another one before.
<1>12. ASSUME NEW x \in Delayed'
       PROVE  \/ x[1] # t /\ x \in Delayed
              \/ x[1] = t /\ x[2] \in DOMAIN r /\ x[2] \in Nat /\ <<t, Old(x[2])>> \in Delayed
  <2>1. CASE x[1] # t
    BY <1>8, <1>10, <1>12, <2>1
  <2>2. CASE x[1] = t
    <3>1. x = <<t, x[2]>> /\ x[2] \in Nat
      BY <1>10, <1>12, <2>2
    <3>2. QED
      BY <1>9, <1>12, <2>2, <3>1
  <2>3. QED
    BY <2>1, <2>2
<1>13. ASSUME NEW i \in Nat
       PROVE  Old(i) # k /\ \A j \in Nat : Old(i) = Old(j) => i = j
  BY <1>3
<1>14. \A x, y \in Delayed' : x = y
  <2>1. ASSUME NEW x \in Delayed', NEW y \in Delayed'
        PROVE  x = y
    <3>1. CASE x[1] # t /\ y[1] # t
      BY <1>12, <2>1, <3>1
    <3>2. CASE x[1] = t /\ y[1] = t
      <4>1. <<t, Old(x[2])>> = <<t, Old(y[2])>> /\ x[2] \in Nat /\ y[2] \in Nat
        BY <1>12, <2>1, <3>2
      <4>2. x[2] = y[2]
        BY <1>13, <4>1
      <4>3. QED
        BY <1>10, <2>1, <3>2, <4>2
    <3>3. CASE x[1] = t /\ y[1] # t
      <4>1. <<t, Old(x[2])>> = y
        BY <1>12, <2>1, <3>3
      <4>2. <<t, Old(x[2])>>[1] = t
        OBVIOUS
      <4>3. QED
        BY <3>3, <4>1, <4>2
    <3>4. CASE x[1] # t /\ y[1] = t
      <4>1. <<t, Old(y[2])>> = x
        BY <1>12, <2>1, <3>4
      <4>2. <<t, Old(y[2])>>[1] = t
        OBVIOUS
      <4>3. QED
        BY <3>4, <4>1, <4>2
    <3>5. QED
      BY <3>1, <3>2, <3>3, <3>4
  <2>2. QED
    BY <2>1
<1>15. ASSUME mSubmissionInfoArr[t][k].job = BeginLoading
       PROVE  Delayed # {} /\ Delayed' = {}
  <2>1. <<t, k>> \in Delayed
    BY <1>11, <1>15
  <2>2. ASSUME NEW x \in Delayed' PROVE FALSE
    <3>1. CASE x[1] # t
      <4>1. <<t, k>> = x
        BY <1>12, <2>1, <2>2, <3>1
      <4>2. <<t, k>>[1] = t
        OBVIOUS
      <4>3. QED
        BY <3>1, <4>1, <4>2
    <3>2. CASE x[1] = t
      <4>1. <<t, Old(x[2])>> = <<t, k>> /\ x[2] \in Nat
        BY <1>12, <2>1, <2>2, <3>2
      <4>2. QED
        BY <1>13, <4>1
    <3>3. QED
      BY <3>1, <3>2
  <2>3. QED
    BY <2>1, <2>2
<1>16. ASSUME mSubmissionInfoArr[t][k].job # BeginLoading
       PROVE  Delayed' = {} <=> Delayed = {}
  <2>1. Delayed = {} => Delayed' = {}
    BY <1>12
  <2>2. ASSUME NEW x \in Delayed PROVE Delayed' # {}
    <3>1. CASE x[1] # t
      BY <1>8, <1>10, <2>2, <3>1
    <3>2. CASE x[1] = t
      <4>1. PICK o : o = x[2]
        OBVIOUS
      <4>2. x = <<t, o>> /\ o \in Nat /\ o # k /\ o \in DOMAIN s
        BY <1>1, <1>10, <1>11, <1>16, <2>2, <3>2, <4>1 DEF Delayed
      <4>3. CASE o < k
        <5>1. o \in DOMAIN r /\ Old(o) = o
          BY <1>3, <1>4, <4>2, <4>3
        <5>2. QED
          BY <1>9, <2>2, <4>2, <5>1
      <4>4. CASE k < o
        <5>1. PICK i : i = o - 1
          OBVIOUS
        <5>2. i \in Nat /\ i \in DOMAIN r /\ Old(i) = o
          BY <1>3, <1>4, <4>2, <4>4, <5>1
        <5>3. QED
          BY <1>9, <2>2, <4>2, <5>2
      <4>5. QED
        BY <1>3, <4>2, <4>3, <4>4
    <3>3. QED
      BY <3>1, <3>2
  <2>3. QED
    BY <2>1, <2>2
<1>17. QED
  BY <1>7, <1>14, <1>15, <1>16

-----------------------------------------------------------------------------
(* What may happen to the jobs that load and to the job that starts them. *)

LEMMA LiveLoads ==
    ASSUME mJobQueue \subseteq Jobs, StackTypes
    PROVE  /\ LiveNumbers \subseteq 1 .. LOADING_THREADS
           /\ IsFiniteSet(LiveNumbers) /\ Cardinality(LiveNumbers) \in Nat
           /\ Cardinality(LiveNumbers) = 0 <=> QueuedLoads = {} /\ LoadFrames = {}
           /\ IsFiniteSet(1 .. LOADING_THREADS)
           /\ Cardinality(1 .. LOADING_THREADS) = LOADING_THREADS
<1>1. LOADING_THREADS \in Nat \ {0}
  BY AssetRequestsAssumption
<1>2. \A j \in Jobs : j.kind = "load" => j.number \in 1 .. LOADING_THREADS
  BY DEF Jobs, BeginLoading
<1>3. \A x \in LoadFrames : NumberOf(x) \in 1 .. LOADING_THREADS
  BY <1>2 DEF LoadFrames, Loads, NumberOf, StackTypes, IsFrame
<1>4. LiveNumbers \subseteq 1 .. LOADING_THREADS
  BY <1>2, <1>3 DEF LiveNumbers, QueuedLoads
<1>5. IsFiniteSet(1 .. LOADING_THREADS) /\ Cardinality(1 .. LOADING_THREADS) = LOADING_THREADS
  <2>1. PICK n : n = LOADING_THREADS /\ n \in Nat /\ n >= 1
    BY <1>1
  <2>2. 1 \in Int /\ n \in Int
    BY <2>1
  <2>3. IsFiniteSet(1 .. n) /\ Cardinality(1 .. n) = IF 1 > n THEN 0 ELSE n - 1 + 1
    BY <2>2, FS_Interval
  <2>4. QED
    BY <2>1, <2>3
<1>6. IsFiniteSet(LiveNumbers)
  BY <1>4, <1>5, FS_Subset
<1>7. Cardinality(LiveNumbers) = 0 <=> LiveNumbers = {}
  BY <1>6, FS_EmptySet
<1>8. LiveNumbers = {} <=> QueuedLoads = {} /\ LoadFrames = {}
  BY DEF LiveNumbers
<1>9. QED
  BY <1>4, <1>5, <1>6, <1>7, <1>8, FS_CardinalityType

LEMMA NothingChanges ==
    ASSUME LoaderInv, StackKept, DelayTypes', Delayed' = Delayed, mJobQueue' \subseteq Jobs,
           IsQueued' = IsQueued, QueuedLoads' = QueuedLoads, UNCHANGED remainingThreadsCounter
    PROVE  LoaderInv'
<1>1. Types' /\ OneBegins'
  BY DEF LoaderInv, StackKept, Types, OneBegins
<1>2. LoadsDiffer'
  BY DEF LoaderInv, StackKept, NumbersKept, LoadsDiffer
<1>3. {NumberOf(x)' : x \in LoadFrames'} = {NumberOf(x) : x \in LoadFrames}
  BY DEF StackKept, NumbersKept
<1>4. LiveNumbers' = LiveNumbers
  BY <1>3 DEF LiveNumbers
<1>5. LoadersAreCounted'
  BY <1>4 DEF LoaderInv, StackKept, LoadersAreCounted, NoneBegins
<1>6. QED
  BY <1>1, <1>2, <1>5 DEF LoaderInv

\* A job that goes on or ends, and neither starts the loading nor leaves it.
LEMMA JobGoesOn ==
    ASSUME LoaderInv, StackKept, UNCHANGED <<mJobQueue, mSubmissionInfoArr, remainingThreadsCounter>>
    PROVE  LoaderInv'
<1>1. DelayTypes' /\ Delayed' = Delayed
  BY DEF LoaderInv, Types, DelayTypes, Delayed
<1>2. QED
  BY <1>1, NothingChanges DEF LoaderInv, Types, IsQueued, QueuedLoads

\* A thread takes a job.
LEMMA JobIsTaken ==
    ASSUME LoaderInv, NEW t \in Threads, AcquireQueuedJob(t), UNCHANGED remainingThreadsCounter
    PROVE  LoaderInv'
<1>1. PICK j \in mJobQueue : /\ mJobQueue' = mJobQueue \ {j}
                             /\ stack' = [stack EXCEPT ![t] = Append(stack[t], Frame(j))]
  BY DEF AcquireQueuedJob
<1>2. j \in Jobs
  BY DEF LoaderInv, Types
<1>3. StackTypes'
  BY <1>1, <1>2, FramePushed DEF LoaderInv, Types
<1>4. PICK x : /\ x \in Threads \X Nat
               /\ x \notin Beginning /\ x \notin LoadFrames
               /\ NumberOf(x)' = j.number
               /\ \A y \in LoadFrames : NumberOf(y)' = NumberOf(y)
               /\ Beginning' = IF j = BeginLoading THEN Beginning \cup {x} ELSE Beginning
               /\ LoadFrames' = IF j.kind = "load" THEN LoadFrames \cup {x} ELSE LoadFrames
  BY <1>1, <1>2, FramePushed DEF LoaderInv, Types
<1>5. DelayTypes' /\ Delayed' = Delayed
  BY DEF LoaderInv, Types, DelayTypes, Delayed, AcquireQueuedJob
<1>6. Types'
  BY <1>1, <1>3, <1>5 DEF LoaderInv, Types
<1>7. j = BeginLoading => j.kind # "load"
  BY DEF BeginLoading
<1>8. CASE j = BeginLoading
  <2>1. /\ IsQueued /\ ~ IsQueued' /\ Beginning' = Beginning \cup {x}
        /\ LoadFrames' = LoadFrames /\ QueuedLoads' = QueuedLoads
    BY <1>1, <1>4, <1>7, <1>8 DEF IsQueued, QueuedLoads
  <2>2. OneBegins' /\ (NoneBegins' <=> NoneBegins)
    BY <1>5, <2>1 DEF LoaderInv, OneBegins, NoneBegins
  <2>3. {NumberOf(y)' : y \in LoadFrames'} = {NumberOf(y) : y \in LoadFrames}
    BY <1>4, <2>1
  <2>4. LiveNumbers' = LiveNumbers
    BY <2>1, <2>3 DEF LiveNumbers
  <2>5. LoadsDiffer'
    BY <1>4, <2>1 DEF LoaderInv, LoadsDiffer
  <2>6. QED
    BY <1>6, <2>2, <2>4, <2>5 DEF LoaderInv, LoadersAreCounted
<1>9. CASE j # BeginLoading
  <2>1. IsQueued' = IsQueued /\ Beginning' = Beginning
    BY <1>1, <1>4, <1>9 DEF IsQueued
  <2>2. OneBegins' /\ (NoneBegins' <=> NoneBegins)
    BY <1>5, <2>1 DEF LoaderInv, OneBegins, NoneBegins
  <2>3. QueuedLoads' = QueuedLoads \ {j}
    BY <1>1 DEF QueuedLoads
  <2>4. LoadsDiffer' /\ LiveNumbers' = LiveNumbers
    <3>1. CASE j.kind # "load"
      <4>1. LoadFrames' = LoadFrames /\ QueuedLoads' = QueuedLoads
        BY <1>4, <2>3, <3>1 DEF QueuedLoads
      <4>2. {NumberOf(y)' : y \in LoadFrames'} = {NumberOf(y) : y \in LoadFrames}
        BY <1>4, <4>1
      <4>3. QED
        BY <1>4, <4>1, <4>2 DEF LoaderInv, LoadsDiffer, LiveNumbers
    <3>2. CASE j.kind = "load"
      <4>1. j \in QueuedLoads /\ LoadFrames' = LoadFrames \cup {x}
        BY <1>4, <3>2 DEF QueuedLoads
      <4>2. LoadsDiffer'
        BY <1>4, <2>3, <4>1 DEF LoaderInv, LoadsDiffer
      <4>3. ASSUME NEW n
            PROVE  n \in LiveNumbers' <=> n \in LiveNumbers
        <5>1. n \in LiveNumbers <=>
                 (\E k \in QueuedLoads : n = k.number) \/ \E y \in LoadFrames : n = NumberOf(y)
          BY DEF LiveNumbers
        <5>2. n \in LiveNumbers' <=>
                 (\E k \in QueuedLoads' : n = k.number) \/ \E y \in LoadFrames' : n = NumberOf(y)'
          BY DEF LiveNumbers
        <5>3. QED
          BY <1>4, <2>3, <4>1, <5>1, <5>2
      <4>4. QED
        BY <4>2, <4>3
    <3>3. QED
      BY <3>1, <3>2
  <2>5. QED
    BY <1>6, <2>2, <2>4 DEF LoaderInv, LoadersAreCounted
<1>10. QED
  BY <1>8, <1>9

\* A thread sees that an event is complete.
LEMMA DelayedJobIsSubmitted ==
    ASSUME LoaderInv, NEW t \in Threads, NEW i \in DOMAIN mSubmissionInfoArr[t],
           CheckForDelayedJobSubmission(t, i), UNCHANGED remainingThreadsCounter
    PROVE  LoaderInv'
<1>1. PICK j : j = mSubmissionInfoArr[t][i].job
  OBVIOUS
<1>2. j \in Jobs /\ j.kind # "load" /\ mJobQueue' = mJobQueue \cup {j} /\ stack' = stack
  BY <1>1 DEF LoaderInv, Types, DelayTypes, CheckForDelayedJobSubmission, Dispatch
<1>3. /\ DelayTypes' /\ \A x, y \in Delayed' : x = y
      /\ j = BeginLoading => Delayed # {} /\ Delayed' = {}
      /\ j # BeginLoading => (Delayed' = {} <=> Delayed = {})
  BY <1>1, DelayEnds DEF LoaderInv, Types, OneBegins
<1>4. /\ StackTypes' /\ Beginning' = Beginning /\ LoadFrames' = LoadFrames
      /\ \A x \in LoadFrames : NumberOf(x)' = NumberOf(x)
  BY <1>2 DEF LoaderInv, Types, StackTypes, Beginning, LoadFrames, NumberOf
<1>5. QueuedLoads' = QueuedLoads
  BY <1>2 DEF QueuedLoads
<1>6. Types'
  BY <1>2, <1>3, <1>4 DEF LoaderInv, Types
<1>7. LoadsDiffer'
  BY <1>4, <1>5 DEF LoaderInv, LoadsDiffer
<1>8. {NumberOf(x)' : x \in LoadFrames'} = {NumberOf(x) : x \in LoadFrames}
  BY <1>4
<1>9. LiveNumbers' = LiveNumbers
  BY <1>5, <1>8 DEF LiveNumbers
<1>10. OneBegins' /\ (NoneBegins' <=> NoneBegins)
  <2>1. CASE j = BeginLoading
    BY <1>2, <1>3, <1>4, <2>1 DEF LoaderInv, OneBegins, NoneBegins, IsQueued
  <2>2. CASE j # BeginLoading
    BY <1>2, <1>3, <1>4, <2>2 DEF LoaderInv, OneBegins, NoneBegins, IsQueued
  <2>3. QED
    BY <2>1, <2>2
<1>11. QED
  BY <1>6, <1>7, <1>9, <1>10 DEF LoaderInv, LoadersAreCounted

\* The job that starts the loading does so: then none of the former loading jobs is live.
LEMMA LoadingStarts ==
    ASSUME LoaderInv, NEW x \in Beginning, StackTypes', NumbersKept,
           Beginning' = Beginning \ {x}, LoadFrames' = LoadFrames,
           UNCHANGED mSubmissionInfoArr, remainingThreadsCounter' = LOADING_THREADS,
           NEW js \in SUBSET Jobs, mJobQueue' = mJobQueue \cup js,
           \A j \in js : j.kind = "load",
           \A n \in 1 .. LOADING_THREADS : \E j \in js : j.number = n,
           \A j, k \in js : j.number = k.number => j = k
    PROVE  LoaderInv'
<1>1. DelayTypes' /\ Delayed' = Delayed
  BY DEF LoaderInv, Types, DelayTypes, Delayed
<1>2. Types'
  BY <1>1 DEF LoaderInv, Types
<1>3. BeginLoading.kind # "load"
  BY DEF BeginLoading
<1>4. Beginning' = {} /\ Delayed' = {} /\ ~ IsQueued'
  BY <1>1, <1>3 DEF LoaderInv, OneBegins, IsQueued
<1>5. QueuedLoads = {} /\ LoadFrames = {}
  BY LiveLoads DEF LoaderInv, Types, LoadersAreCounted, NoneBegins
<1>6. QueuedLoads' = js
  BY <1>5 DEF QueuedLoads
<1>7. {j.number : j \in js} = 1 .. LOADING_THREADS
  <2>1. \A j \in js : j.number \in 1 .. LOADING_THREADS
    BY <1>3 DEF Jobs
  <2>2. QED
    BY <2>1
<1>8. LiveNumbers' = 1 .. LOADING_THREADS
  BY <1>5, <1>6, <1>7 DEF LiveNumbers
<1>9. LoadsDiffer'
  BY <1>5, <1>6 DEF LoadsDiffer
<1>10. remainingThreadsCounter' = Cardinality(LiveNumbers') /\ remainingThreadsCounter' # 0
  BY <1>8, LiveLoads, AssetRequestsAssumption DEF LoaderInv, Types
<1>11. QED
  BY <1>2, <1>4, <1>9, <1>10 DEF LoaderInv, OneBegins, LoadersAreCounted, NoneBegins

\* The job that starts the loading is delayed again.
LEMMA LoadingIsDelayed ==
    ASSUME LoaderInv, NEW x \in Beginning, StackTypes', NumbersKept,
           Beginning' = Beginning \ {x}, LoadFrames' = LoadFrames,
           NEW t \in Threads, NEW event, Delay(t, event, BeginLoading),
           UNCHANGED <<mJobQueue, remainingThreadsCounter>>
    PROVE  LoaderInv'
<1>1. BeginLoading \in Jobs /\ BeginLoading.kind # "load"
  BY DEF Jobs, BeginLoading
<1>2. DelayTypes'
  BY <1>1, DelayAdds DEF LoaderInv, Types
<1>3. PICK y : Delayed' = Delayed \cup {y}
  BY <1>1, DelayAdds DEF LoaderInv, Types
<1>4. Beginning' = {} /\ Delayed' = {y} /\ ~ IsQueued'
  BY <1>3 DEF LoaderInv, OneBegins, IsQueued
<1>5. OneBegins' /\ ~ NoneBegins' /\ ~ NoneBegins
  BY <1>4 DEF OneBegins, NoneBegins
<1>6. QueuedLoads' = QueuedLoads
  BY DEF QueuedLoads
<1>7. LoadsDiffer'
  BY <1>6 DEF LoaderInv, LoadsDiffer, NumbersKept
<1>8. {NumberOf(z)' : z \in LoadFrames'} = {NumberOf(z) : z \in LoadFrames}
  BY DEF NumbersKept
<1>9. LiveNumbers' = LiveNumbers
  BY <1>6, <1>8 DEF LiveNumbers
<1>10. QED
  BY <1>2, <1>5, <1>7, <1>9 DEF LoaderInv, Types, LoadersAreCounted

\* A loading job finds nothing more to load.
LEMMA LoaderLeaves ==
    ASSUME LoaderInv, NEW x \in LoadFrames, StackTypes', NumbersKept,
           Beginning' = Beginning, LoadFrames' = LoadFrames \ {x},
           NEW t \in Threads, NEW event, LeaveLoading(t, event), UNCHANGED mJobQueue
    PROVE  LoaderInv'
<1>1. BeginLoading \in Jobs /\ BeginLoading.kind # "load"
  BY DEF Jobs, BeginLoading
<1>2. QueuedLoads' = QueuedLoads /\ IsQueued' = IsQueued
  BY DEF QueuedLoads, IsQueued
<1>3. /\ \A z \in LoadFrames : NumberOf(z) = NumberOf(x) => z = x
      /\ \A j \in QueuedLoads : j.number # NumberOf(x)
  BY DEF LoaderInv, LoadsDiffer
<1>4. LiveNumbers' = LiveNumbers \ {NumberOf(x)}
  <2>1. LiveNumbers' = {j.number : j \in QueuedLoads} \cup {NumberOf(z) : z \in LoadFrames \ {x}}
    BY <1>2 DEF LiveNumbers, NumbersKept
  <2>2. QED
    BY <1>3, <2>1 DEF LiveNumbers
<1>5. NumberOf(x) \in LiveNumbers
  BY DEF LiveNumbers
<1>6. /\ remainingThreadsCounter = Cardinality(LiveNumbers) /\ remainingThreadsCounter \in Nat
      /\ remainingThreadsCounter # 0 /\ NoneBegins
      /\ IsFiniteSet(LiveNumbers)
  BY LiveLoads DEF LoaderInv, Types, LoadersAreCounted
<1>7. Cardinality(LiveNumbers') = remainingThreadsCounter - 1
  BY <1>4, <1>5, <1>6, FS_RemoveElement
<1>8. remainingThreadsCounter' = remainingThreadsCounter - 1
  BY DEF LeaveLoading
<1>9. LoadsDiffer'
  BY <1>2 DEF LoaderInv, LoadsDiffer, NumbersKept
<1>10. DelayTypes' /\ OneBegins' /\ (NoneBegins' <=> remainingThreadsCounter # 1)
  <2>1. CASE remainingThreadsCounter = 1
    <3>1. Delay(t, event, BeginLoading)
      BY <2>1 DEF LeaveLoading, LastThread
    <3>2. DelayTypes'
      BY <1>1, <3>1, DelayAdds DEF LoaderInv, Types
    <3>3. PICK y : Delayed' = Delayed \cup {y}
      BY <1>1, <3>1, DelayAdds DEF LoaderInv, Types
    <3>4. QED
      BY <1>2, <1>6, <2>1, <3>2, <3>3 DEF OneBegins, NoneBegins
  <2>2. CASE remainingThreadsCounter # 1
    <3>1. UNCHANGED mSubmissionInfoArr
      BY <2>2 DEF LeaveLoading, LastThread
    <3>2. DelayTypes' /\ Delayed' = Delayed
      BY <3>1 DEF LoaderInv, Types, DelayTypes, Delayed
    <3>3. QED
      BY <1>2, <1>6, <2>2, <3>2 DEF LoaderInv, OneBegins, NoneBegins
  <2>3. QED
    BY <2>1, <2>2
<1>11. LoadersAreCounted'
  BY <1>6, <1>7, <1>8, <1>10 DEF LoadersAreCounted
<1>12. QED
  BY <1>9, <1>10, <1>11 DEF LoaderInv, Types

-----------------------------------------------------------------------------
(* The Win32AssetIORequestHandler. *)

LEMMA Win32Keeps ==
    ASSUME LoaderInv, NEW t \in Threads, Win32Step(t)
    PROVE  LoaderInv'
<1> USE DEF At
<1>1. StackTypes /\ mJobQueue \subseteq Jobs
  BY DEF LoaderInv, Types
<1>2. \A j \in Jobs : (j.kind = "begin" <=> j = BeginLoading)
  BY DEF Jobs, BeginLoading
<1>3. stack[t] # <<>> =>
         /\ Begins(Top(t)) <=> Top(t).job.kind = "begin" /\ Top(t).pc # "wait"
         /\ Loads(Top(t)) <=> Top(t).job.kind = "load" /\ Top(t).pc # "leave"
         /\ Top(t).job = BeginLoading <=> Top(t).job.kind = "begin"
         /\ Place(t) \in Beginning <=> Begins(Top(t))
         /\ Place(t) \in LoadFrames <=> Loads(Top(t))
  BY <1>1, <1>2, TopTypes DEF Begins, Loads, IsFrame
<1>4. CASE Finalize(t)
  <2>1. stack[t] # <<>> /\ UNCHANGED <<mJobQueue, mSubmissionInfoArr, remainingThreadsCounter>>
        /\ Top(t).job.kind = "prepare" /\ Top(t).pc = "start"
        /\ (Return(t) \/ Goto(t, "push", 1))
    BY <1>4 DEF Finalize
  <2>2. StackKept
    BY <1>1, <1>3, <2>1, ReturnKeeps, GotoKeeps
  <2>3. QED
    BY <2>1, <2>2, JobGoesOn
<1>5. CASE PushBack(t)
  <2>1. stack[t] # <<>> /\ UNCHANGED <<mJobQueue, mSubmissionInfoArr, remainingThreadsCounter>>
        /\ Top(t).pc = "push" /\ (Loop(t) \/ Goto(t, "loading", Top(t).at))
    BY <1>5 DEF PushBack, requestVars
  <2>2. StackKept
    BY <1>1, <2>1, LoopKeeps, GotoKeeps
  <2>3. QED
    BY <2>1, <2>2, JobGoesOn
<1>6. CASE AddActiveBuilder(t)
  <2>1. stack[t] # <<>> /\ UNCHANGED <<mJobQueue, mSubmissionInfoArr, remainingThreadsCounter>>
        /\ Top(t).pc = "push" /\ Goto(t, "store", 0)
    BY <1>6 DEF AddActiveBuilder
  <2>2. StackKept
    BY <1>1, <2>1, GotoKeeps
  <2>3. QED
    BY <2>1, <2>2, JobGoesOn
<1>7. CASE StoreTrue(t)
  <2>1. stack[t] # <<>> /\ UNCHANGED <<mJobQueue, mSubmissionInfoArr, remainingThreadsCounter>>
        /\ Top(t).job.kind = "prepare" /\ Return(t)
    BY <1>7 DEF StoreTrue, requestVars
  <2>2. StackKept
    BY <1>1, <1>3, <2>1, ReturnKeeps
  <2>3. QED
    BY <2>1, <2>2, JobGoesOn
<1>8. CASE LoadAssetData(t)
  <2>1. stack[t] # <<>> /\ UNCHANGED <<mJobQueue, mSubmissionInfoArr, remainingThreadsCounter>>
        /\ Top(t).pc = "loading" /\ Goto(t, "notify", Top(t).at)
    BY <1>8 DEF LoadAssetData, Loading
  <2>2. StackKept
    BY <1>1, <2>1, GotoKeeps
  <2>3. QED
    BY <2>1, <2>2, JobGoesOn
<1>9. CASE NotifyForAssetIORequestCompletion(t)
  <2>1. stack[t] # <<>> /\ UNCHANGED <<mJobQueue, mSubmissionInfoArr, remainingThreadsCounter>>
        /\ Top(t).pc = "notify"
        /\ (Goto(t, "push", Top(t).at + 1) \/ Goto(t, "pop", Priority[Current(t)]))
    BY <1>9 DEF NotifyForAssetIORequestCompletion, Notifying
  <2>2. StackKept
    BY <1>1, <2>1, GotoKeeps
  <2>3. QED
    BY <2>1, <2>2, JobGoesOn
<1>10. CASE BeginAssetLoading(t)
  <2>1. stack[t] # <<>> /\ UNCHANGED <<mJobQueue, mSubmissionInfoArr, remainingThreadsCounter>>
        /\ Top(t).pc = "start" /\ Goto(t, "look", PRIORITY_COUNT)
    BY <1>10 DEF BeginAssetLoading, requestVars
  <2>2. StackKept
    BY <1>1, <2>1, GotoKeeps
  <2>3. QED
    BY <2>1, <2>2, JobGoesOn
<1>11. CASE IsEmpty(t)
  <2>1. stack[t] # <<>> /\ UNCHANGED <<mJobQueue, remainingThreadsCounter>>
        /\ Top(t).pc = "look" /\ Top(t).job.kind = "begin"
    BY <1>11 DEF IsEmpty, requestVars
  <2>2. CASE Delay(t, ActiveRequests, BeginLoading) /\ Return(t)
    <3>1. /\ StackTypes' /\ NumbersKept
          /\ Beginning' = Beginning \ {Place(t)} /\ LoadFrames' = LoadFrames \ {Place(t)}
      BY <1>1, <2>1, <2>2, ReturnPops
    <3>2. Place(t) \in Beginning /\ LoadFrames' = LoadFrames
      BY <1>3, <2>1, <3>1
    <3>3. QED
      BY <2>1, <2>2, <3>1, <3>2, LoadingIsDelayed
  <2>3. CASE ~ (Delay(t, ActiveRequests, BeginLoading) /\ Return(t))
    <3>1. /\ UNCHANGED mSubmissionInfoArr
          /\ Goto(t, "dispatch", 0) \/ Goto(t, "look", Top(t).at - 1)
      BY <1>11, <2>3 DEF IsEmpty
    <3>2. StackKept
      BY <1>1, <2>1, <3>1, GotoKeeps
    <3>3. QED
      BY <2>1, <3>1, <3>2, JobGoesOn
  <2>4. QED
    BY <2>2, <2>3
<1>12. CASE ExecuteJobsAsync(t)
  <2>1. stack[t] # <<>> /\ UNCHANGED mSubmissionInfoArr
        /\ Top(t).pc = "dispatch" /\ Top(t).job.kind = "begin" /\ Return(t)
        /\ remainingThreadsCounter' = LOADING_THREADS
    BY <1>12 DEF ExecuteJobsAsync
  <2>2. /\ StackTypes' /\ NumbersKept
        /\ Beginning' = Beginning \ {Place(t)} /\ LoadFrames' = LoadFrames \ {Place(t)}
    BY <1>1, <2>1, ReturnPops
  <2>3. Place(t) \in Beginning /\ LoadFrames' = LoadFrames
    BY <1>3, <2>1, <2>2
  <2>4. PICK js : js = {LoadJob(n) : n \in 1 .. LOADING_THREADS}
    OBVIOUS
  <2>5. mJobQueue' = mJobQueue \cup js
    BY <1>12, <2>4 DEF ExecuteJobsAsync, Dispatch
  <2>6. /\ js \in SUBSET Jobs /\ \A j \in js : j.kind = "load"
        /\ \A n \in 1 .. LOADING_THREADS : \E j \in js : j.number = n
        /\ \A j, k \in js : j.number = k.number => j = k
    <3>1. ASSUME NEW n \in 1 .. LOADING_THREADS
          PROVE  LoadJob(n) \in Jobs /\ LoadJob(n).kind = "load" /\ LoadJob(n).number = n
      BY DEF LoadJob, Jobs
    <3>2. QED
      BY <2>4, <3>1
  <2>7. QED
    BY <2>1, <2>2, <2>3, <2>5, <2>6, LoadingStarts
<1>13. CASE ExecuteAssetIORequests(t)
  <2>1. stack[t] # <<>> /\ UNCHANGED <<mJobQueue, mSubmissionInfoArr, remainingThreadsCounter>>
        /\ Top(t).pc = "start" /\ Goto(t, "pop", PRIORITY_COUNT)
    BY <1>13 DEF ExecuteAssetIORequests, requestVars
  <2>2. StackKept
    BY <1>1, <2>1, GotoKeeps
  <2>3. QED
    BY <2>1, <2>2, JobGoesOn
<1>14. CASE TryPop(t)
  <2>1. stack[t] # <<>> /\ UNCHANGED mJobQueue /\ Top(t).pc = "pop" /\ Top(t).job.kind = "load"
    BY <1>14 DEF TryPop
  <2>2. CASE LeaveLoading(t, ActiveRequests) /\ Return(t)
    <3>1. /\ StackTypes' /\ NumbersKept
          /\ Beginning' = Beginning \ {Place(t)} /\ LoadFrames' = LoadFrames \ {Place(t)}
      BY <1>1, <2>1, <2>2, ReturnPops
    <3>2. Place(t) \in LoadFrames /\ Beginning' = Beginning
      BY <1>3, <2>1, <3>1
    <3>3. QED
      BY <2>1, <2>2, <3>1, <3>2, LoaderLeaves
  <2>3. CASE ~ (LeaveLoading(t, ActiveRequests) /\ Return(t))
    <3>1. /\ UNCHANGED <<mSubmissionInfoArr, remainingThreadsCounter>>
          /\ Goto(t, "loading", Head(mRequestQueueArr[Top(t).at])) \/ Goto(t, "pop", Top(t).at - 1)
      BY <1>14, <2>3 DEF TryPop
    <3>2. StackKept
      BY <1>1, <2>1, <3>1, GotoKeeps
    <3>3. QED
      BY <2>1, <3>1, <3>2, JobGoesOn
  <2>4. QED
    BY <2>2, <2>3
<1>15. QED
  BY <1>4, <1>5, <1>6, <1>7, <1>8, <1>9, <1>10, <1>11, <1>12, <1>13, <1>14 DEF Win32Step

-----------------------------------------------------------------------------
(* The DirectStorageAssetIORequestHandler. *)

\* A job waits for a group of jobs.
LEMMA WaitTop ==
    ASSUME StackTypes, NEW t \in Threads, stack[t] # <<>>, NEW js, ExecuteJobs(t, js)
    PROVE  \E g : /\ IsFrame(g) /\ g.job = Top(t).job /\ g.pc = "wait"
                  /\ stack' = [stack EXCEPT ![t] = [stack[t] EXCEPT ![Len(stack[t])] = g]]
<1>1. /\ Len(stack[t]) \in DOMAIN stack[t] /\ IsFrame(Top(t)) /\ Top(t) = stack[t][Len(stack[t])]
  BY TopTypes
<1>2. PICK f, k, n : f = Top(t) /\ k = Len(stack[t]) /\ n = Cardinality(js)
  OBVIOUS
<1>3. PICK g : g = [job |-> f.job, pc |-> "wait", at |-> f.at, left |-> n]
  OBVIOUS
<1>4. IsFrame(g) /\ g.job = Top(t).job /\ g.pc = "wait"
  BY <1>1, <1>2, <1>3 DEF IsFrame
<1>5. [[f EXCEPT !.pc = "wait"] EXCEPT !.left = n] = g
  <2>1. PICK j, p, a, l : j = f.job /\ p = f.pc /\ a = f.at /\ l = f.left
    OBVIOUS
  <2>2. f = [job |-> j, pc |-> p, at |-> a, left |-> l]
    BY <1>1, <1>2, <2>1 DEF IsFrame
  <2>3. g = [job |-> j, pc |-> "wait", at |-> a, left |-> n]
    BY <1>3, <2>1
  <2>4. PICK h : h = [f EXCEPT !.pc = "wait"]
    OBVIOUS
  <2>5. h = [job |-> j, pc |-> "wait", at |-> a, left |-> l]
    BY <2>2, <2>4
  <2>6. [h EXCEPT !.left = n] = g
    BY <2>3, <2>5
  <2>7. QED
    BY <2>4, <2>6
<1>6. stack' = [stack EXCEPT ![t] = [stack[t] EXCEPT ![k] = g]]
  <2>1. PICK s1 : s1 = [stack EXCEPT ![t][k].pc = "wait"]
    OBVIOUS
  <2>2. s1 = [stack EXCEPT ![t] = [stack[t] EXCEPT ![k] = [f EXCEPT !.pc = "wait"]]]
    BY <1>1, <1>2, <2>1
  <2>3. stack' = [s1 EXCEPT ![t][k].left = n]
    BY <1>2, <2>1 DEF ExecuteJobs
  <2>4. s1[t] = [stack[t] EXCEPT ![k] = [f EXCEPT !.pc = "wait"]] /\ DOMAIN s1 = Threads
    BY <2>2 DEF StackTypes
  <2>5. s1[t][k] = [f EXCEPT !.pc = "wait"]
    BY <1>1, <1>2, <2>4
  <2>6. stack' = [s1 EXCEPT ![t] = [s1[t] EXCEPT ![k] = g]]
    BY <1>5, <2>3, <2>5
  <2>7. [s1[t] EXCEPT ![k] = g] = [stack[t] EXCEPT ![k] = g]
    BY <2>4
  <2>8. QED
    BY <2>2, <2>6, <2>7 DEF StackTypes
<1>7. QED
  BY <1>2, <1>4, <1>6

LEMMA JobWaits ==
    ASSUME StackTypes, NEW t \in Threads, stack[t] # <<>>, NEW js, ExecuteJobs(t, js)
    PROVE  /\ StackTypes' /\ NumbersKept
           /\ Beginning' = Beginning \ {Place(t)}
           /\ LoadFrames' = IF Top(t).job.kind = "load"
                            THEN LoadFrames \cup {Place(t)} ELSE LoadFrames \ {Place(t)}
<1>1. QED
  BY WaitTop, TopReplaced DEF Begins, Loads

LEMMA DirectKeeps ==
    ASSUME LoaderInv, NEW t \in Threads, DirectStep(t)
    PROVE  LoaderInv'
<1> USE DEF At
<1>1. StackTypes /\ mJobQueue \subseteq Jobs
  BY DEF LoaderInv, Types
<1>2. \A j \in Jobs : (j.kind = "begin" <=> j = BeginLoading)
  BY DEF Jobs, BeginLoading
<1>3. stack[t] # <<>> =>
         /\ Begins(Top(t)) <=> Top(t).job.kind = "begin" /\ Top(t).pc # "wait"
         /\ Loads(Top(t)) <=> Top(t).job.kind = "load" /\ Top(t).pc # "leave"
         /\ Top(t).job = BeginLoading <=> Top(t).job.kind = "begin"
         /\ Top(t).job \in Jobs
         /\ Place(t) \in Beginning <=> Begins(Top(t))
         /\ Place(t) \in LoadFrames <=> Loads(Top(t))
  BY <1>1, <1>2, TopTypes DEF Begins, Loads, IsFrame
<1>4. CASE CreatePendingRequest(t)
  <2>1. stack[t] # <<>> /\ UNCHANGED <<mJobQueue, mSubmissionInfoArr, remainingThreadsCounter>>
        /\ Top(t).pc = "start" /\ Goto(t, "enqueue", 1)
    BY <1>4 DEF CreatePendingRequest
  <2>2. StackKept
    BY <1>1, <2>1, GotoKeeps
  <2>3. QED
    BY <2>1, <2>2, JobGoesOn
<1>5. CASE EnqueueRequest(t)
  <2>1. PICK d, p, i : d = Top(t).job.dependency /\ p = Top(t).at /\ i = mCurrStatusArrayEntryIndex[p]
    OBVIOUS
  <2>2. /\ stack[t] # <<>> /\ UNCHANGED <<mJobQueue, remainingThreadsCounter>>
        /\ Top(t).job.kind = "prepare" /\ Loop(t)
        /\ \/ UNCHANGED mSubmissionInfoArr
           \/ Delay(t, StatusEntry(p, i), Notification(d, p)) /\ Relevant(d, p) # {}
    BY <1>5, <2>1 DEF EnqueueRequest, requestVars
  <2>3. StackKept
    BY <1>1, <2>2, LoopKeeps
  <2>4. CASE UNCHANGED mSubmissionInfoArr
    BY <2>2, <2>3, <2>4, JobGoesOn
  <2>5. CASE Delay(t, StatusEntry(p, i), Notification(d, p)) /\ Relevant(d, p) # {}
    <3>1. d \in Dependencies
      BY <1>3, <2>1, <2>2 DEF Jobs, BeginLoading
    <3>2. PICK r \in Of(d) : Priority[r] = p
      BY <2>5 DEF Relevant
    <3>3. r \in Requests
      BY <3>1, <3>2, AssetRequestsAssumption, ElementOfSeq, LenProperties DEF Of
    <3>4. p \in Priorities
      BY <3>2, <3>3, AssetRequestsAssumption
    <3>5. PICK j : j = Notification(d, p)
      OBVIOUS
    <3>6. j \in Jobs /\ j.kind = "notification"
      BY <3>1, <3>4, <3>5 DEF Notification, Jobs
    <3>7. j # BeginLoading /\ j.kind # "load"
      BY <3>6 DEF BeginLoading
    <3>8. Delay(t, StatusEntry(p, i), j)
      BY <2>5, <3>5
    <3>9. DelayTypes' /\ Delayed' = Delayed
      BY <3>6, <3>7, <3>8, DelayAdds DEF LoaderInv, Types
    <3>10. QED
      BY <1>1, <2>2, <2>3, <3>9, NothingChanges DEF IsQueued, QueuedLoads
  <2>6. QED
    BY <2>2, <2>4, <2>5
<1>6. CASE AddPendingRequest(t)
  <2>1. stack[t] # <<>> /\ UNCHANGED <<mJobQueue, mSubmissionInfoArr, remainingThreadsCounter>>
        /\ Top(t).job.kind = "prepare" /\ Return(t)
    BY <1>6 DEF AddPendingRequest
  <2>2. StackKept
    BY <1>1, <1>3, <2>1, ReturnKeeps
  <2>3. QED
    BY <2>1, <2>2, JobGoesOn
<1>7. CASE BeginCPUDecompression(t)
  <2>1. PICK js : js = {DecompressionJob(n, t, Len(stack[t])) : n \in 1 .. LOADING_THREADS}
    OBVIOUS
  <2>2. stack[t] # <<>> /\ UNCHANGED mSubmissionInfoArr
        /\ Top(t).pc = "start" /\ Top(t).job.kind = "begin" /\ ExecuteJobs(t, js)
        /\ remainingThreadsCounter' = LOADING_THREADS
    BY <1>7, <2>1 DEF BeginCPUDecompression
  <2>3. /\ StackTypes' /\ NumbersKept
        /\ Beginning' = Beginning \ {Place(t)} /\ LoadFrames' = LoadFrames \ {Place(t)}
    BY <1>1, <2>2, JobWaits
  <2>4. Place(t) \in Beginning /\ LoadFrames' = LoadFrames
    BY <1>3, <2>2, <2>3
  <2>5. mJobQueue' = mJobQueue \cup js
    BY <2>2 DEF ExecuteJobs, Dispatch
  <2>6. /\ js \in SUBSET Jobs /\ \A j \in js : j.kind = "load"
        /\ \A n \in 1 .. LOADING_THREADS : \E j \in js : j.number = n
        /\ \A j, k \in js : j.number = k.number => j = k
    <3>1. PICK depth : depth = Len(stack[t]) /\ depth \in Nat
      BY <1>1, <2>2, TopTypes
    <3>2. ASSUME NEW n \in 1 .. LOADING_THREADS
          PROVE  /\ DecompressionJob(n, t, depth) \in Jobs
                 /\ DecompressionJob(n, t, depth).kind = "load"
                 /\ DecompressionJob(n, t, depth).number = n
      BY <3>1 DEF DecompressionJob, Jobs
    <3>3. QED
      BY <2>1, <3>1, <3>2
  <2>7. QED
    BY <2>2, <2>3, <2>4, <2>5, <2>6, LoadingStarts
<1>8. CASE EndCPUDecompression(t)
  <2>1. stack[t] # <<>> /\ UNCHANGED <<mJobQueue, mSubmissionInfoArr, remainingThreadsCounter>>
        /\ Top(t).job.kind = "begin" /\ Top(t).pc = "wait" /\ Return(t)
    BY <1>8 DEF EndCPUDecompression, requestVars
  <2>2. StackKept
    BY <1>1, <1>3, <2>1, ReturnKeeps
  <2>3. QED
    BY <2>1, <2>2, JobGoesOn
<1>9. CASE GetRequests(t)
  <2>1. stack[t] # <<>> /\ UNCHANGED mJobQueue
        /\ Top(t).job.kind = "load" /\ (Top(t).pc = "start" \/ Top(t).pc = "get")
    BY <1>9 DEF GetRequests
  <2>2. CASE LeaveLoading(t, Decompression) /\ Goto(t, "leave", 0)
    <3>1. /\ StackTypes' /\ NumbersKept
          /\ Beginning' = Beginning \ {Place(t)} /\ LoadFrames' = LoadFrames \ {Place(t)}
      BY <1>1, <1>3, <2>1, <2>2, GotoReplaces
    <3>2. Place(t) \in LoadFrames /\ Beginning' = Beginning
      BY <1>3, <2>1, <3>1
    <3>3. QED
      BY <2>1, <2>2, <3>1, <3>2, LoaderLeaves
  <2>3. CASE ~ (LeaveLoading(t, Decompression) /\ Goto(t, "leave", 0))
    <3>1. UNCHANGED <<mSubmissionInfoArr, remainingThreadsCounter>>
          /\ \E r \in decompression : Goto(t, "decompress", r)
      BY <1>9, <2>3 DEF GetRequests
    <3>2. StackKept
      BY <1>1, <2>1, <3>1, GotoKeeps
    <3>3. QED
      BY <2>1, <3>1, <3>2, JobGoesOn
  <2>4. QED
    BY <2>2, <2>3
<1>10. CASE SetRequestResults(t)
  <2>1. stack[t] # <<>> /\ UNCHANGED <<mJobQueue, mSubmissionInfoArr, remainingThreadsCounter>>
        /\ Top(t).pc = "decompress" /\ Goto(t, "get", 0)
    BY <1>10 DEF SetRequestResults
  <2>2. StackKept
    BY <1>1, <2>1, GotoKeeps
  <2>3. QED
    BY <2>1, <2>2, JobGoesOn
<1>11. CASE DecrementCounter(t)
  <2>1. stack[t] # <<>> /\ UNCHANGED <<mJobQueue, mSubmissionInfoArr, remainingThreadsCounter>>
        /\ Top(t).job.kind = "load" /\ Top(t).pc = "leave"
        /\ ReturnTo(t, Top(t).job.waiter, Top(t).job.depth)
    BY <1>11 DEF DecrementCounter, requestVars
  <2>2. StackKept
    BY <1>1, <1>3, <2>1, ReturnToKeeps
  <2>3. QED
    BY <2>1, <2>2, JobGoesOn
<1>12. CASE NotifyEntryCompleted(t)
  <2>1. stack[t] # <<>> /\ UNCHANGED <<mJobQueue, mSubmissionInfoArr, remainingThreadsCounter>>
        /\ Top(t).job.kind = "notification" /\ Return(t)
    BY <1>12 DEF NotifyEntryCompleted
  <2>2. StackKept
    BY <1>1, <1>3, <2>1, ReturnKeeps
  <2>3. QED
    BY <2>1, <2>2, JobGoesOn
<1>13. QED
  BY <1>4, <1>5, <1>6, <1>7, <1>8, <1>9, <1>10, <1>11, <1>12 DEF DirectStep

-----------------------------------------------------------------------------
(* All together. *)

LEMMA LoaderInitially == Init => LoaderInv
<1> SUFFICES ASSUME Init PROVE LoaderInv
  OBVIOUS
<1>1. PICK event : mSubmissionInfoArr =
         [t \in Threads |-> IF t # Main THEN <<>> ELSE <<[event |-> event, job |-> BeginLoading]>>]
  BY DEF Init
<1>2. \E e : e = [event |-> event, job |-> BeginLoading]
  OBVIOUS
<1>22. PICK e : e = [event |-> event, job |-> BeginLoading]
  BY <1>2
<1>23. e.job = BeginLoading
  BY <1>22
<1>3. \A t \in Threads : mSubmissionInfoArr[t] = IF t # Main THEN <<>> ELSE <<e>>
  BY <1>1, <1>22
<1>4. BeginLoading \in {j \in Jobs : j.kind # "load"}
  BY DEF Jobs, BeginLoading
<1>5. DelayTypes
  <2>1. mSubmissionInfoArr = [t \in Threads |-> mSubmissionInfoArr[t]]
    BY <1>1
  <2>2. QED
    BY <1>22, <1>23, <1>3, <1>4, <2>1, EmptySequence, OneElement DEF DelayTypes
<1>6. /\ mJobQueue = {} /\ stack = [t \in Threads |-> <<>>] /\ remainingThreadsCounter = 0
  BY DEF Init, JobsInit, RequestsInit
<1>7. Types
  BY <1>5, <1>6, EmptySequence DEF Types, StackTypes
<1>8. Beginning = {} /\ LoadFrames = {} /\ QueuedLoads = {} /\ ~ IsQueued
  BY <1>6, EmptySequence DEF Beginning, LoadFrames, QueuedLoads, IsQueued
<1>9. PICK x : x = <<Main, 1>>
  OBVIOUS
<1>10. x \in Threads \X Nat /\ x[1] = Main /\ x[2] = 1
  BY <1>9, AssetIOAssumption
<1>11. Delayed = {x}
  <2>1. x \in Delayed
    BY <1>23, <1>3, <1>10, OneElement DEF Delayed
  <2>2. ASSUME NEW y \in Delayed PROVE y = x
    <3>1. y \in Threads \X Nat /\ y[2] \in DOMAIN mSubmissionInfoArr[y[1]]
      BY DEF Delayed
    <3>2. y[1] = Main /\ y[2] = 1
      BY <1>3, <3>1, EmptySequence, OneElement
    <3>3. QED
      BY <1>9, <3>1, <3>2
  <2>3. QED
    BY <2>1, <2>2
<1>12. OneBegins /\ LoadsDiffer
  BY <1>8, <1>11 DEF OneBegins, LoadsDiffer
<1>13. Cardinality(LiveNumbers) = 0
  BY <1>7, <1>8, LiveLoads DEF Types
<1>14. QED
  BY <1>6, <1>7, <1>11, <1>12, <1>13 DEF LoaderInv, LoadersAreCounted, NoneBegins

LEMMA LoaderStep == LoaderInv /\ [Next]_vars => LoaderInv'
<1> SUFFICES ASSUME LoaderInv, [Next]_vars PROVE LoaderInv'
  OBVIOUS
<1>1. ASSUME UNCHANGED <<jobVars, remainingThreadsCounter>>
      PROVE  LoaderInv'
  <2>1. UNCHANGED <<stack, mJobQueue, mSubmissionInfoArr, remainingThreadsCounter>>
    BY <1>1 DEF jobVars
  <2>2. StackTypes' /\ Beginning' = Beginning /\ LoadFrames' = LoadFrames
    BY <2>1 DEF LoaderInv, Types, StackTypes, Beginning, LoadFrames
  <2>3. NumbersKept
    BY <2>1 DEF NumbersKept, NumberOf
  <2>4. QED
    BY <2>1, <2>2, <2>3, JobGoesOn DEF StackKept
<1>2. ASSUME NEW d \in Dependencies, EnqueueAssetDependency(d)
      PROVE  LoaderInv'
  <2>1. PICK j : j = Prepare(d)
    OBVIOUS
  <2>2. j \in Jobs /\ j # BeginLoading /\ j.kind # "load"
    BY <2>1 DEF Prepare, Jobs, BeginLoading
  <2>3. /\ mJobQueue' = mJobQueue \cup {j}
        /\ UNCHANGED <<stack, mSubmissionInfoArr, remainingThreadsCounter>>
    BY <1>2, <2>1 DEF EnqueueAssetDependency, Dispatch, requestVars
  <2>4. StackKept
    BY <2>3 DEF LoaderInv, Types, StackTypes, StackKept, NumbersKept, Beginning, LoadFrames, NumberOf
  <2>5. DelayTypes' /\ Delayed' = Delayed
    BY <2>3 DEF LoaderInv, Types, DelayTypes, Delayed
  <2>6. mJobQueue' \subseteq Jobs /\ IsQueued' = IsQueued /\ QueuedLoads' = QueuedLoads
    BY <2>2, <2>3 DEF LoaderInv, Types, IsQueued, QueuedLoads
  <2>7. QED
    BY <2>3, <2>4, <2>5, <2>6, NothingChanges
<1>3. CASE SubmitAssetIORequests
  <2>1. UNCHANGED <<jobVars, remainingThreadsCounter>>
    BY <1>3 DEF SubmitAssetIORequests, BeginSubmit, SubmitQueue, ClearCompletedRequests, Submit,
                EraseIfReady, requestVars
  <2>2. QED
    BY <1>1, <2>1
<1>4. ASSUME NEW t \in Threads, ExecuteJob(t)
      PROVE  LoaderInv'
  <2>1. CASE AcquireQueuedJob(t) /\ UNCHANGED requestVars
    BY <2>1, JobIsTaken DEF requestVars
  <2>2. QED
    BY <1>4, <2>1, Win32Keeps, DirectKeeps DEF ExecuteJob
<1>5. ASSUME NEW t \in Threads, CheckDelayedJobs(t)
      PROVE  LoaderInv'
  BY <1>5, DelayedJobIsSubmitted DEF CheckDelayedJobs, requestVars
<1>6. CASE DirectStorage \/ Drain
  <2>1. UNCHANGED <<jobVars, remainingThreadsCounter>>
    BY <1>6 DEF DirectStorage, Drain, ReadFromFile, StoreBufferDrains, requestVars
  <2>2. QED
    BY <1>1, <2>1
<1>7. CASE UNCHANGED vars
  <2>1. UNCHANGED <<jobVars, remainingThreadsCounter>>
    BY <1>7 DEF vars, requestVars
  <2>2. QED
    BY <1>1, <2>1
<1>8. QED
  BY <1>2, <1>3, <1>4, <1>5, <1>6, <1>7 DEF Next

LEMMA OneIsInOnePlace == LoaderInv => OneLoader
<1> SUFFICES ASSUME LoaderInv PROVE OneLoader
  OBVIOUS
<1> DEFINE D == UNION {{<<t, "delayed", i>> : i \in Starts(mSubmissionInfoArr[t])} : t \in Threads}
           B == UNION {{<<t, "begins", i>> : i \in {k \in Starts(stack[t]) : stack[t][k].pc # "wait"}} :
                         t \in Threads}
           Q == {BeginLoading} \cap mJobQueue
<1>1. Circulating = D \cup B \cup Q
  BY DEF Circulating
<1>2. ASSUME NEW t \in Threads
      PROVE  /\ \A i : i \in Starts(mSubmissionInfoArr[t]) <=> <<t, i>> \in Delayed
             /\ \A i : i \in Starts(stack[t]) /\ stack[t][i].pc # "wait" <=> <<t, i>> \in Beginning
  <2>1. /\ \A i \in DOMAIN mSubmissionInfoArr[t] : i \in Nat
        /\ \A i \in DOMAIN stack[t] : i \in Nat
    BY SequenceLength DEF LoaderInv, Types, DelayTypes, StackTypes
  <2>2. ASSUME NEW i
        PROVE  /\ i \in Starts(mSubmissionInfoArr[t]) <=> <<t, i>> \in Delayed
               /\ i \in Starts(stack[t]) /\ stack[t][i].pc # "wait" <=> <<t, i>> \in Beginning
    <3>1. PICK x : x = <<t, i>>
      OBVIOUS
    <3>2. x[1] = t /\ x[2] = i /\ (i \in Nat <=> x \in Threads \X Nat)
      BY <3>1
    <3>3. QED
      BY <2>1, <3>1, <3>2 DEF Starts, Delayed, Beginning, Begins
  <2>3. QED
    BY <2>2
<1>3. /\ \A z \in D : \E t, i : z = <<t, "delayed", i>> /\ <<t, i>> \in Delayed
      /\ \A z \in B : \E t, i : z = <<t, "begins", i>> /\ <<t, i>> \in Beginning
  BY <1>2
<1>4. /\ \A x \in Delayed : <<x[1], "delayed", x[2]>> \in D
      /\ \A x \in Beginning : <<x[1], "begins", x[2]>> \in B
  <2>1. ASSUME NEW x \in Delayed PROVE <<x[1], "delayed", x[2]>> \in D
    <3>1. x = <<x[1], x[2]>> /\ x[1] \in Threads
      BY DEF Delayed
    <3>2. x[2] \in Starts(mSubmissionInfoArr[x[1]])
      BY <1>2, <3>1
    <3>3. QED
      BY <3>1, <3>2
  <2>2. ASSUME NEW x \in Beginning PROVE <<x[1], "begins", x[2]>> \in B
    <3>1. x = <<x[1], x[2]>> /\ x[1] \in Threads
      BY DEF Beginning
    <3>2. x[2] \in Starts(stack[x[1]]) /\ stack[x[1]][x[2]].pc # "wait"
      BY <1>2, <3>1
    <3>3. QED
      BY <3>1, <3>2
  <2>3. QED
    BY <2>1, <2>2
<1> HIDE DEF D, B
<1>5. /\ D # {} <=> Delayed # {}
      /\ B # {} <=> Beginning # {}
      /\ Q # {} <=> IsQueued
  BY <1>3, <1>4 DEF IsQueued
<1>6. /\ \A y, z \in D : y = z
      /\ \A y, z \in B : y = z
      /\ \A y, z \in Q : y = z
  <2>1. ASSUME NEW y \in D, NEW z \in D PROVE y = z
    <3>1. PICK t, i : y = <<t, "delayed", i>> /\ <<t, i>> \in Delayed
      BY <1>3
    <3>2. PICK u, j : z = <<u, "delayed", j>> /\ <<u, j>> \in Delayed
      BY <1>3
    <3>3. <<t, i>> = <<u, j>>
      BY <3>1, <3>2 DEF LoaderInv, OneBegins
    <3>4. QED
      BY <3>1, <3>2, <3>3
  <2>2. ASSUME NEW y \in B, NEW z \in B PROVE y = z
    <3>1. PICK t, i : y = <<t, "begins", i>> /\ <<t, i>> \in Beginning
      BY <1>3
    <3>2. PICK u, j : z = <<u, "begins", j>> /\ <<u, j>> \in Beginning
      BY <1>3
    <3>3. <<t, i>> = <<u, j>>
      BY <3>1, <3>2 DEF LoaderInv, OneBegins
    <3>4. QED
      BY <3>1, <3>2, <3>3
  <2>3. QED
    BY <2>1, <2>2
<1> HIDE DEF Q
<1>7. \A y, z \in Circulating : y = z
  BY <1>1, <1>5, <1>6 DEF LoaderInv, OneBegins
<1>8. Circulating = {} <=> NoneBegins
  BY <1>1, <1>5 DEF NoneBegins
<1>9. Cardinality(Circulating) = IF NoneBegins THEN 0 ELSE 1
  <2>1. CASE Circulating = {}
    BY <1>8, <2>1, FS_EmptySet
  <2>2. CASE Circulating # {}
    <3>1. PICK z : Circulating = {z}
      BY <1>7, <2>2
    <3>2. QED
      BY <1>8, <2>2, <3>1, FS_Singleton
  <2>3. QED
    BY <2>1, <2>2
<1>10. remainingThreadsCounter \in Nat /\ (remainingThreadsCounter = 0 <=> ~ NoneBegins)
  BY LiveLoads DEF LoaderInv, Types, LoadersAreCounted
<1>11. QED
  BY <1>9, <1>10 DEF OneLoader

\* There is exactly one of the delayed job that starts the loading, that job, and the
\* loading jobs it started, with either handler and for any number of threads,
\* dependencies and priorities: the last loading job to decrement
\* remainingThreadsCounter is the one that delays the next starter
\* (Win32AssetIORequestHandler.cpp and DirectStorageAssetIORequestHandler.cpp).
THEOREM OneLoaderTheorem == AssetSpec => []OneLoader
<1>1. QED
  BY LoaderInitially, LoaderStep, OneIsInOnePlace, PTL DEF AssetSpec

-----------------------------------------------------------------------------
(* What is loaded, and what refers to it: the places of frames, of delayed jobs *)
(* and of requests in queues.                                                 *)

FramePlaces == UNION {{t} \X DOMAIN stack[t] : t \in Threads}
JobOf(x) == stack[x[1]][x[2]].job
PcOf(x)  == stack[x[1]][x[2]].pc
AtOf(x)  == stack[x[1]][x[2]].at
DelayPlaces == UNION {{t} \X DOMAIN mSubmissionInfoArr[t] : t \in Threads}
DelayedJob(z)   == mSubmissionInfoArr[z[1]][z[2]].job
DelayedEvent(z) == mSubmissionInfoArr[z[1]][z[2]].event
QueuePlaces == UNION {{p} \X DOMAIN mRequestQueueArr[p] : p \in Priorities}
QueuedAt(y) == mRequestQueueArr[y[1]][y[2]]

\* A dependency is prepared once, and its preparation is over, but for the store, when
\* there is an object for it.
Preparing(d) == {x \in FramePlaces : JobOf(x) = Prepare(d)}
IsQueuedFor(d) == Prepare(d) \in mJobQueue
Started(d) == d \in requested /\ ~ IsQueuedFor(d) /\ \A x \in Preparing(d) : PcOf(x) # "start"
PreparedOnce ==
    /\ \A d \in Dependencies :
          /\ \A x, y \in Preparing(d) : x = y
          /\ IsQueuedFor(d) => Preparing(d) = {}
          /\ IsQueuedFor(d) \/ Preparing(d) # {} => d \in requested
    /\ requested \subseteq Dependencies
    /\ mActive \cup deleted \subseteq Dependencies /\ deleted \subseteq mAssetRequestFinished
    /\ \A d \in mActive \cup deleted :
          Started(d) /\ \A x \in Preparing(d) : PcOf(x) = "store"

\* With the Win32 handler a request that is not loaded and notified of is to be pushed,
\* or in one place of a queue, or with one loading job.
Loaders(r) == {x \in FramePlaces : /\ JobOf(x).kind = "load" /\ AtOf(x) = r
                                   /\ PcOf(x) \in {"loading", "notify"}}
InQueue(r) == \E y \in QueuePlaces : QueuedAt(y) = r
Rest(d, pc, at) == {r \in Of(d) : /\ pc \in {"push", "loading", "notify"}
                                  /\ \E i \in DOMAIN RequestsOf[d] : at <= i /\ r = RequestsOf[d][i]}
IsUnpushed(d, r) == \E x \in Preparing(d) : r \in Rest(d, PcOf(x), AtOf(x))
Outstanding(d) == {r \in Of(d) : InQueue(r) \/ Loaders(r) # {} \/ IsUnpushed(d, r)}
AllOf == UNION {Of(d) : d \in Dependencies}

Win32Prepare(d, x) ==
    /\ PcOf(x) \in {"start", "push", "loading", "notify", "store"}
    /\ PcOf(x) = "push" => AtOf(x) \in 1 .. Len(RequestsOf[d]) + 1
    /\ PcOf(x) \in {"loading", "notify"} => AtOf(x) \in 1 .. Len(RequestsOf[d])
    /\ PcOf(x) = "notify" => RequestsOf[d][AtOf(x)] \in loaded
Win32Load(x) ==
    /\ PcOf(x) \in {"start", "pop", "loading", "notify"}
    /\ PcOf(x) = "pop" => AtOf(x) \in 0 .. PRIORITY_COUNT
    /\ PcOf(x) \in {"loading", "notify"} => AtOf(x) \in AllOf
    /\ PcOf(x) = "notify" => AtOf(x) \in loaded
Win32Frames ==
    \A x \in FramePlaces :
        /\ JobOf(x).kind # "notification"
        /\ JobOf(x).kind = "prepare" => Win32Prepare(JobOf(x).dependency, x)
        /\ JobOf(x).kind = "load" => Win32Load(x)
DelaysBegin == \A z \in DelayPlaces : DelayedJob(z) = BeginLoading
Win32Types ==
    /\ mRequestQueueArr \in [Priorities -> Seq(AllOf)]
    /\ mActiveRequestCounter \in [Dependencies -> Int]
    /\ Win32Frames
    /\ \A j \in mJobQueue : j.kind # "notification"
    /\ DelaysBegin
OnePlace ==
    /\ \A y, z \in QueuePlaces : QueuedAt(y) = QueuedAt(z) => y = z
    /\ \A d \in Dependencies : \A r \in Of(d) :
          /\ \A x, y \in Loaders(r) : x = y
          /\ InQueue(r) => Loaders(r) = {}
          /\ InQueue(r) \/ Loaders(r) # {} => Started(d) /\ ~ IsUnpushed(d, r)
RequestsAreCounted ==
    /\ \A d \in Dependencies :
          IF Started(d) THEN /\ mActiveRequestCounter[d] = Cardinality(Outstanding(d))
                             /\ Of(d) \ Outstanding(d) \subseteq loaded
                        ELSE mActiveRequestCounter[d] = 0
    /\ mAssetRequestFinished \subseteq {d \in Dependencies : Started(d) /\ Outstanding(d) = {}}
Win32Inv == Win32Types /\ OnePlace /\ RequestsAreCounted

\* With DirectStorage's handler each priority a dependency has is to be enqueued, or
\* has one notification, or is complete.
NoteIsQueued(d, p) == Notification(d, p) \in mJobQueue
NoteFrames(d, p) == {x \in FramePlaces : JobOf(x) = Notification(d, p)}
NoteDelays(d, p) == {z \in DelayPlaces : DelayedJob(z) = Notification(d, p)}
NoteLives(d, p) == NoteIsQueued(d, p) \/ NoteFrames(d, p) # {} \/ NoteDelays(d, p) # {}
IsToCome(d, p) == \E x \in Preparing(d) : PcOf(x) = "enqueue" /\ AtOf(x) <= p
EntriesOf(d) == {p \in Priorities : Relevant(d, p) # {}}
Completed(d) == {p \in EntriesOf(d) : ~ NoteLives(d, p) /\ ~ IsToCome(d, p)}
Entries == 0 .. DIRECT_STORAGE_QUEUE_CAPACITY - 1

DirectFrame(x) ==
    /\ JobOf(x).kind = "prepare" =>
          /\ PcOf(x) \in {"start", "enqueue"}
          /\ PcOf(x) = "enqueue" => AtOf(x) \in 1 .. PRIORITY_COUNT + 1
    /\ JobOf(x).kind = "load" => PcOf(x) \in {"start", "get", "decompress", "leave"}
DirectFrames == \A x \in FramePlaces : DirectFrame(x)
Decompressing == {x \in FramePlaces : JobOf(x).kind = "load" /\ PcOf(x) = "decompress"}
OneDecompression ==
    /\ \A x \in Decompressing : AtOf(x) \in read \ (loaded \cup decompression)
    /\ \A x, y \in Decompressing : AtOf(x) = AtOf(y) => x = y
    /\ loaded \cup decompression \subseteq read /\ loaded \cap decompression = {}
StatusTypes ==
    /\ statusArr \in [Priorities -> [Entries -> SUBSET Requests]]
    /\ enqueued \in [Priorities -> SUBSET Requests]
    /\ mCurrStatusArrayEntryIndex \in [Priorities -> Entries]
    /\ \A p \in Priorities, i \in Entries : statusArr[p][i] \subseteq enqueued[p]
NoDelayedPrepare == \A z \in DelayPlaces : DelayedJob(z).kind # "prepare"
DirectTypes ==
    /\ mRequestQueueArr = [p \in Priorities |-> <<>>]
    /\ mNumStatusArrayEntriesCompleted \in [Dependencies -> Int]
    /\ DirectFrames /\ OneDecompression /\ StatusTypes
    /\ NoDelayedPrepare
OneNote(d, p) ==
    /\ \A x, y \in NoteFrames(d, p) : x = y
    /\ \A x, y \in NoteDelays(d, p) : x = y
    /\ NoteIsQueued(d, p) => NoteFrames(d, p) = {} /\ NoteDelays(d, p) = {}
    /\ NoteFrames(d, p) # {} => NoteDelays(d, p) = {}
    /\ NoteLives(d, p) => Started(d) /\ p \in EntriesOf(d) /\ ~ IsToCome(d, p)
NoteFollows(d, p) ==
    /\ NoteIsQueued(d, p) \/ NoteFrames(d, p) # {} => Relevant(d, p) \subseteq loaded
    /\ \A z \in NoteDelays(d, p) : \E i \in Entries :
          DelayedEvent(z) = StatusEntry(p, i) /\ Relevant(d, p) \subseteq statusArr[p][i]
NotesAreRight == \A d \in Dependencies, p \in Priorities : OneNote(d, p) /\ NoteFollows(d, p)
EntriesAreCounted ==
    /\ \A d \in Dependencies :
          IF Started(d)
          THEN /\ mNumStatusArrayEntriesCompleted[d] = Cardinality(Completed(d))
               /\ \A p \in Completed(d) : Relevant(d, p) \subseteq loaded
          ELSE mNumStatusArrayEntriesCompleted[d] = 0
    /\ mAssetRequestFinished \subseteq {d \in Dependencies : Started(d) /\ Completed(d) = EntriesOf(d)}
DirectInv ==
    /\ DirectTypes /\ EntriesAreCounted
    /\ NotesAreRight

LoadingInv ==
    /\ LoaderInv /\ PreparedOnce
    /\ mRequestHandlerPtr \in {"Win32", "DirectStorage"}
    /\ mRequestHandlerPtr = "Win32" => Win32Inv
    /\ mRequestHandlerPtr = "DirectStorage" => DirectInv

-----------------------------------------------------------------------------
(* What the operations on stacks and delayed jobs do to these places.          *)

Kept(x) == JobOf(x)' = JobOf(x) /\ PcOf(x)' = PcOf(x) /\ AtOf(x)' = AtOf(x)
\* x is where t has its job; x goes on elsewhere, or is over; or a job comes to x.
IsTop(t, x) == /\ x \in FramePlaces /\ x = Place(t)
               /\ JobOf(x) = Top(t).job /\ PcOf(x) = Top(t).pc /\ AtOf(x) = Top(t).at
Moves(x, pc, at) ==
    /\ FramePlaces' = FramePlaces /\ \A y \in FramePlaces \ {x} : Kept(y)
    /\ JobOf(x)' = JobOf(x) /\ PcOf(x)' = pc /\ AtOf(x)' = at
Leaves(x) == FramePlaces' = FramePlaces \ {x} /\ \A y \in FramePlaces \ {x} : Kept(y)
Comes(x, j) ==
    /\ x \notin FramePlaces /\ FramePlaces' = FramePlaces \cup {x}
    /\ \A y \in FramePlaces : Kept(y)
    /\ JobOf(x)' = j /\ PcOf(x)' = "start" /\ AtOf(x)' = 0
DelayKept(z) == DelayedJob(z)' = DelayedJob(z) /\ DelayedEvent(z)' = DelayedEvent(z)
DelayComes(z, e, j) ==
    /\ z \notin DelayPlaces /\ DelayPlaces' = DelayPlaces \cup {z}
    /\ \A y \in DelayPlaces : DelayKept(y)
    /\ DelayedJob(z)' = j /\ DelayedEvent(z)' = e
\* The others are where they were, or have moved up.
DelayLeaves(z) ==
    /\ z \in DelayPlaces
    /\ \E old \in [DelayPlaces' -> DelayPlaces \ {z}] :
          /\ \A x, y \in DelayPlaces' : old[x] = old[y] => x = y
          /\ \A y \in DelayPlaces' : /\ DelayedJob(y)' = DelayedJob(old[y])
                                     /\ DelayedEvent(y)' = DelayedEvent(old[y])
          /\ \A y \in DelayPlaces \ {z} : \E x \in DelayPlaces' : old[x] = y

LEMMA TopPlace ==
    ASSUME StackTypes, NEW t \in Threads, stack[t] # <<>>
    PROVE  \E x : IsTop(t, x)
<1>1. Len(stack[t]) \in DOMAIN stack[t] /\ Top(t) = stack[t][Len(stack[t])]
  BY TopTypes
<1>2. PICK x : x = Place(t)
  OBVIOUS
<1>3. x[1] = t /\ x[2] = Len(stack[t]) /\ x = <<t, Len(stack[t])>>
  BY <1>2 DEF Place
<1>4. x \in FramePlaces
  BY <1>1, <1>3 DEF FramePlaces
<1> QED BY <1>1, <1>2, <1>3, <1>4 DEF IsTop, JobOf, PcOf, AtOf

\* Places of frames, as pairs.
LEMMA PlacesOfFrames ==
    ASSUME StackTypes, NEW x
    PROVE  x \in FramePlaces <=> /\ x = <<x[1], x[2]>> /\ x[1] \in Threads
                                 /\ x[2] \in DOMAIN stack[x[1]]
BY DEF FramePlaces

\* The frame on top of a stack changes, and goes on with the same job.
LEMMA TopMoves ==
    ASSUME StackTypes, NEW t \in Threads, NEW x, IsTop(t, x), stack[t] # <<>>,
           NEW g, g.job = Top(t).job,
           stack' = [stack EXCEPT ![t] = [stack[t] EXCEPT ![Len(stack[t])] = g]]
    PROVE  Moves(x, g.pc, g.at)
<1>1. PICK k : k = Len(stack[t])
  OBVIOUS
<1>2. k \in DOMAIN stack[t] /\ x = <<t, k>> /\ x[1] = t /\ x[2] = k
  BY <1>1, TopTypes DEF IsTop, Place
<1>3. /\ \A u \in Threads : DOMAIN stack'[u] = DOMAIN stack[u]
      /\ \A u \in Threads : \A i \in DOMAIN stack[u] :
            stack'[u][i] = IF u = t /\ i = k THEN g ELSE stack[u][i]
  BY <1>1, <1>2 DEF StackTypes
<1>4. FramePlaces' = FramePlaces
  BY <1>3 DEF FramePlaces
<1>5. ASSUME NEW y \in FramePlaces, y # x
      PROVE  Kept(y)
  <2>1. y = <<y[1], y[2]>> /\ y[1] \in Threads /\ y[2] \in DOMAIN stack[y[1]]
    BY PlacesOfFrames
  <2>2. ~ (y[1] = t /\ y[2] = k)
    BY <1>2, <1>5, <2>1
  <2> QED BY <1>3, <2>1, <2>2 DEF Kept, JobOf, PcOf, AtOf
<1>6. stack'[t][k] = g
  BY <1>2, <1>3
<1> QED BY <1>2, <1>4, <1>5, <1>6 DEF Moves, JobOf, PcOf, AtOf, IsTop

LEMMA GotoMoves ==
    ASSUME StackTypes, NEW t \in Threads, stack[t] # <<>>, NEW x, IsTop(t, x),
           NEW pc, NEW at, Goto(t, pc, at)
    PROVE  Moves(x, pc, at)
<1>1. PICK g : /\ g.job = Top(t).job /\ g.pc = pc /\ g.at = at
               /\ stack' = [stack EXCEPT ![t] = [stack[t] EXCEPT ![Len(stack[t])] = g]]
  BY GotoTop
<1>2. Moves(x, g.pc, g.at)
  BY <1>1, TopMoves
<1> QED BY <1>1, <1>2

LEMMA LoopMoves ==
    ASSUME StackTypes, NEW t \in Threads, stack[t] # <<>>, NEW x, IsTop(t, x), Loop(t),
           NEW pc, pc = PcOf(x), NEW at, at = AtOf(x) + 1
    PROVE  Moves(x, pc, at)
<1>1. PICK g : /\ g.job = Top(t).job /\ g.pc = Top(t).pc /\ g.at = Top(t).at + 1
               /\ stack' = [stack EXCEPT ![t] = [stack[t] EXCEPT ![Len(stack[t])] = g]]
  BY LoopTop
<1>2. Moves(x, g.pc, g.at)
  BY <1>1, TopMoves
<1>3. g.pc = pc /\ g.at = at
  BY <1>1 DEF IsTop
<1> QED BY <1>2, <1>3

LEMMA WaitMoves ==
    ASSUME StackTypes, NEW t \in Threads, stack[t] # <<>>, NEW x, IsTop(t, x),
           NEW js, ExecuteJobs(t, js)
    PROVE  \E at : Moves(x, "wait", at)
<1>1. PICK g : /\ g.job = Top(t).job /\ g.pc = "wait"
               /\ stack' = [stack EXCEPT ![t] = [stack[t] EXCEPT ![Len(stack[t])] = g]]
  BY WaitTop
<1>2. Moves(x, g.pc, g.at)
  BY <1>1, TopMoves
<1> QED BY <1>1, <1>2

LEMMA PoppedLeaves ==
    ASSUME StackTypes, NEW t \in Threads, stack[t] # <<>>, NEW x, IsTop(t, x),
           \A u \in Threads :
              /\ DOMAIN stack'[u] = IF u = t THEN DOMAIN stack[t] \ {Len(stack[t])} ELSE DOMAIN stack[u]
              /\ \A i \in DOMAIN stack'[u] :
                    /\ stack'[u][i].job = stack[u][i].job
                    /\ stack'[u][i].pc = stack[u][i].pc /\ stack'[u][i].at = stack[u][i].at
    PROVE  Leaves(x)
<1>1. PICK k : k = Len(stack[t])
  OBVIOUS
<1>2. k \in DOMAIN stack[t] /\ x = <<t, k>> /\ x[1] = t /\ x[2] = k
  BY <1>1, TopTypes DEF IsTop, Place
<1>3. \A y : y \in FramePlaces' <=> /\ y = <<y[1], y[2]>> /\ y[1] \in Threads
                                    /\ y[2] \in DOMAIN stack'[y[1]]
  BY DEF FramePlaces
<1>4. \A y : y \in FramePlaces' <=> y \in FramePlaces /\ y # x
  BY <1>1, <1>2, <1>3, PlacesOfFrames
<1>5. \A y \in FramePlaces' : Kept(y)
  BY <1>3 DEF Kept, JobOf, PcOf, AtOf
<1>6. FramePlaces' = FramePlaces \ {x}
  BY <1>4
<1> QED BY <1>5, <1>6 DEF Leaves

LEMMA ReturnLeaves ==
    ASSUME StackTypes, NEW t \in Threads, stack[t] # <<>>, NEW x, IsTop(t, x), Return(t)
    PROVE  Leaves(x)
BY ReturnPopsTop, PoppedLeaves

LEMMA ReturnToLeaves ==
    ASSUME StackTypes, NEW t \in Threads, stack[t] # <<>>, NEW x, IsTop(t, x),
           NEW w, NEW d, ReturnTo(t, w, d)
    PROVE  Leaves(x)
BY ReturnToPops, PoppedLeaves

LEMMA PushedComes ==
    ASSUME StackTypes, NEW t \in Threads, NEW j,
           stack' = [stack EXCEPT ![t] = Append(stack[t], Frame(j))]
    PROVE  \E x : Comes(x, j)
<1>1. PICK s, e, k : s = stack[t] /\ e = Frame(j) /\ k = Len(stack[t]) + 1
  OBVIOUS
<1>2. e.job = j /\ e.pc = "start" /\ e.at = 0
  BY <1>1 DEF Frame
<1>3. IsSequence(s)
  BY <1>1 DEF StackTypes
<1>4. PICK r : r = Append(s, e)
  OBVIOUS
<1>5. /\ DOMAIN r = DOMAIN s \cup {k} /\ k \notin DOMAIN s
      /\ \A i \in DOMAIN s : r[i] = s[i]
      /\ r[k] = e
  BY <1>1, <1>3, <1>4, Appended
<1>6. \A u \in Threads : stack'[u] = IF u = t THEN r ELSE stack[u]
  BY <1>1, <1>4 DEF StackTypes
<1>7. PICK x : x = <<t, k>>
  OBVIOUS
<1>8. x[1] = t /\ x[2] = k
  BY <1>7
<1>9. \A y : y \in FramePlaces' <=> /\ y = <<y[1], y[2]>> /\ y[1] \in Threads
                                    /\ y[2] \in DOMAIN stack'[y[1]]
  BY DEF FramePlaces
<1>10. \A y : y \in FramePlaces' <=> y \in FramePlaces \/ y = x
  BY <1>1, <1>5, <1>6, <1>7, <1>8, <1>9, PlacesOfFrames
<1>11. x \notin FramePlaces
  BY <1>1, <1>5, <1>8, PlacesOfFrames
<1>12. ASSUME NEW y \in FramePlaces PROVE Kept(y)
  BY <1>1, <1>5, <1>6, PlacesOfFrames DEF Kept, JobOf, PcOf, AtOf
<1>13. JobOf(x)' = j /\ PcOf(x)' = "start" /\ AtOf(x)' = 0
  BY <1>2, <1>5, <1>6, <1>8 DEF JobOf, PcOf, AtOf
<1> QED BY <1>10, <1>11, <1>12, <1>13 DEF Comes

LEMMA PlacesOfDelays ==
    ASSUME NEW z
    PROVE  z \in DelayPlaces <=> /\ z = <<z[1], z[2]>> /\ z[1] \in Threads
                                 /\ z[2] \in DOMAIN mSubmissionInfoArr[z[1]]
BY DEF DelayPlaces

LEMMA DelayedComes ==
    ASSUME DelayTypes, NEW t \in Threads, NEW e, NEW j, Delay(t, e, j)
    PROVE  \E z : DelayComes(z, e, j)
<1>1. PICK s, f, k : /\ s = mSubmissionInfoArr[t] /\ f = [event |-> e, job |-> j]
                     /\ k = Len(mSubmissionInfoArr[t]) + 1
  OBVIOUS
<1>2. f.job = j /\ f.event = e
  BY <1>1
<1>3. IsSequence(s)
  BY <1>1 DEF DelayTypes
<1>4. PICK r : r = Append(s, f)
  OBVIOUS
<1>5. /\ DOMAIN r = DOMAIN s \cup {k} /\ k \notin DOMAIN s
      /\ \A i \in DOMAIN s : r[i] = s[i]
      /\ r[k] = f
  BY <1>1, <1>3, <1>4, Appended
<1>6. \A u \in Threads : mSubmissionInfoArr'[u] = IF u = t THEN r ELSE mSubmissionInfoArr[u]
  BY <1>1, <1>4 DEF DelayTypes, Delay
<1>7. PICK z : z = <<t, k>>
  OBVIOUS
<1>8. z[1] = t /\ z[2] = k
  BY <1>7
<1>9. \A y : y \in DelayPlaces' <=> /\ y = <<y[1], y[2]>> /\ y[1] \in Threads
                                    /\ y[2] \in DOMAIN mSubmissionInfoArr'[y[1]]
  BY DEF DelayPlaces
<1>10. \A y : y \in DelayPlaces' <=> y \in DelayPlaces \/ y = z
  BY <1>1, <1>5, <1>6, <1>7, <1>8, <1>9, PlacesOfDelays
<1>11. z \notin DelayPlaces
  BY <1>1, <1>5, <1>8, PlacesOfDelays
<1>12. ASSUME NEW y \in DelayPlaces PROVE DelayKept(y)
  BY <1>1, <1>5, <1>6, PlacesOfDelays DEF DelayKept, DelayedJob, DelayedEvent
<1>13. DelayedJob(z)' = j /\ DelayedEvent(z)' = e
  BY <1>2, <1>5, <1>6, <1>8 DEF DelayedJob, DelayedEvent
<1> QED BY <1>10, <1>11, <1>12, <1>13 DEF DelayComes

LEMMA SubmittedLeaves ==
    ASSUME DelayTypes, NEW t \in Threads, NEW k \in DOMAIN mSubmissionInfoArr[t],
           CheckForDelayedJobSubmission(t, k)
    PROVE  \E z : /\ DelayLeaves(z) /\ DelayedJob(z) = mSubmissionInfoArr[t][k].job
                  /\ DelayedEvent(z) = mSubmissionInfoArr[t][k].event
<1>1. PICK s : s = mSubmissionInfoArr[t]
  OBVIOUS
<1>2. PICK r : r = SubSeq(s, 1, k - 1) \o SubSeq(s, k + 1, Len(s))
  OBVIOUS
<1>3. IsSequence(s) /\ Len(s) \in Nat /\ DOMAIN s = 1 .. Len(s) /\ k \in 1 .. Len(s)
  BY <1>1, SequenceLength DEF DelayTypes
<1>4. /\ DOMAIN r = 1 .. Len(s) - 1
      /\ \A i \in DOMAIN r : r[i] = IF i < k THEN s[i] ELSE s[i + 1]
  BY <1>2, <1>3, Removed
<1>5. \A u \in Threads : mSubmissionInfoArr'[u] = IF u = t THEN r ELSE mSubmissionInfoArr[u]
  BY <1>1, <1>2 DEF DelayTypes, CheckForDelayedJobSubmission
<1>6. PICK z : z = <<t, k>>
  OBVIOUS
<1>7. z[1] = t /\ z[2] = k /\ z \in DelayPlaces
  BY <1>6, PlacesOfDelays
<1> DEFINE Old(i) == IF i < k THEN i ELSE i + 1
           old == [y \in DelayPlaces' |-> IF y[1] = t THEN <<t, Old(y[2])>> ELSE y]
<1>8. ASSUME NEW y
      PROVE  y \in DelayPlaces' <=> /\ y = <<y[1], y[2]>> /\ y[1] \in Threads
                                    /\ y[2] \in IF y[1] = t THEN DOMAIN r ELSE DOMAIN mSubmissionInfoArr[y[1]]
  BY <1>5 DEF DelayPlaces
<1>9. ASSUME NEW i \in DOMAIN r
      PROVE  /\ Old(i) \in DOMAIN s /\ Old(i) # k /\ r[i] = s[Old(i)]
             /\ \A j \in DOMAIN r : Old(i) = Old(j) => i = j
  BY <1>3, <1>4
<1>10. ASSUME NEW i \in DOMAIN s, i # k
       PROVE  \E j \in DOMAIN r : Old(j) = i
  <2>1. CASE i < k
    BY <1>3, <1>4, <2>1
  <2>2. CASE k < i
    <3>1. i - 1 \in DOMAIN r /\ Old(i - 1) = i
      BY <1>3, <1>4, <2>2
    <3> QED BY <3>1
  <2> QED BY <1>3, <1>10, <2>1, <2>2
<1> HIDE DEF Old
<1>11. ASSUME NEW y \in DelayPlaces'
       PROVE  /\ old[y] \in DelayPlaces \ {z}
              /\ DelayedJob(y)' = DelayedJob(old[y]) /\ DelayedEvent(y)' = DelayedEvent(old[y])
  <2>1. CASE y[1] # t
    <3>1. old[y] = y /\ y # z
      BY <1>7, <2>1
    <3> QED BY <1>5, <1>8, <2>1, <3>1, PlacesOfDelays DEF DelayedJob, DelayedEvent
  <2>2. CASE y[1] = t
    <3>1. PICK w : w = <<t, Old(y[2])>>
      OBVIOUS
    <3>2. w[1] = t /\ w[2] = Old(y[2]) /\ old[y] = w /\ y[2] \in DOMAIN r
      BY <1>8, <2>2, <3>1
    <3>3. w \in DelayPlaces /\ w # z
      BY <1>1, <1>7, <1>9, <3>1, <3>2, PlacesOfDelays
    <3> QED BY <1>1, <1>5, <1>9, <2>2, <3>2, <3>3 DEF DelayedJob, DelayedEvent
  <2> QED BY <2>1, <2>2
<1>12. ASSUME NEW x \in DelayPlaces', NEW y \in DelayPlaces', old[x] = old[y]
       PROVE  x = y
  <2>1. x = <<x[1], x[2]>> /\ y = <<y[1], y[2]>>
    BY <1>8
  <2>2. x[1] = y[1]
    BY <1>12
  <2>3. x[1] = t => x[2] = y[2]
    <3> HAVE x[1] = t
    <3>1. Old(x[2]) = Old(y[2]) /\ x[2] \in DOMAIN r /\ y[2] \in DOMAIN r
      BY <1>8, <1>12, <2>2
    <3> QED BY <1>9, <3>1
  <2> QED BY <1>12, <2>1, <2>2, <2>3
<1>13. ASSUME NEW y \in DelayPlaces, y # z
       PROVE  \E x \in DelayPlaces' : old[x] = y
  <2>1. y = <<y[1], y[2]>> /\ y[1] \in Threads /\ y[2] \in DOMAIN mSubmissionInfoArr[y[1]]
    BY PlacesOfDelays
  <2>2. CASE y[1] # t
    BY <1>8, <2>1, <2>2
  <2>3. CASE y[1] = t
    <3>1. PICK j \in DOMAIN r : Old(j) = y[2]
      BY <1>1, <1>6, <1>10, <1>13, <2>1, <2>3
    <3>2. PICK x : x = <<t, j>>
      OBVIOUS
    <3>3. x[1] = t /\ x[2] = j /\ x \in DelayPlaces'
      BY <1>8, <3>2
    <3>4. old[x] = y
      BY <2>1, <2>3, <3>1, <3>3
    <3> QED BY <3>3, <3>4
  <2> QED BY <2>2, <2>3
<1>14. old \in [DelayPlaces' -> DelayPlaces \ {z}]
  BY <1>11
<1> HIDE DEF old
<1>15. DelayLeaves(z)
  BY <1>7, <1>11, <1>12, <1>13, <1>14 DEF DelayLeaves
<1> QED BY <1>7, <1>15 DEF DelayedJob, DelayedEvent

-----------------------------------------------------------------------------
(* Facts about jobs and requests.                                              *)

LEMMA KindFacts ==
    /\ \A j \in Jobs :
          /\ j.kind = "prepare" => j.dependency \in Dependencies /\ j = Prepare(j.dependency)
          /\ j.kind = "notification" =>
                /\ j.dependency \in Dependencies /\ j.priority \in Priorities
                /\ j = Notification(j.dependency, j.priority)
          /\ j.kind = "begin" <=> j = BeginLoading
          /\ j.kind \in {"begin", "prepare", "load", "notification"}
    /\ \A d : Prepare(d).kind = "prepare" /\ Prepare(d).dependency = d
    /\ \A d, p : /\ Notification(d, p).kind = "notification"
                 /\ Notification(d, p).dependency = d /\ Notification(d, p).priority = p
    /\ BeginLoading.kind = "begin"
<1>1. ASSUME NEW j \in Jobs
      PROVE  /\ j.kind = "prepare" => j.dependency \in Dependencies /\ j = Prepare(j.dependency)
             /\ j.kind = "notification" =>
                   /\ j.dependency \in Dependencies /\ j.priority \in Priorities
                   /\ j = Notification(j.dependency, j.priority)
             /\ j.kind = "begin" <=> j = BeginLoading
             /\ j.kind \in {"begin", "prepare", "load", "notification"}
  <2>1. CASE j = BeginLoading
    BY <2>1 DEF BeginLoading
  <2>2. CASE j \in [kind : {"prepare"}, dependency : Dependencies]
    BY <2>2 DEF Prepare, BeginLoading
  <2>3. CASE j.kind = "load"
    BY <2>3 DEF BeginLoading
  <2>4. CASE j \in [kind : {"notification"}, dependency : Dependencies, priority : Priorities]
    BY <2>4 DEF Notification, BeginLoading
  <2> QED BY <2>1, <2>2, <2>3, <2>4 DEF Jobs
<1>2. \A d : Prepare(d).kind = "prepare" /\ Prepare(d).dependency = d
  BY DEF Prepare
<1>3. \A d, p : /\ Notification(d, p).kind = "notification"
               /\ Notification(d, p).dependency = d /\ Notification(d, p).priority = p
  BY DEF Notification
<1>4. BeginLoading.kind = "begin"
  BY DEF BeginLoading
<1> QED BY <1>1, <1>2, <1>3, <1>4

LEMMA FramesHaveJobs ==
    ASSUME StackTypes, NEW x \in FramePlaces
    PROVE  JobOf(x) \in Jobs
BY PlacesOfFrames DEF StackTypes, IsFrame, JobOf

LEMMA RequestFacts ==
    /\ PRIORITY_COUNT \in Nat \ {0}
    /\ \A d \in Dependencies :
          /\ Len(RequestsOf[d]) \in Nat /\ DOMAIN RequestsOf[d] = 1 .. Len(RequestsOf[d])
          /\ \A i \in 1 .. Len(RequestsOf[d]) : RequestsOf[d][i] \in Of(d)
          /\ \A r \in Of(d) : \E i \in 1 .. Len(RequestsOf[d]) : r = RequestsOf[d][i]
          /\ \A i, j \in 1 .. Len(RequestsOf[d]) : RequestsOf[d][i] = RequestsOf[d][j] => i = j
          /\ Of(d) \subseteq Requests
    /\ \A d, e \in Dependencies : \A r \in Of(d) : r \in Of(e) => d = e
    /\ \A r \in Requests : Priority[r] \in Priorities
<1>1. ASSUME NEW d \in Dependencies
      PROVE  /\ Len(RequestsOf[d]) \in Nat /\ DOMAIN RequestsOf[d] = 1 .. Len(RequestsOf[d])
             /\ Of(d) \subseteq Requests
  <2>1. RequestsOf[d] \in Seq(Requests)
    BY AssetRequestsAssumption
  <2> QED BY <2>1, LenProperties DEF Of
<1>2. \A d, e \in Dependencies : \A i \in DOMAIN RequestsOf[d], j \in DOMAIN RequestsOf[e] :
         RequestsOf[d][i] = RequestsOf[e][j] => d = e /\ i = j
  BY AssetRequestsAssumption
<1>3. \A d, e \in Dependencies : \A r \in Of(d) : r \in Of(e) => d = e
  BY <1>2 DEF Of
<1>4. PRIORITY_COUNT \in Nat \ {0} /\ \A r \in Requests : Priority[r] \in Priorities
  BY AssetRequestsAssumption
<1>5. ASSUME NEW d \in Dependencies
      PROVE  /\ \A i \in 1 .. Len(RequestsOf[d]) : RequestsOf[d][i] \in Of(d)
             /\ \A r \in Of(d) : \E i \in 1 .. Len(RequestsOf[d]) : r = RequestsOf[d][i]
             /\ \A i, j \in 1 .. Len(RequestsOf[d]) : RequestsOf[d][i] = RequestsOf[d][j] => i = j
  BY <1>1, <1>2 DEF Of
<1> QED BY <1>1, <1>3, <1>4, <1>5

LEMMA OfIsFinite ==
    ASSUME NEW d \in Dependencies
    PROVE  IsFiniteSet(Of(d)) /\ Cardinality(Of(d)) = Len(RequestsOf[d])
<1> DEFINE n == Len(RequestsOf[d])
           f == [i \in 1 .. n |-> RequestsOf[d][i]]
<1>1. /\ n \in Nat /\ \A i \in 1 .. n : RequestsOf[d][i] \in Of(d)
      /\ \A r \in Of(d) : \E i \in 1 .. n : r = RequestsOf[d][i]
      /\ \A i, j \in 1 .. n : RequestsOf[d][i] = RequestsOf[d][j] => i = j
  BY RequestFacts
<1>2. f \in Bijection(1 .. n, Of(d))
  <2>1. f \in [1 .. n -> Of(d)]
    BY <1>1
  <2>2. \A i, j \in 1 .. n : f[i] = f[j] => i = j
    BY <1>1
  <2>3. \A r \in Of(d) : \E i \in 1 .. n : f[i] = r
    BY <1>1
  <2> HIDE DEF f, n
  <2> QED BY <2>1, <2>2, <2>3 DEF Bijection, Injection, Surjection, IsInjective
<1>3. IsFiniteSet(1 .. n) /\ Cardinality(1 .. n) = n
  BY <1>1, FS_Interval
<1> HIDE DEF f, n
<1>4. ExistsBijection(1 .. n, Of(d))
  BY <1>2 DEF ExistsBijection
<1>5. IsFiniteSet(Of(d)) /\ Cardinality(Of(d)) = Cardinality(1 .. n)
  BY <1>3, <1>4, FS_Bijection
<1> QED BY <1>3, <1>5 DEF n

LEMMA DependencyFound ==
    ASSUME NEW d \in Dependencies, NEW r \in Of(d)
    PROVE  DependencyOf(r) = d
BY RequestFacts DEF DependencyOf

-----------------------------------------------------------------------------
(* The preparation of dependencies.                                            *)

StartedStays == \A d \in Dependencies : Started(d)' <=> Started(d)

\* No preparation changes.
PreparesStay ==
    \A d \in Dependencies :
        /\ Preparing(d)' = Preparing(d) /\ (IsQueuedFor(d)' <=> IsQueuedFor(d))
        /\ \A x \in Preparing(d) : PcOf(x)' = PcOf(x) /\ AtOf(x)' = AtOf(x)

LEMMA PreparedStays ==
    ASSUME PreparedOnce, PreparesStay, UNCHANGED requested,
           mActive' \cup deleted' \subseteq mActive \cup deleted,
           deleted' \subseteq deleted \cup mAssetRequestFinished,
           mAssetRequestFinished \subseteq mAssetRequestFinished'
    PROVE  PreparedOnce' /\ StartedStays
<1>1. StartedStays
  BY DEF StartedStays, PreparesStay, Started
<1>2. PreparedOnce'
  <2>1. ASSUME NEW d \in Dependencies
        PROVE  /\ \A x, y \in Preparing(d)' : x = y
               /\ IsQueuedFor(d)' => Preparing(d)' = {}
               /\ IsQueuedFor(d)' \/ Preparing(d)' # {} => d \in requested'
    BY DEF PreparesStay, PreparedOnce
  <2>2. ASSUME NEW d \in mActive' \cup deleted'
        PROVE  d \in Dependencies /\ Started(d)' /\ \A x \in Preparing(d)' : PcOf(x)' = "store"
    <3>1. d \in mActive \cup deleted /\ d \in Dependencies
      BY DEF PreparedOnce
    <3> QED BY <1>1, <3>1 DEF PreparesStay, PreparedOnce, StartedStays
  <2>3. requested' \subseteq Dependencies /\ deleted' \subseteq mAssetRequestFinished'
    BY DEF PreparedOnce
  <2> QED BY <2>1, <2>2, <2>3 DEF PreparedOnce
<1> QED BY <1>1, <1>2

\* A preparation begins or goes on.
LEMMA PreparedMoves ==
    ASSUME PreparedOnce, NEW d \in Dependencies, NEW x \in Preparing(d), PcOf(x) # "store",
           NEW pc, NEW at, Moves(x, pc, at), pc # "start",
           UNCHANGED <<requested, deleted, mJobQueue>>,
           mActive' \subseteq mActive \cup (IF pc = "store" THEN {d} ELSE {}),
           mAssetRequestFinished \subseteq mAssetRequestFinished'
    PROVE  /\ PreparedOnce'
           /\ \A e \in Dependencies : Started(e)' <=> Started(e) \/ e = d
           /\ \A e \in Dependencies : Preparing(e)' = Preparing(e)
           /\ Preparing(d) = {x}
           /\ \A e \in Dependencies : \A y \in Preparing(e) : e # d => y # x /\ Kept(y)
<1>1. x \in FramePlaces /\ JobOf(x) = Prepare(d)
  BY DEF Preparing
<1>2. \A e \in Dependencies : Preparing(e)' = Preparing(e)
  BY <1>1 DEF Preparing, Moves, Kept
<1>3. Preparing(d) = {x} /\ d \in requested /\ ~ IsQueuedFor(d)
  BY DEF PreparedOnce
<1>4. \A e \in Dependencies : \A y \in Preparing(e) : e # d => y # x /\ Kept(y)
  BY <1>1, KindFacts DEF Preparing, Moves
<1>5. \A e \in Dependencies : IsQueuedFor(e)' <=> IsQueuedFor(e)
  BY DEF IsQueuedFor
<1>6. PcOf(x)' = pc
  BY DEF Moves
<1>7. \A e \in Dependencies : Started(e)' <=> Started(e) \/ e = d
  <2>1. Started(d)'
    BY <1>2, <1>3, <1>5, <1>6 DEF Started
  <2>2. ASSUME NEW e \in Dependencies, e # d PROVE Started(e)' <=> Started(e)
    BY <1>2, <1>4, <1>5, <2>2 DEF Started, Kept
  <2> QED BY <2>1, <2>2
<1>8. d \notin mActive \cup deleted
  BY DEF PreparedOnce
<1>9. PreparedOnce'
  <2>1. ASSUME NEW e \in Dependencies
        PROVE  /\ \A y, z \in Preparing(e)' : y = z
               /\ IsQueuedFor(e)' => Preparing(e)' = {}
               /\ IsQueuedFor(e)' \/ Preparing(e)' # {} => e \in requested'
    BY <1>2, <1>5 DEF PreparedOnce
  <2>2. ASSUME NEW e \in mActive' \cup deleted'
        PROVE  e \in Dependencies /\ Started(e)' /\ \A y \in Preparing(e)' : PcOf(y)' = "store"
    <3>1. CASE e = d
      BY <1>2, <1>3, <1>6, <1>7, <1>8, <2>2, <3>1
    <3>2. CASE e # d
      <4>1. e \in mActive \cup deleted /\ e \in Dependencies
        BY <2>2, <3>2 DEF PreparedOnce
      <4> QED BY <1>2, <1>4, <1>7, <3>2, <4>1 DEF PreparedOnce, Kept
    <3> QED BY <3>1, <3>2
  <2>3. requested' \subseteq Dependencies /\ deleted' \subseteq mAssetRequestFinished'
    BY DEF PreparedOnce
  <2> QED BY <2>1, <2>2, <2>3 DEF PreparedOnce
<1> QED BY <1>2, <1>3, <1>4, <1>7, <1>9

\* A preparation is over.
LEMMA PreparedLeaves ==
    ASSUME PreparedOnce, NEW d \in Dependencies, NEW x \in Preparing(d), Leaves(x),
           UNCHANGED <<requested, deleted, mJobQueue>>, mActive' \subseteq mActive \cup {d},
           mAssetRequestFinished \subseteq mAssetRequestFinished'
    PROVE  /\ PreparedOnce'
           /\ \A e \in Dependencies : Started(e)' <=> Started(e) \/ e = d
           /\ \A e \in Dependencies : Preparing(e)' = IF e = d THEN {} ELSE Preparing(e)
           /\ \A e \in Dependencies : \A y \in Preparing(e) : e # d => y # x /\ Kept(y)
<1>1. x \in FramePlaces /\ JobOf(x) = Prepare(d)
  BY DEF Preparing
<1>2. Preparing(d) = {x} /\ d \in requested /\ ~ IsQueuedFor(d)
  BY DEF PreparedOnce
<1>3. \A e \in Dependencies : Preparing(e)' = IF e = d THEN {} ELSE Preparing(e)
  <2>1. \A e \in Dependencies : Preparing(e)' = Preparing(e) \ {x}
    BY DEF Preparing, Leaves, Kept
  <2>2. \A e \in Dependencies : e # d => x \notin Preparing(e)
    BY <1>1, KindFacts DEF Preparing
  <2> QED BY <1>2, <2>1, <2>2
<1>4. \A e \in Dependencies : \A y \in Preparing(e) : e # d => y # x /\ Kept(y)
  BY <1>1, KindFacts DEF Preparing, Leaves
<1>5. \A e \in Dependencies : IsQueuedFor(e)' <=> IsQueuedFor(e)
  BY DEF IsQueuedFor
<1>6. \A e \in Dependencies : Started(e)' <=> Started(e) \/ e = d
  <2>1. Started(d)'
    BY <1>2, <1>3, <1>5 DEF Started
  <2>2. ASSUME NEW e \in Dependencies, e # d PROVE Started(e)' <=> Started(e)
    BY <1>3, <1>4, <1>5, <2>2 DEF Started, Kept
  <2> QED BY <2>1, <2>2
<1>7. PreparedOnce'
  <2>1. ASSUME NEW e \in Dependencies
        PROVE  /\ \A y, z \in Preparing(e)' : y = z
               /\ IsQueuedFor(e)' => Preparing(e)' = {}
               /\ IsQueuedFor(e)' \/ Preparing(e)' # {} => e \in requested'
    BY <1>3, <1>5 DEF PreparedOnce
  <2>2. ASSUME NEW e \in mActive' \cup deleted'
        PROVE  e \in Dependencies /\ Started(e)' /\ \A y \in Preparing(e)' : PcOf(y)' = "store"
    <3>1. CASE e = d
      BY <1>3, <1>6, <3>1
    <3>2. CASE e # d
      <4>1. e \in mActive \cup deleted /\ e \in Dependencies
        BY <2>2, <3>2 DEF PreparedOnce
      <4> QED BY <1>3, <1>4, <1>6, <3>2, <4>1 DEF PreparedOnce, Kept
    <3> QED BY <3>1, <3>2
  <2>3. requested' \subseteq Dependencies /\ deleted' \subseteq mAssetRequestFinished'
    BY DEF PreparedOnce
  <2> QED BY <2>1, <2>2, <2>3 DEF PreparedOnce
<1> QED BY <1>3, <1>4, <1>6, <1>7

-----------------------------------------------------------------------------
(* What a step leaves as it is.                                                *)

LEMMA TopAt ==
    ASSUME StackTypes, NEW t \in Threads, NEW kind, NEW pc, At(t, kind, pc)
    PROVE  /\ stack[t] # <<>>
           /\ \E x \in FramePlaces :
                 /\ IsTop(t, x) /\ JobOf(x) \in Jobs /\ JobOf(x).kind = kind /\ PcOf(x) = pc
                 /\ JobOf(x) = Top(t).job /\ AtOf(x) = Top(t).at
BY TopPlace, FramesHaveJobs DEF At, IsTop

QueuedStay == \A d \in Dependencies : IsQueuedFor(d)' <=> IsQueuedFor(d)

\* Jobs that prepare nothing.
LEMMA OthersMove ==
    ASSUME NEW x \in FramePlaces, JobOf(x).kind # "prepare", NEW pc, NEW at, Moves(x, pc, at),
           QueuedStay
    PROVE  PreparesStay
<1>1. ASSUME NEW d \in Dependencies
      PROVE  /\ Preparing(d)' = Preparing(d)
             /\ \A y \in Preparing(d) : PcOf(y)' = PcOf(y) /\ AtOf(y)' = AtOf(y)
  <2>1. x \notin Preparing(d) /\ x \notin Preparing(d)'
    BY KindFacts DEF Preparing, Moves
  <2> QED BY <2>1 DEF Preparing, Moves, Kept
<1> QED BY <1>1 DEF PreparesStay, QueuedStay

LEMMA OthersLeave ==
    ASSUME NEW x \in FramePlaces, JobOf(x).kind # "prepare", Leaves(x), QueuedStay
    PROVE  PreparesStay
<1>1. ASSUME NEW d \in Dependencies
      PROVE  /\ Preparing(d)' = Preparing(d)
             /\ \A y \in Preparing(d) : PcOf(y)' = PcOf(y) /\ AtOf(y)' = AtOf(y)
  <2>1. x \notin Preparing(d)
    BY KindFacts DEF Preparing
  <2> QED BY <2>1 DEF Preparing, Leaves, Kept
<1> QED BY <1>1 DEF PreparesStay, QueuedStay

LEMMA OthersCome ==
    ASSUME NEW x, NEW j, j.kind # "prepare", Comes(x, j), QueuedStay
    PROVE  PreparesStay
<1>1. ASSUME NEW d \in Dependencies
      PROVE  /\ Preparing(d)' = Preparing(d)
             /\ \A y \in Preparing(d) : PcOf(y)' = PcOf(y) /\ AtOf(y)' = AtOf(y)
  <2>1. x \notin Preparing(d)'
    BY KindFacts DEF Preparing, Comes
  <2> QED BY <2>1 DEF Preparing, Comes, Kept
<1> QED BY <1>1 DEF PreparesStay, QueuedStay

LEMMA NothingPrepares ==
    ASSUME UNCHANGED stack, QueuedStay
    PROVE  PreparesStay
BY DEF PreparesStay, QueuedStay, Preparing, FramePlaces, JobOf, PcOf, AtOf

\* A preparation is taken.
LEMMA PrepareComes ==
    ASSUME PreparedOnce, NEW d \in Dependencies, IsQueuedFor(d), NEW x, Comes(x, Prepare(d)),
           mJobQueue' = mJobQueue \ {Prepare(d)},
           UNCHANGED <<requested, mActive, deleted, mAssetRequestFinished>>
    PROVE  /\ PreparedOnce' /\ StartedStays
           /\ Preparing(d) = {} /\ Preparing(d)' = {x} /\ PcOf(x)' = "start"
           /\ \A e \in Dependencies : e # d => Preparing(e)' = Preparing(e)
           /\ \A e \in Dependencies : \A y \in Preparing(e) : Kept(y)
<1>1. Preparing(d) = {} /\ d \in requested
  BY DEF PreparedOnce
<1>2. ASSUME NEW e \in Dependencies
      PROVE  Preparing(e)' = IF e = d THEN {x} ELSE Preparing(e)
  <2>1. \A y \in FramePlaces : JobOf(y)' = JobOf(y)
    BY DEF Comes, Kept
  <2>2. JobOf(x)' = Prepare(d) /\ FramePlaces' = FramePlaces \cup {x} /\ x \notin FramePlaces
    BY DEF Comes
  <2>3. Prepare(d) = Prepare(e) <=> e = d
    BY KindFacts
  <2> QED BY <1>1, <2>1, <2>2, <2>3 DEF Preparing
<1>3. \A e \in Dependencies : \A y \in Preparing(e) : Kept(y)
  BY DEF Preparing, Comes
<1>4. ASSUME NEW e \in Dependencies
      PROVE  IsQueuedFor(e)' <=> IsQueuedFor(e) /\ e # d
  BY KindFacts DEF IsQueuedFor
<1>5. PcOf(x)' = "start"
  BY DEF Comes
<1>6. ASSUME NEW e \in Dependencies
      PROVE  Started(e)' <=> Started(e)
  <2>1. CASE e = d
    BY <1>2, <1>5, <2>1 DEF Started
  <2>2. CASE e # d
    BY <1>2, <1>3, <1>4, <2>2 DEF Started, Kept
  <2> QED BY <2>1, <2>2
<1>7. PreparedOnce'
  <2>1. ASSUME NEW e \in Dependencies
        PROVE  /\ \A y, z \in Preparing(e)' : y = z
               /\ IsQueuedFor(e)' => Preparing(e)' = {}
               /\ IsQueuedFor(e)' \/ Preparing(e)' # {} => e \in requested'
    BY <1>1, <1>2, <1>4 DEF PreparedOnce
  <2>2. ASSUME NEW e \in mActive' \cup deleted'
        PROVE  e \in Dependencies /\ Started(e)' /\ \A y \in Preparing(e)' : PcOf(y)' = "store"
    <3>1. e \in Dependencies /\ Started(e) /\ e # d
      BY DEF PreparedOnce, Started
    <3> QED BY <1>2, <1>3, <1>6, <3>1 DEF PreparedOnce, Kept
  <2>3. requested' \subseteq Dependencies /\ deleted' \subseteq mAssetRequestFinished'
    BY DEF PreparedOnce
  <2> QED BY <2>1, <2>2, <2>3 DEF PreparedOnce
<1> QED BY <1>1, <1>2, <1>3, <1>5, <1>6, <1>7 DEF StartedStays

\* A preparation is asked for.
LEMMA PrepareIsQueued ==
    ASSUME PreparedOnce, NEW d \in Dependencies, d \notin requested,
           requested' = requested \cup {d}, mJobQueue' = mJobQueue \cup {Prepare(d)},
           UNCHANGED <<stack, mActive, deleted, mAssetRequestFinished>>
    PROVE  /\ PreparedOnce' /\ StartedStays
           /\ \A e \in Dependencies : Preparing(e)' = Preparing(e)
           /\ \A e \in Dependencies : \A y \in Preparing(e) : Kept(y)
<1>1. /\ \A e \in Dependencies : Preparing(e)' = Preparing(e)
      /\ \A e \in Dependencies : \A y \in Preparing(e) : Kept(y)
  BY DEF Preparing, FramePlaces, Kept, JobOf, PcOf, AtOf
<1>2. ASSUME NEW e \in Dependencies
      PROVE  IsQueuedFor(e)' <=> IsQueuedFor(e) \/ e = d
  BY KindFacts DEF IsQueuedFor
<1>3. ASSUME NEW e \in Dependencies
      PROVE  Started(e)' <=> Started(e)
  BY <1>1, <1>2 DEF Started, Kept
<1>4. PreparedOnce'
  <2>1. ASSUME NEW e \in Dependencies
        PROVE  /\ \A y, z \in Preparing(e)' : y = z
               /\ IsQueuedFor(e)' => Preparing(e)' = {}
               /\ IsQueuedFor(e)' \/ Preparing(e)' # {} => e \in requested'
    BY <1>1, <1>2 DEF PreparedOnce
  <2>2. ASSUME NEW e \in mActive' \cup deleted'
        PROVE  e \in Dependencies /\ Started(e)' /\ \A y \in Preparing(e)' : PcOf(y)' = "store"
    <3>1. e \in Dependencies /\ Started(e)
      BY DEF PreparedOnce
    <3> QED BY <1>1, <1>3, <3>1 DEF PreparedOnce, Kept
  <2>3. requested' \subseteq Dependencies /\ deleted' \subseteq mAssetRequestFinished'
    BY DEF PreparedOnce
  <2> QED BY <2>1, <2>2, <2>3 DEF PreparedOnce
<1> QED BY <1>1, <1>3, <1>4 DEF StartedStays

-----------------------------------------------------------------------------
(* The requests of the Win32 handler.                                          *)

LoadersStay  == \A r : Loaders(r)' = Loaders(r)
UnpushedStay == \A d \in Dependencies, r \in AllOf : IsUnpushed(d, r)' <=> IsUnpushed(d, r)
HasRequest(pc) == pc \in {"loading", "notify"}

LEMMA LoadersMove ==
    ASSUME NEW x \in FramePlaces, NEW pc, NEW at, Moves(x, pc, at),
           JobOf(x).kind = "load" =>
              \/ ~ HasRequest(pc) /\ ~ HasRequest(PcOf(x))
              \/ HasRequest(pc) /\ HasRequest(PcOf(x)) /\ at = AtOf(x)
    PROVE  LoadersStay
<1>1. ASSUME NEW r, NEW y \in FramePlaces
      PROVE  y \in Loaders(r)' <=> y \in Loaders(r)
  BY DEF Loaders, Moves, Kept, HasRequest
<1> QED BY <1>1 DEF LoadersStay, Loaders, Moves

LEMMA LoadersLeave ==
    ASSUME NEW x \in FramePlaces, Leaves(x), JobOf(x).kind = "load" => ~ HasRequest(PcOf(x))
    PROVE  LoadersStay
<1>1. ASSUME NEW r, NEW y \in FramePlaces
      PROVE  y \in Loaders(r)' <=> y \in Loaders(r)
  BY DEF Loaders, Leaves, Kept, HasRequest
<1> QED BY <1>1 DEF LoadersStay, Loaders, Leaves

LEMMA LoadersCome ==
    ASSUME NEW x, NEW j, Comes(x, j)
    PROVE  LoadersStay
<1>1. ASSUME NEW r, NEW y \in FramePlaces'
      PROVE  y \in Loaders(r)' <=> y \in Loaders(r)
  BY DEF Loaders, Comes, Kept
<1> QED BY <1>1 DEF LoadersStay, Loaders, Comes

LEMMA UnpushedAsPrepared ==
    ASSUME PreparesStay
    PROVE  UnpushedStay
<1>1. ASSUME NEW d \in Dependencies, NEW r
      PROVE  IsUnpushed(d, r)' <=> IsUnpushed(d, r)
  BY DEF PreparesStay, IsUnpushed
<1> QED BY <1>1 DEF UnpushedStay

LEMMA CountStays ==
    ASSUME RequestsAreCounted, StartedStays, \A d \in Dependencies : Outstanding(d)' = Outstanding(d),
           UNCHANGED <<mActiveRequestCounter, mAssetRequestFinished>>, loaded \subseteq loaded'
    PROVE  RequestsAreCounted'
<1>1. ASSUME NEW d \in Dependencies
      PROVE  IF Started(d)' THEN /\ mActiveRequestCounter'[d] = Cardinality(Outstanding(d)')
                                 /\ Of(d) \ Outstanding(d)' \subseteq loaded'
                            ELSE mActiveRequestCounter'[d] = 0
  BY DEF RequestsAreCounted, StartedStays
<1>2. mAssetRequestFinished' \subseteq {d \in Dependencies : Started(d)' /\ Outstanding(d)' = {}}
  BY DEF RequestsAreCounted, StartedStays
<1> QED BY <1>1, <1>2 DEF RequestsAreCounted

LEMMA RequestsStay ==
    ASSUME OnePlace, RequestsAreCounted, StartedStays, LoadersStay, UnpushedStay,
           UNCHANGED <<mRequestQueueArr, mActiveRequestCounter, mAssetRequestFinished>>,
           loaded \subseteq loaded'
    PROVE  OnePlace' /\ RequestsAreCounted'
<1>1. QueuePlaces' = QueuePlaces /\ \A y : QueuedAt(y)' = QueuedAt(y)
  BY DEF QueuePlaces, QueuedAt
<1>2. \A r : InQueue(r)' <=> InQueue(r)
  BY <1>1 DEF InQueue
<1>3. \A d \in Dependencies : \A r \in Of(d) : r \in AllOf
  BY DEF AllOf
<1>4. ASSUME NEW d \in Dependencies PROVE Outstanding(d)' = Outstanding(d)
  BY <1>2, <1>3 DEF Outstanding, LoadersStay, UnpushedStay
<1>5. OnePlace'
  <2>1. \A y, z \in QueuePlaces' : QueuedAt(y)' = QueuedAt(z)' => y = z
    BY <1>1 DEF OnePlace
  <2>2. ASSUME NEW d \in Dependencies, NEW r \in Of(d)
        PROVE  /\ \A x, y \in Loaders(r)' : x = y
               /\ InQueue(r)' => Loaders(r)' = {}
               /\ InQueue(r)' \/ Loaders(r)' # {} => Started(d)' /\ ~ IsUnpushed(d, r)'
    BY <1>2, <1>3 DEF OnePlace, LoadersStay, UnpushedStay, StartedStays
  <2> QED BY <2>1, <2>2 DEF OnePlace
<1> QED BY <1>4, <1>5, CountStays

\* One frame goes on, one is over, one begins.
LEMMA Win32FramesMove ==
    ASSUME Win32Frames, NEW x \in FramePlaces, NEW pc, NEW at, Moves(x, pc, at),
           JobOf(x).kind = "prepare" => Win32Prepare(JobOf(x).dependency, x)',
           JobOf(x).kind = "load" => Win32Load(x)', loaded \subseteq loaded'
    PROVE  Win32Frames'
<1>1. ASSUME NEW y \in FramePlaces
      PROVE  /\ JobOf(y)'.kind # "notification"
             /\ JobOf(y)'.kind = "prepare" => Win32Prepare(JobOf(y).dependency, y)'
             /\ JobOf(y)'.kind = "load" => Win32Load(y)'
  <2>1. CASE y = x
    BY <2>1 DEF Moves, Win32Frames
  <2>2. CASE y # x
    BY <2>2 DEF Moves, Kept, Win32Frames, Win32Prepare, Win32Load
  <2> QED BY <2>1, <2>2
<1> QED BY <1>1 DEF Moves, Win32Frames

LEMMA Win32FramesLeave ==
    ASSUME Win32Frames, NEW x \in FramePlaces, Leaves(x), loaded \subseteq loaded'
    PROVE  Win32Frames'
<1>1. ASSUME NEW y \in FramePlaces, y # x
      PROVE  /\ JobOf(y)'.kind # "notification"
             /\ JobOf(y)'.kind = "prepare" => Win32Prepare(JobOf(y).dependency, y)'
             /\ JobOf(y)'.kind = "load" => Win32Load(y)'
  BY <1>1 DEF Leaves, Kept, Win32Frames, Win32Prepare, Win32Load
<1> QED BY <1>1 DEF Leaves, Win32Frames

LEMMA Win32FramesCome ==
    ASSUME Win32Frames, NEW x, NEW j, j.kind # "notification", Comes(x, j), loaded \subseteq loaded'
    PROVE  Win32Frames'
<1>1. ASSUME NEW y \in FramePlaces'
      PROVE  /\ JobOf(y)'.kind # "notification"
             /\ JobOf(y)'.kind = "prepare" => Win32Prepare(JobOf(y).dependency, y)'
             /\ JobOf(y)'.kind = "load" => Win32Load(y)'
  <2>1. CASE y = x
    BY <2>1 DEF Comes, Win32Prepare, Win32Load
  <2>2. CASE y # x
    BY <2>2 DEF Comes, Kept, Win32Frames, Win32Prepare, Win32Load
  <2> QED BY <2>1, <2>2
<1> QED BY <1>1 DEF Win32Frames

LEMMA RestFacts ==
    ASSUME NEW d \in Dependencies, NEW n, n = Len(RequestsOf[d])
    PROVE  /\ Rest(d, "push", 1) = Of(d)
           /\ \A at : /\ Rest(d, "loading", at) = Rest(d, "push", at)
                      /\ Rest(d, "notify", at) = Rest(d, "push", at)
                      /\ Rest(d, "start", at) = {} /\ Rest(d, "store", at) = {}
           /\ \A at \in 1 .. n : /\ RequestsOf[d][at] \in Of(d)
                                 /\ RequestsOf[d][at] \notin Rest(d, "push", at + 1)
                                 /\ Rest(d, "push", at) = Rest(d, "push", at + 1) \cup {RequestsOf[d][at]}
           /\ \A at \in Nat : at > n => Rest(d, "push", at) = {}
<1>1. /\ n \in Nat /\ DOMAIN RequestsOf[d] = 1 .. n
      /\ \A i \in 1 .. n : RequestsOf[d][i] \in Of(d)
      /\ \A r \in Of(d) : \E i \in 1 .. n : r = RequestsOf[d][i]
      /\ \A i, j \in 1 .. n : RequestsOf[d][i] = RequestsOf[d][j] => i = j
  BY RequestFacts
<1>2. Rest(d, "push", 1) = Of(d)
  BY <1>1 DEF Rest
<1>3. ASSUME NEW at
      PROVE  /\ Rest(d, "loading", at) = Rest(d, "push", at)
             /\ Rest(d, "notify", at) = Rest(d, "push", at)
             /\ Rest(d, "start", at) = {} /\ Rest(d, "store", at) = {}
  BY DEF Rest
<1>4. ASSUME NEW at \in 1 .. n
      PROVE  /\ RequestsOf[d][at] \in Of(d)
             /\ RequestsOf[d][at] \notin Rest(d, "push", at + 1)
             /\ Rest(d, "push", at) = Rest(d, "push", at + 1) \cup {RequestsOf[d][at]}
  <2>1. \A i \in 1 .. n : at <= i <=> at + 1 <= i \/ i = at
    BY <1>1
  <2>2. RequestsOf[d][at] \notin Rest(d, "push", at + 1)
    BY <1>1 DEF Rest
  <2>3. ASSUME NEW r
        PROVE  r \in Rest(d, "push", at) <=> r \in Rest(d, "push", at + 1) \/ r = RequestsOf[d][at]
    BY <1>1, <2>1 DEF Rest
  <2> QED BY <1>1, <2>2, <2>3
<1>5. ASSUME NEW at \in Nat, at > n
      PROVE  Rest(d, "push", at) = {}
  BY <1>1, <1>5 DEF Rest
<1> QED BY <1>2, <1>3, <1>4, <1>5

\* A preparation that has begun goes on.
LEMMA PrepareGoesOn ==
    ASSUME PreparedOnce, NEW d \in Dependencies, NEW x \in Preparing(d),
           PcOf(x) \notin {"start", "store"}, NEW pc, NEW at, Moves(x, pc, at), pc # "start",
           UNCHANGED <<requested, deleted, mJobQueue>>,
           mActive' \subseteq mActive \cup (IF pc = "store" THEN {d} ELSE {}),
           mAssetRequestFinished \subseteq mAssetRequestFinished'
    PROVE  /\ PreparedOnce' /\ StartedStays /\ LoadersStay /\ Started(d)
           /\ \A e \in Dependencies : \A r : e # d => (IsUnpushed(e, r)' <=> IsUnpushed(e, r))
           /\ \A r : /\ IsUnpushed(d, r) <=> r \in Rest(d, PcOf(x), AtOf(x))
                     /\ IsUnpushed(d, r)' <=> r \in Rest(d, pc, at)
<1>1. x \in FramePlaces /\ JobOf(x) = Prepare(d) /\ JobOf(x).kind = "prepare"
  BY KindFacts DEF Preparing
<1>2. /\ PreparedOnce'
      /\ \A e \in Dependencies : Started(e)' <=> Started(e) \/ e = d
      /\ \A e \in Dependencies : Preparing(e)' = Preparing(e)
      /\ Preparing(d) = {x}
      /\ \A e \in Dependencies : \A y \in Preparing(e) : e # d => y # x /\ Kept(y)
  BY PreparedMoves
<1>3. Started(d)
  BY <1>2 DEF PreparedOnce, Started
<1>4. LoadersStay
  BY <1>1, LoadersMove
<1>5. ASSUME NEW e \in Dependencies, NEW r, e # d
      PROVE  IsUnpushed(e, r)' <=> IsUnpushed(e, r)
  BY <1>2, <1>5 DEF IsUnpushed, Rest, Kept
<1>6. ASSUME NEW r
      PROVE  /\ IsUnpushed(d, r) <=> r \in Rest(d, PcOf(x), AtOf(x))
             /\ IsUnpushed(d, r)' <=> r \in Rest(d, pc, at)
  BY <1>2 DEF IsUnpushed, Rest, Moves
<1> QED BY <1>2, <1>3, <1>4, <1>5, <1>6 DEF StartedStays

LEMMA BeginsAreDelayed ==
    ASSUME DelaysBegin, DelayTypes,
           \/ UNCHANGED mSubmissionInfoArr
           \/ \E t \in Threads : \E event : Delay(t, event, BeginLoading)
    PROVE  DelaysBegin'
<1>1. CASE UNCHANGED mSubmissionInfoArr
  BY <1>1 DEF DelaysBegin, DelayPlaces, DelayedJob
<1>2. ASSUME NEW t \in Threads, NEW event, Delay(t, event, BeginLoading)
      PROVE  DelaysBegin'
  <2>1. PICK z : DelayComes(z, event, BeginLoading)
    BY <1>2, DelayedComes
  <2> QED BY <2>1 DEF DelaysBegin, DelayComes, DelayKept
<1> QED BY <1>1, <1>2

\* What the invariant says of the Win32 handler, in all.
Win32Loading == Types /\ PreparedOnce /\ Win32Inv

\* A step without preparations, and without a request that goes on.
LEMMA Win32Stays ==
    ASSUME Win32Loading, Win32Frames', DelaysBegin', \A j \in mJobQueue' : j.kind # "notification",
           PreparesStay, LoadersStay,
           UNCHANGED <<requested, mAssetRequestFinished, mRequestQueueArr, mActiveRequestCounter>>,
           mActive' \cup deleted' \subseteq mActive \cup deleted,
           deleted' \subseteq deleted \cup mAssetRequestFinished, loaded \subseteq loaded'
    PROVE  PreparedOnce' /\ Win32Inv'
<1>1. PreparedOnce' /\ StartedStays
  BY PreparedStays DEF Win32Loading
<1>2. UnpushedStay
  BY UnpushedAsPrepared
<1>3. OnePlace' /\ RequestsAreCounted'
  BY <1>1, <1>2, RequestsStay DEF Win32Loading, Win32Inv
<1>4. Win32Types'
  BY DEF Win32Loading, Win32Inv, Win32Types
<1> QED BY <1>1, <1>3, <1>4 DEF Win32Inv

LEMMA Win32Parts ==
    ASSUME Win32Loading
    PROVE  /\ StackTypes /\ DelayTypes /\ mJobQueue \subseteq Jobs /\ PreparedOnce
           /\ OnePlace /\ RequestsAreCounted /\ Win32Frames /\ DelaysBegin
           /\ mRequestQueueArr \in [Priorities -> Seq(AllOf)]
           /\ mActiveRequestCounter \in [Dependencies -> Int]
           /\ \A j \in mJobQueue : j.kind # "notification"
BY DEF Win32Loading, Win32Inv, Win32Types, Types

LEMMA OfAll ==
    /\ \A d \in Dependencies : Of(d) \subseteq AllOf
    /\ \A r \in AllOf : r \in Requests /\ \E d \in Dependencies : r \in Of(d)
BY RequestFacts DEF AllOf

\* The job of t that prepares a dependency.
LEMMA PrepareAt ==
    ASSUME StackTypes, NEW t \in Threads, NEW pc, At(t, "prepare", pc)
    PROVE  /\ stack[t] # <<>>
           /\ \E d, x :
                 /\ d \in Dependencies /\ x \in Preparing(d) /\ IsTop(t, x) /\ PcOf(x) = pc /\ AtOf(x) = Top(t).at /\ d = Top(t).job.dependency
                 /\ x \in FramePlaces /\ JobOf(x).kind = "prepare" /\ JobOf(x).dependency = d
                 /\ Top(t).job.kind = "prepare"
<1>1. PICK x \in FramePlaces :
         /\ IsTop(t, x) /\ JobOf(x) \in Jobs /\ JobOf(x).kind = "prepare" /\ PcOf(x) = pc
         /\ JobOf(x) = Top(t).job /\ AtOf(x) = Top(t).at /\ stack[t] # <<>>
  BY TopAt
<1>2. JobOf(x).dependency \in Dependencies /\ JobOf(x) = Prepare(JobOf(x).dependency)
  BY <1>1, KindFacts
<1> QED BY <1>1, <1>2 DEF Preparing

\* A dependency has its requests.
LEMMA PreparationStarts ==
    ASSUME OnePlace, RequestsAreCounted, NEW d \in Dependencies, ~ Started(d),
           \A e \in Dependencies : Started(e)' <=> Started(e) \/ e = d,
           LoadersStay, UNCHANGED <<mRequestQueueArr, loaded>>,
           \A e \in Dependencies : \A r : e # d => (IsUnpushed(e, r)' <=> IsUnpushed(e, r)),
           \A r \in Of(d) : IsUnpushed(d, r)',
           \A e \in Dependencies : e # d => mActiveRequestCounter'[e] = mActiveRequestCounter[e],
           mActiveRequestCounter'[d] = Cardinality(Of(d)),
           mAssetRequestFinished' \subseteq mAssetRequestFinished
                                            \cup (IF Of(d) = {} THEN {d} ELSE {})
    PROVE  OnePlace' /\ RequestsAreCounted'
<1>1. QueuePlaces' = QueuePlaces /\ \A y : QueuedAt(y)' = QueuedAt(y)
  BY DEF QueuePlaces, QueuedAt
<1>2. \A r : InQueue(r)' <=> InQueue(r)
  BY <1>1 DEF InQueue
<1>3. \A r \in Of(d) : ~ InQueue(r) /\ Loaders(r) = {}
  BY DEF OnePlace
<1>4. OnePlace'
  <2>1. \A y, z \in QueuePlaces' : QueuedAt(y)' = QueuedAt(z)' => y = z
    BY <1>1 DEF OnePlace
  <2>2. ASSUME NEW e \in Dependencies, NEW r \in Of(e)
        PROVE  /\ \A x, y \in Loaders(r)' : x = y
               /\ InQueue(r)' => Loaders(r)' = {}
               /\ InQueue(r)' \/ Loaders(r)' # {} => Started(e)' /\ ~ IsUnpushed(e, r)'
    <3>1. CASE e = d
      BY <1>2, <1>3, <3>1 DEF LoadersStay
    <3>2. CASE e # d
      BY <1>2, <3>2 DEF LoadersStay, OnePlace
    <3> QED BY <3>1, <3>2
  <2> QED BY <2>1, <2>2 DEF OnePlace
<1>5. Outstanding(d)' = Of(d)
  BY DEF Outstanding
<1>6. ASSUME NEW e \in Dependencies, e # d PROVE Outstanding(e)' = Outstanding(e)
  BY <1>2, <1>6 DEF Outstanding, LoadersStay
<1>7. ASSUME NEW e \in Dependencies
      PROVE  IF Started(e)' THEN /\ mActiveRequestCounter'[e] = Cardinality(Outstanding(e)')
                                 /\ Of(e) \ Outstanding(e)' \subseteq loaded'
                            ELSE mActiveRequestCounter'[e] = 0
  <2>1. CASE e = d
    BY <1>5, <2>1
  <2>2. CASE e # d
    BY <1>6, <2>2 DEF RequestsAreCounted
  <2> QED BY <2>1, <2>2
<1>8. ASSUME NEW e \in mAssetRequestFinished'
      PROVE  e \in Dependencies /\ Started(e)' /\ Outstanding(e)' = {}
  <2>1. CASE e \in mAssetRequestFinished
    BY <1>6, <2>1 DEF RequestsAreCounted
  <2>2. CASE e \notin mAssetRequestFinished
    BY <1>5, <1>8, <2>2
  <2> QED BY <2>1, <2>2
<1> QED BY <1>4, <1>7, <1>8 DEF RequestsAreCounted

LEMMA FinalizeLoads ==
    ASSUME Win32Loading, NEW t \in Threads, Finalize(t), UNCHANGED requested
    PROVE  PreparedOnce' /\ Win32Inv'
<1> USE Win32Parts
<1>1. PICK d, x :
         /\ d \in Dependencies /\ x \in Preparing(d) /\ IsTop(t, x)
         /\ PcOf(x) = "start" /\ d = Top(t).job.dependency /\ stack[t] # <<>>
         /\ x \in FramePlaces /\ JobOf(x).kind = "prepare" /\ JobOf(x).dependency = d
  BY PrepareAt DEF Finalize
<1>2. UNCHANGED <<mJobQueue, mSubmissionInfoArr, loaded, mActive, deleted, mRequestQueueArr>>
  BY DEF Finalize
<1>3. ~ Started(d)
  BY <1>1 DEF Started
<1>4. DelaysBegin' /\ \A j \in mJobQueue' : j.kind # "notification"
  BY <1>2, BeginsAreDelayed
<1>5. mRequestQueueArr' \in [Priorities -> Seq(AllOf)]
  BY <1>2
<1>6. CASE RequestsOf[d] = <<>>
  <2>1. /\ mAssetRequestFinished' = mAssetRequestFinished \cup {d}
        /\ Return(t) /\ UNCHANGED mActiveRequestCounter
    BY <1>1, <1>6 DEF Finalize
  <2>2. Leaves(x)
    BY <1>1, <2>1, ReturnLeaves
  <2>3. /\ PreparedOnce'
        /\ \A e \in Dependencies : Started(e)' <=> Started(e) \/ e = d
        /\ \A e \in Dependencies : Preparing(e)' = IF e = d THEN {} ELSE Preparing(e)
        /\ \A e \in Dependencies : \A y \in Preparing(e) : e # d => y # x /\ Kept(y)
    BY <1>1, <1>2, <2>1, <2>2, PreparedLeaves
  <2>4. LoadersStay /\ Win32Frames'
    BY <1>1, <1>2, <2>2, LoadersLeave, Win32FramesLeave
  <2>5. ASSUME NEW e \in Dependencies, NEW r, e # d
        PROVE  IsUnpushed(e, r)' <=> IsUnpushed(e, r)
    BY <2>3, <2>5 DEF IsUnpushed, Rest, Kept
  <2>6. Of(d) = {} /\ Cardinality(Of(d)) = 0
    BY <1>6, FS_EmptySet, EmptySequence DEF Of
  <2>7. mActiveRequestCounter'[d] = 0
    BY <1>1, <1>3, <2>1 DEF RequestsAreCounted
  <2>8. OnePlace' /\ RequestsAreCounted'
    BY <1>1, <1>2, <1>3, <2>1, <2>3, <2>4, <2>5, <2>6, <2>7, PreparationStarts
  <2> QED BY <1>4, <1>5, <2>1, <2>3, <2>4, <2>8 DEF Win32Inv, Win32Types
<1>7. CASE RequestsOf[d] # <<>>
  <2>1. /\ mActiveRequestCounter' = [mActiveRequestCounter EXCEPT ![d] = Len(RequestsOf[d])]
        /\ Goto(t, "push", 1) /\ UNCHANGED mAssetRequestFinished
    BY <1>1, <1>7 DEF Finalize
  <2>2. Moves(x, "push", 1)
    BY <1>1, <2>1, GotoMoves
  <2>3. /\ PreparedOnce'
        /\ \A e \in Dependencies : Started(e)' <=> Started(e) \/ e = d
        /\ \A e \in Dependencies : Preparing(e)' = Preparing(e)
        /\ Preparing(d) = {x}
        /\ \A e \in Dependencies : \A y \in Preparing(e) : e # d => y # x /\ Kept(y)
    BY <1>1, <1>2, <2>1, <2>2, PreparedMoves
  <2>4. LoadersStay
    BY <1>1, <2>2, LoadersMove
  <2>5. Win32Frames'
    <3>1. PcOf(x)' = "push" /\ AtOf(x)' = 1 /\ Len(RequestsOf[d]) \in Nat
      BY <1>1, <2>2, RequestFacts DEF Moves
    <3>2. Win32Prepare(JobOf(x).dependency, x)'
      BY <1>1, <2>2, <3>1 DEF Win32Prepare, Moves
    <3> QED BY <1>1, <1>2, <2>2, <3>2, Win32FramesMove
  <2>6. ASSUME NEW e \in Dependencies, NEW r, e # d
        PROVE  IsUnpushed(e, r)' <=> IsUnpushed(e, r)
    BY <2>3, <2>6 DEF IsUnpushed, Rest, Kept
  <2>7. ASSUME NEW r \in Of(d)
        PROVE  IsUnpushed(d, r)'
    <3>1. r \in Rest(d, "push", 1)
      BY <1>1, RestFacts
    <3>2. x \in Preparing(d)' /\ PcOf(x)' = "push" /\ AtOf(x)' = 1
      BY <1>1, <2>2, <2>3 DEF Moves
    <3> QED BY <3>1, <3>2 DEF IsUnpushed
  <2>8. Cardinality(Of(d)) = Len(RequestsOf[d]) /\ Len(RequestsOf[d]) \in Int
    BY <1>1, OfIsFinite, RequestFacts
  <2>9. /\ mActiveRequestCounter'[d] = Cardinality(Of(d))
        /\ mActiveRequestCounter' \in [Dependencies -> Int]
        /\ \A e \in Dependencies : e # d => mActiveRequestCounter'[e] = mActiveRequestCounter[e]
    BY <1>1, <2>1, <2>8
  <2>10. OnePlace' /\ RequestsAreCounted'
    BY <1>1, <1>2, <1>3, <2>1, <2>3, <2>4, <2>6, <2>7, <2>9, PreparationStarts
  <2> QED BY <1>4, <1>5, <2>3, <2>5, <2>9, <2>10 DEF Win32Inv, Win32Types
<1> QED BY <1>6, <1>7

-----------------------------------------------------------------------------
(* The queues of requests.                                                     *)

LEMMA PlacesOfRequests ==
    ASSUME NEW y
    PROVE  y \in QueuePlaces <=> /\ y = <<y[1], y[2]>> /\ y[1] \in Priorities
                                 /\ y[2] \in DOMAIN mRequestQueueArr[y[1]]
BY DEF QueuePlaces

RequestsDiffer == \A y, z \in QueuePlaces : QueuedAt(y) = QueuedAt(z) => y = z

LEMMA RequestPushed ==
    ASSUME mRequestQueueArr \in [Priorities -> Seq(AllOf)], RequestsDiffer,
           NEW p \in Priorities, NEW r \in AllOf, ~ InQueue(r),
           mRequestQueueArr' = [mRequestQueueArr EXCEPT ![p] = Append(@, r)]
    PROVE  /\ mRequestQueueArr' \in [Priorities -> Seq(AllOf)] /\ RequestsDiffer'
           /\ \A s : InQueue(s)' <=> InQueue(s) \/ s = r
<1>1. PICK q, k : q = mRequestQueueArr[p] /\ k = Len(q) + 1
  OBVIOUS
<1>2. q \in Seq(AllOf)
  BY <1>1
<1>3. PICK a : a = Append(q, r)
  OBVIOUS
<1>4. /\ a \in Seq(AllOf) /\ DOMAIN a = DOMAIN q \cup {k} /\ k \notin DOMAIN q
      /\ \A i \in DOMAIN q : a[i] = q[i]
      /\ a[k] = r
  BY <1>1, <1>2, <1>3, AppendProperties, LenProperties
<1>5. \A o \in Priorities : mRequestQueueArr'[o] = IF o = p THEN a ELSE mRequestQueueArr[o]
  BY <1>1, <1>3
<1>6. mRequestQueueArr' \in [Priorities -> Seq(AllOf)]
  BY <1>1, <1>3, <1>4
<1>7. PICK x : x = <<p, k>>
  OBVIOUS
<1>8. x[1] = p /\ x[2] = k
  BY <1>7
<1>9. \A y : y \in QueuePlaces' <=> /\ y = <<y[1], y[2]>> /\ y[1] \in Priorities
                                    /\ y[2] \in DOMAIN mRequestQueueArr'[y[1]]
  BY DEF QueuePlaces
<1>10. \A y : y \in QueuePlaces' <=> y \in QueuePlaces \/ y = x
  BY <1>1, <1>4, <1>5, <1>7, <1>8, <1>9, PlacesOfRequests
<1>11. \A y \in QueuePlaces : QueuedAt(y)' = QueuedAt(y)
  BY <1>1, <1>4, <1>5, PlacesOfRequests DEF QueuedAt
<1>12. QueuedAt(x)' = r
  BY <1>4, <1>5, <1>8 DEF QueuedAt
<1>13. ASSUME NEW s PROVE InQueue(s)' <=> InQueue(s) \/ s = r
  BY <1>10, <1>11, <1>12 DEF InQueue
<1>14. RequestsDiffer'
  BY <1>10, <1>11, <1>12 DEF RequestsDiffer, InQueue
<1> QED BY <1>6, <1>13, <1>14

LEMMA RequestPopped ==
    ASSUME mRequestQueueArr \in [Priorities -> Seq(AllOf)], RequestsDiffer,
           NEW p \in Priorities, mRequestQueueArr[p] # <<>>,
           NEW r, r = Head(mRequestQueueArr[p]),
           mRequestQueueArr' = [mRequestQueueArr EXCEPT ![p] = Tail(@)]
    PROVE  /\ mRequestQueueArr' \in [Priorities -> Seq(AllOf)] /\ RequestsDiffer'
           /\ r \in AllOf /\ InQueue(r)
           /\ \A s : InQueue(s)' <=> InQueue(s) /\ s # r
<1>1. PICK q, n : q = mRequestQueueArr[p] /\ n = Len(q)
  OBVIOUS
<1>2. q \in Seq(AllOf) /\ q # <<>>
  BY <1>1
<1>3. PICK a : a = Tail(q)
  OBVIOUS
<1>4. n \in Nat /\ n > 0 /\ DOMAIN q = 1 .. n
  BY <1>1, <1>2, LenProperties, EmptySeq
<1>5. /\ a \in Seq(AllOf) /\ DOMAIN a = 1 .. n - 1 /\ \A i \in DOMAIN a : a[i] = q[i + 1]
      /\ r = q[1] /\ r \in AllOf
  <2>1. a \in Seq(AllOf) /\ Len(a) = n - 1 /\ \A i \in 1 .. Len(a) : a[i] = q[i + 1]
    BY <1>1, <1>2, <1>3, HeadTailProperties
  <2>2. r = q[1] /\ r \in AllOf
    BY <1>1, <1>2, <1>4, HeadTailProperties, ElementOfSeq
  <2> QED BY <2>1, <2>2, LenProperties
<1>6. \A o \in Priorities : mRequestQueueArr'[o] = IF o = p THEN a ELSE mRequestQueueArr[o]
  BY <1>1, <1>3
<1>7. mRequestQueueArr' \in [Priorities -> Seq(AllOf)]
  BY <1>1, <1>3, <1>5
<1>8. \A y : y \in QueuePlaces' <=> /\ y = <<y[1], y[2]>> /\ y[1] \in Priorities
                                    /\ y[2] \in DOMAIN mRequestQueueArr'[y[1]]
  BY DEF QueuePlaces
\* Where a request of the shorter queue was before.
<1>9. ASSUME NEW y \in QueuePlaces'
      PROVE  \E x \in QueuePlaces :
                /\ QueuedAt(x) = QueuedAt(y)' /\ x # <<p, 1>>
                /\ x[1] = y[1] /\ x[2] = IF y[1] = p THEN y[2] + 1 ELSE y[2]
  <2>1. CASE y[1] = p
    <3>1. PICK x : x = <<p, y[2] + 1>>
      OBVIOUS
    <3>2. x[1] = p /\ x[2] = y[2] + 1 /\ y[2] \in 1 .. n - 1
      BY <1>5, <1>6, <1>8, <2>1, <3>1
    <3>3. x \in QueuePlaces /\ x # <<p, 1>>
      BY <1>1, <1>4, <3>1, <3>2, PlacesOfRequests
    <3>4. QueuedAt(x) = QueuedAt(y)'
      BY <1>1, <1>5, <1>6, <2>1, <3>2 DEF QueuedAt
    <3> QED BY <2>1, <3>2, <3>3, <3>4
  <2>2. CASE y[1] # p
    <3>1. y \in QueuePlaces /\ QueuedAt(y) = QueuedAt(y)' /\ y # <<p, 1>>
      BY <1>6, <1>8, <2>2, PlacesOfRequests DEF QueuedAt
    <3> QED BY <2>2, <3>1
  <2> QED BY <2>1, <2>2
<1>10. RequestsDiffer'
  <2>1. ASSUME NEW y \in QueuePlaces', NEW z \in QueuePlaces', QueuedAt(y)' = QueuedAt(z)'
        PROVE  y = z
    <3>1. PICK v \in QueuePlaces : /\ QueuedAt(v) = QueuedAt(y)'
                                   /\ v[1] = y[1] /\ v[2] = IF y[1] = p THEN y[2] + 1 ELSE y[2]
      BY <1>9
    <3>2. PICK w \in QueuePlaces : /\ QueuedAt(w) = QueuedAt(z)'
                                   /\ w[1] = z[1] /\ w[2] = IF z[1] = p THEN z[2] + 1 ELSE z[2]
      BY <1>9
    <3>3. v = w
      BY <2>1, <3>1, <3>2 DEF RequestsDiffer
    <3>4. y[1] = z[1]
      BY <3>1, <3>2, <3>3
    <3>5. y[1] = p => y[2] \in Int /\ z[2] \in Int
      BY <1>5, <1>6, <1>8, <3>4, LenProperties
    <3>6. y[2] = z[2]
      BY <3>1, <3>2, <3>3, <3>4, <3>5
    <3> QED BY <1>8, <3>4, <3>6
  <2> QED BY <2>1 DEF RequestsDiffer
<1>11. PICK f : f = <<p, 1>>
  OBVIOUS
<1>12. f[1] = p /\ f[2] = 1 /\ f \in QueuePlaces /\ QueuedAt(f) = r
  BY <1>1, <1>4, <1>5, <1>11, PlacesOfRequests DEF QueuedAt
<1>13. ASSUME NEW x \in QueuePlaces, QueuedAt(x) # r
       PROVE  \E y \in QueuePlaces' : QueuedAt(y)' = QueuedAt(x)
  <2>1. CASE x[1] = p
    <3>1. x[2] \in 1 .. n /\ x[2] # 1
      BY <1>1, <1>4, <1>5, <1>13, <2>1, PlacesOfRequests DEF QueuedAt
    <3>2. PICK y : y = <<p, x[2] - 1>>
      OBVIOUS
    <3>3. y[1] = p /\ y[2] = x[2] - 1 /\ y[2] \in 1 .. n - 1
      BY <1>4, <3>1, <3>2
    <3>4. y \in QueuePlaces'
      BY <1>5, <1>6, <1>8, <3>2, <3>3
    <3>5. a[y[2]] = q[y[2] + 1] /\ y[2] + 1 = x[2]
      BY <1>5, <3>1, <3>3
    <3> QED BY <1>1, <1>6, <2>1, <3>3, <3>4, <3>5 DEF QueuedAt
  <2>2. CASE x[1] # p
    BY <1>6, <1>8, <2>2, PlacesOfRequests DEF QueuedAt
  <2> QED BY <2>1, <2>2
<1>14. ASSUME NEW s PROVE InQueue(s)' <=> InQueue(s) /\ s # r
  <2>1. ASSUME InQueue(s)' PROVE InQueue(s) /\ s # r
    <3>1. PICK y \in QueuePlaces' : QueuedAt(y)' = s
      BY <2>1 DEF InQueue
    <3>2. PICK x \in QueuePlaces : QueuedAt(x) = s /\ x # f
      BY <1>9, <1>11, <3>1
    <3> QED BY <1>12, <3>2 DEF InQueue, RequestsDiffer
  <2>2. ASSUME InQueue(s), s # r PROVE InQueue(s)'
    BY <1>13, <2>2 DEF InQueue
  <2> QED BY <2>1, <2>2
<1>15. InQueue(r)
  BY <1>12 DEF InQueue
<1> QED BY <1>5, <1>7, <1>10, <1>14, <1>15

-----------------------------------------------------------------------------
(* A request goes on from one place to the next.                               *)

OthersStay(r) ==
    /\ \A s : s # r => (InQueue(s)' <=> InQueue(s)) /\ Loaders(s)' = Loaders(s)
    /\ \A e \in Dependencies : \A s : s # r => (IsUnpushed(e, s)' <=> IsUnpushed(e, s))

LEMMA OneGoesOn ==
    ASSUME OnePlace, StartedStays, RequestsDiffer',
           NEW d \in Dependencies, NEW r \in Of(d), Started(d), r \in Outstanding(d), OthersStay(r),
           \A x, y \in Loaders(r)' : x = y, InQueue(r)' => Loaders(r)' = {},
           InQueue(r)' \/ Loaders(r)' # {} => ~ IsUnpushed(d, r)'
    PROVE  /\ OnePlace'
           /\ \A e \in Dependencies : e # d => Outstanding(e)' = Outstanding(e)
           /\ Outstanding(d)' = IF InQueue(r)' \/ Loaders(r)' # {} \/ IsUnpushed(d, r)'
                                THEN Outstanding(d) ELSE Outstanding(d) \ {r}
<1>1. \A e \in Dependencies : r \in Of(e) => e = d
  BY RequestFacts
<1>2. OnePlace'
  <2>1. ASSUME NEW e \in Dependencies, NEW s \in Of(e)
        PROVE  /\ \A x, y \in Loaders(s)' : x = y
               /\ InQueue(s)' => Loaders(s)' = {}
               /\ InQueue(s)' \/ Loaders(s)' # {} => Started(e)' /\ ~ IsUnpushed(e, s)'
    <3>1. CASE s = r
      BY <1>1, <3>1 DEF StartedStays
    <3>2. CASE s # r
      BY <3>2 DEF OthersStay, OnePlace, StartedStays
    <3> QED BY <3>1, <3>2
  <2> QED BY <2>1 DEF OnePlace, RequestsDiffer
<1>3. ASSUME NEW e \in Dependencies, e # d PROVE Outstanding(e)' = Outstanding(e)
  BY <1>1, <1>3 DEF Outstanding, OthersStay
<1>4. \A s : s # r => (s \in Outstanding(d)' <=> s \in Outstanding(d))
  BY DEF Outstanding, OthersStay
<1>5. r \in Outstanding(d)' <=> InQueue(r)' \/ Loaders(r)' # {} \/ IsUnpushed(d, r)'
  BY DEF Outstanding
<1> QED BY <1>2, <1>3, <1>4, <1>5

LEMMA OneIsDone ==
    ASSUME RequestsAreCounted, StartedStays, NEW d \in Dependencies, NEW r \in Outstanding(d),
           Started(d), r \in loaded', loaded \subseteq loaded',
           mActiveRequestCounter \in [Dependencies -> Int],
           mActiveRequestCounter' = [mActiveRequestCounter EXCEPT ![d] = @ - 1],
           mAssetRequestFinished' = mAssetRequestFinished
                                    \cup (IF mActiveRequestCounter[d] = 1 THEN {d} ELSE {}),
           \A e \in Dependencies : e # d => Outstanding(e)' = Outstanding(e),
           Outstanding(d)' = Outstanding(d) \ {r}
    PROVE  RequestsAreCounted'
<1>1. IsFiniteSet(Outstanding(d))
  BY OfIsFinite, FS_Subset DEF Outstanding
<1>2. /\ IsFiniteSet(Outstanding(d)') /\ Cardinality(Outstanding(d)') = Cardinality(Outstanding(d)) - 1
      /\ Cardinality(Outstanding(d)) = mActiveRequestCounter[d]
  BY <1>1, FS_RemoveElement DEF RequestsAreCounted
<1>3. ASSUME NEW e \in Dependencies
      PROVE  IF Started(e)' THEN /\ mActiveRequestCounter'[e] = Cardinality(Outstanding(e)')
                                 /\ Of(e) \ Outstanding(e)' \subseteq loaded'
                            ELSE mActiveRequestCounter'[e] = 0
  <2>1. CASE e = d
    <3>1. mActiveRequestCounter'[d] = Cardinality(Outstanding(d)')
      BY <1>2
    <3>2. Of(d) \ Outstanding(d)' \subseteq loaded'
      BY DEF RequestsAreCounted
    <3> QED BY <2>1, <3>1, <3>2 DEF StartedStays
  <2>2. CASE e # d
    BY <2>2 DEF RequestsAreCounted, StartedStays
  <2> QED BY <2>1, <2>2
<1>4. ASSUME NEW e \in mAssetRequestFinished'
      PROVE  e \in Dependencies /\ Started(e)' /\ Outstanding(e)' = {}
  <2>1. CASE e \in mAssetRequestFinished
    BY <2>1 DEF RequestsAreCounted, StartedStays
  <2>2. CASE e \notin mAssetRequestFinished
    <3>1. e = d /\ mActiveRequestCounter[d] = 1
      BY <1>4, <2>2
    <3>2. Outstanding(d)' = {}
      BY <1>2, <3>1, FS_EmptySet
    <3> QED BY <3>1, <3>2 DEF StartedStays
  <2> QED BY <2>1, <2>2
<1> QED BY <1>3, <1>4 DEF RequestsAreCounted

-----------------------------------------------------------------------------
(* The steps of the Win32 handler.                                             *)

\* A preparation that goes on without its requests: for the next place, or none.
LEMMA PreparationGoesOn ==
    ASSUME Win32Loading, NEW d \in Dependencies, NEW x \in Preparing(d),
           PcOf(x) \notin {"start", "store"}, NEW pc, NEW at, Moves(x, pc, at), pc # "start",
           Rest(d, pc, at) = Rest(d, PcOf(x), AtOf(x)), Win32Prepare(d, x)',
           UNCHANGED <<requested, deleted, mJobQueue, mSubmissionInfoArr, mRequestQueueArr,
                       mActiveRequestCounter, mAssetRequestFinished>>,
           mActive' \subseteq mActive \cup (IF pc = "store" THEN {d} ELSE {}),
           loaded \subseteq loaded'
    PROVE  PreparedOnce' /\ Win32Inv'
<1> USE Win32Parts
<1>1. x \in FramePlaces /\ JobOf(x) = Prepare(d) /\ JobOf(x).kind = "prepare" /\ JobOf(x).dependency = d
  BY KindFacts DEF Preparing
<1>2. /\ PreparedOnce' /\ StartedStays /\ LoadersStay
      /\ \A e \in Dependencies : \A r : e # d => (IsUnpushed(e, r)' <=> IsUnpushed(e, r))
      /\ \A r : /\ IsUnpushed(d, r) <=> r \in Rest(d, PcOf(x), AtOf(x))
                /\ IsUnpushed(d, r)' <=> r \in Rest(d, pc, at)
  BY PrepareGoesOn
<1>3. UnpushedStay
  BY <1>2 DEF UnpushedStay
<1>4. OnePlace' /\ RequestsAreCounted'
  BY <1>2, <1>3, RequestsStay
<1>5. Win32Prepare(JobOf(x).dependency, x)'
  BY <1>1 DEF Moves, Win32Prepare
<1>6. Win32Frames'
  BY <1>1, <1>5, Win32FramesMove
<1>7. DelaysBegin'
  BY BeginsAreDelayed
<1> QED BY <1>2, <1>4, <1>6, <1>7 DEF Win32Inv, Win32Types

LEMMA PushBackLoads ==
    ASSUME Win32Loading, NEW t \in Threads, PushBack(t), UNCHANGED requested
    PROVE  PreparedOnce' /\ Win32Inv'
<1> USE Win32Parts
<1>1. PICK d, x :
         /\ d \in Dependencies /\ x \in Preparing(d) /\ IsTop(t, x)
         /\ PcOf(x) = "push" /\ AtOf(x) = Top(t).at /\ d = Top(t).job.dependency /\ stack[t] # <<>>
         /\ x \in FramePlaces /\ JobOf(x).kind = "prepare" /\ JobOf(x).dependency = d
         /\ Top(t).job.kind = "prepare"
  BY PrepareAt DEF PushBack
<1>2. PICK at, n, r, p : /\ at = AtOf(x) /\ n = Len(RequestsOf[d]) /\ r = RequestsOf[d][at]
                         /\ p = Priority[r]
  OBVIOUS
<1>3. at \in 1 .. n /\ n \in Nat
  <2>1. at \in 1 .. n + 1 /\ n \in Nat
    BY <1>1, <1>2, RequestFacts DEF Win32Frames, Win32Prepare
  <2>2. at <= n
    BY <1>1, <1>2 DEF PushBack
  <2> QED BY <2>1, <2>2
<1>4. r \in Of(d) /\ r \in AllOf /\ p \in Priorities
  BY <1>1, <1>2, <1>3, RequestFacts, OfAll
<1>5. r = Current(t)
  BY <1>1, <1>2 DEF Current
<1>6. /\ UNCHANGED <<mJobQueue, mSubmissionInfoArr, mAssetRequestFinished, loaded, mActive, deleted>>
      /\ UNCHANGED mActiveRequestCounter
  BY DEF PushBack, requestVars
<1>7. CASE Goto(t, "loading", at) /\ UNCHANGED mRequestQueueArr
  <2>1. Moves(x, "loading", at)
    BY <1>1, <1>7, GotoMoves
  <2>2. Win32Prepare(d, x)'
    BY <1>2, <1>3, <2>1 DEF Moves, Win32Prepare
  <2>3. Rest(d, "loading", at) = Rest(d, PcOf(x), AtOf(x))
    BY <1>1, <1>2, RestFacts
  <2> QED BY <1>1, <1>6, <1>7, <2>1, <2>2, <2>3, PreparationGoesOn
<1>8. CASE mRequestQueueArr' = [mRequestQueueArr EXCEPT ![p] = Append(@, r)] /\ Loop(t)
  <2>1. Moves(x, "push", at + 1)
    BY <1>1, <1>2, <1>8, LoopMoves
  <2>2. /\ PreparedOnce' /\ StartedStays /\ LoadersStay /\ Started(d)
        /\ \A e \in Dependencies : \A s : e # d => (IsUnpushed(e, s)' <=> IsUnpushed(e, s))
        /\ \A s : /\ IsUnpushed(d, s) <=> s \in Rest(d, "push", at)
                  /\ IsUnpushed(d, s)' <=> s \in Rest(d, "push", at + 1)
    BY <1>1, <1>2, <1>6, <2>1, PrepareGoesOn
  <2>3. /\ r \notin Rest(d, "push", at + 1)
        /\ Rest(d, "push", at) = Rest(d, "push", at + 1) \cup {r}
    BY <1>1, <1>2, <1>3, RestFacts
  <2>4. IsUnpushed(d, r) /\ ~ InQueue(r) /\ Loaders(r) = {} /\ ~ IsUnpushed(d, r)' /\ r \in Outstanding(d)
    BY <1>1, <1>4, <2>2, <2>3 DEF OnePlace, Outstanding
  <2>5. RequestsDiffer
    BY DEF OnePlace, RequestsDiffer
  <2>6. /\ mRequestQueueArr' \in [Priorities -> Seq(AllOf)] /\ RequestsDiffer'
        /\ \A s : InQueue(s)' <=> InQueue(s) \/ s = r
    BY <1>4, <1>8, <2>4, <2>5, RequestPushed
  <2>7. OthersStay(r) /\ Loaders(r)' = {} /\ InQueue(r)'
    BY <2>2, <2>3, <2>4, <2>6 DEF OthersStay, LoadersStay
  <2>8. OnePlace' /\ \A e \in Dependencies : Outstanding(e)' = Outstanding(e)
    BY <1>1, <1>4, <2>2, <2>4, <2>6, <2>7, OneGoesOn
  <2>9. RequestsAreCounted'
    BY <1>6, <2>2, <2>8, CountStays
  <2>10. Win32Prepare(JobOf(x).dependency, x)'
    BY <1>1, <1>2, <1>3, <2>1 DEF Moves, Win32Prepare
  <2>11. Win32Frames'
    BY <1>1, <1>6, <2>1, <2>10, Win32FramesMove
  <2>12. DelaysBegin'
    BY <1>6, BeginsAreDelayed
  <2> QED BY <1>6, <2>2, <2>6, <2>8, <2>9, <2>11, <2>12 DEF Win32Inv, Win32Types
<1> QED BY <1>1, <1>2, <1>5, <1>7, <1>8 DEF PushBack

LEMMA AddActiveLoads ==
    ASSUME Win32Loading, NEW t \in Threads, AddActiveBuilder(t), UNCHANGED requested
    PROVE  PreparedOnce' /\ Win32Inv'
<1> USE Win32Parts
<1>1. PICK d, x :
         /\ d \in Dependencies /\ x \in Preparing(d) /\ IsTop(t, x)
         /\ PcOf(x) = "push" /\ AtOf(x) = Top(t).at /\ d = Top(t).job.dependency /\ stack[t] # <<>>
         /\ x \in FramePlaces /\ JobOf(x).kind = "prepare" /\ JobOf(x).dependency = d
  BY PrepareAt DEF AddActiveBuilder
<1>2. AtOf(x) \in Nat /\ AtOf(x) > Len(RequestsOf[d])
  <2>1. AtOf(x) \in 1 .. Len(RequestsOf[d]) + 1 /\ Len(RequestsOf[d]) \in Nat
    BY <1>1, RequestFacts DEF Win32Frames, Win32Prepare
  <2>2. AtOf(x) > Len(RequestsOf[d])
    BY <1>1 DEF AddActiveBuilder
  <2> QED BY <2>1, <2>2
<1>3. Goto(t, "store", 0) /\ mActive' = mActive \cup {d}
      /\ UNCHANGED <<mJobQueue, mSubmissionInfoArr, mAssetRequestFinished, loaded, deleted,
                     mRequestQueueArr, mActiveRequestCounter>>
  BY <1>1 DEF AddActiveBuilder, win32Vars
<1>4. Moves(x, "store", 0)
  BY <1>1, <1>3, GotoMoves
<1>5. Win32Prepare(d, x)'
  BY <1>4 DEF Moves, Win32Prepare
<1>6. Rest(d, "store", 0) = Rest(d, PcOf(x), AtOf(x))
  BY <1>1, <1>2, RestFacts
<1> QED BY <1>1, <1>3, <1>4, <1>5, <1>6, PreparationGoesOn

LEMMA StoreLoads ==
    ASSUME Win32Loading, NEW t \in Threads, StoreTrue(t), UNCHANGED requested
    PROVE  PreparedOnce' /\ Win32Inv'
<1> USE Win32Parts
<1>1. PICK d, x :
         /\ d \in Dependencies /\ x \in Preparing(d) /\ IsTop(t, x)
         /\ PcOf(x) = "store" /\ d = Top(t).job.dependency /\ stack[t] # <<>>
         /\ x \in FramePlaces /\ JobOf(x).kind = "prepare" /\ JobOf(x).dependency = d
  BY PrepareAt DEF StoreTrue
<1>2. Return(t) /\ UNCHANGED <<mJobQueue, mSubmissionInfoArr, mAssetRequestFinished, loaded, mActive,
                              deleted, mRequestQueueArr, mActiveRequestCounter>>
  BY DEF StoreTrue, requestVars
<1>3. Leaves(x)
  BY <1>1, <1>2, ReturnLeaves
<1>4. /\ PreparedOnce'
      /\ \A e \in Dependencies : Started(e)' <=> Started(e) \/ e = d
      /\ \A e \in Dependencies : Preparing(e)' = IF e = d THEN {} ELSE Preparing(e)
      /\ \A e \in Dependencies : \A y \in Preparing(e) : e # d => y # x /\ Kept(y)
  BY <1>1, <1>2, <1>3, PreparedLeaves
<1>5. Started(d) /\ Preparing(d) = {x}
  BY <1>1 DEF Started, PreparedOnce
<1>6. StartedStays
  BY <1>4, <1>5 DEF StartedStays
<1>7. LoadersStay /\ Win32Frames'
  BY <1>1, <1>2, <1>3, LoadersLeave, Win32FramesLeave
<1>8. UnpushedStay
  <2>1. ASSUME NEW e \in Dependencies, NEW r
        PROVE  IsUnpushed(e, r)' <=> IsUnpushed(e, r)
    <3>1. CASE e # d
      BY <1>4, <3>1 DEF IsUnpushed, Rest, Kept
    <3>2. CASE e = d
      BY <1>1, <1>4, <1>5, <3>2 DEF IsUnpushed, Rest
    <3> QED BY <3>1, <3>2
  <2> QED BY <2>1 DEF UnpushedStay
<1>9. OnePlace' /\ RequestsAreCounted'
  BY <1>2, <1>6, <1>7, <1>8, RequestsStay
<1>10. DelaysBegin'
  BY <1>2, BeginsAreDelayed
<1> QED BY <1>2, <1>4, <1>7, <1>9, <1>10 DEF Win32Inv, Win32Types

\* A loading job takes a request, or has done with it.
LEMMA LoadersChange ==
    ASSUME NEW x \in FramePlaces, JobOf(x).kind = "load", NEW pc, NEW at, Moves(x, pc, at), NEW r
    PROVE  Loaders(r)' = IF HasRequest(pc) /\ at = r THEN Loaders(r) \cup {x} ELSE Loaders(r) \ {x}
<1>1. ASSUME NEW y \in FramePlaces
      PROVE  y \in Loaders(r)' <=> IF y = x THEN HasRequest(pc) /\ at = r ELSE y \in Loaders(r)
  BY DEF Loaders, Moves, Kept, HasRequest
<1>2. Loaders(r) \subseteq FramePlaces /\ Loaders(r)' \subseteq FramePlaces
  BY DEF Loaders, Moves
<1> QED BY <1>1, <1>2

LEMMA LoadAssetDataLoads ==
    ASSUME Win32Loading, NEW t \in Threads, LoadAssetData(t), UNCHANGED requested
    PROVE  PreparedOnce' /\ Win32Inv'
<1> USE Win32Parts
<1>1. /\ loaded' = loaded \cup {Current(t)} /\ Goto(t, "notify", Top(t).at)
      /\ UNCHANGED <<mJobQueue, mSubmissionInfoArr, mAssetRequestFinished, mActive, deleted,
                     mRequestQueueArr, mActiveRequestCounter>>
  BY DEF LoadAssetData, win32Vars
<1>2. CASE At(t, "prepare", "loading")
  <2>1. PICK d, x :
           /\ d \in Dependencies /\ x \in Preparing(d) /\ IsTop(t, x)
           /\ PcOf(x) = "loading" /\ AtOf(x) = Top(t).at /\ d = Top(t).job.dependency /\ stack[t] # <<>>
           /\ x \in FramePlaces /\ JobOf(x).kind = "prepare" /\ JobOf(x).dependency = d
           /\ Top(t).job.kind = "prepare"
    BY <1>2, PrepareAt
  <2>2. Moves(x, "notify", AtOf(x))
    BY <1>1, <2>1, GotoMoves
  <2>3. AtOf(x) \in 1 .. Len(RequestsOf[d])
    BY <2>1 DEF Win32Frames, Win32Prepare
  <2>4. RequestsOf[d][AtOf(x)] \in loaded'
    BY <1>1, <2>1 DEF Current
  <2>5. Win32Prepare(d, x)'
    BY <2>2, <2>3, <2>4 DEF Moves, Win32Prepare
  <2>6. Rest(d, "notify", AtOf(x)) = Rest(d, PcOf(x), AtOf(x))
    BY <2>1, RestFacts
  <2> QED BY <1>1, <2>1, <2>2, <2>5, <2>6, PreparationGoesOn
<1>3. CASE At(t, "load", "loading")
  <2>1. PICK x \in FramePlaces :
           /\ IsTop(t, x) /\ JobOf(x).kind = "load" /\ PcOf(x) = "loading"
           /\ JobOf(x) = Top(t).job /\ AtOf(x) = Top(t).at /\ stack[t] # <<>>
    BY <1>3, TopAt
  <2>2. Moves(x, "notify", AtOf(x))
    BY <1>1, <2>1, GotoMoves
  <2>3. QueuedStay
    BY <1>1 DEF QueuedStay, IsQueuedFor
  <2>4. PreparesStay /\ LoadersStay
    BY <2>1, <2>2, <2>3, OthersMove, LoadersMove DEF HasRequest
  <2>5. AtOf(x) \in AllOf /\ AtOf(x) \in loaded'
    BY <1>1, <2>1 DEF Win32Frames, Win32Load, Current
  <2>6. Win32Load(x)'
    BY <2>2, <2>5 DEF Win32Load, Moves
  <2>7. Win32Frames'
    BY <1>1, <2>1, <2>2, <2>6, Win32FramesMove
  <2>8. DelaysBegin'
    BY <1>1, BeginsAreDelayed
  <2> QED BY <1>1, <2>4, <2>7, <2>8, Win32Stays
<1> QED BY <1>2, <1>3 DEF LoadAssetData, Loading

LEMMA NotifyLoads ==
    ASSUME Win32Loading, NEW t \in Threads, NotifyForAssetIORequestCompletion(t), UNCHANGED requested
    PROVE  PreparedOnce' /\ Win32Inv'
<1> USE Win32Parts
<1>1. PICK r, d : r = Current(t) /\ d = DependencyOf(r)
  OBVIOUS
<1>2. /\ mActiveRequestCounter' = [mActiveRequestCounter EXCEPT ![d] = @ - 1]
      /\ mAssetRequestFinished' = mAssetRequestFinished
                                  \cup (IF mActiveRequestCounter[d] = 1 THEN {d} ELSE {})
      /\ UNCHANGED <<mJobQueue, mSubmissionInfoArr, loaded, mActive, deleted, mRequestQueueArr>>
  BY <1>1 DEF NotifyForAssetIORequestCompletion
<1>3. RequestsDiffer /\ RequestsDiffer' /\ \A s : InQueue(s)' <=> InQueue(s)
  <2>1. QueuePlaces' = QueuePlaces /\ \A y : QueuedAt(y)' = QueuedAt(y)
    BY <1>2 DEF QueuePlaces, QueuedAt
  <2> QED BY <2>1 DEF OnePlace, RequestsDiffer, InQueue
<1>4. DelaysBegin'
  BY <1>2, BeginsAreDelayed
<1>5. ASSUME d \in Dependencies
      PROVE  mActiveRequestCounter' \in [Dependencies -> Int]
  <2>1. mActiveRequestCounter[d] - 1 \in Int
    BY <1>5
  <2> QED BY <1>2, <2>1
<1>6. CASE At(t, "prepare", "notify")
  <2>1. PICK e, x :
           /\ e \in Dependencies /\ x \in Preparing(e) /\ IsTop(t, x)
           /\ PcOf(x) = "notify" /\ AtOf(x) = Top(t).at /\ e = Top(t).job.dependency /\ stack[t] # <<>>
           /\ x \in FramePlaces /\ JobOf(x).kind = "prepare" /\ JobOf(x).dependency = e
           /\ Top(t).job.kind = "prepare"
    BY <1>6, PrepareAt
  <2>2. PICK at, n : at = AtOf(x) /\ n = Len(RequestsOf[e])
    OBVIOUS
  <2>3. at \in 1 .. n /\ n \in Nat /\ r = RequestsOf[e][at] /\ r \in loaded
    BY <1>1, <2>1, <2>2, RequestFacts DEF Win32Frames, Win32Prepare, Current
  <2>4. r \in Of(e) /\ d = e
    BY <1>1, <2>1, <2>2, <2>3, RequestFacts, DependencyFound
  <2>5. Moves(x, "push", at + 1)
    <3>1. Goto(t, "push", at + 1)
      BY <2>1, <2>2 DEF NotifyForAssetIORequestCompletion
    <3> QED BY <2>1, <3>1, GotoMoves
  <2>6. /\ PreparedOnce' /\ StartedStays /\ LoadersStay /\ Started(d)
        /\ \A f \in Dependencies : \A s : f # d => (IsUnpushed(f, s)' <=> IsUnpushed(f, s))
        /\ \A s : /\ IsUnpushed(d, s) <=> s \in Rest(d, "notify", at)
                  /\ IsUnpushed(d, s)' <=> s \in Rest(d, "push", at + 1)
    BY <1>2, <2>1, <2>2, <2>4, <2>5, PrepareGoesOn
  <2>7. /\ r \notin Rest(d, "push", at + 1)
        /\ Rest(d, "notify", at) = Rest(d, "push", at + 1) \cup {r}
    BY <2>2, <2>3, <2>1, <2>4, RestFacts
  <2>8. IsUnpushed(d, r) /\ ~ InQueue(r) /\ Loaders(r) = {} /\ ~ IsUnpushed(d, r)' /\ r \in Outstanding(d)
    BY <2>1, <2>4, <2>6, <2>7 DEF OnePlace, Outstanding
  <2>9. OthersStay(r) /\ Loaders(r)' = {} /\ ~ InQueue(r)'
    BY <1>3, <2>6, <2>7, <2>8 DEF OthersStay, LoadersStay
  <2>10. /\ OnePlace' /\ Outstanding(d)' = Outstanding(d) \ {r}
         /\ \A f \in Dependencies : f # d => Outstanding(f)' = Outstanding(f)
    BY <1>3, <2>1, <2>4, <2>6, <2>8, <2>9, OneGoesOn
  <2>11. RequestsAreCounted'
    BY <1>2, <2>1, <2>3, <2>4, <2>6, <2>8, <2>10, OneIsDone
  <2>12. Win32Prepare(JobOf(x).dependency, x)'
    BY <2>1, <2>2, <2>3, <2>5 DEF Moves, Win32Prepare
  <2>13. Win32Frames'
    BY <1>2, <2>1, <2>5, <2>12, Win32FramesMove
  <2> QED BY <1>2, <1>4, <1>5, <2>1, <2>4, <2>6, <2>10, <2>11, <2>13 DEF Win32Inv, Win32Types
<1>7. CASE At(t, "load", "notify")
  <2>1. PICK x \in FramePlaces :
           /\ IsTop(t, x) /\ JobOf(x).kind = "load" /\ PcOf(x) = "notify"
           /\ JobOf(x) = Top(t).job /\ AtOf(x) = Top(t).at /\ stack[t] # <<>>
    BY <1>7, TopAt
  <2>2. r = AtOf(x) /\ r \in AllOf /\ r \in loaded
    BY <1>1, <2>1 DEF Win32Frames, Win32Load, Current
  <2>3. d \in Dependencies /\ r \in Of(d) /\ Priority[r] \in Priorities
    BY <1>1, <2>2, OfAll, DependencyFound, RequestFacts
  <2>4. Moves(x, "pop", Priority[r])
    <3>1. Goto(t, "pop", Priority[r])
      BY <1>1, <2>1 DEF NotifyForAssetIORequestCompletion
    <3> QED BY <2>1, <3>1, GotoMoves
  <2>5. QueuedStay
    BY <1>2 DEF QueuedStay, IsQueuedFor
  <2>6. PreparesStay
    BY <2>1, <2>4, <2>5, OthersMove
  <2>7. PreparedOnce' /\ StartedStays /\ UnpushedStay
    BY <1>2, <2>6, PreparedStays, UnpushedAsPrepared
  <2>8. x \in Loaders(r)
    BY <2>1, <2>2 DEF Loaders
  <2>9. Loaders(r) = {x} /\ ~ InQueue(r) /\ Started(d) /\ ~ IsUnpushed(d, r) /\ r \in Outstanding(d)
    BY <2>3, <2>8 DEF OnePlace, Outstanding
  <2>10. Loaders(r)' = {} /\ \A s : s # r => Loaders(s)' = Loaders(s)
    <3>1. ASSUME NEW s PROVE Loaders(s)' = Loaders(s) \ {x}
      BY <2>1, <2>4, LoadersChange DEF HasRequest
    <3>2. \A s : s # r => x \notin Loaders(s)
      BY <2>2 DEF Loaders
    <3> QED BY <2>9, <3>1, <3>2
  <2>11. \A e \in Dependencies : \A s : IsUnpushed(e, s)' <=> IsUnpushed(e, s)
    BY <2>6 DEF PreparesStay, IsUnpushed, Rest
  <2>12. OthersStay(r) /\ ~ InQueue(r)' /\ ~ IsUnpushed(d, r)'
    BY <1>3, <2>3, <2>9, <2>10, <2>11 DEF OthersStay
  <2>13. /\ OnePlace' /\ Outstanding(d)' = Outstanding(d) \ {r}
         /\ \A f \in Dependencies : f # d => Outstanding(f)' = Outstanding(f)
    BY <1>3, <2>3, <2>7, <2>9, <2>10, <2>12, OneGoesOn
  <2>14. RequestsAreCounted'
    BY <1>2, <2>2, <2>3, <2>7, <2>9, <2>13, OneIsDone
  <2>15. Win32Load(x)'
    BY <2>3, <2>4 DEF Moves, Win32Load, Priorities
  <2>16. Win32Frames'
    BY <1>2, <2>1, <2>4, <2>15, Win32FramesMove
  <2> QED BY <1>2, <1>4, <1>5, <2>3, <2>7, <2>13, <2>14, <2>16 DEF Win32Inv, Win32Types
<1> QED BY <1>6, <1>7 DEF NotifyForAssetIORequestCompletion, Notifying

LEMMA TryPopLoads ==
    ASSUME Win32Loading, NEW t \in Threads, TryPop(t), UNCHANGED requested
    PROVE  PreparedOnce' /\ Win32Inv'
<1> USE Win32Parts
<1>1. PICK x \in FramePlaces :
         /\ IsTop(t, x) /\ JobOf(x).kind = "load" /\ PcOf(x) = "pop"
         /\ JobOf(x) = Top(t).job /\ AtOf(x) = Top(t).at /\ stack[t] # <<>>
  BY TopAt DEF TryPop
<1>2. PICK p : p = Top(t).at
  OBVIOUS
<1>3. p \in 0 .. PRIORITY_COUNT /\ PRIORITY_COUNT \in Nat
  BY <1>1, <1>2, RequestFacts DEF Win32Frames, Win32Load
<1>4. UNCHANGED <<mJobQueue, mAssetRequestFinished, loaded, mActive, deleted, mActiveRequestCounter>>
  BY DEF TryPop
<1>5. QueuedStay
  BY <1>4 DEF QueuedStay, IsQueuedFor
<1>6. CASE p > 0 /\ mRequestQueueArr[p] # <<>>
  <2>1. PICK r : r = Head(mRequestQueueArr[p])
    OBVIOUS
  <2>2. /\ Goto(t, "loading", r) /\ UNCHANGED mSubmissionInfoArr
        /\ mRequestQueueArr' = [mRequestQueueArr EXCEPT ![p] = Tail(@)]
    BY <1>2, <1>6, <2>1 DEF TryPop
  <2>3. p \in Priorities /\ RequestsDiffer
    BY <1>3, <1>6 DEF Priorities, OnePlace, RequestsDiffer
  <2>4. /\ mRequestQueueArr' \in [Priorities -> Seq(AllOf)] /\ RequestsDiffer'
        /\ r \in AllOf /\ InQueue(r)
        /\ \A s : InQueue(s)' <=> InQueue(s) /\ s # r
    BY <1>6, <2>1, <2>2, <2>3, RequestPopped
  <2>5. PICK d \in Dependencies : r \in Of(d)
    BY <2>4, OfAll
  <2>6. Moves(x, "loading", r)
    BY <1>1, <2>2, GotoMoves
  <2>7. PreparesStay
    BY <1>1, <1>5, <2>6, OthersMove
  <2>8. PreparedOnce' /\ StartedStays /\ UnpushedStay
    BY <1>4, <2>7, PreparedStays, UnpushedAsPrepared
  <2>9. Loaders(r) = {} /\ Started(d) /\ ~ IsUnpushed(d, r) /\ r \in Outstanding(d)
    BY <2>4, <2>5 DEF OnePlace, Outstanding
  <2>10. Loaders(r)' = {x} /\ \A s : s # r => Loaders(s)' = Loaders(s)
    <3>1. ASSUME NEW s PROVE Loaders(s)' = IF s = r THEN Loaders(s) \cup {x} ELSE Loaders(s) \ {x}
      BY <1>1, <2>6, LoadersChange DEF HasRequest
    <3>2. \A s : x \notin Loaders(s)
      BY <1>1 DEF Loaders
    <3> QED BY <2>9, <3>1, <3>2
  <2>11. \A e \in Dependencies : \A s : IsUnpushed(e, s)' <=> IsUnpushed(e, s)
    BY <2>7 DEF PreparesStay, IsUnpushed, Rest
  <2>12. OthersStay(r) /\ ~ InQueue(r)' /\ ~ IsUnpushed(d, r)'
    BY <2>4, <2>9, <2>10, <2>11 DEF OthersStay
  <2>13. OnePlace' /\ \A e \in Dependencies : Outstanding(e)' = Outstanding(e)
    BY <2>4, <2>5, <2>8, <2>9, <2>10, <2>12, OneGoesOn
  <2>14. RequestsAreCounted'
    BY <1>4, <2>8, <2>13, CountStays
  <2>15. Win32Load(x)'
    BY <2>4, <2>6 DEF Moves, Win32Load
  <2>16. Win32Frames'
    BY <1>1, <1>4, <2>6, <2>15, Win32FramesMove
  <2>17. DelaysBegin'
    BY <2>2, BeginsAreDelayed
  <2> QED BY <1>4, <2>4, <2>8, <2>13, <2>14, <2>16, <2>17 DEF Win32Inv, Win32Types
<1>7. CASE p > 0 /\ mRequestQueueArr[p] = <<>>
  <2>1. Goto(t, "pop", p - 1) /\ UNCHANGED <<mSubmissionInfoArr, mRequestQueueArr>>
    BY <1>2, <1>7 DEF TryPop
  <2>2. Moves(x, "pop", p - 1)
    BY <1>1, <2>1, GotoMoves
  <2>3. PreparesStay /\ LoadersStay
    BY <1>1, <1>5, <2>2, OthersMove, LoadersMove DEF HasRequest
  <2>4. Win32Load(x)'
    BY <1>3, <1>7, <2>2 DEF Moves, Win32Load
  <2>5. Win32Frames' /\ DelaysBegin'
    BY <1>1, <1>4, <2>1, <2>2, <2>4, Win32FramesMove, BeginsAreDelayed
  <2> QED BY <1>4, <2>1, <2>3, <2>5, Win32Stays
<1>8. CASE ~ (p > 0)
  <2>1. LeaveLoading(t, ActiveRequests) /\ Return(t) /\ UNCHANGED mRequestQueueArr
    BY <1>2, <1>8 DEF TryPop
  <2>2. Leaves(x)
    BY <1>1, <2>1, ReturnLeaves
  <2>3. PreparesStay /\ LoadersStay /\ Win32Frames'
    BY <1>1, <1>4, <1>5, <2>2, OthersLeave, LoadersLeave, Win32FramesLeave DEF HasRequest
  <2>4. DelaysBegin'
    BY <2>1, BeginsAreDelayed DEF LeaveLoading
  <2> QED BY <1>4, <2>1, <2>3, <2>4, Win32Stays
<1> QED BY <1>6, <1>7, <1>8

\* The jobs that start the loading.
LEMMA BeginLoads ==
    ASSUME Win32Loading, NEW t \in Threads, BeginAssetLoading(t) \/ IsEmpty(t) \/ ExecuteJobsAsync(t),
           UNCHANGED requested
    PROVE  PreparedOnce' /\ Win32Inv'
<1> USE Win32Parts
<1>1. /\ UNCHANGED <<mAssetRequestFinished, loaded, mActive, deleted, mActiveRequestCounter,
                     mRequestQueueArr>>
      /\ \E pc : At(t, "begin", pc)
      /\ Return(t) \/ \E pc, at : Goto(t, pc, at)
      /\ \/ UNCHANGED mSubmissionInfoArr
         \/ \E event : Delay(t, event, BeginLoading)
      /\ UNCHANGED mJobQueue \/ mJobQueue' = mJobQueue \cup {LoadJob(n) : n \in 1 .. LOADING_THREADS}
  BY DEF BeginAssetLoading, IsEmpty, ExecuteJobsAsync, requestVars, win32Vars, Dispatch
<1>2. PICK x \in FramePlaces : IsTop(t, x) /\ JobOf(x).kind = "begin" /\ stack[t] # <<>>
  BY <1>1, TopAt
<1>3. \A n : LoadJob(n).kind = "load"
  BY DEF LoadJob
<1>4. QueuedStay
  BY <1>1, <1>3, KindFacts DEF QueuedStay, IsQueuedFor
<1>5. DelaysBegin' /\ \A j \in mJobQueue' : j.kind # "notification"
  BY <1>1, <1>3, BeginsAreDelayed
<1>6. CASE Return(t)
  <2>1. Leaves(x)
    BY <1>2, <1>6, ReturnLeaves
  <2>2. PreparesStay /\ LoadersStay /\ Win32Frames'
    BY <1>1, <1>2, <1>4, <2>1, OthersLeave, LoadersLeave, Win32FramesLeave
  <2> QED BY <1>1, <1>5, <2>2, Win32Stays
<1>7. ASSUME NEW pc, NEW at, Goto(t, pc, at)
      PROVE  PreparedOnce' /\ Win32Inv'
  <2>1. Moves(x, pc, at)
    BY <1>2, <1>7, GotoMoves
  <2>2. PreparesStay /\ LoadersStay /\ Win32Frames'
    BY <1>1, <1>2, <1>4, <2>1, OthersMove, LoadersMove, Win32FramesMove
  <2> QED BY <1>1, <1>5, <2>2, Win32Stays
<1> QED BY <1>1, <1>6, <1>7

LEMMA ExecuteLoads ==
    ASSUME Win32Loading, NEW t \in Threads, ExecuteAssetIORequests(t), UNCHANGED requested
    PROVE  PreparedOnce' /\ Win32Inv'
<1> USE Win32Parts
<1>1. PICK x \in FramePlaces :
         IsTop(t, x) /\ JobOf(x).kind = "load" /\ PcOf(x) = "start" /\ stack[t] # <<>>
  BY TopAt DEF ExecuteAssetIORequests
<1>2. /\ Goto(t, "pop", PRIORITY_COUNT)
      /\ UNCHANGED <<mJobQueue, mSubmissionInfoArr, mAssetRequestFinished, loaded, mActive, deleted,
                     mActiveRequestCounter, mRequestQueueArr>>
  BY DEF ExecuteAssetIORequests, requestVars, win32Vars
<1>3. Moves(x, "pop", PRIORITY_COUNT)
  BY <1>1, <1>2, GotoMoves
<1>4. QueuedStay
  BY <1>2 DEF QueuedStay, IsQueuedFor
<1>5. PreparesStay /\ LoadersStay
  BY <1>1, <1>3, <1>4, OthersMove, LoadersMove DEF HasRequest
<1>6. Win32Load(x)'
  BY <1>3, RequestFacts DEF Moves, Win32Load
<1>7. Win32Frames' /\ DelaysBegin'
  BY <1>1, <1>2, <1>3, <1>6, Win32FramesMove, BeginsAreDelayed
<1> QED BY <1>2, <1>5, <1>7, Win32Stays

LEMMA Win32Loads ==
    ASSUME Win32Loading, NEW t \in Threads, Win32Step(t), UNCHANGED requested
    PROVE  PreparedOnce' /\ Win32Inv'
BY FinalizeLoads, PushBackLoads, AddActiveLoads, StoreLoads, LoadAssetDataLoads, NotifyLoads,
   BeginLoads, ExecuteLoads, TryPopLoads DEF Win32Step

-----------------------------------------------------------------------------
(* The notifications of the DirectStorage handler.                             *)

NotesQueuedStay == \A d \in Dependencies, p \in Priorities : NoteIsQueued(d, p)' <=> NoteIsQueued(d, p)
NoteFramesStay  == \A d \in Dependencies, p \in Priorities : NoteFrames(d, p)' = NoteFrames(d, p)
DelaysDiffer(d, p) == \A x, y \in NoteDelays(d, p) : x = y
NoteDelayStays(d, p) ==
    /\ NoteDelays(d, p)' = {} <=> NoteDelays(d, p) = {}
    /\ DelaysDiffer(d, p)'
    /\ \A z \in NoteDelays(d, p)' : \E y \in NoteDelays(d, p) : DelayedEvent(z)' = DelayedEvent(y)
NoteDelaysStay == \A d \in Dependencies, p \in Priorities : NoteDelayStays(d, p)
StatusGrows == \A p \in Priorities, i \in Entries : statusArr[p][i] \subseteq statusArr'[p][i]

LEMMA NoteFramesMove ==
    ASSUME NEW x \in FramePlaces, NEW pc, NEW at, Moves(x, pc, at)
    PROVE  NoteFramesStay
<1>1. FramePlaces' = FramePlaces /\ \A y \in FramePlaces : JobOf(y)' = JobOf(y)
  BY DEF Moves, Kept
<1> QED BY <1>1 DEF NoteFramesStay, NoteFrames

LEMMA NoteFramesLeave ==
    ASSUME NEW x \in FramePlaces, Leaves(x), NEW d, NEW p
    PROVE  NoteFrames(d, p)' = NoteFrames(d, p) \ {x}
<1>1. FramePlaces' = FramePlaces \ {x} /\ \A y \in FramePlaces \ {x} : JobOf(y)' = JobOf(y)
  BY DEF Leaves, Kept
<1> QED BY <1>1 DEF NoteFrames

LEMMA NoteFramesCome ==
    ASSUME NEW x, NEW j, Comes(x, j), NEW d, NEW p
    PROVE  NoteFrames(d, p)' = IF j = Notification(d, p) THEN NoteFrames(d, p) \cup {x}
                                                         ELSE NoteFrames(d, p)
<1>1. /\ FramePlaces' = FramePlaces \cup {x} /\ x \notin FramePlaces
      /\ \A y \in FramePlaces : JobOf(y)' = JobOf(y)
      /\ JobOf(x)' = j
  BY DEF Comes, Kept
<1> QED BY <1>1 DEF NoteFrames

\* A step of a job that is no notification.
LEMMA OtherFramesStay ==
    ASSUME NEW x, JobOf(x).kind # "notification", x \in FramePlaces, Leaves(x)
    PROVE  NoteFramesStay
<1>1. ASSUME NEW d, NEW p PROVE x \notin NoteFrames(d, p)
  BY KindFacts DEF NoteFrames
<1> QED BY <1>1, NoteFramesLeave DEF NoteFramesStay

LEMMA DelaysAsBefore ==
    ASSUME UNCHANGED mSubmissionInfoArr, NEW d, NEW p, DelaysDiffer(d, p)
    PROVE  NoteDelayStays(d, p)
<1>1. NoteDelays(d, p)' = NoteDelays(d, p) /\ \A z : DelayedEvent(z)' = DelayedEvent(z)
  BY DEF NoteDelays, DelayPlaces, DelayedJob, DelayedEvent
<1> QED BY <1>1 DEF NoteDelayStays, DelaysDiffer

LEMMA NoteDelaysCome ==
    ASSUME NEW z, NEW e, NEW j, DelayComes(z, e, j), NEW d, NEW p
    PROVE  /\ NoteDelays(d, p)' = IF j = Notification(d, p) THEN NoteDelays(d, p) \cup {z}
                                                            ELSE NoteDelays(d, p)
           /\ \A y \in NoteDelays(d, p) : DelayedEvent(y)' = DelayedEvent(y)
<1>1. /\ DelayPlaces' = DelayPlaces \cup {z} /\ z \notin DelayPlaces
      /\ \A y \in DelayPlaces : DelayKept(y)
      /\ DelayedJob(z)' = j
  BY DEF DelayComes
<1> QED BY <1>1 DEF NoteDelays, DelayKept

LEMMA OtherDelayComes ==
    ASSUME NEW z, NEW e, NEW j, DelayComes(z, e, j), NEW d, NEW p, j # Notification(d, p),
           DelaysDiffer(d, p)
    PROVE  NoteDelayStays(d, p)
BY NoteDelaysCome DEF NoteDelayStays, DelaysDiffer

LEMMA NoteDelaysLeave ==
    ASSUME NEW z, DelayLeaves(z), NEW d, NEW p, DelaysDiffer(d, p)
    PROVE  /\ DelayedJob(z) # Notification(d, p) => NoteDelayStays(d, p)
           /\ DelayedJob(z) = Notification(d, p) => NoteDelays(d, p)' = {}
<1>1. PICK old \in [DelayPlaces' -> DelayPlaces \ {z}] :
         /\ \A x, y \in DelayPlaces' : old[x] = old[y] => x = y
         /\ \A y \in DelayPlaces' : /\ DelayedJob(y)' = DelayedJob(old[y])
                                    /\ DelayedEvent(y)' = DelayedEvent(old[y])
         /\ \A y \in DelayPlaces \ {z} : \E x \in DelayPlaces' : old[x] = y
  BY DEF DelayLeaves
<1>2. \A y \in DelayPlaces' : y \in NoteDelays(d, p)' <=> old[y] \in NoteDelays(d, p)
  BY <1>1 DEF NoteDelays
<1>3. NoteDelays(d, p) \subseteq DelayPlaces /\ NoteDelays(d, p)' \subseteq DelayPlaces'
  BY DEF NoteDelays
<1>4. ASSUME DelayedJob(z) # Notification(d, p)
      PROVE  NoteDelayStays(d, p)
  <2>1. z \notin NoteDelays(d, p)
    BY <1>4 DEF NoteDelays
  <2>2. NoteDelays(d, p)' = {} <=> NoteDelays(d, p) = {}
    BY <1>1, <1>2, <1>3, <2>1
  <2>3. DelaysDiffer(d, p)'
    BY <1>1, <1>2, <1>3 DEF DelaysDiffer
  <2>4. \A y \in NoteDelays(d, p)' : \E x \in NoteDelays(d, p) : DelayedEvent(y)' = DelayedEvent(x)
    BY <1>1, <1>2, <1>3
  <2> QED BY <2>2, <2>3, <2>4 DEF NoteDelayStays
<1>5. ASSUME DelayedJob(z) = Notification(d, p)
      PROVE  NoteDelays(d, p)' = {}
  <2>1. z \in NoteDelays(d, p)
    BY <1>5 DEF NoteDelays, DelayLeaves
  <2>2. \A y \in NoteDelays(d, p) : y = z
    BY <2>1 DEF DelaysDiffer
  <2> QED BY <1>1, <1>2, <1>3, <2>2
<1> QED BY <1>4, <1>5

\* A notification stays where it is.
LEMMA NoteStays ==
    ASSUME NEW d \in Dependencies, NEW p \in Priorities, OneNote(d, p), NoteFollows(d, p),
           NoteIsQueued(d, p)' <=> NoteIsQueued(d, p), NoteFrames(d, p)' = NoteFrames(d, p),
           NoteDelayStays(d, p), Started(d) => Started(d)', IsToCome(d, p)' => IsToCome(d, p),
           loaded \subseteq loaded', StatusGrows
    PROVE  OneNote(d, p)' /\ NoteFollows(d, p)' /\ (NoteLives(d, p)' <=> NoteLives(d, p))
<1>1. NoteLives(d, p)' <=> NoteLives(d, p)
  BY DEF NoteLives, NoteDelayStays
<1>2. OneNote(d, p)'
  BY <1>1 DEF OneNote, NoteDelayStays, DelaysDiffer
<1>3. NoteIsQueued(d, p)' \/ NoteFrames(d, p)' # {} => Relevant(d, p) \subseteq loaded'
  BY DEF NoteFollows
<1>4. ASSUME NEW z \in NoteDelays(d, p)'
      PROVE  \E i \in Entries :
                DelayedEvent(z)' = StatusEntry(p, i) /\ Relevant(d, p) \subseteq statusArr'[p][i]
  <2>1. PICK y \in NoteDelays(d, p) : DelayedEvent(z)' = DelayedEvent(y)
    BY DEF NoteDelayStays
  <2>2. PICK i \in Entries : DelayedEvent(y) = StatusEntry(p, i) /\ Relevant(d, p) \subseteq statusArr[p][i]
    BY DEF NoteFollows
  <2> QED BY <2>1, <2>2 DEF StatusGrows
<1>5. NoteFollows(d, p)'
  BY <1>3, <1>4 DEF NoteFollows
<1> QED BY <1>1, <1>2, <1>5

LEMMA EntriesStay ==
    ASSUME EntriesAreCounted, StartedStays, \A d \in Dependencies : Completed(d)' = Completed(d),
           UNCHANGED <<mNumStatusArrayEntriesCompleted, mAssetRequestFinished>>,
           loaded \subseteq loaded'
    PROVE  EntriesAreCounted'
<1>1. ASSUME NEW d \in Dependencies
      PROVE  IF Started(d)'
             THEN /\ mNumStatusArrayEntriesCompleted'[d] = Cardinality(Completed(d)')
                  /\ \A p \in Completed(d)' : Relevant(d, p) \subseteq loaded'
             ELSE mNumStatusArrayEntriesCompleted'[d] = 0
  BY DEF EntriesAreCounted, StartedStays
<1>2. mAssetRequestFinished' \subseteq {d \in Dependencies : Started(d)' /\ Completed(d)' = EntriesOf(d)}
  BY DEF EntriesAreCounted, StartedStays
<1> QED BY <1>1, <1>2 DEF EntriesAreCounted

ToComeStays == \A d \in Dependencies, p \in Priorities : IsToCome(d, p)' <=> IsToCome(d, p)

LEMMA ToComeAsPrepared ==
    ASSUME PreparesStay
    PROVE  ToComeStays
<1>1. ASSUME NEW d \in Dependencies, NEW p
      PROVE  IsToCome(d, p)' <=> IsToCome(d, p)
  BY DEF PreparesStay, IsToCome
<1> QED BY <1>1 DEF ToComeStays

\* All notifications stay where they are.
LEMMA NotesStay ==
    ASSUME NotesAreRight, EntriesAreCounted, StartedStays, ToComeStays,
           NotesQueuedStay, NoteFramesStay, NoteDelaysStay, StatusGrows, loaded \subseteq loaded',
           UNCHANGED <<mNumStatusArrayEntriesCompleted, mAssetRequestFinished>>
    PROVE  NotesAreRight' /\ EntriesAreCounted'
<1>1. ASSUME NEW d \in Dependencies, NEW p \in Priorities
      PROVE  OneNote(d, p)' /\ NoteFollows(d, p)' /\ (NoteLives(d, p)' <=> NoteLives(d, p))
  <2>1. OneNote(d, p) /\ NoteFollows(d, p)
    BY DEF NotesAreRight
  <2> QED BY <2>1, NoteStays DEF StartedStays, ToComeStays, NotesQueuedStay, NoteFramesStay, NoteDelaysStay
<1>2. \A d \in Dependencies : Completed(d)' = Completed(d)
  BY <1>1 DEF Completed, EntriesOf, ToComeStays
<1> QED BY <1>1, <1>2, EntriesStay DEF NotesAreRight

-----------------------------------------------------------------------------
(* The steps of the DirectStorage handler.                                     *)

\* What the invariant says of the DirectStorage handler, in all.
DirectLoading == Types /\ PreparedOnce /\ DirectInv

LEMMA DirectParts ==
    ASSUME DirectLoading
    PROVE  /\ StackTypes /\ DelayTypes /\ mJobQueue \subseteq Jobs /\ PreparedOnce
           /\ DirectFrames /\ OneDecompression /\ StatusTypes /\ NoDelayedPrepare
           /\ mNumStatusArrayEntriesCompleted \in [Dependencies -> Int]
           /\ NotesAreRight /\ EntriesAreCounted
BY DEF DirectLoading, DirectInv, DirectTypes, Types

LEMMA DirectFramesMove ==
    ASSUME DirectFrames, NEW x \in FramePlaces, NEW pc, NEW at, Moves(x, pc, at), DirectFrame(x)'
    PROVE  DirectFrames'
<1>1. ASSUME NEW y \in FramePlaces, y # x PROVE DirectFrame(y)'
  BY <1>1 DEF Moves, Kept, DirectFrames, DirectFrame
<1> QED BY <1>1 DEF Moves, DirectFrames

LEMMA DirectFramesLeave ==
    ASSUME DirectFrames, NEW x \in FramePlaces, Leaves(x)
    PROVE  DirectFrames'
<1>1. ASSUME NEW y \in FramePlaces, y # x PROVE DirectFrame(y)'
  BY <1>1 DEF Leaves, Kept, DirectFrames, DirectFrame
<1> QED BY <1>1 DEF Leaves, DirectFrames

LEMMA DirectFramesCome ==
    ASSUME DirectFrames, NEW x, NEW j, Comes(x, j)
    PROVE  DirectFrames'
<1>1. ASSUME NEW y \in FramePlaces PROVE DirectFrame(y)'
  BY DEF Comes, Kept, DirectFrames, DirectFrame
<1>2. DirectFrame(x)'
  BY DEF Comes, DirectFrame
<1> QED BY <1>1, <1>2 DEF Comes, DirectFrames

DecompressingStays == Decompressing' = Decompressing /\ \A x \in Decompressing : AtOf(x)' = AtOf(x)

LEMMA DecompressingMoves ==
    ASSUME NEW x \in FramePlaces, NEW pc, NEW at, Moves(x, pc, at),
           JobOf(x).kind = "load" => PcOf(x) # "decompress" /\ pc # "decompress"
    PROVE  DecompressingStays
<1>1. ASSUME NEW y \in FramePlaces PROVE y \in Decompressing' <=> y \in Decompressing
  BY DEF Decompressing, Moves, Kept
<1>2. x \notin Decompressing
  BY DEF Decompressing
<1> QED BY <1>1, <1>2 DEF DecompressingStays, Decompressing, Moves, Kept

LEMMA DecompressingLeaves ==
    ASSUME NEW x \in FramePlaces, Leaves(x), JobOf(x).kind = "load" => PcOf(x) # "decompress"
    PROVE  DecompressingStays
<1>1. ASSUME NEW y \in FramePlaces, y # x PROVE y \in Decompressing' <=> y \in Decompressing
  BY <1>1 DEF Decompressing, Leaves, Kept
<1>2. x \notin Decompressing
  BY DEF Decompressing
<1> QED BY <1>1, <1>2 DEF DecompressingStays, Decompressing, Leaves, Kept

LEMMA DecompressingComes ==
    ASSUME NEW x, NEW j, Comes(x, j)
    PROVE  DecompressingStays
<1>1. ASSUME NEW y \in FramePlaces PROVE y \in Decompressing' <=> y \in Decompressing
  BY DEF Decompressing, Comes, Kept
<1>2. x \notin Decompressing'
  BY DEF Decompressing, Comes
<1> QED BY <1>1, <1>2 DEF DecompressingStays, Decompressing, Comes, Kept

LEMMA DecompressionStays ==
    ASSUME OneDecompression, DecompressingStays, UNCHANGED <<loaded, read, decompression>>
    PROVE  OneDecompression'
BY DEF OneDecompression, DecompressingStays

LEMMA OthersAreDelayed ==
    ASSUME NoDelayedPrepare, DelayTypes,
           \/ UNCHANGED mSubmissionInfoArr
           \/ \E t \in Threads : \E event : \E j : Delay(t, event, j) /\ j.kind # "prepare"
    PROVE  NoDelayedPrepare'
<1>1. CASE UNCHANGED mSubmissionInfoArr
  BY <1>1 DEF NoDelayedPrepare, DelayPlaces, DelayedJob
<1>2. ASSUME NEW t \in Threads, NEW event, NEW j, Delay(t, event, j), j.kind # "prepare"
      PROVE  NoDelayedPrepare'
  <2>1. PICK z : DelayComes(z, event, j)
    BY <1>2, DelayedComes
  <2> QED BY <1>2, <2>1 DEF NoDelayedPrepare, DelayComes, DelayKept
<1> QED BY <1>1, <1>2

\* No notification is delayed or submitted.
LEMMA DelaysStay ==
    ASSUME NotesAreRight, DelayTypes,
           \/ UNCHANGED mSubmissionInfoArr
           \/ \E t \in Threads : \E event : Delay(t, event, BeginLoading)
    PROVE  NoteDelaysStay
<1>1. ASSUME NEW d \in Dependencies, NEW p \in Priorities PROVE NoteDelayStays(d, p)
  <2>1. DelaysDiffer(d, p)
    BY DEF NotesAreRight, OneNote, DelaysDiffer
  <2>2. ASSUME NEW t \in Threads, NEW event, Delay(t, event, BeginLoading)
        PROVE  NoteDelayStays(d, p)
    <3>1. PICK z : DelayComes(z, event, BeginLoading)
      BY <2>2, DelayedComes
    <3>2. BeginLoading # Notification(d, p)
      BY KindFacts
    <3> QED BY <2>1, <3>1, <3>2, OtherDelayComes
  <2> QED BY <2>1, <2>2, DelaysAsBefore
<1> QED BY <1>1 DEF NoteDelaysStay

\* A step without preparations and without notifications.
LEMMA DirectStays ==
    ASSUME DirectLoading, PreparesStay, NoteFramesStay, NotesQueuedStay,
           \/ UNCHANGED mSubmissionInfoArr
           \/ \E t \in Threads : \E event : Delay(t, event, BeginLoading),
           UNCHANGED <<requested, mAssetRequestFinished, mNumStatusArrayEntriesCompleted,
                       mRequestQueueArr, enqueued, statusArr, mCurrStatusArrayEntryIndex>>,
           mActive' \cup deleted' \subseteq mActive \cup deleted,
           deleted' \subseteq deleted \cup mAssetRequestFinished, loaded \subseteq loaded',
           DirectFrames', OneDecompression'
    PROVE  PreparedOnce' /\ DirectInv'
<1> USE DirectParts
<1>1. PreparedOnce' /\ StartedStays /\ ToComeStays
  BY PreparedStays, ToComeAsPrepared
<1>2. NoteDelaysStay /\ NoDelayedPrepare'
  BY KindFacts, DelaysStay, OthersAreDelayed
<1>3. StatusGrows
  BY DEF StatusGrows
<1>4. NotesAreRight' /\ EntriesAreCounted'
  BY <1>1, <1>2, <1>3, NotesStay
<1>5. StatusTypes'
  BY DEF StatusTypes
<1> QED BY <1>1, <1>2, <1>4, <1>5 DEF DirectInv, DirectTypes, DirectLoading

LEMMA EntriesOfFinite ==
    ASSUME NEW d \in Dependencies
    PROVE  /\ IsFiniteSet(EntriesOf(d)) /\ TotalStatusArrayEntryCount(d) = Cardinality(EntriesOf(d))
           /\ \A r \in Of(d) : Priority[r] \in EntriesOf(d) /\ r \in Relevant(d, Priority[r])
           /\ \A p \in Priorities : Relevant(d, p) \subseteq Requests
<1>1. PRIORITY_COUNT \in Nat
  BY RequestFacts
<1>2. IsFiniteSet(Priorities)
  BY <1>1, FS_Interval DEF Priorities
<1>3. IsFiniteSet(EntriesOf(d))
  BY <1>2, FS_Subset DEF EntriesOf
<1>4. TotalStatusArrayEntryCount(d) = Cardinality(EntriesOf(d))
  BY DEF TotalStatusArrayEntryCount, EntriesOf
<1>5. \A r \in Of(d) : Priority[r] \in EntriesOf(d) /\ r \in Relevant(d, Priority[r])
  BY RequestFacts DEF EntriesOf, Relevant
<1>6. \A p \in Priorities : Relevant(d, p) \subseteq Requests
  BY RequestFacts DEF Relevant
<1> QED BY <1>3, <1>4, <1>5, <1>6

\* A preparation goes on, and tells which notifications are to come.
LEMMA ToComeMoves ==
    ASSUME PreparedOnce, NEW d \in Dependencies, NEW x \in Preparing(d), PcOf(x) # "store",
           NEW pc, NEW at, Moves(x, pc, at), pc \notin {"start", "store"},
           UNCHANGED <<requested, deleted, mActive, mJobQueue>>,
           mAssetRequestFinished \subseteq mAssetRequestFinished'
    PROVE  /\ PreparedOnce'
           /\ \A e \in Dependencies : Started(e)' <=> Started(e) \/ e = d
           /\ \A e \in Dependencies : \A p : e # d => (IsToCome(e, p)' <=> IsToCome(e, p))
           /\ \A p : /\ IsToCome(d, p) <=> PcOf(x) = "enqueue" /\ AtOf(x) <= p
                     /\ IsToCome(d, p)' <=> pc = "enqueue" /\ at <= p
<1>1. /\ PreparedOnce'
      /\ \A e \in Dependencies : Started(e)' <=> Started(e) \/ e = d
      /\ \A e \in Dependencies : Preparing(e)' = Preparing(e)
      /\ Preparing(d) = {x}
      /\ \A e \in Dependencies : \A y \in Preparing(e) : e # d => y # x /\ Kept(y)
  BY PreparedMoves
<1>2. ASSUME NEW e \in Dependencies, NEW p, e # d
      PROVE  IsToCome(e, p)' <=> IsToCome(e, p)
  BY <1>1, <1>2 DEF IsToCome, Kept
<1>3. ASSUME NEW p
      PROVE  /\ IsToCome(d, p) <=> PcOf(x) = "enqueue" /\ AtOf(x) <= p
             /\ IsToCome(d, p)' <=> pc = "enqueue" /\ at <= p
  BY <1>1 DEF IsToCome, Moves
<1> QED BY <1>1, <1>2, <1>3

LEMMA CreatePendingLoads ==
    ASSUME DirectLoading, NEW t \in Threads, CreatePendingRequest(t),
           UNCHANGED <<requested, mRequestQueueArr>>
    PROVE  PreparedOnce' /\ DirectInv'
<1> USE DirectParts
<1>1. PICK d, x :
         /\ d \in Dependencies /\ x \in Preparing(d) /\ IsTop(t, x)
         /\ PcOf(x) = "start" /\ d = Top(t).job.dependency /\ stack[t] # <<>>
         /\ x \in FramePlaces /\ JobOf(x).kind = "prepare"
  BY PrepareAt DEF CreatePendingRequest
<1>2. /\ Goto(t, "enqueue", 1)
      /\ mAssetRequestFinished' = mAssetRequestFinished
            \cup (IF TotalStatusArrayEntryCount(d) = 0 THEN {d} ELSE {})
      /\ UNCHANGED <<mJobQueue, mSubmissionInfoArr, loaded, mActive, deleted,
                     mNumStatusArrayEntriesCompleted, read, decompression,
                     enqueued, statusArr, mCurrStatusArrayEntryIndex>>
  BY <1>1 DEF CreatePendingRequest, directVars, storageVars, queueVars
<1>3. Moves(x, "enqueue", 1)
  BY <1>1, <1>2, GotoMoves
<1>4. /\ PreparedOnce'
      /\ \A e \in Dependencies : Started(e)' <=> Started(e) \/ e = d
      /\ \A e \in Dependencies : \A p : e # d => (IsToCome(e, p)' <=> IsToCome(e, p))
      /\ \A p : IsToCome(d, p)' <=> 1 <= p
  BY <1>1, <1>2, <1>3, ToComeMoves
<1>5. ~ Started(d)
  BY <1>1 DEF Started
<1>6. NoteFramesStay /\ NotesQueuedStay /\ NoteDelaysStay /\ StatusGrows
  BY <1>1, <1>2, <1>3, NoteFramesMove, DelaysStay DEF NotesQueuedStay, NoteIsQueued, StatusGrows
<1>7. ASSUME NEW e \in Dependencies, NEW p \in Priorities
      PROVE  /\ OneNote(e, p)' /\ NoteFollows(e, p)'
             /\ NoteLives(e, p)' <=> NoteLives(e, p)
  <2>1. OneNote(e, p) /\ NoteFollows(e, p)
    BY DEF NotesAreRight
  <2>2. CASE e # d
    BY <1>2, <1>4, <1>6, <2>1, <2>2, NoteStays DEF NoteFramesStay, NotesQueuedStay, NoteDelaysStay
  <2>3. CASE e = d
    <3>1. ~ NoteLives(d, p)
      BY <1>5, <2>1, <2>3 DEF OneNote
    <3>2. ~ NoteIsQueued(d, p)' /\ NoteFrames(d, p)' = {} /\ NoteDelays(d, p)' = {}
      BY <1>1, <1>6, <3>1 DEF NoteLives, NoteFramesStay, NotesQueuedStay, NoteDelaysStay, NoteDelayStays
    <3> QED BY <2>3, <3>1, <3>2 DEF OneNote, NoteFollows, NoteLives
  <2> QED BY <2>2, <2>3
<1>8. \A e \in Dependencies : e # d => Completed(e)' = Completed(e)
  BY <1>4, <1>7 DEF Completed, EntriesOf
<1>9. Completed(d)' = {}
  BY <1>4 DEF Completed, EntriesOf, Priorities
<1>10. Cardinality({}) = 0
  BY FS_EmptySet
<1>11. ASSUME NEW e \in Dependencies
       PROVE  IF Started(e)'
              THEN /\ mNumStatusArrayEntriesCompleted'[e] = Cardinality(Completed(e)')
                   /\ \A p \in Completed(e)' : Relevant(e, p) \subseteq loaded'
              ELSE mNumStatusArrayEntriesCompleted'[e] = 0
  <2>1. CASE e = d
    BY <1>2, <1>4, <1>5, <1>9, <1>10, <2>1 DEF EntriesAreCounted
  <2>2. CASE e # d
    BY <1>2, <1>4, <1>8, <2>2 DEF EntriesAreCounted
  <2> QED BY <2>1, <2>2
<1>12. ASSUME NEW e \in mAssetRequestFinished'
       PROVE  e \in Dependencies /\ Started(e)' /\ Completed(e)' = EntriesOf(e)
  <2>1. CASE e \in mAssetRequestFinished
    BY <1>4, <1>5, <1>8, <2>1 DEF EntriesAreCounted
  <2>2. CASE e \notin mAssetRequestFinished
    <3>1. e = d /\ TotalStatusArrayEntryCount(d) = 0
      BY <1>2, <1>12, <2>2
    <3>2. EntriesOf(d) = {}
      BY <1>1, <3>1, EntriesOfFinite, FS_EmptySet
    <3> QED BY <1>1, <1>4, <1>9, <3>1, <3>2
  <2> QED BY <2>1, <2>2
<1>13. EntriesAreCounted'
  BY <1>11, <1>12 DEF EntriesAreCounted
<1>14. DirectFrames'
  <2>1. DirectFrame(x)'
    BY <1>1, <1>3, RequestFacts DEF DirectFrame, Moves
  <2> QED BY <1>1, <1>3, <2>1, DirectFramesMove
<1>15. OneDecompression'
  BY <1>1, <1>2, <1>3, DecompressingMoves, DecompressionStays
<1>16. StatusTypes' /\ NoDelayedPrepare'
  BY <1>2, OthersAreDelayed DEF StatusTypes
<1> QED BY <1>2, <1>4, <1>7, <1>13, <1>14, <1>15, <1>16 DEF DirectInv, DirectTypes, DirectLoading, NotesAreRight

\* Entries are taken in turn.
LEMMA NextEntry ==
    ASSUME NEW i \in Entries
    PROVE  (i + 1) % DIRECT_STORAGE_QUEUE_CAPACITY \in Entries
<1>1. DIRECT_STORAGE_QUEUE_CAPACITY \in Nat \ {0}
  BY DirectStorageAssumption
<1>2. PICK n, k : n = DIRECT_STORAGE_QUEUE_CAPACITY /\ k = i + 1
  OBVIOUS
<1>3. n \in Nat /\ n > 0 /\ k \in Nat
  BY <1>1, <1>2 DEF Entries
<1>4. k % n \in 0 .. n - 1
  BY <1>3
<1> QED BY <1>2, <1>4 DEF Entries

LEMMA EnqueueRequestLoads ==
    ASSUME DirectLoading, NEW t \in Threads, EnqueueRequest(t),
           UNCHANGED <<requested, mRequestQueueArr>>
    PROVE  PreparedOnce' /\ DirectInv'
<1> USE DirectParts
<1>1. PICK d, x :
         /\ d \in Dependencies /\ x \in Preparing(d) /\ IsTop(t, x)
         /\ PcOf(x) = "enqueue" /\ AtOf(x) = Top(t).at /\ d = Top(t).job.dependency /\ stack[t] # <<>>
         /\ x \in FramePlaces /\ JobOf(x).kind = "prepare"
  BY PrepareAt DEF EnqueueRequest
<1>2. PICK p, i : p = Top(t).at /\ i = mCurrStatusArrayEntryIndex[p]
  OBVIOUS
<1>3. /\ Loop(t)
      /\ UNCHANGED <<mJobQueue, mAssetRequestFinished, loaded, mActive, deleted,
                     mNumStatusArrayEntriesCompleted, read, decompression>>
  BY DEF EnqueueRequest, requestVars, storageVars
<1>4. p \in 1 .. PRIORITY_COUNT /\ p \in Priorities /\ PRIORITY_COUNT \in Nat /\ i \in Entries
  <2>1. p \in 1 .. PRIORITY_COUNT + 1 /\ PRIORITY_COUNT \in Nat
    BY <1>1, <1>2, RequestFacts DEF DirectFrames, DirectFrame
  <2>2. p <= PRIORITY_COUNT
    BY <1>2 DEF EnqueueRequest
  <2>3. p \in Priorities
    BY <2>1, <2>2 DEF Priorities
  <2> QED BY <1>2, <2>1, <2>2, <2>3 DEF StatusTypes
<1>5. Moves(x, "enqueue", p + 1)
  BY <1>1, <1>2, <1>3, LoopMoves
<1>6. /\ PreparedOnce'
      /\ \A e \in Dependencies : Started(e)' <=> Started(e) \/ e = d
      /\ \A e \in Dependencies : \A q : e # d => (IsToCome(e, q)' <=> IsToCome(e, q))
      /\ \A q : /\ IsToCome(d, q) <=> p <= q
                /\ IsToCome(d, q)' <=> p + 1 <= q
  BY <1>1, <1>2, <1>3, <1>5, ToComeMoves
<1>7. Started(d) /\ StartedStays
  BY <1>1, <1>6 DEF Started, PreparedOnce, StartedStays
<1>8. \A e \in Dependencies, q \in Priorities :
         /\ IsToCome(e, q)' => IsToCome(e, q)
         /\ e # d \/ q # p => (IsToCome(e, q)' <=> IsToCome(e, q))
  <2>1. \A q \in Priorities : q \in Int /\ p \in Int
    BY <1>4 DEF Priorities
  <2>2. \A q \in Priorities : /\ p + 1 <= q => p <= q
                              /\ q # p => (p + 1 <= q <=> p <= q)
    BY <2>1
  <2> QED BY <1>6, <2>2
<1>9. NoteFramesStay /\ NotesQueuedStay
  BY <1>1, <1>3, <1>5, NoteFramesMove DEF NotesQueuedStay, NoteIsQueued
<1>10. DirectFrames'
  <2>1. DirectFrame(x)'
    BY <1>1, <1>4, <1>5 DEF DirectFrame, Moves
  <2> QED BY <1>1, <1>5, <2>1, DirectFramesMove
<1>11. OneDecompression'
  BY <1>1, <1>3, <1>5, DecompressingMoves, DecompressionStays
<1>12. CASE Relevant(d, p) = {}
  <2>1. UNCHANGED <<mSubmissionInfoArr, enqueued, statusArr, mCurrStatusArrayEntryIndex>>
    BY <1>1, <1>2, <1>12 DEF EnqueueRequest, queueVars
  <2>2. NoteDelaysStay /\ NoDelayedPrepare' /\ StatusGrows /\ StatusTypes'
    BY <2>1, DelaysStay, OthersAreDelayed DEF StatusGrows, StatusTypes
  <2>3. ASSUME NEW e \in Dependencies, NEW q \in Priorities
        PROVE  OneNote(e, q)' /\ NoteFollows(e, q)' /\ (NoteLives(e, q)' <=> NoteLives(e, q))
    <3>1. OneNote(e, q) /\ NoteFollows(e, q)
      BY DEF NotesAreRight
    <3> QED BY <1>3, <1>6, <1>8, <1>9, <2>2, <3>1, NoteStays
            DEF NoteFramesStay, NotesQueuedStay, NoteDelaysStay
  <2>4. p \notin EntriesOf(d)
    BY <1>12 DEF EntriesOf
  <2>5. \A e \in Dependencies : Completed(e)' = Completed(e)
    BY <1>8, <2>3, <2>4 DEF Completed, EntriesOf
  <2>6. EntriesAreCounted'
    BY <1>3, <1>7, <2>5, EntriesStay
  <2> QED BY <1>3, <1>6, <1>10, <1>11, <2>2, <2>3, <2>6 DEF DirectInv, DirectTypes, DirectLoading, NotesAreRight
<1>13. CASE Relevant(d, p) # {}
  <2>1. /\ enqueued' = [enqueued EXCEPT ![p] = @ \cup Relevant(d, p)]
        /\ statusArr' = [statusArr EXCEPT ![p][i] = enqueued[p] \cup Relevant(d, p)]
        /\ mCurrStatusArrayEntryIndex' = [mCurrStatusArrayEntryIndex EXCEPT
                                             ![p] = (i + 1) % DIRECT_STORAGE_QUEUE_CAPACITY]
        /\ Delay(t, StatusEntry(p, i), Notification(d, p))
    BY <1>1, <1>2, <1>13 DEF EnqueueRequest
  <2>2. Relevant(d, p) \subseteq Requests
    BY <1>1, <1>4, EntriesOfFinite
  <2>3. \A q \in Priorities, k \in Entries :
           statusArr'[q][k] = IF q = p /\ k = i THEN enqueued[p] \cup Relevant(d, p) ELSE statusArr[q][k]
    BY <1>4, <2>1 DEF StatusTypes
  <2>4. \A q \in Priorities : enqueued'[q] = IF q = p THEN enqueued[p] \cup Relevant(d, p) ELSE enqueued[q]
    BY <1>4, <2>1 DEF StatusTypes
  <2>5. StatusGrows
    BY <1>4, <2>3 DEF StatusGrows, StatusTypes
  <2>6. StatusTypes'
    <3>1. enqueued[p] \cup Relevant(d, p) \in SUBSET Requests
      BY <1>4, <2>2 DEF StatusTypes
    <3>2. statusArr' \in [Priorities -> [Entries -> SUBSET Requests]]
      BY <1>4, <2>1, <3>1 DEF StatusTypes
    <3>3. enqueued' \in [Priorities -> SUBSET Requests]
      BY <1>4, <2>1, <3>1 DEF StatusTypes
    <3>4. mCurrStatusArrayEntryIndex' \in [Priorities -> Entries]
      BY <1>4, <2>1, NextEntry DEF StatusTypes
    <3>5. ASSUME NEW q \in Priorities, NEW k \in Entries
          PROVE  statusArr'[q][k] \subseteq enqueued'[q]
      BY <2>3, <2>4 DEF StatusTypes
    <3> QED BY <3>2, <3>3, <3>4, <3>5 DEF StatusTypes
  <2>7. PICK z : DelayComes(z, StatusEntry(p, i), Notification(d, p))
    BY <2>1, DelayedComes
  <2>8. NoDelayedPrepare'
    BY <2>1, KindFacts, OthersAreDelayed
  <2>9. p \in EntriesOf(d) /\ IsToCome(d, p) /\ ~ IsToCome(d, p)'
    BY <1>4, <1>6, <1>13 DEF EntriesOf
  <2>10. OneNote(d, p) /\ ~ NoteLives(d, p)
    BY <1>1, <1>4, <2>9 DEF NotesAreRight, OneNote
  <2>11. /\ ~ NoteIsQueued(d, p)' /\ NoteFrames(d, p)' = {} /\ NoteDelays(d, p)' = {z}
         /\ DelayedEvent(z)' = StatusEntry(p, i)
    BY <1>1, <1>4, <1>9, <2>7, <2>10, NoteDelaysCome
    DEF NoteLives, NoteFramesStay, NotesQueuedStay, DelayComes
  <2>12. OneNote(d, p)' /\ NoteFollows(d, p)' /\ NoteLives(d, p)'
    <3>1. NoteLives(d, p)'
      BY <2>11 DEF NoteLives
    <3>2. OneNote(d, p)'
      BY <1>1, <1>6, <2>9, <2>11 DEF OneNote, EntriesOf
    <3>3. Relevant(d, p) \subseteq statusArr'[p][i]
      BY <1>4, <2>3
    <3> QED BY <1>4, <2>11, <3>1, <3>2, <3>3 DEF NoteFollows
  <2>13. ASSUME NEW e \in Dependencies, NEW q \in Priorities, e # d \/ q # p
         PROVE  OneNote(e, q)' /\ NoteFollows(e, q)' /\ (NoteLives(e, q)' <=> NoteLives(e, q))
    <3>1. OneNote(e, q) /\ NoteFollows(e, q) /\ DelaysDiffer(e, q)
      BY DEF NotesAreRight, OneNote, DelaysDiffer
    <3>2. Notification(d, p) # Notification(e, q)
      BY <2>13, KindFacts
    <3>3. NoteDelayStays(e, q)
      BY <2>7, <3>1, <3>2, OtherDelayComes
    <3> QED BY <1>3, <1>6, <1>8, <1>9, <2>5, <3>1, <3>3, NoteStays DEF NoteFramesStay, NotesQueuedStay
  <2>14. NotesAreRight'
    BY <2>12, <2>13 DEF NotesAreRight
  <2>15. \A e \in Dependencies : Completed(e)' = Completed(e)
    BY <1>4, <1>8, <2>9, <2>12, <2>13 DEF Completed, EntriesOf
  <2>16. EntriesAreCounted'
    BY <1>3, <1>7, <2>15, EntriesStay
  <2> QED BY <1>3, <1>6, <1>10, <1>11, <2>6, <2>8, <2>14, <2>16 DEF DirectInv, DirectTypes, DirectLoading
<1> QED BY <1>12, <1>13

LEMMA AddPendingLoads ==
    ASSUME DirectLoading, NEW t \in Threads, AddPendingRequest(t),
           UNCHANGED <<requested, mRequestQueueArr>>
    PROVE  PreparedOnce' /\ DirectInv'
<1> USE DirectParts
<1>1. PICK d, x :
         /\ d \in Dependencies /\ x \in Preparing(d) /\ IsTop(t, x)
         /\ PcOf(x) = "enqueue" /\ AtOf(x) = Top(t).at /\ d = Top(t).job.dependency /\ stack[t] # <<>>
         /\ x \in FramePlaces /\ JobOf(x).kind = "prepare"
  BY PrepareAt DEF AddPendingRequest
<1>2. /\ Return(t) /\ mActive' = mActive \cup {d}
      /\ UNCHANGED <<mJobQueue, mSubmissionInfoArr, mAssetRequestFinished, loaded, deleted,
                     mNumStatusArrayEntriesCompleted, read, decompression, enqueued, statusArr,
                     mCurrStatusArrayEntryIndex>>
  BY <1>1 DEF AddPendingRequest, directVars, storageVars, queueVars
<1>3. AtOf(x) \in 1 .. PRIORITY_COUNT + 1 /\ AtOf(x) > PRIORITY_COUNT /\ PRIORITY_COUNT \in Nat
  BY <1>1, RequestFacts DEF DirectFrames, DirectFrame, AddPendingRequest
<1>4. Leaves(x)
  BY <1>1, <1>2, ReturnLeaves
<1>5. /\ PreparedOnce'
      /\ \A e \in Dependencies : Started(e)' <=> Started(e) \/ e = d
      /\ \A e \in Dependencies : Preparing(e)' = IF e = d THEN {} ELSE Preparing(e)
      /\ \A e \in Dependencies : \A y \in Preparing(e) : e # d => y # x /\ Kept(y)
  BY <1>1, <1>2, <1>4, PreparedLeaves
<1>6. Started(d) /\ StartedStays /\ Preparing(d) = {x}
  BY <1>1, <1>5 DEF Started, PreparedOnce, StartedStays
<1>7. ToComeStays
  <2>1. ASSUME NEW e \in Dependencies, NEW p \in Priorities
        PROVE  IsToCome(e, p)' <=> IsToCome(e, p)
    <3>1. CASE e # d
      BY <1>5, <3>1 DEF IsToCome, Kept
    <3>2. CASE e = d
      <4>1. ~ IsToCome(d, p)
        BY <1>3, <1>6 DEF IsToCome, Priorities
      <4> QED BY <1>5, <3>2, <4>1 DEF IsToCome
    <3> QED BY <3>1, <3>2
  <2> QED BY <2>1 DEF ToComeStays
<1>8. NoteFramesStay /\ NotesQueuedStay /\ NoteDelaysStay /\ StatusGrows
  BY <1>1, <1>2, <1>4, OtherFramesStay, DelaysStay DEF NotesQueuedStay, NoteIsQueued, StatusGrows
<1>9. NotesAreRight' /\ EntriesAreCounted'
  BY <1>2, <1>6, <1>7, <1>8, NotesStay
<1>10. DirectFrames' /\ OneDecompression'
  BY <1>1, <1>2, <1>4, DirectFramesLeave, DecompressingLeaves, DecompressionStays
<1>11. StatusTypes' /\ NoDelayedPrepare'
  BY <1>2, OthersAreDelayed DEF StatusTypes
<1> QED BY <1>2, <1>5, <1>9, <1>10, <1>11 DEF DirectInv, DirectTypes, DirectLoading

\* A job that decompresses takes a request, or has done with it.
LEMMA DecompressingChanges ==
    ASSUME NEW x \in FramePlaces, JobOf(x).kind = "load", NEW pc, NEW at, Moves(x, pc, at)
    PROVE  /\ Decompressing' = IF pc = "decompress" THEN Decompressing \cup {x} ELSE Decompressing \ {x}
           /\ AtOf(x)' = at /\ \A y \in Decompressing \ {x} : AtOf(y)' = AtOf(y)
<1>1. ASSUME NEW y \in FramePlaces
      PROVE  y \in Decompressing' <=> IF y = x THEN pc = "decompress" ELSE y \in Decompressing
  BY DEF Decompressing, Moves, Kept
<1>2. Decompressing \subseteq FramePlaces /\ Decompressing' \subseteq FramePlaces
  BY DEF Decompressing, Moves
<1>3. AtOf(x)' = at /\ \A y \in Decompressing \ {x} : AtOf(y)' = AtOf(y)
  BY DEF Decompressing, Moves, Kept
<1> QED BY <1>1, <1>2, <1>3

LEMMA GetRequestsLoads ==
    ASSUME DirectLoading, NEW t \in Threads, GetRequests(t), UNCHANGED <<requested, mRequestQueueArr>>
    PROVE  PreparedOnce' /\ DirectInv'
<1> USE DirectParts
<1>1. PICK x \in FramePlaces :
         IsTop(t, x) /\ JobOf(x).kind = "load" /\ PcOf(x) \in {"start", "get"} /\ stack[t] # <<>>
  BY TopAt DEF GetRequests
<1>2. UNCHANGED <<mJobQueue, mAssetRequestFinished, loaded, mActive, deleted, read,
                  mNumStatusArrayEntriesCompleted, enqueued, statusArr, mCurrStatusArrayEntryIndex>>
  BY DEF GetRequests, queueVars
<1>3. QueuedStay /\ NotesQueuedStay
  BY <1>2 DEF QueuedStay, IsQueuedFor, NotesQueuedStay, NoteIsQueued
<1>4. \/ UNCHANGED mSubmissionInfoArr
      \/ \E event : Delay(t, event, BeginLoading)
  BY DEF GetRequests, LeaveLoading
<1>5. ASSUME NEW pc \in {"decompress", "leave"}, NEW at, Goto(t, pc, at), OneDecompression'
      PROVE  PreparedOnce' /\ DirectInv'
  <2>1. Moves(x, pc, at)
    BY <1>1, <1>5, GotoMoves
  <2>2. PreparesStay /\ NoteFramesStay
    BY <1>1, <1>3, <2>1, OthersMove, NoteFramesMove
  <2>3. DirectFrame(x)'
    BY <1>1, <2>1 DEF Moves, DirectFrame
  <2>4. DirectFrames'
    BY <1>1, <2>1, <2>3, DirectFramesMove
  <2> QED BY <1>2, <1>3, <1>4, <1>5, <2>2, <2>4, DirectStays
<1>6. CASE \E r \in decompression : decompression' = decompression \ {r} /\ Goto(t, "decompress", r)
  <2>1. PICK r \in decompression : decompression' = decompression \ {r} /\ Goto(t, "decompress", r)
    BY <1>6
  <2>2. Moves(x, "decompress", r)
    BY <1>1, <2>1, GotoMoves
  <2>3. /\ Decompressing' = Decompressing \cup {x} /\ AtOf(x)' = r
        /\ \A y \in Decompressing \ {x} : AtOf(y)' = AtOf(y)
    BY <1>1, <2>2, DecompressingChanges
  <2>4. x \notin Decompressing
    BY <1>1 DEF Decompressing
  <2>5. OneDecompression'
    BY <1>2, <2>1, <2>3, <2>4 DEF OneDecompression
  <2> QED BY <1>5, <2>1, <2>5
<1>7. CASE UNCHANGED decompression /\ Goto(t, "leave", 0)
  <2>1. Moves(x, "leave", 0)
    BY <1>1, <1>7, GotoMoves
  <2>2. OneDecompression'
    BY <1>1, <1>2, <1>7, <2>1, DecompressingMoves, DecompressionStays
  <2> QED BY <1>5, <1>7, <2>2
<1> QED BY <1>6, <1>7 DEF GetRequests

LEMMA SetResultsLoads ==
    ASSUME DirectLoading, NEW t \in Threads, SetRequestResults(t), UNCHANGED <<requested, mRequestQueueArr>>
    PROVE  PreparedOnce' /\ DirectInv'
<1> USE DirectParts
<1>1. PICK x \in FramePlaces :
         /\ IsTop(t, x) /\ JobOf(x).kind = "load" /\ PcOf(x) = "decompress"
         /\ AtOf(x) = Top(t).at /\ stack[t] # <<>>
  BY TopAt DEF SetRequestResults
<1>2. /\ loaded' = loaded \cup {AtOf(x)} /\ Goto(t, "get", 0)
      /\ UNCHANGED <<mJobQueue, mSubmissionInfoArr, mAssetRequestFinished, mActive, deleted, read,
                     decompression, mNumStatusArrayEntriesCompleted, enqueued, statusArr,
                     mCurrStatusArrayEntryIndex>>
  BY <1>1 DEF SetRequestResults, directVars, storageVars, queueVars
<1>3. QueuedStay /\ NotesQueuedStay
  BY <1>2 DEF QueuedStay, IsQueuedFor, NotesQueuedStay, NoteIsQueued
<1>4. Moves(x, "get", 0)
  BY <1>1, <1>2, GotoMoves
<1>5. PreparesStay /\ NoteFramesStay
  BY <1>1, <1>3, <1>4, OthersMove, NoteFramesMove
<1>6. DirectFrame(x)'
  BY <1>1, <1>4 DEF Moves, DirectFrame
<1>7. DirectFrames'
  BY <1>4, <1>6, DirectFramesMove
<1>8. Decompressing' = Decompressing \ {x} /\ \A y \in Decompressing \ {x} : AtOf(y)' = AtOf(y)
  BY <1>1, <1>4, DecompressingChanges
<1>9. x \in Decompressing
  BY <1>1 DEF Decompressing
<1>10. OneDecompression'
  BY <1>2, <1>8, <1>9 DEF OneDecompression
<1> QED BY <1>2, <1>3, <1>5, <1>7, <1>10, DirectStays

\* The jobs that start the decompression, and its end.
LEMMA DecompressionLoads ==
    ASSUME DirectLoading, NEW t \in Threads,
           BeginCPUDecompression(t) \/ EndCPUDecompression(t) \/ DecrementCounter(t),
           UNCHANGED <<requested, mRequestQueueArr>>
    PROVE  PreparedOnce' /\ DirectInv'
<1> USE DirectParts
<1>1. UNCHANGED <<mSubmissionInfoArr, mAssetRequestFinished, loaded, mActive, deleted, read, decompression,
                  mNumStatusArrayEntriesCompleted, enqueued, statusArr, mCurrStatusArrayEntryIndex>>
  BY DEF BeginCPUDecompression, EndCPUDecompression, DecrementCounter, requestVars, directVars,
         storageVars, queueVars
<1>2. CASE BeginCPUDecompression(t)
  <2>1. PICK x \in FramePlaces : IsTop(t, x) /\ JobOf(x).kind = "begin" /\ stack[t] # <<>>
    BY <1>2, TopAt DEF BeginCPUDecompression
  <2>2. PICK js : js = {DecompressionJob(n, t, Len(stack[t])) : n \in 1 .. LOADING_THREADS}
    OBVIOUS
  <2>3. ExecuteJobs(t, js)
    BY <1>2, <2>2 DEF BeginCPUDecompression
  <2>4. mJobQueue' = mJobQueue \cup js /\ \A j \in js : j.kind = "load"
    BY <2>2, <2>3 DEF ExecuteJobs, Dispatch, DecompressionJob
  <2>5. QueuedStay /\ NotesQueuedStay
    BY <2>4, KindFacts DEF QueuedStay, IsQueuedFor, NotesQueuedStay, NoteIsQueued
  <2>6. PICK at : Moves(x, "wait", at)
    BY <2>1, <2>3, WaitMoves
  <2>7. PreparesStay /\ NoteFramesStay
    BY <2>1, <2>5, <2>6, OthersMove, NoteFramesMove
  <2>8. DirectFrame(x)'
    BY <2>1, <2>6 DEF Moves, DirectFrame
  <2>9. DirectFrames' /\ OneDecompression'
    BY <1>1, <2>1, <2>6, <2>8, DirectFramesMove, DecompressingMoves, DecompressionStays
  <2> QED BY <1>1, <2>5, <2>7, <2>9, DirectStays
<1>3. CASE EndCPUDecompression(t) \/ DecrementCounter(t)
  <2>1. PICK x \in FramePlaces :
           /\ IsTop(t, x) /\ JobOf(x).kind \in {"begin", "load"} /\ stack[t] # <<>>
           /\ JobOf(x).kind = "load" => PcOf(x) = "leave"
    BY <1>3, TopAt DEF EndCPUDecompression, DecrementCounter
  <2>2. Return(t) \/ \E w, d : ReturnTo(t, w, d)
    BY <1>3 DEF EndCPUDecompression, DecrementCounter
  <2>3. Leaves(x)
    BY <2>1, <2>2, ReturnLeaves, ReturnToLeaves
  <2>4. UNCHANGED mJobQueue
    BY <1>3 DEF EndCPUDecompression, DecrementCounter
  <2>5. QueuedStay /\ NotesQueuedStay
    BY <2>4 DEF QueuedStay, IsQueuedFor, NotesQueuedStay, NoteIsQueued
  <2>6. PreparesStay /\ NoteFramesStay
    BY <2>1, <2>3, <2>5, OthersLeave, OtherFramesStay
  <2>7. DirectFrames' /\ OneDecompression'
    BY <1>1, <2>1, <2>3, DirectFramesLeave, DecompressingLeaves, DecompressionStays
  <2> QED BY <1>1, <2>5, <2>6, <2>7, DirectStays
<1> QED BY <1>2, <1>3

\* The job of a notification: a priority more is complete.
LEMMA NotifyEntryLoads ==
    ASSUME DirectLoading, NEW t \in Threads, NotifyEntryCompleted(t),
           UNCHANGED <<requested, mRequestQueueArr>>
    PROVE  PreparedOnce' /\ DirectInv'
<1> USE DirectParts
<1>1. PICK x \in FramePlaces :
         /\ IsTop(t, x) /\ JobOf(x) \in Jobs /\ JobOf(x).kind = "notification"
         /\ JobOf(x) = Top(t).job /\ stack[t] # <<>>
  BY TopAt DEF NotifyEntryCompleted
<1>2. PICK d \in Dependencies, p \in Priorities : JobOf(x) = Notification(d, p) /\ JobOf(x).dependency = d
  BY <1>1, KindFacts
<1>3. PICK n : n = mNumStatusArrayEntriesCompleted[d] + 1
  OBVIOUS
<1>4. /\ Return(t)
      /\ mNumStatusArrayEntriesCompleted' = [mNumStatusArrayEntriesCompleted EXCEPT ![d] = n]
      /\ mAssetRequestFinished' = mAssetRequestFinished
            \cup (IF n = TotalStatusArrayEntryCount(d) THEN {d} ELSE {})
      /\ UNCHANGED <<mJobQueue, mSubmissionInfoArr, loaded, mActive, deleted, read, decompression,
                     enqueued, statusArr, mCurrStatusArrayEntryIndex>>
  BY <1>1, <1>2, <1>3 DEF NotifyEntryCompleted, storageVars, queueVars
<1>5. Leaves(x)
  BY <1>1, <1>4, ReturnLeaves
<1>6. QueuedStay /\ NotesQueuedStay
  BY <1>4 DEF QueuedStay, IsQueuedFor, NotesQueuedStay, NoteIsQueued
<1>7. PreparesStay
  BY <1>1, <1>5, <1>6, OthersLeave
<1>8. PreparedOnce' /\ StartedStays /\ ToComeStays
  BY <1>4, <1>7, PreparedStays, ToComeAsPrepared
<1>9. NoteDelaysStay /\ NoDelayedPrepare' /\ StatusGrows /\ StatusTypes'
  BY <1>4, DelaysStay, OthersAreDelayed DEF StatusGrows, StatusTypes
<1>10. OneNote(d, p) /\ NoteFollows(d, p) /\ x \in NoteFrames(d, p)
  BY <1>2 DEF NotesAreRight, NoteFrames
<1>11. /\ NoteFrames(d, p) = {x} /\ ~ NoteIsQueued(d, p) /\ NoteDelays(d, p) = {} /\ NoteLives(d, p)
       /\ Started(d) /\ p \in EntriesOf(d) /\ ~ IsToCome(d, p) /\ Relevant(d, p) \subseteq loaded
  BY <1>10 DEF OneNote, NoteFollows, NoteLives
<1>12. NoteFrames(d, p)' = {} /\ ~ NoteIsQueued(d, p)' /\ NoteDelays(d, p)' = {} /\ ~ IsToCome(d, p)'
  BY <1>5, <1>6, <1>8, <1>9, <1>11, NoteFramesLeave
  DEF NotesQueuedStay, NoteDelaysStay, NoteDelayStays, ToComeStays
<1>13. OneNote(d, p)' /\ NoteFollows(d, p)' /\ ~ NoteLives(d, p)'
  BY <1>12 DEF OneNote, NoteFollows, NoteLives
<1>14. ASSUME NEW e \in Dependencies, NEW q \in Priorities, e # d \/ q # p
       PROVE  OneNote(e, q)' /\ NoteFollows(e, q)' /\ (NoteLives(e, q)' <=> NoteLives(e, q))
  <2>1. OneNote(e, q) /\ NoteFollows(e, q)
    BY DEF NotesAreRight
  <2>2. x \notin NoteFrames(e, q)
    BY <1>2, <1>14, KindFacts DEF NoteFrames
  <2>3. NoteFrames(e, q)' = NoteFrames(e, q)
    BY <1>5, <2>2, NoteFramesLeave
  <2> QED BY <1>4, <1>6, <1>8, <1>9, <2>1, <2>3, NoteStays
          DEF NotesQueuedStay, NoteDelaysStay, StartedStays, ToComeStays
<1>15. \A e \in Dependencies : e # d => Completed(e)' = Completed(e)
  BY <1>8, <1>14 DEF Completed, EntriesOf, ToComeStays
<1>16. Completed(d)' = Completed(d) \cup {p} /\ p \notin Completed(d)
  BY <1>8, <1>11, <1>12, <1>13, <1>14 DEF Completed, EntriesOf, ToComeStays
<1>17. /\ IsFiniteSet(EntriesOf(d)) /\ TotalStatusArrayEntryCount(d) = Cardinality(EntriesOf(d))
       /\ Completed(d) \subseteq EntriesOf(d) /\ Completed(d)' \subseteq EntriesOf(d)
       /\ IsFiniteSet(Completed(d))
  <2>1. /\ IsFiniteSet(EntriesOf(d)) /\ TotalStatusArrayEntryCount(d) = Cardinality(EntriesOf(d))
        /\ Completed(d) \subseteq EntriesOf(d) /\ Completed(d)' \subseteq EntriesOf(d)
    BY EntriesOfFinite DEF Completed, EntriesOf
  <2> QED BY <2>1, FS_Subset
<1>18. n = Cardinality(Completed(d)')
  <2>1. Cardinality(Completed(d)') = Cardinality(Completed(d)) + 1
    BY <1>16, <1>17, FS_AddElement
  <2> QED BY <1>3, <1>11, <2>1 DEF EntriesAreCounted
<1>19. ASSUME NEW e \in Dependencies
       PROVE  IF Started(e)'
              THEN /\ mNumStatusArrayEntriesCompleted'[e] = Cardinality(Completed(e)')
                   /\ \A q \in Completed(e)' : Relevant(e, q) \subseteq loaded'
              ELSE mNumStatusArrayEntriesCompleted'[e] = 0
  <2>1. CASE e = d
    BY <1>4, <1>8, <1>11, <1>16, <1>18, <2>1 DEF EntriesAreCounted, StartedStays
  <2>2. CASE e # d
    BY <1>4, <1>8, <1>15, <2>2 DEF EntriesAreCounted, StartedStays
  <2> QED BY <2>1, <2>2
<1>20. ASSUME NEW e \in mAssetRequestFinished'
       PROVE  e \in Dependencies /\ Started(e)' /\ Completed(e)' = EntriesOf(e)
  <2>1. CASE n = TotalStatusArrayEntryCount(d) /\ e = d
    <3>1. Completed(d)' = EntriesOf(d)
      BY <1>17, <1>18, <2>1, FS_Subset
    <3> QED BY <1>8, <1>11, <2>1, <3>1 DEF StartedStays
  <2>2. CASE e \in mAssetRequestFinished /\ e # d
    BY <1>8, <1>15, <2>2 DEF EntriesAreCounted, StartedStays
  <2>3. CASE e \in mAssetRequestFinished /\ e = d
    BY <1>11, <1>16, <2>3 DEF EntriesAreCounted
  <2> QED BY <1>4, <1>20, <2>1, <2>2, <2>3
<1>21. EntriesAreCounted'
  BY <1>19, <1>20 DEF EntriesAreCounted
<1>22. DirectFrames' /\ OneDecompression'
  BY <1>1, <1>4, <1>5, DirectFramesLeave, DecompressingLeaves, DecompressionStays
<1>23. mNumStatusArrayEntriesCompleted' \in [Dependencies -> Int]
  BY <1>3, <1>4
<1>24. NotesAreRight'
  BY <1>13, <1>14 DEF NotesAreRight
<1> QED BY <1>8, <1>9, <1>21, <1>22, <1>23, <1>24 DEF DirectInv, DirectTypes, DirectLoading

LEMMA DirectLoads ==
    ASSUME DirectLoading, NEW t \in Threads, DirectStep(t), UNCHANGED <<requested, mRequestQueueArr>>
    PROVE  PreparedOnce' /\ DirectInv'
BY CreatePendingLoads, EnqueueRequestLoads, AddPendingLoads, GetRequestsLoads, SetResultsLoads,
   DecompressionLoads, NotifyEntryLoads DEF DirectStep

-----------------------------------------------------------------------------
(* The steps the handlers share.                                               *)

LEMMA NothingMoves ==
    ASSUME UNCHANGED stack, loaded \subseteq loaded'
    PROVE  /\ LoadersStay /\ NoteFramesStay /\ DecompressingStays
           /\ (Win32Frames => Win32Frames') /\ (DirectFrames => DirectFrames')
<1>1. FramePlaces' = FramePlaces /\ \A x : Kept(x)
  BY DEF FramePlaces, Kept, JobOf, PcOf, AtOf
<1>2. LoadersStay
  BY <1>1 DEF LoadersStay, Loaders, Kept
<1>3. NoteFramesStay
  BY <1>1 DEF NoteFramesStay, NoteFrames, Kept
<1>4. DecompressingStays
  BY <1>1 DEF DecompressingStays, Decompressing, Kept
<1>5. Win32Frames => Win32Frames'
  BY <1>1 DEF Win32Frames, Win32Prepare, Win32Load, Kept
<1>6. DirectFrames => DirectFrames'
  BY <1>1 DEF DirectFrames, DirectFrame, Kept
<1> QED BY <1>2, <1>3, <1>4, <1>5, <1>6

\* Neither a job nor a delayed job goes on.
Quiet == /\ UNCHANGED <<stack, mJobQueue, mSubmissionInfoArr, requested, mAssetRequestFinished,
                        mRequestQueueArr>>
         /\ mActive' \cup deleted' \subseteq mActive \cup deleted
         /\ deleted' \subseteq deleted \cup mAssetRequestFinished
         /\ loaded \subseteq loaded'

LEMMA Win32IsQuiet ==
    ASSUME Win32Loading, Quiet, UNCHANGED mActiveRequestCounter
    PROVE  PreparedOnce' /\ Win32Inv'
<1> USE Win32Parts
<1>1. PreparesStay
  BY NothingPrepares DEF Quiet, QueuedStay, IsQueuedFor
<1>2. LoadersStay /\ Win32Frames' /\ DelaysBegin'
  BY NothingMoves, BeginsAreDelayed DEF Quiet
<1> QED BY <1>1, <1>2, Win32Stays DEF Quiet

LEMMA DirectIsQuiet ==
    ASSUME DirectLoading, Quiet, OneDecompression',
           UNCHANGED <<mNumStatusArrayEntriesCompleted, enqueued, statusArr, mCurrStatusArrayEntryIndex>>
    PROVE  PreparedOnce' /\ DirectInv'
<1> USE DirectParts
<1>1. PreparesStay
  BY NothingPrepares DEF Quiet, QueuedStay, IsQueuedFor
<1>2. NoteFramesStay /\ NotesQueuedStay /\ DirectFrames'
  BY NothingMoves DEF Quiet, NotesQueuedStay, NoteIsQueued
<1> QED BY <1>1, <1>2, DirectStays DEF Quiet

\* A preparation is asked for, or taken: nothing is started.
LEMMA Win32Prepares ==
    ASSUME Win32Loading, PreparedOnce', StartedStays, LoadersStay, Win32Frames',
           \A d \in Dependencies : \A r : IsUnpushed(d, r)' <=> IsUnpushed(d, r),
           \A j \in mJobQueue' : j.kind # "notification",
           UNCHANGED <<mSubmissionInfoArr, mRequestQueueArr, mActiveRequestCounter,
                       mAssetRequestFinished, loaded>>
    PROVE  Win32Inv'
<1> USE Win32Parts
<1>1. UnpushedStay
  BY DEF UnpushedStay
<1>2. OnePlace' /\ RequestsAreCounted'
  BY <1>1, RequestsStay
<1>3. DelaysBegin'
  BY BeginsAreDelayed
<1> QED BY <1>2, <1>3 DEF Win32Inv, Win32Types

LEMMA DirectPrepares ==
    ASSUME DirectLoading, PreparedOnce', StartedStays, ToComeStays, NotesQueuedStay, NoteFramesStay,
           DirectFrames', DecompressingStays,
           UNCHANGED <<mSubmissionInfoArr, mRequestQueueArr, mAssetRequestFinished, loaded, read,
                       decompression, mNumStatusArrayEntriesCompleted, enqueued, statusArr,
                       mCurrStatusArrayEntryIndex>>
    PROVE  DirectInv'
<1> USE DirectParts
<1>1. NoteDelaysStay /\ NoDelayedPrepare' /\ StatusGrows /\ StatusTypes'
  BY DelaysStay, OthersAreDelayed DEF StatusGrows, StatusTypes
<1>2. NotesAreRight' /\ EntriesAreCounted'
  BY <1>1, NotesStay
<1>3. OneDecompression'
  BY DecompressionStays
<1> QED BY <1>1, <1>2, <1>3 DEF DirectInv, DirectTypes, DirectLoading

Untouched == UNCHANGED <<requestVars, win32Vars, mNumStatusArrayEntriesCompleted, queueVars, read,
                         decompression>>

LEMMA DependencyIsEnqueued ==
    ASSUME NEW d \in Dependencies, d \notin requested, requested' = requested \cup {d},
           mJobQueue' = mJobQueue \cup {Prepare(d)},
           UNCHANGED <<stack, mSubmissionInfoArr>>, Untouched
    PROVE  /\ Win32Loading => PreparedOnce' /\ Win32Inv'
           /\ DirectLoading => PreparedOnce' /\ DirectInv'
<1>1. UNCHANGED <<mSubmissionInfoArr, mRequestQueueArr, mActiveRequestCounter, mActive, deleted,
                  mAssetRequestFinished, loaded, read, decompression,
                  mNumStatusArrayEntriesCompleted, enqueued, statusArr, mCurrStatusArrayEntryIndex>>
  BY DEF Untouched, requestVars, win32Vars, queueVars
<1>2. ASSUME PreparedOnce
      PROVE  /\ PreparedOnce' /\ StartedStays /\ ToComeStays
             /\ \A e \in Dependencies : \A r : IsUnpushed(e, r)' <=> IsUnpushed(e, r)
  <2>1. /\ PreparedOnce' /\ StartedStays
        /\ \A e \in Dependencies : Preparing(e)' = Preparing(e)
        /\ \A e \in Dependencies : \A y \in Preparing(e) : Kept(y)
    BY <1>1, <1>2, PrepareIsQueued
  <2> QED BY <2>1 DEF IsUnpushed, Rest, Kept, ToComeStays, IsToCome
<1>3. LoadersStay /\ NoteFramesStay /\ DecompressingStays
      /\ (Win32Frames => Win32Frames') /\ (DirectFrames => DirectFrames')
  BY <1>1, NothingMoves
<1>4. NotesQueuedStay
  BY KindFacts DEF NotesQueuedStay, NoteIsQueued
<1>5. ASSUME Win32Loading PROVE PreparedOnce' /\ Win32Inv'
  <2>1. \A j \in mJobQueue' : j.kind # "notification"
    BY <1>5, Win32Parts, KindFacts
  <2> QED BY <1>1, <1>2, <1>3, <1>5, <2>1, Win32Parts, Win32Prepares
<1>6. ASSUME DirectLoading PROVE PreparedOnce' /\ DirectInv'
  BY <1>1, <1>2, <1>3, <1>4, <1>6, DirectParts, DirectPrepares
<1> QED BY <1>5, <1>6

\* One notification goes on to the next place.
LEMMA NoteGoesOn ==
    ASSUME NotesAreRight, EntriesAreCounted, StartedStays, ToComeStays,
           NEW d \in Dependencies, NEW p \in Priorities,
           OneNote(d, p)', NoteFollows(d, p)', NoteLives(d, p)', NoteLives(d, p),
           \A e \in Dependencies, q \in Priorities :
              e # d \/ q # p => /\ NoteIsQueued(e, q)' <=> NoteIsQueued(e, q)
                                /\ NoteFrames(e, q)' = NoteFrames(e, q) /\ NoteDelayStays(e, q),
           UNCHANGED <<loaded, statusArr, mNumStatusArrayEntriesCompleted, mAssetRequestFinished>>
    PROVE  NotesAreRight' /\ EntriesAreCounted'
<1>1. ASSUME NEW e \in Dependencies, NEW q \in Priorities
      PROVE  OneNote(e, q)' /\ NoteFollows(e, q)' /\ (NoteLives(e, q)' <=> NoteLives(e, q))
  <2>1. OneNote(e, q) /\ NoteFollows(e, q) /\ StatusGrows
    BY DEF NotesAreRight, StatusGrows
  <2>2. CASE e # d \/ q # p
    BY <2>1, <2>2, NoteStays DEF StartedStays, ToComeStays
  <2>3. CASE e = d /\ q = p
    BY <2>3
  <2> QED BY <2>2, <2>3
<1>2. \A e \in Dependencies : Completed(e)' = Completed(e)
  BY <1>1 DEF Completed, EntriesOf, ToComeStays
<1> QED BY <1>1, <1>2, EntriesStay DEF NotesAreRight

LEMMA Win32Takes ==
    ASSUME Win32Loading, NEW j \in mJobQueue, mJobQueue' = mJobQueue \ {j}, NEW x, Comes(x, j),
           UNCHANGED <<requested, mSubmissionInfoArr>>, Untouched
    PROVE  PreparedOnce' /\ Win32Inv'
<1> USE Win32Parts
<1>1. UNCHANGED <<mRequestQueueArr, mActiveRequestCounter, mActive, deleted, mAssetRequestFinished, loaded>>
  BY DEF Untouched, requestVars, win32Vars
<1>2. LoadersStay /\ Win32Frames' /\ DelaysBegin'
  BY <1>1, LoadersCome, Win32FramesCome, BeginsAreDelayed
<1>3. CASE j.kind = "prepare"
  <2>1. PICK d \in Dependencies : j = Prepare(d) /\ IsQueuedFor(d)
    BY <1>3, KindFacts DEF IsQueuedFor
  <2>2. /\ PreparedOnce' /\ StartedStays
        /\ Preparing(d) = {} /\ Preparing(d)' = {x} /\ PcOf(x)' = "start"
        /\ \A e \in Dependencies : e # d => Preparing(e)' = Preparing(e)
        /\ \A e \in Dependencies : \A y \in Preparing(e) : Kept(y)
    BY <1>1, <2>1, PrepareComes
  <2>3. ASSUME NEW e \in Dependencies, NEW r
        PROVE  IsUnpushed(e, r)' <=> IsUnpushed(e, r)
    <3>1. CASE e = d
      BY <2>2, <3>1 DEF IsUnpushed, Rest
    <3>2. CASE e # d
      BY <2>2, <3>2 DEF IsUnpushed, Rest, Kept
    <3> QED BY <3>1, <3>2
  <2> QED BY <1>1, <1>2, <2>2, <2>3, Win32Prepares
<1>4. CASE j.kind # "prepare"
  <2>1. QueuedStay
    BY <1>4, KindFacts DEF QueuedStay, IsQueuedFor
  <2>2. PreparesStay
    BY <1>4, <2>1, OthersCome
  <2> QED BY <1>1, <1>2, <2>2, Win32Stays
<1> QED BY <1>3, <1>4

LEMMA DirectTakes ==
    ASSUME DirectLoading, NEW j \in mJobQueue, mJobQueue' = mJobQueue \ {j}, NEW x, Comes(x, j),
           UNCHANGED <<requested, mSubmissionInfoArr>>, Untouched
    PROVE  PreparedOnce' /\ DirectInv'
<1> USE DirectParts
<1>1. UNCHANGED <<mRequestQueueArr, mActive, deleted, mAssetRequestFinished, loaded, read, decompression,
                  mNumStatusArrayEntriesCompleted, enqueued, statusArr, mCurrStatusArrayEntryIndex>>
  BY DEF Untouched, requestVars, win32Vars, queueVars
<1>2. DirectFrames' /\ DecompressingStays
  BY DirectFramesCome, DecompressingComes
<1>3. \A e \in Dependencies, q \in Priorities :
         j # Notification(e, q) => /\ NoteIsQueued(e, q)' <=> NoteIsQueued(e, q)
                                   /\ NoteFrames(e, q)' = NoteFrames(e, q)
  BY NoteFramesCome DEF NoteIsQueued
<1>4. CASE j.kind = "prepare"
  <2>1. PICK d \in Dependencies : j = Prepare(d) /\ IsQueuedFor(d)
    BY <1>4, KindFacts DEF IsQueuedFor
  <2>2. /\ PreparedOnce' /\ StartedStays
        /\ Preparing(d) = {} /\ Preparing(d)' = {x} /\ PcOf(x)' = "start"
        /\ \A e \in Dependencies : e # d => Preparing(e)' = Preparing(e)
        /\ \A e \in Dependencies : \A y \in Preparing(e) : Kept(y)
    BY <1>1, <2>1, PrepareComes
  <2>3. ASSUME NEW e \in Dependencies, NEW p \in Priorities
        PROVE  IsToCome(e, p)' <=> IsToCome(e, p)
    <3>1. CASE e = d
      BY <2>2, <3>1 DEF IsToCome
    <3>2. CASE e # d
      BY <2>2, <3>2 DEF IsToCome, Kept
    <3> QED BY <3>1, <3>2
  <2>4. NoteFramesStay /\ NotesQueuedStay
    BY <1>3, <1>4, KindFacts DEF NoteFramesStay, NotesQueuedStay
  <2> QED BY <1>1, <1>2, <2>2, <2>3, <2>4, DirectPrepares DEF ToComeStays
<1>5. CASE j.kind # "prepare"
  <2>1. QueuedStay
    BY <1>5, KindFacts DEF QueuedStay, IsQueuedFor
  <2>2. PreparesStay
    BY <1>5, <2>1, OthersCome
  <2>3. PreparedOnce' /\ StartedStays /\ ToComeStays
    BY <1>1, <2>2, PreparedStays, ToComeAsPrepared
  <2>4. CASE j.kind # "notification"
    <3>1. NoteFramesStay /\ NotesQueuedStay
      BY <1>3, <2>4, KindFacts DEF NoteFramesStay, NotesQueuedStay
    <3> QED BY <1>1, <1>2, <2>3, <3>1, DirectPrepares
  <2>5. CASE j.kind = "notification"
    <3>1. PICK d \in Dependencies, p \in Priorities : j = Notification(d, p)
      BY <2>5, KindFacts
    <3>2. NoteDelaysStay /\ NoDelayedPrepare' /\ StatusTypes'
      BY <1>1, DelaysStay, OthersAreDelayed DEF StatusTypes
    <3>3. OneNote(d, p) /\ NoteFollows(d, p) /\ NoteIsQueued(d, p)
      BY <3>1 DEF NotesAreRight, NoteIsQueued
    <3>4. /\ NoteLives(d, p) /\ NoteFrames(d, p) = {} /\ NoteDelays(d, p) = {}
          /\ Started(d) /\ p \in EntriesOf(d) /\ ~ IsToCome(d, p) /\ Relevant(d, p) \subseteq loaded
      BY <3>3 DEF OneNote, NoteFollows, NoteLives
    <3>5. /\ ~ NoteIsQueued(d, p)' /\ NoteFrames(d, p)' = {x} /\ NoteDelays(d, p)' = {}
          /\ Started(d)' /\ ~ IsToCome(d, p)'
      BY <2>3, <3>1, <3>2, <3>4, NoteFramesCome
      DEF NoteIsQueued, NoteDelaysStay, NoteDelayStays, StartedStays, ToComeStays
    <3>6. NoteLives(d, p)'
      BY <3>5 DEF NoteLives
    <3>7. OneNote(d, p)' /\ NoteFollows(d, p)'
      BY <1>1, <3>4, <3>5 DEF OneNote, NoteFollows, EntriesOf
    <3>8. \A e \in Dependencies, q \in Priorities :
             e # d \/ q # p => /\ NoteIsQueued(e, q)' <=> NoteIsQueued(e, q)
                               /\ NoteFrames(e, q)' = NoteFrames(e, q) /\ NoteDelayStays(e, q)
      BY <1>3, <3>1, <3>2, KindFacts DEF NoteDelaysStay
    <3>9. NotesAreRight' /\ EntriesAreCounted'
      BY <1>1, <2>3, <3>4, <3>6, <3>7, <3>8, NoteGoesOn
    <3>10. OneDecompression'
      BY <1>1, <1>2, DecompressionStays
    <3> QED BY <1>1, <1>2, <2>3, <3>2, <3>9, <3>10 DEF DirectInv, DirectTypes, DirectLoading
  <2> QED BY <2>4, <2>5
<1> QED BY <1>4, <1>5

\* A delayed job is dispatched, its event being complete.
LEMMA Win32Submits ==
    ASSUME Win32Loading, NEW z, DelayLeaves(z), NEW j, j = DelayedJob(z), mJobQueue' = mJobQueue \cup {j},
           UNCHANGED <<stack, requested>>, Untouched
    PROVE  PreparedOnce' /\ Win32Inv'
<1> USE Win32Parts
<1>1. UNCHANGED <<mRequestQueueArr, mActiveRequestCounter, mActive, deleted, mAssetRequestFinished, loaded>>
  BY DEF Untouched, requestVars, win32Vars
<1>2. j = BeginLoading
  BY DEF DelaysBegin, DelayLeaves
<1>3. QueuedStay /\ \A k \in mJobQueue' : k.kind # "notification"
  BY <1>2, KindFacts DEF QueuedStay, IsQueuedFor
<1>4. DelaysBegin'
  BY DEF DelaysBegin, DelayLeaves
<1>5. PreparesStay /\ LoadersStay /\ Win32Frames'
  BY <1>1, <1>3, NothingPrepares, NothingMoves
<1> QED BY <1>1, <1>3, <1>4, <1>5, Win32Stays

LEMMA DirectSubmits ==
    ASSUME DirectLoading, NEW z, DelayLeaves(z), NEW j, j = DelayedJob(z), mJobQueue' = mJobQueue \cup {j},
           j \in Jobs, j.kind # "load", UNCHANGED <<stack, requested>>, Untouched,
           \A p \in Priorities : \A i \in Entries :
              DelayedEvent(z) = StatusEntry(p, i) => statusArr[p][i] \subseteq loaded
    PROVE  PreparedOnce' /\ DirectInv'
<1> USE DirectParts
<1>1. UNCHANGED <<mRequestQueueArr, mActive, deleted, mAssetRequestFinished, loaded, read, decompression,
                  mNumStatusArrayEntriesCompleted, enqueued, statusArr, mCurrStatusArrayEntryIndex>>
  BY DEF Untouched, requestVars, win32Vars, queueVars
<1>2. j.kind # "prepare"
  BY DEF NoDelayedPrepare, DelayLeaves
<1>3. QueuedStay
  BY <1>2, KindFacts DEF QueuedStay, IsQueuedFor
<1>4. PreparesStay /\ NoteFramesStay /\ DecompressingStays /\ DirectFrames'
  BY <1>1, <1>3, NothingPrepares, NothingMoves
<1>5. PreparedOnce' /\ StartedStays /\ ToComeStays
  BY <1>1, <1>4, PreparedStays, ToComeAsPrepared
<1>6. NoDelayedPrepare' /\ StatusTypes' /\ OneDecompression' /\ StatusGrows
  BY <1>1, <1>4, DecompressionStays DEF NoDelayedPrepare, DelayLeaves, StatusTypes, StatusGrows
<1>7. \A e \in Dependencies, q \in Priorities : DelaysDiffer(e, q)
  BY DEF NotesAreRight, OneNote, DelaysDiffer
<1>8. \A e \in Dependencies, q \in Priorities :
         j # Notification(e, q) => (NoteIsQueued(e, q)' <=> NoteIsQueued(e, q)) /\ NoteDelayStays(e, q)
  BY <1>7, NoteDelaysLeave DEF NoteIsQueued
<1>9. CASE j.kind # "notification"
  <2>1. NoteDelaysStay /\ NotesQueuedStay
    BY <1>8, <1>9, KindFacts DEF NoteDelaysStay, NotesQueuedStay
  <2>2. NotesAreRight' /\ EntriesAreCounted'
    BY <1>1, <1>4, <1>5, <1>6, <2>1, NotesStay
  <2> QED BY <1>1, <1>4, <1>5, <1>6, <2>2 DEF DirectInv, DirectTypes, DirectLoading
<1>10. CASE j.kind = "notification"
  <2>1. PICK d \in Dependencies, p \in Priorities : j = Notification(d, p)
    BY <1>10, KindFacts
  <2>2. z \in NoteDelays(d, p)
    BY <2>1 DEF NoteDelays, DelayLeaves
  <2>3. OneNote(d, p) /\ NoteFollows(d, p) /\ NoteLives(d, p)
    BY <2>2 DEF NotesAreRight, NoteLives
  <2>4. PICK i \in Entries : DelayedEvent(z) = StatusEntry(p, i) /\ Relevant(d, p) \subseteq statusArr[p][i]
    BY <2>2, <2>3 DEF NoteFollows
  <2>5. /\ Relevant(d, p) \subseteq loaded /\ NoteFrames(d, p) = {}
        /\ Started(d) /\ p \in EntriesOf(d) /\ ~ IsToCome(d, p)
    BY <2>2, <2>3, <2>4 DEF OneNote
  <2>6. NoteIsQueued(d, p)' /\ NoteFrames(d, p)' = {} /\ NoteDelays(d, p)' = {}
        /\ Started(d)' /\ ~ IsToCome(d, p)'
    BY <1>4, <1>5, <1>7, <2>1, <2>5, NoteDelaysLeave
    DEF NoteIsQueued, NoteFramesStay, StartedStays, ToComeStays
  <2>7. NoteLives(d, p)'
    BY <2>6 DEF NoteLives
  <2>8. OneNote(d, p)' /\ NoteFollows(d, p)'
    BY <1>1, <2>5, <2>6 DEF OneNote, NoteFollows, EntriesOf
  <2>9. \A e \in Dependencies, q \in Priorities :
           e # d \/ q # p => /\ NoteIsQueued(e, q)' <=> NoteIsQueued(e, q)
                             /\ NoteFrames(e, q)' = NoteFrames(e, q) /\ NoteDelayStays(e, q)
    BY <1>4, <1>8, <2>1, KindFacts DEF NoteFramesStay
  <2>10. NotesAreRight' /\ EntriesAreCounted'
    BY <1>1, <1>5, <2>3, <2>7, <2>8, <2>9, NoteGoesOn
  <2> QED BY <1>1, <1>4, <1>5, <1>6, <2>10 DEF DirectInv, DirectTypes, DirectLoading
<1> QED BY <1>9, <1>10

LEMMA LoadingInitially == Init => LoadingInv
<1> SUFFICES ASSUME Init PROVE LoadingInv
  OBVIOUS
<1>1. /\ mJobQueue = {} /\ stack = [t \in Threads |-> <<>>]
      /\ mAssetRequestFinished = {} /\ loaded = {} /\ mActive = {} /\ deleted = {} /\ requested = {}
      /\ mRequestQueueArr = [p \in Priorities |-> <<>>]
      /\ mActiveRequestCounter = [d \in Dependencies |-> 0]
      /\ mNumStatusArrayEntriesCompleted = [d \in Dependencies |-> 0]
      /\ enqueued = [p \in Priorities |-> {}]
      /\ statusArr = [p \in Priorities |-> [i \in Entries |-> {}]]
      /\ mCurrStatusArrayEntryIndex = [p \in Priorities |-> 0]
      /\ read = {} /\ decompression = {}
      /\ mRequestHandlerPtr \in {"DirectStorage", "Win32"}
  BY DEF Init, JobsInit, RequestsInit, Win32Init, DirectInit, Entries
<1>2. FramePlaces = {}
  BY <1>1, EmptySequence DEF FramePlaces
<1>3. QueuePlaces = {}
  BY <1>1, EmptySequence DEF QueuePlaces
<1>4. DelaysBegin
  <2>1. PICK event : mSubmissionInfoArr =
           [t \in Threads |-> IF t # Main THEN <<>> ELSE <<[event |-> event, job |-> BeginLoading]>>]
    BY DEF Init
  <2>2. PICK e : e = [event |-> event, job |-> BeginLoading]
    OBVIOUS
  <2>3. e.job = BeginLoading
    BY <2>2
  <2>4. \A t \in Threads : mSubmissionInfoArr[t] = IF t # Main THEN <<>> ELSE <<e>>
    BY <2>1, <2>2
  <2>5. ASSUME NEW z \in DelayPlaces PROVE DelayedJob(z) = BeginLoading
    <3>1. z[1] \in Threads /\ z[2] \in DOMAIN mSubmissionInfoArr[z[1]]
      BY PlacesOfDelays
    <3>2. z[2] = 1 /\ mSubmissionInfoArr[z[1]] = <<e>>
      BY <2>4, <3>1, EmptySequence, OneElement
    <3> QED BY <2>3, <3>2 DEF DelayedJob
  <2> QED BY <2>5 DEF DelaysBegin
<1>5. PreparedOnce /\ \A d \in Dependencies : ~ Started(d)
  BY <1>1, <1>2 DEF PreparedOnce, Preparing, IsQueuedFor, Started
<1>6. Win32Inv
  <2>1. mRequestQueueArr \in [Priorities -> Seq(AllOf)] /\ mActiveRequestCounter \in [Dependencies -> Int]
    BY <1>1, EmptySeq
  <2>2. Win32Types
    BY <1>1, <1>2, <1>4, <2>1 DEF Win32Types, Win32Frames
  <2>3. OnePlace
    BY <1>2, <1>3 DEF OnePlace, InQueue, Loaders
  <2>4. RequestsAreCounted
    BY <1>1, <1>5 DEF RequestsAreCounted
  <2> QED BY <2>2, <2>3, <2>4 DEF Win32Inv
<1>7. DirectInv
  <2>1. StatusTypes
    <3>1. DIRECT_STORAGE_QUEUE_CAPACITY \in Nat \ {0}
      BY DirectStorageAssumption
    <3>2. 0 \in Entries
      BY <3>1 DEF Entries
    <3> QED BY <1>1, <3>2 DEF StatusTypes
  <2>2. DirectFrames /\ OneDecompression
    BY <1>1, <1>2 DEF DirectFrames, OneDecompression, Decompressing
  <2>3. NoDelayedPrepare
    BY <1>4, KindFacts DEF DelaysBegin, NoDelayedPrepare
  <2>4. DirectTypes
    BY <1>1, <2>1, <2>2, <2>3 DEF DirectTypes
  <2>5. EntriesAreCounted
    BY <1>1, <1>5 DEF EntriesAreCounted
  <2>6. ASSUME NEW d \in Dependencies, NEW p \in Priorities PROVE OneNote(d, p) /\ NoteFollows(d, p)
    <3>1. ~ NoteIsQueued(d, p) /\ NoteFrames(d, p) = {} /\ NoteDelays(d, p) = {}
      BY <1>1, <1>2, <1>4, KindFacts DEF NoteIsQueued, NoteFrames, NoteDelays, DelaysBegin
    <3> QED BY <3>1 DEF OneNote, NoteFollows, NoteLives
  <2> QED BY <2>4, <2>5, <2>6 DEF DirectInv, NotesAreRight
<1> QED BY <1>1, <1>5, <1>6, <1>7, LoaderInitially DEF LoadingInv

LEMMA LoadingStep == LoadingInv /\ [Next]_vars => LoadingInv'
<1> SUFFICES ASSUME LoadingInv, [Next]_vars PROVE LoadingInv'
  OBVIOUS
<1>1. LoaderInv' /\ mRequestHandlerPtr' = mRequestHandlerPtr
  <2>1. mRequestHandlerPtr' = mRequestHandlerPtr
    BY DEF Next, vars, managerVars, EnqueueAssetDependency, SubmitAssetIORequests, BeginSubmit, SubmitQueue,
           ClearCompletedRequests, ExecuteJob, CheckDelayedJobs, DirectStorage, Drain
  <2> QED BY <2>1, LoaderStep DEF LoadingInv
<1>2. /\ Types /\ PreparedOnce
      /\ mRequestHandlerPtr = "Win32" => Win32Loading
      /\ mRequestHandlerPtr = "DirectStorage" => DirectLoading /\ OneDecompression
  BY DirectParts DEF LoadingInv, LoaderInv, Win32Loading, DirectLoading
<1> DEFINE Goal == /\ mRequestHandlerPtr = "Win32" => PreparedOnce' /\ Win32Inv'
                   /\ mRequestHandlerPtr = "DirectStorage" => PreparedOnce' /\ DirectInv'
<1>3. ASSUME Quiet, mRequestHandlerPtr = "DirectStorage" => OneDecompression',
             UNCHANGED <<mActiveRequestCounter, mNumStatusArrayEntriesCompleted, enqueued, statusArr,
                         mCurrStatusArrayEntryIndex>>
      PROVE  Goal
  BY <1>2, <1>3, Win32IsQuiet, DirectIsQuiet
<1>4. ASSUME NEW d \in Dependencies, EnqueueAssetDependency(d)
      PROVE  Goal
  <2>1. /\ d \notin requested /\ requested' = requested \cup {d}
        /\ mJobQueue' = mJobQueue \cup {Prepare(d)} /\ UNCHANGED <<stack, mSubmissionInfoArr>>
        /\ Untouched
    BY <1>4 DEF EnqueueAssetDependency, Dispatch, Untouched, directVars, storageVars
  <2> QED BY <1>2, <2>1, DependencyIsEnqueued
<1>5. ASSUME SubmitAssetIORequests \/ Drain \/ UNCHANGED vars
      PROVE  Goal
  <2>1. UNCHANGED <<stack, mJobQueue, mSubmissionInfoArr, requested, mAssetRequestFinished, loaded,
                    mRequestQueueArr, mActiveRequestCounter, mNumStatusArrayEntriesCompleted,
                    enqueued, statusArr, mCurrStatusArrayEntryIndex, read, decompression>>
    BY <1>5 DEF SubmitAssetIORequests, BeginSubmit, SubmitQueue, ClearCompletedRequests, Submit, EraseIfReady,
            Drain, StoreBufferDrains, vars, jobVars, requestVars, win32Vars, directVars, storageVars, queueVars,
            managerVars
  <2>2. UNCHANGED <<mActive, deleted>> \/ EraseIfReady
    BY <1>5 DEF SubmitAssetIORequests, BeginSubmit, SubmitQueue, ClearCompletedRequests, Submit,
            Drain, StoreBufferDrains, vars, requestVars
  <2>3. /\ mActive' \cup deleted' \subseteq mActive \cup deleted
        /\ deleted' \subseteq deleted \cup mAssetRequestFinished
    BY <2>2 DEF EraseIfReady, ReadyForDeletion
  <2>4. Quiet
    BY <2>1, <2>3 DEF Quiet
  <2>5. mRequestHandlerPtr = "DirectStorage" => OneDecompression'
    BY <1>2, <2>1, NothingMoves, DecompressionStays
  <2> QED BY <1>3, <2>1, <2>4, <2>5
<1>6. ASSUME DirectStorage
      PROVE  Goal
  <2>1. PICK r \in Requests : ReadFromFile(r) /\ UNCHANGED <<win32Vars, managerVars>>
    BY <1>6 DEF DirectStorage
  <2>2. /\ UNCHANGED <<stack, mJobQueue, mSubmissionInfoArr, requested, mAssetRequestFinished,
                       mRequestQueueArr, mActiveRequestCounter, mActive, deleted,
                       mNumStatusArrayEntriesCompleted, enqueued, statusArr,
                       mCurrStatusArrayEntryIndex>>
        /\ r \notin read /\ read' = read \cup {r}
        /\ \/ decompression' = decompression \cup {r} /\ loaded' = loaded
           \/ decompression' = decompression /\ loaded' = loaded \cup {r}
    BY <2>1 DEF ReadFromFile, jobVars, win32Vars, queueVars, managerVars
  <2>3. Quiet
    BY <2>2 DEF Quiet
  <2>4. ASSUME mRequestHandlerPtr = "DirectStorage" PROVE OneDecompression'
    <3>1. DecompressingStays
      BY <2>2, NothingMoves
    <3> QED BY <1>2, <2>2, <2>4, <3>1 DEF OneDecompression, DecompressingStays
  <2> QED BY <1>3, <2>2, <2>3, <2>4
<1>7. ASSUME NEW t \in Threads, ExecuteJob(t)
      PROVE  Goal
  <2>1. CASE AcquireQueuedJob(t) /\ UNCHANGED <<requestVars, win32Vars, directVars, managerVars>>
    <3>1. PICK j \in mJobQueue : /\ mJobQueue' = mJobQueue \ {j}
                                 /\ stack' = [stack EXCEPT ![t] = Append(stack[t], Frame(j))]
      BY <2>1 DEF AcquireQueuedJob
    <3>2. PICK x : Comes(x, j)
      BY <1>2, <3>1, PushedComes DEF Types
    <3>3. UNCHANGED <<requested, mSubmissionInfoArr>> /\ Untouched
      BY <2>1 DEF AcquireQueuedJob, Untouched, directVars, storageVars, managerVars
    <3> QED BY <1>2, <3>1, <3>2, <3>3, Win32Takes, DirectTakes
  <2>2. CASE mRequestHandlerPtr = "Win32" /\ Win32Step(t) /\ UNCHANGED <<directVars, managerVars>>
    BY <1>2, <2>2, Win32Loads DEF managerVars
  <2>3. CASE mRequestHandlerPtr = "DirectStorage" /\ DirectStep(t) /\ UNCHANGED <<win32Vars, managerVars>>
    BY <1>2, <2>3, DirectLoads DEF managerVars, win32Vars
  <2> QED BY <1>7, <2>1, <2>2, <2>3 DEF ExecuteJob
<1>8. ASSUME NEW t \in Threads, CheckDelayedJobs(t)
      PROVE  Goal
  <2>1. PICK k \in DOMAIN mSubmissionInfoArr[t] :
           /\ IsEventCompleted(t, mSubmissionInfoArr[t][k].event)
           /\ CheckForDelayedJobSubmission(t, k)
           /\ UNCHANGED <<requestVars, win32Vars, mNumStatusArrayEntriesCompleted, queueVars,
                          submitted, read, decompression, managerVars>>
    BY <1>8 DEF CheckDelayedJobs
  <2>10. PICK event : event = mSubmissionInfoArr[t][k].event
    OBVIOUS
  <2>2. PICK j : j = mSubmissionInfoArr[t][k].job
    OBVIOUS
  <2>3. j \in Jobs /\ j.kind # "load" /\ DelayTypes
    BY <1>2, <2>2 DEF Types, DelayTypes
  <2>4. PICK z : DelayLeaves(z) /\ DelayedJob(z) = j /\ DelayedEvent(z) = event
    BY <2>1, <2>2, <2>3, <2>10, SubmittedLeaves
  <2>5. mJobQueue' = mJobQueue \cup {j} /\ UNCHANGED <<stack, requested>> /\ Untouched
    BY <2>1, <2>2 DEF CheckForDelayedJobSubmission, Dispatch, managerVars, Untouched
  <2>6. ASSUME NEW p \in Priorities, NEW i \in Entries, event = StatusEntry(p, i)
        PROVE  statusArr[p][i] \subseteq loaded
    <3>1. event.kind = "status" /\ event.priority = p /\ event.index = i
      BY <2>6 DEF StatusEntry
    <3>2. IsStatusOk(event.priority, event.index)
      BY <2>1, <2>10, <3>1 DEF IsEventCompleted
    <3> QED BY <3>1, <3>2 DEF IsStatusOk
  <2>7. mRequestHandlerPtr = "Win32" => PreparedOnce' /\ Win32Inv'
    BY <1>2, <2>4, <2>5, Win32Submits
  <2>8. mRequestHandlerPtr = "DirectStorage" => PreparedOnce' /\ DirectInv'
    BY <1>2, <2>3, <2>4, <2>5, <2>6, DirectSubmits
  <2> QED BY <2>7, <2>8
<1>9. Goal
  BY <1>4, <1>5, <1>6, <1>7, <1>8 DEF Next
<1> QED BY <1>1, <1>2, <1>9 DEF LoadingInv

\* A job that refers to a dependency prepares it, or notifies it.
LEMMA WhatRefers ==
    ASSUME NEW j \in Jobs, NEW d, RefersTo(j, d)
    PROVE  j = Prepare(d) \/ \E p \in Priorities : j = Notification(d, p)
<1>1. "dependency" \in DOMAIN j /\ j.dependency = d
  BY DEF RefersTo
<1>2. j.kind \in {"prepare", "notification"}
  <2>1. CASE j = BeginLoading
    BY <1>1, <2>1 DEF BeginLoading
  <2>2. CASE j \in [kind : {"load"}, number : 1 .. LOADING_THREADS]
    BY <1>1, <2>2
  <2>3. CASE j \in [kind : {"load"}, number : 1 .. LOADING_THREADS, waiter : Threads, depth : Nat]
    BY <1>1, <2>3
  <2> QED BY <2>1, <2>2, <2>3 DEF Jobs
<1> QED BY <1>1, <1>2, KindFacts

\* What is loaded is in memory, and nothing refers to what is deleted.
LEMMA LoadingIsOutlived == LoadingInv => DependencyOutlivesItsLoading
<1> SUFFICES ASSUME LoadingInv PROVE DependencyOutlivesItsLoading
  OBVIOUS
<1> USE KindFacts
<1>1. /\ PreparedOnce /\ mJobQueue \subseteq Jobs /\ StackTypes /\ DelayTypes
      /\ mRequestHandlerPtr \in {"Win32", "DirectStorage"}
  BY DEF LoadingInv, LoaderInv, Types
<1>2. ASSUME NEW d \in mAssetRequestFinished
      PROVE  d \in Dependencies /\ Of(d) \subseteq loaded
  <2>1. CASE Win32Inv
    BY <2>1 DEF Win32Inv, RequestsAreCounted
  <2>2. CASE DirectInv
    <3>1. d \in Dependencies /\ Started(d) /\ Completed(d) = EntriesOf(d)
      BY <2>2 DEF DirectInv, EntriesAreCounted
    <3>2. \A p \in EntriesOf(d) : Relevant(d, p) \subseteq loaded
      BY <2>2, <3>1 DEF DirectInv, EntriesAreCounted
    <3> QED BY <3>1, <3>2, EntriesOfFinite
  <2> QED BY <1>1, <2>1, <2>2 DEF LoadingInv
<1>3. ASSUME NEW d \in deleted
      PROVE  /\ \A p \in Priorities : \A i \in DOMAIN mRequestQueueArr[p] : mRequestQueueArr[p][i] \notin Of(d)
             /\ \A job \in mJobQueue : ~ RefersTo(job, d)
             /\ \A t \in Threads :
                   /\ \A i \in DOMAIN mSubmissionInfoArr[t] : ~ RefersTo(mSubmissionInfoArr[t][i].job, d)
                   /\ \A i \in DOMAIN stack[t] :
                         /\ RefersTo(stack[t][i].job, d) =>
                               stack[t][i].job.kind = "prepare" /\ stack[t][i].pc = "store"
                         /\ IsLoading(stack[t][i]) => stack[t][i].at \notin Of(d)
  <2>1. /\ d \in mAssetRequestFinished /\ d \in Dependencies /\ Started(d) /\ Of(d) \subseteq loaded
        /\ \A x \in Preparing(d) : PcOf(x) = "store"
    BY <1>1, <1>2 DEF PreparedOnce
  <2>2. ~ IsQueuedFor(d)
    BY <2>1 DEF Started
\* Nothing is left of it with either handler.
  <2>3. /\ \A p \in Priorities : ~ NoteIsQueued(d, p) /\ NoteFrames(d, p) = {}
        /\ \A z \in DelayPlaces : ~ RefersTo(DelayedJob(z), d)
        /\ \A y \in QueuePlaces : QueuedAt(y) \notin Of(d)
        /\ \A x \in FramePlaces :
              JobOf(x).kind = "load" /\ PcOf(x) \in {"loading", "notify", "decompress"} => AtOf(x) \notin Of(d)
    <3>1. CASE Win32Inv
      <4>1. Outstanding(d) = {}
        BY <2>1, <3>1 DEF Win32Inv, RequestsAreCounted
      <4>2. \A y \in QueuePlaces : QueuedAt(y) \notin Of(d)
        BY <4>1 DEF Outstanding, InQueue
      <4>3. \A x \in FramePlaces :
               JobOf(x).kind = "load" /\ PcOf(x) \in {"loading", "notify", "decompress"} => AtOf(x) \notin Of(d)
        <5>1. ASSUME NEW x \in FramePlaces, JobOf(x).kind = "load",
                     PcOf(x) \in {"loading", "notify", "decompress"}, AtOf(x) \in Of(d)
              PROVE  FALSE
          <6>1. PcOf(x) \in {"loading", "notify"}
            BY <3>1, <5>1 DEF Win32Inv, Win32Types, Win32Frames, Win32Load
          <6>2. x \in Loaders(AtOf(x))
            BY <5>1, <6>1 DEF Loaders
          <6> QED BY <4>1, <5>1, <6>2 DEF Outstanding
        <5> QED BY <5>1
      <4>4. \A p : ~ NoteIsQueued(d, p) /\ NoteFrames(d, p) = {}
        BY <3>1 DEF Win32Inv, Win32Types, Win32Frames, NoteIsQueued, NoteFrames
      <4>5. \A z \in DelayPlaces : ~ RefersTo(DelayedJob(z), d)
        BY <3>1 DEF Win32Inv, Win32Types, DelaysBegin, RefersTo, BeginLoading
      <4> QED BY <4>2, <4>3, <4>4, <4>5
    <3>2. CASE DirectInv
      <4>1. ASSUME NEW p \in Priorities PROVE ~ NoteLives(d, p)
        <5>1. NoteLives(d, p) => p \in Completed(d)
          BY <2>1, <3>2 DEF DirectInv, EntriesAreCounted, NotesAreRight, OneNote
        <5> QED BY <5>1 DEF Completed
      <4>2. \A p \in Priorities : ~ NoteIsQueued(d, p) /\ NoteFrames(d, p) = {} /\ NoteDelays(d, p) = {}
        BY <4>1 DEF NoteLives
      <4>3. ASSUME NEW z \in DelayPlaces, RefersTo(DelayedJob(z), d)
            PROVE  FALSE
        <5>1. DelayedJob(z) \in Jobs
          BY <1>1, PlacesOfDelays DEF DelayTypes, DelayedJob
        <5>2. DelayedJob(z) # Prepare(d)
          BY <3>2 DEF DirectInv, DirectTypes, NoDelayedPrepare
        <5>3. PICK p \in Priorities : DelayedJob(z) = Notification(d, p)
          BY <4>3, <5>1, <5>2, WhatRefers
        <5> QED BY <4>2, <5>3 DEF NoteDelays
      <4>4. QueuePlaces = {}
        BY <3>2, EmptySequence DEF DirectInv, DirectTypes, QueuePlaces
      <4>5. \A x \in FramePlaces :
               JobOf(x).kind = "load" /\ PcOf(x) \in {"loading", "notify", "decompress"} => AtOf(x) \notin Of(d)
        <5>1. ASSUME NEW x \in FramePlaces, JobOf(x).kind = "load",
                     PcOf(x) \in {"loading", "notify", "decompress"}
              PROVE  AtOf(x) \notin Of(d)
          <6>1. PcOf(x) = "decompress"
            BY <3>2, <5>1 DEF DirectInv, DirectTypes, DirectFrames, DirectFrame
          <6>2. x \in Decompressing
            BY <5>1, <6>1 DEF Decompressing
          <6>3. AtOf(x) \notin loaded
            BY <3>2, <6>2 DEF DirectInv, DirectTypes, OneDecompression
          <6> QED BY <2>1, <6>3
        <5> QED BY <5>1
      <4> QED BY <4>2, <4>3, <4>4, <4>5
    <3> QED BY <1>1, <3>1, <3>2 DEF LoadingInv
  <2>4. ASSUME NEW p \in Priorities, NEW i \in DOMAIN mRequestQueueArr[p]
        PROVE  mRequestQueueArr[p][i] \notin Of(d)
    <3> DEFINE y == <<p, i>>
    <3>1. y = <<p, i>> /\ y[1] = p /\ y[2] = i
      OBVIOUS
    <3> HIDE DEF y
    <3> QED BY <2>3, <3>1, PlacesOfRequests DEF QueuedAt
  <2>5. ASSUME NEW job \in mJobQueue PROVE ~ RefersTo(job, d)
    BY <1>1, <2>2, <2>3, WhatRefers DEF IsQueuedFor, NoteIsQueued
  <2>6. ASSUME NEW t \in Threads, NEW i \in DOMAIN mSubmissionInfoArr[t]
        PROVE  ~ RefersTo(mSubmissionInfoArr[t][i].job, d)
    <3> DEFINE z == <<t, i>>
    <3>1. z = <<t, i>> /\ z[1] = t /\ z[2] = i
      OBVIOUS
    <3> HIDE DEF z
    <3> QED BY <2>3, <3>1, PlacesOfDelays DEF DelayedJob
  <2>7. ASSUME NEW t \in Threads, NEW i \in DOMAIN stack[t]
        PROVE  /\ RefersTo(stack[t][i].job, d) =>
                     stack[t][i].job.kind = "prepare" /\ stack[t][i].pc = "store"
               /\ IsLoading(stack[t][i]) => stack[t][i].at \notin Of(d)
    <3> DEFINE x == <<t, i>>
    <3>1. x = <<t, i>> /\ x[1] = t /\ x[2] = i
      OBVIOUS
    <3> HIDE DEF x
    <3>2. x \in FramePlaces /\ JobOf(x) = stack[t][i].job /\ PcOf(x) = stack[t][i].pc /\ AtOf(x) = stack[t][i].at
      BY <1>1, <3>1, PlacesOfFrames DEF JobOf, PcOf, AtOf
    <3>3. JobOf(x) \in Jobs
      BY <1>1, <3>2, FramesHaveJobs
    <3>4. RefersTo(JobOf(x), d) => JobOf(x).kind = "prepare" /\ PcOf(x) = "store"
      <4> HAVE RefersTo(JobOf(x), d)
      <4>1. \A p \in Priorities : JobOf(x) # Notification(d, p)
        BY <2>3, <3>2 DEF NoteFrames
      <4>2. JobOf(x) = Prepare(d)
        BY <3>3, <4>1, WhatRefers
      <4>3. x \in Preparing(d)
        BY <3>2, <4>2 DEF Preparing
      <4> QED BY <2>1, <4>2, <4>3
    <3> QED BY <2>3, <3>2, <3>4 DEF IsLoading
  <2> QED BY <2>4, <2>5, <2>6, <2>7
<1> QED BY <1>2, <1>3 DEF DependencyOutlivesItsLoading, NothingDangles

\* For any dependencies, requests, priorities and threads, and with either handler: the
\* event of a dependency is complete only when all its data is in memory, and its object
\* is deleted (Win32AssetIORequestHandler.cpp:63-74,
\* DirectStorageAssetIORequestHandler.cpp:190-193) only when no request in a queue or
\* being loaded, no job and no delayed job refers to it.
THEOREM DependencyOutlivesItsLoadingTheorem == AssetSpec => []DependencyOutlivesItsLoading
<1> QED BY LoadingInitially, LoadingStep, LoadingIsOutlived, PTL DEF AssetSpec

-----------------------------------------------------------------------------
(* Facts about numbers.                                                      *)

\* The sets 0 .. n, of the numbers n of S, are finite, so one of them is minimal.
LEMMA LeastNatural ==
    ASSUME NEW S \in SUBSET Nat, S # {}
    PROVE  \E m \in S : \A n \in S : m <= n
<1> DEFINE T == {0 .. n : n \in S}
<1>1. \A n \in S : IsFiniteSet(0 .. n) /\ 0 .. n \subseteq Nat
  BY FS_Interval
<1>2. T \subseteq FiniteSubsetsOf(Nat) /\ T # {}
  BY <1>1 DEF FiniteSubsetsOf
<1>3. \E X \in T : \A Y \in T : ~(<<Y, X>> \in StrictSubsetOrdering(Nat))
  <2> HIDE DEF T
  <2> QED BY <1>2, WFMin, FS_StrictSubsetOrderingWellFounded
<1>4. PICK m \in S : \A n \in S : ~(<<0 .. n, 0 .. m>> \in StrictSubsetOrdering(Nat))
  BY <1>3
<1>5. ASSUME NEW n \in S, n < m PROVE FALSE
  <2>1. m \in 0 .. m /\ m \notin 0 .. n
    BY <1>5
  <2>2. 0 .. n \subseteq 0 .. m /\ 0 .. n # 0 .. m /\ 0 .. n \subseteq Nat /\ 0 .. m \subseteq Nat
    BY <2>1, <1>5
  <2> QED BY <2>2, <1>4 DEF StrictSubsetOrdering
<1> QED BY <1>5

\* Numbers with one quotient and one remainder.
LEMMA OneRemainder ==
    ASSUME NEW m \in Nat \ {0}, NEW q \in Int, NEW p \in Int,
           NEW r \in 0 .. m - 1, NEW s \in 0 .. m - 1, m * q + r = m * p + s
    PROVE  r = s
  OBVIOUS

LEMMA Division ==
    ASSUME NEW m \in Nat \ {0}, NEW x \in Nat
    PROVE  x % m \in 0 .. m - 1 /\ x \div m \in Nat /\ x = m * (x \div m) + (x % m)
<1>1. x \in Int /\ m \in Int /\ m > 0
  OBVIOUS
<1>2. x % m \in 0 .. m - 1
  BY <1>1
<1>3. x \div m \in Int
  BY <1>1
<1>4. x = m * (x \div m) + (x % m)
  OBVIOUS
<1>5. x \div m >= 0
  BY <1>1
<1>6. x \div m \in Nat
  <2> DEFINE d == x \div m
  <2> HIDE DEF d
  <2> QED BY <1>3, <1>5 DEF d
<1> QED BY <1>2, <1>4, <1>6

LEMMA Congruent ==
    ASSUME NEW m \in Nat \ {0}, NEW x \in Nat, NEW y \in Nat, NEW k \in Int, y = x + m * k
    PROVE  y % m = x % m
<1> DEFINE q == x \div m
           p == y \div m
           r == x % m
           s == y % m
<1>1. q \in Int /\ r \in 0 .. m - 1 /\ x = m * q + r
  BY Division
<1>2. p \in Int /\ s \in 0 .. m - 1 /\ y = m * p + s
  BY Division
<1> HIDE DEF q, p, r, s
<1>3. m * p + s = m * (q + k) + r
  BY <1>1, <1>2
<1>4. s = r
  <2>1. q + k \in Int
    BY <1>1
  <2> QED BY <1>1, <1>2, <1>3, <2>1, OneRemainder
<1> QED BY <1>4 DEF r, s

\* The remainder may be taken before an addition, and numbers that are less than m
\* apart have different ones.
LEMMA AddedRemainder ==
    ASSUME NEW m \in Nat \ {0}, NEW x \in Nat, NEW n \in Nat
    PROVE  ((x % m) + n) % m = (x + n) % m
<1> DEFINE q == x \div m
           r == x % m
           y == x + n
           z == r + n
<1>1. q \in Nat /\ r \in Nat /\ x = m * q + r
  BY Division
<1> HIDE DEF q, r
<1>2. y = z + m * q /\ z \in Nat /\ y \in Nat /\ q \in Int
  BY <1>1
<1> HIDE DEF y, z
<1>3. y % m = z % m
  BY <1>2, Congruent
<1> QED BY <1>3 DEF r, y, z

LEMMA DifferentRemainders ==
    ASSUME NEW m \in Nat \ {0}, NEW p \in Nat, NEW q \in Nat, p < q, q - p < m
    PROVE  p % m # q % m
<1> SUFFICES ASSUME p % m = q % m PROVE FALSE
  OBVIOUS
<1> DEFINE a == p \div m
           b == q \div m
           r == p % m
<1>1. a \in Nat /\ b \in Nat /\ r \in 0 .. m - 1 /\ p = m * a + r /\ q = m * b + r
  BY Division
<1> HIDE DEF a, b, r
<1>2. m * (b - a) = q - p
  BY <1>1
<1>3. b - a \in Int /\ m * (b - a) > 0 /\ m * (b - a) < m
  BY <1>1, <1>2
<1>4. CASE b - a <= 0
  BY <1>4, <1>3
<1>5. CASE b - a >= 1
  BY <1>5, <1>3
<1> QED BY <1>3, <1>4, <1>5

-----------------------------------------------------------------------------
(* What always holds of the streaming of audio.                              *)

\* The requests for blocks: the asset has at most one, of at most the buffers the voice
\* wants, pending or being loaded.
Asks == {<<>>} \cup {<<n>> : n \in 1 .. DESIRED_QUEUED_AUDIO_BUFFER_COUNT}
\* The checks of an update that are under way.
Open(g) == groupCheck[g] \in {"ready", "checking"}
\* The jobs that check the asset.
AudioJobs == {j \in AssetJobs : j[2] = Audio}

\* The types of what the update of the asset dependencies has.
GroupTypes ==
    /\ phase \in {"application", "checking", "processing", "executing"}
    /\ turn \in {"initialize", "preupdate", "update", "voice", "buffers"}
    /\ turn = "update" <=> phase # "application"
    /\ pending \in SUBSET Heads /\ active \in SUBSET Heads
    /\ groupCheck \in [Groups -> {"none", "ready", "checking", "checked"}]
    /\ assetCheck \in [AssetJobs -> {"none", "ready", "updating", "updated", "skipped"}]
    /\ mDependenciesChecked \in SUBSET PersistentGroups
    /\ mUpdateTickCounter \in [Assets -> Ticks]
    /\ pulls \in Nat

\* Checks spread from a group to its children and its assets: none of these is checked
\* before the group is, and a check waits for those it has begun.  The ranks, of which
\* a child's is greater than its parent's, say that this goes back to an active group.
ChecksGoDown ==
    /\ \A g \in Groups : groupCheck[g] \in {"none", "ready"} =>
          /\ \A h \in ChildGroups[g] : groupCheck[h] = "none"
          /\ \A a \in mAssetDependencies[g] : assetCheck[<<g, a>>] = "none"
    /\ \A j \in AssetJobs : assetCheck[j] \in {"ready", "updating"} => groupCheck[j[1]] = "checking"
    /\ \A g \in Groups \ PersistentGroups, a \in Assets :
          a \in mAssetDependencies[g] /\ groupCheck[g] = "checked"
             => assetCheck[<<g, a>>] \in {"updated", "skipped"}
    /\ phase # "checking" => \A g \in Groups : ~ Open(g)
    /\ \E rank \in [Groups -> Nat] : \A h \in Groups \ active : Open(h) =>
          \E g \in Groups : groupCheck[g] = "checking" /\ h \in ChildGroups[g] /\ rank[g] < rank[h]

\* The asset is in a group that is checked in every update, so one job updates it, and
\* passes on what the voice has asked for.
AudioIsUpdated ==
    /\ AudioHeads \cap (pending \cup active) # {}
    /\ phase # "application" => pending = {}
    /\ phase = "application" => mUpdateTickCounter[Audio] = "current"
    /\ phase = "checking" =>
          /\ mUpdateTickCounter[Audio] # "behind"
          /\ mUpdateTickCounter[Audio] = "current" =>
                \A j \in AudioJobs : assetCheck[j] \in {"none", "ready"}
          /\ mUpdateTickCounter[Audio] = "next" =>
                \E j \in AudioJobs : assetCheck[j] \in {"updating", "updated"}
          /\ (\E j \in AudioJobs : assetCheck[j] = "updated") => mPendingLoadRequestQueue = <<>>
    /\ phase \in {"processing", "executing"} =>
          mUpdateTickCounter[Audio] = "next" /\ mPendingLoadRequestQueue = <<>>

\* Those loads are critical, so they are in a job before any job is executed, and
\* nothing is left to be loaded when the update ends.
LoadsAreServed ==
    /\ mPendingLoadRequestQueue \in Asks /\ mLoadRequestQueue \in Asks
    /\ mPendingLoadRequestQueue = <<>> \/ mLoadRequestQueue = <<>>
    /\ phase = "application" => mLoadRequestQueue = <<>>
    /\ turn \in {"voice", "buffers"} => mPendingLoadRequestQueue = <<>>
    /\ mLoadRequestQueue # <<>> => AudioRequests \cap (queued \cup UNION jobs) # {}
    /\ phase = "executing" => AudioRequests \cap queued = {}

\* How many blocks are yet to be loaded.
Asked == IF mPendingLoadRequestQueue # <<>> THEN mPendingLoadRequestQueue[1]
         ELSE IF mLoadRequestQueue # <<>> THEN mLoadRequestQueue[1] ELSE 0

\* The ring, when so many blocks have been played and filled since the program began:
\* the slots from the one to the other hold the blocks of the file, in its order, and
\* XAudio2 has the first of them.
RingHolds(played, filled) ==
    /\ played + Len(xaudio) <= filled
    /\ filled + Asked <= played + DESIRED_QUEUED_AUDIO_BUFFER_COUNT
    /\ mCurrLoadIndex = Slot(filled) /\ mCurrRetrievalIndex = Slot(played + Len(xaudio))
    /\ nextBlock = Block(filled + 1)
    /\ \A i \in played .. filled - 1 : mDecodedZSTDBlockArr[Slot(i)] = Block(i + 1)
    /\ \A k \in 1 .. Len(xaudio) :
          xaudio[k] = [slot |-> Slot(played + k - 1), block |-> Block(played + k)]
    /\ mLoadedDataCount = 0 => filled = 0

\* There are such numbers, and no more buffers are made than the voice wants.
RingIsInOrder ==
    /\ mDecodedZSTDBlockArr \in [0 .. ZSTD_BLOCK_ARRAY_SIZE - 1 -> Nat]
    /\ mLoadedDataCount \in Nat /\ buffersToQueue \in Nat
    /\ xaudio \in Seq([slot : Nat, block : Nat])
    /\ \E played, filled \in Nat : RingHolds(played, filled)
    /\ turn = "buffers" => Len(xaudio) + buffersToQueue <= DESIRED_QUEUED_AUDIO_BUFFER_COUNT

StreamingInv == /\ GroupTypes /\ ChecksGoDown /\ AudioIsUpdated
                /\ LoadsAreServed /\ RingIsInOrder

\* Slots are used in turn, so those of fewer positions than there are slots differ.
LEMMA SlotFacts ==
    /\ ZSTD_BLOCK_ARRAY_SIZE \in Nat \ {0} /\ FileBlocks \in Nat \ {0}
    /\ DESIRED_QUEUED_AUDIO_BUFFER_COUNT \in Nat \ {0}
    /\ DESIRED_QUEUED_AUDIO_BUFFER_COUNT < ZSTD_BLOCK_ARRAY_SIZE
    /\ \A i \in Nat : Slot(i) \in 0 .. ZSTD_BLOCK_ARRAY_SIZE - 1
    /\ \A i, n \in Nat : Slot(Slot(i) + n) = Slot(i + n)
    /\ \A i, k \in Nat : i < k /\ k - i < ZSTD_BLOCK_ARRAY_SIZE => Slot(i) # Slot(k)
<1>1. /\ ZSTD_BLOCK_ARRAY_SIZE \in Nat \ {0} /\ FileBlocks \in Nat \ {0}
      /\ DESIRED_QUEUED_AUDIO_BUFFER_COUNT \in Nat \ {0}
      /\ DESIRED_QUEUED_AUDIO_BUFFER_COUNT < ZSTD_BLOCK_ARRAY_SIZE
  BY AudioStreamingAssumption
<1>2. \A i \in Nat : Slot(i) \in 0 .. ZSTD_BLOCK_ARRAY_SIZE - 1
  BY <1>1, Division DEF Slot
<1>3. \A i, n \in Nat : Slot(Slot(i) + n) = Slot(i + n)
  BY <1>1, AddedRemainder DEF Slot
<1>4. \A i, k \in Nat : i < k /\ k - i < ZSTD_BLOCK_ARRAY_SIZE => Slot(i) # Slot(k)
  BY <1>1, DifferentRemainders DEF Slot
<1> QED BY <1>1, <1>2, <1>3, <1>4

\* Blocks are read in turn, from the beginning of the file again after its end.
LEMMA BlockFacts ==
    /\ \A b \in Nat \ {0} : Block(b) \in Nat \ {0}
    /\ \A b \in Nat \ {0}, n \in Nat : Block(Block(b) + n) = Block(b + n)
    /\ Block(1) = 1
<1>1. FileBlocks \in Nat \ {0, 1}
  BY AudioStreamingAssumption
<1>2. ASSUME NEW b \in Nat \ {0} PROVE Block(b) \in Nat \ {0}
  <2>1. b - 1 \in Nat
    OBVIOUS
  <2>2. (b - 1) % FileBlocks \in 0 .. FileBlocks - 1
    BY <1>1, <2>1, Division
  <2> QED BY <1>1, <2>2 DEF Block
<1>3. ASSUME NEW b \in Nat \ {0}, NEW n \in Nat PROVE Block(Block(b) + n) = Block(b + n)
  <2> DEFINE c == b - 1
             r == c % FileBlocks
  <2>1. c \in Nat
    OBVIOUS
  <2>2. r \in Nat
    BY <1>1, <2>1, Division
  <2>3. (r + n) % FileBlocks = (c + n) % FileBlocks
    BY <1>1, <2>1, AddedRemainder
  <2>4. Block(b) = r + 1 BY DEF Block
  <2>5. ((r + 1) + n) - 1 = r + n /\ (b + n) - 1 = c + n
    BY <2>2
  <2> HIDE DEF r, c
  <2>6. Block((r + 1) + n) = ((r + n) % FileBlocks) + 1
    BY <2>5 DEF Block
  <2>7. Block(b + n) = ((c + n) % FileBlocks) + 1
    BY <2>5 DEF Block
  <2> QED BY <2>3, <2>4, <2>6, <2>7
<1>4. Block(1) = 1
  <2>1. 0 % FileBlocks = 0
    <3>1. 0 % FileBlocks \in 0 .. FileBlocks - 1 /\ 0 \div FileBlocks \in Nat
          /\ 0 = FileBlocks * (0 \div FileBlocks) + (0 % FileBlocks) BY <1>1, Division
    <3> DEFINE d == 0 \div FileBlocks
               r == 0 % FileBlocks
    <3>2. d \in Nat /\ r \in Nat /\ 0 = FileBlocks * d + r
      BY <3>1
    <3> HIDE DEF d, r
    <3>3. FileBlocks * d \in Nat
      BY <3>2, <1>1
    <3>4. r = 0
      BY <3>2, <3>3
    <3> QED BY <3>4 DEF r
  <2>2. 1 - 1 = 0
    OBVIOUS
  <2> QED BY <2>1, <2>2 DEF Block
<1> QED BY <1>2, <1>3, <1>4

-----------------------------------------------------------------------------
(* The checks.                                                               *)

LEMMA JobFacts ==
    /\ \A g \in Groups : \A a \in mAssetDependencies[g] : <<g, a>> \in AssetJobs /\ a \in Assets
    /\ \A j \in AssetJobs :
          /\ j[1] \in Groups /\ j[2] \in mAssetDependencies[j[1]] /\ j[2] \in Assets
          /\ j = <<j[1], j[2]>>
BY AssetDependenciesAssumption DEF AssetJobs

LEMMA ChildFacts ==
    /\ Heads \subseteq Groups
    /\ \A g \in Groups : ChildGroups[g] \subseteq Groups /\ ChildGroups[g] \cap Heads = {}
    /\ \A g, h, x \in Groups : x \in ChildGroups[g] /\ x \in ChildGroups[h] => g = h
BY AssetDependenciesAssumption DEF Heads

\* UpdateAssetDependencies begins the checks of the active groups.
LEMMA ChecksBegin ==
    ASSUME GroupTypes, ChecksGoDown, BeginUpdate
    PROVE  ChecksGoDown'
<1>1. /\ active' \subseteq Heads /\ phase' = "checking"
      /\ \A g \in Groups : groupCheck'[g] = IF g \in active' THEN "ready" ELSE "none"
      /\ \A j \in AssetJobs : assetCheck'[j] = "none"
  BY DEF BeginUpdate, GroupTypes
<1>2. \A g \in Groups, h \in Groups : h \in ChildGroups[g] => groupCheck'[h] = "none"
  BY <1>1, ChildFacts
<1>3. \A g \in Groups : groupCheck'[g] \in {"none", "ready"} =>
          /\ \A h \in ChildGroups[g] : groupCheck'[h] = "none"
          /\ \A a \in mAssetDependencies[g] : assetCheck'[<<g, a>>] = "none"
  BY <1>1, <1>2, ChildFacts, JobFacts
<1>4. [g \in Groups |-> 0] \in [Groups -> Nat]
  OBVIOUS
<1>5. \A h \in Groups \ active' : ~ (groupCheck'[h] \in {"ready", "checking"})
  BY <1>1
<1> QED BY <1>1, <1>3, <1>4, <1>5, JobFacts DEF ChecksGoDown, Open

\* The check of a group begins those of its children, which it waits for.
LEMMA ChecksSpread ==
    ASSUME GroupTypes, ChecksGoDown, NEW g \in Groups, CheckDependencies(g)
    PROVE  ChecksGoDown'
<1> DEFINE skip == g \in mDependenciesChecked
<1>1. /\ groupCheck[g] = "ready"
      /\ \A h \in Groups : groupCheck'[h] =
            IF h = g THEN IF skip THEN "checked" ELSE "checking"
            ELSE IF h \in ChildGroups[g] /\ ~ skip THEN "ready" ELSE groupCheck[h]
      /\ \A j \in AssetJobs : assetCheck'[j] =
            IF j[1] = g /\ ~ skip THEN "ready" ELSE assetCheck[j]
      /\ UNCHANGED <<phase, active>>
  <2>1. groupCheck[g] = "ready" /\ UNCHANGED <<phase, active>>
    BY DEF CheckDependencies
  <2>2. \A j \in AssetJobs : assetCheck'[j] = IF j[1] = g /\ ~ skip THEN "ready" ELSE assetCheck[j]
    BY DEF CheckDependencies
  <2>3. groupCheck' = [h \in Groups |->
                          CASE h = g -> IF skip THEN "checked" ELSE "checking"
                            [] h \in ChildGroups[g] /\ ~ skip -> "ready"
                            [] OTHER -> groupCheck[h]]
    BY DEF CheckDependencies
  <2>4. ASSUME NEW h \in Groups
        PROVE  groupCheck'[h] = IF h = g THEN IF skip THEN "checked" ELSE "checking"
                                ELSE IF h \in ChildGroups[g] /\ ~ skip THEN "ready" ELSE groupCheck[h]
    <3>1. g \notin ChildGroups[g]
      BY <2>1 DEF ChecksGoDown
    <3>2. CASE h = g
      BY <2>3, <3>1, <3>2
    <3>3. CASE h # g /\ h \in ChildGroups[g] /\ ~ skip
      BY <2>3, <3>3
    <3>4. CASE h # g /\ ~ (h \in ChildGroups[g] /\ ~ skip)
      BY <2>3, <3>4
    <3> QED BY <3>2, <3>3, <3>4
  <2> QED BY <2>1, <2>2, <2>4
<1>2. /\ \A h \in ChildGroups[g] : groupCheck[h] = "none"
      /\ \A a \in mAssetDependencies[g] : assetCheck[<<g, a>>] = "none"
      /\ phase = "checking"
  BY <1>1 DEF ChecksGoDown, Open
<1>3. \A x \in Groups, h \in Groups :
          groupCheck'[x] \in {"none", "ready"} /\ h \in ChildGroups[x] => groupCheck'[h] = "none"
  BY <1>1, <1>2, ChildFacts DEF ChecksGoDown
<1>4. \A x \in Groups, a \in Assets :
          groupCheck'[x] \in {"none", "ready"} /\ a \in mAssetDependencies[x]
             => assetCheck'[<<x, a>>] = "none"
  BY <1>1, <1>2, JobFacts DEF ChecksGoDown
<1>5. \A j \in AssetJobs : assetCheck'[j] \in {"ready", "updating"} => groupCheck'[j[1]] = "checking"
  BY <1>1, <1>2, JobFacts DEF ChecksGoDown
<1>6. \A x \in Groups \ PersistentGroups, a \in Assets :
          a \in mAssetDependencies[x] /\ groupCheck'[x] = "checked"
             => assetCheck'[<<x, a>>] \in {"updated", "skipped"}
  BY <1>1, <1>2, JobFacts DEF ChecksGoDown, GroupTypes
<1>7. \E rank \in [Groups -> Nat] : \A h \in Groups \ active' :
          groupCheck'[h] \in {"ready", "checking"} =>
             \E x \in Groups : groupCheck'[x] = "checking" /\ h \in ChildGroups[x] /\ rank[x] < rank[h]
  <2>1. PICK rank \in [Groups -> Nat] : \A h \in Groups \ active : Open(h) =>
          \E x \in Groups : groupCheck[x] = "checking" /\ h \in ChildGroups[x] /\ rank[x] < rank[h]
    BY DEF ChecksGoDown
  <2> DEFINE new == [h \in Groups |-> IF h \in ChildGroups[g] THEN rank[g] + 1 ELSE rank[h]]
  <2>2. new \in [Groups -> Nat]
    BY <2>1
  <2>3. g \notin ChildGroups[g]
    BY <1>1, <1>2
  <2>4. ASSUME NEW h \in Groups \ active, groupCheck'[h] \in {"ready", "checking"}
        PROVE  \E x \in Groups : groupCheck'[x] = "checking" /\ h \in ChildGroups[x] /\ new[x] < new[h]
    <3>1. CASE h \in ChildGroups[g] /\ ~ skip
      <4>1. groupCheck'[g] = "checking" /\ new[g] = rank[g] /\ new[h] = rank[g] + 1
        BY <1>1, <2>3, <3>1
      <4>2. rank[g] \in Nat
        BY <2>1
      <4> QED BY <3>1, <4>1, <4>2
    <3>2. CASE ~ (h \in ChildGroups[g] /\ ~ skip)
      <4>1. Open(h)
        BY <1>1, <2>4, <3>2 DEF Open
      <4>2. PICK x \in Groups : groupCheck[x] = "checking" /\ h \in ChildGroups[x] /\ rank[x] < rank[h]
        BY <2>1, <4>1
      <4>3. x # g /\ x \notin ChildGroups[g] /\ groupCheck'[x] = "checking"
        BY <1>1, <1>2, <4>2
      <4>4. h \notin ChildGroups[g]
        BY <4>2, <4>3, ChildFacts
      <4> QED BY <4>2, <4>3, <4>4
    <3> QED BY <3>1, <3>2
  <2> QED BY <1>1, <2>2, <2>4
<1> QED
  <2>1. phase' = "checking"
    BY <1>1, <1>2
  <2>2. \A x \in Groups : groupCheck'[x] \in {"none", "ready"} =>
          /\ \A h \in ChildGroups[x] : groupCheck'[h] = "none"
          /\ \A a \in mAssetDependencies[x] : assetCheck'[<<x, a>>] = "none"
    BY <1>3, <1>4, ChildFacts, JobFacts
  <2> QED BY <2>1, <2>2, <1>5, <1>6, <1>7 DEF ChecksGoDown, Open

\* The check of a group ends when those it has begun have.
LEMMA ChecksEnd ==
    ASSUME GroupTypes, ChecksGoDown, NEW g \in Groups, EndCheck(g)
    PROVE  ChecksGoDown'
<1>1. /\ groupCheck[g] = "checking"
      /\ \A a \in mAssetDependencies[g] : assetCheck[<<g, a>>] \in {"updated", "skipped"}
      /\ \A h \in ChildGroups[g] : groupCheck[h] = "checked"
      /\ \A h \in Groups : groupCheck'[h] = IF h = g THEN "checked" ELSE groupCheck[h]
      /\ UNCHANGED <<phase, active, assetCheck>>
  BY DEF EndCheck, GroupTypes
<1>2. phase = "checking"
  BY <1>1 DEF ChecksGoDown, Open
<1>3. \A x \in Groups : groupCheck'[x] \in {"none", "ready"} =>
          /\ \A h \in ChildGroups[x] : groupCheck'[h] = "none"
          /\ \A a \in mAssetDependencies[x] : assetCheck'[<<x, a>>] = "none"
  BY <1>1, ChildFacts DEF ChecksGoDown
<1>4. \A j \in AssetJobs : assetCheck'[j] \in {"ready", "updating"} => groupCheck'[j[1]] = "checking"
  BY <1>1, JobFacts DEF ChecksGoDown
<1>5. \A x \in Groups \ PersistentGroups, a \in Assets :
          a \in mAssetDependencies[x] /\ groupCheck'[x] = "checked"
             => assetCheck'[<<x, a>>] \in {"updated", "skipped"}
  BY <1>1 DEF ChecksGoDown
<1>6. PICK rank \in [Groups -> Nat] : \A h \in Groups \ active : Open(h) =>
          \E x \in Groups : groupCheck[x] = "checking" /\ h \in ChildGroups[x] /\ rank[x] < rank[h]
  BY DEF ChecksGoDown
<1>7. \A h \in Groups \ active' : groupCheck'[h] \in {"ready", "checking"} =>
          \E x \in Groups : groupCheck'[x] = "checking" /\ h \in ChildGroups[x] /\ rank[x] < rank[h]
  BY <1>1, <1>6 DEF Open
<1> QED BY <1>1, <1>2, <1>3, <1>4, <1>5, <1>7 DEF ChecksGoDown, Open

\* A job of a group that is being checked goes on.
LEMMA ChecksGoOn ==
    ASSUME GroupTypes, ChecksGoDown, NEW j \in AssetJobs,
           assetCheck[j] \in {"ready", "updating"}, UNCHANGED <<phase, active, groupCheck>>,
           \A k \in AssetJobs \ {j} : assetCheck'[k] = assetCheck[k]
    PROVE  ChecksGoDown'
<1>1. groupCheck[j[1]] = "checking" /\ j[1] \in Groups
  BY JobFacts DEF ChecksGoDown
<1>2. \A x \in Groups, a \in Assets :
          a \in mAssetDependencies[x] /\ groupCheck[x] # "checking"
             => assetCheck'[<<x, a>>] = assetCheck[<<x, a>>]
  BY <1>1, JobFacts
<1>3. \A x \in Groups : groupCheck'[x] \in {"none", "ready"} =>
          /\ \A h \in ChildGroups[x] : groupCheck'[h] = "none"
          /\ \A a \in mAssetDependencies[x] : assetCheck'[<<x, a>>] = "none"
  BY <1>2, JobFacts DEF ChecksGoDown
<1>4. \A k \in AssetJobs : assetCheck'[k] \in {"ready", "updating"} => groupCheck'[k[1]] = "checking"
  BY <1>1 DEF ChecksGoDown
<1>5. \A x \in Groups \ PersistentGroups, a \in Assets :
          a \in mAssetDependencies[x] /\ groupCheck'[x] = "checked"
             => assetCheck'[<<x, a>>] \in {"updated", "skipped"}
  BY <1>2 DEF ChecksGoDown
<1>6. phase' # "checking" => \A g \in Groups : groupCheck'[g] \notin {"ready", "checking"}
  BY DEF ChecksGoDown, Open
<1>7. \E rank \in [Groups -> Nat] : \A h \in Groups \ active' :
          groupCheck'[h] \in {"ready", "checking"} =>
             \E x \in Groups : groupCheck'[x] = "checking" /\ h \in ChildGroups[x] /\ rank[x] < rank[h]
  BY DEF ChecksGoDown, Open
<1> QED BY <1>3, <1>4, <1>5, <1>6, <1>7 DEF ChecksGoDown, Open

\* When every active group has been checked, so has every group that was begun.
LEMMA NoneIsOpen ==
    ASSUME ChecksGoDown, \A g \in active : groupCheck[g] = "checked"
    PROVE  \A g \in Groups : ~ Open(g)
<1> SUFFICES ASSUME NEW g \in Groups, Open(g) PROVE FALSE
  OBVIOUS
<1>1. PICK rank \in [Groups -> Nat] : \A h \in Groups \ active : Open(h) =>
          \E x \in Groups : groupCheck[x] = "checking" /\ h \in ChildGroups[x] /\ rank[x] < rank[h]
  BY DEF ChecksGoDown
<1> DEFINE S == {rank[h] : h \in {x \in Groups : Open(x)}}
<1>2. S \in SUBSET Nat /\ S # {}
  BY <1>1
<1>3. PICK m \in S : \A n \in S : m <= n
  <2> HIDE DEF S
  <2> QED BY <1>2, LeastNatural
<1>4. PICK h \in Groups : Open(h) /\ rank[h] = m
  BY <1>3
<1>5. h \notin active
  BY <1>4 DEF Open
<1>6. PICK x \in Groups : groupCheck[x] = "checking" /\ rank[x] < rank[h]
  BY <1>1, <1>4, <1>5
<1>7. rank[x] \in S
  BY <1>6 DEF Open
<1> QED BY <1>1, <1>3, <1>4, <1>6, <1>7

\* No check is begun or ended by what follows the checks, or by anything else.
LEMMA ChecksProcessed ==
    ASSUME ChecksGoDown, BeginProcessing \/ BeginExecution \/ EndUpdate
    PROVE  ChecksGoDown'
<1>1. \A g \in Groups : ~ Open(g)
  BY NoneIsOpen DEF ChecksGoDown, BeginProcessing, BeginExecution, EndUpdate
<1>2. UNCHANGED <<active, groupCheck, assetCheck>>
  BY DEF BeginProcessing, BeginExecution, EndUpdate, groupVars
<1> QED BY <1>1, <1>2 DEF ChecksGoDown, Open

LEMMA ChecksStay ==
    ASSUME ChecksGoDown, UNCHANGED <<phase, active, groupCheck, assetCheck>>
    PROVE  ChecksGoDown'
BY DEF ChecksGoDown, Open

\* Every step keeps the checks in order.
LEMMA ChecksStep ==
    ASSUME GroupTypes, ChecksGoDown, [StreamingNext]_streamingVars
    PROVE  ChecksGoDown'
<1>1. CASE SubmitGroup
  BY <1>1, ChecksStay DEF SubmitGroup, SubmitAssetDependencyGroup
<1>2. CASE PreUpdate
  BY <1>2, ChecksBegin DEF PreUpdate
<1>3. CASE UpdateEnds
  BY <1>3, ChecksProcessed DEF UpdateEnds
<1>4. CASE Manager
  <2>1. CASE \E g \in Groups : CheckDependencies(g)
    BY <2>1, ChecksSpread
  <2>2. CASE \E g \in Groups : EndCheck(g)
    BY <2>2, ChecksEnd
  <2>3. CASE \E j \in AssetJobs : UpdateAssetDataIMPL(j[1], j[2])
    <3>1. PICK j \in AssetJobs : UpdateAssetDataIMPL(j[1], j[2])
      BY <2>3
    <3>2. j = <<j[1], j[2]>>
      BY JobFacts
    <3>3. assetCheck[j] = "ready" /\ UNCHANGED <<phase, active, groupCheck>>
      BY <3>1, <3>2 DEF UpdateAssetDataIMPL
    <3>4. \A k \in AssetJobs \ {j} : assetCheck'[k] = assetCheck[k]
      BY <3>1, <3>2 DEF UpdateAssetDataIMPL, GroupTypes
    <3> QED BY <3>3, <3>4, ChecksGoOn
  <2>4. CASE \E kind \in Kinds : PullRequests(kind)
    BY <2>4, ChecksStay DEF PullRequests, groupVars
  <2>5. CASE BeginProcessing \/ BeginExecution
    BY <2>5, ChecksProcessed
  <2> QED BY <1>4, <2>1, <2>2, <2>3, <2>4, <2>5 DEF Manager
<1>5. ASSUME NEW j \in AssetJobs, NEW wanted, UpdateAssetData(j[1], j[2], wanted)
      PROVE  ChecksGoDown'
  <2>1. j = <<j[1], j[2]>>
    BY JobFacts
  <2>2. assetCheck[j] = "updating" /\ UNCHANGED <<phase, active, groupCheck>>
    BY <1>5, <2>1 DEF UpdateAssetData
  <2>3. \A k \in AssetJobs \ {j} : assetCheck'[k] = assetCheck[k]
    BY <1>5, <2>1 DEF UpdateAssetData, GroupTypes
  <2> QED BY <2>2, <2>3, ChecksGoOn
<1>6. CASE OtherUpdate
  BY <1>5, <1>6 DEF OtherUpdate
<1>7. CASE AudioUpdate
  <2>1. PICK g \in Groups, wanted \in SUBSET AudioRequests :
           Audio \in mAssetDependencies[g] /\ UpdateAssetData(g, Audio, wanted)
    BY <1>7 DEF AudioUpdate, AudioUpdateAssetData
  <2>2. <<g, Audio>> \in AssetJobs
    BY <2>1, JobFacts
  <2> QED BY <1>5, <2>1, <2>2
<1>8. CASE OtherExecute \/ AudioExecute
  BY <1>8, ChecksStay DEF OtherExecute, AudioExecute, ExecuteAssetDataLoad, ExecuteRequest, groupVars
<1>9. CASE BeginVoiceUpdate \/ SubmitSourceBuffer \/ EndVoiceUpdate \/ BufferEnds
  BY <1>9, ChecksStay DEF BeginVoiceUpdate, SubmitSourceBuffer, EndVoiceUpdate, BufferEnds,
                          assetVars, groupVars
<1>10. CASE UNCHANGED streamingVars
  BY <1>10, ChecksStay DEF streamingVars, assetVars, groupVars
<1> QED BY <1>1, <1>2, <1>3, <1>4, <1>6, <1>7, <1>8, <1>9, <1>10 DEF StreamingNext, Running

\* Every step keeps the types.
LEMMA TypesManaged ==
    ASSUME GroupTypes, ChecksGoDown, Manager
    PROVE  GroupTypes'
<1>1. turn' = turn /\ AudioStreamingAssumption
  BY AudioStreamingAssumption DEF Manager, audioVars, voiceVars
<1>2. CASE \E g \in Groups : CheckDependencies(g)
  <2>1. PICK g \in Groups : CheckDependencies(g)
    BY <1>2
  <2>2. g \notin ChildGroups[g]
    BY <2>1 DEF ChecksGoDown, CheckDependencies
  <2>3. groupCheck' \in [Groups -> {"none", "ready", "checking", "checked"}]
    <3> DEFINE new == [h \in Groups |->
                          CASE h = g -> IF g \in mDependenciesChecked THEN "checked" ELSE "checking"
                            [] h \in ChildGroups[g] /\ ~ (g \in mDependenciesChecked) -> "ready"
                            [] OTHER -> groupCheck[h]]
    <3>1. groupCheck' = new
      BY <2>1 DEF CheckDependencies
    <3>2. ASSUME NEW h \in Groups PROVE new[h] \in {"none", "ready", "checking", "checked"}
      <4>1. CASE h = g
        BY <2>2, <4>1
      <4>2. CASE h # g /\ h \in ChildGroups[g] /\ ~ (g \in mDependenciesChecked)
        BY <4>2
      <4>3. CASE h # g /\ ~ (h \in ChildGroups[g] /\ ~ (g \in mDependenciesChecked))
        BY <4>3 DEF GroupTypes
      <4> QED BY <4>1, <4>2, <4>3
    <3>3. new = [h \in Groups |-> new[h]]
      OBVIOUS
    <3> HIDE DEF new
    <3> QED BY <3>1, <3>2, <3>3
  <2>4. assetCheck' \in [AssetJobs -> {"none", "ready", "updating", "updated", "skipped"}]
    BY <2>1 DEF CheckDependencies, GroupTypes
  <2>5. UNCHANGED <<phase, pending, active, mDependenciesChecked, mUpdateTickCounter, pulls>>
    BY <2>1 DEF CheckDependencies, updateVars
  <2> QED BY <1>1, <2>3, <2>4, <2>5 DEF GroupTypes
<1>3. CASE \E g \in Groups : EndCheck(g)
  BY <1>1, <1>3 DEF GroupTypes, EndCheck, updateVars
<1>4. CASE \E j \in AssetJobs : UpdateAssetDataIMPL(j[1], j[2])
  <2>1. PICK j \in AssetJobs : UpdateAssetDataIMPL(j[1], j[2])
    BY <1>4
  <2>2. assetCheck' \in [AssetJobs -> {"none", "ready", "updating", "updated", "skipped"}]
    BY <2>1 DEF UpdateAssetDataIMPL, GroupTypes
  <2>3. mUpdateTickCounter' \in [Assets -> Ticks]
    BY <2>1 DEF UpdateAssetDataIMPL, GroupTypes, Ticks
  <2> QED BY <1>1, <2>1, <2>2, <2>3 DEF GroupTypes, UpdateAssetDataIMPL, updateVars
<1>5. CASE \E kind \in Kinds : PullRequests(kind)
  <2>1. pulls' \in Nat /\ UNCHANGED <<phase, groupVars>>
    BY <1>5 DEF PullRequests, GroupTypes
  <2> QED BY <1>1, <2>1 DEF GroupTypes, groupVars
<1>6. CASE BeginProcessing \/ BeginExecution
  BY <1>1, <1>6 DEF GroupTypes, BeginProcessing, BeginExecution, groupVars, updateVars
<1> QED BY <1>2, <1>3, <1>4, <1>5, <1>6 DEF Manager

LEMMA TypesStep ==
    ASSUME GroupTypes, ChecksGoDown, [StreamingNext]_streamingVars
    PROVE  GroupTypes'
<1>1. CASE SubmitGroup
  BY <1>1 DEF GroupTypes, SubmitGroup, SubmitAssetDependencyGroup, updateVars, audioVars, voiceVars
<1>2. CASE PreUpdate
  <2>1. groupCheck' \in [Groups -> {"none", "ready", "checking", "checked"}]
    BY <1>2 DEF PreUpdate, BeginUpdate
  <2>2. assetCheck' \in [AssetJobs -> {"none", "ready", "updating", "updated", "skipped"}]
    BY <1>2 DEF PreUpdate, BeginUpdate
  <2> QED BY <1>2, <2>1, <2>2 DEF GroupTypes, PreUpdate, BeginUpdate, updateVars
<1>3. CASE UpdateEnds
  <2>1. mUpdateTickCounter' \in [Assets -> Ticks]
    BY <1>3 DEF UpdateEnds, EndUpdate, Ticks, Later
  <2> QED BY <1>3, <2>1 DEF GroupTypes, UpdateEnds, EndUpdate, updateVars
<1>4. CASE Manager
  BY <1>4, TypesManaged
<1>5. ASSUME NEW j \in AssetJobs, NEW wanted, UpdateAssetData(j[1], j[2], wanted), turn' = turn
      PROVE  GroupTypes'
  BY <1>5 DEF GroupTypes, UpdateAssetData
<1>6. CASE OtherUpdate
  BY <1>5, <1>6 DEF OtherUpdate, audioVars, voiceVars
<1>7. CASE AudioUpdate
  <2>1. PICK g \in Groups, wanted \in SUBSET AudioRequests :
           /\ Audio \in mAssetDependencies[g] /\ UpdateAssetData(g, Audio, wanted)
           /\ turn' = turn
    BY <1>7 DEF AudioUpdate, AudioUpdateAssetData, voiceVars
  <2>2. <<g, Audio>> \in AssetJobs
    BY <2>1, JobFacts
  <2> QED BY <1>5, <2>1, <2>2
<1>8. CASE OtherExecute \/ AudioExecute
  <2>1. UNCHANGED <<phase, groupVars, pulls, turn>>
    BY <1>8 DEF OtherExecute, AudioExecute, ExecuteAssetDataLoad, ExecuteRequest, audioVars, voiceVars
  <2> QED BY <2>1 DEF GroupTypes, groupVars
<1>9. CASE BeginVoiceUpdate \/ SubmitSourceBuffer \/ EndVoiceUpdate \/ BufferEnds
  <2>1. UNCHANGED assetVars
    BY <1>9 DEF BeginVoiceUpdate, SubmitSourceBuffer, EndVoiceUpdate, BufferEnds
  <2>2. turn' = turn \/ (turn # "update" /\ turn' \in {"buffers", "preupdate"})
    BY <1>9 DEF BeginVoiceUpdate, SubmitSourceBuffer, EndVoiceUpdate, BufferEnds, voiceVars
  <2> QED BY <2>1, <2>2 DEF GroupTypes, assetVars, groupVars, updateVars
<1>10. CASE UNCHANGED streamingVars
  BY <1>10 DEF GroupTypes, streamingVars, assetVars, groupVars, updateVars, audioVars, voiceVars
<1> QED BY <1>1, <1>2, <1>3, <1>4, <1>6, <1>7, <1>8, <1>9, <1>10 DEF StreamingNext, Running

\* The groups the asset is in, and its jobs.
LEMMA AudioFacts ==
    /\ Audio \in Assets /\ AudioHeads \subseteq Groups
    /\ \A g \in AudioHeads : g \notin PersistentGroups /\ Audio \in mAssetDependencies[g]
                             /\ <<g, Audio>> \in AudioJobs
    /\ \A j \in AudioJobs : j \in AssetJobs /\ j[1] \in Groups /\ j = <<j[1], Audio>>
<1>1. Audio \in Assets /\ AudioHeads \subseteq Groups
  BY AudioStreamingAssumption DEF AudioHeads, Heads
<1>2. \A g \in AudioHeads : g \notin PersistentGroups /\ Audio \in mAssetDependencies[g]
  BY DEF AudioHeads
<1>3. \A g \in AudioHeads : <<g, Audio>> \in AudioJobs
  BY <1>1, <1>2, JobFacts DEF AudioJobs
<1>4. \A j \in AudioJobs : j \in AssetJobs /\ j[1] \in Groups /\ j = <<j[1], Audio>>
  BY JobFacts DEF AudioJobs
<1> QED BY <1>1, <1>2, <1>3, <1>4

\* The first job of an update to reach the asset updates it, and the processing of the
\* requests begins after that.
LEMMA AudioManaged ==
    ASSUME GroupTypes, ChecksGoDown, AudioIsUpdated, Manager
    PROVE  AudioIsUpdated'
<1>1. mPendingLoadRequestQueue' = mPendingLoadRequestQueue
  BY DEF Manager, audioVars, loadVars
<1>2. CASE \E g \in Groups : CheckDependencies(g)
  <2>1. PICK g \in Groups : CheckDependencies(g)
    BY <1>2
  <2>2. /\ groupCheck[g] = "ready" /\ phase = "checking"
        /\ UNCHANGED <<phase, pending, active, mUpdateTickCounter>>
    BY <2>1 DEF CheckDependencies, ChecksGoDown, Open
  <2>3. \A j \in AssetJobs : assetCheck'[j] = assetCheck[j]
                             \/ (assetCheck[j] = "none" /\ assetCheck'[j] = "ready")
    <3>1. \A j \in AssetJobs : assetCheck'[j] = assetCheck[j] \/ (j[1] = g /\ assetCheck'[j] = "ready")
      BY <2>1 DEF CheckDependencies
    <3>2. \A j \in AssetJobs : j[1] = g => assetCheck[j] = "none"
      BY <2>2, JobFacts DEF ChecksGoDown
    <3> QED BY <3>1, <3>2
  <2> QED BY <1>1, <2>2, <2>3, AudioFacts DEF AudioIsUpdated
<1>3. CASE \E g \in Groups : EndCheck(g)
  <2>1. UNCHANGED <<phase, pending, active, assetCheck, mUpdateTickCounter>>
    BY <1>3 DEF EndCheck
  <2> QED BY <1>1, <2>1 DEF AudioIsUpdated
<1>4. CASE \E j \in AssetJobs : UpdateAssetDataIMPL(j[1], j[2])
  <2>1. PICK j \in AssetJobs : UpdateAssetDataIMPL(j[1], j[2])
    BY <1>4
  <2>2. /\ j = <<j[1], j[2]>> /\ j[2] \in Assets
        /\ assetCheck[j] = "ready" /\ phase = "checking" /\ UNCHANGED <<phase, pending, active>>
    BY <2>1, JobFacts DEF UpdateAssetDataIMPL, ChecksGoDown, Open
  <2>3. \A k \in AssetJobs \ {j} : assetCheck'[k] = assetCheck[k]
    BY <2>1, <2>2 DEF UpdateAssetDataIMPL, GroupTypes
  <2>4. CASE j[2] # Audio
    <3>1. j \notin AudioJobs
      BY <2>4 DEF AudioJobs
    <3>2. mUpdateTickCounter'[Audio] = mUpdateTickCounter[Audio]
      BY <2>1, <2>4, AudioFacts DEF UpdateAssetDataIMPL, GroupTypes
    <3>3. \A k \in AudioJobs : assetCheck'[k] = assetCheck[k]
      BY <2>3, <3>1, AudioFacts
    <3> QED BY <1>1, <2>2, <3>2, <3>3 DEF AudioIsUpdated
  <2>5. CASE j[2] = Audio /\ mUpdateTickCounter[Audio] = "current"
    <3>1. mUpdateTickCounter'[Audio] = "next" /\ assetCheck'[j] = "updating" /\ j \in AudioJobs
      BY <2>1, <2>2, <2>5 DEF UpdateAssetDataIMPL, GroupTypes, AudioJobs
    <3>2. \A k \in AudioJobs : assetCheck'[k] # "updated"
      BY <2>2, <2>3, <2>5, <3>1, AudioFacts DEF AudioIsUpdated
    <3> QED BY <1>1, <2>2, <3>1, <3>2 DEF AudioIsUpdated
  <2>6. CASE j[2] = Audio /\ mUpdateTickCounter[Audio] # "current"
    <3>1. mUpdateTickCounter' = mUpdateTickCounter /\ assetCheck'[j] = "skipped" /\ j \in AudioJobs
      BY <2>1, <2>2, <2>6 DEF UpdateAssetDataIMPL, GroupTypes, AudioJobs
    <3>2. mUpdateTickCounter[Audio] = "next"
      BY <2>2, <2>6, AudioFacts DEF AudioIsUpdated, GroupTypes, Ticks
    <3>3. PICK k \in AudioJobs : assetCheck[k] \in {"updating", "updated"}
      BY <2>2, <3>2 DEF AudioIsUpdated
    <3>4. assetCheck'[k] \in {"updating", "updated"}
      BY <2>2, <2>3, <3>3, AudioFacts
    <3>5. \A i \in AudioJobs : assetCheck'[i] = "updated" => assetCheck[i] = "updated"
      BY <2>3, <3>1, AudioFacts
    <3> QED BY <1>1, <2>2, <2>6, <3>1, <3>3, <3>4, <3>5 DEF AudioIsUpdated
  <2> QED BY <2>4, <2>5, <2>6
<1>5. CASE \E kind \in Kinds : PullRequests(kind)
  BY <1>1, <1>5 DEF PullRequests, groupVars, AudioIsUpdated
<1>6. CASE BeginProcessing
  <2>1. /\ phase = "checking" /\ phase' = "processing" /\ UNCHANGED groupVars
        /\ \A g \in active : groupCheck[g] = "checked"
    BY <1>6 DEF BeginProcessing
  <2>2. pending = {} /\ mUpdateTickCounter[Audio] # "behind"
    BY <2>1 DEF AudioIsUpdated
  <2>3. PICK g \in AudioHeads : g \in active
    BY <2>2 DEF AudioIsUpdated
  <2>4. assetCheck[<<g, Audio>>] \in {"updated", "skipped"} /\ <<g, Audio>> \in AudioJobs
    BY <2>1, <2>3, AudioFacts DEF ChecksGoDown
  <2>5. mUpdateTickCounter[Audio] = "next"
    BY <2>1, <2>2, <2>4, AudioFacts DEF AudioIsUpdated, GroupTypes, Ticks
  <2>6. PICK j \in AudioJobs : assetCheck[j] \in {"updating", "updated"}
    BY <2>1, <2>5 DEF AudioIsUpdated
  <2>7. assetCheck[j] # "updating"
    BY <2>1, NoneIsOpen, AudioFacts DEF ChecksGoDown, Open
  <2>8. mPendingLoadRequestQueue = <<>>
    BY <2>1, <2>6, <2>7 DEF AudioIsUpdated
  <2> QED BY <1>1, <2>1, <2>2, <2>3, <2>5, <2>8 DEF AudioIsUpdated, groupVars
<1>7. CASE BeginExecution
  BY <1>1, <1>7 DEF BeginExecution, groupVars, AudioIsUpdated
<1> QED BY <1>2, <1>3, <1>4, <1>5, <1>6, <1>7 DEF Manager

\* Every step keeps the asset updated.
LEMMA AudioStep ==
    ASSUME GroupTypes, ChecksGoDown, AudioIsUpdated, [StreamingNext]_streamingVars
    PROVE  AudioIsUpdated'
<1>1. CASE SubmitGroup
  <2>1. /\ phase = "application" /\ pending \subseteq pending'
        /\ UNCHANGED <<phase, active, mUpdateTickCounter>>
    BY <1>1 DEF SubmitGroup, SubmitAssetDependencyGroup
  <2> QED BY <2>1 DEF AudioIsUpdated
<1>2. CASE PreUpdate
  <2>1. /\ phase = "application" /\ phase' = "checking" /\ pending' = {}
        /\ active' = active \cup pending /\ UNCHANGED mUpdateTickCounter
        /\ \A j \in AssetJobs : assetCheck'[j] = "none"
    BY <1>2 DEF PreUpdate, BeginUpdate
  <2>2. mUpdateTickCounter[Audio] = "current"
    BY <2>1 DEF AudioIsUpdated
  <2> QED BY <2>1, <2>2, AudioFacts DEF AudioIsUpdated
<1>3. CASE UpdateEnds
  <2>1. /\ phase = "executing" /\ phase' = "application" /\ UNCHANGED <<pending, active>>
        /\ mUpdateTickCounter'[Audio] = Later(mUpdateTickCounter[Audio])
    BY <1>3, AudioFacts DEF UpdateEnds, EndUpdate
  <2> QED BY <2>1 DEF AudioIsUpdated, Later
<1>4. CASE Manager
  BY <1>4, AudioManaged
<1>5. CASE OtherUpdate
  <2>1. PICK j \in AssetJobs, wanted \in SUBSET (DataRequests \ AudioRequests) :
            j[2] # Audio /\ UpdateAssetData(j[1], j[2], wanted)
    BY <1>5 DEF OtherUpdate
  <2>2. j = <<j[1], j[2]>> /\ j \notin AudioJobs
    BY <2>1, JobFacts DEF AudioJobs
  <2>3. \A k \in AudioJobs : assetCheck'[k] = assetCheck[k]
    BY <2>1, <2>2, AudioFacts DEF UpdateAssetData, GroupTypes
  <2>4. UNCHANGED <<phase, pending, active, mUpdateTickCounter, mPendingLoadRequestQueue>>
    BY <1>5, <2>1 DEF OtherUpdate, audioVars, loadVars, UpdateAssetData
  <2> QED BY <2>3, <2>4 DEF AudioIsUpdated
<1>6. CASE AudioUpdate
  <2>1. PICK g \in Groups, wanted \in SUBSET AudioRequests :
           Audio \in mAssetDependencies[g] /\ UpdateAssetData(g, Audio, wanted)
    BY <1>6 DEF AudioUpdate, AudioUpdateAssetData
  <2> DEFINE j == <<g, Audio>>
  <2>2. j \in AudioJobs /\ assetCheck[j] = "updating" /\ assetCheck'[j] = "updated"
    BY <2>1, JobFacts DEF AudioJobs, UpdateAssetData, GroupTypes
  <2>3. /\ UNCHANGED <<phase, pending, active, mUpdateTickCounter>>
        /\ mPendingLoadRequestQueue' = <<>>
    BY <1>6, <2>1 DEF UpdateAssetData, AudioUpdate, AudioUpdateAssetData
  <2>4. phase = "checking"
    BY <2>2, AudioFacts DEF ChecksGoDown, Open
  <2>5. mUpdateTickCounter[Audio] # "current"
    BY <2>2, <2>4 DEF AudioIsUpdated
  <2> HIDE DEF j
  <2> QED BY <2>2, <2>3, <2>4, <2>5 DEF AudioIsUpdated
<1>7. CASE OtherExecute \/ AudioExecute
  <2>1. UNCHANGED <<phase, groupVars, mPendingLoadRequestQueue>>
    BY <1>7 DEF OtherExecute, AudioExecute, ExecuteAssetDataLoad, ExecuteRequest, audioVars, loadVars
  <2> QED BY <2>1 DEF AudioIsUpdated, groupVars
<1>8. CASE BeginVoiceUpdate \/ SubmitSourceBuffer \/ EndVoiceUpdate
  <2>1. UNCHANGED assetVars /\ phase = "application"
    BY <1>8 DEF BeginVoiceUpdate, SubmitSourceBuffer, EndVoiceUpdate, GroupTypes
  <2> QED BY <2>1 DEF AudioIsUpdated, assetVars, groupVars
<1>9. CASE BufferEnds \/ UNCHANGED streamingVars
  <2>1. UNCHANGED <<assetVars, mPendingLoadRequestQueue>>
    BY <1>9 DEF BufferEnds, streamingVars, audioVars, loadVars
  <2> QED BY <2>1 DEF AudioIsUpdated, assetVars, groupVars
<1> QED BY <1>1, <1>2, <1>3, <1>4, <1>5, <1>6, <1>7, <1>8, <1>9 DEF StreamingNext, Running

-----------------------------------------------------------------------------
(* The loads.                                                                *)

LEMMA AskFacts ==
    ASSUME NEW q \in Asks
    PROVE  /\ q = <<>> \/ \E n \in 1 .. DESIRED_QUEUED_AUDIO_BUFFER_COUNT : q = <<n>>
           /\ q \in Seq(Nat)
           /\ q # <<>> => /\ Head(q) = q[1] /\ Tail(q) = <<>>
                          /\ q[1] \in 1 .. DESIRED_QUEUED_AUDIO_BUFFER_COUNT
           /\ q \o <<>> = q /\ <<>> \o q = q
<1>1. q = <<>> \/ \E n \in 1 .. DESIRED_QUEUED_AUDIO_BUFFER_COUNT : q = <<n>>
  BY DEF Asks
<1>2. q \in Seq(Nat)
  <2>1. <<>> \in Seq(Nat)
    OBVIOUS
  <2>2. \A n \in Nat : <<n>> \in Seq(Nat)
    OBVIOUS
  <2>3. 1 .. DESIRED_QUEUED_AUDIO_BUFFER_COUNT \subseteq Nat
    BY SlotFacts
  <2>4. CASE q = <<>>
    BY <2>1, <2>4
  <2>5. CASE \E n \in 1 .. DESIRED_QUEUED_AUDIO_BUFFER_COUNT : q = <<n>>
    <3>1. PICK n \in 1 .. DESIRED_QUEUED_AUDIO_BUFFER_COUNT : q = <<n>>
      BY <2>5
    <3>2. n \in Nat
      BY <2>3
    <3> QED BY <2>2, <3>1, <3>2
  <2> QED BY <1>1, <2>4, <2>5
<1>3. ASSUME q # <<>>
      PROVE  Head(q) = q[1] /\ Tail(q) = <<>> /\ q[1] \in 1 .. DESIRED_QUEUED_AUDIO_BUFFER_COUNT
  <2>1. PICK n \in 1 .. DESIRED_QUEUED_AUDIO_BUFFER_COUNT : q = <<n>>
    BY <1>1, <1>3
  <2> QED BY <2>1
<1>4. q \o <<>> = q /\ <<>> \o q = q
  BY <1>2
<1> QED BY <1>1, <1>2, <1>3, <1>4

\* What neither submits nor executes a request.
LEMMA LoadsStay ==
    ASSUME LoadsAreServed, phase' = "executing" => phase = "executing",
           phase' = "application" => phase = "application",
           turn' \in {"voice", "buffers"} => turn \in {"voice", "buffers"},
           UNCHANGED <<mPendingLoadRequestQueue, mLoadRequestQueue, queued, jobs>>
    PROVE  LoadsAreServed'
BY DEF LoadsAreServed

\* Every request that is pulled is in a job, and no critical load is left.
LEMMA LoadsPulled ==
    ASSUME GroupTypes, LoadsAreServed, Manager
    PROVE  LoadsAreServed'
<1>1. UNCHANGED <<turn, mPendingLoadRequestQueue, mLoadRequestQueue>>
  BY DEF Manager, audioVars, voiceVars, loadVars
<1>2. CASE \/ \E g \in Groups : CheckDependencies(g) \/ EndCheck(g)
           \/ \E j \in AssetJobs : UpdateAssetDataIMPL(j[1], j[2])
  BY <1>1, <1>2, LoadsStay DEF CheckDependencies, EndCheck, UpdateAssetDataIMPL, updateVars
<1>3. CASE BeginProcessing
  BY <1>1, <1>3, LoadsStay DEF BeginProcessing
<1>4. CASE \E kind \in Kinds : PullRequests(kind)
  <2>1. PICK arr : queued' = queued \ arr /\ jobs' = jobs \cup ({arr} \ {{}})
    BY <1>4 DEF PullRequests
  <2>2. phase = "processing" /\ phase' = phase
    BY <1>4 DEF PullRequests
  <2>3. queued \cup UNION jobs \subseteq queued' \cup UNION jobs'
    BY <2>1
  <2> QED BY <1>1, <2>2, <2>3 DEF LoadsAreServed
<1>5. CASE BeginExecution
  <2>1. /\ phase' = "executing" /\ UNCHANGED <<queued, jobs>>
        /\ ~ NextPull("load") /\ ~ NextPull("unload")
    BY <1>5 DEF BeginExecution, updateVars, Kinds
  <2>2. Queue("load", CRITICAL) = {}
    BY <2>1 DEF NextPull
  <2>3. AudioRequests \cap queued = {}
    BY <2>2, AudioStreamingAssumption DEF Queue
  <2>4. turn = "update"
    BY <1>5 DEF BeginExecution, GroupTypes
  <2> QED BY <1>1, <2>1, <2>3, <2>4 DEF LoadsAreServed
<1> QED BY <1>2, <1>3, <1>4, <1>5 DEF Manager

\* What the asset has asked for goes into a request.
LEMMA LoadsSubmitted ==
    ASSUME GroupTypes, ChecksGoDown, LoadsAreServed, AudioUpdate
    PROVE  LoadsAreServed'
<1>1. PICK g \in Groups, wanted \in SUBSET AudioRequests :
        /\ Audio \in mAssetDependencies[g] /\ UpdateAssetData(g, Audio, wanted)
        /\ \A n \in 1 .. DESIRED_QUEUED_AUDIO_BUFFER_COUNT :
              Cardinality({r \in wanted : Info[r].size = n})
                = Cardinality({i \in DOMAIN mPendingLoadRequestQueue :
                                  mPendingLoadRequestQueue[i] = n})
  BY DEF AudioUpdate, AudioUpdateAssetData
<1>2. /\ mLoadRequestQueue' = mLoadRequestQueue \o mPendingLoadRequestQueue
      /\ mPendingLoadRequestQueue' = <<>> /\ UNCHANGED turn
  BY DEF AudioUpdate, AudioUpdateAssetData, voiceVars
<1>3. queued' = queued \cup wanted /\ UNCHANGED <<phase, jobs>>
  BY <1>1 DEF UpdateAssetData
<1>4. phase = "checking"
  BY <1>1, JobFacts DEF UpdateAssetData, ChecksGoDown, Open
<1>5. mLoadRequestQueue' \in Asks /\ mPendingLoadRequestQueue' \in Asks
  BY <1>2, AskFacts DEF LoadsAreServed, Asks
<1>6. CASE mPendingLoadRequestQueue = <<>>
  <2>1. mLoadRequestQueue' = mLoadRequestQueue
    BY <1>2, <1>6, AskFacts DEF LoadsAreServed
  <2> QED BY <1>2, <1>3, <1>4, <1>5, <2>1 DEF LoadsAreServed
<1>7. CASE mPendingLoadRequestQueue # <<>>
  <2>1. PICK n \in 1 .. DESIRED_QUEUED_AUDIO_BUFFER_COUNT : mPendingLoadRequestQueue = <<n>>
    BY <1>7, AskFacts DEF LoadsAreServed
  <2>2. {i \in DOMAIN mPendingLoadRequestQueue : mPendingLoadRequestQueue[i] = n} = {1}
    BY <2>1
  <2>3. Cardinality({r \in wanted : Info[r].size = n}) = 1
    BY <1>1, <2>2, FS_Singleton
  <2>4. {r \in wanted : Info[r].size = n} # {}
    BY <2>3, FS_EmptySet
  <2>5. AudioRequests \cap queued' # {}
    BY <1>3, <2>4
  <2> QED BY <1>2, <1>3, <1>4, <1>5, <2>5 DEF LoadsAreServed
<1> QED BY <1>6, <1>7

\* Every step keeps the loads in order.
LEMMA LoadsStep ==
    ASSUME StreamingInv, [StreamingNext]_streamingVars
    PROVE  LoadsAreServed'
<1> USE DEF StreamingInv
<1>1. CASE SubmitGroup \/ BufferEnds \/ UNCHANGED streamingVars
  BY <1>1, LoadsStay DEF SubmitGroup, SubmitAssetDependencyGroup, BufferEnds, streamingVars,
                         assetVars, updateVars, audioVars, voiceVars, loadVars
<1>2. CASE PreUpdate
  BY <1>2, LoadsStay DEF PreUpdate, BeginUpdate, updateVars, loadVars
<1>3. CASE UpdateEnds
  <2>1. /\ phase = "executing" /\ jobs = {} /\ phase' = "application" /\ turn' = "voice"
        /\ UNCHANGED <<queued, jobs, mPendingLoadRequestQueue, mLoadRequestQueue>>
    BY <1>3 DEF UpdateEnds, EndUpdate, updateVars, loadVars
  <2>2. mPendingLoadRequestQueue = <<>> /\ mLoadRequestQueue = <<>>
    BY <2>1 DEF AudioIsUpdated, LoadsAreServed
  <2> QED BY <2>1, <2>2 DEF LoadsAreServed
<1>4. CASE Manager
  BY <1>4, LoadsPulled
<1>5. CASE OtherUpdate
  <2>1. PICK j \in AssetJobs, wanted \in SUBSET (DataRequests \ AudioRequests) :
            UpdateAssetData(j[1], j[2], wanted)
    BY <1>5 DEF OtherUpdate
  <2>2. assetCheck[j] = "updating"
    BY <2>1, JobFacts DEF UpdateAssetData
  <2>3. phase = "checking"
    BY <2>2, JobFacts DEF ChecksGoDown, Open
  <2>4. queued' = queued \cup wanted /\ UNCHANGED <<phase, jobs>>
    BY <2>1 DEF UpdateAssetData
  <2>5. UNCHANGED <<turn, mPendingLoadRequestQueue, mLoadRequestQueue>>
    BY <1>5 DEF OtherUpdate, audioVars, voiceVars, loadVars
  <2> QED BY <2>3, <2>4, <2>5 DEF LoadsAreServed
<1>6. CASE AudioUpdate
  BY <1>6, LoadsSubmitted
<1>7. CASE OtherExecute
  <2>1. PICK job \in jobs, r \in DataRequests \ AudioRequests : ExecuteRequest(job, r)
    BY <1>7 DEF OtherExecute
  <2>2. /\ phase = "executing" /\ jobs' = (jobs \ {job}) \cup ({job \ {r}} \ {{}})
        /\ UNCHANGED <<phase, queued>>
    BY <2>1 DEF ExecuteRequest
  <2>3. UNCHANGED <<turn, mPendingLoadRequestQueue, mLoadRequestQueue>>
    BY <1>7 DEF OtherExecute, audioVars, voiceVars, loadVars
  <2>4. ASSUME NEW s \in AudioRequests, s \in UNION jobs PROVE s \in UNION jobs'
    <3>1. PICK k \in jobs : s \in k
      BY <2>4
    <3>2. CASE k # job
      BY <2>2, <3>1, <3>2
    <3>3. CASE k = job
      <4>1. s \in job \ {r}
        BY <2>1, <3>1, <3>3
      <4>2. job \ {r} \in jobs'
        BY <2>2, <4>1
      <4> QED BY <4>1, <4>2
    <3> QED BY <3>2, <3>3
  <2> QED BY <2>2, <2>3, <2>4 DEF LoadsAreServed
<1>8. CASE AudioExecute
  <2>1. /\ phase = "executing" /\ UNCHANGED <<phase, turn, queued, mPendingLoadRequestQueue>>
        /\ mLoadRequestQueue' = Tail(mLoadRequestQueue) /\ mLoadRequestQueue # <<>>
    BY <1>8 DEF AudioExecute, ExecuteAssetDataLoad, ExecuteRequest, voiceVars
  <2>2. mLoadRequestQueue' = <<>>
    BY <2>1, AskFacts DEF LoadsAreServed
  <2> QED BY <2>1, <2>2 DEF LoadsAreServed, Asks
<1>9. CASE BeginVoiceUpdate \/ SubmitSourceBuffer
  <2>1. UNCHANGED <<phase, queued, jobs, mPendingLoadRequestQueue, mLoadRequestQueue>>
    BY <1>9 DEF BeginVoiceUpdate, SubmitSourceBuffer, assetVars, updateVars, loadVars
  <2>2. turn' \in {"voice", "buffers"} => turn \in {"voice", "buffers"}
    BY <1>9 DEF BeginVoiceUpdate, SubmitSourceBuffer
  <2> QED BY <2>1, <2>2, LoadsStay
<1>10. CASE EndVoiceUpdate
  <2>1. /\ turn = "buffers" /\ turn' = "preupdate"
        /\ UNCHANGED <<phase, queued, jobs, mLoadRequestQueue>>
    BY <1>10 DEF EndVoiceUpdate, assetVars, updateVars
  <2>2. phase = "application" /\ mPendingLoadRequestQueue = <<>> /\ mLoadRequestQueue = <<>>
    BY <2>1 DEF GroupTypes, LoadsAreServed
  <2>3. mPendingLoadRequestQueue' \in Asks
    <3>1. CASE buffersToQueue > 0
      <4>1. mPendingLoadRequestQueue' = <<buffersToQueue>>
        BY <1>10, <2>2, <3>1 DEF EndVoiceUpdate, RequestAudioDataLoad
      <4>2. Len(xaudio) \in Nat /\ Len(xaudio) + buffersToQueue <= DESIRED_QUEUED_AUDIO_BUFFER_COUNT
            /\ buffersToQueue \in Nat /\ DESIRED_QUEUED_AUDIO_BUFFER_COUNT \in Nat
        BY <2>1, SlotFacts DEF RingIsInOrder
      <4>3. buffersToQueue \in 1 .. DESIRED_QUEUED_AUDIO_BUFFER_COUNT
        BY <3>1, <4>2
      <4> QED BY <4>1, <4>3 DEF Asks
    <3>2. CASE ~ (buffersToQueue > 0)
      BY <1>10, <2>2, <3>2 DEF EndVoiceUpdate, Asks
    <3> QED BY <3>1, <3>2
  <2> QED BY <2>1, <2>2, <2>3 DEF LoadsAreServed
<1> QED BY <1>1, <1>2, <1>3, <1>4, <1>5, <1>6, <1>7, <1>8, <1>9, <1>10 DEF StreamingNext, Running

-----------------------------------------------------------------------------
(* The ring.                                                                 *)

LEMMA AskedIsFew ==
    ASSUME LoadsAreServed
    PROVE  Asked \in Nat
<1>1. /\ mPendingLoadRequestQueue # <<>> =>
            mPendingLoadRequestQueue[1] \in 1 .. DESIRED_QUEUED_AUDIO_BUFFER_COUNT
      /\ mLoadRequestQueue # <<>> =>
            mLoadRequestQueue[1] \in 1 .. DESIRED_QUEUED_AUDIO_BUFFER_COUNT
  BY AskFacts DEF LoadsAreServed
<1>2. 1 .. DESIRED_QUEUED_AUDIO_BUFFER_COUNT \subseteq Nat
  BY SlotFacts
<1> QED BY <1>1, <1>2 DEF Asked

\* What touches neither the ring nor the buffers.
LEMMA RingStays ==
    ASSUME RingIsInOrder, UNCHANGED <<streamVars, xaudio>>, Asked' = Asked, buffersToQueue' \in Nat,
           turn' = "buffers" => Len(xaudio) + buffersToQueue' <= DESIRED_QUEUED_AUDIO_BUFFER_COUNT
    PROVE  RingIsInOrder'
<1>1. PICK played \in Nat, filled \in Nat : RingHolds(played, filled)
  BY DEF RingIsInOrder
<1>2. RingHolds(played, filled)'
  BY <1>1 DEF RingHolds, streamVars
<1> QED BY <1>2 DEF RingIsInOrder, streamVars

\* A buffer is found just when a block is loaded that has not been retrieved.
LEMMA FoundBlock ==
    ASSUME LoadsAreServed, RingIsInOrder, NEW played \in Nat, NEW filled \in Nat,
           RingHolds(played, filled)
    PROVE  /\ Len(xaudio) \in Nat
           /\ GetNextLoadedDataBlock = 0 => played + Len(xaudio) = filled
           /\ GetNextLoadedDataBlock # 0 =>
                 /\ played + Len(xaudio) < filled
                 /\ GetNextLoadedDataBlock = Block(played + Len(xaudio) + 1)
<1> DEFINE next == played + Len(xaudio)
<1>1. Len(xaudio) \in Nat
  BY DEF RingIsInOrder
<1>2. next \in Nat /\ next <= filled /\ filled - next < ZSTD_BLOCK_ARRAY_SIZE
  <2>1. Asked \in Nat /\ next \in Nat
    BY <1>1, AskedIsFew
  <2>2. next <= filled /\ filled + Asked <= played + DESIRED_QUEUED_AUDIO_BUFFER_COUNT
    BY DEF RingHolds
  <2>3. /\ DESIRED_QUEUED_AUDIO_BUFFER_COUNT \in Nat /\ ZSTD_BLOCK_ARRAY_SIZE \in Nat
        /\ DESIRED_QUEUED_AUDIO_BUFFER_COUNT < ZSTD_BLOCK_ARRAY_SIZE
    BY SlotFacts
  <2> HIDE DEF Asked
  <2>4. filled - next <= DESIRED_QUEUED_AUDIO_BUFFER_COUNT
    <3>1. played <= next
      BY <1>1
    <3> HIDE DEF next
    <3> QED BY <2>1, <2>2, <2>3, <3>1
  <2> HIDE DEF next
  <2> QED BY <2>1, <2>2, <2>3, <2>4
<1>3. mCurrLoadIndex = Slot(filled) /\ mCurrRetrievalIndex = Slot(next)
  BY DEF RingHolds
<1>4. next < filled => Slot(next) # Slot(filled)
  BY <1>2, SlotFacts
<1>5. next < filled => mDecodedZSTDBlockArr[Slot(next)] = Block(next + 1) /\ Block(next + 1) # 0
  <2>1. \A i \in played .. filled - 1 : mDecodedZSTDBlockArr[Slot(i)] = Block(i + 1)
    BY DEF RingHolds
  <2>2. next < filled => next \in played .. filled - 1
    BY <1>1, <1>2
  <2>3. next + 1 \in Nat \ {0}
    BY <1>2
  <2> HIDE DEF next
  <2>4. Block(next + 1) \in Nat \ {0}
    BY <2>3, BlockFacts
  <2> QED BY <2>1, <2>2, <2>4
<1>6. mLoadedDataCount = 0 => filled = 0
  BY DEF RingHolds
<1> HIDE DEF next
<1>7. GetNextLoadedDataBlock = 0 => next = filled
  BY <1>2, <1>3, <1>4, <1>5, <1>6 DEF GetNextLoadedDataBlock
<1>8. GetNextLoadedDataBlock # 0 => next < filled /\ GetNextLoadedDataBlock = Block(next + 1)
  BY <1>2, <1>3, <1>5 DEF GetNextLoadedDataBlock
<1> QED BY <1>1, <1>7, <1>8 DEF next

\* A buffer is made of the next block that has been loaded.
LEMMA BufferSubmitted ==
    ASSUME StreamingInv, SubmitSourceBuffer
    PROVE  RingIsInOrder'
<1> USE DEF StreamingInv
<1>1. PICK played \in Nat, filled \in Nat : RingHolds(played, filled)
  BY DEF RingIsInOrder
<1> DEFINE n == Len(xaudio)
           next == played + n
           buffer == [slot |-> Slot(next), block |-> Block(next + 1)]
<1>2. n \in Nat /\ next \in Nat /\ next < filled /\ GetNextLoadedDataBlock = Block(next + 1)
  BY <1>1, FoundBlock DEF SubmitSourceBuffer
<1>3. /\ xaudio' = Append(xaudio, buffer)
      /\ mCurrRetrievalIndex' = Slot(Slot(next) + 1)
      /\ buffersToQueue' = buffersToQueue - 1 /\ buffersToQueue > 0 /\ turn = "buffers"
      /\ UNCHANGED <<turn, mDecodedZSTDBlockArr, mCurrLoadIndex, mLoadedDataCount, nextBlock>>
      /\ Asked' = Asked
  BY <1>1, <1>2 DEF SubmitSourceBuffer, RingHolds, loadVars, Asked
<1>4. buffer \in [slot : Nat, block : Nat]
  <2>1. next \in Nat /\ next + 1 \in Nat \ {0}
    BY <1>2
  <2> HIDE DEF next
  <2>2. Slot(next) \in Nat /\ Block(next + 1) \in Nat
    <3>1. Slot(next) \in 0 .. ZSTD_BLOCK_ARRAY_SIZE - 1
      BY <2>1, SlotFacts
    <3>2. Block(next + 1) \in Nat
      BY <2>1, BlockFacts
    <3> QED BY <3>1, <3>2
  <2> QED BY <2>2
<1>5. xaudio \in Seq([slot : Nat, block : Nat])
  BY DEF RingIsInOrder
<1> HIDE DEF buffer
<1>6. /\ xaudio' \in Seq([slot : Nat, block : Nat]) /\ Len(xaudio') = n + 1
      /\ xaudio'[n + 1] = buffer /\ \A k \in 1 .. n : xaudio'[k] = xaudio[k]
  BY <1>3, <1>4, <1>5
<1>7. mCurrRetrievalIndex' = Slot(next + 1)
  BY <1>2, <1>3, SlotFacts
<1>8. \A k \in 1 .. n + 1 :
          xaudio'[k] = [slot |-> Slot(played + k - 1), block |-> Block(played + k)]
  <2>1. \A k \in 1 .. n : xaudio[k] = [slot |-> Slot(played + k - 1), block |-> Block(played + k)]
    BY <1>1 DEF RingHolds
  <2>2. buffer = [slot |-> Slot(played + (n + 1) - 1), block |-> Block(played + (n + 1))]
    <3>1. next = played + (n + 1) - 1 /\ next + 1 = played + (n + 1)
      BY <1>2
    <3> QED BY <3>1 DEF buffer
  <2> HIDE DEF n
  <2>3. ASSUME NEW k \in 1 .. n + 1
        PROVE  xaudio'[k] = [slot |-> Slot(played + k - 1), block |-> Block(played + k)]
    <3>1. k \in 1 .. n \/ k = n + 1
      BY <1>2
    <3> QED BY <1>6, <2>1, <2>2, <3>1
  <2> QED BY <2>3
<1>9. RingHolds(played, filled)'
  <2>1. played + (n + 1) <= filled /\ next + 1 = played + (n + 1)
    BY <1>2
  <2> QED BY <1>1, <1>3, <1>6, <1>7, <1>8, <2>1 DEF RingHolds
<1>10. buffersToQueue' \in Nat
       /\ Len(xaudio') + buffersToQueue' <= DESIRED_QUEUED_AUDIO_BUFFER_COUNT
  <2>1. buffersToQueue \in Nat /\ DESIRED_QUEUED_AUDIO_BUFFER_COUNT \in Nat
    BY SlotFacts DEF RingIsInOrder
  <2>2. n + buffersToQueue <= DESIRED_QUEUED_AUDIO_BUFFER_COUNT
    BY <1>3 DEF RingIsInOrder
  <2> HIDE DEF n
  <2>3. buffersToQueue' \in Nat /\ (n + 1) + buffersToQueue' = n + buffersToQueue
    BY <1>2, <1>3, <2>1
  <2> QED BY <1>6, <2>2, <2>3
<1> QED BY <1>3, <1>6, <1>9, <1>10 DEF RingIsInOrder

\* The first buffer has been played.
LEMMA BufferPlayed ==
    ASSUME StreamingInv, BufferEnds
    PROVE  RingIsInOrder'
<1> USE DEF StreamingInv
<1>1. PICK played \in Nat, filled \in Nat : RingHolds(played, filled)
  BY DEF RingIsInOrder
<1> DEFINE n == Len(xaudio)
<1>2. /\ xaudio' = Tail(xaudio) /\ xaudio # <<>>
      /\ UNCHANGED <<streamVars, turn, buffersToQueue>> /\ Asked' = Asked
  BY DEF BufferEnds, voiceVars, loadVars, Asked
<1>3. xaudio \in Seq([slot : Nat, block : Nat])
  BY DEF RingIsInOrder
<1>4. /\ n \in Nat \ {0} /\ xaudio' \in Seq([slot : Nat, block : Nat]) /\ Len(xaudio') = n - 1
      /\ \A k \in 1 .. n - 1 : xaudio'[k] = xaudio[k + 1]
  BY <1>2, <1>3
<1>5. \A k \in 1 .. n - 1 :
          xaudio'[k] = [slot |-> Slot((played + 1) + k - 1), block |-> Block((played + 1) + k)]
  <2> SUFFICES ASSUME NEW k \in 1 .. n - 1
               PROVE xaudio'[k] = [slot |-> Slot((played + 1) + k - 1), block |-> Block((played + 1) + k)]
    OBVIOUS
  <2>1. k + 1 \in 1 .. n /\ k \in Nat
    BY <1>4
  <2>2. xaudio[k + 1] = [slot |-> Slot(played + (k + 1) - 1), block |-> Block(played + (k + 1))]
    BY <1>1, <2>1 DEF RingHolds
  <2>3. played + (k + 1) - 1 = (played + 1) + k - 1 /\ played + (k + 1) = (played + 1) + k
    BY <2>1
  <2> QED BY <1>4, <2>2, <2>3
<1>6. RingHolds(played + 1, filled)'
  <2>1. (played + 1) + (n - 1) = played + n
    BY <1>4
  <2>2. \A i \in played + 1 .. filled - 1 : i \in played .. filled - 1
    OBVIOUS
  <2>3. DESIRED_QUEUED_AUDIO_BUFFER_COUNT \in Nat /\ Asked \in Nat
    BY SlotFacts, AskedIsFew
  <2>4. filled + Asked <= (played + 1) + DESIRED_QUEUED_AUDIO_BUFFER_COUNT
    BY <1>1, <2>3 DEF RingHolds
  <2> QED BY <1>1, <1>2, <1>4, <1>5, <2>1, <2>2, <2>4 DEF RingHolds, streamVars
<1>7. turn' = "buffers" =>
         Len(xaudio') + buffersToQueue' <= DESIRED_QUEUED_AUDIO_BUFFER_COUNT
  BY <1>2, <1>4, SlotFacts DEF RingIsInOrder
<1> QED BY <1>2, <1>4, <1>6, <1>7 DEF RingIsInOrder, streamVars

\* LoadAudioData, by slot: which of the n blocks go there, what is there then, and what
\* that means for the positions of the ring.
Stores(index, n, i) == {k \in 0 .. n - 1 : Slot(index + k) = i}
AreStored(stored, arr, filled, n) ==
    \A i \in 0 .. ZSTD_BLOCK_ARRAY_SIZE - 1 :
        stored[i] = IF Stores(Slot(filled), n, i) = {} THEN arr[i]
                    ELSE Block(Block(filled + 1) + Max(Stores(Slot(filled), n, i)))

Followed(stored, arr, filled, n) ==
    /\ \A i \in 0 .. ZSTD_BLOCK_ARRAY_SIZE - 1 : stored[i] \in Nat
    /\ \A k \in 0 .. n - 1 : stored[Slot(filled + k)] = Block(filled + k + 1)
    /\ \A i \in Nat : i < filled /\ filled + n - i <= ZSTD_BLOCK_ARRAY_SIZE
                         => stored[Slot(i)] = arr[Slot(i)]

\* The slots that LoadAudioData stores to, and what it stores there.
LEMMA BlocksLoaded ==
    ASSUME NEW arr \in [0 .. ZSTD_BLOCK_ARRAY_SIZE - 1 -> Nat], NEW filled \in Nat,
           NEW n \in 1 .. DESIRED_QUEUED_AUDIO_BUFFER_COUNT, NEW stored,
           AreStored(stored, arr, filled, n)
    PROVE  Followed(stored, arr, filled, n)
<1> DEFINE Z == ZSTD_BLOCK_ARRAY_SIZE
           Into(i) == Stores(Slot(filled), n, i)
<1>1. n \in Nat /\ n <= Z /\ Z \in Nat \ {0}
  BY SlotFacts
<1>2. \A k \in 0 .. n - 1 : Slot(Slot(filled) + k) = Slot(filled + k)
  BY SlotFacts
<1>3. \A i \in 0 .. Z - 1 :
          stored[i] = IF Into(i) = {} THEN arr[i] ELSE Block(Block(filled + 1) + Max(Into(i)))
  BY DEF AreStored
<1>4. ASSUME NEW k \in 0 .. n - 1
      PROVE  stored[Slot(filled + k)] = Block(filled + k + 1)
  <2>1. k \in Nat /\ filled + k \in Nat /\ Slot(filled + k) \in 0 .. Z - 1
    <3>1. k \in Nat /\ filled + k \in Nat
      OBVIOUS
    <3> QED BY <3>1, SlotFacts
  <2>2. Into(Slot(filled + k)) = {k}
    <3>1. ASSUME NEW x \in 0 .. n - 1, Slot(filled + x) = Slot(filled + k) PROVE x = k
      <4>1. filled + x \in Nat /\ filled + k \in Nat /\ x \in Int /\ k \in Int
        OBVIOUS
      <4>2. CASE x < k
        <5>1. filled + x < filled + k /\ (filled + k) - (filled + x) < Z
          BY <1>1, <4>1, <4>2
        <5> QED BY <3>1, <4>1, <5>1, SlotFacts
      <4>3. CASE k < x
        <5>1. filled + k < filled + x /\ (filled + x) - (filled + k) < Z
          BY <1>1, <4>1, <4>3
        <5> QED BY <3>1, <4>1, <5>1, SlotFacts
      <4> QED BY <4>1, <4>2, <4>3
    <3> QED BY <1>2, <3>1 DEF Stores
  <2>3. Max({k}) = k
    BY <2>1 DEF Max
  <2> HIDE DEF Into, Z
  <2>4. stored[Slot(filled + k)] = Block(Block(filled + 1) + k)
    BY <1>3, <2>1, <2>2, <2>3
  <2>5. Block(Block(filled + 1) + k) = Block((filled + 1) + k)
    <3>1. filled + 1 \in Nat \ {0} /\ k \in Nat
      BY <2>1
    <3> QED BY <3>1, BlockFacts
  <2>6. (filled + 1) + k = filled + k + 1
    BY <2>1
  <2> QED BY <2>4, <2>5, <2>6
<1>5. ASSUME NEW i \in Nat, i < filled, filled + n - i <= Z
      PROVE  stored[Slot(i)] = arr[Slot(i)]
  <2>1. Slot(i) \in 0 .. Z - 1
    BY SlotFacts
  <2>2. \A k \in 0 .. n - 1 : Slot(filled + k) # Slot(i)
    <3> SUFFICES ASSUME NEW k \in 0 .. n - 1 PROVE Slot(filled + k) # Slot(i)
      OBVIOUS
    <3>1. filled + k \in Nat /\ i < filled + k /\ (filled + k) - i < Z
      BY <1>1, <1>5
    <3> QED BY <3>1, SlotFacts
  <2>3. Into(Slot(i)) = {}
    BY <1>2, <2>2 DEF Stores
  <2> HIDE DEF Into
  <2> QED BY <1>3, <2>1, <2>3
<1>6. ASSUME NEW i \in 0 .. Z - 1 PROVE stored[i] \in Nat
  <2>1. CASE Into(i) = {}
    BY <1>3, <2>1
  <2>2. CASE Into(i) # {}
    <3>1. PICK k \in 0 .. n - 1 : Slot(filled + k) = i
      BY <1>2, <2>2 DEF Stores
    <3>2. stored[i] = Block(filled + k + 1)
      BY <1>4, <3>1
    <3>3. filled + k + 1 \in Nat \ {0}
      OBVIOUS
    <3> QED BY <3>2, <3>3, BlockFacts
  <2> QED BY <2>1, <2>2
<1> QED BY <1>4, <1>5, <1>6 DEF Followed

\* The blocks that are loaded go to slots of which no buffer is queued.
LEMMA RequestServed ==
    ASSUME StreamingInv, AudioExecute
    PROVE  RingIsInOrder'
<1> USE DEF StreamingInv
<1>1. PICK played \in Nat, filled \in Nat : RingHolds(played, filled)
  BY DEF RingIsInOrder
<1>0. PICK n : n = Head(mLoadRequestQueue)
  OBVIOUS
<1>2. /\ mLoadRequestQueue # <<>> /\ LoadAudioData(n)
      /\ mLoadRequestQueue' = Tail(mLoadRequestQueue)
      /\ UNCHANGED <<mPendingLoadRequestQueue, turn, buffersToQueue, xaudio>>
  BY <1>0 DEF AudioExecute, ExecuteAssetDataLoad, voiceVars
<1>3. n = mLoadRequestQueue[1] /\ mLoadRequestQueue' = <<>>
      /\ n \in 1 .. DESIRED_QUEUED_AUDIO_BUFFER_COUNT
  BY <1>0, <1>2, AskFacts DEF LoadsAreServed
<1>4. mPendingLoadRequestQueue = <<>>
  BY <1>2 DEF LoadsAreServed
<1>5. Asked = n /\ Asked' = 0
  BY <1>2, <1>3, <1>4 DEF Asked
<1>6. n \in Nat \ {0} /\ Len(xaudio) \in Nat
      /\ filled + n <= played + DESIRED_QUEUED_AUDIO_BUFFER_COUNT
  <2>1. n \in Nat \ {0} /\ Len(xaudio) \in Nat
    <3>1. DESIRED_QUEUED_AUDIO_BUFFER_COUNT \in Nat
      BY SlotFacts
    <3>2. Len(xaudio) \in Nat
      BY DEF RingIsInOrder
    <3> QED BY <1>3, <3>1, <3>2
  <2>2. filled + Asked <= played + DESIRED_QUEUED_AUDIO_BUFFER_COUNT
    BY <1>1 DEF RingHolds
  <2> QED BY <1>5, <2>1, <2>2
<1>7. mDecodedZSTDBlockArr \in [0 .. ZSTD_BLOCK_ARRAY_SIZE - 1 -> Nat]
  BY DEF RingIsInOrder
<1>8. /\ AreStored(mDecodedZSTDBlockArr', mDecodedZSTDBlockArr, filled, n)
      /\ mDecodedZSTDBlockArr' = [i \in 0 .. ZSTD_BLOCK_ARRAY_SIZE - 1 |-> mDecodedZSTDBlockArr'[i]]
  <2>1. DOMAIN mDecodedZSTDBlockArr = 0 .. ZSTD_BLOCK_ARRAY_SIZE - 1
    BY <1>7
  <2>2. mCurrLoadIndex = Slot(filled) /\ nextBlock = Block(filled + 1)
    BY <1>1 DEF RingHolds
  <2> QED BY <1>2, <2>1, <2>2 DEF LoadAudioData, Stores, AreStored
<1>9. /\ \A i \in 0 .. ZSTD_BLOCK_ARRAY_SIZE - 1 : mDecodedZSTDBlockArr'[i] \in Nat
      /\ \A k \in 0 .. n - 1 : mDecodedZSTDBlockArr'[Slot(filled + k)] = Block(filled + k + 1)
      /\ \A i \in Nat : i < filled /\ filled + n - i <= ZSTD_BLOCK_ARRAY_SIZE
                           => mDecodedZSTDBlockArr'[Slot(i)] = mDecodedZSTDBlockArr[Slot(i)]
  <2>1. Followed(mDecodedZSTDBlockArr', mDecodedZSTDBlockArr, filled, n)
    BY ONLY <1>1, <1>3, <1>7, <1>8, BlocksLoaded
  <2> QED BY <2>1 DEF Followed
<1>10. \A i \in played .. (filled + n) - 1 : mDecodedZSTDBlockArr'[Slot(i)] = Block(i + 1)
  <2> SUFFICES ASSUME NEW i \in played .. (filled + n) - 1
               PROVE  mDecodedZSTDBlockArr'[Slot(i)] = Block(i + 1)
    OBVIOUS
  <2>1. CASE i >= filled
    <3>1. i - filled \in 0 .. n - 1 /\ filled + (i - filled) = i
      BY <1>6, <2>1
    <3>2. mDecodedZSTDBlockArr'[Slot(filled + (i - filled))] = Block(filled + (i - filled) + 1)
      BY <1>9, <3>1
    <3> QED BY <3>1, <3>2
  <2>2. CASE i < filled
    <3>1. i \in Nat /\ i \in played .. filled - 1
      BY <2>2
    <3>2. filled + n - i <= ZSTD_BLOCK_ARRAY_SIZE
      BY <1>6, <3>1, SlotFacts
    <3> QED BY <1>1, <1>9, <2>2, <3>1, <3>2 DEF RingHolds
  <2> QED BY <2>1, <2>2
<1>11. mCurrLoadIndex' = Slot(filled + n)
  <2>1. mCurrLoadIndex' = Slot(Slot(filled) + n)
    BY <1>1, <1>2 DEF LoadAudioData, RingHolds
  <2> QED BY <1>6, <2>1, SlotFacts
<1>12. nextBlock' = Block((filled + n) + 1)
  <2>1. nextBlock' = Block(Block(filled + 1) + n)
    BY <1>1, <1>2 DEF LoadAudioData, RingHolds
  <2>2. filled + 1 \in Nat \ {0} /\ (filled + 1) + n = (filled + n) + 1
    BY <1>6
  <2>3. Block(Block(filled + 1) + n) = Block((filled + 1) + n)
    BY <1>6, <2>2, BlockFacts
  <2> QED BY <2>1, <2>2, <2>3
<1>13. mLoadedDataCount' \in Nat \ {0}
  <2> DEFINE a == mLoadedDataCount + n
             b == ZSTD_BLOCK_ARRAY_SIZE
  <2>1. mLoadedDataCount' = Min({a, b})
    BY <1>2 DEF LoadAudioData
  <2>2. a \in Nat \ {0} /\ b \in Nat \ {0}
    BY <1>6, SlotFacts DEF RingIsInOrder
  <2> HIDE DEF a, b
  <2>3. Min({a, b}) \in {a, b}
    <3>1. \E x \in {a, b} : \A y \in {a, b} : x <= y
      BY <2>2
    <3> QED BY <3>1 DEF Min
  <2> QED BY <2>1, <2>2, <2>3
<1>14. RingHolds(played, filled + n)'
  <2>1. played + Len(xaudio') <= filled + n
    BY <1>1, <1>2, <1>6 DEF RingHolds
  <2>2. mCurrRetrievalIndex' = Slot(played + Len(xaudio'))
    BY <1>1, <1>2 DEF LoadAudioData, RingHolds
  <2>3. \A k \in 1 .. Len(xaudio') :
            xaudio'[k] = [slot |-> Slot(played + k - 1), block |-> Block(played + k)]
    BY <1>1, <1>2 DEF RingHolds
  <2>4. (filled + n) + Asked' <= played + DESIRED_QUEUED_AUDIO_BUFFER_COUNT
    BY <1>5, <1>6
  <2>5. mLoadedDataCount' # 0
    BY <1>13
  <2> QED BY <1>10, <1>11, <1>12, <2>1, <2>2, <2>3, <2>4, <2>5 DEF RingHolds
<1>15. filled + n \in Nat
  BY <1>6
<1>16. mDecodedZSTDBlockArr' \in [0 .. ZSTD_BLOCK_ARRAY_SIZE - 1 -> Nat]
  BY <1>8, <1>9
<1>17. /\ buffersToQueue' \in Nat /\ xaudio' \in Seq([slot : Nat, block : Nat])
       /\ turn' = "buffers" =>
             Len(xaudio') + buffersToQueue' <= DESIRED_QUEUED_AUDIO_BUFFER_COUNT
  BY <1>2 DEF RingIsInOrder
<1> QED BY <1>1, <1>13, <1>14, <1>15, <1>16, <1>17 DEF RingIsInOrder

\* Every step keeps the ring in order.
LEMMA RingStep ==
    ASSUME StreamingInv, [StreamingNext]_streamingVars
    PROVE  RingIsInOrder'
<1> USE DEF StreamingInv
<1>1. buffersToQueue \in Nat
      /\ (turn = "buffers" => Len(xaudio) + buffersToQueue <= DESIRED_QUEUED_AUDIO_BUFFER_COUNT)
  BY DEF RingIsInOrder
<1>2. CASE SubmitGroup \/ Manager \/ OtherUpdate \/ OtherExecute \/ UNCHANGED streamingVars
  BY <1>1, <1>2, RingStays DEF SubmitGroup, Manager, OtherUpdate, OtherExecute, streamingVars,
                               audioVars, voiceVars, loadVars, Asked
<1>3. CASE PreUpdate \/ UpdateEnds
  <2>1. turn' # "buffers" /\ UNCHANGED <<streamVars, xaudio, buffersToQueue, loadVars>>
    BY <1>3 DEF PreUpdate, UpdateEnds
  <2> QED BY <1>1, <2>1, RingStays DEF loadVars, Asked
<1>4. CASE AudioUpdate
  <2>1. /\ mLoadRequestQueue' = mLoadRequestQueue \o mPendingLoadRequestQueue
        /\ mPendingLoadRequestQueue' = <<>>
        /\ UNCHANGED <<streamVars, xaudio, turn, buffersToQueue>>
    BY <1>4 DEF AudioUpdate, AudioUpdateAssetData, voiceVars
  <2>2. CASE mPendingLoadRequestQueue = <<>>
    <3>1. mLoadRequestQueue' = mLoadRequestQueue
      BY <2>1, <2>2, AskFacts DEF LoadsAreServed
    <3> QED BY <1>1, <2>1, <2>2, <3>1, RingStays DEF Asked
  <2>3. CASE mPendingLoadRequestQueue # <<>>
    <3>1. mLoadRequestQueue = <<>>
      BY <2>3 DEF LoadsAreServed
    <3>2. mLoadRequestQueue' = mPendingLoadRequestQueue
      BY <2>1, <3>1, AskFacts DEF LoadsAreServed
    <3> QED BY <1>1, <2>1, <2>3, <3>2, RingStays DEF Asked
  <2> QED BY <2>2, <2>3
<1>5. CASE AudioExecute
  BY <1>5, RequestServed
<1>6. CASE BeginVoiceUpdate
  <2>1. PICK played \in Nat, filled \in Nat : RingHolds(played, filled)
    BY DEF RingIsInOrder
  <2>2. /\ UNCHANGED <<streamVars, xaudio, loadVars>>
        /\ buffersToQueue' = 0 \/ buffersToQueue' = Lacking
        /\ turn' = "buffers" => buffersToQueue' = Lacking
    BY <1>6 DEF BeginVoiceUpdate
  <2>3. Len(xaudio) \in Nat /\ DESIRED_QUEUED_AUDIO_BUFFER_COUNT \in Nat
    BY SlotFacts DEF RingIsInOrder
  <2>4. Len(xaudio) <= DESIRED_QUEUED_AUDIO_BUFFER_COUNT
    <3>1. /\ Asked \in Nat /\ played + Len(xaudio) <= filled
          /\ filled + Asked <= played + DESIRED_QUEUED_AUDIO_BUFFER_COUNT
      BY <2>1, AskedIsFew DEF RingHolds
    <3> HIDE DEF Asked
    <3> QED BY <2>3, <3>1
  <2>5. Lacking \in Nat /\ Len(xaudio) + Lacking <= DESIRED_QUEUED_AUDIO_BUFFER_COUNT
    BY <2>3, <2>4 DEF Lacking
  <2>6. Asked' = Asked
    BY <2>2 DEF loadVars, Asked
  <2>7. buffersToQueue' \in Nat
    BY <2>2, <2>5
  <2> QED BY <2>2, <2>5, <2>6, <2>7, RingStays
<1>7. CASE SubmitSourceBuffer
  BY <1>7, BufferSubmitted
<1>8. CASE EndVoiceUpdate
  <2>1. /\ turn = "buffers" /\ turn' = "preupdate" /\ buffersToQueue' = 0
        /\ UNCHANGED <<streamVars, xaudio, mLoadRequestQueue>>
    BY <1>8 DEF EndVoiceUpdate
  <2>2. mPendingLoadRequestQueue = <<>> /\ mLoadRequestQueue = <<>>
    BY <2>1 DEF LoadsAreServed, GroupTypes
  <2>3. CASE ~ (buffersToQueue > 0)
    BY <1>8, <2>1, <2>3, RingStays DEF EndVoiceUpdate, Asked
  <2>4. CASE buffersToQueue > 0
    <3>1. GetNextLoadedDataBlock = 0 /\ mPendingLoadRequestQueue' = <<buffersToQueue>>
      BY <1>1, <1>8, <2>2, <2>4 DEF EndVoiceUpdate, RequestAudioDataLoad
    <3>2. Asked' = buffersToQueue
      BY <3>1 DEF Asked
    <3>3. PICK played \in Nat, filled \in Nat : RingHolds(played, filled)
      BY DEF RingIsInOrder
    <3>4. played + Len(xaudio) = filled /\ Len(xaudio) \in Nat
      BY <3>1, <3>3, FoundBlock
    <3>5. filled + buffersToQueue <= played + DESIRED_QUEUED_AUDIO_BUFFER_COUNT
      BY <1>1, <2>1, <3>4, SlotFacts
    <3>6. RingHolds(played, filled)'
      BY <2>1, <3>2, <3>3, <3>5 DEF RingHolds, streamVars
    <3> QED BY <2>1, <3>6 DEF RingIsInOrder, streamVars
  <2> QED BY <2>3, <2>4
<1>9. CASE BufferEnds
  BY <1>9, BufferPlayed
<1> QED BY <1>2, <1>3, <1>4, <1>5, <1>6, <1>7, <1>8, <1>9 DEF StreamingNext, Running

\* The program begins so.
LEMMA StreamingInitially ==
    ASSUME StreamingInit
    PROVE  StreamingInv
<1>1. PICK g \in AudioHeads : AssetInit({g})
  BY DEF StreamingInit
<1>2. g \in Heads /\ g \in Groups
  BY AudioFacts DEF AudioHeads
<1>3. /\ phase = "application" /\ turn = "initialize" /\ pending = {g} /\ active = {}
      /\ groupCheck = [h \in Groups |-> "none"] /\ assetCheck = [j \in AssetJobs |-> "none"]
      /\ mDependenciesChecked = {} /\ mUpdateTickCounter = [a \in Assets |-> "current"]
      /\ pulls = 0 /\ queued = {} /\ jobs = {}
  BY <1>1 DEF AssetInit, StreamingInit
<1>4. GroupTypes
  BY <1>2, <1>3 DEF GroupTypes, Ticks
<1>5. ChecksGoDown
  <2>1. \A h \in Groups : groupCheck[h] = "none" /\ ~ Open(h)
    BY <1>3 DEF Open
  <2>2. [h \in Groups |-> 0] \in [Groups -> Nat]
    OBVIOUS
  <2> QED BY <1>3, <2>1, <2>2, ChildFacts, JobFacts DEF ChecksGoDown
<1>6. AudioIsUpdated
  BY <1>1, <1>3, AudioFacts DEF AudioIsUpdated
<1>7. LoadsAreServed
  BY <1>3, SlotFacts DEF LoadsAreServed, StreamingInit, Asks
<1>8. RingIsInOrder
  <2>1. Slot(0) = 0 /\ Block(0 + 1) = 1
    <3>1. 0 % ZSTD_BLOCK_ARRAY_SIZE = 0
      <4>1. /\ 0 % ZSTD_BLOCK_ARRAY_SIZE \in Nat /\ 0 \div ZSTD_BLOCK_ARRAY_SIZE \in Nat
            /\ 0 = ZSTD_BLOCK_ARRAY_SIZE * (0 \div ZSTD_BLOCK_ARRAY_SIZE)
                     + (0 % ZSTD_BLOCK_ARRAY_SIZE)
        BY Division, SlotFacts
      <4> DEFINE d == 0 \div ZSTD_BLOCK_ARRAY_SIZE
                 r == 0 % ZSTD_BLOCK_ARRAY_SIZE
      <4>2. d \in Nat /\ r \in Nat /\ 0 = ZSTD_BLOCK_ARRAY_SIZE * d + r
        BY <4>1
      <4> HIDE DEF d, r
      <4>3. ZSTD_BLOCK_ARRAY_SIZE * d \in Nat
        BY <4>2, SlotFacts
      <4>4. r = 0
        BY <4>2, <4>3
      <4> QED BY <4>4 DEF r
    <3>2. 0 + 1 = 1
      OBVIOUS
    <3> QED BY <3>1, <3>2, BlockFacts DEF Slot
  <2>2. /\ xaudio = <<>> /\ mCurrLoadIndex = 0 /\ mCurrRetrievalIndex = 0 /\ nextBlock = 1
        /\ mLoadedDataCount = 0 /\ buffersToQueue = 0
        /\ mPendingLoadRequestQueue = <<DESIRED_QUEUED_AUDIO_BUFFER_COUNT>>
        /\ mDecodedZSTDBlockArr = [i \in 0 .. ZSTD_BLOCK_ARRAY_SIZE - 1 |-> 0]
    BY DEF StreamingInit
  <2>3. Asked = DESIRED_QUEUED_AUDIO_BUFFER_COUNT
    BY <2>2 DEF Asked
  <2>4. Len(xaudio) = 0 /\ xaudio \in Seq([slot : Nat, block : Nat])
    BY <2>2
  <2>5. 0 .. 0 - 1 = {} /\ 1 .. 0 = {}
    OBVIOUS
  <2>6. DESIRED_QUEUED_AUDIO_BUFFER_COUNT \in Nat
    BY SlotFacts
  <2>7. RingHolds(0, 0)
    <3>1. 0 + Len(xaudio) = 0 /\ 0 + Asked <= 0 + DESIRED_QUEUED_AUDIO_BUFFER_COUNT
      BY <2>3, <2>4, <2>6
    <3> QED BY <2>1, <2>2, <2>4, <2>5, <3>1 DEF RingHolds
  <2>8. mDecodedZSTDBlockArr \in [0 .. ZSTD_BLOCK_ARRAY_SIZE - 1 -> Nat]
    BY <2>2
  <2> QED BY <1>3, <2>2, <2>4, <2>7, <2>8 DEF RingIsInOrder
<1> QED BY <1>4, <1>5, <1>6, <1>7, <1>8 DEF StreamingInv

\* What is queued is what the ring has from the first block that has not been played.
LEMMA BuffersFollow ==
    ASSUME StreamingInv
    PROVE  QueuedBuffersAreIntact
<1> USE DEF StreamingInv
<1>1. PICK played \in Nat, filled \in Nat : RingHolds(played, filled)
  BY DEF RingIsInOrder
<1>2. Len(xaudio) \in Nat /\ DOMAIN xaudio = 1 .. Len(xaudio)
  BY DEF RingIsInOrder
<1>3. \A k \in 1 .. Len(xaudio) :
          xaudio[k].slot = Slot(played + k - 1) /\ xaudio[k].block = Block(played + k)
  <2>1. \A k \in 1 .. Len(xaudio) :
            xaudio[k] = [slot |-> Slot(played + k - 1), block |-> Block(played + k)]
    BY <1>1 DEF RingHolds
  <2> SUFFICES ASSUME NEW k \in 1 .. Len(xaudio)
               PROVE xaudio[k].slot = Slot(played + k - 1) /\ xaudio[k].block = Block(played + k)
    OBVIOUS
  <2>2. xaudio[k] = [slot |-> Slot(played + k - 1), block |-> Block(played + k)]
    BY <2>1
  <2> QED BY ONLY <2>2
<1>4. ASSUME NEW k \in 1 .. Len(xaudio)
      PROVE  mDecodedZSTDBlockArr[xaudio[k].slot] = xaudio[k].block
  <2>1. played + k - 1 \in played .. filled - 1 /\ (played + k - 1) + 1 = played + k
    BY <1>1, <1>2 DEF RingHolds
  <2>2. mDecodedZSTDBlockArr[Slot(played + k - 1)] = Block((played + k - 1) + 1)
    BY <1>1, <2>1 DEF RingHolds
  <2> QED BY <1>3, <2>1, <2>2
<1>5. ASSUME NEW k \in 1 .. Len(xaudio), k > 1
      PROVE  xaudio[k].block = Block(xaudio[k - 1].block + 1)
  <2>1. k - 1 \in 1 .. Len(xaudio) /\ played + (k - 1) \in Nat \ {0}
        /\ (played + (k - 1)) + 1 = played + k
    BY <1>2, <1>5
  <2>2. Block(Block(played + (k - 1)) + 1) = Block((played + (k - 1)) + 1)
    BY <2>1, BlockFacts
  <2> QED BY <1>3, <2>1, <2>2
<1> QED BY <1>2, <1>4, <1>5 DEF QueuedBuffersAreIntact

-----------------------------------------------------------------------------
\* A buffer queued in XAudio2 still has the block it was submitted with, and the blocks
\* are queued in the order of the file, with any groups and requests besides, whatever
\* the sizes of the file and of the ring, and however XAudio2's thread interleaves with
\* the update (StreamedAudioVoice::CheckAudioBuffers, AudioStreamingContext).
THEOREM QueuedBuffersAreIntactTheorem == StreamingSpec => []QueuedBuffersAreIntact
<1>1. StreamingInit => StreamingInv
  BY StreamingInitially
<1>2. StreamingInv /\ [StreamingNext]_streamingVars => StreamingInv'
  BY TypesStep, ChecksStep, AudioStep, LoadsStep, RingStep DEF StreamingInv
<1>3. StreamingInv => QueuedBuffersAreIntact
  BY BuffersFollow
<1> QED BY <1>1, <1>2, <1>3, PTL DEF StreamingSpec

-----------------------------------------------------------------------------
(* Updates.                                                                  *)

\* The job whose compare-exchange has succeeded.
Wins(j) == assetCheck[j] \in {"updating", "updated"}

\* While an asset has the tick of the update no job has updated it, and one at most does.
OneJobWins ==
    /\ phase = "checking" => \A j \in AssetJobs :
          mUpdateTickCounter[j[2]] = "current" => assetCheck[j] \in {"none", "ready"}
    /\ \A j, k \in AssetJobs : Wins(j) /\ Wins(k) /\ j[2] = k[2] => j = k

\* No critical request is left when the jobs are executed, and no job when that ends.
RequestsEnd ==
    /\ phase \in {"executing", "application"} => \A kind \in Kinds : Queue(kind, CRITICAL) = {}
    /\ phase \in {"application", "checking"} => jobs = {}

UpdateInv == GroupTypes /\ ChecksGoDown /\ OneJobWins /\ RequestsEnd

\* Every step keeps both.
LEMMA WinStep ==
    ASSUME UpdateInv, [StreamingNext]_streamingVars
    PROVE  OneJobWins'
<1> USE DEF UpdateInv
<1>1. ASSUME phase' = "checking" => phase = "checking", UNCHANGED <<assetCheck, mUpdateTickCounter>>
      PROVE  OneJobWins'
  BY <1>1 DEF OneJobWins, Wins
<1>2. CASE SubmitGroup \/ BufferEnds \/ UNCHANGED streamingVars
  BY <1>1, <1>2 DEF SubmitGroup, SubmitAssetDependencyGroup, BufferEnds, streamingVars,
                    assetVars, groupVars
<1>3. CASE PreUpdate
  <2>1. \A j \in AssetJobs : assetCheck'[j] = "none"
    BY <1>3 DEF PreUpdate, BeginUpdate
  <2> QED BY <2>1 DEF OneJobWins, Wins
<1>4. CASE UpdateEnds
  <2>1. phase' = "application" /\ UNCHANGED assetCheck
    BY <1>4 DEF UpdateEnds, EndUpdate
  <2> QED BY <2>1 DEF OneJobWins, Wins
<1>5. CASE Manager
  <2>1. CASE \E g \in Groups : CheckDependencies(g)
    <3>1. PICK g \in Groups : CheckDependencies(g)
      BY <2>1
    <3>2. UNCHANGED <<phase, mUpdateTickCounter>>
      BY <3>1 DEF CheckDependencies
    <3>3. \A j \in AssetJobs : assetCheck'[j] = assetCheck[j] \/ assetCheck'[j] = "ready"
      BY <3>1 DEF CheckDependencies
    <3> QED BY <3>2, <3>3 DEF OneJobWins, Wins
  <2>2. CASE \E g \in Groups : EndCheck(g)
    BY <1>1, <2>2 DEF EndCheck
  <2>3. CASE \E j \in AssetJobs : UpdateAssetDataIMPL(j[1], j[2])
    <3>1. PICK j \in AssetJobs : UpdateAssetDataIMPL(j[1], j[2])
      BY <2>3
    <3>2. /\ j = <<j[1], j[2]>> /\ j[2] \in Assets /\ assetCheck[j] = "ready"
          /\ phase = "checking" /\ phase' = phase
      BY <3>1, JobFacts DEF UpdateAssetDataIMPL, ChecksGoDown, Open
    <3>3. \A k \in AssetJobs \ {j} : assetCheck'[k] = assetCheck[k]
      BY <3>1, <3>2 DEF UpdateAssetDataIMPL, GroupTypes
    <3>4. CASE mUpdateTickCounter[j[2]] = "current"
      <4>1. assetCheck'[j] = "updating"
        BY <3>1, <3>2, <3>4 DEF UpdateAssetDataIMPL, GroupTypes
      <4>2. mUpdateTickCounter'[j[2]] = "next"
            /\ \A a \in Assets \ {j[2]} : mUpdateTickCounter'[a] = mUpdateTickCounter[a]
        BY <3>1, <3>2, <3>4 DEF UpdateAssetDataIMPL, GroupTypes
      <4>3. \A k \in AssetJobs : k[2] = j[2] => assetCheck[k] \in {"none", "ready"}
        BY <3>2, <3>4 DEF OneJobWins
      <4> QED BY <3>2, <3>3, <4>1, <4>2, <4>3, JobFacts DEF OneJobWins, Wins
    <3>5. CASE mUpdateTickCounter[j[2]] # "current"
      <4>1. assetCheck'[j] = "skipped" /\ mUpdateTickCounter' = mUpdateTickCounter
        BY <3>1, <3>2, <3>5 DEF UpdateAssetDataIMPL, GroupTypes
      <4> QED BY <3>2, <3>3, <3>5, <4>1 DEF OneJobWins, Wins
    <3> QED BY <3>4, <3>5
  <2>4. CASE \E kind \in Kinds : PullRequests(kind)
    BY <1>1, <2>4 DEF PullRequests, groupVars
  <2>5. CASE BeginProcessing \/ BeginExecution
    BY <1>1, <2>5 DEF BeginProcessing, BeginExecution, groupVars
  <2> QED BY <1>5, <2>1, <2>2, <2>3, <2>4, <2>5 DEF Manager
<1>6. ASSUME NEW j \in AssetJobs, NEW wanted, UpdateAssetData(j[1], j[2], wanted)
      PROVE  OneJobWins'
  <2>1. j = <<j[1], j[2]>>
    BY JobFacts
  <2>2. /\ assetCheck[j] = "updating" /\ assetCheck'[j] = "updated"
        /\ UNCHANGED <<phase, mUpdateTickCounter>>
    BY <1>6, <2>1 DEF UpdateAssetData, GroupTypes
  <2>3. \A k \in AssetJobs \ {j} : assetCheck'[k] = assetCheck[k]
    BY <1>6, <2>1 DEF UpdateAssetData, GroupTypes
  <2>4. \A k \in AssetJobs : Wins(k)' <=> Wins(k)
    BY <2>2, <2>3 DEF Wins
  <2>5. phase = "checking"
    BY <2>2, JobFacts DEF ChecksGoDown, Open
  <2>6. mUpdateTickCounter[j[2]] # "current"
    BY <2>2, <2>5 DEF OneJobWins
  <2> QED BY <2>2, <2>3, <2>4, <2>6 DEF OneJobWins
<1>7. CASE OtherUpdate
  BY <1>6, <1>7 DEF OtherUpdate
<1>8. CASE AudioUpdate
  <2>1. PICK g \in Groups, wanted \in SUBSET AudioRequests :
           Audio \in mAssetDependencies[g] /\ UpdateAssetData(g, Audio, wanted)
    BY <1>8 DEF AudioUpdate, AudioUpdateAssetData
  <2>2. <<g, Audio>> \in AssetJobs
    BY <2>1, JobFacts
  <2> QED BY <1>6, <2>1, <2>2
<1>9. CASE OtherExecute \/ AudioExecute
  BY <1>1, <1>9 DEF OtherExecute, AudioExecute, ExecuteAssetDataLoad, ExecuteRequest, groupVars
<1>10. CASE BeginVoiceUpdate \/ SubmitSourceBuffer \/ EndVoiceUpdate
  BY <1>1, <1>10 DEF BeginVoiceUpdate, SubmitSourceBuffer, EndVoiceUpdate, assetVars, groupVars
<1> QED BY <1>2, <1>3, <1>4, <1>5, <1>7, <1>8, <1>9, <1>10 DEF StreamingNext, Running

LEMMA RequestsEndStep ==
    ASSUME UpdateInv, [StreamingNext]_streamingVars
    PROVE  RequestsEnd'
<1> USE DEF UpdateInv
<1>1. ASSUME \/ phase' = phase
             \/ phase \in {"application", "checking"} /\ phase' \in {"checking", "processing"},
             UNCHANGED <<queued, jobs>>
      PROVE  RequestsEnd'
  BY <1>1 DEF RequestsEnd, Queue
<1>2. CASE SubmitGroup \/ BufferEnds \/ UNCHANGED streamingVars
  BY <1>1, <1>2 DEF SubmitGroup, SubmitAssetDependencyGroup, BufferEnds, streamingVars,
                    assetVars, updateVars
<1>3. CASE PreUpdate
  BY <1>1, <1>3 DEF PreUpdate, BeginUpdate, updateVars
<1>4. CASE UpdateEnds
  BY <1>4 DEF UpdateEnds, EndUpdate, RequestsEnd, Queue, updateVars
<1>5. CASE Manager
  <2>1. CASE \/ \E g \in Groups : CheckDependencies(g) \/ EndCheck(g)
             \/ \E j \in AssetJobs : UpdateAssetDataIMPL(j[1], j[2])
    BY <1>1, <2>1 DEF CheckDependencies, EndCheck, UpdateAssetDataIMPL, updateVars
  <2>2. CASE \E kind \in Kinds : PullRequests(kind)
    BY <2>2 DEF PullRequests, RequestsEnd
  <2>3. CASE BeginProcessing
    BY <1>1, <2>3 DEF BeginProcessing
  <2>4. CASE BeginExecution
    <3>1. /\ phase' = "executing" /\ queued' = queued
          /\ ~ NextPull("load") /\ ~ NextPull("unload")
      BY <2>4 DEF BeginExecution, updateVars, Kinds
    <3>2. Queue("load", CRITICAL) = {} /\ Queue("unload", CRITICAL) = {}
      BY <3>1 DEF NextPull
    <3> QED BY <3>1, <3>2 DEF RequestsEnd, Queue, Kinds
  <2> QED BY <1>5, <2>1, <2>2, <2>3, <2>4 DEF Manager
<1>6. ASSUME NEW j \in AssetJobs, NEW wanted, UpdateAssetData(j[1], j[2], wanted)
      PROVE  RequestsEnd'
  <2>1. assetCheck[j] = "updating" /\ UNCHANGED <<phase, jobs>>
    BY <1>6, JobFacts DEF UpdateAssetData
  <2>2. phase = "checking"
    BY <2>1, JobFacts DEF ChecksGoDown, Open
  <2> QED BY <2>1, <2>2 DEF RequestsEnd
<1>7. CASE OtherUpdate
  BY <1>6, <1>7 DEF OtherUpdate
<1>8. CASE AudioUpdate
  <2>1. PICK g \in Groups, wanted \in SUBSET AudioRequests :
           Audio \in mAssetDependencies[g] /\ UpdateAssetData(g, Audio, wanted)
    BY <1>8 DEF AudioUpdate, AudioUpdateAssetData
  <2>2. <<g, Audio>> \in AssetJobs
    BY <2>1, JobFacts
  <2> QED BY <1>6, <2>1, <2>2
<1>9. CASE OtherExecute \/ AudioExecute
  <2>1. phase = "executing" /\ UNCHANGED <<phase, queued>>
    BY <1>9 DEF OtherExecute, AudioExecute, ExecuteAssetDataLoad, ExecuteRequest
  <2> QED BY <2>1 DEF RequestsEnd, Queue
<1>10. CASE BeginVoiceUpdate \/ SubmitSourceBuffer \/ EndVoiceUpdate
  BY <1>1, <1>10 DEF BeginVoiceUpdate, SubmitSourceBuffer, EndVoiceUpdate, assetVars, updateVars
<1> QED BY <1>2, <1>3, <1>4, <1>5, <1>7, <1>8, <1>9, <1>10 DEF StreamingNext, Running

\* They imply what is promised.
LEMMA UpdatesEnd ==
    ASSUME UpdateInv
    PROVE  UpdatedOnce /\ CriticalRequestsAreDone
<1> USE DEF UpdateInv
<1>1. ASSUME NEW a \in Assets
      PROVE  Cardinality({g \in Groups : /\ <<g, a>> \in AssetJobs
                                         /\ assetCheck[<<g, a>>] \in {"updating", "updated"}}) <= 1
  <2> DEFINE W == {g \in Groups : /\ <<g, a>> \in AssetJobs
                                  /\ assetCheck[<<g, a>>] \in {"updating", "updated"}}
  <2>1. \A g, h \in W : g = h
    <3> SUFFICES ASSUME NEW g \in W, NEW h \in W PROVE g = h
      OBVIOUS
    <3>1. <<g, a>> = <<h, a>>
      BY DEF OneJobWins, Wins
    <3> QED BY <3>1
  <2> HIDE DEF W
  <2>2. W = {} \/ \E g : W = {g}
    BY <2>1
  <2>3. Cardinality(W) \in {0, 1}
    BY <2>2, FS_EmptySet, FS_Singleton
  <2>4. Cardinality(W) <= 1
    BY <2>3
  <2> QED BY <2>4 DEF W
<1>2. UpdatedOnce
  BY <1>1 DEF UpdatedOnce
<1>3. CriticalRequestsAreDone
  BY DEF RequestsEnd, CriticalRequestsAreDone
<1> QED BY <1>2, <1>3

-----------------------------------------------------------------------------
\* Within an update no two jobs update one asset, and when it is over, so are all
\* critical requests and all jobs (IAsset::UpdateAssetData and
\* AssetDependencyManager::ProcessAssetDataUpdateRequests): two of the three parts
\* of UpdateIsComplete.
THEOREM UpdatesTheorem == StreamingSpec => [](UpdatedOnce /\ CriticalRequestsAreDone)
<1>1. StreamingInit => UpdateInv
  <2> SUFFICES ASSUME StreamingInit PROVE UpdateInv
    OBVIOUS
  <2>1. GroupTypes /\ ChecksGoDown
    BY StreamingInitially DEF StreamingInv
  <2>2. /\ phase = "application" /\ queued = {} /\ jobs = {}
        /\ assetCheck = [j \in AssetJobs |-> "none"]
    BY DEF StreamingInit, AssetInit
  <2> QED BY <2>1, <2>2 DEF UpdateInv, OneJobWins, Wins, RequestsEnd, Queue
<1>2. UpdateInv /\ [StreamingNext]_streamingVars => UpdateInv'
  BY TypesStep, ChecksStep, WinStep, RequestsEndStep DEF UpdateInv
<1>3. UpdateInv => UpdatedOnce /\ CriticalRequestsAreDone
  BY UpdatesEnd
<1> QED BY <1>1, <1>2, <1>3, PTL DEF StreamingSpec
=============================================================================
