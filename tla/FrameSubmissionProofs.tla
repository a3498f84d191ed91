------------------------ MODULE FrameSubmissionProofs ------------------------
(***************************************************************************)
(* Proofs about FrameSubmission, for any number of threads, frames and     *)
(* modules, and any capacity of the job queue, with at most two frames in  *)
(* flight.                                                                 *)
(*                                                                         *)
(* The argument has two layers.  Of the stacks of calls only the innermost *)
(* ones that execute a submission job matter (View); every action is seen  *)
(* by the submission of frames as one of ten steps (EveryStep), of which   *)
(* each keeps the invariant Submission.  A frame between its dispatch and  *)
(* its signal is in one place: queued, fresh on a thread, or among the     *)
(* fences.  A pending frame's FrameGraph is not reset for another, so two  *)
(* pending frames have different slots, and each finds its sink untouched. *)
(* With two frames in flight there are at most two fences queued, so the   *)
(* handler's next sink is that of the next head; with three it need not    *)
(* be, as submission jobs overtake one another.                            *)
(***************************************************************************)
EXTENDS FrameSubmission, FiniteSetTheorems, SequenceTheorems, TLAPS

MainPcs   == {"wait", "compile", "compiling", "span", "modules"}
DrainPcs  == {"load", "extract", "sleep", "pop"}
SubmitPcs == {"init", "push"} \cup DrainPcs
Waiting   == {"await", "compiling", "span", "modules"}

JobSet  == [kind : {"process", "compile", "submit", "module"}, frame : FrameNums,
            index : Nat]
WorkSet == {j \in JobSet : j.kind # "process"}
CallSet == [job : JobSet, sink : Slots, index : Nat, seen : Nat,
            pc : MainPcs \cup SubmitPcs \cup {"await"}]
SinkSet == [frame : FrameNums \cup {-1}, notifier : Nat, submitted : SUBSET Nat]
Commands == [kind : {"signal", "module"}, frame : FrameNums, index : Nat]

Types ==
    /\ queue \in Seq(WorkSet)
    /\ stack \in [Threads -> Seq(CallSet)]
    /\ mCmdContextSinkArr \in [Slots -> SinkSet]
    /\ FenceCollectionQueue \in Seq(FrameNums)
    /\ IsThreadHandlingSinks \in BOOLEAN
    /\ hEvent \in [Slots -> BOOLEAN]
    /\ timeline \in Seq(Commands)
    /\ executed \in 0 .. Len(timeline)

-----------------------------------------------------------------------------
(* What a thread does for the submission of frames: its innermost call.     *)

CallIsRight(t, d) ==
    /\ stack[t][d].pc \in MainPcs <=> t = Main /\ d = 1
    /\ stack[t][d].pc \in MainPcs <=> stack[t][d].job.kind = "process"
    /\ stack[t][d].pc \in SubmitPcs <=> stack[t][d].job.kind = "submit"
    /\ d < Len(stack[t]) => stack[t][d].pc \in Waiting
StacksAreRight ==
    /\ stack[Main] # <<>>
    /\ \A t \in Threads : \A d \in 1 .. Len(stack[t]) : CallIsRight(t, d)

NoCall == [pc |-> "none"]
Innermost(calls) == calls[Len(calls)]
View == [t \in Threads |->
            IF stack[t] # <<>> /\ Innermost(stack[t]).pc \in SubmitPcs
            THEN Innermost(stack[t]) ELSE NoCall]

MainCall == stack[Main][1]
Current  == MainCall.job.frame

\* Main has reset the FrameGraph for frame n, and dispatched the job that submits it.
ResetFrames == IF MainCall.pc = "wait" THEN 0 .. Current - 1 ELSE 0 .. Current
DispatchedFrames ==
    IF MainCall.pc \in {"span", "modules"} THEN 0 .. Current ELSE 0 .. Current - 1
SinkFrames == [s \in Slots |-> mCmdContextSinkArr[s].frame]

-----------------------------------------------------------------------------
(* The frames between their dispatch and their signal.                      *)

SubmitQueued(k) == queue[k].kind = "submit"
QueuedOnce ==
    \A k, l \in 1 .. Len(queue) :
        SubmitQueued(k) /\ SubmitQueued(l) /\ queue[k].frame = queue[l].frame => k = l
QueuedFrames == {queue[k].frame : k \in {l \in 1 .. Len(queue) : SubmitQueued(l)}}

IsFresh(t)    == View[t].pc \in {"init", "push"}
Handling(t)   == View[t].pc \in DrainPcs
FreshFrame(t) == View[t].job.frame

FencesOf == {FenceCollectionQueue[k] : k \in 1 .. Len(FenceCollectionQueue)}
SignalledFrames ==
    {n \in FrameNums : \E k \in 1 .. Len(timeline) : timeline[k] = Signal(n)}
CompletedFrames ==
    {n \in FrameNums : \E k \in 1 .. Len(timeline) : k <= executed /\ timeline[k] = Signal(n)}
\* Dispatched, and the fences not pushed yet; dispatched, and not signalled yet.
Unpushed == DispatchedFrames \ (FencesOf \cup SignalledFrames)
Pending  == DispatchedFrames \ SignalledFrames

SubmittedOnce ==
    /\ QueuedFrames \subseteq Unpushed
    /\ \A t \in Threads : IsFresh(t) =>
          /\ FreshFrame(t) \in Unpushed \ QueuedFrames
          /\ View[t].sink = Slot(FreshFrame(t)) /\ View[t].index = 0
          /\ View[t].pc = "push" => SinkFrames[Slot(FreshFrame(t))] = FreshFrame(t)
    /\ \A t, u \in Threads :
          IsFresh(t) /\ IsFresh(u) /\ FreshFrame(t) = FreshFrame(u) => t = u

Fences ==
    /\ \A k, l \in 1 .. Len(FenceCollectionQueue) :
          FenceCollectionQueue[k] = FenceCollectionQueue[l] => k = l
    /\ FencesOf \subseteq Pending
    /\ \A n \in FencesOf : SinkFrames[Slot(n)] = n

SignalsOnce ==
    /\ \A k, l \in 1 .. Len(timeline) :
          timeline[k].kind = "signal" /\ timeline[k] = timeline[l] => k = l
    /\ SignalledFrames \subseteq DispatchedFrames

\* A FrameGraph's event is set only when its last frame is executed.
Resets ==
    \A n \in ResetFrames :
        /\ n >= MAX_FRAMES_IN_FLIGHT => n - MAX_FRAMES_IN_FLIGHT \in CompletedFrames
        /\ n + MAX_FRAMES_IN_FLIGHT \notin ResetFrames /\ hEvent[Slot(n)]
              => n \in CompletedFrames

Handler ==
    /\ \A t, u \in Threads : Handling(t) /\ Handling(u) => t = u
    /\ IsThreadHandlingSinks => \E t \in Threads : Handling(t)
    /\ \A t \in Threads : Handling(t) => IsThreadHandlingSinks
    /\ IsThreadHandlingSinks <=> FenceCollectionQueue # <<>>

-----------------------------------------------------------------------------
(* What the GPU was given.                                                   *)

\* The only modules of frame n in s are m of them, in order, in front of place k.
InFront(s, k, n, m) ==
    /\ m < k
    /\ \A j \in 1 .. m : s[k - m - 1 + j] = Job("module", n, j)
    /\ \A l \in 1 .. Len(s) : s[l].kind = "module" /\ s[l].frame = n => l \in k - m .. k - 1
NoModules(s, n) == \A l \in 1 .. Len(s) : ~(s[l].kind = "module" /\ s[l].frame = n)

HeadFrame == IF FenceCollectionQueue = <<>> THEN -1 ELSE Head(FenceCollectionQueue)

Pieces ==
    /\ \A k \in 1 .. Len(timeline) : timeline[k].kind = "signal" =>
          /\ timeline[k].index = 0
          /\ InFront(timeline, k, timeline[k].frame, NumModules[timeline[k].frame])
    /\ \A n \in FrameNums :
          n \notin SignalledFrames /\ n # HeadFrame => NoModules(timeline, n)
HandlersPiece ==
    \A t \in Threads : Handling(t) =>
        /\ View[t].sink = Slot(HeadFrame)
        /\ View[t].index <= NumModules[HeadFrame]
        /\ View[t].pc \in {"extract", "sleep"} => View[t].index < NumModules[HeadFrame]
        /\ View[t].pc = "pop" => View[t].index = NumModules[HeadFrame]
        /\ InFront(timeline, Len(timeline) + 1, HeadFrame, View[t].index)

Submission == /\ SubmittedOnce /\ Fences /\ SignalsOnce /\ Resets
              /\ Handler /\ Pieces /\ HandlersPiece
IInv == Types /\ StacksAreRight /\ QueuedOnce /\ Submission

-----------------------------------------------------------------------------
(* Calls and jobs.                                                          *)

\* Frames are numbers, with slots and numbers of modules.
LEMMA Constants ==
    /\ MAX_FRAMES_IN_FLIGHT \in Nat \ {0} /\ NumFrames \in Nat \ {0}
    /\ \A n \in FrameNums : n \in Nat /\ n <= NumFrames - 1 /\ Slot(n) \in Slots
                            /\ NumModules[n] \in Nat
    /\ \A n \in Nat : n <= NumFrames - 1 => n \in FrameNums
    /\ Main \in Threads
<1>1. /\ MAX_FRAMES_IN_FLIGHT \in Nat \ {0} /\ NumFrames \in Nat \ {0}
      /\ NumModules \in [FrameNums -> Nat]
  BY FrameAssumption
<1>2. ASSUME NEW n \in FrameNums
      PROVE  n \in Nat /\ n <= NumFrames - 1 /\ Slot(n) \in Slots /\ NumModules[n] \in Nat
  <2>1. n \in Nat /\ n <= NumFrames - 1 BY <1>1 DEF FrameNums
  <2>2. n % MAX_FRAMES_IN_FLIGHT \in 0 .. MAX_FRAMES_IN_FLIGHT - 1 BY <1>1, <2>1
  <2> QED BY <1>1, <2>1, <2>2 DEF Slot, Slots
<1> QED BY <1>1, <1>2 DEF FrameNums, Threads

\* The call of a job at its start.
LEMMA NewCall ==
    ASSUME NEW j \in JobSet
    PROVE  /\ Call(j) \in CallSet /\ Call(j).job = j /\ Call(j).sink = Slot(j.frame)
           /\ Call(j).index = 0
           /\ j.kind = "submit" => Call(j).pc = "init"
           /\ j.kind = "process" => Call(j).pc = "wait"
           /\ j.kind \in {"compile", "module"} => Call(j).pc = "await"
<1>1. j.frame \in FrameNums /\ j.kind \in {"process", "compile", "submit", "module"}
  BY DEF JobSet
<1>2. Slot(j.frame) \in Slots BY <1>1, Constants
<1> QED BY <1>1, <1>2 DEF Call, CallSet, MainPcs, SubmitPcs, DrainPcs

\* A call whose program counter is set.
LEMMA CallGoesOn ==
    ASSUME NEW c \in CallSet, NEW p \in MainPcs \cup SubmitPcs \cup {"await"}
    PROVE  /\ [c EXCEPT !.pc = p] \in CallSet
           /\ [c EXCEPT !.pc = p].pc = p /\ [c EXCEPT !.pc = p].job = c.job
           /\ [c EXCEPT !.pc = p].sink = c.sink /\ [c EXCEPT !.pc = p].index = c.index
BY DEF CallSet

\* The innermost call of a busy thread.
LEMMA TopIsACall ==
    ASSUME Types, StacksAreRight, NEW t \in Threads, Busy(t)
    PROVE  /\ Len(stack[t]) \in Nat \ {0} /\ Depth(t) = Len(stack[t])
           /\ Top(t) = stack[t][Len(stack[t])] /\ Top(t) \in CallSet
           /\ CallIsRight(t, Len(stack[t]))
<1>1. stack[t] \in Seq(CallSet) /\ stack[t] # <<>>
  BY DEF Types, Busy
<1>2. Len(stack[t]) \in Nat \ {0}
  BY <1>1
<1> QED  BY <1>1, <1>2 DEF Top, Depth, StacksAreRight

\* Main is inside ProcessFrame, and executes jobs on top of it.
LEMMA MainAtTop ==
    ASSUME Types, StacksAreRight
    PROVE  /\ Busy(Main) /\ MainCall \in CallSet /\ MainCall.job.kind = "process"
           /\ MainCall.pc \in MainPcs /\ Current \in FrameNums
           /\ Top(Main).pc \in MainPcs => Len(stack[Main]) = 1 /\ Top(Main) = MainCall
<1>1. Busy(Main) BY DEF StacksAreRight, Busy
<1>2. Len(stack[Main]) \in Nat \ {0} /\ CallIsRight(Main, Len(stack[Main]))
      /\ Top(Main) = stack[Main][Len(stack[Main])]
  BY <1>1, Constants, TopIsACall
<1>3. stack[Main] \in Seq(CallSet) BY Constants DEF Types
<1>4. MainCall \in CallSet BY <1>2, <1>3 DEF MainCall
<1>5. CallIsRight(Main, 1) BY <1>2, Constants DEF StacksAreRight
<1>6. MainCall.pc \in MainPcs /\ MainCall.job.kind = "process"
  BY <1>5 DEF CallIsRight, MainCall
<1>7. Current \in FrameNums BY <1>4 DEF Current, CallSet, JobSet
<1>8. Top(Main).pc \in MainPcs => Len(stack[Main]) = 1 BY <1>2 DEF CallIsRight
<1> QED BY <1>1, <1>2, <1>4, <1>6, <1>7, <1>8 DEF MainCall

-----------------------------------------------------------------------------
(* What the changes of a stack do to the view.                              *)

\* The length of an empty sequence.
LEMMA SeqIsEmpty ==
    ASSUME NEW S, NEW s \in Seq(S)
    PROVE  Len(s) \in Nat /\ (s = <<>> <=> Len(s) = 0)
OBVIOUS

\* A sequence without its last element.
LEMMA PopSeq ==
    ASSUME NEW S, NEW s \in Seq(S), Len(s) \in Nat \ {0}
    PROVE  /\ SubSeq(s, 1, Len(s) - 1) \in Seq(S)
           /\ Len(SubSeq(s, 1, Len(s) - 1)) = Len(s) - 1
           /\ \A d \in 1 .. Len(s) - 1 : SubSeq(s, 1, Len(s) - 1)[d] = s[d]
<1> DEFINE n == Len(s) - 1
<1>1. n \in Nat /\ \A i \in 1 .. n : s[i] \in S BY ElementOfSeq
<1> HIDE DEF n
<1>2. /\ SubSeq(s, 1, n) \in Seq(S)
      /\ Len(SubSeq(s, 1, n)) = IF 1 <= n THEN n - 1 + 1 ELSE 0
      /\ \A i \in 1 .. n - 1 + 1 : SubSeq(s, 1, n)[i] = s[1 + i - 1]
  BY <1>1, SubSeqProperties
<1>3. n - 1 + 1 = n BY <1>1
<1>4. \A i \in 1 .. n : 1 + i - 1 = i BY <1>1
<1>5. \A i \in 1 .. n : SubSeq(s, 1, n)[i] = s[i] BY <1>2, <1>3, <1>4
<1>6. Len(SubSeq(s, 1, n)) = n BY <1>1, <1>2
<1> QED BY <1>2, <1>5, <1>6 DEF n

\* The innermost call is replaced.
LEMMA TopChanges ==
    ASSUME stack \in [Threads -> Seq(CallSet)], NEW t \in Threads, Busy(t),
           NEW c \in CallSet, SetTop(t, c)
    PROVE  /\ stack' \in [Threads -> Seq(CallSet)]
           /\ \A u \in Threads : Len(stack'[u]) = Len(stack[u])
           /\ \A u \in Threads : \A d \in 1 .. Len(stack[u]) :
                 stack'[u][d] = IF u = t /\ d = Len(stack[t]) THEN c ELSE stack[u][d]
<1>1. Len(stack[t]) \in Nat \ {0} BY DEF Busy
<1>2. stack' = [stack EXCEPT ![t] = [stack[t] EXCEPT ![Len(stack[t])] = c]]
  BY <1>1 DEF SetTop, Depth
<1>3. /\ [stack[t] EXCEPT ![Len(stack[t])] = c] \in Seq(CallSet)
      /\ Len([stack[t] EXCEPT ![Len(stack[t])] = c]) = Len(stack[t])
  BY <1>1, ExceptSeq
<1> QED  BY <1>1, <1>2, <1>3

\* A call begins.
LEMMA CallIsPushed ==
    ASSUME stack \in [Threads -> Seq(CallSet)], NEW t \in Threads, NEW c \in CallSet,
           stack' = [stack EXCEPT ![t] = Append(@, c)]
    PROVE  /\ stack' \in [Threads -> Seq(CallSet)]
           /\ \A u \in Threads :
                 Len(stack'[u]) = IF u = t THEN Len(stack[u]) + 1 ELSE Len(stack[u])
           /\ \A u \in Threads : \A d \in 1 .. Len(stack'[u]) :
                 stack'[u][d] = IF u = t /\ d = Len(stack[t]) + 1 THEN c ELSE stack[u][d]
OBVIOUS

\* A call ends.
LEMMA CallIsPopped ==
    ASSUME stack \in [Threads -> Seq(CallSet)], NEW t \in Threads, Busy(t), Return(t)
    PROVE  /\ stack' \in [Threads -> Seq(CallSet)]
           /\ \A u \in Threads :
                 Len(stack'[u]) = IF u = t THEN Len(stack[u]) - 1 ELSE Len(stack[u])
           /\ \A u \in Threads : \A d \in 1 .. Len(stack'[u]) : stack'[u][d] = stack[u][d]
<1>1. stack[t] \in Seq(CallSet) /\ Len(stack[t]) \in Nat \ {0}
  BY DEF Busy
<1> DEFINE below == SubSeq(stack[t], 1, Len(stack[t]) - 1)
<1>2. /\ below \in Seq(CallSet) /\ Len(below) = Len(stack[t]) - 1
      /\ \A d \in 1 .. Len(stack[t]) - 1 : below[d] = stack[t][d]
  BY <1>1, PopSeq
<1>3. stack' = [stack EXCEPT ![t] = below] BY DEF Return, Depth
<1> HIDE DEF below
<1> QED  BY <1>1, <1>2, <1>3

\* The view of a thread, by its innermost call.
LEMMA ViewOf ==
    ASSUME stack \in [Threads -> Seq(CallSet)], NEW t \in Threads
    PROVE  /\ stack[t] = <<>> => View[t] = NoCall
           /\ stack[t] # <<>> => /\ Len(stack[t]) \in Nat \ {0}
                                 /\ View[t] = IF stack[t][Len(stack[t])].pc \in SubmitPcs
                                              THEN stack[t][Len(stack[t])] ELSE NoCall
BY DEF View, Innermost

\* Steps of ProcessFrame itself do not show in the view.
LEMMA MainGoesOn ==
    ASSUME Types, StacksAreRight, Top(Main).pc \in MainPcs, NEW c \in CallSet,
           c.pc \in MainPcs, c.job.kind = "process", SetTop(Main, c)
    PROVE  /\ stack' \in [Threads -> Seq(CallSet)] /\ StacksAreRight'
           /\ View' = View /\ MainCall' = c
<1>1. /\ stack \in [Threads -> Seq(CallSet)] /\ Main \in Threads /\ Busy(Main)
      /\ Len(stack[Main]) = 1
  BY MainAtTop, Constants DEF Types
<1>2. /\ stack' \in [Threads -> Seq(CallSet)]
      /\ \A u \in Threads : Len(stack'[u]) = Len(stack[u])
      /\ \A u \in Threads : \A d \in 1 .. Len(stack[u]) :
            stack'[u][d] = IF u = Main /\ d = 1 THEN c ELSE stack[u][d]
  BY <1>1, TopChanges
<1>3. MainCall' = c BY <1>1, <1>2 DEF MainCall
<1>4. stack'[Main] # <<>>
  <2>1. stack'[Main] \in Seq(CallSet) BY <1>1, <1>2
  <2>2. Len(stack'[Main]) = Len(stack[Main]) BY <1>1, <1>2
  <2>3. Len(stack'[Main]) # 0 BY <1>1, <2>2
  <2> QED BY <2>1, <2>3, SeqIsEmpty
<1>5. ASSUME NEW u \in Threads, NEW d \in 1 .. Len(stack'[u]) PROVE CallIsRight(u, d)'
  <2>1. CallIsRight(u, d) /\ Len(stack'[u]) = Len(stack[u])
    BY <1>2 DEF StacksAreRight
  <2>2. CASE u = Main /\ d = 1
    <3>1. stack'[u][d] = c /\ Len(stack'[u]) = 1 BY <1>1, <1>2, <2>2
    <3> QED BY <2>2, <3>1 DEF CallIsRight, MainPcs, SubmitPcs, DrainPcs
  <2>3. CASE ~(u = Main /\ d = 1)
    <3>1. stack'[u][d] = stack[u][d] BY <1>2, <2>1, <2>3
    <3> QED BY <2>1, <3>1 DEF CallIsRight
  <2> QED BY <2>2, <2>3
<1>6. StacksAreRight' BY <1>4, <1>5 DEF StacksAreRight
<1>7. ASSUME NEW u \in Threads PROVE View'[u] = View[u]
  <2>1. stack'[u] \in Seq(CallSet) /\ Len(stack'[u]) = Len(stack[u]) BY <1>2
  <2>2. CASE u = Main
    <3>1. stack[u][1].pc \in MainPcs /\ stack'[u][1] = c /\ Len(stack[u]) = 1
      BY <1>1, <1>2, <2>2 DEF Top, Depth
    <3>2. stack[u][1].pc \notin SubmitPcs /\ c.pc \notin SubmitPcs
      BY <3>1 DEF MainPcs, SubmitPcs, DrainPcs
    <3> QED BY <1>1, <1>2, <2>1, <2>2, <3>1, <3>2 DEF View, Innermost
  <2>3. CASE u # Main
    <3>1. stack'[u] = stack[u] BY <1>1, <2>3 DEF SetTop
    <3> QED BY <3>1 DEF View, Innermost
  <2> QED BY <2>2, <2>3
<1>8. View' = View BY <1>7 DEF View
<1> QED BY <1>2, <1>3, <1>6, <1>8

\* A thread that waits executes a job: a submission shows in the view.
LEMMA JobIsTaken ==
    ASSUME Types, StacksAreRight, NEW t \in Threads, Busy(t) => Top(t).pc \in Waiting,
           NEW j \in JobSet, j.kind # "process",
           stack' = [stack EXCEPT ![t] = Append(@, Call(j))]
    PROVE  /\ stack' \in [Threads -> Seq(CallSet)] /\ StacksAreRight'
           /\ View[t] = NoCall /\ MainCall' = MainCall
           /\ View' = [View EXCEPT ![t] = IF j.kind = "submit" THEN Call(j) ELSE NoCall]
<1> DEFINE c == Call(j)
<1>1. /\ stack \in [Threads -> Seq(CallSet)] /\ c \in CallSet /\ c.job = j
      /\ Len(stack[t]) \in Nat
  BY NewCall DEF Types
<1>2. /\ j.kind = "submit" => c.pc = "init"
      /\ j.kind # "submit" => c.pc = "await"
  BY NewCall DEF JobSet
<1> HIDE DEF c
<1>3. /\ stack' \in [Threads -> Seq(CallSet)]
      /\ \A u \in Threads :
            Len(stack'[u]) = IF u = t THEN Len(stack[u]) + 1 ELSE Len(stack[u])
      /\ \A u \in Threads : \A d \in 1 .. Len(stack'[u]) :
            stack'[u][d] = IF u = t /\ d = Len(stack[t]) + 1 THEN c ELSE stack[u][d]
  BY <1>1, CallIsPushed DEF c
<1>4. Main \in Threads /\ stack[Main] # <<>> /\ Len(stack[Main]) \in Nat \ {0}
  BY <1>1, Constants DEF StacksAreRight
<1>5. stack'[Main] # <<>> /\ MainCall' = MainCall
  BY <1>1, <1>3, <1>4 DEF MainCall
<1>6. ASSUME NEW u \in Threads, NEW d \in 1 .. Len(stack'[u]) PROVE CallIsRight(u, d)'
  <2>1. CASE u = t /\ d = Len(stack[t]) + 1
    <3>1. stack'[u][d] = c /\ Len(stack'[u]) = d BY <1>3, <2>1
    <3>2. ~(u = Main /\ d = 1) BY <1>4, <2>1
    <3> QED BY <1>1, <1>2, <3>1, <3>2 DEF CallIsRight, MainPcs, SubmitPcs, DrainPcs
  <2>2. CASE ~(u = t /\ d = Len(stack[t]) + 1)
    <3>1. stack'[u][d] = stack[u][d] /\ d \in 1 .. Len(stack[u])
      BY <1>1, <1>3, <2>2
    <3>2. CallIsRight(u, d) BY <3>1 DEF StacksAreRight
    <3>3. u = t /\ d = Len(stack[t]) => stack[u][d].pc \in Waiting
      BY <1>1, <3>1 DEF Busy, Top, Depth
    <3>4. u # t => Len(stack'[u]) = Len(stack[u]) BY <1>3
    <3>5. u = t => d < Len(stack[t]) \/ d = Len(stack[t]) BY <1>1, <3>1
    <3> QED BY <3>1, <3>2, <3>3, <3>4, <3>5 DEF CallIsRight
  <2> QED BY <2>1, <2>2
<1>7. StacksAreRight' BY <1>5, <1>6 DEF StacksAreRight
<1>8. View[t] = NoCall
  <2>1. CASE stack[t] = <<>> BY <1>1, <2>1, ViewOf
  <2>2. CASE stack[t] # <<>>
    <3>1. stack[t][Len(stack[t])].pc \in Waiting BY <2>2 DEF Busy, Top, Depth
    <3>2. stack[t][Len(stack[t])].pc \notin SubmitPcs
      BY <3>1 DEF Waiting, SubmitPcs, DrainPcs
    <3> QED BY <1>1, <2>2, <3>2, ViewOf
  <2> QED BY <2>1, <2>2
<1>9. ASSUME NEW u \in Threads
      PROVE  View'[u] = IF u = t THEN IF j.kind = "submit" THEN c ELSE NoCall ELSE View[u]
  <2>1. CASE u = t
    <3>1. stack'[t] # <<>> /\ Len(stack'[t]) = Len(stack[t]) + 1
          /\ stack'[t][Len(stack'[t])] = c
      BY <1>1, <1>3
    <3> QED BY <1>2, <2>1, <3>1 DEF View, Innermost, SubmitPcs, DrainPcs
  <2>2. CASE u # t
    <3>1. stack'[u] = stack[u] BY <1>1, <2>2
    <3> QED BY <2>2, <3>1 DEF View, Innermost
  <2> QED BY <2>1, <2>2
<1>10. View' = [View EXCEPT ![t] = IF j.kind = "submit" THEN c ELSE NoCall]
  BY <1>9 DEF View
<1> QED BY <1>3, <1>5, <1>7, <1>8, <1>10 DEF c

\* Main dispatches a job to itself, as the queue is full.
LEMMA MainExecutes ==
    ASSUME Types, StacksAreRight, Top(Main).pc \in MainPcs, NEW c \in CallSet,
           c.pc \in MainPcs \cap Waiting, c.job.kind = "process",
           NEW j \in JobSet, j.kind # "process",
           stack' = [stack EXCEPT ![Main] = Append([@ EXCEPT ![Depth(Main)] = c], Call(j))]
    PROVE  /\ stack' \in [Threads -> Seq(CallSet)] /\ StacksAreRight'
           /\ View[Main] = NoCall /\ MainCall' = c
           /\ View' = [View EXCEPT ![Main] = IF j.kind = "submit" THEN Call(j) ELSE NoCall]
<1> DEFINE e == Call(j)
<1>1. /\ stack \in [Threads -> Seq(CallSet)] /\ Main \in Threads /\ Busy(Main)
      /\ Len(stack[Main]) = 1 /\ e \in CallSet /\ e.job = j
      /\ stack[Main][1].pc \in MainPcs
  BY MainAtTop, Constants, NewCall DEF Types, MainCall
<1>2. /\ j.kind = "submit" => e.pc = "init"
      /\ j.kind # "submit" => e.pc = "await"
  BY NewCall DEF JobSet
<1>3. stack' = [stack EXCEPT ![Main] = Append([@ EXCEPT ![1] = c], e)]
  BY <1>1 DEF Depth
<1> HIDE DEF e
<1>4. /\ stack' \in [Threads -> Seq(CallSet)]
      /\ Len(stack'[Main]) = 2 /\ stack'[Main][1] = c /\ stack'[Main][2] = e
      /\ \A u \in Threads : u # Main => stack'[u] = stack[u]
  <2>1. /\ [stack[Main] EXCEPT ![1] = c] \in Seq(CallSet)
        /\ Len([stack[Main] EXCEPT ![1] = c]) = 1
        /\ [stack[Main] EXCEPT ![1] = c][1] = c
    BY <1>1, ExceptSeq
  <2> DEFINE bottom == [stack[Main] EXCEPT ![1] = c]
  <2>2. stack' = [stack EXCEPT ![Main] = Append(bottom, e)] BY <1>3
  <2> HIDE DEF bottom
  <2>3. bottom \in Seq(CallSet) /\ Len(bottom) = 1 /\ bottom[1] = c BY <2>1 DEF bottom
  <2>4. /\ Append(bottom, e) \in Seq(CallSet) /\ Len(Append(bottom, e)) = 2
        /\ Append(bottom, e)[1] = c /\ Append(bottom, e)[2] = e
    <3>1. e \in CallSet /\ bottom \in Seq(CallSet) BY <1>1, <2>3
    <3>2. /\ Append(bottom, e) \in Seq(CallSet)
          /\ Len(Append(bottom, e)) = Len(bottom) + 1
          /\ \A i \in 1 .. Len(bottom) : Append(bottom, e)[i] = bottom[i]
          /\ Append(bottom, e)[Len(bottom) + 1] = e
      BY <3>1, AppendProperties
    <3> QED BY <2>3, <3>2
  <2> QED BY <1>1, <2>2, <2>4
<1>5. stack'[Main] # <<>> /\ MainCall' = c BY <1>1, <1>4 DEF MainCall
<1>6. ASSUME NEW u \in Threads, NEW d \in 1 .. Len(stack'[u]) PROVE CallIsRight(u, d)'
  <2>1. CASE u = Main /\ d = 1
    BY <1>4, <2>1 DEF CallIsRight, MainPcs, SubmitPcs, DrainPcs
  <2>2. CASE u = Main /\ d # 1
    <3>1. d = 2 /\ stack'[u][d] = e BY <1>4, <2>2
    <3> QED BY <1>1, <1>2, <1>4, <2>2, <3>1
            DEF CallIsRight, MainPcs, SubmitPcs, DrainPcs
  <2>3. CASE u # Main
    <3>1. stack'[u] = stack[u] BY <1>4, <2>3
    <3>2. CallIsRight(u, d) BY <3>1 DEF StacksAreRight
    <3> QED BY <3>1, <3>2 DEF CallIsRight
  <2> QED BY <2>1, <2>2, <2>3
<1>7. StacksAreRight' BY <1>5, <1>6 DEF StacksAreRight
<1>8. View[Main] = NoCall
  BY <1>1, ViewOf DEF MainPcs, SubmitPcs, DrainPcs
<1>9. ASSUME NEW u \in Threads
      PROVE  View'[u] = IF u = Main THEN IF j.kind = "submit" THEN e ELSE NoCall ELSE View[u]
  <2>1. CASE u = Main
    BY <1>2, <1>4, <1>5, <2>1 DEF View, Innermost, SubmitPcs, DrainPcs
  <2>2. CASE u # Main
    <3>1. stack'[u] = stack[u] BY <1>4, <2>2
    <3> QED BY <2>2, <3>1 DEF View, Innermost
  <2> QED BY <2>1, <2>2
<1>10. View' = [View EXCEPT ![Main] = IF j.kind = "submit" THEN e ELSE NoCall]
  BY <1>9 DEF View
<1> QED BY <1>4, <1>5, <1>7, <1>8, <1>10 DEF e

\* A submission job takes a step.
LEMMA SubmissionGoesOn ==
    ASSUME Types, StacksAreRight, NEW t \in Threads, Busy(t), Top(t).pc \in SubmitPcs,
           NEW c \in CallSet, c.pc \in SubmitPcs, c.job = Top(t).job, SetTop(t, c)
    PROVE  /\ stack' \in [Threads -> Seq(CallSet)] /\ StacksAreRight'
           /\ View[t] = Top(t) /\ MainCall' = MainCall
           /\ View' = [View EXCEPT ![t] = c]
<1>1. /\ stack \in [Threads -> Seq(CallSet)] /\ Len(stack[t]) \in Nat \ {0}
      /\ Top(t) = stack[t][Len(stack[t])] /\ CallIsRight(t, Len(stack[t]))
  BY TopIsACall DEF Types
<1>2. /\ stack' \in [Threads -> Seq(CallSet)]
      /\ \A u \in Threads : Len(stack'[u]) = Len(stack[u])
      /\ \A u \in Threads : \A d \in 1 .. Len(stack[u]) :
            stack'[u][d] = IF u = t /\ d = Len(stack[t]) THEN c ELSE stack[u][d]
  BY <1>1, TopChanges
<1>3. Main \in Threads /\ stack[Main] # <<>> /\ Len(stack[Main]) \in Nat \ {0}
      /\ ~(t = Main /\ Len(stack[t]) = 1)
  BY <1>1, Constants DEF StacksAreRight, CallIsRight, MainPcs, SubmitPcs, DrainPcs
<1>4. stack'[Main] # <<>> /\ MainCall' = MainCall
  <2>1. stack'[Main] \in Seq(CallSet) BY <1>2, <1>3
  <2>2. Len(stack'[Main]) \in Nat \ {0}
    <3>1. Len(stack'[Main]) = Len(stack[Main]) BY <1>2, <1>3
    <3> QED BY <1>3, <3>1
  <2>3. 1 \in 1 .. Len(stack'[Main]) /\ 1 \in 1 .. Len(stack[Main]) BY <1>3, <2>2
  <2>4. stack'[Main][1] = stack[Main][1] BY <1>2, <1>3, <2>3
  <2>5. Len(stack'[Main]) # 0 BY <2>2
  <2> QED BY <2>1, <2>4, <2>5, SeqIsEmpty DEF MainCall
<1>5. ASSUME NEW u \in Threads, NEW d \in 1 .. Len(stack'[u]) PROVE CallIsRight(u, d)'
  <2>1. CallIsRight(u, d) /\ Len(stack'[u]) = Len(stack[u])
    BY <1>2 DEF StacksAreRight
  <2>2. CASE u = t /\ d = Len(stack[t])
    <3>1. stack'[u][d] = c /\ stack[u][d].job = c.job /\ stack[u][d].pc \in SubmitPcs
      BY <1>1, <1>2, <2>2
    <3> QED BY <2>1, <2>2, <3>1 DEF CallIsRight, MainPcs, SubmitPcs, DrainPcs
  <2>3. CASE ~(u = t /\ d = Len(stack[t]))
    <3>1. stack'[u][d] = stack[u][d] BY <1>2, <2>1, <2>3
    <3> QED BY <2>1, <3>1 DEF CallIsRight
  <2> QED BY <2>2, <2>3
<1>6. StacksAreRight' BY <1>4, <1>5 DEF StacksAreRight
<1>7. View[t] = Top(t) BY <1>1, ViewOf DEF Busy
<1>8. ASSUME NEW u \in Threads PROVE View'[u] = IF u = t THEN c ELSE View[u]
  <2>1. CASE u = t
    <3>1. stack'[t] \in Seq(CallSet) /\ Len(stack'[t]) \in Nat \ {0}
          /\ stack'[t][Len(stack'[t])] = c
      BY <1>1, <1>2
    <3> QED BY <2>1, <3>1 DEF View, Innermost
  <2>2. CASE u # t
    <3>1. stack'[u] = stack[u] BY <1>1, <2>2 DEF SetTop
    <3> QED BY <2>2, <3>1 DEF View, Innermost
  <2> QED BY <2>1, <2>2
<1>9. View' = [View EXCEPT ![t] = c] BY <1>8 DEF View
<1> QED BY <1>2, <1>4, <1>6, <1>7, <1>9

\* A job ends: the call below it waits, and is not seen.
LEMMA CallEnds ==
    ASSUME Types, StacksAreRight, NEW t \in Threads, Busy(t),
           Top(t).pc \in SubmitPcs \cup {"await"}, Return(t)
    PROVE  /\ stack' \in [Threads -> Seq(CallSet)] /\ StacksAreRight'
           /\ MainCall' = MainCall
           /\ View' = [View EXCEPT ![t] = NoCall]
           /\ View[t] = IF Top(t).pc \in SubmitPcs THEN Top(t) ELSE NoCall
<1>1. /\ stack \in [Threads -> Seq(CallSet)] /\ Len(stack[t]) \in Nat \ {0}
      /\ Top(t) = stack[t][Len(stack[t])] /\ CallIsRight(t, Len(stack[t]))
  BY TopIsACall DEF Types
<1>2. /\ stack' \in [Threads -> Seq(CallSet)]
      /\ \A u \in Threads :
            Len(stack'[u]) = IF u = t THEN Len(stack[u]) - 1 ELSE Len(stack[u])
      /\ \A u \in Threads : \A d \in 1 .. Len(stack'[u]) : stack'[u][d] = stack[u][d]
  BY <1>1, CallIsPopped
<1>3. Main \in Threads /\ stack[Main] # <<>> /\ Len(stack[Main]) \in Nat \ {0}
      /\ ~(t = Main /\ Len(stack[t]) = 1)
  BY <1>1, Constants DEF StacksAreRight, CallIsRight, MainPcs, SubmitPcs, DrainPcs
<1>4. stack'[Main] # <<>> /\ MainCall' = MainCall
  <2>1. stack'[Main] \in Seq(CallSet) BY <1>2, <1>3
  <2>2. Len(stack'[Main]) \in Nat \ {0}
    <3>1. Len(stack'[Main]) = IF Main = t THEN Len(stack[Main]) - 1 ELSE Len(stack[Main])
      BY <1>2, <1>3
    <3>2. CASE Main = t
      <4>1. Len(stack[Main]) # 1 BY <1>3, <3>2
      <4> QED BY <1>3, <3>1, <3>2, <4>1
    <3>3. CASE Main # t BY <1>3, <3>1, <3>3
    <3> QED BY <3>2, <3>3
  <2>3. 1 \in 1 .. Len(stack'[Main]) /\ 1 \in 1 .. Len(stack[Main]) BY <1>3, <2>2
  <2>4. stack'[Main][1] = stack[Main][1] BY <1>2, <1>3, <2>3
  <2>5. Len(stack'[Main]) # 0 BY <2>2
  <2> QED BY <2>1, <2>4, <2>5, SeqIsEmpty DEF MainCall
<1>5. ASSUME NEW u \in Threads, NEW d \in 1 .. Len(stack'[u]) PROVE CallIsRight(u, d)'
  <2>1. d \in 1 .. Len(stack[u]) /\ stack'[u][d] = stack[u][d]
        /\ (d < Len(stack'[u]) => d < Len(stack[u]))
    BY <1>1, <1>2
  <2>2. CallIsRight(u, d) BY <2>1 DEF StacksAreRight
  <2> QED BY <2>1, <2>2 DEF CallIsRight
<1>6. StacksAreRight' BY <1>4, <1>5 DEF StacksAreRight
<1>7. View[t] = IF Top(t).pc \in SubmitPcs THEN Top(t) ELSE NoCall
  BY <1>1, ViewOf DEF Busy
<1>8. ASSUME NEW u \in Threads PROVE View'[u] = IF u = t THEN NoCall ELSE View[u]
  <2>1. CASE u = t /\ stack'[t] # <<>>
    <3>1. /\ Len(stack'[t]) = Len(stack[t]) - 1 /\ Len(stack'[t]) \in 1 .. Len(stack[t])
          /\ stack'[t][Len(stack'[t])] = stack[t][Len(stack'[t])]
      BY <1>1, <1>2, <2>1
    <3>2. CallIsRight(t, Len(stack'[t])) BY <3>1 DEF StacksAreRight
    <3>3. stack'[t][Len(stack'[t])].pc \in Waiting
      BY <1>1, <3>1, <3>2 DEF CallIsRight
    <3> QED BY <2>1, <3>3 DEF View, Innermost, Waiting, SubmitPcs, DrainPcs
  <2>2. CASE u = t /\ stack'[t] = <<>> BY <2>2 DEF View
  <2>3. CASE u # t
    <3>1. stack'[u] = stack[u] BY <1>1, <2>3 DEF Return
    <3> QED BY <2>3, <3>1 DEF View, Innermost
  <2> QED BY <2>1, <2>2, <2>3
<1>9. View' = [View EXCEPT ![t] = NoCall] BY <1>8 DEF View
<1> QED BY <1>2, <1>4, <1>6, <1>7, <1>9

-----------------------------------------------------------------------------
(* The steps as they appear to the submission of frames.                    *)

IsNew(c, n) == /\ c \in CallSet /\ c.pc = "init" /\ c.job.frame = n /\ n \in FrameNums
               /\ c.sink = Slot(n) /\ c.index = 0

gpu   == <<hEvent, timeline, executed>>
main  == <<ResetFrames, DispatchedFrames>>
calls == <<View, QueuedFrames>>
sinks == <<SinkFrames, FenceCollectionQueue, IsThreadHandlingSinks>>

Invisible == UNCHANGED <<calls, main, sinks, gpu>>
Resetting ==
    \E n \in FrameNums :
        /\ ResetFrames = 0 .. n - 1 /\ ResetFrames' = ResetFrames \cup {n}
        /\ hEvent[Slot(n)] /\ hEvent' = [hEvent EXCEPT ![Slot(n)] = FALSE]
        /\ UNCHANGED <<DispatchedFrames, calls, sinks, timeline, executed>>
Dispatching ==
    \E n \in ResetFrames :
        /\ n \notin DispatchedFrames /\ DispatchedFrames' = DispatchedFrames \cup {n}
        /\ \/ QueuedFrames' = QueuedFrames \cup {n} /\ View' = View
           \/ /\ QueuedFrames' = QueuedFrames /\ View[Main] = NoCall
              /\ \E c \in CallSet : IsNew(c, n) /\ View' = [View EXCEPT ![Main] = c]
        /\ UNCHANGED <<ResetFrames, sinks, gpu>>
Starting(t) ==
    \E n \in QueuedFrames :
        /\ QueuedFrames' = QueuedFrames \ {n} /\ View[t] = NoCall
        /\ \E c \in CallSet : IsNew(c, n) /\ View' = [View EXCEPT ![t] = c]
        /\ UNCHANGED <<main, sinks, gpu>>

Initializing(t) ==
    /\ View[t].pc = "init"
    /\ \E c \in CallSet :
          /\ c.pc = "push" /\ c.job = View[t].job
          /\ c.sink = View[t].sink /\ c.index = View[t].index
          /\ View' = [View EXCEPT ![t] = c]
    /\ SinkFrames' = [SinkFrames EXCEPT ![Slot(FreshFrame(t))] = FreshFrame(t)]
    /\ UNCHANGED <<QueuedFrames, main, FenceCollectionQueue, IsThreadHandlingSinks, gpu>>
Pushing(t) ==
    /\ View[t].pc = "push"
    /\ FenceCollectionQueue' = Append(FenceCollectionQueue, FreshFrame(t))
    /\ IsThreadHandlingSinks' = TRUE
    /\ IF IsThreadHandlingSinks
       THEN View' = [View EXCEPT ![t] = NoCall]
       ELSE \E c \in CallSet :
               /\ c.pc = "load" /\ c.job = View[t].job
               /\ c.sink = View[t].sink /\ c.index = View[t].index
               /\ View' = [View EXCEPT ![t] = c]
    /\ UNCHANGED <<QueuedFrames, main, SinkFrames, gpu>>
ModulesOf(t) == NumModules[SinkFrames[View[t].sink]]
Looking(t) ==
    /\ View[t].pc \in DrainPcs
    /\ \E c \in CallSet :
          /\ \/ c.pc = "load"
             \/ c.pc = "sleep" /\ View[t].pc = "extract"
             \/ c.pc = IF View[t].index < ModulesOf(t) THEN "extract" ELSE "pop"
          /\ c.sink = View[t].sink /\ c.index = View[t].index
          /\ View' = [View EXCEPT ![t] = c]
    /\ UNCHANGED <<QueuedFrames, main, sinks, gpu>>
Submitting(t) ==
    /\ View[t].pc = "extract"
    /\ timeline' = Append(timeline, Job("module", SinkFrames[View[t].sink], View[t].index + 1))
    /\ \E c \in CallSet :
          /\ c.pc = IF View[t].index + 1 < ModulesOf(t) THEN "extract" ELSE "pop"
          /\ c.sink = View[t].sink /\ c.index = View[t].index + 1
          /\ View' = [View EXCEPT ![t] = c]
    /\ UNCHANGED <<QueuedFrames, main, sinks, hEvent, executed>>
Popping(t) ==
    /\ View[t].pc = "pop"
    /\ FenceCollectionQueue' = Tail(FenceCollectionQueue)
    /\ IsThreadHandlingSinks' = (FenceCollectionQueue' # <<>>)
    /\ timeline' = Append(timeline, Signal(Head(FenceCollectionQueue)))
    /\ IF FenceCollectionQueue' = <<>>
       THEN View' = [View EXCEPT ![t] = NoCall]
       ELSE \E c \in CallSet :
               /\ c.pc = "load" /\ c.index = 0
               /\ c.sink = (View[t].sink + 1) % MAX_FRAMES_IN_FLIGHT
               /\ View' = [View EXCEPT ![t] = c]
    /\ UNCHANGED <<QueuedFrames, main, SinkFrames, hEvent, executed>>
Executing ==
    /\ executed < Len(timeline) /\ executed' = executed + 1
    /\ hEvent' = IF timeline[executed + 1].kind = "signal"
                 THEN [hEvent EXCEPT ![Slot(timeline[executed + 1].frame)] = TRUE]
                 ELSE hEvent
    /\ UNCHANGED <<calls, main, sinks, timeline>>

\* Frames are reset, then dispatched, one after the other.
LEMMA FramesInOrder ==
    ASSUME Types, StacksAreRight
    PROVE  /\ ResetFrames \subseteq FrameNums /\ DispatchedFrames \subseteq ResetFrames
           /\ \A n \in ResetFrames : \A m \in Nat : m <= n => m \in ResetFrames
<1>1. Current \in Nat /\ Current <= NumFrames - 1 BY MainAtTop, Constants
<1>2. ResetFrames \subseteq FrameNums BY <1>1, Constants DEF ResetFrames, FrameNums
<1>3. DispatchedFrames \subseteq ResetFrames
  BY <1>1 DEF ResetFrames, DispatchedFrames
<1>4. \A n \in ResetFrames : \A m \in Nat : m <= n => m \in ResetFrames
  BY <1>1 DEF ResetFrames
<1> QED BY <1>2, <1>3, <1>4

\* A job is queued.
LEMMA QueueGrows ==
    ASSUME Types, QueuedOnce, NEW j \in WorkSet, queue' = Append(queue, j),
           j.kind = "submit" => j.frame \notin QueuedFrames
    PROVE  /\ queue' \in Seq(WorkSet) /\ QueuedOnce'
           /\ QueuedFrames' = IF j.kind = "submit" THEN QueuedFrames \cup {j.frame}
                                                   ELSE QueuedFrames
<1> DEFINE n == Len(queue)
<1>1. queue \in Seq(WorkSet) /\ n \in Nat BY DEF Types
<1>2. /\ queue' \in Seq(WorkSet) /\ Len(queue') = n + 1
      /\ \A k \in 1 .. n : queue'[k] = queue[k]
      /\ queue'[n + 1] = j
  BY <1>1, AppendProperties
<1> HIDE DEF n
<1>3. 1 .. Len(queue') = 1 .. n \cup {n + 1} BY <1>1, <1>2
<1>4. \A k \in 1 .. n : queue[k].kind = "submit" => queue[k].frame \in QueuedFrames
  BY DEF QueuedFrames, SubmitQueued, n
<1>5. QueuedOnce'
  <2> SUFFICES ASSUME NEW k \in 1 .. Len(queue'), NEW l \in 1 .. Len(queue'),
                      queue'[k].kind = "submit", queue'[l].kind = "submit",
                      queue'[k].frame = queue'[l].frame
               PROVE  k = l
    BY DEF QueuedOnce, SubmitQueued
  <2>1. CASE k = n + 1 /\ l = n + 1 BY <2>1
  <2>2. CASE k = n + 1 /\ l \in 1 .. n BY <1>2, <1>4, <2>2
  <2>3. CASE k \in 1 .. n /\ l = n + 1 BY <1>2, <1>4, <2>3
  <2>4. CASE k \in 1 .. n /\ l \in 1 .. n
    BY <1>2, <2>4 DEF QueuedOnce, SubmitQueued, n
  <2> QED BY <1>3, <2>1, <2>2, <2>3, <2>4
<1>6. ASSUME NEW f
      PROVE  f \in QueuedFrames' <=> f \in QueuedFrames \/ (j.kind = "submit" /\ f = j.frame)
  <2>1. f \in QueuedFrames' <=> \E k \in 1 .. Len(queue') :
                                    queue'[k].kind = "submit" /\ f = queue'[k].frame
    BY DEF QueuedFrames, SubmitQueued
  <2>2. f \in QueuedFrames <=> \E k \in 1 .. n : queue[k].kind = "submit" /\ f = queue[k].frame
    BY DEF QueuedFrames, SubmitQueued, n
  <2> QED BY <1>2, <1>3, <2>1, <2>2
<1> QED BY <1>2, <1>5, <1>6

\* The first job of the queue is taken.
LEMMA QueueShrinks ==
    ASSUME Types, QueuedOnce, queue # <<>>, queue' = Tail(queue)
    PROVE  /\ queue' \in Seq(WorkSet) /\ QueuedOnce' /\ Head(queue) \in WorkSet
           /\ Head(queue).kind = "submit" => Head(queue).frame \in QueuedFrames
           /\ QueuedFrames' = IF Head(queue).kind = "submit"
                              THEN QueuedFrames \ {Head(queue).frame} ELSE QueuedFrames
<1> DEFINE n == Len(queue')
           j == Head(queue)
<1>1. queue \in Seq(WorkSet) BY DEF Types
<1>2. /\ queue' \in Seq(WorkSet) /\ Len(queue') = Len(queue) - 1
      /\ \A k \in 1 .. Len(queue') : queue'[k] = queue[k + 1]
      /\ j \in WorkSet /\ j = queue[1] /\ Len(queue) \in Nat \ {0}
  BY <1>1, HeadTailProperties
<1>3. n \in Nat /\ Len(queue) = n + 1 BY <1>2
<1> HIDE DEF n, j
<1>4. 1 .. Len(queue) = {1} \cup {k + 1 : k \in 1 .. n}
  <2>1. \A k \in 1 .. n + 1 : k = 1 \/ k - 1 \in 1 .. n BY <1>3
  <2>2. \A k \in 1 .. n + 1 : k = (k - 1) + 1 BY <1>3
  <2>3. \A k \in 1 .. n : k + 1 \in 1 .. n + 1 BY <1>3
  <2>4. 1 \in 1 .. n + 1 BY <1>3
  <2> QED BY <1>3, <2>1, <2>2, <2>3, <2>4
<1>5. \A k, l \in 1 .. n : k + 1 = l + 1 => k = l /\ k + 1 # 1 BY <1>3
<1>6. QueuedOnce'
  <2> SUFFICES ASSUME NEW k \in 1 .. n, NEW l \in 1 .. n,
                      queue'[k].kind = "submit", queue'[l].kind = "submit",
                      queue'[k].frame = queue'[l].frame
               PROVE  k = l
    BY DEF QueuedOnce, SubmitQueued, n
  <2>1. k + 1 \in 1 .. Len(queue) /\ l + 1 \in 1 .. Len(queue) BY <1>4
  <2>2. k + 1 = l + 1 BY <1>2, <2>1 DEF QueuedOnce, SubmitQueued, n
  <2> QED BY <1>3, <2>2
<1>7. ASSUME NEW f
      PROVE  f \in QueuedFrames' <=> f \in QueuedFrames /\ ~ (j.kind = "submit" /\ f = j.frame)
  <2>1. f \in QueuedFrames' <=> \E k \in 1 .. n : queue'[k].kind = "submit" /\ f = queue'[k].frame
    BY DEF QueuedFrames, SubmitQueued, n
  <2>2. f \in QueuedFrames <=> \E k \in 1 .. Len(queue) :
                                   queue[k].kind = "submit" /\ f = queue[k].frame
    BY DEF QueuedFrames, SubmitQueued
  <2>3. ASSUME NEW k \in 1 .. n, queue'[k].kind = "submit", f = queue'[k].frame
        PROVE  f \in QueuedFrames /\ ~ (j.kind = "submit" /\ f = j.frame)
    <3>1. k + 1 \in 1 .. Len(queue) /\ queue[k + 1] = queue'[k] /\ k + 1 # 1 /\ 1 \in 1 .. Len(queue)
      BY <1>2, <1>3, <1>4 DEF n
    <3>2. f \in QueuedFrames BY <2>2, <2>3, <3>1
    <3>3. ~ (j.kind = "submit" /\ f = j.frame)
      BY <1>2, <2>3, <3>1 DEF QueuedOnce, SubmitQueued
    <3> QED BY <3>2, <3>3
  <2>4. ASSUME NEW k \in 1 .. Len(queue), queue[k].kind = "submit", f = queue[k].frame,
               ~ (j.kind = "submit" /\ f = j.frame)
        PROVE  f \in QueuedFrames'
    <3>1. k # 1 BY <1>2, <2>4
    <3>2. PICK l \in 1 .. n : k = l + 1 BY <1>4, <2>4, <3>1
    <3>3. queue'[l] = queue[k] BY <1>2, <3>2 DEF n
    <3> QED BY <2>1, <2>4, <3>2, <3>3
  <2> QED BY <2>1, <2>2, <2>3, <2>4
<1>8. j.kind = "submit" => j.frame \in QueuedFrames
  <2>1. 1 \in 1 .. Len(queue) BY <1>4
  <2> QED BY <1>2, <2>1 DEF QueuedFrames, SubmitQueued
<1>9. QueuedFrames' = IF j.kind = "submit" THEN QueuedFrames \ {j.frame} ELSE QueuedFrames
  BY <1>7
<1> QED BY <1>2, <1>6, <1>8, <1>9 DEF j

-----------------------------------------------------------------------------
(* Each action as such a step.                                              *)

Threading == Types /\ StacksAreRight /\ QueuedOnce

\* A call whose index is set.
LEMMA CallCounts ==
    ASSUME NEW c \in CallSet, NEW i \in Nat
    PROVE  /\ [c EXCEPT !.index = i] \in CallSet
           /\ [c EXCEPT !.index = i].pc = c.pc /\ [c EXCEPT !.index = i].job = c.job
BY DEF CallSet

\* Main resets a FrameGraph.
LEMMA ResetIsResetting ==
    ASSUME Threading, ResetFrameGraph
    PROVE  Threading' /\ Resetting
<1>1. /\ Types /\ StacksAreRight /\ QueuedOnce /\ Top(Main).pc = "wait"
      /\ hEvent[Slot(Top(Main).job.frame)]
      /\ hEvent' = [hEvent EXCEPT ![Slot(Top(Main).job.frame)] = FALSE]
      /\ SetTop(Main, [Top(Main) EXCEPT !.pc = "compile"])
      /\ UNCHANGED <<queue, compiled, spanInitialized, mCmdContextSinkArr, sinkVars,
                     timeline, executed>>
  BY DEF Threading, ResetFrameGraph, At, Goto
<1>2. /\ Top(Main) = MainCall /\ MainCall \in CallSet /\ MainCall.job.kind = "process"
      /\ Current \in FrameNums /\ MainCall.pc = "wait"
  BY <1>1, MainAtTop DEF MainPcs
<1> DEFINE c == [MainCall EXCEPT !.pc = "compile"]
<1>3. c \in CallSet /\ c.pc = "compile" /\ c.job = MainCall.job
  BY <1>2, CallGoesOn DEF MainPcs
<1> HIDE DEF c
<1>4. /\ stack' \in [Threads -> Seq(CallSet)] /\ StacksAreRight'
      /\ View' = View /\ MainCall' = c
  BY <1>1, <1>2, <1>3, MainGoesOn DEF MainPcs, c
<1>5. Current' = Current BY <1>3, <1>4 DEF Current
<1>6. ResetFrames = 0 .. Current - 1 /\ ResetFrames' = 0 .. Current
      /\ DispatchedFrames' = DispatchedFrames
  BY <1>2, <1>3, <1>4, <1>5 DEF ResetFrames, DispatchedFrames
<1>7. ResetFrames' = ResetFrames \cup {Current}
  BY <1>2, <1>6, Constants DEF FrameNums
<1>8. QueuedOnce' /\ QueuedFrames' = QueuedFrames /\ SinkFrames' = SinkFrames
  BY <1>1 DEF QueuedOnce, QueuedFrames, SubmitQueued, SinkFrames
<1>9. Types' BY <1>1, <1>2, <1>4, Constants DEF Types, sinkVars
<1>10. /\ hEvent[Slot(Current)]
       /\ hEvent' = [hEvent EXCEPT ![Slot(Current)] = FALSE]
  BY <1>1, <1>2 DEF Current
<1> QED BY <1>1, <1>2, <1>4, <1>6, <1>7, <1>8, <1>9, <1>10
        DEF Threading, Resetting, calls, sinks, sinkVars

\* A dispatched job is in the queue or executed by Main.
LEMMA DispatchKeeps ==
    ASSUME Threading, Top(Main).pc \in MainPcs, NEW c \in CallSet,
           c.pc \in MainPcs \cap Waiting, c.job.kind = "process",
           NEW j \in WorkSet, Dispatch(Main, c, j),
           j.kind = "submit" => j.frame \notin QueuedFrames
    PROVE  /\ stack' \in [Threads -> Seq(CallSet)] /\ StacksAreRight' /\ MainCall' = c
           /\ queue' \in Seq(WorkSet) /\ QueuedOnce'
           /\ j.kind # "submit" => View' = View /\ QueuedFrames' = QueuedFrames
           /\ j.kind = "submit" =>
                 \/ QueuedFrames' = QueuedFrames \cup {j.frame} /\ View' = View
                 \/ /\ QueuedFrames' = QueuedFrames /\ View[Main] = NoCall
                    /\ \E d \in CallSet : IsNew(d, j.frame)
                                          /\ View' = [View EXCEPT ![Main] = d]
<1>1. Types /\ StacksAreRight /\ QueuedOnce /\ j \in JobSet /\ j.kind # "process"
  BY DEF Threading, WorkSet
<1>2. CASE Len(queue) < JOB_QUEUE_SIZE
  <2>1. queue' = Append(queue, j) /\ SetTop(Main, c) BY <1>2 DEF Dispatch
  <2>2. /\ stack' \in [Threads -> Seq(CallSet)] /\ StacksAreRight'
        /\ View' = View /\ MainCall' = c
    BY <1>1, <2>1, MainGoesOn
  <2>3. /\ queue' \in Seq(WorkSet) /\ QueuedOnce'
        /\ QueuedFrames' = IF j.kind = "submit" THEN QueuedFrames \cup {j.frame}
                                                ELSE QueuedFrames
    BY <1>1, <2>1, QueueGrows
  <2> QED BY <2>2, <2>3
<1>3. CASE ~(Len(queue) < JOB_QUEUE_SIZE)
  <2>1. /\ stack' = [stack EXCEPT ![Main] = Append([@ EXCEPT ![Depth(Main)] = c], Call(j))]
        /\ UNCHANGED queue
    BY <1>3 DEF Dispatch
  <2>2. /\ stack' \in [Threads -> Seq(CallSet)] /\ StacksAreRight'
        /\ View[Main] = NoCall /\ MainCall' = c
        /\ View' = [View EXCEPT ![Main] = IF j.kind = "submit" THEN Call(j) ELSE NoCall]
    BY <1>1, <2>1, MainExecutes
  <2>3. queue' \in Seq(WorkSet) /\ QueuedOnce' /\ QueuedFrames' = QueuedFrames
    BY <1>1, <2>1 DEF Types, QueuedOnce, QueuedFrames, SubmitQueued
  <2>4. CASE j.kind = "submit"
    <3>1. IsNew(Call(j), j.frame) /\ Call(j) \in CallSet
      BY <1>1, <2>4, NewCall DEF IsNew, JobSet
    <3> QED BY <2>2, <2>3, <2>4, <3>1
  <2>5. CASE j.kind # "submit"
    <3>1. View' = View BY <2>2, <2>5 DEF View
    <3> QED BY <2>2, <2>3, <2>5, <3>1
  <2> QED BY <2>4, <2>5
<1> QED BY <1>2, <1>3

\* Compilation is not seen by the submission of frames.
LEMMA CompileIsInvisible ==
    ASSUME Threading, CompileFrameGraph
    PROVE  Threading' /\ Invisible
<1>1. /\ Types /\ StacksAreRight /\ Top(Main).pc = "compile"
      /\ Dispatch(Main, [Top(Main) EXCEPT !.pc = "compiling"],
                  Job("compile", Top(Main).job.frame, 0))
      /\ UNCHANGED <<compiled, spanInitialized, mCmdContextSinkArr, sinkVars, gpuVars>>
  BY DEF Threading, CompileFrameGraph, At
<1>2. /\ Top(Main) = MainCall /\ MainCall \in CallSet /\ MainCall.job.kind = "process"
      /\ Current \in FrameNums /\ MainCall.pc = "compile"
  BY <1>1, MainAtTop DEF MainPcs
<1> DEFINE c == [MainCall EXCEPT !.pc = "compiling"]
           j == Job("compile", Current, 0)
<1>3. c \in CallSet /\ c.pc = "compiling" /\ c.job = MainCall.job
  BY <1>2, CallGoesOn DEF MainPcs
<1>4. j \in WorkSet /\ j.kind = "compile" BY <1>2 DEF WorkSet, JobSet, Job
<1>5. Dispatch(Main, c, j) BY <1>1, <1>2 DEF Current
<1> HIDE DEF c, j
<1>6. /\ stack' \in [Threads -> Seq(CallSet)] /\ StacksAreRight' /\ MainCall' = c
      /\ queue' \in Seq(WorkSet) /\ QueuedOnce'
      /\ View' = View /\ QueuedFrames' = QueuedFrames
  BY <1>1, <1>2, <1>3, <1>4, <1>5, DispatchKeeps DEF MainPcs, Waiting
<1>7. ResetFrames' = ResetFrames /\ DispatchedFrames' = DispatchedFrames
  BY <1>2, <1>3, <1>6 DEF ResetFrames, DispatchedFrames, Current
<1>8. SinkFrames' = SinkFrames BY <1>1 DEF SinkFrames
<1>9. Types' BY <1>1, <1>6 DEF Types, sinkVars, gpuVars
<1> QED BY <1>1, <1>6, <1>7, <1>8, <1>9
        DEF Threading, Invisible, calls, main, sinks, gpu, sinkVars, gpuVars

\* Main dispatches a submission job.
LEMMA BeginIsDispatching ==
    ASSUME Threading, BeginSubmission, \A n \in QueuedFrames : n \in DispatchedFrames
    PROVE  Threading' /\ Dispatching
<1>1. /\ Types /\ StacksAreRight /\ Top(Main).pc = "compiling"
      /\ Dispatch(Main, [Top(Main) EXCEPT !.pc = "span"],
                  Job("submit", Top(Main).job.frame, 0))
      /\ UNCHANGED <<compiled, mCmdContextSinkArr, sinkVars, gpuVars>>
  BY DEF Threading, BeginSubmission, At
<1>2. /\ Top(Main) = MainCall /\ MainCall \in CallSet /\ MainCall.job.kind = "process"
      /\ Current \in FrameNums /\ MainCall.pc = "compiling"
  BY <1>1, MainAtTop DEF MainPcs
<1> DEFINE c == [MainCall EXCEPT !.pc = "span"]
           j == Job("submit", Current, 0)
<1>3. c \in CallSet /\ c.pc = "span" /\ c.job = MainCall.job
  BY <1>2, CallGoesOn DEF MainPcs
<1>4. j \in WorkSet /\ j.kind = "submit" /\ j.frame = Current
  BY <1>2 DEF WorkSet, JobSet, Job
<1>5. Dispatch(Main, c, j) BY <1>1, <1>2 DEF Current
<1> HIDE DEF c, j
<1>6. Current \in Nat BY <1>2, Constants
<1>7. Current \notin DispatchedFrames /\ Current \in ResetFrames
  BY <1>2, <1>6 DEF DispatchedFrames, ResetFrames
<1>8. j.frame \notin QueuedFrames BY <1>4, <1>7
<1>9. /\ stack' \in [Threads -> Seq(CallSet)] /\ StacksAreRight' /\ MainCall' = c
      /\ queue' \in Seq(WorkSet) /\ QueuedOnce'
      /\ \/ QueuedFrames' = QueuedFrames \cup {Current} /\ View' = View
         \/ /\ QueuedFrames' = QueuedFrames /\ View[Main] = NoCall
            /\ \E d \in CallSet : IsNew(d, Current) /\ View' = [View EXCEPT ![Main] = d]
  BY <1>1, <1>2, <1>3, <1>4, <1>5, <1>8, DispatchKeeps DEF MainPcs, Waiting
<1>10. Current' = Current BY <1>3, <1>9 DEF Current
<1>11. /\ ResetFrames' = ResetFrames
       /\ DispatchedFrames' = DispatchedFrames \cup {Current}
  BY <1>2, <1>3, <1>6, <1>9, <1>10 DEF ResetFrames, DispatchedFrames
<1>12. SinkFrames' = SinkFrames BY <1>1 DEF SinkFrames
<1>13. Types' BY <1>1, <1>9 DEF Types, sinkVars, gpuVars
<1> QED BY <1>1, <1>7, <1>9, <1>11, <1>12, <1>13
        DEF Threading, Dispatching, sinks, gpu, sinkVars, gpuVars

\* The end of Main's wait for the submission points is not seen either.
LEMMA SpanWaitIsInvisible ==
    ASSUME Threading, SpanWaitEnds
    PROVE  Threading' /\ Invisible
<1>1. /\ Types /\ StacksAreRight /\ QueuedOnce /\ Top(Main).pc = "span"
      /\ SetTop(Main, [Top(Main) EXCEPT !.pc = "modules"])
      /\ UNCHANGED <<queue, compiled, spanInitialized, mCmdContextSinkArr, sinkVars, gpuVars>>
  BY DEF Threading, SpanWaitEnds, At, Goto
<1>2. /\ Top(Main) = MainCall /\ MainCall \in CallSet /\ MainCall.job.kind = "process"
      /\ MainCall.pc = "span"
  BY <1>1, MainAtTop DEF MainPcs
<1> DEFINE c == [MainCall EXCEPT !.pc = "modules"]
<1>3. c \in CallSet /\ c.pc = "modules" /\ c.job = MainCall.job
  BY <1>2, CallGoesOn DEF MainPcs
<1> HIDE DEF c
<1>4. /\ stack' \in [Threads -> Seq(CallSet)] /\ StacksAreRight'
      /\ View' = View /\ MainCall' = c
  BY <1>1, <1>2, <1>3, MainGoesOn DEF MainPcs, c
<1>5. ResetFrames' = ResetFrames /\ DispatchedFrames' = DispatchedFrames
  BY <1>2, <1>3, <1>4 DEF ResetFrames, DispatchedFrames, Current
<1>6. QueuedOnce' /\ QueuedFrames' = QueuedFrames /\ SinkFrames' = SinkFrames
  BY <1>1 DEF QueuedOnce, QueuedFrames, SubmitQueued, SinkFrames
<1>7. Types' BY <1>1, <1>4 DEF Types, sinkVars, gpuVars
<1> QED BY <1>1, <1>4, <1>5, <1>6, <1>7
        DEF Threading, Invisible, calls, main, sinks, gpu, sinkVars, gpuVars

\* Nor are the module jobs Main dispatches.
LEMMA DispatchModuleIsInvisible ==
    ASSUME Threading, DispatchModule
    PROVE  Threading' /\ Invisible
<1>1. /\ Types /\ StacksAreRight /\ Top(Main).pc = "modules"
      /\ Top(Main).index + 1 \in Modules(Top(Main).job.frame)
      /\ Dispatch(Main, [Top(Main) EXCEPT !.index = Top(Main).index + 1],
                  Job("module", Top(Main).job.frame, Top(Main).index + 1))
      /\ UNCHANGED <<compiled, spanInitialized, mCmdContextSinkArr, sinkVars, gpuVars>>
  BY DEF Threading, DispatchModule, At
<1>2. /\ Top(Main) = MainCall /\ MainCall \in CallSet /\ MainCall.job.kind = "process"
      /\ Current \in FrameNums /\ MainCall.pc = "modules"
  BY <1>1, MainAtTop DEF MainPcs
<1> DEFINE i == MainCall.index + 1
           c == [MainCall EXCEPT !.index = i]
           j == Job("module", Current, i)
<1>3. i \in Nat BY <1>2 DEF CallSet
<1>4. c \in CallSet /\ c.pc = "modules" /\ c.job = MainCall.job
  BY <1>2, <1>3, CallCounts
<1>5. j \in WorkSet /\ j.kind = "module" BY <1>2, <1>3 DEF WorkSet, JobSet, Job
<1>6. Dispatch(Main, c, j) BY <1>1, <1>2 DEF Current
<1> HIDE DEF c, j
<1>7. /\ stack' \in [Threads -> Seq(CallSet)] /\ StacksAreRight' /\ MainCall' = c
      /\ queue' \in Seq(WorkSet) /\ QueuedOnce'
      /\ View' = View /\ QueuedFrames' = QueuedFrames
  BY <1>1, <1>2, <1>4, <1>5, <1>6, DispatchKeeps DEF MainPcs, Waiting
<1>8. ResetFrames' = ResetFrames /\ DispatchedFrames' = DispatchedFrames
  BY <1>2, <1>4, <1>7 DEF ResetFrames, DispatchedFrames, Current
<1>9. SinkFrames' = SinkFrames BY <1>1 DEF SinkFrames
<1>10. Types' BY <1>1, <1>7 DEF Types, sinkVars, gpuVars
<1> QED BY <1>1, <1>7, <1>8, <1>9, <1>10
        DEF Threading, Invisible, calls, main, sinks, gpu, sinkVars, gpuVars

\* Nor is the next frame, until its FrameGraph is reset.
LEMMA AdvanceIsInvisible ==
    ASSUME Threading, AdvanceFrame
    PROVE  Threading' /\ Invisible
<1>1. /\ Types /\ StacksAreRight /\ QueuedOnce /\ Top(Main).pc = "modules"
      /\ Top(Main).job.frame + 1 \in FrameNums
      /\ SetTop(Main, Call(Job("process", Top(Main).job.frame + 1, 0)))
      /\ UNCHANGED <<queue, compiled, spanInitialized, mCmdContextSinkArr, sinkVars, gpuVars>>
  BY DEF Threading, AdvanceFrame, At
<1>2. /\ Top(Main) = MainCall /\ Current \in FrameNums /\ MainCall.pc = "modules"
  BY <1>1, MainAtTop DEF MainPcs
<1> DEFINE j == Job("process", Current + 1, 0)
           c == Call(j)
<1>3. j \in JobSet /\ j.kind = "process" /\ j.frame = Current + 1
  BY <1>1, <1>2 DEF JobSet, Job, Current
<1>4. c \in CallSet /\ c.pc = "wait" /\ c.job = j BY <1>3, NewCall
<1>5. SetTop(Main, c) BY <1>1, <1>2 DEF Current
<1> HIDE DEF c, j
<1>6. /\ stack' \in [Threads -> Seq(CallSet)] /\ StacksAreRight'
      /\ View' = View /\ MainCall' = c
  BY <1>1, <1>2, <1>3, <1>4, <1>5, MainGoesOn DEF MainPcs
<1>7. Current' = Current + 1 /\ Current \in Nat BY <1>2, <1>3, <1>4, <1>6, Constants DEF Current
<1>8. ResetFrames' = ResetFrames /\ DispatchedFrames' = DispatchedFrames
  BY <1>2, <1>4, <1>6, <1>7 DEF ResetFrames, DispatchedFrames
<1>9. QueuedOnce' /\ QueuedFrames' = QueuedFrames /\ SinkFrames' = SinkFrames
  BY <1>1 DEF QueuedOnce, QueuedFrames, SubmitQueued, SinkFrames
<1>10. Types' BY <1>1, <1>6 DEF Types, sinkVars, gpuVars
<1> QED BY <1>1, <1>6, <1>8, <1>9, <1>10
        DEF Threading, Invisible, calls, main, sinks, gpu, sinkVars, gpuVars

\* A job is taken off the queue.
LEMMA TakingIsStarting ==
    ASSUME Threading, NEW t \in Threads, TryExecuteJob(t)
    PROVE  Threading' /\ (Invisible \/ Starting(t))
<1> DEFINE j == Head(queue)
<1>1. /\ Types /\ StacksAreRight /\ QueuedOnce
      /\ Busy(t) => Top(t).pc \in Waiting
      /\ queue # <<>> /\ queue' = Tail(queue)
      /\ stack' = [stack EXCEPT ![t] = Append(@, Call(j))]
      /\ UNCHANGED <<compiled, spanInitialized, mCmdContextSinkArr, sinkVars, gpuVars>>
  BY DEF Threading, TryExecuteJob, At, Waiting
<1>2. /\ queue' \in Seq(WorkSet) /\ QueuedOnce' /\ j \in WorkSet
      /\ j.kind = "submit" => j.frame \in QueuedFrames
      /\ QueuedFrames' = IF j.kind = "submit" THEN QueuedFrames \ {j.frame} ELSE QueuedFrames
  BY <1>1, QueueShrinks
<1> HIDE DEF j
<1>3. j \in JobSet /\ j.kind # "process" BY <1>2 DEF WorkSet
<1>4. /\ stack' \in [Threads -> Seq(CallSet)] /\ StacksAreRight'
      /\ View[t] = NoCall /\ MainCall' = MainCall
      /\ View' = [View EXCEPT ![t] = IF j.kind = "submit" THEN Call(j) ELSE NoCall]
  BY <1>1, <1>3, JobIsTaken
<1>5. ResetFrames' = ResetFrames /\ DispatchedFrames' = DispatchedFrames
      /\ SinkFrames' = SinkFrames
  BY <1>1, <1>4 DEF ResetFrames, DispatchedFrames, Current, SinkFrames
<1>6. Types' BY <1>1, <1>2, <1>4 DEF Types, sinkVars, gpuVars
<1>7. CASE j.kind = "submit"
  <2>1. IsNew(Call(j), j.frame) /\ Call(j) \in CallSet
    BY <1>3, <1>7, NewCall DEF IsNew, JobSet
  <2> QED BY <1>1, <1>2, <1>4, <1>5, <1>6, <1>7, <2>1
          DEF Threading, Starting, main, sinks, gpu, sinkVars, gpuVars
<1>8. CASE j.kind # "submit"
  <2>1. View' = View BY <1>4, <1>8 DEF View
  <2> QED BY <1>1, <1>2, <1>4, <1>5, <1>6, <1>8, <2>1
          DEF Threading, Invisible, calls, main, sinks, gpu, sinkVars, gpuVars
<1> QED BY <1>7, <1>8

\* A compilation job ends.
LEMMA CompileEndIsInvisible ==
    ASSUME Threading, NEW t \in Threads, CompileEnds(t)
    PROVE  Threading' /\ Invisible
<1>1. /\ Types /\ StacksAreRight /\ QueuedOnce /\ Busy(t) /\ Top(t).pc = "await"
      /\ Return(t)
      /\ UNCHANGED <<queue, spanInitialized, mCmdContextSinkArr, sinkVars, gpuVars>>
  BY DEF Threading, CompileEnds, At
<1>2. /\ stack' \in [Threads -> Seq(CallSet)] /\ StacksAreRight' /\ MainCall' = MainCall
      /\ View' = [View EXCEPT ![t] = NoCall] /\ View[t] = NoCall
  BY <1>1, CallEnds DEF SubmitPcs, DrainPcs
<1>3. View' = View BY <1>2 DEF View
<1>4. /\ ResetFrames' = ResetFrames /\ DispatchedFrames' = DispatchedFrames
      /\ SinkFrames' = SinkFrames /\ QueuedOnce' /\ QueuedFrames' = QueuedFrames
  BY <1>1, <1>2 DEF ResetFrames, DispatchedFrames, Current, SinkFrames, QueuedOnce,
                    QueuedFrames, SubmitQueued
<1>5. Types' BY <1>1, <1>2 DEF Types, sinkVars, gpuVars
<1> QED BY <1>1, <1>2, <1>3, <1>4, <1>5
        DEF Threading, Invisible, calls, main, sinks, gpu, sinkVars, gpuVars

\* A module's groups are stored in a sink, whose frame stays.
LEMMA SinkIsGiven ==
    ASSUME NEW r \in SinkSet, NEW i \in Nat
    PROVE  /\ [r EXCEPT !.submitted = @ \cup {i}, !.notifier = @ + 1] \in SinkSet
           /\ [r EXCEPT !.submitted = @ \cup {i}, !.notifier = @ + 1].frame = r.frame
<1> DEFINE m == r.notifier + 1
           u == r.submitted \cup {i}
<1>1. m \in Nat /\ u \in SUBSET Nat BY DEF SinkSet
<1> HIDE DEF m, u
<1>2. /\ [r EXCEPT !.submitted = u, !.notifier = m] \in SinkSet
      /\ [r EXCEPT !.submitted = u, !.notifier = m].frame = r.frame
  BY <1>1 DEF SinkSet
<1> QED BY <1>2 DEF m, u

\* A module job ends.
LEMMA ModuleEndIsInvisible ==
    ASSUME Threading, NEW t \in Threads, ModuleEnds(t)
    PROVE  Threading' /\ Invisible
<1> DEFINE s == Slot(Top(t).job.frame)
           i == Top(t).job.index
           r == [mCmdContextSinkArr[s] EXCEPT !.submitted = @ \cup {i}, !.notifier = @ + 1]
<1>1. /\ Types /\ StacksAreRight /\ QueuedOnce /\ Busy(t) /\ Top(t).pc = "await"
      /\ Return(t)
      /\ UNCHANGED <<queue, spanInitialized, sinkVars, gpuVars>>
  BY DEF Threading, ModuleEnds, At
<1>2. mCmdContextSinkArr' = [mCmdContextSinkArr EXCEPT ![s] = r]
  BY DEF ModuleEnds
<1>3. /\ stack' \in [Threads -> Seq(CallSet)] /\ StacksAreRight' /\ MainCall' = MainCall
      /\ View' = [View EXCEPT ![t] = NoCall] /\ View[t] = NoCall
  BY <1>1, CallEnds DEF SubmitPcs, DrainPcs
<1>4. View' = View BY <1>3 DEF View
<1>5. Top(t) \in CallSet BY <1>1, TopIsACall
<1>6. Top(t).job.frame \in FrameNums /\ i \in Nat BY <1>5 DEF CallSet, JobSet
<1>7. s \in Slots BY <1>6, Constants
<1>8. mCmdContextSinkArr \in [Slots -> SinkSet] BY <1>1 DEF Types
<1>9. mCmdContextSinkArr[s] \in SinkSet BY <1>7, <1>8
<1>10. r \in SinkSet /\ r.frame = mCmdContextSinkArr[s].frame
  BY <1>6, <1>9, SinkIsGiven
<1> HIDE DEF s, i, r
<1>11. mCmdContextSinkArr' \in [Slots -> SinkSet] /\ SinkFrames' = SinkFrames
  BY <1>7, <1>8, <1>10, <1>2 DEF SinkFrames
<1>12. /\ ResetFrames' = ResetFrames /\ DispatchedFrames' = DispatchedFrames
       /\ QueuedOnce' /\ QueuedFrames' = QueuedFrames
  BY <1>1, <1>3 DEF ResetFrames, DispatchedFrames, Current, QueuedOnce,
                    QueuedFrames, SubmitQueued
<1>13. Types' BY <1>1, <1>3, <1>11 DEF Types, sinkVars, gpuVars
<1> QED BY <1>1, <1>3, <1>4, <1>11, <1>12, <1>13
        DEF Threading, Invisible, calls, main, sinks, gpu, sinkVars, gpuVars

\* A submission job initializes the sink of its frame.
LEMMA InitializeIsInitializing ==
    ASSUME Threading, NEW t \in Threads, InitializeSinkForCurrentFrame(t)
    PROVE  Threading' /\ Initializing(t)
<1> DEFINE n == Top(t).job.frame
           c == [Top(t) EXCEPT !.pc = "push"]
           r == [frame |-> n, notifier |-> 0, submitted |-> {}]
<1>1. /\ Types /\ StacksAreRight /\ QueuedOnce /\ Busy(t) /\ Top(t).pc = "init"
      /\ mCmdContextSinkArr' = [mCmdContextSinkArr EXCEPT ![Slot(n)] = r]
      /\ SetTop(t, c)
      /\ UNCHANGED <<queue, compiled, sinkVars, gpuVars>>
  BY DEF Threading, InitializeSinkForCurrentFrame, At, Goto
<1>2. Top(t) \in CallSet BY <1>1, TopIsACall
<1>3. /\ c \in CallSet /\ c.pc = "push" /\ c.job = Top(t).job
      /\ c.sink = Top(t).sink /\ c.index = Top(t).index
  BY <1>2, CallGoesOn DEF SubmitPcs
<1>4. n \in FrameNums BY <1>2 DEF CallSet, JobSet
<1>5. Slot(n) \in Slots BY <1>4, Constants
<1>6. r \in SinkSet /\ r.frame = n BY <1>4 DEF SinkSet
<1>7. mCmdContextSinkArr \in [Slots -> SinkSet] BY <1>1 DEF Types
<1> HIDE DEF c, r
<1>8. /\ stack' \in [Threads -> Seq(CallSet)] /\ StacksAreRight' /\ MainCall' = MainCall
      /\ View' = [View EXCEPT ![t] = c] /\ View[t] = Top(t)
  BY <1>1, <1>3, SubmissionGoesOn DEF SubmitPcs
<1>9. /\ mCmdContextSinkArr' \in [Slots -> SinkSet]
      /\ SinkFrames' = [SinkFrames EXCEPT ![Slot(n)] = n]
  BY <1>1, <1>5, <1>6, <1>7 DEF SinkFrames
<1>10. /\ ResetFrames' = ResetFrames /\ DispatchedFrames' = DispatchedFrames
       /\ QueuedOnce' /\ QueuedFrames' = QueuedFrames
  BY <1>1, <1>8 DEF ResetFrames, DispatchedFrames, Current, QueuedOnce,
                    QueuedFrames, SubmitQueued
<1>11. Types' BY <1>1, <1>8, <1>9 DEF Types, sinkVars, gpuVars
<1>12. FreshFrame(t) = n BY <1>8 DEF FreshFrame
<1> QED BY <1>1, <1>3, <1>8, <1>9, <1>10, <1>11, <1>12
        DEF Threading, Initializing, main, gpu, sinkVars, gpuVars

\* A submission job pushes its fences, and drains unless another one does.
LEMMA PushIsPushing ==
    ASSUME Threading, NEW t \in Threads, PushFences(t)
    PROVE  Threading' /\ Pushing(t)
<1> DEFINE n == Top(t).job.frame
           c == [Top(t) EXCEPT !.pc = "load"]
<1>1. /\ Types /\ StacksAreRight /\ QueuedOnce /\ Busy(t) /\ Top(t).pc = "push"
      /\ FenceCollectionQueue' = Append(FenceCollectionQueue, n)
      /\ IF IsThreadHandlingSinks THEN Return(t) ELSE SetTop(t, c)
      /\ IsThreadHandlingSinks' = TRUE
      /\ UNCHANGED <<queue, compiled, spanInitialized, mCmdContextSinkArr, gpuVars>>
  BY DEF Threading, PushFences, At, Goto
<1>2. Top(t) \in CallSet BY <1>1, TopIsACall
<1>3. /\ c \in CallSet /\ c.pc = "load" /\ c.job = Top(t).job
      /\ c.sink = Top(t).sink /\ c.index = Top(t).index
  BY <1>2, CallGoesOn DEF SubmitPcs, DrainPcs
<1>4. n \in FrameNums BY <1>2 DEF CallSet, JobSet
<1> HIDE DEF c
<1>5. /\ stack' \in [Threads -> Seq(CallSet)] /\ StacksAreRight' /\ MainCall' = MainCall
      /\ View[t] = Top(t)
      /\ View' = IF IsThreadHandlingSinks THEN [View EXCEPT ![t] = NoCall]
                                          ELSE [View EXCEPT ![t] = c]
  <2>1. CASE IsThreadHandlingSinks
    BY <1>1, <2>1, CallEnds DEF SubmitPcs
  <2>2. CASE ~IsThreadHandlingSinks
    BY <1>1, <1>3, <2>2, SubmissionGoesOn DEF SubmitPcs, DrainPcs
  <2> QED BY <2>1, <2>2
<1>6. FenceCollectionQueue' \in Seq(FrameNums)
  BY <1>1, <1>4, AppendProperties DEF Types
<1>7. /\ ResetFrames' = ResetFrames /\ DispatchedFrames' = DispatchedFrames
      /\ QueuedOnce' /\ QueuedFrames' = QueuedFrames /\ SinkFrames' = SinkFrames
  BY <1>1, <1>5 DEF ResetFrames, DispatchedFrames, Current, QueuedOnce,
                    QueuedFrames, SubmitQueued, SinkFrames
<1>8. Types' BY <1>1, <1>5, <1>6 DEF Types, gpuVars
<1>9. FreshFrame(t) = n BY <1>5 DEF FreshFrame
<1> QED BY <1>1, <1>3, <1>5, <1>7, <1>8, <1>9
        DEF Threading, Pushing, main, gpu, gpuVars

\* What a drain reads of its sink.
LEMMA SinkOf ==
    ASSUME Types, NEW t \in Threads, Busy(t), Top(t) \in CallSet, View[t] = Top(t)
    PROVE  /\ Sink(t) \in SinkSet /\ Sink(t) = mCmdContextSinkArr[View[t].sink]
           /\ Sink(t).frame = SinkFrames[View[t].sink] /\ NumPoints(t) = ModulesOf(t)
<1>1. View[t].sink \in Slots BY DEF CallSet
<1> QED BY <1>1 DEF Types, Sink, NumPoints, ModulesOf, SinkFrames

\* The handler reads the notifier of its sink.
LEMMA LoadIsLooking ==
    ASSUME Threading, NEW t \in Threads, LoadNotifier(t)
    PROVE  Threading' /\ Looking(t)
<1> DEFINE p == IF Top(t).index < NumPoints(t) THEN "extract" ELSE "pop"
           c == [Top(t) EXCEPT !.seen = Sink(t).notifier, !.pc = p]
<1>1. /\ Types /\ StacksAreRight /\ QueuedOnce /\ Busy(t) /\ Top(t).pc = "load"
      /\ SetTop(t, c)
      /\ UNCHANGED <<queue, compiled, spanInitialized, mCmdContextSinkArr, sinkVars, gpuVars>>
  BY DEF Threading, LoadNotifier, At
<1>2. Top(t) \in CallSet BY <1>1, TopIsACall
<1>3. View[t] = Top(t)
  BY <1>1, TopIsACall, ViewOf DEF Types, Busy, SubmitPcs, DrainPcs
<1>4. /\ Sink(t) \in SinkSet /\ NumPoints(t) = ModulesOf(t)
  BY <1>1, <1>2, <1>3, SinkOf
<1>5. p \in DrainPcs BY DEF DrainPcs
<1>6. Sink(t).notifier \in Nat BY <1>4 DEF SinkSet
<1> HIDE DEF p
<1>7. /\ c \in CallSet /\ c.pc = p /\ c.job = Top(t).job
      /\ c.sink = Top(t).sink /\ c.index = Top(t).index
  <2> DEFINE d == [Top(t) EXCEPT !.seen = Sink(t).notifier]
  <2>1. /\ d \in CallSet /\ d.job = Top(t).job
        /\ d.sink = Top(t).sink /\ d.index = Top(t).index
    BY <1>2, <1>6 DEF CallSet
  <2>2. c = [d EXCEPT !.pc = p] BY Zenon
  <2> HIDE DEF c, d
  <2> QED BY <1>5, <2>1, <2>2, CallGoesOn DEF SubmitPcs
<1> HIDE DEF c
<1>8. /\ stack' \in [Threads -> Seq(CallSet)] /\ StacksAreRight' /\ MainCall' = MainCall
      /\ View' = [View EXCEPT ![t] = c]
  BY <1>1, <1>2, <1>5, <1>7, SubmissionGoesOn DEF SubmitPcs, DrainPcs
<1>9. /\ ResetFrames' = ResetFrames /\ DispatchedFrames' = DispatchedFrames
      /\ QueuedOnce' /\ QueuedFrames' = QueuedFrames /\ SinkFrames' = SinkFrames
  BY <1>1, <1>8 DEF ResetFrames, DispatchedFrames, Current, QueuedOnce,
                    QueuedFrames, SubmitQueued, SinkFrames
<1>10. Types' BY <1>1, <1>8 DEF Types, sinkVars, gpuVars
<1>11. c.pc = IF View[t].index < ModulesOf(t) THEN "extract" ELSE "pop"
  BY <1>3, <1>4, <1>7 DEF p
<1> QED BY <1>1, <1>3, <1>7, <1>8, <1>9, <1>10, <1>11
        DEF Threading, Looking, main, sinks, gpu, sinkVars, gpuVars, DrainPcs

\* The handler goes to sleep, or is woken.
LEMMA SleepIsLooking ==
    ASSUME Threading, NEW t \in Threads, FindEmptyPoint(t) \/ SinkWaitEnds(t)
    PROVE  Threading' /\ Looking(t)
<1>1. PICK p \in {"load", "sleep"} :
         /\ Types /\ StacksAreRight /\ QueuedOnce /\ Busy(t)
         /\ Top(t).pc \in {"extract", "sleep"} /\ (p = "sleep" => Top(t).pc = "extract")
         /\ SetTop(t, [Top(t) EXCEPT !.pc = p])
         /\ UNCHANGED <<queue, compiled, spanInitialized, mCmdContextSinkArr, sinkVars, gpuVars>>
  BY DEF Threading, FindEmptyPoint, SinkWaitEnds, At, Goto
<1> DEFINE c == [Top(t) EXCEPT !.pc = p]
<1>2. Top(t) \in CallSet BY <1>1, TopIsACall
<1>3. View[t] = Top(t)
  BY <1>1, TopIsACall, ViewOf DEF Types, Busy, SubmitPcs, DrainPcs
<1>4. /\ c \in CallSet /\ c.pc = p /\ c.job = Top(t).job
      /\ c.sink = Top(t).sink /\ c.index = Top(t).index
  BY <1>2, CallGoesOn DEF SubmitPcs, DrainPcs
<1>5. SetTop(t, c) BY <1>1
<1> HIDE DEF c
<1>6. /\ stack' \in [Threads -> Seq(CallSet)] /\ StacksAreRight' /\ MainCall' = MainCall
      /\ View' = [View EXCEPT ![t] = c]
  BY <1>1, <1>2, <1>4, <1>5, SubmissionGoesOn DEF SubmitPcs, DrainPcs
<1>7. /\ ResetFrames' = ResetFrames /\ DispatchedFrames' = DispatchedFrames
      /\ QueuedOnce' /\ QueuedFrames' = QueuedFrames /\ SinkFrames' = SinkFrames
  BY <1>1, <1>6 DEF ResetFrames, DispatchedFrames, Current, QueuedOnce,
                    QueuedFrames, SubmitQueued, SinkFrames
<1>8. Types' BY <1>1, <1>6 DEF Types, sinkVars, gpuVars
<1> QED BY <1>1, <1>3, <1>4, <1>6, <1>7, <1>8
        DEF Threading, Looking, main, sinks, gpu, sinkVars, gpuVars, DrainPcs

\* A submission point is extracted from a sink, whose frame stays.
LEMMA SinkIsEmptied ==
    ASSUME NEW r \in SinkSet, NEW i
    PROVE  /\ [r EXCEPT !.submitted = @ \ {i}] \in SinkSet
           /\ [r EXCEPT !.submitted = @ \ {i}].frame = r.frame
<1> DEFINE u == r.submitted \ {i}
<1>1. u \in SUBSET Nat BY DEF SinkSet
<1> HIDE DEF u
<1>2. [r EXCEPT !.submitted = u] \in SinkSet /\ [r EXCEPT !.submitted = u].frame = r.frame
  BY <1>1 DEF SinkSet
<1> QED BY <1>2 DEF u

\* The handler submits a module.
LEMMA SubmitIsSubmitting ==
    ASSUME Threading, NEW t \in Threads, SubmitNext(t),
           View[t].pc \in DrainPcs => SinkFrames[View[t].sink] \in FrameNums
    PROVE  Threading' /\ Submitting(t)
<1> DEFINE i == Top(t).index + 1
           p == IF i < NumPoints(t) THEN "extract" ELSE "pop"
           c == [Top(t) EXCEPT !.index = i, !.pc = p]
           s == Top(t).sink
           r == [Sink(t) EXCEPT !.submitted = @ \ {i}]
           w == Job("module", Sink(t).frame, i)
<1>1. /\ Types /\ StacksAreRight /\ QueuedOnce /\ Busy(t) /\ Top(t).pc = "extract"
      /\ SetTop(t, c) /\ timeline' = Append(timeline, w)
      /\ UNCHANGED <<queue, compiled, spanInitialized, sinkVars, hEvent, executed>>
  BY DEF Threading, SubmitNext, Submit, At
<1>2. mCmdContextSinkArr' = [mCmdContextSinkArr EXCEPT ![s] = r]
  <2>1. mCmdContextSinkArr' = [mCmdContextSinkArr EXCEPT ![s].submitted = @ \ {i}]
    BY DEF SubmitNext, Submit
  <2> QED BY <2>1 DEF Sink
<1>3. Top(t) \in CallSet BY <1>1, TopIsACall
<1>4. View[t] = Top(t)
  BY <1>1, TopIsACall, ViewOf DEF Types, Busy, SubmitPcs, DrainPcs
<1>5. /\ Sink(t) \in SinkSet /\ Sink(t).frame = SinkFrames[View[t].sink]
      /\ Sink(t) = mCmdContextSinkArr[s] /\ NumPoints(t) = ModulesOf(t)
  BY <1>1, <1>3, <1>4, SinkOf
<1>6. Sink(t).frame \in FrameNums BY <1>1, <1>4, <1>5 DEF DrainPcs
<1>7. i \in Nat /\ s \in Slots BY <1>3 DEF CallSet
<1>8. p \in DrainPcs BY DEF DrainPcs
<1>9. w \in Commands /\ w = Job("module", SinkFrames[View[t].sink], View[t].index + 1)
  BY <1>4, <1>5, <1>6, <1>7 DEF Commands, Job
<1>10. r \in SinkSet /\ r.frame = Sink(t).frame BY <1>5, SinkIsEmptied
<1>11. p = IF View[t].index + 1 < ModulesOf(t) THEN "extract" ELSE "pop" BY <1>4, <1>5
<1>12. i = View[t].index + 1 BY <1>4
<1> HIDE DEF i, p, r, w
<1>13. /\ c \in CallSet /\ c.pc = p /\ c.job = Top(t).job
       /\ c.sink = Top(t).sink /\ c.index = i
  <2> DEFINE d == [Top(t) EXCEPT !.index = i]
  <2>1. d \in CallSet /\ d.job = Top(t).job /\ d.sink = Top(t).sink /\ d.index = i
    BY <1>3, <1>7 DEF CallSet
  <2>2. c = [d EXCEPT !.pc = p] BY Zenon
  <2> HIDE DEF c, d
  <2> QED BY <1>8, <2>1, <2>2, CallGoesOn DEF SubmitPcs
<1> HIDE DEF c
<1>14. /\ stack' \in [Threads -> Seq(CallSet)] /\ StacksAreRight' /\ MainCall' = MainCall
       /\ View' = [View EXCEPT ![t] = c]
  BY <1>1, <1>3, <1>8, <1>13, SubmissionGoesOn DEF SubmitPcs, DrainPcs
<1>15. mCmdContextSinkArr' \in [Slots -> SinkSet] /\ SinkFrames' = SinkFrames
  BY <1>1, <1>2, <1>5, <1>7, <1>10 DEF SinkFrames, Types
<1>16. /\ ResetFrames' = ResetFrames /\ DispatchedFrames' = DispatchedFrames
       /\ QueuedOnce' /\ QueuedFrames' = QueuedFrames
  BY <1>1, <1>14 DEF ResetFrames, DispatchedFrames, Current, QueuedOnce,
                    QueuedFrames, SubmitQueued
<1>17. /\ timeline' \in Seq(Commands) /\ executed' \in 0 .. Len(timeline')
  BY <1>1, <1>9, AppendProperties DEF Types
<1>18. Types' BY <1>1, <1>14, <1>15, <1>17 DEF Types, sinkVars
<1> QED BY <1>1, <1>4, <1>9, <1>11, <1>12, <1>13, <1>14, <1>15, <1>16, <1>18
        DEF Threading, Submitting, main, sinks, sinkVars, DrainPcs

\* The handler signals the fences of a frame and goes on to the next sink.
LEMMA PopIsPopping ==
    ASSUME Threading, NEW t \in Threads, PopFences(t), FenceCollectionQueue # <<>>
    PROVE  Threading' /\ Popping(t)
<1> DEFINE s == (Top(t).sink + 1) % MAX_FRAMES_IN_FLIGHT
           c == [Top(t) EXCEPT !.sink = s, !.index = 0, !.pc = "load"]
           w == Signal(Head(FenceCollectionQueue))
           last == FenceCollectionQueue' = <<>>
<1>1. /\ Types /\ StacksAreRight /\ QueuedOnce /\ Busy(t) /\ Top(t).pc = "pop"
      /\ FenceCollectionQueue' = Tail(FenceCollectionQueue)
      /\ IsThreadHandlingSinks' = (FenceCollectionQueue' # <<>>)
      /\ timeline' = Append(timeline, w)
      /\ UNCHANGED <<queue, compiled, spanInitialized, mCmdContextSinkArr, hEvent, executed>>
  BY DEF Threading, PopFences, At
<1>2. IF last THEN Return(t) ELSE SetTop(t, c) BY DEF PopFences
<1>3. Top(t) \in CallSet BY <1>1, TopIsACall
<1>4. View[t] = Top(t)
  BY <1>1, TopIsACall, ViewOf DEF Types, Busy, SubmitPcs, DrainPcs
<1>5. s \in Slots BY <1>3, Constants DEF CallSet, Slots
<1>6. Head(FenceCollectionQueue) \in FrameNums /\ FenceCollectionQueue' \in Seq(FrameNums)
  BY <1>1, HeadTailProperties DEF Types
<1>7. w \in Commands BY <1>6 DEF Commands, Signal
<1>8. s = (View[t].sink + 1) % MAX_FRAMES_IN_FLIGHT BY <1>4
<1> HIDE DEF s, w
<1>9. /\ c \in CallSet /\ c.pc = "load" /\ c.job = Top(t).job
      /\ c.sink = s /\ c.index = 0
  <2> DEFINE d == [Top(t) EXCEPT !.sink = s]
             e == [d EXCEPT !.index = 0]
  <2>1. d \in CallSet /\ d.job = Top(t).job /\ d.sink = s BY <1>3, <1>5 DEF CallSet
  <2> HIDE DEF d
  <2>2. e \in CallSet /\ e.job = Top(t).job /\ e.sink = s /\ e.index = 0
    BY <2>1 DEF CallSet
  <2>3. c = [e EXCEPT !.pc = "load"] BY Zenon DEF d
  <2> HIDE DEF c, e
  <2> QED BY <2>2, <2>3, CallGoesOn DEF SubmitPcs, DrainPcs
<1> HIDE DEF c
<1>10. /\ stack' \in [Threads -> Seq(CallSet)] /\ StacksAreRight' /\ MainCall' = MainCall
       /\ View' = IF last THEN [View EXCEPT ![t] = NoCall] ELSE [View EXCEPT ![t] = c]
  <2>1. CASE last BY <1>1, <1>2, <2>1, CallEnds DEF SubmitPcs, DrainPcs
  <2>2. CASE ~last
    BY <1>1, <1>2, <1>3, <1>9, <2>2, SubmissionGoesOn DEF SubmitPcs, DrainPcs
  <2> QED BY <2>1, <2>2
<1>11. /\ ResetFrames' = ResetFrames /\ DispatchedFrames' = DispatchedFrames
       /\ QueuedOnce' /\ QueuedFrames' = QueuedFrames /\ SinkFrames' = SinkFrames
  BY <1>1, <1>10 DEF ResetFrames, DispatchedFrames, Current, QueuedOnce,
                    QueuedFrames, SubmitQueued, SinkFrames
<1>12. /\ timeline' \in Seq(Commands) /\ executed' \in 0 .. Len(timeline')
  BY <1>1, <1>7, AppendProperties DEF Types
<1>13. IsThreadHandlingSinks' \in BOOLEAN BY <1>1
<1>14. Types' BY <1>1, <1>6, <1>10, <1>12, <1>13 DEF Types
<1> QED BY <1>1, <1>4, <1>8, <1>9, <1>10, <1>11, <1>14
        DEF Threading, Popping, main, w

\* The GPU executes what it is given.
LEMMA GPUIsExecuting ==
    ASSUME Threading, GPUExecutes
    PROVE  Threading' /\ Executing
<1> DEFINE c == timeline[executed + 1]
<1>1. /\ Types /\ executed < Len(timeline) /\ executed' = executed + 1
      /\ hEvent' = IF c.kind = "signal" THEN [hEvent EXCEPT ![Slot(c.frame)] = TRUE]
                                         ELSE hEvent
      /\ UNCHANGED <<cpuVars, compiled, spanInitialized, mCmdContextSinkArr, sinkVars,
                     timeline>>
  BY DEF Threading, GPUExecutes
<1>2. executed + 1 \in 1 .. Len(timeline) /\ executed' \in 0 .. Len(timeline)
  BY <1>1 DEF Types
<1>3. hEvent' \in [Slots -> BOOLEAN] BY <1>1 DEF Types
<1>4. Threading'
  BY <1>1, <1>2, <1>3 DEF Threading, Types, StacksAreRight, CallIsRight, QueuedOnce,
                          SubmitQueued, cpuVars, sinkVars
<1>5. UNCHANGED <<calls, main, sinks>>
  BY <1>1 DEF calls, main, sinks, View, QueuedFrames, SubmitQueued, ResetFrames,
              DispatchedFrames, Current, MainCall, SinkFrames, cpuVars, sinkVars
<1> QED BY <1>1, <1>4, <1>5 DEF Executing

ThreadStep(t) == \/ Starting(t) \/ Initializing(t) \/ Pushing(t)
                 \/ Looking(t) \/ Submitting(t) \/ Popping(t)

\* Every step is one of these, as the submission of frames sees it.
LEMMA EveryStep ==
    ASSUME IInv, [Next]_vars
    PROVE  /\ Threading'
           /\ \/ Invisible \/ Resetting \/ Dispatching \/ Executing
              \/ \E t \in Threads : ThreadStep(t)
<1>1. Threading BY DEF IInv, Threading
<1>2. CASE UNCHANGED vars
  <2>1. Threading'
    BY <1>1, <1>2 DEF vars, sinkVars, gpuVars, Threading, Types, StacksAreRight,
                      CallIsRight, QueuedOnce, SubmitQueued
  <2>2. Invisible
    BY <1>2 DEF vars, sinkVars, gpuVars, Invisible, calls, main, sinks, gpu, View,
                QueuedFrames, SubmitQueued, ResetFrames, DispatchedFrames, Current,
                MainCall, SinkFrames
  <2> QED BY <2>1, <2>2
<1>3. CASE ProcessFrame
  <2>1. CASE ResetFrameGraph BY <1>1, <2>1, ResetIsResetting
  <2>2. CASE CompileFrameGraph BY <1>1, <2>2, CompileIsInvisible
  <2>3. CASE BeginSubmission
    <3>1. \A n \in QueuedFrames : n \in DispatchedFrames
      BY DEF IInv, Submission, SubmittedOnce, Unpushed
    <3> QED BY <1>1, <2>3, <3>1, BeginIsDispatching
  <2>4. CASE SpanWaitEnds BY <1>1, <2>4, SpanWaitIsInvisible
  <2>5. CASE DispatchModule BY <1>1, <2>5, DispatchModuleIsInvisible
  <2>6. CASE AdvanceFrame BY <1>1, <2>6, AdvanceIsInvisible
  <2> QED BY <1>3, <2>1, <2>2, <2>3, <2>4, <2>5, <2>6 DEF ProcessFrame
<1>4. ASSUME NEW t \in Threads, Execute(t)
      PROVE  Threading' /\ (Invisible \/ ThreadStep(t))
  <2>1. CASE TryExecuteJob(t) BY <1>1, <2>1, TakingIsStarting DEF ThreadStep
  <2>2. CASE CompileEnds(t) BY <1>1, <2>2, CompileEndIsInvisible
  <2>3. CASE ModuleEnds(t) BY <1>1, <2>3, ModuleEndIsInvisible
  <2>4. CASE InitializeSinkForCurrentFrame(t)
    BY <1>1, <2>4, InitializeIsInitializing DEF ThreadStep
  <2>5. CASE PushFences(t) BY <1>1, <2>5, PushIsPushing DEF ThreadStep
  <2>6. CASE LoadNotifier(t) BY <1>1, <2>6, LoadIsLooking DEF ThreadStep
  <2>7. CASE FindEmptyPoint(t) \/ SinkWaitEnds(t)
    BY <1>1, <2>7, SleepIsLooking DEF ThreadStep
  <2>8. Handling(t) => FenceCollectionQueue # <<>> /\ SinkFrames[View[t].sink] \in FrameNums
    <3>1. Handling(t) => /\ FenceCollectionQueue # <<>>
                         /\ View[t].sink = Slot(HeadFrame)
      BY DEF IInv, Submission, Handler, HandlersPiece
    <3>2. FenceCollectionQueue # <<>> => HeadFrame \in FencesOf /\ HeadFrame \in FrameNums
      BY HeadTailProperties DEF IInv, Types, HeadFrame, FencesOf
    <3> QED BY <3>1, <3>2 DEF IInv, Submission, Fences
  <2>9. CASE SubmitNext(t) BY <1>1, <2>8, <2>9, SubmitIsSubmitting DEF ThreadStep, Handling
  <2>10. CASE PopFences(t)
    <3>1. Busy(t) /\ Top(t).pc = "pop" BY <2>10 DEF PopFences, At
    <3>2. View[t] = Top(t)
      BY <1>1, <3>1, TopIsACall, ViewOf DEF Threading, Types, Busy, SubmitPcs, DrainPcs
    <3>3. FenceCollectionQueue # <<>> BY <2>8, <3>1, <3>2 DEF Handling, DrainPcs
    <3> QED BY <1>1, <2>10, <3>3, PopIsPopping DEF ThreadStep
  <2> QED BY <1>4, <2>1, <2>2, <2>3, <2>4, <2>5, <2>6, <2>7, <2>9, <2>10 DEF Execute, Drain
<1>5. CASE GPUExecutes BY <1>1, <1>5, GPUIsExecuting
<1> QED BY <1>2, <1>3, <1>4, <1>5 DEF Next

-----------------------------------------------------------------------------
(* Facts about slots, frames in flight and what the GPU was given.           *)

\* A thread is at most one of a fresh submission and a handler.
LEMMA ViewTypes ==
    ASSUME Types, NEW t \in Threads
    PROVE  /\ View[t] = NoCall \/ (View[t] \in CallSet /\ View[t].pc \in SubmitPcs)
           /\ IsFresh(t) \/ Handling(t) => View[t] \in CallSet
           /\ IsFresh(t) => FreshFrame(t) \in FrameNums /\ FreshFrame(t) = View[t].job.frame
           /\ ~(IsFresh(t) /\ Handling(t))
<1>1. View[t] = NoCall \/ (View[t] \in CallSet /\ View[t].pc \in SubmitPcs)
  BY ViewOf DEF Types
<1>2. NoCall.pc = "none" BY DEF NoCall
<1>3. IsFresh(t) \/ Handling(t) => View[t] \in CallSet
  BY <1>1, <1>2 DEF IsFresh, Handling, DrainPcs
<1> QED BY <1>1, <1>3 DEF IsFresh, Handling, FreshFrame, DrainPcs, CallSet, JobSet

\* The view of one thread changes.
LEMMA ViewChanges ==
    ASSUME NEW t \in Threads, NEW c, View' = [View EXCEPT ![t] = c]
    PROVE  \A u \in Threads : View'[u] = IF u = t THEN c ELSE View[u]
BY DEF View

\* Frames in flight at once have slots of their own.
LEMMA SlotsDiffer ==
    ASSUME MAX_FRAMES_IN_FLIGHT <= 2, NEW a \in Nat, NEW b \in Nat, a < b,
           b < a + MAX_FRAMES_IN_FLIGHT
    PROVE  Slot(a) # Slot(b) /\ Slot(b) = (Slot(a) + 1) % MAX_FRAMES_IN_FLIGHT
           /\ Slot(a) = (Slot(b) + 1) % MAX_FRAMES_IN_FLIGHT
<1>1. MAX_FRAMES_IN_FLIGHT = 2 BY Constants
<1>2. b = a + 1 BY <1>1
<1> QED BY <1>1, <1>2 DEF Slot

\* The slot of a frame is used again MAX_FRAMES_IN_FLIGHT frames later.
LEMMA SlotReturns ==
    ASSUME MAX_FRAMES_IN_FLIGHT <= 2, NEW a \in Nat
    PROVE  Slot(a + MAX_FRAMES_IN_FLIGHT) = Slot(a)
<1>1. MAX_FRAMES_IN_FLIGHT = 1 \/ MAX_FRAMES_IN_FLIGHT = 2 BY Constants
<1> QED BY <1>1 DEF Slot

\* A dispatched frame without its signal is in flight.
LEMMA PendingIsInFlight ==
    ASSUME Types, StacksAreRight, Resets, NEW n \in Pending
    PROVE  n \in ResetFrames /\ n \in Nat /\ n \in FrameNums
           /\ n + MAX_FRAMES_IN_FLIGHT \notin ResetFrames
<1>1. n \in ResetFrames /\ n \in FrameNums /\ n \in Nat
  BY FramesInOrder, Constants DEF Pending
<1>2. n \notin CompletedFrames BY DEF Pending, CompletedFrames, SignalledFrames
<1>3. ASSUME n + MAX_FRAMES_IN_FLIGHT \in ResetFrames PROVE FALSE
  <2>1. n + MAX_FRAMES_IN_FLIGHT >= MAX_FRAMES_IN_FLIGHT
        /\ (n + MAX_FRAMES_IN_FLIGHT) - MAX_FRAMES_IN_FLIGHT = n
    BY <1>1, Constants
  <2> QED BY <1>2, <1>3, <2>1 DEF Resets
<1> QED BY <1>1, <1>3

\* Two frames whose FrameGraphs are both in use have different slots.
LEMMA InFlightDiffer ==
    ASSUME Types, StacksAreRight, MAX_FRAMES_IN_FLIGHT <= 2,
           NEW a \in ResetFrames, a + MAX_FRAMES_IN_FLIGHT \notin ResetFrames,
           NEW b \in ResetFrames, b + MAX_FRAMES_IN_FLIGHT \notin ResetFrames, a # b
    PROVE  /\ Slot(a) # Slot(b)
           /\ Slot(b) = (Slot(a) + 1) % MAX_FRAMES_IN_FLIGHT
<1>1. a \in Nat /\ b \in Nat BY FramesInOrder, Constants
<1>2. a < b + MAX_FRAMES_IN_FLIGHT /\ b < a + MAX_FRAMES_IN_FLIGHT
  <2>1. a + MAX_FRAMES_IN_FLIGHT \in Nat /\ b + MAX_FRAMES_IN_FLIGHT \in Nat
    BY <1>1, Constants
  <2>2. ~(a + MAX_FRAMES_IN_FLIGHT <= b) /\ ~(b + MAX_FRAMES_IN_FLIGHT <= a)
    BY <2>1, FramesInOrder
  <2> QED BY <1>1, <2>1, <2>2
<1>3. CASE a < b BY <1>1, <1>2, <1>3, SlotsDiffer
<1>4. CASE b < a BY <1>1, <1>2, <1>4, SlotsDiffer
<1> QED BY <1>1, <1>3, <1>4

\* Signals are there to stay.
LEMMA SignalsGrow ==
    ASSUME Types, NEW w \in Commands, timeline' = Append(timeline, w),
           executed' = executed
    PROVE  /\ CompletedFrames' = CompletedFrames
           /\ SignalledFrames' = SignalledFrames \cup {n \in FrameNums : w = Signal(n)}
           /\ timeline' \in Seq(Commands) /\ Len(timeline') = Len(timeline) + 1
           /\ Len(timeline) \in Nat
           /\ \A k \in 1 .. Len(timeline) : timeline'[k] = timeline[k]
           /\ timeline'[Len(timeline) + 1] = w
<1>1. timeline \in Seq(Commands) /\ Len(timeline) \in Nat /\ executed \in 0 .. Len(timeline)
  BY DEF Types
<1>2. /\ timeline' \in Seq(Commands) /\ Len(timeline') = Len(timeline) + 1
      /\ \A k \in 1 .. Len(timeline) : timeline'[k] = timeline[k]
      /\ timeline'[Len(timeline) + 1] = w
  BY <1>1, AppendProperties
<1> DEFINE len == Len(timeline)
<1>3. 1 .. Len(timeline') = 1 .. len \cup {len + 1} BY <1>1, <1>2
<1>4. \A k \in 1 .. Len(timeline') : k <= executed => k \in 1 .. len BY <1>1, <1>3
<1>5. CompletedFrames' = CompletedFrames
  BY <1>2, <1>3, <1>4 DEF CompletedFrames
<1>6. SignalledFrames' = SignalledFrames \cup {n \in FrameNums : w = Signal(n)}
  BY <1>2, <1>3 DEF SignalledFrames
<1> QED BY <1>1, <1>2, <1>5, <1>6

\* What is of no concern to a frame leaves its piece in place.
LEMMA InFrontStays ==
    ASSUME NEW s \in Seq(Commands), NEW w \in Commands, NEW n \in FrameNums,
           ~(w.kind = "module" /\ w.frame = n), NEW k \in 1 .. Len(s) + 1, NEW m \in Nat,
           InFront(s, k, n, m)
    PROVE  InFront(Append(s, w), k, n, m)
<1> DEFINE r == Append(s, w)
<1>1. /\ Len(s) \in Nat /\ Len(r) = Len(s) + 1
      /\ \A i \in 1 .. Len(s) : r[i] = s[i]
      /\ r[Len(s) + 1] = w
  BY AppendProperties
<1> HIDE DEF r
<1>2. m < k BY DEF InFront
<1>3. ASSUME NEW j \in 1 .. m PROVE r[k - m - 1 + j] = Job("module", n, j)
  <2>1. k - m - 1 + j \in 1 .. Len(s) BY <1>1, <1>2
  <2> QED BY <1>1, <2>1 DEF InFront
<1>4. ASSUME NEW l \in 1 .. Len(r), r[l].kind = "module", r[l].frame = n
      PROVE  l \in k - m .. k - 1
  <2>1. l \in 1 .. Len(s) BY <1>1, <1>4
  <2> QED BY <1>1, <1>4, <2>1 DEF InFront
<1> QED BY <1>2, <1>3, <1>4 DEF InFront, r

\* The next module of a frame lengthens its piece.
LEMMA InFrontGrows ==
    ASSUME NEW s \in Seq(Commands), NEW n \in FrameNums, NEW m \in Nat,
           InFront(s, Len(s) + 1, n, m)
    PROVE  InFront(Append(s, Job("module", n, m + 1)), Len(s) + 2, n, m + 1)
<1> DEFINE w == Job("module", n, m + 1)
           r == Append(s, w)
<1>1. w \in Commands BY DEF Commands, Job
<1> HIDE DEF w
<1>2. /\ Len(s) \in Nat /\ Len(r) = Len(s) + 1
      /\ \A i \in 1 .. Len(s) : r[i] = s[i]
      /\ r[Len(s) + 1] = w
  BY <1>1, AppendProperties
<1> HIDE DEF r
<1>3. m < Len(s) + 1 BY DEF InFront
<1>4. Len(s) \in Nat BY <1>2
<1>5. ASSUME NEW j \in 1 .. m + 1
      PROVE  r[(Len(s) + 2) - (m + 1) - 1 + j] = Job("module", n, j)
  <2>1. (Len(s) + 2) - (m + 1) - 1 + j = Len(s) + 1 - m - 1 + j BY <1>4
  <2>2. CASE j = m + 1
    <3>1. Len(s) + 1 - m - 1 + j = Len(s) + 1 BY <1>2, <2>2
    <3> QED BY <1>2, <2>1, <2>2, <3>1 DEF w
  <2>3. CASE j # m + 1
    <3>1. j \in 1 .. m /\ Len(s) + 1 - m - 1 + j \in 1 .. Len(s) BY <1>2, <1>3, <2>3
    <3> QED BY SMTT(15), <1>2, <2>1, <3>1 DEF InFront
  <2> QED BY <2>2, <2>3
<1>6. ASSUME NEW l \in 1 .. Len(r), r[l].kind = "module", r[l].frame = n
      PROVE  l \in (Len(s) + 2) - (m + 1) .. (Len(s) + 2) - 1
  <2>1. CASE l = Len(s) + 1 BY <1>2, <2>1
  <2>2. CASE l # Len(s) + 1
    <3>1. l \in 1 .. Len(s) BY <1>2, <2>2
    <3>2. l \in Len(s) + 1 - m .. Len(s) + 1 - 1 BY <1>2, <1>6, <3>1 DEF InFront
    <3> QED BY <1>2, <3>2
  <2> QED BY <2>1, <2>2
<1>7. m + 1 < Len(s) + 2 BY <1>3, <1>4
<1>8. InFront(r, Len(s) + 2, n, m + 1) BY <1>5, <1>6, <1>7 DEF InFront
<1> QED BY <1>8 DEF r, w

\* A piece without modules.
LEMMA InFrontStarts ==
    ASSUME NEW s \in Seq(Commands), NEW n \in FrameNums, NoModules(s, n)
    PROVE  InFront(s, Len(s) + 1, n, 0)
BY DEF InFront, NoModules

\* What is of no concern to a frame does not begin its piece.
LEMMA NoModulesStays ==
    ASSUME NEW s \in Seq(Commands), NEW w \in Commands, NEW n \in FrameNums,
           ~(w.kind = "module" /\ w.frame = n), NoModules(s, n)
    PROVE  NoModules(Append(s, w), n)
<1>1. /\ Len(s) \in Nat /\ Len(Append(s, w)) = Len(s) + 1
      /\ \A i \in 1 .. Len(s) : Append(s, w)[i] = s[i]
      /\ Append(s, w)[Len(s) + 1] = w
  BY AppendProperties
<1> DEFINE r == Append(s, w)
<1> HIDE DEF r
<1>2. 1 .. Len(s) + 1 = 1 .. Len(s) \cup {Len(s) + 1} BY <1>1
<1> QED BY <1>1, <1>2 DEF NoModules, r

\* Where the modules of a frame are.
LEMMA InFrontPlaces ==
    ASSUME NEW s \in Seq(Commands), NEW n \in FrameNums, NEW m \in Nat,
           NEW k \in 1 .. Len(s) + 1, InFront(s, k, n, m),
           NEW l \in 1 .. Len(s), NEW i \in Nat
    PROVE  s[l] = Job("module", n, i) <=> i \in 1 .. m /\ l = k - m - 1 + i
<1>1. ASSUME s[l] = Job("module", n, i) PROVE i \in 1 .. m /\ l = k - m - 1 + i
  <2>1. s[l].kind = "module" /\ s[l].frame = n /\ s[l].index = i BY <1>1 DEF Job
  <2>2. l \in k - m .. k - 1 BY <2>1 DEF InFront
  <2>3. PICK j \in Nat : j = l - (k - m - 1) BY <2>2
  <2>4. j \in 1 .. m /\ l = k - m - 1 + j BY <2>2, <2>3
  <2>5. s[l] = Job("module", n, j) BY <2>4 DEF InFront
  <2>6. i = j BY <2>1, <2>5 DEF Job
  <2> QED BY <2>4, <2>6
<1> QED BY <1>1 DEF InFront

-----------------------------------------------------------------------------
(* Every step keeps the invariant.                                           *)

\* What is not seen changes nothing.
LEMMA InvisibleKeeps ==
    ASSUME Submission, Invisible
    PROVE  Submission'
<1> USE DEF Invisible, calls, main, sinks, gpu
<1>1. SubmittedOnce'
  BY DEF Submission, SubmittedOnce, IsFresh, FreshFrame, Unpushed, FencesOf, SignalledFrames
<1>2. Fences' BY DEF Submission, Fences, FencesOf, Pending, SignalledFrames
<1>3. SignalsOnce' BY DEF Submission, SignalsOnce, SignalledFrames
<1>4. Resets' BY DEF Submission, Resets, CompletedFrames
<1>5. Handler' BY DEF Submission, Handler, Handling
<1>6. Pieces' BY DEF Submission, Pieces, SignalledFrames, HeadFrame
<1>7. HandlersPiece' BY DEF Submission, HandlersPiece, Handling, HeadFrame
<1> QED BY <1>1, <1>2, <1>3, <1>4, <1>5, <1>6, <1>7 DEF Submission

\* A FrameGraph is reset: its event was set by its last frame's signal.
LEMMA ResettingKeeps ==
    ASSUME IInv, MAX_FRAMES_IN_FLIGHT <= 2, Resetting
    PROVE  Submission'
<1>1. PICK n \in FrameNums :
         /\ ResetFrames = 0 .. n - 1 /\ ResetFrames' = ResetFrames \cup {n}
         /\ hEvent[Slot(n)] /\ hEvent' = [hEvent EXCEPT ![Slot(n)] = FALSE]
         /\ UNCHANGED <<DispatchedFrames, calls, sinks, timeline, executed>>
  BY DEF Resetting
<1> USE DEF calls, sinks
<1>2. SubmittedOnce'
  BY <1>1 DEF IInv, Submission, SubmittedOnce, IsFresh, FreshFrame, Unpushed, FencesOf,
              SignalledFrames
<1>3. Fences' BY <1>1 DEF IInv, Submission, Fences, FencesOf, Pending, SignalledFrames
<1>4. SignalsOnce' BY <1>1 DEF IInv, Submission, SignalsOnce, SignalledFrames
<1>5. Handler' BY <1>1 DEF IInv, Submission, Handler, Handling
<1>6. Pieces' BY <1>1 DEF IInv, Submission, Pieces, SignalledFrames, HeadFrame
<1>7. HandlersPiece' BY <1>1 DEF IInv, Submission, HandlersPiece, Handling, HeadFrame
<1>8. Resets'
  <2>1. CompletedFrames' = CompletedFrames BY <1>1 DEF CompletedFrames
  <2>2. n \in Nat BY Constants
  <2>3. ASSUME NEW m \in ResetFrames', m >= MAX_FRAMES_IN_FLIGHT
        PROVE  m - MAX_FRAMES_IN_FLIGHT \in CompletedFrames
    <3>1. CASE m \in ResetFrames BY <2>3, <3>1 DEF IInv, Submission, Resets
    <3>2. CASE m = n
      <4>1. PICK p \in Nat : p = n - MAX_FRAMES_IN_FLIGHT
        BY <2>2, <2>3, <3>2, Constants
      <4>2. p + MAX_FRAMES_IN_FLIGHT = n /\ p \in ResetFrames
        BY <1>1, <2>2, <4>1, Constants
      <4>3. Slot(p) = Slot(n) BY <4>2, SlotReturns
      <4>4. n \notin ResetFrames BY <1>1, <2>2
      <4> QED BY <1>1, <3>2, <4>1, <4>2, <4>3, <4>4 DEF IInv, Submission, Resets
    <3> QED BY <1>1, <3>1, <3>2
  <2>4. ASSUME NEW m \in ResetFrames', m + MAX_FRAMES_IN_FLIGHT \notin ResetFrames',
               hEvent'[Slot(m)]
        PROVE  m \in CompletedFrames
    <3>1. hEvent \in [Slots -> BOOLEAN] BY DEF IInv, Types
    <3>2. ResetFrames \subseteq FrameNums BY FramesInOrder DEF IInv
    <3>3. m \in FrameNums BY <1>1, <3>2
    <3>4. Slot(m) \in Slots /\ Slot(n) \in Slots BY <3>3, Constants
    <3>5. Slot(m) # Slot(n) BY <1>1, <2>4, <3>1, <3>4
    <3>6. m \in ResetFrames /\ m + MAX_FRAMES_IN_FLIGHT \notin ResetFrames
          /\ hEvent[Slot(m)]
      BY <1>1, <2>4, <3>1, <3>4, <3>5
    <3> QED BY <3>6 DEF IInv, Submission, Resets
  <2> QED BY <2>1, <2>3, <2>4 DEF Resets
<1> QED BY <1>2, <1>3, <1>4, <1>5, <1>6, <1>7, <1>8 DEF Submission

\* The parts that what happens before a submission job's first step leaves alone.
LEMMA JobsMoveKeeps ==
    ASSUME IInv, UNCHANGED <<ResetFrames, sinks, gpu>>,
           DispatchedFrames \subseteq DispatchedFrames',
           \A t \in Threads : Handling(t) \/ Handling(t)' => View'[t] = View[t]
    PROVE  Fences' /\ SignalsOnce' /\ Resets' /\ Handler' /\ Pieces' /\ HandlersPiece'
<1> USE DEF sinks, gpu
<1>1. Fences' BY DEF IInv, Submission, Fences, FencesOf, Pending, SignalledFrames
<1>2. SignalsOnce' BY DEF IInv, Submission, SignalsOnce, SignalledFrames
<1>3. Resets' BY DEF IInv, Submission, Resets, CompletedFrames
<1>4. \A t \in Threads : Handling(t)' <=> Handling(t) BY DEF Handling
<1>5. Handler' BY <1>4 DEF IInv, Submission, Handler
<1>6. Pieces' BY DEF IInv, Submission, Pieces, SignalledFrames, HeadFrame
<1>7. HandlersPiece' BY <1>4 DEF IInv, Submission, HandlersPiece, HeadFrame
<1> QED BY <1>1, <1>2, <1>3, <1>5, <1>6, <1>7

\* A frame becomes pending.
LEMMA DispatchingKeeps ==
    ASSUME IInv, Dispatching
    PROVE  Submission'
<1>1. PICK n \in ResetFrames :
         /\ n \notin DispatchedFrames /\ DispatchedFrames' = DispatchedFrames \cup {n}
         /\ \/ QueuedFrames' = QueuedFrames \cup {n} /\ View' = View
            \/ /\ QueuedFrames' = QueuedFrames /\ View[Main] = NoCall
               /\ \E c \in CallSet : IsNew(c, n) /\ View' = [View EXCEPT ![Main] = c]
         /\ UNCHANGED <<ResetFrames, sinks, gpu>>
  BY DEF Dispatching
<1>2. FencesOf' = FencesOf /\ SignalledFrames' = SignalledFrames /\ SinkFrames' = SinkFrames
  BY <1>1 DEF FencesOf, SignalledFrames, sinks, gpu
<1>3. n \notin FencesOf /\ n \notin SignalledFrames /\ n \notin QueuedFrames
  BY <1>1 DEF IInv, Submission, Fences, SignalsOnce, SubmittedOnce, Unpushed, Pending
<1>4. Unpushed' = Unpushed \cup {n} BY <1>1, <1>2, <1>3 DEF Unpushed
<1>5. \A t \in Threads : IsFresh(t) => FreshFrame(t) # n
  BY <1>1 DEF IInv, Submission, SubmittedOnce, Unpushed
<1>6. CASE QueuedFrames' = QueuedFrames \cup {n} /\ View' = View
  <2>1. SubmittedOnce'
    BY <1>2, <1>4, <1>5, <1>6 DEF IInv, Submission, SubmittedOnce, IsFresh, FreshFrame
  <2>2. \A t \in Threads : View'[t] = View[t] BY <1>6
  <2> QED BY <1>1, <2>1, <2>2, JobsMoveKeeps DEF Submission
<1>7. ASSUME NEW c \in CallSet, IsNew(c, n), View' = [View EXCEPT ![Main] = c],
             QueuedFrames' = QueuedFrames, View[Main] = NoCall
      PROVE  Submission'
  <2>1. /\ Main \in Threads
        /\ \A u \in Threads : View'[u] = IF u = Main THEN c ELSE View[u]
    BY <1>7, ViewChanges, Constants
  <2>2. c.pc = "init" /\ c.job.frame = n /\ c.sink = Slot(n) /\ c.index = 0
    BY <1>7 DEF IsNew
  <2>3. View[Main].pc = "none" BY <1>7 DEF NoCall
  <2>4. ASSUME NEW t \in Threads, Handling(t) \/ Handling(t)' PROVE View'[t] = View[t]
    BY <2>1, <2>2, <2>3, <2>4 DEF Handling, DrainPcs
  <2>5. ASSUME NEW t \in Threads
        PROVE  /\ IsFresh(t)' <=> t = Main \/ IsFresh(t)
               /\ t # Main => View'[t] = View[t] /\ FreshFrame(t)' = FreshFrame(t)
               /\ t = Main => View'[t] = c /\ FreshFrame(t)' = n
    BY <2>1, <2>2 DEF IsFresh, FreshFrame
  <2>6. SubmittedOnce'
    <3>1. QueuedFrames' \subseteq Unpushed' BY <1>4, <1>7 DEF IInv, Submission, SubmittedOnce
    <3>2. ASSUME NEW t \in Threads, IsFresh(t)'
          PROVE  /\ FreshFrame(t)' \in Unpushed' \ QueuedFrames'
                 /\ View'[t].sink = Slot(FreshFrame(t)') /\ View'[t].index = 0
                 /\ View'[t].pc = "push" => SinkFrames'[Slot(FreshFrame(t)')] = FreshFrame(t)'
      <4>1. CASE t = Main BY <1>3, <1>4, <1>7, <2>2, <2>5, <4>1
      <4>2. CASE t # Main
        BY <1>2, <1>4, <1>7, <2>5, <3>2, <4>2 DEF IInv, Submission, SubmittedOnce
      <4> QED BY <4>1, <4>2
    <3>3. ASSUME NEW t \in Threads, NEW u \in Threads, IsFresh(t)', IsFresh(u)',
                 FreshFrame(t)' = FreshFrame(u)'
          PROVE  t = u
      BY <1>5, <2>5, <3>3 DEF IInv, Submission, SubmittedOnce
    <3> QED BY <3>1, <3>2, <3>3 DEF SubmittedOnce, FreshFrame, IsFresh
  <2> QED BY <1>1, <2>4, <2>6, JobsMoveKeeps DEF Submission
<1> QED BY <1>1, <1>6, <1>7

\* A submission job goes from the queue to a thread.
LEMMA StartingKeeps ==
    ASSUME IInv, NEW t \in Threads, Starting(t)
    PROVE  Submission'
<1>1. PICK n \in QueuedFrames :
         /\ QueuedFrames' = QueuedFrames \ {n} /\ View[t] = NoCall
         /\ \E c \in CallSet : IsNew(c, n) /\ View' = [View EXCEPT ![t] = c]
         /\ UNCHANGED <<main, sinks, gpu>>
  BY DEF Starting
<1>2. PICK c \in CallSet : IsNew(c, n) /\ View' = [View EXCEPT ![t] = c]
  BY <1>1
<1>3. \A u \in Threads : View'[u] = IF u = t THEN c ELSE View[u]
  BY <1>2, ViewChanges
<1>4. c.pc = "init" /\ c.job.frame = n /\ c.sink = Slot(n) /\ c.index = 0
  BY <1>2 DEF IsNew
<1>5. View[t].pc = "none" BY <1>1 DEF NoCall
<1>6. Unpushed' = Unpushed /\ SinkFrames' = SinkFrames
  BY <1>1 DEF Unpushed, FencesOf, SignalledFrames, main, sinks, gpu
<1>7. ASSUME NEW u \in Threads, Handling(u) \/ Handling(u)' PROVE View'[u] = View[u]
  BY <1>3, <1>4, <1>5, <1>7 DEF Handling, DrainPcs
<1>8. ASSUME NEW u \in Threads
      PROVE  /\ IsFresh(u)' <=> u = t \/ IsFresh(u)
             /\ u # t => View'[u] = View[u] /\ FreshFrame(u)' = FreshFrame(u)
             /\ u = t => View'[u] = c /\ FreshFrame(u)' = n
  BY <1>3, <1>4 DEF IsFresh, FreshFrame
<1>9. SubmittedOnce'
  <2>1. QueuedFrames' \subseteq Unpushed' /\ n \in Unpushed
    BY <1>1, <1>6 DEF IInv, Submission, SubmittedOnce
  <2>2. ASSUME NEW u \in Threads, IsFresh(u)'
        PROVE  /\ FreshFrame(u)' \in Unpushed' \ QueuedFrames'
               /\ View'[u].sink = Slot(FreshFrame(u)') /\ View'[u].index = 0
               /\ View'[u].pc = "push" => SinkFrames'[Slot(FreshFrame(u)')] = FreshFrame(u)'
    <3>1. CASE u = t BY <1>1, <1>4, <1>6, <1>8, <2>1, <3>1
    <3>2. CASE u # t
      BY <1>1, <1>6, <1>8, <2>2, <3>2 DEF IInv, Submission, SubmittedOnce
    <3> QED BY <3>1, <3>2
  <2>3. \A u \in Threads : IsFresh(u) => FreshFrame(u) # n
    BY <1>1 DEF IInv, Submission, SubmittedOnce
  <2>4. ASSUME NEW u \in Threads, NEW v \in Threads, IsFresh(u)', IsFresh(v)',
               FreshFrame(u)' = FreshFrame(v)'
        PROVE  u = v
    BY <1>8, <2>3, <2>4 DEF IInv, Submission, SubmittedOnce
  <2> QED BY <2>1, <2>2, <2>4 DEF SubmittedOnce, FreshFrame, IsFresh
<1> QED BY <1>1, <1>7, <1>9, JobsMoveKeeps DEF Submission, main

\* A sink is initialized: no other pending frame has that slot.
LEMMA InitializingKeeps ==
    ASSUME IInv, MAX_FRAMES_IN_FLIGHT <= 2, NEW t \in Threads, Initializing(t)
    PROVE  Submission'
<1> DEFINE n == FreshFrame(t)
<1>1. /\ View[t].pc = "init" /\ IsFresh(t)
      /\ SinkFrames' = [SinkFrames EXCEPT ![Slot(n)] = n]
      /\ UNCHANGED <<QueuedFrames, main, FenceCollectionQueue, IsThreadHandlingSinks, gpu>>
  BY DEF Initializing, IsFresh
<1>2. PICK c \in CallSet :
         /\ c.pc = "push" /\ c.job = View[t].job
         /\ c.sink = View[t].sink /\ c.index = View[t].index
         /\ View' = [View EXCEPT ![t] = c]
  BY DEF Initializing
<1>3. \A u \in Threads : View'[u] = IF u = t THEN c ELSE View[u]
  BY <1>2, ViewChanges
<1>4. /\ n \in Unpushed \ QueuedFrames /\ n = View[t].job.frame
      /\ View[t].sink = Slot(n) /\ View[t].index = 0
  BY <1>1 DEF IInv, Submission, SubmittedOnce, FreshFrame
<1>5. /\ UNCHANGED <<Unpushed, Pending, FencesOf, SignalledFrames, CompletedFrames, HeadFrame>>
      /\ UNCHANGED <<QueuedFrames, ResetFrames, DispatchedFrames, hEvent, timeline>>
  BY <1>1 DEF Unpushed, Pending, FencesOf, SignalledFrames, CompletedFrames, HeadFrame,
              main, gpu
<1>6. ASSUME NEW u \in Threads
      PROVE  /\ (IsFresh(u)' <=> IsFresh(u)) /\ (Handling(u)' <=> Handling(u))
             /\ u # t => View'[u] = View[u]
             /\ u = t => View'[u] = c /\ ~Handling(u)
             /\ FreshFrame(u)' = FreshFrame(u)
  BY <1>1, <1>2, <1>3 DEF IsFresh, FreshFrame, Handling, DrainPcs
<1>7. n \in FrameNums /\ Slot(n) \in Slots BY <1>1, ViewTypes, Constants DEF IInv
<1> HIDE DEF n
\* The other frames that are about to be submitted have other sinks.
<1>8. ASSUME NEW m \in Pending, m # n
      PROVE  SinkFrames'[Slot(m)] = SinkFrames[Slot(m)]
  <2>1. n \in Pending BY <1>4 DEF Unpushed, Pending
  <2>2. m \in FrameNums /\ Slot(m) \in Slots
    BY PendingIsInFlight, Constants DEF IInv, Submission
  <2>3. Slot(m) # Slot(n)
    BY <1>8, <2>1, PendingIsInFlight, InFlightDiffer DEF IInv, Submission
  <2> QED BY <1>1, <2>2, <2>3 DEF SinkFrames
<1>9. SinkFrames'[Slot(n)] = n BY <1>1, <1>7 DEF SinkFrames
<1>10. SubmittedOnce'
  <2>1. QueuedFrames' \subseteq Unpushed' BY <1>5 DEF IInv, Submission, SubmittedOnce
  <2>2. ASSUME NEW u \in Threads, IsFresh(u)'
        PROVE  /\ FreshFrame(u)' \in Unpushed' \ QueuedFrames'
               /\ View'[u].sink = Slot(FreshFrame(u)') /\ View'[u].index = 0
               /\ View'[u].pc = "push" => SinkFrames'[Slot(FreshFrame(u)')] = FreshFrame(u)'
    <3>1. CASE u = t BY <1>2, <1>4, <1>5, <1>6, <1>9, <3>1 DEF n
    <3>2. CASE u # t
      <4>1. IsFresh(u) /\ FreshFrame(u) \in Unpushed BY <1>6, <2>2 DEF IInv, Submission, SubmittedOnce
      <4>2. FreshFrame(u) # n
        BY <1>1, <3>2, <4>1 DEF IInv, Submission, SubmittedOnce, n
      <4>3. SinkFrames'[Slot(FreshFrame(u))] = SinkFrames[Slot(FreshFrame(u))]
        BY <1>8, <4>1, <4>2 DEF Unpushed, Pending
      <4> QED BY <1>5, <1>6, <3>2, <4>1, <4>3 DEF IInv, Submission, SubmittedOnce
    <3> QED BY <3>1, <3>2
  <2>3. ASSUME NEW u \in Threads, NEW v \in Threads, IsFresh(u)', IsFresh(v)',
               FreshFrame(u)' = FreshFrame(v)'
        PROVE  u = v
    BY <1>6, <2>3 DEF IInv, Submission, SubmittedOnce
  <2> QED BY <2>1, <2>2, <2>3 DEF SubmittedOnce, FreshFrame, IsFresh
<1>11. Fences'
  <2>1. ASSUME NEW m \in FencesOf PROVE SinkFrames'[Slot(m)] = m
    <3>1. m \in Pending /\ SinkFrames[Slot(m)] = m /\ m # n
      BY <1>4 DEF IInv, Submission, Fences, Unpushed
    <3> QED BY <1>8, <3>1
  <2> QED BY <1>1, <1>5, <2>1 DEF IInv, Submission, Fences
<1>12. SignalsOnce' BY <1>5 DEF IInv, Submission, SignalsOnce
<1>13. Resets' BY <1>5 DEF IInv, Submission, Resets
<1>14. Handler' BY <1>1, <1>6 DEF IInv, Submission, Handler
<1>15. Pieces' BY <1>5 DEF IInv, Submission, Pieces
<1>16. HandlersPiece' BY <1>5, <1>6 DEF IInv, Submission, HandlersPiece
<1> QED BY <1>10, <1>11, <1>12, <1>13, <1>14, <1>15, <1>16 DEF Submission

\* A frame joins the queued fences.
LEMMA FencesGrow ==
    ASSUME Types, NEW n \in FrameNums, n \notin FencesOf,
           FenceCollectionQueue' = Append(FenceCollectionQueue, n),
           \A k, l \in 1 .. Len(FenceCollectionQueue) :
               FenceCollectionQueue[k] = FenceCollectionQueue[l] => k = l
    PROVE  /\ FencesOf' = FencesOf \cup {n}
           /\ \A k, l \in 1 .. Len(FenceCollectionQueue') :
                  FenceCollectionQueue'[k] = FenceCollectionQueue'[l] => k = l
           /\ FenceCollectionQueue' # <<>>
           /\ HeadFrame' = IF FenceCollectionQueue = <<>> THEN n ELSE HeadFrame
<1> DEFINE len == Len(FenceCollectionQueue)
<1>1. FenceCollectionQueue \in Seq(FrameNums) /\ len \in Nat BY DEF Types
<1>2. /\ FenceCollectionQueue' \in Seq(FrameNums) /\ Len(FenceCollectionQueue') = len + 1
      /\ \A k \in 1 .. len : FenceCollectionQueue'[k] = FenceCollectionQueue[k]
      /\ FenceCollectionQueue'[len + 1] = n
  BY <1>1, AppendProperties
<1>3. 1 .. Len(FenceCollectionQueue') = 1 .. len \cup {len + 1} BY <1>1, <1>2
<1>4. FencesOf' = FencesOf \cup {n} BY <1>2, <1>3 DEF FencesOf
<1>5. \A k \in 1 .. len : FenceCollectionQueue'[k] # n BY <1>2 DEF FencesOf
<1>6. ASSUME NEW k \in 1 .. Len(FenceCollectionQueue'), NEW l \in 1 .. Len(FenceCollectionQueue'),
             FenceCollectionQueue'[k] = FenceCollectionQueue'[l]
      PROVE  k = l
  <2>1. CASE k = len + 1 /\ l = len + 1 BY <2>1
  <2>2. CASE k \in 1 .. len /\ l = len + 1 BY <1>2, <1>5, <1>6, <2>2
  <2>3. CASE l \in 1 .. len /\ k = len + 1 BY <1>2, <1>5, <1>6, <2>3
  <2>4. CASE k \in 1 .. len /\ l \in 1 .. len BY <1>2, <1>6, <2>4
  <2> QED BY <1>3, <2>1, <2>2, <2>3, <2>4
<1>7. FenceCollectionQueue' # <<>>
  <2>1. Len(FenceCollectionQueue') # 0 BY <1>1, <1>2
  <2> QED BY <1>2, <2>1, SeqIsEmpty
<1>8. Head(FenceCollectionQueue') = FenceCollectionQueue'[1]
      /\ (FenceCollectionQueue # <<>> => Head(FenceCollectionQueue) = FenceCollectionQueue[1])
  BY <1>1, <1>2, <1>7, HeadTailProperties
<1>9. FenceCollectionQueue = <<>> <=> len = 0 BY <1>1, SeqIsEmpty
<1>10. HeadFrame' = IF FenceCollectionQueue = <<>> THEN n ELSE HeadFrame
  <2>1. CASE len = 0 BY <1>2, <1>7, <1>8, <1>9, <2>1 DEF HeadFrame
  <2>2. CASE len # 0
    <3>1. 1 \in 1 .. len BY <1>1, <2>2
    <3> QED BY <1>2, <1>7, <1>8, <1>9, <2>2, <3>1 DEF HeadFrame
  <2> QED BY <2>1, <2>2
<1> QED BY <1>4, <1>6, <1>7, <1>10

\* Fences are pushed, and drained by this job if by no other.
LEMMA PushingKeeps ==
    ASSUME IInv, NEW t \in Threads, Pushing(t)
    PROVE  Submission'
<1> DEFINE n == FreshFrame(t)
<1>1. /\ View[t].pc = "push" /\ IsFresh(t)
      /\ FenceCollectionQueue' = Append(FenceCollectionQueue, n)
      /\ IsThreadHandlingSinks' = TRUE
      /\ UNCHANGED <<QueuedFrames, main, SinkFrames, gpu>>
  BY DEF Pushing, IsFresh
<1>2. PICK c :
         /\ View' = [View EXCEPT ![t] = c]
         /\ IF IsThreadHandlingSinks
            THEN c = NoCall
            ELSE /\ c \in CallSet /\ c.pc = "load"
                 /\ c.sink = View[t].sink /\ c.index = View[t].index
  BY DEF Pushing
<1>3. \A u \in Threads : View'[u] = IF u = t THEN c ELSE View[u]
  BY <1>2, ViewChanges
<1>4. /\ n \in Unpushed \ QueuedFrames /\ View[t].sink = Slot(n) /\ View[t].index = 0
      /\ SinkFrames[Slot(n)] = n
  BY <1>1 DEF IInv, Submission, SubmittedOnce
<1>5. n \in FrameNums /\ n \notin FencesOf /\ n \in Pending /\ n \notin SignalledFrames
  BY <1>1, <1>4, ViewTypes DEF IInv, Unpushed, Pending
<1>6. /\ UNCHANGED <<SignalledFrames, CompletedFrames, Pending>>
      /\ UNCHANGED <<QueuedFrames, ResetFrames, DispatchedFrames, SinkFrames, hEvent, timeline>>
  BY <1>1 DEF SignalledFrames, CompletedFrames, Pending, main, gpu
<1>7. /\ FencesOf' = FencesOf \cup {n}
      /\ \A k, l \in 1 .. Len(FenceCollectionQueue') :
             FenceCollectionQueue'[k] = FenceCollectionQueue'[l] => k = l
      /\ FenceCollectionQueue' # <<>>
      /\ HeadFrame' = IF FenceCollectionQueue = <<>> THEN n ELSE HeadFrame
  BY <1>1, <1>5, FencesGrow DEF IInv, Submission, Fences
<1>8. c.pc = IF IsThreadHandlingSinks THEN "none" ELSE "load" BY <1>2 DEF NoCall
<1>9. ASSUME NEW u \in Threads
      PROVE  /\ IsFresh(u)' <=> IsFresh(u) /\ u # t
             /\ Handling(u)' <=> Handling(u) \/ (u = t /\ ~IsThreadHandlingSinks)
             /\ u # t => View'[u] = View[u] /\ FreshFrame(u)' = FreshFrame(u)
             /\ u = t => View'[u] = c
  BY <1>1, <1>3, <1>8 DEF IsFresh, FreshFrame, Handling, DrainPcs
<1>10. ~Handling(t) BY <1>1 DEF Handling, DrainPcs
<1>11. Unpushed' = Unpushed \ {n} BY <1>6, <1>7 DEF Unpushed
<1>12. \A u \in Threads : IsFresh(u) /\ u # t => FreshFrame(u) # n
  BY <1>1 DEF IInv, Submission, SubmittedOnce
<1> HIDE DEF n
<1>13. SubmittedOnce'
  <2>1. QueuedFrames' \subseteq Unpushed' BY <1>4, <1>6, <1>11 DEF IInv, Submission, SubmittedOnce
  <2>2. ASSUME NEW u \in Threads, IsFresh(u)'
        PROVE  /\ FreshFrame(u)' \in Unpushed' \ QueuedFrames'
               /\ View'[u].sink = Slot(FreshFrame(u)') /\ View'[u].index = 0
               /\ View'[u].pc = "push" => SinkFrames'[Slot(FreshFrame(u)')] = FreshFrame(u)'
    <3>1. u # t /\ IsFresh(u) BY <1>9, <2>2
    <3> QED BY <1>6, <1>9, <1>11, <1>12, <3>1 DEF IInv, Submission, SubmittedOnce
  <2>3. ASSUME NEW u \in Threads, NEW v \in Threads, IsFresh(u)', IsFresh(v)',
               FreshFrame(u)' = FreshFrame(v)'
        PROVE  u = v
    BY <1>9, <2>3 DEF IInv, Submission, SubmittedOnce
  <2> QED BY <2>1, <2>2, <2>3 DEF SubmittedOnce, FreshFrame, IsFresh
<1>14. Fences' BY <1>4, <1>5, <1>6, <1>7 DEF IInv, Submission, Fences
<1>15. SignalsOnce' BY <1>6 DEF IInv, Submission, SignalsOnce
<1>16. Resets' BY <1>6 DEF IInv, Submission, Resets
<1>17. Handler'
  <2>1. CASE IsThreadHandlingSinks
    BY <1>1, <1>7, <1>9, <2>1 DEF IInv, Submission, Handler
  <2>2. CASE ~IsThreadHandlingSinks
    <3>1. \A u \in Threads : Handling(u)' <=> u = t
      BY <1>9, <2>2 DEF IInv, Submission, Handler
    <3> QED BY <1>1, <1>7, <3>1 DEF Handler
  <2> QED BY <2>1, <2>2
<1>18. IsThreadHandlingSinks <=> FenceCollectionQueue # <<>>
  BY DEF IInv, Submission, Handler
<1>19. Pieces'
  <2>1. FenceCollectionQueue = <<>> => HeadFrame = -1 BY DEF HeadFrame
  <2>2. \A m \in FrameNums : m # -1 BY Constants
  <2>3. \A m \in FrameNums : m # HeadFrame' => m # HeadFrame BY <1>7, <2>1, <2>2
  <2> QED BY <1>6, <2>3 DEF IInv, Submission, Pieces
<1>20. HandlersPiece'
  <2>1. CASE IsThreadHandlingSinks
    <3>1. HeadFrame' = HeadFrame BY <1>7, <1>18, <2>1
    <3>2. \A u \in Threads : Handling(u)' => Handling(u) /\ View'[u] = View[u]
      BY <1>9, <1>10, <2>1
    <3> QED BY <1>6, <3>1, <3>2 DEF IInv, Submission, HandlersPiece
  <2>2. CASE ~IsThreadHandlingSinks
    <3>1. HeadFrame' = n /\ HeadFrame = -1 BY <1>7, <1>18, <2>2 DEF HeadFrame
    <3>2. \A u \in Threads : Handling(u)' <=> u = t
      BY <1>9, <2>2 DEF IInv, Submission, Handler
    <3>3. View'[t].sink = Slot(n) /\ View'[t].index = 0 /\ View'[t].pc = "load"
      BY <1>2, <1>3, <1>4, <2>2
    <3>4. NoModules(timeline, n)
      BY <1>5, <3>1, Constants DEF IInv, Submission, Pieces
    <3>5. InFront(timeline, Len(timeline) + 1, n, 0)
      BY <1>5, <3>4, InFrontStarts DEF IInv, Types
    <3>6. 0 <= NumModules[n] BY <1>5, Constants
    <3> QED BY <1>6, <3>1, <3>2, <3>3, <3>5, <3>6 DEF HandlersPiece
  <2> QED BY <2>1, <2>2
<1> QED BY <1>13, <1>14, <1>15, <1>16, <1>17, <1>19, <1>20 DEF Submission

\* The handler reads.
LEMMA LookingKeeps ==
    ASSUME IInv, NEW t \in Threads, Looking(t)
    PROVE  Submission'
<1>1. View[t].pc \in DrainPcs /\ UNCHANGED <<QueuedFrames, main, sinks, gpu>>
  BY DEF Looking
<1>2. PICK c \in CallSet :
         /\ \/ c.pc = "load"
            \/ c.pc = "sleep" /\ View[t].pc = "extract"
            \/ c.pc = IF View[t].index < ModulesOf(t) THEN "extract" ELSE "pop"
         /\ c.sink = View[t].sink /\ c.index = View[t].index
         /\ View' = [View EXCEPT ![t] = c]
  BY DEF Looking
<1>3. \A u \in Threads : View'[u] = IF u = t THEN c ELSE View[u]
  BY <1>2, ViewChanges
<1>4. c.pc \in DrainPcs BY <1>2 DEF DrainPcs
<1>5. ASSUME NEW u \in Threads
      PROVE  /\ (IsFresh(u)' <=> IsFresh(u)) /\ (Handling(u)' <=> Handling(u))
             /\ u # t => View'[u] = View[u] /\ FreshFrame(u)' = FreshFrame(u)
             /\ IsFresh(u) => u # t
  BY <1>1, <1>3, <1>4 DEF IsFresh, FreshFrame, Handling, DrainPcs
<1>6. /\ UNCHANGED <<Unpushed, Pending, FencesOf, SignalledFrames, CompletedFrames, HeadFrame>>
      /\ UNCHANGED <<QueuedFrames, ResetFrames, DispatchedFrames, SinkFrames, hEvent, timeline,
                     FenceCollectionQueue, IsThreadHandlingSinks>>
  BY <1>1 DEF Unpushed, Pending, FencesOf, SignalledFrames, CompletedFrames, HeadFrame,
              main, sinks, gpu
<1>7. SubmittedOnce'
  <2>1. QueuedFrames' \subseteq Unpushed' BY <1>6 DEF IInv, Submission, SubmittedOnce
  <2>2. ASSUME NEW u \in Threads, IsFresh(u)'
        PROVE  /\ FreshFrame(u)' \in Unpushed' \ QueuedFrames'
               /\ View'[u].sink = Slot(FreshFrame(u)') /\ View'[u].index = 0
               /\ View'[u].pc = "push" => SinkFrames'[Slot(FreshFrame(u)')] = FreshFrame(u)'
    BY <1>5, <1>6, <2>2 DEF IInv, Submission, SubmittedOnce
  <2>3. ASSUME NEW u \in Threads, NEW v \in Threads, IsFresh(u)', IsFresh(v)',
               FreshFrame(u)' = FreshFrame(v)'
        PROVE  u = v
    BY <1>5, <2>3 DEF IInv, Submission, SubmittedOnce
  <2> QED BY <2>1, <2>2, <2>3 DEF SubmittedOnce, FreshFrame, IsFresh
<1>8. Fences' BY <1>6 DEF IInv, Submission, Fences
<1>9. SignalsOnce' BY <1>6 DEF IInv, Submission, SignalsOnce
<1>10. Resets' BY <1>6 DEF IInv, Submission, Resets
<1>11. Handler' BY <1>5, <1>6 DEF IInv, Submission, Handler
<1>12. Pieces' BY <1>6 DEF IInv, Submission, Pieces
<1>13. HandlersPiece'
  <2>1. Handling(t) BY <1>1 DEF Handling
  <2>2. /\ View[t].sink = Slot(HeadFrame) /\ View[t].index <= NumModules[HeadFrame]
        /\ View[t].pc = "extract" => View[t].index < NumModules[HeadFrame]
        /\ InFront(timeline, Len(timeline) + 1, HeadFrame, View[t].index)
    BY <2>1 DEF IInv, Submission, HandlersPiece
  <2>3. FenceCollectionQueue # <<>> BY <2>1 DEF IInv, Submission, Handler
  <2>4. HeadFrame \in FencesOf /\ HeadFrame \in FrameNums
    BY <2>3, HeadTailProperties DEF IInv, Types, HeadFrame, FencesOf
  <2>5. ModulesOf(t) = NumModules[HeadFrame]
    BY <2>2, <2>4 DEF IInv, Submission, Fences, ModulesOf
  <2>6. View[t].index \in Nat /\ NumModules[HeadFrame] \in Nat
    BY <2>1, <2>4, ViewTypes, Constants DEF IInv, CallSet
  <2>7. /\ c.pc \in {"extract", "sleep"} => c.index < NumModules[HeadFrame]
        /\ c.pc = "pop" => c.index = NumModules[HeadFrame]
    BY <1>2, <2>2, <2>5, <2>6
  <2>8. ASSUME NEW u \in Threads, Handling(u)'
        PROVE  /\ View'[u].sink = Slot(HeadFrame)
               /\ View'[u].index <= NumModules[HeadFrame]
               /\ View'[u].pc \in {"extract", "sleep"} => View'[u].index < NumModules[HeadFrame]
               /\ View'[u].pc = "pop" => View'[u].index = NumModules[HeadFrame]
               /\ InFront(timeline, Len(timeline) + 1, HeadFrame, View'[u].index)
    <3>1. CASE u = t BY <1>2, <1>3, <2>2, <2>7, <3>1
    <3>2. CASE u # t BY <1>5, <2>8, <3>2 DEF IInv, Submission, HandlersPiece
    <3> QED BY <3>1, <3>2
  <2> QED BY <1>6, <2>8 DEF HandlersPiece
<1> QED BY <1>7, <1>8, <1>9, <1>10, <1>11, <1>12, <1>13 DEF Submission

\* A signal is told by its frame.
LEMMA SignalOf ==
    ASSUME NEW c \in Commands, c.kind = "signal", c.index = 0
    PROVE  c = Signal(c.frame)
BY DEF Commands, Signal

\* The frame that is drained.
LEMMA HeadIsPending ==
    ASSUME IInv, NEW t \in Threads, Handling(t)
    PROVE  /\ FenceCollectionQueue # <<>> /\ HeadFrame = Head(FenceCollectionQueue)
           /\ HeadFrame \in FencesOf /\ HeadFrame \in FrameNums /\ HeadFrame \in Pending
           /\ SinkFrames[View[t].sink] = HeadFrame
           /\ View[t].index \in Nat /\ NumModules[HeadFrame] \in Nat
           /\ \A u \in Threads : Handling(u) => u = t
<1>1. FenceCollectionQueue # <<>> /\ \A u \in Threads : Handling(u) => u = t
  BY DEF IInv, Submission, Handler
<1>2. /\ HeadFrame = Head(FenceCollectionQueue) /\ HeadFrame \in FencesOf
      /\ HeadFrame \in FrameNums
  BY <1>1, HeadTailProperties DEF IInv, Types, HeadFrame, FencesOf
<1>3. HeadFrame \in Pending /\ SinkFrames[Slot(HeadFrame)] = HeadFrame
  BY <1>2 DEF IInv, Submission, Fences
<1>4. View[t].sink = Slot(HeadFrame) BY DEF IInv, Submission, HandlersPiece
<1>5. View[t].index \in Nat BY ViewTypes DEF IInv, CallSet
<1> QED BY <1>1, <1>2, <1>3, <1>4, <1>5, Constants

\* The handler submits the next module of its frame.
LEMMA SubmittingKeeps ==
    ASSUME IInv, NEW t \in Threads, Submitting(t)
    PROVE  Submission'
<1> DEFINE h == HeadFrame
           i == View[t].index
           w == Job("module", h, i + 1)
<1>1. /\ View[t].pc = "extract" /\ Handling(t)
      /\ timeline' = Append(timeline, Job("module", SinkFrames[View[t].sink], View[t].index + 1))
      /\ UNCHANGED <<QueuedFrames, main, sinks, hEvent, executed>>
  BY DEF Submitting, Handling, DrainPcs
<1>2. PICK c \in CallSet :
         /\ c.pc = IF View[t].index + 1 < ModulesOf(t) THEN "extract" ELSE "pop"
         /\ c.sink = View[t].sink /\ c.index = View[t].index + 1
         /\ View' = [View EXCEPT ![t] = c]
  BY DEF Submitting
<1>3. \A u \in Threads : View'[u] = IF u = t THEN c ELSE View[u]
  BY <1>2, ViewChanges
<1>4. /\ h \in FrameNums /\ h \in Pending /\ SinkFrames[View[t].sink] = h
      /\ i \in Nat /\ NumModules[h] \in Nat
      /\ \A u \in Threads : Handling(u) => u = t
  BY <1>1, HeadIsPending
<1>5. /\ View[t].sink = Slot(h) /\ i < NumModules[h]
      /\ InFront(timeline, Len(timeline) + 1, h, i)
  BY <1>1 DEF IInv, Submission, HandlersPiece
<1>6. timeline' = Append(timeline, w) BY <1>1, <1>4
<1>7. w \in Commands /\ w.kind = "module" /\ w.frame = h BY <1>4 DEF Commands, Job
<1>8. ModulesOf(t) = NumModules[h] BY <1>4 DEF ModulesOf
<1>9. Types BY DEF IInv
<1>10. timeline \in Seq(Commands) BY <1>9 DEF Types
<1> HIDE DEF w
<1>11. /\ CompletedFrames' = CompletedFrames
       /\ SignalledFrames' = SignalledFrames \cup {n \in FrameNums : w = Signal(n)}
       /\ Len(timeline') = Len(timeline) + 1 /\ Len(timeline) \in Nat
       /\ \A k \in 1 .. Len(timeline) : timeline'[k] = timeline[k]
       /\ timeline'[Len(timeline) + 1] = w
  BY <1>1, <1>6, <1>7, <1>9, SignalsGrow
<1>12. \A n : w # Signal(n) BY <1>7 DEF Signal
<1>13. SignalledFrames' = SignalledFrames BY <1>11, <1>12
<1>14. /\ UNCHANGED <<Unpushed, Pending, FencesOf, HeadFrame>>
       /\ UNCHANGED <<QueuedFrames, ResetFrames, DispatchedFrames, SinkFrames, hEvent,
                      FenceCollectionQueue, IsThreadHandlingSinks>>
  BY <1>1, <1>13 DEF Unpushed, Pending, FencesOf, HeadFrame, main, sinks
<1>15. c.pc \in DrainPcs BY <1>2 DEF DrainPcs
<1>16. ASSUME NEW u \in Threads
       PROVE  /\ (IsFresh(u)' <=> IsFresh(u)) /\ (Handling(u)' <=> Handling(u))
              /\ u # t => View'[u] = View[u] /\ FreshFrame(u)' = FreshFrame(u)
              /\ IsFresh(u) => u # t
  BY <1>1, <1>3, <1>15 DEF IsFresh, FreshFrame, Handling, DrainPcs
<1>17. SubmittedOnce'
  <2>1. QueuedFrames' \subseteq Unpushed' BY <1>14 DEF IInv, Submission, SubmittedOnce
  <2>2. ASSUME NEW u \in Threads, IsFresh(u)'
        PROVE  /\ FreshFrame(u)' \in Unpushed' \ QueuedFrames'
               /\ View'[u].sink = Slot(FreshFrame(u)') /\ View'[u].index = 0
               /\ View'[u].pc = "push" => SinkFrames'[Slot(FreshFrame(u)')] = FreshFrame(u)'
    BY <1>14, <1>16, <2>2 DEF IInv, Submission, SubmittedOnce
  <2>3. ASSUME NEW u \in Threads, NEW v \in Threads, IsFresh(u)', IsFresh(v)',
               FreshFrame(u)' = FreshFrame(v)'
        PROVE  u = v
    BY <1>16, <2>3 DEF IInv, Submission, SubmittedOnce
  <2> QED BY <2>1, <2>2, <2>3 DEF SubmittedOnce, FreshFrame, IsFresh
<1>18. Fences' BY <1>14 DEF IInv, Submission, Fences
<1>19. SignalsOnce'
  <2>1. ASSUME NEW k \in 1 .. Len(timeline'), NEW l \in 1 .. Len(timeline'),
               timeline'[k].kind = "signal", timeline'[k] = timeline'[l]
        PROVE  k = l
    <3>1. k # Len(timeline) + 1 /\ l # Len(timeline) + 1 BY <1>7, <1>11, <2>1
    <3>2. k \in 1 .. Len(timeline) /\ l \in 1 .. Len(timeline) BY <1>11, <3>1
    <3> QED BY <1>11, <2>1, <3>2 DEF IInv, Submission, SignalsOnce
  <2> QED BY <1>13, <1>14, <2>1 DEF IInv, Submission, SignalsOnce
<1>20. Resets' BY <1>11, <1>14 DEF IInv, Submission, Resets
<1>21. Handler' BY <1>14, <1>16 DEF IInv, Submission, Handler
<1>22. Pieces'
  <2>1. ASSUME NEW k \in 1 .. Len(timeline'), timeline'[k].kind = "signal"
        PROVE  /\ timeline'[k].index = 0
               /\ InFront(timeline', k, timeline'[k].frame, NumModules[timeline'[k].frame])
    <3>1. k # Len(timeline) + 1 BY <1>7, <1>11, <2>1
    <3>2. k \in 1 .. Len(timeline) /\ timeline'[k] = timeline[k] BY <1>11, <3>1
    <3> DEFINE n == timeline[k].frame
    <3>3. timeline[k] \in Commands BY <1>10, <3>2
    <3>4. n \in FrameNums BY <3>3 DEF Commands
    <3>5. timeline[k].index = 0 /\ InFront(timeline, k, n, NumModules[n])
      BY <2>1, <3>2 DEF IInv, Submission, Pieces
    <3>6. timeline[k].kind = "signal" BY <2>1, <3>2
    <3>7. timeline[k] = Signal(n) BY <3>5, <3>6, <3>3, SignalOf
    <3>8. n \in SignalledFrames BY <3>2, <3>4, <3>7 DEF SignalledFrames
    <3>9. n # h BY <1>4, <3>8 DEF Pending
    <3> HIDE DEF n
    <3>10. k \in 1 .. Len(timeline) + 1 /\ NumModules[n] \in Nat BY <1>11, <3>2, <3>4, Constants
    <3>11. InFront(Append(timeline, w), k, n, NumModules[n])
      BY <1>7, <1>10, <3>4, <3>5, <3>9, <3>10, InFrontStays
    <3> QED BY <1>6, <3>2, <3>5, <3>11 DEF n
  <2>2. ASSUME NEW n \in FrameNums, n \notin SignalledFrames, n # h
        PROVE  NoModules(timeline', n)
    <3>1. NoModules(timeline, n) BY <2>2 DEF IInv, Submission, Pieces
    <3> QED BY <1>6, <1>7, <1>10, <2>2, <3>1, NoModulesStays
  <2> QED BY <1>13, <1>14, <2>1, <2>2 DEF Pieces
<1>23. HandlersPiece'
  <2>1. InFront(timeline', Len(timeline') + 1, h, i + 1)
    <3>1. InFront(timeline', Len(timeline) + 2, h, i + 1)
      BY <1>4, <1>5, <1>6, <1>10, InFrontGrows DEF w
    <3>2. Len(timeline') + 1 = Len(timeline) + 2 BY <1>11
    <3> QED BY <3>1, <3>2
  <2>2. i + 1 <= NumModules[h] BY <1>4, <1>5
  <2>3. /\ c.pc \in {"extract", "sleep"} => i + 1 < NumModules[h]
        /\ c.pc = "pop" => i + 1 = NumModules[h]
    BY <1>2, <1>4, <1>8, <2>2
  <2>4. ASSUME NEW u \in Threads, Handling(u)'
        PROVE  View'[u] = c
    BY <1>3, <1>4, <1>16, <2>4
  <2> QED BY <1>2, <1>5, <1>14, <2>1, <2>2, <2>3, <2>4 DEF HandlersPiece
<1> QED BY <1>17, <1>18, <1>19, <1>20, <1>21, <1>22, <1>23 DEF Submission

\* The head leaves the queued fences.
LEMMA FencesShrink ==
    ASSUME Types, FenceCollectionQueue # <<>>,
           FenceCollectionQueue' = Tail(FenceCollectionQueue),
           \A k, l \in 1 .. Len(FenceCollectionQueue) :
               FenceCollectionQueue[k] = FenceCollectionQueue[l] => k = l
    PROVE  /\ FencesOf' = FencesOf \ {HeadFrame} /\ HeadFrame \in FencesOf
           /\ \A k, l \in 1 .. Len(FenceCollectionQueue') :
                  FenceCollectionQueue'[k] = FenceCollectionQueue'[l] => k = l
           /\ FenceCollectionQueue' # <<>> => HeadFrame' \in FencesOf'
           /\ FenceCollectionQueue' = <<>> => HeadFrame' = -1
<1> DEFINE r == FenceCollectionQueue'
           n == Len(r)
<1>1. FenceCollectionQueue \in Seq(FrameNums) BY DEF Types
<1>2. /\ r \in Seq(FrameNums) /\ n = Len(FenceCollectionQueue) - 1
      /\ \A k \in 1 .. n : r[k] = FenceCollectionQueue[k + 1]
      /\ HeadFrame = FenceCollectionQueue[1] /\ Len(FenceCollectionQueue) \in Nat \ {0}
  BY <1>1, HeadTailProperties DEF HeadFrame
<1>3. n \in Nat /\ Len(FenceCollectionQueue) = n + 1 BY <1>2
<1> HIDE DEF n
<1>4. /\ \A k \in 1 .. Len(FenceCollectionQueue) : k # 1 => k - 1 \in 1 .. n /\ k = (k - 1) + 1
      /\ \A k \in 1 .. n : k + 1 \in 1 .. Len(FenceCollectionQueue)
      /\ 1 \in 1 .. Len(FenceCollectionQueue)
  BY <1>3
<1>5. ASSUME NEW k \in 1 .. n
      PROVE  /\ k + 1 \in 1 .. Len(FenceCollectionQueue) /\ 1 \in 1 .. Len(FenceCollectionQueue)
             /\ k + 1 # 1
  BY <1>3, <1>4
<1>6. ASSUME NEW k \in 1 .. n, NEW l \in 1 .. n, r[k] = r[l] PROVE k = l
  <2>1. k + 1 = l + 1 BY <1>2, <1>5, <1>6
  <2> QED BY <1>3, <2>1
<1>7. ASSUME NEW f PROVE f \in FencesOf' <=> f \in FencesOf /\ f # HeadFrame
  <2>1. f \in FencesOf' <=> \E k \in 1 .. n : f = r[k] BY DEF FencesOf, n
  <2>2. f \in FencesOf <=> \E k \in 1 .. Len(FenceCollectionQueue) : f = FenceCollectionQueue[k]
    BY DEF FencesOf
  <2>3. ASSUME NEW k \in 1 .. n, f = r[k] PROVE f \in FencesOf /\ f # HeadFrame
    BY <1>2, <1>5, <2>2, <2>3
  <2>4. ASSUME NEW k \in 1 .. Len(FenceCollectionQueue), f = FenceCollectionQueue[k],
               f # HeadFrame
        PROVE  f \in FencesOf'
    <3>1. k # 1 BY <1>2, <2>4
    <3>2. PICK l \in 1 .. n : k = l + 1 BY <1>4, <2>4, <3>1
    <3> QED BY <1>2, <2>1, <2>4, <3>2
  <2> QED BY <2>1, <2>2, <2>3, <2>4
<1>8. FencesOf' = FencesOf \ {HeadFrame} BY <1>7
<1>9. HeadFrame \in FencesOf
  <2>1. 1 \in 1 .. Len(FenceCollectionQueue) BY <1>4
  <2> QED BY <1>2, <2>1 DEF FencesOf
<1>10. ASSUME r # <<>> PROVE HeadFrame' \in FencesOf'
  <2>1. HeadFrame' = r[1] /\ n # 0
    BY <1>2, <1>10, HeadTailProperties, SeqIsEmpty DEF HeadFrame, n
  <2>2. 1 \in 1 .. n BY <1>3, <2>1
  <2> QED BY <2>1, <2>2 DEF FencesOf, n
<1>11. r = <<>> => HeadFrame' = -1 BY DEF HeadFrame
<1> QED BY <1>6, <1>8, <1>9, <1>10, <1>11 DEF n

\* The frame drained is signalled, and the next head has the next slot.
LEMMA PoppingKeeps ==
    ASSUME IInv, MAX_FRAMES_IN_FLIGHT <= 2, NEW t \in Threads, Popping(t)
    PROVE  Submission'
<1> DEFINE h == HeadFrame
           w == Signal(h)
           last == FenceCollectionQueue' = <<>>
<1>1. /\ View[t].pc = "pop" /\ Handling(t)
      /\ FenceCollectionQueue' = Tail(FenceCollectionQueue)
      /\ IsThreadHandlingSinks' = (FenceCollectionQueue' # <<>>)
      /\ timeline' = Append(timeline, Signal(Head(FenceCollectionQueue)))
      /\ UNCHANGED <<QueuedFrames, main, SinkFrames, hEvent, executed>>
  BY DEF Popping, Handling, DrainPcs
<1>2. PICK c :
         /\ View' = [View EXCEPT ![t] = c]
         /\ IF last THEN c = NoCall
            ELSE /\ c \in CallSet /\ c.pc = "load" /\ c.index = 0
                 /\ c.sink = (View[t].sink + 1) % MAX_FRAMES_IN_FLIGHT
  BY DEF Popping
<1>3. \A u \in Threads : View'[u] = IF u = t THEN c ELSE View[u]
  BY <1>2, ViewChanges
<1>4. /\ FenceCollectionQueue # <<>> /\ h = Head(FenceCollectionQueue)
      /\ h \in FrameNums /\ h \in Pending /\ NumModules[h] \in Nat
      /\ \A u \in Threads : Handling(u) => u = t
  BY <1>1, HeadIsPending
<1>5. /\ View[t].sink = Slot(h)
      /\ InFront(timeline, Len(timeline) + 1, h, NumModules[h])
  BY <1>1 DEF IInv, Submission, HandlersPiece
<1>6. timeline' = Append(timeline, w) BY <1>1, <1>4
<1>7. w \in Commands /\ w.kind = "signal" /\ w.index = 0 /\ w.frame = h
  BY <1>4 DEF Commands, Signal
<1>8. Types BY DEF IInv
<1>9. timeline \in Seq(Commands) BY <1>8 DEF Types
<1>10. \A n : w = Signal(n) <=> n = h BY DEF Signal
<1> HIDE DEF w
<1>11. /\ CompletedFrames' = CompletedFrames
       /\ SignalledFrames' = SignalledFrames \cup {n \in FrameNums : w = Signal(n)}
       /\ Len(timeline') = Len(timeline) + 1 /\ Len(timeline) \in Nat
       /\ \A k \in 1 .. Len(timeline) : timeline'[k] = timeline[k]
       /\ timeline'[Len(timeline) + 1] = w
  BY <1>1, <1>6, <1>7, <1>8, SignalsGrow
<1>12. SignalledFrames' = SignalledFrames \cup {h} BY <1>4, <1>10, <1>11
<1>13. /\ FencesOf' = FencesOf \ {h} /\ h \in FencesOf
       /\ \A k, l \in 1 .. Len(FenceCollectionQueue') :
              FenceCollectionQueue'[k] = FenceCollectionQueue'[l] => k = l
       /\ ~last => HeadFrame' \in FencesOf'
       /\ last => HeadFrame' = -1
  BY <1>1, <1>4, <1>8, FencesShrink DEF IInv, Submission, Fences
<1>14. UNCHANGED <<QueuedFrames, ResetFrames, DispatchedFrames, SinkFrames, hEvent>>
  BY <1>1 DEF main
<1>15. Unpushed' = Unpushed /\ Pending' = Pending \ {h}
  BY <1>12, <1>13, <1>14 DEF Unpushed, Pending
<1>16. c.pc = IF last THEN "none" ELSE "load" BY <1>2 DEF NoCall
<1>17. ASSUME NEW u \in Threads
       PROVE  /\ (IsFresh(u)' <=> IsFresh(u))
              /\ u # t => View'[u] = View[u] /\ FreshFrame(u)' = FreshFrame(u)
              /\ IsFresh(u) => u # t
              /\ Handling(u)' <=> u = t /\ ~last
  BY <1>1, <1>3, <1>4, <1>16 DEF IsFresh, FreshFrame, Handling, DrainPcs
<1>18. SubmittedOnce'
  <2>1. QueuedFrames' \subseteq Unpushed'
    BY <1>14, <1>15 DEF IInv, Submission, SubmittedOnce
  <2>2. ASSUME NEW u \in Threads, IsFresh(u)'
        PROVE  /\ FreshFrame(u)' \in Unpushed' \ QueuedFrames'
               /\ View'[u].sink = Slot(FreshFrame(u)') /\ View'[u].index = 0
               /\ View'[u].pc = "push" => SinkFrames'[Slot(FreshFrame(u)')] = FreshFrame(u)'
    BY <1>14, <1>15, <1>17, <2>2 DEF IInv, Submission, SubmittedOnce
  <2>3. ASSUME NEW u \in Threads, NEW v \in Threads, IsFresh(u)', IsFresh(v)',
               FreshFrame(u)' = FreshFrame(v)'
        PROVE  u = v
    BY <1>17, <2>3 DEF IInv, Submission, SubmittedOnce
  <2> QED BY <2>1, <2>2, <2>3 DEF SubmittedOnce, FreshFrame, IsFresh
<1>19. Fences' BY <1>13, <1>14, <1>15 DEF IInv, Submission, Fences
<1>20. SignalsOnce'
  <2>1. ASSUME NEW k \in 1 .. Len(timeline) PROVE timeline[k] # w
    BY <1>4, <1>10, <2>1 DEF Pending, SignalledFrames, w
  <2>2. ASSUME NEW k \in 1 .. Len(timeline'), NEW l \in 1 .. Len(timeline'),
               timeline'[k].kind = "signal", timeline'[k] = timeline'[l]
        PROVE  k = l
    <3>1. 1 .. Len(timeline') = 1 .. Len(timeline) \cup {Len(timeline) + 1} BY <1>11
    <3>2. CASE k \in 1 .. Len(timeline) /\ l \in 1 .. Len(timeline)
      BY <1>11, <2>2, <3>2 DEF IInv, Submission, SignalsOnce
    <3>3. CASE k \in 1 .. Len(timeline) /\ l = Len(timeline) + 1
      BY <1>11, <2>1, <2>2, <3>3
    <3>4. CASE k = Len(timeline) + 1 /\ l \in 1 .. Len(timeline)
      BY <1>11, <2>1, <2>2, <3>4
    <3>5. CASE k = Len(timeline) + 1 /\ l = Len(timeline) + 1 BY <3>5
    <3> QED BY <3>1, <3>2, <3>3, <3>4, <3>5
  <2>3. SignalledFrames' \subseteq DispatchedFrames'
    BY <1>4, <1>12, <1>14 DEF IInv, Submission, SignalsOnce, Pending
  <2> QED BY <2>2, <2>3 DEF SignalsOnce
<1>21. Resets' BY <1>11, <1>14 DEF IInv, Submission, Resets
<1>22. Handler' BY <1>1, <1>17 DEF Handler
<1>23. ASSUME NEW n \in FrameNums
       PROVE  ~(w.kind = "module" /\ w.frame = n)
  BY <1>7
<1>24. Pieces'
  <2>1. ASSUME NEW k \in 1 .. Len(timeline'), timeline'[k].kind = "signal"
        PROVE  /\ timeline'[k].index = 0
               /\ InFront(timeline', k, timeline'[k].frame, NumModules[timeline'[k].frame])
    <3>1. CASE k = Len(timeline) + 1
      <4>1. timeline'[k] = w /\ k \in 1 .. Len(timeline) + 1 BY <1>11, <3>1
      <4>2. InFront(Append(timeline, w), k, h, NumModules[h])
        BY <1>4, <1>5, <1>7, <1>9, <1>23, <3>1, <4>1, InFrontStays
      <4> QED BY <1>6, <1>7, <4>1, <4>2
    <3>2. CASE k # Len(timeline) + 1
      <4>1. k \in 1 .. Len(timeline) /\ timeline'[k] = timeline[k] BY <1>11, <3>2
      <4>2. timeline[k].kind = "signal" /\ timeline[k] \in Commands BY <1>9, <2>1, <4>1
      <4> DEFINE n == timeline[k].frame
      <4>3. timeline[k].index = 0 /\ InFront(timeline, k, n, NumModules[n])
        BY <4>1, <4>2 DEF IInv, Submission, Pieces
      <4>4. n \in FrameNums BY <4>2 DEF Commands
      <4> HIDE DEF n
      <4>5. k \in 1 .. Len(timeline) + 1 /\ NumModules[n] \in Nat
        BY <1>11, <4>1, <4>4, Constants
      <4>6. InFront(Append(timeline, w), k, n, NumModules[n])
        BY <1>7, <1>9, <1>23, <4>3, <4>4, <4>5, InFrontStays
      <4> QED BY <1>6, <4>1, <4>3, <4>6 DEF n
    <3> QED BY <3>1, <3>2
  <2>2. ASSUME NEW n \in FrameNums, n \notin SignalledFrames', n # HeadFrame'
        PROVE  NoModules(timeline', n)
    <3>1. n \notin SignalledFrames /\ n # h BY <1>12, <2>2
    <3>2. NoModules(timeline, n) BY <3>1 DEF IInv, Submission, Pieces
    <3> QED BY <1>6, <1>7, <1>9, <1>23, <3>2, NoModulesStays
  <2> QED BY <2>1, <2>2 DEF Pieces
<1>25. HandlersPiece'
  <2>1. CASE last BY <1>17, <2>1 DEF HandlersPiece
  <2>2. CASE ~last
    <3> DEFINE n == HeadFrame'
    <3>1. n \in FencesOf /\ n # h BY <1>13, <2>2
    <3>2. n \in Pending /\ h \in Pending BY <1>13, <3>1 DEF IInv, Submission, Fences
    <3> HIDE DEF n
    <3>3. Slot(n) = (Slot(h) + 1) % MAX_FRAMES_IN_FLIGHT /\ n \in FrameNums
      BY <3>1, <3>2, PendingIsInFlight, InFlightDiffer DEF IInv, Submission
    <3>4. NoModules(timeline, n) BY <3>1, <3>2, <3>3 DEF IInv, Submission, Pieces, Pending
    <3>5. NoModules(timeline', n) BY <1>6, <1>7, <1>9, <1>23, <3>3, <3>4, NoModulesStays
    <3>6. timeline' \in Seq(Commands) BY <1>6, <1>7, <1>9, AppendProperties
    <3>7. InFront(timeline', Len(timeline') + 1, n, 0) BY <3>3, <3>5, <3>6, InFrontStarts
    <3>8. c.sink = Slot(n) /\ c.index = 0 /\ c.pc = "load" BY <1>2, <1>5, <2>2, <3>3
    <3>9. 0 <= NumModules[n] BY <3>3, Constants
    <3>10. \A u \in Threads : Handling(u)' => View'[u] = c BY <1>3, <1>17
    <3> QED BY <3>7, <3>8, <3>9, <3>10 DEF HandlersPiece, n
  <2> QED BY <2>1, <2>2
<1> QED BY <1>18, <1>19, <1>20, <1>21, <1>22, <1>24, <1>25 DEF Submission

\* An event is set by a frame whose FrameGraph was not reset since.
LEMMA ExecutingKeeps ==
    ASSUME IInv, MAX_FRAMES_IN_FLIGHT <= 2, Executing
    PROVE  Submission'
<1> DEFINE c == timeline[executed + 1]
<1>1. /\ executed < Len(timeline) /\ executed' = executed + 1
      /\ hEvent' = IF c.kind = "signal" THEN [hEvent EXCEPT ![Slot(c.frame)] = TRUE] ELSE hEvent
      /\ UNCHANGED <<calls, main, sinks, timeline>>
  BY DEF Executing
<1>2. executed \in Nat /\ executed + 1 \in 1 .. Len(timeline) /\ timeline \in Seq(Commands)
      /\ hEvent \in [Slots -> BOOLEAN]
  BY <1>1 DEF IInv, Types
<1> USE DEF calls, main, sinks
<1>3. SubmittedOnce'
  BY <1>1 DEF IInv, Submission, SubmittedOnce, IsFresh, FreshFrame, Unpushed, FencesOf,
              SignalledFrames
<1>4. Fences' BY <1>1 DEF IInv, Submission, Fences, FencesOf, Pending, SignalledFrames
<1>5. SignalsOnce' BY <1>1 DEF IInv, Submission, SignalsOnce, SignalledFrames
<1>6. Handler' BY <1>1 DEF IInv, Submission, Handler, Handling
<1>7. Pieces' BY <1>1 DEF IInv, Submission, Pieces, SignalledFrames, HeadFrame
<1>8. HandlersPiece' BY <1>1 DEF IInv, Submission, HandlersPiece, Handling, HeadFrame
<1>9. CompletedFrames \subseteq CompletedFrames'
  <2>1. ASSUME NEW k \in 1 .. Len(timeline), k <= executed PROVE k <= executed'
    BY <1>1, <1>2, <2>1
  <2> QED BY <1>1, <2>1 DEF CompletedFrames
<1>10. ResetFrames' = ResetFrames BY <1>1
<1>11. ASSUME NEW m \in ResetFrames, m + MAX_FRAMES_IN_FLIGHT \notin ResetFrames,
              hEvent'[Slot(m)]
       PROVE  m \in CompletedFrames'
  <2>1. CASE hEvent[Slot(m)] BY <1>9, <1>11, <2>1 DEF IInv, Submission, Resets
  <2>2. CASE ~hEvent[Slot(m)]
    <3>1. c \in Commands BY <1>2
    <3>2. c.frame \in FrameNums BY <3>1 DEF Commands
    <3>3. Slot(c.frame) \in Slots BY <3>2, Constants
    <3>4. c.kind = "signal" /\ Slot(m) = Slot(c.frame)
      BY <1>1, <1>2, <1>11, <2>2, <3>3
    <3>5. c = Signal(c.frame)
      BY <1>2, <3>1, <3>4, SignalOf DEF IInv, Submission, Pieces
    <3>6. c.frame \in SignalledFrames BY <1>2, <3>2, <3>5 DEF SignalledFrames
    <3>7. c.frame \in ResetFrames
      BY <3>6, FramesInOrder DEF IInv, Submission, SignalsOnce
    <3>8. ASSUME c.frame \in CompletedFrames PROVE FALSE
      <4>1. PICK k \in 1 .. Len(timeline) : k <= executed /\ timeline[k] = Signal(c.frame)
        BY <3>8 DEF CompletedFrames
      <4>2. k = executed + 1
        BY <1>2, <3>4, <3>5, <4>1 DEF IInv, Submission, SignalsOnce
      <4> QED BY <1>2, <4>1, <4>2
    <3>9. ASSUME c.frame + MAX_FRAMES_IN_FLIGHT \in ResetFrames PROVE FALSE
      <4>1. /\ c.frame + MAX_FRAMES_IN_FLIGHT >= MAX_FRAMES_IN_FLIGHT
            /\ (c.frame + MAX_FRAMES_IN_FLIGHT) - MAX_FRAMES_IN_FLIGHT = c.frame
        BY <3>2, Constants
      <4> QED BY <3>8, <3>9, <4>1 DEF IInv, Submission, Resets
    <3>10. m = c.frame
      BY <1>11, <3>4, <3>7, <3>9, InFlightDiffer DEF IInv
    <3>11. executed + 1 <= executed' BY <1>1, <1>2
    <3> QED BY <1>1, <1>2, <3>2, <3>5, <3>10, <3>11 DEF CompletedFrames
  <2> QED BY <2>1, <2>2
<1>12. Resets'
  <2>1. \A m \in ResetFrames : m >= MAX_FRAMES_IN_FLIGHT
           => m - MAX_FRAMES_IN_FLIGHT \in CompletedFrames'
    BY <1>9 DEF IInv, Submission, Resets
  <2> QED BY <1>10, <1>11, <2>1 DEF Resets
<1> QED BY <1>3, <1>4, <1>5, <1>6, <1>7, <1>8, <1>12 DEF Submission

-----------------------------------------------------------------------------
(* The theorems.                                                             *)

\* No frame is dispatched at first.
LEMMA InitiallyInOrder == Init => IInv
<1> SUFFICES ASSUME Init PROVE IInv OBVIOUS
<1> DEFINE first == Call(Job("process", 0, 0))
<1>1. Job("process", 0, 0) \in JobSet BY Constants DEF Job, JobSet
<1>2. first \in CallSet /\ first.job.kind = "process" /\ first.job.frame = 0 /\ first.pc = "wait"
  BY <1>1, NewCall DEF Job
<1>3. /\ stack[Main] = <<first>>
      /\ \A t \in Threads : t # Main => stack[t] = <<>>
      /\ stack = [t \in Threads |-> IF t = Main THEN <<first>> ELSE <<>>]
  BY Constants DEF Init
<1> HIDE DEF first
<1>4. stack \in [Threads -> Seq(CallSet)] BY <1>2, <1>3
<1>5. mCmdContextSinkArr \in [Slots -> SinkSet] BY DEF Init, SinkSet
<1>6. hEvent \in [Slots -> BOOLEAN] BY DEF Init
<1>7. Types
  <2>1. /\ queue = <<>> /\ FenceCollectionQueue = <<>> /\ timeline = <<>>
        /\ IsThreadHandlingSinks = FALSE /\ executed = 0
    BY DEF Init
  <2>2. queue \in Seq(WorkSet) /\ FenceCollectionQueue \in Seq(FrameNums) BY <2>1
  <2>3. timeline \in Seq(Commands) /\ executed \in 0 .. Len(timeline) BY <2>1
  <2> QED BY <1>4, <1>5, <1>6, <2>1, <2>2, <2>3 DEF Types
<1>8. StacksAreRight
  <2>1. ASSUME NEW t \in Threads, NEW d \in 1 .. Len(stack[t]) PROVE CallIsRight(t, d)
    <3>1. t = Main /\ d = 1 /\ Len(stack[t]) = 1 /\ stack[t][d] = first BY <1>3
    <3> QED BY <1>2, <3>1 DEF CallIsRight, MainPcs, SubmitPcs, DrainPcs
  <2> QED BY <1>3, <2>1 DEF StacksAreRight
<1>9. QueuedOnce /\ QueuedFrames = {} BY DEF Init, QueuedOnce, QueuedFrames
<1>10. \A t \in Threads : View[t] = NoCall
  BY <1>2, <1>3, <1>4, ViewOf DEF SubmitPcs, DrainPcs
<1>11. \A t \in Threads : ~IsFresh(t) /\ ~Handling(t)
  BY <1>10 DEF IsFresh, Handling, DrainPcs, NoCall
<1>12. MainCall = first BY <1>3 DEF MainCall
<1>13. ResetFrames = {} /\ DispatchedFrames = {}
  <2>1. Current = 0 /\ MainCall.pc = "wait" BY <1>2, <1>12 DEF Current
  <2> QED BY <2>1 DEF ResetFrames, DispatchedFrames
<1>14. FenceCollectionQueue = <<>> /\ timeline = <<>> /\ ~IsThreadHandlingSinks BY DEF Init
<1>15. FencesOf = {} /\ SignalledFrames = {} BY <1>14 DEF FencesOf, SignalledFrames
<1>16. Submission
  BY <1>9, <1>11, <1>13, <1>14, <1>15
  DEF Submission, SubmittedOnce, Fences, SignalsOnce, Resets, Handler, Pieces, HandlersPiece,
      NoModules
<1> QED BY <1>7, <1>8, <1>9, <1>16 DEF IInv

\* The invariant is inductive.
LEMMA StepKeeps ==
    ASSUME IInv, MAX_FRAMES_IN_FLIGHT <= 2, [Next]_vars
    PROVE  IInv'
<1>1. Threading' BY EveryStep
<1>2. CASE Invisible BY <1>1, <1>2, InvisibleKeeps DEF IInv, Threading
<1>3. CASE Resetting BY <1>1, <1>3, ResettingKeeps DEF IInv, Threading
<1>4. CASE Dispatching BY <1>1, <1>4, DispatchingKeeps DEF IInv, Threading
<1>5. CASE Executing BY <1>1, <1>5, ExecutingKeeps DEF IInv, Threading
<1>6. ASSUME NEW t \in Threads, ThreadStep(t) PROVE Submission'
  BY <1>6, StartingKeeps, InitializingKeeps, PushingKeeps, LookingKeeps, SubmittingKeeps,
     PoppingKeeps DEF ThreadStep
<1> QED BY <1>1, <1>2, <1>3, <1>4, <1>5, <1>6, EveryStep DEF IInv, Threading

\* A call that drains is innermost.
LEMMA HandlersAreHandling == IInv => Handlers = {t \in Threads : Handling(t)}
<1> SUFFICES ASSUME IInv, NEW t \in Threads
             PROVE  t \in Handlers <=> Handling(t)
  BY DEF Handlers
<1>1. stack \in [Threads -> Seq(CallSet)] BY DEF IInv, Types
<1>2. stack[t] # <<>> => Len(stack[t]) \in Nat \ {0} BY <1>1, ViewOf
<1>3. ASSUME t \in Handlers PROVE Handling(t)
  <2>1. PICK d \in 1 .. Len(stack[t]) : stack[t][d].pc \in DrainPcs
    BY <1>3 DEF Handlers, Calls, Depth, DrainPcs
  <2>2. CallIsRight(t, d) BY DEF IInv, StacksAreRight
  <2>3. ~(d < Len(stack[t])) BY <2>1, <2>2 DEF CallIsRight, DrainPcs, Waiting
  <2>4. stack[t] # <<>> /\ d = Len(stack[t]) BY <1>1, <2>3
  <2>5. View[t] = stack[t][d] BY <1>1, <2>1, <2>4, ViewOf DEF SubmitPcs
  <2> QED BY <2>1, <2>5 DEF Handling
<1>4. ASSUME Handling(t) PROVE t \in Handlers
  <2>1. View[t] # NoCall BY <1>4 DEF Handling, NoCall, DrainPcs
  <2>2. stack[t] # <<>> /\ View[t] = stack[t][Len(stack[t])] BY <1>1, <2>1, ViewOf
  <2>3. Len(stack[t]) \in 1 .. Len(stack[t]) BY <1>2, <2>2
  <2>4. View[t] \in Calls(t) BY <2>2, <2>3 DEF Calls, Depth
  <2> QED BY <1>4, <2>4 DEF Handlers, Handling, DrainPcs
<1> QED BY <1>3, <1>4

\* One thread drains whenever fences are queued.
LEMMA OneHandlerHolds == IInv => OneHandler
<1> SUFFICES ASSUME IInv PROVE OneHandler OBVIOUS
<1>1. Handler BY DEF IInv, Submission
<1>2. CASE IsThreadHandlingSinks
  <2>1. PICK t \in Threads : Handling(t) BY <1>1, <1>2 DEF Handler
  <2>2. Handlers = {t} BY <1>1, <2>1, HandlersAreHandling DEF Handler
  <2>3. Cardinality(Handlers) = 1 BY <2>2, FS_Singleton
  <2> QED BY <1>1, <1>2, <2>3 DEF OneHandler, Handler
<1>3. CASE ~IsThreadHandlingSinks
  <2>1. Handlers = {} BY <1>1, <1>3, HandlersAreHandling DEF Handler
  <2>2. Cardinality(Handlers) = 0 BY <2>1, FS_EmptySet
  <2> QED BY <1>1, <1>3, <2>2 DEF OneHandler, Handler
<1> QED BY <1>2, <1>3

\* A frame is signalled once, after all of its modules.
LEMMA SignalPlaces ==
    ASSUME IInv, NEW n \in FrameNums, NEW k \in Signals(n)
    PROVE  /\ k \in 1 .. Len(timeline) /\ InFront(timeline, k, n, NumModules[n])
           /\ Signals(n) = {k}
<1>1. k \in 1 .. Len(timeline) /\ timeline[k] = Signal(n) BY DEF Signals
<1>2. timeline[k].kind = "signal" /\ timeline[k].frame = n BY <1>1 DEF Signal
<1>3. InFront(timeline, k, n, NumModules[n])
  BY <1>1, <1>2 DEF IInv, Submission, Pieces
<1>4. \A l \in 1 .. Len(timeline) : timeline[l] = Signal(n) => l = k
  BY <1>1, <1>2 DEF IInv, Submission, SignalsOnce
<1> QED BY <1>1, <1>3, <1>4 DEF Signals

\* Where the modules of a frame are: nowhere, or one after the other.
LEMMA ModulesArePlaced ==
    ASSUME IInv, NEW n \in FrameNums
    PROVE  \/ NoModules(timeline, n)
           \/ \E k \in 1 .. Len(timeline) + 1 : \E m \in Nat : InFront(timeline, k, n, m)
<1>1. Len(timeline) \in Nat BY DEF IInv, Types
<1>2. CASE n \in SignalledFrames
  <2>1. PICK k \in Signals(n) : TRUE BY <1>2 DEF SignalledFrames, Signals
  <2>2. k \in 1 .. Len(timeline) + 1 /\ InFront(timeline, k, n, NumModules[n])
    BY <1>1, <2>1, SignalPlaces
  <2> QED BY <2>2, Constants
<1>3. CASE n \notin SignalledFrames /\ n = HeadFrame
  <2>1. FenceCollectionQueue # <<>> BY <1>3, Constants DEF HeadFrame
  <2>2. PICK t \in Threads : Handling(t) BY <2>1 DEF IInv, Submission, Handler
  <2>3. InFront(timeline, Len(timeline) + 1, n, View[t].index)
    BY <1>3, <2>2 DEF IInv, Submission, HandlersPiece
  <2>4. View[t].index \in Nat BY <2>2, HeadIsPending
  <2>5. Len(timeline) + 1 \in 1 .. Len(timeline) + 1 BY <1>1
  <2> QED BY <2>3, <2>4, <2>5
<1>4. CASE n \notin SignalledFrames /\ n # HeadFrame
  BY <1>4 DEF IInv, Submission, Pieces
<1> QED BY <1>2, <1>3, <1>4

\* The pieces of the frames as the property states them.
LEMMA FrameInOnePieceHolds == IInv => FrameInOnePiece
<1> SUFFICES ASSUME IInv, NEW n \in FrameNums
             PROVE  /\ \A i \in Modules(n) : Cardinality(Places(n, i)) <= 1
                    /\ \A i, j \in Modules(n) : i < j =>
                          \A k \in Places(n, j) : \E l \in Places(n, i) : l < k
                    /\ \A k \in Signals(n) : k - NumModules[n] .. k - 1 = Frame(n)
  BY DEF FrameInOnePiece
<1>1. timeline \in Seq(Commands) /\ Len(timeline) \in Nat BY DEF IInv, Types
<1>2. NumModules[n] \in Nat /\ Modules(n) = 1 .. NumModules[n] BY Constants DEF Modules
<1>3. ASSUME NEW k \in 1 .. Len(timeline) + 1, NEW m \in Nat, InFront(timeline, k, n, m)
      PROVE  /\ m < k
             /\ \A i \in Modules(n) :
                   Places(n, i) = IF i <= m THEN {k - m - 1 + i} ELSE {}
  <2>1. m < k BY <1>3 DEF InFront
  <2>2. ASSUME NEW i \in Modules(n), NEW l \in 1 .. Len(timeline)
        PROVE  l \in Places(n, i) <=> i <= m /\ l = k - m - 1 + i
    <3>1. i \in Nat /\ i >= 1 BY <1>2
    <3>2. timeline[l] = Job("module", n, i) <=> i \in 1 .. m /\ l = k - m - 1 + i
      BY <1>1, <1>3, <3>1, InFrontPlaces
    <3> QED BY <3>1, <3>2 DEF Places
  <2>3. ASSUME NEW i \in Modules(n), i <= m PROVE k - m - 1 + i \in 1 .. Len(timeline)
    BY <1>1, <1>2, <2>1, <2>3
  <2>4. ASSUME NEW i \in Modules(n)
        PROVE  Places(n, i) = IF i <= m THEN {k - m - 1 + i} ELSE {}
    <3>1. Places(n, i) \subseteq 1 .. Len(timeline) BY DEF Places
    <3> QED BY <2>2, <2>3, <3>1
  <2> QED BY <2>1, <2>4
<1>4. CASE NoModules(timeline, n)
  <2>1. \A i \in Modules(n) : Places(n, i) = {} BY <1>4 DEF Places, NoModules, Job
  <2>2. Cardinality({}) <= 1 BY FS_EmptySet
  <2>3. ASSUME NEW k \in Signals(n) PROVE k - NumModules[n] .. k - 1 = Frame(n)
    <3>1. k \in 1 .. Len(timeline) /\ InFront(timeline, k, n, NumModules[n])
      BY <2>3, SignalPlaces
    <3>2. k \in 1 .. Len(timeline) + 1 BY <1>1, <3>1
    <3>3. \A i \in Modules(n) : i <= NumModules[n] BY <1>2
    <3>4. \A i \in Modules(n) : FALSE BY <1>2, <1>3, <2>1, <3>1, <3>2, <3>3
    <3>5. NumModules[n] = 0 BY <1>2, <3>4
    <3>6. Frame(n) = {} BY <3>4 DEF Frame
    <3> QED BY <1>1, <3>1, <3>5, <3>6
  <2> QED BY <2>1, <2>2, <2>3
<1>5. CASE ~NoModules(timeline, n)
  <2>1. PICK k \in 1 .. Len(timeline) + 1, m \in Nat : InFront(timeline, k, n, m)
    BY <1>5, ModulesArePlaced
  <2>2. m < k /\ \A i \in Modules(n) : Places(n, i) = IF i <= m THEN {k - m - 1 + i} ELSE {}
    BY <1>3, <2>1
  <2>3. ASSUME NEW i \in Modules(n) PROVE Cardinality(Places(n, i)) <= 1
    <3>1. CASE i <= m
      <4>1. Places(n, i) = {k - m - 1 + i} BY <2>2, <3>1
      <4>2. Cardinality(Places(n, i)) = 1 BY <4>1, FS_Singleton
      <4> QED BY <4>2
    <3>2. CASE ~(i <= m)
      <4>1. Places(n, i) = {} BY <2>2, <3>2
      <4>2. Cardinality(Places(n, i)) = 0 BY <4>1, FS_EmptySet
      <4> QED BY <4>2
    <3> QED BY <3>1, <3>2
  <2>4. ASSUME NEW i \in Modules(n), NEW j \in Modules(n), i < j, NEW p \in Places(n, j)
        PROVE  \E l \in Places(n, i) : l < p
    <3>1. j <= m /\ p = k - m - 1 + j BY <2>2, <2>4
    <3>2. i <= m /\ k - m - 1 + i < p BY <1>1, <1>2, <2>4, <3>1
    <3>3. k - m - 1 + i \in Places(n, i) BY <2>2, <3>2
    <3> QED BY <3>2, <3>3
  <2>5. ASSUME NEW p \in Signals(n) PROVE p - NumModules[n] .. p - 1 = Frame(n)
    <3> DEFINE N == NumModules[n]
    <3>1. p \in 1 .. Len(timeline) /\ InFront(timeline, p, n, N) BY <2>5, SignalPlaces
    <3>2. p \in 1 .. Len(timeline) + 1 BY <1>1, <3>1
    <3>3. /\ N < p
          /\ \A i \in Modules(n) : Places(n, i) = IF i <= N THEN {p - N - 1 + i} ELSE {}
      BY <1>2, <1>3, <3>1, <3>2
    <3>4. ASSUME NEW i \in 1 .. N PROVE Places(n, i) = {p - N - 1 + i} BY <1>2, <3>3
    <3>5. ASSUME NEW l PROVE l \in Frame(n) <=> \E i \in 1 .. N : l = p - N - 1 + i
      BY <1>2, <3>4 DEF Frame
    <3> HIDE DEF N
    <3>6. N \in Nat /\ p \in Nat BY <1>1, <1>2, <3>1 DEF N
    <3>7. ASSUME NEW l PROVE l \in p - N .. p - 1 <=> \E i \in 1 .. N : l = p - N - 1 + i
      <4>1. ASSUME l \in p - N .. p - 1 PROVE \E i \in 1 .. N : l = p - N - 1 + i
        <5>1. l - (p - N - 1) \in 1 .. N /\ l = p - N - 1 + (l - (p - N - 1)) BY <3>6, <4>1
        <5> QED BY <5>1
      <4>2. ASSUME NEW i \in 1 .. N, l = p - N - 1 + i PROVE l \in p - N .. p - 1
        BY <3>6, <4>2
      <4> QED BY <4>1, <4>2
    <3> QED BY <3>5, <3>7 DEF N
  <2> QED BY <2>3, <2>4, <2>5
<1> QED BY <1>4, <1>5

\* A FrameGraph that is reset was used by a frame now completed.
LEMMA ResetIsLate ==
    ASSUME IInv, MAX_FRAMES_IN_FLIGHT <= 2, ResetFrameGraph,
           Top(Main).job.frame - MAX_FRAMES_IN_FLIGHT >= 0
    PROVE  Completed(Top(Main).job.frame - MAX_FRAMES_IN_FLIGHT)
<1>1. Busy(Main) /\ Top(Main).pc = "wait" /\ hEvent[Slot(Top(Main).job.frame)]
  BY DEF ResetFrameGraph, At
<1>2. Top(Main) = MainCall /\ Current \in FrameNums
  BY <1>1, MainAtTop DEF IInv, MainPcs
<1>3. ResetFrames = 0 .. Current - 1 BY <1>1, <1>2 DEF ResetFrames
<1>4. Current \in Nat /\ Current - MAX_FRAMES_IN_FLIGHT >= 0 BY <1>2, Constants DEF Current
<1>5. PICK n \in Nat : n = Current - MAX_FRAMES_IN_FLIGHT BY <1>4, Constants
<1>6. n + MAX_FRAMES_IN_FLIGHT = Current BY <1>4, <1>5, Constants
<1>7. n \in ResetFrames /\ Current \notin ResetFrames BY <1>3, <1>4, <1>6, Constants
<1>8. Slot(n) = Slot(Current) BY <1>6, SlotReturns
<1>9. n \in CompletedFrames
  BY <1>1, <1>2, <1>6, <1>7, <1>8 DEF IInv, Submission, Resets, Current
<1>10. Completed(n) BY <1>9 DEF CompletedFrames, Completed, Signals
<1> QED BY <1>2, <1>5, <1>10 DEF Current

\* Every variable has its type, in every reachable state.
THEOREM TypeCorrect == MAX_FRAMES_IN_FLIGHT <= 2 => (Spec => []Types)
<1> SUFFICES ASSUME MAX_FRAMES_IN_FLIGHT <= 2 PROVE Spec => []Types OBVIOUS
<1>1. Init => IInv BY InitiallyInOrder
<1>2. IInv /\ [Next]_vars => IInv' BY StepKeeps
<1>3. IInv => Types BY DEF IInv
<1> QED BY <1>1, <1>2, <1>3, PTL DEF Spec

\* With at most two frames in flight, as the engine has, the sinks have one
\* handler exactly while fences are queued, and the GPU is given each frame in one
\* piece: its modules once each, in order, and its fences after them.
THEOREM FramesTakeTurns == MAX_FRAMES_IN_FLIGHT <= 2 => (Spec => []SinksInOrder)
<1> SUFFICES ASSUME MAX_FRAMES_IN_FLIGHT <= 2 PROVE Spec => []SinksInOrder OBVIOUS
<1>1. Init => IInv BY InitiallyInOrder
<1>2. IInv /\ [Next]_vars => IInv' BY StepKeeps
<1>3. IInv => SinksInOrder BY OneHandlerHolds, FrameInOnePieceHolds DEF SinksInOrder
<1> QED BY <1>1, <1>2, <1>3, PTL DEF Spec

\* With at most two frames in flight, Main resets a FrameGraph only when the GPU
\* has executed all of the frame that used it last.
THEOREM FrameGraphsAreFree == MAX_FRAMES_IN_FLIGHT <= 2 => (Spec => ResetAfterExecution)
<1> SUFFICES ASSUME MAX_FRAMES_IN_FLIGHT <= 2 PROVE Spec => ResetAfterExecution OBVIOUS
<1>1. Init => IInv BY InitiallyInOrder
<1>2. IInv /\ [Next]_vars => IInv' BY StepKeeps
<1>3. IInv /\ [Next]_vars =>
        [ResetFrameGraph => LET n == Top(Main).job.frame - MAX_FRAMES_IN_FLIGHT
                            IN  n >= 0 => Completed(n)]_vars
  BY ResetIsLate
<1> QED BY <1>1, <1>2, <1>3, PTL DEF Spec, ResetAfterExecution
=============================================================================
