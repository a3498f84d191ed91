--------------------------- MODULE AudioStreaming ---------------------------
(***************************************************************************)
(* The application of BrawlerResourceStreaming: its thread updates the     *)
(* asset dependencies and then a StreamedAudioVoice, over and over.  The   *)
(* voice keeps two buffers queued in XAudio2 and asks its asset for the    *)
(* blocks it lacks; the asset passes these on as critical load requests of *)
(* the next update of the asset dependencies, whose jobs decompress blocks *)
(* of the file into a ring of three, and XAudio2 plays from that ring.     *)
(***************************************************************************)
EXTENDS AssetDependencies, Sequences

CONSTANTS Audio,                    \* the StreamedAudio asset
          FileBlocks,               \* the blocks of its file, the first with the header
          DESIRED_QUEUED_AUDIO_BUFFER_COUNT, ZSTD_BLOCK_ARRAY_SIZE,
          AUDIO_QUEUE_SIZE          \* of the two queues of StreamedAudio

\* The size of a request is counted in blocks.
AudioRequests == {r \in DataRequests : Info[r].asset = Audio}

\* The groups the application submits with its asset: plain AssetDependencyGroups,
\* whose assets are checked in every update.
AudioHeads == {g \in Heads \ PersistentGroups : Audio \in mAssetDependencies[g]}

\* Two buffers are asked for in advance, and the ring has three slots.
ASSUME AudioStreamingAssumption ==
    /\ Audio \in Assets /\ FileBlocks \in Nat \ {0, 1}
    /\ ZSTD_BLOCK_ARRAY_SIZE \in Nat \ {0} /\ AUDIO_QUEUE_SIZE \in Nat \ {0}
    /\ DESIRED_QUEUED_AUDIO_BUFFER_COUNT \in 1 .. ZSTD_BLOCK_ARRAY_SIZE - 1
    /\ \A r \in AudioRequests : Info[r].kind = "load" /\ Info[r].priority = CRITICAL

VARIABLES mPendingLoadRequestQueue, mLoadRequestQueue,  \* of the asset: block counts
          mDecodedZSTDBlockArr,     \* by slot: the block of the file in it, or 0
          mCurrLoadIndex, mCurrRetrievalIndex, mLoadedDataCount,
          nextBlock,                \* where the decompression is in the file
          mState,                   \* of the WAVEFormatHandler: blocks read of the data chunk
          mWaveFormatEx,            \* whether the format is known
          turn,                     \* of the application's loop
          buffersToQueue,           \* local of CheckAudioBuffers
          voice, xaudio             \* XAudio2: the state of the voice, its buffers

streamVars    == <<mDecodedZSTDBlockArr, mCurrLoadIndex, mCurrRetrievalIndex,
                   mLoadedDataCount, nextBlock>>
voiceVars     == <<mState, mWaveFormatEx, turn, buffersToQueue, voice>>
loadVars      == <<mPendingLoadRequestQueue, mLoadRequestQueue>>
audioVars     == <<streamVars, voiceVars, loadVars, xaudio>>
streamingVars == <<assetVars, audioVars>>

\* Application::Initialize submits the group of the asset and makes the voice,
\* which asks for its first blocks.
StreamingInit ==
    /\ \E g \in AudioHeads : AssetInit({g})
    /\ mPendingLoadRequestQueue = <<DESIRED_QUEUED_AUDIO_BUFFER_COUNT>>
    /\ mLoadRequestQueue = <<>>
    /\ mDecodedZSTDBlockArr = [i \in 0 .. ZSTD_BLOCK_ARRAY_SIZE - 1 |-> 0]
    /\ mCurrLoadIndex = 0 /\ mCurrRetrievalIndex = 0 /\ mLoadedDataCount = 0
    /\ nextBlock = 1 /\ mState = 0 /\ mWaveFormatEx = FALSE
    /\ turn = "initialize" /\ buffersToQueue = 0 /\ voice = "none" /\ xaudio = <<>>

-----------------------------------------------------------------------------
(* The asset and its blocks. *)

\* StreamedAudio::UpdateAssetData: a request for each pending one.  A full
\* queue would end the application.
AudioUpdateAssetData(g) ==
    /\ Len(mLoadRequestQueue) + Len(mPendingLoadRequestQueue) <= AUDIO_QUEUE_SIZE
    /\ \E wanted \in SUBSET AudioRequests :
          /\ \A n \in 1 .. DESIRED_QUEUED_AUDIO_BUFFER_COUNT :
                Cardinality({r \in wanted : Info[r].size = n})
                  = Cardinality({i \in DOMAIN mPendingLoadRequestQueue :
                                    mPendingLoadRequestQueue[i] = n})
          /\ UpdateAssetData(g, Audio, wanted)
    /\ mLoadRequestQueue' = mLoadRequestQueue \o mPendingLoadRequestQueue
    /\ mPendingLoadRequestQueue' = <<>>
    /\ UNCHANGED <<streamVars, voiceVars, xaudio>>

\* LoadAudioData: n blocks are decompressed, starting over at the end of the
\* file, and each goes to the next slot of the ring.
SmallerRing(i) == i % (ZSTD_BLOCK_ARRAY_SIZE - 1)  \* mutant
Slot(i)  == i % ZSTD_BLOCK_ARRAY_SIZE
Block(b) == ((b - 1) % FileBlocks) + 1
LoadAudioData(n) ==
    /\ mDecodedZSTDBlockArr' = [i \in DOMAIN mDecodedZSTDBlockArr |->
          LET stores == {k \in 0 .. n - 1 : Slot(mCurrLoadIndex + k) = i}
          IN IF stores = {} THEN mDecodedZSTDBlockArr[i] ELSE Block(nextBlock + Max(stores))]
    /\ mCurrLoadIndex' = Slot(mCurrLoadIndex + n)
    /\ mLoadedDataCount' = Min({mLoadedDataCount + n, ZSTD_BLOCK_ARRAY_SIZE})
    /\ nextBlock' = Block(nextBlock + n)
    /\ UNCHANGED mCurrRetrievalIndex

\* StreamedAudio::ExecuteAssetDataLoad serves the oldest request of the asset,
\* whichever request it is called for.
ExecuteAssetDataLoad(job, r) ==
    /\ ExecuteRequest(job, r) /\ mLoadRequestQueue # <<>>
    /\ LoadAudioData(Head(mLoadRequestQueue))
    /\ mLoadRequestQueue' = Tail(mLoadRequestQueue)
    /\ UNCHANGED <<done, mPendingLoadRequestQueue, voiceVars, xaudio>>

\* The block a retrieval would return; 0 stands for none.
GetNextLoadedDataBlock ==
    IF mLoadedDataCount = 0 \/ mCurrLoadIndex = mCurrRetrievalIndex
    THEN 0 ELSE mDecodedZSTDBlockArr[mCurrRetrievalIndex]

-----------------------------------------------------------------------------
(* The voice. *)

\* WAVEFormatHandler::GetAudioData.  A handler that is done with the data chunk,
\* or has no state, takes the beginning of a block for that of a chunk: only the
\* header block begins with one.  Any other block would make it throw.
AtChunk == mState \in {0, FileBlocks}
CanParse(block) == AtChunk => block = 1
AfterBlock == IF AtChunk THEN 1 ELSE mState + 1

RequestAudioDataLoad(n) ==
    /\ Len(mPendingLoadRequestQueue) < AUDIO_QUEUE_SIZE
    /\ mPendingLoadRequestQueue' = Append(mPendingLoadRequestQueue, n)

\* Mutant: always two buffers, whatever is queued.
FullSet == DESIRED_QUEUED_AUDIO_BUFFER_COUNT
Lacking == DESIRED_QUEUED_AUDIO_BUFFER_COUNT - Len(xaudio)

\* TryInitializeXAudio2Voice: the format is in the first block, which is only
\* looked at; then CheckAudioBuffers calls GetState.
BeginVoiceUpdate ==
    /\ turn = "voice"
    /\ LET header == ~ mWaveFormatEx /\ GetNextLoadedDataBlock # 0
           known  == mWaveFormatEx \/ header
       IN /\ header => CanParse(GetNextLoadedDataBlock)
          /\ mWaveFormatEx' = known
          /\ mState' = IF header THEN 0 ELSE mState
          /\ voice' = IF voice = "none" /\ known THEN "created" ELSE voice
          /\ turn' = IF known THEN "buffers" ELSE "preupdate"
          /\ buffersToQueue' = IF known THEN Lacking ELSE 0
    /\ UNCHANGED <<assetVars, streamVars, loadVars, xaudio>>

\* One turn of the loop of CheckAudioBuffers that finds a buffer.
SubmitSourceBuffer ==
    LET block == GetNextLoadedDataBlock
    IN /\ turn = "buffers" /\ buffersToQueue > 0 /\ block # 0 /\ CanParse(block)
       /\ mState' = AfterBlock
       /\ xaudio' = Append(xaudio, [slot |-> mCurrRetrievalIndex, block |-> block])
       /\ mCurrRetrievalIndex' = Slot(mCurrRetrievalIndex + 1)
       /\ buffersToQueue' = buffersToQueue - 1
       /\ voice' = "started"
       /\ UNCHANGED <<assetVars, loadVars, mDecodedZSTDBlockArr, mCurrLoadIndex,
                      mLoadedDataCount, nextBlock, mWaveFormatEx, turn>>

\* The loop is left; what is lacking is requested.
EndVoiceUpdate ==
    /\ turn = "buffers"
    /\ buffersToQueue = 0 \/ GetNextLoadedDataBlock = 0
    /\ turn' = "preupdate" /\ buffersToQueue' = 0
    /\ IF buffersToQueue > 0 THEN RequestAudioDataLoad(buffersToQueue)
                             ELSE UNCHANGED mPendingLoadRequestQueue
    /\ UNCHANGED <<assetVars, streamVars, mLoadRequestQueue, mState, mWaveFormatEx,
                   voice, xaudio>>

\* External: XAudio2, on a thread of its own, is done with a buffer.
BufferEnds ==
    /\ voice = "started" /\ xaudio # <<>>
    /\ xaudio' = Tail(xaudio)
    /\ UNCHANGED <<assetVars, streamVars, voiceVars, loadVars>>

-----------------------------------------------------------------------------
(* The application. *)

PreUpdate ==
    /\ turn \in {"initialize", "preupdate"} /\ BeginUpdate
    /\ turn' = "update"
    /\ UNCHANGED <<streamVars, loadVars, xaudio, mState, mWaveFormatEx, buffersToQueue, voice>>
UpdateEnds ==
    /\ EndUpdate /\ turn' = "voice"
    /\ UNCHANGED <<streamVars, loadVars, xaudio, mState, mWaveFormatEx, buffersToQueue, voice>>

\* A group is submitted by the thread of the application, or by one of the jobs
\* it waits for, between two updates of the dependencies.
SubmitGroup == /\ \E g \in Groups : SubmitAssetDependencyGroup(g)
               /\ turn \in {"initialize", "voice"}
               /\ UNCHANGED audioVars

Manager ==
    /\ \/ \E g \in Groups : CheckDependencies(g) \/ EndCheck(g)
       \/ \E j \in AssetJobs : UpdateAssetDataIMPL(j[1], j[2])
       \/ \E kind \in Kinds : PullRequests(kind)
       \/ BeginProcessing \/ BeginExecution
    /\ UNCHANGED audioVars

OtherUpdate ==
    /\ \E j \in AssetJobs, wanted \in SUBSET (DataRequests \ AudioRequests) :
          j[2] # Audio /\ UpdateAssetData(j[1], j[2], wanted)
    /\ UNCHANGED audioVars
AudioUpdate == \E g \in Groups : Audio \in mAssetDependencies[g] /\ AudioUpdateAssetData(g)

OtherExecute == /\ \E job \in jobs, r \in DataRequests \ AudioRequests :
                      ExecuteRequest(job, r) /\ done' = done \cup {r}
                /\ UNCHANGED audioVars
AudioExecute == \E job \in jobs, r \in AudioRequests : ExecuteAssetDataLoad(job, r)

Running == \/ PreUpdate \/ UpdateEnds \/ Manager \/ OtherUpdate \/ AudioUpdate
           \/ OtherExecute \/ AudioExecute
           \/ BeginVoiceUpdate \/ SubmitSourceBuffer \/ EndVoiceUpdate

StreamingNext == \/ SubmitGroup \/ Running \/ BufferEnds

\* The application's loop and the jobs it waits for go on, and XAudio2 plays.
StreamingFairness == WF_streamingVars(Running) /\ WF_streamingVars(BufferEnds)
StreamingSpec == StreamingInit /\ [][StreamingNext]_streamingVars /\ StreamingFairness

-----------------------------------------------------------------------------
\* A request an asset has made is executed in the end, whatever its size and
\* priority, if assets do not keep making smaller ones.
EveryRequestIsExecuted == []<>(queued \ AudioRequests \subseteq done)

\* A buffer queued in XAudio2 still has the block it was submitted with, and
\* the blocks are queued in the order of the file.
QueuedBuffersAreIntact ==
    \A i \in DOMAIN xaudio :
        /\ mDecodedZSTDBlockArr[xaudio[i].slot] = xaudio[i].block
        /\ i > 1 => xaudio[i].block = Block(xaudio[i - 1].block + 1)

\* The music goes on: XAudio2 is always given another buffer.
MusicGoesOn == []<><<xaudio' # xaudio /\ Len(xaudio') > Len(xaudio)>>_streamingVars

\* Both: streaming starves neither the assets nor the music
\* (AssetDependencyManager::UpdateAssetDependencies).
StreamingGoesOn == EveryRequestIsExecuted /\ MusicGoesOn
=============================================================================
