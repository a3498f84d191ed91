----------------------------- MODULE FilePacker -----------------------------
(***************************************************************************)
(* The FilePacker: a build compiles each asset of a directory in a job of   *)
(* its own, and packs what they give into a .bpk archive.  Compiled assets  *)
(* are kept on disk, as .bca archives, for the next build.  A .bcainfo file *)
(* is parsed in a job, too, and the jobs of the assets beside it wait for   *)
(* it, executing other jobs.                                                *)
(*                                                                         *)
(* A build may be killed, and another one follows.                         *)
(***************************************************************************)
EXTENDS BPKArchive

CONSTANTS
    WORKERS,        \* the number of worker threads
    JOB_QUEUE_SIZE, \* of each worker's queue
    Assets, Directories,
    Files,              \* the assets, .bcainfo files, and others a name can lead to
    DirectoryOf,        \* [file -> its directory]
    FileOrder,          \* the assets and directories in the order they are found
    Texts,              \* [directory -> its .bcainfo file or NoFile], the possible ones
    Attributes,
    Versions, FirstVersion,             \* of an asset's data
    CompressedFrame, RawFrame,          \* [asset -> [version -> a frame]]
    Modes,              \* of a build
    MaxBuilds, MaxCrashes

Main == 0
Workers == 1 .. WORKERS
Threads == {Main} \cup Workers

VARIABLES
    mJobQueueMap,       \* [worker -> its queue of jobs]
    workerThreadIndex,  \* the worker the next job goes to
    mJobArr,            \* the jobs Main has not dispatched yet
    mCounter,           \* the counter of its group
    mExceptionQueue,    \* the number of exceptions in it
    mKeepGoing,         \* [worker -> it was not told to stop]
    stack,              \* [thread -> the frames of its jobs, the last one on top]
    source,             \* [asset -> its version]
    bcaInfoText,        \* [directory -> its .bcainfo file, or NoFile]
    cache,              \* [asset -> its .bca archive]
    mBuildMode,
    RootDataDirectory,  \* as it was given: "absolute", and in normal form, or "relative"
    mBCAInfoParentPathMap,  \* [directory with a .bcainfo -> the assets it knows, and ReadyFlag]
    mBCAArchiveArr,     \* what the linker has
    result,             \* of the last build
    builds, crashes

poolVars == <<mJobQueueMap, workerThreadIndex, mJobArr, mCounter, mExceptionQueue,
              mKeepGoing, stack>>
fileVars == <<source, bcaInfoText, cache>>
buildVars == <<mBuildMode, RootDataDirectory, mBCAInfoParentPathMap, mBCAArchiveArr, result,
               builds, crashes>>
vars == <<poolVars, bpkVars, fileVars, buildVars>>

NoFile == <<"no file">>

-----------------------------------------------------------------------------
(* The job system of the FilePacker (BrawlerResourceStreaming has the same): *)
(* each worker has a queue of its own, and a thread that waits, or a worker  *)
(* without work, executes jobs from any of them.  There is one group of      *)
(* jobs, that of the application's thread.                                   *)
(*                                                                           *)
(* The search of the queues is one step, which may find the first job of     *)
(* any: those it has passed may have filled meanwhile.                       *)

NoThreads == /\ mJobQueueMap = [w \in Workers |-> <<>>] /\ workerThreadIndex = 1
             /\ mJobArr = <<>> /\ mCounter = 0 /\ mExceptionQueue = 0
             /\ mKeepGoing = [w \in Workers |-> FALSE]
             /\ stack = [t \in Threads |-> <<>>]

Top(t) == stack[t][Len(stack[t])]
At(t, pc) == stack[t] # <<>> /\ Top(t).pc = pc
Goto(t, pc) == stack' = [stack EXCEPT ![t][Len(stack[t])].pc = pc]
Push(s, frame) == Append(s, frame)
Pop(s) == SubSeq(s, 1, Len(s) - 1)

\* The constructor, and Main's call of the application; the queues are new.
StartThreads(frame) ==
    /\ mJobQueueMap' = [w \in Workers |-> <<>>] /\ workerThreadIndex' = 1
    /\ mJobArr' = <<>> /\ mCounter' = 0 /\ mExceptionQueue' = 0
    /\ mKeepGoing' = [w \in Workers |-> TRUE]
    /\ stack' = [t \in Threads |-> IF t = Main THEN <<frame>> ELSE <<>>]

\* ExecuteJobs sets the counter before the first job is dispatched.
SetCounterValue(jobs) == mJobArr' = jobs /\ mCounter' = Len(jobs)

IsGroupFinished == mCounter = 0

\* DispatchJob to the next worker in turn; AddJob tries until its queue has room.
HasRoom(w) == Len(mJobQueueMap[w]) < JOB_QUEUE_SIZE
DispatchJob ==
    /\ At(Main, "dispatch") /\ mJobArr # <<>> /\ HasRoom(workerThreadIndex)
    /\ mJobQueueMap' = [mJobQueueMap EXCEPT ![workerThreadIndex] = Append(@, Head(mJobArr))]
    /\ workerThreadIndex' = (workerThreadIndex % WORKERS) + 1
    /\ mJobArr' = Tail(mJobArr)
    /\ Goto(Main, IF mJobArr' = <<>> THEN "await" ELSE "dispatch")
    /\ UNCHANGED <<mCounter, mExceptionQueue, mKeepGoing>>

GetNextJob(t, w) ==
    /\ mJobQueueMap[w] # <<>>
    /\ mJobQueueMap' = [mJobQueueMap EXCEPT ![w] = Tail(@)]
    /\ stack' = [stack EXCEPT ![t] = Push(@, [job |-> Head(mJobQueueMap[w]), pc |-> "start"])]

\* TryExecuteJob: Main looks for exceptions first.
AcquireQueuedJob(t) ==
    /\ t = Main => mExceptionQueue = 0
    /\ \E w \in Workers : GetNextJob(t, w)
    /\ UNCHANGED <<workerThreadIndex, mJobArr, mCounter, mExceptionQueue, mKeepGoing>>

\* ExecuteMainLoop.
WorkerLoop(w) == stack[w] = <<>> /\ mKeepGoing[w] /\ AcquireQueuedJob(w)

\* The end of Job::Execute.
DecrementCounter(t) ==
    /\ At(t, "done")
    /\ mCounter' = mCounter - 1
    /\ stack' = [stack EXCEPT ![t] = Pop(@)]
    /\ UNCHANGED <<mJobQueueMap, workerThreadIndex, mJobArr, mExceptionQueue, mKeepGoing>>

\* Mutant: the worker ends and says nothing.
ThrowNothing(t, leave) ==
    /\ stack' = [stack EXCEPT ![t] = IF t = Main THEN <<[job |-> [kind |-> "main"], pc |-> leave]>>
                                     ELSE <<>>]
    /\ mKeepGoing' = IF t = Main THEN mKeepGoing ELSE [mKeepGoing EXCEPT ![t] = FALSE]
    /\ UNCHANGED <<mJobQueueMap, workerThreadIndex, mJobArr, mCounter, mExceptionQueue>>

\* An exception leaves all the jobs of a worker, and ends it; one on Main goes on
\* to main, past the counter.
ThrowException(t, leave) ==
    /\ IF t = Main
       THEN /\ stack' = [stack EXCEPT ![Main] = <<[job |-> [kind |-> "main"], pc |-> leave]>>]
            /\ UNCHANGED <<mExceptionQueue, mKeepGoing>>
       ELSE /\ stack' = [stack EXCEPT ![t] = <<>>]
            /\ mExceptionQueue' = mExceptionQueue + 1
            /\ mKeepGoing' = [mKeepGoing EXCEPT ![t] = FALSE]
    /\ UNCHANGED <<mJobQueueMap, workerThreadIndex, mJobArr, mCounter>>

\* HandleWorkerThreadExceptions, whenever Main would look for a job.
HandleWorkerThreadExceptions(leave) ==
    /\ mExceptionQueue > 0
    /\ mExceptionQueue' = mExceptionQueue - 1
    /\ stack' = [stack EXCEPT ![Main] = <<[job |-> [kind |-> "main"], pc |-> leave]>>]
    /\ UNCHANGED <<mJobQueueMap, workerThreadIndex, mJobArr, mCounter, mKeepGoing>>

\* The destructor: one worker after the other is told to stop and joined.
KillThread(w) ==
    /\ mKeepGoing' = [mKeepGoing EXCEPT ![w] = FALSE]
    /\ UNCHANGED <<mJobQueueMap, workerThreadIndex, mJobArr, mCounter, mExceptionQueue>>
IsJoinable(w) == ~mKeepGoing[w] /\ stack[w] = <<>>

-----------------------------------------------------------------------------
(* The parser of .bcainfo files, which say how the assets of a directory    *)
(* are to be compiled.  A file is a sequence of lexemes: punctuation, the   *)
(* values of booleans and quoted strings (names of files, or of attributes),*)
(* which are told apart by what the parser finds out about them; a name is  *)
(* taken for the file that it leads to from the directory.  The parser looks*)
(* at one lexeme after the other and never goes back, so that it is a fold. *)

Booleans == {"true", "TRUE", "false", "FALSE"}
Lexemes == Files \cup Attributes \cup Booleans \cup {":", "{", "}", ",", "other"}

-----------------------------------------------------------------------------
(* A parser: what it expects, the asset it is at, and what is known of the  *)
(* assets it is through with.                                               *)

Begin == [at |-> "asset", file |-> "other", DoNotCompress |-> FALSE, infos |-> <<>>]
AddErrorString(p) == [p EXCEPT !.at = "error"]
Expect(p, lexeme, expected, next) == IF lexeme = expected THEN [p EXCEPT !.at = next]
                                     ELSE AddErrorString(p)

\* The name must lead to a file and not to a directory; it may lead anywhere.
ParseFileName(p, lexeme) ==
    IF lexeme \in Files
    THEN [p EXCEPT !.at = "colon", !.file = lexeme, !.DoNotCompress = FALSE]
    ELSE AddErrorString(p)

EndAttributeList(p) ==
    [p EXCEPT !.at = "asset",
              !.infos = Append(@, [file |-> p.file, DoNotCompress |-> p.DoNotCompress])]

\* Between two attributes there is a comma, and there may be one after the last.
ParseAttributeList(p, lexeme) ==
    CASE p.at = "attribute" /\ lexeme \in Attributes -> [p EXCEPT !.at = "attribute colon"]
      [] p.at = "comma" /\ lexeme = ","              -> [p EXCEPT !.at = "attribute"]
      [] lexeme = "}"                                -> EndAttributeList(p)
      [] OTHER                                       -> AddErrorString(p)

\* The last value of an attribute is the one that counts.
ParseValue(p, lexeme) ==
    IF lexeme \in Booleans
    THEN [p EXCEPT !.at = "comma", !.DoNotCompress = lexeme \in {"true", "TRUE"}]
    ELSE AddErrorString(p)

ParseLexeme(p, lexeme) ==
    CASE p.at = "asset"               -> ParseFileName(p, lexeme)
      [] p.at = "colon"               -> Expect(p, lexeme, ":", "brace")
      [] p.at = "brace"               -> Expect(p, lexeme, "{", "attribute")
      [] p.at \in {"attribute", "comma"} -> ParseAttributeList(p, lexeme)
      [] p.at = "attribute colon"     -> Expect(p, lexeme, ":", "value")
      [] p.at = "value"               -> ParseValue(p, lexeme)
      [] p.at = "error"               -> p

\* An asset of which the description is not complete is not known at all.
ParseBCAInfoFile(text) == FoldLeft(ParseLexeme, Begin, text)
IsSuccessful(p) == p.at = "asset"

-----------------------------------------------------------------------------
(* The grammar, as the comment at the head of BCAInfoParser.cpp has it.      *)

From(s, n) == SubSeq(s, n, Len(s))
IsAttribute(s) == Len(s) = 3 /\ s[1] \in Attributes /\ s[2] = ":" /\ s[3] \in Booleans

RECURSIVE IsAttributeList(_)
IsAttributeList(s) == \/ s = <<>> \/ IsAttribute(s)
                      \/ /\ Len(s) > 3 /\ IsAttribute(SubSeq(s, 1, 3)) /\ s[4] = ","
                         /\ IsAttributeList(From(s, 5))

IsSourceAssetInfo(s) == /\ Len(s) >= 4 /\ s[1] \in Files /\ s[2] = ":" /\ s[3] = "{"
                        /\ IsAttributeList(SubSeq(s, 4, Len(s) - 1)) /\ s[Len(s)] = "}"

RECURSIVE IsBCAInfo(_)
IsBCAInfo(s) == \/ s = <<>>
                \/ \E n \in 1 .. Len(s) : /\ IsSourceAssetInfo(SubSeq(s, 1, n))
                                           /\ IsBCAInfo(From(s, n + 1))

\* Sentences of up to two assets, and what is one lexeme away from them.
AttributeLists ==
    LET one == {<<a, ":", v>> : a \in Attributes, v \in {"true", "FALSE"}}
        two == {x \o <<",">> \o y : x \in one, y \in one}
    IN  {<<>>} \cup UNION {{x, x \o <<",">>} : x \in one \cup two}
Infos(lists) == {<<f, ":", "{">> \o x \o <<"}">> : f \in Files, x \in lists}
Sentences == {<<>>} \cup Infos(AttributeLists)
                \cup {x \o y : x \in Infos({l \in AttributeLists : Len(l) = 3}),
                              y \in Infos({l \in AttributeLists : Len(l) \in {0, 4}})}
Edits(s) == UNION {{SubSeq(s, 1, n - 1) \o x \o From(s, m) : x \in {<<>>} \cup {<<l>> : l \in Lexemes},
                                                         m \in {n, n + 1}} : n \in 1 .. Len(s)}

\* A file is parsed if and only if it is in the grammar, and an asset is compressed
\* unless the last value of its attribute says otherwise.
ParserFollowsGrammar ==
    \A s \in Sentences \cup UNION {Edits(s) : s \in Sentences} :
        LET parser == ParseBCAInfoFile(s)
            ends == SelectSeq([n \in DOMAIN s |-> n], LAMBDA n : s[n] = "}")
            value(n) == IF s[n - 1] = "," THEN s[n - 2] ELSE s[n - 1]
        IN  /\ IsSuccessful(parser) <=> IsBCAInfo(s)
            /\ IsBCAInfo(s) =>
                  /\ Len(parser.infos) = Len(ends)
                  /\ \A i \in DOMAIN ends :
                        parser.infos[i].DoNotCompress <=> value(ends[i]) \in {"true", "TRUE"}

-----------------------------------------------------------------------------
(* A build. *)

Parser == [text \in UNION {{texts[d] : d \in Directories} : texts \in Texts} \ {NoFile} |->
              ParseBCAInfoFile(text)]

NoArchive == [kind |-> "none"]
Truncated == [kind |-> "truncated"]
Archive(mode, version, frame) ==
    [kind |-> "bca", mode |-> mode, hash |-> version, frame |-> frame]

PackerInit ==
    /\ NoThreads /\ BPKInit
    /\ source = [a \in Assets |-> FirstVersion] /\ bcaInfoText \in Texts
    /\ cache = [a \in Assets |-> NoArchive]
    /\ mBuildMode = "release" /\ RootDataDirectory \in {"absolute", "relative"}
    /\ mBCAInfoParentPathMap = <<>> /\ mBCAArchiveArr = <<>>
    /\ result = "none" /\ builds = 0 /\ crashes = 0

Registered(text) == {d \in Directories : text[d] # NoFile}
JobOf(file) == IF file \in Assets THEN [kind |-> "compile", asset |-> file]
                                  ELSE [kind |-> "parse", directory |-> file]

-----------------------------------------------------------------------------
(* The application's thread.                                               *)

\* Since the last build assets may have been edited, and the mode is chosen anew.  No
\* build reads the archive of another one, which need not be kept any longer.
Sources == {edited \in [Assets -> Versions] :
               \A a \in Assets : edited[a] \in DOMAIN CompressedFrame[a]}
StartBuild(mode, edited) ==
    /\ result # "running" /\ builds < MaxBuilds
    /\ builds = 0 => edited = source /\ mode = mBuildMode
    /\ source' = edited
    /\ result' = "running" /\ builds' = builds + 1 /\ mBuildMode' = mode
    /\ StartThreads([job |-> [kind |-> "main"], pc |-> "compile"])
    /\ mBCAInfoParentPathMap' = <<>> /\ mBCAArchiveArr' = <<>> /\ reader' = NoReader
    /\ bpk' = <<>>
    /\ UNCHANGED <<RootDataDirectory, bcaInfoText, cache, crashes>>

\* CompileAssets registers the .bcainfo files before any job is dispatched.
CompileAssets ==
    /\ At(Main, "compile")
    /\ SetCounterValue(SelectSeq([i \in DOMAIN FileOrder |-> JobOf(FileOrder[i])],
           LAMBDA job : job.kind = "parse" => job.directory \in Registered(bcaInfoText)))
    /\ mBCAInfoParentPathMap' = [d \in Registered(bcaInfoText) |->
                                    [ReadyFlag |-> FALSE, AssetPathMap |-> <<>>]]
    /\ Goto(Main, "dispatch")
    /\ UNCHANGED <<mJobQueueMap, workerThreadIndex, mExceptionQueue, mKeepGoing, bpkVars, fileVars,
                   mBuildMode, RootDataDirectory, mBCAArchiveArr, result, builds, crashes>>

Dispatch == DispatchJob /\ UNCHANGED <<bpkVars, fileVars, buildVars>>

\* PackBCAArchives, when the jobs are executed: without collisions, the archive is
\* written anew.
PackBCAArchives ==
    /\ At(Main, "await") /\ IsGroupFinished
    /\ IF HashCollision(mBCAArchiveArr)
       THEN ThrowException(Main, "unwind") /\ UNCHANGED bpkVars
       ELSE /\ Goto(Main, "write") /\ bpk' = <<>>
            /\ UNCHANGED <<mJobQueueMap, workerThreadIndex, mJobArr, mCounter, mExceptionQueue,
                           mKeepGoing, reader>>
    /\ UNCHANGED <<fileVars, buildVars>>

CreateBPKArchive ==
    /\ At(Main, "write")
    /\ bpk' = BPKFile(mBCAArchiveArr)
    /\ Goto(Main, "return")
    /\ UNCHANGED <<mJobQueueMap, workerThreadIndex, mJobArr, mCounter, mExceptionQueue, mKeepGoing,
                   reader, fileVars, buildVars>>

\* ~Application: the linker goes first, then the workers, one by one.
Leaves == At(Main, "return") \/ At(Main, "unwind")
DestroyWorkerThread(w) ==
    /\ Leaves /\ mKeepGoing[w] /\ \A v \in 1 .. (w - 1) : IsJoinable(v)
    /\ KillThread(w)
    /\ UNCHANGED <<stack, bpkVars, fileVars, buildVars>>

Exit ==
    /\ Leaves /\ \A w \in Workers : IsJoinable(w)
    /\ result' = IF At(Main, "return") THEN "success" ELSE "failure"
    /\ stack' = [stack EXCEPT ![Main] = <<>>]
    /\ mJobQueueMap' = [w \in Workers |-> <<>>] /\ mJobArr' = <<>> /\ mCounter' = 0
    /\ mExceptionQueue' = 0 /\ mBCAInfoParentPathMap' = <<>> /\ mBCAArchiveArr' = <<>>
    /\ UNCHANGED <<workerThreadIndex, mKeepGoing, bpkVars, fileVars, mBuildMode,
                   RootDataDirectory, builds, crashes>>

-----------------------------------------------------------------------------
(* The job of a .bcainfo file.                                             *)

Throw(t) == ThrowException(t, "unwind")
Continue(t, frame) == stack' = [stack EXCEPT ![t] = Append(Pop(@), frame)]
JobVarsButStack == <<mJobQueueMap, workerThreadIndex, mJobArr, mCounter, mExceptionQueue, mKeepGoing>>

\* Of two descriptions of a file the first counts.
InfoMap(infos) ==
    [f \in {infos[i].file : i \in DOMAIN infos} |->
        infos[Min({i \in DOMAIN infos : infos[i].file = f})].DoNotCompress]

\* UpdateBCAInfoForSourceAssets: all descriptions go to the directory of the first
\* file described, by its absolute path.  The directories are known by the paths that
\* were found under the root directory, and looking up another one throws.
EntryOf(d) == DirectoryOf[Parser[bcaInfoText[d]].infos[1].file]
HasEntry(d) == RootDataDirectory = "absolute" /\ EntryOf(d) \in Registered(bcaInfoText)

UpdateBCAInfoDatabase(t) ==
    /\ At(t, "start") /\ Top(t).job.kind = "parse"
    /\ LET d == Top(t).job.directory
           parser == Parser[bcaInfoText[d]]
       IN  \/ /\ parser.infos = <<>>
              /\ Goto(t, IF IsSuccessful(parser) THEN "done" ELSE "throw")
              /\ UNCHANGED mBCAInfoParentPathMap
           \/ /\ parser.infos # <<>> /\ ~HasEntry(d)
              /\ Goto(t, "throw") /\ UNCHANGED mBCAInfoParentPathMap
           \/ /\ parser.infos # <<>> /\ HasEntry(d)
              /\ mBCAInfoParentPathMap' = [mBCAInfoParentPathMap EXCEPT
                    ![EntryOf(d)].AssetPathMap = @ @@ InfoMap(parser.infos)]
              /\ Goto(t, "ready")
    /\ UNCHANGED <<JobVarsButStack, bpkVars, fileVars, mBuildMode, RootDataDirectory,
                   mBCAArchiveArr, result, builds, crashes>>

\* The flag is what publishes the descriptions; an empty file does not come here.
StoreReadyFlag(t) ==
    /\ At(t, "ready")
    /\ LET d == Top(t).job.directory
       IN  /\ mBCAInfoParentPathMap' =
                  [mBCAInfoParentPathMap EXCEPT ![EntryOf(d)].ReadyFlag = TRUE]
           /\ Goto(t, IF IsSuccessful(Parser[bcaInfoText[d]]) THEN "done" ELSE "throw")
    /\ UNCHANGED <<JobVarsButStack, bpkVars, fileVars, mBuildMode, RootDataDirectory,
                   mBCAArchiveArr, result, builds, crashes>>

ParsingFails(t) ==
    /\ At(t, "throw") /\ Throw(t)
    /\ UNCHANGED <<bpkVars, fileVars, buildVars>>

-----------------------------------------------------------------------------
(* The job of an asset: a BCAArchive is made of it.                        *)

\* InitializeMetadata reads the asset, once, and hashes what it has read.
InitializeMetadata(t) ==
    /\ At(t, "start") /\ Top(t).job.kind = "compile"
    /\ Continue(t, [job |-> Top(t).job, pc |-> "info", hash |-> source[Top(t).job.asset]])
    /\ UNCHANGED <<JobVarsButStack, bpkVars, fileVars, buildVars>>

\* GetBCAInfoForSourceAsset.
IsReady(a) == DirectoryOf[a] \in DOMAIN mBCAInfoParentPathMap
                 => mBCAInfoParentPathMap[DirectoryOf[a]].ReadyFlag
DoNotCompress(a) ==
    /\ DirectoryOf[a] \in DOMAIN mBCAInfoParentPathMap
    /\ LET known == mBCAInfoParentPathMap[DirectoryOf[a]].AssetPathMap
       IN  a \in DOMAIN known /\ known[a]

\* The files whose descriptions go to a directory.  There is no lock, and what is
\* found in the map of one that two threads write may be anything of it.
Writers(d) == {e \in Registered(bcaInfoText) :
                  Parser[bcaInfoText[e]].infos # <<>> /\ HasEntry(e) /\ EntryOf(e) = d}
Found(a) == {DoNotCompress(a)}
                \cup IF Cardinality(Writers(DirectoryOf[a])) > 1 THEN {FALSE} ELSE {}

ArchiveOf(frame, raw, units) ==
    [asset |-> frame.job.asset, DoNotCompress |-> raw, frame |-> units,
     length |-> Len(CompressedFrame[frame.job.asset][frame.hash]),
     size |-> Len(RawFrame[frame.job.asset][frame.hash])]

\* InitializeArchiveDataWithoutCompression: there is no .bca archive.
InitializeBCAInfo(t) ==
    /\ At(t, "info") /\ IsReady(Top(t).job.asset)
    /\ \E raw \in Found(Top(t).job.asset) :
       LET f == Top(t)
       IN  Continue(t, [job |-> f.job, pc |-> IF raw THEN "add" ELSE "reuse", hash |-> f.hash,
                        archive |-> ArchiveOf(f, raw, IF raw THEN RawFrame[f.job.asset][f.hash] ELSE <<>>)])
    /\ UNCHANGED <<JobVarsButStack, bpkVars, fileVars, buildVars>>

\* Mutant: data is not compared.
HasArchive(bca, f) == bca.kind = "bca"
CanReUse(bca, f) == bca.kind = "bca" /\ bca.hash = f.hash

Reused(f, bca) == [f EXCEPT !.pc = "open", !.archive.frame = bca.frame]

\* TryReUsePreCompiledAsset: a .bca archive of the same data is used again, one of
\* another build mode is an error, and anything else is overwritten.
TryReUsePreCompiledAsset(t) ==
    /\ At(t, "reuse")
    /\ LET f == Top(t)
           bca == cache[f.job.asset]
       IN  IF bca.kind = "bca" /\ bca.mode # mBuildMode
           THEN Throw(t)
           ELSE /\ Continue(t, IF CanReUse(bca, f)
                               THEN Reused(f, bca)
                               ELSE [f EXCEPT !.pc = "open"])
                /\ UNCHANGED JobVarsButStack
    /\ UNCHANGED <<bpkVars, fileVars, buildVars>>

\* CreateBCAArchive truncates the file, and writes all of it again.
OpenBCAArchive(t) ==
    /\ At(t, "open")
    /\ cache' = [cache EXCEPT ![Top(t).job.asset] = Truncated]
    /\ Goto(t, "create")
    /\ UNCHANGED <<JobVarsButStack, bpkVars, source, bcaInfoText, buildVars>>

\* A frame that is still empty is compressed now.
FrameOf(f) == IF f.archive.frame = <<>> THEN CompressedFrame[f.job.asset][f.hash]
                                        ELSE f.archive.frame
CreateBCAArchive(t) ==
    /\ At(t, "create")
    /\ LET f == Top(t)
       IN  /\ cache' = [cache EXCEPT ![f.job.asset] = Archive(mBuildMode, f.hash, FrameOf(f))]
           /\ Continue(t, [f EXCEPT !.pc = "add", !.archive.frame = FrameOf(f)])
    /\ UNCHANGED <<JobVarsButStack, bpkVars, source, bcaInfoText, buildVars>>

\* Under the linker's lock; see Undefined for what is left of the linker.
AddBCAArchive(t) ==
    /\ At(t, "add")
    /\ mBCAArchiveArr' = Append(mBCAArchiveArr, Top(t).archive)
    /\ Goto(t, "done")
    /\ UNCHANGED <<JobVarsButStack, bpkVars, fileVars, mBuildMode, RootDataDirectory,
                   mBCAInfoParentPathMap, result, builds, crashes>>

-----------------------------------------------------------------------------
(* The threads execute jobs when they are idle, await the group, or wait for *)
(* a .bcainfo file.                                                         *)

Waits(t) == \/ At(t, "info") /\ ~IsReady(Top(t).job.asset)
            \/ At(t, "await") /\ ~IsGroupFinished

ExecuteOther(t) ==
    /\ \/ Waits(t) /\ AcquireQueuedJob(t)
       \/ t \in Workers /\ WorkerLoop(t)
       \/ t = Main /\ Waits(Main) /\ HandleWorkerThreadExceptions("unwind")
    /\ UNCHANGED <<bpkVars, fileVars, buildVars>>

JobEnds(t) == DecrementCounter(t) /\ UNCHANGED <<bpkVars, fileVars, buildVars>>

ExecuteJob(t) ==
    \/ UpdateBCAInfoDatabase(t) \/ StoreReadyFlag(t) \/ ParsingFails(t)
    \/ InitializeMetadata(t) \/ InitializeBCAInfo(t) \/ TryReUsePreCompiledAsset(t)
    \/ OpenBCAArchive(t) \/ CreateBCAArchive(t) \/ AddBCAArchive(t)
    \/ JobEnds(t) \/ ExecuteOther(t)

MainStep == \/ CompileAssets \/ Dispatch \/ PackBCAArchives
            \/ CreateBPKArchive \/ Exit \/ \E w \in Workers : DestroyWorkerThread(w)

-----------------------------------------------------------------------------
(* The build is killed, or dies because of what it does: any part of a .bca  *)
(* archive that was being written is on the disk, from nothing to all but    *)
(* its end.                                                                  *)

\* Two threads are in the map of a directory, one of them to write; or a job uses the
\* context or the linker, which an exception that left Main has destroyed.
IsIn(t, d) == \/ At(t, "ready") /\ EntryOf(Top(t).job.directory) = d
              \/ At(t, "info") /\ DirectoryOf[Top(t).job.asset] = d /\ IsReady(Top(t).job.asset)
Undefined ==
    \/ \E s, t \in Threads, d \in Directories : s # t /\ At(s, "ready") /\ IsIn(s, d) /\ IsIn(t, d)
    \/ /\ At(Main, "unwind")
       /\ \E w \in Workers : \/ At(w, "add")
                             \/ At(w, "start") /\ Top(w).job.kind = "compile"

Torn(f) == {Truncated} \cup {Archive(mBuildMode, f.hash, SubSeq(FrameOf(f), 1, n)) :
                                 n \in 0 .. (Len(FrameOf(f)) - 1)}
Leftover(a) == LET writers == {t \in Threads : At(t, "create") /\ Top(t).job.asset = a}
               IN  IF writers = {} THEN {cache[a]} ELSE UNION {Torn(Top(t)) : t \in writers}

Crash ==
    /\ result = "running" /\ (crashes < MaxCrashes \/ Undefined)
    /\ cache' \in {left \in [Assets -> UNION {Leftover(a) : a \in Assets}] :
                      \A a \in Assets : left[a] \in Leftover(a)}
    /\ result' = "crashed" /\ crashes' = crashes + 1
    /\ mJobQueueMap' = [w \in Workers |-> <<>>] /\ workerThreadIndex' = 1
    /\ mJobArr' = <<>> /\ mCounter' = 0 /\ mExceptionQueue' = 0
    /\ mKeepGoing' = [w \in Workers |-> FALSE] /\ stack' = [t \in Threads |-> <<>>]
    /\ mBCAInfoParentPathMap' = <<>> /\ mBCAArchiveArr' = <<>>
    /\ UNCHANGED <<bpkVars, source, bcaInfoText, mBuildMode, RootDataDirectory, builds>>

Read == /\ result # "running"
        /\ \/ \E a \in Assets, wrap \in BOOLEAN : OpenAsset(a, wrap)
           \/ FetchInputData \/ DecompressStream \/ BlockDecompressed
        /\ UNCHANGED <<poolVars, fileVars, buildVars>>

-----------------------------------------------------------------------------
PackerNext ==
    \/ \E mode \in Modes, edited \in Sources : StartBuild(mode, edited)
    \/ CompileAssets \/ Dispatch \/ PackBCAArchives \/ CreateBPKArchive
    \/ \E w \in Workers : DestroyWorkerThread(w)
    \/ Exit
    \/ \E t \in Threads : ExecuteJob(t)
    \/ Crash
    \/ Read

\* The threads of a build are scheduled.  Nobody has to start one.
PackerSpec == /\ PackerInit /\ [][PackerNext]_vars
              /\ WF_vars(MainStep) /\ \A t \in Threads : WF_vars(ExecuteJob(t))

-----------------------------------------------------------------------------
(* A build that succeeds has packed each asset once, as the .bcainfo file    *)
(* says that its directory was given the descriptions of, and with the data  *)
(* it has: neither that of an earlier build, nor, if no build was killed, a  *)
(* part of it.  (What a killed build leaves on disk has the hash of the data *)
(* and is used again; and what two files describe at once is not determined.)*)
Described(e) == LET infos == Parser[bcaInfoText[e]].infos
                IN  {infos[i] : i \in {j \in DOMAIN infos :
                                         \A k \in 1 .. j - 1 : infos[k].file # infos[j].file}}
PackedAsDescribed(a, archive) ==
    LET d == DirectoryOf[a]
    IN  /\ d \notin Registered(bcaInfoText) => ~archive.DoNotCompress
        /\ \A e \in Directories : Writers(d) = {e} =>
              (archive.DoNotCompress <=>
                  \E info \in Described(e) : info.file = a /\ info.DoNotCompress)
HasTheData(a, archive) ==
    IF archive.DoNotCompress THEN archive.frame = RawFrame[a][source[a]]
    ELSE /\ IsPrefix(archive.frame, CompressedFrame[a][source[a]])
         /\ crashes = 0 => archive.frame = CompressedFrame[a][source[a]]
ArchivesAreOfTheSource ==
    At(Main, "write") =>
        /\ Len(mBCAArchiveArr) = Cardinality(Assets)
        /\ \A a \in Assets : \E i \in DOMAIN mBCAArchiveArr :
              /\ mBCAArchiveArr[i].asset = a
              /\ PackedAsDescribed(a, mBCAArchiveArr[i])
              /\ HasTheData(a, mBCAArchiveArr[i])

\* That, and before anything is built: the parser accepts the files its grammar
\* describes, and finds in them what they say.
AssetsArePackedAsDescribed ==
    /\ result = "none" => ParserFollowsGrammar
    /\ ArchivesAreOfTheSource

\* A build ends, however many of its jobs fail.  The exceptions are the two ways in
\* which it does not: no .bcainfo file raises the flag that a directory waits for,
\* because its own describes no file, or describes first one of another directory, or
\* because the root directory was given by a relative path; and when every worker has
\* ended with an exception, Main does not look at them while it waits for room in a
\* queue.
NeverReady == \E a \in Assets : /\ DirectoryOf[a] \in Registered(bcaInfoText)
                                /\ Writers(DirectoryOf[a]) = {}
NobodyMakesRoom == At(Main, "dispatch") /\ \A w \in Workers : ~mKeepGoing[w]
BuildEnds == []<>(result # "running" \/ NeverReady \/ NobodyMakesRoom)

\* An application that decompresses an asset of the archive to its end is given all
\* that was packed of it, in order, and nothing else, except for blocks that
\* ZStandard still holds after the last unit of input.  Mapping fails for an
\* asset that ends with a whole chunk, on a boundary, at the end of the archive.
EmptyChunkAtTheEnd ==
    LET chunk == reader.chunks[Len(reader.chunks)]
    IN  /\ chunk.size = 0 /\ chunk.offset = Len(bpk)
        /\ chunk.offset % MEMORY_ALLOCATION_GRANULARITY = 0
AssetIsRead ==
    reader # NoReader =>
        /\ reader.inOrder
        /\ reader.pc = "failed" => EmptyChunkAtTheEnd
        /\ reader.pc = "idle" /\ IsFinished(reader) =>
              \/ reader.rounds = 1 /\ reader.frame = 0 /\ reader.pending = 0
              \/ reader.rounds = 0 /\ reader.frame = TOCEntry(PathHash[reader.asset]).compressed
=============================================================================
