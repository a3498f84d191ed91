----------------------------- MODULE ModelExport -----------------------------
(***************************************************************************)
(* The model exporter.  The meshes of the .fbx files of a command line are  *)
(* imported; then frames are processed, in which the GPU compresses their   *)
(* textures, until all of them are back; then everything is written.        *)
(* Whatever is done for each file is done by the jobs of a group, which     *)
(* wait for a group of jobs for each mesh, and these for another (see       *)
(* JobSystem, of which what exceptions do is here, too).  A frame is        *)
(* processed when the GPU is through with the one MAX_FRAMES_IN_FLIGHT      *)
(* before it (see FrameSubmission).                                         *)
(***************************************************************************)
EXTENDS Naturals, Sequences, FiniteSets, TextureResolution
LOCAL INSTANCE SequencesExt
LOCAL INSTANCE FiniteSetsExt

CONSTANTS
    CommandLines,           \* sequences of arguments
    Scenes,                 \* [name of an .fbx file -> its meshes]
    Workers, Main,
    MAX_FRAMES_IN_FLIGHT,
    FLT_MIN, FLT_MAX,       \* numeric_limits<float>::min() and max()
    MaxFrames               \* bounds the frames of an export

VARIABLES
    cmdLineArgs,
    mLODFilePaths,          \* of the launch parameters
    state,                  \* where the application's thread is
    queue,                  \* of jobs
    mCounter,               \* [group that is not finished -> its counter]
    stack,                  \* [thread -> the frames of its jobs, the last one on top]
    exceptions,             \* the number of exceptions in the queue of the pool
    killed,                 \* the workers that have ended with one
    mCurrFrameNum,
    meshResolvers,          \* [<<LOD, mesh>> -> its resolver]
    mCallbackArr,           \* the textures registered with the render module
    built,                  \* those with passes in the frame that is being built
    submitted,              \* the frames the GPU is not through with
    modelTextureFilePathHashMap,
    files,                  \* what was written: [path -> content]
    modelFile

appVars == <<cmdLineArgs, mLODFilePaths, state, mCurrFrameNum>>
jobVars == <<queue, mCounter, stack, exceptions, killed>>
frameVars == <<meshResolvers, mCallbackArr, built, submitted>>
fileVars == <<modelTextureFilePathHashMap, files, modelFile>>
vars == <<appVars, jobVars, frameVars, fileVars>>

-----------------------------------------------------------------------------
(* The command line: a recursive-descent parser that looks at the disk while *)
(* it parses, and keeps the first error it meets, whether or not the parse   *)
(* goes on.                                                                  *)
(*                                                                           *)
(* An argument is a record of what the parser finds out about it: whether    *)
(* it begins with a '/' (switch), is "/ModelName" (model), can name a model  *)
(* (name), ends with .fbx (fbx), and what is on the disk at that path.       *)

INVALID_CMD_LINE_ARG_INDEX == 0

\* A parser: the next argument, whether the last rule was parsed, and what was found.
Parser(i) == [currIndex |-> i, parsed |-> TRUE, error |-> "none",
              mModelNameIndex |-> INVALID_CMD_LINE_ARG_INDEX, mLODFBXPathIndexArr |-> <<>>,
              mRootOutputDirectoryIndex |-> INVALID_CMD_LINE_ARG_INDEX]

NotParsed(p) == [p EXCEPT !.parsed = FALSE]

\* SetCommandLineError, and the rule that calls it fails.
Error(p, message) == [p EXCEPT !.parsed = FALSE,
                               !.error = IF @ = "none" THEN message ELSE @]

AtEnd(args, p) == p.currIndex > Len(args)
Arg(args, p) == args[p.currIndex]

\* The name is consumed, also when it is wrong.
ParseModelNameOption(args, p) ==
    LET q == [p EXCEPT !.currIndex = @ + 1]
    IN  CASE AtEnd(args, q)      -> Error(q, "no model name")
          [] ~Arg(args, q).name  -> Error(q, "invalid model name")
          [] OTHER               -> [q EXCEPT !.parsed = TRUE, !.mModelNameIndex = q.currIndex,
                                              !.currIndex = @ + 1]

ParseOption(args, p) ==
    CASE AtEnd(args, p)        -> NotParsed(p)
      [] ~Arg(args, p).switch  -> NotParsed(p)
      [] Arg(args, p).model    -> ParseModelNameOption(args, p)
      [] OTHER                 -> Error(p, "invalid switch")

RECURSIVE ParseOptions(_, _)
ParseOptions(args, p) == LET q == ParseOption(args, p)
                         IN  IF q.parsed THEN ParseOptions(args, q) ELSE q

ParseOptionsList(args, p) ==
    LET q == ParseOptions(args, p)
    IN  IF q.mModelNameIndex = INVALID_CMD_LINE_ARG_INDEX THEN Error(q, "no model name")
        ELSE [q EXCEPT !.parsed = TRUE]

ParseFBXFilePath(args, p) ==
    CASE AtEnd(args, p)                    -> NotParsed(p)
      [] ~Arg(args, p).fbx                 -> NotParsed(p)
      [] Arg(args, p).disk = "none"        -> Error(p, "does not exist")
      [] Arg(args, p).disk = "directory"   -> Error(p, "is a directory")
      [] OTHER -> [p EXCEPT !.parsed = TRUE, !.mLODFBXPathIndexArr = Append(@, p.currIndex),
                            !.currIndex = @ + 1]

RECURSIVE ParseFBXFilePaths(_, _)
ParseFBXFilePaths(args, p) == LET q == ParseFBXFilePath(args, p)
                              IN  IF q.parsed THEN ParseFBXFilePaths(args, q) ELSE q

ParseLevelOfDetailFBXList(args, p) ==
    LET q == ParseFBXFilePaths(args, p)
    IN  IF q.mLODFBXPathIndexArr = <<>> THEN Error(q, "no FBX files")
        ELSE [q EXCEPT !.parsed = TRUE]

\* Mutant: whatever is on the disk is taken.
AnyPath(args, p) ==
    IF AtEnd(args, p) THEN Error(p, "no root output directory")
    ELSE [p EXCEPT !.parsed = TRUE, !.mRootOutputDirectoryIndex = p.currIndex,
                   !.currIndex = @ + 1]

\* A directory that does not exist is made on the spot.
ParseRootOutputDirectory(args, p) ==
    CASE AtEnd(args, p)               -> Error(p, "no root output directory")
      [] Arg(args, p).disk = "file"   -> Error(p, "is not a directory")
      [] OTHER -> [p EXCEPT !.parsed = TRUE, !.mRootOutputDirectoryIndex = p.currIndex,
                            !.currIndex = @ + 1]

\* The first argument is the executable.
ParseCommandLineArguments(args) ==
    IF Len(args) = 1 THEN Error(Parser(1), "usage")
    ELSE LET options == ParseOptionsList(args, Parser(2))
             lods == IF options.parsed THEN ParseLevelOfDetailFBXList(args, options) ELSE options
             root == IF lods.parsed THEN ParseRootOutputDirectory(args, lods) ELSE lods
         IN  [root EXCEPT !.parsed = @ /\ AtEnd(args, root)]

GetLaunchParameters(args, p) ==
    [ModelName |-> args[p.mModelNameIndex],
     LODFilePaths |-> [i \in DOMAIN p.mLODFBXPathIndexArr |-> args[p.mLODFBXPathIndexArr[i]]],
     RootOutputDirectory |-> args[p.mRootOutputDirectoryIndex]]

-----------------------------------------------------------------------------
(* The grammar in the comment at the head of CommandLineParser.cpp, with    *)
(* what the rules ask of the disk.  options is the number of options, and   *)
(* the files are what is left between them and the last argument.  A slip   *)
(* is one more "/ModelName", without a name, before the first file: as the  *)
(* rule that fails has consumed it, the parser goes on after it.            *)

IsCommandLineWith(args, options, slip) ==
    LET n == Len(args)
        firstFile == 2 * options + 2 + slip
    IN  /\ options > 0 /\ firstFile < n
        /\ \A i \in 1 .. options : args[2 * i].model /\ args[2 * i + 1].name
        /\ slip = 1 => args[firstFile - 1].model /\ ~args[firstFile].name
        /\ \A i \in firstFile .. (n - 1) : args[i].fbx /\ args[i].disk = "file"
        /\ args[n].disk # "file"
IsCommandLine(args) == \E options \in 1 .. Len(args) : IsCommandLineWith(args, options, 0)

\* The parser accepts the command lines of the grammar, and those with a slip, and
\* takes from them the last name, the files in their order and the directory.  A
\* command line that is not accepted is explained, but for one: an accepted one
\* with more arguments after it (its directory is made nevertheless).  And a
\* command line is not complained about if it is accepted, unless it has a slip,
\* its directory is called .fbx, or the path of its first file begins with a '/',
\* for which it is taken for a switch before.
ParserAcceptsCommandLines(args) ==
    LET p == ParseCommandLineArguments(args)
        n == Len(args)
        accepted == {<<options, slip>> \in (1 .. n) \X {0, 1} : IsCommandLineWith(args, options, slip)}
    IN  /\ p.parsed <=> accepted # {}
        /\ \A c \in accepted :
              LET firstFile == 2 * c[1] + 2 + c[2]
              IN  /\ GetLaunchParameters(args, p) =
                        [ModelName |-> args[2 * c[1] + 1],
                         LODFilePaths |-> SubSeq(args, firstFile, n - 1),
                         RootOutputDirectory |-> args[n]]
                  /\ p.error # "none" <=> c[2] = 1 \/ args[n].fbx \/ args[firstFile].switch
        /\ ~p.parsed /\ p.error = "none" =>
              \E m \in 1 .. (n - 1) : ParseCommandLineArguments(SubSeq(args, 1, m)).parsed

-----------------------------------------------------------------------------
\* What the parser makes of the command lines.
Parsers == [args \in CommandLines |-> ParseCommandLineArguments(args)]

\* What the GPU makes of the textures, and what it should make.
Textures == UNION {{<<mesh.image, mesh.width>> : mesh \in Range(Scenes[f])} : f \in DOMAIN Scenes}
ResolvedTextures ==
    [t \in Textures |-> ReadBackBuffer(t[1], t[2], TextureResolutionRenderPasses(t[2]))]
CompressedTextures == [t \in Textures |-> CompressedTexture(t[1], t[2])]

NoEvent == [frame |-> MaxFrames + 1]
NoTexture == <<>>
NewBuffer == <<"created">>
Threads == Workers \cup {Main}
NoStacks == [t \in Threads |-> <<>>]

ExportInit ==
    /\ cmdLineArgs \in CommandLines
    /\ mLODFilePaths = <<>> /\ state = "launch" /\ mCurrFrameNum = 0
    /\ queue = <<>> /\ mCounter = <<>> /\ stack = NoStacks /\ exceptions = 0 /\ killed = {}
    /\ meshResolvers = <<>> /\ mCallbackArr = <<>> /\ built = {} /\ submitted = <<>>
    /\ modelTextureFilePathHashMap = <<>> /\ files = <<>> /\ modelFile = <<>>

-----------------------------------------------------------------------------
(* Jobs.  A group is named after who makes it: the application, in a state   *)
(* and a frame, or a job, which is named by that group and its place in it.  *)
(* A job that makes a group stays on the stack of its thread while it waits  *)
(* for it, and jobs from the queue, which has room, are executed on top.     *)
(* To take a job from the queue and to dispatch the jobs of its group is one *)
(* step here; JobSystem has them apart.                                      *)

Root == <<state, mCurrFrameNum>>
Parent(job) == Front(job)
JobsOf(group, places) == [i \in DOMAIN places |-> Append(group, places[i])]
Frame(job, phase) == [job |-> job, phase |-> phase]
Top(t) == Last(stack[t])
In(t, phase) == stack[t] # <<>> /\ Top(t).phase = phase

IsFinished(group) == group \notin DOMAIN mCounter
Decremented(group) ==
    IF mCounter[group] = 1 THEN [g \in DOMAIN mCounter \ {group} |-> mCounter[g]]
    ELSE [mCounter EXCEPT ![group] = @ - 1]
SetCounterValue(group, n) ==
    mCounter' = IF n = 0 THEN mCounter
                ELSE [g \in DOMAIN mCounter \cup {group} |-> IF g = group THEN n ELSE mCounter[g]]

\* A thread that waits for a group looks for jobs, and a worker without one.
LooksForJob(t) ==
    IF stack[t] # <<>> THEN Top(t).phase = "await" /\ ~IsFinished(Top(t).job)
    ELSE IF t = Main THEN ~IsFinished(Root) ELSE t \notin killed
Takes(t, kinds, level) ==
    /\ LooksForJob(t) /\ (t = Main => exceptions = 0)
    /\ queue # <<>> /\ Head(queue)[1] \in kinds /\ Len(Head(queue)) = level + 2

\* What the job that was taken does in the end, or first of all.
Forks(t, places) ==
    /\ queue' = Tail(queue) \o JobsOf(Head(queue), places)
    /\ SetCounterValue(Head(queue), Len(places))
    /\ stack' = [stack EXCEPT ![t] = Append(@, Frame(Head(queue), "await"))]
    /\ UNCHANGED <<exceptions, killed>>
Returns ==
    /\ queue' = Tail(queue) /\ mCounter' = Decremented(Parent(Head(queue)))
    /\ UNCHANGED <<stack, exceptions, killed>>

\* The counter comes first; then the thread spins until the group is finished.
Throws(t) ==
    /\ queue' = Tail(queue) /\ mCounter' = Decremented(Parent(Head(queue)))
    /\ stack' = [stack EXCEPT ![t] = Append(@, Frame(Head(queue), "spin"))]
    /\ UNCHANGED <<exceptions, killed>>

\* The program is no more.
EndsWith(how) ==
    /\ state' = how
    /\ queue' = <<>> /\ mCounter' = <<>> /\ stack' = NoStacks /\ exceptions' = 0 /\ killed' = {}
    /\ meshResolvers' = <<>> /\ mCallbackArr' = <<>> /\ built' = {} /\ submitted' = <<>>
    /\ UNCHANGED <<cmdLineArgs, mLODFilePaths, mCurrFrameNum, fileVars>>

\* The end of a job that has waited for its group, and of its Execute.
AwaitEnds(t) ==
    /\ In(t, "await") /\ IsFinished(Top(t).job)
    /\ stack' = [stack EXCEPT ![t] = Front(@)] /\ mCounter' = Decremented(Parent(Top(t).job))
    /\ UNCHANGED <<queue, exceptions, killed, appVars, frameVars, fileVars>>

\* An exception leaves a job for the one beneath it on the stack.
Strikes(frames) ==
    IF frames = <<>> THEN UNCHANGED mCounter ELSE mCounter' = Decremented(Parent(Last(frames).job))
Struck(frames) == IF frames = <<>> THEN <<>> ELSE Append(Front(frames), Frame(Last(frames).job, "spin"))

\* Below the last job, it is given to the pool and ends the worker, or ends the
\* application.
Rethrow(t) ==
    LET below == Front(stack[t])
    IN  /\ In(t, "spin") /\ IsFinished(Parent(Top(t).job))
        /\ stack' = [stack EXCEPT ![t] = Struck(below)] /\ Strikes(below)
        /\ IF below = <<>> /\ t # Main
           THEN exceptions' = exceptions + 1 /\ killed' = killed \cup {t}
           ELSE UNCHANGED <<exceptions, killed>>
        /\ state' = IF below = <<>> /\ t = Main THEN "unwind" ELSE state
        /\ UNCHANGED <<queue, cmdLineArgs, mLODFilePaths, mCurrFrameNum, frameVars, fileVars>>

\* Main, when it looks for a job, throws the exception of a worker.
HandleThrownExceptions ==
    /\ exceptions > 0
    /\ LooksForJob(Main) \/ state = "process"
    /\ exceptions' = exceptions - 1
    /\ stack' = [stack EXCEPT ![Main] = Struck(@)] /\ Strikes(stack[Main])
    /\ state' = IF stack[Main] = <<>> THEN "unwind" ELSE state
    /\ UNCHANGED <<queue, killed, cmdLineArgs, mLODFilePaths, mCurrFrameNum, frameVars, fileVars>>

\* The application makes a group; when it has waited for it, it goes on.
ExecuteJobs(from, to, places) ==
    LET group == <<to, mCurrFrameNum>>
    IN  /\ state = from /\ state' = to
        /\ queue' = queue \o JobsOf(group, places) /\ SetCounterValue(group, Len(places))
        /\ UNCHANGED <<stack, exceptions, killed>>
GroupEnds(from, to) ==
    /\ state = from /\ stack[Main] = <<>> /\ IsFinished(Root) /\ state' = to
    /\ UNCHANGED jobVars

\* ~Application destroys the model, joins the workers, and the program ends.
Exit ==
    /\ state = "unwind" /\ \A w \in Workers : stack[w] = <<>>
    /\ EndsWith("failed")

\* Jobs that use what is destroyed.
Dies ==
    /\ state = "unwind"
    /\ \E w \in Workers \ killed : queue # <<>> \/ In(w, "await") \/ In(w, "write")
    /\ EndsWith("died")

-----------------------------------------------------------------------------
LODs == DOMAIN mLODFilePaths
Scene(lod) == Scenes[mLODFilePaths[lod]]
Mesh(m) == Scene(m[1])[m[2]]
Meshes(lod) == {i \in DOMAIN Scene(lod) : <<lod, i>> \in DOMAIN meshResolvers}

\* A mistake on the command line ends the program.
ParseCommandLine ==
    /\ state = "launch"
    /\ LET p == Parsers[cmdLineArgs]
       IN  IF p.parsed
           THEN /\ mLODFilePaths' = [i \in DOMAIN p.mLODFBXPathIndexArr |->
                                        GetLaunchParameters(cmdLineArgs, p).LODFilePaths[i].path]
                /\ ExecuteJobs("launch", "import", [i \in DOMAIN p.mLODFBXPathIndexArr |-> i])
           ELSE state' = "failed" /\ UNCHANGED <<mLODFilePaths, jobVars>>
    /\ cmdLineArgs' = <<>>
    /\ UNCHANGED <<mCurrFrameNum, frameVars, fileVars>>

\* The box begins inside out, so that the first point is its minimum and maximum.
InsertPoint(box, x) == [min |-> IF x < box.min THEN x ELSE box.min,
                        max |-> IF x > box.max THEN x ELSE box.max]
BoundingBox(positions) == FoldLeft(InsertPoint, [min |-> FLT_MAX, max |-> FLT_MIN], positions)

NewResolver(mesh) ==
    [mHDiffuseTextureResolutionEvent |-> NoEvent, mOutputBuffer |-> NoTexture,
     mDestDiffuseScratchImage |-> NoTexture, mBoundingBox |-> BoundingBox(mesh.positions),
     mIndexArr |-> FlattenSeq(mesh.faces), mPackedVertices |-> <<>>,
     DiffuseAlbedoTextureHash |-> <<>>]

\* Skinned meshes cannot be imported: nothing of a scene with one is, and there is no
\* collection of meshes.  Transparent, empty and too large ones are found one by one.
IsNull(lod) == \E i \in DOMAIN Scene(lod) : Scene(lod)[i].defect = "skinned"
ImportScene(t) ==
    /\ Takes(t, {"import"}, 1)
    /\ LET lod == Head(queue)[3]
           wrong == {i \in DOMAIN Scene(lod) : Scene(lod)[i].defect \in {"skinned", "mesh"}}
           imported == IF IsNull(lod) THEN {}
                       ELSE {i \in DOMAIN Scene(lod) : \A k \in wrong : i < k}
       IN  /\ meshResolvers' = [m \in DOMAIN meshResolvers \cup ({lod} \X imported) |->
                                   IF m[1] = lod THEN NewResolver(Mesh(m)) ELSE meshResolvers[m]]
           /\ IF wrong = {} THEN Returns ELSE Throws(t)
    /\ UNCHANGED <<appVars, mCallbackArr, built, submitted, fileVars>>

ScenesImported ==
    /\ GroupEnds("import", "check")
    /\ UNCHANGED <<cmdLineArgs, mLODFilePaths, mCurrFrameNum, frameVars, fileVars>>

-----------------------------------------------------------------------------
(* The conversion loop.                                                    *)

\* Mutant: the frame is over when its number comes up again.
IsFrameReused(event) == mCurrFrameNum >= event.frame + MAX_FRAMES_IN_FLIGHT

\* The handle only remembers the number of the frame in which it was made, which the
\* job that makes it has from the thread that made the job.
IsEventComplete(event) == mCurrFrameNum > event.frame + MAX_FRAMES_IN_FLIGHT

IsReadyForSerialization(r) ==
    /\ r.mHDiffuseTextureResolutionEvent # NoEvent
    /\ IsEventComplete(r.mHDiffuseTextureResolutionEvent)
    /\ r.mOutputBuffer = NoTexture

\* One LOD after the other, up to one that is not ready; there is none to ask if the
\* exception of its import has not been seen yet.
LODIsReady(lod) == \A i \in Meshes(lod) : IsReadyForSerialization(meshResolvers[<<lod, i>>])
FollowsNull == \E lod \in LODs : IsNull(lod) /\ \A l \in 1 .. (lod - 1) : LODIsReady(l)
CheckModel ==
    /\ state = "check"
    /\ IF FollowsNull THEN EndsWith("died")
       ELSE /\ ExecuteJobs("check", IF \A lod \in LODs : LODIsReady(lod) THEN "serialize" ELSE "update",
                           [lod \in LODs |-> lod])
            /\ UNCHANGED <<cmdLineArgs, mLODFilePaths, mCurrFrameNum, frameVars, fileVars>>

\* The job of a LOD makes one of each of its meshes, and this one two.
ForkMeshes(t) ==
    /\ Takes(t, {"update", "serialize"}, 1)
    /\ LET lod == Head(queue)[3]
       IN  IF IsNull(lod) THEN EndsWith("died")
           ELSE /\ Forks(t, [i \in 1 .. Cardinality(Meshes(lod)) |-> i])
                /\ UNCHANGED <<appVars, frameVars, fileVars>>
ForkParts(t) ==
    /\ Takes(t, {"update", "serialize"}, 2) /\ Forks(t, <<"material", "mesh">>)
    /\ UNCHANGED <<appVars, frameVars, fileVars>>
TakesPart(t, kind, part) == Takes(t, {kind}, 3) /\ Head(queue)[5] = part
MeshOfJob == <<Head(queue)[3], Head(queue)[4]>>

\* What becomes of normals and tangents is left out.
PackedVertices(mesh) == mesh.positions

UpdateIMPL(t) ==
    /\ TakesPart(t, "update", "mesh") /\ Returns
    /\ meshResolvers' = [meshResolvers EXCEPT ![MeshOfJob].mPackedVertices = PackedVertices(Mesh(MeshOfJob))]
    /\ UNCHANGED <<appVars, mCallbackArr, built, submitted, fileVars>>

\* The image is converted, and the texture is registered for the next frame.  A job has
\* the number of the frame from the thread that made it.
BeginDiffuseTextureResolution(t) ==
    /\ TakesPart(t, "update", "material")
    /\ meshResolvers[MeshOfJob].mHDiffuseTextureResolutionEvent = NoEvent
    /\ IF Mesh(MeshOfJob).defect = "no texture"
       THEN Throws(t) /\ UNCHANGED <<meshResolvers, mCallbackArr>>
       ELSE /\ meshResolvers' = [meshResolvers EXCEPT ![MeshOfJob].mHDiffuseTextureResolutionEvent =
                                    [frame |-> Head(queue)[2]]]
            /\ mCallbackArr' = Append(mCallbackArr, MeshOfJob) /\ Returns
    /\ UNCHANGED <<appVars, built, submitted, fileVars>>

\* Mutant: the buffer is kept.
CopiedOnly(r) == [r EXCEPT !.mDestDiffuseScratchImage = r.mOutputBuffer]

CopyResolvedTextureToScratchImage(r) ==
    [r EXCEPT !.mDestDiffuseScratchImage = r.mOutputBuffer, !.mOutputBuffer = NoTexture]

UpdateDiffuseTexture(t) ==
    /\ TakesPart(t, "update", "material") /\ Returns
    /\ LET r == meshResolvers[MeshOfJob]
       IN  /\ r.mHDiffuseTextureResolutionEvent # NoEvent
           /\ meshResolvers' = [meshResolvers EXCEPT ![MeshOfJob] =
                 IF IsEventComplete(r.mHDiffuseTextureResolutionEvent) /\ r.mOutputBuffer # NoTexture
                 THEN CopyResolvedTextureToScratchImage(r) ELSE r]
    /\ UNCHANGED <<appVars, mCallbackArr, built, submitted, fileVars>>

ModelUpdated ==
    /\ GroupEnds("update", "frame")
    /\ UNCHANGED <<cmdLineArgs, mLODFilePaths, mCurrFrameNum, frameVars, fileVars>>

\* The frame graph is free again, and the render module is asked for its passes.
GenerateFrameGraph ==
    /\ state = "frame" /\ mCurrFrameNum < MaxFrames
    /\ \A i \in DOMAIN submitted : submitted[i].frame + MAX_FRAMES_IN_FLIGHT > mCurrFrameNum
    /\ ExecuteJobs("frame", "build", <<"module">>)
    /\ UNCHANGED <<cmdLineArgs, mLODFilePaths, mCurrFrameNum, frameVars, fileVars>>

\* It takes the callbacks, and each adds its passes to a builder of its own, on the
\* stack of the module's job.  The buffer a texture is read back to exists from now on.
BuildFrameGraph(t) ==
    /\ Takes(t, {"build"}, 1) /\ Forks(t, mCallbackArr)
    /\ mCallbackArr' = <<>>
    /\ UNCHANGED <<appVars, meshResolvers, built, submitted, fileVars>>

BuilderIsGone(job) == \A t \in Threads : Frame(Parent(job), "await") \notin Range(stack[t])
AddTextureResolutionRenderPasses(t) ==
    /\ Takes(t, {"build"}, 2)
    /\ LET m == Head(queue)[4]
       IN  IF BuilderIsGone(Head(queue)) THEN EndsWith("died")
           ELSE /\ IF Mesh(m).defect = "not square"
                   THEN Throws(t) /\ UNCHANGED <<meshResolvers, built>>
                   ELSE /\ meshResolvers' = [meshResolvers EXCEPT ![m].mOutputBuffer = NewBuffer]
                        /\ built' = built \cup {m} /\ Returns
                /\ UNCHANGED <<appVars, mCallbackArr, submitted, fileVars>>

FrameGraphBuilt ==
    /\ GroupEnds("build", "process")
    /\ UNCHANGED <<cmdLineArgs, mLODFilePaths, mCurrFrameNum, frameVars, fileVars>>

\* The frame is compiled and submitted.
ProcessFrame ==
    /\ state = "process"
    /\ submitted' = Append(submitted, [frame |-> mCurrFrameNum, textures |-> built])
    /\ built' = {} /\ state' = "check" /\ mCurrFrameNum' = mCurrFrameNum + 1
    /\ UNCHANGED <<cmdLineArgs, mLODFilePaths, jobVars, meshResolvers, mCallbackArr, fileVars>>

\* The GPU executes the passes of one texture after the other.  What it writes to a
\* buffer that was destroyed is lost.
GPUExecutes(m) ==
    /\ submitted # <<>> /\ m \in Head(submitted).textures
    /\ meshResolvers' = [meshResolvers EXCEPT ![m].mOutputBuffer =
           IF @ = NoTexture THEN @ ELSE ResolvedTextures[<<Mesh(m).image, Mesh(m).width>>]]
    /\ submitted' = [submitted EXCEPT ![1].textures = @ \ {m}]
    /\ UNCHANGED <<appVars, jobVars, mCallbackArr, built, fileVars>>

GPUFinishesFrame ==
    /\ submitted # <<>> /\ Head(submitted).textures = {}
    /\ submitted' = Tail(submitted)
    /\ UNCHANGED <<appVars, jobVars, meshResolvers, mCallbackArr, built, fileVars>>

-----------------------------------------------------------------------------
(* Serialization.                                                          *)

Path(kind, m) == <<kind, m[1], m[2]>>
Written(newFiles) == [p \in DOMAIN files \cup DOMAIN newFiles |->
                         IF p \in DOMAIN newFiles THEN newFiles[p] ELSE files[p]]

\* The vertices and the indices are written by two jobs, which is one step here.
BufferFiles(m) == [p \in {Path("vertices", m), Path("indices", m)} |->
                      IF p = Path("vertices", m) THEN meshResolvers[m].mPackedVertices
                                                 ELSE meshResolvers[m].mIndexArr]
SerializeMeshDataIMPL(t) ==
    /\ TakesPart(t, "serialize", "mesh") /\ Returns
    /\ files' = Written(BufferFiles(MeshOfJob))
    /\ UNCHANGED <<appVars, frameVars, modelTextureFilePathHashMap, modelFile>>

\* A header, and the levels one after the other.
CreateModelTextureFileDataByteArray(image) ==
    [MipLevels |-> Cardinality(DOMAIN image), levels |-> image]

\* Under the lock: a texture with the data of another one is not written again, but
\* has the path of that one.
SerializeModelTexture(t) ==
    /\ TakesPart(t, "serialize", "material")
    /\ LET m == MeshOfJob
           hash == CreateModelTextureFileDataByteArray(meshResolvers[m].mDestDiffuseScratchImage)
           known == hash \in DOMAIN modelTextureFilePathHashMap
           path == IF known THEN modelTextureFilePathHashMap[hash] ELSE Path("texture", m)
       IN  /\ meshResolvers' = [meshResolvers EXCEPT ![m].DiffuseAlbedoTextureHash = path]
           /\ modelTextureFilePathHashMap' =
                 [h \in DOMAIN modelTextureFilePathHashMap \cup {hash} |->
                     IF h = hash THEN path ELSE modelTextureFilePathHashMap[h]]
           /\ IF known THEN Returns
              ELSE /\ queue' = Tail(queue)
                   /\ stack' = [stack EXCEPT ![t] = Append(@, Frame(Head(queue), "write"))]
                   /\ UNCHANGED <<mCounter, exceptions, killed>>
    /\ UNCHANGED <<appVars, mCallbackArr, built, submitted, files, modelFile>>

WriteModelTexture(t) ==
    /\ In(t, "write")
    /\ LET m == <<Top(t).job[3], Top(t).job[4]>>
       IN  files' = Written([p \in {Path("texture", m)} |->
               CreateModelTextureFileDataByteArray(meshResolvers[m].mDestDiffuseScratchImage)])
    /\ stack' = [stack EXCEPT ![t] = Front(@)] /\ mCounter' = Decremented(Parent(Top(t).job))
    /\ UNCHANGED <<queue, exceptions, killed, appVars, frameVars, modelTextureFilePathHashMap, modelFile>>

\* Each LOD in its place, and in it each mesh in its place.
SerializeModelData ==
    /\ GroupEnds("serialize", "exported")
    /\ modelFile' = [lod \in LODs |-> [i \in 1 .. Cardinality(Meshes(lod)) |->
                        [box |-> meshResolvers[<<lod, i>>].mBoundingBox,
                         vertices |-> Path("vertices", <<lod, i>>), indices |-> Path("indices", <<lod, i>>),
                         texture |-> meshResolvers[<<lod, i>>].DiffuseAlbedoTextureHash]]]
    /\ UNCHANGED <<cmdLineArgs, mLODFilePaths, mCurrFrameNum, frameVars, modelTextureFilePathHashMap, files>>

-----------------------------------------------------------------------------
ExecuteJob(t) ==
    \/ ImportScene(t) \/ ForkMeshes(t) \/ ForkParts(t)
    \/ UpdateIMPL(t) \/ BeginDiffuseTextureResolution(t) \/ UpdateDiffuseTexture(t)
    \/ BuildFrameGraph(t) \/ AddTextureResolutionRenderPasses(t)
    \/ SerializeMeshDataIMPL(t) \/ SerializeModelTexture(t) \/ WriteModelTexture(t)
    \/ AwaitEnds(t) \/ Rethrow(t)
ApplicationStep ==
    \/ ParseCommandLine \/ ScenesImported \/ CheckModel \/ ModelUpdated \/ GenerateFrameGraph
    \/ FrameGraphBuilt \/ ProcessFrame \/ SerializeModelData \/ HandleThrownExceptions \/ Exit
GPUStep == GPUFinishesFrame \/ \E m \in DOMAIN meshResolvers : GPUExecutes(m)

ExportNext ==
    \/ ParseCommandLine \/ ScenesImported \/ CheckModel \/ ModelUpdated \/ GenerateFrameGraph
    \/ FrameGraphBuilt \/ ProcessFrame \/ SerializeModelData \/ HandleThrownExceptions
    \/ Exit \/ Dies
    \/ \E t \in Threads : ExecuteJob(t)
    \/ \E m \in DOMAIN meshResolvers : GPUExecutes(m)
    \/ GPUFinishesFrame

\* The threads and the GPU do what they have to do.
ExportSpec == /\ ExportInit /\ [][ExportNext]_vars
              /\ WF_vars(ApplicationStep \/ ExecuteJob(Main))
              /\ \A w \in Workers : WF_vars(ExecuteJob(w))
              /\ WF_vars(GPUStep)

-----------------------------------------------------------------------------
(* The command line is accepted, and complained about, as its grammar says.  *)
CommandLineIsUnderstood == state = "launch" => ParserAcceptsCommandLines(cmdLineArgs)

(* What is exported is the model: each mesh of each LOD, in its place, with   *)
(* its vertices and indices, and a texture of which each block of each level was made by  *)
(* the GPU of its image, in a file that holds just that.  Its bounding box is *)
(* tight, unless it lies on the negative side of an axis.  The exception is a *)
(* model in the course of which a worker has thrown an exception that Main    *)
(* has not come to see.                                                       *)
BoxIsTight(box, positions) ==
    /\ box.min = Min(Range(positions))
    /\ box.max = Max(Range(positions)) \/ Max(Range(positions)) < FLT_MIN
HasThrown(t) == t \in killed \/ \E f \in Range(stack[t]) : f.phase = "spin"
ModelIsExported ==
    state = "exported" /\ ~(\E w \in Workers : HasThrown(w)) =>
        /\ DOMAIN modelFile = LODs
        /\ \A lod \in LODs :
              /\ Len(modelFile[lod]) = Len(Scene(lod))
              /\ \A i \in DOMAIN Scene(lod) :
                    LET mesh == Scene(lod)[i]
                        entry == modelFile[lod][i]
                    IN  /\ files[entry.texture] = [MipLevels |-> MipLevels(mesh.width),
                               levels |-> CompressedTextures[<<mesh.image, mesh.width>>]]
                        /\ files[entry.vertices] = mesh.positions
                        /\ files[entry.indices] = FlattenSeq(mesh.faces)
                        /\ BoxIsTight(entry.box, mesh.positions)

(* An export ends, with the model or with an error, or dies of an exception   *)
(* that Main has not seen in time, or that leaves it while jobs go on.  The   *)
(* exceptions are a job that throws and spins for ever, for a job of its      *)
(* group that is beneath it on its stack, or that nobody is left to execute   *)
(* (Job.cpp:60), and a frame that is processed with a worker less than        *)
(* before (see FrameSubmission).                                              *)
Spins == \E t \in Threads : In(t, "spin") /\ ~IsFinished(Parent(Top(t).job))
LacksWorkers == state = "process" /\ killed # {}
ExportEnds == \/ <>(state \in {"exported", "failed", "died"} \/ LacksWorkers)
              \/ <>[]Spins
=============================================================================
