------------------------------- MODULE MCEngine -------------------------------
(* Each level on its own: a texture and a buffer that bundles for one or several *)
(* queues render with; two PSOs and the file they are kept in; heaps of four     *)
(* units for three resources; three settings; and the application, with its      *)
(* updates, with the descriptor tables of its frames, or with bindless SRVs.     *)
EXTENDS RenderJobs, PipelineCache

To(r, s)       == [res |-> r, to |-> s]
MakesJob(t, r) == [transitions |-> t, reads |-> r]
Nothing        == [q \in Queues |-> <<>>]
Draw    == [Nothing EXCEPT !["DIRECT"] = <<MakesJob(<<To("tex", "RT"), To("tex", "SRV")>>, {}), MakesJob(<<>>, {"buf"})>>]
Async   == [Nothing EXCEPT !["COMPUTE"] = <<MakesJob(<<To("buf", "UAV"), To("buf", "SRV")>>, {"tex"})>>]
Upload  == [Nothing EXCEPT !["COPY"] = <<MakesJob(<<To("buf", "COPY_DEST")>>, {})>>,
                           !["DIRECT"] = <<MakesJob(<<To("tex", "RT")>>, {})>>]
MCBundles      == {Draw, Async, Upload}
MCInitialState == [r \in Resources |-> IF r = "buf" THEN "SRV" ELSE COMMON]

\* A later version of the first PSO is longer; adapters that will do, or not.
MCSize    == [p |-> <<1, 2>>, q |-> <<1, 1>>]
MCSystems == {<<"old", "d">>, <<"e", "d">>, <<"old">>}

VARIABLES level,
          ResidentHeaps, mHAllocation, creating, walks, raced,
          files, available, settingsPhase, mSettingMap, disturbances, kept,
          runPhase, mRunning, accumulator, mCurrUpdateTick, mStateStack, mRequestQueue, below,
          now, accepted, due, updated, mCurrFrameNum, mPerFrameIndexArr, descriptors, binding,
          tables, mFreeBindlessIndexQueue, mBindlessSRVAllocation, reservedIndex

heapVars == <<ResidentHeaps, mHAllocation, creating, walks, raced>>
settingsVars == <<files, available, settingsPhase, mSettingMap, disturbances, kept>>
applicationVars == <<runPhase, mRunning, accumulator, mCurrUpdateTick, mStateStack, mRequestQueue,
                     below, now, accepted, due, updated, mCurrFrameNum, mPerFrameIndexArr,
                     descriptors, binding, tables, mFreeBindlessIndexQueue,
                     mBindlessSRVAllocation, reservedIndex>>
levels == <<level, vars, cacheVars, heapVars, settingsVars, applicationVars>>

Heaps == INSTANCE EngineHeaps WITH
    Info <- [a |-> [size |-> 1, alignment |-> 2], b |-> [size |-> 2, alignment |-> 1],
             c |-> [size |-> 3, alignment |-> 1]],
    Resources <- {"a", "b", "c"}, MINIMUM_HEAP_SIZE <- 4, MinimumNodeSize <- 1, MaxHeaps <- 2

\* Texts with a negative and an integral number; a word for a number; a setting without
\* a value, a float for an integer and what is no token; and two without any setting of
\* the program.
A(text)      == [is |-> "word", text |-> text, value |-> 0]
The(mark)    == [is |-> "mark", text |-> mark, value |-> 0]
Header(name) == <<The("["), A(name), The("]")>>
Sets(name, is, n) == <<A(name), The("="), [is |-> is, text |-> "", value |-> n]>>
Config == INSTANCE Settings WITH
    DefaultVal <- <<[name |-> "bUseFullscreen", value |-> 1],
                    [name |-> "fRenderResolutionFactor", value |-> 1000],
                    [name |-> "uWindowResolutionWidth", value |-> 1280]>>,
    Type <- <<"bool", "float", "unsigned">>,
    Inputs <- <<{0, 1}, {1000, 503}, {800}>>,
    Edits <- {Header("Video") \o <<A("uWindowResolutionWidth"), The("="),
                                  [is |-> "integer", text |-> "-", value |-> 5]>>
                              \o Sets("fRenderResolutionFactor", "integer", 2),
              Header("Video") \o <<A("uWindowResolutionWidth"), The("="), A("TRUE")>>,
              Header("Video") \o <<A("bUseFullscreen")>> \o Header("Video")
                              \o Sets("uWindowResolutionWidth", "float", 2500) \o <<The("?")>>,
              <<The("["), The("]")>> \o <<The("=")>>,
              Header("Audio") \o Sets("uVolume", "integer", 1)},
    MaxDisturbances <- 1, phase <- settingsPhase

Push(state) == [type |-> "push", state |-> state]
Pop   == [type |-> "pop", state |-> "COUNT_OR_ERROR"]
Clear == [type |-> "clear", state |-> "COUNT_OR_ERROR"]
Updates == INSTANCE Application WITH
    PHYSICS_TIMESTEP_TICKS <- 2, FrameTicks <- {1, 3, 4}, Transparent <- {"menu"},
    RequestBundles <- {<<Push("game")>>, <<Push("menu")>>, <<Clear>>,
                       <<Pop, Push("menu"), Push("game"), Push("menu")>>},
    REQUEST_QUEUE_SIZE <- 2, MaxFrames <- 3, MaxBundles <- 3, MaxTables <- 0,
    Recorders <- {}, Resources <- {}, Description <- <<>>, DescriptorTables <- {},
    BINDLESS_SRV_SEGMENT_SIZE <- 0, PER_FRAME_SEGMENT_COUNT <- 2, PER_FRAME_SEGMENT_SIZE <- 0,
    phase <- runPhase, submitted <- accepted

\* A buffer, and a texture that has no UAV.
ViewOfA(type) == [type |-> type, resource |-> "a"]
ViewOfB(type) == [type |-> type, resource |-> "b"]
Described == [a |-> [isBuffer |-> TRUE, srv |-> "buffer"],
               b |-> [isBuffer |-> FALSE, srv |-> "texture 3D"]]
Tables == INSTANCE Application WITH
    PHYSICS_TIMESTEP_TICKS <- 2, FrameTicks <- {0}, Transparent <- {}, RequestBundles <- {},
    REQUEST_QUEUE_SIZE <- 1, MaxFrames <- 2, MaxBundles <- 0, MaxTables <- 2,
    Recorders <- {"v", "w"}, Resources <- {"a", "b"}, Description <- Described,
    DescriptorTables <- {<<ViewOfA("UAV")>>, <<ViewOfA("SRV"), ViewOfA("CBV"), ViewOfB("SRV")>>},
    BINDLESS_SRV_SEGMENT_SIZE <- 0, PER_FRAME_SEGMENT_COUNT <- 2, PER_FRAME_SEGMENT_SIZE <- 4,
    phase <- runPhase, submitted <- accepted
Bindless == INSTANCE Application WITH
    PHYSICS_TIMESTEP_TICKS <- 2, FrameTicks <- {}, Transparent <- {}, RequestBundles <- {},
    REQUEST_QUEUE_SIZE <- 1, MaxFrames <- 0, MaxBundles <- 0, MaxTables <- 0,
    Recorders <- {}, Resources <- {"a", "b"}, Description <- Described, DescriptorTables <- {},
    BINDLESS_SRV_SEGMENT_SIZE <- 4, PER_FRAME_SEGMENT_COUNT <- 1, PER_FRAME_SEGMENT_SIZE <- 0,
    phase <- runPhase, submitted <- accepted

ASSUME Updates!ApplicationAssumption /\ Tables!ApplicationAssumption
ASSUME Heaps!HeapAssumption /\ Heaps!NewHeapSuffices

\* The other levels need no choice of a start.
StartLevel ==
    /\ level \in {"rendering", "cache", "heaps", "settings", "updates", "tables", "bindless"}
    /\ Init /\ CacheInit /\ Heaps!HeapsInit /\ Config!SettingsInit
    /\ level # "cache" => /\ file = NoFile /\ definitions = [p |-> 1, q |-> 1]
                          /\ system = <<"old">>
    /\ level \notin {"tables", "bindless"} => Updates!ApplicationInit
    /\ level = "tables" => Tables!ApplicationInit
    /\ level = "bindless" => Bindless!ApplicationInit

InRendering == /\ level = "rendering"
               /\ UNCHANGED <<level, cacheVars, heapVars, settingsVars, applicationVars>>
InCache     == /\ level = "cache"
               /\ UNCHANGED <<level, vars, heapVars, settingsVars, applicationVars>>
InHeaps     == /\ level = "heaps"
               /\ UNCHANGED <<level, vars, cacheVars, settingsVars, applicationVars>>
InSettings  == /\ level = "settings"
               /\ UNCHANGED <<level, vars, cacheVars, heapVars, applicationVars>>
InApplication == UNCHANGED <<level, vars, cacheVars, heapVars, settingsVars>>
Step == \/ InRendering /\ Next
        \/ InCache /\ CacheNext
        \/ InHeaps /\ Heaps!HeapsNext
        \/ InSettings /\ Config!SettingsNext
        \/ level = "updates" /\ Updates!ApplicationNext /\ InApplication
        \/ level = "tables" /\ Tables!ApplicationNext /\ InApplication
        \/ level = "bindless" /\ Bindless!ApplicationNext /\ InApplication

AllLevels ==
    /\ StartLevel /\ [][Step]_levels
    /\ WF_levels(InRendering /\ RunMasterRenderThreadLoop)
    /\ \A id \in 1 .. MaxBundles : WF_levels(InRendering /\ id \in Ids /\ Recorder(id))
    /\ WF_levels(InRendering /\ Waiter)
    /\ \A q \in Queues : WF_levels(InRendering /\ (ExecuteOnGPU(q) \/ SignalOnGPU(q)))
    /\ WF_levels(InCache /\ Start) /\ WF_levels(InCache /\ Initialize)
    /\ WF_levels(InCache /\ SerializePSOLibrary) /\ WF_levels(InCache /\ Exit)

\* Those of the other levels, but for the cache.
SettingsComeBack == Config!ComeBack
UpdatesAreComplete == level = "updates" => Updates!UpdatesAreDone
\* Heaps of memory, and the heap of descriptors.
HeapsAreDividedUp ==
    /\ Heaps!HeapsAreRight
    /\ level = "tables" => Tables!DescriptorsAreInPlace
    /\ level = "bindless" => Bindless!DescriptorsAreInPlace
\* Bundles complete, and the cache of PSOs is brought up to date.
EngineGoesOn == EveryBundleCompletes /\ CatchesUp
=============================================================================
