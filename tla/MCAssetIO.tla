----------------------------- MODULE MCAssetIO -----------------------------
(* Two levels, each on its own: a mesh with data of two priorities and       *)
(* textures with a request each, which has the texture's name; and the data  *)
(* of four requests that lie side by side in memory.                         *)
EXTENDS AssetIO
CONSTANTS mesh, vertices, indices
MCRequestsOf == [d \in Dependencies |-> IF d = mesh THEN <<indices, vertices>> ELSE <<d>>]
MCPriority == [r \in Requests |-> IF r = indices THEN 1 ELSE PRIORITY_COUNT]

VARIABLES level, bpk, handler, mTableOfContents, phase, loads, memory
dataVars == <<bpk, handler, mTableOfContents, phase, loads, memory>>
levels == <<level, vars, dataVars>>

\* An archive holds the frames of "a" and "c", and "b" as it is, behind two units of
\* header and contents; or it is no archive of this version.
Units(name, n) == [i \in 1 .. n |-> <<name, i>>]
Frames == [a |-> Units("frame of a", 2), c |-> Units("frame of c", 1)]
Contents == [a |-> Units("a", 3), b |-> Units("b", 2), c |-> Units("c", 2)]
Entry(hash, offset, compressed, uncompressed) ==
    [hash |-> hash, offset |-> offset, compressed |-> compressed, uncompressed |-> uncompressed]
Archive(magic, version) ==
    [Magic |-> magic, Version |-> version,
     bytes |-> Units("header", 2) \o Frames.a \o Contents.b \o Frames.c \o Units("end", 1),
     entries |-> <<Entry(1, 2, 2, 3), Entry(2, 4, 0, 2), Entry(3, 6, 1, 2), Entry(1, 0, 0, 1)>>]
OfAsset(asset, hash, place) == [file |-> "bpk", asset |-> asset, hash |-> hash, place |-> place]

Data == INSTANCE AssetData WITH
    Archives <- {Archive("BPK", 1), Archive("BPK", 2), Archive("ZIP", 1)},
    CustomFile <- Units("file", 4), FrameOf <- Frames, Content <- Contents,
    Requests <- <<OfAsset("a", 1, 0), OfAsset("b", 2, 3), OfAsset("c", 3, 5),
                  [file |-> "custom", offset |-> 1, size |-> 2, place |-> 7]>>,
    MemorySize <- 10, ZSTDBlockSize <- 2

\* The other level needs no choice of a start.
Begin ==
    /\ level \in {"requests", "data"}
    /\ Init /\ Data!DataInit
    /\ level = "requests" => bpk = Archive("BPK", 1) /\ handler = "Win32"
    /\ level = "data" => mRequestHandlerPtr = "Win32"

InRequests == level = "requests" /\ UNCHANGED <<level, dataVars>>
InData     == level = "data" /\ UNCHANGED <<level, vars>>
\* The data may be complete; requests go on.
Step == \/ InRequests /\ Next
        \/ InData /\ Data!DataNext
        \/ InData /\ UNCHANGED dataVars

BothLevels ==
    /\ Begin /\ [][Step]_levels
    /\ \A t \in Threads : WF_levels(InRequests /\ ExecuteJob(t))
                          /\ WF_levels(InRequests /\ CheckDelayedJobs(t))
    /\ WF_levels(InRequests /\ SubmitAssetIORequests)
    /\ WF_levels(InRequests /\ DirectStorage) /\ WF_levels(InRequests /\ Drain)

\* An asset is loaded when its dependency says so, each unit of it at its place.
AssetsAreLoaded == DependencyOutlivesItsLoading /\ Data!DataIsInItsPlace
=============================================================================
