------------------------------ MODULE AssetData ------------------------------
(***************************************************************************)
(* What the data of an asset request goes through, from the archive (or a    *)
(* file of its own) to its place in memory: with the Win32 handler a thread  *)
(* maps the file, decompresses block by block and copies all blocks; with    *)
(* DirectStorage the queue reads, and a thread decompresses on its behalf.   *)
(* When which of them happens is the subject of AssetIO.                     *)
(*                                                                         *)
(* Files and memory consist of units.  ZStandard, files and DirectStorage    *)
(* are external; ZStandard has the whole frame at hand, so that it says it   *)
(* is finished when it has given out everything.                             *)
(***************************************************************************)
EXTENDS Integers, Sequences, FiniteSets, FiniteSetsExt, SequencesExt

CONSTANTS Archives,      \* what Data.bpk may be: Magic, Version, entries, and its bytes
          CustomFile,    \* the bytes of another file
          FrameOf, Content, \* of each asset: what is compressed, and what of
          Requests,      \* each with its file, its source there and its place in memory
          MemorySize,
          ZSTDBlockSize  \* ZSTD_DStreamOutSize

VARIABLES bpk, handler,
          mTableOfContents,  \* [hash -> entry], when phase = "running"
          phase,
          loads,             \* [request -> how far it is, and the data it has]
          memory             \* [address -> unit]

dataVars == <<bpk, handler, mTableOfContents, phase, loads, memory>>

Nothing == [at |-> "none", input |-> <<>>, given |-> 0, blocks |-> <<>>]
Untouched == <<"untouched", 0>>
Zero == <<"zero", 0>>
RequestIDs == DOMAIN Requests

-----------------------------------------------------------------------------
(* BPKArchiveReader. *)

BPK_MAGIC == "BPK"
CURRENT_BPK_VERSION == 1

HasVersionedHeader == bpk.Magic = BPK_MAGIC /\ bpk.Version = CURRENT_BPK_VERSION

\* try_emplace: of several entries with one hash the first one stays.
CreateTableOfContents ==
    LET hashes == {bpk.entries[i].hash : i \in DOMAIN bpk.entries}
        first(h) == Min({i \in DOMAIN bpk.entries : bpk.entries[i].hash = h})
    IN  [h \in hashes |-> bpk.entries[first(h)]]

BPKArchiveReader ==
    /\ phase = "start"
    /\ phase' = IF HasVersionedHeader THEN "running" ELSE "failed"
    /\ mTableOfContents' = IF HasVersionedHeader THEN CreateTableOfContents ELSE <<>>
    /\ UNCHANGED <<bpk, handler, loads, memory>>

Entry(r) == mTableOfContents[Requests[r].hash]
IsDataCompressed(entry) == entry.compressed # 0

\* A mutant: a view as long as the asset.
ViewOfAsset(entry) == SubSeq(bpk.bytes, entry.offset + 1, entry.offset + entry.uncompressed)

\* CreateMappedFileViewForAsset, CreateDStorageSourceForBPKAsset.
SourceOf(entry) ==
    SubSeq(bpk.bytes, entry.offset + 1,
           entry.offset + (IF IsDataCompressed(entry) THEN entry.compressed ELSE entry.uncompressed))

-----------------------------------------------------------------------------
(* AddAssetIORequest: the source and the place are settled.                  *)

IsCustom(r) == Requests[r].file = "custom"
IsCompressed(r) == ~ IsCustom(r) /\ IsDataCompressed(Entry(r))

\* What is to be written, by the request or by the table of contents.
SizeOf(r) == IF IsCustom(r) THEN Requests[r].size ELSE Entry(r).uncompressed
Place(r) == Requests[r].place

\* Of a file of its own, what the request says; of the archive, the asset.
CustomSource(r) == SubSeq(CustomFile, Requests[r].offset + 1, Requests[r].offset + SizeOf(r))
Source(r) == IF IsCustom(r) THEN CustomSource(r) ELSE SourceOf(Entry(r))

AddAssetIORequest(r) ==
    /\ phase = "running" /\ loads[r] = Nothing
    /\ ~ IsCustom(r) => Requests[r].hash \in DOMAIN mTableOfContents
    /\ loads' = [loads EXCEPT ![r] = [Nothing EXCEPT !.at = "added", !.input = Source(r)]]
    /\ UNCHANGED <<bpk, handler, mTableOfContents, phase, memory>>

Written(start, units) ==
    [a \in DOMAIN memory |->
        IF a - start + 1 \in DOMAIN units THEN units[a - start + 1] ELSE memory[a]]
Finish(r, at, units) ==
    /\ loads' = [loads EXCEPT ![r] = [Nothing EXCEPT !.at = at]]
    /\ memory' = Written(Place(r), units)
    /\ UNCHANGED <<bpk, handler, mTableOfContents, phase>>

-----------------------------------------------------------------------------
(* ZSTDDecompressionOperation. *)

\* The assets with this frame; with no frame there is an error.
Decoded(input) == {a \in DOMAIN FrameOf : FrameOf[a] = input}
ContentOf(r) == UNION {{Content[a]} : a \in Decoded(loads[r].input)}

\* BeginDecompressionOperation.  DirectStorage says whether the place is in an upload
\* heap, from which ZStandard should not read.
BeginDecompression(r) ==
    /\ loads[r].at = (IF handler = "Win32" THEN "added" ELSE "read") /\ IsCompressed(r)
    /\ \E at \in (IF handler = "Win32" THEN {"decompressing"} ELSE {"decompressing", "direct"}) :
          loads' = [loads EXCEPT ![r].at = IF ContentOf(r) = {} THEN "error" ELSE at]
    /\ UNCHANGED <<bpk, handler, mTableOfContents, phase, memory>>

\* The loop of FinishDecompressionOperation: every block has its full size, the last
\* one too, because shrink_to_fit does not make it smaller.
DecompressBlock(r) ==
    /\ loads[r].at = "decompressing"
    /\ \E content \in ContentOf(r) :
          LET given == loads[r].given
              size == Min({ZSTDBlockSize, Len(content) - given})
              block == [i \in 1 .. ZSTDBlockSize |-> IF i <= size THEN content[given + i] ELSE Zero]
          IN  loads' = [loads EXCEPT
                  ![r].given = given + size, ![r].blocks = Append(@, block),
                  ![r].at = IF given + size = Len(content) THEN "decompressed" ELSE "decompressing"]
    /\ UNCHANGED <<bpk, handler, mTableOfContents, phase, memory>>

\* With a destination: what there is room for is given out at once.
FinishDirectly(r) ==
    /\ loads[r].at = "direct"
    /\ \E content \in ContentOf(r) :
          IF Len(content) <= SizeOf(r) THEN Finish(r, "loaded", content)
          ELSE Finish(r, "insufficient", SubSeq(content, 1, SizeOf(r)))

-----------------------------------------------------------------------------
(* The end of a load. *)

\* The callbacks of the Win32AssetIORequestBuilder.
WriteToBuffer(r) ==
    /\ handler = "Win32"
    /\ \/ loads[r].at = "decompressed" /\ Finish(r, "loaded", FlattenSeq(loads[r].blocks))
       \/ loads[r].at = "added" /\ ~ IsCompressed(r) /\ Finish(r, "loaded", loads[r].input)

\* DirectStorage has read the source; what is not compressed it writes.
ReadFromFile(r) ==
    /\ handler = "DirectStorage" /\ loads[r].at = "added"
    /\ IF IsCompressed(r)
       THEN /\ loads' = [loads EXCEPT ![r].at = "read"]
            /\ UNCHANGED <<bpk, handler, mTableOfContents, phase, memory>>
       ELSE Finish(r, "loaded", loads[r].input)

\* HandleDirectStorageDecompressionRequest, for an upload heap.
CopyToUploadHeap(r) ==
    /\ handler = "DirectStorage" /\ loads[r].at = "decompressed"
    /\ LET units == FlattenSeq(loads[r].blocks)
       IN  IF SizeOf(r) < Len(units) THEN Finish(r, "insufficient", <<>>)
           ELSE Finish(r, "loaded", units)

DataInit ==
    /\ bpk \in Archives /\ handler \in {"Win32", "DirectStorage"}
    /\ phase = "start" /\ mTableOfContents = <<>>
    /\ loads = [r \in RequestIDs |-> Nothing]
    /\ memory = [a \in 0 .. MemorySize - 1 |-> Untouched]

DataNext ==
    \/ BPKArchiveReader
    \/ \E r \in RequestIDs :
          \/ AddAssetIORequest(r) \/ BeginDecompression(r) \/ DecompressBlock(r)
          \/ FinishDirectly(r) \/ WriteToBuffer(r) \/ ReadFromFile(r) \/ CopyToUploadHeap(r)

-----------------------------------------------------------------------------
\* Where r writes nothing of its own: the rest of the last block, with the Win32 handler.
RestOfBlocks(r) ==
    IF handler = "Win32" /\ IsCompressed(r)
    THEN {a \in DOMAIN memory : /\ a >= Place(r) + SizeOf(r)
                                /\ a < Place(r) + SizeOf(r) + ((-SizeOf(r)) % ZSTDBlockSize)}
    ELSE {}
Rests == UNION {RestOfBlocks(r) : r \in {q \in RequestIDs : loads[q].at = "loaded"}}
Own(r) == Place(r) .. Place(r) + SizeOf(r) - 1

Expected(r) == IF IsCustom(r) THEN CustomSource(r) ELSE Content[Requests[r].asset]

\* A request that is complete has its asset, whole and at its place, whatever the other
\* requests do meanwhile, and nothing is written beside the places: but for what the
\* last block of a decompressed asset holds beyond its end.  A request fails only if
\* that rest keeps it from an upload heap, and no program begins with another archive
\* (Win32AssetIORequestBuilder, HandleDirectStorageDecompressionRequest).
DataIsInItsPlace ==
    /\ phase = "running" => HasVersionedHeader
    /\ \A r \in RequestIDs : loads[r].at = "loaded" =>
          \A a \in Own(r) \ Rests : memory[a] = Expected(r)[a - Place(r) + 1]
    /\ \A a \in DOMAIN memory :
          memory[a] # Untouched =>
              a \in Rests \cup UNION {Own(r) : r \in {q \in RequestIDs : loads[q] # Nothing}}
    /\ \A r \in RequestIDs :
          /\ loads[r].at # "error"
          /\ loads[r].at = "insufficient" => SizeOf(r) % ZSTDBlockSize # 0
=============================================================================
