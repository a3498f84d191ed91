----------------------------- MODULE BPKArchive -----------------------------
(***************************************************************************)
(* A .bpk archive: the FilePacker writes it, and an application maps parts  *)
(* of it into memory and decompresses an asset chunk by chunk.              *)
(*                                                                         *)
(* The file is a sequence of units.  A unit of an asset's frame gives some  *)
(* number of blocks of data, which ZStandard may keep to itself for a       *)
(* while: it is external, and does what its documentation allows.           *)
(***************************************************************************)
EXTENDS Naturals, Sequences, FiniteSets, FiniteSetsExt, SequencesExt

CONSTANTS
    ZSTD_INPUT_CHUNK_SIZE,          \* in units
    MEMORY_ALLOCATION_GRANULARITY,
    HEADER_SIZE, TOC_ENTRY_SIZE,
    PathHash,                       \* [asset -> hash of its path]
    MaxRounds                       \* a bound: how often an asset is decompressed in a loop

ASSUME BPKAssumption == /\ ZSTD_INPUT_CHUNK_SIZE \in Nat \ {0}
                        /\ MEMORY_ALLOCATION_GRANULARITY \in Nat \ {0}

VARIABLES
    bpk,        \* the archive, or <<>>
    reader      \* the asset an application decompresses

bpkVars == <<bpk, reader>>

-----------------------------------------------------------------------------
(* Writing.  An archive of an asset: its name, whether it is compressed, and *)
(* its frame, a sequence of the numbers of blocks its units give.            *)

\* CheckForHashCollisions.
HashCollision(archives) == \E i, j \in DOMAIN archives :
    i # j /\ PathHash[archives[i].asset] = PathHash[archives[j].asset]

\* WriteTableOfContents: the frames follow it in the same order.
TableOfContents(archives) ==
    LET compressed(a) == IF a.DoNotCompress THEN 0 ELSE Len(a.frame)
        sizeOf(a) == IF a.DoNotCompress THEN a.size ELSE compressed(a)
        start == HEADER_SIZE + TOC_ENTRY_SIZE * Len(archives)
        offset(i) == FoldLeft(LAMBDA sum, a : sum + sizeOf(a), start, SubSeq(archives, 1, i - 1))
    IN  [i \in DOMAIN archives |->
            [hash |-> PathHash[archives[i].asset], offset |-> offset(i),
             compressed |-> compressed(archives[i]), uncompressed |-> archives[i].size]]

\* WriteBPKFile.
BPKFile(archives) ==
    LET TOC == TableOfContents(archives)
        header == [n \in 1 .. HEADER_SIZE |-> [header |-> n]]
        entries == FlattenSeq([i \in DOMAIN TOC |-> [n \in 1 .. TOC_ENTRY_SIZE |-> TOC[i]]])
        frame(a) == [n \in DOMAIN a.frame |-> [asset |-> a.asset, unit |-> n, blocks |-> a.frame[n],
                                               length |-> a.length]]
    IN  header \o entries \o FlattenSeq([i \in DOMAIN archives |-> frame(archives[i])])

-----------------------------------------------------------------------------
(* Reading.                                                                *)

\* CreateTableOfContents: of two entries with one hash the first one counts.
TOCEntry(hash) ==
    LET first(i) == bpk[HEADER_SIZE + 1 + TOC_ENTRY_SIZE * (i - 1)]
    IN  first(Min({i \in 1 .. (Len(bpk) - HEADER_SIZE) :
                      /\ HEADER_SIZE + 1 + TOC_ENTRY_SIZE * (i - 1) \in DOMAIN bpk
                      /\ "hash" \in DOMAIN first(i)
                      /\ first(i).hash = hash}))

\* Mutant: whole chunks only.
WholeChunks(entry) ==
    [i \in 1 .. Max({entry.compressed \div ZSTD_INPUT_CHUNK_SIZE, 1}) |->
        [offset |-> entry.offset + ZSTD_INPUT_CHUNK_SIZE * (i - 1), size |-> ZSTD_INPUT_CHUNK_SIZE]]

\* The chunks of an asset.  One of a size which is a multiple of that of a
\* chunk has a last chunk without data.
InitializeRingBuffer(entry) ==
    [i \in 1 .. (entry.compressed \div ZSTD_INPUT_CHUNK_SIZE) + 1 |->
        LET done == ZSTD_INPUT_CHUNK_SIZE * (i - 1)
        IN  [offset |-> entry.offset + done,
             size |-> Min({entry.compressed - done, ZSTD_INPUT_CHUNK_SIZE})]]

GetAlignedFileOffset(offset) == offset - (offset % MEMORY_ALLOCATION_GRANULARITY)

\* MapViewOfFileEx: a view begins at a multiple of the granularity, and one of size
\* zero is the rest of the file.
CanMap(offset, size) ==
    /\ offset % MEMORY_ALLOCATION_GRANULARITY = 0
    /\ IF size = 0 THEN offset < Len(bpk) ELSE offset + size <= Len(bpk)

\* MappedFileView: what is mapped begins at a multiple of the granularity.
IsMapped(chunk) ==
    LET fileOffset == GetAlignedFileOffset(chunk.offset)
    IN  CanMap(fileOffset, chunk.size + (chunk.offset - fileOffset))
MappedData(chunk) ==
    LET fileOffset == GetAlignedFileOffset(chunk.offset)
        view == SubSeq(bpk, fileOffset + 1, Len(bpk))
        delta == chunk.offset - fileOffset
    IN  SubSeq(view, delta + 1, delta + chunk.size)

-----------------------------------------------------------------------------
(* I_ZSTDContext::DecompressData and BPKZSTDContext. "frame" is the number   *)
(* of units of the frame the context has consumed, "pending" the blocks it   *)
(* has decoded and not given out, "rounds" how often the frame was finished. *)
(* "inOrder" is history: what was consumed is what follows in the frame.     *)

NoReader == [asset |-> "none"]
BPKInit == bpk = <<>> /\ reader = NoReader

\* The next chunk: WRAP_AROUND begins again after the last one.
IsFinished(r) == ~r.wrap /\ r.index > Len(r.chunks)
GetNextBlock(r) == IF r.wrap THEN (r.index % Len(r.chunks)) + 1 ELSE r.index + 1

\* What ZStandard does with a frame that is not whole is not said here.
IsIntact(asset) == \A n \in DOMAIN bpk :
    "unit" \in DOMAIN bpk[n] /\ bpk[n].asset = asset /\ TOCEntry(PathHash[asset]).compressed > 0
        => bpk[n].length = TOCEntry(PathHash[asset]).compressed

OpenAsset(asset, wrap) ==
    /\ bpk # <<>> /\ reader = NoReader /\ IsIntact(asset)
    /\ reader' = [asset |-> asset, wrap |-> wrap, index |-> 1,
                  chunks |-> InitializeRingBuffer(TOCEntry(PathHash[asset])),
                  pc |-> "idle", in |-> <<>>, room |-> 0, frame |-> 0, atEnd |-> FALSE, pending |-> 0,
                  rounds |-> 0, inOrder |-> TRUE]
    /\ UNCHANGED bpk

\* DecompressData(1): the output has the size of a block, and the input is a chunk.
FetchInputData ==
    /\ reader # NoReader /\ reader.pc = "idle" /\ ~IsFinished(reader)
    /\ reader.rounds < MaxRounds
    /\ LET chunk == reader.chunks[reader.index]
       IN  reader' = [reader EXCEPT !.index = GetNextBlock(reader),
                                    !.pc = IF IsMapped(chunk) THEN "stream" ELSE "failed",
                                    !.in = IF IsMapped(chunk) THEN MappedData(chunk) ELSE <<>>,
                                    !.room = 1]
    /\ UNCHANGED bpk

\* ZSTD_decompressStream, which consumes k units: it gives out what it can, and
\* goes on while all is given out.  When that leaves no room it may go on, too.
Total(r, k) == FoldLeft(LAMBDA sum, u : sum + u.blocks, r.pending, SubSeq(r.in, 1, k))
EndsFrame(r, k) == k > 0 /\ r.in[k].length = r.frame + k
MayStopAfter(r, k, room) ==
    /\ \A j \in 0 .. (k - 1) : Total(r, j) <= room /\ ~EndsFrame(r, j)
    /\ r.atEnd => k = 0
    /\ Total(r, k) >= room \/ k = Len(r.in) \/ EndsFrame(r, k)
    /\ k > 0 \/ r.pending > 0

GrownRoom(r) == IF r.room = 0 THEN 1 ELSE r.room

DecompressStream ==
    /\ reader # NoReader /\ reader.pc = "stream" /\ reader.in # <<>>
    /\ LET room == GrownRoom(reader)
       IN  \E k \in 0 .. Len(reader.in) :
             /\ MayStopAfter(reader, k, room)
             /\ LET given == Min({Total(reader, k), room})
                    left == Total(reader, k) - given
                    over == left = 0 /\ (IF k = 0 THEN reader.atEnd ELSE EndsFrame(reader, k))
                IN  reader' = [reader EXCEPT
                        !.in = SubSeq(@, k + 1, Len(@)),
                        !.room = room - given, !.pending = left,
                        !.rounds = IF over THEN @ + 1 ELSE @,
                        \* ResetDecompressionContext, at the end of a frame.
                        !.frame = IF over THEN 0 ELSE @ + k,
                        !.atEnd = ~over /\ (EndsFrame(reader, k) \/ (k = 0 /\ @)),
                        !.inOrder = /\ @
                                    /\ \A n \in 1 .. k : /\ reader.in[n].asset = reader.asset
                                                         /\ reader.in[n].unit = reader.frame + n]
    /\ UNCHANGED bpk

BlockDecompressed ==
    /\ reader # NoReader /\ reader.pc = "stream" /\ reader.in = <<>>
    /\ reader' = [reader EXCEPT !.pc = "idle", !.room = 0]
    /\ UNCHANGED bpk
=============================================================================
