-------------------------- MODULE TextureResolution --------------------------
(***************************************************************************)
(* What the GPU is given to do for one opaque diffuse texture: the upload   *)
(* of its image, the generation of its mip maps, the compression of each    *)
(* mip level to BC7, in batches of blocks, and the copy into a read-back    *)
(* buffer.  A render pass is a record of what it is given; the shaders are    *)
(* external, and do what the DirectCompute BC7 encoder does with the blocks  *)
(* they are started for.                                                    *)
(***************************************************************************)
LOCAL INSTANCE Naturals
LOCAL INSTANCE Sequences
LOCAL INSTANCE SequencesExt

CONSTANTS MAX_BLOCKS_IN_BATCH, MAX_OUTPUT_TEXTURES_PER_PASS

MipLevels(width) == CHOOSE n \in 1 .. width : 2 ^ (n - 1) = width
IsPowerOfTwo(n) == \E k \in 0 .. n : 2 ^ k = n
Width(width, mip) == width \div (2 ^ mip)

\* The blocks in a row of a square image: at least one, however small the image is.
NumBlocksPerRow(width) == (width + 3) \div 4
TotalBlockCount(width) == NumBlocksPerRow(width) * NumBlocksPerRow(width)

-----------------------------------------------------------------------------
(* Resources are the levels of the texture and, for each of them, the       *)
(* buffers of its compressor.  A block is the data it is made of, and the   *)
(* modes that were tried on it.                                            *)

Mip(i) == <<"texture", i>>
Garbage == [data |-> "garbage", modes |-> <<>>]

Resources(width) ==
    {Mip(i) : i \in 0 .. (MipLevels(width) - 1)}
        \cup ({"constants", "error1", "error2", "output", "readback"} \X (0 .. (MipLevels(width) - 1)))
TransientMemory(width) ==
    [r \in Resources(width) |->
        CASE r[1] = "texture"   -> "garbage"
          [] r[1] = "constants" -> "garbage"
          [] OTHER -> [b \in 0 .. (TotalBlockCount(Width(width, r[2])) - 1) |-> Garbage]]

SourceTextureCopyPass == [name |-> "upload"]

\* Each pass reads a level and generates the one or two that follow.
MipMapGenerationPasses(width) ==
    [k \in 1 .. (MipLevels(width) \div MAX_OUTPUT_TEXTURES_PER_PASS) |->
        LET mip == MAX_OUTPUT_TEXTURES_PER_PASS * (k - 1)
        IN  [name |-> "mip maps", input |-> mip,
             outputs |-> {i \in (mip + 1) .. (mip + MAX_OUTPUT_TEXTURES_PER_PASS) :
                             i < MipLevels(width)}]]

ConstantBufferCopyPass(width, mip) ==
    [name |-> "constants", mip |-> mip, NumTotalBlocks |-> TotalBlockCount(Width(width, mip))]

\* The modes read one of the two error buffers and write the other, in turns.
ModeOrder == <<"456", "1", "3", "7", "0", "2", "encode">>
InputBuffer(mode) == IF mode \in {"1", "7", "2"} THEN "error1" ELSE "error2"
OutputBuffer(mode) == CASE mode = "encode" -> "output"
                        [] mode \in {"1", "7", "2"} -> "error2"
                        [] OTHER -> "error1"

\* Each group of threads of the first and the last pass handles four blocks.
BlocksDispatched(mode, blocks) ==
    IF mode \in {"456", "encode"} THEN 4 * ((blocks + 3) \div 4) ELSE blocks

CompressionPass(mip, mode, start, blocks) ==
    [name |-> "compress", mip |-> mip, mode |-> mode, start |-> start,
     in |-> InputBuffer(mode), out |-> OutputBuffer(mode),
     blocks |-> BlocksDispatched(mode, blocks)]

\* Mutant: the last blocks do not fill a batch, and are left out.
FullBatches(width, mip) == TotalBlockCount(Width(width, mip)) \div MAX_BLOCKS_IN_BATCH

\* One batch after the other goes through all the modes.
NumBatches(width, mip) ==
    (TotalBlockCount(Width(width, mip)) + MAX_BLOCKS_IN_BATCH - 1) \div MAX_BLOCKS_IN_BATCH
CompressionPasses(width, mip) ==
    LET modes == Len(ModeOrder)
    IN  [k \in 1 .. (NumBatches(width, mip) * modes) |->
            LET start == ((k - 1) \div modes) * MAX_BLOCKS_IN_BATCH
                left == TotalBlockCount(Width(width, mip)) - start
            IN  CompressionPass(mip, ModeOrder[((k - 1) % modes) + 1], start,
                                IF left < MAX_BLOCKS_IN_BATCH THEN left ELSE MAX_BLOCKS_IN_BATCH)]

ReadBackBufferCopyPass(mip) == [name |-> "read back", mip |-> mip]

TextureResolutionRenderPasses(width) ==
    LET mips == [k \in 1 .. MipLevels(width) |-> k - 1]
    IN  <<SourceTextureCopyPass>> \o MipMapGenerationPasses(width)
            \o FlattenSeq([k \in DOMAIN mips |-> <<ConstantBufferCopyPass(width, mips[k])>>
                                                    \o CompressionPasses(width, mips[k])])
            \o [k \in DOMAIN mips |-> ReadBackBufferCopyPass(mips[k])]

-----------------------------------------------------------------------------
(* The GPU executes the passes in their order.                              *)

Encode(memory, pass, block) ==
    IF pass.mode = "456" THEN [data |-> memory[Mip(pass.mip)], modes |-> <<pass.mode>>]
    ELSE LET best == memory[<<pass.in, pass.mip>>][block]
         IN  [data |-> IF best.data = memory[Mip(pass.mip)] THEN best.data ELSE "garbage",
              modes |-> Append(best.modes, pass.mode)]

Execute(image, memory, pass) ==
    CASE pass.name = "upload"    -> [memory EXCEPT ![Mip(0)] = image]
      [] pass.name = "mip maps"  -> [r \in DOMAIN memory |->
             IF \E i \in pass.outputs : r = Mip(i) THEN memory[Mip(pass.input)] ELSE memory[r]]
      [] pass.name = "constants" ->
             [memory EXCEPT ![<<"constants", pass.mip>>] = pass.NumTotalBlocks]
      [] pass.name = "compress"  -> [memory EXCEPT ![<<pass.out, pass.mip>>] =
             [b \in DOMAIN @ |->
                 IF /\ pass.start <= b /\ b < pass.start + pass.blocks
                    /\ b < memory[<<"constants", pass.mip>>]
                 THEN Encode(memory, pass, b) ELSE @[b]]]
      [] pass.name = "read back" ->
             [memory EXCEPT ![<<"readback", pass.mip>>] = memory[<<"output", pass.mip>>]]

ReadBackBuffer(image, width, passes) ==
    LET memory == FoldLeft(LAMBDA m, p : Execute(image, m, p), TransientMemory(width), passes)
    IN  [i \in 0 .. (MipLevels(width) - 1) |-> memory[<<"readback", i>>]]

\* Each block of each level is made of the image, and of the best of all modes.
CompressedTexture(image, width) ==
    [i \in 0 .. (MipLevels(width) - 1) |->
        [b \in 0 .. (TotalBlockCount(Width(width, i)) - 1) |->
            [data |-> image, modes |-> ModeOrder]]]
=============================================================================
