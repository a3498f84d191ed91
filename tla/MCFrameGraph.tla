----------------------------- MODULE MCFrameGraph -----------------------------
(* Two levels, each on its own.  The frame graph: a persistent render target   *)
(* under any passes with one kind of read access, and two transient resources, *)
(* a buffer the CPU writes and a larger texture.  What frames use in turn: two *)
(* tables, two workers, and a third frame that takes what the first had.       *)
EXTENDS FrameGraph, FrameResources, TLC

CONSTANTS tex, upload, large, v, w

UAV  == {"UNORDERED_ACCESS"}
RT   == {"RENDER_TARGET"}
PSR  == {"PIXEL_SHADER_RESOURCE"}
NPSR == {"NON_PIXEL_SHADER_RESOURCE"}

Pass(r, state) == <<r, 1>> :> state
Bundle(direct, compute, copy) ==
    [q \in Queues |-> CASE q = "DIRECT" -> direct [] q = "COMPUTE" -> compute [] OTHER -> copy]
BundlesOf(direct, compute, copy) ==
    LET requiring(states) == {<<>>} \cup {Pass(tex, state) : state \in states}
    IN  {b \in {Bundle(<<p>>, <<>>, <<>>) : p \in requiring(direct)}
          \cup {Bundle(<<p>>, <<c>>, <<>>) : p \in requiring(direct), c \in requiring(compute)}
          \cup {Bundle(<<>>, <<>>, <<c>>)  : c \in requiring(copy)} : IsLegal(b)}

TransientBundles ==
    {Bundle(<<Pass(r, UAV)>>, <<>>, <<>>) : r \in {upload, large}}
      \cup {Bundle(<<Pass(upload, UAV)>>, <<Pass(large, UAV)>>, <<>>)}

OneReadBundles == BundlesOf({COMMON, RT, PSR}, {UAV}, {{"COPY_DEST"}}) \cup TransientBundles
AllResources == {tex, upload, large}
Persistent   == {tex}
Transients   == {upload, large}
Buffers      == {upload}
Textures     == {tex, large}
States0      == [r \in AllResources |-> IF r = tex THEN RT ELSE COMMON]
Sizes        == [r \in AllResources |-> IF r = large THEN 2 ELSE 1]
OneHeap      == [r \in AllResources |-> 1]
Alike        == Permutations({v, w})

VARIABLE level
levels == <<level, vars, frameVars>>

Start == level \in {"graph", "resources"} /\ Init /\ FramesInit

InGraph     == level = "graph" /\ UNCHANGED <<level, frameVars>>
InResources == level = "resources" /\ UNCHANGED <<level, vars>>
Step == \/ InGraph /\ Next
        \/ InResources /\ FramesNext

Both == Start /\ [][Step]_levels
=============================================================================
