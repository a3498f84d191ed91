--------------------------- MODULE MCModelExport ---------------------------
(* Command lines of up to four arguments, and those with a good option and   *)
(* up to four arguments after it, in which the good file comes up once; and  *)
(* models of one LOD and of two, of scenes of one and two meshes, two of     *)
(* which have the same image, and of others that cannot be exported.         *)
EXTENDS ModelExport, Integers

Argument(path, switch, model, name, fbx, disk) ==
    [path |-> path, switch |-> switch, model |-> model, name |-> name, fbx |-> fbx, disk |-> disk]
Executable == Argument("exe", FALSE, FALSE, FALSE, FALSE, "file")
Option == Argument("/ModelName", TRUE, TRUE, FALSE, FALSE, "none")
Name == Argument("name", FALSE, FALSE, TRUE, FALSE, "none")
FBXFile(f) == Argument(f, FALSE, FALSE, TRUE, TRUE, "file")
One == Argument("/one.fbx", TRUE, FALSE, FALSE, TRUE, "file")
Two == FBXFile("two.fbx")
Bare == FBXFile("bare.fbx")
Oblong == FBXFile("oblong.fbx")
WrongFBXFiles == {FBXFile("half.fbx"), Bare, Oblong}
Arguments ==
    {Option, Name, One, FBXFile("bad.fbx"),
     Argument("missing.fbx", FALSE, FALSE, TRUE, TRUE, "none"),
     Argument("directory.fbx", FALSE, FALSE, TRUE, TRUE, "directory"),
     Argument("file?", FALSE, FALSE, FALSE, FALSE, "file")}
Sequences(set, n) == UNION {[1 .. k -> set] : k \in 0 .. n}
OncePerLine(s) == Cardinality({i \in DOMAIN s : s[i] = One}) <= 1

MCCommandLines ==
    {<<Executable>> \o s : s \in Sequences(Arguments, 4)}
        \cup {<<Executable, Option, Name>> \o s : s \in {u \in Sequences(Arguments, 4) : OncePerLine(u)}}
        \cup {<<Executable, Option, Name>> \o lods \o <<Name>> : lods \in
                  {<<Two>>, <<One, One>>, <<Two, One>>}
                      \cup {<<f>> : f \in WrongFBXFiles} \cup {<<f, One>> : f \in {Bare, Oblong}}
                      \cup {<<f, g>> : f, g \in WrongFBXFiles}}

MeshOf(image, width, positions, defect) ==
    [image |-> image, width |-> width, positions |-> positions, faces |-> <<<<0, 1, 2>>, <<2, 1, 0>>>>,
     defect |-> defect]
MCScenes ==
    [f \in {"/one.fbx", "two.fbx", "bad.fbx", "half.fbx", "bare.fbx", "oblong.fbx"} |->
        CASE f = "/one.fbx" -> <<MeshOf("brick", 8, <<-20, -10>>, "none")>>
          [] f = "two.fbx"  -> <<MeshOf("brick", 8, <<10, -10, 20>>, "none"),
                                 MeshOf("wood", 16, <<20, 20>>, "none")>>
          [] f = "bad.fbx"  -> <<MeshOf("brick", 8, <<10>>, "skinned")>>
          [] f = "half.fbx" -> <<MeshOf("brick", 8, <<10>>, "none"), MeshOf("brick", 8, <<>>, "mesh")>>
          [] f = "bare.fbx" -> <<MeshOf("none", 8, <<10>>, "no texture")>>
          [] OTHER          -> <<MeshOf("brick", 8, <<10>>, "not square")>>]
=============================================================================
