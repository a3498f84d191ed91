---------------------------- MODULE MCFilePacker ----------------------------
(* Two assets in a directory that has a sub-directory, each with a .bcainfo   *)
(* file or without; names lead from one directory to the other.              *)
EXTENDS FilePacker
CONSTANTS a, b, dir, sub, bcaInfo
MCDirectoryOf == [x \in Files |-> IF x = bcaInfo THEN sub ELSE dir]
MCFileOrder == <<a, b, sub, dir>>
Info(file, value) == <<file, ":", "{", "DoNotCompress", ":", value, "}">>
TextsAre(inDir, inSub) == [d \in Directories |-> IF d = dir THEN inDir ELSE inSub]
\* No file; one that is empty, right, wrong, or begins with a file of the directory
\* below; each directory is given the descriptions of the other; or one those of both.
MCTexts == {TextsAre(NoFile, NoFile), TextsAre(<<>>, NoFile), TextsAre(Info(a, "true"), NoFile),
            TextsAre(Info(b, "false") \o <<"other">>, NoFile),
            TextsAre(Info(bcaInfo, "true") \o Info(a, "true"), NoFile),
            TextsAre(Info(bcaInfo, "true"), Info(a, "true")),
            TextsAre(Info(a, "true"), Info(b, "false"))}
MCPathHash == [x \in Assets |-> x]
MCCompressedFrame == [x \in Assets |-> IF x = a THEN <<<<1, 2>>, <<1, 1, 1>>>> ELSE <<<<2>>>>]
MCRawFrame == [x \in Assets |-> IF x = a THEN <<<<1, 1, 1>>, <<1, 1, 1>>>> ELSE <<<<1, 1>>>>]
=============================================================================
