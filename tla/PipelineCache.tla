---------------------------- MODULE PipelineCache ----------------------------
(***************************************************************************)
(* The start of a program that uses the framework, and the file in which it *)
(* keeps its compiled pipeline states (PSOs) from one start to the next:    *)
(* Renderer::Initialize runs jobs that initialise the components, one of    *)
(* them maps the file; then there is a job for every PSO, which takes it    *)
(* from the file or compiles it.  When one had to be compiled the file is   *)
(* written again by a job that nobody waits for.                            *)
(*                                                                         *)
(* Programs end, are killed, and throw; between two starts the definitions  *)
(* of the PSOs and the adapters may change.  The file system and Direct3D are *)
(* external.                                                               *)
(***************************************************************************)
EXTENDS Naturals, Sequences, FiniteSets, FiniteSetsExt

CONSTANTS PSOs, Versions,
          Systems,      \* the adapters of a computer, by their drivers, best first
          Capable,      \* those with libraries, shader model 6 and binding tier 2
          Size,         \* [PSO -> [version -> size of its serialized form]]
          MaxChanges,   \* bound: changes of a definition or of the system
          MaxKills      \* bound: programs that are killed, or end before the file is written

Components == {"PSO library", "persistent resources", "commands", "root signatures",
               "frame graphs"}

\* PSOs and components are identified by members of two enumerations.
ASSUME PipelineCacheAssumption ==
    /\ \A p \in PSOs : \A v \in Versions : Size[p][v] \in Nat \ {0}
    /\ PSOs \cap (Components \cup {"bindless SRVs"}) = {}

VARIABLES file,                 \* the PSO library
          definitions, system,  \* what the next program is built and run with
          changes, kills,
          phase,                \* where Renderer::Initialize is, or "off"
          driver,               \* that of the device, or "none"
          jobs,                 \* the jobs of the initialization still to be executed
          initialized,          \* the components that are initialised
          mPipelineLibrary,     \* what of the file the program can use
          isMapped,             \* of mLibraryFileView
          mNeedsSerialization,
          mPSOMap,
          serialization         \* where the job that writes the file is

cacheFileVars == <<file, definitions, system, changes, kills>>
programVars == <<phase, driver, jobs, initialized, mPipelineLibrary, isMapped,
                 mNeedsSerialization, mPSOMap, serialization>>
cacheVars == <<cacheFileVars, programVars>>

-----------------------------------------------------------------------------
(* The file: its size, and the library it holds unless it holds none that    *)
(* Direct3D would recognise.                                               *)

NoLibrary == [psos |-> {}, driver |-> "none"]
NoFile    == [kind |-> "none", size |-> 0, library |-> NoLibrary]
Directory == [kind |-> "directory", size |-> 0, library |-> NoLibrary]
EmptyFile == [kind |-> "file", size |-> 0, library |-> NoLibrary]

LibrarySize(defs) == MapThenSumSet(LAMBDA p : Size[p][defs[p]], PSOs)
CurrentLibrary == [psos |-> definitions, driver |-> driver]

\* ID3D12Device1::CreatePipelineLibrary.  When the library is not all of the file,
\* it may be recognised or not.
CreatePipelineLibrary ==
    LET library == file.library
    IN  IF library = NoLibrary \/ library.driver # driver THEN {NoLibrary}
        ELSE IF file.size = LibrarySize(library.psos) THEN {library}
        ELSE {library, NoLibrary}

\* ID3D12PipelineLibrary1::LoadPipeline, by name and description.
CanLoadPipeline(p) == mPipelineLibrary.psos[p] = definitions[p]

-----------------------------------------------------------------------------
(* Renderer::Initialize. *)

None == [version |-> "none"]

NotRunning ==
    /\ phase' = "off" /\ driver' = "none" /\ jobs' = {} /\ initialized' = {}
    /\ serialization' = "none"
    /\ mPipelineLibrary' = NoLibrary /\ isMapped' = FALSE /\ mNeedsSerialization' = FALSE
    /\ mPSOMap' = [p \in PSOs |-> None]

Start ==
    /\ phase = "off"
    /\ phase' = "device" /\ jobs' = {"bindless SRVs"}
    /\ UNCHANGED <<cacheFileVars, driver, initialized, mPipelineLibrary, isMapped,
                   mNeedsSerialization, mPSOMap, serialization>>

\* VerifyD3D12DeviceFeatureSupport, for the device of this adapter.
IsSupported(i) == system[i] \in Capable

\* GPUDevice::CreateHardwareD3D12Device, which throws when there is none.
InitializeDevice ==
    /\ phase = "device"
    /\ \E i \in DOMAIN system :
          /\ IsSupported(i) /\ \A k \in 1 .. i - 1 : ~ IsSupported(k)
          /\ driver' = system[i]
    /\ phase' = "components" /\ jobs' = jobs \cup Components
    /\ UNCHANGED <<cacheFileVars, initialized, mPipelineLibrary, isMapped, mNeedsSerialization,
                   mPSOMap, serialization>>

NoDevice ==
    /\ phase = "device" /\ \A i \in DOMAIN system : ~ IsSupported(i)
    /\ NotRunning /\ UNCHANGED cacheFileVars

InitializeComponent(c) ==
    /\ c \in jobs \ {"PSO library"}
    /\ jobs' = jobs \ {c} /\ initialized' = initialized \cup {c}
    /\ UNCHANGED <<cacheFileVars, phase, driver, mPipelineLibrary, isMapped,
                   mNeedsSerialization, mPSOMap, serialization>>

\* PSOLibrary::Initialize.  An empty file cannot be mapped, which throws.
MapLibrary ==
    /\ "PSO library" \in jobs /\ file # EmptyFile
    /\ jobs' = jobs \ {"PSO library"} /\ initialized' = initialized \cup {"PSO library"}
    /\ isMapped' = (file.kind = "file")
    /\ mPipelineLibrary' \in CreatePipelineLibrary
    /\ mNeedsSerialization' = (mPipelineLibrary' = NoLibrary)
    /\ UNCHANGED <<cacheFileVars, phase, driver, mPSOMap, serialization>>
MappingFails ==
    /\ "PSO library" \in jobs /\ file = EmptyFile
    /\ NotRunning /\ UNCHANGED cacheFileVars

\* Mutant: nobody waits for the components.
NoJoin(these) == TRUE

\* JobGroup::ExecuteJobs returns when its jobs are done.
Joined(these) == jobs \cap these = {}

LoadPSOs ==
    /\ phase = "components" /\ Joined(Components)
    /\ phase' = "PSOs" /\ jobs' = jobs \cup PSOs
    /\ UNCHANGED <<cacheFileVars, driver, initialized, mPipelineLibrary, isMapped,
                   mNeedsSerialization, mPSOMap, serialization>>

\* TryLoadExistingPSO: without a library mNeedsSerialization has been set before.
IsOutOfDate(p) == mPipelineLibrary # NoLibrary /\ ~ CanLoadPipeline(p)

\* PSODatabase::CompilePSO.  A PSO refers to its root signature.
CompilePSO(p) ==
    LET isCached == mPipelineLibrary # NoLibrary /\ CanLoadPipeline(p)
    IN  /\ p \in jobs
        /\ jobs' = jobs \ {p}
        /\ mNeedsSerialization' = (mNeedsSerialization \/ IsOutOfDate(p))
        /\ mPSOMap' = [mPSOMap EXCEPT ![p] =
              [version |-> IF isCached THEN mPipelineLibrary.psos[p] ELSE definitions[p],
               driver |-> IF isCached THEN mPipelineLibrary.driver ELSE driver,
               rooted |-> "root signatures" \in initialized, cached |-> isCached]]
        /\ UNCHANGED <<cacheFileVars, phase, driver, initialized, mPipelineLibrary, isMapped,
                       serialization>>

SerializePSOLibraryAsync ==
    /\ phase = "PSOs" /\ Joined(PSOs)
    /\ phase' = "bindless SRVs"
    /\ serialization' = IF mNeedsSerialization THEN "queued" ELSE "none"
    /\ UNCHANGED <<cacheFileVars, driver, jobs, initialized, mPipelineLibrary, isMapped,
                   mNeedsSerialization, mPSOMap>>

EndInitialize ==
    /\ phase = "bindless SRVs" /\ "bindless SRVs" \in initialized
    /\ phase' = "running"
    /\ UNCHANGED <<cacheFileVars, driver, jobs, initialized, mPipelineLibrary, isMapped,
                   mNeedsSerialization, mPSOMap, serialization>>

-----------------------------------------------------------------------------
(* PSOLibrary::BeginPSOLibrarySerialization.  The view of the old file, which *)
(* is needed as long as the library that was made of it, is never given back. *)

Serializing(from, to) ==
    /\ serialization = from /\ serialization' = to
    /\ UNCHANGED <<definitions, system, changes, kills, phase, driver, jobs, initialized,
                   mPipelineLibrary, isMapped, mNeedsSerialization, mPSOMap>>

\* The stream is not tested: it cannot be opened for a directory, nor for a file of
\* which there is a view, because that would make the file shorter.
OpenStream ==
    /\ Serializing("queued", "resize")
    /\ file' = IF file.kind = "directory" \/ isMapped THEN file ELSE EmptyFile

NewSize == LibrarySize(definitions)
CanResize == file.kind = "file" /\ (isMapped => NewSize >= file.size)

\* A file that becomes longer keeps what is in it.
ResizeFile ==
    /\ CanResize
    /\ Serializing("resize", "map")
    /\ file' = [file EXCEPT !.size = NewSize]
ResizingFails ==
    /\ serialization = "resize" /\ ~ CanResize
    /\ NotRunning /\ UNCHANGED cacheFileVars

BeginWriting ==
    /\ Serializing("map", "write")
    /\ file' = [file EXCEPT !.library = NoLibrary]
EndWriting ==
    /\ Serializing("write", "written")
    /\ file' = [file EXCEPT !.library = CurrentLibrary]

SerializePSOLibrary == OpenStream \/ ResizeFile \/ ResizingFails \/ BeginWriting \/ EndWriting

-----------------------------------------------------------------------------
(* Programs end, and there are new ones. *)

\* The pool lets a job finish that a worker has begun.
Exit ==
    /\ phase = "running" /\ serialization \in {"none", "written"}
    /\ NotRunning /\ UNCHANGED cacheFileVars
Kill ==
    /\ phase # "off" /\ kills < MaxKills
    /\ NotRunning /\ kills' = kills + 1
    /\ UNCHANGED <<file, definitions, system, changes>>

Change ==
    /\ phase = "off" /\ changes < MaxChanges
    /\ changes' = changes + 1
    /\ \/ \E p \in PSOs, v \in Versions :
             definitions' = [definitions EXCEPT ![p] = v] /\ UNCHANGED system
       \/ system' \in Systems /\ UNCHANGED definitions
    /\ UNCHANGED <<file, kills, programVars>>

CacheInit ==
    /\ file \in {NoFile, Directory}
    /\ definitions \in [PSOs -> Versions] /\ system \in Systems
    /\ changes = 0 /\ kills = 0
    /\ phase = "off" /\ driver = "none" /\ jobs = {} /\ initialized = {} /\ serialization = "none"
    /\ mPipelineLibrary = NoLibrary /\ isMapped = FALSE /\ mNeedsSerialization = FALSE
    /\ mPSOMap = [p \in PSOs |-> None]

Initialize ==
    \/ InitializeDevice \/ NoDevice \/ LoadPSOs \/ SerializePSOLibraryAsync \/ EndInitialize
    \/ MapLibrary \/ MappingFails
    \/ \E c \in Components \cup {"bindless SRVs"} : InitializeComponent(c)
    \/ \E p \in PSOs : CompilePSO(p)

CacheNext == Start \/ Initialize \/ SerializePSOLibrary \/ Exit \/ Kill \/ Change

\* The program is started again; it initialises itself and executes its jobs.
CacheFairness == /\ WF_cacheVars(Start) /\ WF_cacheVars(Initialize)
                 /\ WF_cacheVars(SerializePSOLibrary) /\ WF_cacheVars(Exit)

CacheSpec == CacheInit /\ [][CacheNext]_cacheVars /\ CacheFairness

-----------------------------------------------------------------------------
\* Whatever the file holds, a program draws with PSOs made of its own definitions,
\* for its own driver, after their root signatures (PSODatabase::CompilePSO), whose
\* device can have a library.
PSOsAreCurrent ==
    \A p \in PSOs : mPSOMap[p] # None =>
        /\ mPSOMap[p].version = definitions[p] /\ mPSOMap[p].driver = driver
        /\ mPSOMap[p].rooted /\ driver \in Capable

\* What the code cannot write over: a directory; an empty file, which is left by a
\* program killed between OpenStream and ResizeFile and then cannot be mapped; and a
\* file longer than what is to be written, while there is a view of it.
CannotBeReplaced ==
    \/ file.kind = "directory" \/ (file = EmptyFile /\ serialization # "resize")
    \/ file.kind = "file" /\ file.size > NewSize

\* When the definitions and the adapters have stopped changing, and programs are not
\* killed any more, nothing is compiled in the end, unless the file cannot be replaced
\* (PSOLibrary::SerializePSOLibraryAsync).
CatchesUp ==
    <>[](phase = "running" => CannotBeReplaced \/ \A p \in PSOs : mPSOMap[p].cached)
=============================================================================
