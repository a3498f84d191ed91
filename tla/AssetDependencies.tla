-------------------------- MODULE AssetDependencies --------------------------
(***************************************************************************)
(* The asset update of the engine: Brawler::AssetManager with its          *)
(* AssetDependencyManager, the groups of assets the application depends    *)
(* on, and the requests assets make to have data loaded and unloaded.      *)
(*                                                                         *)
(* Before every update of the application its thread activates the groups  *)
(* submitted since the last one, has one job for each asset of each active *)
(* group check the asset, waits for these jobs, packs the requests they    *)
(* made into jobs of a limited number of bytes and waits for those too.    *)
(* What assets ask for is left to the module of the application.           *)
(***************************************************************************)
EXTENDS Integers, FiniteSets, FiniteSetsExt

CONSTANTS Assets,
          Groups, PersistentGroups,
          mAssetDependencies,  \* by group: its assets (mAssetDependencies)
          ChildGroups,         \* by group: the groups it owns
          DataRequests,        \* what assets may ask for
          Info,                \* by request: asset, kind, size and priority
          LoadLimit, UnloadLimit,
          JOB_COUNT_LIMIT

LOW == 0  NORMAL == 1  HIGH == 2  CRITICAL == 3
Kinds     == {"load", "unload"}
Heads     == Groups \ UNION {ChildGroups[g] : g \in Groups}
AssetJobs == UNION {{g} \X mAssetDependencies[g] : g \in Groups}

ASSUME AssetDependenciesAssumption ==
    /\ PersistentGroups \subseteq Groups
    /\ mAssetDependencies \in [Groups -> SUBSET Assets]
    /\ ChildGroups \in [Groups -> SUBSET Groups]
    /\ \A g \in PersistentGroups : ChildGroups[g] \subseteq PersistentGroups
    /\ \A g, h \in Groups : g # h => ChildGroups[g] \cap ChildGroups[h] = {}
    /\ Info \in [DataRequests -> [asset : Assets, kind : Kinds, size : Nat \ {0},
                                  priority : LOW .. CRITICAL]]
    /\ LoadLimit \in Nat /\ UnloadLimit \in Nat /\ JOB_COUNT_LIMIT \in Nat \ {0}

VARIABLES phase,         \* what the thread of the application does
          pending, active,     \* PendingGroups and ActiveGroups
          groupCheck,    \* by group: its check in the present update
          assetCheck,    \* by group and asset: that job of the present update
          mDependenciesChecked,  \* the persistent groups whose flag is set
          mUpdateTickCounter,    \* by asset, against mCurrUpdateTick
          queued,        \* the requests in the queues of the request handlers
          pulls,         \* calls of Get...RequestsForSingleJob in this update
          jobs,          \* by job of assetDataRequestGroup: the requests it still has
          done           \* requests executed for good

groupVars   == <<pending, active, groupCheck, assetCheck, mDependenciesChecked,
                 mUpdateTickCounter>>
updateVars  == <<queued, pulls, jobs, done>>
assetVars   == <<phase, groupVars, updateVars>>

\* The counter of an asset matters only against mCurrUpdateTick: both start at
\* zero, it is raised when they are equal, and the tick is raised at the end of
\* every update.
Ticks == {"current", "next", "behind"}
Later(counter) == IF counter = "next" THEN "current" ELSE "behind"

AssetInit(submitted) ==
    /\ phase = "application"
    /\ pending = submitted /\ active = {} /\ mDependenciesChecked = {}
    /\ groupCheck = [g \in Groups |-> "none"]
    /\ assetCheck = [j \in AssetJobs |-> "none"]
    /\ mUpdateTickCounter = [a \in Assets |-> "current"]
    /\ queued = {} /\ jobs = {} /\ done = {} /\ pulls = 0

-----------------------------------------------------------------------------
(* The groups. *)

SubmitAssetDependencyGroup(g) ==
    /\ phase = "application" /\ g \in Heads \ (pending \cup active)
    /\ pending' = pending \cup {g}
    /\ UNCHANGED <<phase, active, groupCheck, assetCheck, mDependenciesChecked,
                   mUpdateTickCounter, updateVars>>

\* UpdateAssetDependencies, with ActivatePendingAssetDependencies: every
\* active group gets a job that checks it.
BeginUpdate ==
    /\ phase = "application"
    /\ phase' = "checking"
    /\ active' = active \cup pending /\ pending' = {}
    /\ groupCheck' = [g \in Groups |-> IF g \in active' THEN "ready" ELSE "none"]
    /\ assetCheck' = [j \in AssetJobs |-> "none"]
    /\ UNCHANGED <<mDependenciesChecked, mUpdateTickCounter, updateVars>>

\* The job of a group adds jobs for its assets and its child groups; that of
\* a persistent group which has been checked before does nothing.
CheckDependencies(g) ==
    /\ groupCheck[g] = "ready"
    /\ LET skip == g \in mDependenciesChecked
       IN /\ groupCheck' = [h \in Groups |->
                CASE h = g -> IF skip THEN "checked" ELSE "checking"
                  [] h \in ChildGroups[g] /\ ~ skip -> "ready"
                  [] OTHER -> groupCheck[h]]
          /\ assetCheck' = [j \in AssetJobs |->
                IF j[1] = g /\ ~skip THEN "ready" ELSE assetCheck[j]]
    /\ UNCHANGED <<phase, pending, active, mDependenciesChecked,
                   mUpdateTickCounter, updateVars>>

\* Mutant: the tick of the asset is compared, but not exchanged.
CompareOnly(g, a) ==
    /\ assetCheck[<<g, a>>] = "ready"
    /\ assetCheck' = [assetCheck EXCEPT ![<<g, a>>] =
          IF mUpdateTickCounter[a] = "current" THEN "updating" ELSE "skipped"]
    /\ UNCHANGED <<phase, pending, active, groupCheck, mDependenciesChecked,
                   mUpdateTickCounter, updateVars>>

\* The compare-exchange: the first job of an update to reach the asset wins.
UpdateAssetDataIMPL(g, a) ==
    /\ assetCheck[<<g, a>>] = "ready"
    /\ IF mUpdateTickCounter[a] = "current"
       THEN /\ mUpdateTickCounter' = [mUpdateTickCounter EXCEPT ![a] = "next"]
            /\ assetCheck' = [assetCheck EXCEPT ![<<g, a>>] = "updating"]
       ELSE /\ assetCheck' = [assetCheck EXCEPT ![<<g, a>>] = "skipped"]
            /\ UNCHANGED mUpdateTickCounter
    /\ UNCHANGED <<phase, pending, active, groupCheck, mDependenciesChecked,
                   updateVars>>

\* The asset decides what it wants and submits a request for each piece.
UpdateAssetData(g, a, wanted) ==
    /\ assetCheck[<<g, a>>] = "updating"
    /\ wanted \subseteq {r \in DataRequests \ (queued \cup done) : Info[r].asset = a}
    /\ assetCheck' = [assetCheck EXCEPT ![<<g, a>>] = "updated"]
    /\ queued' = queued \cup wanted
    /\ UNCHANGED <<phase, pending, active, groupCheck, mDependenciesChecked,
                   mUpdateTickCounter, pulls, jobs, done>>

\* childUpdateChecks.ExecuteJobs returns.
EndCheck(g) ==
    /\ groupCheck[g] = "checking"
    /\ \A a \in mAssetDependencies[g] : assetCheck[<<g, a>>] \in {"updated", "skipped"}
    /\ \A h \in ChildGroups[g] : groupCheck[h] = "checked"
    /\ groupCheck' = [groupCheck EXCEPT ![g] = "checked"]
    /\ mDependenciesChecked' = mDependenciesChecked \cup ({g} \cap PersistentGroups)
    /\ UNCHANGED <<phase, pending, active, assetCheck, mUpdateTickCounter, updateVars>>

-----------------------------------------------------------------------------
(* The requests. *)

Limit(kind)    == IF kind = "load" THEN LoadLimit ELSE UnloadLimit
Bytes(rs)      == MapThenSumSet(LAMBDA r : Info[r].size, rs)
Queue(kind, p) == {r \in queued : Info[r].kind = kind /\ Info[r].priority = p}
Smaller(r, s)  == Info[r].size < Info[s].size

\* A sorted queue has its smallest requests at its back, in any order those of
\* one size.  They are pulled from there while they fit.
BackOf(queue) ==
    {back \in SUBSET queue : \A r \in back, s \in queue \ back : ~ Smaller(s, r)}
PulledFrom(queue, room) ==
    {back \in BackOf(queue) :
        /\ back = {} \/ Bytes(back) <= room
        /\ \A s \in queue \ back :
              (\A t \in queue \ back : ~ Smaller(t, s)) => Bytes(back) + Info[s].size > room}

\* What one queue adds to a job that has the requests of arr: at least one
\* request if the job would have none.
PullAssetDataRequests(queue, arr, limit) ==
    LET pulled == PulledFrom(queue, limit - Bytes(arr))
    IN {arr \cup p : p \in IF arr = {} /\ {} \in pulled /\ queue # {}
                           THEN {b \in BackOf(queue) : Cardinality(b) = 1} ELSE pulled}

\* The possible contents of one job: the queues in the order of priority.
GetRequestsForSingleJob(kind) ==
    LET upTo[p \in LOW .. CRITICAL + 1] ==
            IF p = CRITICAL + 1 THEN {{}}
            ELSE UNION {PullAssetDataRequests(Queue(kind, p), arr, Limit(kind)) :
                            arr \in upTo[p + 1]}
    IN upTo[LOW]

\* CheckDependenciesForAssetDataUpdateRequests returns, and every handler's
\* queues are sorted.
BeginProcessing ==
    /\ phase = "checking" /\ \A g \in active : groupCheck[g] = "checked"
    /\ phase' = "processing" /\ pulls' = 0
    /\ UNCHANGED <<groupVars, queued, jobs, done>>

\* A load and an unload job in turn, then jobs until no critical request is left.
NextPull(kind) ==
    IF pulls < 2 * JOB_COUNT_LIMIT
    THEN kind = IF pulls % 2 = 0 THEN "load" ELSE "unload"
    ELSE /\ Queue(kind, CRITICAL) # {}
         /\ kind = "unload" => Queue("load", CRITICAL) = {}

PullRequests(kind) ==
    /\ phase = "processing" /\ NextPull(kind)
    /\ \E arr \in GetRequestsForSingleJob(kind) :
          /\ queued' = queued \ arr
          /\ jobs' = jobs \cup ({arr} \ {{}})
    /\ pulls' = IF pulls < 2 * JOB_COUNT_LIMIT THEN pulls + 1 ELSE pulls
    /\ UNCHANGED <<phase, groupVars, done>>

BeginExecution ==
    /\ phase = "processing" /\ \A kind \in Kinds : ~ NextPull(kind)
    /\ phase' = "executing"
    /\ UNCHANGED <<groupVars, updateVars>>

\* A job executes its requests in the order in which they were pulled.
IsNext(r, job) ==
    \A s \in job : /\ Info[s].priority <= Info[r].priority
                   /\ Info[s].priority = Info[r].priority => ~ Smaller(s, r)

ExecuteRequest(job, r) ==
    /\ phase = "executing" /\ job \in jobs /\ r \in job /\ IsNext(r, job)
    /\ jobs' = (jobs \ {job}) \cup ({job \ {r}} \ {{}})
    /\ UNCHANGED <<phase, groupVars, queued, pulls>>

\* assetDataRequestGroup.ExecuteJobs returns, and ++mCurrUpdateTick.
EndUpdate ==
    /\ phase = "executing" /\ jobs = {}
    /\ phase' = "application"
    /\ mUpdateTickCounter' = [a \in Assets |-> Later(mUpdateTickCounter[a])]
    /\ UNCHANGED <<pending, active, groupCheck, assetCheck, mDependenciesChecked,
                   updateVars>>

-----------------------------------------------------------------------------
(* Properties. *)

\* Within an update no two jobs update one asset, in however many groups it is.
UpdatedOnce ==
    \A a \in Assets :
        Cardinality({g \in Groups : /\ <<g, a>> \in AssetJobs
                                    /\ assetCheck[<<g, a>>] \in {"updating", "updated"}}) <= 1

\* When an update is over, so are all the critical requests made before or in it.
CriticalRequestsAreDone ==
    phase = "application" => \A kind \in Kinds : Queue(kind, CRITICAL) = {} /\ jobs = {}

\* Both, and no job has more bytes than its limit unless it has one request.
UpdateIsComplete ==
    /\ UpdatedOnce
    /\ CriticalRequestsAreDone
    /\ \A job \in jobs : \E kind \in Kinds :
          /\ \A r \in job : Info[r].kind = kind
          /\ Cardinality(job) = 1 \/ Bytes(job) <= Limit(kind)

=============================================================================
