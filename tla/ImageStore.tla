----------------------------- MODULE ImageStore -----------------------------
(***************************************************************************)
(* Pulling an image into the cache while containers start and `sandal      *)
(* clear' reclaims files.  A run holds the lifecycle lock of its name; two *)
(* runs of different names may pull the same image at once.  `clear' reads *)
(* the containers once, plans from that list, takes each name's lock only  *)
(* to remove that container, and deletes what it planned without a lock.   *)
(* Processes may crash between any two steps and leave their files behind. *)
(***************************************************************************)
EXTENDS Naturals, FiniteSets

CONSTANTS
  Cont,       \* container names; their lowers are the one image modelled
  MaxImgRuns, \* runs begun
  MaxClears,  \* times `clear' is run
  MaxCrashes  \* processes that die half-way

ASSUME ImageStoreAssumption == {MaxImgRuns, MaxClears, MaxCrashes} \subseteq Nat

VARIABLES
  cacheFile,  \* the cached .sqfs: "absent", "partial" or "whole"
  sidecar,    \* its .sqfs.json, also "torn": left half-written by a crash
  runAt,      \* step of the run of a name; the lock is held unless "idle"
  work,       \* a pull's directory under BaseTempDir: "none", "damaged", "whole"
  pullTmp,    \* a pull's .pull-*.sqfs.tmp: "none", "partial", "whole"
  state,      \* the state file: [on, rm, ref, recorded]
  up,         \* the container runs
  changes,    \* its change directory exists
  snapFile,   \* its default snapshot exists
  clear,      \* the clear under way
  imgRuns, clears, crashes,
  halfRead,   \* history: runs that read a sidecar while it was written
  snapped,    \* history: a snapshot was made and the container not removed since
  overlap,    \* history: starts that overlapped a clear
  first,      \* history: those of names the clear did not list
  together    \* history: pulls that overlapped another pull

imgVars == <<cacheFile, sidecar, runAt, work, pullTmp, state, up, changes, snapFile, clear, imgRuns, clears,
             crashes, halfRead, snapped, overlap, first, together>>

NoState == [on |-> FALSE, rm |-> FALSE, ref |-> TRUE, recorded |-> FALSE]
NoClear == [at |-> "idle", scope |-> "all", remove |-> {}, keep |-> {}, used |-> FALSE,
            todo |-> {}, plan |-> {}]
Steps == {"idle", "stat", "config", "configWrite", "download", "write", "verify", "mount"}
Pulling == {"config", "configWrite", "download", "write", "verify"}

\* Some containers ran and stopped earlier, pulling the image.
Stopped == [on |-> TRUE, rm |-> FALSE, ref |-> TRUE, recorded |-> TRUE]

ImgInit ==
  /\ \E old \in SUBSET Cont :
       /\ state = [c \in Cont |-> IF c \in old THEN Stopped ELSE NoState]
       /\ changes = [c \in Cont |-> c \in old]
       /\ cacheFile = IF old = {} THEN "absent" ELSE "whole"
       /\ sidecar = cacheFile
  /\ runAt = [c \in Cont |-> "idle"] /\ work = [c \in Cont |-> "none"]
  /\ pullTmp = [c \in Cont |-> "none"]
  /\ up = [c \in Cont |-> FALSE]
  /\ snapFile = [c \in Cont |-> FALSE] /\ snapped = [c \in Cont |-> FALSE]
  /\ clear = NoClear /\ imgRuns = 0 /\ clears = 0 /\ crashes = 0
  /\ halfRead = {}
  /\ overlap = {} /\ first = {} /\ together = {}

-----------------------------------------------------------------------------
\* run: the state file is written under the lock, then mountRootfs makes the
\* change directory.  ref: the lower is a bare reference that SanitizeRef maps
\* to the cache file, not one with a target.
RunBegins(c, rm, ref) ==
  /\ runAt[c] = "idle" /\ ~up[c] /\ imgRuns < MaxImgRuns
  /\ imgRuns' = imgRuns + 1
  /\ runAt' = [runAt EXCEPT ![c] = "stat"]
  /\ state' = [state EXCEPT ![c] = [on |-> TRUE, rm |-> rm, ref |-> ref, recorded |-> FALSE]]
  /\ changes' = [changes EXCEPT ![c] = TRUE]
  /\ overlap' = IF clear.at = "idle" THEN overlap \ {c} ELSE overlap \cup {c}
  /\ first' = IF clear.at # "idle" /\ c \notin clear.remove \cup clear.keep THEN first \cup {c} ELSE first \ {c}
  /\ together' = together \ {c}
  /\ halfRead' = halfRead \ {c}
  /\ UNCHANGED <<cacheFile, sidecar, work, pullTmp, up, snapFile, clear, clears, crashes, snapped>>

\* Pull: a cached image is used as it is.
StatCache(c) ==
  /\ runAt[c] = "stat"
  /\ runAt' = [runAt EXCEPT ![c] = IF cacheFile = "absent" THEN "config" ELSE "mount"]
  /\ together' = IF \E d \in Cont : d # c /\ runAt[d] \in Pulling
                 THEN together \cup {c} \cup {d \in Cont : runAt[d] # "idle"} ELSE together
  /\ UNCHANGED <<cacheFile, sidecar, work, pullTmp, state, up, changes, snapFile, clear, imgRuns, clears, crashes,
                 halfRead, snapped, overlap, first>>

\* History: the start of c is over and done with.
Ends(c) == overlap' = overlap \ {c} /\ first' = first \ {c} /\ together' = together \ {c}
           /\ halfRead' = halfRead \ {c}

\* A failed step: the pull's files are removed, the run ends.
PullFails(c) ==
  /\ runAt[c] \in {"config", "download", "write", "verify"}
  /\ runAt' = [runAt EXCEPT ![c] = "idle"]
  /\ work' = [work EXCEPT ![c] = "none"] /\ pullTmp' = [pullTmp EXCEPT ![c] = "none"]
  /\ Ends(c)
  /\ UNCHANGED <<cacheFile, sidecar, state, up, changes, snapFile, clear, imgRuns, clears, crashes,
                 snapped>>

\* resolveManifest, then fetchAndStoreImageConfig: the sidecar is written in
\* place; failing to fetch it is not an error.
FetchConfig(c, ok) ==
  /\ runAt[c] = "config"
  /\ sidecar' = IF ok THEN "partial" ELSE sidecar
  /\ runAt' = [runAt EXCEPT ![c] = IF ok THEN "configWrite" ELSE "download"]
  /\ UNCHANGED <<cacheFile, work, pullTmp, state, up, changes, snapFile, clear, imgRuns, clears, crashes, halfRead,
                 snapped, overlap, first, together>>
StoreConfig(c) ==
  /\ runAt[c] = "configWrite"
  /\ sidecar' = "whole"
  /\ runAt' = [runAt EXCEPT ![c] = "download"]
  /\ UNCHANGED <<cacheFile, work, pullTmp, state, up, changes, snapFile, clear, imgRuns, clears, crashes, halfRead,
                 snapped, overlap, first, together>>

\* downloadLayers and mergeLayers, into BaseTempDir.
DownloadLayers(c) ==
  /\ runAt[c] = "download"
  /\ work' = [work EXCEPT ![c] = "whole"]
  /\ runAt' = [runAt EXCEPT ![c] = "write"]
  /\ UNCHANGED <<cacheFile, sidecar, pullTmp, state, up, changes, snapFile, clear, imgRuns, clears, crashes, halfRead,
                 snapped, overlap, first, together>>

\* The squashfs is written to a file of its own; entries gone from the
\* directory are skipped.
WriteTemp(c) ==
  /\ runAt[c] = "write"
  /\ pullTmp' = [pullTmp EXCEPT ![c] = IF work[c] = "whole" THEN "whole" ELSE "partial"]
  /\ runAt' = [runAt EXCEPT ![c] = "verify"]
  /\ UNCHANGED <<cacheFile, sidecar, work, state, up, changes, snapFile, clear, imgRuns, clears, crashes, halfRead,
                 snapped, overlap, first, together>>
\* ... in place.
WriteInPlace(c) ==
  /\ runAt[c] = "write"
  /\ cacheFile' = "partial"
  /\ pullTmp' = [pullTmp EXCEPT ![c] = IF work[c] = "whole" THEN "whole" ELSE "partial"]
  /\ runAt' = [runAt EXCEPT ![c] = "verify"]
  /\ UNCHANGED <<sidecar, work, state, up, changes, snapFile, clear, imgRuns, clears, crashes, halfRead,
                 snapped, overlap, first, together>>
WriteSqfs(c) == WriteTemp(c)

\* The counts against the index (see Layers), then the rename.
Publish(c) ==
  /\ runAt[c] = "verify"
  /\ pullTmp[c] = "whole" /\ work[c] = "whole"
  /\ cacheFile' = pullTmp[c]
  /\ pullTmp' = [pullTmp EXCEPT ![c] = "none"] /\ work' = [work EXCEPT ![c] = "none"]
  /\ runAt' = [runAt EXCEPT ![c] = "mount"]
  /\ UNCHANGED <<sidecar, state, up, changes, snapFile, clear, imgRuns, clears, crashes, halfRead, snapped,
                 overlap, first, together>>

\* The rest of mountRootfs, LoadImageConfig, and the process published.
MountAndStart(c) ==
  /\ runAt[c] = "mount"
  /\ cacheFile # "absent" /\ changes[c]
  /\ halfRead' = IF sidecar = "partial" THEN halfRead \cup {c} ELSE halfRead
  /\ state' = [state EXCEPT ![c].recorded = TRUE, ![c].ref = TRUE]
  /\ up' = [up EXCEPT ![c] = TRUE]
  /\ runAt' = [runAt EXCEPT ![c] = "idle"]
  /\ UNCHANGED <<cacheFile, sidecar, work, pullTmp, changes, snapFile, clear, imgRuns, clears, crashes, snapped,
                 overlap, first, together>>
MountFails(c) ==
  /\ runAt[c] = "mount"
  /\ cacheFile = "absent" \/ ~changes[c]
  /\ runAt' = [runAt EXCEPT ![c] = "idle"]
  /\ Ends(c)
  /\ UNCHANGED <<cacheFile, sidecar, work, pullTmp, state, up, changes, snapFile, clear, imgRuns, clears, crashes, snapped>>

\* DeRunContainer of a container that is to be removed.
Removed(c) ==
  /\ state' = [state EXCEPT ![c] = NoState]
  /\ changes' = [changes EXCEPT ![c] = FALSE]
  /\ snapped' = [snapped EXCEPT ![c] = FALSE]

\* The container ends.
Exits(c) ==
  /\ up[c] /\ runAt[c] = "idle"
  /\ up' = [up EXCEPT ![c] = FALSE]
  /\ IF state[c].rm THEN Removed(c) ELSE UNCHANGED <<state, changes, snapped>>
  /\ Ends(c)
  /\ UNCHANGED <<cacheFile, sidecar, runAt, work, pullTmp, snapFile, clear, imgRuns, clears, crashes>>

\* `sandal snapshot' to the default place.
Snapshot(c) ==
  /\ up[c]
  /\ snapFile' = [snapFile EXCEPT ![c] = TRUE] /\ snapped' = [snapped EXCEPT ![c] = TRUE]
  /\ UNCHANGED <<cacheFile, sidecar, runAt, work, pullTmp, state, up, changes, clear, imgRuns, clears, crashes,
                 halfRead, overlap, first, together>>

\* External: a run dies, releasing its lock and nothing else.
RunCrashes(c) ==
  /\ runAt[c] # "idle" /\ crashes < MaxCrashes
  /\ crashes' = crashes + 1
  /\ runAt' = [runAt EXCEPT ![c] = "idle"]
  /\ work' = [work EXCEPT ![c] = "none"] /\ pullTmp' = [pullTmp EXCEPT ![c] = "none"]   \* never used again
  /\ sidecar' = IF runAt[c] = "configWrite" THEN "torn" ELSE sidecar
  /\ Ends(c)
  /\ UNCHANGED <<cacheFile, state, up, changes, snapFile, clear, imgRuns, clears, snapped>>

-----------------------------------------------------------------------------
\* clear, phase 1: the containers are read once; the stopped ones go, with
\* -all or if they were to be removed.
ToRemove(scope) == {c \in Cont : state[c].on /\ ~up[c] /\ (scope = "all" \/ state[c].rm)}

\* The images in use, from recorded ones alone.
UsageRecorded(keep) == \E c \in keep : state[c].recorded
\* BuildUsageSet: recorded images, and references mapped to the cache name.
BuildUsageSet(keep) == \E c \in keep : state[c].recorded \/ state[c].ref

ClearPlans(scope) ==
  LET remove == ToRemove(scope)
      keep   == {c \in Cont : state[c].on} \ remove IN
  /\ clear.at = "idle" /\ clears < MaxClears
  /\ clears' = clears + 1
  /\ clear' = [at |-> "derun", scope |-> scope, remove |-> remove, keep |-> keep,
               used |-> BuildUsageSet(keep), todo |-> remove, plan |-> {}]
  /\ overlap' = overlap \cup {c \in Cont : runAt[c] # "idle"}
  /\ UNCHANGED <<cacheFile, sidecar, runAt, work, pullTmp, state, up, changes, snapFile, imgRuns, crashes, halfRead,
                 snapped, first, together>>

\* Under the name's lock, without looking again.
ClearDeRunsBlindly(c) ==
  /\ clear.at = "derun" /\ c \in clear.todo
  /\ runAt[c] = "idle"
  /\ Removed(c)
  /\ clear' = [clear EXCEPT !.todo = @ \ {c}]
  /\ UNCHANGED <<cacheFile, sidecar, runAt, work, pullTmp, up, snapFile, imgRuns, clears, crashes, halfRead,
                 overlap, first, together>>
\* Under the name's lock, and only if it still does not run.
ClearDeRuns(c) ==
  /\ clear.at = "derun" /\ c \in clear.todo
  /\ runAt[c] = "idle"
  /\ IF up[c] THEN UNCHANGED <<state, changes, snapped>> ELSE Removed(c)
  /\ clear' = [clear EXCEPT !.todo = @ \ {c}]
  /\ UNCHANGED <<cacheFile, sidecar, runAt, work, pullTmp, up, snapFile, imgRuns, clears, crashes, halfRead,
                 overlap, first, together>>
\* The lock stayed taken for namelock.DefaultTimeout.
ClearLockTimesOut(c) ==
  /\ clear.at = "derun" /\ c \in clear.todo /\ runAt[c] # "idle"
  /\ clear' = [clear EXCEPT !.todo = @ \ {c}]
  /\ UNCHANGED <<cacheFile, sidecar, runAt, work, pullTmp, state, up, changes, snapFile, imgRuns, clears, crashes,
                 halfRead, snapped, overlap, first, together>>

\* The scanners.  A change directory is an orphan if no kept container has its
\* name; those of the containers of phase 1 were accounted for already.
PlanOrphans == {<<"changes", c>> : c \in {d \in Cont : changes[d] /\ d \notin clear.keep}}
\* DedupNot keeps them in.
DedupNot(actions) == actions
Dedup(actions) == {a \in actions : a[2] \notin clear.remove}
PlanImages == IF cacheFile # "absent" /\ ~clear.used THEN {<<"image", "img">>} ELSE {}
PlanSnapshots == {<<"snapshot", c>> : c \in {d \in Cont : snapFile[d] /\ d \notin clear.keep}}
PlanTemp == {<<"temp", c>> : c \in {d \in Cont : work[d] # "none"}}
Planned == Dedup(PlanOrphans)
ClearScans ==
  /\ clear.at = "derun" /\ clear.todo = {}
  /\ clear' = [clear EXCEPT !.at = "apply",
       !.plan = (IF clear.scope \in {"all", "orphans"} THEN Planned ELSE {})
          \cup (IF clear.scope \in {"all", "images"} THEN PlanImages ELSE {})
          \cup (IF clear.scope = "all" THEN PlanSnapshots \cup PlanTemp ELSE {})]
  /\ UNCHANGED <<cacheFile, sidecar, runAt, work, pullTmp, state, up, changes, snapFile, imgRuns, clears, crashes,
                 halfRead, snapped, overlap, first, together>>

\* clearByImageName: one reading of the containers, refusing a used image.
ClearByName ==
  LET all == {c \in Cont : state[c].on} IN
  /\ clear.at = "idle" /\ clears < MaxClears
  /\ clears' = clears + 1
  /\ cacheFile # "absent" /\ ~BuildUsageSet(all)
  /\ clear' = [NoClear EXCEPT !.at = "apply", !.keep = all, !.plan = {<<"image", "img">>}]
  /\ overlap' = overlap \cup {c \in Cont : runAt[c] # "idle"}
  /\ UNCHANGED <<cacheFile, sidecar, runAt, work, pullTmp, state, up, changes, snapFile, imgRuns, crashes, halfRead,
                 snapped, first, together>>

\* Apply: removeSafe, one path after the other.
Apply(a) ==
  /\ clear.at = "apply" /\ a \in clear.plan
  /\ clear' = [clear EXCEPT !.plan = @ \ {a}]
  /\ cacheFile' = IF a[1] = "image" THEN "absent" ELSE cacheFile
  /\ changes' = IF a[1] = "changes" THEN [changes EXCEPT ![a[2]] = FALSE] ELSE changes
  /\ snapFile' = IF a[1] = "snapshot" THEN [snapFile EXCEPT ![a[2]] = FALSE] ELSE snapFile
  /\ work' = IF a[1] = "temp" /\ work[a[2]] # "none" THEN [work EXCEPT ![a[2]] = "damaged"] ELSE work
  /\ snapped' = IF a[1] = "snapshot" /\ (a[2] \in overlap \/ ~up[a[2]])
              THEN [snapped EXCEPT ![a[2]] = FALSE] ELSE snapped
  /\ UNCHANGED <<sidecar, runAt, pullTmp, state, up, imgRuns, clears, crashes, halfRead, overlap, first, together>>
ClearEnds ==
  /\ clear.at = "apply" /\ clear.plan = {}
  /\ clear' = NoClear
  /\ UNCHANGED <<cacheFile, sidecar, runAt, work, pullTmp, state, up, changes, snapFile, imgRuns, clears, crashes,
                 halfRead, snapped, overlap, first, together>>

ImgNext ==
  \/ \E c \in Cont, rm, ref \in BOOLEAN : RunBegins(c, rm, ref)
  \/ \E c \in Cont : \/ StatCache(c) \/ StoreConfig(c) \/ DownloadLayers(c) \/ WriteSqfs(c) \/ Publish(c)
                     \/ PullFails(c) \/ MountAndStart(c) \/ MountFails(c) \/ Exits(c) \/ Snapshot(c)
                     \/ RunCrashes(c) \/ ClearDeRuns(c) \/ ClearLockTimesOut(c)
  \/ \E c \in Cont, ok \in BOOLEAN : FetchConfig(c, ok)
  \/ \E scope \in {"all", "orphans", "images"} : ClearPlans(scope)
  \/ ClearScans \/ ClearByName \/ ClearEnds
  \/ \E a \in clear.plan : Apply(a)

ImgSpec == ImgInit /\ [][ImgNext]_imgVars

-----------------------------------------------------------------------------
ImgTypeOK ==
  /\ cacheFile \in {"absent", "partial", "whole"} /\ sidecar \in {"absent", "partial", "torn", "whole"}
  /\ runAt \in [Cont -> Steps]
  /\ clear.remove \subseteq Cont /\ clear.keep \subseteq Cont /\ clear.todo \subseteq clear.remove

\* A cached image is complete: no crash, concurrent pull or clear of the
\* temporary files leaves a part of one under the name later runs trust.
CacheWhole == cacheFile # "partial"

\* A run that met no other pull never reads half an image configuration.
ConfigWhole == \A c \in Cont : c \in halfRead => c \in together

\* A running container keeps its change directory, whatever `clear' does and
\* however often it is restarted meanwhile, if the clear's listing had it.
ChangesKept == \A c \in Cont : (up[c] /\ c \notin first) => changes[c]

\* A start that met no clear also keeps its image and its snapshot.
ArtifactsKept ==
  \A c \in Cont : (up[c] /\ c \notin overlap) =>
    /\ cacheFile = "whole"
    /\ snapped[c] => snapFile[c]

\* The invariant of the image store.
ImagesSafe == ImgTypeOK /\ CacheWhole /\ ConfigWhole /\ ChangesKept /\ ArtifactsKept

\* "remove changedir files/dirs and ext4 .img files whose container state file
\* is missing" (clear.go:46): a container that runs has one.
OnlyOrphansRemoved == \A c \in Cont : up[c] => changes[c]
=============================================================================
