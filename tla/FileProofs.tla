----------------------------- MODULE FileProofs -----------------------------
(***************************************************************************)
(* Theorems about what the system does with files: the image cache under   *)
(* concurrent pulls, starts and `sandal clear' (ImageStore), the directory *)
(* a virtual machine shares with its guest (VirtioFS), the root file       *)
(* systems over shared images (Rootfs), and the flattening of an image's   *)
(* layers (Layers).                                                        *)
(***************************************************************************)
EXTENDS ImageStore, VirtioFS, Rootfs, Layers, SequenceTheorems, TLAPS

-----------------------------------------------------------------------------
(* The image cache.                                                        *)

Artifacts == ({"changes", "snapshot", "temp"} \X Cont) \cup {<<"image", "img">>}

\* The types of everything the steps look at; only a whole image is published.
ImgTypes ==
  /\ cacheFile \in {"absent", "whole"} /\ sidecar \in {"absent", "partial", "torn", "whole"}
  /\ runAt \in [Cont -> Steps]
  /\ work \in [Cont -> {"none", "damaged", "whole"}]
  /\ pullTmp \in [Cont -> {"none", "partial", "whole"}]
  /\ state \in [Cont -> [on: BOOLEAN, rm: BOOLEAN, ref: BOOLEAN, recorded: BOOLEAN]]
  /\ up \in [Cont -> BOOLEAN] /\ changes \in [Cont -> BOOLEAN]
  /\ snapFile \in [Cont -> BOOLEAN] /\ snapped \in [Cont -> BOOLEAN]
  /\ clear \in [at: {"idle", "derun", "apply"}, scope: {"all", "orphans", "images"},
                remove: SUBSET Cont, keep: SUBSET Cont, used: BOOLEAN, todo: SUBSET Cont,
                plan: SUBSET Artifacts]
  /\ clear.todo \subseteq clear.remove

\* The sidecar is half-written only while a pull writes it.
SidecarWritten == sidecar = "partial" => \E d \in Cont : runAt[d] = "configWrite"

\* Pulls at the same time know of each other; a run that waits to mount knows
\* of the pulls around it, unless its image was cleared and one pull replaces it.
PullsMeet ==
  \A c, d \in Cont : c # d /\ runAt[d] \in Pulling /\ c \notin together =>
    /\ runAt[c] \notin Pulling
    /\ runAt[c] = "mount" => /\ cacheFile = "absent"
                             /\ \A f \in Cont : runAt[f] \in Pulling => f = d

\* A run holds the lock of a name that is not up; both are on record.
RunsAreKnown ==
  \A c \in Cont :
    /\ runAt[c] # "idle" => ~up[c] /\ state[c].on
    /\ up[c] => state[c].on /\ state[c].recorded

\* What a clear under way knows: a start it does not know of overlaps it, and a
\* container that runs without having met it is one it keeps, with its image.
ClearKnows ==
  clear.at # "idle" =>
    \A c \in Cont :
      /\ up[c] \/ runAt[c] # "idle" => c \in first \cup clear.remove \cup clear.keep
      /\ runAt[c] # "idle" => c \in overlap
      /\ up[c] => c \in overlap \/ (c \in clear.keep /\ clear.used)

\* What a clear plans to delete belongs to nobody it listed.
PlanIsClear ==
  /\ clear.at # "apply" => clear.plan = {}
  /\ \A c \in Cont :
       /\ <<"changes", c>> \in clear.plan => c \notin clear.remove \cup clear.keep
       /\ <<"snapshot", c>> \in clear.plan => c \notin clear.keep
  /\ <<"image", "img">> \in clear.plan => ~clear.used

\* A snapshot counts as made only as long as it is there.
SnapshotsThere == \A c \in Cont : snapped[c] => snapFile[c]

ImagesInv ==
  /\ ImgTypes /\ ConfigWhole /\ ChangesKept /\ ArtifactsKept
  /\ SidecarWritten /\ PullsMeet /\ RunsAreKnown /\ ClearKnows /\ PlanIsClear /\ SnapshotsThere

\* What DeRunContainer leaves of a container.
LEMMA RemovedFacts ==
  ASSUME ImgTypes, NEW c \in Cont, Removed(c) \/ UNCHANGED <<state, changes, snapped>>
  PROVE  /\ state' \in [Cont -> [on: BOOLEAN, rm: BOOLEAN, ref: BOOLEAN, recorded: BOOLEAN]]
         /\ changes' \in [Cont -> BOOLEAN] /\ snapped' \in [Cont -> BOOLEAN]
         /\ \A d \in Cont : snapped'[d] => snapped[d]
<1>1. CASE Removed(c)
  BY <1>1 DEF Removed, ImgTypes, NoState
<1>2. CASE UNCHANGED <<state, changes, snapped>>
  BY <1>2 DEF ImgTypes
<1>3. QED
  BY <1>1, <1>2

\* A cache with a whole image or none satisfies the invariant.
LEMMA ImagesInitial == ImgInit => ImagesInv
  BY DEF ImgInit, NoState, NoClear, Stopped, Steps, Pulling, Artifacts, ImagesInv,
        ImgTypes, ConfigWhole, ChangesKept, ArtifactsKept, SidecarWritten, PullsMeet, RunsAreKnown,
        ClearKnows, PlanIsClear, SnapshotsThere

\* Every step of a run, a pull, a crash and a clear keeps the invariant.
LEMMA ImagesStep == ImagesInv /\ [ImgNext]_imgVars => ImagesInv'
<1> SUFFICES ASSUME ImagesInv, [ImgNext]_imgVars PROVE ImagesInv'
  OBVIOUS
<1> USE DEF ImagesInv, Steps, Pulling, Artifacts,
        ImgTypes, ConfigWhole, ChangesKept, ArtifactsKept, SidecarWritten, PullsMeet, RunsAreKnown,
        ClearKnows, PlanIsClear, SnapshotsThere
<1>1. ASSUME NEW c \in Cont, NEW rm \in BOOLEAN, NEW ref \in BOOLEAN, RunBegins(c, rm, ref) PROVE ImagesInv'
  BY <1>1 DEF RunBegins
<1>2. ASSUME NEW c \in Cont, StatCache(c) PROVE ImagesInv'
  BY <1>2 DEF StatCache
<1>3. ASSUME NEW c \in Cont, StoreConfig(c) PROVE ImagesInv'
  BY <1>3 DEF StoreConfig
<1>4. ASSUME NEW c \in Cont, DownloadLayers(c) PROVE ImagesInv'
  BY <1>4 DEF DownloadLayers
<1>5. ASSUME NEW c \in Cont, WriteSqfs(c) PROVE ImagesInv'
  BY <1>5 DEF WriteSqfs, WriteTemp
<1>6. ASSUME NEW c \in Cont, Publish(c) PROVE ImagesInv'
  BY <1>6 DEF Publish
<1>7. ASSUME NEW c \in Cont, PullFails(c) PROVE ImagesInv'
  BY <1>7 DEF PullFails, Ends
<1>8. ASSUME NEW c \in Cont, MountAndStart(c) PROVE ImagesInv'
  <2>1. ImgTypes'
    <3>1. state' \in [Cont -> [on: BOOLEAN, rm: BOOLEAN, ref: BOOLEAN, recorded: BOOLEAN]]
      <4> DEFINE Rec == [on: BOOLEAN, rm: BOOLEAN, ref: BOOLEAN, recorded: BOOLEAN]
                 s1 == [state EXCEPT ![c].recorded = TRUE]
      <4>1. ASSUME NEW r \in Rec
            PROVE  [r EXCEPT !.recorded = TRUE] \in Rec /\ [r EXCEPT !.ref = TRUE] \in Rec
        BY Zenon
      <4>2. state' = [s1 EXCEPT ![c].ref = TRUE]
        BY <1>8, Zenon DEF MountAndStart
      <4>3. s1 = [state EXCEPT ![c] = [state[c] EXCEPT !.recorded = TRUE]] /\ state \in [Cont -> Rec]
        OBVIOUS
      <4> HIDE DEF s1, Rec
      <4>4. s1 \in [Cont -> Rec]
        BY <4>1, <4>3
      <4>5. state' = [s1 EXCEPT ![c] = [s1[c] EXCEPT !.ref = TRUE]]
        BY <4>2, <4>4
      <4>6. state' \in [Cont -> Rec]
        BY <4>1, <4>4, <4>5
      <4>7. QED
        BY <4>6 DEF Rec
    <3>2. QED
      BY <1>8, <3>1 DEF MountAndStart
  <2>2. ConfigWhole'
    BY <1>8 DEF MountAndStart
  <2>3. ChangesKept'
    BY <1>8 DEF MountAndStart
  <2>4. ArtifactsKept'
    BY <1>8 DEF MountAndStart
  <2>5. SidecarWritten'
    BY <1>8 DEF MountAndStart
  <2>6. PullsMeet'
    BY <1>8 DEF MountAndStart
  <2>7. RunsAreKnown'
    BY <1>8 DEF MountAndStart
  <2>8. ClearKnows'
    BY <1>8 DEF MountAndStart
  <2>9. PlanIsClear'
    BY <1>8 DEF MountAndStart
  <2>10. SnapshotsThere'
    BY <1>8 DEF MountAndStart
  <2> HIDE DEF ImgTypes, ConfigWhole, ChangesKept, ArtifactsKept, SidecarWritten, PullsMeet, RunsAreKnown, ClearKnows, PlanIsClear, SnapshotsThere
  <2>11. QED
    BY <2>1, <2>2, <2>3, <2>4, <2>5, <2>6, <2>7, <2>8, <2>9, <2>10
<1>9. ASSUME NEW c \in Cont, MountFails(c) PROVE ImagesInv'
  BY <1>9 DEF MountFails, Ends
<1>10. ASSUME NEW c \in Cont, Exits(c) PROVE ImagesInv'
  <2>0. /\ state' \in [Cont -> [on: BOOLEAN, rm: BOOLEAN, ref: BOOLEAN, recorded: BOOLEAN]]
        /\ changes' \in [Cont -> BOOLEAN] /\ snapped' \in [Cont -> BOOLEAN]
        /\ \A d \in Cont : snapped'[d] => snapped[d]
    <3>1. Removed(c) \/ UNCHANGED <<state, changes, snapped>>
      BY <1>10 DEF Exits
    <3>2. QED
      BY <3>1, RemovedFacts
  <2>1. ImgTypes'
    BY <1>10, <2>0 DEF Exits, Ends
  <2>2. ConfigWhole'
    BY <1>10 DEF Exits, Ends, Removed, NoState
  <2>3. ChangesKept'
    BY <1>10 DEF Exits, Ends, Removed, NoState
  <2>4. ArtifactsKept'
    BY <1>10 DEF Exits, Ends, Removed, NoState
  <2>5. SidecarWritten'
    BY <1>10 DEF Exits, Ends, Removed, NoState
  <2>6. PullsMeet'
    BY <1>10 DEF Exits, Ends, Removed, NoState
  <2>7. RunsAreKnown'
    BY <1>10 DEF Exits, Ends, Removed, NoState
  <2>8. ClearKnows'
    BY <1>10 DEF Exits, Ends, Removed, NoState
  <2>9. PlanIsClear'
    BY <1>10 DEF Exits, Ends, Removed, NoState
  <2>10. SnapshotsThere'
    BY <1>10, <2>0 DEF Exits, Ends
  <2> HIDE DEF ImgTypes, ConfigWhole, ChangesKept, ArtifactsKept, SidecarWritten, PullsMeet, RunsAreKnown, ClearKnows, PlanIsClear, SnapshotsThere
  <2>11. QED
    BY <2>1, <2>2, <2>3, <2>4, <2>5, <2>6, <2>7, <2>8, <2>9, <2>10
<1>11. ASSUME NEW c \in Cont, Snapshot(c) PROVE ImagesInv'
  BY <1>11 DEF Snapshot
<1>12. ASSUME NEW c \in Cont, RunCrashes(c) PROVE ImagesInv'
  BY <1>12 DEF RunCrashes, Ends
<1>13. ASSUME NEW c \in Cont, ClearDeRuns(c) PROVE ImagesInv'
  <2>0. /\ state' \in [Cont -> [on: BOOLEAN, rm: BOOLEAN, ref: BOOLEAN, recorded: BOOLEAN]]
        /\ changes' \in [Cont -> BOOLEAN] /\ snapped' \in [Cont -> BOOLEAN]
        /\ \A d \in Cont : snapped'[d] => snapped[d]
    <3>1. Removed(c) \/ UNCHANGED <<state, changes, snapped>>
      BY <1>13 DEF ClearDeRuns
    <3>2. QED
      BY <3>1, RemovedFacts
  <2>1. ImgTypes'
    BY <1>13, <2>0 DEF ClearDeRuns
  <2>2. ConfigWhole'
    BY <1>13 DEF ClearDeRuns, Removed, NoState
  <2>3. ChangesKept'
    BY <1>13 DEF ClearDeRuns, Removed, NoState
  <2>4. ArtifactsKept'
    BY <1>13, <2>0 DEF ClearDeRuns
  <2>5. SidecarWritten'
    BY <1>13 DEF ClearDeRuns, Removed, NoState
  <2>6. PullsMeet'
    BY <1>13 DEF ClearDeRuns, Removed, NoState
  <2>7. RunsAreKnown'
    BY <1>13, SMTT(30) DEF ClearDeRuns, Removed, NoState
  <2>8. ClearKnows'
    BY <1>13 DEF ClearDeRuns, Removed, NoState
  <2>9. PlanIsClear'
    BY <1>13 DEF ClearDeRuns, Removed, NoState
  <2>10. SnapshotsThere'
    BY <1>13, <2>0 DEF ClearDeRuns
  <2> HIDE DEF ImgTypes, ConfigWhole, ChangesKept, ArtifactsKept, SidecarWritten, PullsMeet, RunsAreKnown, ClearKnows, PlanIsClear, SnapshotsThere
  <2>11. QED
    BY <2>1, <2>2, <2>3, <2>4, <2>5, <2>6, <2>7, <2>8, <2>9, <2>10
<1>14. ASSUME NEW c \in Cont, ClearLockTimesOut(c) PROVE ImagesInv'
  <2>1. ImgTypes'
    BY <1>14 DEF ClearLockTimesOut
  <2>2. ConfigWhole'
    BY <1>14 DEF ClearLockTimesOut
  <2>3. ChangesKept'
    BY <1>14 DEF ClearLockTimesOut
  <2>4. ArtifactsKept'
    BY <1>14 DEF ClearLockTimesOut
  <2>5. SidecarWritten'
    BY <1>14 DEF ClearLockTimesOut
  <2>6. PullsMeet'
    BY <1>14 DEF ClearLockTimesOut
  <2>7. RunsAreKnown'
    BY <1>14 DEF ClearLockTimesOut
  <2>8. ClearKnows'
    BY <1>14 DEF ClearLockTimesOut
  <2>9. PlanIsClear'
    BY <1>14 DEF ClearLockTimesOut
  <2>10. SnapshotsThere'
    BY <1>14 DEF ClearLockTimesOut
  <2> HIDE DEF ImgTypes, ConfigWhole, ChangesKept, ArtifactsKept, SidecarWritten, PullsMeet, RunsAreKnown, ClearKnows, PlanIsClear, SnapshotsThere
  <2>11. QED
    BY <2>1, <2>2, <2>3, <2>4, <2>5, <2>6, <2>7, <2>8, <2>9, <2>10
<1>15. ASSUME NEW c \in Cont, NEW ok \in BOOLEAN, FetchConfig(c, ok) PROVE ImagesInv'
  BY <1>15 DEF FetchConfig
<1>16. ASSUME NEW scope \in {"all", "orphans", "images"}, ClearPlans(scope) PROVE ImagesInv'
  BY <1>16 DEF ClearPlans, ToRemove, BuildUsageSet
<1>17. CASE ClearScans
  <2>1. ImgTypes'
    <3>1. clear'.plan \subseteq Artifacts
      BY <1>17 DEF ClearScans, Planned, Dedup, PlanOrphans, PlanImages, PlanSnapshots, PlanTemp
    <3>2. clear' = [clear EXCEPT !.at = "apply", !.plan = clear'.plan]
      BY <1>17 DEF ClearScans
    <3>3. QED
      BY <1>17, <3>1, <3>2, ZenonT(40) DEF ClearScans
  <2>2. ConfigWhole'
    BY <1>17 DEF ClearScans, Planned, Dedup, PlanOrphans, PlanImages, PlanSnapshots, PlanTemp
  <2>3. ChangesKept'
    BY <1>17 DEF ClearScans, Planned, Dedup, PlanOrphans, PlanImages, PlanSnapshots, PlanTemp
  <2>4. ArtifactsKept'
    BY <1>17 DEF ClearScans, Planned, Dedup, PlanOrphans, PlanImages, PlanSnapshots, PlanTemp
  <2>5. SidecarWritten'
    BY <1>17 DEF ClearScans, Planned, Dedup, PlanOrphans, PlanImages, PlanSnapshots, PlanTemp
  <2>6. PullsMeet'
    BY <1>17 DEF ClearScans, Planned, Dedup, PlanOrphans, PlanImages, PlanSnapshots, PlanTemp
  <2>7. RunsAreKnown'
    BY <1>17 DEF ClearScans, Planned, Dedup, PlanOrphans, PlanImages, PlanSnapshots, PlanTemp
  <2>8. ClearKnows'
    BY <1>17 DEF ClearScans, Planned, Dedup, PlanOrphans, PlanImages, PlanSnapshots, PlanTemp
  <2>9. PlanIsClear'
    BY <1>17 DEF ClearScans, Planned, Dedup, PlanOrphans, PlanImages, PlanSnapshots, PlanTemp
  <2>10. SnapshotsThere'
    BY <1>17 DEF ClearScans, Planned, Dedup, PlanOrphans, PlanImages, PlanSnapshots, PlanTemp
  <2> HIDE DEF ImgTypes, ConfigWhole, ChangesKept, ArtifactsKept, SidecarWritten, PullsMeet, RunsAreKnown, ClearKnows, PlanIsClear, SnapshotsThere
  <2>11. QED
    BY <2>1, <2>2, <2>3, <2>4, <2>5, <2>6, <2>7, <2>8, <2>9, <2>10
<1>18. CASE ClearByName
  BY <1>18, ZenonT(40) DEF ClearByName, BuildUsageSet, NoClear
<1>19. CASE ClearEnds
  BY <1>19 DEF ClearEnds, NoClear
<1>20. ASSUME NEW a \in clear.plan, Apply(a) PROVE ImagesInv'
  <2> DEFINE Rest == /\ clear' = [clear EXCEPT !.plan = @ \ {a}] /\ sidecar' = sidecar /\ runAt' = runAt
                     /\ pullTmp' = pullTmp /\ state' = state /\ up' = up /\ halfRead' = halfRead
                     /\ overlap' = overlap /\ first' = first /\ together' = together
                     /\ clear.at = "apply"
  <2>0. Rest
    BY <1>20 DEF Apply
  <2>1. CASE a = <<"image", "img">>
    <3>1. cacheFile' = "absent" /\ changes' = changes /\ snapFile' = snapFile /\ work' = work
          /\ snapped' = snapped
      BY <1>20, <2>1 DEF Apply
    <3>2. QED
      <4>1. ImgTypes'
        BY <1>20, <2>0, <2>1, <3>1
      <4>2. ConfigWhole'
        BY <1>20, <2>0, <2>1, <3>1
      <4>3. ChangesKept'
        BY <1>20, <2>0, <2>1, <3>1
      <4>4. ArtifactsKept'
        BY <1>20, <2>0, <2>1, <3>1
      <4>5. SidecarWritten'
        BY <1>20, <2>0, <2>1, <3>1
      <4>6. PullsMeet'
        BY <1>20, <2>0, <2>1, <3>1
      <4>7. RunsAreKnown'
        BY <1>20, <2>0, <2>1, <3>1
      <4>8. ClearKnows'
        BY <1>20, <2>0, <2>1, <3>1
      <4>9. PlanIsClear'
        BY <1>20, <2>0, <2>1, <3>1
      <4>10. SnapshotsThere'
        BY <1>20, <2>0, <2>1, <3>1
      <4> HIDE DEF ImgTypes, ConfigWhole, ChangesKept, ArtifactsKept, SidecarWritten, PullsMeet, RunsAreKnown, ClearKnows, PlanIsClear, SnapshotsThere
      <4>11. QED
        BY <4>1, <4>2, <4>3, <4>4, <4>5, <4>6, <4>7, <4>8, <4>9, <4>10
  <2>2. ASSUME NEW d \in Cont, a = <<"changes", d>> PROVE ImagesInv'
    <3>1. cacheFile' = cacheFile /\ changes' = [changes EXCEPT ![d] = FALSE] /\ snapFile' = snapFile
          /\ work' = work /\ snapped' = snapped
      BY <1>20, <2>2 DEF Apply
    <3>2. QED
      <4>1. ImgTypes'
        BY <1>20, <2>0, <2>2, <3>1
      <4>2. ConfigWhole'
        BY <1>20, <2>0, <2>2, <3>1
      <4>3. ChangesKept'
        <5>1. up[d] => d \in first
          BY <1>20, <2>0, <2>2
        <5>2. QED
          BY <2>0, <3>1, <5>1
      <4>4. ArtifactsKept'
        BY <1>20, <2>0, <2>2, <3>1
      <4>5. SidecarWritten'
        BY <1>20, <2>0, <2>2, <3>1
      <4>6. PullsMeet'
        BY <1>20, <2>0, <2>2, <3>1
      <4>7. RunsAreKnown'
        BY <1>20, <2>0, <2>2, <3>1
      <4>8. ClearKnows'
        BY <1>20, <2>0, <2>2, <3>1
      <4>9. PlanIsClear'
        BY <1>20, <2>0, <2>2, <3>1
      <4>10. SnapshotsThere'
        BY <1>20, <2>0, <2>2, <3>1
      <4> HIDE DEF ImgTypes, ConfigWhole, ChangesKept, ArtifactsKept, SidecarWritten, PullsMeet, RunsAreKnown, ClearKnows, PlanIsClear, SnapshotsThere
      <4>11. QED
        BY <4>1, <4>2, <4>3, <4>4, <4>5, <4>6, <4>7, <4>8, <4>9, <4>10
  <2>3. ASSUME NEW d \in Cont, a = <<"snapshot", d>> PROVE ImagesInv'
    <3>1. /\ cacheFile' = cacheFile /\ changes' = changes /\ snapFile' = [snapFile EXCEPT ![d] = FALSE]
          /\ work' = work
          /\ snapped' = IF d \in overlap \/ ~up[d] THEN [snapped EXCEPT ![d] = FALSE] ELSE snapped
      BY <1>20, <2>3 DEF Apply
    <3>2. d \in overlap \/ ~up[d]
      BY <1>20, <2>0, <2>3
    <3>3. QED
      <4>1. ImgTypes'
        BY <1>20, <2>0, <2>3, <3>1, <3>2
      <4>2. ConfigWhole'
        BY <1>20, <2>0, <2>3, <3>1, <3>2
      <4>3. ChangesKept'
        BY <1>20, <2>0, <2>3, <3>1, <3>2
      <4>4. ArtifactsKept'
        BY <1>20, <2>0, <2>3, <3>1, <3>2
      <4>5. SidecarWritten'
        BY <1>20, <2>0, <2>3, <3>1, <3>2
      <4>6. PullsMeet'
        BY <1>20, <2>0, <2>3, <3>1, <3>2
      <4>7. RunsAreKnown'
        BY <1>20, <2>0, <2>3, <3>1, <3>2
      <4>8. ClearKnows'
        BY <1>20, <2>0, <2>3, <3>1, <3>2
      <4>9. PlanIsClear'
        BY <1>20, <2>0, <2>3, <3>1, <3>2
      <4>10. SnapshotsThere'
        BY <1>20, <2>0, <2>3, <3>1, <3>2
      <4> HIDE DEF ImgTypes, ConfigWhole, ChangesKept, ArtifactsKept, SidecarWritten, PullsMeet, RunsAreKnown, ClearKnows, PlanIsClear, SnapshotsThere
      <4>11. QED
        BY <4>1, <4>2, <4>3, <4>4, <4>5, <4>6, <4>7, <4>8, <4>9, <4>10
  <2>4. ASSUME NEW d \in Cont, a = <<"temp", d>> PROVE ImagesInv'
    <3>1. /\ cacheFile' = cacheFile /\ changes' = changes /\ snapFile' = snapFile /\ snapped' = snapped
          /\ work' = IF work[d] # "none" THEN [work EXCEPT ![d] = "damaged"] ELSE work
      BY <1>20, <2>4 DEF Apply
    <3>2. QED
      <4>1. ImgTypes'
        BY <1>20, <2>0, <2>4, <3>1
      <4>2. ConfigWhole'
        BY <1>20, <2>0, <2>4, <3>1
      <4>3. ChangesKept'
        BY <1>20, <2>0, <2>4, <3>1
      <4>4. ArtifactsKept'
        BY <1>20, <2>0, <2>4, <3>1
      <4>5. SidecarWritten'
        BY <1>20, <2>0, <2>4, <3>1
      <4>6. PullsMeet'
        BY <1>20, <2>0, <2>4, <3>1
      <4>7. RunsAreKnown'
        BY <1>20, <2>0, <2>4, <3>1
      <4>8. ClearKnows'
        BY <1>20, <2>0, <2>4, <3>1
      <4>9. PlanIsClear'
        BY <1>20, <2>0, <2>4, <3>1
      <4>10. SnapshotsThere'
        BY <1>20, <2>0, <2>4, <3>1
      <4> HIDE DEF ImgTypes, ConfigWhole, ChangesKept, ArtifactsKept, SidecarWritten, PullsMeet, RunsAreKnown, ClearKnows, PlanIsClear, SnapshotsThere
      <4>11. QED
        BY <4>1, <4>2, <4>3, <4>4, <4>5, <4>6, <4>7, <4>8, <4>9, <4>10
  <2>5. QED
    BY <1>20, <2>1, <2>2, <2>3, <2>4
<1>21. CASE UNCHANGED imgVars
  BY <1>21 DEF imgVars
<1> HIDE DEF ImagesInv
<1>22. QED
  BY <1>1, <1>2, <1>3, <1>4, <1>5, <1>6, <1>7, <1>8, <1>9, <1>10, <1>11, <1>12, <1>13, <1>14, <1>15, <1>16, <1>17, <1>18, <1>19, <1>20, <1>21 DEF ImgNext

\* Whatever interleaves and crashes: a cached image is complete; a run that met
\* no other pull reads no half-written configuration; a running container that
\* a clear listed keeps its change directory; and one whose start met no clear
\* keeps its image and its snapshot (image/pull.go, cmd/clear.go).
THEOREM ImagesAreSafe == ImgSpec => []ImagesSafe
<1>1. ImagesInv => ImagesSafe
  BY DEF ImagesInv, ImagesSafe, ImgTypes, ImgTypeOK, CacheWhole
<1>2. QED
  BY ImagesInitial, ImagesStep, <1>1, PTL DEF ImgSpec

-----------------------------------------------------------------------------
(* Paths as sequences of names: the order `below' and moving a directory.  *)

Path == Seq(Name)

\* Below, entry by entry.
LEMMA UnderDef ==
  ASSUME NEW x \in Path, NEW y \in Path
  PROVE  Under(x, y) <=> Len(y) <= Len(x) /\ \A i \in 1..Len(y) : x[i] = y[i]
<1>1. SubSeq(y, 1, Len(y)) = y
  BY SubSeqFull DEF Path
<1>2. ASSUME Len(y) <= Len(x)
      PROVE  /\ SubSeq(x, 1, Len(y)) \in Path /\ Len(SubSeq(x, 1, Len(y))) = Len(y)
             /\ \A i \in 1..Len(y) : SubSeq(x, 1, Len(y))[i] = x[i]
  BY <1>2 DEF Path
<1> QED
  BY <1>1, <1>2, SeqEqual DEF Under, IsPrefix, Path

\* An entry of a directory.
LEMMA EntryDef ==
  ASSUME NEW x \in Path, NEW n \in Name
  PROVE  /\ Join(x, n) \in Path /\ Len(Join(x, n)) = Len(x) + 1
         /\ \A i \in 1..Len(x) : Join(x, n)[i] = x[i]
         /\ Join(x, n)[Len(x) + 1] = n
  BY DEF Path, Join

\* A path that is moved along with the directory it is below.
LEMMA RebaseDef ==
  ASSUME NEW x \in Path, NEW y \in Path, NEW z \in Path, Under(x, y)
  PROVE  /\ Rebase(x, y, z) \in Path
         /\ Len(Rebase(x, y, z)) = Len(z) + Len(x) - Len(y)
         /\ \A i \in 1..Len(z) : Rebase(x, y, z)[i] = z[i]
         /\ \A i \in 1..(Len(x) - Len(y)) : Rebase(x, y, z)[Len(z) + i] = x[Len(y) + i]
<1> DEFINE t == SubSeq(x, Len(y) + 1, Len(x))
<1>0. Len(y) <= Len(x) /\ Len(x) \in Nat /\ Len(y) \in Nat /\ Len(z) \in Nat
  BY UnderDef DEF Path
<1>1. /\ t \in Path /\ Len(t) = Len(x) - Len(y)
      /\ \A i \in 1..(Len(x) - Len(y)) : t[i] = x[Len(y) + i]
  BY <1>0 DEF Path
<1>2. Rebase(x, y, z) = z \o t
  BY DEF Rebase
<1> HIDE DEF t
<1>3. /\ z \o t \in Path /\ Len(z \o t) = Len(z) + Len(t)
      /\ \A i \in 1 .. Len(z) + Len(t) : (z \o t)[i] =
                     IF i <= Len(z) THEN z[i] ELSE t[i - Len(z)]
  BY <1>1, ConcatProperties DEF Path
<1> QED
  BY <1>0, <1>1, <1>2, <1>3

\* Two paths are the same if they agree entry by entry.
LEMMA SamePath ==
  ASSUME NEW x \in Path, NEW y \in Path, Len(x) = Len(y), \A i \in 1..Len(x) : x[i] = y[i]
  PROVE  x = y
  BY SeqEqual DEF Path

\* Below is an order, and a path is below paths that are below each other.
LEMMA UnderOrder ==
  ASSUME NEW x \in Path, NEW y \in Path, NEW z \in Path
  PROVE  /\ Under(x, x)
         /\ Under(x, y) /\ Under(y, z) => Under(x, z)
         /\ Under(x, y) /\ Under(y, x) => x = y
         /\ Under(x, y) /\ Under(x, z) => Under(y, z) \/ Under(z, y)
<1>0. Len(x) \in Nat /\ Len(y) \in Nat /\ Len(z) \in Nat
  BY DEF Path
<1>1. Under(x, x)
  BY <1>0, UnderDef
<1>2. Under(x, y) /\ Under(y, z) => Under(x, z)
  BY <1>0, UnderDef
<1>3. Under(x, y) /\ Under(y, x) => x = y
  BY <1>0, UnderDef, SamePath
<1>4. Under(x, y) /\ Under(x, z) => Under(y, z) \/ Under(z, y)
  BY <1>0, UnderDef
<1> QED
  BY <1>1, <1>2, <1>3, <1>4

\* The paths an entry is below are itself and those its directory is below.
LEMMA UnderEntry ==
  ASSUME NEW x \in Path, NEW y \in Path, NEW n \in Name
  PROVE  /\ Under(Join(x, n), y) <=> Under(x, y) \/ y = Join(x, n)
         /\ ~Under(x, Join(x, n))
<1> DEFINE e == Join(x, n)
<1>0. Len(x) \in Nat /\ Len(y) \in Nat
  BY DEF Path
<1>1. e \in Path /\ Len(e) = Len(x) + 1 /\ \A i \in 1..Len(x) : e[i] = x[i]
  BY EntryDef
<1> HIDE DEF e
<1>2. ~Under(x, e)
  BY <1>0, <1>1, UnderDef
<1>3. Under(x, y) => Under(e, y)
  BY <1>0, <1>1, UnderDef
<1>4. Under(e, e)
  BY <1>1, UnderOrder
<1>5. ASSUME Under(e, y), ~Under(x, y) PROVE y = e
  <2>1. Len(y) <= Len(x) + 1 /\ \A i \in 1..Len(y) : e[i] = y[i]
    BY <1>1, <1>5, UnderDef
  <2>2. Len(y) = Len(x) + 1
    BY <1>0, <1>1, <1>5, <2>1, UnderDef
  <2> QED
    BY <1>0, <1>1, <2>1, <2>2, SamePath
<1> QED
  BY <1>2, <1>3, <1>4, <1>5 DEF e

\* An entry has one directory and one name.
LEMMA EntryInjective ==
  ASSUME NEW x \in Path, NEW y \in Path, NEW n \in Name, NEW m \in Name,
         Join(x, n) = Join(y, m)
  PROVE  x = y /\ n = m
<1> DEFINE e == Join(x, n)
<1>0. Len(x) \in Nat /\ Len(y) \in Nat
  BY DEF Path
<1>1. Len(e) = Len(x) + 1 /\ e[Len(x) + 1] = n /\ \A i \in 1..Len(x) : e[i] = x[i]
  BY EntryDef
<1>2. Len(e) = Len(y) + 1 /\ e[Len(y) + 1] = m /\ \A i \in 1..Len(y) : e[i] = y[i]
  <2>1. e = Join(y, m)
    OBVIOUS
  <2> HIDE DEF e
  <2> QED
    BY <2>1, EntryDef
<1> HIDE DEF e
<1>3. Len(x) = Len(y)
  BY <1>0, <1>1, <1>2
<1> QED
  BY <1>0, <1>1, <1>2, <1>3, SamePath

\* A path that is moved is below the new place, and moving back undoes it.
LEMMA RebaseMoves ==
  ASSUME NEW x \in Path, NEW y \in Path, NEW z \in Path, Under(x, y)
  PROVE  /\ Rebase(x, y, z) \in Path /\ Under(Rebase(x, y, z), z)
         /\ Rebase(Rebase(x, y, z), z, y) = x
         /\ Rebase(y, y, z) = z
<1>0. Len(x) \in Nat /\ Len(y) \in Nat /\ Len(z) \in Nat /\ Len(y) <= Len(x)
  BY UnderDef DEF Path
<1>1. Rebase(x, y, z) \in Path /\ Under(Rebase(x, y, z), z)
  <2> DEFINE r == Rebase(x, y, z)
  <2>1. r \in Path /\ Len(r) = Len(z) + Len(x) - Len(y) /\ \A i \in 1..Len(z) : r[i] = z[i]
    BY <1>0, RebaseDef
  <2> HIDE DEF r
  <2>2. Under(r, z)
    BY <1>0, <2>1, UnderDef
  <2> QED
    BY <2>1, <2>2 DEF r
<1>2. Rebase(y, y, z) = z
  <2> DEFINE r == Rebase(y, y, z)
  <2>1. Under(y, y)
    BY UnderOrder
  <2>2. r \in Path /\ Len(r) = Len(z) + Len(y) - Len(y) /\ \A i \in 1..Len(z) : r[i] = z[i]
    BY <2>1, RebaseDef
  <2> HIDE DEF r
  <2>3. Len(r) = Len(z)
    BY <1>0, <2>2
  <2>4. r = z
    BY <2>2, <2>3, SamePath
  <2> QED
    BY <2>4 DEF r
<1>3. Rebase(Rebase(x, y, z), z, y) = x
  <2> DEFINE r == Rebase(x, y, z)
  <2> DEFINE b == Rebase(r, z, y)
  <2>1. /\ r \in Path /\ Len(r) = Len(z) + Len(x) - Len(y)
        /\ \A i \in 1..(Len(x) - Len(y)) : r[Len(z) + i] = x[Len(y) + i]
    BY <1>0, RebaseDef
  <2>2. Under(r, z)
    BY <1>1
  <2> HIDE DEF r
  <2>3. /\ b \in Path /\ Len(b) = Len(y) + Len(r) - Len(z)
        /\ \A i \in 1..Len(y) : b[i] = y[i]
        /\ \A i \in 1..(Len(r) - Len(z)) : b[Len(y) + i] = r[Len(z) + i]
    BY <2>1, <2>2, RebaseDef, ZenonT(40)
  <2> HIDE DEF b
  <2>4. Len(b) = Len(x)
    BY <1>0, <2>1, <2>3
  <2>5. \A i \in 1..Len(x) : b[i] = x[i]
    <3>1. ASSUME NEW i \in 1..Len(y) PROVE b[i] = x[i]
      BY <2>3, UnderDef
    <3>2. ASSUME NEW i \in 1..Len(x), i > Len(y) PROVE b[i] = x[i]
      <4>1. PICK d \in 1..(Len(x) - Len(y)) : i = Len(y) + d
        <5>1. i - Len(y) \in 1..(Len(x) - Len(y)) /\ i = Len(y) + (i - Len(y))
          BY <1>0, <3>2
        <5> QED
          BY <5>1
      <4>2. Len(r) - Len(z) = Len(x) - Len(y)
        BY <1>0, <2>1
      <4>3. b[Len(y) + d] = r[Len(z) + d] /\ r[Len(z) + d] = x[Len(y) + d]
        BY <2>1, <2>3, <4>2
      <4> QED
        BY <4>1, <4>3
    <3> QED
      BY <1>0, <3>1, <3>2
  <2> QED
    BY <2>3, <2>4, <2>5, SamePath DEF b, r
<1> QED
  BY <1>1, <1>2, <1>3

\* An entry of a directory that is moved is the same entry of the moved directory.
LEMMA RebaseKeeps ==
  ASSUME NEW x \in Path, NEW y \in Path, NEW z \in Path, Under(x, y), NEW n \in Name
  PROVE  Rebase(Join(x, n), y, z) = Join(Rebase(x, y, z), n)
<1> DEFINE r == Rebase(x, y, z)
           e == Join(x, n)
           a == Rebase(e, y, z)
           b == Join(r, n)
<1>0. Len(x) \in Nat /\ Len(y) \in Nat /\ Len(z) \in Nat /\ Len(y) <= Len(x)
  BY UnderDef DEF Path
<1>1. /\ e \in Path /\ Len(e) = Len(x) + 1 /\ \A i \in 1..Len(x) : e[i] = x[i]
      /\ e[Len(x) + 1] = n /\ Under(e, y)
  BY EntryDef, UnderEntry
<1>2. /\ r \in Path /\ Len(r) = Len(z) + Len(x) - Len(y)
      /\ \A i \in 1..Len(z) : r[i] = z[i]
      /\ \A i \in 1..(Len(x) - Len(y)) : r[Len(z) + i] = x[Len(y) + i]
  BY RebaseDef
<1> HIDE DEF r, e
<1>3. /\ b \in Path /\ Len(b) = Len(r) + 1 /\ \A i \in 1..Len(r) : b[i] = r[i]
      /\ b[Len(r) + 1] = n
  BY <1>2, EntryDef
<1>4. /\ a \in Path /\ Len(a) = Len(z) + Len(e) - Len(y)
      /\ \A i \in 1..Len(z) : a[i] = z[i]
      /\ \A i \in 1..(Len(e) - Len(y)) : a[Len(z) + i] = e[Len(y) + i]
  <2>1. e \in Path /\ Under(e, y)
    BY <1>1
  <2> QED
    BY <2>1, RebaseDef, ZenonT(40)
<1> HIDE DEF a, b
<1>5. Len(a) = Len(b)
  BY <1>0, <1>1, <1>2, <1>3, <1>4
<1>6. ASSUME NEW i \in 1..Len(a) PROVE a[i] = b[i]
  <2>1. CASE i <= Len(z)
    BY <1>0, <1>1, <1>2, <1>3, <1>4, <2>1
  <2>2. CASE i > Len(z)
    <3>1. PICK d \in 1..(Len(e) - Len(y)) : i = Len(z) + d
      <4>1. i - Len(z) \in 1..(Len(e) - Len(y)) /\ i = Len(z) + (i - Len(z))
        BY <1>0, <1>1, <1>4, <2>2
      <4> QED
        BY <4>1
    <3>2. a[i] = e[Len(y) + d]
      BY <1>4, <3>1
    <3>3. CASE d <= Len(x) - Len(y)
      <4>1. r[Len(z) + d] = x[Len(y) + d]
        BY <1>0, <1>2, <3>1, <3>3
      <4>2. Len(y) + d \in 1..Len(x) /\ i \in 1..Len(r)
        BY <1>0, <1>2, <3>1, <3>3
      <4> QED
        BY <1>1, <1>3, <3>1, <3>2, <4>1, <4>2
    <3>4. CASE d = Len(x) - Len(y) + 1
      BY <1>0, <1>1, <1>2, <1>3, <3>1, <3>2, <3>4
    <3> QED
      BY <1>0, <1>1, <3>1, <3>3, <3>4
  <2> QED
    BY <1>0, <1>1, <1>4, <2>1, <2>2
<1> QED
  BY <1>3, <1>4, <1>5, <1>6, SamePath DEF a, b, r, e

\* What is below a path that is moved is still below it.
LEMMA RebaseOrder ==
  ASSUME NEW x \in Path, NEW w \in Path, NEW y \in Path, NEW z \in Path,
         Under(x, w), Under(w, y)
  PROVE  Under(Rebase(x, y, z), Rebase(w, y, z))
<1> DEFINE r == Rebase(x, y, z)
           s == Rebase(w, y, z)
<1>0. Len(x) \in Nat /\ Len(y) \in Nat /\ Len(z) \in Nat /\ Len(w) \in Nat
      /\ Len(y) <= Len(w) /\ Len(w) <= Len(x) /\ \A i \in 1..Len(w) : x[i] = w[i]
  BY UnderDef DEF Path
<1>1. Under(x, y)
  BY UnderOrder
<1>2. /\ r \in Path /\ Len(r) = Len(z) + Len(x) - Len(y)
      /\ \A i \in 1..Len(z) : r[i] = z[i]
      /\ \A i \in 1..(Len(x) - Len(y)) : r[Len(z) + i] = x[Len(y) + i]
  BY <1>1, RebaseDef, ZenonT(40)
<1>3. /\ s \in Path /\ Len(s) = Len(z) + Len(w) - Len(y)
      /\ \A i \in 1..Len(z) : s[i] = z[i]
      /\ \A i \in 1..(Len(w) - Len(y)) : s[Len(z) + i] = w[Len(y) + i]
  BY RebaseDef, ZenonT(40)
<1> HIDE DEF r, s
<1>4. ASSUME NEW i \in 1..Len(s) PROVE r[i] = s[i]
  <2>1. CASE i <= Len(z)
    BY <1>0, <1>2, <1>3, <2>1
  <2>2. CASE i > Len(z)
    <3>1. PICK d \in 1..(Len(w) - Len(y)) : i = Len(z) + d
      <4>1. i - Len(z) \in 1..(Len(w) - Len(y)) /\ i = Len(z) + (i - Len(z))
        BY <1>0, <1>3, <2>2
      <4> QED
        BY <4>1
    <3>2. s[i] = w[Len(y) + d]
      BY <1>3, <3>1
    <3>3. d \in 1..(Len(x) - Len(y)) /\ Len(y) + d \in 1..Len(w)
      BY <1>0, <3>1
    <3>4. r[i] = x[Len(y) + d]
      BY <1>2, <3>1, <3>3
    <3> QED
      BY <1>0, <3>2, <3>3, <3>4
  <2> QED
    BY <1>0, <1>3, <2>1, <2>2
<1>5. Under(r, s)
  BY <1>0, <1>2, <1>3, <1>4, UnderDef
<1> QED
  BY <1>5 DEF r, s

\* What is strictly below a path is below one of its entries.
LEMMA EntryBetween ==
  ASSUME NEW x \in Path, NEW y \in Path, Under(x, y), x # y
  PROVE  \E n \in Name : Under(x, Join(y, n))
<1>0. Len(x) \in Nat /\ Len(y) \in Nat /\ Len(y) <= Len(x) /\ \A i \in 1..Len(y) : x[i] = y[i]
  BY UnderDef DEF Path
<1>1. Len(y) < Len(x)
  BY <1>0, SamePath
<1>2. x[Len(y) + 1] \in Name
  BY <1>0, <1>1 DEF Path
<1> DEFINE n == x[Len(y) + 1]
           e == Join(y, n)
<1>3. /\ e \in Path /\ Len(e) = Len(y) + 1 /\ \A i \in 1..Len(y) : e[i] = y[i]
      /\ e[Len(y) + 1] = n
  BY <1>2, EntryDef
<1>4. n \in Name
  BY <1>2
<1> HIDE DEF e
<1>5. \A i \in 1..Len(e) : e[i] = x[i]
  BY <1>0, <1>3
<1>6. Under(x, e)
  BY <1>0, <1>1, <1>3, <1>5, UnderDef
<1> HIDE DEF n
<1> QED
  BY <1>4, <1>6 DEF e

-----------------------------------------------------------------------------
(* The shared directory.                                                   *)

\* Every directory on the way to a file exists.
TreeClosed == \A y \in DOMAIN tree, x \in Path : Under(y, x) => x \in DOMAIN tree

\* IDs not given out yet are not in the tables.
Unused ==
  /\ nextNode \in Nat \ {0} /\ DOMAIN nodes \subseteq 1..(nextNode - 1)
  /\ nextFh \in Nat \ {0}

ShareInv == ShareSafe /\ TreeClosed /\ Unused

\* The types the steps below need: every path is a sequence of names.
LEMMA ShareTypes ==
  ASSUME FSTypeOK
  PROVE  /\ DOMAIN tree \subseteq Path
         /\ \A id \in DOMAIN nodes : nodes[id] \in Path /\ id \in 1..MaxNode
         /\ \A k \in DOMAIN dentry : k = <<k[1], k[2]>> /\ k[2] \in Name
<1>1. Paths \subseteq Path
  <2>1. ASSUME NEW n \in 0..MaxDepth, NEW f \in [1..n -> Name] PROVE f \in Seq(Name)
    <3>1. n \in Nat
      BY VirtioFSAssumption
    <3> QED
      BY <3>1, SeqDef
  <2> QED
    BY <2>1 DEF Paths, Path
<1>2. \A id \in DOMAIN nodes : nodes[id] \in Path
  BY DEF FSTypeOK, Range, Path
<1>3. \A k \in DOMAIN dentry : k = <<k[1], k[2]>> /\ k[2] \in Name
  BY DEF FSTypeOK, Keys
<1> QED
  BY <1>1, <1>2, <1>3 DEF FSTypeOK

\* A directory without entries has nothing below it.
LEMMA NothingBelow ==
  ASSUME FSTypeOK, TreeClosed, NEW x \in Path, Children(x) = {},
         NEW y \in DOMAIN tree, Under(y, x)
  PROVE  y = x
<1> SUFFICES ASSUME y # x PROVE FALSE
  OBVIOUS
<1>0. y \in Path
  BY ShareTypes
<1>1. PICK n \in Name : Under(y, Join(x, n))
  BY <1>0, EntryBetween
<1>2. Join(x, n) \in Path /\ Len(Join(x, n)) = Len(x) + 1
  BY EntryDef
<1>3. Under(Join(x, n), x)
  BY UnderEntry, UnderOrder
<1>4. Join(x, n) \in DOMAIN tree
  BY <1>1, <1>2 DEF TreeClosed
<1> QED
  BY <1>2, <1>3, <1>4 DEF Children, Under

\* allocNode gives out an ID only for a path that has none, and moves nobody.
LEMMA AllocNodeFacts ==
  ASSUME FSTypeOK, NodesInjective, Unused, NEW path \in Path, AllocNode(path),
         nextFh' \in Nat \ {0}
  PROVE  /\ DOMAIN nodes' \subseteq 1..MaxNode /\ Range(nodes)' \subseteq Seq(Name)
         /\ NodesInjective' /\ Unused' /\ DOMAIN nodes \subseteq DOMAIN nodes'
         /\ \A id \in DOMAIN nodes : nodes'[id] = nodes[id]
<1>1. CASE \E id \in DOMAIN nodes : nodes[id] = path
  BY <1>1 DEF AllocNode, FSTypeOK, NodesInjective, Unused, Range, IsInjective
<1>2. CASE ~\E id \in DOMAIN nodes : nodes[id] = path
  <2>1. /\ nextNode <= MaxNode /\ nextNode' = nextNode + 1
        /\ DOMAIN nodes' = DOMAIN nodes \cup {nextNode}
        /\ \A id \in DOMAIN nodes' : nodes'[id] = IF id = nextNode THEN path ELSE nodes[id]
    BY <1>2 DEF AllocNode, Put
  <2>2. nextNode \notin DOMAIN nodes /\ MaxNode \in Nat
    BY VirtioFSAssumption DEF Unused
  <2>3. DOMAIN nodes' \subseteq 1..MaxNode /\ Unused'
    BY <2>1, <2>2 DEF FSTypeOK, Unused
  <2>4. Range(nodes)' \subseteq Seq(Name)
    BY <2>1, <2>2, ShareTypes DEF Range, Path
  <2>5. NodesInjective'
    BY <1>2, <2>1, <2>2 DEF NodesInjective, IsInjective
  <2> QED
    BY <2>1, <2>2, <2>3, <2>4, <2>5
<1> QED
  BY <1>1, <1>2

\* allocFh keeps the table of handles within its bound.
LEMMA AllocFhFacts ==
  ASSUME FSTypeOK, Unused, NEW ino, NEW id, AllocFh(ino, id)
  PROVE  DOMAIN fds' \subseteq 1..MaxFh /\ nextFh' \in Nat \ {0}
<1>1. MaxFh \in Nat /\ nextFh \in Nat \ {0} /\ nextFh <= MaxFh
  BY VirtioFSAssumption DEF Unused, AllocFh
<1>2. DOMAIN fds' = DOMAIN fds \cup {nextFh} /\ nextFh' = nextFh + 1
  BY DEF AllocFh, Put
<1> QED
  BY <1>1, <1>2 DEF FSTypeOK

\* A new dentry for a path that exists, next to the ones that still hold.
LEMMA NewDentry ==
  ASSUME FSTypeOK, DentriesReachFiles, NEW p \in DOMAIN nodes, NEW n \in Name,
         DOMAIN nodes \subseteq DOMAIN nodes', \A i \in DOMAIN nodes : nodes'[i] = nodes[i],
         DOMAIN tree \subseteq DOMAIN tree', \A x \in DOMAIN tree : tree'[x] = tree[x],
         NEW path \in DOMAIN tree', path = Join(nodes[p], n),
         NEW id \in DOMAIN nodes', nodes'[id] = path, NEW ino, tree'[path].ino = ino,
         dentry' = Put(dentry, <<p, n>>, [id |-> id, ino |-> ino])
  PROVE  DentriesReachFiles' /\ DOMAIN dentry' \subseteq Keys
<1> DEFINE new == <<p, n>>
<1>1. /\ DOMAIN dentry' = DOMAIN dentry \cup {new}
      /\ \A k \in DOMAIN dentry' :
           dentry'[k] = IF k = new THEN [id |-> id, ino |-> ino] ELSE dentry[k]
  BY DEF Put
<1>2. new[1] = p /\ new[2] = n /\ new \in Keys
  BY ShareTypes DEF Keys
<1> HIDE DEF new
<1>3. ASSUME NEW k \in DOMAIN dentry'
      PROVE  /\ dentry'[k].id \in DOMAIN nodes' /\ k[1] \in DOMAIN nodes'
             /\ nodes'[dentry'[k].id] = Join(nodes'[k[1]], k[2])
             /\ nodes'[dentry'[k].id] \in DOMAIN tree'
             /\ tree'[nodes'[dentry'[k].id]].ino = dentry'[k].ino
  <2>1. CASE k = new
    <3>1. dentry'[k].id = id /\ dentry'[k].ino = ino
      BY <1>1, <2>1
    <3> QED
      BY <1>2, <2>1, <3>1
  <2>2. CASE k # new
    <3>1. k \in DOMAIN dentry /\ dentry'[k] = dentry[k]
      BY <1>1, <2>2
    <3>2. /\ dentry[k].id \in DOMAIN nodes /\ k[1] \in DOMAIN nodes
          /\ nodes[dentry[k].id] = Join(nodes[k[1]], k[2])
          /\ nodes[dentry[k].id] \in DOMAIN tree /\ tree[nodes[dentry[k].id]].ino = dentry[k].ino
      BY <3>1 DEF DentriesReachFiles
    <3> QED
      BY <3>1, <3>2
  <2> QED
    BY <2>1, <2>2
<1>4. DOMAIN dentry' \subseteq Keys
  BY <1>1, <1>2 DEF FSTypeOK
<1> QED
  BY <1>3, <1>4 DEF DentriesReachFiles

\* Looking a name up.
LEMMA LookupStep ==
  ASSUME ShareInv, NEW p \in Held, NEW n \in Name, Lookup(p, n)
  PROVE  ShareInv'
<1> DEFINE path == Join(nodes[p], n)
<1>0. FSTypeOK /\ NodesInjective /\ DentriesReachFiles /\ Unused
  BY DEF ShareInv, ShareSafe
<1>1. /\ p \in DOMAIN nodes /\ path \in DOMAIN tree /\ AllocNode(path)
      /\ \E id \in NodeOf(path) :
           dentry' = Put(dentry, <<p, n>>, [id |-> id, ino |-> tree[path].ino])
      /\ UNCHANGED <<readOnly, tree, data, inos, fds, nextFh, listing>>
  BY DEF Lookup
<1>2. path \in Path /\ p \in 1..MaxNode
  BY <1>0, <1>1, ShareTypes
<1> HIDE DEF path
<1>3. /\ DOMAIN nodes' \subseteq 1..MaxNode /\ Range(nodes)' \subseteq Seq(Name)
      /\ NodesInjective' /\ Unused' /\ DOMAIN nodes \subseteq DOMAIN nodes'
      /\ \A id \in DOMAIN nodes : nodes'[id] = nodes[id]
  <2>1. nextFh' \in Nat \ {0}
    BY <1>0, <1>1 DEF Unused
  <2> QED
    BY <1>0, <1>1, <1>2, <2>1, AllocNodeFacts
<1>4. PICK id \in DOMAIN nodes' :
        /\ nodes'[id] = path
        /\ dentry' = Put(dentry, <<p, n>>, [id |-> id, ino |-> tree[path].ino])
  BY <1>1 DEF NodeOf
<1>5. DentriesReachFiles' /\ DOMAIN dentry' \subseteq Keys
  BY <1>0, <1>1, <1>3, <1>4, NewDentry DEF path
<1>6. FSTypeOK'
  BY <1>0, <1>1, <1>3, <1>5 DEF FSTypeOK
<1>7. TreeClosed'
  BY <1>1 DEF ShareInv, TreeClosed
<1> QED
  BY <1>3, <1>5, <1>6, <1>7 DEF ShareInv, ShareSafe

\* A new entry of a directory that exists.
LEMMA NewEntry ==
  ASSUME FSTypeOK, TreeClosed, NEW p \in DOMAIN nodes, NEW n \in Name,
         NEW path \in Paths \ DOMAIN tree, path = Join(nodes[p], n), nodes[p] \in DOMAIN tree,
         NEW e, tree' = Put(tree, path, e)
  PROVE  /\ DOMAIN tree' \subseteq Paths /\ TreeClosed'
         /\ DOMAIN tree \subseteq DOMAIN tree' /\ path \in DOMAIN tree'
         /\ \A x \in DOMAIN tree : tree'[x] = tree[x]
         /\ tree'[path] = e
<1>1. /\ DOMAIN tree' = DOMAIN tree \cup {path}
      /\ \A x \in DOMAIN tree' : tree'[x] = IF x = path THEN e ELSE tree[x]
  BY DEF Put
<1>2. nodes[p] \in Path
  BY ShareTypes
<1>3. TreeClosed'
  <2>1. ASSUME NEW y \in DOMAIN tree', NEW x \in Path, Under(y, x)
        PROVE  x \in DOMAIN tree'
    <3>1. CASE y \in DOMAIN tree
      BY <1>1, <2>1, <3>1 DEF TreeClosed
    <3>2. CASE y = path
      <4>1. Under(nodes[p], x) \/ x = path
        BY <1>2, <2>1, <3>2, UnderEntry
      <4> QED
        BY <1>1, <4>1 DEF TreeClosed
    <3> QED
      BY <1>1, <3>1, <3>2
  <2> QED
    BY <2>1 DEF TreeClosed, Under
<1> QED
  BY <1>1, <1>3 DEF FSTypeOK

\* Creating a file.
LEMMA CreateStep ==
  ASSUME ShareInv, NEW p \in Held, NEW n \in Name, Create(p, n)
  PROVE  ShareInv'
<1> DEFINE path == Join(nodes[p], n)
           e == [ino |-> inos', dir |-> FALSE]
<1>0. FSTypeOK /\ NodesInjective /\ DentriesReachFiles /\ Unused /\ TreeClosed
  BY DEF ShareInv, ShareSafe
<1>1. /\ p \in DOMAIN nodes /\ path \in Paths \ DOMAIN tree /\ nodes[p] \in DOMAIN tree
      /\ AllocNode(path) /\ tree' = Put(tree, path, e)
      /\ \E id \in NodeOf(path) :
           /\ dentry' = Put(dentry, <<p, n>>, [id |-> id, ino |-> inos'])
           /\ AllocFh(inos', id)
      /\ UNCHANGED <<readOnly, data, listing>>
  BY DEF Create, IsDir
<1>2. path \in Path
  BY <1>0, <1>1, ShareTypes, EntryDef
<1> HIDE DEF path
<1>3. DOMAIN fds' \subseteq 1..MaxFh /\ nextFh' \in Nat \ {0}
  BY <1>0, <1>1, AllocFhFacts
<1>4. /\ DOMAIN nodes' \subseteq 1..MaxNode /\ Range(nodes)' \subseteq Seq(Name)
      /\ NodesInjective' /\ Unused' /\ DOMAIN nodes \subseteq DOMAIN nodes'
      /\ \A id \in DOMAIN nodes : nodes'[id] = nodes[id]
  BY <1>0, <1>1, <1>2, <1>3, AllocNodeFacts
<1>5. PICK id \in DOMAIN nodes' :
        /\ nodes'[id] = path
        /\ dentry' = Put(dentry, <<p, n>>, [id |-> id, ino |-> inos'])
  BY <1>1 DEF NodeOf
<1>6. e.ino = inos' /\ path = Join(nodes[p], n)
  BY DEF path
<1> HIDE DEF e
<1>7. /\ DOMAIN tree' \subseteq Paths /\ TreeClosed'
      /\ DOMAIN tree \subseteq DOMAIN tree' /\ path \in DOMAIN tree'
      /\ \A x \in DOMAIN tree : tree'[x] = tree[x]
      /\ tree'[path] = e
  BY <1>0, <1>1, <1>6, NewEntry
<1>8. DentriesReachFiles' /\ DOMAIN dentry' \subseteq Keys
  BY <1>0, <1>1, <1>4, <1>5, <1>6, <1>7, NewDentry
<1>9. FSTypeOK'
  BY <1>0, <1>1, <1>3, <1>4, <1>7, <1>8 DEF FSTypeOK
<1> QED
  BY <1>4, <1>7, <1>8, <1>9 DEF ShareInv, ShareSafe

\* Creating a directory.
LEMMA MkdirStep ==
  ASSUME ShareInv, NEW p \in Held, NEW n \in Name, Mkdir(p, n)
  PROVE  ShareInv'
<1> DEFINE path == Join(nodes[p], n)
           e == [ino |-> inos', dir |-> TRUE]
<1>0. FSTypeOK /\ NodesInjective /\ DentriesReachFiles /\ Unused /\ TreeClosed
  BY DEF ShareInv, ShareSafe
<1>1. /\ p \in DOMAIN nodes /\ path \in Paths \ DOMAIN tree /\ nodes[p] \in DOMAIN tree
      /\ AllocNode(path) /\ tree' = Put(tree, path, e)
      /\ \E id \in NodeOf(path) : dentry' = Put(dentry, <<p, n>>, [id |-> id, ino |-> inos'])
      /\ UNCHANGED <<readOnly, data, fds, nextFh, listing>>
  BY DEF Mkdir, IsDir
<1>2. path \in Path
  BY <1>0, <1>1, ShareTypes, EntryDef
<1> HIDE DEF path
<1>3. DOMAIN fds' \subseteq 1..MaxFh /\ nextFh' \in Nat \ {0}
  BY <1>0, <1>1 DEF FSTypeOK, Unused
<1>4. /\ DOMAIN nodes' \subseteq 1..MaxNode /\ Range(nodes)' \subseteq Seq(Name)
      /\ NodesInjective' /\ Unused' /\ DOMAIN nodes \subseteq DOMAIN nodes'
      /\ \A id \in DOMAIN nodes : nodes'[id] = nodes[id]
  BY <1>0, <1>1, <1>2, <1>3, AllocNodeFacts
<1>5. PICK id \in DOMAIN nodes' :
        /\ nodes'[id] = path
        /\ dentry' = Put(dentry, <<p, n>>, [id |-> id, ino |-> inos'])
  BY <1>1 DEF NodeOf
<1>6. e.ino = inos' /\ path = Join(nodes[p], n)
  BY DEF path
<1> HIDE DEF e
<1>7. /\ DOMAIN tree' \subseteq Paths /\ TreeClosed'
      /\ DOMAIN tree \subseteq DOMAIN tree' /\ path \in DOMAIN tree'
      /\ \A x \in DOMAIN tree : tree'[x] = tree[x]
      /\ tree'[path] = e
  BY <1>0, <1>1, <1>6, NewEntry
<1>8. DentriesReachFiles' /\ DOMAIN dentry' \subseteq Keys
  BY <1>0, <1>1, <1>4, <1>5, <1>6, <1>7, NewDentry
<1>9. FSTypeOK'
  BY <1>0, <1>1, <1>3, <1>4, <1>7, <1>8 DEF FSTypeOK
<1> QED
  BY <1>4, <1>7, <1>8, <1>9 DEF ShareInv, ShareSafe

\* Two names that lead to the same path are the same name of the same parent.
LEMMA OneDentry ==
  ASSUME FSTypeOK, NodesInjective, NEW k, k = <<k[1], k[2]>>, NEW m, m = <<m[1], m[2]>>,
         k[1] \in DOMAIN nodes, m[1] \in DOMAIN nodes, k[2] \in Name, m[2] \in Name,
         Join(nodes[k[1]], k[2]) = Join(nodes[m[1]], m[2])
  PROVE  k = m
<1>1. nodes[k[1]] \in Path /\ nodes[m[1]] \in Path
  BY ShareTypes
<1>2. nodes[k[1]] = nodes[m[1]] /\ k[2] = m[2]
  BY <1>1, EntryInjective
<1>3. k[1] = m[1]
  BY <1>2 DEF NodesInjective, IsInjective
<1> QED
  BY <1>2, <1>3

\* Removing a file or an empty directory: only its own dentry leads there.
LEMMA UnlinkStep ==
  ASSUME ShareInv, NEW k \in DOMAIN dentry, Unlink(k)
  PROVE  ShareInv'
<1> DEFINE path == Join(nodes[k[1]], k[2])
<1>0. FSTypeOK /\ NodesInjective /\ DentriesReachFiles /\ Unused /\ TreeClosed
  BY DEF ShareInv, ShareSafe
<1>1. /\ k[1] \in DOMAIN nodes /\ path \in DOMAIN tree /\ Children(path) = {}
      /\ tree' = [p \in DOMAIN tree \ {path} |-> tree[p]]
      /\ dentry' = Forgotten(Cut({k}))
      /\ UNCHANGED <<readOnly, data, inos, nodes, nextNode, fds, nextFh, listing>>
  BY DEF Unlink
<1>2. path = Join(nodes[k[1]], k[2]) /\ path \in Path
  BY <1>0, <1>1, ShareTypes
<1> HIDE DEF path
<1>3. FSTypeOK'
  BY <1>0, <1>1 DEF FSTypeOK, Forgotten
<1>4. NodesInjective' /\ Unused'
  BY <1>0, <1>1 DEF NodesInjective, Unused
<1>5. TreeClosed'
  <2>1. ASSUME NEW y \in DOMAIN tree', NEW x \in Path, Under(y, x)
        PROVE  x \in DOMAIN tree'
    <3>1. y \in DOMAIN tree /\ y # path
      BY <1>1
    <3>2. x \in DOMAIN tree
      BY <1>0, <2>1, <3>1 DEF TreeClosed
    <3>3. x # path
      BY <1>0, <1>1, <1>2, <2>1, <3>1, NothingBelow
    <3> QED
      BY <1>1, <3>2, <3>3
  <2> QED
    BY <2>1 DEF TreeClosed, Under
<1>6. DentriesReachFiles'
  <2>1. ASSUME NEW m \in DOMAIN dentry'
        PROVE  /\ dentry'[m].id \in DOMAIN nodes' /\ m[1] \in DOMAIN nodes'
               /\ nodes'[dentry'[m].id] = Join(nodes'[m[1]], m[2])
               /\ nodes'[dentry'[m].id] \in DOMAIN tree'
               /\ tree'[nodes'[dentry'[m].id]].ino = dentry'[m].ino
    <3>1. m \in DOMAIN dentry /\ m # k /\ dentry'[m] = dentry[m]
      BY <1>1 DEF Forgotten, Cut
    <3>2. /\ dentry[m].id \in DOMAIN nodes /\ m[1] \in DOMAIN nodes
          /\ nodes[dentry[m].id] = Join(nodes[m[1]], m[2])
          /\ nodes[dentry[m].id] \in DOMAIN tree /\ tree[nodes[dentry[m].id]].ino = dentry[m].ino
      BY <1>0, <3>1 DEF DentriesReachFiles
    <3>3. Join(nodes[m[1]], m[2]) # path
      BY <1>0, <1>1, <1>2, <3>1, <3>2, ShareTypes, OneDentry
    <3> QED
      BY <1>1, <3>1, <3>2, <3>3
  <2> QED
    BY <2>1 DEF DentriesReachFiles
<1> QED
  BY <1>3, <1>4, <1>5, <1>6 DEF ShareInv, ShareSafe

\* Forgetting a dentry.
LEMMA ForgetStep ==
  ASSUME ShareInv, NEW k \in DOMAIN dentry, Forget(k)
  PROVE  ShareInv'
<1>0. FSTypeOK /\ NodesInjective /\ DentriesReachFiles /\ Unused /\ TreeClosed
  BY DEF ShareInv, ShareSafe
<1>1. /\ dentry' = Forgotten(Cut({k}))
      /\ UNCHANGED <<readOnly, tree, data, inos, nodes, nextNode, fds, nextFh, listing>>
  BY DEF Forget
<1>2. FSTypeOK' /\ NodesInjective' /\ Unused' /\ TreeClosed'
  BY <1>0, <1>1 DEF FSTypeOK, NodesInjective, Unused, TreeClosed, Forgotten
<1>3. \A m \in DOMAIN dentry' : m \in DOMAIN dentry /\ dentry'[m] = dentry[m]
  BY <1>1 DEF Forgotten
<1>4. DentriesReachFiles'
  BY <1>0, <1>1, <1>3, ZenonT(40) DEF DentriesReachFiles
<1> QED
  BY <1>2, <1>4 DEF ShareInv, ShareSafe

\* The requests that leave the tree, the nodes and the dentries alone.
LEMMA OpenFileStep ==
  ASSUME ShareInv,
         \/ \E id \in Held, trunc \in BOOLEAN : Open(id, trunc)
         \/ \E id \in Held : Truncate(id)
         \/ \E fh \in DOMAIN fds : Write(fh) \/ Release(fh) \/ Readdir(fh)
  PROVE  ShareInv'
<1>0. FSTypeOK /\ NodesInjective /\ DentriesReachFiles /\ Unused /\ TreeClosed
  BY DEF ShareInv, ShareSafe
<1> DEFINE Kept ==
      /\ UNCHANGED <<readOnly, tree, nodes, nextNode, dentry>>
      /\ data' \in BOOLEAN /\ DOMAIN fds' \subseteq 1..MaxFh /\ nextFh' \in Nat \ {0}
<1>1. Kept
  <2>1. ASSUME NEW id \in Held, NEW trunc \in BOOLEAN, Open(id, trunc) PROVE Kept
    <3>1. DOMAIN fds' \subseteq 1..MaxFh /\ nextFh' \in Nat \ {0}
      BY <1>0, <2>1, AllocFhFacts DEF Open
    <3>2. data' \in BOOLEAN
      BY <2>1, Zenon DEF Open
    <3> QED
      BY <2>1, <3>1, <3>2 DEF Open
  <2>2. ASSUME NEW id \in Held, Truncate(id) PROVE Kept
    <3>1. data' \in BOOLEAN
      BY <2>2, Zenon DEF Truncate
    <3> QED
      BY <1>0, <2>2, <3>1 DEF Truncate, FSTypeOK, Unused
  <2>3. ASSUME NEW fh \in DOMAIN fds, Write(fh) PROVE Kept
    <3>1. data' \in BOOLEAN
      BY <2>3, Zenon DEF Write
    <3> QED
      BY <1>0, <2>3, <3>1 DEF Write, FSTypeOK, Unused
  <2>4. ASSUME NEW fh \in DOMAIN fds, Release(fh) PROVE Kept
    BY <1>0, <2>4 DEF Release, FSTypeOK, Unused
  <2>5. ASSUME NEW fh \in DOMAIN fds, Readdir(fh) PROVE Kept
    <3>1. /\ fds' = [fds EXCEPT ![fh].used = TRUE]
          /\ UNCHANGED <<readOnly, tree, data, inos, nodes, nextNode, nextFh, dentry>>
      BY <2>5 DEF Readdir
    <3> QED
      BY <1>0, <3>1 DEF FSTypeOK, Unused
  <2> QED
    BY <2>1, <2>2, <2>3, <2>4, <2>5
<1>2. FSTypeOK' /\ NodesInjective' /\ Unused' /\ TreeClosed' /\ DentriesReachFiles'
  BY <1>0, <1>1 DEF FSTypeOK, NodesInjective, Unused, TreeClosed, DentriesReachFiles
<1> QED
  BY <1>2 DEF ShareInv, ShareSafe

\* Renaming: the files, the nodes and the dentries below the old path move
\* together, and nothing else named what was at the new one.
LEMMA RenameStep ==
  ASSUME ShareInv, NEW k \in DOMAIN dentry, NEW j \in Held \X Name, Rename(k, j)
  PROVE  ShareInv'
<1> DEFINE old == Join(nodes[k[1]], k[2])
           new == Join(nodes[j[1]], j[2])
           gone == DOMAIN tree \ {p \in DOMAIN tree : Under(p, new)}
           moved == {p \in gone : Under(p, old)}
           kept == {id \in DOMAIN nodes : ~(Under(nodes[id], new) /\ ~Under(nodes[id], old))}
<1>0. FSTypeOK /\ NodesInjective /\ DentriesReachFiles /\ Unused /\ TreeClosed
  BY DEF ShareInv, ShareSafe
<1>1. /\ k[1] \in DOMAIN nodes /\ j[1] \in DOMAIN nodes
      /\ old \in DOMAIN tree /\ ~Under(new, old) /\ nodes[j[1]] \in DOMAIN tree
      /\ new \in DOMAIN tree => Children(new) = {}
      /\ \A p \in DOMAIN tree : Under(p, old) => Rebase(p, old, new) \in Paths
      /\ k # j
  BY DEF Rename, IsDir
<1>2. tree' = [p \in (gone \ moved) \cup {Rebase(q, old, new) : q \in moved} |->
                 IF Under(p, new) THEN tree[Rebase(p, new, old)] ELSE tree[p]]
  BY DEF Rename
<1>3. nodes' = [id \in kept |-> IF Under(nodes[id], old) THEN Rebase(nodes[id], old, new)
                                                         ELSE nodes[id]]
  BY DEF Rename, RenameNodes
<1>4. /\ dentry' = Put(Forgotten(Cut({j} \cap DOMAIN dentry) \cup {k}), j, dentry[k])
      /\ UNCHANGED <<readOnly, data, inos, nextNode, fds, nextFh, listing>>
  BY DEF Rename
<1>5. /\ old = Join(nodes[k[1]], k[2]) /\ new = Join(nodes[j[1]], j[2])
      /\ j = <<j[1], j[2]>> /\ j[2] \in Name /\ k = <<k[1], k[2]>> /\ k[2] \in Name
      /\ nodes[j[1]] \in Path /\ nodes[k[1]] \in Path /\ j \in Keys
  BY <1>0, <1>1, ShareTypes DEF Keys
<1>6. old \in Path /\ new \in Path
  BY <1>5, EntryDef
<1> HIDE DEF old, new
<1>7. \A y \in DOMAIN tree : y \in Path
  BY <1>0, ShareTypes
\* Nothing in the tree is strictly below the target.
<1>8. ASSUME NEW y \in DOMAIN tree, Under(y, new) PROVE y = new
  <2>1. new \in DOMAIN tree
    BY <1>0, <1>6, <1>8 DEF TreeClosed
  <2> QED
    BY <1>0, <1>1, <1>6, <1>8, <2>1, NothingBelow
<1>9. ~Under(old, new)
  BY <1>1, <1>6, <1>8, UnderOrder
<1>10. \A y \in gone : y \in DOMAIN tree /\ y \in Path /\ ~Under(y, new)
  BY <1>7
<1>11. \A y \in DOMAIN tree : Under(y, old) => y \in moved
  BY <1>1, <1>6, <1>7, <1>8, UnderOrder
\* What moves is found where it moved to.
<1>12. ASSUME NEW q \in moved
       PROVE  /\ Rebase(q, old, new) \in Path /\ Under(Rebase(q, old, new), new)
              /\ Rebase(q, old, new) \in DOMAIN tree'
              /\ tree'[Rebase(q, old, new)] = tree[q]
  <2> DEFINE r == Rebase(q, old, new)
  <2>1. r \in Path /\ Under(r, new) /\ Rebase(r, new, old) = q
    BY <1>6, <1>10, RebaseMoves
  <2>2. r \in DOMAIN tree'
    BY <1>2
  <2> HIDE DEF r
  <2>3. tree'[r] = tree[q]
    BY <1>2, <2>1, <2>2
  <2> QED
    BY <2>1, <2>2, <2>3 DEF r
<1>13. ASSUME NEW y \in gone \ moved PROVE y \in DOMAIN tree' /\ tree'[y] = tree[y]
  BY <1>2, <1>10
<1>14. /\ DOMAIN nodes' = kept
       /\ \A id \in kept : nodes'[id] = IF Under(nodes[id], old)
                                        THEN Rebase(nodes[id], old, new) ELSE nodes[id]
  BY <1>3
<1>15. \A id \in DOMAIN nodes : nodes[id] \in Path
  BY <1>0, ShareTypes
<1>16. \A id \in kept : Under(nodes[id], old) \/ ~Under(nodes[id], new)
  OBVIOUS
<1>17. kept \subseteq DOMAIN nodes
  OBVIOUS
<1>18. DOMAIN tree' = (gone \ moved) \cup {Rebase(q, old, new) : q \in moved}
  BY <1>2
<1> HIDE DEF kept
<1>19. NodesInjective'
  <2>1. ASSUME NEW x \in kept, NEW y \in kept, nodes'[x] = nodes'[y] PROVE x = y
    <3>1. nodes[x] \in Path /\ nodes[y] \in Path
      BY <1>15, <1>17
    <3>2. CASE Under(nodes[x], old) /\ Under(nodes[y], old)
      <4>1. Rebase(nodes[x], old, new) = Rebase(nodes[y], old, new)
        BY <1>14, <2>1, <3>2
      <4>2. nodes[x] = nodes[y]
        BY <1>6, <3>1, <3>2, <4>1, RebaseMoves
      <4> QED
        BY <1>0, <1>17, <4>2 DEF NodesInjective, IsInjective
    <3>3. CASE Under(nodes[x], old) /\ ~Under(nodes[y], old)
      BY <1>6, <1>14, <1>16, <2>1, <3>1, <3>3, RebaseMoves
    <3>4. CASE ~Under(nodes[x], old) /\ Under(nodes[y], old)
      BY <1>6, <1>14, <1>16, <2>1, <3>1, <3>4, RebaseMoves
    <3>5. CASE ~Under(nodes[x], old) /\ ~Under(nodes[y], old)
      BY <1>0, <1>14, <1>17, <2>1, <3>5 DEF NodesInjective, IsInjective
    <3> QED
      BY <3>2, <3>3, <3>4, <3>5
  <2> QED
    BY <1>14, <2>1 DEF NodesInjective, IsInjective
<1>20. ASSUME NEW id \in kept PROVE nodes'[id] \in Path
  BY <1>6, <1>14, <1>15, <1>17, RebaseMoves
<1>21. TreeClosed'
  <2>1. ASSUME NEW y \in DOMAIN tree', NEW x \in Path, Under(y, x)
        PROVE  x \in DOMAIN tree'
    <3>1. CASE y \in gone \ moved
      <4>1. x \in DOMAIN tree
        BY <1>0, <1>10, <2>1, <3>1 DEF TreeClosed
      <4>2. ~Under(x, new) /\ ~Under(x, old)
        BY <1>6, <1>10, <2>1, <3>1, UnderOrder
      <4>3. x \in gone \ moved
        BY <4>1, <4>2
      <4> QED
        BY <1>13, <4>3
    <3>2. ASSUME NEW q \in moved, y = Rebase(q, old, new) PROVE x \in DOMAIN tree'
      <4>1. y \in Path /\ Under(y, new) /\ Rebase(y, new, old) = q
        BY <1>6, <1>10, <3>2, RebaseMoves
      <4>2. Under(x, new) \/ Under(new, x)
        BY <1>6, <2>1, <4>1, UnderOrder
      <4>3. CASE Under(x, new)
        <5> DEFINE w == Rebase(x, new, old)
        <5>1. w \in Path /\ Under(w, old) /\ Rebase(w, old, new) = x /\ Under(q, w)
          BY <1>6, <2>1, <4>1, <4>3, RebaseMoves, RebaseOrder
        <5> HIDE DEF w
        <5>2. w \in DOMAIN tree
          BY <1>0, <1>10, <3>2, <5>1 DEF TreeClosed
        <5>3. w \in moved
          BY <1>11, <5>1, <5>2
        <5> QED
          BY <1>12, <5>1, <5>3
      <4>4. CASE Under(new, x) /\ ~Under(x, new)
        <5>1. Under(nodes[j[1]], x)
          BY <1>5, <1>6, <4>4, UnderEntry, UnderOrder
        <5>2. x \in DOMAIN tree
          BY <1>0, <1>1, <5>1 DEF TreeClosed
        <5>3. ~Under(x, old)
          BY <1>1, <1>6, <4>4, UnderOrder
        <5>4. x \in gone \ moved
          BY <4>4, <5>2, <5>3
        <5> QED
          BY <1>13, <5>4
      <4> QED
        BY <4>2, <4>3, <4>4
    <3> QED
      BY <1>18, <3>1, <3>2
  <2> QED
    BY <2>1 DEF TreeClosed, Under
<1>22. DentriesReachFiles' /\ DOMAIN dentry' \subseteq Keys
  <2>1. /\ j \in DOMAIN dentry' /\ dentry'[j] = dentry[k]
        /\ \A m \in DOMAIN dentry' : m # j => m \in DOMAIN dentry /\ m # k /\ dentry'[m] = dentry[m]
    BY <1>4 DEF Put, Forgotten, Cut
  <2>2. \A m \in DOMAIN dentry :
          /\ dentry[m].id \in DOMAIN nodes /\ m[1] \in DOMAIN nodes
          /\ nodes[dentry[m].id] = Join(nodes[m[1]], m[2])
          /\ nodes[dentry[m].id] \in DOMAIN tree /\ tree[nodes[dentry[m].id]].ino = dentry[m].ino
    BY <1>0 DEF DentriesReachFiles
  <2> DEFINE Good(m) ==
        /\ dentry'[m].id \in DOMAIN nodes' /\ m[1] \in DOMAIN nodes'
        /\ nodes'[dentry'[m].id] = Join(nodes'[m[1]], m[2])
        /\ nodes'[dentry'[m].id] \in DOMAIN tree'
        /\ tree'[nodes'[dentry'[m].id]].ino = dentry'[m].ino
  <2>3. Good(j)
    <3> DEFINE i == dentry[k].id
    <3>1. nodes[i] = old /\ i \in DOMAIN nodes /\ tree[old].ino = dentry[k].ino
      BY <1>5, <2>2
    <3>2. i \in kept /\ nodes'[i] = new
      BY <1>6, <1>14, <3>1, UnderOrder, RebaseMoves DEF kept
    <3>3. ~Under(nodes[j[1]], old) /\ ~Under(nodes[j[1]], new)
      BY <1>1, <1>5, <1>6, UnderEntry
    <3>4. j[1] \in kept /\ nodes'[j[1]] = nodes[j[1]]
      BY <1>1, <1>14, <3>3 DEF kept
    <3>5. old \in moved /\ Rebase(old, old, new) = new
      BY <1>1, <1>6, <1>11, UnderOrder, RebaseMoves
    <3>6. new \in DOMAIN tree' /\ tree'[new] = tree[old]
      BY <1>12, <3>5
    <3> QED
      BY <1>5, <1>14, <2>1, <3>1, <3>2, <3>4, <3>6
  <2>4. ASSUME NEW m \in DOMAIN dentry', m # j PROVE Good(m)
    <3> DEFINE i == dentry[m].id
               x == Join(nodes[m[1]], m[2])
    <3>1. /\ m \in DOMAIN dentry /\ m # k /\ dentry'[m] = dentry[m]
          /\ m = <<m[1], m[2]>> /\ m[2] \in Name
      BY <1>0, <2>1, <2>4, ShareTypes
    <3>2. /\ i \in DOMAIN nodes /\ m[1] \in DOMAIN nodes /\ nodes[i] = x
          /\ x \in DOMAIN tree /\ tree[x].ino = dentry'[m].ino /\ dentry'[m].id = i
      BY <2>2, <3>1
    <3>3. x # old /\ x # new
      BY <1>0, <1>1, <1>5, <2>4, <3>1, <3>2, OneDentry
    <3>4. /\ nodes[m[1]] \in Path /\ x \in Path
          /\ Under(x, old) <=> Under(nodes[m[1]], old)
          /\ Under(nodes[m[1]], new) => Under(x, new)
      <4>1. nodes[m[1]] \in Path
        BY <1>15, <3>2
      <4>2. x \in Path
        BY <3>1, <4>1, EntryDef
      <4>3. \A y \in Path : Under(x, y) <=> Under(nodes[m[1]], y) \/ y = x
        BY <3>1, <4>1, UnderEntry
      <4> QED
        BY <1>6, <3>3, <4>1, <4>2, <4>3
    <3>5. ~Under(x, new) /\ ~Under(nodes[m[1]], new)
      BY <1>8, <3>2, <3>3, <3>4
    <3>6. i \in kept /\ m[1] \in kept
      BY <3>2, <3>5 DEF kept
    <3>7. CASE Under(x, old)
      <4>1. /\ nodes'[i] = Rebase(x, old, new)
            /\ nodes'[m[1]] = Rebase(nodes[m[1]], old, new)
        BY <1>14, <3>2, <3>4, <3>6, <3>7
      <4>2. nodes'[i] = Join(nodes'[m[1]], m[2])
        BY <1>6, <3>1, <3>4, <3>7, <4>1, RebaseKeeps
      <4>3. x \in moved
        BY <1>11, <3>2, <3>7
      <4>4. nodes'[i] \in DOMAIN tree' /\ tree'[nodes'[i]] = tree[x]
        BY <1>12, <4>1, <4>3
      <4> QED
        BY <1>14, <3>2, <3>6, <4>2, <4>4
    <3>8. CASE ~Under(x, old)
      <4>1. nodes'[i] = x /\ nodes'[m[1]] = nodes[m[1]]
        BY <1>14, <3>2, <3>4, <3>6, <3>8
      <4>2. x \in gone \ moved
        BY <3>2, <3>5, <3>8
      <4> QED
        BY <1>13, <1>14, <3>2, <3>6, <4>1, <4>2
    <3> QED
      BY <3>7, <3>8
  <2>5. DOMAIN dentry' \subseteq Keys
    BY <1>0, <1>5, <2>1 DEF FSTypeOK
  <2> QED
    BY <2>3, <2>4, <2>5 DEF DentriesReachFiles
<1>23. FSTypeOK'
  <2>1. DOMAIN tree' \subseteq Paths
    BY <1>0, <1>1, <1>10, <1>18 DEF FSTypeOK
  <2>2. Range(nodes)' \subseteq Seq(Name) /\ DOMAIN nodes' \subseteq 1..MaxNode
    BY <1>0, <1>14, <1>17, <1>20 DEF FSTypeOK, Range, Path
  <2> QED
    BY <1>0, <1>4, <1>22, <2>1, <2>2 DEF FSTypeOK
<1>24. Unused'
  BY <1>0, <1>4, <1>14, <1>17 DEF Unused
<1> QED
  BY <1>19, <1>21, <1>22, <1>23, <1>24 DEF ShareInv, ShareSafe

\* Exchanging two entries: one permutation of the paths moves the files, the
\* nodes and the dentries.
LEMMA ExchangeStep ==
  ASSUME ShareInv, NEW k \in DOMAIN dentry, NEW j \in DOMAIN dentry, Exchange(k, j)
  PROVE  ShareInv'
<1> DEFINE a == Join(nodes[k[1]], k[2])
           b == Join(nodes[j[1]], j[2])
           To(p) == IF Under(p, a) THEN Rebase(p, a, b)
                    ELSE IF Under(p, b) THEN Rebase(p, b, a) ELSE p
<1>0. FSTypeOK /\ NodesInjective /\ DentriesReachFiles /\ Unused /\ TreeClosed
  BY DEF ShareInv, ShareSafe
<1>1. /\ k[1] \in DOMAIN nodes /\ j[1] \in DOMAIN nodes
      /\ a \in DOMAIN tree /\ b \in DOMAIN tree /\ ~Under(a, b) /\ ~Under(b, a)
      /\ \A p \in DOMAIN tree : To(p) \in Paths
      /\ tree' = [p \in {To(q) : q \in DOMAIN tree} |-> tree[To(p)]]
  BY DEF Exchange
<1>2. nodes' = [id \in DOMAIN nodes |-> To(nodes[id])]
  BY DEF Exchange, SwapNodes
<1>3. /\ dentry' = [dentry EXCEPT ![k] = dentry[j], ![j] = dentry[k]]
      /\ UNCHANGED <<readOnly, data, inos, nextNode, fds, nextFh, listing>>
  BY DEF Exchange
<1>4. /\ a = Join(nodes[k[1]], k[2]) /\ b = Join(nodes[j[1]], j[2])
      /\ j = <<j[1], j[2]>> /\ j[2] \in Name /\ k = <<k[1], k[2]>> /\ k[2] \in Name
      /\ nodes[j[1]] \in Path /\ nodes[k[1]] \in Path
  BY <1>0, <1>1, ShareTypes
<1>5. a \in Path /\ b \in Path
  BY <1>4, EntryDef
<1> HIDE DEF a, b
<1>6. \A p \in Path : ~(Under(p, a) /\ Under(p, b))
  BY <1>1, <1>5, UnderOrder
\* What the permutation does, without regard to which entry is which.
<1>7. /\ \A p \in Path, c, d \in {a, b} : c # d /\ Under(p, c) => To(p) = Rebase(p, c, d)
      /\ \A p \in Path : ~Under(p, a) /\ ~Under(p, b) => To(p) = p
  BY <1>6
<1> HIDE DEF To
<1>8. ASSUME NEW p \in Path, NEW c \in {a, b}, NEW d \in {a, b}, c # d, Under(p, c)
      PROVE  /\ To(p) = Rebase(p, c, d) /\ To(p) \in Path /\ Under(To(p), d)
             /\ Rebase(To(p), d, c) = p /\ To(To(p)) = p
  BY <1>5, <1>7, <1>8, RebaseMoves
<1>9. ASSUME NEW p \in Path PROVE To(p) \in Path /\ To(To(p)) = p
  <2>1. a # b
    BY <1>1, <1>5, UnderOrder
  <2>2. CASE Under(p, a)
    BY <1>8, <2>1, <2>2
  <2>3. CASE Under(p, b)
    BY <1>8, <2>1, <2>3
  <2>4. CASE ~Under(p, a) /\ ~Under(p, b)
    BY <1>7, <2>4
  <2> QED
    BY <2>2, <2>3, <2>4
<1>10. a # b /\ Under(a, a) /\ Under(b, b) /\ k # j
  BY <1>1, <1>4, <1>5, UnderOrder
<1>11. To(a) = b /\ To(b) = a
  BY <1>5, <1>8, <1>10, RebaseMoves
<1>12. \A y \in DOMAIN tree : y \in Path
  BY <1>0, ShareTypes
<1>13. ASSUME NEW y \in DOMAIN tree PROVE To(y) \in DOMAIN tree' /\ tree'[To(y)] = tree[y]
  <2>1. To(y) \in DOMAIN tree'
    BY <1>1
  <2>2. tree'[To(y)] = tree[To(To(y))]
    BY <1>1, <2>1
  <2> QED
    BY <1>9, <1>12, <2>1, <2>2
<1>14. DOMAIN tree' = {To(q) : q \in DOMAIN tree}
  BY <1>1
<1>15. \A id \in DOMAIN nodes : nodes[id] \in Path
  BY <1>0, ShareTypes
<1>16. DOMAIN nodes' = DOMAIN nodes /\ \A id \in DOMAIN nodes : nodes'[id] = To(nodes[id])
  BY <1>2
<1>17. NodesInjective'
  <2>1. ASSUME NEW x \in DOMAIN nodes, NEW y \in DOMAIN nodes, nodes'[x] = nodes'[y]
        PROVE  x = y
    <3>1. nodes[x] = nodes[y]
      BY <1>9, <1>15, <1>16, <2>1
    <3> QED
      BY <1>0, <3>1 DEF NodesInjective, IsInjective
  <2> QED
    BY <1>16, <2>1 DEF NodesInjective, IsInjective
\* An entry that is not exchanged itself moves with its directory.
<1>18. ASSUME NEW x \in Path, NEW n \in Name, Join(x, n) # a, Join(x, n) # b
       PROVE  To(Join(x, n)) = Join(To(x), n)
  <2>1. Join(x, n) \in Path
    BY EntryDef
  <2>2. \A c \in {a, b} : Under(Join(x, n), c) <=> Under(x, c)
    BY <1>5, <1>18, UnderEntry
  <2>3. ASSUME NEW c \in {a, b}, NEW d \in {a, b}, c # d, Under(x, c)
        PROVE  To(Join(x, n)) = Join(To(x), n)
    BY <1>5, <1>8, <2>1, <2>2, <2>3, RebaseKeeps
  <2>4. CASE ~Under(x, a) /\ ~Under(x, b)
    BY <1>7, <2>1, <2>2, <2>4
  <2> QED
    BY <1>10, <2>3, <2>4
<1>19. TreeClosed'
  <2>1. ASSUME NEW y \in DOMAIN tree, NEW x \in Path, Under(To(y), x)
        PROVE  x \in DOMAIN tree'
    <3>0. y \in Path /\ To(y) \in Path /\ To(x) \in Path /\ To(To(x)) = x
      BY <1>9, <1>12
    <3>1. ASSUME NEW c \in {a, b}, NEW d \in {a, b}, c # d, Under(y, c)
          PROVE  x \in DOMAIN tree'
      <4>1. c \in Path /\ d \in Path /\ c \in DOMAIN tree /\ d \in DOMAIN tree
            /\ ~Under(d, c)
        BY <1>1, <1>5, <3>1
      <4>2. Under(To(y), d) /\ Rebase(To(y), d, c) = y
        BY <1>8, <3>0, <3>1
      <4>3. CASE Under(x, d)
        <5>1. To(x) = Rebase(x, d, c)
          BY <1>8, <3>1, <4>3
        <5>2. Under(y, To(x))
          BY <2>1, <3>0, <4>1, <4>2, <4>3, <5>1, RebaseOrder
        <5>3. To(x) \in DOMAIN tree
          BY <1>0, <3>0, <5>2 DEF TreeClosed
        <5> QED
          BY <1>13, <3>0, <5>3
      <4>4. CASE ~Under(x, d)
        <5>1. Under(d, x)
          BY <2>1, <3>0, <4>1, <4>2, <4>4, UnderOrder
        <5>2. x \in DOMAIN tree
          BY <1>0, <4>1, <5>1 DEF TreeClosed
        <5>3. ~Under(x, c)
          BY <4>1, <5>1, UnderOrder
        <5>4. To(x) = x
          BY <1>7, <3>1, <4>4, <5>3
        <5> QED
          BY <1>13, <5>2, <5>4
      <4> QED
        BY <4>3, <4>4
    <3>2. CASE ~Under(y, a) /\ ~Under(y, b)
      <4>1. To(y) = y
        BY <1>7, <3>0, <3>2
      <4>2. x \in DOMAIN tree
        BY <1>0, <2>1, <4>1 DEF TreeClosed
      <4>3. ~Under(x, a) /\ ~Under(x, b)
        BY <1>5, <2>1, <3>0, <3>2, <4>1, UnderOrder
      <4> QED
        BY <1>7, <1>13, <4>2, <4>3
    <3> QED
      BY <1>10, <3>1, <3>2
  <2>2. ASSUME NEW y \in DOMAIN tree', NEW x \in Path, Under(y, x)
        PROVE  x \in DOMAIN tree'
    BY <1>14, <2>1, <2>2
  <2> QED
    BY <2>2 DEF TreeClosed, Under
<1>20. DentriesReachFiles' /\ DOMAIN dentry' \subseteq Keys
  <2>1. /\ DOMAIN dentry' = DOMAIN dentry /\ dentry'[k] = dentry[j] /\ dentry'[j] = dentry[k]
        /\ \A m \in DOMAIN dentry : m # k /\ m # j => dentry'[m] = dentry[m]
    BY <1>3, <1>10
  <2>2. \A m \in DOMAIN dentry :
          /\ dentry[m].id \in DOMAIN nodes /\ m[1] \in DOMAIN nodes
          /\ nodes[dentry[m].id] = Join(nodes[m[1]], m[2])
          /\ nodes[dentry[m].id] \in DOMAIN tree /\ tree[nodes[dentry[m].id]].ino = dentry[m].ino
    BY <1>0 DEF DentriesReachFiles
  <2> DEFINE Good(m) ==
        /\ dentry'[m].id \in DOMAIN nodes' /\ m[1] \in DOMAIN nodes'
        /\ nodes'[dentry'[m].id] = Join(nodes'[m[1]], m[2])
        /\ nodes'[dentry'[m].id] \in DOMAIN tree'
        /\ tree'[nodes'[dentry'[m].id]].ino = dentry'[m].ino
  <2>3. \A c \in {a, b} : ~Under(nodes[k[1]], c) /\ ~Under(nodes[j[1]], c)
    BY <1>1, <1>4, <1>5, UnderEntry
  <2>4. nodes'[k[1]] = nodes[k[1]] /\ nodes'[j[1]] = nodes[j[1]]
    BY <1>1, <1>4, <1>7, <1>16, <2>3
  <2>5. /\ nodes'[dentry[j].id] = a /\ nodes'[dentry[k].id] = b
        /\ a \in DOMAIN tree' /\ tree'[a] = tree[b]
        /\ b \in DOMAIN tree' /\ tree'[b] = tree[a]
    BY <1>1, <1>4, <1>11, <1>13, <1>16, <2>2
  <2>6. Good(k) /\ Good(j)
    BY <1>1, <1>4, <1>16, <2>1, <2>2, <2>4, <2>5
  <2>7. ASSUME NEW m \in DOMAIN dentry, m # k, m # j PROVE Good(m)
    <3> DEFINE x == Join(nodes[m[1]], m[2])
               i == dentry[m].id
    <3>1. /\ m = <<m[1], m[2]>> /\ m[2] \in Name /\ dentry'[m] = dentry[m]
          /\ i \in DOMAIN nodes /\ m[1] \in DOMAIN nodes /\ nodes[i] = x
          /\ x \in DOMAIN tree /\ tree[x].ino = dentry[m].ino
          /\ nodes[m[1]] \in Path
      BY <1>0, <1>15, <2>1, <2>2, <2>7, ShareTypes
    <3>2. x # a /\ x # b
      BY <1>0, <1>1, <1>4, <2>7, <3>1, OneDentry
    <3>3. To(x) = Join(To(nodes[m[1]]), m[2])
      BY <1>18, <3>1, <3>2
    <3> HIDE DEF x
    <3>4. nodes'[i] = To(x) /\ nodes'[m[1]] = To(nodes[m[1]])
      BY <1>16, <3>1
    <3>5. To(x) \in DOMAIN tree' /\ tree'[To(x)] = tree[x]
      BY <1>13, <3>1
    <3> QED
      BY <1>16, <3>1, <3>3, <3>4, <3>5
  <2>8. DOMAIN dentry' \subseteq Keys
    BY <1>0, <2>1 DEF FSTypeOK
  <2> QED
    BY <2>1, <2>6, <2>7, <2>8 DEF DentriesReachFiles
<1>21. FSTypeOK'
  <2>1. DOMAIN tree' \subseteq Paths
    BY <1>1, <1>14
  <2>2. Range(nodes)' \subseteq Seq(Name) /\ DOMAIN nodes' \subseteq 1..MaxNode
    BY <1>0, <1>9, <1>15, <1>16 DEF FSTypeOK, Range, Path
  <2> QED
    BY <1>0, <1>3, <1>20, <2>1, <2>2 DEF FSTypeOK
<1>22. Unused'
  BY <1>0, <1>3, <1>16 DEF Unused
<1> QED
  BY <1>17, <1>19, <1>20, <1>21, <1>22 DEF ShareInv, ShareSafe

\* The share starts with a root and one file.
LEMMA ShareInitial ==
  ASSUME FSInit
  PROVE  ShareInv
<1> DEFINE name == CHOOSE n \in Name : TRUE
           f == <<name>>
           e == <<>>
<1>1. name \in Name /\ MaxDepth \in Nat /\ MaxDepth >= 1 /\ MaxNode \in Nat /\ MaxNode >= 1
  BY VirtioFSAssumption
<1>2. e \in [1..0 -> Name] /\ f \in [1..1 -> Name]
  BY <1>1
<1>3. e \in Paths /\ f \in Paths /\ e \in Path /\ f \in Path
  BY <1>1, <1>2 DEF Paths, Path
<1>4. Len(e) = 0 /\ Len(f) = 1 /\ e # f
  OBVIOUS
<1>5. DOMAIN tree = {e, f} /\ nodes = [id \in {1} |-> e] /\ nextNode = 2
      /\ data = TRUE /\ fds = Empty /\ dentry = Empty /\ nextFh = 1 /\ readOnly \in ReadOnly
  BY DEF FSInit, Put, Root
<1> HIDE DEF e, f
<1>6. FSTypeOK
  BY <1>1, <1>3, <1>5 DEF FSTypeOK, Empty, Range, Path
<1>7. NodesInjective /\ DentriesReachFiles /\ Unused
  BY <1>5 DEF NodesInjective, IsInjective, DentriesReachFiles, Unused, Empty
<1>8. ASSUME NEW y \in DOMAIN tree, NEW x \in Path, Under(y, x) PROVE x \in DOMAIN tree
  <2>1. /\ Len(x) \in Nat /\ Len(x) <= Len(y)
        /\ \A i \in 1..Len(x) : y[i] = x[i]
    BY <1>3, <1>5, <1>8, UnderDef DEF Path
  <2>2. CASE Len(x) = 0
    <3>1. x = e
      BY <1>3, <1>4, <2>2, SamePath
    <3> QED
      BY <1>5, <3>1
  <2>3. CASE Len(x) = 1
    <3>1. y = f
      BY <1>4, <1>5, <2>1, <2>3
    <3>2. x = f
      BY <1>3, <1>4, <2>1, <2>3, <3>1, SamePath
    <3> QED
      BY <1>5, <3>2
  <2>4. Len(y) \in 0..1
    BY <1>4, <1>5
  <2>5. Len(x) = 0 \/ Len(x) = 1
    <3>1. ASSUME NEW u \in Nat, NEW v \in 0..1, u <= v PROVE u = 0 \/ u = 1
      BY <3>1
    <3>2. Len(x) \in Nat /\ Len(x) <= Len(y)
      BY <2>1
    <3> QED
      BY <2>4, <3>1, <3>2
  <2> QED
    BY <2>2, <2>3, <2>5
<1> QED
  BY <1>6, <1>7, <1>8 DEF ShareInv, ShareSafe, TreeClosed

\* Every request keeps the invariant.
LEMMA ShareStep ==
  ASSUME ShareInv, [FSNext]_fsVars
  PROVE  ShareInv'
<1>1. ASSUME NEW p \in Held, NEW n \in Name, Lookup(p, n) \/ Create(p, n) \/ Mkdir(p, n)
      PROVE  ShareInv'
  BY <1>1, LookupStep, CreateStep, MkdirStep
<1>2. ASSUME NEW k \in DOMAIN dentry, Forget(k) \/ Unlink(k) PROVE ShareInv'
  BY <1>2, ForgetStep, UnlinkStep
<1>3. ASSUME NEW k \in DOMAIN dentry, NEW j \in Held \X Name, Rename(k, j) PROVE ShareInv'
  BY <1>3, RenameStep
<1>4. ASSUME NEW k \in DOMAIN dentry, NEW j \in DOMAIN dentry, Exchange(k, j) PROVE ShareInv'
  BY <1>4, ExchangeStep
<1>5. CASE \/ \E id \in Held, trunc \in BOOLEAN : Open(id, trunc)
           \/ \E id \in Held : Truncate(id)
           \/ \E fh \in DOMAIN fds : Write(fh) \/ Release(fh) \/ Readdir(fh)
  BY <1>5, OpenFileStep
<1>6. CASE UNCHANGED fsVars
  BY <1>6 DEF fsVars, ShareInv, ShareSafe, FSTypeOK, NodesInjective, DentriesReachFiles,
              TreeClosed, Unused
<1> QED
  BY <1>1, <1>2, <1>3, <1>4, <1>5, <1>6 DEF FSNext

\* Whatever the guest creates, renames, exchanges and removes, two node IDs
\* never share a path and every name the guest holds leads to the file it was
\* looked up as, for any names, depth and numbers of files (virtiofs.go:
\* allocNode, renameNodesLocked, swapNodesLocked).
THEOREM ShareIsSafe == FSSpec => []ShareSafe
<1>1. FSInit => ShareInv
  BY ShareInitial
<1>2. ShareInv /\ [FSNext]_fsVars => ShareInv'
  BY ShareStep
<1>3. ShareInv => ShareSafe
  BY DEF ShareInv
<1> QED
  BY <1>1, <1>2, <1>3, PTL DEF FSSpec

\* No request changes the tree or a file of a read-only share.
LEMMA ReadOnlyStep ==
  ASSUME data \in BOOLEAN, [FSNext]_fsVars, readOnly
  PROVE  UNCHANGED <<tree, data>>
<1>1. ASSUME NEW p \in Held, NEW n \in Name, Lookup(p, n) \/ Create(p, n) \/ Mkdir(p, n)
      PROVE  UNCHANGED <<tree, data>>
  BY <1>1 DEF Lookup, Create, Mkdir
<1>2. ASSUME NEW k \in DOMAIN dentry, Forget(k) \/ Unlink(k) PROVE UNCHANGED <<tree, data>>
  BY <1>2 DEF Forget, Unlink
<1>3. ASSUME NEW k, NEW j, Rename(k, j) \/ Exchange(k, j) PROVE UNCHANGED <<tree, data>>
  BY <1>3 DEF Rename, Exchange
<1>4. ASSUME NEW id \in Held, NEW trunc \in BOOLEAN, Open(id, trunc)
      PROVE  UNCHANGED <<tree, data>>
  <2>1. data' = (data /\ ~(trunc /\ ~readOnly /\ tree[nodes[id]].ino = 1)) /\ tree' = tree
    BY <1>4 DEF Open
  <2>2. data' = data
    BY <2>1, Zenon
  <2> QED
    BY <2>1, <2>2
<1>5. ASSUME NEW id \in Held, Truncate(id) PROVE UNCHANGED <<tree, data>>
  BY <1>5 DEF Truncate
<1>6. ASSUME NEW fh \in DOMAIN fds, Write(fh) \/ Release(fh) \/ Readdir(fh)
      PROVE  UNCHANGED <<tree, data>>
  BY <1>6 DEF Write, Release, Readdir
<1>7. CASE UNCHANGED fsVars
  BY <1>7 DEF fsVars
<1> QED
  BY <1>1, <1>2, <1>3, <1>4, <1>5, <1>6, <1>7 DEF FSNext

\* A read-only share is never changed: every handler that changes the tree or
\* a file asks d.readOnly first, and handleOpen drops the flags that truncate.
THEOREM ReadOnlyIsReadOnly == FSSpec => ReadOnlyHolds
<1>1. FSInit => ShareInv
  BY ShareInitial
<1>2. ShareInv /\ [FSNext]_fsVars => ShareInv'
  BY ShareStep
<1>3. ShareInv /\ [FSNext]_fsVars => [readOnly => UNCHANGED <<tree, data>>]_fsVars
  <2>1. ShareInv => data \in BOOLEAN
    BY DEF ShareInv, ShareSafe, FSTypeOK
  <2> QED
    BY <2>1, ReadOnlyStep
<1> QED
  BY <1>1, <1>2, <1>3, PTL DEF FSSpec, ReadOnlyHolds

-----------------------------------------------------------------------------
(* Root file systems over shared images.                                   *)

RootSteps == Resting \cup {"reclaim", "clean", "check", "umount", "rmdir", "detach", "lookup", "find", "attach", "mount",
                           "overlay", "record"}
ImgName == Img \cup {"none"}
Recorded == [file : ImgName, loop : Loop]
Backed == [file : ImgName, ver : Nat, auto : BOOLEAN]
Overlays == [on : BOOLEAN, loop : Loop, shows : Backed]

\* The types of what a process knows, of what the kernel has, and the counts.
ProcTypes ==
  /\ at \in [Proc -> RootSteps] /\ goal \in [Proc -> {"start", "end"}]
  /\ back \in [Proc -> {"clean", "lookup", "idle"}] /\ down \in [Proc -> Loop]
  /\ lower \in [Proc -> ImgName] /\ held \in [Proc -> Recorded] /\ rec \in [Proc -> Recorded]
  /\ sought \in [Proc -> Nat]
KernelTypes ==
  /\ loop \in [Loop -> Backed] /\ mounted \subseteq Loop /\ mountDir \subseteq Loop
  /\ over \in [Proc -> Overlays]
CountTypes == ver \in [Img -> Nat] /\ kills \in Nat /\ met \subseteq Proc /\ crowded \in BOOLEAN

\* A loop device is free or backs an image, no newer than the file; what is
\* mounted, or under an overlay, stays attached.
LoopsBack ==
  /\ \A l \in Loop : loop[l] = NoFile \/ (loop[l].file \in Img /\ loop[l].ver <= ver[loop[l].file])
  /\ \A l \in mounted : loop[l] # NoFile
OverlaysBack ==
  \A c \in Proc : over[c].on /\ over[c].shows # NoFile =>
    /\ over[c].shows.file \in Img
    /\ loop[over[c].loop].file = over[c].shows.file /\ loop[over[c].loop].ver = over[c].shows.ver

\* What a process works on.
Asked ==
  /\ \A c \in Proc : at[c] # "idle" => lower[c] \in Img
  /\ \A c \in Proc : at[c] \in {"attach", "mount", "overlay", "record", "up"} => held[c].file = lower[c]
  /\ \A c \in Proc : at[c] \in {"record", "up"} => over[c].on /\ over[c].loop = held[c].loop
  /\ \A c \in Containers : at[c] = "up" => rec[c].file # "none" /\ rec[c].loop = over[c].loop
  /\ \A s \in Snappers : at[s] # "idle" => lower[s] \in LowersOf[s]

\* An operation that met no other is alone.
Turns ==
  /\ \A c \in Proc \ met : at[c] \notin Resting => \A d \in Proc : at[d] \notin Resting => d = c
  /\ ~crowded => met = {}

\* A start that is alone: no mount of its image is as new as what it looks for,
\* the device it found is free until it attaches it, and backs its image then.
Newer(c) == \A l \in mounted : loop[l].file = lower[c] => loop[l].ver < sought[c]
Backs(c) == loop[held[c].loop].file = lower[c] /\ loop[held[c].loop].ver >= sought[c]
AloneAt(c) ==
  /\ at[c] \in {"find", "attach", "mount"} => sought[c] <= ver[lower[c]] /\ Newer(c)
  /\ at[c] = "attach" => loop[held[c].loop] = NoFile
  /\ at[c] = "mount" => held[c].loop \notin mounted /\ Backs(c)
  /\ at[c] = "overlay" => Backs(c)
  /\ at[c] \in {"overlay", "record"} => held[c].loop \in mounted
  /\ at[c] \in {"record", "up"} =>
       over[c].shows # NoFile /\ over[c].shows.file = lower[c] /\ over[c].shows.ver >= sought[c]
Alone == \A c \in Proc \ met : AloneAt(c)

\* While operations take turns: what a snapshot merge holds is its own image, or
\* not mounted; and nobody is about to unmount what a container runs on.
MergeAt(s) ==
  at[s] \notin {"idle", "dead"} /\ held[s] # NoImage /\ held[s].loop \in mounted =>
    loop[held[s].loop].file = lower[s]
OwnMerge == ~crowded => \A s \in Snappers : MergeAt(s)
Unshared(c) == \A s \in Snappers : lower[c] \notin LowersOf[s]
Spared ==
  ~crowded => \A c \in Containers, d \in Proc :
    at[c] = "up" /\ Unshared(c) /\ at[d] = "umount" => down[d] # over[c].loop

\* When nothing was killed: an overlay belongs to one that has still to end, and
\* somebody has still to see to every device: it holds it and has its check
\* before it, it is about to unmount it, or it has done so.
Unwinding(c) == at[c] \in {"umount", "rmdir", "detach"} /\ back[c] = "clean"
Holder(c, l) ==
  /\ held[c].file # "none" /\ held[c].loop = l
  /\ at[c] \in {"mount", "overlay", "record", "up", "reclaim", "clean", "check"} \/ Unwinding(c)
Umounter(c, l) == at[c] = "umount" /\ down[c] = l
Ender(c, l) == at[c] \in {"rmdir", "detach"} /\ down[c] = l
OverlayEnds(c) ==
  /\ at[c] # "dead"
  /\ over[c].on => /\ at[c] \in {"record", "up", "reclaim", "clean"} \/ Unwinding(c)
                   /\ held[c].file # "none" /\ held[c].loop = over[c].loop
OverlaysEnd == kills = 0 => \A c \in Proc : OverlayEnds(c)
SeenTo ==
  kills = 0 =>
    /\ \A l \in mounted : \E c \in Proc : Holder(c, l) \/ Umounter(c, l)
    /\ \A l \in Loop : loop[l] # NoFile => \E c \in Proc : Holder(c, l) \/ Umounter(c, l) \/ Ender(c, l)

RootInv ==
  /\ ProcTypes /\ KernelTypes /\ CountTypes /\ LoopsBack /\ OverlaysBack /\ Asked /\ Turns /\ Alone /\ Idempotent
  /\ LiveMountKept /\ OwnMerge /\ Spared /\ OverlaysEnd /\ SeenTo

\* The constants.
LEMMA RootSizes ==
  /\ "none" \notin Img /\ Loop \subseteq Nat /\ 0 \in Loop /\ Snappers \subseteq Proc /\ FirstImg \in Img
  /\ \A c \in Proc : LowersOf[c] \subseteq Img
<1>1. /\ "none" \notin Img /\ Snappers \subseteq Proc /\ FirstImg \in Img
      /\ LowersOf \in [Proc -> SUBSET Img] /\ NLoops \in Nat /\ NLoops > 0
  BY RootfsAssumption, Zenon
<1> QED
  BY <1>1 DEF Loop

LEMMA NoFileTyped ==
  /\ NoFile \in Backed /\ NoFile.file = "none"
  /\ NoImage \in Recorded /\ NoImage.file = "none"
  /\ NoOverlay \in Overlays /\ ~NoOverlay.on
  BY RootSizes DEF NoFile, NoImage, NoOverlay, Backed, Recorded, Overlays, ImgName

\* The kernel lets go of a device only when nobody uses it.
Loosens ==
  /\ loop' \in [Loop -> Backed]
  /\ \A l \in Loop :
       \/ loop'[l] = NoFile /\ (loop[l] = NoFile \/ ~Users(l, mounted', over'))
       \/ /\ loop'[l] # NoFile /\ loop[l] # NoFile
          /\ loop'[l].file = loop[l].file /\ loop'[l].ver = loop[l].ver

LEMMA StaysLoosens ==
  ASSUME KernelTypes, UNCHANGED loop
  PROVE  Loosens
  BY DEF Loosens, KernelTypes

LEMMA SettledLoosens ==
  ASSUME KernelTypes, loop' = Settled(loop, mounted', over')
  PROVE  Loosens
<1>1. \A l \in Loop : loop'[l] = IF loop[l].auto /\ ~Users(l, mounted', over') THEN NoFile ELSE loop[l]
  BY DEF Settled
<1>2. \A l \in Loop : loop'[l] \in Backed
  BY <1>1, NoFileTyped DEF KernelTypes
<1>3. loop' \in [Loop -> Backed]
  <2>1. loop' = [l \in Loop |-> loop'[l]]
    BY DEF Settled
  <2> QED
    BY <2>1, <1>2
<1> QED
  BY <1>1, <1>3 DEF Loosens

LEMMA DetachedLoosens ==
  ASSUME KernelTypes, LoopsBack, NEW k \in Loop, loop' = Detached(k), UNCHANGED <<mounted, over>>
  PROVE  Loosens /\ (loop'[k] # NoFile => Users(k, mounted, over))
<1>1. CASE loop[k] = NoFile
  BY <1>1, StaysLoosens DEF Detached
<1>2. CASE loop[k] # NoFile
  <2>1. PICK lp : lp = [loop EXCEPT ![k].auto = TRUE]
    OBVIOUS
  <2>2. \A l \in Loop : l # k => lp[l] = loop[l]
    BY <2>1 DEF KernelTypes
  <2>3. lp[k] \in Backed /\ lp[k].file = loop[k].file /\ lp[k].ver = loop[k].ver /\ lp[k].auto
    BY <2>1 DEF KernelTypes, Backed
  <2>4. lp[k] # NoFile
    BY <1>2, <2>3, RootSizes, NoFileTyped DEF LoopsBack
  <2>5. loop' = Settled(lp, mounted, over)
    BY <1>2, <2>1 DEF Detached
  <2>6. \A l \in Loop : loop'[l] = IF lp[l].auto /\ ~Users(l, mounted, over) THEN NoFile ELSE lp[l]
    BY <2>5 DEF Settled
  <2>7. \A l \in Loop : loop'[l] \in Backed
    BY <2>2, <2>3, <2>6, NoFileTyped DEF KernelTypes
  <2>8. loop' \in [Loop -> Backed]
    <3>1. loop' = [l \in Loop |-> loop'[l]]
      BY <2>5 DEF Settled
    <3> QED
      BY <3>1, <2>7
  <2>9. loop'[k] # NoFile => Users(k, mounted, over)
    BY <2>3, <2>6
  <2>10. \A l \in Loop : Users(l, mounted, over) <=> Users(l, mounted', over')
    OBVIOUS
  <2>11. \A l \in Loop : l # k => loop'[l] = loop[l] \/ (loop'[l] = NoFile /\ ~Users(l, mounted', over'))
    BY <2>2, <2>6, <2>10
  <2>12. loop'[k] = lp[k] \/ (loop'[k] = NoFile /\ ~Users(k, mounted', over'))
    BY <2>3, <2>6, <2>10
  <2> QED
    BY <1>2, <2>3, <2>4, <2>8, <2>9, <2>11, <2>12 DEF Loosens
<1> QED
  BY <1>1, <1>2

LEMMA LoosenedLoops ==
  ASSUME KernelTypes, LoopsBack, Loosens, UNCHANGED ver, mounted' \subseteq mounted
  PROVE  LoopsBack'
<1>1. \A l \in Loop : loop'[l] = NoFile \/ (loop'[l].file \in Img /\ loop'[l].ver <= ver'[loop'[l].file])
  BY DEF Loosens, LoopsBack
<1>2. ASSUME NEW l \in mounted' PROVE loop'[l] # NoFile
  <2>1. l \in Loop /\ loop[l] # NoFile /\ Users(l, mounted', over')
    BY <1>2 DEF KernelTypes, LoopsBack, Users
  <2> QED
    BY <2>1 DEF Loosens
<1> QED
  BY <1>1, <1>2 DEF LoopsBack

LEMMA LoosenedOverlays ==
  ASSUME KernelTypes, LoopsBack, OverlaysBack, Loosens,
         \A c \in Proc : over'[c] = over[c] \/ ~over'[c].on
  PROVE  OverlaysBack'
<1> SUFFICES ASSUME NEW c \in Proc, over'[c].on, over'[c].shows # NoFile
             PROVE  /\ over'[c].shows.file \in Img
                    /\ loop'[over'[c].loop].file = over'[c].shows.file /\ loop'[over'[c].loop].ver = over'[c].shows.ver
  BY DEF OverlaysBack
<1>1. over'[c] = over[c]
  OBVIOUS
<1>2. over[c].loop \in Loop
  BY DEF KernelTypes, Overlays
<1>3. Users(over[c].loop, mounted', over')
  BY <1>1 DEF Users
<1>4. loop[over[c].loop].file \in Img
  BY <1>1 DEF OverlaysBack
<1>5. loop[over[c].loop] # NoFile
  BY <1>4, RootSizes, NoFileTyped
<1>6. loop'[over[c].loop].file = loop[over[c].loop].file /\ loop'[over[c].loop].ver = loop[over[c].loop].ver
  BY <1>2, <1>3, <1>5 DEF Loosens
<1> QED
  BY <1>1, <1>6 DEF OverlaysBack

\* A step is of one process, and leaves alone what is another's.
Rests(d) ==
  /\ at'[d] = at[d] /\ goal'[d] = goal[d] /\ back'[d] = back[d] /\ down'[d] = down[d] /\ lower'[d] = lower[d]
  /\ held'[d] = held[d] /\ rec'[d] = rec[d] /\ sought'[d] = sought[d] /\ over'[d] = over[d]
Acts(c) ==
  \/ \E i \in Img : FreshRun(c, i) \/ SnapshotMerge(c, i)
  \/ \E g \in {"start", "end"} : FromRecord(c, g)
  \/ Ended(c) \/ Reclaim(c) \/ Clean(c) \/ Check(c) \/ UnmountImage(c) \/ RemoveDir(c) \/ Detach(c)
  \/ FindMounted(c) \/ FindFreeLoopDevice(c) \/ Attach(c) \/ Killed(c)
  \/ \E ok \in BOOLEAN : MountImage(c, ok) \/ MountOverlay(c, ok) \/ StoreAndStart(c, ok)

LEMMA OthersRest ==
  ASSUME ProcTypes, KernelTypes, NEW c \in Proc, Acts(c), NEW d \in Proc, d # c
  PROVE  Rests(d)
<1> USE DEF Rests, ProcTypes, KernelTypes
<1>1. ASSUME NEW i, FreshRun(c, i) PROVE Rests(d)
  BY <1>1 DEF FreshRun, Meets
<1>2. ASSUME NEW i, SnapshotMerge(c, i) PROVE Rests(d)
  BY <1>2 DEF SnapshotMerge, Meets
<1>3. ASSUME NEW g, FromRecord(c, g) PROVE Rests(d)
  BY <1>3 DEF FromRecord, Meets
<1>4. ASSUME Ended(c) PROVE Rests(d)
  BY <1>4 DEF Ended, Meets
<1>5. ASSUME Reclaim(c) PROVE Rests(d)
  BY <1>5 DEF Reclaim
<1>6. ASSUME Clean(c) PROVE Rests(d)
  BY <1>6 DEF Clean
<1>7. ASSUME Check(c) PROVE Rests(d)
  BY <1>7 DEF Check, Over
<1>8. ASSUME UnmountImage(c) PROVE Rests(d)
  BY <1>8 DEF UnmountImage
<1>9. ASSUME RemoveDir(c) PROVE Rests(d)
  BY <1>9 DEF RemoveDir
<1>10. ASSUME Detach(c) PROVE Rests(d)
  BY <1>10 DEF Detach
<1>11. ASSUME FindMounted(c) PROVE Rests(d)
  BY <1>11 DEF FindMounted, Reusable
<1>12. ASSUME FindFreeLoopDevice(c) PROVE Rests(d)
  BY <1>12 DEF FindFreeLoopDevice
<1>13. ASSUME Attach(c) PROVE Rests(d)
  BY <1>13 DEF Attach, Fails
<1>14. ASSUME Killed(c) PROVE Rests(d)
  BY <1>14 DEF Killed
<1>15. ASSUME NEW ok, MountImage(c, ok) PROVE Rests(d)
  BY <1>15 DEF MountImage, Fails
<1>16. ASSUME NEW ok, MountOverlay(c, ok) PROVE Rests(d)
  BY <1>16 DEF MountOverlay, Fails
<1>17. ASSUME NEW ok, StoreAndStart(c, ok) PROVE Rests(d)
  BY <1>17 DEF StoreAndStart
<1> QED
  BY <1>1, <1>2, <1>3, <1>4, <1>5, <1>6, <1>7, <1>8, <1>9, <1>10, <1>11, <1>12, <1>13, <1>14,
     <1>15, <1>16, <1>17 DEF Acts
Others(c) == \A d \in Proc : d # c => Rests(d)

\* What each step does to its process and to the kernel.
LEMMA FreshRunDoes ==
  ASSUME ProcTypes, KernelTypes, NEW c \in Proc, NEW i \in Img, FreshRun(c, i)
  PROVE  /\ c \in Containers
         /\ at[c] \in {"idle", "dead"}
         /\ i \in LowersOf[c]
         /\ at'[c] = "reclaim"
         /\ lower'[c] = i
         /\ held'[c] = NoImage
         /\ rec'[c] = NoImage
         /\ UNCHANGED <<back, down, loop, mounted, mountDir, over, ver, kills, sought>>
         /\ Meets(c)
         /\ Others(c)
<1>o. Others(c)
  BY OthersRest DEF Acts, Others
<1> QED
  BY <1>o DEF FreshRun, ProcTypes, KernelTypes

LEMMA SnapshotMergeDoes ==
  ASSUME ProcTypes, KernelTypes, NEW c \in Proc, NEW i \in Img, SnapshotMerge(c, i)
  PROVE  /\ c \in Snappers
         /\ at[c] \in {"idle", "dead"}
         /\ i \in LowersOf[c]
         /\ at'[c] = "lookup"
         /\ lower'[c] = i
         /\ held'[c] = NoImage
         /\ UNCHANGED <<back, down, rec, loop, mounted, mountDir, over, ver, kills, sought>>
         /\ Meets(c)
         /\ Others(c)
<1>o. Others(c)
  BY OthersRest DEF Acts, Others
<1> QED
  BY <1>o DEF SnapshotMerge, ProcTypes, KernelTypes

LEMMA FromRecordDoes ==
  ASSUME ProcTypes, KernelTypes, NEW c \in Proc, NEW g \in {"start", "end"}, FromRecord(c, g)
  PROVE  /\ c \in Containers
         /\ at[c] \in {"idle", "dead"}
         /\ at[c] = "idle" => lower[c] # "none"
         /\ at'[c] = "reclaim"
         /\ held'[c] = rec[c]
         /\ UNCHANGED <<back, down, lower, rec, loop, mounted, mountDir, over, ver, kills, sought>>
         /\ Meets(c)
         /\ Others(c)
<1>o. Others(c)
  BY OthersRest DEF Acts, Others
<1> QED
  BY <1>o DEF FromRecord, ProcTypes, KernelTypes

LEMMA EndedDoes ==
  ASSUME ProcTypes, KernelTypes, NEW c \in Proc, Ended(c)
  PROVE  /\ at[c] = "up"
         /\ at'[c] = "reclaim"
         /\ UNCHANGED <<back, down, lower, held, rec, loop, mounted, mountDir, over, ver, kills, sought>>
         /\ Meets(c)
         /\ Others(c)
<1>o. Others(c)
  BY OthersRest DEF Acts, Others
<1> QED
  BY <1>o DEF Ended, ProcTypes, KernelTypes

LEMMA ReclaimDoes ==
  ASSUME ProcTypes, KernelTypes, NEW c \in Proc, Reclaim(c)
  PROVE  /\ at[c] = "reclaim"
         /\ at'[c] = IF Stale(c) THEN "umount" ELSE "clean"
         /\ down'[c] = rec[c].loop
         /\ back'[c] = "clean"
         /\ UNCHANGED <<lower, held, rec, loop, mounted, mountDir, over, ver, kills, sought, met, crowded>>
         /\ Others(c)
<1>o. Others(c)
  BY OthersRest DEF Acts, Others
<1> QED
  BY <1>o DEF Reclaim, ProcTypes, KernelTypes

LEMMA CleanDoes ==
  ASSUME ProcTypes, KernelTypes, NEW c \in Proc, Clean(c)
  PROVE  /\ at[c] = "clean"
         /\ at'[c] = "check"
         /\ over'[c] = NoOverlay
         /\ Loosens
         /\ UNCHANGED <<back, down, lower, held, rec, mounted, mountDir, ver, kills, sought, met, crowded>>
         /\ Others(c)
<1>o. Others(c)
  BY OthersRest DEF Acts, Others
<1>1. loop' = Settled(loop, mounted', over')
  BY DEF Clean
<1>2. Loosens
  BY <1>1, SettledLoosens
<1> QED
  BY <1>o, <1>2 DEF Clean, ProcTypes, KernelTypes

LEMMA CheckDoes ==
  ASSUME ProcTypes, KernelTypes, NEW c \in Proc, Check(c)
  PROVE  /\ at[c] = "check"
         /\ down'[c] = held[c].loop
         /\ back'[c] \in {"lookup", "idle"}
         /\ \/ at'[c] = "umount" /\ (c \in Snappers \/ ~ImmutableInUse(held[c].loop))
            \/ at'[c] \in {"lookup", "idle"} /\ (held[c] = NoImage \/ ImmutableInUse(held[c].loop))
         /\ UNCHANGED <<lower, held, rec, loop, mounted, mountDir, over, ver, kills, sought, met, crowded>>
         /\ Others(c)
<1>o. Others(c)
  BY OthersRest DEF Acts, Others
<1> QED
  BY <1>o DEF Check, Over, ProcTypes, KernelTypes

LEMMA UnmountImageDoes ==
  ASSUME ProcTypes, KernelTypes, NEW c \in Proc, UnmountImage(c)
  PROVE  /\ at[c] = "umount"
         /\ at'[c] = "rmdir"
         /\ mounted' = mounted \ {down[c]}
         /\ Loosens
         /\ UNCHANGED <<back, down, lower, held, rec, mountDir, over, ver, kills, sought, met, crowded>>
         /\ Others(c)
<1>o. Others(c)
  BY OthersRest DEF Acts, Others
<1>1. loop' = Settled(loop, mounted', over')
  BY DEF UnmountImage
<1>2. Loosens
  BY <1>1, SettledLoosens
<1> QED
  BY <1>o, <1>2 DEF UnmountImage, ProcTypes, KernelTypes

LEMMA RemoveDirDoes ==
  ASSUME ProcTypes, KernelTypes, NEW c \in Proc, RemoveDir(c)
  PROVE  /\ at[c] = "rmdir"
         /\ at'[c] = "detach"
         /\ mountDir' \subseteq mountDir
         /\ UNCHANGED <<back, down, lower, held, rec, loop, mounted, over, ver, kills, sought, met, crowded>>
         /\ Others(c)
<1>o. Others(c)
  BY OthersRest DEF Acts, Others
<1> QED
  BY <1>o DEF RemoveDir, ProcTypes, KernelTypes

LEMMA DetachDoes ==
  ASSUME ProcTypes, KernelTypes, LoopsBack, NEW c \in Proc, Detach(c)
  PROVE  /\ at[c] = "detach"
         /\ at'[c] = back[c]
         /\ Loosens
         /\ loop'[down[c]] # NoFile => Users(down[c], mounted, over)
         /\ UNCHANGED <<back, down, lower, held, rec, mounted, mountDir, over, ver, kills, sought, met, crowded>>
         /\ Others(c)
<1>o. Others(c)
  BY OthersRest DEF Acts, Others
<1>1. loop' = Detached(down[c]) /\ down[c] \in Loop /\ UNCHANGED <<mounted, over>>
  BY DEF Detach, ProcTypes
<1>2. Loosens /\ (loop'[down[c]] # NoFile => Users(down[c], mounted, over))
  BY <1>1, DetachedLoosens
<1> QED
  BY <1>o, <1>2 DEF Detach, ProcTypes, KernelTypes

LEMMA FindMountedDoes ==
  ASSUME ProcTypes, KernelTypes, NEW c \in Proc, FindMounted(c)
  PROVE  /\ at[c] = "lookup"
         /\ sought'[c] = ver[lower[c]]
         /\ \/ at'[c] = "find" /\ Reusable(lower[c]) = {} /\ UNCHANGED held
            \/ at'[c] = "overlay" /\ held'[c].file = lower[c] /\ held'[c].loop \in Reusable(lower[c])
         /\ UNCHANGED <<back, down, lower, rec, loop, mounted, mountDir, over, ver, kills, met, crowded>>
         /\ Others(c)
<1>o. Others(c)
  BY OthersRest DEF Acts, Others
<1> QED
  BY <1>o DEF FindMounted, Reusable, ProcTypes, KernelTypes

LEMMA FindFreeLoopDeviceDoes ==
  ASSUME ProcTypes, KernelTypes, NEW c \in Proc, FindFreeLoopDevice(c)
  PROVE  /\ at[c] = "find"
         /\ at'[c] = "attach"
         /\ held'[c].file = lower[c]
         /\ held'[c].loop \in Loop
         /\ loop[held'[c].loop] = NoFile
         /\ UNCHANGED <<back, down, lower, rec, loop, mounted, mountDir, over, ver, kills, sought, met, crowded>>
         /\ Others(c)
<1>o. Others(c)
  BY OthersRest DEF Acts, Others
<1> QED
  BY <1>o DEF FindFreeLoopDevice, ProcTypes, KernelTypes

LEMMA AttachDoes ==
  ASSUME ProcTypes, KernelTypes, CountTypes, Asked, NEW c \in Proc, Attach(c)
  PROVE  /\ at[c] = "attach"
         /\ \/ /\ at'[c] = "mount" /\ loop[held[c].loop] = NoFile /\ loop' \in [Loop -> Backed]
               /\ loop'[held[c].loop].file = lower[c] /\ loop'[held[c].loop].ver = ver[lower[c]]
               /\ \A l \in Loop : l # held[c].loop => loop'[l] = loop[l]
            \/ at'[c] = "clean" /\ loop[held[c].loop] # NoFile /\ UNCHANGED loop
         /\ UNCHANGED <<back, down, lower, held, rec, mounted, mountDir, over, ver, kills, sought, met, crowded>>
         /\ Others(c)
<1>o. Others(c)
  BY OthersRest DEF Acts, Others
<1>0. lower[c] \in Img
  BY DEF Asked, Attach
<1>1. CASE loop[held[c].loop] = NoFile
  <2>1. PICK l : l = held[c].loop /\ l \in Loop
    BY DEF ProcTypes, Recorded
  <2>2. PICK f : f = [file |-> lower[c], ver |-> ver[lower[c]], auto |-> FALSE]
    OBVIOUS
  <2>3. f \in Backed
    BY <1>0, <2>2 DEF Backed, ImgName, CountTypes
  <2>4. loop' = [loop EXCEPT ![l] = f]
    BY <1>1, <2>1, <2>2 DEF Attach
  <2>5. loop' \in [Loop -> Backed] /\ loop'[l] = f /\ \A k \in Loop : k # l => loop'[k] = loop[k]
    BY <2>1, <2>3, <2>4 DEF KernelTypes
  <2>6. at[c] = "attach" /\ at'[c] = "mount"
    BY <1>1 DEF Attach, ProcTypes
  <2> QED
    BY <1>o, <1>1, <2>1, <2>2, <2>5, <2>6 DEF Attach
<1>2. CASE loop[held[c].loop] # NoFile
  BY <1>o, <1>2 DEF Attach, Fails, ProcTypes, KernelTypes
<1> QED
  BY <1>o, <1>1, <1>2

LEMMA KilledDoes ==
  ASSUME ProcTypes, KernelTypes, NEW c \in Proc, Killed(c)
  PROVE  /\ at[c] \notin {"idle", "dead"}
         /\ at'[c] = "dead"
         /\ held'[c] = NoImage
         /\ kills' = kills + 1
         /\ UNCHANGED <<back, down, lower, rec, loop, mounted, mountDir, over, ver, sought, met, crowded>>
         /\ Others(c)
<1>o. Others(c)
  BY OthersRest DEF Acts, Others
<1> QED
  BY <1>o DEF Killed, ProcTypes, KernelTypes

LEMMA MountImageDoes ==
  ASSUME ProcTypes, KernelTypes, LoopsBack, NEW c \in Proc, NEW ok \in BOOLEAN, MountImage(c, ok)
  PROVE  /\ at[c] = "mount"
         /\ \/ /\ at'[c] = "overlay" /\ loop[held[c].loop] # NoFile /\ mounted' = mounted \cup {held[c].loop}
               /\ UNCHANGED loop
            \/ at'[c] = "clean" /\ UNCHANGED mounted /\ Loosens
         /\ UNCHANGED <<back, down, lower, held, rec, over, ver, kills, sought, met, crowded>>
         /\ Others(c)
<1>o. Others(c)
  BY OthersRest DEF Acts, Others
<1>1. CASE ok
  BY <1>o, <1>1 DEF MountImage, ProcTypes, KernelTypes
<1>2. CASE ~ok
  <2>1. loop' = Detached(held[c].loop) /\ held[c].loop \in Loop /\ UNCHANGED <<mounted, over>>
    BY <1>2 DEF MountImage, ProcTypes, Recorded
  <2>2. Loosens
    BY <2>1, DetachedLoosens
  <2> QED
    BY <1>o, <1>2, <2>1, <2>2 DEF MountImage, Fails, ProcTypes, KernelTypes
<1> QED
  BY <1>o, <1>1, <1>2

LEMMA MountOverlayDoes ==
  ASSUME ProcTypes, KernelTypes, NEW c \in Proc, NEW ok \in BOOLEAN, MountOverlay(c, ok)
  PROVE  /\ at[c] = "overlay"
         /\ \/ /\ at'[c] = (IF c \in Snappers THEN "up" ELSE "record") /\ over'[c].on /\ over'[c].loop = held[c].loop
               /\ over'[c].shows = IF held[c].loop \in mounted THEN [loop[held[c].loop] EXCEPT !.auto = FALSE] ELSE NoFile
            \/ at'[c] = "clean" /\ UNCHANGED over
         /\ over' = [over EXCEPT ![c] = over'[c]] /\ over'[c] \in Overlays
         /\ UNCHANGED <<back, down, lower, held, rec, loop, mounted, mountDir, ver, kills, sought, met, crowded>>
         /\ Others(c)
<1>o. Others(c)
  BY OthersRest DEF Acts, Others
<1>1. CASE ok
  <2>1. PICK r : r = [on |-> TRUE, loop |-> held[c].loop,
                      shows |-> IF held[c].loop \in mounted THEN [loop[held[c].loop] EXCEPT !.auto = FALSE] ELSE NoFile]
    OBVIOUS
  <2>2. over' = [over EXCEPT ![c] = r]
    BY <1>1, <2>1 DEF MountOverlay
  <2>3. over'[c] = r
    BY <2>2 DEF KernelTypes
  <2>4. over'[c].on /\ over'[c].loop = held[c].loop
    BY <2>1, <2>3
  <2>5. over'[c].shows = IF held[c].loop \in mounted THEN [loop[held[c].loop] EXCEPT !.auto = FALSE] ELSE NoFile
    BY <2>1, <2>3
  <2>6. at[c] = "overlay" /\ at'[c] = IF c \in Snappers THEN "up" ELSE "record"
    BY <1>1 DEF MountOverlay, ProcTypes
  <2>7. held[c].loop \in Loop
    BY DEF ProcTypes, Recorded
  <2>8. [loop[held[c].loop] EXCEPT !.auto = FALSE] \in Backed
    BY <2>7 DEF KernelTypes, Backed
  <2>9. r \in Overlays
    BY <2>1, <2>7, <2>8, NoFileTyped DEF Overlays
  <2> QED
    BY <1>o, <2>9, <2>2, <2>3, <2>4, <2>5, <2>6 DEF MountOverlay
<1>2. CASE ~ok
  BY <1>o, <1>2 DEF MountOverlay, Fails, ProcTypes, KernelTypes
<1> QED
  BY <1>o, <1>1, <1>2

LEMMA StoreAndStartDoes ==
  ASSUME ProcTypes, KernelTypes, NEW c \in Proc, NEW ok \in BOOLEAN, StoreAndStart(c, ok)
  PROVE  /\ at[c] = "record"
         /\ \/ at'[c] = "up" /\ rec'[c] = held[c] /\ UNCHANGED kills
            \/ at'[c] = "dead" /\ kills' = kills + 1 /\ UNCHANGED rec
         /\ UNCHANGED <<back, down, lower, held, loop, mounted, mountDir, over, ver, sought, met, crowded>>
         /\ Others(c)
<1>o. Others(c)
  BY OthersRest DEF Acts, Others
<1> QED
  BY <1>o DEF StoreAndStart, ProcTypes, KernelTypes

\* What a process knows keeps its types.
LEMMA ProcTypesStep ==
  ASSUME RootInv, RootNext
  PROVE  ProcTypes'
<1>a. ProcTypes /\ KernelTypes /\ CountTypes /\ Asked
  BY DEF RootInv
<1>1. ASSUME NEW c \in Proc, NEW i \in Img, FreshRun(c, i) PROVE ProcTypes'
  <2>1. i \in ImgName
    BY DEF ImgName
  <2> QED
    BY <1>a, <1>1, <2>1, NoFileTyped DEF FreshRun, ProcTypes, RootSteps
<1>2. ASSUME NEW c \in Proc, NEW i \in Img, SnapshotMerge(c, i) PROVE ProcTypes'
  <2>1. i \in ImgName
    BY DEF ImgName
  <2> QED
    BY <1>a, <1>2, <2>1, NoFileTyped DEF SnapshotMerge, ProcTypes, RootSteps
<1>3. ASSUME NEW c \in Proc, NEW g \in {"start", "end"}, FromRecord(c, g) PROVE ProcTypes'
  BY <1>a, <1>3 DEF FromRecord, Meets, ProcTypes, RootSteps, Resting
<1>4. ASSUME NEW c \in Proc, Ended(c) PROVE ProcTypes'
  BY <1>a, <1>4 DEF Ended, Meets, ProcTypes, RootSteps, Resting
<1>5. ASSUME NEW c \in Proc, Reclaim(c) PROVE ProcTypes'
  <2>1. rec[c].loop \in Loop
    BY <1>a DEF ProcTypes, Recorded
  <2> QED
    BY <1>a, <1>5, <2>1 DEF Reclaim, ProcTypes, RootSteps
<1>6. ASSUME NEW c \in Proc, Clean(c) PROVE ProcTypes'
  BY <1>a, <1>6 DEF Clean, ProcTypes, RootSteps, Resting
<1>7. ASSUME NEW c \in Proc, Check(c) PROVE ProcTypes'
  <2>1. held[c].loop \in Loop
    BY <1>a DEF ProcTypes, Recorded
  <2>2. Over(c) \in {"lookup", "idle"}
    BY DEF Over
  <2>3. at' \in [Proc -> RootSteps]
    BY <1>a, <1>7, <2>2 DEF Check, ProcTypes, RootSteps, Resting
  <2> QED
    BY <1>a, <1>7, <2>1, <2>2, <2>3 DEF Check, ProcTypes
<1>8. ASSUME NEW c \in Proc, UnmountImage(c) PROVE ProcTypes'
  BY <1>a, <1>8 DEF UnmountImage, ProcTypes, RootSteps, Resting
<1>9. ASSUME NEW c \in Proc, RemoveDir(c) PROVE ProcTypes'
  BY <1>a, <1>9 DEF RemoveDir, ProcTypes, RootSteps, Resting
<1>10. ASSUME NEW c \in Proc, Detach(c) PROVE ProcTypes'
  BY <1>a, <1>10 DEF Detach, ProcTypes, RootSteps, Resting
<1>11. ASSUME NEW c \in Proc, FindMounted(c) PROVE ProcTypes'
  <2>1. lower[c] \in Img /\ ver[lower[c]] \in Nat
    BY <1>a, <1>11 DEF FindMounted, Asked, CountTypes
  <2>2. sought' \in [Proc -> Nat] /\ at' \in [Proc -> RootSteps]
    BY <1>a, <1>11, <2>1 DEF FindMounted, ProcTypes, RootSteps
  <2>3. \A l \in mounted : [file |-> lower[c], loop |-> l] \in Recorded
    BY <1>a, <2>1 DEF Recorded, ImgName, KernelTypes
  <2>4. held' \in [Proc -> Recorded]
    BY <1>a, <1>11, <2>3 DEF FindMounted, Reusable, ProcTypes
  <2> QED
    BY <1>a, <1>11, <2>2, <2>4 DEF FindMounted, ProcTypes
<1>12. ASSUME NEW c \in Proc, FindFreeLoopDevice(c) PROVE ProcTypes'
  <2>1. lower[c] \in Img
    BY <1>a, <1>12 DEF FindFreeLoopDevice, Asked
  <2>2. \A l \in Loop : [file |-> lower[c], loop |-> l] \in Recorded
    BY <1>a, <2>1 DEF Recorded, ImgName
  <2>3. held' \in [Proc -> Recorded]
    BY <1>a, <1>12, <2>2 DEF FindFreeLoopDevice, ProcTypes
  <2> QED
    BY <1>a, <1>12, <2>3 DEF FindFreeLoopDevice, ProcTypes, RootSteps
<1>13. ASSUME NEW c \in Proc, Attach(c) PROVE ProcTypes'
  BY <1>a, <1>13 DEF Attach, Fails, ProcTypes, RootSteps, Resting
<1>14. ASSUME NEW c \in Proc, Killed(c) PROVE ProcTypes'
  BY <1>a, <1>14, NoFileTyped DEF Killed, ProcTypes, RootSteps, Resting
<1>15. ASSUME NEW c \in Proc, NEW ok \in BOOLEAN, MountImage(c, ok) PROVE ProcTypes'
  BY <1>a, <1>15 DEF MountImage, Fails, ProcTypes, RootSteps, Resting
<1>16. ASSUME NEW c \in Proc, NEW ok \in BOOLEAN, MountOverlay(c, ok) PROVE ProcTypes'
  BY <1>a, <1>16 DEF MountOverlay, Fails, ProcTypes, RootSteps, Resting
<1>17. ASSUME NEW c \in Proc, NEW ok \in BOOLEAN, StoreAndStart(c, ok) PROVE ProcTypes'
  BY <1>a, <1>17 DEF StoreAndStart, ProcTypes, RootSteps, Resting
<1>18. ASSUME NEW i \in Img, Replace(i) PROVE ProcTypes'
  BY <1>a, <1>18 DEF Replace, ProcTypes, RootSteps, Resting
<1> QED
  BY <1>1, <1>2, <1>3, <1>4, <1>5, <1>6, <1>7, <1>8, <1>9, <1>10, <1>11, <1>12, <1>13, <1>14,
     <1>15, <1>16, <1>17, <1>18 DEF RootNext

\* So does what the kernel has.
LEMMA KernelTypesStep ==
  ASSUME RootInv, RootNext
  PROVE  KernelTypes'
<1>a. ProcTypes /\ KernelTypes /\ CountTypes /\ LoopsBack /\ Asked
  BY DEF RootInv
<1>1. ASSUME NEW c \in Proc, NEW i \in Img, FreshRun(c, i) PROVE KernelTypes'
  BY <1>a, <1>1, FreshRunDoes, StaysLoosens DEF KernelTypes, Loosens
<1>2. ASSUME NEW c \in Proc, NEW i \in Img, SnapshotMerge(c, i) PROVE KernelTypes'
  BY <1>a, <1>2, SnapshotMergeDoes, StaysLoosens DEF KernelTypes, Loosens
<1>3. ASSUME NEW c \in Proc, NEW g \in {"start", "end"}, FromRecord(c, g) PROVE KernelTypes'
  BY <1>a, <1>3, FromRecordDoes, StaysLoosens DEF KernelTypes, Loosens
<1>4. ASSUME NEW c \in Proc, Ended(c) PROVE KernelTypes'
  BY <1>a, <1>4, EndedDoes, StaysLoosens DEF KernelTypes, Loosens
<1>5. ASSUME NEW c \in Proc, Reclaim(c) PROVE KernelTypes'
  BY <1>a, <1>5, ReclaimDoes, StaysLoosens DEF KernelTypes, Loosens
<1>6. ASSUME NEW c \in Proc, Clean(c) PROVE KernelTypes'
  BY <1>a, <1>6, CleanDoes, NoFileTyped DEF Clean, KernelTypes, Loosens
<1>7. ASSUME NEW c \in Proc, Check(c) PROVE KernelTypes'
  BY <1>a, <1>7, CheckDoes, StaysLoosens DEF KernelTypes, Loosens
<1>8. ASSUME NEW c \in Proc, UnmountImage(c) PROVE KernelTypes'
  BY <1>a, <1>8, UnmountImageDoes, StaysLoosens DEF KernelTypes, Loosens
<1>9. ASSUME NEW c \in Proc, RemoveDir(c) PROVE KernelTypes'
  BY <1>a, <1>9, RemoveDirDoes, StaysLoosens DEF KernelTypes, Loosens
<1>10. ASSUME NEW c \in Proc, Detach(c) PROVE KernelTypes'
  BY <1>a, <1>10, DetachDoes, StaysLoosens DEF KernelTypes, Loosens
<1>11. ASSUME NEW c \in Proc, FindMounted(c) PROVE KernelTypes'
  BY <1>a, <1>11, FindMountedDoes, StaysLoosens DEF KernelTypes, Loosens
<1>12. ASSUME NEW c \in Proc, FindFreeLoopDevice(c) PROVE KernelTypes'
  BY <1>a, <1>12, FindFreeLoopDeviceDoes, StaysLoosens DEF KernelTypes, Loosens
<1>13. ASSUME NEW c \in Proc, Attach(c) PROVE KernelTypes'
  BY <1>a, <1>13, AttachDoes, StaysLoosens DEF KernelTypes, Loosens
<1>14. ASSUME NEW c \in Proc, Killed(c) PROVE KernelTypes'
  BY <1>a, <1>14, KilledDoes, StaysLoosens DEF KernelTypes, Loosens
<1>15. ASSUME NEW c \in Proc, NEW ok \in BOOLEAN, MountImage(c, ok) PROVE KernelTypes'
  <2>1. held[c].loop \in Loop
    BY <1>a DEF ProcTypes, Recorded
  <2>2. loop' \in [Loop -> Backed]
    BY <1>a, <1>15, MountImageDoes DEF KernelTypes, Loosens
  <2> QED
    BY <1>a, <1>15, <2>1, <2>2 DEF MountImage, KernelTypes
<1>16. ASSUME NEW c \in Proc, NEW ok \in BOOLEAN, MountOverlay(c, ok) PROVE KernelTypes'
  <2>1. over'[c] \in Overlays /\ over' = [over EXCEPT ![c] = over'[c]] /\ UNCHANGED <<loop, mounted, mountDir>>
    BY <1>a, <1>16, MountOverlayDoes
  <2> QED
    BY <1>a, <2>1 DEF KernelTypes
<1>17. ASSUME NEW c \in Proc, NEW ok \in BOOLEAN, StoreAndStart(c, ok) PROVE KernelTypes'
  BY <1>a, <1>17, StoreAndStartDoes, StaysLoosens DEF KernelTypes, Loosens
<1>18. ASSUME NEW i \in Img, Replace(i) PROVE KernelTypes'
  BY <1>a, <1>18 DEF Replace, KernelTypes, Loosens
<1> QED
  BY <1>1, <1>2, <1>3, <1>4, <1>5, <1>6, <1>7, <1>8, <1>9, <1>10, <1>11, <1>12, <1>13, <1>14,
     <1>15, <1>16, <1>17, <1>18 DEF RootNext

\* And so do the counts.
LEMMA CountTypesStep ==
  ASSUME RootInv, RootNext
  PROVE  CountTypes'
<1>a. CountTypes /\ ProcTypes
  BY DEF RootInv
<1>1. ASSUME NEW c \in Proc, NEW i \in Img, FreshRun(c, i) PROVE CountTypes'
  BY <1>a, <1>1 DEF FreshRun, Meets, CountTypes, Busy
<1>2. ASSUME NEW c \in Proc, NEW i \in Img, SnapshotMerge(c, i) PROVE CountTypes'
  BY <1>a, <1>2 DEF SnapshotMerge, Meets, CountTypes, Busy
<1>3. ASSUME NEW c \in Proc, NEW g \in {"start", "end"}, FromRecord(c, g) PROVE CountTypes'
  BY <1>a, <1>3 DEF FromRecord, Meets, CountTypes, Busy
<1>4. ASSUME NEW c \in Proc, Ended(c) PROVE CountTypes'
  BY <1>a, <1>4 DEF Ended, Meets, CountTypes, Busy
<1>5. ASSUME NEW c \in Proc, Reclaim(c) PROVE CountTypes'
  BY <1>a, <1>5 DEF Reclaim, CountTypes, Busy
<1>6. ASSUME NEW c \in Proc, Clean(c) PROVE CountTypes'
  BY <1>a, <1>6 DEF Clean, CountTypes, Busy
<1>7. ASSUME NEW c \in Proc, Check(c) PROVE CountTypes'
  BY <1>a, <1>7 DEF Check, Over, CountTypes, Busy
<1>8. ASSUME NEW c \in Proc, UnmountImage(c) PROVE CountTypes'
  BY <1>a, <1>8 DEF UnmountImage, CountTypes, Busy
<1>9. ASSUME NEW c \in Proc, RemoveDir(c) PROVE CountTypes'
  BY <1>a, <1>9 DEF RemoveDir, CountTypes, Busy
<1>10. ASSUME NEW c \in Proc, Detach(c) PROVE CountTypes'
  BY <1>a, <1>10 DEF Detach, CountTypes, Busy
<1>11. ASSUME NEW c \in Proc, FindMounted(c) PROVE CountTypes'
  BY <1>a, <1>11 DEF FindMounted, Reusable, CountTypes, Busy
<1>12. ASSUME NEW c \in Proc, FindFreeLoopDevice(c) PROVE CountTypes'
  BY <1>a, <1>12 DEF FindFreeLoopDevice, CountTypes, Busy
<1>13. ASSUME NEW c \in Proc, Attach(c) PROVE CountTypes'
  BY <1>a, <1>13 DEF Attach, Fails, CountTypes, Busy
<1>14. ASSUME NEW c \in Proc, Killed(c) PROVE CountTypes'
  BY <1>a, <1>14 DEF Killed, CountTypes, Busy
<1>15. ASSUME NEW c \in Proc, NEW ok \in BOOLEAN, MountImage(c, ok) PROVE CountTypes'
  BY <1>a, <1>15 DEF MountImage, Fails, CountTypes, Busy
<1>16. ASSUME NEW c \in Proc, NEW ok \in BOOLEAN, MountOverlay(c, ok) PROVE CountTypes'
  BY <1>a, <1>16 DEF MountOverlay, Fails, CountTypes, Busy
<1>17. ASSUME NEW c \in Proc, NEW ok \in BOOLEAN, StoreAndStart(c, ok) PROVE CountTypes'
  BY <1>a, <1>17 DEF StoreAndStart, CountTypes, Busy
<1>18. ASSUME NEW i \in Img, Replace(i) PROVE CountTypes'
  BY <1>a, <1>18 DEF Replace, CountTypes, Busy
<1> QED
  BY <1>1, <1>2, <1>3, <1>4, <1>5, <1>6, <1>7, <1>8, <1>9, <1>10, <1>11, <1>12, <1>13, <1>14,
     <1>15, <1>16, <1>17, <1>18 DEF RootNext

\* What is mounted stays attached.
LEMMA LoopsBackStep ==
  ASSUME RootInv, RootNext
  PROVE  LoopsBack'
<1>a. ProcTypes /\ KernelTypes /\ CountTypes /\ LoopsBack /\ Asked
  BY DEF RootInv
<1>1. ASSUME NEW c \in Proc, NEW i \in Img, FreshRun(c, i) PROVE LoopsBack'
  BY <1>a, <1>1, FreshRunDoes DEF LoopsBack
<1>2. ASSUME NEW c \in Proc, NEW i \in Img, SnapshotMerge(c, i) PROVE LoopsBack'
  BY <1>a, <1>2, SnapshotMergeDoes DEF LoopsBack
<1>3. ASSUME NEW c \in Proc, NEW g \in {"start", "end"}, FromRecord(c, g) PROVE LoopsBack'
  BY <1>a, <1>3, FromRecordDoes DEF LoopsBack
<1>4. ASSUME NEW c \in Proc, Ended(c) PROVE LoopsBack'
  BY <1>a, <1>4, EndedDoes DEF LoopsBack
<1>5. ASSUME NEW c \in Proc, Reclaim(c) PROVE LoopsBack'
  BY <1>a, <1>5, ReclaimDoes DEF LoopsBack
<1>6. ASSUME NEW c \in Proc, Clean(c) PROVE LoopsBack'
  <2>1. Loosens /\ UNCHANGED ver /\ mounted' \subseteq mounted
    BY <1>a, <1>6, CleanDoes
  <2> QED
    BY <1>a, <2>1, LoosenedLoops
<1>7. ASSUME NEW c \in Proc, Check(c) PROVE LoopsBack'
  BY <1>a, <1>7, CheckDoes DEF LoopsBack
<1>8. ASSUME NEW c \in Proc, UnmountImage(c) PROVE LoopsBack'
  <2>1. Loosens /\ UNCHANGED ver /\ mounted' \subseteq mounted
    BY <1>a, <1>8, UnmountImageDoes
  <2> QED
    BY <1>a, <2>1, LoosenedLoops
<1>9. ASSUME NEW c \in Proc, RemoveDir(c) PROVE LoopsBack'
  BY <1>a, <1>9, RemoveDirDoes DEF LoopsBack
<1>10. ASSUME NEW c \in Proc, Detach(c) PROVE LoopsBack'
  <2>1. Loosens /\ UNCHANGED ver /\ mounted' \subseteq mounted
    BY <1>a, <1>10, DetachDoes
  <2> QED
    BY <1>a, <2>1, LoosenedLoops
<1>11. ASSUME NEW c \in Proc, FindMounted(c) PROVE LoopsBack'
  BY <1>a, <1>11, FindMountedDoes DEF LoopsBack
<1>12. ASSUME NEW c \in Proc, FindFreeLoopDevice(c) PROVE LoopsBack'
  BY <1>a, <1>12, FindFreeLoopDeviceDoes DEF LoopsBack
<1>13. ASSUME NEW c \in Proc, Attach(c) PROVE LoopsBack'
  <2>1. CASE UNCHANGED loop
    BY <1>a, <1>13, <2>1, AttachDoes DEF LoopsBack
  <2>2. CASE ~UNCHANGED loop
    <3>1. PICK k : k = held[c].loop /\ k \in Loop
      BY <1>a DEF ProcTypes, Recorded
    <3>2. lower[c] \in Img /\ ver[lower[c]] \in Nat
      BY <1>a, <1>13 DEF Asked, Attach, CountTypes
    <3>3. /\ loop[k] = NoFile /\ loop'[k].file = lower[c] /\ loop'[k].ver = ver[lower[c]]
          /\ \A l \in Loop : l # k => loop'[l] = loop[l]
          /\ UNCHANGED <<mounted, ver>>
      BY <1>a, <1>13, <2>2, <3>1, AttachDoes
    <3>4. loop'[k] # NoFile /\ k \notin mounted
      BY <1>a, <3>2, <3>3, RootSizes, NoFileTyped DEF LoopsBack
    <3>5. \A l \in Loop : loop'[l] = NoFile \/ (loop'[l].file \in Img /\ loop'[l].ver <= ver[loop'[l].file])
      BY <1>a, <3>2, <3>3 DEF LoopsBack
    <3> QED
      BY <1>a, <3>3, <3>4, <3>5 DEF LoopsBack, KernelTypes
  <2> QED
    BY <2>1, <2>2
<1>14. ASSUME NEW c \in Proc, Killed(c) PROVE LoopsBack'
  BY <1>a, <1>14, KilledDoes DEF LoopsBack
<1>15. ASSUME NEW c \in Proc, NEW ok \in BOOLEAN, MountImage(c, ok) PROVE LoopsBack'
  <2>1. CASE Loosens /\ UNCHANGED mounted
    BY <1>a, <1>15, <2>1, MountImageDoes, LoosenedLoops
  <2>2. CASE loop[held[c].loop] # NoFile /\ mounted' = mounted \cup {held[c].loop} /\ UNCHANGED loop
    BY <1>a, <1>15, <2>2, MountImageDoes DEF LoopsBack
  <2> QED
    BY <1>a, <1>15, <2>1, <2>2, MountImageDoes
<1>16. ASSUME NEW c \in Proc, NEW ok \in BOOLEAN, MountOverlay(c, ok) PROVE LoopsBack'
  BY <1>a, <1>16, MountOverlayDoes DEF LoopsBack
<1>17. ASSUME NEW c \in Proc, NEW ok \in BOOLEAN, StoreAndStart(c, ok) PROVE LoopsBack'
  BY <1>a, <1>17, StoreAndStartDoes DEF LoopsBack
<1>18. ASSUME NEW i \in Img, Replace(i) PROVE LoopsBack'
  <2>1. \A f \in Img : ver[f] \in Nat /\ ver'[f] \in Nat /\ ver[f] <= ver'[f]
    BY <1>a, <1>18 DEF Replace, CountTypes
  <2>2. UNCHANGED <<loop, mounted>>
    BY <1>18 DEF Replace
  <2>3. \A l \in Loop : loop[l].ver \in Nat
    BY <1>a DEF KernelTypes, Backed
  <2> QED
    BY <1>a, <2>1, <2>2, <2>3 DEF LoopsBack
<1> QED
  BY <1>1, <1>2, <1>3, <1>4, <1>5, <1>6, <1>7, <1>8, <1>9, <1>10, <1>11, <1>12, <1>13, <1>14,
     <1>15, <1>16, <1>17, <1>18 DEF RootNext

\* What is under an overlay stays attached.
LEMMA OverlaysBackStep ==
  ASSUME RootInv, RootNext
  PROVE  OverlaysBack'
<1>a. ProcTypes /\ KernelTypes /\ CountTypes /\ LoopsBack /\ OverlaysBack /\ Asked
  BY DEF RootInv
<1>1. ASSUME NEW c \in Proc, NEW i \in Img, FreshRun(c, i) PROVE OverlaysBack'
  BY <1>a, <1>1, FreshRunDoes DEF OverlaysBack
<1>2. ASSUME NEW c \in Proc, NEW i \in Img, SnapshotMerge(c, i) PROVE OverlaysBack'
  BY <1>a, <1>2, SnapshotMergeDoes DEF OverlaysBack
<1>3. ASSUME NEW c \in Proc, NEW g \in {"start", "end"}, FromRecord(c, g) PROVE OverlaysBack'
  BY <1>a, <1>3, FromRecordDoes DEF OverlaysBack
<1>4. ASSUME NEW c \in Proc, Ended(c) PROVE OverlaysBack'
  BY <1>a, <1>4, EndedDoes DEF OverlaysBack
<1>5. ASSUME NEW c \in Proc, Reclaim(c) PROVE OverlaysBack'
  BY <1>a, <1>5, ReclaimDoes DEF OverlaysBack
<1>6. ASSUME NEW c \in Proc, Clean(c) PROVE OverlaysBack'
  <2>1. Loosens
    BY <1>a, <1>6, CleanDoes
  <2>2. \A d \in Proc : over'[d] = over[d] \/ ~over'[d].on
    BY <1>a, <1>6, CleanDoes, NoFileTyped DEF Others, Rests
  <2> QED
    BY <1>a, <2>1, <2>2, LoosenedOverlays
<1>7. ASSUME NEW c \in Proc, Check(c) PROVE OverlaysBack'
  BY <1>a, <1>7, CheckDoes DEF OverlaysBack
<1>8. ASSUME NEW c \in Proc, UnmountImage(c) PROVE OverlaysBack'
  <2>1. Loosens
    BY <1>a, <1>8, UnmountImageDoes
  <2>2. \A d \in Proc : over'[d] = over[d] \/ ~over'[d].on
    BY <1>a, <1>8, UnmountImageDoes, NoFileTyped DEF Others, Rests
  <2> QED
    BY <1>a, <2>1, <2>2, LoosenedOverlays
<1>9. ASSUME NEW c \in Proc, RemoveDir(c) PROVE OverlaysBack'
  BY <1>a, <1>9, RemoveDirDoes DEF OverlaysBack
<1>10. ASSUME NEW c \in Proc, Detach(c) PROVE OverlaysBack'
  <2>1. Loosens
    BY <1>a, <1>10, DetachDoes
  <2>2. \A d \in Proc : over'[d] = over[d] \/ ~over'[d].on
    BY <1>a, <1>10, DetachDoes, NoFileTyped DEF Others, Rests
  <2> QED
    BY <1>a, <2>1, <2>2, LoosenedOverlays
<1>11. ASSUME NEW c \in Proc, FindMounted(c) PROVE OverlaysBack'
  BY <1>a, <1>11, FindMountedDoes DEF OverlaysBack
<1>12. ASSUME NEW c \in Proc, FindFreeLoopDevice(c) PROVE OverlaysBack'
  BY <1>a, <1>12, FindFreeLoopDeviceDoes DEF OverlaysBack
<1>13. ASSUME NEW c \in Proc, Attach(c) PROVE OverlaysBack'
  <2>1. CASE UNCHANGED loop
    BY <1>a, <1>13, <2>1, AttachDoes DEF OverlaysBack
  <2>2. CASE ~UNCHANGED loop
    <3>1. PICK k : k = held[c].loop /\ k \in Loop
      BY <1>a DEF ProcTypes, Recorded
    <3>2. loop[k] = NoFile /\ (\A l \in Loop : l # k => loop'[l] = loop[l]) /\ UNCHANGED over
      BY <1>a, <1>13, <2>2, <3>1, AttachDoes
    <3>3. \A d \in Proc : over[d].on /\ over[d].shows # NoFile => over[d].loop # k
      BY <1>a, <3>2, RootSizes, NoFileTyped DEF OverlaysBack
    <3>4. \A d \in Proc : over[d].loop \in Loop
      BY <1>a DEF KernelTypes, Overlays
    <3> QED
      BY <1>a, <3>2, <3>3, <3>4 DEF OverlaysBack
  <2> QED
    BY <2>1, <2>2
<1>14. ASSUME NEW c \in Proc, Killed(c) PROVE OverlaysBack'
  BY <1>a, <1>14, KilledDoes DEF OverlaysBack
<1>15. ASSUME NEW c \in Proc, NEW ok \in BOOLEAN, MountImage(c, ok) PROVE OverlaysBack'
  <2>1. Loosens /\ UNCHANGED over
    BY <1>a, <1>15, MountImageDoes, StaysLoosens
  <2> QED
    BY <1>a, <2>1, LoosenedOverlays
<1>16. ASSUME NEW c \in Proc, NEW ok \in BOOLEAN, MountOverlay(c, ok) PROVE OverlaysBack'
  <2>1. CASE UNCHANGED over
    BY <1>a, <1>16, <2>1, MountOverlayDoes DEF OverlaysBack
  <2>2. CASE ~UNCHANGED over
    <3>1. PICK k : k = held[c].loop /\ k \in Loop
      BY <1>a DEF ProcTypes, Recorded
    <3>2. /\ over'[c].loop = k /\ UNCHANGED loop
          /\ over'[c].shows = IF k \in mounted THEN [loop[k] EXCEPT !.auto = FALSE] ELSE NoFile
          /\ \A d \in Proc : d # c => over'[d] = over[d]
      BY <1>a, <1>16, <2>2, <3>1, MountOverlayDoes DEF Others, Rests
    <3>3. loop[k] \in Backed
      BY <1>a, <3>1 DEF KernelTypes
    <3>4. k \in mounted => over'[c].shows.file = loop[k].file /\ over'[c].shows.ver = loop[k].ver
      BY <3>2, <3>3 DEF Backed
    <3>5. k \in mounted => loop[k].file \in Img
      BY <1>a, <3>1 DEF LoopsBack
    <3> SUFFICES ASSUME NEW d \in Proc, over'[d].on, over'[d].shows # NoFile
                 PROVE  /\ over'[d].shows.file \in Img
                        /\ loop'[over'[d].loop].file = over'[d].shows.file
                        /\ loop'[over'[d].loop].ver = over'[d].shows.ver
      BY DEF OverlaysBack
    <3>6. CASE d = c
      BY <3>2, <3>4, <3>5, <3>6
    <3>7. CASE d # c
      BY <1>a, <3>2, <3>7 DEF OverlaysBack
    <3> QED
      BY <3>6, <3>7
  <2> QED
    BY <2>1, <2>2
<1>17. ASSUME NEW c \in Proc, NEW ok \in BOOLEAN, StoreAndStart(c, ok) PROVE OverlaysBack'
  BY <1>a, <1>17, StoreAndStartDoes DEF OverlaysBack
<1>18. ASSUME NEW i \in Img, Replace(i) PROVE OverlaysBack'
  BY <1>a, <1>18 DEF Replace, OverlaysBack
<1> QED
  BY <1>1, <1>2, <1>3, <1>4, <1>5, <1>6, <1>7, <1>8, <1>9, <1>10, <1>11, <1>12, <1>13, <1>14,
     <1>15, <1>16, <1>17, <1>18 DEF RootNext

\* What a process works on.
LEMMA AskedStep ==
  ASSUME RootInv, RootNext
  PROVE  Asked'
<1>a. ProcTypes /\ KernelTypes /\ CountTypes /\ LoopsBack /\ Asked
  BY DEF RootInv
<1>1. ASSUME NEW c \in Proc, NEW i \in Img, FreshRun(c, i) PROVE Asked'
  BY <1>a, <1>1, FreshRunDoes, RootSizes, NoFileTyped DEF Asked, Others, Rests, Containers
<1>2. ASSUME NEW c \in Proc, NEW i \in Img, SnapshotMerge(c, i) PROVE Asked'
  BY <1>a, <1>2, SnapshotMergeDoes, RootSizes, NoFileTyped DEF Asked, Others, Rests, Containers
<1>3. ASSUME NEW c \in Proc, NEW g \in {"start", "end"}, FromRecord(c, g) PROVE Asked'
  BY <1>a, <1>3, FromRecordDoes, RootSizes, NoFileTyped DEF Asked, Others, Rests, Containers, ProcTypes, RootSteps, Resting, ImgName
<1>4. ASSUME NEW c \in Proc, Ended(c) PROVE Asked'
  BY <1>a, <1>4, EndedDoes, RootSizes, NoFileTyped DEF Asked, Others, Rests, Containers
<1>5. ASSUME NEW c \in Proc, Reclaim(c) PROVE Asked'
  BY <1>a, <1>5, ReclaimDoes, RootSizes, NoFileTyped DEF Asked, Others, Rests, Containers
<1>6. ASSUME NEW c \in Proc, Clean(c) PROVE Asked'
  BY <1>a, <1>6, CleanDoes, RootSizes, NoFileTyped DEF Asked, Others, Rests, Containers
<1>7. ASSUME NEW c \in Proc, Check(c) PROVE Asked'
  BY <1>a, <1>7, CheckDoes, RootSizes, NoFileTyped DEF Asked, Others, Rests, Containers
<1>8. ASSUME NEW c \in Proc, UnmountImage(c) PROVE Asked'
  BY <1>a, <1>8, UnmountImageDoes, RootSizes, NoFileTyped DEF Asked, Others, Rests, Containers
<1>9. ASSUME NEW c \in Proc, RemoveDir(c) PROVE Asked'
  BY <1>a, <1>9, RemoveDirDoes, RootSizes, NoFileTyped DEF Asked, Others, Rests, Containers
<1>10. ASSUME NEW c \in Proc, Detach(c) PROVE Asked'
  BY <1>a, <1>10, DetachDoes, RootSizes, NoFileTyped DEF Asked, Others, Rests, Containers, ProcTypes, RootSteps, Resting, ImgName
<1>11. ASSUME NEW c \in Proc, FindMounted(c) PROVE Asked'
  BY <1>a, <1>11, FindMountedDoes, RootSizes, NoFileTyped DEF Asked, Others, Rests, Containers
<1>12. ASSUME NEW c \in Proc, FindFreeLoopDevice(c) PROVE Asked'
  BY <1>a, <1>12, FindFreeLoopDeviceDoes, RootSizes, NoFileTyped DEF Asked, Others, Rests, Containers
<1>13. ASSUME NEW c \in Proc, Attach(c) PROVE Asked'
  BY <1>a, <1>13, AttachDoes, RootSizes, NoFileTyped DEF Asked, Others, Rests, Containers
<1>14. ASSUME NEW c \in Proc, Killed(c) PROVE Asked'
  BY <1>a, <1>14, KilledDoes, RootSizes, NoFileTyped DEF Asked, Others, Rests, Containers
<1>15. ASSUME NEW c \in Proc, NEW ok \in BOOLEAN, MountImage(c, ok) PROVE Asked'
  BY <1>a, <1>15, MountImageDoes, RootSizes, NoFileTyped DEF Asked, Others, Rests, Containers
<1>16. ASSUME NEW c \in Proc, NEW ok \in BOOLEAN, MountOverlay(c, ok) PROVE Asked'
  <2>1. /\ at[c] = "overlay" /\ UNCHANGED <<lower, held, rec>>
        /\ \A d \in Proc : d # c => at'[d] = at[d] /\ over'[d] = over[d]
    BY <1>a, <1>16, MountOverlayDoes DEF Others, Rests
  <2>2. CASE at'[c] = "clean"
    BY <1>a, <2>1, <2>2, RootSizes DEF Asked, Containers
  <2>3. CASE /\ at'[c] = IF c \in Snappers THEN "up" ELSE "record"
             /\ over'[c].on /\ over'[c].loop = held[c].loop
    BY <1>a, <2>1, <2>3, RootSizes DEF Asked, Containers
  <2> QED
    BY <1>a, <1>16, <2>2, <2>3, MountOverlayDoes
<1>17. ASSUME NEW c \in Proc, NEW ok \in BOOLEAN, StoreAndStart(c, ok) PROVE Asked'
  BY <1>a, <1>17, StoreAndStartDoes, RootSizes, NoFileTyped DEF Asked, Others, Rests, Containers
<1>18. ASSUME NEW i \in Img, Replace(i) PROVE Asked'
  BY <1>a, <1>18 DEF Replace, Asked, Others, Rests, Containers
<1> QED
  BY <1>1, <1>2, <1>3, <1>4, <1>5, <1>6, <1>7, <1>8, <1>9, <1>10, <1>11, <1>12, <1>13, <1>14,
     <1>15, <1>16, <1>17, <1>18 DEF RootNext

\* An operation that begins meets all that are under way.
LEMMA MeetsAll ==
  ASSUME CountTypes, NEW c \in Proc, Meets(c), at[c] \in Resting
  PROVE  /\ \A d \in Proc : at[d] \notin Resting => d \in met' /\ c \in met' /\ crowded'
         /\ \A d \in Proc : d # c => (d \in met => d \in met')
         /\ \A d \in Proc : d \in met' => d \in met \/ crowded'
         /\ crowded => crowded'
<1>1. CASE Busy = {}
  <2>1. met' = met \ {c} /\ (crowded' <=> crowded) /\ \A d \in Proc : at[d] \in Resting
    BY <1>1 DEF Meets, Busy
  <2> QED
    BY <2>1
<1>2. CASE Busy # {}
  <2>1. met' = met \cup Busy \cup {c} /\ crowded' /\ \A d \in Proc : at[d] \notin Resting => d \in Busy
    BY <1>2 DEF Meets, Busy
  <2> QED
    BY <2>1
<1> QED
  BY <1>1, <1>2

\* An operation that met no other is alone.
LEMMA TurnsStep ==
  ASSUME RootInv, RootNext
  PROVE  Turns'
<1>a. ProcTypes /\ KernelTypes /\ CountTypes /\ LoopsBack /\ Asked /\ Turns
  BY DEF RootInv
<1>1. ASSUME NEW c \in Proc, NEW i \in Img, FreshRun(c, i) PROVE Turns'
  <2>1. /\ at[c] \in Resting /\ at'[c] \notin Resting /\ Meets(c)
        /\ \A d \in Proc : d # c => at'[d] = at[d]
    BY <1>a, <1>1, FreshRunDoes DEF Others, Rests, Resting
  <2>2. /\ \A d \in Proc : at[d] \notin Resting => d \in met' /\ c \in met' /\ crowded'
        /\ \A d \in Proc : d # c => (d \in met => d \in met')
        /\ \A d \in Proc : d \in met' => d \in met \/ crowded'
        /\ (crowded => crowded') /\ met' \subseteq Proc
    BY <1>a, <2>1, MeetsAll, CountTypesStep DEF CountTypes
  <2> QED
    BY <1>a, <2>1, <2>2 DEF Turns
<1>2. ASSUME NEW c \in Proc, NEW i \in Img, SnapshotMerge(c, i) PROVE Turns'
  <2>1. /\ at[c] \in Resting /\ at'[c] \notin Resting /\ Meets(c)
        /\ \A d \in Proc : d # c => at'[d] = at[d]
    BY <1>a, <1>2, SnapshotMergeDoes DEF Others, Rests, Resting
  <2>2. /\ \A d \in Proc : at[d] \notin Resting => d \in met' /\ c \in met' /\ crowded'
        /\ \A d \in Proc : d # c => (d \in met => d \in met')
        /\ \A d \in Proc : d \in met' => d \in met \/ crowded'
        /\ (crowded => crowded') /\ met' \subseteq Proc
    BY <1>a, <2>1, MeetsAll, CountTypesStep DEF CountTypes
  <2> QED
    BY <1>a, <2>1, <2>2 DEF Turns
<1>3. ASSUME NEW c \in Proc, NEW g \in {"start", "end"}, FromRecord(c, g) PROVE Turns'
  <2>1. /\ at[c] \in Resting /\ at'[c] \notin Resting /\ Meets(c)
        /\ \A d \in Proc : d # c => at'[d] = at[d]
    BY <1>a, <1>3, FromRecordDoes DEF Others, Rests, Resting
  <2>2. /\ \A d \in Proc : at[d] \notin Resting => d \in met' /\ c \in met' /\ crowded'
        /\ \A d \in Proc : d # c => (d \in met => d \in met')
        /\ \A d \in Proc : d \in met' => d \in met \/ crowded'
        /\ (crowded => crowded') /\ met' \subseteq Proc
    BY <1>a, <2>1, MeetsAll, CountTypesStep DEF CountTypes
  <2> QED
    BY <1>a, <2>1, <2>2 DEF Turns
<1>4. ASSUME NEW c \in Proc, Ended(c) PROVE Turns'
  <2>1. /\ at[c] \in Resting /\ at'[c] \notin Resting /\ Meets(c)
        /\ \A d \in Proc : d # c => at'[d] = at[d]
    BY <1>a, <1>4, EndedDoes DEF Others, Rests, Resting
  <2>2. /\ \A d \in Proc : at[d] \notin Resting => d \in met' /\ c \in met' /\ crowded'
        /\ \A d \in Proc : d # c => (d \in met => d \in met')
        /\ \A d \in Proc : d \in met' => d \in met \/ crowded'
        /\ (crowded => crowded') /\ met' \subseteq Proc
    BY <1>a, <2>1, MeetsAll, CountTypesStep DEF CountTypes
  <2> QED
    BY <1>a, <2>1, <2>2 DEF Turns
<1>5. ASSUME NEW c \in Proc, Reclaim(c) PROVE Turns'
  <2>1. /\ UNCHANGED <<met, crowded>> /\ \A d \in Proc : d # c => at'[d] = at[d]
        /\ (at[c] \in Resting => at'[c] \in Resting)
    BY <1>a, <1>5, ReclaimDoes DEF Others, Rests, Resting
  <2> QED
    BY <1>a, <2>1 DEF Turns
<1>6. ASSUME NEW c \in Proc, Clean(c) PROVE Turns'
  <2>1. /\ UNCHANGED <<met, crowded>> /\ \A d \in Proc : d # c => at'[d] = at[d]
        /\ (at[c] \in Resting => at'[c] \in Resting)
    BY <1>a, <1>6, CleanDoes DEF Others, Rests, Resting
  <2> QED
    BY <1>a, <2>1 DEF Turns
<1>7. ASSUME NEW c \in Proc, Check(c) PROVE Turns'
  <2>1. /\ UNCHANGED <<met, crowded>> /\ \A d \in Proc : d # c => at'[d] = at[d]
        /\ (at[c] \in Resting => at'[c] \in Resting)
    BY <1>a, <1>7, CheckDoes DEF Others, Rests, Resting
  <2> QED
    BY <1>a, <2>1 DEF Turns
<1>8. ASSUME NEW c \in Proc, UnmountImage(c) PROVE Turns'
  <2>1. /\ UNCHANGED <<met, crowded>> /\ \A d \in Proc : d # c => at'[d] = at[d]
        /\ (at[c] \in Resting => at'[c] \in Resting)
    BY <1>a, <1>8, UnmountImageDoes DEF Others, Rests, Resting
  <2> QED
    BY <1>a, <2>1 DEF Turns
<1>9. ASSUME NEW c \in Proc, RemoveDir(c) PROVE Turns'
  <2>1. /\ UNCHANGED <<met, crowded>> /\ \A d \in Proc : d # c => at'[d] = at[d]
        /\ (at[c] \in Resting => at'[c] \in Resting)
    BY <1>a, <1>9, RemoveDirDoes DEF Others, Rests, Resting
  <2> QED
    BY <1>a, <2>1 DEF Turns
<1>10. ASSUME NEW c \in Proc, Detach(c) PROVE Turns'
  <2>1. /\ UNCHANGED <<met, crowded>> /\ \A d \in Proc : d # c => at'[d] = at[d]
        /\ (at[c] \in Resting => at'[c] \in Resting)
    BY <1>a, <1>10, DetachDoes DEF Others, Rests, Resting
  <2> QED
    BY <1>a, <2>1 DEF Turns
<1>11. ASSUME NEW c \in Proc, FindMounted(c) PROVE Turns'
  <2>1. /\ UNCHANGED <<met, crowded>> /\ \A d \in Proc : d # c => at'[d] = at[d]
        /\ (at[c] \in Resting => at'[c] \in Resting)
    BY <1>a, <1>11, FindMountedDoes DEF Others, Rests, Resting
  <2> QED
    BY <1>a, <2>1 DEF Turns
<1>12. ASSUME NEW c \in Proc, FindFreeLoopDevice(c) PROVE Turns'
  <2>1. /\ UNCHANGED <<met, crowded>> /\ \A d \in Proc : d # c => at'[d] = at[d]
        /\ (at[c] \in Resting => at'[c] \in Resting)
    BY <1>a, <1>12, FindFreeLoopDeviceDoes DEF Others, Rests, Resting
  <2> QED
    BY <1>a, <2>1 DEF Turns
<1>13. ASSUME NEW c \in Proc, Attach(c) PROVE Turns'
  <2>1. /\ UNCHANGED <<met, crowded>> /\ \A d \in Proc : d # c => at'[d] = at[d]
        /\ (at[c] \in Resting => at'[c] \in Resting)
    BY <1>a, <1>13, AttachDoes DEF Others, Rests, Resting
  <2> QED
    BY <1>a, <2>1 DEF Turns
<1>14. ASSUME NEW c \in Proc, Killed(c) PROVE Turns'
  <2>1. /\ UNCHANGED <<met, crowded>> /\ \A d \in Proc : d # c => at'[d] = at[d]
        /\ (at[c] \in Resting => at'[c] \in Resting)
    BY <1>a, <1>14, KilledDoes DEF Others, Rests, Resting
  <2> QED
    BY <1>a, <2>1 DEF Turns
<1>15. ASSUME NEW c \in Proc, NEW ok \in BOOLEAN, MountImage(c, ok) PROVE Turns'
  <2>1. /\ UNCHANGED <<met, crowded>> /\ \A d \in Proc : d # c => at'[d] = at[d]
        /\ (at[c] \in Resting => at'[c] \in Resting)
    BY <1>a, <1>15, MountImageDoes DEF Others, Rests, Resting
  <2> QED
    BY <1>a, <2>1 DEF Turns
<1>16. ASSUME NEW c \in Proc, NEW ok \in BOOLEAN, MountOverlay(c, ok) PROVE Turns'
  <2>1. /\ UNCHANGED <<met, crowded>> /\ \A d \in Proc : d # c => at'[d] = at[d]
        /\ (at[c] \in Resting => at'[c] \in Resting)
    BY <1>a, <1>16, MountOverlayDoes DEF Others, Rests, Resting
  <2> QED
    BY <1>a, <2>1 DEF Turns
<1>17. ASSUME NEW c \in Proc, NEW ok \in BOOLEAN, StoreAndStart(c, ok) PROVE Turns'
  <2>1. /\ UNCHANGED <<met, crowded>> /\ \A d \in Proc : d # c => at'[d] = at[d]
        /\ (at[c] \in Resting => at'[c] \in Resting)
    BY <1>a, <1>17, StoreAndStartDoes DEF Others, Rests, Resting
  <2> QED
    BY <1>a, <2>1 DEF Turns
<1>18. ASSUME NEW i \in Img, Replace(i) PROVE Turns'
  BY <1>a, <1>18 DEF Replace, Turns
<1> QED
  BY <1>1, <1>2, <1>3, <1>4, <1>5, <1>6, <1>7, <1>8, <1>9, <1>10, <1>11, <1>12, <1>13, <1>14,
     <1>15, <1>16, <1>17, <1>18 DEF RootNext

\* Nobody disturbs a start that is alone.
LEMMA AloneRests ==
  ASSUME Alone, NEW d \in Proc, d \notin met, Rests(d), at[d] \in Resting \/ UNCHANGED <<loop, mounted, ver>>
  PROVE  AloneAt(d)'
<1>1. AloneAt(d)
  BY DEF Alone
<1>2. CASE at[d] \in Resting
  BY <1>1, <1>2 DEF AloneAt, Rests, Resting
<1>3. CASE UNCHANGED <<loop, mounted, ver>>
  BY <1>1, <1>3 DEF AloneAt, Newer, Backs, Rests
<1> QED
  BY <1>2, <1>3

\* A start that is alone finds and mounts its own image.
LEMMA AloneStep ==
  ASSUME RootInv, RootNext
  PROVE  Alone'
<1>a. ProcTypes /\ KernelTypes /\ CountTypes /\ LoopsBack /\ Asked /\ Turns /\ Alone
  BY DEF RootInv
<1>1. ASSUME NEW c \in Proc, NEW i \in Img, FreshRun(c, i) PROVE Alone'
  <2>1. /\ at[c] \in Resting /\ Meets(c) /\ Others(c)
    BY <1>a, <1>1, FreshRunDoes DEF Resting
  <2>2. at'[c] \notin {"find", "attach", "mount", "overlay", "record", "up"}
    BY <1>a, <1>1, FreshRunDoes DEF ProcTypes
  <2>3. AloneAt(c)'
    BY <2>2 DEF AloneAt
  <2>4. \A d \in Proc : d # c /\ d \notin met' => d \notin met /\ at[d] \in Resting
    BY <1>a, <2>1, MeetsAll
  <2>5. \A d \in Proc : d # c /\ d \notin met' => AloneAt(d)'
    BY <1>a, <2>1, <2>4, AloneRests DEF Others
  <2> QED
    BY <2>3, <2>5 DEF Alone
<1>2. ASSUME NEW c \in Proc, NEW i \in Img, SnapshotMerge(c, i) PROVE Alone'
  <2>1. /\ at[c] \in Resting /\ Meets(c) /\ Others(c)
    BY <1>a, <1>2, SnapshotMergeDoes DEF Resting
  <2>2. at'[c] \notin {"find", "attach", "mount", "overlay", "record", "up"}
    BY <1>a, <1>2, SnapshotMergeDoes DEF ProcTypes
  <2>3. AloneAt(c)'
    BY <2>2 DEF AloneAt
  <2>4. \A d \in Proc : d # c /\ d \notin met' => d \notin met /\ at[d] \in Resting
    BY <1>a, <2>1, MeetsAll
  <2>5. \A d \in Proc : d # c /\ d \notin met' => AloneAt(d)'
    BY <1>a, <2>1, <2>4, AloneRests DEF Others
  <2> QED
    BY <2>3, <2>5 DEF Alone
<1>3. ASSUME NEW c \in Proc, NEW g \in {"start", "end"}, FromRecord(c, g) PROVE Alone'
  <2>1. /\ at[c] \in Resting /\ Meets(c) /\ Others(c)
    BY <1>a, <1>3, FromRecordDoes DEF Resting
  <2>2. at'[c] \notin {"find", "attach", "mount", "overlay", "record", "up"}
    BY <1>a, <1>3, FromRecordDoes DEF ProcTypes
  <2>3. AloneAt(c)'
    BY <2>2 DEF AloneAt
  <2>4. \A d \in Proc : d # c /\ d \notin met' => d \notin met /\ at[d] \in Resting
    BY <1>a, <2>1, MeetsAll
  <2>5. \A d \in Proc : d # c /\ d \notin met' => AloneAt(d)'
    BY <1>a, <2>1, <2>4, AloneRests DEF Others
  <2> QED
    BY <2>3, <2>5 DEF Alone
<1>4. ASSUME NEW c \in Proc, Ended(c) PROVE Alone'
  <2>1. /\ at[c] \in Resting /\ Meets(c) /\ Others(c)
    BY <1>a, <1>4, EndedDoes DEF Resting
  <2>2. at'[c] \notin {"find", "attach", "mount", "overlay", "record", "up"}
    BY <1>a, <1>4, EndedDoes DEF ProcTypes
  <2>3. AloneAt(c)'
    BY <2>2 DEF AloneAt
  <2>4. \A d \in Proc : d # c /\ d \notin met' => d \notin met /\ at[d] \in Resting
    BY <1>a, <2>1, MeetsAll
  <2>5. \A d \in Proc : d # c /\ d \notin met' => AloneAt(d)'
    BY <1>a, <2>1, <2>4, AloneRests DEF Others
  <2> QED
    BY <2>3, <2>5 DEF Alone
<1>5. ASSUME NEW c \in Proc, Reclaim(c) PROVE Alone'
  <2>2. at'[c] \notin {"find", "attach", "mount", "overlay", "record", "up"}
    BY <1>a, <1>5, ReclaimDoes DEF ProcTypes
  <2>3. AloneAt(c)'
    BY <2>2 DEF AloneAt
  <2>5. /\ UNCHANGED met /\ Others(c) /\ at[c] \notin Resting
    BY <1>a, <1>5, ReclaimDoes DEF Resting
  <2>6. \A d \in Proc : d # c /\ d \notin met => at[d] \in Resting
    BY <1>a, <2>5 DEF Turns
  <2>7. \A d \in Proc : d # c /\ d \notin met => AloneAt(d)'
    BY <1>a, <2>5, <2>6, AloneRests DEF Others
  <2> QED
    BY <2>3, <2>5, <2>7 DEF Alone
<1>6. ASSUME NEW c \in Proc, Clean(c) PROVE Alone'
  <2>2. at'[c] \notin {"find", "attach", "mount", "overlay", "record", "up"}
    BY <1>a, <1>6, CleanDoes DEF ProcTypes
  <2>3. AloneAt(c)'
    BY <2>2 DEF AloneAt
  <2>5. /\ UNCHANGED met /\ Others(c) /\ at[c] \notin Resting
    BY <1>a, <1>6, CleanDoes DEF Resting
  <2>6. \A d \in Proc : d # c /\ d \notin met => at[d] \in Resting
    BY <1>a, <2>5 DEF Turns
  <2>7. \A d \in Proc : d # c /\ d \notin met => AloneAt(d)'
    BY <1>a, <2>5, <2>6, AloneRests DEF Others
  <2> QED
    BY <2>3, <2>5, <2>7 DEF Alone
<1>7. ASSUME NEW c \in Proc, Check(c) PROVE Alone'
  <2>2. at'[c] \notin {"find", "attach", "mount", "overlay", "record", "up"}
    BY <1>a, <1>7, CheckDoes DEF ProcTypes
  <2>3. AloneAt(c)'
    BY <2>2 DEF AloneAt
  <2>5. /\ UNCHANGED met /\ Others(c) /\ at[c] \notin Resting
    BY <1>a, <1>7, CheckDoes DEF Resting
  <2>6. \A d \in Proc : d # c /\ d \notin met => at[d] \in Resting
    BY <1>a, <2>5 DEF Turns
  <2>7. \A d \in Proc : d # c /\ d \notin met => AloneAt(d)'
    BY <1>a, <2>5, <2>6, AloneRests DEF Others
  <2> QED
    BY <2>3, <2>5, <2>7 DEF Alone
<1>8. ASSUME NEW c \in Proc, UnmountImage(c) PROVE Alone'
  <2>2. at'[c] \notin {"find", "attach", "mount", "overlay", "record", "up"}
    BY <1>a, <1>8, UnmountImageDoes DEF ProcTypes
  <2>3. AloneAt(c)'
    BY <2>2 DEF AloneAt
  <2>5. /\ UNCHANGED met /\ Others(c) /\ at[c] \notin Resting
    BY <1>a, <1>8, UnmountImageDoes DEF Resting
  <2>6. \A d \in Proc : d # c /\ d \notin met => at[d] \in Resting
    BY <1>a, <2>5 DEF Turns
  <2>7. \A d \in Proc : d # c /\ d \notin met => AloneAt(d)'
    BY <1>a, <2>5, <2>6, AloneRests DEF Others
  <2> QED
    BY <2>3, <2>5, <2>7 DEF Alone
<1>9. ASSUME NEW c \in Proc, RemoveDir(c) PROVE Alone'
  <2>2. at'[c] \notin {"find", "attach", "mount", "overlay", "record", "up"}
    BY <1>a, <1>9, RemoveDirDoes DEF ProcTypes
  <2>3. AloneAt(c)'
    BY <2>2 DEF AloneAt
  <2>5. /\ UNCHANGED met /\ Others(c) /\ at[c] \notin Resting
    BY <1>a, <1>9, RemoveDirDoes DEF Resting
  <2>6. \A d \in Proc : d # c /\ d \notin met => at[d] \in Resting
    BY <1>a, <2>5 DEF Turns
  <2>7. \A d \in Proc : d # c /\ d \notin met => AloneAt(d)'
    BY <1>a, <2>5, <2>6, AloneRests DEF Others
  <2> QED
    BY <2>3, <2>5, <2>7 DEF Alone
<1>10. ASSUME NEW c \in Proc, Detach(c) PROVE Alone'
  <2>2. at'[c] \notin {"find", "attach", "mount", "overlay", "record", "up"}
    BY <1>a, <1>10, DetachDoes DEF ProcTypes
  <2>3. AloneAt(c)'
    BY <2>2 DEF AloneAt
  <2>5. /\ UNCHANGED met /\ Others(c) /\ at[c] \notin Resting
    BY <1>a, <1>10, DetachDoes DEF Resting
  <2>6. \A d \in Proc : d # c /\ d \notin met => at[d] \in Resting
    BY <1>a, <2>5 DEF Turns
  <2>7. \A d \in Proc : d # c /\ d \notin met => AloneAt(d)'
    BY <1>a, <2>5, <2>6, AloneRests DEF Others
  <2> QED
    BY <2>3, <2>5, <2>7 DEF Alone
<1>11. ASSUME NEW c \in Proc, FindMounted(c) PROVE Alone'
  <2>1. /\ lower[c] \in Img /\ sought'[c] = ver[lower[c]] /\ ver[lower[c]] \in Nat
        /\ UNCHANGED <<lower, loop, mounted, ver>>
        /\ \/ at'[c] = "find" /\ Reusable(lower[c]) = {}
           \/ at'[c] = "overlay" /\ held'[c].loop \in Reusable(lower[c])
    BY <1>a, <1>11, FindMountedDoes DEF Asked, CountTypes
  <2>2. ASSUME at'[c] = "find", Reusable(lower[c]) = {} PROVE AloneAt(c)'
    <3>2. ASSUME NEW l \in mounted, loop[l].file = lower[c] PROVE loop[l].ver < ver[lower[c]]
      <4>1. l \in Loop /\ loop[l].ver \in Nat /\ loop[l].ver <= ver[lower[c]]
        BY <1>a, <2>1, <3>2, RootSizes, NoFileTyped DEF KernelTypes, Backed, LoopsBack
      <4>2. loop[l].ver # ver[lower[c]]
        BY <2>2, <3>2 DEF Reusable
      <4> QED
        BY <2>1, <4>1, <4>2
    <3>3. Newer(c)'
      BY <2>1, <3>2 DEF Newer
    <3>4. sought'[c] <= ver'[lower'[c]]
      BY <2>1
    <3> QED
      BY <2>2, <3>3, <3>4 DEF AloneAt
  <2>3. ASSUME at'[c] = "overlay", held'[c].loop \in Reusable(lower[c]) PROVE AloneAt(c)'
    <3>1. held'[c].loop \in mounted /\ loop[held'[c].loop].file = lower[c] /\ loop[held'[c].loop].ver = ver[lower[c]]
      BY <2>3 DEF Reusable
    <3>2. Backs(c)'
      BY <2>1, <3>1 DEF Backs
    <3> QED
      BY <2>1, <2>3, <3>1, <3>2 DEF AloneAt
  <2>4. AloneAt(c)'
    BY <2>1, <2>2, <2>3
  <2>5. /\ UNCHANGED met /\ Others(c) /\ at[c] \notin Resting
    BY <1>a, <1>11, FindMountedDoes DEF Resting
  <2>6. \A d \in Proc : d # c /\ d \notin met => at[d] \in Resting
    BY <1>a, <2>5 DEF Turns
  <2>7. \A d \in Proc : d # c /\ d \notin met => AloneAt(d)'
    BY <1>a, <2>5, <2>6, AloneRests DEF Others
  <2> QED
    BY <2>4, <2>5, <2>7 DEF Alone
<1>12. ASSUME NEW c \in Proc, FindFreeLoopDevice(c) PROVE Alone'
  <2>2. /\ at[c] = "find" /\ at'[c] = "attach" /\ loop[held'[c].loop] = NoFile
        /\ UNCHANGED <<lower, loop, mounted, ver, sought, met>>
    BY <1>a, <1>12, FindFreeLoopDeviceDoes
  <2>4. c \notin met => AloneAt(c)'
    BY <1>a, <2>2 DEF Alone, AloneAt, Newer
  <2>5. /\ UNCHANGED met /\ Others(c) /\ at[c] \notin Resting
    BY <1>a, <1>12, FindFreeLoopDeviceDoes DEF Resting
  <2>6. \A d \in Proc : d # c /\ d \notin met => at[d] \in Resting
    BY <1>a, <2>5 DEF Turns
  <2>7. \A d \in Proc : d # c /\ d \notin met => AloneAt(d)'
    BY <1>a, <2>5, <2>6, AloneRests DEF Others
  <2> QED
    BY <2>4, <2>5, <2>7 DEF Alone
<1>13. ASSUME NEW c \in Proc, Attach(c) PROVE Alone'
  <2>2. /\ at[c] = "attach" /\ UNCHANGED <<lower, held, mounted, ver, sought, met>>
    BY <1>a, <1>13, AttachDoes
  <2>3. ASSUME c \notin met, at'[c] # "clean" PROVE AloneAt(c)'
    <3>1. PICK k : k = held[c].loop /\ k \in Loop
      BY <1>a DEF ProcTypes, Recorded
    <3>2. /\ at'[c] = "mount" /\ loop[k] = NoFile /\ loop'[k].file = lower[c] /\ loop'[k].ver = ver[lower[c]]
          /\ \A l \in Loop : l # k => loop'[l] = loop[l]
      BY <1>a, <1>13, <2>3, <3>1, AttachDoes
    <3>3. k \notin mounted
      BY <1>a, <3>2 DEF LoopsBack
    <3>4. sought[c] <= ver[lower[c]] /\ Newer(c)
      BY <1>a, <2>2, <2>3 DEF Alone, AloneAt
    <3>5. ver[lower[c]] \in Nat /\ sought[c] \in Nat
      BY <1>a, <2>2 DEF Asked, CountTypes, ProcTypes
    <3>6. \A l \in mounted : loop'[l] = loop[l]
      BY <1>a, <3>2, <3>3 DEF KernelTypes
    <3> QED
      BY <2>2, <3>1, <3>2, <3>3, <3>4, <3>5, <3>6 DEF AloneAt, Newer, Backs
  <2>4. c \notin met => AloneAt(c)'
    BY <2>3 DEF AloneAt
  <2>5. /\ UNCHANGED met /\ Others(c) /\ at[c] \notin Resting
    BY <1>a, <1>13, AttachDoes DEF Resting
  <2>6. \A d \in Proc : d # c /\ d \notin met => at[d] \in Resting
    BY <1>a, <2>5 DEF Turns
  <2>7. \A d \in Proc : d # c /\ d \notin met => AloneAt(d)'
    BY <1>a, <2>5, <2>6, AloneRests DEF Others
  <2> QED
    BY <2>4, <2>5, <2>7 DEF Alone
<1>14. ASSUME NEW c \in Proc, Killed(c) PROVE Alone'
  <2>2. at'[c] \notin {"find", "attach", "mount", "overlay", "record", "up"}
    BY <1>a, <1>14, KilledDoes DEF ProcTypes
  <2>3. AloneAt(c)'
    BY <2>2 DEF AloneAt
  <2>4. Others(c) /\ UNCHANGED <<met, loop, mounted, ver>>
    BY <1>a, <1>14, KilledDoes
  <2>5. \A d \in Proc : d # c /\ d \notin met => AloneAt(d)'
    BY <1>a, <2>4, AloneRests DEF Others
  <2> QED
    BY <2>3, <2>4, <2>5 DEF Alone
<1>15. ASSUME NEW c \in Proc, NEW ok \in BOOLEAN, MountImage(c, ok) PROVE Alone'
  <2>2. /\ at[c] = "mount" /\ UNCHANGED <<lower, held, ver, sought, met>>
        /\ \/ at'[c] = "overlay" /\ mounted' = mounted \cup {held[c].loop} /\ UNCHANGED loop
           \/ at'[c] = "clean"
    BY <1>a, <1>15, MountImageDoes
  <2>4. c \notin met => AloneAt(c)'
    BY <1>a, <2>2 DEF Alone, AloneAt, Backs
  <2>5. /\ UNCHANGED met /\ Others(c) /\ at[c] \notin Resting
    BY <1>a, <1>15, MountImageDoes DEF Resting
  <2>6. \A d \in Proc : d # c /\ d \notin met => at[d] \in Resting
    BY <1>a, <2>5 DEF Turns
  <2>7. \A d \in Proc : d # c /\ d \notin met => AloneAt(d)'
    BY <1>a, <2>5, <2>6, AloneRests DEF Others
  <2> QED
    BY <2>4, <2>5, <2>7 DEF Alone
<1>16. ASSUME NEW c \in Proc, NEW ok \in BOOLEAN, MountOverlay(c, ok) PROVE Alone'
  <2>2. at[c] = "overlay" /\ UNCHANGED <<lower, held, loop, mounted, sought, met>>
    BY <1>a, <1>16, MountOverlayDoes
  <2>3. ASSUME c \notin met, at'[c] # "clean" PROVE AloneAt(c)'
    <3>1. PICK k : k = held[c].loop /\ k \in Loop
      BY <1>a DEF ProcTypes, Recorded
    <3>2. k \in mounted /\ loop[k].file = lower[c] /\ loop[k].ver >= sought[c] /\ loop[k] \in Backed
      BY <1>a, <2>2, <2>3, <3>1 DEF Alone, AloneAt, Backs, KernelTypes
    <3>3. at'[c] \in {"up", "record"} /\ over'[c].shows = [loop[k] EXCEPT !.auto = FALSE]
      BY <1>a, <1>16, <2>3, <3>1, <3>2, MountOverlayDoes
    <3>4. over'[c].shows.file = lower[c] /\ over'[c].shows.ver = loop[k].ver
      BY <3>2, <3>3 DEF Backed
    <3>5. over'[c].shows # NoFile
      BY <1>a, <2>2, <3>4, RootSizes, NoFileTyped DEF Asked
    <3> QED
      BY <2>2, <3>1, <3>2, <3>3, <3>4, <3>5 DEF AloneAt
  <2>4. c \notin met => AloneAt(c)'
    BY <2>3 DEF AloneAt
  <2>5. /\ UNCHANGED met /\ Others(c) /\ at[c] \notin Resting
    BY <1>a, <1>16, MountOverlayDoes DEF Resting
  <2>6. \A d \in Proc : d # c /\ d \notin met => at[d] \in Resting
    BY <1>a, <2>5 DEF Turns
  <2>7. \A d \in Proc : d # c /\ d \notin met => AloneAt(d)'
    BY <1>a, <2>5, <2>6, AloneRests DEF Others
  <2> QED
    BY <2>4, <2>5, <2>7 DEF Alone
<1>17. ASSUME NEW c \in Proc, NEW ok \in BOOLEAN, StoreAndStart(c, ok) PROVE Alone'
  <2>2. at[c] = "record" /\ at'[c] \in {"up", "dead"} /\ UNCHANGED <<lower, over, sought, met>>
    BY <1>a, <1>17, StoreAndStartDoes
  <2>4. c \notin met => AloneAt(c)'
    BY <1>a, <2>2 DEF Alone, AloneAt
  <2>5. /\ UNCHANGED met /\ Others(c) /\ at[c] \notin Resting
    BY <1>a, <1>17, StoreAndStartDoes DEF Resting
  <2>6. \A d \in Proc : d # c /\ d \notin met => at[d] \in Resting
    BY <1>a, <2>5 DEF Turns
  <2>7. \A d \in Proc : d # c /\ d \notin met => AloneAt(d)'
    BY <1>a, <2>5, <2>6, AloneRests DEF Others
  <2> QED
    BY <2>4, <2>5, <2>7 DEF Alone
<1>18. ASSUME NEW i \in Img, Replace(i) PROVE Alone'
  <2>1. UNCHANGED <<at, lower, held, loop, mounted, over, sought, met>>
    BY <1>18 DEF Replace
  <2>2. \A f \in Img : ver[f] \in Nat /\ ver'[f] \in Nat /\ ver[f] <= ver'[f]
    BY <1>a, <1>18 DEF Replace, CountTypes
  <2>3. \A d \in Proc : sought[d] \in Nat /\ (at[d] # "idle" => lower[d] \in Img)
    BY <1>a DEF ProcTypes, Asked
  <2>4. ASSUME NEW d \in Proc \ met PROVE AloneAt(d)'
    <3>1. AloneAt(d)
      BY <1>a DEF Alone
    <3>2. at[d] \in {"find", "attach", "mount"} => sought[d] <= ver'[lower[d]]
      BY <2>2, <2>3, <3>1 DEF AloneAt
    <3> QED
      BY <2>1, <3>1, <3>2 DEF AloneAt, Newer, Backs
  <2> QED
    BY <2>1, <2>4 DEF Alone
<1> QED
  BY <1>1, <1>2, <1>3, <1>4, <1>5, <1>6, <1>7, <1>8, <1>9, <1>10, <1>11, <1>12, <1>13, <1>14,
     <1>15, <1>16, <1>17, <1>18 DEF RootNext

\* What stays mounted stays what it is.
LEMMA MountsKept ==
  ASSUME KernelTypes, LoopsBack, Loosens, NEW l \in mounted, l \in mounted'
  PROVE  loop'[l].file = loop[l].file /\ loop'[l].ver = loop[l].ver
<1>1. l \in Loop /\ loop[l] # NoFile /\ Users(l, mounted', over')
  BY DEF KernelTypes, LoopsBack, Users
<1> QED
  BY <1>1 DEF Loosens

\* An image is mounted once.
LEMMA IdempotentStep ==
  ASSUME RootInv, RootNext
  PROVE  Idempotent'
<1>a. ProcTypes /\ KernelTypes /\ CountTypes /\ LoopsBack /\ Asked /\ Turns /\ Alone /\ Idempotent
  BY DEF RootInv
<1>1. ASSUME NEW c \in Proc, NEW i \in Img, FreshRun(c, i) PROVE Idempotent'
  <2>1. UNCHANGED <<loop, mounted>> /\ (crowded => crowded')
    BY <1>a, <1>1, FreshRunDoes DEF Meets
  <2> QED
    BY <1>a, <2>1 DEF Idempotent
<1>2. ASSUME NEW c \in Proc, NEW i \in Img, SnapshotMerge(c, i) PROVE Idempotent'
  <2>1. UNCHANGED <<loop, mounted>> /\ (crowded => crowded')
    BY <1>a, <1>2, SnapshotMergeDoes DEF Meets
  <2> QED
    BY <1>a, <2>1 DEF Idempotent
<1>3. ASSUME NEW c \in Proc, NEW g \in {"start", "end"}, FromRecord(c, g) PROVE Idempotent'
  <2>1. UNCHANGED <<loop, mounted>> /\ (crowded => crowded')
    BY <1>a, <1>3, FromRecordDoes DEF Meets
  <2> QED
    BY <1>a, <2>1 DEF Idempotent
<1>4. ASSUME NEW c \in Proc, Ended(c) PROVE Idempotent'
  <2>1. UNCHANGED <<loop, mounted>> /\ (crowded => crowded')
    BY <1>a, <1>4, EndedDoes DEF Meets
  <2> QED
    BY <1>a, <2>1 DEF Idempotent
<1>5. ASSUME NEW c \in Proc, Reclaim(c) PROVE Idempotent'
  BY <1>a, <1>5, ReclaimDoes DEF Idempotent
<1>6. ASSUME NEW c \in Proc, Clean(c) PROVE Idempotent'
  <2>1. Loosens /\ mounted' \subseteq mounted /\ UNCHANGED crowded
    BY <1>a, <1>6, CleanDoes
  <2> QED
    BY <1>a, <2>1, MountsKept DEF Idempotent
<1>7. ASSUME NEW c \in Proc, Check(c) PROVE Idempotent'
  BY <1>a, <1>7, CheckDoes DEF Idempotent
<1>8. ASSUME NEW c \in Proc, UnmountImage(c) PROVE Idempotent'
  <2>1. Loosens /\ mounted' \subseteq mounted /\ UNCHANGED crowded
    BY <1>a, <1>8, UnmountImageDoes
  <2> QED
    BY <1>a, <2>1, MountsKept DEF Idempotent
<1>9. ASSUME NEW c \in Proc, RemoveDir(c) PROVE Idempotent'
  BY <1>a, <1>9, RemoveDirDoes DEF Idempotent
<1>10. ASSUME NEW c \in Proc, Detach(c) PROVE Idempotent'
  <2>1. Loosens /\ mounted' \subseteq mounted /\ UNCHANGED crowded
    BY <1>a, <1>10, DetachDoes
  <2> QED
    BY <1>a, <2>1, MountsKept DEF Idempotent
<1>11. ASSUME NEW c \in Proc, FindMounted(c) PROVE Idempotent'
  BY <1>a, <1>11, FindMountedDoes DEF Idempotent
<1>12. ASSUME NEW c \in Proc, FindFreeLoopDevice(c) PROVE Idempotent'
  BY <1>a, <1>12, FindFreeLoopDeviceDoes DEF Idempotent
<1>13. ASSUME NEW c \in Proc, Attach(c) PROVE Idempotent'
  <2>1. UNCHANGED <<mounted, crowded>> /\ \A l \in mounted : loop'[l] = loop[l]
    BY <1>a, <1>13, AttachDoes DEF LoopsBack, KernelTypes
  <2> QED
    BY <1>a, <2>1 DEF Idempotent
<1>14. ASSUME NEW c \in Proc, Killed(c) PROVE Idempotent'
  BY <1>a, <1>14, KilledDoes DEF Idempotent
<1>15. ASSUME NEW c \in Proc, NEW ok \in BOOLEAN, MountImage(c, ok) PROVE Idempotent'
  <2>1. CASE Loosens /\ UNCHANGED mounted
    <3>1. UNCHANGED crowded
      BY <1>a, <1>15, MountImageDoes
    <3> QED
      BY <1>a, <2>1, <3>1, MountsKept DEF Idempotent
  <2>2. CASE mounted' = mounted \cup {held[c].loop} /\ UNCHANGED loop
    <3>1. at[c] = "mount" /\ UNCHANGED crowded
      BY <1>a, <1>15, MountImageDoes
    <3>2. ASSUME ~crowded PROVE \A l \in mounted : loop[l].file = loop[held[c].loop].file => loop[l].ver # loop[held[c].loop].ver
      <4>1. AloneAt(c)
        BY <1>a, <3>2 DEF Turns, Alone
      <4>2. Newer(c) /\ Backs(c)
        BY <3>1, <4>1 DEF AloneAt
      <4>3. sought[c] \in Nat /\ \A l \in Loop : loop[l].ver \in Nat
        BY <1>a DEF ProcTypes, KernelTypes, Backed
      <4>4. held[c].loop \in Loop /\ mounted \subseteq Loop
        BY <1>a DEF ProcTypes, Recorded, KernelTypes
      <4> QED
        BY <4>2, <4>3, <4>4 DEF Newer, Backs
    <3> QED
      BY <1>a, <2>2, <3>1, <3>2 DEF Idempotent
  <2> QED
    BY <1>a, <1>15, <2>1, <2>2, MountImageDoes
<1>16. ASSUME NEW c \in Proc, NEW ok \in BOOLEAN, MountOverlay(c, ok) PROVE Idempotent'
  <2>1. UNCHANGED <<loop, mounted, crowded>>
    BY <1>a, <1>16, MountOverlayDoes
  <2> QED
    BY <1>a, <2>1 DEF Idempotent
<1>17. ASSUME NEW c \in Proc, NEW ok \in BOOLEAN, StoreAndStart(c, ok) PROVE Idempotent'
  BY <1>a, <1>17, StoreAndStartDoes DEF Idempotent
<1>18. ASSUME NEW i \in Img, Replace(i) PROVE Idempotent'
  BY <1>a, <1>18 DEF Replace, Idempotent
<1> QED
  BY <1>1, <1>2, <1>3, <1>4, <1>5, <1>6, <1>7, <1>8, <1>9, <1>10, <1>11, <1>12, <1>13, <1>14,
     <1>15, <1>16, <1>17, <1>18 DEF RootNext

\* A merge that others leave alone, and one that lets go.
LEMMA MergeRests ==
  ASSUME Asked, Turns, Alone, OwnMerge, OverlaysBack', ~crowded, NEW s \in Snappers, s \in Proc, Rests(s),
         at[s] \in Resting \/ UNCHANGED <<loop, mounted>>
  PROVE  MergeAt(s)'
<1>1. MergeAt(s) /\ AloneAt(s)
  BY DEF OwnMerge, Turns, Alone
<1>2. CASE at[s] = "up"
  <2>1. over[s].on /\ over[s].loop = held[s].loop /\ over[s].shows # NoFile /\ over[s].shows.file = lower[s]
    BY <1>1, <1>2 DEF Asked, AloneAt
  <2>2. over'[s] = over[s] /\ held'[s] = held[s] /\ lower'[s] = lower[s]
    BY DEF Rests
  <2>3. loop'[over'[s].loop].file = over'[s].shows.file
    BY <2>1, <2>2 DEF OverlaysBack
  <2> QED
    BY <2>1, <2>2, <2>3 DEF MergeAt
<1>3. CASE at[s] \in {"idle", "dead"}
  BY <1>3 DEF MergeAt, Rests
<1>4. CASE UNCHANGED <<loop, mounted>>
  BY <1>1, <1>4 DEF MergeAt, Rests
<1> QED
  BY <1>2, <1>3, <1>4 DEF Resting

LEMMA MergeStays ==
  ASSUME KernelTypes, LoopsBack, Loosens, NEW s \in Proc, MergeAt(s), at[s] \notin {"idle", "dead"},
         UNCHANGED <<lower, held>>, mounted' \subseteq mounted
  PROVE  MergeAt(s)'
  BY MountsKept DEF MergeAt

\* A merge holds its own image.
LEMMA OwnMergeStep ==
  ASSUME RootInv, RootNext
  PROVE  OwnMerge'
<1>a. ProcTypes /\ KernelTypes /\ CountTypes /\ LoopsBack /\ OverlaysBack /\ Asked /\ Turns /\ Alone /\ OwnMerge
  BY DEF RootInv
<1>b. OverlaysBack'
  BY OverlaysBackStep
<1>1. ASSUME NEW c \in Proc, NEW i \in Img, FreshRun(c, i) PROVE OwnMerge'
  <2>1. at[c] \in Resting /\ Meets(c) /\ Others(c)
    BY <1>a, <1>1, FreshRunDoes DEF Resting
  <2>2. ASSUME ~crowded' PROVE ~crowded /\ \A d \in Proc : at[d] \in Resting
    BY <1>a, <2>1, <2>2, MeetsAll
  <2>3. c \notin Snappers
    BY <1>a, <1>1, FreshRunDoes, NoFileTyped DEF MergeAt, Containers
  <2>4. ASSUME ~crowded', NEW s \in Snappers, s # c PROVE MergeAt(s)'
    BY <1>a, <1>b, <2>1, <2>2, <2>4, MergeRests, RootSizes DEF Others
  <2> QED
    BY <1>a, <2>2, <2>3, <2>4 DEF OwnMerge
<1>2. ASSUME NEW c \in Proc, NEW i \in Img, SnapshotMerge(c, i) PROVE OwnMerge'
  <2>1. at[c] \in Resting /\ Meets(c) /\ Others(c)
    BY <1>a, <1>2, SnapshotMergeDoes DEF Resting
  <2>2. ASSUME ~crowded' PROVE ~crowded /\ \A d \in Proc : at[d] \in Resting
    BY <1>a, <2>1, <2>2, MeetsAll
  <2>3. MergeAt(c)'
    BY <1>a, <1>2, SnapshotMergeDoes, NoFileTyped DEF MergeAt, Containers
  <2>4. ASSUME ~crowded', NEW s \in Snappers, s # c PROVE MergeAt(s)'
    BY <1>a, <1>b, <2>1, <2>2, <2>4, MergeRests, RootSizes DEF Others
  <2> QED
    BY <1>a, <2>2, <2>3, <2>4 DEF OwnMerge
<1>3. ASSUME NEW c \in Proc, NEW g \in {"start", "end"}, FromRecord(c, g) PROVE OwnMerge'
  <2>1. at[c] \in Resting /\ Meets(c) /\ Others(c)
    BY <1>a, <1>3, FromRecordDoes DEF Resting
  <2>2. ASSUME ~crowded' PROVE ~crowded /\ \A d \in Proc : at[d] \in Resting
    BY <1>a, <2>1, <2>2, MeetsAll
  <2>3. c \notin Snappers
    BY <1>a, <1>3, FromRecordDoes, NoFileTyped DEF MergeAt, Containers
  <2>4. ASSUME ~crowded', NEW s \in Snappers, s # c PROVE MergeAt(s)'
    BY <1>a, <1>b, <2>1, <2>2, <2>4, MergeRests, RootSizes DEF Others
  <2> QED
    BY <1>a, <2>2, <2>3, <2>4 DEF OwnMerge
<1>4. ASSUME NEW c \in Proc, Ended(c) PROVE OwnMerge'
  <2>1. at[c] \in Resting /\ Meets(c) /\ Others(c)
    BY <1>a, <1>4, EndedDoes DEF Resting
  <2>2. ASSUME ~crowded' PROVE ~crowded /\ \A d \in Proc : at[d] \in Resting
    BY <1>a, <2>1, <2>2, MeetsAll
  <2>3. MergeAt(c) => MergeAt(c)'
    BY <1>a, <1>4, EndedDoes, NoFileTyped DEF MergeAt, Containers
  <2>4. ASSUME ~crowded', NEW s \in Snappers, s # c PROVE MergeAt(s)'
    BY <1>a, <1>b, <2>1, <2>2, <2>4, MergeRests, RootSizes DEF Others
  <2> QED
    BY <1>a, <2>2, <2>3, <2>4 DEF OwnMerge
<1>5. ASSUME NEW c \in Proc, Reclaim(c) PROVE OwnMerge'
  <2>1. ASSUME ~crowded, c \in Snappers PROVE MergeAt(c)'
    <3>1. at[c] \notin {"idle", "dead"} /\ UNCHANGED <<lower, held>> /\ mounted' \subseteq mounted /\ Loosens
      BY <1>a, <1>5, ReclaimDoes, StaysLoosens
    <3>2. MergeAt(c)
      BY <1>a, <2>1 DEF OwnMerge
    <3> QED
      BY <1>a, <3>1, <3>2, MergeStays
  <2>2. Others(c) /\ UNCHANGED crowded /\ at[c] \notin Resting
    BY <1>a, <1>5, ReclaimDoes DEF Resting
  <2>3. ASSUME ~crowded, NEW s \in Snappers, s # c PROVE MergeAt(s)'
    <3>1. at[s] \in Resting
      BY <1>a, <2>2, <2>3, RootSizes DEF Turns
    <3> QED
      BY <1>a, <1>b, <2>2, <2>3, <3>1, MergeRests, RootSizes DEF Others
  <2> QED
    BY <2>1, <2>2, <2>3 DEF OwnMerge
<1>6. ASSUME NEW c \in Proc, Clean(c) PROVE OwnMerge'
  <2>1. ASSUME ~crowded, c \in Snappers PROVE MergeAt(c)'
    <3>1. at[c] \notin {"idle", "dead"} /\ UNCHANGED <<lower, held>> /\ mounted' \subseteq mounted /\ Loosens
      BY <1>a, <1>6, CleanDoes, StaysLoosens
    <3>2. MergeAt(c)
      BY <1>a, <2>1 DEF OwnMerge
    <3> QED
      BY <1>a, <3>1, <3>2, MergeStays
  <2>2. Others(c) /\ UNCHANGED crowded /\ at[c] \notin Resting
    BY <1>a, <1>6, CleanDoes DEF Resting
  <2>3. ASSUME ~crowded, NEW s \in Snappers, s # c PROVE MergeAt(s)'
    <3>1. at[s] \in Resting
      BY <1>a, <2>2, <2>3, RootSizes DEF Turns
    <3> QED
      BY <1>a, <1>b, <2>2, <2>3, <3>1, MergeRests, RootSizes DEF Others
  <2> QED
    BY <2>1, <2>2, <2>3 DEF OwnMerge
<1>7. ASSUME NEW c \in Proc, Check(c) PROVE OwnMerge'
  <2>1. ASSUME ~crowded, c \in Snappers PROVE MergeAt(c)'
    <3>1. at[c] \notin {"idle", "dead"} /\ UNCHANGED <<lower, held>> /\ mounted' \subseteq mounted /\ Loosens
      BY <1>a, <1>7, CheckDoes, StaysLoosens
    <3>2. MergeAt(c)
      BY <1>a, <2>1 DEF OwnMerge
    <3> QED
      BY <1>a, <3>1, <3>2, MergeStays
  <2>2. Others(c) /\ UNCHANGED crowded /\ at[c] \notin Resting
    BY <1>a, <1>7, CheckDoes DEF Resting
  <2>3. ASSUME ~crowded, NEW s \in Snappers, s # c PROVE MergeAt(s)'
    <3>1. at[s] \in Resting
      BY <1>a, <2>2, <2>3, RootSizes DEF Turns
    <3> QED
      BY <1>a, <1>b, <2>2, <2>3, <3>1, MergeRests, RootSizes DEF Others
  <2> QED
    BY <2>1, <2>2, <2>3 DEF OwnMerge
<1>8. ASSUME NEW c \in Proc, UnmountImage(c) PROVE OwnMerge'
  <2>1. ASSUME ~crowded, c \in Snappers PROVE MergeAt(c)'
    <3>1. at[c] \notin {"idle", "dead"} /\ UNCHANGED <<lower, held>> /\ mounted' \subseteq mounted /\ Loosens
      BY <1>a, <1>8, UnmountImageDoes, StaysLoosens
    <3>2. MergeAt(c)
      BY <1>a, <2>1 DEF OwnMerge
    <3> QED
      BY <1>a, <3>1, <3>2, MergeStays
  <2>2. Others(c) /\ UNCHANGED crowded /\ at[c] \notin Resting
    BY <1>a, <1>8, UnmountImageDoes DEF Resting
  <2>3. ASSUME ~crowded, NEW s \in Snappers, s # c PROVE MergeAt(s)'
    <3>1. at[s] \in Resting
      BY <1>a, <2>2, <2>3, RootSizes DEF Turns
    <3> QED
      BY <1>a, <1>b, <2>2, <2>3, <3>1, MergeRests, RootSizes DEF Others
  <2> QED
    BY <2>1, <2>2, <2>3 DEF OwnMerge
<1>9. ASSUME NEW c \in Proc, RemoveDir(c) PROVE OwnMerge'
  <2>1. ASSUME ~crowded, c \in Snappers PROVE MergeAt(c)'
    <3>1. at[c] \notin {"idle", "dead"} /\ UNCHANGED <<lower, held>> /\ mounted' \subseteq mounted /\ Loosens
      BY <1>a, <1>9, RemoveDirDoes, StaysLoosens
    <3>2. MergeAt(c)
      BY <1>a, <2>1 DEF OwnMerge
    <3> QED
      BY <1>a, <3>1, <3>2, MergeStays
  <2>2. Others(c) /\ UNCHANGED crowded /\ at[c] \notin Resting
    BY <1>a, <1>9, RemoveDirDoes DEF Resting
  <2>3. ASSUME ~crowded, NEW s \in Snappers, s # c PROVE MergeAt(s)'
    <3>1. at[s] \in Resting
      BY <1>a, <2>2, <2>3, RootSizes DEF Turns
    <3> QED
      BY <1>a, <1>b, <2>2, <2>3, <3>1, MergeRests, RootSizes DEF Others
  <2> QED
    BY <2>1, <2>2, <2>3 DEF OwnMerge
<1>10. ASSUME NEW c \in Proc, Detach(c) PROVE OwnMerge'
  <2>1. ASSUME ~crowded, c \in Snappers PROVE MergeAt(c)'
    <3>1. at[c] \notin {"idle", "dead"} /\ UNCHANGED <<lower, held>> /\ mounted' \subseteq mounted /\ Loosens
      BY <1>a, <1>10, DetachDoes, StaysLoosens
    <3>2. MergeAt(c)
      BY <1>a, <2>1 DEF OwnMerge
    <3> QED
      BY <1>a, <3>1, <3>2, MergeStays
  <2>2. Others(c) /\ UNCHANGED crowded /\ at[c] \notin Resting
    BY <1>a, <1>10, DetachDoes DEF Resting
  <2>3. ASSUME ~crowded, NEW s \in Snappers, s # c PROVE MergeAt(s)'
    <3>1. at[s] \in Resting
      BY <1>a, <2>2, <2>3, RootSizes DEF Turns
    <3> QED
      BY <1>a, <1>b, <2>2, <2>3, <3>1, MergeRests, RootSizes DEF Others
  <2> QED
    BY <2>1, <2>2, <2>3 DEF OwnMerge
<1>11. ASSUME NEW c \in Proc, FindMounted(c) PROVE OwnMerge'
  <2>1. ASSUME ~crowded, c \in Snappers PROVE MergeAt(c)'
    <3>1. UNCHANGED <<lower, loop, mounted>> /\ at[c] = "lookup" /\ (UNCHANGED held \/ held'[c].loop \in Reusable(lower[c]))
      BY <1>a, <1>11, FindMountedDoes
    <3>2. MergeAt(c)
      BY <1>a, <2>1 DEF OwnMerge
    <3> QED
      BY <3>1, <3>2 DEF MergeAt, Reusable
  <2>2. Others(c) /\ UNCHANGED crowded /\ at[c] \notin Resting
    BY <1>a, <1>11, FindMountedDoes DEF Resting
  <2>3. ASSUME ~crowded, NEW s \in Snappers, s # c PROVE MergeAt(s)'
    <3>1. at[s] \in Resting
      BY <1>a, <2>2, <2>3, RootSizes DEF Turns
    <3> QED
      BY <1>a, <1>b, <2>2, <2>3, <3>1, MergeRests, RootSizes DEF Others
  <2> QED
    BY <2>1, <2>2, <2>3 DEF OwnMerge
<1>12. ASSUME NEW c \in Proc, FindFreeLoopDevice(c) PROVE OwnMerge'
  <2>1. ASSUME ~crowded, c \in Snappers PROVE MergeAt(c)'
    <3>1. UNCHANGED <<loop, mounted>> /\ loop[held'[c].loop] = NoFile
      BY <1>a, <1>12, FindFreeLoopDeviceDoes
    <3> QED
      BY <1>a, <3>1 DEF MergeAt, LoopsBack
  <2>2. Others(c) /\ UNCHANGED crowded /\ at[c] \notin Resting
    BY <1>a, <1>12, FindFreeLoopDeviceDoes DEF Resting
  <2>3. ASSUME ~crowded, NEW s \in Snappers, s # c PROVE MergeAt(s)'
    <3>1. at[s] \in Resting
      BY <1>a, <2>2, <2>3, RootSizes DEF Turns
    <3> QED
      BY <1>a, <1>b, <2>2, <2>3, <3>1, MergeRests, RootSizes DEF Others
  <2> QED
    BY <2>1, <2>2, <2>3 DEF OwnMerge
<1>13. ASSUME NEW c \in Proc, Attach(c) PROVE OwnMerge'
  <2>1. ASSUME ~crowded, c \in Snappers PROVE MergeAt(c)'
    <3>1. UNCHANGED <<lower, held, mounted>> /\ (UNCHANGED loop \/ loop'[held[c].loop].file = lower[c]) /\ at[c] = "attach"
      BY <1>a, <1>13, AttachDoes
    <3>2. MergeAt(c)
      BY <1>a, <2>1 DEF OwnMerge
    <3> QED
      BY <3>1, <3>2 DEF MergeAt
  <2>2. Others(c) /\ UNCHANGED crowded /\ at[c] \notin Resting
    BY <1>a, <1>13, AttachDoes DEF Resting
  <2>3. ASSUME ~crowded, NEW s \in Snappers, s # c PROVE MergeAt(s)'
    <3>1. at[s] \in Resting
      BY <1>a, <2>2, <2>3, RootSizes DEF Turns
    <3> QED
      BY <1>a, <1>b, <2>2, <2>3, <3>1, MergeRests, RootSizes DEF Others
  <2> QED
    BY <2>1, <2>2, <2>3 DEF OwnMerge
<1>14. ASSUME NEW c \in Proc, Killed(c) PROVE OwnMerge'
  <2>1. ASSUME ~crowded, c \in Snappers PROVE MergeAt(c)'
    <3>1. at'[c] = "dead"
      BY <1>a, <1>14, KilledDoes
    <3> QED
      BY <3>1 DEF MergeAt
  <2>2. Others(c) /\ UNCHANGED <<crowded, loop, mounted>>
    BY <1>a, <1>14, KilledDoes
  <2>3. ASSUME ~crowded, NEW s \in Snappers, s # c PROVE MergeAt(s)'
    BY <1>a, <1>b, <2>2, <2>3, MergeRests, RootSizes DEF Others
  <2> QED
    BY <2>1, <2>2, <2>3 DEF OwnMerge
<1>15. ASSUME NEW c \in Proc, NEW ok \in BOOLEAN, MountImage(c, ok) PROVE OwnMerge'
  <2>1. ASSUME ~crowded, c \in Snappers PROVE MergeAt(c)'
    <3>1. /\ at[c] = "mount" /\ UNCHANGED <<lower, held>>
          /\ UNCHANGED loop \/ (Loosens /\ UNCHANGED mounted)
      BY <1>a, <1>15, MountImageDoes
    <3>2. MergeAt(c) /\ AloneAt(c)
      BY <1>a, <2>1 DEF OwnMerge, Turns, Alone
    <3>3. loop[held[c].loop].file = lower[c]
      BY <3>1, <3>2 DEF AloneAt, Backs
    <3>4. CASE UNCHANGED loop
      BY <3>1, <3>3, <3>4 DEF MergeAt
    <3>5. CASE Loosens /\ UNCHANGED mounted
      BY <1>a, <3>1, <3>2, <3>5, MergeStays
    <3> QED
      BY <3>1, <3>4, <3>5
  <2>2. Others(c) /\ UNCHANGED crowded /\ at[c] \notin Resting
    BY <1>a, <1>15, MountImageDoes DEF Resting
  <2>3. ASSUME ~crowded, NEW s \in Snappers, s # c PROVE MergeAt(s)'
    <3>1. at[s] \in Resting
      BY <1>a, <2>2, <2>3, RootSizes DEF Turns
    <3> QED
      BY <1>a, <1>b, <2>2, <2>3, <3>1, MergeRests, RootSizes DEF Others
  <2> QED
    BY <2>1, <2>2, <2>3 DEF OwnMerge
<1>16. ASSUME NEW c \in Proc, NEW ok \in BOOLEAN, MountOverlay(c, ok) PROVE OwnMerge'
  <2>1. ASSUME ~crowded, c \in Snappers PROVE MergeAt(c)'
    <3>1. at[c] \notin {"idle", "dead"} /\ UNCHANGED <<lower, held>> /\ mounted' \subseteq mounted /\ Loosens
      BY <1>a, <1>16, MountOverlayDoes, StaysLoosens
    <3>2. MergeAt(c)
      BY <1>a, <2>1 DEF OwnMerge
    <3> QED
      BY <1>a, <3>1, <3>2, MergeStays
  <2>2. Others(c) /\ UNCHANGED crowded /\ at[c] \notin Resting
    BY <1>a, <1>16, MountOverlayDoes DEF Resting
  <2>3. ASSUME ~crowded, NEW s \in Snappers, s # c PROVE MergeAt(s)'
    <3>1. at[s] \in Resting
      BY <1>a, <2>2, <2>3, RootSizes DEF Turns
    <3> QED
      BY <1>a, <1>b, <2>2, <2>3, <3>1, MergeRests, RootSizes DEF Others
  <2> QED
    BY <2>1, <2>2, <2>3 DEF OwnMerge
<1>17. ASSUME NEW c \in Proc, NEW ok \in BOOLEAN, StoreAndStart(c, ok) PROVE OwnMerge'
  <2>1. ASSUME ~crowded, c \in Snappers PROVE MergeAt(c)'
    <3>1. at[c] \notin {"idle", "dead"} /\ UNCHANGED <<lower, held>> /\ mounted' \subseteq mounted /\ Loosens
      BY <1>a, <1>17, StoreAndStartDoes, StaysLoosens
    <3>2. MergeAt(c)
      BY <1>a, <2>1 DEF OwnMerge
    <3> QED
      BY <1>a, <3>1, <3>2, MergeStays
  <2>2. Others(c) /\ UNCHANGED crowded /\ at[c] \notin Resting
    BY <1>a, <1>17, StoreAndStartDoes DEF Resting
  <2>3. ASSUME ~crowded, NEW s \in Snappers, s # c PROVE MergeAt(s)'
    <3>1. at[s] \in Resting
      BY <1>a, <2>2, <2>3, RootSizes DEF Turns
    <3> QED
      BY <1>a, <1>b, <2>2, <2>3, <3>1, MergeRests, RootSizes DEF Others
  <2> QED
    BY <2>1, <2>2, <2>3 DEF OwnMerge
<1>18. ASSUME NEW i \in Img, Replace(i) PROVE OwnMerge'
  <2>1. UNCHANGED <<at, lower, held, loop, mounted, crowded>>
    BY <1>18 DEF Replace
  <2> QED
    BY <1>a, <2>1 DEF OwnMerge, MergeAt
<1> QED
  BY <1>1, <1>2, <1>3, <1>4, <1>5, <1>6, <1>7, <1>8, <1>9, <1>10, <1>11, <1>12, <1>13, <1>14,
     <1>15, <1>16, <1>17, <1>18 DEF RootNext

\* Nobody is about to unmount what a container runs on.
LEMMA SparedStep ==
  ASSUME RootInv, RootNext
  PROVE  Spared'
<1>a. ProcTypes /\ KernelTypes /\ CountTypes /\ LoopsBack /\ OverlaysBack /\ Asked /\ Turns /\ Alone /\ LiveMountKept /\ OwnMerge /\ Spared
  BY DEF RootInv
<1>1. ASSUME NEW c \in Proc, NEW i \in Img, FreshRun(c, i) PROVE Spared'
  <2>1. at'[c] \notin {"umount", "up"} /\ at[c] \in Resting /\ Meets(c) /\ Others(c)
    BY <1>a, <1>1, FreshRunDoes DEF Resting
  <2>2. ASSUME ~crowded', NEW d \in Proc PROVE at'[d] # "umount"
    <3>1. at[d] \in Resting
      BY <1>a, <2>1, <2>2, MeetsAll
    <3> QED
      BY <2>1, <3>1 DEF Others, Rests, Resting
  <2> QED
    BY <2>2 DEF Spared
<1>2. ASSUME NEW c \in Proc, NEW i \in Img, SnapshotMerge(c, i) PROVE Spared'
  <2>1. at'[c] \notin {"umount", "up"} /\ at[c] \in Resting /\ Meets(c) /\ Others(c)
    BY <1>a, <1>2, SnapshotMergeDoes DEF Resting
  <2>2. ASSUME ~crowded', NEW d \in Proc PROVE at'[d] # "umount"
    <3>1. at[d] \in Resting
      BY <1>a, <2>1, <2>2, MeetsAll
    <3> QED
      BY <2>1, <3>1 DEF Others, Rests, Resting
  <2> QED
    BY <2>2 DEF Spared
<1>3. ASSUME NEW c \in Proc, NEW g \in {"start", "end"}, FromRecord(c, g) PROVE Spared'
  <2>1. at'[c] \notin {"umount", "up"} /\ at[c] \in Resting /\ Meets(c) /\ Others(c)
    BY <1>a, <1>3, FromRecordDoes DEF Resting
  <2>2. ASSUME ~crowded', NEW d \in Proc PROVE at'[d] # "umount"
    <3>1. at[d] \in Resting
      BY <1>a, <2>1, <2>2, MeetsAll
    <3> QED
      BY <2>1, <3>1 DEF Others, Rests, Resting
  <2> QED
    BY <2>2 DEF Spared
<1>4. ASSUME NEW c \in Proc, Ended(c) PROVE Spared'
  <2>1. at'[c] \notin {"umount", "up"} /\ at[c] \in Resting /\ Meets(c) /\ Others(c)
    BY <1>a, <1>4, EndedDoes DEF Resting
  <2>2. ASSUME ~crowded', NEW d \in Proc PROVE at'[d] # "umount"
    <3>1. at[d] \in Resting
      BY <1>a, <2>1, <2>2, MeetsAll
    <3> QED
      BY <2>1, <3>1 DEF Others, Rests, Resting
  <2> QED
    BY <2>2 DEF Spared
<1>5. ASSUME NEW c \in Proc, Reclaim(c) PROVE Spared'
  <2>1. /\ at[c] \notin Resting /\ at'[c] # "up" /\ UNCHANGED <<crowded, over, lower>> /\ Others(c)
    BY <1>a, <1>5, ReclaimDoes DEF Resting
  <2>2. ASSUME ~crowded', NEW e \in Containers, NEW d \in Proc, at'[e] = "up", Unshared(e)', at'[d] = "umount"
        PROVE  down'[d] # over'[e].loop
    <3>1. d = c
      BY <1>a, <2>1, <2>2 DEF Turns, Others, Rests, Resting
    <3>2. e \in Proc /\ e # c /\ at[e] = "up" /\ Unshared(e) /\ over'[e].loop = over[e].loop
      BY <2>1, <2>2 DEF Others, Rests, Containers, Unshared
    <3>3. over[e].on /\ rec[e].file # "none" /\ rec[e].loop = over[e].loop
      BY <1>a, <2>2, <3>2 DEF Asked
    <3>4. Stale(c) /\ down'[c] = rec[c].loop
      BY <1>a, <1>5, <2>2, <3>1, ReclaimDoes
    <3>5. rec[e].loop # rec[c].loop
      BY <3>2, <3>3, <3>4, NoFileTyped DEF Stale
    <3> QED
      BY <3>1, <3>2, <3>3, <3>4, <3>5
  <2> QED
    BY <2>2 DEF Spared
<1>6. ASSUME NEW c \in Proc, Clean(c) PROVE Spared'
  <2>1. at'[c] # "umount" /\ at[c] \notin Resting /\ UNCHANGED crowded /\ Others(c)
    BY <1>a, <1>6, CleanDoes DEF Resting, ProcTypes
  <2>2. ASSUME ~crowded', NEW d \in Proc PROVE at'[d] # "umount"
    <3>1. d # c => at[d] \in Resting
      BY <1>a, <2>1, <2>2 DEF Turns
    <3> QED
      BY <2>1, <3>1 DEF Others, Rests, Resting
  <2> QED
    BY <2>2 DEF Spared
<1>7. ASSUME NEW c \in Proc, Check(c) PROVE Spared'
  <2>1. /\ at[c] \notin Resting /\ at'[c] # "up" /\ UNCHANGED <<crowded, over, lower>> /\ Others(c)
    BY <1>a, <1>7, CheckDoes DEF Resting
  <2>2. ASSUME ~crowded', NEW e \in Containers, NEW d \in Proc, at'[e] = "up", Unshared(e)', at'[d] = "umount"
        PROVE  down'[d] # over'[e].loop
    <3>1. d = c
      BY <1>a, <2>1, <2>2 DEF Turns, Others, Rests, Resting
    <3>2. e \in Proc /\ e # c /\ at[e] = "up" /\ Unshared(e) /\ over'[e].loop = over[e].loop
      BY <2>1, <2>2 DEF Others, Rests, Containers, Unshared
    <3>3. over[e].on /\ rec[e].file # "none" /\ rec[e].loop = over[e].loop
      BY <1>a, <2>2, <3>2 DEF Asked
    <3>4. down'[c] = held[c].loop /\ (c \in Snappers \/ ~ImmutableInUse(held[c].loop)) /\ held[c] # NoImage
      BY <1>a, <1>7, <2>2, <3>1 DEF Check, Over, ProcTypes
    <3>5. CASE ~ImmutableInUse(held[c].loop)
      BY <3>1, <3>2, <3>3, <3>4, <3>5 DEF ImmutableInUse
    <3>6. CASE c \in Snappers
      <4>1. over[e].loop \in mounted /\ MergeAt(c) /\ AloneAt(e)
        BY <1>a, <2>1, <2>2, <3>2, <3>6 DEF LiveMountKept, Unshared, OwnMerge, Turns, Alone
      <4>2. loop[over[e].loop].file = lower[e]
        BY <1>a, <3>2, <3>3, <4>1 DEF AloneAt, OverlaysBack
      <4>3. lower[c] \in LowersOf[c] /\ at[c] \notin {"idle", "dead"}
        BY <1>a, <2>1, <3>6 DEF Asked, Resting
      <4>4. lower[e] # lower[c]
        BY <3>2, <3>6, <4>3 DEF Unshared
      <4> QED
        BY <3>1, <3>2, <3>4, <4>1, <4>2, <4>3, <4>4 DEF MergeAt
    <3> QED
      BY <3>4, <3>5, <3>6
  <2> QED
    BY <2>2 DEF Spared
<1>8. ASSUME NEW c \in Proc, UnmountImage(c) PROVE Spared'
  <2>1. at'[c] # "umount" /\ at[c] \notin Resting /\ UNCHANGED crowded /\ Others(c)
    BY <1>a, <1>8, UnmountImageDoes DEF Resting, ProcTypes
  <2>2. ASSUME ~crowded', NEW d \in Proc PROVE at'[d] # "umount"
    <3>1. d # c => at[d] \in Resting
      BY <1>a, <2>1, <2>2 DEF Turns
    <3> QED
      BY <2>1, <3>1 DEF Others, Rests, Resting
  <2> QED
    BY <2>2 DEF Spared
<1>9. ASSUME NEW c \in Proc, RemoveDir(c) PROVE Spared'
  <2>1. at'[c] # "umount" /\ at[c] \notin Resting /\ UNCHANGED crowded /\ Others(c)
    BY <1>a, <1>9, RemoveDirDoes DEF Resting, ProcTypes
  <2>2. ASSUME ~crowded', NEW d \in Proc PROVE at'[d] # "umount"
    <3>1. d # c => at[d] \in Resting
      BY <1>a, <2>1, <2>2 DEF Turns
    <3> QED
      BY <2>1, <3>1 DEF Others, Rests, Resting
  <2> QED
    BY <2>2 DEF Spared
<1>10. ASSUME NEW c \in Proc, Detach(c) PROVE Spared'
  <2>1. at'[c] # "umount" /\ at[c] \notin Resting /\ UNCHANGED crowded /\ Others(c)
    BY <1>a, <1>10, DetachDoes DEF Resting, ProcTypes
  <2>2. ASSUME ~crowded', NEW d \in Proc PROVE at'[d] # "umount"
    <3>1. d # c => at[d] \in Resting
      BY <1>a, <2>1, <2>2 DEF Turns
    <3> QED
      BY <2>1, <3>1 DEF Others, Rests, Resting
  <2> QED
    BY <2>2 DEF Spared
<1>11. ASSUME NEW c \in Proc, FindMounted(c) PROVE Spared'
  <2>1. at'[c] # "umount" /\ at[c] \notin Resting /\ UNCHANGED crowded /\ Others(c)
    BY <1>a, <1>11, FindMountedDoes DEF Resting, ProcTypes
  <2>2. ASSUME ~crowded', NEW d \in Proc PROVE at'[d] # "umount"
    <3>1. d # c => at[d] \in Resting
      BY <1>a, <2>1, <2>2 DEF Turns
    <3> QED
      BY <2>1, <3>1 DEF Others, Rests, Resting
  <2> QED
    BY <2>2 DEF Spared
<1>12. ASSUME NEW c \in Proc, FindFreeLoopDevice(c) PROVE Spared'
  <2>1. at'[c] # "umount" /\ at[c] \notin Resting /\ UNCHANGED crowded /\ Others(c)
    BY <1>a, <1>12, FindFreeLoopDeviceDoes DEF Resting, ProcTypes
  <2>2. ASSUME ~crowded', NEW d \in Proc PROVE at'[d] # "umount"
    <3>1. d # c => at[d] \in Resting
      BY <1>a, <2>1, <2>2 DEF Turns
    <3> QED
      BY <2>1, <3>1 DEF Others, Rests, Resting
  <2> QED
    BY <2>2 DEF Spared
<1>13. ASSUME NEW c \in Proc, Attach(c) PROVE Spared'
  <2>1. at'[c] # "umount" /\ at[c] \notin Resting /\ UNCHANGED crowded /\ Others(c)
    BY <1>a, <1>13, AttachDoes DEF Resting, ProcTypes
  <2>2. ASSUME ~crowded', NEW d \in Proc PROVE at'[d] # "umount"
    <3>1. d # c => at[d] \in Resting
      BY <1>a, <2>1, <2>2 DEF Turns
    <3> QED
      BY <2>1, <3>1 DEF Others, Rests, Resting
  <2> QED
    BY <2>2 DEF Spared
<1>14. ASSUME NEW c \in Proc, Killed(c) PROVE Spared'
  <2>1. at'[c] = "dead" /\ UNCHANGED <<crowded, over, lower, down>> /\ Others(c)
    BY <1>a, <1>14, KilledDoes
  <2>2. \A d \in Proc : at'[d] \in {"up", "umount"} => at[d] = at'[d]
    BY <2>1 DEF Others, Rests
  <2> QED
    BY <1>a, <2>1, <2>2 DEF Spared, Unshared, Containers
<1>15. ASSUME NEW c \in Proc, NEW ok \in BOOLEAN, MountImage(c, ok) PROVE Spared'
  <2>1. at'[c] # "umount" /\ at[c] \notin Resting /\ UNCHANGED crowded /\ Others(c)
    BY <1>a, <1>15, MountImageDoes DEF Resting, ProcTypes
  <2>2. ASSUME ~crowded', NEW d \in Proc PROVE at'[d] # "umount"
    <3>1. d # c => at[d] \in Resting
      BY <1>a, <2>1, <2>2 DEF Turns
    <3> QED
      BY <2>1, <3>1 DEF Others, Rests, Resting
  <2> QED
    BY <2>2 DEF Spared
<1>16. ASSUME NEW c \in Proc, NEW ok \in BOOLEAN, MountOverlay(c, ok) PROVE Spared'
  <2>1. at'[c] # "umount" /\ at[c] \notin Resting /\ UNCHANGED crowded /\ Others(c)
    BY <1>a, <1>16, MountOverlayDoes DEF Resting, ProcTypes
  <2>2. ASSUME ~crowded', NEW d \in Proc PROVE at'[d] # "umount"
    <3>1. d # c => at[d] \in Resting
      BY <1>a, <2>1, <2>2 DEF Turns
    <3> QED
      BY <2>1, <3>1 DEF Others, Rests, Resting
  <2> QED
    BY <2>2 DEF Spared
<1>17. ASSUME NEW c \in Proc, NEW ok \in BOOLEAN, StoreAndStart(c, ok) PROVE Spared'
  <2>1. at'[c] # "umount" /\ at[c] \notin Resting /\ UNCHANGED crowded /\ Others(c)
    BY <1>a, <1>17, StoreAndStartDoes DEF Resting, ProcTypes
  <2>2. ASSUME ~crowded', NEW d \in Proc PROVE at'[d] # "umount"
    <3>1. d # c => at[d] \in Resting
      BY <1>a, <2>1, <2>2 DEF Turns
    <3> QED
      BY <2>1, <3>1 DEF Others, Rests, Resting
  <2> QED
    BY <2>2 DEF Spared
<1>18. ASSUME NEW i \in Img, Replace(i) PROVE Spared'
  <2>1. UNCHANGED <<at, crowded, over, lower, down>>
    BY <1>18 DEF Replace
  <2> QED
    BY <1>a, <2>1 DEF Spared, Unshared
<1> QED
  BY <1>1, <1>2, <1>3, <1>4, <1>5, <1>6, <1>7, <1>8, <1>9, <1>10, <1>11, <1>12, <1>13, <1>14,
     <1>15, <1>16, <1>17, <1>18 DEF RootNext

LEMMA LiveRests ==
  ASSUME LiveMountKept, NEW c \in Proc, Others(c), c \in Containers => at'[c] # "up",
         crowded => crowded', mounted \subseteq mounted'
  PROVE  LiveMountKept'
<1> SUFFICES ASSUME NEW e \in Containers, at'[e] = "up", ~crowded', Unshared(e)' PROVE over'[e].loop \in mounted'
  BY DEF LiveMountKept, Unshared
<1>1. at[e] = "up" /\ Unshared(e) /\ over'[e] = over[e]
  BY DEF Others, Rests, Containers, Unshared
<1> QED
  BY <1>1 DEF LiveMountKept, Unshared

\* The mount under a container stays.
LEMMA LiveMountStep ==
  ASSUME RootInv, RootNext
  PROVE  LiveMountKept'
<1>a. ProcTypes /\ KernelTypes /\ CountTypes /\ LoopsBack /\ OverlaysBack /\ Asked /\ Turns /\ Alone /\ LiveMountKept /\ Spared
  BY DEF RootInv
<1>1. ASSUME NEW c \in Proc, NEW i \in Img, FreshRun(c, i) PROVE LiveMountKept'
  <2>1. /\ UNCHANGED crowded \/ (Meets(c) /\ at[c] \in Resting)
        /\ mounted \subseteq mounted' /\ Others(c) /\ (c \in Containers => at'[c] # "up")
    BY <1>a, <1>1, FreshRunDoes DEF Containers, ProcTypes, Resting
  <2>2. crowded => crowded'
    BY <1>a, <2>1, MeetsAll
  <2> QED
    BY <1>a, <2>1, <2>2, LiveRests
<1>2. ASSUME NEW c \in Proc, NEW i \in Img, SnapshotMerge(c, i) PROVE LiveMountKept'
  <2>1. /\ UNCHANGED crowded \/ (Meets(c) /\ at[c] \in Resting)
        /\ mounted \subseteq mounted' /\ Others(c) /\ (c \in Containers => at'[c] # "up")
    BY <1>a, <1>2, SnapshotMergeDoes DEF Containers, ProcTypes, Resting
  <2>2. crowded => crowded'
    BY <1>a, <2>1, MeetsAll
  <2> QED
    BY <1>a, <2>1, <2>2, LiveRests
<1>3. ASSUME NEW c \in Proc, NEW g \in {"start", "end"}, FromRecord(c, g) PROVE LiveMountKept'
  <2>1. /\ UNCHANGED crowded \/ (Meets(c) /\ at[c] \in Resting)
        /\ mounted \subseteq mounted' /\ Others(c) /\ (c \in Containers => at'[c] # "up")
    BY <1>a, <1>3, FromRecordDoes DEF Containers, ProcTypes, Resting
  <2>2. crowded => crowded'
    BY <1>a, <2>1, MeetsAll
  <2> QED
    BY <1>a, <2>1, <2>2, LiveRests
<1>4. ASSUME NEW c \in Proc, Ended(c) PROVE LiveMountKept'
  <2>1. /\ UNCHANGED crowded \/ (Meets(c) /\ at[c] \in Resting)
        /\ mounted \subseteq mounted' /\ Others(c) /\ (c \in Containers => at'[c] # "up")
    BY <1>a, <1>4, EndedDoes DEF Containers, ProcTypes, Resting
  <2>2. crowded => crowded'
    BY <1>a, <2>1, MeetsAll
  <2> QED
    BY <1>a, <2>1, <2>2, LiveRests
<1>5. ASSUME NEW c \in Proc, Reclaim(c) PROVE LiveMountKept'
  <2>1. /\ UNCHANGED crowded \/ (Meets(c) /\ at[c] \in Resting)
        /\ mounted \subseteq mounted' /\ Others(c) /\ (c \in Containers => at'[c] # "up")
    BY <1>a, <1>5, ReclaimDoes DEF Containers, ProcTypes, Resting
  <2>2. crowded => crowded'
    BY <1>a, <2>1, MeetsAll
  <2> QED
    BY <1>a, <2>1, <2>2, LiveRests
<1>6. ASSUME NEW c \in Proc, Clean(c) PROVE LiveMountKept'
  <2>1. /\ UNCHANGED crowded \/ (Meets(c) /\ at[c] \in Resting)
        /\ mounted \subseteq mounted' /\ Others(c) /\ (c \in Containers => at'[c] # "up")
    BY <1>a, <1>6, CleanDoes DEF Containers, ProcTypes, Resting
  <2>2. crowded => crowded'
    BY <1>a, <2>1, MeetsAll
  <2> QED
    BY <1>a, <2>1, <2>2, LiveRests
<1>7. ASSUME NEW c \in Proc, Check(c) PROVE LiveMountKept'
  <2>1. /\ UNCHANGED crowded \/ (Meets(c) /\ at[c] \in Resting)
        /\ mounted \subseteq mounted' /\ Others(c) /\ (c \in Containers => at'[c] # "up")
    BY <1>a, <1>7, CheckDoes DEF Containers, ProcTypes, Resting
  <2>2. crowded => crowded'
    BY <1>a, <2>1, MeetsAll
  <2> QED
    BY <1>a, <2>1, <2>2, LiveRests
<1>8. ASSUME NEW c \in Proc, UnmountImage(c) PROVE LiveMountKept'
  <2>1. at[c] = "umount" /\ at'[c] = "rmdir" /\ mounted' = mounted \ {down[c]} /\ UNCHANGED crowded /\ Others(c)
    BY <1>a, <1>8, UnmountImageDoes
  <2>2. ASSUME NEW e \in Containers, at'[e] = "up", ~crowded, Unshared(e)' PROVE over'[e].loop \in mounted'
    <3>1. e \in Proc /\ at[e] = "up" /\ Unshared(e) /\ over'[e] = over[e]
      BY <2>1, <2>2 DEF Others, Rests, Containers, Unshared
    <3>2. over[e].loop \in mounted /\ over[e].loop # down[c]
      BY <1>a, <2>1, <2>2, <3>1 DEF LiveMountKept, Unshared, Spared
    <3> QED
      BY <2>1, <3>1, <3>2
  <2> QED
    BY <2>1, <2>2 DEF LiveMountKept, Unshared
<1>9. ASSUME NEW c \in Proc, RemoveDir(c) PROVE LiveMountKept'
  <2>1. /\ UNCHANGED crowded \/ (Meets(c) /\ at[c] \in Resting)
        /\ mounted \subseteq mounted' /\ Others(c) /\ (c \in Containers => at'[c] # "up")
    BY <1>a, <1>9, RemoveDirDoes DEF Containers, ProcTypes, Resting
  <2>2. crowded => crowded'
    BY <1>a, <2>1, MeetsAll
  <2> QED
    BY <1>a, <2>1, <2>2, LiveRests
<1>10. ASSUME NEW c \in Proc, Detach(c) PROVE LiveMountKept'
  <2>1. /\ UNCHANGED crowded \/ (Meets(c) /\ at[c] \in Resting)
        /\ mounted \subseteq mounted' /\ Others(c) /\ (c \in Containers => at'[c] # "up")
    BY <1>a, <1>10, DetachDoes DEF Containers, ProcTypes, Resting
  <2>2. crowded => crowded'
    BY <1>a, <2>1, MeetsAll
  <2> QED
    BY <1>a, <2>1, <2>2, LiveRests
<1>11. ASSUME NEW c \in Proc, FindMounted(c) PROVE LiveMountKept'
  <2>1. /\ UNCHANGED crowded \/ (Meets(c) /\ at[c] \in Resting)
        /\ mounted \subseteq mounted' /\ Others(c) /\ (c \in Containers => at'[c] # "up")
    BY <1>a, <1>11, FindMountedDoes DEF Containers, ProcTypes, Resting
  <2>2. crowded => crowded'
    BY <1>a, <2>1, MeetsAll
  <2> QED
    BY <1>a, <2>1, <2>2, LiveRests
<1>12. ASSUME NEW c \in Proc, FindFreeLoopDevice(c) PROVE LiveMountKept'
  <2>1. /\ UNCHANGED crowded \/ (Meets(c) /\ at[c] \in Resting)
        /\ mounted \subseteq mounted' /\ Others(c) /\ (c \in Containers => at'[c] # "up")
    BY <1>a, <1>12, FindFreeLoopDeviceDoes DEF Containers, ProcTypes, Resting
  <2>2. crowded => crowded'
    BY <1>a, <2>1, MeetsAll
  <2> QED
    BY <1>a, <2>1, <2>2, LiveRests
<1>13. ASSUME NEW c \in Proc, Attach(c) PROVE LiveMountKept'
  <2>1. /\ UNCHANGED crowded \/ (Meets(c) /\ at[c] \in Resting)
        /\ mounted \subseteq mounted' /\ Others(c) /\ (c \in Containers => at'[c] # "up")
    BY <1>a, <1>13, AttachDoes DEF Containers, ProcTypes, Resting
  <2>2. crowded => crowded'
    BY <1>a, <2>1, MeetsAll
  <2> QED
    BY <1>a, <2>1, <2>2, LiveRests
<1>14. ASSUME NEW c \in Proc, Killed(c) PROVE LiveMountKept'
  <2>1. /\ UNCHANGED crowded \/ (Meets(c) /\ at[c] \in Resting)
        /\ mounted \subseteq mounted' /\ Others(c) /\ (c \in Containers => at'[c] # "up")
    BY <1>a, <1>14, KilledDoes DEF Containers, ProcTypes, Resting
  <2>2. crowded => crowded'
    BY <1>a, <2>1, MeetsAll
  <2> QED
    BY <1>a, <2>1, <2>2, LiveRests
<1>15. ASSUME NEW c \in Proc, NEW ok \in BOOLEAN, MountImage(c, ok) PROVE LiveMountKept'
  <2>1. /\ UNCHANGED crowded \/ (Meets(c) /\ at[c] \in Resting)
        /\ mounted \subseteq mounted' /\ Others(c) /\ (c \in Containers => at'[c] # "up")
    BY <1>a, <1>15, MountImageDoes DEF Containers, ProcTypes, Resting
  <2>2. crowded => crowded'
    BY <1>a, <2>1, MeetsAll
  <2> QED
    BY <1>a, <2>1, <2>2, LiveRests
<1>16. ASSUME NEW c \in Proc, NEW ok \in BOOLEAN, MountOverlay(c, ok) PROVE LiveMountKept'
  <2>1. /\ UNCHANGED crowded \/ (Meets(c) /\ at[c] \in Resting)
        /\ mounted \subseteq mounted' /\ Others(c) /\ (c \in Containers => at'[c] # "up")
    BY <1>a, <1>16, MountOverlayDoes DEF Containers, ProcTypes, Resting
  <2>2. crowded => crowded'
    BY <1>a, <2>1, MeetsAll
  <2> QED
    BY <1>a, <2>1, <2>2, LiveRests
<1>17. ASSUME NEW c \in Proc, NEW ok \in BOOLEAN, StoreAndStart(c, ok) PROVE LiveMountKept'
  <2>1. at[c] = "record" /\ UNCHANGED <<crowded, mounted, over, lower>> /\ Others(c)
    BY <1>a, <1>17, StoreAndStartDoes
  <2>2. ASSUME NEW e \in Containers, at'[e] = "up", ~crowded, Unshared(e)' PROVE over'[e].loop \in mounted'
    <3>1. CASE e = c
      <4>1. AloneAt(c) /\ over[c].loop = held[c].loop
        BY <1>a, <2>1, <2>2 DEF Turns, Alone, Asked
      <4> QED
        BY <2>1, <3>1, <4>1 DEF AloneAt
    <3>2. CASE e # c
      <4>1. at[e] = "up" /\ Unshared(e) /\ over[e].loop = over'[e].loop
        BY <2>1, <2>2, <3>2 DEF Others, Rests, Containers, Unshared
      <4> QED
        BY <1>a, <2>1, <2>2, <4>1 DEF LiveMountKept, Unshared
    <3> QED
      BY <3>1, <3>2
  <2> QED
    BY <2>1, <2>2 DEF LiveMountKept, Unshared
<1>18. ASSUME NEW i \in Img, Replace(i) PROVE LiveMountKept'
  <2>1. UNCHANGED <<at, crowded, mounted, over, lower>>
    BY <1>18 DEF Replace
  <2> QED
    BY <1>a, <2>1 DEF LiveMountKept
<1> QED
  BY <1>1, <1>2, <1>3, <1>4, <1>5, <1>6, <1>7, <1>8, <1>9, <1>10, <1>11, <1>12, <1>13, <1>14,
     <1>15, <1>16, <1>17, <1>18 DEF RootNext

LEMMA EndsRests ==
  ASSUME NEW d \in Proc, OverlayEnds(d), Rests(d)
  PROVE  OverlayEnds(d)'
  BY DEF OverlayEnds, Unwinding, Rests

\* An overlay belongs to one that has still to end.
LEMMA OverlaysEndStep ==
  ASSUME RootInv, RootNext
  PROVE  OverlaysEnd'
<1>a. ProcTypes /\ KernelTypes /\ CountTypes /\ LoopsBack /\ OverlaysBack /\ Asked /\ OverlaysEnd
  BY DEF RootInv
<1>1. ASSUME NEW c \in Proc, NEW i \in Img, FreshRun(c, i) PROVE OverlaysEnd'
  <2>1. Others(c) /\ (kills' = 0 => kills = 0)
    BY <1>a, <1>1, FreshRunDoes DEF CountTypes
  <2>2. ASSUME kills' = 0 PROVE OverlayEnds(c)'
    <3>1. OverlayEnds(c)
      BY <1>a, <2>1, <2>2 DEF OverlaysEnd
    <3> QED
      BY <1>a, <1>1, <2>2, <3>1, FreshRunDoes, NoFileTyped, RootSizes DEF OverlayEnds, Unwinding, ProcTypes, CountTypes, Asked
  <2> QED
    BY <1>a, <2>1, <2>2, EndsRests DEF OverlaysEnd, Others
<1>2. ASSUME NEW c \in Proc, NEW i \in Img, SnapshotMerge(c, i) PROVE OverlaysEnd'
  <2>1. Others(c) /\ (kills' = 0 => kills = 0)
    BY <1>a, <1>2, SnapshotMergeDoes DEF CountTypes
  <2>2. ASSUME kills' = 0 PROVE OverlayEnds(c)'
    <3>1. OverlayEnds(c)
      BY <1>a, <2>1, <2>2 DEF OverlaysEnd
    <3> QED
      BY <1>a, <1>2, <2>2, <3>1, SnapshotMergeDoes, NoFileTyped, RootSizes DEF OverlayEnds, Unwinding, ProcTypes, CountTypes, Asked
  <2> QED
    BY <1>a, <2>1, <2>2, EndsRests DEF OverlaysEnd, Others
<1>3. ASSUME NEW c \in Proc, NEW g \in {"start", "end"}, FromRecord(c, g) PROVE OverlaysEnd'
  <2>1. Others(c) /\ (kills' = 0 => kills = 0)
    BY <1>a, <1>3, FromRecordDoes DEF CountTypes
  <2>2. ASSUME kills' = 0 PROVE OverlayEnds(c)'
    <3>1. OverlayEnds(c)
      BY <1>a, <2>1, <2>2 DEF OverlaysEnd
    <3> QED
      BY <1>a, <1>3, <2>2, <3>1, FromRecordDoes, NoFileTyped, RootSizes DEF OverlayEnds, Unwinding, ProcTypes, CountTypes, Asked
  <2> QED
    BY <1>a, <2>1, <2>2, EndsRests DEF OverlaysEnd, Others
<1>4. ASSUME NEW c \in Proc, Ended(c) PROVE OverlaysEnd'
  <2>1. Others(c) /\ (kills' = 0 => kills = 0)
    BY <1>a, <1>4, EndedDoes DEF CountTypes
  <2>2. ASSUME kills' = 0 PROVE OverlayEnds(c)'
    <3>1. OverlayEnds(c)
      BY <1>a, <2>1, <2>2 DEF OverlaysEnd
    <3> QED
      BY <1>a, <1>4, <2>2, <3>1, EndedDoes, NoFileTyped, RootSizes DEF OverlayEnds, Unwinding, ProcTypes, CountTypes, Asked
  <2> QED
    BY <1>a, <2>1, <2>2, EndsRests DEF OverlaysEnd, Others
<1>5. ASSUME NEW c \in Proc, Reclaim(c) PROVE OverlaysEnd'
  <2>1. Others(c) /\ (kills' = 0 => kills = 0)
    BY <1>a, <1>5, ReclaimDoes DEF CountTypes
  <2>2. ASSUME kills' = 0 PROVE OverlayEnds(c)'
    <3>1. OverlayEnds(c)
      BY <1>a, <2>1, <2>2 DEF OverlaysEnd
    <3> QED
      BY <1>a, <1>5, <2>2, <3>1, ReclaimDoes, NoFileTyped, RootSizes DEF OverlayEnds, Unwinding, ProcTypes, CountTypes, Asked
  <2> QED
    BY <1>a, <2>1, <2>2, EndsRests DEF OverlaysEnd, Others
<1>6. ASSUME NEW c \in Proc, Clean(c) PROVE OverlaysEnd'
  <2>1. Others(c) /\ (kills' = 0 => kills = 0)
    BY <1>a, <1>6, CleanDoes DEF CountTypes
  <2>2. ASSUME kills' = 0 PROVE OverlayEnds(c)'
    <3>1. OverlayEnds(c)
      BY <1>a, <2>1, <2>2 DEF OverlaysEnd
    <3> QED
      BY <1>a, <1>6, <2>2, <3>1, CleanDoes, NoFileTyped, RootSizes DEF OverlayEnds, Unwinding, ProcTypes, CountTypes, Asked
  <2> QED
    BY <1>a, <2>1, <2>2, EndsRests DEF OverlaysEnd, Others
<1>7. ASSUME NEW c \in Proc, Check(c) PROVE OverlaysEnd'
  <2>1. Others(c) /\ (kills' = 0 => kills = 0)
    BY <1>a, <1>7, CheckDoes DEF CountTypes
  <2>2. ASSUME kills' = 0 PROVE OverlayEnds(c)'
    <3>1. OverlayEnds(c)
      BY <1>a, <2>1, <2>2 DEF OverlaysEnd
    <3> QED
      BY <1>a, <1>7, <2>2, <3>1, CheckDoes, NoFileTyped, RootSizes DEF OverlayEnds, Unwinding, ProcTypes, CountTypes, Asked
  <2> QED
    BY <1>a, <2>1, <2>2, EndsRests DEF OverlaysEnd, Others
<1>8. ASSUME NEW c \in Proc, UnmountImage(c) PROVE OverlaysEnd'
  <2>1. Others(c) /\ (kills' = 0 => kills = 0)
    BY <1>a, <1>8, UnmountImageDoes DEF CountTypes
  <2>2. ASSUME kills' = 0 PROVE OverlayEnds(c)'
    <3>1. OverlayEnds(c)
      BY <1>a, <2>1, <2>2 DEF OverlaysEnd
    <3> QED
      BY <1>a, <1>8, <2>2, <3>1, UnmountImageDoes, NoFileTyped, RootSizes DEF OverlayEnds, Unwinding, ProcTypes, CountTypes, Asked
  <2> QED
    BY <1>a, <2>1, <2>2, EndsRests DEF OverlaysEnd, Others
<1>9. ASSUME NEW c \in Proc, RemoveDir(c) PROVE OverlaysEnd'
  <2>1. Others(c) /\ (kills' = 0 => kills = 0)
    BY <1>a, <1>9, RemoveDirDoes DEF CountTypes
  <2>2. ASSUME kills' = 0 PROVE OverlayEnds(c)'
    <3>1. OverlayEnds(c)
      BY <1>a, <2>1, <2>2 DEF OverlaysEnd
    <3> QED
      BY <1>a, <1>9, <2>2, <3>1, RemoveDirDoes, NoFileTyped, RootSizes DEF OverlayEnds, Unwinding, ProcTypes, CountTypes, Asked
  <2> QED
    BY <1>a, <2>1, <2>2, EndsRests DEF OverlaysEnd, Others
<1>10. ASSUME NEW c \in Proc, Detach(c) PROVE OverlaysEnd'
  <2>1. Others(c) /\ (kills' = 0 => kills = 0)
    BY <1>a, <1>10, DetachDoes DEF CountTypes
  <2>2. ASSUME kills' = 0 PROVE OverlayEnds(c)'
    <3>1. OverlayEnds(c)
      BY <1>a, <2>1, <2>2 DEF OverlaysEnd
    <3> QED
      BY <1>a, <1>10, <2>2, <3>1, DetachDoes, NoFileTyped, RootSizes DEF OverlayEnds, Unwinding, ProcTypes, CountTypes, Asked
  <2> QED
    BY <1>a, <2>1, <2>2, EndsRests DEF OverlaysEnd, Others
<1>11. ASSUME NEW c \in Proc, FindMounted(c) PROVE OverlaysEnd'
  <2>1. Others(c) /\ (kills' = 0 => kills = 0)
    BY <1>a, <1>11, FindMountedDoes DEF CountTypes
  <2>2. ASSUME kills' = 0 PROVE OverlayEnds(c)'
    <3>1. OverlayEnds(c)
      BY <1>a, <2>1, <2>2 DEF OverlaysEnd
    <3> QED
      BY <1>a, <1>11, <2>2, <3>1, FindMountedDoes, NoFileTyped, RootSizes DEF OverlayEnds, Unwinding, ProcTypes, CountTypes, Asked
  <2> QED
    BY <1>a, <2>1, <2>2, EndsRests DEF OverlaysEnd, Others
<1>12. ASSUME NEW c \in Proc, FindFreeLoopDevice(c) PROVE OverlaysEnd'
  <2>1. Others(c) /\ (kills' = 0 => kills = 0)
    BY <1>a, <1>12, FindFreeLoopDeviceDoes DEF CountTypes
  <2>2. ASSUME kills' = 0 PROVE OverlayEnds(c)'
    <3>1. OverlayEnds(c)
      BY <1>a, <2>1, <2>2 DEF OverlaysEnd
    <3> QED
      BY <1>a, <1>12, <2>2, <3>1, FindFreeLoopDeviceDoes, NoFileTyped, RootSizes DEF OverlayEnds, Unwinding, ProcTypes, CountTypes, Asked
  <2> QED
    BY <1>a, <2>1, <2>2, EndsRests DEF OverlaysEnd, Others
<1>13. ASSUME NEW c \in Proc, Attach(c) PROVE OverlaysEnd'
  <2>1. Others(c) /\ (kills' = 0 => kills = 0)
    BY <1>a, <1>13, AttachDoes DEF CountTypes
  <2>2. ASSUME kills' = 0 PROVE OverlayEnds(c)'
    <3>1. OverlayEnds(c)
      BY <1>a, <2>1, <2>2 DEF OverlaysEnd
    <3> QED
      BY <1>a, <1>13, <2>2, <3>1, AttachDoes, NoFileTyped, RootSizes DEF OverlayEnds, Unwinding, ProcTypes, CountTypes, Asked
  <2> QED
    BY <1>a, <2>1, <2>2, EndsRests DEF OverlaysEnd, Others
<1>14. ASSUME NEW c \in Proc, Killed(c) PROVE OverlaysEnd'
  <2>1. Others(c) /\ (kills' = 0 => kills = 0)
    BY <1>a, <1>14, KilledDoes DEF CountTypes
  <2>2. ASSUME kills' = 0 PROVE OverlayEnds(c)'
    <3>1. OverlayEnds(c)
      BY <1>a, <2>1, <2>2 DEF OverlaysEnd
    <3> QED
      BY <1>a, <1>14, <2>2, <3>1, KilledDoes, NoFileTyped, RootSizes DEF OverlayEnds, Unwinding, ProcTypes, CountTypes, Asked
  <2> QED
    BY <1>a, <2>1, <2>2, EndsRests DEF OverlaysEnd, Others
<1>15. ASSUME NEW c \in Proc, NEW ok \in BOOLEAN, MountImage(c, ok) PROVE OverlaysEnd'
  <2>1. Others(c) /\ (kills' = 0 => kills = 0)
    BY <1>a, <1>15, MountImageDoes DEF CountTypes
  <2>2. ASSUME kills' = 0 PROVE OverlayEnds(c)'
    <3>1. OverlayEnds(c)
      BY <1>a, <2>1, <2>2 DEF OverlaysEnd
    <3> QED
      BY <1>a, <1>15, <2>2, <3>1, MountImageDoes, NoFileTyped, RootSizes DEF OverlayEnds, Unwinding, ProcTypes, CountTypes, Asked
  <2> QED
    BY <1>a, <2>1, <2>2, EndsRests DEF OverlaysEnd, Others
<1>16. ASSUME NEW c \in Proc, NEW ok \in BOOLEAN, MountOverlay(c, ok) PROVE OverlaysEnd'
  <2>1. Others(c) /\ (kills' = 0 => kills = 0)
    BY <1>a, <1>16, MountOverlayDoes DEF CountTypes
  <2>2. ASSUME kills' = 0 PROVE OverlayEnds(c)'
    <3>1. OverlayEnds(c)
      BY <1>a, <2>1, <2>2 DEF OverlaysEnd
    <3>2. at[c] = "overlay" /\ UNCHANGED held
      BY <1>a, <1>16, MountOverlayDoes
    <3>3. ~over[c].on
      BY <3>1, <3>2 DEF OverlayEnds, Unwinding
    <3>4. held[c].file # "none"
      BY <1>a, <3>2, RootSizes DEF Asked
    <3>5. CASE at'[c] = "clean" /\ UNCHANGED over
      BY <3>3, <3>5 DEF OverlayEnds
    <3>6. CASE at'[c] \in {"up", "record"} /\ over'[c].loop = held[c].loop
      BY <3>2, <3>4, <3>6 DEF OverlayEnds
    <3> QED
      BY <1>a, <1>16, <3>5, <3>6, MountOverlayDoes
  <2> QED
    BY <1>a, <2>1, <2>2, EndsRests DEF OverlaysEnd, Others
<1>17. ASSUME NEW c \in Proc, NEW ok \in BOOLEAN, StoreAndStart(c, ok) PROVE OverlaysEnd'
  <2>1. Others(c) /\ (kills' = 0 => kills = 0)
    BY <1>a, <1>17, StoreAndStartDoes DEF CountTypes
  <2>2. ASSUME kills' = 0 PROVE OverlayEnds(c)'
    <3>1. OverlayEnds(c)
      BY <1>a, <2>1, <2>2 DEF OverlaysEnd
    <3> QED
      BY <1>a, <1>17, <2>2, <3>1, StoreAndStartDoes, NoFileTyped, RootSizes DEF OverlayEnds, Unwinding, ProcTypes, CountTypes, Asked
  <2> QED
    BY <1>a, <2>1, <2>2, EndsRests DEF OverlaysEnd, Others
<1>18. ASSUME NEW i \in Img, Replace(i) PROVE OverlaysEnd'
  <2>1. UNCHANGED <<at, back, held, over, kills>>
    BY <1>18 DEF Replace
  <2> QED
    BY <1>a, <2>1 DEF OverlaysEnd, OverlayEnds, Unwinding
<1> QED
  BY <1>1, <1>2, <1>3, <1>4, <1>5, <1>6, <1>7, <1>8, <1>9, <1>10, <1>11, <1>12, <1>13, <1>14,
     <1>15, <1>16, <1>17, <1>18 DEF RootNext

\* Whoever rests still sees to what he saw to.
LEMMA HoldersRest ==
  ASSUME NEW d \in Proc, Rests(d), NEW l \in Loop
  PROVE  /\ Holder(d, l) => Holder(d, l)'
         /\ Umounter(d, l) => Umounter(d, l)'
         /\ Ender(d, l) => Ender(d, l)'
  BY DEF Holder, Unwinding, Umounter, Ender, Rests

LEMMA SeenStays ==
  ASSUME KernelTypes, SeenTo, kills = 0, NEW c \in Proc, Others(c), mounted' \subseteq Loop,
         \A l \in mounted' : l \in mounted \/ Holder(c, l)',
         \A l \in Loop : loop'[l] # NoFile => loop[l] # NoFile \/ Holder(c, l)',
         \A l \in Loop : Holder(c, l) => \E d \in Proc : Holder(d, l)' \/ Umounter(d, l)',
         \A l \in Loop : Umounter(c, l) => l \notin mounted' /\ Ender(c, l)',
         \A l \in Loop : Ender(c, l) /\ loop'[l] # NoFile =>
           Ender(c, l)' \/ \E d \in Proc : Holder(d, l)' \/ Umounter(d, l)'
  PROVE  SeenTo'
<1>1. ASSUME NEW l \in mounted' PROVE \E d \in Proc : Holder(d, l)' \/ Umounter(d, l)'
  <2>1. CASE l \in mounted
    <3>1. PICK d \in Proc : Holder(d, l) \/ Umounter(d, l)
      BY <2>1 DEF SeenTo
    <3>2. l \in Loop
      BY <1>1
    <3>3. CASE d = c
      BY <1>1, <3>1, <3>2, <3>3
    <3>4. CASE d # c
      BY <3>1, <3>2, <3>4, HoldersRest DEF Others
    <3> QED
      BY <3>3, <3>4
  <2> QED
    BY <1>1, <2>1
<1>2. ASSUME NEW l \in Loop, loop'[l] # NoFile PROVE \E d \in Proc : Holder(d, l)' \/ Umounter(d, l)' \/ Ender(d, l)'
  <2>1. CASE loop[l] # NoFile
    <3>1. PICK d \in Proc : Holder(d, l) \/ Umounter(d, l) \/ Ender(d, l)
      BY <2>1 DEF SeenTo
    <3>3. CASE d = c
      BY <1>2, <3>1, <3>3
    <3>4. CASE d # c
      BY <3>1, <3>4, HoldersRest DEF Others
    <3> QED
      BY <3>3, <3>4
  <2> QED
    BY <1>2, <2>1
<1> QED
  BY <1>1, <1>2 DEF SeenTo

\* Somebody sees to every device.
LEMMA SeenToStep ==
  ASSUME RootInv, RootNext
  PROVE  SeenTo'
<1>a. ProcTypes /\ KernelTypes /\ CountTypes /\ LoopsBack /\ OverlaysBack /\ Asked /\ OverlaysEnd /\ SeenTo
  BY DEF RootInv
<1>b. KernelTypes'
  BY KernelTypesStep
<1>c. mounted' \subseteq Loop
  BY <1>b DEF KernelTypes
<1>1. ASSUME NEW c \in Proc, NEW i \in Img, FreshRun(c, i) PROVE SeenTo'
  <2>1. Others(c) /\ (kills' = 0 => kills = 0)
    BY <1>a, <1>1, FreshRunDoes DEF CountTypes
  <2> SUFFICES ASSUME kills' = 0 PROVE SeenTo'
    BY DEF SeenTo
  <2>2. kills = 0 /\ \A d \in Proc : OverlayEnds(d)
    BY <1>a, <2>1 DEF OverlaysEnd
  <2>3. \A l \in Loop : ~Holder(c, l) /\ ~Umounter(c, l) /\ ~Ender(c, l)
    BY <1>a, <1>1, <2>2, FreshRunDoes DEF OverlayEnds, Holder, Unwinding, Umounter, Ender
  <2>4. UNCHANGED <<loop, mounted>>
    BY <1>a, <1>1, FreshRunDoes
  <2> QED
    BY <1>a, <2>1, <2>2, <2>3, <2>4, <1>c, SeenStays
<1>2. ASSUME NEW c \in Proc, NEW i \in Img, SnapshotMerge(c, i) PROVE SeenTo'
  <2>1. Others(c) /\ (kills' = 0 => kills = 0)
    BY <1>a, <1>2, SnapshotMergeDoes DEF CountTypes
  <2> SUFFICES ASSUME kills' = 0 PROVE SeenTo'
    BY DEF SeenTo
  <2>2. kills = 0 /\ \A d \in Proc : OverlayEnds(d)
    BY <1>a, <2>1 DEF OverlaysEnd
  <2>3. \A l \in Loop : ~Holder(c, l) /\ ~Umounter(c, l) /\ ~Ender(c, l)
    BY <1>a, <1>2, <2>2, SnapshotMergeDoes DEF OverlayEnds, Holder, Unwinding, Umounter, Ender
  <2>4. UNCHANGED <<loop, mounted>>
    BY <1>a, <1>2, SnapshotMergeDoes
  <2> QED
    BY <1>a, <2>1, <2>2, <2>3, <2>4, <1>c, SeenStays
<1>3. ASSUME NEW c \in Proc, NEW g \in {"start", "end"}, FromRecord(c, g) PROVE SeenTo'
  <2>1. Others(c) /\ (kills' = 0 => kills = 0)
    BY <1>a, <1>3, FromRecordDoes DEF CountTypes
  <2> SUFFICES ASSUME kills' = 0 PROVE SeenTo'
    BY DEF SeenTo
  <2>2. kills = 0 /\ \A d \in Proc : OverlayEnds(d)
    BY <1>a, <2>1 DEF OverlaysEnd
  <2>3. \A l \in Loop : ~Holder(c, l) /\ ~Umounter(c, l) /\ ~Ender(c, l)
    BY <1>a, <1>3, <2>2, FromRecordDoes DEF OverlayEnds, Holder, Unwinding, Umounter, Ender
  <2>4. UNCHANGED <<loop, mounted>>
    BY <1>a, <1>3, FromRecordDoes
  <2> QED
    BY <1>a, <2>1, <2>2, <2>3, <2>4, <1>c, SeenStays
<1>4. ASSUME NEW c \in Proc, Ended(c) PROVE SeenTo'
  <2>1. Others(c) /\ (kills' = 0 => kills = 0)
    BY <1>a, <1>4, EndedDoes DEF CountTypes
  <2> SUFFICES ASSUME kills' = 0 PROVE SeenTo'
    BY DEF SeenTo
  <2>2. kills = 0 /\ \A d \in Proc : OverlayEnds(d)
    BY <1>a, <2>1 DEF OverlaysEnd
  <2>3. \A l \in Loop : Holder(c, l) => Holder(c, l)'
    BY <1>a, <1>4, EndedDoes DEF Holder, Unwinding, CountTypes
  <2>4. \A l \in Loop : Umounter(c, l) => l \notin mounted' /\ Ender(c, l)'
    BY <1>a, <1>4, EndedDoes DEF Umounter, Ender
  <2>5. \A l \in Loop : Ender(c, l) => Ender(c, l)'
    BY <1>a, <1>4, EndedDoes DEF Ender
  <2>6. mounted' \subseteq mounted /\ \A l \in Loop : loop'[l] # NoFile => loop[l] # NoFile
    BY <1>a, <1>4, EndedDoes, StaysLoosens DEF Loosens
  <2> QED
    BY <1>a, <2>1, <2>2, <2>3, <2>4, <2>5, <2>6, <1>c, SeenStays
<1>5. ASSUME NEW c \in Proc, Reclaim(c) PROVE SeenTo'
  <2>1. Others(c) /\ (kills' = 0 => kills = 0)
    BY <1>a, <1>5, ReclaimDoes DEF CountTypes
  <2> SUFFICES ASSUME kills' = 0 PROVE SeenTo'
    BY DEF SeenTo
  <2>2. kills = 0 /\ \A d \in Proc : OverlayEnds(d)
    BY <1>a, <2>1 DEF OverlaysEnd
  <2>3. \A l \in Loop : Holder(c, l) => Holder(c, l)'
    BY <1>a, <1>5, ReclaimDoes DEF Holder, Unwinding, CountTypes
  <2>4. \A l \in Loop : Umounter(c, l) => l \notin mounted' /\ Ender(c, l)'
    BY <1>a, <1>5, ReclaimDoes DEF Umounter, Ender
  <2>5. \A l \in Loop : Ender(c, l) => Ender(c, l)'
    BY <1>a, <1>5, ReclaimDoes DEF Ender
  <2>6. mounted' \subseteq mounted /\ \A l \in Loop : loop'[l] # NoFile => loop[l] # NoFile
    BY <1>a, <1>5, ReclaimDoes, StaysLoosens DEF Loosens
  <2> QED
    BY <1>a, <2>1, <2>2, <2>3, <2>4, <2>5, <2>6, <1>c, SeenStays
<1>6. ASSUME NEW c \in Proc, Clean(c) PROVE SeenTo'
  <2>1. Others(c) /\ (kills' = 0 => kills = 0)
    BY <1>a, <1>6, CleanDoes DEF CountTypes
  <2> SUFFICES ASSUME kills' = 0 PROVE SeenTo'
    BY DEF SeenTo
  <2>2. kills = 0 /\ \A d \in Proc : OverlayEnds(d)
    BY <1>a, <2>1 DEF OverlaysEnd
  <2>3. \A l \in Loop : Holder(c, l) => Holder(c, l)'
    BY <1>a, <1>6, CleanDoes DEF Holder, Unwinding, CountTypes
  <2>4. \A l \in Loop : Umounter(c, l) => l \notin mounted' /\ Ender(c, l)'
    BY <1>a, <1>6, CleanDoes DEF Umounter, Ender
  <2>5. \A l \in Loop : Ender(c, l) => Ender(c, l)'
    BY <1>a, <1>6, CleanDoes DEF Ender
  <2>6. mounted' \subseteq mounted /\ \A l \in Loop : loop'[l] # NoFile => loop[l] # NoFile
    BY <1>a, <1>6, CleanDoes, StaysLoosens DEF Loosens
  <2> QED
    BY <1>a, <2>1, <2>2, <2>3, <2>4, <2>5, <2>6, <1>c, SeenStays
<1>7. ASSUME NEW c \in Proc, Check(c) PROVE SeenTo'
  <2>1. Others(c) /\ (kills' = 0 => kills = 0)
    BY <1>a, <1>7, CheckDoes DEF CountTypes
  <2> SUFFICES ASSUME kills' = 0 PROVE SeenTo'
    BY DEF SeenTo
  <2>2. kills = 0 /\ \A d \in Proc : OverlayEnds(d)
    BY <1>a, <2>1 DEF OverlaysEnd
  <2>3. ASSUME NEW l \in Loop, Holder(c, l) PROVE \E d \in Proc : Holder(d, l)' \/ Umounter(d, l)'
    <3>1. at[c] = "check" /\ held[c] # NoImage /\ held[c].loop = l /\ down'[c] = held[c].loop
      BY <1>a, <1>7, <2>3, CheckDoes, NoFileTyped DEF Holder
    <3>2. CASE at'[c] = "umount"
      BY <3>1, <3>2 DEF Umounter
    <3>3. CASE at'[c] # "umount"
      <4>1. PICK d \in Proc : over[d].on /\ over[d].loop = l
        BY <1>a, <1>7, <3>1, <3>3, CheckDoes DEF ImmutableInUse
      <4>2. Holder(d, l) /\ d # c
        BY <2>2, <3>1, <4>1 DEF OverlayEnds, Holder, Unwinding
      <4>3. Holder(d, l)'
        BY <2>1, <4>2, HoldersRest DEF Others
      <4> QED
        BY <4>3
    <3> QED
      BY <3>2, <3>3
  <2>4. \A l \in Loop : ~Umounter(c, l) /\ ~Ender(c, l)
    BY <1>a, <1>7, CheckDoes DEF Umounter, Ender
  <2>6. UNCHANGED <<loop, mounted>>
    BY <1>a, <1>7, CheckDoes
  <2> QED
    BY <1>a, <2>1, <2>2, <2>3, <2>4, <2>6, <1>c, SeenStays
<1>8. ASSUME NEW c \in Proc, UnmountImage(c) PROVE SeenTo'
  <2>1. Others(c) /\ (kills' = 0 => kills = 0)
    BY <1>a, <1>8, UnmountImageDoes DEF CountTypes
  <2> SUFFICES ASSUME kills' = 0 PROVE SeenTo'
    BY DEF SeenTo
  <2>2. kills = 0 /\ \A d \in Proc : OverlayEnds(d)
    BY <1>a, <2>1 DEF OverlaysEnd
  <2>3. \A l \in Loop : Holder(c, l) => Holder(c, l)'
    BY <1>a, <1>8, UnmountImageDoes DEF Holder, Unwinding, CountTypes
  <2>4. \A l \in Loop : Umounter(c, l) => l \notin mounted' /\ Ender(c, l)'
    BY <1>a, <1>8, UnmountImageDoes DEF Umounter, Ender
  <2>5. \A l \in Loop : Ender(c, l) => Ender(c, l)'
    BY <1>a, <1>8, UnmountImageDoes DEF Ender
  <2>6. mounted' \subseteq mounted /\ \A l \in Loop : loop'[l] # NoFile => loop[l] # NoFile
    BY <1>a, <1>8, UnmountImageDoes, StaysLoosens DEF Loosens
  <2> QED
    BY <1>a, <2>1, <2>2, <2>3, <2>4, <2>5, <2>6, <1>c, SeenStays
<1>9. ASSUME NEW c \in Proc, RemoveDir(c) PROVE SeenTo'
  <2>1. Others(c) /\ (kills' = 0 => kills = 0)
    BY <1>a, <1>9, RemoveDirDoes DEF CountTypes
  <2> SUFFICES ASSUME kills' = 0 PROVE SeenTo'
    BY DEF SeenTo
  <2>2. kills = 0 /\ \A d \in Proc : OverlayEnds(d)
    BY <1>a, <2>1 DEF OverlaysEnd
  <2>3. \A l \in Loop : Holder(c, l) => Holder(c, l)'
    BY <1>a, <1>9, RemoveDirDoes DEF Holder, Unwinding, CountTypes
  <2>4. \A l \in Loop : Umounter(c, l) => l \notin mounted' /\ Ender(c, l)'
    BY <1>a, <1>9, RemoveDirDoes DEF Umounter, Ender
  <2>5. \A l \in Loop : Ender(c, l) => Ender(c, l)'
    BY <1>a, <1>9, RemoveDirDoes DEF Ender
  <2>6. mounted' \subseteq mounted /\ \A l \in Loop : loop'[l] # NoFile => loop[l] # NoFile
    BY <1>a, <1>9, RemoveDirDoes, StaysLoosens DEF Loosens
  <2> QED
    BY <1>a, <2>1, <2>2, <2>3, <2>4, <2>5, <2>6, <1>c, SeenStays
<1>10. ASSUME NEW c \in Proc, Detach(c) PROVE SeenTo'
  <2>1. Others(c) /\ (kills' = 0 => kills = 0)
    BY <1>a, <1>10, DetachDoes DEF CountTypes
  <2> SUFFICES ASSUME kills' = 0 PROVE SeenTo'
    BY DEF SeenTo
  <2>2. kills = 0 /\ \A d \in Proc : OverlayEnds(d)
    BY <1>a, <2>1 DEF OverlaysEnd
  <2>3. \A l \in Loop : Holder(c, l) => Holder(c, l)'
    BY <1>a, <1>10, DetachDoes DEF Holder, Unwinding
  <2>4. \A l \in Loop : ~Umounter(c, l)
    BY <1>a, <1>10, DetachDoes DEF Umounter
  <2>5. ASSUME NEW l \in Loop, Ender(c, l), loop'[l] # NoFile PROVE \E d \in Proc : Holder(d, l)' \/ Umounter(d, l)'
    <3>1. Users(l, mounted, over)
      BY <1>a, <1>10, <2>5, DetachDoes DEF Ender
    <3>2. \E d \in Proc : Holder(d, l) \/ Umounter(d, l)
      <4>1. CASE l \in mounted
        BY <1>a, <2>2, <4>1 DEF SeenTo
      <4>2. CASE \E d \in Proc : over[d].on /\ over[d].loop = l
        BY <2>2, <4>2 DEF OverlayEnds, Holder, Unwinding
      <4> QED
        BY <3>1, <4>1, <4>2 DEF Users
    <3> QED
      BY <2>1, <2>3, <2>4, <3>2, HoldersRest DEF Others
  <2>6. UNCHANGED mounted /\ \A l \in Loop : loop'[l] # NoFile => loop[l] # NoFile
    BY <1>a, <1>10, DetachDoes DEF Loosens
  <2> QED
    BY <1>a, <2>1, <2>2, <2>3, <2>4, <2>5, <2>6, <1>c, SeenStays
<1>11. ASSUME NEW c \in Proc, FindMounted(c) PROVE SeenTo'
  <2>1. Others(c) /\ (kills' = 0 => kills = 0)
    BY <1>a, <1>11, FindMountedDoes DEF CountTypes
  <2> SUFFICES ASSUME kills' = 0 PROVE SeenTo'
    BY DEF SeenTo
  <2>2. kills = 0 /\ \A d \in Proc : OverlayEnds(d)
    BY <1>a, <2>1 DEF OverlaysEnd
  <2>3. \A l \in Loop : ~Holder(c, l) /\ ~Umounter(c, l) /\ ~Ender(c, l)
    BY <1>a, <1>11, <2>2, FindMountedDoes DEF OverlayEnds, Holder, Unwinding, Umounter, Ender
  <2>4. UNCHANGED <<loop, mounted>>
    BY <1>a, <1>11, FindMountedDoes
  <2> QED
    BY <1>a, <2>1, <2>2, <2>3, <2>4, <1>c, SeenStays
<1>12. ASSUME NEW c \in Proc, FindFreeLoopDevice(c) PROVE SeenTo'
  <2>1. Others(c) /\ (kills' = 0 => kills = 0)
    BY <1>a, <1>12, FindFreeLoopDeviceDoes DEF CountTypes
  <2> SUFFICES ASSUME kills' = 0 PROVE SeenTo'
    BY DEF SeenTo
  <2>2. kills = 0 /\ \A d \in Proc : OverlayEnds(d)
    BY <1>a, <2>1 DEF OverlaysEnd
  <2>3. \A l \in Loop : ~Holder(c, l) /\ ~Umounter(c, l) /\ ~Ender(c, l)
    BY <1>a, <1>12, <2>2, FindFreeLoopDeviceDoes DEF OverlayEnds, Holder, Unwinding, Umounter, Ender
  <2>4. UNCHANGED <<loop, mounted>>
    BY <1>a, <1>12, FindFreeLoopDeviceDoes
  <2> QED
    BY <1>a, <2>1, <2>2, <2>3, <2>4, <1>c, SeenStays
<1>13. ASSUME NEW c \in Proc, Attach(c) PROVE SeenTo'
  <2>1. Others(c) /\ (kills' = 0 => kills = 0)
    BY <1>a, <1>13, AttachDoes DEF CountTypes
  <2> SUFFICES ASSUME kills' = 0 PROVE SeenTo'
    BY DEF SeenTo
  <2>2. kills = 0 /\ \A d \in Proc : OverlayEnds(d)
    BY <1>a, <2>1 DEF OverlaysEnd
  <2>3. \A l \in Loop : ~Holder(c, l) /\ ~Umounter(c, l) /\ ~Ender(c, l)
    BY <1>a, <1>13, AttachDoes DEF Holder, Unwinding, Umounter, Ender
  <2>4. held[c].file # "none" /\ held[c].loop \in Loop
    BY <1>a, <1>13, RootSizes DEF Attach, Asked, ProcTypes, Recorded
  <2>5. \A l \in Loop : loop'[l] # NoFile => loop[l] # NoFile \/ Holder(c, l)'
    BY <1>a, <1>13, <2>4, AttachDoes DEF Holder
  <2>6. UNCHANGED mounted
    BY <1>a, <1>13, AttachDoes
  <2> QED
    BY <1>a, <2>1, <2>2, <2>3, <2>5, <2>6, <1>c, SeenStays
<1>14. ASSUME NEW c \in Proc, Killed(c) PROVE SeenTo'
  <2>1. kills' # 0
    BY <1>a, <1>14, KilledDoes DEF CountTypes
  <2> QED
    BY <2>1 DEF SeenTo
<1>15. ASSUME NEW c \in Proc, NEW ok \in BOOLEAN, MountImage(c, ok) PROVE SeenTo'
  <2>1. Others(c) /\ (kills' = 0 => kills = 0)
    BY <1>a, <1>15, MountImageDoes DEF CountTypes
  <2> SUFFICES ASSUME kills' = 0 PROVE SeenTo'
    BY DEF SeenTo
  <2>2. kills = 0 /\ \A d \in Proc : OverlayEnds(d)
    BY <1>a, <2>1 DEF OverlaysEnd
  <2>3. \A l \in Loop : ~Umounter(c, l) /\ ~Ender(c, l) /\ (Holder(c, l) => Holder(c, l)')
    BY <1>a, <1>15, MountImageDoes DEF Holder, Unwinding, Umounter, Ender
  <2>4. held[c].file # "none"
    BY <1>a, <1>15, RootSizes DEF MountImage, Asked
  <2>5. \A l \in mounted' : l \in mounted \/ Holder(c, l)'
    BY <1>a, <1>15, <2>4, MountImageDoes DEF Holder
  <2>6. \A l \in Loop : loop'[l] # NoFile => loop[l] # NoFile
    BY <1>a, <1>15, MountImageDoes DEF Loosens
  <2> QED
    BY <1>a, <2>1, <2>2, <2>3, <2>5, <2>6, <1>c, SeenStays
<1>16. ASSUME NEW c \in Proc, NEW ok \in BOOLEAN, MountOverlay(c, ok) PROVE SeenTo'
  <2>1. Others(c) /\ (kills' = 0 => kills = 0)
    BY <1>a, <1>16, MountOverlayDoes DEF CountTypes
  <2> SUFFICES ASSUME kills' = 0 PROVE SeenTo'
    BY DEF SeenTo
  <2>2. kills = 0 /\ \A d \in Proc : OverlayEnds(d)
    BY <1>a, <2>1 DEF OverlaysEnd
  <2>3. \A l \in Loop : Holder(c, l) => Holder(c, l)'
    BY <1>a, <1>16, MountOverlayDoes DEF Holder, Unwinding, CountTypes
  <2>4. \A l \in Loop : Umounter(c, l) => l \notin mounted' /\ Ender(c, l)'
    BY <1>a, <1>16, MountOverlayDoes DEF Umounter, Ender
  <2>5. \A l \in Loop : Ender(c, l) => Ender(c, l)'
    BY <1>a, <1>16, MountOverlayDoes DEF Ender
  <2>6. mounted' \subseteq mounted /\ \A l \in Loop : loop'[l] # NoFile => loop[l] # NoFile
    BY <1>a, <1>16, MountOverlayDoes, StaysLoosens DEF Loosens
  <2> QED
    BY <1>a, <2>1, <2>2, <2>3, <2>4, <2>5, <2>6, <1>c, SeenStays
<1>17. ASSUME NEW c \in Proc, NEW ok \in BOOLEAN, StoreAndStart(c, ok) PROVE SeenTo'
  <2>1. Others(c) /\ (kills' = 0 => kills = 0)
    BY <1>a, <1>17, StoreAndStartDoes DEF CountTypes
  <2> SUFFICES ASSUME kills' = 0 PROVE SeenTo'
    BY DEF SeenTo
  <2>2. kills = 0 /\ \A d \in Proc : OverlayEnds(d)
    BY <1>a, <2>1 DEF OverlaysEnd
  <2>3. \A l \in Loop : Holder(c, l) => Holder(c, l)'
    BY <1>a, <1>17, StoreAndStartDoes DEF Holder, Unwinding, CountTypes
  <2>4. \A l \in Loop : Umounter(c, l) => l \notin mounted' /\ Ender(c, l)'
    BY <1>a, <1>17, StoreAndStartDoes DEF Umounter, Ender
  <2>5. \A l \in Loop : Ender(c, l) => Ender(c, l)'
    BY <1>a, <1>17, StoreAndStartDoes DEF Ender
  <2>6. mounted' \subseteq mounted /\ \A l \in Loop : loop'[l] # NoFile => loop[l] # NoFile
    BY <1>a, <1>17, StoreAndStartDoes, StaysLoosens DEF Loosens
  <2> QED
    BY <1>a, <2>1, <2>2, <2>3, <2>4, <2>5, <2>6, <1>c, SeenStays
<1>18. ASSUME NEW i \in Img, Replace(i) PROVE SeenTo'
  <2>1. UNCHANGED <<at, back, down, held, loop, mounted, kills>>
    BY <1>18 DEF Replace
  <2>2. \A d \in Proc, l \in Loop :
          (Holder(d, l) <=> Holder(d, l)') /\ (Umounter(d, l) <=> Umounter(d, l)') /\ (Ender(d, l) <=> Ender(d, l)')
    BY <2>1 DEF Holder, Unwinding, Umounter, Ender
  <2>3. mounted \subseteq Loop
    BY <1>a DEF KernelTypes
  <2> SUFFICES ASSUME kills = 0 PROVE SeenTo'
    BY <2>1 DEF SeenTo
  <2>4. \A l \in mounted' : \E d \in Proc : Holder(d, l)' \/ Umounter(d, l)'
    BY <1>a, <2>1, <2>2, <2>3 DEF SeenTo
  <2>5. \A l \in Loop : loop'[l] # NoFile => \E d \in Proc : Holder(d, l)' \/ Umounter(d, l)' \/ Ender(d, l)'
    BY <1>a, <2>1, <2>2 DEF SeenTo
  <2> QED
    BY <2>4, <2>5 DEF SeenTo
<1> QED
  BY <1>1, <1>2, <1>3, <1>4, <1>5, <1>6, <1>7, <1>8, <1>9, <1>10, <1>11, <1>12, <1>13, <1>14,
     <1>15, <1>16, <1>17, <1>18 DEF RootNext

\* A first state.
LEMMA RootBegins == RootInit => RootInv
<1> SUFFICES ASSUME RootInit PROVE RootInv
  OBVIOUS
<1>1. PICK on \in SUBSET Containers :
        LET image == [file |-> FirstImg, ver |-> 0, auto |-> FALSE]
            Of(x, y) == [c \in Proc |-> IF c \in on THEN x ELSE y] IN
        /\ at = Of("up", "idle") /\ lower = Of(FirstImg, "none")
        /\ held = Of([file |-> FirstImg, loop |-> 0], NoImage) /\ rec = held
        /\ over = Of([on |-> TRUE, loop |-> 0, shows |-> image], NoOverlay)
        /\ loop = [l \in Loop |-> IF on # {} /\ l = 0 THEN image ELSE NoFile]
        /\ mounted = (IF on # {} THEN {0} ELSE {}) /\ mountDir = mounted
  BY DEF RootInit
<1>2. PICK im : im = [file |-> FirstImg, ver |-> 0, auto |-> FALSE]
  OBVIOUS
<1>3. PICK hi : hi = [file |-> FirstImg, loop |-> 0]
  OBVIOUS
<1>4. PICK ov : ov = [on |-> TRUE, loop |-> 0, shows |-> im]
  OBVIOUS
<1>5. /\ at = [c \in Proc |-> IF c \in on THEN "up" ELSE "idle"]
      /\ lower = [c \in Proc |-> IF c \in on THEN FirstImg ELSE "none"]
      /\ held = [c \in Proc |-> IF c \in on THEN hi ELSE NoImage] /\ rec = held
      /\ over = [c \in Proc |-> IF c \in on THEN ov ELSE NoOverlay]
      /\ loop = [l \in Loop |-> IF on # {} /\ l = 0 THEN im ELSE NoFile]
      /\ mounted = (IF on # {} THEN {0} ELSE {}) /\ mountDir = mounted
  BY <1>1, <1>2, <1>3, <1>4
<1>6. /\ goal = [c \in Proc |-> "end"] /\ back = [c \in Proc |-> "clean"] /\ down = [c \in Proc |-> 0]
      /\ ver = [i \in Img |-> 0] /\ kills = 0 /\ sought = [c \in Proc |-> 0] /\ met = {} /\ crowded = FALSE
  BY DEF RootInit
<1>7. im \in Backed /\ hi \in Recorded /\ ov \in Overlays /\ im # NoFile
  BY <1>2, <1>3, <1>4, RootSizes, NoFileTyped DEF Backed, Recorded, Overlays, ImgName
<1>8. im.file = FirstImg /\ im.ver = 0 /\ hi.file = FirstImg /\ hi.loop = 0 /\ ov.on /\ ov.loop = 0 /\ ov.shows = im
  BY <1>2, <1>3, <1>4
<1>9. FirstImg \in Img /\ FirstImg \in ImgName /\ "none" \in ImgName /\ FirstImg # "none" /\ 0 \in Loop /\ on \subseteq Proc
  BY RootSizes DEF ImgName, Containers
<1>10. ProcTypes
  BY <1>5, <1>6, <1>7, <1>9, NoFileTyped DEF ProcTypes, RootSteps, Resting
<1>11. KernelTypes /\ CountTypes
  BY <1>5, <1>6, <1>7, <1>9, NoFileTyped DEF KernelTypes, CountTypes
<1>12. LoopsBack
  BY <1>5, <1>6, <1>7, <1>8, <1>9 DEF LoopsBack
<1>13. OverlaysBack
  BY <1>5, <1>8, <1>9, NoFileTyped DEF OverlaysBack
<1>14. Asked
  BY <1>5, <1>8, <1>9, RootSizes DEF Asked, Containers
<1>15. Turns
  BY <1>5, <1>6 DEF Turns, Resting
<1>16. Alone
  BY <1>5, <1>6, <1>7, <1>8, <1>9 DEF Alone, AloneAt
<1>17. Idempotent /\ LiveMountKept
  BY <1>5, <1>8, <1>9 DEF Idempotent, LiveMountKept, Containers
<1>18. OwnMerge
  BY <1>5, RootSizes DEF OwnMerge, MergeAt, Containers
<1>19. Spared
  BY <1>5 DEF Spared
<1>20. OverlaysEnd
  BY <1>5, <1>8, <1>9, NoFileTyped DEF OverlaysEnd, OverlayEnds
<1>21. SeenTo
  <2>1. ASSUME NEW l \in Loop, l \in mounted \/ loop[l] # NoFile PROVE \E c \in Proc : Holder(c, l)
    <3>1. on # {} /\ l = 0
      BY <1>5, <2>1
    <3>2. PICK c : c \in on
      BY <3>1
    <3> QED
      BY <1>5, <1>8, <1>9, <3>1, <3>2 DEF Holder
  <2> QED
    BY <1>11, <2>1 DEF SeenTo, KernelTypes
<1> QED
  BY <1>10, <1>11, <1>12, <1>13, <1>14, <1>15, <1>16, <1>17, <1>18, <1>19, <1>20, <1>21 DEF RootInv

\* What follows from the invariant.
LEMMA RootSafe == RootInv => RootfsSafe
<1> SUFFICES ASSUME RootInv PROVE RootfsSafe
  OBVIOUS
<1>1. RootTypeOK
  BY DEF RootInv, ProcTypes, KernelTypes, Recorded, Overlays, LoopsBack, RootTypeOK
<1>2. ShowsOwn
  BY DEF RootInv, Alone, AloneAt, ShowsOwn
<1>3. NothingLeaks
  <2> SUFFICES ASSUME kills = 0, \A c \in Proc : at[c] \in {"idle", "up"}, NEW l \in Loop, loop[l] # NoFile
               PROVE  \E c \in Proc : at[c] = "up" /\ over[c].loop = l
    BY DEF NothingLeaks
  <2>1. PICK c \in Proc : Holder(c, l) \/ Umounter(c, l) \/ Ender(c, l)
    BY DEF RootInv, SeenTo
  <2>2. at[c] = "up" /\ held[c].loop = l
    BY <2>1 DEF Holder, Unwinding, Umounter, Ender
  <2> QED
    BY <2>2 DEF RootInv, Asked
<1> QED
  BY <1>1, <1>2, <1>3 DEF RootInv, RootfsSafe

\* However starts, ends, snapshot merges, replacements and kills interleave:
\* a start that met no other shows its own image (ShowsOwn), and while
\* operations take turns a running container keeps its mount (LiveMountKept)
\* and no image is mounted twice (Idempotent); without kills nothing stays
\* attached that no running container uses, turns or not (NothingLeaks), for
\* any number of containers, images and loop devices (diskimage.Mount,
\* mountRootfs, UmountRootfs, reclaimStaleImmutableMounts).
THEOREM RootfsIsSafe == RootSpec => []RootfsSafe
<1>1. RootInit => RootInv
  BY RootBegins
<1>2. RootInv /\ [RootNext]_rootVars => RootInv'
  <2> SUFFICES ASSUME RootInv, [RootNext]_rootVars PROVE RootInv'
    OBVIOUS
  <2>1. CASE RootNext
    BY <2>1, ProcTypesStep, KernelTypesStep, CountTypesStep, LoopsBackStep, OverlaysBackStep, AskedStep, TurnsStep,
       AloneStep, IdempotentStep, LiveMountStep, OwnMergeStep, SparedStep, OverlaysEndStep, SeenToStep DEF RootInv
  <2>2. CASE UNCHANGED rootVars
    <3>1. ProcTypes' /\ KernelTypes' /\ CountTypes' /\ LoopsBack' /\ OverlaysBack'
      BY <2>2 DEF RootInv, ProcTypes, KernelTypes, CountTypes, LoopsBack, OverlaysBack, rootVars
    <3>2. Asked' /\ Turns' /\ Idempotent' /\ LiveMountKept'
      BY <2>2 DEF RootInv, Asked, Turns, Idempotent, LiveMountKept, rootVars
    <3>3. Alone' /\ OwnMerge' /\ Spared'
      BY <2>2 DEF RootInv, Alone, AloneAt, Newer, Backs, OwnMerge, MergeAt, Spared, Unshared, rootVars
    <3>4. OverlaysEnd'
      BY <2>2 DEF RootInv, OverlaysEnd, OverlayEnds, Unwinding, rootVars
    <3>5. SeenTo'
      BY <2>2 DEF RootInv, SeenTo, Holder, Unwinding, Umounter, Ender, rootVars
    <3> QED
      BY <3>1, <3>2, <3>3, <3>4, <3>5 DEF RootInv
  <2> QED
    BY <2>1, <2>2
<1>3. RootInv => RootfsSafe
  BY RootSafe
<1> QED
  BY <1>1, <1>2, <1>3, PTL DEF RootSpec

-----------------------------------------------------------------------------
(* Flattening the layers of an image: paths and what is below them.        *)

\* Paths with at least one name: what cleanPath keeps of a header's name.
NamePaths == Seq(STRING) \ {<<>>}

\* A prefix, name by name.
LEMMA PrefixPointwise ==
  ASSUME NEW S, NEW s \in Seq(S), NEW t \in Seq(S)
  PROVE  IsPrefix(s, t) <=> Len(s) <= Len(t) /\ \A i \in 1..Len(s) : s[i] = t[i]
<1>1. Len(s) \in Nat /\ Len(t) \in Nat
  OBVIOUS
<1>2. SubSeq(s, 1, Len(s)) = s
  BY <1>1
<1>3. ASSUME Len(s) <= Len(t)
      PROVE  /\ SubSeq(t, 1, Len(s)) \in Seq(S) /\ Len(SubSeq(t, 1, Len(s))) = Len(s)
             /\ \A i \in 1..Len(s) : SubSeq(t, 1, Len(s))[i] = t[i]
  BY <1>1, <1>3
<1>4. ASSUME Len(s) <= Len(t), \A i \in 1..Len(s) : s[i] = t[i]
      PROVE  s = SubSeq(t, 1, Len(s))
  <2> DEFINE u == SubSeq(t, 1, Len(s))
  <2>1. u \in Seq(S) /\ Len(u) = Len(s) /\ \A i \in 1..Len(s) : u[i] = t[i]
    BY <1>3, <1>4
  <2> HIDE DEF u
  <2>2. s = u
    BY <1>1, <1>4, <2>1, SeqEqual
  <2> QED  BY <2>2 DEF u
<1> QED  BY <1>1, <1>2, <1>3, <1>4 DEF IsPrefix

\* A prefix of a prefix is a prefix.
LEMMA PrefixTransitive ==
  ASSUME NEW S, NEW r \in Seq(S), NEW s \in Seq(S), NEW t \in Seq(S),
         IsPrefix(r, s), IsPrefix(s, t)
  PROVE  IsPrefix(r, t)
<1>1. Len(r) \in Nat /\ Len(s) \in Nat /\ Len(t) \in Nat
  OBVIOUS
<1>2. /\ Len(r) <= Len(s) /\ \A i \in 1..Len(r) : r[i] = s[i]
      /\ Len(s) <= Len(t) /\ \A i \in 1..Len(s) : s[i] = t[i]
  BY PrefixPointwise
<1>3. \A i \in 1..Len(r) : r[i] = t[i]
  BY <1>1, <1>2
<1> QED  BY <1>1, <1>2, <1>3, PrefixPointwise

\* What is below a path has it as a shorter prefix.
LEMMA BelowIsLonger ==
  ASSUME NEW S, NEW p \in Seq(S), NEW q \in Seq(S)
  PROVE  Below(p, q) <=> IsPrefix(q, p) /\ Len(q) < Len(p)
<1>1. Len(p) \in Nat /\ Len(q) \in Nat
  OBVIOUS
<1>2. ASSUME IsPrefix(q, p), ~(Len(q) < Len(p))
      PROVE  q = p
  <2>1. Len(q) = Len(p) /\ \A i \in 1..Len(q) : q[i] = p[i]
    BY <1>1, <1>2, PrefixPointwise
  <2> QED  BY <2>1, SeqEqual
<1> QED  BY <1>1, <1>2 DEF Below

\* What is below a path is below that path's own prefixes.
LEMMA BelowTransitive ==
  ASSUME NEW S, NEW p \in Seq(S), NEW q \in Seq(S), NEW r \in Seq(S),
         Below(p, q), IsPrefix(r, q)
  PROVE  Below(p, r)
<1>1. Len(p) \in Nat /\ Len(q) \in Nat /\ Len(r) \in Nat
  OBVIOUS
<1>2. IsPrefix(q, p) /\ Len(q) < Len(p) /\ Len(r) <= Len(q)
  BY BelowIsLonger, PrefixPointwise
<1>3. IsPrefix(r, p)
  BY <1>2, PrefixTransitive
<1> QED  BY <1>1, <1>2, <1>3, BelowIsLonger

\* The directories of a path are the paths it is below.
LEMMA ParentsAreBelow ==
  ASSUME NEW p \in Seq(STRING)
  PROVE  /\ \A q \in Parents(p) : q \in NamePaths /\ Below(p, q)
         /\ \A q \in NamePaths : Below(p, q) => q \in Parents(p)
<1>1. Len(p) \in Nat
  OBVIOUS
<1>2. ASSUME NEW n \in 1..(Len(p) - 1)
      PROVE  SubSeq(p, 1, n) \in NamePaths /\ Below(p, SubSeq(p, 1, n))
  <2>1. /\ SubSeq(p, 1, n) \in Seq(STRING) /\ Len(SubSeq(p, 1, n)) = n
        /\ \A i \in 1..n : SubSeq(p, 1, n)[i] = p[i]
    BY <1>1
  <2>2. n \in Nat /\ n >= 1 /\ n < Len(p)
    BY <1>1
  <2>3. SubSeq(p, 1, n) # <<>>
    BY <2>1, <2>2
  <2>4. IsPrefix(SubSeq(p, 1, n), p)
    <3> DEFINE u == SubSeq(p, 1, n)
    <3>1. u \in Seq(STRING) /\ Len(u) = n /\ \A i \in 1..n : u[i] = p[i]
      BY <2>1
    <3> HIDE DEF u
    <3>2. Len(u) <= Len(p) /\ \A i \in 1..Len(u) : u[i] = p[i]
      BY <1>1, <2>2, <3>1
    <3>3. IsPrefix(u, p)
      BY <3>1, <3>2, PrefixPointwise
    <3> QED  BY <3>3 DEF u
  <2> QED  BY <2>1, <2>2, <2>3, <2>4, BelowIsLonger DEF NamePaths
<1>3. ASSUME NEW q \in NamePaths, Below(p, q)
      PROVE  q \in Parents(p)
  <2>1. q \in Seq(STRING) /\ q # <<>> /\ Len(q) \in Nat
    BY DEF NamePaths
  <2>2. Len(q) # 0
    BY <2>1
  <2>3. IsPrefix(q, p) /\ Len(q) < Len(p)
    BY <1>3, <2>1, BelowIsLonger
  <2>4. Len(q) \in 1..(Len(p) - 1)
    BY <1>1, <2>1, <2>2, <2>3
  <2>5. q = SubSeq(p, 1, Len(q))
    BY <2>1, <2>3 DEF IsPrefix
  <2> QED  BY <2>4, <2>5 DEF Parents
<1> QED  BY <1>2, <1>3 DEF Parents

-----------------------------------------------------------------------------
(* The changeset of a layer, path by path.                                 *)

\* The paths a layer adds, the directories they need, what is added at a path,
\* and what the layer takes away from the layers below.
AddPaths == {h.path : h \in Adds}
AddDirs == UNION {Parents(p) : p \in AddPaths}
KindAt(p) == (CHOOSE h \in Adds : h.path = p).kind
Dropped(p) ==
  \/ \E h \in headers : h.kind = "wh" /\ IsPrefix(h.path, p)
  \/ \E h \in headers : h.kind = "opq" /\ Below(p, h.path)
  \/ \E q \in AddPaths : Below(p, q) /\ KindAt(q) # "dir"
Kept == {p \in DOMAIN expected : ~Dropped(p)}

\* What ApplyChangeset has at a path.
LEMMA ChangesetAt ==
  /\ DOMAIN ApplyChangeset = AddPaths \cup AddDirs \cup Kept
  /\ \A p \in DOMAIN ApplyChangeset :
       ApplyChangeset[p] = IF p \in AddPaths THEN Entry(KindAt(p), Layer)
                           ELSE IF p \in AddDirs /\ (p \notin Kept \/ expected[p].kind # "dir") THEN Implied
                           ELSE expected[p]
<1> DEFINE added == [p \in {h.path : h \in Adds} |->
                       Entry((CHOOSE h \in Adds : h.path = p).kind, Layer)]
           whs == {h.path : h \in {g \in headers : g.kind = "wh"}}
           opqs == {h.path : h \in {g \in headers : g.kind = "opq"}}
           Gone(p) == \/ \E w \in whs : IsPrefix(w, p)
                      \/ \E q \in opqs : Below(p, q)
                      \/ \E q \in DOMAIN added : Below(p, q) /\ added[q].kind # "dir"
           kept == [p \in {q \in DOMAIN expected : ~Gone(q)} |-> expected[p]]
           dirs == UNION {Parents(p) : p \in DOMAIN added}
           implied == [p \in {q \in dirs : q \notin DOMAIN kept \/ kept[q].kind # "dir"} |-> Implied]
<1>1. ApplyChangeset = (added ++ implied) ++ kept
  BY DEF ApplyChangeset, Without
<1>2. DOMAIN added = AddPaths /\ \A p \in AddPaths : added[p] = Entry(KindAt(p), Layer)
  BY DEF AddPaths, KindAt
<1>3. \A p \in AddPaths : added[p].kind = KindAt(p)
  BY <1>2 DEF Entry
<1>4. \A p : (\E w \in whs : IsPrefix(w, p)) <=> \E h \in headers : h.kind = "wh" /\ IsPrefix(h.path, p)
  OBVIOUS
<1>5. \A p : (\E q \in opqs : Below(p, q)) <=> \E h \in headers : h.kind = "opq" /\ Below(p, h.path)
  OBVIOUS
<1>6. dirs = AddDirs
  BY <1>2 DEF AddDirs
<1> HIDE DEF added, whs, opqs, dirs
<1>7. \A p : Gone(p) <=> Dropped(p)
  BY <1>2, <1>3, <1>4, <1>5 DEF Dropped
<1> HIDE DEF Gone
<1>8. DOMAIN kept = Kept /\ \A p \in Kept : kept[p] = expected[p]
  BY <1>7 DEF Kept
<1> HIDE DEF kept
<1>9. /\ DOMAIN implied = {q \in AddDirs : q \notin Kept \/ expected[q].kind # "dir"}
      /\ \A p \in DOMAIN implied : implied[p] = Implied
  BY <1>6, <1>8
<1> HIDE DEF implied
<1>10. /\ DOMAIN (added ++ implied) = AddPaths \cup DOMAIN implied
       /\ \A p \in AddPaths \cup DOMAIN implied :
            (added ++ implied)[p] = IF p \in AddPaths THEN added[p] ELSE implied[p]
  BY <1>2 DEF ++
<1> DEFINE upper == added ++ implied
<1> HIDE DEF upper
<1>11. /\ DOMAIN (upper ++ kept) = DOMAIN upper \cup Kept
       /\ \A p \in DOMAIN upper \cup Kept :
            (upper ++ kept)[p] = IF p \in DOMAIN upper THEN upper[p] ELSE kept[p]
  BY <1>8 DEF ++
<1>12. /\ DOMAIN upper = AddPaths \cup DOMAIN implied
       /\ \A p \in AddPaths \cup DOMAIN implied :
            upper[p] = IF p \in AddPaths THEN added[p] ELSE implied[p]
  BY <1>10 DEF upper
<1>13. ApplyChangeset = upper ++ kept
  BY <1>1 DEF upper
<1> QED  BY <1>2, <1>8, <1>9, <1>11, <1>12, <1>13

\* Every entry stands in directories that are there.
Closed(m) == \A p \in DOMAIN m : \A q \in Parents(p) : q \in DOMAIN m /\ m[q].kind = "dir"

\* Headers of one layer, pair by pair.
HeadersFit ==
  \A g, h \in headers : g # h =>
    /\ g.path = h.path => {g.kind, h.kind} = {"opq", "dir"}
    /\ Below(g.path, h.path) => h.kind \in {"dir", "opq"}

\* Every header names a path, but for an opaque marker of the root.
HeadersTyped ==
  \A h \in headers :
    /\ h.path \in Seq(STRING) /\ h.kind \in {"reg", "sym", "dir", "wh", "opq"}
    /\ h.kind # "opq" => h.path # <<>>
\* What the layers so far leave is a tree of directories.
ExpectedIsTree == DOMAIN expected \subseteq NamePaths /\ Closed(expected)

\* The entry chosen for a path is one the layer has there.
LEMMA KindIs ==
  ASSUME NEW p \in AddPaths
  PROVE  \E h \in Adds : h.path = p /\ h.kind = KindAt(p)
BY DEF AddPaths, KindAt

\* What a layer adds, and the directories it needs, have names.
LEMMA AddedPaths ==
  ASSUME HeadersTyped
  PROVE  AddPaths \subseteq NamePaths /\ AddDirs \subseteq NamePaths
<1>1. AddPaths \subseteq NamePaths
  BY DEF HeadersTyped, AddPaths, Adds, NamePaths
<1>2. \A p \in AddPaths : Parents(p) \subseteq NamePaths
  BY <1>1, ParentsAreBelow DEF NamePaths
<1> QED  BY <1>1, <1>2 DEF AddDirs

\* What an added entry is below is a directory of the layer.
LEMMA AboveAddedIsDir ==
  ASSUME HeadersTyped, HeadersFit, NEW p \in AddPaths, NEW q \in AddPaths, Below(p, q)
  PROVE  KindAt(q) = "dir"
<1>1. PICK h \in Adds : h.path = q /\ h.kind = KindAt(q)
  BY KindIs
<1>2. PICK g \in Adds : g.path = p
  BY DEF AddPaths
<1>3. g # h
  BY <1>1, <1>2 DEF Below
<1>4. h.kind \in {"dir", "opq"}
  BY <1>1, <1>2, <1>3 DEF HeadersFit, Adds
<1> QED  BY <1>1, <1>4 DEF Adds

\* The directories of a directory of a path are directories of the path.
LEMMA ParentsTransitive ==
  ASSUME NEW p \in NamePaths, NEW q \in Parents(p), NEW r \in Parents(q)
  PROVE  r \in Parents(p)
<1>1. q \in NamePaths /\ Below(p, q)
  BY ParentsAreBelow DEF NamePaths
<1>2. r \in NamePaths /\ Below(q, r)
  BY <1>1, ParentsAreBelow DEF NamePaths
<1>3. Below(p, r)
  BY <1>1, <1>2, BelowTransitive DEF NamePaths, Below
<1> QED  BY <1>2, <1>3, ParentsAreBelow DEF NamePaths

\* What a layer leaves behind is a tree again.
LEMMA ChangesetIsTree ==
  ASSUME HeadersTyped, HeadersFit, ExpectedIsTree
  PROVE  DOMAIN ApplyChangeset \subseteq NamePaths /\ Closed(ApplyChangeset)
<1>1. DOMAIN ApplyChangeset \subseteq NamePaths
  BY ChangesetAt, AddedPaths DEF ExpectedIsTree, Kept
<1>2. ASSUME NEW p \in AddPaths \cup AddDirs, NEW q \in Parents(p)
      PROVE  q \in AddDirs /\ \E a \in AddPaths : Below(a, q)
  <2>1. PICK a \in AddPaths : p = a \/ p \in Parents(a)
    BY DEF AddDirs
  <2>2. a \in NamePaths
    BY AddedPaths
  <2>3. q \in Parents(a)
    BY <2>1, <2>2, ParentsTransitive
  <2>4. Below(a, q)
    BY <2>2, <2>3, ParentsAreBelow DEF NamePaths
  <2> QED  BY <2>3, <2>4 DEF AddDirs
<1>3. ASSUME NEW q \in AddDirs, \E a \in AddPaths : Below(a, q)
      PROVE  q \in DOMAIN ApplyChangeset /\ ApplyChangeset[q].kind = "dir"
  <2>1. q \in AddPaths => KindAt(q) = "dir"
    BY <1>3, AboveAddedIsDir
  <2>2. Implied.kind = "dir" /\ \A k : Entry(k, Layer).kind = k
    BY DEF Implied, Entry
  <2> QED  BY <2>1, <2>2, ChangesetAt
<1>4. ASSUME NEW p \in Kept, NEW q \in Parents(p)
      PROVE  q \in DOMAIN ApplyChangeset /\ ApplyChangeset[q].kind = "dir"
  <2>1. p \in NamePaths /\ q \in DOMAIN expected /\ expected[q].kind = "dir"
    BY DEF ExpectedIsTree, Closed, Kept
  <2>2. q \in NamePaths /\ Below(p, q) /\ IsPrefix(q, p)
    BY <2>1, ParentsAreBelow DEF NamePaths, Below
  <2>3. ~Dropped(q)
    <3>1. ~Dropped(p)
      BY DEF Kept
    <3>2. ASSUME NEW h \in headers, h.kind = "wh", IsPrefix(h.path, q)
          PROVE  FALSE
      <4>1. IsPrefix(h.path, p)
        BY <2>1, <2>2, <3>2, PrefixTransitive DEF HeadersTyped, NamePaths
      <4> QED  BY <3>1, <3>2, <4>1 DEF Dropped
    <3>3. ASSUME NEW h \in headers, h.kind = "opq", Below(q, h.path)
          PROVE  FALSE
      <4>1. Below(p, h.path)
        BY <2>1, <2>2, <3>3, BelowTransitive DEF HeadersTyped, NamePaths, Below
      <4> QED  BY <3>1, <3>3, <4>1 DEF Dropped
    <3>4. ASSUME NEW a \in AddPaths, Below(q, a), KindAt(a) # "dir"
          PROVE  FALSE
      <4>0. a \in NamePaths
        BY AddedPaths
      <4>1. Below(p, a)
        BY <2>1, <2>2, <3>4, <4>0, BelowTransitive DEF NamePaths, Below
      <4> QED  BY <3>1, <3>4, <4>1 DEF Dropped
    <3> QED  BY <3>2, <3>3, <3>4 DEF Dropped
  <2>4. q \in Kept
    BY <2>1, <2>3 DEF Kept
  <2>5. q \in AddPaths => KindAt(q) = "dir"
    <3>1. ~Dropped(p)
      BY DEF Kept
    <3> QED  BY <2>2, <3>1 DEF Dropped
  <2>6. \A k : Entry(k, Layer).kind = k
    BY DEF Entry
  <2> QED  BY <2>1, <2>4, <2>5, <2>6, ChangesetAt
<1> QED  BY <1>1, <1>2, <1>3, <1>4, ChangesetAt DEF Closed

-----------------------------------------------------------------------------
(* Flatten, header by header.                                              *)

\* The map has e at p, and it is a file or a link.
NonDirAt(m, p, e) == p \in DOMAIN m /\ m[p] = e /\ e.kind # "dir"
\* A whiteout or an opaque marker hides what the layers below have at p.
Hidden(p) ==
  \/ \E h \in headers : h.kind = "wh" /\ IsPrefix(h.path, p)
  \/ \E h \in headers : h.kind = "opq" /\ Below(p, h.path)

\* The files the headers read so far leave: the layer's own, and those of the
\* layers below that it neither replaces nor hides.
LeftAt(p, e) ==
  \/ \E h \in Adds : h.kind # "dir" /\ h.path = p /\ e = Entry(h.kind, Layer)
  \/ NonDirAt(expected, p, e) /\ p \notin AddPaths /\ ~Hidden(p)

\* No header takes a directory for something else, or the reverse.
HeadersAgree ==
  \A h \in headers :
    /\ h.path # <<>>
    /\ \A p \in Parents(h.path) : p \in DOMAIN expected => expected[p].kind = "dir"
    /\ (h.kind \in {"dir", "opq"} /\ h.path \in DOMAIN expected) => expected[h.path].kind = "dir"
    /\ (h.kind \in {"reg", "sym"} /\ h.path \in DOMAIN expected) => expected[h.path].kind # "dir"

\* Flatten's map holds what is left, after every header; `Ordinary' says that
\* no header was of the kinds the two rules differ on.
FilesAreLeft == \A p, e : NonDirAt(files, p, e) <=> LeftAt(p, e)
Ordinary == odd \cap {"rootOpaque", "typeChange"} = {}

\* The inductive invariant of Flatten: its map is judged between layers, the
\* invariant says what it is after every header.
FlattenInv ==
  tool = "flatten" =>
    /\ phase \in {"read", "cached"}
    /\ phase = "cached" => headers = {}
    /\ phase = "read" => currentLayerPaths = AddPaths
    /\ HeadersTyped /\ HeadersFit /\ ExpectedIsTree
    /\ Ordinary => HeadersAgree /\ FilesAreLeft

\* A path is added by some entry of the layer.
LEMMA AddPathsAre == \A p : p \in AddPaths <=> \E h \in Adds : h.path = p
BY DEF AddPaths

\* Of ordinary headers Flatten's rule and the OCI rule leave the same.
LEMMA LeftIsChangeset ==
  ASSUME HeadersTyped, HeadersFit, ExpectedIsTree, HeadersAgree, NEW p, NEW e
  PROVE  NonDirAt(ApplyChangeset, p, e) <=> LeftAt(p, e)
<1>0. Implied.kind = "dir" /\ \A k : Entry(k, Layer).kind = k
  BY DEF Implied, Entry
<1>1. CASE p \in AddPaths
  <2>1. NonDirAt(ApplyChangeset, p, e) <=> e = Entry(KindAt(p), Layer) /\ KindAt(p) # "dir"
    BY <1>0, <1>1, ChangesetAt DEF NonDirAt
  <2>2. PICK h \in Adds : h.path = p /\ h.kind = KindAt(p)
    BY <1>1, KindIs
  <2>3. ASSUME NEW g \in Adds, g.path = p
        PROVE  g.kind = KindAt(p)
    <3>1. g # h => {g.kind, h.kind} = {"opq", "dir"}
      BY <2>2, <2>3 DEF HeadersFit, Adds
    <3>2. g.kind # "opq" /\ h.kind # "opq"
      BY <2>2 DEF Adds
    <3> QED  BY <2>2, <3>1, <3>2
  <2>4. LeftAt(p, e) <=> \E g \in Adds : g.kind # "dir" /\ g.path = p /\ e = Entry(g.kind, Layer)
    BY <1>1 DEF LeftAt
  <2> QED  BY <2>1, <2>2, <2>3, <2>4
<1>2. CASE p \notin AddPaths
  <2>1. LeftAt(p, e) <=> NonDirAt(expected, p, e) /\ ~Hidden(p)
    BY <1>2, AddPathsAre DEF LeftAt
  <2>2. ASSUME NonDirAt(expected, p, e)
        PROVE  /\ p \notin AddDirs
               /\ \A q \in AddPaths : Below(p, q) => KindAt(q) = "dir"
    <3>1. p \in NamePaths /\ p \in DOMAIN expected /\ expected[p].kind # "dir"
      BY <2>2 DEF NonDirAt, ExpectedIsTree
    <3>2. p \notin AddDirs
      <4>1. ASSUME NEW a \in AddPaths, p \in Parents(a)
            PROVE  FALSE
        <5>1. PICK h \in Adds : h.path = a
          BY AddPathsAre
        <5> QED  BY <3>1, <4>1, <5>1 DEF HeadersAgree, Adds
      <4> QED  BY <4>1 DEF AddDirs
    <3>3. ASSUME NEW q \in AddPaths, Below(p, q), KindAt(q) # "dir"
          PROVE  FALSE
      <4>1. PICK h \in Adds : h.path = q /\ h.kind = KindAt(q)
        BY KindIs
      <4>2. h \in headers /\ h.kind \in {"reg", "sym"}
        BY <3>3, <4>1 DEF Adds
      <4>3. q \in NamePaths
        BY AddedPaths
      <4>4. q \in Parents(p)
        BY <3>1, <3>3, <4>3, ParentsAreBelow DEF NamePaths
      <4>5. q \in DOMAIN expected /\ expected[q].kind = "dir"
        BY <3>1, <4>4 DEF ExpectedIsTree, Closed
      <4> QED  BY <4>1, <4>2, <4>5 DEF HeadersAgree
    <3> QED  BY <3>2, <3>3
  <2>3. ASSUME NonDirAt(expected, p, e)
        PROVE  p \in Kept <=> ~Hidden(p)
    BY <2>2, <2>3 DEF Kept, Dropped, Hidden, NonDirAt
  <2>4. ASSUME NonDirAt(ApplyChangeset, p, e)
        PROVE  p \in Kept /\ NonDirAt(expected, p, e)
    <3>1. p \in DOMAIN ApplyChangeset /\ ApplyChangeset[p] = e /\ e.kind # "dir"
      BY <2>4 DEF NonDirAt
    <3>2. p \in AddDirs \cup Kept
      BY <1>2, <3>1, ChangesetAt
    <3>3. ~(p \in AddDirs /\ (p \notin Kept \/ expected[p].kind # "dir"))
      BY <1>0, <1>2, <3>1, ChangesetAt
    <3>4. p \in Kept /\ ApplyChangeset[p] = expected[p]
      BY <1>2, <3>1, <3>2, <3>3, ChangesetAt
    <3> QED  BY <3>1, <3>4 DEF Kept, NonDirAt
  <2>5. ASSUME NonDirAt(expected, p, e), p \in Kept
        PROVE  NonDirAt(ApplyChangeset, p, e)
    BY <1>2, <2>2, <2>5, ChangesetAt DEF NonDirAt
  <2> QED  BY <2>1, <2>3, <2>4, <2>5
<1> QED  BY <1>1, <1>2

\* Nothing read, nothing held.
LEMMA FlattenInitial == LayersInit => FlattenInv
<1> SUFFICES ASSUME LayersInit, tool = "flatten" PROVE FlattenInv
  BY DEF FlattenInv
<1>1. phase = "read" /\ headers = {} /\ currentLayerPaths = {} /\ odd = {}
  BY DEF LayersInit
<1>2. DOMAIN files = {} /\ DOMAIN expected = {}
  BY DEF LayersInit, None
<1>3. Adds = {} /\ AddPaths = {}
  BY <1>1 DEF Adds, AddPaths
<1>4. HeadersTyped /\ HeadersFit /\ ExpectedIsTree /\ HeadersAgree
  BY <1>1, <1>2 DEF HeadersTyped, HeadersFit, ExpectedIsTree, HeadersAgree, Closed
<1>5. FilesAreLeft
  BY <1>2, <1>3 DEF FilesAreLeft, NonDirAt, LeftAt
<1> QED  BY <1>1, <1>3, <1>4, <1>5 DEF FlattenInv

\* One more header.
LEMMA FlattenRead ==
  ASSUME FlattenInv, NEW h \in Header, ReadHeader(h), tool = "flatten"
  PROVE  FlattenInv'
<1>1. /\ phase = "read" /\ headers' = headers \cup {h} /\ odd' = odd \cup Oddities(h)
      /\ FlattenHeader(h) /\ Fits(h)
      /\ phase' = phase /\ tool' = tool /\ expected' = expected /\ layerDirs' = layerDirs
  BY DEF ReadHeader
<1>2. /\ currentLayerPaths = AddPaths /\ HeadersTyped /\ HeadersFit /\ ExpectedIsTree
      /\ Ordinary => HeadersAgree /\ FilesAreLeft
  BY <1>1 DEF FlattenInv
<1>3. Layer' = Layer
  BY <1>1 DEF Layer
<1>4. /\ h.path \in Seq(STRING) /\ h.kind \in {"reg", "sym", "dir", "wh", "opq"}
      /\ h.kind # "opq" => h.path # <<>>
  <2>1. h.path \in LPath \/ (h.path = <<>> /\ h.kind = "opq")
    BY DEF Header
  <2>2. h.kind \in {"reg", "sym", "dir", "wh", "opq"}
    BY DEF Header
  <2>3. LPath \subseteq Seq(STRING) \ {<<>>} /\ <<>> \in Seq(STRING)
    BY LayersAssumption
  <2> QED  BY <2>1, <2>2, <2>3
<1>5. \A g \in headers :
        /\ g.path = h.path => {g.kind, h.kind} = {"opq", "dir"}
        /\ Below(h.path, g.path) => g.kind \in {"dir", "opq"}
        /\ Below(g.path, h.path) => h.kind \in {"dir", "opq"}
  BY <1>1 DEF Fits
<1>6. HeadersTyped'
  BY <1>1, <1>2, <1>4 DEF HeadersTyped
<1>7. HeadersFit'
  BY <1>1, <1>2, <1>5 DEF HeadersFit, Below
<1>8. ExpectedIsTree'
  BY <1>1, <1>2 DEF ExpectedIsTree, Closed, Parents
<1>9. \A g : TypeChange(g) <=>
        \/ \E p \in Parents(g.path) : p \in DOMAIN expected /\ expected[p].kind # "dir"
        \/ /\ g.kind \in {"dir", "opq"}
           /\ g.path \in DOMAIN expected /\ expected[g.path].kind # "dir"
        \/ /\ g.kind \in {"reg", "sym"}
           /\ g.path \in DOMAIN expected /\ expected[g.path].kind = "dir"
  BY DEF TypeChange
<1>10. ASSUME Ordinary'
       PROVE  Ordinary /\ HeadersAgree' /\ h.path # <<>>
  <2>1. Ordinary /\ Oddities(h) \cap {"rootOpaque", "typeChange"} = {}
    BY <1>1, <1>10 DEF Ordinary
  <2>2. ~TypeChange(h) /\ ~(h.kind = "opq" /\ h.path = <<>>)
    BY <2>1 DEF Oddities
  <2>3. h.path # <<>>
    BY <1>4, <2>2
  <2>4. /\ \A p \in Parents(h.path) : p \in DOMAIN expected => expected[p].kind = "dir"
        /\ (h.kind \in {"dir", "opq"} /\ h.path \in DOMAIN expected) => expected[h.path].kind = "dir"
        /\ (h.kind \in {"reg", "sym"} /\ h.path \in DOMAIN expected) => expected[h.path].kind # "dir"
    BY <1>9, <2>2
  <2>5. HeadersAgree'
    BY <1>1, <1>2, <2>1, <2>3, <2>4 DEF HeadersAgree, Parents
  <2> QED  BY <2>1, <2>3, <2>5
<1>11. ASSUME h.kind \in {"reg", "sym", "dir"}
       PROVE  currentLayerPaths' = AddPaths' /\ (FilesAreLeft => FilesAreLeft')
  <2>1. Adds' = Adds \cup {h} /\ AddPaths' = AddPaths \cup {h.path}
    BY <1>1, <1>11 DEF Adds, AddPaths
  <2>2. files' = Placed(files, h.path, Entry(h.kind, Layer)) /\ currentLayerPaths' = AddPaths'
    BY <1>1, <1>2, <1>11, <2>1 DEF FlattenHeader
  <2>3. ASSUME FilesAreLeft, NEW p, NEW e
        PROVE  NonDirAt(files, p, e)' <=> LeftAt(p, e)'
    <3>1. CASE p # h.path
      <4>1. NonDirAt(files, p, e)' <=> NonDirAt(files, p, e)
        BY <2>2, <3>1 DEF NonDirAt, Placed
      <4>2. Hidden(p)' <=> Hidden(p)
        BY <1>1, <1>11 DEF Hidden, IsPrefix, Below
      <4>3. NonDirAt(expected, p, e)' <=> NonDirAt(expected, p, e)
        BY <1>1 DEF NonDirAt
      <4>4. LeftAt(p, e)' <=> LeftAt(p, e)
        BY <1>1, <1>3, <2>1, <3>1, <4>2, <4>3 DEF LeftAt, Entry
      <4> QED  BY <2>3, <4>1, <4>4 DEF FilesAreLeft
    <3>2. CASE p = h.path
      <4>1. NonDirAt(files, p, e)' <=> e = Entry(h.kind, Layer) /\ h.kind # "dir"
        BY <2>2, <3>2 DEF NonDirAt, Placed, Entry
      <4>2. \A g \in Adds : g.path # p
        BY <1>5, <1>11, <3>2 DEF Adds
      <4>3. LeftAt(p, e)' <=> h.kind # "dir" /\ e = Entry(h.kind, Layer)
        BY <1>3, <2>1, <3>2, <4>2 DEF LeftAt, Entry
      <4> QED  BY <4>1, <4>3
    <3> QED  BY <3>1, <3>2
  <2>4. FilesAreLeft => FilesAreLeft'
    BY <2>3 DEF FilesAreLeft
  <2> QED  BY <2>2, <2>4
<1>12. ASSUME h.kind \in {"wh", "opq"}
       PROVE  /\ Adds' = Adds /\ AddPaths' = AddPaths /\ currentLayerPaths' = AddPaths'
              /\ \A p, e : (\E g \in Adds : g.kind # "dir" /\ g.path = p /\ e = Entry(g.kind, Layer))'
                          <=> \E g \in Adds : g.kind # "dir" /\ g.path = p /\ e = Entry(g.kind, Layer)
              /\ \A p, e : NonDirAt(expected, p, e)' <=> NonDirAt(expected, p, e)
  <2>1. Adds' = Adds
    BY <1>1, <1>12 DEF Adds
  <2>2. AddPaths' = AddPaths
    BY <2>1 DEF AddPaths
  <2>3. currentLayerPaths' = AddPaths'
    BY <1>1, <1>2, <1>12, <2>2 DEF FlattenHeader
  <2> QED  BY <1>1, <1>3, <2>1, <2>2, <2>3 DEF NonDirAt, Entry
<1>13. ASSUME h.kind = "wh"
       PROVE  FilesAreLeft => FilesAreLeft'
  <2>1. files' = RemoveTree(files, h.path)
    BY <1>1, <1>13 DEF FlattenHeader
  <2>2. ASSUME FilesAreLeft, NEW p, NEW e
        PROVE  NonDirAt(files, p, e)' <=> LeftAt(p, e)'
    <3>1. NonDirAt(files, p, e)' <=> NonDirAt(files, p, e) /\ ~IsPrefix(h.path, p)
      BY <2>1 DEF NonDirAt, RemoveTree, Without
    <3>2. Hidden(p)' <=> Hidden(p) \/ IsPrefix(h.path, p)
      BY <1>1, <1>13 DEF Hidden, IsPrefix, Below
    <3>3. \A g \in Adds : g.path = p => ~IsPrefix(h.path, p)
      BY <1>5, <1>13 DEF Adds, Below
    <3>4. LeftAt(p, e)' <=> LeftAt(p, e) /\ ~IsPrefix(h.path, p)
      BY <1>12, <1>13, <3>2, <3>3 DEF LeftAt
    <3> QED  BY <2>2, <3>1, <3>4 DEF FilesAreLeft
  <2> QED  BY <2>2 DEF FilesAreLeft
<1>14. ASSUME h.kind = "opq", Ordinary'
       PROVE  FilesAreLeft => FilesAreLeft'
  <2>0. h.path # <<>>
    BY <1>10, <1>14
  <2>1. files' = Without(files, LAMBDA p : IsPrefix(h.path, p) /\ p \notin currentLayerPaths)
    BY <1>1, <1>14, <2>0 DEF FlattenHeader
  <2>2. ASSUME FilesAreLeft, NEW p, NEW e
        PROVE  NonDirAt(files, p, e)' <=> LeftAt(p, e)'
    <3>1. NonDirAt(files, p, e)' <=> NonDirAt(files, p, e) /\ ~(IsPrefix(h.path, p) /\ p \notin AddPaths)
      BY <1>2, <2>1 DEF NonDirAt, Without
    <3>2. Hidden(p)' <=> Hidden(p) \/ Below(p, h.path)
      BY <1>1, <1>14 DEF Hidden, IsPrefix, Below
    <3>3. NonDirAt(expected, p, e) => p # h.path
      <4>1. h \in headers' /\ HeadersAgree'
        BY <1>1, <1>10, <1>14
      <4>2. h.path \in DOMAIN expected => expected[h.path].kind = "dir"
        BY <1>1, <1>14, <4>1 DEF HeadersAgree
      <4> QED  BY <4>2 DEF NonDirAt
    <3>4. \A g \in Adds : g.path = p => p \in AddPaths
      BY AddPathsAre
    <3>5. LeftAt(p, e)' <=> LeftAt(p, e) /\ ~(IsPrefix(h.path, p) /\ p \notin AddPaths)
      BY <1>12, <1>14, <3>2, <3>3, <3>4 DEF LeftAt, Below
    <3> QED  BY <2>2, <3>1, <3>5 DEF FilesAreLeft
  <2> QED  BY <2>2 DEF FilesAreLeft
<1>15. currentLayerPaths' = AddPaths'
  BY <1>4, <1>11, <1>12
<1>16. Ordinary' => HeadersAgree' /\ FilesAreLeft'
  BY <1>2, <1>4, <1>10, <1>11, <1>13, <1>14
<1> QED  BY <1>1, <1>6, <1>7, <1>8, <1>15, <1>16 DEF FlattenInv

\* On to the next layer, or the end.
LEMMA FlattenLayer ==
  ASSUME FlattenInv, NextLayer \/ LastLayer, tool = "flatten"
  PROVE  FlattenInv'
<1>1. /\ phase = "read" /\ headers' = {} /\ expected' = ApplyChangeset
      /\ tool' = tool /\ files' = files /\ odd' = odd
      /\ phase' \in {"read", "cached"}
      /\ phase' = "read" => currentLayerPaths' = {}
  BY DEF NextLayer, LastLayer
<1>2. /\ HeadersTyped /\ HeadersFit /\ ExpectedIsTree
      /\ Ordinary => HeadersAgree /\ FilesAreLeft
  BY <1>1 DEF FlattenInv
<1>3. Adds' = {} /\ AddPaths' = {}
  BY <1>1 DEF Adds, AddPaths
<1>4. HeadersTyped' /\ HeadersFit' /\ HeadersAgree'
  BY <1>1 DEF HeadersTyped, HeadersFit, HeadersAgree
<1>5. ExpectedIsTree'
  <2> DEFINE changed == ApplyChangeset
  <2>1. DOMAIN changed \subseteq NamePaths /\ Closed(changed)
    BY <1>2, ChangesetIsTree
  <2> HIDE DEF changed
  <2>2. expected' = changed
    BY <1>1 DEF changed
  <2> QED  BY <2>1, <2>2 DEF ExpectedIsTree, Closed, Parents
<1>6. ASSUME Ordinary' PROVE FilesAreLeft'
  <2>1. Ordinary
    BY <1>1, <1>6 DEF Ordinary
  <2> DEFINE changed == ApplyChangeset
  <2>2. \A p, e : NonDirAt(changed, p, e) <=> NonDirAt(files, p, e)
    BY <1>2, <2>1, LeftIsChangeset DEF FilesAreLeft
  <2> HIDE DEF changed
  <2>3. expected' = changed
    BY <1>1 DEF changed
  <2>4. ASSUME NEW p, NEW e
        PROVE  NonDirAt(files, p, e)' <=> LeftAt(p, e)'
    <3>1. ~Hidden(p)'
      BY <1>1 DEF Hidden
    <3>2. LeftAt(p, e)' <=> NonDirAt(expected, p, e)'
      BY <1>3, <3>1 DEF LeftAt
    <3>3. NonDirAt(expected, p, e)' <=> NonDirAt(changed, p, e)
      BY <2>3 DEF NonDirAt
    <3>4. NonDirAt(files, p, e)' <=> NonDirAt(files, p, e)
      BY <1>1 DEF NonDirAt
    <3> QED  BY <2>2, <3>2, <3>3, <3>4
  <2> QED  BY <2>4 DEF FilesAreLeft
<1> QED  BY <1>1, <1>3, <1>4, <1>5, <1>6 DEF FlattenInv

\* No step of a pull or of Flatten breaks the invariant.
LEMMA FlattenKeeps == FlattenInv /\ [LayersNext]_layerVars => FlattenInv'
<1> SUFFICES ASSUME FlattenInv, [LayersNext]_layerVars, tool' = "flatten" PROVE FlattenInv'
  BY DEF FlattenInv
<1>0. tool = "flatten"
  BY DEF LayersNext, layerVars, ReadHeader, NextLayer, LastLayer, MergeWithOverlayfs, CopyFails, MergeLayerDirs, WriteSquashfs
<1>1. ASSUME NEW h \in Header, ReadHeader(h) PROVE FlattenInv'
  BY <1>0, <1>1, FlattenRead
<1>2. ASSUME NextLayer \/ LastLayer PROVE FlattenInv'
  BY <1>0, <1>2, FlattenLayer
<1>3. phase \in {"read", "cached"}
  BY <1>0 DEF FlattenInv
<1>4. ~MergeLayerDirs /\ ~WriteSquashfs /\ \A p : ~MergeWithOverlayfs(p) /\ ~CopyFails(p)
  BY <1>3 DEF MergeLayerDirs, WriteSquashfs, MergeWithOverlayfs, CopyFails
<1>5. CASE UNCHANGED layerVars
  <2>1. /\ tool' = tool /\ phase' = phase /\ headers' = headers /\ layerDirs' = layerDirs /\ files' = files
        /\ currentLayerPaths' = currentLayerPaths /\ expected' = expected /\ odd' = odd
    BY <1>5 DEF layerVars
  <2>2. Adds' = Adds /\ AddPaths' = AddPaths /\ Layer' = Layer
    BY <2>1 DEF Adds, AddPaths, Layer
  <2>3. /\ HeadersTyped' <=> HeadersTyped
        /\ HeadersFit' <=> HeadersFit
        /\ HeadersAgree' <=> HeadersAgree
        /\ ExpectedIsTree' <=> ExpectedIsTree
        /\ Ordinary' <=> Ordinary
    BY <2>1 DEF HeadersTyped, HeadersFit, HeadersAgree, ExpectedIsTree, Ordinary, Closed, Below, Parents, IsPrefix
  <2>4. FilesAreLeft' <=> FilesAreLeft
    BY <2>1, <2>2 DEF FilesAreLeft, NonDirAt, LeftAt, Hidden, Entry, Below, IsPrefix
  <2> QED  BY <2>1, <2>2, <2>3, <2>4 DEF FlattenInv
<1> QED  BY <1>1, <1>2, <1>4, <1>5 DEF LayersNext

\* However the layers' headers are ordered and however many there are, the map
\* Flatten changes header by header (image/flatten.go) ends with the files and
\* links that the OCI rule leaves, each from the right layer, unless a header is
\* an opaque marker of the root or makes a directory of a file, or the reverse.
THEOREM FlattenIsRight == LayersSpec => []FlattenRight
<1>1. FlattenInv => FlattenRight
  <2> SUFFICES ASSUME FlattenInv, phase = "cached", tool = "flatten", odd \cap {"rootOpaque", "typeChange"} = {}
               PROVE  NonDirs(files) = NonDirs(expected)
    BY DEF FlattenRight
  <2>1. headers = {} /\ FilesAreLeft
    BY DEF FlattenInv, Ordinary
  <2>2. \A p, e : LeftAt(p, e) <=> NonDirAt(expected, p, e)
    BY <2>1 DEF LeftAt, Adds, AddPaths, Hidden
  <2>3. \A p, e : NonDirAt(files, p, e) <=> NonDirAt(expected, p, e)
    BY <2>1, <2>2 DEF FilesAreLeft
  <2>4. /\ \A p : (p \in DOMAIN files /\ files[p].kind # "dir") <=> NonDirAt(expected, p, files[p])
        /\ \A p : (p \in DOMAIN expected /\ expected[p].kind # "dir") <=> NonDirAt(files, p, expected[p])
    BY <2>3 DEF NonDirAt
  <2>5. \A p : /\ (p \in DOMAIN files /\ files[p].kind # "dir") => p \in DOMAIN expected /\ files[p] = expected[p]
               /\ (p \in DOMAIN expected /\ expected[p].kind # "dir") => p \in DOMAIN files /\ files[p] = expected[p]
    BY <2>4 DEF NonDirAt
  <2> QED  BY <2>5 DEF NonDirs
<1> QED  BY FlattenInitial, FlattenKeeps, <1>1, PTL DEF LayersSpec

=============================================================================
