------------------------------- MODULE Rootfs -------------------------------
(***************************************************************************)
(* Root file systems over shared read-only images.  A start loop-mounts    *)
(* its image under a directory named after the loop device, or reuses the  *)
(* mount another container made, and puts an overlay on it; the teardown   *)
(* unmounts the image unless another overlay names it.  Only the lock of   *)
(* the container's own name is held: starts and teardowns of different     *)
(* names interleave between any two system calls, images are replaced      *)
(* under their names, and a process may be killed anywhere.                *)
(*                                                                         *)
(* `sandal snapshot' goes the same way with a merge overlay of its own and *)
(* without asking whether the image is in use; those processes are the     *)
(* Snappers.                                                               *)
(***************************************************************************)
EXTENDS Naturals, FiniteSets

CONSTANTS
  Proc,        \* one per container name, and the Snappers
  Snappers,
  Img,         \* image files
  LowersOf,    \* the images a process may ask for
  FirstImg,    \* the image of the containers that run already
  NLoops,      \* loop devices 0 .. NLoops - 1
  MaxStarts,   \* operations begun
  MaxKills,    \* times a process ends without its teardown
  MaxReplaced  \* times an image file is replaced

ASSUME RootfsAssumption ==
  /\ Snappers \subseteq Proc
  /\ LowersOf \in [Proc -> SUBSET Img] /\ FirstImg \in Img /\ "none" \notin Img
  /\ {NLoops, MaxStarts, MaxKills, MaxReplaced} \subseteq Nat /\ NLoops > 0

VARIABLES
  at,       \* step of a process
  goal,     \* what its teardown is for: "start" or "end"
  back,     \* the step after the Umount under way
  down,     \* the loop device of that Umount
  lower,    \* its image
  held,     \* c.ImmutableImages in memory: [file, loop] or NoImage
  rec,      \* ... in its state file
  loop,     \* a loop device: [file, ver, auto] or NoFile
  mounted,  \* loop devices mounted at their directory
  mountDir, \* directories that exist
  over,     \* a process's overlay: [loop, shows] or NoOverlay
  ver,      \* version of an image file
  starts, kills,
  sought,   \* history: the version of the image when the start looked it up
  prior,    \* history: what the state file recorded when a run began
  met,      \* history: processes whose operation overlapped another
  crowded  \* history: some two did

rootVars == <<at, goal, back, down, lower, held, rec, loop, mounted, mountDir, over, ver, starts, kills,
              sought, prior, met, crowded>>

Loop == 0 .. NLoops - 1
NoImage == [file |-> "none", loop |-> 0]
NoFile == [file |-> "none", ver |-> 0, auto |-> FALSE]
NoOverlay == [on |-> FALSE, loop |-> 0, shows |-> NoFile]
Resting == {"idle", "up", "dead"}
Busy == {c \in Proc : at[c] \notin Resting}
Containers == Proc \ Snappers

\* Some containers run, all over one mount.
RootInit ==
  /\ \E on \in SUBSET Containers :
       LET image == [file |-> FirstImg, ver |-> 0, auto |-> FALSE]
           Of(x, y) == [c \in Proc |-> IF c \in on THEN x ELSE y] IN
       /\ at = Of("up", "idle") /\ lower = Of(FirstImg, "none")
       /\ held = Of([file |-> FirstImg, loop |-> 0], NoImage) /\ rec = held
       /\ over = Of([on |-> TRUE, loop |-> 0, shows |-> image], NoOverlay)
       /\ loop = [l \in Loop |-> IF on # {} /\ l = 0 THEN image ELSE NoFile]
       /\ mounted = (IF on # {} THEN {0} ELSE {}) /\ mountDir = mounted
  /\ goal = [c \in Proc |-> "end"]
  /\ back = [c \in Proc |-> "clean"] /\ down = [c \in Proc |-> 0]
  /\ ver = [i \in Img |-> 0]
  /\ starts = 0 /\ kills = 0
  /\ sought = [c \in Proc |-> 0]
  /\ prior = [c \in Proc |-> NoImage]
  /\ met = {} /\ crowded = FALSE

-----------------------------------------------------------------------------
\* The kernel: a mount and an overlay each keep the file system of a loop
\* device; clearing a device in use takes effect with its last user.
Users(l, mt, ov) == l \in mt \/ \E c \in Proc : ov[c].on /\ ov[c].loop = l /\ ov[c].shows # NoFile
Settled(lp, mt, ov) == [l \in Loop |-> IF lp[l].auto /\ ~Users(l, mt, ov) THEN NoFile ELSE lp[l]]
Detached(l) == IF loop[l] = NoFile THEN loop
               ELSE Settled([loop EXCEPT ![l].auto = TRUE], mounted, over)

\* History: an operation begins.
Meets(c) ==
  /\ met' = IF Busy = {} THEN met \ {c} ELSE met \cup Busy \cup {c}
  /\ crowded' = (crowded \/ Busy # {})
  /\ starts < MaxStarts /\ starts' = starts + 1

-----------------------------------------------------------------------------
\* sandal run: the new configuration, which names no image yet, is stored
\* before the old one is looked at.
FreshRun(c, i) ==
  /\ c \in Containers /\ at[c] \in {"idle", "dead"} /\ i \in LowersOf[c]
  /\ lower' = [lower EXCEPT ![c] = i]
  /\ held' = [held EXCEPT ![c] = NoImage] /\ rec' = [rec EXCEPT ![c] = NoImage]
  /\ prior' = [prior EXCEPT ![c] = rec[c]]
  /\ at' = [at EXCEPT ![c] = "reclaim"] /\ goal' = [goal EXCEPT ![c] = "start"]
  /\ Meets(c)
  /\ UNCHANGED <<back, down, loop, mounted, mountDir, over, ver, kills, sought>>

\* Recovery and rerun start from the stored configuration; rm, clear, kill and
\* the daemon's clean-up of a dead container end with it.
FromRecord(c, g) ==
  /\ c \in Containers
  /\ \/ g = "start" /\ at[c] \in {"idle", "dead"} /\ lower[c] # "none"
     \/ g = "end" /\ at[c] = "dead"
  /\ held' = [held EXCEPT ![c] = rec[c]]
  /\ prior' = [prior EXCEPT ![c] = NoImage]
  /\ at' = [at EXCEPT ![c] = "reclaim"] /\ goal' = [goal EXCEPT ![c] = g]
  /\ Meets(c)
  /\ UNCHANGED <<back, down, lower, rec, loop, mounted, mountDir, over, ver, kills, sought>>

\* The container ends and its supervisor tears it down; the merge is done.
Ended(c) ==
  /\ at[c] = "up"
  /\ at' = [at EXCEPT ![c] = "reclaim"] /\ goal' = [goal EXCEPT ![c] = "end"]
  /\ Meets(c)
  /\ UNCHANGED <<back, down, lower, held, rec, loop, mounted, mountDir, over, ver, kills, sought, prior>>

\* mergeWithPrevious.
SnapshotMerge(c, i) ==
  /\ c \in Snappers /\ at[c] \in {"idle", "dead"} /\ i \in LowersOf[c]
  /\ lower' = [lower EXCEPT ![c] = i] /\ held' = [held EXCEPT ![c] = NoImage]
  /\ at' = [at EXCEPT ![c] = "lookup"] /\ goal' = [goal EXCEPT ![c] = "start"]
  /\ Meets(c)
  /\ UNCHANGED <<back, down, rec, loop, mounted, mountDir, over, ver, kills, sought, prior>>

\* reclaimStaleImmutableMounts: what the stored configuration records and the
\* one in memory does not, unless a live container holds the loop device or it
\* backs another file now.
Stale(c) ==
  /\ rec[c] # NoImage /\ rec[c].file # held[c].file
  /\ ~\E d \in Proc \ {c} : at[d] = "up" /\ rec[d] # NoImage /\ rec[d].loop = rec[c].loop
  /\ loop[rec[c].loop].file = rec[c].file
Reclaim(c) ==
  /\ at[c] = "reclaim"
  /\ at' = [at EXCEPT ![c] = IF Stale(c) THEN "umount" ELSE "clean"]
  /\ down' = [down EXCEPT ![c] = rec[c].loop]
  /\ back' = [back EXCEPT ![c] = "clean"]
  /\ UNCHANGED <<goal, lower, held, rec, loop, mounted, mountDir, over, ver, starts, kills, sought, prior,
                 met, crowded>>

\* UmountRootfs: the container's own overlay ...
Clean(c) ==
  /\ at[c] = "clean"
  /\ over' = [over EXCEPT ![c] = NoOverlay]
  /\ loop' = Settled(loop, mounted, over')
  /\ at' = [at EXCEPT ![c] = "check"]
  /\ UNCHANGED <<goal, back, down, lower, held, rec, mounted, mountDir, ver, starts, kills, sought, prior,
                 met, crowded>>

\* ... then the image, unless an overlay names it (ImmutableInUse).
ImmutableInUseNever(l) == FALSE
ImmutableInUse(l) == \E d \in Proc : over[d].on /\ over[d].loop = l
Over(c) == IF goal[c] = "start" THEN "lookup" ELSE "idle"
Check(c) ==
  LET keep == held[c] = NoImage \/ (c \notin Snappers /\ ImmutableInUse(held[c].loop)) IN
  /\ at[c] = "check"
  /\ at' = [at EXCEPT ![c] = IF keep THEN Over(c) ELSE "umount"]
  /\ down' = [down EXCEPT ![c] = held[c].loop]
  /\ back' = [back EXCEPT ![c] = Over(c)]
  /\ UNCHANGED <<goal, lower, held, rec, loop, mounted, mountDir, over, ver, starts, kills, sought, prior,
                 met, crowded>>

\* diskimage.Umount: unmount, remove the directory, detach the loop device.
UnmountImage(c) ==
  /\ at[c] = "umount"
  /\ mounted' = mounted \ {down[c]}
  /\ loop' = Settled(loop, mounted', over)
  /\ at' = [at EXCEPT ![c] = "rmdir"]
  /\ UNCHANGED <<goal, back, down, lower, held, rec, mountDir, over, ver, starts, kills, sought, prior,
                 met, crowded>>
RemoveDir(c) ==
  /\ at[c] = "rmdir"
  /\ mountDir' = IF down[c] \in mounted THEN mountDir ELSE mountDir \ {down[c]}
  /\ at' = [at EXCEPT ![c] = "detach"]
  /\ UNCHANGED <<goal, back, down, lower, held, rec, loop, mounted, over, ver, starts, kills, sought, prior,
                 met, crowded>>
NotDetached(c) ==
  /\ at[c] = "detach"
  /\ at' = [at EXCEPT ![c] = back[c]]
  /\ UNCHANGED <<goal, back, down, lower, held, rec, loop, mounted, mountDir, over, ver, starts, kills,
                 sought, prior, met, crowded>>
Detach(c) ==
  /\ at[c] = "detach"
  /\ loop' = Detached(down[c])
  /\ at' = [at EXCEPT ![c] = back[c]]
  /\ UNCHANGED <<goal, back, down, lower, held, rec, mounted, mountDir, over, ver, starts, kills, sought,
                 prior, met, crowded>>

-----------------------------------------------------------------------------
\* diskimage.Mount: a mounted loop device that backs the file, unless the file
\* was replaced since, is reused.
ReusableAnyVersion(i) == {l \in mounted : loop[l].file = i}
Reusable(i) == {l \in mounted : loop[l].file = i /\ loop[l].ver = ver[i]}
FindMounted(c) ==
  /\ at[c] = "lookup"
  /\ sought' = [sought EXCEPT ![c] = ver[lower[c]]]
  /\ IF Reusable(lower[c]) = {}
     THEN /\ at' = [at EXCEPT ![c] = "find"]
          /\ UNCHANGED held
     ELSE \E l \in Reusable(lower[c]) :
            /\ held' = [held EXCEPT ![c] = [file |-> lower[c], loop |-> l]]
            /\ at' = [at EXCEPT ![c] = "overlay"]
  /\ UNCHANGED <<goal, back, down, lower, rec, loop, mounted, mountDir, over, ver, starts, kills, prior,
                 met, crowded>>

\* LOOP_CTL_GET_FREE: the first free device, which is still anyone's.
FindFreeLoopDevice(c) ==
  LET free == {l \in Loop : loop[l] = NoFile} IN
  /\ at[c] = "find"
  /\ \E l \in free : /\ \A k \in free : l <= k
                     /\ held' = [held EXCEPT ![c] = [file |-> lower[c], loop |-> l]]
  /\ at' = [at EXCEPT ![c] = "attach"]
  /\ UNCHANGED <<goal, back, down, lower, rec, loop, mounted, mountDir, over, ver, starts, kills, sought,
                 prior, met, crowded>>

Fails(c) == at' = [at EXCEPT ![c] = "clean"] /\ goal' = [goal EXCEPT ![c] = "end"]

\* LOOP_SET_FD fails on a device another start took; the image, its loop number
\* included, is in c.ImmutableImages all the same, and the teardown sees it.
Attach(c) ==
  LET l == held[c].loop IN
  /\ at[c] = "attach"
  /\ IF loop[l] = NoFile
     THEN /\ loop' = [loop EXCEPT ![l] = [file |-> lower[c], ver |-> ver[lower[c]], auto |-> FALSE]]
          /\ at' = [at EXCEPT ![c] = "mount"] /\ UNCHANGED goal
     ELSE Fails(c) /\ UNCHANGED loop
  /\ UNCHANGED <<back, down, lower, held, rec, mounted, mountDir, over, ver, starts, kills, sought, prior,
                 met, crowded>>

\* unixMount: whatever the device holds by then is mounted at its directory,
\* once; a failure detaches the device.
MountImage(c, ok) ==
  LET l == held[c].loop IN
  /\ at[c] = "mount"
  /\ ok => loop[l] # NoFile /\ l \notin mounted
  /\ mountDir' = mountDir \cup {l}
  /\ mounted' = IF ok THEN mounted \cup {l} ELSE mounted
  /\ IF ok THEN at' = [at EXCEPT ![c] = "overlay"] /\ UNCHANGED <<goal, loop>>
           ELSE Fails(c) /\ loop' = Detached(l)
  /\ UNCHANGED <<back, down, lower, held, rec, over, ver, starts, kills, sought, prior, met, crowded>>

\* mountRootfs: the overlay, over what its lower directory shows now.
MountOverlay(c, ok) ==
  LET l == held[c].loop IN
  /\ at[c] = "overlay"
  /\ ok => l \in mountDir
  /\ IF ok THEN /\ over' = [over EXCEPT ![c] = [on |-> TRUE, loop |-> l,
                     shows |-> IF l \in mounted THEN [loop[l] EXCEPT !.auto = FALSE] ELSE NoFile]]
                /\ at' = [at EXCEPT ![c] = IF c \in Snappers THEN "up" ELSE "record"] /\ UNCHANGED goal
           ELSE Fails(c) /\ UNCHANGED over
  /\ UNCHANGED <<back, down, lower, held, rec, loop, mounted, mountDir, ver, starts, kills, sought, prior,
                 met, crowded>>

\* The configuration is stored and the process started; or there is no command
\* to run and the start fails, with nothing torn down.
StoreAndStart(c, ok) ==
  /\ at[c] = "record"
  /\ ok \/ kills < MaxKills
  /\ kills' = IF ok THEN kills ELSE kills + 1
  /\ rec' = IF ok THEN [rec EXCEPT ![c] = held[c]] ELSE rec
  /\ at' = [at EXCEPT ![c] = IF ok THEN "up" ELSE "dead"]
  /\ UNCHANGED <<goal, back, down, lower, held, loop, mounted, mountDir, over, ver, starts, sought,
                 prior, met, crowded>>

-----------------------------------------------------------------------------
\* External: the process is killed; its mounts stay.
Killed(c) ==
  /\ at[c] \notin {"idle", "dead"} /\ kills < MaxKills
  /\ kills' = kills + 1
  /\ at' = [at EXCEPT ![c] = "dead"] /\ held' = [held EXCEPT ![c] = NoImage]
  /\ UNCHANGED <<goal, back, down, lower, rec, loop, mounted, mountDir, over, ver, starts, sought,
                 prior, met, crowded>>

\* A pull, build or snapshot renames a new file over the image.
Replace(i) ==
  /\ ver[i] < MaxReplaced
  /\ ver' = [ver EXCEPT ![i] = @ + 1]
  /\ UNCHANGED <<at, goal, back, down, lower, held, rec, loop, mounted, mountDir, over, starts, kills,
                 sought, prior, met, crowded>>

RootNext ==
  \/ \E c \in Proc, i \in Img : FreshRun(c, i) \/ SnapshotMerge(c, i)
  \/ \E c \in Proc, g \in {"start", "end"} : FromRecord(c, g)
  \/ \E c \in Proc : \/ Ended(c) \/ Reclaim(c) \/ Clean(c) \/ Check(c)
                     \/ UnmountImage(c) \/ RemoveDir(c) \/ Detach(c)
                     \/ FindMounted(c) \/ FindFreeLoopDevice(c) \/ Attach(c) \/ Killed(c)
  \/ \E c \in Proc, ok \in BOOLEAN : MountImage(c, ok) \/ MountOverlay(c, ok) \/ StoreAndStart(c, ok)
  \/ \E i \in Img : Replace(i)

RootSpec == RootInit /\ [][RootNext]_rootVars

-----------------------------------------------------------------------------
RootTypeOK ==
  /\ \A c \in Proc : held[c].loop \in Loop /\ over[c].loop \in Loop
  /\ mounted \subseteq Loop /\ mountDir \subseteq Loop
  /\ \A l \in mounted : loop[l] # NoFile

\* A start that overlapped no other operation shows its own image, in the
\* version it found or a newer one, whatever was killed, replaced or left
\* behind before it.
ShowsOwn ==
  \A c \in Proc : (at[c] \in {"record", "up"} /\ c \notin met) =>
    over[c].shows.file = lower[c] /\ over[c].shows.ver >= sought[c]

\* The mount under a running container stays for others to reuse, unless a
\* snapshot merge used the image too.
LiveMountKept ==
  \A c \in Containers : (at[c] = "up" /\ ~crowded /\ \A s \in Snappers : lower[c] \notin LowersOf[s]) =>
    over[c].loop \in mounted

\* Mounting is idempotent: while operations take turns, no image is mounted
\* twice, however many starts failed or were killed.
Idempotent ==
  ~crowded => \A l, k \in mounted : (l # k /\ loop[l].file = loop[k].file) => loop[l].ver # loop[k].ver

\* Nothing is left attached: when nothing was killed and no operation is under
\* way, every loop device carries the overlay of a running container, however
\* starts and teardowns interleaved.
NothingLeaks ==
  (kills = 0 /\ \A c \in Proc : at[c] \in {"idle", "up"}) =>
    \A l \in Loop : loop[l] = NoFile \/ \E c \in Proc : at[c] = "up" /\ over[c].loop = l

\* The invariant of the root file systems.
RootfsSafe == RootTypeOK /\ ShowsOwn /\ LiveMountKept /\ Idempotent /\ NothingLeaks

\* "unmounts squashfs/loop images recorded by a previous run of this container
\* that the in-memory config doesn't know about" (derun.go:61): once a run
\* alone with its name has done so, the image recorded before it is unmounted,
\* unless a running container uses it.
PriorReclaimed ==
  \A c \in Containers :
    (at[c] = "lookup" /\ ~crowded /\ prior[c] # NoImage /\ prior[c].file # lower[c]) =>
       \A l \in mounted : loop[l].file = prior[c].file => ImmutableInUse(l)
=============================================================================
