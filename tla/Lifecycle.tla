------------------------------ MODULE Lifecycle -------------------------------
(***************************************************************************)
(* The life of one native container: the CLI commands run, kill, stop, rm  *)
(* and rerun, each a process that executes one command, and the daemon's   *)
(* recovery goroutine, which restarts a startup container that died.       *)
(*                                                                         *)
(* They meet in three places: the container's state record (rec), the      *)
(* per-name lifecycle lock (lock, an flock that dies with its holder), and *)
(* the resources keyed by the name (rootfs mounts, veth, console), which   *)
(* CleanupResources tears down whoever is using them.  A placer releases   *)
(* the lock when it has published the pid of its child; what it does after *)
(* that, its tail, runs without it.                                        *)
(*                                                                         *)
(* The record is an atomic register here; module StateStore opens it up.   *)
(* An instance stands for a pid with its start-time, so it is reused only  *)
(* when nothing refers to it any more.                                     *)
(***************************************************************************)
EXTENDS Naturals, FiniteSets

CONSTANTS
    CLIs,               \* CLI processes, one command each
    Insts,              \* container processes
    NoRec,              \* no state record
    NoInst,             \* pid 0
    Free,               \* nobody holds the lock
    Ops,                \* commands the CLI processes may be given
    Modes,              \* flags a run may be given: see Mode
    Limits,             \* the container has a cgroup (-memory, -cpu)
    ProcessesMayCrash,  \* CLI processes and the daemon can be killed
    PlacementMayFail,   \* mounts, clone and link set-up can fail
    MayHang,            \* a process can outlive the wait after its SIGKILL
    MaxExits            \* bound on containers that exit unasked

Op == {"run", "kill", "stop", "rm", "rerun"}

\* Foreground, foreground with -rm, -d, and -d with -startup.
Mode == {"fg", "fgrm", "bg", "startup"}

Recovery == "recovery"
Actors == CLIs \cup {Recovery}

ASSUME LifecycleAssumption ==
    /\ Ops \subseteq Op
    /\ Modes \subseteq Mode
    /\ NoInst \notin Insts
    /\ Recovery \notin CLIs
    /\ Free \notin Actors
    /\ Limits \in BOOLEAN
    /\ ProcessesMayCrash \in BOOLEAN
    /\ PlacementMayFail \in BOOLEAN
    /\ MayHang \in BOOLEAN
    /\ MaxExits \in Nat

Status == {"new", "running", "killed", "stop", "exit", "err"}
Record == [status : Status, pid : Insts \cup {NoInst}, mode : Mode]

ASSUME NoRecAssumption == NoRec \notin Record

\* Where an actor stands.  Locked are the points at which it holds the lock.
Locked == {"check", "set", "prepare", "fork", "publish", "read", "kill",
           "killwait", "killwait9", "stopwrite", "derun", "remove",
           "recheck", "killold", "strays", "straywait", "latest"}
Tail == {"provision", "wait", "fgclean", "fgkill", "fgremove", "exitwrite"}
PC == {"idle", "acquire", "try", "done"} \cup Locked \cup Tail

VARIABLES
    rec,        \* the state record
    lock,       \* holder of the lifecycle lock
    alive,      \* live container processes
    signalled,  \* those that were sent a signal
    cgroup,     \* those in the container's cgroup
    up,         \* a daemon is running
    registry,   \* procs: the processes the running daemon started
    strays,     \* what KillStrays found and is waiting for
    pc, op,     \* per actor: its position and its command
    own,        \* per actor: the Config it works on
    child,      \* per actor: the process it started
    controller, \* per actor: the controller type it settled on
    exits,      \* containers that exited unasked so far
    orphans,    \* processes whose parent died before publishing them (history)
    clobbered,  \* a writer hit a record that was not its own (history)
    torn,       \* live processes whose resources were torn down (history)
    stopped     \* the last command to complete was a stop (history)

procVars == <<alive, signalled, cgroup, registry, exits, orphans>>
localVars == <<pc, op, own, child, controller>>
vars == <<rec, lock, up, strays, procVars, localVars, clobbered, torn, stopped>>

TypeOK ==
    /\ rec \in Record \cup {NoRec}
    /\ lock \in Actors \cup {Free}
    /\ alive \subseteq Insts
    /\ signalled \subseteq alive
    /\ cgroup \subseteq alive
    /\ registry \subseteq alive
    /\ orphans \subseteq alive
    /\ torn \subseteq alive
    /\ strays \subseteq Insts
    /\ up \in BOOLEAN
    /\ pc \in [Actors -> PC]
    /\ op \in [Actors -> Op \cup {"none"}]
    /\ own \in [Actors -> Record \cup {NoRec}]
    /\ child \in [Actors -> Insts \cup {NoInst}]
    /\ controller \in [Actors -> {"unset", "disk", "server"}]
    /\ exits \in 0..MaxExits
    /\ clobbered \in BOOLEAN
    /\ stopped \in BOOLEAN

Init ==
    /\ rec = NoRec
    /\ lock = Free
    /\ alive = {} /\ signalled = {} /\ cgroup = {} /\ registry = {}
    /\ orphans = {} /\ torn = {} /\ strays = {}
    /\ up \in BOOLEAN
    /\ pc = [a \in Actors |-> "idle"]
    /\ op = [a \in Actors |-> "none"]
    /\ own = [a \in Actors |-> NoRec]
    /\ child = [a \in Actors |-> NoInst]
    /\ controller = [a \in Actors |-> "unset"]
    /\ exits = 0
    /\ clobbered = FALSE
    /\ stopped = FALSE
-------------------------------------------------------------------------------
(* Shared steps.                                                           *)

\* IsContainerRunning, IsPidRunningAs: the process a record names lives.
Running(r) == r # NoRec /\ r.pid \in alive

Background(r) == r.mode \in {"bg", "startup"}

Dead(r, status) == [r EXCEPT !.status = status, !.pid = NoInst]

Goto(a, where) == pc' = [pc EXCEPT ![a] = where]

\* The command ends; the recovery goroutine returns.
Finish(a) ==
    /\ Goto(a, IF a = Recovery THEN "idle" ELSE "done")
    /\ own' = [own EXCEPT ![a] = NoRec]
    /\ child' = [child EXCEPT ![a] = NoInst]

SetContainer(a, r) ==
    /\ own' = [own EXCEPT ![a] = r]
    /\ rec' = r

\* CleanupResources: unmount the rootfs, remove the cgroup, the console
\* directory and the links, all found by the container's name.
CleanupResources == torn' = torn \cup alive

\* The actor works from what it last wrote or read; somebody has changed the
\* record since.
Intrudes(a) == rec # own[a]

Clobber(a) == clobbered' = (clobbered \/ Intrudes(a))

\* Mutant: the wait goroutine forgets procs.Remove.
ReapUnregistered(i) ==
    /\ alive' = alive \ {i}
    /\ signalled' = signalled \ {i}
    /\ cgroup' = cgroup \ {i}
    /\ orphans' = orphans \ {i}
    /\ torn' = torn \ {i}
    /\ UNCHANGED registry

\* A process leaves the system.
Reap(i) ==
    /\ alive' = alive \ {i}
    /\ signalled' = signalled \ {i}
    /\ cgroup' = cgroup \ {i}
    /\ registry' = registry \ {i}
    /\ orphans' = orphans \ {i}
    /\ torn' = torn \ {i}
-------------------------------------------------------------------------------
(* Commands start and take the lock.                                       *)

\* containersInit: the first access decides between daemon and files, for the
\* rest of the process.
Settle(c) ==
    controller' = [controller EXCEPT ![c] =
                      IF @ # "unset" THEN @ ELSE IF up THEN "server" ELSE "disk"]

\* Rerun reads the record before it asks for the lock; run, kill, stop and rm
\* read nothing they keep.
Start(c, o) ==
    /\ pc[c] = "idle"
    /\ o = "rerun" => rec # NoRec
    /\ Goto(c, "acquire")
    /\ op' = [op EXCEPT ![c] = o]
    /\ IF o = "rerun"
         THEN own' = [own EXCEPT ![c] = rec] /\ Settle(c)
         ELSE UNCHANGED <<own, controller>>
    /\ UNCHANGED <<rec, lock, up, strays, procVars, child, clobbered, torn, stopped>>

\* The first step under the lock, by command.
Entry(o) == CASE o = "run" -> "check"
              [] o = "rerun" -> "kill"
              [] OTHER -> "read"

\* namelock.Acquire gets the lock ...
Acquire(c) ==
    /\ pc[c] = "acquire"
    /\ lock = Free
    /\ lock' = c
    /\ Goto(c, Entry(op[c]))
    /\ UNCHANGED <<rec, up, strays, procVars, op, own, child, controller,
                   clobbered, torn, stopped>>

\* ... or gives up after DefaultTimeout.
AcquireTimesOut(c) ==
    /\ pc[c] = "acquire"
    /\ lock # Free
    /\ Finish(c)
    /\ UNCHANGED <<rec, lock, up, strays, procVars, op, controller,
                   clobbered, torn, stopped>>
-------------------------------------------------------------------------------
(* RunContainer, Run and crun; recovery enters at Prepare.                 *)

\* Mutant: no "already running" check.
RunCheckBlind(c) ==
    /\ pc[c] = "check"
    /\ Goto(c, "set")
    /\ Settle(c)
    /\ UNCHANGED <<rec, lock, own, child, up, strays, procVars, op, clobbered, torn, stopped>>

\* The "already running" check.
RunCheck(c) ==
    /\ pc[c] = "check"
    /\ IF Running(rec)
         THEN lock' = Free /\ Finish(c)
         ELSE Goto(c, "set") /\ UNCHANGED <<lock, own, child>>
    /\ Settle(c)
    /\ UNCHANGED <<rec, up, strays, procVars, op, clobbered, torn, stopped>>

\* Flags, networks or namespaces are refused before anything is written.
RunRefused(c) ==
    /\ pc[c] = "set"
    /\ lock' = Free
    /\ Finish(c)
    /\ UNCHANGED <<rec, up, strays, procVars, op, controller, clobbered, torn, stopped>>

\* The first record.  A startup container is left to the daemon, if the
\* process found one.
RunSet(c, m) ==
    /\ pc[c] = "set"
    /\ LET r == [status |-> "new", pid |-> NoInst, mode |-> m]
       IN  IF m = "startup" /\ controller[c] = "server"
             THEN rec' = r /\ lock' = Free /\ Finish(c)
             ELSE SetContainer(c, r) /\ Goto(c, "prepare") /\ UNCHANGED <<lock, child>>
    /\ stopped' = FALSE
    /\ UNCHANGED <<up, strays, procVars, op, controller, clobbered, torn>>

\* Run up to crun: DeRunContainer, mountRootfs, SetContainer.
Prepare(a) ==
    /\ pc[a] = "prepare"
    /\ CleanupResources
    /\ SetContainer(a, Dead(own[a], "killed"))
    /\ Goto(a, "fork")
    /\ UNCHANGED <<lock, up, strays, procVars, op, child, controller, clobbered, stopped>>

\* mountRootfs fails: clean up what it mounted.
PrepareFails(a) ==
    /\ PlacementMayFail
    /\ pc[a] = "prepare"
    /\ CleanupResources
    /\ rec' = Dead(own[a], "killed")
    /\ lock' = Free
    /\ Finish(a)
    /\ UNCHANGED <<up, strays, procVars, op, controller, clobbered, stopped>>

\* Processes nothing refers to: a pid with its start-time is never reused.
Fresh == Insts \ (alive \cup {child[a] : a \in Actors}
                    \cup {r.pid : r \in ({rec} \cup {own[a] : a \in Actors}) \ {NoRec}})

\* cmd.Start, and procs.Add in the daemon.
Fork(a) ==
    /\ pc[a] = "fork"
    /\ \E i \in Fresh :
         /\ alive' = alive \cup {i}
         /\ child' = [child EXCEPT ![a] = i]
         /\ registry' = IF a = Recovery THEN registry \cup {i} ELSE registry
    /\ Goto(a, "publish")
    /\ UNCHANGED <<rec, lock, up, strays, signalled, cgroup, exits, orphans,
                   op, own, controller, clobbered, torn, stopped>>

\* Console, cgroup or cmd.Start fails; a foreground run records the error.
ForkFails(a) ==
    /\ PlacementMayFail
    /\ pc[a] = "fork"
    /\ rec' = IF own[a].mode = "fg" THEN Dead(own[a], "err") ELSE rec
    /\ lock' = Free
    /\ Finish(a)
    /\ UNCHANGED <<up, strays, procVars, op, controller, clobbered, torn, stopped>>

\* Mutant: the lock is kept until the container exits.
PublishKeepsLock(a) ==
    /\ pc[a] = "publish"
    /\ SetContainer(a, [own[a] EXCEPT !.status = "running", !.pid = child[a]])
    /\ Goto(a, "provision")
    /\ UNCHANGED <<lock, up, strays, procVars, op, child, controller, clobbered, torn, stopped>>

\* Publish the pid, then release the lock (onPlaced).
Publish(a) ==
    /\ pc[a] = "publish"
    /\ SetContainer(a, [own[a] EXCEPT !.status = "running", !.pid = child[a]])
    /\ lock' = Free
    /\ Goto(a, "provision")
    /\ UNCHANGED <<up, strays, procVars, op, child, controller, clobbered, torn, stopped>>

\* Tail: join the cgroup, create the links, and write the record once more.
Provision(a) ==
    /\ pc[a] = "provision"
    /\ rec' = own[a]
    /\ Clobber(a)
    /\ cgroup' = IF Limits THEN cgroup \cup ({child[a]} \cap alive) ELSE cgroup
    /\ IF Background(own[a])
         THEN Finish(a)
         ELSE Goto(a, "wait") /\ UNCHANGED <<own, child>>
    /\ UNCHANGED <<lock, up, strays, alive, signalled, registry, exits, orphans,
                   op, controller, torn, stopped>>

\* Tail: link set-up or the second write fails; the deferred guard kills the
\* child and records the error.
ProvisionFails(a) ==
    /\ PlacementMayFail
    /\ pc[a] = "provision"
    /\ Reap(child[a])
    /\ rec' = Dead(own[a], "err")
    /\ Clobber(a)
    /\ IF own[a].mode = "fg"
         THEN /\ own' = [own EXCEPT ![a] = Dead(own[a], "err")]
              /\ Goto(a, "exitwrite")
              /\ UNCHANGED child
         ELSE Finish(a)
    /\ UNCHANGED <<lock, up, strays, exits, op, controller, stopped>>
-------------------------------------------------------------------------------
(* The end of a foreground container, all of it tail.                      *)

\* cmd.Process.Wait returns.
WaitReturns(a) ==
    /\ pc[a] = "wait"
    /\ child[a] \notin alive
    /\ Goto(a, "fgclean")
    /\ UNCHANGED <<rec, lock, up, strays, procVars, op, own, child, controller,
                   clobbered, torn, stopped>>

\* DeRunContainer: clean up ...
ExitCleanup(a) ==
    /\ pc[a] = "fgclean"
    /\ CleanupResources
    /\ Clobber(a)
    /\ Goto(a, "fgkill")
    /\ UNCHANGED <<rec, lock, up, strays, procVars, op, own, child, controller, stopped>>

\* ... then Kill, which finds the process dead ...
ExitKill(a) ==
    /\ pc[a] = "fgkill"
    /\ CleanupResources
    /\ Clobber(a)
    /\ SetContainer(a, Dead(own[a], "killed"))
    /\ Goto(a, IF own[a].mode = "fgrm" THEN "fgremove" ELSE "exitwrite")
    /\ UNCHANGED <<lock, up, strays, procVars, op, child, controller, stopped>>

\* ... and with -rm delete the files.
ExitRemove(a) ==
    /\ pc[a] = "fgremove"
    /\ rec' = NoRec
    /\ Clobber(a)
    /\ Finish(a)
    /\ UNCHANGED <<lock, up, strays, procVars, op, controller, torn, stopped>>

\* Run records how the container ended.
ExitWrite(a) ==
    /\ pc[a] = "exitwrite"
    /\ rec' = [own[a] EXCEPT !.status = IF @ = "err" THEN "err" ELSE "exit"]
    /\ Clobber(a)
    /\ Finish(a)
    /\ UNCHANGED <<lock, up, strays, procVars, op, controller, torn, stopped>>
-------------------------------------------------------------------------------
(* kill, stop, rm and the first half of rerun.                             *)

\* Mutant: rm trusts what it listed before it had the lock.
CommandReadUnchecked(c) ==
    /\ pc[c] = "read"
    /\ IF rec = NoRec
         THEN lock' = Free /\ Finish(c)
         ELSE /\ own' = [own EXCEPT ![c] = rec]
              /\ Goto(c, IF op[c] = "rm" THEN "derun" ELSE "kill")
              /\ UNCHANGED <<lock, child>>
    /\ UNCHANGED <<rec, up, strays, procVars, op, controller, clobbered, torn, stopped>>

\* GetContainer under the lock; rm refuses a running container.
CommandRead(c) ==
    /\ pc[c] = "read"
    /\ IF rec = NoRec \/ (op[c] = "rm" /\ Running(rec))
         THEN lock' = Free /\ Finish(c)
         ELSE /\ own' = [own EXCEPT ![c] = rec]
              /\ Goto(c, IF op[c] = "rm" THEN "derun" ELSE "kill")
              /\ UNCHANGED <<lock, child>>
    /\ UNCHANGED <<rec, up, strays, procVars, op, controller, clobbered, torn, stopped>>

\* What follows a successful Kill: stop goes on to its status, rerun gives
\* the lock back and runs the recorded arguments.
AfterKill(c) ==
    CASE op[c] = "kill"  -> lock' = Free /\ Goto(c, "done") /\ UNCHANGED op
      [] op[c] = "stop"  -> Goto(c, "stopwrite") /\ UNCHANGED <<lock, op>>
      [] op[c] = "rerun" -> /\ lock' = Free
                            /\ op' = [op EXCEPT ![c] = "run"]
                            /\ Goto(c, "acquire")

\* Only rerun works from a copy it read without the lock.
KillClobbers(c) ==
    clobbered' = (clobbered \/ (op[c] = "rerun" /\ Intrudes(c)))

\* Kill: nothing to signal.  A record without a pid is marked, a dead process
\* is cleaned up after.
KillDead(c) ==
    /\ pc[c] = "kill"
    /\ ~Running(own[c])
    /\ IF own[c].pid = NoInst THEN UNCHANGED torn ELSE CleanupResources
    /\ own' = [own EXCEPT ![c] = Dead(own[c], "killed")]
    /\ rec' = IF own[c] = Dead(own[c], "killed") THEN rec ELSE Dead(own[c], "killed")
    /\ KillClobbers(c)
    /\ AfterKill(c)
    /\ stopped' = FALSE
    /\ UNCHANGED <<up, strays, procVars, child, controller>>

\* Kill: deliver the signal and wait.
KillSignal(c) ==
    /\ pc[c] = "kill"
    /\ Running(own[c])
    /\ signalled' = signalled \cup {own[c].pid}
    /\ Goto(c, "killwait")
    /\ UNCHANGED <<rec, lock, up, strays, alive, cgroup, registry, exits, orphans,
                   op, own, child, controller, clobbered, torn, stopped>>

\* Kill: the process is gone; clean up and write the record.
KillDone(c) ==
    /\ pc[c] \in {"killwait", "killwait9"}
    /\ ~Running(own[c])
    /\ CleanupResources
    /\ SetContainer(c, Dead(own[c], "killed"))
    /\ KillClobbers(c)
    /\ AfterKill(c)
    /\ stopped' = FALSE
    /\ UNCHANGED <<up, strays, procVars, child, controller>>

\* The deadline passes.  stop escalates to SIGKILL once (stopProcess); the
\* others fail.  SIGKILL (rerun, escalation) is outlived only by a hung process.
KillTimesOut(c) ==
    /\ pc[c] \in {"killwait", "killwait9"}
    /\ Running(own[c])
    /\ (pc[c] = "killwait9" \/ op[c] = "rerun") => MayHang
    /\ IF op[c] = "stop" /\ pc[c] = "killwait"
         THEN Goto(c, "killwait9") /\ UNCHANGED <<lock, own, child>>
         ELSE lock' = Free /\ Finish(c)
    /\ UNCHANGED <<rec, up, strays, procVars, op, controller, clobbered, torn, stopped>>

\* stopContainer records that the user wants it down.
StopWrite(c) ==
    /\ pc[c] = "stopwrite"
    /\ rec' = [own[c] EXCEPT !.status = "stop"]
    /\ stopped' = TRUE
    /\ lock' = Free
    /\ Finish(c)
    /\ UNCHANGED <<up, strays, procVars, op, controller, clobbered, torn>>

\* rm: DeRunContainer of a process that is not running ...
RmDeRun(c) ==
    /\ pc[c] = "derun"
    /\ CleanupResources
    /\ rec' = IF own[c] = Dead(own[c], "killed") THEN rec ELSE Dead(own[c], "killed")
    /\ Goto(c, "remove")
    /\ stopped' = FALSE
    /\ UNCHANGED <<lock, up, strays, procVars, op, own, child, controller, clobbered>>

\* ... and removal of its files.
RmRemove(c) ==
    /\ pc[c] = "remove"
    /\ rec' = NoRec
    /\ lock' = Free
    /\ Finish(c)
    /\ UNCHANGED <<up, strays, procVars, op, controller, clobbered, torn, stopped>>
-------------------------------------------------------------------------------
(* The health check and contRecover.                                       *)

\* The tick finds a startup container down and dispatches its recovery,
\* unless one is in flight.
Tick ==
    /\ up
    /\ pc[Recovery] = "idle"
    /\ rec # NoRec
    /\ rec.mode = "startup"
    /\ rec.status # "stop"
    /\ ~Running(rec)
    /\ Goto(Recovery, "try")
    /\ UNCHANGED <<rec, lock, up, strays, procVars, op, own, child, controller,
                   clobbered, torn, stopped>>

\* Mutant: a deferred recovery stays in the set of recoveries in flight.
RecoverTryForgets ==
    /\ pc[Recovery] = "try"
    /\ IF lock = Free
         THEN lock' = Recovery /\ Goto(Recovery, "recheck")
         ELSE Goto(Recovery, "done") /\ UNCHANGED lock
    /\ UNCHANGED <<rec, up, strays, procVars, op, own, child, controller,
                   clobbered, torn, stopped>>

\* namelock.TryAcquire: a busy name is left to the next tick.
RecoverTry ==
    /\ pc[Recovery] = "try"
    /\ IF lock = Free
         THEN lock' = Recovery /\ Goto(Recovery, "recheck")
         ELSE Goto(Recovery, "idle") /\ UNCHANGED lock
    /\ UNCHANGED <<rec, up, strays, procVars, op, own, child, controller,
                   clobbered, torn, stopped>>

\* Mutant: the status is not looked at again under the lock.
UnneededIfRunning(r) == r = NoRec \/ Running(r)

\* The record asks for no recovery.
Unneeded(r) == r = NoRec \/ r.status = "stop" \/ Running(r)

GiveUp == lock' = Free /\ Finish(Recovery)

\* Work from the current record, not from the tick's copy.
RecoverRecheck ==
    /\ pc[Recovery] = "recheck"
    /\ IF Unneeded(rec)
         THEN GiveUp
         ELSE /\ own' = [own EXCEPT ![Recovery] = rec]
              /\ Goto(Recovery, "killold")
              /\ UNCHANGED <<lock, child>>
    /\ UNCHANGED <<rec, up, strays, procVars, op, controller, clobbered, torn, stopped>>

\* CleanupResources and Kill of the dead process.
RecoverKillOld ==
    /\ pc[Recovery] = "killold"
    /\ CleanupResources
    /\ LET r == own[Recovery] IN
         /\ own' = [own EXCEPT ![Recovery] = Dead(r, "killed")]
         /\ rec' = IF r = Dead(r, "killed") THEN rec ELSE Dead(r, "killed")
    /\ Goto(Recovery, "strays")
    /\ UNCHANGED <<lock, up, strays, procVars, op, child, controller, clobbered, stopped>>

\* Mutant: KillStrays without the registry.
TargetsInCgroup == IF rec = NoRec \/ Running(rec) THEN {} ELSE cgroup

\* KillStrays: what the daemon started and, unless the instance on record is
\* alive, the members of the cgroup; never the instance on record.
Targets ==
    IF rec = NoRec THEN {}
    ELSE IF Running(rec) THEN registry \ {rec.pid}
    ELSE registry \cup cgroup

RecoverStrays ==
    /\ pc[Recovery] = "strays"
    /\ strays' = Targets
    /\ signalled' = signalled \cup Targets
    /\ Goto(Recovery, "straywait")
    /\ UNCHANGED <<rec, lock, up, alive, cgroup, registry, exits, orphans,
                   op, own, child, controller, clobbered, torn, stopped>>

\* waitStrays, SIGTERM then SIGKILL.  A process that outlives both is only
\* logged.
RecoverStrayWait ==
    /\ pc[Recovery] = "straywait"
    /\ strays \cap alive # {} => MayHang
    /\ Goto(Recovery, "latest")
    /\ UNCHANGED <<rec, lock, up, strays, procVars, op, own, child, controller,
                   clobbered, torn, stopped>>

\* Read the record again; clean up again if there were strays; then Run.
RecoverLatest ==
    /\ pc[Recovery] = "latest"
    /\ strays' = {}
    /\ IF Unneeded(rec)
         THEN GiveUp /\ UNCHANGED torn
         ELSE /\ own' = [own EXCEPT ![Recovery] = rec]
              /\ IF strays # {} THEN CleanupResources ELSE UNCHANGED torn
              /\ Goto(Recovery, "prepare")
              /\ UNCHANGED <<lock, child>>
    /\ UNCHANGED <<rec, up, procVars, op, controller, clobbered, stopped>>

Recover ==
    \/ Tick \/ RecoverTry \/ RecoverRecheck \/ RecoverKillOld
    \/ RecoverStrays \/ RecoverStrayWait \/ RecoverLatest
-------------------------------------------------------------------------------
(* The environment: processes exit and crash.                              *)

\* A container process ends, by itself or because it was signalled.
Exit(i) ==
    /\ i \in alive
    /\ i \in signalled \/ exits < MaxExits
    /\ exits' = IF i \in signalled THEN exits ELSE exits + 1
    /\ Reap(i)
    /\ UNCHANGED <<rec, lock, up, strays, localVars, clobbered, stopped>>

\* The end of an actor: its flock goes with it, and its child, which nothing
\* ties to its parent, lives on.
Dies(a) ==
    /\ lock' = IF lock = a THEN Free ELSE lock
    /\ orphans' = IF pc[a] = "publish" THEN orphans \cup ({child[a]} \cap alive)
                                       ELSE orphans
    /\ Finish(a)

CLICrash(c) ==
    /\ ProcessesMayCrash
    /\ pc[c] \notin {"idle", "done"}
    /\ Dies(c)
    /\ UNCHANGED <<rec, up, strays, alive, signalled, cgroup, registry, exits,
                   op, controller, clobbered, torn, stopped>>

DaemonCrash ==
    /\ ProcessesMayCrash
    /\ up
    /\ up' = FALSE
    /\ registry' = {}
    /\ strays' = {}
    /\ Dies(Recovery)
    /\ UNCHANGED <<rec, alive, signalled, cgroup, exits,
                   op, controller, clobbered, torn, stopped>>

DaemonStart ==
    /\ ~up
    /\ up' = TRUE
    /\ UNCHANGED <<rec, lock, strays, procVars, localVars, clobbered, torn, stopped>>

Environment ==
    \/ \E i \in Insts : Exit(i)
    \/ \E c \in CLIs : CLICrash(c)
    \/ DaemonCrash \/ DaemonStart
-------------------------------------------------------------------------------
Place(a) ==
    \/ Prepare(a) \/ PrepareFails(a) \/ Fork(a) \/ ForkFails(a) \/ Publish(a)
    \/ Provision(a) \/ ProvisionFails(a)
    \/ WaitReturns(a) \/ ExitCleanup(a) \/ ExitKill(a) \/ ExitRemove(a) \/ ExitWrite(a)

Command(c) ==
    \/ Acquire(c) \/ AcquireTimesOut(c)
    \/ RunCheck(c) \/ RunRefused(c) \/ \E m \in Modes : RunSet(c, m)
    \/ CommandRead(c) \/ KillDead(c) \/ KillSignal(c) \/ KillDone(c) \/ KillTimesOut(c)
    \/ StopWrite(c) \/ RmDeRun(c) \/ RmRemove(c)

Next ==
    \/ \E c \in CLIs, o \in Ops : Start(c, o)
    \/ \E c \in CLIs : Command(c)
    \/ \E a \in Actors : Place(a)
    \/ Recover
    \/ Environment

Spec == Init /\ [][Next]_vars

\* A process that was sent SIGKILL, by an escalated stop, a rerun or KillStrays.
Killed(i) ==
    \/ i \in strays
    \/ \E c \in CLIs : /\ own[c] # NoRec
                        /\ own[c].pid = i
                        /\ \/ pc[c] = "killwait9"
                           \/ pc[c] = "killwait" /\ op[c] = "rerun"

\* Processes and goroutines that can take a step take one, deadlines pass, the
\* ticker keeps firing, and a process sent SIGKILL exits.
Fairness ==
    /\ \A c \in CLIs : WF_vars(Command(c) \/ Place(c))
    /\ WF_vars(Recover \/ Place(Recovery))
    /\ \A i \in Insts : WF_vars(Killed(i) /\ Exit(i))

FairSpec == Spec /\ Fairness
-------------------------------------------------------------------------------
(* Properties.                                                             *)

\* Two actors never both pass the "already running" check and start the
\* container twice (RunContainer, audit L3).
OneLiveInstance == \A i, j \in alive \ orphans : i = j

\* OneLiveInstance, as long as no writer has hit a record not its own.
OneInstance == ~clobbered => OneLiveInstance

\* A stop is kept until the next command: the record says "stop", which
\* contRecover respects.
StopIsKept == stopped => rec # NoRec /\ rec.status = "stop"

StopSticks == ~clobbered => StopIsKept

\* The resources of a live container are not torn down (CleanupResources is
\* "for a container whose process is already dead").
ResourcesAreKept == torn \subseteq orphans

ResourcesKept == ~clobbered => ResourcesAreKept

\* Of the processes it started the daemon never runs two, also when the
\* record has lost the first (KillStrays).  A process that outlives its SIGKILL
\* is given up on, and while the record is away, which the end of a -rm run can
\* do without the lock, nothing is looked for: DaemonHasOne has both as
\* hypotheses.
DaemonRunsOne == \A i, j \in registry : i = j

\* Nobody keeps the name to itself: not a command behind a process that will
\* not die, nor a foreground run for the life of its container (onPlaced).
LockIsReleased == \A a \in Actors : (lock = a) ~> (lock # a)

Down(r) == r.mode = "startup" /\ r.status # "stop" /\ ~Running(r)

\* A startup container that is down runs again, unless a user stops, removes or
\* replaces it first (the next tick retries what TryAcquire deferred), or the
\* recovery goroutine sits waiting for a foreground container it restarted
\* (see RecoversOnlyStartup).
StartupIsRecovered ==
    (up /\ rec # NoRec /\ Down(rec))
        ~> (~up \/ rec = NoRec \/ ~Down(rec) \/ pc[Recovery] = "wait")

\* What the health check's comment says of containers without -startup: they
\* have no recover path, so recovery starts none.
RecoversOnlyStartup == pc[Recovery] = "publish" => own[Recovery].mode = "startup"
===============================================================================
