------------------------------ MODULE VMLifecycle ------------------------------
(***************************************************************************)
(* The life of one container that runs in a KVM virtual machine.           *)
(*                                                                         *)
(* The process on record (HostPid) is the VMM: the CLI process itself for  *)
(* a foreground run, a forked `sandal vm start` for a background run and   *)
(* for every run of the daemon.  The end of a forked VMM is recorded by    *)
(* up to three parties: the VMM itself, if it gets the lock at once; the   *)
(* wait goroutine of the process that forked it, which takes the lock once *)
(* the VM is placed; and a kill or stop that waits for it.                 *)
(*                                                                         *)
(* Recovery gives the lock back before it re-runs the container, because   *)
(* RunInKVM takes it itself.                                               *)
(***************************************************************************)
EXTENDS Naturals, FiniteSets

CONSTANTS
    CLIs,               \* CLI processes, one command each
    Insts,              \* forked VMM processes
    NoRec,              \* no state record
    NoPid,              \* HostPid 0
    Free,               \* nobody holds the lock
    Ops,                \* commands the CLI processes may be given
    Modes,              \* flags a run may be given
    ProcessesMayCrash,  \* CLI processes, VMMs and the daemon can be killed
    PlacementMayFail,   \* kernel, image, network or boot can fail
    MayHang,            \* a process can outlive the wait after its SIGKILL
    MaxFaults           \* bound on guests that power off unasked, and on crashes

Op == {"run", "kill", "stop", "rm"}
Mode == {"fg", "fgrm", "bg", "bgrm", "startup"}

Recovery == "recovery"
Waiter == "waiter"
Actors == CLIs \cup {Recovery}
Procs == CLIs \cup Insts

ASSUME VMLifecycleAssumption ==
    /\ Ops \subseteq Op
    /\ Modes \subseteq Mode
    /\ CLIs \cap Insts = {}
    /\ NoPid \notin Procs
    /\ {Recovery, Waiter, Free} \cap Procs = {}
    /\ Free \notin {Recovery, Waiter}
    /\ ProcessesMayCrash \in BOOLEAN
    /\ PlacementMayFail \in BOOLEAN
    /\ MayHang \in BOOLEAN
    /\ MaxFaults \in Nat

Status == {"new", "running", "killed", "stop", "exit"}
Record == [status : Status, pid : Procs \cup {NoPid}, mode : Mode]

ASSUME NoRecAssumption == NoRec \notin Record

PC == {"idle", "acquire", "check", "prepare", "place", "publish", "await",
       "waitexit", "placed", "vm", "fgexit", "fgrecord", "read", "kill",
       "killwait", "killwait9", "stopwrite", "remove",
       "try", "recheck", "killold", "latest", "done"}

\* A forked VMM: loading its config, booting, serving the guest, then ending.
Phase == {"none", "start", "boot", "up", "ended", "record", "exit"}

\* The goroutine that waits for a forked VMM; l: it holds the lock.
WPC == {"none", "wait", "select", "acquire", "read", "lread", "write", "lwrite", "done"}

VARIABLES
    rec,        \* the state record
    lock,       \* holder of the lifecycle lock
    conf,       \* the VM config directory of the name exists
    up,         \* a daemon is running
    vmm,        \* per forked VMM: its phase
    ready,      \* per forked VMM: what it wrote on the ready pipe
    parent,     \* per forked VMM: the actor that forked it
    wpc, wread, \* per forked VMM: its wait goroutine and the Config that works on
    asked,      \* VMMs whose guest was told to power off
    killed,     \* processes that were sent SIGKILL
    pc, op,     \* per actor: its position and its command
    own,        \* per actor: the Config it works on
    child,      \* per actor: the VMM it forked
    server,     \* per actor: it found a daemon when it started
    faults,     \* unasked power-offs and crashes so far
    orphans,    \* VMMs whose parent died before publishing them (history)
    unguarded,  \* a wait goroutine wrote the record under no lock (history)
    reverted,   \* a recovery ran a container whose record had changed (history)
    stopped     \* the last command to complete was a stop (history)

vmmVars == <<vmm, ready, parent>>
waitVars == <<wpc, wread>>
sigVars == <<asked, killed, faults>>
localVars == <<pc, op, own, child, server>>
history == <<orphans, unguarded, reverted, stopped>>
vars == <<rec, lock, conf, up, vmmVars, waitVars, sigVars, localVars, history>>

Live == {i \in Insts : vmm[i] # "none"}
            \cup {c \in CLIs : pc[c] \notin {"idle", "done"}}

TypeOK ==
    /\ rec \in Record \cup {NoRec}
    /\ lock \in Actors \cup Insts \cup {Waiter, Free}
    /\ conf \in BOOLEAN
    /\ up \in BOOLEAN
    /\ vmm \in [Insts -> Phase]
    /\ ready \in [Insts -> {"no", "ok", "err"}]
    /\ parent \in [Insts -> Actors]
    /\ wpc \in [Insts -> WPC]
    /\ wread \in [Insts -> Record \cup {NoRec}]
    /\ asked \subseteq Live
    /\ killed \subseteq Live
    /\ faults \in 0..MaxFaults
    /\ pc \in [Actors -> PC]
    /\ op \in [Actors -> Op \cup {"none"}]
    /\ own \in [Actors -> Record \cup {NoRec}]
    /\ child \in [Actors -> Insts \cup {NoPid}]
    /\ server \in [Actors -> BOOLEAN]
    /\ orphans \subseteq Live \cap Insts
    /\ {unguarded, reverted, stopped} \subseteq BOOLEAN

Init ==
    /\ rec = NoRec
    /\ lock = Free
    /\ conf = FALSE
    /\ up \in BOOLEAN
    /\ vmm = [i \in Insts |-> "none"]
    /\ ready = [i \in Insts |-> "no"]
    /\ parent = [i \in Insts |-> Recovery]
    /\ wpc = [i \in Insts |-> "none"]
    /\ wread = [i \in Insts |-> NoRec]
    /\ asked = {} /\ killed = {} /\ faults = 0
    /\ pc = [a \in Actors |-> "idle"]
    /\ op = [a \in Actors |-> "none"]
    /\ own = [a \in Actors |-> NoRec]
    /\ child = [a \in Actors |-> NoPid]
    /\ server = [a \in Actors |-> FALSE]
    /\ orphans = {}
    /\ unguarded = FALSE /\ reverted = FALSE /\ stopped = FALSE
-------------------------------------------------------------------------------
(* Shared steps.                                                           *)

\* IsContainerRunning: the VMM a record names lives.
Running(r) == r # NoRec /\ r.pid \in Live

Removes(r) == r.mode \in {"fgrm", "bgrm"}

Goto(a, where) == pc' = [pc EXCEPT ![a] = where]

\* RunInKVM is still placing VMM i.
Placing(i) == \E a \in Actors : child[a] = i /\ pc[a] \in {"publish", "await", "waitexit"}

\* Wait goroutines W go with their process, and so does a lock one holds.
Lose(W) ==
    /\ wpc' = [i \in Insts |-> IF i \in W THEN "none" ELSE wpc[i]]
    /\ wread' = [i \in Insts |-> IF i \in W THEN NoRec ELSE wread[i]]
    /\ parent' = [i \in Insts |-> IF i \in W THEN Recovery ELSE parent[i]]
Held(W) == \E i \in W : wpc[i] \in {"lread", "lwrite"}

WaitersOf(a) == {i \in Insts : parent[i] = a}

\* A command ends, in order or not: the process leaves with its goroutines and
\* its locks.  Of a recovery only the goroutine returns.
Finish(a) ==
    LET W == IF a = Recovery THEN {} ELSE WaitersOf(a) IN
    /\ Goto(a, IF a = Recovery THEN "idle" ELSE "done")
    /\ own' = [own EXCEPT ![a] = NoRec]
    /\ child' = [child EXCEPT ![a] = NoPid]
    /\ ready' = [i \in Insts |-> IF child[a] = i THEN "no" ELSE ready[i]]
    /\ op' = [op EXCEPT ![a] = "none"]
    /\ server' = [server EXCEPT ![a] = FALSE]
    /\ lock' = IF lock = a \/ (lock = Waiter /\ Held(W)) THEN Free ELSE lock
    /\ Lose(W)
    /\ asked' = asked \ {a}
    /\ killed' = killed \ {a}

\* Something ends that nobody asked to end.
Fault == faults < MaxFaults /\ faults' = faults + 1

\* The record after the end of the VM: gone with -rm, else marked.
Ended(r, status) == IF Removes(r) THEN NoRec ELSE [r EXCEPT !.status = status]
-------------------------------------------------------------------------------
(* RunInKVM, for a CLI run and for recovery.                               *)

Start(c, o) ==
    /\ pc[c] = "idle"
    /\ Goto(c, "acquire")
    /\ op' = [op EXCEPT ![c] = o]
    /\ IF o = "run"
         THEN \E m \in Modes :
                own' = [own EXCEPT ![c] = [status |-> "new", pid |-> c, mode |-> m]]
         ELSE UNCHANGED own
    /\ UNCHANGED <<rec, lock, conf, up, vmmVars, waitVars, sigVars, child, server, history>>

Entry(o) == CASE o = "run" -> "check" [] OTHER -> "read"

Acquire(a) ==
    /\ pc[a] = "acquire"
    /\ lock = Free
    /\ lock' = a
    /\ Goto(a, Entry(op[a]))
    /\ UNCHANGED <<rec, conf, up, vmmVars, waitVars, sigVars, op, own, child, server, history>>

AcquireTimesOut(a) ==
    /\ pc[a] = "acquire"
    /\ lock # Free
    /\ Finish(a)
    /\ UNCHANGED <<rec, conf, up, vmm, faults, history>>

\* Mutant: no "already running" check.
RunCheckBlind(a) ==
    /\ pc[a] = "check"
    /\ Goto(a, "prepare")
    /\ server' = [server EXCEPT ![a] = up]
    /\ reverted' = (reverted \/ (a = Recovery /\ rec # own[a]))
    /\ UNCHANGED <<rec, lock, conf, up, vmmVars, waitVars, sigVars, op, own, child,
                   orphans, unguarded, stopped>>

\* The "already running" check; the first access to the records also decides
\* whether the process talks to a daemon.
RunCheck(a) ==
    /\ pc[a] = "check"
    /\ IF Running(rec)
         THEN Finish(a) /\ UNCHANGED reverted
         ELSE /\ Goto(a, "prepare")
              /\ reverted' = (reverted \/ (a = Recovery /\ rec # own[a]))
              /\ server' = [server EXCEPT ![a] = up]
              /\ UNCHANGED <<lock, own, child, op, ready, parent, waitVars, asked, killed>>
    /\ UNCHANGED <<rec, conf, up, vmm, faults, orphans, unguarded, stopped>>

\* Arguments, image, kernel, mounts, links and initrd, then SaveConfig.
Prepare(a) ==
    /\ pc[a] = "prepare"
    /\ conf' = TRUE
    /\ Goto(a, "place")
    /\ UNCHANGED <<rec, lock, up, vmmVars, waitVars, sigVars, op, own, child, server, history>>

\* One of them fails, or the fork does.
PlacementFails(a) ==
    /\ PlacementMayFail
    /\ pc[a] \in {"prepare", "place"}
    /\ Finish(a)
    /\ UNCHANGED <<rec, conf, up, vmm, faults, history>>

\* A startup container is left to the daemon.  The record names this process,
\* so the daemon waits for it to be gone.
Delegate(c) ==
    /\ pc[c] = "place"
    /\ c # Recovery
    /\ own[c].mode = "startup" /\ server[c]
    /\ conf' = FALSE
    /\ rec' = own[c]
    /\ lock' = Free
    /\ Goto(c, "placed")
    /\ stopped' = FALSE
    /\ UNCHANGED <<up, vmmVars, waitVars, sigVars, op, own, child, server,
                   orphans, unguarded, reverted>>

\* Processes nothing refers to: a pid with its start-time is never reused.
Fresh ==
    {i \in Insts : /\ vmm[i] = "none"
                   /\ wpc[i] \in {"none", "done"}
                   /\ \A a \in Actors : child[a] # i
                   /\ \A r \in ({rec} \cup {own[a] : a \in Actors}
                                  \cup {wread[j] : j \in Insts}) \ {NoRec} : r.pid # i}

\* forkVMProcess up to cmd.Start.
Fork(a) ==
    /\ pc[a] = "place"
    /\ \/ a = Recovery
       \/ own[a].mode \in {"bg", "bgrm"}
       \/ own[a].mode = "startup" /\ ~server[a]
    /\ \E i \in Fresh :
         /\ vmm' = [vmm EXCEPT ![i] = "start"]
         /\ ready' = [ready EXCEPT ![i] = "no"]
         /\ parent' = [parent EXCEPT ![i] = a]
         /\ wpc' = [wpc EXCEPT ![i] = "none"]
         /\ child' = [child EXCEPT ![a] = i]
    /\ Goto(a, "publish")
    /\ UNCHANGED <<rec, lock, conf, up, wread, sigVars, op, own, server, history>>

\* Publish the pid of the VMM and start waiting for it.
Publish(a) ==
    /\ pc[a] = "publish"
    /\ LET r == [own[a] EXCEPT !.status = "running", !.pid = child[a]] IN
         /\ rec' = r
         /\ own' = [own EXCEPT ![a] = r]
         /\ wread' = [wread EXCEPT ![child[a]] = r]
    /\ wpc' = [wpc EXCEPT ![child[a]] = "wait"]
    /\ stopped' = (stopped /\ a = Recovery)
    /\ Goto(a, "await")
    /\ UNCHANGED <<lock, conf, up, vmmVars, sigVars, op, child, server,
                   orphans, unguarded, reverted>>

\* The ready pipe and the channel placed are closed, the lock is released.
Placed(a) ==
    /\ IF a = Recovery
         THEN Finish(a)
         ELSE /\ lock' = Free
              /\ Goto(a, "placed")
              /\ ready' = [ready EXCEPT ![child[a]] = "no"]
              /\ UNCHANGED <<own, child, op, server, parent, waitVars, asked, killed>>
    /\ UNCHANGED <<rec, conf, up, vmm, faults, history>>

\* awaitVMReady: the VMM reported that the guest runs.
AwaitReady(a) ==
    /\ pc[a] = "await"
    /\ ready[child[a]] = "ok"
    /\ Placed(a)

\* It reported an error, or its end of the pipe closed.
AwaitFails(a) ==
    /\ pc[a] = "await"
    /\ \/ ready[child[a]] = "err"
       \/ ready[child[a]] = "no" /\ child[a] \notin Live
    /\ Goto(a, "waitexit")
    /\ UNCHANGED <<rec, lock, conf, up, vmmVars, waitVars, sigVars, op, own, child,
                   server, history>>

\* vmReadyTimeout passes: kill it.
AwaitTimesOut(a) ==
    /\ MayHang
    /\ pc[a] = "await"
    /\ ready[child[a]] = "no" /\ child[a] \in Live
    /\ killed' = killed \cup {child[a]}
    /\ Goto(a, "waitexit")
    /\ UNCHANGED <<rec, lock, conf, up, vmmVars, waitVars, asked, faults, op, own, child,
                   server, history>>

\* waitVMExit: the wait goroutine is through, or vmExitGrace has passed.
WaitExit(a) ==
    /\ pc[a] = "waitexit"
    /\ wpc[child[a]] = "done" \/ MayHang
    /\ Placed(a)

\* A background run exits.
CLIExit(c) ==
    /\ pc[c] = "placed"
    /\ Finish(c)
    /\ UNCHANGED <<rec, conf, up, vmm, faults, history>>
-------------------------------------------------------------------------------
(* The foreground run, which is its own VMM.                               *)

\* Register, release the lock, boot.
Foreground(c) ==
    /\ pc[c] = "place"
    /\ c # Recovery
    /\ own[c].mode \in {"fg", "fgrm"}
    /\ LET r == [own[c] EXCEPT !.status = "running"] IN
         /\ rec' = r
         /\ own' = [own EXCEPT ![c] = r]
    /\ lock' = Free
    /\ Goto(c, "vm")
    /\ stopped' = FALSE
    /\ UNCHANGED <<conf, up, vmmVars, waitVars, sigVars, op, child, server,
                   orphans, unguarded, reverted>>

\* The guest powers off: because it was told to, or by itself.
PowerOff(p) == IF p \in asked THEN UNCHANGED faults ELSE Fault

ForegroundEnds(c) ==
    /\ pc[c] = "vm"
    /\ PowerOff(c)
    /\ Goto(c, "fgexit")
    /\ UNCHANGED <<rec, lock, conf, up, vmmVars, waitVars, asked, killed, op, own, child,
                   server, history>>

\* The deferred exit record never waits for the lock: a stop or kill that
\* holds it waits for this process.
ForegroundTry(c) ==
    /\ pc[c] = "fgexit"
    /\ IF lock = Free
         THEN lock' = c /\ Goto(c, "fgrecord")
         ELSE Goto(c, "placed") /\ UNCHANGED lock
    /\ conf' = IF lock = Free THEN conf ELSE FALSE
    /\ UNCHANGED <<rec, up, vmmVars, waitVars, sigVars, op, own, child, server, history>>

\* Record the exit, unless the record belongs to another run; then DeleteVM.
ForegroundRecord(c) ==
    /\ pc[c] = "fgrecord"
    /\ rec' = IF rec # NoRec /\ rec.pid # c THEN rec ELSE Ended(own[c], "exit")
    /\ conf' = FALSE
    /\ lock' = Free
    /\ Goto(c, "placed")
    /\ UNCHANGED <<up, vmmVars, waitVars, sigVars, op, own, child, server, history>>
-------------------------------------------------------------------------------
(* The forked VMM: sandal vm start.                                        *)

Phases(i, phase) == vmm' = [vmm EXCEPT ![i] = phase]

vmmOnly == <<rec, conf, up, parent, waitVars, localVars, history>>

\* ReportReady, if the other end of the pipe is still open.
Reports(i, what) ==
    ready' = [ready EXCEPT ![i] = IF Placing(i) THEN what ELSE @]

\* LoadConfig; without one it reports the error and gives up.
VMMLoad(i) ==
    /\ vmm[i] = "start"
    /\ Phases(i, IF conf THEN "boot" ELSE "ended")
    /\ IF conf THEN UNCHANGED ready ELSE Reports(i, "err")
    /\ UNCHANGED <<vmmOnly, lock, sigVars>>

\* BootWithForwards: the VM runs with its forwards and says so.
VMMReady(i) ==
    /\ vmm[i] = "boot"
    /\ Phases(i, "up")
    /\ Reports(i, "ok")
    /\ UNCHANGED <<vmmOnly, lock, sigVars>>

\* Boot fails; the error is reported before it is recorded.
VMMFails(i) ==
    /\ PlacementMayFail
    /\ vmm[i] = "boot"
    /\ Phases(i, "ended")
    /\ Reports(i, "err")
    /\ UNCHANGED <<vmmOnly, lock, sigVars>>

VMMEnds(i) ==
    /\ vmm[i] = "up"
    /\ PowerOff(i)
    /\ Phases(i, "ended")
    /\ UNCHANGED <<vmmOnly, lock, ready, asked, killed>>

\* recordVMContainerExit: a busy name is left alone.
VMMTry(i) ==
    /\ vmm[i] = "ended"
    /\ IF lock = Free
         THEN lock' = i /\ Phases(i, "record")
         ELSE Phases(i, "exit") /\ UNCHANGED lock
    /\ UNCHANGED <<vmmOnly, ready, sigVars>>

\* Only a record that names this process is written.
VMMRecord(i) ==
    /\ vmm[i] = "record"
    /\ rec' = IF rec # NoRec /\ rec.pid = i THEN Ended(rec, "exit") ELSE rec
    /\ lock' = Free
    /\ Phases(i, "exit")
    /\ UNCHANGED <<conf, up, parent, waitVars, localVars, history, ready, sigVars>>

\* The process ends; killed, it ends anywhere.
VMMExit(i) ==
    /\ i \in Live
    /\ IF vmm[i] = "exit" \/ i \in killed
         THEN UNCHANGED faults
         ELSE ProcessesMayCrash /\ Fault
    /\ Phases(i, "none")
    /\ lock' = IF lock = i THEN Free ELSE lock
    /\ asked' = asked \ {i}
    /\ killed' = killed \ {i}
    /\ orphans' = orphans \ {i}
    /\ UNCHANGED <<rec, conf, up, ready, parent, waitVars, localVars,
                   unguarded, reverted, stopped>>

VMMStep(i) ==
    \/ VMMLoad(i) \/ VMMReady(i) \/ VMMFails(i) \/ VMMEnds(i)
    \/ VMMTry(i) \/ VMMRecord(i) \/ VMMExit(i)
-------------------------------------------------------------------------------
(* The wait goroutine of forkVMProcess.                                    *)

Waits(i, where) == wpc' = [wpc EXCEPT ![i] = where]

\* cmd.Wait returns.
WaiterReturns(i) ==
    /\ wpc[i] = "wait"
    /\ i \notin Live
    /\ Waits(i, "select")
    /\ UNCHANGED <<rec, lock, conf, up, vmmVars, wread, sigVars, localVars, history>>

\* While placing, the parent holds the lock for it; later it takes it itself.
WaiterSelect(i) ==
    /\ wpc[i] = "select"
    /\ Waits(i, IF Placing(i) THEN "read" ELSE "acquire")
    /\ UNCHANGED <<rec, lock, conf, up, vmmVars, wread, sigVars, localVars, history>>

WaiterAcquire(i) ==
    /\ wpc[i] = "acquire"
    /\ lock = Free
    /\ lock' = Waiter
    /\ Waits(i, "lread")
    /\ UNCHANGED <<rec, conf, up, vmmVars, wread, sigVars, localVars, history>>

\* The goroutine ends; DeleteVM removes the VM directory of the name.
WaiterEnds(i) ==
    /\ conf' = FALSE
    /\ Waits(i, IF Placing(i) THEN "done" ELSE "none")

\* After DefaultTimeout it gives up on the record, but not on DeleteVM.
WaiterTimesOut(i) ==
    /\ wpc[i] = "acquire"
    /\ lock # Free
    /\ WaiterEnds(i)
    /\ wread' = [wread EXCEPT ![i] = NoRec]
    /\ UNCHANGED <<rec, lock, up, vmmVars, sigVars, localVars, history>>

\* The record is still that of VMM i.  With -rm it may be gone already.
Owns(i) == IF Removes(wread[i]) THEN rec = NoRec \/ rec.pid = i
                                ELSE rec # NoRec /\ rec.pid = i

\* The exit is still to be recorded (setForkedVMExit).
Owed(i) == Owns(i) /\ (Removes(wread[i]) \/ rec.status = "running")

\* Re-read the record.
WaiterRead(i) ==
    /\ wpc[i] \in {"read", "lread"}
    /\ IF Owed(i)
         THEN /\ Waits(i, IF wpc[i] = "read" THEN "write" ELSE "lwrite")
              /\ wread' = IF Removes(wread[i]) THEN wread ELSE [wread EXCEPT ![i] = rec]
              /\ UNCHANGED <<lock, conf>>
         ELSE /\ WaiterEnds(i)
              /\ wread' = [wread EXCEPT ![i] = NoRec]
              /\ lock' = IF wpc[i] = "read" THEN lock ELSE Free
    /\ UNCHANGED <<rec, up, vmmVars, sigVars, localVars, history>>

\* Write it back, or remove it with -rm.
WaiterWrite(i) ==
    /\ wpc[i] \in {"write", "lwrite"}
    /\ rec' = Ended(wread[i], "exit")
    /\ unguarded' = (unguarded \/ (wpc[i] = "write" /\ ~Placing(i)))
    /\ WaiterEnds(i)
    /\ wread' = [wread EXCEPT ![i] = NoRec]
    /\ lock' = IF wpc[i] = "write" THEN lock ELSE Free
    /\ UNCHANGED <<up, vmmVars, sigVars, localVars, orphans, reverted, stopped>>

WaiterStep(i) ==
    \/ WaiterReturns(i) \/ WaiterSelect(i) \/ WaiterAcquire(i) \/ WaiterTimesOut(i)
    \/ WaiterRead(i) \/ WaiterWrite(i)
-------------------------------------------------------------------------------
(* kill, stop and rm.                                                      *)

\* GetContainer under the lock; rm refuses a running container.
CommandRead(c) ==
    /\ pc[c] = "read"
    /\ IF rec = NoRec \/ (op[c] = "rm" /\ Running(rec))
         THEN Finish(c)
         ELSE /\ own' = [own EXCEPT ![c] = rec]
              /\ Goto(c, IF op[c] = "rm" THEN "remove" ELSE "kill")
              /\ UNCHANGED <<lock, child, op, server, ready, parent, waitVars, asked, killed>>
    /\ UNCHANGED <<rec, conf, up, vmm, faults, history>>

\* DeRunContainer with Remove: host.Kill finds no ContPid, then the files go.
RmRemove(c) ==
    /\ pc[c] = "remove"
    /\ rec' = NoRec
    /\ stopped' = FALSE
    /\ Finish(c)
    /\ UNCHANGED <<conf, up, vmm, faults, orphans, unguarded, reverted>>

HasGuest(p) == (p \in Insts /\ vmm[p] = "up") \/ (p \in CLIs /\ pc[p] = "vm")

\* killVM with a catchable signal: the management socket passes it to the guest.
KillGuest(c) ==
    /\ pc[c] = "kill"
    /\ own[c].pid # NoPid
    /\ HasGuest(own[c].pid)
    /\ asked' = asked \cup {own[c].pid}
    /\ Goto(c, "killwait")
    /\ UNCHANGED <<rec, lock, conf, up, vmmVars, waitVars, killed, faults, op, own, child,
                   server, history>>

\* killVMHost: SIGKILL, or the management socket does not answer.
KillHost(c) ==
    /\ pc[c] = "kill"
    /\ own[c].pid \in Live
    /\ killed' = killed \cup {own[c].pid}
    /\ Goto(c, "killwait9")
    /\ UNCHANGED <<rec, lock, conf, up, vmmVars, waitVars, asked, faults, op, own, child,
                   server, history>>

\* Mutant: stop writes its status also when the record is gone.
AfterKillAlways(c, r) ==
    IF op[c] = "stop"
      THEN /\ own' = [own EXCEPT ![c] = r]
           /\ Goto(c, "stopwrite")
           /\ UNCHANGED <<lock, child, op, server, ready, parent, waitVars, asked, killed>>
      ELSE Finish(c)

\* What follows a Kill that succeeded: the record of a -rm VM is gone.
AfterKill(c, r) ==
    IF op[c] = "stop" /\ ~Removes(own[c])
      THEN /\ own' = [own EXCEPT ![c] = r]
           /\ Goto(c, "stopwrite")
           /\ UNCHANGED <<lock, child, op, server, ready, parent, waitVars, asked, killed>>
      ELSE Finish(c)

\* reapVM, once the VMM is seen dead: without a HostPid only the status is
\* written.
KillReap(c) ==
    /\ pc[c] \in {"kill", "killwait", "killwait9"}
    /\ own[c].pid \notin Live
    /\ LET r == [own[c] EXCEPT !.status = "killed", !.pid = NoPid] IN
         /\ rec' = IF own[c].pid = NoPid THEN r ELSE Ended(r, "killed")
         /\ AfterKill(c, r)
    /\ stopped' = FALSE
    /\ UNCHANGED <<conf, up, vmm, faults, orphans, unguarded, reverted>>

\* The wait ends first.  stop escalates once; kill fails.
KillTimesOut(c) ==
    /\ pc[c] \in {"killwait", "killwait9"}
    /\ own[c].pid \in Live
    /\ pc[c] = "killwait9" => MayHang
    /\ IF op[c] = "stop" /\ pc[c] = "killwait"
         THEN /\ killed' = killed \cup {own[c].pid}
              /\ Goto(c, "killwait9")
              /\ UNCHANGED <<lock, own, child, op, server, ready, parent, waitVars, asked>>
         ELSE Finish(c)
    /\ UNCHANGED <<rec, conf, up, vmm, faults, history>>

StopWrite(c) ==
    /\ pc[c] = "stopwrite"
    /\ rec' = [own[c] EXCEPT !.status = "stop"]
    /\ stopped' = TRUE
    /\ Finish(c)
    /\ UNCHANGED <<conf, up, vmm, faults, orphans, unguarded, reverted>>
-------------------------------------------------------------------------------
(* Recovery.                                                               *)

Down(r) == r # NoRec /\ r.mode = "startup" /\ r.status # "stop" /\ ~Running(r)

Tick ==
    /\ up
    /\ pc[Recovery] = "idle"
    /\ Down(rec)
    /\ Goto(Recovery, "try")
    /\ UNCHANGED <<rec, lock, conf, up, vmmVars, waitVars, sigVars, op, own, child,
                   server, history>>

RecoverTry ==
    /\ pc[Recovery] = "try"
    /\ IF lock = Free
         THEN lock' = Recovery /\ Goto(Recovery, "recheck")
         ELSE Goto(Recovery, "idle") /\ UNCHANGED lock
    /\ UNCHANGED <<rec, conf, up, vmmVars, waitVars, sigVars, op, own, child, server, history>>

Unneeded(r) == r = NoRec \/ r.status = "stop" \/ Running(r)

RecoverRecheck ==
    /\ pc[Recovery] = "recheck"
    /\ IF Unneeded(rec)
         THEN Finish(Recovery)
         ELSE /\ own' = [own EXCEPT ![Recovery] = rec]
              /\ Goto(Recovery, "killold")
              /\ UNCHANGED <<lock, child, op, server, ready, parent, waitVars, asked, killed>>
    /\ UNCHANGED <<rec, conf, up, vmm, faults, history>>

\* CleanupResources, then host.Kill, which finds no ContPid and writes the
\* status.  KillStrays finds nothing: a VMM is not registered.
RecoverKillOld ==
    /\ pc[Recovery] = "killold"
    /\ rec' = IF own[Recovery].status = "killed" THEN rec
              ELSE [own[Recovery] EXCEPT !.status = "killed"]
    /\ Goto(Recovery, "latest")
    /\ UNCHANGED <<lock, conf, up, vmmVars, waitVars, sigVars, op, own, child, server, history>>

\* Read again, give the lock back, and run the recorded arguments, which takes
\* it anew.
RecoverLatest ==
    /\ pc[Recovery] = "latest"
    /\ IF Unneeded(rec)
         THEN Finish(Recovery)
         ELSE /\ own' = [own EXCEPT ![Recovery] = rec]
              /\ op' = [op EXCEPT ![Recovery] = "run"]
              /\ lock' = Free
              /\ Goto(Recovery, "acquire")
              /\ UNCHANGED <<child, server, ready, parent, waitVars, asked, killed>>
    /\ UNCHANGED <<rec, conf, up, vmm, faults, history>>

Recover ==
    Tick \/ RecoverTry \/ RecoverRecheck \/ RecoverKillOld \/ RecoverLatest
-------------------------------------------------------------------------------
(* The environment.                                                        *)

\* The child of a process that dies before publishing it.
Orphan(a) == IF pc[a] = "publish" THEN {child[a]} \cap Live ELSE {}

CLICrash(c) ==
    /\ pc[c] \notin {"idle", "done"}
    /\ IF c \in killed THEN UNCHANGED faults ELSE ProcessesMayCrash /\ Fault
    /\ orphans' = orphans \cup Orphan(c)
    /\ Finish(c)
    /\ UNCHANGED <<rec, conf, up, vmm, unguarded, reverted, stopped>>

DaemonCrash ==
    /\ ProcessesMayCrash
    /\ up
    /\ up' = FALSE
    /\ Fault
    /\ orphans' = orphans \cup Orphan(Recovery)
    /\ Goto(Recovery, "idle")
    /\ own' = [own EXCEPT ![Recovery] = NoRec]
    /\ child' = [child EXCEPT ![Recovery] = NoPid]
    /\ ready' = [i \in Insts |-> IF child[Recovery] = i THEN "no" ELSE ready[i]]
    /\ lock' = IF lock = Recovery \/ (lock = Waiter /\ Held(WaitersOf(Recovery)))
                 THEN Free ELSE lock
    /\ Lose(WaitersOf(Recovery))
    /\ UNCHANGED <<rec, conf, vmm, asked, killed, op, server, unguarded, reverted, stopped>>

DaemonStart ==
    /\ ~up
    /\ up' = TRUE
    /\ UNCHANGED <<rec, lock, conf, vmmVars, waitVars, sigVars, localVars, history>>
-------------------------------------------------------------------------------
Place(a) ==
    \/ Acquire(a) \/ AcquireTimesOut(a)
    \/ RunCheck(a) \/ Prepare(a) \/ PlacementFails(a) \/ Delegate(a)
    \/ Fork(a) \/ Publish(a) \/ AwaitReady(a) \/ AwaitFails(a) \/ AwaitTimesOut(a)
    \/ WaitExit(a)

Command(c) ==
    \/ CLIExit(c)
    \/ Foreground(c) \/ ForegroundTry(c) \/ ForegroundRecord(c)
    \/ CommandRead(c) \/ RmRemove(c) \/ KillGuest(c) \/ KillHost(c) \/ KillReap(c)
    \/ KillTimesOut(c) \/ StopWrite(c)

Next ==
    \/ \E c \in CLIs, o \in Ops : Start(c, o)
    \/ \E a \in Actors : Place(a)
    \/ \E c \in CLIs : Command(c) \/ ForegroundEnds(c) \/ CLICrash(c)
    \/ \E i \in Insts : VMMStep(i) \/ WaiterStep(i)
    \/ Recover
    \/ DaemonCrash \/ DaemonStart

Spec == Init /\ [][Next]_vars
-------------------------------------------------------------------------------
(* Properties.                                                             *)

\* Processes that run the VM of the name or are about to.
Booting == {i \in Insts : vmm[i] \in {"start", "boot", "up"}}
             \cup {c \in CLIs : pc[c] = "vm"}

\* "Two actors can't both pass the running-check and double-boot the VM"
\* (RunInKVM): at most one VM of a name, orphans of a crash apart.
OneVM == \A p, q \in Booting \ orphans : p = q

\* OneVM, as long as no wait goroutine has written the record under no lock.
OneVMM == ~unguarded => OneVM

\* No VM is left running detached: it is the one on record, or its parent is
\* about to publish it and has the lock.
Attached ==
    ~unguarded =>
        \A p \in Booting \ orphans :
            \/ rec # NoRec /\ rec.pid = p
            \/ \E a \in Actors : lock = a /\ pc[a] = "publish" /\ child[a] = p

\* A stop is kept until the next command: none of the parties that record the
\* end of the VM, nor a recovery that decided under the lock, overwrites it.
\* What RunInKVM does with a record that changed between the two locks of a
\* recovery is left out (reverted).
StopSticks ==
    ~unguarded /\ ~reverted => (stopped => rec # NoRec /\ rec.status = "stop")

\* One VM of a name, on record, and a stop that is kept: what the lifecycle lock
\* and the identity checks of RunInKVM, killVMHost and recordVMContainerExit
\* are for, under crashes, failing boots and hanging VMMs.
VMSafe == TypeOK /\ OneVMM /\ Attached /\ StopSticks

\* A record that is gone comes back only by a run that has the lock: nobody who
\* records the end of a -rm VM resurrects it (stopContainer, RemoveVMState).
ComesBackByRun ==
    [][rec = NoRec /\ rec' # NoRec /\ ~unguarded' =>
         \E a \in Actors : lock = a /\ pc[a] \in {"place", "publish"}]_vars
===============================================================================
