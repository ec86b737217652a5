----------------------------- MODULE KVMMachine -----------------------------
(***************************************************************************)
(* One virtual machine process (pkg/vm/kvm/boot.go, vm.go): Boot creates   *)
(* the VM, binds the port forwards, starts the vCPU threads and waits; the *)
(* VM is stopped by a vCPU that leaves the guest for good or by a signal   *)
(* to the process, whichever comes first.                                  *)
(*                                                                         *)
(* stop must get every vCPU thread out of KVM_RUN.  It closes stopCh, sends*)
(* SIGURG to the threads it knows and closes their file descriptors.  A    *)
(* signal interrupts KVM_RUN but is lost on a thread that is just outside  *)
(* it, so what a thread does between its look at stopCh and KVM_RUN is a   *)
(* step of its own here.                                                   *)
(***************************************************************************)
EXTENDS Naturals, FiniteSets

CONSTANTS
  CPU,           \* the vCPUs
  MaxSignals,    \* bound: SIGINT and SIGTERM sent to the process
  MaxExits       \* bound: exits of a vCPU that it continues from

ASSUME KVMAssumption == IsFiniteSet(CPU) /\ CPU # {} /\ {MaxSignals, MaxExits} \subseteq Nat

\* Why a vCPU leaves the guest for good: guestStopError and the other exits
\* that end runVCPU.  A poweroff is a clean stop, the rest is an error.
CleanExits == {"poweroff"}
ErrorExits == {"reset", "crash", "fail"}
NoReason == "none"
HostStop == "host"
Reasons == CleanExits \cup ErrorExits \cup {HostStop}

VARIABLES
  boot,      \* position of Boot
  vmstate,   \* vm.state
  stopErr,   \* vm.stopErr with its cause, NoReason before the first stop
  stopCh,    \* stopCh is closed
  stopper,   \* how far stop has got: it holds vm.mu until it is done
  vpc,       \* position of each vCPU thread
  ended,     \* history: why each vCPU called stop
  tids,      \* vCPUs whose thread id is recorded
  cpuFds,       \* vCPUs whose descriptor is open
  exits,     \* bound counter
  sigs,      \* signals sent, and how many the goroutine of Boot has taken
  answer,    \* what stoppedCh holds or WaitUntilStopped returned
  resources, \* what the process holds: memory map, forwards, mgmt socket
  first,     \* history: the reason of the first stop
  early      \* history: a stop request found the VM not running yet

kVars == <<boot, vmstate, stopErr, stopCh, stopper, vpc, ended, tids, cpuFds, exits,
           sigs, answer, resources, first, early>>

KInit ==
  /\ boot = "new"
  /\ vmstate = "stopped"
  /\ stopErr = NoReason
  /\ stopCh = FALSE
  /\ stopper = "none"
  /\ vpc = [c \in CPU |-> "none"]
  /\ ended = [c \in CPU |-> NoReason]
  /\ tids = {} /\ cpuFds = {}
  /\ exits = 0
  /\ sigs = [sent |-> 0, taken |-> 0]
  /\ answer = NoReason
  /\ resources = {}
  /\ first = NoReason
  /\ early = FALSE

Mu == stopper \in {"none", "done"}        \* vm.mu is free

-----------------------------------------------------------------------------
(* Boot.                                                                   *)

\* NewVM: memory, kernel, initrd and vCPUs; a step that fails gives back what
\* came before it.
NewVM ==
  /\ boot = "new"
  /\ \/ boot' = "devices" /\ cpuFds' = CPU /\ resources' = {"memory"}
     \/ boot' = "failed" /\ UNCHANGED <<cpuFds, resources>>
  /\ UNCHANGED <<vmstate, stopErr, stopCh, stopper, vpc, ended, tids, exits, sigs,
                 answer, first, early>>

\* The rest of NewVM: disks, TAPs, shares, vsock, registers and interrupts.  A
\* failure of the vsock device or of the registers gives the memory and the
\* vCPUs back and leaves the devices opened so far to the end of the process.
AttachDevices ==
  /\ boot = "devices"
  /\ \/ /\ boot' = "forwards"
        /\ resources' = resources \cup {"vsock", "disks", "taps"}
        /\ UNCHANGED cpuFds
     \/ /\ boot' = "failed"
        /\ resources' \in {{"disks", "taps"}, {"disks", "taps", "vsock"}}
        /\ cpuFds' = {}
  /\ UNCHANGED <<vmstate, stopErr, stopCh, stopper, vpc, ended, tids, exits, sigs,
                 answer, first, early>>

\* The forwards are bound before the guest starts: a port that is taken ends
\* Boot with the VM closed again.
StartForwards ==
  /\ boot = "forwards"
  /\ \/ boot' = "start" /\ resources' = resources \cup {"forwards"} /\ UNCHANGED cpuFds
     \/ boot' = "failed" /\ resources' = {} /\ cpuFds' = {}
  /\ UNCHANGED <<vmstate, stopErr, stopCh, stopper, vpc, ended, tids, exits, sigs,
                 answer, first, early>>

\* Start: state starting, one thread per vCPU ...
StartVCPUs ==
  /\ boot = "start"
  /\ Mu /\ vmstate = "stopped"
  /\ vmstate' = "starting"
  /\ vpc' = [c \in CPU |-> "new"]
  /\ boot' = "starting"
  /\ UNCHANGED <<stopErr, stopCh, stopper, ended, tids, cpuFds, exits, sigs, answer,
                 resources, first, early>>

\* ... state running and the goroutine that waits for all threads.
StartDone ==
  /\ boot = "starting"
  /\ Mu
  /\ vmstate' = "running"
  /\ boot' = "running"
  /\ resources' = resources \cup {"mgmt"}
  /\ UNCHANGED <<stopErr, stopCh, stopper, vpc, ended, tids, cpuFds, exits, sigs,
                 answer, first, early>>

\* wg.Wait returned: net devices stop, the state is stopped, and the reason
\* goes to stoppedCh.
AllReturned ==
  /\ boot = "running" /\ answer = NoReason
  /\ \A c \in CPU : vpc[c] = "done"
  /\ Mu
  /\ vmstate' = "stopped"
  /\ answer' = IF stopErr \in ErrorExits THEN stopErr ELSE "ok"
  /\ UNCHANGED <<boot, stopErr, stopCh, stopper, vpc, ended, tids, cpuFds, exits, sigs,
                 resources, first, early>>

\* WaitUntilStopped returns and the deferred calls run: management socket,
\* forwards, Close.
BootReturns ==
  /\ boot = "running" /\ answer # NoReason
  /\ boot' = "returned"
  /\ resources' = {} /\ cpuFds' = {}
  /\ UNCHANGED <<vmstate, stopErr, stopCh, stopper, vpc, ended, tids, exits, sigs,
                 answer, first, early>>

-----------------------------------------------------------------------------
(* stop, by a signal or by a vCPU.                                         *)

\* Mutants: the last reason counts; nobody is told.
StopBeginLast(reason) ==
  /\ first' = IF first = NoReason THEN reason ELSE first
  /\ vmstate' = "stopping"
  /\ stopErr' = reason
  /\ stopCh' = TRUE
  /\ stopper' = "signal"
  /\ UNCHANGED early
StopBeginSilent(reason) ==
  /\ first' = IF first = NoReason THEN reason ELSE first
  /\ vmstate' = "stopping"
  /\ stopErr' = reason
  /\ UNCHANGED <<stopCh, stopper, early>>

\* Lock vm.mu; only a running VM is stopped, and only the first reason counts.
StopBegin(reason) ==
  /\ first' = IF first = NoReason THEN reason ELSE first
  /\ IF vmstate = "running"
     THEN /\ vmstate' = "stopping"
          /\ stopErr' = reason
          /\ stopCh' = TRUE
          /\ stopper' = "signal"
          /\ UNCHANGED early
     ELSE /\ early' = (early \/ (vmstate # "stopping" /\ answer = NoReason))
          /\ UNCHANGED <<vmstate, stopErr, stopCh, stopper>>

\* SIGURG to every recorded thread: it interrupts KVM_RUN, and is handled and
\* forgotten anywhere else.
StopSignals ==
  /\ stopper = "signal"
  /\ stopper' = "close"
  /\ vpc' = [c \in CPU |-> IF c \in tids /\ vpc[c] = "run" THEN "check" ELSE vpc[c]]
  /\ UNCHANGED <<boot, vmstate, stopErr, stopCh, ended, tids, cpuFds, exits, sigs,
                 answer, resources, first, early>>

\* The descriptors are closed; a thread inside KVM_RUN does not notice.
StopCloses ==
  /\ stopper = "close"
  /\ stopper' = "done"
  /\ cpuFds' = {}
  /\ UNCHANGED <<boot, vmstate, stopErr, stopCh, vpc, ended, tids, exits, sigs,
                 answer, resources, first, early>>

\* SIGINT or SIGTERM arrives; the channel of capacity one drops what does not
\* fit, and the goroutine takes two: RequestStop and Stop.
Signal ==
  /\ boot \in {"start", "starting", "running"}
  /\ sigs.sent < MaxSignals
  /\ sigs' = [sigs EXCEPT !.sent = @ + 1]
  /\ UNCHANGED <<boot, vmstate, stopErr, stopCh, stopper, vpc, ended, tids, cpuFds,
                 exits, answer, resources, first, early>>

TakeSignal ==
  /\ boot \in {"start", "starting", "running"}
  /\ sigs.taken < sigs.sent /\ sigs.taken < 2
  /\ Mu
  /\ sigs' = [sigs EXCEPT !.taken = @ + 1]
  /\ StopBegin(HostStop)
  /\ UNCHANGED <<boot, vpc, ended, tids, cpuFds, exits, answer, resources>>

-----------------------------------------------------------------------------
(* runVCPU.                                                                *)

VCPUStarts(c) ==
  /\ vpc[c] = "new"
  /\ tids' = tids \cup {c}
  /\ vpc' = [vpc EXCEPT ![c] = "check"]
  /\ UNCHANGED <<boot, vmstate, stopErr, stopCh, stopper, ended, cpuFds, exits, sigs,
                 answer, resources, first, early>>

VCPUChecks(c) ==
  /\ vpc[c] = "check"
  /\ vpc' = [vpc EXCEPT ![c] = IF stopCh THEN "done" ELSE "enter"]
  /\ UNCHANGED <<boot, vmstate, stopErr, stopCh, stopper, ended, tids, cpuFds, exits,
                 sigs, answer, resources, first, early>>

\* KVM_RUN on a closed descriptor fails with EBADF.
VCPUEnters(c) ==
  /\ vpc[c] = "enter"
  /\ vpc' = [vpc EXCEPT ![c] = IF c \in cpuFds THEN "run" ELSE "done"]
  /\ UNCHANGED <<boot, vmstate, stopErr, stopCh, stopper, ended, tids, cpuFds, exits,
                 sigs, answer, resources, first, early>>

\* An exit the loop continues from: port I/O, MMIO, an interrupted run.
VCPUExits(c) ==
  /\ vpc[c] = "run"
  /\ exits < MaxExits
  /\ exits' = exits + 1
  /\ vpc' = [vpc EXCEPT ![c] = "check"]
  /\ UNCHANGED <<boot, vmstate, stopErr, stopCh, stopper, ended, tids, cpuFds, sigs,
                 answer, resources, first, early>>

\* An exit that ends the guest: the vCPU stops the VM and returns.
VCPUStops(c) ==
  /\ vpc[c] = "run"
  /\ Mu
  /\ \E r \in CleanExits \cup ErrorExits :
       /\ ended' = [ended EXCEPT ![c] = r]
       /\ StopBegin(r)
  /\ vpc' = [vpc EXCEPT ![c] = "done"]
  /\ UNCHANGED <<boot, tids, cpuFds, exits, sigs, answer, resources>>

-----------------------------------------------------------------------------
RunVCPU(c) == VCPUStarts(c) \/ VCPUChecks(c) \/ VCPUEnters(c)

KNext ==
  \/ NewVM \/ AttachDevices \/ StartForwards \/ StartVCPUs \/ StartDone \/ AllReturned \/ BootReturns
  \/ StopSignals \/ StopCloses \/ Signal \/ TakeSignal
  \/ \E c \in CPU : RunVCPU(c) \/ VCPUExits(c) \/ VCPUStops(c)

\* Threads and goroutines run; a guest need not leave KVM_RUN by itself.
KFairness ==
  /\ WF_kVars(\/ AttachDevices \/ StartForwards \/ StartVCPUs \/ StartDone
              \/ AllReturned \/ BootReturns)
  /\ WF_kVars(StopSignals \/ StopCloses) /\ WF_kVars(TakeSignal)
  /\ \A c \in CPU : WF_kVars(RunVCPU(c))

KSpec == KInit /\ [][KNext]_kVars /\ KFairness

-----------------------------------------------------------------------------
KTypeOK ==
  /\ boot \in {"new", "devices", "forwards", "start", "starting", "running", "returned", "failed"}
  /\ vmstate \in {"stopped", "starting", "running", "stopping"}
  /\ stopErr \in Reasons \cup {NoReason}
  /\ stopCh \in BOOLEAN /\ early \in BOOLEAN
  /\ stopper \in {"none", "signal", "close", "done"}
  /\ vpc \in [CPU -> {"none", "new", "check", "enter", "run", "done"}]
  /\ ended \in [CPU -> Reasons \cup {NoReason}]
  /\ tids \subseteq CPU /\ cpuFds \subseteq CPU
  /\ answer \in ErrorExits \cup {"ok", NoReason}

\* Memory, devices and sockets are released only after the last vCPU thread
\* has left the guest, on every way out of Boot.
MappedWhileRunning ==
  (\E c \in CPU : vpc[c] \in {"check", "enter", "run"}) => "memory" \in resources

\* A guest that powered off or was stopped is reported as clean and one that
\* failed as failed: the answer is the first reason that stopped the VM,
\* unless a vCPU stopped it before Start had finished.
AnswerIsFirstReason ==
  answer # NoReason /\ ~early =>
    answer = IF first \in ErrorExits THEN first ELSE "ok"

\* The invariant of the machine.
MachineSafe == KTypeOK /\ MappedWhileRunning /\ AnswerIsFirstReason

\* A VM that is told to stop returns from Boot: stopCh, the signal and the
\* closed descriptors together reach every thread, but for one that entered
\* KVM_RUN between the signal and the close.
Slipped == \E c \in CPU : stopper \in {"close", "done"} /\ vpc[c] = "run"
StoppedVMReturns == (stopErr # NoReason) ~> (boot = "returned" \/ Slipped)

\* "WaitUntilStopped ... returns ... an error (such as ErrGuestReset) when the
\* guest rebooted, crashed or a vCPU failed" (vm.go:635).
FailureIsReported ==
  answer = "ok" => \/ \E c \in CPU : ended[c] \in CleanExits
                   \/ sigs.taken > 0
=============================================================================
