---------------------------- MODULE ForwardsProofs ----------------------------
(***************************************************************************)
(* Theorems about the port-forward registry (Forwards).                    *)
(*                                                                         *)
(* A session is closed by whoever holds it, so the safety of the registry  *)
(* is a statement about ownership: which of the registry, the recovery's   *)
(* stack, the wait goroutines and a closing thread may refer to the same   *)
(* session at the same time.                                               *)
(***************************************************************************)
EXTENDS Forwards, FiniteSetTheorems, TLAPS

\* TypeOK but for the cardinality, which OnePort implies.
Types ==
    /\ kind \in Kinds
    /\ rec \in Insts \cup {NoRec, NoInst}
    /\ mode \in {"fg", "startup"}
    /\ stopped \in BOOLEAN
    /\ alive \subseteq Insts
    /\ registry \in Sessions \cup {None}
    /\ serves \in [Sessions -> Insts \cup {NoInst}]
    /\ bound \subseteq Sessions
    /\ path \in bound \cup {None}
    /\ done \subseteq Sessions
    /\ pc \in [Threads -> PC]
    /\ hand \in [Threads -> Sessions \cup {None}]
    /\ \A t \in Threads : pc[t] \in Closing => hand[t] # None
    /\ target \in Insts \cup {NoInst}
    /\ built \in Sessions \cup {None}
    /\ copy \in [{"tick", "recovery"} -> {"fg", "startup"}]
    /\ cli \in [inst : Insts \cup {NoInst}, session : Sessions \cup {None}]
    /\ boots \in 0..MaxBoots

\* A port has one listener.
OnePort == kind = "net" => \A s, t \in bound : s = t

\* Where each thread can be.
Positions ==
    /\ pc["tick"] \in {"idle", "lost", "dispatch"} \cup Closing
    /\ pc["main"] \in {"down", "rehydrate", "running", "draining", "exit"} \cup Closing
    /\ pc["recovery"] \in {"idle", "recover", "build", "add", "attach", "fgwait"} \cup Closing
    /\ \A i \in Insts : pc[i] \in {"idle", "wait"} \cup Closing

\* Only a closing thread and a waiting one hold a session.
HandsIdle == \A t \in Threads : pc[t] \notin Closing \cup {"wait"} => hand[t] = None

\* What the recovery goroutine has on its stack at each position; the container
\* it placed has no wait goroutine yet.
RecoveryStack ==
    /\ pc["recovery"] \in {"idle", "recover"} => target = NoInst
    /\ pc["recovery"] \in {"build", "add", "attach", "fgwait"} => target \in Insts
    /\ target = NoInst \/ pc["recovery"] = "build" => built = None
    /\ target \in Insts => pc[target] = "idle"

\* A session being closed is out of the registry, and its listener is closed
\* before its pool.
ClosingApart ==
    \A t \in Threads :
        /\ pc[t] \in Closing => hand[t] # registry
        /\ pc[t] \in {"check", "close"} => hand[t] \notin bound

\* Until it is registered or handed on, the session of a recovery is its own.
BuiltIsOwn ==
    pc["recovery"] \in {"add", "fgwait"} /\ built # None =>
        /\ built # registry
        /\ built \in bound \ done
        /\ \A t \in Threads : hand[t] # built

\* The daemon never has the session of a foreground run.
CLIApart ==
    cli.session # None =>
        /\ cli.session \notin {registry, built}
        /\ \A t \in Threads : hand[t] # cli.session

\* A wait goroutine has the session of its own container, and begins to close
\* it when the container is dead.
WaiterOwns ==
    /\ built # None => serves[built] = target
    /\ \A i \in Insts :
          /\ hand[i] # None => serves[hand[i]] = i
          /\ pc[i] \in Closing => i \notin alive

\* The inductive invariant.
ForwardsInv ==
    /\ Types /\ NoListenerLeaks /\ RegisteredIsOpen
    /\ OnePort /\ Positions /\ HandsIdle /\ RecoveryStack /\ ClosingApart
    /\ BuiltIsOwn /\ CLIApart /\ WaiterOwns

\* A set without two elements has at most one.
LEMMA AtMostOne ==
    ASSUME NEW B, \A s, t \in B : s = t
    PROVE  Cardinality(B) <= 1
<1>1. CASE B = {}
  BY <1>1, FS_EmptySet
<1>2. CASE B # {}
  <2>1. PICK s : s \in B
    BY <1>2
  <2>2. B = {s}
    BY <2>1
  <2>3. Cardinality(B) = 1
    BY <2>2, FS_Singleton
  <2>4. QED
    BY <2>3
<1>3. QED
  BY <1>1, <1>2

\* One listener per port is a set of at most one.
LEMMA InvImpliesSafe == ForwardsInv => ForwardsSafe
<1> SUFFICES ASSUME ForwardsInv PROVE ForwardsSafe
  OBVIOUS
<1>1. kind = "net" => Cardinality(bound) <= 1
  BY AtMostOne DEF ForwardsInv, OnePort
<1>2. TypeOK
  BY <1>1 DEF ForwardsInv, Types, TypeOK
<1>3. QED
  BY <1>2 DEF ForwardsInv, ForwardsSafe

\* Without daemon and containers the invariant holds.
LEMMA ForwardsInitial == Init => ForwardsInv
<1> SUFFICES ASSUME Init PROVE ForwardsInv
  OBVIOUS
<1> USE ForwardsAssumption DEF Init, Asleep, NoCLI
<1>0. stopped \in BOOLEAN
  BY Zenon
<1>1. Types
  BY <1>0 DEF Types, PC, Closing, Threads, Daemon
<1>2. QED
  BY <1>1 DEF ForwardsInv, NoListenerLeaks, RegisteredIsOpen, OnePort, Positions, HandsIdle,
              RecoveryStack, ClosingApart, BuiltIsOwn, CLIApart, WaiterOwns, Threads, Daemon, Closing

\* Every step of the daemon, of a command and of a container keeps the
\* invariant.
LEMMA ForwardsStep == ForwardsInv /\ [Next]_vars => ForwardsInv'
<1> SUFFICES ASSUME ForwardsInv, [Next]_vars PROVE ForwardsInv'
  OBVIOUS
<1> USE ForwardsAssumption
    DEF ForwardsInv, Types, NoListenerLeaks, RegisteredIsOpen, OnePort, Positions, HandsIdle,
        RecoveryStack, ClosingApart, BuiltIsOwn, CLIApart, WaiterOwns, Threads, Daemon, Closing, PC,
        Goto, Hold, store, sockets, threads
<1>1. CASE TickList
  BY <1>1 DEF TickList
<1>2. CASE TickStop
  BY <1>2 DEF TickStop, Take
<1>3. CASE TickDispatch
  BY <1>3 DEF TickDispatch
<1>4. CASE RecoverPlace
  BY <1>4 DEF RecoverPlace, FreshInst, InUse, Running
<1>5. CASE RecoverBuild
  BY <1>5 DEF RecoverBuild, CanBuild, Build, FreshSession, InUse
<1>6. CASE RecoverAdd
  BY <1>6 DEF RecoverAdd, Take
<1>7. CASE RecoverAttach
  BY <1>7 DEF RecoverAttach
<1>8. CASE RecoverEnds
  BY <1>8 DEF RecoverEnds, Take
<1>9. CASE Rehydrate
  BY <1>9 DEF Rehydrate, CanBuild, Build, FreshSession, InUse
<1>10. CASE StopAll
  BY <1>10 DEF StopAll, Take
<1>11. CASE DaemonStart
  BY <1>11 DEF DaemonStart
<1>12. CASE Terminate
  BY <1>12 DEF Terminate
<1>13. CASE DaemonExit
  BY <1>13 DEF DaemonExit, DaemonGone, Asleep
<1>14. CASE RunStartup
  <2>1. stopped' \in BOOLEAN
    BY <1>14, Zenon DEF RunStartup
  <2>2. QED
    BY <1>14, <2>1 DEF RunStartup, Running
<1>15. CASE RunBackground
  <2>1. stopped' \in BOOLEAN
    BY <1>15, Zenon DEF RunBackground
  <2>2. QED
    BY <1>15, <2>1 DEF RunBackground, FreshInst, InUse, Running
<1>16. CASE RunForeground
  <2>1. stopped' \in BOOLEAN
    BY <1>16, Zenon DEF RunForeground
  <2>2. QED
    BY <1>16, <2>1 DEF RunForeground, FreshInst, InUse, Running, NoCLI
<1>17. CASE CLIBuild
  BY <1>17 DEF CLIBuild, CanBuild, Build, FreshSession, InUse
<1>18. CASE CLIEnds
  BY <1>18 DEF CLIEnds, Unbind, NoCLI
<1>19. CASE Remove
  <2>1. stopped' \in BOOLEAN
    BY <1>19, Zenon DEF Remove
  <2>2. QED
    BY <1>19, <2>1 DEF Remove
<1>20. CASE StopCommand
  BY <1>20 DEF StopCommand
<1>21. ASSUME NEW i \in Insts, WaiterReturns(i) PROVE ForwardsInv'
  BY <1>21 DEF WaiterReturns, Take
<1>22. ASSUME NEW i \in Insts, InstDies(i) PROVE ForwardsInv'
  BY <1>22 DEF InstDies
<1>23. ASSUME NEW u \in Threads, CloseListener(u) PROVE ForwardsInv'
  BY <1>23 DEF CloseListener, Unbind
<1>24. ASSUME NEW u \in Threads, CloseLooks(u) PROVE ForwardsInv'
  BY <1>24 DEF CloseLooks, Resume
<1>25. ASSUME NEW u \in Threads, CloseDone(u) PROVE ForwardsInv'
  BY <1>25 DEF CloseDone, Resume, DaemonGone, Asleep
<1>26. CASE UNCHANGED vars
  BY <1>26 DEF vars
<1> HIDE DEF ForwardsInv
<1>27. QED
  BY <1>1, <1>2, <1>3, <1>4, <1>5, <1>6, <1>7, <1>8, <1>9, <1>10, <1>11, <1>12, <1>13, <1>14, <1>15, <1>16, <1>17, <1>18, <1>19, <1>20, <1>21, <1>22, <1>23, <1>24, <1>25, <1>26
  DEF Next, Tick, Recover, Waiter, Main, Command, Close

\* Sessions are well typed with one listener to a port, none is left without an
\* owner and a registered one works, for any number of containers, sessions and
\* daemon starts.
THEOREM ForwardsAreSafe == Spec => []ForwardsSafe
<1>1. QED
  BY ForwardsInitial, ForwardsStep, InvImpliesSafe, PTL DEF Spec

-------------------------------------------------------------------------------
\* Who may close a listener of a live container in one step.
Spares(s) ==
    serves[s] \in alive =>
       \/ s = cli.session
       \/ pc'["main"] = "down"
       \/ \E t \in Daemon : pc[t] = "stop" /\ hand[t] = s

\* Only three steps close listeners.
LEMMA ClosersAreKnown ==
    ASSUME ForwardsInv, [Next]_vars
    PROVE  \/ bound \subseteq bound'
           \/ \E t \in Threads : CloseListener(t)
           \/ DaemonGone
           \/ CLIEnds
<1> USE DEF store, sockets, threads
<1>1. CASE Tick
  BY <1>1 DEF Tick, TickList, TickStop, TickDispatch, Close, CloseLooks, CloseDone, Threads, Daemon
<1>2. CASE Recover
  BY <1>2 DEF Recover, RecoverPlace, RecoverBuild, RecoverAdd, RecoverAttach, RecoverEnds, Build,
              Close, CloseLooks, CloseDone, Threads, Daemon
<1>3. CASE Main
  BY <1>3 DEF Main, Rehydrate, StopAll, Build, Close, CloseLooks, CloseDone, Threads, Daemon
<1>4. CASE \E i \in Insts : Waiter(i) \/ InstDies(i)
  BY <1>4 DEF Waiter, WaiterReturns, InstDies, Close, CloseLooks, CloseDone, Threads
<1>5. CASE DaemonStart \/ Terminate \/ DaemonExit
  BY <1>5 DEF DaemonStart, Terminate, DaemonExit
<1>6. CASE Command
  BY <1>6 DEF Command, RunStartup, RunBackground, RunForeground, CLIBuild, Build, StopCommand, Remove
<1>7. CASE UNCHANGED vars
  BY <1>7 DEF vars
<1>8. QED
  BY <1>1, <1>2, <1>3, <1>4, <1>5, <1>6, <1>7 DEF Next

\* No wait goroutine takes the listener of a live container down: what closes
\* one is a daemon thread that took it out of the registry, the foreground run
\* it belongs to, or the end of the daemon.
THEOREM WaitersSpareTheLiving == Spec => WaitersSpareOthers
<1>1. ASSUME ForwardsInv, [Next]_vars, NEW s \in bound \ bound' PROVE Spares(s)
  <2>1. CASE \E t \in Threads : CloseListener(t)
    <3>1. PICK t \in Threads : CloseListener(t)
      BY <2>1
    <3>2. s = hand[t] /\ pc[t] = "stop"
      BY <3>1, <1>1 DEF CloseListener, Unbind
    <3>3. CASE t \in Daemon
      BY <3>2, <3>3 DEF Spares
    <3>4. CASE t \in Insts
      <4>1. hand[t] # None /\ serves[s] = t /\ t \notin alive
        <5>1. pc[t] \in Closing
          BY <3>2 DEF Closing
        <5>2. hand[t] # None /\ WaiterOwns
          BY <5>1, <1>1 DEF ForwardsInv, Types
        <5>3. QED
          BY <5>1, <5>2, <3>2, <3>4 DEF WaiterOwns
      <4>2. QED
        BY <4>1 DEF Spares
    <3>5. QED
      BY <3>3, <3>4 DEF Threads
  <2>2. CASE DaemonGone
    BY <2>2 DEF DaemonGone, Asleep, Spares, Threads, Daemon
  <2>3. CASE CLIEnds
    BY <2>3, <1>1 DEF CLIEnds, Unbind, Spares
  <2>4. QED
    BY <1>1, <2>1, <2>2, <2>3, ClosersAreKnown
<1>2. ForwardsInv /\ [Next]_vars => [\A s \in bound \ bound' : Spares(s)]_vars
  BY <1>1
<1>3. QED
  BY ForwardsInitial, ForwardsStep, <1>2, PTL DEF Spec, WaitersSpareOthers, Spares

===============================================================================
