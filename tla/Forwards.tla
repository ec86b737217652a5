------------------------------- MODULE Forwards -------------------------------
(***************************************************************************)
(* Port forwarding of one container with -p: the daemon's registry of      *)
(* sessions (host.Forwards), the threads that fill and empty it, and the   *)
(* foreground session of a CLI process, which is not in the registry.      *)
(*                                                                         *)
(* A session is a listener on the host and a pool of dialers inside the    *)
(* container's network namespace.  It is built by startForward, owned by   *)
(* whoever built it or took it out of the registry, and taken down by      *)
(* close, which is not atomic: it closes the listener and then, after      *)
(* looking whether somebody already did, the pool's done channel.          *)
(*                                                                         *)
(* Module Lifecycle has the record and the lock in detail; here a placement *)
(* is one step.                                                            *)
(***************************************************************************)
EXTENDS Naturals, FiniteSets

CONSTANTS
    Insts,      \* container processes
    Sessions,   \* forwardSession objects
    None,       \* nil
    NoRec,      \* no state record
    NoInst,     \* a record without a pid
    Kinds,      \* kinds of host endpoints: a port ("net") or a path ("unix")
    MaxBoots    \* bound on daemon starts

\* The daemon's health-check loop, its recovery goroutine and its main
\* goroutine; the wait goroutine of a container is named by the container.
Daemon == {"tick", "recovery", "main"}
Threads == Daemon \cup Insts

ASSUME ForwardsAssumption ==
    /\ Kinds \subseteq {"net", "unix"}
    /\ None \notin Sessions
    /\ {NoRec, NoInst} \cap Insts = {}
    /\ NoRec # NoInst
    /\ Daemon \cap Insts = {}
    /\ MaxBoots \in Nat

Closing == {"stop", "check", "close"}
PC == {"idle", "down", "rehydrate", "running", "draining", "exit",  \* main
       "lost", "dispatch",                                          \* tick
       "recover", "build", "add", "attach", "fgwait",               \* recovery
       "wait"}                                                      \* waiters
      \cup Closing

VARIABLES
    kind,       \* the kind of the container's host endpoint
    rec,        \* the record: its process
    mode,       \* the record's flags: "fg" or "startup"
    stopped,    \* the record's status is "stop"
    alive,      \* live container processes
    registry,   \* Forwards.sessions[name]
    serves,     \* per session: the container its dialers are in
    bound,      \* sessions whose listener is open
    path,       \* the session whose socket the path leads to (unix)
    done,       \* sessions whose done channel is closed
    pc, hand,   \* per thread: its position, and the session it holds
    target,     \* the container the recovery goroutine placed
    built,      \* the session it built
    copy,       \* mode in the Config that the tick (or the recovery) works on
    cli,        \* the foreground run: its container and its session
    boots       \* daemon starts so far

store == <<rec, mode, stopped>>
sockets == <<serves, bound, path, done>>
threads == <<pc, hand, target, built, copy>>
vars == <<kind, store, alive, registry, sockets, threads, cli, boots>>

TypeOK ==
    /\ kind \in Kinds
    /\ rec \in Insts \cup {NoRec, NoInst}
    /\ mode \in {"fg", "startup"}
    /\ stopped \in BOOLEAN
    /\ alive \subseteq Insts
    /\ registry \in Sessions \cup {None}
    /\ serves \in [Sessions -> Insts \cup {NoInst}]
    /\ bound \subseteq Sessions
    /\ kind = "net" => Cardinality(bound) <= 1
    /\ path \in bound \cup {None}
    /\ done \subseteq Sessions
    /\ pc \in [Threads -> PC]
    /\ hand \in [Threads -> Sessions \cup {None}]
    /\ \A t \in Threads : pc[t] \in Closing => hand[t] # None
    /\ target \in Insts \cup {NoInst}
    /\ built \in Sessions \cup {None}
    /\ copy \in [{"tick", "recovery"} -> {"fg", "startup"}]
    /\ cli \in [inst : Insts \cup {NoInst}, session : Sessions \cup {None}]
    /\ boots \in 0..MaxBoots

NoCLI == [inst |-> NoInst, session |-> None]
Asleep == [t \in Threads |-> IF t = "main" THEN "down" ELSE "idle"]

Init ==
    /\ kind \in Kinds
    /\ rec = NoRec /\ mode = "fg" /\ stopped = FALSE
    /\ alive = {}
    /\ registry = None
    /\ serves = [s \in Sessions |-> NoInst]
    /\ bound = {} /\ path = None /\ done = {}
    /\ pc = Asleep
    /\ hand = [t \in Threads |-> None]
    /\ target = NoInst
    /\ built = None
    /\ copy = [t \in {"tick", "recovery"} |-> "fg"]
    /\ cli = NoCLI
    /\ boots = 0
-------------------------------------------------------------------------------
(* Sessions.                                                               *)

Running(r) == r \in alive

Goto(t, where) == pc' = [pc EXCEPT ![t] = where]

Hold(t, s) == hand' = [hand EXCEPT ![t] = s]

InUse == bound \cup {registry, built, cli.session} \cup {hand[t] : t \in Threads}

FreshSession == Sessions \ InUse

FreshInst == Insts \ (alive \cup {rec, target, cli.inst} \cup {serves[s] : s \in InUse \ {None}}
                        \cup {i \in Insts : pc[i] # "idle"})

\* StartNetnsDialer enters the namespaces of a live process, and a port has one
\* listener; a path is unlinked and bound again.
CanBuild(i) == i \in alive /\ (kind = "net" => bound = {})

\* startForward: dialers, then listeners.
Build(s, i) ==
    /\ serves' = [serves EXCEPT ![s] = i]
    /\ bound' = bound \cup {s}
    /\ path' = IF kind = "unix" THEN s ELSE None
    /\ done' = done \ {s}

\* stop(): closing a listener for the first time unlinks its path, whoever is
\* bound to it now.
Unbind(s) ==
    /\ bound' = bound \ {s}
    /\ path' = IF s \in bound THEN None ELSE path

\* close() begins.
Take(t, s) == Goto(t, "stop") /\ Hold(t, s)

\* Where a thread goes on after close().
Resume(t) ==
    /\ Hold(t, None)
    /\ Goto(t, CASE t = "tick" -> "dispatch"
                 [] t = "main" -> "exit"
                 [] t = "recovery" /\ target # NoInst -> "attach"
                 [] OTHER -> "idle")

\* A daemon process ends: its threads and sockets go with it, the containers
\* stay.
DaemonGone ==
    /\ pc' = Asleep
    /\ hand' = [t \in Threads |-> None]
    /\ target' = NoInst /\ built' = None
    /\ copy' = [t \in {"tick", "recovery"} |-> "fg"]
    /\ registry' = None
    /\ bound' = bound \cap {cli.session}
    /\ path' = IF path = cli.session THEN path ELSE None
    /\ serves' = [s \in Sessions |-> IF s = cli.session THEN serves[s] ELSE NoInst]
    /\ done' = {}

\* close(): stop closes the listener ...
CloseListener(t) ==
    /\ pc[t] = "stop"
    /\ Unbind(hand[t])
    /\ Goto(t, "check")
    /\ UNCHANGED <<kind, store, alive, registry, serves, done, hand, target, built, copy,
                   cli, boots>>

\* ... and NetnsDialer.Close looks at the done channel ...
CloseLooks(t) ==
    /\ pc[t] = "check"
    /\ IF hand[t] \in done THEN Resume(t) ELSE Goto(t, "close") /\ UNCHANGED hand
    /\ UNCHANGED <<kind, store, alive, registry, sockets, target, built, copy, cli, boots>>

\* ... before it closes it; a second close panics.
CloseDone(t) ==
    /\ pc[t] = "close"
    /\ IF hand[t] \in done
         THEN DaemonGone
         ELSE /\ done' = done \cup {hand[t]}
              /\ Resume(t)
              /\ UNCHANGED <<registry, serves, bound, path, target, built, copy>>
    /\ UNCHANGED <<kind, store, alive, cli, boots>>

Close(t) == CloseListener(t) \/ CloseLooks(t) \/ CloseDone(t)
-------------------------------------------------------------------------------
(* The health check.                                                       *)

\* Mutant: only startup containers are looked at.
TickListStartup ==
    /\ pc["tick"] = "idle" /\ pc["main"] = "running"
    /\ rec # NoRec /\ mode = "startup"
    /\ ~Running(rec)
    /\ Goto("tick", "lost")
    /\ copy' = [copy EXCEPT !["tick"] = mode]
    /\ UNCHANGED <<kind, store, alive, registry, sockets, hand, target, built, cli, boots>>

\* The list of records is read and the process looked up.
TickList ==
    /\ pc["tick"] = "idle" /\ pc["main"] = "running"
    /\ rec # NoRec
    /\ ~Running(rec)
    /\ Goto("tick", "lost")
    /\ copy' = [copy EXCEPT !["tick"] = mode]
    /\ UNCHANGED <<kind, store, alive, registry, sockets, hand, target, built,
                   cli, boots>>

\* Mutant: Stop forgets to close what it found.
TickStopForgets ==
    /\ pc["tick"] = "lost"
    /\ registry' = None
    /\ Goto("tick", "dispatch")
    /\ UNCHANGED <<kind, store, alive, sockets, hand, target, built, copy, cli, boots>>

\* Forwards.Stop(cont.Name).
TickStop ==
    /\ pc["tick"] = "lost"
    /\ registry' = None
    /\ IF registry # None THEN Take("tick", registry)
                          ELSE Goto("tick", "dispatch") /\ UNCHANGED hand
    /\ UNCHANGED <<kind, store, alive, sockets, target, built, copy, cli, boots>>

\* dispatchRecovery, of a startup container with no recovery in flight.
TickDispatch ==
    /\ pc["tick"] = "dispatch"
    /\ pc' = [pc EXCEPT !["tick"] = "idle",
                        !["recovery"] = IF copy["tick"] = "startup" /\ @ = "idle" THEN "recover" ELSE @]
    /\ copy' = [copy EXCEPT !["tick"] = "fg"]
    /\ UNCHANGED <<kind, store, alive, registry, sockets, hand, target, built,
                   cli, boots>>
-------------------------------------------------------------------------------
(* Recovery: contRecover up to the publication of the pid, then the        *)
(* forwarding part of crun.                                                *)

RecoverPlace ==
    /\ pc["recovery"] = "recover"
    /\ IF rec = NoRec \/ stopped \/ Running(rec)
         THEN Goto("recovery", "idle") /\ UNCHANGED <<rec, alive, target, copy>>
         ELSE \E i \in FreshInst :
                /\ rec' = i /\ target' = i
                /\ alive' = alive \cup {i}
                /\ copy' = [copy EXCEPT !["recovery"] = mode]
                /\ Goto("recovery", "build")
    /\ UNCHANGED <<kind, mode, stopped, registry, sockets, hand, built, cli, boots>>

\* startForward; without a session the container runs unforwarded.
RecoverBuild ==
    /\ pc["recovery"] = "build"
    /\ IF CanBuild(target)
         THEN \E s \in FreshSession :
                Build(s, target) /\ built' = s /\ Goto("recovery", "add")
         ELSE Goto("recovery", "add") /\ UNCHANGED <<sockets, built>>
    /\ UNCHANGED <<kind, store, alive, registry, hand, target, copy, cli, boots>>

\* A background container's session goes to the registry (Forwards.Add); a
\* foreground one, which contRecover also restarts, keeps it on the stack.
RecoverAdd ==
    /\ pc["recovery"] = "add"
    /\ registry' = IF copy["recovery"] = "startup" /\ built # None THEN built ELSE registry
    /\ IF registry' # registry /\ registry # None
         THEN Take("recovery", registry)
         ELSE /\ Goto("recovery", IF copy["recovery"] = "startup" THEN "attach" ELSE "fgwait")
              /\ UNCHANGED hand
    /\ UNCHANGED <<kind, store, alive, sockets, target, built, copy, cli, boots>>

\* The wait goroutine starts and owns the session.
RecoverAttach ==
    /\ pc["recovery"] = "attach"
    /\ pc' = [pc EXCEPT !["recovery"] = "idle", ![target] = "wait"]
    /\ hand' = [hand EXCEPT ![target] = built]
    /\ target' = NoInst /\ built' = None
    /\ copy' = [copy EXCEPT !["recovery"] = "fg"]
    /\ UNCHANGED <<kind, store, alive, registry, sockets, cli, boots>>

\* The deferred close of a foreground container.
RecoverEnds ==
    /\ pc["recovery"] = "fgwait"
    /\ target \notin alive
    /\ IF built # None THEN Take("recovery", built)
                       ELSE Goto("recovery", "idle") /\ UNCHANGED hand
    /\ target' = NoInst /\ built' = None
    /\ copy' = [copy EXCEPT !["recovery"] = "fg"]
    /\ UNCHANGED <<kind, store, alive, registry, sockets, cli, boots>>

\* Mutant: the wait goroutine stops whatever the name has.
WaiterReturnsAny(i) ==
    /\ pc[i] = "wait"
    /\ i \notin alive
    /\ IF hand[i] = None \/ registry = None
         THEN Goto(i, "idle") /\ Hold(i, None) /\ UNCHANGED registry
         ELSE Take(i, registry) /\ registry' = None
    /\ UNCHANGED <<kind, store, alive, sockets, target, built, copy, cli, boots>>

\* Process.Wait returns: Forwards.Remove unregisters the session if it is still
\* the registered one, and closes it in any case.
WaiterReturns(i) ==
    /\ pc[i] = "wait"
    /\ i \notin alive
    /\ IF hand[i] = None
         THEN Goto(i, "idle") /\ UNCHANGED <<hand, registry>>
         ELSE /\ Take(i, hand[i])
              /\ registry' = IF registry = hand[i] THEN None ELSE registry
    /\ UNCHANGED <<kind, store, alive, sockets, target, built, copy, cli, boots>>
-------------------------------------------------------------------------------
(* Start and shutdown of the daemon.                                       *)

DaemonStart ==
    /\ pc["main"] = "down"
    /\ boots < MaxBoots
    /\ boots' = boots + 1
    /\ Goto("main", "rehydrate")
    /\ UNCHANGED <<kind, store, alive, registry, sockets, hand, target, built, copy, cli>>

\* RehydrateAllForwards, before the health check runs.
Rehydrate ==
    /\ pc["main"] = "rehydrate"
    /\ IF registry = None /\ rec \in Insts /\ CanBuild(rec)
         THEN \E s \in FreshSession : Build(s, rec) /\ registry' = s
         ELSE UNCHANGED <<sockets, registry>>
    /\ Goto("main", "running")
    /\ UNCHANGED <<kind, store, alive, hand, target, built, copy, cli, boots>>

\* SIGTERM: the health check leaves its loop, recoveries are waited for.
Terminate ==
    /\ pc["main"] = "running"
    /\ pc["tick"] = "idle"
    /\ Goto("main", "draining")
    /\ UNCHANGED <<kind, store, alive, registry, sockets, hand, target, built, copy,
                   cli, boots>>

\* beginShutdown has returned: Forwards.StopAll.
StopAll ==
    /\ pc["main"] = "draining"
    /\ pc["recovery"] = "idle"
    /\ registry' = None
    /\ IF registry # None THEN Take("main", registry)
                          ELSE Goto("main", "exit") /\ UNCHANGED hand
    /\ UNCHANGED <<kind, store, alive, sockets, target, built, copy, cli, boots>>

\* The process ends once its containers are down, or dies at any time.
DaemonExit ==
    /\ pc["main"] # "down"
    /\ DaemonGone
    /\ UNCHANGED <<kind, store, alive, cli, boots>>
-------------------------------------------------------------------------------
(* Containers and commands.                                                *)

InstDies(i) ==
    /\ i \in alive
    /\ alive' = alive \ {i}
    /\ UNCHANGED <<kind, store, registry, sockets, threads, cli, boots>>

\* run -d -startup with a daemon: the record only.
RunStartup ==
    /\ pc["main"] # "down"
    /\ ~Running(rec)
    /\ rec' = NoInst /\ mode' = "startup" /\ stopped' = FALSE
    /\ UNCHANGED <<kind, alive, registry, sockets, threads, cli, boots>>

\* run -d -startup without one: nothing can keep the session, which is closed
\* as soon as it is built.
RunBackground ==
    /\ pc["main"] = "down"
    /\ ~Running(rec)
    /\ \E i \in FreshInst : rec' = i /\ alive' = alive \cup {i}
    /\ mode' = "startup" /\ stopped' = FALSE
    /\ path' = None
    /\ UNCHANGED <<kind, registry, serves, bound, done, threads, cli, boots>>

\* run in the foreground ...
RunForeground ==
    /\ cli = NoCLI
    /\ ~Running(rec)
    /\ \E i \in FreshInst :
         /\ rec' = i /\ mode' = "fg" /\ stopped' = FALSE
         /\ alive' = alive \cup {i}
         /\ cli' = [NoCLI EXCEPT !.inst = i]
    /\ UNCHANGED <<kind, registry, sockets, threads, boots>>

\* ... with a session of its own ...
CLIBuild ==
    /\ cli.inst # NoInst /\ cli.session = None
    /\ CanBuild(cli.inst)
    /\ \E s \in FreshSession : Build(s, cli.inst) /\ cli' = [cli EXCEPT !.session = s]
    /\ UNCHANGED <<kind, store, alive, registry, threads, boots>>

\* ... until the container, or the command itself, ends.
CLIEnds ==
    /\ cli # NoCLI
    /\ IF cli.session # None THEN Unbind(cli.session) ELSE UNCHANGED <<bound, path>>
    /\ serves' = [s \in Sessions |-> IF s = cli.session THEN NoInst ELSE serves[s]]
    /\ cli' = NoCLI
    /\ UNCHANGED <<kind, store, alive, registry, done, threads, boots>>

Remove ==
    /\ rec # NoRec /\ ~Running(rec)
    /\ rec' = NoRec /\ mode' = "fg" /\ stopped' = FALSE
    /\ UNCHANGED <<kind, alive, registry, sockets, threads, cli, boots>>

\* stop of a container that is down.
StopCommand ==
    /\ rec # NoRec /\ ~Running(rec)
    /\ stopped' = TRUE
    /\ UNCHANGED <<kind, rec, mode, alive, registry, sockets, threads, cli, boots>>
-------------------------------------------------------------------------------
Tick == TickList \/ TickStop \/ TickDispatch \/ Close("tick")

Recover ==
    \/ RecoverPlace \/ RecoverBuild \/ RecoverAdd \/ RecoverAttach
    \/ RecoverEnds \/ Close("recovery")

Waiter(i) == WaiterReturns(i) \/ Close(i)

Main == Rehydrate \/ StopAll \/ Close("main")

Command == RunStartup \/ RunBackground \/ RunForeground \/ CLIBuild \/ CLIEnds \/ StopCommand \/ Remove

Next ==
    \/ Tick \/ Recover \/ Main
    \/ \E i \in Insts : Waiter(i) \/ InstDies(i)
    \/ DaemonStart \/ Terminate \/ DaemonExit
    \/ Command

Spec == Init /\ [][Next]_vars

\* Goroutines that can take a step take one; the ticker keeps firing.
Fairness ==
    /\ WF_vars(Tick) /\ WF_vars(Recover) /\ WF_vars(Main)
    /\ \A i \in Insts : WF_vars(Waiter(i))

FairSpec == Spec /\ Fairness
-------------------------------------------------------------------------------
(* Properties.                                                             *)

\* Every open listener has an owner that will close it: the registry, a thread
\* that holds it, or the foreground run ("port stuck in use", crun).
NoListenerLeaks ==
    \A s \in bound : s \in {registry, built, cli.session} \cup {hand[t] : t \in Threads}

\* What is registered works: nobody closes a session it has not taken out of
\* the registry first, so Has is a reason to build none.
RegisteredIsOpen == registry # None => registry \in bound \ done

\* Sessions are well typed (one listener per port, a path that leads to an open
\* one), none is left without an owner, and a registered one works, whatever
\* the health check, recoveries, wait goroutines, shutdown and crashes of the
\* daemon do to the registry (forward_registry.go).
ForwardsSafe == TypeOK /\ NoListenerLeaks /\ RegisteredIsOpen

\* A wait goroutine takes down no session but the one of its own, dead
\* container, also when a recovery has registered another meanwhile (Remove).
WaitersSpareOthers ==
    [][\A s \in bound \ bound' :
          serves[s] \in alive =>
             \/ s = cli.session
             \/ pc'["main"] = "down"
             \/ \E t \in Daemon : pc[t] = "stop" /\ hand[t] = s]_vars

\* The port of a container that is gone is released, unless the name runs again,
\* or is removed, before the next tick looks at it.
PortIsReleased ==
    \A s \in Sessions :
        (s \in bound /\ serves[s] \notin alive /\ pc["main"] = "running" /\ cli = NoCLI)
            ~> (s \notin bound \/ pc["main"] # "running" \/ cli # NoCLI
                  \/ rec = NoRec \/ Running(rec))

\* Refuted: close "releases all three exactly once": no second close of a done channel,
\* which would take the daemon down.
ClosedOnce == \A t \in Threads : pc[t] = "close" => hand[t] \notin done

\* A container the daemon has placed keeps its forwarding while it runs.
Forwarded ==
    \A i \in alive : (pc[i] = "wait" /\ pc["main"] = "running") =>
        \E s \in bound : serves[s] = i /\ (kind = "unix" => path = s)
=============================================================================
