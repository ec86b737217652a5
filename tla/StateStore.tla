------------------------------ MODULE StateStore ------------------------------
(***************************************************************************)
(* The container state store: one <name>.json file per container in the   *)
(* state directory, and the daemon's in-memory copy of them.              *)
(*                                                                         *)
(* The daemon sets a container under containerListMu (memory and file     *)
(* together); a CLI process posts to the daemon, or writes the file       *)
(* itself when it found no daemon or when the daemon does not answer.      *)
(* The daemon learns of files it did not write through an inotify queue    *)
(* and through reconcileState, which two goroutines run: the health check *)
(* ("health") and the watcher's supervisor ("supervisor").                 *)
(*                                                                         *)
(* A record stands for a Config: gen is its Generation, id numbers the     *)
(* write that produced it (a history value: no guard reads it), so two     *)
(* records are equal exactly when they come from the same write.           *)
(***************************************************************************)
EXTENDS Naturals, Sequences

CONSTANTS
    Names,            \* container names
    Clients,          \* CLI processes
    Absent,           \* no file, no entry, no pending read
    MaxWrites,        \* bound on the number of writes attempted
    MaxEvents,        \* capacity of the inotify queue
    DaemonMayCrash,   \* the daemon can be killed and started again
    WatcherMayDie,    \* inotify.New can fail, Watch can return an error
    TimeoutsHappen,   \* a call to a running daemon can pass daemonTimeout
    WritesMayFail     \* writing a state file can fail

Record == [gen : Nat, id : Nat]
Read == [name : Names, rec : Record]
Event == [name : Names, kind : {"load", "delete"}]
Reconcilers == {"health", "supervisor"}

ASSUME StoreAssumption ==
    /\ Absent \notin Record
    /\ Absent \notin Read
    /\ MaxWrites \in Nat
    /\ MaxEvents \in Nat
    /\ DaemonMayCrash \in BOOLEAN
    /\ WatcherMayDie \in BOOLEAN
    /\ TimeoutsHappen \in BOOLEAN
    /\ WritesMayFail \in BOOLEAN

VARIABLES
    disk,      \* the state directory: [Names -> Record or Absent]
    writes,    \* number of writes attempted so far
    up,        \* a daemon is running
    mem,       \* containerList, the daemon's in-memory list
    watcher,   \* superviseDiskEvents: "off", "new", "on", "drain", "recon"
    events,    \* events the watcher has not handled yet
    wread,     \* a file loadByEvent has read and not applied yet
    lost,      \* names of which the running daemon missed an event (history)
    rpc,       \* where each reconcileState call is
    rsnap,     \* its snapshot of the names in memory
    rdrop,     \* names it still has to drop
    radd,      \* names it still has to load
    rread,     \* a file it has read and not applied yet
    client,    \* CLI processes
    late       \* POSTs whose sender gave up waiting

daemonVars == <<up, mem, watcher, events, wread, lost>>
reconVars == <<rpc, rsnap, rdrop, radd, rread>>
vars == <<disk, writes, daemonVars, reconVars, client, late>>

NoClient == [pc |-> "idle", type |-> "none", name |-> Absent, gen |-> 0]
Client ==
    {NoClient} \union
    [pc : {"ready", "sent", "done", "bumped"}, type : {"disk", "server"},
     name : Names, gen : Nat]

\* Every variable has its type.
TypeOK ==
    /\ disk \in [Names -> Record \union {Absent}]
    /\ writes \in Nat
    /\ up \in BOOLEAN
    /\ mem \in [Names -> Record \union {Absent}]
    /\ watcher \in {"off", "new", "on", "drain", "recon"}
    /\ events \in Seq(Event)
    /\ wread \in Read \union {Absent}
    /\ lost \in SUBSET Names
    /\ rpc \in [Reconcilers -> {"idle", "readdir", "work"}]
    /\ rsnap \in [Reconcilers -> SUBSET Names]
    /\ rdrop \in [Reconcilers -> SUBSET Names]
    /\ radd \in [Reconcilers -> SUBSET Names]
    /\ rread \in [Reconcilers -> Read \union {Absent}]
    /\ client \in [Clients -> Client]
    /\ late \in SUBSET [name : Names, gen : Nat]
-------------------------------------------------------------------------------
\* fileGeneration: 0 for a missing file (and for one from before Generation).
Gen(rec) == IF rec = Absent THEN 0 ELSE rec.gen

MaxOf(a, b) == IF a >= b THEN a ELSE b

Present(f) == {n \in Names : f[n] # Absent}

\* The kernel queues an event only for a live watch with room in its queue.
Notify(n, kind) ==
    IF watcher = "on" /\ Len(events) < MaxEvents
    THEN /\ events' = Append(events, [name |-> n, kind |-> kind])
         /\ lost' = lost
    ELSE /\ events' = events
         /\ lost' = IF up THEN lost \union {n} ELSE lost

\* Mutant: the watch mask lacks IN_MOVED_TO, the rename into place is unseen.
WriteFileUnseen(n, rec) ==
    /\ disk' = [disk EXCEPT ![n] = rec]
    /\ UNCHANGED <<events, lost>>

\* writeStateFile: temp file and rename, so a reader sees the old file or the
\* new one. The temp file's own events are ignored (IsStateTempFile).
WriteFile(n, rec) ==
    /\ disk' = [disk EXCEPT ![n] = rec]
    /\ Notify(n, "load")

\* setContainerByMemory, all of it under containerListMu. A failed file
\* write is only logged.
SetByMemory(n, g) ==
    LET rec == [gen |-> MaxOf(g, MaxOf(Gen(mem[n]), Gen(disk[n]))) + 1,
                id |-> writes + 1]
    IN  /\ up
        /\ writes < MaxWrites
        /\ writes' = writes + 1
        /\ mem' = [mem EXCEPT ![n] = rec]
        /\ \/ WriteFile(n, rec)
           \/ WritesMayFail /\ UNCHANGED <<disk, events, lost>>
        /\ UNCHANGED <<up, watcher, wread, reconVars>>

\* Mutant: any different content replaces the entry.
NewerIfDifferent(rec, cur) == rec # cur

\* LoadFromDisk's rule for replacing an existing entry.
Newer(rec, cur) ==
    \/ rec.gen > cur.gen
    \/ rec.gen = 0 /\ cur.gen = 0 /\ rec # cur

\* Mutant: the entry is added without looking at the file again.
LoadFromDiskUnchecked(r) ==
    mem' = IF mem[r.name] # Absent => Newer(r.rec, mem[r.name])
           THEN [mem EXCEPT ![r.name] = r.rec]
           ELSE mem

\* LoadFromDisk: replace only by something newer; add only while the file
\* is still there.
LoadFromDisk(r) ==
    mem' = IF IF mem[r.name] # Absent
              THEN Newer(r.rec, mem[r.name])
              ELSE disk[r.name] # Absent
           THEN [mem EXCEPT ![r.name] = r.rec]
           ELSE mem

\* Mutant: a read error is not told apart from a read.
LoadFileNoError(n) == [name |-> n, rec |-> disk[n]]

\* LoadFile: what a read of the file gives, Absent when there is none.
LoadFile(n) ==
    IF disk[n] = Absent THEN Absent ELSE [name |-> n, rec |-> disk[n]]

DeleteContainer(n) == mem' = [mem EXCEPT ![n] = Absent]
-------------------------------------------------------------------------------
\* Before the first daemon start: files of earlier runs, some from before
\* Generation existed.
Init ==
    /\ disk \in [Names -> {Absent, [gen |-> 0, id |-> 0], [gen |-> 1, id |-> 0]}]
    /\ writes = 0
    /\ up = FALSE
    /\ mem = [n \in Names |-> Absent]
    /\ watcher = "off"
    /\ events = <<>>
    /\ wread = Absent
    /\ lost = {}
    /\ rpc = [r \in Reconcilers |-> "idle"]
    /\ rsnap = [r \in Reconcilers |-> {}]
    /\ rdrop = [r \in Reconcilers |-> {}]
    /\ radd = [r \in Reconcilers |-> {}]
    /\ rread = [r \in Reconcilers |-> Absent]
    /\ client = [c \in Clients |-> NoClient]
    /\ late = {}

\* containersInit in the daemon: the list starts as what is on disk. A file
\* written while it loads is one whose event comes before the watch exists.
DaemonStart ==
    /\ ~up
    /\ up' = TRUE
    /\ mem' = disk
    /\ watcher' = "new"
    /\ lost' = {}
    /\ UNCHANGED <<disk, writes, events, wread, reconVars, client, late>>

\* Memory, the kernel queue and every pending read die with the process.
DaemonCrash ==
    /\ DaemonMayCrash
    /\ up
    /\ up' = FALSE
    /\ mem' = [n \in Names |-> Absent]
    /\ watcher' = "off"
    /\ events' = <<>>
    /\ wread' = Absent
    /\ lost' = {}
    /\ rpc' = [r \in Reconcilers |-> "idle"]
    /\ rsnap' = [r \in Reconcilers |-> {}]
    /\ rdrop' = [r \in Reconcilers |-> {}]
    /\ radd' = [r \in Reconcilers |-> {}]
    /\ rread' = [r \in Reconcilers |-> Absent]
    /\ late' = {}
    /\ UNCHANGED <<disk, writes, client>>

\* A set by the daemon itself (recovery, a delegated run), from a new Config
\* or from a clone of the entry.
DaemonSet(n) ==
    /\ \E g \in {0, Gen(mem[n])} : SetByMemory(n, g)
    /\ UNCHANGED <<client, late>>

\* rm, or the end of a --rm container: the file is unlinked, the daemon's
\* entry is left to the Delete event.
RemoveFile(n) ==
    /\ disk[n] # Absent
    /\ disk' = [disk EXCEPT ![n] = Absent]
    /\ Notify(n, "delete")
    /\ UNCHANGED <<writes, up, mem, watcher, wread, reconVars, client, late>>
-------------------------------------------------------------------------------
(* CLI processes.                                                          *)

\* containersInit in a CLI process: the controller type is chosen once and
\* kept. The process works on a new Config or on one it has just read.
ClientStart(c, n) ==
    /\ client[c].pc = "idle"
    /\ \E type \in {IF up THEN "server" ELSE "disk"}
                     \union (IF TimeoutsHappen THEN {"disk"} ELSE {}) :
       \E g \in {0, IF type = "server" THEN Gen(mem[n]) ELSE Gen(disk[n])} :
          client' = [client EXCEPT ![c] =
                       [pc |-> "ready", type |-> type, name |-> n, gen |-> g]]
    /\ UNCHANGED <<disk, writes, daemonVars, reconVars, late>>

\* The process ends, or is killed, wherever it is.
ClientExit(c) ==
    /\ client[c].pc # "idle"
    /\ client' = [client EXCEPT ![c] = NoClient]
    /\ UNCHANGED <<disk, writes, daemonVars, reconVars, late>>

\* setContainerByServer: the request is on its way.
ClientPost(c) ==
    /\ client[c].pc = "ready"
    /\ client[c].type = "server"
    /\ up
    /\ client' = [client EXCEPT ![c].pc = "sent"]
    /\ UNCHANGED <<disk, writes, daemonVars, reconVars, late>>

\* The POST handler of serverMux.
DaemonServes(c) ==
    /\ client[c].pc = "sent"
    /\ SetByMemory(client[c].name, client[c].gen)
    /\ client' = [client EXCEPT ![c].pc = "done"]
    /\ UNCHANGED late

\* The reply arrives; it carries no generation back.
ClientReply(c) ==
    /\ client[c].pc = "done"
    /\ up
    /\ client' = [client EXCEPT ![c].pc = "ready"]
    /\ UNCHANGED <<disk, writes, daemonVars, reconVars, late>>

\* setContainerByDisk up to the write: read the file's generation, go above.
BumpGeneration(c) ==
    client' = [client EXCEPT
                 ![c].pc = "bumped",
                 ![c].gen = MaxOf(client[c].gen, Gen(disk[client[c].name])) + 1]

\* The daemon cannot be reached, or does not answer in time: the same state
\* goes to disk. A request already sent may still be served.
ClientFallback(c) ==
    /\ client[c].type = "server"
    /\ \/ ~up /\ client[c].pc \in {"ready", "sent", "done"}
       \/ TimeoutsHappen /\ client[c].pc \in {"sent", "done"}
    /\ late' = IF up /\ client[c].pc = "sent"
               THEN late \union {[name |-> client[c].name, gen |-> client[c].gen]}
               ELSE late
    /\ BumpGeneration(c)
    /\ UNCHANGED <<disk, writes, daemonVars, reconVars>>

\* The daemon gets to a request whose sender has given up.
LateServe(q) ==
    /\ SetByMemory(q.name, q.gen)
    /\ late' = late \ {q}
    /\ UNCHANGED client

\* setContainerByDisk in a process that found no daemon when it started.
ClientDiskSet(c) ==
    /\ client[c].pc = "ready"
    /\ client[c].type = "disk"
    /\ BumpGeneration(c)
    /\ UNCHANGED <<disk, writes, daemonVars, reconVars, late>>

\* setContainerByDisk, the write: nothing holds other processes off between
\* the read of the generation and this rename.
ClientRename(c) ==
    /\ client[c].pc = "bumped"
    /\ writes < MaxWrites
    /\ writes' = writes + 1
    /\ \/ WriteFile(client[c].name,
                    [gen |-> client[c].gen, id |-> writes + 1])
       \/ WritesMayFail /\ UNCHANGED <<disk, events, lost>>
    /\ client' = [client EXCEPT ![c].pc = "ready"]
    /\ UNCHANGED <<up, mem, watcher, wread, reconVars, late>>
-------------------------------------------------------------------------------
(* The watcher: inotify.Watcher, loadByEvent and its supervisor.           *)

\* inotify.New: from here on events are queued.
WatcherStart ==
    /\ watcher = "new"
    /\ watcher' = "on"
    /\ UNCHANGED <<disk, writes, up, mem, events, wread, lost, reconVars, client, late>>

WatcherStartFails ==
    /\ WatcherMayDie
    /\ watcher = "new"
    /\ watcher' = "recon"
    /\ UNCHANGED <<disk, writes, up, mem, events, wread, lost, reconVars, client, late>>

\* Watch returns: what the kernel still held is gone, what is in the channel
\* is handled before WatchStop.
WatcherDies ==
    /\ WatcherMayDie
    /\ watcher = "on"
    /\ watcher' = "drain"
    /\ \E k \in 0..Len(events) :
         /\ events' = SubSeq(events, 1, k)
         /\ lost' = lost \union {events[i].name : i \in (k+1)..Len(events)}
    /\ UNCHANGED <<disk, writes, up, mem, wread, reconVars, client, late>>

\* loadByEvent, actionLoad: read the file the event names.
WatcherRead ==
    /\ wread = Absent
    /\ events # <<>>
    /\ Head(events).kind = "load"
    /\ wread' = LoadFile(Head(events).name)
    /\ events' = Tail(events)
    /\ UNCHANGED <<disk, writes, up, mem, watcher, lost, reconVars, client, late>>

\* loadByEvent, actionLoad: apply what was read.
WatcherApply ==
    /\ wread # Absent
    /\ LoadFromDisk(wread)
    /\ wread' = Absent
    /\ UNCHANGED <<disk, writes, up, watcher, events, lost, reconVars, client, late>>

\* loadByEvent, actionDelete.
WatcherDelete ==
    /\ wread = Absent
    /\ events # <<>>
    /\ Head(events).kind = "delete"
    /\ DeleteContainer(Head(events).name)
    /\ events' = Tail(events)
    /\ UNCHANGED <<disk, writes, up, watcher, wread, lost, reconVars, client, late>>

\* loadByEvent returns on WatchStop.
WatcherStopped ==
    /\ watcher = "drain"
    /\ events = <<>>
    /\ wread = Absent
    /\ watcher' = "recon"
    /\ UNCHANGED <<disk, writes, up, mem, events, wread, lost, reconVars, client, late>>

Watcher ==
    \/ WatcherStart \/ WatcherRead \/ WatcherApply
    \/ WatcherDelete \/ WatcherStopped
-------------------------------------------------------------------------------
(* reconcileState.                                                         *)

\* The names in memory. The health check calls it on every tick, the
\* supervisor after the watcher exits.
ReconcileSnapshot(r) ==
    /\ up
    /\ rpc[r] = "idle"
    /\ r = "supervisor" => watcher = "recon"
    /\ rpc' = [rpc EXCEPT ![r] = "readdir"]
    /\ rsnap' = [rsnap EXCEPT ![r] = Present(mem)]
    /\ UNCHANGED <<disk, writes, daemonVars, rdrop, radd, rread, client, late>>

\* Mutants: the DROP half, or the ADD half, is missing.
ReconcileReadDirNoDrop(r) ==
    /\ rpc[r] = "readdir"
    /\ rpc' = [rpc EXCEPT ![r] = "work"]
    /\ radd' = [radd EXCEPT ![r] = Present(disk) \ rsnap[r]]
    /\ rsnap' = [rsnap EXCEPT ![r] = {}]
    /\ UNCHANGED <<disk, writes, daemonVars, rdrop, rread, client, late>>

ReconcileReadDirNoAdd(r) ==
    /\ rpc[r] = "readdir"
    /\ rpc' = [rpc EXCEPT ![r] = "work"]
    /\ rdrop' = [rdrop EXCEPT ![r] = rsnap[r] \ Present(disk)]
    /\ rsnap' = [rsnap EXCEPT ![r] = {}]
    /\ UNCHANGED <<disk, writes, daemonVars, radd, rread, client, late>>

\* The names on disk, and from the two sets what to drop and what to load.
ReconcileReadDir(r) ==
    /\ rpc[r] = "readdir"
    /\ rpc' = [rpc EXCEPT ![r] = "work"]
    /\ rdrop' = [rdrop EXCEPT ![r] = rsnap[r] \ Present(disk)]
    /\ radd' = [radd EXCEPT ![r] = Present(disk) \ rsnap[r]]
    /\ rsnap' = [rsnap EXCEPT ![r] = {}]
    /\ UNCHANGED <<disk, writes, daemonVars, rread, client, late>>

ReconcileDrop(r) ==
    /\ rpc[r] = "work"
    /\ \E n \in rdrop[r] :
         /\ DeleteContainer(n)
         /\ rdrop' = [rdrop EXCEPT ![r] = @ \ {n}]
    /\ UNCHANGED <<disk, writes, up, watcher, events, wread, lost,
                   rpc, rsnap, radd, rread, client, late>>

ReconcileLoad(r) ==
    /\ rpc[r] = "work"
    /\ rdrop[r] = {}
    /\ rread[r] = Absent
    /\ \E n \in radd[r] :
         /\ rread' = [rread EXCEPT ![r] = LoadFile(n)]
         /\ radd' = [radd EXCEPT ![r] = @ \ {n}]
    /\ UNCHANGED <<disk, writes, daemonVars, rpc, rsnap, rdrop, client, late>>

ReconcileApply(r) ==
    /\ rread[r] # Absent
    /\ LoadFromDisk(rread[r])
    /\ rread' = [rread EXCEPT ![r] = Absent]
    /\ UNCHANGED <<disk, writes, up, watcher, events, wread, lost,
                   rpc, rsnap, rdrop, radd, client, late>>

\* The supervisor then backs off and starts a new watcher.
ReconcileDone(r) ==
    /\ rpc[r] = "work"
    /\ rdrop[r] = {}
    /\ radd[r] = {}
    /\ rread[r] = Absent
    /\ rpc' = [rpc EXCEPT ![r] = "idle"]
    /\ watcher' = IF r = "supervisor" THEN "new" ELSE watcher
    /\ UNCHANGED <<disk, writes, up, mem, events, wread, lost,
                   rsnap, rdrop, radd, rread, client, late>>

Reconcile(r) ==
    \/ ReconcileSnapshot(r) \/ ReconcileReadDir(r) \/ ReconcileDrop(r)
    \/ ReconcileLoad(r) \/ ReconcileApply(r) \/ ReconcileDone(r)
-------------------------------------------------------------------------------
ClientStep(c) ==
    \/ \E n \in Names : ClientStart(c, n)
    \/ ClientExit(c) \/ ClientPost(c) \/ DaemonServes(c) \/ ClientReply(c)
    \/ ClientFallback(c) \/ ClientDiskSet(c) \/ ClientRename(c)

Next ==
    \/ DaemonStart \/ DaemonCrash
    \/ \E n \in Names : DaemonSet(n) \/ RemoveFile(n)
    \/ \E c \in Clients : ClientStep(c)
    \/ \E q \in late : LateServe(q)
    \/ Watcher \/ WatcherStartFails \/ WatcherDies
    \/ \E r \in Reconcilers : Reconcile(r)

Spec == Init /\ [][Next]_vars

\* Goroutines of a running daemon are scheduled, and the health check's
\* ticker keeps firing.
Fairness ==
    /\ WF_vars(Watcher)
    /\ \A r \in Reconcilers : WF_vars(Reconcile(r))

FairSpec == Spec /\ Fairness
-------------------------------------------------------------------------------
(* Properties.                                                             *)

InQueue(q, n, kind) == \E i \in 1..Len(q) : q[i] = [name |-> n, kind |-> kind]

Queued(n, kind) == InQueue(events, n, kind)

\* A watcher read that still reflects the file.
ReadPending(n) == wread # Absent /\ wread = [name |-> n, rec |-> disk[n]]

\* Memory never trails the file without the means to catch up: as long as
\* the daemon has missed no event for a name, an entry older than its file
\* has a load event queued, or the current file just read (loadByEvent,
\* LoadFromDisk).
UpdatePending ==
    \A n \in Names \ lost :
        mem[n] # Absent /\ disk[n] # Absent /\ mem[n].gen < disk[n].gen
            => Queued(n, "load") \/ ReadPending(n)

\* No ghost without a reaper: as long as the daemon has missed no event for a
\* name, an entry whose file is gone has its Delete event queued, so neither
\* a pending read nor a reconcile brings a removed container back
\* (LoadFromDisk's check of the file).
RemovalPending ==
    \A n \in Names \ lost :
        mem[n] # Absent /\ disk[n] = Absent => Queued(n, "delete")

\* While a container stays in memory its generation only grows, and content
\* changes only with it (files from before Generation aside): no file read,
\* however late, and no set takes the entry back (setContainerByMemory's
\* maximum, LoadFromDisk's comparison).
GenerationsMoveForward ==
    [][\A n \in Names :
         mem[n] # Absent /\ mem'[n] # Absent /\ mem'[n] # mem[n]
            => mem'[n].gen > mem[n].gen \/ mem'[n].gen + mem[n].gen = 0]_vars

\* A removed container leaves memory whatever happens to its Delete event
\* (reconcileState, DROP).
GhostsAreReaped ==
    \A n \in Names :
        (mem[n] # Absent /\ disk[n] = Absent)
            ~> (mem[n] = Absent \/ disk[n] # Absent)

\* A state file the daemon does not know gets loaded whatever happens to its
\* events (reconcileState, ADD).
UnknownFilesAreLoaded ==
    \A n \in Names :
        (up /\ mem[n] = Absent /\ disk[n] # Absent)
            ~> (~up \/ mem[n] # Absent \/ disk[n] = Absent)

\* What reconcileState's comment promises: memory converges to the state on
\* disk independent of inotify health.
MemoryConverges ==
    \A n \in Names :
        (up /\ mem[n] # Absent /\ disk[n] # Absent /\ mem[n] # disk[n])
            ~> (~up \/ mem[n] = disk[n] \/ mem[n] = Absent \/ disk[n] = Absent)

\* What setContainerByDisk's comment promises: a daemon that sees an external
\* write through its watcher takes it as newer, so with no event missed and
\* none left to handle, memory is what is on disk.
ExternalWritesAreNewer ==
    \A n \in Names \ lost :
        (/\ mem[n] # Absent /\ disk[n] # Absent
         /\ ~Queued(n, "load") /\ ~Queued(n, "delete") /\ wread = Absent
         /\ \A r \in Reconcilers : rread[r] = Absent)
            => mem[n] = disk[n]
===============================================================================
