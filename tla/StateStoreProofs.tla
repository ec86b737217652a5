--------------------------- MODULE StateStoreProofs ---------------------------
(***************************************************************************)
(* Proofs about StateStore, for any sets of names and CLI processes and     *)
(* any queue capacity.                                                      *)
(*                                                                         *)
(* UpdatePending is not inductive: a read that was overtaken by a write may *)
(* add an entry where there is none. WatcherReadAccounted and               *)
(* HealthReadAccounted say why that is safe, and the other conjuncts of     *)
(* UpdateInv why an entry that is up to date does not vanish while such a   *)
(* read is pending: a queued Delete has a load behind it when the file is   *)
(* back, and the supervisor reconciles only while no watch exists, so that  *)
(* whatever is written under its hands counts as missed.                    *)
(***************************************************************************)
EXTENDS StateStore, TLAPS

\* Nothing of the daemon outlives it.
DownIsEmpty ==
    ~up => /\ \A n \in Names : mem[n] = Absent
           /\ watcher = "off"
           /\ events = <<>>
           /\ wread = Absent
           /\ \A r \in Reconcilers : rpc[r] = "idle"

\* The supervisor reconciles after the watcher is gone; a reconcile loads
\* only after its drops, and does either only while it works.
ReconcileOrder ==
    /\ rpc["supervisor"] # "idle" => watcher = "recon"
    /\ \A r \in Reconcilers :
         /\ rpc[r] # "work" => rdrop[r] = {} /\ rread[r] = Absent
         /\ rread[r] # Absent => rdrop[r] = {}

\* Entry n is at least as new as its file.
UpToDate(n) == mem[n] # Absent /\ mem[n].gen >= disk[n].gen

Overtaken(rd) ==
    /\ rd # Absent
    /\ rd.name \notin lost
    /\ disk[rd.name] # Absent
    /\ rd.rec # disk[rd.name]

\* The write that overtook a read of the watcher is queued behind it.
WatcherReadAccounted == Overtaken(wread) => Queued(wread.name, "load")

\* The write that overtook a read of the health check is queued, just read
\* by the watcher, or already in memory.
HealthReadAccounted ==
    LET rd == rread["health"]
    IN  Overtaken(rd) => \/ Queued(rd.name, "load")
                         \/ ReadPending(rd.name)
                         \/ UpToDate(rd.name)

\* Behind a queued Delete of a file that exists again there is its load.
LoadBehindDelete ==
    \A n \in Names \ lost : \A i \in 1..Len(events) :
        disk[n] # Absent /\ events[i] = [name |-> n, kind |-> "delete"]
            => \E j \in 1..Len(events) :
                 j > i /\ events[j] = [name |-> n, kind |-> "load"]

\* What changes while the supervisor works on it is missed.
SupervisorAlone ==
    /\ ~Overtaken(rread["supervisor"])
    /\ \A n \in rdrop["supervisor"] : disk[n] # Absent => n \in lost

UpdateInv ==
    /\ TypeOK
    /\ DownIsEmpty
    /\ ReconcileOrder
    /\ WatcherReadAccounted
    /\ HealthReadAccounted
    /\ LoadBehindDelete
    /\ SupervisorAlone
    /\ UpdatePending

RemovalInv == TypeOK /\ DownIsEmpty /\ ReconcileOrder /\ RemovalPending
-------------------------------------------------------------------------------
\* The larger of two generations.
LEMMA MaxOfNat ==
    ASSUME NEW a \in Nat, NEW b \in Nat
    PROVE  MaxOf(a, b) \in Nat /\ MaxOf(a, b) >= a /\ MaxOf(a, b) >= b
  BY DEF MaxOf

\* The generation of a record, or of none, is a number.
LEMMA GenNat ==
    ASSUME NEW rec \in Record \union {Absent}
    PROVE  Gen(rec) \in Nat
  BY StoreAssumption DEF Gen, Record

\* A read gives a typed read, and exactly the file.
LEMMA LoadFileType ==
    ASSUME TypeOK, NEW n \in Names
    PROVE  LoadFile(n) \in Read \union {Absent}
  BY DEF LoadFile, Read, TypeOK

\* Applying a typed read keeps memory typed.
LEMMA LoadFromDiskType ==
    ASSUME TypeOK, NEW rd \in Read, LoadFromDisk(rd)
    PROVE  mem' \in [Names -> Record \union {Absent}]
  BY DEF LoadFromDisk, Read, TypeOK

\* Queueing an event loses none that is already queued, and the new one is
\* queued or recorded as lost.
LEMMA NotifyFacts ==
    ASSUME TypeOK, NEW n \in Names, NEW kind \in {"load", "delete"},
           Notify(n, kind)
    PROVE  /\ events' \in Seq(Event)
           /\ lost' \in SUBSET Names
           /\ lost \subseteq lost'
           /\ \A m \in Names, k \in {"load", "delete"} : Queued(m, k) => Queued(m, k)'
           /\ up /\ n \notin lost' => Queued(n, kind)'
           /\ watcher # "on" => events' = events
<1> DEFINE e == [name |-> n, kind |-> kind]
<1>1. e \in Event /\ events \in Seq(Event) /\ lost \subseteq Names
  BY DEF Event, TypeOK
<1>2. CASE watcher = "on" /\ Len(events) < MaxEvents
  <2>1. events' = Append(events, e) /\ lost' = lost
    BY <1>2 DEF Notify
  <2>2. /\ events' \in Seq(Event)
        /\ Len(events') = Len(events) + 1
        /\ \A i \in 1..Len(events) : events'[i] = events[i]
        /\ events'[Len(events) + 1] = e
        /\ Len(events) \in Nat
    BY <1>1, <2>1
  <2>3. Queued(n, kind)'
    BY <2>2 DEF Queued, InQueue
  <2>4. ASSUME NEW m \in Names, NEW k \in {"load", "delete"}, Queued(m, k)
        PROVE  Queued(m, k)'
    BY <2>2, <2>4 DEF Queued, InQueue
  <2> QED BY <1>1, <1>2, <2>1, <2>2, <2>3, <2>4
<1>3. CASE ~(watcher = "on" /\ Len(events) < MaxEvents)
  <2>1. events' = events /\ lost' = IF up THEN lost \union {n} ELSE lost
    BY <1>3 DEF Notify
  <2>2. \A m, k : Queued(m, k) => Queued(m, k)'
    BY <2>1 DEF Queued, InQueue
  <2> QED BY <1>1, <2>1, <2>2
<1> QED BY <1>2, <1>3

\* Taking the head off the queue takes no other event away.
LEMMA TailFacts ==
    ASSUME events \in Seq(Event), events # <<>>, events' = Tail(events)
    PROVE  /\ Head(events) \in Event
           /\ events' \in Seq(Event)
           /\ \A m \in Names, k \in {"load", "delete"} :
                Queued(m, k) /\ Head(events) # [name |-> m, kind |-> k]
                    => Queued(m, k)'
<1>1. /\ Len(events) \in Nat \ {0}
      /\ Head(events) = events[1]
      /\ Len(events') = Len(events) - 1
      /\ \A i \in 1..(Len(events) - 1) : events'[i] = events[i + 1]
      /\ events' \in Seq(Event)
      /\ events[1] \in Event
  OBVIOUS
<1>2. ASSUME NEW m \in Names, NEW k \in {"load", "delete"},
             Queued(m, k), Head(events) # [name |-> m, kind |-> k]
      PROVE  Queued(m, k)'
  <2>1. PICK i \in 1..Len(events) : events[i] = [name |-> m, kind |-> k]
    BY <1>2 DEF Queued, InQueue
  <2>2. i # 1
    BY <1>1, <1>2, <2>1
  <2>3. i - 1 \in 1..Len(events') /\ events'[i - 1] = events[i]
    BY <1>1, <2>2
  <2> QED BY <2>1, <2>3 DEF Queued, InQueue
<1> QED BY <1>1, <1>2
-------------------------------------------------------------------------------
(* Type correctness.                                                       *)

\* Set writes a typed record, under the daemon's mutex.
LEMMA SetByMemoryType ==
    ASSUME TypeOK, NEW n \in Names, NEW g \in Nat, SetByMemory(n, g)
    PROVE  /\ disk' \in [Names -> Record \union {Absent}]
           /\ mem' \in [Names -> Record \union {Absent}]
           /\ writes' \in Nat
           /\ events' \in Seq(Event)
           /\ lost' \in SUBSET Names
<1> DEFINE rec == [gen |-> MaxOf(g, MaxOf(Gen(mem[n]), Gen(disk[n]))) + 1,
                   id |-> writes + 1]
<1>1. rec \in Record
  <2>1. Gen(mem[n]) \in Nat /\ Gen(disk[n]) \in Nat
    BY GenNat DEF TypeOK
  <2>2. MaxOf(g, MaxOf(Gen(mem[n]), Gen(disk[n]))) \in Nat
    BY <2>1, MaxOfNat
  <2> QED BY <2>2 DEF Record, TypeOK
<1>2. mem' = [mem EXCEPT ![n] = rec] /\ writes' = writes + 1
  BY DEF SetByMemory
<1> HIDE DEF rec
<1>3. CASE WriteFile(n, rec)
  BY <1>1, <1>2, <1>3, NotifyFacts DEF WriteFile, TypeOK
<1>4. CASE UNCHANGED <<disk, events, lost>>
  BY <1>1, <1>2, <1>4 DEF TypeOK
<1> QED BY <1>3, <1>4 DEF SetByMemory, rec

\* The initial states are well typed.
LEMMA TypeInit == Init => TypeOK
<1> SUFFICES ASSUME Init PROVE TypeOK
  OBVIOUS
<1>1. [gen |-> 0, id |-> 0] \in Record /\ [gen |-> 1, id |-> 0] \in Record
  BY DEF Record
<1>2. disk \in [Names -> Record \union {Absent}] /\ mem \in [Names -> Record \union {Absent}]
  BY <1>1 DEF Init
<1>3. /\ rpc \in [Reconcilers -> {"idle", "readdir", "work"}]
      /\ rsnap \in [Reconcilers -> SUBSET Names]
      /\ rdrop \in [Reconcilers -> SUBSET Names]
      /\ radd \in [Reconcilers -> SUBSET Names]
      /\ rread \in [Reconcilers -> Read \union {Absent}]
      /\ events \in Seq(Event)
      /\ client \in [Clients -> Client]
  BY DEF Init, Client
<1> QED BY <1>2, <1>3 DEF Init, TypeOK

\* The steps of a client keep the types.
LEMMA ClientStepType ==
    ASSUME TypeOK, NEW c \in Clients, ClientStep(c)
    PROVE  TypeOK'
<1> USE DEF daemonVars, reconVars
<1>0. client[c] \in Client
  BY DEF TypeOK
<1>1. ASSUME NEW n \in Names, ClientStart(c, n) PROVE TypeOK'
  <2>1. Gen(mem[n]) \in Nat /\ Gen(disk[n]) \in Nat
    BY GenNat DEF TypeOK
  <2> QED BY <1>1, <2>1 DEF ClientStart, TypeOK, Client
<1>2. CASE ClientExit(c)
  BY <1>2 DEF ClientExit, TypeOK, Client
<1>3. ASSUME client[c].pc # "idle"
      PROVE  /\ client[c].pc \in {"ready", "sent", "done", "bumped"}
             /\ client[c].type \in {"disk", "server"}
             /\ client[c].name \in Names
             /\ client[c].gen \in Nat
             /\ Gen(disk[client[c].name]) \in Nat
             /\ client[c] \in [pc : {"ready", "sent", "done", "bumped"},
                               type : {"disk", "server"}, name : Names, gen : Nat]
  BY <1>0, <1>3, GenNat DEF Client, NoClient, TypeOK
<1>4. CASE ClientPost(c) \/ ClientReply(c)
  BY <1>3, <1>4, SMTT(30) DEF ClientPost, ClientReply, TypeOK, Client
<1>5. CASE DaemonServes(c)
  BY <1>3, <1>5, SetByMemoryType DEF DaemonServes, SetByMemory, TypeOK, Client
<1>6. ASSUME client[c].pc # "idle", BumpGeneration(c)
      PROVE  client' \in [Clients -> Client]
  <2>0. MaxOf(client[c].gen, Gen(disk[client[c].name])) \in Nat
    BY <1>3, <1>6, MaxOfNat
  <2>1. MaxOf(client[c].gen, Gen(disk[client[c].name])) + 1 \in Nat
    BY <2>0
  <2> QED BY <1>3, <1>6, <2>1 DEF BumpGeneration, TypeOK, Client
<1>7. CASE ClientFallback(c)
  <2>1. client[c].pc # "idle"
    BY <1>7 DEF ClientFallback
  <2>2. late' \in SUBSET [name : Names, gen : Nat]
    BY <1>3, <1>7, <2>1 DEF ClientFallback, TypeOK
  <2> QED BY <1>6, <1>7, <2>1, <2>2 DEF ClientFallback, TypeOK
<1>8. CASE ClientDiskSet(c)
  BY <1>6, <1>8 DEF ClientDiskSet, TypeOK
<1>9. CASE ClientRename(c)
  <2> DEFINE rec == [gen |-> client[c].gen, id |-> writes + 1]
  <2>1. /\ client[c].pc # "idle"
        /\ client' = [client EXCEPT ![c].pc = "ready"]
        /\ writes' = writes + 1
        /\ WriteFile(client[c].name, rec) \/ UNCHANGED <<disk, events, lost>>
    BY <1>9 DEF ClientRename
  <2>2. rec \in Record /\ client' \in [Clients -> Client] /\ writes' \in Nat
    BY <1>3, <2>1 DEF Record, TypeOK, Client
  <2> HIDE DEF rec
  <2>3. disk' \in [Names -> Record \union {Absent}]
    BY <1>3, <2>1, <2>2 DEF WriteFile, TypeOK
  <2>4. events' \in Seq(Event) /\ lost' \in SUBSET Names
    BY <1>3, <2>1, NotifyFacts DEF WriteFile, TypeOK
  <2> QED BY <1>9, <2>2, <2>3, <2>4 DEF ClientRename, TypeOK
<1> QED BY <1>1, <1>2, <1>4, <1>5, <1>7, <1>8, <1>9 DEF ClientStep

\* Every step keeps the types.
LEMMA TypeStep == TypeOK /\ [Next]_vars => TypeOK'
<1> SUFFICES ASSUME TypeOK, [Next]_vars PROVE TypeOK'
  OBVIOUS
<1> USE DEF daemonVars, reconVars
<1>1. CASE DaemonStart
  BY <1>1 DEF DaemonStart, TypeOK
<1>2. CASE DaemonCrash
  <2>1. /\ mem' \in [Names -> Record \union {Absent}]
        /\ rread' \in [Reconcilers -> Read \union {Absent}]
        /\ events' \in Seq(Event)
    BY <1>2 DEF DaemonCrash
  <2>2. /\ rpc' \in [Reconcilers -> {"idle", "readdir", "work"}]
        /\ rsnap' \in [Reconcilers -> SUBSET Names]
        /\ rdrop' \in [Reconcilers -> SUBSET Names]
        /\ radd' \in [Reconcilers -> SUBSET Names]
    BY <1>2 DEF DaemonCrash
  <2> QED BY <1>2, <2>1, <2>2 DEF DaemonCrash, TypeOK
<1>3. ASSUME NEW n \in Names, DaemonSet(n) PROVE TypeOK'
  <2>1. PICK g \in {0, Gen(mem[n])} : SetByMemory(n, g)
    BY <1>3 DEF DaemonSet
  <2>2. g \in Nat
    BY GenNat DEF TypeOK
  <2> QED BY <1>3, <2>1, <2>2, SetByMemoryType DEF DaemonSet, SetByMemory, TypeOK
<1>4. ASSUME NEW n \in Names, RemoveFile(n) PROVE TypeOK'
  BY <1>4, NotifyFacts DEF RemoveFile, TypeOK
<1>5. ASSUME NEW c \in Clients, ClientStep(c) PROVE TypeOK'
  BY <1>5, ClientStepType
<1>6. ASSUME NEW q \in late, LateServe(q) PROVE TypeOK'
  <2>1. q.name \in Names /\ q.gen \in Nat
    BY DEF TypeOK
  <2> QED BY <1>6, <2>1, SetByMemoryType DEF LateServe, SetByMemory, TypeOK
<1>7. CASE Watcher \/ WatcherStartFails \/ WatcherDies
  <2>1. CASE WatcherStart \/ WatcherStartFails \/ WatcherStopped
    BY <2>1 DEF WatcherStart, WatcherStartFails, WatcherStopped, TypeOK
  <2>2. CASE WatcherRead
    <3>1. Head(events) \in Event /\ events' \in Seq(Event)
      BY <2>2, TailFacts DEF WatcherRead, TypeOK
    <3>2. wread' \in Read \union {Absent}
      BY <2>2, <3>1, LoadFileType DEF WatcherRead, Event
    <3> QED BY <2>2, <3>1, <3>2 DEF WatcherRead, TypeOK
  <2>3. CASE WatcherApply
    BY <2>3, LoadFromDiskType DEF WatcherApply, TypeOK
  <2>4. CASE WatcherDelete
    <3>1. Head(events) \in Event /\ events' \in Seq(Event)
      BY <2>4, TailFacts DEF WatcherDelete, TypeOK
    <3> QED BY <2>4, <3>1 DEF WatcherDelete, DeleteContainer, TypeOK, Event
  <2>5. CASE WatcherDies
    <3>1. PICK k \in 0..Len(events) :
            /\ events' = SubSeq(events, 1, k)
            /\ lost' = lost \union {events[i].name : i \in (k+1)..Len(events)}
      BY <2>5 DEF WatcherDies
    <3>2. events' \in Seq(Event)
      BY <3>1 DEF TypeOK
    <3>3. ASSUME NEW i \in (k+1)..Len(events) PROVE events[i].name \in Names
      <4>1. i \in 1..Len(events)
        BY DEF TypeOK
      <4>2. events[i] \in Event
        BY <4>1 DEF TypeOK
      <4> QED BY <4>2 DEF Event
    <3>4. lost' \in SUBSET Names
      BY <3>1, <3>3 DEF TypeOK
    <3> QED BY <2>5, <3>2, <3>4 DEF WatcherDies, TypeOK
  <2> QED BY <1>7, <2>1, <2>2, <2>3, <2>4, <2>5 DEF Watcher
<1>8. ASSUME NEW r \in Reconcilers, Reconcile(r) PROVE TypeOK'
  <2>1. CASE ReconcileSnapshot(r)
    BY <2>1 DEF ReconcileSnapshot, Present, TypeOK
  <2>2. CASE ReconcileReadDir(r)
    BY <2>2 DEF ReconcileReadDir, Present, TypeOK
  <2>3. CASE ReconcileDrop(r)
    BY <2>3 DEF ReconcileDrop, DeleteContainer, TypeOK
  <2>4. CASE ReconcileLoad(r)
    <3>1. PICK n \in radd[r] : /\ rread' = [rread EXCEPT ![r] = LoadFile(n)]
                               /\ radd' = [radd EXCEPT ![r] = @ \ {n}]
      BY <2>4 DEF ReconcileLoad
    <3>2. LoadFile(n) \in Read \union {Absent}
      BY LoadFileType DEF TypeOK
    <3> QED BY <2>4, <3>1, <3>2 DEF ReconcileLoad, TypeOK
  <2>5. CASE ReconcileApply(r)
    <3>1. rread[r] \in Read
      BY <2>5 DEF ReconcileApply, TypeOK
    <3> QED BY <2>5, <3>1, LoadFromDiskType DEF ReconcileApply, TypeOK
  <2>6. CASE ReconcileDone(r)
    BY <2>6 DEF ReconcileDone, TypeOK
  <2> QED BY <1>8, <2>1, <2>2, <2>3, <2>4, <2>5, <2>6 DEF Reconcile
<1>9. CASE UNCHANGED vars
  BY <1>9 DEF vars, TypeOK
<1> QED BY <1>1, <1>2, <1>3, <1>4, <1>5, <1>6, <1>7, <1>8, <1>9 DEF Next

\* Every reachable state is typed: no read, event or client request ever
\* carries something LoadFromDisk or SetContainer could not take.
THEOREM TypeCorrect == Spec => []TypeOK
  BY TypeInit, TypeStep, PTL DEF Spec
-------------------------------------------------------------------------------
(* UpdatePending.                                                          *)

\* A daemon that is down has no memory and no queue.
LEMMA DownStep ==
    ASSUME TypeOK, DownIsEmpty, ReconcileOrder, [Next]_vars
    PROVE  DownIsEmpty'
<1> SUFFICES ASSUME ~up' PROVE DownIsEmpty'
  BY DEF DownIsEmpty
<1> USE DEF daemonVars, reconVars
<1>1. CASE DaemonStart \/ DaemonCrash
  BY <1>1 DEF DaemonStart, DaemonCrash, DownIsEmpty
<1>2. ASSUME NEW n \in Names, DaemonSet(n) \/ RemoveFile(n) PROVE DownIsEmpty'
  BY <1>2 DEF DaemonSet, SetByMemory, RemoveFile, Notify, DownIsEmpty
<1>3. ASSUME NEW c \in Clients, ClientStep(c) PROVE DownIsEmpty'
  <2>1. CASE ClientRename(c)
    BY <2>1 DEF ClientRename, WriteFile, Notify, DownIsEmpty
  <2>2. CASE DaemonServes(c)
    BY <2>2 DEF DaemonServes, SetByMemory
  <2> QED BY <1>3, <2>1, <2>2
        DEF ClientStep, ClientStart, ClientExit, ClientPost, ClientReply,
            ClientFallback, ClientDiskSet, DownIsEmpty
<1>4. ASSUME NEW q \in late, LateServe(q) PROVE DownIsEmpty'
  BY <1>4 DEF LateServe, SetByMemory
<1>5. CASE Watcher \/ WatcherStartFails \/ WatcherDies
  BY <1>5 DEF Watcher, WatcherStartFails, WatcherDies, WatcherStart, WatcherRead,
              WatcherApply, WatcherDelete, WatcherStopped, DownIsEmpty
<1>6. ASSUME NEW r \in Reconcilers, Reconcile(r) PROVE DownIsEmpty'
  BY <1>6 DEF Reconcile, ReconcileSnapshot, ReconcileReadDir, ReconcileDrop,
              ReconcileLoad, ReconcileApply, ReconcileDone, DownIsEmpty,
              ReconcileOrder
<1>7. CASE UNCHANGED vars
  BY <1>7 DEF vars, DownIsEmpty
<1> QED BY <1>1, <1>2, <1>3, <1>4, <1>5, <1>6, <1>7 DEF Next

\* Every step keeps the order of a reconcile.
LEMMA OrderStep ==
    ASSUME TypeOK, DownIsEmpty, ReconcileOrder, [Next]_vars
    PROVE  ReconcileOrder'
<1> USE DEF daemonVars, reconVars
<1>1. CASE DaemonStart \/ DaemonCrash
  <2>1. CASE DaemonStart
    BY <2>1 DEF DaemonStart, DownIsEmpty, ReconcileOrder, Reconcilers
  <2>2. CASE DaemonCrash
    BY <2>2 DEF DaemonCrash, ReconcileOrder, Reconcilers
  <2> QED BY <1>1, <2>1, <2>2
<1>2. ASSUME NEW n \in Names, DaemonSet(n) \/ RemoveFile(n) PROVE ReconcileOrder'
  BY <1>2 DEF DaemonSet, SetByMemory, RemoveFile, ReconcileOrder
<1>3. ASSUME NEW c \in Clients, ClientStep(c) PROVE ReconcileOrder'
  BY <1>3 DEF ClientStep, ClientStart, ClientExit, ClientPost, DaemonServes,
              SetByMemory, ClientReply, ClientFallback, ClientDiskSet,
              ClientRename, ReconcileOrder
<1>4. ASSUME NEW q \in late, LateServe(q) PROVE ReconcileOrder'
  BY <1>4 DEF LateServe, SetByMemory, ReconcileOrder
<1>5. CASE Watcher \/ WatcherStartFails \/ WatcherDies
  BY <1>5 DEF Watcher, WatcherStartFails, WatcherDies, WatcherStart, WatcherRead,
              WatcherApply, WatcherDelete, WatcherStopped, ReconcileOrder
<1>6. ASSUME NEW r \in Reconcilers, Reconcile(r) PROVE ReconcileOrder'
  <2>1. CASE ReconcileSnapshot(r) \/ ReconcileReadDir(r)
    BY <2>1 DEF ReconcileSnapshot, ReconcileReadDir, ReconcileOrder, TypeOK, Reconcilers
  <2>2. CASE ReconcileDrop(r)
    BY <2>2 DEF ReconcileDrop, ReconcileOrder, TypeOK, Reconcilers
  <2>3. CASE ReconcileLoad(r)
    BY <2>3 DEF ReconcileLoad, ReconcileOrder, TypeOK, Reconcilers
  <2>4. CASE ReconcileApply(r) \/ ReconcileDone(r)
    BY <2>4 DEF ReconcileApply, ReconcileDone, ReconcileOrder, TypeOK, Reconcilers
  <2> QED BY <1>6, <2>1, <2>2, <2>3, <2>4 DEF Reconcile
<1>7. CASE UNCHANGED vars
  BY <1>7 DEF vars, ReconcileOrder
<1> QED BY <1>1, <1>2, <1>3, <1>4, <1>5, <1>6, <1>7 DEF Next

\* The conjuncts of UpdateInv about what is queued and what is pending.
Core ==
    /\ WatcherReadAccounted
    /\ HealthReadAccounted
    /\ LoadBehindDelete
    /\ SupervisorAlone
    /\ UpdatePending

\* Steps that touch none of the state Core speaks of.
LEMMA CoreStutter ==
    ASSUME Core, UNCHANGED <<disk, mem, events, wread, lost, rdrop, rread>>
    PROVE  Core'
  BY DEF Core, WatcherReadAccounted, HealthReadAccounted, LoadBehindDelete,
         SupervisorAlone, UpdatePending, Overtaken, Queued, InQueue,
         ReadPending, UpToDate

\* A daemon without entries, events and reads, or with exactly what is on
\* disk.
LEMMA CoreFresh ==
    ASSUME TypeOK', events' = <<>>, wread' = Absent,
           \A r \in Reconcilers : rread'[r] = Absent /\ rdrop'[r] = {},
           \/ mem' = [n \in Names |-> Absent]
           \/ mem' = disk'
    PROVE  Core'
<1>1. Len(events') = 0
  OBVIOUS
<1>2. \A n \in Names : mem'[n] # Absent /\ disk'[n] # Absent
                        => ~(mem'[n].gen < disk'[n].gen)
  BY DEF TypeOK, Record
<1> QED BY <1>1, <1>2
      DEF Core, WatcherReadAccounted, HealthReadAccounted, LoadBehindDelete,
          SupervisorAlone, UpdatePending, Overtaken, Reconcilers

\* A file is written or removed while the daemon runs, and perhaps the entry
\* set with it.
LEMMA CoreDiskChange ==
    ASSUME TypeOK, TypeOK', ReconcileOrder, Core, up,
           NEW n \in Names, NEW rec \in Record \union {Absent},
           disk' = [disk EXCEPT ![n] = rec],
           Notify(n, IF rec = Absent THEN "delete" ELSE "load"),
           \A m \in Names \ {n} : mem'[m] = mem[m],
           mem'[n] = mem[n] \/ mem'[n] = rec,
           UNCHANGED <<wread, rread, rdrop>>
    PROVE  Core'
<1> DEFINE kind == IF rec = Absent THEN "delete" ELSE "load"
           e == [name |-> n, kind |-> kind]
<1>1. \/ /\ events' = Append(events, e)
         /\ lost' = lost
         /\ watcher = "on"
      \/ /\ events' = events
         /\ lost' = lost \union {n}
  BY DEF Notify
<1>2. /\ \A m \in Names, k \in {"load", "delete"} : Queued(m, k) => Queued(m, k)'
      /\ n \notin lost' => Queued(n, kind)'
      /\ lost \subseteq lost' /\ lost' \subseteq lost \union {n}
  <2>1. kind \in {"load", "delete"}
    OBVIOUS
  <2> QED BY <1>1, <2>1, NotifyFacts
<1>3. \A m \in Names \ {n} : disk'[m] = disk[m]
  BY DEF TypeOK
<1>4. disk'[n] = rec
  BY DEF TypeOK
<1>5. WatcherReadAccounted'
  BY <1>2, <1>3, <1>4 DEF Core, WatcherReadAccounted, Overtaken, TypeOK, Read
<1>6. HealthReadAccounted'
  <2> DEFINE rd == rread["health"]
  <2>1. SUFFICES ASSUME Overtaken(rd)'
                 PROVE  Queued(rd.name, "load")' \/ ReadPending(rd.name)' \/ UpToDate(rd.name)'
    BY DEF HealthReadAccounted
  <2>2. rd \in Read /\ rd' = rd
    BY <2>1 DEF Overtaken, TypeOK, Reconcilers
  <2>3. CASE rd.name = n
    BY <1>2, <1>4, <2>1, <2>2, <2>3 DEF Overtaken
  <2>4. CASE rd.name # n
    <3>1. Overtaken(rd) /\ rd.name \in Names
      BY <1>2, <1>3, <2>1, <2>2, <2>4 DEF Overtaken, Read
    <3>2. Queued(rd.name, "load") \/ ReadPending(rd.name) \/ UpToDate(rd.name)
      BY <3>1 DEF Core, HealthReadAccounted
    <3> QED BY <1>2, <1>3, <2>4, <3>1, <3>2 DEF ReadPending, UpToDate
  <2> QED BY <2>3, <2>4
<1>7. LoadBehindDelete'
  <2>0. Len(events) \in Nat /\ events \in Seq(Event)
    BY DEF TypeOK
  <2>1. CASE events' = events /\ lost' = lost \union {n}
    BY <1>3, <2>1 DEF Core, LoadBehindDelete
  <2>2. CASE events' = Append(events, e) /\ lost' = lost
    <3>1. /\ Len(events') = Len(events) + 1
          /\ \A i \in 1..Len(events) : events'[i] = events[i]
          /\ events'[Len(events) + 1] = e
      BY <2>0, <2>2
    <3>2. SUFFICES ASSUME NEW m \in Names \ lost', NEW i \in 1..Len(events'),
                          disk'[m] # Absent,
                          events'[i] = [name |-> m, kind |-> "delete"]
                   PROVE  \E j \in 1..Len(events') :
                            j > i /\ events'[j] = [name |-> m, kind |-> "load"]
      BY DEF LoadBehindDelete
    <3>3. CASE m = n
      <4>1. e = [name |-> m, kind |-> "load"]
        BY <1>4, <3>2, <3>3
      <4>2. i # Len(events) + 1
        BY <3>1, <3>2, <4>1
      <4>3. Len(events) + 1 > i /\ Len(events) + 1 \in 1..Len(events')
        BY <2>0, <3>1, <4>2
      <4> QED BY <3>1, <4>1, <4>3
    <3>4. CASE m # n
      <4>1. i \in 1..Len(events) /\ events[i] = [name |-> m, kind |-> "delete"]
        BY <2>0, <3>1, <3>2, <3>4
      <4>2. PICK j \in 1..Len(events) :
                   j > i /\ events[j] = [name |-> m, kind |-> "load"]
        BY <1>3, <2>2, <3>2, <3>4, <4>1 DEF Core, LoadBehindDelete
      <4> QED BY <2>0, <3>1, <4>2
    <3> QED BY <3>3, <3>4
  <2> QED BY <1>1, <2>1, <2>2
<1>8. SupervisorAlone'
  BY <1>1, <1>2, <1>3, <1>4 DEF Core, SupervisorAlone, Overtaken, ReconcileOrder,
                                TypeOK, Read, Reconcilers
<1>9. UpdatePending'
  <2>1. SUFFICES ASSUME NEW m \in Names \ lost', mem'[m] # Absent, disk'[m] # Absent,
                        mem'[m].gen < disk'[m].gen
                 PROVE  Queued(m, "load")' \/ ReadPending(m)'
    BY DEF UpdatePending
  <2>2. CASE m = n
    BY <1>2, <1>4, <2>1, <2>2
  <2>3. CASE m # n
    <3>1. Queued(m, "load") \/ ReadPending(m)
      BY <1>2, <1>3, <2>1, <2>3 DEF Core, UpdatePending
    <3> QED BY <1>2, <1>3, <2>3, <3>1 DEF ReadPending
  <2> QED BY <2>2, <2>3
<1> QED BY <1>5, <1>6, <1>7, <1>8, <1>9 DEF Core

\* A set whose file write failed leaves the entry ahead of its file.
LEMMA CoreFailedSet ==
    ASSUME TypeOK, TypeOK', Core, NEW n \in Names, NEW g \in Nat,
           SetByMemory(n, g), UNCHANGED <<disk, events, lost>>
    PROVE  Core'
<1>1. Gen(mem[n]) \in Nat /\ Gen(disk[n]) \in Nat
  BY GenNat DEF TypeOK
<1>2. /\ mem'[n] # Absent /\ mem'[n].gen > Gen(disk[n])
      /\ \A m \in Names \ {n} : mem'[m] = mem[m]
  <2> DEFINE new == MaxOf(g, MaxOf(Gen(mem[n]), Gen(disk[n])))
  <2>1. new \in Nat /\ new >= Gen(disk[n])
    <3> DEFINE seen == MaxOf(Gen(mem[n]), Gen(disk[n]))
    <3>1. seen \in Nat /\ seen >= Gen(disk[n])
      BY <1>1, MaxOfNat
    <3> HIDE DEF seen
    <3>2. MaxOf(g, seen) \in Nat /\ MaxOf(g, seen) >= seen
      BY <3>1, MaxOfNat
    <3>3. ASSUME NEW a \in Nat, NEW b \in Nat, NEW d \in Nat, a >= b, b >= d PROVE a >= d
      BY <3>3
    <3> QED BY <1>1, <3>1, <3>2, <3>3 DEF seen
  <2>2. mem'[n] = [gen |-> new + 1, id |-> writes + 1]
    BY DEF SetByMemory, TypeOK
  <2>3. [gen |-> new + 1, id |-> writes + 1] \in Record
    BY <2>1 DEF Record, TypeOK
  <2> HIDE DEF new
  <2> QED BY <1>1, <2>1, <2>2, <2>3, StoreAssumption DEF SetByMemory, TypeOK
<1>3. disk[n] # Absent => mem'[n].gen > disk[n].gen
  BY <1>2 DEF Gen
<1>4. HealthReadAccounted'
  <2> DEFINE rd == rread["health"]
  <2>1. SUFFICES ASSUME Overtaken(rd)'
                 PROVE  Queued(rd.name, "load")' \/ ReadPending(rd.name)' \/ UpToDate(rd.name)'
    BY DEF HealthReadAccounted
  <2>2. UNCHANGED <<disk, events, lost, wread, rread>>
    BY DEF SetByMemory, reconVars
  <2>3. Overtaken(rd) /\ rd.name \in Names /\ rd' = rd
    BY <2>1, <2>2 DEF Overtaken, TypeOK, Reconcilers, Read
  <2>4. Queued(rd.name, "load") \/ ReadPending(rd.name) \/ UpToDate(rd.name)
    BY <2>3 DEF Core, HealthReadAccounted
  <2>5. CASE rd.name = n
    <3>1. disk[n] # Absent
      BY <2>3, <2>5 DEF Overtaken
    <3>2. mem'[n] \in Record /\ disk[n] \in Record
      BY <1>2, <3>1 DEF TypeOK
    <3>3. mem'[n].gen >= disk'[n].gen
      BY <1>3, <2>2, <3>1, <3>2 DEF Record
    <3> QED BY <1>2, <2>2, <2>3, <2>5, <3>3 DEF UpToDate
  <2>6. CASE rd.name # n
    BY <1>2, <2>2, <2>3, <2>4, <2>6 DEF Queued, InQueue, ReadPending, UpToDate
  <2> QED BY <2>5, <2>6
<1>5. UpdatePending'
  <2>1. SUFFICES ASSUME NEW m \in Names \ lost', mem'[m] # Absent, disk'[m] # Absent,
                        mem'[m].gen < disk'[m].gen
                 PROVE  Queued(m, "load")' \/ ReadPending(m)'
    BY DEF UpdatePending
  <2>2. mem'[m] \in Record /\ disk[m] \in Record
    BY <2>1 DEF TypeOK
  <2>3. m # n
    BY <1>3, <2>1, <2>2 DEF Record
  <2>4. Queued(m, "load") \/ ReadPending(m)
    BY <1>2, <2>1, <2>3 DEF Core, UpdatePending
  <2> QED BY <2>4 DEF SetByMemory, Queued, InQueue, ReadPending
<1> QED BY <1>4, <1>5
      DEF SetByMemory, reconVars, Core, WatcherReadAccounted, LoadBehindDelete,
          SupervisorAlone, Overtaken, Queued, InQueue

\* SetContainer in the daemon, whichever way the file write goes.
LEMMA CoreSet ==
    ASSUME TypeOK, TypeOK', ReconcileOrder, Core, NEW n \in Names, NEW g \in Nat,
           SetByMemory(n, g)
    PROVE  Core'
<1> DEFINE rec == [gen |-> MaxOf(g, MaxOf(Gen(mem[n]), Gen(disk[n]))) + 1,
                   id |-> writes + 1]
<1>1. /\ up
      /\ mem' = [mem EXCEPT ![n] = rec]
      /\ WriteFile(n, rec) \/ UNCHANGED <<disk, events, lost>>
      /\ UNCHANGED <<wread, rread, rdrop>>
  BY DEF SetByMemory, reconVars
<1>2. mem'[n] = rec /\ rec \in Record \union {Absent} /\ \A m \in Names \ {n} : mem'[m] = mem[m]
  BY <1>1 DEF TypeOK
<1>3. rec # Absent
  <2>1. Gen(mem[n]) \in Nat /\ Gen(disk[n]) \in Nat
    BY GenNat DEF TypeOK
  <2>2. MaxOf(g, MaxOf(Gen(mem[n]), Gen(disk[n]))) \in Nat
    BY <2>1, MaxOfNat
  <2>3. rec \in Record
    BY <2>2 DEF Record, TypeOK
  <2> QED BY <2>3, StoreAssumption
<1> HIDE DEF rec
<1>4. CASE WriteFile(n, rec)
  BY <1>1, <1>2, <1>3, <1>4, CoreDiskChange DEF WriteFile
<1> QED BY <1>1, <1>4, CoreFailedSet

\* Watch returned: an event that was not delivered is a missed one.
LEMMA CoreWatcherDies ==
    ASSUME TypeOK, Core, WatcherDies
    PROVE  Core'
<1>1. PICK k \in 0..Len(events) :
        /\ events' = SubSeq(events, 1, k)
        /\ lost' = lost \union {events[i].name : i \in (k+1)..Len(events)}
  BY DEF WatcherDies
<1>2. /\ k \in Nat /\ Len(events) \in Nat /\ k <= Len(events)
      /\ Len(events') = k
      /\ \A i \in 1..k : events'[i] = events[i]
  BY <1>1 DEF TypeOK
<1>3. UNCHANGED <<disk, mem, wread, rread, rdrop>>
  BY DEF WatcherDies, reconVars
<1>4. \A i \in 1..Len(events) : events[i].name \notin lost' => i \in 1..k
  BY <1>1, <1>2
<1>5. ASSUME NEW m \in Names \ lost', NEW kind \in {"load", "delete"}, Queued(m, kind)
      PROVE  Queued(m, kind)'
  BY <1>2, <1>4, <1>5 DEF Queued, InQueue
<1>6. lost \subseteq lost'
  BY <1>1
<1>7. LoadBehindDelete'
  <2>1. SUFFICES ASSUME NEW m \in Names \ lost', NEW i \in 1..Len(events'),
                        disk'[m] # Absent,
                        events'[i] = [name |-> m, kind |-> "delete"]
                 PROVE  \E j \in 1..Len(events') :
                          j > i /\ events'[j] = [name |-> m, kind |-> "load"]
    BY DEF LoadBehindDelete
  <2>2. PICK j \in 1..Len(events) :
               j > i /\ events[j] = [name |-> m, kind |-> "load"]
    BY <1>2, <1>3, <1>6, <2>1 DEF Core, LoadBehindDelete
  <2>3. j \in 1..k
    BY <1>4, <2>2
  <2> QED BY <1>2, <2>2, <2>3
<1>8. WatcherReadAccounted'
  BY <1>3, <1>5, <1>6 DEF Core, WatcherReadAccounted, Overtaken, TypeOK, Read
<1>9. HealthReadAccounted'
  BY <1>3, <1>5, <1>6 DEF Core, HealthReadAccounted, Overtaken, TypeOK, Read,
                          Reconcilers, ReadPending, UpToDate
<1>10. UpdatePending'
  BY <1>3, <1>5, <1>6 DEF Core, UpdatePending, ReadPending
<1>11. SupervisorAlone'
  BY <1>3, <1>6 DEF Core, SupervisorAlone, Overtaken
<1> QED BY <1>7, <1>8, <1>9, <1>10, <1>11 DEF Core

\* Taking the head off the queue keeps loads behind deletes.
LEMMA BehindInTail ==
    ASSUME events \in Seq(Event), events # <<>>, events' = Tail(events),
           LoadBehindDelete,
           NEW m \in Names \ lost, disk[m] # Absent,
           NEW i \in 1..Len(events'),
           events'[i] = [name |-> m, kind |-> "delete"]
    PROVE  \E j \in 1..Len(events') :
              j > i /\ events'[j] = [name |-> m, kind |-> "load"]
<1>1. /\ Len(events) \in Nat \ {0}
      /\ Len(events') = Len(events) - 1
      /\ \A a \in 1..(Len(events) - 1) : events'[a] = events[a + 1]
  OBVIOUS
<1>2. i + 1 \in 1..Len(events) /\ events[i + 1] = [name |-> m, kind |-> "delete"]
  BY <1>1
<1>3. PICK j \in 1..Len(events) :
             j > i + 1 /\ events[j] = [name |-> m, kind |-> "load"]
  BY <1>2 DEF LoadBehindDelete
<1>4. j - 1 \in 1..Len(events') /\ j - 1 > i /\ events'[j - 1] = events[j]
  BY <1>1, <1>2, <1>3
<1> QED BY <1>3, <1>4

\* loadByEvent takes a load event and reads the file: what was queued is now
\* read.
LEMMA CoreWatcherRead ==
    ASSUME TypeOK, TypeOK', Core, WatcherRead
    PROVE  Core'
<1> DEFINE h == Head(events)
<1>1. /\ events # <<>> /\ events \in Seq(Event) /\ events' = Tail(events)
      /\ wread = Absent /\ h.kind = "load" /\ wread' = LoadFile(h.name)
      /\ UNCHANGED <<disk, mem, lost, rread, rdrop>>
  BY DEF WatcherRead, TypeOK, reconVars
<1>2. h \in Event /\ h = [name |-> h.name, kind |-> "load"] /\ h.name \in Names
  BY <1>1, TailFacts DEF Event
<1>3. ASSUME NEW m \in Names, disk[m] # Absent, Queued(m, "load")
      PROVE  Queued(m, "load")' \/ ReadPending(m)'
  <2>1. CASE m = h.name
    <3>1. wread' = [name |-> m, rec |-> disk'[m]] /\ wread' \in Read \union {Absent}
      BY <1>1, <1>3, <2>1 DEF LoadFile, TypeOK
    <3>2. disk'[m] = disk[m] /\ disk[m] \in Record
      BY <1>1, <1>3 DEF TypeOK
    <3>3. [name |-> m, rec |-> disk[m]] \in Read
      BY <3>2 DEF Read
    <3> QED BY <3>1, <3>2, <3>3, StoreAssumption DEF ReadPending
  <2>2. CASE m # h.name
    <3>1. Head(events) # [name |-> m, kind |-> "load"]
      BY <2>2
    <3> QED BY <1>1, <1>3, <3>1, TailFacts
  <2> QED BY <2>1, <2>2
<1>4. WatcherReadAccounted'
  BY <1>1, <1>2 DEF LoadFile, WatcherReadAccounted, Overtaken, TypeOK, Read
<1>5. HealthReadAccounted'
  <2> DEFINE rd == rread["health"]
  <2>1. SUFFICES ASSUME Overtaken(rd)'
                 PROVE  Queued(rd.name, "load")' \/ ReadPending(rd.name)' \/ UpToDate(rd.name)'
    BY DEF HealthReadAccounted
  <2>2. Overtaken(rd) /\ rd.name \in Names /\ disk[rd.name] # Absent /\ rd' = rd
    BY <1>1, <2>1 DEF Overtaken, TypeOK, Reconcilers, Read
  <2>3. Queued(rd.name, "load") \/ UpToDate(rd.name)
    BY <1>1, <2>2 DEF Core, HealthReadAccounted, ReadPending
  <2> QED BY <1>1, <1>3, <2>2, <2>3 DEF UpToDate
<1>6. LoadBehindDelete'
  <2>1. SUFFICES ASSUME NEW m \in Names \ lost', NEW i \in 1..Len(events'),
                        disk'[m] # Absent,
                        events'[i] = [name |-> m, kind |-> "delete"]
                 PROVE  \E j \in 1..Len(events') :
                          j > i /\ events'[j] = [name |-> m, kind |-> "load"]
    BY DEF LoadBehindDelete
  <2> QED BY <1>1, <2>1, BehindInTail DEF Core
<1>7. UpdatePending'
  <2>1. SUFFICES ASSUME NEW m \in Names \ lost', mem'[m] # Absent, disk'[m] # Absent,
                        mem'[m].gen < disk'[m].gen
                 PROVE  Queued(m, "load")' \/ ReadPending(m)'
    BY DEF UpdatePending
  <2>2. Queued(m, "load")
    BY <1>1, <2>1 DEF Core, UpdatePending, ReadPending
  <2> QED BY <1>1, <1>3, <2>1, <2>2
<1>8. SupervisorAlone'
  BY <1>1 DEF Core, SupervisorAlone, Overtaken
<1> QED BY <1>4, <1>5, <1>6, <1>7, <1>8 DEF Core

\* LoadFromDisk of a read that is current leaves the entry up to date; an
\* entry that was up to date stays so.
LEMMA LoadFromDiskFacts ==
    ASSUME TypeOK, NEW rd \in Read, LoadFromDisk(rd)
    PROVE  /\ \A m \in Names \ {rd.name} : mem'[m] = mem[m]
           /\ disk[rd.name] # Absent /\ rd.rec = disk[rd.name]
                => mem'[rd.name] # Absent /\ mem'[rd.name].gen >= disk[rd.name].gen
           /\ disk[rd.name] # Absent /\ mem[rd.name] # Absent
                => mem'[rd.name] # Absent /\ mem'[rd.name].gen >= mem[rd.name].gen
<1> DEFINE n == rd.name
<1>1. n \in Names /\ rd.rec \in Record /\ rd.rec # Absent /\ rd.rec.gen \in Nat
  BY StoreAssumption DEF Read, Record
<1>2. mem[n] # Absent => mem[n] \in Record /\ mem[n].gen \in Nat
  BY <1>1 DEF TypeOK, Record
<1>3. \A m \in Names \ {n} : mem'[m] = mem[m]
  BY <1>1 DEF LoadFromDisk, TypeOK
<1>4. CASE mem[n] # Absent /\ Newer(rd.rec, mem[n])
  <2>1. mem'[n] = rd.rec
    BY <1>1, <1>4 DEF LoadFromDisk, TypeOK
  <2>2. rd.rec.gen >= mem[n].gen
    BY <1>1, <1>2, <1>4 DEF Newer
  <2> QED BY <1>1, <1>2, <1>3, <2>1, <2>2
<1>5. CASE mem[n] # Absent /\ ~Newer(rd.rec, mem[n])
  <2>1. mem'[n] = mem[n]
    BY <1>1, <1>5 DEF LoadFromDisk, TypeOK
  <2>2. mem[n].gen >= rd.rec.gen
    BY <1>1, <1>2, <1>5 DEF Newer
  <2> QED BY <1>1, <1>2, <1>3, <1>5, <2>1, <2>2
<1>6. CASE mem[n] = Absent
  <2>1. disk[n] # Absent => mem'[n] = rd.rec
    BY <1>1, <1>6 DEF LoadFromDisk, TypeOK
  <2> QED BY <1>1, <1>3, <1>6, <2>1
<1> QED BY <1>4, <1>5, <1>6

\* loadByEvent applies what it read.
LEMMA CoreWatcherApply ==
    ASSUME TypeOK, TypeOK', Core, WatcherApply
    PROVE  Core'
<1> DEFINE n == wread.name
<1>1. /\ wread # Absent /\ wread' = Absent /\ LoadFromDisk(wread)
      /\ UNCHANGED <<disk, events, lost, rread, rdrop>>
  BY DEF WatcherApply, reconVars
<1>2. wread \in Read /\ n \in Names
  BY <1>1 DEF TypeOK, Read
<1>3. /\ \A m \in Names \ {n} : mem'[m] = mem[m]
      /\ disk[n] # Absent /\ wread.rec = disk[n]
           => mem'[n] # Absent /\ mem'[n].gen >= disk[n].gen
      /\ disk[n] # Absent /\ mem[n] # Absent
           => mem'[n] # Absent /\ mem'[n].gen >= mem[n].gen
  BY <1>1, <1>2, LoadFromDiskFacts
<1>4. \A m, k : Queued(m, k)' <=> Queued(m, k)
  BY <1>1 DEF Queued, InQueue
<1>5. ASSUME NEW m \in Names, ReadPending(m) PROVE m = n /\ wread.rec = disk[n]
  BY <1>5 DEF ReadPending
<1>6. WatcherReadAccounted' /\ SupervisorAlone' /\ LoadBehindDelete'
  BY <1>1 DEF Core, WatcherReadAccounted, SupervisorAlone, LoadBehindDelete, Overtaken
<1>7. HealthReadAccounted'
  <2> DEFINE rd == rread["health"]
  <2>1. SUFFICES ASSUME Overtaken(rd)'
                 PROVE  Queued(rd.name, "load")' \/ ReadPending(rd.name)' \/ UpToDate(rd.name)'
    BY DEF HealthReadAccounted
  <2>2. Overtaken(rd) /\ rd.name \in Names /\ disk[rd.name] # Absent /\ rd' = rd
    BY <1>1, <2>1 DEF Overtaken, TypeOK, Reconcilers, Read
  <2>3. CASE Queued(rd.name, "load")
    BY <1>4, <2>2, <2>3
  <2>4. CASE ReadPending(rd.name)
    BY <1>1, <1>3, <1>5, <2>2, <2>4 DEF UpToDate
  <2>5. CASE UpToDate(rd.name)
    <3>1. CASE rd.name = n
      <4>1. /\ mem'[n] # Absent /\ mem'[n].gen >= mem[n].gen
            /\ mem[n].gen >= disk[n].gen /\ disk' = disk
        BY <1>1, <1>3, <2>2, <2>5, <3>1 DEF UpToDate
      <4>2. mem'[n] \in Record /\ mem[n] \in Record /\ disk[n] \in Record
        BY <1>2, <2>2, <2>5, <3>1, <4>1 DEF UpToDate, TypeOK
      <4> QED BY <2>2, <3>1, <4>1, <4>2 DEF UpToDate, Record
    <3>2. CASE rd.name # n
      BY <1>1, <1>3, <2>2, <2>5, <3>2 DEF UpToDate
    <3> QED BY <3>1, <3>2
  <2> QED BY <2>2, <2>3, <2>4, <2>5 DEF Core, HealthReadAccounted
<1>8. UpdatePending'
  <2>1. SUFFICES ASSUME NEW m \in Names \ lost', mem'[m] # Absent, disk'[m] # Absent,
                        mem'[m].gen < disk'[m].gen
                 PROVE  Queued(m, "load")' \/ ReadPending(m)'
    BY DEF UpdatePending
  <2>2. mem'[m] \in Record /\ disk[m] \in Record /\ disk'[m] = disk[m]
    BY <1>1, <2>1 DEF TypeOK
  <2>3. CASE m = n
    <3>1. wread.rec # disk[n]
      BY <1>3, <2>1, <2>2, <2>3 DEF Record
    <3>2. Overtaken(wread)
      BY <1>1, <2>1, <2>3, <3>1 DEF Overtaken
    <3> QED BY <1>4, <2>3, <3>2 DEF Core, WatcherReadAccounted
  <2>4. CASE m # n
    <3>1. Queued(m, "load") \/ ReadPending(m)
      BY <1>1, <1>3, <2>1, <2>4 DEF Core, UpdatePending
    <3> QED BY <1>4, <1>5, <2>4, <3>1
  <2> QED BY <2>3, <2>4
<1> QED BY <1>6, <1>7, <1>8 DEF Core

\* loadByEvent drops an entry: when the file is back, its load is behind the
\* Delete that was taken.
LEMMA CoreWatcherDelete ==
    ASSUME TypeOK, TypeOK', Core, WatcherDelete
    PROVE  Core'
<1> DEFINE h == Head(events)
<1>1. /\ events # <<>> /\ events \in Seq(Event) /\ events' = Tail(events)
      /\ wread = Absent /\ wread' = Absent /\ h.kind = "delete"
      /\ mem' = [mem EXCEPT ![h.name] = Absent]
      /\ UNCHANGED <<disk, lost, rread, rdrop>>
  BY DEF WatcherDelete, DeleteContainer, TypeOK, reconVars
<1>2. h \in Event /\ h = [name |-> h.name, kind |-> "delete"] /\ h.name \in Names
  BY <1>1, TailFacts DEF Event
<1>3. ASSUME NEW m \in Names, Queued(m, "load") PROVE Queued(m, "load")'
  <2>1. Head(events) # [name |-> m, kind |-> "load"]
    BY <1>1
  <2> QED BY <1>1, <1>3, <2>1, TailFacts
<1>4. ASSUME h.name \notin lost, disk[h.name] # Absent PROVE Queued(h.name, "load")
  <2>1. 1 \in 1..Len(events) /\ events[1] = [name |-> h.name, kind |-> "delete"]
    BY <1>1, <1>2
  <2>2. PICK j \in 1..Len(events) :
               j > 1 /\ events[j] = [name |-> h.name, kind |-> "load"]
    BY <1>2, <1>4, <2>1 DEF Core, LoadBehindDelete
  <2> QED BY <2>2 DEF Queued, InQueue
<1>5. WatcherReadAccounted' /\ SupervisorAlone'
  BY <1>1 DEF Core, WatcherReadAccounted, SupervisorAlone, Overtaken
<1>6. LoadBehindDelete'
  <2>1. SUFFICES ASSUME NEW m \in Names \ lost', NEW i \in 1..Len(events'),
                        disk'[m] # Absent,
                        events'[i] = [name |-> m, kind |-> "delete"]
                 PROVE  \E j \in 1..Len(events') :
                          j > i /\ events'[j] = [name |-> m, kind |-> "load"]
    BY DEF LoadBehindDelete
  <2> QED BY <1>1, <2>1, BehindInTail DEF Core
<1>7. HealthReadAccounted'
  <2> DEFINE rd == rread["health"]
  <2>1. SUFFICES ASSUME Overtaken(rd)'
                 PROVE  Queued(rd.name, "load")' \/ ReadPending(rd.name)' \/ UpToDate(rd.name)'
    BY DEF HealthReadAccounted
  <2>2. Overtaken(rd) /\ rd.name \in Names /\ disk[rd.name] # Absent /\ rd' = rd
    BY <1>1, <2>1 DEF Overtaken, TypeOK, Reconcilers, Read
  <2>3. CASE rd.name = h.name
    BY <1>3, <1>4, <2>2, <2>3 DEF Overtaken
  <2>4. CASE rd.name # h.name
    BY <1>1, <1>2, <1>3, <2>2, <2>4 DEF Core, HealthReadAccounted, ReadPending, UpToDate, TypeOK
  <2> QED BY <2>3, <2>4
<1>8. UpdatePending'
  <2>1. SUFFICES ASSUME NEW m \in Names \ lost', mem'[m] # Absent, disk'[m] # Absent,
                        mem'[m].gen < disk'[m].gen
                 PROVE  Queued(m, "load")' \/ ReadPending(m)'
    BY DEF UpdatePending
  <2>2. m # h.name /\ mem'[m] = mem[m]
    BY <1>1, <2>1 DEF TypeOK
  <2>3. Queued(m, "load")
    BY <1>1, <2>1, <2>2 DEF Core, UpdatePending, ReadPending
  <2> QED BY <1>3, <2>3
<1> QED BY <1>5, <1>6, <1>7, <1>8 DEF Core

\* reconcileState applies what it read.
LEMMA CoreReconcileApply ==
    ASSUME TypeOK, TypeOK', Core, NEW r \in Reconcilers, ReconcileApply(r)
    PROVE  Core'
<1> DEFINE rd == rread[r]
           n == rd.name
<1>1. /\ rd # Absent /\ LoadFromDisk(rd)
      /\ rread' = [rread EXCEPT ![r] = Absent]
      /\ UNCHANGED <<disk, events, wread, lost, rdrop>>
  BY DEF ReconcileApply
<1>2. rd \in Read /\ n \in Names
  BY <1>1 DEF TypeOK, Read
<1>3. /\ \A m \in Names \ {n} : mem'[m] = mem[m]
      /\ disk[n] # Absent /\ rd.rec = disk[n]
           => mem'[n] # Absent /\ mem'[n].gen >= disk[n].gen
      /\ disk[n] # Absent /\ mem[n] # Absent
           => mem'[n] # Absent /\ mem'[n].gen >= mem[n].gen
  BY <1>1, <1>2, LoadFromDiskFacts
<1>4. /\ \A m, k : Queued(m, k)' <=> Queued(m, k)
      /\ \A m : ReadPending(m)' <=> ReadPending(m)
  BY <1>1 DEF Queued, InQueue, ReadPending
<1>5. \A s \in Reconcilers \ {r} : rread'[s] = rread[s]
  BY <1>1 DEF TypeOK
<1>6. rread'[r] = Absent
  BY <1>1 DEF TypeOK
<1>7. WatcherReadAccounted' /\ LoadBehindDelete'
  BY <1>1, <1>4 DEF Core, WatcherReadAccounted, LoadBehindDelete, Overtaken
<1>8. SupervisorAlone'
  BY <1>1, <1>5, <1>6 DEF Core, SupervisorAlone, Overtaken, Reconcilers
<1>9. ASSUME NEW m \in Names, disk[m] # Absent, UpToDate(m) PROVE UpToDate(m)'
  <2>1. CASE m = n
    <3>1. /\ mem'[n] # Absent /\ mem'[n].gen >= mem[n].gen
          /\ mem[n] # Absent /\ mem[n].gen >= disk[n].gen /\ disk' = disk
      BY <1>1, <1>3, <1>9, <2>1 DEF UpToDate
    <3>2. mem'[n] \in Record /\ mem[n] \in Record /\ disk[n] \in Record
      BY <1>2, <1>9, <2>1, <3>1 DEF TypeOK
    <3> QED BY <2>1, <3>1, <3>2 DEF UpToDate, Record
  <2>2. CASE m # n
    BY <1>1, <1>3, <1>9, <2>2 DEF UpToDate
  <2> QED BY <2>1, <2>2
<1>10. HealthReadAccounted'
  <2>1. CASE r = "health"
    BY <1>6, <2>1 DEF HealthReadAccounted, Overtaken
  <2>2. CASE r # "health"
    <3> DEFINE hd == rread["health"]
    <3>1. hd' = hd
      BY <1>5, <2>2 DEF Reconcilers
    <3>2. SUFFICES ASSUME Overtaken(hd)'
                   PROVE  Queued(hd.name, "load")' \/ ReadPending(hd.name)' \/ UpToDate(hd.name)'
      BY <3>1 DEF HealthReadAccounted
    <3>3. Overtaken(hd) /\ hd.name \in Names /\ disk[hd.name] # Absent
      BY <1>1, <3>1, <3>2 DEF Overtaken, TypeOK, Reconcilers, Read
    <3>4. Queued(hd.name, "load") \/ ReadPending(hd.name) \/ UpToDate(hd.name)
      BY <3>3 DEF Core, HealthReadAccounted
    <3>5. CASE Queued(hd.name, "load") \/ ReadPending(hd.name)
      BY <1>1, <3>1, <3>5 DEF Queued, InQueue, ReadPending
    <3>6. CASE UpToDate(hd.name)
      BY <1>9, <3>1, <3>3, <3>6 DEF UpToDate
    <3> QED BY <3>4, <3>5, <3>6
  <2> QED BY <2>1, <2>2
<1>11. UpdatePending'
  <2>1. SUFFICES ASSUME NEW m \in Names \ lost', mem'[m] # Absent, disk'[m] # Absent,
                        mem'[m].gen < disk'[m].gen
                 PROVE  Queued(m, "load")' \/ ReadPending(m)'
    BY DEF UpdatePending
  <2>2. mem'[m] \in Record /\ disk[m] \in Record /\ disk'[m] = disk[m]
    BY <1>1, <2>1 DEF TypeOK
  <2>3. ~UpToDate(m)'
    BY <2>1, <2>2 DEF UpToDate, Record
  <2>4. CASE m = n
    <3>1. rd.rec # disk[n]
      BY <1>3, <2>1, <2>2, <2>4 DEF Record
    <3>2. Overtaken(rd)
      BY <1>1, <2>1, <2>4, <3>1 DEF Overtaken
    <3>3. r = "health"
      BY <3>2 DEF Core, SupervisorAlone, Reconcilers
    <3>4. ~UpToDate(m)
      BY <1>9, <2>2, <2>1, <2>3
    <3> QED BY <1>4, <2>4, <3>2, <3>3, <3>4 DEF Core, HealthReadAccounted
  <2>5. CASE m # n
    BY <1>1, <1>3, <1>4, <2>1, <2>2, <2>5 DEF Core, UpdatePending
  <2> QED BY <2>4, <2>5
<1> QED BY <1>7, <1>8, <1>10, <1>11 DEF Core

\* The steps of reconcileState.
LEMMA CoreReconcile ==
    ASSUME TypeOK, TypeOK', ReconcileOrder, Core, NEW r \in Reconcilers, Reconcile(r)
    PROVE  Core'
<1> USE DEF daemonVars
<1>1. CASE ReconcileSnapshot(r) \/ ReconcileDone(r)
  BY <1>1, CoreStutter DEF ReconcileSnapshot, ReconcileDone
<1>2. CASE ReconcileReadDir(r)
  <2>1. /\ UNCHANGED <<disk, mem, events, wread, lost, rread>>
        /\ rdrop' = [rdrop EXCEPT ![r] = rsnap[r] \ Present(disk)]
    BY <1>2 DEF ReconcileReadDir
  <2>2. SupervisorAlone'
    BY <2>1 DEF Core, SupervisorAlone, Overtaken, Present, TypeOK, Reconcilers
  <2> QED BY <2>1, <2>2 DEF Core, WatcherReadAccounted, HealthReadAccounted,
              LoadBehindDelete, UpdatePending, Overtaken, Queued, InQueue,
              ReadPending, UpToDate
<1>3. CASE ReconcileDrop(r)
  <2>1. PICK n \in rdrop[r] : /\ mem' = [mem EXCEPT ![n] = Absent]
                              /\ rdrop' = [rdrop EXCEPT ![r] = @ \ {n}]
    BY <1>3 DEF ReconcileDrop, DeleteContainer
  <2>2. UNCHANGED <<disk, events, wread, lost, rread>>
    BY <1>3 DEF ReconcileDrop
  <2>3. n \in Names /\ mem'[n] = Absent /\ \A m \in Names \ {n} : mem'[m] = mem[m]
    BY <2>1 DEF TypeOK
  <2>4. SupervisorAlone'
    BY <2>1, <2>2 DEF Core, SupervisorAlone, Overtaken, TypeOK, Reconcilers
  <2>5. UpdatePending'
    BY <2>2, <2>3 DEF Core, UpdatePending, Queued, InQueue, ReadPending
  <2>6. HealthReadAccounted'
    <3> DEFINE rd == rread["health"]
    <3>1. SUFFICES ASSUME Overtaken(rd)'
                   PROVE  Queued(rd.name, "load")' \/ ReadPending(rd.name)' \/ UpToDate(rd.name)'
      BY DEF HealthReadAccounted
    <3>2. Overtaken(rd) /\ rd.name \in Names /\ disk[rd.name] # Absent
          /\ rd.name \notin lost /\ rd # Absent /\ rd' = rd
      BY <2>2, <3>1 DEF Overtaken, TypeOK, Reconcilers, Read
    <3>3. r = "supervisor"
      BY <2>1, <3>2 DEF ReconcileOrder, Reconcilers
    <3>4. rd.name # n
      BY <2>1, <3>2, <3>3 DEF Core, SupervisorAlone
    <3> QED BY <2>2, <2>3, <3>2, <3>4
          DEF Core, HealthReadAccounted, Queued, InQueue, ReadPending, UpToDate
  <2> QED BY <2>2, <2>4, <2>5, <2>6
        DEF Core, WatcherReadAccounted, LoadBehindDelete, Overtaken, Queued, InQueue
<1>4. CASE ReconcileLoad(r)
  <2>1. PICK n \in radd[r] : rread' = [rread EXCEPT ![r] = LoadFile(n)]
    BY <1>4 DEF ReconcileLoad
  <2>2. UNCHANGED <<disk, mem, events, wread, lost, rdrop>>
    BY <1>4 DEF ReconcileLoad
  <2>3. ~Overtaken(rread[r])'
    BY <2>1, <2>2 DEF LoadFile, Overtaken, TypeOK
  <2>4. \A s \in Reconcilers \ {r} : rread'[s] = rread[s]
    BY <2>1 DEF TypeOK
  <2>5. SupervisorAlone'
    BY <2>2, <2>3, <2>4 DEF Core, SupervisorAlone, Overtaken, Reconcilers
  <2>6. HealthReadAccounted'
    <3>1. CASE r = "health"
      BY <2>3, <3>1 DEF HealthReadAccounted
    <3>2. CASE r # "health"
      BY <2>2, <2>4, <3>2 DEF Core, HealthReadAccounted, Overtaken, Queued, InQueue,
                              ReadPending, UpToDate, Reconcilers
    <3> QED BY <3>1, <3>2
  <2> QED BY <2>2, <2>5, <2>6
        DEF Core, WatcherReadAccounted, LoadBehindDelete, UpdatePending, Overtaken,
            Queued, InQueue, ReadPending
<1>5. CASE ReconcileApply(r)
  BY <1>5, CoreReconcileApply
<1> QED BY <1>1, <1>2, <1>3, <1>4, <1>5 DEF Reconcile

\* Every step keeps the invariant behind UpdatePending.
LEMMA UpdateStep == UpdateInv /\ [Next]_vars => UpdateInv'
<1> SUFFICES ASSUME UpdateInv, [Next]_vars PROVE UpdateInv'
  OBVIOUS
<1> USE DEF daemonVars, reconVars
<1>1. TypeOK /\ DownIsEmpty /\ ReconcileOrder /\ Core
  BY DEF UpdateInv, Core
<1>2. TypeOK' /\ DownIsEmpty' /\ ReconcileOrder'
  BY <1>1, TypeStep, DownStep, OrderStep
<1> SUFFICES Core'
  BY <1>2 DEF UpdateInv, Core
<1>3. ASSUME ~up, \A n \in Names : mem'[n] = mem[n],
             UNCHANGED <<events, wread, rread, rdrop>>
      PROVE  Core'
  <2>1. mem' = [n \in Names |-> Absent]
    BY <1>1, <1>2, <1>3 DEF DownIsEmpty, TypeOK
  <2>2. \A r \in Reconcilers : rread'[r] = Absent /\ rdrop'[r] = {}
    BY <1>1, <1>3 DEF DownIsEmpty, ReconcileOrder
  <2> QED BY <1>1, <1>2, <1>3, <2>1, <2>2, CoreFresh DEF DownIsEmpty
<1>4. CASE DaemonStart
  <2>1. events' = <<>> /\ wread' = Absent /\ mem' = disk'
    BY <1>1, <1>4 DEF DaemonStart, DownIsEmpty
  <2>2. \A r \in Reconcilers : rread'[r] = Absent /\ rdrop'[r] = {}
    BY <1>1, <1>4 DEF DaemonStart, DownIsEmpty, ReconcileOrder
  <2> QED BY <1>2, <2>1, <2>2, CoreFresh
<1>5. CASE DaemonCrash
  <2>1. \A r \in Reconcilers : rread'[r] = Absent /\ rdrop'[r] = {}
    BY <1>5 DEF DaemonCrash
  <2>2. events' = <<>> /\ wread' = Absent /\ mem' = [n \in Names |-> Absent]
    BY <1>5 DEF DaemonCrash
  <2> QED BY <1>2, <2>1, <2>2, CoreFresh
<1>6. ASSUME NEW n \in Names, DaemonSet(n) PROVE Core'
  <2>1. PICK g \in {0, Gen(mem[n])} : SetByMemory(n, g)
    BY <1>6 DEF DaemonSet
  <2>2. g \in Nat
    BY <1>1, GenNat DEF TypeOK
  <2> QED BY <1>1, <1>2, <2>1, <2>2, CoreSet
<1>7. ASSUME NEW n \in Names, RemoveFile(n) PROVE Core'
  <2>1. CASE up
    BY <1>1, <1>2, <1>7, <2>1, CoreDiskChange DEF RemoveFile
  <2>2. CASE ~up
    BY <1>1, <1>3, <1>7, <2>2 DEF RemoveFile, Notify, DownIsEmpty
  <2> QED BY <2>1, <2>2
<1>8. ASSUME NEW c \in Clients, ClientStep(c) PROVE Core'
  <2>1. CASE DaemonServes(c)
    <3>1. client[c].name \in Names /\ client[c].gen \in Nat
      BY <1>1, <2>1 DEF DaemonServes, TypeOK, Client, NoClient
    <3> QED BY <1>1, <1>2, <2>1, <3>1, CoreSet DEF DaemonServes
  <2>2. CASE ClientRename(c)
    <3> DEFINE n == client[c].name
               rec == [gen |-> client[c].gen, id |-> writes + 1]
    <3>1. /\ WriteFile(n, rec) \/ UNCHANGED <<disk, events, lost>>
          /\ UNCHANGED <<mem, wread, rread, rdrop>>
      BY <2>2 DEF ClientRename
    <3>2. n \in Names /\ client[c].gen \in Nat
      BY <1>1, <2>2 DEF ClientRename, TypeOK, Client, NoClient
    <3>3. rec \in Record /\ rec # Absent
      BY <1>1, <3>2, StoreAssumption DEF Record, TypeOK
    <3> HIDE DEF rec, n
    <3>4. CASE WriteFile(n, rec) /\ up
      BY <1>1, <1>2, <3>1, <3>2, <3>3, <3>4, CoreDiskChange DEF WriteFile
    <3>5. CASE WriteFile(n, rec) /\ ~up
      BY <1>1, <1>3, <3>1, <3>5 DEF WriteFile, Notify, DownIsEmpty
    <3>6. CASE UNCHANGED <<disk, events, lost>>
      BY <1>1, <3>1, <3>6, CoreStutter
    <3> QED BY <3>1, <3>4, <3>5, <3>6
  <2>3. CASE ClientExit(c) \/ ClientPost(c) \/ ClientReply(c)
             \/ ClientFallback(c) \/ ClientDiskSet(c)
             \/ \E n \in Names : ClientStart(c, n)
    BY <1>1, <2>3, CoreStutter
       DEF ClientExit, ClientPost, ClientReply, ClientFallback, ClientDiskSet, ClientStart
  <2> QED BY <1>8, <2>1, <2>2, <2>3 DEF ClientStep
<1>9. ASSUME NEW q \in late, LateServe(q) PROVE Core'
  <2>1. q.name \in Names /\ q.gen \in Nat
    BY <1>1 DEF TypeOK
  <2> QED BY <1>1, <1>2, <1>9, <2>1, CoreSet DEF LateServe
<1>10. CASE Watcher \/ WatcherStartFails \/ WatcherDies
  <2>1. CASE WatcherStart \/ WatcherStopped \/ WatcherStartFails
    <3>1. UNCHANGED <<disk, mem, events, wread, lost, rdrop, rread>>
      BY <2>1 DEF WatcherStart, WatcherStopped, WatcherStartFails
    <3> QED BY <1>1, <3>1, CoreStutter
  <2>2. CASE WatcherRead
    BY <1>1, <1>2, <2>2, CoreWatcherRead
  <2>3. CASE WatcherApply
    BY <1>1, <1>2, <2>3, CoreWatcherApply
  <2>4. CASE WatcherDelete
    BY <1>1, <1>2, <2>4, CoreWatcherDelete
  <2>5. CASE WatcherDies
    BY <1>1, <2>5, CoreWatcherDies
  <2> QED BY <1>10, <2>1, <2>2, <2>3, <2>4, <2>5 DEF Watcher
<1>11. ASSUME NEW r \in Reconcilers, Reconcile(r) PROVE Core'
  BY <1>1, <1>2, <1>11, CoreReconcile
<1>12. CASE UNCHANGED vars
  <2>1. UNCHANGED <<disk, mem, events, wread, lost, rdrop, rread>>
    BY <1>12 DEF vars
  <2> QED BY <1>1, <2>1, CoreStutter
<1> QED BY <1>4, <1>5, <1>6, <1>7, <1>8, <1>9, <1>10, <1>11, <1>12 DEF Next

\* The initial states satisfy it.
LEMMA UpdateInit == Init => UpdateInv
<1> SUFFICES ASSUME Init PROVE UpdateInv
  OBVIOUS
<1>1. TypeOK
  BY TypeInit
<1>2. DownIsEmpty /\ ReconcileOrder
  BY DEF Init, DownIsEmpty, ReconcileOrder, Reconcilers
<1>3. Core
  <2>1. Len(events) = 0 /\ \A n \in Names : mem[n] = Absent
    BY DEF Init
  <2> QED BY <2>1 DEF Init, Core, WatcherReadAccounted, HealthReadAccounted,
            LoadBehindDelete, SupervisorAlone, UpdatePending, Overtaken, Reconcilers
<1> QED BY <1>1, <1>2, <1>3 DEF UpdateInv, Core

\* Whatever order the daemon's sets, external writes, removals, events,
\* overtaken reads, reconciles, crashes and failed writes come in: an entry
\* older than its file has the event that will renew it queued, or the file
\* just read, unless the daemon was never told of the write.
THEOREM UpdatesArePending == Spec => []UpdatePending
<1>1. UpdateInv => UpdatePending
  BY DEF UpdateInv
<1> QED BY <1>1, UpdateInit, UpdateStep, PTL DEF Spec
-------------------------------------------------------------------------------
(* RemovalPending, for file writes that succeed.                           *)

\* RemovalPending depends on files, memory, queue and losses only.
LEMMA RemovalStutter ==
    ASSUME RemovalPending, UNCHANGED <<disk, mem, events, lost>>
    PROVE  RemovalPending'
  BY DEF RemovalPending, Queued, InQueue

\* A write to a file makes no entry fileless.
LEMMA RemovalWrite ==
    ASSUME TypeOK, RemovalPending, NEW n \in Names, NEW rec \in Record,
           WriteFile(n, rec), \A m \in Names \ {n} : mem'[m] = mem[m]
    PROVE  RemovalPending'
<1>1. /\ \A m \in Names, k \in {"load", "delete"} : Queued(m, k) => Queued(m, k)'
      /\ lost \subseteq lost'
  BY NotifyFacts DEF WriteFile
<1>2. disk'[n] # Absent /\ \A m \in Names \ {n} : disk'[m] = disk[m]
  BY StoreAssumption DEF WriteFile, TypeOK
<1> QED BY <1>1, <1>2 DEF RemovalPending

\* Nor does a write through memory that reaches the file.
LEMMA RemovalSet ==
    ASSUME WritesMayFail = FALSE, TypeOK, RemovalPending,
           NEW n \in Names, NEW g \in Nat, SetByMemory(n, g)
    PROVE  RemovalPending'
<1> DEFINE rec == [gen |-> MaxOf(g, MaxOf(Gen(mem[n]), Gen(disk[n]))) + 1,
                   id |-> writes + 1]
<1>1. WriteFile(n, rec) /\ mem' = [mem EXCEPT ![n] = rec]
  BY DEF SetByMemory
<1>2. rec \in Record
  <2>1. Gen(mem[n]) \in Nat /\ Gen(disk[n]) \in Nat
    BY GenNat DEF TypeOK
  <2>2. MaxOf(g, MaxOf(Gen(mem[n]), Gen(disk[n]))) \in Nat
    BY <2>1, MaxOfNat
  <2> QED BY <2>2 DEF Record, TypeOK
<1> HIDE DEF rec
<1> QED BY <1>1, <1>2, RemovalWrite DEF TypeOK

\* LoadFromDisk adds an entry only while its file exists.
LEMMA RemovalApply ==
    ASSUME TypeOK, RemovalPending, NEW rd \in Read, LoadFromDisk(rd),
           UNCHANGED <<disk, events, lost>>
    PROVE  RemovalPending'
<1>1. ASSUME NEW m \in Names, mem'[m] # Absent PROVE mem[m] # Absent \/ disk[m] # Absent
  BY <1>1 DEF LoadFromDisk, TypeOK, Read
<1> QED BY <1>1 DEF RemovalPending, Queued, InQueue

\* Deleting an entry settles its pending removal.
LEMMA RemovalDrop ==
    ASSUME TypeOK, RemovalPending, NEW n \in Names, DeleteContainer(n),
           UNCHANGED <<disk, lost>>,
           \A m \in Names \ {n} : Queued(m, "delete") => Queued(m, "delete")'
    PROVE  RemovalPending'
  BY DEF RemovalPending, DeleteContainer, TypeOK

\* Every step keeps RemovalPending if file writes succeed.
LEMMA RemovalStep ==
    ASSUME WritesMayFail = FALSE, RemovalInv, [Next]_vars
    PROVE  RemovalInv'
<1> USE DEF daemonVars, reconVars
<1>1. TypeOK /\ DownIsEmpty /\ ReconcileOrder /\ RemovalPending
  BY DEF RemovalInv
<1>2. TypeOK' /\ DownIsEmpty' /\ ReconcileOrder'
  BY <1>1, TypeStep, DownStep, OrderStep
<1> SUFFICES RemovalPending'
  BY <1>2 DEF RemovalInv
<1>3. CASE DaemonStart \/ DaemonCrash
  BY <1>3 DEF DaemonStart, DaemonCrash, RemovalPending
<1>4. ASSUME NEW n \in Names, DaemonSet(n) PROVE RemovalPending'
  <2>1. PICK g \in {0, Gen(mem[n])} : SetByMemory(n, g)
    BY <1>4 DEF DaemonSet
  <2>2. g \in Nat
    BY <1>1, GenNat DEF TypeOK
  <2> QED BY <1>1, <2>1, <2>2, RemovalSet
<1>5. ASSUME NEW n \in Names, RemoveFile(n) PROVE RemovalPending'
  <2>1. /\ \A m \in Names, k \in {"load", "delete"} : Queued(m, k) => Queued(m, k)'
        /\ lost \subseteq lost'
        /\ up /\ n \notin lost' => Queued(n, "delete")'
    BY <1>1, <1>5, NotifyFacts DEF RemoveFile
  <2>2. mem' = mem /\ \A m \in Names \ {n} : disk'[m] = disk[m]
    BY <1>1, <1>5 DEF RemoveFile, TypeOK
  <2>3. ~up => mem[n] = Absent
    BY <1>1 DEF DownIsEmpty
  <2> QED BY <1>1, <2>1, <2>2, <2>3 DEF RemovalPending
<1>6. ASSUME NEW c \in Clients, ClientStep(c) PROVE RemovalPending'
  <2>1. CASE DaemonServes(c)
    <3>1. client[c].name \in Names /\ client[c].gen \in Nat
      BY <1>1, <2>1 DEF DaemonServes, TypeOK, Client, NoClient
    <3> QED BY <1>1, <2>1, <3>1, RemovalSet DEF DaemonServes
  <2>2. CASE ClientRename(c)
    <3> DEFINE rec == [gen |-> client[c].gen, id |-> writes + 1]
    <3>1. WriteFile(client[c].name, rec) /\ mem' = mem
      BY <2>2 DEF ClientRename
    <3>2. client[c].name \in Names /\ client[c].gen \in Nat
      BY <1>1, <2>2 DEF ClientRename, TypeOK, Client, NoClient
    <3>3. rec \in Record
      BY <1>1, <3>2 DEF Record, TypeOK
    <3> HIDE DEF rec
    <3> QED BY <1>1, <3>1, <3>2, <3>3, RemovalWrite
  <2>3. CASE ClientExit(c) \/ ClientPost(c) \/ ClientReply(c)
             \/ ClientFallback(c) \/ ClientDiskSet(c)
             \/ \E n \in Names : ClientStart(c, n)
    BY <1>1, <2>3, RemovalStutter
       DEF ClientExit, ClientPost, ClientReply, ClientFallback, ClientDiskSet, ClientStart
  <2> QED BY <1>6, <2>1, <2>2, <2>3 DEF ClientStep
<1>7. ASSUME NEW q \in late, LateServe(q) PROVE RemovalPending'
  <2>1. q.name \in Names /\ q.gen \in Nat
    BY <1>1 DEF TypeOK
  <2> QED BY <1>1, <1>7, <2>1, RemovalSet DEF LateServe
<1>8. CASE Watcher \/ WatcherStartFails \/ WatcherDies
  <2>1. CASE WatcherStart \/ WatcherStopped \/ WatcherStartFails
    BY <1>1, <2>1, RemovalStutter DEF WatcherStart, WatcherStopped, WatcherStartFails
  <2>2. CASE WatcherRead
    <3>1. /\ events \in Seq(Event) /\ events # <<>> /\ events' = Tail(events)
          /\ Head(events).kind = "load" /\ UNCHANGED <<disk, mem, lost>>
      BY <1>1, <2>2 DEF WatcherRead, TypeOK
    <3>2. ASSUME NEW m \in Names, Queued(m, "delete") PROVE Queued(m, "delete")'
      <4>1. Head(events) # [name |-> m, kind |-> "delete"]
        BY <3>1
      <4> QED BY <3>1, <3>2, <4>1, TailFacts
    <3> QED BY <1>1, <3>1, <3>2 DEF RemovalPending
  <2>3. CASE WatcherApply
    <3>1. wread \in Read
      BY <1>1, <2>3 DEF WatcherApply, TypeOK
    <3> QED BY <1>1, <2>3, <3>1, RemovalApply DEF WatcherApply
  <2>4. CASE WatcherDelete
    <3> DEFINE h == Head(events)
    <3>1. /\ events \in Seq(Event) /\ events # <<>> /\ events' = Tail(events)
          /\ DeleteContainer(h.name) /\ UNCHANGED <<disk, lost>>
      BY <1>1, <2>4 DEF WatcherDelete, TypeOK
    <3>2. h.name \in Names
      BY <3>1, TailFacts DEF Event
    <3>3. ASSUME NEW m \in Names \ {h.name}, Queued(m, "delete")
          PROVE  Queued(m, "delete")'
      <4>1. Head(events) # [name |-> m, kind |-> "delete"]
        OBVIOUS
      <4> QED BY <3>1, <3>3, <4>1, TailFacts
    <3> QED BY <1>1, <3>1, <3>2, <3>3, RemovalDrop
  <2>5. CASE WatcherDies
    <3>1. PICK k \in 0..Len(events) :
            /\ events' = SubSeq(events, 1, k)
            /\ lost' = lost \union {events[i].name : i \in (k+1)..Len(events)}
      BY <2>5 DEF WatcherDies
    <3>2. /\ k \in Nat /\ Len(events) \in Nat /\ k <= Len(events)
          /\ Len(events') = k
          /\ \A i \in 1..k : events'[i] = events[i]
      BY <1>1, <3>1 DEF TypeOK
    <3>3. \A i \in 1..Len(events) : events[i].name \notin lost' => i \in 1..k
      BY <3>1, <3>2
    <3>4. ASSUME NEW m \in Names \ lost', Queued(m, "delete") PROVE Queued(m, "delete")'
      BY <3>2, <3>3, <3>4 DEF Queued, InQueue
    <3> QED BY <1>1, <2>5, <3>1, <3>4 DEF WatcherDies, RemovalPending
  <2> QED BY <1>8, <2>1, <2>2, <2>3, <2>4, <2>5 DEF Watcher
<1>9. ASSUME NEW r \in Reconcilers, Reconcile(r) PROVE RemovalPending'
  <2>1. CASE ReconcileSnapshot(r) \/ ReconcileReadDir(r) \/ ReconcileLoad(r) \/ ReconcileDone(r)
    BY <1>1, <2>1, RemovalStutter
       DEF ReconcileSnapshot, ReconcileReadDir, ReconcileLoad, ReconcileDone
  <2>2. CASE ReconcileDrop(r)
    <3>1. PICK n \in rdrop[r] : DeleteContainer(n)
      BY <2>2 DEF ReconcileDrop
    <3>2. n \in Names /\ UNCHANGED <<disk, lost, events>>
      BY <1>1, <2>2 DEF ReconcileDrop, TypeOK
    <3> QED BY <1>1, <3>1, <3>2, RemovalDrop DEF Queued, InQueue
  <2>3. CASE ReconcileApply(r)
    <3>1. rread[r] \in Read
      BY <1>1, <2>3 DEF ReconcileApply, TypeOK
    <3> QED BY <1>1, <2>3, <3>1, RemovalApply DEF ReconcileApply
  <2> QED BY <1>9, <2>1, <2>2, <2>3 DEF Reconcile
<1>10. CASE UNCHANGED vars
  BY <1>1, <1>10, RemovalStutter DEF vars
<1> QED BY <1>3, <1>4, <1>5, <1>6, <1>7, <1>8, <1>9, <1>10 DEF Next

\* With file writes that succeed, "in memory but no file" does mean removed:
\* the Delete event of such an entry is queued, or was missed.
THEOREM RemovalsArePending ==
    ASSUME WritesMayFail = FALSE
    PROVE  Spec => []RemovalPending
<1>1. Init => RemovalInv
  BY UpdateInit DEF UpdateInv, RemovalInv, Init, RemovalPending
<1>2. RemovalInv /\ [Next]_vars => RemovalInv'
  BY RemovalStep
<1>3. RemovalInv => RemovalPending
  BY DEF RemovalInv
<1> QED BY <1>1, <1>2, <1>3, PTL DEF Spec
-------------------------------------------------------------------------------
(* GenerationsMoveForward.                                                 *)

Forward ==
    \A n \in Names :
         mem[n] # Absent /\ mem'[n] # Absent /\ mem'[n] # mem[n]
            => mem'[n].gen > mem[n].gen \/ mem'[n].gen + mem[n].gen = 0

\* A write through memory takes a newer generation.
LEMMA ForwardSet ==
    ASSUME TypeOK, NEW n \in Names, NEW g \in Nat, SetByMemory(n, g)
    PROVE  Forward
<1> DEFINE new == MaxOf(g, MaxOf(Gen(mem[n]), Gen(disk[n])))
<1>1. Gen(mem[n]) \in Nat /\ Gen(disk[n]) \in Nat
  BY GenNat DEF TypeOK
<1>2. MaxOf(Gen(mem[n]), Gen(disk[n])) \in Nat /\ MaxOf(Gen(mem[n]), Gen(disk[n])) >= Gen(mem[n])
  BY <1>1, MaxOfNat
<1>3. new \in Nat /\ new >= Gen(mem[n])
  BY <1>1, <1>2, MaxOfNat
<1>4. mem' = [mem EXCEPT ![n] = [gen |-> new + 1, id |-> writes + 1]]
  BY DEF SetByMemory
<1> HIDE DEF new
<1>5. mem'[n].gen > Gen(mem[n])
  BY <1>1, <1>3, <1>4 DEF TypeOK
<1> QED BY <1>4, <1>5 DEF Forward, Gen, TypeOK

\* Only a newer record is applied from a file.
LEMMA ForwardApply ==
    ASSUME TypeOK, NEW rd \in Read, LoadFromDisk(rd)
    PROVE  Forward
  BY DEF LoadFromDisk, Newer, Forward, TypeOK, Read, Record

\* No step takes an entry of the running daemon back to an older generation.
THEOREM GenerationsForward == Spec => GenerationsMoveForward
<1>1. ASSUME UpdateInv, [Next]_vars PROVE [Forward]_vars
  <2> USE DEF daemonVars, reconVars
  <2>1. TypeOK /\ DownIsEmpty
    BY <1>1 DEF UpdateInv
  <2>2. ASSUME \A n \in Names : mem'[n] = mem[n] \/ mem'[n] = Absent \/ mem[n] = Absent
        PROVE  Forward
    BY <2>2 DEF Forward
  <2>3. CASE DaemonStart \/ DaemonCrash
    BY <2>1, <2>2, <2>3 DEF DaemonStart, DaemonCrash, DownIsEmpty
  <2>4. ASSUME NEW n \in Names, DaemonSet(n) PROVE Forward
    <3>1. PICK g \in {0, Gen(mem[n])} : SetByMemory(n, g)
      BY <2>4 DEF DaemonSet
    <3>2. g \in Nat
      BY <2>1, GenNat DEF TypeOK
    <3> QED BY <2>1, <3>1, <3>2, ForwardSet
  <2>5. ASSUME NEW n \in Names, RemoveFile(n) PROVE Forward
    BY <2>2, <2>5 DEF RemoveFile
  <2>6. ASSUME NEW c \in Clients, ClientStep(c) PROVE Forward
    <3>1. CASE DaemonServes(c)
      <4>1. client[c].name \in Names /\ client[c].gen \in Nat
        BY <2>1, <3>1 DEF DaemonServes, TypeOK, Client, NoClient
      <4> QED BY <2>1, <3>1, <4>1, ForwardSet DEF DaemonServes
    <3>2. CASE ~DaemonServes(c)
      BY <2>2, <2>6, <3>2 DEF ClientStep, ClientExit, ClientPost, ClientReply,
         ClientFallback, ClientDiskSet, ClientStart, ClientRename
    <3> QED BY <3>1, <3>2
  <2>7. ASSUME NEW q \in late, LateServe(q) PROVE Forward
    <3>1. q.name \in Names /\ q.gen \in Nat
      BY <2>1 DEF TypeOK
    <3> QED BY <2>1, <2>7, <3>1, ForwardSet DEF LateServe
  <2>8. CASE Watcher \/ WatcherStartFails \/ WatcherDies
    <3>1. CASE WatcherApply
      <4>1. wread \in Read
        BY <2>1, <3>1 DEF WatcherApply, TypeOK
      <4> QED BY <2>1, <3>1, <4>1, ForwardApply DEF WatcherApply
    <3>2. CASE WatcherDelete
      BY <2>1, <2>2, <3>2 DEF WatcherDelete, DeleteContainer, TypeOK
    <3> QED BY <2>2, <2>8, <3>1, <3>2
          DEF Watcher, WatcherStart, WatcherRead, WatcherStopped, WatcherStartFails, WatcherDies
  <2>9. ASSUME NEW r \in Reconcilers, Reconcile(r) PROVE Forward
    <3>1. CASE ReconcileApply(r)
      <4>1. rread[r] \in Read
        BY <2>1, <3>1 DEF ReconcileApply, TypeOK
      <4> QED BY <2>1, <3>1, <4>1, ForwardApply DEF ReconcileApply
    <3>2. CASE ReconcileDrop(r)
      BY <2>1, <2>2, <3>2 DEF ReconcileDrop, DeleteContainer, TypeOK
    <3> QED BY <2>2, <2>9, <3>1, <3>2
          DEF Reconcile, ReconcileSnapshot, ReconcileReadDir, ReconcileLoad, ReconcileDone
  <2> QED BY <1>1, <2>3, <2>4, <2>5, <2>6, <2>7, <2>8, <2>9 DEF Next
<1> QED BY <1>1, UpdateInit, UpdateStep, PTL DEF Spec, GenerationsMoveForward, Forward
===============================================================================
