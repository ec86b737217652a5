------------------------------ MODULE Virtqueue -----------------------------
(***************************************************************************)
(* The virtio-MMIO transport of the VMM (pkg/vm/kvm/virtio.go) and the ways*)
(* its devices serve a split virtqueue:                                    *)
(*   "blk"    a goroutine per notification calls ProcessAvailRing          *)
(*            (virtio-blk, virtio-fs, the console's TX queue);             *)
(*   "net"    one persistent TX worker woken through a channel of capacity *)
(*            one, and an RX loop that fills a buffer per packet and       *)
(*            interrupts once per batch (virtio-net without vhost);        *)
(*   "vhost"  notifications are relayed to the kernel through an eventfd   *)
(*            (virtio-vsock, virtio-net with vhost).                       *)
(* The guest driver posts chains, notifies, and collects what was used     *)
(* from its interrupt handler.  Guest memory holds the two rings; indices  *)
(* are kept modulo IdxMod, the 2^16 of the code.                           *)
(***************************************************************************)
EXTENDS Naturals, Sequences, FiniteSets

CONSTANTS
  QNum,          \* queue size the driver sets
  IdxMod,        \* width of the ring indices, 2^16 in the code
  Kinds,         \* device kinds to check, a subset of {"blk", "net", "vhost"}
  Server,        \* goroutines that may serve the request queue
  RxServer,      \* goroutines that may run rxLoop
  Bounds,        \* per kind: chains posted in all, packets that arrive on the
                 \* TAP, and device resets
  TornResets     \* a driver may reset a device whose goroutine holds q.mu

ASSUME VirtqueueAssumption ==
  /\ QNum \in Nat \ {0} /\ IdxMod \in Nat /\ IdxMod % QNum = 0 /\ IdxMod > QNum
  /\ Kinds \subseteq {"blk", "net", "vhost"}
  /\ Bounds \in [Kinds -> [posts: Nat, packets: Nat, resets: Nat]]
  /\ "net" \in Kinds => "vhost" \in Kinds
  /\ Server \cap RxServer = {}
  /\ {"vhost worker", "nobody"} \cap (Server \cup RxServer) = {}
  /\ TornResets \in BOOLEAN

Req == "req"     \* the queue the driver sends requests or packets on
Rx  == "rx"      \* the queue whose buffers the device fills
Queues == {Req, Rx}
Chains == 1..QNum
Kernel == "vhost worker"    \* the kernel's worker
Workers == Server \cup RxServer \cup {Kernel}
Nobody == "nobody"

VARIABLES
  kind,      \* the device
  mmio,      \* status, queues ready, interruptStat, irqEfd, vhost back end
  last,      \* q.lastAvail, per queue
  mutex,     \* the goroutine that has locked q.mu
  ring,      \* guest memory: avail and used rings with their indices
  pc,        \* position of every goroutine
  chain,     \* descIdx of a goroutine
  did,       \* processed, or the batch of rxLoop is not empty
  token,     \* txNotify of virtio-net; for vhost, the kick eventfd
  tap,       \* packets read from the TAP so far
  pkt,       \* the packet in an rxLoop's buffer
  buf,       \* content of the RX buffers
  guest,     \* driver: free chains, next used entry, interrupt handler, kicks
  posts, resets,   \* bounds
  lostKick   \* history: the last notification reached no back end

vqVars == <<kind, mmio, last, mutex, ring, pc, chain, did, token, tap, pkt, buf,
            guest, posts, resets, lostKick>>

-----------------------------------------------------------------------------
\* The queue w works on.
Serving(w) == IF w \in RxServer THEN Rx ELSE Req

EmptyRing == [avail |-> [i \in 0..QNum-1 |-> 0], aidx |-> 0,
              used  |-> [i \in 0..QNum-1 |-> 0], uidx |-> 0]

Inc(i) == (i + 1) % IdxMod

\* The entry of a ring an index stands for, and how far apart two indices are.
Slot(i) == i % QNum
Gap(from, to) == (to + IdxMod - from) % IdxMod

\* The entries of a ring from index `from' up to index `to'.
Entries(entries, from, to) ==
  [i \in 1..Gap(from, to) |-> entries[Slot(from + i - 1)]]

\* What a queue holds, as its driver sees it; nothing while it is not set up.
Offered(q)  == IF mmio.ready THEN Entries(ring[q].avail, last[q], ring[q].aidx)
                             ELSE <<>>
Returned(q) == IF mmio.ready THEN Entries(ring[q].used, guest.seen[q], ring[q].uidx)
                             ELSE <<>>
Free(q)     == IF mmio.ready THEN guest.free[q] ELSE Chains

\* Between q.mu.Lock and q.mu.Unlock.
InCritical == {"read", "handle", "used", "stat", "efd", "unlock"}
Inside(w) == pc[w] \in (IF w \in RxServer THEN {"handle", "used"} ELSE InCritical)

Alive == mmio.status # "dead"

-----------------------------------------------------------------------------
VQInit ==
  /\ kind \in Kinds
  /\ mmio = [status |-> "reset", ready |-> FALSE, stat |-> 0, efd |-> FALSE,
             vhost |-> "off"]
  /\ last = [q \in Queues |-> 0]
  /\ mutex = [q \in Queues |-> Nobody]
  /\ ring = [q \in Queues |-> EmptyRing]
  /\ pc = [w \in Workers |-> "none"]
  /\ chain = [w \in Workers |-> 0]
  /\ did = [w \in Workers |-> FALSE]
  /\ token = FALSE
  /\ tap = 0
  /\ pkt = [w \in RxServer |-> 0]
  /\ buf = [c \in Chains |-> 0]
  /\ guest = [free |-> [q \in Queues |-> Chains], seen |-> [q \in Queues |-> 0],
              isr |-> FALSE, kick |-> FALSE, got |-> 0]
  /\ posts = 0 /\ resets = 0
  /\ lostKick = FALSE

-----------------------------------------------------------------------------
(* The driver.  Each MMIO access is one step: HandleMMIO holds v.mu.       *)

\* The driver lays out its rings and writes QueueNum, the addresses and
\* QueueReady for the queues.
SetupQueues ==
  /\ mmio.status = "reset"
  /\ mmio' = [mmio EXCEPT !.status = "driver", !.ready = TRUE]
  /\ ring' = [q \in Queues |-> EmptyRing]
  /\ guest' = [guest EXCEPT !.free = [q \in Queues |-> Chains], !.kick = FALSE,
                            !.seen = [q \in Queues |-> 0], !.isr = FALSE]
  /\ UNCHANGED <<kind, last, mutex, pc, chain, did, token, tap, pkt, buf, posts,
                 resets, lostKick>>

\* DRIVER_OK starts a goroutine that sets up the back end of a network or vsock
\* device.
DriverOK ==
  /\ mmio.status = "driver"
  /\ mmio' = [mmio EXCEPT !.status = "ok",
                          !.vhost = IF kind # "blk" THEN "setup" ELSE @]
  /\ UNCHANGED <<kind, last, mutex, ring, pc, chain, did, token, tap, pkt, buf,
                 guest, posts, resets, lostKick>>

\* virtio-net tries vhost-net.  With it the kernel serves the queues from here
\* on, and a kick that went to txNotify before is lost; without it StartIO
\* launches a TX and an RX loop.  A later initialisation finds what the first
\* one found, and its loops go on.
SetupVhostNet ==
  /\ kind = "net" /\ mmio.vhost = "setup"
  /\ \/ /\ kind' = "vhost"
        /\ mmio' = [mmio EXCEPT !.vhost = "on"]
        /\ lostKick' = token /\ token' = FALSE
        /\ \A w \in Workers : pc[w] = "none"
        /\ UNCHANGED pc
     \/ /\ mmio' = [mmio EXCEPT !.vhost = "off"]
        /\ \E t \in Server, r \in RxServer :
             /\ pc[t] = "none" /\ pc[r] = "none"
             /\ pc' = [pc EXCEPT ![t] = "wait", ![r] = "poll"]
        /\ UNCHANGED <<kind, token, lostKick>>
  /\ UNCHANGED <<last, mutex, ring, chain, did, tap, pkt, buf, guest, posts, resets>>

\* SetupVhost: the kernel has the memory table, the rings and the eventfds,
\* or one of the calls failed and the device stays without a back end.
SetupVhost ==
  /\ kind = "vhost" /\ mmio.vhost = "setup"
  /\ \E r \in {"on", "failed"} : mmio' = [mmio EXCEPT !.vhost = r]
  /\ UNCHANGED <<kind, last, mutex, ring, pc, chain, did, token, tap, pkt, buf,
                 guest, posts, resets, lostKick>>

\* The driver writes a chain to the available ring.
Post(q, c) ==
  /\ mmio.status = "ok"
  /\ posts < Bounds[kind].posts
  /\ q = Rx => kind = "net"
  /\ c \in guest.free[q]
  /\ ring' = [ring EXCEPT ![q].avail[Slot(ring[q].aidx)] = c,
                          ![q].aidx = Inc(@)]
  /\ guest' = [guest EXCEPT !.free[q] = @ \ {c}, !.kick = @ \/ q = Req]
  /\ posts' = posts + 1
  /\ UNCHANGED <<kind, mmio, last, mutex, pc, chain, did, token, tap, pkt, buf,
                 resets, lostKick>>

\* A mutant that starts no goroutine while another one is at work.
NotifyIfIdle ==
  /\ mmio.status = "ok"
  /\ guest.kick
  /\ guest' = [guest EXCEPT !.kick = FALSE]
  /\ pc' = IF kind = "blk" /\ \A w \in Server : pc[w] = "none"
           THEN [pc EXCEPT ![CHOOSE w \in Server : TRUE] = "lock"] ELSE pc
  /\ token' = (token \/ kind = "net" \/ mmio.vhost = "on")
  /\ lostKick' = (kind = "vhost" /\ mmio.vhost # "on")
  /\ UNCHANGED <<kind, mmio, last, mutex, ring, chain, did, tap, pkt, buf, posts,
                 resets>>

\* A write to QueueNotify runs HandleQueue in a goroutine: it becomes a
\* server (blk), puts the token into txNotify unless one is there (net), or
\* writes the kick eventfd, which may not exist yet (vhost).
Notify ==
  /\ mmio.status = "ok"
  /\ guest.kick
  /\ guest' = [guest EXCEPT !.kick = FALSE]
  /\ \/ /\ kind = "blk"
        /\ \E w \in Server : pc[w] = "none" /\ pc' = [pc EXCEPT ![w] = "lock"]
        /\ UNCHANGED <<token, lostKick>>
     \/ /\ kind = "net"
        /\ token' = TRUE
        /\ UNCHANGED <<pc, lostKick>>
     \/ /\ kind = "vhost"
        /\ token' = (mmio.vhost = "on")
        /\ lostKick' = (mmio.vhost # "on")
        /\ UNCHANGED pc
  /\ UNCHANGED <<kind, mmio, last, mutex, ring, chain, did, tap, pkt, buf, posts,
                 resets>>

\* The driver's interrupt handler reads InterruptStatus and writes it back to
\* InterruptAck; with no bit set the interrupt was not for it.
Interrupt ==
  /\ Alive
  /\ mmio.efd
  /\ ~guest.isr
  /\ mmio' = [mmio EXCEPT !.efd = FALSE, !.stat = 0]
  /\ guest' = [guest EXCEPT !.isr = (mmio.stat = 1)]
  /\ UNCHANGED <<kind, last, mutex, ring, pc, chain, did, token, tap, pkt, buf,
                 posts, resets, lostKick>>

\* ... then takes what was used off the rings, and leaves when both are empty.
CollectUsed(q) ==
  /\ Alive
  /\ guest.isr
  /\ mmio.ready
  /\ guest.seen[q] # ring[q].uidx
  /\ LET c == ring[q].used[Slot(guest.seen[q])] IN
       /\ guest' = [guest EXCEPT !.free[q] = @ \cup {c}, !.seen[q] = Inc(@),
                                 !.got = IF q = Rx THEN buf[c] ELSE @]
       /\ buf' = IF q = Rx THEN [buf EXCEPT ![c] = 0] ELSE buf
  /\ UNCHANGED <<kind, mmio, last, mutex, ring, pc, chain, did, token, tap, pkt,
                 posts, resets, lostKick>>

InterruptReturns ==
  /\ guest.isr
  /\ mmio.ready => \A q \in Queues : guest.seen[q] = ring[q].uidx
  /\ guest' = [guest EXCEPT !.isr = FALSE]
  /\ UNCHANGED <<kind, mmio, last, mutex, ring, pc, chain, did, token, tap, pkt,
                 buf, posts, resets, lostKick>>

\* The driver has all its requests back and resets the device: reset clears
\* the registers and assigns a zero virtqueue, its mutex included.  Goroutines
\* are not stopped, and nothing tells a vhost back end.
Reset ==
  /\ mmio.status = "ok" /\ kind # "vhost"
  /\ resets < Bounds[kind].resets
  /\ guest.free[Req] = Chains
  /\ TornResets \/ \A w \in Workers : ~Inside(w)
  /\ mmio.vhost # "setup"
  /\ mmio' = [mmio EXCEPT !.status = "reset", !.ready = FALSE, !.stat = 0]
  /\ last' = [q \in Queues |-> 0]
  /\ mutex' = [q \in Queues |-> Nobody]
  /\ guest' = [guest EXCEPT !.isr = FALSE, !.kick = FALSE]
  /\ resets' = resets + 1
  /\ UNCHANGED <<kind, ring, pc, chain, did, token, tap, pkt, buf, posts, lostKick>>

-----------------------------------------------------------------------------
(* Serving the request queue: ProcessAvailRing.                            *)

\* txLoop receives from txNotify.
Wake(w) ==
  /\ Alive
  /\ w \in Server /\ pc[w] = "wait"
  /\ token
  /\ token' = FALSE
  /\ pc' = [pc EXCEPT ![w] = "lock"]
  /\ UNCHANGED <<kind, mmio, last, mutex, ring, chain, did, tap, pkt, buf, guest,
                 posts, resets, lostKick>>

\* The kernel's worker reads the kick eventfd and has the rings to itself.
KernelWakes ==
  /\ mmio.vhost = "on" /\ token
  /\ pc[Kernel] = "none"
  /\ token' = FALSE
  /\ pc' = [pc EXCEPT ![Kernel] = "read"]
  /\ mutex' = [mutex EXCEPT ![Req] = Kernel]
  /\ did' = [did EXCEPT ![Kernel] = FALSE]
  /\ UNCHANGED <<kind, mmio, last, ring, chain, tap, pkt, buf, guest, posts,
                 resets, lostKick>>

\* Lock q.mu; a queue that is not ready is left alone.
LockQueue(w) ==
  /\ Alive
  /\ pc[w] = "lock"
  /\ mutex[Req] = Nobody
  /\ mutex' = [mutex EXCEPT ![Req] = w]
  /\ did' = [did EXCEPT ![w] = FALSE]
  /\ pc' = [pc EXCEPT ![w] = IF mmio.ready THEN "read" ELSE "unlock"]
  /\ UNCHANGED <<kind, mmio, last, ring, chain, token, tap, pkt, buf, guest, posts,
                 resets, lostKick>>

\* A mutant that leaves the loop without an interrupt.
TakeChainSilent(w) ==
  /\ Alive
  /\ pc[w] = "read"
  /\ IF last[Req] = ring[Req].aidx
     THEN /\ pc' = [pc EXCEPT ![w] = "unlock"]
          /\ UNCHANGED chain
     ELSE /\ chain' = [chain EXCEPT ![w] = ring[Req].avail[Slot(last[Req])]]
          /\ pc' = [pc EXCEPT ![w] = "handle"]
  /\ UNCHANGED <<kind, mmio, last, mutex, ring, did, token, tap, pkt, buf, guest,
                 posts, resets, lostKick>>

\* Compare lastAvail with the available index and take the next head, or
\* leave the loop and interrupt if anything was processed.
TakeChain(w) ==
  /\ Alive
  /\ pc[w] = "read"
  /\ IF last[Req] = ring[Req].aidx
     THEN /\ pc' = [pc EXCEPT ![w] = IF did[w] THEN "stat" ELSE "unlock"]
          /\ UNCHANGED chain
     ELSE /\ chain' = [chain EXCEPT ![w] = ring[Req].avail[Slot(last[Req])]]
          /\ pc' = [pc EXCEPT ![w] = "handle"]
  /\ UNCHANGED <<kind, mmio, last, mutex, ring, did, token, tap, pkt, buf, guest,
                 posts, resets, lostKick>>

\* The device's handler: a disk request, a FUSE request, a frame to the TAP.
Handle(w) ==
  /\ Alive
  /\ w \notin RxServer /\ pc[w] = "handle"
  /\ pc' = [pc EXCEPT ![w] = "used"]
  /\ UNCHANGED <<kind, mmio, last, mutex, ring, chain, did, token, tap, pkt, buf,
                 guest, posts, resets, lostKick>>

\* A mutant that does not advance lastAvail.
PutUsedAgain(w) ==
  LET q == Serving(w) IN
  /\ Alive
  /\ pc[w] = "used" /\ mmio.ready
  /\ ring' = [ring EXCEPT ![q].used[Slot(ring[q].uidx)] = chain[w],
                          ![q].uidx = Inc(@)]
  /\ did' = [did EXCEPT ![w] = TRUE]
  /\ pc' = [pc EXCEPT ![w] = IF w \in RxServer THEN "more" ELSE "read"]
  /\ mutex' = IF w \in RxServer THEN [mutex EXCEPT ![q] = Nobody] ELSE mutex
  /\ chain' = [chain EXCEPT ![w] = 0]
  /\ UNCHANGED <<mmio, last, kind, token, tap, pkt, buf, guest, posts, resets, lostKick>>

\* Append to the used ring and count the chain as taken.  On a queue that was
\* reset, num is 0 and the remainder panics.
PutUsed(w) ==
  LET q == Serving(w) IN
  /\ Alive
  /\ pc[w] = "used"
  /\ IF ~mmio.ready
     THEN /\ mmio' = [mmio EXCEPT !.status = "dead"]
          /\ UNCHANGED <<last, mutex, ring, pc, chain, did>>
     ELSE /\ ring' = [ring EXCEPT ![q].used[Slot(ring[q].uidx)] = chain[w],
                                  ![q].uidx = Inc(@)]
          /\ last' = [last EXCEPT ![q] = Inc(@)]
          /\ did' = [did EXCEPT ![w] = TRUE]
          /\ pc' = [pc EXCEPT ![w] = IF w \in RxServer THEN "more" ELSE "read"]
          /\ mutex' = IF w \in RxServer THEN [mutex EXCEPT ![q] = Nobody] ELSE mutex
          /\ chain' = [chain EXCEPT ![w] = 0]
          /\ UNCHANGED mmio
  /\ UNCHANGED <<kind, token, tap, pkt, buf, guest, posts, resets, lostKick>>

\* injectIRQ: set the bit the driver will read, then write the eventfd.
RaiseStat(w) ==
  /\ Alive
  /\ pc[w] = "stat"
  /\ mmio' = [mmio EXCEPT !.stat = 1]
  /\ pc' = [pc EXCEPT ![w] = "efd"]
  /\ UNCHANGED <<kind, last, mutex, ring, chain, did, token, tap, pkt, buf, guest,
                 posts, resets, lostKick>>

SignalEfd(w) ==
  /\ Alive
  /\ pc[w] = "efd"
  /\ mmio' = [mmio EXCEPT !.efd = TRUE]
  /\ pc' = [pc EXCEPT ![w] = IF w \in RxServer THEN "poll" ELSE "unlock"]
  /\ did' = [did EXCEPT ![w] = FALSE]
  /\ UNCHANGED <<kind, last, mutex, ring, chain, token, tap, pkt, buf, guest,
                 posts, resets, lostKick>>

\* The deferred unlock.  Unlocking a mutex nobody holds is a fatal error;
\* unlocking one that somebody else has locked since is not noticed.
UnlockQueue(w) ==
  /\ Alive
  /\ pc[w] = "unlock"
  /\ IF mutex[Req] = Nobody
     THEN mmio' = [mmio EXCEPT !.status = "dead"] /\ UNCHANGED <<mutex, pc>>
     ELSE /\ mutex' = [mutex EXCEPT ![Req] = Nobody]
          /\ pc' = [pc EXCEPT ![w] = IF kind = "net" THEN "wait" ELSE "none"]
          /\ UNCHANGED mmio
  /\ UNCHANGED <<kind, last, ring, chain, did, token, tap, pkt, buf, guest, posts,
                 resets, lostKick>>

-----------------------------------------------------------------------------
(* rxLoop of virtio-net.                                                   *)

\* A packet arrives on the TAP and is read: the first of a batch (a blocking
\* read) or one more (after a poll without timeout).
ReadPacket(w) ==
  /\ Alive
  /\ w \in RxServer /\ pc[w] \in {"poll", "more"}
  /\ tap < Bounds[kind].packets
  /\ tap' = tap + 1
  /\ pkt' = [pkt EXCEPT ![w] = tap + 1]
  /\ did' = [did EXCEPT ![w] = (pc[w] = "more")]
  /\ pc' = [pc EXCEPT ![w] = "rxlock"]
  /\ UNCHANGED <<kind, mmio, last, mutex, ring, chain, token, buf, guest, posts,
                 resets, lostKick>>

\* No more packets, or the batch is full: one interrupt for all of it.
BatchEnds(w) ==
  /\ Alive
  /\ pc[w] = "more"
  /\ pc' = [pc EXCEPT ![w] = "stat"]
  /\ UNCHANGED <<kind, mmio, last, mutex, ring, chain, did, token, tap, pkt, buf,
                 guest, posts, resets, lostKick>>

\* ProcessSingleAvailNoIRQ: without a free buffer the packet is dropped, and
\* the batch ends.
RxTake(w) ==
  /\ Alive
  /\ pc[w] = "rxlock"
  /\ mutex[Rx] = Nobody
  /\ IF ~mmio.ready \/ last[Rx] = ring[Rx].aidx
     THEN /\ pc' = [pc EXCEPT ![w] = IF did[w] THEN "stat" ELSE "poll"]
          /\ pkt' = [pkt EXCEPT ![w] = 0]
          /\ UNCHANGED <<mutex, chain>>
     ELSE /\ mutex' = [mutex EXCEPT ![Rx] = w]
          /\ chain' = [chain EXCEPT ![w] = ring[Rx].avail[Slot(last[Rx])]]
          /\ pc' = [pc EXCEPT ![w] = "handle"]
          /\ UNCHANGED pkt
  /\ UNCHANGED <<kind, mmio, last, ring, did, token, tap, buf, guest, posts,
                 resets, lostKick>>

\* rxHandler copies the packet into the guest's buffers.
RxCopy(w) ==
  /\ Alive
  /\ w \in RxServer /\ pc[w] = "handle"
  /\ buf' = [buf EXCEPT ![chain[w]] = pkt[w]]
  /\ pkt' = [pkt EXCEPT ![w] = 0]
  /\ pc' = [pc EXCEPT ![w] = "used"]
  /\ UNCHANGED <<kind, mmio, last, mutex, ring, chain, did, token, tap, guest,
                 posts, resets, lostKick>>

-----------------------------------------------------------------------------
Serve(w) ==
  \/ Wake(w) \/ LockQueue(w) \/ TakeChain(w) \/ Handle(w) \/ PutUsed(w)
  \/ RaiseStat(w) \/ SignalEfd(w) \/ UnlockQueue(w)
  \/ BatchEnds(w) \/ RxTake(w) \/ RxCopy(w)

VQNext ==
  \/ SetupQueues \/ DriverOK \/ SetupVhost \/ SetupVhostNet
  \/ \E q \in Queues, c \in Chains : Post(q, c)
  \/ Notify \/ Interrupt \/ InterruptReturns \/ Reset
  \/ \E q \in Queues : CollectUsed(q)
  \/ KernelWakes
  \/ \E w \in Workers : Serve(w)
  \/ \E w \in RxServer : ReadPacket(w)

\* Goroutines and the kernel go on; a driver notifies what it has posted and
\* serves its interrupts.
VQFairness ==
  /\ \A w \in Workers : WF_vqVars(Serve(w))
  /\ WF_vqVars(KernelWakes) /\ WF_vqVars(Notify)
  /\ WF_vqVars(Interrupt \/ InterruptReturns)
  /\ \A q \in Queues : WF_vqVars(CollectUsed(q))
  /\ WF_vqVars(SetupVhost \/ SetupVhostNet)

VQSpec == VQInit /\ [][VQNext]_vqVars /\ VQFairness

-----------------------------------------------------------------------------
VQTypeOK ==
  /\ kind \in Kinds
  /\ mmio \in [status: {"reset", "driver", "ok", "dead"}, ready: BOOLEAN,
               stat: {0, 1}, efd: BOOLEAN, vhost: {"off", "setup", "on", "failed"}]
  /\ last \in [Queues -> 0..IdxMod-1]
  /\ mutex \in [Queues -> Workers \cup {Nobody}]
  /\ \A q \in Queues :
       /\ ring[q].avail \in [0..QNum-1 -> 0..QNum]
       /\ ring[q].used \in [0..QNum-1 -> 0..QNum]
       /\ {ring[q].aidx, ring[q].uidx} \subseteq 0..IdxMod-1
  /\ pc \in [Workers -> InCritical \cup
              {"none", "wait", "lock", "poll", "more", "rxlock"}]
  /\ chain \in [Workers -> 0..QNum]
  /\ did \in [Workers -> BOOLEAN]
  /\ {token, lostKick} \subseteq BOOLEAN
  /\ buf \in [Chains -> 0..Bounds[kind].packets]
  /\ guest.free \in [Queues -> SUBSET Chains]

\* "Serialize access" (virtio.go:447): at most one goroutine is between Lock
\* and Unlock of a queue.
WorkersExclude ==
  \A v, w \in Workers : Inside(v) /\ Inside(w) /\ Serving(v) = Serving(w) => v = w

\* No interleaving of notifications, interrupts and resets makes a worker
\* unlock a mutex it does not hold or divide by the size of a reset queue.
VMMSurvives == Alive

\* An interrupt is never lost: used entries the driver has not collected have
\* an interrupt pending, a handler running, or a worker about to raise one.
InterruptPending ==
  \A q \in Queues : Returned(q) # <<>> =>
    \/ guest.isr
    \/ mmio.stat = 1 /\ mmio.efd
    \/ \E w \in Workers :
         /\ Serving(w) = q /\ did[w]
         /\ pc[w] \in {"read", "handle", "used", "more", "rxlock", "stat", "efd"}

\* The invariant of the transport: the four above together.
QueueSafe == VQTypeOK /\ WorkersExclude /\ VMMSurvives /\ InterruptPending

\* The two queues as abstract request queues.
Worked(q) == \E w \in Workers : Serving(w) = q /\ pc[w] = "used"
ReqQueue == INSTANCE RequestQueue WITH Chain <- Chains, free <- Free(Req),
              offered <- Offered(Req), done <- Worked(Req), returned <- Returned(Req)
RxQueue  == INSTANCE RequestQueue WITH Chain <- Chains, free <- Free(Rx),
              offered <- Offered(Rx), done <- Worked(Rx), returned <- Returned(Rx)

\* Packets reach the guest in the order of the TAP and none twice, as long as
\* one rxLoop runs (a reset leaves the old one running beside the new one).
PacketsInOrder ==
  [][CollectUsed(Rx) /\ resets = 0 => guest'.got > guest.got]_vqVars

\* Every posted chain is worked on once, in the order it was posted, and
\* returned once, whatever goroutines serve the queue: each queue implements
\* RequestQueue, and packets stay in order.
QueuesServe == ReqQueue!RQSpec /\ RxQueue!RQSpec /\ PacketsInOrder

\* What is posted is returned: no notification gets lost between the channel
\* of capacity one, the mutex and the loop.  A kick before the vhost back end
\* exists is lost, and stays so until the next one.
ChainsAreServed ==
  (Offered(Req) # <<>>) ~>
     \/ Offered(Req) = <<>>
     \/ lostKick \/ mmio.vhost = "failed"
=============================================================================
