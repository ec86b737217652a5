------------------------------ MODULE NetLinks -------------------------------
(***************************************************************************)
(* How a container gets on the bridge (pkg/container/net, with its callers *)
(* RunContainer, crun and ContainerInitProc): each `sandal run' reads the  *)
(* other containers' records, makes sure sandal0 exists, picks an address, *)
(* saves it, flushes the host's neighbour entries, starts the child and    *)
(* hands it a veth; the child waits for the link, configures it, announces *)
(* its address and execs.  A long-lived sandal announces from outside as   *)
(* well.  Runs of different names interleave: the lock is per name.        *)
(* Addresses are offsets from the bridge's own address, which is 0; a link *)
(* address (MAC) is the number of the start that made the link.            *)
(***************************************************************************)
EXTENDS Naturals, FiniteSets, FiniteSetsExt

CONSTANTS
  Cont,
  Startup,   \* containers the daemon runs: recovered, announced from outside
  LastIP,    \* the broadcast address of the bridge's subnet
  MaxRuns    \* starts of containers

ASSUME NetAssumption == Startup \subseteq Cont /\ {LastIP, MaxRuns} \subseteq Nat \ {0}

VARIABLES
  bridge,     \* sandal0: "none", "bare", "addressed"
  npc,        \* the run of a container
  snap,       \* addresses in use, as read from the store (who: history, whose
              \* present record was read)
  pick,       \* the address picked for a container
  rec,        \* the stored record: status and address
  nlink,      \* the veth: "none", "host", "ns", "up"
  nmac,       \* its MAC
  child,      \* the init process: "none", "wait", "conf", "final", "run"
  anns,       \* goroutines of AnnounceContainer
  cache,      \* external: a neighbour on the bridge, address to MAC
  neigh,      \* the host's neighbour table on sandal0
  nruns,
  saw,        \* history: containers whose present record this one had read when
              \* it picked its address
  revived,    \* history: how a container was recovered since it saved its record:
              \* "no", "running", or "err" if ever from a record that counts as dead
  late,       \* history: an announcement came after its container was gone
  doubled     \* history: two live records had the same address

netVars == <<bridge, npc, snap, pick, rec, nlink, nmac, child, anns, cache, neigh,
             nruns, saw, revived, late, doubled>>

NoIp == 0
Ips == 1..(LastIP + MaxRuns)

NetInit ==
  /\ bridge = "none" /\ npc = [c \in Cont |-> "off"]
  /\ snap = [c \in Cont |-> [used |-> {}, who |-> {}]] /\ pick = [c \in Cont |-> NoIp]
  /\ rec = [c \in Cont |-> [st |-> "none", ip |-> NoIp]]
  /\ nlink = [c \in Cont |-> "none"] /\ nmac = [c \in Cont |-> 0]
  /\ child = [c \in Cont |-> "none"] /\ anns = {}
  /\ cache = [i \in Ips |-> 0] /\ neigh = [i \in Ips |-> 0] /\ nruns = 0
  /\ saw = [c \in Cont |-> {}] /\ revived = [c \in Cont |-> "no"] /\ late = FALSE /\ doubled = FALSE

wireVars == <<nlink, nmac, child, anns, cache, neigh>>
history == <<saw, revived, late, doubled>>

-----------------------------------------------------------------------------
\* addrInUse: containers that have exited or failed give their address back.
Dead(st) == st \in {"none", "exit", "err"}
Live(c) == {d \in Cont \ {c} : ~Dead(rec[d].st)}
Recorded(c) == {d \in Cont \ {c} : rec[d].st # "none"}
Used(c) == {rec[d].ip : d \in Live(c)}

Doubles(r) ==
  \E c, d \in Cont : /\ c # d /\ r[c].ip = r[d].ip /\ r[c].ip # NoIp
                     /\ ~Dead(r[c].st) /\ ~Dead(r[d].st)

\* RunContainer and ParseFlag: read the records, without the one to replace.
ReadStore(c) ==
  /\ npc[c] = "off" /\ nruns < MaxRuns
  /\ npc' = [npc EXCEPT ![c] = "lookup"]
  /\ snap' = [snap EXCEPT ![c] = [used |-> Used(c), who |-> Recorded(c)]]
  /\ nruns' = nruns + 1
  /\ nmac' = [nmac EXCEPT ![c] = nruns + 1]
  /\ UNCHANGED <<bridge, pick, rec, nlink, child, anns, cache, neigh, history>>

\* CreateDefaultBridge, first look.
LookupBridge(c) ==
  /\ npc[c] = "lookup"
  /\ npc' = [npc EXCEPT ![c] = IF bridge = "none" THEN "add" ELSE "alloc"]
  /\ UNCHANGED <<bridge, snap, pick, rec, wireVars, nruns, history>>

\* linkAdd: another run may have been faster (EEXIST); that one sets it up.
AddBridge(c) ==
  /\ npc[c] = "add"
  /\ IF bridge = "none"
     THEN bridge' = "bare" /\ npc' = [npc EXCEPT ![c] = "setup"]
     ELSE npc' = [npc EXCEPT ![c] = "alloc"] /\ UNCHANGED bridge
  /\ UNCHANGED <<snap, pick, rec, wireVars, nruns, history>>

SetupBridge(c) ==
  /\ npc[c] = "setup"
  /\ bridge' = "addressed"
  /\ npc' = [npc EXCEPT ![c] = "alloc"]
  /\ UNCHANGED <<snap, pick, rec, wireVars, nruns, history>>

\* IPRequest that takes the first address it tries.
IPRequestFirst(used) == 1

\* IPRequest: count up from the bridge's address to the first one not in use.
\* The network the result is compared with is the very slice that is counted
\* up, and lastIP reads the first bytes of a 16-byte address, so neither the
\* end of the subnet nor its broadcast address stops the count.
IPRequest(used) == Min(Ips \ used)

\* Link.defaults: the address, if sandal0 has one by now.
Allocate(c) ==
  /\ npc[c] = "alloc"
  /\ pick' = [pick EXCEPT ![c] =
                IF bridge = "addressed" THEN IPRequest(snap[c].used) ELSE NoIp]
  /\ npc' = [npc EXCEPT ![c] = "save"]
  /\ UNCHANGED <<bridge, snap, rec, wireVars, nruns, history>>

\* SetContainer, before anything is started.
SaveRecord(c) ==
  /\ npc[c] = "save"
  /\ rec' = [rec EXCEPT ![c] = [st |-> "new", ip |-> pick[c]]]
  /\ npc' = [npc EXCEPT ![c] = "flush"]
  /\ doubled' = (doubled \/ Doubles(rec'))
  /\ saw' = [x \in Cont |-> IF x = c THEN snap[c].who ELSE saw[x] \ {c}]
  /\ snap' = [x \in Cont |-> [snap[x] EXCEPT !.who = @ \ {c}]]
  /\ revived' = [revived EXCEPT ![c] = "no"]
  /\ UNCHANGED <<bridge, pick, wireVars, nruns, late>>

\* FlushNeighForIPs that comes to nothing.
FlushNeighNothing(c) ==
  /\ npc[c] = "flush"
  /\ npc' = [npc EXCEPT ![c] = "spawn"]
  /\ UNCHANGED <<bridge, snap, pick, rec, wireVars, nruns, history>>

\* FlushNeighForIPs on sandal0.
FlushNeigh(c) ==
  /\ npc[c] = "flush"
  /\ neigh' = [i \in Ips |-> IF i = rec[c].ip THEN 0 ELSE neigh[i]]
  /\ npc' = [npc EXCEPT ![c] = "spawn"]
  /\ UNCHANGED <<bridge, snap, pick, rec, nlink, nmac, child, anns, cache, nruns, history>>

\* crun: the child runs, its pid is published and the name is unlocked.
Spawn(c) ==
  /\ npc[c] = "spawn"
  /\ rec' = [rec EXCEPT ![c].st = "running"]
  /\ doubled' = (doubled \/ Doubles(rec'))
  /\ child' = [child EXCEPT ![c] = "wait"]
  /\ npc' = [npc EXCEPT ![c] = "veth"]
  /\ UNCHANGED <<bridge, snap, pick, nlink, nmac, anns, cache, neigh, nruns, saw,
                 revived, late>>

\* Link.Create: the pair exists, its host end is up and on the bridge.
CreateVeth(c) ==
  /\ npc[c] = "veth"
  /\ nlink' = [nlink EXCEPT ![c] = "host"]
  /\ npc' = [npc EXCEPT ![c] = "move"]
  /\ UNCHANGED <<bridge, snap, pick, rec, nmac, child, anns, cache, neigh, nruns, history>>

\* It fails: the guard of crun kills the child and records the error.
CreateFails(c) ==
  /\ npc[c] = "veth"
  /\ child' = [child EXCEPT ![c] = "none"]
  /\ rec' = [rec EXCEPT ![c].st = "err"]
  /\ npc' = [npc EXCEPT ![c] = "off"]
  /\ UNCHANGED <<bridge, snap, pick, nlink, nmac, anns, cache, neigh, nruns, history>>

\* SetNsPid; the error when the child is gone is ignored.  A daemon announces
\* the address from now on.
MoveToNs(c) ==
  /\ npc[c] = "move"
  /\ nlink' = [nlink EXCEPT ![c] = IF child[c] = "none" THEN "none" ELSE "ns"]
  /\ anns' = IF c \in Startup /\ child[c] # "none" /\ rec[c].ip # NoIp
             THEN anns \cup {[c |-> c, ip |-> rec[c].ip, mac |-> nmac[c], ready |-> FALSE]}
             ELSE anns
  /\ npc' = [npc EXCEPT ![c] = "placed"]
  /\ UNCHANGED <<bridge, snap, pick, rec, nmac, child, cache, neigh, nruns, history>>

-----------------------------------------------------------------------------
\* The child: the link comes within 5 s, or init fails.
LinkSeen(c) ==
  /\ child[c] = "wait" /\ nlink[c] = "ns"
  /\ child' = [child EXCEPT ![c] = "conf"]
  /\ UNCHANGED <<bridge, npc, snap, pick, rec, nlink, nmac, anns, cache, neigh, nruns,
                 history>>

\* Configure: the MAC, the addresses, then up.
Configure(c) ==
  /\ child[c] = "conf"
  /\ nlink' = [nlink EXCEPT ![c] = "up"]
  /\ child' = [child EXCEPT ![c] = "final"]
  /\ UNCHANGED <<bridge, npc, snap, pick, rec, nmac, anns, cache, neigh, nruns, history>>

Told(t, ip, mac) == [i \in Ips |-> IF i = ip /\ t[i] # 0 THEN mac ELSE t[i]]

\* FinalizeLinks without the announcement.
FinalizeSilent(c) ==
  /\ child[c] = "final"
  /\ child' = [child EXCEPT ![c] = "run"]
  /\ UNCHANGED <<bridge, npc, snap, pick, rec, nlink, nmac, anns, cache, neigh, nruns,
                 history>>

\* FinalizeLinks, AnnounceARP to everyone that has an entry, exec.
Finalize(c) ==
  /\ child[c] = "final"
  /\ cache' = Told(cache, rec[c].ip, nmac[c])
  /\ neigh' = Told(neigh, rec[c].ip, nmac[c])
  /\ child' = [child EXCEPT ![c] = "run"]
  /\ UNCHANGED <<bridge, npc, snap, pick, rec, nlink, nmac, anns, nruns, history>>

\* The child ends at any moment (WaitUntilCreated times out, init fails, the
\* command returns): the namespace and the link go with it.  A container of the
\* daemon keeps the status of its record, others record their exit.
ChildEnds(c) ==
  /\ npc[c] = "placed" /\ child[c] # "none"
  /\ child' = [child EXCEPT ![c] = "none"]
  /\ nlink' = [nlink EXCEPT ![c] = "none"]
  /\ rec' = IF c \in Startup THEN rec ELSE [rec EXCEPT ![c].st = "exit"]
  /\ npc' = [npc EXCEPT ![c] = "off"]
  /\ UNCHANGED <<bridge, snap, pick, nmac, anns, cache, neigh, nruns, history>>

\* contRecover: host.Run with the record as it is, its address included.
Recover(c) ==
  /\ c \in Startup /\ npc[c] = "off" /\ rec[c].st \in {"running", "err"}
  /\ nruns < MaxRuns
  /\ nruns' = nruns + 1
  /\ nmac' = [nmac EXCEPT ![c] = nruns + 1]
  /\ npc' = [npc EXCEPT ![c] = "spawn"]
  /\ revived' = [revived EXCEPT ![c] = IF @ = "err" THEN @ ELSE rec[c].st]
  /\ UNCHANGED <<bridge, snap, pick, rec, nlink, child, anns, cache, neigh, saw, late, doubled>>

-----------------------------------------------------------------------------
\* AnnounceInNetns: the link is up with the address.
LinkCarries(a) ==
  /\ a \in anns /\ ~a.ready /\ nlink[a.c] = "up" /\ nmac[a.c] = a.mac
  /\ anns' = (anns \ {a}) \cup {[a EXCEPT !.ready = TRUE]}
  /\ UNCHANGED <<bridge, npc, snap, pick, rec, nlink, nmac, child, cache, neigh,
                 nruns, history>>

\* announceLink, after the wait for duplicate address detection: the namespace
\* stays open, so that it goes on when the container has ended.
AnnounceSends(a) ==
  /\ a \in anns /\ a.ready
  /\ cache' = Told(cache, a.ip, a.mac)
  /\ neigh' = Told(neigh, a.ip, a.mac)
  /\ anns' = anns \ {a}
  /\ late' = (late \/ nlink[a.c] # "up" \/ nmac[a.c] # a.mac)
  /\ UNCHANGED <<bridge, npc, snap, pick, rec, nlink, nmac, child, nruns, saw, revived,
                 doubled>>

\* The link does not come in time.
AnnounceGivesUp(a) ==
  /\ a \in anns /\ ~a.ready
  /\ anns' = anns \ {a}
  /\ UNCHANGED <<bridge, npc, snap, pick, rec, nlink, nmac, child, cache, neigh,
                 nruns, history>>

\* external: a neighbour, or the host, resolves the address of c.
NeighbourResolves(c) ==
  /\ nlink[c] = "up" /\ rec[c].ip # NoIp
  /\ cache' = [cache EXCEPT ![rec[c].ip] = nmac[c]]
  /\ neigh' = [neigh EXCEPT ![rec[c].ip] = nmac[c]]
  /\ UNCHANGED <<bridge, npc, snap, pick, rec, nlink, nmac, child, anns, nruns, history>>

NetNext ==
  \/ \E c \in Cont :
       \/ ReadStore(c) \/ LookupBridge(c) \/ AddBridge(c) \/ SetupBridge(c)
       \/ Allocate(c) \/ SaveRecord(c) \/ FlushNeigh(c) \/ Spawn(c)
       \/ CreateVeth(c) \/ CreateFails(c) \/ MoveToNs(c) \/ LinkSeen(c)
       \/ Configure(c) \/ Finalize(c) \/ ChildEnds(c) \/ Recover(c)
       \/ NeighbourResolves(c)
  \/ \E a \in anns : LinkCarries(a) \/ AnnounceSends(a) \/ AnnounceGivesUp(a)

NetSpec == NetInit /\ [][NetNext]_netVars

-----------------------------------------------------------------------------
NetTypeOK ==
  /\ rec \in [Cont -> [st : {"none", "new", "running", "exit", "err"},
                       ip : Ips \cup {NoIp}]]
  /\ nlink \in [Cont -> {"none", "host", "ns", "up"}]
  /\ child \in [Cont -> {"none", "wait", "conf", "final", "run"}]
  /\ cache \in [Ips -> 0..MaxRuns]

\* Two live containers share an address only if neither had its record in the
\* store when the other read it, or if one was recovered with the address of a
\* record that others may have taken for dead.
UniqueAddress ==
  \A c, d \in Cont :
    c # d /\ ~Dead(rec[c].st) /\ ~Dead(rec[d].st) /\ rec[c].ip = rec[d].ip
      /\ rec[c].ip # NoIp
    => (d \notin saw[c] /\ c \notin saw[d]) \/ "err" \in {revived[c], revived[d]}

\* From the moment its link is up, the host sends to a container's own MAC or
\* asks: no entry of an earlier holder of the address is left (a recovery does
\* not flush: only runs promise this).  After exec no
\* neighbour has a stale entry either.  (doubled: see above; late: the announcer of a container
\* that has ended keeps its namespace and announces the old MAC.)
NoStaleNeighbour ==
  \A c \in Cont : ~late /\ ~doubled /\ rec[c].ip # NoIp =>
    /\ nlink[c] = "up" /\ revived[c] = "no" => neigh[rec[c].ip] \in {0, nmac[c]}
    /\ child[c] = "run" => cache[rec[c].ip] \in {0, nmac[c]}

\* The invariant of links and addresses.
LinksSafe == NetTypeOK /\ UniqueAddress /\ NoStaleNeighbour

\* docs/design/boot-sequence.md:103 "allocate IP from bridge subnet": refuted,
\* the count runs over the broadcast address and out of the subnet.
AddressInSubnet == \A c \in Cont : rec[c].ip < LastIP
=============================================================================
