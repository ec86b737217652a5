------------------------------ MODULE DhcpLease ------------------------------
(***************************************************************************)
(* The DHCP client and what keeps a lease alive: the exchanges of          *)
(* pkg/lib/dhcp (v4 DORA, v6 address "na", v6 prefix delegation "pd") over *)
(* a network that loses, delays and reorders, the lease loop that renews,  *)
(* rebinds, expires and releases, and its two supervisors, configureDHCPv6 *)
(* and PDSource.  Time is counted in ticks; a tick waits for every step    *)
(* the client's own timers have made due.                                  *)
(***************************************************************************)
EXTENDS Naturals, FiniteSets

CONSTANTS
  Families,     \* subset of {"v4", "na", "pd"}
  DhcpServer,
  Pool,         \* per server, the addresses or prefixes it leases
  LeaseTimes,   \* records [t1, t2, valid] a server may grant; 0: not given
  ObtainTicks,  \* the 30 s an obtained lease may take
  MaxWire       \* answers in flight

Address == UNION {Pool[s] : s \in DhcpServer}
NoLease == [server |-> "none", addr |-> "none",
            times |-> [t1 |-> 0, t2 |-> 0, valid |-> 0]]
AnyServer == "any"
NoAddr == "none"

ASSUME DhcpAssumption ==
  /\ Families \subseteq {"v4", "na", "pd"}
  /\ {ObtainTicks, MaxWire} \subseteq Nat \ {0}
  /\ \A t \in LeaseTimes : t.valid \in Nat \ {0} /\ {t.t1, t.t2} \subseteq Nat

VARIABLES
  fam,
  dpc,        \* what the client is doing
  wire,       \* answers, and a RELEASE, in flight
  left,       \* ticks until the context of an obtain ends
  chosen,     \* the ADVERTISE or OFFER the REQUEST answers
  lease,      \* the refresher's current lease
  base,       \* the supervisor's `current'
  age,        \* ticks since lease was granted
  ifAddrs,    \* addresses on the interface, or the prefix last published
  cancelled,  \* the loop's context
  released,   \* pd: the once gate of PDSource.Stop has fired
  bound,      \* external: per server and address, ticks the binding lasts
  lapsed      \* history: the supervisor used a lease that had moved or expired

dhcpVars == <<fam, dpc, wire, left, chosen, lease, base, age,
              ifAddrs, cancelled, released, bound, lapsed>>

-----------------------------------------------------------------------------
Msg(t, s, a, tm) == [t |-> t, now |-> TRUE, s |-> s, a |-> a, tm |-> tm]
NoTimes == NoLease.times

InExchange == dpc \in {"solicit", "request", "renew", "rebind"}
InLoop == dpc \in {"sleep", "renew", "rebind", "backoff"}

\* defaultsFor: a missing T1 or T2 is a fraction of the lifetime.
DefaultsFor(tm) ==
  [valid |-> tm.valid,
   t1 |-> IF tm.t1 = 0 THEN tm.valid \div 2 ELSE tm.t1,
   t2 |-> IF tm.t2 = 0 THEN (tm.valid * 4) \div 5 ELSE tm.t2]

\* The lifetimes the servers grant are so much alike, and the exchanges so much
\* shorter, that a lease whose reply was as late as a reply can be has not ended
\* when the loop next speaks to its server: with the usual T1 and T2, lifetimes
\* that differ by less than a fifth, and longer than the time of an obtain twice.
ASSUME TimesAgree ==
  \A k, l, m \in LeaseTimes :
    /\ DefaultsFor(l).t1 + ObtainTicks < m.valid
    /\ DefaultsFor(l).t1 + DefaultsFor(k).t2 < m.valid + DefaultsFor(k).t1
    /\ DefaultsFor(l).t1 + k.valid < m.valid + DefaultsFor(k).t2

T == DefaultsFor(lease.times)

\* The message of the current exchange, sent and retransmitted until its answer
\* or the end of the context: a server may see it never, once or several times.
\* (The 30 s of an obtain end before the MRC of a REQUEST is spent.)
\* naRefresher rebinds with a Renew to the server of the lease.
Current ==
  CASE dpc = "solicit" -> Msg("solicit", AnyServer, NoAddr, NoTimes)
    [] dpc = "request" -> Msg("request", chosen.server, chosen.addr, NoTimes)
    [] dpc = "renew"   -> Msg("renew", lease.server, lease.addr, NoTimes)
    [] dpc = "rebind"  -> IF fam = "pd"
                          THEN Msg("rebind", AnyServer, lease.addr, NoTimes)
                          ELSE Msg("renew", lease.server, lease.addr, NoTimes)

Want == IF dpc = "solicit" THEN "advert" ELSE "reply"

\* Enter an exchange under a new, random transaction id: what is still in
\* flight belongs to an earlier one.
Begin(phase) ==
  /\ dpc' = phase
  /\ wire' = {[m EXCEPT !.now = FALSE] : m \in wire}

DhcpInit ==
  /\ fam \in Families
  /\ dpc = "idle" /\ wire = {} /\ left = 0
  /\ chosen = NoLease
  /\ lease = NoLease /\ base = NoLease /\ age = 0 /\ ifAddrs = {}
  /\ cancelled = FALSE /\ released = FALSE /\ lapsed = FALSE
  /\ bound = [s \in DhcpServer |-> [a \in Pool[s] |-> 0]]

-----------------------------------------------------------------------------
\* configureDHCP and PDSource.cycle: obtain the first lease.
Obtain ==
  /\ dpc = "idle"
  /\ Begin("solicit")
  /\ left' = ObtainTicks
  /\ UNCHANGED <<fam, chosen, lease, base, age, ifAddrs, cancelled,
                 released, bound, lapsed>>

\* exchange when the type of a packet is enough.
MatchesAnyXid(m) == m.t = Want

\* A reply of this transaction and of the wanted kind ends the wait; any
\* other packet is skipped.
Matches(m) == m.now /\ m.t = Want

LeaseOf(m) == [server |-> m.s, addr |-> m.a, times |-> m.tm]

\* ADVERTISE (OFFER): the first one wins, the REQUEST keeps the transaction id.
AcceptAdvert(m) ==
  /\ dpc = "solicit" /\ m \in wire /\ Matches(m)
  /\ chosen' = LeaseOf(m)
  /\ dpc' = "request"
  /\ wire' = wire \ {m}
  /\ UNCHANGED <<fam, left, lease, base, age, ifAddrs, cancelled,
                 released, bound, lapsed>>

\* Obtain succeeded.  The interface gets the address; a supervisor that has
\* had a lease before deletes the address of its `current' if it differs.
\* pd publishes the prefix instead.
ApplyObtained(l) ==
  /\ ifAddrs' = IF fam = "pd" THEN {l.addr}
                ELSE (IF base.addr = l.addr THEN ifAddrs ELSE ifAddrs \ {base.addr})
                     \cup {l.addr}
  /\ base' = l
  /\ lapsed' = (lapsed \/ (fam = "na" /\ base # NoLease /\ base.addr # lease.addr))

\* The REPLY (ACK) of a REQUEST.  A v4 lease is not renewed.
AcceptLease(m) ==
  /\ dpc = "request" /\ m \in wire /\ Matches(m) /\ m.a # NoAddr
  /\ lease' = LeaseOf(m)
  /\ age' = 0
  /\ ApplyObtained(LeaseOf(m))
  /\ dpc' = IF fam = "v4" THEN "done" ELSE "sleep"
  /\ chosen' = NoLease /\ left' = 0
  /\ wire' = wire \ {m}
  /\ UNCHANGED <<fam, cancelled, released, bound>>

\* applyAddrChange that leaves the old address in place.
ApplyAddrChangeKeep(l) == ifAddrs' = ifAddrs \cup {l.addr}

\* applyAddrChange: swap the address only when the lease moved.
ApplyAddrChange(l) ==
  ifAddrs' = IF lease.addr = l.addr THEN ifAddrs
             ELSE (ifAddrs \ {lease.addr}) \cup {l.addr}

\* A renewed lease restarts the loop's deadlines.
AcceptRenewal(m) ==
  /\ dpc \in {"renew", "rebind"} /\ m \in wire /\ Matches(m) /\ m.a # NoAddr
  /\ ApplyAddrChange(LeaseOf(m))
  /\ lease' = LeaseOf(m)
  /\ age' = 0
  /\ dpc' = IF cancelled THEN "release" ELSE "sleep"
  /\ wire' = wire \ {m}
  /\ UNCHANGED <<fam, left, chosen, base, cancelled, released,
                 bound, lapsed>>

\* A reply with a status instead of an address is an error: the loop backs off
\* within the same phase.
RenewalRefused(m) ==
  /\ dpc \in {"renew", "rebind"} /\ m \in wire /\ Matches(m) /\ m.a = NoAddr
  /\ dpc' = IF cancelled THEN "release" ELSE "backoff"
  /\ wire' = wire \ {m}
  /\ UNCHANGED <<fam, left, chosen, lease, base, age, ifAddrs,
                 cancelled, released, bound, lapsed>>

\* An obtain fails: NAK, a reply without an address, the context at its end.
\* The first one gives up; the supervisor of an address goes
\* back into the loop with the lease it has, the one of a prefix waits.
ObtainFails ==
  /\ dpc \in {"solicit", "request"}
  /\ \/ left = 0 \/ cancelled
     \/ \E m \in wire : m.now /\ ((fam = "v4" /\ m.t = "nak")
                                  \/ (dpc = "request" /\ Matches(m) /\ m.a = NoAddr))
  /\ dpc' = CASE fam = "pd" -> IF cancelled THEN "done" ELSE "wait"
              [] base = NoLease -> "failed"
              [] OTHER -> IF cancelled THEN "release" ELSE "sleep"
  /\ IF fam = "na" /\ base # NoLease
     THEN lease' = base /\ age' = 0 /\ lapsed' = TRUE
     ELSE UNCHANGED <<lease, age, lapsed>>
  /\ chosen' = NoLease /\ left' = 0
  /\ UNCHANGED <<fam, wire, base, ifAddrs, cancelled, released, bound>>

-----------------------------------------------------------------------------
\* LeaseLoop.Run: T1 has come, or the back-off of a failed renewal is over
\* before T2: renew.
RenewPhase ==
  /\ dpc \in {"sleep", "backoff"} /\ age >= T.t1 /\ age < T.t2 /\ ~cancelled
  /\ Begin("renew")
  /\ UNCHANGED <<fam, left, chosen, lease, base, age, ifAddrs,
                 cancelled, released, bound, lapsed>>

\* T2 has come without an answer: rebind until the lifetime ends.
RebindPhase ==
  /\ \/ dpc \in {"sleep", "backoff"} /\ age >= T.t1
     \/ dpc = "renew"
  /\ age >= T.t2 /\ age < T.valid /\ ~cancelled
  /\ Begin("rebind")
  /\ UNCHANGED <<fam, left, chosen, lease, base, age, ifAddrs,
                 cancelled, released, bound, lapsed>>

\* LeaveLoop of a loop that only looks at the clock.
LeaveLoopOnExpiry ==
  /\ InLoop
  /\ age >= T.valid /\ age >= T.t1
  /\ dpc' = "release"
  /\ UNCHANGED <<fam, wire, left, chosen, lease, base, age,
                 ifAddrs, cancelled, released, bound, lapsed>>

\* The lifetime is over, or the context has ended: the loop leaves, and its
\* deferred Release runs.
LeaveLoop ==
  /\ InLoop
  /\ cancelled \/ (age >= T.valid /\ age >= T.t1)
  /\ dpc' = "release"
  /\ UNCHANGED <<fam, wire, left, chosen, lease, base, age,
                 ifAddrs, cancelled, released, bound, lapsed>>

\* ReleaseLease, ReleasePDLease through the once gate.  Then the supervisor
\* ends, or waits to solicit again.
Release ==
  /\ dpc = "release"
  /\ wire' = IF fam = "pd" /\ released THEN wire
             ELSE wire \cup {Msg("release", lease.server, lease.addr, NoTimes)}
  /\ released' = (released \/ fam = "pd")
  /\ dpc' = IF cancelled THEN "done" ELSE "wait"
  /\ UNCHANGED <<fam, left, chosen, lease, base, age, ifAddrs,
                 cancelled, bound, lapsed>>

\* The supervisor's back-off is over: it is longer than a message survives, so
\* the RELEASE it follows has reached the server or is lost.
Resolicit ==
  /\ dpc = "wait" /\ ~cancelled
  /\ \A m \in wire : m.t # "release"
  /\ Begin("solicit")
  /\ left' = ObtainTicks
  /\ UNCHANGED <<fam, chosen, lease, base, age, ifAddrs, cancelled,
                 released, bound, lapsed>>

SupervisorEnds ==
  /\ dpc = "wait" /\ cancelled
  /\ dpc' = "done"
  /\ UNCHANGED <<fam, wire, left, chosen, lease, base, age,
                 ifAddrs, cancelled, released, bound, lapsed>>

\* CancelAllDHCPv6Loops, or the daemon's context: once the supervisor runs.
Cancel ==
  /\ ~cancelled /\ fam # "v4"
  /\ fam = "na" => base # NoLease
  /\ dpc \notin {"idle", "done", "failed", "gone"}
  /\ cancelled' = TRUE
  /\ UNCHANGED <<fam, dpc, wire, left, chosen, lease, base, age,
                 ifAddrs, released, bound, lapsed>>

\* The process of an address's loop goes away: ContainerInitProc execs the
\* command of the container, or ExitHandler calls os.Exit after the cancel.
ProcessGone ==
  /\ fam = "na" /\ base # NoLease /\ dpc \notin {"done", "gone"}
  /\ dpc' = "gone"
  /\ UNCHANGED <<fam, wire, left, chosen, lease, base, age,
                 ifAddrs, cancelled, released, bound, lapsed>>

-----------------------------------------------------------------------------
\* external: server s answers message m with m2.
Put(m2) == wire' = wire \cup {m2} /\ Cardinality(wire) < MaxWire

Answer(s, m) ==
  \/ /\ m.t = "solicit"
     /\ \E a \in Pool[s] : Put([m EXCEPT !.t = "advert", !.s = s, !.a = a])
     /\ UNCHANGED bound
  \/ /\ m.t = "request" /\ m.s = s
     /\ \E tm \in LeaseTimes :
          /\ Put([m EXCEPT !.t = "reply", !.tm = tm])
          /\ bound' = [bound EXCEPT ![s][m.a] = tm.valid]
  \/ /\ m.t \in {"renew", "rebind"} /\ m.s \in {s, AnyServer}
     /\ m.a \in Pool[s] /\ bound[s][m.a] > 0
     /\ \E tm \in LeaseTimes, a \in Pool[s] :
          /\ Put([m EXCEPT !.t = "reply", !.s = s, !.a = a, !.tm = tm])
          /\ bound' = [bound EXCEPT ![s][a] = tm.valid]
  \/ /\ m.t \in {"request", "renew"} /\ m.s = s
     /\ Put([m EXCEPT !.t = IF fam = "v4" THEN "nak" ELSE "reply", !.a = NoAddr])
     /\ UNCHANGED bound

Deliver ==
  /\ InExchange
  /\ \E s \in DhcpServer : Answer(s, Current)
  /\ UNCHANGED <<fam, dpc, left, chosen, lease, base, age, ifAddrs,
                 cancelled, released, lapsed>>

\* external: a RELEASE reaches its server.
DeliverRelease(m) ==
  /\ m \in wire /\ m.t = "release"
  /\ wire' = wire \ {m}
  /\ bound' = [bound EXCEPT ![m.s][m.a] = 0]
  /\ UNCHANGED <<fam, dpc, left, chosen, lease, base, age, ifAddrs,
                 cancelled, released, lapsed>>

\* A packet is lost, or skipped: it is of another transaction or kind.
Lose(m) ==
  /\ m \in wire /\ (InExchange \/ m.t = "release")
  /\ wire' = wire \ {m}
  /\ UNCHANGED <<fam, dpc, left, chosen, lease, base, age,
                 ifAddrs, cancelled, released, bound, lapsed>>

\* external: time passes, unless a timer of the client is due.
Tick ==
  /\ dpc \in {"solicit", "request", "sleep", "renew", "rebind", "backoff",
              "wait"}
  /\ dpc \in {"solicit", "request"} => left > 0
  /\ dpc = "sleep" => age < T.t1
  /\ dpc = "renew" => age < T.t2
  /\ InLoop => age < T.valid \/ age < T.t1
  /\ ~cancelled
  /\ left' = IF left > 0 THEN left - 1 ELSE 0
  /\ age' = IF age < T.valid THEN age + 1 ELSE age
  /\ bound' = [s \in DhcpServer |-> [a \in Pool[s] |->
                 IF bound[s][a] > 0 THEN bound[s][a] - 1 ELSE 0]]
  /\ UNCHANGED <<fam, dpc, wire, chosen, lease, base, ifAddrs,
                 cancelled, released, lapsed>>

DhcpStep ==
  \/ RebindPhase \/ RenewPhase \/ LeaveLoop \/ Release \/ SupervisorEnds
  \/ ObtainFails

DhcpNext ==
  \/ Obtain \/ Resolicit \/ DhcpStep
  \/ \E m \in wire : AcceptAdvert(m) \/ AcceptLease(m) \/ AcceptRenewal(m)
                     \/ RenewalRefused(m) \/ Lose(m) \/ DeliverRelease(m)
  \/ Cancel \/ ProcessGone \/ Deliver \/ Tick

\* Timers and contexts of the client are served.
DhcpFairness == WF_dhcpVars(DhcpStep)

DhcpSpec == DhcpInit /\ [][DhcpNext]_dhcpVars /\ DhcpFairness

-----------------------------------------------------------------------------
DhcpTypeOK ==
  /\ dpc \in {"idle", "solicit", "request", "sleep", "renew", "rebind",
              "backoff", "release", "wait", "done", "failed", "gone"}
  /\ left \in 0..ObtainTicks
  /\ ifAddrs \subseteq Address
  /\ InLoop => lease.server \in DhcpServer /\ lease.addr \in Address

\* While the loop sleeps on a lease, the server that granted it has it bound:
\* no late answer of an earlier transaction, of another server or to another
\* message is taken for a lease.  (lapsed: the supervisor goes back into the
\* loop with an expired lease when the new Solicit fails.)
LeaseBacked ==
  dpc = "sleep" /\ ~lapsed => bound[lease.server][lease.addr] > 0

\* The interface carries the leased address and no other while the loop runs,
\* through renewals that move it and through expiry and a new lease.
AddressFollowsLease == InLoop /\ ~lapsed => ifAddrs = {lease.addr}

\* The invariant of the DHCP client and its lease loop.
LeaseSafe == DhcpTypeOK /\ LeaseBacked /\ AddressFollowsLease

\* A cancelled loop ends, whatever it was waiting for.
CancelEndsLoop == cancelled ~> dpc \in {"done", "gone"}

\* dhcp.go:180 "Called from container shutdown so loops exit and send
\* Release": refuted, ExitHandler does not wait for them.
CancelReleases == cancelled ~> dpc = "done"
=============================================================================
