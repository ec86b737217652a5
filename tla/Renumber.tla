------------------------------ MODULE Renumber ------------------------------
(***************************************************************************)
(* IPv6 renumbering (pkg/container/net/renumber): a source follows the     *)
(* prefix of the uplink (RASource over netlink, PDSource over a delegated  *)
(* lease), the service debounces and applies it single-flight, the applier *)
(* moves the bridge, the running containers and the NDP proxy entries, and *)
(* the daemon's health check reconciles containers and proxy entries.      *)
(* Containers start and stop in other processes while this goes on.        *)
(***************************************************************************)
EXTENDS Naturals, Sequences, FiniteSets

CONSTANTS
  Prefix,       \* global /64s the uplink may have
  Native, VM,   \* containers with a namespace, and VMs, on the bridge
  MaxChanges,   \* changes of the uplink
  MaxFails,     \* steps of an apply or of a proxy update that fail
  MaxStarts     \* container starts

NoPrefix == "none"
Guests == Native \cup VM
Bridge == "sandal0"

ASSUME RenumberAssumption ==
  /\ {MaxChanges, MaxFails, MaxStarts} \subseteq Nat
  /\ Native \cap VM = {} /\ Bridge \notin Guests /\ NoPrefix \notin Prefix

VARIABLES
  rmode,       \* "ra": NDP proxy; "pd": delegated prefix
  uplink,      \* external: prefixes on the uplink, the delegated one
  srcCur,      \* RASource.current, the prefix of the PD lease
  subscribed,  \* a netlink subscription is open
  event,       \* an update waits on it
  chan,        \* the cap-1 channel from source to service
  svcCur, pending,   \* Service.current, Service.pending
  drain,       \* the drain goroutine: "none", or the step it is at
  next,        \* the prefix it works on
  rrun,        \* Service.Run: "off", "run", "closing", "stopped"
  rcancel,     \* its context
  bridgePre,   \* external: global prefix of sandal0
  active,      \* activePrefix of the hooks
  gst,         \* guests: "off", "creating", "up"
  gread,       \* prefix seen on the bridge when the guest is created
  gpre,        \* prefix of its global, in the config and in the namespace
  proxied, routed,   \* external: proxy entries and /128 routes
  changes, fails, starts,
  flapped,     \* history: enqueue dropped a prefix with another one under way
  torn         \* history: a proxy entry or route was left without the other

renVars == <<rmode, uplink, srcCur, subscribed, event, chan, svcCur, pending,
             drain, next, rrun, rcancel, bridgePre, active, gst, gread, gpre,
             proxied, routed, changes, fails, starts, flapped, torn>>

srcVars == <<srcCur, subscribed, event, chan>>
svcVars == <<svcCur, pending, drain, next, rrun>>
hostVars == <<bridgePre, active, proxied, routed, torn>>
guestVars == <<gst, gread, gpre>>
counters == <<changes, fails, starts>>

RenInit ==
  /\ rmode \in {"ra", "pd"} /\ uplink = {} /\ srcCur = NoPrefix
  /\ subscribed = FALSE /\ event = FALSE /\ chan = <<>>
  /\ svcCur = NoPrefix /\ pending = NoPrefix /\ drain = "none"
  /\ next = NoPrefix /\ rrun = "off" /\ rcancel = FALSE
  /\ bridgePre = NoPrefix /\ active = NoPrefix
  /\ gst = [g \in Guests |-> "off"]
  /\ gread = [g \in Guests |-> NoPrefix] /\ gpre = [g \in Guests |-> NoPrefix]
  /\ proxied = {} /\ routed = {}
  /\ changes = 0 /\ fails = 0 /\ starts = 0 /\ flapped = FALSE /\ torn = FALSE

-----------------------------------------------------------------------------
\* external: the router renumbers; an open subscription sees the update.
UplinkChanges(ps) ==
  /\ changes < MaxChanges /\ ps # uplink
  /\ rmode = "pd" => Cardinality(ps) = 1
  /\ uplink' = ps
  /\ changes' = changes + 1
  /\ event' = subscribed
  /\ UNCHANGED <<rmode, srcCur, subscribed, chan, svcVars, rcancel, hostVars,
                 guestVars, fails, starts, flapped>>

\* external: routers advertise periodically, and the kernel reports the new
\* lifetime of an address or route it has.
Refresh ==
  /\ subscribed /\ ~event /\ uplink # {} /\ rmode = "ra"
  /\ event' = TRUE
  /\ UNCHANGED <<rmode, uplink, srcCur, subscribed, chan, svcVars, rcancel,
                 hostVars, guestVars, counters, flapped>>

\* Select: the current prefix as long as the uplink has it, else the one that
\* lives longest (any).
Select(p) ==
  IF srcCur \in uplink THEN p = srcCur
  ELSE IF uplink = {} THEN p = NoPrefix ELSE p \in uplink

\* poll and emit: an unchanged prefix is not sent; the send blocks while the
\* channel is full.
PollAndEmit ==
  \E p \in Prefix \cup {NoPrefix} :
    /\ Select(p)
    /\ IF p \in {NoPrefix, srcCur} THEN UNCHANGED <<srcCur, chan>>
       ELSE srcCur' = p /\ chan = <<>> /\ chan' = <<p>>

\* startRenumber: the daemon has found the uplink and its mode.
StartRenumber ==
  /\ rrun = "off" /\ ~rcancel
  /\ rrun' = "run"
  /\ UNCHANGED <<rmode, uplink, srcVars, svcCur, pending, drain, next, rcancel,
                 hostVars, guestVars, counters, flapped>>

\* RASource.run: poll, then subscribe; what changes in between is seen with
\* the next update.
Subscribe ==
  /\ rmode = "ra" /\ rrun = "run" /\ ~subscribed /\ ~rcancel
  /\ PollAndEmit
  /\ subscribed' = TRUE /\ event' = FALSE
  /\ UNCHANGED <<rmode, uplink, svcVars, rcancel, hostVars, guestVars,
                 counters, flapped>>

\* subscribeOnce: an update, or a change of the abandoned set.
NetlinkEvent ==
  /\ subscribed /\ event /\ ~rcancel
  /\ PollAndEmit
  /\ event' = FALSE
  /\ UNCHANGED <<rmode, uplink, subscribed, svcVars, rcancel, hostVars,
                 guestVars, counters, flapped>>

\* The subscription fails (ENOBUFS): updates are lost until the next pass.
SubscriptionLost ==
  /\ subscribed /\ fails < MaxFails
  /\ subscribed' = FALSE /\ event' = FALSE
  /\ fails' = fails + 1
  /\ UNCHANGED <<rmode, uplink, srcCur, chan, svcVars, rcancel, hostVars,
                 guestVars, changes, starts, flapped>>

\* PDSource: obtain, renew or rebind brought another prefix; publish replaces
\* what waits in the channel.
PDPublish ==
  /\ rmode = "pd" /\ rrun = "run" /\ ~rcancel /\ srcCur \notin uplink
  /\ \E p \in uplink : srcCur' = p /\ chan' = <<p>>
  /\ UNCHANGED <<rmode, uplink, subscribed, event, svcVars, rcancel, hostVars,
                 guestVars, counters, flapped>>

-----------------------------------------------------------------------------
\* p is dropped as current while another prefix waits.
Flaps(p) ==
  p = svcCur /\ (pending \notin {NoPrefix, p} \/ (drain = "debounce" /\ next # p))

\* enqueue that takes a prefix as handled while it is still in the queue.
EnqueueAnyKnown(p) ==
  /\ IF p \in {svcCur, pending}
     THEN UNCHANGED <<pending, drain>>
     ELSE /\ pending' = IF drain \in {"none", "debounce"} THEN p ELSE pending
          /\ drain' = IF drain = "none" THEN "take" ELSE drain
  /\ flapped' = (flapped \/ Flaps(p))

\* enqueue: a prefix equal to the current one is dropped; another one is
\* pending, and a drain is started if none runs.
Enqueue(p) ==
  /\ IF p = svcCur
     THEN UNCHANGED <<pending, drain>>
     ELSE /\ pending' = p
          /\ drain' = IF drain = "none" THEN "take" ELSE drain
  /\ flapped' = (flapped \/ Flaps(p))

\* Service.Run reads the channel.
RunReceives ==
  /\ rrun = "run" /\ chan # <<>>
  /\ Enqueue(Head(chan))
  /\ chan' = <<>>
  /\ UNCHANGED <<rmode, uplink, srcCur, subscribed, event, svcCur, next, rrun,
                 rcancel, hostVars, guestVars, counters>>

\* Take the pending prefix, or give up running, in one critical section.
DrainTake ==
  /\ drain = "take"
  /\ next' = pending /\ pending' = NoPrefix
  /\ drain' = IF pending = NoPrefix THEN "none" ELSE "debounce"
  /\ UNCHANGED <<rmode, uplink, srcVars, svcCur, rrun, rcancel, hostVars,
                 guestVars, counters, flapped>>

\* The debounce is over: the newest prefix counts, and becomes current.
DrainDebounced ==
  /\ drain = "debounce" /\ ~rcancel
  /\ next' = IF pending = NoPrefix THEN next ELSE pending
  /\ pending' = NoPrefix
  /\ svcCur' = next'
  /\ drain' = "bridge"
  /\ UNCHANGED <<rmode, uplink, srcVars, rrun, rcancel, hostVars, guestVars,
                 counters, flapped>>

\* renumberBridge: the global of sandal0 is replaced.
ApplyBridge ==
  /\ drain = "bridge"
  /\ bridgePre' = next
  /\ drain' = "conts"
  /\ UNCHANGED <<rmode, uplink, srcVars, svcCur, pending, next, rrun, rcancel,
                 active, proxied, routed, torn, guestVars, counters, flapped>>

\* Apply fails at the bridge or at reading the containers; the drain backs
\* off with nothing current.
ApplyFails ==
  /\ drain \in {"bridge", "conts"} /\ fails < MaxFails
  /\ fails' = fails + 1
  /\ svcCur' = NoPrefix
  /\ drain' = "retry"
  /\ UNCHANGED <<rmode, uplink, srcVars, pending, next, rrun, rcancel,
                 hostVars, guestVars, changes, starts, flapped>>

\* eligible: the guest runs.  (Every guest here is on sandal0 with a dynamic
\* address, which wantGlobals and ownedGlobals ask for.)
Eligible(g) == gst[g] = "up"

\* SetContainerGlobals in every namespace: a running container whose update
\* does not fail moves to the prefix; VMs keep theirs.
MoveGlobals(p, failing) ==
  [g \in Guests |-> IF g \in Native \ failing /\ Eligible(g) THEN p ELSE gpre[g]]

ApplyContainers(failing) ==
  /\ drain = "conts"
  /\ failing = {} \/ fails < MaxFails
  /\ gpre' = MoveGlobals(next, failing)
  /\ active' = next
  /\ fails' = IF failing = {} THEN fails ELSE fails + 1
  /\ drain' = IF rmode = "ra" THEN "proxy" ELSE "take"
  /\ UNCHANGED <<rmode, uplink, srcVars, svcCur, pending, next, rrun, rcancel,
                 bridgePre, proxied, routed, torn, gst, gread, changes, starts,
                 flapped>>

\* desiredProxy: the bridge's own global and those of running guests that lie
\* in the active prefix.
DesiredProxy(p) ==
  {<<Bridge, p>>} \cup {<<g, p>> : g \in {h \in Guests : Eligible(h) /\ gpre[h] = p}}

\* Reconcile that only adds.
ReconcileProxyAddOnly(p, routeFails) ==
  /\ routeFails => fails < MaxFails
  /\ proxied' = proxied \cup DesiredProxy(p)
  /\ routed' = IF routeFails THEN routed ELSE routed \cup DesiredProxy(p)
  /\ torn' = (torn \/ routeFails)
  /\ fails' = IF routeFails THEN fails + 1 ELSE fails

\* Reconcile against the proxy entries; the route of an entry follows it,
\* unless the netlink call for the route fails.
ReconcileProxy(p, routeFails) ==
  /\ routeFails => fails < MaxFails
  /\ LET want == DesiredProxy(p)
         add == want \ proxied
         del == proxied \ want
     IN /\ proxied' = want
        /\ routed' = IF routeFails THEN routed ELSE (routed \cup add) \ del
        /\ torn' = (torn \/ (routeFails /\ add \cup del # {}))
  /\ fails' = IF routeFails THEN fails + 1 ELSE fails

ApplyProxy(routeFails) ==
  /\ drain = "proxy"
  /\ ReconcileProxy(next, routeFails)
  /\ drain' = "take"
  /\ UNCHANGED <<rmode, uplink, srcVars, svcCur, pending, next, rrun, rcancel,
                 bridgePre, active, guestVars, changes, starts, flapped>>

\* After the back-off the same prefix is pending again, unless a newer one is.
DrainRetries ==
  /\ drain = "retry" /\ ~rcancel
  /\ pending' = IF pending = NoPrefix THEN next ELSE pending
  /\ drain' = "take"
  /\ UNCHANGED <<rmode, uplink, srcVars, svcCur, next, rrun, rcancel, hostVars,
                 guestVars, counters, flapped>>

\* The waits of a drain watch the context.
DrainCancelled ==
  /\ drain \in {"debounce", "retry"} /\ rcancel
  /\ drain' = "none"
  /\ UNCHANGED <<rmode, uplink, srcVars, svcCur, pending, next, rrun, rcancel,
                 hostVars, guestVars, counters, flapped>>

RenCancel ==
  /\ ~rcancel
  /\ rcancel' = TRUE
  /\ UNCHANGED <<rmode, uplink, srcVars, svcVars, hostVars, guestVars,
                 counters, flapped>>

\* Run returns: no more events; Stop follows once the drains have ended.
RunLeaves ==
  /\ rrun = "run" /\ rcancel
  /\ rrun' = "closing"
  /\ UNCHANGED <<rmode, uplink, srcVars, svcCur, pending, drain, next, rcancel,
                 hostVars, guestVars, counters, flapped>>

\* Run that stops the source without waiting for the drains.
SourceStopsEarly ==
  /\ rrun = "closing"
  /\ rrun' = "stopped"
  /\ UNCHANGED <<rmode, uplink, srcVars, svcCur, pending, drain, next, rcancel,
                 hostVars, guestVars, counters, flapped>>

SourceStops ==
  /\ rrun = "closing" /\ drain = "none"
  /\ rrun' = "stopped"
  /\ UNCHANGED <<rmode, uplink, srcVars, svcCur, pending, drain, next, rcancel,
                 hostVars, guestVars, counters, flapped>>

-----------------------------------------------------------------------------
\* The hooks of the health check run under applyMu, which an apply holds.
ApplyHeld == drain \in {"bridge", "conts", "proxy"}

\* ReconcileContainersForRunning; a container that fails is tried next tick.
TickContainers(failing) ==
  /\ ~ApplyHeld /\ active # NoPrefix
  /\ failing = {} \/ fails < MaxFails
  /\ gpre' = MoveGlobals(active, failing)
  /\ fails' = IF failing = {} THEN fails ELSE fails + 1
  /\ UNCHANGED <<rmode, uplink, srcVars, svcVars, rcancel, hostVars, gst,
                 gread, changes, starts, flapped>>

\* ReconcileProxyForRunning.
TickProxy(routeFails) ==
  /\ rmode = "ra" /\ ~ApplyHeld /\ active # NoPrefix
  /\ ReconcileProxy(active, routeFails)
  /\ UNCHANGED <<rmode, uplink, srcVars, svcVars, rcancel, bridgePre, active,
                 guestVars, changes, starts, flapped>>

\* Link.defaults in the process that starts the guest: the prefix the bridge
\* has now.
GuestResolves(g) ==
  /\ gst[g] = "off" /\ starts < MaxStarts
  /\ starts' = starts + 1
  /\ gst' = [gst EXCEPT ![g] = "creating"]
  /\ gread' = [gread EXCEPT ![g] = bridgePre]
  /\ UNCHANGED <<rmode, uplink, srcVars, svcVars, rcancel, hostVars, gpre,
                 changes, fails, flapped>>

\* The guest runs, with the address resolved before.
GuestStarts(g) ==
  /\ gst[g] = "creating"
  /\ gst' = [gst EXCEPT ![g] = "up"]
  /\ gpre' = [gpre EXCEPT ![g] = gread[g]]
  /\ UNCHANGED <<rmode, uplink, srcVars, svcVars, rcancel, hostVars, gread,
                 counters, flapped>>

GuestStops(g) ==
  /\ gst[g] = "up"
  /\ gst' = [gst EXCEPT ![g] = "off"]
  /\ gpre' = [gpre EXCEPT ![g] = NoPrefix]
  /\ gread' = [gread EXCEPT ![g] = NoPrefix]
  /\ UNCHANGED <<rmode, uplink, srcVars, svcVars, rcancel, hostVars, counters,
                 flapped>>

-----------------------------------------------------------------------------
RenSource == Subscribe \/ NetlinkEvent \/ PDPublish

RenDrain ==
  \/ DrainTake \/ DrainDebounced \/ ApplyBridge \/ ApplyContainers({})
  \/ ApplyProxy(FALSE) \/ DrainRetries \/ DrainCancelled

RenNext ==
  \/ \E ps \in SUBSET Prefix : UplinkChanges(ps)
  \/ StartRenumber \/ Refresh \/ SubscriptionLost \/ RenSource
  \/ RunReceives \/ RenDrain \/ ApplyFails
  \/ \E f \in SUBSET Native \ {{}} : ApplyContainers(f) \/ TickContainers(f)
  \/ ApplyProxy(TRUE) \/ TickProxy(TRUE)
  \/ TickContainers({}) \/ TickProxy(FALSE)
  \/ RenCancel \/ RunLeaves \/ SourceStops
  \/ \E g \in Guests : GuestResolves(g) \/ GuestStarts(g) \/ GuestStops(g)

\* Goroutines run, netlink reports updates, the health check ticks.
RenFairness ==
  /\ WF_renVars(RenSource) /\ WF_renVars(Refresh) /\ WF_renVars(RunReceives)
  /\ WF_renVars(RenDrain) /\ WF_renVars(RunLeaves) /\ WF_renVars(SourceStops)
  /\ WF_renVars(TickContainers({})) /\ WF_renVars(TickProxy(FALSE))

RenSpec == RenInit /\ [][RenNext]_renVars /\ RenFairness

-----------------------------------------------------------------------------
RenTypeOK ==
  /\ uplink \subseteq Prefix /\ Len(chan) <= 1
  /\ {srcCur, svcCur, pending, next, bridgePre, active} \subseteq Prefix \cup {NoPrefix}
  /\ drain \in {"none", "take", "debounce", "bridge", "conts", "proxy", "retry"}
  /\ gpre \in [Guests -> Prefix \cup {NoPrefix}]

\* The prefix the source has settled on is never lost: it waits in the
\* channel or as pending, it is being applied or retried, or it is current.
\* (flapped: enqueue compares with the applied prefix, not with the newer one
\* that waits for its debounce.)
PrefixHeld ==
  ~rcancel /\ ~flapped /\ srcCur # NoPrefix =>
    \/ chan = <<srcCur>>
    \/ pending = srcCur /\ drain # "none"
    \/ next = srcCur /\ pending = NoPrefix /\ drain \in {"debounce", "retry"}
    \/ svcCur = srcCur /\ pending = NoPrefix

\* A prefix is current only once the bridge has it, or while it is applied.
CurrentIsApplied ==
  svcCur # NoPrefix => bridgePre = svcCur \/ (drain = "bridge" /\ next = svcCur)

\* The source is stopped (a lease is released) only after the last apply.
StopAfterApply == rrun = "stopped" => drain = "none"

\* Proxy entries and host routes come and go together as long as no route
\* call has failed.
ProxyCoherent == ~torn => proxied = routed

\* The invariant of the renumbering service.
RenumberSafe ==
  /\ RenTypeOK /\ PrefixHeld /\ CurrentIsApplied /\ StopAfterApply
  /\ ProxyCoherent

InPrefix(p) ==
  /\ bridgePre = p
  /\ \A g \in Native : gst[g] = "up" => gpre[g] = p
  /\ rmode = "ra" => proxied = DesiredProxy(p)

\* Once the uplink has settled on one prefix, the bridge, every running
\* container and the proxy entries end up in it, whatever failed on the way.
Converges ==
  \A p \in Prefix :
    <>[](uplink = {p} /\ rrun = "run" /\ ~rcancel /\ ~flapped) => <>[]InPrefix(p)

\* service.go:134 "any other prefix (including the previous one) queues behind
\* it": refuted, an uplink that returns to the applied prefix during the
\* debounce is left on the other one.
ConvergesAlways ==
  \A p \in Prefix : <>[](uplink = {p} /\ rrun = "run" /\ ~rcancel) => <>[](bridgePre = p)

\* ndpproxy.go:18 "Both entries are added/removed together so the kernel
\* always has a coherent picture": refuted when the second call fails, and
\* never repaired, as Reconcile only compares the proxy entries.
ProxyAlwaysCoherent == proxied = routed
=============================================================================
