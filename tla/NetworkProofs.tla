--------------------------- MODULE NetworkProofs ----------------------------
(***************************************************************************)
(* Theorems about the network of a host: the links and addresses of the    *)
(* containers (NetLinks), the DHCP client (DhcpLease), IPv6 renumbering    *)
(* (Renumber) and the router tracker behind it (RATracker).                *)
(***************************************************************************)
EXTENDS NetLinks, DhcpLease, Renumber, RATracker, WellFoundedInduction,
        FiniteSetTheorems, TLAPS

-----------------------------------------------------------------------------
(* IPv6 renumbering.                                                       *)

\* RenTypeOK, with the rest of the state.
RenTypes ==
  /\ RenTypeOK
  /\ gread \in [Guests -> Prefix \cup {NoPrefix}]
  /\ rrun \in {"off", "run", "closing", "stopped"}

\* The channel holds nothing but the prefix the source has settled on.
ChanIsLast == chan = <<>> \/ chan = <<srcCur>>

\* What is pending has a drain that will take it, until the context ends.
PendingIsServed == ~rcancel /\ pending # NoPrefix => drain # "none"

\* An apply works on the current prefix; a failed one leaves none current.
ApplyIsCurrent ==
  /\ drain \in {"bridge", "conts", "proxy"} => next = svcCur
  /\ drain = "retry" => svcCur = NoPrefix

\* PrefixHeld, whose last case says more: what is current is not about to be
\* replaced at the end of a debounce.
PrefixIsHeld ==
  ~rcancel /\ ~flapped /\ srcCur # NoPrefix =>
    \/ chan = <<srcCur>>
    \/ pending = srcCur /\ drain # "none"
    \/ next = srcCur /\ pending = NoPrefix /\ drain \in {"debounce", "retry"}
    \/ /\ svcCur = srcCur /\ pending = NoPrefix
       /\ drain = "debounce" => next = srcCur

\* The inductive invariant of the renumbering service.
RenumberInv ==
  /\ RenTypes /\ ChanIsLast /\ PendingIsServed /\ ApplyIsCurrent /\ PrefixIsHeld
  /\ CurrentIsApplied /\ StopAfterApply /\ ProxyCoherent

\* The initial states of the service satisfy the invariant.
LEMMA RenumberInitial == RenInit => RenumberInv
  BY DEF RenInit, RenumberInv, RenTypes, RenTypeOK, ChanIsLast, PendingIsServed,
         ApplyIsCurrent, PrefixIsHeld, CurrentIsApplied, StopAfterApply,
         ProxyCoherent

\* Every step of source, service, applier, health check and guests keeps it.
LEMMA RenumberStep == RenumberInv /\ [RenNext]_renVars => RenumberInv'
<1> SUFFICES ASSUME RenumberInv, [RenNext]_renVars
             PROVE  RenumberInv'
  OBVIOUS
<1> USE RenumberAssumption
<1> USE DEF RenumberInv, RenTypes, RenTypeOK, ChanIsLast, PendingIsServed,
            ApplyIsCurrent, PrefixIsHeld, CurrentIsApplied, StopAfterApply,
            ProxyCoherent, srcVars, svcVars, hostVars, guestVars, counters
<1>1. ASSUME NEW ps \in SUBSET Prefix, UplinkChanges(ps)
      PROVE  RenumberInv'
  BY <1>1 DEF UplinkChanges
<1>2. CASE StartRenumber
  BY <1>2 DEF StartRenumber
<1>3. CASE Refresh
  BY <1>3 DEF Refresh
<1>4. CASE SubscriptionLost
  BY <1>4 DEF SubscriptionLost
<1>5. CASE Subscribe
  <2>1. \/ UNCHANGED <<srcCur, chan>>
        \/ srcCur' \in Prefix /\ chan' = <<srcCur'>>
    BY <1>5 DEF Subscribe, PollAndEmit
  <2>2. UNCHANGED <<uplink, svcVars, rcancel, hostVars, guestVars, flapped>>
    BY <1>5 DEF Subscribe
  <2> QED
    <3>1. RenTypes'
      <4>1. CASE UNCHANGED <<srcCur, chan>>
        BY <4>1, <2>2
      <4>2. CASE srcCur' \in Prefix /\ chan' = <<srcCur'>>
        <5>1. Len(chan') = 1
          BY <4>2
        <5> QED
          BY <4>2, <5>1, <2>2
      <4> QED
        BY <2>1, <4>1, <4>2
    <3>2. ChanIsLast'
      BY <2>1, <2>2
    <3>3. PendingIsServed'
      BY <2>1, <2>2
    <3>4. ApplyIsCurrent'
      BY <2>1, <2>2
    <3>5. PrefixIsHeld'
      BY <2>1, <2>2
    <3>6. CurrentIsApplied'
      BY <2>1, <2>2
    <3>7. StopAfterApply'
      BY <2>1, <2>2
    <3>8. ProxyCoherent'
      BY <2>1, <2>2
    <3> HIDE DEF RenTypes, ChanIsLast, PendingIsServed, ApplyIsCurrent, PrefixIsHeld, CurrentIsApplied, StopAfterApply, ProxyCoherent
    <3>9. QED
      BY <3>1, <3>2, <3>3, <3>4, <3>5, <3>6, <3>7, <3>8
<1>6. CASE NetlinkEvent
  <2>1. \/ UNCHANGED <<srcCur, chan>>
        \/ srcCur' \in Prefix /\ chan' = <<srcCur'>>
    BY <1>6 DEF NetlinkEvent, PollAndEmit
  <2>2. UNCHANGED <<uplink, svcVars, rcancel, hostVars, guestVars, flapped>>
    BY <1>6 DEF NetlinkEvent
  <2> QED
    <3>1. RenTypes'
      <4>1. CASE UNCHANGED <<srcCur, chan>>
        BY <4>1, <2>2
      <4>2. CASE srcCur' \in Prefix /\ chan' = <<srcCur'>>
        <5>1. Len(chan') = 1
          BY <4>2
        <5> QED
          BY <4>2, <5>1, <2>2
      <4> QED
        BY <2>1, <4>1, <4>2
    <3>2. ChanIsLast'
      BY <2>1, <2>2
    <3>3. PendingIsServed'
      BY <2>1, <2>2
    <3>4. ApplyIsCurrent'
      BY <2>1, <2>2
    <3>5. PrefixIsHeld'
      BY <2>1, <2>2
    <3>6. CurrentIsApplied'
      BY <2>1, <2>2
    <3>7. StopAfterApply'
      BY <2>1, <2>2
    <3>8. ProxyCoherent'
      BY <2>1, <2>2
    <3> HIDE DEF RenTypes, ChanIsLast, PendingIsServed, ApplyIsCurrent, PrefixIsHeld, CurrentIsApplied, StopAfterApply, ProxyCoherent
    <3>9. QED
      BY <3>1, <3>2, <3>3, <3>4, <3>5, <3>6, <3>7, <3>8
<1>7. CASE PDPublish
  BY <1>7 DEF PDPublish
<1>8. CASE RunReceives
  <2>1. chan = <<srcCur>> /\ Head(chan) = srcCur
    BY <1>8 DEF RunReceives
  <2>2. rrun = "run" /\ chan' = <<>> /\ Enqueue(srcCur)
    BY <1>8, <2>1 DEF RunReceives
  <2>3. UNCHANGED <<uplink, srcCur, svcCur, next, rrun, rcancel, hostVars, guestVars>>
    BY <1>8 DEF RunReceives
  <2> QED
    <3>1. RenTypes'
      BY <2>2, <2>3 DEF Enqueue, Flaps
    <3>2. ChanIsLast'
      BY <2>2, <2>3 DEF Enqueue, Flaps
    <3>3. PendingIsServed'
      BY <2>2, <2>3 DEF Enqueue, Flaps
    <3>4. ApplyIsCurrent'
      BY <2>2, <2>3 DEF Enqueue, Flaps
    <3>5. PrefixIsHeld'
      BY <2>2, <2>3 DEF Enqueue, Flaps
    <3>6. CurrentIsApplied'
      BY <2>2, <2>3 DEF Enqueue, Flaps
    <3>7. StopAfterApply'
      BY <2>2, <2>3 DEF Enqueue, Flaps
    <3>8. ProxyCoherent'
      BY <2>2, <2>3 DEF Enqueue, Flaps
    <3> HIDE DEF RenTypes, ChanIsLast, PendingIsServed, ApplyIsCurrent, PrefixIsHeld, CurrentIsApplied, StopAfterApply, ProxyCoherent
    <3>9. QED
      BY <3>1, <3>2, <3>3, <3>4, <3>5, <3>6, <3>7, <3>8
<1>9. CASE DrainTake
  BY <1>9 DEF DrainTake
<1>10. CASE DrainDebounced
  BY <1>10 DEF DrainDebounced
<1>11. CASE ApplyBridge
  BY <1>11 DEF ApplyBridge
<1>12. CASE ApplyFails
  BY <1>12 DEF ApplyFails
<1>13. ASSUME NEW f \in SUBSET Native, ApplyContainers(f)
      PROVE  RenumberInv'
  BY <1>13 DEF ApplyContainers, MoveGlobals
<1>14. ASSUME NEW b \in BOOLEAN, ApplyProxy(b)
      PROVE  RenumberInv'
  BY <1>14 DEF ApplyProxy, ReconcileProxy
<1>15. CASE DrainRetries
  BY <1>15 DEF DrainRetries
<1>16. CASE DrainCancelled
  BY <1>16 DEF DrainCancelled
<1>17. CASE RenCancel
  BY <1>17 DEF RenCancel
<1>18. CASE RunLeaves
  BY <1>18 DEF RunLeaves
<1>19. CASE SourceStops
  BY <1>19 DEF SourceStops
<1>20. ASSUME NEW f \in SUBSET Native, TickContainers(f)
      PROVE  RenumberInv'
  BY <1>20 DEF TickContainers, MoveGlobals
<1>21. ASSUME NEW b \in BOOLEAN, TickProxy(b)
      PROVE  RenumberInv'
  BY <1>21, ZenonT(40) DEF TickProxy, ReconcileProxy
<1>22. ASSUME NEW g \in Guests, GuestResolves(g)
      PROVE  RenumberInv'
  BY <1>22 DEF GuestResolves
<1>23. ASSUME NEW g \in Guests, GuestStarts(g)
      PROVE  RenumberInv'
  BY <1>23 DEF GuestStarts
<1>24. ASSUME NEW g \in Guests, GuestStops(g)
      PROVE  RenumberInv'
  BY <1>24 DEF GuestStops
<1>25. CASE UNCHANGED renVars
  BY <1>25 DEF renVars
<1> HIDE DEF RenumberInv
<1> QED
  BY <1>1, <1>2, <1>3, <1>4, <1>5, <1>6, <1>7, <1>8, <1>9, <1>10, <1>11, <1>12, <1>13, <1>14, <1>15, <1>16, <1>17, <1>18, <1>19, <1>20, <1>21, <1>22, <1>23, <1>24, <1>25,
     Zenon DEF RenNext, RenSource, RenDrain

\* What the invariant says, without its strengthening.
LEMMA RenumberInvIsSafe == RenumberInv => RenumberSafe
  BY DEF RenumberInv, RenumberSafe, RenTypes, PrefixIsHeld, PrefixHeld

\* RASource, PDSource, Service and applier: for any prefixes, guests and number
\* of changes and failures, the prefix the source has settled on waits, is
\* applied or is current, a current prefix is on the bridge, the source stops
\* after the last apply, and proxy entries and routes go together.
THEOREM RenumberIsSafe == RenSpec => []RenumberSafe
<1>1. RenInit => RenumberInv
  BY RenumberInitial
<1>2. RenumberInv /\ [RenNext]_renVars => RenumberInv'
  BY RenumberStep
<1>3. RenumberInv => RenumberSafe
  BY RenumberInvIsSafe
<1> QED
  BY <1>1, <1>2, <1>3, PTL DEF RenSpec

-----------------------------------------------------------------------------
(* Links and addresses.                                                    *)

Statuses == {"none", "new", "running", "exit", "err"}
RunStates == {"off", "lookup", "add", "setup", "alloc", "save", "flush", "spawn",
              "veth", "move", "placed"}
Records == [st : Statuses, ip : Ips \cup {NoIp}]
Announcers == [c : Cont, ip : Ips, mac : Nat, ready : BOOLEAN]

\* NetTypeOK, with the rest of the state.
NetTypes ==
  /\ rec \in [Cont -> Records]
  /\ nlink \in [Cont -> {"none", "host", "ns", "up"}]
  /\ child \in [Cont -> {"none", "wait", "conf", "final", "run"}]
  /\ cache \in [Ips -> 0..MaxRuns] /\ neigh \in [Ips -> 0..MaxRuns]
  /\ npc \in [Cont -> RunStates]
  /\ snap \in [Cont -> [used : SUBSET (Ips \cup {NoIp}), who : SUBSET Cont]]
  /\ pick \in [Cont -> Ips \cup {NoIp}]
  /\ nmac \in [Cont -> 0..MaxRuns] /\ anns \subseteq Announcers
  /\ nruns \in 0..MaxRuns
  /\ saw \in [Cont -> SUBSET Cont] /\ revived \in [Cont -> Statuses \cup {"no"}]
  /\ late \in BOOLEAN /\ doubled \in BOOLEAN

\* Reading, picking and saving: a run that has not saved yet.
Picking == {"lookup", "add", "setup", "alloc", "save"}

\* No address is above the number of runs, and what a run has read is below its
\* own number: the count of IPRequest ends.
CountEnds ==
  /\ \A c \in Cont : rec[c].ip <= nruns /\ pick[c] <= nruns
  /\ \A c \in Cont : npc[c] \in Picking => \A i \in snap[c].used : i < nruns
  /\ \A c \in Cont : npc[c] \in Picking => nruns > 0

\* A link address is the number of a run.  Announcers have one that was given,
\* and the address that belongs to it.
MacsAreRuns ==
  /\ \A c \in Cont : nmac[c] <= nruns
  /\ \A a \in anns : /\ a.mac <= nruns
                     /\ nmac[a.c] = a.mac =>
                          npc[a.c] \notin Picking /\ a.ip = rec[a.c].ip

\* Where a run stands tells what it has made so far.
RunPlaces ==
  \A c \in Cont :
    /\ npc[c] \in {"veth", "move", "placed"} <=> child[c] # "none"
    /\ nlink[c] # "none" => npc[c] \in {"move", "placed"}
    /\ nlink[c] \in {"ns", "up"} \/ child[c] \in {"conf", "final", "run"}
         => npc[c] = "placed"
    /\ npc[c] = "flush" => rec[c].st = "new" /\ revived[c] = "no"
    /\ npc[c] = "spawn" => rec[c].st # "none" /\ (Dead(rec[c].st) => revived[c] = "err")
    /\ child[c] # "none" => rec[c].st = "running"

\* Its address may have been taken: the record counts, or did count, as dead.
GivenUp(d) == Dead(rec[d].st) \/ revived[d] = "err"

\* A run avoids the addresses it has read in records that were in use.
PicksApart ==
  \A c \in Cont :
    /\ c \notin snap[c].who /\ c \notin saw[c]
    /\ \A d \in snap[c].who : rec[d].st # "none"
    /\ npc[c] \in Picking \ {"save"} =>
         \A d \in snap[c].who : rec[d].ip \in snap[c].used \/ GivenUp(d)
    /\ npc[c] = "save" =>
         \A d \in snap[c].who : pick[c] # NoIp /\ rec[d].ip = pick[c] => GivenUp(d)
    /\ \A d \in saw[c] : rec[c].ip # NoIp /\ rec[d].ip = rec[c].ip => GivenUp(d)

\* The history knows of every address that two live records have.
DoublesKnown == Doubles(rec) => doubled

\* From the flush on no one else writes the host's entry for the address, and
\* from the announcement on the neighbours have no other MAC.
EntriesFollow ==
  \A c \in Cont : ~late /\ ~doubled /\ rec[c].ip # NoIp =>
    /\ npc[c] \in {"spawn", "veth", "move", "placed"} /\ revived[c] = "no"
         => neigh[rec[c].ip] \in {0, nmac[c]}
    /\ child[c] = "run" => cache[rec[c].ip] \in {0, nmac[c]}

\* The inductive invariant of links and addresses.
LinksInv ==
  /\ NetTypes /\ CountEnds /\ MacsAreRuns /\ RunPlaces /\ PicksApart
  /\ DoublesKnown /\ EntriesFollow

LessThan == {ss \in Nat \X Nat : ss[1] < ss[2]}

\* A set of naturals has a least element (from the well-foundedness of <).
LEMMA LeastOfNaturals ==
  ASSUME NEW S \in SUBSET Nat, S # {}
  PROVE  /\ Min(S) \in S
         /\ \A y \in S : Min(S) <= y
<1>1. IsWellFoundedOn(LessThan, Nat)
  BY NatLessThanWellFounded, Zenon DEF OpToRel, LessThan
<1>2. PICK x \in S : \A y \in S : ~ (<<y, x>> \in LessThan)
  BY <1>1, WFMin, Zenon
<1>3. \A y \in S : x <= y
  <2> TAKE y \in S
  <2>1. ~ (<<y, x>> \in LessThan)
    BY <1>2, Zenon
  <2>2. x \in Nat /\ y \in Nat
    BY Zenon
  <2>3. ~(y < x)
    BY <2>1, <2>2, SMT DEF LessThan
  <2> QED
    BY <2>2, <2>3
<1> QED
  BY <1>3 DEF Min

\* IPRequest finds an address that is not in use, and none above the first
\* free one.
LEMMA IPRequestFree ==
  ASSUME NEW used, NEW n \in Ips, n \notin used
  PROVE  /\ IPRequest(used) \in Ips \ used
         /\ IPRequest(used) <= n
<1>1. Ips \ used \in SUBSET Nat /\ n \in Ips \ used
  BY NetAssumption DEF Ips
<1> HIDE DEF Ips
<1> QED
  BY <1>1, LeastOfNaturals DEF IPRequest

\* An announcement keeps a table a table, and changes no entry but the one
\* it is about.
LEMMA ToldFacts ==
  ASSUME NEW t \in [Ips -> 0..MaxRuns], NEW ip, NEW mac \in 0..MaxRuns
  PROVE  /\ Told(t, ip, mac) \in [Ips -> 0..MaxRuns]
         /\ \A i \in Ips : Told(t, ip, mac)[i] = t[i] \/ (i = ip /\ Told(t, ip, mac)[i] = mac)
         /\ ip \in Ips => Told(t, ip, mac)[ip] \in {0, mac}
  BY DEF Told

\* Addresses are numbers, and NoIp is none of them.
LEMMA IpsAreNumbers == Ips \cup {NoIp} \subseteq Nat /\ NoIp \notin Ips
  BY NetAssumption DEF Ips, NoIp

\* Two live records with the same address are known to the history.
LEMMA LiveApart ==
  ASSUME NEW c \in Cont, NEW d \in Cont, c # d, DoublesKnown,
         ~Dead(rec[c].st), ~Dead(rec[d].st), rec[c].ip = rec[d].ip, rec[c].ip # NoIp
  PROVE  doubled
  BY DEF DoublesKnown, Doubles

\* A record with another status.
LEMMA StatusUpdate ==
  ASSUME NEW r \in Records, NEW st \in Statuses
  PROVE  [r EXCEPT !.st = st] \in Records
  BY Zenon DEF Records

\* The same in the table of records.
LEMMA RecUpdate ==
  ASSUME NEW r \in [Cont -> Records], NEW c \in Cont, NEW st \in Statuses
  PROVE  [r EXCEPT ![c].st = st] \in [Cont -> Records]
<1>1. [r[c] EXCEPT !.st = st] \in Records
  BY StatusUpdate
<1> QED
  BY <1>1

\* The initial states satisfy the invariant.
LEMMA LinksInitial == NetInit => LinksInv
<1> SUFFICES ASSUME NetInit PROVE LinksInv
  OBVIOUS
<1> USE NetAssumption DEF NetInit
<1>1. NetTypes
  <2>1. /\ rec \in [Cont -> Records] /\ pick \in [Cont -> Ips \cup {NoIp}]
    BY DEF Records, Statuses, NoIp
  <2>2. snap \in [Cont -> [used : SUBSET (Ips \cup {NoIp}), who : SUBSET Cont]]
    BY Zenon
  <2>3. /\ cache \in [Ips -> 0..MaxRuns] /\ neigh \in [Ips -> 0..MaxRuns]
        /\ nmac \in [Cont -> 0..MaxRuns] /\ nruns \in 0..MaxRuns
    OBVIOUS
  <2>4. /\ nlink \in [Cont -> {"none", "host", "ns", "up"}]
        /\ child \in [Cont -> {"none", "wait", "conf", "final", "run"}]
        /\ npc \in [Cont -> RunStates]
        /\ revived \in [Cont -> Statuses \cup {"no"}]
    BY DEF RunStates
  <2>5. saw \in [Cont -> SUBSET Cont] /\ late \in BOOLEAN /\ doubled \in BOOLEAN
    BY Zenon
  <2>6. anns \subseteq Announcers
    OBVIOUS
  <2> QED
    BY <2>1, <2>2, <2>3, <2>4, <2>5, <2>6 DEF NetTypes
<1>2. CountEnds /\ MacsAreRuns
  BY DEF CountEnds, MacsAreRuns, Picking, NoIp
<1>3. RunPlaces /\ PicksApart
  BY DEF RunPlaces, PicksApart, Picking, NoIp
<1>4. DoublesKnown /\ EntriesFollow
  BY DEF DoublesKnown, Doubles, EntriesFollow, NoIp
<1> QED
  BY <1>1, <1>2, <1>3, <1>4 DEF LinksInv

\* Every step of a run, of its child, of an announcer and of a neighbour keeps it.
LEMMA LinksStep == LinksInv /\ [NetNext]_netVars => LinksInv'
<1> SUFFICES ASSUME LinksInv, [NetNext]_netVars
             PROVE  LinksInv'
  OBVIOUS
<1> USE NetAssumption
<1> USE DEF LinksInv
<1>1. ASSUME NEW c \in Cont, ReadStore(c)
      PROVE  LinksInv'
  <2>1. NetTypes'
    BY <1>1 DEF ReadStore, Used, Live, Recorded, wireVars, history, NetTypes, Records, Statuses, RunStates, Announcers, NoIp, Ips
  <2>2. CountEnds'
    <3>1. nruns \in Nat /\ nruns' = nruns + 1 /\ UNCHANGED <<rec, pick>>
      BY <1>1 DEF ReadStore, NetTypes
    <3>2. snap' = [snap EXCEPT ![c] = [used |-> Used(c), who |-> Recorded(c)]]
      BY <1>1 DEF ReadStore
    <3>3. npc' = [npc EXCEPT ![c] = "lookup"]
      BY <1>1 DEF ReadStore
    <3>4. \A i \in Used(c) : i \in Nat /\ i <= nruns
      BY IpsAreNumbers DEF Used, Live, NetTypes, Records, CountEnds
    <3>5. \A x \in Cont : \A i \in snap[x].used : i \in Nat
      BY IpsAreNumbers DEF NetTypes
    <3>6. \A x \in Cont : rec[x].ip \in Nat /\ pick[x] \in Nat
      BY DEF NetTypes, Records, Ips, NoIp
    <3> HIDE DEF Used, Recorded
    <3>7. \A x \in Cont : npc'[x] \in Picking => \A i \in snap'[x].used : i < nruns'
      BY <3>1, <3>2, <3>3, <3>4, <3>5 DEF NetTypes, CountEnds
    <3> QED
      BY <3>1, <3>6, <3>7 DEF CountEnds
  <2>3. MacsAreRuns'
    BY <1>1 DEF ReadStore, Used, Live, Recorded, wireVars, history, NetTypes, MacsAreRuns, Picking, RunPlaces, Announcers, Records
  <2>4. RunPlaces'
    BY <1>1 DEF ReadStore, Used, Live, Recorded, wireVars, history, NetTypes, RunPlaces, Dead, Records
  <2>5. PicksApart'
    BY <1>1 DEF ReadStore, Used, Live, Recorded, wireVars, history, NetTypes, PicksApart, Picking, GivenUp, Dead, Records, RunPlaces
  <2>6. DoublesKnown'
    BY <1>1 DEF ReadStore, Used, Live, Recorded, wireVars, history, NetTypes, DoublesKnown, Doubles, Dead, Records, RunPlaces
  <2>7. EntriesFollow'
    BY <1>1 DEF ReadStore, Used, Live, Recorded, wireVars, history, NetTypes, EntriesFollow, RunPlaces, DoublesKnown, Doubles, Dead, MacsAreRuns, Records
  <2> QED
    BY <2>1, <2>2, <2>3, <2>4, <2>5, <2>6, <2>7
<1>2. ASSUME NEW c \in Cont, LookupBridge(c)
      PROVE  LinksInv'
  <2>1. NetTypes'
    BY <1>2 DEF LookupBridge, wireVars, history, NetTypes, Records, Statuses, RunStates, Announcers, NoIp, Ips
  <2>2. CountEnds'
    BY <1>2 DEF LookupBridge, wireVars, history, NetTypes, CountEnds, Picking, Records, Ips, NoIp
  <2>3. MacsAreRuns'
    BY <1>2 DEF LookupBridge, wireVars, history, NetTypes, MacsAreRuns, Picking, RunPlaces, Announcers, Records
  <2>4. RunPlaces'
    BY <1>2 DEF LookupBridge, wireVars, history, NetTypes, RunPlaces, Dead, Records
  <2>5. PicksApart'
    BY <1>2 DEF LookupBridge, wireVars, history, NetTypes, PicksApart, Picking, GivenUp, Dead, Records, RunPlaces
  <2>6. DoublesKnown'
    BY <1>2 DEF LookupBridge, wireVars, history, NetTypes, DoublesKnown, Doubles, Dead, Records, RunPlaces
  <2>7. EntriesFollow'
    BY <1>2 DEF LookupBridge, wireVars, history, NetTypes, EntriesFollow, RunPlaces, DoublesKnown, Doubles, Dead, MacsAreRuns, Records
  <2> QED
    BY <2>1, <2>2, <2>3, <2>4, <2>5, <2>6, <2>7
<1>3. ASSUME NEW c \in Cont, AddBridge(c)
      PROVE  LinksInv'
  <2>1. NetTypes'
    BY <1>3 DEF AddBridge, wireVars, history, NetTypes, Records, Statuses, RunStates, Announcers, NoIp, Ips
  <2>2. CountEnds'
    BY <1>3 DEF AddBridge, wireVars, history, NetTypes, CountEnds, Picking, Records, Ips, NoIp
  <2>3. MacsAreRuns'
    BY <1>3 DEF AddBridge, wireVars, history, NetTypes, MacsAreRuns, Picking, RunPlaces, Announcers, Records
  <2>4. RunPlaces'
    BY <1>3 DEF AddBridge, wireVars, history, NetTypes, RunPlaces, Dead, Records
  <2>5. PicksApart'
    <3>1. UNCHANGED <<snap, pick, rec, saw, revived>>
      BY <1>3 DEF AddBridge, history
    <3>2. npc[c] = "add" /\ npc' \in {[npc EXCEPT ![c] = "setup"], [npc EXCEPT ![c] = "alloc"]}
      BY <1>3 DEF AddBridge
    <3>3. \A x \in Cont : /\ npc'[x] \in Picking \ {"save"} => npc[x] \in Picking \ {"save"}
                          /\ npc'[x] = "save" => npc[x] = "save"
      BY <3>2 DEF NetTypes, Picking
    <3> QED
      BY <3>1, <3>3 DEF PicksApart, GivenUp
  <2>6. DoublesKnown'
    BY <1>3 DEF AddBridge, wireVars, history, NetTypes, DoublesKnown, Doubles, Dead, Records, RunPlaces
  <2>7. EntriesFollow'
    BY <1>3 DEF AddBridge, wireVars, history, NetTypes, EntriesFollow, RunPlaces, DoublesKnown, Doubles, Dead, MacsAreRuns, Records
  <2> QED
    BY <2>1, <2>2, <2>3, <2>4, <2>5, <2>6, <2>7
<1>4. ASSUME NEW c \in Cont, SetupBridge(c)
      PROVE  LinksInv'
  <2>1. NetTypes'
    BY <1>4 DEF SetupBridge, wireVars, history, NetTypes, Records, Statuses, RunStates, Announcers, NoIp, Ips
  <2>2. CountEnds'
    BY <1>4 DEF SetupBridge, wireVars, history, NetTypes, CountEnds, Picking, Records, Ips, NoIp
  <2>3. MacsAreRuns'
    BY <1>4 DEF SetupBridge, wireVars, history, NetTypes, MacsAreRuns, Picking, RunPlaces, Announcers, Records
  <2>4. RunPlaces'
    BY <1>4 DEF SetupBridge, wireVars, history, NetTypes, RunPlaces, Dead, Records
  <2>5. PicksApart'
    BY <1>4 DEF SetupBridge, wireVars, history, NetTypes, PicksApart, Picking, GivenUp, Dead, Records, RunPlaces
  <2>6. DoublesKnown'
    BY <1>4 DEF SetupBridge, wireVars, history, NetTypes, DoublesKnown, Doubles, Dead, Records, RunPlaces
  <2>7. EntriesFollow'
    BY <1>4 DEF SetupBridge, wireVars, history, NetTypes, EntriesFollow, RunPlaces, DoublesKnown, Doubles, Dead, MacsAreRuns, Records
  <2> QED
    BY <2>1, <2>2, <2>3, <2>4, <2>5, <2>6, <2>7
<1>5. ASSUME NEW c \in Cont, Allocate(c)
      PROVE  LinksInv'
  <2>1. NetTypes'
    <3>1. npc[c] = "alloc" /\ nruns \in Nat /\ nruns > 0 /\ nruns <= MaxRuns
      BY <1>5 DEF Allocate, NetTypes, CountEnds, Picking
    <3>2. nruns \in Ips /\ nruns \notin snap[c].used
      BY <3>1 DEF Ips, CountEnds, Picking
    <3>3. IPRequest(snap[c].used) \in Ips \ snap[c].used /\ IPRequest(snap[c].used) <= nruns
      BY <3>2, IPRequestFree
    <3>4. pick'[c] = NoIp \/ (pick'[c] \in Ips \ snap[c].used /\ pick'[c] <= nruns)
      BY <1>5, <3>3 DEF Allocate, NetTypes
    <3>5. pick' = [pick EXCEPT ![c] = pick'[c]]
      BY <1>5 DEF Allocate, NetTypes
    <3>6. npc' = [npc EXCEPT ![c] = "save"]
      BY <1>5 DEF Allocate
    <3>7. UNCHANGED <<bridge, snap, rec, wireVars, nruns, history>>
      BY <1>5 DEF Allocate
    <3> QED
      BY <3>4, <3>5, <3>6, <3>7, SMTT(30) DEF NetTypes, RunStates, wireVars, history
  <2>2. CountEnds'
    <3>1. npc[c] = "alloc" /\ nruns \in Nat /\ nruns > 0 /\ nruns <= MaxRuns
      BY <1>5 DEF Allocate, NetTypes, CountEnds, Picking
    <3>2. nruns \in Ips /\ nruns \notin snap[c].used
      BY <3>1 DEF Ips, CountEnds, Picking
    <3>3. IPRequest(snap[c].used) \in Ips \ snap[c].used /\ IPRequest(snap[c].used) <= nruns
      BY <3>2, IPRequestFree
    <3>4. pick'[c] = NoIp \/ (pick'[c] \in Ips \ snap[c].used /\ pick'[c] <= nruns)
      BY <1>5, <3>3 DEF Allocate, NetTypes
    <3>5. pick' = [pick EXCEPT ![c] = pick'[c]]
      BY <1>5 DEF Allocate, NetTypes
    <3>6. npc' = [npc EXCEPT ![c] = "save"]
      BY <1>5 DEF Allocate
    <3>7. UNCHANGED <<bridge, snap, rec, wireVars, nruns, history>>
      BY <1>5 DEF Allocate
    <3>8. \A x \in Cont : rec[x].ip \in Nat /\ pick'[x] <= nruns
      BY <3>1, <3>4, <3>5 DEF NetTypes, CountEnds, Records, Ips, NoIp
    <3>9. \A x \in Cont : npc'[x] \in Picking => npc[x] \in Picking
      BY <3>1, <3>6 DEF NetTypes, Picking
    <3> QED
      BY <3>7, <3>8, <3>9 DEF CountEnds
  <2>3. MacsAreRuns'
    BY <1>5 DEF Allocate, wireVars, history, NetTypes, MacsAreRuns, Picking, RunPlaces, Announcers, Records
  <2>4. RunPlaces'
    BY <1>5 DEF Allocate, wireVars, history, NetTypes, RunPlaces, Dead, Records
  <2>5. PicksApart'
    <3>1. npc[c] = "alloc" /\ nruns \in Nat /\ nruns > 0 /\ nruns <= MaxRuns
      BY <1>5 DEF Allocate, NetTypes, CountEnds, Picking
    <3>2. nruns \in Ips /\ nruns \notin snap[c].used
      BY <3>1 DEF Ips, CountEnds, Picking
    <3>3. IPRequest(snap[c].used) \in Ips \ snap[c].used /\ IPRequest(snap[c].used) <= nruns
      BY <3>2, IPRequestFree
    <3>4. pick'[c] = NoIp \/ (pick'[c] \in Ips \ snap[c].used /\ pick'[c] <= nruns)
      BY <1>5, <3>3 DEF Allocate, NetTypes
    <3>5. pick' = [pick EXCEPT ![c] = pick'[c]]
      BY <1>5 DEF Allocate, NetTypes
    <3>6. npc' = [npc EXCEPT ![c] = "save"]
      BY <1>5 DEF Allocate
    <3>7. UNCHANGED <<bridge, snap, rec, wireVars, nruns, history>>
      BY <1>5 DEF Allocate
    <3>8. \A x \in Cont : /\ npc'[x] \in Picking \ {"save"} => npc[x] \in Picking \ {"save"}
                          /\ npc'[x] = "save" => x = c \/ npc[x] = "save"
                          /\ x # c => pick'[x] = pick[x]
      BY <3>5, <3>6 DEF NetTypes, Picking
    <3>9. \A d \in snap[c].who : pick'[c] # NoIp /\ rec[d].ip = pick'[c] => GivenUp(d)
      BY <3>1, <3>4 DEF PicksApart, Picking
    <3> QED
      BY <3>7, <3>8, <3>9 DEF PicksApart, GivenUp, history
  <2>6. DoublesKnown'
    BY <1>5 DEF Allocate, wireVars, history, NetTypes, DoublesKnown, Doubles, Dead, Records, RunPlaces
  <2>7. EntriesFollow'
    BY <1>5 DEF Allocate, wireVars, history, NetTypes, EntriesFollow, RunPlaces, DoublesKnown, Doubles, Dead, MacsAreRuns, Records
  <2> QED
    BY <2>1, <2>2, <2>3, <2>4, <2>5, <2>6, <2>7
<1>6. ASSUME NEW c \in Cont, SaveRecord(c)
      PROVE  LinksInv'
  <2>1. NetTypes'
    <3>1. pick[c] \in Ips \cup {NoIp} /\ snap[c].who \in SUBSET Cont
      BY DEF NetTypes
    <3>2. rec' \in [Cont -> Records]
      BY <1>6, <3>1 DEF SaveRecord, NetTypes, Records, Statuses
    <3>3. snap' \in [Cont -> [used : SUBSET (Ips \cup {NoIp}), who : SUBSET Cont]]
      <4>1. ASSUME NEW x \in Cont
            PROVE  [snap[x] EXCEPT !.who = @ \ {c}]
                     \in [used : SUBSET (Ips \cup {NoIp}), who : SUBSET Cont]
        <5>1. snap[x] \in [used : SUBSET (Ips \cup {NoIp}), who : SUBSET Cont]
          BY DEF NetTypes
        <5> QED
          BY <5>1
      <4>2. snap' = [x \in Cont |-> [snap[x] EXCEPT !.who = @ \ {c}]]
        BY <1>6 DEF SaveRecord
      <4> QED
        BY <4>1, <4>2, Zenon
    <3>4. saw' \in [Cont -> SUBSET Cont] /\ revived' \in [Cont -> Statuses \cup {"no"}]
      BY <1>6, <3>1 DEF SaveRecord, NetTypes
    <3>5. npc' \in [Cont -> RunStates]
      BY <1>6 DEF SaveRecord, NetTypes, RunStates
    <3>6. doubled' \in BOOLEAN
      BY <1>6, Zenon DEF SaveRecord
    <3>7. UNCHANGED <<nlink, child, cache, neigh, pick, nmac, anns, nruns, late>>
      BY <1>6 DEF SaveRecord, wireVars
    <3> QED
      BY <3>2, <3>3, <3>4, <3>5, <3>6, <3>7 DEF NetTypes
  <2>2. CountEnds'
    <3>1. /\ UNCHANGED <<pick, nruns>> /\ npc' = [npc EXCEPT ![c] = "flush"]
          /\ rec' = [rec EXCEPT ![c] = [st |-> "new", ip |-> pick[c]]]
          /\ \A x \in Cont : snap'[x].used = snap[x].used
      BY <1>6 DEF SaveRecord, NetTypes
    <3>2. \A x \in Cont : rec'[x].ip <= nruns
      BY <3>1 DEF NetTypes, CountEnds
    <3> QED
      BY <3>1, <3>2 DEF NetTypes, CountEnds, Picking
  <2>3. MacsAreRuns'
    BY <1>6 DEF SaveRecord, wireVars, history, NetTypes, MacsAreRuns, Picking, RunPlaces, Announcers, Records
  <2>4. RunPlaces'
    BY <1>6 DEF SaveRecord, wireVars, history, NetTypes, RunPlaces, Dead, Records
  <2>5. PicksApart'
    <3>1. /\ npc[c] = "save" /\ UNCHANGED pick /\ npc' = [npc EXCEPT ![c] = "flush"]
          /\ rec' = [rec EXCEPT ![c] = [st |-> "new", ip |-> pick[c]]]
          /\ revived' = [revived EXCEPT ![c] = "no"]
      BY <1>6 DEF SaveRecord
    <3>2. \A x \in Cont : snap'[x].used = snap[x].used /\ snap'[x].who = snap[x].who \ {c}
      BY <1>6 DEF SaveRecord, NetTypes
    <3>3. saw'[c] = snap[c].who /\ \A x \in Cont \ {c} : saw'[x] = saw[x] \ {c}
      BY <1>6 DEF SaveRecord, NetTypes
    <3>4. \A d \in Cont \ {c} : /\ rec'[d] = rec[d] /\ revived'[d] = revived[d]
                              /\ npc'[d] = npc[d] /\ pick'[d] = pick[d]
      BY <3>1 DEF NetTypes
    <3>5. rec'[c].ip = pick[c] /\ npc'[c] \notin Picking
      BY <3>1 DEF NetTypes, Picking
    <3>6. \A x \in Cont : snap[x].who \subseteq Cont /\ saw[x] \subseteq Cont
      BY DEF NetTypes
    <3>7. npc'[c] # "save"
      BY <3>5 DEF Picking
    <3>8. \A x \in Cont : x \notin snap'[x].who /\ x \notin saw'[x]
                        /\ \A d \in snap'[x].who : rec'[d].st # "none"
      <4> TAKE x \in Cont
      <4>1. x \notin snap[x].who /\ x \notin saw[x] /\ c \notin snap[c].who
        BY DEF PicksApart
      <4>2. \A d \in snap[x].who : rec[d].st # "none"
        BY DEF PicksApart
      <4>3. x \notin snap'[x].who
        BY <4>1, <3>2
      <4>4. x \notin saw'[x]
        BY <4>1, <3>3
      <4> QED
        BY <4>2, <4>3, <4>4, <3>2, <3>4, <3>6
    <3>9. \A x \in Cont \ {c} :
            /\ npc'[x] \in Picking \ {"save"} =>
                 \A d \in snap'[x].who : rec'[d].ip \in snap'[x].used \/ GivenUp(d)'
            /\ npc'[x] = "save" =>
                 \A d \in snap'[x].who : pick'[x] # NoIp /\ rec'[d].ip = pick'[x] => GivenUp(d)'
            /\ \A d \in saw'[x] : rec'[x].ip # NoIp /\ rec'[d].ip = rec'[x].ip => GivenUp(d)'
      <4> TAKE x \in Cont \ {c}
      <4>1. /\ npc'[x] = npc[x] /\ pick'[x] = pick[x] /\ rec'[x] = rec[x]
            /\ snap'[x].used = snap[x].used
        BY <3>2, <3>4
      <4>2. \A d \in snap'[x].who \cup saw'[x] :
              rec'[d] = rec[d] /\ revived'[d] = revived[d]
        BY <3>2, <3>3, <3>4, <3>6
      <4>3. snap'[x].who \subseteq snap[x].who /\ saw'[x] \subseteq saw[x]
        BY <3>2, <3>3
      <4>4. npc[x] \in Picking \ {"save"} =>
              \A d \in snap[x].who : rec[d].ip \in snap[x].used \/ GivenUp(d)
        BY DEF PicksApart
      <4>5. npc[x] = "save" =>
              \A d \in snap[x].who : pick[x] # NoIp /\ rec[d].ip = pick[x] => GivenUp(d)
        BY DEF PicksApart
      <4>6. \A d \in saw[x] : rec[x].ip # NoIp /\ rec[d].ip = rec[x].ip => GivenUp(d)
        BY DEF PicksApart
      <4> QED
        BY <4>1, <4>2, <4>3, <4>4, <4>5, <4>6 DEF GivenUp
    <3>10. \A d \in saw'[c] : rec'[c].ip # NoIp /\ rec'[d].ip = rec'[c].ip => GivenUp(d)'
      BY <3>1, <3>3, <3>4, <3>5, <3>6 DEF PicksApart, GivenUp
    <3> QED
      BY <3>5, <3>7, <3>8, <3>9, <3>10 DEF PicksApart
  <2>6. DoublesKnown'
    BY <1>6 DEF SaveRecord, wireVars, history, NetTypes, DoublesKnown, Doubles, Dead, Records, RunPlaces
  <2>7. EntriesFollow'
    BY <1>6 DEF SaveRecord, wireVars, history, NetTypes, EntriesFollow, RunPlaces, DoublesKnown, Doubles, Dead, MacsAreRuns, Records
  <2> QED
    BY <2>1, <2>2, <2>3, <2>4, <2>5, <2>6, <2>7
<1>7. ASSUME NEW c \in Cont, FlushNeigh(c)
      PROVE  LinksInv'
  <2>1. NetTypes'
    BY <1>7 DEF FlushNeigh, wireVars, history, NetTypes, Records, Statuses, RunStates, Announcers, NoIp, Ips
  <2>2. CountEnds'
    BY <1>7 DEF FlushNeigh, wireVars, history, NetTypes, CountEnds, Picking, Records, Ips, NoIp
  <2>3. MacsAreRuns'
    BY <1>7 DEF FlushNeigh, wireVars, history, NetTypes, MacsAreRuns, Picking, RunPlaces, Announcers, Records
  <2>4. RunPlaces'
    BY <1>7 DEF FlushNeigh, wireVars, history, NetTypes, RunPlaces, Dead, Records
  <2>5. PicksApart'
    BY <1>7 DEF FlushNeigh, wireVars, history, NetTypes, PicksApart, Picking, GivenUp, Dead, Records, RunPlaces
  <2>6. DoublesKnown'
    BY <1>7 DEF FlushNeigh, wireVars, history, NetTypes, DoublesKnown, Doubles, Dead, Records, RunPlaces
  <2>7. EntriesFollow'
    BY <1>7 DEF FlushNeigh, wireVars, history, NetTypes, EntriesFollow, RunPlaces, DoublesKnown, Doubles, Dead, MacsAreRuns, Records
  <2> QED
    BY <2>1, <2>2, <2>3, <2>4, <2>5, <2>6, <2>7
<1>8. ASSUME NEW c \in Cont, Spawn(c)
      PROVE  LinksInv'
  <2>1. NetTypes'
    <3>1. rec' \in [Cont -> Records]
      BY <1>8, RecUpdate DEF Spawn, NetTypes, Statuses
    <3> QED
      BY <1>8, <3>1 DEF Spawn, wireVars, history, NetTypes, RunStates
  <2>2. CountEnds'
    BY <1>8 DEF Spawn, wireVars, history, NetTypes, CountEnds, Picking, Records, Ips, NoIp
  <2>3. MacsAreRuns'
    BY <1>8 DEF Spawn, wireVars, history, NetTypes, MacsAreRuns, Picking, RunPlaces, Announcers, Records
  <2>4. RunPlaces'
    BY <1>8 DEF Spawn, wireVars, history, NetTypes, RunPlaces, Dead, Records
  <2>5. PicksApart'
    BY <1>8 DEF Spawn, wireVars, history, NetTypes, PicksApart, Picking, GivenUp, Dead, Records, RunPlaces
  <2>6. DoublesKnown'
    BY <1>8 DEF Spawn, wireVars, history, NetTypes, DoublesKnown, Doubles, Dead, Records, RunPlaces
  <2>7. EntriesFollow'
    BY <1>8 DEF Spawn, wireVars, history, NetTypes, EntriesFollow, RunPlaces, DoublesKnown, Doubles, Dead, MacsAreRuns, Records
  <2> QED
    BY <2>1, <2>2, <2>3, <2>4, <2>5, <2>6, <2>7
<1>9. ASSUME NEW c \in Cont, CreateVeth(c)
      PROVE  LinksInv'
  <2>1. NetTypes'
    BY <1>9 DEF CreateVeth, wireVars, history, NetTypes, Records, Statuses, RunStates, Announcers, NoIp, Ips
  <2>2. CountEnds'
    BY <1>9 DEF CreateVeth, wireVars, history, NetTypes, CountEnds, Picking, Records, Ips, NoIp
  <2>3. MacsAreRuns'
    BY <1>9 DEF CreateVeth, wireVars, history, NetTypes, MacsAreRuns, Picking, RunPlaces, Announcers, Records
  <2>4. RunPlaces'
    BY <1>9 DEF CreateVeth, wireVars, history, NetTypes, RunPlaces, Dead, Records
  <2>5. PicksApart'
    BY <1>9 DEF CreateVeth, wireVars, history, NetTypes, PicksApart, Picking, GivenUp, Dead, Records, RunPlaces
  <2>6. DoublesKnown'
    BY <1>9 DEF CreateVeth, wireVars, history, NetTypes, DoublesKnown, Doubles, Dead, Records, RunPlaces
  <2>7. EntriesFollow'
    BY <1>9 DEF CreateVeth, wireVars, history, NetTypes, EntriesFollow, RunPlaces, DoublesKnown, Doubles, Dead, MacsAreRuns, Records
  <2> QED
    BY <2>1, <2>2, <2>3, <2>4, <2>5, <2>6, <2>7
<1>10. ASSUME NEW c \in Cont, CreateFails(c)
      PROVE  LinksInv'
  <2>1. NetTypes'
    <3>1. rec' \in [Cont -> Records]
      BY <1>10, RecUpdate DEF CreateFails, NetTypes, Statuses
    <3> QED
      BY <1>10, <3>1 DEF CreateFails, wireVars, history, NetTypes, RunStates
  <2>2. CountEnds'
    BY <1>10 DEF CreateFails, wireVars, history, NetTypes, CountEnds, Picking, Records, Ips, NoIp
  <2>3. MacsAreRuns'
    BY <1>10 DEF CreateFails, wireVars, history, NetTypes, MacsAreRuns, Picking, RunPlaces, Announcers, Records
  <2>4. RunPlaces'
    BY <1>10 DEF CreateFails, wireVars, history, NetTypes, RunPlaces, Dead, Records
  <2>5. PicksApart'
    BY <1>10 DEF CreateFails, wireVars, history, NetTypes, PicksApart, Picking, GivenUp, Dead, Records, RunPlaces
  <2>6. DoublesKnown'
    BY <1>10 DEF CreateFails, wireVars, history, NetTypes, DoublesKnown, Doubles, Dead, Records, RunPlaces
  <2>7. EntriesFollow'
    BY <1>10 DEF CreateFails, wireVars, history, NetTypes, EntriesFollow, RunPlaces, DoublesKnown, Doubles, Dead, MacsAreRuns, Records
  <2> QED
    BY <2>1, <2>2, <2>3, <2>4, <2>5, <2>6, <2>7
<1>11. ASSUME NEW c \in Cont, MoveToNs(c)
      PROVE  LinksInv'
  <2>1. NetTypes'
    <3>1. anns' \subseteq Announcers
      <4>1. CASE rec[c].ip # NoIp
        <5>1. rec[c].ip \in Ips /\ nmac[c] \in Nat
          BY <4>1 DEF NetTypes, Records
        <5>2. [c |-> c, ip |-> rec[c].ip, mac |-> nmac[c], ready |-> FALSE] \in Announcers
          BY <5>1, Zenon DEF Announcers
        <5> QED
          BY <1>11, <5>2 DEF MoveToNs, NetTypes
      <4>2. CASE rec[c].ip = NoIp
        BY <1>11, <4>2 DEF MoveToNs, NetTypes
      <4> QED
        BY <4>1, <4>2
    <3> QED
      BY <1>11, <3>1 DEF MoveToNs, history, NetTypes, RunStates
  <2>2. CountEnds'
    BY <1>11 DEF MoveToNs, wireVars, history, NetTypes, CountEnds, Picking, Records, Ips, NoIp
  <2>3. MacsAreRuns'
    BY <1>11 DEF MoveToNs, wireVars, history, NetTypes, MacsAreRuns, Picking, RunPlaces, Announcers, Records
  <2>4. RunPlaces'
    BY <1>11 DEF MoveToNs, wireVars, history, NetTypes, RunPlaces, Dead, Records
  <2>5. PicksApart'
    BY <1>11 DEF MoveToNs, wireVars, history, NetTypes, PicksApart, Picking, GivenUp, Dead, Records, RunPlaces
  <2>6. DoublesKnown'
    BY <1>11 DEF MoveToNs, wireVars, history, NetTypes, DoublesKnown, Doubles, Dead, Records, RunPlaces
  <2>7. EntriesFollow'
    BY <1>11 DEF MoveToNs, wireVars, history, NetTypes, EntriesFollow, RunPlaces, DoublesKnown, Doubles, Dead, MacsAreRuns, Records
  <2> QED
    BY <2>1, <2>2, <2>3, <2>4, <2>5, <2>6, <2>7
<1>12. ASSUME NEW c \in Cont, LinkSeen(c)
      PROVE  LinksInv'
  <2>1. NetTypes'
    BY <1>12 DEF LinkSeen, wireVars, history, NetTypes, Records, Statuses, RunStates, Announcers, NoIp, Ips
  <2>2. CountEnds'
    BY <1>12 DEF LinkSeen, wireVars, history, NetTypes, CountEnds, Picking, Records, Ips, NoIp
  <2>3. MacsAreRuns'
    BY <1>12 DEF LinkSeen, wireVars, history, NetTypes, MacsAreRuns, Picking, RunPlaces, Announcers, Records
  <2>4. RunPlaces'
    BY <1>12 DEF LinkSeen, wireVars, history, NetTypes, RunPlaces, Dead, Records
  <2>5. PicksApart'
    BY <1>12 DEF LinkSeen, wireVars, history, NetTypes, PicksApart, Picking, GivenUp, Dead, Records, RunPlaces
  <2>6. DoublesKnown'
    BY <1>12 DEF LinkSeen, wireVars, history, NetTypes, DoublesKnown, Doubles, Dead, Records, RunPlaces
  <2>7. EntriesFollow'
    BY <1>12 DEF LinkSeen, wireVars, history, NetTypes, EntriesFollow, RunPlaces, DoublesKnown, Doubles, Dead, MacsAreRuns, Records
  <2> QED
    BY <2>1, <2>2, <2>3, <2>4, <2>5, <2>6, <2>7
<1>13. ASSUME NEW c \in Cont, Configure(c)
      PROVE  LinksInv'
  <2>1. NetTypes'
    BY <1>13 DEF Configure, wireVars, history, NetTypes, Records, Statuses, RunStates, Announcers, NoIp, Ips
  <2>2. CountEnds'
    BY <1>13 DEF Configure, wireVars, history, NetTypes, CountEnds, Picking, Records, Ips, NoIp
  <2>3. MacsAreRuns'
    BY <1>13 DEF Configure, wireVars, history, NetTypes, MacsAreRuns, Picking, RunPlaces, Announcers, Records
  <2>4. RunPlaces'
    BY <1>13 DEF Configure, wireVars, history, NetTypes, RunPlaces, Dead, Records
  <2>5. PicksApart'
    BY <1>13 DEF Configure, wireVars, history, NetTypes, PicksApart, Picking, GivenUp, Dead, Records, RunPlaces
  <2>6. DoublesKnown'
    BY <1>13 DEF Configure, wireVars, history, NetTypes, DoublesKnown, Doubles, Dead, Records, RunPlaces
  <2>7. EntriesFollow'
    BY <1>13 DEF Configure, wireVars, history, NetTypes, EntriesFollow, RunPlaces, DoublesKnown, Doubles, Dead, MacsAreRuns, Records
  <2> QED
    BY <2>1, <2>2, <2>3, <2>4, <2>5, <2>6, <2>7
<1>14. ASSUME NEW c \in Cont, Finalize(c)
      PROVE  LinksInv'
  <2>1. NetTypes'
    BY <1>14 DEF Finalize, Told, wireVars, history, NetTypes, Records, Statuses, RunStates, Announcers, NoIp, Ips
  <2>2. CountEnds'
    BY <1>14 DEF Finalize, Told, wireVars, history, NetTypes, CountEnds, Picking, Records, Ips, NoIp
  <2>3. MacsAreRuns'
    BY <1>14 DEF Finalize, Told, wireVars, history, NetTypes, MacsAreRuns, Picking, RunPlaces, Announcers, Records
  <2>4. RunPlaces'
    BY <1>14 DEF Finalize, Told, wireVars, history, NetTypes, RunPlaces, Dead, Records
  <2>5. PicksApart'
    BY <1>14 DEF Finalize, Told, wireVars, history, NetTypes, PicksApart, Picking, GivenUp, Dead, Records, RunPlaces
  <2>6. DoublesKnown'
    BY <1>14 DEF Finalize, Told, wireVars, history, NetTypes, DoublesKnown, Doubles, Dead, Records, RunPlaces
  <2>7. EntriesFollow'
    <3>1. UNCHANGED <<rec, nmac, npc, history>>
      BY <1>14 DEF Finalize
    <3>2. child' = [child EXCEPT ![c] = "run"]
      BY <1>14 DEF Finalize
    <3>3. c \in Cont /\ child[c] = "final"
      BY <1>14 DEF Finalize
    <3>4. ~Dead(rec[c].st)
      BY <3>3 DEF RunPlaces, Dead
    <3>5. /\ \A i \in Ips : neigh'[i] = neigh[i] \/ (i = rec[c].ip /\ neigh'[i] = nmac[c])
          /\ \A i \in Ips : cache'[i] = cache[i] \/ (i = rec[c].ip /\ cache'[i] = nmac[c])
          /\ rec[c].ip \in Ips => neigh'[rec[c].ip] \in {0, nmac[c]} /\ cache'[rec[c].ip] \in {0, nmac[c]}
      BY <1>14, ToldFacts DEF Finalize, NetTypes
    <3> SUFFICES ASSUME NEW x \in Cont, ~late', ~doubled', rec'[x].ip # NoIp
                 PROVE  /\ npc'[x] \in {"spawn", "veth", "move", "placed"} /\ revived'[x] = "no"
                             => neigh'[rec'[x].ip] \in {0, nmac'[x]}
                        /\ child'[x] = "run" => cache'[rec'[x].ip] \in {0, nmac'[x]}
      BY DEF EntriesFollow
    <3>20. /\ rec[x].ip \in Ips /\ rec[x].ip # NoIp /\ ~late /\ ~doubled
           /\ UNCHANGED <<rec, nmac, npc, revived>>
      BY <3>1, <3>2 DEF NetTypes, Records, history
    <3>21. ~Dead(rec[x].st) \/ ~(npc[x] \in {"spawn", "veth", "move", "placed"} /\ revived[x] = "no")
      BY DEF RunPlaces, Dead
    <3>22. child[x] # "none" => ~Dead(rec[x].st)
      BY DEF RunPlaces, Dead
    <3>23. x # c /\ ~Dead(rec[x].st) => rec[x].ip # rec[c].ip
      BY <3>3, <3>4, <3>20, LiveApart
    <3>24. CASE x = c
      BY <3>1, <3>2, <3>3, <3>4, <3>5, <3>20, <3>24 DEF NetTypes, EntriesFollow
    <3>25. CASE x # c
      BY <3>1, <3>2, <3>5, <3>20, <3>21, <3>22, <3>23, <3>25 DEF NetTypes, EntriesFollow
    <3> QED
      BY <3>24, <3>25
  <2> QED
    BY <2>1, <2>2, <2>3, <2>4, <2>5, <2>6, <2>7
<1>15. ASSUME NEW c \in Cont, ChildEnds(c)
      PROVE  LinksInv'
  <2>1. NetTypes'
    <3>1. rec' \in [Cont -> Records]
      BY <1>15, RecUpdate DEF ChildEnds, NetTypes, Statuses
    <3> QED
      BY <1>15, <3>1 DEF ChildEnds, wireVars, history, NetTypes, RunStates
  <2>2. CountEnds'
    BY <1>15 DEF ChildEnds, wireVars, history, NetTypes, CountEnds, Picking, Records, Ips, NoIp
  <2>3. MacsAreRuns'
    BY <1>15 DEF ChildEnds, wireVars, history, NetTypes, MacsAreRuns, Picking, RunPlaces, Announcers, Records
  <2>4. RunPlaces'
    BY <1>15 DEF ChildEnds, wireVars, history, NetTypes, RunPlaces, Dead, Records
  <2>5. PicksApart'
    BY <1>15 DEF ChildEnds, wireVars, history, NetTypes, PicksApart, Picking, GivenUp, Dead, Records, RunPlaces
  <2>6. DoublesKnown'
    BY <1>15 DEF ChildEnds, wireVars, history, NetTypes, DoublesKnown, Doubles, Dead, Records, RunPlaces
  <2>7. EntriesFollow'
    BY <1>15 DEF ChildEnds, wireVars, history, NetTypes, EntriesFollow, RunPlaces, DoublesKnown, Doubles, Dead, MacsAreRuns, Records
  <2> QED
    BY <2>1, <2>2, <2>3, <2>4, <2>5, <2>6, <2>7
<1>16. ASSUME NEW c \in Cont, Recover(c)
      PROVE  LinksInv'
  <2>1. NetTypes'
    BY <1>16 DEF Recover, wireVars, history, NetTypes, Records, Statuses, RunStates, Announcers, NoIp, Ips
  <2>2. CountEnds'
    <3>1. /\ nruns \in Nat /\ nruns' = nruns + 1 /\ UNCHANGED <<rec, pick, snap>>
          /\ npc' = [npc EXCEPT ![c] = "spawn"]
      BY <1>16 DEF Recover, NetTypes
    <3>2. \A x \in Cont : /\ rec[x].ip \in Nat /\ pick[x] \in Nat
                          /\ \A i \in snap[x].used : i \in Nat
      BY IpsAreNumbers DEF NetTypes, Records
    <3>3. \A x \in Cont : npc'[x] \in Picking => npc[x] \in Picking
      BY <3>1 DEF NetTypes, Picking
    <3> QED
      BY <3>1, <3>2, <3>3 DEF CountEnds
  <2>3. MacsAreRuns'
    BY <1>16 DEF Recover, wireVars, history, NetTypes, MacsAreRuns, Picking, RunPlaces, Announcers, Records
  <2>4. RunPlaces'
    BY <1>16 DEF Recover, wireVars, history, NetTypes, RunPlaces, Dead, Records
  <2>5. PicksApart'
    BY <1>16 DEF Recover, wireVars, history, NetTypes, PicksApart, Picking, GivenUp, Dead, Records, RunPlaces
  <2>6. DoublesKnown'
    BY <1>16 DEF Recover, wireVars, history, NetTypes, DoublesKnown, Doubles, Dead, Records, RunPlaces
  <2>7. EntriesFollow'
    BY <1>16 DEF Recover, wireVars, history, NetTypes, EntriesFollow, RunPlaces, DoublesKnown, Doubles, Dead, MacsAreRuns, Records
  <2> QED
    BY <2>1, <2>2, <2>3, <2>4, <2>5, <2>6, <2>7
<1>17. ASSUME NEW c \in Cont, NeighbourResolves(c)
      PROVE  LinksInv'
  <2>1. NetTypes'
    BY <1>17 DEF NeighbourResolves, wireVars, history, NetTypes, Records, Statuses, RunStates, Announcers, NoIp, Ips
  <2>2. CountEnds'
    BY <1>17 DEF NeighbourResolves, wireVars, history, NetTypes, CountEnds, Picking, Records, Ips, NoIp
  <2>3. MacsAreRuns'
    BY <1>17 DEF NeighbourResolves, wireVars, history, NetTypes, MacsAreRuns, Picking, RunPlaces, Announcers, Records
  <2>4. RunPlaces'
    BY <1>17 DEF NeighbourResolves, wireVars, history, NetTypes, RunPlaces, Dead, Records
  <2>5. PicksApart'
    BY <1>17 DEF NeighbourResolves, wireVars, history, NetTypes, PicksApart, Picking, GivenUp, Dead, Records, RunPlaces
  <2>6. DoublesKnown'
    BY <1>17 DEF NeighbourResolves, wireVars, history, NetTypes, DoublesKnown, Doubles, Dead, Records, RunPlaces
  <2>7. EntriesFollow'
    <3>1. UNCHANGED <<rec, nmac, npc, history>>
      BY <1>17 DEF NeighbourResolves
    <3>2. child' = child
      BY <1>17 DEF NeighbourResolves
    <3>3. c \in Cont /\ nlink[c] = "up"
      BY <1>17 DEF NeighbourResolves
    <3>4. ~Dead(rec[c].st)
      BY <3>3 DEF RunPlaces, Dead
    <3>5. /\ \A i \in Ips : neigh'[i] = neigh[i] \/ (i = rec[c].ip /\ neigh'[i] = nmac[c])
          /\ \A i \in Ips : cache'[i] = cache[i] \/ (i = rec[c].ip /\ cache'[i] = nmac[c])
          /\ rec[c].ip \in Ips => neigh'[rec[c].ip] \in {0, nmac[c]} /\ cache'[rec[c].ip] \in {0, nmac[c]}
      BY <1>17 DEF NeighbourResolves, NetTypes
    <3> SUFFICES ASSUME NEW x \in Cont, ~late', ~doubled', rec'[x].ip # NoIp
                 PROVE  /\ npc'[x] \in {"spawn", "veth", "move", "placed"} /\ revived'[x] = "no"
                             => neigh'[rec'[x].ip] \in {0, nmac'[x]}
                        /\ child'[x] = "run" => cache'[rec'[x].ip] \in {0, nmac'[x]}
      BY DEF EntriesFollow
    <3>20. /\ rec[x].ip \in Ips /\ rec[x].ip # NoIp /\ ~late /\ ~doubled
           /\ UNCHANGED <<rec, nmac, npc, revived>>
      BY <3>1, <3>2 DEF NetTypes, Records, history
    <3>21. ~Dead(rec[x].st) \/ ~(npc[x] \in {"spawn", "veth", "move", "placed"} /\ revived[x] = "no")
      BY DEF RunPlaces, Dead
    <3>22. child[x] # "none" => ~Dead(rec[x].st)
      BY DEF RunPlaces, Dead
    <3>23. x # c /\ ~Dead(rec[x].st) => rec[x].ip # rec[c].ip
      BY <3>3, <3>4, <3>20, LiveApart
    <3>24. CASE x = c
      BY <3>1, <3>2, <3>3, <3>4, <3>5, <3>20, <3>24 DEF NetTypes, EntriesFollow
    <3>25. CASE x # c
      BY <3>1, <3>2, <3>5, <3>20, <3>21, <3>22, <3>23, <3>25 DEF NetTypes, EntriesFollow
    <3> QED
      BY <3>24, <3>25
  <2> QED
    BY <2>1, <2>2, <2>3, <2>4, <2>5, <2>6, <2>7
<1>18. ASSUME NEW a \in anns, LinkCarries(a)
      PROVE  LinksInv'
  <2>1. NetTypes'
    BY <1>18, ZenonT(40) DEF LinkCarries, wireVars, history, NetTypes, Records, Statuses, RunStates, Announcers, NoIp, Ips
  <2>2. CountEnds'
    BY <1>18 DEF LinkCarries, wireVars, history, NetTypes, CountEnds, Picking, Records, Ips, NoIp
  <2>3. MacsAreRuns'
    <3> DEFINE b == [a EXCEPT !.ready = TRUE]
    <3>1. a \in Announcers /\ b.c = a.c /\ b.mac = a.mac /\ b.ip = a.ip
      BY DEF NetTypes, Announcers
    <3>2. anns' = (anns \ {a}) \cup {b} /\ UNCHANGED <<rec, nmac, npc, nruns>>
      BY <1>18 DEF LinkCarries
    <3> HIDE DEF b
    <3> QED
      BY <3>1, <3>2 DEF MacsAreRuns
  <2>4. RunPlaces'
    BY <1>18 DEF LinkCarries, wireVars, history, NetTypes, RunPlaces, Dead, Records
  <2>5. PicksApart'
    BY <1>18 DEF LinkCarries, wireVars, history, NetTypes, PicksApart, Picking, GivenUp, Dead, Records, RunPlaces
  <2>6. DoublesKnown'
    BY <1>18 DEF LinkCarries, wireVars, history, NetTypes, DoublesKnown, Doubles, Dead, Records, RunPlaces
  <2>7. EntriesFollow'
    BY <1>18 DEF LinkCarries, wireVars, history, NetTypes, EntriesFollow, RunPlaces, DoublesKnown, Doubles, Dead, MacsAreRuns, Records
  <2> QED
    BY <2>1, <2>2, <2>3, <2>4, <2>5, <2>6, <2>7
<1>19. ASSUME NEW a \in anns, AnnounceSends(a)
      PROVE  LinksInv'
  <2>1. NetTypes'
    <3>1. a \in Announcers /\ a.mac \in 0..MaxRuns
      BY DEF NetTypes, MacsAreRuns, Announcers
    <3>2. cache' \in [Ips -> 0..MaxRuns] /\ neigh' \in [Ips -> 0..MaxRuns]
      BY <1>19, <3>1, ToldFacts DEF AnnounceSends, NetTypes
    <3>3. late' \in BOOLEAN
      BY <1>19, Zenon DEF AnnounceSends
    <3> QED
      BY <1>19, <3>2, <3>3 DEF AnnounceSends, NetTypes
  <2>2. CountEnds'
    BY <1>19 DEF AnnounceSends, Told, wireVars, history, NetTypes, CountEnds, Picking, Records, Ips, NoIp
  <2>3. MacsAreRuns'
    BY <1>19 DEF AnnounceSends, Told, wireVars, history, NetTypes, MacsAreRuns, Picking, RunPlaces, Announcers, Records
  <2>4. RunPlaces'
    BY <1>19 DEF AnnounceSends, Told, wireVars, history, NetTypes, RunPlaces, Dead, Records
  <2>5. PicksApart'
    BY <1>19 DEF AnnounceSends, Told, wireVars, history, NetTypes, PicksApart, Picking, GivenUp, Dead, Records, RunPlaces
  <2>6. DoublesKnown'
    BY <1>19 DEF AnnounceSends, Told, wireVars, history, NetTypes, DoublesKnown, Doubles, Dead, Records, RunPlaces
  <2>7. EntriesFollow'
    <3>1. /\ UNCHANGED <<rec, nmac, npc, child, revived, doubled>>
          /\ ~late' => ~late /\ nlink[a.c] = "up" /\ nmac[a.c] = a.mac
      BY <1>19 DEF AnnounceSends
    <3>2. a \in Announcers /\ a.c \in Cont /\ a.ip \in Ips /\ a.mac \in 0..MaxRuns
      BY DEF NetTypes, MacsAreRuns, Announcers
    <3>3. /\ \A i \in Ips : neigh'[i] = neigh[i] \/ (i = a.ip /\ neigh'[i] = a.mac)
          /\ \A i \in Ips : cache'[i] = cache[i] \/ (i = a.ip /\ cache'[i] = a.mac)
          /\ a.ip \in Ips => neigh'[a.ip] \in {0, a.mac} /\ cache'[a.ip] \in {0, a.mac}
      BY <1>19, <3>2, ToldFacts DEF AnnounceSends, NetTypes
    <3> SUFFICES ASSUME NEW x \in Cont, ~late', ~doubled', rec'[x].ip # NoIp
                 PROVE  /\ npc'[x] \in {"spawn", "veth", "move", "placed"} /\ revived'[x] = "no"
                             => neigh'[rec'[x].ip] \in {0, nmac'[x]}
                        /\ child'[x] = "run" => cache'[rec'[x].ip] \in {0, nmac'[x]}
      BY DEF EntriesFollow
    <3>4. ~late /\ ~doubled /\ rec[x].ip # NoIp /\ rec[x].ip \in Ips
      BY <3>1 DEF NetTypes, Records
    <3>5. nmac[a.c] = a.mac /\ a.ip = rec[a.c].ip /\ ~Dead(rec[a.c].st)
      BY <3>1, <3>2 DEF MacsAreRuns, RunPlaces, Dead
    <3>6. /\ npc[x] \in {"spawn", "veth", "move", "placed"} /\ revived[x] = "no" => ~Dead(rec[x].st)
          /\ child[x] # "none" => ~Dead(rec[x].st)
      BY DEF RunPlaces, Dead
    <3>7. x # a.c /\ ~Dead(rec[x].st) => rec[x].ip # a.ip
      BY <3>2, <3>4, <3>5, LiveApart
    <3>8. CASE x = a.c
      BY <3>1, <3>3, <3>4, <3>5, <3>8 DEF EntriesFollow
    <3>9. CASE x # a.c
      BY <3>1, <3>3, <3>4, <3>6, <3>7, <3>9 DEF EntriesFollow
    <3> QED
      BY <3>8, <3>9
  <2> QED
    BY <2>1, <2>2, <2>3, <2>4, <2>5, <2>6, <2>7
<1>20. ASSUME NEW a \in anns, AnnounceGivesUp(a)
      PROVE  LinksInv'
  <2>1. NetTypes'
    BY <1>20 DEF AnnounceGivesUp, wireVars, history, NetTypes, Records, Statuses, RunStates, Announcers, NoIp, Ips
  <2>2. CountEnds'
    BY <1>20 DEF AnnounceGivesUp, wireVars, history, NetTypes, CountEnds, Picking, Records, Ips, NoIp
  <2>3. MacsAreRuns'
    BY <1>20 DEF AnnounceGivesUp, wireVars, history, NetTypes, MacsAreRuns, Picking, RunPlaces, Announcers, Records
  <2>4. RunPlaces'
    BY <1>20 DEF AnnounceGivesUp, wireVars, history, NetTypes, RunPlaces, Dead, Records
  <2>5. PicksApart'
    BY <1>20 DEF AnnounceGivesUp, wireVars, history, NetTypes, PicksApart, Picking, GivenUp, Dead, Records, RunPlaces
  <2>6. DoublesKnown'
    BY <1>20 DEF AnnounceGivesUp, wireVars, history, NetTypes, DoublesKnown, Doubles, Dead, Records, RunPlaces
  <2>7. EntriesFollow'
    BY <1>20 DEF AnnounceGivesUp, wireVars, history, NetTypes, EntriesFollow, RunPlaces, DoublesKnown, Doubles, Dead, MacsAreRuns, Records
  <2> QED
    BY <2>1, <2>2, <2>3, <2>4, <2>5, <2>6, <2>7
<1>21. CASE UNCHANGED netVars
  BY <1>21 DEF netVars, NetTypes, CountEnds, MacsAreRuns, RunPlaces, PicksApart,
         DoublesKnown, EntriesFollow, Doubles, GivenUp, Dead
<1> HIDE DEF LinksInv
<1> QED
  BY <1>1, <1>2, <1>3, <1>4, <1>5, <1>6, <1>7, <1>8, <1>9, <1>10, <1>11, <1>12, <1>13, <1>14, <1>15, <1>16, <1>17, <1>18, <1>19, <1>20, <1>21,
     Zenon DEF NetNext

\* What the invariant says, without its strengthening.
LEMMA LinksInvIsSafe == LinksInv => LinksSafe
  BY DEF LinksInv, LinksSafe, NetTypes, NetTypeOK, Records, Statuses, UniqueAddress,
         NoStaleNeighbour, PicksApart, GivenUp, EntriesFollow, RunPlaces

\* RunContainer, Link.defaults and ContainerInitProc: for any number of
\* containers and runs, two live containers share an address only if neither
\* had its record in the store when the other read it or one came back from a
\* dead record, and no stale neighbour entry is left for a live container.
THEOREM LinksAreSafe == NetSpec => []LinksSafe
<1>1. NetInit => LinksInv
  BY LinksInitial
<1>2. LinksInv /\ [NetNext]_netVars => LinksInv'
  BY LinksStep
<1>3. LinksInv => LinksSafe
  BY LinksInvIsSafe
<1> QED
  BY <1>1, <1>2, <1>3, PTL DEF NetSpec

-----------------------------------------------------------------------------
(* The DHCP client.                                                        *)

Servers == DhcpServer \cup {AnyServer, NoLease.server}
Messages ==
  [t : {"solicit", "request", "renew", "rebind", "advert", "reply", "nak", "release"},
   now : BOOLEAN, s : Servers, a : Address \cup {NoAddr},
   tm : LeaseTimes \cup {NoTimes}]
Leases == [server : Servers, addr : Address \cup {NoAddr}, times : LeaseTimes \cup {NoTimes}]
Granted(l) == l.server \in DhcpServer /\ l.addr \in Address

\* DhcpTypeOK, with the rest of the state.
DhcpTypes ==
  /\ DhcpTypeOK
  /\ fam \in {"v4", "na", "pd"} /\ wire \subseteq Messages
  /\ chosen \in Leases /\ lease \in Leases /\ base \in Leases
  /\ cancelled \in BOOLEAN /\ lapsed \in BOOLEAN /\ released \in BOOLEAN

\* Only servers offer and grant, and only what is in a pool.
AnswersAreGranted ==
  /\ \A m \in wire : m.t = "advert" \/ (m.t = "reply" /\ m.a # NoAddr)
                     => m.s \in DhcpServer /\ m.a \in Address
  /\ dpc = "request" => Granted(chosen)
  /\ base # NoLease => Granted(base) /\ Granted(lease)
  /\ InLoop => base # NoLease /\ Granted(lease)

\* Once an address has been leased, and not only while the loop runs, the
\* interface has the one of the lease: an expired lease is replaced, not added to.
AddressIsOfLease ==
  /\ fam # "pd" /\ base = NoLease => ifAddrs = {}
  /\ fam # "pd" /\ base # NoLease /\ ~lapsed => ifAddrs = {lease.addr}
  /\ fam = "v4" /\ base # NoLease => dpc = "done"

\* The inductive invariant of the client.
LeaseInv == DhcpTypes /\ AnswersAreGranted /\ AddressIsOfLease /\ AddressFollowsLease

\* The initial states satisfy the invariant.
LEMMA LeaseInitial == DhcpInit => LeaseInv
<1> SUFFICES ASSUME DhcpInit PROVE LeaseInv
  OBVIOUS
<1> USE DhcpAssumption DEF DhcpInit
<1>1. NoLease \in Leases
  BY Zenon DEF Leases, Servers, NoTimes, NoLease, NoAddr
<1>2. cancelled \in BOOLEAN /\ lapsed \in BOOLEAN /\ released \in BOOLEAN
  BY Zenon
<1>3. DhcpTypes
  BY <1>1, <1>2 DEF DhcpTypes, DhcpTypeOK, InLoop
<1>4. AnswersAreGranted /\ AddressIsOfLease /\ AddressFollowsLease
  BY DEF AnswersAreGranted, AddressIsOfLease, AddressFollowsLease, InLoop
<1> QED
  BY <1>3, <1>4 DEF LeaseInv

\* What a client makes of a message is a lease; a message stays one when its
\* transaction is over.
LEMMA MessageFacts ==
  ASSUME NEW m \in Messages
  PROVE  /\ LeaseOf(m) \in Leases
         /\ LeaseOf(m).server = m.s /\ LeaseOf(m).addr = m.a
         /\ m.a # NoAddr => LeaseOf(m) # NoLease
         /\ [m EXCEPT !.now = FALSE] \in Messages
         /\ [m EXCEPT !.now = FALSE].t = m.t /\ [m EXCEPT !.now = FALSE].s = m.s
         /\ [m EXCEPT !.now = FALSE].a = m.a
<1>1. LeaseOf(m) \in Leases /\ LeaseOf(m).server = m.s /\ LeaseOf(m).addr = m.a
  BY DEF Messages, LeaseOf, Leases
<1>2. NoLease.addr = NoAddr
  BY DEF NoLease, NoAddr
<1>3. [m EXCEPT !.now = FALSE] \in Messages
  BY Zenon DEF Messages
<1>4. /\ [m EXCEPT !.now = FALSE].t = m.t /\ [m EXCEPT !.now = FALSE].s = m.s
      /\ [m EXCEPT !.now = FALSE].a = m.a
  BY DEF Messages
<1> QED
  BY <1>1, <1>2, <1>3, <1>4

\* A new transaction keeps what the messages in flight say.
LEMMA BeginFacts ==
  ASSUME NEW phase, wire \subseteq Messages, AnswersAreGranted, Begin(phase)
  PROVE  /\ dpc' = phase /\ wire' \subseteq Messages
         /\ \A m \in wire' : m.t = "advert" \/ (m.t = "reply" /\ m.a # NoAddr)
                             => m.s \in DhcpServer /\ m.a \in Address
<1>1. dpc' = phase /\ wire' = {[m EXCEPT !.now = FALSE] : m \in wire}
  BY DEF Begin
<1>2. ASSUME NEW m \in wire
      PROVE  /\ [m EXCEPT !.now = FALSE] \in Messages
             /\ [m EXCEPT !.now = FALSE].t = m.t /\ [m EXCEPT !.now = FALSE].s = m.s
             /\ [m EXCEPT !.now = FALSE].a = m.a
  BY MessageFacts
<1>3. wire' \subseteq Messages
  BY <1>1, <1>2, Zenon
<1>4. ASSUME NEW m2 \in wire'
      PROVE  m2.t = "advert" \/ (m2.t = "reply" /\ m2.a # NoAddr)
               => m2.s \in DhcpServer /\ m2.a \in Address
  <2>1. PICK m \in wire : m2 = [m EXCEPT !.now = FALSE]
    BY <1>1, Zenon
  <2>2. m2.t = m.t /\ m2.s = m.s /\ m2.a = m.a
    BY <2>1, <1>2, Zenon
  <2> QED
    BY <2>2 DEF AnswersAreGranted
<1> QED
  BY <1>1, <1>3, <1>4

\* What a server answers: a message that offers or grants only from its pool.
LEMMA AnswerFacts ==
  ASSUME DhcpTypes, AnswersAreGranted, NEW s \in DhcpServer, InExchange, Answer(s, Current)
  PROVE  \E m \in Messages :
           /\ wire' = wire \cup {m}
           /\ m.t = "advert" \/ (m.t = "reply" /\ m.a # NoAddr)
                => m.s \in DhcpServer /\ m.a \in Address
<1> DEFINE cur == Current
<1>1. /\ cur \in Messages /\ cur.tm = NoTimes /\ cur.s \in Servers
      /\ cur.t \in {"solicit", "request", "renew", "rebind"}
      /\ cur.t = "request" => cur.a \in Address
  <2>1. NoTimes \in LeaseTimes \cup {NoTimes}
    OBVIOUS
  <2>2. \A t \in {"solicit", "request", "renew", "rebind"}, v \in Servers,
           a \in Address \cup {NoAddr} :
          /\ Msg(t, v, a, NoTimes) \in Messages /\ Msg(t, v, a, NoTimes).t = t
          /\ Msg(t, v, a, NoTimes).s = v /\ Msg(t, v, a, NoTimes).a = a
          /\ Msg(t, v, a, NoTimes).tm = NoTimes
    BY <2>1 DEF Msg, Messages
  <2>3. /\ AnyServer \in Servers /\ NoAddr \in Address \cup {NoAddr}
        /\ chosen.server \in Servers /\ chosen.addr \in Address \cup {NoAddr}
        /\ lease.server \in Servers /\ lease.addr \in Address \cup {NoAddr}
    BY DEF DhcpTypes, Leases, Servers
  <2>4. dpc = "request" => chosen.addr \in Address
    BY DEF AnswersAreGranted, Granted
  <2>5. \/ dpc = "solicit" /\ cur = Msg("solicit", AnyServer, NoAddr, NoTimes)
        \/ dpc = "request" /\ cur = Msg("request", chosen.server, chosen.addr, NoTimes)
        \/ cur = Msg("renew", lease.server, lease.addr, NoTimes)
        \/ cur = Msg("rebind", AnyServer, lease.addr, NoTimes)
    BY DEF InExchange, Current
  <2> HIDE DEF cur
  <2> QED
    BY <2>2, <2>3, <2>4, <2>5
<1> HIDE DEF cur
<1>2. \A a \in Pool[s] : a \in Address
  BY DEF Address
<1>3. CASE \E a \in Pool[s] : Put([cur EXCEPT !.t = "advert", !.s = s, !.a = a])
  <2>1. PICK a \in Pool[s] : wire' = wire \cup {[cur EXCEPT !.t = "advert", !.s = s, !.a = a]}
    BY <1>3 DEF Put
  <2>2. /\ [cur EXCEPT !.t = "advert", !.s = s, !.a = a] \in Messages
        /\ [cur EXCEPT !.t = "advert", !.s = s, !.a = a].s = s
        /\ [cur EXCEPT !.t = "advert", !.s = s, !.a = a].a = a
    BY <1>1, <1>2 DEF Messages, Servers
  <2> QED
    BY <1>2, <2>1, <2>2
<1>4. CASE cur.t = "request" /\ cur.s = s
             /\ \E tm \in LeaseTimes : Put([cur EXCEPT !.t = "reply", !.tm = tm])
  <2>1. PICK tm \in LeaseTimes : wire' = wire \cup {[cur EXCEPT !.t = "reply", !.tm = tm]}
    BY <1>4 DEF Put
  <2>2. /\ [cur EXCEPT !.t = "reply", !.tm = tm] \in Messages
        /\ [cur EXCEPT !.t = "reply", !.tm = tm].s = s
        /\ [cur EXCEPT !.t = "reply", !.tm = tm].a = cur.a
    BY <1>1, <1>4 DEF Messages
  <2> QED
    BY <1>1, <1>4, <2>1, <2>2
<1>5. CASE \E tm \in LeaseTimes, a \in Pool[s] :
             Put([cur EXCEPT !.t = "reply", !.s = s, !.a = a, !.tm = tm])
  <2>1. PICK tm \in LeaseTimes, a \in Pool[s] :
          wire' = wire \cup {[cur EXCEPT !.t = "reply", !.s = s, !.a = a, !.tm = tm]}
    BY <1>5 DEF Put
  <2>2. /\ [cur EXCEPT !.t = "reply", !.s = s, !.a = a, !.tm = tm] \in Messages
        /\ [cur EXCEPT !.t = "reply", !.s = s, !.a = a, !.tm = tm].s = s
        /\ [cur EXCEPT !.t = "reply", !.s = s, !.a = a, !.tm = tm].a = a
    BY <1>1, <1>2 DEF Messages, Servers
  <2> QED
    BY <1>2, <2>1, <2>2
<1>6. CASE Put([cur EXCEPT !.t = IF fam = "v4" THEN "nak" ELSE "reply", !.a = NoAddr])
  <2> DEFINE k == IF fam = "v4" THEN "nak" ELSE "reply"
  <2>1. wire' = wire \cup {[cur EXCEPT !.t = k, !.a = NoAddr]}
    BY <1>6 DEF Put
  <2>2. k \in {"nak", "reply"}
    OBVIOUS
  <2> HIDE DEF k
  <2>3. /\ [cur EXCEPT !.t = k, !.a = NoAddr] \in Messages
        /\ [cur EXCEPT !.t = k, !.a = NoAddr].t = k
        /\ [cur EXCEPT !.t = k, !.a = NoAddr].a = NoAddr
    BY <1>1, <2>2 DEF Messages
  <2> QED
    BY <2>1, <2>2, <2>3
<1> QED
  BY <1>3, <1>4, <1>5, <1>6 DEF Answer, cur

\* Every step of client, network and servers keeps the invariant.
LEMMA LeaseStep == LeaseInv /\ [DhcpNext]_dhcpVars => LeaseInv'
<1> SUFFICES ASSUME LeaseInv, [DhcpNext]_dhcpVars
             PROVE  LeaseInv'
  OBVIOUS
<1> USE DhcpAssumption
<1> USE DEF LeaseInv
<1>1. CASE Obtain
  <2>1. DhcpTypes'
    BY <1>1, BeginFacts DEF Obtain, DhcpTypes, DhcpTypeOK, AnswersAreGranted, Granted, InLoop
  <2>2. AnswersAreGranted'
    BY <1>1, BeginFacts DEF Obtain, DhcpTypes, DhcpTypeOK, AnswersAreGranted, Granted, InLoop
  <2>3. AddressIsOfLease'
    BY <1>1, BeginFacts DEF Obtain, DhcpTypes, AnswersAreGranted, AddressIsOfLease, InLoop
  <2>4. AddressFollowsLease'
    BY <1>1, BeginFacts DEF Obtain, DhcpTypes, AddressFollowsLease, AnswersAreGranted, AddressIsOfLease, InLoop
  <2> QED
    BY <2>1, <2>2, <2>3, <2>4
<1>2. CASE Resolicit
  <2>1. DhcpTypes'
    BY <1>2, BeginFacts DEF Resolicit, DhcpTypes, DhcpTypeOK, AnswersAreGranted, Granted, InLoop
  <2>2. AnswersAreGranted'
    BY <1>2, BeginFacts DEF Resolicit, DhcpTypes, DhcpTypeOK, AnswersAreGranted, Granted, InLoop
  <2>3. AddressIsOfLease'
    BY <1>2, BeginFacts DEF Resolicit, DhcpTypes, AnswersAreGranted, AddressIsOfLease, InLoop
  <2>4. AddressFollowsLease'
    BY <1>2, BeginFacts DEF Resolicit, DhcpTypes, AddressFollowsLease, AnswersAreGranted, AddressIsOfLease, InLoop
  <2> QED
    BY <2>1, <2>2, <2>3, <2>4
<1>3. CASE RebindPhase
  <2>1. DhcpTypes'
    BY <1>3, BeginFacts DEF RebindPhase, DhcpTypes, DhcpTypeOK, AnswersAreGranted, Granted, InLoop
  <2>2. AnswersAreGranted'
    BY <1>3, BeginFacts DEF RebindPhase, DhcpTypes, DhcpTypeOK, AnswersAreGranted, Granted, InLoop
  <2>3. AddressIsOfLease'
    BY <1>3, BeginFacts DEF RebindPhase, DhcpTypes, AnswersAreGranted, AddressIsOfLease, InLoop
  <2>4. AddressFollowsLease'
    BY <1>3, BeginFacts DEF RebindPhase, DhcpTypes, AddressFollowsLease, AnswersAreGranted, AddressIsOfLease, InLoop
  <2> QED
    BY <2>1, <2>2, <2>3, <2>4
<1>4. CASE RenewPhase
  <2>1. DhcpTypes'
    BY <1>4, BeginFacts DEF RenewPhase, DhcpTypes, DhcpTypeOK, AnswersAreGranted, Granted, InLoop
  <2>2. AnswersAreGranted'
    BY <1>4, BeginFacts DEF RenewPhase, DhcpTypes, DhcpTypeOK, AnswersAreGranted, Granted, InLoop
  <2>3. AddressIsOfLease'
    BY <1>4, BeginFacts DEF RenewPhase, DhcpTypes, AnswersAreGranted, AddressIsOfLease, InLoop
  <2>4. AddressFollowsLease'
    BY <1>4, BeginFacts DEF RenewPhase, DhcpTypes, AddressFollowsLease, AnswersAreGranted, AddressIsOfLease, InLoop
  <2> QED
    BY <2>1, <2>2, <2>3, <2>4
<1>5. CASE LeaveLoop
  <2>1. DhcpTypes'
    BY <1>5 DEF LeaveLoop, DhcpTypes, DhcpTypeOK, AnswersAreGranted, Granted, InLoop
  <2>2. AnswersAreGranted'
    BY <1>5 DEF LeaveLoop, DhcpTypes, DhcpTypeOK, AnswersAreGranted, Granted, InLoop
  <2>3. AddressIsOfLease'
    BY <1>5 DEF LeaveLoop, DhcpTypes, AnswersAreGranted, AddressIsOfLease, InLoop
  <2>4. AddressFollowsLease'
    BY <1>5 DEF LeaveLoop, DhcpTypes, AddressFollowsLease, AnswersAreGranted, AddressIsOfLease, InLoop
  <2> QED
    BY <2>1, <2>2, <2>3, <2>4
<1>6. CASE Release
  <2>1. DhcpTypes'
    <3>1. Msg("release", lease.server, lease.addr, NoTimes) \in Messages
      BY DEF Msg, Messages, DhcpTypes, Leases
    <3>2. wire' \subseteq Messages /\ dpc' \in {"done", "wait"}
      BY <1>6, <3>1 DEF Release, DhcpTypes
    <3>3. released' \in BOOLEAN
      BY <1>6, Zenon DEF Release
    <3> QED
      BY <1>6, <3>2, <3>3 DEF Release, DhcpTypes, DhcpTypeOK, InLoop
  <2>2. AnswersAreGranted'
    <3>1. Msg("release", lease.server, lease.addr, NoTimes).t = "release"
      BY DEF Msg
    <3> QED
      BY <1>6, <3>1 DEF Release, AnswersAreGranted, Granted, InLoop
  <2>3. AddressIsOfLease'
    BY <1>6 DEF Release, DhcpTypes, AnswersAreGranted, AddressIsOfLease, InLoop
  <2>4. AddressFollowsLease'
    BY <1>6 DEF Release, DhcpTypes, AddressFollowsLease, AnswersAreGranted, AddressIsOfLease, InLoop
  <2> QED
    BY <2>1, <2>2, <2>3, <2>4
<1>7. CASE SupervisorEnds
  <2>1. DhcpTypes'
    BY <1>7 DEF SupervisorEnds, DhcpTypes, DhcpTypeOK, AnswersAreGranted, Granted, InLoop
  <2>2. AnswersAreGranted'
    BY <1>7 DEF SupervisorEnds, DhcpTypes, DhcpTypeOK, AnswersAreGranted, Granted, InLoop
  <2>3. AddressIsOfLease'
    BY <1>7 DEF SupervisorEnds, DhcpTypes, AnswersAreGranted, AddressIsOfLease, InLoop
  <2>4. AddressFollowsLease'
    BY <1>7 DEF SupervisorEnds, DhcpTypes, AddressFollowsLease, AnswersAreGranted, AddressIsOfLease, InLoop
  <2> QED
    BY <2>1, <2>2, <2>3, <2>4
<1>8. CASE ObtainFails
  <2>1. DhcpTypes'
    <3>1. dpc' \in {"done", "wait", "failed", "release", "sleep"}
      BY <1>8 DEF ObtainFails, DhcpTypes
    <3>2. NoLease \in Leases
      BY Zenon DEF Leases, Servers, NoTimes, NoLease, NoAddr
    <3>3. lapsed' \in BOOLEAN
      BY <1>8, Zenon DEF ObtainFails, DhcpTypes
    <3>4. lease' \in Leases /\ chosen' \in Leases
      BY <1>8, <3>2 DEF ObtainFails, DhcpTypes
    <3>5. dpc' = "sleep" => base # NoLease
      BY <1>8 DEF ObtainFails, DhcpTypes
    <3>6. dpc' = "sleep" => Granted(lease)'
      BY <1>8, <3>5 DEF ObtainFails, AnswersAreGranted, Granted
    <3> QED
      BY <1>8, <3>1, <3>3, <3>4, <3>6 DEF ObtainFails, DhcpTypes, DhcpTypeOK, InLoop, Granted
  <2>2. AnswersAreGranted'
    BY <1>8 DEF ObtainFails, DhcpTypes, DhcpTypeOK, AnswersAreGranted, Granted, InLoop
  <2>3. AddressIsOfLease'
    BY <1>8 DEF ObtainFails, DhcpTypes, AnswersAreGranted, AddressIsOfLease, InLoop
  <2>4. AddressFollowsLease'
    BY <1>8 DEF ObtainFails, DhcpTypes, AddressFollowsLease, AnswersAreGranted, AddressIsOfLease, InLoop
  <2> QED
    BY <2>1, <2>2, <2>3, <2>4
<1>9. ASSUME NEW m \in wire, AcceptAdvert(m)
      PROVE  LeaseInv'
  <2>1. DhcpTypes'
    BY <1>9, MessageFacts DEF AcceptAdvert, Matches, Want, DhcpTypes, DhcpTypeOK, AnswersAreGranted, Granted, InLoop
  <2>2. AnswersAreGranted'
    <3>1. LeaseOf(m).server = m.s /\ LeaseOf(m).addr = m.a
      BY MessageFacts DEF DhcpTypes
    <3>2. m.s \in DhcpServer /\ m.a \in Address
      BY <1>9 DEF AcceptAdvert, Matches, Want, AnswersAreGranted
    <3> QED
      BY <1>9, <3>1, <3>2 DEF AcceptAdvert, AnswersAreGranted, Granted, InLoop
  <2>3. AddressIsOfLease'
    BY <1>9, MessageFacts DEF AcceptAdvert, Matches, Want, DhcpTypes, AnswersAreGranted, AddressIsOfLease, InLoop
  <2>4. AddressFollowsLease'
    BY <1>9, MessageFacts DEF AcceptAdvert, Matches, Want, DhcpTypes, AddressFollowsLease, AnswersAreGranted, AddressIsOfLease, InLoop
  <2> QED
    BY <2>1, <2>2, <2>3, <2>4
<1>10. ASSUME NEW m \in wire, AcceptLease(m)
      PROVE  LeaseInv'
  <2>1. DhcpTypes'
    <3>1. /\ LeaseOf(m) \in Leases /\ LeaseOf(m).server = m.s /\ LeaseOf(m).addr = m.a
          /\ LeaseOf(m) # NoLease
      BY <1>10, MessageFacts DEF AcceptLease, DhcpTypes
    <3>2. m.s \in DhcpServer /\ m.a \in Address
      BY <1>10 DEF AcceptLease, Matches, Want, AnswersAreGranted
    <3>3. NoLease \in Leases
      BY Zenon DEF Leases, Servers, NoTimes, NoLease, NoAddr
    <3>4. lapsed' \in BOOLEAN
      BY <1>10, Zenon DEF AcceptLease, ApplyObtained, DhcpTypes
    <3>5. lease' = LeaseOf(m) /\ base' = LeaseOf(m) /\ ifAddrs' \subseteq Address
      BY <1>10, <3>1, <3>2 DEF AcceptLease, ApplyObtained, DhcpTypes, DhcpTypeOK
    <3>6. /\ dpc' \in {"done", "sleep"} /\ left' = 0 /\ chosen' = NoLease /\ wire' \subseteq wire
          /\ UNCHANGED <<fam, cancelled, released>>
      BY <1>10 DEF AcceptLease
    <3> QED
      BY <3>1, <3>2, <3>3, <3>4, <3>5, <3>6 DEF DhcpTypes, DhcpTypeOK, InLoop
  <2>2. AnswersAreGranted'
    <3>1. /\ LeaseOf(m) \in Leases /\ LeaseOf(m).server = m.s /\ LeaseOf(m).addr = m.a
          /\ LeaseOf(m) # NoLease
      BY <1>10, MessageFacts DEF AcceptLease, DhcpTypes
    <3>2. m.s \in DhcpServer /\ m.a \in Address
      BY <1>10 DEF AcceptLease, Matches, Want, AnswersAreGranted
    <3>3. lease' = LeaseOf(m) /\ base' = LeaseOf(m) /\ wire' \subseteq wire
      BY <1>10 DEF AcceptLease, ApplyObtained
    <3>4. dpc' \in {"done", "sleep"}
      BY <1>10 DEF AcceptLease
    <3> QED
      BY <3>1, <3>2, <3>3, <3>4 DEF AnswersAreGranted, Granted, InLoop
  <2>3. AddressIsOfLease'
    <3>1. /\ LeaseOf(m) \in Leases /\ LeaseOf(m).server = m.s /\ LeaseOf(m).addr = m.a
          /\ LeaseOf(m) # NoLease
      BY <1>10, MessageFacts DEF AcceptLease, DhcpTypes
    <3>2. m.s \in DhcpServer /\ m.a \in Address
      BY <1>10 DEF AcceptLease, Matches, Want, AnswersAreGranted
    <3>3. lease' = LeaseOf(m) /\ base' = LeaseOf(m) /\ fam' = fam
      BY <1>10 DEF AcceptLease, ApplyObtained
    <3>4. fam = "v4" => dpc' = "done"
      BY <1>10 DEF AcceptLease
    <3>5. fam # "pd" /\ ~lapsed' => ifAddrs' = {m.a}
      <4>1. ASSUME fam # "pd", ~lapsed'
            PROVE  ifAddrs' = {m.a}
        <5>1. ifAddrs' = (IF base.addr = m.a THEN ifAddrs ELSE ifAddrs \ {base.addr}) \cup {m.a}
          BY <1>10, <3>1, <4>1 DEF AcceptLease, ApplyObtained
        <5>2. CASE base = NoLease
          BY <4>1, <5>1, <5>2 DEF AddressIsOfLease
        <5>3. CASE base # NoLease
          <6>1. dpc = "request" /\ ~lapsed /\ (fam = "na" => base.addr = lease.addr)
            BY <1>10, <4>1, <5>3 DEF AcceptLease, ApplyObtained
          <6>2. fam = "na"
            BY <4>1, <5>3, <6>1 DEF AddressIsOfLease, DhcpTypes
          <6>3. ifAddrs = {base.addr}
            BY <5>3, <6>1, <6>2 DEF AddressIsOfLease
          <6> QED
            BY <5>1, <6>3
        <5> QED
          BY <5>2, <5>3
      <4> QED
        BY <4>1
    <3> QED
      BY <3>1, <3>3, <3>4, <3>5 DEF AddressIsOfLease
  <2>4. AddressFollowsLease'
    BY <1>10, MessageFacts DEF AcceptLease, Matches, Want, ApplyObtained, DhcpTypes, AddressFollowsLease, AnswersAreGranted, AddressIsOfLease, InLoop
  <2> QED
    BY <2>1, <2>2, <2>3, <2>4
<1>11. ASSUME NEW m \in wire, AcceptRenewal(m)
      PROVE  LeaseInv'
  <2>1. DhcpTypes'
    <3>1. /\ LeaseOf(m) \in Leases /\ LeaseOf(m).server = m.s /\ LeaseOf(m).addr = m.a
          /\ LeaseOf(m) # NoLease
      BY <1>11, MessageFacts DEF AcceptRenewal, DhcpTypes
    <3>2. m.s \in DhcpServer /\ m.a \in Address
      BY <1>11 DEF AcceptRenewal, Matches, Want, AnswersAreGranted
    <3>3. lease' = LeaseOf(m) /\ ifAddrs' \subseteq Address /\ wire' \subseteq wire
      BY <1>11, <3>1, <3>2 DEF AcceptRenewal, ApplyAddrChange, DhcpTypes, DhcpTypeOK
    <3>4. dpc' \in {"release", "sleep"} /\ UNCHANGED <<fam, left, chosen, base, cancelled, released, lapsed>>
      BY <1>11 DEF AcceptRenewal
    <3> QED
      BY <3>1, <3>2, <3>3, <3>4 DEF DhcpTypes, DhcpTypeOK, InLoop
  <2>2. AnswersAreGranted'
    <3>1. /\ LeaseOf(m) \in Leases /\ LeaseOf(m).server = m.s /\ LeaseOf(m).addr = m.a
          /\ LeaseOf(m) # NoLease
      BY <1>11, MessageFacts DEF AcceptRenewal, DhcpTypes
    <3>2. m.s \in DhcpServer /\ m.a \in Address
      BY <1>11 DEF AcceptRenewal, Matches, Want, AnswersAreGranted
    <3>3. lease' = LeaseOf(m) /\ wire' \subseteq wire /\ dpc' \in {"release", "sleep"}
      BY <1>11 DEF AcceptRenewal
    <3>4. base # NoLease /\ base' = base
      BY <1>11 DEF AcceptRenewal, AnswersAreGranted, InLoop
    <3> QED
      BY <3>1, <3>2, <3>3, <3>4 DEF AnswersAreGranted, Granted, InLoop
  <2>3. AddressIsOfLease'
    BY <1>11, MessageFacts DEF AcceptRenewal, Matches, Want, ApplyAddrChange, DhcpTypes, AnswersAreGranted, AddressIsOfLease, InLoop
  <2>4. AddressFollowsLease'
    BY <1>11, MessageFacts DEF AcceptRenewal, Matches, Want, ApplyAddrChange, DhcpTypes, AddressFollowsLease, AnswersAreGranted, AddressIsOfLease, InLoop
  <2> QED
    BY <2>1, <2>2, <2>3, <2>4
<1>12. ASSUME NEW m \in wire, RenewalRefused(m)
      PROVE  LeaseInv'
  <2>1. DhcpTypes'
    BY <1>12 DEF RenewalRefused, Matches, Want, DhcpTypes, DhcpTypeOK, AnswersAreGranted, Granted, InLoop
  <2>2. AnswersAreGranted'
    BY <1>12 DEF RenewalRefused, Matches, Want, DhcpTypes, DhcpTypeOK, AnswersAreGranted, Granted, InLoop
  <2>3. AddressIsOfLease'
    BY <1>12 DEF RenewalRefused, Matches, Want, DhcpTypes, AnswersAreGranted, AddressIsOfLease, InLoop
  <2>4. AddressFollowsLease'
    BY <1>12 DEF RenewalRefused, Matches, Want, DhcpTypes, AddressFollowsLease, AnswersAreGranted, AddressIsOfLease, InLoop
  <2> QED
    BY <2>1, <2>2, <2>3, <2>4
<1>13. ASSUME NEW m \in wire, Lose(m)
      PROVE  LeaseInv'
  <2>1. DhcpTypes'
    BY <1>13 DEF Lose, DhcpTypes, DhcpTypeOK, AnswersAreGranted, Granted, InLoop
  <2>2. AnswersAreGranted'
    BY <1>13 DEF Lose, DhcpTypes, DhcpTypeOK, AnswersAreGranted, Granted, InLoop
  <2>3. AddressIsOfLease'
    BY <1>13 DEF Lose, DhcpTypes, AnswersAreGranted, AddressIsOfLease, InLoop
  <2>4. AddressFollowsLease'
    BY <1>13 DEF Lose, DhcpTypes, AddressFollowsLease, AnswersAreGranted, AddressIsOfLease, InLoop
  <2> QED
    BY <2>1, <2>2, <2>3, <2>4
<1>14. ASSUME NEW m \in wire, DeliverRelease(m)
      PROVE  LeaseInv'
  <2>1. DhcpTypes'
    BY <1>14 DEF DeliverRelease, DhcpTypes, DhcpTypeOK, AnswersAreGranted, Granted, InLoop
  <2>2. AnswersAreGranted'
    BY <1>14 DEF DeliverRelease, DhcpTypes, DhcpTypeOK, AnswersAreGranted, Granted, InLoop
  <2>3. AddressIsOfLease'
    BY <1>14 DEF DeliverRelease, DhcpTypes, AnswersAreGranted, AddressIsOfLease, InLoop
  <2>4. AddressFollowsLease'
    BY <1>14 DEF DeliverRelease, DhcpTypes, AddressFollowsLease, AnswersAreGranted, AddressIsOfLease, InLoop
  <2> QED
    BY <2>1, <2>2, <2>3, <2>4
<1>15. CASE Cancel
  <2>1. DhcpTypes'
    BY <1>15 DEF Cancel, DhcpTypes, DhcpTypeOK, AnswersAreGranted, Granted, InLoop
  <2>2. AnswersAreGranted'
    BY <1>15 DEF Cancel, DhcpTypes, DhcpTypeOK, AnswersAreGranted, Granted, InLoop
  <2>3. AddressIsOfLease'
    BY <1>15 DEF Cancel, DhcpTypes, AnswersAreGranted, AddressIsOfLease, InLoop
  <2>4. AddressFollowsLease'
    BY <1>15 DEF Cancel, DhcpTypes, AddressFollowsLease, AnswersAreGranted, AddressIsOfLease, InLoop
  <2> QED
    BY <2>1, <2>2, <2>3, <2>4
<1>16. CASE ProcessGone
  <2>1. DhcpTypes'
    BY <1>16 DEF ProcessGone, DhcpTypes, DhcpTypeOK, AnswersAreGranted, Granted, InLoop
  <2>2. AnswersAreGranted'
    BY <1>16 DEF ProcessGone, DhcpTypes, DhcpTypeOK, AnswersAreGranted, Granted, InLoop
  <2>3. AddressIsOfLease'
    BY <1>16 DEF ProcessGone, DhcpTypes, AnswersAreGranted, AddressIsOfLease, InLoop
  <2>4. AddressFollowsLease'
    BY <1>16 DEF ProcessGone, DhcpTypes, AddressFollowsLease, AnswersAreGranted, AddressIsOfLease, InLoop
  <2> QED
    BY <2>1, <2>2, <2>3, <2>4
<1>17. CASE Deliver
  <2>1. DhcpTypes'
    <3>1. PICK m \in Messages :
             /\ wire' = wire \cup {m}
             /\ m.t = "advert" \/ (m.t = "reply" /\ m.a # NoAddr)
                  => m.s \in DhcpServer /\ m.a \in Address
      BY <1>17, AnswerFacts, Zenon DEF Deliver
    <3> QED
      BY <1>17, <3>1 DEF Deliver, DhcpTypes, DhcpTypeOK, InLoop
  <2>2. AnswersAreGranted'
    <3>1. PICK m \in Messages :
             /\ wire' = wire \cup {m}
             /\ m.t = "advert" \/ (m.t = "reply" /\ m.a # NoAddr)
                  => m.s \in DhcpServer /\ m.a \in Address
      BY <1>17, AnswerFacts, Zenon DEF Deliver
    <3> QED
      BY <1>17, <3>1 DEF Deliver, AnswersAreGranted, Granted, InLoop
  <2>3. AddressIsOfLease'
    BY <1>17 DEF Deliver, Answer, Put, Current, InExchange, Msg, DhcpTypes, AnswersAreGranted, AddressIsOfLease, InLoop
  <2>4. AddressFollowsLease'
    BY <1>17 DEF Deliver, Answer, Put, Current, InExchange, Msg, DhcpTypes, AddressFollowsLease, AnswersAreGranted, AddressIsOfLease, InLoop
  <2> QED
    BY <2>1, <2>2, <2>3, <2>4
<1>18. CASE Tick
  <2>1. DhcpTypes'
    BY <1>18 DEF Tick, DhcpTypes, DhcpTypeOK, AnswersAreGranted, Granted, InLoop
  <2>2. AnswersAreGranted'
    BY <1>18 DEF Tick, DhcpTypes, DhcpTypeOK, AnswersAreGranted, Granted, InLoop
  <2>3. AddressIsOfLease'
    BY <1>18 DEF Tick, DhcpTypes, AnswersAreGranted, AddressIsOfLease, InLoop
  <2>4. AddressFollowsLease'
    BY <1>18 DEF Tick, DhcpTypes, AddressFollowsLease, AnswersAreGranted, AddressIsOfLease, InLoop
  <2> QED
    BY <2>1, <2>2, <2>3, <2>4
<1>19. CASE UNCHANGED dhcpVars
  BY <1>19 DEF dhcpVars, DhcpTypes, DhcpTypeOK, AnswersAreGranted, AddressIsOfLease,
         AddressFollowsLease, Granted, InLoop
<1> HIDE DEF LeaseInv
<1> QED
  BY <1>1, <1>2, <1>3, <1>4, <1>5, <1>6, <1>7, <1>8, <1>9, <1>10, <1>11, <1>12, <1>13, <1>14, <1>15, <1>16, <1>17, <1>18, <1>19,
     Zenon DEF DhcpNext, DhcpStep

\* The lease loop, applyAddrChange and the supervisors: for any servers, pools,
\* lease times and losses the interface carries the address of the lease and no
\* other while the loop runs, through renewals that move it and through expiry.
\* (Nothing is assumed here of the lease times.)
THEOREM OnlyTheLeasedAddress == DhcpSpec => [](DhcpTypeOK /\ AddressFollowsLease)
<1>1. DhcpInit => LeaseInv
  BY LeaseInitial
<1>2. LeaseInv /\ [DhcpNext]_dhcpVars => LeaseInv'
  BY LeaseStep
<1>3. LeaseInv => DhcpTypeOK /\ AddressFollowsLease
  BY DEF LeaseInv, DhcpTypes
<1> QED
  BY <1>1, <1>2, <1>3, PTL DEF DhcpSpec

\* What a server has bound, and that leases and grants come out of the pools.
BoundTyped ==
  /\ bound = [s \in DhcpServer |-> [a \in Pool[s] |-> bound[s][a]]]
  /\ \A s \in DhcpServer : \A a \in Pool[s] : bound[s][a] \in Nat
InPool(s, a) == s \in DhcpServer /\ a \in Pool[s]
FromPools ==
  /\ \A m \in wire : m.t = "advert" \/ (m.t = "reply" /\ m.a # NoAddr) => InPool(m.s, m.a)
  /\ \A m \in wire : m.t = "reply" /\ m.a # NoAddr => m.tm \in LeaseTimes
  /\ dpc = "request" => InPool(chosen.server, chosen.addr)
  /\ base # NoLease => /\ InPool(base.server, base.addr) /\ base.times \in LeaseTimes
                       /\ InPool(lease.server, lease.addr) /\ lease.times \in LeaseTimes

\* A RELEASE is in flight only when the loop is over, and no REPLY answers a
\* SOLICIT: what the client takes for a grant answers its own REQUEST.
OwnAnswers ==
  /\ \A m \in wire : m.t = "release" => dpc \in {"wait", "done", "gone"}
  /\ dpc = "solicit" => \A m \in wire : m.now => m.t # "reply"

\* The grants of the current exchange were made no longer ago than it began;
\* the server's binding outlasts the sleep until T1.
Grants == {m \in wire : m.now /\ m.t = "reply" /\ m.a # NoAddr}
Fresh(m, since) == \E k \in LeaseTimes : k.valid <= bound[m.s][m.a] + since
InTime ==
  /\ age \in Nat
  /\ dpc = "request" => \A m \in Grants : Fresh(m, ObtainTicks - left)
  /\ dpc = "renew" => T.t1 <= age /\ age <= T.t2 /\ \A m \in Grants : Fresh(m, age - T.t1)
  /\ dpc = "rebind" => T.t2 <= age /\ age <= T.valid /\ \A m \in Grants : Fresh(m, age - T.t2)
  /\ dpc = "sleep" => age <= T.t1 /\ (~lapsed => T.t1 < bound[lease.server][lease.addr] + age)

BackInv == LeaseInv /\ BoundTyped /\ FromPools /\ OwnAnswers /\ InTime

\* The timers of a lease, and the assumption on the times in use.
LEMMA TimesTyped ==
  ASSUME NEW k \in LeaseTimes
  PROVE  /\ DefaultsFor(k).t1 \in Nat /\ DefaultsFor(k).t2 \in Nat
         /\ DefaultsFor(k).valid = k.valid /\ k.valid \in Nat
<1>1. k.valid \in Nat /\ k.t1 \in Nat /\ k.t2 \in Nat
  BY DhcpAssumption
<1>2. k.valid \div 2 \in Nat /\ (k.valid * 4) \div 5 \in Nat
  BY <1>1
<1> QED
  BY <1>1, <1>2 DEF DefaultsFor

\* TimesAgree, for three lease times.
LEMMA TimesOrdered ==
  ASSUME NEW k \in LeaseTimes, NEW l \in LeaseTimes, NEW m \in LeaseTimes
  PROVE  /\ DefaultsFor(l).t1 + ObtainTicks < m.valid
         /\ DefaultsFor(l).t1 + DefaultsFor(k).t2 < m.valid + DefaultsFor(k).t1
         /\ DefaultsFor(l).t1 + k.valid < m.valid + DefaultsFor(k).t2
         /\ ObtainTicks \in Nat
  BY TimesAgree, DhcpAssumption

\* The initial states.
LEMMA BackInitial == DhcpInit => BackInv
<1> SUFFICES ASSUME DhcpInit PROVE BackInv
  OBVIOUS
<1>1. LeaseInv
  BY LeaseInitial
<1>2. BoundTyped
  <2>1. bound = [s \in DhcpServer |-> [a \in Pool[s] |-> 0]]
    BY DEF DhcpInit
  <2>2. \A s \in DhcpServer : bound[s] = [a \in Pool[s] |-> 0]
    BY <2>1
  <2>3. \A s \in DhcpServer : \A a \in Pool[s] : bound[s][a] = 0
    BY <2>2
  <2>4. \A s \in DhcpServer : bound[s] = [a \in Pool[s] |-> bound[s][a]]
    BY <2>2, Zenon
  <2>5. bound = [s \in DhcpServer |-> bound[s]]
    BY <2>1, Zenon
  <2>6. [s \in DhcpServer |-> bound[s]] = [s \in DhcpServer |-> [a \in Pool[s] |-> bound[s][a]]]
    BY <2>4, Zenon
  <2> QED
    BY <2>3, <2>5, <2>6 DEF BoundTyped
<1>3. FromPools /\ OwnAnswers /\ InTime
  BY DEF DhcpInit, FromPools, OwnAnswers, InTime
<1> QED
  BY <1>1, <1>2, <1>3 DEF BackInv

\* A binding that is made or ends leaves the others alone.
Rebound(s, a, v) == [bound EXCEPT ![s][a] = v]
LEMMA BoundSet ==
  ASSUME BoundTyped, NEW s \in DhcpServer, NEW a \in Pool[s], NEW v \in Nat,
         bound' = Rebound(s, a, v)
  PROVE  /\ BoundTyped' /\ bound'[s][a] = v
         /\ \A q \in DhcpServer : \A x \in Pool[q] : bound'[q][x] = bound[q][x] \/ bound'[q][x] = v
<1> DEFINE row == bound[s]
<1>1. bound = [q \in DhcpServer |-> bound[q]] /\ row = [x \in Pool[s] |-> row[x]]
  BY DEF BoundTyped
<1>0. \A q \in DhcpServer : bound[q] = [x \in Pool[q] |-> bound[q][x]]
  BY DEF BoundTyped
<1>2. bound' = [bound EXCEPT ![s] = [row EXCEPT ![a] = v]]
  BY DEF Rebound
<1> HIDE DEF row
<1>3. bound'[s] = [row EXCEPT ![a] = v] /\ \A q \in DhcpServer : q # s => bound'[q] = bound[q]
  BY <1>1, <1>2
<1>4. bound'[s][a] = v /\ \A x \in Pool[s] : x # a => bound'[s][x] = row[x]
  BY <1>1, <1>3
<1>5. \A q \in DhcpServer : bound'[q] = [x \in Pool[q] |-> bound'[q][x]]
  <2> TAKE q \in DhcpServer
  <2>1. CASE q = s
    BY <1>1, <1>3, <2>1
  <2>2. CASE q # s
    BY <1>0, <1>3, <2>2
  <2> QED
    BY <2>1, <2>2
<1>6. bound' = [q \in DhcpServer |-> bound'[q]]
  BY <1>1, <1>2
<1>7. [q \in DhcpServer |-> bound'[q]] = [q \in DhcpServer |-> [x \in Pool[q] |-> bound'[q][x]]]
  BY <1>5, Zenon
<1>8. \A q \in DhcpServer : \A x \in Pool[q] : bound'[q][x] = bound[q][x] \/ bound'[q][x] = v
  BY <1>3, <1>4 DEF row
<1>9. \A q \in DhcpServer : \A x \in Pool[q] : bound'[q][x] \in Nat
  BY <1>8 DEF BoundTyped
<1> QED
  BY <1>4, <1>6, <1>7, <1>8, <1>9 DEF BoundTyped

\* A new transaction: nothing in flight answers it yet.
LEMMA BeginOwn ==
  ASSUME NEW phase, wire \subseteq Messages, Begin(phase)
  PROVE  /\ dpc' = phase /\ Grants' = {}
         /\ \A m \in wire' : /\ ~m.now
                             /\ \E n \in wire : m.t = n.t /\ m.s = n.s /\ m.a = n.a /\ m.tm = n.tm
<1>1. dpc' = phase /\ wire' = {[m EXCEPT !.now = FALSE] : m \in wire}
  BY DEF Begin
<1>2. ASSUME NEW m \in wire'
      PROVE  ~m.now /\ \E n \in wire : m.t = n.t /\ m.s = n.s /\ m.a = n.a /\ m.tm = n.tm
  <2>1. PICK n \in wire : m = [n EXCEPT !.now = FALSE]
    BY <1>1, Zenon
  <2>2. m.now = FALSE /\ m.t = n.t /\ m.s = n.s /\ m.a = n.a /\ m.tm = n.tm
    BY <2>1 DEF Messages
  <2> QED
    BY <2>2
<1> QED
  BY <1>1, <1>2 DEF Grants

\* What a server's answer says and what it binds.
LEMMA AnswerBinds ==
  ASSUME LeaseInv, FromPools, NEW s \in DhcpServer, InExchange, Answer(s, Current)
  PROVE  \E m :
           /\ wire' = wire \cup {m}
           /\ \/ m.t = "advert" /\ dpc = "solicit" /\ InPool(m.s, m.a) /\ UNCHANGED bound
              \/ m.t \in {"nak", "reply"} /\ m.a = NoAddr /\ dpc # "solicit" /\ UNCHANGED bound
              \/ /\ m.t = "reply" /\ dpc # "solicit" /\ InPool(m.s, m.a) /\ m.tm \in LeaseTimes
                 /\ bound' = [bound EXCEPT ![m.s][m.a] = m.tm.valid]
<1>1. PICK cur : cur = Current
  OBVIOUS
<1>2. /\ cur = Msg(cur.t, cur.s, cur.a, NoTimes)
      /\ cur.t = "solicit" <=> dpc = "solicit"
      /\ cur.t = "request" => dpc = "request" /\ cur.s = chosen.server /\ cur.a = chosen.addr
  BY <1>1 DEF Current, InExchange, Msg
<1>3. cur.t = "request" => InPool(cur.s, cur.a)
  BY <1>2 DEF FromPools
<1>4. /\ cur \in [t : {cur.t}, now : {cur.now}, s : {cur.s}, a : {cur.a}, tm : {cur.tm}]
  BY <1>2 DEF Msg
<1>5. CASE cur.t = "solicit" /\ (\E a \in Pool[s] : Put([cur EXCEPT !.t = "advert", !.s = s, !.a = a])) /\ UNCHANGED bound
  <2>1. PICK a \in Pool[s] : wire' = wire \cup {[cur EXCEPT !.t = "advert", !.s = s, !.a = a]}
    BY <1>5 DEF Put
  <2>2. PICK m : m = [cur EXCEPT !.t = "advert", !.s = s, !.a = a]
    OBVIOUS
  <2>3. m.t = "advert" /\ m.s = s /\ m.a = a
    BY <1>4, <2>2
  <2> QED
    BY <1>2, <1>5, <2>1, <2>2, <2>3 DEF InPool
<1>6. CASE cur.t = "request" /\ cur.s = s /\ \E tm \in LeaseTimes : /\ Put([cur EXCEPT !.t = "reply", !.tm = tm])
                                                             /\ bound' = [bound EXCEPT ![s][cur.a] = tm.valid]
  <2>1. PICK tm \in LeaseTimes : /\ wire' = wire \cup {[cur EXCEPT !.t = "reply", !.tm = tm]}
                                 /\ bound' = [bound EXCEPT ![s][cur.a] = tm.valid]
    BY <1>6 DEF Put
  <2>2. PICK m : m = [cur EXCEPT !.t = "reply", !.tm = tm]
    OBVIOUS
  <2>3. m.t = "reply" /\ m.s = cur.s /\ m.a = cur.a /\ m.tm = tm
    BY <1>4, <2>2
  <2>4. bound' = [bound EXCEPT ![m.s][m.a] = m.tm.valid]
    BY <1>6, <2>1, <2>3, Zenon
  <2>5. dpc # "solicit" /\ InPool(m.s, m.a)
    BY <1>2, <1>3, <1>6, <2>3
  <2> QED
    BY <2>1, <2>2, <2>3, <2>4, <2>5, Zenon
<1>7. CASE cur.t \in {"renew", "rebind"} /\ \E tm \in LeaseTimes, a \in Pool[s] :
             /\ Put([cur EXCEPT !.t = "reply", !.s = s, !.a = a, !.tm = tm])
             /\ bound' = [bound EXCEPT ![s][a] = tm.valid]
  <2>1. PICK tm \in LeaseTimes, a \in Pool[s] :
          /\ wire' = wire \cup {[cur EXCEPT !.t = "reply", !.s = s, !.a = a, !.tm = tm]}
          /\ bound' = [bound EXCEPT ![s][a] = tm.valid]
    BY <1>7 DEF Put
  <2>2. PICK m : m = [cur EXCEPT !.t = "reply", !.s = s, !.a = a, !.tm = tm]
    OBVIOUS
  <2>3. m.t = "reply" /\ m.s = s /\ m.a = a /\ m.tm = tm
    BY <1>4, <2>2
  <2>4. bound' = [bound EXCEPT ![m.s][m.a] = m.tm.valid]
    BY <2>1, <2>3, Zenon
  <2>5. dpc # "solicit"
    BY <1>2, <1>7
  <2> QED
    BY <2>1, <2>2, <2>3, <2>4, <2>5, Zenon DEF InPool
<1>8. CASE /\ cur.t \in {"request", "renew"} /\ UNCHANGED bound
           /\ Put([cur EXCEPT !.t = IF fam = "v4" THEN "nak" ELSE "reply", !.a = NoAddr])
  <2>1. PICK k : k = (IF fam = "v4" THEN "nak" ELSE "reply") /\ k \in {"nak", "reply"}
    OBVIOUS
  <2>2. PICK m : m = [cur EXCEPT !.t = k, !.a = NoAddr]
    OBVIOUS
  <2>3. wire' = wire \cup {m}
    BY <1>8, <2>1, <2>2 DEF Put
  <2>4. m.t = k /\ m.a = NoAddr
    BY <1>4, <2>2
  <2> QED
    BY <1>2, <1>8, <2>1, <2>3, <2>4
<1> QED
  BY <1>1, <1>5, <1>6, <1>7, <1>8 DEF Answer

\* Steps that neither add to what is in flight nor touch a binding, and keep the
\* lease, its age and the exchange.
LEMMA QuietBacks ==
  ASSUME BackInv, wire' \subseteq wire, UNCHANGED <<lease, base, age, left, bound>>, lapsed' = lapsed,
         dpc' = dpc \/ dpc' \notin {"solicit", "request", "sleep", "renew", "rebind"},
         dpc' = "request" => chosen' = chosen,
         \A m \in wire' : m.t = "release" => dpc' \in {"wait", "done", "gone"}
  PROVE  BoundTyped' /\ FromPools' /\ OwnAnswers' /\ InTime'
<1> USE DEF BackInv
<1>1. BoundTyped'
  BY DEF BoundTyped
<1>2. FromPools'
  BY DEF FromPools, InPool
<1>3. OwnAnswers'
  BY DEF OwnAnswers
<1>4. Grants' \subseteq Grants /\ T' = T /\ \A m : \A x : Fresh(m, x)' <=> Fresh(m, x)
  BY DEF Grants, T, Fresh
<1>5. InTime'
  BY <1>4 DEF InTime
<1> QED
  BY <1>1, <1>2, <1>3, <1>5

\* A grant is fresh enough for the sleep that follows.
LEMMA RenewSleeps ==
  ASSUME BackInv, NEW m \in Grants, dpc \in {"request", "renew", "rebind"},
         InPool(m.s, m.a), m.tm \in LeaseTimes, dpc # "request" => lease.times \in LeaseTimes
  PROVE  DefaultsFor(m.tm).t1 < bound[m.s][m.a]
<1>1. bound[m.s][m.a] \in Nat /\ age \in Nat /\ left \in 0..ObtainTicks
  BY DEF BackInv, BoundTyped, InPool, InTime, LeaseInv, DhcpTypes, DhcpTypeOK
<1>2. DefaultsFor(m.tm).t1 \in Nat
  BY TimesTyped
<1>3. CASE dpc = "request"
  <2>1. PICK k \in LeaseTimes : k.valid <= bound[m.s][m.a] + (ObtainTicks - left)
    BY <1>3 DEF BackInv, InTime, Fresh
  <2>2. DefaultsFor(m.tm).t1 + ObtainTicks < k.valid /\ ObtainTicks \in Nat /\ k.valid \in Nat
    BY TimesOrdered, TimesTyped
  <2> QED
    BY <1>1, <1>2, <2>1, <2>2
<1>4. CASE dpc = "renew"
  <2>1. PICK k \in LeaseTimes : k.valid <= bound[m.s][m.a] + (age - T.t1)
    BY <1>4 DEF BackInv, InTime, Fresh
  <2>2. T.t1 <= age /\ age <= T.t2
    BY <1>4 DEF BackInv, InTime
  <2>3. DefaultsFor(m.tm).t1 + T.t2 < k.valid + T.t1 /\ T.t1 \in Nat /\ T.t2 \in Nat /\ k.valid \in Nat
    BY <1>4, TimesOrdered, TimesTyped DEF T
  <2> QED
    BY <1>1, <1>2, <2>1, <2>2, <2>3
<1>5. CASE dpc = "rebind"
  <2>1. PICK k \in LeaseTimes : k.valid <= bound[m.s][m.a] + (age - T.t2)
    BY <1>5 DEF BackInv, InTime, Fresh
  <2>2. T.t2 <= age /\ age <= T.valid
    BY <1>5 DEF BackInv, InTime
  <2>3. DefaultsFor(m.tm).t1 + T.valid < k.valid + T.t2 /\ T.valid \in Nat /\ T.t2 \in Nat /\ k.valid \in Nat
    BY <1>5, TimesOrdered, TimesTyped DEF T
  <2> QED
    BY <1>1, <1>2, <2>1, <2>2, <2>3
<1> QED
  BY <1>3, <1>4, <1>5

\* A new exchange begins.
LEMMA BeginBacks ==
  ASSUME BackInv, NEW phase, Begin(phase), phase # "request", phase # "sleep",
         UNCHANGED <<lease, base, age, bound>>,
         phase \in {"solicit", "renew", "rebind"},
         \A m \in wire : m.t # "release",
         phase = "renew" => T.t1 <= age /\ age <= T.t2,
         phase = "rebind" => T.t2 <= age /\ age <= T.valid
  PROVE  BoundTyped' /\ FromPools' /\ OwnAnswers' /\ InTime'
<1>1. /\ dpc' = phase /\ Grants' = {}
      /\ \A m \in wire' : /\ ~m.now
                          /\ \E n \in wire : m.t = n.t /\ m.s = n.s /\ m.a = n.a /\ m.tm = n.tm
  BY BeginOwn DEF BackInv, LeaseInv, DhcpTypes
<1>2. BoundTyped'
  BY DEF BackInv, BoundTyped
<1>3. FromPools'
  <2>1. \A m \in wire' : m.t = "advert" \/ (m.t = "reply" /\ m.a # NoAddr) => InPool(m.s, m.a)
    BY <1>1 DEF BackInv, FromPools
  <2>2. \A m \in wire' : m.t = "reply" /\ m.a # NoAddr => m.tm \in LeaseTimes
    BY <1>1 DEF BackInv, FromPools
  <2> QED
    BY <1>1, <2>1, <2>2 DEF BackInv, FromPools, InPool
<1>4. OwnAnswers'
  BY <1>1 DEF OwnAnswers
<1>5. T' = T
  BY DEF T
<1>6. InTime'
  BY <1>1, <1>5 DEF BackInv, InTime
<1> QED
  BY <1>2, <1>3, <1>4, <1>6

\* Every step keeps the bindings ahead of the client's timers.
LEMMA BackStep == BackInv /\ [DhcpNext]_dhcpVars => BackInv'
<1> SUFFICES ASSUME BackInv, [DhcpNext]_dhcpVars PROVE BackInv'
  OBVIOUS
<1>l. LeaseInv'
  BY LeaseStep DEF BackInv
<1>t. DhcpTypes /\ AnswersAreGranted /\ AddressIsOfLease /\ BoundTyped /\ FromPools /\ OwnAnswers /\ InTime
  BY DEF BackInv, LeaseInv
<1> SUFFICES BoundTyped' /\ FromPools' /\ OwnAnswers' /\ InTime'
  BY <1>l DEF BackInv
<1>r. \A m \in wire : m.t = "release" => dpc \in {"wait", "done", "gone"}
  BY <1>t DEF OwnAnswers
<1>1. CASE Obtain
  <2>1. \A m \in wire : m.t # "release"
    BY <1>1, <1>r DEF Obtain
  <2> QED
    BY <1>1, <2>1, BeginBacks DEF Obtain
<1>2. CASE Resolicit
  BY <1>2, BeginBacks DEF Resolicit
<1>3. CASE RenewPhase
  <2>1. \A m \in wire : m.t # "release"
    BY <1>3, <1>r DEF RenewPhase
  <2>2. T.t1 <= age /\ age <= T.t2
    <3>1. lease.times \in LeaseTimes
      BY <1>3, <1>t DEF RenewPhase, FromPools, AnswersAreGranted, InLoop
    <3>2. T.t1 \in Nat /\ T.t2 \in Nat /\ age \in Nat
      BY <3>1, <1>t, TimesTyped DEF T, InTime
    <3> QED
      BY <1>3, <3>2 DEF RenewPhase
  <2> QED
    BY <1>3, <2>1, <2>2, BeginBacks DEF RenewPhase
<1>4. CASE RebindPhase
  <2>1. \A m \in wire : m.t # "release"
    BY <1>4, <1>r DEF RebindPhase
  <2>2. T.t2 <= age /\ age <= T.valid
    <3>1. lease.times \in LeaseTimes
      BY <1>4, <1>t DEF RebindPhase, FromPools, AnswersAreGranted, InLoop
    <3>2. T.valid \in Nat /\ T.t2 \in Nat /\ age \in Nat
      BY <3>1, <1>t, TimesTyped DEF T, InTime
    <3> QED
      BY <1>4, <3>2 DEF RebindPhase
  <2> QED
    BY <1>4, <2>1, <2>2, BeginBacks DEF RebindPhase
<1>5. CASE LeaveLoop
  BY <1>5, <1>r, QuietBacks DEF LeaveLoop, InLoop
<1>6. CASE SupervisorEnds
  BY <1>6, <1>r, QuietBacks DEF SupervisorEnds
<1>7. CASE Cancel
  BY <1>7, <1>r, QuietBacks DEF Cancel
<1>8. CASE ProcessGone
  BY <1>8, <1>r, QuietBacks DEF ProcessGone
<1>9. ASSUME NEW m \in wire, RenewalRefused(m)
      PROVE  BoundTyped' /\ FromPools' /\ OwnAnswers' /\ InTime'
  BY <1>9, <1>r, QuietBacks DEF RenewalRefused
<1>10. ASSUME NEW m \in wire, Lose(m)
       PROVE  BoundTyped' /\ FromPools' /\ OwnAnswers' /\ InTime'
  BY <1>10, <1>r, QuietBacks DEF Lose
<1>11. CASE Release
  <2>1. PICK m : m = Msg("release", lease.server, lease.addr, NoTimes)
    OBVIOUS
  <2>2. m.t = "release"
    BY <2>1 DEF Msg
  <2>3. wire' \subseteq wire \cup {m} /\ dpc' \in {"wait", "done"}
    BY <1>11, <2>1 DEF Release
  <2>4. BoundTyped'
    BY <1>11, <1>t DEF Release, BoundTyped
  <2>5. FromPools'
    BY <1>11, <1>t, <2>2, <2>3 DEF Release, FromPools, InPool
  <2>6. OwnAnswers' /\ InTime'
    BY <1>11, <1>t, <2>2, <2>3 DEF Release, OwnAnswers, InTime
  <2> QED
    BY <2>4, <2>5, <2>6
<1>12. ASSUME NEW m \in wire, AcceptAdvert(m)
       PROVE  BoundTyped' /\ FromPools' /\ OwnAnswers' /\ InTime'
  <2>1. /\ dpc = "solicit" /\ dpc' = "request" /\ wire' \subseteq wire
        /\ chosen' = LeaseOf(m) /\ m.t = "advert" /\ UNCHANGED <<lease, base, age, left, bound, lapsed>>
    BY <1>12 DEF AcceptAdvert, Matches, Want
  <2>2. chosen'.server = m.s /\ chosen'.addr = m.a
    BY <2>1 DEF LeaseOf
  <2>3. BoundTyped'
    BY <2>1, <1>t DEF BoundTyped
  <2>4. FromPools'
    BY <2>1, <2>2, <1>t DEF FromPools, InPool
  <2>5. OwnAnswers'
    BY <2>1, <1>t DEF OwnAnswers
  <2>6. Grants' = {}
    BY <2>1, <1>t DEF Grants, OwnAnswers
  <2>7. InTime'
    BY <2>1, <2>6, <1>t DEF InTime
  <2> QED
    BY <2>3, <2>4, <2>5, <2>7
<1>13. ASSUME NEW m \in wire, AcceptLease(m) \/ AcceptRenewal(m)
       PROVE  BoundTyped' /\ FromPools' /\ OwnAnswers' /\ InTime'
  <2>1. /\ m \in Grants /\ dpc \in {"request", "renew", "rebind"} /\ wire' \subseteq wire
        /\ lease' = LeaseOf(m) /\ age' = 0 /\ UNCHANGED bound /\ dpc' \in {"done", "sleep", "release"}
        /\ base' = LeaseOf(m) \/ (base' = base /\ dpc # "request")
    BY <1>13 DEF AcceptLease, AcceptRenewal, Matches, Want, Grants, ApplyObtained
  <2>2. lease'.server = m.s /\ lease'.addr = m.a /\ lease'.times = m.tm
    BY <2>1 DEF LeaseOf
  <2>3. InPool(m.s, m.a) /\ m.tm \in LeaseTimes
    BY <2>1, <1>t DEF Grants, FromPools
  <2>4. dpc # "request" => lease.times \in LeaseTimes /\ base # NoLease
    BY <2>1, <1>t DEF AnswersAreGranted, InLoop, FromPools
  <2>5. DefaultsFor(m.tm).t1 < bound[m.s][m.a]
    BY <2>1, <2>3, <2>4, RenewSleeps
  <2>6. BoundTyped'
    BY <2>1, <1>t DEF BoundTyped
  <2>7. (base'.server = m.s /\ base'.addr = m.a /\ base'.times = m.tm) \/ (base' = base /\ base # NoLease)
    BY <2>1, <2>4 DEF LeaseOf
  <2>8. FromPools'
    BY <2>1, <2>2, <2>3, <2>7, <1>t DEF FromPools, InPool
  <2>9. OwnAnswers'
    BY <2>1, <1>r DEF OwnAnswers
  <2>10. InTime'
    <3>1. T'.t1 = DefaultsFor(m.tm).t1 /\ T'.t1 \in Nat
      BY <2>2, <2>3, TimesTyped DEF T
    <3>2. T'.t1 < bound'[lease'.server][lease'.addr]
      BY <2>1, <2>2, <2>5, <3>1
    <3>3. bound'[lease'.server][lease'.addr] \in Nat
      BY <2>2, <2>3, <2>6 DEF BoundTyped, InPool
    <3> QED
      BY <2>1, <3>1, <3>2, <3>3 DEF InTime
  <2> QED
    BY <2>6, <2>8, <2>9, <2>10
<1>14. CASE ObtainFails
  <2>1. /\ dpc \in {"solicit", "request"} /\ dpc' \in {"done", "wait", "failed", "release", "sleep"}
        /\ wire' = wire /\ base' = base /\ bound' = bound
        /\ \/ lease' = base /\ age' = 0 /\ lapsed' = TRUE /\ base # NoLease
           \/ lease' = lease /\ age' = age /\ ~(fam = "na" /\ base # NoLease)
    BY <1>14, <1>t DEF ObtainFails, DhcpTypes
  <2>2. BoundTyped'
    BY <2>1, <1>t DEF BoundTyped
  <2>3. FromPools'
    BY <2>1, <1>t DEF FromPools, InPool
  <2>4. OwnAnswers'
    BY <2>1, <1>t DEF OwnAnswers
  <2>5. dpc' = "sleep" => fam = "na" /\ base # NoLease
    BY <1>14, <1>t, <2>1 DEF ObtainFails, DhcpTypes, AddressIsOfLease
  <2>6. dpc' = "sleep" => lapsed' /\ age' = 0 /\ T'.t1 \in Nat
    <3>1. ASSUME dpc' = "sleep" PROVE lapsed' /\ age' = 0 /\ lease' = base /\ base.times \in LeaseTimes
      BY <2>1, <2>5, <3>1, <1>t DEF FromPools
    <3> QED
      BY <3>1, TimesTyped DEF T
  <2>7. InTime'
    BY <2>1, <2>6, <1>t DEF InTime
  <2> QED
    BY <2>2, <2>3, <2>4, <2>7
<1>15. CASE Deliver
  <2>1. /\ InExchange /\ UNCHANGED <<dpc, left, chosen, lease, base, age, lapsed>>
        /\ \E s \in DhcpServer : Answer(s, Current)
    BY <1>15 DEF Deliver
  <2>2. PICK m : /\ wire' = wire \cup {m}
                 /\ \/ m.t = "advert" /\ dpc = "solicit" /\ InPool(m.s, m.a) /\ UNCHANGED bound
                    \/ m.t \in {"nak", "reply"} /\ m.a = NoAddr /\ dpc # "solicit" /\ UNCHANGED bound
                    \/ /\ m.t = "reply" /\ dpc # "solicit" /\ InPool(m.s, m.a) /\ m.tm \in LeaseTimes
                       /\ bound' = [bound EXCEPT ![m.s][m.a] = m.tm.valid]
    BY <2>1, AnswerBinds DEF BackInv
  <2>3. FromPools'
    BY <2>1, <2>2, <1>t DEF FromPools, InPool
  <2>4. OwnAnswers'
    BY <2>1, <2>2, <1>t DEF OwnAnswers, InExchange
  <2>5. T' = T /\ dpc' # "sleep"
    BY <2>1 DEF T, InExchange
  <2>6. CASE UNCHANGED bound /\ (m.t # "reply" \/ m.a = NoAddr)
    <3>1. BoundTyped'
      BY <2>6, <1>t DEF BoundTyped
    <3>2. dpc \in {"request", "renew", "rebind"} => Grants' \subseteq Grants
      BY <2>2, <2>6, <1>t DEF Grants
    <3>3. \A n, x : Fresh(n, x)' <=> Fresh(n, x)
      BY <2>6 DEF Fresh
    <3>4. InTime'
      BY <2>1, <2>5, <3>2, <3>3, <1>t DEF InTime
    <3> QED
      BY <2>3, <2>4, <3>1, <3>4
  <2>7. CASE /\ m.t = "reply" /\ dpc # "solicit" /\ InPool(m.s, m.a) /\ m.tm \in LeaseTimes
             /\ bound' = [bound EXCEPT ![m.s][m.a] = m.tm.valid]
    <3>1. /\ m.t = "reply" /\ InPool(m.s, m.a) /\ m.tm \in LeaseTimes
          /\ bound' = [bound EXCEPT ![m.s][m.a] = m.tm.valid]
      BY <2>7
    <3>2. m.tm.valid \in Nat
      BY <3>1, TimesTyped
    <3>3. /\ BoundTyped' /\ bound'[m.s][m.a] = m.tm.valid
          /\ \A q \in DhcpServer : \A x \in Pool[q] : bound'[q][x] = bound[q][x] \/ bound'[q][x] = m.tm.valid
      <4>0. PICK s \in DhcpServer : s = m.s /\ m.a \in Pool[s]
        BY <3>1 DEF InPool
      <4>1. PICK a \in Pool[s], v \in Nat : a = m.a /\ v = m.tm.valid
        BY <3>2, <4>0
      <4>2. bound' = Rebound(s, a, v)
        BY <3>1, <4>0, <4>1, Zenon DEF Rebound
      <4>3. /\ BoundTyped' /\ bound'[s][a] = v
            /\ \A q \in DhcpServer : \A x \in Pool[q] : bound'[q][x] = bound[q][x] \/ bound'[q][x] = v
        BY <1>t, <4>2, BoundSet
      <4> QED
        BY <4>0, <4>1, <4>3, Zenon
    <3>4. \A n \in Grants' : InPool(n.s, n.a)
      BY <2>3 DEF Grants, FromPools
    <3>5. ASSUME NEW n \in Grants', NEW x \in Nat, n \in Grants => Fresh(n, x)
          PROVE  Fresh(n, x)'
      <4>1. CASE bound'[n.s][n.a] = m.tm.valid
        <5>1. m.tm.valid <= bound'[n.s][n.a] + x
          BY <3>2, <4>1
        <5> QED
          BY <3>1, <5>1 DEF Fresh
      <4>2. CASE bound'[n.s][n.a] # m.tm.valid
        <5>1. n # m
          BY <3>3, <4>2
        <5>2. n \in Grants
          BY <2>2, <5>1 DEF Grants
        <5>3. bound'[n.s][n.a] = bound[n.s][n.a]
          BY <3>3, <3>4, <4>2 DEF InPool
        <5> QED
          BY <3>5, <5>2, <5>3 DEF Fresh
      <4> QED
        BY <4>1, <4>2
    <3>6. CASE dpc = "request"
      <4>1. ObtainTicks - left \in Nat
        BY <1>t, DhcpAssumption DEF DhcpTypes, DhcpTypeOK
      <4> QED
        BY <2>1, <2>3, <2>4, <3>3, <3>5, <3>6, <4>1, <1>t DEF InTime
    <3>7. CASE dpc \in {"renew", "rebind"}
      <4>1. lease.times \in LeaseTimes
        BY <3>7, <1>t DEF FromPools, AnswersAreGranted, InLoop
      <4>2. T.t1 \in Nat /\ T.t2 \in Nat
        BY <4>1, TimesTyped DEF T
      <4>3. (dpc = "renew" => age - T.t1 \in Nat) /\ (dpc = "rebind" => age - T.t2 \in Nat)
        BY <4>2, <1>t DEF InTime
      <4> QED
        BY <2>1, <2>3, <2>4, <2>5, <3>3, <3>5, <3>7, <4>3, <1>t DEF InTime
    <3>8. CASE dpc = "solicit"
      BY <2>1, <2>3, <2>4, <3>3, <3>8, <1>t DEF InTime
    <3> QED
      BY <2>1, <3>6, <3>7, <3>8 DEF InExchange
  <2> QED
    BY <2>2, <2>6, <2>7
<1>16. ASSUME NEW m \in wire, DeliverRelease(m)
       PROVE  BoundTyped' /\ FromPools' /\ OwnAnswers' /\ InTime'
  <2>1. /\ m.t = "release" /\ wire' \subseteq wire /\ bound' = [bound EXCEPT ![m.s][m.a] = 0]
        /\ UNCHANGED <<dpc, left, chosen, lease, base, age, lapsed>>
    BY <1>16 DEF DeliverRelease
  <2>2. dpc \in {"wait", "done", "gone"}
    BY <2>1, <1>r
  <2>3. BoundTyped'
    <3>1. CASE InPool(m.s, m.a)
      <4>1. m.s \in DhcpServer /\ m.a \in Pool[m.s] /\ bound' = Rebound(m.s, m.a, 0)
        BY <2>1, <3>1 DEF InPool, Rebound
      <4> QED
        BY <4>1, <1>t, BoundSet
    <3>2. CASE ~InPool(m.s, m.a)
      <4>1. bound = [s \in DhcpServer |-> bound[s]] /\ \A s \in DhcpServer : bound[s] = [a \in Pool[s] |-> bound[s][a]]
        BY <1>t DEF BoundTyped
      <4>2. PICK row : row = [bound[m.s] EXCEPT ![m.a] = 0]
        OBVIOUS
      <4>3. m.s \in DhcpServer => row = bound[m.s]
        BY <3>2, <4>1, <4>2 DEF InPool
      <4>4. bound' = [bound EXCEPT ![m.s] = row]
        BY <2>1, <4>2
      <4>5. bound' = bound
        BY <4>1, <4>3, <4>4
      <4> QED
        BY <4>5, <1>t DEF BoundTyped
    <3> QED
      BY <3>1, <3>2
  <2>4. FromPools' /\ OwnAnswers' /\ InTime'
    BY <2>1, <2>2, <1>t DEF FromPools, InPool, OwnAnswers, InTime
  <2> QED
    BY <2>3, <2>4
<1>17. CASE Tick
  <2>1. /\ UNCHANGED <<dpc, wire, chosen, lease, base, lapsed>>
        /\ dpc \in {"solicit", "request"} => left > 0
        /\ dpc = "sleep" => age < T.t1
        /\ dpc = "renew" => age < T.t2
        /\ InLoop => age < T.valid \/ age < T.t1
        /\ left' = IF left > 0 THEN left - 1 ELSE 0
        /\ age' = IF age < T.valid THEN age + 1 ELSE age
        /\ bound' = [s \in DhcpServer |-> [a \in Pool[s] |-> IF bound[s][a] > 0 THEN bound[s][a] - 1 ELSE 0]]
    BY <1>17 DEF Tick
  <2>2. ASSUME NEW s \in DhcpServer, NEW a \in Pool[s]
        PROVE  bound'[s][a] \in Nat /\ bound[s][a] \in Nat /\ bound[s][a] <= bound'[s][a] + 1
    <3>1. bound[s][a] \in Nat
      BY <1>t DEF BoundTyped
    <3>2. bound'[s] = [x \in Pool[s] |-> IF bound[s][x] > 0 THEN bound[s][x] - 1 ELSE 0]
      BY <2>1
    <3>3. bound'[s][a] = IF bound[s][a] > 0 THEN bound[s][a] - 1 ELSE 0
      BY <3>2
    <3> QED
      BY <3>1, <3>3
  <2>3. BoundTyped'
    <3>1. \A s \in DhcpServer : bound'[s] = [x \in Pool[s] |-> bound'[s][x]]
      BY <2>1
    <3>2. bound' = [s \in DhcpServer |-> bound'[s]]
      BY <2>1
    <3>3. [s \in DhcpServer |-> bound'[s]] = [s \in DhcpServer |-> [x \in Pool[s] |-> bound'[s][x]]]
      BY <3>1, Zenon
    <3> QED
      BY <2>2, <3>2, <3>3 DEF BoundTyped
  <2>4. FromPools' /\ OwnAnswers'
    BY <2>1, <1>t DEF FromPools, InPool, OwnAnswers
  <2>5. T' = T /\ Grants' = Grants
    BY <2>1 DEF T, Grants
  <2>6. ASSUME NEW n \in Grants, NEW x \in Nat, Fresh(n, x) PROVE Fresh(n, x + 1)'
    <3>1. PICK k \in LeaseTimes : k.valid <= bound[n.s][n.a] + x
      BY <2>6 DEF Fresh
    <3>2. InPool(n.s, n.a)
      BY <1>t DEF Grants, FromPools
    <3>3. k.valid \in Nat
      BY TimesTyped
    <3>4. k.valid <= bound'[n.s][n.a] + (x + 1)
      BY <2>2, <3>1, <3>2, <3>3 DEF InPool
    <3> QED
      BY <3>4 DEF Fresh
  <2>7. age \in Nat
    BY <1>t DEF InTime
  <2>8. CASE dpc = "request"
    <3>1. left \in Nat /\ left > 0 /\ left <= ObtainTicks /\ ObtainTicks \in Nat
      BY <2>1, <2>8, <1>t, DhcpAssumption DEF DhcpTypes, DhcpTypeOK
    <3>2. PICK x : x = ObtainTicks - left
      OBVIOUS
    <3>3. x \in Nat /\ ObtainTicks - left' = x + 1
      BY <2>1, <3>1, <3>2
    <3>4. \A n \in Grants : Fresh(n, x)
      BY <2>8, <3>2, <1>t DEF InTime
    <3>5. \A n \in Grants' : Fresh(n, ObtainTicks - left)'
      BY <2>5, <2>6, <3>3, <3>4
    <3>6. age' \in Nat
      BY <2>1, <2>7
    <3> QED
      BY <2>1, <2>3, <2>4, <2>8, <3>5, <3>6 DEF InTime
  <2>9. CASE InLoop
    <3>1. lease.times \in LeaseTimes /\ InPool(lease.server, lease.addr)
      BY <2>9, <1>t DEF FromPools, AnswersAreGranted
    <3>2. T.t1 \in Nat /\ T.t2 \in Nat /\ T.valid \in Nat
      BY <3>1, TimesTyped DEF T
    <3>3. T.t1 < T.valid
      <4>1. DefaultsFor(lease.times).t1 + ObtainTicks < lease.times.valid /\ ObtainTicks \in Nat
        BY <3>1, TimesOrdered
      <4>2. T.valid = lease.times.valid
        BY <3>1, TimesTyped DEF T
      <4> QED
        BY <3>2, <4>1, <4>2 DEF T
    <3>4. age' = age + 1 /\ age < T.valid
      BY <2>1, <2>7, <2>9, <3>2, <3>3
    <3>5. CASE dpc = "renew"
      <4>1. PICK x : x = age - T.t1
        OBVIOUS
      <4>2. x \in Nat /\ age' - T'.t1 = x + 1 /\ T'.t1 <= age' /\ age' <= T'.t2
        BY <2>1, <2>5, <2>7, <3>2, <3>4, <3>5, <4>1, <1>t DEF InTime
      <4>3. \A n \in Grants : Fresh(n, x)
        BY <3>5, <4>1, <1>t DEF InTime
      <4>4. \A n \in Grants' : Fresh(n, age - T.t1)'
        BY <2>5, <2>6, <4>2, <4>3
      <4> QED
        BY <2>1, <2>3, <2>4, <2>7, <3>4, <3>5, <4>2, <4>4 DEF InTime
    <3>6. CASE dpc = "rebind"
      <4>1. PICK x : x = age - T.t2
        OBVIOUS
      <4>0. T.t2 <= age
        BY <3>6, <1>t DEF InTime
      <4>2. x \in Nat /\ age' - T'.t2 = x + 1 /\ T'.t2 <= age' /\ age' <= T'.valid
        BY <2>5, <2>7, <3>2, <3>4, <4>0, <4>1
      <4>3. \A n \in Grants : Fresh(n, x)
        BY <3>6, <4>1, <1>t DEF InTime
      <4>4. \A n \in Grants' : Fresh(n, age - T.t2)'
        BY <2>5, <2>6, <4>2, <4>3
      <4> QED
        BY <2>1, <2>3, <2>4, <2>7, <3>4, <3>6, <4>2, <4>4 DEF InTime
    <3>7. CASE dpc = "sleep"
      <4>1. age < T.t1 /\ (~lapsed => T.t1 < bound[lease.server][lease.addr] + age)
        BY <2>1, <3>7, <1>t DEF InTime
      <4>2. PICK y : y = bound[lease.server][lease.addr]
        OBVIOUS
      <4>3. PICK z : z = bound'[lease.server][lease.addr]
        OBVIOUS
      <4>4. y \in Nat /\ z \in Nat /\ y <= z + 1
        BY <2>2, <3>1, <4>2, <4>3 DEF InPool
      <4>5. ~lapsed => T.t1 < z + (age + 1)
        BY <2>7, <3>2, <4>1, <4>2, <4>4
      <4>6. age' <= T.t1
        BY <2>7, <3>2, <3>4, <4>1
      <4>7. ~lapsed' => T'.t1 < bound'[lease'.server][lease'.addr] + age'
        BY <2>1, <2>5, <3>4, <4>3, <4>5
      <4> QED
        BY <2>1, <2>3, <2>4, <2>5, <2>7, <3>4, <3>7, <4>6, <4>7 DEF InTime
    <3>8. CASE dpc = "backoff"
      BY <2>1, <2>3, <2>4, <2>7, <3>4, <3>8 DEF InTime
    <3> QED
      BY <2>9, <3>5, <3>6, <3>7, <3>8 DEF InLoop
  <2>10. CASE dpc \in {"solicit", "wait"}
    <3>1. age' \in Nat
      BY <2>1, <2>7
    <3> QED
      BY <2>1, <2>3, <2>4, <2>10, <3>1 DEF InTime
  <2> QED
    BY <1>17, <2>8, <2>9, <2>10 DEF Tick, InLoop
<1>18. CASE UNCHANGED dhcpVars
  <2>1. wire' = wire /\ dpc' = dpc /\ chosen' = chosen /\ lapsed' = lapsed /\ UNCHANGED <<lease, base, age, left, bound>>
    BY <1>18 DEF dhcpVars
  <2> QED
    BY <2>1, <1>r, QuietBacks
<1> QED
  BY <1>1, <1>2, <1>3, <1>4, <1>5, <1>6, <1>7, <1>8, <1>9, <1>10, <1>11, <1>12, <1>13, <1>14, <1>15, <1>16, <1>17, <1>18,
     Zenon DEF DhcpNext, DhcpStep

\* The lease loop, applyAddrChange and the supervisors: the interface carries the
\* address of the lease and no other while the loop runs, through renewals that
\* move it and through expiry (AddressFollowsLease), and while the loop sleeps
\* the server that granted the lease has it bound (LeaseBacked), for any servers
\* and pools, any number of answers in flight, lost, late and out of order, and
\* lease times that agree.
THEOREM LeaseIsSafe == DhcpSpec => []LeaseSafe
<1>1. DhcpInit => BackInv
  BY BackInitial
<1>2. BackInv /\ [DhcpNext]_dhcpVars => BackInv'
  BY BackStep
<1>3. BackInv => LeaseSafe
  <2> SUFFICES ASSUME BackInv PROVE LeaseSafe
    OBVIOUS
  <2>1. DhcpTypeOK /\ AddressFollowsLease
    BY DEF BackInv, LeaseInv, DhcpTypes
  <2>2. ASSUME dpc = "sleep", ~lapsed PROVE bound[lease.server][lease.addr] > 0
    <3>1. lease.times \in LeaseTimes /\ InPool(lease.server, lease.addr)
      BY <2>2 DEF BackInv, LeaseInv, FromPools, AnswersAreGranted, InLoop
    <3>2. T.t1 \in Nat
      BY <3>1, TimesTyped DEF T
    <3>3. bound[lease.server][lease.addr] \in Nat
      BY <3>1 DEF BackInv, BoundTyped, InPool
    <3>4. age \in Nat /\ age <= T.t1 /\ T.t1 < bound[lease.server][lease.addr] + age
      BY <2>2 DEF BackInv, InTime
    <3> QED
      BY <3>2, <3>3, <3>4
  <2> QED
    BY <2>1, <2>2 DEF LeaseSafe, LeaseBacked
<1> QED
  BY <1>1, <1>2, <1>3, PTL DEF DhcpSpec

-----------------------------------------------------------------------------
(* The router tracker.                                                     *)

\* There are no more routers on the uplink than the tracker keeps (raMaxRouters);
\* it does not hear the ones beyond.
RoutersFit ==
  /\ IsFiniteSet(Router) /\ RaMaxRouters \in Nat
  /\ Cardinality(Router) <= RaMaxRouters

Holds  == [misses : Nat, lastMiss : Nat, until : Nat]
States == [withdrawn : BOOLEAN, missCount : Nat, missSince : Nat, rsAt : Nat, until : Nat]
Bursts == [start : Nat, last : Nat, unicast : BOOLEAN, seen : SUBSET RaPrefix]
Trackers ==
  [holds : [Router -> [RaPrefix -> Holds]], prefixes : [RaPrefix -> States],
   bursts : [Router -> Bursts], lastRS : Nat]

\* Of a tracker t at time n, when the routers' last words are sd, what they are
\* sending is sn and their last messages left at ls.
\* A prefix whose lifetime runs at a router is held there, without a miss.
Kept(t, n, sd) ==
  \A r \in Router, p \in RaPrefix : sd[r][p] >= n =>
    /\ t.holds[r][p].until >= sd[r][p]
    /\ t.holds[r][p].misses = 0 /\ t.holds[r][p].lastMiss = 0

\* Misses have a date.
Dated(t) ==
  \A p \in RaPrefix : t.prefixes[p].missCount > 0 => t.prefixes[p].missSince > 0

\* The burst of a router is the advertisement it is sending.
InStep(t, sn, ls) ==
  \A r \in Router : t.bursts[r].start > 0 =>
    /\ t.bursts[r].last = ls[r]
    /\ sn[r].rest # {} => t.bursts[r].unicast = sn[r].unicast

\* A burst has seen every prefix whose lifetime runs, but for those still to
\* come, or to be left out, in the advertisement under way.
Carried(t, n, sd, sn) ==
  \A r \in Router, p \in RaPrefix : sd[r][p] >= n =>
    IF t.bursts[r].start > 0
    THEN p \in t.bursts[r].seen \/ (sn[r].rest # {} /\ p \notin sn[r].whole \ sn[r].rest)
    ELSE sn[r].rest = {}

TrackOK(t, n, sd, sn, ls) ==
  t \in Trackers /\ Kept(t, n, sd) /\ Dated(t) /\ InStep(t, sn, ls) /\ Carried(t, n, sd, sn)

\* What the routers do.
SendTypes ==
  /\ now \in 1..MaxNow /\ raCur \in RaPrefix
  /\ adv \in [Router -> SUBSET RaPrefix] /\ gone \in [Router -> SUBSET RaPrefix]
  /\ sending \in [Router -> [rest : SUBSET RaPrefix, whole : SUBSET RaPrefix, unicast : BOOLEAN]]
  /\ lastSent \in [Router -> 0..MaxNow]
  /\ said \in [Router -> [RaPrefix -> Nat]]
\* The messages of an advertisement follow each other closely; the first one
\* carries what is withdrawn.
BackToBack ==
  \A r \in Router : sending[r].rest # {} =>
    /\ now - lastSent[r] <= BurstGap /\ gone[r] = {}
    /\ sending[r].rest \subseteq sending[r].whole

\* The inductive invariant of the router tracker.
TrackerInv ==
  SendTypes /\ BackToBack /\ TrackOK(ra, now, said, sending, lastSent)

\* The parts of a tracker.
LEMMA TrackerParts ==
  ASSUME NEW t \in Trackers
  PROVE  /\ t.holds \in [Router -> [RaPrefix -> Holds]] /\ t.prefixes \in [RaPrefix -> States]
         /\ t.bursts \in [Router -> Bursts] /\ t.lastRS \in Nat
         /\ \A r \in Router, p \in RaPrefix : t.holds[r][p] \in Holds
         /\ \A r \in Router : t.holds[r] \in [RaPrefix -> Holds] /\ t.bursts[r] \in Bursts
         /\ \A p \in RaPrefix : t.prefixes[p] \in States
<1>1. /\ t.holds \in [Router -> [RaPrefix -> Holds]] /\ t.prefixes \in [RaPrefix -> States]
      /\ t.bursts \in [Router -> Bursts] /\ t.lastRS \in Nat
  BY DEF Trackers
<1> QED
  BY <1>1, Zenon

\* A tracker with its bursts replaced.
LEMMA WithBursts ==
  ASSUME NEW t \in Trackers, NEW f \in [Router -> Bursts]
  PROVE  LET x == [t EXCEPT !.bursts = f] IN
         /\ x \in Trackers /\ x.bursts = f /\ x.holds = t.holds /\ x.prefixes = t.prefixes
         /\ x.lastRS = t.lastRS
  BY DEF Trackers

\* A tracker with its holds replaced.
LEMMA WithHolds ==
  ASSUME NEW t \in Trackers, NEW f \in [Router -> [RaPrefix -> Holds]]
  PROVE  LET x == [t EXCEPT !.holds = f] IN
         /\ x \in Trackers /\ x.holds = f /\ x.bursts = t.bursts /\ x.prefixes = t.prefixes
         /\ x.lastRS = t.lastRS
  BY DEF Trackers

\* A tracker with its prefix states replaced.
LEMMA WithStates ==
  ASSUME NEW t \in Trackers, NEW f \in [RaPrefix -> States]
  PROVE  LET x == [t EXCEPT !.prefixes = f] IN
         /\ x \in Trackers /\ x.prefixes = f /\ x.bursts = t.bursts /\ x.holds = t.holds
         /\ x.lastRS = t.lastRS
  BY DEF Trackers

\* expire drops no hold whose lifetime runs, and no burst of a router that has one.
LEMMA ExpireKeeps ==
  ASSUME NEW t, NEW n \in Nat, NEW m \in Nat, m <= n, n > 0,
         SendTypes, TrackOK(t, m, said, sending, lastSent)
  PROVE  TrackOK(Expire(t, n), n, said, sending, lastSent)
<1>0. t \in Trackers
  BY DEF TrackOK
<1> PICK e : e = Expire(t, n)
  OBVIOUS
<1>1. /\ e \in Trackers
      /\ \A r \in Router, p \in RaPrefix :
           e.holds[r][p] = IF n > t.holds[r][p].until THEN NoHold ELSE t.holds[r][p]
      /\ \A p \in RaPrefix :
           e.prefixes[p] = IF n > t.prefixes[p].until THEN NoState ELSE t.prefixes[p]
      /\ \A r \in Router :
           e.bursts[r] = IF \A p \in RaPrefix : e.holds[r][p].until = 0 THEN NoBurst ELSE t.bursts[r]
  <2> DEFINE h == [r \in Router |-> [p \in RaPrefix |->
                     IF n > t.holds[r][p].until THEN NoHold ELSE t.holds[r][p]]]
             pr == [p \in RaPrefix |->
                     IF n > t.prefixes[p].until THEN NoState ELSE t.prefixes[p]]
             bu == [r \in Router |->
                     IF \A p \in RaPrefix : h[r][p].until = 0 THEN NoBurst ELSE t.bursts[r]]
  <2>1. h \in [Router -> [RaPrefix -> Holds]]
    BY <1>0 DEF Trackers, Holds, NoHold
  <2>2. pr \in [RaPrefix -> States]
    BY <1>0 DEF Trackers, States, NoState
  <2>3. bu \in [Router -> Bursts]
    BY <1>0 DEF Trackers, Bursts, NoBurst
  <2>4. e = [t EXCEPT !.holds = h, !.prefixes = pr, !.bursts = bu]
    BY DEF Expire
  <2>5. e \in Trackers /\ e.holds = h /\ e.prefixes = pr /\ e.bursts = bu
    <3> HIDE DEF h, pr, bu
    <3> QED
      BY <1>0, <2>1, <2>2, <2>3, <2>4 DEF Trackers
  <2> QED
    BY <2>5
<1>2. Kept(e, n, said)
  <2> SUFFICES ASSUME NEW r \in Router, NEW p \in RaPrefix, said[r][p] >= n
               PROVE  e.holds[r][p] = t.holds[r][p]
    <3>1. \A r \in Router, p \in RaPrefix : said[r][p] >= n => said[r][p] >= m
      BY DEF SendTypes
    <3> QED
      BY <3>1 DEF TrackOK, Kept
  <2>1. said[r][p] \in Nat /\ t.holds[r][p].until \in Nat
    BY <1>0 DEF SendTypes, Trackers, Holds
  <2>2. t.holds[r][p].until >= said[r][p]
    BY <2>1 DEF TrackOK, Kept
  <2> QED
    BY <1>1, <2>1, <2>2
<1>3. Dated(e)
  <2> SUFFICES ASSUME NEW p \in RaPrefix, e.prefixes[p].missCount > 0
               PROVE  e.prefixes[p].missSince > 0
    BY DEF Dated
  <2>1. e.prefixes[p] = t.prefixes[p]
    BY <1>1 DEF NoState
  <2> QED
    BY <2>1 DEF TrackOK, Dated
<1>4. InStep(e, sending, lastSent)
  BY <1>1, <1>0 DEF TrackOK, InStep, NoBurst
<1>5. Carried(e, n, said, sending)
  <2> SUFFICES ASSUME NEW r \in Router, NEW p \in RaPrefix, said[r][p] >= n
               PROVE  IF e.bursts[r].start > 0
                      THEN p \in e.bursts[r].seen \/ (sending[r].rest # {} /\ p \notin sending[r].whole \ sending[r].rest)
                      ELSE sending[r].rest = {}
    BY DEF Carried
  <2>1. e.holds[r][p].until > 0
    BY <1>2, <1>1 DEF Kept, SendTypes, Trackers, Holds
  <2>2. e.bursts[r] = t.bursts[r]
    BY <1>1, <2>1
  <2>3. said[r][p] >= m
    BY DEF SendTypes
  <2> QED
    BY <2>2, <2>3 DEF TrackOK, Carried
<1> QED
  BY <1>1, <1>2, <1>3, <1>4, <1>5 DEF TrackOK

\* closeBurst counts no miss against a lifetime that runs, if the routers have
\* sent the whole of what they were sending.
LEMMA CloseKeeps ==
  ASSUME RoutersFit, NEW n \in Nat, n > 0, NEW sd,
         NEW t, TrackOK(t, n, sd, sending, lastSent),
         NEW rs \in SUBSET Router,
         \A r \in rs : t.bursts[r].start > 0 /\ sending[r].rest = {}
  PROVE  /\ TrackOK(CloseBursts(t, rs), n, sd, sending, lastSent)
         /\ \A r \in Router :
              CloseBursts(t, rs).bursts[r] = IF r \in rs THEN NoBurst ELSE t.bursts[r]
         /\ \A r \in Router, p \in RaPrefix :
              r \notin rs => CloseBursts(t, rs).holds[r][p] = t.holds[r][p]
<1>0. t \in Trackers
  BY DEF TrackOK
<1> DEFINE missed(p) == {r \in rs : p \notin t.bursts[r].seen}
           first(p) == Min({t.bursts[r].start : r \in missed(p)})
           bu == [r \in Router |-> IF r \in rs THEN NoBurst ELSE t.bursts[r]]
           ho == [r \in Router |-> [p \in RaPrefix |->
                    IF t.holds[r][p].until > 0 /\ r \in missed(p)
                    THEN [t.holds[r][p] EXCEPT !.misses = @ + 1,
                                               !.lastMiss = t.bursts[r].start]
                    ELSE t.holds[r][p]]]
           pr == [p \in RaPrefix |->
                    IF t.prefixes[p].until > 0 /\ missed(p) # {}
                    THEN [t.prefixes[p] EXCEPT
                            !.missCount = @ + Cardinality(missed(p)),
                            !.missSince = IF t.prefixes[p].missCount = 0 THEN first(p) ELSE @]
                    ELSE t.prefixes[p]]
<1> PICK c : c = CloseBursts(t, rs)
  OBVIOUS
<1>1. c = [t EXCEPT !.bursts = bu, !.holds = ho, !.prefixes = pr]
  BY Zenon DEF CloseBursts
<1>2. bu \in [Router -> Bursts]
  BY <1>0 DEF Trackers, Bursts, NoBurst
<1>3. ho \in [Router -> [RaPrefix -> Holds]]
  <2> SUFFICES ASSUME NEW r \in Router, NEW p \in RaPrefix PROVE ho[r][p] \in Holds
    BY Zenon
  <2>1. t.holds[r][p] \in Holds /\ t.bursts[r].start \in Nat
    BY <1>0 DEF Trackers, Bursts
  <2>2. ASSUME NEW x \in Holds, NEW y \in Nat
        PROVE  [x EXCEPT !.misses = @ + 1, !.lastMiss = y] \in Holds
    <3>1. x.misses + 1 \in Nat
      BY DEF Holds
    <3>2. \A z \in Nat : [x EXCEPT !.misses = z, !.lastMiss = y] \in Holds
      BY Zenon DEF Holds
    <3> QED
      BY <3>1, <3>2
  <2>3. \/ ho[r][p] = t.holds[r][p]
        \/ ho[r][p] = [t.holds[r][p] EXCEPT !.misses = @ + 1, !.lastMiss = t.bursts[r].start]
    <3> HIDE DEF missed
    <3> QED
      OBVIOUS
  <2> HIDE DEF ho
  <2> QED
    BY <2>1, <2>2, <2>3
<1>4. ASSUME NEW p \in RaPrefix
      PROVE  /\ Cardinality(missed(p)) \in Nat
             /\ missed(p) # {} => first(p) \in Nat /\ first(p) > 0
  <2>1. missed(p) \in SUBSET Router
    OBVIOUS
  <2>2. Cardinality(missed(p)) \in Nat
    <3> HIDE DEF missed
    <3> QED
      BY <2>1, FS_Subset, FS_CardinalityType, Zenon DEF RoutersFit
  <2>3. ASSUME missed(p) # {}
        PROVE  first(p) \in Nat /\ first(p) > 0
    <3> DEFINE S == {t.bursts[r].start : r \in missed(p)}
    <3>1. S \in SUBSET Nat /\ S # {} /\ \A x \in S : x > 0
      <4>1. \A r \in missed(p) : t.bursts[r].start \in Nat /\ t.bursts[r].start > 0
        BY <1>0 DEF Trackers, Bursts
      <4> HIDE DEF missed
      <4> QED
        BY <4>1, <2>3
    <3> HIDE DEF S
    <3>2. Min(S) \in S
      BY <3>1, LeastOfNaturals, Zenon
    <3>3. first(p) = Min(S)
      BY DEF S
    <3> QED
      BY <3>1, <3>2, <3>3
  <2> QED
    BY <2>2, <2>3
<1>5. pr \in [RaPrefix -> States]
  <2> SUFFICES ASSUME NEW p \in RaPrefix PROVE pr[p] \in States
    BY Zenon
  <2>1. t.prefixes[p] \in States
    BY <1>0 DEF Trackers
  <2> HIDE DEF missed, first
  <2>2. pr[p] = IF t.prefixes[p].until > 0 /\ missed(p) # {}
                THEN [t.prefixes[p] EXCEPT
                        !.missCount = @ + Cardinality(missed(p)),
                        !.missSince = IF t.prefixes[p].missCount = 0 THEN first(p) ELSE @]
                ELSE t.prefixes[p]
    OBVIOUS
  <2> HIDE DEF pr
  <2>3. ASSUME NEW x \in States, NEW y \in Nat, NEW z \in Nat
        PROVE  [x EXCEPT !.missCount = @ + y, !.missSince = z] \in States
    <3>1. x.missCount + y \in Nat
      BY DEF States
    <3>2. \A k \in Nat : [x EXCEPT !.missCount = k, !.missSince = z] \in States
      BY Zenon DEF States
    <3> QED
      BY <3>1, <3>2
  <2>4. PICK z : z = IF t.prefixes[p].missCount = 0 THEN first(p) ELSE t.prefixes[p].missSince
    OBVIOUS
  <2>5. pr[p] = IF t.prefixes[p].until > 0 /\ missed(p) # {}
                THEN [t.prefixes[p] EXCEPT !.missCount = @ + Cardinality(missed(p)), !.missSince = z]
                ELSE t.prefixes[p]
    BY <2>2, <2>4, Zenon
  <2>6. missed(p) # {} => z \in Nat
    BY <1>4, <2>1, <2>4 DEF States
  <2>7. CASE t.prefixes[p].until > 0 /\ missed(p) # {}
    <3>1. Cardinality(missed(p)) \in Nat /\ z \in Nat
      BY <1>4, <2>6, <2>7, Zenon
    <3>2. [t.prefixes[p] EXCEPT !.missCount = @ + Cardinality(missed(p)), !.missSince = z] \in States
      BY <2>1, <2>3, <3>1, Zenon
    <3> QED
      BY <2>5, <2>7, <3>2, Zenon
  <2>8. CASE ~(t.prefixes[p].until > 0 /\ missed(p) # {})
    BY <2>1, <2>5, <2>8, Zenon
  <2> QED
    BY <2>7, <2>8
<1>6. c \in Trackers /\ c.holds = ho /\ c.prefixes = pr /\ c.bursts = bu
  <2> HIDE DEF ho, pr, bu
  <2> QED
    BY <1>0, <1>1, <1>2, <1>3, <1>5 DEF Trackers
<1>7. Kept(c, n, sd)
  <2> SUFFICES ASSUME NEW r \in Router, NEW p \in RaPrefix, sd[r][p] >= n
               PROVE  c.holds[r][p] = t.holds[r][p]
    BY DEF Kept, TrackOK
  <2>1. r \notin missed(p)
    BY DEF TrackOK, Carried
  <2>2. ho[r][p] = t.holds[r][p]
    <3> HIDE DEF missed
    <3> QED
      BY <2>1
  <2> HIDE DEF ho
  <2> QED
    BY <1>6, <2>2
<1>8. Dated(c)
  <2> SUFFICES ASSUME NEW p \in RaPrefix, pr[p].missCount > 0
               PROVE  pr[p].missSince > 0
    BY <1>6 DEF Dated
  <2> HIDE DEF missed, first
  <2>1. t.prefixes[p] \in States
    BY <1>0 DEF Trackers
  <2>2. CASE t.prefixes[p].until > 0 /\ missed(p) # {}
    BY <2>1, <2>2, <1>4 DEF States, TrackOK, Dated
  <2>3. CASE ~(t.prefixes[p].until > 0 /\ missed(p) # {})
    BY <2>1, <2>3 DEF States, TrackOK, Dated
  <2> QED
    BY <2>2, <2>3
<1>9. \A r \in Router : c.bursts[r] = IF r \in rs THEN NoBurst ELSE t.bursts[r]
  <2> HIDE DEF ho, pr
  <2> QED
    BY <1>6
<1>10. \A r \in Router, p \in RaPrefix : r \notin rs => c.holds[r][p] = t.holds[r][p]
  <2> TAKE r \in Router, p \in RaPrefix
  <2> HAVE r \notin rs
  <2>1. r \notin missed(p)
    OBVIOUS
  <2>2. ho[r][p] = t.holds[r][p]
    <3> HIDE DEF missed
    <3> QED
      BY <2>1
  <2> HIDE DEF ho, pr
  <2> QED
    BY <1>6, <2>2
<1> HIDE DEF ho, pr, bu
<1>11. InStep(c, sending, lastSent)
  BY <1>9 DEF InStep, TrackOK, NoBurst
<1>12. Carried(c, n, sd, sending)
  BY <1>9 DEF Carried, TrackOK, NoBurst
<1> QED
  BY <1>6, <1>7, <1>8, <1>9, <1>10, <1>11, <1>12, Zenon DEF TrackOK

\* What observe, abandoned and the timer do first keeps the invariant, also when
\* the clock has moved on by a tick.
LEMMA SettleKeeps ==
  ASSUME RoutersFit, SendTypes, NEW n \in Nat, NEW m \in Nat, m <= n, n > 0,
         \A r \in Router : sending[r].rest # {} => n - lastSent[r] <= BurstGap,
         NEW t, TrackOK(t, m, said, sending, lastSent)
  PROVE  TrackOK(SettleAt(t, n), n, said, sending, lastSent)
<1> PICK e : e = Expire(t, n)
  OBVIOUS
<1>1. TrackOK(e, n, said, sending, lastSent)
  BY ExpireKeeps, Zenon
<1> DEFINE rs == {r \in Router : e.bursts[r].start > 0 /\ n - e.bursts[r].last > BurstGap}
<1>2. rs \in SUBSET Router
  OBVIOUS
<1>3. \A r \in rs : e.bursts[r].start > 0 /\ sending[r].rest = {}
  BY <1>1, TrackerAssumption DEF TrackOK, InStep, SendTypes
<1>4. SettleAt(t, n) = CloseBursts(e, rs)
  BY DEF SettleAt, CloseDue
<1> HIDE DEF rs
<1>5. TrackOK(CloseBursts(e, rs), n, said, sending, lastSent)
  BY <1>1, <1>2, <1>3, CloseKeeps
<1> QED
  BY <1>4, <1>5, Zenon

\* No router is too many for the tracker.
LEMMA RoomForAll ==
  ASSUME RoutersFit, NEW t, NEW r \in Router, r \notin Tracked(t)
  PROVE  ~(Cardinality(Tracked(t)) >= RaMaxRouters)
<1>1. Tracked(t) \in SUBSET Router
  BY DEF Tracked
<1>2. /\ Cardinality(Tracked(t)) <= Cardinality(Router)
      /\ Cardinality(Router) = Cardinality(Tracked(t)) => Router = Tracked(t)
  BY <1>1, FS_Subset, Zenon DEF RoutersFit
<1>3. Cardinality(Tracked(t)) \in Nat /\ Cardinality(Router) \in Nat
  BY <1>1, FS_Subset, FS_CardinalityType, Zenon DEF RoutersFit
<1>4. Router # Tracked(t)
  OBVIOUS
<1> QED
  BY <1>2, <1>3, <1>4 DEF RoutersFit

\* What the tracker t makes of a message of router r: the tracker o.
Observed(t, o, r, u, ps, wd) ==
  /\ TrackOK(t, now, said, sending, lastSent)
  /\ o \in Trackers /\ Dated(o)
  /\ \A x \in Router \ {r} : o.bursts[x] = t.bursts[x] /\ o.holds[x] = t.holds[x]
  /\ o.bursts[r].start > 0 /\ o.bursts[r].last = now /\ o.bursts[r].unicast = u
  /\ ps \subseteq o.bursts[r].seen
  /\ t.bursts[r].start > 0 /\ sending[r].rest # {} => t.bursts[r].seen \subseteq o.bursts[r].seen
  /\ \A p \in ps : o.holds[r][p] = [NoHold EXCEPT !.until = now + Valid[p]]
  /\ \A p \in RaPrefix \ (ps \cup wd) : said[r][p] >= now =>
       /\ o.holds[r][p].until >= said[r][p]
       /\ o.holds[r][p].misses = 0 /\ o.holds[r][p].lastMiss = 0

\* What the tracker makes of a message of router r: holds, bursts and states.
LEMMA ObserveFields ==
  ASSUME RoutersFit, SendTypes, BackToBack,
         TrackOK(ra, now, said, sending, lastSent),
         NEW r \in Router, NEW u \in BOOLEAN, NEW ps \in SUBSET RaPrefix, ps # {},
         NEW wd \in SUBSET RaPrefix,
         sending[r].rest # {} => u = sending[r].unicast,
         NEW t, t = Settle(ra), NEW o, o = Observe(ra, r, u, ps, wd)
  PROVE  Observed(t, o, r, u, ps, wd)
<1>w. PICK w : w = Withdraw(t, r, wd)
  OBVIOUS
<1>c. PICK c : c = IF w.bursts[r].start > 0 /\ w.bursts[r].unicast # u THEN CloseBursts(w, {r}) ELSE w
  OBVIOUS
<1>b. PICK b : b = IF c.bursts[r].start = 0
                 THEN [start |-> now, last |-> now, unicast |-> u, seen |-> {}]
                 ELSE [c.bursts[r] EXCEPT !.last = now]
  OBVIOUS
<1>a. PICK a : a = [c EXCEPT !.bursts[r] = b]
  OBVIOUS
<1>q. PICK q : q = Advertise(a, r, ps)
  OBVIOUS
<1>0. now \in Nat /\ now > 0
  BY TrackerAssumption DEF SendTypes
<1>1. TrackOK(t, now, said, sending, lastSent)
  <2>1. \A x \in Router : sending[x].rest # {} => now - lastSent[x] <= BurstGap
    BY DEF BackToBack
  <2>2. now <= now
    BY <1>0
  <2> QED
    BY <1>0, <2>1, <2>2, SettleKeeps DEF Settle
<1>2. t \in Trackers
  BY <1>1 DEF TrackOK
<1> DEFINE sd == [said EXCEPT ![r] = [p \in RaPrefix |-> IF p \in wd THEN 0 ELSE said[r][p]]]
<1>3. /\ \A p \in RaPrefix : sd[r][p] = IF p \in wd THEN 0 ELSE said[r][p]
      /\ \A x \in Router \ {r} : sd[x] = said[x]
  BY DEF SendTypes
<1> HIDE DEF sd
<1>4. /\ w \in Trackers /\ w.bursts = t.bursts /\ Dated(w)
      /\ \A x \in Router \ {r} : w.holds[x] = t.holds[x]
      /\ \A p \in RaPrefix : w.holds[r][p] = IF p \in wd THEN NoHold ELSE t.holds[r][p]
  <2> DEFINE h == [p \in RaPrefix |-> IF p \in wd THEN NoHold ELSE t.holds[r][p]]
             pr == [p \in RaPrefix |->
                     IF p \in wd /\ t.prefixes[p].until > 0
                     THEN [t.prefixes[p] EXCEPT !.withdrawn = TRUE,
                                                !.until = Max({@, now + WithdrawKeep})]
                     ELSE t.prefixes[p]]
  <2>1. w = [t EXCEPT !.holds[r] = h, !.prefixes = pr]
    BY <1>w, Zenon DEF Withdraw
  <2>2. h \in [RaPrefix -> Holds]
    BY <1>2 DEF Trackers, Holds, NoHold
  <2>3. ASSUME NEW p \in RaPrefix
        PROVE  /\ pr[p] \in States
               /\ pr[p].missCount = t.prefixes[p].missCount
               /\ pr[p].missSince = t.prefixes[p].missSince
    <3>1. t.prefixes[p] \in States
      BY <1>2 DEF Trackers
    <3>2. PICK k \in Nat : k = Max({t.prefixes[p].until, now + WithdrawKeep})
      <4>1. PICK i : i = t.prefixes[p].until
        OBVIOUS
      <4>2. PICK j : j = now + WithdrawKeep
        OBVIOUS
      <4>3. i \in Nat /\ j \in Nat
        BY <3>1, <4>1, <4>2, <1>0, TrackerAssumption DEF States
      <4>4. Max({i, j}) \in Nat
        BY <4>3 DEF Max
      <4> QED
        BY <4>1, <4>2, <4>4
    <3>3. pr[p] = IF p \in wd /\ t.prefixes[p].until > 0
                  THEN [t.prefixes[p] EXCEPT !.withdrawn = TRUE, !.until = k]
                  ELSE t.prefixes[p]
      BY <3>2
    <3> HIDE DEF pr
    <3> QED
      BY <3>1, <3>3 DEF States
  <2>4. pr \in [RaPrefix -> States]
    BY <2>3, Zenon
  <2>5. w \in Trackers /\ w.bursts = t.bursts /\ w.prefixes = pr /\ w.holds = [t.holds EXCEPT ![r] = h]
    <3> HIDE DEF h, pr
    <3>f. PICK f : f = [t.holds EXCEPT ![r] = h]
      OBVIOUS
    <3>1. f \in [Router -> [RaPrefix -> Holds]]
      BY <1>2, <2>2, <3>f, TrackerParts
    <3>x. PICK x : x = [t EXCEPT !.holds = f]
      OBVIOUS
    <3>2. x \in Trackers /\ x.holds = f /\ x.bursts = t.bursts
      BY <1>2, <3>1, <3>x, WithHolds, Zenon
    <3>3. w = [x EXCEPT !.prefixes = pr]
      BY <2>1, <3>f, <3>x, Zenon
    <3>4. w \in Trackers /\ w.bursts = x.bursts /\ w.prefixes = pr /\ w.holds = x.holds
      BY <3>2, <3>3, <2>4, WithStates, Zenon
    <3> QED
      BY <3>2, <3>4, <3>f
  <2>6. Dated(w)
    <3> HIDE DEF h, pr
    <3> QED
      BY <1>1, <2>3, <2>5 DEF Dated, TrackOK
  <2>7. t.holds \in [Router -> [RaPrefix -> Holds]]
    BY <1>2, TrackerParts
  <2>8. /\ w.holds[r] = h
        /\ \A x \in Router \ {r} : w.holds[x] = t.holds[x]
    <3> HIDE DEF h, pr
    <3> QED
      BY <2>5, <2>7
  <2> QED
    <3> HIDE DEF pr
    <3> QED
      BY <2>5, <2>6, <2>8
<1>5. TrackOK(w, now, sd, sending, lastSent)
  <2>1. Kept(w, now, sd)
    BY <1>0, <1>1, <1>3, <1>4 DEF Kept, TrackOK
  <2>2. Carried(w, now, sd, sending)
    BY <1>0, <1>1, <1>3, <1>4 DEF Carried, TrackOK
  <2>3. InStep(w, sending, lastSent)
    BY <1>1, <1>4 DEF InStep, TrackOK
  <2> QED
    BY <1>4, <2>1, <2>2, <2>3 DEF TrackOK
<1>6. /\ TrackOK(c, now, sd, sending, lastSent)
      /\ \A x \in Router \ {r} : c.bursts[x] = t.bursts[x] /\ c.holds[x] = t.holds[x]
      /\ c.bursts[r] = t.bursts[r] \/ (sending[r].rest = {} /\ c.bursts[r] = NoBurst)
      /\ c.bursts[r].start > 0 => c.bursts[r].unicast = u
  <2>1. CASE w.bursts[r].start > 0 /\ w.bursts[r].unicast # u
    <3>1. sending[r].rest = {}
      BY <1>5, <2>1 DEF TrackOK, InStep
    <3>2. {r} \in SUBSET Router /\ \A x \in {r} : w.bursts[x].start > 0 /\ sending[x].rest = {}
      BY <2>1, <3>1
    <3>3. c = CloseBursts(w, {r})
      BY <1>c, <2>1, Zenon
    <3>4. /\ TrackOK(c, now, sd, sending, lastSent)
          /\ \A x \in Router : c.bursts[x] = IF x \in {r} THEN NoBurst ELSE w.bursts[x]
          /\ \A x \in Router, p \in RaPrefix : x \notin {r} => c.holds[x][p] = w.holds[x][p]
      <4>0. PICK rs : rs = {r}
        OBVIOUS
      <4>1. rs \in SUBSET Router /\ \A x \in rs : w.bursts[x].start > 0 /\ sending[x].rest = {}
        BY <3>2, <4>0
      <4>2. c = CloseBursts(w, rs)
        BY <3>3, <4>0
      <4>3. /\ TrackOK(c, now, sd, sending, lastSent)
            /\ \A x \in Router : c.bursts[x] = IF x \in rs THEN NoBurst ELSE w.bursts[x]
            /\ \A x \in Router, p \in RaPrefix : x \notin rs => c.holds[x][p] = w.holds[x][p]
        BY <1>0, <1>5, <4>1, <4>2, CloseKeeps
      <4> QED
        BY <4>0, <4>3
    <3>5. \A x \in Router \ {r} : c.holds[x] = w.holds[x]
      <4> TAKE x \in Router \ {r}
      <4>1. c.holds[x] \in [RaPrefix -> Holds] /\ w.holds[x] \in [RaPrefix -> Holds]
        BY <3>4, <1>4, TrackerParts DEF TrackOK
      <4>2. \A p \in RaPrefix : c.holds[x][p] = w.holds[x][p]
        BY <3>4
      <4> QED
        BY <4>1, <4>2
    <3>6. c.bursts[r] = NoBurst /\ ~(NoBurst.start > 0)
      BY <3>4 DEF NoBurst
    <3>7. \A x \in Router \ {r} : c.bursts[x] = t.bursts[x] /\ c.holds[x] = t.holds[x]
      BY <1>4, <3>4, <3>5
    <3> QED
      BY <3>1, <3>4, <3>6, <3>7
  <2>2. CASE ~(w.bursts[r].start > 0 /\ w.bursts[r].unicast # u)
    <3>1. c = w
      BY <1>c, <2>2, Zenon
    <3>2. w.bursts[r] \in Bursts
      BY <1>4, TrackerParts
    <3> QED
      BY <1>4, <1>5, <2>2, <3>1, <3>2
  <2> QED
    BY <2>1, <2>2
<1>7. c \in Trackers
  BY <1>6 DEF TrackOK
<1>8. b \in Bursts /\ b.start > 0 /\ b.last = now /\ b.unicast = u
      /\ (c.bursts[r].start > 0 => b.seen = c.bursts[r].seen)
  <2>1. c.bursts[r] \in Bursts
    BY <1>7, TrackerParts
  <2>2. CASE c.bursts[r].start = 0
    BY <1>0, <1>b, <2>2 DEF Bursts
  <2>3. CASE c.bursts[r].start # 0
    <3>1. c.bursts[r].start > 0 /\ c.bursts[r].unicast = u
      BY <1>6, <2>1, <2>3 DEF Bursts
    <3>k. PICK k : k = c.bursts[r]
      OBVIOUS
    <3>2. b = [k EXCEPT !.last = now]
      BY <1>b, <2>3, <3>k
    <3>3. [k EXCEPT !.last = now] \in Bursts
      BY <1>0, <2>1, <3>k DEF Bursts
    <3> QED
      BY <3>1, <3>2, <3>3, <3>k, <2>1 DEF Bursts
  <2> QED
    BY <2>2, <2>3
<1>9. a \in Trackers /\ a.holds = c.holds /\ a.prefixes = c.prefixes
      /\ a.bursts = [c.bursts EXCEPT ![r] = b]
  <2>f. PICK f : f = [c.bursts EXCEPT ![r] = b]
    OBVIOUS
  <2>1. f \in [Router -> Bursts]
    BY <1>7, <1>8, <2>f, TrackerParts
  <2>2. a = [c EXCEPT !.bursts = f]
    BY <1>a, <2>f, Zenon
  <2> QED
    BY <1>7, <2>1, <2>2, <2>f, WithBursts, Zenon
<1>10. /\ q \in Trackers /\ Dated(q)
       /\ q.bursts = [a.bursts EXCEPT ![r] = [b EXCEPT !.seen = @ \cup ps]]
       /\ q.holds = [a.holds EXCEPT ![r] = [p \in RaPrefix |->
            IF p \in ps THEN [NoHold EXCEPT !.until = now + Valid[p]] ELSE a.holds[r][p]]]
  <2> DEFINE h == [p \in RaPrefix |->
                IF p \in ps THEN [NoHold EXCEPT !.until = now + Valid[p]] ELSE a.holds[r][p]]
             pr == [p \in RaPrefix |->
                IF p \in ps
                THEN [NoState EXCEPT !.until = Max({a.prefixes[p].until, now + Valid[p]})]
                ELSE a.prefixes[p]]
             bu == [b EXCEPT !.seen = @ \cup ps]
  <2>1. q = [a EXCEPT !.bursts[r].seen = @ \cup ps, !.prefixes = pr, !.holds[r] = h]
    BY <1>q, Zenon DEF Advertise
  <2>2. h \in [RaPrefix -> Holds]
    <3> SUFFICES ASSUME NEW p \in RaPrefix PROVE h[p] \in Holds
      BY Zenon
    <3>1. a.holds[r][p] \in Holds
      BY <1>9, TrackerParts, Zenon
    <3>2. now + Valid[p] \in Nat
      BY <1>0, TrackerAssumption
    <3> QED
      BY <3>1, <3>2 DEF Holds, NoHold
  <2>3. ASSUME NEW p \in RaPrefix
        PROVE  /\ pr[p] \in States
               /\ pr[p].missCount > 0 => pr[p].missSince > 0
    <3>1. a.prefixes[p] \in States
      BY <1>9, TrackerParts, Zenon
    <3>2. PICK k \in Nat : k = Max({a.prefixes[p].until, now + Valid[p]})
      <4>1. PICK i : i = a.prefixes[p].until
        OBVIOUS
      <4>2. PICK j : j = now + Valid[p]
        OBVIOUS
      <4>3. i \in Nat
        BY <3>1, <4>1 DEF States
      <4>4. j \in Nat
        BY <4>2, <1>0, TrackerAssumption
      <4>5. Max({i, j}) \in Nat
        BY <4>3, <4>4 DEF Max
      <4> QED
        BY <4>1, <4>2, <4>5
    <3>3. pr[p] = IF p \in ps THEN [NoState EXCEPT !.until = k] ELSE a.prefixes[p]
      BY <3>2, Zenon
    <3>4. a.prefixes[p].missCount > 0 => a.prefixes[p].missSince > 0
      BY <1>6, <1>9 DEF Dated, TrackOK
    <3> HIDE DEF pr
    <3>5. CASE p \in ps
      <4>1. pr[p] = [withdrawn |-> FALSE, missCount |-> 0, missSince |-> 0, rsAt |-> 0, until |-> k]
        BY <3>3, <3>5 DEF NoState
      <4> QED
        BY <4>1 DEF States
    <3>6. CASE p \notin ps
      BY <3>1, <3>3, <3>4, <3>6
    <3> QED
      BY <3>5, <3>6
  <2>4. pr \in [RaPrefix -> States]
    BY <2>3, Zenon
  <2>5. bu \in Bursts
    BY <1>8 DEF Bursts
  <2>6. a.bursts[r] = b /\ a.bursts \in [Router -> Bursts] /\ a.holds \in [Router -> [RaPrefix -> Holds]]
    <3>1. a.bursts \in [Router -> Bursts] /\ c.bursts \in [Router -> Bursts]
          /\ a.holds \in [Router -> [RaPrefix -> Holds]]
      BY <1>9, <1>7, TrackerParts, Zenon
    <3> QED
      BY <1>9, <3>1
  <2>7. q \in Trackers /\ q.prefixes = pr /\ q.bursts = [a.bursts EXCEPT ![r] = bu] /\ q.holds = [a.holds EXCEPT ![r] = h]
    <3> HIDE DEF h, pr
    <3>f. PICK f : f = [a.bursts EXCEPT ![r] = bu]
      OBVIOUS
    <3>g. PICK g : g = [a.holds EXCEPT ![r] = h]
      OBVIOUS
    <3>1. f \in [Router -> Bursts] /\ g \in [Router -> [RaPrefix -> Holds]]
      <4> HIDE DEF bu
      <4> QED
        BY <2>2, <2>5, <2>6, <3>f, <3>g
    <3>x. PICK x : x = [a EXCEPT !.bursts = f]
      OBVIOUS
    <3>2. x \in Trackers /\ x.bursts = f /\ x.holds = a.holds
      BY <1>9, <3>1, <3>x, WithBursts, Zenon
    <3>y. PICK y : y = [x EXCEPT !.prefixes = pr]
      OBVIOUS
    <3>3. y \in Trackers /\ y.prefixes = pr /\ y.bursts = f /\ y.holds = a.holds
      BY <2>4, <3>2, <3>y, WithStates, Zenon
    <3>4. f = [a.bursts EXCEPT ![r].seen = @ \cup ps]
      BY <2>6, <3>f
    <3>5. q = [y EXCEPT !.holds = g]
      <4>1. q = [a EXCEPT !.bursts = [a.bursts EXCEPT ![r].seen = @ \cup ps], !.prefixes = pr, !.holds = g]
        BY <2>1, <3>g, Zenon
      <4> QED
        BY <3>4, <3>x, <3>y, <4>1, Zenon
    <3> HIDE DEF bu
    <3>6. q \in Trackers /\ q.prefixes = pr /\ q.bursts = f /\ q.holds = g
      BY <3>1, <3>3, <3>5, WithHolds, Zenon
    <3> QED
      BY <3>6, <3>f, <3>g
  <2>9. Dated(q)
    <3> HIDE DEF h, pr, bu
    <3> QED
      BY <2>3, <2>7 DEF Dated
  <2> QED
    BY <2>7, <2>9, Zenon
<1>11. q = o
  <2>1. ~Ignored(w, r, ps)
    BY RoomForAll DEF Ignored
  <2>2. OpenBurst(w, r, u) = a
    BY <1>c, <1>b, <1>a, Zenon DEF OpenBurst
  <2> QED
    BY <1>w, <1>q, <2>1, <2>2, Zenon DEF Observe
<1>12. /\ \A x \in Router \ {r} : q.bursts[x] = t.bursts[x] /\ q.holds[x] = t.holds[x]
       /\ q.bursts[r] = [b EXCEPT !.seen = @ \cup ps]
       /\ \A p \in RaPrefix : q.holds[r][p] =
             IF p \in ps THEN [NoHold EXCEPT !.until = now + Valid[p]] ELSE c.holds[r][p]
  <2>1. /\ a.holds \in [Router -> [RaPrefix -> Holds]] /\ a.bursts \in [Router -> Bursts]
        /\ c.holds \in [Router -> [RaPrefix -> Holds]] /\ c.bursts \in [Router -> Bursts]
    BY <1>7, <1>9, TrackerParts, Zenon
  <2>2. \A x \in Router \ {r} : q.bursts[x] = a.bursts[x] /\ a.bursts[x] = c.bursts[x] /\ q.holds[x] = a.holds[x]
    BY <1>9, <1>10, <2>1
  <2>3. q.bursts[r] = [b EXCEPT !.seen = @ \cup ps]
    BY <1>10, <2>1
  <2>4. q.holds[r] = [p \in RaPrefix |->
            IF p \in ps THEN [NoHold EXCEPT !.until = now + Valid[p]] ELSE a.holds[r][p]]
    BY <1>10, <2>1, Zenon
  <2> QED
    BY <1>6, <1>9, <2>2, <2>3, <2>4
<1>13. /\ q.bursts[r].start > 0 /\ q.bursts[r].last = now /\ q.bursts[r].unicast = u
       /\ q.bursts[r].seen = b.seen \cup ps
  <2>1. [b EXCEPT !.seen = @ \cup ps].start = b.start /\ [b EXCEPT !.seen = @ \cup ps].last = b.last
        /\ [b EXCEPT !.seen = @ \cup ps].unicast = b.unicast
        /\ [b EXCEPT !.seen = @ \cup ps].seen = b.seen \cup ps
    BY <1>8 DEF Bursts
  <2> QED
    BY <1>12, <1>8, <2>1
<1>14. t.bursts[r].start > 0 /\ sending[r].rest # {} => t.bursts[r].seen \subseteq q.bursts[r].seen
  BY <1>6, <1>8, <1>13
<1>15. \A p \in RaPrefix \ (ps \cup wd) : said[r][p] >= now =>
              /\ q.holds[r][p].until >= said[r][p]
              /\ q.holds[r][p].misses = 0 /\ q.holds[r][p].lastMiss = 0
  <2>1. Kept(c, now, sd)
    BY <1>6 DEF TrackOK
  <2> TAKE p \in RaPrefix \ (ps \cup wd)
  <2> HAVE said[r][p] >= now
  <2>2. sd[r][p] = said[r][p] /\ q.holds[r][p] = c.holds[r][p]
    BY <1>3, <1>12
  <2> QED
    BY <2>1, <2>2 DEF Kept
<1> QED
  BY <1>1, <1>10, <1>11, <1>12, <1>13, <1>14, <1>15, Zenon DEF Observed

\* A solicitation dates the states of the prefixes, nothing else.
LEMMA SolicitedKeeps ==
  ASSUME NEW n, NEW sd, NEW sn, NEW ls, NEW o, TrackOK(o, n, sd, sn, ls), now \in Nat
  PROVE  TrackOK(Solicited(o), n, sd, sn, ls)
<1>0. o \in Trackers
  BY DEF TrackOK
<1>f. PICK f : f = [p \in RaPrefix |->
               IF o.prefixes[p].until > 0 /\ o.prefixes[p].rsAt = 0
               THEN [o.prefixes[p] EXCEPT !.rsAt = now] ELSE o.prefixes[p]]
  OBVIOUS
<1>1. ASSUME NEW p \in RaPrefix
      PROVE  /\ f[p] \in States
             /\ f[p].missCount = o.prefixes[p].missCount /\ f[p].missSince = o.prefixes[p].missSince
  <2>1. o.prefixes[p] \in States
    BY <1>0, TrackerParts, Zenon
  <2>2. f[p] = o.prefixes[p] \/ f[p] = [o.prefixes[p] EXCEPT !.rsAt = now]
    BY <1>f, Zenon
  <2> QED
    BY <2>1, <2>2 DEF States
<1>2. f \in [RaPrefix -> States]
  BY <1>1, <1>f
<1>s. PICK s : s = Solicited(o)
  OBVIOUS
<1>3. s \in Trackers /\ s.holds = o.holds /\ s.bursts = o.bursts /\ s.prefixes = f
  <2>x. PICK x : x = [o EXCEPT !.prefixes = f]
    OBVIOUS
  <2>1. x \in Trackers /\ x.prefixes = f /\ x.bursts = o.bursts /\ x.holds = o.holds
    BY <1>0, <1>2, <2>x, WithStates, Zenon
  <2>2. s = [x EXCEPT !.lastRS = now]
    <3>1. s = [o EXCEPT !.lastRS = now, !.prefixes = f]
      BY <1>s, <1>f, Zenon DEF Solicited
    <3> QED
      BY <3>1, <2>x, <1>0 DEF Trackers
  <2> QED
    BY <2>1, <2>2 DEF Trackers
<1>4. Dated(s)
  BY <1>1, <1>3 DEF TrackOK, Dated
<1> QED
  BY <1>3, <1>4, <1>s DEF TrackOK, Kept, InStep, Carried

\* What a message of router r makes of the routers' words.
LEMMA MessageSays ==
  ASSUME TrackerInv, NEW r \in Router, NEW u \in BOOLEAN, NEW ps \in SUBSET RaPrefix,
         Sends(r, u, ps), UNCHANGED <<raCur, now, adv>>
  PROVE  /\ SendTypes' /\ BackToBack'
         /\ ps # {} /\ (sending[r].rest # {} => u = sending[r].unicast)
         /\ \A x \in Router \ {r} :
              said'[x] = said[x] /\ sending'[x] = sending[x] /\ lastSent'[x] = lastSent[x]
         /\ lastSent'[r] = now /\ (sending'[r].rest # {} => sending'[r].unicast = u)
         /\ \A p \in ps : said'[r][p] = now + Valid[p]
         /\ \A p \in RaPrefix \ ps : said'[r][p] >= now =>
              /\ said'[r][p] = said[r][p] /\ p \notin gone[r] \ adv[r]
              /\ \/ sending'[r].rest # {} /\ p \notin sending'[r].whole \ sending'[r].rest
                 \/ sending[r].rest # {} /\ p \in sending[r].whole \ sending[r].rest
<1> DEFINE fresh == sending[r].rest = {}
           whole == IF fresh THEN adv[r] ELSE sending[r].whole
           rest == (IF fresh THEN adv[r] ELSE sending[r].rest) \ ps
<1>0. /\ now \in 1..MaxNow /\ raCur \in RaPrefix /\ MaxNow \in Nat
      /\ adv \in [Router -> SUBSET RaPrefix] /\ gone \in [Router -> SUBSET RaPrefix]
      /\ sending \in [Router -> [rest : SUBSET RaPrefix, whole : SUBSET RaPrefix, unicast : BOOLEAN]]
      /\ lastSent \in [Router -> 0..MaxNow]
      /\ said \in [Router -> [RaPrefix -> Nat]]
  BY TrackerAssumption DEF TrackerInv, SendTypes
<1>1. /\ ps # {} /\ (sending[r].rest # {} => u = sending[r].unicast)
      /\ sending' = [sending EXCEPT ![r] =
            IF rest = {} THEN Idle ELSE [rest |-> rest, whole |-> whole, unicast |-> u]]
      /\ lastSent' = [lastSent EXCEPT ![r] = now]
      /\ gone' = [gone EXCEPT ![r] = {}]
      /\ said' = [said EXCEPT ![r] = [p \in RaPrefix |->
            IF p \in ps THEN now + Valid[p]
            ELSE IF p \notin whole /\ (p \in gone[r] \/ rest = {}) THEN 0
            ELSE said[r][p]]]
  BY Zenon DEF Sends
<1>2. rest \in SUBSET RaPrefix /\ whole \in SUBSET RaPrefix /\ rest \subseteq whole
  BY <1>0 DEF TrackerInv, BackToBack
<1>3. sending'[r] = IF rest = {} THEN Idle ELSE [rest |-> rest, whole |-> whole, unicast |-> u]
  <2> HIDE DEF rest, whole
  <2> QED
    BY <1>0, <1>1
<1>4. \A x \in Router \ {r} :
         said'[x] = said[x] /\ sending'[x] = sending[x] /\ lastSent'[x] = lastSent[x] /\ gone'[x] = gone[x]
  <2> HIDE DEF rest, whole
  <2> QED
    BY <1>0, <1>1
<1>5. sending' \in [Router -> [rest : SUBSET RaPrefix, whole : SUBSET RaPrefix, unicast : BOOLEAN]]
  <2> HIDE DEF rest, whole
  <2> QED
    BY <1>0, <1>1, <1>2 DEF Idle
<1>g. PICK g : g = [p \in RaPrefix |->
            IF p \in ps THEN now + Valid[p]
            ELSE IF p \notin whole /\ (p \in gone[r] \/ rest = {}) THEN 0
            ELSE said[r][p]]
  OBVIOUS
<1>h. said' = [said EXCEPT ![r] = g]
  BY <1>1, <1>g, Zenon
<1>6. \A p \in RaPrefix : said'[r][p] =
         IF p \in ps THEN now + Valid[p]
         ELSE IF p \notin whole /\ (p \in gone[r] \/ rest = {}) THEN 0
         ELSE said[r][p]
  <2> HIDE DEF rest, whole
  <2>1. said'[r] = g
    BY <1>0, <1>h
  <2> QED
    BY <1>g, <2>1, Zenon
<1>7. said' \in [Router -> [RaPrefix -> Nat]]
  <2> HIDE DEF rest, whole
  <2>1. ASSUME NEW p \in RaPrefix PROVE g[p] \in Nat
    <3>1. now + Valid[p] \in Nat /\ said[r][p] \in Nat /\ 0 \in Nat
      BY <1>0, TrackerAssumption
    <3>2. g[p] = said'[r][p]
      BY <1>0, <1>h
    <3> QED
      BY <1>6, <3>1, <3>2, Zenon
  <2>2. g \in [RaPrefix -> Nat]
    BY <2>1, <1>g
  <2> QED
    BY <2>2, <1>h, <1>0
<1>8. lastSent' \in [Router -> 0..MaxNow] /\ lastSent'[r] = now /\ gone' \in [Router -> SUBSET RaPrefix] /\ gone'[r] = {}
  <2>1. now \in 0..MaxNow
    BY <1>0
  <2>2. lastSent' = [lastSent EXCEPT ![r] = now] /\ gone' = [gone EXCEPT ![r] = {}]
    BY <1>1
  <2> HIDE DEF rest, whole, fresh
  <2> QED
    BY <1>0, <2>1, <2>2
<1>9. SendTypes'
  <2> HIDE DEF rest, whole, fresh
  <2> QED
    BY <1>0, <1>5, <1>7, <1>8 DEF SendTypes
<1>10. BackToBack'
  <2> SUFFICES ASSUME NEW x \in Router, sending'[x].rest # {}
               PROVE  /\ now' - lastSent'[x] <= BurstGap /\ gone'[x] = {}
                      /\ sending'[x].rest \subseteq sending'[x].whole
    BY DEF BackToBack
  <2> HIDE DEF rest, whole
  <2>1. CASE x = r
    <3>1. rest # {}
      BY <1>3, <2>1 DEF Idle
    <3> QED
      BY <1>0, <1>2, <1>3, <1>8, <2>1, <3>1, TrackerAssumption
  <2>2. CASE x # r
    BY <1>4, <2>2 DEF TrackerInv, BackToBack
  <2> QED
    BY <2>1, <2>2
<1>11. sending'[r].rest # {} => sending'[r].unicast = u
  <2> HIDE DEF rest, whole
  <2>1. CASE rest = {}
    BY <1>3, <2>1 DEF Idle
  <2>2. CASE rest # {}
    <3>1. sending'[r] = [rest |-> rest, whole |-> whole, unicast |-> u]
      BY <1>3, <2>2
    <3> QED
      BY <3>1
  <2> QED
    BY <2>1, <2>2
<1>12. ASSUME NEW p \in RaPrefix \ ps, said'[r][p] >= now
       PROVE  /\ said'[r][p] = said[r][p] /\ p \notin gone[r] \ adv[r]
              /\ \/ sending'[r].rest # {} /\ p \notin sending'[r].whole \ sending'[r].rest
                 \/ sending[r].rest # {} /\ p \in sending[r].whole \ sending[r].rest
  <2>1. now > 0 /\ now \in Nat
    BY <1>0
  <2>2. said'[r][p] = said[r][p] /\ (p \in whole \/ (p \notin gone[r] /\ rest # {}))
    <3> HIDE DEF rest, whole
    <3> QED
      BY <1>6, <1>12, <2>1
  <2>3. ~fresh => gone[r] = {}
    BY DEF TrackerInv, BackToBack
  <2>4. p \notin gone[r] \ adv[r]
    BY <2>2, <2>3
  <2>5. rest # {} => sending'[r].rest = rest /\ sending'[r].whole = whole
    <3> HIDE DEF rest, whole
    <3> QED
      BY <1>3
  <2>6. CASE rest # {} /\ p \notin whole \ rest
    BY <2>2, <2>4, <2>5, <2>6
  <2>7. CASE ~(rest # {} /\ p \notin whole \ rest)
    <3>1. p \in whole \ rest
      BY <2>2, <2>7
    <3> QED
      BY <2>2, <2>4, <3>1
  <2> QED
    BY <2>6, <2>7
<1>13. \A p \in ps : said'[r][p] = now + Valid[p]
  <2> HIDE DEF rest, whole
  <2> QED
    BY <1>6
<1> HIDE DEF rest, whole, fresh
<1> QED
  BY <1>1, <1>4, <1>8, <1>9, <1>10, <1>11, <1>12, <1>13, Zenon

\* A message of router r, and the solicitation it may lead to, keep the
\* invariant.
LEMMA MessageKeeps ==
  ASSUME RoutersFit, TrackerInv,
         NEW r \in Router, NEW u \in BOOLEAN, NEW ps \in SUBSET RaPrefix, HandleRA(r, u, ps)
  PROVE  TrackerInv'
<1>w. PICK wd : wd = gone[r] \ adv[r]
  OBVIOUS
<1>o. PICK o : o = Observe(ra, r, u, ps, wd)
  OBVIOUS
<1>t. PICK t : t = Settle(ra)
  OBVIOUS
<1>1. /\ Sends(r, u, ps) /\ UNCHANGED <<raCur, now, adv>>
      /\ ra' = o \/ ra' = Solicited(o)
  BY <1>w, <1>o, Zenon DEF HandleRA
<1>2. /\ SendTypes' /\ BackToBack'
      /\ ps # {} /\ (sending[r].rest # {} => u = sending[r].unicast)
      /\ \A x \in Router \ {r} :
           said'[x] = said[x] /\ sending'[x] = sending[x] /\ lastSent'[x] = lastSent[x]
      /\ lastSent'[r] = now /\ (sending'[r].rest # {} => sending'[r].unicast = u)
      /\ \A p \in ps : said'[r][p] = now + Valid[p]
      /\ \A p \in RaPrefix \ ps : said'[r][p] >= now =>
           /\ said'[r][p] = said[r][p] /\ p \notin gone[r] \ adv[r]
           /\ \/ sending'[r].rest # {} /\ p \notin sending'[r].whole \ sending'[r].rest
              \/ sending[r].rest # {} /\ p \in sending[r].whole \ sending[r].rest
  BY <1>1, MessageSays
<1>3. SendTypes /\ BackToBack /\ TrackOK(ra, now, said, sending, lastSent)
  BY DEF TrackerInv
<1>4. wd \in SUBSET RaPrefix
  BY <1>w, <1>3 DEF SendTypes
<1>5. /\ TrackOK(t, now, said, sending, lastSent)
      /\ o \in Trackers /\ Dated(o)
      /\ \A x \in Router \ {r} : o.bursts[x] = t.bursts[x] /\ o.holds[x] = t.holds[x]
      /\ o.bursts[r].start > 0 /\ o.bursts[r].last = now /\ o.bursts[r].unicast = u
      /\ ps \subseteq o.bursts[r].seen
      /\ t.bursts[r].start > 0 /\ sending[r].rest # {} => t.bursts[r].seen \subseteq o.bursts[r].seen
      /\ \A p \in ps : o.holds[r][p] = [NoHold EXCEPT !.until = now + Valid[p]]
      /\ \A p \in RaPrefix \ (ps \cup wd) : said[r][p] >= now =>
           /\ o.holds[r][p].until >= said[r][p]
           /\ o.holds[r][p].misses = 0 /\ o.holds[r][p].lastMiss = 0
  <2>1. ps # {} /\ (sending[r].rest # {} => u = sending[r].unicast)
    BY <1>2, Zenon
  <2>2. Observed(t, o, r, u, ps, wd)
    BY <1>o, <1>t, <1>3, <1>4, <2>1, ObserveFields, Zenon
  <2> QED
    BY <2>2, Zenon DEF Observed
<1>6. Kept(o, now, said')
  <2> SUFFICES ASSUME NEW x \in Router, NEW p \in RaPrefix, said'[x][p] >= now
               PROVE  /\ o.holds[x][p].until >= said'[x][p]
                      /\ o.holds[x][p].misses = 0 /\ o.holds[x][p].lastMiss = 0
    BY DEF Kept
  <2>1. CASE x # r
    BY <1>2, <1>5, <2>1 DEF TrackOK, Kept
  <2>2. CASE x = r /\ p \in ps
    <3>1. now + Valid[p] \in Nat
      BY <1>3, TrackerAssumption DEF SendTypes
    <3> QED
      <4>1. o.holds[x][p] = [misses |-> 0, lastMiss |-> 0, until |-> now + Valid[p]]
        BY <1>5, <2>2 DEF NoHold
      <4> QED
        BY <1>2, <2>2, <3>1, <4>1
  <2>3. CASE x = r /\ p \notin ps
    BY <1>w, <1>2, <1>5, <2>3
  <2> QED
    BY <2>1, <2>2, <2>3
<1>7. InStep(o, sending', lastSent')
  <2> SUFFICES ASSUME NEW x \in Router, o.bursts[x].start > 0
               PROVE  /\ o.bursts[x].last = lastSent'[x]
                      /\ sending'[x].rest # {} => o.bursts[x].unicast = sending'[x].unicast
    BY DEF InStep
  <2>1. CASE x # r
    BY <1>2, <1>5, <2>1 DEF TrackOK, InStep
  <2>2. CASE x = r
    BY <1>2, <1>5, <2>2
  <2> QED
    BY <2>1, <2>2
<1>8. Carried(o, now, said', sending')
  <2> SUFFICES ASSUME NEW x \in Router, NEW p \in RaPrefix, said'[x][p] >= now
               PROVE  IF o.bursts[x].start > 0
                      THEN \/ p \in o.bursts[x].seen
                           \/ sending'[x].rest # {} /\ p \notin sending'[x].whole \ sending'[x].rest
                      ELSE sending'[x].rest = {}
    BY Zenon DEF Carried
  <2>1. CASE x # r
    <3>1. /\ said'[x] = said[x] /\ sending'[x] = sending[x] /\ o.bursts[x] = t.bursts[x]
          /\ Carried(t, now, said, sending)
      BY <1>2, <1>5, <2>1 DEF TrackOK
    <3> QED
      BY <3>1 DEF Carried
  <2>2. CASE x = r /\ p \in ps
    BY <1>5, <2>2
  <2>3. CASE x = r /\ p \notin ps
    <3>1. Carried(t, now, said, sending)
      BY <1>5 DEF TrackOK
    <3>2. /\ said[r][p] >= now
          /\ \/ sending'[r].rest # {} /\ p \notin sending'[r].whole \ sending'[r].rest
             \/ sending[r].rest # {} /\ p \in sending[r].whole \ sending[r].rest
      BY <1>2, <2>3
    <3>3. sending[r].rest # {} /\ p \in sending[r].whole \ sending[r].rest
            => t.bursts[r].start > 0 /\ p \in t.bursts[r].seen
      BY <3>1, <3>2 DEF Carried
    <3> QED
      BY <1>5, <2>3, <3>2, <3>3
  <2> QED
    BY <2>1, <2>2, <2>3
<1>9. TrackOK(o, now, said', sending', lastSent')
  BY <1>5, <1>6, <1>7, <1>8 DEF TrackOK
<1>10. TrackOK(ra', now, said', sending', lastSent')
  <2>1. now \in Nat
    BY <1>3, TrackerAssumption DEF SendTypes
  <2>2. TrackOK(Solicited(o), now, said', sending', lastSent')
    BY <1>9, <2>1, SolicitedKeeps
  <2> QED
    BY <1>1, <1>9, <2>2
<1>11. TrackOK(ra', now', said', sending', lastSent')
  BY <1>1, <1>10
<1> QED
  BY <1>2, <1>11 DEF TrackerInv

\* The initial states of the tracker satisfy the invariant.
LEMMA TrackerInitial == RaInit => TrackerInv
<1> SUFFICES ASSUME RaInit PROVE TrackerInv
  OBVIOUS
<1>1. SendTypes
  BY TrackerAssumption DEF RaInit, SendTypes, Idle
<1>2. BackToBack
  BY DEF RaInit, BackToBack, Idle
<1>3. NewTracker \in Trackers
  BY DEF NewTracker, Trackers, Holds, States, Bursts, NoHold, NoState, NoBurst
<1>4. TrackOK(ra, now, said, sending, lastSent)
  BY <1>3 DEF RaInit, TrackOK, Kept, Dated, InStep, Carried, NewTracker, NoState, NoBurst
<1> QED
  BY <1>1, <1>2, <1>4 DEF TrackerInv

\* Every step of tracker, source, clock and routers keeps it.
LEMMA TrackerStep == RoutersFit /\ TrackerInv /\ [RaNext]_raVars => TrackerInv'
<1> SUFFICES ASSUME RoutersFit, TrackerInv, [RaNext]_raVars PROVE TrackerInv'
  OBVIOUS
<1>1. ASSUME NEW r \in Router, NEW u \in BOOLEAN, NEW ps \in SUBSET RaPrefix, HandleRA(r, u, ps)
      PROVE  TrackerInv'
  BY <1>1, MessageKeeps
<1>2. ASSUME ListenerFails
      PROVE  TrackerInv'
  <2>1. /\ ra' = NewTracker /\ said' = [r \in Router |-> [p \in RaPrefix |-> 0]]
        /\ UNCHANGED <<raCur, now, adv, gone, sending, lastSent>>
    BY <1>2 DEF ListenerFails
  <2>2. SendTypes' /\ BackToBack'
    BY <2>1 DEF TrackerInv, SendTypes, BackToBack
  <2>3. NewTracker \in Trackers
    BY DEF NewTracker, Trackers, Holds, States, Bursts, NoHold, NoState, NoBurst
  <2>4. now' \in Nat /\ now' > 0
    BY <2>2, TrackerAssumption DEF SendTypes
  <2>5. TrackOK(ra', now', said', sending', lastSent')
    BY <2>1, <2>3, <2>4 DEF TrackOK, Kept, Dated, InStep, Carried, NewTracker, NoState, NoBurst
  <2> QED
    BY <2>2, <2>5 DEF TrackerInv
<1>3. ASSUME RaTick
      PROVE  TrackerInv'
  <2>1. /\ now < MaxNow /\ now' = now + 1 /\ ra' = SettleAt(ra, now')
        /\ \A r \in Router : sending[r].rest # {} => now - lastSent[r] < BurstGap
        /\ UNCHANGED <<raCur, adv, gone, sending, lastSent, said>>
    BY <1>3 DEF RaTick
  <2>2. now \in Nat /\ now' \in Nat /\ now <= now' /\ now' > 0 /\ now' \in 1..MaxNow
    BY <2>1, TrackerAssumption DEF TrackerInv, SendTypes
  <2>3. \A r \in Router : sending[r].rest # {} => now' - lastSent[r] <= BurstGap
    BY <2>1, <2>2, TrackerAssumption DEF TrackerInv, SendTypes
  <2>4. SendTypes /\ TrackOK(ra, now, said, sending, lastSent)
    BY DEF TrackerInv
  <2>n. PICK n : n = now'
    OBVIOUS
  <2>5. TrackOK(SettleAt(ra, n), n, said, sending, lastSent)
    BY <2>2, <2>3, <2>4, <2>n, SettleKeeps
  <2>6. TrackOK(ra', now', said', sending', lastSent')
    BY <2>1, <2>5, <2>n
  <2>7. SendTypes'
    BY <2>1, <2>2, <2>4 DEF SendTypes
  <2>8. BackToBack'
    BY <2>1, <2>3 DEF BackToBack, TrackerInv
  <2> QED
    BY <2>6, <2>7, <2>8 DEF TrackerInv
<1>4. ASSUME NEW p \in RaPrefix, Reselect(p)
      PROVE  TrackerInv'
  BY <1>4 DEF Reselect, TrackerInv, SendTypes, BackToBack
<1>5. ASSUME NEW r \in Router, NEW ps \in SUBSET RaPrefix, NEW w \in BOOLEAN, Renumbers(r, ps, w)
      PROVE  TrackerInv'
  <2>1. UNCHANGED <<ra, now, said, sending, lastSent>>
    BY <1>5 DEF Renumbers
  <2>2. SendTypes'
    BY <1>5 DEF Renumbers, TrackerInv, SendTypes
  <2>3. BackToBack'
    BY <1>5 DEF Renumbers, TrackerInv, BackToBack, SendTypes
  <2> QED
    BY <2>1, <2>2, <2>3 DEF TrackerInv
<1>6. ASSUME UNCHANGED raVars
      PROVE  TrackerInv'
  BY <1>6 DEF raVars, TrackerInv, SendTypes, BackToBack
<1> QED
  BY <1>1, <1>2, <1>3, <1>4, <1>5, <1>6 DEF RaNext

\* The invariant implies TrackerSafe: whoever holds an abandoned prefix has
\* missed it, and misses are dated.
LEMMA TrackerInvIsSafe == TrackerInv => TrackerSafe
<1> SUFFICES ASSUME TrackerInv PROVE TrackerSafe
  OBVIOUS
<1>0. ra \in Trackers /\ Kept(ra, now, said) /\ Dated(ra)
  BY DEF TrackerInv, TrackOK
<1>1. TrackerTypeOK
  <2>1. \A r \in Router : ra.bursts[r] \in Bursts
    BY <1>0, TrackerParts, Zenon
  <2> QED
    BY <2>1 DEF TrackerTypeOK, TrackerInv, SendTypes, Bursts
<1>2. NoFalseSwitch
  <2> SUFFICES ASSUME NEW p \in Abandoned(ra), NEW r \in Router, ~(said[r][p] < now)
               PROVE  FALSE
    BY DEF NoFalseSwitch
  <2>1. p \in RaPrefix
    BY DEF Abandoned
  <2>2. said[r][p] \in Nat /\ now \in Nat /\ now > 0
    BY <2>1, TrackerAssumption DEF TrackerInv, SendTypes
  <2>3. said[r][p] >= now
    BY <2>2
  <2>h. PICK h : h = ra.holds[r][p]
    OBVIOUS
  <2>4. h \in Holds /\ h.until >= said[r][p] /\ h.misses = 0 /\ h.lastMiss = 0
    BY <1>0, <2>1, <2>3, <2>h, TrackerParts DEF Kept
  <2>5. h.until > 0
    BY <2>2, <2>3, <2>4 DEF Holds
  <2>hs. PICK hs : hs = {ra.holds[x][p] : x \in {y \in Router : ra.holds[y][p].until > 0}}
    OBVIOUS
  <2>6. h \in hs
    BY <2>5, <2>h, <2>hs
  <2>st. PICK st : st = ra.prefixes[p]
    OBVIOUS
  <2>7. st \in States /\ (st.missCount > 0 => st.missSince > 0)
    BY <1>0, <2>1, <2>st, TrackerParts DEF Dated
  <2>8. \/ st.withdrawn /\ hs = {}
        \/ st.missCount >= MissLimit /\ \A k \in hs : k.misses >= MissLimit /\ k.lastMiss > st.rsAt
        \/ st.missCount >= MissLimit /\ \A k \in hs : k.lastMiss >= st.missSince
    BY <2>1, <2>hs, <2>st, Zenon DEF Abandoned
  <2> QED
    BY <2>4, <2>6, <2>7, <2>8, TrackerAssumption DEF States
<1> QED
  BY <1>1, <1>2 DEF TrackerSafe

\* TrackerSafe (ra_watch.go, closeBursts and abandoned): a router that splits an
\* advertisement, falls silent or answers a solicitation between two of its
\* advertisements never makes the tracker give up a prefix whose lifetime still
\* runs there, for any routers, prefixes, lifetimes, gaps and limits, as long as
\* the uplink has no more routers than the tracker keeps (and no more prefixes
\* than raMaxPrefixes, a limit the model leaves out).
THEOREM TrackerIsSafe ==
  ASSUME RoutersFit
  PROVE  RaSpec => []TrackerSafe
<1>1. RaInit => TrackerInv
  BY TrackerInitial
<1>2. TrackerInv /\ [RaNext]_raVars => TrackerInv'
  BY TrackerStep
<1>3. TrackerInv => TrackerSafe
  BY TrackerInvIsSafe
<1> QED
  BY <1>1, <1>2, <1>3, PTL DEF RaSpec
=============================================================================
