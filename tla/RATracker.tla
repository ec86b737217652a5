------------------------------ MODULE RATracker ------------------------------
(***************************************************************************)
(* Which prefixes the routers on the uplink still advertise                *)
(* (renumber/ra_watch.go).  A tracker reads copies of Router               *)
(* Advertisements; a router may split one over several messages, fall      *)
(* silent, forget a prefix or withdraw it, and answers solicitations by    *)
(* unicast.  A prefix the tracker calls abandoned is left at once by the   *)
(* source of the renumbering service.                                      *)
(* As in the code, the zero value of a record field means absent: the      *)
(* clock starts at 1.                                                      *)
(***************************************************************************)
EXTENDS Integers, FiniteSets, FiniteSetsExt

CONSTANTS
  Router, RaPrefix,
  Valid,         \* per prefix, the lifetime its routers advertise
  BurstGap, ConfirmDelay, SolicitGap, MissTimeout, WithdrawKeep, MissLimit,
  RaMaxRouters,
  FirstAdverts, FirstPrefix,  \* what the routers advertise, the source uses
  MaxNow,        \* the clock
  MaxAdverts,    \* advertisements of all routers
  MaxRenumbers   \* changes of what the routers advertise, failed sockets

ASSUME TrackerAssumption ==
  /\ {BurstGap, ConfirmDelay, SolicitGap, MissTimeout, WithdrawKeep} \subseteq Nat
  /\ {MissLimit, MaxNow} \subseteq Nat \ {0}
  /\ Valid \in [RaPrefix -> Nat \ {0}]
  /\ FirstPrefix \in RaPrefix /\ FirstAdverts \subseteq [Router -> SUBSET RaPrefix]

VARIABLES
  ra,          \* the raTracker: holds, prefixes, bursts, lastRS
  raCur,       \* RASource.current
  now,
  adv, gone,   \* external: what a router advertises, what it withdraws
  sending,     \* external: the rest of an advertisement sent back to back
  lastSent,    \* external: when its previous message left
  solicitedR,  \* external: routers that owe a unicast answer
  adverts, renumbers,
  said         \* history: per router and prefix, the end of the lifetime its
               \* last whole advertisement gave it; 0 if it left it out

raVars == <<ra, raCur, now, adv, gone, sending, lastSent,
            solicitedR, adverts, renumbers, said>>

NoHold  == [misses |-> 0, lastMiss |-> 0, until |-> 0]
NoState == [withdrawn |-> FALSE, missCount |-> 0, missSince |-> 0, rsAt |-> 0,
            until |-> 0]
NoBurst == [start |-> 0, last |-> 0, unicast |-> FALSE, seen |-> {}]

\* reset
NewTracker ==
  [holds    |-> [r \in Router |-> [p \in RaPrefix |-> NoHold]],
   prefixes |-> [p \in RaPrefix |-> NoState],
   bursts   |-> [r \in Router |-> NoBurst],
   lastRS   |-> 0]

Idle == [rest |-> {}, whole |-> {}, unicast |-> FALSE]

RaInit ==
  /\ ra = NewTracker /\ now = 1
  /\ adv \in FirstAdverts /\ raCur = FirstPrefix
  /\ gone = [r \in Router |-> {}]
  /\ sending = [r \in Router |-> Idle]
  /\ lastSent = [r \in Router |-> 0]
  /\ solicitedR = {} /\ adverts = 0 /\ renumbers = 0
  /\ said = [r \in Router |-> [p \in RaPrefix |-> 0]]

-----------------------------------------------------------------------------
Tracked(t) == {r \in Router : \E p \in RaPrefix : t.holds[r][p].until > 0}

\* expire
Expire(t, n) ==
  LET h == [r \in Router |-> [p \in RaPrefix |->
              IF n > t.holds[r][p].until THEN NoHold ELSE t.holds[r][p]]]
  IN [t EXCEPT
        !.holds = h,
        !.prefixes = [p \in RaPrefix |->
            IF n > t.prefixes[p].until THEN NoState ELSE t.prefixes[p]],
        !.bursts = [r \in Router |->
            IF \A p \in RaPrefix : h[r][p].until = 0 THEN NoBurst ELSE t.bursts[r]]]

\* closeBurst: a miss, dated by the start of the burst, for every prefix the
\* bursts of the routers rs did not carry.
CloseBursts(t, rs) ==
  LET missed(p) == {r \in rs : p \notin t.bursts[r].seen}
      first(p) == Min({t.bursts[r].start : r \in missed(p)})
  IN [t EXCEPT
        !.bursts = [r \in Router |-> IF r \in rs THEN NoBurst ELSE t.bursts[r]],
        !.holds = [r \in Router |-> [p \in RaPrefix |->
            IF t.holds[r][p].until > 0 /\ r \in missed(p)
            THEN [t.holds[r][p] EXCEPT !.misses = @ + 1,
                                       !.lastMiss = t.bursts[r].start]
            ELSE t.holds[r][p]]],
        !.prefixes = [p \in RaPrefix |->
            IF t.prefixes[p].until > 0 /\ missed(p) # {}
            THEN [t.prefixes[p] EXCEPT
                    !.missCount = @ + Cardinality(missed(p)),
                    !.missSince = IF t.prefixes[p].missCount = 0 THEN first(p) ELSE @]
            ELSE t.prefixes[p]]]

\* closeBursts that takes every message for a whole advertisement.
CloseDueEager(t, n) == CloseBursts(t, {r \in Router : t.bursts[r].start > 0})

\* closeBursts: the bursts that saw no message for BurstGap.
CloseDue(t, n) ==
  CloseBursts(t, {r \in Router : t.bursts[r].start > 0
                                 /\ n - t.bursts[r].last > BurstGap})

\* What observe and abandoned do first.
SettleAt(t, n) == CloseDue(Expire(t, n), n)

Settle(t) == SettleAt(t, now)

\* The withdrawals of a message of router r.
Withdraw(t, r, ps) ==
  [t EXCEPT
     !.holds[r] = [p \in RaPrefix |-> IF p \in ps THEN NoHold ELSE t.holds[r][p]],
     !.prefixes = [p \in RaPrefix |->
         IF p \in ps /\ t.prefixes[p].until > 0
         THEN [t.prefixes[p] EXCEPT !.withdrawn = TRUE,
                                    !.until = Max({@, now + WithdrawKeep})]
         ELSE t.prefixes[p]]]

\* The burst the message belongs to: one of the other kind is complete.
OpenBurst(t, r, unicast) ==
  LET other == t.bursts[r].start > 0 /\ t.bursts[r].unicast # unicast
      c == IF other THEN CloseBursts(t, {r}) ELSE t
  IN [c EXCEPT !.bursts[r] =
        IF c.bursts[r].start = 0
        THEN [start |-> now, last |-> now, unicast |-> unicast, seen |-> {}]
        ELSE [c.bursts[r] EXCEPT !.last = now]]

\* Prefixes with a lifetime are refreshed at once.
Advertise(t, r, ps) ==
  [t EXCEPT
     !.bursts[r].seen = @ \cup ps,
     !.prefixes = [p \in RaPrefix |->
         IF p \in ps
         THEN [NoState EXCEPT !.until = Max({t.prefixes[p].until, now + Valid[p]})]
         ELSE t.prefixes[p]],
     !.holds[r] = [p \in RaPrefix |->
         IF p \in ps THEN [NoHold EXCEPT !.until = now + Valid[p]]
         ELSE t.holds[r][p]]]

\* observe: a message with only withdrawals, or of a router too many, ends here.
Ignored(t, r, ps) ==
  ps = {} \/ (r \notin Tracked(t) /\ Cardinality(Tracked(t)) >= RaMaxRouters)

Observe(t, r, unicast, ps, wd) ==
  LET w == Withdraw(Settle(t), r, wd)
  IN IF Ignored(w, r, ps) THEN w ELSE Advertise(OpenBurst(w, r, unicast), r, ps)

\* The burst of r lacks the active prefix and a solicitation is due; o is the
\* tracker after the message.
Solicits(t, o, r, ps, wd) ==
  LET w == Withdraw(Settle(t), r, wd)
      new == \E p \in ps : w.prefixes[p].until = 0
      unconfirmed == o.prefixes[raCur].until > 0 /\ o.prefixes[raCur].rsAt = 0
  IN /\ ~Ignored(w, r, ps)
     /\ raCur \notin o.bursts[r].seen
     /\ new \/ unconfirmed
     /\ t.lastRS = 0 \/ now - t.lastRS >= SolicitGap

\* solicited
Solicited(t) ==
  [t EXCEPT !.lastRS = now,
            !.prefixes = [p \in RaPrefix |->
               IF t.prefixes[p].until > 0 /\ t.prefixes[p].rsAt = 0
               THEN [t.prefixes[p] EXCEPT !.rsAt = now] ELSE t.prefixes[p]]]

AdvertisedOtherThan(t, p) ==
  \E r \in Router, q \in RaPrefix \ {p} :
    t.holds[r][q].until > 0 /\ t.holds[r][q].misses < MissLimit

\* abandoned where a silent router counts as one that missed.
AbandonedSilent(t) ==
  {p \in RaPrefix :
     LET st == t.prefixes[p]
     IN /\ st.until > 0 /\ AdvertisedOtherThan(t, p)
        /\ st.missCount >= MissLimit /\ now - st.missSince >= MissTimeout}

\* abandoned, of a settled tracker.
Abandoned(t) ==
  {p \in RaPrefix :
     LET st == t.prefixes[p]
         hs == {t.holds[r][p] : r \in {x \in Router : t.holds[x][p].until > 0}}
     IN /\ st.until > 0 /\ AdvertisedOtherThan(t, p)
        /\ \/ st.withdrawn /\ hs = {}
           \/ /\ st.missCount >= MissLimit
              /\ st.rsAt > 0 /\ now - st.rsAt >= ConfirmDelay
              /\ \A h \in hs : h.misses >= MissLimit /\ h.lastMiss > st.rsAt
           \/ /\ st.missCount >= MissLimit
              /\ now - st.missSince >= MissTimeout
              /\ \A h \in hs : h.lastMiss >= st.missSince}

-----------------------------------------------------------------------------
\* external: router r sends the prefixes ps, by unicast only to answer a
\* solicitation.  It begins an advertisement, or sends more of the one under
\* way; multicast advertisements of a router are more than BurstGap apart.
Sends(r, unicast, ps) ==
  LET fresh == sending[r].rest = {}
      whole == IF fresh THEN adv[r] ELSE sending[r].whole
      rest == (IF fresh THEN adv[r] ELSE sending[r].rest) \ ps
  IN
  /\ ps # {}
  /\ IF fresh
     THEN /\ ps \subseteq adv[r] /\ adverts < MaxAdverts
          /\ adverts' = adverts + 1
          /\ IF unicast THEN r \in solicitedR
             ELSE lastSent[r] = 0 \/ now - lastSent[r] > BurstGap
     ELSE /\ ps \subseteq sending[r].rest /\ unicast = sending[r].unicast
          /\ UNCHANGED adverts
  /\ sending' = [sending EXCEPT ![r] =
        IF rest = {} THEN Idle
        ELSE [rest |-> rest, whole |-> whole, unicast |-> unicast]]
  /\ lastSent' = [lastSent EXCEPT ![r] = now]
  /\ gone' = [gone EXCEPT ![r] = {}]
  /\ said' = [said EXCEPT ![r] = [p \in RaPrefix |->
        IF p \in ps THEN now + Valid[p]
        ELSE IF p \notin whole /\ (p \in gone[r] \/ rest = {}) THEN 0
        ELSE said[r][p]]]

\* readRAs and handleRA: observe the message, solicit if that is due.
HandleRA(r, unicast, ps) ==
  LET wd == gone[r] \ adv[r]
      o == Observe(ra, r, unicast, ps, wd)
      solicit == Solicits(ra, o, r, ps, wd)
  IN
  /\ Sends(r, unicast, ps)
  /\ ra' = IF solicit THEN Solicited(o) ELSE o
  /\ solicitedR' = IF solicit THEN Router
                   ELSE IF unicast THEN solicitedR \ {r} ELSE solicitedR
  /\ UNCHANGED <<raCur, now, adv, renumbers>>

\* watchRAs: the socket fails, everything learnt is forgotten.
ListenerFails ==
  /\ renumbers < MaxRenumbers /\ ra' = NewTracker
  /\ renumbers' = renumbers + 1
  /\ said' = [r \in Router |-> [p \in RaPrefix |-> 0]]
  /\ UNCHANGED <<raCur, now, adv, gone, sending, lastSent, solicitedR, adverts>>

\* notifyIfChanged wakes subscribeOnce when the abandoned set changes, and poll
\* selects: the current prefix, or, if it is abandoned, another one the kernel
\* still has.
Reselect(p) ==
  /\ raCur \in Abandoned(ra) /\ p \notin Abandoned(ra)
  /\ raCur' = p
  /\ UNCHANGED <<ra, now, adv, gone, sending, lastSent, solicitedR,
                 adverts, renumbers, said>>

\* external: a router renumbers; it withdraws what it drops, or forgets it.
Renumbers(r, ps, withdraws) ==
  /\ renumbers < MaxRenumbers /\ ps # adv[r] /\ sending[r].rest = {}
  /\ adv' = [adv EXCEPT ![r] = ps]
  /\ gone' = [gone EXCEPT ![r] = IF withdraws THEN @ \cup (adv[r] \ ps) ELSE @]
  /\ renumbers' = renumbers + 1
  /\ UNCHANGED <<ra, raCur, now, sending, lastSent, solicitedR,
                 adverts, said>>

\* Time passes, and readRAs wakes up without a message; the messages of one advertisement are at most BurstGap apart.
RaTick ==
  /\ now < MaxNow
  /\ \A r \in Router : sending[r].rest # {} => now - lastSent[r] < BurstGap
  /\ now' = now + 1
  /\ ra' = SettleAt(ra, now')
  /\ UNCHANGED <<raCur, adv, gone, sending, lastSent,
                 solicitedR, adverts, renumbers, said>>

RaNext ==
  \/ \E r \in Router, u \in BOOLEAN, ps \in SUBSET RaPrefix : HandleRA(r, u, ps)
  \/ ListenerFails \/ RaTick \/ (\E p \in RaPrefix : Reselect(p))
  \/ \E r \in Router, ps \in SUBSET RaPrefix, w \in BOOLEAN : Renumbers(r, ps, w)

RaSpec == RaInit /\ [][RaNext]_raVars

-----------------------------------------------------------------------------
TrackerTypeOK ==
  /\ raCur \in RaPrefix /\ now \in 1..MaxNow
  /\ \A r \in Router : ra.bursts[r].seen \subseteq RaPrefix

\* ra_watch.go:28 "A split advertisement sent back to back or a silent router
\* thus never causes a (sticky) switch": no prefix is abandoned whose lifetime
\* still runs at a router that has not left it out since.
NoFalseSwitch ==
  \A p \in Abandoned(ra) : \A r \in Router : said[r][p] < now

\* The invariant of the router tracker.
TrackerSafe == TrackerTypeOK /\ NoFalseSwitch
=============================================================================
