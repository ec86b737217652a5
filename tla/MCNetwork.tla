------------------------------ MODULE MCNetwork ------------------------------
(***************************************************************************)
(* The networking of a host, part by part: the links of the containers,    *)
(* the DHCP client, IPv6 renumbering and the router tracker.  `netPart'    *)
(* names the one that takes steps; the others stay in an initial state in  *)
(* which fairness asks nothing of them.                                    *)
(***************************************************************************)
EXTENDS NetLinks, DhcpLease, Renumber, RATracker

VARIABLE netPart

MCPool == [s1 |-> {"a1", "a2"}, s2 |-> {"a2"}]
MCLeaseTimes == {[t1 |-> 0, t2 |-> 0, valid |-> 3]}
MCValid == [p \in RaPrefix |-> 9]
MCFirstAdverts ==
  {f \in [Router -> {{"p"}, {"p", "q"}}] : f["r1"] = {"p", "q"}}

nwVars == <<netPart, netVars, dhcpVars, renVars, raVars>>

OneOf(x, S) == x = CHOOSE y \in S : TRUE

NwInit ==
  /\ netPart \in {"links", "dhcp", "renumber", "tracker"}
  /\ NetInit /\ DhcpInit /\ RenInit /\ RaInit
  /\ netPart # "dhcp" => OneOf(fam, Families)
  /\ netPart # "renumber" => rmode = "ra"
  /\ netPart # "tracker" => OneOf(adv, FirstAdverts)

Links  == netPart = "links" /\ NetNext
          /\ UNCHANGED <<netPart, dhcpVars, renVars, raVars>>
Dhcp   == netPart = "dhcp" /\ DhcpNext
          /\ UNCHANGED <<netPart, netVars, renVars, raVars>>
Renums == netPart = "renumber" /\ RenNext
          /\ UNCHANGED <<netPart, netVars, dhcpVars, raVars>>
Tracks == netPart = "tracker" /\ RaNext
          /\ UNCHANGED <<netPart, netVars, dhcpVars, renVars>>

NwNext == Links \/ Dhcp \/ Renums \/ Tracks

NwSpec == NwInit /\ [][NwNext]_nwVars /\ DhcpFairness /\ RenFairness
=============================================================================
