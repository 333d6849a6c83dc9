------------------------------- MODULE Sniff -------------------------------
(***************************************************************************)
(* The packet sniffer.  Packets reach the event loop one by one; a handler *)
(* has no await in it, so each packet is one step.  For ARP the collector  *)
(* learns which MACs go with which IP address for a warm-up period, then   *)
(* freezes what it learnt and reports any other MAC; for SMB it reports    *)
(* each pair of hosts once.  A report is a call of fire_rule, which the    *)
(* rule engine's cooldown may still drop.  Left out: the capped lists of   *)
(* mDNS, DNS and UPnP traffic, which only the dashboard reads.             *)
(***************************************************************************)
EXTENDS Naturals, FiniteSets

CONSTANTS
  ArpMacs, Ips,
  HostMacs,     \* MACs of the host's own interfaces, and locally administered ones
  Uses,         \* the <<ip, mac>> pairs that are true: what a MAC announces as its own
  Whitelist,    \* network.smb_whitelist
  ProxyLimit,   \* PROXY_ARP_THRESHOLD
  MaxStable     \* MACs of one address after which no more are reported

SniffAssumption ==
  /\ HostMacs \subseteq ArpMacs /\ Uses \subseteq Ips \X ArpMacs /\ Whitelist \subseteq Ips
  /\ ProxyLimit \in Nat \ {0} /\ MaxStable \in Nat \ {0}
  /\ IsFiniteSet(ArpMacs) /\ IsFiniteSet(Ips)

VARIABLES
  arp,                 \* arp_table
  phase,               \* "warmup", "over" when it has elapsed, "frozen" when the table is
  infra,               \* _infra_macs
  stable,              \* _arp_stable, {} where there is none
  conflicts,           \* how often each <<ip, mac>> pair was reported as arp_conflict
  smbPairs, smbAlerts  \* _smb_pairs, and those reported

arpVars == <<arp, phase, infra, stable, conflicts>>
sniffVars    == <<arpVars, smbPairs, smbAlerts>>

SniffTypeOK ==
  /\ arp \in [Ips -> SUBSET ArpMacs] /\ stable \in [Ips -> SUBSET ArpMacs]
  /\ phase \in {"warmup", "over", "frozen"}
  /\ infra \subseteq ArpMacs
  /\ conflicts \in [Ips \X ArpMacs -> Nat]
  /\ smbPairs \subseteq Ips \X Ips /\ smbAlerts \subseteq smbPairs

SniffInit ==
  /\ arp = [i \in Ips |-> {}] /\ stable = [i \in Ips |-> {}]
  /\ phase = "warmup" /\ infra = {}
  /\ conflicts = [x \in Ips \X ArpMacs |-> 0]
  /\ smbPairs = {} /\ smbAlerts = {}

ShouldIgnore(m, proxies) == m \in HostMacs \/ m \in proxies

WarmupDone ==
  /\ phase = "warmup" /\ phase' = "over"
  /\ UNCHANGED <<arp, infra, stable, conflicts, smbPairs, smbAlerts>>

(* _freeze_arp_table: MACs seen for more than ProxyLimit addresses are     *)
(* routers doing proxy ARP; the others are what is normal for an address.  *)
Proxies(table) ==
  {m \in ArpMacs : ~ShouldIgnore(m, infra) /\ Cardinality({i \in Ips : m \in table[i]}) > ProxyLimit}
Baseline(table, proxies) ==
  [i \in Ips |-> {m \in table[i] : ~ShouldIgnore(m, proxies)}]

(* The address a packet is taken to speak for: the target of a request,    *)
(* the sender of a reply.                                                  *)
Subject(op, psrc, pdst) == IF op = "request" THEN pdst ELSE psrc

(* After the freeze (which the first packet after the warm-up performs,    *)
(* having passed the ignore check before it): a MAC that is not normal for *)
(* the address is reported and becomes normal.  Mutant: it does not.       *)
JudgeForgetting(i, m, normal) ==
  /\ stable' = IF normal[i] = {} THEN [normal EXCEPT ![i] = {m}] ELSE normal
  /\ conflicts' = IF normal[i] # {} /\ m \notin normal[i] /\ Cardinality(normal[i]) < MaxStable
                  THEN [conflicts EXCEPT ![<<i, m>>] = @ + 1] ELSE conflicts
Judge(i, m, normal) ==
  IF normal[i] = {} THEN stable' = [normal EXCEPT ![i] = {m}] /\ UNCHANGED conflicts
  ELSE /\ stable' = [normal EXCEPT ![i] = @ \cup {m}]
       /\ conflicts' = IF m \notin normal[i] /\ Cardinality(normal[i]) < MaxStable
                       THEN [conflicts EXCEPT ![<<i, m>>] = @ + 1] ELSE conflicts

Arp(op, m, psrc, pdst) ==
  LET i     == Subject(op, psrc, pdst)
      table == [arp EXCEPT ![i] = @ \cup {m}] IN
  /\ <<psrc, m>> \in Uses
  /\ arp' = table
  /\ IF ShouldIgnore(m, infra) \/ phase = "warmup" THEN UNCHANGED <<phase, infra, stable, conflicts>>
     ELSE IF phase = "over"
     THEN LET proxies == infra \cup Proxies(table) IN
          /\ phase' = "frozen" /\ infra' = proxies
          /\ Judge(i, m, Baseline(table, proxies))
     ELSE UNCHANGED <<phase, infra>> /\ Judge(i, m, stable)
  /\ UNCHANGED <<smbPairs, smbAlerts>>

(* The pair is remembered before the whitelist is looked at.               *)
Smb(src, dst) ==
  /\ src # dst /\ <<src, dst>> \notin smbPairs
  /\ smbPairs' = smbPairs \cup {<<src, dst>>}
  /\ smbAlerts' = IF src \in Whitelist \/ dst \in Whitelist THEN smbAlerts
                  ELSE smbAlerts \cup {<<src, dst>>}
  /\ UNCHANGED arpVars

(* A restart starts a new warm-up with nothing learnt.                     *)
SniffRestart ==
  /\ arp' = [i \in Ips |-> {}] /\ stable' = [i \in Ips |-> {}]
  /\ phase' = "warmup" /\ infra' = {}
  /\ conflicts' = [x \in Ips \X ArpMacs |-> 0]
  /\ smbPairs' = {} /\ smbAlerts' = {}

SniffNext ==
  \/ WarmupDone
  \/ \E op \in {"request", "reply"}, m \in ArpMacs, psrc, pdst \in Ips : Arp(op, m, psrc, pdst)
  \/ \E src, dst \in Ips : Smb(src, dst)
  \/ SniffRestart

SniffSpec == SniffInit /\ [][SniffNext]_sniffVars

-----------------------------------------------------------------------------
Reported(i) == {m \in ArpMacs : conflicts[<<i, m>>] > 0}

(* sniff.py:128.  A router that does proxy ARP is never reported, except   *)
(* by the one packet that made the collector find out.                     *)
InfraReportedByFreezeOnly ==
  Cardinality({x \in Ips \X infra : conflicts[x] > 0}) <= 1

(* sniff.py:228-251.  Whatever the order of the packets, and whichever of  *)
(* them performs the freeze, one run of the collector reports a MAC at     *)
(* most once per address, at most MaxStable - 1 MACs per address, and no   *)
(* router after the packet that found it out.                              *)
ConflictsAreBounded ==
  /\ \A i \in Ips : /\ \A m \in ArpMacs : conflicts[<<i, m>>] <= 1
                    /\ Cardinality(Reported(i)) < MaxStable
  /\ InfraReportedByFreezeOnly
=============================================================================
