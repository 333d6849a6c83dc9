------------------------------ MODULE Parsers ------------------------------
(***************************************************************************)
(* The parser chain.  A line is [program, marks]: the program of its       *)
(* syslog envelope ("" when no envelope was recognised) and what the       *)
(* regular expressions find in it.  A result is [event, mac, hint]: the    *)
(* event type, whether a MAC address was extracted, and the device type    *)
(* the line betrays.  Wording, severities and other fields are left out.   *)
(***************************************************************************)
EXTENDS Naturals, Sequences

Marks == {"noise",                                        \* PRE_FILTER
          "fw", "drop", "wan", "quiet", "multicast",      \* firewall rule and its fields
          "STA", "authorized", "denied", "left", "joined",\* hostapd
          "roamed", "ip", "tracker", "nullMac", "dnsTimeout", "wevent", "anomaly", "switch",  \* UniFi
          "bridge", "disk", "container", "emhttpd", "mover", "sudo", "ssh",   \* Unraid
          "dhcp", "query", "reply"}                       \* dnsmasq

(* The envelope has one of three formats; a line of none of them goes to   *)
(* the parsers as it is, without a program.                                *)
Programs == {"", "hostapd", "stahtd", "dnsmasq", "sshd", "kernel"}
Line     == [program : Programs, marks : SUBSET Marks]
Hints    == {"", "router", "ap", "switch", "server"}
NoResult == [event |-> "", mac |-> FALSE, hint |-> ""]
Raises   == [event |-> "raises", mac |-> FALSE, hint |-> ""]
Found(e, m, h) == [event |-> e, mac |-> m, hint |-> h]

(* The first result among the pairs <<mark, result>> whose mark the line has. *)
FirstOf(line, table) ==
  LET hits == {i \in DOMAIN table : table[i][1] \in line.marks} IN
  IF hits = {} THEN NoResult
  ELSE table[CHOOSE i \in hits : \A j \in hits : i <= j][2]

Iptables(line) ==
  IF "fw" \notin line.marks \/ "quiet" \in line.marks THEN NoResult
  ELSE IF {"drop", "wan"} \subseteq line.marks THEN Found("fw_wan_block", FALSE, "router")
  ELSE IF "drop" \in line.marks THEN Found("fw_block", FALSE, "router")
  ELSE IF "multicast" \in line.marks THEN NoResult
  ELSE Found("fw_lan_traffic", FALSE, "router")

Hostapd(line) ==
  IF "STA" \notin line.marks THEN NoResult
  ELSE FirstOf(line, << <<"authorized", Found("wifi_auth_success", TRUE, "ap")>>,
                        <<"denied", Found("wifi_auth_reject", TRUE, "ap")>>,
                        <<"left", Found("wifi_disassoc", TRUE, "ap")>>,
                        <<"joined", Found("wifi_assoc", TRUE, "ap")>> >>)

(* A tracker record whose MAC is null: None has no lower().                *)
StaTracker(line) ==
  IF "nullMac" \in line.marks THEN Raises
  ELSE Found(IF "joined" \in line.marks THEN "sta_assoc"
             ELSE IF "left" \in line.marks THEN "sta_leave"
             ELSE IF "roamed" \in line.marks THEN "sta_roam" ELSE "sta_soft_failure",
             TRUE, "ap")

Wevent(line) ==
  Found(IF "ip" \in line.marks THEN "sta_ip_assign"
        ELSE IF "joined" \in line.marks THEN "sta_join"
        ELSE IF "left" \in line.marks THEN "sta_leave"
        ELSE "wevent", TRUE, "ap")

UniFiLine(line) ==
  FirstOf(line, << <<"tracker", StaTracker(line)>>,
                   <<"dnsTimeout", Found("dns_timeout", TRUE, "ap")>>,
                   <<"wevent", Wevent(line)>>,
                   <<"anomaly", Found("wifi_anomaly", TRUE, "ap")>>,
                   <<"switch", Found("switch_state", FALSE, "switch")>> >>)

Unraid(line) ==
  IF "bridge" \in line.marks THEN NoResult
  ELSE IF line.program = "sshd" /\ line.marks \cap {"disk", "container", "emhttpd", "mover", "sudo"} = {}
  THEN Found("ssh_auth", FALSE, "server")
  ELSE FirstOf(line, << <<"disk", Found("disk_warning", FALSE, "server")>>,
                        <<"container", Found("docker_crash", FALSE, "server")>>,
                        <<"emhttpd", Found("emhttpd_event", FALSE, "server")>>,
                        <<"mover", Found("mover_event", FALSE, "server")>>,
                        <<"sudo", Found("sudo_session", FALSE, "server")>>,
                        <<"ssh", Found("ssh_auth", FALSE, "server")>> >>)

(* Outside dnsmasq's own lines, "cached" answers are not looked for; every *)
(* mark below is also one of the keywords that let such a line through.    *)
Dnsmasq(line) ==
  FirstOf(line, << <<"dhcp", Found("dhcp_ack", TRUE, "")>>,
                   <<"query", Found("dns_query", FALSE, "")>>,
                   <<"reply", Found("dns_reply", FALSE, "")>> >>)

(* Order matters: the first parser that recognises the line has it, and an *)
(* exception in one ends the search.                                       *)
ParseLine(line) ==
  LET results == <<Iptables(line), Hostapd(line), UniFiLine(line), Unraid(line), Dnsmasq(line)>>
      hits    == {i \in DOMAIN results : results[i] # NoResult} IN
  IF hits = {} THEN NoResult
  ELSE results[CHOOSE i \in hits : \A j \in hits : i <= j]

CounterEvents    == {"fw_wan_block", "fw_lan_traffic"}

ShouldPreFilter(line) == "noise" \in line.marks

(* What becomes of a line, before anything is stored.                      *)
Fate(line) ==
  IF ShouldPreFilter(line) THEN "nothing"
  ELSE LET r == ParseLine(line) IN
       IF r = NoResult THEN "nothing"
       ELSE IF r = Raises THEN "raises"
       ELSE IF r.event \in CounterEvents THEN "count"
       ELSE "event"
=============================================================================
