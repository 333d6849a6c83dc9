----------------------------- MODULE MCComponents -----------------------------
(* The components, on the instances the .cfg files give.                   *)
EXTENDS Components

(* A blocked packet is counted, a login is an event, a tracker record      *)
(* without a MAC raises.                                                   *)
Blocked == [program |-> "kernel", marks |-> {"fw", "drop", "wan"}]
Login   == [program |-> "sshd", marks |-> {"ssh"}]
NullMac == [program |-> "stahtd", marks |-> {"tracker", "nullMac"}]
LoggedShapes == {Blocked, Login, NullMac}

(* i2 is a file server's address; h is the host itself.                    *)
TrueUses == {<<"i1", "m1">>, <<"i2", "m2">>, <<"i1", "m3">>, <<"i1", "h">>}

TaskGroups == {{"clients"}, {"devices", "stats"}, {"config"}}

(* 2, 4, 8, ... up to 60 seconds, in units of the first pause.             *)
DoublingPause(n) == IF n = 2 THEN 1 ELSE IF n = 3 THEN 2 ELSE 3

(* One key of each kind the code tells apart.  Digits become a number that *)
(* is refused where a string is declared; a list cannot be typed at all.   *)
FormValues ==
  [url |-> {"empty", "text", "digits"}, enabled |-> {"yes", "text"},
   password |-> {"text"}, whitelist |-> {"text"}]
ValidSettings ==
  ({"url", "password"} \X {"empty", "text", "from env"})
  \cup ({"enabled"} \X {"yes", "no"}) \cup {<<"whitelist", "items">>}
Defaults == [url |-> "text", enabled |-> "no", password |-> "empty", whitelist |-> "items"]

(* A component that is not enabled starts in one state only.               *)
BoundedInit ==
  /\ ComponentsInit
  /\ "intake" \notin enabled => mode = "file"
  /\ "unifi" \notin enabled => gather = {"config"} /\ net = {}
  /\ "pollers" \notin enabled => poller = "nmap" /\ world = {}
  /\ "backoff" \notin enabled => up

(* Bounds.  Logins and flushes meet the lines of a collector in the thread *)
(* that handles a line and in the buckets, which the collectors share: the *)
(* UDP collector's lines stand for the tailer's there.  Its queue of one   *)
(* is full with two of three datagrams.                                    *)
IntakeBounds ==
  IF mode = "file" THEN taken' = 0 /\ \A i \in DOMAIN shape' : shape'[i] # Login
                   ELSE Len(shape') <= 3

BoundedSpec == BoundedInit /\ [][ComponentsNext /\ IntakeBounds]_componentsVars
=============================================================================
