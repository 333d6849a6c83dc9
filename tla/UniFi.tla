------------------------------- MODULE UniFi -------------------------------
(***************************************************************************)
(* The UniFi collector.  One poll gathers up to four tasks on the event    *)
(* loop: clients, infrastructure devices, device statistics and network    *)
(* configuration.  Every request and every database write is an await, so  *)
(* the tasks interleave; the next poll starts when all have ended.  An     *)
(* exception ends only the task that raised it.  Left out: what is read    *)
(* of a client or device besides its MAC, id and state.  Assumed: every    *)
(* client the controller lists has a type, which the code calls upper() on *)
(* and there are fewer infrastructure devices than a page holds, so that   *)
(* one is listed once; a client may be listed several times.               *)
(***************************************************************************)
EXTENDS Naturals, FiniteSets

CONSTANTS
  Clients,      \* MACs of wired, wireless, VPN or Teleport clients
  Infra,        \* MACs of access points, switches and gateways
  Gathers,      \* the sets of tasks to study together: only devices and stats share state
  MaxListings,  \* bound: times the pages of one poll list a client
  MaxEpoch,     \* bound: changes of the network's configuration
  MaxReports    \* bound: events counted per client

UniFiAssumption ==
  /\ IsFiniteSet(Clients) /\ IsFiniteSet(Infra)
  /\ Gathers \subseteq SUBSET {"clients", "devices", "stats", "config"}
  /\ MaxListings \in Nat /\ MaxEpoch \in Nat /\ MaxReports \in Nat \ {0}

Tasks    == {"clients", "devices", "stats", "config"}
States   == {"ONLINE", "OFFLINE"}
Unset    == "unset"
NoConfig == MaxEpoch + 1

VARIABLES
  gather,                       \* the tasks studied, one of Gathers
  net, health, epoch,           \* the controller: connected clients, device states, configuration
  site,                         \* _site_id has been resolved
  task, todo,                   \* each task's phase; devices left to handle
  page, listings,               \* the clients the poll lists; listings of each left to handle
  firstPoll, known, connected,  \* _first_poll, _known_clients, _connected_clients
  states, ids,                  \* _infra_states, _device_id_map
  listed,                       \* the device states of the last devices poll
  noStats,                      \* MACs whose statistics answered 404
  cached, saved,                \* _cached_* and the active Baseline rows
  start, arrivals, departures,  \* history: clients of the first poll, events per client
  heard                         \* history: listings of a client in the last poll before its events

worldVars  == <<gather, net, health, epoch>>
clientVars == <<page, listings, firstPoll, known, connected, start, arrivals, departures, heard>>
infraVars  == <<states, ids, listed, noStats>>
configVars == <<cached, saved>>
unifiVars == <<worldVars, site, task, todo, clientVars, infraVars, configVars>>

UniFiTypeOK ==
  /\ gather \in Gathers
  /\ net \subseteq Clients /\ health \in [Infra -> States] /\ epoch \in 0..MaxEpoch
  /\ site \in BOOLEAN /\ task \in [Tasks -> {"idle", "fetch", "work"}]
  /\ todo \in [Tasks -> SUBSET Infra]
  /\ page \subseteq Clients /\ listings \in [Clients -> 0..MaxListings]
  /\ firstPoll \in BOOLEAN /\ known \subseteq Clients /\ connected \subseteq known
  /\ states \in [Infra -> States \cup {Unset}] /\ ids \subseteq Infra /\ noStats \subseteq Infra
  /\ listed \in [Infra -> States \cup {Unset}]
  /\ cached \in 0..NoConfig /\ saved \in 0..NoConfig
  /\ start \subseteq Clients /\ heard \in [Clients -> 0..MaxListings]
  /\ arrivals \in [Clients -> 0..MaxReports] /\ departures \in [Clients -> 0..MaxReports]

UniFiInit ==
  /\ gather \in Gathers
  /\ net \in SUBSET Clients /\ health = [d \in Infra |-> "ONLINE"] /\ epoch = 0
  /\ site = FALSE /\ task = [t \in Tasks |-> "idle"] /\ todo = [t \in Tasks |-> {}]
  /\ page = {} /\ firstPoll = TRUE /\ known = {} /\ connected = {}
  /\ states = [d \in Infra |-> Unset] /\ ids = {} /\ noStats = {}
  /\ listed = [d \in Infra |-> Unset]
  /\ cached = NoConfig /\ saved = NoConfig
  /\ start = {} /\ arrivals = [m \in Clients |-> 0] /\ departures = [m \in Clients |-> 0]
  /\ listings = [m \in Clients |-> 0] /\ heard = [m \in Clients |-> 0]

CappedCount(n) == IF n < MaxReports THEN n + 1 ELSE MaxReports

-----------------------------------------------------------------------------
(* The network itself.                                                     *)
ClientMoves(m) ==
  /\ "clients" \in gather
  /\ net' = IF m \in net THEN net \ {m} ELSE net \cup {m}
  /\ UNCHANGED <<gather, health, epoch, site, task, todo, clientVars, infraVars, configVars>>

DeviceChanges(d) ==
  /\ "devices" \in gather
  /\ \E s \in States \ {health[d]} : health' = [health EXCEPT ![d] = s]
  /\ UNCHANGED <<gather, net, epoch, site, task, todo, clientVars, infraVars, configVars>>

Reconfigured ==
  /\ "config" \in gather /\ epoch < MaxEpoch /\ epoch' = epoch + 1
  /\ UNCHANGED <<gather, net, health, site, task, todo, clientVars, infraVars, configVars>>

-----------------------------------------------------------------------------
(* _poll: statistics and configuration are polled when due, and count as   *)
(* polled from now on, whatever becomes of the requests.                   *)
Idle == \A t \in Tasks : task[t] = "idle"

ResolveSite ==
  /\ Idle /\ ~site /\ site' = TRUE
  /\ UNCHANGED <<worldVars, task, todo, clientVars, infraVars, configVars>>

StartPoll ==
  /\ Idle /\ site
  /\ \E due \in SUBSET {"stats", "config"} :
       task' = [t \in Tasks |-> IF t \in gather \cap ({"clients", "devices"} \cup due)
                                THEN "fetch" ELSE "idle"]
  /\ UNCHANGED <<worldVars, site, todo, clientVars, infraVars, configVars>>

(* A timeout or a refused connection, before anything was stored.          *)
RequestFails(t) ==
  /\ task[t] = "fetch" /\ task' = [task EXCEPT ![t] = "idle"]
  /\ UNCHANGED <<worldVars, site, todo, clientVars, infraVars, configVars>>

-----------------------------------------------------------------------------
(* _poll_clients.  The list is what the pages held, one after the other.   *)
(* A page that answers with an error ends it without an exception, and a   *)
(* client can move between two pages while they are read: any part of the  *)
(* list may be missing, and a client may be listed more than once.         *)
FetchClients ==
  /\ task["clients"] = "fetch"
  /\ \E times \in [net -> 0..MaxListings] :
       /\ listings' = [m \in Clients |-> IF m \in net THEN times[m] ELSE 0]
       /\ page' = {m \in net : times[m] > 0}
  /\ heard' = [m \in Clients |-> IF arrivals[m] > 0 THEN heard[m] ELSE listings'[m]]
  /\ task' = [task EXCEPT !["clients"] = "work"]
  /\ UNCHANGED <<worldVars, site, todo, firstPoll, known, connected, start, arrivals, departures,
                 infraVars, configVars>>

ReportsArrival(m) == ~firstPoll /\ m \notin known

(* _persist_new_client_event, _persist_disconnect_event: what they leave   *)
(* in the events table.  Any exception is caught there, so the event may   *)
(* be missing; for a VPN client the import after the commit always raises, *)
(* and its rule is never fired.                                            *)
NewClientEvent(m) == {arrivals, [arrivals EXCEPT ![m] = CappedCount(@)]}
DisconnectEvents(gone) ==
  {[m \in Clients |-> IF m \in page THEN 0
                      ELSE IF m \in stored THEN CappedCount(departures[m]) ELSE departures[m]] :
     stored \in SUBSET gone}

(* One listing.  A second one of the same client is handled like the       *)
(* first: clients are remembered when the whole list has been handled.      *)
HandleClient(m) ==
  /\ listings[m] > 0 /\ listings' = [listings EXCEPT ![m] = @ - 1]
  /\ arrivals' \in (IF ReportsArrival(m) THEN NewClientEvent(m) ELSE {arrivals})
  /\ UNCHANGED <<worldVars, site, task, todo, page, firstPoll, known, connected, start, departures,
                 heard, infraVars, configVars>>

(* The collector's memory is updated only here, from what the page held.   *)
(* Mutants: a client that left is forgotten; one that left is still there. *)
RememberOnlyPresent(got) == known' = got /\ connected' = got
RememberAllConnected(got) == known' = known \cup got /\ connected' = connected \cup got
RememberClients(got) == known' = known \cup got /\ connected' = got

FinishClients ==
  /\ task["clients"] = "work" /\ \A m \in Clients : listings[m] = 0
  /\ departures' \in DisconnectEvents(IF firstPoll THEN {} ELSE connected \ page)
  /\ RememberClients(page)
  /\ start' = IF firstPoll THEN page ELSE start
  /\ firstPoll' = FALSE /\ page' = {}
  /\ task' = [task EXCEPT !["clients"] = "idle"]
  /\ UNCHANGED <<worldVars, site, todo, listings, arrivals, heard, infraVars, configVars>>

-----------------------------------------------------------------------------
(* _poll_devices.  _persist_state_change_event imports a name that         *)
(* rules/engine.py does not define, before its try: a device whose state   *)
(* changed ends the task: there is no event, and states, which the next    *)
(* poll compares with, keeps the old one (only the device's row has the    *)
(* new one by then).                                                       *)
FetchDevices ==
  /\ task["devices"] = "fetch"
  /\ \E got \in SUBSET Infra :
       /\ todo' = [todo EXCEPT !["devices"] = got]
       /\ listed' = [d \in Infra |-> IF d \in got THEN health[d] ELSE Unset]
  /\ task' = [task EXCEPT !["devices"] = "work"]
  /\ UNCHANGED <<worldVars, site, clientVars, states, ids, noStats, configVars>>

StateChangeRaises(d) == states[d] \notin {Unset, listed[d]}

HandleDevice(d) ==
  /\ d \in todo["devices"]
  /\ ids' = ids \cup {d}
  /\ IF StateChangeRaises(d)
     THEN /\ todo' = [todo EXCEPT !["devices"] = {}]
          /\ UNCHANGED states
     ELSE /\ todo' = [todo EXCEPT !["devices"] = @ \ {d}]
          /\ states' = [states EXCEPT ![d] = listed[d]]
  /\ UNCHANGED <<worldVars, site, task, clientVars, listed, noStats, configVars>>

FinishDevices ==
  /\ task["devices"] = "work" /\ todo["devices"] = {}
  /\ task' = [task EXCEPT !["devices"] = "idle"]
  /\ UNCHANGED <<worldVars, site, todo, clientVars, infraVars, configVars>>

(* _poll_device_stats, over the ids known when it starts.  A metric is     *)
(* stored; the threshold check that follows raises on the same import and  *)
(* is caught per device.  The ids that answered 404 are dropped at the     *)
(* end, also when the devices task has listed them again meanwhile.        *)
StartStats ==
  /\ task["stats"] = "fetch"
  /\ todo' = [todo EXCEPT !["stats"] = ids]
  /\ task' = [task EXCEPT !["stats"] = IF ids = {} THEN "idle" ELSE "work"]
  /\ UNCHANGED <<worldVars, site, clientVars, infraVars, configVars>>

DeviceStats(d) ==
  /\ d \in todo["stats"]
  /\ todo' = [todo EXCEPT !["stats"] = @ \ {d}]
  /\ noStats' \in {noStats, noStats \cup {d}}
  /\ UNCHANGED <<worldVars, site, task, clientVars, states, ids, listed, configVars>>

FinishStats ==
  /\ task["stats"] = "work" /\ todo["stats"] = {}
  /\ ids' = ids \ noStats /\ noStats' = {}
  /\ task' = [task EXCEPT !["stats"] = "idle"]
  /\ UNCHANGED <<worldVars, site, todo, clientVars, states, listed, configVars>>

-----------------------------------------------------------------------------
(* _poll_config, one of its three parts: the new configuration is cached,  *)
(* then stored in the Baseline row.  The event for a change fails on the   *)
(* same import, after the row was committed.  A store may fail.            *)
FetchConfig ==
  /\ task["config"] = "fetch"
  /\ cached' = epoch /\ task' = [task EXCEPT !["config"] = "work"]
  /\ UNCHANGED <<worldVars, site, todo, clientVars, infraVars, saved>>

StoreConfig ==
  /\ task["config"] = "work"
  /\ saved' \in {saved, cached}
  /\ task' = [task EXCEPT !["config"] = "idle"]
  /\ UNCHANGED <<worldVars, site, todo, clientVars, infraVars, cached>>

(* A restart forgets all but the Baseline rows.                            *)
UniFiRestart ==
  /\ site' = FALSE /\ task' = [t \in Tasks |-> "idle"] /\ todo' = [t \in Tasks |-> {}]
  /\ page' = {} /\ firstPoll' = TRUE /\ known' = {} /\ connected' = {}
  /\ states' = [d \in Infra |-> Unset] /\ ids' = {} /\ noStats' = {}
  /\ listed' = [d \in Infra |-> Unset] /\ cached' = NoConfig
  /\ start' = {} /\ arrivals' = [m \in Clients |-> 0] /\ departures' = [m \in Clients |-> 0]
  /\ listings' = [m \in Clients |-> 0] /\ heard' = [m \in Clients |-> 0]
  /\ UNCHANGED <<worldVars, saved>>

UniFiNext ==
  \/ \E m \in Clients : ClientMoves(m) \/ HandleClient(m)
  \/ \E d \in Infra : DeviceChanges(d) \/ HandleDevice(d) \/ DeviceStats(d)
  \/ Reconfigured
  \/ ResolveSite \/ StartPoll
  \/ \E t \in Tasks : RequestFails(t)
  \/ FetchClients \/ FinishClients
  \/ FetchDevices \/ FinishDevices
  \/ StartStats \/ FinishStats
  \/ FetchConfig \/ StoreConfig
  \/ UniFiRestart

UniFiSpec == UniFiInit /\ [][UniFiNext]_unifiVars

-----------------------------------------------------------------------------
(* unifi.py:265-270.  Between two starts of the collector all new_device   *)
(* events of a client come from one poll, at most one for each time its    *)
(* pages listed the client, and there is none if the first completed poll  *)
(* had it, however often it comes and goes and whatever pages fail.        *)
ArrivalsAreNew ==
  \A m \in Clients : arrivals[m] <= (IF m \in start THEN 0 ELSE heard[m])

(* unifi.py:271-278.  A client is reported as disconnected at most once    *)
(* after it was last seen, however many polls it stays away for.           *)
DepartsOnce == \A m \in Clients : departures[m] <= 1

(* unifi.py:655 "Record an infrastructure device state change."  When a    *)
(* devices poll has ended, the state it listed for a device is the one the *)
(* collector remembers.  It does not hold: at a changed state the task     *)
(* ends before the event is stored and the new state remembered, and the   *)
(* devices after it in the list are not looked at.                         *)
StateChangeRecorded ==
  task["devices"] = "idle" => \A d \in Infra : listed[d] \in {Unset, states[d]}
=============================================================================
