-------------------------- MODULE Collectors_proofs --------------------------
(***************************************************************************)
(* Proofs about the collectors that poll or listen: UniFi, the sniffer,    *)
(* nmap, Pi-hole and Plex; for any networks, any order of packets and      *)
(* answers, any limits and any failures.                                   *)
(***************************************************************************)
EXTENDS UniFi, Sniff, Pollers, TLAPS, FiniteSetTheorems

(* UniFi.                                                                  *)
(* Where an event comes from: a client that has one was new to a poll that *)
(* is still under way, or is remembered; that poll has listings of it left *)
(* for at most the events still missing; what the first poll had is        *)
(* remembered too; who is reported as gone is not taken for connected.     *)
ArrivalsCounted ==
  \A m \in Clients :
    /\ arrivals[m] <= heard[m]
    /\ m \notin known => arrivals[m] + listings[m] <= heard[m]
    /\ m \notin known /\ m \notin page => arrivals[m] = 0
ArrivalsLate == \A m \in Clients : arrivals[m] = 0 \/ (~firstPoll /\ m \notin start)
ArrivalsKnown == ArrivalsCounted /\ ArrivalsLate
ClientsRemembered ==
  /\ start \subseteq known
  /\ \A m \in Clients : listings[m] > 0 => m \in page
  /\ page # {} => task["clients"] = "work"
DeparturesKnown   == \A m \in Clients : departures[m] <= 1 /\ (departures[m] = 1 => m \notin connected)

UniFiInv == UniFiTypeOK /\ ArrivalsKnown /\ ClientsRemembered /\ DeparturesKnown

LEMMA UniFiInitially == ASSUME UniFiAssumption PROVE UniFiInit => UniFiInv
<1> SUFFICES ASSUME UniFiInit PROVE UniFiInv
  OBVIOUS
<1>1. MaxEpoch \in Nat /\ MaxReports \in Nat \ {0} /\ MaxListings \in Nat
  BY DEF UniFiAssumption
<1>2. UniFiTypeOK
  <2>1. /\ health \in [Infra -> States] /\ states \in [Infra -> States \cup {Unset}]
        /\ listed \in [Infra -> States \cup {Unset}]
    BY DEF UniFiInit, States
  <2>2. /\ task \in [Tasks -> {"idle", "fetch", "work"}]
        /\ todo \in [Tasks -> SUBSET Infra]
    BY DEF UniFiInit
  <2>3. /\ arrivals \in [Clients -> 0..MaxReports] /\ departures \in [Clients -> 0..MaxReports]
        /\ listings \in [Clients -> 0..MaxListings] /\ heard \in [Clients -> 0..MaxListings]
    BY <1>1 DEF UniFiInit
  <2>4. cached \in 0..NoConfig /\ saved \in 0..NoConfig /\ epoch \in 0..MaxEpoch
    BY <1>1 DEF UniFiInit, NoConfig
  <2> QED BY <2>1, <2>2, <2>3, <2>4 DEF UniFiInit, UniFiTypeOK
<1>3. ArrivalsKnown /\ ClientsRemembered /\ DeparturesKnown
  BY DEF UniFiInit, ArrivalsKnown, ArrivalsCounted, ArrivalsLate, ClientsRemembered, DeparturesKnown, Tasks
<1> QED BY <1>2, <1>3 DEF UniFiInv

-----------------------------------------------------------------------------
(* A step that is not of the clients task.                                 *)
LEMMA ElsewhereKeeps ==
  ASSUME UniFiAssumption, UniFiInv, UniFiTypeOK',
         UNCHANGED clientVars,
         task["clients"] = "work" => task'["clients"] = "work"
  PROVE  UniFiInv'
<1>1. ArrivalsKnown' /\ ClientsRemembered' /\ DeparturesKnown'
  BY DEF UniFiInv, ArrivalsKnown, ArrivalsCounted, ArrivalsLate, ClientsRemembered, DeparturesKnown,
         clientVars
<1> QED BY <1>1 DEF UniFiInv

LEMMA UniFiWorldStep ==
  ASSUME UniFiAssumption, UniFiInv,
         \/ \E m \in Clients : ClientMoves(m)
         \/ \E d \in Infra : DeviceChanges(d)
         \/ Reconfigured \/ ResolveSite \/ UNCHANGED unifiVars
  PROVE  UniFiInv'
<1>t. UniFiTypeOK /\ MaxEpoch \in Nat
  BY DEF UniFiInv, UniFiAssumption
<1>1. /\ UNCHANGED <<task, todo, clientVars, infraVars, configVars, gather>>
      /\ net' \subseteq Clients /\ health' \in [Infra -> States] /\ epoch' \in 0..MaxEpoch
      /\ site' \in BOOLEAN
  <2>1. ASSUME NEW m \in Clients, ClientMoves(m)
        PROVE  net' \subseteq Clients /\ UNCHANGED <<health, epoch, site, gather>>
    BY <1>t, <2>1 DEF ClientMoves, UniFiTypeOK
  <2>2. ASSUME NEW d \in Infra, DeviceChanges(d)
        PROVE  health' \in [Infra -> States] /\ UNCHANGED <<net, epoch, site, gather>>
    BY <1>t, <2>2 DEF DeviceChanges, UniFiTypeOK
  <2>3. Reconfigured => epoch' \in 0..MaxEpoch /\ UNCHANGED <<net, health, site, gather>>
    BY <1>t DEF Reconfigured, UniFiTypeOK
  <2>4. ResolveSite => site' \in BOOLEAN /\ UNCHANGED <<net, health, epoch, gather>>
    BY DEF ResolveSite, worldVars
  <2>5. UNCHANGED <<task, todo, clientVars, infraVars, configVars>>
    BY DEF ClientMoves, DeviceChanges, Reconfigured, ResolveSite, unifiVars
  <2>6. UNCHANGED unifiVars => UNCHANGED <<net, health, epoch, gather, site>>
    BY DEF unifiVars, worldVars
  <2> QED BY <1>t, <2>1, <2>2, <2>3, <2>4, <2>5, <2>6 DEF UniFiTypeOK
<1>2. UniFiTypeOK'
  BY <1>1, <1>t DEF UniFiTypeOK, clientVars, infraVars, configVars
<1> QED BY <1>1, <1>2, ElsewhereKeeps DEF clientVars

LEMMA PollStep ==
  ASSUME UniFiAssumption, UniFiInv,
         StartPoll \/ (\E t \in Tasks : RequestFails(t)) \/ FinishDevices
  PROVE  UniFiInv'
<1>t. UniFiTypeOK
  BY DEF UniFiInv
<1>1. /\ UNCHANGED <<worldVars, site, todo, clientVars, infraVars, configVars>>
      /\ task' \in [Tasks -> {"idle", "fetch", "work"}]
      /\ task["clients"] = "work" => task'["clients"] = "work"
  <2>1. ASSUME StartPoll
        PROVE  /\ task' \in [Tasks -> {"idle", "fetch", "work"}]
               /\ task["clients"] # "work"
    <3>1. task["clients"] # "work"
      BY <2>1 DEF StartPoll, Idle, Tasks
    <3> QED BY <2>1, <3>1 DEF StartPoll
  <2>2. ASSUME NEW t \in Tasks, RequestFails(t)
        PROVE  /\ task' \in [Tasks -> {"idle", "fetch", "work"}]
               /\ task["clients"] = "work" => task'["clients"] = "work"
    BY <1>t, <2>2 DEF RequestFails, UniFiTypeOK
  <2>3. FinishDevices => /\ task' \in [Tasks -> {"idle", "fetch", "work"}]
                         /\ task["clients"] = "work" => task'["clients"] = "work"
    BY <1>t DEF FinishDevices, UniFiTypeOK, Tasks
  <2> QED BY <2>1, <2>2, <2>3 DEF StartPoll, RequestFails, FinishDevices
<1>2. UniFiTypeOK'
  BY <1>1, <1>t DEF UniFiTypeOK, clientVars, infraVars, configVars, worldVars
<1> QED BY <1>1, <1>2, ElsewhereKeeps DEF clientVars

LEMMA DevicesStep ==
  ASSUME UniFiAssumption, UniFiInv,
         FetchDevices \/ (\E d \in Infra : HandleDevice(d))
  PROVE  UniFiInv'
<1>t. UniFiTypeOK
  BY DEF UniFiInv
<1>1. /\ UNCHANGED <<worldVars, site, clientVars, noStats, configVars>>
      /\ task' \in [Tasks -> {"idle", "fetch", "work"}] /\ task'["clients"] = task["clients"]
      /\ todo' \in [Tasks -> SUBSET Infra]
      /\ ids' \subseteq Infra
      /\ states' \in [Infra -> States \cup {Unset}] /\ listed' \in [Infra -> States \cup {Unset}]
  <2>1. CASE FetchDevices
    <3>1. PICK got \in SUBSET Infra :
            /\ todo' = [todo EXCEPT !["devices"] = got]
            /\ listed' = [d \in Infra |-> IF d \in got THEN health[d] ELSE Unset]
      BY <2>1 DEF FetchDevices
    <3>2. listed' \in [Infra -> States \cup {Unset}]
      BY <3>1, <1>t DEF UniFiTypeOK
    <3>3. /\ task' \in [Tasks -> {"idle", "fetch", "work"}] /\ task'["clients"] = task["clients"]
      BY <2>1, <1>t DEF FetchDevices, UniFiTypeOK, Tasks
    <3>4. todo' \in [Tasks -> SUBSET Infra]
      BY <3>1, <1>t DEF UniFiTypeOK, Tasks
    <3> QED BY <2>1, <1>t, <3>2, <3>3, <3>4 DEF FetchDevices, UniFiTypeOK
  <2>2. ASSUME NEW d \in Infra, HandleDevice(d)
        PROVE  /\ UNCHANGED <<worldVars, site, task, clientVars, listed, noStats, configVars>>
               /\ todo' \in [Tasks -> SUBSET Infra]
               /\ ids' \subseteq Infra
               /\ states' \in [Infra -> States \cup {Unset}]
    <3>1. /\ todo' = [todo EXCEPT !["devices"] = {}]
             \/ todo' = [todo EXCEPT !["devices"] = todo["devices"] \ {d}]
          /\ states' = states \/ states' = [states EXCEPT ![d] = listed[d]]
      BY <2>2 DEF HandleDevice
    <3>2. todo' \in [Tasks -> SUBSET Infra]
      BY <3>1, <1>t DEF UniFiTypeOK, Tasks
    <3>3. states' \in [Infra -> States \cup {Unset}]
      BY <3>1, <1>t DEF UniFiTypeOK
    <3> QED BY <2>2, <3>2, <3>3, <1>t DEF HandleDevice, UniFiTypeOK
  <2> QED BY <2>1, <2>2, <1>t DEF UniFiTypeOK
<1>2. UniFiTypeOK'
  BY <1>1, <1>t DEF UniFiTypeOK, clientVars, configVars, worldVars
<1> QED BY <1>1, <1>2, ElsewhereKeeps DEF clientVars

LEMMA StatsStep ==
  ASSUME UniFiAssumption, UniFiInv,
         StartStats \/ (\E d \in Infra : DeviceStats(d)) \/ FinishStats
  PROVE  UniFiInv'
<1>t. UniFiTypeOK
  BY DEF UniFiInv
<1>1. /\ UNCHANGED <<worldVars, site, clientVars, states, listed, configVars>>
      /\ task' \in [Tasks -> {"idle", "fetch", "work"}] /\ task'["clients"] = task["clients"]
      /\ todo' \in [Tasks -> SUBSET Infra]
      /\ ids' \subseteq Infra /\ noStats' \subseteq Infra
  <2>1. CASE StartStats
    <3>1. task' \in [Tasks -> {"idle", "fetch", "work"}] /\ task'["clients"] = task["clients"]
      BY <2>1, <1>t DEF StartStats, UniFiTypeOK, Tasks
    <3>2. todo' \in [Tasks -> SUBSET Infra]
      BY <2>1, <1>t DEF StartStats, UniFiTypeOK, Tasks
    <3> QED BY <2>1, <1>t, <3>1, <3>2 DEF StartStats, UniFiTypeOK, infraVars
  <2>2. ASSUME NEW d \in Infra, DeviceStats(d)
        PROVE  /\ todo' \in [Tasks -> SUBSET Infra]
               /\ noStats' \subseteq Infra
    <3>1. todo' = [todo EXCEPT !["stats"] = todo["stats"] \ {d}] /\ noStats' \in {noStats, noStats \cup {d}}
      BY <2>2 DEF DeviceStats
    <3> QED BY <3>1, <1>t DEF UniFiTypeOK, Tasks
  <2>3. FinishStats => /\ task' \in [Tasks -> {"idle", "fetch", "work"}]
                       /\ task'["clients"] = task["clients"]
                       /\ ids' \subseteq Infra /\ noStats' \subseteq Infra
    BY <1>t DEF FinishStats, UniFiTypeOK, Tasks
  <2>4. \A d \in Infra : DeviceStats(d) =>
           UNCHANGED <<worldVars, site, task, clientVars, states, ids, listed, configVars>>
    BY DEF DeviceStats
  <2>5. FinishStats => UNCHANGED <<worldVars, site, todo, clientVars, states, listed, configVars>>
    BY DEF FinishStats
  <2> QED BY <2>1, <2>2, <2>3, <2>4, <2>5, <1>t DEF UniFiTypeOK
<1>2. UniFiTypeOK'
  BY <1>1, <1>t DEF UniFiTypeOK, clientVars, configVars, worldVars
<1> QED BY <1>1, <1>2, ElsewhereKeeps DEF clientVars

LEMMA ConfigStep ==
  ASSUME UniFiAssumption, UniFiInv, FetchConfig \/ StoreConfig
  PROVE  UniFiInv'
<1>t. UniFiTypeOK /\ MaxEpoch \in Nat
  BY DEF UniFiInv, UniFiAssumption
<1>1. /\ UNCHANGED <<worldVars, site, todo, clientVars, infraVars>>
      /\ task' \in [Tasks -> {"idle", "fetch", "work"}] /\ task'["clients"] = task["clients"]
      /\ cached' \in 0..NoConfig /\ saved' \in 0..NoConfig
  <2>1. CASE FetchConfig
    <3>1. cached' \in 0..NoConfig /\ saved' \in 0..NoConfig
      BY <2>1, <1>t DEF FetchConfig, UniFiTypeOK, NoConfig
    <3> QED BY <2>1, <3>1, <1>t DEF FetchConfig, UniFiTypeOK, Tasks
  <2>2. CASE StoreConfig
    <3>1. cached' \in 0..NoConfig /\ saved' \in 0..NoConfig
      BY <2>2, <1>t DEF StoreConfig, UniFiTypeOK
    <3> QED BY <2>2, <3>1, <1>t DEF StoreConfig, UniFiTypeOK, Tasks
  <2> QED BY <2>1, <2>2
<1>2. UniFiTypeOK'
  BY <1>1, <1>t DEF UniFiTypeOK, clientVars, infraVars, worldVars
<1> QED BY <1>1, <1>2, ElsewhereKeeps DEF clientVars

-----------------------------------------------------------------------------
(* The clients task.                                                       *)
LEMMA ClientsFetched ==
  ASSUME UniFiAssumption, UniFiInv, FetchClients
  PROVE  UniFiInv'
<1>t. UniFiTypeOK /\ ArrivalsKnown /\ ClientsRemembered /\ DeparturesKnown /\ MaxListings \in Nat
  BY DEF UniFiInv, UniFiAssumption
<1>1. PICK times \in [net -> 0..MaxListings] :
        /\ listings' = [m \in Clients |-> IF m \in net THEN times[m] ELSE 0]
        /\ page' = {m \in net : times[m] > 0}
  BY DEF FetchClients
<1>2. /\ task["clients"] = "fetch" /\ net \subseteq Clients
      /\ task' = [task EXCEPT !["clients"] = "work"]
      /\ heard' = [m \in Clients |-> IF arrivals[m] > 0 THEN heard[m] ELSE listings'[m]]
      /\ UNCHANGED <<worldVars, site, todo, firstPoll, known, connected, start, arrivals, departures,
                     infraVars, configVars>>
  BY <1>t DEF FetchClients, UniFiTypeOK
<1>3. /\ page' \subseteq Clients /\ listings' \in [Clients -> 0..MaxListings]
      /\ \A m \in Clients : listings'[m] > 0 => m \in page'
  BY <1>1, <1>2, <1>t
<1>4. heard' \in [Clients -> 0..MaxListings]
  BY <1>2, <1>3, <1>t DEF UniFiTypeOK
<1>5. /\ task' \in [Tasks -> {"idle", "fetch", "work"}] /\ task'["clients"] = "work"
  BY <1>2, <1>t DEF UniFiTypeOK, Tasks
<1>6. UniFiTypeOK'
  BY <1>2, <1>3, <1>4, <1>5, <1>t DEF UniFiTypeOK, worldVars, infraVars, configVars
<1>7. ArrivalsCounted'
  <2> SUFFICES ASSUME NEW m \in Clients
               PROVE  /\ arrivals'[m] <= heard'[m]
                      /\ m \notin known' => arrivals'[m] + listings'[m] <= heard'[m]
                      /\ m \notin known' /\ m \notin page' => arrivals'[m] = 0
    BY DEF ArrivalsCounted
  <2>1. /\ arrivals[m] \in Nat /\ heard[m] \in Nat /\ listings'[m] \in Nat
        /\ arrivals'[m] = arrivals[m] /\ known' = known
        /\ heard'[m] = IF arrivals[m] > 0 THEN heard[m] ELSE listings'[m]
    BY <1>2, <1>3, <1>t DEF UniFiTypeOK
  <2>2. m \notin page
    BY <1>2, <1>t DEF ClientsRemembered
  <2>3. arrivals[m] <= heard[m] /\ (m \notin known => arrivals[m] = 0)
    BY <1>t, <2>2 DEF ArrivalsKnown, ArrivalsCounted
  <2> QED BY <2>1, <2>3
<1>9. ArrivalsLate'
  BY <1>2, <1>t DEF ArrivalsKnown, ArrivalsLate
<1>8. ClientsRemembered' /\ DeparturesKnown'
  BY <1>2, <1>3, <1>5, <1>t DEF ClientsRemembered, DeparturesKnown
<1> QED BY <1>6, <1>7, <1>8, <1>9 DEF UniFiInv, ArrivalsKnown

LEMMA ClientHandled ==
  ASSUME UniFiAssumption, UniFiInv, NEW m \in Clients, HandleClient(m)
  PROVE  UniFiInv'
<1>t. /\ UniFiTypeOK /\ ArrivalsKnown /\ ClientsRemembered /\ DeparturesKnown
      /\ MaxReports \in Nat \ {0} /\ MaxListings \in Nat
  BY DEF UniFiInv, UniFiAssumption
<1>1. /\ listings[m] > 0 /\ listings' = [listings EXCEPT ![m] = listings[m] - 1]
      /\ UNCHANGED <<worldVars, site, task, todo, page, firstPoll, known, connected, start, departures,
                     heard, infraVars, configVars>>
  BY DEF HandleClient
<1>2. /\ listings' \in [Clients -> 0..MaxListings] /\ listings'[m] = listings[m] - 1
      /\ \A n \in Clients : n # m => listings'[n] = listings[n]
  BY <1>1, <1>t DEF UniFiTypeOK
<1>3. ASSUME arrivals' # arrivals
      PROVE  /\ ReportsArrival(m) /\ arrivals' = [arrivals EXCEPT ![m] = CappedCount(arrivals[m])]
             /\ CappedCount(arrivals[m]) \in 0..MaxReports /\ CappedCount(arrivals[m]) <= arrivals[m] + 1
  <2>1. ReportsArrival(m) /\ arrivals' = [arrivals EXCEPT ![m] = CappedCount(arrivals[m])]
    BY <1>3 DEF HandleClient, NewClientEvent
  <2>2. arrivals[m] \in 0..MaxReports
    BY <1>t DEF UniFiTypeOK
  <2>3. CappedCount(arrivals[m]) \in 0..MaxReports /\ CappedCount(arrivals[m]) <= arrivals[m] + 1
    BY <2>2, <1>t DEF CappedCount
  <2> QED BY <2>1, <2>3
<1>4. arrivals' \in [Clients -> 0..MaxReports]
  BY <1>3, <1>t DEF UniFiTypeOK
<1>5. UniFiTypeOK'
  BY <1>1, <1>2, <1>4, <1>t DEF UniFiTypeOK, worldVars, infraVars, configVars
<1>6. ArrivalsCounted'
  <2> SUFFICES ASSUME NEW n \in Clients
               PROVE  /\ arrivals'[n] <= heard'[n]
                      /\ n \notin known' => arrivals'[n] + listings'[n] <= heard'[n]
                      /\ n \notin known' /\ n \notin page' => arrivals'[n] = 0
    BY DEF ArrivalsCounted
  <2>1. /\ arrivals[n] \in Nat /\ heard[n] \in Nat /\ listings[n] \in Nat /\ heard'[n] = heard[n]
        /\ listings'[n] \in Nat /\ listings'[n] <= listings[n] /\ known' = known /\ page' = page
    BY <1>1, <1>2, <1>t DEF UniFiTypeOK
  <2>2. /\ arrivals[n] <= heard[n]
        /\ n \notin known => arrivals[n] + listings[n] <= heard[n]
        /\ n \notin known /\ n \notin page => arrivals[n] = 0
    BY <1>t DEF ArrivalsKnown, ArrivalsCounted
  <2>3. CASE arrivals'[n] = arrivals[n]
    BY <2>1, <2>2, <2>3
  <2>4. CASE arrivals'[n] # arrivals[n]
    <3>1. n = m /\ arrivals'[n] <= arrivals[n] + 1 /\ arrivals'[n] \in Nat /\ m \notin known
      BY <1>3, <1>t, <2>4 DEF UniFiTypeOK, ReportsArrival
    <3>2. m \in page /\ listings'[m] = listings[m] - 1
      BY <1>1, <1>2, <1>t DEF ClientsRemembered
    <3> QED BY <2>1, <2>2, <3>1, <3>2
  <2> QED BY <2>3, <2>4
<1>8. ArrivalsLate'
  <2> SUFFICES ASSUME NEW n \in Clients
               PROVE  arrivals'[n] = 0 \/ (~firstPoll' /\ n \notin start')
    BY DEF ArrivalsLate
  <2>1. arrivals[n] = 0 \/ (~firstPoll /\ n \notin start)
    BY <1>t DEF ArrivalsKnown, ArrivalsLate
  <2>2. firstPoll' = firstPoll /\ start' = start
    BY <1>1
  <2>3. CASE arrivals'[n] = arrivals[n]
    BY <2>1, <2>2, <2>3
  <2>4. CASE arrivals'[n] # arrivals[n]
    <3>1. n = m /\ ReportsArrival(m)
      BY <1>3, <1>t, <2>4 DEF UniFiTypeOK
    <3>2. m \notin known /\ ~firstPoll
      BY <3>1 DEF ReportsArrival
    <3>3. m \notin start
      BY <3>2, <1>t DEF ClientsRemembered
    <3> QED BY <2>2, <3>1, <3>2, <3>3
  <2> QED BY <2>3, <2>4
<1>7. ClientsRemembered' /\ DeparturesKnown'
  <2>1. ASSUME NEW n \in Clients, listings'[n] > 0 PROVE n \in page'
    <3>1. listings[n] > 0
      BY <1>1, <1>2, <2>1, <1>t DEF UniFiTypeOK
    <3> QED BY <3>1, <1>1, <1>t DEF ClientsRemembered
  <2> QED BY <1>1, <2>1, <1>t DEF ClientsRemembered, DeparturesKnown
<1> QED BY <1>5, <1>6, <1>7, <1>8 DEF UniFiInv, ArrivalsKnown

LEMMA ClientsFinished ==
  ASSUME UniFiAssumption, UniFiInv, FinishClients
  PROVE  UniFiInv'
<1>t. UniFiTypeOK /\ ArrivalsKnown /\ ClientsRemembered /\ DeparturesKnown /\ MaxReports \in Nat \ {0}
  BY DEF UniFiInv, UniFiAssumption
<1>1. /\ task["clients"] = "work" /\ (\A m \in Clients : listings[m] = 0) /\ page \subseteq Clients
      /\ known' = known \cup page /\ connected' = page
      /\ start' = (IF firstPoll THEN page ELSE start)
      /\ firstPoll' = FALSE /\ page' = {}
      /\ task' = [task EXCEPT !["clients"] = "idle"]
      /\ UNCHANGED <<worldVars, site, todo, listings, arrivals, heard, infraVars, configVars>>
  BY <1>t DEF FinishClients, RememberClients, UniFiTypeOK
<1>2. PICK stored \in SUBSET connected :
        departures' = [m \in Clients |-> IF m \in page THEN 0
                      ELSE IF m \in stored THEN CappedCount(departures[m]) ELSE departures[m]]
  BY DEF FinishClients, DisconnectEvents
<1>3. ASSUME NEW m \in Clients
      PROVE  /\ departures'[m] \in 0..MaxReports
             /\ departures'[m] <= 1 /\ (departures'[m] = 1 => m \notin connected')
  <2>1. CASE m \in page
    BY <1>2, <1>t, <2>1
  <2>2. CASE m \notin page /\ m \in stored
    <3>1. departures[m] = 0
      BY <1>t, <2>2 DEF DeparturesKnown, UniFiTypeOK
    <3>2. departures'[m] = 1
      BY <1>2, <1>t, <2>2, <3>1 DEF CappedCount
    <3> QED BY <1>1, <1>t, <2>2, <3>2
  <2>3. CASE m \notin page /\ m \notin stored
    <3>1. departures'[m] = departures[m]
      BY <1>2, <2>3
    <3> QED BY <1>1, <1>t, <2>3, <3>1 DEF DeparturesKnown, UniFiTypeOK
  <2> QED BY <2>1, <2>2, <2>3
<1>4. departures' \in [Clients -> 0..MaxReports]
  BY <1>2, <1>3
<1>5. task' \in [Tasks -> {"idle", "fetch", "work"}] /\ task'["clients"] = "idle"
  BY <1>1, <1>t DEF UniFiTypeOK, Tasks
<1>6. UniFiTypeOK'
  BY <1>1, <1>4, <1>5, <1>t DEF UniFiTypeOK, worldVars, infraVars, configVars
<1>7. ArrivalsCounted'
  <2> SUFFICES ASSUME NEW m \in Clients
               PROVE  /\ arrivals'[m] <= heard'[m]
                      /\ m \notin known' => arrivals'[m] + listings'[m] <= heard'[m] /\ arrivals'[m] = 0
    BY DEF ArrivalsCounted
  <2>1. /\ arrivals[m] \in Nat /\ heard[m] \in Nat /\ listings'[m] = 0
        /\ arrivals'[m] = arrivals[m] /\ heard'[m] = heard[m]
    BY <1>1, <1>t DEF UniFiTypeOK
  <2>2. arrivals[m] <= heard[m]
    BY <1>t DEF ArrivalsKnown, ArrivalsCounted
  <2>3. m \notin known' => arrivals[m] = 0
    BY <1>1, <1>t DEF ArrivalsKnown, ArrivalsCounted
  <2> QED BY <2>1, <2>2, <2>3
<1>9. ArrivalsLate'
  <2> SUFFICES ASSUME NEW m \in Clients
               PROVE  arrivals'[m] = 0 \/ (~firstPoll' /\ m \notin start')
    BY DEF ArrivalsLate
  <2>1. arrivals[m] = 0 \/ (~firstPoll /\ m \notin start)
    BY <1>t DEF ArrivalsKnown, ArrivalsLate
  <2>2. arrivals'[m] = arrivals[m] /\ firstPoll' = FALSE /\ (firstPoll \/ start' = start)
    BY <1>1
  <2> QED BY <2>1, <2>2, Zenon
<1>8. ClientsRemembered' /\ DeparturesKnown'
  BY <1>1, <1>3, <1>5, <1>t DEF ClientsRemembered, DeparturesKnown
<1> QED BY <1>6, <1>7, <1>8, <1>9 DEF UniFiInv, ArrivalsKnown

LEMMA UniFiRestarted ==
  ASSUME UniFiAssumption, UniFiInv, UniFiRestart
  PROVE  UniFiInv'
<1>t. UniFiTypeOK /\ MaxEpoch \in Nat /\ MaxReports \in Nat \ {0} /\ MaxListings \in Nat
  BY DEF UniFiInv, UniFiAssumption
<1>1. /\ task' \in [Tasks -> {"idle", "fetch", "work"}] /\ todo' \in [Tasks -> SUBSET Infra]
      /\ task'["clients"] = "idle"
  BY DEF UniFiRestart, Tasks
<1>2. /\ states' \in [Infra -> States \cup {Unset}] /\ listed' \in [Infra -> States \cup {Unset}]
      /\ arrivals' \in [Clients -> 0..MaxReports] /\ departures' \in [Clients -> 0..MaxReports]
      /\ listings' \in [Clients -> 0..MaxListings] /\ heard' \in [Clients -> 0..MaxListings]
      /\ cached' \in 0..NoConfig
  BY <1>t DEF UniFiRestart, NoConfig
<1>3. UniFiTypeOK'
  BY <1>1, <1>2, <1>t DEF UniFiRestart, UniFiTypeOK, worldVars
<1>4. /\ start' = {} /\ page' = {}
      /\ \A m \in Clients : /\ arrivals'[m] = 0 /\ departures'[m] = 0
                            /\ listings'[m] = 0 /\ heard'[m] = 0
  BY DEF UniFiRestart
<1>5. ArrivalsKnown' /\ ClientsRemembered' /\ DeparturesKnown'
  BY <1>1, <1>4 DEF ArrivalsKnown, ArrivalsCounted, ArrivalsLate, ClientsRemembered, DeparturesKnown
<1> QED BY <1>3, <1>5 DEF UniFiInv

LEMMA UniFiSteps == ASSUME UniFiAssumption, UniFiInv, [UniFiNext]_unifiVars PROVE UniFiInv'
BY UniFiWorldStep, PollStep, DevicesStep, StatsStep, ConfigStep, ClientsFetched, ClientHandled,
   ClientsFinished, UniFiRestarted DEF UniFiNext

(* Every variable of the UniFi collector keeps its type.                   *)
THEOREM UniFiTypeCorrect == ASSUME UniFiAssumption PROVE UniFiSpec => []UniFiTypeOK
<1>1. UniFiInv /\ [UniFiNext]_unifiVars => UniFiInv'
  BY UniFiSteps
<1>2. UniFiInv => UniFiTypeOK
  BY DEF UniFiInv
<1> QED BY <1>1, <1>2, UniFiInitially, PTL DEF UniFiSpec

(* unifi.py:265-270.  Between two starts all new_device events of a client *)
(* come from one poll, at most one for each time its pages listed the      *)
(* client, and there is none if the first completed poll had it.           *)
THEOREM OneArrivalPerClient == ASSUME UniFiAssumption PROVE UniFiSpec => []ArrivalsAreNew
<1>1. UniFiInit => UniFiInv
  BY UniFiInitially
<1>2. UniFiInv /\ [UniFiNext]_unifiVars => UniFiInv'
  BY UniFiSteps
<1>3. UniFiInv => ArrivalsAreNew
  <2> SUFFICES ASSUME UniFiInv, NEW m \in Clients
               PROVE  arrivals[m] <= IF m \in start THEN 0 ELSE heard[m]
    BY DEF ArrivalsAreNew
  <2>1. /\ arrivals[m] \in Nat /\ arrivals[m] <= heard[m]
        /\ m \in start => arrivals[m] = 0
    BY DEF UniFiInv, UniFiTypeOK, ArrivalsKnown, ArrivalsCounted, ArrivalsLate
  <2> QED BY <2>1
<1> QED BY <1>1, <1>2, <1>3, PTL DEF UniFiSpec

(* unifi.py:271-278.  A client is reported as gone at most once after it   *)
(* was last seen.                                                          *)
THEOREM OneDepartureEach == ASSUME UniFiAssumption PROVE UniFiSpec => []DepartsOnce
<1>1. UniFiInit => UniFiInv
  BY UniFiInitially
<1>2. UniFiInv /\ [UniFiNext]_unifiVars => UniFiInv'
  BY UniFiSteps
<1>3. UniFiInv => DepartsOnce
  BY DEF UniFiInv, DeparturesKnown, DepartsOnce
<1> QED BY <1>1, <1>2, <1>3, PTL DEF UniFiSpec

-----------------------------------------------------------------------------
(* The sniffer.  What has been reported of an address is normal for it     *)
(* now, and one MAC of it was normal without a report; before the freeze   *)
(* nothing is normal and nothing has been reported.                        *)
JudgedOn(table) ==
  \A i \in Ips : /\ \A m \in ArpMacs : conflicts[<<i, m>>] \in {0, 1}
                 /\ Reported(i) \subseteq table[i]
                 /\ table[i] # {} => table[i] # Reported(i)
                 /\ Cardinality(Reported(i)) < MaxStable
NothingLearnt ==
  /\ infra = {} /\ stable = [i \in Ips |-> {}]
  /\ conflicts = [x \in Ips \X ArpMacs |-> 0]

SniffInv ==
  /\ SniffTypeOK /\ JudgedOn(stable)
  /\ phase # "frozen" => NothingLearnt
  /\ InfraReportedByFreezeOnly

LEMMA NothingReported ==
  ASSUME SniffAssumption, conflicts = [x \in Ips \X ArpMacs |-> 0],
         NEW table \in [Ips -> SUBSET ArpMacs]
  PROVE  JudgedOn(table)
<1>1. ASSUME NEW i \in Ips, NEW m \in ArpMacs PROVE conflicts[<<i, m>>] = 0
  OBVIOUS
<1>2. ASSUME NEW i \in Ips PROVE Reported(i) = {}
  BY <1>1 DEF Reported
<1>3. Cardinality({}) = 0 /\ MaxStable \in Nat \ {0}
  BY FS_EmptySet DEF SniffAssumption
<1>4. ASSUME NEW i \in Ips PROVE Cardinality(Reported(i)) < MaxStable
  <2>1. Cardinality(Reported(i)) = 0
    BY <1>2, <1>3, Zenon
  <2> QED BY <1>3, <2>1
<1>5. ASSUME NEW i \in Ips
      PROVE  /\ \A m \in ArpMacs : conflicts[<<i, m>>] \in {0, 1}
             /\ Reported(i) \subseteq table[i]
             /\ table[i] # {} => table[i] # Reported(i)
  BY <1>1, <1>2
<1> QED BY <1>4, <1>5 DEF JudgedOn

LEMMA SniffInitially == ASSUME SniffAssumption PROVE SniffInit => SniffInv
<1> SUFFICES ASSUME SniffInit PROVE SniffInv
  OBVIOUS
<1>0. NothingLearnt
  BY DEF SniffInit, NothingLearnt
<1>1. SniffTypeOK
  BY DEF SniffInit, SniffTypeOK
<1>2. JudgedOn(stable)
  BY <1>0, <1>1, NothingReported DEF SniffTypeOK, NothingLearnt
<1>3. InfraReportedByFreezeOnly
  <2>1. {x \in Ips \X infra : conflicts[x] > 0} = {}
    BY <1>0 DEF NothingLearnt
  <2> QED BY <2>1, FS_EmptySet DEF InfraReportedByFreezeOnly
<1> QED BY <1>0, <1>1, <1>2, <1>3 DEF SniffInv

LEMMA SniffRestarted == ASSUME SniffAssumption PROVE SniffRestart => SniffInv'
<1>1. SniffRestart => SniffInit'
  BY DEF SniffRestart, SniffInit
<1>2. SniffInit' => SniffInv'
  BY SniffInitially, PTL
<1> QED BY <1>1, <1>2

(* A judgement reports nothing, or a MAC that it then takes for normal,    *)
(* while fewer than MaxStable are.                                         *)
LEMMA JudgementKeeps ==
  ASSUME SniffAssumption, conflicts \in [Ips \X ArpMacs -> Nat],
         NEW i \in Ips, NEW m \in ArpMacs, NEW normal \in [Ips -> SUBSET ArpMacs],
         JudgedOn(normal), Judge(i, m, normal)
  PROVE  /\ stable' \in [Ips -> SUBSET ArpMacs] /\ conflicts' \in [Ips \X ArpMacs -> Nat]
         /\ \A x \in Ips \X ArpMacs : x # <<i, m>> => conflicts'[x] = conflicts[x]
         /\ JudgedOn(stable)'
<1>1. stable' = [normal EXCEPT ![i] = @ \cup {m}]
  BY DEF Judge
<1>2. stable' \in [Ips -> SUBSET ArpMacs]
  BY <1>1
<1>3. CASE UNCHANGED conflicts
  <2>1. ASSUME NEW j \in Ips PROVE Reported(j)' = Reported(j)
    BY <1>3 DEF Reported
  <2>2. ASSUME NEW j \in Ips
        PROVE  Reported(j) \subseteq stable'[j] /\ (stable'[j] # {} => stable'[j] # Reported(j))
    <3>1. CASE normal[j] # {}
      BY <3>1, <1>1 DEF JudgedOn
    <3>2. CASE normal[j] = {}
      BY <3>2, <1>1 DEF JudgedOn
    <3> QED BY <3>1, <3>2
  <2> QED BY <1>2, <1>3, <2>1, <2>2 DEF JudgedOn
<1>4. CASE /\ normal[i] # {} /\ m \notin normal[i] /\ Cardinality(normal[i]) < MaxStable
           /\ conflicts' = [conflicts EXCEPT ![<<i, m>>] = @ + 1]
  <2>1. conflicts[<<i, m>>] = 0 /\ m \notin Reported(i)
    <3>1. m \notin Reported(i) /\ conflicts[<<i, m>>] \in {0, 1}
      BY <1>4 DEF JudgedOn
    <3> QED BY <3>1 DEF Reported
  <2>2. /\ conflicts' \in [Ips \X ArpMacs -> Nat] /\ conflicts'[<<i, m>>] = 1
        /\ \A x \in Ips \X ArpMacs : x # <<i, m>> => conflicts'[x] = conflicts[x]
    BY <1>4, <2>1
  <2>3. ASSUME NEW j \in Ips, NEW n \in ArpMacs, <<j, n>> # <<i, m>>
        PROVE  conflicts'[<<j, n>>] = conflicts[<<j, n>>]
    BY <2>2, <2>3
  <2>4. Reported(i)' = Reported(i) \cup {m}
    BY <2>2, <2>3 DEF Reported
  <2>5. ASSUME NEW j \in Ips, j # i PROVE Reported(j)' = Reported(j)
    BY <2>3, <2>5 DEF Reported
  <2>6. Cardinality(Reported(i)') < MaxStable
    <3>1. IsFiniteSet(normal[i]) /\ Reported(i) \in SUBSET normal[i] /\ Reported(i) # normal[i]
      BY <1>4, FS_Subset DEF JudgedOn, SniffAssumption
    <3>2. IsFiniteSet(Reported(i)) /\ Cardinality(Reported(i)) < Cardinality(normal[i])
      BY <3>1, FS_Subset, FS_CardinalityType
    <3>3. Cardinality(Reported(i)') = Cardinality(Reported(i)) + 1
      <4>1. Cardinality(Reported(i) \cup {m}) = Cardinality(Reported(i)) + 1
        BY <2>1, <3>2, FS_AddElement
      <4> QED BY <2>4, <4>1
    <3>4. /\ Cardinality(Reported(i)) \in Nat /\ Cardinality(normal[i]) \in Nat
          /\ Cardinality(normal[i]) < MaxStable /\ MaxStable \in Nat
      BY <1>4, <3>1, <3>2, FS_CardinalityType DEF SniffAssumption
    <3> QED BY <3>2, <3>3, <3>4
  <2>7. /\ Reported(i)' \subseteq stable'[i] /\ stable'[i] # Reported(i)'
        /\ \A j \in Ips : j # i => stable'[j] = normal[j]
    <3>1. Reported(i) \subseteq normal[i] /\ normal[i] # Reported(i)
      BY <1>4 DEF JudgedOn
    <3>2. /\ stable'[i] = normal[i] \cup {m}
          /\ \A j \in Ips : j # i => stable'[j] = normal[j]
      BY <1>1
    <3> QED BY <1>4, <2>4, <3>1, <3>2
  <2>8. \A j \in Ips, n \in ArpMacs : conflicts'[<<j, n>>] \in {0, 1}
    BY <2>2, <2>3 DEF JudgedOn
  <2>9. JudgedOn(stable)'
    BY <2>5, <2>6, <2>7, <2>8 DEF JudgedOn
  <2> QED BY <1>2, <2>2, <2>9
<1> QED BY <1>3, <1>4 DEF Judge

LEMMA ArpStep ==
  ASSUME SniffAssumption, SniffInv,
         NEW op \in {"request", "reply"}, NEW m \in ArpMacs, NEW psrc \in Ips, NEW pdst \in Ips,
         Arp(op, m, psrc, pdst)
  PROVE  SniffInv'
<1> DEFINE i     == Subject(op, psrc, pdst)
           table == [arp EXCEPT ![i] = @ \cup {m}]
<1>1. i \in Ips /\ arp' = table /\ UNCHANGED <<smbPairs, smbAlerts>>
  BY DEF Subject, Arp
<1>2. table \in [Ips -> SUBSET ArpMacs]
  BY <1>1 DEF SniffInv, SniffTypeOK
<1>3. CASE UNCHANGED <<phase, infra, stable, conflicts>>
  <2>1. SniffTypeOK'
    BY <1>1, <1>2, <1>3 DEF SniffInv, SniffTypeOK
  <2>2. JudgedOn(stable)' /\ InfraReportedByFreezeOnly' /\ (phase' # "frozen" => NothingLearnt')
    BY <1>3 DEF SniffInv, JudgedOn, Reported, InfraReportedByFreezeOnly, NothingLearnt
  <2> QED BY <2>1, <2>2 DEF SniffInv
<1>4. CASE phase = "over" /\ ~ShouldIgnore(m, infra)
  <2> DEFINE proxies == infra \cup Proxies(table)
             normal  == Baseline(table, proxies)
  <2>1. phase' = "frozen" /\ infra' = proxies /\ Judge(i, m, normal)
    BY <1>4 DEF Arp
  <2>2. proxies \subseteq ArpMacs /\ normal \in [Ips -> SUBSET ArpMacs]
    BY <1>2 DEF Proxies, Baseline, SniffInv, SniffTypeOK
  <2>3. conflicts = [x \in Ips \X ArpMacs |-> 0]
    BY <1>4 DEF SniffInv, NothingLearnt
  <2> HIDE DEF normal, proxies, i, table
  <2>4. JudgedOn(normal)
    BY <2>2, <2>3, NothingReported
  <2>5. /\ stable' \in [Ips -> SUBSET ArpMacs] /\ conflicts' \in [Ips \X ArpMacs -> Nat]
        /\ \A x \in Ips \X ArpMacs : x # <<i, m>> => conflicts'[x] = 0
        /\ JudgedOn(stable)'
    BY <1>1, <2>1, <2>2, <2>3, <2>4, JudgementKeeps
  <2>6. {x \in Ips \X infra' : conflicts'[x] > 0} \in SUBSET {<<i, m>>}
    BY <2>1, <2>2, <2>5
  <2>7. InfraReportedByFreezeOnly'
    <3>1. IsFiniteSet({<<i, m>>}) /\ Cardinality({<<i, m>>}) = 1
      BY FS_Singleton
    <3>2. Cardinality({x \in Ips \X infra' : conflicts'[x] > 0}) <= 1
      BY <2>6, <3>1, FS_Subset
    <3> QED BY <3>2 DEF InfraReportedByFreezeOnly
  <2>8. SniffTypeOK'
    BY <1>1, <1>2, <2>1, <2>2, <2>5 DEF SniffInv, SniffTypeOK
  <2> QED BY <2>1, <2>5, <2>7, <2>8 DEF SniffInv
<1>5. CASE phase = "frozen" /\ ~ShouldIgnore(m, infra)
  <2>1. UNCHANGED <<phase, infra>> /\ Judge(i, m, stable)
    BY <1>5 DEF Arp
  <2> HIDE DEF i, table
  <2>2. /\ stable' \in [Ips -> SUBSET ArpMacs] /\ conflicts' \in [Ips \X ArpMacs -> Nat]
        /\ \A x \in Ips \X ArpMacs : x # <<i, m>> => conflicts'[x] = conflicts[x]
        /\ JudgedOn(stable)'
    BY <1>1, <2>1, JudgementKeeps DEF SniffInv, SniffTypeOK
  <2>3. infra \subseteq ArpMacs /\ m \notin infra
    BY <1>5 DEF ShouldIgnore, SniffInv, SniffTypeOK
  <2>4. ASSUME NEW x \in Ips \X infra PROVE conflicts'[x] = conflicts[x]
    <3>1. x \in Ips \X ArpMacs /\ x # <<i, m>>
      BY <2>3
    <3> QED BY <2>2, <3>1
  <2>5. {x \in Ips \X infra : conflicts'[x] > 0} = {x \in Ips \X infra : conflicts[x] > 0}
    BY <2>4
  <2>6. InfraReportedByFreezeOnly'
    BY <2>1, <2>5 DEF InfraReportedByFreezeOnly, SniffInv
  <2>7. SniffTypeOK'
    BY <1>1, <1>2, <2>1, <2>2 DEF SniffInv, SniffTypeOK
  <2> QED BY <1>5, <2>1, <2>2, <2>6, <2>7 DEF SniffInv
<1>6. phase \in {"warmup", "over", "frozen"}
  BY DEF SniffInv, SniffTypeOK
<1> QED BY <1>3, <1>4, <1>5, <1>6 DEF Arp

LEMMA SniffSteps == ASSUME SniffAssumption PROVE SniffInv /\ [SniffNext]_sniffVars => SniffInv'
<1> SUFFICES ASSUME SniffInv, [SniffNext]_sniffVars PROVE SniffInv'
  OBVIOUS
<1>1. CASE WarmupDone \/ UNCHANGED sniffVars
  <2>1. /\ UNCHANGED <<arp, infra, stable, conflicts, smbPairs, smbAlerts>>
        /\ phase' \in {"warmup", "over", "frozen"} /\ (phase' # "frozen" => phase # "frozen")
    BY <1>1 DEF WarmupDone, sniffVars, arpVars, SniffInv, SniffTypeOK
  <2>2. JudgedOn(stable)' /\ InfraReportedByFreezeOnly' /\ (phase' # "frozen" => NothingLearnt')
    BY <2>1 DEF SniffInv, JudgedOn, Reported, InfraReportedByFreezeOnly, NothingLearnt
  <2> QED BY <2>1, <2>2 DEF SniffInv, SniffTypeOK
<1>2. ASSUME NEW op \in {"request", "reply"}, NEW m \in ArpMacs, NEW psrc \in Ips,
             NEW pdst \in Ips, Arp(op, m, psrc, pdst)
      PROVE  SniffInv'
  BY <1>2, ArpStep
<1>3. ASSUME NEW src \in Ips, NEW dst \in Ips, Smb(src, dst) PROVE SniffInv'
  <2>1. UNCHANGED <<arp, phase, infra, stable, conflicts>>
    BY <1>3 DEF Smb, arpVars
  <2>2. smbPairs' \subseteq Ips \X Ips /\ smbAlerts' \subseteq smbPairs'
    BY <1>3 DEF Smb, SniffInv, SniffTypeOK
  <2>3. JudgedOn(stable)' /\ InfraReportedByFreezeOnly' /\ (phase' # "frozen" => NothingLearnt')
    BY <2>1 DEF SniffInv, JudgedOn, Reported, InfraReportedByFreezeOnly, NothingLearnt
  <2> QED BY <2>1, <2>2, <2>3 DEF SniffInv, SniffTypeOK
<1>4. CASE SniffRestart
  BY <1>4, SniffRestarted
<1> QED BY <1>1, <1>2, <1>3, <1>4 DEF SniffNext

(* Whatever the order of the packets and whoever performs the freeze, a    *)
(* MAC is reported at most once per address, and a bounded number of MACs; *)
(* a router that does proxy ARP only by the packet that revealed it.       *)
THEOREM ConflictsAreFew == ASSUME SniffAssumption PROVE SniffSpec => []ConflictsAreBounded
<1>1. SniffInit => SniffInv
  BY SniffInitially
<1>2. SniffInv => ConflictsAreBounded
  BY DEF SniffInv, SniffTypeOK, JudgedOn, ConflictsAreBounded
<1> QED BY <1>1, <1>2, SniffSteps, PTL DEF SniffSpec

(* Every variable of the sniffer keeps its type.                           *)
THEOREM SniffTypeCorrect == ASSUME SniffAssumption PROVE SniffSpec => []SniffTypeOK
<1>1. SniffInit => SniffInv
  BY SniffInitially
<1>2. SniffInv => SniffTypeOK
  BY DEF SniffInv
<1> QED BY <1>1, <1>2, SniffSteps, PTL DEF SniffSpec

-----------------------------------------------------------------------------
(* nmap, Pi-hole and Plex.  While the rule is silent it has rung for a     *)
(* port; a pair has one job more than it was forgotten only while it is    *)
(* remembered; a stream has an event only while it is marked, and the last *)
(* outage event says what the collector takes the server for.              *)
QuietForAPort == quiet => fired \cup missed # {}
PortsReported == NewPortsReported /\ QuietForAPort
PairsRemembered ==
  /\ Cardinality({p \in seen : jobs[p] = 0}) <= failures
  /\ \A p \in Pairs : jobs[p] <= forgotten[p] + (IF p \in seen THEN 1 ELSE 0)
StreamsMarked ==
  /\ \A s \in Streams : alerts[s] <= 1 /\ (s \notin alerted => alerts[s] = 0)
  /\ reachable = "unknown" => outages[1] = 0 /\ outages[2] = 0
  /\ reachable = "yes" => outages[1] = outages[2] \/ outages[2] = outages[1] + 1
  /\ reachable = "no"  => outages[1] = outages[2] \/ outages[1] = outages[2] + 1

PollersInv == PollersTypeOK /\ PortsReported /\ PairsRemembered /\ StreamsMarked

LEMMA PollersInitially == ASSUME PollersAssumption PROVE PollersInit => PollersInv
<1> SUFFICES ASSUME PollersInit PROVE PollersInv
  OBVIOUS
<1>1. Cardinality({}) = 0 /\ Cardinality({p \in {} : jobs[p] = 0}) = 0
  <2> DEFINE bare == {p \in {} : jobs[p] = 0}
  <2>1. bare = {}
    OBVIOUS
  <2>2. Cardinality({}) = 0
    BY FS_EmptySet
  <2> HIDE DEF bare
  <2>3. Cardinality(bare) = 0
    BY <2>1, <2>2, Zenon
  <2> QED BY <2>2, <2>3 DEF bare
<1>2. PollersTypeOK
  <2>1. seen = {} /\ SeenMax \in Nat \ {0} /\ MaxPolls \in Nat /\ MaxFailures \in Nat
    BY DEF PollersInit, PollersAssumption
  <2>2. Cardinality(seen) = 0
    BY <1>1, <2>1, Zenon
  <2>3. Cardinality(seen) <= SeenMax
    BY <2>1, <2>2
  <2>4. /\ jobs \in [Pairs -> Nat] /\ forgotten \in [Pairs -> Nat]
        /\ alerts \in [Streams -> Nat] /\ outages \in Nat \X Nat
    BY DEF PollersInit
  <2>5. busy \in BOOLEAN /\ scanned \in BOOLEAN /\ quiet \in BOOLEAN
    BY Zenon DEF PollersInit
  <2> QED BY <2>1, <2>3, <2>4, <2>5 DEF PollersInit, PollersTypeOK
<1>3. PortsReported /\ PairsRemembered /\ StreamsMarked
  BY <1>1 DEF PollersInit, PortsReported, NewPortsReported, QuietForAPort, PairsRemembered, StreamsMarked
<1> QED BY <1>2, <1>3 DEF PollersInv

LEMMA NmapStep ==
  ASSUME PollersAssumption, PollersInv, Scan \/ CooldownEnds \/ ProcessResult \/ ProcessResultFails
  PROVE  PollersInv'
<1>1. PollersTypeOK /\ NewPortsReported /\ QuietForAPort /\ Things = Ports
  BY DEF PollersInv, PortsReported, Scan, CooldownEnds, KeepResult, ProcessResult,
         ProcessResultFails, Things
<1>2. UNCHANGED <<poller, world, piholeVars, plexVars>> /\ Things' = Ports
  BY <1>1 DEF Scan, CooldownEnds, ProcessResult, ProcessResultFails, Things
<1>3. failures' \in 0..MaxFailures /\ failures <= failures'
  BY <1>1 DEF Scan, CooldownEnds, ProcessResult, ProcessResultFails, Fails, PollersTypeOK,
              PollersAssumption
<1>4. /\ found' \subseteq Ports /\ busy' \in BOOLEAN /\ polls' \in 0..MaxPolls
      /\ scanned' \in BOOLEAN /\ quiet' \in BOOLEAN /\ recorded' \subseteq Ports
      /\ first' \subseteq Ports /\ last' \subseteq Ports
      /\ fired' \subseteq Ports /\ hushed' \subseteq Ports /\ missed' \subseteq Ports
      /\ NewPortsReported' /\ QuietForAPort'
  <2>1. CASE Scan
    <3>1. UNCHANGED nmapVars
      BY <2>1 DEF Scan
    <3>2. /\ found' \subseteq Ports /\ polls' \in 0..MaxPolls /\ busy' \in BOOLEAN
      BY <1>1, <2>1 DEF Scan, PollersTypeOK, PollersAssumption
    <3>3. NewPortsReported' /\ QuietForAPort'
      BY <1>1, <3>1 DEF nmapVars, NewPortsReported, QuietForAPort
    <3> QED BY <1>1, <3>1, <3>2, <3>3 DEF nmapVars, PollersTypeOK
  <2>2. CASE CooldownEnds
    <3>1. /\ quiet' = FALSE
          /\ UNCHANGED <<found, busy, polls, scanned, first, last, recorded, fired, hushed, missed>>
      BY <2>2 DEF CooldownEnds
    <3>2. NewPortsReported' /\ QuietForAPort'
      BY <1>1, <3>1 DEF NewPortsReported, QuietForAPort
    <3>3. quiet' \in BOOLEAN
      BY <3>1, Zenon
    <3> QED BY <1>1, <3>1, <3>2, <3>3 DEF PollersTypeOK
  <2>3. CASE ProcessResult \/ ProcessResultFails
    <3>1. /\ scanned' = TRUE /\ first' = (IF scanned THEN first ELSE found) /\ last' = found
          /\ found' = {} /\ busy' = FALSE /\ polls' = polls
      BY <2>3 DEF ProcessResult, ProcessResultFails, KeepResult
    <3>2. NewPorts \subseteq Ports /\ last' \subseteq first' \cup recorded \cup missed \cup NewPorts
      BY <1>1, <3>1 DEF NewPorts, NewPortsReported, PollersTypeOK
    <3>3. /\ quiet' \in BOOLEAN /\ recorded' \subseteq Ports /\ fired' \subseteq Ports
          /\ hushed' \subseteq Ports /\ missed' \subseteq Ports
          /\ recorded \cup missed \cup NewPorts \subseteq recorded' \cup missed'
          /\ recorded' \subseteq fired' \cup hushed' \cup missed'
          /\ hushed' # {} => fired' \cup missed' # {}
          /\ QuietForAPort'
      <4>1. CASE UNCHANGED <<quiet, fired, hushed>> /\ missed' = missed \cup NewPorts
                 /\ recorded' \in {recorded, recorded \cup NewPorts}
        BY <1>1, <3>2, <4>1 DEF PollersTypeOK, NewPortsReported, QuietForAPort
      <4>2. ASSUME NEW rung \in Rung, NEW gone \in SUBSET rung, FireFor(rung),
                   recorded' = recorded \cup NewPorts,
                   fired' = fired \cup (rung \ gone), missed' = missed \cup gone
            PROVE  /\ quiet' \in BOOLEAN /\ recorded' \subseteq Ports /\ fired' \subseteq Ports
                   /\ hushed' \subseteq Ports /\ missed' \subseteq Ports
                   /\ recorded \cup missed \cup NewPorts \subseteq recorded' \cup missed'
                   /\ recorded' \subseteq fired' \cup hushed' \cup missed'
                   /\ hushed' # {} => fired' \cup missed' # {}
                   /\ QuietForAPort'
        <5>1. /\ rung \subseteq NewPorts /\ gone \subseteq rung /\ fired' \cup missed' = fired \cup missed \cup rung
              /\ ~quiet /\ NewPorts # {} => rung # {}
              /\ hushed' = hushed \cup (NewPorts \ rung)
          BY <1>1, <4>2 DEF Rung, FireFor, PollersTypeOK
        <5>2. quiet' \in BOOLEAN
          BY <4>2, Zenon DEF FireFor
        <5>3. quiet' => quiet \/ rung # {}
          BY <4>2 DEF FireFor
        <5>4. QuietForAPort'
          BY <1>1, <5>1, <5>3 DEF QuietForAPort
        <5>5. hushed' # {} => fired' \cup missed' # {}
          BY <1>1, <5>1 DEF QuietForAPort, NewPortsReported
        <5> QED BY <1>1, <3>2, <4>2, <5>1, <5>2, <5>4, <5>5 DEF PollersTypeOK, NewPortsReported
      <4>3. CASE ProcessResult
        <5>1. PICK rung \in Rung : FireFor(rung) /\ fired' = fired \cup rung
          BY <4>3 DEF ProcessResult
        <5>2. /\ fired' = fired \cup (rung \ {}) /\ missed' = missed \cup {} /\ {} \in SUBSET rung
              /\ recorded' = recorded \cup NewPorts
          BY <4>3, <5>1 DEF ProcessResult
        <5> HIDE DEF FireFor
        <5> QED BY <4>2, <5>1, <5>2
      <4>4. CASE ProcessResultFails
        <5>1. CASE \E rung \in Rung : \E lost \in rung :
                     /\ FireFor(rung) /\ fired' = fired \cup (rung \ {lost})
                     /\ missed' = missed \cup {lost} /\ recorded' = recorded \cup NewPorts
          BY <4>2, <5>1
        <5> QED BY <4>1, <4>4, <5>1 DEF ProcessResultFails
      <4> QED BY <2>3, <4>3, <4>4
    <3>4. NewPortsReported'
      BY <3>2, <3>3 DEF NewPortsReported
    <3> QED BY <1>1, <3>1, <3>3, <3>4 DEF PollersTypeOK
  <2> QED BY <2>1, <2>2, <2>3
<1>5. PollersTypeOK'
  BY <1>1, <1>2, <1>3, <1>4 DEF PollersTypeOK, piholeVars, plexVars
<1>6. StreamsMarked'
  BY <1>2 DEF PollersInv, StreamsMarked, plexVars
<1>7. PairsRemembered'
  <2>1. UNCHANGED <<seen, jobs, forgotten>>
    BY <1>2 DEF piholeVars
  <2>2. Cardinality({p \in seen : jobs[p] = 0}) \in Nat
    BY <1>1, FS_Subset, FS_CardinalityType DEF PollersTypeOK, PollersAssumption
  <2>3. Cardinality({p \in seen : jobs[p] = 0}) <= failures'
    BY <1>1, <1>3, <2>2 DEF PollersInv, PairsRemembered, PollersTypeOK, PollersAssumption
  <2> QED BY <2>1, <2>3 DEF PollersInv, PairsRemembered
<1> QED BY <1>4, <1>5, <1>6, <1>7 DEF PollersInv, PortsReported

(* Remembering a pair that was not: it may push others out, or itself.     *)
LEMMA RememberedPair ==
  ASSUME PollersAssumption, PollersTypeOK, NEW p \in Pairs, p \notin seen, RememberPair(p)
  PROVE  /\ seen' \subseteq seen \cup {p} /\ Cardinality(seen') <= SeenMax
         /\ forgotten' \in [Pairs -> Nat]
         /\ \A q \in Pairs : forgotten'[q] = IF q \in (seen \cup {p}) \ seen'
                                             THEN forgotten[q] + 1 ELSE forgotten[q]
<1>1. PICK kept \in Remembering(p) :
        /\ seen' = kept
        /\ forgotten' = [q \in Pairs |-> IF q \in (seen \cup {p}) \ kept THEN forgotten[q] + 1
                                         ELSE forgotten[q]]
  BY DEF RememberPair
<1>2. SeenMax \in Nat /\ SeenMax \div 2 \in Nat /\ SeenMax \div 2 <= SeenMax
  BY DEF PollersAssumption
<1>3. kept \subseteq seen \cup {p} /\ Cardinality(kept) <= SeenMax
  BY <1>2 DEF Remembering
<1> QED BY <1>1, <1>3 DEF PollersTypeOK

LEMMA PiholeStep ==
  ASSUME PollersAssumption, PollersInv,
         FetchQueries \/ (\E p \in Pairs : AnalyzeQuery(p) \/ AnalyzeQueryFails(p))
  PROVE  PollersInv'
<1>1. /\ PollersTypeOK /\ PairsRemembered /\ Things = Pairs
      /\ poller = "pihole" /\ UNCHANGED <<poller, world, busy, nmapVars, plexVars>>
  BY DEF PollersInv, FetchQueries, AnalyzeQuery, AnalyzeQueryFails, Things
<1>2. Things' = Pairs
  BY <1>1 DEF Things
<1>3. /\ found' \subseteq Pairs /\ polls' \in 0..MaxPolls /\ polls <= polls'
      /\ failures' \in 0..MaxFailures
      /\ seen' \subseteq Pairs /\ Cardinality(seen') <= SeenMax
      /\ jobs' \in [Pairs -> Nat] /\ forgotten' \in [Pairs -> Nat]
      /\ PairsRemembered'
  <2>1. CASE FetchQueries
    BY <1>1, <2>1
    DEF FetchQueries, piholeVars, PollersTypeOK, PollersAssumption, PairsRemembered
  <2>2. ASSUME NEW p \in Pairs, AnalyzeQuery(p), p \in seen
        PROVE  found' \subseteq Pairs /\ UNCHANGED <<polls, failures, piholeVars>>
    BY <1>1, <2>2 DEF AnalyzeQuery, PollersTypeOK
  <2>3. ASSUME NEW p \in Pairs, p \notin seen, AnalyzeQuery(p) \/ AnalyzeQueryFails(p)
        PROVE  /\ found' \subseteq Pairs /\ polls' = polls /\ failures' \in 0..MaxFailures
               /\ seen' \subseteq Pairs /\ Cardinality(seen') <= SeenMax
               /\ jobs' \in [Pairs -> Nat] /\ forgotten' \in [Pairs -> Nat]
               /\ PairsRemembered'
    <3>1. RememberPair(p) /\ found' \subseteq Pairs /\ polls' = polls
      BY <1>1, <2>3 DEF AnalyzeQuery, AnalyzeQueryFails, PollersTypeOK
    <3>2. /\ seen' \subseteq seen \cup {p} /\ Cardinality(seen') <= SeenMax
          /\ forgotten' \in [Pairs -> Nat]
          /\ \A q \in Pairs : forgotten'[q] = IF q \in (seen \cup {p}) \ seen'
                                              THEN forgotten[q] + 1 ELSE forgotten[q]
      BY <1>1, <2>3, <3>1, RememberedPair
    <3> DEFINE bare == {q \in seen : jobs[q] = 0}
    <3>3. bare \in SUBSET Pairs /\ IsFiniteSet(bare) /\ Cardinality(bare) \in Nat
          /\ Cardinality(bare) <= failures
      BY <1>1, FS_Subset, FS_CardinalityType DEF PollersTypeOK, PollersAssumption, PairsRemembered
    <3>4. CASE AnalyzeQuery(p)
      <4>1. jobs' = [jobs EXCEPT ![p] = @ + 1] /\ failures' = failures
        BY <2>3, <3>4 DEF AnalyzeQuery
      <4>2. {q \in seen' : jobs'[q] = 0} \in SUBSET bare
        BY <1>1, <3>2, <4>1 DEF PollersTypeOK
      <4>3. Cardinality({q \in seen' : jobs'[q] = 0}) <= failures'
        <5>1. Cardinality({q \in seen' : jobs'[q] = 0}) <= Cardinality(bare)
          BY <3>3, <4>2, FS_Subset
        <5>2. Cardinality({q \in seen' : jobs'[q] = 0}) \in Nat
          BY <3>3, <4>2, FS_Subset, FS_CardinalityType
        <5> QED BY <1>1, <3>3, <4>1, <5>1, <5>2 DEF PollersTypeOK, PollersAssumption
      <4>4. jobs' \in [Pairs -> Nat]
        BY <1>1, <4>1 DEF PollersTypeOK
      <4>5. ASSUME NEW q \in Pairs
            PROVE  jobs'[q] <= forgotten'[q] + (IF q \in seen' THEN 1 ELSE 0)
        <5>1. jobs[q] <= forgotten[q] + (IF q \in seen THEN 1 ELSE 0)
          BY <1>1 DEF PairsRemembered
        <5>2. jobs[q] \in Nat /\ forgotten[q] \in Nat
          BY <1>1 DEF PollersTypeOK
        <5>3. jobs'[q] = IF q = p THEN jobs[q] + 1 ELSE jobs[q]
          BY <1>1, <4>1 DEF PollersTypeOK
        <5> QED BY <2>3, <3>2, <5>1, <5>2, <5>3
      <4> QED BY <1>1, <3>1, <3>2, <4>1, <4>3, <4>4, <4>5 DEF PairsRemembered, PollersTypeOK
    <3>5. CASE AnalyzeQueryFails(p)
      <4>1. jobs' = jobs /\ failures' = failures + 1 /\ failures' \in 0..MaxFailures
        BY <1>1, <3>5 DEF AnalyzeQueryFails, Fails, PollersTypeOK, PollersAssumption
      <4>2. {q \in seen' : jobs'[q] = 0} \in SUBSET (bare \cup {p})
        BY <3>2, <4>1
      <4>3. Cardinality({q \in seen' : jobs'[q] = 0}) <= failures'
        <5>1. IsFiniteSet(bare \cup {p}) /\ Cardinality(bare \cup {p}) <= Cardinality(bare) + 1
          BY <3>3, FS_AddElement
        <5>2. /\ Cardinality({q \in seen' : jobs'[q] = 0}) <= Cardinality(bare \cup {p})
              /\ IsFiniteSet({q \in seen' : jobs'[q] = 0})
          BY <4>2, <5>1, FS_Subset
        <5>3. /\ Cardinality({q \in seen' : jobs'[q] = 0}) \in Nat
              /\ Cardinality(bare \cup {p}) \in Nat
          BY <5>1, <5>2, FS_CardinalityType
        <5> HIDE DEF bare
        <5> QED BY <1>1, <3>3, <4>1, <5>1, <5>2, <5>3 DEF PollersTypeOK
      <4>4. ASSUME NEW q \in Pairs
            PROVE  jobs'[q] <= forgotten'[q] + (IF q \in seen' THEN 1 ELSE 0)
        <5>1. jobs[q] <= forgotten[q] + (IF q \in seen THEN 1 ELSE 0)
          BY <1>1 DEF PairsRemembered
        <5>2. jobs[q] \in Nat /\ forgotten[q] \in Nat
          BY <1>1 DEF PollersTypeOK
        <5> QED BY <2>3, <3>2, <4>1, <5>1, <5>2
      <4> QED BY <1>1, <3>1, <3>2, <4>1, <4>3, <4>4 DEF PairsRemembered, PollersTypeOK
    <3> QED BY <2>3, <3>4, <3>5
  <2>4. CASE \E p \in Pairs : AnalyzeQuery(p) \/ AnalyzeQueryFails(p)
    <3>1. PICK p \in Pairs : AnalyzeQuery(p) \/ AnalyzeQueryFails(p)
      BY <2>4
    <3>2. CASE p \in seen
      <4>1. AnalyzeQuery(p)
        BY <3>1, <3>2 DEF AnalyzeQueryFails
      <4>2. found' \subseteq Pairs /\ UNCHANGED <<polls, failures, seen, jobs, forgotten>>
        BY <2>2, <3>2, <4>1 DEF piholeVars
      <4>3. PairsRemembered'
        BY <1>1, <4>2 DEF PairsRemembered
      <4> QED BY <1>1, <4>2, <4>3 DEF PollersTypeOK, PollersAssumption
    <3>3. CASE p \notin seen
      BY <1>1, <2>3, <3>1, <3>3 DEF PollersTypeOK, PollersAssumption
    <3> QED BY <3>2, <3>3
  <2> QED BY <2>1, <2>4
<1>4. PollersTypeOK'
  BY <1>1, <1>2, <1>3 DEF PollersTypeOK, nmapVars, plexVars
<1>5. PortsReported' /\ StreamsMarked'
  BY <1>1, <1>3
  DEF PollersInv, PortsReported, NewPortsReported, QuietForAPort, StreamsMarked, nmapVars, plexVars,
      PollersTypeOK, PollersAssumption
<1> QED BY <1>3, <1>4, <1>5 DEF PollersInv

LEMMA PlexStep ==
  ASSUME PollersAssumption, PollersInv,
         (\E up \in BOOLEAN : ProbePlex(up)) \/ ReadSessions \/ ReadSessionsFails
  PROVE  PollersInv'
<1>1. /\ PollersTypeOK /\ StreamsMarked /\ Things = Streams
      /\ poller = "plex" /\ UNCHANGED <<poller, world, found, failures, nmapVars, piholeVars>>
  BY DEF PollersInv, ProbePlex, ReadSessions, ReadSessionsFails, Things
<1>2. Things' = Streams
  BY <1>1 DEF Things
<1>3. /\ busy' \in BOOLEAN /\ polls' \in 0..MaxPolls /\ polls <= polls'
      /\ reachable' \in {"unknown", "yes", "no"} /\ outages' \in Nat \X Nat
      /\ alerted' \subseteq Streams /\ alerts' \in [Streams -> Nat]
      /\ StreamsMarked'
  <2>1. ASSUME NEW up \in BOOLEAN, ProbePlex(up)
        PROVE  /\ busy' \in BOOLEAN /\ polls' \in 0..MaxPolls /\ polls <= polls'
               /\ reachable' \in {"unknown", "yes", "no"} /\ outages' \in Nat \X Nat
               /\ UNCHANGED <<alerted, alerts>> /\ StreamsMarked'
    <3>1. /\ busy' \in BOOLEAN /\ polls' \in 0..MaxPolls /\ polls <= polls'
          /\ reachable' = (IF up THEN "yes" ELSE "no") /\ UNCHANGED <<alerted, alerts>>
      BY <1>1, <2>1 DEF ProbePlex, PollersTypeOK, PollersAssumption
    <3>2. PICK off \in Nat, on \in Nat : outages = <<off, on>>
      BY <1>1 DEF PollersTypeOK
    <3>3. outages' = IF reachable = "yes" /\ ~up THEN <<off + 1, on>>
                     ELSE IF reachable = "no" /\ up THEN <<off, on + 1>> ELSE <<off, on>>
      BY <2>1, <3>2 DEF ProbePlex
    <3>4. reachable \in {"unknown", "yes", "no"}
      BY <1>1 DEF PollersTypeOK
    <3> QED BY <1>1, <3>1, <3>2, <3>3, <3>4 DEF StreamsMarked
  <2>2. CASE ReadSessions
    <3>1. /\ alerted' = world /\ busy' = FALSE /\ UNCHANGED <<polls, reachable, outages>>
          /\ alerts' = [s \in Streams |-> IF s \notin world THEN 0
                                          ELSE IF s \in alerted THEN alerts[s] ELSE alerts[s] + 1]
      BY <2>2 DEF ReadSessions
    <3>2. alerted' \subseteq Streams /\ alerts' \in [Streams -> Nat]
      BY <1>1, <3>1 DEF PollersTypeOK
    <3>3. ASSUME NEW s \in Streams
          PROVE  alerts'[s] <= 1 /\ (s \notin alerted' => alerts'[s] = 0)
      BY <1>1, <3>1 DEF StreamsMarked, PollersTypeOK
    <3>4. StreamsMarked'
      BY <1>1, <3>1, <3>3 DEF StreamsMarked
    <3>5. busy' \in BOOLEAN
      BY <3>1, Zenon
    <3>6. /\ polls' \in 0..MaxPolls /\ polls <= polls'
          /\ reachable' \in {"unknown", "yes", "no"} /\ outages' \in Nat \X Nat
      BY <1>1, <3>1 DEF PollersTypeOK, PollersAssumption
    <3> QED BY <3>2, <3>4, <3>5, <3>6
  <2>3. CASE ReadSessionsFails
    <3>1. PICK before \in SUBSET world :
            /\ alerted' = alerted \cup before
            /\ alerts' = [s \in Streams |-> IF s \in before \ alerted THEN alerts[s] + 1
                                            ELSE alerts[s]]
      BY <2>3 DEF ReadSessionsFails, Alerted
    <3>2. alerted' \subseteq Streams /\ alerts' \in [Streams -> Nat]
      BY <1>1, <3>1 DEF PollersTypeOK
    <3>3. UNCHANGED <<polls, reachable, outages>> /\ busy' = FALSE
      BY <2>3 DEF ReadSessionsFails
    <3>4. ASSUME NEW s \in Streams
          PROVE  alerts'[s] <= 1 /\ (s \notin alerted' => alerts'[s] = 0)
      BY <1>1, <3>1 DEF StreamsMarked, PollersTypeOK
    <3>5. StreamsMarked'
      BY <1>1, <3>3, <3>4 DEF StreamsMarked
    <3>6. busy' \in BOOLEAN
      BY <3>3, Zenon
    <3>7. /\ polls' \in 0..MaxPolls /\ polls <= polls'
          /\ reachable' \in {"unknown", "yes", "no"} /\ outages' \in Nat \X Nat
      BY <1>1, <3>3 DEF PollersTypeOK, PollersAssumption
    <3> QED BY <3>2, <3>5, <3>6, <3>7
  <2> QED BY <1>1, <2>1, <2>2, <2>3 DEF PollersTypeOK
<1>4. PollersTypeOK'
  BY <1>1, <1>2, <1>3 DEF PollersTypeOK, nmapVars, piholeVars
<1>5. PortsReported' /\ PairsRemembered'
  BY <1>1, <1>3
  DEF PollersInv, PortsReported, NewPortsReported, QuietForAPort, PairsRemembered, nmapVars, piholeVars,
      PollersTypeOK, PollersAssumption
<1> QED BY <1>3, <1>4, <1>5 DEF PollersInv

LEMMA PollersSteps == ASSUME PollersAssumption, PollersInv, [PollersNext]_pollersVars PROVE PollersInv'
<1>1. CASE (\E x \in Things : WorldChanges(x)) \/ UNCHANGED pollersVars
  <2>1. /\ UNCHANGED <<poller, found, busy, polls, failures, nmapVars, piholeVars, plexVars>>
        /\ world' \subseteq Things
    BY <1>1 DEF WorldChanges, pollersVars, PollersInv, PollersTypeOK
  <2>2. Things' = Things
    BY <2>1 DEF Things
  <2>3. PollersTypeOK'
    BY <2>1, <2>2 DEF PollersInv, PollersTypeOK, nmapVars, piholeVars, plexVars
  <2>4. PortsReported' /\ PairsRemembered' /\ StreamsMarked'
    BY <2>1 DEF PollersInv, PortsReported, NewPortsReported, QuietForAPort, PairsRemembered, StreamsMarked,
                nmapVars, piholeVars, plexVars
  <2> QED BY <2>3, <2>4 DEF PollersInv
<1> QED BY <1>1, NmapStep, PiholeStep, PlexStep DEF PollersNext

(* Every variable of the three collectors keeps its type; the memory of    *)
(* suspicious pairs keeps below its limit.                                 *)
THEOREM PollersTypeCorrect == ASSUME PollersAssumption PROVE PollersSpec => []PollersTypeOK
<1>1. PollersInv /\ [PollersNext]_pollersVars => PollersInv'
  BY PollersSteps
<1>2. PollersInv => PollersTypeOK
  BY DEF PollersInv
<1> QED BY <1>1, <1>2, PollersInitially, PTL DEF PollersSpec

(* A port that is open now was in the first scan or is a new port of a     *)
(* stored scan, and then had an alert, unless a failure lost it or the     *)
(* rule had rung for another port and was silent.                          *)
THEOREM NewPortsAreReported == ASSUME PollersAssumption PROVE PollersSpec => []NewPortsReported
<1>1. PollersInv /\ [PollersNext]_pollersVars => PollersInv'
  BY PollersSteps
<1>2. PollersInv => NewPortsReported
  BY DEF PollersInv, PortsReported
<1> QED BY <1>1, <1>2, PollersInitially, PTL DEF PollersSpec

(* A remembered pair has a job, but for one per failed enqueue, and gets   *)
(* another only after it was forgotten.                                    *)
THEOREM SuspiciousHaveJobs == ASSUME PollersAssumption PROVE PollersSpec => []SuspiciousAccounted
<1>1. PollersInv /\ [PollersNext]_pollersVars => PollersInv'
  BY PollersSteps
<1>2. PollersInv => SuspiciousAccounted
  <2> SUFFICES ASSUME PollersInv PROVE SuspiciousAccounted
    OBVIOUS
  <2>1. ASSUME NEW p \in Pairs PROVE jobs[p] <= 1 + forgotten[p]
    BY DEF PollersInv, PairsRemembered, PollersTypeOK
  <2> QED BY <2>1 DEF PollersInv, PairsRemembered, SuspiciousAccounted
<1> QED BY <1>1, <1>2, PollersInitially, PTL DEF PollersSpec

(* A remote stream is reported once until a poll has seen that it ended,   *)
(* and outages alternate with returns.                                     *)
THEOREM StreamsAlertOnce == ASSUME PollersAssumption PROVE PollersSpec => []StreamsReportedOnce
<1>1. PollersInv /\ [PollersNext]_pollersVars => PollersInv'
  BY PollersSteps
<1>2. PollersInv => StreamsReportedOnce
  <2> SUFFICES ASSUME PollersInv PROVE StreamsReportedOnce
    OBVIOUS
  <2>1. outages[1] \in Nat /\ outages[2] \in Nat /\ reachable \in {"unknown", "yes", "no"}
    BY DEF PollersInv, PollersTypeOK
  <2> QED BY <2>1 DEF PollersInv, StreamsMarked, StreamsReportedOnce
<1> QED BY <1>1, <1>2, PollersInitially, PTL DEF PollersSpec
=============================================================================
