------------------------------ MODULE Components ------------------------------
(***************************************************************************)
(* The collectors and the services behind the API and the dashboard, in    *)
(* one process.  They share no state but the database, of which each has   *)
(* tables of its own: a step is one of an enabled component and leaves the *)
(* others as they are.                                                     *)
(***************************************************************************)
EXTENDS Intake, Sniff, UniFi, Pollers,
        Devices, Backoff, Chats, Knowledge, Records, Settings, LogStream

CONSTANT Studied   \* the sets of components to study together

Collectors == {"intake", "sniff", "unifi", "pollers"}
Services   == {"devices", "backoff", "chats", "knowledge", "records", "settings", "stream"}

ASSUME ComponentsAssumption ==
  /\ IntakeAssumption /\ SniffAssumption /\ UniFiAssumption /\ PollersAssumption
  /\ DevicesAssumption /\ BackoffAssumption /\ ChatsAssumption /\ KnowledgeAssumption
  /\ RecordsAssumption /\ SettingsAssumption /\ LogStreamAssumption
  /\ Studied \subseteq SUBSET (Collectors \cup Services)

VARIABLE enabled   \* the components that take steps

collectorsVars == <<intakeVars, sniffVars, unifiVars, pollersVars>>
servicesVars   == <<devicesVars, backoffVars, chatsVars, knowledgeVars, recordsVars,
                    settingsVars, streamVars>>
componentsVars == <<enabled, collectorsVars, servicesVars>>

ComponentsInit ==
  /\ enabled \in Studied
  /\ IntakeInit /\ SniffInit /\ UniFiInit /\ PollersInit
  /\ DevicesInit /\ BackoffInit /\ ChatsInit /\ KnowledgeInit
  /\ RecordsInit /\ SettingsInit /\ LogStreamInit

CollectorsNext ==
  \/ /\ "intake" \in enabled /\ IntakeNext
     /\ UNCHANGED <<sniffVars, unifiVars, pollersVars>>
  \/ /\ "sniff" \in enabled /\ SniffNext
     /\ UNCHANGED <<intakeVars, unifiVars, pollersVars>>
  \/ /\ "unifi" \in enabled /\ UniFiNext
     /\ UNCHANGED <<intakeVars, sniffVars, pollersVars>>
  \/ /\ "pollers" \in enabled /\ PollersNext
     /\ UNCHANGED <<intakeVars, sniffVars, unifiVars>>

ServicesNext ==
  \/ /\ "devices" \in enabled /\ DevicesNext
     /\ UNCHANGED <<backoffVars, chatsVars, knowledgeVars, recordsVars, settingsVars,
                   streamVars>>
  \/ /\ "backoff" \in enabled /\ BackoffNext
     /\ UNCHANGED <<devicesVars, chatsVars, knowledgeVars, recordsVars, settingsVars,
                   streamVars>>
  \/ /\ "chats" \in enabled /\ ChatsNext
     /\ UNCHANGED <<devicesVars, backoffVars, knowledgeVars, recordsVars,
                   settingsVars, streamVars>>
  \/ /\ "knowledge" \in enabled /\ KnowledgeNext
     /\ UNCHANGED <<devicesVars, backoffVars, chatsVars, recordsVars, settingsVars,
                   streamVars>>
  \/ /\ "records" \in enabled /\ RecordsNext
     /\ UNCHANGED <<devicesVars, backoffVars, chatsVars, knowledgeVars, settingsVars,
                   streamVars>>
  \/ /\ "settings" \in enabled /\ SettingsNext
     /\ UNCHANGED <<devicesVars, backoffVars, chatsVars, knowledgeVars, recordsVars,
                   streamVars>>
  \/ /\ "stream" \in enabled /\ LogStreamNext
     /\ UNCHANGED <<devicesVars, backoffVars, chatsVars, knowledgeVars, recordsVars,
                   settingsVars>>

ComponentsNext ==
  /\ UNCHANGED enabled
  /\ \/ CollectorsNext /\ UNCHANGED servicesVars
     \/ ServicesNext /\ UNCHANGED collectorsVars

ComponentsSpec == ComponentsInit /\ [][ComponentsNext]_componentsVars

(* Every variable of a collector or a service has its type.                *)
ComponentsTypeOK ==
  /\ IntakeTypeOK /\ SniffTypeOK /\ UniFiTypeOK /\ PollersTypeOK
  /\ DevicesTypeOK /\ BackoffTypeOK /\ ChatsTypeOK /\ KnowledgeTypeOK
  /\ RecordsTypeOK /\ SettingsTypeOK /\ LogStreamTypeOK
=============================================================================
