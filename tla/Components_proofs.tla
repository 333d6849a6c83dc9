--------------------------- MODULE Components_proofs ---------------------------
(***************************************************************************)
(* Proofs about the process: a behaviour of it is one of every component,  *)
(* so what is proved of a component holds in the process; for any          *)
(* constants and any of the components studied.                            *)
(***************************************************************************)
EXTENDS Components, Intake_proofs, Collectors_proofs, Stores_proofs, Services_proofs

LEMMA Assumptions ==
  /\ IntakeAssumption /\ SniffAssumption /\ UniFiAssumption /\ PollersAssumption
  /\ DevicesAssumption /\ BackoffAssumption /\ ChatsAssumption /\ KnowledgeAssumption
  /\ RecordsAssumption /\ SettingsAssumption /\ LogStreamAssumption
BY ComponentsAssumption

(* A step of the process is one of a component, or leaves it as it is.     *)
LEMMA CollectorsStep ==
  [ComponentsNext]_componentsVars =>
    /\ [IntakeNext]_intakeVars /\ [SniffNext]_sniffVars
    /\ [UniFiNext]_unifiVars /\ [PollersNext]_pollersVars
<1> SUFFICES ASSUME [ComponentsNext]_componentsVars
             PROVE  /\ [IntakeNext]_intakeVars /\ [SniffNext]_sniffVars
                    /\ [UniFiNext]_unifiVars /\ [PollersNext]_pollersVars
  OBVIOUS
<1>0. \/ UNCHANGED componentsVars \/ (ServicesNext /\ UNCHANGED collectorsVars)
      \/ CollectorsNext
  BY Zenon DEF ComponentsNext
<1>1. CASE UNCHANGED componentsVars \/ (ServicesNext /\ UNCHANGED collectorsVars)
  <2>1. UNCHANGED <<intakeVars, sniffVars, unifiVars, pollersVars>>
    BY <1>1 DEF componentsVars, collectorsVars
  <2> QED BY <2>1
<1>2. CASE CollectorsNext
  BY <1>2 DEF CollectorsNext
<1> QED BY <1>0, <1>1, <1>2

LEMMA ServicesStep ==
  [ComponentsNext]_componentsVars =>
    /\ [DevicesNext]_devicesVars /\ [BackoffNext]_backoffVars /\ [ChatsNext]_chatsVars
    /\ [KnowledgeNext]_knowledgeVars /\ [RecordsNext]_recordsVars
    /\ [SettingsNext]_settingsVars /\ [LogStreamNext]_streamVars
<1> SUFFICES ASSUME [ComponentsNext]_componentsVars
             PROVE  /\ [DevicesNext]_devicesVars /\ [BackoffNext]_backoffVars
                    /\ [ChatsNext]_chatsVars /\ [KnowledgeNext]_knowledgeVars
                    /\ [RecordsNext]_recordsVars /\ [SettingsNext]_settingsVars
                    /\ [LogStreamNext]_streamVars
  OBVIOUS
<1>0. \/ UNCHANGED componentsVars \/ (CollectorsNext /\ UNCHANGED servicesVars)
      \/ ServicesNext
  BY Zenon DEF ComponentsNext
<1>1. CASE UNCHANGED componentsVars \/ (CollectorsNext /\ UNCHANGED servicesVars)
  <2>1. UNCHANGED <<devicesVars, backoffVars, chatsVars, knowledgeVars, recordsVars,
                    settingsVars, streamVars>>
    BY <1>1 DEF componentsVars, servicesVars
  <2> QED BY <2>1
<1>2. CASE ServicesNext
  BY <1>2 DEF ServicesNext
<1> QED BY <1>0, <1>1, <1>2

(* A behaviour of the process is one of every collector.                   *)
THEOREM CollectorsAreKept ==
  ComponentsSpec => IntakeSpec /\ SniffSpec /\ UniFiSpec /\ PollersSpec
<1>1. ComponentsInit => IntakeInit /\ SniffInit /\ UniFiInit /\ PollersInit
  BY DEF ComponentsInit
<1> QED BY <1>1, CollectorsStep, PTL
        DEF ComponentsSpec, IntakeSpec, SniffSpec, UniFiSpec, PollersSpec

(* A behaviour of the process is one of every service.                     *)
THEOREM ServicesAreKept ==
  ComponentsSpec =>
    /\ DevicesSpec /\ BackoffSpec /\ ChatsSpec /\ KnowledgeSpec
    /\ RecordsSpec /\ SettingsSpec /\ LogStreamSpec
<1>1. ComponentsInit =>
        /\ DevicesInit /\ BackoffInit /\ ChatsInit /\ KnowledgeInit
        /\ RecordsInit /\ SettingsInit /\ LogStreamInit
  BY DEF ComponentsInit
<1> QED BY <1>1, ServicesStep, PTL
        DEF ComponentsSpec, DevicesSpec, BackoffSpec, ChatsSpec, KnowledgeSpec, RecordsSpec,
            SettingsSpec, LogStreamSpec

(* Every variable of every collector and service keeps its type.           *)
THEOREM ComponentsTypeCorrect == ComponentsSpec => []ComponentsTypeOK
<1>1. IntakeSpec => []IntakeTypeOK
  BY Assumptions, IntakeTypeCorrect
<1>2. SniffSpec => []SniffTypeOK
  BY Assumptions, SniffTypeCorrect
<1>3. UniFiSpec => []UniFiTypeOK
  BY Assumptions, UniFiTypeCorrect
<1>4. PollersSpec => []PollersTypeOK
  BY Assumptions, PollersTypeCorrect
<1>5. DevicesSpec => []DevicesTypeOK
  BY Assumptions, DevicesTypeCorrect
<1>6. BackoffSpec => []BackoffTypeOK
  BY Assumptions, BackoffTypeCorrect
<1>7. ChatsSpec => []ChatsTypeOK
  BY Assumptions, ChatsTypeCorrect
<1>8. KnowledgeSpec => []KnowledgeTypeOK
  BY Assumptions, KnowledgeTypeCorrect
<1>9. RecordsSpec => []RecordsTypeOK
  BY Assumptions, RecordsTypeCorrect
<1>10. SettingsSpec => [](SettingsTypeOK /\ SavedIsInForce)
  BY Assumptions, SavedStaysInForce
<1>11. LogStreamSpec => []LogStreamTypeOK
  BY Assumptions, StreamTypeCorrect
<1>12. IntakeTypeOK /\ SniffTypeOK /\ UniFiTypeOK /\ PollersTypeOK /\ DevicesTypeOK
       /\ BackoffTypeOK /\ ChatsTypeOK /\ KnowledgeTypeOK /\ RecordsTypeOK
       /\ (SettingsTypeOK /\ SavedIsInForce) /\ LogStreamTypeOK => ComponentsTypeOK
  BY DEF ComponentsTypeOK
<1> QED BY CollectorsAreKept, ServicesAreKept, <1>1, <1>2, <1>3, <1>4, <1>5, <1>6, <1>7, <1>8,
           <1>9, <1>10, <1>11, <1>12, PTL

(* With all of them in one process, whatever the order of their steps:     *)
(* what each promises of its own state holds.                              *)
THEOREM PromisesHoldTogether ==
  ComponentsSpec =>
    /\ [](LineAtMostTwice /\ NothingTailedIsMissed /\ CountsAreConserved)
    /\ [](ConflictsAreBounded /\ ArrivalsAreNew /\ DepartsOnce)
    /\ [](NewPortsReported /\ SuspiciousAccounted /\ StreamsReportedOnce)
    /\ [](RefusalsEnd /\ QuestionsGetAnswers /\ OldDocumentsHaveAReason /\ SyncedIsFresh)
    /\ [](NoAnswerIsLost /\ SavedIsInForce /\ StreamHasNoGaps)
    /\ UserValuesKept
<1>1. IntakeSpec => []LineAtMostTwice /\ []NothingTailedIsMissed /\ []CountsAreConserved
  BY Assumptions, NoLineThrice, NoLineMissed, CountsStayConserved
<1>2. SniffSpec => []ConflictsAreBounded
  BY Assumptions, ConflictsAreFew
<1>3. UniFiSpec => []ArrivalsAreNew /\ []DepartsOnce
  BY Assumptions, OneArrivalPerClient, OneDepartureEach
<1>4. PollersSpec => []NewPortsReported /\ []SuspiciousAccounted /\ []StreamsReportedOnce
  BY Assumptions, NewPortsAreReported, SuspiciousHaveJobs, StreamsAlertOnce
<1>5. DevicesSpec => UserValuesKept
  BY Assumptions, EntriesAreKept
<1>6. BackoffSpec => []RefusalsEnd
  BY Assumptions, RefusalsAreBounded
<1>7. ChatsSpec => []QuestionsGetAnswers
  BY Assumptions, AnswersFollow
<1>8. KnowledgeSpec => []OldDocumentsHaveAReason /\ []SyncedIsFresh
  BY Assumptions, OldDocumentsAreKept, SyncsAreFresh
<1>9. RecordsSpec => []NoAnswerIsLost
  BY Assumptions, AnswersAreKept
<1>10. SettingsSpec => [](SettingsTypeOK /\ SavedIsInForce)
  BY Assumptions, SavedStaysInForce
<1>11. LogStreamSpec => []StreamHasNoGaps
  BY Assumptions, StreamsAreComplete
<1> QED BY CollectorsAreKept, ServicesAreKept, <1>1, <1>2, <1>3, <1>4, <1>5, <1>6, <1>7, <1>8,
           <1>9, <1>10, <1>11, PTL
=============================================================================
