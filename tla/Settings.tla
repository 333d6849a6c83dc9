------------------------------- MODULE Settings -------------------------------
(***************************************************************************)
(* The settings: config.yaml, the Settings object that is in force, and    *)
(* the dashboard's save-setting.  A save writes the file first and         *)
(* validates second, by reloading it; its handler has no await, so saves   *)
(* do not interleave.  The file can also be edited by hand while the       *)
(* process runs, and writing it can fail half-way, for it is written in    *)
(* place.  Left out: keys that are not in save-setting's whitelist, which  *)
(* it refuses, and the sections as levels of their own.                    *)
(***************************************************************************)
EXTENDS Naturals, FiniteSets

CONSTANTS
  Keys, Values,
  Typed,           \* what each key's form field can hold, after the type conversion
  Accepts,         \* the <<key, value>> pairs that Settings.model_validate accepts
  Env,             \* keys an environment variable overrides
  Bridged,         \* keys the legacy openwebui section replaces when they are empty
  Fallback,        \* the value of each key the file does not set: the default or the legacy one
  MaxConfigFaults  \* bound: edits by hand and interrupted writes

EmptyValue == "empty"
FromEnv    == "from env"
Absent     == "absent"
Unloaded   == "unloaded"

SettingsAssumption ==
  /\ {Absent, Unloaded, FromEnv} \cap Values = {}
  /\ Typed \in [Keys -> SUBSET Values] /\ Fallback \in [Keys -> Values]
  /\ Accepts \subseteq Keys \X (Values \cup {FromEnv})
  /\ \A k \in Keys : <<k, Fallback[k]>> \in Accepts
  /\ \A k \in Env : <<k, FromEnv>> \in Accepts
  /\ Env \subseteq Keys /\ Bridged \subseteq Keys /\ MaxConfigFaults \in Nat

VARIABLES
  config, readable,   \* config.yaml: the value of each key, and whether it parses
  settings,           \* _settings
  running,
  configFaults,
  told,               \* history: what the last save of a key that was answered "saved" stored
  warned              \* history: a save was answered with an error, or the file changed otherwise

settingsVars == <<config, readable, settings, running, configFaults, told, warned>>

SettingsTypeOK ==
  /\ config \in [Keys -> Values \cup {Absent}] /\ readable \in BOOLEAN
  /\ settings \in [Keys -> Values \cup {FromEnv, Unloaded}]
  /\ running \in BOOLEAN /\ configFaults \in 0..MaxConfigFaults
  /\ told \in [Keys -> Values \cup {Absent}] /\ warned \in BOOLEAN

(* Settings.from_yaml: the file, the environment, the legacy section.      *)
Resolved(k, v) ==
  IF k \in Env THEN FromEnv
  ELSE IF v = Absent \/ (k \in Bridged /\ v = EmptyValue) THEN Fallback[k] ELSE v

Validated(raw) == \A k \in Keys : <<k, Resolved(k, raw[k])>> \in Accepts
FromYaml(raw)  == [k \in Keys |-> Resolved(k, raw[k])]

(* A first start without a config.yaml.                                    *)
SettingsInit ==
  /\ config = [k \in Keys |-> Absent] /\ readable = TRUE
  /\ settings = [k \in Keys |-> Unloaded] /\ running = FALSE /\ configFaults = 0
  /\ told = [k \in Keys |-> Absent] /\ warned = FALSE

(* lifespan begins with get_settings: a file that does not validate raises *)
(* there, and the process does not come up.                                *)
Start ==
  /\ ~running /\ readable /\ Validated(config)
  /\ running' = TRUE /\ settings' = FromYaml(config)
  /\ UNCHANGED <<config, readable, configFaults, told, warned>>

Stop ==
  /\ running /\ running' = FALSE /\ settings' = [k \in Keys |-> Unloaded]
  /\ UNCHANGED <<config, readable, configFaults, told, warned>>

(* What a save stores: the file as it is now with one value replaced.      *)
Replaced(k, v) == [config EXCEPT ![k] = v]

(* reload_settings, after _save_raw_config: the settings are assigned only *)
(* when the whole file validates.  Mutant: get_settings instead, which     *)
(* answers from memory.                                                    *)
ReloadFromMemory(raw) == UNCHANGED settings
Reload(raw) == settings' = FromYaml(raw)

SaveSetting(k, v) ==
  /\ running /\ readable /\ Validated(Replaced(k, v))
  /\ config' = Replaced(k, v)
  /\ Reload(Replaced(k, v))
  /\ told' = [told EXCEPT ![k] = v] /\ warned' = FALSE
  /\ UNCHANGED <<readable, running, configFaults>>

(* The answer is an error, but the file keeps the value.                   *)
SaveRefused(k, v) ==
  /\ running /\ readable /\ ~Validated(Replaced(k, v))
  /\ config' = Replaced(k, v)
  /\ told' = [told EXCEPT ![k] = Absent] /\ warned' = TRUE
  /\ UNCHANGED <<readable, settings, running, configFaults>>

(* The disk is full, or the process is killed, while the file is written:  *)
(* what came after that point of the file is gone, with what had been      *)
(* saved there.  If the process lives, it answers with an error.           *)
WriteCut(k, v) ==
  /\ running /\ readable /\ configFaults < MaxConfigFaults
  /\ \E kept \in SUBSET {j \in Keys : Replaced(k, v)[j] # Absent} :
       config' = [j \in Keys |-> IF j \in kept THEN Replaced(k, v)[j] ELSE Absent]
  /\ readable' \in BOOLEAN
  /\ running' \in BOOLEAN
  /\ settings' = IF running' THEN settings ELSE [j \in Keys |-> Unloaded]
  /\ configFaults' = configFaults + 1
  /\ told' = [j \in Keys |-> Absent] /\ warned' = TRUE

(* An edit by hand makes the file readable; nothing reloads it.            *)
HandEdit(k, v) ==
  /\ configFaults < MaxConfigFaults /\ configFaults' = configFaults + 1
  /\ config' = Replaced(k, v) /\ readable' = TRUE
  /\ told' = [told EXCEPT ![k] = Absent] /\ warned' = TRUE
  /\ UNCHANGED <<settings, running>>

SettingsNext ==
  \/ Start \/ Stop
  \/ \E k \in Keys : \E v \in Typed[k] : SaveSetting(k, v) \/ SaveRefused(k, v) \/ WriteCut(k, v)
  \/ \E k \in Keys, v \in Values : HandEdit(k, v)

SettingsSpec == SettingsInit /\ [][SettingsNext]_settingsVars

-----------------------------------------------------------------------------
(* routes.py:2745-2795.  A value whose save was answered "saved" is in     *)
(* force whenever the process runs, over restarts, later errors and edits  *)
(* of other keys, until a later save of the same key, an edit of it or a   *)
(* cut write; and as long as no save was answered with an error and nobody *)
(* touched the file, the process can start again from it.                  *)
SavedIsInForce ==
  /\ running => \A k \in Keys : told[k] # Absent => settings[k] = Resolved(k, told[k])
  /\ ~warned => readable /\ Validated(config)
=============================================================================
