------------------------------ MODULE Catalog ------------------------------
(***************************************************************************)
(* The Bambu catalog service: core/src/catalog.rs.                         *)
(*                                                                         *)
(* A catalog is the number of its publication: what a download returns is  *)
(* the latest publication, 0 stands for a file that is missing or does not *)
(* parse and for the empty catalog in RAM.  An update runs as a task of    *)
(* its own; every save of the settings runs as one more task, and the lock *)
(* of the file store, which is not part of this repository, lets any       *)
(* waiting task write next.                                                *)
(***************************************************************************)
EXTENDS Naturals

CONSTANTS
  Savers,        \* tasks that may save the settings at one time
  None,          \* no value
  MaxPublished,  \* bound: publications
  MaxRequests,   \* bound: calls of the web page
  MaxFaults,     \* bound: failing downloads and writes
  MaxCrashes     \* bound: power losses

ASSUME ConstantsAssumption ==
  /\ None \notin {"on", "off", "spawned"}
  /\ {MaxPublished, MaxRequests, MaxFaults, MaxCrashes} \subseteq Nat

VARIABLES
  sdcard,       \* sdcard_available
  wifi,         \* framework.wifi_ok = Some(true)
  published,    \* the publication the server has
  updating,
  status,       \* status.state
  catalog,      \* the catalog in RAM
  auto_update,  \* settings
  pc,           \* where the update task is
  downloaded,   \* update task: parsed download
  saves,        \* save tasks: spawned, or holding the serialized settings
  staging,      \* the file CATALOG_STAGING_PATH
  cached,       \* the file CATALOG_PATH
  legacy,       \* the file LEGACY_CATALOG_PATH
  sdSettings,   \* the file SETTINGS_PATH, None when missing or invalid
  interrupted,  \* history: updates cut off at a write since the last complete one
  spent         \* bounds used up

files    == <<staging, cached, legacy, interrupted>>
settings == <<auto_update, saves, sdSettings>>
update   == <<updating, status, catalog, pc, downloaded>>
world    == <<sdcard, wifi, published>>
vars     == <<world, update, settings, files, spent>>

Automatic == {"on", "off"}
Publications == 0 .. MaxPublished

-----------------------------------------------------------------------------
(* Boot *)

\* load_from_sd: the first file that parses, the staging file before the others.
LoadFromSd(s, c, l) == IF s # 0 THEN s ELSE IF c # 0 THEN c ELSE l

\* load_from_sd: an invalid settings file leaves the default.
LoadSettings_raw(file) == file

LoadSettings(file) == IF file = None THEN "on" ELSE file

Init ==
  /\ sdcard \in BOOLEAN
  /\ wifi = FALSE
  /\ published \in {p \in Publications : p <= 1}
  /\ staging = 0
  /\ cached = 0
  /\ legacy \in IF sdcard THEN 0 .. published ELSE {0}
  /\ sdSettings = None
  /\ updating = FALSE
  /\ catalog = LoadFromSd(staging, cached, legacy)
  /\ status = IF catalog = 0 THEN "none" ELSE "ready"
  /\ auto_update = "on"
  /\ pc = "idle"
  /\ downloaded = 0
  /\ saves = [t \in Savers |-> None]
  /\ interrupted = 0
  /\ spent = [requests |-> 0, faults |-> 0, crashes |-> 0]

-----------------------------------------------------------------------------
(* Updates *)

CountRequest == spent.requests < MaxRequests /\ spent' = [spent EXCEPT !.requests = @ + 1]
CountFault == spent.faults < MaxFaults /\ spent' = [spent EXCEPT !.faults = @ + 1]

\* request_update: the flag, the connection, and the task.  A call that is
\* refused, or whose task cannot be spawned, changes nothing.
RequestUpdate ==
  /\ ~updating
  /\ wifi
  /\ updating' = TRUE
  /\ pc' = "started"
  /\ UNCHANGED <<status, catalog, downloaded>>

\* start_periodic_updates: a tick that finds the setting on.
PeriodicUpdate ==
  /\ auto_update = "on"
  /\ RequestUpdate
  /\ UNCHANGED <<world, settings, files, spent>>

\* The update button of the web page.
ManualUpdate ==
  /\ CountRequest
  /\ RequestUpdate
  /\ UNCHANGED <<world, settings, files>>

\* The first poll of the task.
StartDownload ==
  /\ pc = "started"
  /\ status' = "downloading"
  /\ pc' = "download"
  /\ UNCHANGED <<world, updating, catalog, downloaded, settings, files, spent>>

\* The task ends, and the flag is dropped.
EndUpdate_keepsFlag(outcome) ==
  /\ status' = outcome
  /\ updating' = updating
  /\ pc' = "idle"
  /\ downloaded' = 0

EndUpdate_ignoresError(outcome) ==
  /\ status' = "ready"
  /\ updating' = FALSE
  /\ pc' = "idle"
  /\ downloaded' = 0

EndUpdate(outcome) ==
  /\ status' = outcome
  /\ updating' = FALSE
  /\ pc' = "idle"
  /\ downloaded' = 0

\* download_catalog and parse_catalog succeed; without a card the catalog is
\* committed at once.
Download ==
  /\ pc = "download"
  /\ wifi
  /\ published # 0
  /\ IF sdcard
     THEN /\ downloaded' = published
          /\ pc' = "stagingWrite"
          /\ UNCHANGED <<updating, status, catalog>>
     ELSE /\ catalog' = published
          /\ EndUpdate("ready")
  /\ UNCHANGED <<world, settings, files, spent>>

\* The download fails, or what it returns is not a valid catalog.
DownloadFails ==
  /\ pc = "download"
  /\ IF wifi /\ published # 0 THEN CountFault ELSE UNCHANGED spent
  /\ EndUpdate("failed")
  /\ UNCHANGED <<world, catalog, settings, files>>

\* The staging file first, then the catalog file, then the RAM.
WriteStaging ==
  /\ pc = "stagingWrite"
  /\ staging' = downloaded
  /\ pc' = "catalogWrite"
  /\ UNCHANGED <<world, updating, status, catalog, downloaded, settings, cached, legacy,
                 interrupted, spent>>

WriteCatalog ==
  /\ pc = "catalogWrite"
  /\ cached' = downloaded
  /\ catalog' = downloaded
  /\ interrupted' = 0
  /\ EndUpdate("ready")
  /\ UNCHANGED <<world, settings, staging, legacy, spent>>

\* What a write that fails or loses power leaves of a file: the old content, none
\* that parses, or all of the new.
Interrupted(old, new) == {old, 0, new}

\* The file in work is cut off; the other one is left alone.
CutOff ==
  /\ \/ /\ pc = "stagingWrite"
        /\ staging' \in Interrupted(staging, downloaded)
        /\ UNCHANGED cached
     \/ /\ pc = "catalogWrite"
        /\ cached' \in Interrupted(cached, downloaded)
        /\ UNCHANGED staging
  /\ interrupted' = interrupted + 1

WriteFails_commits ==
  /\ CutOff
  /\ CountFault
  /\ catalog' = downloaded
  /\ EndUpdate("ready")
  /\ UNCHANGED <<world, settings, legacy>>

WriteFails ==
  /\ CutOff
  /\ CountFault
  /\ EndUpdate("failed")
  /\ UNCHANGED <<world, catalog, settings, legacy>>

UpdateStep ==
  StartDownload \/ Download \/ DownloadFails \/ WriteStaging \/ WriteCatalog \/ WriteFails

-----------------------------------------------------------------------------
(* Settings *)

\* set_settings: the RAM at once; the card by a task, if there is a card.  When
\* no task can be spawned the RAM is changed all the same.
SetSettings(value) ==
  /\ CountRequest
  /\ auto_update' = value
  /\ \/ /\ sdcard
        /\ \E t \in Savers : saves[t] = None /\ saves' = [saves EXCEPT ![t] = "spawned"]
     \/ UNCHANGED saves /\ (~sdcard \/ \A t \in Savers : saves[t] # None)
  /\ UNCHANGED <<world, update, sdSettings, files>>

\* persist_settings serializes the settings, then waits for the file store.
Serialize(t) ==
  /\ saves[t] = "spawned"
  /\ saves' = [saves EXCEPT ![t] = auto_update]
  /\ UNCHANGED <<world, update, auto_update, sdSettings, files, spent>>

SaveSettings(t) ==
  /\ saves[t] \in Automatic
  /\ sdSettings' = saves[t]
  /\ saves' = [saves EXCEPT ![t] = None]
  /\ UNCHANGED <<world, update, auto_update, files, spent>>

SaveFails(t) ==
  /\ saves[t] \in Automatic
  /\ CountFault
  /\ sdSettings' \in {sdSettings, None}
  /\ saves' = [saves EXCEPT ![t] = None]
  /\ UNCHANGED <<world, update, auto_update, files>>

SettingsStep(t) == Serialize(t) \/ SaveSettings(t) \/ SaveFails(t)

-----------------------------------------------------------------------------
(* The world *)

Publish ==
  /\ published < MaxPublished
  /\ published' = published + 1
  /\ UNCHANGED <<sdcard, wifi, update, settings, files, spent>>

WifiChanges ==
  /\ wifi' = ~wifi
  /\ UNCHANGED <<sdcard, published, update, settings, files, spent>>

\* Power is lost and the firmware boots: new, load_from_sd.
Crash ==
  /\ spent.crashes < MaxCrashes
  /\ spent' = [spent EXCEPT !.crashes = @ + 1]
  /\ IF pc \in {"stagingWrite", "catalogWrite"}
     THEN CutOff
     ELSE UNCHANGED <<staging, cached, interrupted>>
  /\ \/ UNCHANGED sdSettings
     \/ \E t \in Savers : saves[t] \in Automatic /\ sdSettings' \in {saves[t], None}
  /\ catalog' = LoadFromSd(staging', cached', legacy)
  /\ status' = IF catalog' = 0 THEN "none" ELSE "ready"
  /\ auto_update' = LoadSettings(sdSettings')
  /\ updating' = FALSE
  /\ pc' = "idle"
  /\ downloaded' = 0
  /\ saves' = [t \in Savers |-> None]
  /\ wifi' = FALSE
  /\ UNCHANGED <<sdcard, published, legacy>>

-----------------------------------------------------------------------------
(* Specification *)

Next ==
  \/ PeriodicUpdate \/ ManualUpdate \/ UpdateStep
  \/ \E value \in Automatic : SetSettings(value)
  \/ \E t \in Savers : SettingsStep(t)
  \/ Publish \/ WifiChanges \/ Crash

Spec == Init /\ [][Next]_vars

\* The timer ticks again and again, and a started task goes on.
Fairness ==
  /\ WF_vars(PeriodicUpdate)
  /\ WF_vars(UpdateStep)
  /\ \A t \in Savers : WF_vars(SettingsStep(t))

FairSpec == Spec /\ Fairness

-----------------------------------------------------------------------------
(* Properties *)

\* Every variable holds a value of its kind.
TypeOK ==
  /\ sdcard \in BOOLEAN
  /\ wifi \in BOOLEAN
  /\ published \in Publications
  /\ updating \in BOOLEAN
  /\ status \in {"none", "ready", "downloading", "failed"}
  /\ catalog \in Publications
  /\ auto_update \in Automatic
  /\ pc \in {"idle", "started", "download", "stagingWrite", "catalogWrite"}
  /\ downloaded \in Publications
  /\ saves \in [Savers -> Automatic \cup {"spawned", None}]
  /\ {staging, cached, legacy} \subseteq Publications
  /\ sdSettings \in Automatic \cup {None}
  /\ interrupted \in Nat
  /\ spent \in [requests : Nat, faults : Nat, crashes : Nat]

\* While the state says Ready, a reboot finds on the card exactly the catalog in
\* use, however many earlier updates were cut off (load_from_sd against update).
ReadyIsCached ==
  sdcard /\ status = "ready" =>
    /\ catalog # 0
    /\ LoadFromSd(staging, cached, legacy) = catalog

\* The catalog in use never goes back to an earlier publication, reboots
\* included, as long as no two updates in a row were cut off at a write: the two
\* files are never rewritten both by one update that does not complete.
NeverGoesBack ==
  [][sdcard /\ interrupted' <= 1 => catalog' >= catalog]_vars

\* With automatic updates on and a connection that stays, the latest publication
\* is in use in the end: no path through update keeps the updating flag.
Undisturbed == auto_update = "on" /\ wifi /\ published = MaxPublished
CatalogConverges == <>[]Undisturbed => <>[](catalog = MaxPublished)

=============================================================================
