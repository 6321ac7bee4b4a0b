-------------------------- MODULE ReaderController --------------------------
(***************************************************************************)
(* The touch screen's controller: ReaderController in core/src/app.rs with *)
(* the buttons of core/ui/appwindow.slint.                                 *)
(*                                                                         *)
(* The controller runs in one step for each reader event, button and       *)
(* result.  What takes time runs in a spawned task that carries a copy of  *)
(* the spool it was started for and comes back through a finish_* method.  *)
(* A spool is shown until another one is read, so a result may come back   *)
(* while another spool is shown.                                           *)
(*                                                                         *)
(* What the FilaMan service answers is any answer of that call; its busy   *)
(* flag keeps two stores or archives from being answered at one time.  The *)
(* id under which FilaMan knows a spool is the spool itself.  Which        *)
(* location is shown, the texts and the images are left out.               *)
(***************************************************************************)
EXTENDS Naturals

CONSTANTS
  Spools,     \* spools that may be held to the reader
  Bambu,      \* those with a Bambu tag; the others carry an OpenPrintTag
  Slots,      \* tasks the executor can hold at one time
  None,       \* no value
  MaxScans    \* bound: successful reads

ASSUME ConstantsAssumption ==
  /\ Bambu \subseteq Spools
  /\ None \notin Spools \cup Slots
  /\ MaxScans \in Nat

VARIABLES
  active_tray_uid,        \* the spool shown last (and active_spool)
  pending_spool,
  pending_locations,      \* are there locations to choose from?
  registered_spool_id,
  offline_pending,
  has_spool,              \* ReaderState of the user interface
  has_location_action,
  choosing_location,
  moving_existing_spool,
  confirming_archive,
  filaman_busy,
  tasks,                  \* the spawned tasks
  serving,                \* the task that holds the busy flag of the service
  asked,                  \* history: spool the archive confirmation was shown for
  overtaken,              \* history: did the last read find a store for another spool running?
  scans                   \* bound used up

context   == <<pending_spool, pending_locations, registered_spool_id, offline_pending, has_location_action>>
selection == <<choosing_location, moving_existing_spool, confirming_archive>>
shown     == <<active_tray_uid, has_spool, overtaken, scans>>
vars      == <<context, selection, shown, filaman_busy, tasks, serving, asked>>

NoTask == [kind |-> "none", spool |-> None, known |-> None]

\* known: the spool id that store_spool_at is given.
Task == {NoTask}
        \cup [kind : {"prepare", "catalog", "archive"}, spool : Spools, known : {None}]
        \cup [kind : {"store"}, spool : Spools, known : Spools \cup {None}]

Init ==
  /\ active_tray_uid = None
  /\ pending_spool = None
  /\ pending_locations = FALSE
  /\ registered_spool_id = None
  /\ offline_pending = FALSE
  /\ has_spool = FALSE
  /\ has_location_action = FALSE
  /\ choosing_location = FALSE
  /\ moving_existing_spool = FALSE
  /\ confirming_archive = FALSE
  /\ filaman_busy = FALSE
  /\ tasks = [t \in Slots |-> NoTask]
  /\ serving = None
  /\ asked = None
  /\ overtaken = FALSE
  /\ scans = 0

-----------------------------------------------------------------------------
(* Pieces of the methods *)

\* close_location_selection, but for the busy flag, which its callers set as well.
CloseLocationSelection_keepsConfirming ==
  /\ choosing_location' = FALSE
  /\ moving_existing_spool' = FALSE
  /\ confirming_archive' = confirming_archive

CloseLocationSelection ==
  /\ choosing_location' = FALSE
  /\ moving_existing_spool' = FALSE
  /\ confirming_archive' = FALSE

\* reset_filaman_context, but for the busy flag.
ResetFilamanContext ==
  /\ pending_spool' = None
  /\ pending_locations' = FALSE
  /\ registered_spool_id' = None
  /\ offline_pending' = FALSE
  /\ has_location_action' = FALSE
  /\ CloseLocationSelection

\* spawn_heap: a task in a free slot of ts.
Spawn(ts, free, task) == \E t \in Slots : free[t] = NoTask /\ tasks' = [ts EXCEPT ![t] = task]

\* A task ends; what it holds is given back.
Ended(t) == [tasks EXCEPT ![t] = NoTask]
GiveBack(t) == serving' = IF serving = t THEN None ELSE serving

\* start_filaman_preparation, called while the tasks ts are left: the lookup
\* starts, or the import is disabled or no task is free.
StartFilamanPreparation(s, ts) ==
  /\ ResetFilamanContext
  /\ \/ /\ Spawn(ts, tasks, [kind |-> "prepare", spool |-> s, known |-> None])
        /\ filaman_busy' = TRUE
     \/ /\ tasks' = ts
        /\ filaman_busy' = FALSE

\* show_spool
ShowSpool(s) ==
  /\ scans < MaxScans
  /\ scans' = scans + 1
  /\ active_tray_uid' = s
  /\ has_spool' = TRUE
  /\ overtaken' = \E t \in Slots :
       tasks[t].kind = "store" /\ (tasks[t].spool # s \/ tasks[t].known \notin {None, s})

-----------------------------------------------------------------------------
(* Reader events *)

\* TagRead with a Bambu payload.
ReadBambu(s) ==
  /\ s \in Bambu
  /\ ShowSpool(s)
  /\ StartFilamanPreparation(s, tasks)
  /\ UNCHANGED <<serving, asked>>

\* TagRead with an OpenPrintTag payload: the catalog is asked first.
ReadOpenPrintTag_keepsBusy(s) ==
  /\ s \notin Bambu
  /\ ResetFilamanContext
  /\ filaman_busy' = filaman_busy
  /\ ShowSpool(s)
  /\ \/ Spawn(tasks, tasks, [kind |-> "catalog", spool |-> s, known |-> None])
     \/ UNCHANGED tasks
  /\ UNCHANGED <<serving, asked>>

ReadOpenPrintTag(s) ==
  /\ s \notin Bambu
  /\ ResetFilamanContext
  /\ filaman_busy' = FALSE
  /\ ShowSpool(s)
  /\ \/ Spawn(tasks, tasks, [kind |-> "catalog", spool |-> s, known |-> None])
     \/ UNCHANGED tasks
  /\ UNCHANGED <<serving, asked>>

\* ReadFailed, UnsupportedTag, or a payload that does not decode: show_status
\* hides the spool and keeps everything else.
ReadFails ==
  /\ has_spool
  /\ has_spool' = FALSE
  /\ UNCHANGED <<context, selection, active_tray_uid, overtaken, scans, filaman_busy, tasks,
                 serving, asked>>

-----------------------------------------------------------------------------
(* Buttons *)

\* The location button of the spool view, open_location_management.
OpenLocationManagement ==
  /\ has_spool /\ ~choosing_location /\ has_location_action
  /\ ~filaman_busy
  /\ registered_spool_id # None \/ pending_spool # None
  /\ choosing_location' = TRUE
  /\ moving_existing_spool' = TRUE
  /\ confirming_archive' = FALSE
  /\ UNCHANGED <<context, shown, filaman_busy, tasks, serving, asked>>

\* The spool a chosen location is for.
Chosen == IF pending_spool # None THEN pending_spool ELSE active_tray_uid

\* A location button, select_location; without a free task nothing changes.
SelectLocation_pendingOnly ==
  /\ choosing_location /\ ~confirming_archive
  /\ ~filaman_busy
  /\ pending_locations
  /\ Spawn(tasks, tasks, [kind |-> "store", spool |-> pending_spool, known |-> registered_spool_id])
  /\ filaman_busy' = TRUE
  /\ UNCHANGED <<context, selection, shown, serving, asked>>

SelectLocation ==
  /\ choosing_location /\ ~confirming_archive
  /\ ~filaman_busy
  /\ pending_locations
  /\ Chosen # None
  /\ Spawn(tasks, tasks, [kind |-> "store", spool |-> Chosen, known |-> registered_spool_id])
  /\ filaman_busy' = TRUE
  /\ UNCHANGED <<context, selection, shown, serving, asked>>

\* The archive button: the first press asks, the second one archives.
ArchiveSpool_once ==
  /\ choosing_location /\ moving_existing_spool /\ ~offline_pending
  /\ ~filaman_busy
  /\ registered_spool_id # None
  /\ Spawn(tasks, tasks, [kind |-> "archive", spool |-> registered_spool_id, known |-> None])
  /\ filaman_busy' = TRUE
  /\ UNCHANGED <<context, selection, shown, serving, asked>>

ArchiveSpool ==
  /\ choosing_location /\ moving_existing_spool /\ ~offline_pending
  /\ ~filaman_busy
  /\ registered_spool_id # None
  /\ IF ~confirming_archive
     THEN /\ confirming_archive' = TRUE
          /\ asked' = registered_spool_id
          /\ UNCHANGED <<filaman_busy, tasks>>
     ELSE /\ Spawn(tasks, tasks, [kind |-> "archive", spool |-> registered_spool_id, known |-> None])
          /\ filaman_busy' = TRUE
          /\ UNCHANGED <<confirming_archive, asked>>
  /\ UNCHANGED <<context, choosing_location, moving_existing_spool, shown, serving>>

\* The button Back or Cancel, cancel_import.
CancelImport ==
  /\ choosing_location
  /\ ~filaman_busy
  /\ \/ /\ confirming_archive
        /\ confirming_archive' = FALSE
        /\ UNCHANGED <<context, choosing_location, moving_existing_spool>>
     \/ /\ ~confirming_archive
        /\ IF pending_spool # None /\ ~offline_pending
           THEN ResetFilamanContext
           ELSE CloseLocationSelection /\ UNCHANGED context
  /\ UNCHANGED <<shown, filaman_busy, tasks, serving, asked>>

-----------------------------------------------------------------------------
(* Tasks *)

\* The call in slot t takes the busy flag of the service.
Serve(t) ==
  /\ tasks[t].kind \in {"prepare", "store", "archive"}
  /\ serving = None
  /\ serving' = t
  /\ UNCHANGED <<context, selection, shown, filaman_busy, tasks, asked>>

\* openprinttag_catalog::load has ended, finish_openprinttag_catalog_load: with or
\* without catalog data the lookup in FilaMan follows.
FinishCatalogLoad(t) ==
  /\ tasks[t].kind = "catalog"
  /\ IF tasks[t].spool # active_tray_uid
     THEN /\ tasks' = Ended(t)
          /\ UNCHANGED <<context, selection, filaman_busy>>
     ELSE StartFilamanPreparation(tasks[t].spool, Ended(t))
  /\ UNCHANGED <<shown, serving, asked>>

\* The check at the start of finish_filaman_preparation.
IsStale_never(t) == FALSE

IsStale(t) == tasks[t].spool # active_tray_uid

StalePreparation(t) ==
  /\ tasks[t].kind = "prepare"
  /\ IsStale(t)
  /\ tasks' = Ended(t)
  /\ GiveBack(t)
  /\ UNCHANGED <<context, selection, shown, filaman_busy, asked>>

\* SpoolRegistration::Existing, New and Pending, and the error.  Any of them may
\* be answered from the inventory in RAM, without the flag of the service.
FoundExisting(t) ==
  /\ offline_pending' = FALSE
  /\ pending_spool' = None
  /\ pending_locations' \in BOOLEAN
  /\ registered_spool_id' = tasks[t].spool
  /\ has_location_action' = TRUE
  /\ CloseLocationSelection

FoundNew(t) ==
  /\ offline_pending' = FALSE
  /\ pending_spool' = tasks[t].spool
  /\ pending_locations' \in BOOLEAN
  /\ choosing_location' = TRUE
  /\ UNCHANGED <<registered_spool_id, has_location_action, moving_existing_spool, confirming_archive>>

FoundPending(t) ==
  /\ offline_pending' = TRUE
  /\ pending_spool' = tasks[t].spool
  /\ pending_locations' \in BOOLEAN
  /\ registered_spool_id' = None
  /\ has_location_action' = TRUE
  /\ CloseLocationSelection

FinishFilamanPreparation(t) ==
  /\ tasks[t].kind = "prepare"
  /\ ~IsStale(t)
  /\ FoundExisting(t) \/ FoundNew(t) \/ FoundPending(t) \/ ResetFilamanContext
  /\ filaman_busy' = FALSE
  /\ tasks' = Ended(t)
  /\ GiveBack(t)
  /\ UNCHANGED <<shown, asked>>

\* StorageOutcome::Applied: the id is that of the spool the service has moved.
StorageApplied(t) ==
  /\ serving = t
  /\ offline_pending' = FALSE
  /\ pending_spool' = None
  /\ registered_spool_id' = IF tasks[t].known # None THEN tasks[t].known ELSE tasks[t].spool
  /\ has_location_action' = TRUE
  /\ CloseLocationSelection
  /\ UNCHANGED pending_locations

\* StorageOutcome::Queued
StorageQueued_keepsId(t) ==
  /\ serving = t
  /\ offline_pending' = TRUE
  /\ pending_spool' = tasks[t].spool
  /\ has_location_action' = TRUE
  /\ CloseLocationSelection
  /\ UNCHANGED <<pending_locations, registered_spool_id>>

StorageQueued(t) ==
  /\ serving = t
  /\ offline_pending' = TRUE
  /\ pending_spool' = tasks[t].spool
  /\ registered_spool_id' = None
  /\ has_location_action' = TRUE
  /\ CloseLocationSelection
  /\ UNCHANGED pending_locations

StorageFailed(t) ==
  /\ pending_spool' = tasks[t].spool
  /\ choosing_location' = TRUE
  /\ UNCHANGED <<offline_pending, pending_locations, registered_spool_id, has_location_action,
                 moving_existing_spool, confirming_archive>>

\* finish_spool_storage, whichever spool is shown.
FinishSpoolStorage(t) ==
  /\ tasks[t].kind = "store"
  /\ StorageApplied(t) \/ StorageQueued(t) \/ StorageFailed(t)
  /\ filaman_busy' = FALSE
  /\ tasks' = Ended(t)
  /\ GiveBack(t)
  /\ UNCHANGED <<shown, asked>>

\* finish_spool_archive
FinishSpoolArchive_busyAfterFailure(t) ==
  /\ tasks[t].kind = "archive"
  /\ tasks' = Ended(t)
  /\ GiveBack(t)
  /\ \/ /\ registered_spool_id = tasks[t].spool
        /\ serving = t
        /\ ResetFilamanContext
        /\ filaman_busy' = FALSE
        /\ UNCHANGED asked
     \/ /\ registered_spool_id = tasks[t].spool
        /\ moving_existing_spool' = TRUE
        /\ confirming_archive' = TRUE
        /\ choosing_location' = TRUE
        /\ asked' = tasks[t].spool
        /\ UNCHANGED <<context, filaman_busy>>
  /\ UNCHANGED shown

FinishSpoolArchive(t) ==
  /\ tasks[t].kind = "archive"
  /\ filaman_busy' = FALSE
  /\ tasks' = Ended(t)
  /\ GiveBack(t)
  /\ \/ /\ registered_spool_id # tasks[t].spool
        /\ UNCHANGED <<context, selection, asked>>
     \/ /\ registered_spool_id = tasks[t].spool
        /\ serving = t
        /\ ResetFilamanContext
        /\ UNCHANGED asked
     \/ /\ registered_spool_id = tasks[t].spool
        /\ moving_existing_spool' = TRUE
        /\ confirming_archive' = TRUE
        /\ choosing_location' = TRUE
        /\ asked' = tasks[t].spool
        /\ UNCHANGED context
  /\ UNCHANGED shown

TaskStep(t) ==
  \/ Serve(t) \/ FinishCatalogLoad(t) \/ StalePreparation(t) \/ FinishFilamanPreparation(t)
  \/ FinishSpoolStorage(t) \/ FinishSpoolArchive(t)

TaskEnds(t) ==
  \/ FinishCatalogLoad(t) \/ StalePreparation(t) \/ FinishFilamanPreparation(t)
  \/ FinishSpoolStorage(t) \/ FinishSpoolArchive(t)

-----------------------------------------------------------------------------
(* Specification *)

ReaderEvent ==
  \/ \E s \in Spools : ReadBambu(s) \/ ReadOpenPrintTag(s)
  \/ ReadFails

Button == OpenLocationManagement \/ SelectLocation \/ ArchiveSpool \/ CancelImport

Next == ReaderEvent \/ Button \/ \E t \in Slots : TaskStep(t)

Spec == Init /\ [][Next]_vars

\* Every call of the service and of the catalog returns.
FairSpec == Spec /\ \A t \in Slots : WF_vars(TaskEnds(t))

-----------------------------------------------------------------------------
(* Properties *)

\* Every variable holds a value of its kind.
TypeOK ==
  /\ {active_tray_uid, pending_spool, registered_spool_id, asked} \subseteq Spools \cup {None}
  /\ {pending_locations, offline_pending, has_spool, has_location_action, choosing_location,
      moving_existing_spool, confirming_archive, filaman_busy, overtaken} \subseteq BOOLEAN
  /\ tasks \in [Slots -> Task]
  /\ serving \in Slots \cup {None}
  /\ scans \in 0 .. MaxScans

\* While the screen waits ("Please wait..."), a task is running whose result will
\* clear the flag: no result that is ignored as stale was the last one to do so.
BusyHasTask ==
  filaman_busy =>
    \E t \in Slots : \/ tasks[t].kind \in {"store", "archive"}
                     \/ tasks[t].kind = "prepare" /\ tasks[t].spool = active_tray_uid

\* The confirmation on the screen is for the spool that the next press archives,
\* whatever results came back since the question was asked.
ConfirmsRegisteredSpool ==
  confirming_archive =>
    /\ choosing_location /\ moving_existing_spool
    /\ registered_spool_id # None /\ registered_spool_id = asked

\* An archive request is sent only for the spool whose archive was confirmed.
ArchiveIsConfirmed ==
  [][\A t \in Slots :
       tasks'[t].kind = "archive" /\ tasks[t].kind # "archive" =>
         confirming_archive /\ tasks'[t].spool = asked]_vars

\* A spool whose location waits for synchronization has no id in the controller,
\* so the next choice goes through the lookup by identity and cannot be archived.
PendingHasNoId == offline_pending => registered_spool_id = None /\ pending_spool # None

\* The spool the buttons act on is the spool shown, except after a read that found
\* a store for another spool running: the checks in the other finish_* methods
\* discard every result that comes too late.
ContextIsShownSpool ==
  ~overtaken => {pending_spool, registered_spool_id} \subseteq {None, active_tray_uid}

\* The screen does not wait forever, if the calls return and reads stop.
BusyEnds == filaman_busy ~> ~filaman_busy

-----------------------------------------------------------------------------
(* What the README says of the program *)

\* "For an existing spool, its current location appears as a button in the spool
\* view. Pressing it opens the location selector; choosing another regular location
\* moves the existing spool": the request concerns the spool shown.
RequestsConcernShownSpool ==
  [][\A t \in Slots :
       tasks'[t].kind = "store" /\ tasks[t].kind # "store" =>
         tasks'[t].spool = active_tray_uid /\ tasks'[t].known \in {None, active_tray_uid}]_vars

=============================================================================
