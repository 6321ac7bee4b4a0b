----------------------- MODULE ReaderControllerProofs -----------------------
(***************************************************************************)
(* Theorems about the controller of the touch screen, for any set of       *)
(* spools, any number of running tasks and any number of reads.            *)
(***************************************************************************)
EXTENDS SpoolScreen, TLAPS

\* Unless a read has overtaken one, the running stores are for the spool shown.
StoresMatch ==
  ~overtaken =>
    \A t \in Slots : tasks[t].kind = "store" =>
      tasks[t].spool = active_tray_uid /\ tasks[t].known \in {None, active_tray_uid}

IInv ==
  /\ TypeOK
  /\ BusyHasTask
  /\ ConfirmsRegisteredSpool
  /\ PendingHasNoId
  /\ ContextIsShownSpool
  /\ StoresMatch

-----------------------------------------------------------------------------
(* The tasks *)

LEMMA TaskType ==
  ASSUME TypeOK, NEW t \in Slots, tasks[t].kind # "none"
  PROVE  /\ tasks[t].spool \in Spools
         /\ tasks[t].known \in Spools \cup {None}
BY DEF TypeOK, Task, NoTask

LEMMA NoTaskKind == NoTask \in Task /\ NoTask.kind = "none"
BY DEF NoTask, Task

\* The tasks after one has ended.
LEMMA EndedTasks ==
  ASSUME TypeOK, NEW t \in Slots
  PROVE  /\ Ended(t) \in [Slots -> Task]
         /\ Ended(t)[t] = NoTask
         /\ \A u \in Slots : u # t => Ended(t)[u] = tasks[u]
BY NoTaskKind DEF TypeOK, Ended

\* The tasks after one more has been spawned.
LEMMA SpawnedTasks ==
  ASSUME NEW ts \in [Slots -> Task], NEW free, NEW task \in Task, Spawn(ts, free, task)
  PROVE  /\ tasks' \in [Slots -> Task]
         /\ \E t \in Slots : tasks'[t] = task
         /\ \A u \in Slots : tasks'[u] = task \/ tasks'[u] = ts[u]
BY DEF Spawn

LEMMA PreparationTasks ==
  ASSUME NEW s \in Spools, NEW ts \in [Slots -> Task], StartFilamanPreparation(s, ts)
  PROVE  /\ tasks' \in [Slots -> Task]
         /\ filaman_busy' \in BOOLEAN
         /\ filaman_busy' => \E t \in Slots : tasks'[t].kind = "prepare" /\ tasks'[t].spool = s
         /\ \A u \in Slots : tasks'[u].kind \in {"store", "archive"} => tasks'[u] = ts[u]
<1> DEFINE task == [kind |-> "prepare", spool |-> s, known |-> None]
<1>1. task \in Task /\ task.kind = "prepare" /\ task.spool = s
  BY DEF Task
<1> HIDE DEF task
<1>2. CASE Spawn(ts, tasks, task) /\ filaman_busy' = TRUE
  BY <1>1, <1>2, SpawnedTasks
<1>3. CASE tasks' = ts /\ filaman_busy' = FALSE
  BY <1>3
<1> QED
  BY <1>2, <1>3 DEF StartFilamanPreparation, task

-----------------------------------------------------------------------------
(* Reader events and buttons *)

LEMMA ReadBambuKeeps ==
  ASSUME IInv, NEW s \in Spools, ReadBambu(s)
  PROVE  IInv'
<1>1. StartFilamanPreparation(s, tasks) /\ tasks \in [Slots -> Task]
  BY DEF ReadBambu, IInv, TypeOK
<1>2. /\ pending_spool' = None /\ pending_locations' = FALSE /\ registered_spool_id' = None
      /\ offline_pending' = FALSE /\ has_location_action' = FALSE
      /\ choosing_location' = FALSE /\ moving_existing_spool' = FALSE
      /\ confirming_archive' = FALSE
  BY <1>1 DEF StartFilamanPreparation, ResetFilamanContext, CloseLocationSelection
<1>3. /\ active_tray_uid' = s /\ has_spool' = TRUE /\ scans' \in 0 .. MaxScans
      /\ UNCHANGED <<serving, asked>>
      /\ overtaken' = \E t \in Slots :
           tasks[t].kind = "store" /\ (tasks[t].spool # s \/ tasks[t].known \notin {None, s})
  BY ConstantsAssumption DEF ReadBambu, ShowSpool, IInv, TypeOK
<1>4. TypeOK'
  BY <1>1, <1>2, <1>3, PreparationTasks DEF IInv, TypeOK
<1>5. BusyHasTask'
  BY <1>1, <1>3, PreparationTasks DEF BusyHasTask
<1>6. ConfirmsRegisteredSpool' /\ PendingHasNoId' /\ ContextIsShownSpool'
  BY <1>2 DEF ConfirmsRegisteredSpool, PendingHasNoId, ContextIsShownSpool
<1>7. StoresMatch'
  BY <1>1, <1>3, PreparationTasks DEF StoresMatch
<1> QED
  BY <1>4, <1>5, <1>6, <1>7 DEF IInv

LEMMA ReadOpenPrintTagKeeps ==
  ASSUME IInv, NEW s \in Spools, ReadOpenPrintTag(s)
  PROVE  IInv'
<1> DEFINE task == [kind |-> "catalog", spool |-> s, known |-> None]
<1>1. task \in Task /\ task.kind = "catalog"
  BY DEF Task
<1> HIDE DEF task
<1>2. /\ tasks' \in [Slots -> Task]
      /\ \A u \in Slots : tasks'[u].kind = "store" => tasks'[u] = tasks[u]
  <2>1. tasks \in [Slots -> Task]
    BY DEF IInv, TypeOK
  <2>2. Spawn(tasks, tasks, task) \/ UNCHANGED tasks
    BY DEF ReadOpenPrintTag, task
  <2> QED
    BY <1>1, <2>1, <2>2, SpawnedTasks
<1>3. /\ pending_spool' = None /\ pending_locations' = FALSE /\ registered_spool_id' = None
      /\ offline_pending' = FALSE /\ has_location_action' = FALSE
      /\ choosing_location' = FALSE /\ moving_existing_spool' = FALSE
      /\ confirming_archive' = FALSE /\ filaman_busy' = FALSE
  BY DEF ReadOpenPrintTag, ResetFilamanContext, CloseLocationSelection
<1>4. /\ active_tray_uid' = s /\ has_spool' = TRUE /\ scans' \in 0 .. MaxScans
      /\ UNCHANGED <<serving, asked>>
      /\ overtaken' = \E t \in Slots :
           tasks[t].kind = "store" /\ (tasks[t].spool # s \/ tasks[t].known \notin {None, s})
  BY ConstantsAssumption DEF ReadOpenPrintTag, ShowSpool, IInv, TypeOK
<1>5. TypeOK'
  BY <1>2, <1>3, <1>4 DEF IInv, TypeOK
<1>6. BusyHasTask' /\ ConfirmsRegisteredSpool' /\ PendingHasNoId' /\ ContextIsShownSpool'
  BY <1>3 DEF BusyHasTask, ConfirmsRegisteredSpool, PendingHasNoId, ContextIsShownSpool
<1>7. StoresMatch'
  BY <1>2, <1>4 DEF StoresMatch
<1> QED
  BY <1>5, <1>6, <1>7 DEF IInv

LEMMA ReadFailsKeeps ==
  ASSUME IInv, ReadFails
  PROVE  IInv'
BY DEF IInv, TypeOK, BusyHasTask, ConfirmsRegisteredSpool, PendingHasNoId, ContextIsShownSpool,
       StoresMatch, ReadFails, context, selection

LEMMA OpenLocationManagementKeeps ==
  ASSUME IInv, OpenLocationManagement
  PROVE  IInv'
BY DEF IInv, TypeOK, BusyHasTask, ConfirmsRegisteredSpool, PendingHasNoId, ContextIsShownSpool,
       StoresMatch, OpenLocationManagement, context, shown

LEMMA SelectLocationKeeps ==
  ASSUME IInv, SelectLocation
  PROVE  IInv'
<1> DEFINE task == [kind |-> "store", spool |-> Chosen, known |-> registered_spool_id]
<1>1. Chosen \in Spools /\ registered_spool_id \in Spools \cup {None}
  BY DEF SelectLocation, Chosen, IInv, TypeOK
<1>2. /\ task \in Task /\ task.kind = "store"
      /\ task.spool = Chosen /\ task.known = registered_spool_id
  BY <1>1 DEF Task
<1> HIDE DEF task
<1>3. /\ tasks' \in [Slots -> Task]
      /\ \E t \in Slots : tasks'[t] = task
      /\ \A u \in Slots : tasks'[u] = task \/ tasks'[u] = tasks[u]
  BY <1>2, SpawnedTasks DEF SelectLocation, task, IInv, TypeOK
<1>4. filaman_busy' = TRUE /\ UNCHANGED <<context, selection, shown, serving, asked>>
  BY DEF SelectLocation
<1>5. TypeOK'
  BY <1>3, <1>4 DEF IInv, TypeOK, context, selection, shown
<1>6. BusyHasTask'
  BY <1>2, <1>3 DEF BusyHasTask
<1>7. ConfirmsRegisteredSpool' /\ PendingHasNoId' /\ ContextIsShownSpool'
  BY <1>4 DEF IInv, ConfirmsRegisteredSpool, PendingHasNoId, ContextIsShownSpool, context,
              selection, shown
<1>8. ~overtaken => Chosen = active_tray_uid /\ registered_spool_id \in {None, active_tray_uid}
  BY DEF IInv, ContextIsShownSpool, Chosen
<1>9. StoresMatch'
  BY <1>2, <1>3, <1>4, <1>8 DEF IInv, StoresMatch, shown
<1> QED
  BY <1>5, <1>6, <1>7, <1>9 DEF IInv

LEMMA ArchiveSpoolKeeps ==
  ASSUME IInv, ArchiveSpool
  PROVE  IInv'
<1>1. UNCHANGED <<context, choosing_location, moving_existing_spool, shown, serving>>
  BY DEF ArchiveSpool
<1>2. CASE ~confirming_archive
  <2>1. /\ confirming_archive' = TRUE /\ asked' = registered_spool_id
        /\ UNCHANGED <<filaman_busy, tasks>>
    BY <1>2 DEF ArchiveSpool
  <2>2. choosing_location /\ moving_existing_spool /\ registered_spool_id # None
    BY DEF ArchiveSpool
  <2> QED
    BY <1>1, <2>1, <2>2 DEF IInv, TypeOK, BusyHasTask, ConfirmsRegisteredSpool, PendingHasNoId,
       ContextIsShownSpool, StoresMatch, context, shown
<1>3. CASE confirming_archive
  <2> DEFINE task == [kind |-> "archive", spool |-> registered_spool_id, known |-> None]
  <2>1. task \in Task /\ task.kind = "archive"
    BY DEF ArchiveSpool, IInv, TypeOK, Task
  <2> HIDE DEF task
  <2>2. /\ filaman_busy' = TRUE /\ UNCHANGED <<confirming_archive, asked>>
        /\ Spawn(tasks, tasks, task)
    BY <1>3 DEF ArchiveSpool, task
  <2>3. /\ tasks' \in [Slots -> Task]
        /\ \E t \in Slots : tasks'[t] = task
        /\ \A u \in Slots : tasks'[u] = task \/ tasks'[u] = tasks[u]
    BY <2>1, <2>2, SpawnedTasks DEF IInv, TypeOK
  <2>4. TypeOK'
    BY <1>1, <2>2, <2>3 DEF IInv, TypeOK, context, shown
  <2>5. BusyHasTask'
    BY <2>1, <2>3 DEF BusyHasTask
  <2>6. ConfirmsRegisteredSpool' /\ PendingHasNoId' /\ ContextIsShownSpool'
    BY <1>1, <2>2 DEF IInv, ConfirmsRegisteredSpool, PendingHasNoId, ContextIsShownSpool,
                      context, shown
  <2>7. StoresMatch'
    BY <1>1, <2>1, <2>3 DEF IInv, StoresMatch, shown
  <2> QED
    BY <2>4, <2>5, <2>6, <2>7 DEF IInv
<1> QED
  BY <1>2, <1>3

LEMMA CancelImportKeeps ==
  ASSUME IInv, CancelImport
  PROVE  IInv'
<1>1. UNCHANGED <<shown, filaman_busy, tasks, serving, asked>>
  BY DEF CancelImport
<1>2. \/ UNCHANGED context
      \/ /\ pending_spool' = None /\ pending_locations' = FALSE /\ registered_spool_id' = None
         /\ offline_pending' = FALSE /\ has_location_action' = FALSE
  BY DEF CancelImport, ResetFilamanContext
<1>3. /\ confirming_archive' = FALSE
      /\ choosing_location' \in BOOLEAN /\ moving_existing_spool' \in BOOLEAN
  BY DEF CancelImport, ResetFilamanContext, CloseLocationSelection, IInv, TypeOK
<1>4. TypeOK'
  BY <1>1, <1>2, <1>3 DEF IInv, TypeOK, context, shown
<1>5. BusyHasTask' /\ StoresMatch'
  BY <1>1 DEF IInv, BusyHasTask, StoresMatch, shown
<1>6. ConfirmsRegisteredSpool' /\ PendingHasNoId' /\ ContextIsShownSpool'
  BY <1>1, <1>2, <1>3 DEF IInv, ConfirmsRegisteredSpool, PendingHasNoId, ContextIsShownSpool,
                          context, shown
<1> QED
  BY <1>4, <1>5, <1>6 DEF IInv

-----------------------------------------------------------------------------
(* Results *)

LEMMA ServeKeeps ==
  ASSUME IInv, NEW t \in Slots, Serve(t)
  PROVE  IInv'
BY DEF IInv, TypeOK, BusyHasTask, ConfirmsRegisteredSpool, PendingHasNoId, ContextIsShownSpool,
       StoresMatch, Serve, context, selection, shown

\* A result that is dropped leaves everything but its task.
LEMMA DroppedKeeps ==
  ASSUME IInv, NEW t \in Slots, tasks' = Ended(t),
         serving' \in Slots \cup {None},
         UNCHANGED <<context, selection, shown, filaman_busy, asked>>,
         \/ tasks[t].kind = "catalog"
         \/ tasks[t].kind = "prepare" /\ tasks[t].spool # active_tray_uid
  PROVE  IInv'
<1>1. /\ tasks' \in [Slots -> Task]
      /\ tasks'[t].kind = "none"
      /\ \A u \in Slots : u # t => tasks'[u] = tasks[u]
  BY EndedTasks, NoTaskKind DEF IInv
<1>2. TypeOK'
  BY <1>1 DEF IInv, TypeOK, context, selection, shown
<1>3. BusyHasTask'
  <2> SUFFICES ASSUME filaman_busy'
               PROVE  \E u \in Slots : \/ tasks'[u].kind \in {"store", "archive"}
                                       \/ tasks'[u].kind = "prepare" /\ tasks'[u].spool = active_tray_uid'
    BY DEF BusyHasTask
  <2>1. PICK u \in Slots : \/ tasks[u].kind \in {"store", "archive"}
                           \/ tasks[u].kind = "prepare" /\ tasks[u].spool = active_tray_uid
    BY DEF IInv, BusyHasTask
  <2>2. u # t
    BY <2>1
  <2> QED
    BY <1>1, <2>1, <2>2 DEF shown
<1>4. ConfirmsRegisteredSpool' /\ PendingHasNoId' /\ ContextIsShownSpool'
  BY DEF IInv, ConfirmsRegisteredSpool, PendingHasNoId, ContextIsShownSpool, context,
         selection, shown
<1>5. StoresMatch'
  BY <1>1 DEF IInv, StoresMatch, shown
<1> QED
  BY <1>2, <1>3, <1>4, <1>5 DEF IInv

LEMMA FinishCatalogLoadKeeps ==
  ASSUME IInv, NEW t \in Slots, FinishCatalogLoad(t)
  PROVE  IInv'
<1>1. /\ tasks[t].kind = "catalog" /\ UNCHANGED <<shown, serving, asked>>
      /\ serving' \in Slots \cup {None}
  BY DEF FinishCatalogLoad, IInv, TypeOK
<1>2. CASE tasks[t].spool # active_tray_uid
  BY <1>1, <1>2, DroppedKeeps DEF FinishCatalogLoad
<1>3. CASE tasks[t].spool = active_tray_uid
  <2>1. StartFilamanPreparation(active_tray_uid, Ended(t)) /\ active_tray_uid \in Spools
    BY <1>1, <1>3, TaskType DEF FinishCatalogLoad, IInv
  <2>2. /\ Ended(t) \in [Slots -> Task]
        /\ \A u \in Slots : Ended(t)[u].kind = "store" => Ended(t)[u] = tasks[u]
    BY EndedTasks, NoTaskKind DEF IInv
  <2>3. /\ pending_spool' = None /\ pending_locations' = FALSE /\ registered_spool_id' = None
        /\ offline_pending' = FALSE /\ has_location_action' = FALSE
        /\ choosing_location' = FALSE /\ moving_existing_spool' = FALSE
        /\ confirming_archive' = FALSE
    BY <2>1 DEF StartFilamanPreparation, ResetFilamanContext, CloseLocationSelection
  <2>4. /\ tasks' \in [Slots -> Task]
        /\ filaman_busy' \in BOOLEAN
        /\ filaman_busy' => \E u \in Slots : tasks'[u].kind = "prepare" /\ tasks'[u].spool = active_tray_uid
        /\ \A u \in Slots : tasks'[u].kind \in {"store", "archive"} => tasks'[u] = Ended(t)[u]
    BY <2>1, <2>2, PreparationTasks
  <2>5. TypeOK'
    BY <1>1, <2>3, <2>4 DEF IInv, TypeOK, shown
  <2>6. BusyHasTask'
    BY <1>1, <2>4 DEF BusyHasTask, shown
  <2>7. ConfirmsRegisteredSpool' /\ PendingHasNoId' /\ ContextIsShownSpool'
    BY <2>3 DEF ConfirmsRegisteredSpool, PendingHasNoId, ContextIsShownSpool
  <2>8. StoresMatch'
    BY <1>1, <2>2, <2>4 DEF IInv, StoresMatch, shown
  <2> QED
    BY <2>5, <2>6, <2>7, <2>8 DEF IInv
<1> QED
  BY <1>2, <1>3

LEMMA StalePreparationKeeps ==
  ASSUME IInv, NEW t \in Slots, StalePreparation(t)
  PROVE  IInv'
<1>1. serving' \in Slots \cup {None}
  BY DEF StalePreparation, GiveBack, IInv, TypeOK
<1> QED
  BY <1>1, DroppedKeeps DEF StalePreparation, IsStale

\* A result that clears the busy flag and leaves a sound context.
LEMMA ResultKeeps ==
  ASSUME IInv, NEW t \in Slots, tasks' = Ended(t), GiveBack(t),
         filaman_busy' = FALSE,
         UNCHANGED shown,
         asked' \in Spools \cup {None},
         {pending_spool', registered_spool_id'} \subseteq Spools \cup {None},
         {pending_locations', offline_pending', has_location_action', choosing_location',
          moving_existing_spool', confirming_archive'} \subseteq BOOLEAN,
         ConfirmsRegisteredSpool', PendingHasNoId', ContextIsShownSpool'
  PROVE  IInv'
<1>1. /\ tasks' \in [Slots -> Task]
      /\ \A u \in Slots : tasks'[u].kind = "store" => tasks'[u] = tasks[u]
  BY EndedTasks, NoTaskKind DEF IInv
<1>2. TypeOK'
  BY <1>1 DEF GiveBack, IInv, TypeOK, shown
<1>3. BusyHasTask'
  BY DEF BusyHasTask
<1>4. StoresMatch'
  BY <1>1 DEF IInv, StoresMatch, shown
<1> QED
  BY <1>2, <1>3, <1>4 DEF IInv

LEMMA FinishFilamanPreparationKeeps ==
  ASSUME IInv, NEW t \in Slots, FinishFilamanPreparation(t)
  PROVE  IInv'
<1>1. /\ tasks[t].kind = "prepare" /\ tasks[t].spool = active_tray_uid
      /\ filaman_busy' = FALSE /\ tasks' = Ended(t) /\ GiveBack(t)
      /\ UNCHANGED <<shown, asked>>
  BY DEF FinishFilamanPreparation, IsStale
<1>2. active_tray_uid \in Spools /\ active_tray_uid # None
  BY <1>1, TaskType, ConstantsAssumption DEF IInv
<1>3. FoundExisting(t) \/ FoundNew(t) \/ FoundPending(t) \/ ResetFilamanContext
  BY DEF FinishFilamanPreparation
<1>4. /\ {pending_spool', registered_spool_id'} \subseteq Spools \cup {None}
      /\ {pending_locations', offline_pending', has_location_action', choosing_location',
          moving_existing_spool', confirming_archive'} \subseteq BOOLEAN
      /\ asked' \in Spools \cup {None}
  BY <1>1, <1>2, <1>3 DEF FoundExisting, FoundNew, FoundPending, ResetFilamanContext,
     CloseLocationSelection, IInv, TypeOK
<1>5. ConfirmsRegisteredSpool'
  BY <1>1, <1>3 DEF FoundExisting, FoundNew, FoundPending, ResetFilamanContext,
     CloseLocationSelection, IInv, ConfirmsRegisteredSpool
<1>6. PendingHasNoId'
  BY <1>1, <1>2, <1>3 DEF FoundExisting, FoundNew, FoundPending, ResetFilamanContext, PendingHasNoId
<1>7. ContextIsShownSpool'
  BY <1>1, <1>3 DEF FoundExisting, FoundNew, FoundPending, ResetFilamanContext, IInv,
     ContextIsShownSpool, shown
<1> QED
  BY <1>1, <1>4, <1>5, <1>6, <1>7, ResultKeeps

LEMMA FinishSpoolStorageKeeps ==
  ASSUME IInv, NEW t \in Slots, FinishSpoolStorage(t)
  PROVE  IInv'
<1>1. /\ tasks[t].kind = "store"
      /\ filaman_busy' = FALSE /\ tasks' = Ended(t) /\ GiveBack(t)
      /\ UNCHANGED <<shown, asked>>
  BY DEF FinishSpoolStorage
<1>2. /\ tasks[t].spool \in Spools /\ tasks[t].spool # None
      /\ tasks[t].known \in Spools \cup {None}
  BY <1>1, TaskType, ConstantsAssumption DEF IInv
<1>3. StorageApplied(t) \/ StorageQueued(t) \/ StorageFailed(t)
  BY DEF FinishSpoolStorage
<1>4. /\ {pending_spool', registered_spool_id'} \subseteq Spools \cup {None}
      /\ {pending_locations', offline_pending', has_location_action', choosing_location',
          moving_existing_spool', confirming_archive'} \subseteq BOOLEAN
      /\ asked' \in Spools \cup {None}
  BY <1>1, <1>2, <1>3 DEF StorageApplied, StorageQueued, StorageFailed, CloseLocationSelection,
     IInv, TypeOK
<1>5. ConfirmsRegisteredSpool'
  BY <1>1, <1>3 DEF StorageApplied, StorageQueued, StorageFailed, CloseLocationSelection,
     IInv, ConfirmsRegisteredSpool
<1>6. PendingHasNoId'
  BY <1>1, <1>2, <1>3 DEF StorageApplied, StorageQueued, StorageFailed, IInv, PendingHasNoId
<1>7. ContextIsShownSpool'
  BY <1>1, <1>3 DEF StorageApplied, StorageQueued, StorageFailed, IInv, ContextIsShownSpool,
     StoresMatch, shown
<1> QED
  BY <1>1, <1>4, <1>5, <1>6, <1>7, ResultKeeps

LEMMA FinishSpoolArchiveKeeps ==
  ASSUME IInv, NEW t \in Slots, FinishSpoolArchive(t)
  PROVE  IInv'
<1>1. /\ tasks[t].kind = "archive"
      /\ filaman_busy' = FALSE /\ tasks' = Ended(t) /\ GiveBack(t)
      /\ UNCHANGED shown
  BY DEF FinishSpoolArchive
<1>2. tasks[t].spool \in Spools /\ tasks[t].spool # None
  BY <1>1, TaskType, ConstantsAssumption DEF IInv
<1>3. \/ UNCHANGED <<context, selection, asked>>
      \/ ResetFilamanContext /\ UNCHANGED asked
      \/ /\ registered_spool_id = tasks[t].spool
         /\ moving_existing_spool' = TRUE
         /\ confirming_archive' = TRUE
         /\ choosing_location' = TRUE
         /\ asked' = tasks[t].spool
         /\ UNCHANGED context
  BY DEF FinishSpoolArchive
<1>4. /\ {pending_spool', registered_spool_id'} \subseteq Spools \cup {None}
      /\ {pending_locations', offline_pending', has_location_action', choosing_location',
          moving_existing_spool', confirming_archive'} \subseteq BOOLEAN
      /\ asked' \in Spools \cup {None}
  BY <1>2, <1>3 DEF ResetFilamanContext, CloseLocationSelection, IInv, TypeOK, context, selection
<1>5. ConfirmsRegisteredSpool'
  BY <1>2, <1>3 DEF ResetFilamanContext, CloseLocationSelection, IInv, ConfirmsRegisteredSpool,
     context, selection
<1>6. PendingHasNoId' /\ ContextIsShownSpool'
  BY <1>1, <1>3 DEF ResetFilamanContext, IInv, PendingHasNoId, ContextIsShownSpool, context, shown
<1> QED
  BY <1>1, <1>4, <1>5, <1>6, ResultKeeps

-----------------------------------------------------------------------------
(* The theorems *)

LEMMA InitEstablishes ==
  ASSUME Init
  PROVE  IInv
<1>1. TypeOK
  <2>1. tasks \in [Slots -> Task]
    BY NoTaskKind DEF Init
  <2>2. scans \in 0 .. MaxScans
    BY ConstantsAssumption DEF Init
  <2> QED
    BY <2>1, <2>2 DEF Init, TypeOK
<1> QED
  BY <1>1 DEF Init, IInv, BusyHasTask, ConfirmsRegisteredSpool, PendingHasNoId,
     ContextIsShownSpool, StoresMatch, NoTask

LEMMA NextPreserves ==
  ASSUME IInv, [Next]_vars
  PROVE  IInv'
<1>1. CASE ReaderEvent
  BY <1>1, ReadBambuKeeps, ReadOpenPrintTagKeeps, ReadFailsKeeps DEF ReaderEvent
<1>2. CASE Button
  BY <1>2, OpenLocationManagementKeeps, SelectLocationKeeps, ArchiveSpoolKeeps,
     CancelImportKeeps DEF Button
<1>3. ASSUME NEW t \in Slots, TaskStep(t)
      PROVE  IInv'
  BY <1>3, ServeKeeps, FinishCatalogLoadKeeps, StalePreparationKeeps,
     FinishFilamanPreparationKeeps, FinishSpoolStorageKeeps, FinishSpoolArchiveKeeps DEF TaskStep
<1>4. CASE UNCHANGED vars
  BY <1>4 DEF IInv, TypeOK, BusyHasTask, ConfirmsRegisteredSpool, PendingHasNoId,
     ContextIsShownSpool, StoresMatch, vars, context, selection, shown
<1> QED
  BY <1>1, <1>2, <1>3, <1>4 DEF Next

LEMMA Invariance == Spec => []IInv
<1>1. Init => IInv
  BY InitEstablishes
<1>2. IInv /\ [Next]_vars => IInv'
  BY NextPreserves
<1> QED
  BY <1>1, <1>2, PTL DEF Spec

\* Every variable of the controller keeps its type.
THEOREM TypeCorrect == Spec => []TypeOK
<1>1. IInv => TypeOK
  BY DEF IInv
<1> QED
  BY <1>1, Invariance, PTL

\* The screen never waits for a task that is no longer there.
THEOREM WaitsForATask == Spec => []BusyHasTask
<1>1. IInv => BusyHasTask
  BY DEF IInv
<1> QED
  BY <1>1, Invariance, PTL

\* The confirmation on the screen is for the spool that the next press archives.
THEOREM ConfirmationCurrent == Spec => []ConfirmsRegisteredSpool
<1>1. IInv => ConfirmsRegisteredSpool
  BY DEF IInv
<1> QED
  BY <1>1, Invariance, PTL

\* A spool that waits for synchronization has no id that could be archived.
THEOREM PendingHasNoIdAlways == Spec => []PendingHasNoId
<1>1. IInv => PendingHasNoId
  BY DEF IInv
<1> QED
  BY <1>1, Invariance, PTL

\* The buttons act on the spool shown unless a read has overtaken a store.
THEOREM ContextCurrent == Spec => []ContextIsShownSpool
<1>1. IInv => ContextIsShownSpool
  BY DEF IInv
<1> QED
  BY <1>1, Invariance, PTL

\* A step that starts an archive is the second press for that very spool.
LEMMA StepConfirmed ==
  ASSUME IInv, Next, NEW u \in Slots, tasks'[u].kind = "archive", tasks[u].kind # "archive"
  PROVE  confirming_archive /\ tasks'[u].spool = asked
<1>1. tasks' # tasks
  OBVIOUS
<1>2. ASSUME NEW task, Spawn(tasks, tasks, task), task.kind # "archive"
      PROVE  FALSE
  BY <1>2 DEF Spawn, IInv, TypeOK
<1>3. ASSUME NEW t \in Slots, tasks' = Ended(t)
      PROVE  FALSE
  BY <1>3, EndedTasks, NoTaskKind DEF IInv
<1>4. ASSUME NEW s \in Spools, NEW t \in Slots, StartFilamanPreparation(s, Ended(t))
      PROVE  FALSE
  <2>1. /\ Ended(t) \in [Slots -> Task]
        /\ \A w \in Slots : Ended(t)[w].kind = "archive" => Ended(t)[w] = tasks[w]
    BY EndedTasks, NoTaskKind DEF IInv
  <2>2. tasks'[u] = Ended(t)[u]
    BY <1>4, <2>1, PreparationTasks
  <2> QED
    BY <2>1, <2>2
<1>5. ASSUME NEW s \in Spools, StartFilamanPreparation(s, tasks)
      PROVE  FALSE
  <2>1. tasks \in [Slots -> Task]
    BY DEF IInv, TypeOK
  <2>2. tasks'[u] = tasks[u]
    BY <1>5, <2>1, PreparationTasks
  <2> QED
    BY <2>2
<1>6. ~ReaderEvent
  BY <1>1, <1>2, <1>5 DEF ReaderEvent, ReadBambu, ReadOpenPrintTag, ReadFails
<1>7. ASSUME NEW t \in Slots, TaskStep(t)
      PROVE  FALSE
  <2>1. CASE FinishCatalogLoad(t)
    <3>1. tasks[t].spool \in Spools
      BY <2>1, TaskType DEF FinishCatalogLoad, IInv
    <3> QED
      BY <1>3, <1>4, <2>1, <3>1 DEF FinishCatalogLoad
  <2> QED
    BY <1>1, <1>3, <1>7, <2>1 DEF TaskStep, Serve, StalePreparation, FinishFilamanPreparation,
       FinishSpoolStorage, FinishSpoolArchive
<1>8. ~SelectLocation
  BY <1>2 DEF SelectLocation
<1>9. ArchiveSpool
  BY <1>1, <1>6, <1>7, <1>8 DEF Next, Button, OpenLocationManagement, CancelImport
<1>10. /\ confirming_archive
       /\ Spawn(tasks, tasks, [kind |-> "archive", spool |-> registered_spool_id, known |-> None])
  BY <1>1, <1>9 DEF ArchiveSpool
<1>11. tasks'[u].spool = registered_spool_id
  BY <1>10 DEF Spawn, IInv, TypeOK
<1> QED
  BY <1>10, <1>11 DEF IInv, ConfirmsRegisteredSpool

\* No spool is archived without the confirmation for that spool.
THEOREM ArchiveConfirmed == Spec => ArchiveIsConfirmed
<1>1. IInv /\ [Next]_vars =>
        [\A t \in Slots :
           tasks'[t].kind = "archive" /\ tasks[t].kind # "archive" =>
             confirming_archive /\ tasks'[t].spool = asked]_vars
  BY StepConfirmed
<1> QED
  BY <1>1, Invariance, PTL DEF Spec, ArchiveIsConfirmed


-----------------------------------------------------------------------------
(* The product image *)

\* A spawned task takes a free slot, so that the others go on.
LEMMA SpawnKeeps ==
  ASSUME TypeOK, NEW ts \in [Slots -> Task], NEW task \in Task, Spawn(ts, tasks, task),
         NEW u \in Slots, tasks[u].kind = "catalog"
  PROVE  tasks'[u] = ts[u]
<1>1. PICK f \in Slots : tasks[f] = NoTask /\ tasks' = [ts EXCEPT ![f] = task]
  BY DEF Spawn
<1>2. f # u
  BY <1>1, NoTaskKind
<1> QED
  BY <1>1, <1>2

\* Only its own result ends a catalog lookup.
LEMMA LookupGoesOn ==
  ASSUME TypeOK, Button \/ \E t \in Slots : OtherTaskStep(t),
         NEW u \in Slots, tasks[u].kind = "catalog"
  PROVE  tasks'[u] = tasks[u]
<1>0. tasks \in [Slots -> Task]
  BY DEF TypeOK
<1>1. CASE OpenLocationManagement \/ CancelImport \/ UNCHANGED tasks
  BY <1>1 DEF OpenLocationManagement, CancelImport
<1>2. CASE SelectLocation
  <2>1. [kind |-> "store", spool |-> Chosen, known |-> registered_spool_id] \in Task
    BY <1>2 DEF SelectLocation, TypeOK, Chosen, Task
  <2> QED
    BY <1>0, <1>2, <2>1, SpawnKeeps DEF SelectLocation
<1>3. CASE ArchiveSpool /\ ~UNCHANGED tasks
  <2>1. /\ registered_spool_id \in Spools
        /\ Spawn(tasks, tasks, [kind |-> "archive", spool |-> registered_spool_id, known |-> None])
    BY <1>3 DEF ArchiveSpool, TypeOK
  <2>2. [kind |-> "archive", spool |-> registered_spool_id, known |-> None] \in Task
    BY <2>1 DEF Task
  <2> QED
    BY <1>0, <2>1, <2>2, SpawnKeeps
<1>4. ASSUME NEW t \in Slots, OtherTaskStep(t)
      PROVE  tasks'[u] = tasks[u]
  <2>1. CASE Serve(t)
    BY <2>1 DEF Serve
  <2>2. CASE ~Serve(t)
    <3>1. tasks' = Ended(t) /\ tasks[t].kind # "catalog"
      BY <1>4, <2>2 DEF OtherTaskStep, StalePreparation, FinishFilamanPreparation,
         FinishSpoolStorage, FinishSpoolArchive
    <3> QED
      BY <3>1, EndedTasks
  <2> QED
    BY <2>1, <2>2
<1> QED
  BY <1>1, <1>2, <1>3, <1>4 DEF Button

\* A step that shows no spool and leaves its lookups leaves the image in order.
LEMMA ImageStays ==
  ASSUME ImageIsOfShownSpool, UNCHANGED images, UNCHANGED active_tray_uid,
         has_spool' => has_spool,
         \A u \in Slots : tasks[u].kind = "catalog" => tasks'[u] = tasks[u]
  PROVE  ImageIsOfShownSpool'
BY DEF ImageIsOfShownSpool, images

LEMMA ShowBambuKeepsImage ==
  ASSUME NEW s \in Spools, ShowBambu(s)
  PROVE  ImageIsOfShownSpool'
<1>1. active_tray_uid' = s
  BY DEF ShowBambu, ReadBambu, ShowSpool
<1> QED
  BY <1>1 DEF ShowBambu, ImageIsOfShownSpool

LEMMA ShowOpenPrintTagKeepsImage ==
  ASSUME TypeOK, NEW s \in Spools, ShowOpenPrintTag(s)
  PROVE  ImageIsOfShownSpool'
<1> DEFINE task == [kind |-> "catalog", spool |-> s, known |-> None]
<1>1. active_tray_uid' = s
  BY DEF ShowOpenPrintTag, ReadOpenPrintTag, ShowSpool
<1>2. task \in Task /\ task.kind = "catalog" /\ task.spool = s
  BY DEF Task
<1>3. Spawn(tasks, tasks, task) \/ UNCHANGED tasks
  BY DEF ShowOpenPrintTag, ReadOpenPrintTag
<1> HIDE DEF task
<1>4. tasks' # tasks => \E t \in Slots : tasks'[t] = task
  BY <1>2, <1>3, SpawnedTasks DEF TypeOK
<1> QED
  BY <1>1, <1>2, <1>4 DEF ShowOpenPrintTag, ImageIsOfShownSpool

LEMMA EndCatalogLoadKeepsImage ==
  ASSUME TypeOK, ImageIsOfShownSpool, NEW t \in Slots, EndCatalogLoad(t)
  PROVE  ImageIsOfShownSpool'
<1>1. UNCHANGED <<active_tray_uid, has_spool, loads>>
  BY DEF EndCatalogLoad, FinishCatalogLoad, shown
<1>2. CASE tasks[t].spool # active_tray_uid
  <2>1. UNCHANGED <<image, image_loading>> /\ tasks' = Ended(t)
    BY <1>2 DEF EndCatalogLoad, FinishCatalogLoad
  <2>2. \A u \in Slots : tasks[u].spool = active_tray_uid => tasks'[u] = tasks[u]
    BY <1>2, <2>1, EndedTasks
  <2> QED
    BY <1>1, <2>1, <2>2 DEF ImageIsOfShownSpool
<1>3. CASE tasks[t].spool = active_tray_uid
  <2>1. image_loading' = FALSE /\ image' \in {image, active_tray_uid}
    BY <1>3 DEF EndCatalogLoad, PutImage
  <2> QED
    BY <1>1, <2>1 DEF ImageIsOfShownSpool
<1> QED
  BY <1>2, <1>3

LEMMA EndImageLoadKeepsImage ==
  ASSUME ImageIsOfShownSpool, NEW s \in Bambu, EndImageLoad(s)
  PROVE  ImageIsOfShownSpool'
<1>1. UNCHANGED <<active_tray_uid, has_spool, tasks>> /\ loads' = loads \ {s}
  BY DEF EndImageLoad, vars, shown
<1>2. CASE OtherProduct(s)
  BY <1>1, <1>2 DEF EndImageLoad, OtherProduct, ImageIsOfShownSpool
<1>3. CASE ~OtherProduct(s)
  <2>1. active_tray_uid = s /\ image_loading' = FALSE /\ image' \in {image, s}
    BY <1>3 DEF EndImageLoad, OtherProduct, PutImage
  <2> QED
    BY <1>1, <2>1 DEF ImageIsOfShownSpool
<1> QED
  BY <1>2, <1>3

\* Every step of the screen is one of the controller, or leaves it as it is.
LEMMA ScreenStep ==
  ASSUME [ScreenNext]_screen_vars
  PROVE  [Next]_vars
<1>1. ASSUME NEW s \in Spools, ShowBambu(s) \/ ShowOpenPrintTag(s)
      PROVE  Next
  BY <1>1 DEF ShowBambu, ShowOpenPrintTag, Next, ReaderEvent
<1>2. ASSUME NEW t \in Slots, EndCatalogLoad(t) \/ OtherTaskStep(t)
      PROVE  Next
  BY <1>2 DEF EndCatalogLoad, OtherTaskStep, Next, TaskStep
<1>3. ASSUME NEW s \in Bambu, EndImageLoad(s)
      PROVE  UNCHANGED vars
  BY <1>3 DEF EndImageLoad
<1>4. CASE ReadFails \/ Button
  BY <1>4 DEF Next, ReaderEvent
<1>5. CASE UNCHANGED screen_vars
  BY <1>5 DEF screen_vars
<1> QED
  BY <1>1, <1>2, <1>3, <1>4, <1>5 DEF ScreenNext

\* The controller with its image is the controller: the theorems above hold of it.
THEOREM ScreenIsController == ScreenSpec => Spec
<1>1. ScreenInit => Init
  BY DEF ScreenInit
<1>2. [ScreenNext]_screen_vars => [Next]_vars
  BY ScreenStep
<1> QED
  BY <1>1, <1>2, PTL DEF ScreenSpec, Spec

LEMMA ScreenPreservesImage ==
  ASSUME IInv, ImageIsOfShownSpool, [ScreenNext]_screen_vars
  PROVE  ImageIsOfShownSpool'
<1>0. TypeOK
  BY DEF IInv
<1>1. ASSUME NEW s \in Spools, ShowBambu(s) \/ ShowOpenPrintTag(s)
      PROVE  ImageIsOfShownSpool'
  BY <1>0, <1>1, ShowBambuKeepsImage, ShowOpenPrintTagKeepsImage
<1>2. ASSUME NEW t \in Slots, EndCatalogLoad(t)
      PROVE  ImageIsOfShownSpool'
  BY <1>0, <1>2, EndCatalogLoadKeepsImage
<1>3. ASSUME NEW s \in Bambu, EndImageLoad(s)
      PROVE  ImageIsOfShownSpool'
  BY <1>3, EndImageLoadKeepsImage
<1>4. CASE ReadFails /\ UNCHANGED images
  BY <1>4, ImageStays DEF ReadFails
<1>5. CASE (Button \/ \E t \in Slots : OtherTaskStep(t)) /\ UNCHANGED images
  <2>1. UNCHANGED <<active_tray_uid, has_spool>>
    BY <1>5 DEF Button, OpenLocationManagement, SelectLocation, ArchiveSpool, CancelImport,
       OtherTaskStep, Serve, StalePreparation, FinishFilamanPreparation, FinishSpoolStorage,
       FinishSpoolArchive, shown
  <2>2. \A u \in Slots : tasks[u].kind = "catalog" => tasks'[u] = tasks[u]
    BY <1>0, <1>5, LookupGoesOn
  <2> QED
    BY <1>5, <2>1, <2>2, ImageStays
<1>6. CASE UNCHANGED screen_vars
  BY <1>6, ImageStays DEF screen_vars, vars, shown
<1> QED
  BY <1>1, <1>2, <1>3, <1>4, <1>5, <1>6 DEF ScreenNext

\* With its image the controller keeps its invariants, and the image on the
\* screen is that of the spool shown, whatever loads and lookups end when.
THEOREM ImageCurrent == ScreenSpec => []ImageIsOfShownSpool
<1>1. ScreenInit => IInv /\ ImageIsOfShownSpool
  BY InitEstablishes DEF ScreenInit, Init, ImageIsOfShownSpool
<1>2. IInv /\ ImageIsOfShownSpool /\ [ScreenNext]_screen_vars => (IInv /\ ImageIsOfShownSpool)'
  BY ScreenStep, NextPreserves, ScreenPreservesImage
<1> QED
  BY <1>1, <1>2, PTL DEF ScreenSpec
=============================================================================
