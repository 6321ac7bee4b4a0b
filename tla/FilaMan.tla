------------------------------ MODULE FilaMan ------------------------------
(***************************************************************************)
(* The FilaMan service of the scanner: core/src/filaman.rs with its        *)
(* OfflineState (core/src/filaman/offline.rs).                             *)
(*                                                                         *)
(* One cooperative executor runs every task, so the code between two       *)
(* awaits is one atomic step here.  Loop is the heartbeat task; a client   *)
(* is any other task that calls the service: the store, prepare and        *)
(* archive tasks the touch screen spawns, and the connection test and the  *)
(* registration that the web page spawns.  A request to the FilaMan server *)
(* is one step: the server handles it and the task resumes with the        *)
(* answer; an answer that is lost after the server acted is an outcome of  *)
(* that step.  Time is abstracted: whenever a deadline decides, both       *)
(* sides of it are possible.  An SD card is present: without one no device *)
(* token can be stored, and the service does nothing but test connections. *)
(***************************************************************************)
EXTENDS Naturals, Sequences

CONSTANTS
  Spools,        \* canonical external ids of spools that can be scanned
  Locations,     \* regular storage locations of the FilaMan server
  Nowhere,       \* where a spool is that the server knows without a location
  Clients,       \* tasks other than the heartbeat loop
  Loop,          \* the heartbeat task
  Addresses,     \* IPv4 addresses DHCP may hand out
  None,          \* "no value" of every optional field
  Rejected,      \* spools whose import and move the server always refuses
  RefreshTicks,  \* INVENTORY_REFRESH_HEARTBEATS
  Settles,       \* may the network become reliable for good?
  TornWrites,    \* may an interrupted write leave a file that does not parse?
  MaxRequests,   \* bound: calls made by users
  MaxFaults,     \* bound: failing writes of the card
  MaxCrashes,    \* bound: power losses
  MaxExternal    \* bound: moves made by other users of the server

ASSUME ConstantsAssumption ==
  /\ Loop \notin Clients
  /\ None \notin Locations \cup Addresses \cup {Nowhere}
  /\ Nowhere \notin Locations
  /\ Rejected \subseteq Spools
  /\ RefreshTicks \in Nat \ {0}
  /\ {Settles, TornWrites} \subseteq BOOLEAN
  /\ {MaxRequests, MaxFaults, MaxCrashes, MaxExternal} \subseteq Nat

VARIABLES
  ip,                       \* local_ipv4_address()
  steady,                   \* does every exchange with the server complete from now on?
  settings,                 \* what enabled and device_token amount to
  busy,
  heartbeat_succeeded,
  heartbeat_failure_active,
  inventory_refresh_ticks,
  inventory,                \* offline.inventory: where the server's active spools are
  queue,                    \* offline.queue
  previous_ip,              \* heartbeat task: address seen in the last pass
  sync,                     \* heartbeat task: locals of synchronize_offline_queue
  fetched,                  \* heartbeat task: inventory waiting for the card
  pc,                       \* where each task is
  job,                      \* the call each client works on
  prepared,                 \* PreparedQueue each task is about to persist
  sdQueue,                  \* the file QUEUE_PATH, None when it does not parse
  sdInventory,              \* the file INVENTORY_PATH, None when there is none
  server,                   \* the FilaMan server
  owed,                     \* history: location promised as Queued and not yet acknowledged
  choice,                   \* history: location of the last accepted choice
  spent                     \* bounds used up

flags   == <<heartbeat_succeeded, heartbeat_failure_active>>
ram     == <<inventory_refresh_ticks, inventory, queue>>
loop    == <<previous_ip, sync, fetched>>
tasks   == <<pc, job, prepared>>
files   == <<sdQueue, sdInventory>>
history == <<owed, choice>>
world   == <<ip, steady, settings>>
vars    == <<world, busy, flags, ram, loop, tasks, files, server, history, spent>>

-----------------------------------------------------------------------------
(* Data *)

Tasks == Clients \cup {Loop}
Settings == {"unregistered", "disabled", "enabled"}

\* A PendingStorage, and the OfflineQueue that orders them.
Operation  == [sequence : Nat, spool : Spools, location : Locations]
QueueState == [operations : Seq(Operation), next_sequence : Nat]
EmptyQueue == [operations |-> <<>>, next_sequence |-> 1]

\* An inventory maps each spool to its place; None: not among the active spools.
Places == Locations \cup {Nowhere}
Inventory == [Spools -> Places \cup {None}]

\* What the server knows of a spool; location None: the identity is unknown to it.
ServerSpool == [location : Places \cup {None}, archived : BOOLEAN]

\* A file that does not parse is told from one that holds a queue.
ASSUME NoneAssumption == None \notin QueueState

\* The locals of synchronize_offline_queue: the snapshot, the index of the
\* operation in work, those that remain, and the flag of run_online_maintenance.
NoSync == [operations |-> <<>>, at |-> 1, remaining |-> <<>>, force |-> FALSE]

NoJob == [kind |-> "none", spool |-> None, location |-> None, known |-> FALSE]
Job == {NoJob}
       \cup [kind : {"store"}, spool : Spools, location : Locations, known : BOOLEAN]
       \cup [kind : {"archive"}, spool : Spools, location : {None}, known : {TRUE}]
       \cup [kind : {"prepare", "test", "register"}, spool : {None}, location : {None}, known : {FALSE}]

\* The control points at which a task owns the busy flag.
Owning == {"heartbeat", "find", "import", "move", "queueWrite", "refresh",
           "refreshWrite", "remote", "settingsWrite"}
Synchronizing == {"find", "import", "move", "queueWrite"}

Registered    == settings # "unregistered"   \* send_heartbeat_if_ready's conditions
ImportEnabled == settings = "enabled"        \* import_enabled

\* use_offline_inventory
UseOfflineInventory_forgetsFailure ==
  \/ ip = None
  \/ ~heartbeat_succeeded

UseOfflineInventory ==
  \/ ip = None
  \/ ~heartbeat_succeeded
  \/ heartbeat_failure_active

-----------------------------------------------------------------------------
(* OfflineState *)

Pending(q, s) == \E i \in DOMAIN q.operations : q.operations[i].spool = s

\* prepare_storage: replace the operation of the same spool in place, or push one.
PrepareStorage_alwaysPush(q, s, l) ==
  [operations |-> Append(q.operations,
                         [sequence |-> q.next_sequence, spool |-> s, location |-> l]),
   next_sequence |-> q.next_sequence + 1]

PrepareStorage(q, s, l) ==
  IF Pending(q, s)
  THEN [q EXCEPT !.operations =
         [i \in DOMAIN q.operations |->
            IF q.operations[i].spool = s
            THEN [q.operations[i] EXCEPT !.location = l]
            ELSE q.operations[i]]]
  ELSE [operations |-> Append(q.operations,
                              [sequence |-> q.next_sequence, spool |-> s, location |-> l]),
        next_sequence |-> q.next_sequence + 1]

\* prepare_remaining
PrepareRemaining_clears(q, remaining) == [q EXCEPT !.operations = <<>>]

PrepareRemaining(q, remaining) == [q EXCEPT !.operations = remaining]

\* load_queue at boot; a file that does not parse is ignored.
LoadQueue_never(file) == EmptyQueue

LoadQueue(file) == IF file = None THEN EmptyQueue ELSE file

\* The location of the pending operation of s, None without one.
PendingLocation(q, s) ==
  IF Pending(q, s)
  THEN LET i == CHOOSE j \in DOMAIN q.operations : q.operations[j].spool = s
       IN  q.operations[i].location
  ELSE None

\* resolve: the location a scan shows for s, from the queue before the inventory.
ResolvedLocation(s) ==
  IF Pending(queue, s) THEN PendingLocation(queue, s)
  ELSE IF inventory = None THEN None ELSE inventory[s]

\* load_inventory_spools: the active spools and their locations.
ActiveSpools == [s \in Spools |-> IF server[s].archived THEN None ELSE server[s].location]

-----------------------------------------------------------------------------
(* Initial state: a scanner that has never stored anything *)

Init ==
  /\ ip = None
  /\ steady = FALSE
  /\ settings \in Settings
  /\ busy = FALSE
  /\ heartbeat_succeeded = FALSE
  /\ heartbeat_failure_active = FALSE
  /\ inventory_refresh_ticks = 0
  /\ inventory = None
  /\ queue = EmptyQueue
  /\ previous_ip = None
  /\ sync = NoSync
  /\ fetched = None
  /\ pc = [t \in Tasks |-> IF t = Loop THEN "poll" ELSE "idle"]
  /\ job = [c \in Clients |-> NoJob]
  /\ prepared = [t \in Tasks |-> None]
  /\ sdQueue = EmptyQueue
  /\ sdInventory = None
  /\ server = [s \in Spools |-> [location |-> None, archived |-> FALSE]]
  /\ owed = [s \in Spools |-> None]
  /\ choice = [s \in Spools |-> None]
  /\ spent = [requests |-> 0, faults |-> 0, crashes |-> 0, external |-> 0]

-----------------------------------------------------------------------------
(* The busy flag *)

\* busy.replace(true), by a task that then waits at control point at.
Acquire_unchecked(t, at) ==
  /\ busy' = TRUE
  /\ pc' = [pc EXCEPT ![t] = at]

Acquire(t, at) ==
  /\ ~busy
  /\ busy' = TRUE
  /\ pc' = [pc EXCEPT ![t] = at]

\* The last lines of every guarded method: the flag is dropped, the call returns.
Release_keepsBusy(c) ==
  /\ busy' = busy
  /\ pc' = [pc EXCEPT ![c] = "idle"]
  /\ job' = [job EXCEPT ![c] = NoJob]
  /\ prepared' = [prepared EXCEPT ![c] = None]

Release(c) ==
  /\ busy' = FALSE
  /\ pc' = [pc EXCEPT ![c] = "idle"]
  /\ job' = [job EXCEPT ![c] = NoJob]
  /\ prepared' = [prepared EXCEPT ![c] = None]

\* A call that returns without having owned the flag.
Return(c) ==
  /\ pc' = [pc EXCEPT ![c] = "idle"]
  /\ job' = [job EXCEPT ![c] = NoJob]
  /\ UNCHANGED <<busy, prepared>>

\* StorageOutcome::Queued
ReportQueued(c) ==
  /\ owed' = [owed EXCEPT ![job[c].spool] = job[c].location]
  /\ choice' = [choice EXCEPT ![job[c].spool] = job[c].location]

\* StorageOutcome::Applied
ReportApplied(c) ==
  /\ owed' = [owed EXCEPT ![job[c].spool] = None]
  /\ choice' = [choice EXCEPT ![job[c].spool] = job[c].location]

\* enqueue_storage up to the write of persist_queue, which is skipped if the
\* serialized queue does not change.  Other data of the spool, left out here, may
\* have changed in it too.
EnqueueStorage(c) ==
  LET next == PrepareStorage(queue, job[c].spool, job[c].location)
  IN  \/ /\ next = queue
         /\ Release(c)
         /\ ReportQueued(c)
      \/ /\ busy' = TRUE
         /\ prepared' = [prepared EXCEPT ![c] = next]
         /\ pc' = [pc EXCEPT ![c] = "queueWrite"]
         /\ UNCHANGED <<job, history>>

-----------------------------------------------------------------------------
(* run_online_maintenance and synchronize_offline_queue, between requests *)

RefreshDue_ignoresTicks(force, changed) == force \/ changed

RefreshDue(force, changed) ==
  force \/ changed \/ inventory_refresh_ticks + 1 >= RefreshTicks

\* synchronize_offline_queue has returned changed; the refresh takes the flag in
\* the same step, before any other task runs.
AfterSync_resetsTicks(force, changed) ==
  LET due == RefreshDue(force, changed)
  IN  /\ inventory_refresh_ticks' = 0
      /\ busy' = due
      /\ pc' = [pc EXCEPT ![Loop] = IF due THEN "refresh" ELSE "poll"]
      /\ sync' = NoSync
      /\ prepared' = [prepared EXCEPT ![Loop] = None]

AfterSync(force, changed) ==
  LET due == RefreshDue(force, changed)
  IN  /\ inventory_refresh_ticks' = IF due THEN 0 ELSE inventory_refresh_ticks + 1
      /\ busy' = due
      /\ pc' = [pc EXCEPT ![Loop] = IF due THEN "refresh" ELSE "poll"]
      /\ sync' = NoSync
      /\ prepared' = [prepared EXCEPT ![Loop] = None]

RunOnlineMaintenance(force) ==
  IF queue.operations = <<>>
  THEN AfterSync(force, FALSE)
  ELSE /\ busy' = TRUE
       /\ sync' = [operations |-> queue.operations, at |-> 1,
                   remaining |-> <<>>, force |-> force]
       /\ pc' = [pc EXCEPT ![Loop] = "find"]
       /\ UNCHANGED <<inventory_refresh_ticks, prepared>>

\* The operations behind the one in work.
Untried == SubSeq(sync.operations, sync.at + 1, Len(sync.operations))

\* What remains queued when the pass ends: the failed and the untried operations.
Kept_forgetsUntried(remaining) == remaining

Kept(remaining) == remaining \o Untried

\* The operation in work is settled: go on, or give up after a failure that
\* stops the pass, or persist what remains.
SyncNext(remaining, stop) ==
  LET kept == Kept(remaining)
  IN  IF ~stop /\ Untried # <<>>
      THEN /\ sync' = [sync EXCEPT !.at = @ + 1, !.remaining = remaining]
           /\ pc' = [pc EXCEPT ![Loop] = "find"]
           /\ UNCHANGED <<busy, inventory_refresh_ticks, prepared>>
      ELSE IF Len(kept) = Len(sync.operations)
      THEN AfterSync(sync.force, FALSE)
      ELSE /\ prepared' = [prepared EXCEPT ![Loop] = PrepareRemaining(queue, kept)]
           /\ pc' = [pc EXCEPT ![Loop] = "queueWrite"]
           /\ UNCHANGED <<busy, inventory_refresh_ticks, sync>>

-----------------------------------------------------------------------------
(* apply_storage_online and move_spool_inner: the requests of a store or of *)
(* one queued operation                                                     *)

\* The spool and the location task t works on.
Target(t) == IF t = Loop THEN sync.operations[sync.at] ELSE job[t]

\* The request succeeded and the spool is where it was wanted.
Applied(t) ==
  /\ IF t = Loop
     THEN /\ owed' = [owed EXCEPT ![Target(t).spool] = None]
          /\ SyncNext(sync.remaining, FALSE)
          /\ UNCHANGED <<job, choice>>
     ELSE /\ ReportApplied(t)
          /\ Release(t)
          /\ UNCHANGED <<inventory_refresh_ticks, sync>>
  /\ UNCHANGED flags

\* stop_after_failure: only a transport error ends the pass.
StopsSync_always(transport) == TRUE

StopsSync(transport) == transport

\* The request failed; is_transport_error decides what happens next.
Failed(t, transport) ==
  IF t = Loop
  THEN /\ SyncNext(Append(sync.remaining, Target(t)), StopsSync(transport))
       /\ UNCHANGED <<flags, job, history>>
  ELSE /\ UNCHANGED <<heartbeat_succeeded, inventory_refresh_ticks, sync>>
       /\ IF transport
          THEN heartbeat_failure_active' = TRUE /\ EnqueueStorage(t)
          ELSE Release(t) /\ UNCHANGED <<heartbeat_failure_active, history>>

\* When the server can answer a request, and when one can get lost.  A request
\* that was sent with a token dropped since is taken to be answered before that:
\* nothing reads the settings between the two.
Answers == ip # None /\ Registered
Lossy   == ip = None \/ ~steady

\* A request about spool s fails.  An error that is not a transport error is a
\* refusal, an answer that does not parse, or a base URL that was cleared.  Where answers get lost, the server
\* may have reached the state after.
RequestFails(t, refuses, after) ==
  /\ \/ Lossy /\ Failed(t, TRUE)
     \/ (~Registered \/ (ip # None /\ (~steady \/ refuses))) /\ Failed(t, FALSE)
  /\ server' \in {server} \cup (IF Lossy /\ Registered /\ ~refuses THEN {after} ELSE {})

\* find_spool: archived spools are not listed.
Find(t) ==
  /\ pc[t] = "find"
  /\ LET s == Target(t).spool
         found == ActiveSpools[s]
     IN \/ /\ Answers
           /\ UNCHANGED server
           /\ IF found = Target(t).location
              THEN Applied(t)
              ELSE /\ pc' = [pc EXCEPT ![t] = IF found = None THEN "import" ELSE "move"]
                   /\ UNCHANGED <<busy, flags, inventory_refresh_ticks, sync, job, prepared, history>>
        \/ RequestFails(t, FALSE, server)
  /\ UNCHANGED <<world, inventory, queue, previous_ip, fetched, files, spent>>

\* import_spool_inner: the plugin creates the spool, or resolves the identity it
\* knows, and then the spool is moved.
Import(t) ==
  /\ pc[t] = "import"
  /\ LET s == Target(t).spool
         created == [server EXCEPT ![s] = [location |-> Target(t).location, archived |-> FALSE]]
         after == IF server[s].location = None THEN created ELSE server
     IN \/ /\ Answers /\ s \notin Rejected
           /\ server' = after
           /\ IF server[s].location = None
              THEN Applied(t)
              ELSE /\ pc' = [pc EXCEPT ![t] = "move"]
                   /\ UNCHANGED <<busy, flags, inventory_refresh_ticks, sync, job, prepared, history>>
        \/ RequestFails(t, s \in Rejected, after)
  /\ UNCHANGED <<world, inventory, queue, previous_ip, fetched, files, spent>>

\* move_spool_inner
Move(t) ==
  /\ pc[t] = "move"
  /\ LET s == Target(t).spool
         after == [server EXCEPT ![s].location = Target(t).location]
     IN \/ /\ Answers /\ s \notin Rejected
           /\ server' = after
           /\ Applied(t)
        \/ RequestFails(t, s \in Rejected, after)
  /\ UNCHANGED <<world, inventory, queue, previous_ip, fetched, files, spent>>

\* persist_queue: the card holds the new file before the new queue is committed.
QueueWriteSucceeds(t) ==
  /\ pc[t] = "queueWrite"
  /\ sdQueue' = prepared[t]
  /\ queue' = prepared[t]
  /\ IF t = Loop
     THEN AfterSync(sync.force, TRUE) /\ UNCHANGED <<job, history>>
     ELSE Release(t) /\ ReportQueued(t) /\ UNCHANGED <<inventory_refresh_ticks, sync>>
  /\ UNCHANGED <<world, flags, inventory, previous_ip, fetched, sdInventory, server, spent>>

\* The write fails: nothing is committed.
QueueWriteFails(t) ==
  /\ pc[t] = "queueWrite"
  /\ spent.faults < MaxFaults
  /\ spent' = [spent EXCEPT !.faults = @ + 1]
  /\ sdQueue' \in {sdQueue} \cup (IF TornWrites THEN {None} ELSE {})
  /\ IF t = Loop
     THEN AfterSync(sync.force, FALSE) /\ UNCHANGED job
     ELSE Release(t) /\ UNCHANGED <<inventory_refresh_ticks, sync>>
  /\ UNCHANGED <<world, flags, inventory, queue, previous_ip, fetched, sdInventory, server, history>>

StorageStep(t) ==
  Find(t) \/ Import(t) \/ Move(t) \/ QueueWriteSucceeds(t) \/ QueueWriteFails(t)

-----------------------------------------------------------------------------
(* The heartbeat task *)

\* A pass of the loop that sees another address forgets the connection.
ObserveAddress ==
  /\ previous_ip' = ip
  /\ IF ip = previous_ip
     THEN UNCHANGED flags
     ELSE heartbeat_succeeded' = FALSE /\ heartbeat_failure_active' = FALSE

\* send_heartbeat_if_ready up to its request.
StartHeartbeat ==
  /\ pc[Loop] = "poll"
  /\ ip # None /\ Registered
  /\ ObserveAddress
  /\ Acquire(Loop, "heartbeat")
  /\ UNCHANGED <<world, ram, sync, fetched, job, prepared, files, server, history, spent>>

\* A pass in which a new address is seen and no heartbeat can be sent.
SkipHeartbeat ==
  /\ pc[Loop] = "poll"
  /\ ip # previous_ip
  /\ ip = None \/ ~Registered \/ busy
  /\ ObserveAddress
  /\ UNCHANGED <<world, busy, ram, sync, fetched, tasks, files, server, history, spent>>

\* The heartbeat is answered; maintenance takes the flag again in the same step.
HeartbeatSucceeds ==
  /\ pc[Loop] = "heartbeat"
  /\ Answers
  /\ heartbeat_succeeded' = TRUE
  /\ heartbeat_failure_active' = FALSE
  /\ RunOnlineMaintenance(~heartbeat_succeeded \/ heartbeat_failure_active)
  /\ UNCHANGED <<world, inventory, queue, previous_ip, fetched, job, files, server, history, spent>>

\* It fails, is refused, or the timeout of 20 s ends it.
HeartbeatFails ==
  /\ pc[Loop] = "heartbeat"
  /\ Lossy \/ ~Registered
  /\ heartbeat_failure_active' = TRUE
  /\ busy' = FALSE
  /\ pc' = [pc EXCEPT ![Loop] = "poll"]
  /\ UNCHANGED <<world, heartbeat_succeeded, ram, loop, job, prepared, files, server, history, spent>>

\* The retry of the queue, every CONNECTION_RETRY_INTERVAL.
RetryQueue ==
  /\ pc[Loop] = "poll"
  /\ ip = previous_ip
  /\ ~UseOfflineInventory
  /\ ~busy
  /\ queue.operations # <<>>
  /\ RunOnlineMaintenance(FALSE)
  /\ UNCHANGED <<world, flags, inventory, queue, previous_ip, fetched, job, files, server, history, spent>>

\* The refresh ends, committed or not.
EndRefresh ==
  /\ busy' = FALSE
  /\ pc' = [pc EXCEPT ![Loop] = "poll"]
  /\ fetched' = None

\* refresh_inventory: its requests, taken as one.  The card is written only if
\* the snapshot changes.
RefreshInventory ==
  /\ pc[Loop] = "refresh"
  /\ \/ /\ Answers
        /\ IF ActiveSpools # inventory
           THEN /\ fetched' = ActiveSpools
                /\ pc' = [pc EXCEPT ![Loop] = "refreshWrite"]
                /\ UNCHANGED <<busy, inventory>>
           ELSE /\ inventory' = ActiveSpools
                /\ EndRefresh
     \/ /\ Lossy \/ ~Registered
        /\ EndRefresh
        /\ UNCHANGED inventory
  /\ UNCHANGED <<world, flags, inventory_refresh_ticks, queue, previous_ip, sync, job, prepared,
                 files, server, history, spent>>

InventoryWriteSucceeds ==
  /\ pc[Loop] = "refreshWrite"
  /\ sdInventory' = fetched
  /\ inventory' = fetched
  /\ EndRefresh
  /\ UNCHANGED <<world, flags, inventory_refresh_ticks, queue, previous_ip, sync, job, prepared,
                 sdQueue, server, history, spent>>

InventoryWriteFails ==
  /\ pc[Loop] = "refreshWrite"
  /\ spent.faults < MaxFaults
  /\ spent' = [spent EXCEPT !.faults = @ + 1]
  /\ sdInventory' \in {sdInventory} \cup (IF TornWrites THEN {None} ELSE {})
  /\ EndRefresh
  /\ UNCHANGED <<world, flags, ram, previous_ip, sync, job, prepared, sdQueue, server, history>>

LoopStep ==
  \/ StartHeartbeat \/ SkipHeartbeat \/ HeartbeatSucceeds \/ HeartbeatFails
  \/ RetryQueue \/ StorageStep(Loop)
  \/ RefreshInventory \/ InventoryWriteSucceeds \/ InventoryWriteFails

-----------------------------------------------------------------------------
(* Calls of the touch screen and of the web page *)

CountRequest == spent.requests < MaxRequests /\ spent' = [spent EXCEPT !.requests = @ + 1]

\* The UI calls store_spool_at; known: it passes the spool id it has seen.
CallStore(c, s, l, known) ==
  /\ pc[c] = "idle"
  /\ ImportEnabled
  /\ known => server[s].location # None
  /\ CountRequest
  /\ job' = [job EXCEPT ![c] = [kind |-> "store", spool |-> s, location |-> l, known |-> known]]
  /\ pc' = [pc EXCEPT ![c] = "await"]
  /\ UNCHANGED <<world, busy, flags, ram, loop, prepared, files, server, history>>

\* The UI calls prepare_spool; which spool it asks for changes no state.
CallPrepare(c) ==
  /\ pc[c] = "idle"
  /\ ImportEnabled
  /\ CountRequest
  /\ job' = [job EXCEPT ![c] = [kind |-> "prepare", spool |-> None, location |-> None, known |-> FALSE]]
  /\ pc' = [pc EXCEPT ![c] = "await"]
  /\ UNCHANGED <<world, busy, flags, ram, loop, prepared, files, server, history>>

\* The UI calls archive_spool for a registered spool.
CallArchive(c, s) ==
  /\ pc[c] = "idle"
  /\ ImportEnabled
  /\ server[s].location # None
  /\ CountRequest
  /\ job' = [job EXCEPT ![c] = [kind |-> "archive", spool |-> s, location |-> None, known |-> TRUE]]
  /\ Acquire(c, "remote")
  /\ UNCHANGED <<world, flags, ram, loop, prepared, files, server, history>>

\* The web page calls request_test or request_registration.
CallWeb(c, kind) ==
  /\ pc[c] = "idle"
  /\ CountRequest
  /\ job' = [job EXCEPT ![c] = [kind |-> kind, spool |-> None, location |-> None, known |-> FALSE]]
  /\ Acquire(c, "remote")
  /\ UNCHANGED <<world, flags, ram, loop, prepared, files, server, history>>

\* store_spool_at after await_initial_connection, whose deadline may pass at any time.
ProceedStore(c) ==
  /\ pc[c] = "await" /\ job[c].kind = "store"
  /\ \/ /\ busy
        /\ Return(c)
        /\ UNCHANGED history
     \/ /\ ~busy /\ UseOfflineInventory
        /\ EnqueueStorage(c)
     \/ /\ ~UseOfflineInventory
        /\ Acquire(c, IF job[c].known THEN "move" ELSE "find")
        /\ UNCHANGED <<job, prepared, history>>
  /\ UNCHANGED <<world, flags, ram, loop, files, server, spent>>

\* prepare_spool after await_initial_connection: answered from the queue and the
\* inventory in RAM, refused while another request runs, or asked of the server.
ProceedPrepare(c) ==
  /\ pc[c] = "await" /\ job[c].kind = "prepare"
  /\ IF UseOfflineInventory \/ inventory # None \/ busy
     THEN Return(c)
     ELSE Acquire(c, "remote") /\ UNCHANGED <<job, prepared>>
  /\ UNCHANGED <<world, flags, ram, loop, files, server, history, spent>>

\* The request of a call other than a store ends.  A registration stores the
\* token in RAM and goes on to write the settings file.
RemoteEnds(c) ==
  /\ pc[c] = "remote"
  /\ \/ /\ job[c].kind \in {"prepare", "test"}
        /\ Release(c)
        /\ UNCHANGED <<settings, server>>
     \/ /\ job[c].kind = "archive"
        /\ LET after == [server EXCEPT ![job[c].spool].archived = TRUE]
           IN  \/ Answers /\ server' = after
               \/ (Lossy \/ ~Registered) /\ server' = server
               \/ Lossy /\ Registered /\ server' = after
        /\ Release(c)
        /\ UNCHANGED settings
     \/ /\ job[c].kind = "register"
        /\ \/ /\ ip # None
              /\ settings' \in {"disabled", "enabled"}
              /\ pc' = [pc EXCEPT ![c] = "settingsWrite"]
              /\ UNCHANGED <<busy, job, prepared>>
           \/ /\ Release(c)
              /\ UNCHANGED settings
        /\ UNCHANGED server
  /\ UNCHANGED <<ip, steady, flags, ram, loop, files, history, spent>>

\* persist_settings of a registration ends; either outcome drops the flag.
SettingsWritten(c) ==
  /\ pc[c] = "settingsWrite"
  /\ Release(c)
  /\ UNCHANGED <<world, flags, ram, loop, files, server, history, spent>>

Call(c) ==
  \/ \E s \in Spools, l \in Locations, known \in BOOLEAN : CallStore(c, s, l, known)
  \/ CallPrepare(c)
  \/ \E s \in Spools : CallArchive(c, s)
  \/ \E kind \in {"test", "register"} : CallWeb(c, kind)

ClientStep(c) ==
  StorageStep(c) \/ ProceedStore(c) \/ ProceedPrepare(c) \/ RemoteEnds(c) \/ SettingsWritten(c)

\* update_connection_settings keeps the token, forget_registration drops it; both
\* act on the RAM at once, whatever is running.
ChangeSettings ==
  /\ CountRequest
  /\ \/ settings' = "unregistered"
     \/ Registered /\ settings' \in {"disabled", "enabled"}
  /\ UNCHANGED <<ip, steady, busy, flags, ram, loop, tasks, files, server, history>>

-----------------------------------------------------------------------------
(* The world around the scanner *)

AddressChanges ==
  /\ ip' \in (Addresses \cup {None}) \ {ip}
  /\ UNCHANGED <<steady, settings, busy, flags, ram, loop, tasks, files, server, history, spent>>

\* Until the network settles any exchange may fail, and any may succeed.
NetworkSettles ==
  /\ Settles
  /\ steady' = TRUE
  /\ UNCHANGED <<ip, settings, busy, flags, ram, loop, tasks, files, server, history, spent>>

\* Another user of the server creates a spool, moves it or clears its location.
ExternalMove(s, l) ==
  /\ spent.external < MaxExternal
  /\ spent' = [spent EXCEPT !.external = @ + 1]
  /\ server[s].location # l
  /\ server' = [server EXCEPT ![s].location = l]
  /\ UNCHANGED <<world, busy, flags, ram, loop, tasks, files, history>>

\* What a power loss leaves of the queue file: the old one, a torn one, or the
\* whole new one, whose choice then counts although nobody was told.
QueueFileAtPowerLoss ==
  \/ UNCHANGED <<sdQueue, history>>
  \/ \E t \in Tasks :
       /\ pc[t] = "queueWrite"
       /\ \/ TornWrites /\ sdQueue' = None /\ UNCHANGED history
          \/ /\ sdQueue' = prepared[t]
             /\ IF t = Loop THEN UNCHANGED history ELSE ReportQueued(t)

\* Power is lost and the firmware boots: FilaManService::new and load_from_sd.
Crash ==
  /\ spent.crashes < MaxCrashes
  /\ spent' = [spent EXCEPT !.crashes = @ + 1]
  /\ QueueFileAtPowerLoss
  /\ \/ UNCHANGED sdInventory
     \/ /\ pc[Loop] = "refreshWrite"
        /\ sdInventory' \in {fetched} \cup (IF TornWrites THEN {None} ELSE {})
  /\ queue' = LoadQueue(sdQueue')
  /\ inventory' = sdInventory'
  /\ settings' \in Settings
  /\ ip' = None
  /\ busy' = FALSE
  /\ heartbeat_succeeded' = FALSE
  /\ heartbeat_failure_active' = FALSE
  /\ inventory_refresh_ticks' = 0
  /\ previous_ip' = None
  /\ sync' = NoSync
  /\ fetched' = None
  /\ pc' = [t \in Tasks |-> IF t = Loop THEN "poll" ELSE "idle"]
  /\ job' = [c \in Clients |-> NoJob]
  /\ prepared' = [t \in Tasks |-> None]
  /\ UNCHANGED <<steady, server>>

Environment ==
  \/ ChangeSettings \/ AddressChanges \/ NetworkSettles \/ Crash
  \/ \E s \in Spools, l \in Places : ExternalMove(s, l)

-----------------------------------------------------------------------------
(* Specification *)

Next ==
  \/ LoopStep
  \/ \E c \in Clients : Call(c) \/ ClientStep(c)
  \/ Environment

Spec == Init /\ [][Next]_vars

\* A started task runs to its next await and every request comes back; users,
\* the network and the power supply owe nothing.
Fairness ==
  /\ WF_vars(LoopStep)
  /\ \A c \in Clients : WF_vars(ClientStep(c))

FairSpec == Spec /\ Fairness

-----------------------------------------------------------------------------
(* Safety *)

\* Every variable holds a value of its kind.
TypeOK ==
  /\ ip \in Addresses \cup {None}
  /\ steady \in BOOLEAN
  /\ settings \in Settings
  /\ busy \in BOOLEAN
  /\ heartbeat_succeeded \in BOOLEAN
  /\ heartbeat_failure_active \in BOOLEAN
  /\ inventory_refresh_ticks \in 0 .. RefreshTicks - 1
  /\ inventory \in Inventory \cup {None}
  /\ queue \in QueueState
  /\ previous_ip \in Addresses \cup {None}
  /\ sync \in [operations : Seq(Operation), at : Nat, remaining : Seq(Operation), force : BOOLEAN]
  /\ fetched \in Inventory \cup {None}
  /\ pc \in [Tasks -> Owning \cup {"poll", "idle", "await"}]
  /\ job \in [Clients -> Job]
  /\ prepared \in [Tasks -> QueueState \cup {None}]
  /\ sdQueue \in QueueState \cup {None}
  /\ sdInventory \in Inventory \cup {None}
  /\ server \in [Spools -> ServerSpool]
  /\ owed \in [Spools -> Locations \cup {None}]
  /\ choice \in [Spools -> Locations \cup {None}]
  /\ spent \in [requests : Nat, faults : Nat, crashes : Nat, external : Nat]

\* The busy flag is a lock without an owner: it is set exactly while one task is
\* between its busy.replace(true) and its busy.set(false), on every path through
\* the heartbeat task, the stores, the archive, the test and the registration.
OneRequestAtATime ==
  /\ busy <=> \E t \in Tasks : pc[t] \in Owning
  /\ \A t, u \in Tasks : pc[t] \in Owning /\ pc[u] \in Owning => t = u

\* The queue is replayed and the inventory refreshed only after a heartbeat of
\* the current connection has succeeded, and no store reports the server
\* unavailable meanwhile (start_heartbeat, send_heartbeat_if_ready).
SyncOnlyOnline ==
  pc[Loop] \in Synchronizing \cup {"refresh", "refreshWrite"} =>
    heartbeat_succeeded /\ ~heartbeat_failure_active

\* What synchronize_offline_queue persists at its end is computed from a snapshot
\* taken before many awaits.  The snapshot is the queue all the while, and an
\* operation already passed either remains or was acknowledged by the server.
SyncSnapshotCurrent ==
  /\ pc[Loop] \in Synchronizing => sync.operations = queue.operations
  /\ pc[Loop] \in {"find", "import", "move"} =>
       \A i \in 1 .. sync.at - 1 :
         \/ \E j \in DOMAIN sync.remaining : sync.remaining[j] = queue.operations[i]
         \/ owed[queue.operations[i].spool] = None
  /\ pc[Loop] = "queueWrite" =>
       \A i \in DOMAIN queue.operations :
         \/ \E j \in DOMAIN prepared[Loop].operations :
              prepared[Loop].operations[j] = queue.operations[i]
         \/ owed[queue.operations[i].spool] = None

\* At most one pending operation per spool, in the order of their sequence
\* numbers, all of them already handed out (prepare_storage, prepare_remaining).
WellFormed(q) ==
  /\ \A i \in DOMAIN q.operations : q.operations[i].sequence < q.next_sequence
  /\ \A i, j \in DOMAIN q.operations :
       i < j => /\ q.operations[i].sequence < q.operations[j].sequence
                /\ q.operations[i].spool # q.operations[j].spool

QueueWellFormed == WellFormed(queue)

\* q has an operation that moves spool s to location l.
Moves(q, s, l) ==
  \E i \in DOMAIN q.operations : q.operations[i].spool = s /\ q.operations[i].location = l

\* What is owed of s is pending.
QueuedFor(s) == owed[s] # None /\ Moves(queue, s, owed[s])

\* A location that the service has reported as queued, and that the server has
\* not acknowledged since, is pending: through failing writes, passes of the
\* synchronization that stop half way, power losses and reboots.
OwedIsQueued == \A s \in Spools : owed[s] # None => QueuedFor(s)

\* On a card that tears files too, what is owed and queued stays so until the server
\* has acknowledged it, or the next choice takes its place: nothing but a power loss
\* forgets it, no failing write (filaman.rs:784, 792) and no pass of the
\* synchronization (filaman.rs:409-419).
OnlyPowerLossForgets ==
  [][\A s \in Spools : QueuedFor(s) => QueuedFor(s)' \/ owed'[s] = None \/ Crash]_vars

\* Whatever the service has committed in RAM a reboot finds again on the card
\* (persist_queue and refresh_inventory write first and skip no needed write).
CardHoldsCommittedState ==
  /\ sdQueue = queue
  /\ sdInventory = inventory

-----------------------------------------------------------------------------
(* Liveness *)

\* No path through a guarded call forgets to drop the flag.
BusyIsReleased == busy ~> ~busy

\* The connection the service needs: an address, a token, a server that answers.
Connected == steady /\ ip # None /\ Registered

\* Once the connection stays, every pending operation the server accepts leaves
\* the queue, also those behind one the server always refuses.
QueueDrains ==
  <>[]Connected => <>[](\A s \in Spools \ Rejected : ~Pending(queue, s))

\* Once the connection stays, the inventory in RAM catches up with the server,
\* whoever changed it last.
InventoryConverges == <>[]Connected => <>[](inventory = ActiveSpools)

-----------------------------------------------------------------------------
(* Refinement *)

\* The queue file is the outbox.
Durable == INSTANCE Outbox
  WITH outbox <- [s \in Spools |-> PendingLocation(LoadQueue(sdQueue), s)]

\* The service with its card implements the durable outbox: an accepted choice is
\* on the card, one operation per spool, and an operation leaves the card only
\* after the server has acknowledged it; a power loss changes nothing.
ImplementsOutbox == Durable!Spec

-----------------------------------------------------------------------------
(* What the README says of the program *)

\* "Choosing a storage location creates or replaces one pending operation for
\* that spool": when the heartbeat task replays the queue, it moves a spool only
\* to the location that was chosen for it last.
SyncFollowsLastChoice ==
  [][(Import(Loop) \/ Move(Loop)) =>
       \A s \in Spools : server'[s] # server[s] => server'[s].location = choice[s]]_vars

\* "For an existing spool, its current location appears": a scan while online
\* shows the location this scanner has stored the spool at.
ScanShowsStoredLocation ==
  \A s \in Spools :
    (/\ ~UseOfflineInventory /\ inventory # None /\ ~busy
     /\ choice[s] # None /\ server[s] = [location |-> choice[s], archived |-> FALSE])
      => ResolvedLocation(s) = choice[s]

=============================================================================
