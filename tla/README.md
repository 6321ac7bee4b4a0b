# Verification of FilaScan

FilaScan is the firmware of an ESP32-S3 scanner for filament spools. It reads the RFID tag of a
spool, shows what the tag says, and stores the spool at a location of a FilaMan server, or keeps
that choice on the SD card until the server can be reached. This directory models the parts of it
whose behaviour depends on order, failure and time. TLC checks the models on small instances;
TLAPS proves the theorems for every value of the constants. All paths below are relative to the
root of the repository.

1. [Inventory](#1-inventory): the parts of the system and how they interact
2. [Modules](#2-modules): which module models which part, and how it corresponds to the code
3. [Runs](#3-runs): what TLC checks, the bounds, the fairness
4. [Disagreements](#4-disagreements): where code and documentation part
5. [Proofs](#5-proofs): what is proved, from what, and along which argument
6. [Limits](#6-limits): what is only model-checked and what is not modelled
7. [Plan](#7-plan)

To repeat a check: `tlc -config FilaManSafety.cfg MCFilaMan` (and likewise for the other pairs of
section 3), and `tlapm FilaManProofs.tla` (and the other `*Proofs.tla`).

## 1. Inventory

The firmware has one cooperative executor. A task runs undisturbed from one `await` to the next,
so there are no data races, but all that is read before an `await` may be stale after it. State is
shared through `Rc<RefCell<_>>` and `Cell`. What a component writes is written through the file
store of the framework, which serializes the writers.

| Component | Code | State | Operations | Interacts with |
| --- | --- | --- | --- | --- |
| FilaMan service | `core/src/filaman.rs`, `core/src/filaman/offline.rs` | busy flag, heartbeat flags, settings, offline queue, inventory, both files | heartbeat task, replay of the queue, refresh, `prepare_spool`, `store_spool_at`, `archive_spool`, test, registration, boot | called by the controller and the web page; FilaMan server over HTTP; SD card |
| Bambu catalog service | `core/src/catalog.rs` | catalog, status, `updating`, settings, staging and cache file | update (manual and every 24 h), settings, lookup, boot | web page, controller; HTTP; SD card |
| Reader controller and screen | `core/src/app.rs`, `core/ui/appwindow.slint` | the spool shown, what the buttons act on, dialogs, `filaman_busy` | reader events, four buttons, five `finish_*` results | scan loop (events), FilaMan and catalog services (spawned tasks), image loader |
| PN5180 scan loop | `shared/src/pn5180_reader.rs` | latches, pending payload, timers, RF configuration | one endless loop | PN5180 driver; `ReaderEvent` to the observers |
| PN532 scan loop | `shared/src/pn532_reader.rs`, `pn532_ext.rs`, `nfc.rs` | a latch, a pending payload, the time the latched tag was seen | one endless loop | PN532 chip; the same events |
| PN5180 driver | `shared/src/pn5180.rs` | chip registers | initialize, activate, read, authenticate | SPI device |
| Reader selection | `shared/src/reader.rs` | none | probe, start the loop that fits | both loops |
| OpenPrintTag decoding | `formats/src/openprinttag.rs` | none kept | walks over TLVs, NDEF records and CBOR maps of an arbitrary memory | scan loop, controller |
| Bambu payload decoding | `core/src/bambu_spool.rs`, `spool.rs` | none | pure functions | scan loop, controller |
| OpenPrintTag catalog, image loader | `core/src/openprinttag_catalog.rs`, `image_loader.rs` | none kept but cached images | one download each | controller, which shows what comes back |
| Wi-Fi | `core/src/wifi.rs` | station or setup access point | boot window of 60 s, fallback, reconnection | framework; the services see failing requests |
| Firmware page | `core/src/app.rs`, `core/ui/appwindow.slint` | four flags of the screen | check, install, the four results | OTA task of the framework, which the web page uses too |
| Web application | `core/src/web_app.rs`, `static/` | none kept | handlers that call the services | FilaMan and catalog services |
| Boot, diagnostics, localization | `core/src/main.rs`, `settings.rs`, `diagnostics.rs`, `localization.rs` | language, ring of log lines | load, log | all |
| Framework | external crate `esp-hal-app-framework` | files, network, OTA | file store, executor, HTTP | all |

What is hard in each of the parts that keep state, and what makes them correct:

* **FilaMan service.** Several tasks share a busy flag that has no owner. The replay clones the
  queue, awaits many requests, and writes back what remains of the clone. A request may be
  executed by the server although its answer is lost. Power may fail between a request, the write
  of the card and the commit to RAM. Correct means: one request at a time; a choice that was
  reported as queued is neither lost nor duplicated until the server acknowledges it; the card and
  the RAM agree; the flag is always released, the queue drains, the inventory catches up.
* **Catalog service.** Two files are rewritten in turn so that one survives a power loss. Correct
  means: the cache never falls back to an older catalog, *Ready* is true after a reboot too, and an
  update that fails does not block the next.
* **Reader controller.** Results come back for a spool that is no longer shown. Correct means: the
  screen never waits for nothing, and what a button does concerns the spool on the screen.
* **Scan loops.** Polls are missed, garbled or answered by another tag. Correct means: every
  placement is announced, ended once and removed before the next, a removal is confirmed by
  silence, and the loop recovers when the chip does; a payload is that of one tag.
* **OpenPrintTag decoding.** The memory of a tag is arbitrary, and a slice out of range would panic.
  Correct means: every memory is decoded or refused, no slice leaves its buffer, the meta map and the
  regions are disjoint, and a tag that gives no sizes is not refused for those the decoder chooses.
* **Wi-Fi and boot.** A connection is made while the boot window ends; a link comes up after it was
  given up. Correct means: the setup access point is for a device that could not connect at boot and
  never follows a loss; the station comes back when the network does.
* **Firmware page.** Results of checks and installations of two pages arrive in any order. Correct
  means: a confirmation always installs, and what is disabled waits for an answer.

`PROJECT.json` lists the hazards of this code one by one, at their lines, with the properties that
would catch each of them.

## 2. Modules

| Module | Models | Composed of |
| --- | --- | --- |
| `FilaMan.tla` | the FilaMan service with its callers, the server and the card | `INSTANCE Outbox` |
| `Outbox.tla` | abstract: a durable outbox of location choices | |
| `MCFilaMan.tla` | symmetry of `FilaMan` for TLC | `FilaMan` |
| `Catalog.tla` | the Bambu catalog service with its files | |
| `ReaderController.tla` | the controller with the buttons and the spawned tasks | |
| `SpoolScreen.tla` | the product image beside the controller | extends `ReaderController` |
| `Pn5180Reader.tla` | the scan loop of the PN5180 with the RF field | `INSTANCE ScanProtocol` |
| `ScanProtocol.tla` | abstract: the order of events the observers rely on | |
| `Pn532Reader.tla` | the scan loop of the PN532 | |
| `RfidReader.tla` | the reader task: the probe and the loop of one chip | extends `Pn5180Reader`, `INSTANCE Pn532Reader` |
| `OpenPrintTag.tla` | the decoder of OpenPrintTag memories | |
| `Wifi.tla` | the Wi-Fi task with the network and the wait of `main` | |
| `FirmwarePage.tla` | the firmware update page with the OTA task | |
| `Device.tla` | Wi-Fi, firmware page and restarts of the device | extends `Wifi`, `INSTANCE FirmwarePage` |
| `*Proofs.tla` | theorems about the module of that name; `ReaderControllerProofs` also about `SpoolScreen`, `RfidReaderProofs` about both loops | that module, `TLAPS` |

Every step of a model is what the code does between two awaits, and each action carries the name
of its function or branch. A definition whose name has a suffix after an underscore
(`Release_keepsBusy`) is not part of the specification: it is the definition before it
as a plausible bug would have it, and shows that the property aimed at it can fail.

### FilaMan

| State | Code |
| --- | --- |
| `busy`, `heartbeat_succeeded`, `heartbeat_failure_active`, `inventory_refresh_ticks` | the cells of `FilaManService` |
| `queue`, `inventory` | `OfflineState` |
| `sync`, `fetched`, `previous_ip` | locals of `synchronize_offline_queue`, `refresh_inventory` and the heartbeat task that live across an await |
| `pc`, `job`, `prepared` | where each task is and what its call was given |
| `sdQueue`, `sdInventory` | the two files |
| `server` | the FilaMan server: location of each spool, `Nowhere` for a spool without one, and whether it is archived |
| `owed`, `choice` | history variables: what was promised as queued and not acknowledged, what was chosen last |

`Loop` is the task of `start_heartbeat`; its passes are `ObserveAddress`, `StartHeartbeat`,
`HeartbeatSucceeds`, `HeartbeatFails`, then `RunOnlineMaintenance` with the replay (`Find`,
`Import`, `Move`, `QueueWriteSucceeds`) and the refresh (`RefreshInventory`,
`InventoryWriteSucceeds`). A client is a task spawned by the screen or the web page:
`CallStore`, `CallPrepare`, `CallArchive` and `CallWeb` are the entry up to the first await,
`ProceedStore`, `ProceedPrepare`, `RemoteEnds` what follows. A request is one step with every
outcome: done and answered, done with the answer lost, not done, refused. `Crash` is a power loss
followed by `load_from_sd`; a write in progress may have happened or not, and with `TornWrites`
may leave a file that does not parse.

`Outbox` has three steps: a choice is accepted, the server acknowledges one, acknowledged ones are
cleared. It has no crash. `ImplementsOutbox` maps the outbox to the *file*, so it says that the
file behaves like a store that no power loss or failing write touches.

### Catalog

A catalog is the number of its publication; 0 is a file that is missing or does not parse.
`RequestUpdate`, `StartDownload`, `Download`, `WriteStaging`, `WriteCatalog` follow `update`, with
`DownloadFails` and `WriteFails` for its error paths. `SetSettings`, `Serialize`, `SaveSettings` are
the save tasks. `CutOff` is a write that fails or is interrupted by a power loss: the file is old,
new, or does not parse. `interrupted` counts updates cut off since the last complete one.

### ReaderController

The variables have the names of the fields of `ReaderController` and of the `ReaderState` of the
user interface. `ReadBambu`, `ReadOpenPrintTag` and `ReadFails` are the events of the scan loop as
the observer handles them, `OpenLocationManagement`, `SelectLocation`, `ArchiveSpool` and
`CancelImport` the buttons, and `FinishCatalogLoad`, `FinishFilamanPreparation`,
`FinishSpoolStorage`, `FinishSpoolArchive` the results; `StalePreparation` is the early return of
the second. A spawned task sits in a slot with the spool it was started for. `serving` stands for
the busy flag of the FilaMan service, so that two stores are not answered at once: what the service
itself does is in `FilaMan`, and what it may answer here is any answer of that call.

### Pn5180Reader and ScanProtocol

One iteration of the loop of `run` is one action per branch: `TypeVPresent`, `TypeVMissing` for a
latched NFC-V tag; `NoTarget`, `NoTargetNoTypeV`, `FoundTypeV` for a poll that finds no ISO-A tag;
`ActivationResets`, `ActivationGarbled` for errors; `TargetIgnored`, `TargetUnsupported`,
`TargetReads` for an answer. `PayloadRead`, `PayloadRetried`, `PayloadGivenUp` are an attempt at the
Bambu payload, `ReadTypeVBlock`, `TypeVBlockFails` the reads of `try_read_openprinttag`. Every call
of the driver may succeed, find nothing, be garbled or fail. Time is counted in polls; the pause at
the end of an iteration lasts an arbitrary number of them, so every timer may expire early or late
with respect to the others. `silent` is a history variable: the time since anything answered.

`ScanProtocol` is what `RfidReaderObserver` may rely on: *Reading*, then retries, then one of
*TagRead*, *ReadFailed* or *UnsupportedTag*, then *TagRemoved* before the next *Reading*.

### Pn532Reader and RfidReader

An iteration of `run` asks the chip for one ISO-A tag. `NoTarget` is a failed or timed-out exchange,
`Unusable` an answer without a target, `StillThere` and `PlacedAgain` the two sides of the 500 ms
(`Fresh`) within which a latched tag counts as never gone, `Unsupported` and `Attempt` a tag that is
not latched. `PayloadRead`, `PayloadRetried` and `PayloadGivenUp` are an attempt of
`read_bambulab_payload_into`, which reads only the blocks that are missing. `announced` and `misses`
are history variables: the tag of the last *Reading*, and the failed exchanges in a row.

`RfidReader` is `reader_task`: `Probe` chooses the chip from the configuration and from the answer
of the PN5180, `RunPn5180` and `RunPn532` are the loops.

### SpoolScreen

`image` is the spool the picture on the screen belongs to, `loads` the image loads under way.
`ShowBambu` and `ShowOpenPrintTag` are the reads of the controller with what `show_spool` does to the
picture; `EndImageLoad` and `EndCatalogLoad` put a picture on the screen, or drop it when another
product is shown. Every other step of the controller leaves the picture alone.

### OpenPrintTag

An iteration of a loop of the decoder is a step; what it finds at a position is chosen when it looks,
so that the bytes of the memory need not be kept. `at` is the loop (`tlv`, `record`, `head`,
`entries`), `purpose` what it is run for, `cursor` and `length` its position and the size of its
slice. A slice is a pair relative to the slice it is cut from; `meta_end` is where the meta map ended
(the local of that name), kept as long as the regions behind it. `MainOffset` to `Overlap` are the
`let`s of `decode_regions`. `CheckedAdd` is the `checked_add` of 32-bit sizes, and the values of the
meta map are cut to 32 bits as `as usize` does.

### Wifi, FirmwarePage and Device

`at` in `Wifi` is the await at which `connection_task_with_boot_fallback` or
`maintain_station_connection` waits. `mode`, `report` and `web` are what it told the controller, the
framework and the web server. `requested`, `link`, `address` and `reachable` are external: a link may
come up after the task has given up waiting, and with the link the address goes. `Tick` is the time
since boot; no other wait has a length.

The variables of `FirmwarePage` are the flags of the screen and the number of requests the framework
has to answer: version checks, installations asked for, installations running. `Check` is
`check_for_firmware_update`, `Confirm` is `install_firmware_update`, and `VersionAvailable`,
`InstallStarts`, `Fails`, `InstallCompletes` are the callbacks. The guards are the `enabled`
conditions of the buttons.

`Device` runs both and has one action of its own, `DeviceRestart`, which sets both back.

## 3. Runs

Passing runs. A type invariant is checked in each but `filaman_liveness` and `tag` (in `readers`,
`ReaderTypeOK` is that of both loops); in `tag`, `SlicesInBounds` bounds everything a step computes with.

| Run | Instance | Shows |
| --- | --- | --- |
| `filaman_safety` | 2 spools, 2 locations, 2 clients, 3 calls, 1 failing write, 1 power loss, symmetry; 2.3 million states | `OneRequestAtATime`: the busy flag is a lock. `SyncOnlyOnline`. `SyncSnapshotCurrent`: what the replay writes back is computed from a snapshot that is still the queue. `QueueWellFormed`: one operation per spool, in sequence. `OwedIsQueued`: nothing promised is lost. `CardHoldsCommittedState`. `ImplementsOutbox` |
| `filaman_liveness` | 2 spools of which the server refuses one, 1 location, 1 client, 2 calls, 1 failing write that may tear its file, 1 move by somebody else; 771,000 states | `BusyIsReleased`, `QueueDrains`, `InventoryConverges`. `OnlyPowerLossForgets`: a failing write that tears the queue file, and the same choice made again and skipped as unchanged, forget nothing while the power stays |
| `catalog` | 2 publications, 2 calls, 2 failing downloads or writes, 2 power losses, 1 save task | `ReadyIsCached`, `NeverGoesBack`, `CatalogConverges` |
| `controller` (`SpoolScreen`) | a Bambu and an OpenPrintTag spool, 3 running tasks, 3 reads; 1.1 million states | `BusyHasTask`, `BusyEnds`: the screen never waits for nothing. `ConfirmsRegisteredSpool`, `ArchiveIsConfirmed`: only what was confirmed is archived. `PendingHasNoId`, `ContextIsShownSpool`. `ImageIsOfShownSpool`: no image of another spool, no wait for an image that nothing brings |
| `readers` (`RfidReader`) | 2 MIFARE Classic tags, an unsupported ISO-A tag, an NFC-V tag, 3 payload and 2 memory blocks, 2 failing initializations | `ReaderTypeOK` of both loops. PN5180: `LatchesExclusive`, `BlocksOfPendingTag`, `ImplementsScanProtocol`, `RemovalConfirmed`, `ReaderRecovers`. PN532: `Pn532BlocksOfAnnouncedTag`, `Pn532ReportsAnnounced`, `Pn532ForgetsSilentTags` |
| `device` (`Device`) | a boot window of 2 ticks, 1 restart, 2 requests to the OTA task; 327,000 states | `SetupOnlyAtBoot`: no access point after a loss, never two web applications. `StationComesBack`. `PageConsistent`: a confirmation installs, what is disabled waits for an answer |
| `tag` (`OpenPrintTag`) | a memory of 28 bytes and one too short, 32 as the size that overflows; 289,000 states | `SlicesInBounds`: nothing that would panic. `RegionsConsistent`: the meta map and the regions share no byte, and defaults are not refused. `Terminates` |

The runs of section 4 end in a counterexample.

**Bounds.** The constants whose names begin with `Max` bound a run and appear only in guards.

* *FilaMan.* Three calls of two clients give a store that replaces a pending one, a store for
  another spool behind it, and a call during the replay; two spools give an order in the queue and
  a pass that stops between two operations; two locations tell an old choice from a new one. One
  fault and one power loss fall at every point of such a run. A second spool that is refused is
  what `QueueDrains` needs. `RefreshTicks` is 2 instead of 15: its value only decides how often the
  refresh comes due.
* *Catalog.* Two publications tell an older catalog from a newer. Two power losses are what it
  takes to leave the guarantee of `NeverGoesBack`; its hypothesis is therefore met and exceeded.
* *Controller.* Three reads of two spools: a result may be late for the spool shown, and for a
  spool that is shown again. Three slots hold a lookup, a catalog load and a store at one time.
  The slots are alike, and a new task takes the first free one (`TakesFirstSlot`). An image of a spool
  is loaded once at a time: two loads of the same product bring the same image.
* *PN5180.* `Grace` and `Recovery` are the 750 ms and 2 s of the code in polls of 150 ms. Three
  blocks make an attempt that progresses, one that stalls, and one that completes. The attempts (5,
  2, 3) are those of the code.
* *PN532.* `Fresh` is 2: a latched tag is seen at once, in time, or too late. Two MIFARE Classic tags
  and another one replace each other in the middle of a read. The attempts (5) are those of the code.
* *Device.* A window of 2 ticks has a beginning, an end and a time after it, and a tick may fall
  between any two steps of an attempt. One restart from every state; the second boot starts with
  whatever the network is. Two requests are a check and an installation that overtake each other.
* *Tag.* The sizes of fields are chosen around the boundaries: empty, exactly fitting, one too large
  for the slice, and so large that the sum exceeds `UsizeMax` and, cut off, would fit. `MaxSection` is
  small enough for a map to exceed it. 24 entries need a longer head, and no memory holds so many; longer
  heads also announce fewer. Two entries of the meta map fix any two of the four fields.

**Deadlock** is checked in the runs of `FilaMan` and `Catalog`. It is not checked for the
controller, where reads are bounded and a quiet screen may stay quiet, nor for the readers, whose
task ends when the chip cannot be initialized, the device, where nothing has to happen in setup mode,
and the decoder, which ends.

**Fairness.**

* *FilaMan.* Weak fairness of the heartbeat task and of each started call: the executor runs every
  task that is ready, and a request comes back. For the heartbeat the code enforces this with a
  timeout; for the other requests it does not, and a request that never ends would hold the busy
  flag (listed as a hazard). Nobody has to call, the network and the power supply owe nothing.
  `QueueDrains` and `InventoryConverges` assume that the connection stays from some time on
  (`Connected`).
* *Catalog.* The periodic timer ticks again and again, and a started update or save goes on.
  `CatalogConverges` assumes that automatic updates stay on and the connection stays.
* *Controller.* Every call of a service returns (`TaskEnds`). No button has to be pressed, and an
  image load need not end.
* *PN5180.* The loop waits for nothing but the clock and the chip, whose calls end in a timeout: weak
  fairness of `Next`. The failures of initializations are finite in number. `ReaderRecovers` leaves
  out one behaviour: while the field is unconfigured, empty and garbled polls that alternate
  for good restart each other's timer.
* *Device.* The Wi-Fi task and `main` run, time passes, and every call of the Wi-Fi controller ends;
  the reconnection calls `connect_async` without a timeout, so that this is an assumption about the
  driver. A network that stays in reach brings up a requested link and assigns an address. It need
  not be in reach; `StationComesBack` says what follows when it is from some time on.
* *Tag.* The decoder waits for nothing: weak fairness of `Next`.

## 4. Disagreements

Each of these runs checks what a document or a comment of the repository says and ends in a
counterexample.

* `filaman_replay`: a spool is stored at A while offline, then at B while online; the replay of the
  queue moves it back to A. `core/src/filaman.rs:728` leaves the older operation in place, README.md:221
  says that a choice "creates or replaces one pending operation for that spool".
* `filaman_stale_scan`: right after an online store, a scan shows the location of the last refresh,
  as the inventory in RAM is not updated by the store (`core/src/filaman.rs:650`, README.md:165).
* `filaman_torn`: `persist_queue` rewrites the file in place, and `load_from_sd` ignores a file that
  does not parse. If a power loss can tear the file, all queued operations are lost
  (`core/src/filaman.rs:792`, README.md:226). Without torn writes `OwedIsQueued` holds.
* `controller_stale_store`: the result of a store for the previous spool changes the context of the
  spool shown, so that the next choice moves the other spool (`core/src/app.rs:498`). The two other
  results check for this. `ContextIsShownSpool` says that this is the only way.
* `pn5180_removal`: an NFC-V tag whose answers are garbled for 750 ms is reported as removed
  (`shared/src/pn5180_reader.rs:74`), against README.md:297. For ISO-A tags `RemovalConfirmed` holds.

## 5. Proofs

Assumptions: those on the constants of each module (`ConstantsAssumption`, `NoneAssumption`,
`SlotsAssumption`, `FreshAssumption`, `WifiAssumption`, `RequestsAssumption`, `SizesAssumption`), which
TLC evaluates in the runs. `NoneAssumption` says that a file that does not parse is no queue. Four
theorems suppose `~TornWrites`, marked * below. Each proof has an inductive invariant, proved initial
and preserved with one step per action; the theorems follow from it by temporal logic. Spools,
locations, clients, tags, tasks, blocks, durations, sizes and all bounds are arbitrary.

| Module | Theorem | Property |
| --- | --- | --- |
| `FilaManProofs` | `TypeCorrect`, `RequestsExclusive`, `MaintenanceOnlyOnline`, `QueueOrdered`, `SnapshotCurrent`, `OwedStaysQueued`*, `CommittedIsOnCard`*, `OutboxImplemented`* | `TypeOK`, `OneRequestAtATime`, `SyncOnlyOnline`, `QueueWellFormed`, `SyncSnapshotCurrent`, `OwedIsQueued`, `CardHoldsCommittedState`, `ImplementsOutbox` |
| | `ForgottenByPowerLossOnly` | `OnlyPowerLossForgets` |
| | `CardIsCurrentOrTorn`, `ReplayIsOfTheQueue`, `NumbersOnlyGrow`*, `OwnerProgress` | `CardNeverStale`, `ReplayFollowsQueue`, `NumbersNotReused`, `OwnerComesCloser`, stated in the module |
| `CatalogProofs` | `TypeCorrect`, `ReadyImpliesCached`, `CatalogMovesForward` | `TypeOK`, `ReadyIsCached`, `NeverGoesBack` |
| `ReaderControllerProofs` | `TypeCorrect`, `WaitsForATask`, `PendingHasNoIdAlways`, `ContextCurrent`, `ConfirmationCurrent`, `ArchiveConfirmed`, `ImageCurrent`, `ScreenIsController` | `TypeOK`, `BusyHasTask`, `PendingHasNoId`, `ContextIsShownSpool`, `ConfirmsRegisteredSpool`, `ArchiveIsConfirmed`, `ImageIsOfShownSpool`, and `SpoolScreen` implements `ReaderController` |
| `Pn5180ReaderProofs` | `TypeCorrect`, `OneLatch`, `OneTagsBlocks`, `RemovalsConfirmed`, `ImplementsProtocol` | `TypeOK` of the loop, `LatchesExclusive`, `BlocksOfPendingTag`, `RemovalConfirmed`, `ImplementsScanProtocol` |
| `RfidReaderProofs` | `ReaderTypeCorrect`, `PayloadOfOneTag`, `SilentTagsForgotten`, `ReportsAreAnnounced` | `ReaderTypeOK`, `Pn532BlocksOfAnnouncedTag`, `Pn532ForgetsSilentTags`, `Pn532ReportsAnnounced` |
| `OpenPrintTagProofs` | `NoSliceOutOfBounds`, `RegionsApart`, `DecoderAdvances` | `SlicesInBounds`, `RegionsConsistent`, and `WalksForward` of the module |
| `WifiProofs` | `TypeCorrect`, `SetupAtBootOnly` | `TypeOK`, `SetupOnlyAtBoot` |
| `DeviceProofs` | `PageAlwaysConsistent` | `PageConsistent` |

* *FilaMan.* `IInv == TypeOK /\ Control /\ OneRequestAtATime /\ SyncOnlyOnline`. The types alone do not
  say what a task has at hand. `Control` does: which control points belong to the heartbeat task and
  which to a client, that only a store synchronizes, that a task about to write has prepared a queue,
  that the index of the replay is in range. `SyncOnlyOnline` needs the lock: a store is what reports
  the server unavailable, and while the heartbeat task holds the flag no store runs.
* *The queue.* `QueueInv`, on top of `IInv`, relates four things that a step changes one at a time: the
  queue is `WellFormed`; each file holds what RAM holds or is torn (`CardHolds`); what a task holds of
  the queue while it owns the flag is current (`WorkInHand`); and without torn files what is owed is
  queued. `WorkInHand` is where the lock does its work: between the snapshot of a replay and its
  commit, and between `prepare_storage` and the commit of a store, nobody else replaces the queue.
  `Keeps(r, ops, n, due)` says what a replay has kept after `n` operations of its snapshot `ops`: only
  operations of those `n`, in their order, and all of them that are still due. One case split over `Next`
  (`NextStep`) shows that a step does one of five things to the queue and to what is owed
  (`Committed`): nothing, acknowledge, accept, drop what is not owed, or lose a torn file. Order,
  `OwedIsQueued`, `ImplementsOutbox` and `NumbersNotReused` follow from `Committed` and the lemmas about
  `PrepareStorage` and `Keeps`, without a look at the actions. The hypothesis `~TornWrites` is needed:
  run `filaman_torn` refutes `OwedIsQueued` with torn files. What holds there all the same is
  `CardNeverStale`, a reboot finds the current queue or none, and `OnlyPowerLossForgets`, which run
  `filaman_liveness` checks with failing writes that tear files.
  `ReplayFollowsQueue` is what holds instead of `SyncFollowsLastChoice`, which run `filaman_replay`
  refutes: the replay sends what is queued now.
* *The busy flag.* `OwnerComesCloser` is a variant for the task that owns it: the phase of its call, the
  operations behind the one in work, the requests left for that one. Each step of the owner lowers
  it and no step of another task touches it, for queues of any length. With the fairness of the tasks
  that is why `BusyIsReleased` holds; the conclusion itself stays with TLC.
* *Catalog.* `Progress` says what the update task has done at each control point and that `updating`
  is set exactly while it runs; `Bounded` that no catalog is newer than the latest publication;
  `FilesKeepUp` that both files agree after a complete update and that, as long as at most one was cut
  off, what a reboot finds is no older than the catalog in RAM. The last gives `NeverGoesBack` across
  a reboot.
* *Controller.* The state invariants need one more conjunct, `StoresMatch`: unless a read has overtaken
  one, every running store is for the spool shown, and so is the id it was given. Without it
  `ContextIsShownSpool` is not inductive, since the result of a store sets the context.
  `ArchiveConfirmed` follows from `ConfirmsRegisteredSpool` at the step that spawns the task.
* *PN5180.* `LatchesExclusive` and `Phases` say which latches can be set at each control point and
  with each configuration of the field. `SilentSince` relates the timer of the code to the history:
  while a placement may be removed, `missing_since` is at most the time of silence, which is
  `RemovalConfirmed`. `EventTells` relates the latches to the last event, which is the refinement
  mapping of `ImplementsProtocol`: each step is a step of `ScanProtocol` or leaves `event` alone.
* *Image.* `ImageIsOfShownSpool` is inductive beside the types: a new task takes a free slot, so that
  only its own result ends the lookup the screen waits for (`LookupGoesOn`). `ScreenStep` maps every
  step of `SpoolScreen` to one of `ReaderController`, so that the theorems above hold there too.
* *PN532.* The reader task keeps the invariant of either loop (`ReaderInv`). `Control532` says what each
  control point has at hand: a tag that is being read is the pending one and not latched. `Blocks532`
  says the kept blocks are the first ones of the pending tag; that their number is then the next block
  to read needs the cardinality of a product (`BlocksCount`). `Told532` relates the last event to the
  latch: a tag that was told to be done is latched, which is why nothing more is told of it.
* *OpenPrintTag.* `Walked` says that the cursor of every loop is in its slice and the slice in the one
  around it, `Nested` that message, payload and regions lie in each other, and the regions behind
  `meta_end`. The lemmas about
  `CheckedAdd` say that a sum that overflowed fits nowhere. `DefaultsFit` is the arithmetic of
  `decode_regions`: sizes that go up to the next region never overlap. `WalksForward` lowers the walks
  to come (`Stage`) or what is left of the current one (`Left`); a smart poster is walked on top of
  the records around it, so these count twice. Both are bounded by the memory (`VariantBounded`).
* *Wi-Fi and firmware page.* `Phases` ties mode, report and web application to the place in the task;
  `SetupOnlyAtBoot` needs that a task in setup mode is still booting, which a loss never sets back.
  `PageInv` adds to `PageConsistent` that the requests under way never exceed their bound together.

## 6. Limits

Only model-checked: the liveness properties `BusyIsReleased`, `QueueDrains`, `InventoryConverges`,
`CatalogConverges`, `BusyEnds`, `ReaderRecovers`, `StationComesBack` and `Terminates`. Liveness under
fairness and ENABLED are beyond the prover, as are induction over data and RECURSIVE operators; no
module here uses the latter. For `BusyIsReleased` and `Terminates` the variant they rest on is proved.
Every other property of a passing run is a theorem, `ImplementsOutbox` and the two invariants of the
card under `~TornWrites`, as in the runs that check them.

What the models leave out on purpose:

* Texts, layout, logging, the pixels of images and their cache file, and the contents of payloads and
  catalogs. No property is about them.
* Time is not measured in `FilaMan`: whenever a deadline decides, both sides are possible.
* An SD card is present in `FilaMan`. Without one no token can be stored, and the service only tests
  connections. In `Catalog` the card may be absent.
* The executor, file store and HTTP client belong to a crate outside the repository and are
  modelled from their use: one write at a time. In `Catalog` a write that fails may leave any of
  the old file, the new one, or one that does not parse; in `FilaMan` it leaves the old one, and with
  `TornWrites` possibly one that does not parse.
* `NeverGoesBack` is limited to one cut-off update in a row. Two in a row can tear both
  files, as the staging file is rewritten first even when it is the only one that parses.
* The save tasks of the FilaMan settings are not modelled; a boot finds any settings. A request clones
  the settings when it starts (`filaman.rs:1013`), and in the model the token counts when it is answered: a
  token dropped while a request runs is taken to be dropped after the answer, which nothing tells apart,
  as nothing reads the settings in between.
* The URL of the catalog is a setting that `Catalog` leaves out: what a download brings is the
  publication that is current, or a failure, whatever the URL.
* `Wifi` takes the framework's `wait_for_wifi`, on which `main` waits, to return for a connection of the
  station and not for the `report_wifi` of the setup mode.
* The PN532 loop does not implement `ScanProtocol`, and no run says it does: another tag is announced
  without a *TagRemoved* in between. Its first failed exchange takes only the latch when a pending tag
  is there as well (`completed_uid.take().is_some() || pending_uid.take().is_some()`), so that it
  tells *TagRemoved* and keeps the pending tag; `Pn532ForgetsSilentTags` therefore asks for two.
* In `FirmwarePage` a failed check clears `installing` although an installation may be asked for or
  running (`on_ota_failed` does not know what failed); `PageConsistent` speaks of the other direction.
  That the page opens only while no location is chosen is left out, as it depends on the controller.
* The OTA task, the Wi-Fi driver and the network stack belong to crates outside the repository: they
  answer in any order and with any outcome.
* `OpenPrintTag` ends where values are decoded: kinds of values, UUIDs and names are data, and a value
  that does not decode is `Fail`.

Not modelled: decoding of Bambu payloads (pure and covered by unit tests); diagnostics, localization,
web pages, the captive portal, build scripts, website (nothing that a model could get wrong); the
register sequences of the two reader chips (device I/O, of which the loops see the outcomes modelled).

## 7. Plan

Done, in this order: the FilaMan service with its outbox, since a lost choice is the worst this
program can do; the catalog service; the controller; the PN5180 loop with the event protocol; the
PN532 loop and the choice between the two; Wi-Fi, firmware page and restarts; the OpenPrintTag
decoder; the product image. For each, the type invariant and the safety properties are proved, and the
refinements of `Outbox` and `ScanProtocol`.

Next, extending the models:

1. The settings file of `FilaMan` and its save tasks: a registration that ends overwrites settings
   that were saved from the web page meanwhile.
2. A composition of `ReaderController` and `FilaMan`, so that answers are those of the service.
3. The cache file of images: a file that was cut off is read back only if it decodes.

Then, proving more: the variants behind `BusyEnds` of the catalog service and of the other loops, and
what the extensions above bring.
