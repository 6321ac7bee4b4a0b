--------------------------- MODULE CatalogProofs ---------------------------
(***************************************************************************)
(* Theorems about the catalog service, for any number of publications,     *)
(* failing writes and power losses.                                        *)
(***************************************************************************)
EXTENDS Catalog, TLAPS

Boot == LoadFromSd(staging, cached, legacy)

\* The update task: its control points imply what it has done so far.
Progress ==
  /\ updating <=> pc # "idle"
  /\ pc \in {"download", "stagingWrite", "catalogWrite"} => status = "downloading"
  /\ pc \in {"stagingWrite", "catalogWrite"} =>
       sdcard /\ downloaded # 0 /\ downloaded >= catalog
  /\ pc = "catalogWrite" => staging = downloaded
  /\ ~sdcard => staging = 0 /\ cached = 0 /\ legacy = 0

\* Nothing is newer than what was published.
Bounded ==
  /\ catalog <= published
  /\ downloaded <= published
  /\ staging <= published /\ cached <= published /\ legacy <= published

\* With every update complete the two files agree; with one cut off, what a
\* reboot finds is still no older than the catalog in use.
FilesKeepUp ==
  sdcard =>
    /\ interrupted = 0 /\ pc # "catalogWrite" => staging = cached /\ Boot = catalog
    /\ interrupted <= 1 => Boot >= catalog

IInv == TypeOK /\ Progress /\ Bounded /\ FilesKeepUp /\ ReadyIsCached

\* An update cut off at a write, the first since the last complete one, leaves a
\* card from which a reboot loads the catalog in use or a later one.
LEMMA CutOffOnce ==
  ASSUME TypeOK, Progress, FilesKeepUp, CutOff, legacy' = legacy, interrupted' <= 1
  PROVE  Boot' >= catalog
<1>1. sdcard /\ interrupted = 0
  BY DEF CutOff, TypeOK, Progress
<1>2. CASE pc = "stagingWrite"
  <2>1. staging = cached /\ Boot = catalog
    BY <1>1, <1>2 DEF FilesKeepUp
  <2>2. staging' \in {staging, 0, downloaded} /\ cached' = cached
    BY <1>2 DEF CutOff, Interrupted
  <2>3. downloaded # 0 /\ downloaded >= catalog
    BY <1>2 DEF Progress
  <2> QED
    BY <2>1, <2>2, <2>3 DEF Boot, LoadFromSd, TypeOK, Publications
<1>3. CASE pc = "catalogWrite"
  <2>1. staging' = downloaded /\ downloaded # 0 /\ downloaded >= catalog
    BY <1>3 DEF CutOff, Progress
  <2> QED
    BY <2>1 DEF Boot, LoadFromSd
<1> QED
  BY <1>2, <1>3 DEF CutOff

\* A cut-off write keeps the types of the two files.
LEMMA CutOffTypes ==
  ASSUME TypeOK, CutOff
  PROVE  /\ staging' \in Publications /\ cached' \in Publications
         /\ interrupted' \in Nat /\ interrupted' >= 1
<1>1. 0 \in Publications
  BY ConstantsAssumption DEF Publications
<1>2. {staging, cached, downloaded} \subseteq Publications /\ interrupted \in Nat
  BY DEF TypeOK
<1>3. staging' \in Publications /\ cached' \in Publications
  BY <1>1, <1>2 DEF CutOff, Interrupted
<1>4. interrupted' = interrupted + 1
  BY DEF CutOff
<1> QED
  BY <1>2, <1>3, <1>4

LEMMA CutOffBound ==
  ASSUME TypeOK, Progress, Bounded, CutOff
  PROVE  staging' <= published /\ cached' <= published /\ sdcard
<1>1. staging' \in {staging, 0, downloaded} /\ cached' \in {cached, 0, downloaded} /\ sdcard
  BY DEF CutOff, Interrupted, Progress
<1>2. published \in Nat
  BY ConstantsAssumption DEF TypeOK, Publications
<1> QED
  BY <1>1, <1>2 DEF Bounded

-----------------------------------------------------------------------------
(* The invariant *)

LEMMA InitIInv == Init => IInv
<1> SUFFICES ASSUME Init PROVE IInv
  OBVIOUS
<1>1. 0 \in Publications /\ published \in Nat /\ published \in Publications
  BY ConstantsAssumption DEF Init, Publications
<1>2. legacy \in Publications /\ legacy <= published
  BY <1>1, ConstantsAssumption DEF Init, Publications
<1>3. catalog = legacy
  BY DEF Init, LoadFromSd
<1>4. TypeOK
  BY <1>1, <1>2, <1>3 DEF Init, TypeOK, Automatic
<1>5. Progress /\ Bounded
  BY <1>1, <1>2, <1>3 DEF Init, Progress, Bounded
<1>6. FilesKeepUp /\ ReadyIsCached
  BY <1>1, <1>2, <1>3 DEF Init, FilesKeepUp, ReadyIsCached, Boot, LoadFromSd, Publications
<1> QED
  BY <1>4, <1>5, <1>6 DEF IInv

\* RequestUpdate only starts the task.
LEMMA RequestStep ==
  ASSUME IInv, RequestUpdate, UNCHANGED <<world, settings, files>>,
         spent' \in [requests : Nat, faults : Nat, crashes : Nat]
  PROVE  IInv'
<1>1. TypeOK'
  BY DEF IInv, TypeOK, RequestUpdate, world, settings, files
<1>2. Progress' /\ Bounded'
  BY DEF IInv, Progress, Bounded, RequestUpdate, world, settings, files
<1>3. FilesKeepUp' /\ ReadyIsCached'
  BY DEF IInv, Progress, FilesKeepUp, ReadyIsCached, Boot, LoadFromSd, RequestUpdate,
         world, settings, files
<1> QED
  BY <1>1, <1>2, <1>3 DEF IInv

LEMMA StepIInv == IInv /\ [Next]_vars => IInv'
<1> SUFFICES ASSUME IInv, [Next]_vars PROVE IInv'
  OBVIOUS
<1> USE DEF IInv
<1>a. 0 \in Publications /\ Publications \subseteq Nat
  BY ConstantsAssumption DEF Publications
<1>b. /\ CountRequest => spent' \in [requests : Nat, faults : Nat, crashes : Nat]
      /\ CountFault => spent' \in [requests : Nat, faults : Nat, crashes : Nat]
  BY DEF TypeOK, CountRequest, CountFault
<1>1. CASE PeriodicUpdate
  BY <1>1, RequestStep DEF PeriodicUpdate, TypeOK
<1>2. CASE ManualUpdate
  BY <1>2, <1>b, RequestStep DEF ManualUpdate
<1>3. CASE StartDownload
  <2>1. TypeOK'
    BY <1>3 DEF TypeOK, StartDownload, world, settings, files
  <2>2. Progress' /\ Bounded'
    BY <1>3 DEF Progress, Bounded, StartDownload, world, settings, files
  <2>3. FilesKeepUp' /\ ReadyIsCached'
    BY <1>3 DEF FilesKeepUp, ReadyIsCached, Boot, LoadFromSd, StartDownload, world,
                settings, files
  <2> QED
    BY <2>1, <2>2, <2>3
<1>4. CASE Download
  <2>1. TypeOK'
    BY <1>4, <1>a DEF TypeOK, Download, EndUpdate, world, settings, files
  <2>2. published \in Nat /\ published # 0 /\ published >= catalog
    BY <1>4, <1>a DEF TypeOK, Bounded, Download
  <2>4. ASSUME sdcard PROVE Progress' /\ Bounded'
    <3>1. downloaded' = published /\ pc' = "stagingWrite" /\ UNCHANGED <<updating, status, catalog>>
      BY <1>4, <2>4 DEF Download
    <3> QED
      BY <1>4, <2>2, <2>4, <3>1 DEF Progress, Bounded, Download, world, settings, files
  <2>5. ASSUME ~sdcard PROVE Progress' /\ Bounded'
    <3>1. catalog' = published /\ pc' = "idle" /\ updating' = FALSE /\ downloaded' = 0
      BY <1>4, <2>5 DEF Download, EndUpdate
    <3> QED
      BY <1>4, <2>2, <2>5, <3>1 DEF Progress, Bounded, Download, world, settings, files
  <2>3. FilesKeepUp' /\ ReadyIsCached'
    BY <1>4 DEF Progress, FilesKeepUp, ReadyIsCached, Boot, LoadFromSd, Download,
                EndUpdate, world, settings, files
  <2> QED
    BY <2>1, <2>3, <2>4, <2>5
<1>5. CASE DownloadFails
  <2>1. TypeOK'
    BY <1>5, <1>a, <1>b DEF TypeOK, DownloadFails, EndUpdate, world, settings, files
  <2>2. Progress' /\ Bounded'
    BY <1>5, <1>a DEF TypeOK, Progress, Bounded, DownloadFails, EndUpdate, world, settings, files
  <2>3. FilesKeepUp' /\ ReadyIsCached'
    BY <1>5 DEF FilesKeepUp, ReadyIsCached, Boot, LoadFromSd, DownloadFails, EndUpdate,
                world, settings, files
  <2> QED
    BY <2>1, <2>2, <2>3
<1>6. CASE WriteStaging
  <2>1. TypeOK'
    BY <1>6 DEF TypeOK, WriteStaging, world, settings
  <2>2. Progress' /\ Bounded'
    BY <1>6 DEF Progress, Bounded, WriteStaging, world, settings
  <2>3. FilesKeepUp' /\ ReadyIsCached'
    BY <1>6 DEF Progress, FilesKeepUp, ReadyIsCached, Boot, LoadFromSd, WriteStaging,
                world, settings
  <2> QED
    BY <2>1, <2>2, <2>3
<1>7. CASE WriteCatalog
  <2>1. TypeOK'
    BY <1>7, <1>a DEF TypeOK, WriteCatalog, EndUpdate, world, settings
  <2>2. Progress' /\ Bounded'
    BY <1>7, <1>a DEF TypeOK, Progress, Bounded, WriteCatalog, EndUpdate, world, settings
  <2>3. FilesKeepUp' /\ ReadyIsCached'
    BY <1>7, <1>a DEF TypeOK, Progress, FilesKeepUp, ReadyIsCached, Boot, LoadFromSd,
                      WriteCatalog, EndUpdate, world, settings
  <2> QED
    BY <2>1, <2>2, <2>3
<1>8. CASE WriteFails
  <2>1. TypeOK'
    BY <1>8, <1>a, <1>b, CutOffTypes DEF TypeOK, WriteFails, EndUpdate, world, settings
  <2>2. Progress' /\ Bounded'
    BY <1>8, <1>a, CutOffBound DEF TypeOK, Progress, Bounded, WriteFails, EndUpdate, world, settings
  <2>3. interrupted' >= 1 /\ interrupted' \in Nat
    BY <1>8, CutOffTypes DEF WriteFails
  <2>4. interrupted' <= 1 => Boot' >= catalog'
    BY <1>8, CutOffOnce DEF WriteFails
  <2>5. FilesKeepUp' /\ ReadyIsCached'
    BY <1>8, <2>3, <2>4 DEF FilesKeepUp, ReadyIsCached, WriteFails, EndUpdate
  <2> QED
    BY <2>1, <2>2, <2>5
<1>9. ASSUME NEW value \in Automatic, SetSettings(value)
      PROVE  IInv'
  <2>1. TypeOK'
    BY <1>9, <1>b DEF TypeOK, SetSettings, world, update, files
  <2>2. Progress' /\ Bounded' /\ FilesKeepUp' /\ ReadyIsCached'
    BY <1>9 DEF Progress, Bounded, FilesKeepUp, ReadyIsCached, Boot, LoadFromSd,
                SetSettings, world, update, files
  <2> QED
    BY <2>1, <2>2
<1>10. ASSUME NEW t \in Savers, SettingsStep(t)
       PROVE  IInv'
  <2>1. TypeOK'
    BY <1>10, <1>b DEF TypeOK, SettingsStep, Serialize, SaveSettings, SaveFails, Automatic,
                       world, update, files
  <2>2. Progress' /\ Bounded' /\ FilesKeepUp' /\ ReadyIsCached'
    BY <1>10 DEF Progress, Bounded, FilesKeepUp, ReadyIsCached, Boot, LoadFromSd,
                 SettingsStep, Serialize, SaveSettings, SaveFails, world, update, files
  <2> QED
    BY <2>1, <2>2
<1>11. CASE Publish
  <2>1. TypeOK'
    BY <1>11, ConstantsAssumption DEF TypeOK, Publish, Publications, update, settings, files
  <2>2. Progress' /\ FilesKeepUp' /\ ReadyIsCached'
    BY <1>11 DEF Progress, FilesKeepUp, ReadyIsCached, Boot, LoadFromSd, Publish, update,
                 settings, files
  <2>3. published \in Nat /\ {catalog, downloaded, staging, cached, legacy} \subseteq Nat
    BY <1>a DEF TypeOK
  <2>4. Bounded'
    BY <1>11, <2>3 DEF Bounded, Publish, update, files
  <2> QED
    BY <2>1, <2>2, <2>4
<1>12. CASE WifiChanges
  <2>1. TypeOK'
    BY <1>12 DEF TypeOK, WifiChanges, update, settings, files
  <2>2. Progress' /\ Bounded' /\ FilesKeepUp' /\ ReadyIsCached'
    BY <1>12 DEF Progress, Bounded, FilesKeepUp, ReadyIsCached, Boot, LoadFromSd,
                 WifiChanges, update, settings, files
  <2> QED
    BY <2>1, <2>2
<1>13. CASE Crash
  <2> DEFINE cut == pc \in {"stagingWrite", "catalogWrite"}
  <2>1. /\ catalog' = Boot' /\ downloaded' = 0 /\ updating' = FALSE /\ pc' = "idle"
        /\ status' = IF catalog' = 0 THEN "none" ELSE "ready"
        /\ wifi' = FALSE /\ UNCHANGED <<sdcard, published, legacy>>
    BY <1>13 DEF Crash, Boot
  <2>2. IF cut THEN CutOff ELSE UNCHANGED <<staging, cached, interrupted>>
    BY <1>13 DEF Crash
  <2>3. staging' \in Publications /\ cached' \in Publications /\ interrupted' \in Nat
    BY <2>2, CutOffTypes DEF TypeOK
  <2>4. legacy' \in Publications /\ catalog' \in Publications
    BY <2>1, <2>3 DEF TypeOK, Boot, LoadFromSd
  <2>5. sdSettings' \in Automatic \cup {None} /\ auto_update' \in Automatic
    BY <1>13 DEF Crash, TypeOK, LoadSettings, Automatic
  <2>6. spent' \in [requests : Nat, faults : Nat, crashes : Nat]
    BY <1>13 DEF Crash, TypeOK
  <2>7. saves' \in [Savers -> Automatic \cup {"spawned", None}]
    BY <1>13 DEF Crash
  <2>8. TypeOK'
    BY <1>a, <2>1, <2>3, <2>4, <2>5, <2>6, <2>7 DEF TypeOK
  <2>9. staging' <= published' /\ cached' <= published' /\ legacy' <= published'
    BY <2>1, <2>2, CutOffBound DEF Bounded
  <2>10. Bounded'
    BY <1>a, <2>1, <2>8, <2>9 DEF Bounded, TypeOK, Boot, LoadFromSd
  <2>11. ~sdcard => ~cut
    BY DEF Progress
  <2>12. Progress'
    BY <2>1, <2>2, <2>11 DEF Progress
  <2>13. interrupted' = 0 => ~cut
    BY <2>2, CutOffTypes
  <2>14. FilesKeepUp'
    BY <1>a, <2>1, <2>2, <2>3, <2>4, <2>13 DEF FilesKeepUp, Progress, Boot, LoadFromSd
  <2>15. ReadyIsCached'
    BY <2>1 DEF ReadyIsCached, Boot
  <2> QED
    BY <2>8, <2>10, <2>12, <2>14, <2>15
<1>14. CASE UNCHANGED vars
  <2>1. TypeOK'
    BY <1>14 DEF TypeOK, vars, world, update, settings, files
  <2>2. Progress' /\ Bounded' /\ FilesKeepUp' /\ ReadyIsCached'
    BY <1>14 DEF Progress, Bounded, FilesKeepUp, ReadyIsCached, Boot, LoadFromSd, vars,
                 world, update, settings, files
  <2> QED
    BY <2>1, <2>2
<1> QED
  BY <1>1, <1>2, <1>3, <1>4, <1>5, <1>6, <1>7, <1>8, <1>9, <1>10, <1>11, <1>12, <1>13, <1>14
  DEF Next, UpdateStep

-----------------------------------------------------------------------------
(* The theorems *)

LEMMA Invariance == Spec => []IInv
<1>1. Init => IInv
  BY InitIInv
<1>2. IInv /\ [Next]_vars => IInv'
  BY StepIInv
<1> QED
  BY <1>1, <1>2, PTL DEF Spec

\* Every variable of the catalog service keeps its type.
THEOREM TypeCorrect == Spec => []TypeOK
<1>1. IInv => TypeOK
  BY DEF IInv
<1> QED
  BY <1>1, Invariance, PTL

\* While the state says Ready, the card holds the catalog in use: whatever came
\* before, writes that failed and power losses in any number included.
THEOREM ReadyImpliesCached == Spec => []ReadyIsCached
<1>1. IInv => ReadyIsCached
  BY DEF IInv
<1> QED
  BY <1>1, Invariance, PTL

\* A step changes the catalog in use for a later one, unless two updates in a row
\* were cut off.
LEMMA StepForward ==
  ASSUME IInv, Next, sdcard, interrupted' <= 1
  PROVE  catalog' >= catalog
<1> USE DEF IInv
<1>a. catalog \in Nat
  BY ConstantsAssumption DEF TypeOK, Publications
<1>1. CASE Crash
  <2>1. catalog' = Boot' /\ legacy' = legacy
    BY <1>1 DEF Crash, Boot
  <2>2. CASE pc \in {"stagingWrite", "catalogWrite"}
    BY <1>1, <2>1, <2>2, CutOffOnce DEF Crash
  <2>3. CASE pc \notin {"stagingWrite", "catalogWrite"}
    <3>1. UNCHANGED <<staging, cached, interrupted>>
      BY <1>1, <2>3 DEF Crash
    <3>2. Boot >= catalog
      BY <3>1 DEF FilesKeepUp
    <3> QED
      BY <2>1, <3>1, <3>2 DEF Boot
  <2> QED
    BY <2>2, <2>3
<1>2. CASE WriteCatalog
  BY <1>2 DEF WriteCatalog, Progress
<1>3. CASE Download
  BY <1>a, <1>3 DEF Download
<1>4. CASE UNCHANGED catalog
  BY <1>a, <1>4
<1>5. Crash \/ WriteCatalog \/ Download \/ UNCHANGED catalog
  BY DEF Next, PeriodicUpdate, ManualUpdate, RequestUpdate, UpdateStep, StartDownload,
         DownloadFails, WriteStaging, WriteFails, SetSettings, SettingsStep, Serialize,
         SaveSettings, SaveFails, Publish, WifiChanges, update, world
<1> QED
  BY <1>1, <1>2, <1>3, <1>4, <1>5

\* The catalog in use never goes back, reboots included, while at most one update
\* in a row is cut off at a write.
THEOREM CatalogMovesForward == Spec => NeverGoesBack
<1>1. IInv /\ [Next]_vars => [sdcard /\ interrupted' <= 1 => catalog' >= catalog]_vars
  BY StepForward
<1> QED
  BY <1>1, Invariance, PTL DEF Spec, NeverGoesBack

=============================================================================
