----------------------------- MODULE WifiProofs -----------------------------
(***************************************************************************)
(* Proofs about the Wi-Fi task, for every length of the boot window.       *)
(***************************************************************************)
EXTENDS Wifi, TLAPS

\* Where the task is tells the mode of the controller, which web application
\* runs, and whether a connection was ever reported.
Phases ==
  /\ at = "start" <=> mode = "off"
  /\ at \in {"provisioning", "setup"} <=> mode = "ap"
  /\ at \in {"start", "provisioning", "setup"} => booting
  /\ at \in {"up", "disconnect"} => ~booting
  /\ at = "provisioning" => ~credentials
  /\ at = "setup" => elapsed >= BootWindow
  /\ "AP" \in web => mode = "ap"
  /\ "STA" \in web => ~booting
  /\ report \in {"connected", "lost"} => ~booting

IInv == TypeOK /\ Phases

LEMMA WindowInRange ==
  /\ BootWindow \in 1 .. BootWindow
  /\ 0 \in 0 .. BootWindow + 1
  /\ 0 \in 0 .. MaxRestarts
BY WifiAssumption

\* The network and the clock only touch what is external to the task.
LEMMA EnvironmentPreserves == IInv /\ Environment => IInv'
<1> SUFFICES ASSUME IInv, Environment PROVE IInv'
  OBVIOUS
<1> USE WifiAssumption DEF IInv, TypeOK, Phases
<1>1. CASE NetworkChanges
  BY <1>1 DEF NetworkChanges, clock, known
<1>2. CASE LinkUp
  BY <1>2 DEF LinkUp, clock, known
<1>3. CASE AddressAssigned
  BY <1>3 DEF AddressAssigned, clock, known
<1>4. CASE Loses
  BY <1>4 DEF Loses, clock, known
<1>5. CASE Tick
  BY <1>5 DEF Tick, external, known
<1> QED
  BY <1>1, <1>2, <1>3, <1>4, <1>5 DEF Environment

\* Every step of the task preserves the invariant.  The remaining time of an
\* attempt in the boot window is positive because the window is not over.
LEMMA TaskPreserves == IInv /\ Task => IInv'
<1> SUFFICES ASSUME IInv, Task PROVE IInv'
  OBVIOUS
<1> USE WifiAssumption DEF IInv, TypeOK, Phases
<1>1. CASE Start
  BY <1>1 DEF Start, clock, external
<1>2. CASE StartSetup
  BY <1>2 DEF StartSetup, WindowOver, clock
<1>3. CASE Connect
  <2>1. remaining' \in 1 .. BootWindow
    BY <1>3 DEF Connect, WindowOver
  <2> QED
    BY <1>3, <2>1 DEF Connect, known
<1>4. CASE Connected
  BY <1>4 DEF Connected, clock, external, known
<1>5. CASE ConnectFails
  BY <1>5 DEF ConnectFails, clock, known
<1>6. CASE Pause
  BY <1>6 DEF Pause, clock, external, known
<1>7. CASE AddressFound
  BY <1>7, WindowInRange DEF AddressFound, ReportConnected, external
<1>8. CASE AwaitAddress
  BY <1>8 DEF AwaitAddress, clock, external, known
<1>9. CASE Lost
  <2>1. ~booting
    BY <1>9 DEF Lost
  <2> QED
    BY <1>9, <2>1 DEF Lost, StaysInMaintenance, clock, external
<1>10. CASE Disconnect
  BY <1>10 DEF Disconnect, clock, known
<1> QED
  BY <1>1, <1>2, <1>3, <1>4, <1>5, <1>6, <1>7, <1>8, <1>9, <1>10 DEF Task

LEMMA NextPreserves == IInv /\ [Next]_vars => IInv'
<1> SUFFICES ASSUME IInv, [Next]_vars PROVE IInv'
  OBVIOUS
<1>1. CASE Environment
  BY <1>1, EnvironmentPreserves
<1>2. CASE Task
  BY <1>2, TaskPreserves
<1>3. CASE StartWebApp
  BY <1>3 DEF IInv, TypeOK, Phases, StartWebApp, clock, external
<1>4. CASE Restart
  <2>1. credentials' \in BOOLEAN
    BY <1>4, Zenon DEF IInv, TypeOK, Restart
  <2>2. restarts' \in 0 .. MaxRestarts
    BY <1>4, WifiAssumption DEF IInv, TypeOK, Restart
  <2>3. /\ at' = "start" /\ booting' = TRUE /\ elapsed' = 0 /\ remaining' = BootWindow
        /\ link_seen' = FALSE /\ mode' = "off" /\ requested' = FALSE /\ link' = FALSE
        /\ address' = FALSE /\ report' = "none" /\ web' = {} /\ reachable' = reachable
    BY <1>4 DEF Restart
  <2> QED
    BY <2>1, <2>2, <2>3, WindowInRange DEF IInv, TypeOK, Phases
<1>5. CASE UNCHANGED vars
  BY <1>5 DEF IInv, TypeOK, Phases, vars, clock, external
<1> QED
  BY <1>1, <1>2, <1>3, <1>4, <1>5 DEF Next

LEMMA Invariant == Spec => []IInv
<1>1. Init => IInv
  BY WifiAssumption, WindowInRange DEF Init, IInv, TypeOK, Phases
<1> QED
  BY <1>1, NextPreserves, PTL DEF Spec

\* Every variable keeps its type; an attempt always has time left
\* (wifi.rs:53-60).
THEOREM TypeCorrect == Spec => []TypeOK
<1>1. IInv => TypeOK
  BY DEF IInv
<1> QED
  BY <1>1, Invariant, PTL

\* The setup access point is opened only by a device that was not provisioned or
\* whose boot window passed, and never runs beside the web application
\* (wifi.rs:51-57, 98-127).
THEOREM SetupAtBootOnly == Spec => []SetupOnlyAtBoot
<1>1. IInv => SetupOnlyAtBoot
  BY DEF IInv, TypeOK, Phases, SetupOnlyAtBoot
<1> QED
  BY <1>1, Invariant, PTL
=============================================================================
