------------------------------- MODULE Device -------------------------------
(***************************************************************************)
(* The device around the spool services: the Wi-Fi task and the firmware   *)
(* update page, which a restart sets back together.  Updates are asked for *)
(* and answered whatever the Wi-Fi task does; without a connection the     *)
(* framework answers that they failed.                                     *)
(***************************************************************************)
EXTENDS Wifi

CONSTANT MaxRequests

ASSUME RequestsAssumption == MaxRequests \in Nat

VARIABLES
  visible, checking, available, installing, confirming,
  checks, installs, running, completed

Page == INSTANCE FirmwarePage

page_vars == <<visible, checking, available, installing, confirming,
               checks, installs, running, completed>>
device_vars == <<vars, page_vars>>

DeviceInit == Init /\ Page!Init

\* A restart from wherever the device is, whether an update asked for it or not.
DeviceRestart ==
  /\ Restart
  /\ visible' = FALSE
  /\ checking' = FALSE
  /\ available' = FALSE
  /\ installing' = FALSE
  /\ confirming' = FALSE
  /\ checks' = 0
  /\ installs' = 0
  /\ running' = 0
  /\ completed' = FALSE

DeviceNext ==
  \/ (Environment \/ Task \/ StartWebApp) /\ UNCHANGED page_vars
  \/ Page!Next /\ UNCHANGED vars
  \/ DeviceRestart

DeviceFairness ==
  /\ WF_device_vars(Task /\ UNCHANGED page_vars)
  /\ WF_device_vars(StartWebApp /\ UNCHANGED page_vars)
  /\ WF_device_vars(Tick /\ UNCHANGED page_vars)
  /\ WF_device_vars(LinkUp /\ UNCHANGED page_vars)
  /\ WF_device_vars(AddressAssigned /\ UNCHANGED page_vars)

DeviceSpec == DeviceInit /\ [][DeviceNext]_device_vars /\ DeviceFairness

-----------------------------------------------------------------------------
(* Properties *)

\* The prompt of the firmware page can always be confirmed, and the page is
\* disabled only while an answer is still to come (app.rs:188-214, 1134-1186).
PageConsistent == Page!TypeOK /\ Page!PageConsistent
=============================================================================
