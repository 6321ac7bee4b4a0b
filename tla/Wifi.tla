-------------------------------- MODULE Wifi --------------------------------
(***************************************************************************)
(* The Wi-Fi task: connection_task_with_boot_fallback in core/src/wifi.rs. *)
(*                                                                         *)
(* With stored credentials the task tries for BOOT_WIFI_TIMEOUT to get an  *)
(* address from the network; then it opens the setup access point, for     *)
(* good.  Once an address was had, the task only maintains the connection. *)
(* main waits for the first connection and starts the web application.     *)
(*                                                                         *)
(* The Wi-Fi controller, the network stack and the framework are external. *)
(* The link may come up after the call that asked for it was given up, and *)
(* the address is lost with the link.  Time since boot is counted in ticks *)
(* up to one after the window; all other waits end at any time.            *)
(***************************************************************************)
EXTENDS Naturals

CONSTANTS
  BootWindow,   \* BOOT_WIFI_TIMEOUT, in ticks
  MaxRestarts   \* bound: restarts of the device

ASSUME WifiAssumption == BootWindow \in Nat \ {0} /\ MaxRestarts \in Nat

VARIABLES
  credentials,  \* whether the flash holds an SSID and a password
  at,           \* where the task is
  booting,      \* whether it is in the loop of the boot window
  elapsed,      \* boot_started.elapsed(), while booting
  remaining,    \* the timeout of the connection attempt
  link_seen,    \* of wait_for_ipv4_until
  mode,         \* the configuration of the controller
  requested,    \* external: it is connecting
  link, address,\* external: is_link_up, config_v4().is_some()
  reachable,    \* external: the network is in reach
  report,       \* what report_wifi told the framework last
  web,          \* the web applications started
  restarts      \* bound used up

external == <<requested, link, address, reachable>>
clock == <<elapsed, remaining>>
known == <<credentials, report, web, restarts>>
vars == <<credentials, at, booting, clock, link_seen, mode, external, report, web, restarts>>

Init ==
  /\ credentials \in BOOLEAN
  /\ at = "start"
  /\ booting = TRUE
  /\ elapsed = 0
  /\ remaining = BootWindow
  /\ link_seen = FALSE
  /\ mode = "off"
  /\ requested = FALSE
  /\ link = FALSE
  /\ address = FALSE
  /\ reachable \in BOOLEAN
  /\ report = "none"
  /\ web = {}
  /\ restarts = 0

-----------------------------------------------------------------------------
(* The network and the clock *)

NetworkChanges ==
  /\ reachable' = ~reachable
  /\ UNCHANGED <<at, booting, clock, link_seen, mode, requested, link, address, known>>

LinkUp ==
  /\ mode = "client" /\ requested /\ reachable
  /\ link' = TRUE
  /\ requested' = FALSE
  /\ UNCHANGED <<at, booting, clock, link_seen, mode, address, reachable, known>>

AddressAssigned ==
  /\ link /\ reachable /\ ~address
  /\ address' = TRUE
  /\ UNCHANGED <<at, booting, clock, link_seen, mode, requested, link, reachable, known>>

\* The link, or only the address.
Loses ==
  /\ ~reachable
  /\ link
  /\ link' \in BOOLEAN
  /\ address' = FALSE
  /\ UNCHANGED <<at, booting, clock, link_seen, mode, requested, reachable, known>>

Tick ==
  /\ booting /\ at # "start"
  /\ elapsed <= BootWindow
  /\ elapsed' = elapsed + 1
  /\ UNCHANGED <<at, booting, remaining, link_seen, mode, external, known>>

Environment == NetworkChanges \/ LinkUp \/ AddressAssigned \/ Loses \/ Tick

-----------------------------------------------------------------------------
(* The task *)

\* Without credentials the framework provisions the device on its own access point.
Start ==
  /\ at = "start"
  /\ IF credentials
     THEN /\ at' = "connect"
          /\ mode' = "client"
          /\ UNCHANGED <<report, web>>
     ELSE /\ at' = "provisioning"
          /\ mode' = "ap"
          /\ report' = "setup"
          /\ web' = web \cup {"AP"}
  /\ UNCHANGED <<credentials, booting, clock, link_seen, external, restarts>>

WindowOver_offByOne == elapsed > BootWindow
WindowOver == elapsed >= BootWindow

StartSetup ==
  /\ at = "connect" /\ booting
  /\ WindowOver
  /\ at' = "setup"
  /\ mode' = "ap"
  /\ requested' = FALSE
  /\ link' = FALSE
  /\ address' = FALSE
  /\ web' = web \cup {"AP"}
  /\ report' = "setup"
  /\ UNCHANGED <<credentials, booting, clock, link_seen, reachable, restarts>>

\* connect_async is called, with a timeout only while booting.
Connect ==
  /\ at = "connect"
  /\ booting => ~WindowOver
  /\ at' = "connecting"
  /\ requested' = TRUE
  /\ remaining' = IF booting THEN BootWindow - elapsed ELSE remaining
  /\ UNCHANGED <<booting, elapsed, link_seen, mode, link, address, reachable, known>>

Connected ==
  /\ at = "connecting" /\ reachable
  /\ at' = "address"
  /\ link_seen' = FALSE
  /\ UNCHANGED <<booting, clock, mode, external, known>>

\* An error, or the end of the window: the controller then goes on connecting.
ConnectFails ==
  /\ at = "connecting"
  /\ \/ ~reachable /\ requested' = FALSE
     \/ booting /\ elapsed >= BootWindow /\ UNCHANGED requested
  /\ at' = "pause"
  /\ UNCHANGED <<booting, clock, link_seen, mode, link, address, reachable, known>>

Pause ==
  /\ at = "pause"
  /\ at' = "connect"
  /\ UNCHANGED <<booting, clock, link_seen, mode, external, known>>

\* report_connected, at boot and after a loss.
ReportConnected_bootOnly == report' = IF booting THEN "connected" ELSE report
ReportConnected == report' = "connected"

AddressFound ==
  /\ at = "address" /\ address
  /\ at' = "up"
  /\ booting' = FALSE
  /\ elapsed' = 0
  /\ remaining' = BootWindow
  /\ link_seen' = FALSE
  /\ ReportConnected
  /\ UNCHANGED <<credentials, mode, external, web, restarts>>

\* wait_for_ipv4_until without an address: the time is over, the link that was
\* seen is gone, or the link is looked at.
AwaitAddress ==
  /\ at = "address" /\ ~address
  /\ \/ /\ booting => elapsed >= BootWindow
        /\ at' = "pause"
        /\ UNCHANGED link_seen
     \/ /\ ~link /\ link_seen
        /\ at' = "pause"
        /\ UNCHANGED link_seen
     \/ /\ link
        /\ link_seen' = TRUE
        /\ UNCHANGED at
  /\ UNCHANGED <<booting, clock, mode, external, known>>

\* maintain_station_connection finds the connection lost.
StaysInMaintenance_not == booting' = TRUE
StaysInMaintenance == UNCHANGED booting

Lost ==
  /\ at = "up"
  /\ ~(link /\ address)
  /\ at' = "disconnect"
  /\ report' = "lost"
  /\ StaysInMaintenance
  /\ UNCHANGED <<credentials, clock, link_seen, mode, external, web, restarts>>

\* disconnect_async, which may time out.
Disconnect ==
  /\ at = "disconnect"
  /\ at' = "connect"
  /\ \/ /\ requested' = FALSE
        /\ link' = FALSE
        /\ address' = FALSE
     \/ UNCHANGED <<requested, link, address>>
  /\ UNCHANGED <<booting, clock, link_seen, mode, reachable, known>>

Task ==
  \/ Start \/ StartSetup
  \/ Connect \/ Connected \/ ConnectFails \/ Pause
  \/ AddressFound \/ AwaitAddress
  \/ Lost \/ Disconnect

\* main goes on when the first connection was reported.  The framework's
\* wait_for_wifi is taken not to return for the report_wifi of the setup mode.
StartWebApp ==
  /\ ~booting
  /\ "STA" \notin web
  /\ web' = web \cup {"STA"}
  /\ UNCHANGED <<credentials, at, booting, clock, link_seen, mode, external, report, restarts>>

\* A power cut, or the restart after credentials were saved or an update was installed.
Restart ==
  /\ restarts < MaxRestarts
  /\ restarts' = restarts + 1
  /\ credentials' \in {credentials, TRUE}
  /\ at' = "start"
  /\ booting' = TRUE
  /\ elapsed' = 0
  /\ remaining' = BootWindow
  /\ link_seen' = FALSE
  /\ mode' = "off"
  /\ requested' = FALSE
  /\ link' = FALSE
  /\ address' = FALSE
  /\ report' = "none"
  /\ web' = {}
  /\ UNCHANGED reachable

Next == Environment \/ Task \/ StartWebApp \/ Restart

\* The tasks run, time passes, and every call of the controller ends; a network
\* that stays in reach completes a connection and assigns an address.  The
\* network need not be in reach.
Fairness ==
  /\ WF_vars(Task)
  /\ WF_vars(StartWebApp)
  /\ WF_vars(Tick)
  /\ WF_vars(LinkUp)
  /\ WF_vars(AddressAssigned)

Spec == Init /\ [][Next]_vars /\ Fairness

-----------------------------------------------------------------------------
(* Properties *)

\* Every variable holds a value of its kind; an attempt in the boot window always
\* has some time (BOOT_WIFI_TIMEOUT - elapsed, wifi.rs:59): with none it could not
\* succeed, and a negative difference would panic.
TypeOK ==
  /\ credentials \in BOOLEAN
  /\ at \in {"start", "provisioning", "connect", "connecting", "address", "pause",
             "up", "disconnect", "setup"}
  /\ booting \in BOOLEAN
  /\ elapsed \in 0 .. BootWindow + 1
  /\ remaining \in 1 .. BootWindow
  /\ link_seen \in BOOLEAN
  /\ mode \in {"off", "client", "ap"}
  /\ requested \in BOOLEAN /\ link \in BOOLEAN /\ address \in BOOLEAN /\ reachable \in BOOLEAN
  /\ report \in {"none", "connected", "lost", "setup"}
  /\ web \subseteq {"STA", "AP"}
  /\ restarts \in 0 .. MaxRestarts

\* The setup access point is opened only by a device without credentials or
\* when the boot window passed without a connection; a connection that was
\* made and lost never leads to it (README.md:333, wifi.rs:51-57, 98-127).
\* The setup page and the web application never run side by side.
SetupOnlyAtBoot ==
  /\ mode = "ap" => ~credentials \/ elapsed >= BootWindow
  /\ ~({"STA", "AP"} \subseteq web)
  /\ report \in {"connected", "lost"} => mode = "client"

\* If the network stays in reach for good, the station ends up connected, is
\* reported so for good, and the web application runs, unless the device came
\* up when the network was away and waits in setup mode (wifi.rs:105-126).
StationComesBack ==
  <>[]reachable => <>[](mode = "ap" \/ (report = "connected" /\ "STA" \in web))
=============================================================================
