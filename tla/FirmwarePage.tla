---------------------------- MODULE FirmwarePage ----------------------------
(***************************************************************************)
(* The firmware update page: check_for_firmware_update,                    *)
(* install_firmware_update and the on_ota_ callbacks of core/src/app.rs,   *)
(* with the buttons and swipes of core/ui/appwindow.slint.                 *)
(*                                                                         *)
(* The framework carries out the requests, of this page and of the web     *)
(* page; it is external, and answers in any order with any outcome.  The   *)
(* swipe up is only offered while no location is being chosen, which is    *)
(* left out here.                                                          *)
(***************************************************************************)
EXTENDS Naturals

CONSTANT MaxRequests  \* bound: requests under way

VARIABLES
  visible,       \* update_page_visible
  checking, available, installing, confirming,
  checks,        \* external: version checks without an answer
  installs,      \* external: installations asked for and not started
  running,       \* external: installations started
  completed      \* external: the restart that follows an installation is due

flags == <<checking, available, installing, confirming>>
requests == <<checks, installs, running, completed>>
vars == <<visible, flags, requests>>

Init ==
  /\ visible = FALSE
  /\ checking = FALSE
  /\ available = FALSE
  /\ installing = FALSE
  /\ confirming = FALSE
  /\ checks = 0
  /\ installs = 0
  /\ running = 0
  /\ completed = FALSE

RequestsLeft == checks + installs + running < MaxRequests

-----------------------------------------------------------------------------
(* The user *)

\* check_for_firmware_update
Check ==
  /\ RequestsLeft
  /\ checking' = TRUE
  /\ available' = FALSE
  /\ installing' = FALSE
  /\ confirming' = FALSE
  /\ checks' = checks + 1
  /\ UNCHANGED <<installs, running, completed>>

SwipeUp ==
  /\ ~visible /\ ~installing
  /\ visible' = TRUE
  /\ Check

CheckAgain ==
  /\ visible /\ ~available /\ ~confirming
  /\ ~checking /\ ~installing
  /\ Check
  /\ UNCHANGED visible

Install ==
  /\ visible /\ available /\ ~confirming
  /\ ~installing
  /\ confirming' = TRUE
  /\ UNCHANGED <<visible, checking, available, installing, requests>>

\* install_firmware_update
Confirm ==
  /\ visible /\ confirming
  /\ ~checking /\ ~installing
  /\ confirming' = FALSE
  /\ \/ /\ available
        /\ RequestsLeft
        /\ installing' = TRUE
        /\ installs' = installs + 1
     \/ /\ ~available
        /\ UNCHANGED <<installing, installs>>
  /\ UNCHANGED <<visible, checking, available, checks, running, completed>>

Cancel ==
  /\ visible /\ confirming
  /\ ~installing
  /\ confirming' = FALSE
  /\ UNCHANGED <<visible, checking, available, installing, requests>>

\* A Back button or a swipe down.
Leave ==
  /\ visible
  /\ ~installing
  /\ visible' = FALSE
  /\ UNCHANGED <<flags, requests>>

\* The web page has the framework check or install, too.
WebRequest ==
  /\ RequestsLeft
  /\ \/ checks' = checks + 1 /\ UNCHANGED installs
     \/ installs' = installs + 1 /\ UNCHANGED checks
  /\ UNCHANGED <<visible, flags, running, completed>>

-----------------------------------------------------------------------------
(* The framework *)

\* on_ota_version_available
VersionShown_keepsPrompt == UNCHANGED confirming
VersionShown == confirming' = FALSE

VersionAvailable == \E newer \in BOOLEAN :
  /\ checks > 0
  /\ checks' = checks - 1
  /\ checking' = FALSE
  /\ available' = newer
  /\ VersionShown
  /\ UNCHANGED <<visible, installing, installs, running, completed>>

\* on_ota_start
InstallStarts ==
  /\ installs > 0
  /\ installs' = installs - 1
  /\ running' = running + 1
  /\ checking' = FALSE
  /\ installing' = TRUE
  /\ confirming' = FALSE
  /\ UNCHANGED <<visible, available, checks, completed>>

\* on_ota_failed, of a check or an installation
Fails ==
  /\ \/ checks > 0 /\ checks' = checks - 1 /\ UNCHANGED <<installs, running>>
     \/ installs > 0 /\ installs' = installs - 1 /\ UNCHANGED <<checks, running>>
     \/ running > 0 /\ running' = running - 1 /\ UNCHANGED <<checks, installs>>
  /\ checking' = FALSE
  /\ installing' = FALSE
  /\ confirming' = FALSE
  /\ UNCHANGED <<visible, available, completed>>

\* on_ota_completed
InstallCompletes ==
  /\ running > 0
  /\ running' = running - 1
  /\ completed' = TRUE
  /\ checking' = FALSE
  /\ UNCHANGED <<visible, available, installing, confirming, checks, installs>>

User == SwipeUp \/ CheckAgain \/ Install \/ Confirm \/ Cancel \/ Leave \/ WebRequest
Framework == VersionAvailable \/ InstallStarts \/ Fails \/ InstallCompletes
Next == User \/ Framework

Spec == Init /\ [][Next]_vars

-----------------------------------------------------------------------------
(* Properties *)

\* Every variable holds a value of its kind.
TypeOK ==
  /\ visible \in BOOLEAN
  /\ checking \in BOOLEAN /\ available \in BOOLEAN
  /\ installing \in BOOLEAN /\ confirming \in BOOLEAN
  /\ checks \in 0 .. MaxRequests
  /\ installs \in 0 .. MaxRequests
  /\ running \in 0 .. MaxRequests
  /\ completed \in BOOLEAN

\* In whatever order checks, failures and installations of the page and of the
\* web page answer: the prompt is shown for a version that is still offered
\* and can be installed, so that a confirmation always installs (the guard of
\* app.rs:205); and the page is disabled only while an answer that enables it
\* again is still to come, or a restart (app.rs:191, 211, 1134-1186).
PageConsistent ==
  /\ confirming => available /\ ~installing
  /\ checking => checks > 0 /\ ~available
  /\ installing => installs + running > 0 \/ completed
=============================================================================
