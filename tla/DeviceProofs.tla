----------------------------- MODULE DeviceProofs -----------------------------
(***************************************************************************)
(* Proofs about the firmware update page of the device, for any number of  *)
(* requests under way.  Those about the Wi-Fi task are in WifiProofs.      *)
(***************************************************************************)
EXTENDS Device, TLAPS

\* The requests under way never exceed their bound together.
Numbers ==
  /\ checks \in Nat /\ installs \in Nat /\ running \in Nat
  /\ checks + installs + running <= MaxRequests

Flags ==
  /\ visible \in BOOLEAN
  /\ checking \in BOOLEAN /\ available \in BOOLEAN
  /\ installing \in BOOLEAN /\ confirming \in BOOLEAN
  /\ completed \in BOOLEAN

PageInv == Numbers /\ Flags /\ Page!PageConsistent

LEMMA TypesFollow == PageInv => Page!TypeOK
<1> SUFFICES ASSUME PageInv PROVE Page!TypeOK
  OBVIOUS
<1>1. checks \in 0 .. MaxRequests /\ installs \in 0 .. MaxRequests /\ running \in 0 .. MaxRequests
  BY RequestsAssumption DEF PageInv, Numbers
<1> QED
  BY <1>1, Zenon DEF PageInv, Flags, Page!TypeOK

LEMMA PageInit == Page!Init => PageInv
<1> SUFFICES ASSUME Page!Init PROVE PageInv
  OBVIOUS
<1>1. Numbers
  BY RequestsAssumption DEF Page!Init, Numbers
<1> QED
  BY <1>1, Zenon DEF Page!Init, PageInv, Flags, Page!PageConsistent

\* The page is set back by a restart.
LEMMA RestartPreserves == DeviceRestart => PageInv'
<1> SUFFICES ASSUME DeviceRestart PROVE PageInv'
  OBVIOUS
<1>1. Numbers'
  BY RequestsAssumption DEF DeviceRestart, Numbers
<1> QED
  BY <1>1, Zenon DEF DeviceRestart, PageInv, Flags, Page!PageConsistent

LEMMA PageUnchanged == PageInv /\ UNCHANGED page_vars => PageInv'
BY DEF page_vars, PageInv, Numbers, Flags, Page!PageConsistent

\* What the user does.  A check withdraws the prompt and the offer.
LEMMA CheckPreserves ==
  ASSUME PageInv, Page!Check, visible' \in BOOLEAN
  PROVE  PageInv'
<1>1. Numbers' /\ checks' > 0
  BY RequestsAssumption DEF Page!Check, Page!RequestsLeft, PageInv, Numbers
<1> QED
  BY <1>1, Zenon DEF Page!Check, PageInv, Flags, Page!PageConsistent

LEMMA UserPreserves == PageInv /\ Page!User => PageInv'
<1> SUFFICES ASSUME PageInv, Page!User PROVE PageInv'
  OBVIOUS
<1>1. CASE Page!SwipeUp \/ Page!CheckAgain
  <2>1. Page!Check /\ visible' \in BOOLEAN
    BY <1>1, Zenon DEF Page!SwipeUp, Page!CheckAgain, PageInv, Flags
  <2> QED
    BY <2>1, CheckPreserves
<1>2. CASE Page!Install \/ Page!Cancel \/ Page!Leave
  <2>1. UNCHANGED <<checks, installs, running>>
    BY <1>2 DEF Page!Install, Page!Cancel, Page!Leave, Page!requests
  <2>2. Numbers'
    BY <2>1, RequestsAssumption DEF PageInv, Numbers
  <2>3. Flags' /\ UNCHANGED <<checking, available, installing, completed>>
    BY <1>2, Zenon DEF Page!Install, Page!Cancel, Page!Leave, Page!flags, Page!requests, PageInv, Flags
  <2>4. confirming' => available /\ ~installing
    BY <1>2, Zenon DEF Page!Install, Page!Cancel, Page!Leave, Page!flags, PageInv, Page!PageConsistent
  <2> QED
    BY <2>1, <2>2, <2>3, <2>4, Zenon DEF PageInv, Page!PageConsistent
<1>3. CASE Page!Confirm
  <2>1. CASE available /\ Page!RequestsLeft /\ installing' = TRUE /\ installs' = installs + 1
    <3>1. Numbers' /\ installs' + running' > 0
      BY <1>3, <2>1, RequestsAssumption DEF Page!Confirm, Page!RequestsLeft, PageInv, Numbers
    <3> QED
      BY <1>3, <2>1, <3>1, Zenon DEF Page!Confirm, PageInv, Flags, Page!PageConsistent
  <2>2. CASE ~available /\ UNCHANGED <<installing, installs>>
    <3>1. Numbers'
      BY <1>3, <2>2, RequestsAssumption DEF Page!Confirm, PageInv, Numbers
    <3> QED
      BY <1>3, <2>2, <3>1, Zenon DEF Page!Confirm, PageInv, Flags, Page!PageConsistent
  <2> QED
    BY <1>3, <2>1, <2>2, Zenon DEF Page!Confirm
<1>4. CASE Page!WebRequest
  <2>1. Numbers'
    BY <1>4, RequestsAssumption DEF Page!WebRequest, Page!RequestsLeft, PageInv, Numbers
  <2>2. (checks > 0 => checks' > 0) /\ (installs + running > 0 => installs' + running' > 0)
    BY <1>4 DEF Page!WebRequest, PageInv, Numbers
  <2> QED
    BY <1>4, <2>1, <2>2, Zenon DEF Page!WebRequest, Page!flags, PageInv, Flags, Page!PageConsistent
<1> QED
  BY <1>1, <1>2, <1>3, <1>4, Zenon DEF Page!User

\* What the framework answers.  Every answer withdraws the prompt or finds it
\* withdrawn, and one that takes a request away enables what waits for it.
LEMMA FrameworkPreserves == PageInv /\ Page!Framework => PageInv'
<1> SUFFICES ASSUME PageInv, Page!Framework PROVE PageInv'
  OBVIOUS
<1>1. CASE Page!VersionAvailable
  <2>1. Numbers' /\ (installs + running > 0 => installs' + running' > 0)
    BY <1>1, RequestsAssumption DEF Page!VersionAvailable, PageInv, Numbers
  <2>2. Flags' /\ ~checking' /\ ~confirming' /\ UNCHANGED <<installing, completed>>
    BY <1>1 DEF Page!VersionAvailable, Page!VersionShown, PageInv, Flags
  <2>3. installing' => installs' + running' > 0 \/ completed'
    BY <2>1, <2>2, Zenon DEF PageInv, Page!PageConsistent
  <2> QED
    BY <2>1, <2>2, <2>3, Zenon DEF PageInv, Page!PageConsistent
<1>2. CASE Page!InstallStarts
  <2>1. Numbers' /\ installs' + running' > 0
    BY <1>2, RequestsAssumption DEF Page!InstallStarts, PageInv, Numbers
  <2> QED
    BY <1>2, <2>1, Zenon DEF Page!InstallStarts, PageInv, Flags, Page!PageConsistent
<1>3. CASE Page!Fails
  <2>1. Numbers'
    BY <1>3, RequestsAssumption DEF Page!Fails, PageInv, Numbers
  <2> QED
    BY <1>3, <2>1, Zenon DEF Page!Fails, PageInv, Flags, Page!PageConsistent
<1>4. CASE Page!InstallCompletes
  <2>1. Numbers'
    BY <1>4, RequestsAssumption DEF Page!InstallCompletes, PageInv, Numbers
  <2> QED
    BY <1>4, <2>1, Zenon DEF Page!InstallCompletes, PageInv, Flags, Page!PageConsistent
<1> QED
  BY <1>1, <1>2, <1>3, <1>4, Zenon DEF Page!Framework

LEMMA PageStep == PageInv /\ [DeviceNext]_device_vars => PageInv'
<1> SUFFICES ASSUME PageInv, [DeviceNext]_device_vars PROVE PageInv'
  OBVIOUS
<1>1. CASE Page!Next
  BY <1>1, UserPreserves, FrameworkPreserves DEF Page!Next
<1>2. CASE DeviceRestart
  BY <1>2, RestartPreserves
<1>3. CASE UNCHANGED page_vars
  BY <1>3, PageUnchanged
<1> QED
  BY <1>1, <1>2, <1>3 DEF DeviceNext, device_vars

\* The prompt of the page can always be confirmed, and what is disabled waits
\* for an answer, in whatever order the framework answers the page and the web
\* page and whenever the device restarts.
THEOREM PageAlwaysConsistent == DeviceSpec => []PageConsistent
<1>1. DeviceInit => PageInv
  BY PageInit DEF DeviceInit
<1>2. PageInv => PageConsistent
  BY TypesFollow DEF PageInv, PageConsistent
<1> QED
  BY <1>1, <1>2, PageStep, PTL DEF DeviceSpec
=============================================================================
