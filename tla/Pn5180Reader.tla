---------------------------- MODULE Pn5180Reader ----------------------------
(***************************************************************************)
(* The scan loop of the PN5180 reader: run in shared/src/pn5180_reader.rs. *)
(*                                                                         *)
(* The loop looks for an ISO-A tag, reads the payload of a MIFARE Classic  *)
(* in up to five attempts, looks for an NFC-V tag when no ISO-A tag        *)
(* answers, and keeps a finished tag latched until it is gone.  An         *)
(* iteration is one step, but for the reads of the payload and of the      *)
(* OpenPrintTag memory, which are steps of their own.                      *)
(*                                                                         *)
(* What the RF field answers is arbitrary: any tag, no tag, a garbled      *)
(* answer or a failure of the chip, at each call.  Time is counted in      *)
(* polls; missing_since and transient_error_since hold the time elapsed    *)
(* since they were set.                                                    *)
(***************************************************************************)
EXTENDS Naturals, FiniteSets

CONSTANTS
  IsoA,           \* tags that answer an ISO-A activation
  Classic,        \* those that are MIFARE Classic 1K
  NfcV,           \* tags that answer an NFC-V inventory
  None,           \* no tag, no time
  PayloadBlocks,  \* blocks of a Bambu payload
  MemoryBlocks,   \* blocks of an OpenPrintTag memory
  Grace,          \* TAG_REMOVAL_GRACE, in polls
  Recovery,       \* TRANSIENT_ERROR_RECOVERY_INTERVAL, in polls
  MaxFailures     \* bound: failed initializations of the chip

ASSUME ConstantsAssumption ==
  /\ Classic \subseteq IsoA
  /\ IsoA \cap NfcV = {}
  /\ None \notin IsoA \cup NfcV \cup Nat
  /\ PayloadBlocks \in Nat \ {0} /\ MemoryBlocks \in Nat \ {0}
  /\ Grace \in Nat \ {0} /\ Recovery \in Nat \ {0}
  /\ MaxFailures \in Nat

MAX_PAYLOAD_ATTEMPTS == 5
MAX_STALLED_ATTEMPTS == 2
OPENPRINTTAG_BLOCK_ATTEMPTS == 3

VARIABLES
  at,                   \* where the task is
  rf,                   \* the protocol the RF field is configured for
  target,               \* the tag whose blocks are being read
  completed_uid, pending_uid, pending_blocks, pending_attempt, stalled_attempts,
  prefetched_target, missing_since, transient_error_since,
  completed_type_v_uid, empty_iso_a_polls,
  memory,               \* blocks of the NFC-V tag read so far
  attempt,              \* attempts of its next block made so far
  event,                \* the event notified last
  silent,               \* history: time since the field answered last
  failures              \* bound used up

payload == <<pending_uid, pending_blocks, pending_attempt, stalled_attempts>>
typeV == <<completed_type_v_uid, memory, attempt>>
times == <<missing_since, transient_error_since, silent>>
vars == <<at, rf, target, completed_uid, payload, prefetched_target, times, typeV,
          empty_iso_a_polls, event, failures>>

Tags == IsoA \cup NfcV
Protocol == INSTANCE ScanProtocol WITH MaxAttempts <- MAX_PAYLOAD_ATTEMPTS
Event(kind, tag, next) == Protocol!Event(kind, tag, next)

Init ==
  /\ at = "start"
  /\ rf = "off"
  /\ target = None
  /\ completed_uid = None
  /\ pending_uid = None
  /\ pending_blocks = {}
  /\ pending_attempt = 0
  /\ stalled_attempts = 0
  /\ prefetched_target = None
  /\ missing_since = None
  /\ transient_error_since = None
  /\ completed_type_v_uid = None
  /\ empty_iso_a_polls = 0
  /\ memory = 0
  /\ attempt = 0
  /\ event = Protocol!NoEvent
  /\ silent = 0
  /\ failures = 0

-----------------------------------------------------------------------------
(* Time and the RF field *)

AtMost(n, most) == IF n > most THEN most ELSE n
Later(since, d, most) == IF since = None THEN None ELSE AtMost(since + d, most)

\* get_or_insert_with(Instant::now)
OrNow(since) == IF since = None THEN 0 ELSE since

\* The pause that ends an iteration which leaves missing_since = missing and
\* transient_error_since = transient, and in which the field answered or not.
Pause(missing, transient, answered) == \E d \in 1 .. Grace :
  /\ missing_since' = Later(missing, d, Grace)
  /\ transient_error_since' = Later(transient, d, Recovery)
  /\ silent' = AtMost((IF answered THEN 0 ELSE silent) + d, Grace)

\* A failed initialization may leave the field as it was, off, or configured.
Fails(protocol) ==
  /\ failures < MaxFailures
  /\ failures' = failures + 1
  /\ rf' \in {rf, "off", protocol}
Succeeds(protocol) == rf' = protocol /\ UNCHANGED failures

\* initialize_iso_a and reset_and_initialize_iso_a; their error is only logged.
InitializeIsoA == Succeeds("iso_a") \/ Fails("iso_a")

-----------------------------------------------------------------------------
(* The latch of an NFC-V tag *)

TypeVPresent ==
  /\ at = "poll" /\ completed_type_v_uid # None
  /\ rf = "iso_v"
  /\ Pause(None, transient_error_since, TRUE)
  /\ UNCHANGED <<at, rf, target, completed_uid, payload, prefetched_target,
                 typeV, empty_iso_a_polls, event, failures>>

\* No answer (answered = FALSE) or an error of the inventory.
TypeVMissing(answered) ==
  /\ at = "poll" /\ completed_type_v_uid # None
  /\ \/ /\ OrNow(missing_since) < Grace
        /\ Pause(OrNow(missing_since), transient_error_since, answered)
        /\ UNCHANGED <<rf, completed_type_v_uid, event, failures>>
     \/ /\ OrNow(missing_since) >= Grace
        /\ event' = Event("TagRemoved", None, 0)
        /\ completed_type_v_uid' = None
        /\ InitializeIsoA
        /\ Pause(None, transient_error_since, answered)
  /\ UNCHANGED <<at, target, completed_uid, payload, prefetched_target,
                 empty_iso_a_polls, memory, attempt>>

-----------------------------------------------------------------------------
(* Activation of an ISO-A tag *)

Polls == at = "poll" /\ completed_type_v_uid = None

\* What an activation without error finds: only a field configured for ISO-A
\* is answered.
Answers == IF rf = "iso_a" THEN IsoA \cup {None} ELSE {None}

\* The activation ends with the tag t or with None, while missing_since is
\* missing: prefetched, found, or found by the refresh after lasting errors.
Activation(t, missing) ==
  \/ /\ prefetched_target # None
     /\ t = prefetched_target
     /\ missing = missing_since
     /\ UNCHANGED <<rf, failures>>
  \/ /\ prefetched_target = None
     /\ t \in Answers
     /\ missing = missing_since
     /\ UNCHANGED <<rf, failures>>
  \/ /\ prefetched_target = None
     /\ OrNow(transient_error_since) >= Recovery
     /\ missing = None
     /\ Succeeds("iso_a")

\* A failure of the chip, which is then reset.
ActivationResets ==
  /\ Polls /\ prefetched_target = None
  /\ InitializeIsoA
  /\ Pause(None, None, TRUE)
  /\ UNCHANGED <<at, target, completed_uid, payload, prefetched_target,
                 typeV, empty_iso_a_polls, event>>

\* What an error leaves of missing_since: it is no evidence of absence.
AfterError_keepsTime == missing_since
AfterError == None

\* A garbled answer; the field is refreshed when they last too long.
ActivationGarbled ==
  /\ Polls /\ prefetched_target = None
  /\ \/ /\ OrNow(transient_error_since) < Recovery
        /\ Pause(AfterError, OrNow(transient_error_since), TRUE)
        /\ UNCHANGED <<rf, failures>>
     \/ /\ OrNow(transient_error_since) >= Recovery
        /\ InitializeIsoA
        /\ Pause(AfterError, None, TRUE)
  /\ UNCHANGED <<at, target, completed_uid, payload, prefetched_target,
                 typeV, empty_iso_a_polls, event>>

-----------------------------------------------------------------------------
(* No ISO-A tag answers *)

\* Polls count towards an NFC-V scan only while no ISO-A tag is latched or being
\* read; the scan is due at the second empty one in a row.
NothingLatched_always == TRUE
NothingLatched == completed_uid = None /\ pending_uid = None
ScanDue == NothingLatched /\ empty_iso_a_polls + 1 >= 2

\* The event of a removal, if a placement was latched or being read.
Removal_ofCompleted == IF completed_uid # None THEN Event("TagRemoved", None, 0) ELSE event
Removal == IF NothingLatched THEN event ELSE Event("TagRemoved", None, 0)

\* The end of the branch: TagRemoved once nothing answered for the grace
\* period and a placement was latched or being read.
Missing(missing) ==
  \/ /\ OrNow(missing) < Grace
     /\ Pause(OrNow(missing), None, FALSE)
     /\ UNCHANGED <<completed_uid, payload, event>>
  \/ /\ OrNow(missing) >= Grace
     /\ completed_uid' = None
     /\ pending_uid' = IF completed_uid # None THEN pending_uid ELSE None
     /\ event' = Removal
     /\ pending_blocks' = {}
     /\ pending_attempt' = 0
     /\ stalled_attempts' = 0
     /\ Pause(None, None, FALSE)

NoTarget == \E missing \in {None} \cup 0 .. Grace :
  /\ Polls
  /\ ~ScanDue
  /\ Activation(None, missing)
  /\ empty_iso_a_polls' = IF NothingLatched THEN empty_iso_a_polls + 1 ELSE empty_iso_a_polls
  /\ prefetched_target' = None
  /\ Missing(missing)
  /\ UNCHANGED <<at, target, typeV>>

\* After a scan without a latched tag the field is configured for ISO-A again.
ReturnToIsoA_not == rf' = "iso_v" /\ UNCHANGED failures

ReturnToIsoA ==
  \/ Succeeds("iso_a")
  \/ Fails("iso_a")
  \/ failures < MaxFailures /\ failures' = failures + 1 /\ rf' = "iso_v"

\* The activation before a scan: what it does to the field is overwritten.
ActivatesNothing(missing) ==
  /\ prefetched_target = None
  /\ \/ missing = missing_since
     \/ missing = None /\ OrNow(transient_error_since) >= Recovery

\* The scan finds no NFC-V tag or fails to look for one.
NoTargetNoTypeV == \E missing \in {None} \cup 0 .. Grace :
  /\ Polls
  /\ ScanDue
  /\ ActivatesNothing(missing)
  /\ empty_iso_a_polls' = 0
  /\ ReturnToIsoA
  /\ Missing(missing)
  /\ UNCHANGED <<at, target, prefetched_target, typeV>>

\* try_read_openprinttag returns a tag: it is latched.
Latch(t, kind) ==
  /\ event' = Event(kind, t, 0)
  /\ completed_type_v_uid' = t
  /\ at' = "poll"
  /\ target' = None
  /\ Pause(None, None, TRUE)

\* The scan finds the NFC-V tag t, whose memory can be read or not.
FoundTypeV(t) ==
  /\ Polls
  /\ ScanDue
  /\ \E missing \in {None} \cup 0 .. Grace : ActivatesNothing(missing)
  /\ empty_iso_a_polls' = 0
  /\ Succeeds("iso_v")
  /\ memory' = 0
  /\ attempt' = 0
  /\ \/ Latch(t, "ReadFailed")
     \/ /\ event' = Event("Reading", t, 1)
        /\ at' = "blocks"
        /\ target' = t
        /\ missing_since' = None
        /\ transient_error_since' = None
        /\ silent' = 0
        /\ UNCHANGED completed_type_v_uid
  /\ UNCHANGED <<completed_uid, payload, prefetched_target>>

ReadTypeVBlock ==
  /\ at = "blocks"
  /\ memory' = memory + 1
  /\ attempt' = 0
  /\ \/ /\ memory' < MemoryBlocks
        /\ UNCHANGED <<at, target, times, completed_type_v_uid, event>>
     \/ /\ memory' = MemoryBlocks
        /\ Latch(target, "TagRead")
  /\ UNCHANGED <<rf, completed_uid, payload, prefetched_target, empty_iso_a_polls, failures>>

TypeVBlockFails ==
  /\ at = "blocks"
  /\ attempt' = attempt + 1
  /\ \/ /\ attempt' < OPENPRINTTAG_BLOCK_ATTEMPTS
        /\ UNCHANGED <<at, target, times, completed_type_v_uid, event>>
     \/ /\ attempt' = OPENPRINTTAG_BLOCK_ATTEMPTS
        /\ Latch(target, "ReadFailed")
  /\ UNCHANGED <<rf, completed_uid, payload, prefetched_target, empty_iso_a_polls, memory, failures>>

-----------------------------------------------------------------------------
(* An ISO-A tag answers *)

Activates(t) ==
  /\ Polls
  /\ \E missing \in {None} \cup 0 .. Grace : Activation(t, missing)
  /\ empty_iso_a_polls' = 0
  /\ prefetched_target' = None

\* The placement is finished, or another tag of it is being read.
Ignored(t) == completed_uid # None \/ pending_uid \notin {None, t}

TargetIgnored == \E t \in IsoA :
  /\ Activates(t)
  /\ Ignored(t)
  /\ Pause(None, None, TRUE)
  /\ UNCHANGED <<at, target, completed_uid, payload, typeV, event>>

\* What an iteration without a pause leaves of the times.
NoPause == missing_since' = None /\ transient_error_since' = None /\ silent' = 0

TargetUnsupported == \E t \in IsoA \ Classic :
  /\ Activates(t)
  /\ ~Ignored(t)
  /\ event' = Event("UnsupportedTag", t, 0)
  /\ completed_uid' = t
  /\ NoPause
  /\ UNCHANGED <<at, target, payload, typeV>>

\* The placement starts, or is tried again.
TargetReads == \E t \in Classic :
  /\ Activates(t)
  /\ ~Ignored(t)
  /\ at' = "payload"
  /\ target' = t
  /\ pending_uid' = t
  /\ NoPause
  /\ \/ /\ pending_uid = None
        /\ pending_blocks' = {}
        /\ pending_attempt' = 1
        /\ stalled_attempts' = 0
        /\ event' = Event("Reading", t, 1)
     \/ /\ pending_uid = t
        /\ pending_attempt' = pending_attempt + 1
        /\ UNCHANGED <<pending_blocks, stalled_attempts, event>>
  /\ UNCHANGED <<completed_uid, typeV>>

\* read_payload: the blocks that were missing, up to the n-th.
ReadBlocks(n) == pending_blocks \cup ({target} \X (Cardinality(pending_blocks) + 1 .. n))

\* The placement ends with an event of this kind and is latched.
Finish_keepsBlocks(kind) ==
  /\ event' = Event(kind, target, 0)
  /\ completed_uid' = target
  /\ pending_uid' = None
  /\ pending_attempt' = 0
  /\ stalled_attempts' = 0
  /\ UNCHANGED <<rf, prefetched_target, failures, pending_blocks>>

Finish(kind) ==
  /\ event' = Event(kind, target, 0)
  /\ completed_uid' = target
  /\ pending_uid' = None
  /\ pending_blocks' = {}
  /\ pending_attempt' = 0
  /\ stalled_attempts' = 0
  /\ UNCHANGED <<rf, prefetched_target, failures>>

PayloadRead == at = "payload" /\ Finish("TagRead")

\* The attempts without a new block, the failed one included.
Stalled(n) == IF n > Cardinality(pending_blocks) THEN 0 ELSE stalled_attempts + 1

Exhausted_stalledOnly(n) == Stalled(n) >= MAX_STALLED_ATTEMPTS

Exhausted(n) == pending_attempt >= MAX_PAYLOAD_ATTEMPTS \/ Stalled(n) >= MAX_STALLED_ATTEMPTS

\* reacquire_with_recovery finds any tag, or none.
Reacquire ==
  \/ Succeeds("iso_a") /\ prefetched_target' \in IsoA \cup {None}
  \/ Fails("iso_a") /\ prefetched_target' = None

\* The attempt fails after the n-th block and is retried.
PayloadRetried == \E n \in Cardinality(pending_blocks) .. PayloadBlocks - 1 :
  /\ at = "payload"
  /\ ~Exhausted(n)
  /\ pending_blocks' = ReadBlocks(n)
  /\ stalled_attempts' = Stalled(n)
  /\ event' = Event("Retrying", target, pending_attempt + 1)
  /\ Reacquire
  /\ UNCHANGED <<completed_uid, pending_uid, pending_attempt>>

PayloadGivenUp == \E n \in Cardinality(pending_blocks) .. PayloadBlocks - 1 :
  /\ at = "payload"
  /\ Exhausted(n)
  /\ Finish("ReadFailed")

PayloadAttempt ==
  /\ PayloadRead \/ PayloadRetried \/ PayloadGivenUp
  /\ at' = "poll"
  /\ target' = None
  /\ Pause(None, None, TRUE)
  /\ UNCHANGED <<typeV, empty_iso_a_polls>>

-----------------------------------------------------------------------------

\* The chip is initialized; if that fails the task ends.
Start ==
  /\ at = "start"
  /\ \/ Succeeds("iso_a") /\ at' = "poll"
     \/ Fails("iso_a") /\ at' = "unavailable"
  /\ UNCHANGED <<target, completed_uid, payload, prefetched_target, times, typeV,
                 empty_iso_a_polls, event>>

TypeVPoll == TypeVPresent \/ TypeVMissing(TRUE) \/ TypeVMissing(FALSE)
EmptyPoll == NoTarget \/ NoTargetNoTypeV \/ \E t \in NfcV : FoundTypeV(t)
FailedPoll == ActivationResets \/ ActivationGarbled
TargetPoll == TargetIgnored \/ TargetUnsupported \/ TargetReads
MemoryRead == ReadTypeVBlock \/ TypeVBlockFails

Next == Start \/ TypeVPoll \/ EmptyPoll \/ FailedPoll \/ TargetPoll \/ PayloadAttempt \/ MemoryRead

\* The task never waits for anything but the chip and the clock.
Spec == Init /\ [][Next]_vars /\ WF_vars(Next)

-----------------------------------------------------------------------------
(* Properties *)

\* Every variable holds a value of its kind; the attempts stay within their limits.
TypeOK ==
  /\ at \in {"start", "poll", "payload", "blocks", "unavailable"}
  /\ rf \in {"off", "iso_a", "iso_v"}
  /\ target \in Tags \cup {None}
  /\ completed_uid \in IsoA \cup {None}
  /\ pending_uid \in Classic \cup {None}
  /\ pending_blocks \subseteq Classic \X (1 .. PayloadBlocks)
  /\ pending_attempt \in 0 .. MAX_PAYLOAD_ATTEMPTS
  /\ stalled_attempts \in 0 .. MAX_STALLED_ATTEMPTS - 1
  /\ prefetched_target \in IsoA \cup {None}
  /\ missing_since \in {None} \cup 0 .. Grace
  /\ transient_error_since \in {None} \cup 0 .. Recovery
  /\ completed_type_v_uid \in NfcV \cup {None}
  /\ empty_iso_a_polls \in 0 .. 1
  /\ memory \in 0 .. MemoryBlocks
  /\ attempt \in 0 .. OPENPRINTTAG_BLOCK_ATTEMPTS
  /\ event \in [kind : {"none", "Reading", "Retrying", "TagRead", "ReadFailed", "UnsupportedTag", "TagRemoved"},
                tag : Tags \cup {None}, next : 0 .. MAX_PAYLOAD_ATTEMPTS]
  /\ silent \in 0 .. Grace
  /\ failures \in 0 .. MaxFailures

\* The observers are told of placements as ScanProtocol promises: no tag is
\* delivered unannounced or twice, a placement ends once, and only a removal
\* makes way for the next (run, pn5180_reader.rs:61-293).
ImplementsScanProtocol == Protocol!Spec

\* At most one latch is set, and an NFC-V tag is read and latched only while
\* the field is configured for it.  That at most one of completed_uid and
\* pending_uid is set is what makes completed_uid.take() || pending_uid.take()
\* clear both (pn5180_reader.rs:181).
LatchesExclusive ==
  /\ pending_uid # None => completed_uid = None
  /\ (completed_type_v_uid # None \/ at = "blocks") =>
       rf = "iso_v" /\ completed_uid = None /\ pending_uid = None

\* Blocks kept for a retry belong to the tag being read, so a delivered
\* payload is that of one tag (pending_blocks, pn5180_reader.rs:51).
BlocksOfPendingTag == pending_blocks \subseteq {pending_uid} \X (1 .. PayloadBlocks)

Removes == event' # event /\ event'.kind = "TagRemoved"

\* An ISO-A placement is removed only after the field was silent, without
\* even a garbled answer, for the whole grace period (pn5180_reader.rs:180).
RemovalConfirmed == [][Removes /\ completed_type_v_uid = None => silent = Grace]_vars

\* The same for every placement.  README.md:297: "A tag is considered removed
\* after 750 ms of confirmed absence"; the latch of an NFC-V tag takes an
\* error of the inventory for absence (pn5180_reader.rs:74).
EveryRemovalConfirmed == [][Removes => silent = Grace]_vars

\* A poll of a field that is not configured for ISO-A.
BadPoll(Poll) == rf # "iso_a" /\ Poll

\* Whatever goes wrong with the chip, the loop comes back to looking for
\* ISO-A tags or is latched on an NFC-V tag (the calls of initialize_iso_a,
\* pn5180_reader.rs:83, 106, 174), unless empty and garbled polls of the
\* unconfigured field alternate for good: each of them restarts the time of
\* the other (pn5180_reader.rs:100, 124).
ReaderRecovers ==
  \/ (at = "poll" /\ rf # "iso_a") ~> (rf = "iso_a" \/ completed_type_v_uid # None)
  \/ []<><<BadPoll(ActivationGarbled)>>_vars /\ []<><<BadPoll(EmptyPoll)>>_vars
=============================================================================
