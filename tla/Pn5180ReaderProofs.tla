------------------------- MODULE Pn5180ReaderProofs -------------------------
(***************************************************************************)
(* Theorems about the scan loop of the PN5180 reader, for any tags, any    *)
(* number of blocks and any length of the grace period.                    *)
(***************************************************************************)
EXTENDS Pn5180Reader, FiniteSetTheorems, TLAPS

\* A tag prefetched for a retry is kept only while a placement is being read.
PrefetchedIsRetry == prefetched_target # None => pending_uid # None

\* While the blocks of a tag are read, no other state of the task matters.
Phases ==
  /\ at = "payload" => /\ target = pending_uid /\ pending_uid # None
                       /\ completed_type_v_uid = None
                       /\ prefetched_target = None
  /\ at = "blocks" => /\ target \in NfcV
                      /\ completed_type_v_uid = None
                      /\ attempt < OPENPRINTTAG_BLOCK_ATTEMPTS
                      /\ memory < MemoryBlocks
  /\ at \in {"start", "unavailable"} =>
       /\ completed_uid = None /\ pending_uid = None /\ completed_type_v_uid = None
       /\ missing_since = None

\* What the last event says of the latches.
EventTells ==
  /\ pending_uid # None =>
       /\ event.kind \in {"Reading", "Retrying"} /\ event.tag = pending_uid
       /\ event.next = IF at = "payload" THEN pending_attempt ELSE pending_attempt + 1
  /\ at = "blocks" => event.kind = "Reading" /\ event.tag = target
  /\ (completed_uid # None \/ completed_type_v_uid # None) =>
       event.kind \notin {"none", "TagRemoved", "Reading", "Retrying"}
  /\ (pending_uid = None /\ completed_uid = None /\ completed_type_v_uid = None /\ at # "blocks") =>
       event.kind \in {"none", "TagRemoved"}

\* An ISO-A tag has been missing no longer than the field has been silent.
SilentSince ==
  at = "poll" /\ completed_type_v_uid = None /\ missing_since # None => missing_since <= silent

IInv ==
  /\ TypeOK
  /\ LatchesExclusive
  /\ BlocksOfPendingTag
  /\ PrefetchedIsRetry
  /\ Phases
  /\ EventTells
  /\ SilentSince

Kinds == {"none", "Reading", "Retrying", "TagRead", "ReadFailed", "UnsupportedTag", "TagRemoved"}
Times == {None} \cup 0 .. Grace

-----------------------------------------------------------------------------
(* Events, time and the field *)

LEMMA EventType ==
  ASSUME NEW kind \in Kinds, NEW t \in Tags \cup {None}, NEW n \in 0 .. MAX_PAYLOAD_ATTEMPTS
  PROVE  /\ Event(kind, t, n) \in [kind : Kinds, tag : Tags \cup {None}, next : 0 .. MAX_PAYLOAD_ATTEMPTS]
         /\ Event(kind, t, n).kind = kind
         /\ Event(kind, t, n).tag = t
         /\ Event(kind, t, n).next = n
BY DEF Event, Protocol!Event

LEMMA OrNowTime ==
  ASSUME NEW since \in Times
  PROVE  OrNow(since) \in 0 .. Grace /\ OrNow(since) # None
BY ConstantsAssumption DEF OrNow, Times

\* What is missing stays missing, and a field that did not answer was silent for
\* at least as long.
LEMMA PauseTimes ==
  ASSUME NEW missing \in Times, NEW transient \in {None} \cup 0 .. Recovery, NEW answered \in BOOLEAN,
         silent \in 0 .. Grace,
         Pause(missing, transient, answered)
  PROVE  /\ missing_since' \in Times
         /\ transient_error_since' \in {None} \cup 0 .. Recovery
         /\ silent' \in 0 .. Grace
         /\ missing = None => missing_since' = None
         /\ missing # None /\ ~answered /\ missing <= silent => missing_since' <= silent'
<1>1. PICK d \in 1 .. Grace :
        /\ missing_since' = Later(missing, d, Grace)
        /\ transient_error_since' = Later(transient, d, Recovery)
        /\ silent' = AtMost((IF answered THEN 0 ELSE silent) + d, Grace)
  BY DEF Pause
<1>2. \A n \in Nat, most \in Nat : AtMost(n, most) \in 0 .. most
  BY DEF AtMost
<1>3. Grace \in Nat /\ Recovery \in Nat /\ d \in Nat /\ None \notin Nat
  BY ConstantsAssumption
<1>4. missing_since' \in Times
  <2>1. CASE missing = None
    BY <1>1, <2>1 DEF Later, Times
  <2>2. CASE missing # None
    <3>1. missing + d \in Nat
      BY <1>3, <2>2 DEF Times
    <3>2. missing_since' = AtMost(missing + d, Grace)
      BY <1>1, <2>2 DEF Later
    <3>3. AtMost(missing + d, Grace) \in 0 .. Grace
      BY <1>2, <1>3, <3>1
    <3> QED
      BY <3>2, <3>3 DEF Times
  <2> QED
    BY <2>1, <2>2
<1>5. transient_error_since' \in {None} \cup 0 .. Recovery
  <2>1. CASE transient = None
    BY <1>1, <2>1 DEF Later
  <2>2. CASE transient # None
    <3>1. transient + d \in Nat
      BY <1>3, <2>2
    <3>2. transient_error_since' = AtMost(transient + d, Recovery)
      BY <1>1, <2>2 DEF Later
    <3>3. AtMost(transient + d, Recovery) \in 0 .. Recovery
      BY <1>2, <1>3, <3>1
    <3> QED
      BY <3>2, <3>3
  <2> QED
    BY <2>1, <2>2
<1>6. silent' \in 0 .. Grace
  <2>1. (IF answered THEN 0 ELSE silent) + d \in Nat
    BY <1>3
  <2> QED
    BY <1>1, <1>2, <1>3, <2>1
<1>7. missing = None => missing_since' = None
  BY <1>1 DEF Later
<1>8. ASSUME missing # None, ~answered, missing <= silent
      PROVE  missing_since' <= silent'
  <2>1. missing \in 0 .. Grace
    BY <1>8 DEF Times
  <2>2. missing_since' = AtMost(missing + d, Grace) /\ silent' = AtMost(silent + d, Grace)
    BY <1>1, <1>8 DEF Later
  <2> QED
    BY <1>3, <1>8, <2>1, <2>2 DEF AtMost
<1> QED
  BY <1>4, <1>5, <1>6, <1>7, <1>8

LEMMA FieldType ==
  ASSUME rf \in {"off", "iso_a", "iso_v"}, failures \in 0 .. MaxFailures,
         NEW protocol \in {"iso_a", "iso_v"},
         Succeeds(protocol) \/ Fails(protocol) \/ ReturnToIsoA
  PROVE  rf' \in {"off", "iso_a", "iso_v"} /\ failures' \in 0 .. MaxFailures
BY ConstantsAssumption DEF Succeeds, Fails, ReturnToIsoA

\* An activation leaves the field in some state, and missing_since as it is or cleared.
LEMMA ActivationResult ==
  ASSUME TypeOK, NEW t, NEW missing, Activation(t, missing)
  PROVE  /\ rf' \in {"off", "iso_a", "iso_v"} /\ failures' \in 0 .. MaxFailures
         /\ missing \in {None, missing_since}
BY FieldType DEF Activation, TypeOK, Succeeds

\* A poll that finds nothing: the placement stays, or it is gone after a silent field.
LEMMA MissingResult ==
  ASSUME IInv, at = "poll", completed_type_v_uid = None, prefetched_target' = None,
         NEW missing \in {None, missing_since}, Missing(missing)
  PROVE  /\ missing_since' \in Times
         /\ transient_error_since' \in {None} \cup 0 .. Recovery
         /\ silent' \in 0 .. Grace
         /\ missing_since' # None => missing_since' <= silent'
         /\ \/ UNCHANGED <<completed_uid, payload, event>>
            \/ /\ completed_uid' = None /\ pending_uid' = None /\ pending_blocks' = {}
               /\ pending_attempt' = 0 /\ stalled_attempts' = 0
               /\ \/ NothingLatched /\ event' = event
                  \/ ~NothingLatched /\ event' = Event("TagRemoved", None, 0) /\ silent = Grace
<1>1. missing \in Times /\ silent \in 0 .. Grace /\ None \in Times /\ Grace \in Nat
      /\ None \notin Nat /\ None \in {None} \cup 0 .. Recovery
  BY ConstantsAssumption DEF IInv, TypeOK, Times
<1>2. OrNow(missing) \in 0 .. Grace /\ OrNow(missing) # None /\ OrNow(missing) <= silent
  <2>1. CASE missing = None
    BY <1>1, <2>1 DEF OrNow
  <2>2. CASE missing # None
    BY <1>1, <2>2 DEF OrNow, IInv, SilentSince, Times
  <2> QED
    BY <2>1, <2>2
<1>3. OrNow(missing) \in Times
  BY <1>2 DEF Times
<1>4. CASE /\ Pause(OrNow(missing), None, FALSE)
           /\ UNCHANGED <<completed_uid, payload, event>>
  BY <1>1, <1>2, <1>3, <1>4, PauseTimes
<1>5. CASE /\ OrNow(missing) >= Grace
           /\ completed_uid' = None
           /\ pending_uid' = IF completed_uid # None THEN pending_uid ELSE None
           /\ event' = Removal
           /\ pending_blocks' = {}
           /\ pending_attempt' = 0
           /\ stalled_attempts' = 0
           /\ Pause(None, None, FALSE)
  <2>1. pending_uid' = None
    BY <1>5 DEF IInv, LatchesExclusive
  <2>2. silent = Grace
    BY <1>1, <1>2, <1>5
  <2>3. /\ missing_since' = None /\ silent' \in 0 .. Grace
        /\ transient_error_since' \in {None} \cup 0 .. Recovery
    BY <1>1, <1>5, PauseTimes
  <2> QED
    BY <1>1, <1>5, <2>1, <2>2, <2>3 DEF Removal
<1> QED
  BY <1>4, <1>5 DEF Missing

LEMMA InitInv ==
  ASSUME Init
  PROVE  IInv
<1>1. event \in [kind : Kinds, tag : Tags \cup {None}, next : 0 .. MAX_PAYLOAD_ATTEMPTS]
      /\ event.kind = "none"
  BY DEF Init, Protocol!NoEvent, Protocol!Event, Kinds, MAX_PAYLOAD_ATTEMPTS
<1>2. TypeOK
  BY <1>1, ConstantsAssumption DEF Init, TypeOK, Kinds, MAX_PAYLOAD_ATTEMPTS, MAX_STALLED_ATTEMPTS,
     OPENPRINTTAG_BLOCK_ATTEMPTS
<1> QED
  BY <1>1, <1>2 DEF Init, IInv, LatchesExclusive, BlocksOfPendingTag, PrefetchedIsRetry, Phases,
     EventTells, SilentSince

-----------------------------------------------------------------------------
(* The NFC-V latch and the start *)

LEMMA StartKeeps ==
  ASSUME IInv, Start
  PROVE  IInv'
<1>1. rf' \in {"off", "iso_a", "iso_v"} /\ failures' \in 0 .. MaxFailures
  BY FieldType DEF IInv, TypeOK, Start
<1>2. TypeOK'
  BY <1>1 DEF IInv, TypeOK, Start, payload, times, typeV
<1>3. LatchesExclusive' /\ BlocksOfPendingTag' /\ PrefetchedIsRetry'
  BY DEF IInv, LatchesExclusive, BlocksOfPendingTag, PrefetchedIsRetry, Phases, Start, payload, typeV
<1>4. Phases' /\ EventTells'
  BY DEF IInv, Phases, EventTells, Start, payload, times, typeV
<1>5. SilentSince'
  BY DEF IInv, Phases, SilentSince, Start, times
<1> QED
  BY <1>2, <1>3, <1>4, <1>5 DEF IInv

LEMMA TypeVPresentKeeps ==
  ASSUME IInv, TypeVPresent
  PROVE  IInv'
<1>1. /\ missing_since' = None
      /\ transient_error_since' \in {None} \cup 0 .. Recovery
      /\ silent' \in 0 .. Grace
  BY PauseTimes DEF IInv, TypeOK, TypeVPresent, Times
<1>2. UNCHANGED <<at, rf, target, completed_uid, payload, prefetched_target, typeV,
                  empty_iso_a_polls, event, failures>>
  BY DEF TypeVPresent
<1>3. TypeOK'
  BY <1>1, <1>2 DEF IInv, TypeOK, payload, typeV
<1>4. LatchesExclusive' /\ BlocksOfPendingTag' /\ PrefetchedIsRetry' /\ Phases' /\ EventTells' /\ SilentSince'
  BY <1>1, <1>2 DEF IInv, LatchesExclusive, BlocksOfPendingTag, PrefetchedIsRetry, Phases, EventTells,
     SilentSince, payload, typeV
<1> QED
  BY <1>3, <1>4 DEF IInv

LEMMA TypeVMissingKeeps ==
  ASSUME IInv, NEW answered \in BOOLEAN, TypeVMissing(answered)
  PROVE  IInv'
<1>1. /\ at = "poll" /\ completed_type_v_uid # None
      /\ UNCHANGED <<at, target, completed_uid, payload, prefetched_target,
                     empty_iso_a_polls, memory, attempt>>
      /\ missing_since \in Times
      /\ transient_error_since \in {None} \cup 0 .. Recovery
      /\ silent \in 0 .. Grace
  BY DEF TypeVMissing, IInv, TypeOK, Times
<1>2. CASE /\ Pause(OrNow(missing_since), transient_error_since, answered)
           /\ UNCHANGED <<rf, completed_type_v_uid, event, failures>>
  <2>1. OrNow(missing_since) \in Times
    BY <1>1, OrNowTime DEF Times
  <2>2. /\ missing_since' \in Times
        /\ transient_error_since' \in {None} \cup 0 .. Recovery
        /\ silent' \in 0 .. Grace
    BY <1>1, <1>2, <2>1, PauseTimes
  <2>3. TypeOK'
    BY <1>1, <1>2, <2>2 DEF IInv, TypeOK, payload, Times
  <2>4. LatchesExclusive' /\ BlocksOfPendingTag' /\ PrefetchedIsRetry' /\ Phases' /\ EventTells' /\ SilentSince'
    BY <1>1, <1>2 DEF IInv, LatchesExclusive, BlocksOfPendingTag, PrefetchedIsRetry, Phases, EventTells,
       SilentSince, payload
  <2> QED
    BY <2>3, <2>4 DEF IInv
<1>3. CASE /\ event' = Event("TagRemoved", None, 0)
           /\ completed_type_v_uid' = None
           /\ InitializeIsoA
           /\ Pause(None, transient_error_since, answered)
  <2>1. /\ missing_since' = None
        /\ transient_error_since' \in {None} \cup 0 .. Recovery
        /\ silent' \in 0 .. Grace
    BY <1>1, <1>3, PauseTimes DEF Times
  <2>2. rf' \in {"off", "iso_a", "iso_v"} /\ failures' \in 0 .. MaxFailures
    BY <1>3, FieldType DEF IInv, TypeOK, InitializeIsoA
  <2>3. /\ event' \in [kind : Kinds, tag : Tags \cup {None}, next : 0 .. MAX_PAYLOAD_ATTEMPTS]
        /\ event'.kind = "TagRemoved"
    BY <1>3, EventType DEF Kinds, MAX_PAYLOAD_ATTEMPTS
  <2>4. TypeOK'
    BY <1>1, <1>3, <2>1, <2>2, <2>3 DEF IInv, TypeOK, payload, Kinds
  <2>5. completed_uid = None /\ pending_uid = None
    BY <1>1 DEF IInv, LatchesExclusive
  <2>6. LatchesExclusive' /\ BlocksOfPendingTag' /\ PrefetchedIsRetry' /\ Phases' /\ EventTells' /\ SilentSince'
    BY <1>1, <1>3, <2>1, <2>3, <2>5 DEF IInv, LatchesExclusive, BlocksOfPendingTag, PrefetchedIsRetry,
       Phases, EventTells, SilentSince, payload
  <2> QED
    BY <2>4, <2>6 DEF IInv
<1> QED
  BY <1>2, <1>3 DEF TypeVMissing

-----------------------------------------------------------------------------
(* Polls that find no tag *)

\* A failed activation ends with missing_since cleared and nothing else of the placement changed.
LEMMA FailedPollKeeps ==
  ASSUME IInv, FailedPoll
  PROVE  IInv'
<1>1. /\ at = "poll" /\ completed_type_v_uid = None
      /\ UNCHANGED <<at, target, completed_uid, payload, prefetched_target, typeV,
                     empty_iso_a_polls, event>>
  BY DEF FailedPoll, ActivationResets, ActivationGarbled, Polls
<1>2. /\ None \in Times /\ None \in {None} \cup 0 .. Recovery /\ silent \in 0 .. Grace
      /\ OrNow(transient_error_since) \in {None} \cup 0 .. Recovery
  BY ConstantsAssumption DEF IInv, TypeOK, Times, OrNow
<1>3. Pause(None, None, TRUE) \/ Pause(None, OrNow(transient_error_since), TRUE)
  BY DEF FailedPoll, ActivationResets, ActivationGarbled, AfterError
<1>4. /\ missing_since' = None
      /\ transient_error_since' \in {None} \cup 0 .. Recovery
      /\ silent' \in 0 .. Grace
  BY <1>2, <1>3, PauseTimes
<1>5. rf' \in {"off", "iso_a", "iso_v"} /\ failures' \in 0 .. MaxFailures
  BY FieldType DEF IInv, TypeOK, FailedPoll, ActivationResets, ActivationGarbled, InitializeIsoA
<1>6. TypeOK'
  BY <1>1, <1>4, <1>5 DEF IInv, TypeOK, payload, typeV
<1>7. LatchesExclusive' /\ BlocksOfPendingTag' /\ PrefetchedIsRetry' /\ Phases' /\ EventTells' /\ SilentSince'
  BY <1>1, <1>4 DEF IInv, LatchesExclusive, BlocksOfPendingTag, PrefetchedIsRetry, Phases, EventTells,
     SilentSince, payload, typeV
<1> QED
  BY <1>6, <1>7 DEF IInv

\* An empty poll, with an NFC-V scan or without.
LEMMA EmptyPollStep ==
  ASSUME IInv, NoTarget \/ NoTargetNoTypeV
  PROVE  /\ at = "poll" /\ completed_type_v_uid = None
         /\ UNCHANGED <<at, target, typeV>>
         /\ prefetched_target' = None
         /\ rf' \in {"off", "iso_a", "iso_v"} /\ failures' \in 0 .. MaxFailures
         /\ empty_iso_a_polls' \in 0 .. 1
         /\ \E missing \in {None, missing_since} : Missing(missing)
<1>1. CASE NoTarget
  <2>1. PICK missing \in {None} \cup 0 .. Grace : Activation(None, missing) /\ Missing(missing)
    BY <1>1 DEF NoTarget
  <2>2. /\ rf' \in {"off", "iso_a", "iso_v"} /\ failures' \in 0 .. MaxFailures
        /\ missing \in {None, missing_since}
    BY <2>1, ActivationResult DEF IInv
  <2>3. empty_iso_a_polls' \in 0 .. 1
    BY <1>1 DEF NoTarget, ScanDue, IInv, TypeOK
  <2> QED
    BY <1>1, <2>1, <2>2, <2>3 DEF NoTarget, Polls
<1>2. CASE NoTargetNoTypeV
  <2>1. PICK missing \in {None} \cup 0 .. Grace : ActivatesNothing(missing) /\ Missing(missing)
    BY <1>2 DEF NoTargetNoTypeV
  <2>2. ReturnToIsoA
    BY <1>2 DEF NoTargetNoTypeV
  <2>3. rf' \in {"off", "iso_a", "iso_v"} /\ failures' \in 0 .. MaxFailures
    BY <2>2, FieldType DEF IInv, TypeOK
  <2> QED
    BY <1>2, <2>1, <2>3 DEF NoTargetNoTypeV, ActivatesNothing, Polls
<1> QED
  BY <1>1, <1>2

LEMMA EmptyPollKeeps ==
  ASSUME IInv, NoTarget \/ NoTargetNoTypeV
  PROVE  IInv'
<1>1. /\ at = "poll" /\ completed_type_v_uid = None
      /\ UNCHANGED <<at, target, typeV>>
      /\ prefetched_target' = None
      /\ rf' \in {"off", "iso_a", "iso_v"} /\ failures' \in 0 .. MaxFailures
      /\ empty_iso_a_polls' \in 0 .. 1
  BY EmptyPollStep
<1>2. PICK missing \in {None, missing_since} : Missing(missing)
  BY EmptyPollStep
<1>3. /\ missing_since' \in Times
      /\ transient_error_since' \in {None} \cup 0 .. Recovery
      /\ silent' \in 0 .. Grace
      /\ missing_since' # None => missing_since' <= silent'
  BY <1>1, <1>2, MissingResult
<1>4. CASE UNCHANGED <<completed_uid, payload, event>>
  <2>1. TypeOK'
    BY <1>1, <1>3, <1>4 DEF IInv, TypeOK, payload, typeV, Times
  <2>2. LatchesExclusive' /\ BlocksOfPendingTag' /\ PrefetchedIsRetry' /\ Phases' /\ EventTells' /\ SilentSince'
    BY <1>1, <1>3, <1>4 DEF IInv, LatchesExclusive, BlocksOfPendingTag, PrefetchedIsRetry, Phases,
       EventTells, SilentSince, payload, typeV
  <2> QED
    BY <2>1, <2>2 DEF IInv
<1>5. CASE /\ completed_uid' = None /\ pending_uid' = None /\ pending_blocks' = {}
           /\ pending_attempt' = 0 /\ stalled_attempts' = 0
           /\ \/ NothingLatched /\ event' = event
              \/ ~NothingLatched /\ event' = Event("TagRemoved", None, 0)
  <2>1. /\ event' \in [kind : Kinds, tag : Tags \cup {None}, next : 0 .. MAX_PAYLOAD_ATTEMPTS]
        /\ event'.kind \in {"none", "TagRemoved"}
    <3>1. CASE NothingLatched /\ event' = event
      BY <1>1, <3>1 DEF NothingLatched, IInv, EventTells, TypeOK, Kinds
    <3>2. CASE event' = Event("TagRemoved", None, 0)
      BY <3>2, EventType DEF Kinds, MAX_PAYLOAD_ATTEMPTS
    <3> QED
      BY <1>5, <3>1, <3>2
  <2>2. TypeOK'
    BY <1>1, <1>3, <1>5, <2>1 DEF IInv, TypeOK, typeV, Times, Kinds, MAX_PAYLOAD_ATTEMPTS, MAX_STALLED_ATTEMPTS
  <2>3. LatchesExclusive' /\ BlocksOfPendingTag' /\ PrefetchedIsRetry' /\ Phases' /\ EventTells' /\ SilentSince'
    BY <1>1, <1>3, <1>5, <2>1 DEF IInv, LatchesExclusive, BlocksOfPendingTag, PrefetchedIsRetry, Phases,
       EventTells, SilentSince, typeV
  <2> QED
    BY <2>2, <2>3 DEF IInv
<1> QED
  BY <1>1, <1>2, <1>4, <1>5, MissingResult

-----------------------------------------------------------------------------
(* The memory of an NFC-V tag *)

\* A tag is latched with an event that ends its placement.
LEMMA LatchResult ==
  ASSUME IInv, NEW t \in NfcV, NEW kind \in {"TagRead", "ReadFailed"}, Latch(t, kind)
  PROVE  /\ at' = "poll" /\ target' = None /\ completed_type_v_uid' = t /\ t # None
         /\ event' \in [kind : Kinds, tag : Tags \cup {None}, next : 0 .. MAX_PAYLOAD_ATTEMPTS]
         /\ event'.kind = kind
         /\ missing_since' = None
         /\ transient_error_since' \in {None} \cup 0 .. Recovery
         /\ silent' \in 0 .. Grace
<1>1. t \in Tags /\ t # None
  BY ConstantsAssumption DEF Tags
<1>2. Pause(None, None, TRUE) /\ None \in Times /\ silent \in 0 .. Grace
  BY DEF Latch, IInv, TypeOK, Times
<1>3. /\ missing_since' = None
      /\ transient_error_since' \in {None} \cup 0 .. Recovery
      /\ silent' \in 0 .. Grace
  BY <1>2, PauseTimes
<1>4. /\ event' \in [kind : Kinds, tag : Tags \cup {None}, next : 0 .. MAX_PAYLOAD_ATTEMPTS]
      /\ event'.kind = kind
  BY <1>1, EventType DEF Latch, Kinds, MAX_PAYLOAD_ATTEMPTS
<1> QED
  BY <1>1, <1>3, <1>4 DEF Latch

LEMMA FoundTypeVKeeps ==
  ASSUME IInv, NEW t \in NfcV, FoundTypeV(t)
  PROVE  IInv'
<1>1. /\ at = "poll" /\ completed_type_v_uid = None
      /\ completed_uid = None /\ pending_uid = None
      /\ UNCHANGED <<completed_uid, payload, prefetched_target, failures>>
      /\ rf' = "iso_v" /\ empty_iso_a_polls' = 0 /\ memory' = 0 /\ attempt' = 0
      /\ MemoryBlocks \in Nat \ {0}
  BY ConstantsAssumption DEF FoundTypeV, Polls, ScanDue, NothingLatched, Succeeds
<1>2. CASE Latch(t, "ReadFailed")
  <2>1. TypeOK'
    BY <1>1, <1>2, LatchResult DEF IInv, TypeOK, payload, Kinds, OPENPRINTTAG_BLOCK_ATTEMPTS
  <2>2. LatchesExclusive' /\ BlocksOfPendingTag' /\ PrefetchedIsRetry' /\ Phases' /\ EventTells' /\ SilentSince'
    BY <1>1, <1>2, LatchResult DEF IInv, LatchesExclusive, BlocksOfPendingTag, PrefetchedIsRetry, Phases,
       EventTells, SilentSince, payload
  <2> QED
    BY <2>1, <2>2 DEF IInv
<1>3. CASE /\ event' = Event("Reading", t, 1) /\ at' = "blocks" /\ target' = t
           /\ missing_since' = None /\ transient_error_since' = None /\ silent' = 0
           /\ UNCHANGED completed_type_v_uid
  <2>1. t \in Tags
    BY DEF Tags
  <2>2. /\ event' \in [kind : Kinds, tag : Tags \cup {None}, next : 0 .. MAX_PAYLOAD_ATTEMPTS]
        /\ event'.kind = "Reading" /\ event'.tag = t
    BY <1>3, <2>1, EventType DEF Kinds, MAX_PAYLOAD_ATTEMPTS
  <2>3. TypeOK'
    BY <1>1, <1>3, <2>1, <2>2, ConstantsAssumption DEF IInv, TypeOK, payload, Kinds, OPENPRINTTAG_BLOCK_ATTEMPTS
  <2>4. LatchesExclusive' /\ BlocksOfPendingTag' /\ PrefetchedIsRetry' /\ Phases' /\ EventTells' /\ SilentSince'
    BY <1>1, <1>3, <2>2 DEF IInv, LatchesExclusive, BlocksOfPendingTag, PrefetchedIsRetry, Phases,
       EventTells, SilentSince, payload, OPENPRINTTAG_BLOCK_ATTEMPTS
  <2> QED
    BY <2>3, <2>4 DEF IInv
<1> QED
  BY <1>2, <1>3 DEF FoundTypeV

\* A block is read, or fails, and is not the last one; or the tag is latched.
LEMMA MemoryReadKeeps ==
  ASSUME IInv, MemoryRead
  PROVE  IInv'
<1>1. /\ at = "blocks" /\ target \in NfcV /\ completed_type_v_uid = None
      /\ completed_uid = None /\ pending_uid = None /\ rf = "iso_v"
      /\ UNCHANGED <<rf, completed_uid, payload, prefetched_target, empty_iso_a_polls, failures>>
  BY DEF MemoryRead, ReadTypeVBlock, TypeVBlockFails, IInv, Phases, LatchesExclusive
<1>2. memory' \in 0 .. MemoryBlocks /\ attempt' \in 0 .. OPENPRINTTAG_BLOCK_ATTEMPTS
  BY <1>1, ConstantsAssumption DEF MemoryRead, ReadTypeVBlock, TypeVBlockFails, IInv, TypeOK, Phases,
     OPENPRINTTAG_BLOCK_ATTEMPTS
<1>3. CASE /\ memory' < MemoryBlocks /\ attempt' < OPENPRINTTAG_BLOCK_ATTEMPTS
           /\ UNCHANGED <<at, target, times, completed_type_v_uid, event>>
  <2>1. TypeOK'
    BY <1>1, <1>2, <1>3 DEF IInv, TypeOK, payload, times
  <2>2. LatchesExclusive' /\ BlocksOfPendingTag' /\ PrefetchedIsRetry' /\ Phases' /\ EventTells' /\ SilentSince'
    BY <1>1, <1>3 DEF IInv, LatchesExclusive, BlocksOfPendingTag, PrefetchedIsRetry, Phases,
       EventTells, SilentSince, payload, times
  <2> QED
    BY <2>1, <2>2 DEF IInv
<1>4. CASE \E kind \in {"TagRead", "ReadFailed"} : Latch(target, kind)
  <2>1. PICK kind \in {"TagRead", "ReadFailed"} : Latch(target, kind)
    BY <1>4
  <2>2. /\ at' = "poll" /\ target' = None /\ completed_type_v_uid' \in NfcV /\ completed_type_v_uid' # None
        /\ event' \in [kind : Kinds, tag : Tags \cup {None}, next : 0 .. MAX_PAYLOAD_ATTEMPTS]
        /\ event'.kind \in {"TagRead", "ReadFailed"}
        /\ missing_since' = None
        /\ transient_error_since' \in {None} \cup 0 .. Recovery
        /\ silent' \in 0 .. Grace
    BY <1>1, <2>1, LatchResult
  <2>3. TypeOK'
    BY <1>1, <1>2, <2>2 DEF IInv, TypeOK, payload, Kinds
  <2>4. LatchesExclusive' /\ BlocksOfPendingTag' /\ PrefetchedIsRetry' /\ Phases' /\ EventTells' /\ SilentSince'
    BY <1>1, <2>2 DEF IInv, LatchesExclusive, BlocksOfPendingTag, PrefetchedIsRetry, Phases,
       EventTells, SilentSince, payload
  <2> QED
    BY <2>3, <2>4 DEF IInv
<1>5. CASE ReadTypeVBlock
  BY <1>3, <1>4, <1>5 DEF ReadTypeVBlock, OPENPRINTTAG_BLOCK_ATTEMPTS
<1>6. CASE TypeVBlockFails
  BY <1>3, <1>4, <1>6 DEF TypeVBlockFails, IInv, Phases
<1> QED
  BY <1>5, <1>6 DEF MemoryRead

-----------------------------------------------------------------------------
(* Polls that find a tag *)

LEMMA ActivatesResult ==
  ASSUME IInv, NEW t \in IsoA, Activates(t)
  PROVE  /\ at = "poll" /\ completed_type_v_uid = None /\ t # None /\ t \in Tags
         /\ rf' \in {"off", "iso_a", "iso_v"} /\ failures' \in 0 .. MaxFailures
         /\ empty_iso_a_polls' = 0 /\ prefetched_target' = None
<1>1. PICK missing \in {None} \cup 0 .. Grace : Activation(t, missing)
  BY DEF Activates
<1> QED
  BY <1>1, ActivationResult, ConstantsAssumption DEF Activates, Polls, IInv, Tags

LEMMA TargetIgnoredKeeps ==
  ASSUME IInv, TargetIgnored
  PROVE  IInv'
<1>1. PICK t \in IsoA : Activates(t)
  BY DEF TargetIgnored
<1>2. /\ at = "poll" /\ completed_type_v_uid = None
      /\ rf' \in {"off", "iso_a", "iso_v"} /\ failures' \in 0 .. MaxFailures
      /\ empty_iso_a_polls' = 0 /\ prefetched_target' = None
      /\ UNCHANGED <<at, target, completed_uid, payload, typeV, event>>
  BY <1>1, ActivatesResult DEF TargetIgnored
<1>3. /\ missing_since' = None
      /\ transient_error_since' \in {None} \cup 0 .. Recovery
      /\ silent' \in 0 .. Grace
  BY PauseTimes DEF IInv, TypeOK, TargetIgnored, Times
<1>4. TypeOK'
  BY <1>2, <1>3 DEF IInv, TypeOK, payload, typeV
<1>5. LatchesExclusive' /\ BlocksOfPendingTag' /\ PrefetchedIsRetry' /\ Phases' /\ EventTells' /\ SilentSince'
  BY <1>2, <1>3 DEF IInv, LatchesExclusive, BlocksOfPendingTag, PrefetchedIsRetry, Phases, EventTells,
     SilentSince, payload, typeV
<1> QED
  BY <1>4, <1>5 DEF IInv

LEMMA TargetUnsupportedKeeps ==
  ASSUME IInv, TargetUnsupported
  PROVE  IInv'
<1>1. PICK t \in IsoA \ Classic :
        /\ Activates(t) /\ ~Ignored(t)
        /\ event' = Event("UnsupportedTag", t, 0) /\ completed_uid' = t
  BY DEF TargetUnsupported
<1>2. /\ at = "poll" /\ completed_type_v_uid = None /\ t # None /\ t \in Tags
      /\ rf' \in {"off", "iso_a", "iso_v"} /\ failures' \in 0 .. MaxFailures
      /\ empty_iso_a_polls' = 0 /\ prefetched_target' = None
      /\ UNCHANGED <<at, target, payload, typeV>>
      /\ missing_since' = None /\ transient_error_since' = None /\ silent' = 0
  BY <1>1, ActivatesResult DEF TargetUnsupported, NoPause
<1>3. pending_uid = None
  BY <1>1 DEF Ignored, IInv, TypeOK
<1>4. /\ event' \in [kind : Kinds, tag : Tags \cup {None}, next : 0 .. MAX_PAYLOAD_ATTEMPTS]
      /\ event'.kind = "UnsupportedTag"
  BY <1>1, <1>2, EventType DEF Kinds, MAX_PAYLOAD_ATTEMPTS
<1>5. TypeOK'
  BY <1>1, <1>2, <1>4, ConstantsAssumption DEF IInv, TypeOK, payload, typeV, Kinds
<1>6. LatchesExclusive' /\ BlocksOfPendingTag' /\ PrefetchedIsRetry' /\ Phases' /\ EventTells' /\ SilentSince'
  BY <1>1, <1>2, <1>3, <1>4 DEF IInv, LatchesExclusive, BlocksOfPendingTag, PrefetchedIsRetry, Phases,
     EventTells, SilentSince, payload, typeV
<1> QED
  BY <1>5, <1>6 DEF IInv

LEMMA TargetReadsKeeps ==
  ASSUME IInv, TargetReads
  PROVE  IInv'
<1>1. PICK t \in Classic :
        /\ Activates(t) /\ ~Ignored(t)
        /\ target' = t /\ pending_uid' = t
        /\ \/ /\ pending_uid = None
              /\ pending_blocks' = {}
              /\ pending_attempt' = 1
              /\ stalled_attempts' = 0
              /\ event' = Event("Reading", t, 1)
           \/ /\ pending_uid = t
              /\ pending_attempt' = pending_attempt + 1
              /\ UNCHANGED <<pending_blocks, stalled_attempts, event>>
  BY DEF TargetReads
<1>2. /\ at = "poll" /\ completed_type_v_uid = None /\ t # None /\ t \in Tags /\ t \in IsoA
      /\ rf' \in {"off", "iso_a", "iso_v"} /\ failures' \in 0 .. MaxFailures
      /\ empty_iso_a_polls' = 0 /\ prefetched_target' = None
      /\ at' = "payload"
      /\ UNCHANGED <<completed_uid, typeV>>
      /\ missing_since' = None /\ transient_error_since' = None /\ silent' = 0
  BY <1>1, ActivatesResult, ConstantsAssumption DEF TargetReads, NoPause
<1>3. completed_uid = None
  BY <1>1 DEF Ignored
<1>4. /\ event' \in [kind : Kinds, tag : Tags \cup {None}, next : 0 .. MAX_PAYLOAD_ATTEMPTS]
      /\ event'.kind \in {"Reading", "Retrying"} /\ event'.tag = t /\ event'.next = pending_attempt'
      /\ pending_attempt' \in 0 .. MAX_PAYLOAD_ATTEMPTS
      /\ pending_blocks' \subseteq {t} \X (1 .. PayloadBlocks)
      /\ stalled_attempts' \in 0 .. MAX_STALLED_ATTEMPTS - 1
  <2>1. CASE pending_uid = None /\ pending_blocks' = {} /\ pending_attempt' = 1
             /\ stalled_attempts' = 0 /\ event' = Event("Reading", t, 1)
    BY <1>2, <2>1, EventType DEF Kinds, MAX_PAYLOAD_ATTEMPTS, MAX_STALLED_ATTEMPTS
  <2>2. CASE pending_uid = t /\ pending_attempt' = pending_attempt + 1
             /\ UNCHANGED <<pending_blocks, stalled_attempts, event>>
    BY <1>2, <2>2 DEF IInv, TypeOK, EventTells, BlocksOfPendingTag, Kinds
  <2> QED
    BY <1>1, <2>1, <2>2
<1>5. TypeOK'
  <2>1. pending_blocks' \subseteq Classic \X (1 .. PayloadBlocks)
    BY <1>4
  <2> QED
    BY <1>1, <1>2, <1>4, <2>1, ConstantsAssumption DEF IInv, TypeOK, typeV, Kinds
<1>6. LatchesExclusive' /\ BlocksOfPendingTag' /\ PrefetchedIsRetry' /\ Phases' /\ EventTells' /\ SilentSince'
  BY <1>1, <1>2, <1>3, <1>4 DEF IInv, LatchesExclusive, BlocksOfPendingTag, PrefetchedIsRetry, Phases,
     EventTells, SilentSince, typeV
<1> QED
  BY <1>5, <1>6 DEF IInv

-----------------------------------------------------------------------------
(* Payload attempts *)

\* What every end of an attempt leaves.
LEMMA AttemptResult ==
  ASSUME IInv, PayloadAttempt
  PROVE  /\ at = "payload" /\ at' = "poll" /\ target' = None
         /\ UNCHANGED <<typeV, empty_iso_a_polls>>
         /\ missing_since' = None
         /\ transient_error_since' \in {None} \cup 0 .. Recovery
         /\ silent' \in 0 .. Grace
         /\ target = pending_uid /\ target \in Classic /\ target \in IsoA /\ target \in Tags /\ target # None
         /\ completed_uid = None /\ completed_type_v_uid = None
         /\ IsFiniteSet(pending_blocks) /\ Cardinality(pending_blocks) \in Nat
<1>1. at = "payload"
  BY DEF PayloadAttempt, PayloadRead, PayloadRetried, PayloadGivenUp
<1>2. Pause(None, None, TRUE) /\ None \in Times /\ silent \in 0 .. Grace
  BY DEF PayloadAttempt, IInv, TypeOK, Times
<1>3. /\ missing_since' = None
      /\ transient_error_since' \in {None} \cup 0 .. Recovery
      /\ silent' \in 0 .. Grace
  BY <1>2, PauseTimes
<1>4. /\ target = pending_uid /\ target \in Classic /\ target \in IsoA /\ target \in Tags /\ target # None
      /\ completed_uid = None /\ completed_type_v_uid = None
  BY <1>1, ConstantsAssumption DEF IInv, TypeOK, Phases, LatchesExclusive, Tags
<1>5. IsFiniteSet(pending_blocks)
  <2>1. IsFiniteSet({target}) /\ IsFiniteSet(1 .. PayloadBlocks)
    <3>1. 1 \in Int /\ PayloadBlocks \in Int
      BY ConstantsAssumption
    <3> QED
      BY <3>1, FS_Singleton, FS_Interval
  <2>2. IsFiniteSet({target} \X (1 .. PayloadBlocks))
    BY <2>1, FS_Product
  <2> QED
    BY <1>4, <2>2, FS_Subset DEF IInv, BlocksOfPendingTag
<1>6. Cardinality(pending_blocks) \in Nat
  BY <1>5, FS_CardinalityType
<1> QED
  BY <1>1, <1>3, <1>4, <1>5, <1>6 DEF PayloadAttempt

LEMMA PayloadFinishKeeps ==
  ASSUME IInv, PayloadAttempt, NEW kind \in {"TagRead", "ReadFailed"}, Finish(kind)
  PROVE  IInv'
<1>1. /\ event' \in [kind : Kinds, tag : Tags \cup {None}, next : 0 .. MAX_PAYLOAD_ATTEMPTS]
      /\ event'.kind \in {"TagRead", "ReadFailed"}
  BY AttemptResult, EventType DEF Finish, Kinds, MAX_PAYLOAD_ATTEMPTS
<1>2. prefetched_target = None
  BY AttemptResult DEF IInv, Phases
<1>3. TypeOK'
  BY <1>1, AttemptResult DEF Finish, IInv, TypeOK, typeV, Kinds, MAX_PAYLOAD_ATTEMPTS, MAX_STALLED_ATTEMPTS
<1>4. LatchesExclusive' /\ BlocksOfPendingTag' /\ PrefetchedIsRetry' /\ Phases' /\ EventTells' /\ SilentSince'
  BY <1>1, <1>2, AttemptResult DEF Finish, IInv, LatchesExclusive, BlocksOfPendingTag, PrefetchedIsRetry,
     Phases, EventTells, SilentSince, typeV
<1> QED
  BY <1>3, <1>4 DEF IInv

LEMMA PayloadRetriedKeeps ==
  ASSUME IInv, PayloadAttempt, PayloadRetried
  PROVE  IInv'
<1>1. PICK n \in Cardinality(pending_blocks) .. PayloadBlocks - 1 :
        /\ ~Exhausted(n)
        /\ pending_blocks' = ReadBlocks(n)
        /\ stalled_attempts' = Stalled(n)
        /\ event' = Event("Retrying", target, pending_attempt + 1)
  BY DEF PayloadRetried
<1>2. UNCHANGED <<completed_uid, pending_uid, pending_attempt>>
  BY DEF PayloadRetried
<1>3. pending_blocks' \subseteq {target} \X (1 .. PayloadBlocks)
  <2>1. Cardinality(pending_blocks) + 1 .. n \subseteq 1 .. PayloadBlocks
    BY AttemptResult, ConstantsAssumption
  <2>2. pending_blocks \subseteq {target} \X (1 .. PayloadBlocks)
    BY AttemptResult DEF IInv, BlocksOfPendingTag
  <2> QED
    BY <1>1, <2>1, <2>2 DEF ReadBlocks
<1>4. stalled_attempts' \in 0 .. MAX_STALLED_ATTEMPTS - 1 /\ pending_attempt + 1 \in 0 .. MAX_PAYLOAD_ATTEMPTS
  BY <1>1, AttemptResult DEF Exhausted, Stalled, IInv, TypeOK, MAX_STALLED_ATTEMPTS, MAX_PAYLOAD_ATTEMPTS
<1>5. /\ event' \in [kind : Kinds, tag : Tags \cup {None}, next : 0 .. MAX_PAYLOAD_ATTEMPTS]
      /\ event'.kind = "Retrying" /\ event'.tag = target /\ event'.next = pending_attempt + 1
  BY <1>1, <1>4, AttemptResult, EventType DEF Kinds
<1>6. rf' \in {"off", "iso_a", "iso_v"} /\ failures' \in 0 .. MaxFailures
  BY FieldType DEF PayloadRetried, Reacquire, IInv, TypeOK
<1>7. prefetched_target' \in IsoA \cup {None}
  BY DEF PayloadRetried, Reacquire
<1>8. TypeOK'
  <2>1. pending_blocks' \subseteq Classic \X (1 .. PayloadBlocks)
    BY <1>3, AttemptResult
  <2> QED
    BY <1>2, <1>4, <1>5, <1>6, <1>7, <2>1, AttemptResult DEF IInv, TypeOK, typeV, Kinds
<1>9. LatchesExclusive' /\ BlocksOfPendingTag' /\ PrefetchedIsRetry' /\ Phases' /\ EventTells' /\ SilentSince'
  BY <1>2, <1>3, <1>5, AttemptResult DEF IInv, LatchesExclusive, BlocksOfPendingTag, PrefetchedIsRetry,
     Phases, EventTells, SilentSince, typeV
<1> QED
  BY <1>8, <1>9 DEF IInv

LEMMA PayloadAttemptKeeps ==
  ASSUME IInv, PayloadAttempt
  PROVE  IInv'
BY PayloadFinishKeeps, PayloadRetriedKeeps DEF PayloadAttempt, PayloadRead, PayloadGivenUp

-----------------------------------------------------------------------------
(* The inductive invariant *)

LEMMA StutterKeeps ==
  ASSUME IInv, UNCHANGED vars
  PROVE  IInv'
<1>1. TypeOK'
  BY DEF vars, payload, times, typeV, IInv, TypeOK
<1>2. LatchesExclusive' /\ BlocksOfPendingTag' /\ PrefetchedIsRetry' /\ Phases' /\ EventTells' /\ SilentSince'
  BY DEF vars, payload, times, typeV, IInv, LatchesExclusive, BlocksOfPendingTag, PrefetchedIsRetry,
     Phases, EventTells, SilentSince
<1> QED
  BY <1>1, <1>2 DEF IInv

LEMMA NextKeeps ==
  ASSUME IInv, Next
  PROVE  IInv'
<1>1. CASE TypeVPoll
  BY <1>1, TypeVPresentKeeps, TypeVMissingKeeps DEF TypeVPoll
<1>2. CASE EmptyPoll
  BY <1>2, EmptyPollKeeps, FoundTypeVKeeps DEF EmptyPoll
<1>3. CASE TargetPoll
  BY <1>3, TargetIgnoredKeeps, TargetUnsupportedKeeps, TargetReadsKeeps DEF TargetPoll
<1> QED
  BY <1>1, <1>2, <1>3, StartKeeps, FailedPollKeeps, PayloadAttemptKeeps, MemoryReadKeeps DEF Next

LEMMA Invariance == Spec => []IInv
<1>1. Init => IInv
  BY InitInv
<1>2. IInv /\ [Next]_vars => IInv'
  BY NextKeeps, StutterKeeps
<1> QED
  BY <1>1, <1>2, PTL DEF Spec

\* Every variable of the scan loop keeps its type; in particular the attempts of
\* a placement and those in a row without a new block stay within their limits
\* (MAX_PAYLOAD_ATTEMPTS and MAX_STALLED_ATTEMPTS, pn5180_reader.rs:28-29).
THEOREM TypeCorrect == Spec => []TypeOK
BY Invariance, PTL DEF IInv

\* At most one latch is set at a time, and the NFC-V latch only while the field is
\* configured for NFC-V (pn5180_reader.rs:49-59, 157-191).
THEOREM OneLatch == Spec => []LatchesExclusive
BY Invariance, PTL DEF IInv

\* The blocks kept for a retry are those of the tag being read (pending_blocks,
\* pn5180_reader.rs:51).
THEOREM OneTagsBlocks == Spec => []BlocksOfPendingTag
BY Invariance, PTL DEF IInv

-----------------------------------------------------------------------------
(* Removals *)

\* What a step that notifies a removal has found, unless an NFC-V tag was latched.
LEMMA RemovalStep ==
  ASSUME IInv, [Next]_vars, Removes, completed_type_v_uid = None
  PROVE  silent = Grace
<1>1. CASE EmptyPoll
  <2>1. CASE NoTarget \/ NoTargetNoTypeV
    <3>1. /\ at = "poll" /\ prefetched_target' = None
      BY <2>1, EmptyPollStep
    <3>2. PICK missing \in {None, missing_since} : Missing(missing)
      BY <2>1, EmptyPollStep
    <3> QED
      BY <3>1, <3>2, MissingResult DEF Removes
  <2>2. CASE \E t \in NfcV : FoundTypeV(t)
    <3>1. PICK t \in NfcV : FoundTypeV(t)
      BY <2>2
    <3>2. t \in Tags
      BY DEF Tags
    <3>3. event' = Event("ReadFailed", t, 0) \/ event' = Event("Reading", t, 1)
      BY <3>1 DEF FoundTypeV, Latch
    <3> QED
      BY <3>2, <3>3, EventType DEF Removes, Kinds, MAX_PAYLOAD_ATTEMPTS
  <2> QED
    BY <1>1, <2>1, <2>2 DEF EmptyPoll
<1>2. CASE TypeVPoll
  BY <1>2 DEF TypeVPoll, TypeVPresent, TypeVMissing
<1>3. CASE FailedPoll \/ Start \/ UNCHANGED vars
  BY <1>3 DEF FailedPoll, ActivationResets, ActivationGarbled, Start, vars, Removes
<1>4. CASE TargetPoll
  <2>1. \E t \in IsoA : event' = event \/ event' = Event("UnsupportedTag", t, 0) \/ event' = Event("Reading", t, 1)
    BY <1>4, ConstantsAssumption DEF TargetPoll, TargetIgnored, TargetUnsupported, TargetReads
  <2> QED
    BY <2>1, EventType DEF Removes, Kinds, Tags, MAX_PAYLOAD_ATTEMPTS
<1>5. CASE PayloadAttempt
  <2>1. target \in Tags
    BY <1>5, AttemptResult
  <2>2. \/ event' = Event("TagRead", target, 0)
        \/ event' = Event("ReadFailed", target, 0)
        \/ event' = Event("Retrying", target, pending_attempt + 1) /\ pending_attempt + 1 \in 0 .. MAX_PAYLOAD_ATTEMPTS
    BY <1>5 DEF PayloadAttempt, PayloadRead, PayloadGivenUp, PayloadRetried, Finish, Exhausted,
       MAX_PAYLOAD_ATTEMPTS, IInv, TypeOK
  <2> QED
    BY <2>1, <2>2, EventType DEF Removes, Kinds, MAX_PAYLOAD_ATTEMPTS
<1>6. CASE MemoryRead
  <2>1. target \in NfcV /\ target \in Tags
    BY <1>6 DEF MemoryRead, ReadTypeVBlock, TypeVBlockFails, IInv, Phases, Tags
  <2>2. event' = event \/ event' = Event("TagRead", target, 0) \/ event' = Event("ReadFailed", target, 0)
    BY <1>6 DEF MemoryRead, ReadTypeVBlock, TypeVBlockFails, Latch
  <2> QED
    BY <2>1, <2>2, EventType DEF Removes, Kinds, MAX_PAYLOAD_ATTEMPTS
<1> QED
  BY <1>1, <1>2, <1>3, <1>4, <1>5, <1>6 DEF Next

\* An ISO-A placement is removed only after the whole grace period without any
\* answer, garbled ones included (pn5180_reader.rs:118-124, 180-188).
THEOREM RemovalsConfirmed == Spec => RemovalConfirmed
<1>1. IInv /\ [Next]_vars => [Removes /\ completed_type_v_uid = None => silent = Grace]_vars
  BY RemovalStep
<1> QED
  BY <1>1, Invariance, PTL DEF Spec, RemovalConfirmed

-----------------------------------------------------------------------------
(* The events follow the protocol *)

LEMMA ProtocolInit ==
  ASSUME Init
  PROVE  Protocol!Init
BY DEF Init, Protocol!Init

\* A step of the scan loop notifies at most one event, one the protocol allows.
LEMMA ProtocolStep ==
  ASSUME IInv, [Next]_vars
  PROVE  [Protocol!Next]_event
<1> USE DEF Protocol!Idle, Protocol!ReadingTag, Event
<1>1. CASE EmptyPoll
  <2>1. CASE NoTarget \/ NoTargetNoTypeV
    <3>1. /\ at = "poll" /\ completed_type_v_uid = None /\ prefetched_target' = None
      BY <2>1, EmptyPollStep
    <3>2. PICK missing \in {None, missing_since} : Missing(missing)
      BY <2>1, EmptyPollStep
    <3>3. event' = event \/ (~NothingLatched /\ event' = Event("TagRemoved", None, 0))
      BY <3>1, <3>2, MissingResult
    <3>4. ~NothingLatched => ~Protocol!Idle
      BY DEF NothingLatched, IInv, EventTells
    <3> QED
      BY <3>3, <3>4 DEF Protocol!Next, Protocol!Remove
  <2>2. CASE \E t \in NfcV : FoundTypeV(t)
    <3>1. PICK t \in NfcV : FoundTypeV(t)
      BY <2>2
    <3>2. Protocol!Idle
      BY <3>1 DEF FoundTypeV, Polls, ScanDue, NothingLatched, IInv, EventTells
    <3>3. event' = Event("ReadFailed", t, 0) \/ event' = Event("Reading", t, 1)
      BY <3>1 DEF FoundTypeV, Latch
    <3> QED
      BY <3>2, <3>3 DEF Protocol!Next, Protocol!Announce, Protocol!Fail, Tags
  <2> QED
    BY <1>1, <2>1, <2>2 DEF EmptyPoll
<1>2. CASE TypeVPoll
  <2>1. completed_type_v_uid # None => ~Protocol!Idle
    BY DEF IInv, EventTells
  <2> QED
    BY <1>2, <2>1 DEF TypeVPoll, TypeVPresent, TypeVMissing, Protocol!Next, Protocol!Remove
<1>3. CASE FailedPoll \/ Start \/ UNCHANGED vars
  BY <1>3 DEF FailedPoll, ActivationResets, ActivationGarbled, Start, vars
<1>4. CASE TargetIgnored
  BY <1>4 DEF TargetIgnored
<1>5. CASE TargetUnsupported \/ TargetReads
  <2>1. PICK t \in IsoA :
          /\ Activates(t) /\ ~Ignored(t)
          /\ \/ event' = event
             \/ event' = Event("UnsupportedTag", t, 0) /\ pending_uid = None
             \/ event' = Event("Reading", t, 1) /\ pending_uid = None
    BY <1>5, ConstantsAssumption DEF TargetUnsupported, TargetReads, Ignored, IInv, TypeOK
  <2>2. pending_uid = None => Protocol!Idle
    BY <2>1 DEF Activates, Polls, Ignored, IInv, EventTells
  <2> QED
    BY <2>1, <2>2 DEF Protocol!Next, Protocol!Announce, Protocol!Reject, Tags
<1>6. CASE PayloadAttempt
  <2>1. /\ at = "payload" /\ target \in Tags /\ target = pending_uid /\ pending_uid # None
    BY <1>6, AttemptResult
  <2>2. Protocol!ReadingTag(target) /\ event.next = pending_attempt /\ pending_attempt \in Nat
    BY <2>1 DEF IInv, EventTells, TypeOK
  <2>3. \/ event' = Event("TagRead", target, 0)
        \/ event' = Event("ReadFailed", target, 0)
        \/ event' = Event("Retrying", target, pending_attempt + 1) /\ pending_attempt < MAX_PAYLOAD_ATTEMPTS
    BY <1>6, <2>2 DEF PayloadAttempt, PayloadRead, PayloadGivenUp, PayloadRetried, Finish, Exhausted,
       MAX_PAYLOAD_ATTEMPTS
  <2> QED
    BY <2>1, <2>2, <2>3 DEF Protocol!Next, Protocol!Deliver, Protocol!Fail, Protocol!Retry
<1>7. CASE MemoryRead
  <2>1. target \in Tags /\ Protocol!ReadingTag(target)
    BY <1>7 DEF MemoryRead, ReadTypeVBlock, TypeVBlockFails, IInv, Phases, EventTells, Tags
  <2>2. event' = event \/ event' = Event("TagRead", target, 0) \/ event' = Event("ReadFailed", target, 0)
    BY <1>7 DEF MemoryRead, ReadTypeVBlock, TypeVBlockFails, Latch
  <2> QED
    BY <2>1, <2>2 DEF Protocol!Next, Protocol!Deliver, Protocol!Fail
<1> QED
  BY <1>1, <1>2, <1>3, <1>4, <1>5, <1>6, <1>7 DEF Next, TargetPoll

\* The scan loop implements the protocol its observers rely on: no tag is delivered
\* unannounced or twice, a placement ends once and is left by a removal before the
\* next (run, pn5180_reader.rs:61-293).
THEOREM ImplementsProtocol == Spec => ImplementsScanProtocol
BY Invariance, ProtocolInit, ProtocolStep, PTL DEF Spec, ImplementsScanProtocol, Protocol!Spec
=============================================================================
