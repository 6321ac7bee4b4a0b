----------------------------- MODULE Pn532Reader -----------------------------
(***************************************************************************)
(* The scan loop of the PN532 reader: run in shared/src/pn532_reader.rs.   *)
(*                                                                         *)
(* Each iteration asks the chip for one ISO-A tag and waits up to a minute *)
(* for it.  A tag that goes on answering stays latched; a MIFARE Classic   *)
(* that is not latched is read, in up to five attempts, one for each time  *)
(* the chip finds it.  Any error of the exchange counts as a removal.      *)
(*                                                                         *)
(* What the chip answers is arbitrary.  A latched tag is fresh while less  *)
(* than Fresh has passed since completed_uid_last_seen; last_seen is that  *)
(* time, up to Fresh.                                                      *)
(***************************************************************************)
EXTENDS Naturals, FiniteSets

CONSTANTS
  IsoA,           \* tags that answer an ISO-A activation
  Classic,        \* those that are MIFARE Classic 1K
  None,           \* no tag
  PayloadBlocks,  \* PAYLOAD_BLOCK_COUNT
  Fresh           \* 500 ms

MAX_ATTEMPTS == 5

VARIABLES
  at,                   \* where the task is
  target,               \* the tag the iteration is about
  completed_uid, last_seen, pending_uid, pending_blocks, pending_attempt,
  event,                \* the event notified last
  announced,            \* history: the tag of the last Reading, until its read ended
  misses                \* history: the last exchanges that failed in a row, up to two

latch == <<completed_uid, last_seen>>
payload == <<pending_uid, pending_blocks, pending_attempt>>
vars == <<at, target, latch, payload, event, announced, misses>>

Event(kind, tag) == [kind |-> kind, tag |-> tag]

Init ==
  /\ at = "start"
  /\ target = None
  /\ completed_uid = None
  /\ last_seen = 0
  /\ pending_uid = None
  /\ pending_blocks = {}
  /\ pending_attempt = 0
  /\ event = Event("none", None)
  /\ announced = None
  /\ misses = 0

\* wake_up and the SAM configuration; if they fail the task ends.
Start ==
  /\ at = "start"
  /\ at' \in {"poll", "unavailable"}
  /\ UNCHANGED <<target, latch, payload, event, announced, misses>>

\* The chip answers, or gives up, when this much time has passed.
Polls(elapsed) == at = "poll" /\ elapsed \in last_seen .. Fresh

\* The exchange fails or times out.  A latched tag that is taken leaves the
\* pending one in place: the second take is then not evaluated.
PendingAfterError_kept == pending_uid
PendingAfterError == IF completed_uid # None THEN pending_uid ELSE None

NoTarget == \E elapsed \in 0 .. Fresh :
  /\ Polls(elapsed)
  /\ event' = IF completed_uid = None /\ pending_uid = None THEN event ELSE Event("TagRemoved", None)
  /\ completed_uid' = None
  /\ last_seen' = elapsed
  /\ pending_uid' = PendingAfterError
  /\ pending_blocks' = {}
  /\ pending_attempt' = 0
  /\ misses' = IF misses = 0 THEN 1 ELSE 2
  /\ UNCHANGED <<at, target, announced>>

\* An answer without a target, or with a malformed one.
Unusable == \E elapsed \in 0 .. Fresh :
  /\ Polls(elapsed)
  /\ last_seen' = elapsed
  /\ \/ UNCHANGED event
     \/ event' = Event("ReadFailed", None)
  /\ misses' = 0
  /\ UNCHANGED <<at, target, completed_uid, payload, announced>>

StillThere == \E elapsed \in 0 .. Fresh :
  /\ Polls(elapsed)
  /\ completed_uid # None
  /\ elapsed < Fresh
  /\ last_seen' = 0
  /\ misses' = 0
  /\ UNCHANGED <<at, target, completed_uid, payload, event, announced>>

\* The latched tag was away for a while: it is handled as a new placement.
PlacedAgain ==
  /\ Polls(Fresh)
  /\ completed_uid # None
  /\ event' = Event("TagRemoved", None)
  /\ at' = "target"
  /\ target' = completed_uid
  /\ completed_uid' = None
  /\ last_seen' = Fresh
  /\ misses' = 0
  /\ UNCHANGED <<payload, announced>>

\* The iteration goes on with t, which is not latched.
Handles(t) ==
  \/ at = "poll" /\ t # completed_uid
  \/ at = "target" /\ t = target

Latch(t) == completed_uid' = t /\ last_seen' = 0

Unsupported == \E t \in IsoA \ Classic :
  /\ Handles(t)
  /\ event' = Event("UnsupportedTag", t)
  /\ Latch(t)
  /\ misses' = 0
  /\ at' = "poll"
  /\ target' = None
  /\ UNCHANGED <<payload, announced>>

\* Whether t starts a placement, or is tried again.
Starts_onlyIfIdle(t) == pending_uid = None
Starts(t) == pending_uid # t

Attempt == \E t \in Classic :
  /\ Handles(t)
  /\ at' = "payload"
  /\ target' = t
  /\ last_seen' \in last_seen .. Fresh
  /\ misses' = 0
  /\ \/ /\ Starts(t)
        /\ pending_uid' = t
        /\ pending_blocks' = {}
        /\ pending_attempt' = 1
        /\ event' = Event("Reading", t)
        /\ announced' = t
     \/ /\ ~Starts(t)
        /\ pending_attempt' = pending_attempt + 1
        /\ UNCHANGED <<pending_uid, pending_blocks, event, announced>>
  /\ UNCHANGED completed_uid

\* read_bambulab_payload_into: the blocks that were missing, up to the n-th.
ReadBlocks(n) == pending_blocks \cup ({target} \X (Cardinality(pending_blocks) + 1 .. n))

\* The placement ends with an event of this kind and is latched.
Finish_staysPending(kind) ==
  /\ event' = Event(kind, target)
  /\ announced' = None
  /\ Latch(target)
  /\ pending_blocks' = {}
  /\ pending_attempt' = 0
  /\ UNCHANGED pending_uid

Finish(kind) ==
  /\ event' = Event(kind, target)
  /\ announced' = None
  /\ Latch(target)
  /\ pending_uid' = None
  /\ pending_blocks' = {}
  /\ pending_attempt' = 0

PayloadRead == Finish("TagRead")

Exhausted_offByOne == pending_attempt > MAX_ATTEMPTS
Exhausted == pending_attempt >= MAX_ATTEMPTS

\* The attempt fails after the n-th block and is made again at the next poll.
PayloadRetried == \E n \in Cardinality(pending_blocks) .. PayloadBlocks - 1 :
  /\ ~Exhausted
  /\ pending_blocks' = ReadBlocks(n)
  /\ event' = Event("Retrying", target)
  /\ UNCHANGED <<latch, pending_uid, pending_attempt, announced>>

PayloadGivenUp ==
  /\ Exhausted
  /\ Finish("ReadFailed")

PayloadAttempt ==
  /\ at = "payload"
  /\ PayloadRead \/ PayloadRetried \/ PayloadGivenUp
  /\ at' = "poll"
  /\ target' = None
  /\ UNCHANGED misses

Next ==
  \/ Start
  \/ NoTarget \/ Unusable
  \/ StillThere \/ PlacedAgain
  \/ Unsupported \/ Attempt
  \/ PayloadAttempt

\* Every exchange ends: with an answer, an error or its timeout.
Spec == Init /\ [][Next]_vars /\ WF_vars(Next)

-----------------------------------------------------------------------------
(* Properties *)

\* Every variable holds a value of its kind; no read exceeds its attempts, and
\* none starts at the limit.
TypeOK ==
  /\ at \in {"start", "poll", "target", "payload", "unavailable"}
  /\ target \in IsoA \cup {None}
  /\ completed_uid \in IsoA \cup {None}
  /\ last_seen \in 0 .. Fresh
  /\ pending_uid \in Classic \cup {None}
  /\ pending_blocks \subseteq Classic \X (1 .. PayloadBlocks)
  /\ pending_attempt \in 0 .. MAX_ATTEMPTS
  /\ event \in [kind : {"none", "Reading", "Retrying", "TagRead", "ReadFailed",
                        "UnsupportedTag", "TagRemoved"},
                tag : IsoA \cup {None}]
  /\ announced \in Classic \cup {None}
  /\ misses \in 0 .. 2

\* The blocks kept for another attempt are the first blocks of the pending tag,
\* which is the one announced last, whatever other tags came in between: a
\* delivered payload is never put together from two tags (pending_blocks,
\* pn532_reader.rs:66, 136).
BlocksOfAnnouncedTag ==
  /\ pending_uid \in {None, announced}
  /\ pending_blocks = {pending_uid} \X (1 .. Cardinality(pending_blocks))

Reports(kinds) == event' # event /\ event'.kind \in kinds /\ event'.tag # None

\* The observers are told of a retry and of the end of a read only after its
\* announcement, and once; a tag whose read ended is not reported again
\* before something else is (pn532_reader.rs:114, 136-193).
ReportsAnnounced == [][
  /\ Reports({"Retrying", "TagRead", "ReadFailed"}) => announced = event'.tag
  /\ event.kind \in {"TagRead", "ReadFailed", "UnsupportedTag"} /\ event.tag # None =>
       event'.tag # event.tag \/ event' = event]_vars

\* Two failed exchanges in a row leave nothing latched or pending, and the
\* observers are told that no tag is there.  One is not enough: it clears only
\* the latch if both are set, and TagRemoved then leaves the pending tag behind
\* (completed_uid.take() || pending_uid.take(), pn532_reader.rs:84).
ForgetsSilentTags ==
  misses = 2 => completed_uid = None /\ pending_uid = None /\ event.tag = None
=============================================================================
