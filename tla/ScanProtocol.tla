----------------------------- MODULE ScanProtocol -----------------------------
(***************************************************************************)
(* What an RFID reader promises its observers (ReaderEvent and             *)
(* RfidReaderObserver in shared/src/reader.rs): a placement is announced,  *)
(* retried a few times, ended once, and left by a removal before the next  *)
(* one is announced.                                                       *)
(***************************************************************************)
EXTENDS Naturals

CONSTANTS
  Tags,
  None,         \* no tag
  MaxAttempts   \* payload attempts of one placement

VARIABLE event  \* the event notified last

\* next: the number of the attempt that follows, 1 for the announcement.
Event(kind, tag, next) == [kind |-> kind, tag |-> tag, next |-> next]

NoEvent == Event("none", None, 0)

\* No placement is going on.
Idle == event.kind \in {"none", "TagRemoved"}

\* The placement of t has been announced and has not ended.
ReadingTag(t) == event.kind \in {"Reading", "Retrying"} /\ event.tag = t

Init == event = NoEvent

Announce(t) == Idle /\ event' = Event("Reading", t, 1)

Retry(t) ==
  /\ ReadingTag(t)
  /\ event.next < MaxAttempts
  /\ event' = Event("Retrying", t, event.next + 1)

Deliver(t) == ReadingTag(t) /\ event' = Event("TagRead", t, 0)

\* A tag whose memory cannot be asked for fails without being announced.
Fail(t) == (Idle \/ ReadingTag(t)) /\ event' = Event("ReadFailed", t, 0)

Reject(t) == Idle /\ event' = Event("UnsupportedTag", t, 0)

Remove == ~Idle /\ event' = Event("TagRemoved", None, 0)

Next ==
  \/ \E t \in Tags : Announce(t) \/ Retry(t) \/ Deliver(t) \/ Fail(t) \/ Reject(t)
  \/ Remove

Spec == Init /\ [][Next]_event
=============================================================================
