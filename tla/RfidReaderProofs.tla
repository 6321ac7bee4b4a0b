-------------------------- MODULE RfidReaderProofs --------------------------
(***************************************************************************)
(* Proofs about the reader task with either chip, for all tags, blocks and *)
(* durations.  The PN5180 loop keeps the invariant of Pn5180ReaderProofs.  *)
(***************************************************************************)
EXTENDS RfidReader, Pn5180ReaderProofs, FiniteSetTheorems, TLAPS

Kinds532 == {"none", "Reading", "Retrying", "TagRead", "ReadFailed", "UnsupportedTag", "TagRemoved"}
Ends == {"TagRead", "ReadFailed", "UnsupportedTag"}

\* What each control point has at hand.
Control532 ==
  /\ pn532_at \in {"start", "poll", "unavailable"} => pn532_target = None
  /\ pn532_at = "target" => pn532_target # None /\ pn532_completed_uid = None
  /\ pn532_at = "payload" =>
       /\ pn532_target \in Classic
       /\ pn532_pending_uid = pn532_target
       /\ pn532_completed_uid # pn532_target
       /\ pn532_misses = 0
  /\ pn532_at # "payload" => pn532_pending_attempt < 5

\* The blocks that were kept are the first ones of the pending tag.
Blocks532 ==
  /\ pn532_pending_uid \in {None, pn532_announced}
  /\ \E n \in 0 .. PayloadBlocks : pn532_pending_blocks = {pn532_pending_uid} \X (1 .. n)

\* A tag that was told to be done is latched; with nothing latched or pending the
\* observers know of no tag.
Told532 ==
  /\ pn532_event.kind \in Ends /\ pn532_event.tag # None => pn532_completed_uid = pn532_event.tag
  /\ pn532_completed_uid = None /\ pn532_pending_uid = None => pn532_event.tag = None
  /\ pn532_misses = 1 => pn532_completed_uid = None
  /\ pn532_misses = 2 => pn532_completed_uid = None /\ pn532_pending_uid = None

IInv532 == Pn532!TypeOK /\ Control532 /\ Blocks532 /\ Told532

LEMMA NoneIsNoTag == None \notin IsoA /\ None \notin Classic
BY ConstantsAssumption

LEMMA EventType532 ==
  ASSUME NEW kind \in Kinds532, NEW tag \in IsoA \cup {None}
  PROVE  /\ Pn532!Event(kind, tag) \in [kind : Kinds532, tag : IsoA \cup {None}]
         /\ Pn532!Event(kind, tag).kind = kind
         /\ Pn532!Event(kind, tag).tag = tag
BY DEF Pn532!Event

\* The instance counts as the library does.
LEMMA SameCardinality532 ==
  ASSUME NEW S PROVE Pn532!Cardinality(S) = Cardinality(S)
BY DEF Cardinality, Pn532!Cardinality

\* The first n blocks of a tag are n blocks.
LEMMA BlocksCount ==
  ASSUME NEW tag, NEW n \in Nat
  PROVE  Pn532!Cardinality({tag} \X (1 .. n)) = n
<1>1. IsFiniteSet({tag}) /\ Cardinality({tag}) = 1
  BY FS_Singleton
<1>2. IsFiniteSet(1 .. n) /\ Cardinality(1 .. n) = n
  <2>1. 1 \in Int /\ n \in Int
    OBVIOUS
  <2> QED
    BY <2>1, FS_Interval
<1>3. Cardinality({tag} \X (1 .. n)) = 1 * n
  BY <1>1, <1>2, FS_Product
<1> QED
  BY <1>3, SameCardinality532

LEMMA NoBlocks ==
  ASSUME NEW tag
  PROVE  \E n \in 0 .. PayloadBlocks : {} = {tag} \X (1 .. n)
<1>1. 0 \in 0 .. PayloadBlocks /\ 1 .. 0 = {}
  BY ConstantsAssumption
<1>2. {} = {tag} \X (1 .. 0)
  BY <1>1
<1> QED
  BY <1>1, <1>2

LEMMA Init532 == Pn532!Init => IInv532
<1> SUFFICES ASSUME Pn532!Init PROVE IInv532
  OBVIOUS
<1>1. /\ pn532_event \in [kind : Kinds532, tag : IsoA \cup {None}]
      /\ pn532_event.kind = "none" /\ pn532_event.tag = None
  BY EventType532 DEF Pn532!Init, Kinds532
<1>2. Pn532!TypeOK
  BY <1>1, FreshAssumption DEF Pn532!Init, Pn532!TypeOK, Pn532!MAX_ATTEMPTS, Kinds532
<1>3. Blocks532
  BY NoBlocks DEF Pn532!Init, Blocks532
<1>4. Control532 /\ Told532
  BY <1>1 DEF Pn532!Init, Control532, Told532, Ends
<1> QED
  BY <1>2, <1>3, <1>4 DEF IInv532

LEMMA Start532 == IInv532 /\ Pn532!Start => IInv532'
<1> SUFFICES ASSUME IInv532, Pn532!Start PROVE IInv532'
  OBVIOUS
<1> USE DEF IInv532, Pn532!Start, Pn532!latch, Pn532!payload
<1>1. Pn532!TypeOK'
  BY DEF Pn532!TypeOK
<1>2. Control532' /\ Told532'
  BY DEF Control532, Told532
<1>3. Blocks532'
  BY DEF Blocks532
<1> QED
  BY <1>1, <1>2, <1>3

LEMMA NoTarget532 == IInv532 /\ Pn532!NoTarget => IInv532'
<1> SUFFICES ASSUME IInv532, Pn532!NoTarget PROVE IInv532'
  OBVIOUS
<1>1. /\ pn532_at = "poll" /\ pn532_at' = "poll" /\ pn532_target' = None
      /\ pn532_last_seen' \in 0 .. Fresh
      /\ pn532_event' = IF pn532_completed_uid = None /\ pn532_pending_uid = None
                        THEN pn532_event ELSE Pn532!Event("TagRemoved", None)
      /\ pn532_completed_uid' = None
      /\ pn532_pending_uid' \in {None, pn532_pending_uid}
      /\ pn532_completed_uid = None => pn532_pending_uid' = None
      /\ pn532_pending_blocks' = {}
      /\ pn532_pending_attempt' = 0
      /\ pn532_misses' = IF pn532_misses = 0 THEN 1 ELSE 2
      /\ pn532_announced' = pn532_announced
  BY DEF Pn532!NoTarget, Pn532!Polls, Pn532!PendingAfterError, IInv532, Control532
<1>2. /\ pn532_event' \in [kind : Kinds532, tag : IsoA \cup {None}]
      /\ pn532_event'.tag = None
  BY <1>1, EventType532 DEF IInv532, Pn532!TypeOK, Told532, Kinds532
<1>3. Pn532!TypeOK'
  BY <1>1, <1>2 DEF IInv532, Pn532!TypeOK, Pn532!MAX_ATTEMPTS, Kinds532
<1>4. Control532'
  BY <1>1 DEF Control532
<1>5. Blocks532'
  BY <1>1, NoBlocks DEF IInv532, Blocks532
<1>6. Told532'
  BY <1>1, <1>2 DEF IInv532, Told532, Pn532!TypeOK
<1> QED
  BY <1>3, <1>4, <1>5, <1>6 DEF IInv532

\* Blocks532 speaks of these variables alone.
LEMMA BlocksUnchanged532 ==
  Blocks532 /\ UNCHANGED <<pn532_pending_uid, pn532_pending_blocks, pn532_announced>> => Blocks532'
BY DEF Blocks532

LEMMA Unusable532 == IInv532 /\ Pn532!Unusable => IInv532'
<1> SUFFICES ASSUME IInv532, Pn532!Unusable PROVE IInv532'
  OBVIOUS
<1>1. /\ pn532_at = "poll" /\ pn532_at' = "poll"
      /\ pn532_last_seen' \in 0 .. Fresh
      /\ pn532_event' = pn532_event \/ pn532_event' = Pn532!Event("ReadFailed", None)
      /\ pn532_misses' = 0
      /\ UNCHANGED <<pn532_target, pn532_completed_uid, pn532_pending_uid, pn532_pending_blocks,
                     pn532_pending_attempt, pn532_announced>>
  BY FreshAssumption
  DEF Pn532!Unusable, Pn532!Polls, Pn532!payload, IInv532, Pn532!TypeOK
<1>2. /\ pn532_event' \in [kind : Kinds532, tag : IsoA \cup {None}]
      /\ pn532_event' = pn532_event \/ pn532_event'.tag = None
  BY <1>1, EventType532 DEF IInv532, Pn532!TypeOK, Kinds532
<1>3. Pn532!TypeOK'
  BY <1>1, <1>2 DEF IInv532, Pn532!TypeOK, Kinds532
<1>4. Control532' /\ Told532'
  BY <1>1, <1>2 DEF IInv532, Control532, Told532
<1>5. Blocks532'
  BY <1>1, BlocksUnchanged532 DEF IInv532
<1> QED
  BY <1>3, <1>4, <1>5 DEF IInv532

LEMMA StillThere532 == IInv532 /\ Pn532!StillThere => IInv532'
<1> SUFFICES ASSUME IInv532, Pn532!StillThere PROVE IInv532'
  OBVIOUS
<1>1. /\ pn532_last_seen' = 0 /\ pn532_misses' = 0
      /\ pn532_at = "poll"
      /\ UNCHANGED <<pn532_at, pn532_target, pn532_completed_uid, pn532_pending_uid,
                     pn532_pending_blocks, pn532_pending_attempt, pn532_event, pn532_announced>>
  BY DEF Pn532!StillThere, Pn532!Polls, Pn532!payload
<1>2. Pn532!TypeOK'
  BY <1>1, FreshAssumption DEF IInv532, Pn532!TypeOK
<1>3. Control532' /\ Told532'
  BY <1>1 DEF IInv532, Control532, Told532
<1>4. Blocks532'
  BY <1>1, BlocksUnchanged532 DEF IInv532
<1> QED
  BY <1>2, <1>3, <1>4 DEF IInv532

LEMMA PlacedAgain532 == IInv532 /\ Pn532!PlacedAgain => IInv532'
<1> SUFFICES ASSUME IInv532, Pn532!PlacedAgain PROVE IInv532'
  OBVIOUS
<1>1. /\ pn532_at = "poll" /\ pn532_at' = "target"
      /\ pn532_completed_uid # None
      /\ pn532_target' = pn532_completed_uid /\ pn532_completed_uid' = None
      /\ pn532_last_seen' = Fresh /\ pn532_misses' = 0
      /\ pn532_event' = Pn532!Event("TagRemoved", None)
      /\ UNCHANGED <<pn532_pending_uid, pn532_pending_blocks, pn532_pending_attempt,
                     pn532_announced>>
  BY DEF Pn532!PlacedAgain, Pn532!Polls, Pn532!payload
<1>2. /\ pn532_event' \in [kind : Kinds532, tag : IsoA \cup {None}]
      /\ pn532_event'.tag = None
  BY <1>1, EventType532 DEF Kinds532
<1>3. Pn532!TypeOK'
  BY <1>1, <1>2, FreshAssumption DEF IInv532, Pn532!TypeOK, Kinds532
<1>4. Control532' /\ Told532'
  BY <1>1, <1>2 DEF IInv532, Control532, Told532
<1>5. Blocks532'
  BY <1>1, BlocksUnchanged532 DEF IInv532
<1> QED
  BY <1>3, <1>4, <1>5 DEF IInv532

LEMMA Unsupported532 == IInv532 /\ Pn532!Unsupported => IInv532'
<1> SUFFICES ASSUME IInv532, Pn532!Unsupported PROVE IInv532'
  OBVIOUS
<1>1. PICK t \in IsoA \ Classic :
        /\ Pn532!Handles(t)
        /\ pn532_event' = Pn532!Event("UnsupportedTag", t)
        /\ pn532_completed_uid' = t /\ pn532_last_seen' = 0
        /\ pn532_misses' = 0
        /\ pn532_at' = "poll" /\ pn532_target' = None
        /\ UNCHANGED <<pn532_pending_uid, pn532_pending_blocks, pn532_pending_attempt,
                       pn532_announced>>
  BY DEF Pn532!Unsupported, Pn532!Latch, Pn532!payload
<1>2. /\ pn532_event' \in [kind : Kinds532, tag : IsoA \cup {None}]
      /\ pn532_event'.tag = t
  BY <1>1, EventType532 DEF Kinds532
<1>3. Pn532!TypeOK'
  BY <1>1, <1>2, FreshAssumption DEF IInv532, Pn532!TypeOK, Kinds532
<1>4. Control532'
  BY <1>1 DEF IInv532, Control532, Pn532!Handles
<1>5. Told532'
  BY <1>1, <1>2, NoneIsNoTag DEF Told532
<1>6. Blocks532'
  BY <1>1, BlocksUnchanged532 DEF IInv532
<1> QED
  BY <1>3, <1>4, <1>5, <1>6 DEF IInv532

LEMMA Attempt532 == IInv532 /\ Pn532!Attempt => IInv532'
<1> SUFFICES ASSUME IInv532, Pn532!Attempt PROVE IInv532'
  OBVIOUS
<1>1. PICK t \in Classic :
        /\ Pn532!Handles(t)
        /\ pn532_at' = "payload" /\ pn532_target' = t
        /\ pn532_last_seen' \in pn532_last_seen .. Fresh
        /\ pn532_misses' = 0
        /\ \/ /\ pn532_pending_uid # t
              /\ pn532_pending_uid' = t
              /\ pn532_pending_blocks' = {}
              /\ pn532_pending_attempt' = 1
              /\ pn532_event' = Pn532!Event("Reading", t)
              /\ pn532_announced' = t
           \/ /\ pn532_pending_uid = t
              /\ pn532_pending_attempt' = pn532_pending_attempt + 1
              /\ UNCHANGED <<pn532_pending_uid, pn532_pending_blocks, pn532_event,
                             pn532_announced>>
        /\ UNCHANGED pn532_completed_uid
  BY DEF Pn532!Attempt, Pn532!Starts
<1>2. t \in IsoA /\ t # None
  BY ConstantsAssumption, NoneIsNoTag
<1>3. /\ pn532_at # "payload" /\ pn532_pending_attempt < 5
      /\ pn532_completed_uid # t
  BY <1>1, <1>2 DEF Pn532!Handles, IInv532, Control532
<1>4. /\ pn532_event' \in [kind : Kinds532, tag : IsoA \cup {None}]
      /\ pn532_event' = pn532_event \/ pn532_event'.kind = "Reading"
  BY <1>1, <1>2, EventType532 DEF IInv532, Pn532!TypeOK, Kinds532
<1>5. pn532_pending_attempt' \in 0 .. 5
  BY <1>1, <1>3 DEF IInv532, Pn532!TypeOK, Pn532!MAX_ATTEMPTS
<1>6. Pn532!TypeOK'
  BY <1>1, <1>2, <1>4, <1>5, FreshAssumption
  DEF IInv532, Pn532!TypeOK, Pn532!MAX_ATTEMPTS, Kinds532
<1>7. Control532'
  BY <1>1, <1>3 DEF Control532
<1>8. Told532'
  BY <1>1, <1>2, <1>4 DEF IInv532, Told532, Ends
<1>9. Blocks532'
  BY <1>1, NoBlocks, BlocksUnchanged532 DEF IInv532, Blocks532
<1> QED
  BY <1>6, <1>7, <1>8, <1>9 DEF IInv532

\* The end of a read, by its payload or by its last failure.
LEMMA Finish532 ==
  ASSUME NEW kind \in {"TagRead", "ReadFailed"},
         IInv532, pn532_at = "payload", Pn532!Finish(kind),
         pn532_at' = "poll", pn532_target' = None, UNCHANGED pn532_misses
  PROVE  IInv532'
<1>1. /\ pn532_event' = Pn532!Event(kind, pn532_target)
      /\ pn532_announced' = None
      /\ pn532_completed_uid' = pn532_target /\ pn532_last_seen' = 0
      /\ pn532_pending_uid' = None
      /\ pn532_pending_blocks' = {}
      /\ pn532_pending_attempt' = 0
  BY DEF Pn532!Finish, Pn532!Latch
<1>2. pn532_target \in IsoA /\ pn532_target # None /\ pn532_misses = 0
  BY ConstantsAssumption, NoneIsNoTag DEF IInv532, Control532
<1>3. /\ pn532_event' \in [kind : Kinds532, tag : IsoA \cup {None}]
      /\ pn532_event'.tag = pn532_target
  BY <1>1, <1>2, EventType532 DEF Kinds532
<1>4. Pn532!TypeOK'
  BY <1>1, <1>2, <1>3, FreshAssumption DEF IInv532, Pn532!TypeOK, Pn532!MAX_ATTEMPTS, Kinds532
<1>5. Control532' /\ Told532'
  BY <1>1, <1>2, <1>3 DEF Control532, Told532
<1>6. Blocks532'
  BY <1>1, NoBlocks DEF Blocks532
<1> QED
  BY <1>4, <1>5, <1>6 DEF IInv532

LEMMA PayloadRetried532 ==
  ASSUME IInv532, pn532_at = "payload", Pn532!PayloadRetried,
         pn532_at' = "poll", pn532_target' = None, UNCHANGED pn532_misses
  PROVE  IInv532'
<1>1. PICK n \in Pn532!Cardinality(pn532_pending_blocks) .. PayloadBlocks - 1 :
        /\ ~Pn532!Exhausted
        /\ pn532_pending_blocks' = Pn532!ReadBlocks(n)
        /\ pn532_event' = Pn532!Event("Retrying", pn532_target)
        /\ UNCHANGED <<pn532_completed_uid, pn532_last_seen, pn532_pending_uid,
                       pn532_pending_attempt, pn532_announced>>
  BY DEF Pn532!PayloadRetried, Pn532!latch
<1>2. /\ pn532_target \in IsoA /\ pn532_target # None /\ pn532_misses = 0
      /\ pn532_target \in Classic /\ pn532_pending_uid = pn532_target
  BY ConstantsAssumption, NoneIsNoTag DEF IInv532, Control532
<1>3. PICK m \in 0 .. PayloadBlocks : pn532_pending_blocks = {pn532_target} \X (1 .. m)
  BY <1>2 DEF IInv532, Blocks532
<1>4. Pn532!Cardinality(pn532_pending_blocks) = m
  <2>1. m \in Nat
    BY ConstantsAssumption
  <2>2. Pn532!Cardinality({pn532_target} \X (1 .. m)) = m
    BY <2>1, BlocksCount
  <2> QED
    BY <1>3, <2>2, Zenon
<1>5. n \in 0 .. PayloadBlocks /\ m <= n
  BY <1>1, <1>4, ConstantsAssumption
<1>6. pn532_pending_blocks' = {pn532_target} \X (1 .. n)
  <2>1. pn532_pending_blocks' = ({pn532_target} \X (1 .. m)) \cup ({pn532_target} \X (m + 1 .. n))
    BY <1>1, <1>3, <1>4 DEF Pn532!ReadBlocks
  <2>2. 1 .. n = (1 .. m) \cup (m + 1 .. n)
    BY <1>5
  <2>3. ({pn532_target} \X (1 .. m)) \cup ({pn532_target} \X (m + 1 .. n))
           = {pn532_target} \X ((1 .. m) \cup (m + 1 .. n))
    OBVIOUS
  <2> QED
    BY <2>1, <2>2, <2>3
<1>7. /\ pn532_event' \in [kind : Kinds532, tag : IsoA \cup {None}]
      /\ pn532_event'.tag = pn532_target /\ pn532_event'.kind = "Retrying"
  BY <1>1, <1>2, EventType532 DEF Kinds532
<1>8. pn532_pending_attempt' < 5
  BY <1>1 DEF Pn532!Exhausted, Pn532!MAX_ATTEMPTS, IInv532, Pn532!TypeOK
<1>9. pn532_pending_blocks' \subseteq Classic \X (1 .. PayloadBlocks)
  BY <1>2, <1>5, <1>6, ConstantsAssumption
<1>10. Pn532!TypeOK'
  BY <1>1, <1>7, <1>9 DEF IInv532, Pn532!TypeOK, Kinds532
<1>11. Control532' /\ Told532'
  BY <1>1, <1>2, <1>7, <1>8 DEF Control532, Told532, Ends
<1>12. Blocks532'
  BY <1>1, <1>2, <1>5, <1>6 DEF IInv532, Blocks532
<1> QED
  BY <1>10, <1>11, <1>12 DEF IInv532

LEMMA PayloadAttempt532 == IInv532 /\ Pn532!PayloadAttempt => IInv532'
<1> SUFFICES ASSUME IInv532, Pn532!PayloadAttempt PROVE IInv532'
  OBVIOUS
<1>1. /\ pn532_at = "payload" /\ pn532_at' = "poll" /\ pn532_target' = None
      /\ UNCHANGED pn532_misses
      /\ Pn532!PayloadRead \/ Pn532!PayloadRetried \/ Pn532!PayloadGivenUp
  BY DEF Pn532!PayloadAttempt
<1>2. CASE Pn532!PayloadRead
  BY <1>1, <1>2, Finish532 DEF Pn532!PayloadRead
<1>3. CASE Pn532!PayloadRetried
  BY <1>1, <1>3, PayloadRetried532
<1>4. CASE Pn532!PayloadGivenUp
  BY <1>1, <1>4, Finish532 DEF Pn532!PayloadGivenUp
<1> QED
  BY <1>1, <1>2, <1>3, <1>4

LEMMA Next532 == IInv532 /\ Pn532!Next => IInv532'
BY Start532, NoTarget532, Unusable532, StillThere532, PlacedAgain532, Unsupported532, Attempt532,
   PayloadAttempt532
DEF Pn532!Next

LEMMA Stutter532 == IInv532 /\ UNCHANGED pn532_vars => IInv532'
<1> SUFFICES ASSUME IInv532, UNCHANGED pn532_vars PROVE IInv532'
  OBVIOUS
<1> USE DEF IInv532, pn532_vars
<1>1. Pn532!TypeOK'
  BY DEF Pn532!TypeOK
<1>2. Control532' /\ Told532'
  BY DEF Control532, Told532
<1>3. Blocks532'
  BY BlocksUnchanged532
<1> QED
  BY <1>1, <1>2, <1>3

\* The reader task: the choice of the chip, then the loop of one.
Chips == {"probe", "Pn5180", "Pn532", "none"}
ReaderInv == chip \in Chips /\ IInv /\ IInv532

LEMMA ReaderInitInv == ReaderInit => ReaderInv
BY InitInv, Init532 DEF ReaderInit, ReaderInv, Chips

LEMMA ReaderStepInv == ReaderInv /\ [ReaderNext]_reader_vars => ReaderInv'
<1> SUFFICES ASSUME ReaderInv, [ReaderNext]_reader_vars PROVE ReaderInv'
  OBVIOUS
<1>1. CASE Probe
  <2>1. chip' \in Chips /\ UNCHANGED vars /\ UNCHANGED pn532_vars
    BY <1>1 DEF Probe, Chips
  <2> QED
    BY <2>1, StutterKeeps, Stutter532 DEF ReaderInv
<1>2. CASE RunPn5180
  <2>1. UNCHANGED chip /\ Next /\ UNCHANGED pn532_vars
    BY <1>2 DEF RunPn5180
  <2> QED
    BY <2>1, NextKeeps, Stutter532 DEF ReaderInv
<1>3. CASE RunPn532
  <2>1. UNCHANGED chip /\ UNCHANGED vars /\ Pn532!Next
    BY <1>3 DEF RunPn532
  <2> QED
    BY <2>1, StutterKeeps, Next532 DEF ReaderInv
<1>4. CASE UNCHANGED reader_vars
  <2>1. UNCHANGED chip /\ UNCHANGED vars /\ UNCHANGED pn532_vars
    BY <1>4 DEF reader_vars
  <2> QED
    BY <2>1, StutterKeeps, Stutter532 DEF ReaderInv
<1> QED
  BY <1>1, <1>2, <1>3, <1>4 DEF ReaderNext

LEMMA ReaderAlways == ReaderSpec => []ReaderInv
BY ReaderInitInv, ReaderStepInv, PTL DEF ReaderSpec

-----------------------------------------------------------------------------
(* Theorems *)

\* Both loops keep their types and the limits of their attempts, whichever chip runs
\* (pn5180_reader.rs:28-29, pn532_reader.rs:21).
THEOREM ReaderTypeCorrect == ReaderSpec => []ReaderTypeOK
<1>1. ReaderInv => ReaderTypeOK
  BY DEF ReaderInv, Chips, IInv, IInv532, ReaderTypeOK
<1> QED
  BY <1>1, ReaderAlways, PTL

\* Whatever the chip answers and however often other tags come in between, the
\* blocks the PN532 loop keeps are those of one announced tag.
THEOREM PayloadOfOneTag == ReaderSpec => []Pn532BlocksOfAnnouncedTag
<1>1. ReaderInv => Pn532BlocksOfAnnouncedTag
  <2> SUFFICES ASSUME IInv532 PROVE Pn532BlocksOfAnnouncedTag
    BY DEF ReaderInv
  <2>1. PICK n \in 0 .. PayloadBlocks : pn532_pending_blocks = {pn532_pending_uid} \X (1 .. n)
    BY DEF IInv532, Blocks532
  <2>2. n \in Nat
    BY ConstantsAssumption
  <2>3. Pn532!Cardinality(pn532_pending_blocks) = n
    BY <2>1, <2>2, BlocksCount, Zenon
  <2>4. pn532_pending_blocks
          = {pn532_pending_uid} \X (1 .. Pn532!Cardinality(pn532_pending_blocks))
    BY <2>1, <2>3, Zenon
  <2> QED
    BY <2>4 DEF Pn532BlocksOfAnnouncedTag, Pn532!BlocksOfAnnouncedTag, IInv532, Blocks532
<1> QED
  BY <1>1, ReaderAlways, PTL

\* Two failed exchanges in a row always clear the latch and the pending read.
THEOREM SilentTagsForgotten == ReaderSpec => []Pn532ForgetsSilentTags
<1>1. ReaderInv => Pn532ForgetsSilentTags
  BY DEF ReaderInv, IInv532, Told532, Pn532ForgetsSilentTags, Pn532!ForgetsSilentTags
<1> QED
  BY <1>1, ReaderAlways, PTL


\* What Pn532ReportsAnnounced says of one step.
Told ==
  /\ Pn532!Reports({"Retrying", "TagRead", "ReadFailed"}) => pn532_announced = pn532_event'.tag
  /\ pn532_event.kind \in Ends /\ pn532_event.tag # None =>
       pn532_event'.tag # pn532_event.tag \/ pn532_event' = pn532_event

LEMMA ToldPayload532 == IInv532 /\ Pn532!PayloadAttempt => Told
<1> SUFFICES ASSUME IInv532, Pn532!PayloadAttempt PROVE Told
  OBVIOUS
<1>1. PICK kind \in Kinds532 : pn532_event' = Pn532!Event(kind, pn532_target)
  BY DEF Pn532!PayloadAttempt, Pn532!PayloadRead, Pn532!PayloadRetried, Pn532!PayloadGivenUp,
         Pn532!Finish, Kinds532
<1>2. /\ pn532_target \in IsoA /\ pn532_target # None
      /\ pn532_pending_uid = pn532_target /\ pn532_completed_uid # pn532_target
  BY ConstantsAssumption, NoneIsNoTag DEF Pn532!PayloadAttempt, IInv532, Control532
<1>3. pn532_event'.tag = pn532_target
  BY <1>1, <1>2, EventType532
<1>4. pn532_announced = pn532_target
  BY <1>2 DEF IInv532, Blocks532
<1> QED
  BY <1>2, <1>3, <1>4 DEF Told, IInv532, Told532

LEMMA ToldAttempt532 == IInv532 /\ Pn532!Attempt => Told
<1> SUFFICES ASSUME IInv532, Pn532!Attempt PROVE Told
  OBVIOUS
<1>1. PICK t \in Classic :
        /\ Pn532!Handles(t)
        /\ pn532_event' = pn532_event \/ pn532_event' = Pn532!Event("Reading", t)
  BY DEF Pn532!Attempt
<1>2. t \in IsoA /\ t # None /\ pn532_completed_uid # t
  BY <1>1, ConstantsAssumption, NoneIsNoTag DEF Pn532!Handles, IInv532, Control532
<1>3. pn532_event' = pn532_event \/ (pn532_event'.tag = t /\ pn532_event'.kind = "Reading")
  BY <1>1, <1>2, EventType532 DEF Kinds532
<1> QED
  BY <1>2, <1>3 DEF Told, Pn532!Reports, IInv532, Told532

LEMMA ToldUnsupported532 == IInv532 /\ Pn532!Unsupported => Told
<1> SUFFICES ASSUME IInv532, Pn532!Unsupported PROVE Told
  OBVIOUS
<1>1. PICK t \in IsoA \ Classic :
        Pn532!Handles(t) /\ pn532_event' = Pn532!Event("UnsupportedTag", t)
  BY DEF Pn532!Unsupported
<1>2. t # None /\ pn532_completed_uid # t
  BY <1>1, NoneIsNoTag DEF Pn532!Handles, IInv532, Control532
<1>3. pn532_event'.tag = t /\ pn532_event'.kind = "UnsupportedTag"
  BY <1>1, EventType532 DEF Kinds532
<1> QED
  BY <1>2, <1>3 DEF Told, Pn532!Reports, IInv532, Told532

LEMMA ToldOther532 ==
  ASSUME pn532_event' = pn532_event \/ pn532_event'.tag = None
  PROVE  Told
BY DEF Told, Pn532!Reports

LEMMA ToldNext532 == IInv532 /\ Pn532!Next => Told
<1> SUFFICES ASSUME IInv532, Pn532!Next PROVE Told
  OBVIOUS
<1>1. CASE Pn532!Start \/ Pn532!StillThere
  BY <1>1, ToldOther532 DEF Pn532!Start, Pn532!StillThere
<1>2. CASE Pn532!NoTarget \/ Pn532!Unusable \/ Pn532!PlacedAgain
  <2>1. \/ pn532_event' = pn532_event
        \/ \E kind \in {"TagRemoved", "ReadFailed"} : pn532_event' = Pn532!Event(kind, None)
    BY <1>2 DEF Pn532!NoTarget, Pn532!Unusable, Pn532!PlacedAgain
  <2> QED
    BY <2>1, EventType532, ToldOther532 DEF Kinds532
<1>3. CASE Pn532!Unsupported \/ Pn532!Attempt \/ Pn532!PayloadAttempt
  BY <1>3, ToldUnsupported532, ToldAttempt532, ToldPayload532
<1> QED
  BY <1>1, <1>2, <1>3 DEF Pn532!Next

\* A retry or the end of a read is told of the announced tag only, and of a tag
\* that is done nothing more is told, in every step of the reader task.
THEOREM ReportsAreAnnounced == ReaderSpec => Pn532ReportsAnnounced
<1>1. ReaderInv /\ [ReaderNext]_reader_vars => [Told]_(Pn532!vars)
  <2> SUFFICES ASSUME ReaderInv, ReaderNext, ~UNCHANGED Pn532!vars PROVE Told
    BY DEF reader_vars, pn532_vars, Pn532!vars, Pn532!latch, Pn532!payload
  <2>1. ~UNCHANGED pn532_vars
    BY DEF pn532_vars, Pn532!vars, Pn532!latch, Pn532!payload
  <2>2. RunPn532
    BY <2>1 DEF ReaderNext, Probe, RunPn5180
  <2> QED
    BY <2>2, ToldNext532 DEF RunPn532, ReaderInv
<1>2. ReaderSpec => [][Told]_(Pn532!vars)
  BY <1>1, ReaderAlways, PTL DEF ReaderSpec
<1> QED
  BY <1>2 DEF Pn532ReportsAnnounced, Pn532!ReportsAnnounced, Told, Ends

=============================================================================
