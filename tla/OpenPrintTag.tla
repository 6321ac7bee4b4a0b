---------------------------- MODULE OpenPrintTag ----------------------------
(***************************************************************************)
(* The decoder of OpenPrintTag memories: decode_tag_memory in              *)
(* formats/src/openprinttag.rs.                                            *)
(*                                                                         *)
(* It walks the TLVs of the memory to the NDEF message, the records of the *)
(* message to the OpenPrintTag payload, the meta map of the payload to the *)
(* main and the aux region, their maps, and the records once more for a    *)
(* URI.  An iteration of a loop is a step.                                 *)
(*                                                                         *)
(* The bytes of the memory are arbitrary, and a walk looks at a byte once: *)
(* what it finds there is chosen when it looks.  Only sizes and positions  *)
(* are kept; a slice is <<first, end>>, relative to the slice it is cut    *)
(* from.  The target has 32-bit sizes.                                     *)
(***************************************************************************)
EXTENDS Naturals

CONSTANTS
  Memories,    \* sizes of memories
  Bytes,       \* values a byte of the memory can have
  Shorts,      \* those of two bytes
  Longs,       \* those of four
  UsizeMax,    \* usize::MAX
  EntrySizes,  \* sizes of an entry of a map
  Written,     \* the u64 values a meta map holds
  Counts,      \* the numbers of entries the head of a map announces
  MaxSection,  \* MAX_SECTION_SIZE
  MimeLength,  \* MIME_TYPE.len()
  None

ASSUME SizesAssumption ==
  /\ UsizeMax \in Nat
  /\ Bytes \subseteq Nat /\ Shorts \subseteq Nat /\ Longs \subseteq 0 .. UsizeMax
  /\ Memories \subseteq 0 .. UsizeMax
  /\ EntrySizes \subseteq Nat \ {0, 1}
  /\ Written \subseteq Nat /\ Counts \subseteq Nat
  /\ MaxSection \in Nat /\ MimeLength \in Nat
  /\ None \notin Nat \cup (Nat \X Nat)

VARIABLES
  memory,   \* memory.len()
  at,       \* the loop
  purpose,  \* what the records are walked for, or the map that is read
  cursor,   \* cursor, or the position of the CBOR decoder
  length,   \* the size of the slice that is walked
  outer,    \* where the walk around a smart poster goes on, and its size
  message, payload, main, aux,  \* slices, or None
  meta_end, \* where the meta map of the payload ends, or None
  entries,  \* entries of the map to come, None if it is indefinite
  fields,   \* what the meta map said: main offset and size, aux offset and size
  has_class \* whether the main map said the material class

walk == <<at, purpose, cursor, length, outer>>
slices == <<message, payload, main, aux, meta_end>>
map == <<entries, fields, has_class>>
vars == <<memory, walk, slices, map>>

Size(slice) == slice[2] - slice[1]

\* An offset that is too large for usize is too large for every slice.
Overflow == UsizeMax + 1

CheckedAdd_wrapping(a, b) == (a + b) % (UsizeMax + 1)
CheckedAdd(a, b) == IF a + b > UsizeMax THEN Overflow ELSE a + b

Fits_offByOne(end, size) == end <= size + 1
Fits(end, size) == end <= size

NoFields == [k \in 0 .. 3 |-> None]

Init ==
  /\ memory \in Memories
  /\ at = "start"
  /\ purpose = "message"
  /\ cursor = 0
  /\ length = memory
  /\ outer = <<0, 0>>
  /\ message = None /\ payload = None /\ main = None /\ aux = None /\ meta_end = None
  /\ entries = 0
  /\ fields = NoFields
  /\ has_class = FALSE

\* An error of the decoder.
Fail ==
  /\ at' = "failed"
  /\ UNCHANGED <<memory, purpose, cursor, length, outer, slices, map>>

-----------------------------------------------------------------------------
(* find_ndef_message *)

\* The capability container takes four or eight bytes.
Start ==
  /\ at = "start"
  /\ \/ \E container \in {4, 8} :
          /\ container <= memory
          /\ at' = "tlv"
          /\ cursor' = container
          /\ UNCHANGED <<memory, purpose, length, outer, slices, map>>
     \/ Fail

NullTlv ==
  /\ at = "tlv" /\ cursor < length
  /\ cursor' = cursor + 1
  /\ UNCHANGED <<memory, at, purpose, length, outer, slices, map>>

\* The length of a value takes one byte, or three that begin with 255.
ValueLengths(size) == IF size = 1 THEN Bytes \ {255} ELSE Shorts

\* A TLV whose length takes so many bytes and whose value is from begin to end.
ValueFits(begin, end) == begin <= length /\ Fits(end, length)

SkipTlv(end) ==
  /\ cursor' = end
  /\ UNCHANGED <<memory, at, purpose, length, outer, slices, map>>

\* The value is the NDEF message, whose records are walked.
TakeMessage(slice) ==
  /\ message' = slice
  /\ at' = "record"
  /\ purpose' = "payload"
  /\ cursor' = 0
  /\ length' = Size(slice)
  /\ UNCHANGED <<memory, outer, payload, main, aux, meta_end, map>>

Tlv == \E size \in {1, 3} : \E value_length \in ValueLengths(size) :
  LET begin == cursor + 1 + size
      end == CheckedAdd(begin, value_length)
  IN
  /\ at = "tlv" /\ cursor < length
  /\ ValueFits(begin, end)
  /\ SkipTlv(end) \/ TakeMessage(<<begin, end>>)

\* A value that does not fit, the terminator, or the end.
NoMessage == at = "tlv" /\ Fail

-----------------------------------------------------------------------------
(* find_openprinttag_payload and find_ndef_uri_inner *)

\* The first byte after the header of a record.
Body(short, has_id) ==
  cursor + 2 + (IF short THEN 1 ELSE 4) + (IF has_id THEN 1 ELSE 0)

\* The walk goes on behind the record, unless it is the last one of the message.
Behind(end, last) == IF last THEN length ELSE end

\* The record is not the one looked for.
SkipRecord(end, last) ==
  /\ cursor' = Behind(end, last)
  /\ UNCHANGED <<memory, at, purpose, length, outer, slices, map>>

\* Its payload is the OpenPrintTag: decode_payload starts with the meta map.
TakePayload(type_length, slice) ==
  /\ purpose = "payload"
  /\ type_length = MimeLength
  /\ payload' = slice
  /\ at' = "head"
  /\ purpose' = "meta"
  /\ cursor' = 0
  /\ length' = Size(slice)
  /\ UNCHANGED <<memory, outer, message, main, aux, meta_end, map>>

\* It is a URI that can be decoded.
TakeUri(type_length) ==
  /\ purpose \in {"uri", "poster"}
  /\ type_length = 1
  /\ at' = "decoded"
  /\ UNCHANGED <<memory, purpose, cursor, length, outer, slices, map>>

\* It is a smart poster, whose records are walked in turn.
EnterPoster(type_length, slice, last) ==
  /\ purpose = "uri"
  /\ type_length = 2
  /\ outer' = <<Behind(slice[2], last), length>>
  /\ purpose' = "poster"
  /\ cursor' = 0
  /\ length' = Size(slice)
  /\ UNCHANGED <<memory, at, slices, map>>

\* The lengths that a field of one byte, or of four, can hold.
PayloadLengths(short) == IF short THEN Bytes ELSE Longs
IdLengths(has_id) == IF has_id THEN Bytes ELSE {0}

Record ==
  \E short, has_id, last \in BOOLEAN :
  \E type_length \in Bytes, payload_length \in PayloadLengths(short), id_length \in IdLengths(has_id) :
  LET body == Body(short, has_id)
      end == CheckedAdd(CheckedAdd(CheckedAdd(body, type_length), id_length), payload_length)
      begin == body + type_length + id_length
      slice == <<begin, begin + payload_length>>
  IN
  /\ at = "record" /\ cursor < length
  /\ body <= length /\ Fits(end, length)
  /\ \/ SkipRecord(end, last)
     \/ TakePayload(type_length, slice)
     \/ TakeUri(type_length)
     \/ EnterPoster(type_length, slice, last)

\* No record is left, or it is chunked or does not fit.  Without a URI the tag
\* is decoded nonetheless; a smart poster without one is passed over.
NoRecord ==
  /\ at = "record"
  /\ \/ /\ purpose = "payload"
        /\ Fail
     \/ /\ purpose = "uri"
        /\ at' = "decoded"
        /\ UNCHANGED <<memory, purpose, cursor, length, outer, slices, map>>
     \/ /\ purpose = "poster"
        /\ purpose' = "uri"
        /\ cursor' = outer[1]
        /\ length' = outer[2]
        /\ UNCHANGED <<memory, at, outer, slices, map>>

-----------------------------------------------------------------------------
(* visit_map, of the meta, the main and the aux map *)

\* The head is one byte, of an indefinite map or a count below 24, or holds the
\* count in one, two, four or eight bytes more.
Announced(head) ==
  IF head = 1 THEN {count \in Counts : count < 24} \cup {None} ELSE Counts

MapHead == \E head \in {1, 2, 3, 5, 9} :
  /\ at = "head"
  /\ cursor + head <= length
  /\ at' = "entries"
  /\ cursor' = cursor + head
  /\ entries' \in Announced(head)
  /\ UNCHANGED <<memory, purpose, length, outer, slices, fields, has_class>>

\* A key and its value.  The later of two equal keys counts.
Entry == \E size \in EntrySizes :
  /\ at = "entries" /\ entries # 0
  /\ cursor + size <= length
  /\ cursor' = cursor + size
  /\ entries' = IF entries = None THEN None ELSE entries - 1
  /\ \/ UNCHANGED <<fields, has_class>>
     \/ /\ purpose = "meta"
        /\ \E k \in 0 .. 3, v \in Written : fields' = [fields EXCEPT ![k] = v % (UsizeMax + 1)]
        /\ UNCHANGED has_class
     \/ /\ purpose = "main"
        /\ has_class' = TRUE
        /\ UNCHANGED fields
  /\ UNCHANGED <<memory, at, purpose, length, outer, slices>>

Break ==
  /\ at = "entries" /\ entries = None
  /\ cursor < length
  /\ cursor' = cursor + 1
  /\ entries' = 0
  /\ UNCHANGED <<memory, at, purpose, length, outer, slices, fields, has_class>>

\* A key or a value of the wrong kind, or the end of the data.
MapFails ==
  /\ at \in {"head", "entries"}
  /\ at = "entries" => entries # 0
  /\ Fail

-----------------------------------------------------------------------------
(* decode_regions, at the end of the meta map *)

Monus(a, b) == IF a > b THEN a - b ELSE 0

MainOffset == IF fields[0] = None THEN cursor ELSE fields[0]
AuxOffset == fields[2]

MainSize_toTheEnd ==
  IF fields[1] = None THEN Monus(length, MainOffset) ELSE fields[1]
MainSize ==
  LET next_region == IF AuxOffset # None /\ AuxOffset > MainOffset THEN AuxOffset ELSE length
  IN IF fields[1] = None THEN Monus(next_region, MainOffset) ELSE fields[1]

AuxSize ==
  LET next_region == IF AuxOffset < MainOffset THEN MainOffset ELSE length
  IN IF fields[3] = None THEN Monus(next_region, AuxOffset) ELSE fields[3]

MainEnd == CheckedAdd(MainOffset, MainSize)
AuxEnd == CheckedAdd(AuxOffset, AuxSize)

Overlap == MainOffset < AuxEnd /\ AuxOffset < MainEnd

MainValid_ignoresMeta == cursor <= MaxSection /\ MainOffset <= length /\ Fits(MainEnd, length)
MainValid == cursor <= MaxSection /\ cursor <= MainOffset /\ MainOffset <= length /\ Fits(MainEnd, length)
AuxValid_ignoresMeta == AuxOffset <= length /\ Fits(AuxEnd, length) /\ ~Overlap
AuxValid == cursor <= AuxOffset /\ AuxOffset <= length /\ Fits(AuxEnd, length) /\ ~Overlap

MapEnds(kind) == at = "entries" /\ entries = 0 /\ purpose = kind

ReadMap(kind, slice) ==
  /\ at' = "head"
  /\ purpose' = kind
  /\ cursor' = 0
  /\ length' = Size(slice)

MetaEnds ==
  /\ MapEnds("meta")
  /\ \/ /\ MainValid
        /\ AuxOffset # None => AuxValid
        /\ main' = <<MainOffset, MainEnd>>
        /\ meta_end' = cursor
        /\ aux' = IF AuxOffset = None THEN None ELSE <<AuxOffset, AuxEnd>>
        /\ ReadMap("main", main')
        /\ fields' = NoFields
        /\ UNCHANGED <<memory, outer, message, payload, entries, has_class>>
     \/ /\ ~(MainValid /\ (AuxOffset # None => AuxValid))
        /\ Fail

\* The payload is decoded and its regions are forgotten; the URI is looked for.
LookForUri ==
  /\ at' = "record"
  /\ purpose' = "uri"
  /\ cursor' = 0
  /\ length' = Size(message)
  /\ payload' = None
  /\ main' = None
  /\ aux' = None
  /\ meta_end' = None
  /\ has_class' = FALSE

MainEnds ==
  /\ MapEnds("main")
  /\ \/ /\ cursor <= MaxSection /\ has_class
        /\ \/ aux = None /\ LookForUri
           \/ aux # None /\ ReadMap("aux", aux) /\ UNCHANGED <<payload, main, aux, meta_end, has_class>>
        /\ UNCHANGED <<memory, outer, message, entries, fields>>
     \/ /\ ~(cursor <= MaxSection /\ has_class)
        /\ Fail

AuxEnds ==
  /\ MapEnds("aux")
  /\ \/ /\ cursor <= MaxSection
        /\ LookForUri
        /\ UNCHANGED <<memory, outer, message, entries, fields>>
     \/ /\ cursor > MaxSection
        /\ Fail

Next ==
  \/ Start
  \/ NullTlv \/ Tlv \/ NoMessage
  \/ Record \/ NoRecord
  \/ MapHead \/ Entry \/ Break \/ MapFails
  \/ MetaEnds \/ MainEnds \/ AuxEnds

\* The decoder waits for nothing.
Spec == Init /\ [][Next]_vars /\ WF_vars(Next)

-----------------------------------------------------------------------------
(* Properties *)

IsSlice(slice, size) ==
  slice # None => slice \in (0 .. size) \X (0 .. size) /\ slice[1] <= slice[2]

\* Whatever the memory holds, every slice the decoder takes lies in the slice it
\* is taken from, and no walk looks behind the end of its slice; anything else
\* would panic (openprinttag.rs:155, 202-206, 95, 103, 404-406).
SlicesInBounds ==
  /\ memory \in Memories
  /\ cursor \in 0 .. length
  /\ outer[1] <= outer[2]
  /\ IsSlice(message, memory)
  /\ payload # None => message # None /\ IsSlice(payload, Size(message))
  /\ main # None => payload # None /\ IsSlice(main, Size(payload))
  /\ aux # None => payload # None /\ IsSlice(aux, Size(payload))

\* The regions a tag is decoded from share no byte, with one another or with
\* the meta map, however the tag describes them; and a tag that only says where
\* its two regions begin, at different places of the payload, is not refused
\* for the sizes the decoder gives them (openprinttag.rs:234-260).
RegionsConsistent ==
  /\ main # None => meta_end <= main[1]
  /\ aux # None => meta_end <= aux[1]
  /\ main # None /\ aux # None => main[2] <= aux[1] \/ aux[2] <= main[1]
  /\ /\ MapEnds("meta")
     /\ fields[1] = None /\ fields[3] = None
     /\ {MainOffset, AuxOffset} \subseteq cursor .. length
     /\ MainOffset # AuxOffset
     => AuxValid /\ Fits(MainEnd, length)

\* Every memory is decoded or refused: no walk goes back or round in circles
\* (openprinttag.rs:139, 166, 373, 492).
Terminates == <>(at \in {"decoded", "failed"})
=============================================================================
