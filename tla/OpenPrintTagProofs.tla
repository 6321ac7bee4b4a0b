------------------------- MODULE OpenPrintTagProofs -------------------------
(***************************************************************************)
(* Proofs about the decoder of OpenPrintTag memories, for memories, bytes, *)
(* lengths and maps of all sizes.                                          *)
(***************************************************************************)
EXTENDS OpenPrintTag, TLAPS

IsPair(slice) == slice \in Nat \X Nat

TypeInv ==
  /\ memory \in Memories
  /\ memory \in 0 .. UsizeMax
  /\ at \in {"start", "tlv", "record", "head", "entries", "decoded", "failed"}
  /\ purpose \in {"message", "payload", "uri", "poster", "meta", "main", "aux"}
  /\ cursor \in Nat /\ length \in Nat
  /\ IsPair(outer)
  /\ message = None \/ IsPair(message)
  /\ payload = None \/ IsPair(payload)
  /\ main = None \/ IsPair(main)
  /\ aux = None \/ IsPair(aux)
  /\ meta_end = None \/ meta_end \in Nat
  /\ entries = None \/ entries \in Nat
  /\ fields \in [0 .. 3 -> Nat \cup {None}]

\* What is walked at each place, and which slices there are.
Walked ==
  /\ at \in {"start", "tlv"} => purpose = "message"
  /\ at = "record" => purpose \in {"payload", "uri", "poster"}
  /\ at \in {"head", "entries"} => purpose \in {"meta", "main", "aux"}
  /\ purpose = "message" => length = memory /\ message = None
  /\ purpose \in {"message", "payload", "uri", "poster"} => payload = None
  /\ purpose # "message" => message # None
  /\ purpose \in {"payload", "uri"} => length = Size(message)
  /\ purpose = "poster" => outer[2] = Size(message)
  /\ purpose \in {"meta", "main", "aux"} => payload # None
  /\ purpose = "meta" => length = Size(payload) /\ main = None /\ aux = None
  /\ purpose \in {"main", "aux"} => main # None
  /\ length <= memory

\* Slices lie in one another; the regions are apart, and behind the meta map.
Nested ==
  /\ cursor <= length
  /\ outer[1] <= outer[2] /\ outer[2] <= memory
  /\ message # None => message[1] <= message[2] /\ message[2] <= memory
  /\ payload # None => message # None /\ payload[1] <= payload[2] /\ payload[2] <= Size(message)
  /\ main # None => payload # None /\ main[1] <= main[2] /\ main[2] <= Size(payload)
  /\ aux # None => main # None /\ aux[1] <= aux[2] /\ aux[2] <= Size(payload)
  /\ main # None => meta_end # None /\ meta_end <= main[1]
  /\ aux # None => meta_end <= aux[1]
  /\ main # None /\ aux # None => main[2] <= aux[1] \/ aux[2] <= main[1]

IInv == TypeInv /\ Walked /\ Nested

LEMMA NoneIsNoPair == None \notin Nat \X Nat
BY SizesAssumption

\* An end that fits in a slice no longer than usize::MAX has not overflowed.
LEMMA CheckedAddFits ==
  ASSUME NEW a \in Nat, NEW b \in Nat, NEW size \in Nat, size <= UsizeMax,
         Fits(CheckedAdd(a, b), size)
  PROVE  /\ CheckedAdd(a, b) = a + b
         /\ a + b <= size
BY SizesAssumption DEF Fits, CheckedAdd, Overflow

LEMMA CheckedAddIsNat ==
  ASSUME NEW a \in Nat, NEW b \in Nat
  PROVE  CheckedAdd(a, b) \in Nat
BY SizesAssumption DEF CheckedAdd, Overflow

\* A sum of four terms that fits was not cut off on its way.
LEMMA CheckedSumFits ==
  ASSUME NEW a \in Nat, NEW b \in Nat, NEW c \in Nat, NEW d \in Nat,
         NEW size \in Nat, size <= UsizeMax,
         Fits(CheckedAdd(CheckedAdd(CheckedAdd(a, b), c), d), size)
  PROVE  /\ CheckedAdd(CheckedAdd(CheckedAdd(a, b), c), d) = a + b + c + d
         /\ a + b + c + d <= size
BY SizesAssumption DEF Fits, CheckedAdd, Overflow

-----------------------------------------------------------------------------
LEMMA InitInv == Init => IInv
<1> SUFFICES ASSUME Init PROVE IInv
  OBVIOUS
<1>1. memory \in 0 .. UsizeMax
  BY SizesAssumption DEF Init
<1>2. fields \in [0 .. 3 -> Nat \cup {None}]
  BY DEF Init, NoFields
<1>3. TypeInv
  BY <1>1, <1>2 DEF Init, TypeInv, IsPair
<1>4. Walked
  BY <1>1 DEF Init, Walked
<1>5. Nested
  BY <1>1 DEF Init, Nested
<1> QED
  BY <1>3, <1>4, <1>5 DEF IInv

\* A step to an error keeps everything else.
LEMMA FailInv == IInv /\ Fail => IInv'
<1> SUFFICES ASSUME IInv, Fail PROVE IInv'
  OBVIOUS
<1> USE DEF IInv, Fail, slices, map
<1>1. TypeInv'
  BY DEF TypeInv, IsPair
<1>2. Walked'
  BY DEF Walked, Size
<1>3. Nested'
  BY DEF Nested, Size
<1> QED
  BY <1>1, <1>2, <1>3

\* The walk to the NDEF message.
LEMMA StartInv == IInv /\ Start => IInv'
<1> SUFFICES ASSUME IInv, Start PROVE IInv'
  OBVIOUS
<1>1. CASE Fail
  BY <1>1, FailInv
<1>2. ASSUME NEW container \in {4, 8}, container <= memory, at = "start", at' = "tlv", cursor' = container,
             UNCHANGED <<memory, purpose, length, outer, slices, map>>
      PROVE  IInv'
  <2> USE <1>2 DEF IInv, slices, map
  <2>1. TypeInv'
    BY DEF TypeInv, IsPair
  <2>2. Walked'
    BY DEF Walked, Size
  <2>3. Nested'
    BY DEF Nested, Walked, TypeInv, Size
  <2> QED
    BY <2>1, <2>2, <2>3
<1> QED
  BY <1>1, <1>2 DEF Start

LEMMA NullTlvInv == IInv /\ NullTlv => IInv'
<1> SUFFICES ASSUME IInv, NullTlv PROVE IInv'
  OBVIOUS
<1> USE DEF IInv, NullTlv, slices, map
<1>1. TypeInv'
  BY DEF TypeInv, IsPair
<1>2. Walked'
  BY DEF Walked, Size
<1>3. Nested'
  BY DEF Nested, TypeInv, Size
<1> QED
  BY <1>1, <1>2, <1>3

\* A value of a TLV is skipped, or is the message; both end where the memory
\* does, or before.
LEMMA TlvInv == IInv /\ Tlv => IInv'
<1> SUFFICES ASSUME IInv, Tlv PROVE IInv'
  OBVIOUS
<1>0. PICK size \in {1, 3} : \E value_length \in ValueLengths(size) :
        LET begin == cursor + 1 + size
            end == CheckedAdd(begin, value_length)
        IN
        /\ at = "tlv" /\ cursor < length
        /\ ValueFits(begin, end)
        /\ SkipTlv(end) \/ TakeMessage(<<begin, end>>)
  BY DEF Tlv
<1> DEFINE begin == cursor + 1 + size
<1>1. PICK value_length \in ValueLengths(size) :
        /\ at = "tlv" /\ cursor < length
        /\ ValueFits(begin, CheckedAdd(begin, value_length))
        /\ SkipTlv(CheckedAdd(begin, value_length)) \/ TakeMessage(<<begin, CheckedAdd(begin, value_length)>>)
  BY <1>0
<1> DEFINE end == CheckedAdd(begin, value_length)
<1>2. /\ purpose = "message" /\ length = memory /\ memory \in Nat /\ memory <= UsizeMax
      /\ payload = None
      /\ cursor \in Nat /\ begin \in Nat
  BY <1>1, SizesAssumption DEF IInv, TypeInv, Walked
<1>3. value_length \in Nat
  BY <1>1, SizesAssumption DEF ValueLengths
<1>4. end \in Nat /\ begin <= end /\ end <= memory
  <2>1. Fits(CheckedAdd(begin, value_length), memory)
    BY <1>1, <1>2 DEF ValueFits
  <2>2. CheckedAdd(begin, value_length) = begin + value_length /\ begin + value_length <= memory
    BY <2>1, <1>2, <1>3, CheckedAddFits
  <2> QED
    BY <2>2, <1>2, <1>3
<1>5. CASE SkipTlv(end)
  <2> HIDE DEF end
  <2> USE <1>5 DEF SkipTlv, IInv, slices, map
  <2>1. TypeInv'
    BY <1>4 DEF TypeInv, IsPair
  <2>2. Walked'
    BY DEF Walked, Size
  <2>3. Nested'
    BY <1>2, <1>4 DEF Nested, Size
  <2> QED
    BY <2>1, <2>2, <2>3
<1>6. CASE TakeMessage(<<begin, end>>)
  <2> HIDE DEF begin, end
  <2> USE <1>6 DEF TakeMessage, IInv, map
  <2>1. message' \in Nat \X Nat /\ message'[1] = begin /\ message'[2] = end
    BY <1>2, <1>4
  <2>2. message' # None
    BY <2>1, NoneIsNoPair DEF TypeInv
  <2>3. length' = end - begin /\ length' \in Nat /\ length' <= memory
    BY <2>1, <1>2, <1>4 DEF Size
  <2>4. TypeInv'
    BY <2>1, <2>3 DEF TypeInv, IsPair
  <2>5. Walked'
    BY <1>2, <2>2, <2>3 DEF Walked, Size
  <2>6. Nested'
    BY <2>1, <2>2, <2>3, <1>2, <1>4 DEF Nested, Walked, Size
  <2> QED
    BY <2>4, <2>5, <2>6
<1> QED
  BY <1>1, <1>5, <1>6

LEMMA NoMessageInv == IInv /\ NoMessage => IInv'
BY FailInv DEF NoMessage

-----------------------------------------------------------------------------
(* The walk over the records *)

LEMMA SkipRecordInv ==
  ASSUME IInv, at = "record", NEW end \in Nat, end <= length, NEW last \in BOOLEAN,
         SkipRecord(end, last)
  PROVE  IInv'
<1> USE DEF IInv, SkipRecord, Behind, slices, map
<1>1. TypeInv'
  BY DEF TypeInv, IsPair
<1>2. Walked'
  BY DEF Walked, Size
<1>3. Nested'
  BY DEF Nested, TypeInv, Size
<1> QED
  BY <1>1, <1>2, <1>3

\* The payload is decoded from its own beginning; no region is known yet.
LEMMA TakePayloadInv ==
  ASSUME IInv, at = "record", NEW type_length, NEW slice \in Nat \X Nat,
         slice[1] <= slice[2], slice[2] <= length, TakePayload(type_length, slice)
  PROVE  IInv'
<1> USE DEF IInv, TakePayload, map
<1>1. /\ message # None /\ length = Size(message) /\ length \in Nat /\ length <= memory
      /\ memory \in Nat
      /\ main = None /\ aux = None
  BY SizesAssumption DEF TypeInv, Walked, Nested
<1>2. payload' = slice /\ payload' # None
  BY NoneIsNoPair
<1>3. length' = slice[2] - slice[1] /\ length' \in Nat /\ length' <= memory
  BY <1>1 DEF Size
<1>4. TypeInv'
  BY <1>2, <1>3 DEF TypeInv, IsPair
<1>5. Walked'
  BY <1>1, <1>2, <1>3 DEF Walked, Size
<1>6. Nested'
  BY <1>1, <1>2, <1>3 DEF Nested, Size
<1> QED
  BY <1>4, <1>5, <1>6

LEMMA TakeUriInv ==
  ASSUME IInv, at = "record", NEW type_length, TakeUri(type_length)
  PROVE  IInv'
<1> USE DEF IInv, TakeUri, slices, map
<1>1. TypeInv'
  BY DEF TypeInv, IsPair
<1>2. Walked'
  BY DEF Walked, Size
<1>3. Nested'
  BY DEF Nested, Size
<1> QED
  BY <1>1, <1>2, <1>3

LEMMA EnterPosterInv ==
  ASSUME IInv, at = "record", NEW type_length, NEW slice \in Nat \X Nat, NEW last \in BOOLEAN,
         slice[1] <= slice[2], slice[2] <= length, EnterPoster(type_length, slice, last)
  PROVE  IInv'
<1> USE DEF IInv, EnterPoster, slices, map
<1>1. /\ message # None /\ length = Size(message) /\ length \in Nat /\ length <= memory
      /\ memory \in Nat
  BY SizesAssumption DEF TypeInv, Walked
<1>2. /\ outer' \in Nat \X Nat
      /\ outer'[1] <= outer'[2] /\ outer'[2] = length
  BY <1>1 DEF Behind
<1>3. length' \in Nat /\ length' <= memory
  BY <1>1 DEF Size
<1>4. TypeInv'
  BY <1>2, <1>3 DEF TypeInv, IsPair
<1>5. Walked'
  BY <1>1, <1>2, <1>3 DEF Walked, Size
<1>6. Nested'
  BY <1>1, <1>2, <1>3 DEF Nested, Size
<1> QED
  BY <1>4, <1>5, <1>6

\* Whatever lengths a record has, its end fits only if none of the sums before
\* it was too large.
LEMMA RecordInv == IInv /\ Record => IInv'
<1> SUFFICES ASSUME IInv, Record PROVE IInv'
  OBVIOUS
<1> DEFINE Sum(body, t, i, p) == CheckedAdd(CheckedAdd(CheckedAdd(body, t), i), p)
           Slice(body, t, i, p) == <<body + t + i, body + t + i + p>>
<1>1. PICK short, has_id, last \in BOOLEAN :
        \E type_length \in Bytes, payload_length \in PayloadLengths(short), id_length \in IdLengths(has_id) :
          /\ at = "record"
          /\ Fits(Sum(Body(short, has_id), type_length, id_length, payload_length), length)
          /\ \/ SkipRecord(Sum(Body(short, has_id), type_length, id_length, payload_length), last)
             \/ TakePayload(type_length, Slice(Body(short, has_id), type_length, id_length, payload_length))
             \/ TakeUri(type_length)
             \/ EnterPoster(type_length, Slice(Body(short, has_id), type_length, id_length, payload_length), last)
  BY DEF Record
<1>2. PICK type_length \in Bytes, payload_length \in PayloadLengths(short), id_length \in IdLengths(has_id) :
          /\ at = "record"
          /\ Fits(Sum(Body(short, has_id), type_length, id_length, payload_length), length)
          /\ \/ SkipRecord(Sum(Body(short, has_id), type_length, id_length, payload_length), last)
             \/ TakePayload(type_length, Slice(Body(short, has_id), type_length, id_length, payload_length))
             \/ TakeUri(type_length)
             \/ EnterPoster(type_length, Slice(Body(short, has_id), type_length, id_length, payload_length), last)
  BY <1>1
<1> DEFINE body == Body(short, has_id)
           end == Sum(body, type_length, id_length, payload_length)
           slice == Slice(body, type_length, id_length, payload_length)
<1>3. type_length \in Nat /\ payload_length \in Nat /\ id_length \in Nat
  BY SizesAssumption DEF PayloadLengths, IdLengths
<1>4. body \in Nat /\ length \in Nat /\ length <= UsizeMax
  BY SizesAssumption DEF IInv, TypeInv, Walked, Body
<1>5. /\ end = body + type_length + id_length + payload_length
      /\ end <= length
  BY <1>2, <1>3, <1>4, CheckedSumFits
<1>6. /\ end \in Nat
      /\ slice \in Nat \X Nat /\ slice[1] <= slice[2] /\ slice[2] <= length
  <2> HIDE DEF body, end
  <2> QED
    BY <1>3, <1>4, <1>5
<1>7. SkipRecord(end, last) \/ TakePayload(type_length, slice) \/ TakeUri(type_length)
        \/ EnterPoster(type_length, slice, last)
  BY <1>2
<1> HIDE DEF end, slice
<1> QED
  BY <1>2, <1>5, <1>6, <1>7, SkipRecordInv, TakePayloadInv, TakeUriInv, EnterPosterInv

LEMMA NoRecordInv == IInv /\ NoRecord => IInv'
<1> SUFFICES ASSUME IInv, NoRecord PROVE IInv'
  OBVIOUS
<1>1. CASE Fail
  BY <1>1, FailInv
<1>2. CASE at' = "decoded" /\ UNCHANGED <<memory, purpose, cursor, length, outer, slices, map>>
  <2> USE <1>2 DEF IInv, slices, map
  <2>1. TypeInv'
    BY DEF TypeInv, IsPair
  <2>2. Walked'
    BY DEF Walked, Size
  <2>3. Nested'
    BY DEF Nested, Size
  <2> QED
    BY <2>1, <2>2, <2>3
<1>3. CASE /\ purpose = "poster" /\ purpose' = "uri" /\ cursor' = outer[1] /\ length' = outer[2]
           /\ UNCHANGED <<memory, at, outer, slices, map>>
  <2> USE <1>3 DEF IInv, slices, map
  <2>1. TypeInv'
    BY DEF TypeInv, IsPair
  <2>2. Walked'
    BY DEF NoRecord, Walked, Nested, Size
  <2>3. Nested'
    BY DEF Nested, Size
  <2> QED
    BY <2>1, <2>2, <2>3
<1> QED
  BY <1>1, <1>2, <1>3 DEF NoRecord

-----------------------------------------------------------------------------
(* The maps *)

\* However long the head is, it is read from the slice.
LEMMA HeadFits ==
  ASSUME IInv, MapHead
  PROVE  /\ at = "head" /\ at' = "entries"
         /\ cursor' \in Nat /\ cursor < cursor' /\ cursor' <= length
         /\ entries' = None \/ entries' \in Nat
         /\ UNCHANGED <<memory, purpose, length, outer, slices, fields, has_class>>
<1>1. PICK head \in {1, 2, 3, 5, 9} :
        /\ at = "head" /\ at' = "entries"
        /\ cursor + head <= length /\ cursor' = cursor + head
        /\ entries' \in Announced(head)
        /\ UNCHANGED <<memory, purpose, length, outer, slices, fields, has_class>>
  BY DEF MapHead
<1>2. cursor \in Nat /\ length \in Nat
  BY DEF IInv, TypeInv
<1>3. entries' = None \/ entries' \in Nat
  BY <1>1, SizesAssumption DEF Announced
<1> QED
  BY <1>1, <1>2, <1>3

LEMMA MapHeadInv == IInv /\ MapHead => IInv'
<1> SUFFICES ASSUME IInv, MapHead PROVE IInv'
  OBVIOUS
<1> USE HeadFits DEF IInv, slices
<1>1. TypeInv'
  BY DEF TypeInv, IsPair
<1>2. Walked'
  BY DEF Walked, Size
<1>3. Nested'
  BY DEF Nested, TypeInv, Size
<1> QED
  BY <1>1, <1>2, <1>3

LEMMA EntryInv == IInv /\ Entry => IInv'
<1> SUFFICES ASSUME IInv, Entry PROVE IInv'
  OBVIOUS
<1>1. PICK size \in EntrySizes :
        /\ at = "entries" /\ entries # 0
        /\ cursor + size <= length
        /\ cursor' = cursor + size
        /\ entries' = IF entries = None THEN None ELSE entries - 1
        /\ \/ UNCHANGED <<fields, has_class>>
           \/ /\ purpose = "meta"
              /\ \E k \in 0 .. 3, v \in Written : fields' = [fields EXCEPT ![k] = v % (UsizeMax + 1)]
              /\ UNCHANGED has_class
           \/ /\ purpose = "main"
              /\ has_class' = TRUE
              /\ UNCHANGED fields
        /\ UNCHANGED <<memory, at, purpose, length, outer, slices>>
  BY DEF Entry
<1>2. fields' \in [0 .. 3 -> Nat \cup {None}]
  <2>1. CASE UNCHANGED fields
    BY <2>1 DEF IInv, TypeInv
  <2>2. CASE \E k \in 0 .. 3, v \in Written : fields' = [fields EXCEPT ![k] = v % (UsizeMax + 1)]
    <3>1. PICK k \in 0 .. 3, v \in Written : fields' = [fields EXCEPT ![k] = v % (UsizeMax + 1)]
      BY <2>2
    <3>2. v \in Nat /\ UsizeMax + 1 \in Nat /\ UsizeMax + 1 > 0
      BY SizesAssumption
    <3>3. v % (UsizeMax + 1) \in Nat
      BY <3>2
    <3> HIDE DEF IInv
    <3>4. fields \in [0 .. 3 -> Nat \cup {None}]
      BY DEF IInv, TypeInv
    <3> QED
      BY <3>1, <3>3, <3>4
  <2> QED
    BY <1>1, <2>1, <2>2
<1>3. cursor' \in Nat /\ (entries' = None \/ entries' \in Nat)
  BY <1>1, SizesAssumption DEF IInv, TypeInv
<1> USE <1>1 DEF IInv, slices
<1>4. TypeInv'
  BY <1>2, <1>3 DEF TypeInv, IsPair
<1>5. Walked'
  BY DEF Walked, Size
<1>6. Nested'
  BY <1>3 DEF Nested, Size
<1> QED
  BY <1>4, <1>5, <1>6

LEMMA BreakInv == IInv /\ Break => IInv'
<1> SUFFICES ASSUME IInv, Break PROVE IInv'
  OBVIOUS
<1> USE DEF IInv, Break, slices
<1>1. TypeInv'
  BY DEF TypeInv, IsPair
<1>2. Walked'
  BY DEF Walked, Size
<1>3. Nested'
  BY DEF Nested, TypeInv, Size
<1> QED
  BY <1>1, <1>2, <1>3

LEMMA MapFailsInv == IInv /\ MapFails => IInv'
BY FailInv DEF MapFails

\* The regions that pass the checks lie in the payload and apart.
LEMMA MetaEndsInv == IInv /\ MetaEnds => IInv'
<1> SUFFICES ASSUME IInv, MetaEnds PROVE IInv'
  OBVIOUS
<1>1. CASE Fail
  BY <1>1, FailInv
<1>2. CASE /\ MainValid
           /\ AuxOffset # None => AuxValid
           /\ main' = <<MainOffset, MainEnd>>
           /\ meta_end' = cursor
           /\ aux' = IF AuxOffset = None THEN None ELSE <<AuxOffset, AuxEnd>>
           /\ ReadMap("main", main')
           /\ fields' = NoFields
           /\ UNCHANGED <<memory, outer, message, payload, entries, has_class>>
  <2>1. /\ at = "entries" /\ purpose = "meta"
        /\ payload # None /\ message # None /\ length = Size(payload)
        /\ length \in Nat /\ length <= memory /\ memory \in Nat /\ length <= UsizeMax
        /\ cursor \in Nat /\ fields \in [0 .. 3 -> Nat \cup {None}]
    BY SizesAssumption DEF MetaEnds, MapEnds, IInv, TypeInv, Walked, Nested
  <2>2. MainOffset \in Nat /\ (AuxOffset = None \/ AuxOffset \in Nat)
    BY <2>1 DEF MainOffset, AuxOffset
  <2>3. MainSize \in Nat
    BY <2>1, <2>2 DEF MainSize, Monus
  <2>4. AuxOffset # None => AuxSize \in Nat
    BY <2>1, <2>2 DEF AuxSize, Monus
  <2>5. /\ MainEnd \in Nat /\ MainOffset <= MainEnd /\ MainEnd <= length
        /\ cursor <= MainOffset
    <3>1. Fits(CheckedAdd(MainOffset, MainSize), length)
      BY <1>2 DEF MainValid, MainEnd
    <3>2. CheckedAdd(MainOffset, MainSize) = MainOffset + MainSize /\ MainOffset + MainSize <= length
      BY <3>1, <2>1, <2>2, <2>3, CheckedAddFits
    <3>3. cursor <= MainOffset
      BY <1>2 DEF MainValid
    <3> QED
      BY <3>2, <3>3, <2>2, <2>3 DEF MainEnd
  <2>6. AuxOffset # None =>
          /\ AuxEnd \in Nat /\ AuxOffset <= AuxEnd /\ AuxEnd <= length
          /\ cursor <= AuxOffset
          /\ MainEnd <= AuxOffset \/ AuxEnd <= MainOffset
    <3> SUFFICES ASSUME AuxOffset # None
                 PROVE  /\ AuxEnd \in Nat /\ AuxOffset <= AuxEnd /\ AuxEnd <= length
                        /\ cursor <= AuxOffset
                        /\ MainEnd <= AuxOffset \/ AuxEnd <= MainOffset
      OBVIOUS
    <3>1. Fits(CheckedAdd(AuxOffset, AuxSize), length) /\ ~Overlap /\ cursor <= AuxOffset
      BY <1>2 DEF AuxValid, AuxEnd
    <3>2. CheckedAdd(AuxOffset, AuxSize) = AuxOffset + AuxSize /\ AuxOffset + AuxSize <= length
      BY <3>1, <2>1, <2>2, <2>4, CheckedAddFits
    <3>3. AuxEnd \in Nat /\ AuxOffset <= AuxEnd /\ AuxEnd <= length
      BY <3>2, <2>2, <2>4 DEF AuxEnd
    <3> QED
      BY <3>1, <3>3, <2>2, <2>5 DEF Overlap
  <2> HIDE DEF MainOffset, MainEnd, AuxOffset, AuxEnd
  <2>7. /\ main' \in Nat \X Nat /\ main'[1] = MainOffset /\ main'[2] = MainEnd /\ main' # None
    BY <1>2, <2>2, <2>5, NoneIsNoPair
  <2>8. aux' # None =>
          /\ aux' \in Nat \X Nat /\ aux'[1] = AuxOffset /\ aux'[2] = AuxEnd
          /\ AuxOffset # None
    BY <1>2, <2>2, <2>6
  <2>9. /\ at' = "head" /\ purpose' = "main" /\ cursor' = 0
        /\ length' = MainEnd - MainOffset
        /\ length' \in Nat /\ length' <= memory
        /\ UNCHANGED <<memory, outer, message, payload, entries>>
    BY <1>2, <2>1, <2>2, <2>5, <2>7 DEF ReadMap, Size
  <2>10. fields' \in [0 .. 3 -> Nat \cup {None}]
    BY <1>2 DEF NoFields
  <2>11. TypeInv'
    BY <1>2, <2>1, <2>7, <2>8, <2>9, <2>10 DEF IInv, TypeInv, IsPair
  <2>12. Walked'
    BY <2>1, <2>7, <2>9 DEF IInv, Walked, Size
  <2>13. meta_end' # None /\ meta_end' <= main'[1] /\ (aux' # None => meta_end' <= aux'[1])
    BY <1>2, <2>1, <2>5, <2>6, <2>7, <2>8, SizesAssumption
  <2>14. Nested'
    BY <2>1, <2>5, <2>6, <2>7, <2>8, <2>9, <2>13 DEF IInv, Nested, Size
  <2> QED
    BY <2>11, <2>12, <2>14 DEF IInv
<1> QED
  BY <1>1, <1>2 DEF MetaEnds

\* The decoded regions are forgotten; the message is walked again.
LEMMA LookForUriInv ==
  ASSUME IInv, purpose \in {"main", "aux"}, LookForUri,
         UNCHANGED <<memory, outer, message, entries, fields>>
  PROVE  IInv'
<1> USE DEF IInv, LookForUri
<1>1. /\ message # None /\ message \in Nat \X Nat /\ message[1] <= message[2] /\ message[2] <= memory
      /\ memory \in Nat
  BY SizesAssumption DEF TypeInv, Walked, Nested, IsPair
<1>2. length' = Size(message) /\ length' \in Nat /\ length' <= memory
  BY <1>1 DEF Size
<1>3. TypeInv'
  BY <1>2 DEF TypeInv, IsPair
<1>4. Walked'
  BY <1>1, <1>2 DEF Walked, Size
<1>5. Nested'
  BY <1>1, <1>2 DEF Nested, Size
<1> QED
  BY <1>3, <1>4, <1>5

LEMMA MainEndsInv == IInv /\ MainEnds => IInv'
<1> SUFFICES ASSUME IInv, MainEnds PROVE IInv'
  OBVIOUS
<1>1. CASE Fail
  BY <1>1, FailInv
<1>2. CASE LookForUri /\ UNCHANGED <<memory, outer, message, entries, fields>>
  BY <1>2, LookForUriInv DEF MainEnds, MapEnds
<1>3. CASE /\ aux # None /\ ReadMap("aux", aux) /\ UNCHANGED <<payload, main, aux, meta_end, has_class>>
           /\ UNCHANGED <<memory, outer, message, entries, fields>>
  <2> USE <1>3 DEF IInv, ReadMap
  <2>1. /\ message # None /\ message \in Nat \X Nat /\ message[2] <= memory
        /\ payload # None /\ payload \in Nat \X Nat /\ payload[2] <= Size(message)
        /\ main # None
        /\ aux \in Nat \X Nat /\ aux[1] <= aux[2] /\ aux[2] <= Size(payload)
        /\ memory \in Nat
    BY SizesAssumption DEF TypeInv, Nested, IsPair
  <2>2. length' = aux[2] - aux[1] /\ length' \in Nat /\ length' <= memory
    BY <2>1 DEF Size
  <2>3. TypeInv'
    BY <2>2 DEF TypeInv, IsPair
  <2>4. Walked'
    BY <2>1, <2>2 DEF Walked, Size
  <2>5. Nested'
    BY <2>1, <2>2 DEF Nested, Size
  <2> QED
    BY <2>3, <2>4, <2>5
<1> QED
  BY <1>1, <1>2, <1>3 DEF MainEnds

LEMMA AuxEndsInv == IInv /\ AuxEnds => IInv'
BY FailInv, LookForUriInv DEF AuxEnds, MapEnds

-----------------------------------------------------------------------------
LEMMA NextInv == IInv /\ [Next]_vars => IInv'
<1> SUFFICES ASSUME IInv, [Next]_vars PROVE IInv'
  OBVIOUS
<1>1. CASE UNCHANGED vars
  <2> USE <1>1 DEF IInv, vars, walk, slices, map
  <2>1. TypeInv'
    BY DEF TypeInv, IsPair
  <2>2. Walked'
    BY DEF Walked, Size
  <2>3. Nested'
    BY DEF Nested, Size
  <2> QED
    BY <2>1, <2>2, <2>3
<1>2. CASE Next
  BY <1>2, StartInv, NullTlvInv, TlvInv, NoMessageInv, RecordInv, NoRecordInv, MapHeadInv,
     EntryInv, BreakInv, MapFailsInv, MetaEndsInv, MainEndsInv, AuxEndsInv DEF Next
<1> QED
  BY <1>1, <1>2

LEMMA Invariant == Spec => []IInv
BY InitInv, NextInv, PTL DEF Spec

\* No walk leaves its slice and no slice the one it is cut from, for memories,
\* lengths and offsets of any size (openprinttag.rs:155, 202-206, 95, 103, 404-406).
THEOREM NoSliceOutOfBounds == Spec => []SlicesInBounds
<1>1. IInv => SlicesInBounds
  <2> SUFFICES ASSUME IInv PROVE SlicesInBounds
    OBVIOUS
  <2>1. memory \in Nat /\ cursor \in Nat /\ length \in Nat
    BY SizesAssumption DEF IInv, TypeInv
  <2>2. IsSlice(message, memory)
    BY <2>1 DEF IInv, TypeInv, Nested, IsPair, IsSlice
  <2>3. payload # None => message # None /\ IsSlice(payload, Size(message))
    BY <2>1 DEF IInv, TypeInv, Nested, IsPair, IsSlice, Size
  <2>4. main # None => payload # None /\ IsSlice(main, Size(payload))
    BY <2>1 DEF IInv, TypeInv, Nested, IsPair, IsSlice, Size
  <2>5. aux # None => payload # None /\ IsSlice(aux, Size(payload))
    BY <2>1 DEF IInv, TypeInv, Nested, IsPair, IsSlice, Size
  <2> QED
    BY <2>1, <2>2, <2>3, <2>4, <2>5 DEF IInv, TypeInv, Nested, SlicesInBounds
<1> QED
  BY <1>1, Invariant, PTL

\* The sizes the decoder gives two regions without sizes make one end where the
\* other begins, or the payload does.
LEMMA DefaultsFit ==
  ASSUME IInv, MapEnds("meta"), fields[1] = None, fields[3] = None,
         {MainOffset, AuxOffset} \subseteq cursor .. length, MainOffset # AuxOffset
  PROVE  AuxValid /\ Fits(MainEnd, length)
<1>1. /\ length \in Nat /\ length <= UsizeMax /\ UsizeMax \in Nat /\ cursor \in Nat
  BY SizesAssumption DEF IInv, TypeInv, Walked
<1>2. /\ MainOffset \in Nat /\ MainOffset <= length
      /\ AuxOffset \in Nat /\ cursor <= AuxOffset /\ AuxOffset <= length
  BY <1>1
<1>3. AuxOffset # None
  BY <1>2, SizesAssumption
<1>4. ASSUME NEW a \in Nat, NEW b \in Nat, a <= b, b <= length
      PROVE  CheckedAdd(a, Monus(b, a)) = b
  <2>1. Monus(b, a) = b - a
    BY <1>4 DEF Monus
  <2>2. a + (b - a) = b
    OBVIOUS
  <2> QED
    BY <1>1, <1>4, <2>1, <2>2 DEF CheckedAdd
<1>5. MainEnd = IF AuxOffset > MainOffset THEN AuxOffset ELSE length
  <2>1. MainSize = Monus(IF AuxOffset > MainOffset THEN AuxOffset ELSE length, MainOffset)
    BY <1>3 DEF MainSize
  <2> HIDE DEF MainSize, MainOffset, AuxOffset
  <2>2. CASE AuxOffset > MainOffset
    BY <1>2, <1>4, <2>1, <2>2 DEF MainEnd
  <2>3. CASE ~(AuxOffset > MainOffset)
    BY <1>1, <1>2, <1>4, <2>1, <2>3 DEF MainEnd
  <2> QED
    BY <2>2, <2>3
<1>6. AuxEnd = IF AuxOffset < MainOffset THEN MainOffset ELSE length
  <2>1. AuxSize = Monus(IF AuxOffset < MainOffset THEN MainOffset ELSE length, AuxOffset)
    BY DEF AuxSize
  <2>2. CASE AuxOffset < MainOffset
    BY <1>2, <1>4, <2>1, <2>2 DEF AuxEnd
  <2>3. CASE ~(AuxOffset < MainOffset)
    BY <1>1, <1>2, <1>4, <2>1, <2>3 DEF AuxEnd
  <2> QED
    BY <2>2, <2>3
<1> HIDE DEF MainOffset, AuxOffset, MainEnd, AuxEnd
<1>7. Fits(MainEnd, length) /\ Fits(AuxEnd, length)
  BY <1>1, <1>2, <1>5, <1>6 DEF Fits
<1>8. ~Overlap
  BY <1>2, <1>5, <1>6 DEF Overlap
<1> QED
  BY <1>2, <1>7, <1>8 DEF AuxValid

\* However a tag describes its regions they share no byte, with one another or
\* with the meta map, and a tag that gives no sizes is never refused for them
\* (openprinttag.rs:234-260).
THEOREM RegionsApart == Spec => []RegionsConsistent
<1>1. IInv => RegionsConsistent
  <2> SUFFICES ASSUME IInv PROVE RegionsConsistent
    OBVIOUS
  <2>1. /\ main # None => meta_end <= main[1]
        /\ aux # None => meta_end <= aux[1]
        /\ main # None /\ aux # None => main[2] <= aux[1] \/ aux[2] <= main[1]
    BY DEF IInv, Nested
  <2> QED
    BY <2>1, DefaultsFit DEF RegionsConsistent
<1> QED
  BY <1>1, Invariant, PTL

-----------------------------------------------------------------------------
(* Why the decoder ends *)

\* How many walks of the decoder are to come, at most.
Stage ==
  CASE at = "start" -> 10
    [] at = "tlv" -> 9
    [] at = "record" /\ purpose = "payload" -> 8
    [] at = "head" /\ purpose = "meta" -> 7
    [] at = "entries" /\ purpose = "meta" -> 6
    [] at = "head" /\ purpose = "main" -> 5
    [] at = "entries" /\ purpose = "main" -> 4
    [] at = "head" /\ purpose = "aux" -> 3
    [] at = "entries" /\ purpose = "aux" -> 2
    [] at = "record" /\ purpose # "payload" -> 1
    [] OTHER -> 0

\* What is left of the slice that is walked.  A smart poster is walked on top of
\* the records around it, so these count twice.
Left ==
  IF at # "record" THEN length - cursor
  ELSE IF purpose = "poster" THEN 2 * (outer[2] - outer[1]) + (length - cursor) + 1
  ELSE 2 * (length - cursor)

Closer == Stage' < Stage \/ (Stage' = Stage /\ Left' < Left)

\* The safety half of Terminates: every step ends a walk or leaves less of it, so
\* a memory of n bytes is decoded or refused within a number of steps that
\* depends on n alone (openprinttag.rs:139, 166, 373, 492).
WalksForward == [][Closer]_vars

\* To go on in a slice is to leave less of it.
LEMMA LessLeft ==
  ASSUME NEW a \in Nat, NEW b \in Nat, NEW size \in Nat, a < b, b <= size
  PROVE  /\ size - b < size - a
         /\ 2 * (size - b) < 2 * (size - a)
         /\ \A k \in Nat : k + (size - b) + 1 < k + (size - a) + 1
OBVIOUS

\* Neither part falls below zero, and both are bounded by the size of the memory.
LEMMA VariantBounded ==
  ASSUME IInv
  PROVE  Stage \in 0 .. 10 /\ Left \in 0 .. 3 * memory + 1
<1>1. Stage \in 0 .. 10
  BY DEF Stage
<1>2. /\ cursor \in Nat /\ length \in Nat /\ cursor <= length /\ length <= memory /\ memory \in Nat
      /\ outer[1] \in Nat /\ outer[2] \in Nat /\ outer[1] <= outer[2] /\ outer[2] <= memory
  BY SizesAssumption DEF IInv, TypeInv, Walked, Nested, IsPair
<1>3. length - cursor \in 0 .. memory /\ outer[2] - outer[1] \in 0 .. memory
  BY <1>2
<1>4. \A a, b \in 0 .. memory :
        {a, 2 * a, 2 * b + a + 1} \subseteq 0 .. 3 * memory + 1
  BY <1>2
<1>5. Left \in {length - cursor, 2 * (length - cursor),
                2 * (outer[2] - outer[1]) + (length - cursor) + 1}
  BY DEF Left
<1> QED BY <1>1, <1>3, <1>4, <1>5

\* The first step, and the walk over the TLVs.
LEMMA TlvsCloser ==
  ASSUME IInv, Start \/ NullTlv \/ Tlv \/ NoMessage
  PROVE  Closer
<1>1. cursor \in Nat /\ length \in Nat /\ length <= UsizeMax /\ cursor <= length
  BY SizesAssumption DEF IInv, TypeInv, Walked, Nested
<1>2. CASE Start
  BY <1>2 DEF Start, Fail, Stage, Closer
<1>3. CASE NullTlv
  <2>1. Stage' = Stage
    BY <1>3 DEF NullTlv, Stage
  <2>2. Left' < Left
    BY <1>1, <1>3 DEF NullTlv, Left
  <2> QED BY <2>1, <2>2 DEF Closer
<1>4. CASE Tlv
  <2>0. PICK size \in {1, 3} : \E value_length \in ValueLengths(size) :
          LET begin == cursor + 1 + size
              end == CheckedAdd(begin, value_length)
          IN  /\ at = "tlv"
              /\ ValueFits(begin, end)
              /\ SkipTlv(end) \/ TakeMessage(<<begin, end>>)
    BY <1>4 DEF Tlv
  <2>1. PICK value_length \in ValueLengths(size) :
          LET begin == cursor + 1 + size
              end == CheckedAdd(begin, value_length)
          IN  /\ at = "tlv"
              /\ ValueFits(begin, end)
              /\ SkipTlv(end) \/ TakeMessage(<<begin, end>>)
    BY <2>0
  <2> DEFINE begin == cursor + 1 + size
             end == CheckedAdd(begin, value_length)
  <2>2. value_length \in Nat /\ begin \in Nat /\ cursor < begin
    BY <1>1, SizesAssumption DEF ValueLengths
  <2>3. end \in Nat /\ cursor < end
    <3> HIDE DEF begin
    <3>1. end = begin + value_length
      BY <1>1, <2>1, <2>2, CheckedAddFits DEF ValueFits, begin
    <3> QED BY <1>1, <2>2, <3>1
  <2>4. CASE SkipTlv(end)
    <3> HIDE DEF end
    <3>1. Stage' = Stage
      BY <2>4 DEF SkipTlv, Stage
    <3>2. Left' < Left
      BY <1>1, <2>1, <2>3, <2>4 DEF SkipTlv, Left
    <3> QED BY <3>1, <3>2 DEF Closer
  <2>5. CASE TakeMessage(<<begin, end>>)
    BY <2>1, <2>5 DEF TakeMessage, Stage, Closer
  <2> QED BY <2>1, <2>4, <2>5
<1>5. CASE NoMessage
  BY <1>5 DEF NoMessage, Fail, Stage, Closer
<1> QED BY <1>2, <1>3, <1>4, <1>5

\* A record is at least four bytes long, so a poster ends before its record does.
LEMMA RecordCloser ==
  ASSUME IInv, Record
  PROVE  Closer
<1> DEFINE Sum(body, t, i, p) == CheckedAdd(CheckedAdd(CheckedAdd(body, t), i), p)
           Slice(body, t, i, p) == <<body + t + i, body + t + i + p>>
<1>1. PICK short, has_id, last \in BOOLEAN :
        \E type_length \in Bytes, payload_length \in PayloadLengths(short), id_length \in IdLengths(has_id) :
          /\ at = "record" /\ cursor < length
          /\ Fits(Sum(Body(short, has_id), type_length, id_length, payload_length), length)
          /\ \/ SkipRecord(Sum(Body(short, has_id), type_length, id_length, payload_length), last)
             \/ TakePayload(type_length, Slice(Body(short, has_id), type_length, id_length, payload_length))
             \/ TakeUri(type_length)
             \/ EnterPoster(type_length, Slice(Body(short, has_id), type_length, id_length, payload_length), last)
  BY DEF Record
<1>2. PICK type_length \in Bytes, payload_length \in PayloadLengths(short), id_length \in IdLengths(has_id) :
          /\ at = "record" /\ cursor < length
          /\ Fits(Sum(Body(short, has_id), type_length, id_length, payload_length), length)
          /\ \/ SkipRecord(Sum(Body(short, has_id), type_length, id_length, payload_length), last)
             \/ TakePayload(type_length, Slice(Body(short, has_id), type_length, id_length, payload_length))
             \/ TakeUri(type_length)
             \/ EnterPoster(type_length, Slice(Body(short, has_id), type_length, id_length, payload_length), last)
  BY <1>1
<1> DEFINE body == Body(short, has_id)
           end == Sum(body, type_length, id_length, payload_length)
           slice == Slice(body, type_length, id_length, payload_length)
<1>3. type_length \in Nat /\ payload_length \in Nat /\ id_length \in Nat
  BY SizesAssumption DEF PayloadLengths, IdLengths
<1>4. /\ cursor \in Nat /\ length \in Nat /\ length <= UsizeMax
      /\ body \in Nat /\ cursor + 3 <= body
      /\ purpose \in {"payload", "uri", "poster"}
  BY <1>2, SizesAssumption DEF IInv, TypeInv, Walked, Body
<1>5. end = body + type_length + id_length + payload_length /\ end <= length
  BY <1>2, <1>3, <1>4, CheckedSumFits
<1>6. CASE SkipRecord(end, last)
  <2>1. cursor' \in Nat /\ cursor < cursor' /\ cursor' <= length
    <3> HIDE DEF body, end
    <3>1. end \in Nat /\ cursor < end
      BY <1>3, <1>4, <1>5
    <3> QED BY <1>2, <1>4, <1>5, <1>6, <3>1 DEF SkipRecord, Behind
  <2>2. UNCHANGED <<at, purpose, length, outer>>
    BY <1>6 DEF SkipRecord
  <2>3. Stage' = Stage
    BY <2>2 DEF Stage
  <2>5. 2 * (outer[2] - outer[1]) \in Nat
    BY DEF IInv, TypeInv, Nested, IsPair
  <2> HIDE DEF body, end, slice
  <2>6. Left' < Left
    <3>1. CASE purpose = "poster"
      <4>1. /\ Left = 2 * (outer[2] - outer[1]) + (length - cursor) + 1
            /\ Left' = 2 * (outer[2] - outer[1]) + (length - cursor') + 1
        BY <1>2, <2>2, <3>1 DEF Left
      <4> QED BY <1>4, <2>1, <2>5, <4>1, LessLeft
    <3>2. CASE purpose # "poster"
      <4>1. Left = 2 * (length - cursor) /\ Left' = 2 * (length - cursor')
        BY <1>2, <2>2, <3>2 DEF Left
      <4> QED BY <1>4, <2>1, <4>1, LessLeft
    <3> QED BY <3>1, <3>2
  <2> QED BY <2>3, <2>6 DEF Closer
<1>7. CASE TakePayload(type_length, slice)
  <2>1. at = "record" /\ purpose = "payload" /\ at' = "head" /\ purpose' = "meta"
    BY <1>2, <1>7 DEF TakePayload
  <2>2. Stage = 8 /\ Stage' = 7
    BY <2>1 DEF Stage
  <2> QED BY <2>2 DEF Closer
<1>8. CASE TakeUri(type_length)
  BY <1>2, <1>8 DEF TakeUri, Stage, Closer
<1>9. CASE EnterPoster(type_length, slice, last)
  <2>1. /\ at = "record" /\ at' = "record" /\ purpose = "uri" /\ purpose' = "poster"
        /\ cursor' = 0 /\ length' = payload_length
        /\ outer'[2] = length /\ outer'[1] = Behind(slice[2], last)
    <3> HIDE DEF body
    <3>1. Size(slice) = payload_length
      BY <1>3, <1>4 DEF Size
    <3> QED BY <1>2, <1>9, <3>1 DEF EnterPoster
  <2>2. Stage' = Stage
    BY <2>1 DEF Stage
  <2>3. outer'[1] \in {end, length}
    BY <1>5, <2>1 DEF Behind
  <2> HIDE DEF body, end
  <2>4. /\ end \in Nat /\ cursor + 3 + payload_length <= end
        /\ outer'[1] \in Nat /\ cursor + 3 + payload_length <= outer'[1] /\ outer'[1] <= length
    BY <1>3, <1>4, <1>5, <2>3
  <2>5. Left' = 2 * (length - outer'[1]) + payload_length + 1
    BY <1>3, <1>4, <2>1, <2>4 DEF Left
  <2>6. Left = 2 * (length - cursor)
    BY <2>1 DEF Left
  <2>7. Left' < Left
    BY <1>3, <1>4, <2>4, <2>5, <2>6
  <2> QED BY <2>2, <2>7 DEF Closer
<1>10. SkipRecord(end, last) \/ TakePayload(type_length, slice) \/ TakeUri(type_length)
         \/ EnterPoster(type_length, slice, last)
  BY <1>2
<1> QED BY <1>6, <1>7, <1>8, <1>9, <1>10

LEMMA NoRecordCloser ==
  ASSUME IInv, NoRecord
  PROVE  Closer
<1>1. CASE purpose # "poster"
  BY <1>1 DEF NoRecord, Fail, Stage, Closer
<1>2. CASE purpose = "poster"
  <2>1. /\ at = "record" /\ at' = "record" /\ purpose' = "uri"
        /\ cursor' = outer[1] /\ length' = outer[2]
    BY <1>2 DEF NoRecord
  <2>2. /\ cursor \in Nat /\ length \in Nat /\ cursor <= length
        /\ outer[1] \in Nat /\ outer[2] \in Nat
    BY DEF IInv, TypeInv, Nested, IsPair
  <2>3. Stage' = Stage
    BY <1>2, <2>1 DEF Stage
  <2>4. Left' < Left
    BY <1>2, <2>1, <2>2 DEF Left
  <2> QED BY <2>3, <2>4 DEF Closer
<1> QED BY <1>1, <1>2

\* The three maps and the steps between them.
LEMMA MapsCloser ==
  ASSUME IInv, MapHead \/ Entry \/ Break \/ MapFails \/ MetaEnds \/ MainEnds \/ AuxEnds
  PROVE  Closer
<1>1. at \in {"head", "entries"} /\ purpose \in {"meta", "main", "aux"}
  BY DEF IInv, Walked, MapHead, Entry, Break, MapFails, MetaEnds, MainEnds, AuxEnds, MapEnds
<1>2. cursor \in Nat /\ length \in Nat
  BY DEF IInv, TypeInv
<1>3. CASE MapHead
  BY <1>1, <1>3, HeadFits DEF Stage, Closer
<1>4. CASE Entry \/ Break
  <2>1. /\ at = "entries" /\ UNCHANGED <<at, purpose, length>>
        /\ cursor' \in Nat /\ cursor < cursor' /\ cursor' <= length
    <3>1. CASE Break
      BY <1>2, <3>1 DEF Break
    <3>2. CASE Entry
      <4>1. PICK size \in EntrySizes :
              /\ at = "entries" /\ cursor + size <= length /\ cursor' = cursor + size
              /\ UNCHANGED <<at, purpose, length>>
        BY <3>2 DEF Entry
      <4> QED BY <1>2, <4>1, SizesAssumption
    <3> QED BY <1>4, <3>1, <3>2
  <2>2. Stage' = Stage
    BY <2>1 DEF Stage
  <2>3. Left = length - cursor /\ Left' = length - cursor'
    BY <2>1 DEF Left
  <2>4. Left' < Left
    BY <1>2, <2>1, <2>3, LessLeft
  <2> QED BY <2>2, <2>4 DEF Closer
<1>5. CASE Fail
  BY <1>1, <1>5 DEF Fail, Stage, Closer
<1>6. CASE MetaEnds
  BY <1>5, <1>6 DEF MetaEnds, MapEnds, ReadMap, Stage, Closer
<1>7. CASE MainEnds
  BY <1>5, <1>7 DEF MainEnds, MapEnds, ReadMap, LookForUri, Stage, Closer
<1>8. CASE AuxEnds
  BY <1>5, <1>8 DEF AuxEnds, MapEnds, LookForUri, Stage, Closer
<1> QED BY <1>3, <1>4, <1>5, <1>6, <1>7, <1>8 DEF MapFails

\* No memory keeps the decoder busy for ever: the variant is a pair of naturals.
THEOREM DecoderAdvances == Spec => WalksForward
<1>1. IInv /\ [Next]_vars => [Closer]_vars
  BY TlvsCloser, RecordCloser, NoRecordCloser, MapsCloser DEF Next
<1> QED BY <1>1, Invariant, PTL DEF Spec, WalksForward
=============================================================================
