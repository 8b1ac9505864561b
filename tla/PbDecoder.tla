----------------------------- MODULE PbDecoder -----------------------------
(* decoder.py and the parts of python_message.py that drive it: a message  *)
(* made from bytes.  A buffer is a sequence of bytes; pos bytes of it have *)
(* been read, and end is where the message being parsed ends in it.        *)
EXTENDS PbEncoder

Slice(buffer, first, last) ==
    SubSeq(buffer, first + 1, IF last > Len(buffer) THEN Len(buffer) ELSE last)

EmptyMessage == << >>
Without(m, n) == [k \in DOMAIN m \ {n} |-> m[k]]
Put(m, n, v) == (n :> v) @@ m
Held(m, n, default) == IF n \in DOMAIN m THEN m[n] ELSE default
\* An empty container stays out of ListFields.
PutElements(m, n, s) == IF s = << >> THEN m ELSE Put(m, n, s)

(* A field decoder's outcome: where it got to and the message as it left it, *)
(* also when it raised.                                                      *)
Parsed(pos, m) == [st |-> "ok", pos |-> pos, m |-> m]
Raised(st, m) == [st |-> st, pos |-> 0, m |-> m]
Refused(m) == Raised("refused", m)

(* What is done behind an outcome that is not an exception; failed, or the *)
(* exception itself, behind one that is.                                   *)
Upon(r, failed, Step(_)) == IF r.st = "ok" THEN Step(r) ELSE failed
Then(r, Step(_)) == IF r.st = "ok" THEN Step(r) ELSE r

-----------------------------------------------------------------------------
(* Decoders of one element: [st, value, pos]. *)

\* modify_value is bool for BoolDecoder and ZigZagDecode for the others.
ModifiedDecoder(type, read) ==
    [read EXCEPT !.value = IF type = "bool" THEN @ # 0 ELSE ZigZagDecode(@)]

StructPackDecoder(type, buffer, pos) ==
    IF pos + FixedLen(type) > Len(buffer) THEN NotRead
    ELSE Read(UnpackFixed(Slice(buffer, pos, pos + FixedLen(type)),
                          type \in {"sfixed32", "sfixed64"}),
              pos + FixedLen(type))

FloatDecoder(buffer, pos) ==
    IF pos + Fixed32Len > Len(buffer) THEN NotRead
    ELSE Read(DecodeFloat(Slice(buffer, pos, pos + Fixed32Len), "float"),
              pos + Fixed32Len)

DoubleDecoder(buffer, pos) ==
    IF pos + Fixed64Len > Len(buffer) THEN NotRead
    ELSE Read(DecodeFloat(Slice(buffer, pos, pos + Fixed64Len), "double"),
              pos + Fixed64Len)

\* The decode_value of Int32Decoder to BoolDecoder.
DecodeValue(type, buffer, pos) ==
    CASE type \in {"int32", "enum"} -> DecodeSignedVarint(Narrow, buffer, pos)
      [] type = "int64" -> DecodeSignedVarint(Wide, buffer, pos)
      [] type = "uint32" -> DecodeVarint(Narrow, buffer, pos)
      [] type = "uint64" -> DecodeVarint(Wide, buffer, pos)
      [] type = "sint32" -> ModifiedDecoder(type, DecodeVarint(Narrow, buffer, pos))
      [] type = "sint64" -> ModifiedDecoder(type, DecodeVarint(Wide, buffer, pos))
      [] type = "float" -> FloatDecoder(buffer, pos)
      [] type = "double" -> DoubleDecoder(buffer, pos)
      [] type = "bool" -> ModifiedDecoder(type, DecodeVarint(Wide, buffer, pos))
      [] type \in Fixed -> StructPackDecoder(type, buffer, pos)

\* The length and the bytes of a string, which must end before end.
ReadBytes(buffer, pos, end) ==
    Then(DecodeVarint(Wide, buffer, pos), LAMBDA size :
        IF size.pos + size.value > end THEN NotRead
        ELSE Read(Slice(buffer, size.pos, size.pos + size.value), size.pos + size.value))

\* UnicodeDecodeError is a ValueError, which MergeFromString lets pass.
ReadString(buffer, pos, end) ==
    Then(ReadBytes(buffer, pos, end), LAMBDA bytes :
        IF ~ValidUtf8(bytes.value) THEN [NotRead EXCEPT !.st = "raised"]
        ELSE [bytes EXCEPT !.value = DecodeUtf8(@)])

\* Only the strings look at end before the element is taken.
ReadElement(type, buffer, pos, end) ==
    CASE type = "string" -> ReadString(buffer, pos, end)
      [] type = "bytes" -> ReadBytes(buffer, pos, end)
      [] OTHER -> DecodeValue(type, buffer, pos)

-----------------------------------------------------------------------------
(* Field decoders. *)

\* The elements of a packed field up to endpoint; one that goes past it is
\* taken off again.
RECURSIVE PackedElements(_, _, _, _, _)
PackedElements(type, buffer, pos, endpoint, s) ==
    LET GoOn(r) ==
            IF r.st # "ok" THEN [st |-> r.st, pos |-> 0, value |-> s]
            ELSE PackedElements(type, buffer, r.pos, endpoint, Append(s, r.value))
    IN IF pos < endpoint THEN GoOn(DecodeValue(type, buffer, pos))
       ELSE IF pos > endpoint THEN [st |-> "refused", pos |-> 0, value |-> Front(s)]
       ELSE [st |-> "ok", pos |-> pos, value |-> s]

\* What a decoder of elements read, as the field decoder's outcome.
WithElements(r, m, n) == [st |-> r.st, pos |-> r.pos, m |-> PutElements(m, n, r.value)]

DecodePackedField(type, n, buffer, pos, end, m) ==
    Upon(DecodeVarint(Wide, buffer, pos), Refused(m), LAMBDA size :
        IF size.pos + size.value > end THEN Refused(m)
        ELSE WithElements(PackedElements(type, buffer, size.pos, size.pos + size.value,
                                         Held(m, n, << >>)), m, n))

\* The prediction that the next tag is another copy of the same field.
AnotherCopy(tag, buffer, pos, end) ==
    Slice(buffer, pos, pos + Len(tag)) = tag /\ pos < end

\* An element that goes past end has been appended when that is noticed.
RECURSIVE RepeatedElements(_, _, _, _, _, _)
RepeatedElements(type, tag, buffer, pos, end, s) ==
    LET GoOn(r) ==
            IF r.st # "ok" THEN [st |-> r.st, pos |-> 0, value |-> s]
            ELSE IF AnotherCopy(tag, buffer, r.pos, end)
            THEN RepeatedElements(type, tag, buffer, r.pos + Len(tag), end, Append(s, r.value))
            ELSE [st |-> IF r.pos > end THEN "refused" ELSE "ok", pos |-> r.pos,
                  value |-> Append(s, r.value)]
    IN GoOn(ReadElement(type, buffer, pos, end))

DecodeRepeatedField(desc, n, buffer, pos, end, m) ==
    LET tag == TagBytes(n, FIELD_TYPE_TO_WIRE_TYPE[desc.type])
    IN WithElements(RepeatedElements(desc.type, tag, buffer, pos, end, Held(m, n, << >>)),
                    m, n)

\* A value that goes past end is deleted, with the one it replaced.
DecodeField(desc, n, buffer, pos, end, m) ==
    LET Store(r) == IF r.st # "ok" THEN Raised(r.st, m)
                    ELSE IF r.pos > end THEN Refused(Without(m, n))
                    ELSE Parsed(r.pos, Put(m, n, r.value))
    IN Store(ReadElement(desc.type, buffer, pos, end))

SimpleDecoder(desc, n, packed, buffer, pos, end, m) ==
    IF packed THEN DecodePackedField(desc.type, n, buffer, pos, end, m)
    ELSE IF desc.label = "repeated" THEN DecodeRepeatedField(desc, n, buffer, pos, end, m)
    ELSE DecodeField(desc, n, buffer, pos, end, m)

StringDecoder(desc, n, buffer, pos, end, m) ==
    SimpleDecoder(desc, n, FALSE, buffer, pos, end, m)

BytesDecoder(desc, n, buffer, pos, end, m) ==
    SimpleDecoder(desc, n, FALSE, buffer, pos, end, m)

-----------------------------------------------------------------------------
(* Skipping a field nobody knows: [st, pos], pos = -1 at an END_GROUP tag. *)

\* The position, when it is not past end.
Within(pos, end) == IF pos > end THEN NotRead ELSE Read(0, pos)

SkipVarint(buffer, pos, end) ==
    LET last == Stop(buffer, pos)
    IN IF last = 0 THEN NotRead ELSE Within(last, end)

SkipFixed64(buffer, pos, end) == Within(pos + Fixed64Len, end)
SkipFixed32(buffer, pos, end) == Within(pos + Fixed32Len, end)

\* Mutant of SkipLengthDelimited: the length itself is not skipped.
SkipLengthDelimitedShort(buffer, pos, end) ==
    Then(DecodeVarint(Wide, buffer, pos), LAMBDA size : Within(pos + size.value, end))

SkipLengthDelimited(buffer, pos, end) ==
    Then(DecodeVarint(Wide, buffer, pos), LAMBDA size : Within(size.pos + size.value, end))

EndGroup == Read(0, -1)

RECURSIVE SkipGroup(_, _, _)

SkipField(buffer, pos, end, tag) ==
    LET wiretype == tag[1] % 8
    IN CASE wiretype = VARINT -> SkipVarint(buffer, pos, end)
         [] wiretype = FIXED64 -> SkipFixed64(buffer, pos, end)
         [] wiretype = LENGTH_DELIMITED -> SkipLengthDelimited(buffer, pos, end)
         [] wiretype = START_GROUP -> SkipGroup(buffer, pos, end)
         [] wiretype = END_GROUP -> EndGroup
         [] wiretype = FIXED32 -> SkipFixed32(buffer, pos, end)
         [] OTHER -> NotRead

\* Ends at any END_GROUP tag, whatever its number, and does not look at end.
SkipGroup(buffer, pos, end) ==
    LET GoOn(tag, r) == IF r.pos = -1 THEN Read(0, tag.pos) ELSE SkipGroup(buffer, r.pos, end)
    IN Then(ReadTag(buffer, pos), LAMBDA tag :
           Then(SkipField(buffer, tag.pos, end, tag.value), LAMBDA r : GoOn(tag, r)))

-----------------------------------------------------------------------------
(* Submessages. *)

RECURSIVE InternalParse(_, _, _, _, _)

\* The message m parsed on from a group's bytes, up to and with its end tag.
ReadGroup(desc, n, buffer, pos, end, m) ==
    LET tag == TagBytes(n, END_GROUP)
        EndTag(r, after) ==
            IF Slice(buffer, r.pos, after) # tag \/ after > end THEN Refused(r.m)
            ELSE Parsed(after, r.m)
    IN Then(InternalParse(desc.sub, buffer, pos, end, m),
            LAMBDA r : EndTag(r, r.pos + Len(tag)))

\* Mutant of LengthOf: where the enclosing bytes end is not looked at.
LengthOfUnchecked(buffer, pos, end) == DecodeVarint(Wide, buffer, pos)

\* The length of a submessage, which must end before end.
LengthOf(buffer, pos, end) ==
    Then(DecodeVarint(Wide, buffer, pos), LAMBDA size :
        IF size.pos + size.value > end THEN NotRead ELSE size)

\* The message m parsed on from size.value bytes; it must not stop earlier.
ReadMessage(desc, size, buffer, m) ==
    LET stop == size.pos + size.value
    IN Then(InternalParse(desc.sub, buffer, size.pos, stop, m), LAMBDA r :
           IF r.pos # stop THEN Refused(r.m) ELSE r)

RECURSIVE RepeatedGroups(_, _, _, _, _, _)
RepeatedGroups(desc, n, buffer, pos, end, m) ==
    LET tag == TagBytes(n, START_GROUP)
        Add(r, grown) ==
            IF r.st = "ok" /\ AnotherCopy(tag, buffer, r.pos, end)
            THEN RepeatedGroups(desc, n, buffer, r.pos + Len(tag), end, grown)
            ELSE [r EXCEPT !.m = grown]
        GoOn(r) == Add(r, Put(m, n, Append(Held(m, n, << >>), r.m)))
    IN GoOn(ReadGroup(desc, n, buffer, pos, end, EmptyMessage))

\* Mutant of GroupDecoder: what the field held before is not parsed into.
GroupDecoderFresh(desc, n, buffer, pos, end, m) ==
    IF desc.label = "repeated" THEN RepeatedGroups(desc, n, buffer, pos, end, m)
    ELSE [ReadGroup(desc, n, buffer, pos, end, EmptyMessage) EXCEPT !.m = Put(m, n, @)]

GroupDecoder(desc, n, buffer, pos, end, m) ==
    IF desc.label = "repeated" THEN RepeatedGroups(desc, n, buffer, pos, end, m)
    ELSE [ReadGroup(desc, n, buffer, pos, end, Held(m, n, EmptyMessage))
            EXCEPT !.m = Put(m, n, @)]

RECURSIVE RepeatedMessages(_, _, _, _, _, _)
RepeatedMessages(desc, n, buffer, pos, end, m) ==
    LET tag == TagBytes(n, LENGTH_DELIMITED)
        Add(r, grown) ==
            IF r.st = "ok" /\ AnotherCopy(tag, buffer, r.pos, end)
            THEN RepeatedMessages(desc, n, buffer, r.pos + Len(tag), end, grown)
            ELSE [r EXCEPT !.m = grown]
        GoOn(r) == Add(r, Put(m, n, Append(Held(m, n, << >>), r.m)))
    IN Upon(LengthOf(buffer, pos, end), Refused(m), LAMBDA size :
           GoOn(ReadMessage(desc, size, buffer, EmptyMessage)))

MessageDecoder(desc, n, buffer, pos, end, m) ==
    IF desc.label = "repeated" THEN RepeatedMessages(desc, n, buffer, pos, end, m)
    ELSE Upon(LengthOf(buffer, pos, end), Refused(m), LAMBDA size :
            [ReadMessage(desc, size, buffer, Held(m, n, EmptyMessage))
                EXCEPT !.m = Put(m, n, @)])

\* The parts of a MessageSet item, in any order; -1 for one not met yet.
RECURSIVE ItemParts(_, _, _, _)
ItemParts(buffer, pos, end, item) ==
    LET TypeId(r) == ItemParts(buffer, r.pos, end, [item EXCEPT !.type_id = r.value])
        Message(r) ==
            ItemParts(buffer, r.pos + r.value, end,
                      [item EXCEPT !.start = r.pos, !.stop = r.pos + r.value])
        Skipped(r) == IF r.pos = -1 THEN NotRead ELSE ItemParts(buffer, r.pos, end, item)
        Part(tag) ==
            CASE tag.value = TagBytes(1, END_GROUP) -> Read(item, tag.pos)
              [] tag.value = TagBytes(2, VARINT) ->
                     Then(DecodeVarint(Wide, buffer, tag.pos), TypeId)
              [] tag.value = TagBytes(3, LENGTH_DELIMITED) ->
                     Then(DecodeVarint(Wide, buffer, tag.pos), Message)
              [] OTHER -> Then(SkipField(buffer, tag.pos, end, tag.value), Skipped)
    IN Then(ReadTag(buffer, pos), Part)

\* An item whose type_id nobody registered is read and dropped.
MessageSetItemDecoder(T, buffer, pos, end, m) ==
    LET Store(n, after, r) ==
            IF r.st # "ok" THEN [r EXCEPT !.m = Put(m, n, @)]
            ELSE Parsed(after, Put(m, n, r.m))
        Item(n, start, stop, after) ==
            IF after > end \/ -1 \in {n, start} THEN Refused(m)
            ELSE IF n \notin DOMAIN Schema[T] THEN Parsed(after, m)
            ELSE Store(n, after, ReadMessage(Schema[T][n], Read(stop - start, start),
                                             buffer, Held(m, n, EmptyMessage)))
    IN Upon(ItemParts(buffer, pos, end, [type_id |-> -1, start |-> -1, stop |-> -1]),
            Refused(m),
            LAMBDA p : Item(p.value.type_id, p.value.start, p.value.stop, p.pos))

-----------------------------------------------------------------------------
(* _decoders_by_tag: the field and the flag packed that AddDecoder recorded  *)
(* for the bytes of a tag.  A repeated field of a packable type gets both.   *)

DecodersByTag ==
    [T \in DOMAIN Schema |->
        {[tag |-> TagBytes(n, FIELD_TYPE_TO_WIRE_TYPE[Schema[T][n].type]),
          field |-> n, packed |-> FALSE] : n \in DOMAIN Schema[T]}
        \cup {[tag |-> TagBytes(n, LENGTH_DELIMITED), field |-> n, packed |-> TRUE] :
                n \in {n \in DOMAIN Schema[T] :
                        /\ Schema[T][n].label = "repeated"
                        /\ IsTypePackable(Schema[T][n].type)}}]

MESSAGE_SET_ITEM_TAG == TagBytes(1, START_GROUP)

\* TYPE_TO_DECODER.
DecodeByType(desc, n, packed, buffer, pos, end, m) ==
    CASE desc.type = "string" -> StringDecoder(desc, n, buffer, pos, end, m)
      [] desc.type = "bytes" -> BytesDecoder(desc, n, buffer, pos, end, m)
      [] desc.type = "group" -> GroupDecoder(desc, n, buffer, pos, end, m)
      [] desc.type = "message" -> MessageDecoder(desc, n, buffer, pos, end, m)
      [] OTHER -> SimpleDecoder(desc, n, packed, buffer, pos, end, m)

InternalParse(T, buffer, pos, end, m) ==
    LET Known(tag) == {d \in DecodersByTag[T] : d.tag = tag}
        Decode(tag) ==
            IF MessageSet(T) /\ tag.value = MESSAGE_SET_ITEM_TAG
            THEN MessageSetItemDecoder(T, buffer, tag.pos, end, m)
            ELSE IF Known(tag.value) # {}
            THEN LET d == CHOOSE d \in Known(tag.value) : TRUE
                 IN DecodeByType(Schema[T][d.field], d.field, d.packed, buffer, tag.pos, end, m)
            ELSE Upon(SkipField(buffer, tag.pos, end, tag.value), Refused(m),
                      LAMBDA skip : Parsed(skip.pos, m))
        GoOn(r) == IF r.pos = -1 THEN Parsed(pos, m)
                   ELSE InternalParse(T, buffer, r.pos, end, r.m)
    IN IF pos = end THEN Parsed(pos, m)
       ELSE Upon(ReadTag(buffer, pos), Refused(m), LAMBDA tag : Then(Decode(tag), GoOn))

\* "Unexpected end-group tag." when the parse returns early.
MergeFromString(T, m, serialized) ==
    Then(InternalParse(T, serialized, 0, Len(serialized), m), LAMBDA r :
        IF r.pos # Len(serialized) THEN Refused(r.m) ELSE r)

FromString(T, serialized) == MergeFromString(T, EmptyMessage, serialized)

-----------------------------------------------------------------------------
(* Merging and required fields, from python_message.py. *)

\* MergeFrom(msg).  The elements of a repeated submessage are copied.
RECURSIVE MergeFrom(_, _, _)
MergeFrom(T, m, msg) ==
    [n \in DOMAIN m \cup DOMAIN msg |->
        IF n \notin DOMAIN msg THEN m[n]
        ELSE IF Schema[T][n].label = "repeated" THEN Held(m, n, << >>) \o msg[n]
        ELSE IF Schema[T][n].type \in Composite
             THEN MergeFrom(Schema[T][n].sub, Held(m, n, EmptyMessage), msg[n])
        ELSE msg[n]]

\* The submessages under field n, whether it is repeated or not.
Submessages(T, m, n) ==
    IF Schema[T][n].type \notin Composite THEN << >>
    ELSE IF Schema[T][n].label = "repeated" THEN m[n] ELSE <<m[n]>>

Required(T) == {n \in DOMAIN Schema[T] : Schema[T][n].label = "required"}

\* A getter leaves a submessage in _fields that is not present in its parent.
\* getters are the numbers of the fields that were read, in m and below it;
\* m itself has what is present.
Absent(T, m, getters) ==
    {n \in (getters \cap DOMAIN Schema[T]) \ DOMAIN m :
        Schema[T][n].type \in Composite /\ Schema[T][n].label # "repeated"}

\* The dictionary _fields, as a message.
FieldsOf(T, m, getters) == [n \in Absent(T, m, getters) |-> EmptyMessage] @@ m

\* Mutant of IsInitialized: what a getter made is not told from what was set.
RECURSIVE IsInitializedReads(_, _, _)
IsInitializedReads(T, m, getters) ==
    LET fields == FieldsOf(T, m, getters)
    IN /\ Required(T) \subseteq DOMAIN fields
       /\ \A n \in DOMAIN fields : \A i \in DOMAIN Submessages(T, fields, n) :
              IsInitializedReads(Schema[T][n].sub, Submessages(T, fields, n)[i], getters)

\* Goes through _fields, asking each submessage whether it is present.
RECURSIVE IsInitialized(_, _, _)
IsInitialized(T, m, getters) ==
    LET fields == FieldsOf(T, m, getters)
        PresentInParent(n) == n \notin Absent(T, m, getters)
    IN /\ \A n \in Required(T) : n \in DOMAIN fields /\ PresentInParent(n)
       /\ \A n \in DOMAIN fields : \A i \in DOMAIN Submessages(T, fields, n) :
              PresentInParent(n) =>
                  IsInitialized(Schema[T][n].sub, Submessages(T, fields, n)[i], getters)

\* Goes through HasField and ListFields.  The paths of the fields that are
\* missing; an index only for repeated fields.
RECURSIVE FindInitializationErrors(_, _)
FindInitializationErrors(T, m) ==
    {<<n>> : n \in Required(T) \ DOMAIN m}
    \cup UNION {UNION {
        {<<n>> \o (IF Schema[T][n].label = "repeated" THEN <<i>> ELSE << >>) \o path :
            path \in FindInitializationErrors(Schema[T][n].sub, Submessages(T, m, n)[i])} :
        i \in DOMAIN Submessages(T, m, n)} : n \in DOMAIN m}

\* SerializeToString refuses a message that lacks a required field.
SerializeToString(T, m, getters) ==
    IF IsInitialized(T, m, getters) THEN [st |-> "ok", bytes |-> InternalSerialize(T, m)]
    ELSE [st |-> "EncodeError", missing |-> FindInitializationErrors(T, m)]
============================================================================
