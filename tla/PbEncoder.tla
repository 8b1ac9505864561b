----------------------------- MODULE PbEncoder -----------------------------
(* encoder.py: what a message's bytes are, and how many.                   *)
EXTENDS PbSchema

-----------------------------------------------------------------------------
(* Sizers.  desc is the field's descriptor, number its number, values what  *)
(* the field holds, one value if it is not repeated.                        *)

PackedSize(content, number) == content + VarintSize(content) + TagSize(number)

\* sizes: compute_value_size of each value.
SimpleSizer(sizes, desc, number) ==
    IF desc.packed THEN PackedSize(Total(sizes), number)
    ELSE TagSize(number) * Len(sizes) + Total(sizes)

ModifiedSizer(desc, number, values) ==
    SimpleSizer([i \in DOMAIN values |-> SignedVarintSize(ZigZagEncode(values[i]))],
                desc, number)

FixedSizer(size, desc, number, values) ==
    IF desc.packed THEN PackedSize(Len(values) * size, number)
    ELSE Len(values) * (size + TagSize(number))

Delimited(length) == VarintSize(length) + length

StringSizer(desc, number, values) ==
    SimpleSizer([i \in DOMAIN values |-> Delimited(Len(EncodeUtf8(values[i])))],
                desc, number)

BytesSizer(desc, number, values) ==
    SimpleSizer([i \in DOMAIN values |-> Delimited(Len(values[i]))], desc, number)

RECURSIVE ByteSize(_, _)

\* tag_size is that of the start and the end tag.
GroupSizer(desc, number, values) ==
    2 * TagSize(number) * Len(values)
        + Total([i \in DOMAIN values |-> ByteSize(desc.sub, values[i])])

MessageSizer(desc, number, values) ==
    SimpleSizer([i \in DOMAIN values |-> Delimited(ByteSize(desc.sub, values[i]))],
                desc, number)

MessageSetItemSizer(desc, number, value) ==
    2 * TagSize(1) + TagSize(2) + VarintSize(number) + TagSize(3)
        + Delimited(ByteSize(desc.sub, value))

ValuesIn(desc, value) == IF desc.label = "repeated" THEN value ELSE <<value>>

\* TYPE_TO_SIZER, and the MessageSet case of _AttachFieldHelpers before it.
FieldSize(desc, number, value) ==
    LET values == ValuesIn(desc, value)
    IN CASE desc.item -> MessageSetItemSizer(desc, number, value)
         [] desc.type \in {"int32", "int64", "enum"} ->
               SimpleSizer([i \in DOMAIN values |-> SignedVarintSize(values[i])], desc, number)
         [] desc.type \in {"uint32", "uint64"} ->
               SimpleSizer([i \in DOMAIN values |-> VarintSize(values[i])], desc, number)
         [] desc.type \in {"sint32", "sint64"} -> ModifiedSizer(desc, number, values)
         [] desc.type \in Fixed \cup Floating ->
               FixedSizer(FixedLen(desc.type), desc, number, values)
         [] desc.type = "bool" -> FixedSizer(1, desc, number, values)
         [] desc.type = "string" -> StringSizer(desc, number, values)
         [] desc.type = "bytes" -> BytesSizer(desc, number, values)
         [] desc.type = "group" -> GroupSizer(desc, number, values)
         [] OTHER -> MessageSizer(desc, number, values)

\* The fields that are present, by number.
ListFields(m) == SetToSortSeq(DOMAIN m, <)

\* Without the cache, which PbMessage models.
ByteSize(T, m) ==
    LET fields == ListFields(m)
    IN Total([i \in DOMAIN fields |->
                FieldSize(Schema[T][fields[i]], fields[i], m[fields[i]])])

-----------------------------------------------------------------------------
(* Encoders.  Each gives the bytes it hands to write. *)

\* A packed field: one tag, the length of the elements, the elements.
PackedField(elements, size, number) ==
    TagBytes(number, LENGTH_DELIMITED) \o EncodeVarint(size) \o FlattenSeq(elements)

\* elements: the bytes of each value; sizes: compute_value_size of each.
SimpleEncoder(elements, sizes, wiretype, desc, number) ==
    IF desc.packed THEN PackedField(elements, Total(sizes), number)
    ELSE FlattenSeq([i \in DOMAIN elements |-> TagBytes(number, wiretype) \o elements[i]])

ModifiedEncoder(wiretype, desc, number, values) ==
    SimpleEncoder([i \in DOMAIN values |-> EncodeVarint(ZigZagEncode(values[i]))],
                  [i \in DOMAIN values |-> VarintSize(ZigZagEncode(values[i]))],
                  wiretype, desc, number)

StructPackEncoder(wiretype, desc, number, values) ==
    SimpleEncoder([i \in DOMAIN values |-> PackFixed(values[i], FixedLen(desc.type))],
                  [i \in DOMAIN values |-> FixedLen(desc.type)], wiretype, desc, number)

FloatingPointEncoder(wiretype, desc, number, values) ==
    SimpleEncoder([i \in DOMAIN values |-> EncodeFloat(values[i], desc.type)],
                  [i \in DOMAIN values |-> FixedLen(desc.type)], wiretype, desc, number)

BoolEncoder(desc, number, values) ==
    SimpleEncoder([i \in DOMAIN values |-> IF values[i] THEN <<1>> ELSE <<0>>],
                  [i \in DOMAIN values |-> 1], VARINT, desc, number)

\* Each value behind a tag of its own and the length of its bytes.
DelimitedField(lengths, elements, number) ==
    FlattenSeq([i \in DOMAIN elements |->
        TagBytes(number, LENGTH_DELIMITED) \o EncodeVarint(lengths[i]) \o elements[i]])

StringEncoder(number, values) ==
    LET encoded == [i \in DOMAIN values |-> EncodeUtf8(values[i])]
    IN DelimitedField([i \in DOMAIN values |-> Len(encoded[i])], encoded, number)

BytesEncoder(number, values) ==
    DelimitedField([i \in DOMAIN values |-> Len(values[i])], values, number)

RECURSIVE InternalSerialize(_, _)

GroupEncoder(desc, number, values) ==
    FlattenSeq([i \in DOMAIN values |->
        TagBytes(number, START_GROUP) \o InternalSerialize(desc.sub, values[i])
            \o TagBytes(number, END_GROUP)])

\* The length written is the message's ByteSize, whatever it serializes to.
MessageEncoder(desc, number, values) ==
    DelimitedField([i \in DOMAIN values |-> ByteSize(desc.sub, values[i])],
                   [i \in DOMAIN values |-> InternalSerialize(desc.sub, values[i])],
                   number)

MessageSetItemEncoder(desc, number, value) ==
    TagBytes(1, START_GROUP) \o TagBytes(2, VARINT) \o EncodeVarint(number)
        \o TagBytes(3, LENGTH_DELIMITED) \o EncodeVarint(ByteSize(desc.sub, value))
        \o InternalSerialize(desc.sub, value) \o TagBytes(1, END_GROUP)

\* TYPE_TO_ENCODER, and the MessageSet case of _AttachFieldHelpers before it.
EncodeField(desc, number, value) ==
    LET wiretype == FIELD_TYPE_TO_WIRE_TYPE[desc.type]
        values == ValuesIn(desc, value)
    IN CASE desc.item -> MessageSetItemEncoder(desc, number, value)
         [] desc.type \in {"int32", "int64", "enum"} ->
               SimpleEncoder([i \in DOMAIN values |-> EncodeSignedVarint(values[i])],
                             [i \in DOMAIN values |-> SignedVarintSize(values[i])],
                             wiretype, desc, number)
         [] desc.type \in {"uint32", "uint64"} ->
               SimpleEncoder([i \in DOMAIN values |-> EncodeVarint(values[i])],
                             [i \in DOMAIN values |-> VarintSize(values[i])],
                             wiretype, desc, number)
         [] desc.type \in {"sint32", "sint64"} ->
               ModifiedEncoder(wiretype, desc, number, values)
         [] desc.type \in Fixed -> StructPackEncoder(wiretype, desc, number, values)
         [] desc.type \in Floating -> FloatingPointEncoder(wiretype, desc, number, values)
         [] desc.type = "bool" -> BoolEncoder(desc, number, values)
         [] desc.type = "string" -> StringEncoder(number, values)
         [] desc.type = "bytes" -> BytesEncoder(number, values)
         [] desc.type = "group" -> GroupEncoder(desc, number, values)
         [] OTHER -> MessageEncoder(desc, number, values)

InternalSerialize(T, m) ==
    LET fields == ListFields(m)
    IN FlattenSeq([i \in DOMAIN fields |->
                    EncodeField(Schema[T][fields[i]], fields[i], m[fields[i]])])
=============================================================================
