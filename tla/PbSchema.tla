------------------------------ MODULE PbSchema ------------------------------
(* Message types and the values of their fields.  A message is the         *)
(* function from the numbers of the fields ListFields gives to their       *)
(* values; a repeated field's value is a sequence, never empty.            *)
EXTENDS PbNumbers, SequencesExt, FiniteSetsExt, TLC
CONSTANTS Schema   \* message type -> field number -> descriptor, see SchemaOK

Integral == {"int32", "enum", "int64", "uint32", "uint64", "sint32", "sint64"}
Fixed == {"fixed32", "sfixed32", "fixed64", "sfixed64"}
Floating == {"float", "double"}
Composite == {"group", "message"}
Stringy == {"string", "bytes"}
Types == Integral \cup Fixed \cup Floating \cup Composite \cup Stringy \cup {"bool"}

(* label is LABEL_OPTIONAL, _REQUIRED or _REPEATED; item marks a MessageSet *)
(* extension; set a message type with message_set_wire_format.              *)
ASSUME SchemaOK ==
    \A T \in DOMAIN Schema : \A n \in DOMAIN Schema[T] :
        LET d == Schema[T][n]
        IN /\ n \in Nat \ {0}
           /\ d.type \in Types
           /\ d.label \in {"optional", "required", "repeated"}
           /\ d.packed \in BOOLEAN /\ d.item \in BOOLEAN
           /\ d.type \in Composite => d.sub \in DOMAIN Schema
           /\ d.packed => d.label = "repeated"
           /\ d.item => d.type = "message" /\ d.label = "optional"

MessageSet(T) == \E n \in DOMAIN Schema[T] : Schema[T][n].item

IsTypePackable(type) == type \notin Composite \cup Stringy

FIELD_TYPE_TO_WIRE_TYPE ==
    [t \in Types |->
        CASE t \in {"double", "fixed64", "sfixed64"} -> FIXED64
          [] t \in {"float", "fixed32", "sfixed32"} -> FIXED32
          [] t \in Stringy \cup {"message"} -> LENGTH_DELIMITED
          [] t = "group" -> START_GROUP
          [] OTHER -> VARINT]

FixedLen(type) == IF type \in {"float", "fixed32", "sfixed32"} THEN Fixed32Len
                                                               ELSE Fixed64Len

Total(sizes) == FoldLeft(+, 0, sizes)

\* The bytes of each element, one after the other.
Concat(Bytes(_), value) == FoldLeft(LAMBDA out, e : out \o Bytes(e), << >>, value)

-----------------------------------------------------------------------------
(* Floating point numbers: NaN for every NaN, else sign, exponent and        *)
(* significand.  The last byte has the sign and most of the     *)
(* exponent; the rest of the exponent is at the top of the byte before it,   *)
(* above SigPart, with the top of the significand below.                     *)

NaN == [neg |-> FALSE, exp |-> -1, sig |-> << >>]

SigPart(type) == IF type = "float" THEN Group ELSE Group \div 8
ExponentLow(type) == Byte \div SigPart(type)
ExponentMax(type) == Group * ExponentLow(type) - 1

FloatBytes(neg, exp, sig, type) ==
    [i \in 1 .. FixedLen(type) |->
        CASE i = FixedLen(type) ->
                (IF neg THEN Group ELSE 0) + (exp \div ExponentLow(type))
          [] i = FixedLen(type) - 1 ->
                (exp % ExponentLow(type)) * SigPart(type) + sig[i]
          [] OTHER -> sig[i]]

\* NaN is written with the top bit of its significand, and nothing else, set.
QuietNaN(type) ==
    FloatBytes(FALSE, ExponentMax(type),
               [i \in 1 .. FixedLen(type) - 1 |->
                    IF i = FixedLen(type) - 1 THEN SigPart(type) \div 2 ELSE 0],
               type)

EncodeFloat(value, type) ==
    IF value = NaN THEN QuietNaN(type)
    ELSE FloatBytes(value.neg, value.exp, value.sig, type)

\* What struct.unpack makes of the bytes.
UnpackFloat(bytes, type) ==
    LET n == FixedLen(type)
    IN [neg |-> bytes[n] >= Group,
        exp |-> (bytes[n] % Group) * ExponentLow(type) + (bytes[n - 1] \div SigPart(type)),
        sig |-> [i \in 1 .. n - 1 |->
                    IF i = n - 1 THEN bytes[i] % SigPart(type) ELSE bytes[i]]]

\* The exponent is all ones and some bit of the significand is set.
DecodeFloat(bytes, type) ==
    LET value == UnpackFloat(bytes, type)
    IN IF value.exp = ExponentMax(type) /\ \E i \in DOMAIN value.sig : value.sig[i] # 0
       THEN NaN ELSE value

-----------------------------------------------------------------------------
(* Unicode strings.  A character below Group is one byte, another one a lead *)
(* byte and a continuation byte; longer forms are left out.                  *)

EncodeUtf8(text) ==
    Concat(LAMBDA c : IF c < Group THEN <<c>>
                      ELSE <<Group + (Group \div 2) + (c \div (Group \div 2)),
                             Group + (c % (Group \div 2))>>, text)

IsLead(b) == b >= Group + (Group \div 2) + 2   \* shorter is overlong
IsTrail(b) == b >= Group /\ b < Group + (Group \div 2)

\* unicode(bytes, 'utf-8'); it raises UnicodeDecodeError outside ValidUtf8.
ValidUtf8(bytes) ==
    \A i \in DOMAIN bytes :
        \/ bytes[i] < Group
        \/ IsLead(bytes[i]) /\ i < Len(bytes) /\ IsTrail(bytes[i + 1])
        \/ IsTrail(bytes[i]) /\ i > 1 /\ IsLead(bytes[i - 1])

DecodeUtf8(bytes) ==
    LET starts == SetToSortSeq({i \in DOMAIN bytes : ~IsTrail(bytes[i])}, <)
    IN [k \in DOMAIN starts |->
            IF bytes[starts[k]] < Group THEN bytes[starts[k]]
            ELSE (bytes[starts[k]] - Group - (Group \div 2)) * (Group \div 2)
                    + (bytes[starts[k] + 1] - Group)]
=============================================================================
