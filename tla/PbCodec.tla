------------------------------ MODULE PbCodec ------------------------------
(* Two messages of one type, filled field by field, and what the wire      *)
(* format makes of them.  Bytes are written for the left one, for both one *)
(* after the other, cut anywhere, and read back by this type and by an     *)
(* older version of it.                                                    *)
EXTENDS PbText
CONSTANTS Tops,      \* the message types to fill
          Older,     \* type -> the type an older reader has in its place
          Edges,     \* the numbers tried where CheckValue admits them
          Strings,   \* values of string fields, sequences of characters
          ByteStrings,
          MaxValues  \* values put into the two messages together

VARIABLES top,       \* their type
          message,   \* "left" and "right" -> message
          filled     \* values put into them so far

vars == <<top, message, filled>>
Side == {"left", "right"}

-----------------------------------------------------------------------------
(* Values a setter accepts. *)

CheckerOf ==
    [t \in Integral \cup Fixed |->
        CASE t \in {"int32", "sint32", "sfixed32", "enum"} -> "int32"
          [] t \in {"int64", "sint64", "sfixed64"} -> "int64"
          [] t \in {"uint32", "fixed32"} -> "uint32"
          [] OTHER -> "uint64"]

\* Zero, both infinities, NaN and a number whose significand is not zero.
Floats(type) ==
    LET zeros == [i \in 1 .. FixedLen(type) - 1 |-> 0]
    IN {NaN, [neg |-> FALSE, exp |-> 0, sig |-> zeros],
        [neg |-> FALSE, exp |-> ExponentMax(type), sig |-> zeros],
        [neg |-> TRUE, exp |-> ExponentMax(type), sig |-> zeros],
        [neg |-> TRUE, exp |-> ExponentMax(type) - 1, sig |-> [zeros EXCEPT ![1] = 1]]}

Scalars(type) ==
    CASE type \in Integral \cup Fixed -> {v \in Edges : CheckValue(CheckerOf[type], v)}
      [] type \in Floating -> Floats(type)
      [] type = "bool" -> BOOLEAN
      [] type = "string" -> Strings
      [] type = "bytes" -> ByteStrings

\* Submessages: the empty one, and those with one field.
RECURSIVE Values(_)
Values(desc) ==
    IF desc.type \notin Composite THEN Scalars(desc.type)
    ELSE {EmptyMessage}
         \cup UNION {{n :> (IF Schema[desc.sub][n].label = "repeated" THEN <<v>> ELSE v) :
                        v \in Values(Schema[desc.sub][n])} :
                     n \in DOMAIN Schema[desc.sub]}

\* For each field of each type that is filled.
ValuesOf == [T \in Tops |-> [n \in DOMAIN Schema[T] |-> Values(Schema[T][n])]]

\* The left message is filled first.
Room(s) == filled < MaxValues /\ (s = "left" => message["right"] = EmptyMessage)

Update(s, m) ==
    /\ message' = [message EXCEPT ![s] = m]
    /\ filled' = filled + 1
    /\ UNCHANGED top

-----------------------------------------------------------------------------
Init == top \in Tops /\ message = [s \in Side |-> EmptyMessage] /\ filled = 0

Fields(label) ==
    {n \in DOMAIN Schema[top] : (Schema[top][n].label = "repeated") = (label = "repeated")}

\* The setter of a singular scalar field.
SetField(s, n) ==
    /\ Room(s)
    /\ Schema[top][n].type \notin Composite
    /\ \E v \in ValuesOf[top][n] : Update(s, Put(message[s], n, v))

\* A submessage reached through its getter and merged into.
MergeIntoField(s, n) ==
    /\ Room(s)
    /\ Schema[top][n].type \in Composite
    /\ \E v \in ValuesOf[top][n] :
         Update(s, Put(message[s], n, MergeFrom(Schema[top][n].sub,
                                                Held(message[s], n, EmptyMessage), v)))

\* append, or add of a submessage that is then filled.
AppendValue(s, n) ==
    /\ Room(s)
    /\ \E v \in ValuesOf[top][n] :
         Update(s, Put(message[s], n, Append(Held(message[s], n, << >>), v)))

Next == \E s \in Side :
            \/ \E n \in Fields("singular") : SetField(s, n) \/ MergeIntoField(s, n)
            \/ \E n \in Fields("repeated") : AppendValue(s, n)

Spec == Init /\ [][Next]_vars

-----------------------------------------------------------------------------
Left == message["left"]
Right == message["right"]
Written == InternalSerialize(top, Left)

\* What is written reads back as the message, and its length is the ByteSize
\* that the writers of a4/stream.py put into the length prefix before it.
WireRoundTrips ==
    LET bytes == Written
    IN /\ Len(bytes) = ByteSize(top, Left)
       /\ FromString(top, bytes) = Parsed(Len(bytes), Left)

\* Bytes written one after the other read back as the first message merged
\* with the second: MergeFrom and the decoders agree on every kind of field.
ConcatenationMerges ==
    LET bytes == Written \o InternalSerialize(top, Right)
    IN FromString(top, bytes) = Parsed(Len(bytes), MergeFrom(top, Left, Right))

\* Nothing in m but what is in whole, lists cut at the end.
RECURSIVE PartOf(_, _, _)
PartOf(T, m, whole) ==
    \A n \in DOMAIN m :
        /\ n \in DOMAIN whole
        /\ IF Schema[T][n].type \notin Composite
           THEN IF Schema[T][n].label = "repeated" THEN IsPrefix(m[n], whole[n])
                ELSE m[n] = whole[n]
           ELSE IF Schema[T][n].label = "repeated"
           THEN /\ Len(m[n]) <= Len(whole[n])
                /\ \A i \in DOMAIN m[n] : PartOf(Schema[T][n].sub, m[n][i], whole[n][i])
           ELSE PartOf(Schema[T][n].sub, m[n], whole[n])

\* Bytes cut short are refused, and the message they were parsed into then
\* holds nothing that was not written; or they end between two fields, and
\* what was read writes exactly the bytes that were there.
CutIsNoticed ==
    LET Noticed(r, bytes) ==
            /\ PartOf(top, r.m, Left)
            /\ \/ r.st = "refused"
               \/ r.st = "ok" /\ InternalSerialize(top, r.m) = bytes
        NoticedUpTo(bytes) ==
            \A k \in 0 .. Len(bytes) - 1 :
                Noticed(FromString(top, SubSeq(bytes, 1, k)), SubSeq(bytes, 1, k))
    IN NoticedUpTo(Written)

\* The message as an older type sees it: without the fields it lacks.
RECURSIVE AsSeenBy(_, _, _)
AsSeenBy(T, O, m) ==
    [n \in DOMAIN m \cap DOMAIN Schema[O] |->
        IF Schema[T][n].type \notin Composite THEN m[n]
        ELSE LET Sub(v) == AsSeenBy(Schema[T][n].sub, Schema[O][n].sub, v)
             IN IF Schema[T][n].label = "repeated"
                THEN [i \in DOMAIN m[n] |-> Sub(m[n][i])] ELSE Sub(m[n])]

\* A reader with an older type, which lacks fields and has packed where the
\* writer has not or the other way round, skips what it does not know, whole
\* groups included, and reads the rest.
OlderReaderAgrees ==
    LET bytes == Written
    IN FromString(Older[top], bytes)
        = Parsed(Len(bytes), AsSeenBy(top, Older[top], Left))

\* SerializeToString refuses a message exactly when some required field is
\* missing in it or below it, and then names it, whichever submessages
\* getters have made that nothing was set in.
RefusalNamesFields ==
    \A getters \in SUBSET Absent(top, EmptyMessage, DOMAIN Schema[top]) :
        IsInitialized(top, Left, getters) <=> FindInitializationErrors(top, Left) = {}

\* Doubles as their text has them.
RECURSIVE AsPrinted(_, _)
AsPrinted(T, m) ==
    [n \in DOMAIN m |->
        LET Shown(v) == IF Schema[T][n].type \in Composite THEN AsPrinted(Schema[T][n].sub, v)
                        ELSE IF Schema[T][n].type \in Floating
                        THEN Rounded(v, Schema[T][n].type) ELSE v
        IN IF Schema[T][n].label = "repeated"
           THEN [i \in DOMAIN m[n] |-> Shown(m[n][i])] ELSE Shown(m[n])]

\* Text is a faithful form of a message: two messages printed one after the
\* other, with or without raw bytes, merge into the first merged with the
\* second, but for the last digits of doubles.
TextRoundTrips ==
    Printable(top, Left) /\ Printable(top, Right) =>
        \A as_utf8 \in BOOLEAN :
            Merge(top, EmptyMessage, PrintMessage(top, Left, as_utf8)
                                        \o PrintMessage(top, Right, as_utf8))
                = Consumed(AsPrinted(top, MergeFrom(top, Left, Right)), << >>)
============================================================================
