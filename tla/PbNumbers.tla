----------------------------- MODULE PbNumbers -----------------------------
(* The numbers of the protocol buffer wire format, as the Python runtime   *)
(* under src/python/google/protobuf/internal reads and writes them.  The   *)
(* code has bytes of eight bits, seven of them payload in a varint; here a *)
(* byte is a number below 2 * Group, so that TLC can reach every boundary. *)
EXTENDS Integers, Sequences
CONSTANTS Group,       \* payloads of one varint byte: 2^7 in the code
          MaxGroups,   \* the longest varint: 10 bytes in the code
          Fixed32Len,  \* bytes of a fixed32 or float: 4 in the code
          Fixed64Len   \* bytes of a fixed64 or double: 8 in the code

\* A tag's first byte holds the three bits of the wire type.
ASSUME NumbersAssumption ==
    /\ Group \in Nat /\ Group % 8 = 0 /\ Group > 0
    /\ MaxGroups \in Nat \ {0}
    /\ Fixed32Len \in Nat \ {0} /\ Fixed64Len \in Nat \ {0}

Byte == 2 * Group
Narrow == Byte ^ Fixed32Len    \* 2^32
Wide == Byte ^ Fixed64Len      \* 2^64

VARINT == 0
FIXED64 == 1
LENGTH_DELIMITED == 2
START_GROUP == 3
END_GROUP == 4
FIXED32 == 5
WireTypes == 0 .. 5

PackTag(number, wiretype) == number * 8 + wiretype
UnpackTag(tag) == <<tag \div 8, tag % 8>>

\* x ^ ~0 is the complement of every bit: -x - 1.
ZigZagEncode(value) == IF value >= 0 THEN 2 * value ELSE -(2 * value) - 1
ZigZagDecode(value) == IF value % 2 = 0 THEN value \div 2
                                        ELSE -(value \div 2) - 1

Fits(value, n) == value < Group ^ n

\* Mutant of VarintSize: the first boundary is compared with <=, one too far.
VarintSizeOffByOne(value) ==
    CHOOSE n \in 1 .. MaxGroups :
        /\ n = MaxGroups \/ value <= Group ^ n
        /\ \A k \in 1 .. n - 1 : value > Group ^ k

VarintSize(value) ==
    CHOOSE n \in 1 .. MaxGroups :
        /\ n = MaxGroups \/ Fits(value, n)
        /\ \A k \in 1 .. n - 1 : ~Fits(value, k)

SignedVarintSize(value) == IF value < 0 THEN MaxGroups ELSE VarintSize(value)

TagSize(number) == VarintSize(PackTag(number, 0))

\* Every byte but the last has its continuation bit set.
EncodeVarint(value) ==
    LET n == CHOOSE n \in 1 .. MaxGroups + 1 :
                Fits(value, n) /\ \A k \in 1 .. n - 1 : ~Fits(value, k)
    IN [i \in 1 .. n |-> ((value \div Group ^ (i - 1)) % Group)
                            + (IF i < n THEN Group ELSE 0)]

EncodeSignedVarint(value) ==
    EncodeVarint(IF value < 0 THEN value + Wide ELSE value)

TagBytes(number, wiretype) == EncodeVarint(PackTag(number, wiretype))

(* What a decoder of one value answers.  "refused" stands for the          *)
(* exceptions that MergeFromString turns into DecodeError: IndexError at   *)
(* the end of the buffer, struct.error for a short fixed value, DecodeError*)
(* itself.                                                                 *)
Read(value, pos) == [st |-> "ok", value |-> value, pos |-> pos]
NotRead == [st |-> "refused", value |-> 0, pos |-> 0]

\* Where the varint after the first pos bytes of the buffer ends; 0 if nowhere.
Stop(buffer, pos) ==
    LET last == {p \in pos + 1 .. Len(buffer) : buffer[p] < Group}
    IN IF last = {} THEN 0 ELSE CHOOSE p \in last : \A q \in last : p <= q

\* Sum of the groups in positions pos + 1 .. last, the lowest first.
Gather(buffer, pos, last) ==
    LET sum[p \in pos .. last] ==
            IF p = pos THEN 0
            ELSE sum[p - 1] + (buffer[p] % Group) * Group ^ (p - pos - 1)
    IN sum[last]

\* "Too many bytes when decoding varint." after MaxGroups of them.
RawVarint(buffer, pos) ==
    LET last == Stop(buffer, pos)
    IN IF last = 0 \/ last > pos + MaxGroups THEN NotRead
       ELSE Read(Gather(buffer, pos, last), last)

\* _VarintDecoder(mask), with limit = mask + 1.
DecodeVarint(limit, buffer, pos) ==
    LET raw == RawVarint(buffer, pos)
    IN [raw EXCEPT !.value = @ % limit]

\* result - (1 << 64) | ~mask above the signed 64 bit range, & mask below.
SignedWithin(value, limit) ==
    IF value > (Wide \div 2) - 1 THEN ((value - Wide) % limit) - limit
                               ELSE value % limit

\* _SignedVarintDecoder(mask), with limit = mask + 1.
DecodeSignedVarint(limit, buffer, pos) ==
    LET raw == RawVarint(buffer, pos)
    IN [raw EXCEPT !.value = SignedWithin(@, limit)]

\* The raw bytes of a tag, not its number: [bytes, pos].
ReadTag(buffer, pos) ==
    LET last == Stop(buffer, pos)
    IN IF last = 0 THEN NotRead ELSE Read(SubSeq(buffer, pos + 1, last), last)

\* struct.pack and unpack of '<I', '<i', '<Q' and '<q'.
PackFixed(value, bytes) ==
    LET unsigned == value % (Byte ^ bytes)
    IN [i \in 1 .. bytes |-> (unsigned \div Byte ^ (i - 1)) % Byte]

UnpackFixed(bytes, signed) ==
    LET sum[i \in 0 .. Len(bytes)] ==
            IF i = 0 THEN 0 ELSE sum[i - 1] + bytes[i] * Byte ^ (i - 1)
        value == sum[Len(bytes)]
        range == Byte ^ Len(bytes)
    IN IF signed /\ value >= range \div 2 THEN value - range ELSE value

(* The bounds of the IntValueCheckers. *)
IntRange == [int32 |-> [min |-> -(Narrow \div 2), max |-> (Narrow \div 2) - 1],
             uint32 |-> [min |-> 0, max |-> Narrow - 1],
             int64 |-> [min |-> -(Wide \div 2), max |-> (Wide \div 2) - 1],
             uint64 |-> [min |-> 0, max |-> Wide - 1]]
CheckValue(kind, value) ==
    IntRange[kind].min <= value /\ value <= IntRange[kind].max
============================================================================
