------------------------------- MODULE A4Wire -------------------------------
(***************************************************************************)
(* The A4 file format as src/src/output_stream.cpp writes it and           *)
(* src/src/input_stream_impl.{h,cpp} reads it.                             *)
(*                                                                         *)
(* A file is a sequence of cells, one per thing the code writes in one go: *)
(* the start magic, a length-prefixed message, the footer length, the end  *)
(* magic.  Every cell has length 1, so the byte count of the raw stream is *)
(* the number of cells and a byte offset p addresses the cell p + 1.  The  *)
(* field z says that the cell went through the compressor: it is readable  *)
(* only from the start of its section, never by a seek.                    *)
(*                                                                         *)
(* A file that was cut can end within a cell.  What is left of a message   *)
(* of the client is the message with whole = FALSE: its length and class   *)
(* id, and some of its bytes, perhaps none.  What is left of the magic a   *)
(* stream begins with is a cell of its own, TORN_MAGIC.                    *)
(***************************************************************************)
EXTENDS Naturals, Sequences, FiniteSets

CONSTANTS Class,         \* message classes (full names of protobuf descriptors)
          File,          \* .proto files
          ReservedLo,    \* first class id of A4's own messages: 100 in the code
          ReservedWidth  \* number of reserved class ids: 100 in the code

\* The code's 100 and 100 are replaced by smaller numbers of the same parity in
\* the runs, so that the jump over the reserved range happens there.
ASSUME WireAssumption ==
    /\ ReservedLo \in Nat /\ ReservedLo >= 2 /\ ReservedLo % 2 = 0
    /\ ReservedWidth \in Nat /\ ReservedWidth >= 10 /\ ReservedWidth % 2 = 0
-----------------------------------------------------------------------------
(* The fixed class ids, in the order of A4Stream.proto *)
StreamHeaderId == ReservedLo
StreamFooterId == ReservedLo + 2
StartCompressedSectionId == ReservedLo + 4
EndCompressedSectionId == ReservedLo + 6
ProtoClassId == ReservedLo + 8

FixedIds == {StreamHeaderId, StreamFooterId, StartCompressedSectionId,
             EndCompressedSectionId, ProtoClassId}
CompressionIds == {StartCompressedSectionId, EndCompressedSectionId}

\* A4Message::metadata(): odd class ids are metadata
IsMetadataId(id) == id % 2 = 1

CompressionType == {"UNCOMPRESSED", "ZLIB", "SNAPPY", "LZ4"}
-----------------------------------------------------------------------------
(* Cells *)
NoBody == [none |-> TRUE]

Message(id, body, z) == [kind |-> "message", id |-> id, body |-> body, z |-> z]
Content(c) == [class |-> c, whole |-> TRUE]  \* of a message of the client
Mark(kind, body) == [kind |-> kind, id |-> 0, body |-> body, z |-> FALSE]

\* What a cell may hold
Body == {NoBody}
        \cup [metadata_refers_forward : BOOLEAN]
        \cup [compression : CompressionType]
        \cup [class_id : Nat, full_name : Class, files : SUBSET File]
        \cup [class : Class, whole : BOOLEAN]
        \cup [size : Nat, metadata_offsets : Seq(Nat), protoclass_offsets : Seq(Nat),
              class_count : SUBSET [class_id : Nat, count : Nat]]
        \cup [size : Nat]
Cell == [kind : {"message", "START_MAGIC", "FooterSize", "END_MAGIC", "TORN_MAGIC"},
         id : Nat, body : Body, z : BOOLEAN]

IsMessage(c) == c.kind = "message"
HasId(c, id) == c.kind = "message" /\ c.id = id
IsUserMessage(c) == c.kind = "message" /\ c.id \notin FixedIds
IsMetadata(c) == IsUserMessage(c) /\ IsMetadataId(c.id)
IsEvent(c) == IsUserMessage(c) /\ ~IsMetadataId(c.id)
IsCutShort(c) == IsUserMessage(c) /\ ~c.body.whole

\* The number of bytes of a file is its number of cells
ByteCount(wire) == Len(wire)
MagicLen == 1       \* 8 bytes
FooterSizeLen == 1  \* 4 bytes
FooterLen == 1      \* 8 bytes of length and class id, and the message
=============================================================================
