---------------------------- MODULE OutputStream ----------------------------
(***************************************************************************)
(* One a4::io::OutputStream: src/src/output_stream.cpp, a4/output_stream.h.*)
(*                                                                         *)
(* The object is used by one thread, so a public method is one action.     *)
(* Inside a method the code calls helpers that write to the file (a new    *)
(* class writes its ProtoClass, every recorded offset closes and reopens   *)
(* the compressed section); each helper is an operator from the object to  *)
(* the object, and a method composes them in the order of the code.        *)
(***************************************************************************)
EXTENDS ProtoFiles

CONSTANTS ExtensionFiles,   \* the files that declare extensions of a class or of
                            \* the classes of its message fields, at any depth
          OpenResults,      \* can ::open succeed and fail: a subset of BOOLEAN
          SerializeResults, \* can SerializeToString succeed and fail
          Compressions,     \* compression types given to set_compression
          LateCompressions, \* those of them also given to it when the stream is open
          FirstIds,         \* what an uninitialised id counter may hold; {} if
                            \* the file-name constructor is used (the other one
                            \* leaves the compression type open, too)
          MaxCells          \* bound: no write starts when this many cells were
                            \* written or dropped

ASSUME OutputStreamAssumption ==
    /\ ExtensionFiles \in [Class -> SUBSET File]
    /\ OpenResults \in SUBSET BOOLEAN
    /\ SerializeResults \in SUBSET BOOLEAN
    /\ Compressions \in SUBSET CompressionType
    /\ LateCompressions \in SUBSET Compressions
    /\ FirstIds \in SUBSET Nat
    /\ MaxCells \in Nat

\* "ok", or the first assertion, FATAL or misuse the object ran into
Status == {"ok", "null pointer", "out of bounds", "assert _raw_out",
           "Control should not reach here.", "assert (class_id % 2) == metadata"}

VARIABLE os

(***************************************************************************)
(* coded: what _coded_out writes to, "null" when the pointer is empty.     *)
(* raw, compressed: are _raw_out and _compressed_out set?                  *)
(* counts: _class_id_counts, a function on 0 .. size()-1.                  *)
(* status: "ok" until a method stops half way.                             *)
(* dropped is not in the code: the class ids of the messages whose         *)
(* serialisation failed, in order.                                         *)
(***************************************************************************)
NewStream(to_file, first, first_metadata) ==
    [to_file |-> to_file, opened |-> FALSE, closed |-> FALSE,
     compression |-> TRUE, compression_type |-> "ZLIB",
     metadata_refers_forward |-> FALSE,
     raw |-> ~to_file, coded |-> "null", compressed |-> FALSE,
     next_class_id |-> first, next_metadata_class_id |-> first_metadata,
     class_id |-> << >>,
     counts |-> [i \in 0 .. ReservedLo + ReservedWidth - 1 |-> 0],
     metadata_positions |-> << >>, protoclass_positions |-> << >>,
     written_files |-> {}, wire |-> << >>, status |-> "ok", dropped |-> << >>]

Init == \/ FirstIds = {} /\ os = NewStream(TRUE, 0, 1)
        \/ \E i, j \in FirstIds, t \in CompressionType :
              os = [NewStream(FALSE, i, j) EXCEPT !.compression_type = t]
-----------------------------------------------------------------------------
(* Helpers *)
Stop(s, why) == [s EXCEPT !.status = why]

PutMark(s, kind, body) ==
    IF s.status # "ok" THEN s
    ELSE IF s.coded = "null" THEN Stop(s, "null pointer")
    ELSE [s EXCEPT !.wire = Append(@, Mark(kind, body))]

\* write(class_id, msg): counted first, then serialised, then written
WriteMessage(s, id, body, serialized) ==
    IF s.status # "ok" THEN s
    ELSE IF s.coded = "null" THEN Stop(s, "null pointer")
    ELSE IF id \notin DOMAIN s.counts THEN Stop(s, "out of bounds")
    ELSE LET counted == [s EXCEPT !.counts[id] = @ + 1] IN
         IF serialized
         THEN [counted EXCEPT !.wire =
                  Append(@, Message(id, body, s.coded = "compressed"))]
         ELSE [counted EXCEPT !.dropped = Append(@, id)]

StartCompression(s) ==
    IF s.compressed \/ s.status # "ok" THEN s
    ELSE LET w == WriteMessage(s, StartCompressedSectionId,
                               [compression |-> s.compression_type], TRUE)
         IN IF w.status # "ok" THEN w
            ELSE IF s.compression_type = "UNCOMPRESSED"
            THEN Stop([w EXCEPT !.coded = "null"], "Control should not reach here.")
            ELSE [w EXCEPT !.compressed = TRUE, !.coded = "compressed"]

StopCompression(s) ==
    IF ~s.compressed \/ s.status # "ok" THEN s
    ELSE [WriteMessage(s, EndCompressedSectionId, NoBody, TRUE)
             EXCEPT !.compressed = FALSE, !.coded = "raw"]

\* Mutant of BytesWritten: the section is still open when the bytes are counted
BytesWrittenInSection(s) == ByteCount(s.wire)

\* get_bytes_written(): its value, and what it does to the stream
BytesWritten(s) == ByteCount(StopCompression(s).wire)
GetBytesWritten(s) ==
    LET t == StopCompression(s) IN
    IF t.status # "ok" THEN t
    ELSE IF ~t.raw THEN Stop(t, "assert _raw_out")
    ELSE LET r == [t EXCEPT !.coded = "raw"]
         IN IF s.compressed THEN StartCompression(r) ELSE r

RecordProtoClassPosition(s) ==
    LET t == GetBytesWritten(s)
    IN IF t.status # "ok" THEN t
       ELSE [t EXCEPT !.protoclass_positions = Append(@, BytesWritten(s))]

RecordMetadataPosition(s) ==
    LET t == GetBytesWritten(s)
    IN IF t.status # "ok" THEN t
       ELSE [t EXCEPT !.metadata_positions = Append(@, BytesWritten(s))]

\* Mutants of ResizeCounts: a gap; class_id > size() for >=
ResizeCountsWithGap(s, id) ==
    IF id \in DOMAIN s.counts THEN s
    ELSE [s EXCEPT !.counts = [i \in DOMAIN s.counts \cup {id} |->
                                 IF i = id THEN 0 ELSE s.counts[i]]]
ResizeCountsLate(s, id) ==
    IF id \in DOMAIN s.counts \/ id - 1 \in DOMAIN s.counts THEN s
    ELSE [s EXCEPT !.counts =
             [i \in 0 .. id |-> IF i \in DOMAIN s.counts THEN s.counts[i] ELSE 0]]

\* _class_id_counts.resize(class_id + 1) when class_id is beyond its end
ResizeCounts(s, id) ==
    IF id \in DOMAIN s.counts THEN s
    ELSE [s EXCEPT !.counts =
             [i \in 0 .. id |-> IF i \in DOMAIN s.counts THEN s.counts[i] ELSE 0]]

\* get_file_descriptors: a file, the files it imports, those they import, and so on
FileDescriptors(f) == {g \in File : \A S \in SUBSET File : f \in S /\ Closed(S) => g \in S}

\* What write_protoclass collects for a class.  The files of extensions are added
\* as they are, without the files that they import.
FilesOf == [c \in Class |-> FileDescriptors(FileOf[c]) \cup ExtensionFiles[c]]

\* Mutant of WriteProtoClass: every class writes all of its files
WriteProtoClassAllFiles(s, id, c) ==
    WriteMessage(ResizeCounts(RecordProtoClassPosition(s), id), ProtoClassId,
                 [class_id |-> id, full_name |-> c, files |-> FilesOf[c]], TRUE)

WriteProtoClass(s, id, c) ==
    LET files == FilesOf[c] \ s.written_files
        r == RecordProtoClassPosition([s EXCEPT !.written_files = @ \cup FilesOf[c]])
    IN WriteMessage(ResizeCounts(r, id), ProtoClassId,
                    [class_id |-> id, full_name |-> c, files |-> files], TRUE)

\* Mutant of SkipReserved: the ids run into the reserved range
SkipNothing(id, first) == id

SkipReserved(id, first) == IF id = first THEN id + ReservedWidth ELSE id

\* The id a class has or is about to get
ClassIdFor(s, c, metadata) ==
    IF c \in DOMAIN s.class_id THEN s.class_id[c]
    ELSE IF metadata THEN s.next_metadata_class_id ELSE s.next_class_id

\* "the same Message class either for metadata or for content, but not both"
RoleClash(s, c, metadata) ==
    c \in DOMAIN s.class_id /\ metadata # IsMetadataId(s.class_id[c])

FindClassId(s, c, metadata) ==
    IF c \in DOMAIN s.class_id THEN s
    ELSE LET id == ClassIdFor(s, c, metadata)
             content == IF metadata THEN s.next_class_id ELSE id + 2
             meta == IF metadata THEN id + 2 ELSE s.next_metadata_class_id
             t == WriteProtoClass(
                    [s EXCEPT
                       !.next_class_id = SkipReserved(content, ReservedLo),
                       !.next_metadata_class_id = SkipReserved(meta, ReservedLo + 1)],
                    id, c)
         IN IF t.status # "ok" THEN t
            ELSE LET u == [t EXCEPT !.class_id =
                              [d \in DOMAIN t.class_id \cup {c} |->
                                  IF d = c THEN id ELSE t.class_id[d]]]
                 IN IF metadata = IsMetadataId(id) THEN u
                    ELSE Stop(u, "assert (class_id % 2) == metadata")

WriteHeader(s) ==
    WriteMessage(PutMark(s, "START_MAGIC", NoBody), StreamHeaderId,
                 [metadata_refers_forward |-> s.metadata_refers_forward], TRUE)

\* Only the ids that were used; the footer itself is not counted yet
ClassCount(s) ==
    {[class_id |-> i, count |-> s.counts[i]] : i \in {j \in DOMAIN s.counts : s.counts[j] > 0}}

\* Mutant of Footer: the two offset lists are swapped
FooterSwapped(s, size) ==
    [size |-> size,
     metadata_offsets |-> s.protoclass_positions,
     protoclass_offsets |-> s.metadata_positions,
     class_count |-> ClassCount(s)]

Footer(s, size) ==
    [size |-> size,
     metadata_offsets |-> s.metadata_positions,
     protoclass_offsets |-> s.protoclass_positions,
     class_count |-> ClassCount(s)]

WriteFooter(s) ==
    LET t == GetBytesWritten(s)
        u == WriteMessage(t, StreamFooterId, Footer(t, BytesWritten(s)), TRUE)
    IN PutMark(PutMark(u, "FooterSize", [size |-> FooterLen]), "END_MAGIC", NoBody)

OpenStream(s, result) ==
    IF s.opened THEN s
    ELSE LET o == [s EXCEPT !.opened = TRUE, !.compressed = FALSE] IN
         IF s.to_file /\ ~result THEN o
         ELSE LET h == WriteHeader([o EXCEPT !.raw = TRUE, !.coded = "raw"])
              IN IF h.compression THEN StartCompression(h) ELSE h

\* What open() returned: FALSE also when the stream was open before, but then
\* the callers do not call it
OpenFails(s, result) == ~s.opened /\ s.to_file /\ ~result

CloseStream(s) ==
    LET t == WriteFooter(StopCompression([s EXCEPT !.closed = TRUE]))
    IN IF t.status # "ok" THEN t
       ELSE [t EXCEPT !.coded = "null", !.raw = FALSE]
-----------------------------------------------------------------------------
(* The public methods.  A stream is not written to after close(), which    *)
(* only A4Output, its deleter and the destructor call; they all test       *)
(* opened() first.                                                         *)
Usable == os.status = "ok" /\ ~os.closed

Open == /\ Usable /\ ~os.opened
        /\ \E result \in OpenResults : os' = OpenStream(os, result)

Write(c) ==
    /\ Usable /\ Len(os.wire) + Len(os.dropped) < MaxCells
    /\ \E result \in OpenResults, serialized \in SerializeResults :
         LET o == OpenStream(os, result) IN
         os' = IF OpenFails(os, result) \/ RoleClash(o, c, FALSE) THEN o
               ELSE WriteMessage(FindClassId(o, c, FALSE), ClassIdFor(o, c, FALSE),
                                 Content(c), serialized)

Metadata(c) ==
    /\ Usable /\ Len(os.wire) + Len(os.dropped) < MaxCells
    /\ \E result \in OpenResults, serialized \in SerializeResults :
         LET o == OpenStream(os, result) IN
         os' = IF OpenFails(os, result) \/ RoleClash(o, c, TRUE) THEN o
               ELSE WriteMessage(RecordMetadataPosition(FindClassId(o, c, TRUE)),
                                 ClassIdFor(o, c, TRUE), Content(c), serialized)

\* Nothing looks at _opened here.  The level is left out: it only tunes ZLIB, and
\* a4::Fatal for a level outside 1 .. 9 is built but not thrown.
SetCompression(t) ==
    /\ Usable /\ (os.opened => t \in LateCompressions)
    /\ os' = [os EXCEPT !.compression = (t # "UNCOMPRESSED"), !.compression_type = t]

SetForwardMetadata ==
    /\ Usable /\ ~os.opened
    /\ os' = [os EXCEPT !.metadata_refers_forward = TRUE]

Close == Usable /\ os.opened /\ os' = CloseStream(os)

Next == \/ Open
        \/ \E c \in Class : Write(c) \/ Metadata(c)
        \/ \E t \in Compressions : SetCompression(t)
        \/ SetForwardMetadata
        \/ Close

Spec == Init /\ [][Next]_os
-----------------------------------------------------------------------------
(* Properties *)

\* The object's members have their types; a vector's indices start at 0 and
\* have no gap.
StreamRecord(classes, ids) ==
    [to_file : BOOLEAN, opened : BOOLEAN, closed : BOOLEAN,
     compression : BOOLEAN, compression_type : CompressionType,
     metadata_refers_forward : BOOLEAN,
     raw : BOOLEAN, coded : {"null", "raw", "compressed"}, compressed : BOOLEAN,
     next_class_id : Nat, next_metadata_class_id : Nat,
     class_id : [classes -> Nat], counts : [ids -> Nat],
     metadata_positions : Seq(Nat), protoclass_positions : Seq(Nat),
     written_files : SUBSET File, wire : Seq(Cell),
     status : Status, dropped : Seq(Nat)]
StreamOK(s) ==
    /\ s \in StreamRecord(DOMAIN s.class_id, DOMAIN s.counts)
    /\ DOMAIN s.class_id \subseteq Class
    /\ DOMAIN s.counts \subseteq Nat
    /\ \A i \in DOMAIN s.counts : 0 .. i \subseteq DOMAIN s.counts
TypeOK == StreamOK(os)

\* No assertion fails, no FATAL leaves a method half done, no null pointer and
\* no index beyond the end of _class_id_counts is used: get_bytes_written,
\* start_compression, find_class_id and write all rely on what earlier calls left.
NoAbort == os.status = "ok"

\* Ids never collide: two classes have two ids, content is even and metadata
\* odd, and no id is one of the format's own (find_class_id jumps over them).
IdsDistinct(s) ==
    /\ \A c, d \in DOMAIN s.class_id : s.class_id[c] = s.class_id[d] => c = d
    /\ \A c \in DOMAIN s.class_id :
         s.class_id[c] \notin ReservedLo .. ReservedLo + ReservedWidth - 1
ClassIdsDistinct == IdsDistinct(os)

\* A message is whole, and what stands before it in the file decodes it: exactly one
\* ProtoClass binds its id, to its class, and the .proto file of the class has been
\* written with all that it imports, directly or not, and the files of its extensions.
\* A .proto file comes with or behind the files it imports, for the reader builds it
\* when it meets it, and never twice, for the reader's pool asserts that
\* (proto_class_pool.cpp:143-148).  The code does not see to the imports of a file that
\* it adds for the extensions it declares, and nothing is said of them.
ProtoClassesBefore(w, i) == {j \in 1 .. i - 1 : HasId(w[j], ProtoClassId)}
FilesBefore(w, i) == UNION {w[j].body.files : j \in ProtoClassesBefore(w, i)}
Decodable(w, i) ==
    LET before == ProtoClassesBefore(w, i)
        c == w[i].body.class
    IN /\ w[i].body.whole
       /\ \E j \in before : w[j].body.class_id = w[i].id /\ w[j].body.full_name = c
       /\ \A j, k \in before : w[j].body.class_id = w[k].body.class_id => j = k
       /\ \E S \in SUBSET FilesBefore(w, i) : FileOf[c] \in S /\ Closed(S)
       /\ ExtensionFiles[c] \subseteq FilesBefore(w, i)
Buildable(w, j) ==
    \A f \in w[j].body.files \ ExtensionFiles[w[j].body.full_name] :
        Imports(f) \subseteq FilesBefore(w, j + 1)
DefinedBeforeUse ==
    /\ \A i \in DOMAIN os.wire : IsUserMessage(os.wire[i]) => Decodable(os.wire, i)
    /\ \A j \in ProtoClassesBefore(os.wire, Len(os.wire) + 1) : Buildable(os.wire, j)
    /\ \A j, k \in ProtoClassesBefore(os.wire, Len(os.wire) + 1) :
         j # k => os.wire[j].body.files \cap os.wire[k].body.files = {}

\* get_bytes_written() asserts that there is a file: what the author takes for
\* impossible when a stream counts as opened.
RawOutPresent == os.status # "assert _raw_out"

\* Every recorded offset is a place where a reader can start: outside compressed
\* sections, with the recorded message as the first one to come, and the offsets
\* are all metadata messages (all ProtoClasses) of the file in file order.  When a
\* serialisation failed, the offset of the message was recorded before.
Target(w, p) == IF HasId(w[p + 1], StartCompressedSectionId) THEN p + 2 ELSE p + 1
Addresses(w, offsets, found(_)) ==
    /\ \A n \in DOMAIN offsets :
         /\ Target(w, offsets[n]) \in DOMAIN w
         /\ ~w[offsets[n] + 1].z
         /\ found(w[Target(w, offsets[n])])
    /\ \A m, n \in DOMAIN offsets : m < n => offsets[m] < offsets[n]
    /\ \A i \in DOMAIN w : found(w[i]) => \E n \in DOMAIN offsets : Target(w, offsets[n]) = i
IsProtoClass(c) == HasId(c, ProtoClassId)
PositionsAddress ==
    /\ os.dropped = << >> => Addresses(os.wire, os.metadata_positions, IsMetadata)
    /\ Addresses(os.wire, os.protoclass_positions, IsProtoClass)

Occurrences(w, id) == {i \in DOMAIN w : HasId(w[i], id)}

\* A closed file has one header at its start and one footer at its end; the
\* footer tells its own place, the places of all metadata and all ProtoClasses,
\* and how many messages of each class precede it - unless a serialisation failed.
FooterTruthful ==
    os.closed /\ os.status = "ok" /\ os.dropped = << >> =>
        LET w == os.wire
            f == Len(w) - 2
        IN /\ Len(w) > 4
           /\ w[1].kind = "START_MAGIC" /\ HasId(w[2], StreamHeaderId)
           /\ HasId(w[f], StreamFooterId)
           /\ w[f + 1].kind = "FooterSize" /\ w[f + 2].kind = "END_MAGIC"
           /\ \A i \in 3 .. f - 1 : IsMessage(w[i]) /\ w[i].id \notin {StreamHeaderId, StreamFooterId}
           /\ w[f].body.size = f - 1
           /\ {Target(w, w[f].body.metadata_offsets[n]) :
                 n \in DOMAIN w[f].body.metadata_offsets} = {i \in DOMAIN w : IsMetadata(w[i])}
           /\ {Target(w, w[f].body.protoclass_offsets[n]) :
                 n \in DOMAIN w[f].body.protoclass_offsets} = Occurrences(w, ProtoClassId)
           /\ w[f].body.class_count =
                {[class_id |-> id, count |-> Cardinality(Occurrences(SubSeq(w, 1, f - 1), id))] :
                   id \in {w[i].id : i \in 2 .. f - 1}}
=============================================================================
