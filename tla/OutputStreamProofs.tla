------------------------- MODULE OutputStreamProofs -------------------------
(***************************************************************************)
(* What is proved of one output stream (module OutputStream), for all      *)
(* classes, files, reserved ranges, numbers of calls and results of open   *)
(* and SerializeToString.                                                  *)
(*                                                                         *)
(* The methods are compositions of helpers from the object to the object.  *)
(* One lemma per helper says that it maps objects whose vectors and maps   *)
(* have the domains C (of class_id) and D (of counts) to such objects, and *)
(* that it leaves the ids alone; only find_class_id and the resize of the  *)
(* counts do more.  The steps of the theorems combine these lemmas.        *)
(***************************************************************************)
EXTENDS OutputStream, FiniteSetTheorems, SequenceTheorems, TLAPS

\* What all helpers but find_class_id leave alone
SameIds(s, t) == /\ t.class_id = s.class_id
                 /\ t.next_class_id = s.next_class_id
                 /\ t.next_metadata_class_id = s.next_metadata_class_id

\* A failed assertion changes nothing but the status.
LEMMA StopOK ==
  ASSUME NEW C, NEW D, NEW s \in StreamRecord(C, D), NEW why \in Status
  PROVE  Stop(s, why) \in StreamRecord(C, D) /\ SameIds(s, Stop(s, why))
BY DEF StreamRecord, Stop, SameIds

\* Writing one cell.
LEMMA AppendCell ==
  ASSUME NEW C, NEW D, NEW s \in StreamRecord(C, D), NEW c \in Cell
  PROVE  LET t == [s EXCEPT !.wire = Append(@, c)]
         IN  t \in StreamRecord(C, D) /\ SameIds(s, t)
<1>1. Append(s.wire, c) \in Seq(Cell)
  BY DEF StreamRecord
<1>2. QED
  BY <1>1 DEF StreamRecord, SameIds

\* The magics and the footer length.
LEMMA PutMarkOK ==
  ASSUME NEW C, NEW D, NEW s \in StreamRecord(C, D),
         NEW kind \in {"START_MAGIC", "FooterSize", "END_MAGIC"}, NEW body \in Body
  PROVE  PutMark(s, kind, body) \in StreamRecord(C, D) /\ SameIds(s, PutMark(s, kind, body))
<1>1. Mark(kind, body) \in Cell
  BY DEF Mark, Cell
<1>2. CASE s.status # "ok"
  BY <1>2 DEF PutMark, SameIds
<1>3. CASE s.status = "ok" /\ s.coded = "null"
  BY <1>3, StopOK DEF PutMark, Status
<1>4. CASE s.status = "ok" /\ s.coded # "null"
  BY <1>1, <1>4, AppendCell DEF PutMark
<1>5. QED
  BY <1>2, <1>3, <1>4

\* write(class_id, msg): one count and one cell, or one count and no cell.
LEMMA WriteMessageOK ==
  ASSUME NEW C, NEW D, NEW s \in StreamRecord(C, D),
         NEW id \in Nat, NEW body \in Body, NEW serialized \in BOOLEAN
  PROVE  LET t == WriteMessage(s, id, body, serialized)
         IN  t \in StreamRecord(C, D) /\ SameIds(s, t)
<1> DEFINE counted == [s EXCEPT !.counts[id] = @ + 1]
           cell == Message(id, body, s.coded = "compressed")
<1>1. cell \in Cell
  BY DEF Message, Cell
<1>2. CASE s.status # "ok"
  BY <1>2 DEF WriteMessage, SameIds
<1>3. CASE s.status = "ok" /\ (s.coded = "null" \/ id \notin DOMAIN s.counts)
  BY <1>3, StopOK DEF WriteMessage, Status
<1>4. CASE s.status = "ok" /\ s.coded # "null" /\ id \in DOMAIN s.counts
  <2>1. s.counts \in [D -> Nat] /\ id \in D
    BY <1>4 DEF StreamRecord
  <2>2. [s.counts EXCEPT ![id] = @ + 1] \in [D -> Nat]
    BY <2>1
  <2>3. counted \in StreamRecord(C, D) /\ SameIds(s, counted)
    BY <2>2 DEF StreamRecord, SameIds
  <2>4. CASE serialized
    <3> HIDE DEF counted, cell
    <3>1. WriteMessage(s, id, body, serialized) = [counted EXCEPT !.wire = Append(@, cell)]
      BY <1>4, <2>4 DEF WriteMessage, counted, cell
    <3>2. LET t == [counted EXCEPT !.wire = Append(@, cell)]
          IN  t \in StreamRecord(C, D) /\ SameIds(counted, t)
      BY <1>1, <2>3, AppendCell
    <3>3. QED
      BY <2>3, <3>1, <3>2 DEF SameIds
  <2>5. CASE ~serialized
    <3> HIDE DEF counted
    <3>1. WriteMessage(s, id, body, serialized) = [counted EXCEPT !.dropped = Append(@, id)]
      BY <1>4, <2>5 DEF WriteMessage, counted
    <3>2. Append(counted.dropped, id) \in Seq(Nat)
      BY <2>3 DEF StreamRecord
    <3>3. QED
      BY <2>3, <3>1, <3>2, Zenon DEF StreamRecord, SameIds
  <2>6. QED
    BY <2>4, <2>5
<1>5. QED
  BY <1>2, <1>3, <1>4

\* The bodies the stream writes are bodies of the format.
LEMMA BodiesOK ==
  /\ NoBody \in Body
  /\ \A t \in CompressionType : [compression |-> t] \in Body
  /\ \A b \in BOOLEAN : [metadata_refers_forward |-> b] \in Body
  /\ \A c \in Class : Content(c) \in Body
  /\ \A n \in Nat : [size |-> n] \in Body
  /\ \A n \in Nat, c \in Class, f \in SUBSET File :
        [class_id |-> n, full_name |-> c, files |-> f] \in Body
BY DEF Body, Content

\* The format's own ids are numbers.
LEMMA FixedIdsOK ==
  /\ StreamHeaderId \in Nat /\ StreamFooterId \in Nat /\ ProtoClassId \in Nat
  /\ StartCompressedSectionId \in Nat /\ EndCompressedSectionId \in Nat
BY WireAssumption DEF StreamHeaderId, StreamFooterId, ProtoClassId,
                      StartCompressedSectionId, EndCompressedSectionId

\* start_compression
LEMMA StartCompressionOK ==
  ASSUME NEW C, NEW D, NEW s \in StreamRecord(C, D)
  PROVE  LET t == StartCompression(s)
         IN  t \in StreamRecord(C, D) /\ SameIds(s, t)
<1> DEFINE w == WriteMessage(s, StartCompressedSectionId,
                             [compression |-> s.compression_type], TRUE)
<1>1. w \in StreamRecord(C, D) /\ SameIds(s, w)
  <2>1. s.compression_type \in CompressionType
    BY DEF StreamRecord
  <2>2. [compression |-> s.compression_type] \in Body
    BY <2>1 DEF Body
  <2>3. QED
    BY <2>2, FixedIdsOK, WriteMessageOK
<1>2. CASE s.compressed \/ s.status # "ok"
  BY <1>2 DEF StartCompression, SameIds
<1>3. CASE ~s.compressed /\ s.status = "ok"
  <2> DEFINE n == [w EXCEPT !.coded = "null"]
             f == Stop(n, "Control should not reach here.")
             z == [w EXCEPT !.compressed = TRUE, !.coded = "compressed"]
  <2>1. StartCompression(s) \in {w, f, z}
    BY <1>3 DEF StartCompression
  <2> HIDE DEF w
  <2>2. n \in StreamRecord(C, D) /\ SameIds(w, n)
    BY <1>1 DEF StreamRecord, SameIds
  <2>3. z \in StreamRecord(C, D) /\ SameIds(w, z)
    BY <1>1 DEF StreamRecord, SameIds
  <2> HIDE DEF n, z
  <2>4. f \in StreamRecord(C, D) /\ SameIds(n, f)
    BY <2>2, StopOK DEF Status
  <2> HIDE DEF f
  <2>5. QED
    BY <1>1, <2>1, <2>2, <2>3, <2>4 DEF SameIds
<1>4. QED
  BY <1>2, <1>3

\* stop_compression
LEMMA StopCompressionOK ==
  ASSUME NEW C, NEW D, NEW s \in StreamRecord(C, D)
  PROVE  LET t == StopCompression(s)
         IN  t \in StreamRecord(C, D) /\ SameIds(s, t)
<1> DEFINE w == WriteMessage(s, EndCompressedSectionId, NoBody, TRUE)
<1>1. w \in StreamRecord(C, D) /\ SameIds(s, w)
  BY BodiesOK, FixedIdsOK, WriteMessageOK
<1>2. CASE ~s.compressed \/ s.status # "ok"
  BY <1>2 DEF StopCompression, SameIds
<1>3. CASE s.compressed /\ s.status = "ok"
  <2> HIDE DEF w
  <2>1. StopCompression(s) = [w EXCEPT !.compressed = FALSE, !.coded = "raw"]
    BY <1>3 DEF StopCompression, w
  <2>2. LET t == [w EXCEPT !.compressed = FALSE, !.coded = "raw"]
        IN  t \in StreamRecord(C, D) /\ SameIds(w, t)
    BY <1>1 DEF StreamRecord, SameIds
  <2>3. QED
    BY <1>1, <2>1, <2>2 DEF SameIds
<1>4. QED
  BY <1>2, <1>3

\* The value of get_bytes_written is an offset.
LEMMA BytesWrittenOK ==
  ASSUME NEW C, NEW D, NEW s \in StreamRecord(C, D)
  PROVE  BytesWritten(s) \in Nat
<1>1. StopCompression(s).wire \in Seq(Cell)
  BY StopCompressionOK DEF StreamRecord
<1>2. QED
  BY <1>1 DEF BytesWritten, ByteCount

\* get_bytes_written closes and reopens the compressed section.
LEMMA GetBytesWrittenOK ==
  ASSUME NEW C, NEW D, NEW s \in StreamRecord(C, D)
  PROVE  LET t == GetBytesWritten(s)
         IN  t \in StreamRecord(C, D) /\ SameIds(s, t)
<1> DEFINE t == StopCompression(s)
           r == [t EXCEPT !.coded = "raw"]
<1>1. t \in StreamRecord(C, D) /\ SameIds(s, t)
  BY StopCompressionOK
<1> HIDE DEF t
<1>2. r \in StreamRecord(C, D) /\ SameIds(t, r)
  BY <1>1 DEF StreamRecord, SameIds
<1> HIDE DEF r
<1>3. StartCompression(r) \in StreamRecord(C, D) /\ SameIds(r, StartCompression(r))
  BY <1>2, StartCompressionOK
<1>4. LET u == Stop(t, "assert _raw_out")
      IN  u \in StreamRecord(C, D) /\ SameIds(t, u)
  BY <1>1, StopOK DEF Status
<1>5. GetBytesWritten(s) \in {t, Stop(t, "assert _raw_out"), r, StartCompression(r)}
  BY DEF GetBytesWritten, t, r
<1>6. QED
  BY <1>1, <1>2, <1>3, <1>4, <1>5 DEF SameIds

\* The offset of a ProtoClass is appended to its list.
LEMMA RecordProtoClassPositionOK ==
  ASSUME NEW C, NEW D, NEW s \in StreamRecord(C, D)
  PROVE  LET t == RecordProtoClassPosition(s)
         IN  t \in StreamRecord(C, D) /\ SameIds(s, t)
<1> DEFINE t == GetBytesWritten(s)
           u == [t EXCEPT !.protoclass_positions = Append(@, BytesWritten(s))]
<1>1. t \in StreamRecord(C, D) /\ SameIds(s, t)
  BY GetBytesWrittenOK
<1> HIDE DEF t
<1>2. Append(t.protoclass_positions, BytesWritten(s)) \in Seq(Nat)
  <2>1. t.protoclass_positions \in Seq(Nat)
    BY <1>1 DEF StreamRecord
  <2>2. BytesWritten(s) \in Nat
    BY BytesWrittenOK
  <2>3. QED
    BY <2>1, <2>2
<1>3. u \in StreamRecord(C, D) /\ SameIds(t, u)
  BY <1>1, <1>2 DEF StreamRecord, SameIds
<1> HIDE DEF u
<1>4. RecordProtoClassPosition(s) \in {t, u}
  BY DEF RecordProtoClassPosition, t, u
<1>5. QED
  BY <1>1, <1>3, <1>4 DEF SameIds

\* The offset of a metadata message is appended to its list.
LEMMA RecordMetadataPositionOK ==
  ASSUME NEW C, NEW D, NEW s \in StreamRecord(C, D)
  PROVE  LET t == RecordMetadataPosition(s)
         IN  t \in StreamRecord(C, D) /\ SameIds(s, t)
<1> DEFINE t == GetBytesWritten(s)
           u == [t EXCEPT !.metadata_positions = Append(@, BytesWritten(s))]
<1>1. t \in StreamRecord(C, D) /\ SameIds(s, t)
  BY GetBytesWrittenOK
<1> HIDE DEF t
<1>2. Append(t.metadata_positions, BytesWritten(s)) \in Seq(Nat)
  <2>1. t.metadata_positions \in Seq(Nat)
    BY <1>1 DEF StreamRecord
  <2>2. BytesWritten(s) \in Nat
    BY BytesWrittenOK
  <2>3. QED
    BY <2>1, <2>2
<1>3. u \in StreamRecord(C, D) /\ SameIds(t, u)
  BY <1>1, <1>2 DEF StreamRecord, SameIds
<1> HIDE DEF u
<1>4. RecordMetadataPosition(s) \in {t, u}
  BY DEF RecordMetadataPosition, t, u
<1>5. QED
  BY <1>1, <1>3, <1>4 DEF SameIds

\* The indices of a vector
IdRange(D) == D \subseteq Nat /\ \A i \in D : 0 .. i \subseteq D

\* _class_id_counts.resize: afterwards the vector has the index id.
LEMMA ResizeCountsOK ==
  ASSUME NEW C, NEW D, IdRange(D), NEW s \in StreamRecord(C, D), NEW id \in Nat
  PROVE  LET t == ResizeCounts(s, id)
         IN  /\ IdRange(D \cup 0 .. id)
             /\ t \in StreamRecord(C, D \cup 0 .. id) /\ SameIds(s, t)
<1> DEFINE counts == [i \in 0 .. id |-> IF i \in DOMAIN s.counts THEN s.counts[i] ELSE 0]
<1>1. s.counts \in [D -> Nat]
  BY DEF StreamRecord
<1>2. IdRange(D \cup 0 .. id)
  BY DEF IdRange
<1>3. CASE id \in D
  <2>1. D \cup 0 .. id = D
    BY <1>3 DEF IdRange
  <2>2. ResizeCounts(s, id) = s
    BY <1>1, <1>3 DEF ResizeCounts
  <2>3. QED
    BY <1>2, <2>1, <2>2 DEF SameIds
<1>4. CASE id \notin D
  <2>1. D \cup 0 .. id = 0 .. id
    <3>1. ASSUME NEW i \in D PROVE i \in 0 .. id
      <4>1. i \in Nat /\ id \notin 0 .. i
        BY <1>4 DEF IdRange
      <4>2. QED
        BY <4>1
    <3>2. QED
      BY <3>1
  <2>2. counts \in [0 .. id -> Nat]
    BY <1>1
  <2> HIDE DEF counts
  <2>3. ResizeCounts(s, id) = [s EXCEPT !.counts = counts]
    BY <1>1, <1>4 DEF ResizeCounts, counts
  <2>4. [s EXCEPT !.counts = counts] \in StreamRecord(C, 0 .. id)
    BY <2>2 DEF StreamRecord
  <2>5. SameIds(s, [s EXCEPT !.counts = counts])
    BY DEF StreamRecord, SameIds
  <2>6. QED
    BY <1>2, <2>1, <2>3, <2>4, <2>5
<1>5. QED
  BY <1>3, <1>4

\* get_file_descriptors collects files, the file itself, and all that they import.
LEMMA FilesAreFiles ==
  /\ \A f \in File : /\ FileDescriptors(f) \in SUBSET File
                     /\ f \in FileDescriptors(f) /\ Closed(FileDescriptors(f))
  /\ \A c \in Class : FilesOf[c] \in SUBSET File
<1>1. \A f \in File : Imports(f) \in SUBSET File
  <2>1. ASSUME NEW f \in File, NEW g \in Imports(f)
        PROVE  g \in File
    <3>1. Dependencies[f] \in Seq(File)
      BY ProtoFilesAssumption
    <3>2. PICK i \in DOMAIN Dependencies[f] : g = Dependencies[f][i]
      BY DEF Imports, ToSet
    <3>3. QED
      BY <3>1, <3>2
  <2>2. QED
    BY <2>1
<1>2. ASSUME NEW f \in File
      PROVE  /\ FileDescriptors(f) \in SUBSET File
             /\ f \in FileDescriptors(f) /\ Closed(FileDescriptors(f))
  BY <1>1, <1>2 DEF FileDescriptors, Closed
<1>3. \A c \in Class : FileOf[c] \in File /\ ExtensionFiles[c] \in SUBSET File
  BY ProtoFilesAssumption, OutputStreamAssumption
<1>4. QED
  BY <1>2, <1>3 DEF FilesOf

\* write_protoclass: afterwards the class id can be counted.
LEMMA WriteProtoClassOK ==
  ASSUME NEW C, NEW D, IdRange(D), NEW s \in StreamRecord(C, D),
         NEW id \in Nat, NEW c \in Class
  PROVE  LET t == WriteProtoClass(s, id, c)
         IN  t \in StreamRecord(C, D \cup 0 .. id) /\ SameIds(s, t)
<1> DEFINE files == FilesOf[c] \ s.written_files
           q == [s EXCEPT !.written_files = @ \cup FilesOf[c]]
           r == RecordProtoClassPosition(q)
           z == ResizeCounts(r, id)
           body == [class_id |-> id, full_name |-> c, files |-> files]
<1>1. FilesOf[c] \in SUBSET File
  BY FilesAreFiles
<1>2. body \in Body
  <2>1. files \in SUBSET File
    BY <1>1
  <2>2. QED
    BY <2>1, BodiesOK
<1>3. q \in StreamRecord(C, D) /\ SameIds(s, q)
  <2>1. s.written_files \cup FilesOf[c] \in SUBSET File
    BY <1>1 DEF StreamRecord
  <2>2. QED
    BY <2>1 DEF StreamRecord, SameIds
<1>4. WriteProtoClass(s, id, c) = WriteMessage(z, ProtoClassId, body, TRUE)
  BY DEF WriteProtoClass
<1> HIDE DEF q, body
<1>5. r \in StreamRecord(C, D) /\ SameIds(q, r)
  BY <1>3, RecordProtoClassPositionOK
<1> HIDE DEF r
<1>6. z \in StreamRecord(C, D \cup 0 .. id) /\ SameIds(r, z)
  BY <1>5, ResizeCountsOK
<1> HIDE DEF z
<1>7. LET t == WriteMessage(z, ProtoClassId, body, TRUE)
      IN  t \in StreamRecord(C, D \cup 0 .. id) /\ SameIds(z, t)
  BY <1>2, <1>6, FixedIdsOK, WriteMessageOK
<1>8. QED
  BY <1>3, <1>4, <1>5, <1>6, <1>7 DEF SameIds
\* The type of the object, with its two domains named.
LEMMA StreamOKIsRecord ==
  ASSUME NEW s
  PROVE  StreamOK(s) <=> \E C \in SUBSET Class, D \in SUBSET Nat :
                             IdRange(D) /\ s \in StreamRecord(C, D)
<1>1. ASSUME NEW C \in SUBSET Class, NEW D \in SUBSET Nat,
             IdRange(D), s \in StreamRecord(C, D)
      PROVE  StreamOK(s)
  <2>1. DOMAIN s.class_id = C /\ DOMAIN s.counts = D
    BY <1>1 DEF StreamRecord
  <2>2. QED
    BY <1>1, <2>1 DEF StreamOK, IdRange
<1>2. ASSUME StreamOK(s)
      PROVE  \E C \in SUBSET Class, D \in SUBSET Nat : IdRange(D) /\ s \in StreamRecord(C, D)
  <2>1. /\ DOMAIN s.class_id \in SUBSET Class
        /\ DOMAIN s.counts \in SUBSET Nat
        /\ IdRange(DOMAIN s.counts)
        /\ s \in StreamRecord(DOMAIN s.class_id, DOMAIN s.counts)
    BY <1>2 DEF StreamOK, IdRange
  <2>2. QED
    BY <2>1
<1>3. QED
  BY <1>1, <1>2

\* find_class_id keeps the type and its result is an id.
LEMMA FindClassIdOK ==
  ASSUME NEW s, StreamOK(s), NEW c \in Class, NEW metadata \in BOOLEAN
  PROVE  /\ StreamOK(FindClassId(s, c, metadata))
         /\ ClassIdFor(s, c, metadata) \in Nat
<1> DEFINE id == ClassIdFor(s, c, metadata)
           content == IF metadata THEN s.next_class_id ELSE id + 2
           meta == IF metadata THEN id + 2 ELSE s.next_metadata_class_id
           q == [s EXCEPT !.next_class_id = SkipReserved(content, ReservedLo),
                          !.next_metadata_class_id = SkipReserved(meta, ReservedLo + 1)]
           t == WriteProtoClass(q, id, c)
           u == [t EXCEPT !.class_id = [d \in DOMAIN t.class_id \cup {c} |->
                                           IF d = c THEN id ELSE t.class_id[d]]]
           v == Stop(u, "assert (class_id % 2) == metadata")
<1>1. PICK C \in SUBSET Class, D \in SUBSET Nat : IdRange(D) /\ s \in StreamRecord(C, D)
  BY StreamOKIsRecord
<1>2. id \in Nat
  BY <1>1 DEF ClassIdFor, StreamRecord
<1>3. FindClassId(s, c, metadata) \in {s, t, u, v}
  BY DEF FindClassId
<1>4. q \in StreamRecord(C, D)
  <2>1. content \in Nat /\ meta \in Nat
    BY <1>1, <1>2 DEF StreamRecord
  <2>2. SkipReserved(content, ReservedLo) \in Nat /\ SkipReserved(meta, ReservedLo + 1) \in Nat
    BY <2>1, WireAssumption DEF SkipReserved
  <2> HIDE DEF content, meta
  <2>3. QED
    BY <1>1, <2>2 DEF StreamRecord
<1> HIDE DEF id, q
<1>5. t \in StreamRecord(C, D \cup 0 .. id)
  BY <1>1, <1>2, <1>4, WriteProtoClassOK
<1> HIDE DEF t
<1>6. u \in StreamRecord(C \cup {c}, D \cup 0 .. id)
  <2> DEFINE g == [d \in DOMAIN t.class_id \cup {c} |-> IF d = c THEN id ELSE t.class_id[d]]
  <2>1. g \in [C \cup {c} -> Nat]
    BY <1>2, <1>5 DEF StreamRecord
  <2> HIDE DEF g
  <2>2. u = [t EXCEPT !.class_id = g]
    BY DEF g
  <2>3. QED
    BY <1>5, <2>1, <2>2 DEF StreamRecord
<1> HIDE DEF u
<1>7. v \in StreamRecord(C \cup {c}, D \cup 0 .. id)
  BY <1>6, StopOK DEF Status
<1> HIDE DEF v
<1>8. IdRange(D \cup 0 .. id) /\ D \cup 0 .. id \in SUBSET Nat /\ C \cup {c} \in SUBSET Class
  BY <1>1, <1>2 DEF IdRange
<1>9. StreamOK(t) /\ StreamOK(u) /\ StreamOK(v)
  BY <1>5, <1>6, <1>7, <1>8, StreamOKIsRecord
<1>10. QED
  BY <1>2, <1>3, <1>9 DEF id

\* write_header
LEMMA WriteHeaderOK ==
  ASSUME NEW C, NEW D, NEW s \in StreamRecord(C, D)
  PROVE  WriteHeader(s) \in StreamRecord(C, D) /\ SameIds(s, WriteHeader(s))
<1> DEFINE m == PutMark(s, "START_MAGIC", NoBody)
           body == [metadata_refers_forward |-> s.metadata_refers_forward]
<1>1. m \in StreamRecord(C, D) /\ SameIds(s, m)
  BY BodiesOK, PutMarkOK
<1>2. body \in Body
  BY DEF StreamRecord, Body
<1>3. WriteHeader(s) = WriteMessage(m, StreamHeaderId, body, TRUE)
  BY DEF WriteHeader
<1> HIDE DEF m, body
<1>4. LET t == WriteMessage(m, StreamHeaderId, body, TRUE)
      IN  t \in StreamRecord(C, D) /\ SameIds(m, t)
  BY <1>1, <1>2, FixedIdsOK, WriteMessageOK
<1>5. QED
  BY <1>1, <1>3, <1>4 DEF SameIds

\* The footer is a body of the format.
LEMMA FooterOK ==
  ASSUME NEW C, NEW D \in SUBSET Nat, NEW s \in StreamRecord(C, D), NEW size \in Nat
  PROVE  Footer(s, size) \in Body
<1>1. ClassCount(s) \in SUBSET [class_id : Nat, count : Nat]
  <2>1. s.counts \in [D -> Nat]
    BY DEF StreamRecord
  <2>2. DOMAIN s.counts = D /\ \A i \in D : i \in Nat /\ s.counts[i] \in Nat
    BY <2>1
  <2>3. ASSUME NEW x \in ClassCount(s)
        PROVE  x \in [class_id : Nat, count : Nat]
    <3>1. PICK i \in DOMAIN s.counts : x = [class_id |-> i, count |-> s.counts[i]]
      BY <2>3 DEF ClassCount
    <3>2. QED
      BY <2>2, <3>1
  <2>4. QED
    BY <2>3
<1>2. s.metadata_positions \in Seq(Nat) /\ s.protoclass_positions \in Seq(Nat)
  BY DEF StreamRecord
<1> DEFINE cc == ClassCount(s)
<1>3. Footer(s, size) = [size |-> size, metadata_offsets |-> s.metadata_positions,
                         protoclass_offsets |-> s.protoclass_positions, class_count |-> cc]
  BY DEF Footer
<1> HIDE DEF cc
<1>4. cc \in SUBSET [class_id : Nat, count : Nat]
  BY <1>1 DEF cc
<1>5. QED
  BY <1>2, <1>3, <1>4 DEF Body

\* write_footer
LEMMA WriteFooterOK ==
  ASSUME NEW C, NEW D \in SUBSET Nat, NEW s \in StreamRecord(C, D)
  PROVE  WriteFooter(s) \in StreamRecord(C, D) /\ SameIds(s, WriteFooter(s))
<1> DEFINE t == GetBytesWritten(s)
           f == Footer(t, BytesWritten(s))
           u == WriteMessage(t, StreamFooterId, f, TRUE)
           m == PutMark(u, "FooterSize", [size |-> FooterLen])
           n == PutMark(m, "END_MAGIC", NoBody)
<1>1. WriteFooter(s) = n
  BY DEF WriteFooter
<1>2. t \in StreamRecord(C, D) /\ SameIds(s, t)
  BY GetBytesWrittenOK
<1>3. BytesWritten(s) \in Nat
  BY BytesWrittenOK
<1> HIDE DEF t
<1>4. f \in Body
  BY <1>2, <1>3, FooterOK
<1> HIDE DEF f
<1>5. u \in StreamRecord(C, D) /\ SameIds(t, u)
  BY <1>2, <1>4, FixedIdsOK, WriteMessageOK
<1> HIDE DEF u
<1>6. m \in StreamRecord(C, D) /\ SameIds(u, m)
  <2>1. [size |-> FooterLen] \in Body
    BY BodiesOK DEF FooterLen
  <2>2. QED
    BY <1>5, <2>1, PutMarkOK
<1> HIDE DEF m
<1>7. n \in StreamRecord(C, D) /\ SameIds(m, n)
  BY <1>6, BodiesOK, PutMarkOK
<1> HIDE DEF n
<1>8. QED
  BY <1>1, <1>2, <1>5, <1>6, <1>7 DEF SameIds

\* close
LEMMA CloseStreamOK ==
  ASSUME NEW C, NEW D \in SUBSET Nat, NEW s \in StreamRecord(C, D)
  PROVE  CloseStream(s) \in StreamRecord(C, D) /\ SameIds(s, CloseStream(s))
<1> DEFINE o == [s EXCEPT !.closed = TRUE]
           p == StopCompression(o)
           t == WriteFooter(p)
           u == [t EXCEPT !.coded = "null", !.raw = FALSE]
<1>1. CloseStream(s) \in {t, u}
  BY DEF CloseStream
<1>2. o \in StreamRecord(C, D) /\ SameIds(s, o)
  BY DEF StreamRecord, SameIds
<1> HIDE DEF o
<1>3. p \in StreamRecord(C, D) /\ SameIds(o, p)
  BY <1>2, StopCompressionOK
<1> HIDE DEF p
<1>4. t \in StreamRecord(C, D) /\ SameIds(p, t)
  BY <1>3, WriteFooterOK
<1> HIDE DEF t
<1>5. u \in StreamRecord(C, D) /\ SameIds(t, u)
  BY <1>4 DEF StreamRecord, SameIds
<1> HIDE DEF u
<1>6. QED
  BY <1>1, <1>2, <1>3, <1>4, <1>5 DEF SameIds

\* open
LEMMA OpenStreamOK ==
  ASSUME NEW C, NEW D, NEW s \in StreamRecord(C, D), NEW result
  PROVE  OpenStream(s, result) \in StreamRecord(C, D) /\ SameIds(s, OpenStream(s, result))
<1> DEFINE o == [s EXCEPT !.opened = TRUE, !.compressed = FALSE]
           p == [o EXCEPT !.raw = TRUE, !.coded = "raw"]
           h == WriteHeader(p)
           t == StartCompression(h)
<1>1. OpenStream(s, result) \in {s, o, h, t}
  BY DEF OpenStream
<1>2. o \in StreamRecord(C, D) /\ SameIds(s, o)
  BY DEF StreamRecord, SameIds
<1> HIDE DEF o
<1>3. p \in StreamRecord(C, D) /\ SameIds(o, p)
  BY <1>2 DEF StreamRecord, SameIds
<1> HIDE DEF p
<1>4. h \in StreamRecord(C, D) /\ SameIds(p, h)
  BY <1>3, WriteHeaderOK
<1> HIDE DEF h
<1>5. t \in StreamRecord(C, D) /\ SameIds(h, t)
  BY <1>4, StartCompressionOK
<1> HIDE DEF t
<1>6. QED
  BY <1>1, <1>2, <1>3, <1>4, <1>5 DEF SameIds

\* Both constructors leave an object of the type.
LEMMA NewStreamOK ==
  ASSUME NEW to_file \in BOOLEAN, NEW i \in Nat, NEW j \in Nat
  PROVE  /\ NewStream(to_file, i, j)
              \in StreamRecord({}, 0 .. ReservedLo + ReservedWidth - 1)
         /\ StreamOK(NewStream(to_file, i, j))
<1> DEFINE D == 0 .. ReservedLo + ReservedWidth - 1
           counts == [k \in D |-> 0]
<1>1. IdRange(D) /\ D \in SUBSET Nat
  BY WireAssumption DEF IdRange
<1>2. counts \in [D -> Nat] /\ << >> \in [{} -> Nat]
  OBVIOUS
<1>3. << >> \in Seq(Nat) /\ << >> \in Seq(Cell)
  OBVIOUS
<1> HIDE DEF counts
<1>4. NewStream(to_file, i, j) \in StreamRecord({}, D)
  BY <1>2, <1>3 DEF NewStream, StreamRecord, Status, CompressionType, counts
<1>5. QED
  BY <1>1, <1>4, StreamOKIsRecord

LEMMA InitOK == Init => TypeOK
<1> DEFINE D == 0 .. ReservedLo + ReservedWidth - 1
<1>1. IdRange(D) /\ D \in SUBSET Nat
  BY WireAssumption DEF IdRange
<1>3. CASE os = NewStream(TRUE, 0, 1)
  BY <1>3, NewStreamOK DEF TypeOK
<1>4. ASSUME NEW i \in FirstIds, NEW j \in FirstIds,
             NEW t \in CompressionType,
             os = [NewStream(FALSE, i, j) EXCEPT !.compression_type = t]
      PROVE  TypeOK
  <2> DEFINE n == NewStream(FALSE, i, j)
  <2>1. n \in StreamRecord({}, D)
    BY NewStreamOK, OutputStreamAssumption
  <2> HIDE DEF n
  <2>2. os = [n EXCEPT !.compression_type = t]
    BY <1>4 DEF n
  <2>3. os \in StreamRecord({}, D)
    BY <2>1, <2>2 DEF StreamRecord
  <2>4. QED
    BY <1>1, <2>3, StreamOKIsRecord DEF TypeOK
<1>5. QED
  BY <1>3, <1>4 DEF Init

\* open, which write and metadata may call first, with StreamOK.
LEMMA OpenedOK ==
  ASSUME NEW s, StreamOK(s), NEW result
  PROVE  StreamOK(OpenStream(s, result)) /\ SameIds(s, OpenStream(s, result))
<1>1. PICK C \in SUBSET Class, D \in SUBSET Nat : IdRange(D) /\ s \in StreamRecord(C, D)
  BY StreamOKIsRecord
<1> DEFINE o == OpenStream(s, result)
<1>2. o \in StreamRecord(C, D) /\ SameIds(s, o)
  BY <1>1, OpenStreamOK
<1> HIDE DEF o
<1>3. StreamOK(o)
  BY <1>1, <1>2, StreamOKIsRecord
<1>4. QED
  BY <1>2, <1>3 DEF o

\* write(class_id, msg) of a user's message, with StreamOK.
LEMMA MessageStepOK ==
  ASSUME NEW s, StreamOK(s), NEW id \in Nat, NEW c \in Class, NEW serialized \in BOOLEAN
  PROVE  LET t == WriteMessage(s, id, Content(c), serialized)
         IN  StreamOK(t) /\ SameIds(s, t)
<1>1. PICK C \in SUBSET Class, D \in SUBSET Nat : IdRange(D) /\ s \in StreamRecord(C, D)
  BY StreamOKIsRecord
<1> DEFINE body == Content(c)
           t == WriteMessage(s, id, body, serialized)
<1>2. body \in Body
  BY BodiesOK
<1> HIDE DEF body
<1>3. t \in StreamRecord(C, D) /\ SameIds(s, t)
  BY <1>1, <1>2, WriteMessageOK
<1> HIDE DEF t
<1>4. StreamOK(t)
  BY <1>1, <1>3, StreamOKIsRecord
<1>5. QED
  BY <1>3, <1>4 DEF t, body

\* The offset of a metadata message, with StreamOK.
LEMMA RecordStepOK ==
  ASSUME NEW s, StreamOK(s)
  PROVE  LET t == RecordMetadataPosition(s)
         IN  StreamOK(t) /\ SameIds(s, t)
<1>1. PICK C \in SUBSET Class, D \in SUBSET Nat : IdRange(D) /\ s \in StreamRecord(C, D)
  BY StreamOKIsRecord
<1> DEFINE t == RecordMetadataPosition(s)
<1>2. t \in StreamRecord(C, D) /\ SameIds(s, t)
  BY <1>1, RecordMetadataPositionOK
<1> HIDE DEF t
<1>3. StreamOK(t)
  BY <1>1, <1>2, StreamOKIsRecord
<1>4. QED
  BY <1>2, <1>3 DEF t

\* An action other than Write and Metadata keeps the type and changes no id.
LEMMA QuietStepOK ==
  ASSUME TypeOK, \/ Open \/ SetForwardMetadata \/ Close
                 \/ \E t \in Compressions : SetCompression(t)
  PROVE  TypeOK' /\ SameIds(os, os')
<1>1. PICK C \in SUBSET Class, D \in SUBSET Nat : IdRange(D) /\ os \in StreamRecord(C, D)
  BY StreamOKIsRecord DEF TypeOK
<1>2. SUFFICES os' \in StreamRecord(C, D) /\ SameIds(os, os')
  BY <1>1, StreamOKIsRecord DEF TypeOK
<1>3. CASE Open
  BY <1>1, <1>3, OpenStreamOK DEF Open
<1>4. CASE SetForwardMetadata
  BY <1>1, <1>4 DEF SetForwardMetadata, StreamRecord, SameIds
<1>5. CASE Close
  BY <1>1, <1>5, CloseStreamOK DEF Close
<1>6. ASSUME NEW t \in Compressions, SetCompression(t)
      PROVE  os' \in StreamRecord(C, D) /\ SameIds(os, os')
  <2>1. t \in CompressionType
    BY OutputStreamAssumption
  <2>2. QED
    BY <1>1, <1>6, <2>1, Zenon DEF SetCompression, StreamRecord, SameIds
<1>7. QED
  BY <1>3, <1>4, <1>5, <1>6

\* Write and Metadata keep the type; the ids of the new state are those of the
\* old one, or those find_class_id leaves.
LEMMA MessageActionOK ==
  ASSUME TypeOK, NEW c \in Class, Write(c) \/ Metadata(c)
  PROVE  /\ TypeOK'
         /\ \E o : \E metadata \in BOOLEAN :
              /\ StreamOK(o) /\ SameIds(os, o)
              /\ SameIds(o, os') \/ SameIds(FindClassId(o, c, metadata), os')
<1>1. PICK result \in OpenResults, serialized \in SerializeResults, metadata \in BOOLEAN :
        LET o == OpenStream(os, result)
            f == FindClassId(o, c, metadata)
            id == ClassIdFor(o, c, metadata)
        IN  os' \in {o, WriteMessage(f, id, Content(c), serialized),
                     WriteMessage(RecordMetadataPosition(f), id, Content(c), serialized)}
  <2>1. CASE Write(c)
    BY <2>1 DEF Write
  <2>2. CASE Metadata(c)
    BY <2>2 DEF Metadata
  <2>3. QED
    BY <2>1, <2>2
<1> DEFINE o == OpenStream(os, result)
           f == FindClassId(o, c, metadata)
           id == ClassIdFor(o, c, metadata)
           r == RecordMetadataPosition(f)
           v == WriteMessage(f, id, Content(c), serialized)
           w == WriteMessage(r, id, Content(c), serialized)
<1>2. os' \in {o, v, w}
  BY <1>1
<1>3. serialized \in BOOLEAN
  BY OutputStreamAssumption
<1>4. StreamOK(o) /\ SameIds(os, o)
  BY OpenedOK DEF TypeOK
<1> HIDE DEF o
<1>5. StreamOK(f) /\ id \in Nat
  BY <1>4, FindClassIdOK
<1> HIDE DEF f, id
<1>6. StreamOK(r) /\ SameIds(f, r)
  BY <1>5, RecordStepOK
<1> HIDE DEF r
<1>7. StreamOK(v) /\ SameIds(f, v)
  BY <1>3, <1>5, MessageStepOK
<1>8. StreamOK(w) /\ SameIds(r, w)
  BY <1>3, <1>5, <1>6, MessageStepOK
<1> HIDE DEF v, w
<1>9. TypeOK'
  BY <1>2, <1>4, <1>7, <1>8 DEF TypeOK
<1>10. SameIds(o, os') \/ SameIds(f, os')
  BY <1>2, <1>6, <1>7, <1>8 DEF SameIds
<1>11. QED
  BY <1>4, <1>9, <1>10 DEF f

\* Every step keeps the type.
LEMMA TypeStep ==
  ASSUME TypeOK, [Next]_os
  PROVE  TypeOK'
<1>1. CASE UNCHANGED os
  BY <1>1 DEF TypeOK
<1>2. ASSUME NEW c \in Class, Write(c) \/ Metadata(c)
      PROVE  TypeOK'
  BY <1>2, MessageActionOK
<1>3. CASE \/ Open \/ SetForwardMetadata \/ Close
           \/ \E t \in Compressions : SetCompression(t)
  BY <1>3, QuietStepOK
<1>4. QED
  BY <1>1, <1>2, <1>3 DEF Next

-----------------------------------------------------------------------------
\* The object's members always have their types: whichever methods are called
\* and whatever fails, the offset lists, the class ids and the counts of
\* a4/output_stream.h stay what the footer and the next call take them for, and
\* the vector of counts has no gap.
THEOREM TypeCorrect == Spec => []TypeOK
BY InitOK, TypeStep, PTL DEF Spec
-----------------------------------------------------------------------------
\* The strengthening for the ids.  That ids are distinct is not inductive: a new
\* id must also be known to lie above all ids of its role, off the other role's
\* parity and outside the format's range, which the two counters guarantee.
Free(id) == id \notin ReservedLo .. ReservedLo + ReservedWidth - 1

NextIdsFree(s) ==
    /\ s.next_class_id % 2 = 0 /\ Free(s.next_class_id)
    /\ s.next_metadata_class_id % 2 = 1 /\ Free(s.next_metadata_class_id)

IdsBelowNext(s) ==
    \A c \in DOMAIN s.class_id :
        IF IsMetadataId(s.class_id[c]) THEN s.class_id[c] < s.next_metadata_class_id
                                       ELSE s.class_id[c] < s.next_class_id

IdsInv(s) == NextIdsFree(s) /\ IdsBelowNext(s) /\ IdsDistinct(s)

\* The next id of a role stays outside the format's range, grows and keeps its
\* parity: the jump of find_class_id lands behind the range.
LEMMA SkipReservedFree ==
  /\ \A n \in Nat : n % 2 = 0 /\ Free(n) =>
        LET m == SkipReserved(n + 2, ReservedLo)
        IN  m \in Nat /\ m > n /\ m % 2 = 0 /\ Free(m)
  /\ \A n \in Nat : n % 2 = 1 /\ Free(n) =>
        LET m == SkipReserved(n + 2, ReservedLo + 1)
        IN  m \in Nat /\ m > n /\ m % 2 = 1 /\ Free(m)
BY WireAssumption DEF SkipReserved, Free

\* find_class_id gives a new class an id no other class has.
LEMMA FindClassIdIds ==
  ASSUME NEW s, StreamOK(s), IdsInv(s), NEW c \in Class, NEW metadata \in BOOLEAN
  PROVE  IdsInv(FindClassId(s, c, metadata))
<1> DEFINE id == ClassIdFor(s, c, metadata)
           content == IF metadata THEN s.next_class_id ELSE id + 2
           meta == IF metadata THEN id + 2 ELSE s.next_metadata_class_id
           q == [s EXCEPT !.next_class_id = SkipReserved(content, ReservedLo),
                          !.next_metadata_class_id = SkipReserved(meta, ReservedLo + 1)]
           t == WriteProtoClass(q, id, c)
           u == [t EXCEPT !.class_id = [d \in DOMAIN t.class_id \cup {c} |->
                                           IF d = c THEN id ELSE t.class_id[d]]]
           v == Stop(u, "assert (class_id % 2) == metadata")
<1>1. PICK C \in SUBSET Class, D \in SUBSET Nat : IdRange(D) /\ s \in StreamRecord(C, D)
  BY StreamOKIsRecord
<1>2. CASE c \in DOMAIN s.class_id
  BY <1>2 DEF FindClassId
<1>3. CASE c \notin DOMAIN s.class_id
  <2>1. s.next_class_id \in Nat /\ s.next_metadata_class_id \in Nat /\ s.class_id \in [C -> Nat]
    BY <1>1 DEF StreamRecord
  <2>2. id = IF metadata THEN s.next_metadata_class_id ELSE s.next_class_id
    BY <1>3 DEF ClassIdFor
  <2>3. id \in Nat /\ Free(id) /\ (id % 2 = IF metadata THEN 1 ELSE 0)
    BY <2>1, <2>2 DEF IdsInv, NextIdsFree
  <2> DEFINE n == SkipReserved(content, ReservedLo)
             m == SkipReserved(meta, ReservedLo + 1)
  <2>4. /\ n \in Nat /\ n >= s.next_class_id /\ n % 2 = 0 /\ Free(n)
        /\ m \in Nat /\ m >= s.next_metadata_class_id /\ m % 2 = 1 /\ Free(m)
        /\ id < IF metadata THEN m ELSE n
    <3>1. CASE metadata
      <4>1. n = s.next_class_id
        BY <2>1, <3>1, WireAssumption DEF SkipReserved, IdsInv, NextIdsFree, Free
      <4>2. m = SkipReserved(s.next_metadata_class_id + 2, ReservedLo + 1)
        BY <2>2, <3>1
      <4>3. QED
        BY <2>1, <2>2, <3>1, <4>1, <4>2, SkipReservedFree DEF IdsInv, NextIdsFree
    <3>2. CASE ~metadata
      <4>1. m = s.next_metadata_class_id
        BY <2>1, <3>2, WireAssumption DEF SkipReserved, IdsInv, NextIdsFree, Free
      <4>2. n = SkipReserved(s.next_class_id + 2, ReservedLo)
        BY <2>2, <3>2
      <4>3. QED
        BY <2>1, <2>2, <3>2, <4>1, <4>2, SkipReservedFree DEF IdsInv, NextIdsFree
    <3>3. QED
      BY <3>1, <3>2
  <2> DEFINE old == s.class_id
             new == [d \in C \cup {c} |-> IF d = c THEN id ELSE old[d]]
  <2>5. FindClassId(s, c, metadata) \in {t, u, v}
    BY <1>3 DEF FindClassId
  <2> HIDE DEF n, m
  <2>6. /\ q \in StreamRecord(C, D) /\ q.class_id = old
        /\ q.next_class_id = n /\ q.next_metadata_class_id = m
    BY <1>1, <2>4 DEF StreamRecord, n, m
  <2> HIDE DEF id, q
  <2>7. t \in StreamRecord(C, D \cup 0 .. id) /\ SameIds(q, t)
    BY <1>1, <2>3, <2>6, WriteProtoClassOK
  <2> HIDE DEF t
  <2>8. t.class_id = old /\ t.next_class_id = n /\ t.next_metadata_class_id = m
    BY <2>6, <2>7 DEF SameIds
  <2>9. /\ u.class_id = new /\ u.next_class_id = n /\ u.next_metadata_class_id = m
        /\ v.class_id = new /\ v.next_class_id = n /\ v.next_metadata_class_id = m
    <3>1. DOMAIN t.class_id = C
      BY <2>1, <2>8
    <3> DEFINE g == [d \in DOMAIN t.class_id \cup {c} |-> IF d = c THEN id ELSE t.class_id[d]]
    <3>2. g = new
      BY <2>8, <3>1
    <3> HIDE DEF g
    <3>3. u = [t EXCEPT !.class_id = g]
      BY DEF g
    <3>4. u.class_id = g /\ u.next_class_id = n /\ u.next_metadata_class_id = m
      BY <2>7, <2>8, <3>3 DEF StreamRecord
    <3>5. SameIds(u, v)
      BY <2>7, <3>3 DEF StreamRecord, Stop, SameIds
    <3>6. QED
      BY <3>2, <3>4, <3>5 DEF SameIds
  <2> HIDE DEF u, v
  <2> DEFINE Sorted(f) == \A d \in DOMAIN f : IF IsMetadataId(f[d]) THEN f[d] < m ELSE f[d] < n
             Apart(f) == /\ \A d, e \in DOMAIN f : f[d] = f[e] => d = e
                         /\ \A d \in DOMAIN f : Free(f[d])
  <2>10. /\ \A d \in C : old[d] \in Nat /\ Free(old[d]) /\ old[d] # id
         /\ \A d \in C : IF IsMetadataId(old[d]) THEN old[d] < m ELSE old[d] < n
         /\ \A d, e \in C : old[d] = old[e] => d = e
    BY <1>3, <2>1, <2>2, <2>3, <2>4 DEF IdsInv, IdsBelowNext, IdsDistinct, IsMetadataId, Free, id
  <2>11. Sorted(old) /\ Apart(old)
    BY <2>1, <2>10
  <2>12. Sorted(new) /\ Apart(new)
    <3>1. DOMAIN new = C \cup {c} /\ \A d \in C \cup {c} : new[d] = IF d = c THEN id ELSE old[d]
      OBVIOUS
    <3>2. c \notin C
      BY <1>3, <2>1
    <3> HIDE DEF new, old
    <3>3. Sorted(new)
      BY <2>3, <2>4, <2>10, <3>1, <3>2 DEF IsMetadataId
    <3>4. Apart(new)
      BY <2>3, <2>10, <3>1, <3>2
    <3>5. QED
      BY <3>3, <3>4
  <2> HIDE DEF old, new
  <2>13. ASSUME NEW x, x.next_class_id = n, x.next_metadata_class_id = m,
                Sorted(x.class_id), Apart(x.class_id)
         PROVE  IdsInv(x)
    BY <2>4, <2>13 DEF IdsInv, NextIdsFree, IdsBelowNext, IdsDistinct, Free
  <2> HIDE DEF Sorted, Apart
  <2>14. IdsInv(t) /\ IdsInv(u) /\ IdsInv(v)
    BY <2>8, <2>9, <2>11, <2>12, <2>13
  <2>15. QED
    BY <2>5, <2>14
<1>4. QED
  BY <1>2, <1>3

\* A step that leaves the ids alone keeps what is said of them.
LEMMA SameIdsKeep ==
  ASSUME NEW s, NEW t, IdsInv(s), SameIds(s, t)
  PROVE  IdsInv(t)
BY DEF IdsInv, NextIdsFree, IdsBelowNext, IdsDistinct, SameIds, Free

\* The file-name constructor starts the counters at 0 and 1.
LEMMA NewStreamIds == IdsInv(NewStream(TRUE, 0, 1))
<1> DEFINE s == NewStream(TRUE, 0, 1)
<1>1. s.next_class_id = 0 /\ s.next_metadata_class_id = 1 /\ s.class_id = << >>
  BY DEF NewStream
<1>2. Free(0) /\ Free(1)
  BY WireAssumption DEF Free
<1> HIDE DEF s
<1>3. IdsInv(s)
  BY <1>1, <1>2 DEF IdsInv, NextIdsFree, IdsBelowNext, IdsDistinct, Free
<1>4. QED
  BY <1>3 DEF s

LEMMA IdsInit ==
  ASSUME FirstIds = {}, Init
  PROVE  IdsInv(os)
BY NewStreamIds DEF Init

\* Only write and metadata touch the ids, through find_class_id.
LEMMA IdsStep ==
  ASSUME TypeOK, IdsInv(os), [Next]_os
  PROVE  IdsInv(os')
<1>1. CASE UNCHANGED os
  BY <1>1
<1>2. ASSUME NEW c \in Class, Write(c) \/ Metadata(c)
      PROVE  IdsInv(os')
  <2>1. PICK o : \E metadata \in BOOLEAN :
            /\ StreamOK(o) /\ SameIds(os, o)
            /\ SameIds(o, os') \/ SameIds(FindClassId(o, c, metadata), os')
    BY <1>2, MessageActionOK
  <2>2. IdsInv(o)
    BY <2>1, SameIdsKeep
  <2>3. QED
    BY <2>1, <2>2, SameIdsKeep, FindClassIdIds
<1>3. CASE \/ Open \/ SetForwardMetadata \/ Close
           \/ \E t \in Compressions : SetCompression(t)
  BY <1>3, QuietStepOK, SameIdsKeep
<1>4. QED
  BY <1>1, <1>2, <1>3 DEF Next

\* In a stream made by the file-name constructor, whose counters start at 0 and
\* 1, find_class_id never gives two classes one id, in either role, and never
\* gives a class an id of the format: for any number of classes, so also past
\* the jump over the reserved range.
THEOREM IdsCorrect == FirstIds = {} /\ Spec => []ClassIdsDistinct
<1> SUFFICES ASSUME FirstIds = {}
             PROVE  Spec => []ClassIdsDistinct
  OBVIOUS
<1>1. Init => IdsInv(os)
  BY IdsInit
<1>2. TypeOK /\ IdsInv(os) /\ [Next]_os => IdsInv(os)'
  BY IdsStep
<1>3. IdsInv(os) => ClassIdsDistinct
  BY DEF IdsInv, ClassIdsDistinct
<1>4. QED
  BY <1>1, <1>2, <1>3, TypeCorrect, PTL DEF Spec
-----------------------------------------------------------------------------
(* No method stops half way (NoAbort), if the file can be opened, the      *)
(* file-name constructor is used and an open stream is not told to stop    *)
(* compressing.  Each of the three conditions is needed.                   *)

\* Messages can be written: what the helpers rely on.
Writable(s) ==
    /\ s.status = "ok" /\ s.raw /\ s.coded # "null"
    /\ s.compressed => s.compression_type # "UNCOMPRESSED"

\* What the helpers leave alone.
SameSettings(s, t) ==
    /\ t.opened = s.opened /\ t.closed = s.closed /\ t.to_file = s.to_file
    /\ t.compression = s.compression /\ t.compression_type = s.compression_type
    /\ t.metadata_refers_forward = s.metadata_refers_forward

\* A helper got through.
Done(s, t) == Writable(t) /\ SameSettings(s, t)

\* write(class_id, msg) with an id that can be counted.
LEMMA WriteMessageDone ==
  ASSUME NEW C, NEW D, NEW s \in StreamRecord(C, D), Writable(s),
         NEW id \in D, NEW body, NEW serialized \in BOOLEAN
  PROVE  LET t == WriteMessage(s, id, body, serialized)
         IN  Done(s, t) /\ t.compressed = s.compressed
<1> DEFINE counted == [s EXCEPT !.counts[id] = @ + 1]
<1>1. id \in DOMAIN s.counts
  BY DEF StreamRecord
<1>2. Done(s, counted) /\ counted.compressed = s.compressed
  BY DEF StreamRecord, Writable, Done, SameSettings
<1> DEFINE cell == Message(id, body, s.coded = "compressed")
<1>3. WriteMessage(s, id, body, serialized) =
        IF serialized THEN [counted EXCEPT !.wire = Append(@, cell)]
                      ELSE [counted EXCEPT !.dropped = Append(@, id)]
  BY <1>1 DEF WriteMessage, Writable
<1> HIDE DEF counted, cell
<1>4. CASE serialized
  BY <1>2, <1>3, <1>4 DEF Writable, Done, SameSettings
<1>5. CASE ~serialized
  BY <1>2, <1>3, <1>5 DEF Writable, Done, SameSettings
<1>6. QED
  BY <1>4, <1>5

\* The magics and the footer length.
LEMMA PutMarkDone ==
  ASSUME NEW s, Writable(s), NEW kind, NEW body
  PROVE  Done(s, PutMark(s, kind, body))
BY DEF PutMark, Writable, Done, SameSettings

\* start_compression, when there is a compressor for the type.
LEMMA StartCompressionDone ==
  ASSUME NEW C, NEW D, NEW s \in StreamRecord(C, D), Writable(s), FixedIds \subseteq D,
         s.compression_type # "UNCOMPRESSED"
  PROVE  Done(s, StartCompression(s))
<1> DEFINE body == [compression |-> s.compression_type]
           w == WriteMessage(s, StartCompressedSectionId, body, TRUE)
<1>1. CASE s.compressed
  BY <1>1 DEF StartCompression, Done, SameSettings
<1>2. CASE ~s.compressed
  <2> HIDE DEF body
  <2>1. Done(s, w)
    BY WriteMessageDone DEF FixedIds
  <2>2. StartCompression(s) =
            IF w.status # "ok" THEN w
            ELSE IF s.compression_type = "UNCOMPRESSED"
            THEN Stop([w EXCEPT !.coded = "null"], "Control should not reach here.")
            ELSE [w EXCEPT !.compressed = TRUE, !.coded = "compressed"]
    BY <1>2 DEF StartCompression, Writable, body
  <2> HIDE DEF w
  <2>3. StartCompression(s) = [w EXCEPT !.compressed = TRUE, !.coded = "compressed"]
    BY <2>1, <2>2 DEF Done, Writable
  <2>4. QED
    BY <2>1, <2>3 DEF Done, Writable, SameSettings
<1>3. QED
  BY <1>1, <1>2

\* stop_compression
LEMMA StopCompressionDone ==
  ASSUME NEW C, NEW D, NEW s \in StreamRecord(C, D), Writable(s), FixedIds \subseteq D
  PROVE  Done(s, StopCompression(s)) /\ ~StopCompression(s).compressed
<1> DEFINE w == WriteMessage(s, EndCompressedSectionId, NoBody, TRUE)
<1>1. CASE ~s.compressed
  BY <1>1 DEF StopCompression, Done, SameSettings
<1>2. CASE s.compressed
  <2>1. Done(s, w) /\ w \in StreamRecord(C, D)
    BY WriteMessageDone, WriteMessageOK, BodiesOK, FixedIdsOK DEF FixedIds
  <2>2. StopCompression(s) = [w EXCEPT !.compressed = FALSE, !.coded = "raw"]
    BY <1>2 DEF StopCompression, Writable
  <2> HIDE DEF w
  <2>3. QED
    BY <2>1, <2>2 DEF Done, Writable, SameSettings, StreamRecord
<1>3. QED
  BY <1>1, <1>2

\* get_bytes_written: the file is there, and a section it closed can be opened again.
LEMMA GetBytesWrittenDone ==
  ASSUME NEW C, NEW D, NEW s \in StreamRecord(C, D), Writable(s), FixedIds \subseteq D
  PROVE  Done(s, GetBytesWritten(s))
<1> DEFINE t == StopCompression(s)
           r == [t EXCEPT !.coded = "raw"]
<1>1. Done(s, t) /\ t \in StreamRecord(C, D)
  BY StopCompressionDone, StopCompressionOK
<1>2. GetBytesWritten(s) = IF s.compressed THEN StartCompression(r) ELSE r
  BY <1>1 DEF GetBytesWritten, Done, Writable
<1> HIDE DEF t
<1>3. r \in StreamRecord(C, D) /\ Done(s, r)
  BY <1>1 DEF Done, Writable, SameSettings, StreamRecord
<1> HIDE DEF r
<1>4. s.compressed => r.compression_type # "UNCOMPRESSED"
  BY <1>3 DEF Done, Writable, SameSettings
<1>5. CASE s.compressed
  <2>1. Done(r, StartCompression(r))
    BY <1>3, <1>4, <1>5, StartCompressionDone DEF Done
  <2>2. QED
    BY <1>2, <1>3, <1>5, <2>1 DEF Done, SameSettings
<1>6. CASE ~s.compressed
  BY <1>2, <1>3, <1>6
<1>7. QED
  BY <1>5, <1>6

\* The two lists of offsets.
LEMMA RecordPositionsDone ==
  ASSUME NEW C, NEW D, NEW s \in StreamRecord(C, D), Writable(s), FixedIds \subseteq D
  PROVE  Done(s, RecordProtoClassPosition(s)) /\ Done(s, RecordMetadataPosition(s))
<1> DEFINE t == GetBytesWritten(s)
<1>1. Done(s, t)
  BY GetBytesWrittenDone
<1> DEFINE n == BytesWritten(s)
<1>2. /\ RecordProtoClassPosition(s) = [t EXCEPT !.protoclass_positions = Append(@, n)]
      /\ RecordMetadataPosition(s) = [t EXCEPT !.metadata_positions = Append(@, n)]
  BY <1>1 DEF RecordProtoClassPosition, RecordMetadataPosition, Done, Writable
<1> HIDE DEF t, n
<1>3. QED
  BY <1>1, <1>2 DEF Done, Writable, SameSettings

\* write_protoclass
LEMMA WriteProtoClassDone ==
  ASSUME NEW C, NEW D, IdRange(D), NEW s \in StreamRecord(C, D), Writable(s),
         FixedIds \subseteq D, NEW id \in Nat, NEW c \in Class
  PROVE  Done(s, WriteProtoClass(s, id, c))
<1> DEFINE files == FilesOf[c] \ s.written_files
           q == [s EXCEPT !.written_files = @ \cup FilesOf[c]]
           r == RecordProtoClassPosition(q)
           z == ResizeCounts(r, id)
           body == [class_id |-> id, full_name |-> c, files |-> files]
<1>1. WriteProtoClass(s, id, c) = WriteMessage(z, ProtoClassId, body, TRUE)
  BY DEF WriteProtoClass
<1>2. FilesOf[c] \in SUBSET File
  BY FilesAreFiles
<1>3. q \in StreamRecord(C, D) /\ Done(s, q)
  BY <1>2 DEF StreamRecord, Done, Writable, SameSettings
<1> HIDE DEF q, body
<1>4. r \in StreamRecord(C, D) /\ Done(q, r)
  BY <1>3, RecordProtoClassPositionOK, RecordPositionsDone DEF Done
<1> HIDE DEF r
<1>5. z \in StreamRecord(C, D \cup 0 .. id)
  BY <1>4, ResizeCountsOK
<1>6. Done(r, z)
  BY <1>4 DEF ResizeCounts, Done, Writable, SameSettings
<1> HIDE DEF z
<1>7. Done(z, WriteMessage(z, ProtoClassId, body, TRUE))
  BY <1>5, <1>6, WriteMessageDone DEF Done, FixedIds
<1>8. QED
  BY <1>1, <1>3, <1>4, <1>6, <1>7 DEF Done, SameSettings

\* Every id that was given can be counted.
IdsCounted(s) == \A c \in DOMAIN s.class_id : s.class_id[c] \in DOMAIN s.counts

\* The object between two calls.
Sound(s) ==
    /\ StreamOK(s) /\ IdsInv(s) /\ IdsCounted(s) /\ FixedIds \subseteq DOMAIN s.counts
    /\ s.status = "ok"
    /\ s.compression => s.compression_type # "UNCOMPRESSED"
    /\ s.opened /\ ~s.closed => Writable(s)

\* find_class_id: the asserted parity is right, and write() can count the id.
LEMMA FindClassIdDone ==
  ASSUME NEW s, Sound(s), Writable(s), NEW c \in Class, NEW metadata \in BOOLEAN,
         ~RoleClash(s, c, metadata)
  PROVE  LET t == FindClassId(s, c, metadata)
         IN  Sound(t) /\ Done(s, t) /\ ClassIdFor(s, c, metadata) \in DOMAIN t.counts
<1> DEFINE id == ClassIdFor(s, c, metadata)
           content == IF metadata THEN s.next_class_id ELSE id + 2
           meta == IF metadata THEN id + 2 ELSE s.next_metadata_class_id
           q == [s EXCEPT !.next_class_id = SkipReserved(content, ReservedLo),
                          !.next_metadata_class_id = SkipReserved(meta, ReservedLo + 1)]
           t == WriteProtoClass(q, id, c)
           u == [t EXCEPT !.class_id = [d \in DOMAIN t.class_id \cup {c} |->
                                           IF d = c THEN id ELSE t.class_id[d]]]
           f == FindClassId(s, c, metadata)
<1>1. PICK C \in SUBSET Class, D \in SUBSET Nat : IdRange(D) /\ s \in StreamRecord(C, D)
  BY StreamOKIsRecord DEF Sound
<1>2. id \in Nat /\ StreamOK(f) /\ IdsInv(f)
  BY FindClassIdOK, FindClassIdIds DEF Sound
<1>3. CASE c \in DOMAIN s.class_id
  BY <1>3 DEF FindClassId, ClassIdFor, Done, SameSettings, Sound, IdsCounted
<1>4. CASE c \notin DOMAIN s.class_id
  <2>1. f = IF t.status # "ok" THEN t
            ELSE IF metadata = IsMetadataId(id) THEN u
            ELSE Stop(u, "assert (class_id % 2) == metadata")
    BY <1>4 DEF FindClassId
  <2>2. metadata = IsMetadataId(id)
    BY <1>1, <1>4 DEF Sound, IdsInv, NextIdsFree, ClassIdFor, IsMetadataId, StreamRecord
  <2>3. q \in StreamRecord(C, D) /\ Done(s, q) /\ q.class_id = s.class_id
    <3>1. content \in Nat /\ meta \in Nat
      BY <1>1, <1>2 DEF StreamRecord
    <3>2. SkipReserved(content, ReservedLo) \in Nat /\ SkipReserved(meta, ReservedLo + 1) \in Nat
      BY <3>1, WireAssumption DEF SkipReserved
    <3> HIDE DEF content, meta
    <3>3. QED
      BY <1>1, <3>2 DEF StreamRecord, Done, Writable, SameSettings
  <2>4. FixedIds \subseteq D /\ DOMAIN s.class_id = C /\ DOMAIN s.counts = D
    BY <1>1 DEF Sound, StreamRecord
  <2> HIDE DEF q, id, f
  <2>5. t \in StreamRecord(C, D \cup 0 .. id) /\ Done(q, t) /\ t.class_id = q.class_id
    <3>1. t \in StreamRecord(C, D \cup 0 .. id) /\ SameIds(q, t)
      BY <1>1, <1>2, <2>3, WriteProtoClassOK
    <3>2. Writable(q)
      BY <2>3 DEF Done
    <3>3. Done(q, t)
      BY <1>1, <1>2, <2>3, <2>4, <3>2, WriteProtoClassDone
    <3> QED
      BY <3>1, <3>3 DEF SameIds
  <2> HIDE DEF t
  <2>6. f = u
    BY <2>1, <2>2, <2>5 DEF Done, Writable
  <2> DEFINE g == [d \in DOMAIN t.class_id \cup {c} |-> IF d = c THEN id ELSE t.class_id[d]]
  <2>7. g = [d \in C \cup {c} |-> IF d = c THEN id ELSE s.class_id[d]]
    BY <2>3, <2>4, <2>5
  <2>8. u = [t EXCEPT !.class_id = g]
    OBVIOUS
  <2> HIDE DEF u, g
  <2>9. Done(s, f) /\ f.class_id = g /\ DOMAIN f.counts = D \cup 0 .. id
    BY <2>3, <2>5, <2>6, <2>8 DEF Done, Writable, SameSettings, StreamRecord
  <2>10. id \in DOMAIN f.counts /\ FixedIds \subseteq DOMAIN f.counts
    BY <1>2, <2>4, <2>9
  <2>11. IdsCounted(f)
    <3>1. \A d \in C : s.class_id[d] \in D
      BY <2>4 DEF Sound, IdsCounted
    <3>2. DOMAIN g = C \cup {c} /\ \A d \in C \cup {c} : g[d] = IF d = c THEN id ELSE s.class_id[d]
      BY <2>7
    <3>3. QED
      BY <2>9, <2>10, <3>1, <3>2 DEF IdsCounted
  <2>12. QED
    <3>1. Sound(f)
      BY <1>2, <2>9, <2>10, <2>11 DEF Sound, Done, Writable, SameSettings
    <3> QED
      BY <2>9, <2>10, <3>1 DEF id, f
<1>5. QED
  BY <1>3, <1>4

\* write_footer and close
LEMMA CloseStreamDone ==
  ASSUME NEW C, NEW D \in SUBSET Nat, NEW s \in StreamRecord(C, D), Writable(s), FixedIds \subseteq D
  PROVE  LET t == CloseStream(s)
         IN  /\ t.status = "ok" /\ t.closed /\ t.opened = s.opened
             /\ t.compression = s.compression /\ t.compression_type = s.compression_type
             /\ t.metadata_refers_forward = s.metadata_refers_forward
<1> DEFINE o == [s EXCEPT !.closed = TRUE]
           p == StopCompression(o)
           t == GetBytesWritten(p)
           f == Footer(t, BytesWritten(p))
           u == WriteMessage(t, StreamFooterId, f, TRUE)
           m == PutMark(u, "FooterSize", [size |-> FooterLen])
           n == PutMark(m, "END_MAGIC", NoBody)
<1>1. /\ CloseStream(s) = IF n.status # "ok" THEN n
                          ELSE [n EXCEPT !.coded = "null", !.raw = FALSE]
  BY DEF CloseStream, WriteFooter
<1>2. /\ o \in StreamRecord(C, D) /\ Writable(o) /\ o.closed /\ o.opened = s.opened
      /\ o.compression = s.compression /\ o.compression_type = s.compression_type
      /\ o.metadata_refers_forward = s.metadata_refers_forward
  BY DEF StreamRecord, Writable
<1> HIDE DEF o
<1>3. p \in StreamRecord(C, D) /\ Done(o, p)
  BY <1>2, StopCompressionOK, StopCompressionDone
<1> HIDE DEF p
<1>4. t \in StreamRecord(C, D) /\ Done(p, t)
  BY <1>3, GetBytesWrittenOK, GetBytesWrittenDone DEF Done
<1>n. n \in StreamRecord(C, D)
  BY <1>3, WriteFooterOK DEF WriteFooter
<1> HIDE DEF t, f
<1>5. Done(t, u)
  BY <1>4, WriteMessageDone DEF Done, FixedIds
<1> HIDE DEF u
<1>6. Done(u, m)
  BY <1>5, PutMarkDone DEF Done
<1> HIDE DEF m
<1>7. Done(m, n)
  BY <1>6, PutMarkDone DEF Done
<1> HIDE DEF n
<1>8. CloseStream(s) = [n EXCEPT !.coded = "null", !.raw = FALSE]
  BY <1>1, <1>7 DEF Done, Writable
<1>9. /\ n.status = "ok" /\ n.closed /\ n.opened = s.opened
      /\ n.compression = s.compression /\ n.compression_type = s.compression_type
      /\ n.metadata_refers_forward = s.metadata_refers_forward
  BY <1>2, <1>3, <1>4, <1>5, <1>6, <1>7 DEF Done, Writable, SameSettings
<1>10. QED
  BY <1>n, <1>8, <1>9 DEF StreamRecord

\* open, when the file can be opened.
LEMMA OpenStreamDone ==
  ASSUME NEW s, Sound(s), ~s.closed
  PROVE  LET o == OpenStream(s, TRUE)
         IN  Sound(o) /\ Writable(o) /\ o.opened /\ ~o.closed
<1> DEFINE a == [s EXCEPT !.opened = TRUE, !.compressed = FALSE]
           p == [a EXCEPT !.raw = TRUE, !.coded = "raw"]
           m == PutMark(p, "START_MAGIC", NoBody)
           body == [metadata_refers_forward |-> m.metadata_refers_forward]
           h == WriteHeader(p)
           o == OpenStream(s, TRUE)
<1>1. CASE s.opened
  BY <1>1 DEF OpenStream, Sound
<1>2. CASE ~s.opened
  <2>1. PICK C \in SUBSET Class, D \in SUBSET Nat : IdRange(D) /\ s \in StreamRecord(C, D)
    BY StreamOKIsRecord DEF Sound
  <2>2. FixedIds \subseteq D /\ DOMAIN s.counts = D /\ DOMAIN s.class_id = C
    BY <2>1 DEF Sound, StreamRecord
  <2>3. /\ p \in StreamRecord(C, D) /\ Writable(p) /\ p.opened /\ ~p.closed
        /\ p.compression = s.compression /\ p.compression_type = s.compression_type
    BY <2>1 DEF StreamRecord, Writable, Sound
  <2>4. o = IF h.compression THEN StartCompression(h) ELSE h
    BY <1>2 DEF OpenStream
  <2>5. o \in StreamRecord(C, D) /\ SameIds(s, o)
    BY <2>1, OpenStreamOK
  <2> HIDE DEF p
  <2>6. h \in StreamRecord(C, D)
    BY <2>3, WriteHeaderOK
  <2>7. m \in StreamRecord(C, D) /\ Done(p, m)
    BY <2>3, PutMarkDone, PutMarkOK, BodiesOK
  <2>8. h = WriteMessage(m, StreamHeaderId, [metadata_refers_forward |-> p.metadata_refers_forward], TRUE)
    BY DEF WriteHeader
  <2> HIDE DEF m, h
  <2>9. Done(m, h)
    BY <2>2, <2>7, <2>8, WriteMessageDone DEF FixedIds, Done
  <2>10. h.compression => h.compression_type # "UNCOMPRESSED"
    BY <2>3, <2>7, <2>9 DEF Sound, Done, SameSettings
  <2>11. Done(h, o)
    <3>1. CASE h.compression
      BY <2>2, <2>4, <2>6, <2>9, <2>10, <3>1, StartCompressionDone DEF Done
    <3>2. CASE ~h.compression
      BY <2>4, <2>9, <3>2 DEF Done, SameSettings
    <3> QED
      BY <3>1, <3>2
  <2> HIDE DEF o
  <2>12. StreamOK(o) /\ IdsInv(o)
    BY <2>1, <2>5, StreamOKIsRecord, SameIdsKeep DEF Sound
  <2>13. IdsCounted(o) /\ FixedIds \subseteq DOMAIN o.counts
    <3>1. DOMAIN o.counts = D /\ o.class_id = s.class_id
      BY <2>5 DEF StreamRecord, SameIds
    <3> QED
      BY <2>2, <3>1 DEF Sound, IdsCounted
  <2>14. /\ Writable(o) /\ o.opened /\ ~o.closed
         /\ o.compression = s.compression /\ o.compression_type = s.compression_type
    BY <2>3, <2>7, <2>9, <2>11 DEF Done, SameSettings
  <2> QED
    BY <2>12, <2>13, <2>14 DEF Sound, Writable, o
<1>3. QED
  BY <1>1, <1>2

\* A call that ended well, and what it leaves for the next one.
LEMMA DoneIsSound ==
  ASSUME NEW C \in SUBSET Class, NEW D \in SUBSET Nat, IdRange(D),
         NEW s \in StreamRecord(C, D), NEW t \in StreamRecord(C, D),
         Sound(s), SameIds(s, t), Done(s, t)
  PROVE  Sound(t)
<1>1. StreamOK(t) /\ IdsInv(t)
  BY StreamOKIsRecord, SameIdsKeep DEF Sound
<1>2. DOMAIN t.counts = DOMAIN s.counts /\ t.class_id = s.class_id
  BY DEF StreamRecord, SameIds
<1>3. QED
  BY <1>1, <1>2 DEF Sound, IdsCounted, Done, Writable, SameSettings

\* write and metadata
LEMMA MessageActionDone ==
  ASSUME OpenResults = {TRUE}, Sound(os), NEW c \in Class, Write(c) \/ Metadata(c)
  PROVE  Sound(os')
<1>1. PICK metadata \in BOOLEAN, serialized \in SerializeResults :
        /\ ~os.closed
        /\ LET o == OpenStream(os, TRUE)
               f == FindClassId(o, c, metadata)
               r == IF metadata THEN RecordMetadataPosition(f) ELSE f
           IN  os' = IF OpenFails(os, TRUE) \/ RoleClash(o, c, metadata) THEN o
                     ELSE WriteMessage(r, ClassIdFor(o, c, metadata), Content(c), serialized)
  <2>1. CASE Write(c)
    BY <2>1 DEF Write, Usable
  <2>2. CASE Metadata(c)
    BY <2>2 DEF Metadata, Usable
  <2>3. QED
    BY <2>1, <2>2
<1> DEFINE o == OpenStream(os, TRUE)
           f == FindClassId(o, c, metadata)
           id == ClassIdFor(o, c, metadata)
           r == IF metadata THEN RecordMetadataPosition(f) ELSE f
           body == Content(c)
           w == WriteMessage(r, id, body, serialized)
<1>2. Sound(o) /\ Writable(o)
  BY <1>1, OpenStreamDone
<1>3. CASE RoleClash(o, c, metadata)
  BY <1>1, <1>2, <1>3
<1>4. CASE ~RoleClash(o, c, metadata)
  <2>1. os' = w
    BY <1>1, <1>4 DEF OpenFails
  <2>2. serialized \in BOOLEAN /\ body \in Body
    BY OutputStreamAssumption, BodiesOK
  <2> HIDE DEF o, body
  <2>3. Sound(f) /\ Writable(f) /\ id \in DOMAIN f.counts
    BY <1>2, <1>4, FindClassIdDone DEF Done
  <2> HIDE DEF f, id
  <2>4. PICK C \in SUBSET Class, D \in SUBSET Nat : IdRange(D) /\ f \in StreamRecord(C, D)
    BY <2>3, StreamOKIsRecord DEF Sound
  <2>5. FixedIds \subseteq D /\ id \in D /\ id \in Nat
    BY <2>3, <2>4 DEF Sound, StreamRecord
  <2>6. r \in StreamRecord(C, D) /\ SameIds(f, r) /\ Done(f, r)
    <3>1. CASE metadata
      BY <2>3, <2>4, <2>5, <3>1, RecordMetadataPositionOK, RecordPositionsDone
    <3>2. CASE ~metadata
      BY <2>3, <2>4, <3>2 DEF SameIds, Done, SameSettings
    <3> QED
      BY <3>1, <3>2
  <2> HIDE DEF r
  <2>7. Sound(r)
    BY <2>3, <2>4, <2>6, DoneIsSound
  <2>8. w \in StreamRecord(C, D) /\ SameIds(r, w) /\ Done(r, w)
    BY <2>2, <2>5, <2>6, WriteMessageOK, WriteMessageDone DEF Done
  <2> HIDE DEF w
  <2>9. Sound(w)
    BY <2>4, <2>6, <2>7, <2>8, DoneIsSound
  <2>10. QED
    BY <2>1, <2>9
<1>5. QED
  BY <1>3, <1>4
-----------------------------------------------------------------------------
\* output_stream.cpp: no call of a stream made with a file name runs into an
\* assertion, a FATAL half way, a null pointer or an index beyond the counts, for
\* every sequence of calls, if the file can be opened and set_compression does not
\* ask an open stream to stop compressing.
THEOREM NothingAborts ==
    OpenResults = {TRUE} /\ "UNCOMPRESSED" \notin LateCompressions /\ FirstIds = {} /\ Spec
        => []NoAbort
<1> SUFFICES ASSUME OpenResults = {TRUE}, "UNCOMPRESSED" \notin LateCompressions, FirstIds = {}
             PROVE  Spec => []NoAbort
  OBVIOUS
<1>1. ASSUME Init PROVE Sound(os)
  <2>1. os = NewStream(TRUE, 0, 1)
    BY <1>1 DEF Init
  <2>2. StreamOK(os) /\ IdsInv(os)
    BY <1>1, InitOK, IdsInit DEF TypeOK
  <2>3. FixedIds \subseteq 0 .. ReservedLo + ReservedWidth - 1
    BY WireAssumption DEF FixedIds, StreamHeaderId, StreamFooterId, ProtoClassId,
                          StartCompressedSectionId, EndCompressedSectionId
  <2>4. QED
    BY <2>1, <2>2, <2>3 DEF Sound, NewStream, IdsCounted
<1>2. ASSUME Sound(os), [Next]_os PROVE Sound(os')
  <2>1. CASE UNCHANGED os
    BY <1>2, <2>1
  <2>2. ASSUME NEW c \in Class, Write(c) \/ Metadata(c) PROVE Sound(os')
    BY <1>2, <2>2, MessageActionDone
  <2>3. CASE Open
    BY <1>2, <2>3, OpenStreamDone DEF Open, Usable
  <2>4. StreamOK(os') /\ IdsInv(os')
    BY <1>2, TypeStep, IdsStep DEF Sound, TypeOK
  <2>5. PICK C \in SUBSET Class, D \in SUBSET Nat : IdRange(D) /\ os \in StreamRecord(C, D)
    BY <1>2, StreamOKIsRecord DEF Sound
  <2>6. FixedIds \subseteq D /\ DOMAIN os.counts = D
    BY <1>2, <2>5 DEF Sound, StreamRecord
  <2>7. CASE SetForwardMetadata
    BY <1>2, <2>4, <2>7 DEF SetForwardMetadata, Sound, IdsCounted, Writable, Usable
  <2>8. ASSUME NEW t \in Compressions, SetCompression(t) PROVE Sound(os')
    BY <1>2, <2>4, <2>5, <2>8 DEF SetCompression, Sound, IdsCounted, Writable, Usable, StreamRecord
  <2>9. CASE Close
    <3>1. /\ os' = CloseStream(os) /\ Writable(os)
      BY <1>2, <2>9 DEF Close, Usable, Sound
    <3>2. CloseStream(os) \in StreamRecord(C, D) /\ SameIds(os, CloseStream(os))
      BY <2>5, CloseStreamOK
    <3>3. DOMAIN os'.counts = D /\ os'.class_id = os.class_id
      BY <3>1, <3>2 DEF StreamRecord, SameIds
    <3>4. /\ os'.status = "ok" /\ os'.closed /\ os'.compression = os.compression
          /\ os'.compression_type = os.compression_type
      BY <2>5, <2>6, <3>1, CloseStreamDone
    <3> QED
      BY <1>2, <2>4, <2>6, <3>3, <3>4 DEF Sound, IdsCounted
  <2>10. QED
    BY <1>2, <2>1, <2>2, <2>3, <2>7, <2>8, <2>9 DEF Next
<1>3. Sound(os) => NoAbort
  BY DEF Sound, NoAbort
<1>4. Init => Sound(os)
  BY <1>1
<1>5. Sound(os) /\ [Next]_os => Sound(os)'
  BY <1>2
<1>6. QED
  BY <1>3, <1>4, <1>5, PTL DEF Spec
-----------------------------------------------------------------------------
(***************************************************************************)
(* What is proved of the file an output stream writes: a reader finds what *)
(* it needs before it needs it (DefinedBeforeUse), every offset recorded   *)
(* is a place where it can start (PositionsAddress), and the footer tells  *)
(* the truth about the file in front of it (FooterTruthful).  The          *)
(* conditions are those of NothingAborts, whose invariant this one         *)
(* strengthens.                                                            *)
(*                                                                         *)
(* The file only grows, and there are three kinds of growth: the ends and  *)
(* starts of compressed sections, which nothing else refers to; a          *)
(* ProtoClass, whose offset was recorded; a message of the client, whose   *)
(* offset was recorded if it is metadata.  One lemma per helper says by    *)
(* which cells the file grew, and one per kind of growth that the          *)
(* invariant is kept.                                                      *)
(***************************************************************************)

\* v begins with w.
Extends(w, v) == Len(w) <= Len(v) /\ \A i \in 1 .. Len(w) : v[i] = w[i]

\* The start or the end of a compressed section
IsSection(c) == c.kind = "message" /\ c.id \in CompressionIds

ProtoClassesAt(w) == {i \in DOMAIN w : IsProtoClass(w[i])}
MetadataAt(w) == {i \in DOMAIN w : IsMetadata(w[i])}

\* Addresses, with the set of the cells that are to be found, which are in the
\* order of the offsets, too.
Places(w, offsets, cells) ==
    /\ \A n \in DOMAIN offsets : Target(w, offsets[n]) \in cells /\ ~w[offsets[n] + 1].z
    /\ \A m, n \in DOMAIN offsets : m < n => Target(w, offsets[m]) <= offsets[n]
    /\ \A i \in cells : \E n \in DOMAIN offsets : Target(w, offsets[n]) = i

Placed(s) ==
    /\ Places(s.wire, s.protoclass_positions, ProtoClassesAt(s.wire))
    /\ s.dropped = << >> => Places(s.wire, s.metadata_positions, MetadataAt(s.wire))

\* The ProtoClasses of the file are those of the classes that have an id ...
ClassesDefined(s) ==
    LET w == s.wire IN
    /\ \A c \in DOMAIN s.class_id : \E j \in ProtoClassesAt(w) : w[j].body.full_name = c
    /\ \A j \in ProtoClassesAt(w) :
         /\ w[j].body.full_name \in DOMAIN s.class_id
         /\ w[j].body.class_id = s.class_id[w[j].body.full_name]
    /\ \A j, k \in ProtoClassesAt(w) :
         w[j].body.full_name = w[k].body.full_name => j = k

\* ... and hold the .proto files that _written_files remembers, each once, with all
\* that they import.
FilesDefined(s) ==
    LET w == s.wire IN
    /\ s.written_files = UNION {w[j].body.files : j \in ProtoClassesAt(w)}
    /\ \A j, k \in ProtoClassesAt(w) : j # k => w[j].body.files \cap w[k].body.files = {}
    /\ \A c \in DOMAIN s.class_id : c \in Class /\ FilesOf[c] \subseteq s.written_files
    /\ \A j \in ProtoClassesAt(w) : Buildable(w, j)

AllDecodable(w) == \A i \in DOMAIN w : IsUserMessage(w[i]) => Decodable(w, i)

\* Every message in the file was counted.
Counted(s) ==
    /\ \A i \in DOMAIN s.wire : IsMessage(s.wire[i]) => s.wire[i].id \in DOMAIN s.counts
    /\ s.dropped = << >> =>
         \A id \in DOMAIN s.counts : s.counts[id] = Cardinality(Occurrences(s.wire, id))

\* The file of an open stream: magic, header, and messages that are neither
\* header nor footer.
Layout(w) ==
    /\ Len(w) >= 2
    /\ w[1].kind = "START_MAGIC" /\ HasId(w[2], StreamHeaderId)
    /\ \A i \in 3 .. Len(w) : IsMessage(w[i]) /\ w[i].id \notin {StreamHeaderId, StreamFooterId}

\* The header says what the stream was told.
HeaderTells(s) == s.wire[2].body.metadata_refers_forward = s.metadata_refers_forward

\* What holds of the file between two messages.
FileRight(s) == Placed(s) /\ ClassesDefined(s) /\ FilesDefined(s) /\ AllDecodable(s.wire)

\* What FooterTruthful says of the file.
Truthful(w) ==
    LET f == Len(w) - 2
    IN /\ Len(w) > 4
       /\ w[1].kind = "START_MAGIC" /\ HasId(w[2], StreamHeaderId)
       /\ HasId(w[f], StreamFooterId)
       /\ w[f + 1].kind = "FooterSize" /\ w[f + 2].kind = "END_MAGIC"
       /\ \A i \in 3 .. f - 1 : IsMessage(w[i]) /\ w[i].id \notin {StreamHeaderId, StreamFooterId}
       /\ w[f].body.size = f - 1
       /\ {Target(w, w[f].body.metadata_offsets[n]) :
             n \in DOMAIN w[f].body.metadata_offsets} = MetadataAt(w)
       /\ {Target(w, w[f].body.protoclass_offsets[n]) :
             n \in DOMAIN w[f].body.protoclass_offsets} = ProtoClassesAt(w)
       /\ w[f].body.class_count =
            {[class_id |-> id, count |-> Cardinality(Occurrences(SubSeq(w, 1, f - 1), id))] :
               id \in {w[i].id : i \in 2 .. f - 1}}

\* The footer of a closed file holds the offsets the stream recorded.
FooterRight(s) ==
    s.dropped = << >> =>
        LET foot == s.wire[Len(s.wire) - 2].body IN
        /\ Truthful(s.wire)
        /\ foot.metadata_offsets = s.metadata_positions
        /\ foot.protoclass_offsets = s.protoclass_positions

Compressing(s) == s.compressed <=> s.coded = "compressed"

FileInv(s) ==
    /\ Sound(s) /\ FileRight(s) /\ Counted(s)
    /\ ~s.opened => s.wire = << >> /\ ~s.closed
    /\ s.opened => HeaderTells(s)
    /\ s.opened /\ ~s.closed => Layout(s.wire) /\ Compressing(s)
    /\ s.closed => FooterRight(s)
    /\ FALSE \notin SerializeResults => s.dropped = << >>
-----------------------------------------------------------------------------
(* A file that grows.                                                       *)

\* Only sections are started and ended.
Grows(w, v) == Extends(w, v) /\ \A i \in Len(w) + 1 .. Len(v) : IsSection(v[i])

\* The ids of the format are told apart.
LEMMA FixedIdsDiffer ==
  /\ StreamHeaderId \notin CompressionIds \cup {StreamFooterId, ProtoClassId}
  /\ StreamFooterId \notin CompressionIds \cup {ProtoClassId}
  /\ ProtoClassId \notin CompressionIds
  /\ \A id : id \notin ReservedLo .. ReservedLo + ReservedWidth - 1 => id \notin FixedIds
BY WireAssumption
   DEF StreamHeaderId, StreamFooterId, ProtoClassId, CompressionIds, FixedIds,
       StartCompressedSectionId, EndCompressedSectionId

\* A section is no message a reader looks for.
LEMMA SectionIsNothingElse ==
  ASSUME NEW c, IsSection(c)
  PROVE  ~IsProtoClass(c) /\ ~IsUserMessage(c) /\ ~IsMetadata(c)
BY FixedIdsDiffer DEF IsSection, IsProtoClass, IsUserMessage, IsMetadata, HasId, FixedIds,
                      CompressionIds

\* A sequence something was appended to is not empty.
LEMMA AppendNotEmpty ==
  ASSUME NEW S, NEW q \in Seq(S), NEW e \in S
  PROVE  Append(q, e) # << >>
<1>1. Len(Append(q, e)) # 0
  OBVIOUS
<1>2. Len(<< >>) = 0
  OBVIOUS
<1>3. QED
  BY <1>1, <1>2

\* Appending a cell.
LEMMA AppendExtends ==
  ASSUME NEW w \in Seq(Cell), NEW cell \in Cell
  PROVE  LET v == Append(w, cell) IN
         /\ v \in Seq(Cell) /\ Extends(w, v) /\ Len(v) = Len(w) + 1 /\ v[Len(v)] = cell
         /\ DOMAIN v = DOMAIN w \cup {Len(v)}
         /\ \A i \in Len(w) + 1 .. Len(v) : i = Len(v)
BY DEF Extends

\* Growth upon growth.
LEMMA ExtendsTransitive ==
  ASSUME NEW u \in Seq(Cell), NEW v \in Seq(Cell), NEW w \in Seq(Cell),
         Extends(u, v), Extends(v, w)
  PROVE  /\ Extends(u, w)
         /\ Grows(u, v) /\ Grows(v, w) => Grows(u, w)
BY SMTT(30) DEF Extends, Grows

\* A message that can be decoded stays so.
LEMMA DecodableKept ==
  ASSUME NEW w \in Seq(Cell), NEW v \in Seq(Cell), Extends(w, v),
         NEW i \in DOMAIN w, Decodable(w, i)
  PROVE  Decodable(v, i)
<1>1. i \in DOMAIN v /\ v[i] = w[i] /\ \A j \in 1 .. i - 1 : v[j] = w[j]
  BY DEF Extends
<1>2. ProtoClassesBefore(v, i) = ProtoClassesBefore(w, i)
  BY <1>1 DEF ProtoClassesBefore
<1>3. \A j \in ProtoClassesBefore(w, i) : v[j] = w[j]
  BY <1>1 DEF ProtoClassesBefore
<1>4. FilesBefore(v, i) = FilesBefore(w, i)
  BY <1>2, <1>3 DEF FilesBefore
<1>5. QED
  BY <1>1, <1>2, <1>3, <1>4 DEF Decodable

\* A file that could be built stays so.
LEMMA BuildableKept ==
  ASSUME NEW w \in Seq(Cell), NEW v \in Seq(Cell), Extends(w, v)
  PROVE  \A i \in DOMAIN w : Buildable(w, i) => Buildable(v, i)
<1> SUFFICES ASSUME NEW i \in DOMAIN w, Buildable(w, i)
             PROVE  Buildable(v, i)
  OBVIOUS
<1>1. i \in DOMAIN v /\ v[i] = w[i] /\ \A j \in 1 .. i : v[j] = w[j]
  BY DEF Extends
<1> DEFINE k == i + 1
<1>2. k - 1 = i
  OBVIOUS
<1> HIDE DEF k
<1>3. /\ ProtoClassesBefore(v, k) = ProtoClassesBefore(w, k)
      /\ \A j \in ProtoClassesBefore(w, k) : v[j] = w[j]
  BY <1>1, <1>2 DEF ProtoClassesBefore
<1>4. FilesBefore(v, i + 1) = FilesBefore(w, i + 1)
  BY <1>3 DEF FilesBefore, k
<1>5. QED
  BY <1>1, <1>4 DEF Buildable

\* What is found in a file that grew by sections is what was found before.
LEMMA GrowsKeeps ==
  ASSUME NEW w \in Seq(Cell), NEW v \in Seq(Cell), Grows(w, v)
  PROVE  /\ ProtoClassesAt(v) = ProtoClassesAt(w) /\ MetadataAt(v) = MetadataAt(w)
         /\ \A i \in DOMAIN w : i \in DOMAIN v /\ v[i] = w[i]
         /\ AllDecodable(w) => AllDecodable(v)
<1>1. /\ DOMAIN w \subseteq DOMAIN v /\ \A i \in DOMAIN w : v[i] = w[i]
      /\ \A i \in DOMAIN v : i \in DOMAIN w \/ IsSection(v[i])
  BY DEF Grows, Extends
<1>2. ProtoClassesAt(v) = ProtoClassesAt(w) /\ MetadataAt(v) = MetadataAt(w)
  BY <1>1, SectionIsNothingElse DEF ProtoClassesAt, MetadataAt
<1>3. ASSUME AllDecodable(w), NEW i \in DOMAIN v, IsUserMessage(v[i])
      PROVE  Decodable(v, i)
  <2>1. i \in DOMAIN w /\ IsUserMessage(w[i])
    BY <1>1, <1>3, SectionIsNothingElse
  <2>2. QED
    BY <1>3, <2>1, DecodableKept DEF AllDecodable, Grows
<1>4. QED
  BY <1>1, <1>2, <1>3 DEF AllDecodable

\* The target of an offset in a file is the same when the file grows.
LEMMA TargetKept ==
  ASSUME NEW w \in Seq(Cell), NEW v \in Seq(Cell), Extends(w, v),
         NEW p \in Nat, Target(w, p) \in DOMAIN w
  PROVE  /\ Target(v, p) = Target(w, p) /\ p < Len(w)
         /\ v[p + 1] = w[p + 1]
<1>1. p + 1 \in 1 .. Len(w)
  BY DEF Target
<1>2. QED
  BY <1>1 DEF Target, Extends

\* The offsets recorded before.
LEMMA PlacesGrow ==
  ASSUME NEW w \in Seq(Cell), NEW v \in Seq(Cell), Extends(w, v),
         NEW offsets \in Seq(Nat), NEW cells \in SUBSET DOMAIN w, Places(w, offsets, cells)
  PROVE  Places(v, offsets, cells)
<1>1. \A n \in DOMAIN offsets : /\ Target(v, offsets[n]) = Target(w, offsets[n])
                               /\ v[offsets[n] + 1] = w[offsets[n] + 1]
  BY TargetKept, SMTT(30) DEF Places
<1>2. QED
  BY <1>1 DEF Places

\* One more offset, for a cell that was appended since.
LEMMA PlacesAppend ==
  ASSUME NEW w \in Seq(Cell), NEW v \in Seq(Cell), Extends(w, v),
         NEW offsets \in Seq(Nat), NEW cells \in SUBSET DOMAIN w, Places(w, offsets, cells),
         NEW p \in Nat, p >= Len(w), ~v[p + 1].z
  PROVE  Places(v, Append(offsets, p), cells \cup {Target(v, p)})
<1> DEFINE more == Append(offsets, p)
           k == Len(offsets) + 1
<1>1. /\ more \in Seq(Nat) /\ DOMAIN more = DOMAIN offsets \cup {k}
      /\ k \notin DOMAIN offsets /\ \A n \in DOMAIN offsets : n < k /\ more[n] = offsets[n]
      /\ more[k] = p
  OBVIOUS
<1> HIDE DEF more
<1>2. Places(v, offsets, cells)
  BY PlacesGrow
<1>3. \A n \in DOMAIN offsets : Target(v, offsets[n]) <= p
  <2>1. \A n \in DOMAIN offsets : Target(v, offsets[n]) \in cells
    BY <1>2 DEF Places
  <2>2. QED
    BY <2>1
<1>4. ASSUME NEW n \in DOMAIN more
      PROVE  Target(v, more[n]) \in cells \cup {Target(v, p)} /\ ~v[more[n] + 1].z
  BY <1>1, <1>2 DEF Places
<1>5. ASSUME NEW m \in DOMAIN more, NEW n \in DOMAIN more, m < n
      PROVE  Target(v, more[m]) <= more[n]
  <2>1. DOMAIN offsets = 1 .. Len(offsets) /\ Len(offsets) \in Nat
    OBVIOUS
  <2>2. m \in DOMAIN offsets
    BY <1>1, <1>5, <2>1
  <2>3. CASE n = k
    BY <1>1, <1>3, <2>2, <2>3
  <2>4. CASE n \in DOMAIN offsets
    BY <1>1, <1>2, <1>5, <2>2, <2>4 DEF Places
  <2>5. QED
    BY <1>1, <2>3, <2>4
<1>6. ASSUME NEW i \in cells \cup {Target(v, p)}
      PROVE  \E n \in DOMAIN more : Target(v, more[n]) = i
  BY <1>1, <1>2 DEF Places
<1>7. QED
  BY <1>4, <1>5, <1>6 DEF Places, more
-----------------------------------------------------------------------------
(* The helpers of the stream, and what they do to the file.                 *)

\* What says where things are in the file
SameFile(s, t) ==
    /\ t.metadata_positions = s.metadata_positions
    /\ t.protoclass_positions = s.protoclass_positions
    /\ t.written_files = s.written_files /\ t.class_id = s.class_id

\* Sections were started and ended, nothing else.
Quiet(s, t) == /\ Grows(s.wire, t.wire) /\ SameFile(s, t) /\ t.dropped = s.dropped
               /\ Counted(s) => Counted(t)

\* The occurrences of an id are finitely many, also when there is one more.
LEMMA OccurrencesCount ==
  ASSUME NEW w \in Seq(Cell), NEW cell \in Cell, NEW id
  PROVE  /\ IsFiniteSet(Occurrences(w, id)) /\ Cardinality(Occurrences(w, id)) \in Nat
         /\ ~HasId(cell, id) => Occurrences(Append(w, cell), id) = Occurrences(w, id)
         /\ HasId(cell, id) => Cardinality(Occurrences(Append(w, cell), id))
                                 = Cardinality(Occurrences(w, id)) + 1
<1> DEFINE v == Append(w, cell)
<1>1. /\ DOMAIN v = DOMAIN w \cup {Len(w) + 1} /\ v[Len(w) + 1] = cell
      /\ \A i \in DOMAIN w : v[i] = w[i]
      /\ Len(w) + 1 \notin DOMAIN w
  OBVIOUS
<1>2. Occurrences(w, id) \in SUBSET (1 .. Len(w))
  BY DEF Occurrences
<1>3. IsFiniteSet(Occurrences(w, id))
  BY <1>2, FS_Interval, FS_Subset
<1>4. Occurrences(v, id) = Occurrences(w, id) \cup IF HasId(cell, id) THEN {Len(w) + 1} ELSE {}
  BY <1>1 DEF Occurrences
<1>5. Len(w) + 1 \notin Occurrences(w, id)
  BY <1>1 DEF Occurrences
<1>6. Cardinality(Occurrences(w, id) \cup {Len(w) + 1}) = Cardinality(Occurrences(w, id)) + 1
  BY <1>3, <1>5, FS_AddElement
<1>7. Cardinality(Occurrences(w, id)) \in Nat
  BY <1>3, FS_CardinalityType
<1>8. QED
  BY <1>3, <1>4, <1>6, <1>7

\* write(class_id, msg) counted and wrote the message, or only counted it.
Counts(s, t, id) ==
    /\ t.counts = [s.counts EXCEPT ![id] = @ + 1]
    /\ SameFile(s, t) /\ t.coded = s.coded /\ t.compressed = s.compressed
Wrote(s, t, id, body) ==
    /\ Counts(s, t, id) /\ t.dropped = s.dropped
    /\ t.wire = Append(s.wire, Message(id, body, s.coded = "compressed"))
Dropped(s, t, id) ==
    Counts(s, t, id) /\ t.dropped = Append(s.dropped, id) /\ t.wire = s.wire

\* write(class_id, msg) with an id that can be counted.
LEMMA WriteMessageFile ==
  ASSUME NEW C, NEW D, NEW s \in StreamRecord(C, D), Writable(s), NEW id \in D, NEW body
  PROVE  /\ Wrote(s, WriteMessage(s, id, body, TRUE), id, body)
         /\ Dropped(s, WriteMessage(s, id, body, FALSE), id)
<1> DEFINE new == [s.counts EXCEPT ![id] = @ + 1]
           wire == Append(s.wire, Message(id, body, s.coded = "compressed"))
           dropped == Append(s.dropped, id)
<1>1. id \in DOMAIN s.counts
  BY DEF StreamRecord
<1>2. WriteMessage(s, id, body, TRUE) = [s EXCEPT !.counts = new, !.wire = wire]
  BY <1>1 DEF WriteMessage, Writable, StreamRecord
<1>3. WriteMessage(s, id, body, FALSE) = [s EXCEPT !.counts = new, !.dropped = dropped]
  BY <1>1 DEF WriteMessage, Writable, StreamRecord
<1> HIDE DEF new, wire, dropped
<1>4. LET t == [s EXCEPT !.counts = new, !.wire = wire]
      IN  /\ t.counts = new /\ SameFile(s, t) /\ t.coded = s.coded
          /\ t.compressed = s.compressed /\ t.dropped = s.dropped /\ t.wire = wire
  BY DEF StreamRecord, SameFile
<1>5. LET t == [s EXCEPT !.counts = new, !.dropped = dropped]
      IN  /\ t.counts = new /\ SameFile(s, t) /\ t.coded = s.coded
          /\ t.compressed = s.compressed /\ t.dropped = dropped /\ t.wire = s.wire
  BY DEF StreamRecord, SameFile
<1>6. QED
  BY <1>2, <1>3, <1>4, <1>5 DEF Wrote, Dropped, Counts, new, wire, dropped

\* The counts agree with the file after a message that was written, and claim
\* nothing after one that was dropped.
LEMMA WroteCounted ==
  ASSUME NEW C, NEW D, NEW s \in StreamRecord(C, D), NEW t, Counted(s),
         NEW id \in D, id \in Nat, NEW body \in Body,
         Wrote(s, t, id, body) \/ Dropped(s, t, id)
  PROVE  Counted(t)
<1> DEFINE cell == Message(id, body, s.coded = "compressed")
<1>1. /\ s.counts \in [D -> Nat] /\ DOMAIN s.counts = D
      /\ s.wire \in Seq(Cell) /\ s.dropped \in Seq(Nat)
  BY DEF StreamRecord
<1>2. cell \in Cell /\ cell.id = id /\ \A i : HasId(cell, i) <=> i = id
  BY DEF Message, Cell, HasId
<1>3. \/ t.wire = Append(s.wire, cell) /\ t.dropped = s.dropped
      \/ t.wire = s.wire /\ t.dropped = Append(s.dropped, id)
  BY DEF Wrote, Dropped
<1>c. t.counts = [s.counts EXCEPT ![id] = @ + 1]
  BY DEF Wrote, Dropped, Counts
<1> HIDE DEF cell
<1>4. DOMAIN t.counts = D /\ \A i \in D : t.counts[i] = IF i = id THEN s.counts[i] + 1
                                                                 ELSE s.counts[i]
  BY <1>1, <1>c
<1>5. CASE t.wire = Append(s.wire, cell) /\ t.dropped = s.dropped
  <2>1. \A i \in DOMAIN t.wire : (i \in DOMAIN s.wire /\ t.wire[i] = s.wire[i]) \/ t.wire[i] = cell
    BY <1>1, <1>2, <1>5
  <2>2. \A i \in DOMAIN t.wire : IsMessage(t.wire[i]) => t.wire[i].id \in D
    BY <1>1, <1>2, <2>1 DEF Counted
  <2>3. ASSUME t.dropped = << >>, NEW i \in D
        PROVE  t.counts[i] = Cardinality(Occurrences(t.wire, i))
    <3>1. s.counts[i] = Cardinality(Occurrences(s.wire, i))
      BY <1>1, <1>5, <2>3 DEF Counted
    <3>2. /\ ~HasId(cell, i) => Occurrences(t.wire, i) = Occurrences(s.wire, i)
          /\ HasId(cell, i) => Cardinality(Occurrences(t.wire, i))
                                 = Cardinality(Occurrences(s.wire, i)) + 1
      BY <1>1, <1>2, <1>5, OccurrencesCount
    <3>3. QED
      BY <1>2, <1>4, <3>1, <3>2
  <2>4. QED
    BY <1>4, <2>2, <2>3 DEF Counted
<1>6. CASE t.wire = s.wire /\ t.dropped = Append(s.dropped, id)
  <2>1. t.dropped # << >>
    BY <1>1, <1>6, SMTT(30)
  <2>2. QED
    BY <1>1, <1>4, <1>6, <2>1 DEF Counted
<1>7. QED
  BY <1>3, <1>5, <1>6

\* The start or the end of a section.
LEMMA WriteSectionQuiet ==
  ASSUME NEW C, NEW D, NEW s \in StreamRecord(C, D), Writable(s), FixedIds \subseteq D,
         NEW id \in CompressionIds, NEW body \in Body
  PROVE  LET t == WriteMessage(s, id, body, TRUE)
         IN  Quiet(s, t) /\ Wrote(s, t, id, body)
<1> DEFINE t == WriteMessage(s, id, body, TRUE)
           cell == Message(id, body, s.coded = "compressed")
<1>1. id \in D /\ id \in Nat
  BY FixedIdsOK DEF FixedIds, CompressionIds
<1>2. Wrote(s, t, id, body)
  BY <1>1, WriteMessageFile
<1>3. Counted(s) => Counted(t)
  BY <1>1, <1>2, WroteCounted
<1>4. s.wire \in Seq(Cell)
  BY DEF StreamRecord
<1>5. cell \in Cell /\ IsSection(cell)
  BY <1>1 DEF Message, Cell, IsSection
<1> HIDE DEF t, cell
<1>6. Grows(s.wire, t.wire)
  BY <1>2, <1>4, <1>5, AppendExtends DEF Grows, Wrote, cell
<1>7. QED
  BY <1>2, <1>3, <1>6 DEF Quiet, Wrote, Counts, t

\* An object that differs only in _coded_out and in whether it compresses.
LEMMA QuietRecode ==
  ASSUME NEW s, NEW w, NEW t, Quiet(s, w), SameFile(w, t), t.dropped = w.dropped,
         t.wire = w.wire, t.counts = w.counts
  PROVE  Quiet(s, t)
BY DEF Quiet, SameFile, Counted

\* start_compression, of an open stream that does not compress.
LEMMA StartCompressionFile ==
  ASSUME NEW C, NEW D, NEW s \in StreamRecord(C, D), Writable(s), FixedIds \subseteq D,
         ~s.compressed, Compressing(s), s.compression_type # "UNCOMPRESSED"
  PROVE  LET t == StartCompression(s)
         IN  /\ Quiet(s, t) /\ Compressing(t) /\ t.compressed
             /\ Len(t.wire) = Len(s.wire) + 1
             /\ HasId(t.wire[Len(t.wire)], StartCompressedSectionId)
             /\ ~t.wire[Len(t.wire)].z
<1> DEFINE body == [compression |-> s.compression_type]
           w == WriteMessage(s, StartCompressedSectionId, body, TRUE)
           cell == Message(StartCompressedSectionId, body, s.coded = "compressed")
           t == StartCompression(s)
<1>1. body \in Body /\ StartCompressedSectionId \in CompressionIds
      /\ StartCompressedSectionId \in D /\ StartCompressedSectionId \in Nat
  <2>1. s.compression_type \in CompressionType
    BY DEF StreamRecord
  <2>2. QED
    BY <2>1, BodiesOK, FixedIdsOK DEF CompressionIds, FixedIds
<1>2. t = IF w.status # "ok" THEN w
          ELSE IF s.compression_type = "UNCOMPRESSED"
          THEN Stop([w EXCEPT !.coded = "null"], "Control should not reach here.")
          ELSE [w EXCEPT !.compressed = TRUE, !.coded = "compressed"]
  BY DEF StartCompression, Writable
<1>3. cell \in Cell /\ HasId(cell, StartCompressedSectionId) /\ ~cell.z
  BY <1>1 DEF Message, Cell, HasId, Compressing
<1> HIDE DEF body
<1>4. w \in StreamRecord(C, D) /\ Done(s, w) /\ Quiet(s, w)
      /\ Wrote(s, w, StartCompressedSectionId, body)
  <2>1. w \in StreamRecord(C, D)
    BY <1>1, WriteMessageOK
  <2>2. Done(s, w)
    BY <1>1, WriteMessageDone
  <2>3. QED
    BY <1>1, <2>1, <2>2, WriteSectionQuiet
<1> HIDE DEF w
<1>5. t = [w EXCEPT !.compressed = TRUE, !.coded = "compressed"]
  BY <1>2, <1>4 DEF Done, Writable
<1> HIDE DEF t
<1>6. /\ t.wire = w.wire /\ t.counts = w.counts /\ t.dropped = w.dropped /\ SameFile(w, t)
      /\ t.compressed /\ t.coded = "compressed"
  BY <1>4, <1>5 DEF StreamRecord, SameFile
<1>7. s.wire \in Seq(Cell)
  BY DEF StreamRecord
<1>8. Len(t.wire) = Len(s.wire) + 1 /\ t.wire[Len(t.wire)] = cell
  BY <1>3, <1>4, <1>6, <1>7, AppendExtends DEF Wrote
<1>9. QED
  BY <1>3, <1>4, <1>6, <1>8, QuietRecode DEF Compressing, t

\* stop_compression, of an open stream.
LEMMA StopCompressionFile ==
  ASSUME NEW C, NEW D, NEW s \in StreamRecord(C, D), Writable(s), FixedIds \subseteq D,
         Compressing(s)
  PROVE  LET t == StopCompression(s)
         IN  /\ Quiet(s, t) /\ t.coded = "raw" /\ ~t.compressed
             /\ ~s.compressed => t = s
<1> DEFINE w == WriteMessage(s, EndCompressedSectionId, NoBody, TRUE)
           t == StopCompression(s)
<1>1. CASE ~s.compressed
  <2>1. t = s /\ s.coded = "raw"
    BY <1>1 DEF StopCompression, Writable, StreamRecord, Compressing
  <2>2. s.wire \in Seq(Cell)
    BY DEF StreamRecord
  <2>3. Quiet(s, s)
    BY <2>2 DEF Quiet, Grows, Extends, SameFile
  <2>4. QED
    BY <1>1, <2>1, <2>3
<1>2. CASE s.compressed
  <2>1. NoBody \in Body /\ EndCompressedSectionId \in CompressionIds
        /\ EndCompressedSectionId \in D /\ EndCompressedSectionId \in Nat
    BY BodiesOK, FixedIdsOK DEF CompressionIds, FixedIds
  <2>2. t = [w EXCEPT !.compressed = FALSE, !.coded = "raw"]
    BY <1>2 DEF StopCompression, Writable
  <2>3. w \in StreamRecord(C, D) /\ Quiet(s, w)
    BY <2>1, WriteMessageOK, WriteSectionQuiet
  <2> HIDE DEF w, t
  <2>4. /\ t.wire = w.wire /\ t.counts = w.counts /\ t.dropped = w.dropped /\ SameFile(w, t)
        /\ ~t.compressed /\ t.coded = "raw"
    BY <2>2, <2>3 DEF StreamRecord, SameFile
  <2>5. QED
    BY <1>2, <2>3, <2>4, QuietRecode DEF t
<1>3. QED
  BY <1>1, <1>2

\* The next cell written is the one a reader finds at the offset p.
PointsNext(s, p) ==
    \/ p = Len(s.wire) /\ s.coded = "raw"
    \/ /\ p + 1 = Len(s.wire)
       /\ HasId(s.wire[p + 1], StartCompressedSectionId) /\ ~s.wire[p + 1].z

\* Quietly and quietly.
LEMMA QuietTransitive ==
  ASSUME NEW C, NEW D, NEW s \in StreamRecord(C, D), NEW t \in StreamRecord(C, D),
         NEW u \in StreamRecord(C, D), Quiet(s, t), Quiet(t, u)
  PROVE  Quiet(s, u)
<1>1. s.wire \in Seq(Cell) /\ t.wire \in Seq(Cell) /\ u.wire \in Seq(Cell)
  BY DEF StreamRecord
<1>2. Grows(s.wire, u.wire)
  BY <1>1, ExtendsTransitive DEF Quiet, Grows
<1>3. QED
  BY <1>2 DEF Quiet, SameFile

\* get_bytes_written: what is written next can be found at the offset it returns.
LEMMA GetBytesWrittenFile ==
  ASSUME NEW C, NEW D, NEW s \in StreamRecord(C, D), Writable(s), FixedIds \subseteq D,
         Compressing(s)
  PROVE  LET t == GetBytesWritten(s)
             p == BytesWritten(s)
         IN  /\ Quiet(s, t) /\ Compressing(t) /\ p \in Nat /\ p >= Len(s.wire)
             /\ PointsNext(t, p)
             /\ ~s.compressed => t.wire = s.wire /\ p = Len(s.wire) /\ t.coded = "raw"
<1> DEFINE e == StopCompression(s)
           r == [e EXCEPT !.coded = "raw"]
           t == GetBytesWritten(s)
           p == BytesWritten(s)
<1>1. /\ e \in StreamRecord(C, D) /\ Done(s, e)
      /\ Quiet(s, e) /\ e.coded = "raw" /\ ~e.compressed /\ (~s.compressed => e = s)
  BY StopCompressionOK, StopCompressionDone, StopCompressionFile
<1>2. p = Len(e.wire)
  BY DEF BytesWritten, ByteCount
<1>3. t = IF s.compressed THEN StartCompression(r) ELSE r
  BY <1>1 DEF GetBytesWritten, Done, Writable
<1>p. p \in Nat /\ p >= Len(s.wire)
  <2>1. e.wire \in Seq(Cell) /\ s.wire \in Seq(Cell)
    BY <1>1 DEF StreamRecord
  <2>2. QED
    BY <1>1, <1>2, <2>1 DEF Quiet, Grows, Extends
<1> HIDE DEF e, p
<1>4. r = e
  BY <1>1 DEF StreamRecord
<1>5. CASE ~s.compressed
  BY <1>1, <1>2, <1>3, <1>4, <1>5, <1>p DEF Compressing, PointsNext, t, p
<1>6. CASE s.compressed
  <2>1. e.compression_type # "UNCOMPRESSED" /\ Writable(e) /\ Compressing(e)
    BY <1>1, <1>6 DEF Done, Writable, SameSettings, Compressing
  <2>2. t = StartCompression(e) /\ t \in StreamRecord(C, D)
    BY <1>3, <1>4, <1>6, GetBytesWrittenOK
  <2> HIDE DEF t
  <2>3. /\ Quiet(e, t) /\ Compressing(t) /\ Len(t.wire) = Len(e.wire) + 1
        /\ HasId(t.wire[Len(t.wire)], StartCompressedSectionId) /\ ~t.wire[Len(t.wire)].z
    BY <1>1, <2>1, <2>2, StartCompressionFile
  <2>4. Quiet(s, t)
    BY <1>1, <2>2, <2>3, QuietTransitive
  <2>5. PointsNext(t, p)
    BY <1>2, <1>p, <2>3 DEF PointsNext
  <2>6. QED
    BY <1>6, <1>p, <2>3, <2>4, <2>5 DEF t, p
<1>7. QED
  BY <1>5, <1>6
-----------------------------------------------------------------------------
(* Growth keeps what holds of the file.                                     *)

\* Sections keep it.
LEMMA QuietKeeps ==
  ASSUME NEW C, NEW D, NEW s \in StreamRecord(C, D), NEW t \in StreamRecord(C, D),
         Quiet(s, t), FileRight(s)
  PROVE  FileRight(t)
<1>1. /\ s.wire \in Seq(Cell) /\ t.wire \in Seq(Cell)
      /\ s.metadata_positions \in Seq(Nat) /\ s.protoclass_positions \in Seq(Nat)
  BY DEF StreamRecord
<1>2. /\ ProtoClassesAt(t.wire) = ProtoClassesAt(s.wire)
      /\ MetadataAt(t.wire) = MetadataAt(s.wire)
      /\ \A i \in DOMAIN s.wire : t.wire[i] = s.wire[i]
      /\ AllDecodable(t.wire)
  BY <1>1, GrowsKeeps DEF Quiet, FileRight
<1>3. ProtoClassesAt(s.wire) \in SUBSET DOMAIN s.wire /\ MetadataAt(s.wire) \in SUBSET DOMAIN s.wire
  BY DEF ProtoClassesAt, MetadataAt
<1>4. Placed(t)
  <2>1. Extends(s.wire, t.wire)
    BY DEF Quiet, Grows
  <2>2. Places(t.wire, s.protoclass_positions, ProtoClassesAt(s.wire))
    BY <1>1, <1>3, <2>1, PlacesGrow DEF FileRight, Placed
  <2>3. s.dropped = << >> => Places(t.wire, s.metadata_positions, MetadataAt(s.wire))
    BY <1>1, <1>3, <2>1, PlacesGrow DEF FileRight, Placed
  <2>4. QED
    BY <1>2, <2>2, <2>3 DEF Placed, Quiet, SameFile
<1>5. ClassesDefined(t)
  BY <1>2, <1>3 DEF FileRight, ClassesDefined, Quiet, SameFile
<1>6. FilesDefined(t)
  <2>1. UNION {t.wire[j].body.files : j \in ProtoClassesAt(t.wire)}
          = UNION {s.wire[j].body.files : j \in ProtoClassesAt(s.wire)}
    BY <1>2, <1>3
  <2>2. \A j \in ProtoClassesAt(s.wire) : t.wire[j] = s.wire[j]
    BY <1>2, <1>3
  <2>3. \A j \in ProtoClassesAt(s.wire) : Buildable(t.wire, j)
    BY <1>1, <1>3, BuildableKept DEF FileRight, FilesDefined, Quiet, Grows
  <2>4. QED
    BY <1>2, <2>1, <2>2, <2>3 DEF FileRight, FilesDefined, Quiet, SameFile
<1>7. QED
  BY <1>2, <1>4, <1>5, <1>6 DEF FileRight

\* The file of an open stream goes on as it began.
LEMMA LayoutKept ==
  ASSUME NEW w \in Seq(Cell), NEW v \in Seq(Cell), Layout(w), Extends(w, v),
         \A i \in Len(w) + 1 .. Len(v) :
             IsMessage(v[i]) /\ v[i].id \notin {StreamHeaderId, StreamFooterId}
  PROVE  Layout(v)
BY SMTT(30) DEF Layout, Extends

\* Sections, and sections with another message behind them.
LEMMA LayoutGrows ==
  ASSUME NEW w \in Seq(Cell), NEW v \in Seq(Cell), Layout(w), Grows(w, v)
  PROVE  /\ Layout(v)
         /\ \A cell \in Cell : IsMessage(cell) /\ cell.id \notin {StreamHeaderId, StreamFooterId}
              => Layout(Append(v, cell))
<1>1. \A i \in Len(w) + 1 .. Len(v) :
         IsMessage(v[i]) /\ v[i].id \notin {StreamHeaderId, StreamFooterId}
  BY FixedIdsDiffer DEF Grows, IsSection, IsMessage
<1>2. Layout(v)
  BY <1>1, LayoutKept DEF Grows
<1>3. ASSUME NEW cell \in Cell, IsMessage(cell), cell.id \notin {StreamHeaderId, StreamFooterId}
      PROVE  Layout(Append(v, cell))
  <2> DEFINE x == Append(v, cell)
  <2>1. /\ x \in Seq(Cell) /\ Extends(v, x) /\ Len(x) = Len(v) + 1 /\ x[Len(x)] = cell
        /\ \A i \in Len(v) + 1 .. Len(x) : i = Len(x)
    BY AppendExtends
  <2> HIDE DEF x
  <2>2. \A i \in Len(v) + 1 .. Len(x) :
           IsMessage(x[i]) /\ x[i].id \notin {StreamHeaderId, StreamFooterId}
    BY <1>3, <2>1
  <2>3. Layout(x)
    BY <1>2, <2>1, <2>2, LayoutKept
  <2>4. QED
    BY <2>3 DEF x
<1>4. QED
  BY <1>2, <1>3

\* A cell is appended behind sections; what the reader finds, then.
LEMMA GrowsAndAppends ==
  ASSUME NEW w \in Seq(Cell), NEW u \in Seq(Cell), Grows(w, u), NEW cell \in Cell
  PROVE  LET v == Append(u, cell)
             k == Len(v)
         IN  /\ v \in Seq(Cell) /\ Extends(w, v) /\ k \in DOMAIN v /\ v[k] = cell
             /\ k \notin DOMAIN w /\ \A i \in DOMAIN w : i \in DOMAIN v /\ v[i] = w[i]
             /\ ProtoClassesAt(v) = ProtoClassesAt(w) \cup IF IsProtoClass(cell) THEN {k} ELSE {}
             /\ MetadataAt(v) = MetadataAt(w) \cup IF IsMetadata(cell) THEN {k} ELSE {}
             /\ ProtoClassesBefore(v, k) = ProtoClassesAt(w)
             /\ AllDecodable(w) /\ (IsUserMessage(cell) => Decodable(v, k)) => AllDecodable(v)
<1> DEFINE v == Append(u, cell)
           k == Len(v)
<1>1. /\ v \in Seq(Cell) /\ Extends(u, v) /\ k = Len(u) + 1 /\ v[k] = cell
      /\ DOMAIN v = DOMAIN u \cup {k}
  BY AppendExtends
<1> HIDE DEF v
<1>2. /\ ProtoClassesAt(u) = ProtoClassesAt(w) /\ MetadataAt(u) = MetadataAt(w)
      /\ AllDecodable(w) => AllDecodable(u)
  BY GrowsKeeps
<1>3. Extends(w, v) /\ k \notin DOMAIN w /\ k \notin DOMAIN u /\ k \in DOMAIN v
  BY <1>1 DEF Grows, Extends
<1>4. \A i \in DOMAIN u : i \in DOMAIN v /\ v[i] = u[i] /\ i < k
  BY <1>1 DEF Extends
<1>5. /\ ProtoClassesAt(v) = ProtoClassesAt(u) \cup IF IsProtoClass(cell) THEN {k} ELSE {}
      /\ MetadataAt(v) = MetadataAt(u) \cup IF IsMetadata(cell) THEN {k} ELSE {}
  BY <1>1, <1>3, <1>4 DEF ProtoClassesAt, MetadataAt
<1>6. ProtoClassesBefore(v, k) = ProtoClassesAt(u)
  <2>1. 1 .. k - 1 = DOMAIN u
    BY <1>1
  <2>2. QED
    BY <1>4, <2>1 DEF ProtoClassesBefore, ProtoClassesAt, IsProtoClass
<1>7. ASSUME AllDecodable(w), IsUserMessage(cell) => Decodable(v, k),
             NEW i \in DOMAIN v, IsUserMessage(v[i])
      PROVE  Decodable(v, i)
  <2>1. CASE i = k
    BY <1>1, <1>7, <2>1
  <2>2. CASE i \in DOMAIN u
    BY <1>1, <1>2, <1>4, <1>7, <2>2, DecodableKept DEF AllDecodable
  <2>3. QED
    BY <1>1, <2>1, <2>2
<1>8. \A i \in DOMAIN w : i \in DOMAIN v /\ v[i] = w[i]
  BY <1>3, <1>1 DEF Extends
<1>9. QED
  BY <1>1, <1>2, <1>3, <1>5, <1>6, <1>7, <1>8 DEF AllDecodable, v

\* A ProtoClass was written, and its offset recorded; cell is what was written.
Announced(s, t, cell) ==
    /\ t.metadata_positions = s.metadata_positions /\ t.dropped = s.dropped
    /\ \E u \in Seq(Cell), p \in Nat :
         /\ Grows(s.wire, u) /\ t.wire = Append(u, cell)
         /\ p >= Len(s.wire) /\ Target(t.wire, p) = Len(t.wire) /\ ~t.wire[p + 1].z
         /\ t.protoclass_positions = Append(s.protoclass_positions, p)

\* A class that has just got its id, with its ProtoClass.
LEMMA AnnouncedKeeps ==
  ASSUME NEW C, NEW D, NEW s \in StreamRecord(C, D), FileRight(s),
         NEW t, NEW cell \in Cell, Announced(s, t, cell), NEW c \in Class, c \notin C, IsProtoClass(cell),
         cell.body.full_name = c,
         cell.body.files = FilesOf[c] \ s.written_files,
         t.written_files = s.written_files \cup FilesOf[c],
         DOMAIN t.class_id = C \cup {c}, t.class_id[c] = cell.body.class_id,
         \A d \in C : t.class_id[d] = s.class_id[d]
  PROVE  /\ FileRight(t)
         /\ Layout(s.wire) => Layout(t.wire)
<1> DEFINE w == s.wire
           v == t.wire
           k == Len(v)
<1>1. PICK u \in Seq(Cell), p \in Nat :
         /\ Grows(w, u) /\ v = Append(u, cell)
         /\ p >= Len(w) /\ Target(v, p) = k /\ ~v[p + 1].z
         /\ t.protoclass_positions = Append(s.protoclass_positions, p)
  BY DEF Announced
<1>2. /\ w \in Seq(Cell) /\ DOMAIN s.class_id = C
      /\ s.metadata_positions \in Seq(Nat) /\ s.protoclass_positions \in Seq(Nat)
  BY DEF StreamRecord
<1>3. ~IsUserMessage(cell) /\ ~IsMetadata(cell) /\ cell.id = ProtoClassId /\ IsMessage(cell)
  BY DEF IsProtoClass, IsUserMessage, IsMetadata, HasId, FixedIds, IsMessage
<1>4. /\ v \in Seq(Cell) /\ Extends(w, v) /\ k \in DOMAIN v /\ v[k] = cell
      /\ k \notin DOMAIN w /\ \A i \in DOMAIN w : i \in DOMAIN v /\ v[i] = w[i]
      /\ ProtoClassesAt(v) = ProtoClassesAt(w) \cup {k} /\ MetadataAt(v) = MetadataAt(w)
      /\ AllDecodable(v)
  <2> DEFINE x == Append(u, cell)
  <2>1. /\ x \in Seq(Cell) /\ Extends(w, x) /\ Len(x) \in DOMAIN x /\ x[Len(x)] = cell
        /\ Len(x) \notin DOMAIN w /\ \A i \in DOMAIN w : i \in DOMAIN x /\ x[i] = w[i]
        /\ ProtoClassesAt(x) = ProtoClassesAt(w) \cup IF IsProtoClass(cell) THEN {Len(x)} ELSE {}
        /\ MetadataAt(x) = MetadataAt(w) \cup IF IsMetadata(cell) THEN {Len(x)} ELSE {}
        /\ AllDecodable(w) /\ (IsUserMessage(cell) => Decodable(x, Len(x))) => AllDecodable(x)
    BY <1>1, <1>2, GrowsAndAppends
  <2>2. AllDecodable(w) /\ x = v
    BY <1>1 DEF FileRight
  <2> HIDE DEF x, w, v
  <2>3. QED
    BY <1>3, <2>1, <2>2
<1>5. Layout(w) => Layout(v)
  BY <1>1, <1>2, <1>3, LayoutGrows, FixedIdsDiffer, SMTT(30)
<1>6. ProtoClassesAt(w) \in SUBSET DOMAIN w /\ MetadataAt(w) \in SUBSET DOMAIN w
  BY DEF ProtoClassesAt, MetadataAt
<1>7. Placed(t)
  <2>1. Places(v, t.protoclass_positions, ProtoClassesAt(v))
    <3>1. Places(w, s.protoclass_positions, ProtoClassesAt(w))
      BY DEF FileRight, Placed
    <3>2. Places(v, Append(s.protoclass_positions, p), ProtoClassesAt(w) \cup {Target(v, p)})
      BY <1>1, <1>2, <1>4, <1>6, <3>1, PlacesAppend
    <3>3. QED
      BY <1>1, <1>4, <3>2
  <2>2. s.dropped = << >> => Places(v, s.metadata_positions, MetadataAt(v))
    BY <1>2, <1>4, <1>6, PlacesGrow DEF FileRight, Placed
  <2>3. QED
    BY <2>1, <2>2 DEF Placed, Announced
<1> HIDE DEF w, v, k
<1>8. \A j \in ProtoClassesAt(v) : \/ j \in ProtoClassesAt(w) /\ v[j] = w[j] /\ j # k
                                   \/ j = k /\ v[j] = cell
  BY <1>4, <1>6
<1>9. ClassesDefined(t)
  <2>1. /\ \A d \in C : \E j \in ProtoClassesAt(w) : w[j].body.full_name = d
        /\ \A j \in ProtoClassesAt(w) : /\ w[j].body.full_name \in C
                                        /\ w[j].body.class_id = s.class_id[w[j].body.full_name]
        /\ \A i, j \in ProtoClassesAt(w) : w[i].body.full_name = w[j].body.full_name => i = j
    BY <1>2 DEF FileRight, ClassesDefined, w
  <2>2. \A d \in C \cup {c} : \E j \in ProtoClassesAt(v) : v[j].body.full_name = d
    BY <1>4, <1>6, <2>1
  <2>3. \A j \in ProtoClassesAt(v) : /\ v[j].body.full_name \in C \cup {c}
                                     /\ v[j].body.class_id = t.class_id[v[j].body.full_name]
    BY <1>8, <2>1
  <2>4. \A i, j \in ProtoClassesAt(v) : v[i].body.full_name = v[j].body.full_name => i = j
    BY <1>8, <2>1
  <2>5. QED
    BY <2>2, <2>3, <2>4 DEF ClassesDefined, v
<1>10. FilesDefined(t)
  <2>1. /\ s.written_files = UNION {w[j].body.files : j \in ProtoClassesAt(w)}
        /\ \A i, j \in ProtoClassesAt(w) : i # j => w[i].body.files \cap w[j].body.files = {}
        /\ \A d \in C : d \in Class /\ FilesOf[d] \subseteq s.written_files
    BY <1>2 DEF FileRight, FilesDefined, w
  <2>2. \A j \in ProtoClassesAt(w) : w[j].body.files \subseteq s.written_files
    BY <2>1
  <2>3. t.written_files = UNION {v[j].body.files : j \in ProtoClassesAt(v)}
    <3>1. ASSUME NEW f PROVE f \in t.written_files <=> \E j \in ProtoClassesAt(v) : f \in v[j].body.files
      <4>1. f \in s.written_files <=> \E j \in ProtoClassesAt(w) : f \in w[j].body.files
        BY <2>1
      <4>2. f \in t.written_files <=> f \in s.written_files \/ f \in cell.body.files
        OBVIOUS
      <4>3. \A j \in ProtoClassesAt(w) : j \in ProtoClassesAt(v) /\ v[j] = w[j]
        BY <1>4, <1>6
      <4>4. k \in ProtoClassesAt(v) /\ v[k] = cell
        BY <1>4
      <4>5. QED
        BY <1>8, <4>1, <4>2, <4>3, <4>4
    <3>2. QED
      BY <3>1
  <2>4. \A i, j \in ProtoClassesAt(v) : i # j => v[i].body.files \cap v[j].body.files = {}
    <3>1. \A j \in ProtoClassesAt(w) : w[j].body.files \cap cell.body.files = {}
      BY <2>2
    <3>2. QED
      BY <1>8, <2>1, <3>1
  <2>5. \A d \in C \cup {c} : d \in Class /\ FilesOf[d] \subseteq t.written_files
    BY <2>1
  <2>6. \A j \in ProtoClassesAt(w) : Buildable(v, j)
    BY <1>2, <1>4, <1>6, BuildableKept DEF FileRight, FilesDefined, w
  <2>7. Buildable(v, k)
    <3>1. ASSUME NEW f \in cell.body.files, f \notin ExtensionFiles[c]
          PROVE  Imports(f) \subseteq FilesOf[c]
      <4>1. FileOf[c] \in File
        BY ProtoFilesAssumption
      <4>2. f \in FileDescriptors(FileOf[c]) /\ Closed(FileDescriptors(FileOf[c]))
        BY <3>1, <4>1, FilesAreFiles DEF FilesOf
      <4>3. QED
        BY <4>2 DEF FilesOf, Closed
    <3>2. FilesBefore(v, k + 1) = t.written_files
      <4>1. k \in Nat /\ DOMAIN v = 1 .. k /\ (k + 1) - 1 = k
        BY <1>4 DEF k
      <4>2. ProtoClassesBefore(v, k + 1) = ProtoClassesAt(v)
        BY <4>1 DEF ProtoClassesBefore, ProtoClassesAt, IsProtoClass
      <4>3. QED
        BY <2>3, <4>2 DEF FilesBefore
    <3>3. QED
      BY <1>4, <3>1, <3>2 DEF Buildable
  <2>8. QED
    BY <1>4, <2>3, <2>4, <2>5, <2>6, <2>7 DEF FilesDefined, v
<1>11. QED
  BY <1>4, <1>5, <1>7, <1>9, <1>10 DEF FileRight, w, v

\* A message of the client was written, with its offset if it is metadata, or it
\* was dropped.
Told(s, t, cell, metadata) ==
    /\ t.protoclass_positions = s.protoclass_positions
    /\ t.written_files = s.written_files /\ t.class_id = s.class_id
    /\ \E u \in Seq(Cell) :
         /\ Grows(s.wire, u)
         /\ \/ t.wire = u /\ t.dropped # << >>
            \/ /\ t.wire = Append(u, cell) /\ t.dropped = s.dropped
               /\ ~metadata => t.metadata_positions = s.metadata_positions
               /\ metadata => \E p \in Nat :
                    /\ p >= Len(s.wire) /\ Target(t.wire, p) = Len(t.wire) /\ ~t.wire[p + 1].z
                    /\ t.metadata_positions = Append(s.metadata_positions, p)

\* The file was only added to.
LEMMA ToldExtends ==
  ASSUME NEW s, s.wire \in Seq(Cell), NEW t, NEW cell \in Cell, NEW metadata,
         Told(s, t, cell, metadata)
  PROVE  Extends(s.wire, t.wire)
<1>1. PICK u \in Seq(Cell) : Grows(s.wire, u) /\ (t.wire = u \/ t.wire = Append(u, cell))
  BY DEF Told
<1>2. Extends(s.wire, u)
  BY <1>1 DEF Grows, Extends
<1>3. CASE t.wire = u
  BY <1>2, <1>3
<1>4. CASE t.wire = Append(u, cell)
  <2>1. s.wire \in Seq(Cell) /\ u \in Seq(Cell)
    OBVIOUS
  <2>2. Extends(s.wire, Append(u, cell))
    BY <1>2, <2>1 DEF Extends
  <2>3. QED
    BY <1>4, <2>2
<1>5. QED
  BY <1>1, <1>3, <1>4

\* A message of a class that has an id can be decoded where it is written.
LEMMA LastIsDecodable ==
  ASSUME NEW C, NEW D, NEW s \in StreamRecord(C, D), FileRight(s), IdsDistinct(s),
         NEW v, NEW k, ProtoClassesBefore(v, k) = ProtoClassesAt(s.wire),
         \A i \in DOMAIN s.wire : v[i] = s.wire[i],
         NEW c \in C, v[k].body.class = c, v[k].body.whole, v[k].id = s.class_id[c]
  PROVE  Decodable(v, k)
<1> DEFINE w == s.wire
           P == ProtoClassesAt(w)
<1>1. /\ \A d \in C : \E j \in P : w[j].body.full_name = d
      /\ \A j \in P : /\ w[j].body.full_name \in C
                      /\ w[j].body.class_id = s.class_id[w[j].body.full_name]
      /\ \A i, j \in P : w[i].body.full_name = w[j].body.full_name => i = j
      /\ s.written_files = UNION {w[j].body.files : j \in P}
      /\ \A d \in C : d \in Class /\ FilesOf[d] \subseteq s.written_files
      /\ \A d, e \in C : s.class_id[d] = s.class_id[e] => d = e
  BY SMTT(30) DEF StreamRecord, FileRight, ClassesDefined, FilesDefined, IdsDistinct
<1>2. P \subseteq DOMAIN w /\ \A j \in P : v[j] = w[j]
  BY DEF ProtoClassesAt
<1> HIDE DEF w, P
<1>3. \E j \in P : v[j].body.class_id = v[k].id /\ v[j].body.full_name = v[k].body.class
  BY <1>1, <1>2
<1>4. \A i, j \in P : v[i].body.class_id = v[j].body.class_id => i = j
  BY <1>1, <1>2
<1>5. FilesOf[c] \subseteq FilesBefore(v, k)
  <2>1. UNION {v[j].body.files : j \in P} = UNION {w[j].body.files : j \in P}
    BY <1>2
  <2>2. QED
    BY <1>1, <2>1 DEF FilesBefore, P, w
<1>6. /\ ExtensionFiles[c] \subseteq FilesBefore(v, k)
      /\ \E S \in SUBSET FilesBefore(v, k) : FileOf[c] \in S /\ Closed(S)
  <2>1. c \in Class
    BY <1>1
  <2>2. FileOf[c] \in File
    BY <2>1, ProtoFilesAssumption
  <2>3. /\ FilesOf[c] = FileDescriptors(FileOf[c]) \cup ExtensionFiles[c]
    BY <2>1 DEF FilesOf
  <2>4. /\ FileOf[c] \in FileDescriptors(FileOf[c]) /\ Closed(FileDescriptors(FileOf[c]))
    BY <2>2, FilesAreFiles
  <2>5. QED
    BY <1>5, <2>3, <2>4
<1>7. QED
  BY <1>3, <1>4, <1>6 DEF Decodable, P, w

\* A message of the client.
LEMMA ToldKeeps ==
  ASSUME NEW C, NEW D, NEW s \in StreamRecord(C, D), FileRight(s), IdsDistinct(s),
         NEW t, NEW cell \in Cell, NEW metadata \in BOOLEAN, Told(s, t, cell, metadata),
         IsUserMessage(cell), metadata = IsMetadataId(cell.id),
         NEW c \in C, cell.body = Content(c), cell.id = s.class_id[c]
  PROVE  /\ FileRight(t)
         /\ Layout(s.wire) => Layout(t.wire)
<1> DEFINE w == s.wire
           v == t.wire
           k == Len(v)
<1>1. PICK u \in Seq(Cell) :
         /\ Grows(w, u)
         /\ \/ v = u /\ t.dropped # << >>
            \/ /\ v = Append(u, cell) /\ t.dropped = s.dropped
               /\ ~metadata => t.metadata_positions = s.metadata_positions
               /\ metadata => \E p \in Nat :
                    /\ p >= Len(w) /\ Target(v, p) = k /\ ~v[p + 1].z
                    /\ t.metadata_positions = Append(s.metadata_positions, p)
  BY DEF Told
<1>2. /\ w \in Seq(Cell) /\ DOMAIN s.class_id = C
      /\ s.metadata_positions \in Seq(Nat) /\ s.protoclass_positions \in Seq(Nat)
  BY DEF StreamRecord
<1>3. /\ IsMessage(cell) /\ cell.id \notin FixedIds /\ ~IsProtoClass(cell)
      /\ metadata <=> IsMetadata(cell)
  BY DEF IsProtoClass, IsUserMessage, IsMetadata, HasId, FixedIds, IsMessage
<1>4. ProtoClassesAt(w) \in SUBSET DOMAIN w /\ MetadataAt(w) \in SUBSET DOMAIN w
  BY DEF ProtoClassesAt, MetadataAt
<1>5. ASSUME v \in Seq(Cell), Extends(w, v), ProtoClassesAt(v) = ProtoClassesAt(w)
      PROVE  /\ ClassesDefined(t) /\ FilesDefined(t)
             /\ Places(v, t.protoclass_positions, ProtoClassesAt(v))
  <2>1. \A i \in ProtoClassesAt(w) : v[i] = w[i]
    <3>1. DOMAIN w = 1 .. Len(w)
      BY <1>2
    <3> HIDE DEF w, v
    <3>2. QED
      BY <1>4, <1>5, <3>1 DEF Extends
  <2>2. t.class_id = s.class_id /\ t.written_files = s.written_files
        /\ t.protoclass_positions = s.protoclass_positions
    BY DEF Told
  <2>3. ClassesDefined(t)
    <3>1. ClassesDefined(s)
      BY <1>2 DEF FileRight
    <3>2. QED
      BY <1>5, <2>1, <2>2, <3>1 DEF ClassesDefined
  <2>4. UNION {v[j].body.files : j \in ProtoClassesAt(v)}
          = UNION {w[j].body.files : j \in ProtoClassesAt(w)}
    BY <1>5, <2>1
  <2>5. FilesDefined(t)
    <3>1. \A j \in ProtoClassesAt(w) : Buildable(v, j)
      BY <1>2, <1>4, <1>5, BuildableKept DEF FileRight, FilesDefined
    <3>2. QED
      BY <1>5, <2>1, <2>2, <2>4, <3>1 DEF FileRight, FilesDefined
  <2>6. QED
    BY <1>2, <1>4, <1>5, <2>2, <2>3, <2>5, PlacesGrow DEF FileRight, Placed
<1>6. CASE v = u /\ t.dropped # << >>
  <2>1. ProtoClassesAt(u) = ProtoClassesAt(w) /\ AllDecodable(u)
    BY <1>1, <1>2, GrowsKeeps DEF FileRight
  <2>2. Layout(w) => Layout(u)
    BY <1>1, <1>2, LayoutGrows
  <2>3. QED
    BY <1>1, <1>5, <1>6, <2>1, <2>2 DEF FileRight, Placed, Grows
<1>7. CASE v = Append(u, cell) /\ t.dropped = s.dropped
  <2> DEFINE x == Append(u, cell)
  <2>1. /\ x \in Seq(Cell) /\ Extends(w, x) /\ Len(x) \in DOMAIN x /\ x[Len(x)] = cell
        /\ Len(x) \notin DOMAIN w /\ \A i \in DOMAIN w : i \in DOMAIN x /\ x[i] = w[i]
        /\ ProtoClassesAt(x) = ProtoClassesAt(w) \cup IF IsProtoClass(cell) THEN {Len(x)} ELSE {}
        /\ MetadataAt(x) = MetadataAt(w) \cup IF IsMetadata(cell) THEN {Len(x)} ELSE {}
        /\ ProtoClassesBefore(x, Len(x)) = ProtoClassesAt(w)
        /\ AllDecodable(w) /\ (IsUserMessage(cell) => Decodable(x, Len(x))) => AllDecodable(x)
    BY <1>1, <1>2, GrowsAndAppends
  <2>2. x = v
    BY <1>7
  <2>3. Layout(w) => Layout(v)
    BY <1>1, <1>2, <1>3, <2>2, LayoutGrows, Zenon DEF FixedIds
  <2> HIDE DEF x
  <2>4. /\ v \in Seq(Cell) /\ Extends(w, v) /\ k \in DOMAIN v /\ v[k] = cell
        /\ ProtoClassesAt(v) = ProtoClassesAt(w) /\ ProtoClassesBefore(v, k) = ProtoClassesAt(w)
        /\ \A i \in DOMAIN w : v[i] = w[i]
    BY <1>3, <2>1, <2>2
  <2>5. MetadataAt(v) = MetadataAt(w) \cup IF metadata THEN {k} ELSE {}
    BY <1>3, <2>1, <2>2
  <2>6. Decodable(v, k)
    BY <2>4, LastIsDecodable DEF Content
  <2>7. AllDecodable(v)
    BY <2>1, <2>2, <2>6 DEF FileRight
  <2>8. ASSUME t.dropped = << >>
        PROVE  Places(v, t.metadata_positions, MetadataAt(v))
    <3>1. Places(w, s.metadata_positions, MetadataAt(w))
      BY <1>7, <2>8 DEF FileRight, Placed
    <3>2. CASE ~metadata
      <4>1. t.metadata_positions = s.metadata_positions /\ MetadataAt(v) = MetadataAt(w)
        BY <1>1, <2>5, <2>8, <3>2
      <4>2. QED
        BY <1>2, <1>4, <2>4, <3>1, <4>1, PlacesGrow
    <3>3. CASE metadata
      <4>1. PICK p \in Nat :
               /\ p >= Len(w) /\ Target(v, p) = k /\ ~v[p + 1].z
               /\ t.metadata_positions = Append(s.metadata_positions, p)
        BY <1>1, <2>8, <3>3
      <4>2. Places(v, Append(s.metadata_positions, p), MetadataAt(w) \cup {Target(v, p)})
        BY <1>2, <1>4, <2>4, <3>1, <4>1, PlacesAppend
      <4>3. QED
        BY <2>5, <3>3, <4>1, <4>2
    <3>4. QED
      BY <3>2, <3>3
  <2>9. QED
    BY <1>5, <2>3, <2>4, <2>7, <2>8 DEF FileRight, Placed
<1>8. QED
  BY <1>1, <1>6, <1>7
-----------------------------------------------------------------------------
(* The methods of the stream.                                               *)

\* An offset was recorded in one of the lists, and points to what comes next.
Recorded(s, t, p) ==
    /\ Grows(s.wire, t.wire) /\ t.dropped = s.dropped
    /\ t.written_files = s.written_files /\ t.class_id = s.class_id
    /\ Counted(s) => Counted(t)
    /\ Compressing(t)
    /\ p \in Nat /\ p >= Len(s.wire) /\ PointsNext(t, p)

\* The reader that goes to the offset finds the cell written next.
LEMMA PointsNextTarget ==
  ASSUME NEW g, g.wire \in Seq(Cell), NEW p \in Nat, PointsNext(g, p), NEW cell \in Cell,
         ~HasId(cell, StartCompressedSectionId), cell.z => g.coded = "compressed"
  PROVE  LET v == Append(g.wire, cell)
         IN  Target(v, p) = Len(v) /\ ~v[p + 1].z
<1> DEFINE w == g.wire
           v == Append(w, cell)
<1>1. /\ Len(w) \in Nat /\ Len(v) = Len(w) + 1 /\ v[Len(w) + 1] = cell
      /\ \A i \in 1 .. Len(w) : v[i] = w[i]
  OBVIOUS
<1>2. CASE p = Len(w) /\ g.coded = "raw"
  BY <1>1, <1>2 DEF Target
<1>3. CASE /\ p + 1 = Len(w)
           /\ HasId(w[p + 1], StartCompressedSectionId) /\ ~w[p + 1].z
  <2>1. v[p + 1] = w[p + 1]
    BY <1>1, <1>3
  <2>2. QED
    BY <1>1, <1>3, <2>1 DEF Target
<1>4. QED
  BY <1>2, <1>3 DEF PointsNext

\* The two lists of offsets.
LEMMA RecordPositionsFile ==
  ASSUME NEW C, NEW D, NEW s \in StreamRecord(C, D), Writable(s), FixedIds \subseteq D,
         Compressing(s)
  PROVE  LET p == BytesWritten(s)
             t == RecordProtoClassPosition(s)
             u == RecordMetadataPosition(s)
         IN  /\ Recorded(s, t, p)
             /\ t.protoclass_positions = Append(s.protoclass_positions, p)
             /\ t.metadata_positions = s.metadata_positions
             /\ Recorded(s, u, p)
             /\ u.metadata_positions = Append(s.metadata_positions, p)
             /\ u.protoclass_positions = s.protoclass_positions
<1> DEFINE p == BytesWritten(s)
           t == RecordProtoClassPosition(s)
           u == RecordMetadataPosition(s)
           g == GetBytesWritten(s)
<1>1. /\ Quiet(s, g) /\ Compressing(g) /\ p \in Nat /\ p >= Len(s.wire) /\ PointsNext(g, p)
  BY GetBytesWrittenFile
<1>2. g \in StreamRecord(C, D) /\ Done(s, g)
  BY GetBytesWrittenOK, GetBytesWrittenDone
<1>3. /\ t = [g EXCEPT !.protoclass_positions = Append(@, p)]
      /\ u = [g EXCEPT !.metadata_positions = Append(@, p)]
  BY <1>2 DEF RecordProtoClassPosition, RecordMetadataPosition, Done, Writable
<1> HIDE DEF g, t, u, p
<1>4. /\ t.wire = g.wire /\ t.dropped = g.dropped /\ t.written_files = g.written_files
      /\ t.class_id = g.class_id /\ t.counts = g.counts /\ t.coded = g.coded
      /\ t.compressed = g.compressed /\ t.metadata_positions = g.metadata_positions
      /\ t.protoclass_positions = Append(g.protoclass_positions, p)
  BY <1>2, <1>3 DEF StreamRecord
<1>5. /\ u.wire = g.wire /\ u.dropped = g.dropped /\ u.written_files = g.written_files
      /\ u.class_id = g.class_id /\ u.counts = g.counts /\ u.coded = g.coded
      /\ u.compressed = g.compressed /\ u.protoclass_positions = g.protoclass_positions
      /\ u.metadata_positions = Append(g.metadata_positions, p)
  BY <1>2, <1>3 DEF StreamRecord
<1>6. SameFile(s, g)
  BY <1>1 DEF Quiet
<1>7. Recorded(s, t, p)
  BY <1>1, <1>4 DEF Recorded, Quiet, SameFile, Counted, Compressing, PointsNext
<1>8. Recorded(s, u, p)
  BY <1>1, <1>5 DEF Recorded, Quiet, SameFile, Counted, Compressing, PointsNext
<1>9. QED
  BY <1>4, <1>5, <1>6, <1>7, <1>8 DEF SameFile, t, u, p

\* _class_id_counts.resize: the counts agree with the file as before, since no
\* message has an id beyond their end.
LEMMA ResizeCountsFile ==
  ASSUME NEW C, NEW D, IdRange(D), NEW s \in StreamRecord(C, D), NEW id \in Nat
  PROVE  LET t == ResizeCounts(s, id)
         IN  /\ Counted(s) => Counted(t)
             /\ SameFile(s, t) /\ t.wire = s.wire /\ t.dropped = s.dropped
             /\ t.coded = s.coded /\ t.compressed = s.compressed
<1> DEFINE counts == [i \in 0 .. id |-> IF i \in DOMAIN s.counts THEN s.counts[i] ELSE 0]
           t == ResizeCounts(s, id)
<1>1. s.counts \in [D -> Nat] /\ DOMAIN s.counts = D
  BY DEF StreamRecord
<1>2. CASE id \in D
  BY <1>1, <1>2 DEF ResizeCounts, SameFile
<1>3. CASE id \notin D
  <2>1. t = [s EXCEPT !.counts = counts]
    BY <1>1, <1>3 DEF ResizeCounts
  <2>2. DOMAIN counts = 0 .. id /\ \A i \in 0 .. id : counts[i] = IF i \in D THEN s.counts[i] ELSE 0
    BY <1>1
  <2>3. D \subseteq 0 .. id
    <3>1. ASSUME NEW i \in D PROVE i \in 0 .. id
      <4>1. i \in Nat /\ id \notin 0 .. i
        BY <1>3 DEF IdRange
      <4>2. QED
        BY <4>1
    <3>2. QED
      BY <3>1
  <2> HIDE DEF counts, t
  <2>4. /\ SameFile(s, t) /\ t.wire = s.wire /\ t.dropped = s.dropped
        /\ t.coded = s.coded /\ t.compressed = s.compressed /\ t.counts = counts
    BY <2>1 DEF StreamRecord, SameFile
  <2>5. ASSUME Counted(s), s.dropped = << >>, NEW i \in 0 .. id
        PROVE  counts[i] = Cardinality(Occurrences(s.wire, i))
    <3>1. CASE i \in D
      BY <1>1, <2>2, <2>5, <3>1 DEF Counted
    <3>2. CASE i \notin D
      <4>1. Occurrences(s.wire, i) = {}
        BY <1>1, <2>5, <3>2 DEF Counted, Occurrences, HasId, IsMessage
      <4>2. QED
        BY <2>2, <3>2, <4>1, FS_EmptySet
    <3>3. QED
      BY <3>1, <3>2
  <2>6. Counted(s) => Counted(t)
    BY <1>1, <2>2, <2>3, <2>4, <2>5 DEF Counted
  <2>7. QED
    BY <2>4, <2>6 DEF t
<1>4. QED
  BY <1>2, <1>3

ProtoClassCell(id, c, files, z) ==
    Message(ProtoClassId, [class_id |-> id, full_name |-> c, files |-> files], z)

\* write_protoclass: the ProtoClass is behind the offset recorded for it, and
\* holds the files that were not written yet.
LEMMA WriteProtoClassFile ==
  ASSUME NEW C, NEW D, IdRange(D), NEW s \in StreamRecord(C, D), Writable(s),
         FixedIds \subseteq D, Compressing(s), Counted(s), NEW id \in Nat, NEW c \in Class
  PROVE  LET t == WriteProtoClass(s, id, c)
         IN  /\ Counted(t) /\ Compressing(t) /\ t.class_id = s.class_id
             /\ t.written_files = s.written_files \cup FilesOf[c]
             /\ \E z \in BOOLEAN :
                  Announced(s, t, ProtoClassCell(id, c, FilesOf[c] \ s.written_files, z))
<1> DEFINE files == FilesOf[c] \ s.written_files
           q == [s EXCEPT !.written_files = @ \cup FilesOf[c]]
           r == RecordProtoClassPosition(q)
           z == ResizeCounts(r, id)
           body == [class_id |-> id, full_name |-> c, files |-> files]
           t == WriteMessage(z, ProtoClassId, body, TRUE)
           p == BytesWritten(q)
           cell == Message(ProtoClassId, body, z.coded = "compressed")
<1>1. WriteProtoClass(s, id, c) = t
  BY DEF WriteProtoClass
<1>2. FilesOf[c] \in SUBSET File /\ files \in SUBSET File /\ body \in Body
  BY FilesAreFiles, BodiesOK
<1>3. /\ q \in StreamRecord(C, D) /\ Writable(q) /\ Compressing(q) /\ Counted(q)
      /\ q.written_files = s.written_files \cup FilesOf[c] /\ q.class_id = s.class_id
      /\ q.wire = s.wire /\ q.dropped = s.dropped
      /\ q.metadata_positions = s.metadata_positions
      /\ q.protoclass_positions = s.protoclass_positions
  BY <1>2 DEF StreamRecord, Writable, Compressing, Counted
<1> HIDE DEF q, body
<1>4. /\ r \in StreamRecord(C, D) /\ Writable(r) /\ Recorded(q, r, p)
      /\ r.protoclass_positions = Append(q.protoclass_positions, p)
      /\ r.metadata_positions = q.metadata_positions
  BY <1>3, RecordPositionsFile, RecordProtoClassPositionOK, RecordPositionsDone DEF Done
<1> HIDE DEF r
<1>5. /\ z \in StreamRecord(C, D \cup 0 .. id) /\ Writable(z)
      /\ Counted(r) => Counted(z)
      /\ SameFile(r, z) /\ z.wire = r.wire /\ z.dropped = r.dropped
      /\ z.coded = r.coded /\ z.compressed = r.compressed
  <2>1. z \in StreamRecord(C, D \cup 0 .. id)
    BY <1>4, ResizeCountsOK
  <2>2. Writable(z)
    BY <1>4 DEF ResizeCounts, Writable
  <2>3. QED
    BY <1>4, <2>1, <2>2, ResizeCountsFile
<1> HIDE DEF z, p
<1>6. Counted(z) /\ Compressing(z)
  BY <1>3, <1>4, <1>5 DEF Recorded, Compressing
<1>7. ProtoClassId \in D \cup 0 .. id /\ ProtoClassId \in Nat
  BY FixedIdsOK DEF FixedIds
<1>8. Wrote(z, t, ProtoClassId, body)
  BY <1>5, <1>7, WriteMessageFile
<1>9. Counted(t)
  BY <1>2, <1>5, <1>6, <1>7, <1>8, WroteCounted
<1> HIDE DEF t
<1>10. /\ cell \in Cell /\ ~HasId(cell, StartCompressedSectionId)
       /\ cell.z => r.coded = "compressed"
  <2>1. cell \in Cell
    BY <1>2, <1>7 DEF Message, Cell
  <2>2. QED
    BY <1>5, <2>1, FixedIdsDiffer DEF Message, HasId, CompressionIds
<1>11. t.wire = Append(r.wire, cell) /\ r.wire \in Seq(Cell)
  BY <1>4, <1>5, <1>8 DEF Wrote, StreamRecord
<1> HIDE DEF cell
<1>12. Target(t.wire, p) = Len(t.wire) /\ ~t.wire[p + 1].z
  BY <1>4, <1>10, <1>11, PointsNextTarget DEF Recorded
<1>13. Announced(s, t, cell)
  <2>1. /\ r.wire \in Seq(Cell) /\ p \in Nat /\ Grows(s.wire, r.wire) /\ p >= Len(s.wire)
    BY <1>3, <1>4, <1>11 DEF Recorded
  <2>2. /\ t.metadata_positions = s.metadata_positions /\ t.dropped = s.dropped
        /\ t.protoclass_positions = Append(s.protoclass_positions, p)
    BY <1>3, <1>4, <1>5, <1>8 DEF Wrote, Counts, SameFile, Recorded
  <2>3. QED
    BY <1>11, <1>12, <2>1, <2>2 DEF Announced
<1>14. /\ t.class_id = s.class_id /\ t.written_files = s.written_files \cup FilesOf[c]
  BY <1>3, <1>4, <1>5, <1>8 DEF Wrote, Counts, SameFile, Recorded
<1>15. Compressing(t)
  BY <1>6, <1>8 DEF Wrote, Counts, Compressing
<1>16. \E y \in BOOLEAN : cell = ProtoClassCell(id, c, files, y)
  BY DEF cell, ProtoClassCell, body
<1>17. QED
  BY <1>1, <1>9, <1>13, <1>14, <1>15, <1>16

\* find_class_id: afterwards the class has its id and its ProtoClass.
LEMMA FindClassIdFile ==
  ASSUME NEW s, Sound(s), Writable(s), FileRight(s), Counted(s), Compressing(s),
         NEW c \in Class, NEW metadata \in BOOLEAN, ~RoleClash(s, c, metadata)
  PROVE  LET f == FindClassId(s, c, metadata)
         IN  /\ FileRight(f) /\ Counted(f) /\ Compressing(f)
             /\ Layout(s.wire) => Layout(f.wire)
             /\ c \in DOMAIN f.class_id /\ f.class_id[c] = ClassIdFor(s, c, metadata)
             /\ metadata = IsMetadataId(f.class_id[c])
             /\ Extends(s.wire, f.wire) /\ f.dropped = s.dropped
             /\ \A d \in DOMAIN f.class_id :
                  d # c => d \in DOMAIN s.class_id /\ f.class_id[d] = s.class_id[d]
<1> DEFINE id == ClassIdFor(s, c, metadata)
           content == IF metadata THEN s.next_class_id ELSE id + 2
           meta == IF metadata THEN id + 2 ELSE s.next_metadata_class_id
           q == [s EXCEPT !.next_class_id = SkipReserved(content, ReservedLo),
                          !.next_metadata_class_id = SkipReserved(meta, ReservedLo + 1)]
           t == WriteProtoClass(q, id, c)
           u == [t EXCEPT !.class_id = [d \in DOMAIN t.class_id \cup {c} |->
                                           IF d = c THEN id ELSE t.class_id[d]]]
           f == FindClassId(s, c, metadata)
<1>1. PICK C \in SUBSET Class, D \in SUBSET Nat : IdRange(D) /\ s \in StreamRecord(C, D)
  BY StreamOKIsRecord DEF Sound
<1>2. id \in Nat
  BY FindClassIdOK DEF Sound
<1>3. CASE c \in DOMAIN s.class_id
  BY <1>1, <1>3 DEF FindClassId, ClassIdFor, RoleClash, IsMetadataId, Extends, StreamRecord
<1>4. CASE c \notin DOMAIN s.class_id
  <2>1. f = IF t.status # "ok" THEN t
            ELSE IF metadata = IsMetadataId(id) THEN u
            ELSE Stop(u, "assert (class_id % 2) == metadata")
    BY <1>4 DEF FindClassId
  <2>2. metadata = IsMetadataId(id)
    BY <1>1, <1>4 DEF Sound, IdsInv, NextIdsFree, ClassIdFor, IsMetadataId, StreamRecord
  <2>3. SkipReserved(content, ReservedLo) \in Nat /\ SkipReserved(meta, ReservedLo + 1) \in Nat
    <3>1. content \in Nat /\ meta \in Nat
      BY <1>1, <1>2 DEF StreamRecord
    <3>2. QED
      BY <3>1, WireAssumption DEF SkipReserved
  <2> HIDE DEF content, meta, id
  <2>4. /\ q \in StreamRecord(C, D) /\ Writable(q) /\ Compressing(q) /\ q.class_id = s.class_id
        /\ q.wire = s.wire /\ q.dropped = s.dropped /\ q.counts = s.counts
        /\ q.written_files = s.written_files
        /\ q.metadata_positions = s.metadata_positions
        /\ q.protoclass_positions = s.protoclass_positions
    BY <1>1, <2>3 DEF StreamRecord, Writable, Compressing
  <2>5. FixedIds \subseteq D /\ DOMAIN s.class_id = C
    BY <1>1 DEF Sound, StreamRecord
  <2> HIDE DEF q, f
  <2>6. Counted(q)
    BY <2>4 DEF Counted
  <2>7. FileRight(q)
    BY <2>4 DEF FileRight, Placed, ClassesDefined, FilesDefined
  <2>8. t \in StreamRecord(C, D \cup 0 .. id) /\ Writable(t)
    BY <1>1, <1>2, <2>4, <2>5, WriteProtoClassOK, WriteProtoClassDone DEF Done
  <2>9. /\ Counted(t) /\ Compressing(t) /\ t.class_id = q.class_id
        /\ t.written_files = q.written_files \cup FilesOf[c]
        /\ \E z \in BOOLEAN :
             Announced(q, t, ProtoClassCell(id, c, FilesOf[c] \ q.written_files, z))
    BY <1>1, <1>2, <2>4, <2>5, <2>6, WriteProtoClassFile
  <2> HIDE DEF t
  <2>10. PICK z \in BOOLEAN :
            Announced(q, t, ProtoClassCell(id, c, FilesOf[c] \ q.written_files, z))
    BY <2>9
  <2> DEFINE cell == ProtoClassCell(id, c, FilesOf[c] \ q.written_files, z)
             g == [d \in DOMAIN t.class_id \cup {c} |-> IF d = c THEN id ELSE t.class_id[d]]
  <2>11. /\ cell \in Cell /\ IsProtoClass(cell) /\ cell.body.full_name = c
         /\ cell.body.files = FilesOf[c] \ q.written_files /\ cell.body.class_id = id
    <3>1. FilesOf[c] \ q.written_files \in SUBSET File
      BY FilesAreFiles
    <3>2. QED
      BY <1>2, <3>1, BodiesOK, FixedIdsOK DEF ProtoClassCell, Message, Cell, IsProtoClass, HasId
  <2>12. f = u
    BY <2>1, <2>2, <2>8 DEF Writable
  <2>13. DOMAIN g = C \cup {c} /\ g[c] = id /\ \A d \in C : g[d] = q.class_id[d]
    BY <1>4, <2>4, <2>5, <2>9
  <2> HIDE DEF cell
  <2>14. f = [t EXCEPT !.class_id = g]
    BY <2>12
  <2> HIDE DEF g, u
  <2>15. /\ f.class_id = g /\ f.wire = t.wire /\ f.dropped = t.dropped /\ f.counts = t.counts
         /\ f.written_files = t.written_files /\ f.coded = t.coded
         /\ f.compressed = t.compressed
         /\ f.metadata_positions = t.metadata_positions
         /\ f.protoclass_positions = t.protoclass_positions
    BY <2>8, <2>14 DEF StreamRecord
  <2>16. Announced(q, f, cell)
    BY <2>10, <2>15 DEF Announced, cell
  <2>17. Counted(f) /\ Compressing(f)
    BY <2>9, <2>15 DEF Counted, Compressing
  <2>18. FileRight(f) /\ (Layout(q.wire) => Layout(f.wire))
    <3>1. /\ c \notin C /\ DOMAIN f.class_id = C \cup {c} /\ f.class_id[c] = cell.body.class_id
          /\ \A d \in C : f.class_id[d] = q.class_id[d]
          /\ f.written_files = q.written_files \cup FilesOf[c]
      BY <1>4, <2>5, <2>9, <2>11, <2>13, <2>15
    <3>2. QED
      BY <2>4, <2>7, <2>11, <2>16, <3>1, AnnouncedKeeps
  <2>19. c \in DOMAIN f.class_id /\ f.class_id[c] = id
    BY <2>13, <2>15
  <2>20. Extends(s.wire, f.wire) /\ f.dropped = s.dropped
    <3>1. q.wire \in Seq(Cell)
      BY <2>4 DEF StreamRecord
    <3>2. PICK v \in Seq(Cell) : Grows(q.wire, v) /\ f.wire = Append(v, cell)
      BY <2>16 DEF Announced
    <3>3. Extends(q.wire, f.wire)
      BY <2>11, <3>1, <3>2 DEF Grows, Extends
    <3>4. QED
      BY <2>4, <2>16, <3>3 DEF Announced
  <2>21. \A d \in DOMAIN f.class_id :
           d # c => d \in DOMAIN s.class_id /\ f.class_id[d] = s.class_id[d]
    BY <2>4, <2>5, <2>13, <2>15
  <2>22. QED
    BY <2>2, <2>4, <2>17, <2>18, <2>19, <2>20, <2>21 DEF f, id
<1>5. QED
  BY <1>3, <1>4

\* What write and metadata do once the class has its id.
LEMMA TellFile ==
  ASSUME NEW C, NEW D, NEW s \in StreamRecord(C, D), NEW r \in StreamRecord(C, D),
         NEW t \in StreamRecord(C, D), NEW c \in Class,
         NEW id \in D, id \in Nat, id \notin FixedIds, NEW metadata \in BOOLEAN,
         Counted(s), Compressing(s),
         IF metadata
         THEN \E p \in Nat : /\ Recorded(s, r, p)
                             /\ r.metadata_positions = Append(s.metadata_positions, p)
                             /\ r.protoclass_positions = s.protoclass_positions
         ELSE r = s,
         Wrote(r, t, id, Content(c)) \/ Dropped(r, t, id)
  PROVE  /\ Counted(t) /\ Compressing(t)
         /\ Told(s, t, Message(id, Content(c), r.coded = "compressed"), metadata)
<1> DEFINE body == Content(c)
           cell == Message(id, body, r.coded = "compressed")
<1>1. body \in Body
  BY BodiesOK
<1> HIDE DEF body
<1>2. Counted(r) /\ Compressing(r) /\ Grows(s.wire, r.wire)
      /\ r.dropped = s.dropped /\ r.written_files = s.written_files
      /\ r.class_id = s.class_id /\ r.protoclass_positions = s.protoclass_positions
  <2>1. CASE metadata
    BY <2>1 DEF Recorded
  <2>2. CASE ~metadata
    <3>1. s.wire \in Seq(Cell)
      BY DEF StreamRecord
    <3>2. Grows(s.wire, s.wire)
      BY <3>1 DEF Grows, Extends
    <3>3. QED
      BY <2>2, <3>2
  <2>3. QED
    BY <2>1, <2>2
<1>3. Counts(r, t, id) /\ SameFile(r, t)
  BY DEF Wrote, Dropped, Counts
<1>4. Counted(t)
  BY <1>1, <1>2, WroteCounted DEF body
<1>5. Compressing(t)
  BY <1>2, <1>3 DEF Counts, Compressing
<1>6. r.wire \in Seq(Cell) /\ r.dropped \in Seq(Nat)
  BY DEF StreamRecord
<1>7. /\ cell \in Cell /\ ~HasId(cell, StartCompressedSectionId)
      /\ cell.z => r.coded = "compressed"
  BY <1>1 DEF Message, Cell, HasId, FixedIds
<1>8. /\ t.protoclass_positions = s.protoclass_positions
      /\ t.written_files = s.written_files /\ t.class_id = s.class_id
  BY <1>2, <1>3 DEF SameFile
<1>9. CASE Dropped(r, t, id)
  <2>1. t.dropped # << >> /\ t.wire = r.wire
    <3>1. Append(r.dropped, id) # << >>
      BY <1>6, AppendNotEmpty
    <3>2. QED
      BY <1>9, <3>1 DEF Dropped
  <2>2. QED
    BY <1>2, <1>4, <1>5, <1>6, <1>8, <2>1 DEF Told
<1>10. CASE Wrote(r, t, id, body)
  <2>1. t.wire = Append(r.wire, cell) /\ t.dropped = s.dropped
    BY <1>2, <1>10 DEF Wrote
  <2>2. ~metadata => t.metadata_positions = s.metadata_positions
    BY <1>3 DEF SameFile
  <2>3. metadata => \E p \in Nat :
           /\ p >= Len(s.wire) /\ Target(t.wire, p) = Len(t.wire) /\ ~t.wire[p + 1].z
           /\ t.metadata_positions = Append(s.metadata_positions, p)
    <3>1. SUFFICES ASSUME metadata,
                          NEW p \in Nat, Recorded(s, r, p),
                          r.metadata_positions = Append(s.metadata_positions, p)
                   PROVE  \E x \in Nat :
           /\ x >= Len(s.wire) /\ Target(t.wire, x) = Len(t.wire) /\ ~t.wire[x + 1].z
           /\ t.metadata_positions = Append(s.metadata_positions, x)
      OBVIOUS
    <3> HIDE DEF cell
    <3>2. Target(t.wire, p) = Len(t.wire) /\ ~t.wire[p + 1].z
      BY <1>6, <1>7, <2>1, <3>1, PointsNextTarget DEF Recorded
    <3>3. p >= Len(s.wire) /\ t.metadata_positions = Append(s.metadata_positions, p)
      BY <1>3, <3>1 DEF Recorded, SameFile
    <3>4. QED
      BY <3>2, <3>3
  <2> HIDE DEF cell
  <2>4. Told(s, t, cell, metadata)
    BY <1>2, <1>6, <1>8, <2>1, <2>2, <2>3 DEF Told
  <2>5. QED
    BY <1>4, <1>5, <2>4 DEF cell, body
<1>11. QED
  BY <1>9, <1>10 DEF body

\* The file of a stream that has not told a reader anything yet.
LEMMA NothingToldYet ==
  ASSUME NEW s, FileRight(s), NEW t, SameFile(s, t), t.dropped = s.dropped,
         ProtoClassesAt(s.wire) = {}, MetadataAt(s.wire) = {},
         ProtoClassesAt(t.wire) = {}, \A i \in DOMAIN t.wire : ~IsUserMessage(t.wire[i])
  PROVE  FileRight(t)
<1>1. MetadataAt(t.wire) = {}
  BY DEF MetadataAt, IsMetadata
<1>2. Placed(t)
  BY <1>1 DEF FileRight, Placed, Places, SameFile
<1>3. ClassesDefined(t)
  BY DEF FileRight, ClassesDefined, SameFile
<1>4. FilesDefined(t)
  <2>1. UNION {t.wire[j].body.files : j \in ProtoClassesAt(t.wire)} = {}
    OBVIOUS
  <2>2. UNION {s.wire[j].body.files : j \in ProtoClassesAt(s.wire)} = {}
    OBVIOUS
  <2>3. QED
    BY <2>1, <2>2 DEF FileRight, FilesDefined, SameFile
<1>5. QED
  BY <1>2, <1>3, <1>4 DEF FileRight, AllDecodable

\* write_header, of a file with nothing in it.
LEMMA WriteHeaderFile ==
  ASSUME NEW C, NEW D, NEW s \in StreamRecord(C, D), Writable(s), FixedIds \subseteq D,
         s.wire = << >>, FileRight(s), Counted(s), Compressing(s)
  PROVE  LET h == WriteHeader(s)
         IN  /\ FileRight(h) /\ Counted(h) /\ Compressing(h) /\ Layout(h.wire)
             /\ h.compressed = s.compressed /\ HeaderTells(h) /\ h.dropped = s.dropped
             /\ h.class_id = s.class_id
<1> DEFINE mark == Mark("START_MAGIC", NoBody)
           m == PutMark(s, "START_MAGIC", NoBody)
           body == [metadata_refers_forward |-> s.metadata_refers_forward]
           h == WriteMessage(m, StreamHeaderId, body, TRUE)
           cell == Message(StreamHeaderId, body, m.coded = "compressed")
<1>1. WriteHeader(s) = h
  BY DEF WriteHeader
<1>2. mark \in Cell /\ ~IsMessage(mark) /\ mark.kind = "START_MAGIC"
  BY BodiesOK DEF Mark, Cell, IsMessage
<1>3. body \in Body
  BY BodiesOK DEF StreamRecord
<1>4. m = [s EXCEPT !.wire = Append(@, mark)]
  BY DEF PutMark, Writable
<1>5. m \in StreamRecord(C, D) /\ Writable(m) /\ Done(s, m)
  BY BodiesOK, PutMarkOK, PutMarkDone DEF Done
<1>6. StreamHeaderId \in D /\ StreamHeaderId \in Nat
  BY FixedIdsOK DEF FixedIds
<1> HIDE DEF m, mark, body
<1>7. /\ m.wire = << mark >> /\ SameFile(s, m) /\ m.dropped = s.dropped
      /\ m.counts = s.counts /\ m.coded = s.coded /\ m.compressed = s.compressed
  BY <1>4 DEF StreamRecord, SameFile
<1>8. Counted(m)
  <2>1. \A i \in DOMAIN m.wire : ~IsMessage(m.wire[i])
    BY <1>2, <1>7
  <2>2. \A id : Occurrences(m.wire, id) = {} /\ Occurrences(s.wire, id) = {}
    BY <2>1 DEF Occurrences, HasId, IsMessage
  <2>3. QED
    BY <1>7, <2>1, <2>2 DEF Counted
<1>9. Wrote(m, h, StreamHeaderId, body)
  BY <1>5, <1>6, WriteMessageFile
<1>w. Done(m, h)
  BY <1>5, <1>6, WriteMessageDone
<1> HIDE DEF h
<1>10. Counted(h)
  BY <1>3, <1>5, <1>6, <1>8, <1>9, WroteCounted
<1>11. cell.kind = "message" /\ cell.id = StreamHeaderId
  BY DEF Message
<1>12. h.wire = Append(<< mark >>, cell)
  BY <1>7, <1>9 DEF Wrote
<1> HIDE DEF cell
<1>13. Len(h.wire) = 2 /\ h.wire[1] = mark /\ h.wire[2] = cell /\ DOMAIN h.wire = {1, 2}
  BY <1>12
<1>14. Layout(h.wire)
  BY <1>2, <1>11, <1>13 DEF Layout, HasId
<1>15. /\ ProtoClassesAt(h.wire) = {}
       /\ \A i \in DOMAIN h.wire : ~IsUserMessage(h.wire[i])
  BY <1>2, <1>11, <1>13, FixedIdsDiffer
     DEF ProtoClassesAt, IsProtoClass, IsUserMessage, HasId, IsMessage, FixedIds
<1>16. ProtoClassesAt(s.wire) = {} /\ MetadataAt(s.wire) = {}
  BY DEF ProtoClassesAt, MetadataAt
<1>17. SameFile(s, h) /\ h.dropped = s.dropped
  BY <1>7, <1>9 DEF Wrote, Counts, SameFile
<1>18. FileRight(h)
  BY <1>15, <1>16, <1>17, NothingToldYet
<1>19. Compressing(h) /\ h.compressed = s.compressed
  BY <1>7, <1>9 DEF Wrote, Counts, Compressing
<1>20. HeaderTells(h)
  <2>1. cell.body.metadata_refers_forward = s.metadata_refers_forward
    BY DEF cell, body, Message
  <2>2. h.metadata_refers_forward = s.metadata_refers_forward
    BY <1>5, <1>w DEF Done, SameSettings
  <2>3. QED
    BY <1>13, <2>1, <2>2 DEF HeaderTells
<1>21. QED
  BY <1>1, <1>10, <1>14, <1>17, <1>18, <1>19, <1>20 DEF SameFile

\* open: what holds of an open stream.
LEMMA OpenStreamFile ==
  ASSUME NEW s, FileInv(s), ~s.closed
  PROVE  LET o == OpenStream(s, TRUE)
         IN  /\ FileRight(o) /\ Counted(o) /\ Compressing(o) /\ Layout(o.wire)
             /\ HeaderTells(o) /\ o.dropped = s.dropped /\ o.class_id = s.class_id
             /\ o.metadata_refers_forward = s.metadata_refers_forward
<1> DEFINE a == [s EXCEPT !.opened = TRUE, !.compressed = FALSE]
           p == [a EXCEPT !.raw = TRUE, !.coded = "raw"]
           h == WriteHeader(p)
           o == OpenStream(s, TRUE)
<1>1. CASE s.opened
  BY <1>1 DEF OpenStream, FileInv
<1>2. CASE ~s.opened
  <2>1. PICK C \in SUBSET Class, D \in SUBSET Nat : IdRange(D) /\ s \in StreamRecord(C, D)
    BY StreamOKIsRecord DEF FileInv, Sound
  <2>2. FixedIds \subseteq D
    BY <2>1 DEF FileInv, Sound, StreamRecord
  <2>3. o = IF h.compression THEN StartCompression(h) ELSE h
    BY <1>2 DEF OpenStream
  <2>4. /\ p \in StreamRecord(C, D) /\ Writable(p) /\ SameFile(s, p) /\ p.dropped = s.dropped
        /\ p.wire = s.wire /\ p.counts = s.counts /\ ~p.compressed /\ p.coded = "raw"
        /\ p.compression = s.compression /\ p.compression_type = s.compression_type
        /\ p.metadata_refers_forward = s.metadata_refers_forward
    BY <2>1 DEF StreamRecord, Writable, SameFile, FileInv, Sound
  <2> HIDE DEF p, o
  <2>5. FileRight(p)
    BY <2>4 DEF FileInv, FileRight, Placed, ClassesDefined, FilesDefined, SameFile
  <2>6. Counted(p) /\ Compressing(p) /\ p.wire = << >>
    BY <1>2, <2>4 DEF FileInv, Counted, Compressing
  <2>7. h \in StreamRecord(C, D)
    BY <2>4, WriteHeaderOK
  <2>8. /\ FileRight(h) /\ Counted(h) /\ Compressing(h) /\ Layout(h.wire) /\ ~h.compressed
        /\ HeaderTells(h) /\ h.dropped = s.dropped /\ h.class_id = s.class_id
    BY <2>2, <2>4, <2>5, <2>6, WriteHeaderFile DEF SameFile
  <2>9. Done(p, h)
    <3> DEFINE m == PutMark(p, "START_MAGIC", NoBody)
    <3>1. m \in StreamRecord(C, D) /\ Done(p, m)
      BY <2>4, PutMarkDone, PutMarkOK, BodiesOK
    <3>2. h = WriteMessage(m, StreamHeaderId, [metadata_refers_forward |-> p.metadata_refers_forward], TRUE)
      BY DEF WriteHeader
    <3> HIDE DEF m
    <3>3. Done(m, h)
      BY <2>2, <3>1, <3>2, WriteMessageDone DEF FixedIds, Done
    <3>4. QED
      BY <3>1, <3>3 DEF Done, SameSettings
  <2> HIDE DEF h
  <2>10. CASE h.compression
    <3>1. h.compression_type # "UNCOMPRESSED" /\ Writable(h)
      BY <2>4, <2>9, <2>10 DEF FileInv, Sound, Done, SameSettings
    <3>2. Quiet(h, o) /\ Compressing(o) /\ o \in StreamRecord(C, D)
      BY <2>2, <2>3, <2>7, <2>8, <2>10, <3>1, StartCompressionFile, StartCompressionOK
    <3>3. FileRight(o)
      BY <2>7, <2>8, <3>2, QuietKeeps
    <3>4. h.wire \in Seq(Cell) /\ o.wire \in Seq(Cell)
      BY <2>7, <3>2 DEF StreamRecord
    <3>5. Layout(o.wire)
      BY <2>8, <3>2, <3>4, LayoutGrows DEF Quiet
    <3>6. Done(h, o)
      BY <2>2, <2>3, <2>7, <2>8, <2>10, <3>1, StartCompressionDone
    <3>7. o.dropped = s.dropped /\ o.class_id = s.class_id
      BY <2>8, <3>2 DEF Quiet, SameFile
    <3>8. HeaderTells(o)
      <4>1. o.wire[2] = h.wire[2]
        BY <2>8, <3>2, <3>4 DEF Quiet, Grows, Extends, Layout
      <4>2. QED
        BY <2>8, <3>6, <4>1 DEF HeaderTells, Done, SameSettings
    <3>9. o.metadata_refers_forward = s.metadata_refers_forward
      BY <2>4, <2>9, <3>6 DEF Done, SameSettings
    <3>10. QED
      BY <2>8, <3>2, <3>3, <3>5, <3>7, <3>8, <3>9 DEF Quiet, o
  <2>11. CASE ~h.compression
    <3>1. h.metadata_refers_forward = s.metadata_refers_forward
      BY <2>4, <2>9 DEF Done, SameSettings
    <3>2. QED
      BY <2>3, <2>8, <2>11, <3>1 DEF o
  <2>12. QED
    BY <2>10, <2>11
<1>3. QED
  BY <1>1, <1>2

\* write and metadata
LEMMA MessageActionFile ==
  ASSUME OpenResults = {TRUE}, FileInv(os), NEW c \in Class,
         NEW metadata \in BOOLEAN, IF metadata THEN Metadata(c) ELSE Write(c)
  PROVE  /\ FileInv(os') /\ os'.opened /\ ~os'.closed
         /\ os'.metadata_refers_forward = os.metadata_refers_forward
         /\ \A d \in DOMAIN os'.class_id :
              \/ d \in DOMAIN os.class_id /\ os'.class_id[d] = os.class_id[d]
              \/ d = c /\ metadata = IsMetadataId(os'.class_id[d])
<1>1. PICK serialized \in SerializeResults :
        /\ ~os.closed
        /\ LET o == OpenStream(os, TRUE)
               f == FindClassId(o, c, metadata)
               r == IF metadata THEN RecordMetadataPosition(f) ELSE f
           IN  os' = IF OpenFails(os, TRUE) \/ RoleClash(o, c, metadata) THEN o
                     ELSE WriteMessage(r, ClassIdFor(o, c, metadata), Content(c), serialized)
  <2>1. CASE ~metadata
    BY <2>1 DEF Write, Usable
  <2>2. CASE metadata
    BY <2>2 DEF Metadata, Usable
  <2>3. QED
    BY <2>1, <2>2
<1> DEFINE o == OpenStream(os, TRUE)
           f == FindClassId(o, c, metadata)
           id == ClassIdFor(o, c, metadata)
           r == IF metadata THEN RecordMetadataPosition(f) ELSE f
           body == Content(c)
           w == WriteMessage(r, id, body, serialized)
<1>2. Sound(o) /\ Writable(o) /\ o.opened /\ ~o.closed
  BY <1>1, OpenStreamDone DEF FileInv
<1>3. /\ FileRight(o) /\ Counted(o) /\ Compressing(o) /\ Layout(o.wire)
      /\ HeaderTells(o) /\ o.dropped = os.dropped /\ o.class_id = os.class_id
      /\ o.metadata_refers_forward = os.metadata_refers_forward
  BY <1>1, OpenStreamFile
<1>4. Sound(os')
  BY MessageActionDone DEF FileInv
<1>5. CASE RoleClash(o, c, metadata)
  <2>1. os' = o
    BY <1>1, <1>5
  <2> HIDE DEF o
  <2>2. QED
    BY <1>2, <1>3, <2>1 DEF FileInv
<1>6. CASE ~RoleClash(o, c, metadata)
  <2>1. os' = w
    BY <1>1, <1>6 DEF OpenFails
  <2>2. serialized \in BOOLEAN
    BY OutputStreamAssumption
  <2> HIDE DEF o
  <2>3. Sound(f) /\ Done(o, f) /\ id \in DOMAIN f.counts
    BY <1>2, <1>6, FindClassIdDone
  <2>4. /\ FileRight(f) /\ Counted(f) /\ Compressing(f) /\ Layout(f.wire)
        /\ c \in DOMAIN f.class_id /\ f.class_id[c] = id
        /\ metadata = IsMetadataId(f.class_id[c])
        /\ Extends(o.wire, f.wire) /\ f.dropped = o.dropped
        /\ \A d \in DOMAIN f.class_id :
             d # c => d \in DOMAIN o.class_id /\ f.class_id[d] = o.class_id[d]
    BY <1>2, <1>3, <1>6, FindClassIdFile
  <2> HIDE DEF f, id
  <2>5. PICK C \in SUBSET Class, D \in SUBSET Nat : IdRange(D) /\ f \in StreamRecord(C, D)
    BY <2>3, StreamOKIsRecord DEF Sound
  <2>6. FixedIds \subseteq D /\ id \in D /\ id \in Nat /\ DOMAIN f.class_id = C
    BY <2>3, <2>5 DEF Sound, StreamRecord
  <2>7. IdsDistinct(f)
    BY <2>3 DEF Sound, IdsInv
  <2>8. id \notin FixedIds
    BY <2>4, <2>7, FixedIdsDiffer DEF IdsDistinct
  <2>9. r \in StreamRecord(C, D) /\ Done(f, r)
    <3>1. CASE metadata
      BY <2>3, <2>5, <2>6, <3>1, RecordMetadataPositionOK, RecordPositionsDone DEF Done
    <3>2. CASE ~metadata
      BY <2>3, <2>5, <3>2 DEF Done, SameSettings
    <3>3. QED
      BY <3>1, <3>2
  <2>10. IF metadata
         THEN \E p \in Nat : /\ Recorded(f, r, p)
                             /\ r.metadata_positions = Append(f.metadata_positions, p)
                             /\ r.protoclass_positions = f.protoclass_positions
         ELSE r = f
    <3>1. CASE metadata
      <4> DEFINE p == BytesWritten(f)
                 u == RecordMetadataPosition(f)
      <4>1. /\ Recorded(f, u, p) /\ u.metadata_positions = Append(f.metadata_positions, p)
            /\ u.protoclass_positions = f.protoclass_positions
        BY <2>3, <2>4, <2>5, <2>6, RecordPositionsFile DEF Done
      <4>2. r = u
        BY <3>1
      <4> HIDE DEF p, u, r
      <4>3. p \in Nat
        BY <4>1 DEF Recorded
      <4>4. QED
        BY <3>1, <4>1, <4>2, <4>3
    <3>2. CASE ~metadata
      BY <3>2
    <3>3. QED
      BY <3>1, <3>2
  <2> HIDE DEF r
  <2>11. Wrote(r, w, id, body) \/ Dropped(r, w, id)
    <3>1. Writable(r)
      BY <2>9 DEF Done
    <3>2. /\ Wrote(r, WriteMessage(r, id, body, TRUE), id, body)
          /\ Dropped(r, WriteMessage(r, id, body, FALSE), id)
      BY <2>6, <2>9, <3>1, WriteMessageFile
    <3>3. serialized = TRUE \/ serialized = FALSE
      BY <2>2
    <3>4. QED
      BY <3>2, <3>3
  <2>12. w \in StreamRecord(C, D) /\ Done(r, w)
    <3>1. body \in Body
      BY BodiesOK
    <3> HIDE DEF body
    <3>2. QED
      BY <2>2, <2>6, <2>9, <3>1, WriteMessageOK, WriteMessageDone DEF Done
  <2> HIDE DEF w
  <2> DEFINE cell == Message(id, body, r.coded = "compressed")
  <2>13. Counted(w) /\ Compressing(w) /\ Told(f, w, cell, metadata)
    BY <2>4, <2>5, <2>6, <2>8, <2>9, <2>10, <2>11, <2>12, TellFile
  <2>14. /\ cell \in Cell /\ IsUserMessage(cell) /\ cell.id = id /\ cell.body = Content(c)
    BY <2>6, <2>8, BodiesOK DEF Message, Cell, IsUserMessage
  <2> HIDE DEF cell
  <2>15. FileRight(w) /\ Layout(w.wire)
    <3>1. c \in C /\ cell.id = f.class_id[c] /\ metadata = IsMetadataId(cell.id)
      BY <2>4, <2>6, <2>14
    <3>2. FileRight(f) /\ IdsDistinct(f) /\ f \in StreamRecord(C, D) /\ Layout(f.wire)
      BY <2>4, <2>5, <2>7
    <3> HIDE DEF body
    <3>3. QED
      BY <2>13, <2>14, <3>1, <3>2, ToldKeeps
  <2>16. w.opened /\ ~w.closed
    BY <1>2, <2>3, <2>9, <2>12 DEF Done, SameSettings
  <2>17. /\ w.metadata_refers_forward = os.metadata_refers_forward
         /\ o.metadata_refers_forward = os.metadata_refers_forward
    BY <1>3, <2>3, <2>9, <2>12 DEF Done, SameSettings
  <2>18. HeaderTells(w)
    <3>1. o.wire[2] = f.wire[2]
      BY <1>3, <2>4 DEF Extends, Layout
    <3>2. Extends(f.wire, w.wire)
      <4>1. f.wire \in Seq(Cell) /\ cell \in Cell /\ Told(f, w, cell, metadata)
        BY <2>5, <2>13, <2>14 DEF StreamRecord
      <4> QED
        BY <4>1, ToldExtends
    <3>3. f.wire[2] = w.wire[2]
      BY <2>4, <3>2 DEF Extends, Layout
    <3>4. QED
      BY <1>3, <2>17, <3>1, <3>3 DEF HeaderTells
  <2>19. FALSE \notin SerializeResults => w.dropped = << >>
    <3>1. ASSUME FALSE \notin SerializeResults PROVE w.dropped = << >>
      <4>1. serialized = TRUE
        BY <2>2, <3>1
      <4>2. r.dropped = << >>
        BY <1>3, <2>4, <2>10, <3>1 DEF FileInv, Recorded
      <4>3. Wrote(r, w, id, body)
        BY <2>9, <2>6, <4>1, WriteMessageFile DEF Done, w
      <4>4. QED
        BY <4>2, <4>3 DEF Wrote
    <3>2. QED
      BY <3>1
  <2>20. w.class_id = f.class_id
    BY <2>13 DEF Told
  <2>21. \A d \in DOMAIN w.class_id :
           \/ d \in DOMAIN os.class_id /\ w.class_id[d] = os.class_id[d]
           \/ d = c /\ metadata = IsMetadataId(w.class_id[d])
    BY <1>1, <1>3, <2>4, <2>20
  <2>22. QED
    BY <1>4, <2>1, <2>13, <2>15, <2>16, <2>17, <2>18, <2>19, <2>21 DEF FileInv
<1>7. QED
  BY <1>5, <1>6

\* What the footer says of the counts.
LEMMA ClassCountRight ==
  ASSUME NEW C, NEW D, NEW s \in StreamRecord(C, D), Counted(s), s.dropped = << >>,
         Layout(s.wire)
  PROVE  ClassCount(s) =
           {[class_id |-> id, count |-> Cardinality(Occurrences(s.wire, id))] :
              id \in {s.wire[i].id : i \in 2 .. Len(s.wire)}}
<1> DEFINE w == s.wire
           ids == {w[i].id : i \in 2 .. Len(w)}
<1>1. w \in Seq(Cell) /\ DOMAIN s.counts = D /\ DOMAIN w = 1 .. Len(w) /\ Len(w) \in Nat
  BY DEF StreamRecord
<1>2. \A i \in D : s.counts[i] = Cardinality(Occurrences(w, i))
  BY <1>1 DEF Counted
<1>3. \A i \in DOMAIN w : IsMessage(w[i]) <=> i # 1
  BY <1>1 DEF Layout, HasId, IsMessage
<1>4. \A id : Occurrences(w, id) # {} <=> id \in ids
  BY <1>1, <1>3 DEF Occurrences, HasId, IsMessage
<1>5. ids \subseteq D
  BY <1>1, <1>3 DEF Counted
<1>6. \A id : IsFiniteSet(Occurrences(w, id))
  <2>1. \A id : Occurrences(w, id) \in SUBSET (1 .. Len(w))
    BY <1>1 DEF Occurrences
  <2>2. IsFiniteSet(1 .. Len(w))
    BY <1>1, FS_Interval
  <2> HIDE DEF w
  <2>3. QED
    BY <2>1, <2>2, FS_Subset
<1> HIDE DEF w, ids
<1>7. \A i \in D : s.counts[i] > 0 <=> i \in ids
  <2> SUFFICES ASSUME NEW i \in D PROVE s.counts[i] > 0 <=> i \in ids
    OBVIOUS
  <2>1. IsFiniteSet(Occurrences(w, i))
    BY <1>6
  <2>2. Cardinality(Occurrences(w, i)) \in Nat
    BY <2>1, FS_CardinalityType
  <2>3. Cardinality(Occurrences(w, i)) = 0 <=> Occurrences(w, i) = {}
    BY <2>1, FS_EmptySet
  <2>4. QED
    BY <1>2, <1>4, <2>2, <2>3
<1>8. {j \in DOMAIN s.counts : s.counts[j] > 0} = ids
  BY <1>1, <1>5, <1>7
<1>9. \A i \in ids : s.counts[i] = Cardinality(Occurrences(w, i))
  BY <1>2, <1>5
<1>10. ClassCount(s) = {[class_id |-> i, count |-> s.counts[i]] : i \in ids}
  BY <1>8 DEF ClassCount
<1>11. QED
  BY <1>9, <1>10 DEF w, ids

\* A cell a reader looks for nothing in.
LEMMA NothingAppended ==
  ASSUME NEW C, NEW D, NEW s \in StreamRecord(C, D), FileRight(s),
         NEW cell \in Cell, ~IsProtoClass(cell), ~IsUserMessage(cell),
         NEW t, t.wire = Append(s.wire, cell), SameFile(s, t), t.dropped = s.dropped
  PROVE  FileRight(t)
<1> DEFINE w == s.wire
           v == Append(w, cell)
<1>1. /\ w \in Seq(Cell)
      /\ s.metadata_positions \in Seq(Nat) /\ s.protoclass_positions \in Seq(Nat)
  BY DEF StreamRecord
<1>2. Grows(w, w)
  BY <1>1 DEF Grows, Extends
<1>3. ~IsMetadata(cell)
  BY DEF IsMetadata
<1>4. /\ v \in Seq(Cell) /\ Extends(w, v)
      /\ \A i \in DOMAIN w : i \in DOMAIN v /\ v[i] = w[i]
      /\ ProtoClassesAt(v) = ProtoClassesAt(w) \cup IF IsProtoClass(cell) THEN {Len(v)} ELSE {}
      /\ MetadataAt(v) = MetadataAt(w) \cup IF IsMetadata(cell) THEN {Len(v)} ELSE {}
      /\ AllDecodable(w) /\ (IsUserMessage(cell) => Decodable(v, Len(v))) => AllDecodable(v)
  BY <1>1, <1>2, GrowsAndAppends
<1>5. ProtoClassesAt(w) \in SUBSET DOMAIN w /\ MetadataAt(w) \in SUBSET DOMAIN w
  BY DEF ProtoClassesAt, MetadataAt
<1>6. AllDecodable(w) /\ t.wire = v
  BY DEF FileRight
<1> HIDE DEF v
<1>7. ProtoClassesAt(v) = ProtoClassesAt(w) /\ MetadataAt(v) = MetadataAt(w) /\ AllDecodable(v)
  BY <1>3, <1>4, <1>6
<1>8. Places(v, s.protoclass_positions, ProtoClassesAt(w))
  BY <1>1, <1>4, <1>5, PlacesGrow DEF FileRight, Placed
<1>9. s.dropped = << >> => Places(v, s.metadata_positions, MetadataAt(w))
  BY <1>1, <1>4, <1>5, PlacesGrow DEF FileRight, Placed
<1>10. Placed(t)
  BY <1>6, <1>7, <1>8, <1>9 DEF Placed, SameFile
<1>11. \A j \in ProtoClassesAt(w) : v[j] = w[j]
  BY <1>4, <1>5
<1>12. ClassesDefined(t)
  BY <1>6, <1>7, <1>11 DEF FileRight, ClassesDefined, SameFile
<1>13. FilesDefined(t)
  <2>1. UNION {v[j].body.files : j \in ProtoClassesAt(v)}
          = UNION {w[j].body.files : j \in ProtoClassesAt(w)}
    BY <1>7, <1>11
  <2>2. \A j \in ProtoClassesAt(w) : Buildable(v, j)
    BY <1>1, <1>4, <1>5, BuildableKept DEF FileRight, FilesDefined
  <2>3. QED
    BY <1>6, <1>7, <1>11, <2>1, <2>2 DEF FileRight, FilesDefined, SameFile
<1>14. QED
  BY <1>6, <1>7, <1>10, <1>12, <1>13 DEF FileRight

\* The footer length and the end magic.
LEMMA PutMarkFile ==
  ASSUME NEW C, NEW D, NEW s \in StreamRecord(C, D), Writable(s), FileRight(s), Counted(s),
         NEW kind \in {"START_MAGIC", "FooterSize", "END_MAGIC"}, NEW body \in Body,
         NEW mark, mark = Mark(kind, body), NEW t, t = PutMark(s, kind, body)
  PROVE  /\ t \in StreamRecord(C, D) /\ Writable(t) /\ FileRight(t) /\ Counted(t)
         /\ t.wire = Append(s.wire, mark)
         /\ SameFile(s, t) /\ t.dropped = s.dropped
<1>1. mark \in Cell /\ ~IsMessage(mark) /\ ~IsProtoClass(mark) /\ ~IsUserMessage(mark)
  BY DEF Mark, Cell, IsMessage, IsProtoClass, IsUserMessage, HasId
<1>2. t = [s EXCEPT !.wire = Append(@, mark)]
  BY DEF PutMark, Writable
<1>3. t \in StreamRecord(C, D) /\ Writable(t)
  BY PutMarkOK, PutMarkDone DEF Done
<1>4. /\ t.wire = Append(s.wire, mark) /\ SameFile(s, t) /\ t.dropped = s.dropped
      /\ t.counts = s.counts
  BY <1>2 DEF StreamRecord, SameFile
<1>5. FileRight(t)
  BY <1>1, <1>4, NothingAppended
<1>6. s.wire \in Seq(Cell)
  BY DEF StreamRecord
<1>7. \A id : ~HasId(mark, id)
  BY <1>1 DEF HasId, IsMessage
<1>8. \A id : Occurrences(t.wire, id) = Occurrences(s.wire, id)
  BY <1>1, <1>4, <1>6, <1>7, OccurrencesCount
<1>9. \A i \in DOMAIN t.wire : (i \in DOMAIN s.wire /\ t.wire[i] = s.wire[i]) \/ t.wire[i] = mark
  BY <1>1, <1>4, <1>6
<1>10. Counted(t)
  BY <1>1, <1>4, <1>8, <1>9 DEF Counted
<1>11. QED
  BY <1>3, <1>4, <1>5, <1>10

\* The cells written are those of the file before the footer, and three more.
LEMMA FooterCells ==
  ASSUME NEW v \in Seq(Cell), NEW a \in Cell, NEW b \in Cell, NEW c \in Cell,
         NEW w, w = Append(Append(Append(v, a), b), c)
  PROVE  /\ w \in Seq(Cell) /\ Len(w) = Len(v) + 3 /\ Len(v) \in Nat
         /\ \A i \in 1 .. Len(v) : w[i] = v[i]
         /\ w[Len(v) + 1] = a /\ w[Len(v) + 2] = b /\ w[Len(v) + 3] = c
         /\ SubSeq(w, 1, Len(v)) = v
<1>1. /\ w \in Seq(Cell) /\ Len(w) = Len(v) + 3 /\ Len(v) \in Nat
      /\ \A i \in 1 .. Len(v) : w[i] = v[i]
      /\ w[Len(v) + 1] = a /\ w[Len(v) + 2] = b /\ w[Len(v) + 3] = c
  OBVIOUS
<1> DEFINE u == SubSeq(w, 1, Len(v))
<1>2. u \in Seq(Cell) /\ Len(u) = Len(v) /\ \A i \in 1 .. Len(u) : u[i] = w[i]
  BY <1>1
<1> HIDE DEF u
<1>3. \A i \in 1 .. Len(u) : u[i] = v[i]
  BY <1>1, <1>2
<1>4. u = v
  BY <1>2, <1>3, SeqEqual
<1>5. QED
  BY <1>1, <1>4 DEF u

\* write_footer and close, of an open stream: three cells are added.
LEMMA CloseStreamFile ==
  ASSUME NEW C, NEW D \in SUBSET Nat, NEW s \in StreamRecord(C, D), Writable(s),
         FixedIds \subseteq D, FileRight(s), Counted(s), Compressing(s), Layout(s.wire)
  PROVE  LET x == CloseStream(s)
         IN  /\ FileRight(x) /\ Counted(x) /\ x.dropped = s.dropped /\ Extends(s.wire, x.wire)
             /\ \E t \in StreamRecord(C, D) :
                  /\ Layout(t.wire) /\ Counted(t) /\ t.dropped = x.dropped /\ SameFile(t, x)
                  /\ x.wire = Append(Append(Append(t.wire,
                                Message(StreamFooterId, Footer(t, Len(t.wire)), FALSE)),
                                Mark("FooterSize", [size |-> FooterLen])),
                                Mark("END_MAGIC", NoBody))
<1> DEFINE o == [s EXCEPT !.closed = TRUE]
           p == StopCompression(o)
           t == GetBytesWritten(p)
           size == BytesWritten(p)
           f == Footer(t, size)
           u == WriteMessage(t, StreamFooterId, f, TRUE)
           m == PutMark(u, "FooterSize", [size |-> FooterLen])
           n == PutMark(m, "END_MAGIC", NoBody)
           x == CloseStream(s)
<1>1. x = IF n.status # "ok" THEN n ELSE [n EXCEPT !.coded = "null", !.raw = FALSE]
  BY DEF CloseStream, WriteFooter
<1> HIDE DEF x
<1>2. /\ o \in StreamRecord(C, D) /\ Writable(o) /\ Compressing(o) /\ FileRight(o) /\ Counted(o)
      /\ o.wire = s.wire /\ o.dropped = s.dropped
  <2>1. o \in StreamRecord(C, D) /\ Writable(o) /\ Compressing(o)
    BY DEF StreamRecord, Writable, Compressing
  <2>2. o.wire = s.wire /\ SameFile(s, o) /\ o.dropped = s.dropped /\ o.counts = s.counts
    BY DEF StreamRecord, SameFile
  <2> HIDE DEF o
  <2>3. Placed(o)
    BY <2>2 DEF FileRight, Placed, SameFile
  <2>4. ClassesDefined(o) /\ FilesDefined(o)
    BY <2>2 DEF FileRight, ClassesDefined, FilesDefined, SameFile
  <2>5. Counted(o)
    BY <2>2 DEF Counted
  <2>6. QED
    BY <2>1, <2>2, <2>3, <2>4, <2>5 DEF FileRight
<1> HIDE DEF o
<1>3. /\ p \in StreamRecord(C, D) /\ Writable(p) /\ Quiet(o, p) /\ p.coded = "raw" /\ ~p.compressed
  BY <1>2, StopCompressionOK, StopCompressionDone, StopCompressionFile DEF Done
<1>4. Compressing(p)
  BY <1>3 DEF Compressing
<1> HIDE DEF p
<1>5. /\ t \in StreamRecord(C, D) /\ Writable(t) /\ Quiet(p, t) /\ t.wire = p.wire
      /\ size = Len(t.wire) /\ t.coded = "raw"
  BY <1>3, <1>4, GetBytesWrittenOK, GetBytesWrittenDone, GetBytesWrittenFile DEF Done
<1>6. Quiet(o, t)
  BY <1>2, <1>3, <1>5, QuietTransitive
<1> HIDE DEF t, size
<1>7. FileRight(t) /\ Counted(t)
  BY <1>2, <1>5, <1>6, QuietKeeps DEF Quiet
<1>8. Layout(t.wire)
  <2>1. s.wire \in Seq(Cell) /\ t.wire \in Seq(Cell)
    BY <1>5 DEF StreamRecord
  <2>2. QED
    BY <1>2, <1>6, <2>1, LayoutGrows DEF Quiet
<1>9. f \in Body
  <2>1. t.wire \in Seq(Cell)
    BY <1>5 DEF StreamRecord
  <2>2. size \in Nat
    BY <1>5, <2>1
  <2>3. QED
    BY <1>5, <2>2, FooterOK
<1> HIDE DEF f
<1>10. StreamFooterId \in D /\ StreamFooterId \in Nat
  BY FixedIdsOK DEF FixedIds
<1> DEFINE cell == Message(StreamFooterId, f, t.coded = "compressed")
<1>11. /\ cell \in Cell /\ ~IsProtoClass(cell) /\ ~IsUserMessage(cell)
       /\ cell = Message(StreamFooterId, f, FALSE)
  BY <1>5, <1>9, <1>10, FixedIdsDiffer
     DEF Message, Cell, IsProtoClass, IsUserMessage, HasId, FixedIds
<1>12. /\ u \in StreamRecord(C, D) /\ Writable(u) /\ Wrote(t, u, StreamFooterId, f)
  BY <1>5, <1>9, <1>10, WriteMessageOK, WriteMessageDone, WriteMessageFile DEF Done
<1> HIDE DEF u
<1>13. u.wire = Append(t.wire, cell) /\ SameFile(t, u) /\ u.dropped = t.dropped
  BY <1>12 DEF Wrote, Counts
<1>14. Counted(u)
  BY <1>5, <1>7, <1>9, <1>10, <1>12, WroteCounted
<1> HIDE DEF cell
<1>15. FileRight(u)
  BY <1>5, <1>7, <1>11, <1>13, NothingAppended
<1> DEFINE mark1 == Mark("FooterSize", [size |-> FooterLen])
           mark2 == Mark("END_MAGIC", NoBody)
<1>16. [size |-> FooterLen] \in Body /\ NoBody \in Body
  BY BodiesOK DEF FooterLen
<1>17. /\ m \in StreamRecord(C, D) /\ Writable(m) /\ FileRight(m) /\ Counted(m)
       /\ m.wire = Append(u.wire, mark1) /\ SameFile(u, m) /\ m.dropped = u.dropped
  <2> DEFINE body == [size |-> FooterLen]
  <2>1. body \in Body
    BY <1>16
  <2>2. m = PutMark(u, "FooterSize", body) /\ mark1 = Mark("FooterSize", body)
    OBVIOUS
  <2> HIDE DEF body, m, mark1
  <2>3. "FooterSize" \in {"START_MAGIC", "FooterSize", "END_MAGIC"}
    OBVIOUS
  <2>4. u \in StreamRecord(C, D) /\ Writable(u) /\ FileRight(u) /\ Counted(u)
    BY <1>12, <1>14, <1>15
  <2>5. QED
    BY <2>1, <2>2, <2>3, <2>4, PutMarkFile, SMTT(30)
<1> HIDE DEF m, mark1
<1>18. /\ n \in StreamRecord(C, D) /\ Writable(n) /\ FileRight(n) /\ Counted(n)
       /\ n.wire = Append(m.wire, mark2) /\ SameFile(m, n) /\ n.dropped = m.dropped
  <2> DEFINE body == NoBody
  <2>1. body \in Body
    BY <1>16
  <2>2. n = PutMark(m, "END_MAGIC", body) /\ mark2 = Mark("END_MAGIC", body)
    OBVIOUS
  <2> HIDE DEF body, n, mark2
  <2>3. "END_MAGIC" \in {"START_MAGIC", "FooterSize", "END_MAGIC"}
    OBVIOUS
  <2>4. m \in StreamRecord(C, D) /\ Writable(m) /\ FileRight(m) /\ Counted(m)
    BY <1>17
  <2>5. QED
    BY <2>1, <2>2, <2>3, <2>4, PutMarkFile, SMTT(30)
<1> HIDE DEF n, mark2
<1>19. x = [n EXCEPT !.coded = "null", !.raw = FALSE]
  <2>1. n.status = "ok"
    BY <1>18 DEF Writable
  <2>2. QED
    BY <1>1, <2>1
<1>20. x.wire = n.wire /\ SameFile(n, x) /\ x.dropped = n.dropped /\ x.counts = n.counts
  <2>1. n \in StreamRecord(C, D)
    BY <1>18
  <2>2. QED
    BY <1>19, <2>1 DEF StreamRecord, SameFile
<1>21. FileRight(x) /\ Counted(x)
  <2>1. FileRight(n) /\ Counted(n)
    BY <1>18
  <2>2. Placed(x)
    BY <1>20, <2>1 DEF FileRight, Placed, SameFile
  <2>3. ClassesDefined(x) /\ FilesDefined(x)
    BY <1>20, <2>1 DEF FileRight, ClassesDefined, FilesDefined, SameFile
  <2>4. Counted(x)
    BY <1>20, <2>1 DEF Counted
  <2>5. QED
    BY <1>20, <2>1, <2>2, <2>3, <2>4 DEF FileRight
<1>22. x.dropped = t.dropped /\ SameFile(t, x)
  BY <1>13, <1>17, <1>18, <1>20 DEF SameFile
<1>23. x.wire = Append(Append(Append(t.wire, cell), mark1), mark2)
  BY <1>13, <1>17, <1>18, <1>20
<1>24. cell = Message(StreamFooterId, Footer(t, Len(t.wire)), FALSE)
  BY <1>5, <1>11 DEF f
<1>25. x.dropped = s.dropped
  BY <1>2, <1>6, <1>22 DEF Quiet
<1>26. Extends(s.wire, x.wire)
  <2>1. mark1 \in Cell /\ mark2 \in Cell
    BY <1>16 DEF mark1, mark2, Mark, Cell
  <2>2. t.wire \in Seq(Cell) /\ Extends(s.wire, t.wire)
    BY <1>2, <1>5, <1>6 DEF StreamRecord, Quiet, Grows
  <2>3. /\ Len(x.wire) = Len(t.wire) + 3 /\ Len(t.wire) \in Nat
        /\ \A i \in 1 .. Len(t.wire) : x.wire[i] = t.wire[i]
    <3>1. cell \in Cell
      BY <1>11
    <3>2. QED
      BY <1>23, <2>1, <2>2, <3>1, FooterCells
  <2>4. s.wire \in Seq(Cell)
    BY DEF StreamRecord
  <2>5. QED
    BY <2>2, <2>3, <2>4 DEF Extends
<1>27. QED
  BY <1>5, <1>7, <1>8, <1>21, <1>22, <1>23, <1>24, <1>25, <1>26 DEF x, mark1, mark2

\* The offsets lead to the cells that are to be found, to nothing else.
LEMMA PlacesCover ==
  ASSUME NEW w, NEW offsets, NEW cells, Places(w, offsets, cells)
  PROVE  {Target(w, offsets[n]) : n \in DOMAIN offsets} = cells
BY DEF Places

LEMMA FooterIsTrue ==
  ASSUME NEW C, NEW D \in SUBSET Nat, FixedIds \subseteq D, NEW x \in StreamRecord(C, D),
         FileRight(x), x.dropped = << >>,
         NEW t \in StreamRecord(C, D), Layout(t.wire), Counted(t), t.dropped = x.dropped,
         SameFile(t, x),
         x.wire = Append(Append(Append(t.wire,
                    Message(StreamFooterId, Footer(t, Len(t.wire)), FALSE)),
                    Mark("FooterSize", [size |-> FooterLen])),
                    Mark("END_MAGIC", NoBody))
  PROVE  FooterRight(x)
<1> DEFINE v == t.wire
           w == x.wire
           k == Len(v)
           foot == Footer(t, k)
           a == Message(StreamFooterId, foot, FALSE)
           b == Mark("FooterSize", [size |-> FooterLen])
           c == Mark("END_MAGIC", NoBody)
<1>1. v \in Seq(Cell) /\ k \in Nat
  BY DEF StreamRecord
<1>2. foot \in Body
  BY <1>1, FooterOK
<1>3. /\ foot.size = k /\ foot.metadata_offsets = t.metadata_positions
      /\ foot.protoclass_offsets = t.protoclass_positions
      /\ foot.class_count = ClassCount(t)
  BY DEF Footer
<1>4. StreamFooterId \in D /\ StreamFooterId \in Nat
  BY FixedIdsOK DEF FixedIds
<1>5. [size |-> FooterLen] \in Body /\ NoBody \in Body
  BY BodiesOK DEF FooterLen
<1> HIDE DEF foot
<1>6. /\ a \in Cell /\ a.kind = "message" /\ a.id = StreamFooterId /\ a.body = foot
      /\ b \in Cell /\ b.kind = "FooterSize" /\ c \in Cell /\ c.kind = "END_MAGIC"
  BY <1>2, <1>4, <1>5 DEF Message, Mark, Cell
<1>7. w = Append(Append(Append(v, a), b), c)
  BY DEF foot
<1>8. ClassCount(t) =
        {[class_id |-> id, count |-> Cardinality(Occurrences(v, id))] :
           id \in {v[i].id : i \in 2 .. Len(v)}}
  BY ClassCountRight
<1> HIDE DEF a, b, c, v, w
<1>9. /\ w \in Seq(Cell) /\ Len(w) = k + 3 /\ \A i \in 1 .. k : w[i] = v[i]
      /\ w[k + 1] = a /\ w[k + 2] = b /\ w[k + 3] = c /\ SubSeq(w, 1, k) = v
  BY <1>1, <1>6, <1>7, FooterCells
<1>10. k >= 2 /\ v[1].kind = "START_MAGIC" /\ HasId(v[2], StreamHeaderId)
       /\ \A i \in 3 .. k : IsMessage(v[i]) /\ v[i].id \notin {StreamHeaderId, StreamFooterId}
  BY DEF Layout, v
<1>11. {Target(w, t.metadata_positions[n]) : n \in DOMAIN t.metadata_positions} = MetadataAt(w)
  <2>1. Places(w, t.metadata_positions, MetadataAt(w))
    BY DEF FileRight, Placed, SameFile, w
  <2>2. QED
    BY <2>1, PlacesCover
<1>12. {Target(w, t.protoclass_positions[n]) : n \in DOMAIN t.protoclass_positions}
         = ProtoClassesAt(w)
  <2>1. Places(w, t.protoclass_positions, ProtoClassesAt(w))
    BY DEF FileRight, Placed, SameFile, w
  <2>2. QED
    BY <2>1, PlacesCover
<1> DEFINE f == Len(w) - 2
<1>13. f = k + 1 /\ f - 1 = k /\ w[f] = a /\ w[f + 1] = b /\ w[f + 2] = c
  BY <1>1, <1>9
<1> HIDE DEF f, k
<1>14. {v[i].id : i \in 2 .. k} = {w[i].id : i \in 2 .. k}
  <2>1. \A i \in 2 .. k : i \in 1 .. k
    BY <1>1
  <2>2. QED
    BY <1>9, <2>1
<1>15. a.body.class_count =
         {[class_id |-> id, count |-> Cardinality(Occurrences(SubSeq(w, 1, k), id))] :
            id \in {w[i].id : i \in 2 .. k}}
  <2> DEFINE CountsIn(q, ids) ==
               {[class_id |-> id, count |-> Cardinality(Occurrences(q, id))] : id \in ids}
  <2>1. ClassCount(t) = CountsIn(v, {v[i].id : i \in 2 .. k})
    BY <1>8 DEF k
  <2> HIDE DEF CountsIn
  <2>2. ClassCount(t) = CountsIn(SubSeq(w, 1, k), {w[i].id : i \in 2 .. k})
    BY <1>9, <1>14, <2>1
  <2>3. a.body.class_count = ClassCount(t)
    BY <1>3, <1>6
  <2>4. QED
    BY <2>2, <2>3 DEF CountsIn
<1>16. /\ Len(w) > 4 /\ w[1].kind = "START_MAGIC" /\ HasId(w[2], StreamHeaderId)
       /\ \A i \in 3 .. k : IsMessage(w[i]) /\ w[i].id \notin {StreamHeaderId, StreamFooterId}
  BY <1>1, <1>9, <1>10
<1>17. HasId(w[f], StreamFooterId) /\ w[f + 1].kind = "FooterSize" /\ w[f + 2].kind = "END_MAGIC"
  BY <1>6, <1>13 DEF HasId
<1>18. /\ w[f].body.size = f - 1
       /\ w[f].body.metadata_offsets = t.metadata_positions
       /\ w[f].body.protoclass_offsets = t.protoclass_positions
  BY <1>3, <1>6, <1>13
<1>19. w[f].body.class_count =
         {[class_id |-> id, count |-> Cardinality(Occurrences(SubSeq(w, 1, f - 1), id))] :
            id \in {w[i].id : i \in 2 .. f - 1}}
  BY <1>13, <1>15
<1>20. Truthful(w)
  BY <1>11, <1>12, <1>13, <1>16, <1>17, <1>18, <1>19 DEF Truthful, f
<1>21. /\ w[f].body.metadata_offsets = x.metadata_positions
       /\ w[f].body.protoclass_offsets = x.protoclass_positions
  BY <1>18 DEF SameFile
<1>22. QED
  BY <1>20, <1>21 DEF FooterRight, f, w

\* close
LEMMA CloseFile ==
  ASSUME FileInv(os), Close
  PROVE  /\ FileInv(os') /\ os'.opened /\ os'.class_id = os.class_id
         /\ os'.metadata_refers_forward = os.metadata_refers_forward
<1>1. os' = CloseStream(os) /\ Writable(os) /\ os.opened /\ ~os.closed
  BY DEF Close, Usable, FileInv, Sound
<1>2. PICK C \in SUBSET Class, D \in SUBSET Nat : IdRange(D) /\ os \in StreamRecord(C, D)
  BY StreamOKIsRecord DEF FileInv, Sound
<1>3. FixedIds \subseteq D /\ DOMAIN os.counts = D
  BY <1>2 DEF FileInv, Sound, StreamRecord
<1>4. os' \in StreamRecord(C, D) /\ SameIds(os, os')
  BY <1>1, <1>2, CloseStreamOK
<1>5. /\ os'.status = "ok" /\ os'.closed /\ os'.opened = os.opened
      /\ os'.compression = os.compression /\ os'.compression_type = os.compression_type
      /\ os'.metadata_refers_forward = os.metadata_refers_forward
  BY <1>1, <1>2, <1>3, CloseStreamDone, Zenon
<1>6. Sound(os')
  <2>1. StreamOK(os') /\ IdsInv(os')
    BY <1>2, <1>4, StreamOKIsRecord, SameIdsKeep DEF FileInv, Sound
  <2>2. DOMAIN os'.counts = D /\ os'.class_id = os.class_id
    BY <1>4 DEF StreamRecord, SameIds
  <2>3. QED
    BY <1>3, <1>5, <2>1, <2>2 DEF FileInv, Sound, IdsCounted
<1>7. FileRight(os) /\ Counted(os) /\ Compressing(os) /\ Layout(os.wire)
  BY <1>1 DEF FileInv
<1>8. /\ FileRight(os') /\ Counted(os')
      /\ os'.dropped = os.dropped /\ Extends(os.wire, os'.wire)
      /\ \E t \in StreamRecord(C, D) :
           /\ Layout(t.wire) /\ Counted(t) /\ t.dropped = os'.dropped /\ SameFile(t, os')
           /\ os'.wire = Append(Append(Append(t.wire,
                           Message(StreamFooterId, Footer(t, Len(t.wire)), FALSE)),
                           Mark("FooterSize", [size |-> FooterLen])),
                           Mark("END_MAGIC", NoBody))
  <2> DEFINE x == CloseStream(os)
  <2>1. /\ FileRight(x) /\ Counted(x)
        /\ x.dropped = os.dropped /\ Extends(os.wire, x.wire)
        /\ \E t \in StreamRecord(C, D) :
             /\ Layout(t.wire) /\ Counted(t) /\ t.dropped = x.dropped /\ SameFile(t, x)
             /\ x.wire = Append(Append(Append(t.wire,
                           Message(StreamFooterId, Footer(t, Len(t.wire)), FALSE)),
                           Mark("FooterSize", [size |-> FooterLen])),
                           Mark("END_MAGIC", NoBody))
    BY <1>1, <1>2, <1>3, <1>7, CloseStreamFile, Zenon
  <2>2. os' = x
    BY <1>1
  <2> HIDE DEF x
  <2>3. QED
    BY <2>1, <2>2
<1>9. FooterRight(os')
  <2>1. CASE os'.dropped = << >>
    BY <1>3, <1>4, <1>8, <2>1, FooterIsTrue
  <2>2. CASE os'.dropped # << >>
    BY <2>2 DEF FooterRight
  <2>3. QED
    BY <2>1, <2>2
<1>10. HeaderTells(os')
  <2>1. os'.wire[2] = os.wire[2]
    <3>1. Len(os.wire) \in Nat
      BY <1>2 DEF StreamRecord
    <3>2. \A i \in 1 .. Len(os.wire) : os'.wire[i] = os.wire[i]
      BY <1>8 DEF Extends
    <3>3. 2 \in 1 .. Len(os.wire)
      BY <1>7, <3>1 DEF Layout
    <3>4. QED
      BY <3>2, <3>3
  <2>2. QED
    BY <1>1, <1>5, <2>1 DEF FileInv, HeaderTells
<1>11. os'.class_id = os.class_id
  BY <1>4 DEF SameIds
<1>12. QED
  BY <1>1, <1>5, <1>6, <1>8, <1>9, <1>10, <1>11 DEF FileInv
-----------------------------------------------------------------------------
(* The theorems.                                                            *)

\* The file of a new stream
LEMMA NewStreamFile ==
  FileInv(NewStream(TRUE, 0, 1))
<1> DEFINE s == NewStream(TRUE, 0, 1)
<1>2. Sound(s)
  <2>1. StreamOK(s) /\ IdsInv(s)
    BY NewStreamOK, NewStreamIds
  <2>2. FixedIds \subseteq 0 .. ReservedLo + ReservedWidth - 1
    BY WireAssumption DEF FixedIds, StreamHeaderId, StreamFooterId, ProtoClassId,
                          StartCompressedSectionId, EndCompressedSectionId
  <2>3. QED
    BY <2>1, <2>2 DEF Sound, NewStream, IdsCounted
<1>3. /\ s.wire = << >> /\ ~s.closed /\ ~s.opened /\ s.class_id = << >>
      /\ s.metadata_positions = << >> /\ s.protoclass_positions = << >>
      /\ s.written_files = {} /\ s.dropped = << >> /\ \A i \in DOMAIN s.counts : s.counts[i] = 0
  BY DEF NewStream
<1> HIDE DEF s
<1>4. DOMAIN << >> = {}
  OBVIOUS
<1>5. /\ ProtoClassesAt(s.wire) = {} /\ MetadataAt(s.wire) = {}
      /\ \A id : Occurrences(s.wire, id) = {}
  BY <1>3, <1>4 DEF ProtoClassesAt, MetadataAt, Occurrences
<1>6. Placed(s)
  BY <1>3, <1>4, <1>5 DEF Placed, Places
<1>7. ClassesDefined(s) /\ FilesDefined(s) /\ AllDecodable(s.wire)
  BY <1>3, <1>4, <1>5 DEF ClassesDefined, FilesDefined, AllDecodable
<1>8. Cardinality({}) = 0
  BY FS_EmptySet
<1>9. Counted(s)
  BY <1>3, <1>4, <1>5, <1>8 DEF Counted
<1>10. FileInv(s)
  BY <1>2, <1>3, <1>6, <1>7, <1>9 DEF FileInv, FileRight
<1>11. QED
  BY <1>10 DEF s

\* A step that changes neither the file nor what is known of it
LEMMA SettingsFile ==
  ASSUME FileInv(os), Sound(os'), ~os.closed,
         os'.wire = os.wire, SameFile(os, os'), os'.dropped = os.dropped,
         os'.counts = os.counts, os'.opened = os.opened, os'.closed = os.closed,
         os'.compressed = os.compressed, os'.coded = os.coded,
         os.opened => os'.metadata_refers_forward = os.metadata_refers_forward
  PROVE  FileInv(os')
<1>1. Placed(os')
  BY DEF FileInv, FileRight, Placed, SameFile
<1>2. ClassesDefined(os') /\ FilesDefined(os') /\ AllDecodable(os'.wire)
  BY DEF FileInv, FileRight, ClassesDefined, FilesDefined, AllDecodable, SameFile
<1>3. Counted(os')
  BY DEF FileInv, Counted
<1>4. os'.opened /\ ~os'.closed => Layout(os'.wire) /\ Compressing(os')
  BY DEF FileInv, Compressing
<1>5. os'.opened => HeaderTells(os')
  BY DEF FileInv, HeaderTells
<1>6. QED
  BY <1>1, <1>2, <1>3, <1>4, <1>5 DEF FileInv, FileRight

\* Every step keeps the invariant.
LEMMA FileStep ==
  ASSUME OpenResults = {TRUE}, "UNCOMPRESSED" \notin LateCompressions,
         FileInv(os), [Next]_os
  PROVE  FileInv(os')
<1>1. CASE UNCHANGED os
  BY <1>1
<1>2. ASSUME NEW c \in Class, Write(c) \/ Metadata(c) PROVE FileInv(os')
  <2>1. PICK metadata \in BOOLEAN : IF metadata THEN Metadata(c) ELSE Write(c)
    BY <1>2
  <2>2. QED
    BY <2>1, MessageActionFile
<1>3. CASE Open
  <2>1. os' = OpenStream(os, TRUE) /\ ~os.closed
    BY <1>3 DEF Open, Usable
  <2>2. Sound(os') /\ os'.opened /\ ~os'.closed
    BY <2>1, OpenStreamDone DEF FileInv
  <2>3. /\ FileRight(os') /\ Counted(os') /\ Compressing(os') /\ Layout(os'.wire)
        /\ HeaderTells(os') /\ os'.dropped = os.dropped
    BY <2>1, OpenStreamFile
  <2>4. QED
    BY <2>2, <2>3 DEF FileInv
<1>4. PICK C \in SUBSET Class, D \in SUBSET Nat : os \in StreamRecord(C, D)
  BY StreamOKIsRecord DEF FileInv, Sound
<1>5. StreamOK(os') /\ IdsInv(os')
  BY TypeStep, IdsStep DEF FileInv, Sound, TypeOK
<1>6. CASE SetForwardMetadata
  <2>1. Sound(os')
    BY <1>5, <1>6 DEF SetForwardMetadata, FileInv, Sound, IdsCounted, Writable, Usable
  <2>2. /\ os'.wire = os.wire /\ SameFile(os, os') /\ os'.dropped = os.dropped
        /\ os'.counts = os.counts /\ os'.opened = os.opened /\ os'.closed = os.closed
        /\ os'.compressed = os.compressed /\ os'.coded = os.coded /\ ~os.closed
        /\ ~os.opened
    BY <1>4, <1>6 DEF SetForwardMetadata, Usable, StreamRecord, SameFile
  <2>3. QED
    BY <2>1, <2>2, SettingsFile
<1>7. ASSUME NEW t \in Compressions, SetCompression(t) PROVE FileInv(os')
  <2>1. Sound(os')
    BY <1>4, <1>5, <1>7
       DEF SetCompression, FileInv, Sound, IdsCounted, Writable, Usable, StreamRecord
  <2>2. /\ os'.wire = os.wire /\ SameFile(os, os') /\ os'.dropped = os.dropped
        /\ os'.counts = os.counts /\ os'.opened = os.opened /\ os'.closed = os.closed
        /\ os'.compressed = os.compressed /\ os'.coded = os.coded /\ ~os.closed
        /\ os'.metadata_refers_forward = os.metadata_refers_forward
    BY <1>4, <1>7 DEF SetCompression, Usable, StreamRecord, SameFile
  <2>3. QED
    BY <2>1, <2>2, SettingsFile
<1>8. CASE Close
  BY <1>8, CloseFile
<1>9. QED
  BY <1>1, <1>2, <1>3, <1>6, <1>7, <1>8 DEF Next

\* What the writer's properties need of the invariant.
LEMMA FileInvGives ==
  ASSUME FileInv(os)
  PROVE  DefinedBeforeUse /\ PositionsAddress /\ FooterTruthful
<1> DEFINE w == os.wire
<1>1. w \in Seq(Cell)
  BY StreamOKIsRecord DEF FileInv, Sound, StreamOK, StreamRecord
<1>2. FileRight(os)
  BY DEF FileInv
<1>3. ProtoClassesBefore(w, Len(w) + 1) = ProtoClassesAt(w)
  BY <1>1 DEF ProtoClassesBefore, ProtoClassesAt, IsProtoClass
<1>4. DefinedBeforeUse
  <2>1. \A i \in DOMAIN w : IsUserMessage(w[i]) => Decodable(w, i)
    BY <1>2 DEF FileRight, AllDecodable
  <2>2. \A j, k \in ProtoClassesAt(w) : j # k => w[j].body.files \cap w[k].body.files = {}
    BY <1>2 DEF FileRight, FilesDefined
  <2>3. \A j \in ProtoClassesAt(w) : Buildable(w, j)
    BY <1>2 DEF FileRight, FilesDefined
  <2>4. QED
    BY <1>3, <2>1, <2>2, <2>3 DEF DefinedBeforeUse
<1>5. ASSUME NEW offsets \in Seq(Nat), NEW cells, Places(w, offsets, cells)
      PROVE  \A m, n \in DOMAIN offsets : m < n => offsets[m] < offsets[n]
  <2>1. \A n \in DOMAIN offsets : offsets[n] \in Nat /\ offsets[n] < Target(w, offsets[n])
    BY DEF Target
  <2>2. QED
    BY <1>5, <2>1, SMTT(30) DEF Places, Target
<1>6. /\ \A offsets \in Seq(Nat) : Places(w, offsets, ProtoClassesAt(w))
                                   => Addresses(w, offsets, IsProtoClass)
      /\ \A offsets \in Seq(Nat) : Places(w, offsets, MetadataAt(w))
                                   => Addresses(w, offsets, IsMetadata)
  BY <1>5 DEF Places, Addresses, ProtoClassesAt, MetadataAt
<1>7. PositionsAddress
  <2>1. os.metadata_positions \in Seq(Nat) /\ os.protoclass_positions \in Seq(Nat)
    BY StreamOKIsRecord DEF FileInv, Sound, StreamOK, StreamRecord
  <2>2. QED
    BY <1>2, <1>5, <1>6, <2>1 DEF PositionsAddress, FileRight, Placed
<1>8. FooterTruthful
  BY DEF FileInv, FooterRight, Truthful, FooterTruthful, MetadataAt, ProtoClassesAt,
         IsProtoClass, Occurrences
<1>9. QED
  BY <1>4, <1>7, <1>8

\* The invariant holds in every state of a stream made with a file name.
LEMMA FilesRight ==
  ASSUME OpenResults = {TRUE}, "UNCOMPRESSED" \notin LateCompressions, FirstIds = {}
  PROVE  Spec => []FileInv(os)
<1>1. Init => FileInv(os)
  BY NewStreamFile DEF Init
<1>2. FileInv(os) /\ [Next]_os => FileInv(os)'
  BY FileStep
<1>3. QED
  BY <1>1, <1>2, PTL DEF Spec

\* find_class_id, write_protoclass: a reader that has read the file up to a message
\* can decode it: exactly one ProtoClass binds its id, to its class, and before it
\* stand the .proto file of the class with all that it imports, directly or not, and
\* the files of its extensions; no file is written twice or before one that it
\* imports, unless it was added for its extensions, whose imports the code does not
\* see to - for all classes, files, imports and sequences of calls.
THEOREM DefinitionsComeFirst ==
    OpenResults = {TRUE} /\ "UNCOMPRESSED" \notin LateCompressions /\ FirstIds = {} /\ Spec
        => []DefinedBeforeUse
<1> SUFFICES ASSUME OpenResults = {TRUE}, "UNCOMPRESSED" \notin LateCompressions, FirstIds = {}
             PROVE  Spec => []DefinedBeforeUse
  OBVIOUS
<1>1. FileInv(os) => DefinedBeforeUse
  BY FileInvGives
<1>2. Spec => []FileInv(os)
  BY FilesRight
<1>3. QED
  BY <1>1, <1>2, PTL

\* get_bytes_written, write_protoclass, metadata: every offset recorded is a place
\* where a reader can start and finds what was recorded, and none is left out.
THEOREM OffsetsAddress ==
    OpenResults = {TRUE} /\ "UNCOMPRESSED" \notin LateCompressions /\ FirstIds = {} /\ Spec
        => []PositionsAddress
<1> SUFFICES ASSUME OpenResults = {TRUE}, "UNCOMPRESSED" \notin LateCompressions, FirstIds = {}
             PROVE  Spec => []PositionsAddress
  OBVIOUS
<1>1. FileInv(os) => PositionsAddress
  BY FileInvGives
<1>2. Spec => []FileInv(os)
  BY FilesRight
<1>3. QED
  BY <1>1, <1>2, PTL

\* write_footer: the footer of a closed file tells its own place, the places of all
\* metadata and all ProtoClasses, and the number of messages of each class.
THEOREM FootersAreTrue ==
    OpenResults = {TRUE} /\ "UNCOMPRESSED" \notin LateCompressions /\ FirstIds = {} /\ Spec
        => []FooterTruthful
<1> SUFFICES ASSUME OpenResults = {TRUE}, "UNCOMPRESSED" \notin LateCompressions, FirstIds = {}
             PROVE  Spec => []FooterTruthful
  OBVIOUS
<1>1. FileInv(os) => FooterTruthful
  BY FileInvGives
<1>2. Spec => []FileInv(os)
  BY FilesRight
<1>3. QED
  BY <1>1, <1>2, PTL
=============================================================================
