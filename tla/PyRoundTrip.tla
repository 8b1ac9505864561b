---------------------------- MODULE PyRoundTrip ----------------------------
(***************************************************************************)
(* A file is written by one Python OutputStream after the other, the way   *)
(* `cat` joins two files in test_rw of src/python/a4/stream.py, perhaps    *)
(* cut short by a crash, and is then read by one Python InputStream.       *)
(***************************************************************************)
EXTENDS PyOutputStream, PyInputStream

CONSTANTS MaxStreams,      \* bound: streams in the file
          MaxMessages,     \* bound: messages of the client in the file
          MaxUnserialized, \* bound: those of them that could not be serialised
          EventClasses,    \* classes the client writes as events
          MetadataClasses, \* classes the client writes as metadata
          SharedIds,       \* may a stream have two event classes, or one class in both
                           \* roles?  The ids of the Python writer do not allow it.
          ScanUncompressed, \* may the footers of an uncompressed stream be scanned?  The
                           \* reader closes the file when it does.
          LateScan,        \* may the footers be scanned inside of a loop when streams
                           \* use an id for different classes?
          Crashes          \* may a writer die before its file is complete?

ASSUME PyRoundTripAssumption ==
    /\ MaxStreams \in Nat \ {0} /\ MaxMessages \in Nat /\ MaxUnserialized \in Nat
    /\ EventClasses \cup MetadataClasses \subseteq Class
    /\ {SharedIds, ScanUncompressed, LateScan, Crashes} \subseteq BOOLEAN

VARIABLES phase,  \* "write", then "read"
          cut     \* a writer died

vars == <<po, pfile, pin, iter, plog, phase, cut>>
reader == <<pin, iter, plog>>

Messages(w) == Cardinality({i \in DOMAIN w : IsUserMessage(w[i])})
Unserialized(w) == Cardinality({i \in DOMAIN w : IsCutShort(w[i])})
Starts == {i \in DOMAIN pfile : pfile[i].kind = "START_MAGIC"}
ClassesUsed(w) == {w[i].body.class : i \in {j \in DOMAIN w : IsUserMessage(w[j])}}
Uncompressed(w) == \E i \in DOMAIN w : HasId(w[i], ProtoClassId) /\ ~w[i].z
Backward(w) ==
    \E i \in DOMAIN w : HasId(w[i], StreamHeaderId) /\ ~w[i].body.metadata_refers_forward

Init ==
    /\ PyInit /\ pfile = << >> /\ pin = NewPyReader(FALSE) /\ iter = NoIter /\ plog = << >>
    /\ phase = "write" /\ cut = FALSE

\* What a client can write without meeting the limits named above
RolesAllow(c, metadata) ==
    LET used == DOMAIN po.class_id
        same == {d \in used : IsMetadataId(po.class_id[d]) = metadata}
    IN SharedIds \/ (used \ same \subseteq Class \ {c} /\ same \subseteq {c})

WriterStep ==
    /\ phase = "write"
    /\ \/ /\ Messages(pfile) + Messages(po.wire) < MaxMessages
          /\ \/ \E c \in EventClasses : RolesAllow(c, FALSE) /\ PyWrite(c)
             \/ \E c \in MetadataClasses : RolesAllow(c, TRUE) /\ PyMetadata(c)
          /\ Unserialized(pfile) + Unserialized(po'.wire) <= MaxUnserialized
       \/ PyFlush
       \/ PyClose
    /\ UNCHANGED <<pfile, reader, phase, cut>>

\* The file grows by a stream; another writer follows, or the file is read
Goes(wire) ==
    /\ pfile' = pfile \o wire
    /\ \/ phase' = "read" /\ po' = NewPyStream(TRUE, TRUE)
       \/ /\ Cardinality(Starts) + 1 < MaxStreams /\ UNCHANGED phase
          /\ \E compression \in PyCompressions, forward \in PyDirections :
                 po' = Opened(compression, forward)

AppendStream ==
    /\ phase = "write" /\ po.closed /\ po.status = "ok" /\ Goes(po.wire)
    /\ UNCHANGED <<reader, cut>>

\* What had reached the disk is some beginning of the stream.  It may end within the
\* magic the stream begins with, and then nothing is appended to it, or within a
\* message of the client outside of a section, so that what there is of the message can
\* be parsed (a cut within any other cell is like one in front of it: README.md).
Torn == Mark("TORN_MAGIC", NoBody)
Crash ==
    /\ phase = "write" /\ Crashes /\ ~cut /\ ~po.closed
    /\ LET whole == Finished(po).wire
       IN \/ Goes(<<Torn>>) /\ phase' = "read"
          \/ \E n \in 0 .. Len(whole) - 1 : Goes(SubSeq(whole, 1, n))
          \/ \E n \in 1 .. Len(whole) :
                /\ IsUserMessage(whole[n]) /\ ~whole[n].z
                /\ Goes([SubSeq(whole, 1, n) EXCEPT ![n].body = PyContent(@.class, FALSE)])
    /\ cut' = TRUE
    /\ UNCHANGED reader

\* The reader scans the footers by itself where metadata refers backward
ScanAllowed == ScanUncompressed \/ ~Uncompressed(pfile)
Clash == Cardinality(ClassesUsed(pfile) \cap EventClasses) > 1
ReadingAllowed ==
    /\ Backward(pfile) => ScanAllowed
    /\ Clash /\ ~LateScan => ~(Backward(pfile) /\ Cardinality(Starts) > 1)

Read(step) == phase = "read" /\ ReadingAllowed /\ step /\ UNCHANGED <<po, phase, cut>>

ReadOn == Read(BeginLoop \/ NextEvent \/ NextGroup \/ NextInGroup)
Next ==
    \/ WriterStep \/ AppendStream \/ Crash
    \/ Read(iter.mode = "none" /\ Construct)
    \/ ReadOn
    \/ Read(ScanAllowed /\ (Clash /\ ~LateScan => iter.mode = "new") /\ Info)
    \/ Read(LeaveGroup)

Spec == Init /\ [][Next]_vars
-----------------------------------------------------------------------------
(* Properties *)

\* Every .proto file is written behind the files it imports, over all the
\* ProtoClass messages of a stream together, each file once: a reader can build
\* them in the order it finds them (the comment in get_descriptors_recursively).
FilesWritten ==
    FlattenSeq([i \in DOMAIN po.wire |->
        IF HasId(po.wire[i], ProtoClassId) THEN po.wire[i].body.file_descriptor ELSE << >>])
DependenciesFirst ==
    \A i \in DOMAIN FilesWritten :
        /\ \A j \in 1 .. i - 1 : FilesWritten[j] # FilesWritten[i]
        /\ ToSet(Dependencies[FilesWritten[i]]) \subseteq {FilesWritten[j] : j \in 1 .. i - 1}

\* "metadata has odd class_ids": a message of a class the client writes as metadata,
\* and of no other, is taken for metadata by the reader.
PyMetadataHasOddIds ==
    \A c \in DOMAIN po.class_id : IsMetadataId(po.class_id[c]) <=> c \in MetadataClasses

\* The places the writer records are those of the bytes in the file, compressed
\* ones counted as they came out of the compressor: where metadata or a ProtoClass
\* is said to be, it is, at the start of a section if there are sections - or, of metadata
\* that could not be serialised, the size and id that were written of it.
OpensWith(i, Wanted(_)) ==
    \/ i \in DOMAIN po.wire /\ Wanted(po.wire[i])
    \/ /\ i + 1 \in DOMAIN po.wire /\ HasId(po.wire[i], StartCompressedSectionId)
       /\ Wanted(po.wire[i + 1])
PyPositionsAddress ==
    /\ ~po.compressed /\ ~po.closed => po.bytes_written = ByteCount(po.wire)
    /\ \A n \in DOMAIN po.metadata_offsets : OpensWith(po.metadata_offsets[n] + 1, IsUserMessage)
    /\ \A n \in DOMAIN po.protoclass_offsets :
           OpensWith(po.protoclass_offsets[n] + 1, LAMBDA c : HasId(c, ProtoClassId))

\* Python readers hand out what Python writers wrote: every event once, in order,
\* parsed as the class it was written as and with the metadata that applies to it,
\* for a loop over events, over groups of metadata and with info() in between, over
\* several streams with metadata in either direction.  What is left of an event in
\* which the file ends may be the last of them.  Nothing is promised of the metadata of
\* an event that none applies to (it may come with that of a neighbouring stream), nor,
\* in a file that was cut, when metadata refers backward (the scan that would find it
\* stops at the cut).
Meaning == INSTANCE EventReader WITH file <- pfile, delivered <- plog
Abstract == INSTANCE EventReader WITH
    file <- pfile,
    delivered <- [n \in DOMAIN plog |->
                    IF Meaning!Applicable(plog[n].at) = None \/ (cut /\ Backward(pfile))
                    THEN [plog[n] EXCEPT !.metadata = Meaning!Applicable(plog[n].at)]
                    ELSE plog[n]]
PyImplementsEventReader == Abstract!AbstractSpec

AllDelivered == {i \in DOMAIN pfile : IsEvent(pfile[i])} \subseteq {plog[n].at : n \in DOMAIN plog}

\* A loop that ends normally has handed out every event, also of a file that was
\* cut in its last stream or in one before: a cut is met as an exception, or, in
\* the last bytes of a stream, said to be one; or it lies in the magic of a stream
\* behind a complete one, and nothing is lost with it.
PyNoEventLeftOut == pin.eof /\ pin.status = "ok" => pin.unclosed \/ AllDelivered

\* A complete file, of messages that could all be serialised, is read without an
\* exception, whatever the client asks in between; only leaving a group early is refused.
Serialized == \A i \in DOMAIN pfile : ~IsCutShort(pfile[i])
PyNoError ==
    ~cut /\ Serialized => pin.status = "ok" \/ (iter.left /\ pin.status = "AssertionError")

\* The size info() reports is that of the file: the footers are met once by the
\* scan and once by the loop and counted once.
PySizeExact ==
    ~cut /\ pin.status = "ok" /\ (pin.eof \/ pin.all_meta) => pin.size = PyFileEnd

\* The scan of the footers finds every header, footer and metadata message of the
\* file, and puts each header and each metadata message at its place.
PyDiscoveryExact ==
    ~cut /\ pin.status = "ok" /\ pin.all_meta =>
        /\ {<<k, pin.headers[k]>> : k \in DOMAIN pin.headers}
             = {<<i - 1, i>> : i \in {j \in DOMAIN pfile : HasId(pfile[j], StreamHeaderId)}}
        /\ Cardinality(pin.footers) = Cardinality(Starts)
        /\ \A i \in DOMAIN pfile : IsMetadata(pfile[i]) =>
               \E k \in DOMAIN pin.metadata :
                   pin.metadata[k] = i /\ k \in {i - 1, i - 2}
=============================================================================
