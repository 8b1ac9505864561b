--------------------------- MODULE PyInputStream ---------------------------
(***************************************************************************)
(* The Python reader: class InputStream of src/python/a4/stream.py, the    *)
(* ZlibInputStream it reads compressed sections with and the               *)
(* ProtoClassPool of src/python/a4/proto_class_pool.py.                    *)
(*                                                                         *)
(* A method is an operator from the object to the object.  What it raises  *)
(* is left in status, and everything after it is skipped: Then(s, Step) is  *)
(* what the code does in Step, behind a call that left the object as s.     *)
(***************************************************************************)
EXTENDS ProtoFiles, FiniteSetsExt

CONSTANTS Nested,        \* classes with a singular field of a message type
          Splits         \* may a block of compressed bytes end right before a checksum?

ASSUME PyInputStreamAssumption ==
    /\ Nested \subseteq Class
    /\ Splits \in SUBSET BOOLEAN

VARIABLES pfile,  \* the file
          pin,    \* the InputStream object
          iter,   \* the iterator the client holds: "events", or that of itermetadata();
                  \* left: whether the client ever left a group of it early
          plog    \* what the client was handed

None == 0
PyFileEnd == Len(pfile)

(***************************************************************************)
(* pos: the place of the raw stream outside of a section.  zin: the        *)
(* ZlibInputStream, which remembers where it was made and never moves its  *)
(* tell(); next is the next cell of its section.  headers, metadata: the   *)
(* dicts, from places to cells.  footers: the keys of that dict.  got: the *)
(* message read_message returned.  found: what get_metadata_at returned.   *)
(* split: whether the reads of this file end right before the checksums.   *)
(* unclosed: whether next() has printed that the file is not closed.       *)
(***************************************************************************)
NoZlib == [tell |-> 0, next |-> 0]
NewPool == [class |-> << >>, files |-> {}, fixed |-> {}, clean |-> TRUE]
NewPyReader(split) ==
    [split |-> split, unclosed |-> FALSE, pos |-> 0, zin |-> NoZlib, closed |-> FALSE, eof |-> FALSE, size |-> 0,
     headers |-> << >>, footers |-> {}, metadata |-> << >>, all_meta |-> FALSE,
     pool |-> NewPool, current_header |-> None, current_metadata |-> None,
     metadata_change |-> FALSE, got |-> None, found |-> None, status |-> "ok"]
NoEvent == [at |-> None]
NoIter == [mode |-> "none", left |-> FALSE, next_first |-> NoEvent, first |-> NoEvent, meta |-> None,
           group |-> FALSE]

Fail(s, exception) == [s EXCEPT !.status = exception]
Then(s, Step(_)) == IF s.status = "ok" THEN Step(s) ELSE s
With(f, k, v) == [x \in DOMAIN f \cup {k} |-> IF x = k THEN v ELSE f[x]]
-----------------------------------------------------------------------------
(* ProtoClassPool *)
ClassesIn(files) == {c \in Class : FileOf[c] \in files}

\* add_file_descriptor for each file, and a class object for full_name.  The class
\* is made before class_ids has replaced the names of types by the types: a
\* singular message field that is not fixed keeps a string where a type should be.
ReportProtoClass(s, body) ==
    LET files == s.pool.files \cup ToSet(body.file_descriptor)
        c == body.full_name
    IN IF FileOf[c] \notin files THEN Fail(s, "KeyError")
       ELSE [s EXCEPT !.pool.clean = FALSE, !.pool.files = files,
                      !.pool.class = With(@, body.class_id,
                          [name |-> c, broken |-> c \in Nested \ s.pool.fixed])]

\* The property class_ids: every type a known file names must be known by now
ClassIds(s) ==
    IF s.pool.clean THEN s
    ELSE IF \E f \in s.pool.files : ~(ToSet(Dependencies[f]) \subseteq s.pool.files)
         THEN Fail(s, "RuntimeError")
         ELSE [s EXCEPT !.pool.clean = TRUE, !.pool.fixed = ClassesIn(s.pool.files)]

\* Ends in an exception unless a message of the class can be made and parsed
FindClassId(s, id) ==
    IF id \in FixedIds THEN s
    ELSE Then(ClassIds(s), LAMBDA p :
            IF id \notin DOMAIN p.pool.class \/ p.pool.class[id].broken
            THEN Fail(p, "AttributeError") ELSE p)
-----------------------------------------------------------------------------
(* Reading from in_stream *)
Tell(s) == IF s.zin # NoZlib THEN s.zin.tell ELSE s.pos

\* Behind what is left of a message the bytes do not begin another one: its size is
\* taken from them.  What the code makes of them (an exception of any of its layers, or
\* an object of some class) is not followed: "misread".  The end of the file is another
\* matter, since FromString(read(size)) does not see that there was less to read.
Misreads(i) == IsCutShort(pfile[i]) /\ i # PyFileEnd

\* The next message.  Behind the data a file ends (struct.error); a section that
\* ends before its checksum makes ZlibInputStream.read ask for more for ever.
Fetch(s) ==
    IF s.closed THEN Fail(s, "ValueError")
    ELSE IF s.zin = NoZlib
    THEN IF s.pos >= PyFileEnd THEN Fail(s, "struct.error")
         ELSE IF ~IsMessage(pfile[s.pos + 1]) \/ pfile[s.pos + 1].z THEN Fail(s, "DecodeError")
         ELSE IF Misreads(s.pos + 1) THEN Fail(s, "misread")
         ELSE [s EXCEPT !.pos = @ + 1, !.got = s.pos + 1]
    ELSE IF s.zin.next >= PyFileEnd THEN Fail(s, "hang")
         ELSE IF ~pfile[s.zin.next + 1].z THEN Fail(s, "zlib.error")
         ELSE IF ~IsMessage(pfile[s.zin.next + 1]) THEN Fail(s, "AssertionError")
         ELSE IF Misreads(s.zin.next + 1) THEN Fail(s, "misread")
         ELSE [s EXCEPT !.zin.next = @ + 1, !.got = s.zin.next + 1]

\* Mutant of DropCompression: what was read behind the data is not given back
DropCompressionNoSeek(s) ==
    IF s.zin = NoZlib THEN [s EXCEPT !.closed = TRUE]
    ELSE [s EXCEPT !.pos = PyFileEnd, !.zin = NoZlib]

\* close() of the ZlibInputStream goes back over what it read behind its data, if
\* it read that far: with a block that ended before the checksum it did not.  In an
\* uncompressed part in_stream is the file itself, and it is closed.
DropCompression(s) ==
    IF s.zin = NoZlib THEN [s EXCEPT !.closed = TRUE]
    ELSE IF s.zin.next < PyFileEnd /\ ~pfile[s.zin.next + 1].z THEN Fail(s, "zlib.error")
    ELSE [s EXCEPT !.pos = s.zin.next + (IF s.split THEN 0 ELSE 1), !.zin = NoZlib]

FetchKnown(s) == Then(Fetch(s), LAMBDA f : FindClassId(f, pfile[f.got].id))
OpenSection(s) == [s EXCEPT !.zin = [tell |-> s.pos, next |-> s.pos]]
Section(s) ==
    IF pfile[s.got].id = StartCompressedSectionId THEN OpenSection(s) ELSE DropCompression(s)

\* StartCompressedSection and EndCompressedSection are never returned: the code calls
\* itself behind each of them, at most once for a cell.  read[n]: after n such calls.
ReadMessage(s) ==
    LET read[n \in 0 .. PyFileEnd] ==
            IF n = 0 THEN FetchKnown(s)
            ELSE LET r == read[n - 1]
                 IN IF r.status = "ok" /\ pfile[r.got].id \in CompressionIds
                    THEN Then(Section(r), FetchKnown) ELSE r
    IN read[PyFileEnd]

\* A magic number is read from the file: whether it is there
AtMark(s, kind) == s.pos < PyFileEnd /\ pfile[s.pos + 1].kind = kind
SkipMark(s) == [s EXCEPT !.pos = IF @ < PyFileEnd THEN @ + 1 ELSE @]

\* Mutant of ReadHeader: the place of a header is that of its magic number
ReadHeaderAtMagic(s) ==
    IF ~AtMark(s, "START_MAGIC") THEN Fail(s, "AssertionError")
    ELSE Then(ReadMessage(SkipMark(s)), LAMBDA r : [r EXCEPT !.headers = With(@, s.pos, r.got)])

ReadHeader(s) ==
    IF ~AtMark(s, "START_MAGIC") THEN Fail(s, "AssertionError")
    ELSE Then(ReadMessage(SkipMark(s)), LAMBDA r : [r EXCEPT !.headers = With(@, s.pos + MagicLen, r.got)])

\* Mutant of ProcessFooter: a footer that was met before is counted again
ProcessFooterAgain(s, footer) ==
    LET start == Tell(s) - FooterLen - FooterSizeLen - MagicLen
    IN [s EXCEPT !.footers = @ \cup {start},
                 !.size = @ + footer.size + FooterLen + FooterSizeLen + MagicLen]

\* The key is not where the footer starts but as far before its end as the whole
\* end of the stream is long: the same for both callers
ProcessFooter(s, footer) ==
    LET start == Tell(s) - FooterLen - FooterSizeLen - MagicLen
    IN [s EXCEPT !.footers = @ \cup {start},
                 !.size = IF start \in s.footers THEN @
                          ELSE @ + footer.size + FooterLen + FooterSizeLen + MagicLen]
-----------------------------------------------------------------------------
(* read_all_meta_info *)

\* One message the footer points to is read, and its section is left
ReadAt(s, place) ==
    IF s.status # "ok" THEN s
    ELSE IF s.closed THEN Fail(s, "ValueError")
    ELSE ReadMessage([s EXCEPT !.pos = place, !.zin = NoZlib])

ReadProtoClassAt(s, place) ==
    Then(Then(ReadAt(s, place), LAMBDA r : ReportProtoClass(r, pfile[r.got].body)),
         DropCompression)

ReadMetadataAt(s, place) ==
    Then(ReadAt(s, place), LAMBDA r :
        IF ~IsMetadataId(pfile[r.got].id) THEN Fail(r, "AssertionError")
        ELSE DropCompression([r EXCEPT !.metadata = With(@, place, r.got)]))

\* sorted(): the offsets rearranged, in ascending order
Sorted(offsets) ==
    LET Index == DOMAIN offsets
        orders == {p \in [Index -> Index] : ToSet(p) = Index}
    IN CHOOSE s \in {[i \in Index |-> offsets[p[i]]] : p \in orders} :
           \A i, j \in Index : i < j => s[i] <= s[j]

\* What the footer at start points to; the offsets in it count from the header of
\* its own stream
ReadPlaces(f, start) ==
    LET footer == pfile[f.got].body
        base == start - footer.size
        protoclasses == Sorted(footer.protoclass_offsets)
        metadata == Sorted(footer.metadata_offsets)
        reported[n \in 0 .. Len(protoclasses)] ==
            IF n = 0 THEN ProcessFooter(f, footer)
            ELSE ReadProtoClassAt(reported[n - 1], base + protoclasses[n])
        read[n \in 0 .. Len(metadata)] ==
            IF n = 0 THEN reported[Len(protoclasses)]
            ELSE ReadMetadataAt(read[n - 1], base + metadata[n])
    IN read[Len(metadata)]

\* The footer that ends neg_offset before the end of the file
ReadFooter(s, neg_offset) ==
    LET start == PyFileEnd - neg_offset - MagicLen - FooterSizeLen - FooterLen
    IN Then(ReadAt(s, start), LAMBDA f : ReadPlaces(f, start))

Closes(neg_offset) ==
    LET end == PyFileEnd - neg_offset IN end > 0 /\ pfile[end].kind = "END_MAGIC"

Rewound(s) ==
    IF s.status = "ok" /\ s.size < PyFileEnd THEN [s EXCEPT !.pos = 0] ELSE s

\* From the last stream to the first, or to one that was not closed: scan[n] is after
\* n rounds of the loop
ReadFooters(s) ==
    LET HeaderOf(f) == ReadHeader([f EXCEPT !.pos = PyFileEnd - f.size, !.zin = NoZlib])
        scan[n \in 0 .. PyFileEnd] ==
            IF n = 0 THEN s
            ELSE LET r == scan[n - 1]
                 IN IF r.status = "ok" /\ Closes(r.size)
                    THEN Then(ReadFooter(r, r.size), HeaderOf) ELSE r
    IN Rewound(scan[PyFileEnd])

ReadAllMetaInfo(s) ==
    IF s.all_meta THEN s
    ELSE Then(ReadFooters([s EXCEPT !.all_meta = TRUE, !.zin = NoZlib, !.headers = << >>,
                                    !.footers = {}, !.metadata = << >>, !.size = 0]),
              LAMBDA r : IF r.closed THEN Fail(r, "ValueError")
                         ELSE [r EXCEPT !.pos = s.pos, !.zin = s.zin, !.got = s.got])

\* hkeys[i-1]: with i = 0 that is the last one
HeaderAt(s, place) ==
    LET before == {k \in DOMAIN s.headers : k <= place}
    IN s.headers[Max(IF before = {} THEN DOMAIN s.headers ELSE before)]

MetadataAt(s, place) ==
    LET Behind(r) ==
            LET behind == {k \in DOMAIN r.metadata : k > place}
            IN [r EXCEPT !.found = IF behind = {} THEN None ELSE r.metadata[Min(behind)]]
        before == {k \in DOMAIN s.metadata : k <= place}
    IN IF DOMAIN s.headers = {} THEN Fail(s, "IndexError")
       ELSE IF pfile[HeaderAt(s, place)].body.metadata_refers_forward
       THEN [s EXCEPT !.found = IF before = {} THEN None ELSE s.metadata[Max(before)]]
       ELSE Then(ReadAllMetaInfo(s), Behind)

FindCurrentMetadata(s) ==
    Then(MetadataAt(s, Tell(s)), LAMBDA r : [r EXCEPT !.current_metadata = r.found])
-----------------------------------------------------------------------------
(* next(): the event it returns is in got; got = None is StopIteration *)
StopIteration(s) == [s EXCEPT !.eof = TRUE, !.got = None]

\* Behind a footer: the length of the footer, the end magic, and either the end of
\* the file or the magic of the next stream
AfterFooter(s) ==
    LET NextStream(n) ==
            IF AtMark(n, "START_MAGIC") THEN SkipMark(n) ELSE StopIteration(SkipMark(n))
        EndMagic(e) ==
            IF ~AtMark(e, "END_MAGIC") THEN [StopIteration(SkipMark(e)) EXCEPT !.unclosed = TRUE]
            ELSE NextStream([SkipMark(e) EXCEPT !.current_metadata = None,
                                                !.metadata_change = TRUE])
    IN IF s.pos >= PyFileEnd THEN Fail(s, "struct.error") ELSE EndMagic(SkipMark(s))

\* Where a metadata message is put into the dict: its length is taken off the
\* place, which inside a section is where the section starts
MetadataKey(s) == Tell(s) - 1

\* Mutant of OnMetadata: the message refers forward whatever the header says
OnMetadataForward(s) ==
    [s EXCEPT !.metadata = With(@, MetadataKey(s), s.got), !.metadata_change = TRUE,
              !.current_metadata = s.got]

OnMetadata(s) ==
    LET m == [s EXCEPT !.metadata = With(@, MetadataKey(s), s.got), !.metadata_change = TRUE]
    IN IF pfile[s.current_header].body.metadata_refers_forward
       THEN [m EXCEPT !.current_metadata = s.got]
       ELSE FindCurrentMetadata(m)

OnEvent(s) == IF s.current_metadata = None THEN FindCurrentMetadata(s) ELSE s

Handle(r) ==
    LET cell == pfile[r.got] IN
    CASE cell.id = StreamHeaderId ->
           [r EXCEPT !.headers = With(@, Tell(r) - 1, r.got), !.current_header = r.got]
      [] cell.id = StreamFooterId -> AfterFooter(ProcessFooter(r, cell.body))
      [] cell.id = ProtoClassId -> ReportProtoClass(r, cell.body)
      [] IsMetadata(cell) -> OnMetadata(r)
      [] OTHER -> OnEvent(r)
HandleNext(s) == Then(ReadMessage(s), Handle)

\* After anything but an event the code calls next() again: read[n] is after n such calls
NextMessage(s) ==
    LET read[n \in 0 .. PyFileEnd] ==
            IF n = 0 THEN HandleNext(s)
            ELSE LET r == read[n - 1]
                 IN IF r.status # "ok" \/ r.eof \/ IsEvent(pfile[r.got]) THEN r ELSE HandleNext(r)
    IN read[PyFileEnd]
-----------------------------------------------------------------------------
(* The client.  It makes the object, may ask for info(), and loops over the *)
(* events, or over the groups of itermetadata() and the events of each.     *)

Running == pin.status = "ok" /\ ~pin.eof

\* The event that was read, with the class it was parsed as; it is handed out with
\* some metadata
Parsed(s) == [at |-> s.got, class |-> s.pool.class[pfile[s.got].id].name]
Handed(event, metadata) ==
    [at |-> event.at, class |-> event.class, metadata |-> metadata]

\* InputStream(file)
Construct == \E split \in Splits :
    LET h == ReadHeader(NewPyReader(split)) IN
    /\ pin' = IF h.status # "ok" THEN h
              ELSE [h EXCEPT !.current_header = h.got, !.metadata_change = TRUE]
    /\ iter' = [NoIter EXCEPT !.mode = "new"]
    /\ UNCHANGED <<pfile, plog>>

\* info() reads the headers it knows, and there must be one
Info ==
    /\ Running /\ iter.mode # "none"
    /\ LET r == ReadAllMetaInfo(pin) IN
       pin' = IF r.status = "ok" /\ DOMAIN r.headers = {} THEN Fail(r, "IndexError") ELSE r
    /\ UNCHANGED <<pfile, iter, plog>>

BeginLoop ==
    /\ Running /\ iter.mode = "new"
    /\ \E mode \in {"events", "groups"} : iter' = [iter EXCEPT !.mode = mode]
    /\ UNCHANGED <<pfile, pin, plog>>

NextEvent ==
    /\ Running /\ iter.mode = "events"
    /\ \E r \in {NextMessage(pin)} :
       /\ pin' = r
       /\ plog' = IF r.status = "ok" /\ ~r.eof
                  THEN Append(plog, Handed(Parsed(r), r.current_metadata)) ELSE plog
    /\ UNCHANGED <<pfile, iter>>

\* metaiter.next(): the first event of the group is known from the group before
NextGroup ==
    /\ Running /\ iter.mode = "groups" /\ ~iter.group
    /\ IF ~pin.metadata_change
       THEN pin' = Fail(pin, "AssertionError") /\ UNCHANGED iter
       ELSE \E r \in {IF iter.next_first = NoEvent THEN NextMessage(pin) ELSE pin} :
            LET first == IF iter.next_first = NoEvent THEN Parsed(r) ELSE iter.next_first
            IN IF r.status # "ok" \/ r.eof THEN pin' = r /\ UNCHANGED iter
               ELSE /\ pin' = [r EXCEPT !.metadata_change = FALSE]
                    /\ iter' = [iter EXCEPT !.next_first = first, !.first = first,
                                            !.meta = r.current_metadata, !.group = TRUE]
    /\ UNCHANGED <<pfile, plog>>

\* Mutant of NextInGroup: the event that ends a group is not kept for the next one
NextInGroupLost ==
    /\ Running /\ iter.mode = "groups" /\ iter.group
    /\ IF iter.first # NoEvent
       THEN /\ plog' = Append(plog, Handed(iter.first, iter.meta))
            /\ iter' = [iter EXCEPT !.first = NoEvent] /\ UNCHANGED pin
       ELSE \E r \in {NextMessage(pin)} :
            /\ pin' = r
            /\ IF r.status # "ok" \/ r.eof \/ r.metadata_change
               THEN iter' = [iter EXCEPT !.group = FALSE, !.next_first = NoEvent] /\ UNCHANGED plog
               ELSE plog' = Append(plog, Handed(Parsed(r), iter.meta)) /\ UNCHANGED iter
    /\ UNCHANGED pfile

\* eventiter.next(): an event that comes with a change of the metadata is the first
\* of the next group
NextInGroup ==
    /\ Running /\ iter.mode = "groups" /\ iter.group
    /\ IF iter.first # NoEvent
       THEN /\ plog' = Append(plog, Handed(iter.first, iter.meta))
            /\ iter' = [iter EXCEPT !.first = NoEvent] /\ UNCHANGED pin
       ELSE \E r \in {NextMessage(pin)} :
            /\ pin' = r
            /\ IF r.status # "ok" \/ r.eof
               THEN iter' = [iter EXCEPT !.group = FALSE] /\ UNCHANGED plog
               ELSE IF r.metadata_change
               THEN /\ iter' = [iter EXCEPT !.group = FALSE, !.next_first = Parsed(r)]
                    /\ UNCHANGED plog
               ELSE plog' = Append(plog, Handed(Parsed(r), iter.meta)) /\ UNCHANGED iter
    /\ UNCHANGED pfile

\* The client leaves the loop over a group's events early
LeaveGroup ==
    /\ Running /\ iter.group
    /\ iter' = [iter EXCEPT !.group = FALSE, !.left = TRUE]
    /\ UNCHANGED <<pfile, pin, plog>>
=============================================================================
