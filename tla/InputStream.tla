----------------------------- MODULE InputStream -----------------------------
(***************************************************************************)
(* One a4::io::InputStream over one file: src/src/input_stream_impl.{h,cpp}*)
(* and the ProtoClassPool it decodes with, src/src/proto_class_pool.cpp.   *)
(*                                                                         *)
(* A call starts in Call and runs one message of the file per step, as the *)
(* loop next -> next_message -> bare_message does; discovery (the scan of  *)
(* the footers from the end of the file) runs one footer per step.  A      *)
(* message the reader hands out is named by its cell in the file.          *)
(***************************************************************************)
EXTENDS A4Wire, Integers, FiniteSetsExt, SequencesExt

CONSTANTS Calls,      \* the public methods the client uses
          Habits,     \* what else the client does with them: see Call
          WantedClass,\* the message class a client passes to try_read
          Resources   \* can the resource seek (TRUE, a file) or not (a pipe, a
                      \* socket): a subset of BOOLEAN

ASSUME InputStreamAssumption ==
    /\ Calls \subseteq {"next", "next_with_metadata", "all_metadata",
                        "new_metadata", "try_read", "skip_to_next_metadata"}
    /\ Habits \subseteq {"skip at once", "skip on", "try again"}
    /\ WantedClass \in Class
    /\ Resources \in SUBSET BOOLEAN

VARIABLES file,  \* the cells of the resource
          is,    \* the InputStreamImpl object
          log    \* what the client was handed, with what it could see then, and
                 \* the events among it

None == 0        \* no message (an empty shared pointer)
Nowhere == -1    \* a stream position the model does not follow: in the middle
                 \* of a compressed section, after the decompressor was dropped

\* ProtoClassPool: the class of each known id, and _encountered_file_descriptors
EmptyPool == [class |-> << >>, files |-> {}]

\* The locals of discover_all_metadata, while it runs; then: who called it
NoScan == [then |-> "none"]
NewScan(then, header) ==
    [then |-> then, header |-> header, size |-> 0, headers |-> << >>,
     forward |-> << >>, metadata |-> << >>, offsets |-> << >>]

(***************************************************************************)
(* metadata_index may be -1; current and pickup are cells.  Not in the     *)
(* code are shown, the current_metadata the client saw when it last got    *)
(* TRUE from new_metadata, and from, the position at the last call.        *)
(* status: "ok" until a FATAL or a failed assertion.                       *)
(***************************************************************************)
NewReader(seekable) ==
    [seekable |-> seekable, pos |-> 0, zin |-> FALSE,
     good |-> TRUE, error |-> FALSE, started |-> FALSE, discovered |-> FALSE,
     do_reset_metadata |-> FALSE, new_metadata |-> FALSE, header_index |-> 0,
     metadata_index |-> 0, forward |-> FALSE, current |-> None, pickup |-> None,
     metadata_per_header |-> << >>, metadata_offsets |-> << >>, headers_forward |-> << >>,
     pool |-> EmptyPool, scan |-> NoScan, call |-> "none", skipped |-> "none",
     from |-> 0, shown |-> None, status |-> "ok"]

ReaderInit == (\E seekable \in Resources : is = NewReader(seekable))
              /\ log = [all |-> << >>, events |-> << >>]
-----------------------------------------------------------------------------
(* Helpers *)
FileEnd == ByteCount(file)

SetError(r) == [r EXCEPT !.error = TRUE, !.good = FALSE]
SetEnd(r) == [r EXCEPT !.good = FALSE]
Fatal(r, why) == [r EXCEPT !.status = why]
Return(r) == [r EXCEPT !.call = "none",
                       !.skipped = IF r.call = "skip" THEN "true" ELSE @]

\* add_protoclass: a known id is ignored, a known file fails an assertion
AddProtoClass(pool, b) ==
    IF b.class_id \in DOMAIN pool.class THEN pool
    ELSE [class |-> [i \in DOMAIN pool.class \cup {b.class_id} |->
                        IF i = b.class_id THEN b.full_name ELSE pool.class[i]],
          files |-> pool.files \cup b.files]

SameFileAgain(pool, b) ==
    b.class_id \notin DOMAIN pool.class /\ pool.files \cap b.files # {}

\* verify_class_id: the format's own classes are compiled in
Registered(pool, id) == id \in FixedIds \/ id \in DOMAIN pool.class

\* next_message() from offset p outside a section: the first cell that is not
\* the start or the end of a section
FirstFrom(p) ==
    LET found == {q \in p .. FileEnd - 1 :
                    /\ IsMessage(file[q + 1])
                    /\ file[q + 1].id \notin CompressionIds
                    /\ \A k \in p .. q - 1 : HasId(file[k + 1], StartCompressedSectionId)
                                            \/ HasId(file[k + 1], EndCompressedSectionId)}
    IN IF found = {} THEN None ELSE Min(found) + 1
FoundAt(p, id) == p >= 0 /\ FirstFrom(p) # None /\ HasId(file[FirstFrom(p)], id)

\* handle_stream_command of the pool of one header: all ProtoClasses in order
PoolOf(cells) ==
    LET b(n) == file[cells[n]].body
        first(id) == Min({n \in DOMAIN cells : b(n).class_id = id})
        ids == {b(n).class_id : n \in DOMAIN cells}
    IN [class |-> [id \in ids |-> b(first(id)).full_name],
        files |-> UNION {b(first(id)).files : id \in ids}]
-----------------------------------------------------------------------------
(* Discovery *)

\* One round of the loop reads the footer that ends size bytes before the end of
\* the file.  A footer is where the code looks for it unless the file is cut.
FooterAt(scan) == FileEnd - scan.size - MagicLen - FooterSizeLen - FooterLen
FooterFound(scan) ==
    LET fo == FooterAt(scan) IN
    /\ fo >= 0
    /\ file[fo + FooterLen + 1].kind = "FooterSize"
    /\ FoundAt(fo, StreamFooterId)

\* Mutant of Base: offsets are taken to count from the start of the file
BaseOfFile(scan) == 0

\* Offsets in a footer count from the header of its own stream
Base(scan) == FooterAt(scan) - file[FooterAt(scan) + 1].body.size
ScanOnce(r) ==
    LET f == file[FooterAt(r.scan) + 1].body
        base == Base(r.scan)
        protos == [n \in DOMAIN f.protoclass_offsets |-> FirstFrom(base + f.protoclass_offsets[n])]
        offsets == [n \in DOMAIN f.metadata_offsets |-> base + f.metadata_offsets[n]]
        metadata == [n \in DOMAIN offsets |-> FirstFrom(offsets[n])]
        header == FirstFrom(base + MagicLen)
    IN IF \E n \in DOMAIN protos : ~HasId(file[protos[n]], ProtoClassId)
       THEN Fatal(r, "assert proto")
       ELSE IF \E c \in f.class_count : ~Registered(PoolOf(protos), c.class_id)
       THEN Fatal(r, "Unregistered class_id")
       ELSE [r EXCEPT !.pool = PoolOf(protos),
                      !.scan.size = @ + f.size + MagicLen + FooterSizeLen + FooterLen,
                      !.scan.headers = <<base>> \o @,
                      !.scan.forward = Append(@, file[header].body.metadata_refers_forward),
                      !.scan.metadata = <<metadata>> \o @,
                      !.scan.offsets = <<offsets>> \o @]

\* The end of discover_all_metadata: the reader stands behind the header again
Discovered(r) ==
    [r EXCEPT !.pos = r.scan.headers[r.scan.header + 1] + 2, !.zin = FALSE,
              !.discovered = TRUE, !.header_index = r.scan.header,
              !.metadata_per_header = @ \o r.scan.metadata,
              !.metadata_offsets = @ \o r.scan.offsets,
              !.headers_forward = @ \o r.scan.forward, !.scan = NoScan]
-----------------------------------------------------------------------------
(* Headers *)

\* What read_header does after discovery, and the caller after read_header:
\* startup() nothing more, handle_stream_command() a reset of the metadata
FirstMetadata(r) ==
    IF r.metadata_per_header[r.header_index + 1] = << >> THEN r.current
    ELSE r.metadata_per_header[r.header_index + 1][1]
HeaderDone(r) ==
    LET h == IF r.forward THEN r
             ELSE [r EXCEPT !.metadata_index = 0, !.current = FirstMetadata(r)]
    IN [h EXCEPT !.new_metadata = TRUE]

\* Mutant of FooterDone: the metadata of the last stream stays current
FooterDoneKeepsCurrent(r) ==
    LET n == [r EXCEPT !.do_reset_metadata = FALSE, !.new_metadata = TRUE]
    IN IF r.forward THEN [n EXCEPT !.metadata_index = -1]
       ELSE [n EXCEPT !.metadata_index = 0, !.current = FirstMetadata(n)]

FooterDone(r) ==
    LET n == [r EXCEPT !.current = None, !.do_reset_metadata = FALSE, !.new_metadata = TRUE]
    IN IF r.forward THEN [n EXCEPT !.metadata_index = -1]
       ELSE [n EXCEPT !.metadata_index = 0, !.current = FirstMetadata(n)]
AfterHeader(r, then) == IF then = "footer" THEN FooterDone(r) ELSE r

\* Mutant of HeaderFails: a broken header is taken for the end of the file
HeaderFailsQuietly(r, then) == SetEnd([r EXCEPT !.error = FALSE])

HeaderFails(r, then) ==
    IF then = "footer"
    THEN IF r.error THEN Fatal(r, "Corrupt header!") ELSE SetEnd(r)
    ELSE SetError(r)

\* ReadString(8) comes to the end of the file before it has the start magic
MagicMissing(r) == \/ r.pos = FileEnd
                   \/ r.pos + 1 = FileEnd /\ file[FileEnd].kind = "TORN_MAGIC"

\* read_header(requested), called by startup ("startup") or at a footer ("footer")
ReadHeader(r, requested, then) ==
    IF MagicMissing(r) THEN HeaderFails(SetEnd(r), then)
    ELSE IF \/ r.pos + 1 = FileEnd
            \/ file[r.pos + 1].kind # "START_MAGIC"
            \/ ~HasId(file[r.pos + 2], StreamHeaderId)
    THEN HeaderFails(SetError(r), then)
    ELSE LET forward == file[r.pos + 2].body.metadata_refers_forward
             h == [r EXCEPT !.pos = @ + 2, !.pool = EmptyPool, !.forward = forward]
             scan == NewScan(then, r.header_index)
         IN IF h.discovered THEN AfterHeader([h EXCEPT !.new_metadata = TRUE], then)
            ELSE IF ~forward
            THEN IF h.seekable THEN [h EXCEPT !.scan = scan]
                 ELSE HeaderFails(SetError(h), then)
            ELSE LET i == [h EXCEPT !.metadata_index = -1] IN
                 IF requested THEN [i EXCEPT !.scan = scan]
                 ELSE AfterHeader([i EXCEPT !.new_metadata = TRUE], then)
-----------------------------------------------------------------------------
(* Calls *)
Ready == is.status = "ok" /\ is.call # "none" /\ is.scan = NoScan
Reading == Ready /\ is.call \in {"next", "next_with_metadata", "skip"}

\* The client calls until the stream is not good() any more, and does not call
\* all_metadata() later than first, which is a FATAL "Coding Bug".  By its habits
\* it calls skip_to_next_metadata() before it read anything, goes on when that
\* returned FALSE, and calls try_read() again when that returned FALSE.
Call(c) ==
    /\ is.status = "ok" /\ is.call = "none" /\ (is.good \/ is.pickup # None)
    /\ c = "all_metadata" => ~is.started
    /\ c = "skip_to_next_metadata" => is.started \/ "skip at once" \in Habits
    /\ is.skipped = "false" => "skip on" \in Habits
    /\ c = "try_read" => is.pickup = None \/ "try again" \in Habits
    /\ is' = [is EXCEPT !.call = c, !.skipped = "none", !.from = is.pos]
    /\ UNCHANGED <<file, log>>

Startup ==
    /\ Ready /\ ~is.started /\ is.pickup = None
    /\ is.call # "skip_to_next_metadata"  \* seek_to() does not start the stream
    /\ is' = ReadHeader([is EXCEPT !.started = TRUE], is.call = "all_metadata", "startup")
    /\ UNCHANGED <<file, log>>

\* "if (tell == 0) break;"
AllScanned == is.scan.size > 0 /\ is.scan.headers[1] = 0
Scanning == is.status = "ok" /\ is.scan # NoScan

ScanFooter ==
    /\ Scanning /\ ~AllScanned /\ is.pickup = None /\ FooterFound(is.scan)
    /\ is' = ScanOnce(is)
    /\ UNCHANGED <<file, log>>

\* Mutant of CarryFails: an off-by-one at the last metadata
CarryFailsEarly(r, metadata) ==
    r.header_index > 0 \/ metadata >= Len(r.metadata_offsets[1])

\* carry_metadata and seek_to behind discovery.  0 < header is what the code says.
CarryFails(r, metadata) ==
    r.header_index > 0 \/ metadata > Len(r.metadata_offsets[1])
SeekTo(r, metadata) ==
    LET offsets == r.metadata_offsets[1]
        answer == [Return(r) EXCEPT !.skipped = "true"]
        refuse == [Return(r) EXCEPT !.skipped = "false"]
    IN IF CarryFails(r, metadata) THEN refuse
       ELSE IF r.headers_forward[1]
       THEN IF metadata = Len(offsets) THEN SetEnd([refuse EXCEPT !.metadata_index = metadata - 1])
            ELSE [answer EXCEPT !.metadata_index = metadata - 1, !.pos = offsets[metadata + 1]]
       ELSE [r EXCEPT !.metadata_index = metadata - 1, !.pos = offsets[metadata], !.call = "skip"]

ScanDone ==
    /\ Scanning /\ AllScanned
    /\ LET d == Discovered(is) IN
       is' = IF is.scan.then = "seek" THEN SeekTo(d, d.metadata_index + 1)
             ELSE AfterHeader(HeaderDone(d), is.scan.then)
    /\ UNCHANGED <<file, log>>

\* Something else stands where a footer, a header or a class was expected: the
\* scan fails, or what it parsed is a FATAL.  A message left by try_read is taken
\* for the footer.
ScanFails ==
    /\ Scanning /\ ~AllScanned
    /\ is.pickup # None \/ ~FooterFound(is.scan)
    /\ LET r == [is EXCEPT !.scan = NoScan] IN
       \/ is' = IF is.scan.then = "seek" THEN SetError(Return(r))
                ELSE HeaderFails(SetError(r), is.scan.then)
       \/ is' = Fatal(r, "Could not parse from stream!")
    /\ UNCHANGED <<file, log>>

DropCompression(r) == IF r.zin THEN [r EXCEPT !.zin = FALSE, !.pos = Nowhere] ELSE r

SkipToNextMetadata ==
    /\ Ready /\ is.call = "skip_to_next_metadata"
    /\ LET r == DropCompression(is) IN
       is' = IF r.discovered THEN SeekTo(r, r.metadata_index + 1)
             ELSE IF r.seekable THEN [r EXCEPT !.scan = NewScan("seek", r.header_index)]
             ELSE SetError(Return(r))
    /\ UNCHANGED <<file, log>>

AllMetadata ==
    /\ Ready /\ is.call = "all_metadata" /\ is.started
    /\ is' = Return(is)
    /\ UNCHANGED <<file, log>>

NewMetadata ==
    /\ Ready /\ is.call = "new_metadata" /\ is.started
    /\ is' = [Return(is) EXCEPT !.new_metadata = FALSE,
                                !.shown = IF is.new_metadata THEN is.current ELSE is.shown]
    /\ UNCHANGED <<file, log>>
-----------------------------------------------------------------------------
(* One round of next_message, handle_stream_command and handle_metadata *)

\* Mutant of ApplyReset: the change is not signalled
ApplyResetQuietly(r) ==
    LET h == r.header_index + 1
        m == r.metadata_index + 1
        known == h \in DOMAIN r.metadata_per_header /\ m \in DOMAIN r.metadata_per_header[h]
    IN IF ~r.do_reset_metadata THEN r
       ELSE [r EXCEPT !.do_reset_metadata = FALSE,
                      !.current = IF known THEN r.metadata_per_header[h][m] ELSE None]

\* next_message first makes the metadata after the one just passed the current one
ApplyReset(r) ==
    LET h == r.header_index + 1
        m == r.metadata_index + 1
        known == h \in DOMAIN r.metadata_per_header /\ m \in DOMAIN r.metadata_per_header[h]
    IN IF ~r.do_reset_metadata THEN r
       ELSE [r EXCEPT !.do_reset_metadata = FALSE, !.new_metadata = TRUE,
                      !.current = IF known THEN r.metadata_per_header[h][m] ELSE None]

\* The message bare_message returns, and the reader behind it
Incoming == IF is.pickup # None THEN is.pickup ELSE is.pos + 1

\* Mutant of Fetched: the bytes are not consumed
FetchedInPlace == ApplyReset(is)

Fetched == LET r == ApplyReset(is) IN
           IF r.pickup # None THEN [r EXCEPT !.pickup = None] ELSE [r EXCEPT !.pos = @ + 1]
Available == is.pickup # None \/ (is.started /\ is.good)
AtMessage == /\ Incoming \in DOMAIN file /\ IsMessage(file[Incoming])
             /\ is.pickup # None \/ is.zin = file[Incoming].z
Parsable == AtMessage /\ Registered(is.pool, file[Incoming].id)
Readable == Reading /\ Available /\ Parsable

\* What the client sees when it is handed a message: the class it was decoded
\* as and current_metadata()
Handed(r, i) == [at |-> i, class |-> r.pool.class[file[i].id], metadata |-> r.current]
HandOver(d) == log' = [all |-> Append(log.all, d),
                       events |-> IF IsEvent(file[d.at]) THEN Append(log.events, d)
                                  ELSE log.events]

ReadSection ==
    /\ Readable /\ file[Incoming].id \in CompressionIds
    /\ LET start == file[Incoming].id = StartCompressedSectionId IN
       is' = IF Fetched.zin = start THEN Fatal(Fetched, "assert _compressed_in")
             ELSE [Fetched EXCEPT !.zin = start]
    /\ UNCHANGED <<file, log>>

\* ExpectAtEnd may not know yet that the end is reached; then read_header finds out
ReadFooter ==
    /\ Readable /\ file[Incoming].id = StreamFooterId
    /\ LET r == [Fetched EXCEPT !.pos = @ + 2] IN
       IF r.pos > FileEnd \/ file[r.pos].kind # "END_MAGIC"
       THEN is' = Fatal(Fetched, "Unexpected end of file or corrupt footer")
       ELSE \/ r.pos = FileEnd /\ is' = SetEnd(r)
            \/ is' = ReadHeader([r EXCEPT !.header_index = @ + 1], FALSE, "footer")
    /\ UNCHANGED <<file, log>>

ReadProtoClass ==
    /\ Readable /\ file[Incoming].id = ProtoClassId
    /\ LET b == file[Incoming].body IN
       is' = IF SameFileAgain(is.pool, b)
             THEN Fatal(Fetched, "assert _encountered_file_descriptors")
             ELSE [Fetched EXCEPT !.pool = AddProtoClass(@, b)]
    /\ UNCHANGED <<file, log>>

\* Mutants of PassMetadata: the direction is ignored; metadata is not counted
PassMetadataForward(r, i) ==
    [r EXCEPT !.metadata_index = @ + 1, !.current = i, !.new_metadata = TRUE]
PassMetadataUncounted(r, i) ==
    IF r.forward THEN [r EXCEPT !.current = i, !.new_metadata = TRUE]
    ELSE [r EXCEPT !.do_reset_metadata = TRUE]

PassMetadata(r, i) ==
    LET m == [r EXCEPT !.metadata_index = @ + 1] IN
    IF r.forward THEN [m EXCEPT !.current = i, !.new_metadata = TRUE]
    ELSE [m EXCEPT !.do_reset_metadata = TRUE]

ReadMetadata ==
    /\ Readable /\ IsMetadata(file[Incoming])
    /\ LET r == PassMetadata(Fetched, Incoming) IN
       CASE is.call = "next" -> is' = r /\ UNCHANGED log
         [] is.call = "next_with_metadata" ->
              is' = Return(r) /\ HandOver(Handed(r, Incoming))
         [] is.call = "skip" -> is' = Return(r) /\ UNCHANGED log
    /\ UNCHANGED file

ReadEvent ==
    /\ Readable /\ IsEvent(file[Incoming])
    /\ is' = Return(Fetched)
    /\ IF is.call = "skip" THEN UNCHANGED log ELSE HandOver(Handed(Fetched, Incoming))
    /\ UNCHANGED file

\* The stream has ended or failed: an empty message
ReadNothing ==
    /\ Reading /\ is.pickup = None /\ is.started /\ ~is.good
    /\ is' = Return(ApplyReset(is))
    /\ UNCHANGED <<file, log>>

\* No message here (end of a cut file), a message of an unknown class, a second
\* header, a position inside a section the reader has dropped, or what is left of a
\* message: nobody looks whether as many bytes as its size were there, so that it is
\* read like a whole one if it is cut between two fields, and a FATAL otherwise.
ReadGarbage ==
    /\ Reading /\ Available
    /\ Parsable => \/ file[Incoming].id = StreamHeaderId
                   \/ is.pickup = None /\ IsCutShort(file[Incoming])
    /\ is' = Fatal(is, "Unexpected end of file or corruption")
    /\ UNCHANGED <<file, log>>

\* try_read(MessageType&): looks at the next message of the file whatever it is,
\* and puts it into _pickup when it is not of the class asked for
TryRead ==
    /\ Ready /\ is.call = "try_read" /\ is.started
    /\ LET i == is.pos + 1
           there == i \in DOMAIN file /\ IsMessage(file[i]) /\ is.zin = file[i].z
           match == file[i].id \in DOMAIN is.pool.class /\ is.pool.class[file[i].id] = WantedClass
       IN IF ~is.good THEN is' = Return(is) /\ UNCHANGED log
          ELSE IF ~there \/ ~Registered(is.pool, file[i].id)
          THEN is' = Fatal(is, "Unexpected end of file or corruption") /\ UNCHANGED log
          ELSE \/ /\ IsCutShort(file[i])
                  /\ is' = Fatal(is, "Unexpected end of file or corruption") /\ UNCHANGED log
               \/ /\ match /\ is' = [Return(is) EXCEPT !.pos = i]
                  /\ HandOver(Handed(is, i))
               \/ /\ ~match /\ is' = [Return(is) EXCEPT !.pos = i, !.pickup = i]
                  /\ UNCHANGED log
    /\ UNCHANGED file

ReadMessage == \/ ReadSection \/ ReadFooter \/ ReadProtoClass
               \/ ReadMetadata \/ ReadEvent \/ ReadNothing \/ ReadGarbage

\* The reader's own steps, once a method was called
ReaderStep == \/ Startup \/ ScanFooter \/ ScanDone \/ ScanFails
              \/ SkipToNextMetadata \/ AllMetadata \/ NewMetadata \/ TryRead
              \/ ReadMessage

ReaderNext == ReaderStep \/ \E c \in Calls : Call(c)
=============================================================================
