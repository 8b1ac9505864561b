------------------------------ MODULE RoundTrip ------------------------------
(***************************************************************************)
(* A file is written by one OutputStream after the other (the way A4Output *)
(* appends the files of its streams, and the way `cat` joins two files),   *)
(* perhaps cut short by a crash, and then read by one InputStream.         *)
(***************************************************************************)
EXTENDS OutputStream, InputStream

CONSTANTS MaxStreams,      \* bound: streams in the file
          MaxMessages,     \* bound: messages of the client in one stream
          EventClasses,    \* classes the client writes as events
          MetadataClasses, \* classes the client writes as metadata
          Directions,      \* values of metadata_refers_forward the writers use
          MixedDirections, \* may a stream whose metadata refers backward follow
                           \* one whose metadata refers forward?
          Crashes          \* may a writer die before its file is complete?

ASSUME RoundTripAssumption ==
    /\ MaxStreams \in Nat \ {0}
    /\ MaxMessages \in Nat
    /\ EventClasses \cup MetadataClasses \subseteq Class
    /\ Directions \in SUBSET BOOLEAN
    /\ MixedDirections \in BOOLEAN
    /\ Crashes \in BOOLEAN

VARIABLE phase  \* "write", then "read"

rtvars == <<os, file, is, log, phase>>

Headers == {i \in DOMAIN file : HasId(file[i], StreamHeaderId)}
MetadataCells(w) == {i \in DOMAIN w : IsMetadata(w[i])}
Written == {i \in DOMAIN os.wire : IsUserMessage(os.wire[i])}

RTInit == Init /\ ReaderInit /\ file = << >> /\ phase = "write"

\* A stream's direction is chosen before it is written to
DirectionAllowed ==
    /\ os.metadata_refers_forward \in Directions
    /\ \/ MixedDirections \/ os.metadata_refers_forward
       \/ \A i \in Headers : ~file[i].body.metadata_refers_forward

WriterStep ==
    /\ phase = "write"
    /\ \/ SetForwardMetadata
       \/ \E t \in Compressions : SetCompression(t)
       \/ /\ Cardinality(Written) < MaxMessages /\ DirectionAllowed
          /\ \/ \E c \in EventClasses : Write(c)
             \/ \E c \in MetadataClasses : Metadata(c)
       \/ Close
    /\ UNCHANGED <<file, is, log, phase>>

\* The complete file of a closed stream is appended
AppendStream ==
    /\ phase = "write" /\ os.closed /\ os.status = "ok"
    /\ file' = file \o os.wire
    /\ os' = NewStream(TRUE, 0, 1)
    /\ phase' = IF Cardinality(Headers) + 1 = MaxStreams THEN "read" ELSE phase
    /\ UNCHANGED <<is, log>>

\* A file that ends within the magic of the next stream, or within its last message
CutInMagic(w) == Append(w, Mark("TORN_MAGIC", NoBody))
CutInMessage(w) == [w EXCEPT ![Len(w)].body = [class |-> @.class, whole |-> FALSE]]

\* The writer dies: what had reached the disk is some beginning of the stream, which
\* may end within a message of the client or within the magic the stream begins with
\* (a cut within any other cell is like one before it: README.md).  It is read as it
\* is, or complete streams are appended to it, but not to what is left of a message.
Crash ==
    /\ phase = "write" /\ Crashes /\ os.opened
    /\ \E n \in 0 .. Len(os.wire) :
         LET left == file \o SubSeq(os.wire, 1, n)
             on_disk == phase' = "read" \/ (file = << >> /\ UNCHANGED phase)
         IN \/ n < Len(os.wire) /\ file' = left /\ on_disk
            \/ n = 0 /\ file' = CutInMagic(left) /\ on_disk
            \/ /\ n > 0 /\ IsUserMessage(os.wire[n])
               /\ file' = CutInMessage(left) /\ phase' = "read"
    /\ os' = NewStream(TRUE, 0, 1)
    /\ UNCHANGED <<is, log>>

StartReading ==
    /\ phase = "write" /\ file # << >> /\ ~os.opened
    /\ os' = NewStream(TRUE, 0, 1)
    /\ phase' = "read"
    /\ UNCHANGED <<file, is, log>>

Read == phase = "read" /\ ReaderNext /\ UNCHANGED <<os, phase>>
ReadOn == phase = "read" /\ ReaderStep /\ UNCHANGED <<os, phase>>
CallNext == phase = "read" /\ Call("next") /\ UNCHANGED <<os, phase>>

RTNext == WriterStep \/ AppendStream \/ Crash \/ StartReading \/ Read

\* A method that was called returns, and a client that reads a file comes back
\* to next(), whatever it asks in between, as the loops of the tests and of
\* a4dump do
RTSpec == RTInit /\ [][RTNext]_rtvars /\ WF_rtvars(ReadOn) /\ SF_rtvars(CallNext)
-----------------------------------------------------------------------------
(* Properties *)

\* A reader hands out the events of the file as EventReader promises: all of
\* them in order, each once, decoded as the class they were written as, with the
\* metadata that applies, and nothing behind what is left of an event - across
\* compressed sections, several streams in one file, and both directions of metadata.
Abstract == INSTANCE EventReader WITH delivered <- log.events
ImplementsEventReader == Abstract!AbstractSpec

\* The same, for a client that may leave events out by skipping: what it is
\* handed is in order and right.
HandedRight ==
    /\ \A n \in DOMAIN log.events : log.events[n] = Abstract!Delivery(log.events[n].at)
    /\ \A n \in 2 .. Len(log.all) : log.all[n - 1].at < log.all[n].at

\* next_with_metadata() hands out a metadata message before the events it
\* applies to.
MetadataPrecedesData ==
    LET all == log.all IN
    \A m, n \in DOMAIN all :
        IsEvent(file[all[n].at]) /\ all[m].at = Abstract!Applicable(all[n].at) => m < n

\* skip_to_next_metadata() puts the reader at the first metadata message behind
\* the place where it was called: before it when metadata refers forward, behind
\* it, where the events of the next block start, when metadata refers backward ...
Ahead == {i \in MetadataCells(file) : i > is.from}
SkipReachesNextBlock ==
    is.skipped = "true" =>
        /\ Ahead # {}
        /\ is.started /\ is.good
        /\ IF is.forward THEN FirstFrom(is.pos) = Min(Ahead) ELSE is.pos = Min(Ahead)

\* ... and answers FALSE only when there is none.
SkipRefusesAtEnd == is.skipped = "false" => Ahead = {}

\* The reader does not take a file that was written completely for a broken one,
\* unless it would have to seek and cannot.
NoReaderError == is.seekable => ~is.error

\* A file written by these writers is read without a FATAL or a failed assertion.
ReaderNoAbort == is.status = "ok"

AllDelivered ==
    {i \in DOMAIN file : IsEvent(file[i])} \subseteq {log.events[n].at : n \in DOMAIN log.events}

\* The file ends with a stream, or within the magic of the next one.
EndsBetweenStreams(w) ==
    LET n == Len(w) IN
    \/ n > 0 /\ w[n].kind = "END_MAGIC"
    \/ n > 1 /\ w[n].kind = "TORN_MAGIC" /\ w[n - 1].kind = "END_MAGIC"

\* A file that was cut ends in an error, unless the cut is between two streams or
\* within the magic of a stream behind a complete one, which the reader takes for a
\* "slightly strange but regular end": one that says it reached the end of the file
\* has handed out every event of the file, and no stream of it lacks its end.
CutFileIsNoticed ==
    ~is.good /\ ~is.error /\ is.status = "ok" =>
        /\ EndsBetweenStreams(file)
        /\ is.call = "none" => AllDelivered

\* Discovery finds, for each stream of the file in order, exactly its metadata
\* messages in order.
StreamOfHeader(h) ==
    LET last == {i \in Headers : i > h} IN
    {i \in MetadataCells(file) : i > h /\ \A k \in last : i < k}
DiscoveryExact ==
    is.discovered =>
        /\ Len(is.metadata_per_header) = Cardinality(Headers)
        /\ \A h \in Headers :
             LET found == is.metadata_per_header[Cardinality({k \in Headers : k <= h})] IN
             /\ {found[n] : n \in DOMAIN found} = StreamOfHeader(h)
             /\ \A m, n \in DOMAIN found : m < n => found[m] < found[n]

\* Between two calls, when the current metadata is not what the client was last
\* told of, new_metadata() is going to say so.
MetadataChangeSignalled ==
    is.call = "none" /\ is.started /\ is.good /\ is.current # is.shown => is.new_metadata

\* The client's loop comes to its end: every file is read to its end or to an error.
ReadingEnds == (phase = "read") ~> (~is.good \/ is.status # "ok")
=============================================================================
