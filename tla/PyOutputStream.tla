--------------------------- MODULE PyOutputStream ---------------------------
(***************************************************************************)
(* The Python writer: class OutputStream of src/python/a4/stream.py and    *)
(* ZlibOutputStream of src/python/a4/zlib_stream.py.                       *)
(*                                                                         *)
(* As in OutputStream, a public method is one action and the methods it    *)
(* calls are operators from the object to the object.  A compressed        *)
(* section ends with a cell of its own, the checksum zlib writes when it   *)
(* is closed, so that the compressed bytes of a section are more than what *)
(* was written into it.                                                    *)
(***************************************************************************)
EXTENDS ProtoFiles

CONSTANTS PyCompressions,  \* values of the constructor's argument compression
          PyDirections,    \* values of its argument metadata_refers_forward
          PySerializeResults \* can SerializeToString return and raise

\* get_descriptors_recursively: a file, then each of its dependencies in turn
descriptors[f \in File] ==
    <<f>> \o FlattenSeq([i \in DOMAIN Dependencies[f] |-> descriptors[Dependencies[f][i]]])

ASSUME PyOutputStreamAssumption ==
    /\ PyCompressions \in SUBSET BOOLEAN
    /\ PyDirections \in SUBSET BOOLEAN
    /\ PySerializeResults \in SUBSET BOOLEAN

VARIABLE po  \* the OutputStream object

(***************************************************************************)
(* pre: _pre_compress_bytes_written.  zbytes: bytes_written of the current *)
(* ZlibOutputStream.  class_id: class_id_map.  status: the exception that  *)
(* ended a call, or "ok".                                                  *)
(***************************************************************************)
NewPyStream(compression, forward) ==
    [compression |-> compression, metadata_refers_forward |-> forward,
     compressed |-> FALSE, closed |-> FALSE, bytes_written |-> 0, pre |-> 0, zbytes |-> 0,
     next_class_id |-> 0, next_metadata_class_id |-> 1, class_id |-> << >>,
     written_fdps |-> {}, metadata_offsets |-> << >>, protoclass_offsets |-> << >>,
     wire |-> << >>, status |-> "ok"]

\* The checksum at the end of the data of a zlib stream
ZlibEnd == [kind |-> "ZlibEnd", id |-> 0, body |-> NoBody, z |-> TRUE]
-----------------------------------------------------------------------------
(* Helpers *)
Put(s, cell) ==
    [s EXCEPT !.wire = Append(@, cell), !.bytes_written = @ + 1,
              !.zbytes = IF s.compressed THEN @ + 1 ELSE @]

PyWriteMessage(s, id, body) == Put(s, Message(id, body, s.compressed))

\* Its size and id are written and counted before SerializeToString raises, because a
\* required field of the message is not set: then they are all there is of it, and the
\* client, who is told, can go on with the object.
PyContent(c, serialized) == [class |-> c, whole |-> serialized]

\* A class of the format has its id from proto_class_pool.fixed_class_ids and
\* writes no ProtoClass, so writing one of its messages is write_message
PyStartCompression(s) ==
    LET w == PyWriteMessage(s, StartCompressedSectionId, [compression |-> "ZLIB"])
    IN [w EXCEPT !.pre = w.bytes_written, !.compressed = TRUE, !.zbytes = 0]

\* ZlibOutputStream.close()
CloseZlib(s) == [s EXCEPT !.wire = Append(@, ZlibEnd), !.zbytes = @ + 1]

\* Mutant of PyStopCompression: what was written into the section is counted
\* instead of what came out of the compressor
PyStopCompressionPlain(s) ==
    [CloseZlib(PyWriteMessage(s, EndCompressedSectionId, NoBody)) EXCEPT !.compressed = FALSE]

PyStopCompression(s) ==
    LET c == CloseZlib(PyWriteMessage(s, EndCompressedSectionId, NoBody))
    IN [c EXCEPT !.bytes_written = c.zbytes + c.pre, !.compressed = FALSE]

\* get_file_descriptor_protos: the files not written yet, each once
NewFiles(s, files) ==
    LET fdps[n \in 0 .. Len(files)] ==
            IF n = 0 THEN << >>
            ELSE IF files[n] \in s.written_fdps \cup ToSet(fdps[n - 1]) THEN fdps[n - 1]
            ELSE Append(fdps[n - 1], files[n])
    IN fdps[Len(files)]

\* The section is closed before the offset is taken and opened again behind
AtOffset(s, offsets, id, body) ==
    LET t == IF s.compressed THEN PyStopCompression(s) ELSE s
        r == [t EXCEPT ![offsets] = Append(@, t.bytes_written)]
    IN PyWriteMessage(IF s.compression THEN PyStartCompression(r) ELSE r, id, body)

\* Mutant of PyWriteProtoClass: the files are not reversed
PyWriteProtoClassForward(s, id, c) ==
    LET fdps == NewFiles(s, descriptors[FileOf[c]])
    IN AtOffset([s EXCEPT !.written_fdps = @ \cup ToSet(fdps)], "protoclass_offsets",
                ProtoClassId, [class_id |-> id, full_name |-> c, file_descriptor |-> fdps])

PyWriteProtoClass(s, id, c) ==
    LET fdps == NewFiles(s, Reverse(descriptors[FileOf[c]]))
    IN AtOffset([s EXCEPT !.written_fdps = @ \cup ToSet(fdps)], "protoclass_offsets",
                ProtoClassId, [class_id |-> id, full_name |-> c, file_descriptor |-> fdps])

\* A known class keeps its id, whatever it is used for now; the counters go up
\* by one
GetClassId(s, c, metadata) ==
    IF c \in DOMAIN s.class_id THEN s
    ELSE LET id == IF metadata THEN s.next_metadata_class_id ELSE s.next_class_id
             n == IF metadata THEN [s EXCEPT !.next_metadata_class_id = @ + 1]
                  ELSE [s EXCEPT !.next_class_id = @ + 1]
         IN [PyWriteProtoClass(n, id, c) EXCEPT
               !.class_id = [d \in DOMAIN s.class_id \cup {c} |->
                                IF d = c THEN id ELSE s.class_id[d]]]

PyWriteHeader(s) ==
    PyWriteMessage(Put(s, Mark("START_MAGIC", NoBody)), StreamHeaderId,
                   [metadata_refers_forward |-> s.metadata_refers_forward])

\* No class_count: the Python writer does not count its messages
PyFooter(s) ==
    [size |-> s.bytes_written, metadata_offsets |-> s.metadata_offsets,
     protoclass_offsets |-> s.protoclass_offsets, class_count |-> {}]

\* The length of the footer is written past the counter of bytes
PyWriteFooter(s) ==
    LET f == PyWriteMessage(s, StreamFooterId, PyFooter(s))
        n == [f EXCEPT !.wire = Append(@, Mark("FooterSize", [size |-> 1]))]
    IN Put(n, Mark("END_MAGIC", NoBody))

Finished(s) == PyWriteFooter(IF s.compressed THEN PyStopCompression(s) ELSE s)

\* The constructor opens a section whatever compression says
Opened(compression, forward) ==
    PyStartCompression(PyWriteHeader(NewPyStream(compression, forward)))

PyInit == \E compression \in PyCompressions, forward \in PyDirections :
              po = Opened(compression, forward)
-----------------------------------------------------------------------------
(* The public methods *)
PyUsable == ~po.closed /\ po.status = "ok"

PyWrite(c) ==
    /\ PyUsable
    /\ \E serialized \in PySerializeResults :
         LET s == GetClassId(po, c, FALSE)
         IN po' = PyWriteMessage(s, s.class_id[c], PyContent(c, serialized))

\* The offset is recorded whether or not there will be a message at it
PyMetadata(c) ==
    /\ PyUsable
    /\ \E serialized \in PySerializeResults :
         LET s == GetClassId(po, c, TRUE)
         IN po' = AtOffset(s, "metadata_offsets", s.class_id[c], PyContent(c, serialized))

\* flush() is not defined for a ZlibOutputStream
PyFlush ==
    /\ PyUsable
    /\ po' = IF po.compressed THEN [po EXCEPT !.status = "AttributeError"] ELSE po

\* Also __exit__; a second close() writes to a file that is closed
PyClose ==
    /\ po.status = "ok"
    /\ po' = IF po.closed THEN [po EXCEPT !.status = "ValueError"]
             ELSE [Finished(po) EXCEPT !.closed = TRUE]
=============================================================================
