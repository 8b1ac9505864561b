------------------------------ MODULE A4Output ------------------------------
(***************************************************************************)
(* a4::io::A4Output gives an output stream to each thread and merges their *)
(* files: src/src/output.cpp, a4/output.h.  get_stream and close hold      *)
(* _mutex; a stream's deleter (report_finished) and the writes of a thread *)
(* do not.                                                                 *)
(*                                                                         *)
(* A path is a sequence: the output file is << >>, its postfix p is the    *)
(* path p and the n-th stream of postfix p is p followed by n, as the code *)
(* joins them with dots: the first stream of no postfix has the path of    *)
(* the postfix "1".  Of an OutputStream is kept how many messages it holds *)
(* and whether its file ends with a footer.                                *)
(***************************************************************************)
EXTENDS Naturals, Sequences, FiniteSets, SequencesExt

CONSTANTS Worker,     \* threads
          Postfixes,  \* the postfixes in use, in the order of a std::map
          Regular,    \* values of _regular_file: FALSE for stdout, a fifo, a device
          Faults,     \* what may fail when files are merged
          Habits,     \* what else the program does: see NotClosed and Close
          MaxStreams, \* bound: streams of one postfix
          MaxMessages,\* bound: messages of one stream
          NoStream

\* Streams of no postfix come first, and a postfix comes behind the one it extends.
ASSUME A4OutputAssumption ==
    /\ Postfixes \in Seq(Seq(UNION {ToSet(Postfixes[p]) : p \in DOMAIN Postfixes}))
    /\ Postfixes # << >> /\ Postfixes[1] = << >>
    /\ IsInjective(Postfixes)
    /\ \A p, q \in DOMAIN Postfixes :
         Postfixes[q] # << >> /\ Front(Postfixes[q]) = Postfixes[p] => p < q
    /\ Regular \subseteq BOOLEAN
    /\ Faults \subseteq {"rename", "open_target", "open_source", "write"}
    /\ Habits \subseteq {"close_early", "close_twice", "use_after_close"}
    /\ MaxStreams \in Nat \ {0} /\ MaxMessages \in Nat \ {0}

VARIABLES out,  \* the A4Output object, with its _out_streams and _filenames
          fs,   \* the files: a function from the paths that exist to contents
          held  \* the stream each thread's shared pointer points to

vars == <<out, fs, held>>

Postfix == DOMAIN Postfixes  \* a postfix is named by its place in the map

(***************************************************************************)
(* A file is a sequence of chunks, each what one stream wrote.             *)
(* merging: the place in the map close() has come to, 0 when it is not     *)
(* running; success, its result so far; returned, what it returned last.   *)
(***************************************************************************)
Path(p, n) == Postfixes[p] \o <<n>>
Chunk(p, n, messages, footer) ==
    [stream |-> <<p, n>>, messages |-> messages, footer |-> footer]
Exists(path) == path \in DOMAIN fs
WithFile(f, path, content) ==
    [q \in DOMAIN f \cup {path} |-> IF q = path THEN content ELSE f[q]]
WithoutFiles(f, paths) == [q \in DOMAIN f \ paths |-> f[q]]

Init ==
    /\ \E regular \in Regular :
       out = [regular_file |-> regular, closed |-> FALSE,
                 merging |-> 0, success |-> TRUE, returned |-> "none",
                 out_streams |-> [p \in Postfix |-> << >>]]
    /\ fs = << >>
    /\ held = [w \in Worker |-> NoStream]
-----------------------------------------------------------------------------
StreamAt(r) == out.out_streams[r[1]][r[2]]
PathOf(r) == IF out.regular_file THEN Path(r[1], r[2]) ELSE << >>
StreamRef == {<<p, n>> : p \in Postfix, n \in 1 .. MaxStreams}
Created == {r \in StreamRef : r[2] \in DOMAIN out.out_streams[r[1]]}
Opened == {r \in Created : StreamAt(r).opened}
Unclosed == {r \in Opened : ~StreamAt(r).closed}
NotMerging == out.merging = 0

\* No stream is asked for or written to any more when the output was closed
NotClosed == out.closed => "use_after_close" \in Habits

\* A stream that is not written to is never opened, except for a fifo.  A second
\* stream, or a postfix, for a fifo is a FATAL that changes nothing.
GetStream(w, p) ==
    /\ NotMerging /\ NotClosed
    /\ held[w] = NoStream /\ Len(out.out_streams[p]) < MaxStreams
    /\ ~out.regular_file => p = 1 /\ out.out_streams[p] = << >>
    /\ LET n == Len(out.out_streams[p]) + 1 IN
       /\ held' = [held EXCEPT ![w] = <<p, n>>]
       /\ out' = [out EXCEPT !.out_streams[p] =
                     Append(@, [opened |-> ~out.regular_file, closed |-> FALSE, messages |-> 0])]
       /\ fs' = IF out.regular_file THEN fs
                ELSE WithFile(fs, << >>, <<Chunk(p, n, 0, FALSE)>>)

\* write() opens the file of the stream first: it is truncated
Write(w) ==
    /\ NotClosed /\ held[w] # NoStream
    /\ LET r == held[w]
           s == StreamAt(r)
       IN /\ s.messages < MaxMessages /\ ~s.closed
          /\ out' = [out EXCEPT !.out_streams[r[1]][r[2]] =
                        [s EXCEPT !.opened = TRUE, !.messages = @ + 1]]
          /\ fs' = WithFile(fs, PathOf(r), <<Chunk(r[1], r[2], s.messages + 1, FALSE)>>)
    /\ UNCHANGED held

\* OutputStream::close(): nothing the second time
ClosedStream(s) == IF s.opened THEN [s EXCEPT !.closed = TRUE] ELSE s
ClosedFile(f, r) ==
    LET s == StreamAt(r) IN
    IF s.opened /\ ~s.closed
    THEN WithFile(f, PathOf(r), <<Chunk(r[1], r[2], s.messages, TRUE)>>)
    ELSE f

\* The deleter
ReportFinished(w) ==
    /\ held[w] # NoStream
    /\ LET r == held[w] IN
       /\ out' = [out EXCEPT !.out_streams[r[1]][r[2]] = ClosedStream(@)]
       /\ fs' = ClosedFile(fs, r)
    /\ held' = [held EXCEPT ![w] = NoStream]

\* close(), called by the program or the destructor, which first closes what the
\* deleters have not.  By its habits the program calls it while pointers are still
\* in scope (in the thread that calls it: their deleters take no lock), or again.
Close ==
    /\ NotMerging
    /\ "close_early" \in Habits \/ \A w \in Worker : held[w] = NoStream
    /\ out.closed => "close_twice" \in Habits
    /\ out' = [out EXCEPT
                 !.closed = TRUE, !.success = TRUE,
                 !.out_streams = [p \in Postfix |->
                     [n \in DOMAIN @[p] |-> ClosedStream(@[p][n])]],
                 !.merging = IF out.regular_file THEN 1 ELSE 0,
                 !.returned = IF out.regular_file THEN "none" ELSE "TRUE"]
    /\ fs' = [q \in DOMAIN fs |->
                 IF \E r \in Unclosed : PathOf(r) = q
                 THEN <<[fs[q][1] EXCEPT !.footer = TRUE]>> ELSE fs[q]]
    /\ UNCHANGED held
-----------------------------------------------------------------------------
(* concatenate() of each postfix in turn.  Once one failed, the others are *)
(* not called any more: success && concatenate(...).                       *)

\* Mutant of UsedStreams: an off-by-one at the last stream
UsedStreamsButLast(p) ==
    SelectSeq([n \in DOMAIN out.out_streams[p] |-> n],
              LAMBDA n : out.out_streams[p][n].opened /\ n < Len(out.out_streams[p]))

UsedStreams(p) ==
    LET streams == out.out_streams[p]
        used[n \in 0 .. Len(streams)] ==
            IF n = 0 THEN << >>
            ELSE IF streams[n].opened THEN Append(used[n - 1], n) ELSE used[n - 1]
    IN used[Len(streams)]
Target(p) == Postfixes[p]

NextPostfix(success) ==
    IF out.merging = Len(Postfixes)
    THEN [out EXCEPT !.merging = 0, !.success = success,
                     !.returned = IF success THEN "TRUE" ELSE "FALSE"]
    ELSE [out EXCEPT !.merging = @ + 1, !.success = success]

\* Nothing to merge, or not any more
MergeNothing(p) ==
    /\ ~out.success \/ UsedStreams(p) = << >>
    /\ out' = NextPostfix(out.success)
    /\ UNCHANGED fs

\* Mutant of Rename: the source is unlinked instead of the target
RenameUnlinksSource(p) ==
    /\ out.success /\ Len(UsedStreams(p)) = 1
    /\ LET from == Path(p, UsedStreams(p)[1]) IN
       /\ fs' = WithoutFiles(fs, {from})
       /\ out' = NextPostfix(Exists(from))

\* One stream: the target is unlinked, then the file renamed
Rename(p) ==
    /\ out.success /\ Len(UsedStreams(p)) = 1
    /\ LET from == Path(p, UsedStreams(p)[1])
           unlinked == WithoutFiles(fs, {Target(p)})
       IN \/ /\ Exists(from)
             /\ fs' = WithFile(WithoutFiles(unlinked, {from}), Target(p), fs[from])
             /\ out' = NextPostfix(TRUE)
          \/ /\ ~Exists(from) \/ "rename" \in Faults
             /\ fs' = unlinked
             /\ out' = NextPostfix(FALSE)

\* Mutant of Contents: the streams are copied in reverse order
ContentsReversed(p, k) ==
    FlattenSeq([j \in 1 .. k |-> fs[Path(p, UsedStreams(p)[k + 1 - j])]])

\* The first k of several streams, in their order: copied behind each other into
\* the target, which was truncated, and unlinked.  Nobody looks at out afterwards,
\* so a write that failed loses the chunks from there on.
Contents(p, k) == FlattenSeq([j \in 1 .. k |-> fs[Path(p, UsedStreams(p)[j])]])
Merged(p, k, kept) ==
    WithFile(WithoutFiles(fs, {Path(p, UsedStreams(p)[j]) : j \in 1 .. k}),
             Target(p), SubSeq(Contents(p, k), 1, kept))

Concatenate(p) ==
    /\ out.success /\ Len(UsedStreams(p)) > 1
    /\ LET n == Len(UsedStreams(p))
           present == {k \in 0 .. n : \A j \in 1 .. k : Exists(Path(p, UsedStreams(p)[j]))}
       IN \/ /\ n \in present
             /\ fs' = Merged(p, n, n)
             /\ out' = NextPostfix(TRUE)
          \/ /\ "open_target" \in Faults
             /\ out' = NextPostfix(FALSE)
             /\ UNCHANGED fs
          \/ \E k \in present \ {n} :
                /\ "open_source" \in Faults \/ k + 1 \notin present
                /\ fs' = Merged(p, k, k)
                /\ out' = NextPostfix(FALSE)
          \/ \E kept \in 0 .. n - 1 :
                /\ n \in present /\ "write" \in Faults
                /\ fs' = Merged(p, n, kept)
                /\ out' = NextPostfix(TRUE)

Merge ==
    /\ out.merging # 0
    /\ LET p == out.merging IN MergeNothing(p) \/ Rename(p) \/ Concatenate(p)
    /\ UNCHANGED held

Next == \/ \E w \in Worker, p \in Postfix : GetStream(w, p)
        \/ \E w \in Worker : Write(w) \/ ReportFinished(w)
        \/ Close
        \/ Merge

\* Threads end, and the destructor calls close() if nobody did
Fairness == /\ \A w \in Worker : WF_vars(ReportFinished(w))
            /\ WF_vars(~out.closed /\ Close)
            /\ WF_vars(Merge)
Spec == Init /\ [][Next]_vars /\ Fairness
-----------------------------------------------------------------------------
(* Properties *)

\* No message is lost: what a stream was given is in exactly one file, all of it,
\* in the stream's own or in the merged one - also when merging failed half way,
\* and also when the name of a postfix is the name of a stream's file.
Holding(r) ==
    {q \in DOMAIN fs : \E i \in DOMAIN fs[q] :
        fs[q][i].stream = r /\ fs[q][i].messages = StreamAt(r).messages}
DataKept == \A r \in Opened : Cardinality(Holding(r)) = 1

\* When close() returned TRUE, the file of each postfix holds the streams of that
\* postfix that were used, each complete with its footer, in the order they were
\* requested, and nothing else is left.
MergedInOrder ==
    out.returned = "TRUE" =>
        /\ DOMAIN fs = {Target(r[1]) : r \in Opened}
        /\ \A r \in Opened :
             fs[Target(r[1])] =
                 [i \in DOMAIN UsedStreams(r[1]) |->
                     LET n == UsedStreams(r[1])[i]
                     IN Chunk(r[1], n, out.out_streams[r[1]][n].messages, TRUE)]

\* close() says so when a stream did not get into the output file.
FailureReported ==
    out.returned = "TRUE" =>
        \A r \in Opened : StreamAt(r).closed => Holding(r) = {Target(r[1])}

\* "Provides output streams to threads, and makes sure they are merged
\* eventually": whatever was written ends up in the output file, or close() says
\* that something did not.
MergedEventually ==
    \A r \in StreamRef :
        (r \in Opened)
            ~> \/ r \in Opened /\ Holding(r) = {Target(r[1])}
               \/ out.returned = "FALSE"
=============================================================================
