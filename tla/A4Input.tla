------------------------------ MODULE A4Input ------------------------------
(***************************************************************************)
(* a4::io::A4Input hands out streams to threads: src/src/input.cpp,        *)
(* a4/input.h.  get_stream and the deleter of the pointer it returns       *)
(* (report_finished) hold _mutex from their first line to their last, so   *)
(* each is one action; the threads interleave between them.  Of an         *)
(* InputStream only what report_finished asks is kept: how many messages   *)
(* are left, good() and error().                                           *)
(***************************************************************************)
EXTENDS Naturals, Sequences, FiniteSets

CONSTANTS Worker,    \* threads
          FileName,  \* names given to add_file
          Messages,  \* messages in each file
          Broken,    \* files whose last message cannot be read
          Throwing,  \* may reading it throw a FATAL, or only set error()?
          MaxFiles,  \* bound: calls of add_file and add_stream
          NoOne      \* no stream

ASSUME A4InputAssumption ==
    /\ Worker # {}
    /\ Messages \in [FileName -> Nat \ {0}]
    /\ Broken \subseteq FileName
    /\ Throwing \in BOOLEAN
    /\ MaxFiles \in Nat
    /\ NoOne \notin Nat

VARIABLES input,   \* the A4Input object
          streams, \* the InputStream objects; a stream is named by its index here
          held,    \* what each thread's shared pointer points to
          worker   \* "new", "idle" (asks next), "holding", "left" (got NULL) or
                   \* "dead" (an exception ended it)

vars == <<input, streams, held, worker>>

NewInputStream(f) == [name |-> f, left |-> Messages[f], good |-> TRUE, error |-> FALSE]

Init ==
    /\ input = [filenames |-> << >>, filenames_set |-> {}, ready |-> << >>,
                processing |-> {}, finished |-> {}, error |-> {},
                resched_count |-> << >>, status |-> "ok"]
    /\ streams = << >>
    /\ held = [w \in Worker |-> NoOne]
    /\ worker = [w \in Worker |-> "new"]
-----------------------------------------------------------------------------
(* Only get_stream is threadsafe: everything is added before threads start. *)
Adding ==
    /\ \A w \in Worker : worker[w] = "new"
    /\ Len(input.filenames) + Len(streams) < MaxFiles

AddStream(f) ==
    /\ Adding
    /\ streams' = Append(streams, NewInputStream(f))
    /\ input' = [input EXCEPT !.ready = <<Len(streams) + 1>> \o @]
    /\ UNCHANGED <<held, worker>>

\* With check_duplicates a second add of a file is a FATAL that changes nothing
AddFile(f, check_duplicates) ==
    /\ Adding
    /\ ~(check_duplicates /\ f \in input.filenames_set)
    /\ input' = [input EXCEPT !.filenames_set = @ \cup {f},
                              !.filenames = Append(@, f)]
    /\ UNCHANGED <<streams, held, worker>>

\* _ready is filled at its front and emptied at its back
GetStream(w) ==
    /\ worker[w] \in {"new", "idle"}
    /\ \/ /\ input.ready # << >>
          /\ LET n == Len(input.ready)
                 s == input.ready[n]
             IN /\ input' = [input EXCEPT !.ready = SubSeq(@, 1, n - 1),
                                          !.processing = @ \cup {s}]
                /\ held' = [held EXCEPT ![w] = s]
          /\ worker' = [worker EXCEPT ![w] = "holding"]
          /\ UNCHANGED streams
       \/ /\ input.ready = << >> /\ input.filenames # << >>
          /\ LET s == Len(streams) + 1 IN
             /\ streams' = Append(streams, NewInputStream(Head(input.filenames)))
             /\ input' = [input EXCEPT !.filenames = Tail(@),
                                       !.processing = @ \cup {s}]
             /\ held' = [held EXCEPT ![w] = s]
          /\ worker' = [worker EXCEPT ![w] = "holding"]
       \/ /\ input.ready = << >> /\ input.filenames = << >>
          /\ worker' = [worker EXCEPT ![w] = "left"]
          /\ UNCHANGED <<input, streams, held>>

\* next() of the stream a thread holds: a message, or NULL at the end
AtFault(s) == s.name \in Broken /\ s.left = 1

ReadNext(w) ==
    /\ worker[w] = "holding"
    /\ LET s == streams[held[w]] IN
       /\ s.good /\ ~AtFault(s)
       /\ streams' = [streams EXCEPT ![held[w]] =
                         IF s.left > 0 THEN [s EXCEPT !.left = @ - 1]
                         ELSE [s EXCEPT !.good = FALSE]]
    /\ UNCHANGED <<input, held, worker>>

ReadFails(w) ==
    /\ worker[w] = "holding"
    /\ LET s == streams[held[w]] IN
       /\ s.good /\ AtFault(s)
       /\ streams' = [streams EXCEPT ![held[w]] =
                         [s EXCEPT !.good = FALSE, !.error = TRUE]]
    /\ UNCHANGED <<input, held, worker>>

\* operator[] of _resched_count makes a missing entry 0
Rescheduled(i, s) == IF s \in DOMAIN i.resched_count THEN i.resched_count[s] ELSE 0
IsEnd(s) == ~streams[s].error /\ ~streams[s].good

\* Mutants of ReportFinished: an error is tried again for ever; a broken stream
\* is taken for an ended one; a stream given up is also rescheduled; an unfinished
\* one is dropped
ReportErrorAgain(i, s) ==
    IF IsEnd(s) THEN [i EXCEPT !.processing = @ \ {s}, !.finished = @ \cup {s}]
    ELSE [i EXCEPT !.ready = <<s>> \o @]
ReportErrorAsEnd(i, s) ==
    IF ~streams[s].good THEN [i EXCEPT !.processing = @ \ {s}, !.finished = @ \cup {s}]
    ELSE [i EXCEPT !.error = @ \cup {s}]
ReportAndReschedule(i, s) ==
    IF IsEnd(s) THEN [i EXCEPT !.processing = @ \ {s}, !.finished = @ \cup {s}]
    ELSE [i EXCEPT !.error = IF streams[s].error THEN @ \cup {s} ELSE @,
                   !.ready = <<s>> \o @]
ReportDrops(i, s) ==
    IF IsEnd(s) THEN [i EXCEPT !.processing = @ \ {s}, !.finished = @ \cup {s}] ELSE i

\* The deleter.  Only an ended stream leaves _processing, inside an assert.
ReportFinished(i, s) ==
    IF IsEnd(s)
    THEN IF s \in i.processing
         THEN [i EXCEPT !.processing = @ \ {s}, !.finished = @ \cup {s}]
         ELSE [i EXCEPT !.status = "assert _processing.erase"]
    ELSE IF streams[s].error \/ Rescheduled(i, s) > 0
    THEN [i EXCEPT !.error = @ \cup {s}]
    ELSE [i EXCEPT !.ready = <<s>> \o @,
                   !.resched_count = [x \in DOMAIN @ \cup {s} |->
                       Rescheduled(i, x) + IF x = s THEN 1 ELSE 0]]

\* The pointer goes out of scope: the stream has ended, or the thread gives up
ReturnStream(w) ==
    /\ worker[w] = "holding"
    /\ input' = ReportFinished(input, held[w])
    /\ held' = [held EXCEPT ![w] = NoOne]
    /\ worker' = [worker EXCEPT ![w] = "idle"]
    /\ UNCHANGED streams

\* A FATAL while reading unwinds the stack of the thread, the pointer with it
ReadThrows(w) ==
    /\ Throwing /\ worker[w] = "holding"
    /\ streams[held[w]].good /\ AtFault(streams[held[w]])
    /\ input' = ReportFinished(input, held[w])
    /\ held' = [held EXCEPT ![w] = NoOne]
    /\ worker' = [worker EXCEPT ![w] = "dead"]
    /\ UNCHANGED streams

Work(w) == GetStream(w) \/ ReadNext(w) \/ ReadFails(w) \/ ReturnStream(w) \/ ReadThrows(w)

Next == \/ \E f \in FileName : AddStream(f)
        \/ \E f \in FileName, check \in BOOLEAN : AddFile(f, check)
        \/ \E w \in Worker : Work(w)

\* A thread goes on as long as it has something to do
Fairness == \A w \in Worker : WF_vars(Work(w))
Spec == Init /\ [][Next]_vars /\ Fairness
-----------------------------------------------------------------------------
(* Properties *)

Stream == 1 .. Len(streams)

\* A stream is at exactly one place: waiting once in _ready, held by exactly one
\* thread, finished, or given up with an error.  So no two threads read one stream
\* at the same time, none is lost, and none is processed again after its end
\* ("making sure that each is only processed once").
Places(s) ==
    {<<"ready", n>> : n \in {m \in DOMAIN input.ready : input.ready[m] = s}}
    \cup {<<"held", w>> : w \in {v \in Worker : held[v] = s}}
    \cup {<<"finished", s>> : x \in input.finished \cap {s}}
    \cup {<<"error", s>> : x \in input.error \cap {s}}
PlacedOnce == \A s \in Stream : Cardinality(Places(s)) = 1

\* A stream is finished only when every message was read without an error, and
\* given up only with an error or when it came back unfinished a second time.
OutcomeRight ==
    /\ \A s \in input.finished : streams[s].left = 0 /\ IsEnd(s)
    /\ \A s \in input.error : streams[s].error \/ Rescheduled(input, s) = 1

AllDone ==
    /\ input.filenames = << >>
    /\ Stream = input.finished \cup input.error

\* get_stream "returns NULL if none are left": a thread that is told so may leave
\* while another one still holds a stream that it is going to return unfinished.
\* Nothing is left behind when all have left, since the one that returned it asks
\* after that.
NothingLeftBehind == (\A w \in Worker : worker[w] = "left") => AllDone

\* Whatever the threads give up half way, every stream comes to its end or to an
\* error that is not tried again, unless an exception kills a thread that holds one:
\* the others may have left by then.
AllProcessed ==
    (\E w \in Worker : worker[w] # "new")
        ~> (AllDone \/ \E w \in Worker : worker[w] = "dead")
=============================================================================
