--------------------------- MODULE A4InputProofs ---------------------------
(* The safety properties of A4Input for any number of threads, files and    *)
(* messages.                                                                *)
EXTENDS A4Input, FiniteSetTheorems, TLAPS

-----------------------------------------------------------------------------
(* The inductive invariant.                                                 *)

WorkerState == {"new", "idle", "holding", "left", "dead"}
InputStreamRecord == [name : FileName, left : Nat, good : BOOLEAN, error : BOOLEAN]

Types ==
    /\ input = [filenames |-> input.filenames, filenames_set |-> input.filenames_set,
                ready |-> input.ready, processing |-> input.processing,
                finished |-> input.finished, error |-> input.error,
                resched_count |-> input.resched_count, status |-> input.status]
    /\ input.filenames \in Seq(FileName)
    /\ input.ready \in Seq(Nat)
    /\ streams \in Seq(InputStreamRecord)
    /\ held \in [Worker -> Nat \cup {NoOne}]
    /\ worker \in [Worker -> WorkerState]

\* A thread holds a stream exactly as long as it works on one.
HoldersHold == \A w \in Worker : worker[w] = "holding" <=> held[w] # NoOne

IsReady(s) == \E n \in 1 .. Len(input.ready) : input.ready[n] = s
IsHeld(s) == \E w \in Worker : held[w] = s

\* Whatever is at some place is a stream that was made.
PlacedExist ==
    /\ \A s \in Nat : IsReady(s) \/ IsHeld(s) => s \in Stream
    /\ input.finished \subseteq Stream
    /\ input.error \subseteq Stream

\* At most one place each.
ReadyOnce == \A m, n \in 1 .. Len(input.ready) : input.ready[m] = input.ready[n] => m = n
HeldOnce == \A v, w \in Worker : held[v] = held[w] /\ held[v] # NoOne => v = w
PlacesApart ==
    \A s \in Stream :
        /\ ~(IsReady(s) /\ IsHeld(s))
        /\ s \in input.finished => ~IsReady(s) /\ ~IsHeld(s) /\ s \notin input.error
        /\ s \in input.error => ~IsReady(s) /\ ~IsHeld(s)

\* At least one place each.
PlacedSomewhere ==
    \A s \in Stream : IsReady(s) \/ IsHeld(s) \/ s \in input.finished \/ s \in input.error

\* The assert in report_finished holds: what a thread holds is in _processing.
HeldAreProcessing == \A s \in Nat : IsHeld(s) => s \in input.processing

\* A stream that is no longer good has an error or has been read to its end.
EndsAreReal == \A s \in Stream : IsEnd(s) => streams[s].left = 0

ReschedAtMostOnce == \A s \in Nat : Rescheduled(input, s) \in {0, 1}

\* Whoever left found nothing to do, and whoever brings something back stays.
SomeoneStays ==
    input.ready # << >> \/ input.filenames # << >> => \E w \in Worker : worker[w] # "left"

PlacesRight == PlacedExist /\ ReadyOnce /\ HeldOnce /\ PlacesApart /\ PlacedSomewhere

Inv ==
    /\ Types
    /\ HoldersHold
    /\ PlacesRight
    /\ HeldAreProcessing
    /\ EndsAreReal
    /\ ReschedAtMostOnce
    /\ OutcomeRight
    /\ SomeoneStays

-----------------------------------------------------------------------------
(* The list of ready streams.                                               *)

\* add_stream and the deleter put a stream before the others.
LEMMA PushReady ==
    ASSUME input.ready \in Seq(Nat), NEW s \in Nat, input'.ready = <<s>> \o input.ready
    PROVE  /\ input'.ready \in Seq(Nat)
           /\ input'.ready # << >>
           /\ \A x \in Nat : IsReady(x)' <=> x = s \/ IsReady(x)
           /\ ReadyOnce /\ ~IsReady(s) => ReadyOnce'
<1> DEFINE q == input.ready
           r == input'.ready
<1>1. /\ r \in Seq(Nat)
      /\ Len(r) = Len(q) + 1
      /\ r[1] = s
      /\ \A n \in 2 .. Len(r) : n - 1 \in 1 .. Len(q) /\ r[n] = q[n - 1]
      /\ \A n \in 1 .. Len(q) : n + 1 \in 1 .. Len(r) /\ r[n + 1] = q[n]
  OBVIOUS
<1>2. r # << >>
  BY <1>1
<1>3. ASSUME NEW x \in Nat PROVE IsReady(x)' <=> x = s \/ IsReady(x)
  <2>1. IsReady(x)' => x = s \/ IsReady(x)
    <3> SUFFICES ASSUME NEW n \in 1 .. Len(r), r[n] = x, n # 1 PROVE IsReady(x)
      BY <1>1 DEF IsReady
    <3> QED BY <1>1 DEF IsReady
  <2>2. x = s => IsReady(x)'
    BY <1>1 DEF IsReady
  <2>3. IsReady(x) => IsReady(x)'
    <3> SUFFICES ASSUME NEW n \in 1 .. Len(q), q[n] = x PROVE IsReady(x)'
      BY DEF IsReady
    <3> QED BY <1>1 DEF IsReady
  <2> QED BY <2>1, <2>2, <2>3
<1>4. ASSUME ReadyOnce, ~IsReady(s) PROVE ReadyOnce'
  <2> SUFFICES ASSUME NEW m \in 1 .. Len(r), NEW n \in 1 .. Len(r), r[m] = r[n]
               PROVE  m = n
    BY DEF ReadyOnce
  <2>1. \A k \in 2 .. Len(r) : r[k] # s
    BY <1>1, <1>4 DEF IsReady
  <2>2. CASE m = 1 \/ n = 1
    BY <1>1, <2>1, <2>2
  <2>3. CASE m # 1 /\ n # 1
    <3>1. m \in 2 .. Len(r) /\ n \in 2 .. Len(r)
      BY <1>1, <2>3
    <3>2. /\ m - 1 \in 1 .. Len(q) /\ n - 1 \in 1 .. Len(q)
          /\ q[m - 1] = q[n - 1]
      BY <1>1, <3>1
    <3>3. m - 1 = n - 1
      BY <1>4, <3>2 DEF ReadyOnce
    <3> QED BY <3>1, <3>3
  <2> QED BY <2>2, <2>3
<1> QED BY <1>1, <1>2, <1>3, <1>4

\* get_stream takes the last one.
LEMMA PopReady ==
    ASSUME input.ready \in Seq(Nat), input.ready # << >>, ReadyOnce, NEW s,
           s = input.ready[Len(input.ready)],
           input'.ready = SubSeq(input.ready, 1, Len(input.ready) - 1)
    PROVE  /\ input'.ready \in Seq(Nat)
           /\ s \in Nat /\ IsReady(s)
           /\ \A x \in Nat : IsReady(x)' <=> x # s /\ IsReady(x)
           /\ ReadyOnce'
<1> DEFINE q == input.ready
           r == input'.ready
<1>1. /\ Len(q) \in Nat /\ Len(q) >= 1
      /\ r \in Seq(Nat)
      /\ Len(r) = Len(q) - 1
      /\ \A n \in 1 .. Len(r) : n \in 1 .. Len(q) /\ r[n] = q[n] /\ n # Len(q)
      /\ \A n \in 1 .. Len(q) : n # Len(q) => n \in 1 .. Len(r)
      /\ \A n \in 1 .. Len(q) : q[n] \in Nat
  BY SMTT(30)
<1>2. s \in Nat /\ IsReady(s)
  BY <1>1, SMTT(30) DEF IsReady
<1>3. ASSUME NEW x \in Nat PROVE IsReady(x)' <=> x # s /\ IsReady(x)
  <2>1. IsReady(x)' => x # s /\ IsReady(x)
    <3> SUFFICES ASSUME NEW n \in 1 .. Len(r), r[n] = x PROVE x # s /\ IsReady(x)
      BY DEF IsReady
    <3>1. n \in 1 .. Len(q) /\ q[n] = x /\ n # Len(q)
      BY <1>1
    <3>2. Len(q) \in 1 .. Len(q)
      BY <1>1
    <3>3. q[Len(q)] = s
      OBVIOUS
    <3> QED BY <3>1, <3>2, <3>3 DEF IsReady, ReadyOnce
  <2>2. x # s /\ IsReady(x) => IsReady(x)'
    <3> SUFFICES ASSUME NEW n \in 1 .. Len(q), q[n] = x, x # s PROVE IsReady(x)'
      BY DEF IsReady
    <3>1. n \in 1 .. Len(r) /\ r[n] = x
      BY <1>1
    <3> QED BY <3>1 DEF IsReady
  <2> QED BY <2>1, <2>2
<1>4. ReadyOnce'
  BY <1>1 DEF ReadyOnce
<1> QED BY <1>1, <1>2, <1>3, <1>4

-----------------------------------------------------------------------------
(* The steps.                                                               *)

\* No stream is made before Init.
LEMMA InitInv ==
    ASSUME Init
    PROVE  Inv
<1> USE A4InputAssumption
<1>1. Types
  BY DEF Init, Types, WorkerState
<1>2. Stream = {} /\ input.ready = << >> /\ streams = << >>
  BY DEF Init, Stream
<1>3. HoldersHold /\ HeldAreProcessing /\ SomeoneStays
  BY DEF Init, HoldersHold, HeldAreProcessing, IsHeld, SomeoneStays
<1>4. PlacesRight
  BY <1>2 DEF Init, PlacesRight, PlacedExist, ReadyOnce, HeldOnce, PlacesApart,
              PlacedSomewhere, IsReady, IsHeld
<1>5. EndsAreReal /\ ReschedAtMostOnce /\ OutcomeRight
  BY <1>2 DEF Init, EndsAreReal, ReschedAtMostOnce, Rescheduled, OutcomeRight
<1> QED BY <1>1, <1>3, <1>4, <1>5 DEF Inv

\* A new stream is behind those there are, and good.
LEMMA NewStreams ==
    ASSUME streams \in Seq(InputStreamRecord), NEW f \in FileName,
           streams' = Append(streams, NewInputStream(f))
    PROVE  /\ streams' \in Seq(InputStreamRecord)
           /\ Len(streams) + 1 \in Nat /\ Len(streams) + 1 \notin Stream
           /\ Stream' = Stream \cup {Len(streams) + 1}
           /\ \A s \in Stream : streams'[s] = streams[s]
           /\ streams'[Len(streams) + 1].good
<1>1. NewInputStream(f) \in InputStreamRecord /\ NewInputStream(f).good
  BY A4InputAssumption DEF NewInputStream, InputStreamRecord
<1> QED BY <1>1 DEF Stream

\* What was said of the streams there were still holds when one is added, whatever
\* happens to the places of it.
LEMMA OldOutcomesStay ==
    ASSUME streams \in Seq(InputStreamRecord), EndsAreReal, OutcomeRight, PlacedExist,
           Len(streams) + 1 \in Nat, Stream' = Stream \cup {Len(streams) + 1},
           \A s \in Stream : streams'[s] = streams[s],
           streams'[Len(streams) + 1].good,
           input'.finished = input.finished, input'.error = input.error,
           input'.resched_count = input.resched_count
    PROVE  EndsAreReal' /\ OutcomeRight'
<1>1. EndsAreReal'
  BY DEF EndsAreReal, IsEnd
<1>2. OutcomeRight'
  BY DEF OutcomeRight, IsEnd, Rescheduled, PlacedExist
<1> QED BY <1>1, <1>2

\* A stream that is added waits in _ready.
LEMMA AddStreamInv ==
    ASSUME Inv, NEW f \in FileName, AddStream(f)
    PROVE  Inv'
<1> USE A4InputAssumption
<1> DEFINE s == Len(streams) + 1
<1>1. /\ Types /\ PlacedExist /\ ReadyOnce
      /\ streams \in Seq(InputStreamRecord) /\ input.ready \in Seq(Nat)
  BY DEF Inv, Types, PlacesRight
<1>2. /\ streams' \in Seq(InputStreamRecord)
      /\ s \in Nat /\ s \notin Stream
      /\ Stream' = Stream \cup {s}
      /\ \A x \in Stream : streams'[x] = streams[x]
      /\ streams'[s].good
  BY <1>1, NewStreams DEF AddStream
<1>3. /\ input' = [input EXCEPT !.ready = <<s>> \o input.ready]
      /\ held' = held /\ worker' = worker
      /\ \A w \in Worker : worker[w] = "new"
  BY DEF AddStream, Adding
<1>4. /\ input'.ready = <<s>> \o input.ready
      /\ input'.filenames = input.filenames
      /\ input'.finished = input.finished /\ input'.error = input.error
      /\ input'.processing = input.processing
      /\ input'.resched_count = input.resched_count
  BY <1>1, <1>3 DEF Types
<1>5. ~IsReady(s) /\ \A x \in Nat : ~IsHeld(x)
  BY <1>1, <1>2, <1>3 DEF PlacedExist, Inv, HoldersHold, IsHeld, Types
<1>6. /\ input'.ready \in Seq(Nat)
      /\ \A x \in Nat : IsReady(x)' <=> x = s \/ IsReady(x)
      /\ ReadyOnce'
  BY <1>1, <1>2, <1>4, <1>5, PushReady
<1>7. Types'
  BY <1>1, <1>2, <1>3, <1>4, <1>6 DEF Types
<1>8. HoldersHold' /\ SomeoneStays' /\ HeldAreProcessing'
  BY <1>3, <1>4 DEF Inv, HoldersHold, SomeoneStays, HeldAreProcessing, IsHeld
<1>9. PlacesRight'
  <2>1. \A x : IsHeld(x)' <=> IsHeld(x)
    BY <1>3 DEF IsHeld
  <2>2. Stream \subseteq Nat
    BY DEF Stream
  <2>3. PlacedExist'
    BY <1>2, <1>4, <1>6, <2>1 DEF Inv, PlacesRight, PlacedExist
  <2>4. HeldOnce'
    BY <1>3 DEF Inv, PlacesRight, HeldOnce
  <2>5. PlacesApart'
    BY <1>1, <1>2, <1>4, <1>5, <1>6, <2>1, <2>2 DEF Inv, PlacesRight, PlacesApart, PlacedExist
  <2>6. PlacedSomewhere'
    BY <1>2, <1>4, <1>6, <2>1, <2>2 DEF Inv, PlacesRight, PlacedSomewhere
  <2> QED BY <1>6, <2>3, <2>4, <2>5, <2>6 DEF PlacesRight
<1>10. EndsAreReal' /\ OutcomeRight'
  BY <1>1, <1>2, <1>4, OldOutcomesStay DEF Inv
<1>11. ReschedAtMostOnce'
  BY <1>4 DEF Inv, ReschedAtMostOnce, Rescheduled
<1> QED BY <1>7, <1>8, <1>9, <1>10, <1>11 DEF Inv

\* A name that is added is no stream yet.
LEMMA AddFileInv ==
    ASSUME Inv, NEW f \in FileName, NEW check \in BOOLEAN, AddFile(f, check)
    PROVE  Inv'
<1>1. Types
  BY DEF Inv
<1>2. /\ input' = [input EXCEPT !.filenames_set = @ \cup {f},
                                !.filenames = Append(@, f)]
      /\ streams' = streams /\ held' = held /\ worker' = worker
      /\ \A w \in Worker : worker[w] = "new"
  BY DEF AddFile, Adding
<1>3. /\ input'.ready = input.ready
      /\ input'.filenames \in Seq(FileName)
      /\ input'.finished = input.finished /\ input'.error = input.error
      /\ input'.processing = input.processing
      /\ input'.resched_count = input.resched_count
  BY <1>1, <1>2 DEF Types
<1>4. Types'
  BY <1>1, <1>2, <1>3 DEF Types
<1>5. /\ Stream' = Stream
      /\ \A x : IsHeld(x)' <=> IsHeld(x)
      /\ \A x : IsReady(x)' <=> IsReady(x)
      /\ ReadyOnce' <=> ReadyOnce
  BY <1>2, <1>3 DEF Stream, IsHeld, IsReady, ReadyOnce
<1>6. PlacesRight'
  BY <1>2, <1>3, <1>5 DEF Inv, PlacesRight, PlacedExist, HeldOnce, PlacesApart, PlacedSomewhere
<1>7. SomeoneStays'
  BY <1>2, A4InputAssumption DEF SomeoneStays
<1>8. HoldersHold' /\ HeldAreProcessing'
  BY <1>2, <1>3, <1>5 DEF Inv, HoldersHold, HeldAreProcessing
<1>9. EndsAreReal' /\ ReschedAtMostOnce' /\ OutcomeRight'
  BY <1>2, <1>3, <1>5
  DEF Inv, EndsAreReal, ReschedAtMostOnce, OutcomeRight, Rescheduled, IsEnd
<1> QED BY <1>4, <1>6, <1>7, <1>8, <1>9 DEF Inv

\* get_stream with a stream that waits.
LEMMA TakeReadyInv ==
    ASSUME Inv, NEW w \in Worker, GetStream(w), input.ready # << >>
    PROVE  Inv'
<1> USE A4InputAssumption
<1>s. PICK s : s = input.ready[Len(input.ready)]
  OBVIOUS
<1>0. /\ worker[w] \in {"new", "idle"}
      /\ input' = [input EXCEPT !.ready = SubSeq(@, 1, Len(input.ready) - 1),
                                !.processing = @ \cup {s}]
      /\ held' = [held EXCEPT ![w] = s]
      /\ worker' = [worker EXCEPT ![w] = "holding"]
      /\ streams' = streams
  BY <1>s DEF GetStream
<1>1. Types /\ ReadyOnce /\ held[w] = NoOne
  BY <1>0 DEF Inv, PlacesRight, HoldersHold
<1>2. /\ input'.ready = SubSeq(input.ready, 1, Len(input.ready) - 1)
      /\ input'.filenames = input.filenames
      /\ input'.finished = input.finished /\ input'.error = input.error
      /\ input'.processing = input.processing \cup {s}
      /\ input'.resched_count = input.resched_count
  BY <1>0, <1>1 DEF Types
<1>3. /\ input'.ready \in Seq(Nat)
      /\ s \in Nat /\ IsReady(s)
      /\ \A x \in Nat : IsReady(x)' <=> x # s /\ IsReady(x)
      /\ ReadyOnce'
  BY <1>s, <1>1, <1>2, PopReady DEF Types
<1>4. /\ s \in Stream /\ ~IsHeld(s)
      /\ s \notin input.finished /\ s \notin input.error
  BY <1>0, <1>3 DEF Inv, PlacesRight, PlacedExist, PlacesApart
<1>5. \A x \in Nat : IsHeld(x)' <=> x = s \/ IsHeld(x)
  BY <1>0, <1>1, <1>3 DEF IsHeld, Types
<1>6. Stream' = Stream /\ Stream \subseteq Nat
  BY <1>0 DEF Stream
<1>7. Types'
  BY <1>0, <1>1, <1>2, <1>3 DEF Types, WorkerState
<1>8. HoldersHold'
  BY <1>0, <1>1, <1>3 DEF Inv, HoldersHold, Types
<1>9. HeldAreProcessing'
  BY <1>0, <1>2, <1>5 DEF Inv, HeldAreProcessing
<1>10. SomeoneStays'
  BY <1>0, <1>1 DEF SomeoneStays, Types
<1>11. PlacesRight'
  <2>1. PlacedExist'
    BY <1>0, <1>2, <1>3, <1>4, <1>5, <1>6 DEF Inv, PlacesRight, PlacedExist
  <2>2. HeldOnce'
    BY <1>0, <1>1, <1>3, <1>4 DEF Inv, PlacesRight, HeldOnce, IsHeld, Types
  <2>3. PlacesApart'
    BY <1>0, <1>2, <1>3, <1>4, <1>5, <1>6 DEF Inv, PlacesRight, PlacesApart
  <2>4. PlacedSomewhere'
    BY <1>0, <1>2, <1>3, <1>5, <1>6 DEF Inv, PlacesRight, PlacedSomewhere
  <2> QED BY <1>0, <1>3, <2>1, <2>2, <2>3, <2>4 DEF PlacesRight
<1>12. EndsAreReal' /\ ReschedAtMostOnce' /\ OutcomeRight'
  BY <1>0, <1>2, <1>6
  DEF Inv, EndsAreReal, ReschedAtMostOnce, OutcomeRight, Rescheduled, IsEnd
<1> QED BY <1>0, <1>7, <1>8, <1>9, <1>10, <1>11, <1>12 DEF Inv

\* get_stream with a file that nobody has opened: pop_file.
LEMMA OpenFileInv ==
    ASSUME Inv, NEW w \in Worker,
           worker[w] \in {"new", "idle"},
           input.ready = << >>, input.filenames # << >>,
           streams' = Append(streams, NewInputStream(Head(input.filenames))),
           input' = [input EXCEPT !.filenames = Tail(@),
                                  !.processing = @ \cup {Len(streams) + 1}],
           held' = [held EXCEPT ![w] = Len(streams) + 1],
           worker' = [worker EXCEPT ![w] = "holding"]
    PROVE  Inv'
<1> USE A4InputAssumption
<1> DEFINE s == Len(streams) + 1
<1>1. Types /\ held[w] = NoOne
  BY DEF Inv, HoldersHold
<1>2. /\ input'.ready = input.ready
      /\ input'.filenames = Tail(input.filenames)
      /\ input'.finished = input.finished /\ input'.error = input.error
      /\ input'.processing = input.processing \cup {s}
      /\ input'.resched_count = input.resched_count
  BY <1>1 DEF Types
<1>3. /\ Head(input.filenames) \in FileName
      /\ Tail(input.filenames) \in Seq(FileName)
  BY <1>1 DEF Types
<1>4. /\ streams' \in Seq(InputStreamRecord)
      /\ s \in Nat /\ s \notin Stream
      /\ Stream' = Stream \cup {s}
      /\ \A x \in Stream : streams'[x] = streams[x]
      /\ streams'[s].good
  BY <1>1, <1>3, NewStreams DEF Types
<1>5. ~IsReady(s) /\ ~IsHeld(s) /\ s \notin input.finished /\ s \notin input.error
  BY <1>4 DEF Inv, PlacesRight, PlacedExist
<1>6. /\ \A x \in Nat : IsHeld(x)' <=> x = s \/ IsHeld(x)
      /\ \A x : IsReady(x)' <=> IsReady(x)
  BY <1>1, <1>2, <1>4 DEF IsHeld, IsReady, Types
<1>7. Stream \subseteq Nat
  BY DEF Stream
<1>8. Types'
  BY <1>1, <1>2, <1>3, <1>4 DEF Types, WorkerState
<1>9. HoldersHold'
  BY <1>1, <1>4 DEF Inv, HoldersHold, Types
<1>10. HeldAreProcessing'
  BY <1>2, <1>6 DEF Inv, HeldAreProcessing
<1>11. SomeoneStays'
  BY <1>1 DEF SomeoneStays, Types
<1>12. PlacesRight'
  <2>1. PlacedExist'
    BY <1>2, <1>4, <1>6 DEF Inv, PlacesRight, PlacedExist
  <2>2. HeldOnce'
    BY <1>1, <1>4, <1>5 DEF Inv, PlacesRight, HeldOnce, IsHeld, Types
  <2>3. PlacesApart'
    BY <1>2, <1>4, <1>5, <1>6, <1>7 DEF Inv, PlacesRight, PlacesApart
  <2>4. PlacedSomewhere'
    BY <1>2, <1>4, <1>6, <1>7 DEF Inv, PlacesRight, PlacedSomewhere
  <2>5. ReadyOnce'
    BY <1>2 DEF Inv, PlacesRight, ReadyOnce
  <2> QED BY <2>1, <2>2, <2>3, <2>4, <2>5 DEF PlacesRight
<1>13. EndsAreReal' /\ OutcomeRight'
  BY <1>1, <1>2, <1>4, OldOutcomesStay DEF Inv, PlacesRight, Types
<1>14. ReschedAtMostOnce'
  BY <1>2 DEF Inv, ReschedAtMostOnce, Rescheduled
<1> QED BY <1>8, <1>9, <1>10, <1>11, <1>12, <1>13, <1>14 DEF Inv

\* A thread is told that there is nothing left.
LEMMA LeaveInv ==
    ASSUME Inv, NEW w \in Worker,
           worker[w] \in {"new", "idle"},
           input.ready = << >>, input.filenames = << >>,
           worker' = [worker EXCEPT ![w] = "left"],
           input' = input, streams' = streams, held' = held
    PROVE  Inv'
<1>1. Types' /\ HoldersHold' /\ SomeoneStays'
  BY DEF Inv, Types, HoldersHold, SomeoneStays, WorkerState
<1>2. PlacesRight'
  BY DEF Inv, PlacesRight, PlacedExist, ReadyOnce, HeldOnce, PlacesApart, PlacedSomewhere,
         IsReady, IsHeld, Stream
<1>3. HeldAreProcessing' /\ EndsAreReal' /\ ReschedAtMostOnce' /\ OutcomeRight'
  BY DEF Inv, HeldAreProcessing, IsHeld, EndsAreReal, ReschedAtMostOnce, OutcomeRight,
         Rescheduled, IsEnd, Stream
<1> QED BY <1>1, <1>2, <1>3 DEF Inv

\* get_stream, whatever there is.
LEMMA GetStreamInv ==
    ASSUME Inv, NEW w \in Worker, GetStream(w)
    PROVE  Inv'
<1>1. worker[w] \in {"new", "idle"}
  BY DEF GetStream
<1>2. CASE input.ready # << >>
  BY <1>2, TakeReadyInv
<1>3. CASE input.ready = << >> /\ input.filenames # << >>
  BY <1>1, <1>3, OpenFileInv DEF GetStream
<1>4. CASE input.ready = << >> /\ input.filenames = << >>
  BY <1>1, <1>4, LeaveInv DEF GetStream
<1> QED BY <1>2, <1>3, <1>4

\* next() of a stream that a thread holds, and that is finished or given up at no place.
LEMMA ReadInv ==
    ASSUME Inv, NEW w \in Worker, worker[w] = "holding", NEW r \in InputStreamRecord,
           ~r.good /\ ~r.error => r.left = 0,
           streams' = [streams EXCEPT ![held[w]] = r],
           input' = input, held' = held, worker' = worker
    PROVE  Inv'
<1> DEFINE s == held[w]
<1>1. Types /\ s \in Nat /\ IsHeld(s)
  BY DEF Inv, Types, HoldersHold, IsHeld
<1>2. s \in Stream /\ s \notin input.finished /\ s \notin input.error
  BY <1>1 DEF Inv, PlacesRight, PlacedExist, PlacesApart
<1>3. /\ streams' \in Seq(InputStreamRecord)
      /\ Stream' = Stream
      /\ streams'[s] = r
      /\ \A x \in Stream : x # s => streams'[x] = streams[x]
  BY <1>1, <1>2 DEF Types, Stream
<1>4. Types' /\ HoldersHold' /\ SomeoneStays' /\ HeldAreProcessing' /\ ReschedAtMostOnce'
  BY <1>3 DEF Inv, Types, HoldersHold, SomeoneStays, HeldAreProcessing, IsHeld,
              ReschedAtMostOnce, Rescheduled
<1>5. PlacesRight'
  BY <1>3 DEF Inv, PlacesRight, PlacedExist, ReadyOnce, HeldOnce, PlacesApart,
              PlacedSomewhere, IsReady, IsHeld
<1>6. EndsAreReal'
  BY <1>3 DEF Inv, EndsAreReal, IsEnd
<1>7. OutcomeRight'
  BY <1>2, <1>3 DEF Inv, OutcomeRight, IsEnd, Rescheduled, PlacesRight, PlacedExist
<1> QED BY <1>4, <1>5, <1>6, <1>7 DEF Inv

\* A message, or the end of the stream.
LEMMA ReadNextInv ==
    ASSUME Inv, NEW w \in Worker, ReadNext(w)
    PROVE  Inv'
<1> DEFINE s == streams[held[w]]
           r == IF s.left > 0 THEN [s EXCEPT !.left = @ - 1] ELSE [s EXCEPT !.good = FALSE]
<1>1. /\ worker[w] = "holding"
      /\ streams' = [streams EXCEPT ![held[w]] = r]
      /\ input' = input /\ held' = held /\ worker' = worker
      /\ s.good
  BY DEF ReadNext
<1>2. s \in InputStreamRecord
  BY <1>1 DEF Inv, Types, HoldersHold, PlacesRight, PlacedExist, IsHeld, Stream
<1>3. r \in InputStreamRecord /\ (~r.good /\ ~r.error => r.left = 0)
  <2>1. CASE s.left > 0
    <3>1. r = [s EXCEPT !.left = s.left - 1] /\ s.left - 1 \in Nat
      BY <1>2, <2>1 DEF InputStreamRecord
    <3> QED BY <1>1, <1>2, <3>1 DEF InputStreamRecord
  <2>2. CASE ~(s.left > 0)
    <3>1. r = [s EXCEPT !.good = FALSE] /\ s.left = 0
      BY <1>2, <2>2 DEF InputStreamRecord
    <3> QED BY <1>2, <3>1 DEF InputStreamRecord
  <2> QED BY <2>1, <2>2
<1> HIDE DEF r
<1> QED BY <1>1, <1>3, ReadInv

\* The message cannot be read.
LEMMA ReadFailsInv ==
    ASSUME Inv, NEW w \in Worker, ReadFails(w)
    PROVE  Inv'
<1> DEFINE s == streams[held[w]]
           r == [s EXCEPT !.good = FALSE, !.error = TRUE]
<1>1. /\ worker[w] = "holding"
      /\ streams' = [streams EXCEPT ![held[w]] = r]
      /\ input' = input /\ held' = held /\ worker' = worker
  BY DEF ReadFails
<1>2. s \in InputStreamRecord
  BY <1>1 DEF Inv, Types, HoldersHold, PlacesRight, PlacedExist, IsHeld, Stream
<1>3. r \in InputStreamRecord /\ r.error
  BY <1>2 DEF InputStreamRecord
<1> HIDE DEF r
<1> QED BY <1>1, <1>3, ReadInv

\* The deleter: the stream goes from its thread to one of the other places.
LEMMA BringBackInv ==
    ASSUME Inv, NEW w \in Worker, worker[w] = "holding",
           input' = ReportFinished(input, held[w]),
           held' = [held EXCEPT ![w] = NoOne],
           NEW st \in {"idle", "dead"}, worker' = [worker EXCEPT ![w] = st],
           streams' = streams
    PROVE  Inv'
<1> USE A4InputAssumption
<1> DEFINE s == held[w]
<1>1. /\ Types /\ PlacesRight /\ OutcomeRight /\ EndsAreReal /\ ReschedAtMostOnce
      /\ s \in Nat /\ IsHeld(s)
  BY DEF Inv, Types, HoldersHold, IsHeld
<1>2. /\ s \in Stream /\ ~IsReady(s) /\ s \in input.processing
      /\ s \notin input.finished /\ s \notin input.error
  BY <1>1 DEF Inv, HeldAreProcessing, PlacesRight, PlacedExist, PlacesApart
<1>3. Stream' = Stream /\ Stream \subseteq Nat
  BY DEF Stream
<1>4. \A x \in Nat : IsHeld(x)' <=> IsHeld(x) /\ x # s
  BY <1>1 DEF IsHeld, Types, PlacesRight, HeldOnce
<1>5. HoldersHold' /\ HeldOnce'
  BY <1>1 DEF Inv, HoldersHold, HeldOnce, PlacesRight, Types
<1>6. SomeoneStays'
  BY <1>1 DEF SomeoneStays, Types
<1>7. EndsAreReal'
  BY <1>1 DEF EndsAreReal, IsEnd, Stream
<1>8. /\ held' \in [Worker -> Nat \cup {NoOne}]
      /\ worker' \in [Worker -> WorkerState]
      /\ streams' \in Seq(InputStreamRecord)
  BY <1>1 DEF Types, WorkerState
<1>9. CASE IsEnd(s)
  <2>1. input' = [input EXCEPT !.processing = @ \ {s}, !.finished = @ \cup {s}]
    BY <1>2, <1>9 DEF ReportFinished
  <2>2. /\ input'.ready = input.ready
        /\ input'.filenames = input.filenames
        /\ input'.finished = input.finished \cup {s} /\ input'.error = input.error
        /\ input'.processing = input.processing \ {s}
        /\ input'.resched_count = input.resched_count
    BY <1>1, <2>1 DEF Types
  <2>3. Types'
    BY <1>1, <1>8, <2>1, <2>2 DEF Types
  <2>4. ReadyOnce' /\ (\A x : IsReady(x)' <=> IsReady(x))
    BY <1>1, <2>2 DEF IsReady, ReadyOnce, PlacesRight
  <2>5. PlacesRight'
    BY <1>1, <1>2, <1>3, <1>4, <1>5, <2>2, <2>4
    DEF PlacesRight, PlacedExist, PlacesApart, PlacedSomewhere
  <2>6. HeldAreProcessing'
    BY <1>4, <2>2 DEF Inv, HeldAreProcessing
  <2>7. ReschedAtMostOnce' /\ OutcomeRight'
    BY <1>1, <1>2, <1>9, <2>2
    DEF ReschedAtMostOnce, Rescheduled, OutcomeRight, IsEnd, EndsAreReal
  <2> QED BY <1>5, <1>6, <1>7, <2>3, <2>5, <2>6, <2>7 DEF Inv
<1>10. CASE ~IsEnd(s) /\ (streams[s].error \/ Rescheduled(input, s) > 0)
  <2>1. input' = [input EXCEPT !.error = @ \cup {s}]
    BY <1>10 DEF ReportFinished
  <2>2. /\ input'.ready = input.ready
        /\ input'.filenames = input.filenames
        /\ input'.finished = input.finished /\ input'.error = input.error \cup {s}
        /\ input'.processing = input.processing
        /\ input'.resched_count = input.resched_count
    BY <1>1, <2>1 DEF Types
  <2>3. Types'
    BY <1>1, <1>8, <2>1, <2>2 DEF Types
  <2>4. ReadyOnce' /\ (\A x : IsReady(x)' <=> IsReady(x))
    BY <1>1, <2>2 DEF IsReady, ReadyOnce, PlacesRight
  <2>5. PlacesRight'
    BY <1>1, <1>2, <1>3, <1>4, <1>5, <2>2, <2>4
    DEF PlacesRight, PlacedExist, PlacesApart, PlacedSomewhere
  <2>6. HeldAreProcessing'
    BY <1>4, <2>2 DEF Inv, HeldAreProcessing
  <2>7. ReschedAtMostOnce'
    BY <1>1, <2>2 DEF ReschedAtMostOnce, Rescheduled
  <2>8. streams[s].error \/ Rescheduled(input, s) = 1
    BY <1>1, <1>10 DEF ReschedAtMostOnce
  <2>9. OutcomeRight'
    BY <1>1, <2>2, <2>8 DEF Rescheduled, OutcomeRight, IsEnd
  <2> QED BY <1>5, <1>6, <1>7, <2>3, <2>5, <2>6, <2>7, <2>9 DEF Inv
<1>11. CASE ~IsEnd(s) /\ ~(streams[s].error \/ Rescheduled(input, s) > 0)
  <2> DEFINE c == [x \in DOMAIN input.resched_count \cup {s} |->
                      Rescheduled(input, x) + IF x = s THEN 1 ELSE 0]
  <2>1. input' = [input EXCEPT !.ready = <<s>> \o @, !.resched_count = c]
    BY <1>11 DEF ReportFinished
  <2> HIDE DEF c
  <2>2. /\ input'.ready = <<s>> \o input.ready
        /\ input'.filenames = input.filenames
        /\ input'.finished = input.finished /\ input'.error = input.error
        /\ input'.processing = input.processing
        /\ input'.resched_count = c
    BY <1>1, <2>1 DEF Types
  <2>3. /\ input'.ready \in Seq(Nat)
        /\ \A x \in Nat : IsReady(x)' <=> x = s \/ IsReady(x)
        /\ ReadyOnce'
    BY <1>1, <1>2, <2>2, PushReady DEF Types, PlacesRight
  <2>4. Types'
    BY <1>1, <1>8, <2>1, <2>2, <2>3 DEF Types
  <2>5. PlacesRight'
    BY <1>1, <1>2, <1>3, <1>4, <1>5, <2>2, <2>3
    DEF PlacesRight, PlacedExist, PlacesApart, PlacedSomewhere
  <2>6. HeldAreProcessing'
    BY <1>4, <2>2 DEF Inv, HeldAreProcessing
  <2>7. Rescheduled(input, s) = 0
    BY <1>1, <1>11 DEF ReschedAtMostOnce
  <2>8. /\ Rescheduled(input', s) = 1
        /\ \A x \in Nat : x # s => Rescheduled(input', x) = Rescheduled(input, x)
    <3>1. \A x : Rescheduled(input', x) = IF x \in DOMAIN c THEN c[x] ELSE 0
      BY <2>2 DEF Rescheduled
    <3>2. c[s] = 1 /\ s \in DOMAIN c
      BY <2>7 DEF c
    <3>3. ASSUME NEW x \in Nat, x # s
          PROVE  Rescheduled(input', x) = Rescheduled(input, x)
      <4>1. Rescheduled(input, x) \in {0, 1}
        BY <1>1 DEF ReschedAtMostOnce
      <4>2. CASE x \in DOMAIN input.resched_count
        <5>1. x \in DOMAIN c /\ c[x] = Rescheduled(input, x)
          BY <3>3, <4>1, <4>2 DEF c
        <5> QED BY <3>1, <5>1
      <4>3. CASE x \notin DOMAIN input.resched_count
        <5>1. x \notin DOMAIN c
          BY <3>3, <4>3 DEF c
        <5> QED BY <3>1, <4>3, <5>1 DEF Rescheduled
      <4> QED BY <4>2, <4>3
    <3> QED BY <3>1, <3>2, <3>3
  <2>9. ReschedAtMostOnce'
    BY <1>1, <2>8 DEF ReschedAtMostOnce
  <2>10. OutcomeRight'
    BY <1>1, <1>2, <1>3, <2>2, <2>8
    DEF OutcomeRight, IsEnd, PlacesRight, PlacedExist
  <2> QED BY <1>5, <1>6, <1>7, <2>4, <2>5, <2>6, <2>9, <2>10 DEF Inv
<1> QED BY <1>9, <1>10, <1>11

\* Every step, and a stutter.
LEMMA StepInv ==
    ASSUME Inv, [Next]_vars
    PROVE  Inv'
<1>1. ASSUME NEW f \in FileName, AddStream(f) PROVE Inv'
  BY <1>1, AddStreamInv
<1>2. ASSUME NEW f \in FileName, NEW check \in BOOLEAN, AddFile(f, check) PROVE Inv'
  BY <1>2, AddFileInv
<1>3. ASSUME NEW w \in Worker, GetStream(w) PROVE Inv'
  BY <1>3, GetStreamInv
<1>4. ASSUME NEW w \in Worker, ReadNext(w) PROVE Inv'
  BY <1>4, ReadNextInv
<1>5. ASSUME NEW w \in Worker, ReadFails(w) PROVE Inv'
  BY <1>5, ReadFailsInv
<1>6. ASSUME NEW w \in Worker, ReturnStream(w) PROVE Inv'
  BY <1>6, BringBackInv DEF ReturnStream
<1>7. ASSUME NEW w \in Worker, ReadThrows(w) PROVE Inv'
  BY <1>7, BringBackInv DEF ReadThrows
<1>8. CASE UNCHANGED vars
  <2>1. Types' /\ HoldersHold' /\ SomeoneStays'
    BY <1>8 DEF vars, Inv, Types, HoldersHold, SomeoneStays
  <2>2. PlacesRight'
    BY <1>8 DEF vars, Inv, PlacesRight, PlacedExist, ReadyOnce, HeldOnce, PlacesApart,
                PlacedSomewhere, IsReady, IsHeld, Stream
  <2>3. HeldAreProcessing' /\ EndsAreReal' /\ ReschedAtMostOnce' /\ OutcomeRight'
    BY <1>8 DEF vars, Inv, HeldAreProcessing, IsHeld, EndsAreReal, ReschedAtMostOnce,
                OutcomeRight, Rescheduled, IsEnd, Stream
  <2> QED BY <2>1, <2>2, <2>3 DEF Inv
<1> QED BY <1>1, <1>2, <1>3, <1>4, <1>5, <1>6, <1>7, <1>8 DEF Next, Work

-----------------------------------------------------------------------------
(* What follows from the invariant.                                         *)

\* The places of a stream that is somewhere, and nowhere else, are one.
LEMMA OnePlace ==
    ASSUME Inv
    PROVE  PlacedOnce
<1> SUFFICES ASSUME NEW s \in Stream PROVE Cardinality(Places(s)) = 1
  BY DEF PlacedOnce
<1>1. Types /\ PlacesRight /\ s \in Nat
  BY DEF Inv, Stream
<1>2. DOMAIN input.ready = 1 .. Len(input.ready)
  BY <1>1 DEF Types
<1>3. \E p : Places(s) = {p}
  <2>1. CASE IsReady(s)
    <3>1. PICK n \in 1 .. Len(input.ready) : input.ready[n] = s
      BY <2>1 DEF IsReady
    <3>2. ~IsHeld(s) /\ s \notin input.finished /\ s \notin input.error
      BY <1>1, <2>1 DEF PlacesRight, PlacesApart
    <3>3. {m \in DOMAIN input.ready : input.ready[m] = s} = {n}
      BY <1>1, <1>2, <3>1 DEF PlacesRight, ReadyOnce
    <3>4. {v \in Worker : held[v] = s} = {}
      BY <3>2 DEF IsHeld
    <3>5. Places(s) = {<<"ready", n>>}
      BY <3>2, <3>3, <3>4 DEF Places
    <3> QED BY <3>5
  <2>2. CASE IsHeld(s)
    <3>1. PICK w \in Worker : held[w] = s
      BY <2>2 DEF IsHeld
    <3>2. ~IsReady(s) /\ s \notin input.finished /\ s \notin input.error
      BY <1>1, <2>2 DEF PlacesRight, PlacesApart
    <3>3. {v \in Worker : held[v] = s} = {w}
      BY <1>1, <3>1, A4InputAssumption DEF PlacesRight, HeldOnce
    <3>4. {m \in DOMAIN input.ready : input.ready[m] = s} = {}
      BY <1>2, <3>2 DEF IsReady
    <3>5. Places(s) = {<<"held", w>>}
      BY <3>2, <3>3, <3>4 DEF Places
    <3> QED BY <3>5
  <2>3. CASE ~IsReady(s) /\ ~IsHeld(s)
    <3>1. \/ s \in input.finished /\ s \notin input.error
          \/ s \notin input.finished /\ s \in input.error
      BY <1>1, <2>3 DEF PlacesRight, PlacedSomewhere, PlacesApart
    <3>2. /\ {m \in DOMAIN input.ready : input.ready[m] = s} = {}
          /\ {v \in Worker : held[v] = s} = {}
      BY <1>2, <2>3 DEF IsReady, IsHeld
    <3>3. Places(s) = {<<"finished", s>>} \/ Places(s) = {<<"error", s>>}
      BY <3>1, <3>2 DEF Places
    <3> QED BY <3>3
  <2> QED BY <2>1, <2>2, <2>3
<1> QED BY <1>3, FS_Singleton

\* When all have left there is nothing to hand out, and nobody holds a stream.
LEMMA NothingLeft ==
    ASSUME Inv
    PROVE  NothingLeftBehind
<1> SUFFICES ASSUME \A w \in Worker : worker[w] = "left" PROVE AllDone
  BY DEF NothingLeftBehind
<1>1. input.ready = << >> /\ input.filenames = << >>
  BY DEF Inv, SomeoneStays
<1>2. \A s : ~IsReady(s)
  BY <1>1 DEF IsReady
<1>3. \A s \in Nat : ~IsHeld(s)
  BY A4InputAssumption DEF Inv, HoldersHold, IsHeld
<1>4. Stream = input.finished \cup input.error
  BY <1>2, <1>3 DEF Inv, PlacesRight, PlacedExist, PlacedSomewhere, Stream
<1> QED BY <1>1, <1>4 DEF AllDone

-----------------------------------------------------------------------------
(* The properties, for every number of threads and streams.                 *)

\* What get_stream and the deleter do to the five places keeps the invariant, in
\* every order of the threads.
THEOREM Invariance == Spec => []Inv
<1>1. Init => Inv
  BY InitInv
<1>2. Inv /\ [Next]_vars => Inv'
  BY StepInv
<1> QED BY <1>1, <1>2, PTL DEF Spec

\* input.cpp: a stream waits once, or is held by one thread, or is finished, or is
\* given up; no two threads read one stream, and none is lost.
THEOREM StreamsPlacedOnce == Spec => []PlacedOnce
BY Invariance, OnePlace, PTL

\* input.cpp: what is finished was read to its end without an error, and what is
\* given up has an error or came back unfinished a second time.
THEOREM OutcomesAreRight == Spec => []OutcomeRight
<1>1. Inv => OutcomeRight
  BY DEF Inv
<1> QED BY <1>1, Invariance, PTL

\* input.cpp: when get_stream has told every thread that nothing is left, every
\* stream is finished or given up.
THEOREM NothingIsLeftBehind == Spec => []NothingLeftBehind
BY Invariance, NothingLeft, PTL
=============================================================================
