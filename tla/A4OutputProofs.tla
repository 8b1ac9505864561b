--------------------------- MODULE A4OutputProofs ---------------------------
(***************************************************************************)
(* What is proved of A4Output, for any number of threads, postfixes,       *)
(* streams and messages: no message is lost (DataKept), whichever of the   *)
(* steps of merging fails, and what close() calls merged is merged, in the *)
(* order of the streams (MergedInOrder).  Two things are left out, each of *)
(* which makes it false: a write error while files are copied, and a       *)
(* program that goes on after close().                                     *)
(***************************************************************************)
EXTENDS A4Output, Recursion, FiniteSetTheorems, SequenceTheorems, TLAPS
-----------------------------------------------------------------------------
(* The streams that were used, in their order                               *)

StreamRecord == [opened : BOOLEAN, closed : BOOLEAN, messages : Nat]

\* s lists the numbers of S in their order.
Enumerates(s, S) ==
    /\ s \in Seq(Nat)
    /\ \A i \in DOMAIN s : s[i] \in S
    /\ \A n \in S : \E i \in DOMAIN s : s[i] = n
    /\ \A i, j \in DOMAIN s : i < j => s[i] < s[j]

\* UsedStreams of a postfix, told by the streams
UsedOf(streams) ==
    LET used[n \in 0 .. Len(streams)] ==
            IF n = 0 THEN << >>
            ELSE IF streams[n].opened THEN Append(used[n - 1], n) ELSE used[n - 1]
    IN used[Len(streams)]

UsedIn(streams, n) == {i \in 1 .. n : streams[i].opened}

LEMMA UsedStreamsAreThose ==
  ASSUME NEW p
  PROVE  UsedStreams(p) = UsedOf(out.out_streams[p])
BY DEF UsedStreams, UsedOf

LEMMA OneMoreListed ==
  ASSUME NEW s, NEW n \in Nat, n >= 1, NEW S \in SUBSET (1 .. n - 1), Enumerates(s, S)
  PROVE  Enumerates(Append(s, n), S \cup {n})
<1> DEFINE t == Append(s, n)
           k == Len(s)
<1>1. s \in Seq(Nat) /\ k \in Nat /\ DOMAIN s = 1 .. k
  BY DEF Enumerates
<1>2. /\ t \in Seq(Nat) /\ DOMAIN t = 1 .. k + 1
      /\ t[k + 1] = n /\ \A i \in 1 .. k : t[i] = s[i]
  BY <1>1
<1>3. \A i \in 1 .. k : s[i] \in S /\ s[i] < n
  BY <1>1 DEF Enumerates
<1> HIDE DEF t, k
<1>4. \A i \in 1 .. k + 1 : i = k + 1 \/ i \in 1 .. k
  BY <1>1
<1>5. \A i \in DOMAIN t : t[i] \in S \cup {n}
  BY <1>2, <1>3, <1>4
<1>6. ASSUME NEW x \in S \cup {n} PROVE \E i \in DOMAIN t : t[i] = x
  <2>1. CASE x = n
    BY <1>1, <1>2, <2>1
  <2>2. CASE x \in S
    <3>1. PICK i \in 1 .. k : s[i] = x
      BY <1>1, <2>2 DEF Enumerates
    <3>2. i \in DOMAIN t /\ t[i] = x
      BY <1>1, <1>2, <3>1
    <3>3. QED
      BY <3>2
  <2>3. QED
    BY <2>1, <2>2
<1>7. ASSUME NEW i \in DOMAIN t, NEW j \in DOMAIN t, i < j PROVE t[i] < t[j]
  <2>1. i \in 1 .. k
    BY <1>1, <1>2, <1>7
  <2>2. CASE j = k + 1
    BY <1>2, <1>3, <2>1, <2>2
  <2>3. CASE j \in 1 .. k
    BY <1>1, <1>2, <1>7, <2>1, <2>3 DEF Enumerates
  <2>4. QED
    BY <1>2, <1>4, <2>2, <2>3
<1>8. QED
  BY <1>2, <1>5, <1>6, <1>7 DEF Enumerates, t

LEMMA UsedAreListed ==
  ASSUME NEW streams \in Seq(StreamRecord)
  PROVE  Enumerates(UsedOf(streams), UsedIn(streams, Len(streams)))
<1> DEFINE N == Len(streams)
           step == [s \in Seq(Nat) |-> [i \in 1 .. N |->
                      IF streams[i].opened THEN Append(s, i) ELSE s]]
           used == CHOOSE f : f = [n \in 0 .. N |->
                      IF n = 0 THEN << >>
                      ELSE IF streams[n].opened THEN Append(f[n - 1], n) ELSE f[n - 1]]
<1>1. N \in Nat
  OBVIOUS
<1>2. \E f : f = [n \in 0 .. N |->
                    IF n = 0 THEN << >>
                    ELSE IF streams[n].opened THEN Append(f[n - 1], n) ELSE f[n - 1]]
  <2> DEFINE Nats == Seq(Nat)
             none == << >>
  <2>1. none \in Nats
    OBVIOUS
  <2>2. step \in [Nats -> [1 .. N -> Nats]]
    <3>1. ASSUME NEW s \in Nats, NEW i \in 1 .. N
          PROVE  (IF streams[i].opened THEN Append(s, i) ELSE s) \in Nats
      BY <1>1
    <3>2. QED
      BY <3>1
  <2>3. \A i \in 1 .. N, s \in Nats :
          step[s][i] = IF streams[i].opened THEN Append(s, i) ELSE s
    OBVIOUS
  <2> HIDE DEF Nats, step, N, none
  <2>4. PICK f \in [0 .. N -> Nats] : f[0] = none /\ \A i \in 1 .. N : f[i] = step[f[i - 1]][i]
    <3>1. Recursive(N, Nats, none, step) # {}
      BY <1>1, <2>1, <2>2, StepByStep
    <3>2. QED
      BY <3>1 DEF Recursive
  <2>5. ASSUME NEW n \in 0 .. N
        PROVE  f[n] = IF n = 0 THEN none
                      ELSE IF streams[n].opened THEN Append(f[n - 1], n) ELSE f[n - 1]
    <3>1. CASE n = 0
      BY <2>4, <3>1
    <3>2. CASE n # 0
      <4>1. n \in 1 .. N /\ n - 1 \in 0 .. N
        BY <1>1, <3>2
      <4>2. f[n - 1] \in Nats
        BY <4>1
      <4>3. QED
        BY <2>3, <2>4, <3>2, <4>1, <4>2
    <3>3. QED
      BY <3>1, <3>2
  <2>6. f = [n \in 0 .. N |->
                    IF n = 0 THEN none
                    ELSE IF streams[n].opened THEN Append(f[n - 1], n) ELSE f[n - 1]]
    BY <2>5, SMTT(30)
  <2>7. QED
    BY <2>6 DEF none
<1> HIDE DEF step
<1>3. used = [n \in 0 .. N |->
                    IF n = 0 THEN << >>
                    ELSE IF streams[n].opened THEN Append(used[n - 1], n) ELSE used[n - 1]]
  BY <1>2
<1>4. UsedOf(streams) = used[N]
  BY DEF UsedOf
<1> HIDE DEF used, N
<1> DEFINE good == {n \in 0 .. N : Enumerates(used[n], UsedIn(streams, n))}
<1>5. 0 \in good
  <2>1. used[0] = << >> /\ UsedIn(streams, 0) = {}
    BY <1>1, <1>3 DEF UsedIn
  <2>2. << >> \in Seq(Nat) /\ DOMAIN << >> = {}
    OBVIOUS
  <2>3. Enumerates(used[0], UsedIn(streams, 0))
    BY <2>1, <2>2 DEF Enumerates
  <2>4. 0 \in 0 .. N
    BY <1>1
  <2>5. QED
    BY <2>3, <2>4
<1>6. ASSUME NEW n \in 0 + 1 .. N, n - 1 \in good PROVE n \in good
  <2>1. n \in 1 .. N /\ n \in Nat /\ n >= 1 /\ n # 0 /\ n \in 0 .. N
    BY <1>1
  <2>2. used[n] = IF streams[n].opened THEN Append(used[n - 1], n) ELSE used[n - 1]
    BY <1>3, <2>1
  <2>3. Enumerates(used[n - 1], UsedIn(streams, n - 1))
    BY <1>6
  <2>4. UsedIn(streams, n - 1) \in SUBSET (1 .. n - 1)
    BY DEF UsedIn
  <2>5. UsedIn(streams, n) = IF streams[n].opened THEN UsedIn(streams, n - 1) \cup {n}
                             ELSE UsedIn(streams, n - 1)
    <3>1. \A i : i \in 1 .. n <=> i = n \/ i \in 1 .. n - 1
      BY <2>1
    <3>2. QED
      BY <3>1 DEF UsedIn
  <2>6. Enumerates(used[n], UsedIn(streams, n))
    BY <2>1, <2>2, <2>3, <2>4, <2>5, OneMoreListed
  <2>7. QED
    BY <2>1, <2>6
<1> HIDE DEF good
<1>7. N \in good
  <2>1. \A n \in 0 .. N : n \in good
    BY <1>1, <1>5, <1>6, NumberByNumber
  <2>2. QED
    BY <1>1, <2>1
<1>8. QED
  BY <1>4, <1>7 DEF good, N
-----------------------------------------------------------------------------
(* Files that are copied behind each other                                  *)

\* Each holds what one stream wrote.
LEMMA CopiesInOrder ==
  ASSUME NEW n \in Nat, NEW S, NEW c \in [1 .. n -> S]
  PROVE  FlattenSeq([j \in 1 .. n |-> <<c[j]>>]) = c
<1> DEFINE ss == [j \in 1 .. n |-> <<c[j]>>]
           g == [i \in 1 .. n |-> [j \in 1 .. i |-> c[j]]]
           flatten == CHOOSE f : f = [i \in 1 .. n |->
                         IF i = 1 THEN ss[i] ELSE f[i - 1] \o ss[i]]
<1>1. ss \in Seq(Seq(S)) /\ Len(ss) = n /\ \A i \in 1 .. n : ss[i] = <<c[i]>>
  OBVIOUS
<1>2. CASE n = 0
  <2>1. FlattenSeq(ss) = ss
    BY <1>1, <1>2 DEF FlattenSeq
  <2>2. ss = c
    BY <1>2
  <2>3. QED
    BY <2>1, <2>2
<1>3. CASE n # 0
  <2>1. n \in 1 .. n /\ 1 \in 1 .. n
    BY <1>3
  <2>2. ASSUME NEW i \in 1 .. n, NEW s, s = [j \in 1 .. i - 1 |-> c[j]], i # 1
        PROVE  s \o ss[i] = [j \in 1 .. i |-> c[j]]
    <3>1. s \in Seq(S) /\ Len(s) = i - 1 /\ <<c[i]>> \in Seq(S) /\ Len(<<c[i]>>) = 1
      BY <2>2
    <3>2. /\ Len(s \o <<c[i]>>) = i /\ s \o <<c[i]>> \in Seq(S)
          /\ \A j \in 1 .. i : (s \o <<c[i]>>)[j] = c[j]
      <4>1. \A j \in 1 .. i - 1 : s[j] = c[j]
        BY <2>2
      <4>2. \A j \in 1 .. i : j = i \/ j \in 1 .. i - 1
        OBVIOUS
      <4>3. QED
        BY <3>1, <4>1, <4>2, ConcatProperties
    <3>3. s \o <<c[i]>> = [j \in 1 .. i |-> c[j]]
      BY <3>2
    <3>4. QED
      BY <1>1, <3>3
  <2>3. [j \in 1 .. 1 |-> c[j]] = <<c[1]>>
    OBVIOUS
  <2>4. g = [i \in 1 .. n |-> IF i = 1 THEN ss[i] ELSE g[i - 1] \o ss[i]]
    <3>1. ASSUME NEW i \in 1 .. n PROVE g[i] = IF i = 1 THEN ss[i] ELSE g[i - 1] \o ss[i]
      <4>1. CASE i = 1
        BY <1>1, <2>3, <4>1
      <4>2. CASE i # 1
        <5>1. i - 1 \in 1 .. n
          BY <4>2
        <5>2. g[i - 1] = [j \in 1 .. i - 1 |-> c[j]] /\ g[i] = [j \in 1 .. i |-> c[j]]
          BY <5>1
        <5>3. QED
          BY <2>2, <4>2, <5>2
      <4>3. QED
        BY <4>1, <4>2
    <3>2. QED
      BY <3>1
  <2>5. flatten = [i \in 1 .. n |-> IF i = 1 THEN ss[i] ELSE flatten[i - 1] \o ss[i]]
    <3>1. \E f : f = [i \in 1 .. n |-> IF i = 1 THEN ss[i] ELSE f[i - 1] \o ss[i]]
      BY <2>4
    <3>2. QED
      BY <3>1
  <2>6. FlattenSeq(ss) = flatten[n]
    BY <1>1, <1>3 DEF FlattenSeq
  <2> HIDE DEF flatten, g
  <2> DEFINE good == {i \in 1 .. n : flatten[i] = [j \in 1 .. i |-> c[j]]}
  <2>7. 1 \in good
    BY <1>1, <2>1, <2>3, <2>5
  <2>8. ASSUME NEW i \in 1 + 1 .. n, i - 1 \in good PROVE i \in good
    <3>1. i \in 1 .. n /\ i # 1
      OBVIOUS
    <3>2. flatten[i] = flatten[i - 1] \o ss[i]
      BY <2>5, <3>1
    <3>3. flatten[i - 1] = [j \in 1 .. i - 1 |-> c[j]]
      BY <2>8
    <3>4. QED
      BY <2>2, <3>1, <3>2, <3>3
  <2> HIDE DEF good
  <2>9. n \in good
    BY <2>1, <2>7, <2>8, NumberByNumber
  <2>10. flatten[n] = c
    BY <2>9 DEF good
  <2>11. QED
    BY <2>6, <2>10
<1>4. QED
  BY <1>2, <1>3
-----------------------------------------------------------------------------
(* The names of the files                                                   *)

LEMMA PathIs ==
  ASSUME NEW p \in Postfix, NEW n \in Nat
  PROVE  \E S : /\ Postfixes[p] \in Seq(S) /\ Path(p, n) \in Seq(S)
                /\ Len(Path(p, n)) = Len(Postfixes[p]) + 1
                /\ Path(p, n)[Len(Postfixes[p]) + 1] = n
                /\ \A i \in 1 .. Len(Postfixes[p]) : Path(p, n)[i] = Postfixes[p][i]
<1> DEFINE T == UNION {ToSet(Postfixes[q]) : q \in DOMAIN Postfixes}
           S == T \cup Nat
<1>1. Postfixes \in Seq(Seq(T))
  BY A4OutputAssumption
<1> HIDE DEF T
<1>2. Postfixes[p] \in Seq(T)
  BY <1>1 DEF Postfix
<1> DEFINE s == Postfixes[p]
<1> HIDE DEF s
<1>3. s \in Seq(T)
  BY <1>2 DEF s
<1>4. s \in Seq(S) /\ <<n>> \in Seq(S)
  BY <1>3
<1> HIDE DEF S
<1>5. Len(<<n>>) = 1 /\ <<n>>[1] = n /\ Len(s) \in Nat
  BY <1>4
<1>6. /\ s \o <<n>> \in Seq(S) /\ Len(s \o <<n>>) = Len(s) + 1
      /\ \A i \in 1 .. Len(s) + 1 : (s \o <<n>>)[i] = IF i <= Len(s) THEN s[i] ELSE <<n>>[i - Len(s)]
  BY <1>4, <1>5, ConcatProperties
<1>7. (s \o <<n>>)[Len(s) + 1] = n /\ \A i \in 1 .. Len(s) : (s \o <<n>>)[i] = s[i]
  BY <1>5, <1>6
<1>8. QED
  BY <1>4, <1>6, <1>7 DEF s, Path

\* Two streams have two paths.
LEMMA PathsDiffer ==
  ASSUME NEW p \in Postfix, NEW n \in Nat, NEW q \in Postfix, NEW m \in Nat, Path(p, n) = Path(q, m)
  PROVE  p = q /\ n = m
<1>1. PICK S : /\ Postfixes[p] \in Seq(S) /\ Path(p, n) \in Seq(S)
               /\ Len(Path(p, n)) = Len(Postfixes[p]) + 1
               /\ Path(p, n)[Len(Postfixes[p]) + 1] = n
               /\ \A i \in 1 .. Len(Postfixes[p]) : Path(p, n)[i] = Postfixes[p][i]
  BY PathIs
<1>2. PICK S2 : /\ Postfixes[q] \in Seq(S2) /\ Path(q, m) \in Seq(S2)
                /\ Len(Path(q, m)) = Len(Postfixes[q]) + 1
                /\ Path(q, m)[Len(Postfixes[q]) + 1] = m
                /\ \A i \in 1 .. Len(Postfixes[q]) : Path(q, m)[i] = Postfixes[q][i]
  BY PathIs
<1>3. Len(Postfixes[p]) \in Nat /\ Len(Postfixes[q]) \in Nat
  BY <1>1, <1>2
<1>4. Len(Postfixes[p]) = Len(Postfixes[q]) /\ n = m
  BY <1>1, <1>2, <1>3, SMTT(30)
<1>5. \A i \in 1 .. Len(Postfixes[p]) : Postfixes[p][i] = Postfixes[q][i]
  BY <1>1, <1>2, <1>4
<1>6. Postfixes[p] = Postfixes[q]
  <2>1. Postfixes[p] \in Seq(S \cup S2) /\ Postfixes[q] \in Seq(S \cup S2)
    BY <1>1, <1>2
  <2>2. QED
    BY <1>4, <1>5, <2>1, SeqEqual
<1>7. QED
  BY <1>4, <1>6, A4OutputAssumption DEF Postfix, IsInjective

\* A postfix has the name of a stream of an earlier one only.
LEMMA TargetBefore ==
  ASSUME NEW p \in Postfix, NEW n \in Nat, NEW q \in Postfix, Target(q) = Path(p, n)
  PROVE  p < q
<1>1. PICK S : /\ Postfixes[p] \in Seq(S) /\ Path(p, n) \in Seq(S)
               /\ Len(Path(p, n)) = Len(Postfixes[p]) + 1
               /\ \A i \in 1 .. Len(Postfixes[p]) : Path(p, n)[i] = Postfixes[p][i]
  BY PathIs
<1> DEFINE s == Postfixes[p]
           t == Path(p, n)
<1>2. s \in Seq(S) /\ t \in Seq(S) /\ Len(t) = Len(s) + 1 /\ \A i \in 1 .. Len(s) : t[i] = s[i]
  BY <1>1
<1> HIDE DEF s, t
<1>3. t # << >> /\ Len(t) - 1 = Len(s) /\ Len(s) \in Nat
  BY <1>2
<1>4. SubSeq(t, 1, Len(t) - 1) = s
  <2>1. SubSeq(t, 1, Len(s)) = [i \in 1 .. Len(s) |-> t[i]]
    BY <1>2, <1>3
  <2>2. s = [i \in 1 .. Len(s) |-> s[i]]
    BY <1>2
  <2>3. [i \in 1 .. Len(s) |-> t[i]] = [i \in 1 .. Len(s) |-> s[i]]
    BY <1>2
  <2>4. QED
    BY <1>3, <2>1, <2>2, <2>3
<1>5. Postfixes[q] # << >> /\ Front(Postfixes[q]) = Postfixes[p]
  BY <1>3, <1>4 DEF Front, s, t, Target
<1>6. QED
  BY <1>5, A4OutputAssumption DEF Postfix

LEMMA TargetsDiffer ==
  ASSUME NEW p \in Postfix, NEW q \in Postfix, Target(p) = Target(q)
  PROVE  p = q
BY A4OutputAssumption DEF Postfix, IsInjective, Target
-----------------------------------------------------------------------------
(* The inductive invariant                                                  *)

OutRecord ==
    [regular_file : BOOLEAN, closed : BOOLEAN, merging : 0 .. Len(Postfixes),
     success : BOOLEAN, returned : {"none", "TRUE", "FALSE"},
     out_streams : [Postfix -> Seq(StreamRecord)]]

\* Of an A4Output o and files f: StreamAt, Created, Opened, PathOf and Holding
StreamIn(o, r) == o.out_streams[r[1]][r[2]]
CreatedIn(o) == {r \in StreamRef : r[2] \in DOMAIN o.out_streams[r[1]]}
OpenedIn(o) == {r \in CreatedIn(o) : StreamIn(o, r).opened}
PathIn(o, r) == IF o.regular_file THEN Path(r[1], r[2]) ELSE << >>
Holds(o, f, r, q) ==
    \E i \in DOMAIN f[q] : f[q][i].stream = r /\ f[q][i].messages = StreamIn(o, r).messages
KeptIn(o, f) == \A r \in OpenedIn(o) : Cardinality({q \in DOMAIN f : Holds(o, f, r, q)}) = 1

Typed(o, h) ==
    /\ o \in OutRecord
    /\ \A p \in Postfix : Len(o.out_streams[p]) <= MaxStreams
    /\ DOMAIN h = Worker
    /\ \A w \in Worker : h[w] # NoStream => h[w] \in CreatedIn(o)

\* What each step of the life of the output has to do with the others
Flow(o) ==
    /\ ~o.closed => o.merging = 0 /\ o.success /\ o.returned = "none"
    /\ o.closed => \A r \in OpenedIn(o) : StreamIn(o, r).closed
    /\ o.merging # 0 => o.closed /\ o.regular_file /\ o.returned = "none"
    /\ ~o.success => o.closed /\ o.regular_file
    /\ o.returned = "TRUE" => o.closed /\ o.success /\ o.merging = 0
    /\ ~o.regular_file => \A r \in CreatedIn(o) : r = <<1, 1>> /\ StreamIn(o, r).opened

\* The place in the map that merging has come to: the postfixes before it are merged.
Stage(o) == IF ~o.closed \/ ~o.regular_file THEN 1
            ELSE IF o.merging # 0 THEN o.merging ELSE Len(Postfixes) + 1

\* The file that a stream is in, and what this file holds
ChunkOf(o, p, n) == Chunk(p, n, o.out_streams[p][n].messages, o.out_streams[p][n].closed)
MergedOf(o, p) ==
    [i \in DOMAIN UsedOf(o.out_streams[p]) |-> ChunkOf(o, p, UsedOf(o.out_streams[p])[i])]
PlaceOf(o, r) == IF r[1] < Stage(o) THEN Target(r[1]) ELSE PathIn(o, r)
ContentOf(o, r) == IF r[1] < Stage(o) THEN MergedOf(o, r[1]) ELSE <<ChunkOf(o, r[1], r[2])>>
InPlace(o, f) ==
    /\ DOMAIN f = {PlaceOf(o, r) : r \in OpenedIn(o)}
    /\ \A r \in OpenedIn(o) : f[PlaceOf(o, r)] = ContentOf(o, r)

AInv ==
    /\ Typed(out, held)
    /\ Flow(out)
    /\ out.success => InPlace(out, fs)
    /\ ~out.success => KeptIn(out, fs)
-----------------------------------------------------------------------------
(* What it says of the messages                                             *)

LEMMA BoundIs == MaxStreams \in Nat /\ MaxStreams >= 1
<1>1. MaxStreams \in Nat \ {0}
  BY A4OutputAssumption
<1>2. QED
  BY <1>1

LEMMA PostfixesAre == Len(Postfixes) \in Nat /\ Postfix = 1 .. Len(Postfixes)
<1> DEFINE T == Seq(UNION {ToSet(Postfixes[p]) : p \in DOMAIN Postfixes})
<1>1. Postfixes \in Seq(T)
  BY A4OutputAssumption
<1> HIDE DEF T
<1>2. QED
  BY <1>1 DEF Postfix

LEMMA RefIs ==
  ASSUME NEW r \in StreamRef
  PROVE  r = <<r[1], r[2]>> /\ r[1] \in Postfix /\ r[2] \in 1 .. MaxStreams /\ r[2] \in Nat
BY BoundIs DEF StreamRef

LEMMA StreamIs ==
  ASSUME NEW o, NEW h, Typed(o, h), NEW r \in CreatedIn(o)
  PROVE  /\ StreamIn(o, r) \in StreamRecord
         /\ StreamIn(o, r).opened \in BOOLEAN /\ StreamIn(o, r).closed \in BOOLEAN
         /\ StreamIn(o, r).messages \in Nat
<1>1. r \in StreamRef /\ r[2] \in DOMAIN o.out_streams[r[1]]
  BY DEF CreatedIn
<1>2. o.out_streams[r[1]] \in Seq(StreamRecord)
  BY <1>1, RefIs DEF Typed, OutRecord
<1>3. StreamIn(o, r) \in StreamRecord
  BY <1>1, <1>2 DEF StreamIn
<1>4. QED
  BY <1>3 DEF StreamRecord

LEMMA UsedAreOpened ==
  ASSUME NEW o, NEW h, Typed(o, h), NEW p \in Postfix
  PROVE  /\ UsedOf(o.out_streams[p]) \in Seq(Nat)
         /\ \A i \in DOMAIN UsedOf(o.out_streams[p]) :
              <<p, UsedOf(o.out_streams[p])[i]>> \in OpenedIn(o)
         /\ \A r \in OpenedIn(o) :
              r[1] = p => \E i \in DOMAIN UsedOf(o.out_streams[p]) : UsedOf(o.out_streams[p])[i] = r[2]
         /\ \A i, j \in DOMAIN UsedOf(o.out_streams[p]) :
              i < j => UsedOf(o.out_streams[p])[i] < UsedOf(o.out_streams[p])[j]
<1> DEFINE s == o.out_streams[p]
           u == UsedOf(s)
<1>1. s \in Seq(StreamRecord) /\ Len(s) <= MaxStreams
  BY DEF Typed, OutRecord
<1>2. Enumerates(u, UsedIn(s, Len(s)))
  BY <1>1, UsedAreListed
<1>3. DOMAIN s = 1 .. Len(s) /\ Len(s) \in Nat /\ MaxStreams \in Nat
  BY <1>1, BoundIs
<1>4. ASSUME NEW n \in 1 .. Len(s), s[n].opened PROVE <<p, n>> \in OpenedIn(o)
  <2>1. n \in 1 .. MaxStreams
    BY <1>1, <1>3
  <2>2. <<p, n>> \in StreamRef
    BY <2>1 DEF StreamRef
  <2>3. QED
    BY <1>3, <1>4, <2>2 DEF OpenedIn, CreatedIn, StreamIn
<1>5. ASSUME NEW r \in OpenedIn(o), r[1] = p PROVE r[2] \in UsedIn(s, Len(s))
  BY <1>3, <1>5 DEF OpenedIn, CreatedIn, StreamIn, UsedIn
<1>6. \A n \in UsedIn(s, Len(s)) : <<p, n>> \in OpenedIn(o)
  BY <1>4 DEF UsedIn
<1> HIDE DEF u
<1>7. /\ u \in Seq(Nat)
      /\ \A i \in DOMAIN u : u[i] \in UsedIn(s, Len(s))
      /\ \A n \in UsedIn(s, Len(s)) : \E i \in DOMAIN u : u[i] = n
      /\ \A i, j \in DOMAIN u : i < j => u[i] < u[j]
  BY <1>2 DEF Enumerates
<1>8. /\ u \in Seq(Nat)
      /\ \A i \in DOMAIN u : <<p, u[i]>> \in OpenedIn(o)
      /\ \A r \in OpenedIn(o) : r[1] = p => \E i \in DOMAIN u : u[i] = r[2]
      /\ \A i, j \in DOMAIN u : i < j => u[i] < u[j]
  BY <1>5, <1>6, <1>7
<1>9. QED
  BY <1>8 DEF u

\* A stream is in the file it should be in, and in no other one.
LEMMA OnlyThere ==
  ASSUME NEW o, NEW h, NEW f, Typed(o, h), InPlace(o, f), NEW r \in OpenedIn(o)
  PROVE  /\ PlaceOf(o, r) \in DOMAIN f
         /\ Holds(o, f, r, PlaceOf(o, r))
         /\ \A q \in DOMAIN f : Holds(o, f, r, q) => q = PlaceOf(o, r)
<1>1. \A x \in OpenedIn(o) : x = <<x[1], x[2]>> /\ x[1] \in Postfix
  BY RefIs DEF OpenedIn, CreatedIn
<1>2. PlaceOf(o, r) \in DOMAIN f /\ f[PlaceOf(o, r)] = ContentOf(o, r)
  BY DEF InPlace
<1>3. ASSUME NEW x \in OpenedIn(o), NEW i \in DOMAIN ContentOf(o, x)
      PROVE  ContentOf(o, x)[i].stream[1] = x[1] /\ (x[1] >= Stage(o) => ContentOf(o, x)[i].stream = x)
  <2>1. CASE x[1] < Stage(o)
    <3>1. ContentOf(o, x) = MergedOf(o, x[1])
      BY <2>1 DEF ContentOf
    <3>2. ContentOf(o, x)[i] = ChunkOf(o, x[1], UsedOf(o.out_streams[x[1]])[i])
      BY <1>3, <3>1 DEF MergedOf
    <3>3. Stage(o) \in Nat /\ x[1] \in Nat
      BY <1>1 DEF Stage, Postfix, Typed, OutRecord
    <3>4. QED
      BY <2>1, <3>2, <3>3 DEF ChunkOf, Chunk
  <2>2. CASE ~(x[1] < Stage(o))
    <3>1. ContentOf(o, x) = <<ChunkOf(o, x[1], x[2])>>
      BY <2>2 DEF ContentOf
    <3>2. i = 1
      BY <1>3, <3>1
    <3>3. ContentOf(o, x)[i] = ChunkOf(o, x[1], x[2])
      BY <3>1, <3>2
    <3>4. ContentOf(o, x)[i].stream = <<x[1], x[2]>>
      BY <3>3 DEF ChunkOf, Chunk
    <3>5. QED
      BY <1>1, <3>4
  <2>3. QED
    BY <2>1, <2>2
<1>4. Holds(o, f, r, PlaceOf(o, r))
  <2>1. CASE r[1] < Stage(o)
    <3> DEFINE p == r[1]
    <3>9. p \in Postfix
      BY <1>1
    <3> HIDE DEF p
    <3>10. \A x \in OpenedIn(o) :
             x[1] = p => \E i \in DOMAIN UsedOf(o.out_streams[p]) : UsedOf(o.out_streams[p])[i] = x[2]
      BY <3>9, UsedAreOpened
    <3>1. PICK i \in DOMAIN UsedOf(o.out_streams[r[1]]) : UsedOf(o.out_streams[r[1]])[i] = r[2]
      BY <3>10 DEF p
    <3>2. ContentOf(o, r) = MergedOf(o, r[1])
      BY <2>1 DEF ContentOf
    <3>3. i \in DOMAIN ContentOf(o, r) /\ ContentOf(o, r)[i] = ChunkOf(o, r[1], r[2])
      BY <3>1, <3>2 DEF MergedOf
    <3>4. QED
      BY <1>1, <1>2, <3>3 DEF Holds, ChunkOf, Chunk, StreamIn
  <2>2. CASE ~(r[1] < Stage(o))
    <3>1. ContentOf(o, r) = <<ChunkOf(o, r[1], r[2])>>
      BY <2>2 DEF ContentOf
    <3>2. 1 \in DOMAIN ContentOf(o, r) /\ ContentOf(o, r)[1] = ChunkOf(o, r[1], r[2])
      BY <3>1
    <3>3. QED
      BY <1>1, <1>2, <3>2 DEF Holds, ChunkOf, Chunk, StreamIn
  <2>3. QED
    BY <2>1, <2>2
<1>5. ASSUME NEW q \in DOMAIN f, Holds(o, f, r, q) PROVE q = PlaceOf(o, r)
  <2>1. PICK x \in OpenedIn(o) : q = PlaceOf(o, x) /\ f[q] = ContentOf(o, x)
    BY DEF InPlace
  <2>2. PICK i \in DOMAIN ContentOf(o, x) : ContentOf(o, x)[i].stream = r
    BY <1>5, <2>1 DEF Holds
  <2>3. r[1] = x[1] /\ (x[1] >= Stage(o) => r = x)
    BY <1>3, <2>2
  <2>4. Stage(o) \in Nat /\ x[1] \in Nat
    BY <1>1 DEF Stage, Postfix, Typed, OutRecord
  <2>5. CASE x[1] < Stage(o)
    BY <2>1, <2>3, <2>5 DEF PlaceOf
  <2>6. CASE x[1] >= Stage(o)
    BY <2>1, <2>3, <2>6
  <2>7. QED
    BY <2>4, <2>5, <2>6
<1>6. QED
  BY <1>2, <1>4, <1>5

\* Being held by one file, and no other one
LEMMA HeldOnce ==
  ASSUME NEW o, NEW f, NEW r, NEW place \in DOMAIN f, Holds(o, f, r, place),
         \A q \in DOMAIN f : Holds(o, f, r, q) => q = place
  PROVE  Cardinality({q \in DOMAIN f : Holds(o, f, r, q)}) = 1
<1>1. {q \in DOMAIN f : Holds(o, f, r, q)} = {place}
  OBVIOUS
<1>2. QED
  BY <1>1, FS_Singleton

LEMMA InPlaceIsKept ==
  ASSUME NEW o, NEW h, NEW f, Typed(o, h), InPlace(o, f)
  PROVE  KeptIn(o, f)
<1>1. ASSUME NEW r \in OpenedIn(o) PROVE Cardinality({q \in DOMAIN f : Holds(o, f, r, q)}) = 1
  BY OnlyThere, HeldOnce
<1>2. QED
  BY <1>1 DEF KeptIn

LEMMA AInvKeeps ==
  ASSUME AInv
  PROVE  DataKept
<1>1. KeptIn(out, fs)
  BY InPlaceIsKept DEF AInv
<1>2. Opened = OpenedIn(out)
  BY DEF Opened, OpenedIn, Created, CreatedIn, StreamAt, StreamIn
<1>3. \A r : Holding(r) = {q \in DOMAIN fs : Holds(out, fs, r, q)}
  BY DEF Holding, Holds, StreamAt, StreamIn
<1>4. QED
  BY <1>1, <1>2, <1>3 DEF DataKept, KeptIn

LEMMA AInvMerges ==
  ASSUME AInv
  PROVE  MergedInOrder
<1> DEFINE full(p) == [i \in DOMAIN UsedStreams(p) |->
                         Chunk(p, UsedStreams(p)[i], out.out_streams[p][UsedStreams(p)[i]].messages, TRUE)]
<1> SUFFICES ASSUME out.returned = "TRUE"
             PROVE  /\ DOMAIN fs = {Target(r[1]) : r \in Opened}
                    /\ \A r \in Opened : fs[Target(r[1])] = full(r[1])
  BY DEF MergedInOrder
<1>1. Opened = OpenedIn(out)
  BY DEF Opened, OpenedIn, Created, CreatedIn, StreamAt, StreamIn
<1>2. Typed(out, held) /\ Flow(out) /\ InPlace(out, fs)
  BY DEF AInv, Flow
<1>3. out.closed /\ out.merging = 0
  BY <1>2 DEF Flow
<1>4. \A r \in OpenedIn(out) : r = <<r[1], r[2]>> /\ r[1] \in Postfix
  BY RefIs DEF OpenedIn, CreatedIn
<1>5. \A p : UsedStreams(p) = UsedOf(out.out_streams[p])
  BY UsedStreamsAreThose
<1>6. ASSUME NEW r \in OpenedIn(out) PROVE MergedOf(out, r[1]) = full(r[1])
  <2>1. \A i \in DOMAIN UsedOf(out.out_streams[r[1]]) :
          <<r[1], UsedOf(out.out_streams[r[1]])[i]>> \in OpenedIn(out)
    BY <1>2, <1>4, UsedAreOpened
  <2>2. \A i \in DOMAIN UsedOf(out.out_streams[r[1]]) :
          out.out_streams[r[1]][UsedOf(out.out_streams[r[1]])[i]].closed
    BY <1>2, <1>3, <2>1 DEF Flow, StreamIn
  <2>3. \A x \in OpenedIn(out) : out.out_streams[x[1]][x[2]].closed \in BOOLEAN
    BY <1>2, StreamIs DEF OpenedIn, StreamIn
  <2>4. \A i \in DOMAIN UsedOf(out.out_streams[r[1]]) :
          out.out_streams[r[1]][UsedOf(out.out_streams[r[1]])[i]].closed = TRUE
    BY <2>1, <2>2, <2>3
  <2>5. QED
    BY <1>5, <2>4 DEF MergedOf, ChunkOf
<1>7. CASE out.regular_file
  <2>1. Stage(out) = Len(Postfixes) + 1
    BY <1>3, <1>7 DEF Stage
  <2>2. \A r \in OpenedIn(out) : r[1] < Stage(out)
    <3>1. Len(Postfixes) \in Nat /\ \A p \in Postfix : p \in 1 .. Len(Postfixes)
      BY PostfixesAre
    <3>2. QED
      BY <1>4, <2>1, <3>1
  <2>3. \A r \in OpenedIn(out) : PlaceOf(out, r) = Target(r[1]) /\ ContentOf(out, r) = MergedOf(out, r[1])
    BY <2>2 DEF PlaceOf, ContentOf
  <2>4. /\ DOMAIN fs = {Target(r[1]) : r \in OpenedIn(out)}
        /\ \A r \in OpenedIn(out) : fs[Target(r[1])] = MergedOf(out, r[1])
    BY <1>2, <2>3 DEF InPlace
  <2> HIDE DEF full
  <2>5. QED
    BY <1>1, <1>6, <2>4
<1>8. CASE ~out.regular_file
  <2>1. \A r \in OpenedIn(out) : r = <<1, 1>>
    BY <1>2, <1>8 DEF Flow, OpenedIn
  <2>2. Stage(out) = 1 /\ Target(1) = << >>
    BY <1>8, A4OutputAssumption DEF Stage, Target
  <2>3. \A r \in OpenedIn(out) : /\ PlaceOf(out, r) = Target(r[1])
                                 /\ ContentOf(out, r) = <<ChunkOf(out, 1, 1)>>
    BY <1>8, <2>1, <2>2 DEF PlaceOf, ContentOf, PathIn
  <2>4. ASSUME NEW r \in OpenedIn(out) PROVE <<ChunkOf(out, 1, 1)>> = MergedOf(out, 1)
    <3> DEFINE u == UsedOf(out.out_streams[1])
    <3>1. r[1] = 1 /\ r[2] = 1 /\ 1 \in Postfix
      BY <1>4, <2>1
    <3>2. /\ u \in Seq(Nat)
          /\ \A i \in DOMAIN u : <<1, u[i]>> \in OpenedIn(out)
          /\ \A x \in OpenedIn(out) : x[1] = 1 => \E i \in DOMAIN u : u[i] = x[2]
          /\ \A i, j \in DOMAIN u : i < j => u[i] < u[j]
      BY <1>2, <3>1, UsedAreOpened
    <3> HIDE DEF u
    <3>3. \A i \in DOMAIN u : u[i] = 1
      <4>1. ASSUME NEW i \in DOMAIN u PROVE u[i] = 1
        <5>1. <<1, u[i]>> = <<1, 1>>
          BY <2>1, <3>2
        <5>2. QED
          BY <5>1
      <4>2. QED
        BY <4>1
    <3>4. \E i \in DOMAIN u : TRUE
      BY <3>1, <3>2
    <3>5. DOMAIN u = 1 .. Len(u) /\ Len(u) \in Nat
      BY <3>2
    <3>6. ~(Len(u) >= 2)
      <4>1. SUFFICES ASSUME Len(u) >= 2 PROVE FALSE
        OBVIOUS
      <4>2. 1 \in DOMAIN u /\ 2 \in DOMAIN u /\ 1 < 2
        BY <3>5, <4>1
      <4>3. u[1] < u[2] /\ u[1] = 1 /\ u[2] = 1
        BY <3>2, <3>3, <4>2
      <4>4. QED
        BY <4>3
    <3>7. DOMAIN u = {1}
      BY <3>4, <3>5, <3>6
    <3>8. MergedOf(out, 1) = [i \in {1} |-> ChunkOf(out, 1, 1)]
      BY <3>3, <3>7 DEF u, MergedOf
    <3>9. QED
      BY <3>8
  <2>5. /\ DOMAIN fs = {Target(r[1]) : r \in OpenedIn(out)}
        /\ \A r \in OpenedIn(out) : fs[Target(r[1])] = <<ChunkOf(out, 1, 1)>>
    BY <1>2, <2>3 DEF InPlace
  <2>6. \A r \in OpenedIn(out) : r[1] = 1
    BY <2>1
  <2> HIDE DEF full
  <2>7. QED
    BY <1>1, <1>6, <2>4, <2>5, <2>6
<1>9. QED
  BY <1>7, <1>8

LEMMA AInvReports ==
  ASSUME AInv
  PROVE  FailureReported
<1> SUFFICES ASSUME out.returned = "TRUE", NEW r \in Opened
             PROVE  Holding(r) = {Target(r[1])}
  BY DEF FailureReported
<1>1. r \in OpenedIn(out) /\ r[1] \in Postfix
  BY RefIs DEF Opened, OpenedIn, Created, CreatedIn, StreamAt, StreamIn
<1>2. Typed(out, held) /\ InPlace(out, fs)
  BY DEF AInv, Flow
<1> DEFINE u == UsedStreams(r[1])
<1>3. PICK i \in DOMAIN u : u[i] = r[2]
  <2>1. u = UsedOf(out.out_streams[r[1]])
    BY UsedStreamsAreThose
  <2>2. \E i \in DOMAIN UsedOf(out.out_streams[r[1]]) : UsedOf(out.out_streams[r[1]])[i] = r[2]
    BY <1>1, <1>2, UsedAreOpened, SMTT(30)
  <2>3. QED
    BY <2>1, <2>2
<1>4. i \in DOMAIN fs[Target(r[1])] /\ Target(r[1]) \in DOMAIN fs
      /\ fs[Target(r[1])][i] = Chunk(r[1], u[i], out.out_streams[r[1]][u[i]].messages, TRUE)
  <2>1. /\ DOMAIN fs = {Target(x[1]) : x \in Opened}
        /\ fs[Target(r[1])] = [j \in DOMAIN u |->
                                 Chunk(r[1], u[j], out.out_streams[r[1]][u[j]].messages, TRUE)]
    BY AInvMerges DEF MergedInOrder
  <2>2. QED
    BY <1>3, <2>1
<1>5. Holds(out, fs, r, Target(r[1]))
  <2>1. r = <<r[1], r[2]>>
    BY <1>1, RefIs DEF OpenedIn, CreatedIn
  <2>2. QED
    BY <1>3, <1>4, <2>1 DEF Holds, Chunk, StreamIn
<1>6. \A q \in DOMAIN fs : Holds(out, fs, r, q) => q = Target(r[1])
  BY <1>1, <1>2, <1>4, <1>5, OnlyThere
<1>7. Holding(r) = {q \in DOMAIN fs : Holds(out, fs, r, q)}
  BY DEF Holding, Holds, StreamAt, StreamIn
<1>8. QED
  BY <1>4, <1>5, <1>6, <1>7
-----------------------------------------------------------------------------
(* Steps before merging                                                     *)

OtherFields(o, o2) ==
    /\ o2.regular_file = o.regular_file /\ o2.closed = o.closed /\ o2.merging = o.merging
    /\ o2.success = o.success /\ o2.returned = o.returned

LEMMA OneStreamChanged ==
  ASSUME NEW o, NEW h, Typed(o, h), NEW r \in CreatedIn(o), NEW s \in StreamRecord,
         NEW o2, o2 = [o EXCEPT !.out_streams[r[1]][r[2]] = s]
  PROVE  /\ OtherFields(o, o2) /\ Typed(o2, h)
         /\ CreatedIn(o2) = CreatedIn(o)
         /\ StreamIn(o2, r) = s
         /\ \A x \in CreatedIn(o) : x # r => StreamIn(o2, x) = StreamIn(o, x)
<1> DEFINE os == o.out_streams
           a == r[1]
           b == r[2]
           os2 == [os EXCEPT ![a] = [os[a] EXCEPT ![b] = s]]
<1>1. os \in [Postfix -> Seq(StreamRecord)] /\ \A p \in Postfix : Len(os[p]) <= MaxStreams
  BY DEF Typed, OutRecord
<1>2. a \in Postfix /\ b \in DOMAIN os[a] /\ r = <<a, b>> /\ r \in StreamRef
  BY RefIs DEF CreatedIn
<1>3. OtherFields(o, o2) /\ o2.out_streams = os2 /\ o2 = [o EXCEPT !.out_streams = os2]
  BY DEF OtherFields, Typed, OutRecord
<1> HIDE DEF os2, os, a, b
<1>4. os[a] \in Seq(StreamRecord)
  BY <1>1, <1>2
<1> DEFINE t == [os[a] EXCEPT ![b] = s]
<1>5. t \in Seq(StreamRecord) /\ Len(t) = Len(os[a]) /\ DOMAIN t = DOMAIN os[a] /\ t[b] = s
      /\ \A n \in DOMAIN os[a] : n # b => t[n] = os[a][n]
  BY <1>2, <1>4
<1>6. os2 = [os EXCEPT ![a] = t]
  BY DEF os2
<1> HIDE DEF t
<1>7. /\ os2 \in [Postfix -> Seq(StreamRecord)] /\ os2[a] = t
      /\ \A p \in Postfix : p # a => os2[p] = os[p]
  BY <1>1, <1>2, <1>5, <1>6
<1>8. \A p \in Postfix : Len(os2[p]) = Len(os[p]) /\ DOMAIN os2[p] = DOMAIN os[p]
  BY <1>5, <1>7
<1>9. CreatedIn(o2) = CreatedIn(o)
  BY <1>3, <1>8, RefIs DEF CreatedIn, os
<1>10. StreamIn(o2, r) = s
  BY <1>3, <1>5, <1>7 DEF StreamIn, a, b
<1>11. ASSUME NEW x \in CreatedIn(o), x # r PROVE StreamIn(o2, x) = StreamIn(o, x)
  <2>1. x = <<x[1], x[2]>> /\ x[1] \in Postfix /\ x[2] \in DOMAIN os[x[1]]
    BY RefIs DEF CreatedIn, os
  <2>2. CASE x[1] # a
    BY <1>3, <1>7, <2>1, <2>2 DEF StreamIn, os
  <2>3. CASE x[1] = a
    <3>1. x[2] # b
      BY <1>2, <1>11, <2>1, <2>3
    <3>2. t[x[2]] = os[a][x[2]]
      BY <1>5, <2>1, <2>3, <3>1
    <3>3. QED
      BY <1>3, <1>7, <2>3, <3>2 DEF StreamIn, os
  <2>4. QED
    BY <2>2, <2>3
<1>12. o2 \in OutRecord
  <2>1. o \in OutRecord
    BY DEF Typed
  <2>2. QED
    BY <1>3, <1>7, <2>1 DEF OutRecord
<1>13. Typed(o2, h)
  BY <1>1, <1>3, <1>8, <1>9, <1>12 DEF Typed
<1>14. QED
  BY <1>3, <1>9, <1>10, <1>11, <1>13

\* Nothing is merged yet: a stream is in its own file.
LEMMA OwnFiles ==
  ASSUME NEW o, NEW h, Typed(o, h), Flow(o), Stage(o) = 1, NEW r \in CreatedIn(o)
  PROVE  /\ PlaceOf(o, r) = PathIn(o, r) /\ ContentOf(o, r) = <<ChunkOf(o, r[1], r[2])>>
         /\ \A x \in CreatedIn(o) : PathIn(o, x) = PathIn(o, r) => x = r
<1>1. \A x \in CreatedIn(o) : x = <<x[1], x[2]>> /\ x[1] \in Postfix /\ x[2] \in Nat
  BY RefIs DEF CreatedIn
<1>2. ~(r[1] < 1)
  BY <1>1, PostfixesAre
<1>3. ASSUME NEW x \in CreatedIn(o), PathIn(o, x) = PathIn(o, r) PROVE x = r
  <2>1. CASE o.regular_file
    <3>1. Path(x[1], x[2]) = Path(r[1], r[2])
      BY <1>3, <2>1 DEF PathIn
    <3>2. x[1] = r[1] /\ x[2] = r[2]
      BY <1>1, <3>1, PathsDiffer
    <3>3. QED
      BY <1>1, <3>2
  <2>2. CASE ~o.regular_file
    BY <2>2 DEF Flow
  <2>3. QED
    BY <2>1, <2>2
<1>4. QED
  BY <1>2, <1>3 DEF PlaceOf, ContentOf

\* A stream was opened, written to or closed.
LEMMA WrittenInPlace ==
  ASSUME NEW o, NEW h, NEW f, Typed(o, h), Flow(o), Stage(o) = 1, InPlace(o, f),
         NEW r \in CreatedIn(o), NEW s \in StreamRecord, s.opened,
         o.closed => s.closed,
         NEW o2, o2 = [o EXCEPT !.out_streams[r[1]][r[2]] = s],
         NEW f2, f2 = WithFile(f, PathIn(o, r), <<Chunk(r[1], r[2], s.messages, s.closed)>>)
  PROVE  Typed(o2, h) /\ Flow(o2) /\ InPlace(o2, f2)
<1>1. /\ OtherFields(o, o2) /\ Typed(o2, h) /\ CreatedIn(o2) = CreatedIn(o)
      /\ StreamIn(o2, r) = s
      /\ \A x \in CreatedIn(o) : x # r => StreamIn(o2, x) = StreamIn(o, x)
  BY OneStreamChanged
<1>2. OpenedIn(o2) = OpenedIn(o) \cup {r}
  BY <1>1 DEF OpenedIn
<1>3. Flow(o2)
  <2>1. o.closed => \A x \in OpenedIn(o2) : StreamIn(o2, x).closed
    BY <1>1, <1>2 DEF Flow, OpenedIn
  <2>2. ~o.regular_file => \A x \in CreatedIn(o2) : x = <<1, 1>> /\ StreamIn(o2, x).opened
    BY <1>1 DEF Flow
  <2>3. QED
    BY <1>1, <2>1, <2>2 DEF Flow, OtherFields
<1>4. Stage(o2) = 1 /\ \A x : PathIn(o2, x) = PathIn(o, x)
  BY <1>1 DEF Stage, OtherFields, PathIn
<1>5. ASSUME NEW x \in CreatedIn(o)
      PROVE  /\ PlaceOf(o, x) = PathIn(o, x) /\ PlaceOf(o2, x) = PathIn(o, x)
             /\ ContentOf(o, x) = <<ChunkOf(o, x[1], x[2])>>
             /\ ContentOf(o2, x) = <<ChunkOf(o2, x[1], x[2])>>
             /\ PathIn(o, x) = PathIn(o, r) => x = r
  BY <1>1, <1>3, <1>4, OwnFiles
<1>6. /\ DOMAIN f2 = DOMAIN f \cup {PathIn(o, r)}
      /\ f2[PathIn(o, r)] = <<Chunk(r[1], r[2], s.messages, s.closed)>>
      /\ \A q \in DOMAIN f : q # PathIn(o, r) => f2[q] = f[q]
  BY DEF WithFile
<1>7. \A x \in OpenedIn(o) : x \in CreatedIn(o)
  BY DEF OpenedIn
<1>8. DOMAIN f2 = {PlaceOf(o2, x) : x \in OpenedIn(o2)}
  <2>1. DOMAIN f = {PathIn(o, x) : x \in OpenedIn(o)}
    BY <1>5, <1>7 DEF InPlace
  <2>2. DOMAIN f2 = {PathIn(o, x) : x \in OpenedIn(o2)}
    BY <1>2, <1>6, <2>1
  <2>3. \A x \in OpenedIn(o2) : PlaceOf(o2, x) = PathIn(o, x)
    BY <1>2, <1>5, <1>7
  <2>4. QED
    BY <2>2, <2>3, SMTT(30)
<1>9. ASSUME NEW x \in OpenedIn(o2) PROVE f2[PlaceOf(o2, x)] = ContentOf(o2, x)
  <2>1. CASE x = r
    <3>1. ContentOf(o2, x) = <<Chunk(r[1], r[2], s.messages, s.closed)>>
      BY <1>1, <1>5, <2>1 DEF ChunkOf, StreamIn
    <3>2. QED
      BY <1>5, <1>6, <2>1, <3>1, SMTT(30)
  <2>2. CASE x # r
    <3>1. x \in OpenedIn(o) /\ x \in CreatedIn(o)
      BY <1>2, <1>7, <2>2
    <3>2. f[PathIn(o, x)] = <<ChunkOf(o, x[1], x[2])>> /\ PathIn(o, x) \in DOMAIN f
      BY <1>5, <3>1 DEF InPlace
    <3>3. ChunkOf(o2, x[1], x[2]) = ChunkOf(o, x[1], x[2])
      BY <1>1, <2>2, <3>1 DEF ChunkOf, StreamIn
    <3>4. QED
      BY <1>5, <1>6, <2>2, <3>1, <3>2, <3>3
  <2>3. QED
    BY <2>1, <2>2
<1>10. QED
  BY <1>1, <1>3, <1>8, <1>9 DEF InPlace

WithStream(o, p, s) == [o EXCEPT !.out_streams[p] = Append(@, s)]

LEMMA StreamAppended ==
  ASSUME NEW o, NEW h, Typed(o, h), NEW p \in Postfix, Len(o.out_streams[p]) < MaxStreams,
         NEW s \in StreamRecord,
         NEW n, n = Len(o.out_streams[p]) + 1,
         NEW o2, o2 = WithStream(o, p, s)
  PROVE  /\ OtherFields(o, o2) /\ Typed(o2, h)
         /\ <<p, n>> \notin CreatedIn(o)
         /\ CreatedIn(o2) = CreatedIn(o) \cup {<<p, n>>}
         /\ StreamIn(o2, <<p, n>>) = s
         /\ \A x \in CreatedIn(o) : StreamIn(o2, x) = StreamIn(o, x)
<1> DEFINE os == o.out_streams
           t == Append(os[p], s)
           os2 == [os EXCEPT ![p] = t]
<1>1. os \in [Postfix -> Seq(StreamRecord)] /\ \A q \in Postfix : Len(os[q]) <= MaxStreams
  BY DEF Typed, OutRecord
<1>2. OtherFields(o, o2) /\ o2.out_streams = os2 /\ o2 = [o EXCEPT !.out_streams = os2]
  BY DEF OtherFields, Typed, OutRecord, WithStream
<1> HIDE DEF os2, os
<1>3. os[p] \in Seq(StreamRecord) /\ Len(os[p]) < MaxStreams /\ n = Len(os[p]) + 1
  BY <1>1 DEF os
<1>4. /\ t \in Seq(StreamRecord) /\ Len(t) = n /\ t[n] = s
      /\ \A i \in DOMAIN os[p] : t[i] = os[p][i]
      /\ DOMAIN t = DOMAIN os[p] \cup {n} /\ n \notin DOMAIN os[p]
  BY <1>3, SMTT(30)
<1>5. n \in 1 .. MaxStreams /\ Len(t) <= MaxStreams
  BY <1>3, <1>4, BoundIs
<1> HIDE DEF t
<1>6. os2[p] = t /\ (\A q \in Postfix : q # p => os2[q] = os[q]) /\ os2 \in [Postfix -> Seq(StreamRecord)]
  BY <1>1, <1>4 DEF os2
<1>7. <<p, n>> \in StreamRef
  BY <1>5 DEF StreamRef
<1>8. CreatedIn(o2) = CreatedIn(o) \cup {<<p, n>>} /\ <<p, n>> \notin CreatedIn(o)
  <2>1. ASSUME NEW x \in StreamRef
        PROVE  x[2] \in DOMAIN os2[x[1]] <=> x[2] \in DOMAIN os[x[1]] \/ x = <<p, n>>
    <3>1. x = <<x[1], x[2]>> /\ x[1] \in Postfix
      BY RefIs
    <3>2. QED
      BY <1>4, <1>6, <3>1
  <2>2. <<p, n>> \notin CreatedIn(o)
    BY <1>4 DEF CreatedIn, os
  <2>3. QED
    BY <1>2, <1>7, <2>1, <2>2 DEF CreatedIn, os
<1>9. StreamIn(o2, <<p, n>>) = s
  BY <1>2, <1>4, <1>6 DEF StreamIn
<1>10. ASSUME NEW x \in CreatedIn(o) PROVE StreamIn(o2, x) = StreamIn(o, x)
  <2>1. x[1] \in Postfix /\ x[2] \in DOMAIN os[x[1]]
    BY RefIs DEF CreatedIn, os
  <2>2. os2[x[1]][x[2]] = os[x[1]][x[2]]
    BY <1>4, <1>6, <2>1
  <2>3. QED
    BY <1>2, <2>2 DEF StreamIn, os
<1>11. o2 \in OutRecord
  <2>1. o \in OutRecord
    BY DEF Typed
  <2>2. QED
    BY <1>2, <1>6, <2>1 DEF OutRecord
<1>12. Typed(o2, h)
  <2>1. \A q \in Postfix : Len(os2[q]) <= MaxStreams
    BY <1>1, <1>5, <1>6
  <2>2. QED
    BY <1>2, <1>8, <1>11, <2>1 DEF Typed
<1>13. QED
  BY <1>2, <1>8, <1>9, <1>10, <1>12

LEMMA AInvStarts ==
  ASSUME Init
  PROVE  AInv
<1>1. PICK regular \in Regular :
         out = [regular_file |-> regular, closed |-> FALSE,
                merging |-> 0, success |-> TRUE, returned |-> "none",
                out_streams |-> [p \in Postfix |-> << >>]]
  BY DEF Init
<1>2. regular \in BOOLEAN
  BY A4OutputAssumption
<1>3. CreatedIn(out) = {} /\ OpenedIn(out) = {}
  BY <1>1, RefIs DEF CreatedIn, OpenedIn
<1>4. [p \in Postfix |-> << >>] \in [Postfix -> Seq(StreamRecord)]
  OBVIOUS
<1>5. out \in OutRecord
  <2>1. 0 \in 0 .. Len(Postfixes)
    BY PostfixesAre
  <2>2. QED
    BY <1>1, <1>2, <1>4, <2>1 DEF OutRecord
<1>6. Typed(out, held)
  <2>1. \A p \in Postfix : Len(out.out_streams[p]) <= MaxStreams
    BY <1>1, BoundIs
  <2>2. DOMAIN held = Worker /\ \A w \in Worker : held[w] = NoStream
    BY DEF Init
  <2>3. QED
    BY <1>5, <2>1, <2>2 DEF Typed
<1>7. Flow(out)
  BY <1>1, <1>3 DEF Flow
<1>8. InPlace(out, fs)
  <2>1. DOMAIN fs = {}
    BY DEF Init
  <2>2. QED
    BY <1>3, <2>1 DEF InPlace
<1>9. QED
  BY <1>1, <1>6, <1>7, <1>8 DEF AInv

LEMMA GetStreamKeeps ==
  ASSUME AInv, Habits \subseteq {"close_early"}, NEW w \in Worker, NEW p \in Postfix, GetStream(w, p)
  PROVE  AInv'
<1> DEFINE n == Len(out.out_streams[p]) + 1
           s == [opened |-> ~out.regular_file, closed |-> FALSE, messages |-> 0]
<1>1. ~out.closed /\ Typed(out, held) /\ Flow(out) /\ InPlace(out, fs) /\ out.success
  BY DEF GetStream, NotClosed, AInv, Flow
<1>2. /\ held' = [held EXCEPT ![w] = <<p, n>>] /\ out' = [out EXCEPT !.out_streams[p] = Append(@, s)]
      /\ Len(out.out_streams[p]) < MaxStreams
  BY DEF GetStream
<1>3. out.regular_file \in BOOLEAN /\ s \in StreamRecord
  BY <1>1 DEF Typed, OutRecord, StreamRecord
<1> HIDE DEF s
<1>3a. n = Len(out.out_streams[p]) + 1
  OBVIOUS
<1> HIDE DEF n
<1>4. /\ OtherFields(out, out') /\ Typed(out', held)
      /\ <<p, n>> \notin CreatedIn(out)
      /\ CreatedIn(out') = CreatedIn(out) \cup {<<p, n>>}
      /\ StreamIn(out', <<p, n>>) = s
      /\ \A x \in CreatedIn(out) : StreamIn(out', x) = StreamIn(out, x)
  <2>1. Typed(out, held) /\ s \in StreamRecord /\ Len(out.out_streams[p]) < MaxStreams
    BY <1>1, <1>2, <1>3
  <2>2. out' = WithStream(out, p, s)
    BY <1>2 DEF WithStream
  <2>3. QED
    BY <2>1, <2>2, <1>3a, StreamAppended
<1>5. Typed(out', held')
  <2>1. DOMAIN held' = Worker /\ held'[w] = <<p, n>> /\ \A x \in Worker : x # w => held'[x] = held[x]
    BY <1>1, <1>2 DEF Typed
  <2>2. QED
    BY <1>4, <2>1 DEF Typed
<1>6. Stage(out) = 1 /\ Stage(out') = 1 /\ \A x : PathIn(out', x) = PathIn(out, x)
  BY <1>1, <1>4 DEF Stage, OtherFields, PathIn
<1>7. CASE out.regular_file
  <2>1. fs' = fs /\ ~s.opened
    BY <1>7 DEF GetStream, s
  <2>2. OpenedIn(out') = OpenedIn(out)
    BY <1>4, <2>1 DEF OpenedIn
  <2>3. Flow(out')
    BY <1>1, <1>4, <1>7 DEF Flow, OtherFields
  <2>4. ASSUME NEW x \in OpenedIn(out)
        PROVE  PlaceOf(out', x) = PlaceOf(out, x) /\ ContentOf(out', x) = ContentOf(out, x)
    <3>1. x \in CreatedIn(out) /\ x \in CreatedIn(out')
      BY <1>4 DEF OpenedIn
    <3>2. /\ PlaceOf(out, x) = PathIn(out, x) /\ PlaceOf(out', x) = PathIn(out', x)
          /\ ContentOf(out, x) = <<ChunkOf(out, x[1], x[2])>>
          /\ ContentOf(out', x) = <<ChunkOf(out', x[1], x[2])>>
      BY <1>1, <1>4, <1>6, <2>3, <3>1, OwnFiles
    <3>3. ChunkOf(out', x[1], x[2]) = ChunkOf(out, x[1], x[2])
      BY <1>4, <3>1 DEF ChunkOf, StreamIn
    <3>4. QED
      BY <1>6, <3>2, <3>3
  <2>5. InPlace(out', fs')
    <3>1. {PlaceOf(out', x) : x \in OpenedIn(out')} = {PlaceOf(out, x) : x \in OpenedIn(out)}
      BY <2>2, <2>4
    <3>2. QED
      BY <1>1, <2>1, <2>2, <2>4, <3>1 DEF InPlace
  <2>6. QED
    BY <1>1, <1>4, <1>5, <2>3, <2>5 DEF AInv, OtherFields
<1>8. CASE ~out.regular_file
  <2>1. p = 1 /\ out.out_streams[1] = << >> /\ n = 1 /\ s.opened /\ s.messages = 0 /\ s.closed = FALSE
    <3>1. p = 1 /\ out.out_streams[p] = << >>
      BY <1>8 DEF GetStream
    <3>2. Len(<< >>) = 0
      OBVIOUS
    <3>3. n = 1
      BY <3>1, <3>2 DEF n
    <3>4. s.opened /\ s.messages = 0 /\ s.closed = FALSE
      BY <1>8 DEF s
    <3>5. QED
      BY <3>1, <3>3, <3>4
  <2>2. CreatedIn(out) = {}
    <3>1. \A x \in CreatedIn(out) : x = <<1, 1>>
      BY <1>1, <1>8 DEF Flow
    <3>2. <<1, 1>> \notin CreatedIn(out)
      BY <2>1 DEF CreatedIn
    <3>3. QED
      BY <3>1, <3>2
  <2>3. OpenedIn(out) = {} /\ OpenedIn(out') = {<<1, 1>>} /\ CreatedIn(out') = {<<1, 1>>}
    BY <1>4, <2>1, <2>2 DEF OpenedIn
  <2>4. Flow(out')
    BY <1>1, <1>4, <2>1, <2>3 DEF Flow, OtherFields
  <2>5. fs' = WithFile(fs, << >>, <<Chunk(1, 1, 0, FALSE)>>)
    BY <1>8, <2>1 DEF GetStream, n
  <2>6. DOMAIN fs = {}
    BY <1>1, <2>3 DEF InPlace
  <2>7. DOMAIN fs' = {<< >>} /\ fs'[<< >>] = <<Chunk(1, 1, 0, FALSE)>>
    BY <2>5, <2>6 DEF WithFile
  <2>8. PlaceOf(out', <<1, 1>>) = << >> /\ ContentOf(out', <<1, 1>>) = <<ChunkOf(out', 1, 1)>>
    <3>1. <<1, 1>>[1] = 1 /\ <<1, 1>>[2] = 1 /\ ~(1 < 1)
      OBVIOUS
    <3>2. PathIn(out', <<1, 1>>) = << >>
      BY <1>4, <1>8 DEF PathIn, OtherFields
    <3>3. QED
      BY <1>6, <3>1, <3>2 DEF PlaceOf, ContentOf
  <2>9. ChunkOf(out', 1, 1) = Chunk(1, 1, 0, FALSE)
    BY <1>4, <2>1 DEF ChunkOf, StreamIn
  <2>10. InPlace(out', fs')
    BY <2>3, <2>7, <2>8, <2>9 DEF InPlace
  <2>11. QED
    BY <1>1, <1>4, <1>5, <2>4, <2>10 DEF AInv, OtherFields
<1>9. QED
  BY <1>7, <1>8

LEMMA WriteKeeps ==
  ASSUME AInv, Habits \subseteq {"close_early"}, NEW w \in Worker, Write(w)
  PROVE  AInv'
<1> DEFINE r == held[w]
           s == StreamAt(r)
           t == [s EXCEPT !.opened = TRUE, !.messages = @ + 1]
<1>1. ~out.closed /\ Typed(out, held) /\ Flow(out) /\ InPlace(out, fs) /\ out.success
  BY DEF Write, NotClosed, AInv, Flow
<1>2. r \in CreatedIn(out)
  BY <1>1 DEF Write, Typed
<1>3. s = StreamIn(out, r) /\ s \in StreamRecord /\ ~s.closed
  <2>1. s = StreamIn(out, r) /\ ~s.closed
    BY DEF Write, StreamAt, StreamIn
  <2>2. QED
    BY <1>1, <1>2, <2>1, StreamIs, SMTT(30)
<1>4. /\ out' = [out EXCEPT !.out_streams[r[1]][r[2]] = t]
      /\ fs' = WithFile(fs, PathIn(out, r), <<Chunk(r[1], r[2], s.messages + 1, FALSE)>>)
      /\ held' = held
  BY DEF Write, PathOf, PathIn
<1> HIDE DEF s, r
<1>5. t \in StreamRecord /\ t.opened /\ t.messages = s.messages + 1 /\ t.closed = FALSE
  <2>1. s.closed = FALSE /\ s.messages \in Nat
    BY <1>1, <1>2, <1>3, StreamIs
  <2>2. t.opened = TRUE /\ t.messages = s.messages + 1 /\ t.closed = FALSE
    BY <1>3, <2>1 DEF StreamRecord
  <2>3. t \in StreamRecord
    <3> DEFINE m == s.messages + 1
    <3>1. m \in Nat
      BY <2>1
    <3> HIDE DEF m
    <3>2. [s EXCEPT !.opened = TRUE, !.messages = m] \in StreamRecord
      BY <1>3, <3>1 DEF StreamRecord
    <3>3. QED
      BY <3>2 DEF m
  <2>4. QED
    BY <2>2, <2>3
<1> HIDE DEF t
<1>6. Stage(out) = 1
  BY <1>1 DEF Stage
<1>6a. fs' = WithFile(fs, PathIn(out, r), <<Chunk(r[1], r[2], t.messages, t.closed)>>)
  BY <1>4, <1>5
<1>7. Typed(out', held) /\ Flow(out') /\ InPlace(out', fs')
  BY <1>1, <1>2, <1>4, <1>5, <1>6, <1>6a, WrittenInPlace
<1>8. out'.success = out.success
  BY <1>1, <1>4 DEF Typed, OutRecord
<1>9. QED
  BY <1>1, <1>4, <1>7, <1>8 DEF AInv

LEMMA NothingChanged ==
  ASSUME NEW o, NEW h, Typed(o, h), NEW r \in CreatedIn(o)
  PROVE  [o EXCEPT !.out_streams[r[1]][r[2]] = StreamIn(o, r)] = o
<1> DEFINE os == o.out_streams
           a == r[1]
           b == r[2]
           os2 == [os EXCEPT ![a] = [os[a] EXCEPT ![b] = os[a][b]]]
<1>1. os \in [Postfix -> Seq(StreamRecord)] /\ a \in Postfix
  BY RefIs DEF Typed, OutRecord, CreatedIn
<1> HIDE DEF os, a, b
<1>2. os[a] \in Seq(StreamRecord)
  BY <1>1
<1>3. [os[a] EXCEPT ![b] = os[a][b]] = os[a]
  BY <1>2
<1>4. os2 = [os EXCEPT ![a] = os[a]]
  BY <1>3
<1>5. os2 = os
  BY <1>1, <1>4
<1> HIDE DEF os2
<1>6. [o EXCEPT !.out_streams = os] = o
  <2>1. o \in OutRecord
    BY DEF Typed
  <2>2. QED
    BY <2>1 DEF os, OutRecord
<1>7. [o EXCEPT !.out_streams = os2] = o
  BY <1>5, <1>6
<1>8. QED
  BY <1>7 DEF os2, os, a, b, StreamIn

LEMMA ReportFinishedKeeps ==
  ASSUME AInv, NEW w \in Worker, ReportFinished(w)
  PROVE  AInv'
<1> DEFINE r == held[w]
           s == StreamIn(out, r)
           t == ClosedStream(s)
<1>1. Typed(out, held) /\ Flow(out)
  BY DEF AInv
<1>2. r \in CreatedIn(out)
  BY <1>1 DEF ReportFinished, Typed
<1>3. s \in StreamRecord /\ s.opened \in BOOLEAN /\ s.closed \in BOOLEAN
  BY <1>1, <1>2, StreamIs
<1>4. /\ out' = [out EXCEPT !.out_streams[r[1]][r[2]] = t]
      /\ fs' = ClosedFile(fs, r)
      /\ held' = [held EXCEPT ![w] = NoStream]
  BY DEF ReportFinished, StreamIn
<1>5. ClosedFile(fs, r) = IF s.opened /\ ~s.closed
                          THEN WithFile(fs, PathIn(out, r), <<Chunk(r[1], r[2], s.messages, TRUE)>>)
                          ELSE fs
  BY DEF ClosedFile, StreamAt, StreamIn, PathOf, PathIn
<1> HIDE DEF r, s, t
<1>6. ASSUME NEW o, Typed(o, held) PROVE Typed(o, held')
  <2>1. DOMAIN held' = Worker /\ held'[w] = NoStream /\ \A x \in Worker : x # w => held'[x] = held[x]
    BY <1>1, <1>4 DEF Typed
  <2>2. QED
    BY <1>6, <2>1 DEF Typed
<1>7. CASE s.opened /\ ~s.closed
  <2>1. ~out.closed /\ out.success
    BY <1>1, <1>2, <1>7 DEF Flow, OpenedIn, s
  <2>2. InPlace(out, fs) /\ Stage(out) = 1
    BY <2>1 DEF AInv, Stage
  <2>3. t = [s EXCEPT !.closed = TRUE]
    BY <1>7 DEF t, ClosedStream
  <2>4. t \in StreamRecord
    BY <1>3, <2>3 DEF StreamRecord
  <2>5. t.opened /\ t.closed = TRUE /\ t.messages = s.messages
    BY <1>3, <1>7, <2>3 DEF StreamRecord
  <2>6. fs' = WithFile(fs, PathIn(out, r), <<Chunk(r[1], r[2], t.messages, t.closed)>>)
    BY <1>4, <1>5, <1>7, <2>5
  <2>7. Typed(out', held) /\ Flow(out') /\ InPlace(out', fs')
    BY <1>1, <1>2, <1>4, <2>2, <2>4, <2>5, <2>6, WrittenInPlace
  <2>8. out'.success
    BY <1>1, <1>4, <2>1 DEF Typed, OutRecord
  <2>9. QED
    BY <1>6, <2>7, <2>8 DEF AInv
<1>8. CASE ~(s.opened /\ ~s.closed)
  <2>1. t = s
    <3>1. CASE ~s.opened
      BY <3>1 DEF t, ClosedStream
    <3>2. CASE s.opened
      <4>1. s.closed = TRUE /\ t = [s EXCEPT !.closed = TRUE]
        BY <1>3, <1>8, <3>2 DEF t, ClosedStream
      <4>2. QED
        BY <1>3, <4>1 DEF StreamRecord
    <3>3. QED
      BY <3>1, <3>2
  <2>2. out' = out
    BY <1>1, <1>2, <1>4, <2>1, NothingChanged DEF s
  <2>3. fs' = fs
    BY <1>4, <1>5, <1>8
  <2>4. QED
    BY <1>1, <1>6, <2>2, <2>3 DEF AInv
<1>9. QED
  BY <1>7, <1>8

WithFooter(c) == [c EXCEPT !.footer = TRUE]

LEMMA FooterWritten ==
  ASSUME NEW a, NEW b, NEW n, NEW c
  PROVE  WithFooter(Chunk(a, b, n, c)) = Chunk(a, b, n, TRUE)
<1>1. ASSUME NEW x, NEW d
      PROVE  [[stream |-> x, messages |-> n, footer |-> c] EXCEPT !.footer = d]
                 = [stream |-> x, messages |-> n, footer |-> d]
  OBVIOUS
<1> DEFINE x == <<a, b>>
           d == TRUE
<1> HIDE DEF x, d
<1>2. [[stream |-> x, messages |-> n, footer |-> c] EXCEPT !.footer = d]
          = [stream |-> x, messages |-> n, footer |-> d]
  BY <1>1
<1>3. QED
  BY <1>2 DEF x, d, Chunk, WithFooter

LEMMA CloseKeeps ==
  ASSUME AInv, Habits \subseteq {"close_early"}, Close
  PROVE  AInv'
<1>1. ~out.closed /\ Typed(out, held) /\ Flow(out) /\ InPlace(out, fs) /\ held' = held
  BY DEF Close, AInv, Flow
<1> DEFINE os == out.out_streams
           os2 == [p \in Postfix |-> [n \in DOMAIN os[p] |-> ClosedStream(os[p][n])]]
           merging == IF out.regular_file THEN 1 ELSE 0
           returned == IF out.regular_file THEN "none" ELSE "TRUE"
<1>2. out' = [out EXCEPT !.closed = TRUE, !.success = TRUE, !.out_streams = os2,
                         !.merging = merging, !.returned = returned]
  BY DEF Close
<1> HIDE DEF os, os2, merging, returned
<1>3. /\ out'.closed = TRUE /\ out'.success = TRUE /\ out'.out_streams = os2
      /\ out'.merging = merging /\ out'.returned = returned
      /\ out'.regular_file = out.regular_file
  BY <1>1, <1>2 DEF Typed, OutRecord
<1>4. /\ os \in [Postfix -> Seq(StreamRecord)] /\ \A p \in Postfix : Len(os[p]) <= MaxStreams
      /\ out.regular_file \in BOOLEAN
  BY <1>1 DEF Typed, OutRecord, os
<1>5. ASSUME NEW s \in StreamRecord
      PROVE  /\ ClosedStream(s) \in StreamRecord
             /\ ClosedStream(s).opened = s.opened /\ ClosedStream(s).messages = s.messages
             /\ s.opened => ClosedStream(s).closed = TRUE
  BY DEF ClosedStream, StreamRecord
<1>6. ASSUME NEW p \in Postfix
      PROVE  /\ os2[p] \in Seq(StreamRecord) /\ Len(os2[p]) = Len(os[p])
             /\ DOMAIN os2[p] = DOMAIN os[p]
             /\ \A n \in DOMAIN os[p] : os2[p][n] = ClosedStream(os[p][n])
  <2>1. os[p] \in Seq(StreamRecord)
    BY <1>4
  <2>2. os2[p] = [n \in DOMAIN os[p] |-> ClosedStream(os[p][n])]
    BY DEF os2
  <2> DEFINE u == os[p]
             v == os2[p]
  <2> HIDE DEF u, v
  <2>3. u \in Seq(StreamRecord) /\ v = [n \in DOMAIN u |-> ClosedStream(u[n])]
    BY <2>1, <2>2 DEF u, v
  <2>4. \A n \in 1 .. Len(u) : ClosedStream(u[n]) \in StreamRecord
    <3>1. \A n \in 1 .. Len(u) : u[n] \in StreamRecord
      BY <2>3
    <3>2. \A s \in StreamRecord : ClosedStream(s) \in StreamRecord
      BY <1>5
    <3>3. QED
      BY <3>1, <3>2
  <2>5. v \in Seq(StreamRecord) /\ Len(v) = Len(u) /\ DOMAIN v = DOMAIN u
        /\ \A n \in DOMAIN u : v[n] = ClosedStream(u[n])
    BY <2>3, <2>4
  <2>6. QED
    BY <2>5 DEF u, v
<1>7. CreatedIn(out') = CreatedIn(out)
  BY <1>3, <1>6, RefIs DEF CreatedIn, os
<1>8. ASSUME NEW r \in CreatedIn(out)
      PROVE  /\ StreamIn(out', r).opened = StreamIn(out, r).opened
             /\ StreamIn(out', r).messages = StreamIn(out, r).messages
             /\ StreamIn(out, r).opened => StreamIn(out', r).closed = TRUE
  <2>1. r[1] \in Postfix /\ r[2] \in DOMAIN os[r[1]]
    BY RefIs DEF CreatedIn, os
  <2>2. StreamIn(out', r) = ClosedStream(StreamIn(out, r))
    BY <1>3, <1>6, <2>1 DEF StreamIn, os
  <2>3. StreamIn(out, r) \in StreamRecord
    BY <1>1, StreamIs
  <2>4. QED
    BY <1>5, <2>2, <2>3
<1>9. OpenedIn(out') = OpenedIn(out) /\ OpenedIn(out) \subseteq CreatedIn(out)
  BY <1>7, <1>8 DEF OpenedIn
<1>10. Typed(out', held')
  <2>1. merging \in 0 .. Len(Postfixes)
    <3>1. Postfixes # << >> /\ Postfixes[1] = << >>
      BY A4OutputAssumption
    <3>2. Len(Postfixes) >= 1
      <4> DEFINE T == Seq(UNION {ToSet(Postfixes[p]) : p \in DOMAIN Postfixes})
      <4>1. Postfixes \in Seq(T)
        BY A4OutputAssumption
      <4> HIDE DEF T
      <4>2. QED
        BY <3>1, <4>1
    <3>3. QED
      BY <3>2, PostfixesAre DEF merging
  <2>2. os2 \in [Postfix -> Seq(StreamRecord)]
    BY <1>6 DEF os2
  <2>3. returned \in {"none", "TRUE", "FALSE"}
    BY DEF returned
  <2>4. out' \in OutRecord
    <3>1. out \in OutRecord
      BY <1>1 DEF Typed
    <3>2. QED
      BY <1>2, <2>1, <2>2, <2>3, <3>1 DEF OutRecord
  <2>5. \A p \in Postfix : Len(os2[p]) <= MaxStreams
    BY <1>4, <1>6
  <2>6. QED
    BY <1>1, <1>3, <1>7, <2>4, <2>5 DEF Typed
<1>11. Flow(out')
  <2>1. \A r \in OpenedIn(out') : StreamIn(out', r).closed
    BY <1>8, <1>9 DEF OpenedIn
  <2>2. ~out.regular_file => \A r \in CreatedIn(out') : r = <<1, 1>> /\ StreamIn(out', r).opened
    BY <1>1, <1>7, <1>8 DEF Flow
  <2>3. QED
    BY <1>3, <2>1, <2>2 DEF Flow, merging, returned
<1>12. Stage(out) = 1 /\ Stage(out') = 1 /\ \A x : PathIn(out', x) = PathIn(out, x)
  BY <1>1, <1>3 DEF Stage, merging, PathIn
<1>13. ASSUME NEW r \in OpenedIn(out)
       PROVE  /\ PlaceOf(out, r) = PathIn(out, r) /\ PlaceOf(out', r) = PathIn(out, r)
              /\ fs[PathIn(out, r)] = <<ChunkOf(out, r[1], r[2])>>
              /\ ContentOf(out', r) = <<ChunkOf(out', r[1], r[2])>>
              /\ \A x \in OpenedIn(out) : PathIn(out, x) = PathIn(out, r) => x = r
  <2>1. r \in CreatedIn(out) /\ r \in CreatedIn(out')
    BY <1>7, <1>9
  <2>2. /\ PlaceOf(out, r) = PathIn(out, r) /\ ContentOf(out, r) = <<ChunkOf(out, r[1], r[2])>>
        /\ \A x \in CreatedIn(out) : PathIn(out, x) = PathIn(out, r) => x = r
    BY <1>1, <1>12, <2>1, OwnFiles
  <2>3. /\ PlaceOf(out', r) = PathIn(out', r) /\ ContentOf(out', r) = <<ChunkOf(out', r[1], r[2])>>
    BY <1>10, <1>11, <1>12, <2>1, OwnFiles
  <2>4. QED
    BY <1>1, <1>9, <1>12, <2>2, <2>3 DEF InPlace
<1>14. /\ DOMAIN fs' = DOMAIN fs
       /\ \A q \in DOMAIN fs : fs'[q] = IF \E r \in Unclosed : PathOf(r) = q
                                        THEN <<[fs[q][1] EXCEPT !.footer = TRUE]>> ELSE fs[q]
  BY DEF Close
<1>15. /\ Unclosed = {r \in OpenedIn(out) : ~StreamIn(out, r).closed}
       /\ \A r : PathOf(r) = PathIn(out, r)
  BY DEF Unclosed, Opened, Created, OpenedIn, CreatedIn, StreamAt, StreamIn, PathOf, PathIn
<1>16. DOMAIN fs' = {PlaceOf(out', r) : r \in OpenedIn(out')}
  <2>1. {PlaceOf(out', r) : r \in OpenedIn(out')} = {PlaceOf(out, r) : r \in OpenedIn(out)}
    BY <1>9, <1>13
  <2>2. QED
    BY <1>1, <1>14, <2>1 DEF InPlace
<1>17. ASSUME NEW r \in OpenedIn(out) PROVE fs'[PlaceOf(out', r)] = ContentOf(out', r)
  <2> DEFINE q == PathIn(out, r)
             m == StreamIn(out, r).messages
  <2>1. q \in DOMAIN fs
    BY <1>1, <1>13 DEF InPlace
  <2>2. ContentOf(out', r) = <<Chunk(r[1], r[2], m, TRUE)>>
    BY <1>8, <1>9, <1>13 DEF ChunkOf, StreamIn, OpenedIn
  <2>3. CASE StreamIn(out, r).closed
    <3>1. StreamIn(out, r).closed = TRUE
      BY <1>1, <1>9, <2>3, StreamIs
    <3>2. fs[q] = <<Chunk(r[1], r[2], m, TRUE)>>
      BY <1>13, <3>1 DEF ChunkOf, StreamIn
    <3>3. ~\E x \in Unclosed : PathOf(x) = q
      BY <1>13, <1>15, <2>3
    <3>4. fs'[q] = fs[q]
      BY <1>14, <2>1, <3>3
    <3>5. QED
      BY <1>13, <2>2, <3>2, <3>4
  <2>4. CASE ~StreamIn(out, r).closed
    <3>1. \E x \in Unclosed : PathOf(x) = q
      BY <1>15, <2>4
    <3>2. fs'[q] = <<[fs[q][1] EXCEPT !.footer = TRUE]>>
      BY <1>14, <2>1, <3>1
    <3>3. fs[q][1] = ChunkOf(out, r[1], r[2])
      BY <1>13
    <3>4. [fs[q][1] EXCEPT !.footer = TRUE] = Chunk(r[1], r[2], m, TRUE)
      <4>1. fs[q][1] = Chunk(r[1], r[2], m, StreamIn(out, r).closed)
        BY <3>3 DEF ChunkOf, StreamIn
      <4>2. WithFooter(fs[q][1]) = Chunk(r[1], r[2], m, TRUE)
        BY <4>1, FooterWritten
      <4>3. QED
        BY <4>2 DEF WithFooter
    <3>5. QED
      BY <1>13, <2>2, <3>2, <3>4
  <2>5. QED
    BY <2>3, <2>4
<1>18. InPlace(out', fs')
  BY <1>9, <1>16, <1>17 DEF InPlace
<1>19. QED
  BY <1>3, <1>10, <1>11, <1>18 DEF AInv
-----------------------------------------------------------------------------
(* Merging                                                                  *)

\* What the next postfix is does not change what is known of the streams.
Advanced(o, o2, ok) ==
    /\ o2.out_streams = o.out_streams /\ o2.regular_file = o.regular_file /\ o2.success = ok
    /\ OpenedIn(o2) = OpenedIn(o)
    /\ Stage(o) = o.merging /\ Stage(o2) = o.merging + 1

LEMMA NextPostfixIs ==
  ASSUME Typed(out, held), Flow(out), out.merging # 0, NEW ok \in BOOLEAN,
         NEW o2, o2 = NextPostfix(ok)
  PROVE  Typed(o2, held) /\ Flow(o2) /\ Advanced(out, o2, ok)
<1>1. out.closed /\ out.regular_file /\ out.returned = "none" /\ out \in OutRecord
  BY DEF Flow, Typed
<1>2. out.merging \in 0 .. Len(Postfixes) /\ out.merging \in 1 .. Len(Postfixes)
      /\ Len(Postfixes) \in Nat
  BY <1>1, PostfixesAre DEF OutRecord
<1> DEFINE last == out.merging = Len(Postfixes)
           merging == IF last THEN 0 ELSE out.merging + 1
           returned == IF ~last THEN "none" ELSE IF ok THEN "TRUE" ELSE "FALSE"
<1>3. /\ o2.out_streams = out.out_streams /\ o2.regular_file = out.regular_file
      /\ o2.closed = out.closed /\ o2.success = ok
      /\ o2.merging = merging /\ o2.returned = returned
  BY <1>1 DEF NextPostfix, OutRecord
<1>4. o2 \in OutRecord
  <2>1. merging \in 0 .. Len(Postfixes)
    BY <1>2
  <2>2. returned \in {"none", "TRUE", "FALSE"}
    OBVIOUS
  <2>3. CASE last
    <3> DEFINE ret == IF ok THEN "TRUE" ELSE "FALSE"
    <3>1. ret \in {"none", "TRUE", "FALSE"} /\ 0 \in 0 .. Len(Postfixes)
      BY <1>2
    <3>2. o2 = [out EXCEPT !.merging = 0, !.success = ok, !.returned = ret]
      BY <2>3 DEF NextPostfix
    <3> HIDE DEF ret
    <3>3. QED
      BY <1>1, <3>1, <3>2 DEF OutRecord
  <2>4. CASE ~last
    <3> DEFINE m == out.merging + 1
    <3>1. m \in 0 .. Len(Postfixes)
      BY <1>2, <2>4
    <3>2. o2 = [out EXCEPT !.merging = m, !.success = ok]
      BY <2>4 DEF NextPostfix
    <3> HIDE DEF m
    <3>3. QED
      BY <1>1, <3>1, <3>2 DEF OutRecord
  <2>5. QED
    BY <2>3, <2>4
<1> HIDE DEF merging, returned
<1>5. CreatedIn(o2) = CreatedIn(out) /\ OpenedIn(o2) = OpenedIn(out)
      /\ \A r : StreamIn(o2, r) = StreamIn(out, r)
  BY <1>3 DEF CreatedIn, OpenedIn, StreamIn
<1>6. Typed(o2, held)
  BY <1>3, <1>4, <1>5 DEF Typed
<1>7. Flow(o2)
  <2>1. o2.merging # 0 => o2.returned = "none"
    BY <1>2, <1>3 DEF merging, returned
  <2>2. o2.returned = "TRUE" => o2.success /\ o2.merging = 0
    BY <1>3 DEF merging, returned
  <2>3. \A r \in OpenedIn(o2) : StreamIn(o2, r).closed
    BY <1>1, <1>5 DEF Flow
  <2>4. QED
    BY <1>1, <1>3, <2>1, <2>2, <2>3 DEF Flow
<1>8. Stage(out) = out.merging
  BY <1>1 DEF Stage
<1>9. Stage(o2) = out.merging + 1
  BY <1>1, <1>2, <1>3 DEF Stage, merging
<1>10. QED
  BY <1>3, <1>5, <1>6, <1>7, <1>8, <1>9 DEF Advanced

LEMMA SameKept ==
  ASSUME NEW o, NEW o2, NEW ok, Advanced(o, o2, ok), NEW f, KeptIn(o, f)
  PROVE  KeptIn(o2, f)
<1>1. \A r, q : Holds(o2, f, r, q) <=> Holds(o, f, r, q)
  BY DEF Holds, Advanced, StreamIn
<1>2. \A r : {q \in DOMAIN f : Holds(o2, f, r, q)} = {q \in DOMAIN f : Holds(o, f, r, q)}
  BY <1>1
<1>3. QED
  BY <1>2 DEF KeptIn, Advanced

\* The files of the postfix whose turn it is
LEMMA FilesOfPostfix ==
  ASSUME Typed(out, held), Flow(out), out.merging # 0, InPlace(out, fs), NEW p, p = out.merging,
         NEW u, u = UsedStreams(p)
  PROVE  /\ p \in Postfix /\ p \in Nat
         /\ u \in Seq(Nat)
         /\ \A j \in DOMAIN u : u[j] \in Nat /\ <<p, u[j]>> \in OpenedIn(out)
         /\ \A r \in OpenedIn(out) : r[1] = p => \E j \in DOMAIN u : u[j] = r[2]
         /\ \A j \in DOMAIN u : /\ Path(p, u[j]) \in DOMAIN fs
                                /\ fs[Path(p, u[j])] = <<ChunkOf(out, p, u[j])>>
         /\ Target(p) \notin DOMAIN fs
         /\ \A r \in OpenedIn(out), j \in DOMAIN u :
              PlaceOf(out, r) = Path(p, u[j]) => r = <<p, u[j]>>
         /\ MergedOf(out, p) = [i \in DOMAIN u |-> ChunkOf(out, p, u[i])]
<1>1. out.closed /\ out.regular_file /\ Stage(out) = p
  BY DEF Flow, Stage
<1>2. p \in Postfix /\ p \in Nat
  <2>1. p \in 0 .. Len(Postfixes)
    BY DEF Typed, OutRecord
  <2>2. QED
    BY <2>1, PostfixesAre
<1>3. u = UsedOf(out.out_streams[p])
  BY UsedStreamsAreThose
<1>4. /\ u \in Seq(Nat)
      /\ \A j \in DOMAIN u : <<p, u[j]>> \in OpenedIn(out)
      /\ \A r \in OpenedIn(out) : r[1] = p => \E j \in DOMAIN u : u[j] = r[2]
  <2> DEFINE v == UsedOf(out.out_streams[p])
  <2>1. /\ v \in Seq(Nat)
        /\ \A j \in DOMAIN v : <<p, v[j]>> \in OpenedIn(out)
        /\ \A r \in OpenedIn(out) : r[1] = p => \E j \in DOMAIN v : v[j] = r[2]
    BY <1>2, UsedAreOpened, Zenon
  <2> HIDE DEF v
  <2>2. u = v
    BY <1>3 DEF v
  <2>3. QED
    BY <2>1, <2>2
<1>5. \A j \in DOMAIN u : u[j] \in Nat
  BY <1>4
<1>6. \A r \in OpenedIn(out) : r = <<r[1], r[2]>> /\ r[1] \in Postfix /\ r[2] \in Nat /\ r[1] \in Nat
  BY RefIs, PostfixesAre DEF OpenedIn, CreatedIn
<1>7. \A r \in OpenedIn(out) : PlaceOf(out, r) = IF r[1] < p THEN Target(r[1]) ELSE Path(r[1], r[2])
  BY <1>1 DEF PlaceOf, PathIn
<1>8. ASSUME NEW j \in DOMAIN u
      PROVE  Path(p, u[j]) \in DOMAIN fs /\ fs[Path(p, u[j])] = <<ChunkOf(out, p, u[j])>>
  <2> DEFINE r == <<p, u[j]>>
  <2>1. r \in OpenedIn(out) /\ r[1] = p /\ r[2] = u[j] /\ ~(p < p)
    BY <1>2, <1>4
  <2> HIDE DEF r
  <2>2. PlaceOf(out, r) = Path(p, u[j])
    BY <1>7, <2>1
  <2>3. ContentOf(out, r) = <<ChunkOf(out, p, u[j])>>
    BY <1>1, <2>1 DEF ContentOf
  <2>4. QED
    BY <2>1, <2>2, <2>3 DEF InPlace
<1>9. Target(p) \notin DOMAIN fs
  <2>1. SUFFICES ASSUME NEW r \in OpenedIn(out), Target(p) = PlaceOf(out, r) PROVE FALSE
    BY DEF InPlace
  <2>2. CASE r[1] < p
    <3>1. Target(p) = Target(r[1])
      BY <1>7, <2>1, <2>2
    <3>2. p = r[1]
      BY <1>2, <1>6, <3>1, TargetsDiffer
    <3>3. QED
      BY <1>2, <2>2, <3>2
  <2>3. CASE ~(r[1] < p)
    <3>1. Target(p) = Path(r[1], r[2])
      BY <1>7, <2>1, <2>3
    <3>2. r[1] < p
      BY <1>2, <1>6, <3>1, TargetBefore
    <3>3. QED
      BY <2>3, <3>2
  <2>4. QED
    BY <2>2, <2>3
<1>10. ASSUME NEW r \in OpenedIn(out), NEW j \in DOMAIN u, PlaceOf(out, r) = Path(p, u[j])
       PROVE  r = <<p, u[j]>>
  <2>1. CASE r[1] < p
    <3>1. Target(r[1]) = Path(p, u[j])
      BY <1>7, <1>10, <2>1
    <3>2. p < r[1]
      BY <1>2, <1>5, <1>6, <3>1, TargetBefore
    <3>3. QED
      BY <1>2, <1>6, <2>1, <3>2
  <2>2. CASE ~(r[1] < p)
    <3>1. Path(r[1], r[2]) = Path(p, u[j])
      BY <1>7, <1>10, <2>2
    <3>2. r[1] = p /\ r[2] = u[j]
      BY <1>2, <1>5, <1>6, <3>1, PathsDiffer
    <3>3. QED
      BY <1>6, <3>2
  <2>3. QED
    BY <2>1, <2>2
<1>11. QED
  BY <1>2, <1>3, <1>4, <1>5, <1>8, <1>9, <1>10 DEF MergedOf

\* f2 has the files of f, with the streams s of the postfix p in its target.
MovedTo(p, s, f, f2) ==
    LET moved == {Path(p, s[j]) : j \in DOMAIN s}
    IN /\ DOMAIN f2 = (DOMAIN f \ moved) \cup (IF s = << >> THEN {} ELSE {Target(p)})
       /\ s # << >> => f2[Target(p)] = MergedOf(out, p)
       /\ \A q \in DOMAIN f \ moved : f2[q] = f[q]

LEMMA MovedInPlace ==
  ASSUME Typed(out, held), Flow(out), out.merging # 0, InPlace(out, fs), NEW p, p = out.merging,
         NEW u, u = UsedStreams(p),
         NEW o2, Advanced(out, o2, TRUE),
         NEW f2, MovedTo(p, u, fs, f2)
  PROVE  InPlace(o2, f2)
<1> DEFINE moved == {Path(p, u[j]) : j \in DOMAIN u}
<1>0. /\ DOMAIN f2 = (DOMAIN fs \ moved) \cup (IF u = << >> THEN {} ELSE {Target(p)})
      /\ u # << >> => f2[Target(p)] = MergedOf(out, p)
      /\ \A q \in DOMAIN fs \ moved : f2[q] = fs[q]
      /\ \A q : q \in moved <=> \E j \in DOMAIN u : q = Path(p, u[j])
  BY DEF MovedTo
<1> HIDE DEF moved
<1>1. /\ p \in Postfix /\ p \in Nat
      /\ u \in Seq(Nat)
      /\ \A j \in DOMAIN u : u[j] \in Nat /\ <<p, u[j]>> \in OpenedIn(out)
      /\ \A r \in OpenedIn(out) : r[1] = p => \E j \in DOMAIN u : u[j] = r[2]
      /\ Target(p) \notin DOMAIN fs
      /\ \A r \in OpenedIn(out), j \in DOMAIN u : PlaceOf(out, r) = Path(p, u[j]) => r = <<p, u[j]>>
  BY FilesOfPostfix
<1>2. out.regular_file /\ Stage(out) = p /\ Stage(o2) = p + 1 /\ OpenedIn(o2) = OpenedIn(out)
      /\ o2.out_streams = out.out_streams /\ o2.regular_file
  BY DEF Flow, Advanced
<1>3. \A r \in OpenedIn(out) : r = <<r[1], r[2]>> /\ r[1] \in Nat
  BY RefIs, PostfixesAre DEF OpenedIn, CreatedIn
<1>4. \A r \in OpenedIn(out) : PlaceOf(out, r) \in DOMAIN fs /\ fs[PlaceOf(out, r)] = ContentOf(out, r)
  BY DEF InPlace
<1>5. ASSUME NEW r \in OpenedIn(out), r[1] = p
      PROVE  /\ PlaceOf(o2, r) = Target(p) /\ Target(p) \in DOMAIN f2
             /\ f2[Target(p)] = ContentOf(o2, r) /\ PlaceOf(out, r) \in moved
  <2>1. PICK j \in DOMAIN u : u[j] = r[2]
    BY <1>1, <1>5
  <2>2. u # << >>
    BY <2>1
  <2>3. p < p + 1 /\ ~(p < p)
    BY <1>1
  <2>4. PlaceOf(o2, r) = Target(p) /\ ContentOf(o2, r) = MergedOf(o2, p)
    BY <1>2, <1>5, <2>3 DEF PlaceOf, ContentOf
  <2>5. MergedOf(o2, p) = MergedOf(out, p)
    BY <1>2 DEF MergedOf, ChunkOf
  <2>6. PlaceOf(out, r) = Path(p, u[j])
    BY <1>2, <1>5, <2>1, <2>3 DEF PlaceOf, PathIn
  <2>7. QED
    BY <1>0, <2>1, <2>2, <2>4, <2>5, <2>6
<1>6. ASSUME NEW r \in OpenedIn(out), r[1] # p
      PROVE  /\ PlaceOf(o2, r) = PlaceOf(out, r) /\ PlaceOf(out, r) \in DOMAIN fs \ moved
             /\ PlaceOf(out, r) \in DOMAIN f2
             /\ f2[PlaceOf(out, r)] = ContentOf(o2, r)
  <2>1. r[1] < p + 1 <=> r[1] < p
    BY <1>1, <1>3, <1>6
  <2>2. PlaceOf(o2, r) = PlaceOf(out, r)
    BY <1>2, <2>1, SMTT(30) DEF PlaceOf, PathIn
  <2>3. ContentOf(o2, r) = ContentOf(out, r)
    BY <1>2, <2>1 DEF ContentOf, MergedOf, ChunkOf
  <2>4. PlaceOf(out, r) \notin moved
    <3>1. SUFFICES ASSUME NEW j \in DOMAIN u, PlaceOf(out, r) = Path(p, u[j]) PROVE FALSE
      BY <1>0
    <3>2. r = <<p, u[j]>>
      BY <1>1, <3>1
    <3>3. QED
      BY <1>6, <3>2
  <2>5. QED
    BY <1>0, <1>4, <2>2, <2>3, <2>4
<1>7. ASSUME NEW q \in DOMAIN f2 PROVE \E r \in OpenedIn(o2) : q = PlaceOf(o2, r)
  <2>1. CASE q \in DOMAIN fs \ moved
    <3>1. PICK r \in OpenedIn(out) : q = PlaceOf(out, r)
      BY <2>1 DEF InPlace
    <3>2. r[1] # p
      BY <1>5, <2>1, <3>1
    <3>3. q = PlaceOf(o2, r)
      BY <1>6, <3>1, <3>2
    <3>4. QED
      BY <1>2, <3>3
  <2>2. CASE q \notin DOMAIN fs \ moved
    <3>1. u # << >> /\ q = Target(p)
      BY <1>0, <1>7, <2>2
    <3> DEFINE r == <<p, u[1]>>
    <3>2. 1 \in DOMAIN u
      BY <1>1, <3>1
    <3>3. r \in OpenedIn(out) /\ r[1] = p
      BY <1>1, <3>2
    <3> HIDE DEF r
    <3>4. q = PlaceOf(o2, r)
      BY <1>5, <3>1, <3>3
    <3>5. QED
      BY <1>2, <3>3, <3>4
  <2>3. QED
    BY <2>1, <2>2
<1>8. ASSUME NEW r \in OpenedIn(o2)
      PROVE  PlaceOf(o2, r) \in DOMAIN f2 /\ f2[PlaceOf(o2, r)] = ContentOf(o2, r)
  <2>1. r \in OpenedIn(out)
    BY <1>2
  <2>2. CASE r[1] = p
    BY <1>5, <2>1, <2>2
  <2>3. CASE r[1] # p
    BY <1>6, <2>1, <2>3
  <2>4. QED
    BY <2>2, <2>3
<1>9. DOMAIN f2 = {PlaceOf(o2, r) : r \in OpenedIn(o2)}
  BY <1>7, <1>8
<1>10. QED
  BY <1>8, <1>9 DEF InPlace

LEMMA ContentsAre ==
  ASSUME Typed(out, held), Flow(out), out.merging # 0, InPlace(out, fs), NEW p, p = out.merging,
         NEW u, u = UsedStreams(p), NEW k \in 0 .. Len(u)
  PROVE  /\ Contents(p, k) = [j \in 1 .. k |-> ChunkOf(out, p, u[j])]
         /\ SubSeq(Contents(p, k), 1, k) = Contents(p, k)
<1>1. u \in Seq(Nat) /\ \A j \in DOMAIN u : fs[Path(p, u[j])] = <<ChunkOf(out, p, u[j])>>
  BY FilesOfPostfix
<1>2. k \in Nat /\ 1 .. k \subseteq DOMAIN u
  BY <1>1
<1> DEFINE c == [j \in 1 .. k |-> ChunkOf(out, p, u[j])]
           S == {ChunkOf(out, p, u[j]) : j \in 1 .. k}
<1>3. c \in [1 .. k -> S] /\ \A j \in 1 .. k : c[j] = ChunkOf(out, p, u[j])
  OBVIOUS
<1>4. [j \in 1 .. k |-> fs[Path(p, UsedStreams(p)[j])]] = [j \in 1 .. k |-> <<ChunkOf(out, p, u[j])>>]
  BY <1>1, <1>2
<1> HIDE DEF c, S
<1>5. [j \in 1 .. k |-> <<ChunkOf(out, p, u[j])>>] = [j \in 1 .. k |-> <<c[j]>>]
  BY <1>3
<1>6. FlattenSeq([j \in 1 .. k |-> <<c[j]>>]) = c
  BY <1>2, <1>3, CopiesInOrder
<1>7. Contents(p, k) = c
  BY <1>4, <1>5, <1>6 DEF Contents
<1>8. SubSeq(c, 1, k) = c
  <2>1. SubSeq(c, 1, k) = [j \in 1 .. k |-> c[j]]
    <3>1. c \in Seq(S) /\ Len(c) = k
      BY <1>2, <1>3
    <3>2. QED
      BY <1>2, <3>1
  <2>2. [j \in 1 .. k |-> c[j]] = c
    BY <1>3
  <2>3. QED
    BY <2>1, <2>2
<1>9. QED
  BY <1>7, <1>8 DEF c

\* One stream
LEMMA RenameKeeps ==
  ASSUME AInv, out.merging # 0, held' = held, NEW p, p = out.merging, Rename(p)
  PROVE  AInv'
<1> DEFINE u == UsedStreams(p)
           from == Path(p, u[1])
           unlinked == WithoutFiles(fs, {Target(p)})
<1>1. Typed(out, held) /\ Flow(out) /\ InPlace(out, fs) /\ out.success /\ Len(u) = 1
  BY DEF Rename, AInv
<1> HIDE DEF u
<1>2. /\ u \in Seq(Nat)
      /\ \A j \in DOMAIN u : /\ Path(p, u[j]) \in DOMAIN fs
                             /\ fs[Path(p, u[j])] = <<ChunkOf(out, p, u[j])>>
      /\ Target(p) \notin DOMAIN fs
      /\ MergedOf(out, p) = [i \in DOMAIN u |-> ChunkOf(out, p, u[i])]
  BY <1>1, FilesOfPostfix DEF u
<1>3. DOMAIN u = {1} /\ u # << >>
  <2>1. DOMAIN u = 1 .. Len(u)
    BY <1>2
  <2>2. 1 \in DOMAIN u /\ DOMAIN u = {1}
    BY <1>1, <2>1
  <2>3. QED
    BY <2>2
<1>4. from \in DOMAIN fs /\ fs[from] = <<ChunkOf(out, p, u[1])>>
  BY <1>2, <1>3
<1>5. MergedOf(out, p) = fs[from]
  <2>1. MergedOf(out, p) = [i \in {1} |-> ChunkOf(out, p, u[1])]
    BY <1>2, <1>3
  <2>2. QED
    BY <1>4, <2>1
<1>6. CASE fs' = WithFile(WithoutFiles(unlinked, {from}), Target(p), fs[from]) /\ out' = NextPostfix(TRUE)
  <2>1. Typed(out', held) /\ Flow(out') /\ Advanced(out, out', TRUE)
    BY <1>1, <1>6, NextPostfixIs
  <2> DEFINE moved == {Path(p, u[j]) : j \in DOMAIN u}
  <2>2. moved = {from}
    BY <1>3
  <2> HIDE DEF moved, from
  <2>3. DOMAIN fs' = (DOMAIN fs \ moved) \cup {Target(p)}
    BY <1>6, <2>2 DEF WithFile, WithoutFiles
  <2>4. fs'[Target(p)] = MergedOf(out, p)
    BY <1>5, <1>6 DEF WithFile
  <2>5. \A q \in DOMAIN fs \ moved : fs'[q] = fs[q]
    BY <1>2, <1>6, <2>2 DEF WithFile, WithoutFiles
  <2>6. InPlace(out', fs')
    <3>1. u = UsedStreams(p) /\ moved = {Path(p, u[j]) : j \in DOMAIN u}
      BY DEF u, moved
    <3>2. MovedTo(p, u, fs, fs')
      BY <1>3, <2>3, <2>4, <2>5, <3>1 DEF MovedTo
    <3>3. QED
      BY <1>1, <2>1, <3>1, <3>2, MovedInPlace
  <2>7. out'.success
    BY <2>1 DEF Advanced
  <2>8. QED
    BY <2>1, <2>6, <2>7 DEF AInv
<1>7. CASE fs' = unlinked /\ out' = NextPostfix(FALSE)
  <2>1. Typed(out', held) /\ Flow(out') /\ Advanced(out, out', FALSE)
    BY <1>1, <1>7, NextPostfixIs
  <2>2. DOMAIN fs' = DOMAIN fs /\ \A q \in DOMAIN fs : fs'[q] = fs[q]
    BY <1>2, <1>7 DEF WithoutFiles
  <2>3. KeptIn(out, fs)
    BY <1>1, InPlaceIsKept
  <2>4. KeptIn(out', fs')
    <3>1. KeptIn(out, fs')
      <4>1. \A r, q : q \in DOMAIN fs => (Holds(out, fs', r, q) <=> Holds(out, fs, r, q))
        BY <2>2 DEF Holds
      <4>2. \A r : {q \in DOMAIN fs' : Holds(out, fs', r, q)} = {q \in DOMAIN fs : Holds(out, fs, r, q)}
        BY <2>2, <4>1
      <4>3. QED
        BY <2>3, <4>2 DEF KeptIn
    <3>2. QED
      BY <2>1, <3>1, SameKept
  <2>5. ~out'.success
    BY <2>1 DEF Advanced
  <2>6. QED
    BY <2>1, <2>4, <2>5 DEF AInv
<1>8. QED
  BY <1>6, <1>7 DEF Rename, u

\* The files of the first k streams s of a postfix, and what they hold
FirstOf(p, s, k) == {Path(p, s[j]) : j \in 1 .. k}
FirstChunks(p, s, k) == [j \in 1 .. k |-> ChunkOf(out, p, s[j])]

\* Several streams, of which the first k were copied
LEMMA MergedIs ==
  ASSUME Typed(out, held), Flow(out), out.merging # 0, InPlace(out, fs), NEW p, p = out.merging,
         NEW u, u = UsedStreams(p), NEW k \in 0 .. Len(u), NEW f2, f2 = Merged(p, k, k),
         NEW moved, moved = FirstOf(p, u, k)
  PROVE  /\ DOMAIN f2 = (DOMAIN fs \ moved) \cup {Target(p)}
         /\ f2[Target(p)] = FirstChunks(p, u, k)
         /\ \A q \in DOMAIN fs \ moved : f2[q] = fs[q]
<1> DEFINE gone == {Path(p, u[j]) : j \in 1 .. k}
           content == SubSeq(Contents(p, k), 1, k)
<1>1. gone = moved
  BY DEF FirstOf
<1>2. content = FirstChunks(p, u, k)
  BY ContentsAre DEF FirstChunks
<1>3. f2 = WithFile(WithoutFiles(fs, gone), Target(p), content)
  BY DEF Merged
<1> HIDE DEF gone, content
<1>4. Target(p) \notin DOMAIN fs
  BY FilesOfPostfix
<1>5. QED
  BY <1>1, <1>2, <1>3, <1>4 DEF WithFile, WithoutFiles

LEMMA HalfMergedIsKept ==
  ASSUME Typed(out, held), Flow(out), out.merging # 0, InPlace(out, fs), NEW p, p = out.merging,
         NEW k \in 0 .. Len(UsedStreams(p)), NEW f2, f2 = Merged(p, k, k)
  PROVE  KeptIn(out, f2)
<1> DEFINE u == UsedStreams(p)
           moved == {Path(p, u[j]) : j \in 1 .. k}
<1>1. /\ u \in Seq(Nat)
      /\ \A j \in DOMAIN u : u[j] \in Nat /\ <<p, u[j]>> \in OpenedIn(out)
      /\ \A j \in DOMAIN u : /\ Path(p, u[j]) \in DOMAIN fs
                             /\ fs[Path(p, u[j])] = <<ChunkOf(out, p, u[j])>>
      /\ Target(p) \notin DOMAIN fs
      /\ \A r \in OpenedIn(out), j \in DOMAIN u : PlaceOf(out, r) = Path(p, u[j]) => r = <<p, u[j]>>
  BY FilesOfPostfix
<1>2. \A q : q \in moved <=> \E j \in 1 .. k : q = Path(p, u[j])
  OBVIOUS
<1>3. u = UsedStreams(p) /\ k \in 0 .. Len(u) /\ moved = FirstOf(p, u, k)
  BY DEF FirstOf
<1> HIDE DEF moved, u
<1>4. /\ DOMAIN f2 = (DOMAIN fs \ moved) \cup {Target(p)}
      /\ f2[Target(p)] = FirstChunks(p, u, k)
      /\ \A q \in DOMAIN fs \ moved : f2[q] = fs[q]
  BY <1>3, MergedIs
<1>5. 1 .. k \subseteq DOMAIN u /\ DOMAIN f2[Target(p)] = 1 .. k
      /\ \A j \in 1 .. k : f2[Target(p)][j] = ChunkOf(out, p, u[j])
  BY <1>1, <1>3, <1>4 DEF FirstChunks
<1>6. ASSUME NEW r \in OpenedIn(out)
      PROVE  /\ PlaceOf(out, r) \in DOMAIN fs /\ Holds(out, fs, r, PlaceOf(out, r))
             /\ \A q \in DOMAIN fs : Holds(out, fs, r, q) => q = PlaceOf(out, r)
  BY OnlyThere
<1>7. \A r, q : q \in DOMAIN fs \ moved => (Holds(out, f2, r, q) <=> Holds(out, fs, r, q))
  BY <1>4 DEF Holds
<1>8. ASSUME NEW r \in OpenedIn(out) PROVE Cardinality({q \in DOMAIN f2 : Holds(out, f2, r, q)}) = 1
  <2>1. CASE \E j \in 1 .. k : r = <<p, u[j]>>
    <3>1. PICK j \in 1 .. k : r = <<p, u[j]>>
      BY <2>1
    <3>2. j \in DOMAIN u /\ r[1] = p /\ r[2] = u[j]
      BY <1>5, <3>1
    <3>3. Holds(out, fs, r, Path(p, u[j]))
      <4>1. 1 \in DOMAIN fs[Path(p, u[j])] /\ fs[Path(p, u[j])][1] = ChunkOf(out, p, u[j])
        BY <1>1, <3>2
      <4>2. QED
        BY <3>1, <3>2, <4>1 DEF Holds, ChunkOf, Chunk, StreamIn
    <3>4. PlaceOf(out, r) = Path(p, u[j]) /\ PlaceOf(out, r) \in moved
      BY <1>1, <1>2, <1>6, <3>2, <3>3
    <3>5. Target(p) \in DOMAIN f2
      BY <1>4
    <3>6. Holds(out, f2, r, Target(p))
      <4>1. j \in DOMAIN f2[Target(p)] /\ f2[Target(p)][j] = ChunkOf(out, p, u[j])
        BY <1>5
      <4>2. QED
        BY <3>1, <3>2, <4>1 DEF Holds, ChunkOf, Chunk, StreamIn
    <3>7. ASSUME NEW q \in DOMAIN f2, Holds(out, f2, r, q) PROVE q = Target(p)
      BY <1>4, <1>6, <1>7, <3>4, <3>7
    <3>8. QED
      BY <3>5, <3>6, <3>7, HeldOnce
  <2>2. CASE ~\E j \in 1 .. k : r = <<p, u[j]>>
    <3>1. PlaceOf(out, r) \in DOMAIN fs \ moved
      BY <1>1, <1>2, <1>5, <1>6, <2>2
    <3>2. PlaceOf(out, r) \in DOMAIN f2 /\ Holds(out, f2, r, PlaceOf(out, r))
      BY <1>4, <1>6, <1>7, <3>1
    <3>3. ~Holds(out, f2, r, Target(p))
      <4>1. SUFFICES ASSUME NEW i \in 1 .. k, f2[Target(p)][i].stream = r PROVE FALSE
        BY <1>5 DEF Holds
      <4>2. f2[Target(p)][i].stream = <<p, u[i]>>
        <5>1. f2[Target(p)][i] = ChunkOf(out, p, u[i])
          BY <1>5
        <5>2. ChunkOf(out, p, u[i]).stream = <<p, u[i]>>
          BY DEF ChunkOf, Chunk
        <5>3. QED
          BY <5>1, <5>2
      <4>3. QED
        BY <2>2, <4>1, <4>2
    <3>4. ASSUME NEW q \in DOMAIN f2, Holds(out, f2, r, q) PROVE q = PlaceOf(out, r)
      BY <1>4, <1>6, <1>7, <3>3, <3>4
    <3>5. QED
      BY <3>2, <3>4, HeldOnce
  <2>3. QED
    BY <2>1, <2>2
<1>9. QED
  BY <1>8 DEF KeptIn

LEMMA ConcatenateKeeps ==
  ASSUME AInv, out.merging # 0, held' = held, NEW p, p = out.merging, Concatenate(p), "write" \notin Faults
  PROVE  AInv'
<1> DEFINE u == UsedStreams(p)
           n == Len(u)
           present == {k \in 0 .. n : \A j \in 1 .. k : Exists(Path(p, UsedStreams(p)[j]))}
<1>1. Typed(out, held) /\ Flow(out) /\ InPlace(out, fs) /\ out.success /\ n > 1
  BY DEF Concatenate, AInv
<1>2. u \in Seq(Nat) /\ MergedOf(out, p) = [i \in DOMAIN u |-> ChunkOf(out, p, u[i])]
      /\ \A j \in DOMAIN u : Path(p, u[j]) \in DOMAIN fs
  BY <1>1, FilesOfPostfix
<1>3. n \in Nat /\ DOMAIN u = 1 .. n /\ n \in 0 .. n
  BY <1>2
<1>4. ASSUME NEW ok \in BOOLEAN, out' = NextPostfix(ok)
      PROVE  Typed(out', held) /\ Flow(out') /\ Advanced(out, out', ok)
  BY <1>1, <1>4, NextPostfixIs
<1>5. CASE fs' = Merged(p, n, n) /\ out' = NextPostfix(TRUE)
  <2>1. Typed(out', held) /\ Flow(out') /\ Advanced(out, out', TRUE)
    BY <1>4, <1>5
  <2> DEFINE moved == {Path(p, u[j]) : j \in 1 .. n}
  <2>2. u = UsedStreams(p) /\ u # << >> /\ n = Len(u)
    <3>1. Len(<< >>) = 0
      OBVIOUS
    <3>2. QED
      BY <1>1, <3>1
  <2>3. moved = FirstOf(p, u, n)
    BY DEF FirstOf
  <2>4. moved = {Path(p, u[j]) : j \in DOMAIN u}
    BY <1>3
  <2> HIDE DEF moved, u, n
  <2>5. /\ DOMAIN fs' = (DOMAIN fs \ moved) \cup {Target(p)}
        /\ fs'[Target(p)] = FirstChunks(p, u, n)
        /\ \A q \in DOMAIN fs \ moved : fs'[q] = fs[q]
    <3>1. n \in 0 .. Len(u) /\ fs' = Merged(p, n, n)
      BY <1>3, <1>5, <2>2
    <3>2. Typed(out, held) /\ Flow(out) /\ InPlace(out, fs)
      BY <1>1
    <3>3. u = UsedStreams(p)
      BY <2>2
    <3>4. QED
      BY <2>3, <3>1, <3>2, <3>3, MergedIs, SMTT(30)
  <2>6. MovedTo(p, u, fs, fs')
    <3>1. FirstChunks(p, u, n) = MergedOf(out, p)
      BY <1>2, <1>3 DEF FirstChunks
    <3>2. QED
      BY <2>2, <2>4, <2>5, <3>1 DEF MovedTo
  <2>7. InPlace(out', fs')
    BY <1>1, <2>1, <2>2, <2>6, MovedInPlace
  <2>8. out'.success
    BY <2>1 DEF Advanced
  <2>9. QED
    BY <2>1, <2>7, <2>8 DEF AInv
<1>6. ASSUME out' = NextPostfix(FALSE), KeptIn(out, fs')
      PROVE  AInv'
  <2>1. Typed(out', held) /\ Flow(out') /\ Advanced(out, out', FALSE)
    BY <1>4, <1>6
  <2>2. KeptIn(out', fs')
    BY <1>6, <2>1, SameKept
  <2>3. ~out'.success
    BY <2>1 DEF Advanced
  <2>4. QED
    BY <2>1, <2>2, <2>3 DEF AInv
<1>7. CASE out' = NextPostfix(FALSE) /\ fs' = fs
  <2>1. KeptIn(out, fs')
    BY <1>1, <1>7, InPlaceIsKept
  <2>2. QED
    BY <1>6, <1>7, <2>1
<1>8. ASSUME NEW k \in present \ {n}, fs' = Merged(p, k, k), out' = NextPostfix(FALSE)
      PROVE  AInv'
  <2>1. k \in 0 .. Len(UsedStreams(p))
    OBVIOUS
  <2>2. KeptIn(out, fs')
    BY <1>1, <1>8, <2>1, HalfMergedIsKept
  <2>3. QED
    BY <1>6, <1>8, <2>2
<1>9. \/ fs' = Merged(p, n, n) /\ out' = NextPostfix(TRUE)
      \/ out' = NextPostfix(FALSE) /\ fs' = fs
      \/ \E k \in present \ {n} : fs' = Merged(p, k, k) /\ out' = NextPostfix(FALSE)
  BY DEF Concatenate
<1>10. QED
  BY <1>5, <1>7, <1>8, <1>9

LEMMA MergeKeeps ==
  ASSUME AInv, Merge, "write" \notin Faults
  PROVE  AInv'
<1> DEFINE p == out.merging
<1>1. out.merging # 0 /\ held' = held /\ (MergeNothing(p) \/ Rename(p) \/ Concatenate(p))
  BY DEF Merge
<1>2. Typed(out, held) /\ Flow(out) /\ out.success \in BOOLEAN
  BY DEF AInv, Typed, OutRecord
<1>3. CASE MergeNothing(p)
  <2>1. out' = NextPostfix(out.success) /\ fs' = fs
    BY <1>3 DEF MergeNothing
  <2>2. Typed(out', held) /\ Flow(out') /\ Advanced(out, out', out.success)
    BY <1>1, <1>2, <2>1, NextPostfixIs
  <2>3. CASE ~out.success
    <3>1. KeptIn(out, fs)
      BY <2>3 DEF AInv
    <3>2. KeptIn(out', fs')
      BY <2>1, <2>2, <3>1, SameKept
    <3>3. ~out'.success
      BY <2>2, <2>3 DEF Advanced
    <3>4. QED
      BY <1>1, <2>2, <3>2, <3>3 DEF AInv
  <2>4. CASE out.success
    <3>1. InPlace(out, fs) /\ UsedStreams(p) = << >> /\ out.success = TRUE
      BY <1>2, <1>3, <2>4 DEF AInv, MergeNothing
    <3>2. MovedTo(p, UsedStreams(p), fs, fs')
      <4> DEFINE s == UsedStreams(p)
                 moved == {Path(p, s[j]) : j \in DOMAIN s}
      <4>1. s = << >> /\ DOMAIN << >> = {}
        BY <3>1
      <4> HIDE DEF s
      <4>2. moved = {}
        BY <4>1
      <4> HIDE DEF moved
      <4>3. DOMAIN fs' = (DOMAIN fs \ moved) \cup {} /\ \A q \in DOMAIN fs \ moved : fs'[q] = fs[q]
        BY <2>1, <4>2
      <4>4. MovedTo(p, s, fs, fs')
        BY <4>1, <4>3 DEF MovedTo, moved
      <4>5. QED
        BY <4>4 DEF s
    <3>3. InPlace(out', fs')
      BY <1>1, <1>2, <2>2, <3>1, <3>2, MovedInPlace
    <3>4. out'.success
      BY <2>2, <2>4 DEF Advanced
    <3>5. QED
      BY <1>1, <2>2, <3>3, <3>4 DEF AInv
  <2>5. QED
    BY <2>3, <2>4
<1>4. CASE Rename(p)
  BY <1>1, <1>4, RenameKeeps
<1>5. CASE Concatenate(p)
  BY <1>1, <1>5, ConcatenateKeeps
<1>6. QED
  BY <1>1, <1>3, <1>4, <1>5
-----------------------------------------------------------------------------
(* The theorems                                                             *)

\* A write error while files are copied loses messages (the run output_disk_full); after
\* a second close(), or with a stream asked for after it, files that were merged
\* are overwritten.
LEMMA AInvHolds ==
  ASSUME Habits \subseteq {"close_early"}, "write" \notin Faults
  PROVE  Spec => []AInv
<1>1. Init => AInv
  BY AInvStarts
<1>2. AInv /\ [Next]_vars => AInv'
  <2> SUFFICES ASSUME AInv, [Next]_vars PROVE AInv'
    OBVIOUS
  <2>1. ASSUME NEW w \in Worker, NEW p \in Postfix, GetStream(w, p) PROVE AInv'
    BY <2>1, GetStreamKeeps
  <2>2. ASSUME NEW w \in Worker, Write(w) PROVE AInv'
    BY <2>2, WriteKeeps
  <2>3. ASSUME NEW w \in Worker, ReportFinished(w) PROVE AInv'
    BY <2>3, ReportFinishedKeeps
  <2>4. CASE Close
    BY <2>4, CloseKeeps
  <2>5. CASE Merge
    BY <2>5, MergeKeeps
  <2>6. CASE UNCHANGED vars
    <3>1. out' = out /\ fs' = fs /\ held' = held
      BY <2>6 DEF vars
    <3>2. QED
      BY <3>1 DEF AInv
  <2>7. QED
    BY <2>1, <2>2, <2>3, <2>4, <2>5, <2>6 DEF Next
<1>3. QED
  BY <1>1, <1>2, PTL DEF Spec

\* What a stream was given is in exactly one file, all of it, before, while and after
\* files are merged, and wherever a rename or an open of a file fails: A4Output::close,
\* concatenate.
THEOREM NothingIsLost ==
  ASSUME Habits \subseteq {"close_early"}, "write" \notin Faults
  PROVE  Spec => []DataKept
<1>1. Spec => []AInv
  BY AInvHolds
<1>2. AInv => DataKept
  BY AInvKeeps
<1>3. QED
  BY <1>1, <1>2, PTL

\* When close() returned TRUE, each postfix has one file with its streams, in the order
\* they were asked for, and nothing else is left: A4Output::close, concatenate.
THEOREM MergedAsAsked ==
  ASSUME Habits \subseteq {"close_early"}, "write" \notin Faults
  PROVE  Spec => []MergedInOrder
<1>1. Spec => []AInv
  BY AInvHolds
<1>2. AInv => MergedInOrder
  BY AInvMerges
<1>3. QED
  BY <1>1, <1>2, PTL

\* A write error is the only one that close() does not report: the two failures of
\* opening a file and the one of rename are, A4Output::close, concatenate.
THEOREM OtherFailuresAreReported ==
  ASSUME Habits \subseteq {"close_early"}, "write" \notin Faults
  PROVE  Spec => []FailureReported
<1>1. Spec => []AInv
  BY AInvHolds
<1>2. AInv => FailureReported
  BY AInvReports
<1>3. QED
  BY <1>1, <1>2, PTL
=============================================================================
