------------------------- MODULE PyRoundTripProofs --------------------------
(***************************************************************************)
(* What is proved of a Python reader (module PyInputStream) of what Python *)
(* writers wrote (PyOutputStreamProofs), the file cut short by a crash or  *)
(* not.                                                                    *)
(*                                                                         *)
(* The methods are operators from the object to the object.  One lemma per *)
(* method says where it leaves the object: Reads and Scans say which members*)
(* it leaves alone, Takes and Moves which cells of the file it passed.  What*)
(* is known of the object, the iterator of the client and what the client  *)
(* was handed is ReaderRight, and every step of the client keeps it.  Of a *)
(* file that no crash cut, what the loop and the scans of the footers have *)
(* found is ToldRight, for the size and the places that info() reports.    *)
(* That it knows the header, the metadata and the classes of what comes next*)
(* is ReadyRight, from which the reader implements EventReader.            *)
(* That no method fails on a file that is whole is UnfailingRight.         *)
(***************************************************************************)
EXTENDS PyOutputStreamProofs, FunctionTheorems

(* What the calls of a reader leave alone                                   *)

\* A reader has the attributes of an InputStream, whatever is in them.
IsReader(s) ==
    s = [split |-> s.split, unclosed |-> s.unclosed, pos |-> s.pos, zin |-> s.zin,
         closed |-> s.closed, eof |-> s.eof, size |-> s.size, headers |-> s.headers,
         footers |-> s.footers, metadata |-> s.metadata, all_meta |-> s.all_meta,
         pool |-> s.pool, current_header |-> s.current_header,
         current_metadata |-> s.current_metadata, metadata_change |-> s.metadata_change,
         got |-> s.got, found |-> s.found, status |-> s.status]

\* A scan of the footers changes nothing the loop has noted of itself.
Scans(s, r) ==
    /\ IsReader(r)
    /\ r.split = s.split /\ r.unclosed = s.unclosed /\ r.eof = s.eof
    /\ r.current_header = s.current_header /\ r.current_metadata = s.current_metadata
    /\ r.metadata_change = s.metadata_change

\* Reading a message changes nothing the reader has found out about the file.
Reads(s, r) ==
    /\ Scans(s, r)
    /\ r.size = s.size /\ r.headers = s.headers /\ r.footers = s.footers
    /\ r.metadata = s.metadata /\ r.all_meta = s.all_meta /\ r.found = s.found

LEMMA FailReads ==
  ASSUME NEW s, IsReader(s), NEW e, NEW r, r = Fail(s, e)
  PROVE  /\ Reads(s, r) /\ r.status = e /\ r.pos = s.pos /\ r.zin = s.zin /\ r.got = s.got
         /\ r.closed = s.closed /\ r.pool = s.pool
BY DEF IsReader, Fail, Reads, Scans

LEMMA FetchReads ==
  ASSUME NEW s, IsReader(s), NEW r, r = Fetch(s)
  PROVE  Reads(s, r)
<1>1. CASE \E e : r = Fail(s, e)
  BY <1>1, FailReads
<1>2. CASE r = [s EXCEPT !.pos = @ + 1, !.got = s.pos + 1]
  BY <1>2 DEF IsReader, Reads, Scans
<1>3. CASE r = [s EXCEPT !.zin.next = @ + 1, !.got = s.zin.next + 1]
  BY <1>3 DEF IsReader, Reads, Scans
<1>4. QED
  BY <1>1, <1>2, <1>3 DEF Fetch

\* Looking up a class brings the pool up to date, or fails.
LEMMA FindReads ==
  ASSUME NEW s, IsReader(s), NEW id, NEW r, r = FindClassId(s, id)
  PROVE  /\ Reads(s, r) /\ r.pos = s.pos /\ r.zin = s.zin /\ r.got = s.got
         /\ r.closed = s.closed /\ (r.status = "ok" => s.status = "ok")
<1> DEFINE p == ClassIds(s)
<1>1. /\ IsReader(p) /\ Reads(s, p) /\ p.pos = s.pos /\ p.zin = s.zin /\ p.got = s.got
      /\ p.closed = s.closed /\ (p.status = "ok" => s.status = "ok")
  <2>1. CASE p = s
    BY <2>1 DEF Reads, Scans
  <2>2. CASE p = Fail(s, "RuntimeError")
    BY <2>2, FailReads DEF Reads, Scans
  <2>3. CASE p = [s EXCEPT !.pool.clean = TRUE, !.pool.fixed = ClassesIn(s.pool.files)]
    BY <2>3 DEF IsReader, Reads, Scans
  <2>4. QED
    BY <2>1, <2>2, <2>3 DEF ClassIds
<1> HIDE DEF p
<1>2. r \in {s, p} \/ r = Fail(p, "AttributeError")
  BY DEF FindClassId, Then, p
<1>3. CASE r = Fail(p, "AttributeError")
  BY <1>1, <1>3, FailReads DEF Reads, Scans
<1>4. QED
  BY <1>1, <1>2, <1>3 DEF Reads, Scans

LEMMA DropReads ==
  ASSUME NEW s, IsReader(s), NEW r, r = DropCompression(s)
  PROVE  Reads(s, r)
<1>1. CASE r = Fail(s, "zlib.error")
  BY <1>1, FailReads
<1>2. CASE r = [s EXCEPT !.closed = TRUE]
  BY <1>2 DEF IsReader, Reads, Scans
<1>3. CASE r = [s EXCEPT !.pos = s.zin.next + (IF s.split THEN 0 ELSE 1), !.zin = NoZlib]
  BY <1>3 DEF IsReader, Reads, Scans
<1>4. QED
  BY <1>1, <1>2, <1>3 DEF DropCompression
-----------------------------------------------------------------------------
(* Reading a message                                                        *)

ReadOnce(r) ==
    IF r.status = "ok" /\ pfile[r.got].id \in CompressionIds
    THEN Then(Section(r), FetchKnown) ELSE r
HeaderBehind(r) == ReadHeader([r EXCEPT !.pos = PyFileEnd - r.size, !.zin = NoZlib])
ScanOnce(r) ==
    IF r.status = "ok" /\ Closes(r.size) THEN Then(ReadFooter(r, r.size), HeaderBehind) ELSE r
HandleOnce(r) ==
    IF r.status # "ok" \/ r.eof \/ IsEvent(pfile[r.got]) THEN r ELSE HandleNext(r)

\* The call that a recursion of the reader repeats
Call(name, places, r, n) ==
    CASE name = "read_message" -> ReadOnce(r)
      [] name = "read_protoclass" -> ReadProtoClassAt(r, places[n])
      [] name = "read_metadata" -> ReadMetadataAt(r, places[n])
      [] name = "read_footers" -> ScanOnce(r)
      [] name = "next" -> HandleOnce(r)

\* A recursion has a value: what each call leaves is a function of their number.
Called(name, places, s, f, N) ==
    f = [n \in 0 .. N |-> IF n = 0 THEN s ELSE Call(name, places, f[n - 1], n)]

LEMMA CallByCall ==
  ASSUME NEW name, NEW places, NEW s, NEW N \in Nat
  PROVE  \E f : Called(name, places, s, f, N)
<1> DEFINE Upto(f, m) == Called(name, places, s, f, m)
           good == {m \in 0 .. N : \E f : Upto(f, m)}
<1>2. 0 \in good
  <2>1. Upto([n \in 0 .. 0 |-> s], 0)
    BY DEF Called
  <2>2. 0 \in 0 .. N
    OBVIOUS
  <2>3. \E f : Upto(f, 0)
    BY <2>1
  <2>4. QED
    BY <2>2, <2>3
<1>3. ASSUME NEW m \in 0 + 1 .. N, m - 1 \in good PROVE m \in good
  <2>1. m \in Nat /\ m >= 1 /\ m \in 0 .. N /\ m - 1 \in 0 .. m - 1
    OBVIOUS
  <2>2. PICK f : Upto(f, m - 1)
    BY <1>3
  <2> DEFINE g == [n \in 0 .. m |-> IF n = m THEN Call(name, places, f[m - 1], m) ELSE f[n]]
  <2>3. ASSUME NEW n \in 0 .. m
        PROVE  g[n] = IF n = 0 THEN s ELSE Call(name, places, g[n - 1], n)
    <3>1. CASE n = m
      <4>1. g[n] = Call(name, places, f[m - 1], m) /\ g[n - 1] = f[m - 1] /\ n # 0
        BY <2>1, <3>1
      <4>2. QED
        BY <3>1, <4>1
    <3>2. CASE n # m
      <4>1. n \in 0 .. m - 1 /\ g[n] = f[n]
        BY <2>1, <3>2
      <4>2. f[n] = IF n = 0 THEN s ELSE Call(name, places, f[n - 1], n)
        BY <2>2, <4>1 DEF Called
      <4>3. n # 0 => n - 1 \in 0 .. m /\ n - 1 # m
        BY <2>1, <4>1
      <4>4. n # 0 => g[n - 1] = f[n - 1]
        BY <4>3
      <4>5. QED
        BY <4>1, <4>2, <4>4
    <3>3. QED
      BY <3>1, <3>2
  <2>4. g = [n \in 0 .. m |-> g[n]]
    OBVIOUS
  <2> HIDE DEF g
  <2>5. Upto(g, m)
    BY <2>3, <2>4 DEF Called
  <2>6. \E h : Upto(h, m)
    BY <2>5
  <2>7. QED
    BY <2>1, <2>6
<1> HIDE DEF good
<1>4. \A m \in 0 .. N : m \in good
  BY <1>2, <1>3, NumberByNumber
<1>5. N \in good
  BY <1>4
<1>6. QED
  BY <1>5 DEF good

LEMMA ReadMessageSteps ==
  ASSUME FileRight(pfile), NEW s
  PROVE  \E read : /\ read[0] = FetchKnown(s)
                   /\ \A n \in 1 .. PyFileEnd : read[n] = ReadOnce(read[n - 1])
                   /\ ReadMessage(s) = read[PyFileEnd]
<1> DEFINE N == PyFileEnd
           c == FetchKnown(s)
           Upto(f) == f = [n \in 0 .. N |-> IF n = 0 THEN c ELSE ReadOnce(f[n - 1])]
           read == CHOOSE f : Upto(f)
<1>1. N \in Nat
  BY DEF FileRight, PyFileEnd
<1>2. ReadMessage(s) = read[N]
  BY DEF ReadMessage, ReadOnce
<1> HIDE DEF N, c
<1>3. PICK g : Called("read_message", << >>, c, g, N)
  BY <1>1, CallByCall
<1>4. \A r, n : Call("read_message", << >>, r, n) = ReadOnce(r)
  BY DEF Call
<1>5. Upto(g)
  BY <1>3, <1>4 DEF Called
<1>6. Upto(read)
  BY <1>5
<1> HIDE DEF read
<1>7. Called("read_message", << >>, c, read, N)
  BY <1>4, <1>6 DEF Called
<1>8. read[0] = c /\ \A n \in 1 .. N : read[n] = Call("read_message", << >>, read[n - 1], n)
  <2>1. 0 \in 0 .. N /\ \A n \in 1 .. N : n \in 0 .. N /\ n # 0
    BY <1>1
  <2>2. QED
    BY <1>7, <2>1 DEF Called
<1>9. read[0] = c /\ \A n \in 1 .. N : read[n] = ReadOnce(read[n - 1])
  BY <1>4, <1>8
<1>10. QED
  BY <1>2, <1>9 DEF N, c

\* Where the next message is read: in front of this cell is what was passed.
At(s) == IF s.zin = NoZlib THEN s.pos ELSE s.zin.next

\* A ZlibInputStream remembers the place behind the message that starts its section.
InSection(z) ==
    /\ z.tell \in DOMAIN pfile /\ z.tell <= z.next /\ z.next <= PyFileEnd
    /\ HasId(pfile[z.tell], StartCompressedSectionId)
    /\ \A k \in z.tell + 1 .. z.next : pfile[k].z
Placed(s) ==
    /\ IsReader(s) /\ s.pos \in Nat /\ s.zin \in [tell : Nat, next : Nat]
    /\ s.zin # NoZlib => InSection(s.zin)

\* A message was read, and the reader stands behind it.
Took(s) ==
    /\ Placed(s) /\ At(s) = s.got
    /\ s.got \in DOMAIN pfile /\ IsMessage(pfile[s.got]) /\ ~Misreads(s.got)
    /\ s.zin # NoZlib <=> pfile[s.got].z

\* A stream of which there is more than its first cell begins with a magic number.
LEMMA BeginOf ==
  ASSUME FileRight(pfile), NEW b \in Nat, NEW i \in DOMAIN pfile, StreamTo(pfile, b, i),
         i > b + 1
  PROVE  pfile[b + 1].kind = "START_MAGIC" /\ b + 1 \in DOMAIN pfile
<1>1. i \in Nat /\ DOMAIN pfile = 1 .. PyFileEnd /\ PyFileEnd \in Nat
  BY DEF FileRight, PyFileEnd
<1>2. b + 1 \in b + 1 .. i /\ b + 2 \in b + 1 .. i /\ (b + 2) - 1 = b + 1 /\ b + 2 > b + 1
  BY <1>1
<1>3. CellRight(pfile, b, b + 1) /\ CellRight(pfile, b, b + 2)
  BY <1>2 DEF StreamTo
<1>4. pfile[b + 1].kind \in {"START_MAGIC", "TORN_MAGIC"} /\ pfile[b + 1].kind # "TORN_MAGIC"
  BY <1>2, <1>3 DEF CellRight
<1>5. b + 1 \in DOMAIN pfile
  BY <1>1
<1>6. QED
  BY <1>4, <1>5

\* In a file that was not cut none is torn.
LEMMA WholeUntorn ==
  ASSUME FileRight(pfile), Whole(pfile), NEW i \in DOMAIN pfile
  PROVE  pfile[i].kind # "TORN_MAGIC"
BY DEF FileRight, Whole

\* What read_message passes without returning it
Passing(cell) == cell.kind = "ZlibEnd" \/ (IsMessage(cell) /\ cell.id \in CompressionIds)
Passes(m, n) == \A i \in m + 1 .. n : i \in DOMAIN pfile /\ Passing(pfile[i])

LEMMA FetchTakes ==
  ASSUME FileRight(pfile), NEW s, Placed(s), NEW r, r = Fetch(s), s.status = "ok",
         r.status = "ok"
  PROVE  Took(r) /\ r.got = At(s) + 1 /\ r.closed = s.closed /\ r.pool = s.pool
<1>0. /\ IsReader(s) /\ s.pos \in Nat /\ s.zin \in [tell : Nat, next : Nat]
      /\ s.zin.next \in Nat /\ s.zin.tell \in Nat
      /\ s.zin # NoZlib => InSection(s.zin)
  BY DEF Placed
<1>1. PyFileEnd \in Nat /\ DOMAIN pfile = 1 .. PyFileEnd
  BY DEF FileRight, PyFileEnd
<1>2. \A e : r = Fail(s, e) => r.status = e
  BY <1>0, FailReads
<1>3. CASE s.zin = NoZlib
  <2>1. /\ s.pos < PyFileEnd /\ IsMessage(pfile[s.pos + 1]) /\ ~pfile[s.pos + 1].z
        /\ ~Misreads(s.pos + 1) /\ r = [s EXCEPT !.pos = @ + 1, !.got = s.pos + 1]
    BY <1>0, <1>1, <1>2, <1>3 DEF Fetch
  <2>2. IsReader(r) /\ r.pos = s.pos + 1 /\ r.got = s.pos + 1 /\ r.zin = s.zin
        /\ r.closed = s.closed /\ r.pool = s.pool
    BY <1>0, <2>1 DEF IsReader
  <2>3. s.pos + 1 \in DOMAIN pfile /\ s.pos + 1 \in Nat
    BY <1>0, <1>1, <2>1
  <2>4. QED
    BY <1>0, <1>3, <2>1, <2>2, <2>3 DEF Took, Placed, At
<1>4. CASE s.zin # NoZlib
  <2>1. /\ s.zin.next < PyFileEnd /\ pfile[s.zin.next + 1].z /\ IsMessage(pfile[s.zin.next + 1])
        /\ ~Misreads(s.zin.next + 1)
        /\ r = [s EXCEPT !.zin.next = @ + 1, !.got = s.zin.next + 1]
    BY <1>0, <1>1, <1>2, <1>4 DEF Fetch
  <2>2. s.zin = [tell |-> s.zin.tell, next |-> s.zin.next]
    BY <1>0
  <2>3. IsReader(r) /\ r.pos = s.pos /\ r.got = s.zin.next + 1
        /\ r.zin = [tell |-> s.zin.tell, next |-> s.zin.next + 1]
        /\ r.closed = s.closed /\ r.pool = s.pool
    <3>1. [s.zin EXCEPT !.next = s.zin.next + 1] = [tell |-> s.zin.tell, next |-> s.zin.next + 1]
      BY <2>2
    <3>2. r = [s EXCEPT !.zin = [s.zin EXCEPT !.next = s.zin.next + 1], !.got = s.zin.next + 1]
      BY <2>1
    <3>3. QED
      BY <1>0, <3>1, <3>2 DEF IsReader
  <2>4. s.zin.next + 1 \in DOMAIN pfile /\ s.zin.next + 1 \in Nat
    BY <1>0, <1>1, <2>1
  <2>5. r.zin # NoZlib /\ r.zin \in [tell : Nat, next : Nat]
    BY <1>0, <2>3, <2>4 DEF NoZlib
  <2>6. InSection(s.zin)
    BY <1>0, <1>4
  <2>7. InSection(r.zin)
    <3>1. r.zin.tell = s.zin.tell /\ r.zin.next = s.zin.next + 1
      BY <2>3
    <3>2. ASSUME NEW k \in s.zin.tell + 1 .. s.zin.next + 1 PROVE pfile[k].z
      <4>1. k = s.zin.next + 1 \/ k \in s.zin.tell + 1 .. s.zin.next
        BY <1>0
      <4>2. QED
        BY <2>1, <2>6, <4>1 DEF InSection
    <3>3. s.zin.tell <= s.zin.next + 1 /\ s.zin.next + 1 <= PyFileEnd
      BY <1>0, <1>1, <2>1, <2>6 DEF InSection
    <3>4. QED
      BY <2>6, <3>1, <3>2, <3>3 DEF InSection
  <2>8. At(r) = r.got /\ At(s) = s.zin.next
    BY <1>4, <2>3, <2>5 DEF At
  <2>9. QED
    BY <1>0, <2>1, <2>3, <2>4, <2>5, <2>7, <2>8 DEF Took, Placed
<1>5. QED
  BY <1>3, <1>4

LEMMA FetchKnownTakes ==
  ASSUME FileRight(pfile), NEW s, IsReader(s), NEW r, r = FetchKnown(s)
  PROVE  /\ Reads(s, r)
         /\ Placed(s) /\ s.status = "ok" /\ r.status = "ok" =>
               Took(r) /\ r.got = At(s) + 1 /\ r.closed = s.closed
<1> DEFINE f == Fetch(s)
           g == FindClassId(f, pfile[f.got].id)
<1>1. Reads(s, f) /\ IsReader(f)
  BY FetchReads DEF Reads, Scans
<1>2. r = IF f.status = "ok" THEN g ELSE f
  BY DEF FetchKnown, Then
<1> HIDE DEF f
<1>3. /\ Reads(f, g) /\ g.pos = f.pos /\ g.zin = f.zin /\ g.got = f.got /\ g.closed = f.closed
  BY <1>1, FindReads
<1> HIDE DEF g
<1>4. Reads(s, r)
  BY <1>1, <1>2, <1>3 DEF Reads, Scans
<1>5. ASSUME Placed(s), s.status = "ok", r.status = "ok"
      PROVE  Took(r) /\ r.got = At(s) + 1 /\ r.closed = s.closed
  <2>1. f.status = "ok" /\ r = g
    BY <1>2, <1>5
  <2>2. Took(f) /\ f.got = At(s) + 1 /\ f.closed = s.closed
    BY <1>5, <2>1, FetchTakes DEF f
  <2>3. IsReader(g)
    BY <1>3 DEF Reads, Scans
  <2>4. QED
    BY <1>3, <2>1, <2>2, <2>3 DEF Took, Placed, At
<1>6. QED
  BY <1>4, <1>5

\* Behind a message that starts or ends a section the reader stands in front of what
\* is in it, or behind its checksum.
LEMMA SectionPlaces ==
  ASSUME FileRight(pfile), NEW s, Took(s), s.status = "ok",
         pfile[s.got].id \in CompressionIds, NEW r, r = Section(s), r.status = "ok"
  PROVE  /\ Placed(r) /\ At(r) \in {s.got, s.got + 1} /\ r.closed = s.closed
         /\ At(r) = s.got + 1 /\ At(r) <= PyFileEnd => Passing(pfile[At(r)])
<1>0. /\ IsReader(s) /\ s.pos \in Nat /\ s.zin \in [tell : Nat, next : Nat]
      /\ s.got \in DOMAIN pfile /\ IsMessage(pfile[s.got])
      /\ s.zin # NoZlib <=> pfile[s.got].z
      /\ At(s) = s.got
  BY DEF Took, Placed
<1>1. PyFileEnd \in Nat /\ DOMAIN pfile = 1 .. PyFileEnd
  BY DEF FileRight, PyFileEnd
<1>2. s.got \in Nat /\ s.got >= 1 /\ s.got <= PyFileEnd
  BY <1>0, <1>1
<1>4. CASE pfile[s.got].id = StartCompressedSectionId
  <2>1. HasId(pfile[s.got], StartCompressedSectionId) /\ ~pfile[s.got].z
    BY <1>0, <1>4, SectionCells DEF HasId, IsMessage
  <2>2. s.zin = NoZlib /\ s.pos = s.got
    BY <1>0, <2>1 DEF At
  <2>3. r = [s EXCEPT !.zin = [tell |-> s.got, next |-> s.got]]
    BY <1>4, <2>2 DEF Section, OpenSection
  <2>4. /\ IsReader(r) /\ r.pos = s.pos /\ r.zin = [tell |-> s.got, next |-> s.got]
        /\ r.closed = s.closed
    BY <1>0, <2>3 DEF IsReader
  <2>5. r.zin # NoZlib /\ r.zin \in [tell : Nat, next : Nat]
        /\ r.zin.tell = s.got /\ r.zin.next = s.got
    BY <1>2, <2>4 DEF NoZlib
  <2>6. InSection(r.zin)
    BY <1>0, <1>2, <2>1, <2>5 DEF InSection
  <2>7. Placed(r) /\ At(r) = s.got
    BY <1>0, <2>4, <2>5, <2>6 DEF Placed, At
  <2>8. s.got # s.got + 1
    BY <1>2
  <2>9. QED
    BY <2>4, <2>7, <2>8
<1>5. CASE pfile[s.got].id # StartCompressedSectionId
  <2>1. pfile[s.got].id = EndCompressedSectionId
    BY <1>5 DEF CompressionIds
  <2>2. HasId(pfile[s.got], EndCompressedSectionId) /\ pfile[s.got].z
    BY <1>0, <2>1, SectionCells DEF HasId, IsMessage
  <2>3. s.zin # NoZlib /\ s.zin.next = s.got
    BY <1>0, <2>2 DEF At
  <2>4. r = DropCompression(s)
    BY <1>5 DEF Section
  <2>5. Fail(s, "zlib.error").status = "zlib.error"
    BY <1>0, FailReads
  <2>6. /\ ~(s.got < PyFileEnd /\ ~pfile[s.got + 1].z)
        /\ r = [s EXCEPT !.pos = s.got + (IF s.split THEN 0 ELSE 1), !.zin = NoZlib]
    BY <2>3, <2>4, <2>5 DEF DropCompression
  <2>7. /\ IsReader(r) /\ r.pos = s.got + (IF s.split THEN 0 ELSE 1) /\ r.zin = NoZlib
        /\ r.closed = s.closed
    BY <1>0, <2>6 DEF IsReader
  <2>8. r.pos \in {s.got, s.got + 1} /\ r.pos \in Nat
    BY <1>2, <2>7
  <2>9. NoZlib \in [tell : Nat, next : Nat]
    BY DEF NoZlib
  <2>10. Placed(r) /\ At(r) = r.pos
    BY <2>7, <2>8, <2>9 DEF Placed, At
  <2>11. s.got + 1 \in DOMAIN pfile => Passing(pfile[s.got + 1])
    <3>1. SUFFICES ASSUME s.got + 1 \in DOMAIN pfile PROVE Passing(pfile[s.got + 1])
      OBVIOUS
    <3>2. pfile[s.got + 1].z
      BY <1>1, <1>2, <2>6, <3>1
    <3>3. pfile[s.got + 1].kind = "ZlibEnd"
      BY <1>0, <2>2, <3>1, <3>2, NextCell
    <3>4. QED
      BY <3>3 DEF Passing
  <2>12. At(r) = s.got + 1 /\ At(r) <= PyFileEnd => s.got + 1 \in DOMAIN pfile
    BY <1>1, <1>2
  <2>13. QED
    BY <2>7, <2>8, <2>10, <2>11, <2>12
<1>6. QED
  BY <1>4, <1>5

\* One more call: another message is read, and what is passed is part of sections.
LEMMA ReadOnceTakes ==
  ASSUME FileRight(pfile), NEW s, IsReader(s), NEW r, r = ReadOnce(s)
  PROVE  /\ Reads(s, r)
         /\ Took(s) /\ s.status = "ok" /\ r.status = "ok" =>
               IF pfile[s.got].id \in CompressionIds
               THEN /\ Took(r) /\ r.got > s.got /\ Passes(s.got - 1, r.got - 1)
                    /\ r.closed = s.closed
               ELSE r = s
<1> DEFINE t == Section(s)
           f == FetchKnown(t)
<1>1. CASE ~(s.status = "ok" /\ pfile[s.got].id \in CompressionIds)
  BY <1>1 DEF ReadOnce, Reads, Scans
<1>2. CASE s.status = "ok" /\ pfile[s.got].id \in CompressionIds
  <2>1. r = IF t.status = "ok" THEN f ELSE t
    BY <1>2 DEF ReadOnce, Then
  <2>2. Reads(s, t) /\ IsReader(t)
    <3>1. CASE t = OpenSection(s)
      BY <3>1 DEF OpenSection, IsReader, Reads, Scans
    <3>2. CASE t = DropCompression(s)
      BY <3>2, DropReads DEF Reads, Scans
    <3>3. QED
      BY <3>1, <3>2 DEF Section
  <2> HIDE DEF t
  <2>3. /\ Reads(t, f)
        /\ Placed(t) /\ t.status = "ok" /\ f.status = "ok" =>
              Took(f) /\ f.got = At(t) + 1 /\ f.closed = t.closed
    BY <2>2, FetchKnownTakes
  <2> HIDE DEF f
  <2>4. Reads(s, r)
    BY <2>1, <2>2, <2>3 DEF Reads, Scans
  <2>5. ASSUME Took(s), r.status = "ok"
        PROVE  Took(r) /\ r.got > s.got /\ Passes(s.got - 1, r.got - 1) /\ r.closed = s.closed
    <3>1. t.status = "ok" /\ r = f
      BY <2>1, <2>5
    <3>2. /\ Placed(t) /\ At(t) \in {s.got, s.got + 1} /\ t.closed = s.closed
          /\ At(t) = s.got + 1 /\ At(t) <= PyFileEnd => Passing(pfile[At(t)])
      BY <1>2, <2>5, <3>1, SectionPlaces DEF t
    <3>3. Took(r) /\ r.got = At(t) + 1 /\ r.closed = s.closed
      BY <2>3, <2>5, <3>1, <3>2
    <3>4. /\ s.got \in Nat /\ s.got >= 1 /\ s.got \in DOMAIN pfile /\ IsMessage(pfile[s.got])
          /\ r.got \in Nat /\ r.got \in DOMAIN pfile /\ PyFileEnd \in Nat
          /\ DOMAIN pfile = 1 .. PyFileEnd
      BY <2>5, <3>3 DEF Took, FileRight, PyFileEnd
    <3>5. ASSUME NEW i \in (s.got - 1) + 1 .. r.got - 1
          PROVE  i \in DOMAIN pfile /\ Passing(pfile[i])
      <4>1. i = s.got \/ (i = s.got + 1 /\ At(t) = i)
        BY <3>2, <3>3, <3>4
      <4>2. i \in DOMAIN pfile /\ i <= PyFileEnd
        BY <3>4
      <4>3. Passing(pfile[s.got])
        BY <1>2, <3>4 DEF Passing
      <4>4. QED
        BY <3>2, <4>1, <4>2, <4>3
    <3>6. r.got > s.got
      BY <3>2, <3>3, <3>4
    <3>7. QED
      BY <3>3, <3>5, <3>6 DEF Passes
  <2>6. QED
    BY <1>2, <2>4, <2>5
<1>3. QED
  BY <1>1, <1>2

\* read_message returns the next message that is not part of a section.
LEMMA ReadMessageTakes ==
  ASSUME FileRight(pfile), NEW s, IsReader(s), NEW r, r = ReadMessage(s)
  PROVE  /\ Reads(s, r)
         /\ Placed(s) /\ s.status = "ok" /\ r.status = "ok" =>
               /\ Took(r) /\ r.got > At(s) /\ Passes(At(s), r.got - 1)
               /\ pfile[r.got].id \notin CompressionIds /\ r.closed = s.closed
<1>1. PICK read : /\ read[0] = FetchKnown(s)
                  /\ \A n \in 1 .. PyFileEnd : read[n] = ReadOnce(read[n - 1])
                  /\ r = read[PyFileEnd]
  BY ReadMessageSteps
<1>2. PyFileEnd \in Nat /\ DOMAIN pfile = 1 .. PyFileEnd
  BY DEF FileRight, PyFileEnd
<1> DEFINE kept == {n \in 0 .. PyFileEnd : Reads(s, read[n])}
<1>3. 0 \in kept
  BY <1>1, <1>2, FetchKnownTakes
<1>4. ASSUME NEW n \in 0 + 1 .. PyFileEnd, n - 1 \in kept PROVE n \in kept
  <2>1. n \in 1 .. PyFileEnd /\ n \in 0 .. PyFileEnd
    BY <1>2
  <2>2. Reads(s, read[n - 1]) /\ IsReader(read[n - 1])
    BY <1>4 DEF Reads, Scans
  <2>3. Reads(read[n - 1], read[n])
    BY <1>1, <2>1, <2>2, ReadOnceTakes
  <2>4. QED
    BY <2>1, <2>2, <2>3 DEF Reads, Scans
<1> HIDE DEF kept
<1>5. \A n \in 0 .. PyFileEnd : n \in kept
  BY <1>2, <1>3, <1>4, NumberByNumber
<1>6. Reads(s, r)
  BY <1>1, <1>2, <1>5 DEF kept
<1>7. ASSUME Placed(s), s.status = "ok", r.status = "ok"
      PROVE  /\ Took(r) /\ r.got > At(s) /\ Passes(At(s), r.got - 1)
             /\ pfile[r.got].id \notin CompressionIds /\ r.closed = s.closed
  <2>0. At(s) \in Nat
    BY <1>7 DEF Placed, At
  <2> DEFINE Stop(q) == pfile[q.got].id \notin CompressionIds
             Right(q) == /\ Took(q) /\ q.got > At(s) /\ Passes(At(s), q.got - 1)
                         /\ q.closed = s.closed
             right == {n \in 0 .. PyFileEnd :
                          read[n].status = "ok" =>
                             Right(read[n]) /\ (Stop(read[n]) \/ read[n].got > n)}
  <2>1. 0 \in right
    <3>1. SUFFICES ASSUME read[0].status = "ok" PROVE Right(read[0]) /\ read[0].got > 0
      BY <1>2
    <3>2. /\ Took(read[0]) /\ read[0].got = At(s) + 1 /\ read[0].closed = s.closed
      BY <1>1, <1>7, <3>1, FetchKnownTakes
    <3>3. Passes(At(s), read[0].got - 1)
      BY <2>0, <3>2 DEF Passes
    <3>4. QED
      BY <2>0, <3>2, <3>3
  <2>2. ASSUME NEW n \in 0 + 1 .. PyFileEnd, n - 1 \in right PROVE n \in right
    <3>1. n \in 1 .. PyFileEnd /\ n \in 0 .. PyFileEnd /\ n - 1 \in 0 .. PyFileEnd
      BY <1>2
    <3> DEFINE p == read[n - 1]
               q == read[n]
    <3>2. SUFFICES ASSUME q.status = "ok" PROVE Right(q) /\ (Stop(q) \/ q.got > n)
      BY <3>1
    <3>3. q = ReadOnce(p) /\ IsReader(p)
      BY <1>1, <1>5, <3>1 DEF kept, Reads, Scans
    <3>4. p.status = "ok"
      BY <3>2, <3>3 DEF ReadOnce
    <3>5. Right(p) /\ (Stop(p) \/ p.got > n - 1)
      BY <2>2, <3>4
    <3> HIDE DEF p, q
    <3>6. IF ~Stop(p) THEN Took(q) /\ q.got > p.got /\ Passes(p.got - 1, q.got - 1)
                           /\ q.closed = p.closed
          ELSE q = p
      BY <3>2, <3>3, <3>4, <3>5, ReadOnceTakes
    <3>7. CASE Stop(p)
      BY <3>5, <3>6, <3>7
    <3>8. CASE ~Stop(p)
      <4>1. p.got \in Nat /\ q.got \in Nat
        BY <1>2, <3>5, <3>6, <3>8 DEF Took
      <4>2. Passes(At(s), q.got - 1)
        <5>1. ASSUME NEW i \in At(s) + 1 .. q.got - 1
              PROVE  i \in At(s) + 1 .. p.got - 1 \/ i \in (p.got - 1) + 1 .. q.got - 1
          BY <2>0, <4>1
        <5>2. QED
          BY <3>5, <3>6, <3>8, <5>1 DEF Passes
      <4>3. q.got > n /\ q.got > At(s)
        BY <2>0, <3>1, <3>5, <3>6, <3>8, <4>1
      <4>4. QED
        BY <3>5, <3>6, <3>8, <4>2, <4>3
    <3>9. QED
      BY <3>7, <3>8
  <2> HIDE DEF right
  <2>3. \A n \in 0 .. PyFileEnd : n \in right
    BY <1>2, <2>1, <2>2, NumberByNumber
  <2>4. PyFileEnd \in right
    BY <1>2, <2>3
  <2>5. Right(r) /\ (Stop(r) \/ r.got > PyFileEnd)
    BY <1>1, <1>7, <2>4 DEF right
  <2>6. r.got <= PyFileEnd /\ r.got \in Nat
    BY <1>2, <2>5 DEF Took
  <2>7. Stop(r)
    BY <1>2, <2>5, <2>6
  <2>8. QED
    BY <2>5, <2>7
<1>8. QED
  BY <1>6, <1>7
-----------------------------------------------------------------------------
(* The scan of the footers                                                  *)

\* What is in ascending order is sorted.
LEMMA SortedIs ==
  ASSUME NEW o \in Seq(Nat), Ascending(o)
  PROVE  Sorted(o) = o
<1> DEFINE n == Len(o)
           Index == DOMAIN o
           orders == {p \in [Index -> Index] : ToSet(p) = Index}
           S == {[i \in Index |-> o[p[i]]] : p \in orders}
           Weak(s) == \A i, j \in Index : i < j => s[i] <= s[j]
<1>1. n \in Nat /\ Index = 1 .. n /\ \A i \in Index : o[i] \in Nat
  OBVIOUS
<1>2. o \in S /\ Weak(o)
  <2> DEFINE id == [i \in Index |-> i]
  <2>1. id \in [Index -> Index] /\ ToSet(id) = Index
    BY DEF ToSet
  <2>2. [i \in Index |-> o[id[i]]] = o
    OBVIOUS
  <2>3. o \in S
    BY <2>1, <2>2
  <2>4. Weak(o)
    BY <1>1 DEF Ascending
  <2>5. QED
    BY <2>3, <2>4
<1>3. ASSUME NEW s \in S, Weak(s) PROVE s = o
  <2>1. PICK p \in orders : s = [i \in Index |-> o[p[i]]]
    OBVIOUS
  <2>2. p \in [Index -> Index] /\ \A v \in Index : \E k \in Index : p[k] = v
    BY DEF ToSet
  <2> HIDE DEF orders, S, n, Index
  <2>3. ASSUME NEW i \in Index, NEW j \in Index, i <= j PROVE p[i] <= p[j]
    <3>1. p[i] \in 1 .. n /\ p[j] \in 1 .. n /\ i \in Nat /\ j \in Nat
      <4>1. p[i] \in Index /\ p[j] \in Index
        BY <2>2
      <4>2. QED
        BY <1>1, <4>1
    <3>2. CASE i = j
      BY <3>1, <3>2
    <3>3. CASE i # j
      <4>1. s[i] <= s[j] /\ s[i] = o[p[i]] /\ s[j] = o[p[j]]
        BY <1>3, <2>1, <2>3, <3>1, <3>3
      <4>2. p[j] < p[i] => o[p[j]] < o[p[i]]
        <5>1. p[i] \in DOMAIN o /\ p[j] \in DOMAIN o
          BY <2>2 DEF Index
        <5>2. QED
          BY <5>1 DEF Ascending
      <4>3. o[p[i]] \in Nat /\ o[p[j]] \in Nat
        BY <1>1, <3>1
      <4>4. QED
        BY <3>1, <4>1, <4>2, <4>3
    <3>4. QED
      BY <3>2, <3>3
  <2>4. ASSUME NEW i \in 1 .. n PROVE p[i] <= i
    <3> DEFINE low == {k \in 1 .. n : p[k] <= k}
    <3>1. 1 \in low
      <4>1. 1 \in Index /\ 1 \in 1 .. n
        BY <1>1, <2>4
      <4>2. PICK k \in Index : p[k] = 1
        BY <2>2, <4>1
      <4>3. p[1] <= p[k]
        BY <1>1, <2>3, <4>1
      <4>4. QED
        BY <4>1, <4>2, <4>3
    <3>2. ASSUME NEW j \in 1 + 1 .. n, j - 1 \in low PROVE j \in low
      <4>1. j \in Index /\ j - 1 \in Index /\ j \in 1 .. n /\ j \in Nat
        BY <1>1
      <4>2. PICK k \in Index : p[k] = j
        BY <2>2, <4>1
      <4>3. k \in Nat /\ p[j - 1] \in Nat /\ p[j] \in Nat /\ p[j - 1] <= j - 1
        <5>1. p[j - 1] \in Index /\ p[j] \in Index
          BY <2>2, <4>1
        <5>2. QED
          BY <1>1, <3>2, <5>1
      <4>4. k <= j - 1 => p[k] <= p[j - 1]
        BY <2>3, <4>1
      <4>5. k >= j
        BY <4>1, <4>2, <4>3, <4>4
      <4>6. p[j] <= p[k]
        BY <2>3, <4>1, <4>5
      <4>7. QED
        BY <4>1, <4>2, <4>6
    <3> HIDE DEF low
    <3>3. 1 \in Nat
      OBVIOUS
    <3>4. \A k \in 1 .. n : k \in low
      BY <1>1, <3>1, <3>2, <3>3, NumberByNumber
    <3>5. QED
      BY <3>4 DEF low
  <2>5. ASSUME NEW i \in 1 .. n PROVE p[i] >= i
    <3> DEFINE high == {k \in 0 .. n - 1 : p[n - k] >= n - k}
    <3>0. n >= 1 /\ n \in Nat /\ n - 1 \in Nat
      BY <1>1, <2>5
    <3>1. 0 \in high
      <4>1. n \in Index /\ 0 \in 0 .. n - 1 /\ n - 0 = n
        BY <1>1, <3>0
      <4>2. PICK k \in Index : p[k] = n
        BY <2>2, <4>1
      <4>3. k <= n
        BY <1>1
      <4>4. p[k] <= p[n]
        BY <2>3, <4>1, <4>3
      <4>5. QED
        BY <4>1, <4>2, <4>4
    <3>2. ASSUME NEW j \in 0 + 1 .. n - 1, j - 1 \in high PROVE j \in high
      <4> DEFINE m == n - j
      <4>1. /\ m \in Index /\ m + 1 \in Index /\ j \in 0 .. n - 1 /\ m \in Nat
            /\ n - (j - 1) = m + 1
        BY <1>1, <3>0
      <4>2. p[m + 1] >= m + 1
        BY <3>2, <4>1
      <4> HIDE DEF m
      <4>3. PICK k \in Index : p[k] = m
        BY <2>2, <4>1
      <4>4. k \in Nat /\ p[m + 1] \in Nat
        BY <1>1, <2>2, <4>1
      <4>5. k >= m + 1 => p[m + 1] <= p[k]
        BY <2>3, <4>1
      <4>6. k <= m
        BY <4>1, <4>2, <4>3, <4>4, <4>5
      <4>7. p[k] <= p[m]
        BY <2>3, <4>1, <4>6
      <4>8. p[n - j] >= n - j
        BY <4>3, <4>7 DEF m
      <4>9. QED
        BY <4>1, <4>8
    <3> HIDE DEF high
    <3>3. 0 \in Nat
      OBVIOUS
    <3>4. \A k \in 0 .. n - 1 : k \in high
      BY <3>0, <3>1, <3>2, <3>3, NumberByNumber
    <3>5. n - i \in 0 .. n - 1 /\ n - (n - i) = i
      BY <3>0
    <3>6. QED
      BY <3>4, <3>5 DEF high
  <2>6. ASSUME NEW i \in Index PROVE s[i] = o[i]
    <3>1. p[i] <= i /\ p[i] >= i /\ p[i] \in Nat /\ i \in Nat
      BY <1>1, <2>2, <2>4, <2>5
    <3>2. p[i] = i
      BY <3>1
    <3>3. QED
      BY <2>1, <3>2
  <2>7. s = [i \in Index |-> s[i]] /\ o = [i \in Index |-> o[i]]
    BY <2>1 DEF Index
  <2>8. QED
    BY <2>6, <2>7
<1>4. Sorted(o) = CHOOSE s \in S : Weak(s)
  BY DEF Sorted
<1> HIDE DEF S, Weak
<1>5. QED
  BY <1>2, <1>3, <1>4

\* A scan changes the size only by what the footers say.
Sized(s, r) == Scans(s, r) /\ r.size = s.size

Sought(s, place, z) == [s EXCEPT !.pos = place, !.zin = z]

LEMMA SeekReads ==
  ASSUME NEW s, IsReader(s), NEW place, NEW z, NEW r, r = Sought(s, place, z)
  PROVE  /\ Reads(s, r) /\ IsReader(r) /\ r.pos = place /\ r.zin = z
         /\ r.status = s.status /\ r.closed = s.closed /\ r.got = s.got /\ r.pool = s.pool
BY DEF IsReader, Reads, Scans, Sought

LEMMA ReadAtReads ==
  ASSUME FileRight(pfile), NEW s, IsReader(s), NEW place, NEW r, r = ReadAt(s, place)
  PROVE  /\ Reads(s, r)
         /\ place \in Nat /\ r.status = "ok" =>
               /\ Took(r) /\ r.got > place /\ Passes(place, r.got - 1) /\ s.status = "ok"
               /\ pfile[r.got].id \notin CompressionIds /\ r.closed = s.closed /\ ~s.closed
<1> DEFINE t == [s EXCEPT !.pos = place, !.zin = NoZlib]
           q == ReadMessage(t)
<1>0. t = Sought(s, place, NoZlib)
  BY DEF Sought
<1> HIDE DEF t
<1>1. /\ Reads(s, t) /\ IsReader(t) /\ t.pos = place /\ t.zin = NoZlib
      /\ t.status = s.status /\ t.closed = s.closed
  BY <1>0, SeekReads
<1>2. /\ Reads(t, q)
      /\ Placed(t) /\ t.status = "ok" /\ q.status = "ok" =>
            /\ Took(q) /\ q.got > At(t) /\ Passes(At(t), q.got - 1)
            /\ pfile[q.got].id \notin CompressionIds /\ q.closed = t.closed
  BY <1>1, ReadMessageTakes
<1>3. r = IF s.status # "ok" THEN s ELSE IF s.closed THEN Fail(s, "ValueError") ELSE q
  BY DEF ReadAt, t, q
<1> HIDE DEF q
<1>4. Reads(s, Fail(s, "ValueError")) /\ Fail(s, "ValueError").status = "ValueError"
  BY FailReads
<1>5. Reads(s, s) /\ Reads(s, q)
  BY <1>1, <1>2 DEF Reads, Scans
<1>6. ASSUME place \in Nat, r.status = "ok"
      PROVE  /\ Took(r) /\ r.got > place /\ Passes(place, r.got - 1) /\ s.status = "ok"
             /\ pfile[r.got].id \notin CompressionIds /\ r.closed = s.closed /\ ~s.closed
  <2>1. r = q /\ s.status = "ok" /\ ~s.closed
    BY <1>3, <1>4, <1>6
  <2>2. Placed(t) /\ At(t) = place
    BY <1>1, <1>6 DEF Placed, At, NoZlib
  <2>3. QED
    BY <1>1, <1>2, <1>6, <2>1, <2>2
<1>7. QED
  BY <1>3, <1>4, <1>5, <1>6

LEMMA ReportReads ==
  ASSUME NEW s, IsReader(s), NEW body, NEW r, r = ReportProtoClass(s, body)
  PROVE  /\ Reads(s, r) /\ r.pos = s.pos /\ r.zin = s.zin /\ r.got = s.got
         /\ r.closed = s.closed
<1>1. CASE r = Fail(s, "KeyError")
  BY <1>1, FailReads
<1>2. ASSUME NEW p, r = [s EXCEPT !.pool = p] PROVE
        /\ Reads(s, r) /\ r.pos = s.pos /\ r.zin = s.zin /\ r.got = s.got
        /\ r.closed = s.closed
  BY <1>2 DEF IsReader, Reads, Scans
<1>3. QED
  BY <1>1, <1>2 DEF ReportProtoClass

LEMMA ReadProtoClassAtReads ==
  ASSUME FileRight(pfile), NEW s, IsReader(s), NEW place, NEW r, r = ReadProtoClassAt(s, place)
  PROVE  Reads(s, r)
<1> DEFINE a == ReadAt(s, place)
           b == ReportProtoClass(a, pfile[a.got].body)
           c == IF a.status = "ok" THEN b ELSE a
           d == DropCompression(c)
<1>1. r = IF c.status = "ok" THEN d ELSE c
  BY DEF ReadProtoClassAt, Then
<1>2. Reads(s, a) /\ IsReader(a)
  BY ReadAtReads DEF Reads, Scans
<1> HIDE DEF a
<1>3. Reads(a, b) /\ IsReader(b)
  BY <1>2, ReportReads DEF Reads, Scans
<1> HIDE DEF b
<1>4. Reads(s, c) /\ IsReader(c)
  BY <1>2, <1>3 DEF Reads, Scans
<1> HIDE DEF c
<1>5. Reads(c, d)
  BY <1>4, DropReads
<1>6. QED
  BY <1>1, <1>4, <1>5 DEF Reads, Scans

LEMMA ReadMetadataAtScans ==
  ASSUME FileRight(pfile), NEW s, IsReader(s), NEW place, NEW r, r = ReadMetadataAt(s, place)
  PROVE  Sized(s, r)
<1> DEFINE a == ReadAt(s, place)
           b == [a EXCEPT !.metadata = With(@, place, a.got)]
           d == DropCompression(b)
           e == Fail(a, "AssertionError")
<1>1. r \in {a, d, e}
  BY DEF ReadMetadataAt, Then
<1>2. Reads(s, a) /\ IsReader(a)
  BY ReadAtReads DEF Reads, Scans
<1> HIDE DEF a
<1>3. Sized(a, b) /\ IsReader(b)
  BY <1>2 DEF IsReader, Sized, Scans
<1> HIDE DEF b
<1>4. Reads(b, d)
  BY <1>3, DropReads
<1>5. Reads(a, e)
  BY <1>2, FailReads
<1>6. QED
  BY <1>1, <1>2, <1>3, <1>4, <1>5 DEF Reads, Scans, Sized

\* The calls of read_all_meta_info for one footer
Definitions(f) == Sorted(pfile[f.got].body.protoclass_offsets)
Metadata(f) == Sorted(pfile[f.got].body.metadata_offsets)
PlacesRead(f, b, reported, read, r) ==
    /\ reported[0] = ProcessFooter(f, pfile[f.got].body)
    /\ \A n \in 1 .. Len(Definitions(f)) :
           reported[n] = ReadProtoClassAt(reported[n - 1], b + Definitions(f)[n])
    /\ read[0] = reported[Len(Definitions(f))]
    /\ \A n \in 1 .. Len(Metadata(f)) :
           read[n] = ReadMetadataAt(read[n - 1], b + Metadata(f)[n])
    /\ r = read[Len(Metadata(f))]

LEMMA ReadPlacesSteps ==
  ASSUME NEW f, NEW start, Len(Definitions(f)) \in Nat, Len(Metadata(f)) \in Nat
  PROVE  \E reported, read :
            PlacesRead(f, start - pfile[f.got].body.size, reported, read, ReadPlaces(f, start))
<1> DEFINE ps == Sorted(pfile[f.got].body.protoclass_offsets)
           ms == Sorted(pfile[f.got].body.metadata_offsets)
           b == start - pfile[f.got].body.size
<1>0. ps = Definitions(f) /\ ms = Metadata(f)
  BY DEF Definitions, Metadata
<1> DEFINE c == ProcessFooter(f, pfile[f.got].body)
           K == Len(ps)
           N == Len(ms)
           P(g) == g = [n \in 0 .. K |->
                          IF n = 0 THEN c ELSE ReadProtoClassAt(g[n - 1], b + ps[n])]
           reported == CHOOSE g : P(g)
           M(g) == g = [n \in 0 .. N |->
                          IF n = 0 THEN reported[K] ELSE ReadMetadataAt(g[n - 1], b + ms[n])]
           read == CHOOSE g : M(g)
           pp == [n \in 1 .. K |-> b + ps[n]]
           mm == [n \in 1 .. N |-> b + ms[n]]
<1>1. ReadPlaces(f, start) = read[N]
  BY DEF ReadPlaces
<1> HIDE DEF c
<1>2. \A r, n : Call("read_protoclass", pp, r, n) = ReadProtoClassAt(r, pp[n])
  BY DEF Call
<1>3. \A r, n : Call("read_metadata", mm, r, n) = ReadMetadataAt(r, mm[n])
  BY DEF Call
<1>4. /\ \A n \in 1 .. K : pp[n] = b + ps[n]
      /\ \A n \in 0 .. K : n # 0 => n \in 1 .. K
      /\ \A n \in 1 .. N : mm[n] = b + ms[n]
      /\ \A n \in 0 .. N : n # 0 => n \in 1 .. N
  OBVIOUS
<1>5. K \in Nat /\ N \in Nat
  BY <1>0
<1> HIDE DEF K, N, pp, mm
<1> DEFINE one(n, r) == IF n = 0 THEN c ELSE ReadProtoClassAt(r, b + ps[n])
           two(n, r) == IF n = 0 THEN reported[K] ELSE ReadMetadataAt(r, b + ms[n])
<1>6. P(reported) /\ Called("read_protoclass", pp, c, reported, K)
  <2>1. PICK g : Called("read_protoclass", pp, c, g, K)
    BY <1>5, CallByCall
  <2>2. \A r : \A n \in 0 .. K :
           one(n, r) = IF n = 0 THEN c ELSE Call("read_protoclass", pp, r, n)
    BY <1>2, <1>4
  <2> HIDE DEF one
  <2>3. g = [n \in 0 .. K |-> one(n, g[n - 1])]
    BY <2>1, <2>2 DEF Called
  <2>4. P(g)
    BY <2>3 DEF one
  <2>5. P(reported)
    BY <2>4
  <2> HIDE DEF reported
  <2>6. reported = [n \in 0 .. K |-> one(n, reported[n - 1])]
    BY <2>5 DEF one
  <2> HIDE DEF P
  <2>7. Called("read_protoclass", pp, c, reported, K)
    BY <2>2, <2>6 DEF Called
  <2>8. QED
    BY <2>5, <2>7
<1> HIDE DEF reported, P
<1>7. Called("read_metadata", mm, reported[K], read, N)
  <2>1. PICK g : Called("read_metadata", mm, reported[K], g, N)
    BY <1>5, CallByCall
  <2>2. \A r : \A n \in 0 .. N :
           two(n, r) = IF n = 0 THEN reported[K] ELSE Call("read_metadata", mm, r, n)
    BY <1>3, <1>4
  <2> HIDE DEF two
  <2>3. g = [n \in 0 .. N |-> two(n, g[n - 1])]
    BY <2>1, <2>2 DEF Called
  <2>4. M(g)
    BY <2>3 DEF two
  <2>5. M(read)
    BY <2>4
  <2> HIDE DEF read
  <2>6. read = [n \in 0 .. N |-> two(n, read[n - 1])]
    BY <2>5 DEF two
  <2> HIDE DEF M
  <2>7. QED
    BY <2>2, <2>6 DEF Called
<1> HIDE DEF read
<1>8. /\ reported[0] = c
      /\ \A n \in 1 .. K : reported[n] = Call("read_protoclass", pp, reported[n - 1], n)
  <2>1. 0 \in 0 .. K /\ \A n \in 1 .. K : n \in 0 .. K /\ n # 0
    BY <1>5
  <2>2. QED
    BY <1>6, <2>1 DEF Called
<1>9. /\ read[0] = reported[K]
      /\ \A n \in 1 .. N : read[n] = Call("read_metadata", mm, read[n - 1], n)
  <2>1. 0 \in 0 .. N /\ \A n \in 1 .. N : n \in 0 .. N /\ n # 0
    BY <1>5
  <2>2. QED
    BY <1>7, <2>1 DEF Called
<1>10. \A n \in 1 .. K : reported[n] = ReadProtoClassAt(reported[n - 1], b + ps[n])
  BY <1>2, <1>4, <1>8
<1>11. \A n \in 1 .. N : read[n] = ReadMetadataAt(read[n - 1], b + ms[n])
  BY <1>3, <1>4, <1>9
<1>12. PlacesRead(f, b, reported, read, ReadPlaces(f, start))
  BY <1>0, <1>1, <1>8, <1>9, <1>10, <1>11 DEF K, N, c, PlacesRead
<1>13. QED
  BY <1>12

\* The rounds of its loop over the footers
LEMMA ReadFootersSteps ==
  ASSUME FileRight(pfile), NEW s
  PROVE  \E scan : /\ scan[0] = s
                   /\ \A n \in 1 .. PyFileEnd : scan[n] = ScanOnce(scan[n - 1])
                   /\ ReadFooters(s) = IF /\ scan[PyFileEnd].status = "ok"
                                          /\ scan[PyFileEnd].size < PyFileEnd
                                       THEN [scan[PyFileEnd] EXCEPT !.pos = 0]
                                       ELSE scan[PyFileEnd]
<1> DEFINE N == PyFileEnd
           Upto(f) == f = [n \in 0 .. N |-> IF n = 0 THEN s ELSE ScanOnce(f[n - 1])]
           scan == CHOOSE f : Upto(f)
<1>1. N \in Nat
  BY DEF FileRight, PyFileEnd
<1>2. ReadFooters(s) = IF scan[N].status = "ok" /\ scan[N].size < N
                       THEN [scan[N] EXCEPT !.pos = 0] ELSE scan[N]
  BY DEF ReadFooters, Rewound, ScanOnce, HeaderBehind
<1> HIDE DEF N
<1>3. \A r, n : Call("read_footers", << >>, r, n) = ScanOnce(r)
  BY DEF Call
<1>4. PICK g : Called("read_footers", << >>, s, g, N)
  BY <1>1, CallByCall
<1>5. Upto(g)
  BY <1>3, <1>4 DEF Called
<1>6. Upto(scan)
  BY <1>5
<1> HIDE DEF scan
<1>7. Called("read_footers", << >>, s, scan, N)
  BY <1>3, <1>6 DEF Called
<1>8. scan[0] = s /\ \A n \in 1 .. N : scan[n] = Call("read_footers", << >>, scan[n - 1], n)
  <2>1. 0 \in 0 .. N /\ \A n \in 1 .. N : n \in 0 .. N /\ n # 0
    BY <1>1
  <2>2. QED
    BY <1>7, <2>1 DEF Called
<1>9. scan[0] = s /\ \A n \in 1 .. N : scan[n] = ScanOnce(scan[n - 1])
  BY <1>3, <1>8
<1>10. QED
  BY <1>2, <1>9 DEF N

\* The recursion of next()
LEMMA NextMessageSteps ==
  ASSUME FileRight(pfile), NEW s
  PROVE  \E read : /\ read[0] = HandleNext(s)
                   /\ \A n \in 1 .. PyFileEnd : read[n] = HandleOnce(read[n - 1])
                   /\ NextMessage(s) = read[PyFileEnd]
<1> DEFINE N == PyFileEnd
           c == HandleNext(s)
           Upto(f) == f = [n \in 0 .. N |-> IF n = 0 THEN c ELSE HandleOnce(f[n - 1])]
           read == CHOOSE f : Upto(f)
<1>1. N \in Nat
  BY DEF FileRight, PyFileEnd
<1>2. NextMessage(s) = read[N]
  BY DEF NextMessage, HandleOnce
<1> HIDE DEF N, c
<1>3. \A r, n : Call("next", << >>, r, n) = HandleOnce(r)
  BY DEF Call
<1>4. PICK g : Called("next", << >>, c, g, N)
  BY <1>1, CallByCall
<1>5. Upto(g)
  BY <1>3, <1>4 DEF Called
<1>6. Upto(read)
  BY <1>5
<1> HIDE DEF read
<1>7. Called("next", << >>, c, read, N)
  BY <1>3, <1>6 DEF Called
<1>8. read[0] = c /\ \A n \in 1 .. N : read[n] = Call("next", << >>, read[n - 1], n)
  <2>1. 0 \in 0 .. N /\ \A n \in 1 .. N : n \in 0 .. N /\ n # 0
    BY <1>1
  <2>2. QED
    BY <1>7, <2>1 DEF Called
<1>9. read[0] = c /\ \A n \in 1 .. N : read[n] = HandleOnce(read[n - 1])
  BY <1>3, <1>8
<1>10. QED
  BY <1>2, <1>9 DEF N, c

LEMMA ReadsTwice ==
  ASSUME NEW s, NEW r, NEW t
  PROVE  /\ Scans(s, r) /\ Scans(r, t) => Scans(s, t)
         /\ Reads(s, r) /\ Reads(r, t) => Reads(s, t)
         /\ Sized(s, r) /\ Sized(r, t) => Sized(s, t)
BY DEF Reads, Scans, Sized

LEMMA ReadsAre ==
  ASSUME NEW s, NEW r
  PROVE  /\ Reads(s, r) => Sized(s, r) /\ Scans(s, r) /\ IsReader(r)
         /\ Sized(s, r) => Scans(s, r) /\ IsReader(r)
         /\ Scans(s, r) => IsReader(r)
BY DEF Reads, Scans, Sized

LEMMA ReadsNothing ==
  ASSUME NEW s, IsReader(s)
  PROVE  Reads(s, s) /\ Sized(s, s) /\ Scans(s, s)
BY DEF Reads, Scans, Sized

LEMMA ProcessFooterScans ==
  ASSUME NEW s, IsReader(s), NEW footer, NEW r, r = ProcessFooter(s, footer)
  PROVE  /\ Scans(s, r) /\ r.pos = s.pos /\ r.zin = s.zin /\ r.got = s.got
         /\ r.status = s.status /\ r.closed = s.closed
         /\ r.size \in {s.size, s.size + footer.size + FooterLen + FooterSizeLen + MagicLen}
BY DEF IsReader, Scans, ProcessFooter

LEMMA ReadPlacesScans ==
  ASSUME FileRight(pfile), NEW f, IsReader(f), NEW start,
         Len(Definitions(f)) \in Nat, Len(Metadata(f)) \in Nat
  PROVE  Sized(ProcessFooter(f, pfile[f.got].body), ReadPlaces(f, start))
<1> DEFINE ps == Definitions(f)
           ms == Metadata(f)
           b == start - pfile[f.got].body.size
           p == ProcessFooter(f, pfile[f.got].body)
<1>1. Len(ps) \in Nat /\ Len(ms) \in Nat
  OBVIOUS
<1>2. PICK reported, read : PlacesRead(f, b, reported, read, ReadPlaces(f, start))
  BY ReadPlacesSteps
<1>7. /\ reported[0] = p
      /\ \A n \in 1 .. Len(ps) : reported[n] = ReadProtoClassAt(reported[n - 1], b + ps[n])
      /\ read[0] = reported[Len(ps)]
      /\ \A n \in 1 .. Len(ms) : read[n] = ReadMetadataAt(read[n - 1], b + ms[n])
      /\ ReadPlaces(f, start) = read[Len(ms)]
  BY <1>2 DEF PlacesRead
<1>3. Sized(p, p) /\ IsReader(p)
  <2>1. IsReader(p)
    BY ProcessFooterScans DEF Scans
  <2>2. QED
    BY <2>1, ReadsNothing
<1> HIDE DEF p, ps, ms, b
<1> DEFINE first == {n \in 0 .. Len(ps) : Sized(p, reported[n])}
           then == {n \in 0 .. Len(ms) : Sized(p, read[n])}
<1>4. Sized(p, reported[Len(ps)])
  <2>1. 0 \in first
    BY <1>1, <1>7, <1>3
  <2>2. ASSUME NEW n \in 0 + 1 .. Len(ps), n - 1 \in first PROVE n \in first
    <3>1. n \in 1 .. Len(ps) /\ n \in 0 .. Len(ps) /\ Sized(p, reported[n - 1])
      BY <1>1, <2>2
    <3>2. reported[n] = ReadProtoClassAt(reported[n - 1], b + ps[n]) /\ IsReader(reported[n - 1])
      BY <1>7, <3>1, ReadsAre
    <3>3. Reads(reported[n - 1], reported[n])
      BY <3>2, ReadProtoClassAtReads
    <3>4. QED
      BY <3>1, <3>3, ReadsTwice, ReadsAre
  <2> HIDE DEF first
  <2>3. \A n \in 0 .. Len(ps) : n \in first
    BY <1>1, <2>1, <2>2, NumberByNumber
  <2>4. Len(ps) \in first
    BY <1>1, <2>3
  <2>5. QED
    BY <2>4 DEF first
<1>5. Sized(p, read[Len(ms)])
  <2>1. 0 \in then
    BY <1>1, <1>7, <1>4
  <2>2. ASSUME NEW n \in 0 + 1 .. Len(ms), n - 1 \in then PROVE n \in then
    <3>1. n \in 1 .. Len(ms) /\ n \in 0 .. Len(ms) /\ Sized(p, read[n - 1])
      BY <1>1, <2>2
    <3>2. read[n] = ReadMetadataAt(read[n - 1], b + ms[n]) /\ IsReader(read[n - 1])
      BY <1>7, <3>1, ReadsAre
    <3>3. Sized(read[n - 1], read[n])
      BY <3>2, ReadMetadataAtScans
    <3>4. QED
      BY <3>1, <3>3, ReadsTwice, ReadsAre
  <2> HIDE DEF then
  <2>3. \A n \in 0 .. Len(ms) : n \in then
    BY <1>1, <2>1, <2>2, NumberByNumber
  <2>4. Len(ms) \in then
    BY <1>1, <2>3
  <2>5. QED
    BY <2>4 DEF then
<1>6. QED
  BY <1>5, <1>7 DEF p

\* A message in front of which the reader stands is the one it reads.
LEMMA NoPassing ==
  ASSUME FileRight(pfile), NEW m \in Nat, NEW n \in DOMAIN pfile, n > m, Passes(m, n - 1),
         IsMessage(pfile[m + 1]), pfile[m + 1].id \notin CompressionIds
  PROVE  n = m + 1
<1>1. n \in Nat
  BY CellIs
<1>2. CASE n # m + 1
  <2>1. m + 1 \in m + 1 .. n - 1
    BY <1>1, <1>2
  <2>2. Passing(pfile[m + 1])
    BY <2>1 DEF Passes
  <2>3. QED
    BY <2>2 DEF Passing, IsMessage
<1>3. QED
  BY <1>2

\* Where a stream ends before what has been counted, there is its footer.
LEMMA FooterFound ==
  ASSUME FileRight(pfile), NEW s, IsReader(s), s.size \in Nat, Closes(s.size)
  PROVE  \E b \in Nat, e \in DOMAIN pfile :
            /\ e = PyFileEnd - s.size /\ pfile[e].kind = "END_MAGIC"
            /\ b + 4 < e /\ e \in Nat /\ StreamTo(pfile, b, e)
            /\ HasId(pfile[e - 2], StreamFooterId) /\ SummaryRight(pfile, b, e - 2)
            /\ ((PyFileEnd - s.size - MagicLen) - FooterSizeLen) - FooterLen = e - 3
            /\ \A r : r = ReadAt(s, e - 3) /\ r.status = "ok" =>
                  r.got = e - 2 /\ Took(r) /\ r.closed = s.closed /\ ~s.closed
<1>1. PyFileEnd \in Nat /\ DOMAIN pfile = 1 .. PyFileEnd
  BY DEF FileRight, PyFileEnd
<1> DEFINE e == PyFileEnd - s.size
<1>2. e > 0 /\ e \in DOMAIN pfile /\ pfile[e].kind = "END_MAGIC" /\ e \in Nat
  BY <1>1 DEF Closes
<1>3. PICK b \in Nat :
            /\ b + 4 < e /\ StreamTo(pfile, b, e)
            /\ HasId(pfile[e - 2], StreamFooterId) /\ SummaryRight(pfile, b, e - 2)
  BY <1>2, EndOfStream
<1>4. ((PyFileEnd - s.size - MagicLen) - FooterSizeLen) - FooterLen = e - 3
  BY <1>1 DEF MagicLen, FooterSizeLen, FooterLen
<1>5. ASSUME NEW r, r = ReadAt(s, e - 3), r.status = "ok"
      PROVE  r.got = e - 2 /\ Took(r) /\ r.closed = s.closed /\ ~s.closed
  <2> HIDE DEF e
  <2>1. e - 3 \in Nat /\ (e - 3) + 1 = e - 2
    BY <1>2, <1>3
  <2>2. /\ Took(r) /\ r.got > e - 3 /\ Passes(e - 3, r.got - 1) /\ s.status = "ok"
        /\ r.closed = s.closed /\ ~s.closed
    BY <1>5, <2>1, ReadAtReads
  <2>3. IsMessage(pfile[e - 2]) /\ pfile[e - 2].id \notin CompressionIds
    BY <1>3, WireAssumption DEF HasId, IsMessage, CompressionIds, StreamFooterId,
       StartCompressedSectionId, EndCompressedSectionId
  <2>4. r.got \in DOMAIN pfile
    BY <2>2 DEF Took
  <2>5. r.got = e - 2
    BY <2>1, <2>2, <2>3, <2>4, NoPassing
  <2>6. QED
    BY <2>2, <2>5
<1>6. QED
  BY <1>2, <1>3, <1>4, <1>5

\* The offsets in a footer are in ascending order already.
LEMMA FooterLists ==
  ASSUME NEW b, NEW f, SummaryRight(pfile, b, f.got)
  PROVE  /\ Definitions(f) = pfile[f.got].body.protoclass_offsets
         /\ Metadata(f) = pfile[f.got].body.metadata_offsets
         /\ Len(Definitions(f)) \in Nat /\ Len(Metadata(f)) \in Nat
         /\ pfile[f.got].body.size \in Nat
<1> DEFINE B == pfile[f.got].body
<1>1. /\ B.size \in Nat /\ B.protoclass_offsets \in Seq(Nat) /\ B.metadata_offsets \in Seq(Nat)
      /\ Ascending(B.protoclass_offsets) /\ Ascending(B.metadata_offsets)
  BY DEF SummaryRight, Lists
<1>2. Definitions(f) = B.protoclass_offsets /\ Metadata(f) = B.metadata_offsets
  BY <1>1, SortedIs DEF Definitions, Metadata
<1> HIDE DEF B
<1>3. Len(B.protoclass_offsets) \in Nat /\ Len(B.metadata_offsets) \in Nat
  BY <1>1
<1>4. QED
  BY <1>1, <1>2, <1>3 DEF B

LEMMA ReadFooterScans ==
  ASSUME FileRight(pfile), NEW s, IsReader(s), s.size \in Nat, Closes(s.size),
         NEW r, r = ReadFooter(s, s.size)
  PROVE  Scans(s, r) /\ (r.status = "ok" => r.size \in Nat)
<1>1. PICK b \in Nat, e \in DOMAIN pfile :
            /\ e = PyFileEnd - s.size /\ pfile[e].kind = "END_MAGIC"
            /\ b + 4 < e /\ e \in Nat /\ StreamTo(pfile, b, e)
            /\ HasId(pfile[e - 2], StreamFooterId) /\ SummaryRight(pfile, b, e - 2)
            /\ ((PyFileEnd - s.size - MagicLen) - FooterSizeLen) - FooterLen = e - 3
            /\ \A q : q = ReadAt(s, e - 3) /\ q.status = "ok" =>
                  q.got = e - 2 /\ Took(q) /\ q.closed = s.closed /\ ~s.closed
  BY FooterFound
<1> DEFINE f == ReadAt(s, e - 3)
           p == ProcessFooter(f, pfile[f.got].body)
           q == ReadPlaces(f, e - 3)
<1>2. r = IF f.status = "ok" THEN q ELSE f
  BY <1>1 DEF ReadFooter, Then
<1>3. Reads(s, f) /\ IsReader(f)
  BY ReadAtReads, ReadsAre
<1>4. f.status = "ok" => f.got = e - 2
  BY <1>1
<1> HIDE DEF f
<1>5. CASE f.status = "ok"
  <2>1. SummaryRight(pfile, b, f.got) /\ f.size = s.size
    BY <1>1, <1>3, <1>4, <1>5 DEF Reads
  <2>2. /\ Len(Definitions(f)) \in Nat /\ Len(Metadata(f)) \in Nat
        /\ pfile[f.got].body.size \in Nat
    BY <2>1, FooterLists
  <2>3. /\ Scans(f, p) /\ IsReader(p)
        /\ p.size \in {f.size,
              f.size + pfile[f.got].body.size + FooterLen + FooterSizeLen + MagicLen}
    BY <1>3, ProcessFooterScans, ReadsAre
  <2>4. p.size \in Nat
    BY <2>1, <2>2, <2>3 DEF FooterLen, FooterSizeLen, MagicLen
  <2>5. Sized(p, q)
    BY <1>3, <2>2, ReadPlacesScans
  <2> HIDE DEF p, q
  <2>6. q.size = p.size /\ Scans(p, q)
    BY <2>5 DEF Sized
  <2>7. Scans(s, q)
    BY <1>3, <2>3, <2>6, ReadsTwice, ReadsAre
  <2>8. QED
    BY <1>2, <1>5, <2>4, <2>6, <2>7
<1>6. CASE f.status # "ok"
  BY <1>2, <1>3, <1>6, ReadsAre
<1>7. QED
  BY <1>5, <1>6

Headed(r, k) == [r EXCEPT !.headers = With(@, k, r.got)]
LEMMA HeadedScans ==
  ASSUME NEW s, IsReader(s), NEW k, NEW r, r = Headed(s, k)
  PROVE  /\ Sized(s, r) /\ r.status = s.status /\ r.pos = s.pos /\ r.zin = s.zin
         /\ r.got = s.got /\ r.closed = s.closed /\ r.headers = With(s.headers, k, s.got)
         /\ r.footers = s.footers /\ r.metadata = s.metadata /\ r.all_meta = s.all_meta
         /\ r.found = s.found /\ r.pool = s.pool
BY DEF IsReader, Sized, Scans, Headed

LEMMA SkipReads ==
  ASSUME NEW s, IsReader(s), NEW r, r = SkipMark(s)
  PROVE  /\ Reads(s, r) /\ r.zin = s.zin /\ r.status = s.status /\ r.closed = s.closed
         /\ r.pos = (IF s.pos < PyFileEnd THEN s.pos + 1 ELSE s.pos) /\ r.got = s.got
         /\ r.pool = s.pool
BY DEF IsReader, Reads, Scans, SkipMark

\* A header stands behind a magic number.
LEMMA ReadHeaderTakes ==
  ASSUME FileRight(pfile), NEW s, IsReader(s), NEW r, r = ReadHeader(s)
  PROVE  /\ Sized(s, r)
         /\ Placed(s) /\ s.zin = NoZlib /\ s.status = "ok" /\ r.status = "ok" =>
               /\ Took(r) /\ r.got = s.pos + 2 /\ HasId(pfile[r.got], StreamHeaderId)
               /\ s.pos < PyFileEnd /\ pfile[s.pos + 1].kind = "START_MAGIC"
               /\ r.headers = With(s.headers, s.pos + 1, s.pos + 2) /\ r.closed = s.closed
               /\ r.footers = s.footers /\ r.metadata = s.metadata /\ r.all_meta = s.all_meta
               /\ r.found = s.found
<1> DEFINE t == SkipMark(s)
           q == ReadMessage(t)
           h == Headed(q, s.pos + MagicLen)
           e == Fail(s, "AssertionError")
<1>1. r = IF AtMark(s, "START_MAGIC") THEN IF q.status = "ok" THEN h ELSE q ELSE e
  BY DEF ReadHeader, Then, Headed
<1>2. /\ Reads(s, t) /\ IsReader(t) /\ t.zin = s.zin /\ t.status = s.status
      /\ t.closed = s.closed
      /\ t.pos = (IF s.pos < PyFileEnd THEN s.pos + 1 ELSE s.pos)
  BY SkipReads, ReadsAre
<1>3. Reads(s, e) /\ e.status = "AssertionError"
  BY FailReads
<1> HIDE DEF t, e
<1>4. /\ Reads(t, q) /\ IsReader(q)
      /\ Placed(t) /\ t.status = "ok" /\ q.status = "ok" =>
            /\ Took(q) /\ q.got > At(t) /\ Passes(At(t), q.got - 1)
            /\ pfile[q.got].id \notin CompressionIds /\ q.closed = t.closed
  BY <1>2, ReadMessageTakes, ReadsAre
<1> HIDE DEF q
<1>5. /\ Sized(q, h) /\ h.status = q.status /\ h.pos = q.pos /\ h.zin = q.zin
      /\ h.got = q.got /\ h.closed = q.closed
      /\ h.headers = With(q.headers, s.pos + MagicLen, q.got)
      /\ h.footers = q.footers /\ h.metadata = q.metadata /\ h.all_meta = q.all_meta
      /\ h.found = q.found /\ IsReader(h)
  BY <1>4, HeadedScans, ReadsAre
<1> HIDE DEF h
<1>6. Sized(s, r)
  BY <1>1, <1>2, <1>3, <1>4, <1>5, ReadsAre, ReadsTwice
<1>7. ASSUME Placed(s), s.zin = NoZlib, s.status = "ok", r.status = "ok"
      PROVE  /\ Took(r) /\ r.got = s.pos + 2 /\ HasId(pfile[r.got], StreamHeaderId)
             /\ s.pos < PyFileEnd /\ pfile[s.pos + 1].kind = "START_MAGIC"
             /\ r.headers = With(s.headers, s.pos + 1, s.pos + 2) /\ r.closed = s.closed
             /\ r.footers = s.footers /\ r.metadata = s.metadata /\ r.all_meta = s.all_meta
             /\ r.found = s.found
  <2>1. /\ s.pos < PyFileEnd /\ pfile[s.pos + 1].kind = "START_MAGIC"
        /\ q.status = "ok" /\ r = h
    BY <1>1, <1>3, <1>5, <1>7 DEF AtMark
  <2>2. /\ PyFileEnd \in Nat /\ DOMAIN pfile = 1 .. PyFileEnd /\ s.pos \in Nat
        /\ t.pos = s.pos + 1 /\ t.zin = NoZlib
    BY <1>2, <1>7, <2>1 DEF FileRight, PyFileEnd, Placed
  <2>3. Placed(t) /\ At(t) = s.pos + 1
    BY <1>2, <1>7, <2>2 DEF Placed, At
  <2>4. /\ Took(q) /\ q.got > s.pos + 1 /\ Passes(s.pos + 1, q.got - 1) /\ q.closed = s.closed
        /\ q.got \in DOMAIN pfile /\ q.got \in Nat
    BY <1>2, <1>4, <1>7, <2>1, <2>2, <2>3 DEF Took
  <2>5. s.pos + 1 \in DOMAIN pfile /\ (s.pos + 1) + 1 \in DOMAIN pfile
        /\ (s.pos + 1) + 1 = s.pos + 2
    BY <2>1, <2>2, <2>4
  <2>6. \/ pfile[s.pos + 2].kind \in {"START_MAGIC", "TORN_MAGIC"}
        \/ HasId(pfile[s.pos + 2], StreamHeaderId)
    BY <2>1, <2>5, NextCell
  <2>7. q.got = s.pos + 2 /\ HasId(pfile[s.pos + 2], StreamHeaderId)
    <3>1. CASE q.got = s.pos + 2
      <4>1. IsMessage(pfile[s.pos + 2])
        BY <2>4, <3>1 DEF Took
      <4>2. QED
        BY <2>6, <3>1, <4>1 DEF IsMessage
    <3>2. CASE q.got # s.pos + 2
      <4>1. s.pos + 2 \in (s.pos + 1) + 1 .. q.got - 1
        BY <2>2, <2>4, <3>2
      <4>2. Passing(pfile[s.pos + 2])
        BY <2>4, <4>1 DEF Passes
      <4>3. QED
        BY <2>6, <4>2, WireAssumption DEF Passing, HasId, IsMessage, CompressionIds,
           StreamHeaderId, StartCompressedSectionId, EndCompressedSectionId
    <3>3. QED
      BY <3>1, <3>2
  <2>8. Took(r) /\ r.got = q.got
    BY <1>5, <2>1, <2>4 DEF Took, Placed, At
  <2>9. q.headers = s.headers /\ q.footers = s.footers /\ q.metadata = s.metadata
        /\ q.all_meta = s.all_meta /\ q.found = s.found
    BY <1>2, <1>4 DEF Reads
  <2>10. r.headers = With(s.headers, s.pos + 1, s.pos + 2)
    BY <1>5, <2>1, <2>7, <2>9 DEF MagicLen
  <2>11. QED
    BY <1>5, <2>1, <2>4, <2>7, <2>8, <2>9, <2>10
<1>8. QED
  BY <1>6, <1>7

LEMMA ScanOnceScans ==
  ASSUME FileRight(pfile), NEW s, IsReader(s), s.status = "ok" => s.size \in Nat,
         NEW r, r = ScanOnce(s)
  PROVE  Scans(s, r) /\ (r.status = "ok" => r.size \in Nat)
<1>1. CASE s.status = "ok" /\ Closes(s.size)
  <2> DEFINE f == ReadFooter(s, s.size)
             t == [f EXCEPT !.pos = PyFileEnd - f.size, !.zin = NoZlib]
             h == ReadHeader(t)
  <2>1. r = IF f.status = "ok" THEN h ELSE f
    BY <1>1 DEF ScanOnce, Then, HeaderBehind
  <2>2. t = Sought(f, PyFileEnd - f.size, NoZlib)
    BY DEF Sought
  <2>3. Scans(s, f) /\ IsReader(f) /\ (f.status = "ok" => f.size \in Nat)
    BY <1>1, ReadFooterScans, ReadsAre
  <2> HIDE DEF f, t
  <2>4. Reads(f, t) /\ IsReader(t)
    BY <2>2, <2>3, SeekReads, ReadsAre
  <2>5. Sized(t, h)
    BY <2>4, ReadHeaderTakes
  <2> HIDE DEF h
  <2>6. h.size = f.size /\ Scans(f, h)
    BY <2>4, <2>5, ReadsAre, ReadsTwice DEF Sized, Reads
  <2>7. Scans(s, h)
    BY <2>3, <2>6, ReadsTwice
  <2>8. QED
    BY <2>1, <2>3, <2>6, <2>7
<1>2. CASE ~(s.status = "ok" /\ Closes(s.size))
  BY <1>2, ReadsNothing DEF ScanOnce
<1>3. QED
  BY <1>1, <1>2

\* Whatever a scan finds, it leaves the loop as it was and goes back to its place.
LEMMA ReadFootersScans ==
  ASSUME FileRight(pfile), NEW s, IsReader(s), s.size \in Nat, NEW r, r = ReadFooters(s)
  PROVE  Scans(s, r)
<1>1. PICK scan : /\ scan[0] = s
                  /\ \A n \in 1 .. PyFileEnd : scan[n] = ScanOnce(scan[n - 1])
                  /\ r = IF /\ scan[PyFileEnd].status = "ok"
                            /\ scan[PyFileEnd].size < PyFileEnd
                         THEN [scan[PyFileEnd] EXCEPT !.pos = 0]
                         ELSE scan[PyFileEnd]
  BY ReadFootersSteps
<1>2. PyFileEnd \in Nat
  BY DEF FileRight, PyFileEnd
<1> DEFINE right == {n \in 0 .. PyFileEnd :
                        Scans(s, scan[n]) /\ (scan[n].status = "ok" => scan[n].size \in Nat)}
<1>3. 0 \in right
  BY <1>1, <1>2, ReadsNothing
<1>4. ASSUME NEW n \in 0 + 1 .. PyFileEnd, n - 1 \in right PROVE n \in right
  <2>1. n \in 1 .. PyFileEnd /\ n \in 0 .. PyFileEnd /\ scan[n] = ScanOnce(scan[n - 1])
    BY <1>1, <1>2
  <2>2. Scans(s, scan[n - 1]) /\ IsReader(scan[n - 1])
        /\ (scan[n - 1].status = "ok" => scan[n - 1].size \in Nat)
    BY <1>4, ReadsAre
  <2>3. Scans(scan[n - 1], scan[n]) /\ (scan[n].status = "ok" => scan[n].size \in Nat)
    BY <2>1, <2>2, ScanOnceScans
  <2>4. QED
    BY <2>1, <2>2, <2>3, ReadsTwice
<1> HIDE DEF right
<1>5. \A n \in 0 .. PyFileEnd : n \in right
  BY <1>2, <1>3, <1>4, NumberByNumber
<1>6. PyFileEnd \in right
  BY <1>2, <1>5
<1>7. PICK last : last = scan[PyFileEnd]
  OBVIOUS
<1>8. Scans(s, last) /\ IsReader(last)
  BY <1>6, <1>7, ReadsAre DEF right
<1>9. r = last \/ r = [last EXCEPT !.pos = 0]
  BY <1>1, <1>7
<1>10. ASSUME r = [last EXCEPT !.pos = 0] PROVE Scans(s, r)
  BY <1>8, <1>10 DEF Scans, IsReader
<1>11. QED
  BY <1>8, <1>9, <1>10

LEMMA ReadAllScans ==
  ASSUME FileRight(pfile), NEW s, IsReader(s), NEW r, r = ReadAllMetaInfo(s)
  PROVE  /\ Scans(s, r)
         /\ r.status = "ok" => r.pos = s.pos /\ r.zin = s.zin /\ r.got = s.got
<1> DEFINE t == [s EXCEPT !.all_meta = TRUE, !.zin = NoZlib, !.headers = << >>,
                          !.footers = {}, !.metadata = << >>, !.size = 0]
           l == ReadFooters(t)
           e == Fail(l, "ValueError")
           b == [l EXCEPT !.pos = s.pos, !.zin = s.zin, !.got = s.got]
<1>1. r = IF s.all_meta THEN s ELSE IF l.status = "ok" THEN IF l.closed THEN e ELSE b ELSE l
  BY DEF ReadAllMetaInfo, Then
<1>2. PICK u : u = t
  OBVIOUS
<1>3. Scans(s, u) /\ IsReader(u) /\ u.size = 0
  BY <1>2 DEF IsReader, Scans
<1>4. l = ReadFooters(u)
  BY <1>2
<1> HIDE DEF l, t
<1>5. Scans(u, l) /\ IsReader(l)
  BY <1>3, <1>4, ReadFootersScans, ReadsAre
<1>6. Scans(l, e) /\ e.status = "ValueError"
  BY <1>5, FailReads, ReadsAre
<1>7. PICK v : v = b
  OBVIOUS
<1>8. Scans(l, v) /\ v.pos = s.pos /\ v.zin = s.zin /\ v.got = s.got
  BY <1>5, <1>7 DEF IsReader, Scans
<1> HIDE DEF b, e
<1>9. Scans(s, l) /\ Scans(s, e) /\ Scans(s, v) /\ Scans(s, s)
  BY <1>3, <1>5, <1>6, <1>8, ReadsTwice, ReadsNothing
<1>10. CASE s.all_meta
  BY <1>1, <1>9, <1>10
<1>11. CASE ~s.all_meta
  BY <1>1, <1>6, <1>7, <1>8, <1>9, <1>11
<1>12. QED
  BY <1>10, <1>11

\* Looking for the metadata changes nothing of the loop but what applies now.
Looks(s, r) ==
    /\ IsReader(r)
    /\ r.split = s.split /\ r.unclosed = s.unclosed /\ r.eof = s.eof
    /\ r.current_header = s.current_header /\ r.metadata_change = s.metadata_change
    /\ r.status = "ok" => r.pos = s.pos /\ r.zin = s.zin /\ r.got = s.got

LEMMA FindLooks ==
  ASSUME FileRight(pfile), NEW s, IsReader(s), NEW r, r = FindCurrentMetadata(s)
  PROVE  Looks(s, r)
<1> DEFINE m == MetadataAt(s, Tell(s))
           c == [m EXCEPT !.current_metadata = m.found]
           a == ReadAllMetaInfo(s)
<1>1. r = IF m.status = "ok" THEN c ELSE m
  BY DEF FindCurrentMetadata, Then
<1>2. Looks(s, m)
  <2>1. \/ m = Fail(s, "IndexError")
        \/ \E x : m = [s EXCEPT !.found = x]
        \/ m = IF a.status = "ok" THEN [a EXCEPT !.found =
                    IF {k \in DOMAIN a.metadata : k > Tell(s)} = {} THEN None
                    ELSE a.metadata[Min({k \in DOMAIN a.metadata : k > Tell(s)})]]
               ELSE a
    BY DEF MetadataAt, Then
  <2> HIDE DEF m
  <2>2. CASE m = Fail(s, "IndexError")
    BY <2>2, FailReads DEF Looks, Reads, Scans
  <2>3. ASSUME NEW x, m = [s EXCEPT !.found = x] PROVE Looks(s, m)
    BY <2>3 DEF Looks, IsReader
  <2>4. Scans(s, a) /\ IsReader(a)
        /\ (a.status = "ok" => a.pos = s.pos /\ a.zin = s.zin /\ a.got = s.got)
    BY ReadAllScans, ReadsAre
  <2> HIDE DEF a
  <2>5. ASSUME NEW x, m = [a EXCEPT !.found = x] PROVE Looks(s, m)
    <3>1. IsReader(m) /\ m.status = a.status /\ m.pos = a.pos /\ m.zin = a.zin /\ m.got = a.got
          /\ m.split = a.split /\ m.unclosed = a.unclosed /\ m.eof = a.eof
          /\ m.current_header = a.current_header /\ m.metadata_change = a.metadata_change
      BY <2>4, <2>5 DEF IsReader
    <3>2. QED
      BY <2>4, <3>1 DEF Looks, Scans
  <2>6. ASSUME m = a PROVE Looks(s, m)
    BY <2>4, <2>6 DEF Looks, Scans
  <2>7. QED
    BY <2>1, <2>2, <2>3, <2>5, <2>6
<1> HIDE DEF m
<1>3. Looks(m, c)
  <2>1. PICK x : x = c
    OBVIOUS
  <2>2. Looks(m, x)
    BY <1>2, <2>1 DEF Looks, IsReader
  <2>3. QED
    BY <2>1, <2>2
<1>4. c.status = m.status
  BY <1>2 DEF Looks, IsReader
<1> HIDE DEF c
<1>5. QED
  BY <1>1, <1>2, <1>3, <1>4 DEF Looks
-----------------------------------------------------------------------------
(* next()                                                                   *)

NoEvents(m, n) == \A i \in m + 1 .. n : i \in DOMAIN pfile => ~IsEvent(pfile[i])

LEMMA PassesNoEvents ==
  ASSUME NEW m \in Nat, NEW n \in Nat, Passes(m, n)
  PROVE  NoEvents(m, n)
<1>1. ASSUME NEW i \in m + 1 .. n PROVE ~IsEvent(pfile[i])
  <2>1. Passing(pfile[i])
    BY DEF Passes
  <2>2. QED
    BY <2>1 DEF Passing, IsEvent, IsUserMessage, IsMessage, CompressionIds, FixedIds
<1>2. QED
  BY <1>1 DEF NoEvents

LEMMA NoEventsTwice ==
  ASSUME NEW l \in Nat, NEW m \in Nat, NEW n \in Nat, NoEvents(l, m), NoEvents(m, n)
  PROVE  NoEvents(l, n)
<1>1. \A i \in l + 1 .. n : i \in l + 1 .. m \/ i \in m + 1 .. n
  OBVIOUS
<1>2. QED
  BY <1>1 DEF NoEvents

LEMMA StopIs ==
  ASSUME NEW s, IsReader(s), NEW r, r = StopIteration(s)
  PROVE  /\ IsReader(r) /\ r.eof /\ r.status = s.status /\ r.split = s.split
         /\ r.unclosed = s.unclosed
BY DEF IsReader, StopIteration

\* Behind the footer of a stream comes the next stream or the end of the file, or
\* next() says that the file is not closed.
LEMMA AfterFooterIs ==
  ASSUME FileRight(pfile), NEW s, IsReader(s), s.zin = NoZlib, s.pos = s.got,
         s.got \in DOMAIN pfile, HasId(pfile[s.got], StreamFooterId), ~s.eof,
         NEW r, r = AfterFooter(s), r.status = "ok"
  PROVE  /\ IsReader(r)
         /\ r.eof => /\ \/ r.unclosed
                        \/ NoEvents(s.got, PyFileEnd)
         /\ ~r.eof => /\ r.pos = s.got + 3 /\ r.pos \in DOMAIN pfile /\ NoEvents(s.got, r.pos)
                      /\ pfile[s.got + 2].kind = "END_MAGIC"
                      /\ pfile[r.pos].kind = "START_MAGIC"
                      /\ r.current_metadata = None /\ r.metadata_change
                      /\ r.got = s.got /\ r.zin = NoZlib
                      /\ r.split = s.split /\ r.unclosed = s.unclosed /\ r.closed = s.closed
                      /\ r.current_header = s.current_header /\ r.size = s.size
                      /\ r.headers = s.headers /\ r.footers = s.footers
                      /\ r.metadata = s.metadata /\ r.all_meta = s.all_meta
                      /\ r.pool = s.pool
<1> DEFINE e == SkipMark(s)
           d == SkipMark(e)
           n == [d EXCEPT !.current_metadata = None, !.metadata_change = TRUE]
           f == SkipMark(n)
           u == [StopIteration(d) EXCEPT !.unclosed = TRUE]
<1>0. /\ PyFileEnd \in Nat /\ DOMAIN pfile = 1 .. PyFileEnd
      /\ s.got \in Nat /\ s.got >= 1 /\ s.got <= PyFileEnd
  BY DEF FileRight, PyFileEnd
<1>1. r = IF s.pos >= PyFileEnd THEN Fail(s, "struct.error")
          ELSE IF ~AtMark(e, "END_MAGIC") THEN u
          ELSE IF AtMark(n, "START_MAGIC") THEN f ELSE StopIteration(f)
  BY DEF AfterFooter
<1>2. Fail(s, "struct.error").status = "struct.error"
  BY FailReads
<1>3. s.got < PyFileEnd
  BY <1>0, <1>1, <1>2
<1>4. /\ IsReader(e) /\ Reads(s, e) /\ e.zin = NoZlib /\ e.got = s.got /\ e.pos = s.got + 1
      /\ e.closed = s.closed /\ e.pool = s.pool
  BY <1>3, SkipReads, ReadsAre
<1> HIDE DEF e
<1>5. /\ IsReader(d) /\ Reads(s, d) /\ d.zin = NoZlib /\ d.got = s.got
      /\ d.pos = (IF s.got + 1 < PyFileEnd THEN (s.got + 1) + 1 ELSE s.got + 1)
      /\ d.closed = s.closed /\ d.pool = s.pool
  <2>1. /\ Reads(e, d) /\ IsReader(d) /\ d.zin = e.zin /\ d.got = e.got
        /\ d.pos = (IF e.pos < PyFileEnd THEN e.pos + 1 ELSE e.pos)
        /\ d.closed = e.closed /\ d.pool = e.pool
    BY <1>4, SkipReads, ReadsAre
  <2>2. QED
    BY <1>4, <2>1, ReadsTwice
<1> HIDE DEF d
<1>6. CASE ~AtMark(e, "END_MAGIC")
  <2>1. r = u
    BY <1>0, <1>1, <1>3, <1>6
  <2>2. PICK v : v = StopIteration(d)
    OBVIOUS
  <2>3. IsReader(v) /\ v.eof
    BY <1>5, <2>2, StopIs
  <2>4. r = [v EXCEPT !.unclosed = TRUE]
    BY <2>1, <2>2
  <2>5. IsReader(r) /\ r.eof /\ r.unclosed
    BY <2>3, <2>4 DEF IsReader
  <2>6. QED
    BY <2>5
<1>7. CASE AtMark(e, "END_MAGIC")
  <2>1. s.got + 1 < PyFileEnd /\ pfile[(s.got + 1) + 1].kind = "END_MAGIC"
    BY <1>4, <1>7 DEF AtMark
  <2>2. /\ d.pos = s.got + 2 /\ pfile[s.got + 2].kind = "END_MAGIC"
        /\ s.got + 2 \in DOMAIN pfile /\ s.got + 1 \in DOMAIN pfile /\ (s.got + 1) + 1 = s.got + 2
        /\ (s.got + 2) + 1 = s.got + 3 /\ s.got + 2 <= PyFileEnd
    BY <1>0, <1>5, <2>1
  <2>3. NoEvents(s.got, s.got + 2)
    <3>1. ASSUME NEW i \in s.got + 1 .. s.got + 2 PROVE ~IsEvent(pfile[i])
      <4>1. i = s.got + 1 \/ i = s.got + 2
        BY <1>0
      <4>2. pfile[s.got + 1].kind \in {"FooterSize", "START_MAGIC", "TORN_MAGIC"}
        BY <2>2, NextCell
      <4>3. QED
        BY <2>2, <4>1, <4>2 DEF IsEvent, IsUserMessage
    <3>2. QED
      BY <3>1 DEF NoEvents
  <2>4. PICK m : m = n
    OBVIOUS
  <2>5. /\ IsReader(m) /\ m.pos = s.got + 2 /\ m.zin = NoZlib /\ m.got = s.got
        /\ m.current_metadata = None /\ m.metadata_change
        /\ m.closed = s.closed /\ m.pool = s.pool /\ m.status = d.status
        /\ m.split = d.split /\ m.unclosed = d.unclosed /\ m.eof = d.eof
        /\ m.current_header = d.current_header /\ m.size = d.size /\ m.headers = d.headers
        /\ m.footers = d.footers /\ m.metadata = d.metadata /\ m.all_meta = d.all_meta
    BY <1>5, <2>2, <2>4 DEF IsReader
  <2>6. f = SkipMark(m) /\ r = IF AtMark(m, "START_MAGIC") THEN f ELSE StopIteration(f)
    BY <1>0, <1>1, <1>3, <1>7, <2>4
  <2> HIDE DEF f, n, u
  <2>7. /\ IsReader(f) /\ Reads(m, f) /\ f.zin = NoZlib /\ f.got = s.got
        /\ f.pos = (IF s.got + 2 < PyFileEnd THEN s.got + 3 ELSE s.got + 2)
        /\ f.closed = s.closed /\ f.pool = s.pool /\ ~f.eof
        /\ f.current_metadata = None /\ f.metadata_change
        /\ f.split = s.split /\ f.unclosed = s.unclosed
        /\ f.current_header = s.current_header /\ f.size = s.size /\ f.headers = s.headers
        /\ f.footers = s.footers /\ f.metadata = s.metadata /\ f.all_meta = s.all_meta
    <3>1. /\ Reads(m, f) /\ IsReader(f) /\ f.zin = m.zin /\ f.got = m.got
          /\ f.pos = (IF m.pos < PyFileEnd THEN m.pos + 1 ELSE m.pos)
          /\ f.closed = m.closed /\ f.pool = m.pool
      BY <2>5, <2>6, SkipReads, ReadsAre
    <3>2. QED
      BY <1>5, <2>2, <2>5, <3>1 DEF Reads, Scans
  <2>8. CASE AtMark(m, "START_MAGIC")
    <3>1. s.got + 2 < PyFileEnd /\ pfile[s.got + 3].kind = "START_MAGIC"
      BY <2>2, <2>5, <2>8 DEF AtMark
    <3>2. f.pos = s.got + 3 /\ s.got + 3 \in DOMAIN pfile
      BY <1>0, <2>7, <3>1
    <3>3. NoEvents(s.got, s.got + 3)
      <4>1. ASSUME NEW i \in s.got + 1 .. s.got + 3 PROVE ~IsEvent(pfile[i])
        <5>1. i \in s.got + 1 .. s.got + 2 \/ i = s.got + 3
          BY <1>0
        <5>2. i \in DOMAIN pfile
          BY <1>0, <3>2
        <5>3. QED
          BY <2>3, <3>1, <5>1, <5>2 DEF NoEvents, IsEvent, IsUserMessage
      <4>2. QED
        BY <4>1 DEF NoEvents
    <3>4. QED
      BY <2>2, <2>6, <2>7, <2>8, <3>1, <3>2, <3>3
  <2>9. CASE ~AtMark(m, "START_MAGIC")
    <3>1. NoEvents(s.got, PyFileEnd)
      <4>1. CASE PyFileEnd = s.got + 2
        BY <2>3, <4>1
      <4>2. CASE PyFileEnd # s.got + 2
        <5>1. s.got + 3 \in DOMAIN pfile /\ s.got + 2 < PyFileEnd
          BY <1>0, <2>2, <4>2
        <5>2. /\ pfile[s.got + 3].kind \in {"START_MAGIC", "TORN_MAGIC"}
              /\ pfile[s.got + 3].kind = "TORN_MAGIC" => s.got + 3 = PyFileEnd
          BY <2>2, <5>1, NextCell
        <5>3. pfile[s.got + 3].kind # "START_MAGIC"
          BY <2>2, <2>5, <2>9, <5>1 DEF AtMark
        <5>4. PyFileEnd = s.got + 3 /\ ~IsEvent(pfile[PyFileEnd])
          BY <5>2, <5>3 DEF IsEvent, IsUserMessage
        <5>5. \A i \in s.got + 1 .. s.got + 3 : i \in s.got + 1 .. s.got + 2 \/ i = s.got + 3
          BY <1>0
        <5>6. QED
          BY <2>3, <5>4, <5>5 DEF NoEvents
      <4>3. QED
        BY <4>1, <4>2
    <3>2. IsReader(r) /\ r.eof
      BY <2>6, <2>7, <2>9, StopIs
    <3>3. QED
      BY <3>1, <3>2
  <2>10. QED
    BY <2>8, <2>9
<1>8. QED
  BY <1>6, <1>7

\* What a call of next() does from behind cell m: it passes no event, and stands
\* behind the one it read, or has found the end.
Progress(m, h) ==
    \/ h.eof /\ (h.unclosed \/ NoEvents(m, PyFileEnd))
    \/ /\ ~h.eof /\ Placed(h) /\ h.got \in DOMAIN pfile /\ m < h.got /\ h.got <= At(h)
       /\ IF IsEvent(pfile[h.got])
          THEN At(h) = h.got /\ NoEvents(m, h.got - 1) /\ ~Misreads(h.got)
          ELSE NoEvents(m, At(h))

\* What is read of a message that is no footer leaves the reader where it is.
LEMMA StaysIs ==
  ASSUME FileRight(pfile), NEW m \in Nat, NEW s, Took(s), ~s.eof, m < s.got,
         Passes(m, s.got - 1),
         NEW r, IsReader(r), r.eof = s.eof,
         r.status = "ok" => r.pos = s.pos /\ r.zin = s.zin /\ r.got = s.got
  PROVE  r.status = "ok" => Progress(m, r)
<1>1. SUFFICES ASSUME r.status = "ok" PROVE Progress(m, r)
  OBVIOUS
<1>2. /\ Placed(s) /\ At(s) = s.got /\ s.got \in DOMAIN pfile /\ s.got \in Nat /\ s.got >= 1
      /\ s.got - 1 \in Nat /\ ~Misreads(s.got)
  BY CellIs DEF Took
<1>3. Placed(r) /\ At(r) = s.got /\ r.got = s.got
  BY <1>1, <1>2 DEF Placed, At
<1>4. NoEvents(m, s.got - 1)
  BY <1>2, PassesNoEvents
<1>5. ~IsEvent(pfile[s.got]) => NoEvents(m, s.got)
  <2>1. \A i \in m + 1 .. s.got : i = s.got \/ i \in m + 1 .. s.got - 1
    BY <1>2
  <2>2. QED
    BY <1>4, <2>1 DEF NoEvents
<1>6. s.got <= s.got
  BY <1>2
<1>7. QED
  BY <1>2, <1>3, <1>4, <1>5, <1>6 DEF Progress

Headered(r) == [r EXCEPT !.headers = With(@, Tell(r) - 1, r.got), !.current_header = r.got]
Recorded(r) == [r EXCEPT !.metadata = With(@, MetadataKey(r), r.got), !.metadata_change = TRUE]
Current(r) == [r EXCEPT !.current_metadata = r.got]

LEMMA HeaderedIs ==
  ASSUME NEW s, IsReader(s), NEW r, r = Headered(s)
  PROVE  /\ IsReader(r) /\ r.pos = s.pos /\ r.zin = s.zin /\ r.got = s.got /\ r.eof = s.eof
         /\ r.headers = With(s.headers, Tell(s) - 1, s.got) /\ r.current_header = s.got
         /\ r.split = s.split /\ r.unclosed = s.unclosed /\ r.closed = s.closed
         /\ r.size = s.size /\ r.footers = s.footers /\ r.metadata = s.metadata
         /\ r.all_meta = s.all_meta /\ r.pool = s.pool /\ r.status = s.status
         /\ r.current_metadata = s.current_metadata /\ r.metadata_change = s.metadata_change
BY DEF IsReader, Headered

LEMMA RecordedIs ==
  ASSUME NEW s, IsReader(s), NEW r, r = Recorded(s)
  PROVE  /\ IsReader(r) /\ r.pos = s.pos /\ r.zin = s.zin /\ r.got = s.got /\ r.eof = s.eof
         /\ r.metadata = With(s.metadata, MetadataKey(s), s.got) /\ r.metadata_change
         /\ r.split = s.split /\ r.unclosed = s.unclosed /\ r.closed = s.closed
         /\ r.size = s.size /\ r.footers = s.footers /\ r.headers = s.headers
         /\ r.all_meta = s.all_meta /\ r.pool = s.pool /\ r.status = s.status
         /\ r.current_metadata = s.current_metadata /\ r.current_header = s.current_header
BY DEF IsReader, Recorded

LEMMA CurrentIs ==
  ASSUME NEW s, IsReader(s), NEW r, r = Current(s)
  PROVE  /\ IsReader(r) /\ r.pos = s.pos /\ r.zin = s.zin /\ r.got = s.got /\ r.eof = s.eof
         /\ r.metadata = s.metadata /\ r.metadata_change = s.metadata_change
         /\ r.split = s.split /\ r.unclosed = s.unclosed /\ r.closed = s.closed
         /\ r.size = s.size /\ r.footers = s.footers /\ r.headers = s.headers
         /\ r.all_meta = s.all_meta /\ r.pool = s.pool /\ r.status = s.status
         /\ r.current_metadata = s.got /\ r.current_header = s.current_header
BY DEF IsReader, Current

\* What next() does with each kind of message
LEMMA HandleCases ==
  ASSUME NEW r, IsMessage(pfile[r.got]), pfile[r.got].id \notin CompressionIds
  PROVE  \/ HasId(pfile[r.got], StreamHeaderId) /\ Handle(r) = Headered(r)
         \/ /\ HasId(pfile[r.got], StreamFooterId)
            /\ Handle(r) = AfterFooter(ProcessFooter(r, pfile[r.got].body))
         \/ /\ HasId(pfile[r.got], ProtoClassId)
            /\ Handle(r) = ReportProtoClass(r, pfile[r.got].body)
         \/ IsMetadata(pfile[r.got]) /\ Handle(r) = OnMetadata(r)
         \/ IsEvent(pfile[r.got]) /\ Handle(r) = OnEvent(r)
<1> DEFINE c == pfile[r.got]
<1>1. /\ StreamHeaderId # StreamFooterId /\ StreamHeaderId # ProtoClassId
      /\ StreamFooterId # ProtoClassId
  BY WireAssumption DEF StreamHeaderId, StreamFooterId, ProtoClassId
<1>2. /\ c.id = StreamHeaderId => HasId(c, StreamHeaderId) /\ ~IsMetadata(c)
      /\ c.id = StreamFooterId => HasId(c, StreamFooterId) /\ ~IsMetadata(c)
      /\ c.id = ProtoClassId => HasId(c, ProtoClassId) /\ ~IsMetadata(c)
  BY DEF HasId, IsMessage, IsMetadata, IsUserMessage, FixedIds
<1>3. /\ c.id # StreamHeaderId /\ c.id # StreamFooterId /\ c.id # ProtoClassId /\ ~IsMetadata(c)
         => IsEvent(c)
  BY DEF IsMessage, IsMetadata, IsUserMessage, IsEvent, FixedIds, CompressionIds
<1>4. Handle(r) = CASE c.id = StreamHeaderId -> Headered(r)
                    [] c.id = StreamFooterId -> AfterFooter(ProcessFooter(r, c.body))
                    [] c.id = ProtoClassId -> ReportProtoClass(r, c.body)
                    [] IsMetadata(c) -> OnMetadata(r)
                    [] OTHER -> OnEvent(r)
  BY DEF Handle, Headered
<1> HIDE DEF c
<1>5. \/ c.id = StreamHeaderId /\ Handle(r) = Headered(r)
      \/ c.id = StreamFooterId /\ Handle(r) = AfterFooter(ProcessFooter(r, c.body))
      \/ c.id = ProtoClassId /\ Handle(r) = ReportProtoClass(r, c.body)
      \/ IsMetadata(c) /\ Handle(r) = OnMetadata(r)
      \/ IsEvent(c) /\ Handle(r) = OnEvent(r)
  BY <1>1, <1>2, <1>3, <1>4
<1>6. QED
  BY <1>2, <1>5 DEF c

LEMMA OnMetadataIs ==
  ASSUME NEW r
  PROVE  OnMetadata(r) = IF pfile[r.current_header].body.metadata_refers_forward
                         THEN Current(Recorded(r)) ELSE FindCurrentMetadata(Recorded(r))
<1>1. Recorded(r).got = r.got \/ TRUE
  OBVIOUS
<1>2. [Recorded(r) EXCEPT !.current_metadata = r.got] = Current(Recorded(r))
  BY DEF Recorded, Current
<1>3. QED
  BY <1>2 DEF OnMetadata, Recorded

LEMMA HandleMoves ==
  ASSUME FileRight(pfile), NEW m \in Nat, NEW s, Took(s), ~s.eof, m < s.got,
         Passes(m, s.got - 1), pfile[s.got].id \notin CompressionIds, s.status = "ok",
         NEW h, h = Handle(s)
  PROVE  h.status = "ok" => Progress(m, h)
<1>0. /\ IsReader(s) /\ IsMessage(pfile[s.got]) /\ s.got \in DOMAIN pfile /\ s.got \in Nat
      /\ s.got >= 1 /\ s.got - 1 \in Nat
  BY CellIs DEF Took, Placed
<1> DEFINE Stays(r) == /\ IsReader(r) /\ r.eof = s.eof
                       /\ r.status = "ok" => r.pos = s.pos /\ r.zin = s.zin /\ r.got = s.got
<1>1. ASSUME Stays(h) PROVE h.status = "ok" => Progress(m, h)
  BY <1>1, StaysIs
<1>2. CASE h = Headered(s)
  BY <1>0, <1>1, <1>2, HeaderedIs
<1>3. CASE h = ReportProtoClass(s, pfile[s.got].body)
  BY <1>0, <1>1, <1>3, ReportReads DEF Reads, Scans
<1>4. CASE h = OnMetadata(s)
  <2>1. PICK n : n = Recorded(s)
    OBVIOUS
  <2>2. IsReader(n) /\ n.pos = s.pos /\ n.zin = s.zin /\ n.got = s.got /\ n.eof = s.eof
    BY <1>0, <2>1, RecordedIs
  <2>3. h = Current(n) \/ h = FindCurrentMetadata(n)
    BY <1>4, <2>1, OnMetadataIs
  <2>4. CASE h = Current(n)
    BY <1>1, <2>2, <2>4, CurrentIs
  <2>5. CASE h = FindCurrentMetadata(n)
    <3>1. Looks(n, h)
      BY <2>2, <2>5, FindLooks
    <3>2. QED
      BY <1>1, <2>2, <3>1 DEF Looks
  <2>6. QED
    BY <2>3, <2>4, <2>5
<1>5. CASE h = OnEvent(s)
  <2>1. h = s \/ h = FindCurrentMetadata(s)
    BY <1>5 DEF OnEvent
  <2>2. CASE h = FindCurrentMetadata(s)
    <3>1. Looks(s, h)
      BY <1>0, <2>2, FindLooks
    <3>2. QED
      BY <1>1, <3>1 DEF Looks
  <2>3. QED
    BY <1>0, <1>1, <2>1, <2>2
<1>6. CASE /\ HasId(pfile[s.got], StreamFooterId)
           /\ h = AfterFooter(ProcessFooter(s, pfile[s.got].body))
  <2>1. SUFFICES ASSUME h.status = "ok" PROVE Progress(m, h)
    OBVIOUS
  <2>2. PICK p : p = ProcessFooter(s, pfile[s.got].body)
    OBVIOUS
  <2>3. /\ Scans(s, p) /\ IsReader(p) /\ p.pos = s.pos /\ p.zin = s.zin /\ p.got = s.got
        /\ ~p.eof
    BY <1>0, <2>2, ProcessFooterScans DEF Scans
  <2>4. ~pfile[s.got].z
    BY <1>0, <1>6, SectionCells
  <2>5. s.zin = NoZlib /\ s.pos = s.got
    BY <2>4 DEF Took, At
  <2>6. /\ IsReader(h)
        /\ h.eof => h.unclosed \/ NoEvents(s.got, PyFileEnd)
        /\ ~h.eof => /\ h.pos = s.got + 3 /\ h.pos \in DOMAIN pfile /\ NoEvents(s.got, h.pos)
                     /\ h.got = s.got /\ h.zin = NoZlib
    <3>1. p.zin = NoZlib /\ p.pos = p.got /\ p.got \in DOMAIN pfile
          /\ HasId(pfile[p.got], StreamFooterId)
      BY <1>0, <1>6, <2>3, <2>5
    <3>2. h = AfterFooter(p)
      BY <1>6, <2>2
    <3>3. /\ IsReader(h)
          /\ h.eof => h.unclosed \/ NoEvents(p.got, PyFileEnd)
          /\ ~h.eof => /\ h.pos = p.got + 3 /\ h.pos \in DOMAIN pfile /\ NoEvents(p.got, h.pos)
                       /\ h.got = p.got /\ h.zin = NoZlib
      BY <2>1, <2>3, <3>1, <3>2, AfterFooterIs
    <3>4. QED
      BY <2>3, <3>3
  <2>7. ~IsEvent(pfile[s.got])
    BY <1>6 DEF HasId, IsEvent, IsUserMessage, FixedIds
  <2>8. NoEvents(m, s.got)
    <3>1. NoEvents(m, s.got - 1)
      BY <1>0, PassesNoEvents
    <3>2. \A i \in m + 1 .. s.got : i = s.got \/ i \in m + 1 .. s.got - 1
      BY <1>0
    <3>3. QED
      BY <2>7, <3>1, <3>2 DEF NoEvents
  <2>9. PyFileEnd \in Nat
    BY <2>6 DEF FileRight, PyFileEnd
  <2>10. CASE h.eof
    <3>1. NoEvents(s.got, PyFileEnd) => NoEvents(m, PyFileEnd)
      BY <1>0, <2>8, <2>9, NoEventsTwice
    <3>2. h.eof
      BY <2>9, <2>10
    <3>3. QED
      BY <2>6, <2>10, <3>1, <3>2 DEF Progress
  <2>11. CASE ~h.eof
    <3>1. /\ h.pos = s.got + 3 /\ NoEvents(s.got, h.pos) /\ h.got = s.got /\ h.zin = NoZlib
          /\ ~h.eof /\ h.pos \in Nat
      BY <1>0, <2>6, <2>9, <2>11
    <3>2. NoEvents(m, h.pos)
      BY <1>0, <2>8, <3>1, NoEventsTwice
    <3>3. Placed(h) /\ At(h) = h.pos
      BY <2>6, <3>1 DEF Placed, At, NoZlib
    <3>4. h.got <= At(h)
      BY <1>0, <3>1, <3>3
    <3>5. QED
      BY <1>0, <2>7, <3>1, <3>2, <3>3, <3>4 DEF Progress
  <2>12. QED
    BY <2>10, <2>11
<1>7. QED
  BY <1>0, <1>2, <1>3, <1>4, <1>5, <1>6, HandleCases

LEMMA HandleNextMoves ==
  ASSUME FileRight(pfile), NEW s, Placed(s), s.status = "ok", ~s.eof,
         NEW h, h = HandleNext(s)
  PROVE  h.status = "ok" => Progress(At(s), h)
<1>1. SUFFICES ASSUME h.status = "ok" PROVE Progress(At(s), h)
  OBVIOUS
<1>2. PICK r : r = ReadMessage(s)
  OBVIOUS
<1>3. IsReader(s) /\ At(s) \in Nat
  BY DEF Placed, At
<1>4. /\ Reads(s, r)
      /\ r.status = "ok" => /\ Took(r) /\ r.got > At(s) /\ Passes(At(s), r.got - 1)
                            /\ pfile[r.got].id \notin CompressionIds
  BY <1>2, <1>3, ReadMessageTakes
<1>5. h = IF r.status = "ok" THEN Handle(r) ELSE r
  BY <1>2 DEF HandleNext, Then
<1>6. ~r.eof /\ r.status = "ok" /\ h = Handle(r)
  BY <1>1, <1>4, <1>5 DEF Reads, Scans
<1>7. At(s) < r.got
  BY <1>3, <1>4, <1>6 DEF Took
<1>8. QED
  BY <1>1, <1>3, <1>4, <1>6, <1>7, HandleMoves

\* next() hands out the next event, or stops where there is none, or has said that
\* the file is not closed.
LEMMA NextMessageMoves ==
  ASSUME FileRight(pfile), NEW s, Placed(s), s.status = "ok", ~s.eof,
         NEW r, r = NextMessage(s), r.status = "ok"
  PROVE  /\ Progress(At(s), r)
         /\ ~r.eof => IsEvent(pfile[r.got])
<1>1. PICK read : /\ read[0] = HandleNext(s)
                  /\ \A n \in 1 .. PyFileEnd : read[n] = HandleOnce(read[n - 1])
                  /\ r = read[PyFileEnd]
  BY NextMessageSteps
<1>2. PyFileEnd \in Nat /\ DOMAIN pfile = 1 .. PyFileEnd /\ At(s) \in Nat
  BY DEF FileRight, PyFileEnd, Placed, At
<1> DEFINE Stop(q) == q.eof \/ IsEvent(pfile[q.got])
           Good(q, n) == q.status = "ok" => Progress(At(s), q) /\ (Stop(q) \/ q.got > n)
           right == {n \in 0 .. PyFileEnd : Good(read[n], n)}
<1>3. 0 \in right
  <2>1. ASSUME read[0].status = "ok"
        PROVE  Progress(At(s), read[0]) /\ (Stop(read[0]) \/ read[0].got > 0)
    <3>1. Progress(At(s), read[0])
      BY <1>1, <2>1, HandleNextMoves
    <3>2. read[0].eof \/ read[0].got > 0
      BY <1>2, <3>1 DEF Progress
    <3>3. QED
      BY <3>1, <3>2
  <2>2. Good(read[0], 0)
    BY <2>1
  <2> HIDE DEF Good
  <2>3. QED
    BY <1>2, <2>2
<1>4. ASSUME NEW n \in 0 + 1 .. PyFileEnd, n - 1 \in right PROVE n \in right
  <2>1. n \in 1 .. PyFileEnd /\ n \in 0 .. PyFileEnd /\ n - 1 \in 0 .. PyFileEnd
    BY <1>2
  <2> DEFINE p == read[n - 1]
             q == read[n]
  <2>2. SUFFICES ASSUME q.status = "ok" PROVE Progress(At(s), q) /\ (Stop(q) \/ q.got > n)
    BY <2>1
  <2>3. q = HandleOnce(p)
    BY <1>1, <2>1
  <2>4. p.status = "ok"
    BY <2>2, <2>3 DEF HandleOnce
  <2>5. Progress(At(s), p) /\ (Stop(p) \/ p.got > n - 1)
    BY <1>4, <2>4
  <2> HIDE DEF p, q
  <2>6. CASE Stop(p)
    BY <2>3, <2>5, <2>6 DEF HandleOnce
  <2>7. CASE ~Stop(p)
    <3>1. /\ ~p.eof /\ Placed(p) /\ p.got \in DOMAIN pfile /\ At(s) < p.got
          /\ p.got <= At(p) /\ NoEvents(At(s), At(p)) /\ ~IsEvent(pfile[p.got])
      BY <2>5, <2>7 DEF Progress
    <3>2. q = HandleNext(p)
      BY <2>3, <2>4, <3>1 DEF HandleOnce
    <3>3. Progress(At(p), q)
      BY <2>2, <2>4, <3>1, <3>2, HandleNextMoves
    <3>4. At(p) \in Nat /\ p.got \in Nat
      BY <1>2, <3>1 DEF Placed, At
    <3>5. CASE q.eof
      <4>1. q.unclosed \/ NoEvents(At(p), PyFileEnd)
        BY <3>3, <3>5 DEF Progress
      <4>2. NoEvents(At(p), PyFileEnd) => NoEvents(At(s), PyFileEnd)
        BY <1>2, <3>1, <3>4, NoEventsTwice
      <4>3. QED
        BY <3>5, <4>1, <4>2 DEF Progress
    <3>6. CASE ~q.eof
      <4>1. /\ Placed(q) /\ q.got \in DOMAIN pfile /\ At(p) < q.got /\ q.got <= At(q)
            /\ IF IsEvent(pfile[q.got])
               THEN At(q) = q.got /\ NoEvents(At(p), q.got - 1) /\ ~Misreads(q.got)
               ELSE NoEvents(At(p), At(q))
        BY <3>3, <3>6 DEF Progress
      <4>2. q.got \in Nat /\ At(q) \in Nat /\ q.got - 1 \in Nat
        BY <1>2, <4>1 DEF Placed, At
      <4>3. At(s) < q.got /\ q.got > n
        BY <1>2, <2>1, <2>5, <2>7, <3>1, <3>4, <4>1, <4>2
      <4>4. IF IsEvent(pfile[q.got])
            THEN At(q) = q.got /\ NoEvents(At(s), q.got - 1) /\ ~Misreads(q.got)
            ELSE NoEvents(At(s), At(q))
        BY <1>2, <3>1, <3>4, <4>1, <4>2, NoEventsTwice
      <4>5. QED
        BY <3>6, <4>1, <4>3, <4>4 DEF Progress
    <3>7. QED
      BY <3>3, <3>5, <3>6 DEF Progress
  <2>8. QED
    BY <2>6, <2>7
<1> HIDE DEF right
<1>5. \A n \in 0 .. PyFileEnd : n \in right
  BY <1>2, <1>3, <1>4, NumberByNumber
<1>6. PyFileEnd \in right
  BY <1>2, <1>5
<1>7. Progress(At(s), r) /\ (Stop(r) \/ r.got > PyFileEnd)
  BY <1>1, <1>6 DEF right
<1>8. CASE ~r.eof
  <2>1. r.got \in Nat /\ r.got <= PyFileEnd
    BY <1>2, <1>7, <1>8 DEF Progress
  <2>2. QED
    BY <1>2, <1>7, <1>8, <2>1
<1>9. CASE r.eof
  BY <1>7, <1>9
<1>10. QED
  BY <1>7, <1>8, <1>9 DEF Progress
-----------------------------------------------------------------------------
(* The client                                                               *)

IsIter(i) == i = [mode |-> i.mode, left |-> i.left, next_first |-> i.next_first,
                  first |-> i.first, meta |-> i.meta, group |-> i.group]
IsLog(log) == \E S : log \in Seq(S)
Logged(log) == {log[n].at : n \in DOMAIN log}

\* The event that was read and not handed out yet: the first one of the group the
\* client is in, or of the group it goes to next.
Pending(i) ==
    IF i.group THEN IF i.first = NoEvent THEN {} ELSE {i.first.at}
    ELSE IF i.next_first = NoEvent THEN {} ELSE {i.next_first.at}

\* The client left a group early, and is refused the next one.
Refused(s, i) == i.mode = "groups" /\ ~i.group /\ ~s.metadata_change

\* Every event that was passed was handed out, or is pending.
HandsOut(s, i, log) ==
    \A k \in DOMAIN pfile : IsEvent(pfile[k]) /\ k <= At(s) => k \in Logged(log) \cup Pending(i)

IterRight(i) ==
    /\ IsIter(i) /\ i.mode \in {"none", "new", "events", "groups"}
    /\ i.mode # "groups" => ~i.group /\ i.next_first = NoEvent

\* The object, the iterator and the log, as long as there is more to read
LoopRight(s, i, log) ==
    /\ Placed(s) /\ i.mode # "none"
    /\ i.group => ~s.metadata_change
    /\ Refused(s, i) \/ HandsOut(s, i, log)

ClientRight(s, i, log) ==
    /\ IterRight(i) /\ IsLog(log)
    /\ s.status = "ok" /\ ~s.eof => LoopRight(s, i, log)
    /\ s.status = "ok" /\ s.eof =>
          s.unclosed \/ \A k \in DOMAIN pfile : IsEvent(pfile[k]) => k \in Logged(log)

ReaderRight ==
    IF phase = "write" \/ iter.mode = "none"
    THEN pin = NewPyReader(FALSE) /\ iter = NoIter /\ plog = << >>
    ELSE ClientRight(pin, iter, plog)

LEMMA LogGrows ==
  ASSUME NEW log, IsLog(log), NEW x
  PROVE  IsLog(Append(log, x)) /\ Logged(Append(log, x)) = Logged(log) \cup {x.at}
<1>1. PICK S : log \in Seq(S)
  BY DEF IsLog
<1> DEFINE T == S \cup {x}
           r == Append(log, x)
<1>2. log \in Seq(T) /\ x \in T
  <2>1. \A n \in 1 .. Len(log) : log[n] \in T
    BY <1>1
  <2>2. Len(log) \in Nat /\ DOMAIN log = 1 .. Len(log) /\ log = [n \in 1 .. Len(log) |-> log[n]]
    BY <1>1
  <2> HIDE DEF T
  <2>3. log \in [1 .. Len(log) -> T]
    BY <2>1, <2>2
  <2>4. log \in Seq(T)
    BY <2>2, <2>3, SeqDef
  <2>5. QED
    BY <2>4 DEF T
<1> HIDE DEF T
<1>3. /\ r \in Seq(T) /\ Len(log) \in Nat /\ DOMAIN log = 1 .. Len(log)
      /\ DOMAIN r = 1 .. Len(log) + 1 /\ r[Len(log) + 1] = x
      /\ \A n \in 1 .. Len(log) : r[n] = log[n]
  BY <1>2
<1> HIDE DEF r
<1>4. ASSUME NEW v \in Logged(r) PROVE v \in Logged(log) \cup {x.at}
  <2>1. PICK n \in DOMAIN r : v = r[n].at
    BY DEF Logged
  <2>2. n \in 1 .. Len(log) \/ n = Len(log) + 1
    BY <1>3
  <2>3. QED
    BY <1>3, <2>1, <2>2 DEF Logged
<1>5. ASSUME NEW v \in Logged(log) \cup {x.at} PROVE v \in Logged(r)
  <2>1. CASE v = x.at
    <3>1. Len(log) + 1 \in DOMAIN r
      BY <1>3
    <3>2. QED
      BY <1>3, <2>1, <3>1 DEF Logged
  <2>2. CASE v \in Logged(log)
    <3>1. PICK n \in DOMAIN log : v = log[n].at
      BY <2>2 DEF Logged
    <3>2. n \in DOMAIN r /\ r[n] = log[n]
      BY <1>3
    <3>3. QED
      BY <3>1, <3>2 DEF Logged
  <2>3. QED
    BY <2>1, <2>2
<1>6. IsLog(r)
  BY <1>3 DEF IsLog
<1>7. QED
  BY <1>4, <1>5, <1>6 DEF r

\* The next event, or the end: what is known when next() was called without an event
\* pending
LEMMA CallRight ==
  ASSUME FileRight(pfile), NEW s, Placed(s), s.status = "ok", ~s.eof, NEW log,
         \A k \in DOMAIN pfile : IsEvent(pfile[k]) /\ k <= At(s) => k \in Logged(log),
         NEW r, r = NextMessage(s), r.status = "ok"
  PROVE  /\ r.eof => r.unclosed \/ \A k \in DOMAIN pfile : IsEvent(pfile[k]) => k \in Logged(log)
         /\ ~r.eof => /\ Placed(r) /\ At(r) = r.got /\ r.got \in DOMAIN pfile /\ r.got # None
                      /\ IsEvent(pfile[r.got])
                      /\ \A k \in DOMAIN pfile : IsEvent(pfile[k]) /\ k <= At(r) =>
                            k \in Logged(log) \cup {r.got}
<1>0. /\ At(s) \in Nat /\ PyFileEnd \in Nat /\ DOMAIN pfile = 1 .. PyFileEnd
      /\ \A k \in DOMAIN pfile : k \in Nat
  BY DEF FileRight, PyFileEnd, Placed, At
<1>1. Progress(At(s), r) /\ (~r.eof => IsEvent(pfile[r.got]))
  BY NextMessageMoves
<1>2. ASSUME r.eof
      PROVE  r.unclosed \/ \A k \in DOMAIN pfile : IsEvent(pfile[k]) => k \in Logged(log)
  <2>1. r.unclosed \/ NoEvents(At(s), PyFileEnd)
    BY <1>1, <1>2 DEF Progress
  <2>2. ASSUME NoEvents(At(s), PyFileEnd), NEW k \in DOMAIN pfile, IsEvent(pfile[k])
        PROVE  k \in Logged(log)
    <3>1. k <= At(s) \/ k \in At(s) + 1 .. PyFileEnd
      BY <1>0
    <3>2. QED
      BY <2>2, <3>1 DEF NoEvents
  <2>3. QED
    BY <2>1, <2>2
<1>3. ASSUME ~r.eof
      PROVE  /\ Placed(r) /\ At(r) = r.got /\ r.got \in DOMAIN pfile /\ r.got # None
             /\ IsEvent(pfile[r.got])
             /\ \A k \in DOMAIN pfile : IsEvent(pfile[k]) /\ k <= At(r) =>
                   k \in Logged(log) \cup {r.got}
  <2>1. /\ Placed(r) /\ At(r) = r.got /\ r.got \in DOMAIN pfile /\ NoEvents(At(s), r.got - 1)
        /\ IsEvent(pfile[r.got])
    BY <1>1, <1>3 DEF Progress
  <2>2. r.got \in Nat /\ r.got # None
    BY <1>0, <2>1 DEF None
  <2>3. ASSUME NEW k \in DOMAIN pfile, IsEvent(pfile[k]), k <= At(r)
        PROVE  k \in Logged(log) \cup {r.got}
    <3>1. k <= At(s) \/ k \in At(s) + 1 .. r.got - 1 \/ k = r.got
      BY <1>0, <2>1, <2>2, <2>3
    <3>2. QED
      BY <2>3, <2>1, <3>1 DEF NoEvents
  <2>4. QED
    BY <2>1, <2>2, <2>3
<1>4. QED
  BY <1>2, <1>3

LEMMA ParsedIs ==
  ASSUME NEW s, s.got # None
  PROVE  Parsed(s) # NoEvent /\ Parsed(s).at = s.got
BY DEF Parsed, NoEvent

LEMMA HandedIs ==
  ASSUME NEW e, NEW m
  PROVE  Handed(e, m).at = e.at
BY DEF Handed

LEMMA ConstructRight ==
  ASSUME FileRight(pfile), pin = NewPyReader(FALSE), iter = NoIter, plog = << >>, Construct
  PROVE  ClientRight(pin', iter', plog')
<1>1. PICK split \in Splits :
         LET h == ReadHeader(NewPyReader(split)) IN
         pin' = IF h.status # "ok" THEN h
                ELSE [h EXCEPT !.current_header = h.got, !.metadata_change = TRUE]
  BY DEF Construct
<1>2. PICK s : s = NewPyReader(split)
  OBVIOUS
<1>3. PICK h : h = ReadHeader(s)
  OBVIOUS
<1>4. IsReader(s) /\ s.pos = 0 /\ s.zin = NoZlib /\ s.status = "ok" /\ ~s.eof /\ Placed(s)
  <2>1. IsReader(s) /\ s.pos = 0 /\ s.zin = NoZlib /\ s.status = "ok" /\ ~s.eof
    BY <1>2 DEF NewPyReader, IsReader
  <2>2. QED
    BY <2>1 DEF Placed, NoZlib
<1>5. /\ Sized(s, h) /\ IsReader(h)
      /\ h.status = "ok" =>
            /\ Took(h) /\ h.got = 2 /\ HasId(pfile[h.got], StreamHeaderId)
            /\ pfile[1].kind = "START_MAGIC"
  <2>1. s.pos + 2 = 2 /\ s.pos + 1 = 1
    BY <1>4
  <2>2. QED
    BY <1>3, <1>4, <2>1, ReadHeaderTakes, ReadsAre
<1>6. /\ iter' = [mode |-> "new", left |-> FALSE, next_first |-> NoEvent, first |-> NoEvent,
                  meta |-> None, group |-> FALSE]
      /\ plog' = << >>
  BY DEF Construct, NoIter
<1>7. IterRight(iter') /\ IsLog(plog') /\ iter'.mode = "new"
  <2>1. << >> \in Seq({})
    OBVIOUS
  <2>2. IsLog(plog')
    BY <1>6, <2>1 DEF IsLog
  <2>3. IterRight(iter') /\ iter'.mode = "new"
    BY <1>6 DEF IterRight, IsIter
  <2>4. QED
    BY <2>2, <2>3
<1>8. CASE h.status # "ok"
  <2>1. pin' = h
    BY <1>1, <1>2, <1>3, <1>8
  <2>2. QED
    BY <1>7, <1>8, <2>1 DEF ClientRight
<1>9. CASE h.status = "ok"
  <2>1. pin' = [h EXCEPT !.current_header = h.got, !.metadata_change = TRUE]
    BY <1>1, <1>2, <1>3, <1>9
  <2>2. /\ IsReader(pin') /\ pin'.pos = h.pos /\ pin'.zin = h.zin /\ pin'.got = h.got
        /\ pin'.eof = h.eof
    BY <1>5, <2>1 DEF IsReader
  <2>3. Placed(h) /\ At(h) = 2
    BY <1>5, <1>9 DEF Took
  <2>4. Placed(pin') /\ At(pin') = 2
    BY <2>2, <2>3 DEF Placed, At
  <2>5. ASSUME NEW k \in DOMAIN pfile, IsEvent(pfile[k]), k <= 2 PROVE FALSE
    <3>1. k = 1 \/ k = 2
      BY <2>5, CellIs
    <3>2. QED
      BY <1>5, <1>9, <2>5, <3>1 DEF IsEvent, IsUserMessage, HasId, FixedIds
  <2>6. ~pin'.eof
    BY <1>4, <1>5, <2>2 DEF Sized, Scans
  <2>7. LoopRight(pin', iter', plog')
    <3>1. HandsOut(pin', iter', plog')
      BY <2>4, <2>5 DEF HandsOut
    <3>2. ~iter'.group
      BY <1>6
    <3>3. QED
      BY <1>7, <2>4, <3>1, <3>2 DEF LoopRight
  <2>8. QED
    BY <1>7, <2>6, <2>7 DEF ClientRight
<1>10. QED
  BY <1>8, <1>9

LEMMA NextEventRight ==
  ASSUME FileRight(pfile), ClientRight(pin, iter, plog), NextEvent
  PROVE  ClientRight(pin', iter', plog')
<1>1. PICK r : r = NextMessage(pin)
  OBVIOUS
<1>2. /\ pin.status = "ok" /\ ~pin.eof /\ iter.mode = "events" /\ iter' = iter /\ pin' = r
      /\ plog' = IF r.status = "ok" /\ ~r.eof
                 THEN Append(plog, Handed(Parsed(r), r.current_metadata)) ELSE plog
  BY <1>1 DEF NextEvent, Running
<1>3. /\ IterRight(iter) /\ IsLog(plog) /\ LoopRight(pin, iter, plog)
  BY <1>2 DEF ClientRight
<1>4. ~iter.group /\ iter.next_first = NoEvent /\ Placed(pin)
  BY <1>2, <1>3 DEF IterRight, LoopRight
<1>5. \A k \in DOMAIN pfile : IsEvent(pfile[k]) /\ k <= At(pin) => k \in Logged(plog)
  BY <1>2, <1>3, <1>4 DEF LoopRight, Refused, HandsOut, Pending
<1>6. CASE r.status # "ok"
  BY <1>2, <1>3, <1>6 DEF ClientRight
<1>7. CASE r.status = "ok" /\ r.eof
  BY <1>1, <1>2, <1>3, <1>4, <1>5, <1>7, CallRight DEF ClientRight
<1>8. CASE r.status = "ok" /\ ~r.eof
  <2>1. /\ Placed(r) /\ At(r) = r.got /\ r.got # None
        /\ \A k \in DOMAIN pfile : IsEvent(pfile[k]) /\ k <= At(r) =>
              k \in Logged(plog) \cup {r.got}
    BY <1>1, <1>2, <1>4, <1>5, <1>8, CallRight
  <2>2. IsLog(plog') /\ Logged(plog') = Logged(plog) \cup {r.got}
    <3>1. PICK x : x = Handed(Parsed(r), r.current_metadata)
      OBVIOUS
    <3>2. x.at = r.got
      BY <2>1, <3>1, ParsedIs, HandedIs
    <3>3. plog' = Append(plog, x)
      BY <1>2, <1>8, <3>1
    <3>4. QED
      BY <1>3, <3>2, <3>3, LogGrows
  <2>3. LoopRight(pin', iter', plog')
    BY <1>2, <1>3, <1>4, <2>1, <2>2 DEF LoopRight, HandsOut
  <2>4. QED
    BY <1>2, <1>3, <1>8, <2>2, <2>3 DEF ClientRight
<1>9. QED
  BY <1>6, <1>7, <1>8

LEMMA NextGroupRight ==
  ASSUME FileRight(pfile), ClientRight(pin, iter, plog), NextGroup
  PROVE  ClientRight(pin', iter', plog')
<1>1. /\ pin.status = "ok" /\ ~pin.eof /\ iter.mode = "groups" /\ ~iter.group /\ plog' = plog
      /\ IterRight(iter) /\ IsLog(plog) /\ LoopRight(pin, iter, plog) /\ IsIter(iter)
      /\ Placed(pin) /\ IsReader(pin)
  BY DEF NextGroup, Running, ClientRight, IterRight, LoopRight, Placed
<1>2. CASE ~pin.metadata_change
  <2>1. pin' = Fail(pin, "AssertionError") /\ iter' = iter
    BY <1>2 DEF NextGroup
  <2>2. pin'.status = "AssertionError"
    BY <1>1, <2>1, FailReads
  <2>3. QED
    BY <1>1, <2>1, <2>2 DEF ClientRight
<1>3. CASE pin.metadata_change
  <2>1. PICK r, first :
           /\ r = IF iter.next_first = NoEvent THEN NextMessage(pin) ELSE pin
           /\ first = IF iter.next_first = NoEvent THEN Parsed(r) ELSE iter.next_first
    OBVIOUS
  <2>2. IF r.status # "ok" \/ r.eof THEN pin' = r /\ iter' = iter
        ELSE /\ pin' = [r EXCEPT !.metadata_change = FALSE]
             /\ iter' = [iter EXCEPT !.next_first = first, !.first = first,
                                     !.meta = r.current_metadata, !.group = TRUE]
    BY <1>3, <2>1 DEF NextGroup
  <2>3. \A k \in DOMAIN pfile : IsEvent(pfile[k]) /\ k <= At(pin) =>
           k \in Logged(plog) \cup Pending(iter)
    BY <1>1, <1>3 DEF LoopRight, Refused, HandsOut
  <2>4. CASE r.status # "ok"
    BY <1>1, <2>2, <2>4 DEF ClientRight
  <2>5. CASE r.status = "ok" /\ r.eof
    <3>1. iter.next_first = NoEvent /\ r = NextMessage(pin)
      BY <1>1, <2>1, <2>5
    <3>2. \A k \in DOMAIN pfile : IsEvent(pfile[k]) /\ k <= At(pin) => k \in Logged(plog)
      BY <1>1, <2>3, <3>1 DEF Pending
    <3>3. r.unclosed \/ \A k \in DOMAIN pfile : IsEvent(pfile[k]) => k \in Logged(plog)
      BY <1>1, <2>5, <3>1, <3>2, CallRight
    <3>4. QED
      BY <1>1, <2>2, <2>5, <3>3 DEF ClientRight
  <2>6. CASE r.status = "ok" /\ ~r.eof
    <3>1. /\ Placed(r) /\ first # NoEvent
          /\ \A k \in DOMAIN pfile : IsEvent(pfile[k]) /\ k <= At(r) =>
                k \in Logged(plog) \cup {first.at}
      <4>1. CASE iter.next_first = NoEvent
        <5>1. r = NextMessage(pin) /\ first = Parsed(r)
          BY <2>1, <4>1
        <5>2. \A k \in DOMAIN pfile : IsEvent(pfile[k]) /\ k <= At(pin) => k \in Logged(plog)
          BY <1>1, <2>3, <4>1 DEF Pending
        <5>3. /\ Placed(r) /\ r.got # None
              /\ \A k \in DOMAIN pfile : IsEvent(pfile[k]) /\ k <= At(r) =>
                    k \in Logged(plog) \cup {r.got}
          BY <1>1, <2>6, <5>1, <5>2, CallRight
        <5>4. QED
          BY <5>1, <5>3, ParsedIs
      <4>2. CASE iter.next_first # NoEvent
        <5>1. r = pin /\ first = iter.next_first
          BY <2>1, <4>2
        <5>2. QED
          BY <1>1, <2>3, <4>2, <5>1 DEF Pending
      <4>3. QED
        BY <4>1, <4>2
    <3>2. /\ IsReader(pin') /\ pin'.pos = r.pos /\ pin'.zin = r.zin /\ ~pin'.metadata_change
          /\ pin'.eof = r.eof /\ pin'.status = r.status
      <4>1. IsReader(r) /\ pin' = [r EXCEPT !.metadata_change = FALSE]
        BY <2>2, <2>6, <3>1 DEF Placed
      <4>2. QED
        BY <4>1 DEF IsReader
    <3>3. Placed(pin') /\ At(pin') = At(r)
      BY <3>1, <3>2 DEF Placed, At
    <3>4. IsIter(iter') /\ iter'.mode = "groups" /\ iter'.group /\ iter'.first = first
      <4>1. iter' = [iter EXCEPT !.next_first = first, !.first = first,
                                 !.meta = r.current_metadata, !.group = TRUE]
        BY <2>2, <2>6
      <4>2. QED
        BY <1>1, <4>1 DEF IsIter
    <3>5. IterRight(iter')
      BY <3>4 DEF IterRight
    <3>6. HandsOut(pin', iter', plog')
      BY <1>1, <3>1, <3>3, <3>4 DEF HandsOut, Pending
    <3>7. LoopRight(pin', iter', plog')
      BY <3>2, <3>3, <3>4, <3>6 DEF LoopRight
    <3>8. ~pin'.eof
      BY <2>6, <3>2
    <3>9. QED
      BY <1>1, <3>5, <3>7, <3>8 DEF ClientRight
  <2>7. QED
    BY <2>4, <2>5, <2>6
<1>4. QED
  BY <1>2, <1>3

LEMMA NextInGroupRight ==
  ASSUME FileRight(pfile), ClientRight(pin, iter, plog), NextInGroup
  PROVE  ClientRight(pin', iter', plog')
<1>1. /\ pin.status = "ok" /\ ~pin.eof /\ iter.mode = "groups" /\ iter.group
      /\ IterRight(iter) /\ IsLog(plog) /\ LoopRight(pin, iter, plog) /\ IsIter(iter)
      /\ Placed(pin) /\ ~pin.metadata_change
  BY DEF NextInGroup, Running, ClientRight, IterRight, LoopRight
<1>2. \A k \in DOMAIN pfile : IsEvent(pfile[k]) /\ k <= At(pin) =>
         k \in Logged(plog) \cup Pending(iter)
  BY <1>1 DEF LoopRight, Refused, HandsOut
<1>3. CASE iter.first # NoEvent
  <2>1. /\ plog' = Append(plog, Handed(iter.first, iter.meta))
        /\ iter' = [iter EXCEPT !.first = NoEvent] /\ pin' = pin
    BY <1>3 DEF NextInGroup
  <2>2. IsLog(plog') /\ Logged(plog') = Logged(plog) \cup {iter.first.at}
    <3>1. PICK x : x = Handed(iter.first, iter.meta)
      OBVIOUS
    <3>2. x.at = iter.first.at
      BY <3>1, HandedIs
    <3>3. plog' = Append(plog, x)
      BY <2>1, <3>1
    <3>4. QED
      BY <1>1, <3>2, <3>3, LogGrows
  <2>3. /\ IsIter(iter') /\ iter'.mode = "groups" /\ iter'.group /\ iter'.first = NoEvent
    BY <1>1, <2>1 DEF IsIter
  <2>4. IterRight(iter')
    BY <2>3 DEF IterRight
  <2>5. HandsOut(pin, iter', plog')
    BY <1>1, <1>2, <1>3, <2>2, <2>3 DEF HandsOut, Pending
  <2>6. LoopRight(pin, iter', plog')
    BY <1>1, <2>3, <2>5 DEF LoopRight
  <2>7. QED
    BY <1>1, <2>1, <2>2, <2>4, <2>6 DEF ClientRight
<1>4. CASE iter.first = NoEvent
  <2>1. PICK r : r = NextMessage(pin)
    OBVIOUS
  <2>2. /\ pin' = r
        /\ \/ /\ r.status # "ok" \/ r.eof
              /\ iter' = [iter EXCEPT !.group = FALSE] /\ plog' = plog
           \/ /\ r.status = "ok" /\ ~r.eof /\ r.metadata_change
              /\ iter' = [iter EXCEPT !.group = FALSE, !.next_first = Parsed(r)]
              /\ plog' = plog
           \/ /\ r.status = "ok" /\ ~r.eof /\ ~r.metadata_change
              /\ plog' = Append(plog, Handed(Parsed(r), iter.meta)) /\ iter' = iter
    <3>1. /\ pin' = r
          /\ IF r.status # "ok" \/ r.eof
             THEN iter' = [iter EXCEPT !.group = FALSE] /\ UNCHANGED plog
             ELSE IF r.metadata_change
             THEN /\ iter' = [iter EXCEPT !.group = FALSE, !.next_first = Parsed(r)]
                  /\ UNCHANGED plog
             ELSE plog' = Append(plog, Handed(Parsed(r), iter.meta)) /\ UNCHANGED iter
      BY <1>4, <2>1 DEF NextInGroup
    <3>2. CASE r.status # "ok" \/ r.eof
      BY <3>1, <3>2
    <3>3. CASE r.status = "ok" /\ ~r.eof /\ r.metadata_change
      BY <3>1, <3>3
    <3>4. CASE r.status = "ok" /\ ~r.eof /\ ~r.metadata_change
      BY <3>1, <3>4
    <3>5. QED
      BY <3>1, <3>2, <3>3, <3>4
  <2>3. \A k \in DOMAIN pfile : IsEvent(pfile[k]) /\ k <= At(pin) => k \in Logged(plog)
    BY <1>1, <1>2, <1>4 DEF Pending
  <2>4. CASE r.status # "ok" \/ r.eof
    <3>1. iter' = [iter EXCEPT !.group = FALSE] /\ plog' = plog /\ pin' = r
      BY <2>2, <2>4
    <3>2. IsIter(iter') /\ iter'.mode = "groups"
      BY <1>1, <3>1 DEF IsIter
    <3>3. IterRight(iter')
      BY <3>2 DEF IterRight
    <3>4. r.status = "ok" =>
             r.unclosed \/ \A k \in DOMAIN pfile : IsEvent(pfile[k]) => k \in Logged(plog)
      BY <1>1, <2>1, <2>3, <2>4, CallRight
    <3>5. QED
      BY <1>1, <2>4, <3>1, <3>3, <3>4 DEF ClientRight
  <2>5. CASE r.status = "ok" /\ ~r.eof
    <3>1. /\ Placed(r) /\ At(r) = r.got /\ r.got # None
          /\ \A k \in DOMAIN pfile : IsEvent(pfile[k]) /\ k <= At(r) =>
                k \in Logged(plog) \cup {r.got}
      BY <1>1, <2>1, <2>3, <2>5, CallRight
    <3>2. CASE r.metadata_change
      <4>1. iter' = [iter EXCEPT !.group = FALSE, !.next_first = Parsed(r)] /\ plog' = plog
        BY <2>2, <2>5, <3>2
      <4>2. /\ IsIter(iter') /\ iter'.mode = "groups" /\ ~iter'.group
            /\ iter'.next_first = Parsed(r)
        BY <1>1, <4>1 DEF IsIter
      <4>3. Pending(iter') = {r.got}
        BY <3>1, <4>2, ParsedIs DEF Pending
      <4>4. IterRight(iter') /\ HandsOut(r, iter', plog')
        BY <3>1, <4>1, <4>2, <4>3 DEF IterRight, HandsOut
      <4>5. LoopRight(r, iter', plog')
        BY <3>1, <4>2, <4>4 DEF LoopRight
      <4>6. QED
        BY <1>1, <2>2, <2>5, <4>1, <4>4, <4>5 DEF ClientRight
    <3>3. CASE ~r.metadata_change
      <4>1. plog' = Append(plog, Handed(Parsed(r), iter.meta)) /\ iter' = iter
        BY <2>2, <2>5, <3>3
      <4>2. IsLog(plog') /\ Logged(plog') = Logged(plog) \cup {r.got}
        <5>1. PICK x : x = Handed(Parsed(r), iter.meta)
          OBVIOUS
        <5>2. x.at = r.got
          BY <3>1, <5>1, ParsedIs, HandedIs
        <5>3. QED
          BY <1>1, <4>1, <5>1, <5>2, LogGrows
      <4>3. HandsOut(r, iter', plog')
        BY <3>1, <4>1, <4>2 DEF HandsOut
      <4>4. LoopRight(r, iter', plog')
        BY <1>1, <3>1, <3>3, <4>1, <4>3 DEF LoopRight
      <4>5. QED
        BY <1>1, <2>2, <2>5, <4>1, <4>2, <4>4 DEF ClientRight
    <3>4. QED
      BY <3>2, <3>3
  <2>6. QED
    BY <2>4, <2>5
<1>5. QED
  BY <1>3, <1>4

LEMMA InfoRight ==
  ASSUME FileRight(pfile), ClientRight(pin, iter, plog), Info
  PROVE  ClientRight(pin', iter', plog')
<1>1. /\ pin.status = "ok" /\ ~pin.eof /\ iter' = iter /\ plog' = plog
      /\ IterRight(iter) /\ IsLog(plog) /\ LoopRight(pin, iter, plog)
      /\ Placed(pin) /\ IsReader(pin)
  BY DEF Info, Running, ClientRight, LoopRight, Placed
<1>2. PICK r : r = ReadAllMetaInfo(pin)
  OBVIOUS
<1>3. pin' = IF r.status = "ok" /\ DOMAIN r.headers = {} THEN Fail(r, "IndexError") ELSE r
  BY <1>2 DEF Info
<1>4. /\ Scans(pin, r) /\ IsReader(r)
      /\ r.status = "ok" => r.pos = pin.pos /\ r.zin = pin.zin /\ r.got = pin.got
  BY <1>1, <1>2, ReadAllScans, ReadsAre
<1>5. CASE pin'.status # "ok"
  BY <1>1, <1>5 DEF ClientRight
<1>6. CASE pin'.status = "ok"
  <2>1. pin' = r
    BY <1>3, <1>4, <1>6, FailReads
  <2>2. Placed(r) /\ At(r) = At(pin)
    BY <1>1, <1>4, <1>6, <2>1 DEF Placed, At
  <2>3. ~r.eof /\ r.metadata_change = pin.metadata_change
    BY <1>1, <1>4 DEF Scans
  <2>4. LoopRight(r, iter, plog)
    BY <1>1, <2>2, <2>3 DEF LoopRight, Refused, HandsOut
  <2>5. QED
    BY <1>1, <2>1, <2>3, <2>4 DEF ClientRight
<1>7. QED
  BY <1>5, <1>6

LEMMA BeginLoopRight ==
  ASSUME ClientRight(pin, iter, plog), BeginLoop
  PROVE  ClientRight(pin', iter', plog')
<1>1. /\ pin.status = "ok" /\ ~pin.eof /\ plog' = plog /\ pin' = pin /\ iter.mode = "new"
      /\ IterRight(iter) /\ IsLog(plog) /\ LoopRight(pin, iter, plog)
  BY DEF BeginLoop, Running, ClientRight
<1>2. PICK mode \in {"events", "groups"} : iter' = [iter EXCEPT !.mode = mode]
  BY DEF BeginLoop
<1>3. IsIter(iter) /\ ~iter.group /\ iter.next_first = NoEvent
  BY <1>1 DEF IterRight
<1>4. /\ IsIter(iter') /\ iter'.mode = mode /\ ~iter'.group /\ iter'.next_first = NoEvent
  BY <1>2, <1>3 DEF IsIter
<1>5. Pending(iter) = {} /\ Pending(iter') = {}
  BY <1>3, <1>4 DEF Pending
<1>6. LoopRight(pin, iter', plog)
  BY <1>1, <1>3, <1>4, <1>5 DEF LoopRight, Refused, HandsOut
<1>7. QED
  BY <1>1, <1>4, <1>6 DEF ClientRight, IterRight

LEMMA LeaveGroupRight ==
  ASSUME ClientRight(pin, iter, plog), LeaveGroup
  PROVE  ClientRight(pin', iter', plog')
<1>1. /\ pin.status = "ok" /\ ~pin.eof /\ plog' = plog /\ pin' = pin /\ iter.group
      /\ IterRight(iter) /\ IsLog(plog) /\ LoopRight(pin, iter, plog)
      /\ iter' = [iter EXCEPT !.group = FALSE, !.left = TRUE] /\ IsIter(iter)
      /\ iter.mode = "groups"
  BY DEF LeaveGroup, Running, ClientRight, IterRight
<1>2. IsIter(iter') /\ iter'.mode = "groups" /\ ~iter'.group
  BY <1>1 DEF IsIter
<1>3. Refused(pin, iter')
  BY <1>1, <1>2 DEF LoopRight, Refused
<1>4. QED
  BY <1>1, <1>2, <1>3 DEF ClientRight, LoopRight, IterRight
-----------------------------------------------------------------------------
(* Every step keeps it                                                      *)

LEMMA ReaderInit == Init => ReaderRight
BY DEF Init, ReaderRight

\* What is known of the object, the iterator and the log does not name the variables,
\* but the file: as long as that stays, it may be said of the next state.
LEMMA ClientStays ==
  ASSUME pfile' = pfile, ClientRight(pin', iter', plog')
  PROVE  ClientRight(pin, iter, plog)'
BY DEF ClientRight, IterRight, IsIter, IsLog, LoopRight, Refused, HandsOut, Pending, Logged,
       Placed, InSection, At, IsReader, PyFileEnd

LEMMA ReaderReads ==
  ASSUME WrittenRight, ReaderRight, phase = "read",
         \/ iter.mode = "none" /\ Construct
         \/ BeginLoop \/ NextEvent \/ NextGroup \/ NextInGroup
         \/ Info
         \/ LeaveGroup
  PROVE  pfile' = pfile /\ ClientRight(pin', iter', plog') /\ iter'.mode # "none"
<1>1. FileRight(pfile)
  BY DEF WrittenRight
<1>2. CASE iter.mode = "none" /\ Construct
  <2>1. pin = NewPyReader(FALSE) /\ iter = NoIter /\ plog = << >>
    BY <1>2 DEF ReaderRight
  <2>2. ClientRight(pin', iter', plog')
    BY <1>1, <1>2, <2>1, ConstructRight
  <2>3. pfile' = pfile /\ iter'.mode = "new"
    BY <1>2, <2>1 DEF Construct, NoIter
  <2>4. QED
    BY <2>2, <2>3
<1>3. CASE BeginLoop \/ NextEvent \/ NextGroup \/ NextInGroup \/ Info \/ LeaveGroup
  <2>1. iter.mode # "none"
    <3>1. CASE LeaveGroup
      <4>1. iter.group
        BY <3>1 DEF LeaveGroup
      <4>2. ASSUME iter.mode = "none" PROVE FALSE
        <5>1. iter = NoIter
          BY <4>2 DEF ReaderRight
        <5>2. ~NoIter.group
          BY DEF NoIter
        <5>3. QED
          BY <4>1, <5>1, <5>2
      <4>3. QED
        BY <4>2
    <3>2. CASE ~LeaveGroup
      BY <1>3, <3>2 DEF BeginLoop, NextEvent, NextGroup, NextInGroup, Info
    <3>3. QED
      BY <3>1, <3>2
  <2>2. ClientRight(pin, iter, plog)
    BY <2>1 DEF ReaderRight
  <2>3. IsIter(iter)
    BY <2>2 DEF ClientRight, IterRight
  <2>4. CASE BeginLoop
    BY <2>2, <2>3, <2>4, BeginLoopRight DEF BeginLoop, IsIter
  <2>5. CASE NextEvent
    BY <1>1, <2>1, <2>2, <2>5, NextEventRight DEF NextEvent
  <2>6. CASE NextGroup
    <3>1. ClientRight(pin', iter', plog')
      BY <1>1, <2>2, <2>6, NextGroupRight
    <3>2. pfile' = pfile /\ iter'.mode = "groups"
      BY <2>3, <2>6 DEF NextGroup, IsIter
    <3>3. QED
      BY <3>1, <3>2
  <2>7. CASE NextInGroup
    <3>1. ClientRight(pin', iter', plog')
      BY <1>1, <2>2, <2>7, NextInGroupRight
    <3>2. pfile' = pfile /\ iter'.mode = "groups"
      BY <2>3, <2>7 DEF NextInGroup, IsIter
    <3>3. QED
      BY <3>1, <3>2
  <2>8. CASE Info
    BY <1>1, <2>1, <2>2, <2>8, InfoRight DEF Info
  <2>9. CASE LeaveGroup
    BY <2>1, <2>2, <2>3, <2>9, LeaveGroupRight DEF LeaveGroup, IsIter
  <2>10. QED
    BY <1>3, <2>4, <2>5, <2>6, <2>7, <2>8, <2>9
<1>4. QED
  BY <1>2, <1>3

LEMMA ReaderNext ==
  ASSUME WrittenRight, ReaderRight, [Next]_vars
  PROVE  ReaderRight'
<1>1. CASE UNCHANGED vars
  BY <1>1 DEF vars, ReaderRight, ClientRight, IterRight, IsIter, IsLog, LoopRight, Refused,
              HandsOut, Pending, Logged, Placed, InSection, At, IsReader, PyFileEnd
<1>2. CASE WriterStep \/ AppendStream \/ Crash
  <2>1. phase = "write" /\ pin' = pin /\ iter' = iter /\ plog' = plog
    BY <1>2 DEF WriterStep, AppendStream, Crash, reader
  <2>2. pin = NewPyReader(FALSE) /\ iter = NoIter /\ plog = << >>
    BY <2>1 DEF ReaderRight
  <2>3. iter'.mode = "none"
    BY <2>1, <2>2 DEF NoIter
  <2>4. QED
    BY <2>1, <2>2, <2>3 DEF ReaderRight, NewPyReader, NoIter, NoZlib, NewPool, NoEvent
<1>3. CASE \/ Read(iter.mode = "none" /\ Construct)
           \/ ReadOn
           \/ Read(ScanAllowed /\ (Clash /\ ~LateScan => iter.mode = "new") /\ Info)
           \/ Read(LeaveGroup)
  <2>1. phase = "read" /\ phase' = phase
    BY <1>3 DEF Read, ReadOn
  <2>2. \/ iter.mode = "none" /\ Construct
        \/ BeginLoop \/ NextEvent \/ NextGroup \/ NextInGroup
        \/ Info
        \/ LeaveGroup
    BY <1>3 DEF Read, ReadOn
  <2>3. pfile' = pfile /\ ClientRight(pin', iter', plog') /\ iter'.mode # "none"
    BY <2>1, <2>2, ReaderReads
  <2>4. ClientRight(pin, iter, plog)'
    BY <2>3, ClientStays
  <2>5. QED
    BY <2>1, <2>3, <2>4 DEF ReaderRight
<1>4. QED
  BY <1>1, <1>2, <1>3 DEF Next

LEMMA LeavesNothingOut ==
  ASSUME ReaderRight
  PROVE  PyNoEventLeftOut
<1>1. CASE phase = "write" \/ iter.mode = "none"
  BY <1>1 DEF ReaderRight, NewPyReader, PyNoEventLeftOut
<1>2. CASE ~(phase = "write" \/ iter.mode = "none")
  <2>1. ClientRight(pin, iter, plog)
    BY <1>2 DEF ReaderRight
  <2>2. QED
    BY <2>1 DEF ClientRight, PyNoEventLeftOut, AllDelivered, Logged
<1>3. QED
  BY <1>1, <1>2

\* class InputStream of stream.py, of every file that Python writers left, also one
\* that was cut: the object stands behind a message (next, read_all_meta_info), what
\* a loop holds back is the one event itermetadata() keeps for the next group, and
\* every event in front of that place was handed out.
THEOREM ReaderAlways ==
  ASSUME ~SharedIds
  PROVE  Spec => []ReaderRight
<1>1. Init => ReaderRight
  BY ReaderInit
<1>2. WrittenRight /\ ReaderRight /\ [Next]_vars => ReaderRight'
  BY ReaderNext
<1>3. Spec => []WrittenRight
  BY WrittenAlways
<1>4. QED
  BY <1>1, <1>2, <1>3, PTL DEF Spec

\* A loop of InputStream.next() or itermetadata() that ends normally has handed out
\* every event of the file, or next() has said that the file is not closed: for
\* every number of streams and messages, a crash of any writer, a scan of the
\* footers at any time, and any classes that the ids of the writer allow.
THEOREM NoEventLeftOutAlways ==
  ASSUME ~SharedIds
  PROVE  Spec => []PyNoEventLeftOut
BY ReaderAlways, LeavesNothingOut, PTL

-----------------------------------------------------------------------------
(* What a scan of the footers finds in a file that is whole                 *)

\* The dicts lead from the place of a message to the message.
Keyed(s) ==
    /\ \A k \in DOMAIN s.headers : k \in Nat /\ s.headers[k] = k + 1 /\ k + 1 \in HeaderCells
    /\ \A k \in DOMAIN s.metadata :
           s.metadata[k] \in MetadataCells /\ k = Place(pfile, s.metadata[k])

\* What is read at the place of a message is that message.
LEMMA ReadAtPlace ==
  ASSUME FileRight(pfile), NEW s, IsReader(s), NEW i \in Leading,
         NEW r, r = ReadAt(s, Place(pfile, i)), r.status = "ok"
  PROVE  Reads(s, r) /\ r.got = i /\ Took(r) /\ r.closed = s.closed /\ s.status = "ok"
<1>1. /\ i \in Nat /\ i >= 1 /\ i \in DOMAIN pfile /\ Leads(pfile, i)
      /\ pfile[i].z => i >= 2 /\ i - 1 \in DOMAIN pfile
      /\ IsMessage(pfile[i]) /\ pfile[i].id \notin CompressionIds
  BY LeadingIs
<1>2. Place(pfile, i) \in Nat
  BY <1>1 DEF Place
<1>3. /\ Reads(s, r) /\ Took(r) /\ r.got > Place(pfile, i)
      /\ Passes(Place(pfile, i), r.got - 1) /\ s.status = "ok"
      /\ pfile[r.got].id \notin CompressionIds /\ r.closed = s.closed
  BY <1>2, ReadAtReads
<1>4. r.got \in DOMAIN pfile /\ r.got \in Nat
  BY <1>3 DEF Took, FileRight
<1>5. ~Passing(pfile[i])
  BY <1>1 DEF Passing, IsMessage
<1>6. r.got <= i
  <2>1. SUFFICES ASSUME r.got > i PROVE FALSE
    BY <1>1, <1>4
  <2>2. i \in Place(pfile, i) + 1 .. r.got - 1
    BY <1>1, <1>4, <2>1 DEF Place
  <2>3. QED
    BY <1>3, <1>5, <2>2 DEF Passes
<1>7. CASE ~pfile[i].z
  <2>1. r.got > i - 1
    BY <1>3, <1>7 DEF Place
  <2>2. QED
    BY <1>1, <1>3, <1>4, <1>6, <2>1
<1>8. CASE pfile[i].z
  <2>1. r.got > i - 2
    BY <1>3, <1>8 DEF Place
  <2>2. pfile[i - 1].id \in CompressionIds
    BY <1>1, <1>8 DEF Leads, HasId, CompressionIds
  <2>3. r.got # i - 1
    BY <1>3, <2>2
  <2>4. r.got = i
    BY <1>1, <1>4, <1>6, <2>1, <2>3
  <2>5. QED
    BY <1>3, <2>4
<1>9. QED
  BY <1>7, <1>8

\* What a scan has written down besides the metadata
Booked(s, r) ==
    /\ r.size = s.size /\ r.headers = s.headers /\ r.footers = s.footers
    /\ r.all_meta = s.all_meta

LEMMA ReadsBooks ==
  ASSUME NEW s, NEW r, Reads(s, r)
  PROVE  IsReader(r) /\ Booked(s, r) /\ r.metadata = s.metadata
BY DEF Reads, Scans, Booked

Entered(s, place) == [s EXCEPT !.metadata = With(@, place, s.got)]
LEMMA EnteredIs ==
  ASSUME NEW s, IsReader(s), NEW place, NEW r, r = Entered(s, place)
  PROVE  /\ IsReader(r) /\ Booked(s, r) /\ r.metadata = With(s.metadata, place, s.got)
         /\ r.status = s.status
BY DEF IsReader, Booked, Entered

\* An entry at its place keeps the dict right.
LEMMA EntryKeyed ==
  ASSUME NEW s, NEW r, NEW i \in MetadataCells, Keyed(s), r.headers = s.headers,
         r.metadata = With(s.metadata, Place(pfile, i), i)
  PROVE  /\ Keyed(r) /\ DOMAIN s.metadata \subseteq DOMAIN r.metadata
         /\ Place(pfile, i) \in DOMAIN r.metadata
<1>1. DOMAIN r.metadata = DOMAIN s.metadata \cup {Place(pfile, i)}
  BY DEF With
<1>2. ASSUME NEW k \in DOMAIN r.metadata
      PROVE  r.metadata[k] \in MetadataCells /\ k = Place(pfile, r.metadata[k])
  <2>1. r.metadata[k] = IF k = Place(pfile, i) THEN i ELSE s.metadata[k]
    BY <1>1, <1>2 DEF With
  <2>2. QED
    BY <1>1, <1>2, <2>1 DEF Keyed
<1>3. QED
  BY <1>1, <1>2 DEF Keyed

LEMMA ReadMetadataAtFinds ==
  ASSUME FileRight(pfile), NEW s, IsReader(s), NEW i \in MetadataCells,
         NEW r, r = ReadMetadataAt(s, Place(pfile, i)), r.status = "ok"
  PROVE  /\ s.status = "ok" /\ IsReader(r) /\ Booked(s, r)
         /\ Keyed(s) => /\ Keyed(r) /\ DOMAIN s.metadata \subseteq DOMAIN r.metadata
                        /\ Place(pfile, i) \in DOMAIN r.metadata
<1> DEFINE a == ReadAt(s, Place(pfile, i))
           b == Entered(a, Place(pfile, i))
           d == DropCompression(b)
           e == Fail(a, "AssertionError")
<1>1. r = IF a.status # "ok" THEN a ELSE IF ~IsMetadataId(pfile[a.got].id) THEN e ELSE d
  BY DEF ReadMetadataAt, Then, Entered
<1>2. Reads(s, a) /\ IsReader(a)
  BY ReadAtReads DEF Reads, Scans
<1>3. e.status = "AssertionError"
  BY <1>2, FailReads
<1>4. a.status = "ok" /\ r = d
  BY <1>1, <1>3
<1>5. a.got = i /\ s.status = "ok"
  BY <1>4, ReadAtPlace, MetadataLead
<1> HIDE DEF a
<1>6. /\ IsReader(b) /\ Booked(a, b) /\ b.metadata = With(a.metadata, Place(pfile, i), i)
  BY <1>2, <1>5, EnteredIs
<1> HIDE DEF b
<1>7. Reads(b, d)
  BY <1>6, DropReads
<1> HIDE DEF d
<1>8. /\ Booked(s, a) /\ a.metadata = s.metadata
      /\ IsReader(d) /\ Booked(b, d) /\ d.metadata = b.metadata
  BY <1>2, <1>7, ReadsBooks
<1>9. Booked(s, d) /\ d.headers = s.headers /\ d.metadata = With(s.metadata, Place(pfile, i), i)
  BY <1>6, <1>8 DEF Booked
<1>10. QED
  BY <1>4, <1>5, <1>8, <1>9, EntryKeyed

LEMMA PlacesFound ==
  ASSUME FileRight(pfile), NEW f, IsReader(f), NEW b \in Nat, f.got \in DOMAIN pfile,
         SummaryRight(pfile, b, f.got), NEW start, start = f.got - 1,
         NEW p, p = ProcessFooter(f, pfile[f.got].body), Keyed(p),
         NEW r, r = ReadPlaces(f, start), r.status = "ok"
  PROVE  /\ IsReader(r) /\ Booked(p, r) /\ Keyed(r)
         /\ DOMAIN p.metadata \subseteq DOMAIN r.metadata
         /\ \A j \in Applying(pfile, b, f.got) : Place(pfile, j) \in DOMAIN r.metadata
<1> DEFINE ps == Definitions(f)
           ms == Metadata(f)
           c == start - pfile[f.got].body.size
<1>1. /\ ms = pfile[f.got].body.metadata_offsets /\ Len(ps) \in Nat /\ Len(ms) \in Nat
  BY FooterLists
<1>2. /\ f.got \in Nat /\ pfile[f.got].body.size = f.got - 1 - b
      /\ Lists(ms, pfile, b, Applying(pfile, b, f.got))
      /\ ms \in Seq(Nat)
  BY <1>1, CellIs DEF SummaryRight
<1>3. c = b
  BY <1>2
<1>4. PICK reported, read : PlacesRead(f, c, reported, read, r)
  BY <1>1, ReadPlacesSteps
<1>5. /\ reported[0] = p
      /\ \A n \in 1 .. Len(ps) : reported[n] = ReadProtoClassAt(reported[n - 1], b + ps[n])
      /\ read[0] = reported[Len(ps)]
      /\ \A n \in 1 .. Len(ms) : read[n] = ReadMetadataAt(read[n - 1], b + ms[n])
      /\ r = read[Len(ms)]
  BY <1>3, <1>4 DEF PlacesRead
<1>6. IsReader(p)
  BY ProcessFooterScans, ReadsAre
<1>7. ASSUME NEW n \in 1 .. Len(ms)
      PROVE  \E j \in MetadataCells : b + ms[n] = Place(pfile, j)
  <2>1. ms[n] \in ToSet(ms) /\ ms[n] \in Nat
    BY <1>2, <1>7 DEF ToSet
  <2>2. PICK j \in Applying(pfile, b, f.got) : ms[n] = Place(pfile, j) - b
    BY <1>2, <2>1 DEF Lists
  <2>3. j \in MetadataCells
    BY <1>2, CellIs DEF Applying, MetadataCells, FileRight
  <2>4. j \in Nat
    BY <2>3, MetadataLead, LeadingIs
  <2>5. Place(pfile, j) \in Int
    BY <2>4 DEF Place
  <2>6. QED
    BY <2>2, <2>3, <2>5
<1>8. ASSUME NEW j \in Applying(pfile, b, f.got)
      PROVE  \E n \in 1 .. Len(ms) : b + ms[n] = Place(pfile, j)
  <2>1. Place(pfile, j) - b \in ToSet(ms)
    BY <1>2 DEF Lists
  <2>2. PICK n \in DOMAIN ms : ms[n] = Place(pfile, j) - b
    BY <2>1 DEF ToSet
  <2>3. j \in Nat
    BY <1>2 DEF Applying
  <2>4. Place(pfile, j) \in Int
    BY <2>3 DEF Place
  <2>5. DOMAIN ms = 1 .. Len(ms)
    BY <1>2
  <2>6. QED
    BY <2>2, <2>4, <2>5
<1> HIDE DEF ps, ms, c
<1> DEFINE Kept(x) == IsReader(x) /\ Booked(p, x) /\ x.metadata = p.metadata
           first == {n \in 0 .. Len(ps) : Kept(reported[n])}
           Good(x, n) == /\ Booked(p, x) /\ Keyed(x)
                         /\ DOMAIN p.metadata \subseteq DOMAIN x.metadata
                         /\ \A m \in 1 .. n : b + ms[m] \in DOMAIN x.metadata
           then == {n \in 0 .. Len(ms) :
                       IsReader(read[n]) /\ (read[n].status = "ok" => Good(read[n], n))}
<1>9. Kept(reported[Len(ps)])
  <2>1. 0 \in first
    BY <1>1, <1>5, <1>6 DEF Booked
  <2>2. ASSUME NEW n \in 0 + 1 .. Len(ps), n - 1 \in first PROVE n \in first
    <3>1. n \in 1 .. Len(ps) /\ n \in 0 .. Len(ps) /\ Kept(reported[n - 1])
      BY <1>1, <2>2
    <3>2. reported[n] = ReadProtoClassAt(reported[n - 1], b + ps[n])
      BY <1>5, <3>1
    <3>3. Reads(reported[n - 1], reported[n])
      BY <3>1, <3>2, ReadProtoClassAtReads
    <3>4. /\ IsReader(reported[n]) /\ Booked(reported[n - 1], reported[n])
          /\ reported[n].metadata = reported[n - 1].metadata
      BY <3>3, ReadsBooks
    <3>5. QED
      BY <3>1, <3>4 DEF Booked
  <2> HIDE DEF first
  <2>3. \A n \in 0 .. Len(ps) : n \in first
    BY <1>1, <2>1, <2>2, NumberByNumber
  <2>4. Len(ps) \in first
    BY <1>1, <2>3
  <2>5. QED
    BY <2>4 DEF first
<1>10. Len(ms) \in then
  <2>1. 0 \in then
    <3>1. Kept(read[0]) /\ 0 \in 0 .. Len(ms)
      BY <1>1, <1>5, <1>9
    <3>2. Keyed(read[0])
      BY <3>1 DEF Keyed, Booked
    <3>3. QED
      BY <3>1, <3>2
  <2>2. ASSUME NEW n \in 0 + 1 .. Len(ms), n - 1 \in then PROVE n \in then
    <3>1. n \in 1 .. Len(ms) /\ n \in 0 .. Len(ms) /\ n \in Nat
      BY <1>1, <2>2
    <3>2. PICK x : x = read[n - 1]
      OBVIOUS
    <3>3. IsReader(x) /\ (x.status = "ok" => Good(x, n - 1))
      BY <2>2, <3>2
    <3>4. PICK y : y = read[n]
      OBVIOUS
    <3>5. y = ReadMetadataAt(x, b + ms[n])
      BY <1>5, <3>1, <3>2, <3>4
    <3>6. IsReader(y)
      BY <3>3, <3>5, ReadMetadataAtScans, ReadsAre
    <3>7. ASSUME y.status = "ok" PROVE Good(y, n)
      <4>1. PICK j \in MetadataCells : b + ms[n] = Place(pfile, j)
        BY <1>7, <3>1
      <4>2. /\ x.status = "ok" /\ Booked(x, y)
            /\ Keyed(x) => /\ Keyed(y) /\ DOMAIN x.metadata \subseteq DOMAIN y.metadata
                           /\ Place(pfile, j) \in DOMAIN y.metadata
        BY <3>3, <3>5, <3>7, <4>1, ReadMetadataAtFinds
      <4>3. Good(x, n - 1)
        BY <3>3, <4>2
      <4>4. Booked(p, y)
        BY <4>2, <4>3 DEF Booked
      <4>5. \A m \in 1 .. n : m \in 1 .. n - 1 \/ m = n
        BY <3>1
      <4>6. QED
        BY <4>1, <4>2, <4>3, <4>4, <4>5
    <3>8. QED
      BY <3>1, <3>4, <3>6, <3>7
  <2> HIDE DEF then
  <2>3. \A n \in 0 .. Len(ms) : n \in then
    BY <1>1, <2>1, <2>2, NumberByNumber DEF ms
  <2>4. QED
    BY <1>1, <2>3 DEF ms
<1>11. IsReader(r) /\ Good(r, Len(ms))
  BY <1>5, <1>10
<1>12. QED
  BY <1>8, <1>11

LEMMA ProcessFooterBooks ==
  ASSUME NEW s, IsReader(s), NEW footer, NEW r, r = ProcessFooter(s, footer),
         s.size \in Nat, footer.size \in Nat, Tell(s) \in Nat
  PROVE  /\ IsReader(r) /\ r.headers = s.headers /\ r.metadata = s.metadata
         /\ r.all_meta = s.all_meta /\ r.status = s.status
         /\ r.footers = s.footers \cup {Tell(s) - 3}
         /\ r.size = IF Tell(s) - 3 \in s.footers THEN s.size ELSE s.size + footer.size + 3
<1> DEFINE start == Tell(s) - FooterLen - FooterSizeLen - MagicLen
           size == s.size + footer.size + FooterLen + FooterSizeLen + MagicLen
<1>1. r = [s EXCEPT !.footers = @ \cup {start},
                    !.size = IF start \in s.footers THEN @ ELSE size]
  BY DEF ProcessFooter
<1>2. start = Tell(s) - 3 /\ size = s.size + footer.size + 3
  BY DEF FooterLen, FooterSizeLen, MagicLen
<1> HIDE DEF start, size
<1>3. /\ IsReader(r) /\ r.headers = s.headers /\ r.metadata = s.metadata
      /\ r.all_meta = s.all_meta /\ r.status = s.status
      /\ r.footers = s.footers \cup {start}
      /\ r.size = IF start \in s.footers THEN s.size ELSE size
  BY <1>1 DEF IsReader
<1>4. QED
  BY <1>2, <1>3

\* The end of a stream that was closed, with its footer
EndsAt(b, e) ==
    /\ b \in Nat /\ e \in Nat /\ b + 4 < e /\ e \in DOMAIN pfile /\ pfile[e].kind = "END_MAGIC"
    /\ StreamTo(pfile, b, e)
    /\ HasId(pfile[e - 2], StreamFooterId) /\ SummaryRight(pfile, b, e - 2)

\* All of a stream that its footer tells of
Footered(s, b, e, r) ==
    /\ IsReader(r) /\ Keyed(r) /\ r.headers = s.headers /\ r.all_meta = s.all_meta
    /\ r.footers = s.footers \cup {e - 5}
    /\ r.size = IF e - 5 \in s.footers THEN s.size ELSE s.size + (e - b)
    /\ DOMAIN s.metadata \subseteq DOMAIN r.metadata
    /\ \A j \in Applying(pfile, b, e - 2) : Place(pfile, j) \in DOMAIN r.metadata

LEMMA FooterCounts ==
  ASSUME FileRight(pfile), NEW b, NEW e, EndsAt(b, e), NEW f, Took(f), f.got = e - 2,
         f.size \in Nat, NEW p, p = ProcessFooter(f, pfile[f.got].body)
  PROVE  /\ IsReader(p) /\ p.headers = f.headers /\ p.metadata = f.metadata
         /\ p.all_meta = f.all_meta /\ p.status = f.status
         /\ p.footers = f.footers \cup {e - 5}
         /\ p.size = IF e - 5 \in f.footers THEN f.size ELSE f.size + (e - b)
<1>1. b \in Nat /\ e \in Nat /\ b + 4 < e /\ e - 2 \in DOMAIN pfile
  BY DEF EndsAt, Took
<1>2. ~pfile[e - 2].z
  BY <1>1, SectionCells DEF EndsAt
<1>3. f.zin = NoZlib /\ f.pos = e - 2 /\ IsReader(f)
  BY <1>2 DEF Took, Placed, At
<1>4. Tell(f) = e - 2
  BY <1>3 DEF Tell
<1>5. pfile[f.got].body.size = e - 2 - 1 - b
  BY DEF EndsAt, SummaryRight
<1>6. /\ Tell(f) \in Nat /\ Tell(f) - 3 = e - 5 /\ pfile[f.got].body.size \in Nat
      /\ f.size + pfile[f.got].body.size + 3 = f.size + (e - b)
  BY <1>1, <1>4, <1>5
<1>7. QED
  BY <1>3, <1>6, ProcessFooterBooks

LEMMA ReadFooterFinds ==
  ASSUME FileRight(pfile), NEW s, IsReader(s), s.size \in Nat, Closes(s.size), Keyed(s),
         NEW r, r = ReadFooter(s, s.size), r.status = "ok"
  PROVE  \E b, e : EndsAt(b, e) /\ e = PyFileEnd - s.size /\ Footered(s, b, e, r)
<1>1. PICK b \in Nat, e \in DOMAIN pfile :
            /\ e = PyFileEnd - s.size /\ pfile[e].kind = "END_MAGIC"
            /\ b + 4 < e /\ e \in Nat /\ StreamTo(pfile, b, e)
            /\ HasId(pfile[e - 2], StreamFooterId) /\ SummaryRight(pfile, b, e - 2)
            /\ ((PyFileEnd - s.size - MagicLen) - FooterSizeLen) - FooterLen = e - 3
            /\ \A q : q = ReadAt(s, e - 3) /\ q.status = "ok" =>
                  q.got = e - 2 /\ Took(q) /\ q.closed = s.closed /\ ~s.closed
  BY FooterFound
<1>2. EndsAt(b, e)
  BY <1>1 DEF EndsAt
<1> DEFINE f == ReadAt(s, e - 3)
           p == ProcessFooter(f, pfile[f.got].body)
           q == ReadPlaces(f, e - 3)
<1>3. r = IF f.status = "ok" THEN q ELSE f
  BY <1>1 DEF ReadFooter, Then
<1>4. f.status = "ok" /\ r = q
  BY <1>3
<1>5. Reads(s, f) /\ IsReader(f)
  BY ReadAtReads, ReadsAre
<1>6. f.got = e - 2 /\ Took(f)
  BY <1>1, <1>4
<1> HIDE DEF f
<1>7. /\ f.headers = s.headers /\ f.metadata = s.metadata /\ f.all_meta = s.all_meta
      /\ f.footers = s.footers /\ f.size = s.size
  BY <1>5 DEF Reads
<1>8. /\ IsReader(p) /\ p.headers = s.headers /\ p.metadata = s.metadata
      /\ p.all_meta = s.all_meta
      /\ p.footers = s.footers \cup {e - 5}
      /\ p.size = IF e - 5 \in s.footers THEN s.size ELSE s.size + (e - b)
  BY <1>2, <1>6, <1>7, FooterCounts
<1>9. Keyed(p)
  BY <1>8 DEF Keyed
<1>10. SummaryRight(pfile, b, f.got) /\ f.got \in DOMAIN pfile /\ e - 3 = f.got - 1
  BY <1>1, <1>6 DEF Took
<1> HIDE DEF p
<1>11. PICK g : g = f
  OBVIOUS
<1>12. /\ IsReader(q) /\ Booked(p, q) /\ Keyed(q)
       /\ DOMAIN p.metadata \subseteq DOMAIN q.metadata
       /\ \A j \in Applying(pfile, b, f.got) : Place(pfile, j) \in DOMAIN q.metadata
  BY <1>4, <1>5, <1>9, <1>10, PlacesFound DEF p
<1>13. Footered(s, b, e, r)
  BY <1>4, <1>6, <1>8, <1>12 DEF Footered, Booked
<1>14. QED
  BY <1>1, <1>2, <1>13

LEMMA HeaderKeyed ==
  ASSUME FileRight(pfile), NEW s, NEW r, NEW i \in HeaderCells, Keyed(s),
         r.headers = With(s.headers, i - 1, i), r.metadata = s.metadata
  PROVE  Keyed(r) /\ DOMAIN r.headers = DOMAIN s.headers \cup {i - 1}
<1>1. DOMAIN r.headers = DOMAIN s.headers \cup {i - 1}
  BY DEF With
<1>2. i \in Nat /\ i >= 1
  BY CellIs DEF HeaderCells
<1>3. ASSUME NEW k \in DOMAIN r.headers
      PROVE  k \in Nat /\ r.headers[k] = k + 1 /\ k + 1 \in HeaderCells
  <2>1. r.headers[k] = IF k = i - 1 THEN i ELSE s.headers[k]
    BY <1>1, <1>3 DEF With
  <2>2. CASE k = i - 1
    <3>1. k + 1 = i /\ k \in Nat
      BY <1>2, <2>2
    <3>2. QED
      BY <2>1, <2>2, <3>1
  <2>3. QED
    BY <1>1, <1>3, <2>1, <2>2 DEF Keyed
<1>4. QED
  BY <1>1, <1>3 DEF Keyed

\* What a scan has found when it has come down to cell m
FootersBehind(m) == {i \in FooterCells : i > m}
ScanRight(s) ==
    /\ IsReader(s) /\ s.size \in 0 .. PyFileEnd /\ Keyed(s) /\ s.all_meta
    /\ s.size # PyFileEnd => pfile[PyFileEnd - s.size].kind = "END_MAGIC"
    /\ s.footers = {i - 3 : i \in FootersBehind(PyFileEnd - s.size)}
    /\ \A i \in HeaderCells : i > PyFileEnd - s.size => i - 1 \in DOMAIN s.headers
    /\ \A i \in MetadataCells : i > PyFileEnd - s.size => Place(pfile, i) \in DOMAIN s.metadata

\* Another stream
LEMMA FootersDown ==
  ASSUME FileRight(pfile), NEW b, NEW e, EndsAt(b, e)
  PROVE  /\ FootersBehind(b) = FootersBehind(e) \cup {e - 2}
         /\ e - 2 \notin FootersBehind(e)
<1>1. b \in Nat /\ e \in Nat /\ b + 4 < e /\ e \in DOMAIN pfile /\ StreamTo(pfile, b, e)
      /\ pfile[e].kind = "END_MAGIC" /\ b < e
  BY DEF EndsAt
<1>2. PyFileEnd \in Nat /\ DOMAIN pfile = 1 .. PyFileEnd
  BY DEF FileRight, PyFileEnd
<1>3. e - 2 \in FooterCells
  <2>1. e - 2 \in DOMAIN pfile
    BY <1>1, <1>2
  <2>2. QED
    BY <2>1 DEF EndsAt, FooterCells
<1>4. ASSUME NEW i \in FooterCells, i > b PROVE i > e \/ i = e - 2
  <2>1. i \in Nat
    BY CellIs DEF FooterCells
  <2>2. CASE ~(i > e)
    <3>1. i \in b + 1 .. e
      BY <1>1, <1>4, <2>1, <2>2
    <3>2. QED
      BY <1>1, <1>4, <3>1, StreamIs
  <2>3. QED
    BY <2>2
<1>5. \A i \in FooterCells : i \in Nat
  BY CellIs DEF FooterCells
<1>6. ASSUME NEW i \in FooterCells, i > e \/ i = e - 2 PROVE i > b
  BY <1>1, <1>5, <1>6
<1>7. ~(e - 2 > e)
  BY <1>1
<1>8. QED
  BY <1>3, <1>4, <1>6, <1>7 DEF FootersBehind

LEMMA RoundFinds ==
  ASSUME FileRight(pfile), Whole(pfile), NEW s, ScanRight(s), s.status = "ok",
         s.size # PyFileEnd, NEW r, r = ScanOnce(s), r.status = "ok"
  PROVE  ScanRight(r) /\ r.size > s.size
<1>1. PyFileEnd \in Nat /\ DOMAIN pfile = 1 .. PyFileEnd /\ s.size \in Nat
      /\ s.size <= PyFileEnd /\ IsReader(s) /\ Keyed(s) /\ s.all_meta
  BY DEF FileRight, PyFileEnd, ScanRight
<1>2. Closes(s.size)
  <2>1. pfile[PyFileEnd - s.size].kind = "END_MAGIC"
    BY DEF ScanRight
  <2>2. PyFileEnd - s.size > 0
    BY <1>1
  <2>3. QED
    BY <2>1, <2>2 DEF Closes
<1> DEFINE f == ReadFooter(s, s.size)
           t == [f EXCEPT !.pos = PyFileEnd - f.size, !.zin = NoZlib]
           h == ReadHeader(t)
<1>3. r = IF f.status = "ok" THEN h ELSE f
  BY <1>2 DEF ScanOnce, Then, HeaderBehind
<1>4. f.status = "ok" /\ r = h
  BY <1>3
<1>5. PICK b, e : EndsAt(b, e) /\ e = PyFileEnd - s.size /\ Footered(s, b, e, f)
  BY <1>1, <1>2, <1>4, ReadFooterFinds
<1>6. t = Sought(f, PyFileEnd - f.size, NoZlib)
  BY DEF Sought
<1>7. b \in Nat /\ e \in Nat /\ b + 4 < e /\ e \in DOMAIN pfile /\ b < e
      /\ pfile[e].kind = "END_MAGIC" /\ StreamTo(pfile, b, e) /\ e <= PyFileEnd
  BY <1>1, <1>5 DEF EndsAt
<1>8. FootersBehind(b) = FootersBehind(e) \cup {e - 2} /\ e - 2 \notin FootersBehind(e)
  BY <1>5, FootersDown
<1>9. s.footers = {i - 3 : i \in FootersBehind(e)}
  BY <1>5 DEF ScanRight
<1>10. e - 5 \notin s.footers
  <2>1. \A i \in FootersBehind(e) : i \in Nat
    BY CellIs DEF FootersBehind, FooterCells
  <2>2. ASSUME NEW i \in FootersBehind(e), i - 3 = e - 5 PROVE FALSE
    <3>1. i = e - 2
      BY <1>7, <2>1, <2>2
    <3>2. QED
      BY <1>8, <2>2, <3>1
  <2>3. QED
    BY <1>9, <2>2
<1>11. /\ IsReader(f) /\ Keyed(f) /\ f.headers = s.headers /\ f.all_meta
       /\ f.footers = s.footers \cup {e - 5} /\ f.size = s.size + (e - b)
       /\ DOMAIN s.metadata \subseteq DOMAIN f.metadata
       /\ \A j \in Applying(pfile, b, e - 2) : Place(pfile, j) \in DOMAIN f.metadata
  BY <1>1, <1>5, <1>10 DEF Footered
<1>12. f.size = PyFileEnd - b /\ PyFileEnd - f.size = b
  BY <1>1, <1>5, <1>7, <1>11
<1> HIDE DEF f
<1>13. /\ IsReader(t) /\ t.pos = b /\ t.zin = NoZlib /\ t.status = "ok" /\ Reads(f, t)
  BY <1>4, <1>6, <1>11, <1>12, SeekReads
<1>14. Placed(t)
  BY <1>7, <1>13 DEF Placed, NoZlib
<1> HIDE DEF t
<1>15. /\ Sized(t, r) /\ IsReader(r)
       /\ r.got = b + 2 /\ HasId(pfile[r.got], StreamHeaderId) /\ Took(r)
       /\ r.headers = With(t.headers, b + 1, b + 2)
       /\ r.footers = t.footers /\ r.metadata = t.metadata /\ r.all_meta = t.all_meta
  BY <1>4, <1>13, <1>14, ReadHeaderTakes, ReadsAre
<1>16. /\ t.headers = s.headers /\ t.footers = f.footers /\ t.metadata = f.metadata
       /\ t.all_meta /\ t.size = f.size
  BY <1>11, <1>13 DEF Reads
<1>17. r.size = PyFileEnd - b /\ PyFileEnd - r.size = b
  BY <1>1, <1>7, <1>12, <1>15, <1>16 DEF Sized
<1>18. b + 2 \in HeaderCells /\ (b + 2) - 1 = b + 1
  BY <1>7, <1>15 DEF HeaderCells, Took
<1>19. Keyed(r) /\ DOMAIN r.headers = DOMAIN s.headers \cup {b + 1}
  BY <1>11, <1>15, <1>16, <1>18, HeaderKeyed
<1>20. r.size \in 0 .. PyFileEnd /\ r.size > s.size
  BY <1>1, <1>5, <1>7, <1>17
<1>21. r.size # PyFileEnd => pfile[PyFileEnd - r.size].kind = "END_MAGIC"
  BY <1>1, <1>7, <1>17, StreamsMeet
<1>22. r.footers = {i - 3 : i \in FootersBehind(b)}
  <2>1. r.footers = {i - 3 : i \in FootersBehind(e)} \cup {e - 5}
    BY <1>9, <1>11, <1>15, <1>16
  <2>2. (e - 2) - 3 = e - 5
    BY <1>7
  <2>3. QED
    BY <1>8, <2>1, <2>2
<1>23. ASSUME NEW i \in DOMAIN pfile, i > b PROVE i > e \/ i \in b + 1 .. e
  BY <1>1, <1>7, <1>23
<1>24. ASSUME NEW i \in HeaderCells, i > b PROVE i - 1 \in DOMAIN r.headers
  <2>1. i \in DOMAIN pfile
    BY DEF HeaderCells
  <2>2. CASE i > e
    BY <1>5, <1>19, <1>24, <2>2 DEF ScanRight
  <2>3. CASE i \in b + 1 .. e
    <3>1. i = b + 2
      BY <1>7, <1>24, <2>3, StreamIs
    <3>2. QED
      BY <1>18, <1>19, <3>1
  <2>4. QED
    BY <1>23, <1>24, <2>1, <2>2, <2>3
<1>25. ASSUME NEW i \in MetadataCells, i > b PROVE Place(pfile, i) \in DOMAIN r.metadata
  <2>1. i \in DOMAIN pfile
    BY DEF MetadataCells
  <2>2. CASE i > e
    BY <1>5, <1>11, <1>15, <1>16, <1>25, <2>2 DEF ScanRight
  <2>3. CASE i \in b + 1 .. e
    <3>1. i \in Applying(pfile, b, e - 2)
      BY <1>7, <1>25, <2>3, StreamIs
    <3>2. QED
      BY <1>11, <1>15, <1>16, <3>1
  <2>4. QED
    BY <1>23, <1>25, <2>1, <2>2, <2>3
<1>26. QED
  BY <1>15, <1>16, <1>17, <1>19, <1>20, <1>21, <1>22, <1>24, <1>25 DEF ScanRight

\* Everything the footers of a whole file tell of
Discovered(s) ==
    /\ s.size = PyFileEnd /\ Keyed(s)
    /\ s.footers = {i - 3 : i \in FooterCells}
    /\ \A i \in HeaderCells : i - 1 \in DOMAIN s.headers
    /\ \A i \in MetadataCells : Place(pfile, i) \in DOMAIN s.metadata

Blank(s) ==
    s.size = 0 /\ s.all_meta /\ s.headers = << >> /\ s.footers = {} /\ s.metadata = << >>

LEMMA ScanBegins ==
  ASSUME FileRight(pfile), Whole(pfile), NEW s, IsReader(s), Blank(s)
  PROVE  ScanRight(s)
<1>1. PyFileEnd \in Nat /\ DOMAIN pfile = 1 .. PyFileEnd
  BY DEF FileRight, PyFileEnd
<1>2. PyFileEnd - s.size = PyFileEnd /\ s.size \in 0 .. PyFileEnd /\ s.all_meta
      /\ s.footers = {}
  BY <1>1 DEF Blank
<1>3. \A i \in DOMAIN pfile : ~(i > PyFileEnd)
  BY <1>1
<1>4. FootersBehind(PyFileEnd) = {}
  BY <1>3 DEF FootersBehind, FooterCells
<1>5. ASSUME s.size # PyFileEnd PROVE pfile[PyFileEnd].kind = "END_MAGIC"
  <2>1. PyFileEnd \in DOMAIN pfile
    BY <1>1, <1>2, <1>5
  <2>2. QED
    BY <2>1 DEF Whole, PyFileEnd
<1>6. DOMAIN s.headers = {} /\ DOMAIN s.metadata = {}
  BY DEF Blank
<1>7. Keyed(s)
  BY <1>6 DEF Keyed
<1>8. s.footers = {i - 3 : i \in FootersBehind(PyFileEnd)}
  BY <1>2, <1>4
<1>9. QED
  BY <1>2, <1>3, <1>5, <1>7, <1>8 DEF ScanRight, HeaderCells, MetadataCells

LEMMA ScanEnds ==
  ASSUME FileRight(pfile), NEW s, ScanRight(s), s.size = PyFileEnd
  PROVE  Discovered(s) /\ s.all_meta
<1>1. PyFileEnd \in Nat /\ DOMAIN pfile = 1 .. PyFileEnd
  BY DEF FileRight, PyFileEnd
<1>2. PyFileEnd - s.size = 0
  BY <1>1
<1>3. \A i \in DOMAIN pfile : i > 0
  BY <1>1
<1>4. FootersBehind(0) = FooterCells
  BY <1>3 DEF FootersBehind, FooterCells
<1>5. s.footers = {i - 3 : i \in FooterCells}
  BY <1>2, <1>4 DEF ScanRight
<1>6. QED
  BY <1>2, <1>3, <1>5 DEF ScanRight, Discovered, HeaderCells, MetadataCells

LEMMA ReadFootersFinds ==
  ASSUME FileRight(pfile), Whole(pfile), NEW s, IsReader(s), Blank(s),
         NEW r, r = ReadFooters(s), r.status = "ok"
  PROVE  Discovered(r) /\ r.all_meta
<1>1. PICK scan : /\ scan[0] = s
                  /\ \A n \in 1 .. PyFileEnd : scan[n] = ScanOnce(scan[n - 1])
                  /\ r = IF /\ scan[PyFileEnd].status = "ok"
                            /\ scan[PyFileEnd].size < PyFileEnd
                         THEN [scan[PyFileEnd] EXCEPT !.pos = 0]
                         ELSE scan[PyFileEnd]
  BY ReadFootersSteps
<1>2. PyFileEnd \in Nat
  BY DEF FileRight, PyFileEnd
<1> DEFINE Good(x, n) == ScanRight(x) /\ (x.size >= n \/ x.size = PyFileEnd)
           right == {n \in 0 .. PyFileEnd : scan[n].status = "ok" => Good(scan[n], n)}
<1>3. 0 \in right
  <2>1. ScanRight(s) /\ s.size >= 0
    BY ScanBegins DEF Blank
  <2>2. QED
    BY <1>1, <1>2, <2>1
<1>4. ASSUME NEW n \in 0 + 1 .. PyFileEnd, n - 1 \in right PROVE n \in right
  <2>1. n \in 1 .. PyFileEnd /\ n \in 0 .. PyFileEnd /\ n \in Nat
        /\ scan[n] = ScanOnce(scan[n - 1])
    BY <1>1, <1>2
  <2>2. PICK x : x = scan[n - 1]
    OBVIOUS
  <2>3. PICK y : y = scan[n]
    OBVIOUS
  <2>4. y = ScanOnce(x) /\ (x.status = "ok" => Good(x, n - 1))
    BY <1>4, <2>1, <2>2, <2>3
  <2>5. SUFFICES ASSUME y.status = "ok" PROVE Good(y, n)
    BY <2>1, <2>3
  <2>6. x.status = "ok"
    BY <2>4, <2>5 DEF ScanOnce
  <2>7. CASE x.size = PyFileEnd
    <3>1. PyFileEnd - x.size = 0
      BY <1>2, <2>7
    <3>2. ~Closes(x.size)
      BY <3>1 DEF Closes
    <3>3. y = x
      BY <2>4, <3>2 DEF ScanOnce
    <3>4. QED
      BY <2>4, <2>6, <2>7, <3>3
  <2>8. CASE x.size # PyFileEnd
    <3>1. ScanRight(x) /\ x.size >= n - 1
      BY <2>4, <2>6, <2>8
    <3>2. ScanRight(y) /\ y.size > x.size
      BY <2>4, <2>5, <2>6, <2>8, <3>1, RoundFinds
    <3>3. x.size \in Nat /\ y.size \in Nat
      BY <1>2, <3>1, <3>2 DEF ScanRight
    <3>4. y.size >= n
      BY <2>1, <3>1, <3>2, <3>3
    <3>5. QED
      BY <3>2, <3>4
  <2>9. QED
    BY <2>7, <2>8
<1> HIDE DEF Good, right
<1>5. \A n \in 0 .. PyFileEnd : n \in right
  BY <1>2, <1>3, <1>4, NumberByNumber
<1>6. PyFileEnd \in right
  BY <1>2, <1>5
<1>7. PICK last : last = scan[PyFileEnd]
  OBVIOUS
<1>8. last.status = "ok" => Good(last, PyFileEnd)
  BY <1>6, <1>7 DEF Good, right
<1>9. r = IF last.status = "ok" /\ last.size < PyFileEnd
          THEN [last EXCEPT !.pos = 0] ELSE last
  BY <1>1, <1>7
<1>10. last.status = "ok"
  BY <1>9
<1>11. ScanRight(last) /\ last.size = PyFileEnd
  BY <1>2, <1>8, <1>10 DEF ScanRight, Good
<1>12. r = last
  BY <1>2, <1>9, <1>11
<1>13. QED
  BY <1>11, <1>12, ScanEnds

LEMMA ReadAllFinds ==
  ASSUME FileRight(pfile), Whole(pfile), NEW s, IsReader(s), s.all_meta => Discovered(s),
         NEW r, r = ReadAllMetaInfo(s), r.status = "ok"
  PROVE  Discovered(r) /\ r.all_meta
<1> DEFINE t == [s EXCEPT !.all_meta = TRUE, !.zin = NoZlib, !.headers = << >>,
                          !.footers = {}, !.metadata = << >>, !.size = 0]
           l == ReadFooters(t)
           e == Fail(l, "ValueError")
           b == [l EXCEPT !.pos = s.pos, !.zin = s.zin, !.got = s.got]
<1>1. r = IF s.all_meta THEN s ELSE IF l.status = "ok" THEN IF l.closed THEN e ELSE b ELSE l
  BY DEF ReadAllMetaInfo, Then
<1>2. PICK u : u = t
  OBVIOUS
<1>3. IsReader(u) /\ Blank(u)
  BY <1>2 DEF IsReader, Blank
<1>4. l = ReadFooters(u)
  BY <1>2
<1> HIDE DEF l, t
<1>5. Scans(u, l) /\ IsReader(l)
  BY <1>3, <1>4, ReadFootersScans, ReadsAre DEF Blank
<1>6. e.status = "ValueError"
  BY <1>5, FailReads
<1>7. CASE s.all_meta
  BY <1>1, <1>7
<1>8. CASE ~s.all_meta
  <2>1. l.status = "ok" /\ r = b
    BY <1>1, <1>6, <1>8
  <2>2. Discovered(l) /\ l.all_meta
    BY <1>3, <1>4, <2>1, ReadFootersFinds
  <2>3. /\ r.size = l.size /\ r.headers = l.headers /\ r.footers = l.footers
        /\ r.metadata = l.metadata /\ r.all_meta = l.all_meta
    BY <1>5, <2>1 DEF IsReader
  <2>4. QED
    BY <2>2, <2>3 DEF Discovered, Keyed
<1>9. QED
  BY <1>7, <1>8

-----------------------------------------------------------------------------
(* What the loop has found of a file that is whole                          *)

\* What it has met up to cell m: the streams up to there are counted.
FootersTo(m) == {i \in FooterCells : i <= m}
Met(s, m) ==
    /\ Keyed(s) /\ s.size \in Nat
    /\ s.footers = {i - 3 : i \in FootersTo(m)}
    /\ \A i \in HeaderCells : i <= m => i - 1 \in DOMAIN s.headers
    /\ s.size # 0 => s.size - 2 \in FootersTo(m)
    /\ \A i \in FootersTo(m) : i + 2 <= s.size
Explored(s, m) == IF s.all_meta THEN Discovered(s) ELSE Met(s, m)

LEMMA ExploredSame ==
  ASSUME NEW s, NEW r, NEW m, Booked(s, r), r.metadata = s.metadata
  PROVE  /\ Explored(s, m) => Explored(r, m)
         /\ Discovered(s) => Discovered(r)
BY DEF Booked, Explored, Met, Discovered, Keyed

\* Cells that are nothing a scan looks for
Blanks(m, n) == \A i \in m + 1 .. n : i \notin HeaderCells /\ i \notin FooterCells

LEMMA ExploredOn ==
  ASSUME FileRight(pfile), NEW s, NEW m \in Nat, NEW n \in Nat, m <= n, Blanks(m, n),
         Explored(s, m)
  PROVE  Explored(s, n)
<1>1. \A i \in DOMAIN pfile : i \in Nat
  BY CellIs
<1>2. ASSUME NEW i \in DOMAIN pfile, i \in HeaderCells \/ i \in FooterCells
      PROVE  i <= n <=> i <= m
  <2>1. i \notin m + 1 .. n
    BY <1>2 DEF Blanks
  <2>2. QED
    BY <1>1, <2>1
<1>3. FootersTo(n) = FootersTo(m)
  BY <1>2 DEF FootersTo, FooterCells
<1>4. CASE s.all_meta
  BY <1>4 DEF Explored
<1>5. CASE ~s.all_meta
  <2>1. Met(s, m)
    BY <1>5 DEF Explored
  <2>2. \A i \in HeaderCells : i <= n => i - 1 \in DOMAIN s.headers
    BY <1>2, <2>1 DEF Met, HeaderCells
  <2>3. Met(s, n)
    BY <1>3, <2>1, <2>2 DEF Met
  <2>4. QED
    BY <1>5, <2>3 DEF Explored
<1>6. QED
  BY <1>4, <1>5

LEMMA PassesBlanks ==
  ASSUME NEW m \in Nat, NEW n \in Nat, Passes(m, n)
  PROVE  Blanks(m, n)
<1>1. ASSUME NEW i \in m + 1 .. n PROVE i \notin HeaderCells /\ i \notin FooterCells
  <2>1. Passing(pfile[i])
    BY <1>1 DEF Passes
  <2>2. ~HasId(pfile[i], StreamHeaderId) /\ ~HasId(pfile[i], StreamFooterId)
    BY <2>1, PyIdsDiffer DEF Passing, IsMessage, HasId, CompressionIds
  <2>3. QED
    BY <2>2 DEF HeaderCells, FooterCells
<1>2. QED
  BY <1>1 DEF Blanks

LEMMA HeaderPlain ==
  ASSUME FileRight(pfile), NEW i \in HeaderCells
  PROVE  ~pfile[i].z /\ i \in Nat
<1>1. i \in DOMAIN pfile /\ HasId(pfile[i], StreamHeaderId) /\ i \in Nat
  BY CellIs DEF HeaderCells
<1>2. PICK b \in 0 .. i - 1 : StreamTo(pfile, b, i)
  BY <1>1 DEF FileRight
<1>3. b \in Nat /\ b < i
  BY <1>1, <1>2
<1>4. i \in b + 1 .. i
  BY <1>1, <1>3
<1>5. CellRight(pfile, b, i)
  BY <1>2, <1>4 DEF StreamTo
<1>6. i = b + 2
  BY <1>1, <1>5 DEF CellRight
<1>7. i - 1 = b + 1 /\ i > b + 1
  BY <1>3, <1>6
<1>8. pfile[b + 1].kind = "START_MAGIC"
  BY <1>1, <1>2, <1>3, <1>7, BeginOf
<1>9. pfile[i - 1].kind = "START_MAGIC"
  BY <1>7, <1>8
<1>10. ~Opens(pfile[i - 1])
  BY <1>9 DEF Opens, IsMessage
<1>11. QED
  BY <1>1, <1>5, <1>10 DEF CellRight

\* The key of a metadata message is the place that leads to it.
LEMMA KeyLeads ==
  ASSUME FileRight(pfile), NEW s, Took(s), IsMetadata(pfile[s.got])
  PROVE  s.got \in MetadataCells /\ MetadataKey(s) = Place(pfile, s.got)
<1>1. s.got \in MetadataCells /\ Placed(s) /\ At(s) = s.got
  BY DEF Took, MetadataCells
<1>2. s.got \in Nat /\ s.got >= 1 /\ s.got \in DOMAIN pfile /\ Leads(pfile, s.got)
  BY <1>1, MetadataLead, LeadingIs
<1>3. CASE ~pfile[s.got].z
  <2>1. s.zin = NoZlib
    BY <1>3 DEF Took
  <2>2. Tell(s) = s.got
    BY <1>1, <2>1 DEF Tell, At
  <2>3. QED
    BY <1>1, <1>3, <2>2 DEF MetadataKey, Place
<1>4. CASE pfile[s.got].z
  <2>1. s.zin # NoZlib
    BY <1>4 DEF Took
  <2>2. Tell(s) = s.zin.tell /\ s.zin.next = s.got
    BY <1>1, <2>1 DEF Tell, At
  <2>3. /\ s.zin.tell \in DOMAIN pfile /\ s.zin.tell <= s.got
        /\ HasId(pfile[s.zin.tell], StartCompressedSectionId)
        /\ \A k \in s.zin.tell + 1 .. s.got : pfile[k].z
    BY <1>1, <2>1, <2>2 DEF Placed, InSection
  <2>4. s.zin.tell \in Nat /\ ~pfile[s.zin.tell].z
    BY <2>3, CellIs, SectionCells
  <2>5. s.zin.tell # s.got
    BY <1>4, <2>4
  <2>6. HasId(pfile[s.got - 1], StartCompressedSectionId)
    BY <1>2, <1>4 DEF Leads
  <2>7. s.got - 1 \in DOMAIN pfile
    BY <1>1, <1>2, <1>4, MetadataLead, LeadingIs
  <2>8. ~pfile[s.got - 1].z
    BY <2>6, <2>7, SectionCells
  <2>9. s.got - 1 \notin s.zin.tell + 1 .. s.got
    BY <2>3, <2>8
  <2>10. s.zin.tell = s.got - 1
    BY <1>2, <2>3, <2>4, <2>5, <2>9
  <2>11. QED
    BY <1>1, <1>2, <1>4, <2>2, <2>10 DEF MetadataKey, Place
<1>5. QED
  BY <1>3, <1>4

LEMMA FooterStream ==
  ASSUME FileRight(pfile), NEW i \in FooterCells
  PROVE  /\ i \in Nat /\ i \in DOMAIN pfile /\ i >= 1
         /\ \E b \in Nat : b < i /\ StreamTo(pfile, b, i) /\ SummaryRight(pfile, b, i)
<1>1. i \in DOMAIN pfile /\ HasId(pfile[i], StreamFooterId) /\ i \in Nat /\ i >= 1
  BY CellIs DEF FooterCells
<1>2. PICK b \in 0 .. i - 1 : StreamTo(pfile, b, i)
  BY <1>1 DEF FileRight
<1>3. b \in Nat /\ b < i
  BY <1>1, <1>2
<1>4. i \in b + 1 .. i
  BY <1>1, <1>3
<1>5. CellRight(pfile, b, i)
  BY <1>2, <1>4 DEF StreamTo
<1>6. SummaryRight(pfile, b, i)
  BY <1>1, <1>5 DEF CellRight
<1>7. QED
  BY <1>1, <1>2, <1>3, <1>6

\* A stream has one footer.
LEMMA OneFooter ==
  ASSUME FileRight(pfile), NEW b \in Nat, NEW i \in FooterCells, b < i, StreamTo(pfile, b, i),
         NEW j \in FooterCells, b < j
  PROVE  ~(j < i)
<1>1. i \in Nat /\ j \in Nat /\ HasId(pfile[i], StreamFooterId) /\ HasId(pfile[j], StreamFooterId)
  BY CellIs DEF FooterCells
<1>2. SUFFICES ASSUME j < i PROVE FALSE
  OBVIOUS
<1>3. \A k \in b + 1 .. i : CellRight(pfile, b, k)
  BY DEF StreamTo
<1>4. j + 1 \in b + 1 .. i /\ (j + 1) - 1 = j /\ j + 1 > b + 1
  BY <1>1, <1>2
<1>5. pfile[j + 1].kind = "FooterSize"
  BY <1>1, <1>3, <1>4 DEF CellRight
<1>6. j + 1 # i
  BY <1>1, <1>5 DEF HasId
<1>7. j + 2 \in b + 1 .. i /\ (j + 2) - 1 = j + 1 /\ j + 2 > b + 1
  BY <1>1, <1>2, <1>6
<1>8. pfile[j + 2].kind = "END_MAGIC"
  BY <1>3, <1>5, <1>7 DEF CellRight
<1>9. j + 2 # i
  BY <1>1, <1>8 DEF HasId
<1>10. j + 3 \in b + 1 .. i /\ (j + 3) - 1 = j + 2 /\ j + 3 > b + 1
  BY <1>1, <1>2, <1>6, <1>7, <1>9
<1>11. QED
  BY <1>3, <1>8, <1>10 DEF CellRight

\* When the loop comes to a footer, the streams in front of its stream are counted.
LEMMA CountedBefore ==
  ASSUME FileRight(pfile), Whole(pfile), NEW i \in FooterCells, NEW b \in Nat, b < i,
         StreamTo(pfile, b, i), NEW s, Met(s, i - 1)
  PROVE  s.size = b
<1>1. i \in Nat /\ i \in DOMAIN pfile /\ i >= 1 /\ s.size \in Nat
  BY FooterStream DEF Met
<1>2. \A j \in FootersTo(i - 1) : j \in FooterCells /\ j \in Nat /\ j < i
  BY <1>1, CellIs DEF FootersTo, FooterCells
<1>3. \A j \in FootersTo(i - 1) : ~(b < j)
  BY <1>2, OneFooter
<1>4. s.size # 0 => s.size - 2 \in FootersTo(i - 1)
  BY DEF Met
<1>5. CASE b = 0
  <2>1. SUFFICES ASSUME s.size # 0 PROVE FALSE
    BY <1>5
  <2>2. s.size - 2 \in DOMAIN pfile
    BY <1>2, <1>4, <2>1 DEF FooterCells
  <2>3. s.size - 2 >= 1
    BY <2>2, CellIs
  <2>4. ~(0 < s.size - 2)
    BY <1>3, <1>4, <1>5, <2>1
  <2>5. QED
    BY <1>1, <2>3, <2>4
<1>6. CASE b # 0
  <2>1. b \in DOMAIN pfile /\ pfile[b].kind = "END_MAGIC"
    BY <1>1, <1>6, StreamsMeet
  <2>2. pfile[b - 1].kind = "FooterSize" /\ HasId(pfile[b - 2], StreamFooterId) /\ b > 4
    BY <2>1, EndOfStream
  <2>3. b - 2 \in FootersTo(i - 1)
    <3>1. DOMAIN pfile = 1 .. PyFileEnd /\ PyFileEnd \in Nat
      BY DEF FileRight, PyFileEnd
    <3>2. b - 2 \in DOMAIN pfile
      BY <2>1, <2>2, <3>1
    <3>3. b - 2 <= i - 1
      BY <1>1
    <3>4. QED
      BY <2>2, <3>2, <3>3 DEF FootersTo, FooterCells
  <2>4. b <= s.size
    <3>1. (b - 2) + 2 <= s.size
      BY <2>3 DEF Met
    <3>2. QED
      BY <3>1
  <2>5. s.size - 2 \in FootersTo(i - 1) /\ s.size - 2 <= b
    <3>1. s.size # 0
      BY <1>1, <2>2, <2>4
    <3>2. ~(b < s.size - 2)
      BY <1>3, <1>4, <3>1
    <3>3. QED
      BY <1>1, <1>4, <3>1, <3>2
  <2>6. HasId(pfile[s.size - 2], StreamFooterId)
    BY <2>5 DEF FootersTo, FooterCells
  <2>7. s.size - 2 # b /\ s.size - 2 # b - 1
    BY <2>1, <2>2, <2>6 DEF HasId
  <2>8. QED
    BY <1>1, <2>4, <2>5, <2>7
<1>7. QED
  BY <1>5, <1>6

LEMMA FooterMet ==
  ASSUME FileRight(pfile), Whole(pfile), NEW i \in FooterCells, NEW s, IsReader(s),
         Tell(s) = i, Explored(s, i - 1), NEW p, p = ProcessFooter(s, pfile[i].body)
  PROVE  IsReader(p) /\ Explored(p, i) /\ (~p.all_meta => p.size = i + 2)
<1>1. PICK b \in Nat : b < i /\ StreamTo(pfile, b, i) /\ SummaryRight(pfile, b, i)
  BY FooterStream
<1>2. i \in Nat /\ i \in DOMAIN pfile /\ i >= 1
  BY FooterStream
<1>3. pfile[i].body.size = i - 1 - b /\ pfile[i].body.size \in Nat
  BY <1>1 DEF SummaryRight
<1>4. PyFileEnd \in Nat
  BY DEF FileRight, PyFileEnd
<1>5. s.size \in Nat
  BY <1>4 DEF Explored, Met, Discovered
<1>6. /\ IsReader(p) /\ p.headers = s.headers /\ p.metadata = s.metadata
      /\ p.all_meta = s.all_meta
      /\ p.footers = s.footers \cup {i - 3}
      /\ p.size = IF i - 3 \in s.footers THEN s.size ELSE s.size + pfile[i].body.size + 3
  BY <1>2, <1>3, <1>5, ProcessFooterBooks
<1>7. \A j \in FooterCells : j \in Nat
  BY FooterStream
<1>8. HasId(pfile[i], StreamFooterId)
  BY DEF FooterCells
<1>9. CASE s.all_meta
  <2>1. Discovered(s)
    BY <1>9 DEF Explored
  <2>2. i - 3 \in s.footers
    BY <2>1 DEF Discovered
  <2>3. p.footers = s.footers /\ p.size = s.size
    BY <1>6, <2>2
  <2>4. QED
    BY <1>6, <1>9, <2>1, <2>3 DEF Explored, Discovered, Keyed
<1>10. CASE ~s.all_meta
  <2>1. Met(s, i - 1)
    BY <1>10 DEF Explored
  <2>2. s.size = b
    BY <1>1, <2>1, CountedBefore
  <2>3. i - 3 \notin s.footers
    <3>1. ASSUME NEW j \in FootersTo(i - 1), j - 3 = i - 3 PROVE FALSE
      <4>1. j \in Nat /\ j <= i - 1
        BY <1>7 DEF FootersTo
      <4>2. QED
        BY <1>2, <3>1, <4>1
    <3>2. QED
      BY <2>1, <3>1 DEF Met
  <2>4. p.size = i + 2
    BY <1>1, <1>2, <1>3, <1>6, <2>2, <2>3
  <2>5. FootersTo(i) = FootersTo(i - 1) \cup {i}
    <3>1. \A j \in FooterCells : j <= i <=> j <= i - 1 \/ j = i
      BY <1>2, <1>7
    <3>2. i \in FooterCells
      OBVIOUS
    <3>3. QED
      BY <3>1, <3>2 DEF FootersTo
  <2>6. p.footers = {j - 3 : j \in FootersTo(i)}
    BY <1>6, <2>1, <2>5 DEF Met
  <2>7. \A j \in HeaderCells : j <= i => j - 1 \in DOMAIN p.headers
    <3>1. ASSUME NEW j \in HeaderCells, j <= i PROVE j - 1 \in DOMAIN p.headers
      <4>1. j # i
        BY <1>8, PyIdsDiffer DEF HeaderCells, HasId
      <4>2. j <= i - 1
        BY <1>2, <3>1, <4>1, HeaderPlain
      <4>3. QED
        BY <1>6, <2>1, <4>2 DEF Met
    <3>2. QED
      BY <3>1
  <2>8. \A j \in FootersTo(i) : j + 2 <= p.size
    <3>1. ASSUME NEW j \in FootersTo(i) PROVE j + 2 <= p.size
      <4>1. j \in Nat /\ j <= i
        BY <1>7 DEF FootersTo
      <4>2. QED
        BY <1>2, <2>4, <4>1
    <3>2. QED
      BY <3>1
  <2>9. p.size - 2 = i /\ i \in FootersTo(i) /\ p.size \in Nat
    BY <1>2, <2>4, <2>5
  <2>10. Keyed(p)
    BY <1>6, <2>1 DEF Met, Keyed
  <2>11. Met(p, i)
    BY <2>6, <2>7, <2>8, <2>9, <2>10 DEF Met
  <2>12. QED
    BY <1>6, <1>10, <2>4, <2>11 DEF Explored
<1>11. QED
  BY <1>9, <1>10

LEMMA FooterBehind ==
  ASSUME FileRight(pfile), Whole(pfile), NEW i \in FooterCells
  PROVE  /\ i + 1 \in DOMAIN pfile /\ pfile[i + 1].kind = "FooterSize"
         /\ i + 2 \in DOMAIN pfile /\ pfile[i + 2].kind = "END_MAGIC"
<1>1. i \in DOMAIN pfile /\ i \in Nat /\ HasId(pfile[i], StreamFooterId)
  BY CellIs DEF FooterCells
<1>2. DOMAIN pfile = 1 .. PyFileEnd /\ PyFileEnd \in Nat /\ PyFileEnd = Len(pfile)
  BY DEF FileRight, PyFileEnd
<1>3. \A j \in DOMAIN pfile : pfile[j].kind # "END_MAGIC" =>
          j + 1 \in DOMAIN pfile /\ pfile[j + 1].kind # "START_MAGIC"
  <2>1. ASSUME NEW j \in DOMAIN pfile, pfile[j].kind # "END_MAGIC"
        PROVE  j + 1 \in DOMAIN pfile /\ pfile[j + 1].kind # "START_MAGIC"
    <3>1. j # PyFileEnd /\ pfile[j + 1].kind # "START_MAGIC"
      BY <1>2, <2>1 DEF Whole
    <3>2. QED
      BY <1>2, <3>1
  <2>2. QED
    BY <2>1
<1>4. pfile[i].kind # "END_MAGIC"
  BY <1>1 DEF HasId
<1>5. i + 1 \in DOMAIN pfile /\ pfile[i + 1].kind # "START_MAGIC"
  BY <1>1, <1>3, <1>4
<1>6. pfile[i + 1].kind = "FooterSize"
  BY <1>1, <1>5, NextCell, WholeUntorn
<1>7. pfile[i + 1].kind # "END_MAGIC" /\ (i + 1) + 1 = i + 2
  BY <1>1, <1>6
<1>8. i + 2 \in DOMAIN pfile /\ pfile[i + 2].kind # "START_MAGIC"
  BY <1>3, <1>5, <1>7
<1>9. PICK b \in 0 .. (i + 2) - 1 : CellRight(pfile, b, i + 2)
  BY <1>8, CellIs
<1>10. b \in Nat /\ b <= i + 1 /\ (i + 2) - 1 = i + 1
  BY <1>1, <1>9
<1>11. i + 2 # b + 1
  BY <1>8, <1>9, WholeUntorn DEF CellRight
<1>12. i + 2 > b + 1
  BY <1>1, <1>10, <1>11
<1>13. pfile[i + 2].kind = "END_MAGIC"
  BY <1>6, <1>9, <1>10, <1>12 DEF CellRight
<1>14. QED
  BY <1>5, <1>6, <1>8, <1>13

LEMMA StopBooks ==
  ASSUME NEW s, IsReader(s), NEW r, r = StopIteration(s)
  PROVE  Booked(s, r) /\ r.metadata = s.metadata
BY DEF IsReader, Booked, StopIteration

\* A file that was not cut is closed.
LEMMA AfterFooterWhole ==
  ASSUME FileRight(pfile), Whole(pfile), NEW s, IsReader(s), s.zin = NoZlib, s.pos = s.got,
         s.got \in FooterCells, ~s.eof, NEW r, r = AfterFooter(s), r.status = "ok"
  PROVE  /\ Booked(s, r) /\ r.metadata = s.metadata
         /\ r.eof => PyFileEnd = s.got + 2
         /\ ~r.eof => r.pos = s.got + 3 /\ r.zin = NoZlib /\ Blanks(s.got, s.got + 3)
<1> DEFINE e == SkipMark(s)
           d == SkipMark(e)
           n == [d EXCEPT !.current_metadata = None, !.metadata_change = TRUE]
           f == SkipMark(n)
           u == [StopIteration(d) EXCEPT !.unclosed = TRUE]
<1>0. /\ PyFileEnd \in Nat /\ DOMAIN pfile = 1 .. PyFileEnd
      /\ s.got \in Nat /\ s.got >= 1 /\ s.got <= PyFileEnd
      /\ s.got \in DOMAIN pfile /\ HasId(pfile[s.got], StreamFooterId)
  BY DEF FileRight, PyFileEnd, FooterCells
<1>1. r = IF s.pos >= PyFileEnd THEN Fail(s, "struct.error")
          ELSE IF ~AtMark(e, "END_MAGIC") THEN u
          ELSE IF AtMark(n, "START_MAGIC") THEN f ELSE StopIteration(f)
  BY DEF AfterFooter
<1>2. /\ s.got + 1 \in DOMAIN pfile /\ pfile[s.got + 1].kind = "FooterSize"
      /\ s.got + 2 \in DOMAIN pfile /\ pfile[s.got + 2].kind = "END_MAGIC"
  BY FooterBehind
<1>3. s.got + 1 < PyFileEnd /\ (s.got + 1) + 1 = s.got + 2 /\ ~(s.pos >= PyFileEnd)
  BY <1>0, <1>2
<1>4. /\ IsReader(e) /\ Reads(s, e) /\ e.zin = NoZlib /\ e.pos = s.got + 1
  BY <1>0, <1>3, SkipReads, ReadsAre
<1> HIDE DEF e
<1>5. AtMark(e, "END_MAGIC")
  BY <1>2, <1>3, <1>4 DEF AtMark
<1>6. /\ IsReader(d) /\ Reads(e, d) /\ d.zin = NoZlib /\ d.pos = s.got + 2
  BY <1>3, <1>4, SkipReads, ReadsAre
<1> HIDE DEF d
<1>7. PICK m : m = n
  OBVIOUS
<1>8. /\ IsReader(m) /\ Booked(d, m) /\ m.metadata = d.metadata /\ m.pos = s.got + 2
      /\ m.eof = d.eof
  BY <1>6, <1>7 DEF IsReader, Booked
<1>9. f = SkipMark(m) /\ r = IF AtMark(m, "START_MAGIC") THEN f ELSE StopIteration(f)
  BY <1>1, <1>3, <1>5, <1>7
<1> HIDE DEF f, n, u
<1>10. Reads(m, f) /\ IsReader(f)
  BY <1>8, <1>9, SkipReads, ReadsAre
<1>11. Booked(s, f) /\ f.metadata = s.metadata /\ ~f.eof
  <2>1. Reads(s, d)
    BY <1>4, <1>6, ReadsTwice
  <2>2. QED
    BY <1>8, <1>10, <2>1 DEF Reads, Scans, Booked
<1>12. Booked(s, r) /\ r.metadata = s.metadata
  BY <1>9, <1>10, <1>11, StopBooks DEF Booked
<1>13. ASSUME r.eof PROVE PyFileEnd = s.got + 2
  <2>1. ~AtMark(m, "START_MAGIC")
    BY <1>9, <1>11, <1>13
  <2>2. ASSUME s.got + 2 < PyFileEnd PROVE FALSE
    <3>1. (s.got + 2) + 1 \in DOMAIN pfile
      BY <1>0, <2>2
    <3>2. pfile[(s.got + 2) + 1].kind = "START_MAGIC"
      BY <1>2, <3>1, NextCell, WholeUntorn
    <3>3. QED
      BY <1>8, <2>1, <2>2, <3>2 DEF AtMark
  <2>3. QED
    BY <1>0, <1>2, <2>2
<1>14. ASSUME ~r.eof
       PROVE  r.pos = s.got + 3 /\ r.zin = NoZlib /\ Blanks(s.got, s.got + 3)
  <2>1. /\ r.pos = s.got + 3 /\ pfile[r.pos].kind = "START_MAGIC" /\ r.zin = NoZlib
    BY <1>0, <1>14, AfterFooterIs
  <2>2. ASSUME NEW i \in s.got + 1 .. s.got + 3
        PROVE  i \notin HeaderCells /\ i \notin FooterCells
    <3>1. i = s.got + 1 \/ i = s.got + 2 \/ i = s.got + 3
      BY <1>0
    <3>2. pfile[i].kind # "message"
      BY <1>2, <2>1, <3>1
    <3>3. QED
      BY <3>2 DEF HeaderCells, FooterCells, HasId
  <2>3. QED
    BY <2>1, <2>2 DEF Blanks
<1>15. QED
  BY <1>12, <1>13, <1>14

LEMMA FindExplores ==
  ASSUME FileRight(pfile), Whole(pfile), NEW s, IsReader(s), NEW k, Explored(s, k),
         NEW r, r = FindCurrentMetadata(s), r.status = "ok"
  PROVE  Explored(r, k)
<1> DEFINE m == MetadataAt(s, Tell(s))
           c == [m EXCEPT !.current_metadata = m.found]
           a == ReadAllMetaInfo(s)
           Found(t, x) == [t EXCEPT !.found = x]
<1>1. r = IF m.status = "ok" THEN c ELSE m
  BY DEF FindCurrentMetadata, Then
<1>2. m.status = "ok" /\ r = c
  BY <1>1
<1>3. IsReader(m) /\ Explored(m, k)
  <2>1. \/ m = Fail(s, "IndexError")
        \/ \E x : m = Found(s, x)
        \/ m = IF a.status = "ok" THEN Found(a,
                    IF {j \in DOMAIN a.metadata : j > Tell(s)} = {} THEN None
                    ELSE a.metadata[Min({j \in DOMAIN a.metadata : j > Tell(s)})])
               ELSE a
    BY DEF MetadataAt, Then
  <2> HIDE DEF m
  <2>2. Fail(s, "IndexError").status = "IndexError"
    BY FailReads
  <2>3. ASSUME NEW t, NEW x, IsReader(t), Explored(t, k), m = Found(t, x)
        PROVE  IsReader(m) /\ Explored(m, k)
    <3>1. IsReader(m) /\ Booked(t, m) /\ m.metadata = t.metadata
      BY <2>3 DEF IsReader, Booked
    <3>2. QED
      BY <2>3, <3>1, ExploredSame
  <2>4. CASE \E x : m = Found(s, x)
    BY <2>3, <2>4
  <2>5. Scans(s, a) /\ IsReader(a)
    BY ReadAllScans, ReadsAre
  <2>6. s.all_meta => Discovered(s)
    BY DEF Explored
  <2>7. a.status = "ok" => Explored(a, k)
    <3>1. ASSUME a.status = "ok" PROVE Discovered(a) /\ a.all_meta
      BY <2>6, <3>1, ReadAllFinds
    <3>2. QED
      BY <3>1 DEF Explored
  <2> HIDE DEF a, Found
  <2>8. CASE ~(\E x : m = Found(s, x)) /\ m # Fail(s, "IndexError")
    <3>1. a.status = "ok" /\ \E x : m = Found(a, x)
      BY <1>2, <2>1, <2>8
    <3>2. QED
      BY <2>3, <2>5, <2>7, <3>1 DEF Found
  <2>9. QED
    BY <1>2, <2>2, <2>4, <2>8 DEF Found
<1> HIDE DEF m
<1>4. Booked(m, r) /\ r.metadata = m.metadata
  BY <1>2, <1>3 DEF IsReader, Booked
<1>5. QED
  BY <1>3, <1>4, ExploredSame

\* What the loop knows after a call of next()
Told(s) ==
    IF s.eof THEN s.size = PyFileEnd /\ (s.all_meta => Discovered(s))
    ELSE Explored(s, At(s))

LEMMA HeaderMet ==
  ASSUME FileRight(pfile), NEW i \in HeaderCells, NEW s, NEW r, Explored(s, i - 1),
         r.headers = With(s.headers, i - 1, i), r.metadata = s.metadata, r.size = s.size,
         r.footers = s.footers, r.all_meta = s.all_meta
  PROVE  Explored(r, i)
<1>1. i \in Nat /\ \A j \in HeaderCells : j \in Nat
  BY HeaderPlain
<1>2. Keyed(s)
  BY DEF Explored, Met, Discovered
<1>3. Keyed(r) /\ DOMAIN r.headers = DOMAIN s.headers \cup {i - 1}
  BY <1>2, HeaderKeyed
<1>4. CASE s.all_meta
  <2>1. Discovered(s)
    BY <1>4 DEF Explored
  <2>2. Discovered(r)
    BY <1>3, <2>1 DEF Discovered
  <2>3. QED
    BY <1>4, <2>2 DEF Explored
<1>5. CASE ~s.all_meta
  <2>1. Met(s, i - 1)
    BY <1>5 DEF Explored
  <2>2. HasId(pfile[i], StreamHeaderId)
    BY DEF HeaderCells
  <2>3. ASSUME NEW j \in FooterCells PROVE j <= i <=> j <= i - 1
    <3>1. j # i
      BY <2>2, <2>3, PyIdsDiffer DEF FooterCells, HasId
    <3>2. j \in Nat
      BY <2>3, FooterStream
    <3>3. QED
      BY <1>1, <3>1, <3>2
  <2>4. FootersTo(i) = FootersTo(i - 1)
    BY <2>3 DEF FootersTo
  <2>5. ASSUME NEW j \in HeaderCells, j <= i PROVE j - 1 \in DOMAIN r.headers
    <3>1. j = i \/ j <= i - 1
      BY <1>1, <2>5
    <3>2. QED
      BY <1>3, <2>1, <2>5, <3>1 DEF Met
  <2>6. Met(r, i)
    BY <1>3, <2>1, <2>4, <2>5 DEF Met
  <2>7. QED
    BY <1>5, <2>6 DEF Explored
<1>6. QED
  BY <1>4, <1>5

LEMMA MetadataMet ==
  ASSUME FileRight(pfile), NEW i \in MetadataCells, NEW k, NEW s, NEW r, Explored(s, k),
         r.metadata = With(s.metadata, Place(pfile, i), i), r.headers = s.headers,
         r.size = s.size, r.footers = s.footers, r.all_meta = s.all_meta
  PROVE  Explored(r, k)
<1>1. Keyed(s)
  BY DEF Explored, Met, Discovered
<1>2. Keyed(r) /\ DOMAIN s.metadata \subseteq DOMAIN r.metadata
  BY <1>1, EntryKeyed
<1>3. CASE s.all_meta
  <2>1. Discovered(s)
    BY <1>3 DEF Explored
  <2>2. Discovered(r)
    BY <1>2, <2>1 DEF Discovered
  <2>3. QED
    BY <1>3, <2>2 DEF Explored
<1>4. CASE ~s.all_meta
  <2>1. Met(s, k)
    BY <1>4 DEF Explored
  <2>2. Met(r, k)
    BY <1>2, <2>1 DEF Met
  <2>3. QED
    BY <1>4, <2>2 DEF Explored
<1>5. QED
  BY <1>3, <1>4

LEMMA HandleTells ==
  ASSUME FileRight(pfile), Whole(pfile), NEW s, Took(s), ~s.eof, s.status = "ok",
         pfile[s.got].id \notin CompressionIds, Explored(s, s.got - 1),
         NEW h, h = Handle(s), h.status = "ok"
  PROVE  Told(h)
<1>0. /\ IsReader(s) /\ IsMessage(pfile[s.got]) /\ s.got \in DOMAIN pfile /\ s.got \in Nat
      /\ s.got >= 1 /\ s.got - 1 \in Nat /\ s.got - 1 <= s.got /\ At(s) = s.got
      /\ Placed(s)
  BY CellIs DEF Took, Placed
<1> DEFINE c == pfile[s.got]
<1>1. ASSUME Explored(h, s.got), ~h.eof, h.pos = s.pos, h.zin = s.zin PROVE Told(h)
  BY <1>0, <1>1 DEF Told, At
<1>2. ASSUME ~HasId(c, StreamHeaderId), ~HasId(c, StreamFooterId) PROVE Explored(s, s.got)
  <2>1. Blanks(s.got - 1, s.got)
    BY <1>0, <1>2 DEF Blanks, HeaderCells, FooterCells
  <2>2. QED
    BY <1>0, <2>1, ExploredOn
<1>3. CASE HasId(c, StreamHeaderId) /\ h = Headered(s)
  <2>1. s.got \in HeaderCells
    BY <1>0, <1>3 DEF HeaderCells
  <2>2. s.zin = NoZlib
    BY <2>1, HeaderPlain DEF Took
  <2>3. Tell(s) = s.got
    BY <1>0, <2>2 DEF Tell, At
  <2>4. /\ h.headers = With(s.headers, s.got - 1, s.got) /\ h.metadata = s.metadata
        /\ h.size = s.size /\ h.footers = s.footers /\ h.all_meta = s.all_meta
        /\ h.pos = s.pos /\ h.zin = s.zin /\ h.eof = s.eof
    BY <1>0, <1>3, <2>3, HeaderedIs
  <2>5. Explored(h, s.got)
    BY <2>1, <2>4, HeaderMet
  <2>6. QED
    BY <1>1, <2>4, <2>5
<1>4. CASE HasId(c, StreamFooterId) /\ h = AfterFooter(ProcessFooter(s, c.body))
  <2>1. s.got \in FooterCells
    BY <1>0, <1>4 DEF FooterCells
  <2>2. ~c.z
    BY <1>0, <1>4, SectionCells
  <2>3. s.zin = NoZlib
    BY <2>2 DEF Took
  <2>4. Tell(s) = s.got /\ s.pos = s.got
    BY <1>0, <2>3 DEF Tell, At
  <2>5. PICK p : p = ProcessFooter(s, c.body)
    OBVIOUS
  <2>6. IsReader(p) /\ Explored(p, s.got) /\ (~p.all_meta => p.size = s.got + 2)
    BY <1>0, <2>1, <2>4, <2>5, FooterMet
  <2>7. p.pos = s.got /\ p.zin = NoZlib /\ p.got = s.got /\ ~p.eof
    BY <1>0, <2>3, <2>4, <2>5, ProcessFooterScans DEF Scans
  <2>8. h = AfterFooter(p)
    BY <1>4, <2>5
  <2>9. /\ Booked(p, h) /\ h.metadata = p.metadata
        /\ h.eof => PyFileEnd = p.got + 2
        /\ ~h.eof => h.pos = p.got + 3 /\ h.zin = NoZlib /\ Blanks(p.got, p.got + 3)
    BY <2>1, <2>6, <2>7, <2>8, AfterFooterWhole
  <2>10. Explored(h, s.got)
    BY <2>6, <2>9, ExploredSame
  <2>11. CASE h.eof
    <3>1. h.size = p.size /\ h.all_meta = p.all_meta
      BY <2>9 DEF Booked
    <3>2. h.all_meta => Discovered(h)
      BY <2>10 DEF Explored
    <3>3. h.size = PyFileEnd
      BY <2>6, <2>7, <2>9, <2>11, <3>1, <3>2 DEF Discovered
    <3>4. QED
      BY <2>11, <3>2, <3>3 DEF Told
  <2>12. CASE ~h.eof
    <3>1. h.pos = s.got + 3 /\ h.zin = NoZlib /\ Blanks(s.got, s.got + 3)
      BY <2>7, <2>9, <2>12
    <3>2. s.got + 3 \in Nat /\ s.got <= s.got + 3
      BY <1>0
    <3>3. Explored(h, s.got + 3)
      BY <1>0, <2>10, <3>1, <3>2, ExploredOn
    <3>4. QED
      BY <2>12, <3>1, <3>3 DEF Told, At
  <2>13. QED
    BY <2>11, <2>12
<1>5. CASE HasId(c, ProtoClassId) /\ h = ReportProtoClass(s, c.body)
  <2>1. Explored(s, s.got)
    BY <1>2, <1>5, PyIdsDiffer DEF HasId
  <2>2. Reads(s, h) /\ h.pos = s.pos /\ h.zin = s.zin
    BY <1>0, <1>5, ReportReads
  <2>3. Explored(h, s.got)
    BY <2>1, <2>2, ReadsBooks, ExploredSame
  <2>4. ~h.eof
    BY <2>2 DEF Reads, Scans
  <2>5. QED
    BY <1>1, <2>2, <2>3, <2>4
<1>6. CASE IsMetadata(c) /\ h = OnMetadata(s)
  <2>1. Explored(s, s.got)
    BY <1>2, <1>6 DEF HasId, IsMetadata, IsUserMessage, FixedIds
  <2>2. s.got \in MetadataCells /\ MetadataKey(s) = Place(pfile, s.got)
    BY <1>6, KeyLeads
  <2>3. PICK n : n = Recorded(s)
    OBVIOUS
  <2>4. /\ IsReader(n) /\ n.pos = s.pos /\ n.zin = s.zin /\ n.eof = s.eof
        /\ n.metadata = With(s.metadata, Place(pfile, s.got), s.got)
        /\ n.size = s.size /\ n.footers = s.footers /\ n.headers = s.headers
        /\ n.all_meta = s.all_meta
    BY <1>0, <2>2, <2>3, RecordedIs
  <2>5. Explored(n, s.got)
    BY <2>1, <2>2, <2>4, MetadataMet
  <2>6. h = Current(n) \/ h = FindCurrentMetadata(n)
    BY <1>6, <2>3, OnMetadataIs
  <2>7. CASE h = Current(n)
    <3>1. /\ h.pos = s.pos /\ h.zin = s.zin /\ ~h.eof /\ Booked(n, h)
          /\ h.metadata = n.metadata
      BY <2>4, <2>7, CurrentIs DEF Booked
    <3>2. QED
      BY <1>1, <2>5, <3>1, ExploredSame
  <2>8. CASE h = FindCurrentMetadata(n)
    <3>1. Looks(n, h)
      BY <2>4, <2>8, FindLooks
    <3>2. Explored(h, s.got)
      BY <2>4, <2>5, <2>8, FindExplores
    <3>3. QED
      BY <1>1, <2>4, <3>1, <3>2 DEF Looks
  <2>9. QED
    BY <2>6, <2>7, <2>8
<1>7. CASE IsEvent(c) /\ h = OnEvent(s)
  <2>1. Explored(s, s.got)
    BY <1>2, <1>7 DEF HasId, IsEvent, IsUserMessage, FixedIds
  <2>2. h = s \/ h = FindCurrentMetadata(s)
    BY <1>7 DEF OnEvent
  <2>3. CASE h = FindCurrentMetadata(s)
    <3>1. Looks(s, h)
      BY <1>0, <2>3, FindLooks
    <3>2. Explored(h, s.got)
      BY <1>0, <2>1, <2>3, FindExplores
    <3>3. QED
      BY <1>1, <3>1, <3>2 DEF Looks
  <2>4. QED
    BY <1>1, <2>1, <2>2, <2>3
<1>8. QED
  BY <1>0, <1>3, <1>4, <1>5, <1>6, <1>7, HandleCases

LEMMA HandleNextTells ==
  ASSUME FileRight(pfile), Whole(pfile), NEW s, Placed(s), s.status = "ok", ~s.eof,
         Explored(s, At(s)), NEW h, h = HandleNext(s), h.status = "ok"
  PROVE  Told(h)
<1>1. PICK r : r = ReadMessage(s)
  OBVIOUS
<1>2. IsReader(s) /\ At(s) \in Nat
  BY DEF Placed, At
<1>3. h = IF r.status = "ok" THEN Handle(r) ELSE r
  BY <1>1 DEF HandleNext, Then
<1>4. r.status = "ok" /\ h = Handle(r)
  BY <1>3
<1>5. /\ Reads(s, r) /\ Took(r) /\ r.got > At(s) /\ Passes(At(s), r.got - 1)
      /\ pfile[r.got].id \notin CompressionIds
  BY <1>1, <1>2, <1>4, ReadMessageTakes
<1>6. ~r.eof
  BY <1>5 DEF Reads, Scans
<1>7. r.got \in Nat /\ r.got - 1 \in Nat /\ At(s) <= r.got - 1
  <2>1. r.got \in Nat
    BY <1>5, CellIs DEF Took
  <2>2. QED
    BY <1>2, <1>5, <2>1
<1>8. Explored(r, At(s))
  BY <1>5, ReadsBooks, ExploredSame
<1>9. Explored(r, r.got - 1)
  BY <1>2, <1>5, <1>7, <1>8, PassesBlanks, ExploredOn
<1>10. QED
  BY <1>4, <1>5, <1>6, <1>9, HandleTells

LEMMA NextMessageTells ==
  ASSUME FileRight(pfile), Whole(pfile), NEW s, Placed(s), s.status = "ok", ~s.eof,
         Explored(s, At(s)), NEW r, r = NextMessage(s), r.status = "ok"
  PROVE  Told(r)
<1>1. PICK read : /\ read[0] = HandleNext(s)
                  /\ \A n \in 1 .. PyFileEnd : read[n] = HandleOnce(read[n - 1])
                  /\ r = read[PyFileEnd]
  BY NextMessageSteps
<1>2. PyFileEnd \in Nat
  BY DEF FileRight, PyFileEnd
<1> DEFINE Good(q) == Told(q) /\ (q.eof \/ Placed(q))
           right == {n \in 0 .. PyFileEnd : read[n].status = "ok" => Good(read[n])}
<1>3. ASSUME NEW p, Placed(p), p.status = "ok", ~p.eof, Told(p),
             NEW q, q = HandleNext(p), q.status = "ok"
      PROVE  Good(q)
  <2>1. Told(q)
    BY <1>3, HandleNextTells DEF Told
  <2>2. q.eof \/ Placed(q)
    BY <1>3, HandleNextMoves DEF Progress
  <2>3. QED
    BY <2>1, <2>2
<1>4. 0 \in right
  <2>1. Told(s)
    BY DEF Told
  <2>2. PICK q : q = read[0]
    OBVIOUS
  <2>3. q.status = "ok" => Good(q)
    BY <1>1, <1>3, <2>1, <2>2
  <2>4. QED
    BY <1>2, <2>2, <2>3
<1>5. ASSUME NEW n \in 0 + 1 .. PyFileEnd, n - 1 \in right PROVE n \in right
  <2>1. n \in 1 .. PyFileEnd /\ n \in 0 .. PyFileEnd /\ read[n] = HandleOnce(read[n - 1])
    BY <1>1, <1>2
  <2>2. PICK p : p = read[n - 1]
    OBVIOUS
  <2>3. PICK q : q = read[n]
    OBVIOUS
  <2>4. q = HandleOnce(p) /\ (p.status = "ok" => Good(p))
    BY <1>5, <2>1, <2>2, <2>3
  <2>5. SUFFICES ASSUME q.status = "ok" PROVE Good(q)
    BY <2>1, <2>3
  <2>6. p.status = "ok"
    BY <2>4, <2>5 DEF HandleOnce
  <2>7. q = p \/ (~p.eof /\ q = HandleNext(p))
    BY <2>4, <2>6 DEF HandleOnce
  <2>8. QED
    BY <1>3, <2>4, <2>5, <2>6, <2>7
<1> HIDE DEF right
<1>6. \A n \in 0 .. PyFileEnd : n \in right
  BY <1>2, <1>4, <1>5, NumberByNumber
<1>7. PyFileEnd \in right
  BY <1>2, <1>6
<1>8. QED
  BY <1>1, <1>7 DEF right

LEMMA ConstructTells ==
  ASSUME FileRight(pfile), pin = NewPyReader(FALSE), Construct, pin'.status = "ok"
  PROVE  Told(pin')
<1>1. PICK split \in Splits :
         LET h == ReadHeader(NewPyReader(split)) IN
         pin' = IF h.status # "ok" THEN h
                ELSE [h EXCEPT !.current_header = h.got, !.metadata_change = TRUE]
  BY DEF Construct
<1>2. PICK s : s = NewPyReader(split)
  OBVIOUS
<1>3. PICK h : h = ReadHeader(s)
  OBVIOUS
<1>4. /\ IsReader(s) /\ s.pos = 0 /\ s.zin = NoZlib /\ s.status = "ok" /\ ~s.eof
      /\ s.size = 0 /\ DOMAIN s.headers = {} /\ s.footers = {} /\ DOMAIN s.metadata = {}
      /\ ~s.all_meta
  BY <1>2 DEF NewPyReader, IsReader
<1>5. Placed(s)
  BY <1>4 DEF Placed, NoZlib
<1>6. Sized(s, h) /\ IsReader(h)
  BY <1>3, <1>4, ReadHeaderTakes, ReadsAre
<1>7. h.status = "ok" /\ pin' = [h EXCEPT !.current_header = h.got, !.metadata_change = TRUE]
  BY <1>1, <1>2, <1>3
<1>8. s.pos + 1 = 1 /\ s.pos + 2 = 2
  BY <1>4
<1>9. /\ Took(h) /\ h.got = 2 /\ HasId(pfile[h.got], StreamHeaderId)
      /\ pfile[1].kind = "START_MAGIC" /\ h.headers = With(s.headers, 1, 2)
      /\ h.footers = s.footers /\ h.metadata = s.metadata /\ h.all_meta = s.all_meta
  BY <1>3, <1>4, <1>5, <1>7, <1>8, ReadHeaderTakes
<1>10. /\ pin'.pos = h.pos /\ pin'.zin = h.zin /\ pin'.eof = h.eof /\ Booked(h, pin')
       /\ pin'.metadata = h.metadata
  BY <1>6, <1>7 DEF IsReader, Booked
<1>11. h.size = 0 /\ ~h.eof
  BY <1>4, <1>6 DEF Sized, Scans
<1>12. Met(s, 1)
  <2>1. \A i \in DOMAIN pfile : i <= 1 => i = 1
    BY CellIs
  <2>2. 1 \notin HeaderCells /\ 1 \notin FooterCells
    BY <1>9 DEF HeaderCells, FooterCells, HasId
  <2>3. FootersTo(1) = {} /\ \A i \in HeaderCells : ~(i <= 1)
    BY <2>1, <2>2 DEF FootersTo, HeaderCells, FooterCells
  <2>4. Keyed(s)
    BY <1>4 DEF Keyed
  <2>5. s.footers = {i - 3 : i \in FootersTo(1)}
    BY <1>4, <2>3
  <2>6. QED
    BY <1>4, <2>3, <2>4, <2>5 DEF Met
<1>13. Explored(s, 1)
  BY <1>4, <1>12 DEF Explored
<1>14. Explored(h, 2)
  <2>1. 2 \in HeaderCells /\ 2 - 1 = 1
    BY <1>9 DEF HeaderCells, Took
  <2>2. h.size = s.size
    BY <1>4, <1>11
  <2>3. QED
    BY <1>9, <1>13, <2>1, <2>2, HeaderMet
<1>15. At(pin') = 2 /\ ~pin'.eof
  BY <1>9, <1>10, <1>11 DEF Took, At
<1>16. Explored(pin', 2)
  BY <1>10, <1>14, ExploredSame
<1>17. QED
  BY <1>15, <1>16 DEF Told

\* Another call of next(), a scan of the footers, or neither
LEMMA ReadTells ==
  ASSUME FileRight(pfile), Whole(pfile), Placed(pin), pin.status = "ok", ~pin.eof, Told(pin),
         BeginLoop \/ NextEvent \/ NextGroup \/ NextInGroup \/ Info \/ LeaveGroup,
         pin'.status = "ok"
  PROVE  Told(pin')
<1>1. PICK r : r = NextMessage(pin)
  OBVIOUS
<1>2. r.status = "ok" => Told(r) /\ (r.eof \/ Placed(r))
  BY <1>1, NextMessageTells, NextMessageMoves DEF Told, Progress
<1>3. IsReader(pin) /\ Explored(pin, At(pin))
  BY DEF Placed, Told
<1>4. ASSUME NEW t, IsReader(t), ~t.eof, Told(t), pin' = [t EXCEPT !.metadata_change = FALSE]
      PROVE  Told(pin')
  <2>1. /\ Booked(t, pin') /\ pin'.metadata = t.metadata /\ pin'.pos = t.pos
        /\ pin'.zin = t.zin /\ pin'.eof = t.eof
    BY <1>4 DEF IsReader, Booked
  <2>2. Explored(pin', At(t))
    BY <1>4, <2>1, ExploredSame DEF Told
  <2>3. QED
    BY <1>4, <2>1, <2>2 DEF Told, At
<1>5. CASE pin' = pin
  BY <1>5
<1>6. CASE NextEvent
  BY <1>1, <1>2, <1>6 DEF NextEvent
<1>7. CASE NextInGroup
  BY <1>1, <1>2, <1>5, <1>7 DEF NextInGroup
<1>8. CASE NextGroup
  <2>1. Fail(pin, "AssertionError").status = "AssertionError"
    BY <1>3, FailReads
  <2>2. PICK t : /\ t = IF iter.next_first = NoEvent THEN r ELSE pin
                 /\ IF t.status # "ok" \/ t.eof THEN pin' = t
                    ELSE pin' = [t EXCEPT !.metadata_change = FALSE]
    BY <1>1, <1>8, <2>1 DEF NextGroup
  <2>3. CASE t.status # "ok" \/ t.eof
    BY <1>2, <2>2, <2>3
  <2>4. CASE t.status = "ok" /\ ~t.eof
    <3>1. Told(t) /\ IsReader(t)
      BY <1>2, <1>3, <2>2, <2>4 DEF Placed
    <3>2. QED
      BY <1>4, <2>2, <2>4, <3>1
  <2>5. QED
    BY <2>3, <2>4
<1>9. CASE Info
  <2>1. PICK a : a = ReadAllMetaInfo(pin)
    OBVIOUS
  <2>2. pin' = IF a.status = "ok" /\ DOMAIN a.headers = {} THEN Fail(a, "IndexError") ELSE a
    BY <1>9, <2>1 DEF Info
  <2>3. /\ Scans(pin, a) /\ IsReader(a)
        /\ a.status = "ok" => a.pos = pin.pos /\ a.zin = pin.zin
    BY <1>3, <2>1, ReadAllScans, ReadsAre
  <2>4. pin' = a /\ a.status = "ok"
    BY <2>2, <2>3, FailReads
  <2>5. Discovered(a) /\ a.all_meta
    BY <1>3, <2>1, <2>4, ReadAllFinds DEF Explored
  <2>6. ~a.eof
    BY <2>3 DEF Scans
  <2>7. QED
    BY <2>4, <2>5, <2>6 DEF Told, Explored
<1>10. CASE BeginLoop \/ LeaveGroup
  BY <1>5, <1>10 DEF BeginLoop, LeaveGroup
<1>11. QED
  BY <1>6, <1>7, <1>8, <1>9, <1>10

LEMMA MatchingSizes ==
  ASSUME NEW S, NEW T, IsFiniteSet(T), NEW f \in [S -> T],
         \A x, y \in S : f[x] = f[y] => x = y,
         \A t \in T : \E x \in S : f[x] = t
  PROVE  Cardinality(S) = Cardinality(T)
<1>1. f \in Injection(S, T)
  BY DEF Injection, IsInjective
<1>2. f \in Surjection(S, T)
  BY DEF Surjection
<1>3. f \in Bijection(S, T)
  BY <1>1, <1>2 DEF Bijection
<1>4. ExistsBijection(S, T)
  BY <1>3 DEF ExistsBijection
<1>5. ExistsBijection(T, S)
  BY <1>4, Fun_ExistsBijSymmetric
<1>6. QED
  BY <1>5, FS_Bijection

\* Every stream of a whole file has its footer: the one of the stream in front of it
\* is found at its start.
LEMMA FootersAreStarts ==
  ASSUME FileRight(pfile), Whole(pfile)
  PROVE  Cardinality({i - 3 : i \in FooterCells}) = Cardinality(Starts)
<1> DEFINE F == {i - 3 : i \in FooterCells}
           f == [x \in F |-> IF x + 5 = PyFileEnd THEN 1 ELSE x + 6]
<1>1. PyFileEnd \in Nat /\ DOMAIN pfile = 1 .. PyFileEnd /\ PyFileEnd = Len(pfile)
  BY DEF FileRight, PyFileEnd
<1>2. \A i \in FooterCells : /\ i \in Nat /\ i >= 1 /\ i + 2 \in DOMAIN pfile
                             /\ pfile[i + 2].kind = "END_MAGIC"
  BY FooterStream, FooterBehind
<1>3. IsFiniteSet(Starts)
  <2>1. IsFiniteSet(1 .. PyFileEnd)
    BY <1>1, FS_Interval
  <2>2. Starts \subseteq 1 .. PyFileEnd
    BY <1>1 DEF Starts
  <2>3. QED
    BY <2>1, <2>2, FS_Subset
<1>4. ASSUME NEW x \in F
      PROVE  x \in Int /\ x >= -2 /\ x + 5 \in DOMAIN pfile /\ pfile[x + 5].kind = "END_MAGIC"
  <2>1. PICK i \in FooterCells : x = i - 3
    OBVIOUS
  <2>2. x + 5 = i + 2 /\ x \in Int /\ x >= -2
    BY <1>2, <2>1
  <2>3. QED
    BY <1>2, <2>2
<1>5. 1 \in DOMAIN pfile => 1 \in Starts
  <2>1. SUFFICES ASSUME 1 \in DOMAIN pfile PROVE pfile[1].kind = "START_MAGIC"
    BY DEF Starts
  <2>2. PICK b \in 0 .. 1 - 1 : CellRight(pfile, b, 1)
    BY <2>1, CellIs
  <2>3. b = 0
    BY <2>2
  <2>4. pfile[1].kind \in {"START_MAGIC", "TORN_MAGIC"}
    BY <2>2, <2>3 DEF CellRight
  <2>5. QED
    BY <2>1, <2>4, WholeUntorn
<1>6. ASSUME NEW x \in F, x + 5 # PyFileEnd PROVE x + 6 \in Starts
  <2>1. (x + 5) + 1 = x + 6 /\ x + 6 \in DOMAIN pfile
    BY <1>1, <1>4, <1>6
  <2>2. pfile[x + 6].kind = "START_MAGIC"
    BY <1>4, <2>1, NextCell, WholeUntorn
  <2>3. QED
    BY <2>1, <2>2 DEF Starts
<1>7. ASSUME NEW x \in F PROVE f[x] \in Starts
  <2>1. 1 \in DOMAIN pfile
    BY <1>1, <1>4
  <2>2. QED
    BY <1>5, <1>6, <2>1
<1>8. ASSUME NEW x \in F, NEW y \in F, f[x] = f[y] PROVE x = y
  BY <1>1, <1>4, <1>8
<1>9. ASSUME NEW t \in Starts PROVE \E x \in F : f[x] = t
  <2>1. t \in DOMAIN pfile /\ pfile[t].kind = "START_MAGIC" /\ t \in Nat /\ t >= 1
        /\ t <= PyFileEnd
    BY <1>1 DEF Starts
  <2>2. ASSUME NEW e \in DOMAIN pfile, pfile[e].kind = "END_MAGIC"
        PROVE  e - 5 \in F
    <3>0. PICK b \in Nat : b + 4 < e /\ HasId(pfile[e - 2], StreamFooterId)
      BY <2>2, EndOfStream
    <3>1. HasId(pfile[e - 2], StreamFooterId) /\ e > 4 /\ e \in Nat
      BY <1>1, <2>2, <3>0
    <3>2. e - 2 \in DOMAIN pfile
      BY <1>1, <2>2, <3>1
    <3>3. e - 2 \in FooterCells /\ (e - 2) - 3 = e - 5
      BY <3>1, <3>2, <2>2, CellIs DEF FooterCells
    <3>4. QED
      BY <3>3
  <2>3. CASE t = 1
    <3>1. PyFileEnd \in DOMAIN pfile
      BY <1>1, <2>1
    <3>2. pfile[PyFileEnd].kind = "END_MAGIC"
      BY <1>1, <3>1 DEF Whole
    <3>3. PyFileEnd - 5 \in F /\ (PyFileEnd - 5) + 5 = PyFileEnd
      BY <1>1, <2>2, <3>1, <3>2
    <3>4. QED
      BY <2>3, <3>3
  <2>4. CASE t # 1
    <3>1. t - 1 \in DOMAIN pfile /\ (t - 1) + 1 = t
      BY <1>1, <2>1, <2>4
    <3>2. pfile[t - 1].kind = "END_MAGIC"
      BY <2>1, <3>1 DEF Whole
    <3>3. (t - 1) - 5 \in F
      BY <2>2, <3>1, <3>2
    <3>4. (t - 1) - 5 = t - 6 /\ (t - 6) + 5 # PyFileEnd /\ (t - 6) + 6 = t
      BY <1>1, <2>1
    <3>5. QED
      BY <3>3, <3>4
  <2>5. QED
    BY <2>3, <2>4
<1>10. f \in [F -> Starts]
  BY <1>7
<1> HIDE DEF F, f
<1>11. Cardinality(F) = Cardinality(Starts)
  BY <1>3, <1>8, <1>9, <1>10, MatchingSizes
<1>12. QED
  BY <1>11 DEF F

\* What is known of the object as long as no exception was raised, the file being whole
ToldRight ==
    phase = "read" /\ iter.mode # "none" /\ ~cut /\ pin.status = "ok" => Told(pin)

LEMMA ToldInit == Init => ToldRight
BY DEF Init, ToldRight

LEMMA ToldStays ==
  ASSUME pfile' = pfile, Told(pin')
  PROVE  Told(pin)'
BY DEF Told, Explored, Met, Discovered, Keyed, At, HeaderCells, FooterCells, MetadataCells,
       FootersTo, Place, PyFileEnd

LEMMA ToldReads ==
  ASSUME WrittenRight, ReaderRight, ToldRight, phase = "read", ~cut, pin'.status = "ok",
         \/ iter.mode = "none" /\ Construct
         \/ BeginLoop \/ NextEvent \/ NextGroup \/ NextInGroup
         \/ Info
         \/ LeaveGroup
  PROVE  Told(pin')
<1>1. FileRight(pfile) /\ Whole(pfile)
  BY DEF WrittenRight
<1>2. CASE iter.mode = "none" /\ Construct
  <2>1. pin = NewPyReader(FALSE)
    BY <1>2 DEF ReaderRight
  <2>2. QED
    BY <1>1, <1>2, <2>1, ConstructTells
<1>3. CASE BeginLoop \/ NextEvent \/ NextGroup \/ NextInGroup \/ Info \/ LeaveGroup
  <2>1. pin.status = "ok" /\ ~pin.eof
    BY <1>3 DEF BeginLoop, NextEvent, NextGroup, NextInGroup, Info, LeaveGroup, Running
  <2>2. iter.mode # "none"
    <3>1. CASE LeaveGroup
      <4>1. iter.group
        BY <3>1 DEF LeaveGroup
      <4>2. ASSUME iter.mode = "none" PROVE FALSE
        <5>1. iter = NoIter
          BY <4>2 DEF ReaderRight
        <5>2. ~NoIter.group
          BY DEF NoIter
        <5>3. QED
          BY <4>1, <5>1, <5>2
      <4>3. QED
        BY <4>2
    <3>2. CASE ~LeaveGroup
      BY <1>3, <3>2 DEF BeginLoop, NextEvent, NextGroup, NextInGroup, Info
    <3>3. QED
      BY <3>1, <3>2
  <2>3. ClientRight(pin, iter, plog)
    BY <2>2 DEF ReaderRight
  <2>4. Placed(pin)
    BY <2>1, <2>3 DEF ClientRight, LoopRight
  <2>5. Told(pin)
    BY <2>1, <2>2 DEF ToldRight
  <2>6. QED
    BY <1>1, <1>3, <2>1, <2>4, <2>5, ReadTells
<1>4. QED
  BY <1>2, <1>3

LEMMA ToldNext ==
  ASSUME WrittenRight, ReaderRight, ToldRight, [Next]_vars
  PROVE  ToldRight'
<1>1. CASE UNCHANGED vars
  BY <1>1 DEF vars, ToldRight, Told, Explored, Met, Discovered, Keyed, At, HeaderCells,
              FooterCells, MetadataCells, FootersTo, Place, PyFileEnd
<1>2. CASE WriterStep \/ AppendStream \/ Crash
  <2>1. phase = "write" /\ iter' = iter
    BY <1>2 DEF WriterStep, AppendStream, Crash, reader
  <2>2. iter'.mode = "none"
    BY <2>1 DEF ReaderRight, NoIter
  <2>3. QED
    BY <2>2 DEF ToldRight
<1>3. CASE \/ Read(iter.mode = "none" /\ Construct)
           \/ ReadOn
           \/ Read(ScanAllowed /\ (Clash /\ ~LateScan => iter.mode = "new") /\ Info)
           \/ Read(LeaveGroup)
  <2>1. phase = "read" /\ cut' = cut
    BY <1>3 DEF Read, ReadOn
  <2>2. \/ iter.mode = "none" /\ Construct
        \/ BeginLoop \/ NextEvent \/ NextGroup \/ NextInGroup
        \/ Info
        \/ LeaveGroup
    BY <1>3 DEF Read, ReadOn
  <2>3. pfile' = pfile
    BY <2>1, <2>2, ReaderReads
  <2>4. ASSUME ~cut, pin'.status = "ok" PROVE Told(pin)'
    <3>1. Told(pin')
      BY <2>1, <2>2, <2>4, ToldReads
    <3>2. QED
      BY <2>3, <3>1, ToldStays
  <2>5. QED
    BY <2>1, <2>4 DEF ToldRight
<1>4. QED
  BY <1>1, <1>2, <1>3 DEF Next

LEMMA ReaderIsNew ==
  /\ NewPyReader(FALSE).status = "ok" /\ ~NewPyReader(FALSE).eof
  /\ ~NewPyReader(FALSE).all_meta
BY DEF NewPyReader

LEMMA IsTold ==
  ASSUME ReaderRight, ToldRight, WrittenRight, ~cut, pin.status = "ok",
         pin.eof \/ pin.all_meta
  PROVE  Told(pin)
<1>1. ASSUME phase = "write" \/ iter.mode = "none" PROVE FALSE
  BY <1>1, ReaderIsNew DEF ReaderRight
<1>2. phase = "read"
  BY <1>1 DEF WrittenRight
<1>3. QED
  BY <1>1, <1>2 DEF ToldRight

LEMMA SizeIsExact ==
  ASSUME ReaderRight, ToldRight, WrittenRight
  PROVE  PySizeExact
<1>1. ASSUME ~cut, pin.status = "ok", pin.eof \/ pin.all_meta PROVE pin.size = PyFileEnd
  <2>1. Told(pin)
    BY <1>1, IsTold
  <2>2. QED
    BY <1>1, <2>1 DEF Told, Explored, Discovered
<1>2. QED
  BY <1>1 DEF PySizeExact

LEMMA DiscoveryIsExact ==
  ASSUME ReaderRight, ToldRight, WrittenRight
  PROVE  PyDiscoveryExact
<1>1. SUFFICES ASSUME ~cut, pin.status = "ok", pin.all_meta
      PROVE
        /\ {<<k, pin.headers[k]>> : k \in DOMAIN pin.headers}
             = {<<i - 1, i>> : i \in {j \in DOMAIN pfile : HasId(pfile[j], StreamHeaderId)}}
        /\ Cardinality(pin.footers) = Cardinality(Starts)
        /\ \A i \in DOMAIN pfile : IsMetadata(pfile[i]) =>
               \E k \in DOMAIN pin.metadata :
                   pin.metadata[k] = i /\ k \in {i - 1, i - 2}
  BY DEF PyDiscoveryExact
<1>2. FileRight(pfile) /\ Whole(pfile)
  BY <1>1 DEF WrittenRight
<1>3. Discovered(pin)
  BY <1>1, IsTold DEF Told, Explored
<1>4. Keyed(pin)
  BY <1>3 DEF Discovered
<1>5. {<<k, pin.headers[k]>> : k \in DOMAIN pin.headers} = {<<i - 1, i>> : i \in HeaderCells}
  <2>1. ASSUME NEW k \in DOMAIN pin.headers
        PROVE  \E i \in HeaderCells : <<k, pin.headers[k]>> = <<i - 1, i>>
    <3>1. k + 1 \in HeaderCells /\ pin.headers[k] = k + 1
      BY <1>4 DEF Keyed
    <3>2. (k + 1) - 1 = k
      <4>1. k \in Int
        BY <1>4 DEF Keyed
      <4>2. QED
        BY <4>1
    <3>3. QED
      BY <3>1, <3>2
  <2>2. ASSUME NEW i \in HeaderCells
        PROVE  \E k \in DOMAIN pin.headers : <<k, pin.headers[k]>> = <<i - 1, i>>
    <3>1. i - 1 \in DOMAIN pin.headers
      BY <1>3 DEF Discovered
    <3>2. pin.headers[i - 1] = (i - 1) + 1
      BY <1>4, <3>1 DEF Keyed
    <3>3. i \in Nat
      BY <1>2, CellIs DEF HeaderCells
    <3>4. pin.headers[i - 1] = i
      BY <3>2, <3>3
    <3>5. QED
      BY <3>1, <3>4
  <2>3. QED
    BY <2>1, <2>2
<1>6. Cardinality(pin.footers) = Cardinality(Starts)
  BY <1>2, <1>3, FootersAreStarts DEF Discovered
<1>7. ASSUME NEW i \in DOMAIN pfile, IsMetadata(pfile[i])
      PROVE  \E k \in DOMAIN pin.metadata : pin.metadata[k] = i /\ k \in {i - 1, i - 2}
  <2>1. i \in MetadataCells
    BY <1>7 DEF MetadataCells
  <2>2. PICK k : k = Place(pfile, i)
    OBVIOUS
  <2>3. k \in DOMAIN pin.metadata
    BY <1>3, <2>1, <2>2 DEF Discovered
  <2>4. pin.metadata[k] \in MetadataCells /\ k = Place(pfile, pin.metadata[k])
    BY <1>4, <2>3 DEF Keyed
  <2>5. i \in Leading /\ pin.metadata[k] \in Leading
    BY <1>2, <2>1, <2>4, MetadataLead
  <2>6. pin.metadata[k] = i
    BY <1>2, <2>2, <2>4, <2>5, PlacesDiffer
  <2>7. k \in {i - 1, i - 2}
    BY <2>2 DEF Place
  <2>8. QED
    BY <2>3, <2>6, <2>7
<1>8. QED
  BY <1>5, <1>6, <1>7 DEF HeaderCells

\* read_all_meta_info(), process_footer() and next() of stream.py, of every file that
\* no crash cut: a scan knows every header, footer and metadata message, a loop those
\* it has passed, and the streams whose footers are known are what the size counts.
THEOREM ToldAlways ==
  ASSUME ~SharedIds
  PROVE  Spec => []ToldRight
<1>1. Init => ToldRight
  BY ToldInit
<1>2. WrittenRight /\ ReaderRight /\ ToldRight /\ [Next]_vars => ToldRight'
  BY ToldNext
<1>3. Spec => []WrittenRight
  BY WrittenAlways
<1>4. Spec => []ReaderRight
  BY ReaderAlways
<1>5. QED
  BY <1>1, <1>2, <1>3, <1>4, PTL DEF Spec

\* What info() of stream.py says is the size of the file is its size: process_footer
\* counts a stream once, whether the scan, the loop or both meet its footer, for every
\* number of streams, in every order of reading on and scanning.
THEOREM SizeExactAlways ==
  ASSUME ~SharedIds
  PROVE  Spec => []PySizeExact
BY WrittenAlways, ReaderAlways, ToldAlways, SizeIsExact, PTL

\* read_all_meta_info() of stream.py walks back from footer to footer by the sizes in
\* them and misses nothing: each header and each metadata message of every stream is in
\* its dict, at the place seek() finds it, and every stream has its footer counted.
THEOREM DiscoveryExactAlways ==
  ASSUME ~SharedIds
  PROVE  Spec => []PyDiscoveryExact
BY WrittenAlways, ReaderAlways, ToldAlways, DiscoveryIsExact, PTL

-----------------------------------------------------------------------------
(* The classes                                                              *)

IsPool(p) ==
    p = [class |-> p.class, files |-> p.files, fixed |-> p.fixed, clean |-> p.clean]

\* The class events are parsed as: they have the id 0, the first a stream gives to
\* a class it writes as events.
Knowing(s) == 0 \in DOMAIN s.pool.class
EventClass(s) == s.pool.class[0].name

\* A step that leaves the classes alone
SameClasses(s, r) == IsPool(s.pool) => IsPool(r.pool) /\ r.pool.class = s.pool.class

\* A step that may bring in the class of events of the file
Learns(s, r) ==
    IsPool(s.pool) =>
        /\ IsPool(r.pool)
        /\ Knowing(s) => Knowing(r)
        /\ Knowing(r) =>
              \/ Knowing(s) /\ EventClass(r) = EventClass(s)
              \/ \E k \in DOMAIN pfile : IsEvent(pfile[k]) /\ pfile[k].body.class = EventClass(r)

LEMMA LearnsTwice ==
  ASSUME NEW s, NEW r, NEW t
  PROVE  /\ SameClasses(s, s) /\ Learns(s, s)
         /\ SameClasses(s, r) => Learns(s, r)
         /\ SameClasses(s, r) /\ SameClasses(r, t) => SameClasses(s, t)
         /\ Learns(s, r) /\ Learns(r, t) => Learns(s, t)
<1>1. SameClasses(s, s) /\ Learns(s, s)
  BY DEF SameClasses, Learns
<1>2. SameClasses(s, r) => Learns(s, r)
  BY DEF SameClasses, Learns, Knowing, EventClass
<1>3. SameClasses(s, r) /\ SameClasses(r, t) => SameClasses(s, t)
  BY DEF SameClasses
<1>4. Learns(s, r) /\ Learns(r, t) => Learns(s, t)
  BY DEF Learns
<1>5. QED
  BY <1>1, <1>2, <1>3, <1>4

\* The same pool holds the same classes.
LEMMA SamePool ==
  ASSUME NEW s, NEW r, r.pool = s.pool
  PROVE  SameClasses(s, r)
BY DEF SameClasses

LEMMA FindKeeps ==
  ASSUME NEW s, IsReader(s), NEW id, NEW r, r = FindClassId(s, id)
  PROVE  SameClasses(s, r)
<1> DEFINE p == ClassIds(s)
<1>1. SameClasses(s, p) /\ IsReader(p)
  <2>1. CASE p = s
    BY <2>1, LearnsTwice
  <2>2. CASE p = Fail(s, "RuntimeError")
    BY <2>2, FailReads, SamePool, ReadsAre
  <2>3. CASE p = [s EXCEPT !.pool.clean = TRUE, !.pool.fixed = ClassesIn(s.pool.files)]
    <3>1. IsReader(p)
      BY <2>3 DEF IsReader
    <3>2. p.pool = [s.pool EXCEPT !.clean = TRUE, !.fixed = ClassesIn(s.pool.files)]
      BY <2>3 DEF IsReader
    <3>3. SameClasses(s, p)
      BY <3>2 DEF SameClasses, IsPool
    <3>4. QED
      BY <3>1, <3>3
  <2>4. QED
    BY <2>1, <2>2, <2>3 DEF ClassIds
<1> HIDE DEF p
<1>2. r \in {s, p} \/ r = Fail(p, "AttributeError")
  BY DEF FindClassId, Then, p
<1>3. CASE r = Fail(p, "AttributeError")
  <2>1. SameClasses(p, r)
    BY <1>1, <1>3, FailReads, SamePool
  <2>2. QED
    BY <1>1, <2>1, LearnsTwice
<1>4. QED
  BY <1>1, <1>2, <1>3, LearnsTwice

LEMMA FetchKeeps ==
  ASSUME NEW s, IsReader(s), NEW r, r = Fetch(s)
  PROVE  SameClasses(s, r)
<1>1. CASE \E e : r = Fail(s, e)
  BY <1>1, FailReads, SamePool
<1>2. CASE r = [s EXCEPT !.pos = @ + 1, !.got = s.pos + 1]
  BY <1>2, SamePool DEF IsReader
<1>3. CASE r = [s EXCEPT !.zin.next = @ + 1, !.got = s.zin.next + 1]
  BY <1>3, SamePool DEF IsReader
<1>4. QED
  BY <1>1, <1>2, <1>3 DEF Fetch

LEMMA DropKeeps ==
  ASSUME NEW s, IsReader(s), NEW r, r = DropCompression(s)
  PROVE  SameClasses(s, r) /\ (r.status = "ok" => s.status = "ok")
<1>1. CASE r = Fail(s, "zlib.error")
  BY <1>1, FailReads, SamePool
<1>2. CASE r = [s EXCEPT !.closed = TRUE]
  <2>1. r.pool = s.pool /\ r.status = s.status
    BY <1>2 DEF IsReader
  <2>2. QED
    BY <2>1, SamePool
<1>3. CASE r = [s EXCEPT !.pos = s.zin.next + (IF s.split THEN 0 ELSE 1), !.zin = NoZlib]
  <2>1. r.pool = s.pool /\ r.status = s.status
    BY <1>3 DEF IsReader
  <2>2. QED
    BY <2>1, SamePool
<1>4. QED
  BY <1>1, <1>2, <1>3 DEF DropCompression

LEMMA FetchKnownKeeps ==
  ASSUME NEW s, IsReader(s), NEW r, r = FetchKnown(s)
  PROVE  SameClasses(s, r)
<1> DEFINE f == Fetch(s)
<1>1. SameClasses(s, f) /\ IsReader(f)
  BY FetchReads, FetchKeeps, ReadsAre
<1>2. r = IF f.status = "ok" THEN FindClassId(f, pfile[f.got].id) ELSE f
  BY DEF FetchKnown, Then
<1> HIDE DEF f
<1>3. SameClasses(f, r)
  BY <1>1, <1>2, FindKeeps, LearnsTwice
<1>4. QED
  BY <1>1, <1>3, LearnsTwice

LEMMA ReadOnceKeeps ==
  ASSUME NEW s, IsReader(s), NEW r, r = ReadOnce(s)
  PROVE  SameClasses(s, r)
<1> DEFINE t == Section(s)
<1>1. SameClasses(s, t) /\ IsReader(t)
  <2>1. CASE t = OpenSection(s)
    BY <2>1, SamePool DEF OpenSection, IsReader
  <2>2. CASE t = DropCompression(s)
    BY <2>2, DropKeeps, DropReads, ReadsAre
  <2>3. QED
    BY <2>1, <2>2 DEF Section
<1>2. r = s \/ r = t \/ r = FetchKnown(t)
  BY DEF ReadOnce, Then
<1> HIDE DEF t
<1>3. CASE r = FetchKnown(t)
  <2>1. SameClasses(t, r)
    BY <1>1, <1>3, FetchKnownKeeps
  <2>2. QED
    BY <1>1, <2>1, LearnsTwice
<1>4. QED
  BY <1>1, <1>2, <1>3, LearnsTwice

\* Reading a message reports no class.
LEMMA ReadMessageKeeps ==
  ASSUME FileRight(pfile), NEW s, IsReader(s), NEW r, r = ReadMessage(s)
  PROVE  SameClasses(s, r)
<1>1. PICK read : /\ read[0] = FetchKnown(s)
                  /\ \A n \in 1 .. PyFileEnd : read[n] = ReadOnce(read[n - 1])
                  /\ r = read[PyFileEnd]
  BY ReadMessageSteps
<1>2. PyFileEnd \in Nat
  BY DEF FileRight, PyFileEnd
<1> DEFINE kept == {n \in 0 .. PyFileEnd : IsReader(read[n]) /\ SameClasses(s, read[n])}
<1>3. 0 \in kept
  BY <1>1, <1>2, FetchKnownTakes, FetchKnownKeeps, ReadsAre
<1>4. ASSUME NEW n \in 0 + 1 .. PyFileEnd, n - 1 \in kept PROVE n \in kept
  <2>1. n \in 1 .. PyFileEnd /\ n \in 0 .. PyFileEnd
    BY <1>2
  <2>2. SameClasses(s, read[n - 1]) /\ IsReader(read[n - 1])
    BY <1>4
  <2>3. read[n] = ReadOnce(read[n - 1])
    BY <1>1, <2>1
  <2>4. SameClasses(read[n - 1], read[n])
    BY <2>2, <2>3, ReadOnceKeeps
  <2>5. IsReader(read[n])
    BY <2>2, <2>3, ReadOnceTakes, ReadsAre
  <2>6. SameClasses(s, read[n])
    BY <2>2, <2>4, LearnsTwice
  <2>7. QED
    BY <2>1, <2>5, <2>6
<1> HIDE DEF kept
<1>5. \A n \in 0 .. PyFileEnd : n \in kept
  BY <1>2, <1>3, <1>4, NumberByNumber
<1>6. PyFileEnd \in kept
  BY <1>2, <1>5
<1>7. QED
  BY <1>1, <1>6 DEF kept

\* A definition is reported, and every other one stays.
LEMMA ReportIs ==
  ASSUME NEW s, IsReader(s), NEW body, NEW r, r = ReportProtoClass(s, body),
         r.status = "ok"
  PROVE  /\ s.status = "ok"
         /\ IsPool(s.pool) =>
               /\ IsPool(r.pool)
               /\ DOMAIN r.pool.class = DOMAIN s.pool.class \cup {body.class_id}
               /\ r.pool.class[body.class_id].name = body.full_name
               /\ \A x \in DOMAIN s.pool.class :
                     x # body.class_id => r.pool.class[x] = s.pool.class[x]
<1> DEFINE files == s.pool.files \cup ToSet(body.file_descriptor)
           entry == [name |-> body.full_name,
                     broken |-> body.full_name \in Nested \ s.pool.fixed]
           pool == [s.pool EXCEPT !.clean = FALSE, !.files = files,
                                  !.class = With(@, body.class_id, entry)]
<1>1. \/ r = Fail(s, "KeyError")
      \/ r = [s EXCEPT !.pool.clean = FALSE, !.pool.files = files,
                       !.pool.class = With(@, body.class_id, entry)]
  BY DEF ReportProtoClass
<1>2. r # Fail(s, "KeyError")
  BY FailReads
<1>3. r.pool = pool /\ s.status = "ok"
  BY <1>1, <1>2 DEF IsReader
<1>4. ASSUME IsPool(s.pool)
      PROVE  IsPool(r.pool) /\ r.pool.class = With(s.pool.class, body.class_id, entry)
  BY <1>3, <1>4 DEF IsPool
<1>5. entry.name = body.full_name
  OBVIOUS
<1> HIDE DEF entry, pool, files
<1>6. ASSUME IsPool(s.pool)
      PROVE  /\ DOMAIN r.pool.class = DOMAIN s.pool.class \cup {body.class_id}
             /\ r.pool.class[body.class_id] = entry
             /\ \A x \in DOMAIN s.pool.class :
                   x # body.class_id => r.pool.class[x] = s.pool.class[x]
  BY <1>4, <1>6 DEF With
<1>7. QED
  BY <1>3, <1>4, <1>5, <1>6

\* Definitions whose class the file uses
Useful(i) ==
    pfile[i].body.class_id = 0 =>
        \E k \in DOMAIN pfile :
            IsEvent(pfile[k]) /\ pfile[k].body.class = pfile[i].body.full_name

LEMMA ReportLearns ==
  ASSUME NEW s, IsReader(s), NEW i, Useful(i), NEW r, r = ReportProtoClass(s, pfile[i].body),
         r.status = "ok"
  PROVE  s.status = "ok" /\ Learns(s, r)
<1>1. s.status = "ok"
  BY ReportIs
<1>2. SUFFICES ASSUME IsPool(s.pool)
               PROVE  /\ IsPool(r.pool)
                      /\ Knowing(s) => Knowing(r)
                      /\ Knowing(r) =>
                            \/ Knowing(s) /\ EventClass(r) = EventClass(s)
                            \/ \E k \in DOMAIN pfile :
                                  IsEvent(pfile[k]) /\ pfile[k].body.class = EventClass(r)
  BY <1>1 DEF Learns
<1> DEFINE id == pfile[i].body.class_id
<1>3. /\ IsPool(r.pool) /\ DOMAIN r.pool.class = DOMAIN s.pool.class \cup {id}
      /\ r.pool.class[id].name = pfile[i].body.full_name
      /\ \A x \in DOMAIN s.pool.class : x # id => r.pool.class[x] = s.pool.class[x]
  BY <1>2, ReportIs
<1> HIDE DEF id
<1>4. CASE id = 0
  BY <1>3, <1>4 DEF Useful, Knowing, EventClass, id
<1>5. CASE id # 0
  BY <1>3, <1>5 DEF Knowing, EventClass
<1>6. QED
  BY <1>3, <1>4, <1>5 DEF Knowing

LEMMA ReadAtKeeps ==
  ASSUME FileRight(pfile), NEW s, IsReader(s), NEW place, NEW r, r = ReadAt(s, place)
  PROVE  SameClasses(s, r) /\ IsReader(r) /\ (r.status = "ok" => s.status = "ok")
<1>0. IsReader(r) /\ (r.status = "ok" => s.status = "ok")
  <2>1. IsReader(r)
    BY ReadAtReads, ReadsAre
  <2>2. s.status # "ok" => r = s
    BY DEF ReadAt
  <2>3. QED
    BY <2>1, <2>2
<1>1. PICK t : t = Sought(s, place, NoZlib)
  OBVIOUS
<1>2. SameClasses(s, t) /\ IsReader(t)
  BY <1>1, SeekReads, SamePool
<1>3. r = s \/ r = Fail(s, "ValueError") \/ r = ReadMessage(t)
  BY <1>1 DEF ReadAt, Sought
<1>4. CASE r = ReadMessage(t)
  <2>1. SameClasses(t, r)
    BY <1>2, <1>4, ReadMessageKeeps
  <2>2. QED
    BY <1>0, <1>2, <2>1, LearnsTwice
<1>5. CASE r = Fail(s, "ValueError")
  BY <1>0, <1>5, FailReads, SamePool
<1>6. QED
  BY <1>0, <1>3, <1>4, <1>5, LearnsTwice

\* A definition is read from its place and reported.
LEMMA ReadProtoClassAtLearns ==
  ASSUME FileRight(pfile), NEW s, IsReader(s), NEW i \in Leading, Useful(i),
         NEW r, r = ReadProtoClassAt(s, Place(pfile, i)), r.status = "ok"
  PROVE  s.status = "ok" /\ Learns(s, r)
<1> DEFINE q == ReadAt(s, Place(pfile, i))
           t == ReportProtoClass(q, pfile[q.got].body)
           d == DropCompression(t)
           m == IF q.status = "ok" THEN t ELSE q
<1>1. r = IF m.status = "ok" THEN DropCompression(m) ELSE m
  BY DEF ReadProtoClassAt, Then
<1>2. SameClasses(s, q) /\ IsReader(q) /\ (q.status = "ok" => s.status = "ok")
  BY ReadAtKeeps
<1>3. m.status = "ok"
  BY <1>1
<1>4. q.status = "ok" /\ m = t
  BY <1>3
<1>5. q.got = i
  BY <1>4, ReadAtPlace
<1>6. t.status = "ok" /\ r = d
  BY <1>1, <1>3, <1>4
<1> HIDE DEF q
<1>7. Learns(q, t)
  BY <1>2, <1>5, <1>6, ReportLearns
<1>8. IsReader(t)
  BY <1>2, ReportReads, ReadsAre
<1> HIDE DEF t
<1>9. SameClasses(t, r)
  BY <1>6, <1>8, DropKeeps
<1>10. Learns(s, r)
  BY <1>2, <1>7, <1>9, LearnsTwice
<1>11. QED
  BY <1>2, <1>4, <1>10

LEMMA ReadMetadataAtKeeps ==
  ASSUME FileRight(pfile), NEW s, IsReader(s), NEW place,
         NEW r, r = ReadMetadataAt(s, place), r.status = "ok"
  PROVE  s.status = "ok" /\ SameClasses(s, r)
<1> DEFINE q == ReadAt(s, place)
           t == Entered(q, place)
<1>1. SameClasses(s, q) /\ IsReader(q) /\ (q.status = "ok" => s.status = "ok")
  BY ReadAtKeeps
<1>2. r = q \/ r = Fail(q, "AssertionError") \/ r = DropCompression(t)
  BY DEF ReadMetadataAt, Then, Entered
<1> HIDE DEF q
<1>3. Fail(q, "AssertionError").status = "AssertionError"
  BY <1>1, FailReads
<1>4. IsReader(t) /\ t.status = q.status /\ t.pool = q.pool
  BY <1>1, EnteredIs DEF Entered, IsReader
<1>5. SameClasses(q, t)
  BY <1>4, SamePool
<1> HIDE DEF t
<1>6. CASE r = DropCompression(t)
  BY <1>1, <1>4, <1>5, <1>6, DropKeeps, LearnsTwice
<1>7. CASE r = q
  BY <1>1, <1>7
<1>8. QED
  BY <1>2, <1>3, <1>6, <1>7

\* The footer of a stream lists definitions whose class the stream uses.
LEMMA UsefulIs ==
  ASSUME FileRight(pfile), NEW b \in Nat, NEW i \in DOMAIN pfile, SummaryRight(pfile, b, i),
         NEW j \in Defining(pfile, b, i)
  PROVE  j \in Leading /\ Useful(j)
<1>1. i \in Nat /\ PyFileEnd \in Nat /\ DOMAIN pfile = 1 .. PyFileEnd
  BY CellIs DEF FileRight, PyFileEnd
<1>2. j \in DOMAIN pfile /\ HasId(pfile[j], ProtoClassId) /\ j \in Nat /\ j > b
  BY <1>1 DEF Defining
<1>3. UsedBehind(pfile, j, i - 1)
  BY DEF SummaryRight
<1>4. PICK k \in j + 1 .. i - 1 :
            /\ IsUserMessage(pfile[k]) /\ pfile[k].id = pfile[j].body.class_id
            /\ pfile[k].body.class = pfile[j].body.full_name
  BY <1>3 DEF UsedBehind
<1>5. k \in DOMAIN pfile
  BY <1>1, <1>2
<1>6. ~IsMetadataId(0)
  BY DEF IsMetadataId
<1>7. Useful(j)
  BY <1>4, <1>5, <1>6 DEF Useful, IsEvent
<1>8. QED
  BY <1>2, <1>7, CellsLead

LEMMA ReadPlacesLearns ==
  ASSUME FileRight(pfile), NEW f, IsReader(f), NEW b \in Nat, f.got \in DOMAIN pfile,
         SummaryRight(pfile, b, f.got), NEW start, start = f.got - 1,
         NEW r, r = ReadPlaces(f, start), r.status = "ok"
  PROVE  f.status = "ok" /\ Learns(f, r)
<1> DEFINE ps == Definitions(f)
           ms == Metadata(f)
           c == start - pfile[f.got].body.size
           p == ProcessFooter(f, pfile[f.got].body)
<1>1. /\ ps = pfile[f.got].body.protoclass_offsets /\ Len(ps) \in Nat /\ Len(ms) \in Nat
  BY FooterLists
<1>2. /\ f.got \in Nat /\ pfile[f.got].body.size = f.got - 1 - b
      /\ Lists(ps, pfile, b, Defining(pfile, b, f.got))
      /\ ps \in Seq(Nat)
  BY <1>1, CellIs DEF SummaryRight
<1>3. c = b
  BY <1>2
<1>4. PICK reported, read : PlacesRead(f, c, reported, read, r)
  BY <1>1, ReadPlacesSteps
<1>5. /\ reported[0] = p
      /\ \A n \in 1 .. Len(ps) : reported[n] = ReadProtoClassAt(reported[n - 1], b + ps[n])
      /\ read[0] = reported[Len(ps)]
      /\ \A n \in 1 .. Len(ms) : read[n] = ReadMetadataAt(read[n - 1], b + ms[n])
      /\ r = read[Len(ms)]
  BY <1>3, <1>4 DEF PlacesRead
<1>6. IsReader(p) /\ Learns(f, p) /\ p.status = f.status
  <2>1. IsReader(p) /\ p.status = f.status
    BY ProcessFooterScans, ReadsAre
  <2>2. p.pool = f.pool
    BY DEF ProcessFooter, IsReader
  <2>3. QED
    BY <2>1, <2>2, SamePool, LearnsTwice
<1>7. ASSUME NEW n \in 1 .. Len(ps)
      PROVE  \E j \in Leading : Useful(j) /\ b + ps[n] = Place(pfile, j)
  <2>1. ps[n] \in ToSet(ps) /\ ps[n] \in Nat
    BY <1>2, <1>7 DEF ToSet
  <2>2. PICK j \in Defining(pfile, b, f.got) : ps[n] = Place(pfile, j) - b
    BY <1>2, <2>1 DEF Lists
  <2>3. j \in Leading /\ Useful(j)
    BY UsefulIs
  <2>4. j \in Nat
    BY <2>3, LeadingIs
  <2>5. Place(pfile, j) \in Int
    BY <2>4 DEF Place
  <2>6. QED
    BY <2>2, <2>3, <2>5
<1> HIDE DEF ps, ms, c, p
<1> DEFINE Kept(x) == IsReader(x) /\ (x.status = "ok" => f.status = "ok" /\ Learns(f, x))
           first == {n \in 0 .. Len(ps) : Kept(reported[n])}
           then == {n \in 0 .. Len(ms) : Kept(read[n])}
<1>8. Len(ps) \in first
  <2>1. 0 \in first
    BY <1>1, <1>5, <1>6
  <2>2. ASSUME NEW n \in 0 + 1 .. Len(ps), n - 1 \in first PROVE n \in first
    <3>1. n \in 1 .. Len(ps) /\ n \in 0 .. Len(ps)
      BY <1>1, <2>2
    <3>2. PICK x : x = reported[n - 1]
      OBVIOUS
    <3>3. PICK y : y = reported[n]
      OBVIOUS
    <3>4. Kept(x) /\ y = ReadProtoClassAt(x, b + ps[n])
      BY <1>5, <2>2, <3>1, <3>2, <3>3
    <3>5. IsReader(y)
      BY <3>4, ReadProtoClassAtReads, ReadsAre
    <3>6. ASSUME y.status = "ok" PROVE f.status = "ok" /\ Learns(f, y)
      <4>1. PICK j \in Leading : Useful(j) /\ b + ps[n] = Place(pfile, j)
        BY <1>7, <3>1
      <4>2. x.status = "ok" /\ Learns(x, y)
        BY <3>4, <3>6, <4>1, ReadProtoClassAtLearns
      <4>3. QED
        BY <3>4, <4>2, LearnsTwice
    <3>7. QED
      BY <3>1, <3>3, <3>5, <3>6
  <2> HIDE DEF first
  <2>3. \A n \in 0 .. Len(ps) : n \in first
    BY <1>1, <2>1, <2>2, NumberByNumber
  <2>4. QED
    BY <1>1, <2>3
<1>9. Len(ms) \in then
  <2>1. 0 \in then
    BY <1>1, <1>5, <1>8
  <2>2. ASSUME NEW n \in 0 + 1 .. Len(ms), n - 1 \in then PROVE n \in then
    <3>1. n \in 1 .. Len(ms) /\ n \in 0 .. Len(ms)
      BY <1>1, <2>2
    <3>2. PICK x : x = read[n - 1]
      OBVIOUS
    <3>3. PICK y : y = read[n]
      OBVIOUS
    <3>4. Kept(x) /\ y = ReadMetadataAt(x, b + ms[n])
      BY <1>5, <2>2, <3>1, <3>2, <3>3
    <3>5. IsReader(y)
      BY <3>4, ReadMetadataAtScans, ReadsAre
    <3>6. ASSUME y.status = "ok" PROVE f.status = "ok" /\ Learns(f, y)
      <4>1. x.status = "ok" /\ SameClasses(x, y)
        BY <3>4, <3>6, ReadMetadataAtKeeps
      <4>2. QED
        BY <3>4, <4>1, LearnsTwice
    <3>7. QED
      BY <3>1, <3>3, <3>5, <3>6
  <2> HIDE DEF then
  <2>3. \A n \in 0 .. Len(ms) : n \in then
    BY <1>1, <2>1, <2>2, NumberByNumber
  <2>4. QED
    BY <1>1, <2>3
<1>10. QED
  BY <1>5, <1>9

LEMMA ReadFooterLearns ==
  ASSUME FileRight(pfile), NEW s, IsReader(s), s.size \in Nat, Closes(s.size),
         NEW r, r = ReadFooter(s, s.size), r.status = "ok"
  PROVE  s.status = "ok" /\ Learns(s, r)
<1>1. PICK b \in Nat, e \in DOMAIN pfile :
            /\ b + 4 < e /\ e \in Nat
            /\ HasId(pfile[e - 2], StreamFooterId) /\ SummaryRight(pfile, b, e - 2)
            /\ ((PyFileEnd - s.size - MagicLen) - FooterSizeLen) - FooterLen = e - 3
            /\ \A q : q = ReadAt(s, e - 3) /\ q.status = "ok" =>
                  q.got = e - 2 /\ Took(q) /\ q.closed = s.closed /\ ~s.closed
  BY FooterFound
<1> DEFINE f == ReadAt(s, e - 3)
           q == ReadPlaces(f, e - 3)
<1>2. r = IF f.status = "ok" THEN q ELSE f
  BY <1>1 DEF ReadFooter, Then
<1>3. f.status = "ok" /\ r = q
  BY <1>2
<1>4. f.got = e - 2 /\ Took(f)
  BY <1>1, <1>3
<1>5. SameClasses(s, f) /\ IsReader(f) /\ s.status = "ok"
  BY <1>3, ReadAtKeeps
<1> HIDE DEF f
<1>6. SummaryRight(pfile, b, f.got) /\ f.got \in DOMAIN pfile /\ e - 3 = f.got - 1
  BY <1>1, <1>4 DEF Took
<1>7. Learns(f, q)
  BY <1>3, <1>5, <1>6, ReadPlacesLearns
<1>8. QED
  BY <1>3, <1>5, <1>7, LearnsTwice

LEMMA ReadHeaderKeeps ==
  ASSUME FileRight(pfile), NEW s, IsReader(s), NEW r, r = ReadHeader(s)
  PROVE  SameClasses(s, r)
<1> DEFINE t == SkipMark(s)
           q == ReadMessage(t)
           h == Headed(q, s.pos + MagicLen)
           e == Fail(s, "AssertionError")
<1>1. r = IF AtMark(s, "START_MAGIC") THEN IF q.status = "ok" THEN h ELSE q ELSE e
  BY DEF ReadHeader, Then, Headed
<1>2. SameClasses(s, t) /\ IsReader(t) /\ t.status = s.status
  BY SkipReads, SamePool, ReadsAre
<1>3. SameClasses(s, e) /\ e.status = "AssertionError"
  BY FailReads, SamePool
<1> HIDE DEF t, e
<1>4. SameClasses(t, q) /\ IsReader(q)
  BY <1>2, ReadMessageKeeps, ReadMessageTakes, ReadsAre
<1> HIDE DEF q
<1>5. SameClasses(q, h) /\ h.status = q.status
  BY <1>4, HeadedScans, SamePool
<1> HIDE DEF h
<1>6. QED
  BY <1>1, <1>2, <1>3, <1>4, <1>5, LearnsTwice

\* A scan, also of a file that was cut, puts every header and every metadata message
\* at its place and learns classes the file uses.
Scanned(s, r) ==
    IsReader(r) /\ r.size \in 0 .. PyFileEnd /\ Keyed(r) /\ Learns(s, r)

LEMMA RoundScans ==
  ASSUME FileRight(pfile), NEW o, NEW s, Scanned(o, s), s.status = "ok",
         NEW r, r = ScanOnce(s), r.status = "ok"
  PROVE  Scanned(o, r)
<1>1. PyFileEnd \in Nat /\ DOMAIN pfile = 1 .. PyFileEnd /\ s.size \in Nat
      /\ s.size <= PyFileEnd /\ IsReader(s) /\ Keyed(s) /\ Learns(o, s)
  BY DEF FileRight, PyFileEnd, Scanned
<1>2. SUFFICES ASSUME Closes(s.size) PROVE Scanned(o, r)
  BY DEF ScanOnce
<1> DEFINE f == ReadFooter(s, s.size)
           t == [f EXCEPT !.pos = PyFileEnd - f.size, !.zin = NoZlib]
           h == ReadHeader(t)
<1>3. r = IF f.status = "ok" THEN h ELSE f
  BY <1>2 DEF ScanOnce, Then, HeaderBehind
<1>4. f.status = "ok" /\ r = h
  BY <1>3
<1>5. PICK b, e : EndsAt(b, e) /\ e = PyFileEnd - s.size /\ Footered(s, b, e, f)
  BY <1>1, <1>2, <1>4, ReadFooterFinds
<1>6. t = Sought(f, PyFileEnd - f.size, NoZlib)
  BY DEF Sought
<1>7. b \in Nat /\ e \in Nat /\ b < e
  BY <1>5 DEF EndsAt
<1>8. /\ IsReader(f) /\ Keyed(f)
      /\ f.size = s.size \/ f.size = s.size + (e - b)
  BY <1>5 DEF Footered
<1>9. f.size \in 0 .. PyFileEnd
  BY <1>1, <1>5, <1>7, <1>8
<1>10. Learns(s, f)
  BY <1>1, <1>2, <1>4, ReadFooterLearns
<1> HIDE DEF f
<1>11. /\ IsReader(t) /\ t.pos = PyFileEnd - f.size /\ t.zin = NoZlib /\ t.status = "ok"
       /\ Reads(f, t) /\ t.pool = f.pool
  BY <1>4, <1>6, <1>8, SeekReads
<1>12. PyFileEnd - f.size \in Nat
  BY <1>1, <1>9
<1>13. Placed(t)
  BY <1>11, <1>12 DEF Placed, NoZlib
<1> HIDE DEF t
<1>14. /\ Sized(t, r) /\ IsReader(r)
       /\ r.got = t.pos + 2 /\ HasId(pfile[r.got], StreamHeaderId) /\ Took(r)
       /\ r.headers = With(t.headers, t.pos + 1, t.pos + 2)
       /\ r.metadata = t.metadata
  BY <1>4, <1>11, <1>13, ReadHeaderTakes, ReadsAre
<1>15. /\ t.headers = f.headers /\ t.metadata = f.metadata /\ t.size = f.size
  BY <1>11 DEF Reads
<1>16. r.got \in HeaderCells /\ r.got - 1 = t.pos + 1
  BY <1>11, <1>12, <1>14 DEF HeaderCells, Took
<1>17. r.headers = With(f.headers, r.got - 1, r.got)
  BY <1>14, <1>15, <1>16
<1>18. Keyed(r)
  BY <1>8, <1>14, <1>15, <1>16, <1>17, HeaderKeyed
<1>19. SameClasses(t, r) /\ SameClasses(f, t)
  BY <1>4, <1>11, ReadHeaderKeeps, SamePool
<1>20. Learns(o, r)
  BY <1>1, <1>10, <1>19, LearnsTwice
<1>21. r.size \in 0 .. PyFileEnd
  BY <1>9, <1>14, <1>15 DEF Sized
<1>22. QED
  BY <1>14, <1>18, <1>20, <1>21 DEF Scanned

LEMMA ReadFootersScansRight ==
  ASSUME FileRight(pfile), NEW s, IsReader(s), Blank(s), NEW r, r = ReadFooters(s),
         r.status = "ok"
  PROVE  Keyed(r) /\ Learns(s, r)
<1>1. PICK scan : /\ scan[0] = s
                  /\ \A n \in 1 .. PyFileEnd : scan[n] = ScanOnce(scan[n - 1])
                  /\ r = IF /\ scan[PyFileEnd].status = "ok"
                            /\ scan[PyFileEnd].size < PyFileEnd
                         THEN [scan[PyFileEnd] EXCEPT !.pos = 0]
                         ELSE scan[PyFileEnd]
  BY ReadFootersSteps
<1>2. PyFileEnd \in Nat
  BY DEF FileRight, PyFileEnd
<1> DEFINE right == {n \in 0 .. PyFileEnd : scan[n].status = "ok" => Scanned(s, scan[n])}
<1>3. 0 \in right
  <2>1. Keyed(s) /\ s.size = 0
    BY DEF Blank, Keyed
  <2>2. QED
    BY <1>1, <1>2, <2>1, LearnsTwice DEF Scanned
<1>4. ASSUME NEW n \in 0 + 1 .. PyFileEnd, n - 1 \in right PROVE n \in right
  <2>1. n \in 1 .. PyFileEnd /\ n \in 0 .. PyFileEnd /\ scan[n] = ScanOnce(scan[n - 1])
    BY <1>1, <1>2
  <2>2. PICK x : x = scan[n - 1]
    OBVIOUS
  <2>3. PICK y : y = scan[n]
    OBVIOUS
  <2>4. y = ScanOnce(x) /\ (x.status = "ok" => Scanned(s, x))
    BY <1>4, <2>1, <2>2, <2>3
  <2>5. SUFFICES ASSUME y.status = "ok" PROVE Scanned(s, y)
    BY <2>1, <2>3
  <2>6. x.status = "ok"
    BY <2>4, <2>5 DEF ScanOnce
  <2>7. QED
    BY <2>4, <2>5, <2>6, RoundScans
<1> HIDE DEF right
<1>5. \A n \in 0 .. PyFileEnd : n \in right
  BY <1>2, <1>3, <1>4, NumberByNumber
<1>6. PyFileEnd \in right
  BY <1>2, <1>5
<1>7. PICK last : last = scan[PyFileEnd]
  OBVIOUS
<1>8. last.status = "ok" => Scanned(s, last)
  BY <1>6, <1>7 DEF right
<1>9. r = IF last.status = "ok" /\ last.size < PyFileEnd
          THEN [last EXCEPT !.pos = 0] ELSE last
  BY <1>1, <1>7
<1>10. last.status = "ok" /\ Scanned(s, last)
  BY <1>8, <1>9
<1>11. CASE r = [last EXCEPT !.pos = 0]
  <2>1. r.pool = last.pool /\ r.headers = last.headers /\ r.metadata = last.metadata
    BY <1>10, <1>11 DEF Scanned, IsReader
  <2>2. SameClasses(last, r)
    BY <2>1, SamePool
  <2>3. Keyed(r)
    BY <1>10, <2>1 DEF Scanned, Keyed
  <2>4. QED
    BY <1>10, <2>2, <2>3, LearnsTwice DEF Scanned
<1>12. QED
  BY <1>9, <1>10, <1>11 DEF Scanned

LEMMA ReadAllLearns ==
  ASSUME FileRight(pfile), NEW s, IsReader(s), Keyed(s), NEW r, r = ReadAllMetaInfo(s),
         r.status = "ok"
  PROVE  Keyed(r) /\ Learns(s, r)
<1> DEFINE t == [s EXCEPT !.all_meta = TRUE, !.zin = NoZlib, !.headers = << >>,
                          !.footers = {}, !.metadata = << >>, !.size = 0]
           l == ReadFooters(t)
           e == Fail(l, "ValueError")
           b == [l EXCEPT !.pos = s.pos, !.zin = s.zin, !.got = s.got]
<1>1. r = IF s.all_meta THEN s ELSE IF l.status = "ok" THEN IF l.closed THEN e ELSE b ELSE l
  BY DEF ReadAllMetaInfo, Then
<1>2. PICK u : u = t
  OBVIOUS
<1>3. IsReader(u) /\ Blank(u) /\ u.pool = s.pool /\ u.size = 0
  BY <1>2 DEF IsReader, Blank
<1>4. l = ReadFooters(u)
  BY <1>2
<1> HIDE DEF l, t
<1>5. IsReader(l)
  BY <1>3, <1>4, ReadFootersScans, ReadsAre
<1>6. l.status = "ok" => Keyed(l) /\ Learns(u, l)
  BY <1>3, <1>4, ReadFootersScansRight
<1>7. e.status = "ValueError"
  BY <1>5, FailReads
<1>8. PICK v : v = b
  OBVIOUS
<1>9. v.pool = l.pool /\ v.headers = l.headers /\ v.metadata = l.metadata
  BY <1>5, <1>8 DEF IsReader
<1> HIDE DEF b, e
<1>10. CASE s.all_meta
  BY <1>1, <1>10, LearnsTwice
<1>11. CASE ~s.all_meta
  <2>1. l.status = "ok" /\ r = v
    BY <1>1, <1>7, <1>8, <1>11
  <2>2. SameClasses(s, u) /\ SameClasses(l, v)
    BY <1>3, <1>9, SamePool
  <2>3. Keyed(v)
    BY <1>6, <1>9, <2>1 DEF Keyed
  <2>4. Learns(s, v)
    BY <1>6, <2>1, <2>2, LearnsTwice
  <2>5. QED
    BY <2>1, <2>3, <2>4
<1>12. QED
  BY <1>10, <1>11

-----------------------------------------------------------------------------
(* What get_metadata_at finds                                               *)

LEMMA LargestOne ==
  ASSUME NEW N \in Nat, NEW S \in SUBSET (0 .. N), S # {}
  PROVE  \E x \in S : \A y \in S : x >= y
<1> DEFINE T == {N - y : y \in S}
<1>1. T \in SUBSET Nat /\ T # {}
  <2>1. \A y \in S : N - y \in Nat
    OBVIOUS
  <2>2. PICK y : y \in S
    OBVIOUS
  <2>3. N - y \in T
    BY <2>2
  <2>4. QED
    BY <2>1, <2>3
<1>2. PICK t \in T : \A u \in T : t <= u
  BY <1>1, LeastOne
<1>3. PICK x \in S : t = N - x
  OBVIOUS
<1>4. ASSUME NEW y \in S PROVE x >= y
  <2>1. N - x <= N - y
    BY <1>2, <1>3
  <2>2. x \in Nat /\ y \in Nat
    OBVIOUS
  <2>3. QED
    BY <2>1, <2>2
<1>5. QED
  BY <1>4

LEMMA Extremes ==
  ASSUME NEW S \in SUBSET Int, NEW x \in S
  PROVE  /\ (\A y \in S : x <= y) => Min(S) = x
         /\ (\A y \in S : x >= y) => Max(S) = x
<1>1. ASSUME \A y \in S : x <= y PROVE Min(S) = x
  <2>1. Min(S) \in S /\ \A y \in S : Min(S) <= y
    BY <1>1 DEF Min
  <2>2. x <= Min(S) /\ Min(S) <= x /\ x \in Int /\ Min(S) \in Int
    BY <1>1, <2>1
  <2>3. QED
    BY <2>2
<1>2. ASSUME \A y \in S : x >= y PROVE Max(S) = x
  <2>1. Max(S) \in S /\ \A y \in S : Max(S) >= y
    BY <1>2 DEF Max
  <2>2. x >= Max(S) /\ Max(S) >= x /\ x \in Int /\ Max(S) \in Int
    BY <1>2, <2>1
  <2>3. QED
    BY <2>2
<1>3. QED
  BY <1>1, <1>2

\* The header that is looked up is one the reader knows: the last one in front of the
\* place, if it knows that.
LEMMA HeaderIs ==
  ASSUME FileRight(pfile), NEW s, Keyed(s), DOMAIN s.headers # {}, NEW place \in Nat
  PROVE  /\ HeaderAt(s, place) \in HeaderCells
         /\ \A h \in HeaderCells :
               /\ h - 1 \in DOMAIN s.headers /\ h - 1 <= place
               /\ \A g \in HeaderCells : g - 1 <= place => g <= h
               => HeaderAt(s, place) = h
<1> DEFINE before == {k \in DOMAIN s.headers : k <= place}
           S == IF before = {} THEN DOMAIN s.headers ELSE before
<1>1. PyFileEnd \in Nat /\ DOMAIN pfile = 1 .. PyFileEnd
  BY DEF FileRight, PyFileEnd
<1>2. \A k \in DOMAIN s.headers :
         k \in Nat /\ s.headers[k] = k + 1 /\ k + 1 \in HeaderCells
  BY DEF Keyed
<1>3. \A k \in DOMAIN s.headers : k \in 0 .. PyFileEnd
  BY <1>1, <1>2 DEF HeaderCells
<1>4. S \in SUBSET (0 .. PyFileEnd) /\ S # {} /\ S \subseteq DOMAIN s.headers
  BY <1>3
<1>5. HeaderAt(s, place) = s.headers[Max(S)]
  BY DEF HeaderAt
<1>6. before # {} => S = before
  OBVIOUS
<1> HIDE DEF S
<1>7. PICK x \in S : \A y \in S : x >= y
  BY <1>1, <1>4, LargestOne
<1>8. S \in SUBSET Int
  BY <1>4
<1>9. Max(S) = x
  BY <1>7, <1>8, Extremes
<1>10. HeaderAt(s, place) = x + 1 /\ x + 1 \in HeaderCells /\ x \in Nat
  BY <1>2, <1>4, <1>5, <1>9
<1>11. ASSUME NEW h \in HeaderCells, h - 1 \in DOMAIN s.headers, h - 1 <= place,
              \A g \in HeaderCells : g - 1 <= place => g <= h
       PROVE  x + 1 = h
  <2>1. h - 1 \in S /\ x \in before
    BY <1>6, <1>11
  <2>2. x >= h - 1 /\ x <= place
    BY <1>7, <2>1
  <2>3. (x + 1) - 1 = x /\ h \in Nat
    BY <1>1, <1>10 DEF HeaderCells
  <2>4. x + 1 <= h
    BY <1>10, <1>11, <2>2, <2>3
  <2>5. QED
    BY <1>10, <2>2, <2>3, <2>4
<1>12. QED
  BY <1>10, <1>11

\* The place behind which metadata is looked up
Upcoming(a, place) ==
    LET behind == {k \in DOMAIN a.metadata : k > place}
    IN IF behind = {} THEN None ELSE a.metadata[Min(behind)]
RefersForward(h) == pfile[h].body.metadata_refers_forward

LEMMA FindIs ==
  ASSUME FileRight(pfile), NEW s, IsReader(s), Keyed(s), Tell(s) \in Nat,
         NEW r, r = FindCurrentMetadata(s), r.status = "ok"
  PROVE  /\ Keyed(r) /\ Learns(s, r) /\ DOMAIN s.headers # {}
         /\ IF RefersForward(HeaderAt(s, Tell(s))) THEN SameClasses(s, r)
            ELSE /\ Backward(pfile)
                 /\ \E a : /\ a = ReadAllMetaInfo(s) /\ a.status = "ok"
                           /\ r.current_metadata = Upcoming(a, Tell(s))
<1> DEFINE m == MetadataAt(s, Tell(s))
           c == [m EXCEPT !.current_metadata = m.found]
           a == ReadAllMetaInfo(s)
           Found(t, x) == [t EXCEPT !.found = x]
           H == HeaderAt(s, Tell(s))
<1>1. r = IF m.status = "ok" THEN c ELSE m
  BY DEF FindCurrentMetadata, Then
<1>2. m.status = "ok" /\ r = c
  BY <1>1
<1>3. \/ m = Fail(s, "IndexError")
      \/ /\ DOMAIN s.headers # {} /\ RefersForward(H)
         /\ \E x : m = Found(s, x)
      \/ /\ DOMAIN s.headers # {} /\ ~RefersForward(H)
         /\ m = IF a.status = "ok" THEN Found(a, Upcoming(a, Tell(s))) ELSE a
  BY DEF MetadataAt, Then, RefersForward, Upcoming
<1> HIDE DEF m
<1>4. Fail(s, "IndexError").status = "IndexError"
  BY FailReads
<1>5. DOMAIN s.headers # {}
  BY <1>2, <1>3, <1>4
<1>6. H \in HeaderCells
  BY <1>5, HeaderIs
<1> HIDE DEF H
<1>7. IsReader(a)
  BY ReadAllScans, ReadsAre
<1>8. ASSUME a.status = "ok" PROVE Keyed(a) /\ Learns(s, a)
  BY <1>8, ReadAllLearns
<1> HIDE DEF a
<1>9. ASSUME NEW t, NEW x, IsReader(t), m = Found(t, x)
      PROVE  /\ r.current_metadata = x /\ SameClasses(t, r) /\ (Keyed(t) => Keyed(r))
  <2>1. IsReader(m) /\ m.found = x /\ m.pool = t.pool /\ m.headers = t.headers
        /\ m.metadata = t.metadata
    BY <1>9 DEF IsReader
  <2>2. r.current_metadata = x /\ r.pool = t.pool /\ r.headers = t.headers
        /\ r.metadata = t.metadata
    BY <1>2, <2>1 DEF IsReader
  <2>3. QED
    BY <2>2, SamePool DEF Keyed
<1> HIDE DEF Found, c
<1>10. CASE RefersForward(H)
  <2>1. PICK x : m = Found(s, x)
    BY <1>2, <1>3, <1>4, <1>10
  <2>2. SameClasses(s, r) /\ Keyed(r)
    BY <1>9, <2>1
  <2>3. QED
    BY <1>5, <1>10, <2>2, LearnsTwice DEF H
<1>11. CASE ~RefersForward(H)
  <2>1. a.status = "ok" /\ m = Found(a, Upcoming(a, Tell(s)))
    BY <1>2, <1>3, <1>4, <1>11
  <2>2. r.current_metadata = Upcoming(a, Tell(s)) /\ SameClasses(a, r) /\ Keyed(r)
    BY <1>7, <1>8, <1>9, <2>1
  <2>3. Learns(s, r)
    BY <1>8, <2>1, <2>2, LearnsTwice
  <2>4. Backward(pfile)
    BY <1>6, <1>11 DEF Backward, HeaderCells, RefersForward
  <2>5. QED
    BY <1>5, <1>11, <2>1, <2>2, <2>3, <2>4 DEF a, H
<1>12. QED
  BY <1>10, <1>11

-----------------------------------------------------------------------------
(* What applies at a place of the file                                      *)

\* The place m is in the stream of the header h.
Heading(h, m) == h \in HeaderCells /\ h <= m /\ \A k \in Starts : k > h => k > m

\* The last metadata of the stream up to m, and the next one of the file behind it
Latest(j, m) == j \in MetadataCells /\ j <= m /\ \A k \in MetadataCells \cup Starts : k > j => k > m
Coming(j, m) == j \in MetadataCells /\ j > m /\ \A k \in MetadataCells : k > m => j <= k

\* No metadata and no other stream begins behind m up to n.
Calm(m, n) == \A k \in MetadataCells \cup Starts \cup HeaderCells : k > m => k > n

\* The reader holds what it needs for the events behind m: the metadata of its stream
\* that was last, or the next one, or none yet, to be looked up.
Carries(s, m) ==
    /\ \A h : Heading(h, m) =>
          /\ s.current_header = h
          /\ IF RefersForward(h) THEN \A j : Latest(j, m) => s.current_metadata = j
             ELSE ~cut => s.current_metadata = None \/ Coming(s.current_metadata, m)
    /\ m \in Starts => s.current_metadata = None

\* The metadata x is that of an event at m.
MetaRight(x, m) ==
    \A h : Heading(h, m) =>
        IF RefersForward(h) THEN \A j : Latest(j, m) => x = j
        ELSE ~cut => \A j : Coming(j, m) => x = j

LEMMA CellNumbers ==
  ASSUME FileRight(pfile)
  PROVE  /\ \A i \in DOMAIN pfile : i \in Nat /\ i >= 1
         /\ \A i \in MetadataCells : i \in Nat /\ i >= 1 /\ i \in DOMAIN pfile
         /\ \A i \in Starts : i \in Nat /\ i >= 1 /\ i \in DOMAIN pfile
         /\ \A i \in HeaderCells : i \in Nat /\ i >= 1 /\ i \in DOMAIN pfile
         /\ \A i \in Starts : i \notin HeaderCells /\ i \notin MetadataCells
         /\ \A i \in HeaderCells : i \notin MetadataCells
<1>1. \A i \in DOMAIN pfile : i \in Nat /\ i >= 1
  BY CellIs
<1>2. \A i \in Starts : pfile[i].kind = "START_MAGIC"
  BY DEF Starts
<1>3. \A i \in HeaderCells : pfile[i].kind = "message" /\ pfile[i].id \in FixedIds
  BY DEF HeaderCells, HasId, FixedIds
<1>4. \A i \in MetadataCells : pfile[i].kind = "message" /\ pfile[i].id \notin FixedIds
  BY DEF MetadataCells, IsMetadata, IsUserMessage
<1>5. QED
  BY <1>1, <1>2, <1>3, <1>4 DEF MetadataCells, Starts, HeaderCells

\* A header stands behind the magic number of its stream.
LEMMA HeaderBehindStart ==
  ASSUME FileRight(pfile), NEW i \in HeaderCells
  PROVE  i - 1 \in Starts /\ i >= 2
<1>1. i \in DOMAIN pfile /\ i \in Nat /\ i >= 1
  BY CellNumbers
<1>2. PICK b \in 0 .. i - 1 : StreamTo(pfile, b, i)
  BY <1>1 DEF FileRight
<1>3. b \in Nat /\ i \in b + 1 .. i /\ b + 1 \in b + 1 .. i
  BY <1>1
<1>4. i = b + 2
  BY <1>2, <1>3 DEF StreamTo, CellRight, HeaderCells
<1>5. pfile[b + 1].kind = "START_MAGIC"
  BY <1>1, <1>2, <1>3, <1>4, BeginOf
<1>6. b + 1 \in DOMAIN pfile
  BY <1>1, <1>3, <1>4 DEF FileRight
<1>7. i - 1 = b + 1 /\ i >= 2
  BY <1>3, <1>4
<1>8. QED
  BY <1>5, <1>6, <1>7 DEF Starts

\* Behind its first two cells a stream has a header, that of the stream.
LEMMA HeadingIs ==
  ASSUME FileRight(pfile), NEW b \in Nat, NEW i \in DOMAIN pfile, i > b + 1,
         StreamTo(pfile, b, i)
  PROVE  /\ Heading(b + 2, i)
         /\ \A h : Heading(h, i) => h = b + 2
         /\ \A k \in Starts : k > b + 1 => k > i
         /\ b + 1 \in Starts
<1>1. i \in Nat /\ PyFileEnd \in Nat /\ DOMAIN pfile = 1 .. PyFileEnd /\ i <= PyFileEnd
  BY CellIs DEF FileRight, PyFileEnd
<1>2. \A k \in b + 1 .. i : CellRight(pfile, b, k)
  BY DEF StreamTo
<1>3. b + 2 \in b + 1 .. i /\ b + 1 \in b + 1 .. i /\ b + 2 \in DOMAIN pfile
      /\ b + 1 \in DOMAIN pfile
  BY <1>1
<1>4. b + 2 \in HeaderCells
  BY <1>2, <1>3 DEF CellRight, HeaderCells
<1>5. b + 1 \in Starts
  BY <1>2, <1>3 DEF CellRight, Starts
<1>6. ASSUME NEW k \in Starts, k > b + 1 PROVE k > i
  <2>1. k \in Nat /\ pfile[k].kind = "START_MAGIC"
    BY CellNumbers DEF Starts
  <2>2. ASSUME k <= i PROVE FALSE
    <3>1. k \in b + 1 .. i /\ k # b + 1
      BY <1>1, <1>6, <2>1, <2>2
    <3>2. QED
      BY <1>2, <2>1, <3>1 DEF CellRight
  <2>3. QED
    BY <1>1, <2>1, <2>2
<1>7. Heading(b + 2, i)
  <2>1. ASSUME NEW k \in Starts, k > b + 2 PROVE k > i
    <3>1. k > b + 1
      BY <2>1, CellNumbers
    <3>2. QED
      BY <1>6, <3>1
  <2>2. b + 2 <= i
    BY <1>1
  <2>3. QED
    BY <1>4, <2>1, <2>2 DEF Heading
<1>8. ASSUME NEW h, Heading(h, i) PROVE h = b + 2
  <2>1. h \in HeaderCells /\ h \in Nat /\ h <= i /\ \A k \in Starts : k > h => k > i
    BY <1>8, CellNumbers DEF Heading
  <2>2. h - 1 \in Starts /\ h >= 2
    BY <2>1, HeaderBehindStart
  <2>3. ~(b + 1 > h)
    BY <1>1, <1>5, <2>1
  <2>4. ~(h - 1 > b + 1)
    BY <1>1, <1>6, <2>1, <2>2
  <2>5. h # b + 1
    BY <1>5, <2>1, CellNumbers
  <2>6. QED
    BY <2>1, <2>3, <2>4, <2>5
<1>9. QED
  BY <1>5, <1>6, <1>7, <1>8

\* Messages of the client, their definitions and footers stand behind a header.
LEMMA HeaderOver ==
  ASSUME FileRight(pfile), NEW i \in DOMAIN pfile, IsUserMessage(pfile[i])
  PROVE  \E b \in Nat : b + 2 < i /\ StreamTo(pfile, b, i)
<1>1. i \in Nat /\ i >= 1
  BY CellNumbers
<1>2. PICK b \in 0 .. i - 1 : StreamTo(pfile, b, i)
  BY <1>1 DEF FileRight
<1>3. b \in Nat /\ i \in b + 1 .. i
  BY <1>1
<1>4. UsesRight(pfile, b, i)
  BY <1>2, <1>3 DEF StreamTo, CellRight
<1>5. PICK j \in Defining(pfile, b, i - 1) : TRUE
  BY <1>4 DEF UsesRight
<1>6. j \in b + 1 .. i - 1 /\ HasId(pfile[j], ProtoClassId) /\ j \in b + 1 .. i
  BY <1>1 DEF Defining
<1>7. CellRight(pfile, b, j)
  BY <1>2, <1>6 DEF StreamTo
<1>8. j # b + 1
  BY <1>3, <1>6, <1>7 DEF CellRight, HasId
<1>9. b + 2 < i
  BY <1>1, <1>3, <1>6, <1>8
<1>10. QED
  BY <1>2, <1>3, <1>9

LEMMA PassesCalm ==
  ASSUME FileRight(pfile), NEW m \in Nat, NEW n \in Nat, Passes(m, n)
  PROVE  Calm(m, n)
<1>1. ASSUME NEW k \in MetadataCells \cup Starts \cup HeaderCells, k > m, ~(k > n)
      PROVE  FALSE
  <2>1. k \in Nat
    BY CellNumbers
  <2>2. k \in m + 1 .. n
    BY <1>1, <2>1
  <2>3. Passing(pfile[k])
    BY <2>2 DEF Passes
  <2>4. CompressionIds \subseteq FixedIds /\ StreamHeaderId \notin CompressionIds
    BY WireAssumption DEF CompressionIds, FixedIds, StreamHeaderId, StartCompressedSectionId,
                          EndCompressedSectionId
  <2>5. k \notin MetadataCells
    BY <2>3, <2>4 DEF Passing, MetadataCells, IsMetadata, IsUserMessage, IsMessage
  <2>6. k \notin Starts
    BY <2>3 DEF Passing, Starts, IsMessage
  <2>7. k \notin HeaderCells
    BY <2>3, <2>4 DEF Passing, HeaderCells, HasId, IsMessage
  <2>8. QED
    BY <2>5, <2>6, <2>7
<1>2. QED
  BY <1>1 DEF Calm

LEMMA CalmTwice ==
  ASSUME FileRight(pfile), NEW l \in Nat, NEW m \in Nat, NEW n \in Nat, Calm(l, m), Calm(m, n)
  PROVE  Calm(l, n)
BY DEF Calm

\* A cell that is neither
LEMMA CalmCell ==
  ASSUME FileRight(pfile), NEW m \in Nat, NEW i \in Nat, m < i, Calm(m, i - 1),
         i \notin MetadataCells \cup Starts \cup HeaderCells
  PROVE  Calm(m, i)
<1>1. ASSUME NEW k \in MetadataCells \cup Starts \cup HeaderCells, k > m PROVE k > i
  <2>1. k > i - 1 /\ k # i /\ k \in Nat
    BY <1>1, CellNumbers DEF Calm
  <2>2. QED
    BY <2>1
<1>2. QED
  BY <1>1 DEF Calm

\* Nothing that matters is between two places: the same applies at both.
LEMMA CalmSame ==
  ASSUME FileRight(pfile), NEW m \in Nat, NEW n \in Nat, m <= n, Calm(m, n)
  PROVE  /\ \A h : Heading(h, n) => Heading(h, m)
         /\ \A j : Latest(j, n) => Latest(j, m)
         /\ \A j : Coming(j, n) <=> Coming(j, m)
<1>0. \A k \in MetadataCells \cup Starts \cup HeaderCells : k \in Nat
  BY CellNumbers
<1>1. ASSUME NEW k \in MetadataCells \cup Starts \cup HeaderCells
      PROVE  (k > n <=> k > m) /\ (k <= n <=> k <= m)
  BY <1>0 DEF Calm
<1>2. ASSUME NEW h, Heading(h, n) PROVE Heading(h, m)
  BY <1>1, <1>2 DEF Heading
<1>3. ASSUME NEW j, Latest(j, n) PROVE Latest(j, m)
  BY <1>1, <1>3 DEF Latest
<1>4. ASSUME NEW j PROVE Coming(j, n) <=> Coming(j, m)
  BY <1>1, <1>4 DEF Coming
<1>5. QED
  BY <1>2, <1>3, <1>4

LEMMA CarriesOn ==
  ASSUME FileRight(pfile), NEW m \in Nat, NEW n \in Nat, m <= n, Calm(m, n),
         NEW s, NEW r, Carries(s, m), r.current_header = s.current_header,
         r.current_metadata = s.current_metadata
  PROVE  Carries(r, n)
<1>1. n \in Starts => n = m
  BY CellNumbers DEF Calm
<1>2. \A h : Heading(h, n) => Heading(h, m)
  BY CalmSame
<1>3. \A j : (Latest(j, n) => Latest(j, m)) /\ (Coming(j, n) <=> Coming(j, m))
  BY CalmSame
<1>4. QED
  BY <1>1, <1>2, <1>3 DEF Carries

LEMMA MetaOn ==
  ASSUME FileRight(pfile), NEW m \in Nat, NEW n \in Nat, m <= n, Calm(m, n),
         NEW x, MetaRight(x, m)
  PROVE  MetaRight(x, n)
BY CalmSame DEF MetaRight

LEMMA CarriesHeader ==
  ASSUME FileRight(pfile), NEW i \in HeaderCells, NEW s, NEW r, Carries(s, i - 1),
         r.current_header = i, r.current_metadata = s.current_metadata
  PROVE  Carries(r, i)
<1>1. i \in Nat /\ i - 1 \in Starts /\ i >= 2 /\ i \notin Starts
  BY CellNumbers, HeaderBehindStart
<1>2. s.current_metadata = None
  BY <1>1 DEF Carries
<1>3. ASSUME NEW h, Heading(h, i) PROVE h = i
  <2>1. h \in HeaderCells /\ h \in Nat /\ h <= i /\ ~(i - 1 > h) /\ h # i - 1
    BY <1>1, <1>3, CellNumbers DEF Heading
  <2>2. QED
    BY <1>1, <2>1
<1>4. ASSUME NEW j PROVE ~Latest(j, i)
  <2>1. SUFFICES ASSUME Latest(j, i) PROVE FALSE
    OBVIOUS
  <2>2. j \in MetadataCells /\ j \in Nat /\ j <= i /\ ~(i - 1 > j) /\ j # i - 1 /\ j # i
    BY <1>1, <2>1, CellNumbers DEF Latest
  <2>3. QED
    BY <1>1, <2>2
<1>5. QED
  BY <1>1, <1>2, <1>3, <1>4 DEF Carries

\* A metadata message is in the stream of the cell in front of it.
LEMMA HeadingBefore ==
  ASSUME FileRight(pfile), NEW i \in Nat, i >= 1, i \notin Starts, i \notin HeaderCells
  PROVE  \A h : Heading(h, i) <=> Heading(h, i - 1)
<1>1. ASSUME NEW k \in Starts \cup HeaderCells
      PROVE  (k > i - 1 <=> k > i) \/ k = i
  BY CellNumbers
<1>2. ASSUME NEW k \in Starts \cup HeaderCells
      PROVE  k # i /\ (k > i - 1 <=> k > i) /\ (k <= i - 1 <=> k <= i)
  <2>1. k \in Nat /\ k # i
    BY CellNumbers
  <2>2. QED
    BY <2>1
<1>3. QED
  BY <1>2 DEF Heading

LEMMA CarriesMetadata ==
  ASSUME FileRight(pfile), NEW i \in MetadataCells, NEW s, NEW r, Carries(s, i - 1),
         r.current_header = s.current_header,
         \A h : /\ Heading(h, i) /\ RefersForward(h) => r.current_metadata = i
                /\ Heading(h, i) /\ ~RefersForward(h) /\ ~cut =>
                      r.current_metadata = None \/ Coming(r.current_metadata, i)
  PROVE  Carries(r, i)
<1>1. i \in Nat /\ i >= 1 /\ i \notin Starts /\ i \notin HeaderCells
  BY CellNumbers
<1>2. \A h : Heading(h, i) => Heading(h, i - 1)
  BY <1>1, HeadingBefore
<1>3. ASSUME NEW j, Latest(j, i) PROVE j = i
  <2>1. j \in Nat /\ j <= i /\ ~(i > j)
    BY <1>1, <1>3, CellNumbers DEF Latest
  <2>2. QED
    BY <1>1, <2>1
<1>4. QED
  BY <1>1, <1>2, <1>3 DEF Carries

\* Behind an event that the reader looked the metadata up for where there was none
LEMMA CarriesEvent ==
  ASSUME FileRight(pfile), NEW i \in DOMAIN pfile, IsEvent(pfile[i]), NEW s, NEW r,
         Carries(s, i - 1), r.current_header = s.current_header,
         s.current_metadata # None => r.current_metadata = s.current_metadata,
         \A h : s.current_metadata = None /\ Heading(h, i) /\ ~RefersForward(h) /\ ~cut =>
                  \/ r.current_metadata = None /\ \A j : ~Coming(j, i)
                  \/ Coming(r.current_metadata, i)
  PROVE  Carries(r, i) /\ MetaRight(r.current_metadata, i)
<1>1. i \in Nat /\ i >= 1 /\ i \notin Starts /\ i \notin HeaderCells /\ i \notin MetadataCells
  <2>1. i \in Nat /\ i >= 1
    BY CellNumbers
  <2>2. pfile[i].kind = "message" /\ pfile[i].id \notin FixedIds /\ ~IsMetadataId(pfile[i].id)
    BY DEF IsEvent, IsUserMessage
  <2>3. QED
    BY <2>1, <2>2 DEF Starts, HeaderCells, HasId, FixedIds, MetadataCells, IsMetadata
<1>2. \A h : Heading(h, i) => Heading(h, i - 1)
  BY <1>1, HeadingBefore
<1>3. Calm(i - 1, i)
  <2>1. ASSUME NEW k \in MetadataCells \cup Starts \cup HeaderCells, k > i - 1 PROVE k > i
    <3>1. k \in Nat /\ k # i
      BY <1>1, CellNumbers
    <3>2. QED
      BY <1>1, <2>1, <3>1
  <2>2. QED
    BY <2>1 DEF Calm
<1>4. i - 1 \in Nat /\ i - 1 <= i
  BY <1>1
<1>5. \A j : (Latest(j, i) => Latest(j, i - 1)) /\ (Coming(j, i) <=> Coming(j, i - 1))
  BY <1>1, <1>3, <1>4, CalmSame
<1>6. \A j, k : Coming(j, i) /\ Coming(k, i) => j = k
  BY CellNumbers DEF Coming
<1>7. \A j : Latest(j, i) => j # None
  BY CellNumbers DEF Latest, None
<1>8. ASSUME NEW h, Heading(h, i)
      PROVE  /\ r.current_header = h
             /\ RefersForward(h) => \A j : Latest(j, i) => r.current_metadata = j
             /\ ~RefersForward(h) /\ ~cut =>
                   /\ r.current_metadata = None \/ Coming(r.current_metadata, i)
                   /\ \A j : Coming(j, i) => r.current_metadata = j
  <2>1. Heading(h, i - 1)
    BY <1>2, <1>8
  <2>2. r.current_header = h
    BY <2>1 DEF Carries
  <2>3. ASSUME RefersForward(h), NEW j, Latest(j, i) PROVE r.current_metadata = j
    BY <1>5, <1>7, <2>1, <2>3 DEF Carries
  <2>4. ASSUME ~RefersForward(h), ~cut
        PROVE  /\ r.current_metadata = None \/ Coming(r.current_metadata, i)
               /\ \A j : Coming(j, i) => r.current_metadata = j
    <3>1. CASE s.current_metadata = None
      BY <1>6, <1>8, <2>4, <3>1
    <3>2. CASE s.current_metadata # None
      <4>1. Coming(s.current_metadata, i)
        BY <1>5, <2>1, <2>4, <3>2 DEF Carries
      <4>2. QED
        BY <1>6, <3>2, <4>1
    <3>3. QED
      BY <3>1, <3>2
  <2>5. QED
    BY <2>2, <2>3, <2>4
<1>9. QED
  BY <1>1, <1>8 DEF Carries, MetaRight

\* At the magic number of the next stream nothing is carried.
LEMMA CarriesStart ==
  ASSUME FileRight(pfile), NEW m \in Starts, NEW r, r.current_metadata = None
  PROVE  Carries(r, m)
<1>1. ASSUME NEW h PROVE ~Heading(h, m)
  BY CellNumbers DEF Heading
<1>2. QED
  BY <1>1 DEF Carries

-----------------------------------------------------------------------------
(* What the client may read                                                 *)

Zipped == \A i \in DOMAIN pfile : IsUserMessage(pfile[i]) => pfile[i].z
EventsAlike ==
    \A k, l \in DOMAIN pfile :
        IsEvent(pfile[k]) /\ IsEvent(pfile[l]) => pfile[k].body.class = pfile[l].body.class

\* A file in which the reader may have to scan the footers in a loop has its messages in
\* sections and no two classes for one id.
Readable ==
    FileRight(pfile) /\ (~cut => Whole(pfile)) /\ (Backward(pfile) => Zipped /\ EventsAlike)

\* The definition d is that of the event k.
Defined(d, k) ==
    /\ d \in DOMAIN pfile /\ HasId(pfile[d], ProtoClassId)
    /\ k \in DOMAIN pfile /\ IsEvent(pfile[k]) /\ d < k
    /\ \A x \in Starts : x > d => x > k
    /\ pfile[d].body.class_id = 0 /\ pfile[d].body.full_name = pfile[k].body.class

LEMMA EventIs ==
  ASSUME FileRight(pfile), NEW k \in DOMAIN pfile, IsEvent(pfile[k])
  PROVE  /\ pfile[k].id = 0 /\ pfile[k].body.class \in EventClasses
         /\ \E d : Defined(d, k) /\ (pfile[d].z <=> pfile[k].z)
<1>1. PICK b \in Nat : b + 2 < k /\ StreamTo(pfile, b, k)
  BY HeaderOver DEF IsEvent
<1>2. k \in Nat /\ k \in b + 1 .. k
  BY <1>1, CellNumbers
<1>3. UsesRight(pfile, b, k)
  BY <1>1, <1>2 DEF StreamTo, CellRight, IsEvent
<1>4. pfile[k].id \in {0, 1} /\ pfile[k].id % 2 # 1
  BY <1>3 DEF UsesRight, IsEvent, IsMetadataId
<1>5. pfile[k].id = 0
  BY <1>4
<1>6. PICK d \in Defining(pfile, b, k - 1) :
         /\ pfile[d].body.class_id = pfile[k].id /\ pfile[d].body.full_name = pfile[k].body.class
         /\ pfile[k].z <=> pfile[d].z
  BY <1>3 DEF UsesRight
<1>7. d \in b + 1 .. k - 1 /\ HasId(pfile[d], ProtoClassId) /\ d < k /\ d \in Nat
  BY <1>2, <1>6 DEF Defining
<1>8. d \in DOMAIN pfile
  BY <1>1, <1>2, <1>7 DEF FileRight
<1>9. ASSUME NEW x \in Starts, x > d PROVE x > k
  <2>1. x \in Nat
    BY CellNumbers
  <2>2. x > b + 1
    BY <1>1, <1>7, <1>9, <2>1
  <2>3. k > b + 1
    BY <1>1, <1>2
  <2>4. QED
    BY <1>1, <2>2, <2>3, HeadingIs
<1>10. Defined(d, k)
  BY <1>5, <1>6, <1>7, <1>8, <1>9 DEF Defined
<1>11. QED
  BY <1>3, <1>5, <1>6, <1>10 DEF UsesRight, IsEvent

\* A stream has one definition for the id 0.
LEMMA OneDefinition ==
  ASSUME FileRight(pfile), NEW d \in DOMAIN pfile, NEW e \in DOMAIN pfile,
         HasId(pfile[d], ProtoClassId), HasId(pfile[e], ProtoClassId),
         pfile[d].body.class_id = pfile[e].body.class_id, d < e
  PROVE  \E x \in Starts : x > d /\ x <= e
<1>1. d \in Nat /\ e \in Nat /\ d >= 1
  BY CellNumbers
<1>2. PICK b \in 0 .. e - 1 : StreamTo(pfile, b, e)
  BY DEF FileRight
<1>3. b \in Nat /\ e \in b + 1 .. e /\ b + 1 \in b + 1 .. e
  BY <1>1
<1>4. DefinesRight(pfile, b, e) /\ pfile[b + 1].kind = "START_MAGIC"
  <2>1. CellRight(pfile, b, e)
    BY <1>2, <1>3 DEF StreamTo
  <2>2. e # b + 1 /\ DefinesRight(pfile, b, e)
    BY <2>1 DEF CellRight, HasId
  <2>3. e > b + 1
    BY <1>1, <1>3, <2>2
  <2>4. QED
    BY <1>2, <1>3, <2>2, <2>3, BeginOf
<1>5. CASE d > b
  <2>1. d \in Defining(pfile, b, e - 1)
    BY <1>1, <1>3, <1>5 DEF Defining
  <2>2. QED
    BY <1>4, <2>1 DEF DefinesRight
<1>6. CASE ~(d > b)
  <2>1. b + 1 \in DOMAIN pfile /\ b + 1 > d /\ b + 1 <= e
    BY <1>1, <1>3, <1>6 DEF FileRight
  <2>2. QED
    BY <1>4, <2>1 DEF Starts
<1>7. QED
  BY <1>5, <1>6

LEMMA NoClash ==
  ASSUME FileRight(pfile), ~Clash
  PROVE  EventsAlike
<1> DEFINE used == ClassesUsed(pfile) \cap EventClasses
           messages == {j \in DOMAIN pfile : IsUserMessage(pfile[j])}
<1>1. IsFiniteSet(used)
  <2>1. IsFiniteSet(DOMAIN pfile)
    <3>1. PyFileEnd \in Nat /\ DOMAIN pfile = 1 .. PyFileEnd
      BY DEF FileRight, PyFileEnd
    <3>2. QED
      BY <3>1, FS_Interval
  <2>2. IsFiniteSet(messages)
    BY <2>1, FS_Subset
  <2>3. IsFiniteSet({pfile[i].body.class : i \in messages})
    <3> DEFINE f == [i \in messages |-> pfile[i].body.class]
               T == {pfile[i].body.class : i \in messages}
    <3>1. f \in Surjection(messages, T)
      BY DEF Surjection
    <3>2. QED
      BY <2>2, <3>1, FS_Surjection
  <2>4. used \subseteq {pfile[i].body.class : i \in messages}
    BY DEF ClassesUsed
  <2>5. QED
    BY <2>3, <2>4, FS_Subset
<1>2. Cardinality(used) \in Nat /\ ~(Cardinality(used) > 1)
  BY <1>1, FS_CardinalityType DEF Clash
<1>3. ASSUME NEW k \in DOMAIN pfile, IsEvent(pfile[k]) PROVE pfile[k].body.class \in used
  BY <1>3, EventIs DEF ClassesUsed, IsEvent
<1>4. ASSUME NEW c \in used, NEW d \in used, c # d PROVE FALSE
  <2>1. {c, d} \subseteq used
    OBVIOUS
  <2>2. Cardinality({c, d}) <= Cardinality(used)
    BY <1>1, <2>1, FS_Subset
  <2>3. Cardinality({c}) = 1 /\ IsFiniteSet({c})
    BY FS_Singleton
  <2>4. {c} \cup {d} = {c, d} /\ d \notin {c}
    BY <1>4
  <2>5. Cardinality({c} \cup {d}) = Cardinality({c}) + 1
    BY <2>3, <2>4, FS_AddElement
  <2>6. QED
    BY <1>2, <2>2, <2>3, <2>4, <2>5
<1> HIDE DEF used
<1>5. QED
  BY <1>3, <1>4 DEF EventsAlike

LEMMA OneStream ==
  ASSUME FileRight(pfile), ~(Cardinality(Starts) > 1)
  PROVE  EventsAlike
<1>1. IsFiniteSet(Starts)
  <2>1. PyFileEnd \in Nat /\ DOMAIN pfile = 1 .. PyFileEnd
    BY DEF FileRight, PyFileEnd
  <2>2. IsFiniteSet(DOMAIN pfile) /\ Starts \subseteq DOMAIN pfile
    BY <2>1, FS_Interval DEF Starts
  <2>3. QED
    BY <2>2, FS_Subset
<1>2. ASSUME NEW x \in Starts, NEW y \in Starts, x # y PROVE FALSE
  <2>1. {x, y} \subseteq Starts /\ Cardinality(Starts) \in Nat
    BY <1>1, FS_CardinalityType
  <2>2. Cardinality({x, y}) <= Cardinality(Starts)
    BY <1>1, <2>1, FS_Subset
  <2>3. Cardinality({x}) = 1 /\ IsFiniteSet({x})
    BY FS_Singleton
  <2>4. {x} \cup {y} = {x, y} /\ y \notin {x}
    BY <1>2
  <2>5. Cardinality({x} \cup {y}) = Cardinality({x}) + 1
    BY <2>3, <2>4, FS_AddElement
  <2>6. QED
    BY <2>1, <2>2, <2>3, <2>4, <2>5
<1>3. ASSUME NEW d \in DOMAIN pfile, HasId(pfile[d], ProtoClassId)
      PROVE  \E x \in Starts : x < d
  <2>1. d \in Nat /\ d >= 1
    BY CellNumbers
  <2>2. PICK b \in 0 .. d - 1 : StreamTo(pfile, b, d)
    BY DEF FileRight
  <2>3. b \in Nat /\ d \in b + 1 .. d /\ b + 1 <= d
    BY <2>1
  <2>4. b + 1 # d
    BY <1>3, <2>2, <2>3 DEF StreamTo, CellRight, HasId
  <2>5. d > b + 1
    BY <2>1, <2>3, <2>4
  <2>6. QED
    BY <2>1, <2>2, <2>3, <2>5, BeginOf DEF Starts
<1>4. ASSUME NEW d \in DOMAIN pfile, NEW e \in DOMAIN pfile,
             HasId(pfile[d], ProtoClassId), HasId(pfile[e], ProtoClassId),
             pfile[d].body.class_id = pfile[e].body.class_id, d < e
      PROVE  FALSE
  <2>1. PICK x \in Starts : x > d /\ x <= e
    BY <1>4, OneDefinition
  <2>2. PICK y \in Starts : y < d
    BY <1>4, <1>3
  <2>3. d \in Nat /\ x \in Nat /\ y \in Nat
    BY CellNumbers
  <2>4. QED
    BY <1>2, <2>1, <2>2, <2>3
<1>5. ASSUME NEW k \in DOMAIN pfile, NEW l \in DOMAIN pfile, IsEvent(pfile[k]),
             IsEvent(pfile[l])
      PROVE  pfile[k].body.class = pfile[l].body.class
  <2>1. PICK d : Defined(d, k)
    BY <1>5, EventIs
  <2>2. PICK e : Defined(e, l)
    BY <1>5, EventIs
  <2>3. d \in Nat /\ e \in Nat
    BY <2>1, <2>2, CellNumbers DEF Defined
  <2>4. ~(d < e) /\ ~(e < d)
    BY <1>4, <2>1, <2>2 DEF Defined
  <2>5. d = e
    BY <2>3, <2>4
  <2>6. QED
    BY <2>1, <2>2, <2>5 DEF Defined
<1>6. QED
  BY <1>5 DEF EventsAlike

LEMMA AllZipped ==
  ASSUME FileRight(pfile), ~Uncompressed(pfile)
  PROVE  Zipped
<1>1. ASSUME NEW i \in DOMAIN pfile, IsUserMessage(pfile[i]) PROVE pfile[i].z
  <2>1. i \in Nat
    BY CellNumbers
  <2>2. PICK b \in 0 .. i - 1 : CellRight(pfile, b, i)
    BY CellIs
  <2>3. PICK d \in Defining(pfile, b, i - 1) : pfile[i].z <=> pfile[d].z
    BY <1>1, <2>2 DEF CellRight, UsesRight
  <2>4. d \in DOMAIN pfile /\ HasId(pfile[d], ProtoClassId)
    BY <2>1, <2>2, <2>3 DEF Defining, FileRight
  <2>5. QED
    BY <2>3, <2>4 DEF Uncompressed
<1>2. QED
  BY <1>1 DEF Zipped

\* The limits that are named for the client leave the files that can be read.
LEMMA IsReadable ==
  ASSUME FileRight(pfile), ~cut => Whole(pfile), ReadingAllowed, ~LateScan, ~ScanUncompressed
  PROVE  Readable
<1>1. ASSUME Backward(pfile) PROVE Zipped /\ EventsAlike
  <2>1. ~Uncompressed(pfile)
    BY <1>1 DEF ReadingAllowed, ScanAllowed
  <2>2. ~Clash \/ ~(Cardinality(Starts) > 1)
    BY <1>1 DEF ReadingAllowed
  <2>3. QED
    BY <2>1, <2>2, AllZipped, NoClash, OneStream
<1>2. QED
  BY <1>1 DEF Readable

-----------------------------------------------------------------------------
(* Looking up metadata                                                      *)

\* From inside of a section, the metadata behind the place of the section is that
\* behind the message that was read.
LEMMA PlaceBehind ==
  ASSUME FileRight(pfile), NEW s, Took(s), s.zin # NoZlib, Zipped, NEW j \in MetadataCells
  PROVE  /\ Place(pfile, j) = j - 2
         /\ Place(pfile, j) > Tell(s) <=> j > s.got
<1>1. /\ InSection(s.zin) /\ s.zin.next = s.got /\ Tell(s) = s.zin.tell /\ pfile[s.got].z
      /\ s.got \in DOMAIN pfile
  BY DEF Took, Placed, At, Tell
<1> DEFINE t == s.zin.tell
<1>2. /\ t \in DOMAIN pfile /\ t <= s.got /\ HasId(pfile[t], StartCompressedSectionId)
      /\ \A k \in t + 1 .. s.got : pfile[k].z
  BY <1>1 DEF InSection
<1>3. pfile[j].z /\ j \in Leading
  BY MetadataLead DEF Zipped, MetadataCells, IsMetadata
<1>4. j >= 2 /\ j - 1 \in DOMAIN pfile /\ j \in Nat /\ HasId(pfile[j - 1], StartCompressedSectionId)
  BY <1>3, LeadingIs DEF Leads
<1>5. ~pfile[j - 1].z /\ ~pfile[t].z
  BY <1>2, <1>4, SectionCells
<1>6. t \in Nat /\ s.got \in Nat
  BY <1>1, <1>2, CellNumbers
<1>7. t # s.got /\ j - 1 # s.got /\ ~(j - 1 \in t + 1 .. s.got)
  BY <1>1, <1>2, <1>5
<1>8. Place(pfile, j) = j - 2
  BY <1>3 DEF Place
<1> HIDE DEF t
<1>9. j - 2 > t <=> j > s.got
  BY <1>2, <1>4, <1>6, <1>7
<1>10. QED
  BY <1>1, <1>8, <1>9 DEF t

LEMMA ComesNext ==
  ASSUME FileRight(pfile), NEW s, Took(s), s.zin # NoZlib, Zipped, NEW a, Discovered(a),
         NEW x, x = Upcoming(a, Tell(s))
  PROVE  \/ x = None /\ \A j : ~Coming(j, s.got)
         \/ Coming(x, s.got)
<1> DEFINE behind == {k \in DOMAIN a.metadata : k > Tell(s)}
<1>1. \A k \in DOMAIN a.metadata :
         a.metadata[k] \in MetadataCells /\ k = Place(pfile, a.metadata[k])
  BY DEF Discovered, Keyed
<1>2. \A j \in MetadataCells : Place(pfile, j) \in DOMAIN a.metadata
  BY DEF Discovered
<1>3. \A j \in MetadataCells : Place(pfile, j) = j - 2 /\ (Place(pfile, j) > Tell(s) <=> j > s.got)
  BY PlaceBehind
<1>4. \A j \in MetadataCells : j \in Nat
  BY CellNumbers
<1>5. ASSUME behind = {} PROVE x = None /\ \A j : ~Coming(j, s.got)
  <2>1. x = None
    BY <1>5 DEF Upcoming
  <2>2. ASSUME NEW j \in MetadataCells, j > s.got PROVE FALSE
    BY <1>2, <1>3, <1>5, <2>2
  <2>3. QED
    BY <2>1, <2>2 DEF Coming
<1>6. ASSUME behind # {} PROVE Coming(x, s.got)
  <2>1. x = a.metadata[Min(behind)]
    BY <1>6 DEF Upcoming
  <2>2. behind \in SUBSET Int
    BY <1>1, <1>3, <1>4
  <2>3. {k + 2 : k \in behind} \in SUBSET Nat /\ {k + 2 : k \in behind} # {}
    <3>1. \A k \in behind : k + 2 \in Nat
      BY <1>1, <1>3, <1>4
    <3>2. QED
      BY <1>6, <3>1
  <2>4. PICK l \in {k + 2 : k \in behind} : \A y \in {k + 2 : k \in behind} : l <= y
    BY <2>3, LeastOne
  <2>5. PICK k \in behind : l = k + 2
    BY <2>4
  <2>6. \A y \in behind : k <= y
    <3>1. ASSUME NEW y \in behind PROVE k <= y
      <4>1. l <= y + 2 /\ y \in Int /\ k \in Int
        BY <2>2, <2>4, <2>5
      <4>2. QED
        BY <2>5, <4>1
    <3>2. QED
      BY <3>1
  <2>7. Min(behind) = k
    BY <2>2, <2>5, <2>6, Extremes
  <2>8. x = a.metadata[k] /\ x \in MetadataCells /\ k = Place(pfile, x) /\ k > Tell(s)
    BY <1>1, <2>1, <2>7
  <2>9. x > s.got /\ k = x - 2 /\ x \in Nat
    BY <1>3, <1>4, <2>8
  <2>10. ASSUME NEW j \in MetadataCells, j > s.got PROVE x <= j
    <3>1. Place(pfile, j) \in behind /\ Place(pfile, j) = j - 2
      BY <1>2, <1>3, <2>10
    <3>2. k <= j - 2 /\ j \in Nat
      BY <1>4, <2>6, <3>1
    <3>3. QED
      BY <2>9, <3>2
  <2>11. QED
    BY <2>8, <2>9, <2>10 DEF Coming
<1>7. QED
  BY <1>5, <1>6

\* The header that is looked up from a message of the client is that of its stream.
LEMMA HeaderLooked ==
  ASSUME FileRight(pfile), NEW s, Took(s), IsUserMessage(pfile[s.got]), Explored(s, s.got),
         NEW h, Heading(h, s.got), DOMAIN s.headers # {}
  PROVE  Tell(s) \in Nat /\ HeaderAt(s, Tell(s)) = h
<1>1. /\ s.got \in DOMAIN pfile /\ s.got \in Nat /\ At(s) = s.got /\ Placed(s)
      /\ s.zin # NoZlib <=> pfile[s.got].z
  BY CellNumbers DEF Took
<1>2. /\ h \in HeaderCells /\ h \in Nat /\ h <= s.got /\ ~pfile[h].z
      /\ h \in DOMAIN pfile /\ \A x \in Starts : x > h => x > s.got
  BY CellNumbers, HeaderPlain DEF Heading
<1>3. s.got \notin HeaderCells
  BY DEF IsUserMessage, HeaderCells, HasId, FixedIds
<1>4. h < s.got
  BY <1>1, <1>2, <1>3
<1>5. Tell(s) \in Nat /\ h <= Tell(s) /\ Tell(s) <= s.got
  <2>1. CASE s.zin = NoZlib
    <3>1. Tell(s) = s.got
      BY <1>1, <2>1 DEF Tell, At
    <3>2. QED
      BY <1>1, <1>2, <3>1
  <2>2. CASE s.zin # NoZlib
    <3>1. /\ s.zin.tell \in Nat /\ s.zin.tell <= s.got
          /\ \A k \in s.zin.tell + 1 .. s.got : pfile[k].z
      BY <1>1, <2>2 DEF Placed, InSection, At
    <3>2. h \notin s.zin.tell + 1 .. s.got
      BY <1>2, <3>1
    <3>3. h <= s.zin.tell
      BY <1>1, <1>2, <3>1, <3>2
    <3>4. QED
      BY <2>2, <3>1, <3>3 DEF Tell
  <2>3. QED
    BY <2>1, <2>2
<1>6. Keyed(s) /\ h - 1 \in DOMAIN s.headers
  BY <1>2 DEF Explored, Discovered, Met
<1>7. ASSUME NEW g \in HeaderCells, g - 1 <= Tell(s) PROVE g <= h
  <2>1. g - 1 \in Starts /\ g \in Nat /\ g >= 2
    BY HeaderBehindStart, CellNumbers
  <2>2. ~(g - 1 > h)
    BY <1>1, <1>2, <1>5, <1>7, <2>1
  <2>3. g - 1 # h
    BY <1>2, <2>1, CellNumbers
  <2>4. QED
    BY <1>2, <2>1, <2>2, <2>3
<1>8. h - 1 <= Tell(s)
  BY <1>2, <1>5
<1>9. HeaderAt(s, Tell(s)) = h
  <2>1. \A g \in HeaderCells :
           /\ g - 1 \in DOMAIN s.headers /\ g - 1 <= Tell(s)
           /\ \A i \in HeaderCells : i - 1 <= Tell(s) => i <= g
           => HeaderAt(s, Tell(s)) = g
    BY <1>5, <1>6, HeaderIs
  <2>2. QED
    BY <1>2, <1>6, <1>7, <1>8, <2>1
<1>10. QED
  BY <1>5, <1>9

\* What the reader finds by itself for a message of a stream with metadata behind the
\* events, in a file that is whole
LEMMA FindsNext ==
  ASSUME Readable, ~cut, NEW s, Took(s), IsUserMessage(pfile[s.got]), Explored(s, s.got),
         NEW h, Heading(h, s.got), ~RefersForward(h),
         NEW r, r = FindCurrentMetadata(s), r.status = "ok"
  PROVE  \/ r.current_metadata = None /\ \A j : ~Coming(j, s.got)
         \/ Coming(r.current_metadata, s.got)
<1>1. /\ FileRight(pfile) /\ Whole(pfile) /\ (Backward(pfile) => Zipped)
      /\ IsReader(s) /\ s.got \in DOMAIN pfile
  BY DEF Readable, Took, Placed
<1>2. Keyed(s) /\ (s.all_meta => Discovered(s))
  BY DEF Explored, Discovered, Met
<1>3. h \in DOMAIN pfile /\ HasId(pfile[h], StreamHeaderId)
  BY DEF Heading, HeaderCells
<1>4. Backward(pfile)
  BY <1>3 DEF Backward, RefersForward
<1>5. s.zin # NoZlib
  BY <1>1, <1>4 DEF Zipped, Took
<1>6. Tell(s) \in Nat
  BY <1>5 DEF Tell, Took, Placed
<1>7. DOMAIN s.headers # {}
  BY <1>1, <1>2, <1>6, FindIs
<1>8. HeaderAt(s, Tell(s)) = h
  BY <1>1, <1>7, HeaderLooked
<1>9. PICK a : /\ a = ReadAllMetaInfo(s) /\ a.status = "ok"
               /\ r.current_metadata = Upcoming(a, Tell(s))
  BY <1>1, <1>2, <1>6, <1>8, FindIs
<1>10. Discovered(a)
  BY <1>1, <1>2, <1>9, ReadAllFinds
<1>11. QED
  BY <1>1, <1>4, <1>5, <1>9, <1>10, ComesNext

-----------------------------------------------------------------------------
(* The class that events are parsed as                                      *)

\* Behind the definition of a stream, up to m, the reader knows the class of the events.
Named(s, m) ==
    \A d, k : Defined(d, k) /\ d <= m /\ (\A x \in Starts : x > d => x > m) =>
        Knowing(s) /\ EventClass(s) = pfile[k].body.class

DefinitionCells == {i \in DOMAIN pfile : HasId(pfile[i], ProtoClassId)}

LEMMA DefinedIs ==
  ASSUME FileRight(pfile), NEW d, NEW k, Defined(d, k)
  PROVE  /\ d \in DefinitionCells /\ d \in Nat /\ d >= 1 /\ k \in Nat /\ d < k
         /\ d \notin Starts /\ d \notin HeaderCells /\ d \notin MetadataCells
<1>1. d \in Nat /\ d >= 1 /\ k \in Nat /\ d \in DOMAIN pfile
  BY CellNumbers DEF Defined
<1>2. HasId(pfile[d], ProtoClassId) /\ ProtoClassId # StreamHeaderId
  BY PyIdsDiffer DEF Defined
<1>3. QED
  BY <1>1, <1>2 DEF Defined, DefinitionCells, Starts, HeaderCells, HasId, MetadataCells, IsMetadata,
                    IsUserMessage, FixedIds

LEMMA NamedOn ==
  ASSUME FileRight(pfile), NEW m \in Nat, NEW n \in Nat, m <= n,
         \A d \in DefinitionCells : d <= n => d <= m,
         NEW s, NEW r, Named(s, m), IsPool(s.pool), SameClasses(s, r)
  PROVE  Named(r, n) /\ IsPool(r.pool)
<1>1. IsPool(r.pool) /\ r.pool.class = s.pool.class
  BY DEF SameClasses
<1>2. (Knowing(r) <=> Knowing(s)) /\ EventClass(r) = EventClass(s)
  BY <1>1 DEF Knowing, EventClass
<1>3. ASSUME NEW d, NEW k, Defined(d, k), d <= n, \A x \in Starts : x > d => x > n
      PROVE  d <= m /\ \A x \in Starts : x > d => x > m
  <2>1. d \in DefinitionCells
    BY <1>3, DefinedIs
  <2>2. \A x \in Starts : x \in Nat
    BY CellNumbers
  <2>3. \A x \in Starts : x > n => x > m
    BY <2>2
  <2>4. QED
    BY <1>3, <2>1, <2>3
<1>4. QED
  BY <1>1, <1>2, <1>3 DEF Named

LEMMA NamedLearns ==
  ASSUME EventsAlike, NEW m, NEW s, NEW r, Named(s, m), IsPool(s.pool), Learns(s, r)
  PROVE  Named(r, m) /\ IsPool(r.pool)
<1>1. /\ IsPool(r.pool)
      /\ Knowing(s) => Knowing(r)
      /\ Knowing(r) =>
            \/ Knowing(s) /\ EventClass(r) = EventClass(s)
            \/ \E k \in DOMAIN pfile : IsEvent(pfile[k]) /\ pfile[k].body.class = EventClass(r)
  BY DEF Learns
<1>2. ASSUME NEW d, NEW k, Defined(d, k), Knowing(s), EventClass(s) = pfile[k].body.class
      PROVE  Knowing(r) /\ EventClass(r) = pfile[k].body.class
  <2>1. k \in DOMAIN pfile /\ IsEvent(pfile[k])
    BY <1>2 DEF Defined
  <2>2. Knowing(r)
    BY <1>1, <1>2
  <2>3. CASE EventClass(r) = EventClass(s)
    BY <1>2, <2>2, <2>3
  <2>4. CASE \E l \in DOMAIN pfile : IsEvent(pfile[l]) /\ pfile[l].body.class = EventClass(r)
    BY <2>1, <2>2, <2>4 DEF EventsAlike
  <2>5. QED
    BY <1>1, <2>2, <2>3, <2>4
<1>3. QED
  BY <1>1, <1>2 DEF Named

\* A ProtoClass gives the class of its stream, or leaves it alone.
LEMMA NamedDefinition ==
  ASSUME FileRight(pfile), NEW i \in DefinitionCells, NEW s, IsReader(s), Named(s, i - 1),
         IsPool(s.pool), NEW r, r = ReportProtoClass(s, pfile[i].body), r.status = "ok"
  PROVE  Named(r, i) /\ IsPool(r.pool)
<1>1. i \in DOMAIN pfile /\ i \in Nat /\ i >= 1 /\ HasId(pfile[i], ProtoClassId)
  BY CellNumbers DEF DefinitionCells
<1>2. /\ IsPool(r.pool)
      /\ DOMAIN r.pool.class = DOMAIN s.pool.class \cup {pfile[i].body.class_id}
      /\ r.pool.class[pfile[i].body.class_id].name = pfile[i].body.full_name
      /\ \A x \in DOMAIN s.pool.class :
            x # pfile[i].body.class_id => r.pool.class[x] = s.pool.class[x]
  BY ReportIs
<1>3. ASSUME NEW d, NEW k, Defined(d, k), d <= i, \A x \in Starts : x > d => x > i
      PROVE  Knowing(r) /\ EventClass(r) = pfile[k].body.class
  <2>1. d \in DOMAIN pfile /\ HasId(pfile[d], ProtoClassId) /\ pfile[d].body.class_id = 0
        /\ pfile[d].body.full_name = pfile[k].body.class /\ d \in Nat
    BY <1>3, DefinedIs DEF Defined
  <2>2. CASE d = i
    BY <1>2, <2>1, <2>2 DEF Knowing, EventClass
  <2>3. CASE d # i
    <3>1. d < i /\ d <= i - 1
      BY <1>1, <1>3, <2>1, <2>3
    <3>2. pfile[i].body.class_id # 0
      <4>1. SUFFICES ASSUME pfile[i].body.class_id = pfile[d].body.class_id PROVE FALSE
        BY <2>1
      <4>2. PICK x \in Starts : x > d /\ x <= i
        BY <1>1, <2>1, <3>1, <4>1, OneDefinition
      <4>3. x > i /\ x \in Nat
        BY <1>3, <4>2, CellNumbers
      <4>4. QED
        BY <1>1, <4>2, <4>3
    <3>3. ASSUME NEW x \in Starts, x > d PROVE x > i - 1
      <4>1. x > i /\ x \in Nat
        BY <1>3, <3>3, CellNumbers
      <4>2. QED
        BY <1>1, <4>1
    <3>4. Knowing(s) /\ EventClass(s) = pfile[k].body.class
      BY <1>3, <3>1, <3>3 DEF Named
    <3>5. QED
      BY <1>2, <3>2, <3>4 DEF Knowing, EventClass
  <2>4. QED
    BY <2>2, <2>3
<1>4. QED
  BY <1>2, <1>3 DEF Named

LEMMA NamedStart ==
  ASSUME FileRight(pfile), NEW m \in Starts, NEW s
  PROVE  Named(s, m)
<1>1. ASSUME NEW d, NEW k, Defined(d, k), d <= m, \A x \in Starts : x > d => x > m PROVE FALSE
  <2>1. d \in Nat /\ d \notin Starts /\ m \in Nat
    BY <1>1, DefinedIs, CellNumbers
  <2>2. d # m /\ ~(m > d)
    BY <1>1, <2>1
  <2>3. QED
    BY <1>1, <2>1, <2>2
<1>2. QED
  BY <1>1 DEF Named

LEMMA NamedEvent ==
  ASSUME FileRight(pfile), NEW k \in DOMAIN pfile, IsEvent(pfile[k]), NEW s, Named(s, k)
  PROVE  Knowing(s) /\ EventClass(s) = pfile[k].body.class /\ pfile[k].id = 0
<1>1. PICK d : Defined(d, k)
  BY EventIs
<1>2. d <= k /\ \A x \in Starts : x > d => x > k
  BY <1>1, DefinedIs DEF Defined
<1>3. QED
  BY <1>1, <1>2, EventIs DEF Named

-----------------------------------------------------------------------------
(* What the reader has found and holds, up to the cell m                    *)

Ready(s, m) ==
    /\ Keyed(s) /\ IsPool(s.pool) /\ Carries(s, m) /\ Named(s, m)
    /\ m \in Starts => s.metadata_change
    /\ ~cut => Explored(s, m)

LEMMA ReadyOn ==
  ASSUME FileRight(pfile), NEW m \in Nat, NEW n \in Nat, m <= n, Passes(m, n),
         NEW s, Ready(s, m), NEW r, Reads(s, r), SameClasses(s, r)
  PROVE  Ready(r, n) /\ Calm(m, n)
<1>1. Calm(m, n)
  BY PassesCalm
<1>2. /\ r.current_header = s.current_header /\ r.current_metadata = s.current_metadata
      /\ r.metadata_change = s.metadata_change /\ IsReader(r) /\ Booked(s, r)
      /\ r.metadata = s.metadata
  BY ReadsBooks DEF Reads, Scans
<1>3. Carries(r, n)
  BY <1>1, <1>2, CarriesOn DEF Ready
<1>4. \A d \in DefinitionCells : d <= n => d <= m
  <2>1. ASSUME NEW d \in DefinitionCells, d <= n, ~(d <= m) PROVE FALSE
    <3>1. d \in Nat /\ HasId(pfile[d], ProtoClassId)
      BY CellNumbers DEF DefinitionCells
    <3>2. d \in m + 1 .. n
      BY <2>1, <3>1
    <3>3. Passing(pfile[d])
      BY <3>2 DEF Passes
    <3>4. QED
      BY <3>1, <3>3, PyIdsDiffer DEF Passing, HasId, CompressionIds
  <2>2. QED
    BY <2>1
<1>5. Named(r, n) /\ IsPool(r.pool)
  BY <1>4, NamedOn DEF Ready
<1>6. n \in Starts => r.metadata_change
  <2>1. n \in Starts => n = m
    BY <1>1, CellNumbers DEF Calm
  <2>2. QED
    BY <1>2, <2>1 DEF Ready
<1>7. ~cut => Explored(r, n)
  <2>1. ~cut => Explored(r, m)
    BY <1>2, ExploredSame DEF Ready
  <2>2. QED
    BY <2>1, PassesBlanks, ExploredOn
<1>8. Keyed(r)
  BY <1>2 DEF Ready, Booked, Keyed
<1>9. QED
  BY <1>1, <1>3, <1>5, <1>6, <1>7, <1>8 DEF Ready

LEMMA FindNamed ==
  ASSUME Readable, NEW s, IsReader(s), Keyed(s), Tell(s) \in Nat, NEW m \in Nat, Named(s, m),
         IsPool(s.pool), NEW r, r = FindCurrentMetadata(s), r.status = "ok"
  PROVE  Keyed(r) /\ Named(r, m) /\ IsPool(r.pool)
<1>1. FileRight(pfile) /\ (Backward(pfile) => EventsAlike)
  BY DEF Readable
<1>2. /\ Keyed(r) /\ Learns(s, r)
      /\ IF RefersForward(HeaderAt(s, Tell(s))) THEN SameClasses(s, r) ELSE Backward(pfile)
  BY <1>1, FindIs
<1>3. CASE SameClasses(s, r)
  BY <1>1, <1>2, <1>3, NamedOn
<1>4. CASE Backward(pfile)
  BY <1>1, <1>2, <1>4, NamedLearns
<1>5. QED
  BY <1>2, <1>3, <1>4

\* What a step of next() leaves behind: it is ready for what follows, an event comes with
\* its metadata, and without a change of the metadata nothing of it was passed.
Held(s, h) ==
    /\ Ready(h, At(h))
    /\ IsEvent(pfile[At(h)]) => MetaRight(h.current_metadata, At(h))
    /\ ~h.metadata_change => ~s.metadata_change /\ Calm(s.got - 1, At(h))

LEMMA HeldThere ==
  ASSUME FileRight(pfile), NEW s, Took(s), Ready(s, s.got - 1),
         NEW h, h.pos = s.pos, h.zin = s.zin, Keyed(h), IsPool(h.pool), Carries(h, s.got),
         Named(h, s.got), s.got \in Starts => h.metadata_change, ~cut => Explored(h, At(h)),
         IsEvent(pfile[s.got]) => MetaRight(h.current_metadata, s.got),
         ~h.metadata_change => /\ ~s.metadata_change
                               /\ s.got \notin MetadataCells \cup Starts \cup HeaderCells
  PROVE  Held(s, h)
<1>1. At(h) = s.got /\ s.got \in DOMAIN pfile /\ s.got \in Nat /\ s.got >= 1
  BY CellNumbers DEF Took, At
<1>2. Ready(h, At(h))
  BY <1>1 DEF Ready
<1>3. ASSUME ~h.metadata_change PROVE Calm(s.got - 1, At(h))
  <2>1. ASSUME NEW k \in MetadataCells \cup Starts \cup HeaderCells, k > s.got - 1
        PROVE  k > s.got
    <3>1. k \in Nat /\ k # s.got
      BY <1>3, CellNumbers
    <3>2. QED
      BY <1>1, <2>1, <3>1
  <2>2. QED
    BY <1>1, <2>1 DEF Calm
<1>4. QED
  BY <1>1, <1>2, <1>3 DEF Held

LEMMA HandleHeader ==
  ASSUME Readable, NEW s, Took(s), s.got \in HeaderCells, Ready(s, s.got - 1),
         NEW h, h = Headered(s), ~cut => Explored(h, At(h))
  PROVE  Held(s, h)
<1>1. FileRight(pfile) /\ IsReader(s) /\ At(s) = s.got
  BY DEF Readable, Took, Placed
<1>2. s.got \in Nat /\ s.got >= 2 /\ s.got - 1 \in Starts /\ s.got \notin Starts
      /\ s.got \notin MetadataCells /\ s.got - 1 \in Nat /\ s.got - 1 <= s.got
  BY <1>1, HeaderBehindStart, CellNumbers
<1>3. s.zin = NoZlib
  BY <1>1, HeaderPlain DEF Took
<1>4. Tell(s) = s.got
  BY <1>1, <1>3 DEF Tell, At
<1>5. /\ h.pos = s.pos /\ h.zin = s.zin /\ h.pool = s.pool /\ h.current_header = s.got
      /\ h.current_metadata = s.current_metadata /\ h.metadata_change = s.metadata_change
      /\ h.headers = With(s.headers, s.got - 1, s.got) /\ h.metadata = s.metadata
  BY <1>1, <1>4, HeaderedIs
<1>6. Keyed(h)
  BY <1>1, <1>5, HeaderKeyed DEF Ready
<1>7. Carries(h, s.got)
  BY <1>1, <1>5, CarriesHeader DEF Ready
<1>8. Named(h, s.got) /\ IsPool(h.pool)
  <2>1. \A d \in DefinitionCells : d <= s.got => d <= s.got - 1
    <3>1. s.got \notin DefinitionCells
      BY PyIdsDiffer DEF DefinitionCells, HeaderCells, HasId
    <3>2. \A d \in DefinitionCells : d \in Nat
      BY <1>1, CellNumbers DEF DefinitionCells
    <3>3. QED
      BY <1>2, <3>1, <3>2
  <2>2. SameClasses(s, h)
    BY <1>5, SamePool
  <2>3. QED
    BY <1>1, <1>2, <2>1, <2>2, NamedOn DEF Ready
<1>9. h.metadata_change
  BY <1>2, <1>5 DEF Ready
<1>10. ~IsEvent(pfile[s.got])
  BY DEF HeaderCells, HasId, IsEvent, IsUserMessage, FixedIds
<1>11. QED
  BY <1>1, <1>2, <1>5, <1>6, <1>7, <1>8, <1>9, <1>10, HeldThere

LEMMA HandleFooter ==
  ASSUME Readable, NEW s, Took(s), ~s.eof, s.got \in FooterCells, Ready(s, s.got - 1),
         NEW h, h = AfterFooter(ProcessFooter(s, pfile[s.got].body)), h.status = "ok", ~h.eof,
         ~cut => Explored(h, At(h))
  PROVE  Held(s, h)
<1>1. /\ FileRight(pfile) /\ IsReader(s) /\ At(s) = s.got /\ s.got \in DOMAIN pfile
      /\ HasId(pfile[s.got], StreamFooterId)
  BY DEF Readable, Took, Placed, FooterCells
<1>2. ~pfile[s.got].z
  BY <1>1, SectionCells
<1>3. s.zin = NoZlib /\ s.pos = s.got
  BY <1>1, <1>2 DEF Took, At
<1>4. PICK p : p = ProcessFooter(s, pfile[s.got].body)
  OBVIOUS
<1>5. /\ IsReader(p) /\ p.pos = s.pos /\ p.zin = s.zin /\ p.got = s.got /\ ~p.eof
  BY <1>1, <1>4, ProcessFooterScans DEF Scans
<1>6. p.pool = s.pool /\ p.headers = s.headers /\ p.metadata = s.metadata
  BY <1>1, <1>4 DEF ProcessFooter, IsReader
<1>7. /\ h.pos = s.got + 3 /\ h.pos \in DOMAIN pfile /\ pfile[h.pos].kind = "START_MAGIC"
      /\ h.current_metadata = None /\ h.metadata_change /\ h.zin = NoZlib
      /\ h.headers = p.headers /\ h.metadata = p.metadata /\ h.pool = p.pool
  BY <1>1, <1>3, <1>4, <1>5, AfterFooterIs
<1>8. At(h) = h.pos /\ At(h) \in Starts
  BY <1>7 DEF At, Starts
<1>9. Keyed(h) /\ IsPool(h.pool)
  BY <1>6, <1>7 DEF Ready, Keyed
<1>10. Carries(h, At(h)) /\ Named(h, At(h))
  BY <1>1, <1>7, <1>8, CarriesStart, NamedStart
<1>11. ~IsEvent(pfile[At(h)])
  BY <1>8 DEF Starts, IsEvent, IsUserMessage
<1>12. QED
  BY <1>7, <1>9, <1>10, <1>11 DEF Held, Ready

LEMMA HandleDefinition ==
  ASSUME Readable, NEW s, Took(s), s.got \in DefinitionCells, Ready(s, s.got - 1),
         NEW h, h = ReportProtoClass(s, pfile[s.got].body), h.status = "ok",
         ~cut => Explored(h, At(h))
  PROVE  Held(s, h)
<1>1. FileRight(pfile) /\ IsReader(s) /\ s.got \in DOMAIN pfile
  BY DEF Readable, Took, Placed
<1>2. s.got \notin MetadataCells \cup Starts \cup HeaderCells /\ ~IsEvent(pfile[s.got])
  BY PyIdsDiffer DEF DefinitionCells, Starts, HeaderCells, HasId, MetadataCells, IsMetadata,
                     IsEvent, IsUserMessage, FixedIds
<1>3. /\ h.pos = s.pos /\ h.zin = s.zin /\ h.current_header = s.current_header
      /\ h.current_metadata = s.current_metadata /\ h.metadata_change = s.metadata_change
      /\ h.headers = s.headers /\ h.metadata = s.metadata
  BY <1>1, ReportReads DEF Reads, Scans
<1>4. s.got \in Nat /\ s.got >= 1 /\ s.got - 1 \in Nat /\ s.got - 1 <= s.got
  BY <1>1, CellNumbers
<1>5. Calm(s.got - 1, s.got)
  <2>1. ASSUME NEW k \in MetadataCells \cup Starts \cup HeaderCells, k > s.got - 1
        PROVE  k > s.got
    <3>1. k \in Nat /\ k # s.got
      BY <1>1, <1>2, CellNumbers
    <3>2. QED
      BY <1>4, <2>1, <3>1
  <2>2. QED
    BY <2>1 DEF Calm
<1>6. Carries(h, s.got)
  BY <1>1, <1>3, <1>4, <1>5, CarriesOn DEF Ready
<1>7. Named(h, s.got) /\ IsPool(h.pool)
  BY <1>1, NamedDefinition DEF Ready
<1>8. Keyed(h)
  BY <1>3 DEF Ready, Keyed
<1>9. QED
  BY <1>1, <1>2, <1>3, <1>6, <1>7, <1>8, HeldThere

LEMMA HandleMetadata ==
  ASSUME Readable, NEW s, Took(s), s.got \in MetadataCells, Ready(s, s.got - 1),
         NEW h, h = OnMetadata(s), h.status = "ok", ~cut => Explored(h, At(h))
  PROVE  Held(s, h)
<1>1. /\ FileRight(pfile) /\ IsReader(s) /\ s.got \in DOMAIN pfile /\ Placed(s)
      /\ IsMetadata(pfile[s.got]) /\ IsUserMessage(pfile[s.got])
  BY DEF Readable, Took, Placed, MetadataCells, IsMetadata
<1>2. /\ s.got \in Nat /\ s.got >= 1 /\ s.got - 1 \in Nat /\ s.got - 1 <= s.got
      /\ s.got \notin Starts /\ s.got \notin HeaderCells
  BY <1>1, CellNumbers
<1>3. s.got \notin DefinitionCells /\ s.got \notin FooterCells /\ ~IsEvent(pfile[s.got])
  BY <1>1 DEF DefinitionCells, FooterCells, HasId, IsMetadata, IsEvent, IsUserMessage, FixedIds
<1>4. MetadataKey(s) = Place(pfile, s.got)
  BY <1>1, KeyLeads
<1>5. PICK n : n = Recorded(s)
  OBVIOUS
<1>6. /\ IsReader(n) /\ n.pos = s.pos /\ n.zin = s.zin /\ n.got = s.got
      /\ n.metadata = With(s.metadata, Place(pfile, s.got), s.got) /\ n.headers = s.headers
      /\ n.size = s.size /\ n.footers = s.footers /\ n.all_meta = s.all_meta
      /\ n.pool = s.pool /\ n.status = s.status /\ n.metadata_change
      /\ n.current_metadata = s.current_metadata /\ n.current_header = s.current_header
  BY <1>1, <1>4, <1>5, RecordedIs
<1>7. Keyed(n)
  BY <1>6, EntryKeyed DEF Ready
<1>8. Took(n)
  BY <1>1, <1>6 DEF Took, Placed, At
<1>9. Named(n, s.got) /\ IsPool(n.pool)
  <2>1. \A d \in DefinitionCells : d <= s.got => d <= s.got - 1
    <3>1. \A d \in DefinitionCells : d \in Nat
      BY <1>1, CellNumbers DEF DefinitionCells
    <3>2. QED
      BY <1>2, <1>3, <3>1
  <2>2. SameClasses(s, n)
    BY <1>6, SamePool
  <2>3. QED
    BY <1>1, <1>2, <2>1, <2>2, NamedOn DEF Ready
<1>10. \A hd : Heading(hd, s.got) => s.current_header = hd
  <2>1. \A hd : Heading(hd, s.got) => Heading(hd, s.got - 1)
    BY <1>1, <1>2, HeadingBefore
  <2>2. QED
    BY <2>1 DEF Ready, Carries
<1>11. h = IF RefersForward(s.current_header) THEN Current(n) ELSE FindCurrentMetadata(n)
  BY <1>5, OnMetadataIs DEF RefersForward
<1>12. CASE RefersForward(s.current_header)
  <2>1. h = Current(n)
    BY <1>11, <1>12
  <2>2. /\ h.pos = s.pos /\ h.zin = s.zin /\ h.metadata = n.metadata /\ h.headers = n.headers
        /\ h.pool = n.pool /\ h.metadata_change /\ h.current_metadata = s.got
        /\ h.current_header = s.current_header
    BY <1>6, <2>1, CurrentIs
  <2>3. Keyed(h) /\ IsPool(h.pool)
    BY <1>7, <1>9, <2>2 DEF Keyed
  <2>4. Named(h, s.got)
    BY <1>9, <2>2 DEF Named, Knowing, EventClass
  <2>5. \A hd : /\ Heading(hd, s.got) /\ RefersForward(hd) => h.current_metadata = s.got
                /\ Heading(hd, s.got) /\ ~RefersForward(hd) /\ ~cut =>
                      h.current_metadata = None \/ Coming(h.current_metadata, s.got)
    BY <1>10, <1>12, <2>2
  <2>6. Carries(h, s.got)
    BY <1>1, <2>2, <2>5, CarriesMetadata DEF Ready
  <2>7. QED
    BY <1>1, <1>3, <2>2, <2>3, <2>4, <2>6, HeldThere
<1>13. CASE ~RefersForward(s.current_header)
  <2>1. h = FindCurrentMetadata(n)
    BY <1>11, <1>13
  <2>2. Looks(n, h)
    BY <1>1, <1>6, <2>1, FindLooks
  <2>3. /\ h.pos = s.pos /\ h.zin = s.zin /\ h.metadata_change
        /\ h.current_header = s.current_header
    BY <1>6, <2>2 DEF Looks
  <2>4. Tell(n) \in Nat
    BY <1>8 DEF Took, Placed, Tell
  <2>5. Keyed(h) /\ Named(h, s.got) /\ IsPool(h.pool)
    BY <1>2, <1>6, <1>7, <1>9, <2>1, <2>4, FindNamed
  <2>6. ASSUME NEW hd, Heading(hd, s.got), ~RefersForward(hd), ~cut
        PROVE  h.current_metadata = None \/ Coming(h.current_metadata, s.got)
    <3>1. Explored(s, s.got)
      <4>1. Blanks(s.got - 1, s.got)
        BY <1>2, <1>3 DEF Blanks
      <4>2. QED
        BY <1>1, <1>2, <2>6, <4>1, ExploredOn DEF Ready
    <3>2. Explored(n, n.got)
      BY <1>1, <1>6, <3>1, MetadataMet
    <3>3. QED
      BY <1>1, <1>6, <1>8, <2>1, <2>6, <3>2, FindsNext
  <2>7. \A hd : /\ Heading(hd, s.got) /\ RefersForward(hd) => h.current_metadata = s.got
                /\ Heading(hd, s.got) /\ ~RefersForward(hd) /\ ~cut =>
                      h.current_metadata = None \/ Coming(h.current_metadata, s.got)
    BY <1>10, <1>13, <2>6
  <2>8. Carries(h, s.got)
    BY <1>1, <2>3, <2>7, CarriesMetadata DEF Ready
  <2>9. QED
    BY <1>1, <1>3, <2>3, <2>5, <2>8, HeldThere
<1>14. QED
  BY <1>12, <1>13

LEMMA HandleEvent ==
  ASSUME Readable, NEW s, Took(s), IsEvent(pfile[s.got]), Ready(s, s.got - 1),
         NEW h, h = OnEvent(s), h.status = "ok", ~cut => Explored(h, At(h))
  PROVE  Held(s, h)
<1>1. /\ FileRight(pfile) /\ IsReader(s) /\ s.got \in DOMAIN pfile /\ Placed(s)
      /\ IsUserMessage(pfile[s.got])
  BY DEF Readable, Took, Placed, IsEvent
<1>2. /\ s.got \in Nat /\ s.got >= 1 /\ s.got - 1 \in Nat /\ s.got - 1 <= s.got
  BY <1>1, CellNumbers
<1>3. /\ s.got \notin DefinitionCells /\ s.got \notin FooterCells
      /\ s.got \notin MetadataCells \cup Starts \cup HeaderCells
  BY DEF DefinitionCells, FooterCells, MetadataCells, Starts, HeaderCells, HasId, IsMetadata,
         IsEvent, IsUserMessage, FixedIds
<1>4. Named(s, s.got) /\ IsPool(s.pool)
  <2>1. \A d \in DefinitionCells : d <= s.got => d <= s.got - 1
    <3>1. \A d \in DefinitionCells : d \in Nat
      BY <1>1, CellNumbers DEF DefinitionCells
    <3>2. QED
      BY <1>2, <1>3, <3>1
  <2>2. SameClasses(s, s)
    BY LearnsTwice
  <2>3. QED
    BY <1>1, <1>2, <2>1, <2>2, NamedOn DEF Ready
<1>5. ~cut => Explored(s, s.got)
  <2>1. Blanks(s.got - 1, s.got)
    BY <1>2, <1>3 DEF Blanks
  <2>2. QED
    BY <1>1, <1>2, <2>1, ExploredOn DEF Ready
<1>6. Keyed(s)
  BY DEF Ready
<1>7. h = IF s.current_metadata = None THEN FindCurrentMetadata(s) ELSE s
  BY DEF OnEvent
<1>8. CASE s.current_metadata = None
  <2>1. h = FindCurrentMetadata(s)
    BY <1>7, <1>8
  <2>2. Looks(s, h)
    BY <1>1, <2>1, FindLooks
  <2>3. /\ h.pos = s.pos /\ h.zin = s.zin /\ h.metadata_change = s.metadata_change
        /\ h.current_header = s.current_header
    BY <2>2 DEF Looks
  <2>4. Tell(s) \in Nat
    BY <1>1 DEF Placed, Tell
  <2>5. Keyed(h) /\ Named(h, s.got) /\ IsPool(h.pool)
    BY <1>1, <1>2, <1>4, <1>6, <2>1, <2>4, FindNamed
  <2>6. ASSUME NEW hd, Heading(hd, s.got), ~RefersForward(hd), ~cut
        PROVE  \/ h.current_metadata = None /\ \A j : ~Coming(j, s.got)
               \/ Coming(h.current_metadata, s.got)
    BY <1>1, <1>5, <2>1, <2>6, FindsNext
  <2>7. Carries(h, s.got) /\ MetaRight(h.current_metadata, s.got)
    BY <1>1, <1>8, <2>3, <2>6, CarriesEvent DEF Ready
  <2>8. QED
    BY <1>1, <1>3, <2>3, <2>5, <2>7, HeldThere
<1>9. CASE s.current_metadata # None
  <2>1. h = s
    BY <1>7, <1>9
  <2>2. Carries(h, s.got) /\ MetaRight(h.current_metadata, s.got)
    BY <1>1, <1>9, <2>1, CarriesEvent DEF Ready
  <2>3. QED
    BY <1>1, <1>3, <1>4, <1>6, <2>1, <2>2, HeldThere
<1>10. QED
  BY <1>8, <1>9

LEMMA HandleReady ==
  ASSUME Readable, NEW s, Took(s), ~s.eof, s.status = "ok",
         pfile[s.got].id \notin CompressionIds, Ready(s, s.got - 1),
         NEW h, h = Handle(s), h.status = "ok", ~h.eof
  PROVE  Held(s, h)
<1>1. /\ FileRight(pfile) /\ (~cut => Whole(pfile)) /\ s.got \in DOMAIN pfile
      /\ IsMessage(pfile[s.got])
  BY DEF Readable, Took
<1>2. ~cut => Explored(h, At(h))
  <2>1. ~cut => Told(h)
    BY <1>1, HandleTells DEF Ready
  <2>2. QED
    BY <2>1 DEF Told
<1>3. CASE HasId(pfile[s.got], StreamHeaderId) /\ h = Headered(s)
  BY <1>1, <1>2, <1>3, HandleHeader DEF HeaderCells
<1>4. CASE /\ HasId(pfile[s.got], StreamFooterId)
           /\ h = AfterFooter(ProcessFooter(s, pfile[s.got].body))
  BY <1>1, <1>2, <1>4, HandleFooter DEF FooterCells
<1>5. CASE HasId(pfile[s.got], ProtoClassId) /\ h = ReportProtoClass(s, pfile[s.got].body)
  BY <1>1, <1>2, <1>5, HandleDefinition DEF DefinitionCells
<1>6. CASE IsMetadata(pfile[s.got]) /\ h = OnMetadata(s)
  BY <1>1, <1>2, <1>6, HandleMetadata DEF MetadataCells
<1>7. CASE IsEvent(pfile[s.got]) /\ h = OnEvent(s)
  BY <1>2, <1>7, HandleEvent
<1>8. QED
  BY <1>1, <1>3, <1>4, <1>5, <1>6, <1>7, HandleCases

\* The same of next(), from where it was called.
Advanced(s, r) ==
    /\ Ready(r, At(r))
    /\ IsEvent(pfile[At(r)]) => MetaRight(r.current_metadata, At(r))
    /\ ~r.metadata_change => ~s.metadata_change /\ Calm(At(s), At(r))

LEMMA HandleNextReady ==
  ASSUME Readable, NEW s, Placed(s), s.status = "ok", ~s.eof, Ready(s, At(s)),
         NEW h, h = HandleNext(s), h.status = "ok", ~h.eof
  PROVE  Advanced(s, h)
<1>0. FileRight(pfile)
  BY DEF Readable
<1>1. PICK r : r = ReadMessage(s)
  OBVIOUS
<1>2. IsReader(s) /\ At(s) \in Nat
  BY DEF Placed, At
<1>3. h = IF r.status = "ok" THEN Handle(r) ELSE r
  BY <1>1 DEF HandleNext, Then
<1>4. r.status = "ok" /\ h = Handle(r)
  BY <1>3
<1>5. /\ Reads(s, r) /\ Took(r) /\ r.got > At(s) /\ Passes(At(s), r.got - 1)
      /\ pfile[r.got].id \notin CompressionIds
  BY <1>0, <1>1, <1>2, <1>4, ReadMessageTakes
<1>6. ~r.eof /\ r.metadata_change = s.metadata_change
  BY <1>5 DEF Reads, Scans
<1>7. r.got \in Nat /\ r.got - 1 \in Nat /\ At(s) <= r.got - 1
  <2>1. r.got \in Nat
    BY <1>0, <1>5, CellIs DEF Took
  <2>2. QED
    BY <1>2, <1>5, <2>1
<1>8. SameClasses(s, r)
  BY <1>0, <1>1, <1>2, ReadMessageKeeps
<1>9. Ready(r, r.got - 1) /\ Calm(At(s), r.got - 1)
  BY <1>0, <1>2, <1>5, <1>7, <1>8, ReadyOn
<1>10. Held(r, h)
  BY <1>4, <1>5, <1>6, <1>9, HandleReady
<1>11. ~h.metadata_change => ~s.metadata_change /\ Calm(At(s), At(h))
  BY <1>6, <1>9, <1>10 DEF Held, Calm
<1>12. QED
  BY <1>10, <1>11 DEF Held, Advanced

LEMMA NextMessageReady ==
  ASSUME Readable, NEW s, Placed(s), s.status = "ok", ~s.eof, Ready(s, At(s)),
         NEW r, r = NextMessage(s), r.status = "ok", ~r.eof
  PROVE  Advanced(s, r)
<1>0. FileRight(pfile)
  BY DEF Readable
<1>1. PICK read : /\ read[0] = HandleNext(s)
                  /\ \A n \in 1 .. PyFileEnd : read[n] = HandleOnce(read[n - 1])
                  /\ r = read[PyFileEnd]
  BY <1>0, NextMessageSteps
<1>2. PyFileEnd \in Nat
  BY <1>0 DEF FileRight, PyFileEnd
<1> DEFINE Good(q) == Placed(q) /\ Advanced(s, q)
           right == {n \in 0 .. PyFileEnd :
                        read[n].status = "ok" /\ ~read[n].eof => Good(read[n])}
<1>3. ASSUME NEW p, Placed(p), p.status = "ok", ~p.eof, Ready(p, At(p)),
             NEW q, q = HandleNext(p), q.status = "ok", ~q.eof
      PROVE  Placed(q) /\ Advanced(p, q)
  <2>1. Placed(q)
    BY <1>0, <1>3, HandleNextMoves DEF Progress
  <2>2. QED
    BY <1>3, <2>1, HandleNextReady
<1>4. 0 \in right
  <2>1. PICK q : q = read[0]
    OBVIOUS
  <2>2. q.status = "ok" /\ ~q.eof => Good(q)
    BY <1>1, <1>3, <2>1
  <2>3. QED
    BY <1>2, <2>1, <2>2
<1>5. ASSUME NEW n \in 0 + 1 .. PyFileEnd, n - 1 \in right PROVE n \in right
  <2>1. n \in 1 .. PyFileEnd /\ n \in 0 .. PyFileEnd /\ read[n] = HandleOnce(read[n - 1])
    BY <1>1, <1>2
  <2>2. PICK p : p = read[n - 1]
    OBVIOUS
  <2>3. PICK q : q = read[n]
    OBVIOUS
  <2>4. q = HandleOnce(p) /\ (p.status = "ok" /\ ~p.eof => Good(p))
    BY <1>5, <2>1, <2>2, <2>3
  <2>5. SUFFICES ASSUME q.status = "ok", ~q.eof PROVE Good(q)
    BY <2>1, <2>3
  <2>6. p.status = "ok"
    BY <2>4, <2>5 DEF HandleOnce
  <2>7. ~p.eof
    BY <2>4, <2>5, <2>6 DEF HandleOnce
  <2>8. q = p \/ q = HandleNext(p)
    BY <2>4, <2>6 DEF HandleOnce
  <2>9. CASE q = HandleNext(p)
    <3>1. Placed(p) /\ Advanced(s, p) /\ Ready(p, At(p))
      BY <2>4, <2>6, <2>7 DEF Advanced
    <3>2. Placed(q) /\ Advanced(p, q)
      BY <1>3, <2>5, <2>6, <2>7, <2>9, <3>1
    <3>3. ~q.metadata_change => ~s.metadata_change /\ Calm(At(s), At(q))
      BY <3>1, <3>2 DEF Advanced, Calm
    <3>4. QED
      BY <3>2, <3>3 DEF Advanced
  <2>10. QED
    BY <2>4, <2>6, <2>7, <2>8, <2>9
<1> HIDE DEF right
<1>6. \A n \in 0 .. PyFileEnd : n \in right
  BY <1>2, <1>4, <1>5, NumberByNumber
<1>7. PyFileEnd \in right
  BY <1>2, <1>6
<1>8. QED
  BY <1>1, <1>7 DEF right

\* The event next() hands out: the next one of the file, of the class that it was
\* written as
LEMMA NextEventIs ==
  ASSUME Readable, NEW s, Placed(s), s.status = "ok", ~s.eof, Ready(s, At(s)),
         NEW r, r = NextMessage(s), r.status = "ok", ~r.eof
  PROVE  /\ Placed(r) /\ At(r) = r.got /\ r.got \in DOMAIN pfile /\ IsEvent(pfile[r.got])
         /\ ~Misreads(r.got)
         /\ At(s) \in Nat /\ r.got \in Nat /\ At(s) < r.got
         /\ \A k \in DOMAIN pfile : IsEvent(pfile[k]) /\ k > At(s) => r.got <= k
         /\ Parsed(r) = [at |-> r.got, class |-> pfile[r.got].body.class]
         /\ Ready(r, At(r)) /\ MetaRight(r.current_metadata, r.got)
         /\ ~r.metadata_change => ~s.metadata_change /\ Calm(At(s), At(r))
<1>0. FileRight(pfile)
  BY DEF Readable
<1>1. Advanced(s, r)
  BY NextMessageReady
<1>2. Progress(At(s), r) /\ IsEvent(pfile[r.got])
  BY <1>0, NextMessageMoves
<1>3. /\ Placed(r) /\ r.got \in DOMAIN pfile /\ At(s) < r.got
      /\ At(r) = r.got /\ NoEvents(At(s), r.got - 1) /\ ~Misreads(r.got)
  BY <1>2 DEF Progress
<1>4. At(s) \in Nat /\ r.got \in Nat
  BY <1>0, <1>3, CellNumbers DEF Placed, At
<1>5. ASSUME NEW k \in DOMAIN pfile, IsEvent(pfile[k]), k > At(s) PROVE r.got <= k
  <2>1. k \in Nat
    BY <1>0, CellNumbers
  <2>2. k \notin At(s) + 1 .. r.got - 1
    BY <1>3, <1>5 DEF NoEvents
  <2>3. QED
    BY <1>4, <1>5, <2>1, <2>2
<1>6. EventClass(r) = pfile[r.got].body.class /\ pfile[r.got].id = 0
  BY <1>0, <1>1, <1>2, <1>3, NamedEvent DEF Advanced, Ready
<1>7. Parsed(r) = [at |-> r.got, class |-> pfile[r.got].body.class]
  BY <1>6 DEF Parsed, EventClass
<1>8. QED
  BY <1>1, <1>2, <1>3, <1>4, <1>5, <1>7 DEF Advanced
-----------------------------------------------------------------------------
(* What the client is handed                                                *)

\* The entries of the log are of messages up to m.
Entries(log, m) ==
    \A n \in DOMAIN log :
        /\ log[n] = [at |-> log[n].at, class |-> log[n].class, metadata |-> log[n].metadata]
        /\ log[n].at \in Nat /\ log[n].at <= m /\ ~Misreads(log[n].at)

\* The event the iterator keeps: it was read, and the client is to get it first.
Kept(i) == IF i.group THEN i.first ELSE i.next_first
Awaited(e, s, log) ==
    /\ At(s) \in DOMAIN pfile /\ IsEvent(pfile[At(s)]) /\ ~Misreads(At(s))
    /\ e = [at |-> At(s), class |-> pfile[At(s)].body.class]
    /\ \A n \in DOMAIN log : log[n].at < At(s)

\* The object, the iterator and the log, with the metadata: what is handed out next
\* comes with its own.
LoopReady(s, i, log) ==
    /\ Ready(s, At(s)) /\ Entries(log, At(s))
    /\ i.mode = "new" => \A d \in DefinitionCells : d > At(s)
    /\ i.group => MetaRight(i.meta, At(s))
    /\ ~Refused(s, i) /\ Kept(i) # NoEvent =>
          Awaited(Kept(i), s, log) /\ (i.group \/ MetaRight(s.current_metadata, At(s)))

\* The client is handed the event e, the first of those it has not been handed yet,
\* with the metadata x that is its own.
HandsNext(log, e, x, new) ==
    /\ IsLog(log) /\ Entries(log, e)
    /\ e \in DOMAIN pfile /\ IsEvent(pfile[e]) /\ MetaRight(x, e)
    /\ \A n \in DOMAIN log : log[n].at < e
    /\ \A k \in DOMAIN pfile :
           IsEvent(pfile[k]) /\ (\A n \in DOMAIN log : log[n].at < k) => e <= k
    /\ new = Append(log, [at |-> e, class |-> pfile[e].body.class, metadata |-> x])

LEMMA AppendedIs ==
  ASSUME NEW log, IsLog(log), NEW x, NEW new, new = Append(log, x)
  PROVE  /\ \A n \in DOMAIN new : new[n] = x \/ (n \in DOMAIN log /\ new[n] = log[n])
         /\ Len(log) \in Nat /\ DOMAIN log = 1 .. Len(log) /\ DOMAIN new = 1 .. Len(log) + 1
         /\ new[Len(log) + 1] = x /\ \A n \in DOMAIN log : new[n] = log[n]
<1>1. PICK S : log \in Seq(S)
  BY DEF IsLog
<1>2. Len(log) \in Nat /\ DOMAIN log = 1 .. Len(log)
  BY <1>1
<1>3. \E T : log \in Seq(T) /\ x \in T
  <2> DEFINE T == S \cup {x}
  <2>1. log = [n \in 1 .. Len(log) |-> log[n]] /\ \A n \in 1 .. Len(log) : log[n] \in T
    BY <1>1
  <2>2. x \in T
    OBVIOUS
  <2> HIDE DEF T
  <2>3. log \in [1 .. Len(log) -> T]
    BY <2>1
  <2>4. log \in Seq(T)
    BY <1>2, <2>3, SeqDef
  <2>5. QED
    BY <2>2, <2>4
<1>4. /\ DOMAIN new = 1 .. Len(log) + 1 /\ new[Len(log) + 1] = x
      /\ \A n \in 1 .. Len(log) : new[n] = log[n]
  BY <1>3
<1>5. \A n \in DOMAIN new : n \in 1 .. Len(log) \/ n = Len(log) + 1
  BY <1>2, <1>4
<1>6. QED
  BY <1>2, <1>4, <1>5

LEMMA HandsOn ==
  ASSUME FileRight(pfile), NEW log, IsLog(log), NEW m \in Nat, Entries(log, m),
         NEW e \in DOMAIN pfile, m <= e, IsEvent(pfile[e]), ~Misreads(e), NEW x, MetaRight(x, e),
         \A n \in DOMAIN log : log[n].at < e,
         \A k \in DOMAIN pfile : IsEvent(pfile[k]) /\ k < e => k \in Logged(log),
         NEW new, new = Append(log, [at |-> e, class |-> pfile[e].body.class, metadata |-> x])
  PROVE  HandsNext(log, e, x, new) /\ Entries(new, e)
<1>1. e \in Nat /\ \A k \in DOMAIN pfile : k \in Nat
  BY CellNumbers
<1>2. ASSUME NEW k \in DOMAIN pfile, IsEvent(pfile[k]), \A n \in DOMAIN log : log[n].at < k
      PROVE  e <= k
  <2>1. ASSUME k < e PROVE FALSE
    <3>1. PICK n \in DOMAIN log : k = log[n].at
      BY <1>2, <2>1 DEF Logged
    <3>2. k < k
      BY <1>2, <3>1
    <3>3. QED
      BY <1>1, <3>2
  <2>2. QED
    BY <1>1, <2>1
<1>3. Entries(new, e)
  <2>1. PICK y : y = [at |-> e, class |-> pfile[e].body.class, metadata |-> x]
    OBVIOUS
  <2>2. \A n \in DOMAIN new : new[n] = y \/ (n \in DOMAIN log /\ new[n] = log[n])
    BY <2>1, AppendedIs
  <2>3. y = [at |-> y.at, class |-> y.class, metadata |-> y.metadata] /\ y.at = e
    BY <2>1
  <2>4. \A n \in DOMAIN log : log[n].at \in Nat /\ log[n].at <= e /\ ~Misreads(log[n].at)
    BY <1>1 DEF Entries
  <2>5. e <= e
    BY <1>1
  <2>6. QED
    BY <1>1, <2>2, <2>3, <2>4, <2>5 DEF Entries
<1>4. Entries(log, e)
  BY <1>1 DEF Entries
<1>5. QED
  BY <1>2, <1>3, <1>4 DEF HandsNext

LEMMA HandsFetched ==
  ASSUME Readable, NEW s, Placed(s), s.status = "ok", ~s.eof, Ready(s, At(s)),
         NEW log, IsLog(log), Entries(log, At(s)),
         \A k \in DOMAIN pfile : IsEvent(pfile[k]) /\ k <= At(s) => k \in Logged(log),
         NEW r, r = NextMessage(s), r.status = "ok", ~r.eof,
         NEW x, MetaRight(x, r.got), NEW new, new = Append(log, Handed(Parsed(r), x))
  PROVE  HandsNext(log, r.got, x, new) /\ Entries(new, At(r))
<1>0. FileRight(pfile)
  BY DEF Readable
<1>1. /\ At(r) = r.got /\ r.got \in DOMAIN pfile /\ IsEvent(pfile[r.got]) /\ ~Misreads(r.got)
      /\ At(s) \in Nat /\ r.got \in Nat /\ At(s) < r.got
      /\ \A k \in DOMAIN pfile : IsEvent(pfile[k]) /\ k > At(s) => r.got <= k
      /\ Parsed(r) = [at |-> r.got, class |-> pfile[r.got].body.class]
  BY NextEventIs
<1>2. Handed(Parsed(r), x) = [at |-> r.got, class |-> pfile[r.got].body.class, metadata |-> x]
  BY <1>1 DEF Handed
<1>3. \A n \in DOMAIN log : log[n].at < r.got
  BY <1>1 DEF Entries
<1>4. ASSUME NEW k \in DOMAIN pfile, IsEvent(pfile[k]), k < r.got PROVE k \in Logged(log)
  <2>1. k \in Nat
    BY <1>0, CellNumbers
  <2>2. ~(k > At(s))
    BY <1>1, <1>4, <2>1
  <2>3. QED
    BY <1>1, <1>4, <2>1, <2>2
<1>5. At(s) <= r.got
  BY <1>1
<1>6. QED
  BY <1>0, <1>1, <1>2, <1>3, <1>4, <1>5, HandsOn

LEMMA HandsKept ==
  ASSUME FileRight(pfile), NEW s, Placed(s), NEW log, IsLog(log), Entries(log, At(s)),
         NEW e, Awaited(e, s, log),
         \A k \in DOMAIN pfile :
            IsEvent(pfile[k]) /\ k <= At(s) => k \in Logged(log) \cup {e.at},
         NEW x, MetaRight(x, At(s)), NEW new, new = Append(log, Handed(e, x))
  PROVE  HandsNext(log, At(s), x, new) /\ Entries(new, At(s))
<1>1. /\ At(s) \in DOMAIN pfile /\ IsEvent(pfile[At(s)]) /\ e.at = At(s)
      /\ e = [at |-> At(s), class |-> pfile[At(s)].body.class] /\ ~Misreads(At(s))
      /\ \A n \in DOMAIN log : log[n].at < At(s)
  BY DEF Awaited
<1>2. Handed(e, x) = [at |-> At(s), class |-> pfile[At(s)].body.class, metadata |-> x]
  BY <1>1 DEF Handed
<1>3. At(s) \in Nat /\ At(s) <= At(s)
  BY <1>1, CellNumbers
<1>4. ASSUME NEW k \in DOMAIN pfile, IsEvent(pfile[k]), k < At(s) PROVE k \in Logged(log)
  <2>1. k \in Nat
    BY CellNumbers
  <2>2. k <= At(s) /\ k # At(s)
    BY <1>3, <1>4, <2>1
  <2>3. QED
    BY <1>1, <1>4, <2>2
<1>5. QED
  BY <1>1, <1>2, <1>3, <1>4, HandsOn

ClientReady(s, i, log) == s.status = "ok" /\ ~s.eof => LoopReady(s, i, log)
HandsRight(log, new) == new = log \/ \E e, x : HandsNext(log, e, x, new)

LEMMA OtherCells ==
  ASSUME NEW d \in DefinitionCells
  PROVE  d \notin HeaderCells /\ d \notin Starts
<1>1. HasId(pfile[d], ProtoClassId) /\ ProtoClassId # StreamHeaderId
  BY WireAssumption DEF DefinitionCells, ProtoClassId, StreamHeaderId
<1>2. QED
  BY <1>1 DEF HasId, HeaderCells, Starts

LEMMA ConstructReady ==
  ASSUME FileRight(pfile), pin = NewPyReader(FALSE), iter = NoIter, plog = << >>, Construct
  PROVE  ClientReady(pin', iter', plog') /\ HandsRight(plog, plog')
<1>1. PICK split \in Splits :
         LET h == ReadHeader(NewPyReader(split)) IN
         pin' = IF h.status # "ok" THEN h
                ELSE [h EXCEPT !.current_header = h.got, !.metadata_change = TRUE]
  BY DEF Construct
<1>2. PICK s : s = NewPyReader(split)
  OBVIOUS
<1>3. PICK h : h = ReadHeader(s)
  OBVIOUS
<1>4. /\ iter' = [mode |-> "new", left |-> FALSE, next_first |-> NoEvent, first |-> NoEvent,
                  meta |-> None, group |-> FALSE]
      /\ plog' = << >>
  BY DEF Construct, NoIter
<1>5. /\ IsReader(s) /\ s.pos = 0 /\ s.zin = NoZlib /\ s.status = "ok" /\ ~s.eof
      /\ DOMAIN s.headers = {} /\ DOMAIN s.metadata = {} /\ s.current_metadata = None
      /\ s.pool = NewPool
  BY <1>2 DEF NewPyReader, IsReader
<1>6. Placed(s)
  BY <1>5 DEF Placed, NoZlib
<1>7. Sized(s, h) /\ IsReader(h) /\ SameClasses(s, h)
  BY <1>3, <1>5, ReadHeaderTakes, ReadHeaderKeeps, ReadsAre
<1>8. ASSUME pin'.status = "ok", ~pin'.eof PROVE LoopReady(pin', iter', plog')
  <2>1. h.status = "ok" /\ pin' = [h EXCEPT !.current_header = h.got, !.metadata_change = TRUE]
    BY <1>1, <1>2, <1>3, <1>8
  <2>2. s.pos + 1 = 1 /\ s.pos + 2 = 2
    BY <1>5
  <2>3. /\ Took(h) /\ h.got = 2 /\ HasId(pfile[h.got], StreamHeaderId)
        /\ pfile[1].kind = "START_MAGIC" /\ h.headers = With(s.headers, 1, 2)
        /\ h.metadata = s.metadata
    BY <1>3, <1>5, <1>6, <2>1, <2>2, ReadHeaderTakes
  <2>4. /\ pin'.pos = h.pos /\ pin'.zin = h.zin /\ pin'.headers = h.headers
        /\ pin'.metadata = h.metadata /\ pin'.pool = h.pool /\ pin'.metadata_change
        /\ pin'.current_header = 2 /\ pin'.current_metadata = h.current_metadata
    BY <1>7, <2>1, <2>3 DEF IsReader
  <2>5. At(pin') = 2
    BY <2>3, <2>4 DEF Took, At
  <2>6. 2 \in HeaderCells /\ 2 - 1 = 1 /\ 1 \in Starts
    <3>1. 2 \in HeaderCells
      BY <2>3 DEF HeaderCells, Took
    <3>2. QED
      BY <3>1, HeaderBehindStart
  <2>7. Keyed(pin')
    <3>1. Keyed(s)
      BY <1>5 DEF Keyed
    <3>2. QED
      BY <2>3, <2>4, <2>6, <3>1, HeaderKeyed
  <2>8. IsPool(pin'.pool)
    <3>1. IsPool(s.pool)
      BY <1>5 DEF IsPool, NewPool
    <3>2. QED
      BY <1>7, <2>4, <3>1 DEF SameClasses
  <2>9. Carries(pin', 2)
    <3>1. Carries(s, 2 - 1)
      BY <1>5, <2>6, CarriesStart
    <3>2. pin'.current_metadata = s.current_metadata
      BY <1>7, <2>4 DEF Sized, Scans
    <3>3. QED
      BY <2>4, <2>6, <3>1, <3>2, CarriesHeader
  <2>10. \A d \in DefinitionCells : d > 2
    <3>1. ASSUME NEW d \in DefinitionCells, ~(d > 2) PROVE FALSE
      <4>1. d \in DOMAIN pfile /\ HasId(pfile[d], ProtoClassId)
        BY DEF DefinitionCells
      <4>2. d \in Nat /\ d >= 1
        BY <4>1, CellNumbers
      <4>3. d = 1 \/ d = 2
        BY <3>1, <4>2
      <4>4. d \notin HeaderCells /\ d \notin Starts
        BY <3>1, OtherCells
      <4>5. QED
        BY <2>6, <4>3, <4>4
    <3>2. QED
      BY <3>1
  <2>11. Named(pin', 2)
    <3>1. ASSUME NEW d, NEW k, Defined(d, k), d <= 2 PROVE FALSE
      <4>1. d \in DefinitionCells /\ d \in Nat
        BY <3>1, DefinedIs
      <4>2. d > 2
        BY <2>10, <4>1
      <4>3. QED
        BY <3>1, <4>1, <4>2
    <3>2. QED
      BY <3>1 DEF Named
  <2>12. ~cut => Explored(pin', 2)
    <3>1. Told(pin')
      BY <1>8, ConstructTells
    <3>2. QED
      BY <1>8, <2>5, <3>1 DEF Told
  <2>13. Ready(pin', At(pin'))
    BY <2>4, <2>5, <2>7, <2>8, <2>9, <2>11, <2>12 DEF Ready
  <2>14. Entries(plog', At(pin'))
    BY <1>4 DEF Entries
  <2>15. ~iter'.group /\ Kept(iter') = NoEvent
    BY <1>4 DEF Kept
  <2>16. QED
    BY <2>5, <2>10, <2>13, <2>14, <2>15 DEF LoopReady
<1>9. HandsRight(plog, plog')
  BY <1>4 DEF HandsRight
<1>10. QED
  BY <1>8, <1>9 DEF ClientReady

LEMMA NextEventReady ==
  ASSUME Readable, ClientRight(pin, iter, plog), ClientReady(pin, iter, plog), NextEvent
  PROVE  ClientReady(pin', iter', plog') /\ HandsRight(plog, plog')
<1>1. PICK r : r = NextMessage(pin)
  OBVIOUS
<1>2. /\ pin.status = "ok" /\ ~pin.eof /\ iter.mode = "events" /\ iter' = iter /\ pin' = r
      /\ plog' = IF r.status = "ok" /\ ~r.eof
                 THEN Append(plog, Handed(Parsed(r), r.current_metadata)) ELSE plog
  BY <1>1 DEF NextEvent, Running
<1>3. /\ IterRight(iter) /\ IsLog(plog) /\ LoopRight(pin, iter, plog)
      /\ LoopReady(pin, iter, plog)
  BY <1>2 DEF ClientRight, ClientReady
<1>4. ~iter.group /\ iter.next_first = NoEvent /\ Placed(pin)
  BY <1>2, <1>3 DEF IterRight, LoopRight
<1>5. \A k \in DOMAIN pfile : IsEvent(pfile[k]) /\ k <= At(pin) => k \in Logged(plog)
  BY <1>2, <1>3, <1>4 DEF LoopRight, Refused, HandsOut, Pending
<1>6. CASE r.status = "ok" /\ ~r.eof
  <2>1. /\ At(r) = r.got /\ Ready(r, At(r)) /\ MetaRight(r.current_metadata, r.got)
    BY <1>1, <1>2, <1>3, <1>4, <1>6, NextEventIs DEF LoopReady
  <2>2. HandsNext(plog, r.got, r.current_metadata, plog') /\ Entries(plog', At(r))
    <3>1. plog' = Append(plog, Handed(Parsed(r), r.current_metadata))
      BY <1>2, <1>6
    <3>2. Ready(pin, At(pin)) /\ Entries(plog, At(pin))
      BY <1>3 DEF LoopReady
    <3>3. QED
      BY <1>1, <1>2, <1>3, <1>4, <1>5, <1>6, <2>1, <3>1, <3>2, HandsFetched
  <2>3. Kept(iter) = NoEvent
    BY <1>4 DEF Kept
  <2>4. LoopReady(pin', iter', plog')
    BY <1>2, <1>4, <2>1, <2>2, <2>3 DEF LoopReady
  <2>5. QED
    BY <2>2, <2>4 DEF ClientReady, HandsRight
<1>7. CASE ~(r.status = "ok" /\ ~r.eof)
  BY <1>2, <1>7 DEF ClientReady, HandsRight
<1>8. QED
  BY <1>6, <1>7

LEMMA BeginLoopReady ==
  ASSUME ClientRight(pin, iter, plog), ClientReady(pin, iter, plog), BeginLoop
  PROVE  ClientReady(pin', iter', plog') /\ HandsRight(plog, plog')
<1>1. /\ pin.status = "ok" /\ ~pin.eof /\ plog' = plog /\ pin' = pin /\ iter.mode = "new"
      /\ IterRight(iter) /\ LoopReady(pin, iter, plog)
  BY DEF BeginLoop, Running, ClientRight, ClientReady
<1>2. PICK mode \in {"events", "groups"} : iter' = [iter EXCEPT !.mode = mode]
  BY DEF BeginLoop
<1>3. IsIter(iter) /\ ~iter.group /\ iter.next_first = NoEvent
  BY <1>1 DEF IterRight
<1>4. iter'.mode = mode /\ ~iter'.group /\ iter'.next_first = NoEvent
  BY <1>2, <1>3 DEF IsIter
<1>5. Kept(iter') = NoEvent /\ iter'.mode # "new"
  BY <1>4 DEF Kept
<1>6. LoopReady(pin, iter', plog)
  BY <1>1, <1>4, <1>5 DEF LoopReady
<1>7. QED
  BY <1>1, <1>6 DEF ClientReady, HandsRight

LEMMA LeaveGroupReady ==
  ASSUME ClientRight(pin, iter, plog), ClientReady(pin, iter, plog), LeaveGroup
  PROVE  ClientReady(pin', iter', plog') /\ HandsRight(plog, plog')
<1>1. /\ pin.status = "ok" /\ ~pin.eof /\ plog' = plog /\ pin' = pin /\ iter.group
      /\ IterRight(iter) /\ LoopRight(pin, iter, plog) /\ LoopReady(pin, iter, plog)
      /\ iter' = [iter EXCEPT !.group = FALSE, !.left = TRUE] /\ IsIter(iter)
      /\ iter.mode = "groups"
  BY DEF LeaveGroup, Running, ClientRight, IterRight, ClientReady
<1>2. iter'.mode = "groups" /\ ~iter'.group
  BY <1>1 DEF IsIter
<1>3. Refused(pin, iter')
  BY <1>1, <1>2 DEF LoopRight, Refused
<1>4. LoopReady(pin, iter', plog)
  BY <1>1, <1>2, <1>3 DEF LoopReady
<1>5. QED
  BY <1>1, <1>4 DEF ClientReady, HandsRight

LEMMA CarriesSame ==
  ASSUME NEW s, NEW r, NEW m, Carries(s, m), r.current_header = s.current_header,
         r.current_metadata = s.current_metadata
  PROVE  Carries(r, m)
BY DEF Carries

LEMMA InfoReady ==
  ASSUME Readable, ClientRight(pin, iter, plog), ClientReady(pin, iter, plog), Info,
         Clash => iter.mode = "new"
  PROVE  ClientReady(pin', iter', plog') /\ HandsRight(plog, plog')
<1>0. FileRight(pfile) /\ (~cut => Whole(pfile))
  BY DEF Readable
<1>1. /\ pin.status = "ok" /\ ~pin.eof /\ iter' = iter /\ plog' = plog
      /\ LoopRight(pin, iter, plog) /\ Placed(pin) /\ IsReader(pin)
      /\ LoopReady(pin, iter, plog)
  BY DEF Info, Running, ClientRight, LoopRight, Placed, ClientReady
<1>2. PICK r : r = ReadAllMetaInfo(pin)
  OBVIOUS
<1>3. pin' = IF r.status = "ok" /\ DOMAIN r.headers = {} THEN Fail(r, "IndexError") ELSE r
  BY <1>2 DEF Info
<1>4. /\ Scans(pin, r) /\ IsReader(r)
      /\ r.status = "ok" => r.pos = pin.pos /\ r.zin = pin.zin
  BY <1>0, <1>1, <1>2, ReadAllScans, ReadsAre
<1>5. ASSUME pin'.status = "ok" PROVE LoopReady(pin', iter', plog')
  <2>1. pin' = r /\ r.status = "ok"
    BY <1>3, <1>4, <1>5, FailReads
  <2>2. At(r) = At(pin)
    BY <1>4, <2>1 DEF At
  <2>3. /\ r.current_header = pin.current_header /\ r.current_metadata = pin.current_metadata
        /\ r.metadata_change = pin.metadata_change
    BY <1>4 DEF Scans
  <2>4. /\ Ready(pin, At(pin)) /\ Keyed(pin) /\ IsPool(pin.pool) /\ Carries(pin, At(pin))
        /\ Named(pin, At(pin)) /\ (~cut => Explored(pin, At(pin)))
        /\ At(pin) \in Starts => pin.metadata_change
    BY <1>1 DEF LoopReady, Ready
  <2>5. Keyed(r) /\ Learns(pin, r) /\ IsPool(r.pool)
    <3>1. Keyed(r) /\ Learns(pin, r)
      BY <1>0, <1>1, <1>2, <2>1, <2>4, ReadAllLearns
    <3>2. QED
      BY <2>4, <3>1 DEF Learns
  <2>6. Named(r, At(r))
    <3>1. CASE iter.mode = "new"
      <4>1. \A d \in DefinitionCells : d > At(pin)
        BY <1>1, <3>1 DEF LoopReady
      <4>2. ASSUME NEW d, NEW k, Defined(d, k), d <= At(pin) PROVE FALSE
        <5>1. d \in DefinitionCells /\ d \in Nat
          BY <1>0, <4>2, DefinedIs
        <5>2. d > At(pin) /\ At(pin) \in Nat
          BY <1>1, <4>1, <5>1 DEF Placed, At
        <5>3. QED
          BY <4>2, <5>1, <5>2
      <4>3. QED
        BY <2>2, <4>2 DEF Named
    <3>2. CASE ~Clash
      <4>1. EventsAlike
        BY <1>0, <3>2, NoClash
      <4>2. QED
        BY <2>2, <2>4, <2>5, <4>1, NamedLearns
    <3>3. QED
      BY <3>1, <3>2
  <2>7. ~cut => Explored(r, At(r))
    BY <1>0, <1>1, <1>2, <2>1, <2>4, ReadAllFinds DEF Explored
  <2>8. Carries(r, At(r))
    BY <2>2, <2>3, <2>4, CarriesSame
  <2>9. Ready(r, At(r))
    BY <2>2, <2>3, <2>4, <2>5, <2>6, <2>7, <2>8 DEF Ready
  <2>10. QED
    BY <1>1, <2>1, <2>2, <2>3, <2>9 DEF LoopReady, Refused, Awaited
<1>6. QED
  BY <1>1, <1>5 DEF ClientReady, HandsRight

\* The first event of a group is known: it is the one that was read last.
LEMMA GroupReady ==
  ASSUME FileRight(pfile), NEW r, Placed(r), Ready(r, At(r)), NEW log, Entries(log, At(r)),
         NEW first, Awaited(first, r, log), MetaRight(r.current_metadata, At(r)),
         NEW s, s = [r EXCEPT !.metadata_change = FALSE],
         NEW i, i.mode = "groups", i.group, i.first = first, i.meta = r.current_metadata
  PROVE  LoopReady(s, i, log)
<1>1. /\ s.pos = r.pos /\ s.zin = r.zin /\ s.current_header = r.current_header
      /\ s.current_metadata = r.current_metadata /\ s.headers = r.headers
      /\ s.metadata = r.metadata /\ s.pool = r.pool /\ s.size = r.size
      /\ s.footers = r.footers /\ s.all_meta = r.all_meta
  BY DEF Placed, IsReader
<1>2. At(s) = At(r)
  BY <1>1 DEF At
<1>3. At(r) \in DOMAIN pfile /\ IsEvent(pfile[At(r)])
  BY DEF Awaited
<1>4. At(r) \notin Starts
  BY <1>3 DEF Starts, IsEvent, IsUserMessage
<1>5. Keyed(s) /\ IsPool(s.pool) /\ Carries(s, At(r)) /\ Named(s, At(r))
  <2>1. Keyed(r) /\ IsPool(r.pool) /\ Carries(r, At(r)) /\ Named(r, At(r))
    BY DEF Ready
  <2>2. Carries(s, At(r))
    BY <1>1, <2>1, CarriesSame
  <2>3. Keyed(s)
    BY <1>1, <2>1 DEF Keyed
  <2>4. Named(s, At(r))
    BY <1>1, <2>1 DEF Named, Knowing, EventClass
  <2>5. QED
    BY <1>1, <2>1, <2>2, <2>3, <2>4
<1>6. ~cut => Explored(s, At(r))
  <2>1. Booked(r, s) /\ s.metadata = r.metadata
    BY <1>1 DEF Booked
  <2>2. QED
    BY <2>1, ExploredSame DEF Ready
<1>7. Ready(s, At(s))
  BY <1>2, <1>4, <1>5, <1>6 DEF Ready
<1>8. Kept(i) = first /\ Awaited(first, s, log)
  BY <1>2 DEF Kept, Awaited
<1>9. QED
  BY <1>2, <1>7, <1>8 DEF LoopReady

\* What next() returned, not handed out
LEMMA FetchedAwaited ==
  ASSUME Readable, NEW s, Placed(s), s.status = "ok", ~s.eof, Ready(s, At(s)),
         NEW log, Entries(log, At(s)),
         NEW r, r = NextMessage(s), r.status = "ok", ~r.eof
  PROVE  /\ Placed(r) /\ Ready(r, At(r)) /\ Entries(log, At(r)) /\ Awaited(Parsed(r), r, log)
         /\ MetaRight(r.current_metadata, At(r)) /\ Parsed(r) # NoEvent
<1>1. /\ Placed(r) /\ At(r) = r.got /\ r.got \in DOMAIN pfile /\ IsEvent(pfile[r.got])
      /\ ~Misreads(r.got) /\ At(s) \in Nat /\ r.got \in Nat /\ At(s) < r.got
      /\ Parsed(r) = [at |-> r.got, class |-> pfile[r.got].body.class]
      /\ Ready(r, At(r)) /\ MetaRight(r.current_metadata, r.got)
  BY NextEventIs
<1>2. \A n \in DOMAIN log : log[n].at < r.got /\ log[n].at <= r.got
  BY <1>1 DEF Entries
<1>3. r.got # None
  BY <1>1, CellNumbers DEF None, Readable
<1>4. QED
  BY <1>1, <1>2, <1>3, ParsedIs DEF Entries, Awaited

LEMMA NextGroupReady ==
  ASSUME Readable, ClientRight(pin, iter, plog), ClientReady(pin, iter, plog), NextGroup
  PROVE  ClientReady(pin', iter', plog') /\ HandsRight(plog, plog')
<1>0. FileRight(pfile)
  BY DEF Readable
<1>1. /\ pin.status = "ok" /\ ~pin.eof /\ iter.mode = "groups" /\ ~iter.group /\ plog' = plog
      /\ IterRight(iter) /\ LoopRight(pin, iter, plog) /\ IsIter(iter)
      /\ Placed(pin) /\ IsReader(pin) /\ LoopReady(pin, iter, plog)
  BY DEF NextGroup, Running, ClientRight, IterRight, LoopRight, Placed, ClientReady
<1>2. HandsRight(plog, plog')
  BY <1>1 DEF HandsRight
<1>3. CASE ~pin.metadata_change
  <2>1. pin' = Fail(pin, "AssertionError")
    BY <1>3 DEF NextGroup
  <2>2. pin'.status = "AssertionError"
    BY <1>1, <2>1, FailReads
  <2>3. QED
    BY <1>2, <2>2 DEF ClientReady
<1>4. CASE pin.metadata_change
  <2>1. PICK r, first :
           /\ r = IF iter.next_first = NoEvent THEN NextMessage(pin) ELSE pin
           /\ first = IF iter.next_first = NoEvent THEN Parsed(r) ELSE iter.next_first
    OBVIOUS
  <2>2. IF r.status # "ok" \/ r.eof THEN pin' = r /\ iter' = iter
        ELSE /\ pin' = [r EXCEPT !.metadata_change = FALSE]
             /\ iter' = [iter EXCEPT !.next_first = first, !.first = first,
                                     !.meta = r.current_metadata, !.group = TRUE]
    BY <1>4, <2>1 DEF NextGroup
  <2>3. CASE r.status # "ok" \/ r.eof
    BY <1>2, <2>2, <2>3 DEF ClientReady
  <2>4. CASE r.status = "ok" /\ ~r.eof
    <3>1. /\ Placed(r) /\ Ready(r, At(r)) /\ Entries(plog, At(r)) /\ Awaited(first, r, plog)
          /\ MetaRight(r.current_metadata, At(r))
      <4>1. CASE iter.next_first = NoEvent
        <5>1. r = NextMessage(pin) /\ first = Parsed(r)
          BY <2>1, <4>1
        <5>2. Ready(pin, At(pin)) /\ Entries(plog, At(pin))
          BY <1>1 DEF LoopReady
        <5>3. QED
          BY <1>1, <2>4, <5>1, <5>2, FetchedAwaited
      <4>2. CASE iter.next_first # NoEvent
        <5>1. r = pin /\ first = iter.next_first /\ Kept(iter) = first
          BY <1>1, <2>1, <4>2 DEF Kept
        <5>2. ~Refused(pin, iter)
          BY <1>4 DEF Refused
        <5>3. QED
          BY <1>1, <4>2, <5>1, <5>2 DEF LoopReady
      <4>3. QED
        BY <4>1, <4>2
    <3>2. iter'.mode = "groups" /\ iter'.group /\ iter'.first = first
          /\ iter'.meta = r.current_metadata
      <4>1. iter' = [iter EXCEPT !.next_first = first, !.first = first,
                                 !.meta = r.current_metadata, !.group = TRUE]
        BY <2>2, <2>4
      <4>2. QED
        BY <1>1, <4>1 DEF IsIter
    <3>3. pin' = [r EXCEPT !.metadata_change = FALSE]
      BY <2>2, <2>4
    <3>4. LoopReady(pin', iter', plog)
      BY <1>0, <3>1, <3>2, <3>3, GroupReady
    <3>5. QED
      BY <1>1, <1>2, <3>4 DEF ClientReady
  <2>5. QED
    BY <2>3, <2>4
<1>5. QED
  BY <1>3, <1>4

LEMMA NextInGroupReady ==
  ASSUME Readable, ClientRight(pin, iter, plog), ClientReady(pin, iter, plog), NextInGroup
  PROVE  ClientReady(pin', iter', plog') /\ HandsRight(plog, plog')
<1>0. FileRight(pfile)
  BY DEF Readable
<1>1. /\ pin.status = "ok" /\ ~pin.eof /\ iter.mode = "groups" /\ iter.group
      /\ IterRight(iter) /\ IsLog(plog) /\ LoopRight(pin, iter, plog) /\ IsIter(iter)
      /\ Placed(pin) /\ ~pin.metadata_change /\ LoopReady(pin, iter, plog)
  BY DEF NextInGroup, Running, ClientRight, IterRight, LoopRight, ClientReady
<1>2. \A k \in DOMAIN pfile : IsEvent(pfile[k]) /\ k <= At(pin) =>
         k \in Logged(plog) \cup Pending(iter)
  BY <1>1 DEF LoopRight, Refused, HandsOut
<1>3. /\ Ready(pin, At(pin)) /\ Entries(plog, At(pin)) /\ MetaRight(iter.meta, At(pin))
      /\ iter.first # NoEvent => Awaited(iter.first, pin, plog)
  BY <1>1 DEF LoopReady, Kept, Refused
<1>4. CASE iter.first # NoEvent
  <2>1. /\ plog' = Append(plog, Handed(iter.first, iter.meta))
        /\ iter' = [iter EXCEPT !.first = NoEvent] /\ pin' = pin
    BY <1>4 DEF NextInGroup
  <2>2. Pending(iter) = {iter.first.at}
    BY <1>1, <1>4 DEF Pending
  <2>3. HandsNext(plog, At(pin), iter.meta, plog') /\ Entries(plog', At(pin))
    BY <1>0, <1>1, <1>2, <1>3, <1>4, <2>1, <2>2, HandsKept
  <2>4. iter'.mode = "groups" /\ iter'.group /\ iter'.first = NoEvent /\ iter'.meta = iter.meta
    BY <1>1, <2>1 DEF IsIter
  <2>5. Kept(iter') = NoEvent
    BY <2>4 DEF Kept
  <2>6. LoopReady(pin', iter', plog')
    BY <1>3, <2>1, <2>3, <2>4, <2>5 DEF LoopReady
  <2>7. QED
    BY <2>3, <2>6 DEF ClientReady, HandsRight
<1>5. CASE iter.first = NoEvent
  <2>1. PICK r : r = NextMessage(pin)
    OBVIOUS
  <2>2. /\ pin' = r
        /\ IF r.status # "ok" \/ r.eof
           THEN iter' = [iter EXCEPT !.group = FALSE] /\ UNCHANGED plog
           ELSE IF r.metadata_change
           THEN /\ iter' = [iter EXCEPT !.group = FALSE, !.next_first = Parsed(r)]
                /\ UNCHANGED plog
           ELSE plog' = Append(plog, Handed(Parsed(r), iter.meta)) /\ UNCHANGED iter
    BY <1>5, <2>1 DEF NextInGroup
  <2>3. \A k \in DOMAIN pfile : IsEvent(pfile[k]) /\ k <= At(pin) => k \in Logged(plog)
    BY <1>1, <1>2, <1>5 DEF Pending
  <2>4. CASE r.status # "ok" \/ r.eof
    BY <2>2, <2>4 DEF ClientReady, HandsRight
  <2>5. CASE r.status = "ok" /\ ~r.eof /\ r.metadata_change
    <3>1. iter' = [iter EXCEPT !.group = FALSE, !.next_first = Parsed(r)] /\ plog' = plog
      BY <2>2, <2>5
    <3>2. iter'.mode = "groups" /\ ~iter'.group /\ iter'.next_first = Parsed(r)
      BY <1>1, <3>1 DEF IsIter
    <3>3. /\ Ready(r, At(r)) /\ Entries(plog, At(r)) /\ Awaited(Parsed(r), r, plog)
          /\ MetaRight(r.current_metadata, At(r))
      BY <1>1, <1>3, <2>1, <2>5, FetchedAwaited
    <3>4. Kept(iter') = Parsed(r)
      BY <3>2 DEF Kept
    <3>5. LoopReady(pin', iter', plog')
      BY <2>2, <3>1, <3>2, <3>3, <3>4 DEF LoopReady
    <3>6. QED
      BY <3>1, <3>5 DEF ClientReady, HandsRight
  <2>6. CASE r.status = "ok" /\ ~r.eof /\ ~r.metadata_change
    <3>1. plog' = Append(plog, Handed(Parsed(r), iter.meta)) /\ iter' = iter
      BY <2>2, <2>6
    <3>2. /\ At(r) = r.got /\ Ready(r, At(r)) /\ At(pin) \in Nat /\ r.got \in Nat
          /\ At(pin) < r.got /\ Calm(At(pin), At(r))
      BY <1>1, <1>3, <2>1, <2>6, NextEventIs
    <3>3. MetaRight(iter.meta, r.got)
      <4>1. At(pin) <= r.got
        BY <3>2
      <4>2. QED
        BY <1>0, <1>3, <3>2, <4>1, MetaOn
    <3>4. HandsNext(plog, r.got, iter.meta, plog') /\ Entries(plog', At(r))
      BY <1>1, <1>3, <2>1, <2>3, <2>6, <3>1, <3>3, HandsFetched
    <3>5. Kept(iter) = NoEvent
      BY <1>1, <1>5 DEF Kept
    <3>6. LoopReady(pin', iter', plog')
      BY <1>1, <2>2, <3>1, <3>2, <3>3, <3>4, <3>5 DEF LoopReady
    <3>7. QED
      BY <3>4, <3>6 DEF ClientReady, HandsRight
  <2>7. QED
    BY <2>4, <2>5, <2>6
<1>6. QED
  BY <1>4, <1>5

\* What is known of the metadata and the classes, of the object, the iterator and the log
ReadyRight == phase = "read" /\ iter.mode # "none" => ClientReady(pin, iter, plog)

LEMMA ReadyStays ==
  ASSUME pfile' = pfile, cut' = cut, ClientReady(pin', iter', plog')
  PROVE  ClientReady(pin, iter, plog)'
BY DEF ClientReady, LoopReady, Ready, Entries, Kept, Awaited, Refused, Keyed, IsPool, Carries,
       Named, Knowing, EventClass, Explored, Met, Discovered, MetaRight, Heading, Latest, Coming,
       RefersForward, Defined, DefinitionCells, At, HeaderCells, FooterCells, MetadataCells,
       Starts, FootersTo, Place, PyFileEnd, Misreads, IsCutShort

LEMMA ReadyReads ==
  ASSUME WrittenRight, ReaderRight, ReadyRight, phase = "read", Readable,
         \/ iter.mode = "none" /\ Construct
         \/ BeginLoop \/ NextEvent \/ NextGroup \/ NextInGroup
         \/ (Clash => iter.mode = "new") /\ Info
         \/ LeaveGroup
  PROVE  ClientReady(pin', iter', plog') /\ HandsRight(plog, plog')
<1>1. FileRight(pfile)
  BY DEF Readable
<1>2. CASE iter.mode = "none" /\ Construct
  <2>1. pin = NewPyReader(FALSE) /\ iter = NoIter /\ plog = << >>
    BY <1>2 DEF ReaderRight
  <2>2. QED
    BY <1>1, <1>2, <2>1, ConstructReady
<1>3. CASE \/ BeginLoop \/ NextEvent \/ NextGroup \/ NextInGroup
           \/ (Clash => iter.mode = "new") /\ Info
           \/ LeaveGroup
  <2>1. iter.mode # "none"
    <3>1. CASE LeaveGroup
      <4>1. iter.group
        BY <3>1 DEF LeaveGroup
      <4>2. ASSUME iter.mode = "none" PROVE FALSE
        <5>1. iter = NoIter
          BY <4>2 DEF ReaderRight
        <5>2. ~NoIter.group
          BY DEF NoIter
        <5>3. QED
          BY <4>1, <5>1, <5>2
      <4>3. QED
        BY <4>2
    <3>2. CASE ~LeaveGroup
      BY <1>3, <3>2 DEF BeginLoop, NextEvent, NextGroup, NextInGroup, Info
    <3>3. QED
      BY <3>1, <3>2
  <2>2. ClientRight(pin, iter, plog) /\ ClientReady(pin, iter, plog)
    BY <2>1 DEF ReaderRight, ReadyRight
  <2>3. QED
    BY <1>3, <2>2, BeginLoopReady, NextEventReady, NextGroupReady, NextInGroupReady, InfoReady,
       LeaveGroupReady
<1>4. QED
  BY <1>2, <1>3

\* The same of a step of the specification
LEMMA ReadyStep ==
  ASSUME WrittenRight, ReaderRight, ReadyRight, ~LateScan, ~ScanUncompressed, Next
  PROVE  \/ /\ phase = "write" /\ iter' = iter /\ pin' = pin /\ plog' = << >> /\ plog = << >>
            /\ iter'.mode = "none"
         \/ /\ phase = "read" /\ phase' = phase /\ pfile' = pfile /\ cut' = cut
            /\ FileRight(pfile) /\ ClientReady(pin', iter', plog') /\ HandsRight(plog, plog')
<1>1. CASE WriterStep \/ AppendStream \/ Crash
  <2>1. phase = "write" /\ iter' = iter /\ pin' = pin /\ plog' = plog
    BY <1>1 DEF WriterStep, AppendStream, Crash, reader
  <2>2. iter'.mode = "none" /\ plog = << >>
    BY <2>1 DEF ReaderRight, NoIter
  <2>3. QED
    BY <2>1, <2>2
<1>2. CASE \/ Read(iter.mode = "none" /\ Construct)
           \/ ReadOn
           \/ Read(ScanAllowed /\ (Clash /\ ~LateScan => iter.mode = "new") /\ Info)
           \/ Read(LeaveGroup)
  <2>1. phase = "read" /\ phase' = phase /\ cut' = cut /\ ReadingAllowed
    BY <1>2 DEF Read, ReadOn
  <2>2. \/ iter.mode = "none" /\ Construct
        \/ BeginLoop \/ NextEvent \/ NextGroup \/ NextInGroup
        \/ (Clash => iter.mode = "new") /\ Info
        \/ LeaveGroup
    BY <1>2 DEF Read, ReadOn
  <2>3. FileRight(pfile) /\ (~cut => Whole(pfile))
    BY DEF WrittenRight
  <2>4. Readable
    BY <2>1, <2>3, IsReadable
  <2>5. ClientReady(pin', iter', plog') /\ HandsRight(plog, plog')
    BY <2>1, <2>2, <2>4, ReadyReads
  <2>6. pfile' = pfile
    BY <2>1, <2>2, ReaderReads
  <2>7. QED
    BY <2>1, <2>3, <2>5, <2>6
<1>3. QED
  BY <1>1, <1>2 DEF Next

LEMMA ReadyNext ==
  ASSUME WrittenRight, ReaderRight, ReadyRight, ~LateScan, ~ScanUncompressed, [Next]_vars
  PROVE  ReadyRight'
<1>1. CASE UNCHANGED vars
  <2>1. /\ pfile' = pfile /\ cut' = cut /\ pin' = pin /\ iter' = iter /\ plog' = plog
        /\ phase' = phase
    BY <1>1 DEF vars
  <2>2. ClientReady(pin, iter, plog) => ClientReady(pin', iter', plog')
    BY <2>1
  <2>3. QED
    BY <2>1, <2>2, ReadyStays DEF ReadyRight
<1>2. CASE Next
  BY <1>2, ReadyStep, ReadyStays DEF ReadyRight
<1>3. QED
  BY <1>1, <1>2

\* class InputStream of stream.py: as long as next() raises nothing, the object knows the
\* header of the stream it is in, the metadata of the next event and the class the
\* ProtoClass messages gave to events, and so does itermetadata() for the group it is in.
THEOREM ReadyAlways ==
  ASSUME ~SharedIds, ~LateScan, ~ScanUncompressed
  PROVE  Spec => []ReadyRight
<1>1. Init => ReadyRight
  BY DEF Init, ReadyRight
<1>2. WrittenRight /\ ReaderRight /\ ReadyRight /\ [Next]_vars => ReadyRight'
  BY ReadyNext
<1>3. Spec => []WrittenRight
  BY WrittenAlways
<1>4. Spec => []ReaderRight
  BY ReaderAlways
<1>5. QED
  BY <1>1, <1>2, <1>3, <1>4, PTL DEF Spec
-----------------------------------------------------------------------------
(* What EventReader promises                                                *)

\* EventReader says with the same words what is said here of the file.
LEMMA SameWords ==
  /\ Meaning!StreamHeaderId = StreamHeaderId
  /\ \A c, id : Meaning!HasId(c, id) = HasId(c, id)
  /\ \A c : /\ Meaning!IsUserMessage(c) = IsUserMessage(c)
            /\ Meaning!IsMetadata(c) = IsMetadata(c)
            /\ Meaning!IsEvent(c) = IsEvent(c)
  /\ \A S : Meaning!Max(S) = Max(S) /\ Meaning!Min(S) = Min(S)
<1>1. Meaning!StreamHeaderId = StreamHeaderId
  BY DEF Meaning!StreamHeaderId, StreamHeaderId
<1>2. \A c, id : Meaning!HasId(c, id) = HasId(c, id)
  BY DEF Meaning!HasId, HasId
<1>3. Meaning!FixedIds = FixedIds
  BY DEF Meaning!FixedIds, FixedIds, Meaning!StreamHeaderId, StreamHeaderId,
         Meaning!StreamFooterId, StreamFooterId, Meaning!StartCompressedSectionId,
         StartCompressedSectionId, Meaning!EndCompressedSectionId, EndCompressedSectionId,
         Meaning!ProtoClassId, ProtoClassId
<1>4. \A c : Meaning!IsUserMessage(c) = IsUserMessage(c)
  BY <1>3 DEF Meaning!IsUserMessage, IsUserMessage
<1>5. \A id : Meaning!IsMetadataId(id) = IsMetadataId(id)
  BY DEF Meaning!IsMetadataId, IsMetadataId
<1>6. \A c : Meaning!IsMetadata(c) = IsMetadata(c) /\ Meaning!IsEvent(c) = IsEvent(c)
  BY <1>4, <1>5 DEF Meaning!IsMetadata, IsMetadata, Meaning!IsEvent, IsEvent
<1>7. \A S : Meaning!Max(S) = Max(S) /\ Meaning!Min(S) = Min(S)
  BY DEF Meaning!Max, Max, Meaning!Min, Min
<1>8. QED
  BY <1>1, <1>2, <1>4, <1>6, <1>7

\* Both of its instances mean the same.
LEMMA SameMeaning ==
  /\ \A i : Abstract!Applicable(i) = Meaning!Applicable(i)
  /\ Abstract!Events = {i \in DOMAIN pfile : IsEvent(pfile[i])}
  /\ \A S : Abstract!Min(S) = Min(S)
<1>1. \A i : Abstract!Applicable(i) = Meaning!Applicable(i)
  BY DEF Abstract!Applicable, Abstract!StreamOf, Abstract!HeaderOf, Abstract!Max, Abstract!Min,
         Abstract!HasId, Abstract!StreamHeaderId, Abstract!IsUserMessage, Abstract!IsMetadata,
         Abstract!IsMetadataId, Abstract!FixedIds, Abstract!StreamFooterId,
         Abstract!StartCompressedSectionId, Abstract!EndCompressedSectionId,
         Abstract!ProtoClassId,
         Meaning!Applicable, Meaning!StreamOf, Meaning!HeaderOf, Meaning!Max, Meaning!Min,
         Meaning!HasId, Meaning!StreamHeaderId, Meaning!IsUserMessage, Meaning!IsMetadata,
         Meaning!IsMetadataId, Meaning!FixedIds, Meaning!StreamFooterId,
         Meaning!StartCompressedSectionId, Meaning!EndCompressedSectionId, Meaning!ProtoClassId
<1>2. \A c : Abstract!IsEvent(c) = IsEvent(c)
  BY DEF Abstract!IsEvent, IsEvent, Abstract!IsUserMessage, IsUserMessage,
         Abstract!IsMetadataId, IsMetadataId, Abstract!FixedIds, FixedIds,
         Abstract!StreamHeaderId, StreamHeaderId, Abstract!StreamFooterId, StreamFooterId,
         Abstract!StartCompressedSectionId, StartCompressedSectionId,
         Abstract!EndCompressedSectionId, EndCompressedSectionId,
         Abstract!ProtoClassId, ProtoClassId
<1>3. Abstract!Events = {i \in DOMAIN pfile : IsEvent(pfile[i])}
  BY <1>2 DEF Abstract!Events
<1>4. \A S : Abstract!Min(S) = Min(S)
  BY DEF Abstract!Min, Min
<1>5. QED
  BY <1>1, <1>3, <1>4

LEMMA HeaderOfIs ==
  ASSUME FileRight(pfile), NEW i \in DOMAIN pfile, IsUserMessage(pfile[i])
  PROVE  Heading(Meaning!HeaderOf(i), i) /\ \A h : Heading(h, i) => h = Meaning!HeaderOf(i)
<1>1. PICK b \in Nat : b + 2 < i /\ StreamTo(pfile, b, i)
  BY HeaderOver
<1>2. i \in Nat /\ i > b + 1
  BY <1>1, CellNumbers
<1>3. PICK h : h = b + 2
  OBVIOUS
<1>4. Heading(h, i) /\ \A g : Heading(g, i) => g = h
  BY <1>1, <1>2, <1>3, HeadingIs
<1> DEFINE S == {j \in 1 .. i : HasId(pfile[j], StreamHeaderId)}
<1>5. h \in Nat /\ h >= 1 /\ h <= i /\ h \in HeaderCells
  BY <1>4, CellNumbers DEF Heading
<1>6. h \in S /\ S \in SUBSET Int
  BY <1>2, <1>5 DEF HeaderCells
<1>7. ASSUME NEW y \in S PROVE h >= y
  <2>1. y \in Nat /\ y <= i /\ y >= 1
    BY <1>2
  <2>2. y \in HeaderCells
    BY <1>2, <2>1, CellIs DEF HeaderCells, FileRight, PyFileEnd
  <2>3. y - 1 \in Starts /\ y >= 2
    BY <2>2, HeaderBehindStart
  <2>4. ~(y - 1 > h)
    BY <1>2, <1>4, <2>1, <2>3 DEF Heading
  <2>5. y - 1 # h
    BY <1>5, <2>3, CellNumbers
  <2>6. QED
    BY <1>5, <2>1, <2>4, <2>5
<1>8. Meaning!HeaderOf(i) = Meaning!Max(S)
  BY SameWords DEF Meaning!HeaderOf
<1> HIDE DEF S
<1>9. Max(S) = h
  BY <1>6, <1>7, Extremes
<1>10. QED
  BY <1>4, <1>8, <1>9, SameWords

\* The metadata of the stream that h heads
MetadataUnder(h) == {j \in MetadataCells : Heading(h, j)}

LEMMA ApplicableIs ==
  ASSUME FileRight(pfile), NEW i \in DOMAIN pfile, IsEvent(pfile[i]), NEW h, Heading(h, i),
         NEW before, before = {j \in MetadataUnder(h) : j < i},
         NEW after, after = {j \in MetadataUnder(h) : j > i}
  PROVE  Meaning!Applicable(i) =
            IF RefersForward(h) THEN IF before = {} THEN None ELSE Max(before)
            ELSE IF after = {} THEN None ELSE Min(after)
<1>1. IsUserMessage(pfile[i])
  BY DEF IsEvent
<1>2. Meaning!HeaderOf(i) = h
  BY <1>1, HeaderOfIs
<1>3. \A j \in DOMAIN pfile : IsMetadata(pfile[j]) =>
         IsUserMessage(pfile[j]) /\ (Meaning!HeaderOf(j) = h <=> Heading(h, j))
  <2>1. ASSUME NEW j \in DOMAIN pfile, IsMetadata(pfile[j])
        PROVE  IsUserMessage(pfile[j]) /\ (Meaning!HeaderOf(j) = h <=> Heading(h, j))
    <3>1. IsUserMessage(pfile[j])
      BY <2>1 DEF IsMetadata
    <3>2. QED
      BY <3>1, HeaderOfIs
  <2>2. QED
    BY <2>1
<1>4. {j \in Meaning!StreamOf(i) : Meaning!IsMetadata(pfile[j])} = MetadataUnder(h)
  BY <1>2, <1>3, SameWords DEF Meaning!StreamOf, MetadataUnder, MetadataCells
<1>5. QED
  BY <1>2, <1>4, SameWords DEF Meaning!Applicable, RefersForward, None

LEMMA UnderIs ==
  ASSUME FileRight(pfile), NEW h, NEW j \in MetadataUnder(h)
  PROVE  /\ h \in Nat /\ j \in Nat /\ h < j /\ j \in MetadataCells
         /\ \A k \in Starts : k > h => k > j
<1>1. j \in MetadataCells /\ Heading(h, j) /\ h \in HeaderCells
  BY DEF MetadataUnder, Heading
<1>2. h \in Nat /\ j \in Nat /\ h # j
  BY <1>1, CellNumbers
<1>3. QED
  BY <1>1, <1>2 DEF Heading

\* The metadata an event is right to come with is the one that applies to it.
LEMMA LastApplies ==
  ASSUME FileRight(pfile), NEW i \in DOMAIN pfile, IsEvent(pfile[i]), NEW h, Heading(h, i),
         RefersForward(h), NEW x, MetaRight(x, i), Meaning!Applicable(i) # None
  PROVE  x = Meaning!Applicable(i)
<1>1. PICK before, after : /\ before = {j \in MetadataUnder(h) : j < i}
                           /\ after = {j \in MetadataUnder(h) : j > i}
  OBVIOUS
<1>2. before # {} /\ Meaning!Applicable(i) = Max(before)
  BY <1>1, ApplicableIs
<1>3. i \in Nat /\ i \notin MetadataCells /\ i \notin Starts
  BY CellNumbers DEF MetadataCells, IsMetadata, IsEvent, Starts, IsUserMessage
<1>4. before \in SUBSET (0 .. i)
  <2>1. ASSUME NEW j \in before PROVE j \in 0 .. i
    BY <1>1, <1>3, UnderIs
  <2>2. QED
    BY <2>1
<1>5. PICK l \in before : \A y \in before : l >= y
  BY <1>2, <1>3, <1>4, LargestOne
<1>6. Max(before) = l
  <2>1. before \in SUBSET Int
    BY <1>3, <1>4
  <2>2. QED
    BY <1>5, <2>1, Extremes
<1>7. l \in MetadataUnder(h) /\ l < i
  BY <1>1
<1>8. /\ h \in Nat /\ l \in Nat /\ h < l /\ l \in MetadataCells
      /\ \A k \in Starts : k > h => k > i
  BY <1>7, UnderIs DEF Heading
<1>9. ASSUME NEW k \in MetadataCells \cup Starts, k > l PROVE k > i
  <2>1. k \in Nat
    BY CellNumbers
  <2>2. CASE k \in Starts
    BY <1>8, <1>9, <2>1, <2>2
  <2>3. CASE k \in MetadataCells
    <3>1. ASSUME ~(k > i) PROVE FALSE
      <4>1. k < i /\ k # i
        BY <1>3, <2>1, <2>3, <3>1
      <4>2. Heading(h, k)
        <5>1. h <= k
          BY <1>8, <1>9, <2>1
        <5>2. \A s \in Starts : s > h => s > k
          BY <1>3, <1>8, <2>1, <4>1, CellNumbers
        <5>3. QED
          BY <5>1, <5>2 DEF Heading
      <4>3. k \in before
        BY <1>1, <2>3, <4>1, <4>2 DEF MetadataUnder
      <4>4. QED
        BY <1>5, <1>8, <1>9, <2>1, <4>3
    <3>2. QED
      BY <3>1
  <2>4. QED
    BY <2>2, <2>3
<1>10. Latest(l, i)
  BY <1>3, <1>7, <1>8, <1>9 DEF Latest
<1>11. x = l
  BY <1>10 DEF MetaRight
<1>12. QED
  BY <1>2, <1>6, <1>11

LEMMA ComingApplies ==
  ASSUME FileRight(pfile), NEW i \in DOMAIN pfile, IsEvent(pfile[i]), NEW h, Heading(h, i),
         ~RefersForward(h), ~cut, NEW x, MetaRight(x, i), Meaning!Applicable(i) # None
  PROVE  x = Meaning!Applicable(i)
<1>1. PICK before, after : /\ before = {j \in MetadataUnder(h) : j < i}
                           /\ after = {j \in MetadataUnder(h) : j > i}
  OBVIOUS
<1>2. after # {} /\ Meaning!Applicable(i) = Min(after)
  BY <1>1, ApplicableIs
<1>3. i \in Nat
  BY CellNumbers
<1>4. after \in SUBSET Nat
  BY <1>1, UnderIs
<1>5. PICK l \in after : \A y \in after : l <= y
  BY <1>2, <1>4, LeastOne
<1>6. Min(after) = l
  <2>1. after \in SUBSET Int
    BY <1>4
  <2>2. QED
    BY <1>5, <2>1, Extremes
<1>7. l \in MetadataUnder(h) /\ l > i
  BY <1>1
<1>8. /\ h \in Nat /\ l \in Nat /\ l \in MetadataCells /\ h <= i
      /\ \A k \in Starts : k > h => k > l
  BY <1>7, UnderIs DEF Heading
<1>9. ASSUME NEW k \in MetadataCells, k > i PROVE l <= k
  <2>1. k \in Nat
    BY CellNumbers
  <2>2. ASSUME ~(l <= k) PROVE FALSE
    <3>1. k < l
      BY <1>8, <2>1, <2>2
    <3>2. Heading(h, k)
      <4>1. h <= k
        BY <1>3, <1>8, <1>9, <2>1
      <4>2. \A s \in Starts : s > h => s > k
        BY <1>8, <2>1, <3>1, CellNumbers
      <4>3. h \in HeaderCells
        BY DEF Heading
      <4>4. QED
        BY <4>1, <4>2, <4>3 DEF Heading
    <3>3. k \in after
      BY <1>1, <1>9, <3>2 DEF MetadataUnder
    <3>4. QED
      BY <1>5, <2>2, <3>3
  <2>3. QED
    BY <2>2
<1>10. Coming(l, i)
  BY <1>7, <1>8, <1>9 DEF Coming
<1>11. x = l
  BY <1>10 DEF MetaRight
<1>12. QED
  BY <1>2, <1>6, <1>11

LEMMA RightApplies ==
  ASSUME FileRight(pfile), NEW i \in DOMAIN pfile, IsEvent(pfile[i]), NEW x, MetaRight(x, i),
         Meaning!Applicable(i) # None, ~(cut /\ Backward(pfile))
  PROVE  x = Meaning!Applicable(i)
<1>1. PICK h : Heading(h, i)
  BY HeaderOfIs DEF IsEvent
<1>2. CASE RefersForward(h)
  BY <1>1, <1>2, LastApplies
<1>3. CASE ~RefersForward(h)
  <2>1. Backward(pfile)
    <3>1. h \in DOMAIN pfile /\ HasId(pfile[h], StreamHeaderId)
      BY <1>1 DEF Heading, HeaderCells
    <3>2. QED
      BY <1>3, <3>1 DEF Backward, RefersForward
  <2>2. QED
    BY <1>1, <1>3, <2>1, ComingApplies
<1>4. QED
  BY <1>2, <1>3

\* What the client was handed, without the metadata of which nothing is promised
Promised(e) ==
    IF Meaning!Applicable(e.at) = None \/ (cut /\ Backward(pfile))
    THEN [e EXCEPT !.metadata = Meaning!Applicable(e.at)] ELSE e
PromisedLog == [n \in DOMAIN plog |-> Promised(plog[n])]

LEMMA ApplicableStays ==
  ASSUME pfile' = pfile, NEW k
  PROVE  (Meaning!Applicable(k))' = Meaning!Applicable(k)
BY DEF Meaning!Applicable, Meaning!StreamOf, Meaning!HeaderOf, Meaning!Max, Meaning!Min,
       Meaning!HasId, Meaning!StreamHeaderId, Meaning!IsUserMessage, Meaning!IsMetadata,
       Meaning!IsMetadataId, Meaning!FixedIds, Meaning!StreamFooterId,
       Meaning!StartCompressedSectionId, Meaning!EndCompressedSectionId, Meaning!ProtoClassId

LEMMA PromisedStays ==
  ASSUME pfile' = pfile, cut' = cut
  PROVE  PromisedLog' = [n \in DOMAIN plog' |-> Promised(plog'[n])]
BY ApplicableStays DEF PromisedLog, Promised, Backward

LEMMA PromisedIs ==
  ASSUME NEW m, Entries(plog, m), NEW n \in DOMAIN plog
  PROVE  DOMAIN PromisedLog = DOMAIN plog /\ PromisedLog[n].at = plog[n].at
<1>1. PICK e : e = plog[n]
  OBVIOUS
<1>2. e = [at |-> e.at, class |-> e.class, metadata |-> e.metadata]
  BY <1>1 DEF Entries
<1>3. Promised(e).at = e.at
  BY <1>2 DEF Promised
<1>4. QED
  BY <1>1, <1>3 DEF PromisedLog

\* To hand out the next event is to deliver the least of those that are left.
LEMMA HandsDelivers ==
  ASSUME FileRight(pfile), pfile' = pfile, cut' = cut,
         NEW e, NEW x, HandsNext(plog, e, x, plog')
  PROVE  Abstract!Deliver
<1>1. /\ IsLog(plog) /\ Entries(plog, e)
      /\ e \in DOMAIN pfile /\ IsEvent(pfile[e]) /\ MetaRight(x, e)
      /\ \A n \in DOMAIN plog : plog[n].at < e
      /\ \A k \in DOMAIN pfile :
             IsEvent(pfile[k]) /\ (\A n \in DOMAIN plog : plog[n].at < k) => e <= k
      /\ plog' = Append(plog, [at |-> e, class |-> pfile[e].body.class, metadata |-> x])
  BY DEF HandsNext
<1>2. PICK D : D = PromisedLog
  OBVIOUS
<1>3. DOMAIN D = DOMAIN plog /\ \A n \in DOMAIN plog : D[n].at = plog[n].at
  <2>1. DOMAIN D = DOMAIN plog
    BY <1>2 DEF PromisedLog
  <2>2. QED
    BY <1>1, <1>2, <2>1, PromisedIs
<1>4. PICK left : left = {i \in Abstract!Events : \A n \in DOMAIN D : D[n].at < i}
  OBVIOUS
<1>5. left = {i \in DOMAIN pfile : IsEvent(pfile[i]) /\ \A n \in DOMAIN plog : plog[n].at < i}
  BY <1>3, <1>4, SameMeaning
<1>6. e \in left /\ left \in SUBSET Int /\ \A y \in left : e <= y
  BY <1>1, <1>5, CellNumbers
<1>7. Abstract!Min(left) = e /\ left # {}
  BY <1>6, Extremes, SameMeaning
<1>8. Abstract!Delivery(e) =
         [at |-> e, class |-> pfile[e].body.class, metadata |-> Meaning!Applicable(e)]
  BY SameMeaning DEF Abstract!Delivery
<1>9. PICK y : y = [at |-> e, class |-> pfile[e].body.class, metadata |-> x]
  OBVIOUS
<1>10. Promised(y) = Abstract!Delivery(e)
  <2>1. y.at = e /\ y.metadata = x
    BY <1>9
  <2>2. CASE Meaning!Applicable(e) = None \/ (cut /\ Backward(pfile))
    <3>1. Promised(y) = [y EXCEPT !.metadata = Meaning!Applicable(e)]
      BY <2>1, <2>2 DEF Promised
    <3>2. QED
      BY <1>8, <1>9, <3>1
  <2>3. CASE ~(Meaning!Applicable(e) = None \/ (cut /\ Backward(pfile)))
    <3>1. x = Meaning!Applicable(e)
      BY <1>1, <2>3, RightApplies
    <3>2. Promised(y) = y
      BY <2>1, <2>3 DEF Promised
    <3>3. QED
      BY <1>8, <1>9, <3>1, <3>2
  <2>4. QED
    BY <2>2, <2>3
<1>11. PromisedLog' = Append(D, Abstract!Delivery(e))
  <2>1. /\ Len(plog) \in Nat /\ DOMAIN plog = 1 .. Len(plog)
        /\ DOMAIN plog' = 1 .. Len(plog) + 1
        /\ plog'[Len(plog) + 1] = y /\ \A n \in DOMAIN plog : plog'[n] = plog[n]
    BY <1>1, <1>9, AppendedIs
  <2>2. PromisedLog' = [n \in 1 .. Len(plog) + 1 |-> Promised(plog'[n])]
    BY <2>1, PromisedStays
  <2>3. D = [n \in 1 .. Len(plog) |-> Promised(plog[n])]
    BY <1>2, <2>1 DEF PromisedLog
  <2>4. PICK p : p = Abstract!Delivery(e)
    OBVIOUS
  <2>5. Append(D, p) = [n \in 1 .. Len(plog) + 1 |-> Promised(plog'[n])]
    <3> DEFINE F == [n \in 1 .. Len(plog) + 1 |-> Promised(plog'[n])]
               T == {F[n] : n \in 1 .. Len(plog) + 1}
    <3>1. \A n \in 1 .. Len(plog) : n \in 1 .. Len(plog) + 1
      BY <2>1
    <3>2. Len(plog) + 1 \in 1 .. Len(plog) + 1
      BY <2>1
    <3>3. F[Len(plog) + 1] = p
      BY <1>10, <2>1, <2>4, <3>2
    <3>4. \A n \in 1 .. Len(plog) : F[n] = Promised(plog[n])
      BY <2>1, <3>1
    <3> HIDE DEF F
    <3>5. D = [n \in 1 .. Len(plog) |-> F[n]]
      BY <2>3, <3>4
    <3>6. D \in [1 .. Len(plog) -> T]
      BY <3>1, <3>5
    <3>7. D \in Seq(T) /\ Len(D) = Len(plog)
      BY <2>1, <3>5, <3>6, SeqDef
    <3>8. QED
      BY <3>3, <3>5, <3>7 DEF F
  <2>6. QED
    BY <2>2, <2>4, <2>5
<1>12. /\ left # {} /\ PromisedLog' = Append(PromisedLog, Abstract!Delivery(Abstract!Min(left)))
       /\ left = {i \in Abstract!Events : \A n \in DOMAIN PromisedLog : PromisedLog[n].at < i}
  BY <1>2, <1>4, <1>7, <1>11
<1>13. ASSUME NEW n \in DOMAIN PromisedLog
       PROVE  ~Abstract!IsCutShort(pfile[PromisedLog[n].at])
  <2>1. n \in DOMAIN plog /\ PromisedLog[n].at = plog[n].at
    BY <1>2, <1>3
  <2>2. plog[n].at \in Nat /\ plog[n].at < e /\ ~Misreads(plog[n].at)
    BY <1>1, <2>1 DEF Entries
  <2>3. e \in Nat /\ e <= PyFileEnd /\ PyFileEnd \in Nat
    BY <1>1 DEF FileRight, PyFileEnd
  <2>4. plog[n].at # PyFileEnd
    BY <2>2, <2>3
  <2>5. ~IsCutShort(pfile[plog[n].at])
    BY <2>2, <2>4 DEF Misreads
  <2>6. QED
    BY <2>1, <2>5 DEF Abstract!IsCutShort, IsCutShort, Abstract!IsUserMessage, IsUserMessage,
       Abstract!FixedIds, FixedIds, Abstract!StreamHeaderId, StreamHeaderId,
       Abstract!StreamFooterId, StreamFooterId, Abstract!StartCompressedSectionId,
       StartCompressedSectionId, Abstract!EndCompressedSectionId, EndCompressedSectionId,
       Abstract!ProtoClassId, ProtoClassId
<1>14. QED
  BY <1>12, <1>13 DEF Abstract!Deliver, PromisedLog, Promised

\* A log that stays is delivered as before: while the file is written it is empty.
LEMMA EmptyStays ==
  ASSUME plog = << >>, plog' = << >>
  PROVE  PromisedLog = << >> /\ PromisedLog' = << >>
BY DEF PromisedLog

LEMMA LogStays ==
  ASSUME plog' = plog, pfile' = pfile, cut' = cut
  PROVE  PromisedLog' = PromisedLog
BY PromisedStays DEF PromisedLog

LEMMA PromisedDelivers ==
  ASSUME WrittenRight, ReaderRight, ReadyRight, ~LateScan, ~ScanUncompressed, [Next]_vars
  PROVE  [Abstract!WriteFile \/ Abstract!Deliver]_<<pfile, PromisedLog>>
<1>1. CASE UNCHANGED vars
  BY <1>1, LogStays DEF vars
<1>2. CASE plog = << >> /\ plog' = << >>
  <2>1. PromisedLog = << >> /\ PromisedLog' = PromisedLog
    BY <1>2, EmptyStays
  <2>2. Abstract!WriteFile
    BY <2>1 DEF Abstract!WriteFile, PromisedLog, Promised
  <2>3. QED
    BY <2>2
<1>3. CASE /\ pfile' = pfile /\ cut' = cut /\ phase = "read"
           /\ FileRight(pfile) /\ HandsRight(plog, plog')
  <2>1. CASE plog' = plog
    BY <1>3, <2>1, LogStays
  <2>2. CASE plog' # plog
    <3>1. PICK e, x : HandsNext(plog, e, x, plog')
      BY <1>3, <2>2 DEF HandsRight
    <3>2. QED
      BY <1>3, <3>1, HandsDelivers
  <2>3. QED
    BY <2>1, <2>2
<1>4. QED
  BY <1>1, <1>2, <1>3, ReadyStep

\* class InputStream and itermetadata() of stream.py implement EventReader: over any number
\* of streams that Python writers wrote, cut by a crash or not, with messages that could not
\* be serialised or not, metadata referring forward or backward, in a loop over events or
\* over groups and with info() in between, every event comes once, in order, parsed as its
\* class and with the metadata of its own stream that applies to it; what is left of an
\* event in which the file ends comes last, if it comes.
THEOREM PyReaderImplementsEventReader ==
  ASSUME ~SharedIds, ~LateScan, ~ScanUncompressed
  PROVE  Spec => PyImplementsEventReader
<1>1. Init => Abstract!AbstractInit
  BY DEF Init, Abstract!AbstractInit
<1>2. WrittenRight /\ ReaderRight /\ ReadyRight /\ [Next]_vars
        => [Abstract!WriteFile \/ Abstract!Deliver]_<<pfile, PromisedLog>>
  BY PromisedDelivers
<1>3. [Abstract!WriteFile \/ Abstract!Deliver]_<<pfile, PromisedLog>>
        <=> [Abstract!WriteFile \/ Abstract!Deliver]_<<pfile, [n \in DOMAIN plog |->
                IF Meaning!Applicable(plog[n].at) = None \/ (cut /\ Backward(pfile))
                THEN [plog[n] EXCEPT !.metadata = Meaning!Applicable(plog[n].at)]
                ELSE plog[n]]>>
  BY DEF PromisedLog, Promised
<1>4. Spec => []WrittenRight
  BY WrittenAlways
<1>5. Spec => []ReaderRight
  BY ReaderAlways
<1>6. Spec => []ReadyRight
  BY ReadyAlways
<1>7. QED
  BY <1>1, <1>2, <1>3, <1>4, <1>5, <1>6, PTL
     DEF Spec, PyImplementsEventReader, Abstract!AbstractSpec
-----------------------------------------------------------------------------
(* What makes a method fail, and why nothing does in a whole file           *)

\* The pool knows, with every file, those it imports, and no class that cannot be made.
PoolRight(p) ==
    /\ IsPool(p) /\ p.files \subseteq File /\ Closed(p.files)
    /\ \A x \in DOMAIN p.class : ~p.class[x].broken

\* Nothing has failed, and the file can still be read.
Sound(s) ==
    IsReader(s) /\ s.status = "ok" /\ ~s.closed /\ ~s.split /\ PoolRight(s.pool)

\* What the pool knows stays, or grows.
Keeps(s, r) == r.pool.files = s.pool.files /\ r.pool.class = s.pool.class
Grew(s, r) ==
    s.pool.files \subseteq r.pool.files /\ DOMAIN s.pool.class \subseteq DOMAIN r.pool.class

\* The definitions D were reported.
Reported(s, D) ==
    \A d \in D : /\ pfile[d].body.class_id \in DOMAIN s.pool.class
                 /\ ToSet(pfile[d].body.file_descriptor) \subseteq s.pool.files

LEMMA GrewTwice ==
  ASSUME NEW s, NEW r, NEW t
  PROVE  /\ Grew(s, s) /\ Keeps(s, s)
         /\ Keeps(s, r) => Grew(s, r)
         /\ Keeps(s, r) /\ Keeps(r, t) => Keeps(s, t)
         /\ Grew(s, r) /\ Grew(r, t) => Grew(s, t)
         /\ \A D : Grew(s, r) /\ Reported(s, D) => Reported(r, D)
<1>1. ASSUME NEW D, Grew(s, r), Reported(s, D) PROVE Reported(r, D)
  BY <1>1 DEF Grew, Reported
<1>2. QED
  BY <1>1 DEF Grew, Keeps

\* A definition behind those of its stream that were reported
LEMMA FilesClosed ==
  ASSUME FileRight(pfile), NEW b \in Nat, NEW d \in DefinitionCells, DefinesRight(pfile, b, d),
         NEW known, known \subseteq File, Closed(known),
         \A j \in Defining(pfile, b, d - 1) : ToSet(pfile[j].body.file_descriptor) \subseteq known,
         NEW files, files = known \cup ToSet(pfile[d].body.file_descriptor)
  PROVE  /\ files \subseteq File /\ Closed(files) /\ FileOf[pfile[d].body.full_name] \in files
<1> DEFINE fd == pfile[d].body.file_descriptor
<1>1. d \in Nat /\ d \in DOMAIN pfile
  BY CellIs DEF DefinitionCells
<1>2. Known(pfile, b, d - 1) \subseteq known
  BY DEF Known
<1>3. /\ fd \in Seq(File) /\ InOrder(fd, Known(pfile, b, d - 1))
      /\ FileOf[pfile[d].body.full_name] \in Known(pfile, b, d)
  BY DEF DefinesRight
<1>4. Known(pfile, b, d) \subseteq files
  <2>1. \A j \in Defining(pfile, b, d) : j = d \/ j \in Defining(pfile, b, d - 1)
    BY <1>1 DEF Defining
  <2>2. QED
    BY <2>1 DEF Known
<1>5. files \subseteq File
  BY <1>3 DEF ToSet
<1>6. ASSUME NEW f \in ToSet(fd) PROVE Imports(f) \subseteq files
  <2>1. PICK k \in DOMAIN fd : f = fd[k]
    BY <1>6 DEF ToSet
  <2>2. Imports(fd[k]) \subseteq Known(pfile, b, d - 1) \cup {fd[j] : j \in 1 .. k - 1}
    BY <1>3, <2>1 DEF InOrder
  <2>3. \A j \in 1 .. k - 1 : fd[j] \in ToSet(fd)
    <3>1. \A j \in 1 .. k - 1 : j \in DOMAIN fd
      BY <1>3, <2>1
    <3>2. QED
      BY <3>1 DEF ToSet
  <2>4. QED
    BY <1>2, <2>1, <2>2, <2>3
<1>7. Closed(files)
  BY <1>6 DEF Closed
<1>8. QED
  BY <1>3, <1>4, <1>5, <1>7

LEMMA ReportWorks ==
  ASSUME Nested = {}, FileRight(pfile), NEW s, Sound(s), NEW b \in Nat,
         NEW d \in DefinitionCells, DefinesRight(pfile, b, d),
         Reported(s, Defining(pfile, b, d - 1)),
         NEW r, r = ReportProtoClass(s, pfile[d].body)
  PROVE  Sound(r) /\ Grew(s, r) /\ Reported(r, {d})
<1> DEFINE body == pfile[d].body
           files == s.pool.files \cup ToSet(body.file_descriptor)
           entry == [name |-> body.full_name,
                     broken |-> body.full_name \in Nested \ s.pool.fixed]
           pool == [s.pool EXCEPT !.clean = FALSE, !.files = files,
                                  !.class = With(@, body.class_id, entry)]
<1>1. files \subseteq File /\ Closed(files) /\ FileOf[body.full_name] \in files
  BY FilesClosed DEF Sound, PoolRight, Reported
<1>2. r = [s EXCEPT !.pool.clean = FALSE, !.pool.files = files,
                    !.pool.class = With(@, body.class_id, entry)]
  BY <1>1 DEF ReportProtoClass
<1>3. r.pool = pool /\ r.status = s.status /\ r.closed = s.closed /\ r.split = s.split
      /\ IsReader(r)
  BY <1>2 DEF IsReader, Sound
<1>4. /\ IsPool(r.pool) /\ r.pool.class = With(s.pool.class, body.class_id, entry)
      /\ r.pool.files = files
  BY <1>3 DEF IsPool, Sound, PoolRight
<1>5. ~entry.broken
  OBVIOUS
<1> HIDE DEF entry, pool
<1>6. /\ DOMAIN r.pool.class = DOMAIN s.pool.class \cup {body.class_id}
      /\ \A x \in DOMAIN r.pool.class :
            \/ r.pool.class[x] = entry
            \/ (x \in DOMAIN s.pool.class /\ r.pool.class[x] = s.pool.class[x])
  BY <1>4 DEF With
<1>7. \A x \in DOMAIN r.pool.class : ~r.pool.class[x].broken
  BY <1>5, <1>6 DEF Sound, PoolRight
<1>8. PoolRight(r.pool)
  BY <1>1, <1>4, <1>7 DEF PoolRight
<1>9. QED
  BY <1>3, <1>4, <1>6, <1>8 DEF Sound, Grew, Reported

LEMMA FindWorks ==
  ASSUME NEW s, Sound(s), NEW id \in FixedIds \cup DOMAIN s.pool.class,
         NEW r, r = FindClassId(s, id)
  PROVE  Sound(r) /\ Keeps(s, r)
<1> DEFINE p == ClassIds(s)
<1>1. Sound(p) /\ Keeps(s, p)
  <2>1. CASE p = s
    BY <2>1, GrewTwice
  <2>2. CASE p = [s EXCEPT !.pool.clean = TRUE, !.pool.fixed = ClassesIn(s.pool.files)]
    <3>1. /\ IsReader(p) /\ p.status = s.status /\ p.closed = s.closed /\ p.split = s.split
          /\ p.pool = [s.pool EXCEPT !.clean = TRUE, !.fixed = ClassesIn(s.pool.files)]
      BY <2>2 DEF IsReader, Sound
    <3>2. IsPool(p.pool) /\ p.pool.files = s.pool.files /\ p.pool.class = s.pool.class
      BY <3>1 DEF IsPool, Sound, PoolRight
    <3>3. QED
      BY <3>1, <3>2 DEF Sound, PoolRight, Keeps
  <2>3. \A f \in s.pool.files : ToSet(Dependencies[f]) \subseteq s.pool.files
    BY DEF Sound, PoolRight, Closed, Imports
  <2>4. QED
    BY <2>1, <2>2, <2>3 DEF ClassIds
<1> HIDE DEF p
<1>2. p.status = "ok" /\ p.pool.class = s.pool.class
      /\ \A x \in DOMAIN p.pool.class : ~p.pool.class[x].broken
  BY <1>1 DEF Sound, PoolRight, Keeps
<1>3. r \in {s, p}
  <2>1. r = IF id \in FixedIds THEN s
            ELSE IF id \notin DOMAIN p.pool.class \/ p.pool.class[id].broken
                 THEN Fail(p, "AttributeError") ELSE p
    BY <1>2 DEF FindClassId, Then, p
  <2>2. QED
    BY <1>2, <2>1
<1>4. QED
  BY <1>1, <1>3, GrewTwice

\* The message that comes next can be fetched.
Faces(s) ==
    /\ Placed(s) /\ At(s) + 1 \in DOMAIN pfile /\ IsMessage(pfile[At(s) + 1])
    /\ s.zin # NoZlib <=> pfile[At(s) + 1].z

\* Its class is known, whatever read_message passes first.
Ahead(s, m) ==
    \A i \in DOMAIN pfile : i > m /\ Passes(m, i - 1) /\ IsUserMessage(pfile[i]) =>
        pfile[i].id \in DOMAIN s.pool.class

LEMMA FetchWorks ==
  ASSUME FileRight(pfile), Serialized, NEW s, Sound(s), Faces(s), NEW r, r = Fetch(s)
  PROVE  Sound(r) /\ Keeps(s, r)
<1>1. /\ PyFileEnd \in Nat /\ DOMAIN pfile = 1 .. PyFileEnd
      /\ ~Misreads(At(s) + 1)
  BY DEF FileRight, PyFileEnd, Faces, Misreads, Serialized
<1>2. IsReader(s) /\ s.pos \in Nat /\ s.zin.next \in Nat /\ ~s.closed
  BY DEF Sound, Faces, Placed
<1>3. CASE s.zin = NoZlib
  <2>1. s.pos < PyFileEnd /\ IsMessage(pfile[s.pos + 1]) /\ ~pfile[s.pos + 1].z
    BY <1>1, <1>2, <1>3 DEF Faces, At
  <2>2. r = [s EXCEPT !.pos = @ + 1, !.got = s.pos + 1]
    BY <1>1, <1>2, <1>3, <2>1 DEF Fetch, At
  <2>3. QED
    BY <1>2, <2>2 DEF Sound, IsReader, Keeps
<1>4. CASE s.zin # NoZlib
  <2>1. /\ s.zin.next < PyFileEnd /\ IsMessage(pfile[s.zin.next + 1])
        /\ pfile[s.zin.next + 1].z
    BY <1>1, <1>2, <1>4 DEF Faces, At
  <2>2. r = [s EXCEPT !.zin = [s.zin EXCEPT !.next = s.zin.next + 1], !.got = s.zin.next + 1]
    BY <1>1, <1>2, <1>4, <2>1 DEF Fetch, At
  <2>3. QED
    BY <1>2, <2>2 DEF Sound, IsReader, Keeps
<1>5. QED
  BY <1>3, <1>4

LEMMA FetchKnownWorks ==
  ASSUME FileRight(pfile), Serialized, NEW s, Sound(s), Faces(s),
         IsUserMessage(pfile[At(s) + 1]) => pfile[At(s) + 1].id \in DOMAIN s.pool.class,
         NEW r, r = FetchKnown(s)
  PROVE  Sound(r) /\ Keeps(s, r) /\ Took(r) /\ r.got = At(s) + 1
<1>1. PICK f : f = Fetch(s)
  OBVIOUS
<1>2. Sound(f) /\ Keeps(s, f)
  BY <1>1, FetchWorks
<1>3. f.got = At(s) + 1
  BY <1>1, <1>2, FetchTakes DEF Sound, Faces
<1>4. r = FindClassId(f, pfile[f.got].id)
  BY <1>1, <1>2 DEF FetchKnown, Then, Sound
<1>5. pfile[f.got].id \in FixedIds \cup DOMAIN f.pool.class
  BY <1>2, <1>3 DEF Keeps, Faces, IsUserMessage, IsMessage
<1>6. Sound(r) /\ Keeps(f, r)
  BY <1>2, <1>4, <1>5, FindWorks
<1>7. Took(r) /\ r.got = At(s) + 1
  BY <1>6, FetchKnownTakes DEF Sound, Faces
<1>8. QED
  BY <1>2, <1>6, <1>7, GrewTwice

\* In a whole file nothing but an end magic is the last of a stream.
LEMMA GoesOn ==
  ASSUME FileRight(pfile), Whole(pfile), NEW i \in DOMAIN pfile, pfile[i].kind # "END_MAGIC"
  PROVE  /\ i \in Nat /\ i >= 1 /\ i + 1 \in DOMAIN pfile
         /\ \E b \in Nat : b < i /\ CellRight(pfile, b, i + 1)
<1>1. PyFileEnd \in Nat /\ DOMAIN pfile = 1 .. PyFileEnd
  BY DEF FileRight, PyFileEnd
<1>2. i \in Nat /\ i >= 1 /\ i # PyFileEnd /\ pfile[i + 1].kind # "START_MAGIC"
  BY <1>1 DEF Whole, PyFileEnd
<1>3. i + 1 \in DOMAIN pfile /\ (i + 1) - 1 = i
  BY <1>1, <1>2
<1>4. PICK b \in 0 .. i : CellRight(pfile, b, i + 1)
  BY <1>3, CellIs
<1>5. b # i
  BY <1>2, <1>3, <1>4, WholeUntorn DEF CellRight
<1>6. b \in Nat /\ b < i
  BY <1>2, <1>5
<1>7. QED
  BY <1>2, <1>3, <1>4, <1>6

LEMMA MessageNext ==
  ASSUME FileRight(pfile), Whole(pfile), NEW i \in DOMAIN pfile,
         \/ pfile[i].kind \in {"START_MAGIC", "ZlibEnd"}
         \/ /\ IsMessage(pfile[i]) /\ pfile[i].id # StreamFooterId
            /\ pfile[i].id # EndCompressedSectionId
  PROVE  /\ i + 1 \in DOMAIN pfile /\ IsMessage(pfile[i + 1])
         /\ pfile[i + 1].z <=> Opens(pfile[i])
<1>1. /\ pfile[i].kind # "END_MAGIC" /\ pfile[i].kind # "FooterSize"
      /\ ~HasId(pfile[i], StreamFooterId) /\ ~HasId(pfile[i], EndCompressedSectionId)
  BY DEF HasId, IsMessage
<1>2. i \in Nat /\ i >= 1 /\ i + 1 \in DOMAIN pfile
  BY <1>1, GoesOn
<1>3. PICK b \in Nat : b < i /\ CellRight(pfile, b, i + 1)
  BY <1>1, GoesOn
<1>4. i + 1 > b + 1 /\ i + 1 # b + 1 /\ (i + 1) - 1 = i
  BY <1>2, <1>3
<1>5. pfile[i + 1] \in PyCell /\ pfile[i + 1].kind # "TORN_MAGIC"
  BY <1>2, CellIs, WholeUntorn
<1> DEFINE c == pfile[i + 1]
<1>6. /\ c.kind # "START_MAGIC" /\ c.kind # "ZlibEnd" /\ c.kind # "FooterSize"
      /\ c.kind # "END_MAGIC" /\ (c.z <=> Opens(pfile[i]))
  BY <1>1, <1>3, <1>4 DEF CellRight
<1>7. c.kind = "message"
  BY <1>5, <1>6 DEF PyCell
<1>8. QED
  BY <1>2, <1>6, <1>7 DEF IsMessage

LEMMA ChecksumNext ==
  ASSUME FileRight(pfile), Whole(pfile), NEW i \in DOMAIN pfile,
         HasId(pfile[i], EndCompressedSectionId)
  PROVE  /\ i + 1 \in DOMAIN pfile /\ pfile[i + 1].kind = "ZlibEnd" /\ pfile[i + 1].z
<1>1. pfile[i].kind # "END_MAGIC" /\ pfile[i].z
  BY SectionCells DEF HasId
<1>2. i \in Nat /\ i >= 1 /\ i + 1 \in DOMAIN pfile
  BY <1>1, GoesOn
<1>3. PICK b \in Nat : b < i /\ CellRight(pfile, b, i + 1)
  BY <1>1, GoesOn
<1>4. i + 1 > b + 1 /\ (i + 1) - 1 = i
  BY <1>2, <1>3
<1>5. Opens(pfile[i])
  BY <1>1 DEF Opens, HasId, IsMessage
<1>6. QED
  BY <1>2, <1>3, <1>4, <1>5 DEF CellRight

\* close() of a ZlibInputStream in the middle of its section
LEMMA DropWorks ==
  ASSUME FileRight(pfile), Whole(pfile), NEW s, Sound(s), Took(s), s.zin # NoZlib,
         pfile[s.got].id # StreamFooterId, NEW r, r = DropCompression(s)
  PROVE  /\ Sound(r) /\ Keeps(s, r) /\ IsReader(r) /\ r.zin = NoZlib /\ r.pos = s.got + 1
<1>1. /\ s.zin.next = s.got /\ s.got \in DOMAIN pfile /\ IsMessage(pfile[s.got])
      /\ pfile[s.got].z /\ IsReader(s)
  BY DEF Took, Placed, At
<1>2. pfile[s.got + 1].z
  <2>1. CASE pfile[s.got].id = EndCompressedSectionId
    BY <1>1, <2>1, ChecksumNext DEF HasId, IsMessage
  <2>2. CASE pfile[s.got].id # EndCompressedSectionId
    BY <1>1, <2>2, MessageNext DEF Opens
  <2>3. QED
    BY <2>1, <2>2
<1>3. r = [s EXCEPT !.pos = s.got + 1, !.zin = NoZlib]
  BY <1>1, <1>2 DEF DropCompression, Sound
<1>4. QED
  BY <1>1, <1>3 DEF Sound, IsReader, Keeps

LEMMA SectionWorks ==
  ASSUME FileRight(pfile), Whole(pfile), NEW s, Sound(s), Took(s),
         pfile[s.got].id \in CompressionIds, NEW r, r = Section(s)
  PROVE  /\ Sound(r) /\ Keeps(s, r) /\ Faces(r) /\ At(r) \in {s.got, s.got + 1}
         /\ At(r) = s.got + 1 => Passing(pfile[At(r)])
<1>0. /\ IsReader(s) /\ s.got \in DOMAIN pfile /\ IsMessage(pfile[s.got]) /\ s.got \in Nat
      /\ s.zin # NoZlib <=> pfile[s.got].z
      /\ At(s) = s.got
  BY CellIs DEF Took, Placed
<1>1. PyFileEnd \in Nat /\ DOMAIN pfile = 1 .. PyFileEnd
  BY DEF FileRight, PyFileEnd
<1>2. CASE pfile[s.got].id = StartCompressedSectionId
  <2>1. HasId(pfile[s.got], StartCompressedSectionId) /\ ~pfile[s.got].z
    BY <1>0, <1>2, SectionCells DEF HasId, IsMessage
  <2>2. s.pos = s.got
    BY <1>0, <2>1 DEF At
  <2>3. r = [s EXCEPT !.zin = [tell |-> s.got, next |-> s.got]]
    BY <1>2, <2>2 DEF Section, OpenSection
  <2>4. Sound(r) /\ Keeps(s, r) /\ r.zin = [tell |-> s.got, next |-> s.got]
    BY <1>0, <2>3 DEF Sound, IsReader, Keeps
  <2>5. r.zin # NoZlib /\ r.zin.next = s.got
    BY <1>0, <2>4, CellIs DEF NoZlib
  <2>6. At(r) = s.got
    BY <2>5 DEF At
  <2>7. /\ s.got + 1 \in DOMAIN pfile /\ IsMessage(pfile[s.got + 1])
        /\ pfile[s.got + 1].z <=> Opens(pfile[s.got])
    BY <1>0, <1>2, MessageNext, PyIdsDiffer
  <2>8. Opens(pfile[s.got])
    BY <1>0, <1>2 DEF Opens
  <2>9. Placed(r)
    BY <2>4, SectionPlaces DEF Sound
  <2>10. Faces(r)
    BY <2>5, <2>6, <2>7, <2>8, <2>9 DEF Faces
  <2>11. s.got # s.got + 1
    BY <1>0
  <2>12. QED
    BY <2>4, <2>6, <2>10, <2>11
<1>3. CASE pfile[s.got].id = EndCompressedSectionId
  <2>1. HasId(pfile[s.got], EndCompressedSectionId) /\ pfile[s.got].z
    BY <1>0, <1>3, SectionCells DEF HasId, IsMessage
  <2>2. r = DropCompression(s)
    BY <1>3, PyIdsDiffer DEF Section
  <2>3. Sound(r) /\ Keeps(s, r) /\ r.zin = NoZlib /\ r.pos = s.got + 1
    BY <1>0, <1>3, <2>1, <2>2, DropWorks, PyIdsDiffer
  <2>4. At(r) = s.got + 1
    BY <2>3 DEF At
  <2>5. s.got + 1 \in DOMAIN pfile /\ pfile[s.got + 1].kind = "ZlibEnd"
    BY <1>0, <2>1, ChecksumNext
  <2>6. /\ (s.got + 1) + 1 \in DOMAIN pfile /\ IsMessage(pfile[(s.got + 1) + 1])
        /\ pfile[(s.got + 1) + 1].z <=> Opens(pfile[s.got + 1])
    BY <2>5, MessageNext
  <2>7. ~Opens(pfile[s.got + 1])
    BY <2>5 DEF Opens, IsMessage
  <2>8. Placed(r)
    BY <2>3, SectionPlaces DEF Sound
  <2>9. Faces(r)
    BY <2>3, <2>4, <2>6, <2>7, <2>8 DEF Faces
  <2>10. Passing(pfile[s.got + 1])
    BY <2>5 DEF Passing
  <2>11. QED
    BY <2>3, <2>4, <2>9, <2>10
<1>4. QED
  BY <1>2, <1>3 DEF CompressionIds

\* The message that was read is where the search that began at m has come to.
Reaches(s, m) ==
    Sound(s) /\ Took(s) /\ s.got > m /\ Passes(m, s.got - 1) /\ Ahead(s, m)

LEMMA AheadSame ==
  ASSUME NEW s, NEW r, NEW m, Ahead(s, m), Keeps(s, r)
  PROVE  Ahead(r, m)
BY DEF Ahead, Keeps

LEMMA FetchReaches ==
  ASSUME FileRight(pfile), Serialized, NEW s, Sound(s), Faces(s), NEW m \in Nat, m <= At(s),
         Passes(m, At(s)), Ahead(s, m), NEW r, r = FetchKnown(s)
  PROVE  Reaches(r, m) /\ Keeps(s, r)
<1>1. At(s) \in Nat /\ At(s) + 1 \in DOMAIN pfile /\ (At(s) + 1) - 1 = At(s) /\ At(s) + 1 > m
  BY DEF Faces, Placed, At
<1>2. IsUserMessage(pfile[At(s) + 1]) => pfile[At(s) + 1].id \in DOMAIN s.pool.class
  BY <1>1 DEF Ahead
<1>3. Sound(r) /\ Keeps(s, r) /\ Took(r) /\ r.got = At(s) + 1
  BY <1>2, FetchKnownWorks
<1>4. QED
  BY <1>1, <1>3, AheadSame DEF Reaches

LEMMA ReadOnceWorks ==
  ASSUME FileRight(pfile), Serialized, Whole(pfile), NEW m \in Nat, NEW s, Reaches(s, m),
         NEW r, r = ReadOnce(s)
  PROVE  Reaches(r, m) /\ Keeps(s, r)
<1>0. /\ s.got \in Nat /\ s.got >= 1 /\ s.got \in DOMAIN pfile /\ IsMessage(pfile[s.got])
      /\ s.status = "ok"
  BY CellIs DEF Reaches, Took, Sound
<1>1. CASE pfile[s.got].id \in CompressionIds
  <2>1. PICK t : t = Section(s)
    OBVIOUS
  <2>2. /\ Sound(t) /\ Keeps(s, t) /\ Faces(t) /\ At(t) \in {s.got, s.got + 1}
        /\ At(t) = s.got + 1 => Passing(pfile[At(t)])
    BY <1>1, <2>1, SectionWorks DEF Reaches
  <2>3. r = FetchKnown(t)
    BY <1>0, <1>1, <2>1, <2>2 DEF ReadOnce, Then, Sound
  <2>4. At(t) \in Nat /\ m <= At(t) /\ At(t) + 1 \in DOMAIN pfile
    BY <1>0, <2>2 DEF Reaches, Faces
  <2>5. Passes(m, At(t))
    <3>1. Passing(pfile[s.got])
      BY <1>0, <1>1 DEF Passing
    <3>2. ASSUME NEW i \in m + 1 .. At(t) PROVE i \in DOMAIN pfile /\ Passing(pfile[i])
      <4>1. i \in m + 1 .. s.got - 1 \/ i = s.got \/ (i = s.got + 1 /\ At(t) = s.got + 1)
        BY <1>0, <2>2
      <4>2. \A k \in DOMAIN pfile : k \in Nat /\ k >= 1 /\ \A j \in 1 .. k : j \in DOMAIN pfile
        BY DEF FileRight
      <4>3. i \in 1 .. At(t) + 1
        BY <1>0, <2>4
      <4>4. i \in DOMAIN pfile
        BY <2>4, <4>2, <4>3
      <4>5. CASE i \in m + 1 .. s.got - 1
        BY <4>5 DEF Reaches, Passes
      <4>6. QED
        BY <2>2, <3>1, <4>1, <4>4, <4>5
    <3>3. QED
      BY <3>2 DEF Passes
  <2>6. Ahead(t, m)
    BY <2>2, AheadSame DEF Reaches
  <2>7. Reaches(r, m) /\ Keeps(t, r)
    BY <2>2, <2>3, <2>4, <2>5, <2>6, FetchReaches
  <2>8. QED
    BY <2>2, <2>7, GrewTwice
<1>2. CASE pfile[s.got].id \notin CompressionIds
  <2>1. r = s
    BY <1>2 DEF ReadOnce
  <2>2. QED
    BY <2>1, GrewTwice
<1>3. QED
  BY <1>1, <1>2

LEMMA ReadMessageWorks ==
  ASSUME FileRight(pfile), Serialized, Whole(pfile), NEW s, Sound(s), Faces(s), Ahead(s, At(s)),
         NEW r, r = ReadMessage(s)
  PROVE  Sound(r) /\ Keeps(s, r)
<1>1. PICK read : /\ read[0] = FetchKnown(s)
                  /\ \A n \in 1 .. PyFileEnd : read[n] = ReadOnce(read[n - 1])
                  /\ r = read[PyFileEnd]
  BY ReadMessageSteps
<1>2. PyFileEnd \in Nat
  BY DEF FileRight, PyFileEnd
<1>3. PICK m \in Nat : m = At(s)
  BY DEF Faces, Placed, At
<1> DEFINE Right(q) == Reaches(q, m) /\ Keeps(s, q)
           right == {n \in 0 .. PyFileEnd : Right(read[n])}
<1>4. 0 \in right
  <2>1. Passes(m, m)
    BY DEF Passes
  <2>2. Right(read[0])
    BY <1>1, <1>3, <2>1, FetchReaches
  <2>3. QED
    BY <1>2, <2>2
<1>5. ASSUME NEW n \in 0 + 1 .. PyFileEnd, n - 1 \in right PROVE n \in right
  <2>1. n \in 1 .. PyFileEnd /\ n \in 0 .. PyFileEnd /\ read[n] = ReadOnce(read[n - 1])
    BY <1>1, <1>2
  <2>2. PICK p : p = read[n - 1]
    OBVIOUS
  <2>3. PICK q : q = read[n]
    OBVIOUS
  <2>4. q = ReadOnce(p) /\ Reaches(p, m) /\ Keeps(s, p)
    BY <1>5, <2>1, <2>2, <2>3
  <2>5. Reaches(q, m) /\ Keeps(p, q)
    BY <2>4, ReadOnceWorks
  <2>6. Keeps(s, q)
    BY <2>4, <2>5, GrewTwice
  <2>7. QED
    BY <2>1, <2>3, <2>5, <2>6
<1> HIDE DEF right
<1>6. \A n \in 0 .. PyFileEnd : n \in right
  BY <1>2, <1>4, <1>5, NumberByNumber
<1>7. PyFileEnd \in right
  BY <1>2, <1>6
<1>8. QED
  BY <1>1, <1>7 DEF right, Reaches

\* A message that has a place is read from there.
LEMMA ReadAtWorks ==
  ASSUME FileRight(pfile), Serialized, Whole(pfile), NEW s, Sound(s), NEW i \in Leading,
         IsUserMessage(pfile[i]) => pfile[i].id \in DOMAIN s.pool.class,
         NEW r, r = ReadAt(s, Place(pfile, i))
  PROVE  Sound(r) /\ Keeps(s, r) /\ Took(r) /\ r.got = i
<1>1. /\ i \in Nat /\ i >= 1 /\ i \in DOMAIN pfile /\ Leads(pfile, i)
      /\ pfile[i].z => i >= 2 /\ i - 1 \in DOMAIN pfile
      /\ IsMessage(pfile[i]) /\ pfile[i].id \notin CompressionIds
  BY LeadingIs
<1>2. PICK place \in Nat : place = Place(pfile, i)
  BY <1>1 DEF Place
<1>3. PICK t : t = Sought(s, place, NoZlib)
  OBVIOUS
<1>4. /\ Reads(s, t) /\ IsReader(t) /\ t.pos = place /\ t.zin = NoZlib
      /\ t.status = s.status /\ t.closed = s.closed /\ t.pool = s.pool
  BY <1>3, SeekReads DEF Sound
<1>5. Sound(t) /\ Keeps(s, t) /\ Placed(t) /\ At(t) = place
  <2>1. NoZlib \in [tell : Nat, next : Nat]
    BY DEF NoZlib
  <2>2. QED
    BY <1>4, <2>1 DEF Sound, Keeps, Reads, Scans, Placed, At
<1>6. r = ReadMessage(t)
  BY <1>2, <1>3 DEF ReadAt, Sound, Sought
<1>7. ~Passing(pfile[i])
  BY <1>1 DEF Passing, IsMessage
<1>8. /\ place + 1 \in DOMAIN pfile /\ IsMessage(pfile[place + 1]) /\ ~pfile[place + 1].z
      /\ place < i /\ (place + 1 = i \/ (place + 2 = i /\ ~IsUserMessage(pfile[i - 1])))
  <2>1. CASE ~pfile[i].z
    <3>1. place + 1 = i
      BY <1>1, <1>2, <2>1 DEF Place
    <3>2. QED
      BY <1>1, <2>1, <3>1
  <2>2. CASE pfile[i].z
    <3>1. place + 2 = i /\ i - 1 = place + 1
      BY <1>1, <1>2, <2>2 DEF Place
    <3>2. HasId(pfile[i - 1], StartCompressedSectionId)
      BY <1>1, <2>2 DEF Leads
    <3>3. ~pfile[i - 1].z
      BY <1>1, <2>2, <3>2, SectionCells
    <3>4. ~IsUserMessage(pfile[i - 1]) /\ IsMessage(pfile[i - 1])
      BY <3>2 DEF IsUserMessage, IsMessage, HasId, FixedIds
    <3>5. QED
      BY <1>1, <2>2, <3>1, <3>3, <3>4
  <2>3. QED
    BY <2>1, <2>2
<1>9. Faces(t)
  BY <1>4, <1>5, <1>8 DEF Faces
<1>10. Ahead(t, place)
  <2>1. SUFFICES ASSUME NEW k \in DOMAIN pfile, k > place, Passes(place, k - 1),
                        IsUserMessage(pfile[k])
                 PROVE  pfile[k].id \in DOMAIN t.pool.class
    BY DEF Ahead
  <2>2. k \in Nat
    BY CellIs
  <2>3. ASSUME k > i PROVE FALSE
    <3>1. i \in place + 1 .. k - 1
      BY <1>1, <1>8, <2>2, <2>3
    <3>2. QED
      BY <1>7, <2>1, <3>1 DEF Passes
  <2>4. k = i \/ k = i - 1
    BY <1>1, <1>8, <2>1, <2>2, <2>3
  <2>5. k = i
    BY <1>1, <1>8, <2>1, <2>4
  <2>6. QED
    BY <1>4, <2>1, <2>5
<1>11. Sound(r) /\ Keeps(t, r)
  BY <1>5, <1>6, <1>9, <1>10, ReadMessageWorks
<1>12. Took(r) /\ r.got = i
  BY <1>2, <1>11, ReadAtPlace DEF Sound
<1>13. QED
  BY <1>5, <1>11, <1>12, GrewTwice

\* All ProtoClasses and all messages of the client are in sections.
Packed ==
    \A i \in DOMAIN pfile :
        IsUserMessage(pfile[i]) \/ HasId(pfile[i], ProtoClassId) => pfile[i].z

LEMMA ReadProtoClassAtWorks ==
  ASSUME Nested = {}, FileRight(pfile), Serialized, Whole(pfile), Packed, NEW s, Sound(s),
         NEW b \in Nat,
         NEW d \in DefinitionCells, DefinesRight(pfile, b, d),
         Reported(s, Defining(pfile, b, d - 1)),
         NEW r, r = ReadProtoClassAt(s, Place(pfile, d))
  PROVE  Sound(r) /\ Grew(s, r) /\ Reported(r, {d})
<1>1. d \in DOMAIN pfile /\ HasId(pfile[d], ProtoClassId)
  BY DEF DefinitionCells
<1>2. d \in Leading /\ ~IsUserMessage(pfile[d]) /\ pfile[d].z
  BY <1>1, CellsLead DEF Packed, IsUserMessage, HasId, FixedIds
<1>3. PICK f : f = ReadAt(s, Place(pfile, d))
  OBVIOUS
<1>4. Sound(f) /\ Keeps(s, f) /\ Took(f) /\ f.got = d
  BY <1>2, <1>3, ReadAtWorks
<1>5. PICK q : q = ReportProtoClass(f, pfile[f.got].body)
  OBVIOUS
<1>6. Reported(f, Defining(pfile, b, d - 1))
  BY <1>4, GrewTwice
<1>7. Sound(q) /\ Grew(f, q) /\ Reported(q, {d})
  BY <1>4, <1>5, <1>6, ReportWorks
<1>8. q.pos = f.pos /\ q.zin = f.zin /\ q.got = f.got
  BY <1>4, <1>5, ReportReads DEF Sound
<1>9. Took(q) /\ q.zin # NoZlib
  BY <1>2, <1>4, <1>7, <1>8 DEF Took, Placed, At, Sound
<1>10. r = DropCompression(q)
  BY <1>3, <1>4, <1>5, <1>7 DEF ReadProtoClassAt, Then, Sound
<1>11. pfile[q.got].id # StreamFooterId
  BY <1>1, <1>4, <1>8, PyIdsDiffer DEF HasId
<1>12. Sound(r) /\ Keeps(q, r)
  BY <1>7, <1>9, <1>10, <1>11, DropWorks
<1>13. QED
  BY <1>4, <1>7, <1>12, GrewTwice

LEMMA ReadMetadataAtWorks ==
  ASSUME FileRight(pfile), Serialized, Whole(pfile), Packed, NEW s, Sound(s),
         NEW i \in MetadataCells,
         pfile[i].id \in DOMAIN s.pool.class, NEW r, r = ReadMetadataAt(s, Place(pfile, i))
  PROVE  Sound(r) /\ Keeps(s, r)
<1>1. i \in DOMAIN pfile /\ IsMetadata(pfile[i])
  BY DEF MetadataCells
<1>2. i \in Leading /\ pfile[i].z /\ IsMetadataId(pfile[i].id)
  BY <1>1, CellsLead DEF Packed, IsMetadata
<1>3. PICK f : f = ReadAt(s, Place(pfile, i))
  OBVIOUS
<1>4. Sound(f) /\ Keeps(s, f) /\ Took(f) /\ f.got = i
  BY <1>2, <1>3, ReadAtWorks
<1>5. PICK q : q = Entered(f, Place(pfile, i))
  OBVIOUS
<1>6. /\ Sound(q) /\ Keeps(f, q) /\ q.pos = f.pos /\ q.zin = f.zin /\ q.got = f.got
  BY <1>4, <1>5 DEF Entered, Sound, IsReader, Keeps
<1>7. Took(q) /\ q.zin # NoZlib
  BY <1>2, <1>4, <1>6 DEF Took, Placed, At, Sound
<1>8. r = DropCompression(q)
  BY <1>2, <1>3, <1>4, <1>5 DEF ReadMetadataAt, Then, Sound, Entered
<1>9. pfile[q.got].id # StreamFooterId
  BY <1>1, <1>4, <1>6 DEF IsMetadata, IsUserMessage, FixedIds
<1>10. Sound(r) /\ Keeps(q, r)
  BY <1>6, <1>7, <1>8, <1>9, DropWorks
<1>11. QED
  BY <1>4, <1>6, <1>10, GrewTwice

LEMMA PlacesRise ==
  ASSUME FileRight(pfile), NEW i \in Leading, NEW j \in Leading, i < j
  PROVE  Place(pfile, i) < Place(pfile, j)
<1>1. /\ i \in Nat /\ i >= 1 /\ j \in Nat /\ j >= 1 /\ j \in DOMAIN pfile
      /\ pfile[i].id \notin CompressionIds /\ Leads(pfile, j)
  BY LeadingIs
<1>2. CASE ~pfile[j].z
  BY <1>1, <1>2 DEF Place
<1>3. CASE pfile[j].z
  <2>1. pfile[j - 1].id \in CompressionIds
    BY <1>1, <1>3 DEF Leads, HasId, CompressionIds
  <2>2. i # j - 1
    BY <1>1, <2>1
  <2>3. i < j - 1
    BY <1>1, <2>2
  <2>4. QED
    BY <1>1, <1>3, <2>3 DEF Place
<1>4. QED
  BY <1>2, <1>3

\* The definitions of a stream, each behind those it builds on, and its metadata
LEMMA StreamDefines ==
  ASSUME FileRight(pfile), NEW b \in Nat, NEW e \in DOMAIN pfile, StreamTo(pfile, b, e)
  PROVE  /\ \A d \in Defining(pfile, b, e) :
               /\ d \in DefinitionCells /\ d \in Nat /\ d \in Leading /\ DefinesRight(pfile, b, d)
               /\ \A j \in Defining(pfile, b, d - 1) : j \in Defining(pfile, b, e) /\ j < d
         /\ \A j \in Applying(pfile, b, e) :
               /\ j \in MetadataCells /\ j \in Nat
               /\ \E d \in Defining(pfile, b, e) : pfile[d].body.class_id = pfile[j].id
<1>1. e \in Nat /\ \A k \in b + 1 .. e : k \in DOMAIN pfile /\ k \in Nat
  BY DEF FileRight
<1>2. ASSUME NEW d \in Defining(pfile, b, e)
      PROVE  /\ d \in DefinitionCells /\ d \in Nat /\ d \in Leading /\ DefinesRight(pfile, b, d)
             /\ \A j \in Defining(pfile, b, d - 1) : j \in Defining(pfile, b, e) /\ j < d
  <2>1. d \in b + 1 .. e /\ HasId(pfile[d], ProtoClassId)
    BY DEF Defining
  <2>2. CellRight(pfile, b, d) /\ d \in DOMAIN pfile /\ d \in Nat
    BY <1>1, <2>1 DEF StreamTo
  <2>3. DefinesRight(pfile, b, d)
    BY <2>1, <2>2 DEF CellRight
  <2>4. d \in Leading
    BY <2>1, <2>2, CellsLead
  <2>5. ASSUME NEW j \in Defining(pfile, b, d - 1) PROVE j \in Defining(pfile, b, e) /\ j < d
    BY <1>1, <2>1, <2>2 DEF Defining
  <2>6. QED
    BY <2>1, <2>2, <2>3, <2>4, <2>5 DEF DefinitionCells
<1>3. ASSUME NEW j \in Applying(pfile, b, e)
      PROVE  /\ j \in MetadataCells /\ j \in Nat
             /\ \E d \in Defining(pfile, b, e) : pfile[d].body.class_id = pfile[j].id
  <2>1. j \in b + 1 .. e /\ IsMetadata(pfile[j])
    BY DEF Applying
  <2>2. CellRight(pfile, b, j) /\ j \in DOMAIN pfile /\ j \in Nat
    BY <1>1, <2>1 DEF StreamTo
  <2>3. UsesRight(pfile, b, j)
    BY <2>1, <2>2 DEF CellRight, IsMetadata
  <2>4. PICK d \in Defining(pfile, b, j - 1) : pfile[d].body.class_id = pfile[j].id
    BY <2>3 DEF UsesRight
  <2>5. d \in Defining(pfile, b, e)
    BY <1>1, <2>1, <2>2 DEF Defining
  <2>6. QED
    BY <2>1, <2>2, <2>4, <2>5 DEF MetadataCells
<1>4. QED
  BY <1>2, <1>3

LEMMA ProcessFooterWorks ==
  ASSUME NEW s, Sound(s), NEW footer, NEW r, r = ProcessFooter(s, footer)
  PROVE  Sound(r) /\ Keeps(s, r)
BY DEF ProcessFooter, Sound, IsReader, Keeps

\* The definitions among the first n places of the list
FirstListed(D, b, ps, n) == {d \in D : \E k \in 1 .. n : b + ps[k] = Place(pfile, d)}

LEMMA ListedBefore ==
  ASSUME FileRight(pfile), NEW b \in Nat, NEW e \in DOMAIN pfile, StreamTo(pfile, b, e),
         NEW D, D = Defining(pfile, b, e), NEW ps \in Seq(Nat), Lists(ps, pfile, b, D),
         NEW n \in 1 .. Len(ps)
  PROVE  \E d \in D : /\ b + ps[n] = Place(pfile, d)
                      /\ Defining(pfile, b, d - 1) \subseteq FirstListed(D, b, ps, n - 1)
                      /\ FirstListed(D, b, ps, n) = FirstListed(D, b, ps, n - 1) \cup {d}
<1>1. ps[n] \in ToSet(ps) /\ ps[n] \in Nat /\ DOMAIN ps = 1 .. Len(ps) /\ n \in Nat
  BY DEF ToSet
<1>2. PICK d \in D : ps[n] = Place(pfile, d) - b
  BY <1>1 DEF Lists
<1>3. \A j \in D : j \in Leading /\ j \in Nat /\ Place(pfile, j) \in Int
  BY StreamDefines DEF Place
<1>4. b + ps[n] = Place(pfile, d)
  BY <1>1, <1>2, <1>3
<1>5. ASSUME NEW j \in Defining(pfile, b, d - 1) PROVE j \in FirstListed(D, b, ps, n - 1)
  <2>1. j \in D /\ j < d
    BY StreamDefines
  <2>2. Place(pfile, j) < Place(pfile, d)
    BY <1>3, <2>1, PlacesRise
  <2>3. Place(pfile, j) - b \in ToSet(ps)
    BY <2>1 DEF Lists
  <2>4. PICK k \in DOMAIN ps : ps[k] = Place(pfile, j) - b
    BY <2>3 DEF ToSet
  <2>5. k \in Nat /\ ps[k] \in Nat /\ b + ps[k] = Place(pfile, j) /\ ps[k] < ps[n]
    BY <1>1, <1>2, <1>3, <2>1, <2>2, <2>4
  <2>6. ~(n < k) /\ n # k
    BY <1>1, <2>5 DEF Lists, Ascending
  <2>7. k \in 1 .. n - 1
    BY <1>1, <2>4, <2>5, <2>6
  <2>8. QED
    BY <2>1, <2>5, <2>7 DEF FirstListed
<1>6. FirstListed(D, b, ps, n) = FirstListed(D, b, ps, n - 1) \cup {d}
  <2>1. \A k \in 1 .. n : k \in 1 .. n - 1 \/ k = n
    BY <1>1
  <2>2. \A k \in 1 .. n - 1 : k \in 1 .. n
    BY <1>1
  <2>3. n \in 1 .. n
    BY <1>1
  <2>4. \A j \in D : Place(pfile, j) = Place(pfile, d) => j = d
    BY <1>3, PlacesDiffer
  <2>5. QED
    BY <1>4, <2>1, <2>2, <2>3, <2>4 DEF FirstListed
<1>7. QED
  BY <1>4, <1>5, <1>6

LEMMA ListedAll ==
  ASSUME NEW b \in Nat, NEW D, \A j \in D : j \in Nat, NEW ps \in Seq(Nat),
         Lists(ps, pfile, b, D)
  PROVE  FirstListed(D, b, ps, Len(ps)) = D
<1>1. ASSUME NEW d \in D PROVE \E k \in 1 .. Len(ps) : b + ps[k] = Place(pfile, d)
  <2>1. Place(pfile, d) - b \in ToSet(ps)
    BY DEF Lists
  <2>2. PICK k \in DOMAIN ps : ps[k] = Place(pfile, d) - b
    BY <2>1 DEF ToSet
  <2>3. Place(pfile, d) \in Int
    BY DEF Place
  <2>4. QED
    BY <2>2, <2>3
<1>2. QED
  BY <1>1 DEF FirstListed

LEMMA ReadPlacesWorks ==
  ASSUME Nested = {}, FileRight(pfile), Serialized, Whole(pfile), Packed, NEW f, Sound(f),
         NEW b \in Nat,
         f.got \in DOMAIN pfile, StreamTo(pfile, b, f.got), SummaryRight(pfile, b, f.got),
         NEW start, start = f.got - 1, NEW r, r = ReadPlaces(f, start)
  PROVE  Sound(r) /\ Grew(f, r)
<1> DEFINE ps == Definitions(f)
           ms == Metadata(f)
           c == start - pfile[f.got].body.size
           p == ProcessFooter(f, pfile[f.got].body)
           D == Defining(pfile, b, f.got)
           M == Applying(pfile, b, f.got)
<1>1. /\ ps = pfile[f.got].body.protoclass_offsets /\ ms = pfile[f.got].body.metadata_offsets
      /\ Len(ps) \in Nat /\ Len(ms) \in Nat
  BY FooterLists
<1>2. /\ f.got \in Nat /\ pfile[f.got].body.size = f.got - 1 - b
      /\ Lists(ps, pfile, b, D) /\ ps \in Seq(Nat)
      /\ Lists(ms, pfile, b, M) /\ ms \in Seq(Nat)
  BY <1>1, CellIs DEF SummaryRight
<1>3. c = b
  BY <1>2
<1>4. PICK reported, read : PlacesRead(f, c, reported, read, r)
  BY <1>1, ReadPlacesSteps
<1>5. /\ reported[0] = p
      /\ \A n \in 1 .. Len(ps) : reported[n] = ReadProtoClassAt(reported[n - 1], b + ps[n])
      /\ read[0] = reported[Len(ps)]
      /\ \A n \in 1 .. Len(ms) : read[n] = ReadMetadataAt(read[n - 1], b + ms[n])
      /\ r = read[Len(ms)]
  BY <1>3, <1>4 DEF PlacesRead
<1>6. Sound(p) /\ Grew(f, p)
  BY ProcessFooterWorks, GrewTwice
<1>7. \A d \in D : d \in DefinitionCells /\ d \in Nat /\ DefinesRight(pfile, b, d)
  BY StreamDefines
<1>8. ASSUME NEW n \in 1 .. Len(ps)
      PROVE  \E d \in D : /\ b + ps[n] = Place(pfile, d)
                          /\ Defining(pfile, b, d - 1) \subseteq FirstListed(D, b, ps, n - 1)
                          /\ FirstListed(D, b, ps, n) = FirstListed(D, b, ps, n - 1) \cup {d}
  BY <1>2, <1>8, ListedBefore
<1>9. ASSUME NEW n \in 1 .. Len(ms)
      PROVE  \E j \in M : b + ms[n] = Place(pfile, j)
  <2>1. ms[n] \in ToSet(ms) /\ ms[n] \in Nat
    BY <1>2, <1>9 DEF ToSet
  <2>2. PICK j \in M : ms[n] = Place(pfile, j) - b
    BY <1>2, <2>1 DEF Lists
  <2>3. Place(pfile, j) \in Int
    BY StreamDefines DEF Place
  <2>4. QED
    BY <2>2, <2>3
<1>10. FirstListed(D, b, ps, Len(ps)) = D
  BY <1>2, <1>7, ListedAll
<1> HIDE DEF ps, ms, c, p
<1> DEFINE Going1(x, n) == Sound(x) /\ Grew(f, x) /\ Reported(x, FirstListed(D, b, ps, n))
           first == {n \in 0 .. Len(ps) : Going1(reported[n], n)}
           Going2(x) == Sound(x) /\ Grew(f, x) /\ Reported(x, D)
           then == {n \in 0 .. Len(ms) : Going2(read[n])}
<1>11. Len(ps) \in first
  <2>1. 0 \in first
    <3>1. FirstListed(D, b, ps, 0) = {}
      BY DEF FirstListed
    <3>2. Reported(p, {})
      BY DEF Reported
    <3>3. PICK x : x = reported[0]
      OBVIOUS
    <3>4. x = p
      BY <1>5, <3>3
    <3>5. Going1(x, 0)
      BY <1>6, <3>1, <3>2, <3>4
    <3>6. 0 \in 0 .. Len(ps)
      BY <1>1
    <3>7. QED
      BY <3>3, <3>5, <3>6
  <2>2. ASSUME NEW n \in 0 + 1 .. Len(ps), n - 1 \in first PROVE n \in first
    <3>1. n \in 1 .. Len(ps) /\ n \in 0 .. Len(ps)
      BY <1>1, <2>2
    <3>2. PICK x : x = reported[n - 1]
      OBVIOUS
    <3>3. PICK y : y = reported[n]
      OBVIOUS
    <3>4. Going1(x, n - 1) /\ y = ReadProtoClassAt(x, b + ps[n])
      BY <1>5, <2>2, <3>1, <3>2, <3>3
    <3>5. PICK d \in D : /\ b + ps[n] = Place(pfile, d)
                         /\ Defining(pfile, b, d - 1) \subseteq FirstListed(D, b, ps, n - 1)
                         /\ FirstListed(D, b, ps, n) = FirstListed(D, b, ps, n - 1) \cup {d}
      BY <1>8, <3>1
    <3>6. Reported(x, Defining(pfile, b, d - 1))
      BY <3>4, <3>5 DEF Reported
    <3>7. Sound(y) /\ Grew(x, y) /\ Reported(y, {d})
      BY <1>7, <3>4, <3>5, <3>6, ReadProtoClassAtWorks
    <3>8. Reported(y, FirstListed(D, b, ps, n - 1)) /\ Grew(f, y)
      BY <3>4, <3>7 DEF Grew, Reported
    <3>9. Reported(y, FirstListed(D, b, ps, n))
      BY <3>5, <3>7, <3>8 DEF Reported
    <3>10. QED
      BY <3>1, <3>3, <3>7, <3>8, <3>9
  <2> HIDE DEF first
  <2>3. \A n \in 0 .. Len(ps) : n \in first
    BY <1>1, <2>1, <2>2, NumberByNumber
  <2>4. QED
    BY <1>1, <2>3
<1>12. Len(ms) \in then
  <2>1. 0 \in then
    BY <1>1, <1>5, <1>10, <1>11
  <2>2. ASSUME NEW n \in 0 + 1 .. Len(ms), n - 1 \in then PROVE n \in then
    <3>1. n \in 1 .. Len(ms) /\ n \in 0 .. Len(ms)
      BY <1>1, <2>2
    <3>2. PICK x : x = read[n - 1]
      OBVIOUS
    <3>3. PICK y : y = read[n]
      OBVIOUS
    <3>4. Going2(x) /\ y = ReadMetadataAt(x, b + ms[n])
      BY <1>5, <2>2, <3>1, <3>2, <3>3
    <3>5. PICK j \in M : b + ms[n] = Place(pfile, j)
      BY <1>9, <3>1
    <3>6. j \in MetadataCells /\ \E d \in D : pfile[d].body.class_id = pfile[j].id
      BY StreamDefines
    <3>7. pfile[j].id \in DOMAIN x.pool.class
      BY <3>4, <3>6 DEF Reported
    <3>8. Sound(y) /\ Keeps(x, y)
      BY <3>4, <3>5, <3>6, <3>7, ReadMetadataAtWorks
    <3>9. Grew(f, y) /\ Reported(y, D)
      BY <3>4, <3>8 DEF Grew, Keeps, Reported
    <3>10. QED
      BY <3>1, <3>3, <3>8, <3>9
  <2> HIDE DEF then
  <2>3. \A n \in 0 .. Len(ms) : n \in then
    BY <1>1, <2>1, <2>2, NumberByNumber
  <2>4. QED
    BY <1>1, <2>3
<1>13. QED
  BY <1>5, <1>12

LEMMA ReadHeaderWorks ==
  ASSUME FileRight(pfile), Serialized, Whole(pfile), NEW s, Sound(s), s.pos \in Nat,
         s.zin = NoZlib,
         s.pos + 1 \in DOMAIN pfile, pfile[s.pos + 1].kind = "START_MAGIC",
         NEW r, r = ReadHeader(s)
  PROVE  Sound(r) /\ Keeps(s, r)
<1>1. PyFileEnd \in Nat /\ DOMAIN pfile = 1 .. PyFileEnd
  BY DEF FileRight, PyFileEnd
<1>2. s.pos < PyFileEnd /\ IsReader(s) /\ s.status = "ok"
  BY <1>1 DEF Sound
<1>3. PICK k : k = SkipMark(s)
  OBVIOUS
<1>4. /\ Reads(s, k) /\ k.zin = NoZlib /\ k.status = s.status /\ k.closed = s.closed
      /\ k.pos = s.pos + 1 /\ k.pool = s.pool
  BY <1>2, <1>3, SkipReads
<1>5. Sound(k) /\ Keeps(s, k) /\ Placed(k) /\ At(k) = s.pos + 1
  <2>1. NoZlib \in [tell : Nat, next : Nat]
    BY DEF NoZlib
  <2>2. QED
    BY <1>4, <2>1 DEF Sound, Keeps, Reads, Scans, Placed, At
<1>6. PICK m \in Nat : m = s.pos + 1
  OBVIOUS
<1>7. m + 1 \in DOMAIN pfile /\ IsMessage(pfile[m + 1]) /\ ~pfile[m + 1].z
  <2>1. m \in DOMAIN pfile /\ pfile[m].kind = "START_MAGIC" /\ ~IsMessage(pfile[m])
    BY <1>6 DEF IsMessage
  <2>2. QED
    BY <2>1, MessageNext DEF Opens
<1>8. HasId(pfile[m + 1], StreamHeaderId)
  BY <1>6, <1>7, NextCell DEF IsMessage
<1>9. ~IsUserMessage(pfile[m + 1]) /\ pfile[m + 1].id \notin CompressionIds
  BY <1>8, WireAssumption DEF HasId, IsUserMessage, FixedIds, CompressionIds, StreamHeaderId,
     StartCompressedSectionId, EndCompressedSectionId
<1>10. Faces(k)
  BY <1>4, <1>5, <1>6, <1>7 DEF Faces
<1>11. Ahead(k, m)
  BY <1>7, <1>9, NoPassing DEF Ahead
<1>12. PICK t : t = ReadMessage(k)
  OBVIOUS
<1>13. Sound(t) /\ Keeps(k, t)
  BY <1>5, <1>6, <1>10, <1>11, <1>12, ReadMessageWorks
<1>14. r = Headed(t, s.pos + MagicLen)
  BY <1>2, <1>3, <1>12, <1>13 DEF ReadHeader, AtMark, Then, Headed, Sound
<1>15. Sound(r) /\ Keeps(t, r)
  <2>1. /\ Sized(t, r) /\ r.status = t.status /\ r.closed = t.closed /\ r.pool = t.pool
    BY <1>13, <1>14, HeadedScans DEF Sound
  <2>2. QED
    BY <1>13, <2>1 DEF Sound, Keeps, Sized, Scans
<1>16. QED
  BY <1>5, <1>13, <1>15, GrewTwice

LEMMA ReadFooterWorks ==
  ASSUME Nested = {}, FileRight(pfile), Serialized, Whole(pfile), Packed, NEW s, Sound(s),
         s.size \in Nat,
         Closes(s.size), NEW r, r = ReadFooter(s, s.size)
  PROVE  Sound(r) /\ Grew(s, r)
<1>1. PICK b \in Nat, e \in DOMAIN pfile :
            /\ e = PyFileEnd - s.size /\ b + 4 < e /\ e \in Nat /\ StreamTo(pfile, b, e)
            /\ HasId(pfile[e - 2], StreamFooterId) /\ SummaryRight(pfile, b, e - 2)
            /\ ((PyFileEnd - s.size - MagicLen) - FooterSizeLen) - FooterLen = e - 3
  BY FooterFound DEF Sound
<1>2. PICK i : i = e - 2
  OBVIOUS
<1>3. i \in Nat /\ i >= 1 /\ i \in DOMAIN pfile /\ i - 1 = e - 3
  <2>1. b \in Nat /\ e \in Nat /\ b + 4 < e /\ e \in DOMAIN pfile
    BY <1>1
  <2>2. pfile \in Seq(PyCell)
    BY DEF FileRight
  <2>3. Len(pfile) \in Nat /\ DOMAIN pfile = 1 .. Len(pfile)
    BY <2>2
  <2>4. QED
    BY <1>2, <2>1, <2>3
<1>4. /\ ~pfile[i].z /\ IsMessage(pfile[i]) /\ pfile[i].id \notin CompressionIds
      /\ ~IsUserMessage(pfile[i])
  BY <1>1, <1>2, <1>3, SectionCells, WireAssumption
     DEF HasId, IsUserMessage, IsMessage, FixedIds, CompressionIds, StreamFooterId,
     StartCompressedSectionId, EndCompressedSectionId
<1>5. i \in Leading /\ Place(pfile, i) = e - 3
  BY <1>3, <1>4 DEF Leading, Leads, Place
<1>6. PICK f : f = ReadAt(s, Place(pfile, i))
  OBVIOUS
<1>7. Sound(f) /\ Keeps(s, f) /\ f.got = i
  BY <1>4, <1>5, <1>6, ReadAtWorks
<1>8. r = ReadPlaces(f, e - 3)
  BY <1>1, <1>5, <1>6, <1>7 DEF ReadFooter, Then, Sound
<1>9. StreamTo(pfile, b, i)
  BY <1>1, <1>2 DEF StreamTo
<1>10. Sound(r) /\ Grew(f, r)
  BY <1>1, <1>2, <1>3, <1>7, <1>8, <1>9, ReadPlacesWorks
<1>11. QED
  BY <1>7, <1>10, GrewTwice

LEMMA RoundWorks ==
  ASSUME Nested = {}, FileRight(pfile), Serialized, Whole(pfile), Packed, NEW s,
         ScanRight(s), Sound(s),
         NEW r, r = ScanOnce(s)
  PROVE  Sound(r) /\ Grew(s, r) /\ ScanRight(r)
<1>1. PyFileEnd \in Nat /\ DOMAIN pfile = 1 .. PyFileEnd /\ s.size \in Nat
      /\ s.size <= PyFileEnd /\ IsReader(s) /\ Keyed(s) /\ s.status = "ok"
  BY DEF FileRight, PyFileEnd, ScanRight, Sound
<1>2. CASE ~Closes(s.size)
  <2>1. r = s
    BY <1>2 DEF ScanOnce
  <2>2. QED
    BY <2>1, GrewTwice
<1>3. CASE Closes(s.size)
  <2> DEFINE f == ReadFooter(s, s.size)
             t == [f EXCEPT !.pos = PyFileEnd - f.size, !.zin = NoZlib]
             h == ReadHeader(t)
  <2>1. Sound(f) /\ Grew(s, f)
    BY <1>1, <1>3, ReadFooterWorks
  <2>2. f.status = "ok" /\ IsReader(f)
    BY <2>1 DEF Sound
  <2>3. r = h
    BY <1>1, <1>3, <2>2 DEF ScanOnce, Then, HeaderBehind
  <2>4. PICK b, e : EndsAt(b, e) /\ e = PyFileEnd - s.size /\ Footered(s, b, e, f)
    BY <1>1, <1>3, <2>2, ReadFooterFinds
  <2>5. t = Sought(f, PyFileEnd - f.size, NoZlib)
    BY DEF Sought
  <2>6. b \in Nat /\ e \in Nat /\ b + 4 < e /\ StreamTo(pfile, b, e) /\ e <= PyFileEnd
    BY <1>1, <2>4 DEF EndsAt
  <2>7. e - 5 \notin s.footers
    <3>1. s.footers = {i - 3 : i \in FootersBehind(e)}
      BY <2>4 DEF ScanRight
    <3>2. e - 2 \notin FootersBehind(e)
      BY <2>4, FootersDown
    <3>3. \A i \in FootersBehind(e) : i \in Nat
      BY CellIs DEF FootersBehind, FooterCells
    <3>4. ASSUME NEW i \in FootersBehind(e), i - 3 = e - 5 PROVE FALSE
      <4>1. i = e - 2
        BY <2>6, <3>3, <3>4
      <4>2. QED
        BY <3>2, <3>4, <4>1
    <3>5. QED
      BY <3>1, <3>4
  <2>8. PyFileEnd - f.size = b
    <3>1. f.size = s.size + (e - b)
      BY <2>4, <2>7 DEF Footered
    <3>2. QED
      BY <1>1, <2>4, <2>6, <3>1
  <2> HIDE DEF f
  <2>9. /\ Reads(f, t) /\ IsReader(t) /\ t.pos = b /\ t.zin = NoZlib
        /\ t.status = f.status /\ t.closed = f.closed /\ t.pool = f.pool
    BY <2>2, <2>5, <2>8, SeekReads
  <2>10. Sound(t) /\ Keeps(f, t)
    BY <2>1, <2>9 DEF Sound, Keeps, Reads, Scans
  <2> HIDE DEF t
  <2>11. b + 1 \in DOMAIN pfile /\ pfile[b + 1].kind = "START_MAGIC"
    BY <1>1, <2>6 DEF StreamTo, CellRight
  <2>12. Sound(r) /\ Keeps(t, r)
    BY <2>3, <2>6, <2>9, <2>10, <2>11, ReadHeaderWorks
  <2>13. Grew(s, r)
    BY <2>1, <2>10, <2>12, GrewTwice
  <2>14. s.size # PyFileEnd
    BY <1>1, <2>4, <2>6
  <2>15. ScanRight(r)
    BY <1>1, <2>12, <2>14, RoundFinds DEF Sound
  <2>16. QED
    BY <2>12, <2>13, <2>15
<1>4. QED
  BY <1>2, <1>3

LEMMA ReadFootersWorks ==
  ASSUME Nested = {}, FileRight(pfile), Serialized, Whole(pfile), Packed, NEW s, Blank(s),
         Sound(s),
         NEW r, r = ReadFooters(s)
  PROVE  Sound(r) /\ Grew(s, r)
<1>1. PICK scan : /\ scan[0] = s
                  /\ \A n \in 1 .. PyFileEnd : scan[n] = ScanOnce(scan[n - 1])
                  /\ r = IF /\ scan[PyFileEnd].status = "ok"
                            /\ scan[PyFileEnd].size < PyFileEnd
                         THEN [scan[PyFileEnd] EXCEPT !.pos = 0]
                         ELSE scan[PyFileEnd]
  BY ReadFootersSteps
<1>2. PyFileEnd \in Nat
  BY DEF FileRight, PyFileEnd
<1> DEFINE Good(x) == Sound(x) /\ Grew(s, x) /\ ScanRight(x)
           right == {n \in 0 .. PyFileEnd : Good(scan[n])}
<1>3. 0 \in right
  <2>1. Good(s)
    BY ScanBegins, GrewTwice DEF Sound
  <2>2. QED
    BY <1>1, <1>2, <2>1
<1>4. ASSUME NEW n \in 0 + 1 .. PyFileEnd, n - 1 \in right PROVE n \in right
  <2>1. n \in 1 .. PyFileEnd /\ n \in 0 .. PyFileEnd /\ scan[n] = ScanOnce(scan[n - 1])
    BY <1>1, <1>2
  <2>2. PICK x : x = scan[n - 1]
    OBVIOUS
  <2>3. PICK y : y = scan[n]
    OBVIOUS
  <2>4. y = ScanOnce(x) /\ Good(x)
    BY <1>4, <2>1, <2>2, <2>3
  <2>5. Good(y)
    BY <2>4, RoundWorks, GrewTwice
  <2>6. QED
    BY <2>1, <2>3, <2>5
<1> HIDE DEF right
<1>5. \A n \in 0 .. PyFileEnd : n \in right
  BY <1>2, <1>3, <1>4, NumberByNumber
<1>6. PICK last : last = scan[PyFileEnd]
  OBVIOUS
<1>7. Good(last)
  BY <1>2, <1>5, <1>6 DEF right
<1>8. r = [last EXCEPT !.pos = 0] \/ r = last
  BY <1>1, <1>6
<1>9. Sound(r) /\ Keeps(last, r)
  BY <1>7, <1>8 DEF Sound, IsReader, Keeps
<1>10. QED
  BY <1>7, <1>9, GrewTwice

LEMMA ReadAllWorks ==
  ASSUME Nested = {}, FileRight(pfile), Serialized, Whole(pfile), Packed, NEW s, Sound(s),
         NEW r, r = ReadAllMetaInfo(s)
  PROVE  Sound(r) /\ Grew(s, r)
<1> DEFINE t == [s EXCEPT !.all_meta = TRUE, !.zin = NoZlib, !.headers = << >>,
                          !.footers = {}, !.metadata = << >>, !.size = 0]
           l == ReadFooters(t)
           e == Fail(l, "ValueError")
           b == [l EXCEPT !.pos = s.pos, !.zin = s.zin, !.got = s.got]
<1>1. r = IF s.all_meta THEN s ELSE IF l.status = "ok" THEN IF l.closed THEN e ELSE b ELSE l
  BY DEF ReadAllMetaInfo, Then
<1>2. PICK u : u = t
  OBVIOUS
<1>3. Sound(u) /\ Keeps(s, u) /\ Blank(u)
  BY <1>2 DEF Sound, IsReader, Blank, Keeps
<1>4. l = ReadFooters(u)
  BY <1>2
<1> HIDE DEF l, t
<1>5. Sound(l) /\ Grew(u, l)
  BY <1>3, <1>4, ReadFootersWorks
<1>6. CASE s.all_meta
  BY <1>1, <1>6, GrewTwice
<1>7. CASE ~s.all_meta
  <2>1. r = b
    BY <1>1, <1>5, <1>7 DEF Sound
  <2>2. Sound(r) /\ Keeps(l, r)
    BY <1>5, <2>1 DEF Sound, IsReader, Keeps
  <2>3. QED
    BY <1>3, <1>5, <2>2, GrewTwice
<1>8. QED
  BY <1>6, <1>7

\* A file the reader may scan in a loop has its messages in sections.
Scannable == FileRight(pfile) /\ Whole(pfile) /\ Serialized /\ (Backward(pfile) => Packed)

LEMMA FindCurrentWorks ==
  ASSUME Nested = {}, Scannable, NEW s, Sound(s), Keyed(s), Tell(s) \in Nat,
         DOMAIN s.headers # {}, NEW r, r = FindCurrentMetadata(s)
  PROVE  Sound(r) /\ Grew(s, r)
<1> USE DEF Scannable
<1> DEFINE m == MetadataAt(s, Tell(s))
           c == [m EXCEPT !.current_metadata = m.found]
           a == ReadAllMetaInfo(s)
           Found(t, x) == [t EXCEPT !.found = x]
           H == HeaderAt(s, Tell(s))
<1>1. r = IF m.status = "ok" THEN c ELSE m
  BY DEF FindCurrentMetadata, Then
<1>2. \/ RefersForward(H) /\ \E x : m = Found(s, x)
      \/ /\ ~RefersForward(H)
         /\ m = IF a.status = "ok" THEN Found(a, Upcoming(a, Tell(s))) ELSE a
  BY DEF MetadataAt, Then, RefersForward, Upcoming
<1> HIDE DEF m
<1>3. H \in HeaderCells
  BY HeaderIs
<1> HIDE DEF H
<1>4. ASSUME NEW t, NEW x, Sound(t), Grew(s, t), m = Found(t, x) PROVE Sound(r) /\ Grew(s, r)
  <2>1. Sound(m) /\ Keeps(t, m)
    BY <1>4 DEF Sound, IsReader, Keeps
  <2>2. r = c
    BY <1>1, <2>1 DEF Sound
  <2>3. Sound(r) /\ Keeps(m, r)
    BY <2>1, <2>2 DEF Sound, IsReader, Keeps
  <2>4. QED
    BY <1>4, <2>1, <2>3, GrewTwice
<1> HIDE DEF Found, c
<1>5. CASE RefersForward(H)
  <2>1. PICK x : m = Found(s, x)
    BY <1>2, <1>5
  <2>2. QED
    BY <1>4, <2>1, GrewTwice
<1>6. CASE ~RefersForward(H)
  <2>1. Backward(pfile)
    BY <1>3, <1>6 DEF Backward, HeaderCells, RefersForward
  <2>2. Sound(a) /\ Grew(s, a)
    BY <2>1, ReadAllWorks
  <2>3. m = Found(a, Upcoming(a, Tell(s)))
    BY <1>2, <1>6, <2>2 DEF Sound
  <2> HIDE DEF a
  <2>4. QED
    BY <1>4, <2>2, <2>3
<1>7. QED
  BY <1>5, <1>6

\* Behind a message of the client, the header of its stream is known.
LEMMA HeadersKnown ==
  ASSUME FileRight(pfile), NEW i \in DOMAIN pfile, IsUserMessage(pfile[i]),
         NEW s, Explored(s, i)
  PROVE  Keyed(s) /\ DOMAIN s.headers # {}
<1>1. PICK b \in Nat : b + 2 < i /\ StreamTo(pfile, b, i)
  BY HeaderOver
<1>2. i \in Nat
  BY CellNumbers
<1>3. b + 2 \in HeaderCells /\ b + 2 <= i
  BY <1>1, <1>2, HeadingIs DEF Heading
<1>4. QED
  BY <1>3 DEF Explored, Discovered, Met

LEMMA SkipWorks ==
  ASSUME NEW s, Sound(s), NEW r, r = SkipMark(s)
  PROVE  Sound(r) /\ Keeps(s, r)
BY SkipReads DEF Sound, Keeps, Reads, Scans

LEMMA StopWorks ==
  ASSUME NEW s, Sound(s), NEW r, r = StopIteration(s)
  PROVE  Sound(r) /\ Keeps(s, r)
BY DEF StopIteration, Sound, IsReader, Keeps

LEMMA AfterFooterWorks ==
  ASSUME FileRight(pfile), Whole(pfile), NEW s, Sound(s), s.zin = NoZlib, s.pos = s.got,
         s.got \in FooterCells, NEW r, r = AfterFooter(s)
  PROVE  Sound(r) /\ Keeps(s, r)
<1> DEFINE e == SkipMark(s)
           d == SkipMark(e)
           n == [d EXCEPT !.current_metadata = None, !.metadata_change = TRUE]
           f == SkipMark(n)
           u == [StopIteration(d) EXCEPT !.unclosed = TRUE]
<1>1. r = IF s.pos >= PyFileEnd THEN Fail(s, "struct.error")
          ELSE IF ~AtMark(e, "END_MAGIC") THEN u
          ELSE IF AtMark(n, "START_MAGIC") THEN f ELSE StopIteration(f)
  BY DEF AfterFooter
<1>2. PyFileEnd \in Nat /\ DOMAIN pfile = 1 .. PyFileEnd /\ s.got \in Nat
  BY CellIs DEF FileRight, PyFileEnd, FooterCells
<1>3. /\ s.got + 1 \in DOMAIN pfile /\ s.got + 2 \in DOMAIN pfile
      /\ pfile[s.got + 2].kind = "END_MAGIC"
  BY FooterBehind
<1>4. s.got + 1 < PyFileEnd /\ s.got < PyFileEnd /\ (s.got + 1) + 1 = s.got + 2
      /\ ~(s.pos >= PyFileEnd)
  BY <1>2, <1>3
<1>5. Sound(e) /\ Keeps(s, e)
  BY SkipWorks
<1>6. e.pos = s.got + 1
  BY <1>4, SkipReads DEF Sound
<1> HIDE DEF e
<1>7. AtMark(e, "END_MAGIC")
  BY <1>3, <1>4, <1>6 DEF AtMark
<1>8. Sound(d) /\ Keeps(e, d)
  BY <1>5, SkipWorks
<1> HIDE DEF d
<1>9. PICK m : m = n
  OBVIOUS
<1>10. Sound(m) /\ Keeps(d, m)
  BY <1>8, <1>9 DEF Sound, IsReader, Keeps
<1>11. f = SkipMark(m) /\ r \in {f, StopIteration(f)}
  BY <1>1, <1>4, <1>7, <1>9
<1> HIDE DEF f, n, u
<1>12. Sound(f) /\ Keeps(m, f)
  BY <1>10, <1>11, SkipWorks
<1>13. Sound(r) /\ Keeps(f, r)
  BY <1>11, <1>12, StopWorks, GrewTwice
<1>14. Keeps(s, d) /\ Keeps(s, m) /\ Keeps(s, f)
  BY <1>5, <1>8, <1>10, <1>12 DEF Keeps
<1>15. QED
  BY <1>13, <1>14, GrewTwice

\* The definitions up to m
DefinitionsTo(m) == {d \in DefinitionCells : d <= m}

\* The reader can go on: what comes next is a message, and what it builds on was reported.
Continues(s) ==
    Sound(s) /\ (~s.eof => Faces(s) /\ Reported(s, DefinitionsTo(At(s))))

\* Behind a message that does not end its stream or section
LEMMA FacesBehind ==
  ASSUME FileRight(pfile), Whole(pfile), NEW s, Took(s), pfile[s.got].id # StreamFooterId,
         pfile[s.got].id \notin CompressionIds,
         NEW h, IsReader(h), h.pos = s.pos, h.zin = s.zin
  PROVE  Faces(h) /\ At(h) = s.got
<1>1. /\ Placed(s) /\ At(s) = s.got /\ s.got \in DOMAIN pfile /\ IsMessage(pfile[s.got])
      /\ s.zin # NoZlib <=> pfile[s.got].z
  BY DEF Took
<1>2. At(h) = s.got /\ Placed(h)
  BY <1>1 DEF At, Placed
<1>3. pfile[s.got].id # EndCompressedSectionId /\ pfile[s.got].id # StartCompressedSectionId
  BY DEF CompressionIds
<1>4. /\ s.got + 1 \in DOMAIN pfile /\ IsMessage(pfile[s.got + 1])
      /\ pfile[s.got + 1].z <=> Opens(pfile[s.got])
  BY <1>1, <1>3, MessageNext
<1>5. Opens(pfile[s.got]) <=> pfile[s.got].z
  BY <1>1, <1>3 DEF Opens
<1>6. QED
  BY <1>1, <1>2, <1>4, <1>5 DEF Faces

LEMMA DefinitionsOn ==
  ASSUME FileRight(pfile), NEW m \in Nat, NEW n \in Nat,
         \A d \in DefinitionCells : d > m => d > n,
         NEW s, NEW r, Grew(s, r), Reported(s, DefinitionsTo(m))
  PROVE  Reported(r, DefinitionsTo(n))
<1>1. \A d \in DefinitionCells : d \in Nat
  BY CellIs DEF DefinitionCells
<1>2. DefinitionsTo(n) \subseteq DefinitionsTo(m)
  BY <1>1 DEF DefinitionsTo
<1>3. QED
  BY <1>2 DEF Reported, Grew

LEMMA FooterWorks ==
  ASSUME Scannable, NEW s, Took(s), Sound(s), ~s.eof, s.got \in FooterCells,
         Reported(s, DefinitionsTo(s.got - 1)),
         NEW h, h = AfterFooter(ProcessFooter(s, pfile[s.got].body))
  PROVE  Continues(h)
<1> USE DEF Scannable
<1>1. /\ s.got \in DOMAIN pfile /\ s.got \in Nat /\ s.got >= 1 /\ At(s) = s.got
      /\ HasId(pfile[s.got], StreamFooterId) /\ IsReader(s)
  BY CellIs DEF Took, FooterCells, Sound
<1>2. ~pfile[s.got].z
  BY <1>1, SectionCells
<1>3. s.zin = NoZlib /\ s.pos = s.got
  BY <1>1, <1>2 DEF Took, At
<1>4. PICK p : p = ProcessFooter(s, pfile[s.got].body)
  OBVIOUS
<1>5. Sound(p) /\ Keeps(s, p)
  BY <1>4, ProcessFooterWorks
<1>6. p.pos = s.got /\ p.zin = NoZlib /\ p.got = s.got /\ ~p.eof
  BY <1>1, <1>3, <1>4, ProcessFooterScans DEF Scans
<1>7. h = AfterFooter(p)
  BY <1>4
<1>8. Sound(h) /\ Keeps(p, h)
  BY <1>5, <1>6, <1>7, AfterFooterWorks
<1>9. Grew(s, h)
  BY <1>5, <1>8, GrewTwice
<1>10. ASSUME ~h.eof PROVE Faces(h) /\ Reported(h, DefinitionsTo(At(h)))
  <2>1. /\ h.pos = s.got + 3 /\ h.pos \in DOMAIN pfile /\ pfile[h.pos].kind = "START_MAGIC"
        /\ h.zin = NoZlib /\ pfile[s.got + 2].kind = "END_MAGIC"
    BY <1>1, <1>5, <1>6, <1>7, <1>8, <1>10, AfterFooterIs DEF Sound
  <2>2. At(h) = s.got + 3 /\ Placed(h)
    <3>1. NoZlib \in [tell : Nat, next : Nat] /\ h.pos \in Nat
      BY <1>1, <2>1 DEF NoZlib
    <3>2. QED
      BY <1>8, <2>1, <3>1 DEF At, Placed, Sound
  <2>3. /\ h.pos + 1 \in DOMAIN pfile /\ IsMessage(pfile[h.pos + 1]) /\ ~pfile[h.pos + 1].z
    BY <2>1, MessageNext DEF Opens, IsMessage
  <2>4. Faces(h)
    BY <2>1, <2>2, <2>3 DEF Faces
  <2>5. pfile[s.got + 1].kind = "FooterSize"
    BY FooterBehind
  <2>6. ASSUME NEW d \in DefinitionCells, d > s.got - 1 PROVE d > s.got + 3
    <3>1. d \in Nat /\ HasId(pfile[d], ProtoClassId)
      BY CellIs DEF DefinitionCells
    <3>2. d # s.got
      BY <1>1, <3>1, PyIdsDiffer DEF HasId
    <3>3. d # s.got + 1 /\ d # s.got + 2 /\ d # s.got + 3
      BY <2>1, <2>5, <3>1 DEF HasId
    <3>4. QED
      BY <1>1, <2>6, <3>1, <3>2, <3>3
  <2>7. s.got - 1 \in Nat /\ s.got + 3 \in Nat
    BY <1>1
  <2>8. QED
    BY <1>9, <2>2, <2>4, <2>6, <2>7, DefinitionsOn
<1>11. QED
  BY <1>8, <1>10 DEF Continues

LEMMA HandleWorks ==
  ASSUME Nested = {}, Scannable, NEW s, Took(s), Sound(s), ~s.eof,
         pfile[s.got].id \notin CompressionIds, Explored(s, s.got - 1),
         Reported(s, DefinitionsTo(s.got - 1)), NEW h, h = Handle(s)
  PROVE  Continues(h)
<1> USE DEF Scannable
<1>0. /\ IsReader(s) /\ IsMessage(pfile[s.got]) /\ s.got \in DOMAIN pfile /\ s.got \in Nat
      /\ s.got >= 1 /\ s.got - 1 \in Nat /\ s.got - 1 <= s.got /\ At(s) = s.got
      /\ Placed(s)
  BY CellIs DEF Took, Placed
<1> DEFINE c == pfile[s.got]
<1>1. ASSUME Sound(h), Grew(s, h), h.pos = s.pos, h.zin = s.zin, c.id # StreamFooterId,
             c.id # ProtoClassId \/ Reported(h, {s.got})
      PROVE  Continues(h)
  <2>1. Faces(h) /\ At(h) = s.got
    BY <1>1, FacesBehind DEF Sound
  <2>2. ASSUME NEW d \in DefinitionsTo(s.got) PROVE Reported(h, {d})
    <3>1. d \in Nat /\ d \in DefinitionCells /\ HasId(pfile[d], ProtoClassId) /\ d <= s.got
      BY CellIs DEF DefinitionsTo, DefinitionCells
    <3>2. CASE d = s.got
      BY <1>1, <3>1, <3>2 DEF HasId
    <3>3. CASE d # s.got
      <4>1. d \in DefinitionsTo(s.got - 1)
        BY <1>0, <3>1, <3>3 DEF DefinitionsTo
      <4>2. QED
        BY <1>1, <4>1 DEF Reported, Grew
    <3>4. QED
      BY <3>2, <3>3
  <2>3. Reported(h, DefinitionsTo(s.got))
    BY <2>2 DEF Reported
  <2>4. QED
    BY <1>1, <2>1, <2>3 DEF Continues
<1>2. ASSUME IsUserMessage(c)
      PROVE  /\ c.id # StreamFooterId /\ c.id # ProtoClassId /\ Explored(s, s.got)
             /\ Tell(s) \in Nat
  <2>1. c.id # StreamFooterId /\ c.id # ProtoClassId /\ c.id # StreamHeaderId
    BY <1>2 DEF IsUserMessage, FixedIds
  <2>2. Blanks(s.got - 1, s.got)
    BY <1>0, <2>1 DEF Blanks, HeaderCells, FooterCells, HasId
  <2>3. Tell(s) \in Nat
    BY <1>0 DEF Placed, Tell
  <2>4. QED
    BY <1>0, <2>1, <2>2, <2>3, ExploredOn
<1>3. CASE HasId(c, StreamHeaderId) /\ h = Headered(s)
  <2>1. /\ IsReader(h) /\ h.pos = s.pos /\ h.zin = s.zin /\ h.split = s.split
        /\ h.closed = s.closed /\ h.pool = s.pool /\ h.status = s.status
    BY <1>0, <1>3, HeaderedIs
  <2>2. Sound(h) /\ Keeps(s, h)
    BY <2>1 DEF Sound, Keeps
  <2>3. c.id # StreamFooterId /\ c.id # ProtoClassId
    BY <1>3, PyIdsDiffer DEF HasId
  <2>4. QED
    BY <1>1, <2>1, <2>2, <2>3, GrewTwice
<1>4. CASE HasId(c, StreamFooterId) /\ h = AfterFooter(ProcessFooter(s, c.body))
  <2>1. s.got \in FooterCells
    BY <1>0, <1>4 DEF FooterCells
  <2>2. QED
    BY <1>4, <2>1, FooterWorks
<1>5. CASE HasId(c, ProtoClassId) /\ h = ReportProtoClass(s, c.body)
  <2>1. s.got \in DefinitionCells
    BY <1>0, <1>5 DEF DefinitionCells
  <2>2. PICK b \in Nat : DefinesRight(pfile, b, s.got)
    <3>1. PICK b \in 0 .. s.got - 1 : CellRight(pfile, b, s.got)
      BY <1>0, CellIs
    <3>2. QED
      BY <1>5, <3>1 DEF CellRight
  <2>3. Reported(s, Defining(pfile, b, s.got - 1))
    <3>1. \A j \in Defining(pfile, b, s.got - 1) : j \in DefinitionsTo(s.got - 1)
      <4>1. \A j \in b + 1 .. s.got - 1 : j \in DOMAIN pfile /\ j <= s.got - 1
        BY <1>0 DEF FileRight
      <4>2. QED
        BY <4>1 DEF Defining, DefinitionsTo, DefinitionCells
    <3>2. QED
      BY <3>1 DEF Reported
  <2>4. Sound(h) /\ Grew(s, h) /\ Reported(h, {s.got})
    BY <1>5, <2>1, <2>2, <2>3, ReportWorks
  <2>5. h.pos = s.pos /\ h.zin = s.zin
    BY <1>0, <1>5, ReportReads
  <2>6. c.id # StreamFooterId
    BY <1>5, PyIdsDiffer DEF HasId
  <2>7. QED
    BY <1>1, <2>4, <2>5, <2>6
<1>6. CASE IsMetadata(c) /\ h = OnMetadata(s)
  <2>0. IsUserMessage(c)
    BY <1>6 DEF IsMetadata
  <2>1. Explored(s, s.got)
    BY <1>2, <2>0
  <2>2. s.got \in MetadataCells /\ MetadataKey(s) = Place(pfile, s.got)
    BY <1>6, KeyLeads
  <2>3. PICK n : n = Recorded(s)
    OBVIOUS
  <2>4. /\ IsReader(n) /\ n.pos = s.pos /\ n.zin = s.zin /\ n.eof = s.eof
        /\ n.metadata = With(s.metadata, Place(pfile, s.got), s.got)
        /\ n.size = s.size /\ n.footers = s.footers /\ n.headers = s.headers
        /\ n.all_meta = s.all_meta /\ n.split = s.split /\ n.closed = s.closed
        /\ n.pool = s.pool /\ n.status = s.status
    BY <1>0, <2>2, <2>3, RecordedIs
  <2>5. Explored(n, s.got)
    BY <2>1, <2>2, <2>4, MetadataMet
  <2>6. Sound(n) /\ Keeps(s, n) /\ Tell(n) = Tell(s)
    BY <2>4 DEF Sound, Keeps, Tell
  <2>7. h = Current(n) \/ h = FindCurrentMetadata(n)
    BY <1>6, <2>3, OnMetadataIs
  <2>8. CASE h = Current(n)
    <3>1. /\ IsReader(h) /\ h.pos = s.pos /\ h.zin = s.zin /\ h.split = n.split
          /\ h.closed = n.closed /\ h.pool = n.pool /\ h.status = n.status
      BY <2>4, <2>8, CurrentIs
    <3>2. Sound(h) /\ Keeps(n, h)
      BY <2>6, <3>1 DEF Sound, Keeps
    <3>3. Grew(s, h)
      BY <2>6, <3>2, GrewTwice
    <3>4. QED
      BY <1>1, <1>2, <2>0, <3>1, <3>2, <3>3
  <2>9. CASE h = FindCurrentMetadata(n)
    <3>1. Keyed(n) /\ DOMAIN n.headers # {}
      BY <1>0, <2>0, <2>5, HeadersKnown
    <3>2. Sound(h) /\ Grew(n, h)
      BY <1>2, <2>0, <2>6, <2>9, <3>1, FindCurrentWorks
    <3>3. h.pos = s.pos /\ h.zin = s.zin
      BY <2>4, <2>9, <3>2, FindLooks DEF Looks, Sound
    <3>4. Grew(s, h)
      BY <2>6, <3>2, GrewTwice
    <3>5. QED
      BY <1>1, <1>2, <2>0, <3>2, <3>3, <3>4
  <2>10. QED
    BY <2>7, <2>8, <2>9
<1>7. CASE IsEvent(c) /\ h = OnEvent(s)
  <2>0. IsUserMessage(c)
    BY <1>7 DEF IsEvent
  <2>1. Keyed(s) /\ DOMAIN s.headers # {}
    BY <1>0, <1>2, <2>0, HeadersKnown
  <2>2. h = s \/ h = FindCurrentMetadata(s)
    BY <1>7 DEF OnEvent
  <2>3. CASE h = FindCurrentMetadata(s)
    <3>1. Sound(h) /\ Grew(s, h)
      BY <1>2, <2>0, <2>1, <2>3, FindCurrentWorks
    <3>2. h.pos = s.pos /\ h.zin = s.zin
      BY <1>0, <2>3, <3>1, FindLooks DEF Looks, Sound
    <3>3. QED
      BY <1>1, <1>2, <2>0, <3>1, <3>2
  <2>4. QED
    BY <1>1, <1>2, <2>0, <2>2, <2>3, GrewTwice
<1>8. QED
  BY <1>0, <1>3, <1>4, <1>5, <1>6, <1>7, HandleCases

\* What the next message of the client needs lies behind no ProtoClass.
LEMMA ComesAhead ==
  ASSUME FileRight(pfile), NEW s, NEW m \in Nat, Reported(s, DefinitionsTo(m))
  PROVE  Ahead(s, m)
<1>1. SUFFICES ASSUME NEW i \in DOMAIN pfile, i > m, Passes(m, i - 1), IsUserMessage(pfile[i])
               PROVE  pfile[i].id \in DOMAIN s.pool.class
  BY DEF Ahead
<1>2. i \in Nat /\ i >= 1
  BY CellIs
<1>3. PICK b \in 0 .. i - 1 : CellRight(pfile, b, i)
  BY CellIs
<1>4. PICK d \in Defining(pfile, b, i - 1) : pfile[d].body.class_id = pfile[i].id
  BY <1>1, <1>3 DEF CellRight, UsesRight
<1>5. d \in Nat /\ d <= i - 1 /\ d \in DOMAIN pfile /\ HasId(pfile[d], ProtoClassId)
  BY <1>2, <1>3, <1>4 DEF Defining, FileRight
<1>6. ~Passing(pfile[d])
  BY <1>5, PyIdsDiffer DEF Passing, HasId, IsMessage, CompressionIds
<1>7. d \notin m + 1 .. i - 1
  BY <1>1, <1>6 DEF Passes
<1>8. d \in DefinitionsTo(m)
  BY <1>2, <1>5, <1>7 DEF DefinitionsTo, DefinitionCells
<1>9. QED
  BY <1>4, <1>8 DEF Reported

LEMMA HandleNextWorks ==
  ASSUME Nested = {}, Scannable, NEW s, Continues(s), ~s.eof, Explored(s, At(s)),
         NEW h, h = HandleNext(s)
  PROVE  Continues(h)
<1> USE DEF Scannable
<1>1. /\ Sound(s) /\ Faces(s) /\ Reported(s, DefinitionsTo(At(s))) /\ Placed(s)
      /\ IsReader(s) /\ s.status = "ok" /\ At(s) \in Nat
  BY DEF Continues, Faces, Placed, Sound, At
<1>2. PICK r : r = ReadMessage(s)
  OBVIOUS
<1>3. Sound(r) /\ Keeps(s, r)
  BY <1>1, <1>2, ComesAhead, ReadMessageWorks
<1>4. r.status = "ok" /\ h = Handle(r)
  BY <1>2, <1>3 DEF HandleNext, Then, Sound
<1>5. /\ Reads(s, r) /\ Took(r) /\ r.got > At(s) /\ Passes(At(s), r.got - 1)
      /\ pfile[r.got].id \notin CompressionIds
  BY <1>1, <1>2, <1>4, ReadMessageTakes
<1>6. ~r.eof
  BY <1>5 DEF Reads, Scans
<1>7. r.got \in Nat /\ r.got - 1 \in Nat /\ At(s) <= r.got - 1
  <2>1. r.got \in Nat
    BY <1>5, CellIs DEF Took
  <2>2. QED
    BY <1>1, <1>5, <2>1
<1>8. Explored(r, r.got - 1)
  <2>1. Explored(r, At(s))
    BY <1>5, ReadsBooks, ExploredSame
  <2>2. QED
    BY <1>1, <1>5, <1>7, <2>1, PassesBlanks, ExploredOn
<1>9. Reported(r, DefinitionsTo(r.got - 1))
  <2>1. ASSUME NEW d \in DefinitionCells, d > At(s) PROVE d > r.got - 1
    <3>1. d \in Nat /\ HasId(pfile[d], ProtoClassId)
      BY CellIs DEF DefinitionCells
    <3>2. ~Passing(pfile[d])
      BY <3>1, PyIdsDiffer DEF Passing, HasId, IsMessage, CompressionIds
    <3>3. d \notin At(s) + 1 .. r.got - 1
      BY <1>5, <3>2 DEF Passes
    <3>4. QED
      BY <1>1, <1>7, <2>1, <3>1, <3>3
  <2>2. Grew(s, r)
    BY <1>3, GrewTwice
  <2>3. QED
    BY <1>1, <1>7, <2>1, <2>2, DefinitionsOn
<1>10. QED
  BY <1>3, <1>4, <1>5, <1>6, <1>8, <1>9, HandleWorks

LEMMA NextMessageWorks ==
  ASSUME Nested = {}, Scannable, NEW s, Continues(s), ~s.eof, Told(s),
         NEW r, r = NextMessage(s)
  PROVE  Continues(r)
<1> USE DEF Scannable
<1>1. PICK read : /\ read[0] = HandleNext(s)
                  /\ \A n \in 1 .. PyFileEnd : read[n] = HandleOnce(read[n - 1])
                  /\ r = read[PyFileEnd]
  BY NextMessageSteps
<1>2. PyFileEnd \in Nat
  BY DEF FileRight, PyFileEnd
<1> DEFINE Good(q) == Continues(q) /\ Told(q)
           right == {n \in 0 .. PyFileEnd : Good(read[n])}
<1>3. ASSUME NEW p, Good(p), ~p.eof, NEW q, q = HandleNext(p) PROVE Good(q)
  <2>1. Explored(p, At(p)) /\ Placed(p) /\ p.status = "ok"
    BY <1>3 DEF Told, Continues, Faces, Sound
  <2>2. Continues(q)
    BY <1>3, <2>1, HandleNextWorks
  <2>3. q.status = "ok"
    BY <2>2 DEF Continues, Sound
  <2>4. QED
    BY <1>3, <2>1, <2>2, <2>3, HandleNextTells
<1>4. 0 \in right
  <2>1. PICK q : q = read[0]
    OBVIOUS
  <2>2. Good(q)
    BY <1>1, <1>3, <2>1
  <2>3. QED
    BY <1>2, <2>1, <2>2
<1>5. ASSUME NEW n \in 0 + 1 .. PyFileEnd, n - 1 \in right PROVE n \in right
  <2>1. n \in 1 .. PyFileEnd /\ n \in 0 .. PyFileEnd /\ read[n] = HandleOnce(read[n - 1])
    BY <1>1, <1>2
  <2>2. PICK p : p = read[n - 1]
    OBVIOUS
  <2>3. PICK q : q = read[n]
    OBVIOUS
  <2>4. q = HandleOnce(p) /\ Good(p)
    BY <1>5, <2>1, <2>2, <2>3
  <2>5. q = p \/ (~p.eof /\ q = HandleNext(p))
    BY <2>4 DEF HandleOnce
  <2>6. Good(q)
    BY <1>3, <2>4, <2>5
  <2>7. QED
    BY <2>1, <2>3, <2>6
<1> HIDE DEF right
<1>6. \A n \in 0 .. PyFileEnd : n \in right
  BY <1>2, <1>4, <1>5, NumberByNumber
<1>7. PyFileEnd \in right
  BY <1>2, <1>6
<1>8. QED
  BY <1>1, <1>7 DEF right

\* The reader goes on, unless the client left a group early and was refused the next.
Unfailing(s, i) ==
    \/ i.left /\ s.status = "AssertionError"
    \/ /\ Continues(s)
       /\ i.mode = "new" => s.metadata_change
       /\ Refused(s, i) /\ ~s.eof => i.left

LEMMA ConstructWorks ==
  ASSUME Splits = {FALSE}, Scannable, 1 \in DOMAIN pfile, Construct
  PROVE  Unfailing(pin', iter')
<1> USE DEF Scannable
<1>1. PICK s, h :
         /\ s = NewPyReader(FALSE) /\ h = ReadHeader(s)
         /\ pin' = IF h.status # "ok" THEN h
                   ELSE [h EXCEPT !.current_header = h.got, !.metadata_change = TRUE]
         /\ iter' = [NoIter EXCEPT !.mode = "new"]
  BY DEF Construct
<1>2. /\ IsReader(s) /\ s.pos = 0 /\ s.zin = NoZlib /\ s.status = "ok" /\ ~s.eof
      /\ ~s.closed /\ s.split = FALSE /\ s.pool = NewPool
  BY <1>1 DEF NewPyReader, IsReader
<1>3. PoolRight(NewPool)
  BY DEF NewPool, PoolRight, IsPool, Closed
<1>4. Sound(s) /\ Placed(s)
  BY <1>2, <1>3 DEF Sound, Placed, NoZlib
<1>5. pfile[1].kind = "START_MAGIC"
  <2>1. PICK b \in 0 .. 1 - 1 : CellRight(pfile, b, 1)
    BY CellIs
  <2>2. QED
    BY <2>1, WholeUntorn DEF CellRight
<1>6. s.pos \in Nat /\ s.pos + 1 = 1 /\ s.pos + 2 = 2
  BY <1>2
<1>7. Sound(h)
  BY <1>1, <1>2, <1>4, <1>5, <1>6, ReadHeaderWorks
<1>8. h.status = "ok" /\ IsReader(h)
  BY <1>7 DEF Sound
<1>9. /\ Took(h) /\ h.got = 2 /\ HasId(pfile[2], StreamHeaderId)
  BY <1>1, <1>2, <1>4, <1>6, <1>8, ReadHeaderTakes
<1>10. PICK r : r = pin'
  OBVIOUS
<1>11. r = [h EXCEPT !.current_header = h.got, !.metadata_change = TRUE]
  BY <1>1, <1>8, <1>10
<1>12. Sound(r) /\ r.pos = h.pos /\ r.zin = h.zin /\ r.metadata_change
  BY <1>7, <1>8, <1>11 DEF Sound, IsReader
<1>13. Faces(r) /\ At(r) = 2
  <2>1. pfile[2].id # StreamFooterId /\ pfile[2].id \notin CompressionIds
    BY <1>9, PyIdsDiffer DEF HasId, CompressionIds
  <2>2. QED
    BY <1>9, <1>12, <2>1, FacesBehind DEF Sound
<1>14. DefinitionsTo(2) = {}
  <2>1. ASSUME NEW d \in DefinitionCells, d <= 2 PROVE FALSE
    <3>1. d \in Nat /\ d >= 1 /\ HasId(pfile[d], ProtoClassId)
      BY CellIs DEF DefinitionCells
    <3>2. d # 1 /\ d # 2
      BY <1>5, <1>9, <3>1, PyIdsDiffer DEF HasId
    <3>3. QED
      BY <2>1, <3>1, <3>2
  <2>2. QED
    BY <2>1 DEF DefinitionsTo
<1>15. Continues(r)
  BY <1>12, <1>13, <1>14 DEF Continues, Reported
<1>16. iter'.mode = "new"
  BY <1>1 DEF NoIter
<1>17. QED
  BY <1>10, <1>12, <1>15, <1>16 DEF Unfailing, Refused

LEMMA InfoWorks ==
  ASSUME Nested = {}, Scannable, Packed, 1 \in DOMAIN pfile, IsReader(pin), Continues(pin),
         Told(pin), Unfailing(pin, iter), Info
  PROVE  Unfailing(pin', iter')
<1> USE DEF Scannable
<1>1. pin.status = "ok" /\ ~pin.eof /\ iter' = iter /\ Sound(pin)
  BY DEF Info, Running, Continues
<1>2. PICK r : r = ReadAllMetaInfo(pin)
  OBVIOUS
<1>3. Sound(r) /\ Grew(pin, r)
  BY <1>1, <1>2, ReadAllWorks
<1>4. r.status = "ok"
  BY <1>3 DEF Sound
<1>5. /\ Scans(pin, r) /\ r.pos = pin.pos /\ r.zin = pin.zin
  BY <1>2, <1>4, ReadAllScans
<1>6. Discovered(r)
  BY <1>1, <1>2, <1>4, ReadAllFinds DEF Told, Explored
<1>7. DOMAIN r.headers # {}
  <2>1. PICK b \in 0 .. 1 - 1 : CellRight(pfile, b, 1)
    BY CellIs
  <2>2. pfile[1].kind = "START_MAGIC" /\ ~IsMessage(pfile[1])
    BY <2>1, WholeUntorn DEF CellRight, IsMessage
  <2>3. 1 + 1 \in DOMAIN pfile /\ IsMessage(pfile[1 + 1])
    BY <2>2, MessageNext
  <2>4. 1 + 1 \in HeaderCells
    BY <2>2, <2>3, NextCell DEF HeaderCells, IsMessage
  <2>5. QED
    BY <1>6, <2>4 DEF Discovered
<1>8. pin' = r
  BY <1>2, <1>7 DEF Info
<1>9. Continues(r)
  <2>1. At(r) = At(pin) /\ (Placed(pin) => Placed(r)) /\ r.eof = pin.eof
    BY <1>5 DEF At, Placed, Scans
  <2>2. Faces(pin) /\ Reported(pin, DefinitionsTo(At(pin)))
    BY <1>1 DEF Continues
  <2>3. Faces(r)
    BY <1>5, <2>1, <2>2 DEF Faces
  <2>4. Reported(r, DefinitionsTo(At(r)))
    BY <1>3, <2>1, <2>2 DEF Reported, Grew
  <2>5. QED
    BY <1>3, <2>3, <2>4 DEF Continues
<1>10. r.metadata_change = pin.metadata_change /\ r.eof = pin.eof
  BY <1>5 DEF Scans
<1>11. QED
  BY <1>1, <1>8, <1>9, <1>10 DEF Unfailing, Refused

LEMMA NextGroupWorks ==
  ASSUME Nested = {}, Scannable, IsIter(iter), Continues(pin), Told(pin),
         Unfailing(pin, iter), NextGroup
  PROVE  Unfailing(pin', iter')
<1>1. pin.status = "ok" /\ ~pin.eof /\ iter.mode = "groups" /\ ~iter.group
  BY DEF NextGroup, Running
<1>2. CASE ~pin.metadata_change
  <2>1. iter.left
    BY <1>1, <1>2 DEF Unfailing, Refused
  <2>2. pin' = Fail(pin, "AssertionError") /\ iter' = iter
    BY <1>2 DEF NextGroup
  <2>3. pin'.status = "AssertionError"
    BY <2>2, FailReads DEF Continues, Sound
  <2>4. QED
    BY <2>1, <2>2, <2>3 DEF Unfailing
<1>3. CASE pin.metadata_change
  <2>1. PICK r, first :
           /\ r = IF iter.next_first = NoEvent THEN NextMessage(pin) ELSE pin
           /\ first = IF iter.next_first = NoEvent THEN Parsed(r) ELSE iter.next_first
    OBVIOUS
  <2>2. IF r.status # "ok" \/ r.eof THEN pin' = r /\ iter' = iter
        ELSE /\ pin' = [r EXCEPT !.metadata_change = FALSE]
             /\ iter' = [iter EXCEPT !.next_first = first, !.first = first,
                                     !.meta = r.current_metadata, !.group = TRUE]
    BY <1>3, <2>1 DEF NextGroup
  <2>3. Continues(r)
    BY <1>1, <2>1, NextMessageWorks
  <2>4. r.status = "ok" /\ IsReader(r)
    BY <2>3 DEF Continues, Sound
  <2>5. CASE r.eof
    <3>1. pin' = r /\ iter' = iter
      BY <2>2, <2>5
    <3>2. QED
      BY <1>1, <2>3, <2>5, <3>1 DEF Unfailing
  <2>6. CASE ~r.eof
    <3>1. pin' = [r EXCEPT !.metadata_change = FALSE]
      BY <2>2, <2>4, <2>6
    <3>2. PICK q : q = pin'
      OBVIOUS
    <3>3. Continues(q)
      BY <2>3, <2>4, <3>1, <3>2
         DEF Continues, Sound, IsReader, Faces, Placed, At, Reported
    <3>4. iter'.mode = "groups" /\ iter'.group
      BY <1>1, <2>2, <2>4, <2>6 DEF IsIter
    <3>5. QED
      BY <3>2, <3>3, <3>4 DEF Unfailing, Refused
  <2>7. QED
    BY <2>5, <2>6
<1>4. QED
  BY <1>2, <1>3

LEMMA NextInGroupWorks ==
  ASSUME Nested = {}, Scannable, IsIter(iter), Continues(pin), Told(pin),
         Unfailing(pin, iter), NextInGroup
  PROVE  Unfailing(pin', iter')
<1>1. pin.status = "ok" /\ ~pin.eof /\ iter.mode = "groups" /\ iter.group
  BY DEF NextInGroup, Running
<1>2. CASE iter.first # NoEvent
  <2>1. iter' = [iter EXCEPT !.first = NoEvent] /\ pin' = pin
    BY <1>2 DEF NextInGroup
  <2>2. iter'.mode = "groups" /\ iter'.group
    BY <1>1, <2>1 DEF IsIter
  <2>3. QED
    BY <2>1, <2>2 DEF Unfailing, Refused
<1>3. CASE iter.first = NoEvent
  <2>1. PICK r : r = NextMessage(pin)
    OBVIOUS
  <2>2. /\ pin' = r
        /\ IF r.status # "ok" \/ r.eof THEN iter' = [iter EXCEPT !.group = FALSE]
           ELSE IF r.metadata_change
           THEN iter' = [iter EXCEPT !.group = FALSE, !.next_first = Parsed(r)]
           ELSE iter' = iter
    BY <1>3, <2>1 DEF NextInGroup
  <2>3. Continues(r)
    BY <1>1, <2>1, NextMessageWorks
  <2>4. r.status = "ok"
    BY <2>3 DEF Continues, Sound
  <2>5. iter'.mode = "groups"
    BY <1>1, <2>2 DEF IsIter
  <2>6. r.eof \/ r.metadata_change \/ iter'.group
    BY <1>1, <2>2, <2>4
  <2>7. QED
    BY <2>2, <2>3, <2>5, <2>6 DEF Unfailing, Refused
<1>4. QED
  BY <1>2, <1>3

LEMMA NextEventWorks ==
  ASSUME Nested = {}, Scannable, Continues(pin), Told(pin), NextEvent
  PROVE  Unfailing(pin', iter')
<1>1. ~pin.eof /\ iter.mode = "events" /\ iter' = iter /\ pin' = NextMessage(pin)
  BY DEF NextEvent, Running
<1>2. Continues(pin')
  BY <1>1, NextMessageWorks
<1>3. QED
  BY <1>1, <1>2 DEF Unfailing, Refused

LEMMA ClientGoesOn ==
  ASSUME IsIter(iter), Continues(pin), Unfailing(pin, iter), BeginLoop \/ LeaveGroup
  PROVE  Unfailing(pin', iter')
<1>1. pin' = pin /\ pin.status = "ok"
  BY DEF BeginLoop, LeaveGroup, Running
<1>2. CASE BeginLoop
  <2>1. /\ iter.mode = "new" /\ pin.metadata_change
        /\ \E mode \in {"events", "groups"} : iter' = [iter EXCEPT !.mode = mode]
    BY <1>1, <1>2 DEF BeginLoop, Unfailing
  <2>2. iter'.mode # "new"
    BY <2>1 DEF IsIter
  <2>3. QED
    BY <1>1, <2>1, <2>2 DEF Unfailing, Refused
<1>3. CASE LeaveGroup
  <2>1. iter' = [iter EXCEPT !.group = FALSE, !.left = TRUE]
    BY <1>3 DEF LeaveGroup
  <2>2. iter'.left /\ iter'.mode = iter.mode
    BY <2>1 DEF IsIter
  <2>3. QED
    BY <1>1, <2>2 DEF Unfailing
<1>4. QED
  BY <1>2, <1>3

LEMMA AllPacked ==
  ASSUME FileRight(pfile), ~Uncompressed(pfile)
  PROVE  Packed
BY AllZipped DEF Packed, Zipped, Uncompressed

\* A whole file has a stream, and what reads it does not fail.
UnfailingRight ==
    phase = "read" /\ ~cut /\ Serialized =>
        1 \in DOMAIN pfile /\ (iter.mode # "none" => Unfailing(pin, iter))

LEMMA UnfailingStays ==
  ASSUME pfile' = pfile, Unfailing(pin', iter')
  PROVE  Unfailing(pin, iter)'
BY DEF Unfailing, Continues, Sound, PoolRight, IsPool, IsReader, Closed, Imports, Faces,
       Placed, InSection, At, Reported, DefinitionsTo, DefinitionCells, Refused, PyFileEnd

LEMMA UnfailingReads ==
  ASSUME WrittenRight, ReaderRight, ToldRight, UnfailingRight, ~ScanUncompressed, Nested = {},
         Splits = {FALSE}, phase = "read", ~cut, Serialized, ReadingAllowed,
         \/ iter.mode = "none" /\ Construct
         \/ BeginLoop \/ NextEvent \/ NextGroup \/ NextInGroup
         \/ ScanAllowed /\ Info
         \/ LeaveGroup
  PROVE  Unfailing(pin', iter')
<1>1. FileRight(pfile) /\ Whole(pfile) /\ 1 \in DOMAIN pfile
  BY DEF WrittenRight, UnfailingRight
<1>2. Scannable
  BY <1>1, AllPacked DEF Scannable, ReadingAllowed, ScanAllowed
<1>3. CASE iter.mode = "none" /\ Construct
  BY <1>1, <1>2, <1>3, ConstructWorks
<1>4. CASE \/ BeginLoop \/ NextEvent \/ NextGroup \/ NextInGroup
           \/ ScanAllowed /\ Info
           \/ LeaveGroup
  <2>1. pin.status = "ok" /\ ~pin.eof
    BY <1>4 DEF BeginLoop, NextEvent, NextGroup, NextInGroup, Info, LeaveGroup, Running
  <2>2. iter.mode # "none"
    <3>1. CASE LeaveGroup
      <4>1. iter.group
        BY <3>1 DEF LeaveGroup
      <4>2. ASSUME iter.mode = "none" PROVE FALSE
        <5>1. iter = NoIter
          BY <4>2 DEF ReaderRight
        <5>2. ~NoIter.group
          BY DEF NoIter
        <5>3. QED
          BY <4>1, <5>1, <5>2
      <4>3. QED
        BY <4>2
    <3>2. CASE ~LeaveGroup
      BY <1>4, <3>2 DEF BeginLoop, NextEvent, NextGroup, NextInGroup, Info
    <3>3. QED
      BY <3>1, <3>2
  <2>3. IsIter(iter) /\ Told(pin)
    BY <2>1, <2>2 DEF ReaderRight, ClientRight, IterRight, ToldRight
  <2>4. Unfailing(pin, iter) /\ Continues(pin) /\ IsReader(pin)
    BY <2>1, <2>2 DEF UnfailingRight, Unfailing, Continues, Sound
  <2>5. ASSUME ScanAllowed PROVE Packed
    BY <1>1, <2>5, AllPacked DEF ScanAllowed
  <2>6. QED
    BY <1>1, <1>2, <1>4, <2>3, <2>4, <2>5, ClientGoesOn, NextEventWorks, NextGroupWorks,
       NextInGroupWorks, InfoWorks
<1>5. QED
  BY <1>3, <1>4

LEMMA UnfailingNext ==
  ASSUME WrittenRight, ReaderRight, ToldRight, UnfailingRight, ~ScanUncompressed, Nested = {},
         Splits = {FALSE}, [Next]_vars
  PROVE  UnfailingRight'
<1>1. CASE UNCHANGED vars
  <2>1. /\ pfile' = pfile /\ cut' = cut /\ pin' = pin /\ iter' = iter /\ phase' = phase
    BY <1>1 DEF vars
  <2>2. Unfailing(pin, iter) => Unfailing(pin', iter')
    BY <2>1
  <2>3. Serialized' => Serialized
    BY <2>1 DEF Serialized
  <2>4. QED
    BY <2>1, <2>2, <2>3, UnfailingStays DEF UnfailingRight
<1>2. CASE WriterStep \/ Crash
  <2>1. phase' = "write" \/ cut'
    BY <1>2 DEF WriterStep, Crash
  <2>2. QED
    BY <2>1 DEF UnfailingRight
<1>3. CASE AppendStream
  <2>1. phase = "write" /\ po.closed /\ pfile' = pfile \o po.wire /\ iter' = iter
    BY <1>3 DEF AppendStream, Goes, reader
  <2>2. po.wire \in Seq(PyCell) /\ Len(po.wire) > 0 /\ pfile \in Seq(PyCell)
    BY <2>1 DEF WrittenRight, WriterRight, PyStreams, FileRight
  <2>3. 1 \in DOMAIN pfile'
    BY <2>1, <2>2
  <2>4. iter'.mode = "none"
    BY <2>1 DEF ReaderRight, NoIter
  <2>5. QED
    BY <2>3, <2>4 DEF UnfailingRight
<1>4. CASE \/ Read(iter.mode = "none" /\ Construct)
           \/ ReadOn
           \/ Read(ScanAllowed /\ (Clash /\ ~LateScan => iter.mode = "new") /\ Info)
           \/ Read(LeaveGroup)
  <2>1. phase = "read" /\ phase' = phase /\ cut' = cut /\ ReadingAllowed
    BY <1>4 DEF Read, ReadOn
  <2>2. \/ iter.mode = "none" /\ Construct
        \/ BeginLoop \/ NextEvent \/ NextGroup \/ NextInGroup
        \/ ScanAllowed /\ Info
        \/ LeaveGroup
    BY <1>4 DEF Read, ReadOn
  <2>3. pfile' = pfile
    BY <2>1, <2>2, ReaderReads
  <2>4. ASSUME ~cut, Serialized PROVE Unfailing(pin, iter)'
    BY <2>1, <2>2, <2>3, <2>4, UnfailingReads, UnfailingStays
  <2>5. Serialized' => Serialized
    BY <2>3 DEF Serialized
  <2>6. QED
    BY <2>1, <2>3, <2>4, <2>5 DEF UnfailingRight
<1>5. QED
  BY <1>1, <1>2, <1>3, <1>4 DEF Next

LEMMA FailsNowhere ==
  ASSUME WrittenRight, ReaderRight, UnfailingRight
  PROVE  PyNoError
<1>1. ASSUME ~cut, Serialized
      PROVE  pin.status = "ok" \/ (iter.left /\ pin.status = "AssertionError")
  <2>1. CASE phase = "write" \/ iter.mode = "none"
    BY <2>1, ReaderIsNew DEF ReaderRight
  <2>2. CASE phase = "read" /\ iter.mode # "none"
    BY <1>1, <2>2 DEF UnfailingRight, Unfailing, Continues, Sound
  <2>3. QED
    BY <2>1, <2>2 DEF WrittenRight
<1>2. QED
  BY <1>1 DEF PyNoError

\* A whole file, in which no message failed to be serialised, is read without an exception,
\* whatever the client asks in between, and only leaving a group early is refused: the magic
\* numbers, messages and sections follow each other as __next__, read_message and the scan of
\* read_all_meta_info expect, each class and each .proto file was reported before it is
\* needed, and the iterator of itermetadata is never asked for a group that the metadata did
\* not begin.  Not if a message is only its size and id (write_message raised and the writer
\* was closed), a class has fields of a message type, a block of compressed bytes ends in
\* front of a checksum, or an uncompressed stream is scanned: each of them does end in an
\* exception.
THEOREM NoErrorAlways ==
  ASSUME ~SharedIds, ~ScanUncompressed, Nested = {}, Splits = {FALSE}
  PROVE  Spec => []PyNoError
<1>1. Init => UnfailingRight
  BY DEF Init, UnfailingRight
<1>2. WrittenRight /\ ReaderRight /\ ToldRight /\ UnfailingRight /\ [Next]_vars => UnfailingRight'
  BY UnfailingNext
<1>3. WrittenRight /\ ReaderRight /\ UnfailingRight => PyNoError
  BY FailsNowhere
<1>4. (Spec => []WrittenRight) /\ (Spec => []ReaderRight) /\ (Spec => []ToldRight)
  BY WrittenAlways, ReaderAlways, ToldAlways
<1>5. QED
  BY <1>1, <1>2, <1>3, <1>4, PTL DEF Spec
=============================================================================
