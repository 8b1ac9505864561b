-------------------------- MODULE RoundTripProofs --------------------------
(***************************************************************************)
(* What is proved of a file and of its reader.                             *)
(*                                                                         *)
(* The file is made of the streams of several writers, one behind the      *)
(* other, the last one perhaps cut short by a crash: FileOK, all that a    *)
(* reader relies on.  It is stated of the cells of the file, by the header *)
(* in front of them, and follows stream by stream from what                *)
(* OutputStreamProofs shows of one writer.  The second half is about the   *)
(* reader.                                                                 *)
(***************************************************************************)
EXTENDS RoundTrip, OutputStreamProofs

\* Cell i is in the stream whose header is cell h.
InStreamOf(w, h, i) ==
    /\ h \in 1 .. i /\ HasId(w[h], StreamHeaderId)
    /\ \A k \in h + 1 .. i : ~HasId(w[k], StreamHeaderId)

HeadersOf(w) == {i \in DOMAIN w : HasId(w[i], StreamHeaderId)}
MetadataIn(w, h) == {i \in DOMAIN w : IsMetadata(w[i]) /\ InStreamOf(w, h, i)}
ProtoClassesIn(w, h) == {i \in DOMAIN w : IsProtoClass(w[i]) /\ InStreamOf(w, h, i)}
Refers(w, h) == w[h].body.metadata_refers_forward

\* Cell j is the ProtoClass of message i.
Binds(w, j, i) == w[j].body.class_id = w[i].id /\ w[j].body.full_name = w[i].body.class

\* Offsets count from the start of their stream.
Moved(b, offsets) == [n \in DOMAIN offsets |-> b + offsets[n]]

\* A footer leads back to the start of its stream, and its offsets to the metadata
\* and the ProtoClasses of the stream.
FooterGood(w, i) ==
    LET f == w[i].body
        b == i - 1 - f.size
    IN /\ f.size \in 0 .. i - 1
       /\ f.metadata_offsets \in Seq(Nat) /\ f.protoclass_offsets \in Seq(Nat)
       /\ InStreamOf(w, b + 2, i)
       /\ Places(w, Moved(b, f.metadata_offsets), MetadataIn(w, b + 2))
       /\ Places(w, Moved(b, f.protoclass_offsets), ProtoClassesIn(w, b + 2))

\* The ProtoClasses of a stream bind different ids, one binds the id of a message.
StreamBinds(w, h) ==
    /\ \A j, k \in ProtoClassesIn(w, h) : w[j].body.class_id = w[k].body.class_id => j = k
    /\ \A i \in DOMAIN w : IsUserMessage(w[i]) /\ InStreamOf(w, h, i)
                           => \E j \in ProtoClassesIn(w, h) : Binds(w, j, i)

FileOK(w) ==
    /\ w \in Seq(Cell)
    /\ \A i \in HeadersOf(w) : i >= 2 /\ w[i - 1].kind = "START_MAGIC"
    /\ \A i \in DOMAIN w : w[i].kind = "FooterSize" => i >= 2 /\ HasId(w[i - 1], StreamFooterId)
    /\ \A i \in DOMAIN w : HasId(w[i], StreamFooterId)
                           => FooterGood(w, i) /\ (i + 1 \in DOMAIN w => ~IsMessage(w[i + 1]))
    /\ \A h \in HeadersOf(w) : StreamBinds(w, h)
    /\ \A i \in DOMAIN w : IsMetadata(w[i]) => w[i].body.class \in MetadataClasses
    /\ \A i \in DOMAIN w : IsMessage(w[i]) => \E h \in HeadersOf(w) : h <= i
    /\ \A i \in DOMAIN w : IsProtoClass(w[i]) => w[i].body.class_id \notin FixedIds

\* A stream whose metadata refers backward comes before those where it refers forward.
DirectionsOK(w) == \A h, k \in HeadersOf(w) : h < k /\ Refers(w, h) => Refers(w, k)
-----------------------------------------------------------------------------
(* A file that is part of another one.                                      *)

\* The cells of w are those of u behind the first b.
PartOf(w, u, b) == b + Len(w) <= Len(u) /\ \A i \in 1 .. Len(w) : u[b + i] = w[i]

\* No message behind the part is in one of its streams.
NothingBehind(w, u, b) ==
    \A m \in DOMAIN u, h \in 1 .. b + Len(w) :
       m > b + Len(w) /\ InStreamOf(u, h, m) => ~IsMessage(u[m])

Shift(b, cells) == {b + m : m \in cells}

\* The cells of a part are in the streams they were in.
LEMMA PartStreams ==
  ASSUME NEW w \in Seq(Cell), NEW u \in Seq(Cell), NEW b \in Nat, PartOf(w, u, b),
         NEW h \in DOMAIN w, NEW i \in DOMAIN w
  PROVE  InStreamOf(u, b + h, b + i) <=> InStreamOf(w, h, i)
<1>1. \A k \in 1 .. Len(w) : u[b + k] = w[k]
  BY DEF PartOf
<1>2. h \in 1 .. Len(w) /\ i \in 1 .. Len(w) /\ Len(w) \in Nat
  OBVIOUS
<1>3. (\A k \in h + 1 .. i : ~HasId(w[k], StreamHeaderId))
        <=> \A k \in b + h + 1 .. b + i : ~HasId(u[k], StreamHeaderId)
  <2>1. ASSUME \A k \in h + 1 .. i : ~HasId(w[k], StreamHeaderId),
               NEW k \in b + h + 1 .. b + i
        PROVE  ~HasId(u[k], StreamHeaderId)
    <3>1. k - b \in h + 1 .. i /\ k - b \in 1 .. Len(w) /\ b + (k - b) = k
      BY <1>2
    <3>2. QED
      BY <1>1, <2>1, <3>1
  <2>2. ASSUME \A k \in b + h + 1 .. b + i : ~HasId(u[k], StreamHeaderId),
               NEW k \in h + 1 .. i
        PROVE  ~HasId(w[k], StreamHeaderId)
    <3>1. b + k \in b + h + 1 .. b + i /\ k \in 1 .. Len(w)
      BY <1>2
    <3>2. QED
      BY <1>1, <2>2, <3>1
  <2>3. QED
    BY <2>1, <2>2
<1>4. b + h \in 1 .. b + i <=> h \in 1 .. i
  BY <1>2
<1>5. QED
  BY <1>1, <1>2, <1>3, <1>4 DEF InStreamOf

\* What is found in a stream of a part is what is found in that stream of the file.
LEMMA PartFinds ==
  ASSUME NEW w \in Seq(Cell), NEW u \in Seq(Cell), NEW b \in Nat, PartOf(w, u, b),
         NothingBehind(w, u, b), NEW h \in DOMAIN w
  PROVE  /\ MetadataIn(u, b + h) = Shift(b, MetadataIn(w, h))
         /\ ProtoClassesIn(u, b + h) = Shift(b, ProtoClassesIn(w, h))
<1>1. \A k \in 1 .. Len(w) : u[b + k] = w[k] /\ b + k \in DOMAIN u
  BY DEF PartOf
<1>2. h \in 1 .. Len(w) /\ Len(w) \in Nat /\ Len(u) \in Nat /\ DOMAIN w = 1 .. Len(w)
  OBVIOUS
<1>3. ASSUME NEW m \in DOMAIN w, InStreamOf(w, h, m)
      PROVE  InStreamOf(u, b + h, b + m) /\ b + m \in DOMAIN u /\ u[b + m] = w[m]
  BY <1>1, <1>3, PartStreams
<1>4. ASSUME NEW m \in DOMAIN u, IsMessage(u[m]), InStreamOf(u, b + h, m)
      PROVE  \E k \in DOMAIN w : m = b + k /\ InStreamOf(w, h, k) /\ u[m] = w[k]
  <2>1. m <= b + Len(w)
    <3>1. b + h \in 1 .. b + Len(w)
      BY <1>2
    <3>2. QED
      BY <1>2, <1>4, <3>1 DEF NothingBehind
  <2>2. m >= b + h
    BY <1>4 DEF InStreamOf
  <2>3. m - b \in DOMAIN w /\ m = b + (m - b)
    BY <1>2, <2>1, <2>2
  <2>4. InStreamOf(w, h, m - b)
    BY <1>4, <2>3, PartStreams
  <2>5. u[b + (m - b)] = w[m - b]
    BY <1>1, <1>2, <2>3
  <2>6. u[m] = w[m - b]
    BY <2>3, <2>5
  <2>7. QED
    BY <2>3, <2>4, <2>6
<1>5. \A c : (IsMetadata(c) => IsMessage(c)) /\ (IsProtoClass(c) => IsMessage(c))
  BY DEF IsMetadata, IsUserMessage, IsProtoClass, HasId, IsMessage
<1>6. MetadataIn(u, b + h) \subseteq Shift(b, MetadataIn(w, h))
  BY <1>4, <1>5 DEF MetadataIn, Shift
<1>7. Shift(b, MetadataIn(w, h)) \subseteq MetadataIn(u, b + h)
  BY <1>3 DEF MetadataIn, Shift
<1>8. ProtoClassesIn(u, b + h) \subseteq Shift(b, ProtoClassesIn(w, h))
  BY <1>4, <1>5 DEF ProtoClassesIn, Shift
<1>9. Shift(b, ProtoClassesIn(w, h)) \subseteq ProtoClassesIn(u, b + h)
  BY <1>3 DEF ProtoClassesIn, Shift
<1>10. QED
  BY <1>6, <1>7, <1>8, <1>9

\* The offsets of a part lead to the same cells when they are counted from its start.
LEMMA PartPlaces ==
  ASSUME NEW w \in Seq(Cell), NEW u \in Seq(Cell), NEW b \in Nat, PartOf(w, u, b),
         NEW offsets \in Seq(Nat), NEW cells \in SUBSET DOMAIN w, Places(w, offsets, cells)
  PROVE  Places(u, Moved(b, offsets), Shift(b, cells))
<1> DEFINE more == Moved(b, offsets)
<1>1. DOMAIN more = DOMAIN offsets /\ \A n \in DOMAIN offsets : more[n] = b + offsets[n]
  BY DEF Moved
<1> HIDE DEF more
<1>2. ASSUME NEW n \in DOMAIN offsets
      PROVE  /\ Target(u, more[n]) = b + Target(w, offsets[n])
             /\ u[more[n] + 1].z = w[offsets[n] + 1].z
             /\ Target(w, offsets[n]) \in cells /\ offsets[n] \in Nat
  <2>1. offsets[n] \in Nat /\ Target(w, offsets[n]) \in DOMAIN w
    BY DEF Places
  <2>2. offsets[n] + 1 \in 1 .. Len(w)
    BY <2>1, SMTT(30) DEF Target
  <2>3. u[b + (offsets[n] + 1)] = w[offsets[n] + 1]
    BY <2>2 DEF PartOf
  <2>4. u[more[n] + 1] = w[offsets[n] + 1]
    BY <1>1, <2>1, <2>3, SMTT(30)
  <2>5. more[n] = b + offsets[n]
    BY <1>1
  <2>6. Target(u, more[n]) = b + Target(w, offsets[n])
    <3> DEFINE start == HasId(w[offsets[n] + 1], StartCompressedSectionId)
    <3>1. Target(u, more[n]) = IF start THEN more[n] + 2 ELSE more[n] + 1
      BY <2>4 DEF Target
    <3>2. Target(w, offsets[n]) = IF start THEN offsets[n] + 2 ELSE offsets[n] + 1
      BY DEF Target
    <3> HIDE DEF start
    <3>3. QED
      BY <2>1, <2>5, <3>1, <3>2, SMTT(30)
  <2>7. QED
    BY <2>1, <2>4, <2>6 DEF Places
<1>3. ASSUME NEW n \in DOMAIN more
      PROVE  Target(u, more[n]) \in Shift(b, cells) /\ ~u[more[n] + 1].z
  <2>1. Target(w, offsets[n]) \in cells /\ ~w[offsets[n] + 1].z
    BY <1>1 DEF Places
  <2>2. QED
    BY <1>1, <1>2, <2>1 DEF Shift
<1>4. ASSUME NEW m \in DOMAIN more, NEW n \in DOMAIN more, m < n
      PROVE  Target(u, more[m]) <= more[n]
  <2>1. Target(w, offsets[m]) <= offsets[n]
    BY <1>1, <1>4 DEF Places
  <2>2. Target(w, offsets[m]) \in Nat /\ offsets[n] \in Nat
    <3>1. \A c \in cells : c \in Nat
      OBVIOUS
    <3>2. QED
      BY <1>1, <1>2, <3>1
  <2>3. Target(u, more[m]) = b + Target(w, offsets[m]) /\ more[n] = b + offsets[n]
    BY <1>1, <1>2
  <2>4. QED
    BY <2>1, <2>2, <2>3
<1>5. ASSUME NEW i \in Shift(b, cells)
      PROVE  \E n \in DOMAIN more : Target(u, more[n]) = i
  <2>1. PICK c \in cells : i = b + c
    BY <1>5 DEF Shift
  <2>2. PICK n \in DOMAIN offsets : Target(w, offsets[n]) = c
    BY DEF Places
  <2>3. QED
    BY <1>1, <1>2, <2>1, <2>2
<1>6. QED
  BY <1>3, <1>4, <1>5 DEF Places, more

\* The arithmetic of offsets: a stream that starts behind s cells of a part starts
\* behind b + s cells of the file.
LEMMA MovedTwice ==
  ASSUME NEW s \in Nat, NEW b \in Nat, NEW offsets \in Seq(Nat)
  PROVE  /\ Moved(s, offsets) \in Seq(Nat)
         /\ Moved(b, Moved(s, offsets)) = Moved(b + s, offsets)
<1> DEFINE n == Len(offsets)
           moved == [k \in 1 .. n |-> s + offsets[k]]
<1>1. n \in Nat /\ DOMAIN offsets = 1 .. n /\ \A k \in 1 .. n : offsets[k] \in Nat
  OBVIOUS
<1>2. Moved(s, offsets) = moved
  BY <1>1 DEF Moved
<1>3. moved \in Seq(Nat)
  <2>1. \A k \in 1 .. n : s + offsets[k] \in Nat
    BY <1>1
  <2>2. moved \in [1 .. n -> Nat]
    BY <2>1
  <2> HIDE DEF n
  <2>3. QED
    BY <1>1, <2>2, SeqDef
<1>4. \A k \in 1 .. n : b + (s + offsets[k]) = (b + s) + offsets[k]
  BY <1>1
<1> HIDE DEF n
<1>5. [k \in 1 .. n |-> b + moved[k]] = [k \in 1 .. n |-> (b + s) + offsets[k]]
  BY <1>4
<1>6. QED
  BY <1>1, <1>2, <1>3, <1>5 DEF Moved

LEMMA BaseOfPart ==
  ASSUME NEW i \in Nat, NEW n \in Nat, i <= n, NEW b \in Nat, NEW size \in 0 .. i - 1,
         i - 1 - size + 2 \in 1 .. i
  PROVE  /\ i - 1 - size \in Nat /\ i - 1 - size + 2 \in 1 .. n /\ size \in 0 .. b + i - 1
         /\ b + i - 1 - size = b + (i - 1 - size)
         /\ b + (i - 1 - size) + 2 = b + (i - 1 - size + 2)
OBVIOUS

\* A footer of a part is right in the file, too.
LEMMA PartFooter ==
  ASSUME NEW w \in Seq(Cell), NEW u \in Seq(Cell), NEW b \in Nat, PartOf(w, u, b),
         NothingBehind(w, u, b), NEW i \in DOMAIN w, FooterGood(w, i)
  PROVE  FooterGood(u, b + i)
<1> DEFINE f == w[i].body
           s == i - 1 - f.size
           h == s + 2
<1>1. /\ f.size \in 0 .. i - 1
      /\ f.metadata_offsets \in Seq(Nat) /\ f.protoclass_offsets \in Seq(Nat)
      /\ InStreamOf(w, h, i)
      /\ Places(w, Moved(s, f.metadata_offsets), MetadataIn(w, h))
      /\ Places(w, Moved(s, f.protoclass_offsets), ProtoClassesIn(w, h))
  BY DEF FooterGood
<1>2. u[b + i] = w[i] /\ i \in 1 .. Len(w)
  BY DEF PartOf
<1> HIDE DEF f
<1>3. s \in Nat /\ h \in DOMAIN w /\ f.size \in 0 .. b + i - 1
      /\ b + i - 1 - f.size = b + s /\ b + s + 2 = b + h
  <2>1. i \in Nat /\ Len(w) \in Nat /\ i <= Len(w) /\ DOMAIN w = 1 .. Len(w)
    BY <1>2
  <2>2. i - 1 - f.size + 2 \in 1 .. i
    BY <1>1 DEF InStreamOf
  <2>3. QED
    BY <1>1, <2>1, <2>2, BaseOfPart, Zenon
<1> HIDE DEF s, h
<1>4. InStreamOf(u, b + h, b + i)
  BY <1>1, <1>3, PartStreams
<1>5. ASSUME NEW offsets \in Seq(Nat)
      PROVE  /\ Moved(s, offsets) \in Seq(Nat)
             /\ Moved(b, Moved(s, offsets)) = Moved(b + s, offsets)
  BY <1>3, MovedTwice
<1>6. /\ MetadataIn(u, b + h) = Shift(b, MetadataIn(w, h))
      /\ ProtoClassesIn(u, b + h) = Shift(b, ProtoClassesIn(w, h))
  BY <1>3, PartFinds
<1>7. MetadataIn(w, h) \in SUBSET DOMAIN w /\ ProtoClassesIn(w, h) \in SUBSET DOMAIN w
  BY DEF MetadataIn, ProtoClassesIn
<1>8. Places(u, Moved(b + s, f.metadata_offsets), MetadataIn(u, b + h))
  <2>1. Places(u, Moved(b, Moved(s, f.metadata_offsets)), Shift(b, MetadataIn(w, h)))
    BY <1>1, <1>5, <1>7, PartPlaces
  <2>2. QED
    BY <1>1, <1>5, <1>6, <2>1
<1>9. Places(u, Moved(b + s, f.protoclass_offsets), ProtoClassesIn(u, b + h))
  <2>1. Places(u, Moved(b, Moved(s, f.protoclass_offsets)), Shift(b, ProtoClassesIn(w, h)))
    BY <1>1, <1>5, <1>7, PartPlaces
  <2>2. QED
    BY <1>1, <1>5, <1>6, <2>1
<1>10. u[b + i].body = f
  BY <1>2 DEF f
<1> DEFINE k == b + i
           z == b + s
<1>11. u[k].body = f /\ k - 1 - f.size = z /\ z + 2 = b + h
  BY <1>2, <1>3, <1>10, SMTT(30)
<1>12. InStreamOf(u, z + 2, k)
  BY <1>4, <1>11
<1>13. /\ Places(u, Moved(z, f.metadata_offsets), MetadataIn(u, z + 2))
       /\ Places(u, Moved(z, f.protoclass_offsets), ProtoClassesIn(u, z + 2))
  BY <1>8, <1>9, <1>11
<1>14. f.size \in 0 .. k - 1
  BY <1>3
<1> HIDE DEF k, z
<1>15. FooterGood(u, k)
  BY <1>1, <1>11, <1>12, <1>13, <1>14 DEF FooterGood
<1>16. QED
  BY <1>15 DEF k

\* What binds the ids of a stream's messages, likewise.
LEMMA PartBinds ==
  ASSUME NEW w \in Seq(Cell), NEW u \in Seq(Cell), NEW b \in Nat, PartOf(w, u, b),
         NothingBehind(w, u, b), NEW h \in DOMAIN w, StreamBinds(w, h)
  PROVE  StreamBinds(u, b + h)
<1>1. \A k \in 1 .. Len(w) : u[b + k] = w[k]
  BY DEF PartOf
<1>2. ProtoClassesIn(u, b + h) = Shift(b, ProtoClassesIn(w, h))
  BY PartFinds
<1>3. ProtoClassesIn(w, h) \in SUBSET DOMAIN w
  BY DEF ProtoClassesIn
<1>4. ASSUME NEW j \in ProtoClassesIn(u, b + h), NEW k \in ProtoClassesIn(u, b + h),
             u[j].body.class_id = u[k].body.class_id
      PROVE  j = k
  <2>1. PICK x \in ProtoClassesIn(w, h) : j = b + x
    BY <1>2 DEF Shift
  <2>2. PICK y \in ProtoClassesIn(w, h) : k = b + y
    BY <1>2 DEF Shift
  <2>3. u[j] = w[x] /\ u[k] = w[y]
    BY <1>1, <1>3, <2>1, <2>2
  <2>4. x = y
    BY <1>4, <2>3 DEF StreamBinds
  <2>5. QED
    BY <2>1, <2>2, <2>4
<1>5. ASSUME NEW i \in DOMAIN u, IsUserMessage(u[i]), InStreamOf(u, b + h, i)
      PROVE  \E j \in ProtoClassesIn(u, b + h) : Binds(u, j, i)
  <2>1. IsMessage(u[i])
    BY <1>5 DEF IsUserMessage, IsMessage
  <2>2. i <= b + Len(w)
    <3>1. b + h \in 1 .. b + Len(w)
      OBVIOUS
    <3>2. QED
      BY <1>5, <2>1, <3>1 DEF NothingBehind
  <2>3. i - b \in DOMAIN w /\ i = b + (i - b)
    BY <1>5, <2>2 DEF InStreamOf
  <2>4. PICK x \in DOMAIN w : i = b + x
    BY <2>3
  <2>5. InStreamOf(u, b + h, b + x) /\ u[b + x] = w[x] /\ u[i] = u[b + x]
    <3>1. InStreamOf(u, b + h, b + x) /\ u[i] = u[b + x]
      BY <1>5, <2>4
    <3>2. u[b + x] = w[x]
      BY <1>1, SMTT(30)
    <3>3. QED
      BY <3>1, <3>2
  <2>6. InStreamOf(w, h, x)
    BY <2>5, PartStreams
  <2>7. IsUserMessage(w[x])
    BY <1>5, <2>5
  <2>8. PICK y \in ProtoClassesIn(w, h) : Binds(w, y, x)
    BY <2>6, <2>7 DEF StreamBinds
  <2>9. u[b + y] = w[y] /\ b + y \in ProtoClassesIn(u, b + h)
    BY <1>1, <1>2, <1>3, SMTT(30) DEF Shift
  <2>10. QED
    BY <2>5, <2>8, <2>9 DEF Binds
<1>6. QED
  BY <1>4, <1>5 DEF StreamBinds

\* The beginning of the file of one stream.
Starts(v) ==
    \/ v = << >>
    \/ v[1].kind = "START_MAGIC" /\ (Len(v) >= 2 => HasId(v[2], StreamHeaderId))
    \/ v[1].kind = "TORN_MAGIC" /\ Len(v) = 1

\* A file is added to another one.
LEMMA FileAppend ==
  ASSUME NEW w, FileOK(w), NEW v, FileOK(v), Starts(v)
  PROVE  /\ FileOK(w \o v)
         /\ \A i \in DOMAIN (w \o v) :
              \/ i \in DOMAIN w /\ (w \o v)[i] = w[i]
              \/ \E j \in DOMAIN v : i = Len(w) + j /\ (w \o v)[i] = v[j]
<1> DEFINE u == w \o v
           b == Len(w)
<1>1. /\ w \in Seq(Cell) /\ v \in Seq(Cell) /\ b \in Nat /\ Len(v) \in Nat
      /\ DOMAIN w = 1 .. b /\ DOMAIN v = 1 .. Len(v)
  BY DEF FileOK
<1>2. /\ u \in Seq(Cell) /\ Len(u) = b + Len(v) /\ DOMAIN u = 1 .. Len(u)
      /\ \A i \in 1 .. b : u[i] = w[i]
      /\ \A i \in 1 .. Len(v) : u[b + i] = v[i]
  BY <1>1
<1> HIDE DEF u, b
<1>3. ASSUME NEW i \in DOMAIN u
      PROVE  \/ i \in DOMAIN w /\ u[i] = w[i]
             \/ \E j \in DOMAIN v : i = b + j /\ u[i] = v[j]
  <2>1. CASE i <= b
    BY <1>1, <1>2, <2>1
  <2>2. CASE i > b
    <3>1. i - b \in DOMAIN v /\ i = b + (i - b)
      BY <1>1, <1>2, <2>2
    <3>2. PICK j \in DOMAIN v : i = b + j
      BY <3>1
    <3>3. QED
      BY <1>1, <1>2, <3>2
  <2>3. QED
    BY <1>1, <1>2, <2>1, <2>2
<1>4. PartOf(w, u, 0) /\ PartOf(v, u, b)
  BY <1>1, <1>2 DEF PartOf, b
<1>5. NothingBehind(v, u, b)
  BY <1>1, <1>2 DEF NothingBehind
<1>6. NothingBehind(w, u, 0)
  <2>1. SUFFICES ASSUME NEW m \in DOMAIN u, NEW h \in 1 .. b, m > b, InStreamOf(u, h, m)
                 PROVE  ~IsMessage(u[m])
    BY <1>1 DEF NothingBehind, b
  <2>2. v # << >> /\ Len(v) >= 1
    BY <1>1, <1>2, <2>1
  <2>3. /\ v[1].kind \in {"START_MAGIC", "TORN_MAGIC"}
        /\ Len(v) >= 2 => HasId(v[2], StreamHeaderId)
    BY <1>1, <2>2 DEF Starts
  <2>4. m = b + 1
    <3>1. SUFFICES ASSUME m # b + 1 PROVE FALSE
      OBVIOUS
    <3>2. Len(v) >= 2 /\ b + 2 \in h + 1 .. m
      <4>1. m \in Nat /\ m <= b + Len(v) /\ m > b /\ m # b + 1
        BY <1>1, <1>2, <2>1, <3>1
      <4>2. h \in Nat /\ h <= b
        BY <1>1, <2>1
      <4>3. QED
        BY <1>1, <4>1, <4>2
    <3>3. HasId(u[b + 2], StreamHeaderId)
      BY <1>1, <1>2, <2>3, <3>2
    <3>4. QED
      BY <2>1, <3>2, <3>3 DEF InStreamOf
  <2>5. u[m] = v[1]
    BY <1>1, <1>2, <2>2, <2>4
  <2>6. QED
    BY <2>3, <2>5 DEF IsMessage
<1>7. ASSUME NEW h \in HeadersOf(u)
      PROVE  h >= 2 /\ u[h - 1].kind = "START_MAGIC" /\ StreamBinds(u, h)
  <2>1. CASE h \in DOMAIN w /\ u[h] = w[h]
    <3>1. h \in HeadersOf(w) /\ 0 + h = h
      BY <1>1, <1>7, <2>1 DEF HeadersOf
    <3>2. h >= 2 /\ w[h - 1].kind = "START_MAGIC" /\ StreamBinds(w, h)
      BY <3>1 DEF FileOK
    <3>3. u[h - 1] = w[h - 1]
      BY <1>1, <1>2, <2>1, <3>2
    <3>4. StreamBinds(u, 0 + h)
      BY <1>1, <1>2, <1>4, <1>6, <2>1, <3>2, PartBinds
    <3>5. QED
      BY <3>1, <3>2, <3>3, <3>4
  <2>2. ASSUME NEW j \in DOMAIN v, h = b + j, u[h] = v[j]
        PROVE  h >= 2 /\ u[h - 1].kind = "START_MAGIC" /\ StreamBinds(u, h)
    <3>1. j \in HeadersOf(v)
      BY <1>7, <2>2 DEF HeadersOf
    <3>2. j >= 2 /\ v[j - 1].kind = "START_MAGIC" /\ StreamBinds(v, j)
      BY <3>1 DEF FileOK
    <3>3. u[b + (j - 1)] = v[j - 1] /\ b + (j - 1) = h - 1
      BY <1>1, <1>2, <2>2, <3>2, SMTT(30)
    <3>4. StreamBinds(u, b + j)
      BY <1>1, <1>2, <1>4, <1>5, <2>2, <3>2, PartBinds
    <3>5. h >= 2 /\ u[h - 1] = v[j - 1]
      BY <1>1, <2>2, <3>2, <3>3
    <3>6. QED
      BY <2>2, <3>2, <3>4, <3>5
  <2>3. QED
    BY <1>3, <1>7, <2>1, <2>2 DEF HeadersOf
<1>8. ASSUME NEW i \in DOMAIN u
      PROVE  /\ u[i].kind = "FooterSize" => i >= 2 /\ HasId(u[i - 1], StreamFooterId)
             /\ HasId(u[i], StreamFooterId)
                  => FooterGood(u, i) /\ (i + 1 \in DOMAIN u => ~IsMessage(u[i + 1]))
             /\ IsMetadata(u[i]) => u[i].body.class \in MetadataClasses
  <2>1. CASE i \in DOMAIN w /\ u[i] = w[i]
    <3>1. /\ w[i].kind = "FooterSize" => i >= 2 /\ HasId(w[i - 1], StreamFooterId)
          /\ HasId(w[i], StreamFooterId)
               => FooterGood(w, i) /\ (i + 1 \in DOMAIN w => ~IsMessage(w[i + 1]))
          /\ IsMetadata(w[i]) => w[i].body.class \in MetadataClasses
      BY <2>1 DEF FileOK
    <3>2. i >= 2 => u[i - 1] = w[i - 1]
      BY <1>1, <1>2, <2>1
    <3>3. ASSUME HasId(w[i], StreamFooterId)
          PROVE  FooterGood(u, i) /\ (i + 1 \in DOMAIN u => ~IsMessage(u[i + 1]))
      <4>1. FooterGood(u, 0 + i) /\ 0 + i = i
        BY <1>1, <1>2, <1>4, <1>6, <2>1, <3>1, <3>3, PartFooter
      <4>2. CASE i + 1 \in DOMAIN w
        BY <1>1, <1>2, <3>1, <3>3, <4>1, <4>2
      <4>3. CASE i + 1 \notin DOMAIN w /\ i + 1 \in DOMAIN u
        <5>1. i = b /\ Len(v) >= 1 /\ v # << >>
          BY <1>1, <1>2, <2>1, <4>3
        <5>2. u[i + 1] = v[1]
          BY <1>1, <1>2, <5>1
        <5>3. QED
          BY <4>1, <5>1, <5>2 DEF Starts, IsMessage
      <4>4. QED
        BY <4>1, <4>2, <4>3
    <3>4. QED
      BY <2>1, <3>1, <3>2, <3>3
  <2>2. ASSUME NEW j \in DOMAIN v, i = b + j, u[i] = v[j]
        PROVE  /\ u[i].kind = "FooterSize" => i >= 2 /\ HasId(u[i - 1], StreamFooterId)
               /\ HasId(u[i], StreamFooterId)
                    => FooterGood(u, i) /\ (i + 1 \in DOMAIN u => ~IsMessage(u[i + 1]))
               /\ IsMetadata(u[i]) => u[i].body.class \in MetadataClasses
    <3>1. /\ v[j].kind = "FooterSize" => j >= 2 /\ HasId(v[j - 1], StreamFooterId)
          /\ HasId(v[j], StreamFooterId)
               => FooterGood(v, j) /\ (j + 1 \in DOMAIN v => ~IsMessage(v[j + 1]))
          /\ IsMetadata(v[j]) => v[j].body.class \in MetadataClasses
      BY <2>2 DEF FileOK
    <3>2. j >= 2 => i >= 2 /\ u[i - 1] = v[j - 1]
      <4>1. SUFFICES ASSUME j >= 2 PROVE i >= 2 /\ u[i - 1] = v[j - 1]
        OBVIOUS
      <4>2. j - 1 \in 1 .. Len(v) /\ b + (j - 1) = i - 1 /\ i >= 2
        BY <1>1, <2>2, <4>1
      <4>3. QED
        BY <1>2, <4>2
    <3>3. ASSUME HasId(v[j], StreamFooterId)
          PROVE  FooterGood(u, i) /\ (i + 1 \in DOMAIN u => ~IsMessage(u[i + 1]))
      <4>1. FooterGood(u, b + j)
        BY <1>1, <1>2, <1>4, <1>5, <2>2, <3>1, <3>3, PartFooter
      <4>2. ASSUME i + 1 \in DOMAIN u
            PROVE  ~IsMessage(u[i + 1])
        <5>1. j + 1 \in DOMAIN v /\ i + 1 = b + (j + 1)
          BY <1>1, <1>2, <2>2, <4>2
        <5>2. u[i + 1] = v[j + 1]
          BY <1>1, <1>2, <5>1
        <5>3. QED
          BY <3>1, <3>3, <5>1, <5>2
      <4>3. QED
        BY <2>2, <4>1, <4>2
    <3>4. QED
      BY <2>2, <3>1, <3>2, <3>3
  <2>3. QED
    BY <1>3, <2>1, <2>2
<1>9. ASSUME NEW i \in DOMAIN u
      PROVE  /\ IsMessage(u[i]) => \E h \in HeadersOf(u) : h <= i
             /\ IsProtoClass(u[i]) => u[i].body.class_id \notin FixedIds
  <2>1. CASE i \in DOMAIN w /\ u[i] = w[i]
    <3>1. HeadersOf(w) \subseteq HeadersOf(u)
      BY <1>1, <1>2 DEF HeadersOf
    <3>2. QED
      BY <2>1, <3>1 DEF FileOK
  <2>2. ASSUME NEW j \in DOMAIN v, i = b + j, u[i] = v[j]
        PROVE  /\ IsMessage(u[i]) => \E h \in HeadersOf(u) : h <= i
               /\ IsProtoClass(u[i]) => u[i].body.class_id \notin FixedIds
    <3>1. ASSUME IsMessage(v[j]) PROVE \E h \in HeadersOf(u) : h <= i
      <4>1. PICK h \in HeadersOf(v) : h <= j
        BY <3>1 DEF FileOK
      <4>2. h \in 1 .. Len(v) /\ HasId(v[h], StreamHeaderId)
        BY <1>1, <4>1 DEF HeadersOf
      <4>3. b + h \in DOMAIN u /\ b + h <= i
        BY <1>1, <1>2, <2>2, <4>1, <4>2
      <4>4. HasId(u[b + h], StreamHeaderId)
        BY <1>2, <4>2
      <4>5. QED
        BY <4>3, <4>4 DEF HeadersOf
    <3>2. QED
      BY <2>2, <3>1 DEF FileOK
  <2>3. QED
    BY <1>3, <2>1, <2>2
<1>10. FileOK(u)
  BY <1>2, <1>7, <1>8, <1>9 DEF FileOK
<1>11. QED
  BY <1>3, <1>10 DEF u, b
\* The file that ends within the magic of the next stream.
LEMMA TornMagicAdded ==
  ASSUME NEW w, FileOK(w)
  PROVE  LET u == CutInMagic(w)
         IN  /\ FileOK(u) /\ HeadersOf(u) = HeadersOf(w)
             /\ DirectionsOK(w) => DirectionsOK(u)
             /\ \A i \in DOMAIN u : \/ i \in DOMAIN w /\ u[i] = w[i]
                                    \/ ~IsMessage(u[i])
<1> DEFINE c == Mark("TORN_MAGIC", NoBody)
           v == <<c>>
           u == CutInMagic(w)
<1>1. c \in Cell /\ c.kind = "TORN_MAGIC"
  BY DEF Mark, Cell, Body
<1> HIDE DEF c
<1>2. v \in Seq(Cell) /\ Len(v) = 1 /\ DOMAIN v = {1} /\ v[1].kind = "TORN_MAGIC"
  BY <1>1
<1>3. w \in Seq(Cell) /\ Len(w) \in Nat /\ DOMAIN w = 1 .. Len(w)
  BY DEF FileOK
<1>4. u = w \o v
  BY <1>1, <1>3 DEF CutInMagic, c
<1> HIDE DEF v, u
<1>5. FileOK(v) /\ Starts(v)
  BY <1>2 DEF FileOK, Starts, HeadersOf, HasId, IsMetadata, IsUserMessage, IsMessage, IsProtoClass
<1>6. /\ FileOK(u)
      /\ \A i \in DOMAIN u :
           \/ i \in DOMAIN w /\ u[i] = w[i]
           \/ \E j \in DOMAIN v : i = Len(w) + j /\ u[i] = v[j]
  BY <1>4, <1>5, FileAppend
<1>7. \A i \in DOMAIN u : \/ i \in DOMAIN w /\ u[i] = w[i]
                          \/ ~IsMessage(u[i])
  BY <1>2, <1>6 DEF IsMessage
<1>8. /\ \A i \in DOMAIN w : i \in DOMAIN u /\ u[i] = w[i]
  <2>1. u = Append(w, c)
    BY DEF u, CutInMagic, c
  <2>2. QED
    BY <1>1, <1>3, <2>1
<1>9. HeadersOf(u) = HeadersOf(w)
  BY <1>7, <1>8 DEF HeadersOf, HasId, IsMessage
<1>10. DirectionsOK(w) => DirectionsOK(u)
  <2>1. \A h \in HeadersOf(w) : Refers(u, h) = Refers(w, h)
    BY <1>8 DEF HeadersOf, Refers
  <2>2. QED
    BY <1>9, <2>1 DEF DirectionsOK
<1>11. QED
  BY <1>6, <1>7, <1>9, <1>10 DEF u

\* w and v differ in nothing but in how much there is of the client's messages.
Alike(w, v) ==
    /\ DOMAIN v = DOMAIN w
    /\ \A i \in DOMAIN w :
         /\ v[i].kind = w[i].kind /\ v[i].id = w[i].id /\ v[i].z = w[i].z
         /\ IF IsUserMessage(w[i]) THEN v[i].body.class = w[i].body.class
                                   ELSE v[i].body = w[i].body

\* Nothing a reader relies on depends on that.
LEMMA AlikeFile ==
  ASSUME NEW w, FileOK(w), NEW v \in Seq(Cell), Alike(w, v)
  PROVE  FileOK(v) /\ HeadersOf(v) = HeadersOf(w) /\ (DirectionsOK(w) => DirectionsOK(v))
<1>1. /\ w \in Seq(Cell) /\ Len(w) \in Nat /\ DOMAIN w = 1 .. Len(w) /\ DOMAIN v = 1 .. Len(w)
  BY DEF FileOK, Alike
<1>2. ASSUME NEW i \in DOMAIN w
      PROVE  /\ IsUserMessage(v[i]) = IsUserMessage(w[i])
             /\ IsMetadata(v[i]) = IsMetadata(w[i])
             /\ IsMessage(v[i]) = IsMessage(w[i])
             /\ IsProtoClass(v[i]) = IsProtoClass(w[i])
             /\ \A id : HasId(v[i], id) = HasId(w[i], id)
             /\ v[i].kind = w[i].kind /\ v[i].id = w[i].id /\ v[i].z = w[i].z
             /\ IsUserMessage(w[i]) => v[i].body.class = w[i].body.class
             /\ \/ IsProtoClass(w[i]) \/ HasId(w[i], StreamHeaderId)
                \/ HasId(w[i], StreamFooterId)
                => v[i].body = w[i].body
  <2>1. /\ v[i].kind = w[i].kind /\ v[i].id = w[i].id /\ v[i].z = w[i].z
        /\ IF IsUserMessage(w[i]) THEN v[i].body.class = w[i].body.class
                                  ELSE v[i].body = w[i].body
    BY DEF Alike
  <2>2. IsProtoClass(w[i]) \/ HasId(w[i], StreamHeaderId) \/ HasId(w[i], StreamFooterId)
        => ~IsUserMessage(w[i])
    BY DEF IsProtoClass, HasId, IsUserMessage, FixedIds
  <2>3. QED
    BY <2>1, <2>2 DEF IsUserMessage, IsMetadata, IsMessage, IsProtoClass, HasId
<1>3. HeadersOf(v) = HeadersOf(w)
  BY <1>1, <1>2 DEF HeadersOf
<1>4. ASSUME NEW h, NEW i \in DOMAIN w
      PROVE  InStreamOf(v, h, i) = InStreamOf(w, h, i)
  <2>1. \A k \in 1 .. i : k \in DOMAIN w
    BY <1>1
  <2>2. h \in 1 .. i => \A k \in h + 1 .. i : k \in DOMAIN w
    BY <1>1
  <2>3. QED
    BY <1>2, <2>1, <2>2 DEF InStreamOf
<1>5. ASSUME NEW h
      PROVE  MetadataIn(v, h) = MetadataIn(w, h) /\ ProtoClassesIn(v, h) = ProtoClassesIn(w, h)
  BY <1>1, <1>2, <1>4 DEF MetadataIn, ProtoClassesIn
<1>6. ASSUME NEW offsets, NEW cells \in SUBSET DOMAIN w, Places(w, offsets, cells),
             offsets \in Seq(Nat)
      PROVE  Places(v, offsets, cells)
  <2>1. ASSUME NEW m \in DOMAIN offsets
        PROVE  /\ Target(v, offsets[m]) = Target(w, offsets[m])
               /\ v[offsets[m] + 1].z = w[offsets[m] + 1].z
    <3>1. offsets[m] \in Nat /\ Target(w, offsets[m]) \in 1 .. Len(w)
      BY <1>1, <1>6 DEF Places
    <3>2. offsets[m] + 1 \in DOMAIN w
      BY <1>1, <3>1 DEF Target
    <3>3. QED
      BY <1>2, <3>2 DEF Target
  <2>2. QED
    BY <1>6, <2>1 DEF Places
<1>7. ASSUME NEW i \in DOMAIN w, HasId(w[i], StreamFooterId)
      PROVE  FooterGood(v, i) /\ (i + 1 \in DOMAIN v => ~IsMessage(v[i + 1]))
  <2> DEFINE f == w[i].body
             b == i - 1 - f.size
  <2>1. v[i].body = f
    BY <1>2, <1>7
  <2>2. FooterGood(w, i) /\ (i + 1 \in DOMAIN w => ~IsMessage(w[i + 1]))
    BY <1>7 DEF FileOK
  <2>3. /\ f.size \in 0 .. i - 1
        /\ f.metadata_offsets \in Seq(Nat) /\ f.protoclass_offsets \in Seq(Nat)
        /\ InStreamOf(w, b + 2, i)
        /\ Places(w, Moved(b, f.metadata_offsets), MetadataIn(w, b + 2))
        /\ Places(w, Moved(b, f.protoclass_offsets), ProtoClassesIn(w, b + 2))
    BY <2>2 DEF FooterGood
  <2> HIDE DEF f
  <2>4. b \in Nat
    BY <1>1, <2>3
  <2>5. Moved(b, f.metadata_offsets) \in Seq(Nat) /\ Moved(b, f.protoclass_offsets) \in Seq(Nat)
    BY <2>3, <2>4, MovedTwice
  <2>6. MetadataIn(w, b + 2) \in SUBSET DOMAIN w /\ ProtoClassesIn(w, b + 2) \in SUBSET DOMAIN w
    BY DEF MetadataIn, ProtoClassesIn
  <2>7. /\ Places(v, Moved(b, f.metadata_offsets), MetadataIn(v, b + 2))
        /\ Places(v, Moved(b, f.protoclass_offsets), ProtoClassesIn(v, b + 2))
    BY <1>5, <1>6, <2>3, <2>5, <2>6
  <2>8. InStreamOf(v, b + 2, i)
    BY <1>4, <2>3
  <2>9. FooterGood(v, i)
    BY <2>1, <2>3, <2>7, <2>8 DEF FooterGood
  <2>10. i + 1 \in DOMAIN v => ~IsMessage(v[i + 1])
    BY <1>1, <1>2, <2>2
  <2>11. QED
    BY <2>9, <2>10
<1>8. ASSUME NEW h \in HeadersOf(w)
      PROVE  StreamBinds(v, h)
  <2>1. StreamBinds(w, h)
    BY DEF FileOK
  <2>2. \A j \in ProtoClassesIn(w, h) : j \in DOMAIN w /\ v[j].body = w[j].body
    BY <1>2 DEF ProtoClassesIn
  <2>3. ASSUME NEW i \in DOMAIN w, IsUserMessage(v[i]), InStreamOf(v, h, i)
        PROVE  \E j \in ProtoClassesIn(v, h) : Binds(v, j, i)
    <3>1. IsUserMessage(w[i]) /\ v[i].body.class = w[i].body.class /\ v[i].id = w[i].id
      BY <1>2, <2>3
    <3>2. PICK j \in ProtoClassesIn(w, h) : Binds(w, j, i)
      BY <1>4, <2>1, <2>3, <3>1 DEF StreamBinds
    <3>3. QED
      BY <1>5, <2>2, <3>1, <3>2 DEF Binds
  <2>4. QED
    BY <1>1, <1>5, <2>1, <2>2, <2>3 DEF StreamBinds
<1>9. FileOK(v)
  <2>1. \A i \in HeadersOf(v) : i >= 2 /\ v[i - 1].kind = "START_MAGIC"
    <3>1. SUFFICES ASSUME NEW i \in HeadersOf(w) PROVE i >= 2 /\ v[i - 1].kind = "START_MAGIC"
      BY <1>3
    <3>2. i \in 1 .. Len(w) /\ i >= 2 /\ w[i - 1].kind = "START_MAGIC"
      BY <1>1 DEF FileOK, HeadersOf
    <3>3. i - 1 \in DOMAIN w
      BY <1>1, <3>2
    <3>4. QED
      BY <1>2, <3>2, <3>3
  <2>2. \A i \in DOMAIN v : v[i].kind = "FooterSize" => i >= 2 /\ HasId(v[i - 1], StreamFooterId)
    <3>1. SUFFICES ASSUME NEW i \in DOMAIN w, w[i].kind = "FooterSize"
                   PROVE  i >= 2 /\ HasId(v[i - 1], StreamFooterId)
      BY <1>1, <1>2
    <3>2. i \in 1 .. Len(w) /\ i >= 2 /\ HasId(w[i - 1], StreamFooterId)
      BY <1>1, <3>1 DEF FileOK
    <3>3. i - 1 \in DOMAIN w
      BY <1>1, <3>2
    <3>4. QED
      BY <1>2, <3>2, <3>3
  <2>3. \A i \in DOMAIN v : HasId(v[i], StreamFooterId)
                            => FooterGood(v, i) /\ (i + 1 \in DOMAIN v => ~IsMessage(v[i + 1]))
    BY <1>1, <1>2, <1>7
  <2>4. \A h \in HeadersOf(v) : StreamBinds(v, h)
    BY <1>3, <1>8
  <2>5. \A i \in DOMAIN v : IsMetadata(v[i]) => v[i].body.class \in MetadataClasses
    BY <1>1, <1>2 DEF FileOK, IsMetadata
  <2>6. \A i \in DOMAIN v : IsMessage(v[i]) => \E h \in HeadersOf(v) : h <= i
    BY <1>1, <1>2, <1>3 DEF FileOK
  <2>7. \A i \in DOMAIN v : IsProtoClass(v[i]) => v[i].body.class_id \notin FixedIds
    BY <1>1, <1>2 DEF FileOK
  <2>8. QED
    BY <2>1, <2>2, <2>3, <2>4, <2>5, <2>6, <2>7 DEF FileOK
<1>10. DirectionsOK(w) => DirectionsOK(v)
  <2>1. \A h \in HeadersOf(w) : Refers(v, h) = Refers(w, h)
    BY <1>2 DEF HeadersOf, Refers
  <2>2. QED
    BY <1>3, <2>1 DEF DirectionsOK
<1>11. QED
  BY <1>3, <1>9, <1>10

\* The file that ends within its last message.
LEMMA CutMessageRight ==
  ASSUME NEW w, FileOK(w), w # << >>, IsUserMessage(w[Len(w)]), w[Len(w)].body.class \in Class
  PROVE  LET v == CutInMessage(w)
         IN  /\ FileOK(v) /\ (DirectionsOK(w) => DirectionsOK(v))
             /\ Len(v) = Len(w) /\ \A i \in DOMAIN v : i # Len(v) => v[i] = w[i]
<1> DEFINE n == Len(w)
           b == [class |-> w[n].body.class, whole |-> FALSE]
           c == [w[n] EXCEPT !.body = b]
           v == [w EXCEPT ![n] = c]
<1>1. w \in Seq(Cell) /\ n \in Nat /\ DOMAIN w = 1 .. n /\ n \in 1 .. n
  BY DEF FileOK
<1>2. /\ c \in Cell /\ c.kind = w[n].kind /\ c.id = w[n].id /\ c.z = w[n].z
      /\ c.body.class = w[n].body.class
  <2>1. b \in Body
    BY DEF Body
  <2> HIDE DEF b
  <2>2. w[n] \in Cell
    BY <1>1
  <2>3. c \in Cell /\ c.kind = w[n].kind /\ c.id = w[n].id /\ c.z = w[n].z /\ c.body = b
    BY <2>1, <2>2 DEF Cell
  <2>4. QED
    BY <2>3 DEF b
<1>3. v = CutInMessage(w)
  <2>1. CutInMessage(w) = [w EXCEPT ![n].body = b]
    BY DEF CutInMessage
  <2> HIDE DEF b
  <2>2. QED
    BY <2>1
<1> HIDE DEF c, n
<1>4. /\ v \in Seq(Cell) /\ DOMAIN v = DOMAIN w /\ Len(v) = n /\ v[n] = c
      /\ \A i \in DOMAIN w : i # n => v[i] = w[i]
  BY <1>1, <1>2
<1>5. Alike(w, v)
  <2>1. IsUserMessage(w[n])
    BY DEF n
  <2> HIDE DEF v
  <2>2. QED
    BY <1>1, <1>2, <1>4, <2>1 DEF Alike
<1> HIDE DEF v
<1>6. FileOK(v) /\ (DirectionsOK(w) => DirectionsOK(v))
  BY <1>4, <1>5, AlikeFile
<1>7. QED
  BY <1>3, <1>4, <1>6 DEF n
-----------------------------------------------------------------------------
(* The file of one stream.                                                  *)

\* What stands where in the file of a stream, open or closed.
LEMMA StreamShape ==
  ASSUME NEW s, FileInv(s), s.dropped = << >>
  PROVE  LET w == s.wire
         IN  /\ w \in Seq(Cell)
             /\ w # << >> => /\ s.opened /\ Len(w) >= 2
                             /\ w[1].kind = "START_MAGIC" /\ HasId(w[2], StreamHeaderId)
             /\ \A i \in DOMAIN w : HasId(w[i], StreamHeaderId) => i = 2
             /\ \A i \in DOMAIN w : w[i].kind = "FooterSize"
                                    => i >= 2 /\ HasId(w[i - 1], StreamFooterId)
             /\ \A i \in DOMAIN w : HasId(w[i], StreamFooterId) =>
                  /\ i > 2 /\ w[i].body.size = i - 1
                  /\ w[i].body.metadata_offsets = s.metadata_positions
                  /\ w[i].body.protoclass_offsets = s.protoclass_positions
                  /\ \A k \in DOMAIN w : k > i => ~IsMessage(w[k])
<1> DEFINE w == s.wire
<1>1. w \in Seq(Cell) /\ Len(w) \in Nat /\ DOMAIN w = 1 .. Len(w)
  BY StreamOKIsRecord DEF FileInv, Sound, StreamOK, StreamRecord
<1>2. CASE ~s.opened
  <2>1. w = << >> /\ DOMAIN w = {}
    BY <1>2 DEF FileInv
  <2>2. QED
    BY <1>1, <2>1
<1>3. CASE s.opened /\ ~s.closed
  <2>1. Layout(w)
    BY <1>3 DEF FileInv
  <2> HIDE DEF w
  <2>2. /\ Len(w) >= 2 /\ w[1].kind = "START_MAGIC" /\ HasId(w[2], StreamHeaderId)
        /\ \A i \in 3 .. Len(w) : IsMessage(w[i]) /\ w[i].id \notin {StreamHeaderId, StreamFooterId}
    BY <2>1 DEF Layout
  <2>3. \A i \in 1 .. Len(w) : i = 1 \/ i = 2 \/ i \in 3 .. Len(w)
    BY <1>1
  <2>4. /\ \A i \in 1 .. Len(w) : HasId(w[i], StreamHeaderId) => i = 2
        /\ \A i \in 1 .. Len(w) : ~HasId(w[i], StreamFooterId) /\ w[i].kind # "FooterSize"
    BY <2>2, <2>3, FixedIdsDiffer DEF HasId, IsMessage
  <2>5. QED
    BY <1>1, <1>3, <2>2, <2>4 DEF w
<1>4. CASE s.closed
  <2>1. /\ Truthful(w) /\ s.opened
        /\ w[Len(w) - 2].body.metadata_offsets = s.metadata_positions
        /\ w[Len(w) - 2].body.protoclass_offsets = s.protoclass_positions
    BY <1>4 DEF FileInv, FooterRight
  <2> HIDE DEF w
  <2> DEFINE f == Len(w) - 2
  <2>2. /\ Len(w) > 4
        /\ w[1].kind = "START_MAGIC" /\ HasId(w[2], StreamHeaderId)
        /\ HasId(w[f], StreamFooterId)
        /\ w[f + 1].kind = "FooterSize" /\ w[f + 2].kind = "END_MAGIC"
        /\ \A i \in 3 .. f - 1 : IsMessage(w[i]) /\ w[i].id \notin {StreamHeaderId, StreamFooterId}
        /\ w[f].body.size = f - 1
    BY <2>1 DEF Truthful
  <2>3. f > 2 /\ f \in Nat /\ f + 2 = Len(w)
    BY <1>1, <2>2
  <2>4. \A i \in 1 .. Len(w) : \/ i = 1 \/ i = 2 \/ i \in 3 .. f - 1
                               \/ i = f \/ i = f + 1 \/ i = f + 2
    <3>1. f \in Nat /\ Len(w) = f + 2
      BY <1>1, <2>3
    <3> HIDE DEF f
    <3>2. QED
      BY <3>1, <2>3
  <2>5. /\ w[f].body.metadata_offsets = s.metadata_positions
        /\ w[f].body.protoclass_offsets = s.protoclass_positions
    BY <2>1
  <2> HIDE DEF f
  <2>6. /\ \A i \in 1 .. Len(w) : HasId(w[i], StreamHeaderId) => i = 2
        /\ \A i \in 1 .. Len(w) : HasId(w[i], StreamFooterId) => i = f
        /\ \A i \in 1 .. Len(w) : w[i].kind = "FooterSize" => i = f + 1
    BY <2>2, <2>4, FixedIdsDiffer DEF HasId, IsMessage
  <2>7. \A k \in 1 .. Len(w) : k > f => ~IsMessage(w[k])
    <3>1. \A k \in 1 .. Len(w) : k > f => k = f + 1 \/ k = f + 2
      BY <1>1, <2>3
    <3>2. QED
      BY <2>2, <3>1 DEF IsMessage
  <2>8. f + 1 >= 2 /\ f + 1 - 1 = f /\ Len(w) >= 2
    BY <2>2, <2>3
  <2>9. \A i \in 1 .. Len(w) : w[i].kind = "FooterSize"
                               => i >= 2 /\ HasId(w[i - 1], StreamFooterId)
    <3>1. \A i \in 1 .. Len(w) : w[i].kind = "FooterSize" => i = f + 1
      BY <2>6
    <3>2. \A i : i = f + 1 => i >= 2 /\ i - 1 = f
      <4>1. f \in Nat /\ f + 1 >= 2
        BY <2>3, <2>8
      <4>2. QED
        BY <4>1
    <3>3. QED
      BY <2>2, <3>1, <3>2
  <2>10. \A i \in 1 .. Len(w) : HasId(w[i], StreamFooterId) =>
           /\ i > 2 /\ w[i].body.size = i - 1
           /\ w[i].body.metadata_offsets = s.metadata_positions
           /\ w[i].body.protoclass_offsets = s.protoclass_positions
           /\ \A k \in 1 .. Len(w) : k > i => ~IsMessage(w[k])
    BY <2>2, <2>3, <2>5, <2>6, <2>7
  <2>11. QED
    BY <1>1, <2>1, <2>2, <2>6, <2>8, <2>9, <2>10 DEF w
<1>5. QED
  BY <1>2, <1>3, <1>4

\* The file of a stream, and every beginning of it.
LEMMA CutFileOK ==
  ASSUME NEW s, FileInv(s), s.dropped = << >>,
         \A c \in DOMAIN s.class_id : IsMetadataId(s.class_id[c]) => c \in MetadataClasses,
         NEW n \in 0 .. Len(s.wire)
  PROVE  LET v == SubSeq(s.wire, 1, n)
         IN  /\ FileOK(v) /\ Starts(v) /\ HeadersOf(v) \subseteq {2}
             /\ \A h \in HeadersOf(v) : v[h] = s.wire[h] /\ s.opened
             /\ \A i \in DOMAIN v : IsUserMessage(v[i]) => v[i].body.whole /\ v[i].body.class \in Class
<1> DEFINE w == s.wire
           v == SubSeq(w, 1, n)
<1>1. /\ w \in Seq(Cell)
      /\ w # << >> => /\ s.opened /\ Len(w) >= 2
                      /\ w[1].kind = "START_MAGIC" /\ HasId(w[2], StreamHeaderId)
      /\ \A i \in DOMAIN w : HasId(w[i], StreamHeaderId) => i = 2
      /\ \A i \in DOMAIN w : w[i].kind = "FooterSize"
                             => i >= 2 /\ HasId(w[i - 1], StreamFooterId)
      /\ \A i \in DOMAIN w : HasId(w[i], StreamFooterId) =>
           /\ i > 2 /\ w[i].body.size = i - 1
           /\ w[i].body.metadata_offsets = s.metadata_positions
           /\ w[i].body.protoclass_offsets = s.protoclass_positions
           /\ \A k \in DOMAIN w : k > i => ~IsMessage(w[k])
  BY StreamShape
<1>2. /\ FileRight(s) /\ IdsDistinct(s)
      /\ s.metadata_positions \in Seq(Nat) /\ s.protoclass_positions \in Seq(Nat)
  BY StreamOKIsRecord DEF FileInv, Sound, StreamOK, StreamRecord, IdsInv
<1>3. /\ v \in Seq(Cell) /\ Len(v) = n /\ DOMAIN v = 1 .. n /\ n \in Nat /\ n <= Len(w)
      /\ DOMAIN w = 1 .. Len(w) /\ \A i \in 1 .. n : v[i] = w[i] /\ i \in DOMAIN w
  BY <1>1
<1> HIDE DEF w, v
<1>4. \A i \in 1 .. n : HasId(v[i], StreamHeaderId) => i = 2
  BY <1>1, <1>3
<1>5. ASSUME NEW i \in 1 .. n, i >= 2
      PROVE  InStreamOf(v, 2, i) /\ HasId(v[2], StreamHeaderId) /\ w # << >>
  <2>1. w # << >> /\ 2 \in 1 .. n /\ 2 \in 1 .. i
    BY <1>3, <1>5
  <2>2. HasId(v[2], StreamHeaderId)
    BY <1>1, <1>3, <2>1
  <2>3. \A k \in 3 .. i : k \in 1 .. n /\ k # 2
    BY <1>3, <1>5
  <2>4. QED
    BY <1>4, <2>1, <2>2, <2>3 DEF InStreamOf
<1>6. HeadersOf(v) \subseteq {2}
  BY <1>3, <1>4 DEF HeadersOf
<1>7. Starts(v)
  <2>1. SUFFICES ASSUME v # << >>
                 PROVE  v[1].kind = "START_MAGIC" /\ (Len(v) >= 2 => HasId(v[2], StreamHeaderId))
    BY DEF Starts
  <2>2. 1 \in 1 .. n
    BY <1>3, <2>1
  <2>3. w # << >>
    BY <1>3, <2>2
  <2>4. QED
    BY <1>1, <1>3, <1>5, <2>2, <2>3
<1>8. \A i \in HeadersOf(v) : i >= 2 /\ v[i - 1].kind = "START_MAGIC"
  <2>1. SUFFICES ASSUME 2 \in HeadersOf(v) PROVE v[1].kind = "START_MAGIC"
    BY <1>6
  <2>2. v # << >>
    BY <2>1 DEF HeadersOf
  <2>3. QED
    BY <1>3, <1>7, <2>1, <2>2 DEF Starts, HeadersOf
<1>9. \A i \in DOMAIN v : v[i].kind = "FooterSize" => i >= 2 /\ HasId(v[i - 1], StreamFooterId)
  <2>1. SUFFICES ASSUME NEW i \in 1 .. n, w[i].kind = "FooterSize"
                 PROVE  i >= 2 /\ HasId(v[i - 1], StreamFooterId)
    BY <1>3
  <2>2. i >= 2 /\ HasId(w[i - 1], StreamFooterId)
    BY <1>1, <1>3, <2>1
  <2>3. i - 1 \in 1 .. n
    BY <2>2
  <2>4. QED
    BY <1>3, <2>2, <2>3
<1>10. /\ \A i \in ProtoClassesIn(v, 2) : i \in ProtoClassesAt(w) /\ v[i] = w[i] /\ i \in 1 .. n
       /\ \A i \in ProtoClassesAt(w) : i <= n => i \in ProtoClassesIn(v, 2)
       /\ \A i \in MetadataIn(v, 2) : i \in MetadataAt(w) /\ v[i] = w[i] /\ i \in 1 .. n
       /\ \A i \in MetadataAt(w) : i <= n => i \in MetadataIn(v, 2)
  <2>1. ASSUME NEW i \in 1 .. n, IsUserMessage(w[i]) \/ IsProtoClass(w[i])
        PROVE  i >= 2
    <3>1. w[1].kind = "START_MAGIC" => i # 1
      BY <1>3, <2>1 DEF IsUserMessage, IsProtoClass, HasId
    <3>2. w # << >>
      BY <1>3
    <3>3. QED
      BY <1>1, <3>1, <3>2
  <2>2. \A c : IsMetadata(c) => IsUserMessage(c)
    BY DEF IsMetadata
  <2>3. QED
    BY <1>3, <1>5, <2>1, <2>2 DEF ProtoClassesIn, MetadataIn, ProtoClassesAt, MetadataAt
<1>11. ASSUME NEW i \in 1 .. n, HasId(w[i], StreamFooterId)
       PROVE  FooterGood(v, i) /\ (i + 1 \in DOMAIN v => ~IsMessage(v[i + 1]))
  <2>1. /\ i > 2 /\ w[i].body.size = i - 1
        /\ w[i].body.metadata_offsets = s.metadata_positions
        /\ w[i].body.protoclass_offsets = s.protoclass_positions
        /\ \A k \in DOMAIN w : k > i => ~IsMessage(w[k])
    BY <1>1, <1>3, <1>11
  <2>2. v[i] = w[i] /\ InStreamOf(v, 2, i)
    BY <1>3, <1>5, <2>1
  <2>3. \A k \in DOMAIN w : IsUserMessage(w[k]) \/ IsProtoClass(w[k]) => k <= i
    <3>1. \A c : IsUserMessage(c) \/ IsProtoClass(c) => IsMessage(c)
      BY DEF IsUserMessage, IsProtoClass, HasId, IsMessage
    <3>2. QED
      BY <1>3, <2>1, <3>1
  <2>4. MetadataAt(w) = MetadataIn(v, 2) /\ ProtoClassesAt(w) = ProtoClassesIn(v, 2)
    <3>1. \A k \in MetadataAt(w) : k <= n
      BY <1>3, <2>3 DEF MetadataAt, IsMetadata
    <3>2. \A k \in ProtoClassesAt(w) : k <= n
      BY <1>3, <2>3 DEF ProtoClassesAt
    <3>3. QED
      BY <1>10, <3>1, <3>2
  <2>5. ASSUME NEW offsets \in Seq(Nat), NEW cells \in SUBSET (1 .. n),
               Places(w, offsets, cells)
        PROVE  Places(v, Moved(0, offsets), cells)
    <3>1. Moved(0, offsets) = offsets
      BY DEF Moved
    <3>2. ASSUME NEW m \in DOMAIN offsets
          PROVE  /\ Target(v, offsets[m]) = Target(w, offsets[m])
                 /\ v[offsets[m] + 1] = w[offsets[m] + 1]
      <4>1. offsets[m] \in Nat /\ Target(w, offsets[m]) \in 1 .. n
        <5>1. offsets[m] \in Nat
          OBVIOUS
        <5>2. Target(w, offsets[m]) \in cells
          BY <2>5 DEF Places
        <5>3. QED
          BY <5>1, <5>2
      <4>2. offsets[m] + 1 \in 1 .. n
        BY <4>1 DEF Target
      <4>3. v[offsets[m] + 1] = w[offsets[m] + 1]
        BY <1>3, <4>2
      <4>4. QED
        BY <4>3 DEF Target
    <3>3. QED
      BY <2>5, <3>1, <3>2 DEF Places
  <2>6. /\ Places(w, s.metadata_positions, MetadataAt(w))
        /\ Places(w, s.protoclass_positions, ProtoClassesAt(w))
    BY <1>2 DEF FileRight, Placed, w
  <2>7. MetadataAt(w) \in SUBSET (1 .. n) /\ ProtoClassesAt(w) \in SUBSET (1 .. n)
    BY <1>10, <2>4
  <2>8. /\ Places(v, Moved(0, s.metadata_positions), MetadataIn(v, 2))
        /\ Places(v, Moved(0, s.protoclass_positions), ProtoClassesIn(v, 2))
    BY <1>2, <2>4, <2>5, <2>6, <2>7
  <2>9. i - 1 - v[i].body.size = 0 /\ v[i].body.size \in 0 .. i - 1
    BY <2>1, <2>2
  <2>10. FooterGood(v, i)
    <3> DEFINE size == v[i].body.size
               b == i - 1 - size
    <3>1. b = 0 /\ b + 2 = 2
      BY <2>9
    <3>2. /\ InStreamOf(v, b + 2, i)
          /\ Places(v, Moved(b, v[i].body.metadata_offsets), MetadataIn(v, b + 2))
          /\ Places(v, Moved(b, v[i].body.protoclass_offsets), ProtoClassesIn(v, b + 2))
      BY <2>1, <2>2, <2>8, <3>1
    <3>3. v[i].body.metadata_offsets \in Seq(Nat) /\ v[i].body.protoclass_offsets \in Seq(Nat)
      BY <1>2, <2>1, <2>2
    <3>4. QED
      BY <2>9, <3>2, <3>3 DEF FooterGood
  <2>11. QED
    BY <1>3, <2>1, <2>10
<1>12. \A h \in HeadersOf(v) : StreamBinds(v, h)
  <2>1. SUFFICES StreamBinds(v, 2)
    BY <1>6
  <2>2. ASSUME NEW j \in ProtoClassesIn(v, 2), NEW k \in ProtoClassesIn(v, 2),
               v[j].body.class_id = v[k].body.class_id
        PROVE  j = k
    <3>1. /\ j \in ProtoClassesAt(w) /\ k \in ProtoClassesAt(w)
          /\ w[j].body.class_id = w[k].body.class_id
      BY <1>10, <2>2
    <3>2. /\ w[j].body.full_name \in DOMAIN s.class_id
          /\ w[j].body.class_id = s.class_id[w[j].body.full_name]
          /\ w[k].body.full_name \in DOMAIN s.class_id
          /\ w[k].body.class_id = s.class_id[w[k].body.full_name]
      BY <1>2, <3>1 DEF FileRight, ClassesDefined, w
    <3>3. w[j].body.full_name = w[k].body.full_name
      BY <1>2, <3>1, <3>2 DEF IdsDistinct
    <3>4. QED
      BY <1>2, <3>1, <3>3 DEF FileRight, ClassesDefined, w
  <2>3. ASSUME NEW i \in DOMAIN v, IsUserMessage(v[i])
        PROVE  \E j \in ProtoClassesIn(v, 2) : Binds(v, j, i)
    <3>1. i \in DOMAIN w /\ v[i] = w[i] /\ i <= n
      BY <1>3
    <3>2. Decodable(w, i)
      BY <1>2, <2>3, <3>1 DEF FileRight, AllDecodable, w
    <3>3. PICK j \in ProtoClassesBefore(w, i) :
            w[j].body.class_id = w[i].id /\ w[j].body.full_name = w[i].body.class
      BY <3>2 DEF Decodable
    <3>4. j \in ProtoClassesAt(w) /\ j <= n
      BY <1>3, <3>1, <3>3 DEF ProtoClassesBefore, ProtoClassesAt, IsProtoClass
    <3>5. j \in ProtoClassesIn(v, 2) /\ v[j] = w[j]
      BY <1>10, <3>4
    <3>6. QED
      BY <3>1, <3>3, <3>5 DEF Binds
  <2>4. QED
    BY <2>2, <2>3 DEF StreamBinds
<1>13. \A i \in DOMAIN v : IsMetadata(v[i]) => v[i].body.class \in MetadataClasses
  <2>1. SUFFICES ASSUME NEW i \in DOMAIN w, IsMetadata(w[i])
                 PROVE  w[i].body.class \in MetadataClasses
    BY <1>3
  <2>2. Decodable(w, i)
    BY <1>2, <2>1 DEF FileRight, AllDecodable, IsMetadata, w
  <2>3. PICK j \in ProtoClassesBefore(w, i) :
          w[j].body.class_id = w[i].id /\ w[j].body.full_name = w[i].body.class
    BY <2>2 DEF Decodable
  <2>4. j \in ProtoClassesAt(w)
    BY <1>3, <2>3 DEF ProtoClassesBefore, ProtoClassesAt, IsProtoClass
  <2>5. /\ w[j].body.full_name \in DOMAIN s.class_id
        /\ w[j].body.class_id = s.class_id[w[j].body.full_name]
    BY <1>2, <2>4 DEF FileRight, ClassesDefined, w
  <2>6. IsMetadataId(s.class_id[w[i].body.class])
    BY <2>1, <2>3, <2>5 DEF IsMetadata
  <2>7. QED
    BY <2>3, <2>5, <2>6
<1>14. ASSUME NEW i \in DOMAIN v, IsMessage(v[i])
       PROVE  \E h \in HeadersOf(v) : h <= i
  <2>1. i \in 1 .. n /\ i # 1
    <3>1. w # << >> /\ IsMessage(w[i])
      BY <1>3, <1>14
    <3>2. QED
      BY <1>1, <1>3, <1>14, <3>1 DEF IsMessage
  <2>2. 2 \in DOMAIN v /\ HasId(v[2], StreamHeaderId)
    BY <1>3, <1>5, <2>1
  <2>3. QED
    BY <2>1, <2>2 DEF HeadersOf
<1>15. ASSUME NEW i \in DOMAIN v, IsProtoClass(v[i])
       PROVE  v[i].body.class_id \notin FixedIds
  <2>1. i \in ProtoClassesAt(w) /\ v[i] = w[i]
    BY <1>3, <1>15 DEF ProtoClassesAt
  <2>2. /\ w[i].body.full_name \in DOMAIN s.class_id
        /\ w[i].body.class_id = s.class_id[w[i].body.full_name]
    BY <1>2, <2>1 DEF FileRight, ClassesDefined, w
  <2>3. QED
    BY <1>2, <2>1, <2>2, FixedIdsDiffer DEF IdsDistinct
<1>16. FileOK(v)
  BY <1>3, <1>8, <1>9, <1>11, <1>12, <1>13, <1>14, <1>15 DEF FileOK
<1>17. \A h \in HeadersOf(v) : v[h] = w[h] /\ s.opened
  BY <1>1, <1>3, <1>5, <1>6 DEF HeadersOf
<1>18. ASSUME NEW i \in DOMAIN v, IsUserMessage(v[i])
       PROVE  v[i].body.whole /\ v[i].body.class \in Class
  <2>1. i \in DOMAIN w /\ v[i] = w[i]
    BY <1>3
  <2>2. Decodable(w, i)
    BY <1>2, <1>18, <2>1 DEF FileRight, AllDecodable, w
  <2>3. PICK j \in ProtoClassesBefore(w, i) : w[j].body.full_name = w[i].body.class
    BY <2>2 DEF Decodable
  <2>4. j \in ProtoClassesAt(w)
    BY <1>3, <2>1, <2>3 DEF ProtoClassesBefore, ProtoClassesAt, IsProtoClass
  <2>5. w[i].body.class \in DOMAIN s.class_id
    BY <1>2, <2>3, <2>4 DEF FileRight, ClassesDefined, w
  <2>6. DOMAIN s.class_id \subseteq Class
    BY StreamOKIsRecord DEF FileInv, Sound, StreamOK, StreamRecord
  <2>7. QED
    BY <2>1, <2>2, <2>5, <2>6 DEF Decodable
<1>19. QED
  BY <1>6, <1>7, <1>16, <1>17, <1>18 DEF v, w
-----------------------------------------------------------------------------
(* The file while it is written, stream by stream.                          *)

\* The writers never stop half way, and every message can be serialised.
WritersWork ==
    /\ OpenResults = {TRUE} /\ FirstIds = {}
    /\ "UNCOMPRESSED" \notin LateCompressions /\ FALSE \notin SerializeResults

WrittenRight ==
    /\ FileOK(file)
    /\ ~MixedDirections => DirectionsOK(file)
    /\ \A i \in DOMAIN file : IsCutShort(file[i]) => phase = "read" /\ i = Len(file)
    /\ FileInv(os)
    /\ os.opened => DirectionAllowed
    /\ \A c \in DOMAIN os.class_id : IsMetadataId(os.class_id[c]) => c \in MetadataClasses

\* Stream by stream, the file stays right.
LEMMA StreamAdded ==
  ASSUME WritersWork, WrittenRight, phase = "write", NEW n \in 0 .. Len(os.wire)
  PROVE  LET u == file \o SubSeq(os.wire, 1, n)
         IN  /\ FileOK(u) /\ (~MixedDirections => DirectionsOK(u))
             /\ \A i \in DOMAIN u : ~IsCutShort(u[i])
             /\ n > 0 => /\ u # << >> /\ u[Len(u)] = os.wire[n]
                         /\ IsUserMessage(os.wire[n]) => os.wire[n].body.class \in Class
<1> DEFINE v == SubSeq(os.wire, 1, n)
           u == file \o v
<1>1. /\ FileOK(v) /\ Starts(v) /\ HeadersOf(v) \subseteq {2}
      /\ \A h \in HeadersOf(v) : v[h] = os.wire[h] /\ os.opened
      /\ \A i \in DOMAIN v : IsUserMessage(v[i]) => v[i].body.whole /\ v[i].body.class \in Class
  BY CutFileOK DEF WritersWork, WrittenRight, FileInv
<1>2. n > 0 => /\ u # << >> /\ u[Len(u)] = os.wire[n] /\ n \in DOMAIN v /\ v[n] = os.wire[n]
  <2>1. os.wire \in Seq(Cell)
    BY StreamOKIsRecord DEF WrittenRight, FileInv, Sound, StreamOK, StreamRecord
  <2>2. file \in Seq(Cell)
    BY DEF WrittenRight, FileOK
  <2>3. v \in Seq(Cell) /\ Len(v) = n /\ \A i \in 1 .. n : v[i] = os.wire[i]
    BY <2>1
  <2> HIDE DEF v
  <2>4. QED
    BY <2>2, <2>3
<1> HIDE DEF v
<1>3. /\ FileOK(u)
      /\ \A i \in DOMAIN u : \/ i \in DOMAIN file /\ u[i] = file[i]
                             \/ \E j \in DOMAIN v : i = Len(file) + j /\ u[i] = v[j]
  BY <1>1, FileAppend DEF WrittenRight
<1>4. file \in Seq(Cell) /\ Len(file) \in Nat /\ DOMAIN file = 1 .. Len(file)
  BY DEF WrittenRight, FileOK
<1> HIDE DEF u
<1>5. ASSUME ~MixedDirections, NEW h \in HeadersOf(u), NEW k \in HeadersOf(u),
             h < k, Refers(u, h)
      PROVE  Refers(u, k)
  <2>1. ASSUME NEW i \in HeadersOf(u)
        PROVE  \/ i \in HeadersOf(file) /\ Refers(u, i) = Refers(file, i)
               \/ /\ i = Len(file) + 2 /\ os.opened
                  /\ Refers(u, i) = os.metadata_refers_forward
    <3>1. i \in DOMAIN u /\ HasId(u[i], StreamHeaderId)
      BY <2>1 DEF HeadersOf
    <3>2. CASE i \in DOMAIN file /\ u[i] = file[i]
      BY <3>1, <3>2 DEF HeadersOf, Refers
    <3>3. ASSUME NEW j \in DOMAIN v, i = Len(file) + j, u[i] = v[j]
          PROVE  /\ i = Len(file) + 2 /\ os.opened
                 /\ Refers(u, i) = os.metadata_refers_forward
      <4>1. j \in HeadersOf(v) /\ j = 2
        BY <1>1, <3>1, <3>3 DEF HeadersOf
      <4>2. u[i] = os.wire[2] /\ os.opened
        BY <1>1, <3>3, <4>1
      <4>3. HeaderTells(os)
        BY <4>2 DEF WrittenRight, FileInv
      <4>4. QED
        BY <3>3, <4>1, <4>2, <4>3 DEF HeaderTells, Refers
    <3>4. QED
      BY <1>3, <3>1, <3>2, <3>3
  <2>2. CASE k \in HeadersOf(file) /\ Refers(u, k) = Refers(file, k)
    <3>1. h # Len(file) + 2
      BY <1>4, <1>5, <2>2 DEF HeadersOf
    <3>2. h \in HeadersOf(file) /\ Refers(file, h)
      BY <1>5, <2>1, <3>1
    <3>3. DirectionsOK(file)
      BY <1>5 DEF WrittenRight
    <3>4. QED
      BY <1>5, <2>2, <3>2, <3>3 DEF DirectionsOK
  <2>3. CASE /\ k = Len(file) + 2 /\ os.opened /\ Refers(u, k) = os.metadata_refers_forward
    <3>1. h # Len(file) + 2
      BY <1>4, <1>5, <2>3
    <3>2. h \in HeadersOf(file) /\ Refers(file, h)
      BY <1>5, <2>1, <3>1
    <3>3. DirectionAllowed /\ h \in Headers
      BY <2>3, <3>2 DEF WrittenRight, HeadersOf, Headers
    <3>4. os.metadata_refers_forward
      BY <1>5, <3>2, <3>3 DEF DirectionAllowed, Refers
    <3>5. QED
      BY <2>3, <3>4
  <2>4. QED
    BY <2>1, <2>2, <2>3
<1>6. \A i \in DOMAIN u : ~IsCutShort(u[i])
  <2>1. \A i \in DOMAIN file : ~IsCutShort(file[i])
    BY DEF WrittenRight
  <2>2. \A i \in DOMAIN v : ~IsCutShort(v[i])
    BY <1>1 DEF IsCutShort
  <2>3. QED
    BY <1>3, <2>1, <2>2
<1>7. n > 0 /\ IsUserMessage(os.wire[n]) => os.wire[n].body.class \in Class
  BY <1>1, <1>2
<1>8. QED
  BY <1>3, <1>5, <1>6, <1>7, <1>2 DEF DirectionsOK, u, v

\* A new stream
LEMMA NewStreamRight ==
  ASSUME WritersWork
  PROVE  LET s == NewStream(TRUE, 0, 1)
         IN  FileInv(s) /\ ~s.opened /\ DOMAIN s.class_id = {}
<1> DEFINE s == NewStream(TRUE, 0, 1)
<1>1. FileInv(s)
  BY NewStreamFile
<1>2. ~s.opened /\ DOMAIN s.class_id = {}
  BY DEF NewStream
<1>3. QED
  BY <1>1, <1>2

LEMMA WriterStepRight ==
  ASSUME WritersWork, WrittenRight, WriterStep
  PROVE  WrittenRight'
<1>1. file' = file
  BY DEF WriterStep
<1>2. /\ FileOK(file') /\ (~MixedDirections => DirectionsOK(file'))
      /\ \A i \in DOMAIN file' : ~IsCutShort(file'[i])
  BY <1>1 DEF WrittenRight, WriterStep
<1>3. ASSUME FileInv(os'), os'.class_id = os.class_id,
             os'.opened => os.opened /\ os'.metadata_refers_forward = os.metadata_refers_forward
      PROVE  WrittenRight'
  <2>1. os'.opened => DirectionAllowed'
    BY <1>1, <1>3 DEF WrittenRight, DirectionAllowed, Headers
  <2>2. QED
    BY <1>2, <1>3, <2>1 DEF WrittenRight
<1>4. CASE SetForwardMetadata
  <2>1. FileInv(os')
    BY <1>4, FileStep DEF WrittenRight, WritersWork, Next
  <2>2. os'.class_id = os.class_id /\ ~os'.opened
    <3>1. PICK C, D : os \in StreamRecord(C, D)
      BY StreamOKIsRecord DEF WrittenRight, FileInv, Sound
    <3>2. QED
      BY <1>4, <3>1 DEF SetForwardMetadata, StreamRecord
  <2>3. QED
    BY <1>3, <2>1, <2>2
<1>5. ASSUME NEW t \in Compressions, SetCompression(t)
      PROVE  WrittenRight'
  <2>1. FileInv(os')
    BY <1>5, FileStep DEF WrittenRight, WritersWork, Next
  <2>2. /\ os'.class_id = os.class_id /\ os'.opened = os.opened
        /\ os'.metadata_refers_forward = os.metadata_refers_forward
    <3>1. PICK C, D : os \in StreamRecord(C, D)
      BY StreamOKIsRecord DEF WrittenRight, FileInv, Sound
    <3>2. QED
      BY <1>5, <3>1 DEF SetCompression, StreamRecord
  <2>3. QED
    BY <1>3, <2>1, <2>2
<1>6. ASSUME NEW c \in Class, DirectionAllowed, NEW metadata \in BOOLEAN,
             IF metadata THEN Metadata(c) ELSE Write(c), metadata => c \in MetadataClasses
      PROVE  WrittenRight'
  <2>1. /\ FileInv(os') /\ os'.metadata_refers_forward = os.metadata_refers_forward
        /\ \A d \in DOMAIN os'.class_id :
              \/ d \in DOMAIN os.class_id /\ os'.class_id[d] = os.class_id[d]
              \/ d = c /\ metadata = IsMetadataId(os'.class_id[d])
    BY <1>6, MessageActionFile DEF WrittenRight, WritersWork
  <2>2. DirectionAllowed'
    BY <1>1, <1>6, <2>1 DEF DirectionAllowed, Headers
  <2>3. QED
    BY <1>2, <1>6, <2>1, <2>2 DEF WrittenRight
<1>7. CASE Close
  <2>1. FileInv(os') /\ os'.class_id = os.class_id /\ os.opened
        /\ os'.metadata_refers_forward = os.metadata_refers_forward
    BY <1>7, CloseFile DEF WrittenRight, Close
  <2>2. QED
    BY <1>3, <2>1
<1>8. ASSUME NEW c \in EventClasses, DirectionAllowed, Write(c)
      PROVE  WrittenRight'
  BY <1>6, <1>8, RoundTripAssumption
<1>9. ASSUME NEW c \in MetadataClasses, DirectionAllowed, Metadata(c)
      PROVE  WrittenRight'
  BY <1>6, <1>9, RoundTripAssumption
<1>10. QED
  BY <1>4, <1>5, <1>7, <1>8, <1>9 DEF WriterStep

\* Every step that writes keeps the file right.
LEMMA WrittenStep ==
  ASSUME WritersWork, WrittenRight, WriterStep \/ AppendStream \/ Crash \/ StartReading
  PROVE  WrittenRight'
<1> DEFINE s == NewStream(TRUE, 0, 1)
<1>1. FileInv(s) /\ ~s.opened /\ DOMAIN s.class_id = {}
  BY NewStreamRight
<1> HIDE DEF s
<1>2. os.wire \in Seq(Cell) /\ Len(os.wire) \in Nat
  BY StreamOKIsRecord DEF WrittenRight, FileInv, Sound, StreamOK, StreamRecord
<1>3. ASSUME os' = s, FileOK(file'), ~MixedDirections => DirectionsOK(file'),
             \A i \in DOMAIN file' : IsCutShort(file'[i]) => phase' = "read" /\ i = Len(file')
      PROVE  WrittenRight'
  BY <1>1, <1>3 DEF WrittenRight
<1>4. CASE WriterStep
  BY <1>4, WriterStepRight
<1>5. CASE AppendStream
  <2>1. SubSeq(os.wire, 1, Len(os.wire)) = os.wire
    BY <1>2, SubSeqFull
  <2>2. /\ os' = s /\ file' = file \o SubSeq(os.wire, 1, Len(os.wire)) /\ phase = "write"
        /\ Len(os.wire) \in 0 .. Len(os.wire)
    BY <1>2, <1>5, <2>1 DEF AppendStream, s
  <2>3. QED
    BY <1>3, <2>2, StreamAdded
<1>6. CASE Crash
  <2>1. os' = s /\ phase = "write"
    BY <1>6 DEF Crash, s
  <2>2. PICK n \in 0 .. Len(os.wire) :
          LET left == file \o SubSeq(os.wire, 1, n)
          IN \/ file' = left
             \/ n = 0 /\ file' = CutInMagic(left)
             \/ /\ n > 0 /\ IsUserMessage(os.wire[n])
                /\ file' = CutInMessage(left) /\ phase' = "read"
    BY <1>6 DEF Crash
  <2> DEFINE left == file \o SubSeq(os.wire, 1, n)
  <2>3. /\ FileOK(left) /\ (~MixedDirections => DirectionsOK(left))
        /\ \A i \in DOMAIN left : ~IsCutShort(left[i])
        /\ n > 0 => /\ left # << >> /\ left[Len(left)] = os.wire[n]
                    /\ IsUserMessage(os.wire[n]) => os.wire[n].body.class \in Class
    BY <2>1, StreamAdded
  <2> HIDE DEF left
  <2>4. CASE file' = left
    BY <1>3, <2>1, <2>3, <2>4
  <2>5. CASE file' = CutInMagic(left)
    <3>1. \A c : IsCutShort(c) => IsMessage(c)
      BY DEF IsCutShort, IsUserMessage, IsMessage
    <3>2. /\ FileOK(file') /\ (~MixedDirections => DirectionsOK(file'))
          /\ \A i \in DOMAIN file' : ~IsCutShort(file'[i])
      BY <2>3, <2>5, <3>1, TornMagicAdded
    <3>3. QED
      BY <1>3, <2>1, <3>2
  <2>6. CASE /\ n > 0 /\ IsUserMessage(os.wire[n])
             /\ file' = CutInMessage(left) /\ phase' = "read"
    <3>1. /\ FileOK(file') /\ (DirectionsOK(left) => DirectionsOK(file'))
          /\ Len(file') = Len(left) /\ \A i \in DOMAIN file' : i # Len(file') => file'[i] = left[i]
      <4>1. /\ left # << >> /\ IsUserMessage(left[Len(left)])
            /\ left[Len(left)].body.class \in Class /\ FileOK(left)
        BY <2>3, <2>6
      <4>2. QED
        BY <2>6, <4>1, CutMessageRight
    <3>2. \A i \in DOMAIN file' : i \in DOMAIN left
      BY <2>3, <3>1 DEF FileOK
    <3>3. QED
      BY <1>3, <2>1, <2>3, <2>6, <3>1, <3>2
  <2>7. QED
    BY <2>2, <2>4, <2>5, <2>6 DEF left
<1>7. CASE StartReading
  <2>1. os' = s /\ file' = file /\ phase = "write"
    BY <1>7 DEF StartReading, s
  <2>2. QED
    BY <1>3, <2>1 DEF WrittenRight
<1>8. QED
  BY <1>4, <1>5, <1>6, <1>7
-----------------------------------------------------------------------------
RTSafety == RTInit /\ [][RTNext]_rtvars

\* The members of the InputStreamImpl object
Fields == {"seekable", "pos", "zin", "good", "error", "started", "discovered",
           "do_reset_metadata", "new_metadata", "header_index", "metadata_index",
           "forward", "current", "pickup", "metadata_per_header", "metadata_offsets",
           "headers_forward", "pool", "scan", "call", "skipped", "from", "shown", "status"}
-----------------------------------------------------------------------------
(* new_metadata()                                                           *)

\* Whatever the file holds: the current metadata is what the client was told of, or
\* it is going to be told.
Signalled(r) == DOMAIN r = Fields /\ (r.current # r.shown => r.new_metadata)

LEMMA EndSignalled ==
  ASSUME NEW r, Signalled(r)
  PROVE  /\ Signalled(SetError(r)) /\ Signalled(SetEnd(r)) /\ Signalled(Return(r))
         /\ \A why : Signalled(Fatal(r, why))
BY DEF Signalled, Fields, SetError, SetEnd, Return, Fatal

LEMMA HeaderFailsSignalled ==
  ASSUME NEW r, Signalled(r), NEW then
  PROVE  Signalled(HeaderFails(r, then))
BY EndSignalled DEF HeaderFails

LEMMA AfterHeaderSignalled ==
  ASSUME NEW r, Signalled(r), NEW then
  PROVE  Signalled(AfterHeader(r, then)) /\ Signalled(HeaderDone(r))
<1> DEFINE h == [r EXCEPT !.metadata_index = 0, !.current = FirstMetadata(r)]
<1>1. DOMAIN h = Fields
  BY DEF Signalled
<1>2. Signalled([h EXCEPT !.new_metadata = TRUE]) /\ Signalled([r EXCEPT !.new_metadata = TRUE])
  <2> HIDE DEF h
  <2>1. QED
    BY <1>1 DEF Signalled, Fields
<1>3. Signalled(HeaderDone(r))
  BY <1>2 DEF HeaderDone
<1> DEFINE n == [r EXCEPT !.current = None, !.do_reset_metadata = FALSE, !.new_metadata = TRUE]
<1>4. DOMAIN n = Fields /\ n.new_metadata
  BY DEF Signalled, Fields
<1>5. ASSUME NEW i, NEW c
      PROVE  /\ Signalled([n EXCEPT !.metadata_index = i])
             /\ Signalled([n EXCEPT !.metadata_index = i, !.current = c])
  <2> HIDE DEF n
  <2>1. QED
    BY <1>4 DEF Signalled, Fields
<1>6. Signalled(FooterDone(r))
  BY <1>5 DEF FooterDone
<1>7. QED
  BY <1>3, <1>6 DEF AfterHeader

LEMMA ReadHeaderSignalled ==
  ASSUME NEW r, Signalled(r), NEW requested, NEW then
  PROVE  Signalled(ReadHeader(r, requested, then))
<1> DEFINE forward == file[r.pos + 2].body.metadata_refers_forward
           h == [r EXCEPT !.pos = @ + 2, !.pool = EmptyPool, !.forward = forward]
           i == [h EXCEPT !.metadata_index = -1]
           scan == NewScan(then, r.header_index)
<1>1. Signalled(h)
  BY DEF Signalled, Fields
<1> HIDE DEF forward
<1>2. ASSUME NEW x, Signalled(x)
      PROVE  /\ Signalled([x EXCEPT !.scan = scan])
             /\ Signalled([x EXCEPT !.new_metadata = TRUE])
             /\ Signalled([x EXCEPT !.metadata_index = -1])
  BY <1>2 DEF Signalled, Fields
<1>3. ReadHeader(r, requested, then) \in
        {HeaderFails(SetEnd(r), then), HeaderFails(SetError(r), then),
         HeaderFails(SetError(h), then), AfterHeader([h EXCEPT !.new_metadata = TRUE], then),
         [h EXCEPT !.scan = scan], [i EXCEPT !.scan = scan],
         AfterHeader([i EXCEPT !.new_metadata = TRUE], then)}
  BY DEF ReadHeader, forward
<1> HIDE DEF h, scan
<1>4. Signalled(i)
  BY <1>1, <1>2
<1> HIDE DEF i
<1>5. /\ Signalled(HeaderFails(SetEnd(r), then)) /\ Signalled(HeaderFails(SetError(r), then))
      /\ Signalled(HeaderFails(SetError(h), then))
  BY <1>1, EndSignalled, HeaderFailsSignalled
<1>6. /\ Signalled(AfterHeader([h EXCEPT !.new_metadata = TRUE], then))
      /\ Signalled(AfterHeader([i EXCEPT !.new_metadata = TRUE], then))
      /\ Signalled([h EXCEPT !.scan = scan]) /\ Signalled([i EXCEPT !.scan = scan])
  BY <1>1, <1>2, <1>4, AfterHeaderSignalled
<1>7. QED
  BY <1>3, <1>5, <1>6

LEMMA SeekSignalled ==
  ASSUME NEW r, Signalled(r), NEW metadata
  PROVE  /\ Signalled(SeekTo(r, metadata)) /\ Signalled(Discovered(r))
         /\ Signalled(DropCompression(r)) /\ Signalled(ScanOnce(r))
<1>1. Signalled(DropCompression(r)) /\ Signalled(Discovered(r))
  BY DEF Signalled, Fields, DropCompression, Discovered
<1>2. Signalled(SeekTo(r, metadata))
  <2> DEFINE offsets == r.metadata_offsets[1]
             answer == [Return(r) EXCEPT !.skipped = "true"]
             refuse == [Return(r) EXCEPT !.skipped = "false"]
             last == [refuse EXCEPT !.metadata_index = metadata - 1]
  <2>1. Signalled(answer) /\ Signalled(refuse)
    BY EndSignalled DEF Signalled, Fields
  <2> HIDE DEF answer, refuse
  <2>2. ASSUME NEW x, Signalled(x), NEW p
        PROVE  /\ Signalled([x EXCEPT !.metadata_index = metadata - 1])
               /\ Signalled([x EXCEPT !.metadata_index = metadata - 1, !.pos = p])
               /\ Signalled([x EXCEPT !.metadata_index = metadata - 1, !.pos = p, !.call = "skip"])
    BY <2>2, SMTT(30) DEF Signalled, Fields
  <2>3. Signalled(last)
    BY <2>1, <2>2
  <2> HIDE DEF last
  <2>4. SeekTo(r, metadata) \in
          {refuse, SetEnd(last),
           [answer EXCEPT !.metadata_index = metadata - 1, !.pos = offsets[metadata + 1]],
           [r EXCEPT !.metadata_index = metadata - 1, !.pos = offsets[metadata], !.call = "skip"]}
    BY DEF SeekTo, answer, refuse, last
  <2>5. Signalled(SetEnd(last))
    BY <2>3, EndSignalled, SMTT(30)
  <2> HIDE DEF offsets
  <2>6. /\ Signalled([answer EXCEPT !.metadata_index = metadata - 1, !.pos = offsets[metadata + 1]])
        /\ Signalled([r EXCEPT !.metadata_index = metadata - 1, !.pos = offsets[metadata], !.call = "skip"])
    BY <2>1, <2>2, Zenon
  <2>7. QED
    BY <2>1, <2>4, <2>5, <2>6
<1>3. Signalled(ScanOnce(r))
  <2>1. ASSUME NEW pool, NEW size, NEW headers, NEW forward, NEW cells, NEW offsets
        PROVE  Signalled([r EXCEPT !.pool = pool, !.scan.size = size, !.scan.headers = headers,
                                   !.scan.forward = forward, !.scan.metadata = cells,
                                   !.scan.offsets = offsets])
    BY DEF Signalled, Fields
  <2>2. QED
    BY <2>1, EndSignalled DEF ScanOnce
<1>4. QED
  BY <1>1, <1>2, <1>3

LEMMA FetchedSignalled ==
  ASSUME Signalled(is)
  PROVE  Signalled(ApplyReset(is)) /\ Signalled(Fetched)
<1>1. Signalled(ApplyReset(is))
  BY DEF ApplyReset, Signalled, Fields
<1>2. ASSUME NEW r, Signalled(r)
      PROVE  Signalled([r EXCEPT !.pickup = None]) /\ Signalled([r EXCEPT !.pos = @ + 1])
  BY <1>2 DEF Signalled, Fields
<1>3. QED
  BY <1>1, <1>2 DEF Fetched

LEMMA ReadMessageSignalled ==
  ASSUME Signalled(is), ReadMessage
  PROVE  Signalled(is')
<1>1. Signalled(Fetched) /\ Signalled(ApplyReset(is))
  BY FetchedSignalled
<1>2. ASSUME NEW r, Signalled(r), NEW x
      PROVE  /\ Signalled([r EXCEPT !.zin = x]) /\ Signalled([r EXCEPT !.pool = x])
             /\ Signalled([r EXCEPT !.header_index = @ + 1])
             /\ Signalled([r EXCEPT !.pos = @ + 2])
             /\ Signalled(PassMetadata(r, x))
  <2>1. /\ Signalled([r EXCEPT !.zin = x]) /\ Signalled([r EXCEPT !.pool = x])
        /\ Signalled([r EXCEPT !.header_index = @ + 1])
        /\ Signalled([r EXCEPT !.pos = @ + 2])
    BY <1>2 DEF Signalled, Fields
  <2> DEFINE m == [r EXCEPT !.metadata_index = @ + 1]
  <2>2. Signalled(m)
    BY <1>2 DEF Signalled, Fields
  <2> HIDE DEF m
  <2>3. /\ Signalled([m EXCEPT !.current = x, !.new_metadata = TRUE])
        /\ Signalled([m EXCEPT !.do_reset_metadata = TRUE])
    BY <2>2 DEF Signalled, Fields
  <2>4. QED
    BY <2>1, <2>3 DEF PassMetadata, m
<1> HIDE DEF Fetched
<1>3. CASE ReadSection
  BY <1>1, <1>2, <1>3, EndSignalled DEF ReadSection
<1>4. CASE ReadFooter
  <2> DEFINE r == [Fetched EXCEPT !.pos = @ + 2]
             g == [r EXCEPT !.header_index = @ + 1]
  <2>1. Signalled(r) /\ Signalled(g)
    BY <1>1, <1>2
  <2>2. \/ is' = Fatal(Fetched, "Unexpected end of file or corrupt footer")
        \/ is' = SetEnd(r) \/ is' = ReadHeader(g, FALSE, "footer")
    BY <1>4 DEF ReadFooter
  <2> HIDE DEF r, g
  <2>3. QED
    BY <1>1, <2>1, <2>2, EndSignalled, ReadHeaderSignalled
<1>5. CASE ReadProtoClass
  BY <1>1, <1>2, <1>5, EndSignalled DEF ReadProtoClass
<1>6. CASE ReadMetadata
  <2>1. is' \in {PassMetadata(Fetched, Incoming), Return(PassMetadata(Fetched, Incoming))}
    <3>1. is.call \in {"next", "next_with_metadata", "skip"}
      BY <1>6 DEF ReadMetadata, Readable, Reading
    <3>2. QED
      BY <1>6, <3>1 DEF ReadMetadata
  <2>2. QED
    BY <1>1, <1>2, <2>1, EndSignalled
<1>7. CASE ReadEvent
  BY <1>1, <1>7, EndSignalled DEF ReadEvent
<1>8. CASE ReadNothing
  BY <1>1, <1>8, EndSignalled DEF ReadNothing
<1>9. CASE ReadGarbage
  BY <1>9, EndSignalled DEF ReadGarbage
<1>10. QED
  BY <1>3, <1>4, <1>5, <1>6, <1>7, <1>8, <1>9 DEF ReadMessage

LEMMA ReaderSignalled ==
  ASSUME Signalled(is), ReaderNext
  PROVE  Signalled(is')
<1>1. ASSUME NEW c, Call(c) PROVE Signalled(is')
  <2>1. is' = [is EXCEPT !.call = c, !.skipped = "none", !.from = is.pos]
    BY <1>1 DEF Call
  <2>2. QED
    BY <2>1 DEF Signalled, Fields
<1>2. CASE Startup
  <2> DEFINE r == [is EXCEPT !.started = TRUE]
  <2>1. Signalled(r)
    BY DEF Signalled, Fields
  <2>2. is' = ReadHeader(r, is.call = "all_metadata", "startup")
    BY <1>2 DEF Startup
  <2> HIDE DEF r
  <2>3. QED
    BY <2>1, <2>2, ReadHeaderSignalled
<1>3. CASE ScanFooter
  BY <1>3, SeekSignalled DEF ScanFooter
<1>4. CASE ScanDone
  <2> DEFINE d == Discovered(is)
  <2>1. Signalled(d)
    BY SeekSignalled
  <2>2. is' \in {SeekTo(d, d.metadata_index + 1), AfterHeader(HeaderDone(d), is.scan.then)}
    BY <1>4 DEF ScanDone
  <2> HIDE DEF d
  <2>3. QED
    BY <2>1, <2>2, SeekSignalled, AfterHeaderSignalled
<1>5. CASE ScanFails
  <2> DEFINE r == [is EXCEPT !.scan = NoScan]
  <2>1. Signalled(r)
    BY DEF Signalled, Fields
  <2>2. is' \in {SetError(Return(r)), HeaderFails(SetError(r), is.scan.then),
                 Fatal(r, "Could not parse from stream!")}
    BY <1>5 DEF ScanFails
  <2> HIDE DEF r
  <2>3. QED
    BY <2>1, <2>2, EndSignalled, HeaderFailsSignalled
<1>6. CASE SkipToNextMetadata
  <2> DEFINE r == DropCompression(is)
             scan == NewScan("seek", r.header_index)
  <2>1. Signalled(r)
    BY SeekSignalled
  <2>2. is' \in {SeekTo(r, r.metadata_index + 1), [r EXCEPT !.scan = scan], SetError(Return(r))}
    BY <1>6 DEF SkipToNextMetadata
  <2> HIDE DEF r, scan
  <2>3. Signalled([r EXCEPT !.scan = scan])
    BY <2>1 DEF Signalled, Fields
  <2>4. QED
    BY <2>1, <2>2, <2>3, SeekSignalled, EndSignalled
<1>7. CASE AllMetadata
  BY <1>7, EndSignalled DEF AllMetadata
<1>8. CASE NewMetadata
  <2> DEFINE r == Return(is)
             shown == IF is.new_metadata THEN is.current ELSE is.shown
  <2>1. Signalled(r) /\ r.current = is.current /\ r.shown = is.shown
    BY EndSignalled DEF Signalled, Fields, Return
  <2>2. is.current = shown
    BY DEF Signalled
  <2>3. is' = [r EXCEPT !.new_metadata = FALSE, !.shown = shown]
    BY <1>8 DEF NewMetadata
  <2> HIDE DEF r, shown
  <2>4. QED
    BY <2>1, <2>2, <2>3 DEF Signalled, Fields
<1>9. CASE TryRead
  <2>1. PICK i : is' \in {Return(is), Fatal(is, "Unexpected end of file or corruption"),
                          [Return(is) EXCEPT !.pos = i], [Return(is) EXCEPT !.pos = i, !.pickup = i]}
    BY <1>9 DEF TryRead
  <2> DEFINE r == Return(is)
  <2>2. Signalled(r)
    BY EndSignalled
  <2> HIDE DEF r
  <2>3. Signalled([r EXCEPT !.pos = i]) /\ Signalled([r EXCEPT !.pos = i, !.pickup = i])
    BY <2>2 DEF Signalled, Fields
  <2>4. QED
    BY <2>1, <2>2, <2>3, EndSignalled, Zenon DEF r
<1>10. CASE ReadMessage
  BY <1>10, ReadMessageSignalled
<1>11. QED
  BY <1>1, <1>2, <1>3, <1>4, <1>5, <1>6, <1>7, <1>8, <1>9, <1>10 DEF ReaderNext, ReaderStep

\* new_metadata(): between two calls it is going to answer TRUE whenever the current
\* metadata is not what the client was last told of - whatever the file holds and
\* wherever it was cut, in both directions, across headers, footers and skips.
THEOREM MetadataChangesSignalled == RTSpec => []MetadataChangeSignalled
<1>1. RTInit => Signalled(is)
  BY DEF RTInit, ReaderInit, NewReader, Signalled, Fields
<1>2. Signalled(is) /\ [RTNext]_rtvars => Signalled(is)'
  <2> SUFFICES ASSUME Signalled(is), [RTNext]_rtvars PROVE Signalled(is')
    OBVIOUS
  <2>1. CASE Read
    BY <2>1, ReaderSignalled DEF Read
  <2>2. CASE ~Read
    <3>1. is' = is
      BY <2>2 DEF RTNext, WriterStep, AppendStream, Crash, StartReading, rtvars
    <3>2. QED
      BY <3>1
  <2>3. QED
    BY <2>1, <2>2
<1>3. Signalled(is) => MetadataChangeSignalled
  BY DEF Signalled, MetadataChangeSignalled
<1>4. QED
  BY <1>1, <1>2, <1>3, PTL DEF RTSpec
-----------------------------------------------------------------------------
(* Least and greatest elements                                              *)

LEMMA HasLeast ==
  ASSUME NEW S \in SUBSET Nat, S # {}
  PROVE  \E x \in S : \A y \in S : x <= y
<1>1. \E x \in S : \A y \in S : ~(<<y, x>> \in OpToRel(<, Nat))
  BY NatLessThanWellFounded, WFMin
<1>2. PICK x \in S : \A y \in S : ~(<<y, x>> \in OpToRel(<, Nat))
  BY <1>1
<1>3. ASSUME NEW y \in S PROVE x <= y
  <2>1. x \in Nat /\ y \in Nat /\ ~(<<y, x>> \in OpToRel(<, Nat))
    BY <1>2
  <2>2. ~(y < x)
    BY <2>1 DEF OpToRel
  <2>3. x \in Nat /\ y \in Nat
    OBVIOUS
  <2>4. QED
    BY <2>2, <2>3
<1>4. QED
  BY <1>3

LEMMA HasGreatest ==
  ASSUME NEW n \in Nat, NEW S \in SUBSET (0 .. n), S # {}
  PROVE  \E x \in S : \A y \in S : y <= x
<1> DEFINE T == {k \in 0 .. n : n - k \in S}
<1>1. T \in SUBSET Nat /\ T # {}
  <2>1. PICK s \in S : TRUE
    OBVIOUS
  <2>2. n - s \in 0 .. n /\ n - (n - s) = s
    OBVIOUS
  <2>3. n - s \in T
    BY <2>1, <2>2
  <2>4. QED
    BY <2>3
<1>2. PICK k \in T : \A j \in T : k <= j
  BY <1>1, HasLeast
<1>3. ASSUME NEW y \in S PROVE y <= n - k
  <2>1. n - y \in 0 .. n /\ n - (n - y) = y
    OBVIOUS
  <2>2. n - y \in T
    BY <2>1
  <2>3. k <= n - y
    BY <1>2, <2>2
  <2>4. k \in Int /\ y \in Int /\ n \in Int
    BY <1>1
  <2>5. QED
    BY <2>3, <2>4
<1>4. QED
  BY <1>2, <1>3

\* What Min and Max of FiniteSetsExt choose
LEMMA MinMax ==
  ASSUME NEW S \in SUBSET Int, NEW x \in S
  PROVE  /\ (\A y \in S : x <= y) => Min(S) = x
         /\ (\A y \in S : x >= y) => Max(S) = x
<1>1. ASSUME \A y \in S : x <= y PROVE Min(S) = x
  <2>1. Min(S) \in S /\ \A y \in S : Min(S) <= y
    BY <1>1 DEF Min
  <2>2. x <= Min(S) /\ Min(S) <= x /\ x \in Int /\ Min(S) \in Int
    BY <1>1, <2>1
  <2>3. QED
    BY <2>2
<1>2. ASSUME \A y \in S : x >= y PROVE Max(S) = x
  <2>1. Max(S) \in S /\ \A y \in S : Max(S) >= y
    BY <1>2 DEF Max
  <2>2. x >= Max(S) /\ Max(S) >= x /\ x \in Int /\ Max(S) \in Int
    BY <1>2, <2>1
  <2>3. QED
    BY <2>2
<1>3. QED
  BY <1>1, <1>2
-----------------------------------------------------------------------------
(* The streams of a file are counted by their headers.                      *)

\* The stream with header h is this one of the streams of the file.
Number(w, h) == Cardinality({k \in HeadersOf(w) : k <= h})
Streams(w) == Cardinality(HeadersOf(w))

LEMMA HeadersCounted ==
  ASSUME NEW w \in Seq(Cell), NEW h \in HeadersOf(w)
  PROVE  /\ IsFiniteSet(HeadersOf(w)) /\ Streams(w) \in Nat
         /\ IsFiniteSet({k \in HeadersOf(w) : k <= h})
         /\ Number(w, h) \in 1 .. Streams(w)
<1> DEFINE S == HeadersOf(w)
           T == {k \in S : k <= h}
<1>1. S \in SUBSET (1 .. Len(w)) /\ Len(w) \in Nat
  BY DEF HeadersOf
<1>2. IsFiniteSet(1 .. Len(w))
  BY <1>1, FS_Interval
<1>3. IsFiniteSet(S)
  BY <1>1, <1>2, FS_Subset
<1>4. T \in SUBSET S /\ {h} \in SUBSET T
  BY <1>1
<1> HIDE DEF S, T
<1>5. IsFiniteSet(T) /\ Cardinality(T) <= Cardinality(S)
  BY <1>3, <1>4, FS_Subset
<1>6. Cardinality({h}) <= Cardinality(T) /\ Cardinality({h}) = 1
  BY <1>4, <1>5, FS_Subset, FS_Singleton
<1>7. Cardinality(T) \in Nat /\ Cardinality(S) \in Nat
  BY <1>3, <1>5, FS_CardinalityType
<1>8. QED
  BY <1>3, <1>5, <1>6, <1>7 DEF Number, Streams, S, T

\* A later header has a greater number, the next header the next number.
LEMMA NumbersGrow ==
  ASSUME NEW w \in Seq(Cell), NEW h \in HeadersOf(w), NEW k \in HeadersOf(w), h < k
  PROVE  /\ Number(w, h) < Number(w, k)
         /\ (\A j \in HeadersOf(w) : ~(h < j /\ j < k)) => Number(w, k) = Number(w, h) + 1
<1> DEFINE S == {j \in HeadersOf(w) : j <= h}
           T == {j \in HeadersOf(w) : j <= k}
<1>1. HeadersOf(w) \in SUBSET Nat
  BY DEF HeadersOf
<1>2. IsFiniteSet(S) /\ IsFiniteSet(T)
  BY HeadersCounted
<1>3. S \cup {k} \in SUBSET T /\ k \notin S
  BY <1>1
<1>4. (\A j \in HeadersOf(w) : ~(h < j /\ j < k)) => T = S \cup {k}
  BY <1>1
<1>5. Number(w, h) = Cardinality(S) /\ Number(w, k) = Cardinality(T)
  BY DEF Number
<1> HIDE DEF S, T
<1>6. IsFiniteSet(S \cup {k}) /\ Cardinality(S \cup {k}) = Cardinality(S) + 1
  BY <1>2, <1>3, FS_AddElement
<1>7. Cardinality(S \cup {k}) <= Cardinality(T)
  BY <1>2, <1>3, FS_Subset
<1>8. Cardinality(S) \in Nat /\ Cardinality(T) \in Nat
  BY <1>2, FS_CardinalityType
<1>9. Cardinality(S) < Cardinality(T)
  BY <1>6, <1>7, <1>8
<1>10. (\A j \in HeadersOf(w) : ~(h < j /\ j < k)) => Cardinality(T) = Cardinality(S) + 1
  BY <1>4, <1>6
<1>11. QED
  BY <1>5, <1>9, <1>10

LEMMA SameNumber ==
  ASSUME NEW w \in Seq(Cell), NEW h \in HeadersOf(w), NEW k \in HeadersOf(w),
         Number(w, h) = Number(w, k)
  PROVE  h = k
<1>1. h \in Nat /\ k \in Nat /\ Number(w, h) \in Nat
  <2>1. Number(w, h) \in 1 .. Streams(w) /\ Streams(w) \in Nat
    BY HeadersCounted
  <2>2. QED
    BY <2>1 DEF HeadersOf
<1>2. ~(h < k) /\ ~(k < h)
  BY <1>1, NumbersGrow
<1>3. QED
  BY <1>1, <1>2

\* The first header has the number 1, and the last one that of all streams.
LEMMA EndNumbers ==
  ASSUME NEW w \in Seq(Cell), NEW h \in HeadersOf(w)
  PROVE  /\ (\A k \in HeadersOf(w) : h <= k) => Number(w, h) = 1
         /\ (\A k \in HeadersOf(w) : k <= h) => Number(w, h) = Streams(w)
<1>1. HeadersOf(w) \in SUBSET Nat
  BY DEF HeadersOf
<1>2. ASSUME \A k \in HeadersOf(w) : h <= k PROVE Number(w, h) = 1
  <2>1. {k \in HeadersOf(w) : k <= h} = {h}
    BY <1>1, <1>2
  <2>2. QED
    BY <2>1, FS_Singleton DEF Number
<1>3. ASSUME \A k \in HeadersOf(w) : k <= h PROVE Number(w, h) = Streams(w)
  <2>1. {k \in HeadersOf(w) : k <= h} = HeadersOf(w)
    BY <1>1, <1>3
  <2>2. QED
    BY <2>1 DEF Number, Streams
<1>4. QED
  BY <1>2, <1>3

\* A cell is in one stream only, and what is not a header is in that of the cell
\* before it.
LEMMA OneStream ==
  ASSUME NEW w \in Seq(Cell), NEW i \in DOMAIN w, NEW h, NEW k,
         InStreamOf(w, h, i), InStreamOf(w, k, i)
  PROVE  h = k
<1>1. i \in Nat /\ h \in Nat /\ k \in Nat
  BY DEF InStreamOf
<1>2. ~(h < k) /\ ~(k < h)
  BY <1>1 DEF InStreamOf
<1>3. QED
  BY <1>1, <1>2

LEMMA NextInStream ==
  ASSUME NEW w \in Seq(Cell), NEW i \in Nat, i >= 1, NEW h, InStreamOf(w, h, i),
         ~HasId(w[i + 1], StreamHeaderId)
  PROVE  InStreamOf(w, h, i + 1)
<1>1. h \in 1 .. i + 1 /\ h \in Nat
  BY DEF InStreamOf
<1>2. ASSUME NEW k \in h + 1 .. i + 1 PROVE ~HasId(w[k], StreamHeaderId)
  <2>1. k = i + 1 \/ k \in h + 1 .. i
    BY <1>1
  <2>2. QED
    BY <2>1 DEF InStreamOf
<1>3. QED
  BY <1>1, <1>2 DEF InStreamOf

\* Every message is in a stream.
LEMMA InSomeStream ==
  ASSUME NEW w, FileOK(w), NEW i \in DOMAIN w, IsMessage(w[i])
  PROVE  \E h \in HeadersOf(w) : InStreamOf(w, h, i)
<1> DEFINE S == {h \in HeadersOf(w) : h <= i}
<1>1. w \in Seq(Cell) /\ S # {} /\ i \in Nat
  BY DEF FileOK
<1>2. S \in SUBSET (0 .. i)
  BY <1>1 DEF HeadersOf
<1>3. PICK h \in S : \A k \in S : k <= h
  BY <1>1, <1>2, HasGreatest
<1>4. h \in 1 .. i /\ HasId(w[h], StreamHeaderId)
  BY <1>1, <1>3 DEF HeadersOf
<1>5. ASSUME NEW k \in h + 1 .. i PROVE ~HasId(w[k], StreamHeaderId)
  <2>1. k \in DOMAIN w /\ k <= i /\ ~(k <= h)
    BY <1>1, <1>4
  <2>2. QED
    BY <1>3, <2>1 DEF HeadersOf
<1>6. QED
  BY <1>3, <1>4, <1>5 DEF InStreamOf
-----------------------------------------------------------------------------
(* What a reader knows                                                      *)

\* The next message is the one try_read put back, or stands behind the reader.
Coming(r) == IF r.pickup # None THEN r.pickup ELSE r.pos + 1

\* s lists the metadata messages of the stream with header h in file order.
Lists(w, h, s) ==
    /\ s \in Seq(Nat)
    /\ \A n \in DOMAIN s : s[n] \in MetadataIn(w, h)
    /\ \A m \in MetadataIn(w, h) : \E n \in DOMAIN s : s[n] = m
    /\ \A m, n \in DOMAIN s : m < n => s[m] < s[n]

\* The pool's entries come from the ProtoClasses of the stream.
PoolSound(w, h, pool) ==
    \A id \in DOMAIN pool.class :
      \E j \in ProtoClassesIn(w, h) :
         w[j].body.class_id = id /\ w[j].body.full_name = pool.class[id]

\* m is the metadata message that applies to cell i of the stream with header h.
Applies(w, h, i, m) ==
    LET before == {k \in MetadataIn(w, h) : k < i}
        after == {k \in MetadataIn(w, h) : k > i}
    IN IF Refers(w, h)
       THEN IF before = {} THEN m = None ELSE m \in before /\ \A k \in before : k <= m
       ELSE IF after = {} THEN m = None ELSE m \in after /\ \A k \in after : m <= k

\* A handed out event is right.
EventRight(w, d) ==
    /\ d.at \in DOMAIN w /\ IsEvent(w[d.at])
    /\ d = [at |-> d.at, class |-> w[d.at].body.class, metadata |-> d.metadata]
    /\ \E h \in HeadersOf(w) : InStreamOf(w, h, d.at) /\ Applies(w, h, d.at, d.metadata)

IsList(s) == s \in Seq({s[n] : n \in DOMAIN s})

AllRight(w, l) ==
    /\ IsList(l.all) /\ IsList(l.events)
    /\ \A n \in DOMAIN l.events : EventRight(w, l.events[n])
    /\ \A n \in 2 .. Len(l.all) : l.all[n - 1].at < l.all[n].at

\* The events before cell i have been handed out, and nothing behind them.
HandedUpTo(w, l, i) ==
    /\ \A n \in DOMAIN l.events : l.events[n].at \in 0 .. i - 1
    /\ \A n \in DOMAIN l.all : l.all[n].at \in 0 .. i - 1
    /\ \A k \in DOMAIN w : k < i /\ IsEvent(w[k]) => \E n \in DOMAIN l.events : l.events[n].at = k

\* Discovery found the metadata of every stream.
Known(w, r) ==
    r.discovered => /\ r.metadata_per_header \in Seq(Seq(Nat))
                    /\ Len(r.metadata_per_header) = Streams(w)
                    /\ \A h \in HeadersOf(w) : Lists(w, h, r.metadata_per_header[Number(w, h)])

\* The current metadata, when message i is the next one.  Metadata that refers
\* forward: the last one that was passed is the current one.  Backward: metadata_index
\* of them were passed, and the next one is the current one, or is going to be before
\* a message is handed out.
Entry(s, n) == IF n \in DOMAIN s THEN s[n] ELSE None
ForwardRight(w, r, h, i) ==
    LET passed == {m \in MetadataIn(w, h) : m < i} IN
    /\ ~r.do_reset_metadata
    /\ IF passed = {} THEN r.current = None
       ELSE r.current \in passed /\ \A m \in passed : m <= r.current
BackwardRight(w, r, h, i) ==
    LET list == r.metadata_per_header[Number(w, h)] IN
    /\ r.discovered /\ r.metadata_index \in 0 .. Len(list)
    /\ \A k \in DOMAIN list : k <= r.metadata_index <=> list[k] < i
    /\ ~r.do_reset_metadata => r.current = Entry(list, r.metadata_index + 1)
CurrentRight(w, r, h, i) ==
    IF Refers(w, h) THEN ForwardRight(w, r, h, i) ELSE BackwardRight(w, r, h, i)

\* The reader stands in the stream with header h, behind a message of it.
At(w, r, h) ==
    /\ h \in HeadersOf(w) /\ r.pos \in DOMAIN w /\ InStreamOf(w, h, r.pos)
    /\ IsMessage(w[r.pos]) /\ r.pickup \in {None, r.pos}
    /\ r.forward = Refers(w, h)
    /\ r.header_index \in Nat /\ r.header_index + 1 = Number(w, h)

Decoding(w, r, h) ==
    r.scan = NoScan /\ PoolSound(w, h, r.pool) /\ CurrentRight(w, r, h, Coming(r))

\* Of the last k streams, the metadata has been found.
ScanFields == {"then", "header", "size", "headers", "forward", "metadata", "offsets"}
ScanRight(w, s, pool) ==
    LET k == Len(s.headers) IN
    /\ DOMAIN s = ScanFields /\ s.then = "startup" /\ s.header = 0
    /\ s.headers \in Seq(Nat) /\ s.metadata \in Seq(Seq(Nat)) /\ Len(s.metadata) = k
    /\ s.size \in 0 .. Len(w) /\ (k = 0 => s.size = 0)
    /\ k > 0 => s.headers[1] = Len(w) - s.size /\ PoolSound(w, s.headers[1] + 2, pool)
    /\ \A j \in 1 .. k : /\ s.headers[j] + 2 \in HeadersOf(w)
                         /\ Number(w, s.headers[j] + 2) = Streams(w) - k + j
                         /\ Lists(w, s.headers[j] + 2, s.metadata[j])

Searching(w, r, h) ==
    /\ h = 2 /\ r.pos = 2 /\ r.header_index = 0 /\ ~r.discovered
    /\ r.current = None /\ ~r.do_reset_metadata /\ r.metadata_per_header = << >>
    /\ r.pickup = None /\ ScanRight(w, r.scan, r.pool)

Fresh(w, r, l) ==
    /\ r.pos = 0 /\ r.pickup = None /\ r.scan = NoScan /\ r.good /\ ~r.error
    /\ ~r.discovered /\ r.header_index = 0 /\ r.metadata_per_header = << >>
    /\ r.current = None /\ ~r.do_reset_metadata
    /\ l.events = << >> /\ l.all = << >>

Busy(w, r, l) ==
    /\ HandedUpTo(w, l, Coming(r))
    /\ \E h \in HeadersOf(w) : At(w, r, h) /\ (Decoding(w, r, h) \/ Searching(w, r, h))

Ended(w, r, l) ==
    /\ r.pickup = None /\ r.scan = NoScan
    /\ ~r.error => EndsBetweenStreams(w) /\ HandedUpTo(w, l, Len(w) + 1)

\* What is between the calls: try_read finds no message put back, and no metadata
\* that has still to become current.
Calling(r) ==
    /\ r.call \in Calls \cup {"none"}
    /\ r.call = "try_read" => r.pickup = None
    /\ "try_read" \in Calls /\ r.do_reset_metadata /\ r.status = "ok" /\ r.good => r.call = "next"

Place(w, r, l) ==
    /\ ~r.started => Fresh(w, r, l)
    /\ r.started /\ r.status = "ok" => IF r.good THEN Busy(w, r, l) ELSE Ended(w, r, l)

Reader(w, r, l) ==
    DOMAIN r = Fields /\ AllRight(w, l) /\ Known(w, r) /\ Calling(r) /\ Place(w, r, l)

\* What the client does and the files hold for all this to be true
ClientReads ==
    /\ "skip_to_next_metadata" \notin Calls
    /\ "try_read" \in Calls => /\ "next_with_metadata" \notin Calls
                               /\ "try again" \notin Habits
                               /\ WantedClass \notin MetadataClasses

ReaderInv == Reader(file, is, log)
-----------------------------------------------------------------------------
(* What is handed out                                                       *)

LEMMA AppendList ==
  ASSUME NEW s, IsList(s), NEW d
  PROVE  /\ IsList(Append(s, d)) /\ DOMAIN Append(s, d) = 1 .. Len(s) + 1
         /\ Len(s) \in Nat /\ DOMAIN s = 1 .. Len(s) /\ Len(Append(s, d)) = Len(s) + 1
         /\ \A n \in 1 .. Len(s) : Append(s, d)[n] = s[n]
         /\ Append(s, d)[Len(s) + 1] = d
<1> DEFINE R == {s[n] : n \in DOMAIN s}
           T == R \cup {d}
           t == Append(s, d)
<1>1. s \in Seq(R)
  BY DEF IsList
<1>2. s \in Seq(T) /\ d \in T
  <2>1. R \subseteq T
    OBVIOUS
  <2> HIDE DEF R, T
  <2>2. Len(s) \in Nat /\ s \in [1 .. Len(s) -> R]
    BY <1>1
  <2>3. s \in [1 .. Len(s) -> T]
    BY <2>1, <2>2
  <2>4. s \in Seq(T)
    BY <2>2, <2>3, SeqDef
  <2>5. QED
    BY <2>4 DEF T
<1> HIDE DEF R, T
<1>3. /\ t \in Seq(T) /\ Len(t) = Len(s) + 1 /\ Len(s) \in Nat /\ DOMAIN s = 1 .. Len(s)
      /\ DOMAIN t = 1 .. Len(s) + 1
      /\ \A n \in 1 .. Len(s) : t[n] = s[n]
      /\ t[Len(s) + 1] = d
  BY <1>2
<1> HIDE DEF t
<1>4. IsList(t)
  <2> DEFINE U == {t[n] : n \in DOMAIN t}
  <2>1. \A n \in 1 .. Len(t) : t[n] \in U
    BY <1>3
  <2> HIDE DEF U
  <2>2. t = [n \in 1 .. Len(t) |-> t[n]]
    BY <1>3
  <2>3. [n \in 1 .. Len(t) |-> t[n]] \in [1 .. Len(t) -> U]
    BY <2>1
  <2>4. t \in [1 .. Len(t) -> U] /\ Len(t) \in Nat
    BY <1>3, <2>2, <2>3
  <2>5. t \in Seq(U)
    BY <2>4, SeqDef
  <2>6. QED
    BY <2>5 DEF IsList, U
<1>5. QED
  BY <1>3, <1>4 DEF t

\* Going past a cell that is no event
LEMMA HandedOn ==
  ASSUME NEW w, NEW l, NEW i \in Nat, HandedUpTo(w, l, i), ~IsEvent(w[i]), w \in Seq(Cell)
  PROVE  HandedUpTo(w, l, i + 1)
<1>1. \A k : k \in 0 .. i - 1 => k \in 0 .. i + 1 - 1
  OBVIOUS
<1>2. \A k \in DOMAIN w : k < i + 1 /\ IsEvent(w[k]) => k < i
  OBVIOUS
<1>3. QED
  BY <1>1, <1>2 DEF HandedUpTo

\* HandOver
LEMMA GivenOut ==
  ASSUME NEW w, NEW l, NEW i \in DOMAIN w, NEW d, NEW m, w \in Seq(Cell),
         AllRight(w, l), HandedUpTo(w, l, i), d.at = i, IsEvent(w[i]) => EventRight(w, d),
         m = [all |-> Append(l.all, d),
              events |-> IF IsEvent(w[d.at]) THEN Append(l.events, d) ELSE l.events]
  PROVE  AllRight(w, m) /\ HandedUpTo(w, m, i + 1)
<1> DEFINE all == Append(l.all, d)
           events == Append(l.events, d)
<1>1. /\ IsList(all) /\ IsList(l.all) /\ DOMAIN all = 1 .. Len(l.all) + 1 /\ Len(l.all) \in Nat
      /\ DOMAIN l.all = 1 .. Len(l.all) /\ Len(all) = Len(l.all) + 1
      /\ \A n \in 1 .. Len(l.all) : all[n] = l.all[n]
      /\ all[Len(l.all) + 1] = d
  BY AppendList DEF AllRight
<1>2. /\ IsList(events) /\ IsList(l.events) /\ DOMAIN events = 1 .. Len(l.events) + 1
      /\ DOMAIN l.events = 1 .. Len(l.events) /\ Len(l.events) \in Nat
      /\ \A n \in 1 .. Len(l.events) : events[n] = l.events[n]
      /\ events[Len(l.events) + 1] = d
  BY AppendList DEF AllRight
<1>3. m.all = all /\ m.events = IF IsEvent(w[i]) THEN events ELSE l.events
  OBVIOUS
<1> HIDE DEF all, events
<1>4. i \in Nat /\ i >= 1 /\ DOMAIN w = 1 .. Len(w)
  OBVIOUS
<1>5. \A n \in DOMAIN all : all[n].at \in 0 .. i
  <2>1. SUFFICES ASSUME NEW n \in DOMAIN all PROVE all[n].at \in 0 .. i
    OBVIOUS
  <2>2. CASE n = Len(l.all) + 1
    BY <1>1, <1>4, <2>2
  <2>3. CASE n # Len(l.all) + 1
    <3>1. n \in DOMAIN l.all /\ all[n] = l.all[n]
      BY <1>1, <2>3
    <3>2. l.all[n].at \in 0 .. i - 1
      BY <3>1 DEF HandedUpTo
    <3>3. QED
      BY <1>4, <3>1, <3>2
  <2>4. QED
    BY <2>2, <2>3
<1>6. \A n \in 2 .. Len(all) : all[n - 1].at < all[n].at
  <2>1. SUFFICES ASSUME NEW n \in 2 .. Len(all) PROVE all[n - 1].at < all[n].at
    OBVIOUS
  <2>2. n - 1 \in 1 .. Len(l.all) /\ all[n - 1] = l.all[n - 1]
    <3>1. n - 1 \in 1 .. Len(l.all)
      BY <1>1
    <3>2. QED
      BY <1>1, <3>1
  <2>3. CASE n = Len(l.all) + 1
    <3>1. l.all[n - 1].at \in 0 .. i - 1 /\ all[n].at = i
      BY <1>1, <2>2, <2>3 DEF HandedUpTo
    <3>2. QED
      BY <1>4, <2>2, <3>1
  <2>4. CASE n # Len(l.all) + 1
    <3>1. n \in 2 .. Len(l.all) /\ all[n] = l.all[n]
      BY <1>1, <2>4
    <3>2. QED
      BY <2>2, <3>1 DEF AllRight
  <2>5. QED
    BY <2>3, <2>4
<1>7. CASE IsEvent(w[i])
  <2>1. \A n \in DOMAIN events : EventRight(w, events[n]) /\ events[n].at \in 0 .. i
    <3>1. SUFFICES ASSUME NEW n \in DOMAIN events
                   PROVE  EventRight(w, events[n]) /\ events[n].at \in 0 .. i
      OBVIOUS
    <3>2. CASE n = Len(l.events) + 1
      BY <1>2, <1>4, <1>7, <3>2
    <3>3. CASE n # Len(l.events) + 1
      <4>1. n \in DOMAIN l.events /\ events[n] = l.events[n]
        BY <1>2, <3>3
      <4>2. EventRight(w, l.events[n]) /\ l.events[n].at \in 0 .. i - 1
        BY <4>1 DEF HandedUpTo, AllRight
      <4>3. QED
        BY <1>4, <4>1, <4>2
    <3>4. QED
      BY <3>2, <3>3
  <2>2. ASSUME NEW k \in DOMAIN w, k < i + 1, IsEvent(w[k])
        PROVE  \E n \in DOMAIN events : events[n].at = k
    <3>1. CASE k = i
      BY <1>2, <3>1
    <3>2. CASE k # i
      <4>1. k < i
        BY <1>4, <2>2, <3>2
      <4>2. PICK n \in DOMAIN l.events : l.events[n].at = k
        BY <2>2, <4>1 DEF HandedUpTo
      <4>3. QED
        BY <1>2, <4>2
    <3>3. QED
      BY <3>1, <3>2
  <2>3. m.events = events /\ m.all = all /\ i + 1 - 1 = i
    BY <1>3, <1>4, <1>7
  <2>4. AllRight(w, m)
    BY <1>1, <1>2, <1>6, <2>1, <2>3 DEF AllRight
  <2>5. /\ \A n \in DOMAIN m.all : m.all[n].at \in 0 .. i + 1 - 1
        /\ \A n \in DOMAIN m.events : m.events[n].at \in 0 .. i + 1 - 1
    BY <1>5, <2>1, <2>3
  <2>6. \A k \in DOMAIN w : k < i + 1 /\ IsEvent(w[k]) => \E n \in DOMAIN m.events : m.events[n].at = k
    BY <2>2, <2>3
  <2>7. HandedUpTo(w, m, i + 1)
    BY <2>5, <2>6, SMTT(30) DEF HandedUpTo
  <2>8. QED
    BY <2>4, <2>7
<1>8. CASE ~IsEvent(w[i])
  <2>1. m.events = l.events /\ m.all = all /\ i + 1 - 1 = i
    BY <1>3, <1>4, <1>8
  <2>2. HandedUpTo(w, l, i + 1)
    BY <1>4, <1>8, HandedOn
  <2>3. AllRight(w, m)
    BY <1>1, <1>6, <2>1 DEF AllRight
  <2>4. \A n \in DOMAIN m.all : m.all[n].at \in 0 .. i + 1 - 1
    BY <1>5, <2>1
  <2>5. /\ \A n \in DOMAIN m.events : m.events[n].at \in 0 .. i + 1 - 1
        /\ \A k \in DOMAIN w : k < i + 1 /\ IsEvent(w[k]) => \E n \in DOMAIN m.events : m.events[n].at = k
    <3>1. /\ \A n \in DOMAIN l.events : l.events[n].at \in 0 .. i + 1 - 1
          /\ \A k \in DOMAIN w : k < i + 1 /\ IsEvent(w[k]) => \E n \in DOMAIN l.events : l.events[n].at = k
      BY <2>2 DEF HandedUpTo
    <3> DEFINE given == m.events
    <3>2. given = l.events
      BY <2>1
    <3> HIDE DEF given
    <3>3. /\ \A n \in DOMAIN given : given[n].at \in 0 .. i + 1 - 1
          /\ \A k \in DOMAIN w : k < i + 1 /\ IsEvent(w[k]) => \E n \in DOMAIN given : given[n].at = k
      BY <3>1, <3>2
    <3>4. QED
      BY <3>3 DEF given
  <2>6. HandedUpTo(w, m, i + 1)
    BY <2>4, <2>5, SMTT(30) DEF HandedUpTo
  <2>7. QED
    BY <2>3, <2>6
<1>9. QED
  BY <1>7, <1>8
-----------------------------------------------------------------------------
(* The current metadata                                                     *)

LEMMA MetadataPlaces ==
  ASSUME NEW w \in Seq(Cell), NEW h \in HeadersOf(w), NEW m \in MetadataIn(w, h)
  PROVE  m \in Nat /\ h \in Nat /\ h < m /\ m \in DOMAIN w /\ IsMetadata(w[m]) /\ InStreamOf(w, h, m)
<1>1. m \in DOMAIN w /\ IsMetadata(w[m]) /\ InStreamOf(w, h, m) /\ h \in 1 .. m
  BY DEF MetadataIn, InStreamOf
<1>2. HasId(w[h], StreamHeaderId) /\ ~HasId(w[m], StreamHeaderId)
  BY <1>1 DEF HeadersOf, IsMetadata, IsUserMessage, HasId, FixedIds
<1>3. h # m
  BY <1>2
<1>4. QED
  BY <1>1, <1>3

LEMMA CurrentOn ==
  ASSUME NEW w \in Seq(Cell), NEW r, NEW h \in HeadersOf(w), NEW i \in Nat,
         CurrentRight(w, r, h, i), ~Refers(w, h) => Lists(w, h, r.metadata_per_header[Number(w, h)]),
         ~IsMetadata(w[i])
  PROVE  CurrentRight(w, r, h, i + 1)
<1>1. \A m \in MetadataIn(w, h) : m \in Nat /\ m # i /\ (m < i + 1 <=> m < i)
  <2>1. SUFFICES ASSUME NEW m \in MetadataIn(w, h) PROVE m \in Nat /\ m # i /\ (m < i + 1 <=> m < i)
    OBVIOUS
  <2>2. m \in Nat /\ m # i
    BY MetadataPlaces
  <2>3. QED
    BY <2>2
<1>2. CASE Refers(w, h)
  <2>1. {m \in MetadataIn(w, h) : m < i + 1} = {m \in MetadataIn(w, h) : m < i}
    BY <1>1
  <2>2. QED
    BY <1>2, <2>1 DEF CurrentRight, ForwardRight
<1>3. CASE ~Refers(w, h)
  BY <1>1, <1>3 DEF CurrentRight, BackwardRight, Lists
<1>4. QED
  BY <1>2, <1>3

\* Where the metadata that refers backward was passed
LEMMA CurrentApplies ==
  ASSUME NEW w \in Seq(Cell), NEW r, NEW h \in HeadersOf(w), NEW i \in Nat,
         CurrentRight(w, r, h, i), ~Refers(w, h) => Lists(w, h, r.metadata_per_header[Number(w, h)]),
         ~IsMetadata(w[i]), ~r.do_reset_metadata
  PROVE  Applies(w, h, i, r.current)
<1>1. CASE Refers(w, h)
  BY <1>1 DEF CurrentRight, ForwardRight, Applies
<1>2. CASE ~Refers(w, h)
  <2> DEFINE list == r.metadata_per_header[Number(w, h)]
             n == r.metadata_index
             after == {k \in MetadataIn(w, h) : k > i}
  <2>1. /\ Lists(w, h, list) /\ n \in 0 .. Len(list) /\ r.current = Entry(list, n + 1)
        /\ \A k \in DOMAIN list : k <= n <=> list[k] < i
    BY <1>2 DEF CurrentRight, BackwardRight
  <2> HIDE DEF list, n
  <2>2. /\ list \in Seq(Nat) /\ Len(list) \in Nat /\ DOMAIN list = 1 .. Len(list)
        /\ \A k \in DOMAIN list : list[k] \in MetadataIn(w, h)
        /\ \A m \in MetadataIn(w, h) : \E k \in DOMAIN list : list[k] = m
        /\ \A j, k \in DOMAIN list : j < k => list[j] < list[k]
    BY <2>1 DEF Lists
  <2>3. \A k \in DOMAIN list : list[k] \in Nat /\ (k > n <=> list[k] > i)
    <3>1. SUFFICES ASSUME NEW k \in DOMAIN list PROVE list[k] \in Nat /\ (k > n <=> list[k] > i)
      OBVIOUS
    <3>2. list[k] \in Nat /\ list[k] # i
      BY <2>2, MetadataPlaces
    <3>3. k \in Nat /\ n \in Nat /\ (k <= n <=> list[k] < i)
      BY <2>1, <2>2
    <3>4. QED
      BY <3>2, <3>3
  <2>4. CASE n = Len(list)
    <3>1. after = {}
      BY <2>1, <2>2, <2>3, <2>4
    <3>2. r.current = None
      BY <2>1, <2>2, <2>4 DEF Entry
    <3>3. QED
      BY <1>2, <3>1, <3>2 DEF Applies
  <2>5. CASE n < Len(list)
    <3>1. n + 1 \in DOMAIN list /\ r.current = list[n + 1]
      BY <2>1, <2>2, <2>5 DEF Entry
    <3>2. list[n + 1] \in after
      BY <2>1, <2>2, <2>3, <3>1, SMTT(30)
    <3>3. ASSUME NEW m \in after PROVE list[n + 1] <= m
      <4>1. PICK k \in DOMAIN list : list[k] = m
        BY <2>2
      <4>2. k > n /\ k \in Nat /\ n \in Nat
        BY <2>1, <2>2, <2>3, <3>3, <4>1
      <4>3. k = n + 1 \/ n + 1 < k
        BY <4>2
      <4>4. list[n + 1] \in Nat /\ m \in Nat /\ (list[n + 1] = m \/ list[n + 1] < m)
        BY <2>2, <2>3, <3>1, <4>1, <4>3
      <4>5. QED
        BY <4>4
    <3>4. QED
      BY <1>2, <3>1, <3>2, <3>3 DEF Applies
  <2>6. n = Len(list) \/ n < Len(list)
    <3>1. n \in 0 .. Len(list) /\ Len(list) \in Nat
      BY <2>1, <2>2
    <3>2. QED
      BY <3>1
  <2>7. QED
    BY <2>4, <2>5, <2>6
<1>3. QED
  BY <1>1, <1>2

\* handle_metadata
LEMMA MetadataPassed ==
  ASSUME NEW w \in Seq(Cell), NEW r, DOMAIN r = Fields, NEW h \in HeadersOf(w), NEW i \in MetadataIn(w, h),
         CurrentRight(w, r, h, i), ~Refers(w, h) => Lists(w, h, r.metadata_per_header[Number(w, h)]),
         r.forward = Refers(w, h)
  PROVE  CurrentRight(w, PassMetadata(r, i), h, i + 1)
<1> DEFINE t == PassMetadata(r, i)
<1>1. i \in Nat
  BY MetadataPlaces
<1>2. CASE Refers(w, h)
  <2>1. t = [[r EXCEPT !.metadata_index = @ + 1] EXCEPT !.current = i, !.new_metadata = TRUE]
    BY <1>2 DEF PassMetadata
  <2>2. t.current = i /\ t.do_reset_metadata = r.do_reset_metadata
    BY <2>1 DEF Fields
  <2> HIDE DEF t
  <2>3. i \in {m \in MetadataIn(w, h) : m < i + 1}
    BY <1>1
  <2>4. ~r.do_reset_metadata
    BY <1>2 DEF CurrentRight, ForwardRight
  <2>5. \A m \in {m \in MetadataIn(w, h) : m < i + 1} : m <= i
    BY <1>1, MetadataPlaces
  <2>6. QED
    BY <1>2, <2>2, <2>3, <2>4, <2>5 DEF CurrentRight, ForwardRight, t
<1>3. CASE ~Refers(w, h)
  <2> DEFINE list == r.metadata_per_header[Number(w, h)]
             n == r.metadata_index
  <2>1. /\ Lists(w, h, list) /\ n \in 0 .. Len(list) /\ r.discovered
        /\ \A k \in DOMAIN list : k <= n <=> list[k] < i
    BY <1>3 DEF CurrentRight, BackwardRight
  <2>2. t = [[r EXCEPT !.metadata_index = @ + 1] EXCEPT !.do_reset_metadata = TRUE]
    BY <1>3 DEF PassMetadata
  <2>3. /\ t.metadata_index = n + 1 /\ t.do_reset_metadata
        /\ t.discovered = r.discovered /\ t.metadata_per_header = r.metadata_per_header
    BY <2>2 DEF Fields
  <2> HIDE DEF t, list, n
  <2>4. /\ list \in Seq(Nat) /\ Len(list) \in Nat /\ DOMAIN list = 1 .. Len(list)
        /\ \A k \in DOMAIN list : list[k] \in Nat
        /\ \A j, k \in DOMAIN list : j < k => list[j] < list[k]
    BY <2>1 DEF Lists
  <2>5. PICK j \in DOMAIN list : list[j] = i
    BY <2>1 DEF Lists
  <2>6. \A k \in DOMAIN list : list[k] < i + 1 <=> k <= j
    <3>1. SUFFICES ASSUME NEW k \in DOMAIN list PROVE list[k] < i + 1 <=> k <= j
      OBVIOUS
    <3>2. k \in Nat /\ j \in Nat /\ list[k] \in Nat
      BY <2>4
    <3>3. (k < j => list[k] < i) /\ (j < k => i < list[k]) /\ (k = j => list[k] = i)
      BY <2>4, <2>5
    <3>4. QED
      BY <1>1, <3>2, <3>3
  <2>7. j = n + 1
    <3>1. j \in Nat /\ n \in Nat /\ j <= Len(list) /\ j >= 1 /\ n <= Len(list)
      BY <2>1, <2>4
    <3>2. ~(j <= n)
      BY <1>1, <2>1, <2>5
    <3>3. ASSUME n + 1 < j PROVE FALSE
      <4>1. n + 1 \in DOMAIN list
        BY <2>4, <3>1, <3>3
      <4>2. list[n + 1] < i
        BY <2>4, <2>5, <3>3, <4>1
      <4>3. n + 1 <= n
        BY <2>1, <4>1, <4>2
      <4>4. QED
        BY <3>1, <4>3
    <3>4. QED
      BY <3>1, <3>2, <3>3
  <2>8. n + 1 \in 0 .. Len(list)
    BY <2>4, <2>7
  <2>9. QED
    BY <1>3, <2>1, <2>3, <2>6, <2>7, <2>8 DEF CurrentRight, BackwardRight, t, list
<1>4. QED
  BY <1>2, <1>3
-----------------------------------------------------------------------------
(* Reading a message                                                        *)

\* t is about to go past message i of the stream with header h.
Reads(w, t, l, h, i) ==
    /\ DOMAIN t = Fields /\ t.started /\ t.good /\ t.status = "ok"
    /\ h \in HeadersOf(w) /\ i \in DOMAIN w /\ IsMessage(w[i]) /\ InStreamOf(w, h, i)
    /\ t.forward = Refers(w, h) /\ t.header_index \in Nat /\ t.header_index + 1 = Number(w, h)
    /\ t.scan = NoScan /\ PoolSound(w, h, t.pool) /\ Known(w, t)
    /\ ~t.do_reset_metadata /\ CurrentRight(w, t, h, i)
    /\ AllRight(w, l) /\ HandedUpTo(w, l, i)

\* Discovery has run when metadata refers backward.
LEMMA ListKnown ==
  ASSUME NEW w \in Seq(Cell), NEW r, Known(w, r), NEW h \in HeadersOf(w), NEW i,
         CurrentRight(w, r, h, i)
  PROVE  ~Refers(w, h) => /\ Lists(w, h, r.metadata_per_header[Number(w, h)])
                          /\ Number(w, h) \in DOMAIN r.metadata_per_header
<1> SUFFICES ASSUME ~Refers(w, h)
             PROVE  /\ Lists(w, h, r.metadata_per_header[Number(w, h)])
                    /\ Number(w, h) \in DOMAIN r.metadata_per_header
  OBVIOUS
<1>1. r.discovered
  BY DEF CurrentRight, BackwardRight
<1>2. /\ r.metadata_per_header \in Seq(Seq(Nat)) /\ Len(r.metadata_per_header) = Streams(w)
      /\ Lists(w, h, r.metadata_per_header[Number(w, h)])
  BY <1>1 DEF Known
<1>3. Number(w, h) \in 1 .. Streams(w)
  BY HeadersCounted
<1>4. DOMAIN r.metadata_per_header = 1 .. Len(r.metadata_per_header)
  BY <1>2
<1>5. QED
  BY <1>2, <1>3, <1>4

\* What ApplyReset and Fetched leave alone
SameReader(r, t) ==
    /\ DOMAIN t = DOMAIN r /\ t.forward = r.forward /\ t.header_index = r.header_index
    /\ t.metadata_index = r.metadata_index /\ t.metadata_per_header = r.metadata_per_header
    /\ t.discovered = r.discovered /\ t.pool = r.pool /\ t.scan = r.scan /\ t.call = r.call
    /\ t.good = r.good /\ t.error = r.error /\ t.started = r.started /\ t.status = r.status

LEMMA ApplyResetRight ==
  ASSUME NEW w \in Seq(Cell), NEW r, DOMAIN r = Fields, NEW h \in HeadersOf(w),
         At(w, r, h), Decoding(w, r, h), Known(w, r)
  PROVE  LET t == ApplyReset(r)
         IN  /\ SameReader(r, t) /\ t.pos = r.pos /\ t.pickup = r.pickup
             /\ ~t.do_reset_metadata /\ CurrentRight(w, t, h, Coming(r))
<1> DEFINE t == ApplyReset(r)
           n == Number(w, h)
           m == r.metadata_index + 1
           list == r.metadata_per_header[n]
<1>1. r.header_index + 1 = n
  BY DEF At
<1>2. CASE ~r.do_reset_metadata
  <2>1. t = r
    BY <1>2 DEF ApplyReset
  <2>2. QED
    BY <1>2, <2>1 DEF SameReader, Decoding
<1>3. CASE r.do_reset_metadata
  <2>1. ~Refers(w, h)
    BY <1>3 DEF Decoding, CurrentRight, ForwardRight
  <2>2. n \in DOMAIN r.metadata_per_header
    BY <2>1, ListKnown DEF Decoding
  <2>3. t = [r EXCEPT !.do_reset_metadata = FALSE, !.new_metadata = TRUE,
                      !.current = Entry(list, m)]
    BY <1>1, <1>3, <2>2 DEF ApplyReset, Entry
  <2> HIDE DEF t, n, m, list
  <2>4. /\ SameReader(r, t) /\ t.pos = r.pos /\ t.pickup = r.pickup
        /\ ~t.do_reset_metadata /\ t.current = Entry(list, m)
    BY <2>3 DEF SameReader, Fields
  <2>5. BackwardRight(w, r, h, Coming(r))
    BY <2>1 DEF Decoding, CurrentRight
  <2>6. BackwardRight(w, t, h, Coming(r))
    BY <2>4, <2>5 DEF BackwardRight, SameReader, list, m, n
  <2>7. QED
    BY <2>1, <2>4, <2>6 DEF CurrentRight, t
<1>4. QED
  BY <1>2, <1>3

\* A reader that is asked for a message
LEMMA BusyReader ==
  ASSUME Reader(file, is, log), Ready, is.pickup # None \/ (is.started /\ is.good)
  PROVE  /\ is.started /\ is.good /\ HandedUpTo(file, log, Incoming) /\ Incoming = Coming(is)
         /\ \E h \in HeadersOf(file) : At(file, is, h) /\ Decoding(file, is, h)
<1>1. is.started /\ is.good /\ is.status = "ok" /\ is.scan = NoScan
  BY DEF Reader, Place, Fresh, Ended, Ready
<1>2. Busy(file, is, log)
  BY <1>1 DEF Reader, Place
<1>3. ASSUME NEW h PROVE ~Searching(file, is, h)
  BY <1>1 DEF Searching, ScanRight, NoScan
<1>4. Incoming = Coming(is)
  BY DEF Incoming, Coming
<1>5. QED
  BY <1>1, <1>2, <1>3, <1>4 DEF Busy

LEMMA ComingInStream ==
  ASSUME NEW w \in Seq(Cell), NEW r, NEW h, At(w, r, h), NEW i, i = Coming(r), i \in DOMAIN w,
         w[i].id # StreamHeaderId
  PROVE  InStreamOf(w, h, i) /\ i \in {r.pos, r.pos + 1} /\ (r.pickup # None => i = r.pos)
<1>1. CASE r.pickup # None
  BY <1>1 DEF At, Coming
<1>2. CASE r.pickup = None
  <2>1. i = r.pos + 1 /\ r.pos \in Nat /\ r.pos >= 1 /\ InStreamOf(w, h, r.pos)
    BY <1>2 DEF At, Coming
  <2>2. QED
    BY <1>2, <2>1, NextInStream DEF HasId
<1>3. QED
  BY <1>1, <1>2

LEMMA FetchedReads ==
  ASSUME Reader(file, is, log), FileOK(file), Readable, file[Incoming].id # StreamHeaderId
  PROVE  /\ \E h \in HeadersOf(file) : Reads(file, Fetched, log, h, Incoming)
         /\ SameReader(is, Fetched) /\ Fetched.pos = Incoming /\ Fetched.pickup = None
<1> DEFINE r == ApplyReset(is)
           i == Incoming
           t == Fetched
<1>1. /\ Ready /\ (is.pickup # None \/ (is.started /\ is.good))
      /\ i \in DOMAIN file /\ IsMessage(file[i])
  BY DEF Readable, Reading, Available, Parsable, AtMessage
<1>2. is.started /\ is.good /\ HandedUpTo(file, log, i) /\ i = Coming(is) /\ is.status = "ok"
  BY <1>1, BusyReader DEF Ready
<1>3. PICK h \in HeadersOf(file) : At(file, is, h) /\ Decoding(file, is, h)
  BY <1>1, BusyReader
<1>4. file \in Seq(Cell) /\ DOMAIN is = Fields /\ Known(file, is) /\ AllRight(file, log)
  BY DEF FileOK, Reader
<1>5. /\ SameReader(is, r) /\ r.pos = is.pos /\ r.pickup = is.pickup
      /\ ~r.do_reset_metadata /\ CurrentRight(file, r, h, i)
  BY <1>2, <1>3, <1>4, ApplyResetRight
<1>6. InStreamOf(file, h, i) /\ (is.pickup # None => i = is.pos) /\ (is.pickup = None => i = is.pos + 1)
  BY <1>1, <1>2, <1>3, <1>4, ComingInStream DEF Coming
<1>7. t = IF r.pickup # None THEN [r EXCEPT !.pickup = None] ELSE [r EXCEPT !.pos = @ + 1]
  BY DEF Fetched
<1> HIDE DEF r, i, t
<1>8. DOMAIN r = Fields
  BY <1>4, <1>5 DEF SameReader
<1>9. /\ SameReader(r, t) /\ t.pos = i /\ t.pickup = None
      /\ t.do_reset_metadata = r.do_reset_metadata /\ t.current = r.current
  BY <1>5, <1>6, <1>7, <1>8 DEF SameReader, Fields
<1>10. SameReader(is, t)
  BY <1>5, <1>9 DEF SameReader
<1>11. CurrentRight(file, t, h, i)
  BY <1>5, <1>9 DEF CurrentRight, ForwardRight, BackwardRight, SameReader
<1>12. Known(file, t) /\ PoolSound(file, h, t.pool) /\ t.scan = NoScan
  BY <1>3, <1>4, <1>10 DEF Known, SameReader, Decoding
<1>13. Reads(file, t, log, h, i)
  BY <1>1, <1>2, <1>3, <1>4, <1>5, <1>6, <1>9, <1>10, <1>11, <1>12 DEF Reads, SameReader, At
<1>14. QED
  BY <1>9, <1>10, <1>13 DEF i, t

\* A reader that went past message i
LEMMA ReadOneMore ==
  ASSUME NEW w \in Seq(Cell), NEW t, NEW l, NEW h, NEW i, Reads(w, t, l, h, i),
         NEW x, NEW m, DOMAIN x = Fields, x.started, x.good, x.status = "ok",
         x.pos = i, x.pickup = None, x.forward = t.forward, x.header_index = t.header_index,
         x.scan = NoScan, PoolSound(w, h, x.pool), Known(w, x), CurrentRight(w, x, h, i + 1),
         Calling(x), AllRight(w, m), HandedUpTo(w, m, i + 1)
  PROVE  Reader(w, x, m)
<1>1. Coming(x) = i + 1
  BY DEF Coming
<1>2. At(w, x, h)
  BY DEF At, Reads
<1>3. Decoding(w, x, h)
  BY <1>1 DEF Decoding
<1>4. Busy(w, x, m)
  BY <1>1, <1>2, <1>3 DEF Busy, Reads
<1>5. QED
  BY <1>4 DEF Reader, Place

\* A FATAL, and an assertion that fails
LEMMA Aborted ==
  ASSUME NEW w, NEW r, NEW l, AllRight(w, l), Known(w, r), DOMAIN r = Fields, r.started,
         r.call \in Calls \cup {"none"}, r.call = "try_read" => r.pickup = None,
         NEW why, why # "ok"
  PROVE  Reader(w, Fatal(r, why), l)
<1> DEFINE x == Fatal(r, why)
<1>1. /\ DOMAIN x = Fields /\ x.status = why /\ x.call = r.call /\ x.pickup = r.pickup
      /\ x.started = r.started /\ x.discovered = r.discovered
      /\ x.metadata_per_header = r.metadata_per_header
  BY DEF Fatal, Fields
<1> HIDE DEF x
<1>2. QED
  BY <1>1 DEF Reader, Known, Calling, Place, x
\* Readers that differ in the call they run, and in what does not matter here
Agrees(x, r) ==
    /\ SameReader(r, [x EXCEPT !.call = r.call]) /\ x.pos = r.pos /\ x.pickup = r.pickup
    /\ x.current = r.current /\ x.do_reset_metadata = r.do_reset_metadata

LEMMA AgreeingReader ==
  ASSUME NEW w, NEW r, NEW l, Reader(w, r, l), NEW x, DOMAIN x = Fields, Agrees(x, r), Calling(x)
  PROVE  Reader(w, x, l)
<1>1. /\ x.forward = r.forward /\ x.header_index = r.header_index
      /\ x.metadata_index = r.metadata_index /\ x.metadata_per_header = r.metadata_per_header
      /\ x.discovered = r.discovered /\ x.pool = r.pool /\ x.scan = r.scan
      /\ x.good = r.good /\ x.error = r.error /\ x.started = r.started /\ x.status = r.status
      /\ x.pos = r.pos /\ x.pickup = r.pickup
      /\ x.current = r.current /\ x.do_reset_metadata = r.do_reset_metadata
  BY DEF Agrees, SameReader, Fields
<1>2. Known(w, x) /\ AllRight(w, l)
  BY <1>1 DEF Known, Reader
<1>3. Fresh(w, r, l) => Fresh(w, x, l)
  BY <1>1 DEF Fresh
<1>4. Ended(w, r, l) => Ended(w, x, l)
  BY <1>1 DEF Ended
<1>5. Coming(x) = Coming(r)
  BY <1>1 DEF Coming
<1>6. ASSUME NEW h
      PROVE  /\ At(w, r, h) => At(w, x, h)
             /\ Decoding(w, r, h) => Decoding(w, x, h)
             /\ Searching(w, r, h) => Searching(w, x, h)
  <2>1. At(w, r, h) => At(w, x, h)
    BY <1>1 DEF At
  <2>2. Searching(w, r, h) => Searching(w, x, h)
    BY <1>1 DEF Searching
  <2>3. CurrentRight(w, r, h, Coming(r)) => CurrentRight(w, x, h, Coming(x))
    BY <1>1, <1>5 DEF CurrentRight, ForwardRight, BackwardRight
  <2>4. QED
    BY <1>1, <2>1, <2>2, <2>3 DEF Decoding
<1>7. Busy(w, r, l) => Busy(w, x, l)
  BY <1>5, <1>6 DEF Busy
<1>8. QED
  BY <1>1, <1>2, <1>3, <1>4, <1>7 DEF Reader, Place

LEMMA ReturnAgrees ==
  ASSUME NEW r, DOMAIN r = Fields
  PROVE  /\ DOMAIN Return(r) = Fields /\ Agrees(Return(r), r) /\ Return(r).call = "none"
         /\ Calling(Return(r)) \/ (r.do_reset_metadata /\ r.good /\ "try_read" \in Calls)
BY DEF Return, Agrees, SameReader, Fields, Calling

\* A message of the client is decoded as what it was written as.
LEMMA Decoded ==
  ASSUME NEW w, FileOK(w), NEW h \in HeadersOf(w), NEW i \in DOMAIN w, InStreamOf(w, h, i),
         IsUserMessage(w[i]), NEW pool, PoolSound(w, h, pool), w[i].id \in DOMAIN pool.class
  PROVE  pool.class[w[i].id] = w[i].body.class
<1>1. PICK j \in ProtoClassesIn(w, h) :
        w[j].body.class_id = w[i].id /\ w[j].body.full_name = pool.class[w[i].id]
  BY DEF PoolSound
<1>2. StreamBinds(w, h)
  BY DEF FileOK
<1>3. PICK k \in ProtoClassesIn(w, h) : w[k].body.class_id = w[i].id /\ w[k].body.full_name = w[i].body.class
  BY <1>2 DEF StreamBinds, Binds
<1>4. j = k
  BY <1>1, <1>2, <1>3 DEF StreamBinds
<1>5. QED
  BY <1>1, <1>3, <1>4

\* The calls that read messages
LEMMA CallsThatRead ==
  ASSUME ClientReads, Reader(file, is, log), Reading
  PROVE  /\ is.call \in {"next", "next_with_metadata"} /\ is.call \in Calls
         /\ Ready /\ DOMAIN is = Fields
BY InputStreamAssumption DEF ClientReads, Reader, Calling, Reading

\* A message of the format itself
LEMMA PassedOwn ==
  ASSUME NEW w, FileOK(w), NEW t, NEW l, NEW h, NEW i, Reads(w, t, l, h, i), w[i].id \in FixedIds,
         t.pos = i, t.pickup = None, Calling(t), NEW x, DOMAIN x = Fields, Agrees([x EXCEPT !.pool = t.pool], t),
         x.call = t.call, PoolSound(w, h, x.pool)
  PROVE  Reader(w, x, l)
<1>1. w \in Seq(Cell) /\ i \in Nat
  BY DEF FileOK, Reads
<1>2. ~IsEvent(w[i]) /\ ~IsMetadata(w[i])
  BY DEF IsEvent, IsMetadata, IsUserMessage
<1>3. /\ x.forward = t.forward /\ x.header_index = t.header_index
      /\ x.metadata_index = t.metadata_index /\ x.metadata_per_header = t.metadata_per_header
      /\ x.discovered = t.discovered /\ x.scan = t.scan
      /\ x.good = t.good /\ x.error = t.error /\ x.started = t.started /\ x.status = t.status
      /\ x.pos = t.pos /\ x.pickup = t.pickup
      /\ x.current = t.current /\ x.do_reset_metadata = t.do_reset_metadata
  BY DEF Agrees, SameReader, Fields
<1>4. HandedUpTo(w, l, i + 1)
  BY <1>1, <1>2, HandedOn DEF Reads
<1>5. CurrentRight(w, t, h, i + 1)
  BY <1>1, <1>2, ListKnown, CurrentOn DEF Reads
<1>6. CurrentRight(w, x, h, i + 1) /\ Known(w, x) /\ Calling(x)
  BY <1>3, <1>5 DEF CurrentRight, ForwardRight, BackwardRight, Known, Reads, Calling
<1>7. AllRight(w, l) /\ x.started /\ x.good /\ x.status = "ok" /\ x.scan = NoScan
  BY <1>3 DEF Reads
<1>8. x.pos = i /\ x.pickup = None /\ x.forward = t.forward /\ x.header_index = t.header_index
  BY <1>3
<1>9. QED
  BY <1>1, <1>4, <1>6, <1>7, <1>8, ReadOneMore

LEMMA FetchedCalling ==
  ASSUME ClientReads, Reader(file, is, log), FileOK(file), Readable, file[Incoming].id # StreamHeaderId
  PROVE  /\ DOMAIN Fetched = Fields /\ Calling(Fetched) /\ Fetched.call = is.call
         /\ ~Fetched.do_reset_metadata
<1>1. PICK h \in HeadersOf(file) : Reads(file, Fetched, log, h, Incoming)
  BY FetchedReads
<1>2. SameReader(is, Fetched) /\ is.call \in {"next", "next_with_metadata"} /\ is.call \in Calls
  BY FetchedReads, CallsThatRead DEF Readable
<1>3. QED
  BY <1>1, <1>2 DEF Reads, SameReader, Calling

LEMMA ReadSectionRight ==
  ASSUME ClientReads, Reader(file, is, log), FileOK(file), ReadSection
  PROVE  Reader(file, is', log)
<1> DEFINE i == Incoming
           t == Fetched
           start == file[i].id = StartCompressedSectionId
           x == [t EXCEPT !.zin = start]
<1>1. Readable /\ file[i].id \in CompressionIds
      /\ (is' = Fatal(t, "assert _compressed_in") \/ is' = x)
  BY DEF ReadSection
<1>2. file[i].id # StreamHeaderId /\ file[i].id \in FixedIds
  BY <1>1, FixedIdsDiffer DEF CompressionIds, FixedIds
<1>3. PICK h \in HeadersOf(file) : Reads(file, t, log, h, i)
  BY <1>1, <1>2, FetchedReads
<1>4. DOMAIN t = Fields /\ Calling(t) /\ t.pos = i /\ t.pickup = None
  BY <1>1, <1>2, FetchedReads, FetchedCalling
<1> HIDE DEF t, i, start
<1>5. DOMAIN x = Fields /\ Agrees([x EXCEPT !.pool = t.pool], t) /\ x.call = t.call /\ x.pool = t.pool
  BY <1>4 DEF Agrees, SameReader, Fields
<1>6. Reader(file, x, log)
  <2> HIDE DEF x
  <2>1. PoolSound(file, h, x.pool)
    BY <1>3, <1>5 DEF Reads
  <2>2. QED
    BY <1>2, <1>3, <1>4, <1>5, <2>1, PassedOwn
<1>7. Reader(file, Fatal(t, "assert _compressed_in"), log)
  BY <1>3, <1>4, Aborted DEF Reads, Calling
<1>8. QED
  BY <1>1, <1>6, <1>7

LEMMA ReadProtoClassRight ==
  ASSUME ClientReads, Reader(file, is, log), FileOK(file), ReadProtoClass
  PROVE  Reader(file, is', log)
<1> DEFINE i == Incoming
           t == Fetched
           b == file[i].body
           pool == AddProtoClass(t.pool, b)
           x == [t EXCEPT !.pool = pool]
<1>1. Readable /\ file[i].id = ProtoClassId
      /\ (is' = Fatal(t, "assert _encountered_file_descriptors") \/ is' = x)
  BY DEF ReadProtoClass
<1>2. file[i].id # StreamHeaderId /\ file[i].id \in FixedIds
  BY <1>1, FixedIdsDiffer DEF FixedIds
<1>3. PICK h \in HeadersOf(file) : Reads(file, t, log, h, i)
  BY <1>1, <1>2, FetchedReads
<1>4. DOMAIN t = Fields /\ Calling(t) /\ t.pos = i /\ t.pickup = None
  BY <1>1, <1>2, FetchedReads, FetchedCalling
<1>5. i \in ProtoClassesIn(file, h)
  BY <1>1, <1>3 DEF Reads, ProtoClassesIn, IsProtoClass, HasId, IsMessage
<1>6. PoolSound(file, h, pool)
  <2> HIDE DEF t, i
  <2>1. PoolSound(file, h, t.pool)
    BY <1>3 DEF Reads
  <2>2. CASE b.class_id \in DOMAIN t.pool.class
    BY <2>1, <2>2 DEF AddProtoClass
  <2>3. CASE b.class_id \notin DOMAIN t.pool.class
    <3>1. /\ DOMAIN pool.class = DOMAIN t.pool.class \cup {b.class_id}
          /\ \A id \in DOMAIN pool.class :
               pool.class[id] = IF id = b.class_id THEN b.full_name ELSE t.pool.class[id]
      BY <2>3 DEF AddProtoClass
    <3>2. QED
      BY <1>5, <2>1, <3>1 DEF PoolSound
  <2>4. QED
    BY <2>2, <2>3
<1> HIDE DEF t, i, pool
<1>7. DOMAIN x = Fields /\ Agrees([x EXCEPT !.pool = t.pool], t) /\ x.call = t.call /\ x.pool = pool
  BY <1>4 DEF Agrees, SameReader, Fields
<1>8. Reader(file, x, log)
  <2> HIDE DEF x
  <2>1. QED
    BY <1>2, <1>3, <1>4, <1>6, <1>7, PassedOwn
<1>9. Reader(file, Fatal(t, "assert _encountered_file_descriptors"), log)
  BY <1>3, <1>4, Aborted DEF Reads, Calling
<1>10. QED
  BY <1>1, <1>8, <1>9

\* PassMetadata, and Return behind it
LEMMA PassedMetadata ==
  ASSUME NEW r, DOMAIN r = Fields, NEW i, NEW x, x \in {PassMetadata(r, i), Return(PassMetadata(r, i))}
  PROVE  /\ DOMAIN x = Fields /\ x.pos = r.pos /\ x.pickup = r.pickup /\ x.started = r.started
         /\ x.good = r.good /\ x.status = r.status /\ x.forward = r.forward /\ x.scan = r.scan
         /\ x.header_index = r.header_index /\ x.pool = r.pool /\ x.discovered = r.discovered
         /\ x.metadata_per_header = r.metadata_per_header
         /\ x.current = PassMetadata(r, i).current
         /\ x.metadata_index = PassMetadata(r, i).metadata_index
         /\ x.do_reset_metadata = PassMetadata(r, i).do_reset_metadata
         /\ x.call \in {r.call, "none"}
<1> DEFINE m == [r EXCEPT !.metadata_index = @ + 1]
           p == PassMetadata(r, i)
<1>1. DOMAIN m = Fields /\ m = [r EXCEPT !.metadata_index = m.metadata_index]
  BY DEF Fields
<1>2. p \in {[m EXCEPT !.current = i, !.new_metadata = TRUE], [m EXCEPT !.do_reset_metadata = TRUE]}
  BY DEF PassMetadata
<1> HIDE DEF m, p
<1>3. /\ m.pos = r.pos /\ m.pickup = r.pickup /\ m.started = r.started
      /\ m.good = r.good /\ m.status = r.status /\ m.forward = r.forward /\ m.scan = r.scan
      /\ m.header_index = r.header_index /\ m.pool = r.pool /\ m.discovered = r.discovered
      /\ m.metadata_per_header = r.metadata_per_header /\ m.call = r.call
  BY <1>1 DEF Fields
<1>4. /\ DOMAIN p = Fields
      /\ p.pos = m.pos /\ p.pickup = m.pickup /\ p.started = m.started
      /\ p.good = m.good /\ p.status = m.status /\ p.forward = m.forward /\ p.scan = m.scan
      /\ p.header_index = m.header_index /\ p.pool = m.pool /\ p.discovered = m.discovered
      /\ p.metadata_per_header = m.metadata_per_header /\ p.call = m.call
  <2>1. DOMAIN m = Fields
    BY <1>1
  <2>2. CASE p = [m EXCEPT !.current = i, !.new_metadata = TRUE]
    BY <2>1, <2>2 DEF Fields
  <2>3. CASE p = [m EXCEPT !.do_reset_metadata = TRUE]
    BY <2>1, <2>3 DEF Fields
  <2>4. QED
    BY <1>2, <2>2, <2>3
<1>5. /\ DOMAIN Return(p) = Fields
      /\ Return(p).pos = p.pos /\ Return(p).pickup = p.pickup /\ Return(p).started = p.started
      /\ Return(p).good = p.good /\ Return(p).status = p.status /\ Return(p).forward = p.forward
      /\ Return(p).scan = p.scan /\ Return(p).header_index = p.header_index /\ Return(p).pool = p.pool
      /\ Return(p).discovered = p.discovered /\ Return(p).call = "none"
      /\ Return(p).metadata_per_header = p.metadata_per_header /\ Return(p).current = p.current
      /\ Return(p).metadata_index = p.metadata_index
      /\ Return(p).do_reset_metadata = p.do_reset_metadata
  BY <1>4 DEF Return, Fields
<1>6. CASE x = p
  BY <1>3, <1>4, <1>6 DEF p
<1>7. CASE x = Return(p)
  BY <1>3, <1>4, <1>5, <1>7 DEF p
<1>8. QED
  BY <1>6, <1>7 DEF p

LEMMA ReadMetadataRight ==
  ASSUME ClientReads, Reader(file, is, log), FileOK(file), ReadMetadata
  PROVE  Reader(file, is', log')
<1> DEFINE i == Incoming
           t == Fetched
           p == PassMetadata(t, i)
           x == is'
<1>1. Readable /\ IsMetadata(file[i])
  BY DEF ReadMetadata
<1>2. file[i].id # StreamHeaderId /\ IsUserMessage(file[i]) /\ ~IsEvent(file[i])
  BY <1>1 DEF IsMetadata, IsUserMessage, FixedIds, IsEvent
<1>3. PICK h \in HeadersOf(file) : Reads(file, t, log, h, i)
  BY <1>1, <1>2, FetchedReads
<1>4. /\ DOMAIN t = Fields /\ Calling(t) /\ t.pos = i /\ t.pickup = None /\ t.call = is.call
      /\ is.call \in {"next", "next_with_metadata"} /\ is.call \in Calls
  BY <1>1, <1>2, FetchedReads, FetchedCalling, CallsThatRead DEF Readable
<1>5. \/ is.call = "next" /\ x = p /\ log' = log
      \/ is.call = "next_with_metadata" /\ x = Return(p) /\ HandOver(Handed(p, i))
  BY <1>4 DEF ReadMetadata
<1> HIDE DEF t, i, x
<1>6. file \in Seq(Cell) /\ i \in DOMAIN file /\ i \in Nat
  BY <1>3 DEF FileOK, Reads
<1>7. i \in MetadataIn(file, h)
  BY <1>1, <1>3 DEF Reads, MetadataIn
<1>8. CurrentRight(file, p, h, i + 1)
  BY <1>3, <1>4, <1>6, <1>7, ListKnown, MetadataPassed DEF Reads
<1>9. /\ DOMAIN x = Fields /\ x.pos = t.pos /\ x.pickup = t.pickup /\ x.started = t.started
      /\ x.good = t.good /\ x.status = t.status /\ x.forward = t.forward /\ x.scan = t.scan
      /\ x.header_index = t.header_index /\ x.pool = t.pool /\ x.discovered = t.discovered
      /\ x.metadata_per_header = t.metadata_per_header
      /\ x.current = p.current /\ x.metadata_index = p.metadata_index
      /\ x.do_reset_metadata = p.do_reset_metadata
  <2>1. x \in {p, Return(p)}
    BY <1>5
  <2>2. QED
    BY <1>4, <2>1, PassedMetadata
<1>10. p.discovered = t.discovered /\ p.metadata_per_header = t.metadata_per_header
  BY <1>4, PassedMetadata
<1>11. Calling(x)
  <2>1. CASE is.call = "next"
    <3>1. p.call = "next" \/ p.call = "none"
      BY <1>4, <2>1, PassedMetadata
    <3>2. p.call = t.call
      BY <1>4 DEF PassMetadata, Fields
    <3>3. QED
      BY <1>4, <1>5, <2>1, <3>2 DEF Calling
  <2>2. CASE is.call = "next_with_metadata"
    <3>1. DOMAIN p = Fields
      BY <1>4, PassedMetadata
    <3>2. x.call = "none"
      BY <1>5, <2>2, <3>1, ReturnAgrees
    <3>3. QED
      BY <1>4, <2>2, <3>2 DEF Calling, ClientReads
  <2>3. QED
    BY <1>4, <2>1, <2>2
<1> HIDE DEF p
<1>12. AllRight(file, log') /\ HandedUpTo(file, log', i + 1)
  <2>1. AllRight(file, log) /\ HandedUpTo(file, log, i)
    BY <1>3 DEF Reads
  <2>2. CASE log' = log
    BY <1>2, <1>6, <2>1, <2>2, HandedOn
  <2>3. CASE HandOver(Handed(p, i))
    <3>1. Handed(p, i).at = i
      BY DEF Handed
    <3>2. log' = [all |-> Append(log.all, Handed(p, i)),
                  events |-> IF IsEvent(file[Handed(p, i).at]) THEN Append(log.events, Handed(p, i))
                             ELSE log.events]
      BY <2>3 DEF HandOver
    <3>3. QED
      BY <1>2, <1>6, <2>1, <3>1, <3>2, GivenOut
  <2>4. QED
    BY <1>5, <2>2, <2>3
<1>13. CurrentRight(file, x, h, i + 1) /\ Known(file, x)
  BY <1>3, <1>8, <1>9, <1>10 DEF CurrentRight, ForwardRight, BackwardRight, Known, Reads
<1>14. /\ x.started /\ x.good /\ x.status = "ok" /\ x.scan = NoScan /\ PoolSound(file, h, x.pool)
       /\ x.pos = i /\ x.pickup = None /\ x.forward = t.forward /\ x.header_index = t.header_index
       /\ DOMAIN x = Fields
  BY <1>3, <1>4, <1>9 DEF Reads
<1>15. Reader(file, x, log')
  BY <1>3, <1>6, <1>11, <1>12, <1>13, <1>14, ReadOneMore
<1>16. QED
  BY <1>15 DEF x

LEMMA ReturnRead ==
  ASSUME NEW r, DOMAIN r = Fields
  PROVE  LET x == Return(r)
         IN  /\ DOMAIN x = Fields /\ x.pos = r.pos /\ x.pickup = r.pickup /\ x.started = r.started
             /\ x.good = r.good /\ x.status = r.status /\ x.forward = r.forward /\ x.scan = r.scan
             /\ x.header_index = r.header_index /\ x.pool = r.pool /\ x.discovered = r.discovered
             /\ x.metadata_per_header = r.metadata_per_header /\ x.error = r.error
             /\ x.current = r.current /\ x.metadata_index = r.metadata_index
             /\ x.do_reset_metadata = r.do_reset_metadata /\ x.call = "none"
BY DEF Return, Fields

\* An event goes to the client as what it was written as, with the metadata that applies.
LEMMA ReadEventRight ==
  ASSUME ClientReads, Reader(file, is, log), FileOK(file), ReadEvent
  PROVE  Reader(file, is', log')
<1> DEFINE i == Incoming
           t == Fetched
           x == Return(t)
           d == Handed(t, i)
<1>1. Readable /\ IsEvent(file[i]) /\ is' = x
  BY DEF ReadEvent
<1>2. file[i].id # StreamHeaderId /\ IsUserMessage(file[i]) /\ ~IsMetadata(file[i])
  BY <1>1 DEF IsMetadata, IsUserMessage, FixedIds, IsEvent
<1>3. PICK h \in HeadersOf(file) : Reads(file, t, log, h, i)
  BY <1>1, <1>2, FetchedReads
<1>4. /\ DOMAIN t = Fields /\ Calling(t) /\ t.pos = i /\ t.pickup = None /\ t.call = is.call
      /\ is.call # "skip" /\ t.pool = is.pool /\ ~t.do_reset_metadata
  BY <1>1, <1>2, FetchedReads, FetchedCalling, CallsThatRead DEF Readable, SameReader
<1>5. HandOver(d)
  BY <1>4 DEF ReadEvent
<1>6. file[i].id \in DOMAIN t.pool.class
  BY <1>1, <1>2, <1>4 DEF Readable, Parsable, Registered, IsUserMessage
<1> HIDE DEF t, i
<1>7. file \in Seq(Cell) /\ i \in DOMAIN file /\ i \in Nat
  BY <1>3 DEF FileOK, Reads
<1>8. d.class = file[i].body.class
  <2>1. t.pool.class[file[i].id] = file[i].body.class
    BY <1>2, <1>3, <1>6, <1>7, Decoded DEF Reads
  <2>2. QED
    BY <2>1 DEF Handed
<1>9. Applies(file, h, i, t.current)
  BY <1>2, <1>3, <1>4, <1>7, ListKnown, CurrentApplies DEF Reads
<1>10. d = [at |-> i, class |-> d.class, metadata |-> t.current] /\ d.at = i /\ d.metadata = t.current
  BY DEF Handed
<1> HIDE DEF d
<1>11. EventRight(file, d)
  BY <1>1, <1>3, <1>7, <1>8, <1>9, <1>10 DEF EventRight, Reads
<1>12. AllRight(file, log') /\ HandedUpTo(file, log', i + 1)
  <2>1. log' = [all |-> Append(log.all, d),
                events |-> IF IsEvent(file[d.at]) THEN Append(log.events, d) ELSE log.events]
    BY <1>5 DEF HandOver
  <2>2. AllRight(file, log) /\ HandedUpTo(file, log, i)
    BY <1>3 DEF Reads
  <2>3. QED
    BY <1>7, <1>10, <1>11, <2>1, <2>2, GivenOut, Zenon
<1>13. CurrentRight(file, t, h, i + 1)
  BY <1>2, <1>3, <1>7, ListKnown, CurrentOn DEF Reads
<1>14. /\ DOMAIN x = Fields /\ x.pos = t.pos /\ x.pickup = t.pickup /\ x.started = t.started
       /\ x.good = t.good /\ x.status = t.status /\ x.forward = t.forward /\ x.scan = t.scan
       /\ x.header_index = t.header_index /\ x.pool = t.pool /\ x.discovered = t.discovered
       /\ x.metadata_per_header = t.metadata_per_header
       /\ x.current = t.current /\ x.metadata_index = t.metadata_index
       /\ x.do_reset_metadata = t.do_reset_metadata /\ x.call = "none"
  BY <1>4, ReturnRead
<1> HIDE DEF x
<1>15. CurrentRight(file, x, h, i + 1) /\ Known(file, x) /\ Calling(x)
  BY <1>3, <1>4, <1>13, <1>14 DEF CurrentRight, ForwardRight, BackwardRight, Known, Reads, Calling
<1>16. /\ x.started /\ x.good /\ x.status = "ok" /\ x.scan = NoScan /\ PoolSound(file, h, x.pool)
       /\ x.pos = i /\ x.pickup = None
  BY <1>3, <1>4, <1>14 DEF Reads
<1>17. Reader(file, x, log')
  BY <1>3, <1>7, <1>12, <1>14, <1>15, <1>16, ReadOneMore
<1>18. QED
  BY <1>1, <1>17
-----------------------------------------------------------------------------
(* The other calls                                                          *)

LEMMA ApplyResetSame ==
  ASSUME NEW r, DOMAIN r = Fields
  PROVE  SameReader(r, ApplyReset(r)) /\ ApplyReset(r).pos = r.pos /\ ApplyReset(r).pickup = r.pickup
<1> DEFINE x == ApplyReset(r)
<1>1. x = r \/ \E c : x = [r EXCEPT !.do_reset_metadata = FALSE, !.new_metadata = TRUE, !.current = c]
  BY DEF ApplyReset
<1> HIDE DEF x
<1>2. CASE x = r
  BY <1>2 DEF SameReader, x
<1>3. CASE \E c : x = [r EXCEPT !.do_reset_metadata = FALSE, !.new_metadata = TRUE, !.current = c]
  <2>1. PICK c : x = [r EXCEPT !.do_reset_metadata = FALSE, !.new_metadata = TRUE, !.current = c]
    BY <1>3
  <2>2. SameReader(r, x) /\ x.pos = r.pos /\ x.pickup = r.pickup
    BY <2>1 DEF SameReader, Fields
  <2>3. QED
    BY <2>2 DEF x
<1>4. QED
  BY <1>1, <1>2, <1>3

LEMMA ReadNothingRight ==
  ASSUME Reader(file, is, log), ReadNothing
  PROVE  Reader(file, is', log')
<1> DEFINE r == ApplyReset(is)
           x == Return(r)
<1>1. /\ is' = x /\ log' = log /\ DOMAIN is = Fields /\ is.started /\ ~is.good /\ is.status = "ok"
      /\ Known(file, is) /\ AllRight(file, log)
  BY DEF ReadNothing, Reading, Ready, Reader
<1>2. Ended(file, is, log)
  BY <1>1 DEF Reader, Place
<1>3. SameReader(is, r) /\ r.pickup = is.pickup
  BY <1>1, ApplyResetSame
<1> HIDE DEF r
<1>4. DOMAIN r = Fields
  BY <1>1, <1>3 DEF SameReader
<1>5. /\ DOMAIN x = Fields /\ x.pickup = r.pickup /\ x.started = r.started
      /\ x.good = r.good /\ x.status = r.status /\ x.scan = r.scan /\ x.error = r.error
      /\ x.discovered = r.discovered /\ x.metadata_per_header = r.metadata_per_header
      /\ x.call = "none"
  BY <1>4, ReturnRead
<1> HIDE DEF x
<1>6. Known(file, x) /\ Calling(x) /\ x.started /\ ~x.good
  BY <1>1, <1>3, <1>5 DEF Known, Calling, SameReader
<1>7. Ended(file, x, log)
  BY <1>2, <1>3, <1>5 DEF Ended, SameReader
<1>8. Reader(file, x, log)
  BY <1>1, <1>5, <1>6, <1>7 DEF Reader, Place
<1>9. QED
  BY <1>1, <1>8

LEMMA ReadGarbageRight ==
  ASSUME Reader(file, is, log), ReadGarbage
  PROVE  Reader(file, is', log')
<1>1. /\ is' = Fatal(is, "Unexpected end of file or corruption") /\ log' = log
      /\ Ready /\ (is.pickup # None \/ (is.started /\ is.good))
  BY DEF ReadGarbage, Reading, Available
<1>2. is.started
  BY <1>1, BusyReader
<1>3. Known(file, is) /\ AllRight(file, log) /\ DOMAIN is = Fields /\ Calling(is)
  BY DEF Reader
<1>4. Reader(file, Fatal(is, "Unexpected end of file or corruption"), log)
  BY <1>2, <1>3, Aborted DEF Calling
<1>5. QED
  BY <1>1, <1>4

\* Only next() may leave metadata behind that has still to become current.
LEMMA NothingPending ==
  ASSUME Reader(file, is, log), is.status = "ok", is.call # "next"
  PROVE  /\ ~(is.do_reset_metadata /\ is.good /\ "try_read" \in Calls) /\ DOMAIN is = Fields
         /\ Agrees(Return(is), is) /\ Calling(Return(is)) /\ DOMAIN Return(is) = Fields
<1>1. DOMAIN is = Fields /\ ~(is.do_reset_metadata /\ is.good /\ "try_read" \in Calls)
  BY DEF Reader, Calling
<1>2. QED
  BY <1>1, ReturnAgrees

LEMMA AnswerRight ==
  ASSUME Reader(file, is, log), AllMetadata \/ NewMetadata
  PROVE  Reader(file, is', log')
<1>1. Ready /\ is.call \in {"all_metadata", "new_metadata"} /\ log' = log
  BY DEF AllMetadata, NewMetadata
<1>2. /\ Agrees(Return(is), is) /\ Calling(Return(is)) /\ DOMAIN Return(is) = Fields
  BY <1>1, NothingPending DEF Ready
<1> DEFINE x == Return(is)
<1>3. \E c : is' = x \/ is' = [x EXCEPT !.new_metadata = FALSE, !.shown = c]
  BY DEF AllMetadata, NewMetadata
<1> HIDE DEF x
<1>4. ASSUME NEW c, NEW y, y = x \/ y = [x EXCEPT !.new_metadata = FALSE, !.shown = c]
      PROVE  Agrees(y, is) /\ Calling(y) /\ DOMAIN y = Fields
  <2>1. Agrees(x, is) /\ Calling(x) /\ DOMAIN x = Fields
    BY <1>2 DEF x
  <2>2. CASE y = x
    BY <2>1, <2>2
  <2>3. CASE y = [x EXCEPT !.new_metadata = FALSE, !.shown = c]
    <3>1. /\ DOMAIN y = Fields /\ y.pos = x.pos /\ y.pickup = x.pickup /\ y.current = x.current
          /\ y.do_reset_metadata = x.do_reset_metadata /\ y.call = x.call /\ y.good = x.good
          /\ y.status = x.status
      BY <2>1, <2>3 DEF Fields
    <3>2. SameReader(is, [y EXCEPT !.call = is.call])
      BY <2>1, <2>3 DEF Agrees, SameReader, Fields
    <3>3. QED
      BY <2>1, <3>1, <3>2 DEF Agrees, Calling
  <2>4. QED
    BY <1>4, <2>2, <2>3
<1>5. Agrees(is', is) /\ Calling(is') /\ DOMAIN is' = Fields
  BY <1>3, <1>4
<1>6. Reader(file, is', log)
  BY <1>5, AgreeingReader
<1>7. QED
  BY <1>1, <1>6

LEMMA CallRight ==
  ASSUME ClientReads, Reader(file, is, log), NEW c \in Calls, Call(c)
  PROVE  Reader(file, is', log')
<1> DEFINE x == [is EXCEPT !.call = c, !.skipped = "none", !.from = is.pos]
<1>1. /\ is' = x /\ log' = log /\ is.status = "ok" /\ is.call = "none"
      /\ c = "try_read" => is.pickup = None
  BY DEF Call, ClientReads
<1>2. DOMAIN is = Fields /\ ~(is.do_reset_metadata /\ is.good /\ "try_read" \in Calls)
  BY <1>1, NothingPending
<1>3. /\ DOMAIN x = Fields /\ x.pos = is.pos /\ x.pickup = is.pickup /\ x.current = is.current
      /\ x.do_reset_metadata = is.do_reset_metadata /\ x.call = c /\ x.good = is.good
      /\ SameReader(is, [x EXCEPT !.call = is.call])
  BY <1>2 DEF SameReader, Fields
<1> HIDE DEF x
<1>4. Agrees(x, is) /\ Calling(x)
  BY <1>1, <1>2, <1>3 DEF Agrees, Calling
<1>5. Reader(file, x, log)
  BY <1>3, <1>4, AgreeingReader
<1>6. QED
  BY <1>1, <1>5

LEMMA TryReadRight ==
  ASSUME ClientReads, Reader(file, is, log), FileOK(file), TryRead
  PROVE  Reader(file, is', log')
<1> DEFINE i == is.pos + 1
           d == Handed(is, i)
<1>1. Ready /\ is.call = "try_read" /\ is.started /\ is.status = "ok"
  BY DEF TryRead, Ready
<1>2. /\ ~(is.do_reset_metadata /\ is.good /\ "try_read" \in Calls) /\ DOMAIN is = Fields
      /\ Agrees(Return(is), is) /\ Calling(Return(is)) /\ DOMAIN Return(is) = Fields
  BY <1>1, NothingPending
<1>3. "try_read" \in Calls /\ is.pickup = None
  BY <1>1 DEF Reader, Calling
<1>4. CASE ~is.good
  <2>1. is' = Return(is) /\ log' = log
    BY <1>4 DEF TryRead
  <2>2. QED
    BY <1>2, <2>1, AgreeingReader
<1>5. CASE is' = Fatal(is, "Unexpected end of file or corruption") /\ log' = log
  <2>1. Known(file, is) /\ AllRight(file, log) /\ Calling(is)
    BY DEF Reader
  <2>2. Reader(file, Fatal(is, "Unexpected end of file or corruption"), log)
    BY <1>1, <1>2, <2>1, Aborted DEF Calling
  <2>3. QED
    BY <1>5, <2>2
<1>6. ASSUME is.good, i \in DOMAIN file, IsMessage(file[i]),
             \/ /\ file[i].id \in DOMAIN is.pool.class /\ is.pool.class[file[i].id] = WantedClass
                /\ is' = [Return(is) EXCEPT !.pos = i] /\ HandOver(d)
             \/ is' = [Return(is) EXCEPT !.pos = i, !.pickup = i] /\ log' = log
      PROVE  Reader(file, is', log')
  <2>1. /\ HandedUpTo(file, log, i) /\ i = Coming(is)
        /\ \E h \in HeadersOf(file) : At(file, is, h) /\ Decoding(file, is, h)
    BY <1>1, <1>3, <1>6, BusyReader DEF Coming
  <2>2. PICK h \in HeadersOf(file) : At(file, is, h) /\ Decoding(file, is, h)
    BY <2>1
  <2>3. /\ file \in Seq(Cell) /\ i \in Nat /\ i >= 1 /\ Known(file, is) /\ AllRight(file, log)
        /\ ~is.do_reset_metadata /\ i - 1 = is.pos /\ i # None
    BY <1>2, <1>3, <1>6, <2>2 DEF FileOK, Reader, At, None
  <2>4. file[i].id # StreamHeaderId
    <3>1. ASSUME file[i].id = StreamHeaderId PROVE FALSE
      <4>1. i \in HeadersOf(file)
        BY <1>6, <3>1 DEF HeadersOf, HasId, IsMessage
      <4>2. file[is.pos].kind = "START_MAGIC"
        BY <2>3, <4>1 DEF FileOK
      <4>3. file[is.pos].kind = "message"
        BY <2>2 DEF At, IsMessage
      <4>4. QED
        BY <4>2, <4>3
    <3>2. QED
      BY <3>1
  <2>5. InStreamOf(file, h, i)
    BY <1>6, <2>1, <2>2, <2>3, <2>4, ComingInStream
  <2>6. Reads(file, is, log, h, i)
    BY <1>1, <1>2, <1>6, <2>1, <2>2, <2>3, <2>5 DEF Reads, At, Decoding
  <2> HIDE DEF i
  <2> DEFINE r == Return(is)
  <2>7. /\ DOMAIN r = Fields /\ r.started = is.started
        /\ r.good = is.good /\ r.status = is.status /\ r.forward = is.forward /\ r.scan = is.scan
        /\ r.header_index = is.header_index /\ r.pool = is.pool /\ r.discovered = is.discovered
        /\ r.metadata_per_header = is.metadata_per_header
        /\ r.current = is.current /\ r.metadata_index = is.metadata_index
        /\ r.do_reset_metadata = is.do_reset_metadata /\ r.call = "none" /\ r.pickup = is.pickup
    BY <1>2, ReturnRead
  <2> HIDE DEF r
  <2>8. CASE /\ file[i].id \in DOMAIN is.pool.class /\ is.pool.class[file[i].id] = WantedClass
             /\ is' = [r EXCEPT !.pos = i] /\ HandOver(d)
    <3> DEFINE x == [r EXCEPT !.pos = i]
    <3>1. PoolSound(file, h, is.pool)
      BY <2>6 DEF Reads
    <3>2. IsUserMessage(file[i])
      <4>1. PICK j \in ProtoClassesIn(file, h) : file[j].body.class_id = file[i].id
        BY <2>8, <3>1 DEF PoolSound
      <4>2. j \in DOMAIN file /\ IsProtoClass(file[j])
        BY <4>1 DEF ProtoClassesIn
      <4>3. file[i].id \notin FixedIds
        BY <4>1, <4>2 DEF FileOK
      <4>4. QED
        BY <1>6, <4>3 DEF IsUserMessage, IsMessage
    <3>3. is.pool.class[file[i].id] = file[i].body.class
      BY <1>6, <2>5, <2>8, <3>1, <3>2, Decoded
    <3>4. IsEvent(file[i]) /\ ~IsMetadata(file[i])
      BY <1>3, <1>6, <2>8, <3>2, <3>3 DEF FileOK, ClientReads, IsEvent, IsMetadata
    <3>5. Applies(file, h, i, is.current)
      BY <2>3, <2>6, <3>4, ListKnown, CurrentApplies DEF Reads
    <3>6. d = [at |-> i, class |-> file[i].body.class, metadata |-> is.current]
          /\ d.at = i /\ d.metadata = is.current
      BY <3>3 DEF Handed
    <3> HIDE DEF d
    <3>7. EventRight(file, d)
      BY <1>6, <2>5, <2>6, <3>4, <3>5, <3>6 DEF EventRight, Reads
    <3>8. AllRight(file, log') /\ HandedUpTo(file, log', i + 1)
      <4>1. log' = [all |-> Append(log.all, d),
                    events |-> IF IsEvent(file[d.at]) THEN Append(log.events, d) ELSE log.events]
        BY <2>8 DEF HandOver
      <4>2. /\ file \in Seq(Cell) /\ i \in DOMAIN file /\ AllRight(file, log)
            /\ HandedUpTo(file, log, i) /\ d.at = i /\ EventRight(file, d)
        BY <1>6, <2>1, <2>3, <3>6, <3>7
      <4>3. QED
        BY <4>1, <4>2, GivenOut
    <3>9. CurrentRight(file, is, h, i + 1)
      BY <2>3, <2>6, <3>4, ListKnown, CurrentOn DEF Reads
    <3>10. /\ DOMAIN x = Fields /\ x.started = is.started
           /\ x.good = is.good /\ x.status = is.status /\ x.forward = is.forward /\ x.scan = is.scan
           /\ x.header_index = is.header_index /\ x.pool = is.pool /\ x.discovered = is.discovered
           /\ x.metadata_per_header = is.metadata_per_header
           /\ x.current = is.current /\ x.metadata_index = is.metadata_index
           /\ x.do_reset_metadata = is.do_reset_metadata /\ x.call = "none"
           /\ x.pos = i /\ x.pickup = None
      BY <1>3, <2>7 DEF Fields
    <3> HIDE DEF x
    <3>11. CurrentRight(file, x, h, i + 1) /\ Known(file, x) /\ Calling(x)
      BY <2>3, <3>9, <3>10 DEF CurrentRight, ForwardRight, BackwardRight, Known, Calling
    <3>12. /\ x.started /\ x.good /\ x.status = "ok" /\ x.scan = NoScan /\ PoolSound(file, h, x.pool)
           /\ x.forward = is.forward /\ x.header_index = is.header_index
           /\ DOMAIN x = Fields /\ x.pos = i /\ x.pickup = None
      BY <2>6, <3>10 DEF Reads
    <3>13. Reader(file, x, log')
      BY <2>3, <2>6, <3>8, <3>11, <3>12, ReadOneMore
    <3>14. QED
      BY <2>8, <3>13 DEF x
  <2>9. CASE is' = [r EXCEPT !.pos = i, !.pickup = i] /\ log' = log
    <3> DEFINE x == [r EXCEPT !.pos = i, !.pickup = i]
    <3>1. /\ DOMAIN x = Fields /\ x.started = is.started
          /\ x.good = is.good /\ x.status = is.status /\ x.forward = is.forward /\ x.scan = is.scan
          /\ x.header_index = is.header_index /\ x.pool = is.pool /\ x.discovered = is.discovered
          /\ x.metadata_per_header = is.metadata_per_header
          /\ x.current = is.current /\ x.metadata_index = is.metadata_index
          /\ x.do_reset_metadata = is.do_reset_metadata /\ x.call = "none"
          /\ x.pos = i /\ x.pickup = i
      BY <2>7 DEF Fields
    <3> HIDE DEF x
    <3>2. Coming(x) = i
      BY <2>3, <3>1 DEF Coming
    <3>3. Known(file, x) /\ Calling(x) /\ x.started /\ x.good /\ x.status = "ok"
      BY <1>1, <1>6, <2>3, <3>1 DEF Known, Calling
    <3>4. CurrentRight(file, is, h, i) /\ PoolSound(file, h, x.pool) /\ x.scan = NoScan
      BY <2>6, <3>1 DEF Reads
    <3>5. Decoding(file, x, h)
      BY <3>1, <3>2, <3>4 DEF Decoding, CurrentRight, ForwardRight, BackwardRight
    <3>6. At(file, x, h)
      BY <2>6, <3>1 DEF Reads, At
    <3>7. Busy(file, x, log)
      BY <2>1, <3>2, <3>5, <3>6 DEF Busy
    <3>8. Reader(file, x, log)
      BY <2>3, <3>1, <3>3, <3>7 DEF Reader, Place
    <3>9. QED
      BY <2>9, <3>8 DEF x
  <2>10. QED
    BY <1>6, <2>8, <2>9 DEF r
<1>7. \/ ~is.good
      \/ is' = Fatal(is, "Unexpected end of file or corruption") /\ log' = log
      \/ /\ is.good /\ i \in DOMAIN file /\ IsMessage(file[i])
         /\ \/ /\ file[i].id \in DOMAIN is.pool.class /\ is.pool.class[file[i].id] = WantedClass
               /\ is' = [Return(is) EXCEPT !.pos = i] /\ HandOver(d)
            \/ is' = [Return(is) EXCEPT !.pos = i, !.pickup = i] /\ log' = log
  BY DEF TryRead
<1>8. QED
  BY <1>4, <1>5, <1>6, <1>7
-----------------------------------------------------------------------------
(* The header of a stream                                                   *)

\* A reader that stands behind the header of a stream: no metadata was passed yet.
LEMMA BehindHeader ==
  ASSUME NEW w, FileOK(w), NEW h \in HeadersOf(w), NEW x, NEW l,
         DOMAIN x = Fields, x.started, x.good, x.status = "ok", x.pos = h, x.pickup = None,
         x.scan = NoScan, x.pool.class = << >> \/ PoolSound(w, h, x.pool), x.forward = Refers(w, h),
         x.header_index \in Nat, x.header_index + 1 = Number(w, h), Known(w, x),
         ~x.do_reset_metadata,
         IF Refers(w, h) THEN x.current = None
         ELSE /\ x.discovered /\ x.metadata_index = 0
              /\ x.current = Entry(x.metadata_per_header[Number(w, h)], 1),
         Calling(x), AllRight(w, l), HandedUpTo(w, l, h + 1)
  PROVE  Reader(w, x, l)
<1> DEFINE list == x.metadata_per_header[Number(w, h)]
<1>1. w \in Seq(Cell) /\ h \in Nat /\ h \in DOMAIN w /\ HasId(w[h], StreamHeaderId) /\ h >= 1 /\ h # None
  BY DEF FileOK, HeadersOf, None
<1>2. Coming(x) = h + 1
  BY DEF Coming
<1>3. InStreamOf(w, h, h) /\ IsMessage(w[h])
  BY <1>1 DEF InStreamOf, HasId, IsMessage
<1>4. At(w, x, h)
  BY <1>1, <1>3 DEF At
<1>5. PoolSound(w, h, x.pool)
  BY DEF PoolSound
<1>6. CASE Refers(w, h)
  <2>1. {m \in MetadataIn(w, h) : m < h + 1} = {}
    BY <1>1, MetadataPlaces
  <2>2. CurrentRight(w, x, h, h + 1)
    BY <1>6, <2>1 DEF CurrentRight, ForwardRight
  <2>3. QED
    BY <1>2, <1>4, <1>5, <2>2 DEF Reader, Place, Busy, Decoding
<1>7. CASE ~Refers(w, h)
  <2>1. Lists(w, h, list)
    BY <1>7 DEF Known
  <2>2. list \in Seq(Nat) /\ Len(list) \in Nat /\ \A k \in DOMAIN list : list[k] \in MetadataIn(w, h) /\ k \in Nat /\ k >= 1
    BY <2>1 DEF Lists
  <2>3. \A k \in DOMAIN list : ~(k <= 0) /\ ~(list[k] < h + 1)
    <3>1. SUFFICES ASSUME NEW k \in DOMAIN list PROVE ~(k <= 0) /\ ~(list[k] < h + 1)
      OBVIOUS
    <3>2. list[k] \in Nat /\ h < list[k] /\ k \in Nat /\ k >= 1
      BY <1>1, <2>2, MetadataPlaces
    <3>3. QED
      BY <1>1, <3>2
  <2>4. x.metadata_index = 0 /\ x.discovered /\ x.current = Entry(list, 1) /\ 0 \in 0 .. Len(list) /\ 0 + 1 = 1
    BY <1>7, <2>2
  <2> HIDE DEF list
  <2>5. BackwardRight(w, x, h, h + 1)
    BY <2>3, <2>4 DEF BackwardRight, list
  <2>6. CurrentRight(w, x, h, h + 1)
    BY <1>7, <2>5 DEF CurrentRight
  <2>7. QED
    BY <1>2, <1>4, <1>5, <2>6 DEF Reader, Place, Busy, Decoding
<1>8. QED
  BY <1>6, <1>7

\* FirstMetadata, when there is no current metadata
LEMMA FirstIsEntry ==
  ASSUME NEW r, r.current = None, NEW n, r.header_index + 1 = n, r.metadata_per_header[n] \in Seq(Nat)
  PROVE  FirstMetadata(r) = Entry(r.metadata_per_header[n], 1)
BY DEF FirstMetadata, Entry

\* FooterDone
LEMMA FooterDoneRead ==
  ASSUME NEW r, DOMAIN r = Fields, NEW n, r.header_index + 1 = n,
         ~r.forward => r.metadata_per_header[n] \in Seq(Nat)
  PROVE  LET x == FooterDone(r)
         IN  /\ DOMAIN x = Fields /\ x.pos = r.pos /\ x.pickup = r.pickup /\ x.started = r.started
             /\ x.good = r.good /\ x.status = r.status /\ x.forward = r.forward /\ x.scan = r.scan
             /\ x.header_index = r.header_index /\ x.pool = r.pool /\ x.discovered = r.discovered
             /\ x.metadata_per_header = r.metadata_per_header /\ ~x.do_reset_metadata
             /\ x.call = r.call
             /\ IF r.forward THEN x.current = None
                ELSE x.metadata_index = 0 /\ x.current = Entry(r.metadata_per_header[n], 1)
<1> DEFINE m == [r EXCEPT !.current = None, !.do_reset_metadata = FALSE, !.new_metadata = TRUE]
           x == FooterDone(r)
<1>1. /\ DOMAIN m = Fields /\ m.pos = r.pos /\ m.pickup = r.pickup /\ m.started = r.started
      /\ m.good = r.good /\ m.status = r.status /\ m.forward = r.forward /\ m.scan = r.scan
      /\ m.header_index = r.header_index /\ m.pool = r.pool /\ m.discovered = r.discovered
      /\ m.metadata_per_header = r.metadata_per_header /\ ~m.do_reset_metadata
      /\ m.call = r.call /\ m.current = None
  BY DEF Fields
<1>2. x = IF r.forward THEN [m EXCEPT !.metadata_index = -1]
          ELSE [m EXCEPT !.metadata_index = 0, !.current = FirstMetadata(m)]
  BY DEF FooterDone
<1> HIDE DEF m, x
<1>3. ~r.forward => FirstMetadata(m) = Entry(r.metadata_per_header[n], 1)
  BY <1>1, FirstIsEntry
<1>4. /\ DOMAIN x = Fields /\ x.pos = m.pos /\ x.pickup = m.pickup /\ x.started = m.started
      /\ x.good = m.good /\ x.status = m.status /\ x.forward = m.forward /\ x.scan = m.scan
      /\ x.header_index = m.header_index /\ x.pool = m.pool /\ x.discovered = m.discovered
      /\ x.metadata_per_header = m.metadata_per_header /\ x.do_reset_metadata = m.do_reset_metadata
      /\ x.call = m.call
      /\ IF r.forward THEN x.current = m.current
         ELSE x.metadata_index = 0 /\ x.current = FirstMetadata(m)
  BY <1>1, <1>2 DEF Fields
<1>5. QED
  BY <1>1, <1>3, <1>4 DEF x

\* SetError and SetEnd
LEMMA EndRead ==
  ASSUME NEW r, DOMAIN r = Fields, NEW x, x \in {SetError(r), SetEnd(r)}
  PROVE  /\ DOMAIN x = Fields /\ ~x.good /\ x.started = r.started /\ x.status = r.status
         /\ x.pickup = r.pickup /\ x.scan = r.scan /\ x.call = r.call
         /\ x.discovered = r.discovered /\ x.metadata_per_header = r.metadata_per_header
         /\ IF x = SetError(r) THEN x.error ELSE x.error = r.error
BY Zenon DEF SetError, SetEnd, Fields

LEMMA EndedReader ==
  ASSUME NEW w, NEW x, NEW l, DOMAIN x = Fields, AllRight(w, l), Known(w, x), x.started, ~x.good,
         x.call \in Calls \cup {"none"}, x.pickup = None, x.scan = NoScan,
         x.error \/ (EndsBetweenStreams(w) /\ HandedUpTo(w, l, Len(w) + 1))
  PROVE  Reader(w, x, l)
BY DEF Reader, Calling, Place, Ended

\* The next stream of the file has the next number.
LEMMA NextHeader ==
  ASSUME NEW w, FileOK(w), NEW h \in HeadersOf(w), NEW i \in DOMAIN w, InStreamOf(w, h, i),
         ~IsMessage(w[i + 1]), ~IsMessage(w[i + 2]), i + 4 \in HeadersOf(w)
  PROVE  Number(w, i + 4) = Number(w, h) + 1 /\ h < i + 4 /\ w[i + 3].kind = "START_MAGIC"
<1>1. w \in Seq(Cell) /\ i \in Nat /\ h \in Nat /\ h <= i
  BY DEF FileOK, InStreamOf
<1>2. w[i + 3].kind = "START_MAGIC"
  <2>1. w[(i + 4) - 1].kind = "START_MAGIC" /\ (i + 4) - 1 = i + 3
    BY <1>1 DEF FileOK
  <2>2. QED
    BY <2>1
<1>3. ASSUME NEW j \in HeadersOf(w), h < j, j < i + 4 PROVE FALSE
  <2>1. j \in Nat /\ HasId(w[j], StreamHeaderId) /\ IsMessage(w[j])
    BY <1>1 DEF HeadersOf, HasId, IsMessage
  <2>2. j \in h + 1 .. i \/ j = i + 1 \/ j = i + 2 \/ j = i + 3
    BY <1>1, <1>3, <2>1, SMTT(30)
  <2>3. j \notin h + 1 .. i
    BY <2>1 DEF InStreamOf
  <2>4. j # i + 3
    BY <1>2, <2>1 DEF IsMessage
  <2>5. QED
    BY <2>1, <2>2, <2>3, <2>4
<1>4. h < i + 4
  BY <1>1
<1>5. QED
  BY <1>1, <1>2, <1>3, <1>4, NumbersGrow

\* read_header() at a footer: there is a next stream, or the file ends here, or is broken.
LEMMA NextStreamRight ==
  ASSUME NEW w, w = file, FileOK(w), DirectionsOK(w), NEW t, NEW l, NEW h, NEW i, Reads(w, t, l, h, i),
         Calling(t), t.call # "try_read", t.pickup = None,
         ~IsMessage(w[i + 1]), i + 2 \in DOMAIN w, w[i + 2].kind = "END_MAGIC", HandedUpTo(w, l, i + 3),
         NEW g, g = [t EXCEPT !.pos = i + 2, !.header_index = @ + 1]
  PROVE  Reader(w, ReadHeader(g, FALSE, "footer"), l)
<1> DEFINE x == ReadHeader(g, FALSE, "footer")
           k == i + 4
           forward == file[g.pos + 2].body.metadata_refers_forward
           u == [g EXCEPT !.pos = @ + 2, !.pool = EmptyPool, !.forward = forward]
           v == [u EXCEPT !.new_metadata = TRUE]
           v2 == [[u EXCEPT !.metadata_index = -1] EXCEPT !.new_metadata = TRUE]
<1>1. /\ w \in Seq(Cell) /\ i \in DOMAIN w /\ h \in HeadersOf(w) /\ InStreamOf(w, h, i)
      /\ AllRight(w, l) /\ i \in Nat /\ i + 2 \in DOMAIN w /\ Len(w) \in Nat /\ DOMAIN w = 1 .. Len(w)
      /\ DOMAIN t = Fields /\ Known(w, t)
  BY DEF FileOK, Reads
<1>2. /\ DOMAIN g = Fields /\ g.pos = i + 2 /\ g.header_index = t.header_index + 1
      /\ g.pickup = None /\ g.started /\ g.good /\ g.status = "ok" /\ g.scan = NoScan
      /\ g.call = t.call /\ g.discovered = t.discovered
      /\ g.metadata_per_header = t.metadata_per_header /\ ~g.do_reset_metadata
  BY <1>1 DEF Fields, Reads
<1> HIDE DEF forward
<1>3. \/ MagicMissing(g) /\ x = HeaderFails(SetEnd(g), "footer")
      \/ x = HeaderFails(SetError(g), "footer")
      \/ /\ g.pos # FileEnd /\ g.pos + 1 # FileEnd /\ HasId(file[g.pos + 2], StreamHeaderId)
         /\ ~u.discovered /\ ~forward
      \/ /\ g.pos # FileEnd /\ g.pos + 1 # FileEnd /\ HasId(file[g.pos + 2], StreamHeaderId)
         /\ u.discovered \/ forward
         /\ x \in {FooterDone(v), FooterDone(v2)}
  BY DEF ReadHeader, MagicMissing, AfterHeader, forward
<1> HIDE DEF x, u
<1>4. Known(w, g) /\ Calling(g)
  BY <1>1, <1>2 DEF Known, Calling
<1>5. \A why : why # "ok" => Reader(w, Fatal(SetEnd(g), why), l) /\ Reader(w, Fatal(SetError(g), why), l)
  <2>1. ASSUME NEW y, y \in {SetError(g), SetEnd(g)}, NEW why, why # "ok"
        PROVE  Reader(w, Fatal(y, why), l)
    <3>1. /\ DOMAIN y = Fields /\ y.started = g.started /\ y.pickup = g.pickup /\ y.call = g.call
          /\ y.discovered = g.discovered /\ y.metadata_per_header = g.metadata_per_header
      <4>1. /\ DOMAIN SetEnd(g) = Fields /\ SetEnd(g).started = g.started
            /\ SetEnd(g).pickup = g.pickup /\ SetEnd(g).call = g.call
            /\ SetEnd(g).discovered = g.discovered
            /\ SetEnd(g).metadata_per_header = g.metadata_per_header
        BY <1>2, EndRead, Zenon
      <4>2. /\ DOMAIN SetError(g) = Fields /\ SetError(g).started = g.started
            /\ SetError(g).pickup = g.pickup /\ SetError(g).call = g.call
            /\ SetError(g).discovered = g.discovered
            /\ SetError(g).metadata_per_header = g.metadata_per_header
        BY <1>2, EndRead, Zenon
      <4>3. QED
        BY <2>1, <4>1, <4>2
    <3>2. Known(w, y)
      BY <1>4, <3>1 DEF Known
    <3>3. y.started /\ y.call \in Calls \cup {"none"} /\ (y.call = "try_read" => y.pickup = None)
      BY <1>2, <1>4, <3>1 DEF Calling
    <3>4. QED
      BY <1>1, <2>1, <3>1, <3>2, <3>3, Aborted
  <2>2. QED
    BY <2>1
<1>6. CASE x = HeaderFails(SetError(g), "footer")
  <2>1. SetError(g).error
    BY <1>2, EndRead
  <2>2. x = Fatal(SetError(g), "Corrupt header!")
    BY <1>6, <2>1 DEF HeaderFails
  <2>3. QED
    BY <1>5, <2>2 DEF x
<1>7. CASE MagicMissing(g) /\ x = HeaderFails(SetEnd(g), "footer")
  <2> DEFINE y == SetEnd(g)
             z == SetEnd(y)
  <2>1. /\ DOMAIN y = Fields /\ ~y.good /\ y.started = g.started
        /\ y.pickup = g.pickup /\ y.scan = g.scan /\ y.call = g.call
        /\ y.discovered = g.discovered /\ y.metadata_per_header = g.metadata_per_header
    BY <1>2, EndRead, Zenon
  <2> HIDE DEF y
  <2>2. /\ DOMAIN z = Fields /\ ~z.good /\ z.started = y.started
        /\ z.pickup = y.pickup /\ z.scan = y.scan /\ z.call = y.call
        /\ z.discovered = y.discovered /\ z.metadata_per_header = y.metadata_per_header
    BY <2>1, EndRead
  <2> HIDE DEF z
  <2>3. i + 2 = Len(w) \/ (i + 3 = Len(w) /\ w[Len(w)].kind = "TORN_MAGIC")
    BY <1>1, <1>2, <1>7 DEF MagicMissing, FileEnd, ByteCount
  <2>4. EndsBetweenStreams(w) /\ HandedUpTo(w, l, Len(w) + 1)
    <3>1. CASE i + 2 = Len(w)
      <4>1. Len(w) + 1 = i + 3 /\ Len(w) > 0
        BY <1>1, <3>1
      <4>2. QED
        BY <3>1, <4>1 DEF EndsBetweenStreams
    <3>2. CASE i + 3 = Len(w) /\ w[Len(w)].kind = "TORN_MAGIC"
      <4>1. ~IsEvent(w[i + 3])
        BY <3>2 DEF IsEvent, IsUserMessage
      <4>2. HandedUpTo(w, l, (i + 3) + 1) /\ (i + 3) + 1 = Len(w) + 1
        BY <1>1, <3>2, <4>1, HandedOn
      <4>3. Len(w) > 1 /\ Len(w) - 1 = i + 2
        BY <1>1, <3>2
      <4>4. QED
        BY <3>2, <4>2, <4>3 DEF EndsBetweenStreams
    <3>3. QED
      BY <2>3, <3>1, <3>2
  <2>5. Known(w, z) /\ z.call \in Calls \cup {"none"} /\ z.started /\ z.pickup = None /\ z.scan = NoScan
    BY <1>2, <1>4, <2>1, <2>2 DEF Known, Calling
  <2>6. Reader(w, z, l)
    BY <1>1, <2>2, <2>4, <2>5, EndedReader
  <2>7. x = z \/ x = Fatal(y, "Corrupt header!")
    BY <1>7 DEF HeaderFails, y, z
  <2>8. QED
    BY <1>5, <2>6, <2>7 DEF x, y
<1>8. ASSUME g.pos # FileEnd, g.pos + 1 # FileEnd, HasId(file[g.pos + 2], StreamHeaderId)
      PROVE  /\ k \in HeadersOf(w) /\ k \in Nat /\ g.pos + 2 = k /\ Refers(w, k) = forward
             /\ g.header_index + 1 = Number(w, k) /\ g.header_index \in Nat
             /\ h < k /\ HandedUpTo(w, l, k + 1)
  <2>1. k \in DOMAIN w /\ g.pos + 2 = k /\ k \in Nat
    BY <1>1, <1>2, <1>8 DEF FileEnd, ByteCount
  <2>2. k \in HeadersOf(w)
    BY <1>8, <2>1 DEF HeadersOf
  <2>3. ~IsMessage(w[i + 2])
    BY DEF IsMessage
  <2>4. Number(w, k) = Number(w, h) + 1 /\ h < k /\ w[i + 3].kind = "START_MAGIC"
    BY <1>1, <2>2, <2>3, NextHeader
  <2>5. t.header_index \in Nat /\ t.header_index + 1 = Number(w, h)
    BY DEF Reads
  <2>6. g.header_index + 1 = Number(w, k) /\ g.header_index \in Nat
    BY <1>2, <2>4, <2>5
  <2>7. ~IsEvent(w[i + 3]) /\ ~IsEvent(w[k])
    BY <1>8, <2>1, <2>4 DEF IsEvent, IsUserMessage, HasId, FixedIds
  <2>8. HandedUpTo(w, l, (i + 3) + 1)
    BY <1>1, <2>7, HandedOn
  <2>9. HandedUpTo(w, l, k + 1)
    <3>1. (i + 3) + 1 = k
      BY <1>1
    <3>2. QED
      BY <1>1, <2>1, <2>7, <2>8, <3>1, HandedOn
  <2>10. Refers(w, k) = forward
    BY <2>1 DEF Refers, forward
  <2>11. QED
    BY <2>1, <2>2, <2>4, <2>6, <2>9, <2>10
<1> HIDE DEF k
<1>9. ASSUME g.pos # FileEnd, g.pos + 1 # FileEnd, HasId(file[g.pos + 2], StreamHeaderId)
      PROVE  forward \/ g.discovered
  <2>1. SUFFICES ASSUME ~g.discovered PROVE forward
    OBVIOUS
  <2>2. Refers(w, h)
    BY <1>2, <2>1 DEF Reads, CurrentRight, BackwardRight
  <2>3. k \in HeadersOf(w) /\ h < k /\ Refers(w, k) = forward /\ h \in HeadersOf(w)
    BY <1>1, <1>8, <1>9
  <2>4. Refers(w, k)
    BY <2>2, <2>3 DEF DirectionsOK
  <2>5. QED
    BY <2>3, <2>4
<1>10. u.discovered = g.discovered
  BY <1>2 DEF u, Fields
<1>11. CASE /\ g.pos # FileEnd /\ g.pos + 1 # FileEnd /\ HasId(file[g.pos + 2], StreamHeaderId)
            /\ u.discovered \/ forward
            /\ x \in {FooterDone(v), FooterDone(v2)}
  <2>1. /\ k \in HeadersOf(w) /\ k \in Nat /\ g.pos + 2 = k /\ Refers(w, k) = forward
        /\ g.header_index + 1 = Number(w, k) /\ g.header_index \in Nat
        /\ HandedUpTo(w, l, k + 1)
    BY <1>8, <1>11
  <2>2. /\ DOMAIN u = Fields /\ u.pos = k /\ u.header_index = g.header_index
        /\ u.pickup = None /\ u.started /\ u.good /\ u.status = "ok" /\ u.scan = NoScan
        /\ u.call = g.call /\ u.discovered = g.discovered /\ u.pool = EmptyPool
        /\ u.metadata_per_header = g.metadata_per_header /\ u.forward = forward
    BY <1>2, <2>1 DEF u, Fields
  <2>3. PICK y \in {v, v2} : x = FooterDone(y)
    BY <1>11
  <2>4. /\ DOMAIN y = Fields /\ y.pos = k /\ y.header_index = g.header_index
        /\ y.pickup = None /\ y.started /\ y.good /\ y.status = "ok" /\ y.scan = NoScan
        /\ y.call = g.call /\ y.discovered = g.discovered /\ y.pool = EmptyPool
        /\ y.metadata_per_header = g.metadata_per_header /\ y.forward = forward
    BY <2>2, Zenon DEF Fields
  <2> HIDE DEF v, v2
  <2>5. ~forward => /\ g.discovered /\ g.metadata_per_header[Number(w, k)] \in Seq(Nat)
    BY <1>4, <1>9, <1>11, <2>1 DEF Known, Lists
  <2>6. /\ DOMAIN x = Fields /\ x.pos = k /\ x.pickup = None /\ x.started
        /\ x.good /\ x.status = "ok" /\ x.forward = forward /\ x.scan = NoScan
        /\ x.header_index = g.header_index /\ x.pool = EmptyPool /\ x.discovered = g.discovered
        /\ x.metadata_per_header = g.metadata_per_header /\ ~x.do_reset_metadata
        /\ x.call = g.call
        /\ IF forward THEN x.current = None
           ELSE /\ x.metadata_index = 0
                /\ x.current = Entry(g.metadata_per_header[Number(w, k)], 1)
    <3>1. y.header_index + 1 = Number(w, k)
      BY <2>1, <2>4
    <3>2. ~y.forward => y.metadata_per_header[Number(w, k)] \in Seq(Nat)
      BY <2>4, <2>5
    <3> DEFINE q == FooterDone(y)
    <3>3. /\ DOMAIN q = Fields /\ q.pos = y.pos /\ q.pickup = y.pickup /\ q.started = y.started
          /\ q.good = y.good /\ q.status = y.status /\ q.forward = y.forward /\ q.scan = y.scan
          /\ q.header_index = y.header_index /\ q.pool = y.pool /\ q.discovered = y.discovered
          /\ q.metadata_per_header = y.metadata_per_header /\ ~q.do_reset_metadata
          /\ q.call = y.call
          /\ IF y.forward THEN q.current = None
             ELSE /\ q.metadata_index = 0
                  /\ q.current = Entry(y.metadata_per_header[Number(w, k)], 1)
      <4> DEFINE n == Number(w, k)
      <4>1. DOMAIN y = Fields /\ y.header_index + 1 = n /\ (~y.forward => y.metadata_per_header[n] \in Seq(Nat))
        BY <2>4, <3>1, <3>2
      <4> HIDE DEF n
      <4>2. QED
        BY <4>1, FooterDoneRead DEF n
    <3>4. x = q
      BY <2>3
    <3> HIDE DEF q
    <3>5. QED
      BY <2>4, <3>3, <3>4
  <2>7. Known(w, x) /\ Calling(x)
    BY <1>2, <1>4, <2>6 DEF Known, Calling
  <2>8. x.pool.class = << >>
    BY <2>6 DEF EmptyPool
  <2>9. /\ x.forward = Refers(w, k) /\ x.header_index \in Nat /\ x.header_index + 1 = Number(w, k)
        /\ IF Refers(w, k) THEN x.current = None
           ELSE /\ x.discovered /\ x.metadata_index = 0
                /\ x.current = Entry(x.metadata_per_header[Number(w, k)], 1)
    BY <2>1, <2>5, <2>6
  <2>10. Reader(w, x, l)
    BY <1>1, <2>1, <2>6, <2>7, <2>8, <2>9, BehindHeader
  <2>11. QED
    BY <2>10 DEF x
<1>12. QED
  BY <1>3, <1>6, <1>7, <1>9, <1>10, <1>11

LEMMA ReadFooterRight ==
  ASSUME ClientReads, Reader(file, is, log), FileOK(file), DirectionsOK(file), ReadFooter
  PROVE  Reader(file, is', log')
<1> DEFINE i == Incoming
           t == Fetched
           r == [t EXCEPT !.pos = @ + 2]
           g == [r EXCEPT !.header_index = @ + 1]
           broken == "Unexpected end of file or corrupt footer"
<1>1. /\ Readable /\ file[i].id = StreamFooterId /\ log' = log
      /\ \/ is' = Fatal(t, broken)
         \/ /\ r.pos <= FileEnd /\ file[r.pos].kind = "END_MAGIC"
            /\ \/ r.pos = FileEnd /\ is' = SetEnd(r)
               \/ is' = ReadHeader(g, FALSE, "footer")
  <2>1. ~(r.pos > FileEnd \/ file[r.pos].kind # "END_MAGIC") =>
           /\ ~(r.pos > FileEnd) /\ file[r.pos].kind = "END_MAGIC"
    OBVIOUS
  <2>2. ~(r.pos > FileEnd) => r.pos <= FileEnd
    <3>1. Readable /\ file[i].id # StreamHeaderId
      BY FixedIdsDiffer DEF ReadFooter
    <3>2. t.pos = i /\ DOMAIN t = Fields
      BY <3>1, FetchedReads, FetchedCalling
    <3>3. i \in Nat /\ Len(file) \in Nat
      BY <3>1 DEF Readable, Parsable, AtMessage, FileOK
    <3>4. r.pos = i + 2
      BY <3>2 DEF Fields
    <3>5. QED
      BY <3>3, <3>4 DEF FileEnd, ByteCount
  <2>3. QED
    BY <2>1, <2>2 DEF ReadFooter
<1>2. file[i].id # StreamHeaderId /\ file[i].id \in FixedIds
  BY <1>1, FixedIdsDiffer DEF FixedIds
<1>3. PICK h \in HeadersOf(file) : Reads(file, t, log, h, i)
  BY <1>1, <1>2, FetchedReads
<1>4. /\ DOMAIN t = Fields /\ Calling(t) /\ t.pos = i /\ t.pickup = None /\ t.call = is.call
      /\ is.call # "try_read"
  BY <1>1, <1>2, FetchedReads, FetchedCalling, CallsThatRead DEF Readable
<1> HIDE DEF t, i, broken
<1>5. /\ file \in Seq(Cell) /\ i \in DOMAIN file /\ i \in Nat /\ Len(file) \in Nat
      /\ DOMAIN file = 1 .. Len(file) /\ IsMessage(file[i])
      /\ AllRight(file, log) /\ Known(file, t) /\ t.started /\ t.good /\ t.status = "ok"
      /\ HandedUpTo(file, log, i) /\ t.scan = NoScan
  BY <1>3 DEF FileOK, Reads
<1>6. Reader(file, Fatal(t, "Unexpected end of file or corrupt footer"), log)
  BY <1>4, <1>5, Aborted DEF Calling
<1>7. ASSUME r.pos <= FileEnd, file[r.pos].kind = "END_MAGIC"
      PROVE  /\ i + 2 \in DOMAIN file /\ file[i + 2].kind = "END_MAGIC" /\ ~IsMessage(file[i + 1])
             /\ HandedUpTo(file, log, i + 3) /\ r.pos = i + 2
  <2>1. r.pos = i + 2
    BY <1>4 DEF Fields
  <2>2. i + 2 \in DOMAIN file /\ i + 1 \in DOMAIN file
    BY <1>5, <1>7, <2>1 DEF FileEnd, ByteCount
  <2>3. ~IsMessage(file[i + 1])
    <3>1. HasId(file[i], StreamFooterId)
      BY <1>1, <1>5 DEF HasId, IsMessage
    <3>2. QED
      BY <1>5, <2>2, <3>1 DEF FileOK
  <2>4. ~IsEvent(file[i]) /\ ~IsEvent(file[i + 1]) /\ ~IsEvent(file[i + 2])
    BY <1>2, <1>7, <2>1, <2>3 DEF IsEvent, IsUserMessage, IsMessage
  <2>5. HandedUpTo(file, log, i + 1) /\ i + 1 \in Nat /\ i + 2 \in Nat
    BY <1>5, <2>4, HandedOn
  <2>6. HandedUpTo(file, log, (i + 1) + 1) /\ (i + 1) + 1 = i + 2
    BY <1>5, <2>4, <2>5, HandedOn
  <2>7. HandedUpTo(file, log, (i + 2) + 1) /\ (i + 2) + 1 = i + 3
    BY <1>5, <2>4, <2>5, <2>6, HandedOn
  <2>8. QED
    BY <1>7, <2>1, <2>2, <2>3, <2>7
<1>8. CASE r.pos <= FileEnd /\ file[r.pos].kind = "END_MAGIC" /\ r.pos = FileEnd /\ is' = SetEnd(r)
  <2> DEFINE x == SetEnd(r)
  <2>1. /\ DOMAIN r = Fields /\ r.started = t.started
        /\ r.pickup = t.pickup /\ r.scan = t.scan /\ r.call = t.call
        /\ r.discovered = t.discovered /\ r.metadata_per_header = t.metadata_per_header
    BY <1>4 DEF Fields
  <2>2. /\ i + 2 = Len(file) /\ file[i + 2].kind = "END_MAGIC" /\ HandedUpTo(file, log, i + 3)
        /\ Len(file) + 1 = i + 3 /\ Len(file) > 0
    BY <1>5, <1>7, <1>8 DEF FileEnd, ByteCount
  <2> HIDE DEF r
  <2>3. /\ DOMAIN x = Fields /\ ~x.good /\ x.started = r.started
        /\ x.pickup = r.pickup /\ x.scan = r.scan /\ x.call = r.call
        /\ x.discovered = r.discovered /\ x.metadata_per_header = r.metadata_per_header
    BY <2>1, EndRead
  <2> HIDE DEF x
  <2>4. Known(file, x) /\ x.call \in Calls \cup {"none"} /\ x.started /\ x.pickup = None /\ x.scan = NoScan
    BY <1>4, <1>5, <2>1, <2>3 DEF Known, Calling
  <2>5. EndsBetweenStreams(file) /\ HandedUpTo(file, log, Len(file) + 1)
    BY <2>2 DEF EndsBetweenStreams
  <2>6. Reader(file, x, log)
    BY <1>5, <2>3, <2>4, <2>5, EndedReader
  <2>7. QED
    BY <1>1, <1>8, <2>6 DEF x
<1>9. CASE r.pos <= FileEnd /\ file[r.pos].kind = "END_MAGIC" /\ is' = ReadHeader(g, FALSE, "footer")
  <2>1. /\ i + 2 \in DOMAIN file /\ file[i + 2].kind = "END_MAGIC" /\ ~IsMessage(file[i + 1])
        /\ HandedUpTo(file, log, i + 3) /\ r.pos = i + 2
    BY <1>7, <1>9
  <2>2. g = [t EXCEPT !.pos = i + 2, !.header_index = @ + 1]
    <3>1. r = [t EXCEPT !.pos = i + 2]
      BY <1>4
    <3>2. QED
      BY <1>4, <3>1 DEF Fields
  <2> HIDE DEF g, r
  <2>3. Reader(file, ReadHeader(g, FALSE, "footer"), log)
    BY <1>3, <1>4, <2>1, <2>2, NextStreamRight
  <2>4. QED
    BY <1>1, <1>9, <2>3
<1>10. QED
  BY <1>1, <1>6, <1>8, <1>9 DEF broken

\* A header that is no header, and a scan that fails: an error, or a FATAL
LEMMA BrokenReader ==
  ASSUME NEW w, NEW r, NEW l, DOMAIN r = Fields, AllRight(w, l), Known(w, r), r.started,
         r.call \in Calls \cup {"none"}, r.pickup = None, r.scan = NoScan
  PROVE  /\ Reader(w, SetError(r), l) /\ Reader(w, SetError(SetError(r)), l)
         /\ Reader(w, SetError(SetEnd(r)), l)
<1>1. ASSUME NEW y, DOMAIN y = Fields, Known(w, y), y.started, y.call \in Calls \cup {"none"},
             y.pickup = None, y.scan = NoScan
      PROVE  Reader(w, SetError(y), l)
  <2> DEFINE x == SetError(y)
  <2>1. /\ DOMAIN x = Fields /\ ~x.good /\ x.started = y.started /\ x.pickup = y.pickup
        /\ x.scan = y.scan /\ x.call = y.call /\ x.error
        /\ x.discovered = y.discovered /\ x.metadata_per_header = y.metadata_per_header
    BY <1>1, EndRead
  <2> HIDE DEF x
  <2>2. Known(w, x)
    BY <1>1, <2>1 DEF Known
  <2>3. Reader(w, x, l)
    BY <1>1, <2>1, <2>2, EndedReader
  <2>4. QED
    BY <2>3 DEF x
<1>2. ASSUME NEW z, z = SetError(r) \/ z = SetEnd(r)
      PROVE  Reader(w, SetError(z), l)
  <2>1. /\ DOMAIN SetError(r) = Fields /\ SetError(r).started = r.started
        /\ SetError(r).pickup = r.pickup /\ SetError(r).scan = r.scan /\ SetError(r).call = r.call
        /\ SetError(r).discovered = r.discovered
        /\ SetError(r).metadata_per_header = r.metadata_per_header
    BY EndRead
  <2>2. /\ DOMAIN SetEnd(r) = Fields /\ SetEnd(r).started = r.started
        /\ SetEnd(r).pickup = r.pickup /\ SetEnd(r).scan = r.scan /\ SetEnd(r).call = r.call
        /\ SetEnd(r).discovered = r.discovered
        /\ SetEnd(r).metadata_per_header = r.metadata_per_header
    BY EndRead
  <2>3. /\ DOMAIN z = Fields /\ z.started = r.started /\ z.pickup = r.pickup /\ z.scan = r.scan
        /\ z.call = r.call /\ z.discovered = r.discovered
        /\ z.metadata_per_header = r.metadata_per_header
    BY <1>2, <2>1, <2>2
  <2>4. Known(w, z)
    BY <2>3 DEF Known
  <2>5. QED
    BY <1>1, <2>3, <2>4
<1>3. QED
  BY <1>1, <1>2

\* A reader that starts to search the file for metadata
LEMMA SearchStarts ==
  ASSUME NEW w, FileOK(w), NEW x, NEW l, DOMAIN x = Fields, 2 \in HeadersOf(w), Number(w, 2) = 1,
         x.started, x.good, x.status = "ok", x.pos = 2, x.pickup = None, x.scan = NewScan("startup", 0),
         x.forward = Refers(w, 2), x.header_index = 0, ~x.discovered, x.metadata_per_header = << >>,
         x.current = None, ~x.do_reset_metadata, Calling(x), AllRight(w, l), HandedUpTo(w, l, 3)
  PROVE  Reader(w, x, l)
<1>1. w \in Seq(Cell) /\ 2 \in DOMAIN w /\ HasId(w[2], StreamHeaderId) /\ Len(w) \in Nat
  BY DEF FileOK, HeadersOf
<1>2. InStreamOf(w, 2, 2) /\ IsMessage(w[2])
  BY <1>1 DEF InStreamOf, HasId, IsMessage
<1>3. At(w, x, 2)
  BY <1>1, <1>2 DEF At
<1>4. ScanRight(w, x.scan, x.pool)
  <2>1. x.scan = [then |-> "startup", header |-> 0, size |-> 0, headers |-> << >>,
                  forward |-> << >>, metadata |-> << >>, offsets |-> << >>]
    BY DEF NewScan
  <2> DEFINE s == x.scan
  <2>2. /\ DOMAIN s = ScanFields /\ s.then = "startup" /\ s.header = 0 /\ s.headers = << >>
        /\ s.metadata = << >> /\ s.size = 0
    BY <2>1 DEF ScanFields
  <2> HIDE DEF s
  <2>3. Len(s.headers) = 0 /\ s.headers \in Seq(Nat) /\ s.metadata \in Seq(Seq(Nat)) /\ Len(s.metadata) = 0
    BY <2>2
  <2>4. ScanRight(w, s, x.pool)
    BY <1>1, <2>2, <2>3 DEF ScanRight
  <2>5. QED
    BY <2>4 DEF s
<1>5. Searching(w, x, 2)
  BY <1>4 DEF Searching
<1>6. Coming(x) = 3
  BY DEF Coming
<1>7. Busy(w, x, l)
  BY <1>3, <1>5, <1>6 DEF Busy
<1>8. Known(w, x)
  BY DEF Known
<1>9. QED
  BY <1>7, <1>8 DEF Reader, Place

LEMMA FirstHeader ==
  ASSUME NEW w, FileOK(w), 2 \in HeadersOf(w)
  PROVE  Number(w, 2) = 1
<1>1. \A k \in HeadersOf(w) : 2 <= k
  BY DEF FileOK
<1>2. w \in Seq(Cell)
  BY DEF FileOK
<1>3. QED
  BY <1>1, <1>2, EndNumbers

LEMMA StartupRight ==
  ASSUME Reader(file, is, log), FileOK(file), Startup
  PROVE  Reader(file, is', log')
<1> DEFINE r == [is EXCEPT !.started = TRUE]
           requested == is.call = "all_metadata"
           forward == file[r.pos + 2].body.metadata_refers_forward
           u == [r EXCEPT !.pos = @ + 2, !.pool = EmptyPool, !.forward = forward]
           v == [u EXCEPT !.metadata_index = -1]
           scan == NewScan("startup", r.header_index)
           x == is'
<1>1. /\ x = ReadHeader(r, requested, "startup") /\ log' = log /\ ~is.started /\ is.status = "ok"
      /\ DOMAIN is = Fields /\ AllRight(file, log) /\ Calling(is) /\ Fresh(file, is, log)
  BY DEF Startup, Ready, Reader, Place
<1>2. /\ DOMAIN r = Fields /\ r.pos = 0 /\ r.started /\ r.good /\ r.status = "ok"
      /\ r.pickup = None /\ r.scan = NoScan /\ r.call = is.call /\ ~r.discovered
      /\ r.header_index = 0 /\ r.metadata_per_header = << >> /\ r.current = None
      /\ ~r.do_reset_metadata
  BY <1>1, SMTT(30) DEF Fresh, Fields
<1> HIDE DEF r, forward, scan
<1>3. \/ x = HeaderFails(SetEnd(r), "startup")
      \/ x = HeaderFails(SetError(r), "startup")
      \/ /\ r.pos # FileEnd /\ r.pos + 1 # FileEnd
         /\ file[r.pos + 1].kind = "START_MAGIC" /\ HasId(file[r.pos + 2], StreamHeaderId)
         /\ u.discovered \/ x = [u EXCEPT !.scan = scan] \/ x = HeaderFails(SetError(u), "startup")
            \/ x = [v EXCEPT !.scan = scan]
            \/ (forward /\ x = [v EXCEPT !.new_metadata = TRUE])
  BY <1>1 DEF ReadHeader, MagicMissing, AfterHeader, forward, scan
<1>4. /\ DOMAIN u = Fields /\ u.pos = 2 /\ u.started /\ u.good /\ u.status = "ok"
      /\ u.pickup = None /\ u.scan = NoScan /\ u.call = is.call /\ ~u.discovered
      /\ u.header_index = 0 /\ u.metadata_per_header = << >> /\ u.current = None
      /\ ~u.do_reset_metadata /\ u.forward = forward /\ u.pool = EmptyPool
  BY <1>2 DEF Fields
<1> HIDE DEF u, x
<1>5. /\ DOMAIN v = Fields /\ v.pos = 2 /\ v.started /\ v.good /\ v.status = "ok"
      /\ v.pickup = None /\ v.scan = NoScan /\ v.call = is.call /\ ~v.discovered
      /\ v.header_index = 0 /\ v.metadata_per_header = << >> /\ v.current = None
      /\ ~v.do_reset_metadata /\ v.forward = forward /\ v.pool = EmptyPool
  BY <1>4 DEF Fields
<1> HIDE DEF v
<1>6. Known(file, r) /\ Known(file, u) /\ is.call \in Calls \cup {"none"}
  BY <1>1, <1>2, <1>4 DEF Known, Calling
<1>7. CASE x = HeaderFails(SetEnd(r), "startup") \/ x = HeaderFails(SetError(r), "startup")
  <2>1. x = SetError(SetEnd(r)) \/ x = SetError(SetError(r))
    BY <1>7 DEF HeaderFails
  <2>2. Reader(file, SetError(SetError(r)), log) /\ Reader(file, SetError(SetEnd(r)), log)
    BY <1>1, <1>2, <1>6, BrokenReader
  <2>3. QED
    BY <1>1, <2>1, <2>2 DEF x
<1>8. CASE x = HeaderFails(SetError(u), "startup")
  <2>1. x = SetError(SetError(u))
    BY <1>8 DEF HeaderFails
  <2>2. Reader(file, SetError(SetError(u)), log)
    BY <1>1, <1>4, <1>6, BrokenReader
  <2>3. QED
    BY <1>1, <2>1, <2>2 DEF x
<1>9. ASSUME r.pos # FileEnd, r.pos + 1 # FileEnd,
             file[r.pos + 1].kind = "START_MAGIC", HasId(file[r.pos + 2], StreamHeaderId)
      PROVE  /\ 2 \in HeadersOf(file) /\ Number(file, 2) = 1 /\ Refers(file, 2) = forward
             /\ HandedUpTo(file, log, 3)
  <2>1. file \in Seq(Cell) /\ Len(file) \in Nat /\ DOMAIN file = 1 .. Len(file)
    BY DEF FileOK
  <2>2. Len(file) # 0 /\ Len(file) # 1 /\ HasId(file[2], StreamHeaderId) /\ file[1].kind = "START_MAGIC"
    BY <1>2, <1>9 DEF FileEnd, ByteCount
  <2>3. 2 \in HeadersOf(file)
    BY <2>1, <2>2 DEF HeadersOf
  <2>4. Number(file, 2) = 1
    BY <2>3, FirstHeader
  <2>5. Refers(file, 2) = forward
    BY <1>2 DEF Refers, forward
  <2>6. ~IsEvent(file[1]) /\ ~IsEvent(file[2])
    BY <2>2 DEF IsEvent, IsUserMessage, HasId, FixedIds
  <2>7. log.events = << >> /\ log.all = << >>
    BY <1>1 DEF Fresh
  <2>8. \A k \in DOMAIN file : ~(k < 3 /\ IsEvent(file[k]))
    <3>1. \A k \in DOMAIN file : k < 3 => k = 1 \/ k = 2
      BY <2>1
    <3>2. QED
      BY <2>6, <3>1
  <2>9. HandedUpTo(file, log, 3)
    BY <2>7, <2>8 DEF HandedUpTo
  <2>10. QED
    BY <2>3, <2>4, <2>5, <2>9
<1>10. CASE /\ r.pos # FileEnd /\ r.pos + 1 # FileEnd
            /\ file[r.pos + 1].kind = "START_MAGIC" /\ HasId(file[r.pos + 2], StreamHeaderId)
            /\ x = [u EXCEPT !.scan = scan] \/ x = [v EXCEPT !.scan = scan]
  <2>1. /\ 2 \in HeadersOf(file) /\ Number(file, 2) = 1 /\ Refers(file, 2) = forward
        /\ HandedUpTo(file, log, 3)
    BY <1>9, <1>10
  <2>2. /\ DOMAIN x = Fields /\ x.pos = 2 /\ x.started /\ x.good /\ x.status = "ok"
        /\ x.pickup = None /\ x.scan = scan /\ x.call = is.call /\ ~x.discovered
        /\ x.header_index = 0 /\ x.metadata_per_header = << >> /\ x.current = None
        /\ ~x.do_reset_metadata /\ x.forward = forward
    BY <1>4, <1>5, <1>10 DEF Fields
  <2>3. scan = NewScan("startup", 0)
    BY <1>2 DEF scan
  <2>4. Calling(x)
    BY <1>1, <2>2 DEF Calling
  <2>5. Reader(file, x, log)
    BY <1>1, <2>1, <2>2, <2>3, <2>4, SearchStarts
  <2>6. QED
    BY <1>1, <2>5 DEF x
<1>11. CASE /\ r.pos # FileEnd /\ r.pos + 1 # FileEnd
            /\ file[r.pos + 1].kind = "START_MAGIC" /\ HasId(file[r.pos + 2], StreamHeaderId)
            /\ forward /\ x = [v EXCEPT !.new_metadata = TRUE]
  <2>1. /\ 2 \in HeadersOf(file) /\ Number(file, 2) = 1 /\ Refers(file, 2) = forward
        /\ HandedUpTo(file, log, 3) /\ Refers(file, 2)
    BY <1>9, <1>11
  <2>2. /\ DOMAIN x = Fields /\ x.pos = 2 /\ x.started /\ x.good /\ x.status = "ok"
        /\ x.pickup = None /\ x.scan = NoScan /\ x.call = is.call /\ ~x.discovered
        /\ x.header_index = 0 /\ x.current = None /\ x.pool = EmptyPool
        /\ ~x.do_reset_metadata /\ x.forward = forward
    BY <1>5, <1>11 DEF Fields
  <2>3. Calling(x) /\ Known(file, x) /\ x.pool.class = << >> /\ 2 + 1 = 3
    BY <1>1, <2>2 DEF Calling, Known, EmptyPool
  <2>4. x.header_index \in Nat /\ x.header_index + 1 = Number(file, 2)
    BY <2>1, <2>2
  <2>5. Reader(file, x, log)
    BY <1>1, <2>1, <2>2, <2>3, <2>4, BehindHeader
  <2>6. QED
    BY <1>1, <2>5 DEF x
<1>12. QED
  BY <1>3, <1>4, <1>7, <1>8, <1>10, <1>11
-----------------------------------------------------------------------------
(* Discovery                                                                *)

LEMMA ScanningReader ==
  ASSUME Reader(file, is, log), Scanning
  PROVE  /\ is.started /\ is.good /\ is.status = "ok" /\ DOMAIN is = Fields /\ Known(file, is)
         /\ AllRight(file, log) /\ Calling(is) /\ At(file, is, 2) /\ Searching(file, is, 2)
         /\ HandedUpTo(file, log, 3)
<1>1. is.started /\ is.good /\ is.status = "ok" /\ is.scan # NoScan
  BY DEF Reader, Place, Fresh, Ended, Scanning
<1>2. Busy(file, is, log)
  BY <1>1 DEF Reader, Place
<1>3. PICK h \in HeadersOf(file) : At(file, is, h) /\ (Decoding(file, is, h) \/ Searching(file, is, h))
  BY <1>2 DEF Busy
<1>4. Searching(file, is, h) /\ h = 2
  BY <1>1, <1>3 DEF Decoding, Searching
<1>5. Coming(is) = 3
  BY <1>4 DEF Searching, Coming
<1>6. HandedUpTo(file, log, 3)
  BY <1>2, <1>5 DEF Busy
<1>7. QED
  BY <1>1, <1>3, <1>4, <1>6 DEF Reader

LEMMA ScanFailsRight ==
  ASSUME Reader(file, is, log), ScanFails
  PROVE  Reader(file, is', log')
<1> DEFINE r == [is EXCEPT !.scan = NoScan]
<1>1. Scanning /\ log' = log
  BY DEF ScanFails
<1>2. /\ is.started /\ DOMAIN is = Fields /\ Known(file, is) /\ AllRight(file, log)
      /\ Calling(is) /\ is.pickup = None /\ is.scan.then = "startup"
  BY <1>1, ScanningReader DEF Searching, ScanRight
<1>3. is' = SetError(SetError(r)) \/ is' = Fatal(r, "Could not parse from stream!")
  BY <1>2 DEF ScanFails, HeaderFails
<1>4. /\ DOMAIN r = Fields /\ r.started = is.started /\ r.pickup = is.pickup /\ r.scan = NoScan
      /\ r.call = is.call /\ r.discovered = is.discovered
      /\ r.metadata_per_header = is.metadata_per_header
  BY <1>2 DEF Fields
<1> HIDE DEF r
<1>5. Known(file, r) /\ r.call \in Calls \cup {"none"}
  BY <1>2, <1>4 DEF Known, Calling
<1>6. Reader(file, SetError(SetError(r)), log)
  BY <1>2, <1>4, <1>5, BrokenReader
<1>7. Reader(file, Fatal(r, "Could not parse from stream!"), log)
  BY <1>2, <1>4, <1>5, Aborted
<1>8. QED
  BY <1>1, <1>3, <1>6, <1>7

\* When the scan has reached the first stream, all of them are known.
LEMMA AllFound ==
  ASSUME NEW w, FileOK(w), NEW s, NEW pool, ScanRight(w, s, pool), s.size > 0, s.headers[1] = 0
  PROVE  /\ s.metadata \in Seq(Seq(Nat)) /\ Len(s.metadata) = Streams(w)
         /\ \A h \in HeadersOf(w) : Lists(w, h, s.metadata[Number(w, h)])
         /\ PoolSound(w, 2, pool) /\ 2 \in HeadersOf(w) /\ s.headers \in Seq(Nat)
         /\ Len(s.headers) > 0
<1> DEFINE k == Len(s.headers)
<1>1. /\ w \in Seq(Cell) /\ k \in Nat /\ k > 0 /\ s.headers \in Seq(Nat)
      /\ s.metadata \in Seq(Seq(Nat)) /\ Len(s.metadata) = k
      /\ \A j \in 1 .. k : /\ s.headers[j] + 2 \in HeadersOf(w)
                           /\ Number(w, s.headers[j] + 2) = Streams(w) - k + j
                           /\ Lists(w, s.headers[j] + 2, s.metadata[j])
  BY DEF FileOK, ScanRight
<1>2. s.headers[1] + 2 = 2 /\ PoolSound(w, 2, pool)
  BY <1>1 DEF ScanRight
<1> HIDE DEF k
<1>3. 1 \in 1 .. k
  BY <1>1
<1>4. 2 \in HeadersOf(w) /\ Number(w, 2) = Streams(w) - k + 1
  BY <1>1, <1>2, <1>3
<1>5. Number(w, 2) = 1 /\ Streams(w) \in Nat
  BY <1>1, <1>4, FirstHeader, HeadersCounted
<1>6. k = Streams(w)
  BY <1>1, <1>4, <1>5
<1>7. ASSUME NEW h \in HeadersOf(w) PROVE Lists(w, h, s.metadata[Number(w, h)])
  <2> DEFINE j == Number(w, h)
  <2>1. j \in 1 .. k
    BY <1>1, <1>6, HeadersCounted
  <2> HIDE DEF j
  <2>2. s.headers[j] + 2 \in HeadersOf(w) /\ Number(w, s.headers[j] + 2) = Streams(w) - k + j
        /\ Lists(w, s.headers[j] + 2, s.metadata[j])
    BY <1>1, <2>1
  <2>3. Streams(w) - k + j = j
    BY <1>1, <1>5, <1>6, <2>1
  <2>4. s.headers[j] + 2 = h
    BY <1>1, <2>2, <2>3, SameNumber DEF j
  <2>5. QED
    BY <2>2, <2>4 DEF j
<1>8. QED
  BY <1>1, <1>2, <1>4, <1>6, <1>7 DEF k

LEMMA ScanDoneRight ==
  ASSUME Reader(file, is, log), FileOK(file), ScanDone
  PROVE  Reader(file, is', log')
<1> DEFINE s == is.scan
           d == Discovered(is)
           x == HeaderDone(d)
           pos == s.headers[s.header + 1] + 2
           list == is.metadata_per_header \o s.metadata
<1>1. Scanning /\ AllScanned /\ log' = log
  BY DEF ScanDone
<1>2. /\ is.started /\ is.good /\ is.status = "ok" /\ DOMAIN is = Fields /\ AllRight(file, log)
      /\ Calling(is) /\ At(file, is, 2) /\ Searching(file, is, 2) /\ HandedUpTo(file, log, 3)
  BY <1>1, ScanningReader
<1>3. /\ ScanRight(file, s, is.pool) /\ is.current = None /\ ~is.do_reset_metadata
      /\ is.metadata_per_header = << >> /\ is.pickup = None /\ is.forward = Refers(file, 2)
      /\ s.then = "startup" /\ s.header = 0
  BY <1>2 DEF Searching, ScanRight, At
<1>4. is' = x
  BY <1>3 DEF ScanDone, AfterHeader
<1>5. /\ s.metadata \in Seq(Seq(Nat)) /\ Len(s.metadata) = Streams(file)
      /\ \A h \in HeadersOf(file) : Lists(file, h, s.metadata[Number(file, h)])
      /\ PoolSound(file, 2, is.pool) /\ 2 \in HeadersOf(file) /\ s.headers[1] = 0
  BY <1>1, <1>3, AllFound DEF AllScanned
<1>6. pos = 2 /\ list = s.metadata
  <2>1. pos = 2
    BY <1>3, <1>5
  <2>2. list = s.metadata
    BY <1>3, <1>5
  <2>3. QED
    BY <2>1, <2>2
<1> HIDE DEF pos, list
<1>7. /\ DOMAIN d = Fields /\ d.pos = pos /\ d.discovered /\ d.header_index = s.header
      /\ d.metadata_per_header = list /\ d.scan = NoScan /\ d.started = is.started
      /\ d.good = is.good /\ d.status = is.status /\ d.pickup = is.pickup /\ d.pool = is.pool
      /\ d.forward = is.forward /\ d.current = is.current /\ d.call = is.call
      /\ d.do_reset_metadata = is.do_reset_metadata
  BY <1>2 DEF Discovered, Fields, pos, list
<1> HIDE DEF d, s
<1>8. d.header_index + 1 = 1 /\ d.metadata_per_header[1] \in Seq(Nat) /\ Number(file, 2) = 1
  <2>1. Number(file, 2) = 1
    BY <1>5, FirstHeader
  <2>2. s.metadata[1] \in Seq(Nat)
    BY <1>5, <2>1 DEF Lists
  <2>3. QED
    BY <1>3, <1>6, <1>7, <2>1, <2>2
<1>9. FirstMetadata(d) = Entry(d.metadata_per_header[1], 1)
  BY <1>3, <1>7, <1>8, FirstIsEntry
<1> DEFINE y == [d EXCEPT !.metadata_index = 0, !.current = FirstMetadata(d)]
<1>10. \/ x = [d EXCEPT !.new_metadata = TRUE] /\ d.forward
       \/ x = [y EXCEPT !.new_metadata = TRUE] /\ ~d.forward
  BY Zenon DEF HeaderDone
<1> HIDE DEF x
<1>11. /\ DOMAIN y = Fields /\ y.pos = d.pos /\ y.discovered = d.discovered
       /\ y.header_index = d.header_index /\ y.current = FirstMetadata(d) /\ y.metadata_index = 0
       /\ y.metadata_per_header = d.metadata_per_header /\ y.scan = d.scan /\ y.started = d.started
       /\ y.good = d.good /\ y.status = d.status /\ y.pickup = d.pickup /\ y.pool = d.pool
       /\ y.forward = d.forward /\ y.call = d.call /\ y.do_reset_metadata = d.do_reset_metadata
  BY <1>7 DEF Fields
<1> HIDE DEF y
<1>12. /\ DOMAIN x = Fields /\ x.pos = d.pos /\ x.discovered = d.discovered
       /\ x.header_index = d.header_index
       /\ x.metadata_per_header = d.metadata_per_header /\ x.scan = d.scan /\ x.started = d.started
       /\ x.good = d.good /\ x.status = d.status /\ x.pickup = d.pickup /\ x.pool = d.pool
       /\ x.forward = d.forward /\ x.call = d.call /\ x.do_reset_metadata = d.do_reset_metadata
       /\ IF d.forward THEN x.current = d.current
          ELSE x.metadata_index = 0 /\ x.current = FirstMetadata(d)
  <2>1. CASE x = [d EXCEPT !.new_metadata = TRUE] /\ d.forward
    BY <1>7, <2>1 DEF Fields
  <2>2. CASE x = [y EXCEPT !.new_metadata = TRUE] /\ ~d.forward
    BY <1>11, <2>2 DEF Fields
  <2>3. QED
    BY <1>10, <2>1, <2>2
<1>13. Known(file, x) /\ Calling(x)
  BY <1>2, <1>3, <1>5, <1>6, <1>7, <1>12 DEF Known, Calling
<1>14. /\ x.started /\ x.good /\ x.status = "ok" /\ x.pos = 2 /\ x.pickup = None /\ x.scan = NoScan
       /\ PoolSound(file, 2, x.pool) /\ x.forward = Refers(file, 2) /\ ~x.do_reset_metadata
       /\ DOMAIN x = Fields
  BY <1>2, <1>3, <1>5, <1>6, <1>7, <1>12
<1>15. x.header_index \in Nat /\ x.header_index + 1 = Number(file, 2) /\ 2 + 1 = 3
  BY <1>3, <1>7, <1>8, <1>12
<1>16. IF Refers(file, 2) THEN x.current = None
       ELSE /\ x.discovered /\ x.metadata_index = 0
            /\ x.current = Entry(x.metadata_per_header[Number(file, 2)], 1)
  BY <1>3, <1>7, <1>8, <1>9, <1>12
<1>17. Reader(file, x, log)
  BY <1>2, <1>5, <1>13, <1>14, <1>15, <1>16, BehindHeader
<1>18. QED
  BY <1>1, <1>4, <1>17

\* A footer in front of the streams that were found is that of the stream before them.
LEMMA FooterBefore ==
  ASSUME NEW w, FileOK(w), NEW s, NEW pool, ScanRight(w, s, pool), NEW c \in DOMAIN w,
         c = Len(w) - s.size - 2, w[c + 1].kind = "FooterSize", NEW h, InStreamOf(w, h, c)
  PROVE  h \in HeadersOf(w) /\ Number(w, h) = Streams(w) - Len(s.headers)
<1> DEFINE k == Len(s.headers)
           e == s.headers[1]
<1>1. /\ w \in Seq(Cell) /\ Len(w) \in Nat /\ DOMAIN w = 1 .. Len(w) /\ s.size \in 0 .. Len(w)
      /\ k \in Nat /\ h \in Nat /\ h <= c /\ h \in DOMAIN w /\ c \in Nat /\ s.headers \in Seq(Nat)
  BY SMTT(30) DEF FileOK, ScanRight, InStreamOf
<1>2. h \in HeadersOf(w)
  BY <1>1 DEF HeadersOf, InStreamOf
<1>3. ASSUME NEW j \in HeadersOf(w), h < j PROVE j \in Nat /\ j # c + 1 /\ j # c + 2 /\ c < j
  <2>1. j \in Nat /\ IsMessage(w[j]) /\ HasId(w[j], StreamHeaderId)
    BY <1>1 DEF HeadersOf, HasId, IsMessage
  <2>2. c < j
    <3>1. j \notin h + 1 .. c
      BY <2>1 DEF InStreamOf
    <3>2. QED
      BY <1>1, <1>3, <2>1, <3>1
  <2>3. j # c + 1
    BY <2>1 DEF IsMessage
  <2>4. j # c + 2
    <3>1. ASSUME j = c + 2 PROVE FALSE
      <4>1. w[j - 1].kind = "START_MAGIC" /\ j - 1 = c + 1
        BY <1>1, <3>1, SMTT(30) DEF FileOK
      <4>2. QED
        BY <4>1
    <3>2. QED
      BY <3>1
  <2>5. QED
    BY <2>1, <2>2, <2>3, <2>4
<1>4. CASE k = 0
  <2>1. c + 2 = Len(w)
    BY <1>1, <1>4, SMTT(30) DEF ScanRight
  <2>2. \A j \in HeadersOf(w) : j <= h
    <3>1. ASSUME NEW j \in HeadersOf(w), h < j PROVE FALSE
      <4>1. j \in Nat /\ j # c + 1 /\ j # c + 2 /\ c < j
        BY <1>3, <3>1
      <4>2. j <= Len(w)
        BY <1>1 DEF HeadersOf
      <4>3. QED
        BY <1>1, <2>1, <4>1, <4>2, SMTT(30)
    <3>2. \A j \in HeadersOf(w) : j \in Nat
      BY <1>1 DEF HeadersOf
    <3>3. QED
      BY <1>1, <3>1, <3>2
  <2>3. Number(w, h) = Streams(w) /\ Streams(w) \in Nat
    BY <1>1, <1>2, <2>2, EndNumbers, HeadersCounted
  <2>4. QED
    BY <1>2, <1>4, <2>3
<1>5. CASE k > 0
  <2>1. e = Len(w) - s.size /\ e \in Nat
    <3>1. 1 \in DOMAIN s.headers
      BY <1>1, <1>5
    <3>2. QED
      BY <1>1, <1>5, <3>1, SMTT(30) DEF ScanRight
  <2>2. e + 2 \in HeadersOf(w) /\ Number(w, e + 2) = Streams(w) - k + 1
    <3>1. 1 \in 1 .. k
      BY <1>1, <1>5
    <3>2. QED
      BY <3>1 DEF ScanRight
  <2> HIDE DEF e
  <2>3. w[e + 1].kind = "START_MAGIC"
    <3>1. w[(e + 2) - 1].kind = "START_MAGIC" /\ (e + 2) - 1 = e + 1
      BY <2>1, <2>2 DEF FileOK
    <3>2. QED
      BY <3>1
  <2>4. ASSUME NEW j \in HeadersOf(w), h < j, j < e + 2 PROVE FALSE
    <3>1. j \in Nat /\ j # c + 1 /\ j # c + 2 /\ c < j
      BY <1>3, <2>4
    <3>2. j # e + 1
      BY <2>3 DEF HeadersOf, HasId
    <3>3. e = c + 2
      BY <1>1, <2>1
    <3>4. c \in Nat /\ e \in Nat
      BY <1>1, <2>1
    <3>5. j = c + 3
      BY <2>4, <3>1, <3>3, <3>4, SMTT(30)
    <3>6. QED
      BY <3>2, <3>3, <3>4, <3>5
  <2>5. h < e + 2
    BY <1>1, <2>1
  <2>6. Number(w, e + 2) = Number(w, h) + 1
    BY <1>1, <1>2, <2>2, <2>4, <2>5, NumbersGrow
  <2>7. Number(w, h) \in 1 .. Streams(w) /\ Streams(w) \in Nat
    BY <1>1, <1>2, HeadersCounted
  <2>8. Number(w, h) \in Nat /\ Streams(w) \in Nat /\ k \in Nat
    BY <1>1, <2>7
  <2> HIDE DEF k
  <2>9. Number(w, h) = Streams(w) - k
    BY <2>2, <2>6, <2>8
  <2>10. QED
    BY <1>2, <2>9 DEF k
<1>6. QED
  BY <1>1, <1>4, <1>5

\* next_message() from an offset finds what the offset leads to.
LEMMA FirstIsTarget ==
  ASSUME FileOK(file), NEW p \in Nat, Target(file, p) \in DOMAIN file,
         IsMessage(file[Target(file, p)]), file[Target(file, p)].id \notin CompressionIds
  PROVE  FirstFrom(p) = Target(file, p)
<1> DEFINE t == Target(file, p)
           q == t - 1
           found == {i \in p .. FileEnd - 1 :
                       /\ IsMessage(file[i + 1])
                       /\ file[i + 1].id \notin CompressionIds
                       /\ \A k \in p .. i - 1 : HasId(file[k + 1], StartCompressedSectionId)
                                               \/ HasId(file[k + 1], EndCompressedSectionId)}
<1>1. file \in Seq(Cell) /\ Len(file) \in Nat /\ DOMAIN file = 1 .. Len(file)
  BY DEF FileOK
<1>2. IF HasId(file[p + 1], StartCompressedSectionId) THEN q = p + 1 ELSE q = p
  BY DEF Target
<1>3. q + 1 = t /\ q \in p .. FileEnd - 1 /\ q \in Nat
  BY <1>1, <1>2 DEF FileEnd, ByteCount
<1>4. q \in found
  <2>1. ASSUME NEW k \in p .. q - 1 PROVE HasId(file[k + 1], StartCompressedSectionId)
    <3>1. k = p
      BY <1>2, <1>3
    <3>2. HasId(file[p + 1], StartCompressedSectionId)
      BY <1>2, <1>3, <3>1
    <3>3. QED
      BY <3>1, <3>2
  <2> HIDE DEF t, q
  <2>2. IsMessage(file[q + 1]) /\ file[q + 1].id \notin CompressionIds
    BY <1>3 DEF t
  <2>3. QED
    BY <1>3, <2>1, <2>2
<1>5. \A i \in found : q <= i
  <2>1. SUFFICES ASSUME NEW i \in found PROVE q <= i
    OBVIOUS
  <2>2. i \in Nat /\ p <= i /\ file[i + 1].id \notin CompressionIds
    OBVIOUS
  <2>3. CASE HasId(file[p + 1], StartCompressedSectionId)
    <3>1. file[p + 1].id \in CompressionIds
      BY <2>3 DEF HasId, CompressionIds
    <3>2. i # p
      BY <2>2, <3>1
    <3>3. QED
      BY <1>2, <2>2, <2>3, <3>2
  <2>4. CASE ~HasId(file[p + 1], StartCompressedSectionId)
    BY <1>2, <2>2, <2>4
  <2>5. QED
    BY <2>3, <2>4
<1>6. found \in SUBSET Int
  BY <1>1 DEF FileEnd, ByteCount
<1>7. FirstFrom(p) = IF found = {} THEN None ELSE Min(found) + 1
  BY DEF FirstFrom
<1> HIDE DEF found, q
<1>8. Min(found) = q /\ found # {}
  BY <1>4, <1>5, <1>6, MinMax
<1>9. QED
  BY <1>3, <1>7, <1>8

\* The offsets of a footer lead to the cells, in their order.
LEMMA FoundInOrder ==
  ASSUME FileOK(file), NEW o \in Seq(Nat), NEW cells, Places(file, o, cells),
         \A i \in cells : i \in DOMAIN file /\ IsMessage(file[i]) /\ file[i].id \notin CompressionIds,
         NEW s, s = [n \in DOMAIN o |-> FirstFrom(o[n])]
  PROVE  /\ s \in Seq(Nat)
         /\ \A n \in DOMAIN s : s[n] \in cells
         /\ \A i \in cells : \E n \in DOMAIN s : s[n] = i
         /\ \A m, n \in DOMAIN s : m < n => s[m] < s[n]
<1>1. file \in Seq(Cell) /\ Len(o) \in Nat /\ DOMAIN o = 1 .. Len(o) /\ DOMAIN s = DOMAIN o
  BY DEF FileOK
<1>2. ASSUME NEW n \in DOMAIN o
      PROVE  /\ s[n] = Target(file, o[n]) /\ s[n] \in cells /\ s[n] \in Nat
             /\ o[n] \in Nat /\ o[n] < s[n]
  <2>1. o[n] \in Nat /\ Target(file, o[n]) \in cells
    BY DEF Places
  <2>2. Target(file, o[n]) \in DOMAIN file /\ IsMessage(file[Target(file, o[n])])
        /\ file[Target(file, o[n])].id \notin CompressionIds
    BY <2>1
  <2>3. FirstFrom(o[n]) = Target(file, o[n])
    BY <2>1, <2>2, FirstIsTarget
  <2>4. o[n] < Target(file, o[n]) /\ Target(file, o[n]) \in Nat
    BY <2>1 DEF Target
  <2>5. s[n] = FirstFrom(o[n])
    OBVIOUS
  <2>6. QED
    BY <2>1, <2>3, <2>4, <2>5
<1>3. s \in Seq(Nat)
  <2>1. s \in [1 .. Len(o) -> Nat]
    <3>1. s = [n \in 1 .. Len(o) |-> s[n]]
      BY <1>1
    <3>2. \A n \in 1 .. Len(o) : s[n] \in Nat
      BY <1>1, <1>2
    <3>3. QED
      BY <3>1, <3>2
  <2>2. QED
    BY <1>1, <2>1, SeqDef
<1>4. ASSUME NEW m \in DOMAIN s, NEW n \in DOMAIN s, m < n PROVE s[m] < s[n]
  <2>1. Target(file, o[m]) <= o[n]
    BY <1>1, <1>4 DEF Places
  <2>2. s[m] <= o[n] /\ o[n] < s[n] /\ s[m] \in Nat /\ s[n] \in Nat /\ o[n] \in Nat
    BY <1>1, <1>2, <2>1
  <2>3. QED
    BY <2>2
<1>5. ASSUME NEW i \in cells PROVE \E n \in DOMAIN s : s[n] = i
  <2>1. PICK n \in DOMAIN o : Target(file, o[n]) = i
    BY DEF Places
  <2>2. QED
    BY <1>1, <1>2, <2>1
<1>6. QED
  BY <1>1, <1>2, <1>3, <1>4, <1>5

\* The pool that discovery fills
LEMMA PoolOfSound ==
  ASSUME NEW h, NEW s \in Seq(Nat), \A n \in DOMAIN s : s[n] \in ProtoClassesIn(file, h)
  PROVE  PoolSound(file, h, PoolOf(s))
<1> DEFINE pool == PoolOf(s)
           with(id) == {n \in DOMAIN s : file[s[n]].body.class_id = id}
           ids == {file[s[n]].body.class_id : n \in DOMAIN s}
<1>1. pool.class = [id \in ids |-> file[s[Min(with(id))]].body.full_name]
  BY DEF PoolOf
<1>2. ASSUME NEW id \in DOMAIN pool.class
      PROVE  \E j \in ProtoClassesIn(file, h) :
               file[j].body.class_id = id /\ file[j].body.full_name = pool.class[id]
  <2> DEFINE S == with(id)
             n == Min(S)
  <2>1. id \in ids /\ pool.class[id] = file[s[n]].body.full_name
    BY <1>1, <1>2
  <2>2. S \in SUBSET Nat /\ S # {}
    <3>1. PICK m \in DOMAIN s : file[s[m]].body.class_id = id
      BY <2>1
    <3>2. m \in S
      BY <3>1
    <3>3. DOMAIN s \in SUBSET Nat
      OBVIOUS
    <3>4. QED
      BY <3>2, <3>3, SMTT(30)
  <2> HIDE DEF pool, S
  <2>3. PICK x \in S : \A y \in S : x <= y
    BY <2>2, HasLeast
  <2>4. n = x
    <3>1. S \in SUBSET Int
      BY <2>2, SMTT(30)
    <3>2. QED
      BY <2>3, <3>1, MinMax
  <2>5. n \in DOMAIN s /\ file[s[n]].body.class_id = id
    BY <2>3, <2>4 DEF S
  <2>6. QED
    BY <2>1, <2>5, SMTT(30)
<1> HIDE DEF pool
<1>3. PoolSound(file, h, pool)
  BY <1>2 DEF PoolSound
<1>4. QED
  BY <1>3 DEF pool

LEMMA AtTheFront ==
  ASSUME NEW S, NEW q \in Seq(S), NEW a \in S, NEW z, z = <<a>> \o q
  PROVE  /\ z \in Seq(S) /\ Len(z) = Len(q) + 1 /\ z[1] = a
         /\ \A j \in 1 .. Len(q) : z[j + 1] = q[j]
<1> DEFINE p == <<a>>
<1>1. p \in Seq(S) /\ Len(p) = 1 /\ p[1] = a /\ Len(q) \in Nat /\ z = p \o q
  OBVIOUS
<1> HIDE DEF p
<1>2. /\ z \in Seq(S) /\ Len(z) = Len(p) + Len(q)
      /\ \A i \in 1 .. Len(p) + Len(q) : z[i] = IF i <= Len(p) THEN p[i] ELSE q[i - Len(p)]
  BY <1>1, ConcatProperties
<1>3. z[1] = a /\ Len(z) = Len(q) + 1
  BY <1>1, <1>2
<1>4. ASSUME NEW j \in 1 .. Len(q) PROVE z[j + 1] = q[j]
  <2>1. j + 1 \in 1 .. Len(p) + Len(q) /\ ~(j + 1 <= Len(p)) /\ (j + 1) - Len(p) = j
    BY <1>1
  <2>2. QED
    BY <1>2, <2>1
<1>5. QED
  BY <1>2, <1>3, <1>4

\* One more stream at the front
LEMMA OneMoreFound ==
  ASSUME NEW w, FileOK(w), NEW s, NEW pool, ScanRight(w, s, pool), NEW c \in DOMAIN w,
         c = Len(w) - s.size - 2, w[c + 1].kind = "FooterSize", NEW b \in Nat, NEW size \in Nat,
         b = c - 1 - size, InStreamOf(w, b + 2, c),
         NEW metadata, Lists(w, b + 2, metadata), NEW more, PoolSound(w, b + 2, more),
         NEW z, DOMAIN z = ScanFields, z.then = s.then, z.header = s.header,
         z.size = s.size + (size + 3), z.headers = <<b>> \o s.headers,
         z.metadata = <<metadata>> \o s.metadata
  PROVE  ScanRight(w, z, more)
<1> DEFINE k == Len(s.headers)
<1>1. /\ w \in Seq(Cell) /\ Len(w) \in Nat /\ c \in Nat /\ s.size \in 0 .. Len(w) /\ k \in Nat
      /\ s.then = "startup" /\ s.header = 0 /\ s.headers \in Seq(Nat)
      /\ s.metadata \in Seq(Seq(Nat)) /\ Len(s.metadata) = k
      /\ \A j \in 1 .. k : /\ s.headers[j] + 2 \in HeadersOf(w)
                           /\ Number(w, s.headers[j] + 2) = Streams(w) - k + j
                           /\ Lists(w, s.headers[j] + 2, s.metadata[j])
  <2>1. w \in Seq(Cell) /\ Len(w) \in Nat /\ c \in Nat
    BY SMTT(30) DEF FileOK
  <2>2. /\ s.size \in 0 .. Len(w) /\ s.then = "startup" /\ s.header = 0 /\ s.headers \in Seq(Nat)
        /\ s.metadata \in Seq(Seq(Nat)) /\ Len(s.metadata) = k
        /\ \A j \in 1 .. k : /\ s.headers[j] + 2 \in HeadersOf(w)
                             /\ Number(w, s.headers[j] + 2) = Streams(w) - k + j
                             /\ Lists(w, s.headers[j] + 2, s.metadata[j])
    BY DEF ScanRight
  <2>3. k \in Nat
    BY <2>2
  <2>4. QED
    BY <2>1, <2>2, <2>3
<1>2. b + 2 \in HeadersOf(w) /\ Number(w, b + 2) = Streams(w) - k
  BY FooterBefore
<1>3. Streams(w) \in Nat
  BY <1>1, <1>2, HeadersCounted
<1>4. metadata \in Seq(Nat)
  BY DEF Lists
<1> HIDE DEF k
<1>5. /\ z.headers \in Seq(Nat) /\ Len(z.headers) = k + 1 /\ z.headers[1] = b
      /\ \A j \in 1 .. k : z.headers[j + 1] = s.headers[j]
  BY <1>1 DEF k
<1>6. /\ z.metadata \in Seq(Seq(Nat)) /\ Len(z.metadata) = k + 1 /\ z.metadata[1] = metadata
      /\ \A j \in 1 .. k : z.metadata[j + 1] = s.metadata[j]
  <2> DEFINE S == Seq(Nat)
             q == s.metadata
             m == z.metadata
  <2>1. q \in Seq(S) /\ Len(q) = k /\ metadata \in S /\ m = <<metadata>> \o q
    BY <1>1, <1>4
  <2> HIDE DEF S, q, m
  <2>2. /\ m \in Seq(S) /\ Len(m) = k + 1 /\ m[1] = metadata
        /\ \A j \in 1 .. k : m[j + 1] = q[j]
    BY <2>1, AtTheFront, SMTT(30)
  <2>3. QED
    BY <2>2 DEF S, q, m
<1>7. z.size \in 0 .. Len(w) /\ z.headers[1] = Len(w) - z.size
  <2>1. s.size \in Nat /\ Len(w) \in Nat /\ c \in Nat
    BY <1>1
  <2> DEFINE m == s.size
             n == z.size
  <2>2. m \in Nat /\ c = Len(w) - m - 2 /\ n = m + (size + 3)
    BY <2>1
  <2> HIDE DEF m, n
  <2>3. n \in Nat /\ b = Len(w) - n /\ n <= Len(w)
    BY <2>1, <2>2, SMTT(30)
  <2>4. QED
    BY <1>5, <2>1, <2>3 DEF n
<1>8. ASSUME NEW j \in 1 .. k + 1
      PROVE  /\ z.headers[j] + 2 \in HeadersOf(w)
             /\ Number(w, z.headers[j] + 2) = Streams(w) - (k + 1) + j
             /\ Lists(w, z.headers[j] + 2, z.metadata[j])
  <2>1. CASE j = 1
    <3>1. z.headers[j] = b /\ z.metadata[j] = metadata
      BY <1>5, <1>6, <2>1
    <3>2. Streams(w) - k = Streams(w) - (k + 1) + j
      BY <1>1, <1>3, <2>1
    <3>3. QED
      BY <1>2, <3>1, <3>2
  <2>2. CASE j # 1
    <3> DEFINE i == j - 1
    <3>1. i \in 1 .. k /\ i + 1 = j
      BY <1>1, <2>2
    <3>2. Streams(w) - k + i = Streams(w) - (k + 1) + j
      BY <1>1, <1>3
    <3> HIDE DEF i
    <3>3. z.headers[j] = s.headers[i] /\ z.metadata[j] = s.metadata[i]
      BY <1>5, <1>6, <3>1
    <3>4. QED
      BY <1>1, <3>1, <3>2, <3>3
  <2>3. QED
    BY <2>1, <2>2
<1>9. z.then = "startup" /\ z.header = 0 /\ DOMAIN z = ScanFields /\ k + 1 # 0
  BY <1>1
<1>10. PoolSound(w, z.headers[1] + 2, more)
  BY <1>5
<1>11. QED
  BY <1>5, <1>6, <1>7, <1>8, <1>9, <1>10 DEF ScanRight

LEMMA ScanFooterRight ==
  ASSUME Reader(file, is, log), FileOK(file), ScanFooter
  PROVE  Reader(file, is', log')
<1> DEFINE s == is.scan
           fo == FooterAt(s)
           c == fo + 1
           f == file[fo + 1].body
           b == Base(s)
           protos == [n \in DOMAIN f.protoclass_offsets |-> FirstFrom(b + f.protoclass_offsets[n])]
           offsets == [n \in DOMAIN f.metadata_offsets |-> b + f.metadata_offsets[n]]
           metadata == [n \in DOMAIN offsets |-> FirstFrom(offsets[n])]
           header == FirstFrom(b + MagicLen)
           pool == PoolOf(protos)
           y == [is EXCEPT !.pool = pool,
                           !.scan.size = @ + f.size + MagicLen + FooterSizeLen + FooterLen,
                           !.scan.headers = <<b>> \o @,
                           !.scan.forward = Append(@, file[header].body.metadata_refers_forward),
                           !.scan.metadata = <<metadata>> \o @,
                           !.scan.offsets = <<offsets>> \o @]
           z == y.scan
<1>1. Scanning /\ log' = log /\ FooterFound(s)
      /\ is' \in {Fatal(is, "assert proto"), Fatal(is, "Unregistered class_id"), y}
  BY Zenon DEF ScanFooter, ScanOnce
<1>2. /\ is.started /\ is.good /\ is.status = "ok" /\ DOMAIN is = Fields /\ AllRight(file, log)
      /\ Calling(is) /\ At(file, is, 2) /\ Searching(file, is, 2) /\ HandedUpTo(file, log, 3)
      /\ Known(file, is)
  BY <1>1, ScanningReader
<1>3. Reader(file, Fatal(is, "assert proto"), log) /\ Reader(file, Fatal(is, "Unregistered class_id"), log)
  BY <1>2, Aborted DEF Calling
<1>4. ScanRight(file, s, is.pool)
  BY <1>2 DEF Searching
<1>5. /\ file \in Seq(Cell) /\ Len(file) \in Nat /\ DOMAIN file = 1 .. Len(file)
      /\ s.size \in 0 .. Len(file) /\ DOMAIN s = ScanFields
  BY <1>4 DEF FileOK, ScanRight
<1>6. /\ fo = Len(file) - s.size - 3 /\ fo \in Nat /\ c \in DOMAIN file /\ c + 1 \in DOMAIN file
      /\ file[c + 1].kind = "FooterSize" /\ c = Len(file) - s.size - 2 /\ b = fo - f.size
  <2>1. fo = Len(file) - s.size - 3 /\ fo >= 0
    <3>1. fo = Len(file) - s.size - 1 - 1 - 1
      BY DEF FooterAt, FileEnd, ByteCount, MagicLen, FooterSizeLen, FooterLen
    <3>2. fo >= 0
      BY <1>1 DEF FooterFound
    <3> HIDE DEF fo
    <3>3. Len(file) \in Nat /\ s.size \in Nat
      BY <1>5
    <3>4. QED
      BY <3>1, <3>2, <3>3, SMTT(30)
  <2>2. b = fo - f.size
    BY SMTT(30) DEF Base
  <2>3. file[fo + 1 + 1].kind = "FooterSize"
    BY <1>1 DEF FooterFound, FooterLen
  <2> HIDE DEF fo
  <2>4. fo \in Nat /\ c \in DOMAIN file /\ c + 1 \in DOMAIN file /\ c = Len(file) - s.size - 2
    <3>1. Len(file) \in Nat /\ s.size \in Nat
      BY <1>5
    <3> DEFINE n == s.size
               k == Len(file)
    <3>2. n \in Nat /\ k \in Nat /\ fo = k - n - 3 /\ fo >= 0
      BY <2>1, <3>1
    <3> HIDE DEF n, k
    <3>3. fo \in Nat /\ fo + 1 + 1 \in 1 .. k /\ fo + 1 \in 1 .. k /\ fo + 1 = k - n - 2
      BY <3>2
    <3>4. QED
      BY <1>5, <3>3 DEF n, k
  <2> HIDE DEF b
  <2>5. QED
    BY <2>1, <2>2, <2>3, <2>4
<1>7. FooterGood(file, c)
  <2> HIDE DEF fo
  <2>1. file[(c + 1) - 1].kind = "message" /\ HasId(file[(c + 1) - 1], StreamFooterId)
    BY <1>6 DEF FileOK, HasId
  <2>2. (c + 1) - 1 = c
    BY <1>6
  <2>3. QED
    BY <1>6, <2>1, <2>2 DEF FileOK
<1> HIDE DEF fo, b, f
<1>8. /\ f.size \in 0 .. c - 1 /\ b = c - 1 - f.size /\ b \in Nat
      /\ f.metadata_offsets \in Seq(Nat) /\ f.protoclass_offsets \in Seq(Nat)
      /\ InStreamOf(file, b + 2, c)
      /\ Places(file, Moved(b, f.metadata_offsets), MetadataIn(file, b + 2))
      /\ Places(file, Moved(b, f.protoclass_offsets), ProtoClassesIn(file, b + 2))
  <2>1. b = c - 1 - f.size
    BY <1>6, <1>7 DEF FooterGood, f
  <2>2. /\ f.size \in 0 .. c - 1
        /\ f.metadata_offsets \in Seq(Nat) /\ f.protoclass_offsets \in Seq(Nat)
        /\ InStreamOf(file, b + 2, c)
        /\ Places(file, Moved(b, f.metadata_offsets), MetadataIn(file, b + 2))
        /\ Places(file, Moved(b, f.protoclass_offsets), ProtoClassesIn(file, b + 2))
    BY <1>7, <2>1 DEF FooterGood, f
  <2>3. b \in Nat
    <3>1. c \in Nat /\ f.size \in 0 .. c - 1
      BY <1>6, <2>2, SMTT(30)
    <3> DEFINE n == f.size
    <3>2. b = c - 1 - n /\ n \in 0 .. c - 1
      BY <2>1, <3>1
    <3> HIDE DEF c, n
    <3>3. n \in Nat /\ n <= c - 1
      BY <3>1, <3>2
    <3>4. QED
      BY <3>1, <3>2, <3>3
  <2>4. QED
    BY <2>1, <2>2, <2>3, SMTT(30)
<1>9. ASSUME NEW o \in Seq(Nat) PROVE Moved(b, o) \in Seq(Nat) /\ DOMAIN Moved(b, o) = DOMAIN o
  <2>1. Moved(b, o) \in [1 .. Len(o) -> Nat] /\ Len(o) \in Nat
    BY <1>8, <1>9 DEF Moved
  <2>2. QED
    BY <2>1, SeqDef DEF Moved
<1>10. Lists(file, b + 2, metadata)
  <2>1. offsets = Moved(b, f.metadata_offsets) /\ offsets \in Seq(Nat)
    BY <1>8, <1>9 DEF Moved
  <2>2. \A i \in MetadataIn(file, b + 2) :
           i \in DOMAIN file /\ IsMessage(file[i]) /\ file[i].id \notin CompressionIds
    BY DEF MetadataIn, IsMetadata, IsUserMessage, IsMessage, FixedIds, CompressionIds
  <2>3. Places(file, offsets, MetadataIn(file, b + 2))
    BY <1>8, <2>1
  <2> HIDE DEF offsets
  <2>4. /\ metadata \in Seq(Nat)
        /\ \A n \in DOMAIN metadata : metadata[n] \in MetadataIn(file, b + 2)
        /\ \A i \in MetadataIn(file, b + 2) : \E n \in DOMAIN metadata : metadata[n] = i
        /\ \A m, n \in DOMAIN metadata : m < n => metadata[m] < metadata[n]
    BY <2>1, <2>2, <2>3, FoundInOrder
  <2>5. QED
    BY <2>4 DEF Lists
<1>11. PoolSound(file, b + 2, pool)
  <2> DEFINE o == Moved(b, f.protoclass_offsets)
             found == [n \in DOMAIN o |-> FirstFrom(o[n])]
  <2>1. o \in Seq(Nat) /\ Places(file, o, ProtoClassesIn(file, b + 2))
    BY <1>8, <1>9
  <2>2. \A i \in ProtoClassesIn(file, b + 2) :
           i \in DOMAIN file /\ IsMessage(file[i]) /\ file[i].id \notin CompressionIds
    BY FixedIdsDiffer DEF ProtoClassesIn, IsProtoClass, HasId, IsMessage
  <2>3. protos = found
    BY <1>8, <1>9 DEF Moved
  <2> HIDE DEF o, protos
  <2>4. found \in Seq(Nat) /\ \A n \in DOMAIN found : found[n] \in ProtoClassesIn(file, b + 2)
    BY <2>1, <2>2, FoundInOrder
  <2> HIDE DEF found
  <2>5. PoolSound(file, b + 2, PoolOf(protos))
    BY <2>3, <2>4, PoolOfSound
  <2>6. QED
    BY <2>5
<1> HIDE DEF pool, metadata, offsets, header, protos
<1>12. /\ DOMAIN y = Fields /\ y.pool = pool /\ y.pos = is.pos /\ y.pickup = is.pickup
       /\ y.forward = is.forward /\ y.header_index = is.header_index
       /\ y.discovered = is.discovered /\ y.current = is.current
       /\ y.do_reset_metadata = is.do_reset_metadata /\ y.call = is.call
       /\ y.metadata_per_header = is.metadata_per_header /\ y.started = is.started
       /\ y.good = is.good /\ y.status = is.status
  BY <1>2, Zenon DEF Fields
<1>13. /\ DOMAIN z = ScanFields /\ z.then = s.then /\ z.header = s.header
       /\ z.size = s.size + (f.size + 3)
       /\ z.headers = <<b>> \o s.headers /\ z.metadata = <<metadata>> \o s.metadata
  <2>1. z = [s EXCEPT !.size = @ + f.size + MagicLen + FooterSizeLen + FooterLen,
                      !.headers = <<b>> \o @,
                      !.forward = Append(@, file[header].body.metadata_refers_forward),
                      !.metadata = <<metadata>> \o @,
                      !.offsets = <<offsets>> \o @]
    BY <1>2, <1>5 DEF Fields, ScanFields
  <2> HIDE DEF y, z, s
  <2>2. /\ DOMAIN z = ScanFields /\ z.then = s.then /\ z.header = s.header
        /\ z.size = s.size + f.size + MagicLen + FooterSizeLen + FooterLen
        /\ z.headers = <<b>> \o s.headers /\ z.metadata = <<metadata>> \o s.metadata
    BY <1>5, <2>1 DEF ScanFields
  <2>3. s.size + f.size + MagicLen + FooterSizeLen + FooterLen = s.size + (f.size + 3)
    <3>1. s.size \in Nat /\ f.size \in Nat
      BY <1>5, <1>6, <1>8
    <3>2. QED
      BY <3>1 DEF MagicLen, FooterSizeLen, FooterLen
  <2>4. QED
    BY <2>2, <2>3
<1>14. ScanRight(file, y.scan, y.pool)
  <2>1. f.size \in Nat
    BY <1>6, <1>8
  <2> HIDE DEF y, z, s, c
  <2>2. ScanRight(file, z, pool)
    BY <1>4, <1>6, <1>8, <1>10, <1>11, <1>13, <2>1, OneMoreFound
  <2>3. QED
    BY <1>12, <2>2 DEF z
<1> HIDE DEF y, s
<1>15. At(file, y, 2)
  BY <1>2, <1>12 DEF At
<1>16. Searching(file, y, 2)
  BY <1>2, <1>12, <1>14 DEF Searching
<1>17. Known(file, y) /\ Calling(y)
  BY <1>2, <1>12 DEF Known, Calling
<1>18. Coming(y) = 3
  BY <1>2, <1>12 DEF Searching, Coming
<1>19. 2 \in HeadersOf(file)
  BY <1>15 DEF At
<1>20. Busy(file, y, log)
  BY <1>2, <1>15, <1>16, <1>18, <1>19 DEF Busy
<1>21. Reader(file, y, log)
  BY <1>2, <1>12, <1>17, <1>20 DEF Reader, Place
<1>22. QED
  BY <1>1, <1>3, <1>21, Zenon
-----------------------------------------------------------------------------
(* Every step of the reader, and every step of all                          *)

LEMMA SkipsNothing ==
  ASSUME ClientReads, Reader(file, is, log)
  PROVE  ~SkipToNextMetadata
BY DEF ClientReads, Reader, Calling, SkipToNextMetadata

LEMMA ReaderStepRight ==
  ASSUME ClientReads, Reader(file, is, log), FileOK(file), DirectionsOK(file), ReaderNext
  PROVE  Reader(file, is', log')
<1>1. CASE ReadMessage
  BY <1>1, ReadSectionRight, ReadFooterRight, ReadProtoClassRight, ReadMetadataRight,
     ReadEventRight, ReadNothingRight, ReadGarbageRight
     DEF ReadMessage, ReadSection, ReadFooter, ReadProtoClass
<1>2. CASE Startup \/ ScanFooter \/ ScanDone \/ ScanFails
  BY <1>2, StartupRight, ScanFooterRight, ScanDoneRight, ScanFailsRight
<1>3. CASE AllMetadata \/ NewMetadata \/ TryRead
  BY <1>3, AnswerRight, TryReadRight
<1>4. CASE \E c \in Calls : Call(c)
  BY <1>4, CallRight
<1>5. QED
  BY <1>1, <1>2, <1>3, <1>4, SkipsNothing DEF ReaderNext, ReaderStep

\* A reader nothing was asked of yet, on whatever file
LEMMA NewReaderRight ==
  ASSUME ReaderInit, NEW w
  PROVE  Reader(w, is, log)
<1>1. PICK seekable : is = NewReader(seekable)
  BY DEF ReaderInit
<1>2. log.all = << >> /\ log.events = << >>
  BY DEF ReaderInit
<1>3. /\ DOMAIN is = Fields /\ ~is.discovered /\ is.call = "none" /\ is.pickup = None
      /\ ~is.do_reset_metadata /\ ~is.started /\ is.pos = 0 /\ is.scan = NoScan /\ is.good
      /\ ~is.error /\ is.header_index = 0 /\ is.metadata_per_header = << >> /\ is.current = None
  BY <1>1 DEF NewReader, Fields
<1>4. AllRight(w, log)
  BY <1>2 DEF AllRight, IsList
<1>5. QED
  BY <1>2, <1>3, <1>4 DEF Reader, Known, Calling, Place, Fresh

RTInv == WrittenRight /\ ReaderInv /\ (phase = "write" => ReaderInit)

LEMMA RTInitRight ==
  ASSUME WritersWork, RTInit
  PROVE  RTInv
<1>1. file = << >> /\ os = NewStream(TRUE, 0, 1) /\ ReaderInit
  BY DEF RTInit, Init, WritersWork
<1>2. FileInv(os) /\ ~os.opened /\ DOMAIN os.class_id = {}
  BY <1>1, NewStreamRight
<1>3. FileOK(file) /\ DirectionsOK(file)
  <2>1. DOMAIN file = {} /\ file \in Seq(Cell)
    BY <1>1
  <2>2. QED
    BY <2>1 DEF FileOK, DirectionsOK, HeadersOf
<1>4. WrittenRight
  <2>1. DOMAIN file = {}
    BY <1>1
  <2>2. QED
    BY <1>2, <1>3, <2>1 DEF WrittenRight, DirectionAllowed
<1>5. QED
  BY <1>1, <1>4, NewReaderRight DEF RTInv, ReaderInv

LEMMA RTNextRight ==
  ASSUME WritersWork, ClientReads, ~MixedDirections, RTInv, [RTNext]_rtvars
  PROVE  RTInv'
<1>1. CASE UNCHANGED rtvars
  <2>1. os' = os /\ file' = file /\ is' = is /\ log' = log /\ phase' = phase
    BY <1>1 DEF rtvars
  <2>2. WrittenRight'
    BY <2>1 DEF RTInv, WrittenRight, DirectionAllowed, Headers
  <2>3. Reader(file', is', log')
    BY <2>1 DEF RTInv, ReaderInv
  <2>4. phase' = "write" => ReaderInit'
    BY <2>1 DEF RTInv, ReaderInit
  <2>5. QED
    BY <2>2, <2>3, <2>4 DEF RTInv, ReaderInv
<1>2. CASE WriterStep \/ AppendStream \/ Crash \/ StartReading
  <2>1. is' = is /\ log' = log /\ phase = "write"
    BY <1>2 DEF WriterStep, AppendStream, Crash, StartReading
  <2>2. WrittenRight'
    BY <1>2, WrittenStep DEF RTInv
  <2>3. ReaderInit
    BY <2>1 DEF RTInv
  <2>4. Reader(file', is, log)
    BY <2>3, NewReaderRight
  <2>5. Reader(file', is', log')
    BY <2>1, <2>4
  <2>6. ReaderInit'
    BY <2>1, <2>3 DEF ReaderInit
  <2>7. QED
    BY <2>2, <2>5, <2>6 DEF RTInv, ReaderInv
<1>3. CASE Read
  <2>1. ReaderNext /\ os' = os /\ phase' = phase /\ phase = "read"
    BY <1>3, SMTT(30) DEF Read
  <2>2. file' = file
    BY <2>1 DEF ReaderNext, ReaderStep, Startup, ScanFooter, ScanDone, ScanFails,
                SkipToNextMetadata, AllMetadata, NewMetadata, TryRead, ReadMessage, ReadSection,
                ReadFooter, ReadProtoClass, ReadMetadata, ReadEvent, ReadNothing, ReadGarbage, Call
  <2>3. WrittenRight'
    BY <2>1, <2>2 DEF RTInv, WrittenRight, DirectionAllowed, Headers
  <2>4. Reader(file, is', log')
    BY <2>1, ReaderStepRight DEF RTInv, WrittenRight, ReaderInv
  <2>5. Reader(file', is', log')
    BY <2>2, <2>4
  <2>6. QED
    BY <2>1, <2>3, <2>5 DEF RTInv, ReaderInv
<1>4. QED
  BY <1>1, <1>2, <1>3 DEF RTNext

\* Nothing but the fairness of RTSpec is left out.
LEMMA RTInvariant ==
  ASSUME WritersWork, ClientReads, ~MixedDirections
  PROVE  RTSafety => []RTInv
<1>1. RTInit => RTInv
  BY RTInitRight
<1>2. RTInv /\ [RTNext]_rtvars => RTInv'
  BY RTNextRight
<1>3. QED
  BY <1>1, <1>2, PTL DEF RTSafety

\* Discovery - the scan of a file from its end - finds for every stream of a complete
\* or cut file exactly the metadata messages of that stream, in their order.
THEOREM DiscoveryIsExact ==
    WritersWork /\ ClientReads /\ ~MixedDirections /\ RTSpec => []DiscoveryExact
<1> SUFFICES ASSUME WritersWork, ClientReads, ~MixedDirections
             PROVE  RTSpec => []DiscoveryExact
  OBVIOUS
<1>1. RTInv => DiscoveryExact
  <2> SUFFICES ASSUME RTInv, is.discovered PROVE DiscoveryExact
    BY DEF DiscoveryExact
  <2>1. FileOK(file) /\ Known(file, is) /\ file \in Seq(Cell)
    BY DEF RTInv, WrittenRight, ReaderInv, Reader, FileOK
  <2>2. /\ Len(is.metadata_per_header) = Streams(file)
        /\ \A h \in HeadersOf(file) : Lists(file, h, is.metadata_per_header[Number(file, h)])
    BY <2>1 DEF Known
  <2>3. Headers = HeadersOf(file)
    BY DEF Headers, HeadersOf
  <2>4. ASSUME NEW h \in HeadersOf(file)
        PROVE  StreamOfHeader(h) = MetadataIn(file, h)
    <3>1. h \in Nat /\ h \in DOMAIN file /\ HasId(file[h], StreamHeaderId)
      BY <2>1 DEF HeadersOf
    <3>2. ASSUME NEW i \in DOMAIN file, IsMetadata(file[i])
          PROVE  InStreamOf(file, h, i) <=> i > h /\ \A k \in HeadersOf(file) : k > h => i < k
      <4>1. i \in Nat /\ DOMAIN file = 1 .. Len(file) /\ Len(file) \in Nat
        BY <2>1
      <4>2. ASSUME InStreamOf(file, h, i)
            PROVE  i > h /\ \A k \in HeadersOf(file) : k > h => i < k
        <5>1. i > h
          BY <2>1, <3>1, <3>2, <4>2, MetadataPlaces DEF MetadataIn
        <5>2. ASSUME NEW k \in HeadersOf(file), k > h PROVE i < k
          <6>1. k \in Nat /\ HasId(file[k], StreamHeaderId)
            BY <4>1 DEF HeadersOf
          <6>2. k \notin h + 1 .. i
            BY <4>2, <6>1 DEF InStreamOf
          <6>3. QED
            BY <3>1, <4>1, <5>2, <6>1, <6>2
        <5>3. QED
          BY <5>1, <5>2
      <4>3. ASSUME i > h, \A k \in HeadersOf(file) : k > h => i < k
            PROVE  InStreamOf(file, h, i)
        <5>1. ASSUME NEW k \in h + 1 .. i, HasId(file[k], StreamHeaderId) PROVE FALSE
          <6>1. k \in HeadersOf(file) /\ k > h /\ ~(i < k)
            BY <3>1, <4>1, <5>1 DEF HeadersOf
          <6>2. QED
            BY <4>3, <6>1
        <5>2. h \in 1 .. i
          BY <3>1, <4>1, <4>3
        <5>3. QED
          BY <3>1, <5>1, <5>2 DEF InStreamOf
      <4>4. QED
        BY <4>2, <4>3
    <3>3. StreamOfHeader(h) =
            {i \in DOMAIN file : IsMetadata(file[i]) /\ i > h /\ \A k \in HeadersOf(file) : k > h => i < k}
      BY <2>3 DEF StreamOfHeader, MetadataCells
    <3>4. QED
      BY <3>2, <3>3 DEF MetadataIn
  <2>5. ASSUME NEW h \in Headers
        PROVE  LET found == is.metadata_per_header[Cardinality({k \in Headers : k <= h})] IN
               /\ {found[n] : n \in DOMAIN found} = StreamOfHeader(h)
               /\ \A m, n \in DOMAIN found : m < n => found[m] < found[n]
    <3> DEFINE found == is.metadata_per_header[Number(file, h)]
    <3>1. Lists(file, h, found) /\ StreamOfHeader(h) = MetadataIn(file, h)
      BY <2>2, <2>3, <2>4
    <3>2. Cardinality({k \in Headers : k <= h}) = Number(file, h)
      BY <2>3 DEF Number
    <3> HIDE DEF found
    <3>3. /\ {found[n] : n \in DOMAIN found} = StreamOfHeader(h)
          /\ \A m, n \in DOMAIN found : m < n => found[m] < found[n]
      BY <3>1 DEF Lists
    <3>4. QED
      BY <3>2, <3>3 DEF found
  <2>6. Len(is.metadata_per_header) = Cardinality(Headers)
    BY <2>2, <2>3 DEF Streams
  <2>7. QED
    BY <2>5, <2>6 DEF DiscoveryExact
<1>2. RTSpec => []RTInv
  BY RTInvariant, PTL DEF RTSpec, RTSafety
<1>3. QED
  BY <1>1, <1>2, PTL

\* A reader that says it came to the end of the file has handed out every event of the
\* file, and the file ends where a stream ends or, as a crash may leave it, within the
\* magic of a stream behind a complete one, of which nothing else was written: a reader
\* of a file that was cut anywhere else says that it failed.
THEOREM CutFilesAreNoticed ==
    WritersWork /\ ClientReads /\ ~MixedDirections /\ RTSpec => []CutFileIsNoticed
<1> SUFFICES ASSUME WritersWork, ClientReads, ~MixedDirections
             PROVE  RTSpec => []CutFileIsNoticed
  OBVIOUS
<1>1. RTInv => CutFileIsNoticed
  <2> SUFFICES ASSUME RTInv, ~is.good, ~is.error, is.status = "ok" PROVE CutFileIsNoticed
    BY DEF CutFileIsNoticed
  <2>1. is.started /\ Ended(file, is, log)
    BY DEF RTInv, ReaderInv, Reader, Place, Fresh
  <2>2. EndsBetweenStreams(file) /\ HandedUpTo(file, log, Len(file) + 1)
    BY <2>1 DEF Ended
  <2>3. file \in Seq(Cell)
    BY DEF RTInv, WrittenRight, FileOK
  <2>4. AllDelivered
    <3>1. ASSUME NEW i \in DOMAIN file, IsEvent(file[i])
          PROVE  \E n \in DOMAIN log.events : log.events[n].at = i
      <4>1. i < Len(file) + 1
        BY <2>3
      <4>2. QED
        BY <2>2, <3>1, <4>1 DEF HandedUpTo
    <3>2. QED
      BY <3>1 DEF AllDelivered
  <2>5. QED
    BY <2>2, <2>4 DEF CutFileIsNoticed
<1>2. RTSpec => []RTInv
  BY RTInvariant, PTL DEF RTSpec, RTSafety
<1>3. QED
  BY <1>1, <1>2, PTL
-----------------------------------------------------------------------------
(* What EventReader promises                                                *)

\* EventReader says with the same words what RoundTrip says of its file.
LEMMA SameWords ==
  /\ Abstract!StreamHeaderId = StreamHeaderId
  /\ \A c, id : Abstract!HasId(c, id) = HasId(c, id)
  /\ \A c : /\ Abstract!IsUserMessage(c) = IsUserMessage(c)
            /\ Abstract!IsMetadata(c) = IsMetadata(c)
            /\ Abstract!IsEvent(c) = IsEvent(c)
            /\ Abstract!IsCutShort(c) = IsCutShort(c)
  /\ \A S : Abstract!Max(S) = Max(S) /\ Abstract!Min(S) = Min(S)
<1>1. Abstract!StreamHeaderId = StreamHeaderId
  BY DEF Abstract!StreamHeaderId, StreamHeaderId
<1>2. \A c, id : Abstract!HasId(c, id) = HasId(c, id)
  BY DEF Abstract!HasId, HasId
<1>3. Abstract!FixedIds = FixedIds
  BY DEF Abstract!FixedIds, FixedIds, Abstract!StreamHeaderId, StreamHeaderId,
         Abstract!StreamFooterId, StreamFooterId, Abstract!StartCompressedSectionId,
         StartCompressedSectionId, Abstract!EndCompressedSectionId, EndCompressedSectionId,
         Abstract!ProtoClassId, ProtoClassId
<1>4. \A c : Abstract!IsUserMessage(c) = IsUserMessage(c)
  BY <1>3 DEF Abstract!IsUserMessage, IsUserMessage
<1>5. \A id : Abstract!IsMetadataId(id) = IsMetadataId(id)
  BY DEF Abstract!IsMetadataId, IsMetadataId
<1>6. \A c : /\ Abstract!IsMetadata(c) = IsMetadata(c) /\ Abstract!IsEvent(c) = IsEvent(c)
            /\ Abstract!IsCutShort(c) = IsCutShort(c)
  BY <1>4, <1>5 DEF Abstract!IsMetadata, IsMetadata, Abstract!IsEvent, IsEvent,
                    Abstract!IsCutShort, IsCutShort
<1>7. \A S : Abstract!Max(S) = Max(S) /\ Abstract!Min(S) = Min(S)
  BY DEF Abstract!Max, Max, Abstract!Min, Min
<1>8. QED
  BY <1>1, <1>2, <1>4, <1>6, <1>7

\* An event that is right is what EventReader delivers.
LEMMA RightIsDelivered ==
  ASSUME FileOK(file), NEW d, EventRight(file, d)
  PROVE  d = Abstract!Delivery(d.at)
<1> DEFINE i == d.at
<1>1. /\ file \in Seq(Cell) /\ i \in DOMAIN file /\ IsEvent(file[i]) /\ i \in Nat
      /\ d = [at |-> i, class |-> file[i].body.class, metadata |-> d.metadata]
  BY DEF FileOK, EventRight
<1>2. PICK h \in HeadersOf(file) : InStreamOf(file, h, i) /\ Applies(file, h, i, d.metadata)
  BY DEF EventRight
<1> HIDE DEF i
<1>3. ASSUME NEW j \in DOMAIN file, NEW k, InStreamOf(file, k, j)
      PROVE  Abstract!HeaderOf(j) = k
  <2> DEFINE S == {x \in 1 .. j : HasId(file[x], StreamHeaderId)}
  <2>1. j \in Nat /\ k \in Nat /\ k \in S /\ S \in SUBSET Int
    BY <1>1, <1>3 DEF InStreamOf
  <2>2. ASSUME NEW y \in S PROVE k >= y
    <3>1. y \in 1 .. j /\ y \notin k + 1 .. j
      BY <1>3 DEF InStreamOf
    <3>2. QED
      BY <2>1, <3>1
  <2>3. S = {x \in 1 .. j : Abstract!HasId(file[x], Abstract!StreamHeaderId)}
    BY SameWords
  <2>4. Abstract!HeaderOf(j) = Abstract!Max(S)
    BY <2>3 DEF Abstract!HeaderOf
  <2> HIDE DEF S
  <2>5. Max(S) = k
    BY <2>1, <2>2, MinMax
  <2>6. QED
    BY <2>4, <2>5, SameWords
<1>4. Abstract!HeaderOf(i) = h
  BY <1>1, <1>2, <1>3
<1>5. {j \in Abstract!StreamOf(i) : Abstract!IsMetadata(file[j])} = MetadataIn(file, h)
  <2>1. ASSUME NEW j \in DOMAIN file, IsMetadata(file[j])
        PROVE  IsUserMessage(file[j]) /\ (Abstract!HeaderOf(j) = h <=> InStreamOf(file, h, j))
    <3>1. IsUserMessage(file[j]) /\ IsMessage(file[j])
      BY <2>1 DEF IsMetadata, IsUserMessage, IsMessage
    <3>2. PICK k \in HeadersOf(file) : InStreamOf(file, k, j)
      BY <3>1, InSomeStream
    <3>3. Abstract!HeaderOf(j) = k
      BY <1>3, <3>2
    <3>4. QED
      BY <1>1, <3>1, <3>2, <3>3, OneStream
  <2>2. Abstract!StreamOf(i) = {j \in DOMAIN file : IsUserMessage(file[j]) /\ Abstract!HeaderOf(j) = h}
    BY <1>4, SameWords DEF Abstract!StreamOf
  <2>3. \A j : Abstract!IsMetadata(file[j]) = IsMetadata(file[j])
    BY SameWords
  <2>4. QED
    BY <2>1, <2>2, <2>3 DEF MetadataIn
<1>6. Abstract!Applicable(i) = d.metadata
  <2> DEFINE m == d.metadata
             before == {j \in MetadataIn(file, h) : j < i}
             after == {j \in MetadataIn(file, h) : j > i}
  <2>1. before \in SUBSET Int /\ after \in SUBSET Int
    BY <1>1 DEF MetadataIn
  <2>2. IF Refers(file, h)
        THEN IF before = {} THEN m = None ELSE m \in before /\ \A k \in before : k <= m
        ELSE IF after = {} THEN m = None ELSE m \in after /\ \A k \in after : m <= k
    BY <1>2 DEF Applies
  <2>3. Abstract!Applicable(i) =
          IF file[h].body.metadata_refers_forward
          THEN IF before = {} THEN 0 ELSE Abstract!Max(before)
          ELSE IF after = {} THEN 0 ELSE Abstract!Min(after)
    BY <1>4, <1>5 DEF Abstract!Applicable
  <2> HIDE DEF before, after, m
  <2>4. (m \in before /\ \A k \in before : k <= m) => Max(before) = m
    <3> SUFFICES ASSUME m \in before, \A k \in before : k <= m PROVE Max(before) = m
      OBVIOUS
    <3>1. \A k \in before : m >= k
      BY <2>1
    <3>2. QED
      BY <2>1, <3>1, MinMax
  <2>5. (m \in after /\ \A k \in after : m <= k) => Min(after) = m
    BY <2>1, MinMax
  <2>6. Abstract!Applicable(i) = m
    BY <2>2, <2>3, <2>4, <2>5, SameWords DEF Refers, None
  <2>7. QED
    BY <2>6 DEF m
<1>7. Abstract!Delivery(i) = [at |-> i, class |-> file[i].body.class, metadata |-> d.metadata]
  BY <1>6 DEF Abstract!Delivery
<1>8. QED
  BY <1>1, <1>7 DEF i

\* Whatever a client that does not skip is handed is right, and in the order of the file:
\* each event decoded as the class it was written as, with the metadata that applies to it.
THEOREM HandedOutIsRight ==
    WritersWork /\ ClientReads /\ ~MixedDirections /\ RTSpec => []HandedRight
<1> SUFFICES ASSUME WritersWork, ClientReads, ~MixedDirections
             PROVE  RTSpec => []HandedRight
  OBVIOUS
<1>1. RTInv => HandedRight
  <2> SUFFICES ASSUME RTInv PROVE HandedRight
    OBVIOUS
  <2>1. FileOK(file) /\ AllRight(file, log)
    BY DEF RTInv, WrittenRight, ReaderInv, Reader
  <2>2. ASSUME NEW n \in DOMAIN log.events
        PROVE  log.events[n] = Abstract!Delivery(log.events[n].at)
    BY <2>1, RightIsDelivered DEF AllRight
  <2>3. QED
    BY <2>1, <2>2 DEF HandedRight, AllRight
<1>2. RTSpec => []RTInv
  BY RTInvariant, PTL DEF RTSpec, RTSafety
<1>3. QED
  BY <1>1, <1>2, PTL

\* What is handed out is the next message of the file, and no event before it is left.
LEMMA HandedInOrder ==
  ASSUME ClientReads, Reader(file, is, log), FileOK(file), ReaderNext
  PROVE  \/ log' = log
         \/ \E d : HandOver(d) /\ d.at \in DOMAIN file /\ HandedUpTo(file, log, d.at)
<1>1. CASE ReadMetadata \/ ReadEvent
  <2>1. Readable
    BY <1>1 DEF ReadMetadata, ReadEvent
  <2>2. Incoming \in DOMAIN file /\ HandedUpTo(file, log, Incoming)
    BY <2>1, BusyReader DEF Readable, Reading, Available, Parsable, AtMessage
  <2>3. is.call \in {"next", "next_with_metadata"}
    BY <2>1, CallsThatRead DEF Readable
  <2>4. \/ log' = log
        \/ \E r : HandOver(Handed(r, Incoming))
    BY <1>1, <2>3 DEF ReadMetadata, ReadEvent
  <2>5. \A r : Handed(r, Incoming).at = Incoming
    BY DEF Handed
  <2>6. QED
    BY <2>2, <2>4, <2>5
<1>2. CASE TryRead
  <2> DEFINE i == is.pos + 1
  <2>1. Ready /\ is.call = "try_read" /\ is.started
    BY <1>2 DEF TryRead
  <2>2. is.pickup = None
    BY <2>1 DEF Reader, Calling
  <2>3. \/ log' = log
        \/ is.good /\ i \in DOMAIN file /\ HandOver(Handed(is, i))
    BY <1>2 DEF TryRead
  <2>4. is.good => HandedUpTo(file, log, i)
    <3> SUFFICES ASSUME is.good PROVE HandedUpTo(file, log, i)
      OBVIOUS
    <3>1. HandedUpTo(file, log, Incoming)
      BY <2>1, BusyReader
    <3>2. QED
      BY <2>2, <3>1 DEF Incoming
  <2>5. Handed(is, i).at = i
    BY DEF Handed
  <2> HIDE DEF i
  <2>6. QED
    BY <2>3, <2>4, <2>5
<1>3. CASE ReadSection \/ ReadFooter \/ ReadProtoClass \/ ReadNothing \/ ReadGarbage
  BY <1>3 DEF ReadSection, ReadFooter, ReadProtoClass, ReadNothing, ReadGarbage
<1>4. CASE Startup \/ ScanFooter \/ ScanDone \/ ScanFails \/ AllMetadata \/ NewMetadata
  BY <1>4 DEF Startup, ScanFooter, ScanDone, ScanFails, AllMetadata, NewMetadata
<1>5. CASE \E c \in Calls : Call(c)
  BY <1>5 DEF Call
<1>6. QED
  BY <1>1, <1>2, <1>3, <1>4, <1>5, SkipsNothing DEF ReaderNext, ReaderStep, ReadMessage

\* To hand out the next event is to deliver the least of those that are left; none of
\* those before it is cut short, since they are not the last message of the file.
LEMMA HandingDelivers ==
  ASSUME FileOK(file), NEW d, HandOver(d), IsEvent(file[d.at]), EventRight(file, d),
         HandedUpTo(file, log, d.at), file' = file, AllRight(file, log),
         \A i \in DOMAIN file : IsCutShort(file[i]) => i = Len(file)
  PROVE  Abstract!Deliver
<1> DEFINE left == {i \in Abstract!Events : \A n \in DOMAIN log.events : log.events[n].at < i}
<1>1. d.at \in DOMAIN file /\ file \in Seq(Cell) /\ d.at \in Nat
  BY DEF EventRight, FileOK
<1>2. Abstract!Events = {i \in DOMAIN file : IsEvent(file[i])}
  BY SameWords DEF Abstract!Events
<1>3. left \in SUBSET Int
  BY <1>1, <1>2
<1>4. d.at \in left
  BY <1>1, <1>2 DEF HandedUpTo
<1>5. ASSUME NEW y \in left PROVE d.at <= y
  <2>1. y \in DOMAIN file /\ IsEvent(file[y]) /\ y \in Nat
    BY <1>1, <1>2
  <2>2. ASSUME y < d.at PROVE FALSE
    <3>1. PICK n \in DOMAIN log.events : log.events[n].at = y
      BY <2>1, <2>2 DEF HandedUpTo
    <3>2. log.events[n].at < y
      OBVIOUS
    <3>3. QED
      BY <2>1, <3>1, <3>2
  <2>3. QED
    BY <1>1, <2>1, <2>2
<1>6. log'.events = Append(log.events, d)
  BY DEF HandOver
<1> HIDE DEF left
<1>7. Abstract!Min(left) = d.at /\ left # {}
  BY <1>3, <1>4, <1>5, MinMax, SameWords
<1>8. d = Abstract!Delivery(d.at)
  BY RightIsDelivered
<1>9. log'.events = Append(log.events, Abstract!Delivery(Abstract!Min(left)))
  BY <1>6, <1>7, <1>8
<1>10. \A n \in DOMAIN log.events : ~Abstract!IsCutShort(file[log.events[n].at])
  <2>1. SUFFICES ASSUME NEW n \in DOMAIN log.events PROVE ~IsCutShort(file[log.events[n].at])
    BY SameWords
  <2>2. log.events[n].at \in DOMAIN file /\ log.events[n].at \in 0 .. d.at - 1
    BY DEF AllRight, EventRight, HandedUpTo
  <2>3. log.events[n].at # Len(file)
    BY <1>1, <2>2
  <2>4. QED
    BY <2>2, <2>3
<1>11. QED
  BY <1>7, <1>9, <1>10 DEF Abstract!Deliver, left

LEMMA StepDelivers ==
  ASSUME ClientReads, RTInv, RTInv', [RTNext]_rtvars
  PROVE  [Abstract!WriteFile \/ Abstract!Deliver]_<<file, log.events>>
<1>1. CASE UNCHANGED rtvars
  BY <1>1 DEF rtvars
<1>2. CASE WriterStep \/ AppendStream \/ Crash \/ StartReading
  <2>1. log' = log /\ phase = "write"
    BY <1>2 DEF WriterStep, AppendStream, Crash, StartReading
  <2>2. log.events = << >> /\ log'.events = log.events
    BY <2>1 DEF RTInv, ReaderInit
  <2>3. QED
    BY <2>2 DEF Abstract!WriteFile
<1>3. CASE Read
  <2>1. /\ ReaderNext /\ FileOK(file) /\ Reader(file, is, log)
        /\ AllRight(file', log') /\ AllRight(file, log)
        /\ \A i \in DOMAIN file : IsCutShort(file[i]) => i = Len(file)
    BY <1>3, SMTT(30) DEF Read, RTInv, WrittenRight, ReaderInv, Reader
  <2>2. file' = file
    BY <2>1 DEF ReaderNext, ReaderStep, Startup, ScanFooter, ScanDone, ScanFails,
                SkipToNextMetadata, AllMetadata, NewMetadata, TryRead, ReadMessage, ReadSection,
                ReadFooter, ReadProtoClass, ReadMetadata, ReadEvent, ReadNothing, ReadGarbage, Call
  <2>3. CASE log' = log
    BY <2>2, <2>3
  <2>4. ASSUME NEW d, HandOver(d), d.at \in DOMAIN file, HandedUpTo(file, log, d.at)
        PROVE  [Abstract!WriteFile \/ Abstract!Deliver]_<<file, log.events>>
    <3>1. CASE IsEvent(file[d.at])
      <4>1. log'.events = Append(log.events, d)
        BY <2>4, <3>1 DEF HandOver
      <4>2. /\ DOMAIN Append(log.events, d) = 1 .. Len(log.events) + 1 /\ Len(log.events) \in Nat
            /\ Append(log.events, d)[Len(log.events) + 1] = d
        BY <2>1, AppendList DEF Reader, AllRight
      <4>3. EventRight(file, d)
        BY <2>1, <2>2, <4>1, <4>2 DEF AllRight
      <4>4. QED
        BY <2>1, <2>2, <2>4, <3>1, <4>3, HandingDelivers
    <3>2. CASE ~IsEvent(file[d.at])
      <4>1. log'.events = log.events
        BY <2>4, <3>2 DEF HandOver
      <4>2. QED
        BY <2>2, <4>1
    <3>3. QED
      BY <3>1, <3>2
  <2>5. QED
    BY <2>1, <2>3, <2>4, HandedInOrder DEF ClientReads
<1>4. QED
  BY <1>1, <1>2, <1>3 DEF RTNext

\* A reader is an EventReader: across sections, streams, directions of metadata, cut files
\* and whatever else the client asks in between, it hands out the events of the file one
\* by one in order, none left out and none twice, as EventReader promises.  What is left
\* of an event at the end of a cut file may be the last of them, and nothing else is ever
\* handed out that is not a whole event as it was written.
THEOREM ReaderImplementsEventReader ==
    WritersWork /\ ClientReads /\ ~MixedDirections /\ RTSpec => ImplementsEventReader
<1> SUFFICES ASSUME WritersWork, ClientReads, ~MixedDirections
             PROVE  RTSpec => ImplementsEventReader
  OBVIOUS
<1>1. RTInit => Abstract!AbstractInit
  BY DEF RTInit, ReaderInit, Abstract!AbstractInit
<1>2. RTInv /\ RTInv' /\ [RTNext]_rtvars
        => [Abstract!WriteFile \/ Abstract!Deliver]_<<file, log.events>>
  BY StepDelivers
<1>3. RTSpec => []RTInv
  BY RTInvariant, PTL DEF RTSpec, RTSafety
<1>4. QED
  BY <1>1, <1>2, <1>3, PTL DEF RTSpec, ImplementsEventReader, Abstract!AbstractSpec
=============================================================================
