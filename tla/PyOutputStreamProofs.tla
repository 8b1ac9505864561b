------------------------ MODULE PyOutputStreamProofs ------------------------
(***************************************************************************)
(* What is proved of the Python writer, and of the file that it leaves to  *)
(* a reader.                                                               *)
(***************************************************************************)
EXTENDS PyRoundTrip, Recursion, FiniteSetTheorems
-----------------------------------------------------------------------------
(* The files behind a class                                                 *)

\* A file and what is written of the files it imports
WithImports(f, written) ==
    <<f>> \o FlattenSeq([i \in DOMAIN Dependencies[f] |-> written[Dependencies[f][i]]])

\* descriptors, on a set of files that is closed under imports
Partial(S) == {d \in [S -> Seq(File)] : \A f \in S : d[f] = WithImports(f, d)}

LEMMA ImportsAreFiles ==
  ASSUME NEW f \in File
  PROVE  /\ Dependencies[f] \in Seq(File)
         /\ Imports(f) \in SUBSET File
         /\ \A i \in DOMAIN Dependencies[f] : Dependencies[f][i] \in Imports(f)
<1>1. Dependencies[f] \in Seq(File)
  BY ProtoFilesAssumption
<1>2. QED
  BY <1>1 DEF Imports, ToSet

LEMMA WithImportsIs ==
  ASSUME NEW f \in File, NEW S, Imports(f) \subseteq S, NEW d \in [S -> Seq(File)]
  PROVE  WithImports(f, d) \in Seq(File)
<1> DEFINE ss == [i \in DOMAIN Dependencies[f] |-> d[Dependencies[f][i]]]
<1>1. Len(Dependencies[f]) \in Nat /\ DOMAIN Dependencies[f] = 1 .. Len(Dependencies[f])
  BY ImportsAreFiles
<1>2. \A i \in DOMAIN Dependencies[f] : d[Dependencies[f][i]] \in Seq(File)
  BY ImportsAreFiles
<1>3. ss \in Seq(Seq(File))
  BY <1>1, <1>2
<1> HIDE DEF ss
<1>4. FlattenSeq(ss) \in Seq(File)
  BY <1>3, FlattenSteps, FlattenAppend
<1>5. <<f>> \in Seq(File)
  OBVIOUS
<1>6. <<f>> \o FlattenSeq(ss) \in Seq(File)
  BY <1>4, <1>5
<1>7. QED
  BY <1>6 DEF WithImports, ss

LEMMA WithImportsSame ==
  ASSUME NEW f \in File, NEW d, NEW e, \A x \in Imports(f) : d[x] = e[x]
  PROVE  WithImports(f, d) = WithImports(f, e)
<1>1. \A i \in DOMAIN Dependencies[f] : d[Dependencies[f][i]] = e[Dependencies[f][i]]
  BY ImportsAreFiles
<1>2. [i \in DOMAIN Dependencies[f] |-> d[Dependencies[f][i]]]
        = [i \in DOMAIN Dependencies[f] |-> e[Dependencies[f][i]]]
  BY <1>1
<1>3. QED
  BY <1>2 DEF WithImports

LEMMA PartialSame ==
  ASSUME NEW S \in SUBSET File, NEW T \in SUBSET File, Closed(S), Closed(T),
         NEW d \in Partial(S), NEW e \in Partial(T), NEW x \in S \cap T
  PROVE  d[x] = e[x]
<1> DEFINE bad == {y \in S \cap T : d[y] # e[y]}
<1>1. SUFFICES ASSUME bad # {} PROVE FALSE
  OBVIOUS
<1>2. bad \in SUBSET File
  OBVIOUS
<1>3. PICK f \in bad : Imports(f) \cap bad = {}
  <2> HIDE DEF bad
  <2>1. QED
    BY <1>1, <1>2, ProtoFilesAssumption DEF Imports
<1>4. f \in File /\ f \in S /\ f \in T /\ d[f] # e[f]
  OBVIOUS
<1>5. Imports(f) \subseteq S \cap T
  BY <1>4 DEF Closed
<1>6. \A y \in Imports(f) : d[y] = e[y]
  BY <1>3, <1>5
<1>7. WithImports(f, d) = WithImports(f, e)
  BY <1>4, <1>6, WithImportsSame
<1>8. d[f] = WithImports(f, d) /\ e[f] = WithImports(f, e)
  BY <1>4 DEF Partial
<1>9. QED
  BY <1>4, <1>7, <1>8

LEMMA PartialAll == Partial(File) # {}
<1> DEFINE Found(x) == {S \in SUBSET File : x \in S /\ Closed(S) /\ Partial(S) # {}}
           good == {x \in File : Found(x) # {}}
           At(x) == CHOOSE S : S \in Found(x)
           Of(x) == CHOOSE d : d \in Partial(At(x))
           total == [x \in good |-> Of(x)[x]]
<1>1. ASSUME NEW x \in good
      PROVE  /\ At(x) \in SUBSET File /\ x \in At(x) /\ Closed(At(x)) /\ Of(x) \in Partial(At(x))
             /\ At(x) \subseteq good
  <2>1. At(x) \in Found(x)
    OBVIOUS
  <2>2. Of(x) \in Partial(At(x))
    BY <2>1
  <2>3. ASSUME NEW y \in At(x) PROVE y \in good
    <3>1. At(x) \in Found(y) /\ y \in File
      BY <2>1
    <3>2. QED
      BY <3>1
  <2>4. QED
    BY <2>1, <2>2, <2>3
<1>2. good \in SUBSET File
  OBVIOUS
<1>3. \A x \in good : total[x] = Of(x)[x]
  OBVIOUS
<1>4. total = [x \in good |-> total[x]]
  OBVIOUS
<1> HIDE DEF At, Of, good, total
<1>5. ASSUME NEW x \in good, NEW y \in At(x) PROVE total[y] = Of(x)[y]
  <2>1. y \in good /\ y \in At(x) \cap At(y) /\ total[y] = Of(y)[y]
    BY <1>1, <1>3
  <2>2. Of(x)[y] = Of(y)[y]
    BY <1>1, <2>1, PartialSame
  <2>3. QED
    BY <2>1, <2>2
<1>6. Closed(good)
  <2>1. ASSUME NEW x \in good PROVE Imports(x) \subseteq good
    BY <1>1 DEF Closed
  <2>2. QED
    BY <2>1 DEF Closed
<1>7. total \in Partial(good)
  <2>1. ASSUME NEW x \in good PROVE total[x] \in Seq(File) /\ total[x] = WithImports(x, total)
    <3>1. Of(x)[x] \in Seq(File) /\ Of(x)[x] = WithImports(x, Of(x))
      BY <1>1 DEF Partial
    <3>2. \A y \in Imports(x) : Of(x)[y] = total[y]
      BY <1>1, <1>5 DEF Closed
    <3>3. WithImports(x, Of(x)) = WithImports(x, total)
      BY <1>2, <3>2, WithImportsSame
    <3>4. QED
      BY <1>3, <3>1, <3>3
  <2>2. total \in [good -> Seq(File)]
    BY <1>4, <2>1
  <2>3. QED
    BY <2>1, <2>2 DEF Partial
<1>8. good = File
  <2>1. SUFFICES ASSUME File \ good # {} PROVE FALSE
    BY <1>2
  <2>2. PICK f \in File \ good : Imports(f) \cap (File \ good) = {}
    BY <2>1, ProtoFilesAssumption DEF Imports
  <2>3. Imports(f) \subseteq good
    BY <2>2, ImportsAreFiles
  <2> DEFINE S == good \cup {f}
             e == [x \in S |-> IF x = f THEN WithImports(f, total) ELSE total[x]]
  <2>4. WithImports(f, total) \in Seq(File)
    BY <1>7, <2>3, WithImportsIs DEF Partial
  <2>5. e \in [S -> Seq(File)]
    BY <1>7, <2>4 DEF Partial
  <2>6. /\ e[f] = WithImports(f, total)
        /\ \A x \in good : e[x] = total[x]
    BY <2>2
  <2> HIDE DEF e
  <2>7. ASSUME NEW x \in S PROVE e[x] = WithImports(x, e)
    <3>1. CASE x = f
      <4>1. WithImports(f, total) = WithImports(f, e)
        BY <2>3, <2>6, WithImportsSame
      <4>2. QED
        BY <2>6, <3>1, <4>1
    <3>2. CASE x \in good
      <4>1. \A y \in Imports(x) : total[y] = e[y]
        BY <1>6, <2>6, <3>2 DEF Closed
      <4>2. WithImports(x, total) = WithImports(x, e)
        BY <1>2, <3>2, <4>1, WithImportsSame
      <4>3. QED
        BY <1>7, <2>6, <3>2, <4>2 DEF Partial
    <3>3. QED
      BY <3>1, <3>2
  <2>8. e \in Partial(S)
    BY <2>5, <2>7 DEF Partial
  <2>9. Closed(S) /\ S \in SUBSET File
    BY <1>2, <1>6, <2>2, <2>3 DEF Closed
  <2>10. S \in Found(f)
    BY <2>8, <2>9
  <2>11. QED
    BY <2>2, <2>10 DEF good
<1>9. QED
  BY <1>7, <1>8

\* descriptors is what its definition says.
LEMMA DescriptorsAre ==
  /\ descriptors \in [File -> Seq(File)]
  /\ \A f \in File : descriptors[f] = WithImports(f, descriptors)
<1> DEFINE d == CHOOSE g : g = [f \in File |-> WithImports(f, g)]
<1>1. PICK e \in Partial(File) : TRUE
  BY PartialAll
<1>2. e = [f \in File |-> WithImports(f, e)]
  BY <1>1 DEF Partial
<1>3. d = [f \in File |-> WithImports(f, d)]
  BY <1>2
<1>4. descriptors = d
  BY DEF descriptors, WithImports
<1> HIDE DEF d
<1>5. \A f \in File : d[f] = WithImports(f, d)
  BY <1>3
<1>6. d = e
  <2> DEFINE bad == {f \in File : d[f] # e[f]}
  <2>1. bad = {}
    <3>1. SUFFICES ASSUME bad # {} PROVE FALSE
      OBVIOUS
    <3>2. PICK f \in bad : Imports(f) \cap bad = {}
      <4>1. bad \in SUBSET File
        OBVIOUS
      <4> HIDE DEF bad
      <4>2. QED
        BY <3>1, <4>1, ProtoFilesAssumption DEF Imports
    <3>3. f \in File /\ \A x \in Imports(f) : d[x] = e[x]
      BY <3>2, ImportsAreFiles
    <3>4. WithImports(f, d) = WithImports(f, e)
      BY <3>3, WithImportsSame
    <3>5. QED
      BY <1>1, <1>5, <3>3, <3>4 DEF Partial
  <2>2. \A f \in File : d[f] = e[f]
    BY <2>1
  <2>3. d = [f \in File |-> d[f]] /\ e = [f \in File |-> e[f]]
    BY <1>3, <1>2
  <2>4. QED
    BY <2>2, <2>3
<1>7. QED
  BY <1>1, <1>4, <1>5, <1>6 DEF Partial
-----------------------------------------------------------------------------
(* The order of the files                                                   *)

\* Every import of an entry is behind it.
ImportsBehind(s) ==
    \A i \in DOMAIN s : \A x \in Imports(s[i]) : \E j \in DOMAIN s : j > i /\ s[j] = x

LEMMA ConcatBehind ==
  ASSUME NEW s \in Seq(File), NEW t \in Seq(File), ImportsBehind(t),
         \A i \in DOMAIN s : \A x \in Imports(s[i]) :
             (\E j \in DOMAIN s : j > i /\ s[j] = x) \/ x \in ToSet(t)
  PROVE  ImportsBehind(s \o t) /\ ToSet(s \o t) = ToSet(s) \cup ToSet(t)
<1> DEFINE u == s \o t
           m == Len(s)
           n == Len(t)
<1>1. /\ m \in Nat /\ n \in Nat /\ DOMAIN s = 1 .. m /\ DOMAIN t = 1 .. n
      /\ u \in Seq(File) /\ Len(u) = m + n /\ DOMAIN u = 1 .. m + n
  OBVIOUS
<1>2. \A i \in 1 .. m : u[i] = s[i]
  OBVIOUS
<1>3. \A i \in 1 .. n : u[m + i] = t[i] /\ m + i \in DOMAIN u
  OBVIOUS
<1> HIDE DEF u, m, n
<1>4. \A i \in 1 .. m + n : i \in 1 .. m \/ (i - m \in 1 .. n /\ m + (i - m) = i)
  BY <1>1
<1>5. ASSUME NEW i \in DOMAIN u, NEW x \in Imports(u[i])
      PROVE  \E j \in DOMAIN u : j > i /\ u[j] = x
  <2>1. CASE i \in 1 .. m
    <3>1. CASE \E j \in DOMAIN s : j > i /\ s[j] = x
      BY <1>1, <1>2, <3>1
    <3>2. CASE x \in ToSet(t)
      <4>1. PICK k \in 1 .. n : t[k] = x
        BY <1>1, <3>2 DEF ToSet
      <4>2. m + k \in DOMAIN u /\ m + k > i /\ u[m + k] = x
        BY <1>1, <1>3, <2>1, <4>1
      <4>3. QED
        BY <4>2
    <3>3. QED
      BY <1>1, <1>2, <2>1, <3>1, <3>2
  <2>2. CASE i - m \in 1 .. n /\ m + (i - m) = i
    <3>1. u[i] = t[i - m]
      BY <1>3, <2>2
    <3>2. PICK j \in 1 .. n : j > i - m /\ t[j] = x
      BY <1>1, <2>2, <3>1 DEF ImportsBehind
    <3>3. m + j \in DOMAIN u /\ m + j > i /\ u[m + j] = x
      BY <1>1, <1>3, <2>2, <3>2
    <3>4. QED
      BY <3>3
  <2>3. QED
    BY <1>1, <1>4, <2>1, <2>2
<1>6. ToSet(u) = ToSet(s) \cup ToSet(t)
  <2>1. ASSUME NEW x \in ToSet(u) PROVE x \in ToSet(s) \cup ToSet(t)
    <3>1. PICK i \in 1 .. m + n : u[i] = x
      BY <1>1, <2>1 DEF ToSet
    <3>2. CASE i \in 1 .. m
      BY <1>1, <1>2, <3>1, <3>2 DEF ToSet
    <3>3. CASE i - m \in 1 .. n /\ m + (i - m) = i
      <4>1. t[i - m] = x
        BY <1>3, <3>1, <3>3
      <4>2. QED
        BY <1>1, <3>3, <4>1 DEF ToSet
    <3>4. QED
      BY <1>4, <3>2, <3>3
  <2>2. ASSUME NEW x \in ToSet(s) PROVE x \in ToSet(u)
    <3>1. PICK i \in 1 .. m : s[i] = x
      BY <1>1, <2>2 DEF ToSet
    <3>2. i \in DOMAIN u /\ u[i] = x
      BY <1>1, <1>2, <3>1
    <3>3. QED
      BY <3>2 DEF ToSet
  <2>3. ASSUME NEW x \in ToSet(t) PROVE x \in ToSet(u)
    <3>1. PICK i \in 1 .. n : t[i] = x
      BY <1>1, <2>3 DEF ToSet
    <3>2. m + i \in DOMAIN u /\ u[m + i] = x
      BY <1>3, <3>1
    <3>3. QED
      BY <3>2 DEF ToSet
  <2>4. QED
    BY <2>1, <2>2, <2>3
<1>7. QED
  BY <1>5, <1>6 DEF ImportsBehind, u

LEMMA FlattenBehind ==
  ASSUME NEW ss \in Seq(Seq(File)), \A i \in DOMAIN ss : ImportsBehind(ss[i])
  PROVE  /\ FlattenSeq(ss) \in Seq(File)
         /\ ImportsBehind(FlattenSeq(ss))
         /\ \A i \in DOMAIN ss : ToSet(ss[i]) \subseteq ToSet(FlattenSeq(ss))
<1> DEFINE n == Len(ss)
<1>1. n \in Nat /\ DOMAIN ss = 1 .. n /\ \A i \in 1 .. n : ss[i] \in Seq(File)
  OBVIOUS
<1>2. PICK h \in Flattening(File, ss) : FlattenSeq(ss) = h[n]
  BY FlattenSteps
<1> HIDE DEF n
<1>3. /\ h[0] = << >>
      /\ \A i \in 0 .. n : h[i] \in Seq(File)
      /\ \A i \in 1 .. n : h[i] = h[i - 1] \o ss[i]
  BY <1>2 DEF Flattening, n
<1> DEFINE good == {i \in 0 .. n : /\ ImportsBehind(h[i])
                                   /\ \A k \in 1 .. i : ToSet(ss[k]) \subseteq ToSet(h[i])}
<1>4. 0 \in good
  <2>1. ImportsBehind(<< >>)
    BY DEF ImportsBehind
  <2>2. QED
    BY <1>1, <1>3, <2>1
<1>5. ASSUME NEW i \in 0 + 1 .. n, i - 1 \in good PROVE i \in good
  <2>1. i \in 1 .. n /\ i \in 0 .. n /\ i - 1 \in 0 .. n
    BY <1>1
  <2>2. h[i - 1] \in Seq(File) /\ ss[i] \in Seq(File) /\ h[i] = h[i - 1] \o ss[i]
    BY <1>1, <1>3, <2>1
  <2>3. ImportsBehind(h[i - 1]) /\ ImportsBehind(ss[i])
    BY <1>1, <1>5, <2>1
  <2>4. ImportsBehind(h[i]) /\ ToSet(h[i]) = ToSet(h[i - 1]) \cup ToSet(ss[i])
    <3>1. \A j \in DOMAIN h[i - 1] : \A x \in Imports(h[i - 1][j]) :
              (\E k \in DOMAIN h[i - 1] : k > j /\ h[i - 1][k] = x) \/ x \in ToSet(ss[i])
      BY <2>3 DEF ImportsBehind
    <3>2. QED
      BY <2>2, <2>3, <3>1, ConcatBehind
  <2>5. ASSUME NEW k \in 1 .. i PROVE ToSet(ss[k]) \subseteq ToSet(h[i])
    <3>1. k = i \/ k \in 1 .. i - 1
      BY <2>1
    <3>2. QED
      BY <1>5, <2>4, <3>1
  <2>6. QED
    BY <2>1, <2>4, <2>5
<1> HIDE DEF good
<1>6. \A i \in 0 .. n : i \in good
  BY <1>1, <1>4, <1>5, NumberByNumber
<1>7. n \in 0 .. n
  BY <1>1
<1>8. QED
  BY <1>1, <1>2, <1>3, <1>6, <1>7 DEF good

LEMMA DescriptorsBehind ==
  ASSUME NEW f \in File
  PROVE  /\ descriptors[f] \in Seq(File)
         /\ ImportsBehind(descriptors[f])
         /\ f \in ToSet(descriptors[f])
<1> DEFINE Right(x) == ImportsBehind(descriptors[x]) /\ x \in ToSet(descriptors[x])
           bad == {x \in File : ~Right(x)}
<1>1. SUFFICES ASSUME bad # {} PROVE FALSE
  BY DescriptorsAre
<1>2. PICK g \in bad : Imports(g) \cap bad = {}
  <2>1. bad \in SUBSET File
    OBVIOUS
  <2> HIDE DEF bad
  <2>2. QED
    BY <1>1, <2>1, ProtoFilesAssumption DEF Imports
<1>3. g \in File /\ ~Right(g)
  OBVIOUS
<1>4. \A x \in Imports(g) : x \in File /\ Right(x)
  BY <1>2, <1>3, ImportsAreFiles
<1> HIDE DEF Right, bad
<1> DEFINE D == Dependencies[g]
           ss == [i \in DOMAIN D |-> descriptors[D[i]]]
<1>5. D \in Seq(File) /\ DOMAIN D = 1 .. Len(D) /\ Len(D) \in Nat
      /\ \A i \in DOMAIN D : D[i] \in Imports(g)
  BY <1>3, ImportsAreFiles
<1>6. \A i \in DOMAIN D : descriptors[D[i]] \in Seq(File) /\ Right(D[i])
  BY <1>4, <1>5, DescriptorsAre
<1>7. ss \in Seq(Seq(File)) /\ DOMAIN ss = DOMAIN D
      /\ \A i \in DOMAIN ss : ss[i] = descriptors[D[i]]
  BY <1>5, <1>6
<1>8. descriptors[g] = <<g>> \o FlattenSeq(ss)
  BY <1>3, DescriptorsAre DEF WithImports
<1> DEFINE flat == FlattenSeq(ss)
           head == <<g>>
<1> HIDE DEF ss
<1>9. flat \in Seq(File) /\ ImportsBehind(flat)
      /\ \A i \in DOMAIN ss : ToSet(ss[i]) \subseteq ToSet(flat)
  BY <1>6, <1>7, FlattenBehind DEF Right
<1>10. Imports(g) \subseteq ToSet(flat)
  <2>1. ASSUME NEW x \in Imports(g) PROVE x \in ToSet(flat)
    <3>1. PICK i \in DOMAIN D : D[i] = x
      BY DEF Imports, ToSet
    <3>2. x \in ToSet(ss[i]) /\ i \in DOMAIN ss
      BY <1>6, <1>7, <3>1 DEF Right
    <3>3. QED
      BY <1>9, <3>2
  <2>2. QED
    BY <2>1
<1> HIDE DEF flat
<1>11. head \in Seq(File) /\ DOMAIN head = {1} /\ head[1] = g /\ ToSet(head) = {g}
  BY <1>3 DEF ToSet
<1> HIDE DEF head
<1>12. ImportsBehind(head \o flat) /\ ToSet(head \o flat) = {g} \cup ToSet(flat)
  BY <1>9, <1>10, <1>11, ConcatBehind
<1>13. Right(g)
  BY <1>8, <1>12 DEF Right, head, flat
<1>14. QED
  BY <1>3, <1>13

\* No file twice, and the imports of each in front of it or known before
InOrder(s, known) ==
    \A i \in DOMAIN s :
        /\ \A j \in 1 .. i - 1 : s[j] # s[i]
        /\ Imports(s[i]) \subseteq known \cup {s[j] : j \in 1 .. i - 1}

LEMMA ReverseInFront ==
  ASSUME NEW s \in Seq(File), ImportsBehind(s)
  PROVE  /\ Reverse(s) \in Seq(File) /\ ToSet(Reverse(s)) = ToSet(s)
         /\ \A i \in DOMAIN Reverse(s) : \A x \in Imports(Reverse(s)[i]) :
                \E j \in 1 .. i - 1 : Reverse(s)[j] = x
<1> DEFINE n == Len(s)
           r == Reverse(s)
<1>1. n \in Nat /\ DOMAIN s = 1 .. n /\ \A i \in 1 .. n : (n - i) + 1 \in 1 .. n
  OBVIOUS
<1>2. r \in Seq(File) /\ DOMAIN r = 1 .. n /\ \A i \in 1 .. n : r[i] = s[(n - i) + 1]
  BY <1>1 DEF Reverse
<1> HIDE DEF n, r
<1>3. ASSUME NEW i \in 1 .. n PROVE s[i] = r[(n - i) + 1]
  <2>1. (n - ((n - i) + 1)) + 1 = i
    BY <1>1
  <2>2. QED
    BY <1>1, <1>2, <2>1
<1>4. ToSet(r) = ToSet(s)
  BY <1>1, <1>2, <1>3, SMTT(30) DEF ToSet
<1>5. ASSUME NEW i \in DOMAIN r, NEW x \in Imports(r[i])
      PROVE  \E j \in 1 .. i - 1 : r[j] = x
  <2>1. PICK k \in 1 .. n : k > (n - i) + 1 /\ s[k] = x
    BY <1>1, <1>2 DEF ImportsBehind
  <2>2. (n - k) + 1 \in 1 .. i - 1
    BY <1>1, <1>2, <2>1
  <2>3. r[(n - k) + 1] = x
    BY <1>3, <2>1
  <2>4. QED
    BY <2>2, <2>3
<1>6. QED
  BY <1>2, <1>4, <1>5 DEF r

\* The files that are still to be written, each once and behind what it imports
LEMMA NewFilesAre ==
  ASSUME NEW s, s.written_fdps \in SUBSET File, Closed(s.written_fdps), NEW files \in Seq(File),
         \A i \in DOMAIN files : \A x \in Imports(files[i]) : \E j \in 1 .. i - 1 : files[j] = x
  PROVE  /\ NewFiles(s, files) \in Seq(File)
         /\ ToSet(NewFiles(s, files)) = ToSet(files) \ s.written_fdps
         /\ InOrder(NewFiles(s, files), s.written_fdps)
<1> DEFINE N == Len(files)
           known == s.written_fdps
           Files == Seq(File)
           none == << >>
           step == [t \in Files |-> [i \in 1 .. N |->
                      IF files[i] \in known \cup ToSet(t) THEN t ELSE Append(t, files[i])]]
           fdps == CHOOSE f : f = [n \in 0 .. N |->
                      IF n = 0 THEN << >>
                      ELSE IF files[n] \in s.written_fdps \cup ToSet(f[n - 1]) THEN f[n - 1]
                      ELSE Append(f[n - 1], files[n])]
<1>1. N \in Nat /\ DOMAIN files = 1 .. N /\ \A i \in 1 .. N : files[i] \in File
  OBVIOUS
<1>2. none \in Files /\ \A t \in Files, i \in 1 .. N : Append(t, files[i]) \in Files
  BY <1>1
<1>3. step \in [Files -> [1 .. N -> Files]]
  BY <1>2
<1>4. \A t \in Files, i \in 1 .. N :
        step[t][i] = IF files[i] \in known \cup ToSet(t) THEN t ELSE Append(t, files[i])
  OBVIOUS
<1> HIDE DEF step, Files
<1>5. PICK g \in [0 .. N -> Files] : g[0] = none /\ \A i \in 1 .. N : g[i] = step[g[i - 1]][i]
  <2> HIDE DEF N, none
  <2>1. Recursive(N, Files, none, step) # {}
    BY <1>1, <1>2, <1>3, StepByStep
  <2>2. QED
    BY <2>1 DEF Recursive
<1>6. ASSUME NEW i \in 1 .. N
      PROVE  g[i] = IF files[i] \in known \cup ToSet(g[i - 1]) THEN g[i - 1]
                    ELSE Append(g[i - 1], files[i])
  <2>1. i - 1 \in 0 .. N
    BY <1>1
  <2>2. g[i - 1] \in Files
    BY <2>1, SMTT(30)
  <2>3. QED
    BY <1>4, <1>5, <2>2
<1>7. fdps = [n \in 0 .. N |->
                 IF n = 0 THEN << >>
                 ELSE IF files[n] \in s.written_fdps \cup ToSet(fdps[n - 1]) THEN fdps[n - 1]
                 ELSE Append(fdps[n - 1], files[n])]
  <2>1. ASSUME NEW n \in 0 .. N
        PROVE  g[n] = IF n = 0 THEN << >>
                      ELSE IF files[n] \in s.written_fdps \cup ToSet(g[n - 1]) THEN g[n - 1]
                      ELSE Append(g[n - 1], files[n])
    <3>1. CASE n = 0
      BY <1>5, <3>1
    <3>2. CASE n # 0
      <4>1. n \in 1 .. N
        BY <1>1, <3>2
      <4>2. QED
        BY <1>6, <3>2, <4>1
    <3>3. QED
      BY <3>1, <3>2
  <2>2. g = [n \in 0 .. N |-> g[n]]
    OBVIOUS
  <2>3. g = [n \in 0 .. N |->
                 IF n = 0 THEN << >>
                 ELSE IF files[n] \in s.written_fdps \cup ToSet(g[n - 1]) THEN g[n - 1]
                 ELSE Append(g[n - 1], files[n])]
    BY <2>1, <2>2
  <2>4. QED
    BY <2>3
<1>8. NewFiles(s, files) = fdps[N]
  BY DEF NewFiles
<1> HIDE DEF fdps
<1>9. /\ fdps[0] = none
      /\ \A i \in 1 .. N : fdps[i] = IF files[i] \in known \cup ToSet(fdps[i - 1]) THEN fdps[i - 1]
                                     ELSE Append(fdps[i - 1], files[i])
  <2>1. 0 \in 0 .. N /\ \A i \in 1 .. N : i \in 0 .. N /\ i # 0
    BY <1>1
  <2>2. QED
    BY <1>7, <2>1
<1> DEFINE Part(t, i) == /\ t \in Seq(File) /\ InOrder(t, known)
                         /\ ToSet(t) = {files[j] : j \in 1 .. i} \ known
           good == {i \in 0 .. N : Part(fdps[i], i)}
<1> HIDE DEF N, known
<1>10. 0 \in good
  <2>1. none \in Seq(File) /\ ToSet(none) = {} /\ InOrder(none, known)
    BY DEF ToSet, InOrder
  <2>2. {files[j] : j \in 1 .. 0} = {}
    OBVIOUS
  <2> HIDE DEF none
  <2>3. QED
    BY <1>1, <1>9, <2>1, <2>2
<1>11. ASSUME NEW i \in 0 + 1 .. N, i - 1 \in good PROVE i \in good
  <2>1. i \in 1 .. N /\ i \in 0 .. N /\ files[i] \in File
    BY <1>1
  <2> DEFINE t == fdps[i - 1]
             f == files[i]
  <2>2. Part(t, i - 1)
    BY <1>11
  <2>3. fdps[i] = IF f \in known \cup ToSet(t) THEN t ELSE Append(t, f)
    BY <1>9, <2>1
  <2>4. {files[j] : j \in 1 .. i} = {files[j] : j \in 1 .. i - 1} \cup {f}
    <3>1. \A j : j \in 1 .. i <=> j \in 1 .. i - 1 \/ j = i
      BY <1>1, <2>1
    <3>2. QED
      BY <3>1
  <2>5. \A x \in Imports(f) : \E j \in 1 .. i - 1 : files[j] = x
    BY <1>1, <2>1
  <2>6. Imports(f) \subseteq known \cup ToSet(t)
    <3>1. Imports(f) \subseteq {files[j] : j \in 1 .. i - 1}
      BY <2>5
    <3>2. QED
      BY <2>2, <3>1
  <2> HIDE DEF t, f
  <2>7. CASE f \in known \cup ToSet(t)
    <3>1. ToSet(t) = {files[j] : j \in 1 .. i} \ known
      BY <2>2, <2>4, <2>7
    <3>2. QED
      BY <2>1, <2>2, <2>3, <2>7, <3>1
  <2>8. CASE f \notin known \cup ToSet(t)
    <3> DEFINE u == Append(t, f)
               k == Len(t)
    <3>1. t \in Seq(File) /\ f \in File
      BY <2>1, <2>2 DEF f
    <3>2. k \in Nat /\ DOMAIN t = 1 .. k /\ u \in Seq(File) /\ DOMAIN u = 1 .. k + 1
          /\ u[k + 1] = f /\ \A j \in 1 .. k : u[j] = t[j]
      BY <3>1
    <3> HIDE DEF u, k
    <3>3. \A j : j \in 1 .. k + 1 <=> j \in 1 .. k \/ j = k + 1
      BY <3>2
    <3>4. ToSet(u) = ToSet(t) \cup {f}
      BY <3>2, <3>3 DEF ToSet
    <3>5. InOrder(u, known)
      <4>1. ASSUME NEW j \in DOMAIN u
            PROVE  /\ \A l \in 1 .. j - 1 : u[l] # u[j]
                   /\ Imports(u[j]) \subseteq known \cup {u[l] : l \in 1 .. j - 1}
        <5>1. CASE j = k + 1
          <6>1. {u[l] : l \in 1 .. j - 1} = ToSet(t)
            <7>1. j - 1 = k
              BY <3>2, <5>1
            <7>2. QED
              BY <3>2, <7>1, Zenon DEF ToSet
          <6>2. u[j] = f
            BY <3>2, <5>1
          <6>3. \A l \in 1 .. j - 1 : u[l] \in ToSet(t)
            BY <6>1
          <6>4. QED
            BY <2>6, <2>8, <6>1, <6>2, <6>3
        <5>2. CASE j \in 1 .. k
          <6>1. u[j] = t[j] /\ \A l \in 1 .. j - 1 : l \in 1 .. k /\ u[l] = t[l]
            BY <3>2, <5>2
          <6>2. {u[l] : l \in 1 .. j - 1} = {t[l] : l \in 1 .. j - 1}
            BY <6>1
          <6>3. /\ \A l \in 1 .. j - 1 : t[l] # t[j]
                /\ Imports(t[j]) \subseteq known \cup {t[l] : l \in 1 .. j - 1}
            BY <2>2, <3>2, <5>2 DEF InOrder
          <6>4. QED
            BY <6>1, <6>2, <6>3
        <5>3. QED
          BY <3>2, <3>3, <5>1, <5>2
      <4>2. QED
        BY <4>1 DEF InOrder
    <3>6. ToSet(u) = {files[j] : j \in 1 .. i} \ known
      BY <2>2, <2>4, <2>8, <3>4
    <3>7. fdps[i] = u
      BY <2>3, <2>8 DEF u
    <3>8. QED
      BY <2>1, <3>2, <3>5, <3>6, <3>7
  <2>9. QED
    BY <2>7, <2>8
<1> HIDE DEF good
<1>12. \A i \in 0 .. N : i \in good
  BY <1>1, <1>10, <1>11, NumberByNumber
<1>13. Part(fdps[N], N)
  <2>1. N \in 0 .. N
    BY <1>1
  <2>2. QED
    BY <1>12, <2>1 DEF good
<1>14. {files[j] : j \in 1 .. N} = ToSet(files)
  BY <1>1 DEF ToSet
<1>15. QED
  BY <1>8, <1>13, <1>14 DEF known

\* Reverse, then drop what was written: a class's file is written or known, and all
\* that was written stays closed under imports.
LEMMA FilesOfClass ==
  ASSUME NEW s, s.written_fdps \in SUBSET File, Closed(s.written_fdps), NEW c \in Class,
         NEW fdps, fdps = NewFiles(s, Reverse(descriptors[FileOf[c]]))
  PROVE  /\ fdps \in Seq(File) /\ InOrder(fdps, s.written_fdps)
         /\ ToSet(fdps) \cap s.written_fdps = {}
         /\ Closed(s.written_fdps \cup ToSet(fdps))
         /\ FileOf[c] \in s.written_fdps \cup ToSet(fdps)
<1> DEFINE r == Reverse(descriptors[FileOf[c]])
<1>1. FileOf[c] \in File
  BY ProtoFilesAssumption
<1>2. /\ r \in Seq(File) /\ FileOf[c] \in ToSet(r)
      /\ \A i \in DOMAIN r : \A x \in Imports(r[i]) : \E j \in 1 .. i - 1 : r[j] = x
  BY <1>1, DescriptorsBehind, ReverseInFront
<1> HIDE DEF r
<1>3. /\ fdps \in Seq(File) /\ InOrder(fdps, s.written_fdps)
      /\ ToSet(fdps) = ToSet(r) \ s.written_fdps
  BY <1>2, NewFilesAre DEF r
<1>4. ASSUME NEW f \in s.written_fdps \cup ToSet(fdps)
      PROVE  Imports(f) \subseteq s.written_fdps \cup ToSet(fdps)
  <2>1. CASE f \in s.written_fdps
    BY <2>1 DEF Closed
  <2>2. CASE f \in ToSet(fdps)
    <3>1. PICK i \in DOMAIN r : r[i] = f
      BY <1>3, <2>2 DEF ToSet
    <3>2. Imports(f) \subseteq ToSet(r)
      <4>1. ASSUME NEW x \in Imports(f) PROVE x \in ToSet(r)
        <5>1. PICK j \in 1 .. i - 1 : r[j] = x
          BY <1>2, <3>1
        <5>2. j \in DOMAIN r
          BY <1>2, <3>1, <5>1
        <5>3. QED
          BY <5>1, <5>2 DEF ToSet
      <4>2. QED
        BY <4>1
    <3>3. QED
      BY <1>3, <3>2
  <2>3. QED
    BY <2>1, <2>2
<1>5. QED
  BY <1>2, <1>3, <1>4 DEF Closed
-----------------------------------------------------------------------------
(* What a stream of a file holds                                            *)

\* What the Python writer puts in a cell
PyBody ==
    {NoBody} \cup [metadata_refers_forward : BOOLEAN] \cup [compression : {"ZLIB"}]
    \cup [class_id : Nat, full_name : Class, file_descriptor : Seq(File)]
    \cup [class : Class, whole : BOOLEAN]
    \cup [size : Nat, metadata_offsets : Seq(Nat), protoclass_offsets : Seq(Nat),
          class_count : {{}}]
    \cup [size : Nat]
PyCell == [kind : {"message", "START_MAGIC", "FooterSize", "END_MAGIC", "ZlibEnd", "TORN_MAGIC"},
           id : Nat, body : PyBody, z : BOOLEAN]

\* The cell behind this one is in a compressed section.
Opens(cell) == IsMessage(cell) /\ (cell.z \/ cell.id = StartCompressedSectionId)

\* Where the offset of a message points to that is the first one of its section, or in
\* no section
Place(w, i) == IF w[i].z THEN i - 2 ELSE i - 1
Leads(w, i) == w[i].z => HasId(w[i - 1], StartCompressedSectionId)

\* The cells of w behind the first b are those of a stream: ProtoClasses and metadata
\* in front of cell i
Defining(w, b, i) == {j \in b + 1 .. i : HasId(w[j], ProtoClassId)}
Applying(w, b, i) == {j \in b + 1 .. i : IsMetadata(w[j])}
Known(w, b, i) == UNION {ToSet(w[j].body.file_descriptor) : j \in Defining(w, b, i)}

Ascending(s) == \A i, j \in DOMAIN s : i < j => s[i] < s[j]
Lists(s, w, b, S) == Ascending(s) /\ ToSet(s) = {Place(w, j) - b : j \in S}

\* A ProtoClass can be built from what it and those in front of it hold.
DefinesRight(w, b, i) ==
    /\ w[i].body \in [class_id : {0, 1}, full_name : Class, file_descriptor : Seq(File)]
    /\ Leads(w, i)
    /\ FileOf[w[i].body.full_name] \in Known(w, b, i)
    /\ InOrder(w[i].body.file_descriptor, Known(w, b, i - 1))
    /\ ToSet(w[i].body.file_descriptor) \cap Known(w, b, i - 1) = {}
    /\ \A j \in Defining(w, b, i - 1) : w[j].body.class_id # w[i].body.class_id

\* A message of the client is of the class its id was bound to, and all events of a
\* stream are of one class.
UsesRight(w, b, i) ==
    /\ w[i].id \in {0, 1}
    /\ w[i].body \in [class : Class, whole : BOOLEAN]
    /\ \E j \in Defining(w, b, i - 1) :
           /\ w[j].body.class_id = w[i].id /\ w[j].body.full_name = w[i].body.class
           /\ w[i].z <=> w[j].z
    /\ IsMetadata(w[i]) => Leads(w, i)
    /\ IsEvent(w[i]) => w[i].body.class \in EventClasses

\* The class of ProtoClass j was used.
UsedBehind(w, j, i) ==
    \E k \in j + 1 .. i :
        /\ IsUserMessage(w[k]) /\ w[k].id = w[j].body.class_id
        /\ w[k].body.class = w[j].body.full_name

\* A footer is true, and every class was used.
SummaryRight(w, b, i) ==
    /\ w[i].body \in [size : Nat, metadata_offsets : Seq(Nat), protoclass_offsets : Seq(Nat),
                      class_count : {{}}]
    /\ w[i].body.size = i - 1 - b
    /\ Lists(w[i].body.metadata_offsets, w, b, Applying(w, b, i))
    /\ Lists(w[i].body.protoclass_offsets, w, b, Defining(w, b, i))
    /\ \A j \in Defining(w, b, i) : UsedBehind(w, j, i - 1)

CellRight(w, b, i) ==
    /\ w[i].kind \in {"START_MAGIC", "TORN_MAGIC"} <=> i = b + 1
    /\ HasId(w[i], StreamHeaderId) <=> i = b + 2
    /\ i = b + 2 => w[i].body \in [metadata_refers_forward : BOOLEAN]
    /\ w[i].z <=> i > b + 1 /\ Opens(w[i - 1])
    /\ w[i].kind = "ZlibEnd" <=> i > b + 1 /\ HasId(w[i - 1], EndCompressedSectionId)
    /\ HasId(w[i], EndCompressedSectionId) => w[i].z
    /\ HasId(w[i], StartCompressedSectionId) \/ HasId(w[i], StreamFooterId) => ~w[i].z
    /\ w[i].kind = "FooterSize" <=> i > b + 1 /\ HasId(w[i - 1], StreamFooterId)
    /\ w[i].kind = "END_MAGIC" <=> i > b + 1 /\ w[i - 1].kind = "FooterSize"
    /\ i > b + 1 => w[i - 1].kind \notin {"END_MAGIC", "TORN_MAGIC"}
    /\ HasId(w[i], ProtoClassId) => DefinesRight(w, b, i)
    /\ IsUserMessage(w[i]) => UsesRight(w, b, i)
    /\ HasId(w[i], StreamFooterId) => SummaryRight(w, b, i)

\* Up to cell i, w holds a stream behind its first b cells.
StreamTo(w, b, i) == \A k \in b + 1 .. i : CellRight(w, b, k)

Untorn(w) == \A i \in DOMAIN w : w[i].kind # "TORN_MAGIC"

\* What a reader can rely on in a file of several streams, each of which may be cut,
\* in its magic only the last one
FileRight(w) ==
    /\ w \in Seq(PyCell)
    /\ \A i \in DOMAIN w : \E b \in 0 .. i - 1 : StreamTo(w, b, i)
    /\ \A i \in DOMAIN w : w[i].kind = "TORN_MAGIC" => i = Len(w)

\* No stream was cut.
Whole(w) ==
    \A i \in DOMAIN w :
        (i = Len(w) \/ w[i + 1].kind = "START_MAGIC") => w[i].kind = "END_MAGIC"
-----------------------------------------------------------------------------
(* The writer and what it has written                                       *)

PyStreams(C) ==
    [compression : BOOLEAN, metadata_refers_forward : BOOLEAN, compressed : BOOLEAN,
     closed : BOOLEAN, bytes_written : Nat, pre : Nat, zbytes : Nat,
     next_class_id : Nat, next_metadata_class_id : Nat, class_id : [C -> Nat],
     written_fdps : SUBSET File, metadata_offsets : Seq(Nat), protoclass_offsets : Seq(Nat),
     wire : Seq(PyCell),
     status : {"ok", "AttributeError", "ValueError"}]

\* The object stands behind the last cell, which is no mark and no footer.
Stands(s) ==
    LET n == Len(s.wire) IN
    /\ n >= 2
    /\ s.wire[n].kind \in {"message", "ZlibEnd"}
    /\ ~HasId(s.wire[n], StreamFooterId) /\ ~HasId(s.wire[n], EndCompressedSectionId)
    /\ s.compressed <=> Opens(s.wire[n])
    /\ IF s.compressed THEN s.zbytes + s.pre = n ELSE s.bytes_written = n

\* What the writer remembers is what it wrote.
Remembers(s) ==
    LET n == Len(s.wire) IN
    /\ Lists(s.metadata_offsets, s.wire, 0, Applying(s.wire, 0, n))
    /\ Lists(s.protoclass_offsets, s.wire, 0, Defining(s.wire, 0, n))
    /\ s.written_fdps = Known(s.wire, 0, n)
    /\ Closed(s.written_fdps)

\* Each known class has its one ProtoClass, and was used.
ClassesBound(s) ==
    LET n == Len(s.wire) IN
    /\ \A c \in DOMAIN s.class_id :
           \E j \in Defining(s.wire, 0, n) :
               /\ s.wire[j].body.class_id = s.class_id[c] /\ s.wire[j].body.full_name = c
               /\ s.wire[j].z <=> s.compression
    /\ \A j \in Defining(s.wire, 0, n) :
           \E c \in DOMAIN s.class_id :
               s.wire[j].body.class_id = s.class_id[c] /\ s.wire[j].body.full_name = c
ClassesUsedBy(s) ==
    \A j \in Defining(s.wire, 0, Len(s.wire)) : UsedBehind(s.wire, j, Len(s.wire))

\* From the first message of the client on, all is in sections or nothing is.
Steady(s) == s.compressed <=> s.compression

\* At most two classes, one for each role
IdsRight(s) ==
    /\ \A c \in DOMAIN s.class_id : s.class_id[c] \in {0, 1}
    /\ (\A c \in DOMAIN s.class_id : s.class_id[c] # 0) => s.next_class_id = 0
    /\ (\A c \in DOMAIN s.class_id : s.class_id[c] # 1) => s.next_metadata_class_id = 1
    /\ \A c \in DOMAIN s.class_id : s.class_id[c] = 0 => c \in EventClasses

WriterRight(s) ==
    /\ s \in PyStreams(DOMAIN s.class_id) /\ DOMAIN s.class_id \in SUBSET Class
    /\ StreamTo(s.wire, 0, Len(s.wire))
    /\ ~s.closed => Stands(s) /\ ClassesUsedBy(s) /\ (DOMAIN s.class_id # {} => Steady(s))
    /\ Remembers(s) /\ ClassesBound(s) /\ IdsRight(s)
    /\ s.closed => s.wire[Len(s.wire)].kind = "END_MAGIC" /\ Len(s.wire) > 0

WrittenRight ==
    /\ phase \in {"write", "read"} /\ cut \in BOOLEAN
    /\ phase = "write" => WriterRight(po)
    /\ phase = "read" => po = NewPyStream(TRUE, TRUE)
    /\ FileRight(pfile) /\ (~cut => Whole(pfile))
    /\ phase = "write" => Untorn(pfile)
-----------------------------------------------------------------------------
(* Cells                                                                    *)

LEMMA PyIdsDiffer ==
  /\ StreamHeaderId \in Nat /\ StreamFooterId \in Nat /\ StartCompressedSectionId \in Nat
  /\ EndCompressedSectionId \in Nat /\ ProtoClassId \in Nat
  /\ StreamHeaderId # StreamFooterId /\ StreamHeaderId # StartCompressedSectionId
  /\ StreamHeaderId # EndCompressedSectionId /\ StreamHeaderId # ProtoClassId
  /\ StreamFooterId # StartCompressedSectionId /\ StreamFooterId # EndCompressedSectionId
  /\ StreamFooterId # ProtoClassId /\ StartCompressedSectionId # EndCompressedSectionId
  /\ StartCompressedSectionId # ProtoClassId /\ EndCompressedSectionId # ProtoClassId
  /\ 0 \notin FixedIds /\ 1 \notin FixedIds /\ IsMetadataId(1) /\ ~IsMetadataId(0)
BY WireAssumption DEF StreamHeaderId, StreamFooterId, StartCompressedSectionId,
   EndCompressedSectionId, ProtoClassId, FixedIds, IsMetadataId

\* A stream is the same in another place: i of w is j of v.
Same(a, b, j, i) == i - b = j - a
Alike(v, a, w, b, m) ==
    \A i \in b + 1 .. b + m, j \in a + 1 .. a + m : Same(a, b, j, i) => w[i] = v[j]

LEMMA TheSame ==
  ASSUME NEW a \in Nat, NEW b \in Nat, NEW m \in Nat, NEW i \in b + 1 .. b + m
  PROVE  \E j \in a + 1 .. a + m : Same(a, b, j, i)
<1>1. a + (i - b) \in a + 1 .. a + m /\ i - b = (a + (i - b)) - a
  OBVIOUS
<1>2. QED
  BY <1>1 DEF Same

LEMMA PlacesMoved ==
  ASSUME NEW v, NEW a \in Nat, NEW w, NEW b \in Nat, NEW i \in Nat, NEW j \in Nat,
         Same(a, b, j, i), w[i] = v[j]
  PROVE  Place(w, i) - b = Place(v, j) - a
BY DEF Same, Place

\* The ProtoClasses and the metadata of the first n cells are the same ones.
SetsAlike(v, a, p, w, b, q) ==
    /\ \A i \in b + 1 .. q, j \in a + 1 .. p : Same(a, b, j, i) =>
           /\ i \in Defining(w, b, q) <=> j \in Defining(v, a, p)
           /\ i \in Applying(w, b, q) <=> j \in Applying(v, a, p)
    /\ Known(w, b, q) = Known(v, a, p)
    /\ {Place(w, j) - b : j \in Defining(w, b, q)} = {Place(v, j) - a : j \in Defining(v, a, p)}
    /\ {Place(w, j) - b : j \in Applying(w, b, q)} = {Place(v, j) - a : j \in Applying(v, a, p)}

LEMMA SetsMoved ==
  ASSUME NEW v, NEW a \in Nat, NEW w, NEW b \in Nat, NEW m \in Nat, Alike(v, a, w, b, m),
         NEW n \in 0 .. m, NEW p, NEW q, p = a + n, q = b + n
  PROVE  SetsAlike(v, a, p, w, b, q)
<1>1. ASSUME NEW i \in b + 1 .. q, NEW j \in a + 1 .. p, Same(a, b, j, i)
      PROVE  /\ w[i] = v[j]
             /\ i \in Defining(w, b, q) <=> j \in Defining(v, a, p)
             /\ i \in Applying(w, b, q) <=> j \in Applying(v, a, p)
             /\ Place(w, i) - b = Place(v, j) - a
  <2>1. i \in b + 1 .. b + m /\ j \in a + 1 .. a + m /\ i \in Nat /\ j \in Nat
    OBVIOUS
  <2>2. w[i] = v[j]
    BY <1>1, <2>1 DEF Alike
  <2>3. Place(w, i) - b = Place(v, j) - a
    BY <1>1, <2>1, <2>2, PlacesMoved
  <2>4. QED
    BY <2>2, <2>3 DEF Defining, Applying
<1>2. ASSUME NEW i \in b + 1 .. q PROVE \E j \in a + 1 .. p : Same(a, b, j, i)
  <2>1. n \in Nat /\ i \in b + 1 .. b + n
    OBVIOUS
  <2>2. \E j \in a + 1 .. a + n : Same(a, b, j, i)
    BY <2>1, TheSame, Zenon
  <2>3. QED
    BY <2>2
<1>3. ASSUME NEW j \in a + 1 .. p PROVE \E i \in b + 1 .. q : Same(a, b, j, i)
  <2>1. n \in Nat /\ j \in a + 1 .. a + n
    OBVIOUS
  <2>2. \E i \in b + 1 .. b + n : Same(b, a, i, j)
    BY <2>1, TheSame, Zenon
  <2>3. QED
    BY <2>2 DEF Same
<1>4. /\ \A i \in Defining(w, b, q) \cup Applying(w, b, q) : i \in b + 1 .. q
      /\ \A j \in Defining(v, a, p) \cup Applying(v, a, p) : j \in a + 1 .. p
  BY DEF Defining, Applying
<1>5. Known(w, b, q) = Known(v, a, p)
  <2>1. ASSUME NEW f, f \in Known(w, b, q) PROVE f \in Known(v, a, p)
    <3>1. PICK i \in Defining(w, b, q) : f \in ToSet(w[i].body.file_descriptor)
      BY <2>1 DEF Known
    <3>2. PICK j \in a + 1 .. p : Same(a, b, j, i)
      BY <1>2, <1>4
    <3>3. j \in Defining(v, a, p) /\ f \in ToSet(v[j].body.file_descriptor)
      BY <1>1, <1>4, <3>1, <3>2
    <3>4. QED
      BY <3>3 DEF Known
  <2>2. ASSUME NEW f, f \in Known(v, a, p) PROVE f \in Known(w, b, q)
    <3>1. PICK j \in Defining(v, a, p) : f \in ToSet(v[j].body.file_descriptor)
      BY <2>2 DEF Known
    <3>2. PICK i \in b + 1 .. q : Same(a, b, j, i)
      BY <1>3, <1>4
    <3>3. i \in Defining(w, b, q) /\ f \in ToSet(w[i].body.file_descriptor)
      BY <1>1, <1>4, <3>1, <3>2
    <3>4. QED
      BY <3>3 DEF Known
  <2>3. QED
    BY <2>1, <2>2
<1>6. {Place(w, j) - b : j \in Defining(w, b, q)} = {Place(v, j) - a : j \in Defining(v, a, p)}
  <2>1. \A i \in Defining(w, b, q) : \E j \in Defining(v, a, p) : Place(w, i) - b = Place(v, j) - a
    BY <1>1, <1>2, <1>4
  <2>2. \A j \in Defining(v, a, p) : \E i \in Defining(w, b, q) : Place(v, j) - a = Place(w, i) - b
    BY <1>1, <1>3, <1>4
  <2>3. QED
    BY <2>1, <2>2
<1>7. {Place(w, j) - b : j \in Applying(w, b, q)} = {Place(v, j) - a : j \in Applying(v, a, p)}
  <2>1. \A i \in Applying(w, b, q) : \E j \in Applying(v, a, p) : Place(w, i) - b = Place(v, j) - a
    BY <1>1, <1>2, <1>4
  <2>2. \A j \in Applying(v, a, p) : \E i \in Applying(w, b, q) : Place(v, j) - a = Place(w, i) - b
    BY <1>1, <1>3, <1>4
  <2>3. QED
    BY <2>1, <2>2
<1>8. QED
  BY <1>1, <1>5, <1>6, <1>7 DEF SetsAlike

\* The cell, and the one in front of it
CellsAlike(v, a, p, w, b, q) ==
    /\ w[q] = v[p] /\ SetsAlike(v, a, p, w, b, q)
    /\ q > b + 1 => w[q - 1] = v[p - 1] /\ SetsAlike(v, a, p - 1, w, b, q - 1)

LEMMA CellsMoved ==
  ASSUME NEW v, NEW a \in Nat, NEW w, NEW b \in Nat, NEW m \in Nat, Alike(v, a, w, b, m),
         m >= 1, NEW p, NEW q, p = a + m, q = b + m
  PROVE  CellsAlike(v, a, p, w, b, q)
<1>1. w[q] = v[p]
  <2>1. q \in b + 1 .. b + m /\ p \in a + 1 .. a + m /\ q - b = p - a
    OBVIOUS
  <2>2. QED
    BY <2>1 DEF Alike, Same
<1>2. ASSUME m > 1 PROVE w[q - 1] = v[p - 1] /\ SetsAlike(v, a, p - 1, w, b, q - 1)
  <2>1. q - 1 \in b + 1 .. b + m /\ p - 1 \in a + 1 .. a + m /\ (q - 1) - b = (p - 1) - a
    BY <1>2
  <2>2. w[q - 1] = v[p - 1]
    BY <2>1 DEF Alike, Same
  <2>3. m - 1 \in 0 .. m /\ p - 1 = a + (m - 1) /\ q - 1 = b + (m - 1)
    OBVIOUS
  <2>4. SetsAlike(v, a, p - 1, w, b, q - 1)
    BY <2>3, SetsMoved
  <2>5. QED
    BY <2>2, <2>4
<1>3. SetsAlike(v, a, p, w, b, q)
  <2>1. m \in 0 .. m
    OBVIOUS
  <2>2. QED
    BY <2>1, SetsMoved
<1>4. QED
  BY <1>1, <1>2, <1>3 DEF CellsAlike

LEMMA DefinesMoved ==
  ASSUME NEW v, NEW a \in Nat, NEW w, NEW b \in Nat, NEW m \in Nat, Alike(v, a, w, b, m),
         m > 1, NEW p, NEW q, p = a + m, q = b + m, DefinesRight(v, a, p)
  PROVE  DefinesRight(w, b, q)
<1>1. /\ w[q] = v[p] /\ w[q - 1] = v[p - 1]
      /\ SetsAlike(v, a, p - 1, w, b, q - 1) /\ SetsAlike(v, a, p, w, b, q)
  <2>1. m >= 1 /\ q > b + 1
    OBVIOUS
  <2>2. CellsAlike(v, a, p, w, b, q)
    BY <2>1, CellsMoved
  <2>3. QED
    BY <2>1, <2>2 DEF CellsAlike
<1>2. Known(w, b, q) = Known(v, a, p) /\ Known(w, b, q - 1) = Known(v, a, p - 1)
  BY <1>1 DEF SetsAlike
<1>3. ASSUME NEW i \in Defining(w, b, q - 1) PROVE w[i].body.class_id # w[q].body.class_id
  <2>1. i \in b + 1 .. q - 1 /\ i \in b + 1 .. b + (m - 1) /\ m - 1 \in Nat
    BY DEF Defining
  <2>2. PICK j \in a + 1 .. a + (m - 1) : Same(a, b, j, i)
    BY <2>1, TheSame
  <2>3. j \in a + 1 .. p - 1 /\ j \in a + 1 .. a + m /\ i \in b + 1 .. b + m
    BY <2>1
  <2>4. j \in Defining(v, a, p - 1)
    BY <1>1, <1>3, <2>1, <2>2, <2>3 DEF SetsAlike
  <2>5. w[i] = v[j]
    BY <2>2, <2>3 DEF Alike
  <2>6. QED
    BY <1>1, <2>4, <2>5 DEF DefinesRight
<1>4. QED
  BY <1>1, <1>2, <1>3 DEF DefinesRight, Leads

LEMMA UsesMoved ==
  ASSUME NEW v, NEW a \in Nat, NEW w, NEW b \in Nat, NEW m \in Nat, Alike(v, a, w, b, m),
         m > 1, NEW p, NEW q, p = a + m, q = b + m, UsesRight(v, a, p)
  PROVE  UsesRight(w, b, q)
<1>1. /\ w[q] = v[p] /\ w[q - 1] = v[p - 1]
      /\ SetsAlike(v, a, p - 1, w, b, q - 1)
  <2>1. m >= 1 /\ q > b + 1
    OBVIOUS
  <2>2. CellsAlike(v, a, p, w, b, q)
    BY <2>1, CellsMoved
  <2>3. QED
    BY <2>1, <2>2 DEF CellsAlike
<1>2. PICK j \in Defining(v, a, p - 1) :
        /\ v[j].body.class_id = v[p].id /\ v[j].body.full_name = v[p].body.class
        /\ v[p].z <=> v[j].z
  BY DEF UsesRight
<1>3. \E i \in Defining(w, b, q - 1) :
        /\ w[i].body.class_id = w[q].id /\ w[i].body.full_name = w[q].body.class
        /\ w[q].z <=> w[i].z
  <2>1. j \in a + 1 .. p - 1 /\ j \in a + 1 .. a + (m - 1) /\ m - 1 \in Nat
    BY DEF Defining
  <2>2. PICK i \in b + 1 .. b + (m - 1) : Same(b, a, i, j)
    BY <2>1, TheSame
  <2>3. i \in b + 1 .. q - 1 /\ j \in a + 1 .. a + m /\ i \in b + 1 .. b + m
    BY <2>1
  <2>4. Same(a, b, j, i)
    BY <2>2 DEF Same
  <2>5. i \in Defining(w, b, q - 1)
    BY <1>1, <1>2, <2>1, <2>3, <2>4 DEF SetsAlike
  <2>6. w[i] = v[j]
    BY <2>3, <2>4 DEF Alike
  <2>7. QED
    BY <1>1, <1>2, <2>5, <2>6
<1>4. QED
  BY <1>1, <1>3 DEF UsesRight, Leads

LEMMA SummaryMoved ==
  ASSUME NEW v, NEW a \in Nat, NEW w, NEW b \in Nat, NEW m \in Nat, Alike(v, a, w, b, m),
         m >= 1, NEW p, NEW q, p = a + m, q = b + m, SummaryRight(v, a, p)
  PROVE  SummaryRight(w, b, q)
<1>1. w[q] = v[p] /\ SetsAlike(v, a, p, w, b, q)
  <2>1. CellsAlike(v, a, p, w, b, q)
    BY CellsMoved
  <2>2. QED
    BY <2>1 DEF CellsAlike
<1>2. q - 1 - b = p - 1 - a
  OBVIOUS
<1>3. /\ Lists(w[q].body.metadata_offsets, w, b, Applying(w, b, q))
      /\ Lists(w[q].body.protoclass_offsets, w, b, Defining(w, b, q))
  BY <1>1 DEF SummaryRight, Lists, SetsAlike
<1>4. ASSUME NEW i \in Defining(w, b, q)
      PROVE  UsedBehind(w, i, q - 1)
  <2>1. i \in b + 1 .. q /\ i \in b + 1 .. b + m
    BY DEF Defining
  <2>2. PICK j \in a + 1 .. a + m : Same(a, b, j, i)
    BY <2>1, TheSame
  <2>3. j \in Defining(v, a, p) /\ w[i] = v[j]
    BY <1>1, <1>4, <2>1, <2>2 DEF SetsAlike, Alike
  <2>4. PICK l \in j + 1 .. p - 1 :
               /\ IsUserMessage(v[l]) /\ v[l].id = v[j].body.class_id
               /\ v[l].body.class = v[j].body.full_name
    BY <2>3 DEF SummaryRight, UsedBehind
  <2>5. l \in a + 1 .. a + m
    BY <2>2
  <2>6. PICK k \in b + 1 .. b + m : Same(b, a, k, l)
    BY <2>5, TheSame
  <2>7. k \in i + 1 .. q - 1 /\ Same(a, b, l, k)
    BY <2>1, <2>2, <2>4, <2>6 DEF Same
  <2>8. w[k] = v[l]
    BY <2>5, <2>6, <2>7 DEF Alike
  <2>9. QED
    BY <2>3, <2>4, <2>7, <2>8 DEF UsedBehind
<1>5. QED
  BY <1>1, <1>2, <1>3, <1>4 DEF SummaryRight

LEMMA CellMoved ==
  ASSUME NEW v, NEW a \in Nat, NEW w, NEW b \in Nat, NEW m \in Nat, Alike(v, a, w, b, m),
         m >= 1, NEW p, NEW q, p = a + m, q = b + m, CellRight(v, a, p)
  PROVE  CellRight(w, b, q)
<1>1. w[q] = v[p] /\ (m > 1 => w[q - 1] = v[p - 1])
  <2>1. CellsAlike(v, a, p, w, b, q)
    BY CellsMoved
  <2>2. QED
    BY <2>1 DEF CellsAlike
<1>2. /\ q = b + 1 <=> m = 1
      /\ p = a + 1 <=> m = 1
      /\ q = b + 2 <=> m = 2
      /\ p = a + 2 <=> m = 2
      /\ q > b + 1 <=> m > 1
      /\ p > a + 1 <=> m > 1
  OBVIOUS
<1> DEFINE c == w[q]
           d == w[q - 1]
<1>3. /\ c.kind \in {"START_MAGIC", "TORN_MAGIC"} <=> m = 1
      /\ HasId(c, StreamHeaderId) <=> m = 2
      /\ m = 2 => c.body \in [metadata_refers_forward : BOOLEAN]
      /\ HasId(c, EndCompressedSectionId) => c.z
      /\ HasId(c, StartCompressedSectionId) \/ HasId(c, StreamFooterId) => ~c.z
  BY <1>1, <1>2 DEF CellRight
<1>4. /\ c.z <=> m > 1 /\ Opens(d)
      /\ c.kind = "ZlibEnd" <=> m > 1 /\ HasId(d, EndCompressedSectionId)
      /\ c.kind = "FooterSize" <=> m > 1 /\ HasId(d, StreamFooterId)
      /\ c.kind = "END_MAGIC" <=> m > 1 /\ d.kind = "FooterSize"
      /\ m > 1 => d.kind \notin {"END_MAGIC", "TORN_MAGIC"}
  BY <1>1, <1>2 DEF CellRight
<1>5. HasId(c, ProtoClassId) => DefinesRight(w, b, q)
  <2>1. SUFFICES ASSUME HasId(c, ProtoClassId) PROVE DefinesRight(w, b, q)
    OBVIOUS
  <2>2. m > 1
    BY <1>3, <2>1 DEF HasId
  <2>3. DefinesRight(v, a, p)
    BY <1>1, <2>1 DEF CellRight
  <2>4. QED
    BY <2>2, <2>3, DefinesMoved
<1>6. IsUserMessage(c) => UsesRight(w, b, q)
  <2>1. SUFFICES ASSUME IsUserMessage(c) PROVE UsesRight(w, b, q)
    OBVIOUS
  <2>2. m > 1
    BY <1>3, <2>1 DEF IsUserMessage
  <2>3. UsesRight(v, a, p)
    BY <1>1, <2>1 DEF CellRight
  <2>4. QED
    BY <2>2, <2>3, UsesMoved
<1>7. HasId(c, StreamFooterId) => SummaryRight(w, b, q)
  <2>1. SUFFICES ASSUME HasId(c, StreamFooterId) PROVE SummaryRight(w, b, q)
    OBVIOUS
  <2>2. SummaryRight(v, a, p)
    BY <1>1, <2>1 DEF CellRight
  <2>3. QED
    BY <2>2, SummaryMoved
<1> HIDE DEF c, d
<1>8. QED
  BY <1>2, <1>3, <1>4, <1>5, <1>6, <1>7 DEF CellRight, c, d

LEMMA StreamMoved ==
  ASSUME NEW v, NEW a \in Nat, NEW w, NEW b \in Nat, NEW m \in Nat, Alike(v, a, w, b, m),
         StreamTo(v, a, a + m)
  PROVE  StreamTo(w, b, b + m)
<1>1. ASSUME NEW i \in b + 1 .. b + m PROVE CellRight(w, b, i)
  <2>1. PICK j \in a + 1 .. a + m : Same(a, b, j, i)
    BY TheSame
  <2>2. CellRight(v, a, j)
    BY DEF StreamTo
  <2> DEFINE k == i - b
  <2>3. k \in Nat /\ k >= 1 /\ i = b + k /\ j = a + k
    BY <2>1 DEF Same
  <2>4. \A x \in b + 1 .. b + k : x \in b + 1 .. b + m
    OBVIOUS
  <2>5. \A x \in a + 1 .. a + k : x \in a + 1 .. a + m
    BY <2>3
  <2> HIDE DEF k
  <2>6. Alike(v, a, w, b, k)
    BY <2>4, <2>5 DEF Alike
  <2>7. QED
    BY <2>2, <2>3, <2>6, CellMoved
<1>2. QED
  BY <1>1 DEF StreamTo
-----------------------------------------------------------------------------
(* One cell more                                                            *)

\* What a cell adds to a stream
Grown(w, v, c, n) ==
    /\ v \in Seq(PyCell) /\ Len(v) = n + 1 /\ v[n + 1] = c
    /\ \A i \in 1 .. n : v[i] = w[i]
    /\ \A i \in 0 .. n : /\ Defining(v, 0, i) = Defining(w, 0, i)
                         /\ Applying(v, 0, i) = Applying(w, 0, i)
                         /\ Known(v, 0, i) = Known(w, 0, i)
    /\ Defining(v, 0, n + 1)
         = Defining(w, 0, n) \cup (IF HasId(c, ProtoClassId) THEN {n + 1} ELSE {})
    /\ Applying(v, 0, n + 1)
         = Applying(w, 0, n) \cup (IF IsMetadata(c) THEN {n + 1} ELSE {})
    /\ Known(v, 0, n + 1) = Known(w, 0, n) \cup
         (IF HasId(c, ProtoClassId) THEN ToSet(c.body.file_descriptor) ELSE {})

LEMMA CellGrows ==
  ASSUME NEW w \in Seq(PyCell), NEW c \in PyCell, NEW n, n = Len(w)
  PROVE  Grown(w, Append(w, c), c, n)
<1> DEFINE v == Append(w, c)
<1>1. /\ n \in Nat /\ v \in Seq(PyCell) /\ Len(v) = n + 1 /\ v[n + 1] = c
      /\ \A i \in 1 .. n : v[i] = w[i]
  OBVIOUS
<1> HIDE DEF v
<1>2. ASSUME NEW i \in 0 .. n
      PROVE  /\ Defining(v, 0, i) = Defining(w, 0, i)
             /\ Applying(v, 0, i) = Applying(w, 0, i)
             /\ Known(v, 0, i) = Known(w, 0, i)
  <2>1. \A j \in 0 + 1 .. i : v[j] = w[j]
    BY <1>1
  <2>2. Defining(v, 0, i) = Defining(w, 0, i) /\ Applying(v, 0, i) = Applying(w, 0, i)
    BY <2>1 DEF Defining, Applying
  <2>3. \A j \in Defining(w, 0, i) : v[j] = w[j]
    BY <2>1 DEF Defining
  <2>4. Known(v, 0, i) = Known(w, 0, i)
    BY <2>2, <2>3 DEF Known
  <2>5. QED
    BY <2>2, <2>4
<1>3. \A j \in 0 + 1 .. n + 1 : j \in 0 + 1 .. n \/ j = n + 1
  BY <1>1
<1>4. \A j \in 0 + 1 .. n : j \in 0 + 1 .. n + 1 /\ v[j] = w[j]
  BY <1>1
<1>5. n + 1 \in 0 + 1 .. n + 1
  BY <1>1
<1>6. Defining(v, 0, n + 1)
        = Defining(w, 0, n) \cup (IF HasId(c, ProtoClassId) THEN {n + 1} ELSE {})
  BY <1>1, <1>3, <1>4, <1>5 DEF Defining
<1>7. Applying(v, 0, n + 1)
        = Applying(w, 0, n) \cup (IF IsMetadata(c) THEN {n + 1} ELSE {})
  BY <1>1, <1>3, <1>4, <1>5 DEF Applying
<1>8. Known(v, 0, n + 1) = Known(w, 0, n) \cup
        (IF HasId(c, ProtoClassId) THEN ToSet(c.body.file_descriptor) ELSE {})
  <2>1. \A j \in Defining(w, 0, n) : v[j] = w[j]
    BY <1>4 DEF Defining
  <2>2. QED
    BY <1>1, <1>6, <2>1 DEF Known
<1>9. QED
  BY <1>1, <1>2, <1>6, <1>7, <1>8 DEF Grown, v

LEMMA StreamGrows ==
  ASSUME NEW w, NEW v, NEW c, NEW n \in Nat, Grown(w, v, c, n),
         StreamTo(w, 0, n), CellRight(v, 0, n + 1)
  PROVE  StreamTo(v, 0, n + 1)
<1>1. Alike(w, 0, v, 0, n)
  <2>1. ASSUME NEW i \in 0 + 1 .. 0 + n, NEW j \in 0 + 1 .. 0 + n, Same(0, 0, j, i)
        PROVE  v[i] = w[j]
    BY <2>1 DEF Same, Grown
  <2>2. QED
    BY <2>1 DEF Alike
<1>2. StreamTo(w, 0, 0 + n)
  OBVIOUS
<1>3. StreamTo(v, 0, 0 + n)
  BY <1>1, <1>2, StreamMoved
<1>4. \A k \in 0 + 1 .. n + 1 : k \in 0 + 1 .. 0 + n \/ k = n + 1
  OBVIOUS
<1>5. QED
  BY <1>3, <1>4 DEF StreamTo
-----------------------------------------------------------------------------
(* The writer's helpers                                                     *)

\* What writing a cell leaves alone
Books(s, t) ==
    /\ t.compression = s.compression
    /\ t.metadata_refers_forward = s.metadata_refers_forward
    /\ t.closed = s.closed /\ t.status = s.status
    /\ t.next_class_id = s.next_class_id
    /\ t.next_metadata_class_id = s.next_metadata_class_id
    /\ t.class_id = s.class_id /\ t.written_fdps = s.written_fdps

\* The object behind one more cell
Longer(s, r, cell) ==
    /\ Books(s, r)
    /\ r.metadata_offsets = s.metadata_offsets
    /\ r.protoclass_offsets = s.protoclass_offsets
    /\ r.wire = Append(s.wire, cell) /\ r.bytes_written = s.bytes_written + 1
    /\ r.zbytes = (IF s.compressed THEN s.zbytes + 1 ELSE s.zbytes)
    /\ r.pre = s.pre /\ r.compressed = s.compressed

LEMMA PutIs ==
  ASSUME NEW C, NEW s \in PyStreams(C), NEW cell \in PyCell, NEW r, r = Put(s, cell)
  PROVE  r \in PyStreams(C) /\ Longer(s, r, cell)
<1>1. Append(s.wire, cell) \in Seq(PyCell) /\ s.bytes_written + 1 \in Nat
      /\ (IF s.compressed THEN s.zbytes + 1 ELSE s.zbytes) \in Nat
  BY DEF PyStreams
<1>2. QED
  BY <1>1 DEF PyStreams, Put, Books, Longer

LEMMA PyMessageIs ==
  ASSUME NEW id \in Nat, NEW body \in PyBody, NEW z \in BOOLEAN
  PROVE  LET c == Message(id, body, z) IN
         /\ c \in PyCell /\ c.kind = "message" /\ c.id = id /\ c.body = body /\ c.z = z
BY DEF Message, PyCell

\* A writer that can go on
Core(s, C) ==
    /\ C \in SUBSET Class /\ s \in PyStreams(C)
    /\ StreamTo(s.wire, 0, Len(s.wire)) /\ Stands(s)

LEMMA WireIs ==
  ASSUME NEW C, NEW s, Core(s, C)
  PROVE  /\ s.wire \in Seq(PyCell) /\ Len(s.wire) \in Nat /\ Len(s.wire) >= 2
         /\ s.compressed \in BOOLEAN /\ s.compression \in BOOLEAN
         /\ s.bytes_written \in Nat /\ s.zbytes \in Nat /\ s.pre \in Nat
         /\ s.compressed <=> Opens(s.wire[Len(s.wire)])
BY DEF Core, Stands, PyStreams

\* What must hold of a message behind cell n for the stream to stay right
Fits(v, n, id, z) ==
    /\ id # StreamHeaderId
    /\ id = EndCompressedSectionId => z
    /\ id = StartCompressedSectionId \/ id = StreamFooterId => ~z
    /\ id = ProtoClassId => DefinesRight(v, 0, n + 1)
    /\ id \notin FixedIds => UsesRight(v, 0, n + 1)
    /\ id = StreamFooterId => SummaryRight(v, 0, n + 1)

LEMMA MessageRight ==
  ASSUME NEW C, NEW s, Core(s, C), NEW n, n = Len(s.wire), NEW v, NEW c,
         Grown(s.wire, v, c, n), c.kind = "message", c.z = s.compressed,
         Fits(v, n, c.id, c.z)
  PROVE  CellRight(v, 0, n + 1)
<1>1. n \in Nat /\ n >= 2 /\ v[n + 1] = c /\ v[n] = s.wire[n]
  BY WireIs DEF Grown
<1>2. /\ v[n].kind \in {"message", "ZlibEnd"}
      /\ ~HasId(v[n], StreamFooterId) /\ ~HasId(v[n], EndCompressedSectionId)
      /\ c.z <=> Opens(v[n])
  BY <1>1 DEF Core, Stands
<1> DEFINE k == n + 1
<1>3. k - 1 = n /\ k # 0 + 1 /\ k # 0 + 2 /\ k > 0 + 1
  BY <1>1
<1>4. v[k] = c /\ v[k - 1] = v[n]
  BY <1>1, <1>3
<1> HIDE DEF k
<1>5. /\ ~HasId(c, StreamHeaderId)
      /\ HasId(c, EndCompressedSectionId) => c.z
      /\ HasId(c, StartCompressedSectionId) \/ HasId(c, StreamFooterId) => ~c.z
      /\ HasId(c, ProtoClassId) => DefinesRight(v, 0, k)
      /\ IsUserMessage(c) => UsesRight(v, 0, k)
      /\ HasId(c, StreamFooterId) => SummaryRight(v, 0, k)
  BY DEF Fits, HasId, IsUserMessage, k
<1>6. /\ c.kind \notin {"START_MAGIC", "TORN_MAGIC", "ZlibEnd", "FooterSize", "END_MAGIC"}
      /\ v[n].kind \notin {"FooterSize", "END_MAGIC", "TORN_MAGIC"}
  BY <1>2
<1>7. CellRight(v, 0, k)
  BY <1>2, <1>3, <1>4, <1>5, <1>6 DEF CellRight
<1>8. QED
  BY <1>7 DEF k

\* The object behind one more message
Wrote(s, r, id, body, n, C) ==
    /\ r \in PyStreams(C) /\ Longer(s, r, Message(id, body, s.compressed))
    /\ Grown(s.wire, r.wire, r.wire[n + 1], n)
    /\ r.wire[n + 1].kind = "message" /\ r.wire[n + 1].id = id
    /\ r.wire[n + 1].body = body /\ r.wire[n + 1].z = s.compressed
    /\ Len(r.wire) = n + 1 /\ StreamTo(r.wire, 0, n + 1)

\* write_message leaves the stream right, if the message fits.
LEMMA WriteMessageRight ==
  ASSUME NEW C, NEW s, Core(s, C), NEW id \in Nat, NEW body \in PyBody,
         NEW n, n = Len(s.wire), NEW r, r = PyWriteMessage(s, id, body),
         Fits(Append(s.wire, Message(id, body, s.compressed)), n, id, s.compressed)
  PROVE  Wrote(s, r, id, body, n, C)
<1> DEFINE c == Message(id, body, s.compressed)
           v == Append(s.wire, c)
<1>1. c \in PyCell /\ c.kind = "message" /\ c.id = id /\ c.body = body /\ c.z = s.compressed
  BY WireIs, PyMessageIs
<1>2. s \in PyStreams(C) /\ s.wire \in Seq(PyCell) /\ n \in Nat
  BY WireIs DEF Core
<1>3. r = Put(s, c)
  BY DEF PyWriteMessage
<1> HIDE DEF c
<1>4. r \in PyStreams(C) /\ Longer(s, r, c)
  BY <1>1, <1>2, <1>3, PutIs
<1>5. Grown(s.wire, v, c, n)
  BY <1>1, <1>2, CellGrows
<1> HIDE DEF v
<1>6. v[n + 1] = c /\ Len(v) = n + 1
  BY <1>5 DEF Grown
<1>7. Fits(v, n, c.id, c.z)
  BY <1>1 DEF v, c
<1>8. CellRight(v, 0, n + 1)
  BY <1>1, <1>5, <1>7, MessageRight
<1>9. StreamTo(s.wire, 0, n)
  BY DEF Core
<1>10. StreamTo(v, 0, n + 1)
  BY <1>2, <1>5, <1>8, <1>9, StreamGrows
<1>11. QED
  <2>1. r.wire = v
    BY <1>4 DEF Longer, v
  <2>2. QED
    BY <1>1, <1>4, <1>5, <1>6, <1>10, <2>1 DEF c, Wrote

\* A message that is neither the end of a section nor a footer, nor opens a section
LEMMA WriteMessageStands ==
  ASSUME NEW C, NEW s, Core(s, C), NEW id \in Nat, NEW body \in PyBody,
         NEW n, n = Len(s.wire), NEW r, r = PyWriteMessage(s, id, body),
         Fits(Append(s.wire, Message(id, body, s.compressed)), n, id, s.compressed),
         id \notin {StartCompressedSectionId, EndCompressedSectionId, StreamFooterId}
  PROVE  Core(r, C)
<1>0. Wrote(s, r, id, body, n, C)
  BY WriteMessageRight
<1>1. /\ r \in PyStreams(C) /\ Len(r.wire) = n + 1 /\ StreamTo(r.wire, 0, n + 1)
      /\ r.wire[n + 1].kind = "message" /\ r.wire[n + 1].id = id
      /\ r.wire[n + 1].z = s.compressed /\ Longer(s, r, Message(id, body, s.compressed))
  BY <1>0 DEF Wrote
<1>11. /\ r.bytes_written = s.bytes_written + 1
      /\ r.zbytes = (IF s.compressed THEN s.zbytes + 1 ELSE s.zbytes)
      /\ r.pre = s.pre /\ r.compressed = s.compressed
  BY <1>1 DEF Longer
<1>2. n \in Nat /\ n >= 2 /\ s.zbytes \in Nat /\ s.pre \in Nat /\ s.bytes_written \in Nat
  BY WireIs
<1>3. IF s.compressed THEN s.zbytes + s.pre = n ELSE s.bytes_written = n
  BY DEF Core, Stands
<1>4. IF r.compressed THEN r.zbytes + r.pre = n + 1 ELSE r.bytes_written = n + 1
  <2>1. CASE s.compressed
    <3>1. s.zbytes + s.pre = n /\ r.zbytes = s.zbytes + 1 /\ r.pre = s.pre
      BY <1>1, <1>11, <1>3, <2>1
    <3>2. r.zbytes + r.pre = n + 1
      BY <1>2, <3>1, SMTT(30)
    <3>3. QED
      BY <1>11, <2>1, <3>2
  <2>2. CASE ~s.compressed
    <3>1. r.bytes_written = n + 1
      BY <1>1, <1>11, <1>2, <1>3, <2>2
    <3>2. QED
      BY <1>11, <2>2, <3>1
  <2>3. QED
    BY <2>1, <2>2
<1>5. s.compressed \in BOOLEAN
  BY WireIs
<1>6. r.compressed <=> Opens(r.wire[n + 1])
  BY <1>1, <1>11, <1>5 DEF Opens, IsMessage
<1>7. ~HasId(r.wire[n + 1], StreamFooterId) /\ ~HasId(r.wire[n + 1], EndCompressedSectionId)
  BY <1>1 DEF HasId
<1>8. Stands(r)
  BY <1>1, <1>2, <1>4, <1>6, <1>7 DEF Stands
<1>9. QED
  BY <1>1, <1>8 DEF Core

\* What is between the messages of the client: the same ProtoClasses, the same metadata
Quiet(w, v) ==
    /\ Len(w) \in Nat /\ Len(v) \in Nat /\ Len(w) <= Len(v)
    /\ \A i \in 1 .. Len(w) : v[i] = w[i]
    /\ Defining(v, 0, Len(v)) = Defining(w, 0, Len(w))
    /\ Applying(v, 0, Len(v)) = Applying(w, 0, Len(w))
    /\ Known(v, 0, Len(v)) = Known(w, 0, Len(w))

LEMMA QuietGrows ==
  ASSUME NEW w, NEW v, NEW c, NEW n, n = Len(w), n \in Nat, Grown(w, v, c, n),
         ~HasId(c, ProtoClassId), ~IsMetadata(c)
  PROVE  Quiet(w, v)
<1>1. Len(v) = n + 1 /\ Len(w) <= Len(v)
  BY DEF Grown
<1>2. /\ Defining(v, 0, n + 1) = Defining(w, 0, n) /\ Applying(v, 0, n + 1) = Applying(w, 0, n)
      /\ Known(v, 0, n + 1) = Known(w, 0, n)
  BY DEF Grown
<1>3. \A i \in 1 .. n : v[i] = w[i]
  BY DEF Grown
<1>4. QED
  BY <1>1, <1>2, <1>3 DEF Quiet

LEMMA QuietTwice ==
  ASSUME NEW u, NEW v, NEW w, Quiet(u, v), Quiet(v, w)
  PROVE  Quiet(u, w)
<1>1. ASSUME NEW i \in 1 .. Len(u) PROVE w[i] = u[i]
  <2>1. i \in 1 .. Len(v)
    BY DEF Quiet
  <2>2. w[i] = v[i] /\ v[i] = u[i]
    BY <2>1 DEF Quiet
  <2>3. QED
    BY <2>2
<1>2. Len(u) <= Len(w)
  BY DEF Quiet
<1>3. QED
  BY <1>1, <1>2 DEF Quiet

\* The object is the same one but for what it has written between two messages.
Between(s, t) ==
    /\ Books(s, t) /\ Quiet(s.wire, t.wire)
    /\ t.metadata_offsets = s.metadata_offsets
    /\ t.protoclass_offsets = s.protoclass_offsets

LEMMA StartSection ==
  ASSUME NEW C, NEW s, Core(s, C), ~s.compressed, NEW t, t = PyStartCompression(s)
  PROVE  /\ Core(t, C) /\ Between(s, t) /\ t.compressed
         /\ Len(t.wire) = Len(s.wire) + 1
         /\ HasId(t.wire[Len(t.wire)], StartCompressedSectionId)
<1> DEFINE body == [compression |-> "ZLIB"]
           n == Len(s.wire)
           id == StartCompressedSectionId
           r == PyWriteMessage(s, id, body)
           c == Message(id, body, s.compressed)
<1>1. body \in PyBody /\ id \in Nat
  BY PyIdsDiffer DEF PyBody
<1>2. Fits(Append(s.wire, c), n, id, s.compressed)
  BY PyIdsDiffer DEF Fits, FixedIds
<1>3. n \in Nat /\ n >= 2 /\ s.compressed \in BOOLEAN /\ C \in SUBSET Class
  BY WireIs DEF Core
<1> HIDE DEF id, body, n, r
<1>4. /\ r \in PyStreams(C) /\ Longer(s, r, c) /\ Grown(s.wire, r.wire, r.wire[n + 1], n)
      /\ r.wire[n + 1].kind = "message" /\ r.wire[n + 1].id = id
      /\ r.wire[n + 1].z = s.compressed
      /\ Len(r.wire) = n + 1 /\ StreamTo(r.wire, 0, n + 1)
  <2>1. Wrote(s, r, id, body, n, C)
    BY <1>1, <1>2, WriteMessageRight DEF n, r
  <2>2. QED
    BY <2>1 DEF Wrote
<1>5. t = [r EXCEPT !.pre = r.bytes_written, !.compressed = TRUE, !.zbytes = 0]
  BY DEF PyStartCompression, r, id, body
<1>6. /\ t \in PyStreams(C) /\ t.wire = r.wire /\ t.compressed = TRUE /\ t.zbytes = 0
      /\ t.pre = r.bytes_written /\ Books(r, t) /\ t.metadata_offsets = r.metadata_offsets
      /\ t.protoclass_offsets = r.protoclass_offsets
  <2>1. r.bytes_written \in Nat /\ 0 \in Nat
    BY <1>4 DEF PyStreams
  <2>2. QED
    BY <1>4, <1>5, <2>1, Zenon DEF PyStreams, Books
<1>7. r.bytes_written = n + 1
  <2>1. s.bytes_written = n
    BY DEF Core, Stands, n
  <2>2. QED
    BY <1>4, <2>1 DEF Longer
<1>8. HasId(t.wire[n + 1], StartCompressedSectionId)
  BY <1>4, <1>6 DEF HasId, id
<1>9. Stands(t)
  <2>1. Len(t.wire) = n + 1 /\ n + 1 >= 2 /\ t.zbytes + t.pre = n + 1
    BY <1>3, <1>4, <1>6, <1>7
  <2>2. /\ t.wire[n + 1].kind = "message" /\ Opens(t.wire[n + 1])
        /\ ~HasId(t.wire[n + 1], StreamFooterId)
        /\ ~HasId(t.wire[n + 1], EndCompressedSectionId)
    BY <1>4, <1>6, PyIdsDiffer DEF HasId, Opens, IsMessage, id
  <2>3. QED
    BY <1>6, <2>1, <2>2 DEF Stands
<1>10. Core(t, C)
  BY <1>3, <1>4, <1>6, <1>9 DEF Core
<1>11. Quiet(s.wire, r.wire)
  <2>1. ~HasId(r.wire[n + 1], ProtoClassId) /\ ~IsMetadata(r.wire[n + 1])
    BY <1>4, PyIdsDiffer DEF HasId, IsMetadata, IsUserMessage, FixedIds, id
  <2>2. QED
    BY <1>3, <1>4, <2>1, QuietGrows DEF n
<1>12. Between(s, t)
  BY <1>4, <1>6, <1>11 DEF Between, Longer, Books
<1>13. QED
  BY <1>4, <1>6, <1>8, <1>10, <1>12 DEF n

\* The checksum behind the end of a section
LEMMA ChecksumRight ==
  ASSUME NEW v, NEW w, NEW n \in Nat, n >= 2, Grown(w, v, ZlibEnd, n),
         HasId(w[n], EndCompressedSectionId), w[n].z
  PROVE  CellRight(v, 0, n + 1)
<1> DEFINE k == n + 1
           c == ZlibEnd
<1>1. k - 1 = n /\ k # 0 + 1 /\ k # 0 + 2 /\ k > 0 + 1
  OBVIOUS
<1>2. v[k] = c /\ v[k - 1] = w[n]
  BY <1>1 DEF Grown
<1>3. /\ c.kind = "ZlibEnd" /\ c.z /\ ~HasId(c, StreamHeaderId) /\ ~HasId(c, EndCompressedSectionId)
      /\ ~HasId(c, StartCompressedSectionId) /\ ~HasId(c, StreamFooterId)
      /\ ~HasId(c, ProtoClassId) /\ ~IsUserMessage(c)
  BY DEF ZlibEnd, HasId, IsUserMessage
<1>4. /\ Opens(w[n]) /\ ~HasId(w[n], StreamFooterId) /\ w[n].kind = "message"
  BY PyIdsDiffer DEF Opens, HasId, IsMessage
<1> HIDE DEF k, c
<1>5. CellRight(v, 0, k)
  BY <1>1, <1>2, <1>3, <1>4 DEF CellRight
<1>6. QED
  BY <1>5 DEF k

LEMMA StopSection ==
  ASSUME NEW C, NEW s, Core(s, C), s.compressed, NEW t, t = PyStopCompression(s)
  PROVE  /\ Core(t, C) /\ Between(s, t) /\ ~t.compressed
         /\ t.bytes_written = Len(t.wire)
<1> DEFINE n == Len(s.wire)
           id == EndCompressedSectionId
           r == PyWriteMessage(s, id, NoBody)
           c == Message(id, NoBody, s.compressed)
           q == CloseZlib(r)
<1>1. NoBody \in PyBody /\ id \in Nat
  BY PyIdsDiffer DEF PyBody
<1>2. Fits(Append(s.wire, c), n, id, s.compressed)
  BY PyIdsDiffer DEF Fits, FixedIds
<1>3. n \in Nat /\ n >= 2 /\ s.compressed = TRUE /\ C \in SUBSET Class
  BY WireIs DEF Core
<1> HIDE DEF id, n, r
<1>4. /\ r \in PyStreams(C) /\ Longer(s, r, c) /\ Grown(s.wire, r.wire, r.wire[n + 1], n)
      /\ r.wire[n + 1].kind = "message" /\ r.wire[n + 1].id = id
      /\ r.wire[n + 1].z = s.compressed
      /\ Len(r.wire) = n + 1 /\ StreamTo(r.wire, 0, n + 1)
  <2>1. Wrote(s, r, id, NoBody, n, C)
    BY <1>1, <1>2, WriteMessageRight DEF n, r
  <2>2. QED
    BY <2>1 DEF Wrote
<1>5. ZlibEnd \in PyCell
  BY DEF ZlibEnd, PyCell, PyBody
<1>6. Append(r.wire, ZlibEnd) \in Seq(PyCell) /\ r.zbytes + 1 \in Nat /\ r.wire \in Seq(PyCell)
  BY <1>4, <1>5 DEF PyStreams
<1>7. /\ q \in PyStreams(C) /\ q.wire = Append(r.wire, ZlibEnd) /\ q.zbytes = r.zbytes + 1
      /\ q.pre = r.pre /\ Books(r, q) /\ q.metadata_offsets = r.metadata_offsets
      /\ q.protoclass_offsets = r.protoclass_offsets
  BY <1>4, <1>6 DEF PyStreams, CloseZlib, Books
<1>8. t = [q EXCEPT !.bytes_written = q.zbytes + q.pre, !.compressed = FALSE]
  BY DEF PyStopCompression, r, id
<1> HIDE DEF q
<1>9. q.zbytes + q.pre \in Nat
  BY <1>7 DEF PyStreams
<1>10. /\ t \in PyStreams(C) /\ t.wire = q.wire /\ t.compressed = FALSE
       /\ t.bytes_written = q.zbytes + q.pre /\ Books(q, t)
       /\ t.metadata_offsets = q.metadata_offsets
       /\ t.protoclass_offsets = q.protoclass_offsets
  BY <1>7, <1>8, <1>9, Zenon DEF PyStreams, Books
<1>11. Grown(r.wire, t.wire, ZlibEnd, n + 1)
  BY <1>4, <1>5, <1>6, <1>7, <1>10, CellGrows
<1>12. n + 1 \in Nat /\ n + 1 >= 2 /\ (n + 1) + 1 = n + 2
  BY <1>3
<1>13. CellRight(t.wire, 0, (n + 1) + 1)
  <2>1. HasId(r.wire[n + 1], EndCompressedSectionId) /\ r.wire[n + 1].z
    BY <1>3, <1>4 DEF HasId, id
  <2>2. QED
    BY <1>11, <1>12, <2>1, ChecksumRight
<1>14. StreamTo(t.wire, 0, (n + 1) + 1)
  BY <1>4, <1>11, <1>12, <1>13, StreamGrows
<1>15. Len(t.wire) = n + 2 /\ t.wire[n + 2] = ZlibEnd
  BY <1>11, <1>12 DEF Grown
<1>16. t.bytes_written = n + 2
  <2>1. s.zbytes + s.pre = n
    BY DEF Core, Stands, n
  <2>2. r.zbytes = s.zbytes + 1 /\ r.pre = s.pre
    BY <1>3, <1>4 DEF Longer
  <2>3. s.zbytes \in Nat /\ s.pre \in Nat
    BY WireIs
  <2>4. QED
    <3>1. q.zbytes = s.zbytes + 2 /\ q.pre = s.pre
      BY <1>7, <2>2, <2>3
    <3>2. QED
      BY <1>3, <1>10, <2>1, <2>3, <3>1
<1>17. Stands(t)
  <2>1. /\ ZlibEnd.kind = "ZlibEnd" /\ ~HasId(ZlibEnd, StreamFooterId)
        /\ ~HasId(ZlibEnd, EndCompressedSectionId) /\ ~Opens(ZlibEnd)
    BY DEF ZlibEnd, HasId, Opens, IsMessage
  <2>2. QED
    BY <1>3, <1>10, <1>15, <1>16, <2>1 DEF Stands
<1>18. Core(t, C)
  BY <1>3, <1>10, <1>12, <1>14, <1>15, <1>17 DEF Core
<1>19. Quiet(s.wire, r.wire)
  <2>1. ~HasId(r.wire[n + 1], ProtoClassId) /\ ~IsMetadata(r.wire[n + 1])
    BY <1>4, PyIdsDiffer DEF HasId, IsMetadata, IsUserMessage, FixedIds, id
  <2>2. QED
    BY <1>3, <1>4, <2>1, QuietGrows DEF n
<1>20. Quiet(r.wire, t.wire)
  <2>1. ~HasId(ZlibEnd, ProtoClassId) /\ ~IsMetadata(ZlibEnd)
    BY DEF ZlibEnd, HasId, IsMetadata, IsUserMessage
  <2>2. QED
    BY <1>4, <1>11, <1>12, <2>1, QuietGrows
<1>21. Between(s, t)
  <2>1. Quiet(s.wire, t.wire)
    BY <1>19, <1>20, QuietTwice
  <2>2. QED
    BY <1>4, <1>7, <1>10, <2>1, Zenon DEF Between, Longer, Books
<1>22. QED
  BY <1>10, <1>15, <1>16, <1>18, <1>21

\* AtOffset, up to the message itself
Noted(t, offsets) == [t EXCEPT ![offsets] = Append(@, t.bytes_written)]
Before(s, offsets) ==
    LET r == Noted(IF s.compressed THEN PyStopCompression(s) ELSE s, offsets)
    IN IF s.compression THEN PyStartCompression(r) ELSE r

LEMMA AtOffsetIs ==
  ASSUME NEW s, NEW offsets, NEW id, NEW body
  PROVE  AtOffset(s, offsets, id, body) = PyWriteMessage(Before(s, offsets), id, body)
BY DEF AtOffset, Before, Noted

\* The offset o is that of the message that comes next.
Offsets(s, offsets, name, o) ==
    IF offsets = name THEN Append(s[name], o) ELSE s[name]
Addresses(s, q, offsets, o) ==
    /\ o \in Nat /\ Len(s.wire) <= o
    /\ o = IF q.compressed THEN Len(q.wire) - 1 ELSE Len(q.wire)
    /\ q.metadata_offsets = Offsets(s, offsets, "metadata_offsets", o)
    /\ q.protoclass_offsets = Offsets(s, offsets, "protoclass_offsets", o)

LEMMA NotedRight ==
  ASSUME NEW C, NEW t, Core(t, C), ~t.compressed, t.bytes_written = Len(t.wire),
         NEW offsets \in {"metadata_offsets", "protoclass_offsets"},
         NEW r, r = Noted(t, offsets)
  PROVE  /\ Core(r, C) /\ Books(t, r) /\ r.wire = t.wire /\ ~r.compressed
         /\ Addresses(t, r, offsets, Len(t.wire))
<1>1. t \in PyStreams(C) /\ t.bytes_written \in Nat /\ Len(t.wire) \in Nat
  BY WireIs DEF Core
<1>2. /\ Append(t.metadata_offsets, t.bytes_written) \in Seq(Nat)
      /\ Append(t.protoclass_offsets, t.bytes_written) \in Seq(Nat)
  BY <1>1 DEF PyStreams
<1>3. /\ r \in PyStreams(C) /\ Books(t, r) /\ r.wire = t.wire /\ r.compressed = t.compressed
      /\ r.bytes_written = t.bytes_written /\ r.zbytes = t.zbytes /\ r.pre = t.pre
      /\ r.metadata_offsets = Offsets(t, offsets, "metadata_offsets", Len(t.wire))
      /\ r.protoclass_offsets = Offsets(t, offsets, "protoclass_offsets", Len(t.wire))
  <2>1. CASE offsets = "metadata_offsets"
    <3>1. r = [t EXCEPT !.metadata_offsets = Append(@, t.bytes_written)]
      BY <2>1 DEF Noted
    <3>2. QED
      BY <1>1, <1>2, <2>1, <3>1 DEF PyStreams, Books, Offsets
  <2>2. CASE offsets = "protoclass_offsets"
    <3>1. r = [t EXCEPT !.protoclass_offsets = Append(@, t.bytes_written)]
      BY <2>2 DEF Noted
    <3>2. QED
      BY <1>1, <1>2, <2>2, <3>1, Zenon DEF PyStreams, Books, Offsets
  <2>3. QED
    BY <2>1, <2>2
<1>4. Core(r, C)
  <2>1. Stands(r)
    BY <1>3 DEF Core, Stands
  <2>2. QED
    BY <1>3, <2>1 DEF Core
<1>5. Addresses(t, r, offsets, Len(t.wire))
  BY <1>1, <1>3 DEF Addresses
<1>6. QED
  BY <1>3, <1>4, <1>5

LEMMA BeforeRight ==
  ASSUME NEW C, NEW s, Core(s, C),
         NEW offsets \in {"metadata_offsets", "protoclass_offsets"},
         NEW q, q = Before(s, offsets)
  PROVE  /\ Core(q, C) /\ Books(s, q) /\ Quiet(s.wire, q.wire)
         /\ q.compressed = s.compression
         /\ q.compressed => HasId(q.wire[Len(q.wire)], StartCompressedSectionId)
         /\ \E o \in Nat : Addresses(s, q, offsets, o)
<1> DEFINE t == IF s.compressed THEN PyStopCompression(s) ELSE s
           r == Noted(t, offsets)
<1>1. q = IF s.compression THEN PyStartCompression(r) ELSE r
  BY DEF Before
<1>2. s.compressed \in BOOLEAN /\ s.compression \in BOOLEAN /\ Len(s.wire) \in Nat
  BY WireIs
<1>3. Core(t, C) /\ Between(s, t) /\ ~t.compressed /\ t.bytes_written = Len(t.wire)
  <2>1. CASE s.compressed
    <3>1. t = PyStopCompression(s)
      BY <2>1
    <3> HIDE DEF t
    <3>2. QED
      BY <2>1, <3>1, StopSection
  <2>2. CASE ~s.compressed
    <3>1. t = s
      BY <2>2
    <3>2. s.bytes_written = Len(s.wire)
      BY <2>2 DEF Core, Stands
    <3>3. Between(s, s)
      BY <1>2 DEF Between, Books, Quiet
    <3>4. QED
      BY <2>2, <3>1, <3>2, <3>3
  <2>3. QED
    BY <2>1, <2>2
<1> HIDE DEF t
<1>4. /\ Core(r, C) /\ Books(t, r) /\ r.wire = t.wire /\ ~r.compressed
      /\ Addresses(t, r, offsets, Len(t.wire))
  BY <1>3, NotedRight
<1> HIDE DEF r
<1>5. /\ Core(q, C) /\ Between(r, q) /\ q.compressed = s.compression
      /\ Len(q.wire) = IF s.compression THEN Len(r.wire) + 1 ELSE Len(r.wire)
      /\ q.compressed => HasId(q.wire[Len(q.wire)], StartCompressedSectionId)
  <2>1. CASE s.compression
    <3>1. q = PyStartCompression(r)
      BY <1>1, <2>1
    <3>2. /\ Core(q, C) /\ Between(r, q) /\ q.compressed /\ Len(q.wire) = Len(r.wire) + 1
          /\ HasId(q.wire[Len(q.wire)], StartCompressedSectionId)
      BY <1>4, <3>1, StartSection
    <3>3. q.compressed \in BOOLEAN
      BY <3>2, WireIs
    <3>4. QED
      BY <1>2, <2>1, <3>2, <3>3
  <2>2. CASE ~s.compression
    <3>1. q = r /\ r.compressed \in BOOLEAN
      BY <1>1, <1>4, <2>2, WireIs
    <3>2. Len(r.wire) \in Nat
      BY <1>4, WireIs
    <3>3. Between(r, r)
      BY <3>2 DEF Between, Books, Quiet
    <3>4. QED
      BY <1>2, <1>4, <2>2, <3>1, <3>3
  <2>3. QED
    BY <2>1, <2>2
<1>6. Books(s, q)
  BY <1>3, <1>4, <1>5 DEF Between, Books
<1>7. Quiet(s.wire, q.wire)
  BY <1>3, <1>4, <1>5, QuietTwice DEF Between
<1>8. Addresses(s, q, offsets, Len(t.wire))
  <2>1. Len(t.wire) \in Nat /\ Len(s.wire) <= Len(t.wire)
    BY <1>3 DEF Between, Quiet
  <2>2. Len(t.wire) = IF q.compressed THEN Len(q.wire) - 1 ELSE Len(q.wire)
    BY <1>2, <1>4, <1>5, <2>1
  <2>3. /\ q.metadata_offsets = Offsets(s, offsets, "metadata_offsets", Len(t.wire))
        /\ q.protoclass_offsets = Offsets(s, offsets, "protoclass_offsets", Len(t.wire))
    BY <1>3, <1>4, <1>5 DEF Between, Addresses, Offsets
  <2>4. QED
    BY <2>1, <2>2, <2>3 DEF Addresses
<1>9. Len(t.wire) \in Nat
  BY <1>8 DEF Addresses
<1>10. QED
  BY <1>5, <1>6, <1>7, <1>8, <1>9
-----------------------------------------------------------------------------
(* The lists of offsets                                                     *)

LEMMA ListsSame ==
  ASSUME NEW w, NEW v, NEW n \in Nat, \A i \in 1 .. n : v[i] = w[i],
         NEW S \in SUBSET (1 .. n), NEW os, Lists(os, w, 0, S)
  PROVE  Lists(os, v, 0, S)
<1>1. \A j \in S : Place(v, j) = Place(w, j)
  BY DEF Place
<1>2. {Place(v, j) - 0 : j \in S} = {Place(w, j) - 0 : j \in S}
  BY <1>1
<1>3. QED
  BY <1>2 DEF Lists

LEMMA ListsGrow ==
  ASSUME NEW w, NEW m \in Nat, NEW S \in SUBSET (1 .. m),
         NEW os \in Seq(Nat), Lists(os, w, 0, S),
         NEW k \in Nat, NEW o \in Nat, o = Place(w, k), m <= o
  PROVE  Append(os, o) \in Seq(Nat) /\ Lists(Append(os, o), w, 0, S \cup {k})
<1> DEFINE l == Append(os, o)
           n == Len(os)
<1>1. l \in Seq(Nat) /\ n \in Nat /\ Len(l) = n + 1 /\ l[n + 1] = o /\ DOMAIN l = 1 .. n + 1
      /\ (\A i \in 1 .. n : l[i] = os[i]) /\ DOMAIN os = 1 .. n
  OBVIOUS
<1> HIDE DEF l, n
<1>2. ASSUME NEW i \in 1 .. n PROVE os[i] < o /\ os[i] \in Nat
  <2>1. os[i] \in ToSet(os) /\ os[i] \in Nat
    BY <1>1, SMTT(30) DEF ToSet
  <2>2. PICK j \in S : os[i] = Place(w, j) - 0
    BY <2>1 DEF Lists
  <2>3. j \in Nat /\ j <= m
    OBVIOUS
  <2>4. CASE w[j].z
    <3>1. os[i] = j - 2 - 0
      BY <2>2, <2>4 DEF Place
    <3>2. QED
      BY <2>1, <2>3, <3>1
  <2>5. CASE ~w[j].z
    <3>1. os[i] = j - 1 - 0
      BY <2>2, <2>5 DEF Place
    <3>2. QED
      BY <2>1, <2>3, <3>1
  <2>6. QED
    BY <2>4, <2>5
<1>3. Ascending(l)
  <2>1. ASSUME NEW i \in DOMAIN l, NEW j \in DOMAIN l, i < j PROVE l[i] < l[j]
    <3>1. i \in 1 .. n
      BY <1>1, <2>1
    <3>2. CASE j = n + 1
      BY <1>1, <1>2, <3>1, <3>2
    <3>3. CASE j # n + 1
      <4>1. j \in 1 .. n
        BY <1>1, <3>3
      <4>2. os[i] < os[j]
        BY <1>1, <2>1, <3>1, <4>1 DEF Lists, Ascending
      <4>3. QED
        BY <1>1, <3>1, <4>1, <4>2
    <3>4. QED
      BY <3>2, <3>3
  <2>2. QED
    BY <2>1 DEF Ascending
<1>4. ToSet(l) = ToSet(os) \cup {o}
  <2>1. \A i \in 1 .. n + 1 : i \in 1 .. n \/ i = n + 1
    BY <1>1
  <2>2. n + 1 \in 1 .. n + 1 /\ \A i \in 1 .. n : i \in 1 .. n + 1
    BY <1>1
  <2>3. QED
    BY <1>1, <2>1, <2>2 DEF ToSet
<1>5. Place(w, k) - 0 = o
  OBVIOUS
<1>6. {Place(w, j) - 0 : j \in S \cup {k}} = {Place(w, j) - 0 : j \in S} \cup {o}
  BY <1>5
<1>7. QED
  BY <1>1, <1>3, <1>4, <1>6 DEF Lists, l
-----------------------------------------------------------------------------
(* A class that is new                                                      *)

\* The writer between a ProtoClass and the first message of its class c
Going(s, c) ==
    /\ Core(s, DOMAIN s.class_id) /\ ~s.closed /\ Steady(s)
    /\ Remembers(s) /\ ClassesBound(s) /\ IdsRight(s)
    /\ \A j \in Defining(s.wire, 0, Len(s.wire)) :
           s.wire[j].body.full_name = c \/ UsedBehind(s.wire, j, Len(s.wire))

\* RolesAllow, of any writer
Allowed(s, c, metadata) ==
    LET used == DOMAIN s.class_id
        same == {d \in used : IsMetadataId(s.class_id[d]) = metadata}
    IN used \ same \subseteq Class \ {c} /\ same \subseteq {c}

LEMMA SetsAre ==
  ASSUME NEW w, NEW n \in Nat
  PROVE  /\ Defining(w, 0, n) \in SUBSET (1 .. n) /\ Applying(w, 0, n) \in SUBSET (1 .. n)
         /\ \A j \in Defining(w, 0, n) : HasId(w[j], ProtoClassId)
BY DEF Defining, Applying

LEMMA UsedStill ==
  ASSUME NEW w, NEW v, NEW n \in Nat, NEW m \in Nat, n <= m,
         \A i \in 1 .. n : v[i] = w[i], NEW j \in 1 .. n, UsedBehind(w, j, n)
  PROVE  UsedBehind(v, j, m)
<1>1. PICK k \in j + 1 .. n :
        /\ IsUserMessage(w[k]) /\ w[k].id = w[j].body.class_id
        /\ w[k].body.class = w[j].body.full_name
  BY DEF UsedBehind
<1>2. k \in 1 .. n /\ k \in j + 1 .. m
  OBVIOUS
<1>3. v[k] = w[k] /\ v[j] = w[j]
  BY <1>2
<1>4. QED
  BY <1>1, <1>2, <1>3 DEF UsedBehind

\* The id a class gets is one that no class has.
LEMMA NewIdIs ==
  ASSUME NEW s, IdsRight(s), NEW c, c \notin DOMAIN s.class_id, NEW m \in BOOLEAN,
         Allowed(s, c, m)
  PROVE  /\ (IF m THEN s.next_metadata_class_id ELSE s.next_class_id) = (IF m THEN 1 ELSE 0)
         /\ \A d \in DOMAIN s.class_id : s.class_id[d] # (IF m THEN 1 ELSE 0)
<1>1. ASSUME NEW d \in DOMAIN s.class_id PROVE IsMetadataId(s.class_id[d]) # m
  BY DEF Allowed
<1>2. \A d \in DOMAIN s.class_id : s.class_id[d] \in {0, 1}
  BY DEF IdsRight
<1>3. \A d \in DOMAIN s.class_id : s.class_id[d] # (IF m THEN 1 ELSE 0)
  <2>1. CASE m
    BY <1>1, <1>2, <2>1, PyIdsDiffer
  <2>2. CASE ~m
    BY <1>1, <1>2, <2>2, PyIdsDiffer DEF IsMetadataId
  <2>3. QED
    BY <2>1, <2>2
<1>4. QED
  BY <1>3 DEF IdsRight

\* The message that binds the class to its id fits.
LEMMA DefinitionFits ==
  ASSUME NEW C, NEW q, Core(q, C), NEW n, n = Len(q.wire), NEW id \in {0, 1}, NEW c \in Class,
         NEW fdps \in Seq(File), InOrder(fdps, Known(q.wire, 0, n)),
         ToSet(fdps) \cap Known(q.wire, 0, n) = {},
         FileOf[c] \in Known(q.wire, 0, n) \cup ToSet(fdps),
         q.compressed => HasId(q.wire[n], StartCompressedSectionId),
         \A j \in Defining(q.wire, 0, n) : q.wire[j].body.class_id # id,
         NEW body, body = [class_id |-> id, full_name |-> c, file_descriptor |-> fdps]
  PROVE  /\ body \in PyBody
         /\ Fits(Append(q.wire, Message(ProtoClassId, body, q.compressed)), n,
                 ProtoClassId, q.compressed)
<1> DEFINE e == Message(ProtoClassId, body, q.compressed)
           v == Append(q.wire, e)
           k == n + 1
<1>1. /\ q.wire \in Seq(PyCell) /\ n \in Nat /\ n >= 2 /\ q.compressed \in BOOLEAN
      /\ ProtoClassId \in Nat
  BY WireIs, PyIdsDiffer
<1>2. /\ body \in [class_id : {0, 1}, full_name : Class, file_descriptor : Seq(File)]
      /\ body.class_id = id /\ body.full_name = c /\ body.file_descriptor = fdps
  OBVIOUS
<1>3. body \in PyBody
  BY <1>2 DEF PyBody
<1>4. e \in PyCell /\ e.kind = "message" /\ e.id = ProtoClassId /\ e.body = body /\ e.z = q.compressed
  BY <1>1, <1>3, PyMessageIs
<1> HIDE DEF e
<1>5. Grown(q.wire, v, e, n)
  BY <1>1, <1>4, CellGrows
<1>6. k - 1 = n /\ k \in Nat /\ n \in 0 .. n /\ n \in 1 .. n
  BY <1>1
<1> HIDE DEF v
<1>7. /\ v[k] = e /\ v[n] = q.wire[n] /\ Known(v, 0, n) = Known(q.wire, 0, n)
      /\ Known(v, 0, k) = Known(q.wire, 0, n) \cup ToSet(fdps)
      /\ Defining(v, 0, n) = Defining(q.wire, 0, n)
  BY <1>2, <1>4, <1>5, <1>6 DEF Grown, HasId
<1> HIDE DEF k
<1>8. \A j \in Defining(v, 0, n) : v[j].body.class_id # id
  BY <1>1, <1>5, <1>7, SetsAre DEF Grown
<1>9. Leads(v, k)
  BY <1>4, <1>6, <1>7 DEF Leads
<1>10. DefinesRight(v, 0, k)
  BY <1>2, <1>4, <1>6, <1>7, <1>8, <1>9 DEF DefinesRight
<1>11. QED
  BY <1>3, <1>10, PyIdsDiffer DEF Fits, FixedIds, v, e, k

\* GetClassId of a new class, in steps: the state in which the ProtoClass is written
Counted(s, m) ==
    IF m THEN [s EXCEPT !.next_metadata_class_id = @ + 1] ELSE [s EXCEPT !.next_class_id = @ + 1]
Filed(s, fdps) == [s EXCEPT !.written_fdps = @ \cup ToSet(fdps)]
Bound(r, s, c, id) ==
    [r EXCEPT !.class_id = [d \in DOMAIN s.class_id \cup {c} |->
                               IF d = c THEN id ELSE s.class_id[d]]]
Definition(id, c, fdps) == [class_id |-> id, full_name |-> c, file_descriptor |-> fdps]

LEMMA NewClassIs ==
  ASSUME NEW s, NEW c, c \notin DOMAIN s.class_id, NEW m \in BOOLEAN,
         NEW id, id = IF m THEN s.next_metadata_class_id ELSE s.next_class_id,
         NEW n, n = Counted(s, m),
         NEW fdps, fdps = NewFiles(n, Reverse(descriptors[FileOf[c]])),
         NEW q, q = Before(Filed(n, fdps), "protoclass_offsets")
  PROVE  GetClassId(s, c, m)
           = Bound(PyWriteMessage(q, ProtoClassId, Definition(id, c, fdps)), s, c, id)
<1>1. PyWriteProtoClass(n, id, c)
        = AtOffset(Filed(n, fdps), "protoclass_offsets", ProtoClassId, Definition(id, c, fdps))
  BY DEF PyWriteProtoClass, Filed, Definition
<1>2. PyWriteProtoClass(n, id, c) = PyWriteMessage(q, ProtoClassId, Definition(id, c, fdps))
  BY <1>1, AtOffsetIs
<1>3. GetClassId(s, c, m) = Bound(PyWriteProtoClass(n, id, c), s, c, id)
  BY DEF GetClassId, Counted, Bound
<1>4. QED
  BY <1>2, <1>3

\* The counters and the files, before anything is written
LEMMA FiledRight ==
  ASSUME NEW C, NEW s, Core(s, C), NEW m \in BOOLEAN, NEW fdps \in Seq(File),
         NEW f, f = Filed(Counted(s, m), fdps)
  PROVE  /\ Core(f, C) /\ f.wire = s.wire /\ f.compression = s.compression
         /\ f.metadata_refers_forward = s.metadata_refers_forward
         /\ f.closed = s.closed /\ f.status = s.status /\ f.class_id = s.class_id
         /\ f.metadata_offsets = s.metadata_offsets
         /\ f.protoclass_offsets = s.protoclass_offsets
         /\ f.written_fdps = s.written_fdps \cup ToSet(fdps)
         /\ f.next_class_id = (IF m THEN s.next_class_id ELSE s.next_class_id + 1)
         /\ f.next_metadata_class_id
              = (IF m THEN s.next_metadata_class_id + 1 ELSE s.next_metadata_class_id)
<1>1. s \in PyStreams(C) /\ C \in SUBSET Class
  BY DEF Core
<1>2. /\ s.next_class_id + 1 \in Nat /\ s.next_metadata_class_id + 1 \in Nat
      /\ s.written_fdps \cup ToSet(fdps) \in SUBSET File
  <2>1. ToSet(fdps) \in SUBSET File
    BY DEF ToSet
  <2>2. QED
    BY <1>1, <2>1 DEF PyStreams
<1> DEFINE n == Counted(s, m)
<1>3. /\ n \in PyStreams(C) /\ n.wire = s.wire /\ n.compression = s.compression
      /\ n.metadata_refers_forward = s.metadata_refers_forward
      /\ n.closed = s.closed /\ n.status = s.status /\ n.class_id = s.class_id
      /\ n.metadata_offsets = s.metadata_offsets
      /\ n.protoclass_offsets = s.protoclass_offsets
      /\ n.written_fdps = s.written_fdps /\ n.compressed = s.compressed
      /\ n.bytes_written = s.bytes_written /\ n.zbytes = s.zbytes /\ n.pre = s.pre
      /\ n.next_class_id = (IF m THEN s.next_class_id ELSE s.next_class_id + 1)
      /\ n.next_metadata_class_id
           = (IF m THEN s.next_metadata_class_id + 1 ELSE s.next_metadata_class_id)
  <2>1. CASE m
    <3>1. n = [s EXCEPT !.next_metadata_class_id = @ + 1]
      BY <2>1 DEF Counted
    <3>2. QED
      BY <1>1, <1>2, <2>1, <3>1, Zenon DEF PyStreams
  <2>2. CASE ~m
    <3>1. n = [s EXCEPT !.next_class_id = @ + 1]
      BY <2>2 DEF Counted
    <3>2. QED
      BY <1>1, <1>2, <2>2, <3>1, Zenon DEF PyStreams
  <2>3. QED
    BY <2>1, <2>2
<1> HIDE DEF n
<1>4. f = [n EXCEPT !.written_fdps = @ \cup ToSet(fdps)]
  BY DEF Filed, n
<1>5. /\ f \in PyStreams(C) /\ f.wire = s.wire /\ f.compression = s.compression
      /\ f.metadata_refers_forward = s.metadata_refers_forward
      /\ f.closed = s.closed /\ f.status = s.status /\ f.class_id = s.class_id
      /\ f.metadata_offsets = s.metadata_offsets
      /\ f.protoclass_offsets = s.protoclass_offsets
      /\ f.compressed = s.compressed
      /\ f.bytes_written = s.bytes_written /\ f.zbytes = s.zbytes /\ f.pre = s.pre
      /\ f.next_class_id = n.next_class_id
      /\ f.next_metadata_class_id = n.next_metadata_class_id
  BY <1>2, <1>3, <1>4, Zenon DEF PyStreams
<1>6. f.written_fdps = s.written_fdps \cup ToSet(fdps)
  BY <1>3, <1>4 DEF PyStreams
<1>7. Stands(f)
  BY <1>5 DEF Core, Stands
<1>8. Core(f, C)
  BY <1>1, <1>5, <1>7 DEF Core
<1>9. QED
  BY <1>3, <1>5, <1>6, <1>8

\* t is r with one class more.
Binds(s, r, t, c, id) ==
    /\ t.wire = r.wire /\ t.compression = r.compression
    /\ t.closed = r.closed /\ t.status = r.status /\ t.compressed = r.compressed
    /\ t.metadata_offsets = r.metadata_offsets
    /\ t.protoclass_offsets = r.protoclass_offsets
    /\ t.written_fdps = r.written_fdps
    /\ t.next_class_id = r.next_class_id
    /\ t.next_metadata_class_id = r.next_metadata_class_id
    /\ DOMAIN t.class_id = DOMAIN s.class_id \cup {c} /\ t.class_id[c] = id
    /\ \A d \in DOMAIN s.class_id : d # c => t.class_id[d] = s.class_id[d]

LEMMA BoundRight ==
  ASSUME NEW C, NEW r, Core(r, C), NEW s, C = DOMAIN s.class_id, s.class_id \in [C -> Nat],
         NEW c \in Class, NEW id \in Nat,
         NEW t, t = Bound(r, s, c, id)
  PROVE  Core(t, C \cup {c}) /\ Binds(s, r, t, c, id)
<1> DEFINE ids == [d \in C \cup {c} |-> IF d = c THEN id ELSE s.class_id[d]]
<1>1. r \in PyStreams(C) /\ C \in SUBSET Class
  BY DEF Core
<1>2. ids \in [C \cup {c} -> Nat] /\ DOMAIN ids = C \cup {c} /\ ids[c] = id
      /\ \A d \in C : d # c => ids[d] = s.class_id[d]
  OBVIOUS
<1>3. t = [r EXCEPT !.class_id = ids]
  BY DEF Bound
<1> HIDE DEF ids
<1>4. /\ t \in PyStreams(C \cup {c}) /\ t.wire = r.wire /\ t.compression = r.compression
      /\ t.closed = r.closed /\ t.status = r.status
      /\ t.metadata_offsets = r.metadata_offsets
      /\ t.protoclass_offsets = r.protoclass_offsets
      /\ t.written_fdps = r.written_fdps
      /\ t.next_class_id = r.next_class_id
      /\ t.next_metadata_class_id = r.next_metadata_class_id
      /\ t.class_id = ids /\ t.compressed = r.compressed
      /\ t.bytes_written = r.bytes_written /\ t.zbytes = r.zbytes /\ t.pre = r.pre
  BY <1>1, <1>2, <1>3, Zenon DEF PyStreams
<1>5. Stands(t)
  BY <1>4 DEF Core, Stands
<1>6. Core(t, C \cup {c})
  BY <1>1, <1>4, <1>5 DEF Core
<1>7. QED
  BY <1>2, <1>4, <1>6 DEF Binds

LEMMA ClassReady ==
  ASSUME NEW s, WriterRight(s), ~s.closed, NEW c \in Class, NEW m \in BOOLEAN,
         Allowed(s, c, m), ~m => c \in EventClasses,
         NEW t, t = GetClassId(s, c, m)
  PROVE  /\ Going(t, c) /\ c \in DOMAIN t.class_id
         /\ t.class_id[c] = (IF m THEN 1 ELSE 0)
<1> DEFINE w == s.wire
           n == Len(w)
           C == DOMAIN s.class_id
<1>1. Core(s, C) /\ ClassesUsedBy(s) /\ Remembers(s) /\ ClassesBound(s) /\ IdsRight(s)
  BY DEF WriterRight, Core
<1>2. /\ w \in Seq(PyCell) /\ n \in Nat /\ n >= 2 /\ s \in PyStreams(C) /\ C \in SUBSET Class
      /\ s.class_id \in [C -> Nat] /\ s.written_fdps \in SUBSET File
      /\ s.protoclass_offsets \in Seq(Nat) /\ s.metadata_offsets \in Seq(Nat)
  BY <1>1, WireIs DEF Core, PyStreams
<1>3. CASE c \in C
  <2>1. t = s
    BY <1>3 DEF GetClassId
  <2>2. Going(s, c)
    BY <1>1, <1>3 DEF Going, ClassesUsedBy, WriterRight
  <2>3. s.class_id[c] \in {0, 1} /\ IsMetadataId(s.class_id[c]) = m
    BY <1>1, <1>3 DEF IdsRight, Allowed
  <2>4. s.class_id[c] = (IF m THEN 1 ELSE 0)
    BY <2>3, PyIdsDiffer DEF IsMetadataId
  <2>5. QED
    BY <1>3, <2>1, <2>2, <2>4
<1>4. CASE c \notin C
  <2> DEFINE id == IF m THEN s.next_metadata_class_id ELSE s.next_class_id
             x == Counted(s, m)
             fdps == NewFiles(x, Reverse(descriptors[FileOf[c]]))
             f == Filed(x, fdps)
             q == Before(f, "protoclass_offsets")
             body == Definition(id, c, fdps)
             r == PyWriteMessage(q, ProtoClassId, body)
  <2>1. /\ id = (IF m THEN 1 ELSE 0)
        /\ \A d \in C : s.class_id[d] # id
    BY <1>1, <1>4, NewIdIs
  <2>2. id \in {0, 1} /\ id \in Nat
    BY <2>1
  <2>3. t = Bound(r, s, c, id)
    BY <1>4, NewClassIs
  <2> HIDE DEF id
  <2>4. x.written_fdps = s.written_fdps
    BY <1>2 DEF Counted, PyStreams
  <2>5. Closed(x.written_fdps) /\ s.written_fdps = Known(w, 0, n)
    BY <1>1, <2>4 DEF Remembers
  <2> HIDE DEF x
  <2>6. /\ fdps \in Seq(File) /\ InOrder(fdps, s.written_fdps)
        /\ ToSet(fdps) \cap s.written_fdps = {}
        /\ Closed(s.written_fdps \cup ToSet(fdps))
        /\ FileOf[c] \in s.written_fdps \cup ToSet(fdps)
    <3>1. x.written_fdps \in SUBSET File
      BY <1>2, <2>4
    <3>2. QED
      BY <2>4, <2>5, <3>1, FilesOfClass
  <2> HIDE DEF fdps
  <2>7. /\ Core(f, C) /\ f.wire = w /\ f.compression = s.compression
        /\ f.closed = s.closed /\ f.status = s.status /\ f.class_id = s.class_id
        /\ f.metadata_offsets = s.metadata_offsets
        /\ f.protoclass_offsets = s.protoclass_offsets
        /\ f.written_fdps = s.written_fdps \cup ToSet(fdps)
        /\ f.next_class_id = (IF m THEN s.next_class_id ELSE s.next_class_id + 1)
        /\ f.next_metadata_class_id
             = (IF m THEN s.next_metadata_class_id + 1 ELSE s.next_metadata_class_id)
    BY <1>1, <2>6, FiledRight DEF x
  <2> HIDE DEF f
  <2>8. /\ Core(q, C) /\ Books(f, q) /\ Quiet(w, q.wire)
        /\ q.compressed = s.compression
        /\ q.compressed => HasId(q.wire[Len(q.wire)], StartCompressedSectionId)
    BY <2>7, BeforeRight
  <2>9. PICK o \in Nat : Addresses(f, q, "protoclass_offsets", o)
    BY <2>7, BeforeRight
  <2> HIDE DEF q
  <2> DEFINE k == Len(q.wire)
             u == r.wire
  <2>10. k \in Nat /\ n <= k /\ k + 1 \in Nat /\ (\A i \in 1 .. n : q.wire[i] = w[i])
    BY <2>8 DEF Quiet
  <2>11. /\ Defining(q.wire, 0, k) = Defining(w, 0, n)
         /\ Applying(q.wire, 0, k) = Applying(w, 0, n)
         /\ Known(q.wire, 0, k) = s.written_fdps
    BY <2>5, <2>8 DEF Quiet
  <2>12. Defining(w, 0, n) \in SUBSET (1 .. n) /\ Applying(w, 0, n) \in SUBSET (1 .. n)
    BY <1>2, SetsAre
  <2>13. \A j \in Defining(w, 0, n) : q.wire[j].body.class_id # id
    <3>1. \A j \in Defining(w, 0, n) : w[j].body.class_id # id
      BY <1>1, <2>1 DEF ClassesBound
    <3>2. QED
      BY <2>10, <2>12, <3>1
  <2>14. /\ body \in PyBody
         /\ Fits(Append(q.wire, Message(ProtoClassId, body, q.compressed)), k,
                 ProtoClassId, q.compressed)
    BY <2>2, <2>6, <2>8, <2>11, <2>13, DefinitionFits DEF Definition
  <2>15. body.class_id = id /\ body.full_name = c /\ body.file_descriptor = fdps
    BY DEF Definition
  <2> HIDE DEF body
  <2>16. Wrote(q, r, ProtoClassId, body, k, C) /\ Core(r, C)
    <3>1. ProtoClassId \in Nat /\
          ProtoClassId \notin {StartCompressedSectionId, EndCompressedSectionId, StreamFooterId}
      BY PyIdsDiffer
    <3>2. Wrote(q, r, ProtoClassId, body, k, C)
      BY <2>8, <2>14, <3>1, WriteMessageRight
    <3>3. Core(r, C)
      BY <2>8, <2>14, <3>1, WriteMessageStands
    <3>4. QED
      BY <3>2, <3>3
  <2> HIDE DEF r
  <2>17. Longer(q, r, Message(ProtoClassId, body, q.compressed)) /\ Grown(q.wire, u, u[k + 1], k)
         /\ Len(u) = k + 1 /\ u[k + 1].kind = "message" /\ u[k + 1].id = ProtoClassId
         /\ u[k + 1].body = body /\ u[k + 1].z = q.compressed
    BY <2>16 DEF Wrote
  <2>18. /\ Core(t, C \cup {c}) /\ t.wire = r.wire /\ t.compression = r.compression
         /\ t.closed = r.closed /\ t.status = r.status /\ t.compressed = r.compressed
         /\ t.metadata_offsets = r.metadata_offsets
         /\ t.protoclass_offsets = r.protoclass_offsets
         /\ t.written_fdps = r.written_fdps
         /\ t.next_class_id = r.next_class_id
         /\ t.next_metadata_class_id = r.next_metadata_class_id
         /\ DOMAIN t.class_id = C \cup {c} /\ t.class_id[c] = id
         /\ \A d \in C : d # c => t.class_id[d] = s.class_id[d]
    <3>1. Core(t, C \cup {c}) /\ Binds(s, r, t, c, id)
      BY <1>2, <2>2, <2>3, <2>16, BoundRight
    <3>2. QED
      BY <3>1 DEF Binds
  <2>19. /\ t.compression = s.compression /\ t.closed = s.closed /\ t.status = s.status
         /\ t.written_fdps = s.written_fdps \cup ToSet(fdps)
         /\ t.next_class_id = f.next_class_id
         /\ t.next_metadata_class_id = f.next_metadata_class_id
    BY <2>7, <2>8, <2>17, <2>18 DEF Longer, Books
  <2>20. /\ \A i \in 1 .. n : u[i] = w[i]
         /\ Defining(u, 0, k + 1) = Defining(w, 0, n) \cup {k + 1}
         /\ Applying(u, 0, k + 1) = Applying(w, 0, n)
         /\ Known(u, 0, k + 1) = s.written_fdps \cup ToSet(fdps)
    <3>1. HasId(u[k + 1], ProtoClassId) /\ ~IsMetadata(u[k + 1])
      BY <2>17, PyIdsDiffer DEF HasId, IsMetadata, IsUserMessage, FixedIds
    <3>2. \A i \in 1 .. n : u[i] = w[i]
      BY <2>10, <2>17 DEF Grown
    <3>3. QED
      BY <2>11, <2>15, <2>17, <3>1, <3>2 DEF Grown
  <2>21. k + 1 > n
    BY <1>2, <2>10
  <2> HIDE DEF u, k
  <2>22. Remembers(t)
    <3>1. Lists(t.metadata_offsets, u, 0, Applying(u, 0, k + 1))
      <4>1. t.metadata_offsets = s.metadata_offsets
        BY <2>7, <2>9, <2>17, <2>18 DEF Longer, Addresses, Offsets, k
      <4>2. Lists(s.metadata_offsets, u, 0, Applying(w, 0, n))
        BY <1>1, <1>2, <2>12, <2>20, ListsSame DEF Remembers
      <4>3. QED
        BY <2>20, <4>1, <4>2
    <3>2. Lists(t.protoclass_offsets, u, 0, Defining(u, 0, k + 1))
      <4>1. t.protoclass_offsets = Append(s.protoclass_offsets, o)
        BY <2>7, <2>9, <2>17, <2>18 DEF Longer, Addresses, Offsets, k
      <4>2. Lists(s.protoclass_offsets, u, 0, Defining(w, 0, n))
        BY <1>1, <1>2, <2>12, <2>20, ListsSame DEF Remembers
      <4>3. o = Place(u, k + 1) /\ n <= o
        <5>1. o = IF q.compressed THEN k - 1 ELSE k
          BY <2>9 DEF Addresses, k
        <5>2. n <= o
          BY <2>7, <2>9 DEF Addresses
        <5>3. Place(u, k + 1) = IF q.compressed THEN (k + 1) - 2 ELSE (k + 1) - 1
          <6>1. u[k + 1].z = q.compressed /\ q.compressed \in BOOLEAN
            BY <2>8, <2>17, WireIs
          <6>2. QED
            BY <6>1 DEF Place
        <5>4. k \in Nat
          BY <2>10 DEF k
        <5>5. QED
          BY <5>1, <5>2, <5>3, <5>4
      <4>4. k + 1 \in Nat
        BY <2>10
      <4>5. Lists(Append(s.protoclass_offsets, o), u, 0, Defining(w, 0, n) \cup {k + 1})
        BY <1>2, <2>12, <4>2, <4>3, <4>4, ListsGrow
      <4>6. QED
        BY <2>20, <4>1, <4>5
    <3>3. t.written_fdps = Known(u, 0, k + 1) /\ Closed(t.written_fdps)
      BY <2>6, <2>19, <2>20
    <3>4. QED
      BY <2>17, <2>18, <3>1, <3>2, <3>3 DEF Remembers, u
  <2>23. ClassesBound(t)
    <3>1. ASSUME NEW d \in C \cup {c}
          PROVE  \E j \in Defining(u, 0, k + 1) :
                   /\ u[j].body.class_id = t.class_id[d] /\ u[j].body.full_name = d
                   /\ u[j].z <=> t.compression
      <4>1. CASE d = c
        <5>1. k + 1 \in Defining(u, 0, k + 1)
          BY <2>20
        <5>2. /\ u[k + 1].body.class_id = t.class_id[d] /\ u[k + 1].body.full_name = d
              /\ u[k + 1].z <=> t.compression
          BY <2>8, <2>15, <2>17, <2>18, <2>19, <4>1
        <5>3. QED
          BY <5>1, <5>2
      <4>2. CASE d # c
        <5>1. d \in C /\ t.class_id[d] = s.class_id[d]
          BY <2>18, <4>2
        <5>2. PICK j \in Defining(w, 0, n) :
                /\ w[j].body.class_id = s.class_id[d] /\ w[j].body.full_name = d
                /\ w[j].z <=> s.compression
          BY <1>1, <5>1 DEF ClassesBound
        <5>3. u[j] = w[j] /\ j \in Defining(u, 0, k + 1)
          BY <2>12, <2>20
        <5>4. QED
          BY <2>19, <5>1, <5>2, <5>3
      <4>3. QED
        BY <4>1, <4>2
    <3>2. ASSUME NEW j \in Defining(u, 0, k + 1)
          PROVE  \E d \in C \cup {c} :
                   u[j].body.class_id = t.class_id[d] /\ u[j].body.full_name = d
      <4>1. CASE j = k + 1
        BY <2>15, <2>17, <2>18, <4>1
      <4>2. CASE j # k + 1
        <5>1. j \in Defining(w, 0, n) /\ u[j] = w[j]
          BY <2>12, <2>20, <4>2
        <5>2. PICK d \in C : w[j].body.class_id = s.class_id[d] /\ w[j].body.full_name = d
          BY <1>1, <5>1 DEF ClassesBound
        <5>3. d # c
          BY <1>4
        <5>4. QED
          BY <2>18, <5>1, <5>2, <5>3
      <4>3. QED
        BY <4>1, <4>2
    <3>3. QED
      BY <2>17, <2>18, <3>1, <3>2 DEF ClassesBound, u
  <2>24. IdsRight(t)
    <3>1. \A d \in C : t.class_id[d] = s.class_id[d]
      BY <1>4, <2>18
    <3>2. \A d \in C \cup {c} : t.class_id[d] \in {0, 1}
      BY <1>1, <2>2, <2>18, <3>1 DEF IdsRight
    <3>3. ASSUME \A d \in C \cup {c} : t.class_id[d] # 0 PROVE t.next_class_id = 0
      <4>1. \A d \in C : s.class_id[d] # 0
        BY <3>1, <3>3
      <4>2. id # 0
        BY <2>18, <3>3
      <4>3. m
        BY <2>1, <4>2
      <4>4. QED
        BY <1>1, <2>7, <2>19, <4>1, <4>3 DEF IdsRight
    <3>4. ASSUME \A d \in C \cup {c} : t.class_id[d] # 1 PROVE t.next_metadata_class_id = 1
      <4>1. \A d \in C : s.class_id[d] # 1
        BY <3>1, <3>4
      <4>2. id # 1
        BY <2>18, <3>4
      <4>3. ~m
        BY <2>1, <4>2
      <4>4. QED
        BY <1>1, <2>7, <2>19, <4>1, <4>3 DEF IdsRight
    <3>5. ASSUME NEW d \in C \cup {c}, t.class_id[d] = 0 PROVE d \in EventClasses
      <4>1. CASE d = c
        <5>1. id = 0
          BY <2>18, <3>5, <4>1
        <5>2. ~m
          BY <2>1, <5>1
        <5>3. QED
          BY <4>1, <5>2
      <4>2. CASE d # c
        BY <1>1, <3>1, <3>5, <4>2 DEF IdsRight
      <4>3. QED
        BY <4>1, <4>2
    <3>6. QED
      BY <2>18, <3>2, <3>3, <3>4, <3>5 DEF IdsRight
  <2>25. ASSUME NEW j \in Defining(u, 0, k + 1)
         PROVE  u[j].body.full_name = c \/ UsedBehind(u, j, k + 1)
    <3>1. CASE j = k + 1
      BY <2>15, <2>17, <3>1
    <3>2. CASE j # k + 1
      <4>1. j \in Defining(w, 0, n) /\ j \in 1 .. n
        BY <2>12, <2>20, <3>2
      <4>2. UsedBehind(w, j, n)
        BY <1>1, <4>1 DEF ClassesUsedBy
      <4>3. k + 1 \in Nat /\ n <= k + 1
        BY <1>2, <2>10, <2>21
      <4>4. UsedBehind(u, j, k + 1)
        BY <1>2, <2>20, <4>1, <4>2, <4>3, UsedStill
      <4>5. QED
        BY <4>4
    <3>3. QED
      BY <3>1, <3>2
  <2>26. Going(t, c)
    <3>1. Steady(t)
      BY <2>8, <2>17, <2>18, <2>19 DEF Steady, Longer
    <3>2. QED
      BY <3>1, <2>17, <2>18, <2>19, <2>22, <2>23, <2>24, <2>25 DEF Going, u
  <2>27. QED
    BY <2>1, <2>18, <2>26
<1>5. QED
  BY <1>3, <1>4
-----------------------------------------------------------------------------
(* A message of the client                                                  *)

LEMMA UseFits ==
  ASSUME NEW C, NEW q, Core(q, C), NEW n, n = Len(q.wire), NEW id \in {0, 1}, NEW c \in Class,
         id = 0 => c \in EventClasses,
         NEW j \in Defining(q.wire, 0, n), q.wire[j].body.class_id = id,
         q.wire[j].body.full_name = c,
         q.compressed <=> q.wire[j].z,
         id = 1 => (q.compressed => HasId(q.wire[n], StartCompressedSectionId)),
         NEW body, NEW serialized \in BOOLEAN, body = PyContent(c, serialized)
  PROVE  /\ body \in PyBody
         /\ Fits(Append(q.wire, Message(id, body, q.compressed)), n, id, q.compressed)
<1> DEFINE e == Message(id, body, q.compressed)
           v == Append(q.wire, e)
           k == n + 1
<1>1. /\ q.wire \in Seq(PyCell) /\ n \in Nat /\ n >= 2 /\ q.compressed \in BOOLEAN
      /\ id \in Nat
  BY WireIs
<1>2. body \in [class : Class, whole : BOOLEAN] /\ body.class = c
  BY DEF PyContent
<1>3. body \in PyBody
  BY <1>2 DEF PyBody
<1>4. e \in PyCell /\ e.kind = "message" /\ e.id = id /\ e.body = body /\ e.z = q.compressed
  BY <1>1, <1>3, PyMessageIs
<1> HIDE DEF e
<1>5. Grown(q.wire, v, e, n)
  BY <1>1, <1>4, CellGrows
<1>6. k - 1 = n /\ k \in Nat /\ n \in 0 .. n /\ n \in 1 .. n
  BY <1>1
<1> HIDE DEF v
<1>7. /\ v[k] = e /\ v[n] = q.wire[n] /\ Defining(v, 0, n) = Defining(q.wire, 0, n)
  BY <1>5, <1>6 DEF Grown
<1> HIDE DEF k
<1>8. j \in Defining(v, 0, k - 1) /\ v[j] = q.wire[j]
  <2>1. j \in 1 .. n
    BY <1>1, SetsAre
  <2>2. v[j] = q.wire[j]
    BY <1>5, <2>1 DEF Grown
  <2>3. QED
    BY <1>6, <1>7, <2>2
<1>9. IsMetadata(v[k]) => id = 1 /\ Leads(v, k)
  <2>1. IsMetadata(v[k]) => id = 1
    BY <1>4, <1>7, PyIdsDiffer DEF IsMetadata
  <2>2. id = 1 => Leads(v, k)
    BY <1>4, <1>6, <1>7 DEF Leads
  <2>3. QED
    BY <2>1, <2>2
<1>10. IsEvent(v[k]) => id = 0
  BY <1>4, <1>7, PyIdsDiffer DEF IsEvent
<1>11. v[k].z <=> v[j].z
  BY <1>4, <1>7, <1>8
<1>12. UsesRight(v, 0, k)
  BY <1>2, <1>4, <1>7, <1>8, <1>9, <1>10, <1>11 DEF UsesRight
<1>13. QED
  BY <1>3, <1>12, PyIdsDiffer DEF Fits, FixedIds, v, e, k

\* r is the writer s behind a message of class c, which is cell k + 1.
Used(s, r, c, k) ==
    LET u == r.wire  w == s.wire  n == Len(w) IN
    /\ k \in Nat /\ Len(u) = k + 1 /\ n <= k
    /\ \A i \in 1 .. n : u[i] = w[i]
    /\ Defining(u, 0, k + 1) = Defining(w, 0, n)
    /\ Known(u, 0, k + 1) = Known(w, 0, n)
    /\ IsUserMessage(u[k + 1]) /\ u[k + 1].id = s.class_id[c] /\ u[k + 1].body.class = c
    /\ Lists(r.metadata_offsets, u, 0, Applying(u, 0, k + 1))
    /\ r.protoclass_offsets = s.protoclass_offsets

LEMMA UsedRight ==
  ASSUME NEW s, NEW c, Going(s, c), NEW r, Core(r, DOMAIN s.class_id), Books(s, r), Steady(r),
         NEW k, Used(s, r, c, k)
  PROVE  WriterRight(r) /\ ~r.closed /\ r.status = s.status
<1> DEFINE u == r.wire
           w == s.wire
           n == Len(w)
           id == s.class_id[c]
<1>0. /\ k \in Nat /\ Len(u) = k + 1 /\ n <= k
      /\ \A i \in 1 .. n : u[i] = w[i]
      /\ Defining(u, 0, k + 1) = Defining(w, 0, n)
      /\ Known(u, 0, k + 1) = Known(w, 0, n)
      /\ IsUserMessage(u[k + 1]) /\ u[k + 1].id = id /\ u[k + 1].body.class = c
      /\ Lists(r.metadata_offsets, u, 0, Applying(u, 0, k + 1))
      /\ r.protoclass_offsets = s.protoclass_offsets
  BY DEF Used
<1>1. /\ Core(s, DOMAIN s.class_id) /\ ~s.closed
      /\ Remembers(s) /\ ClassesBound(s) /\ IdsRight(s)
  BY DEF Going
<1>2. n \in Nat /\ Defining(w, 0, n) \in SUBSET (1 .. n)
  BY <1>1, WireIs, SetsAre
<1>3. \A j \in Defining(w, 0, n) : u[j] = w[j]
  BY <1>0, <1>2
<1>4. Remembers(r)
  <2>1. Lists(s.protoclass_offsets, w, 0, Defining(w, 0, n))
    BY <1>1 DEF Remembers
  <2>2. Lists(s.protoclass_offsets, u, 0, Defining(w, 0, n))
    BY <1>0, <1>2, <2>1, ListsSame
  <2>3. r.written_fdps = Known(u, 0, k + 1) /\ Closed(r.written_fdps)
    BY <1>0, <1>1 DEF Remembers, Books
  <2>4. QED
    BY <1>0, <2>2, <2>3 DEF Remembers
<1>5. ClassesBound(r)
  <2>1. \A d \in DOMAIN s.class_id :
           \E j \in Defining(u, 0, k + 1) :
               /\ u[j].body.class_id = s.class_id[d] /\ u[j].body.full_name = d
               /\ u[j].z <=> s.compression
    BY <1>0, <1>1, <1>3, SMTT(30) DEF ClassesBound
  <2>2. \A j \in Defining(u, 0, k + 1) :
           \E d \in DOMAIN s.class_id :
               u[j].body.class_id = s.class_id[d] /\ u[j].body.full_name = d
    BY <1>0, <1>1, <1>3, SMTT(30) DEF ClassesBound
  <2>3. QED
    BY <1>0, <2>1, <2>2 DEF ClassesBound, Books
<1>6. IdsRight(r)
  BY <1>1 DEF IdsRight, Books
<1>7. ClassesUsedBy(r)
  <2>1. ASSUME NEW j \in Defining(w, 0, n) PROVE UsedBehind(u, j, k + 1)
    <3>1. j \in 1 .. n /\ k + 1 \in Nat /\ n <= k + 1 /\ u[j] = w[j]
      BY <1>0, <1>2, <1>3
    <3>2. CASE UsedBehind(w, j, n)
      BY <1>0, <1>2, <3>1, <3>2, UsedStill
    <3>3. CASE w[j].body.full_name = c
      <4>1. PICK d \in DOMAIN s.class_id :
               w[j].body.class_id = s.class_id[d] /\ w[j].body.full_name = d
        BY <1>1 DEF ClassesBound
      <4>2. u[j].body.class_id = id /\ u[j].body.full_name = c
        BY <1>0, <3>1, <3>3, <4>1
      <4>3. k + 1 \in j + 1 .. k + 1
        BY <1>0, <1>2, <3>1
      <4>4. QED
        BY <1>0, <4>2, <4>3 DEF UsedBehind
    <3>4. QED
      BY <3>2, <3>3 DEF Going
  <2>2. QED
    BY <1>0, <2>1 DEF ClassesUsedBy
<1>8. ~r.closed /\ r.status = s.status /\ DOMAIN r.class_id = DOMAIN s.class_id
  BY <1>1 DEF Books
<1>9. QED
  BY <1>4, <1>5, <1>6, <1>7, <1>8 DEF WriterRight, Core

LEMMA EventWritten ==
  ASSUME NEW s, NEW c \in Class, Going(s, c), c \in DOMAIN s.class_id, s.class_id[c] = 0,
         NEW serialized \in BOOLEAN,
         NEW r, r = PyWriteMessage(s, s.class_id[c], PyContent(c, serialized))
  PROVE  WriterRight(r) /\ ~r.closed /\ r.status = s.status
<1> DEFINE w == s.wire
           n == Len(w)
           C == DOMAIN s.class_id
           u == r.wire
           body == PyContent(c, serialized)
<1>1. Core(s, C) /\ Remembers(s) /\ ClassesBound(s) /\ IdsRight(s)
  BY DEF Going
<1>2. n \in Nat /\ n >= 2 /\ Applying(w, 0, n) \in SUBSET (1 .. n)
  BY <1>1, WireIs, SetsAre
<1>3. PICK j \in Defining(w, 0, n) :
        w[j].body.class_id = 0 /\ w[j].body.full_name = c /\ (s.compressed <=> w[j].z)
  BY <1>1 DEF ClassesBound, Going, Steady
<1>4. c \in EventClasses
  BY <1>1 DEF IdsRight
<1>5. body \in PyBody /\ Fits(Append(w, Message(0, body, s.compressed)), n, 0, s.compressed)
  BY <1>1, <1>3, <1>4, UseFits
<1>6. /\ 0 \in Nat
      /\ 0 \notin {StartCompressedSectionId, EndCompressedSectionId, StreamFooterId}
  BY PyIdsDiffer DEF FixedIds
<1>7. r = PyWriteMessage(s, 0, body)
  OBVIOUS
<1>8. body.class = c
  BY DEF PyContent
<1> HIDE DEF body
<1>9. Wrote(s, r, 0, body, n, C)
  BY <1>1, <1>5, <1>6, <1>7, WriteMessageRight
<1>10. Core(r, DOMAIN s.class_id)
  BY <1>1, <1>5, <1>6, <1>7, WriteMessageStands
<1>11. /\ Longer(s, r, Message(0, body, s.compressed)) /\ Grown(w, u, u[n + 1], n)
       /\ Len(u) = n + 1 /\ u[n + 1].kind = "message" /\ u[n + 1].id = 0
       /\ u[n + 1].body = body
  BY <1>9 DEF Wrote
<1>12. /\ Books(s, r) /\ r.metadata_offsets = s.metadata_offsets
       /\ r.protoclass_offsets = s.protoclass_offsets
  BY <1>11 DEF Longer
<1>13. /\ IsUserMessage(u[n + 1]) /\ ~IsMetadata(u[n + 1]) /\ ~HasId(u[n + 1], ProtoClassId)
       /\ u[n + 1].body.class = c
  BY <1>8, <1>11, PyIdsDiffer DEF IsUserMessage, IsMetadata, HasId, FixedIds
<1>14. /\ \A i \in 1 .. n : u[i] = w[i]
       /\ Defining(u, 0, n + 1) = Defining(w, 0, n)
       /\ Applying(u, 0, n + 1) = Applying(w, 0, n)
       /\ Known(u, 0, n + 1) = Known(w, 0, n)
  BY <1>11, <1>13 DEF Grown
<1>15. Lists(r.metadata_offsets, u, 0, Applying(u, 0, n + 1))
  BY <1>1, <1>2, <1>12, <1>14, ListsSame DEF Remembers
<1>16. Used(s, r, c, n)
  BY <1>2, <1>11, <1>12, <1>13, <1>14, <1>15 DEF Used
<1>17. Steady(r)
  BY <1>11 DEF Steady, Longer, Books, Going
<1>18. QED
  BY <1>10, <1>12, <1>16, <1>17, UsedRight

LEMMA MetadataWritten ==
  ASSUME NEW s, NEW c \in Class, Going(s, c), c \in DOMAIN s.class_id, s.class_id[c] = 1,
         NEW serialized \in BOOLEAN,
         NEW r, r = AtOffset(s, "metadata_offsets", s.class_id[c], PyContent(c, serialized))
  PROVE  WriterRight(r) /\ ~r.closed /\ r.status = s.status
<1> DEFINE w == s.wire
           n == Len(w)
           C == DOMAIN s.class_id
           u == r.wire
           body == PyContent(c, serialized)
           q == Before(s, "metadata_offsets")
           k == Len(q.wire)
<1>1. Core(s, C) /\ Remembers(s) /\ ClassesBound(s) /\ IdsRight(s)
  BY DEF Going
<1>2. /\ n \in Nat /\ n >= 2 /\ Applying(w, 0, n) \in SUBSET (1 .. n)
      /\ Defining(w, 0, n) \in SUBSET (1 .. n) /\ s.metadata_offsets \in Seq(Nat)
  BY <1>1, WireIs, SetsAre DEF Core, PyStreams
<1>3. PICK j \in Defining(w, 0, n) :
        w[j].body.class_id = 1 /\ w[j].body.full_name = c /\ (w[j].z <=> s.compression)
  BY <1>1 DEF ClassesBound
<1>4. r = PyWriteMessage(q, 1, body)
  BY AtOffsetIs
<1>5. body.class = c
  BY DEF PyContent
<1>6. /\ Core(q, C) /\ Books(s, q) /\ Quiet(w, q.wire)
      /\ q.compressed = s.compression
      /\ q.compressed => HasId(q.wire[Len(q.wire)], StartCompressedSectionId)
  BY <1>1, BeforeRight
<1>7. PICK o \in Nat : Addresses(s, q, "metadata_offsets", o)
  BY <1>1, BeforeRight
<1> HIDE DEF q
<1>8. /\ k \in Nat /\ n <= k /\ (\A i \in 1 .. n : q.wire[i] = w[i])
      /\ Defining(q.wire, 0, k) = Defining(w, 0, n)
      /\ Applying(q.wire, 0, k) = Applying(w, 0, n)
      /\ Known(q.wire, 0, k) = Known(w, 0, n)
  BY <1>6 DEF Quiet
<1>9. j \in Defining(q.wire, 0, k) /\ q.wire[j] = w[j]
  BY <1>2, <1>8
<1>10. body \in PyBody /\ Fits(Append(q.wire, Message(1, body, q.compressed)), k, 1, q.compressed)
  BY <1>3, <1>6, <1>9, UseFits
<1> HIDE DEF body
<1>11. /\ 1 \in Nat
       /\ 1 \notin {StartCompressedSectionId, EndCompressedSectionId, StreamFooterId}
  BY PyIdsDiffer DEF FixedIds
<1>12. Wrote(q, r, 1, body, k, C)
  BY <1>4, <1>6, <1>10, <1>11, WriteMessageRight
<1>13. Core(r, DOMAIN s.class_id)
  BY <1>4, <1>6, <1>10, <1>11, WriteMessageStands
<1>14. /\ Longer(q, r, Message(1, body, q.compressed)) /\ Grown(q.wire, u, u[k + 1], k)
       /\ Len(u) = k + 1 /\ u[k + 1].kind = "message" /\ u[k + 1].id = 1
       /\ u[k + 1].body = body /\ u[k + 1].z = q.compressed
  BY <1>12 DEF Wrote
<1>15. /\ Books(s, r) /\ r.metadata_offsets = Append(s.metadata_offsets, o)
       /\ r.protoclass_offsets = s.protoclass_offsets
  BY <1>6, <1>7, <1>14 DEF Longer, Books, Addresses, Offsets
<1>16. /\ IsUserMessage(u[k + 1]) /\ IsMetadata(u[k + 1]) /\ ~HasId(u[k + 1], ProtoClassId)
       /\ u[k + 1].body.class = c
  BY <1>5, <1>14, PyIdsDiffer DEF IsUserMessage, IsMetadata, HasId, FixedIds
<1>17. /\ \A i \in 1 .. n : u[i] = w[i]
       /\ Defining(u, 0, k + 1) = Defining(w, 0, n)
       /\ Applying(u, 0, k + 1) = Applying(w, 0, n) \cup {k + 1}
       /\ Known(u, 0, k + 1) = Known(w, 0, n)
  <2>1. \A i \in 1 .. n : u[i] = w[i]
    BY <1>8, <1>14 DEF Grown
  <2>2. QED
    BY <1>8, <1>14, <1>16, <2>1 DEF Grown
<1> HIDE DEF u, w, n, k
<1>18. Lists(r.metadata_offsets, u, 0, Applying(u, 0, k + 1))
  <2>1. Lists(s.metadata_offsets, u, 0, Applying(w, 0, n))
    BY <1>1, <1>2, <1>17, ListsSame DEF Remembers, w, n
  <2>2. o = Place(u, k + 1)
    <3>1. o = IF q.compressed THEN k - 1 ELSE k
      BY <1>7 DEF Addresses, k
    <3>2. u[k + 1].z = q.compressed /\ q.compressed \in BOOLEAN
      BY <1>6, <1>14, WireIs
    <3>3. Place(u, k + 1) = IF q.compressed THEN (k + 1) - 2 ELSE (k + 1) - 1
      BY <3>2 DEF Place
    <3>4. QED
      BY <1>8, <3>1, <3>3
  <2>3. n <= o
    BY <1>7 DEF Addresses, n, w
  <2>4. k + 1 \in Nat
    BY <1>8
  <2>5. Lists(Append(s.metadata_offsets, o), u, 0, Applying(w, 0, n) \cup {k + 1})
    BY <1>2, <2>1, <2>2, <2>3, <2>4, ListsGrow
  <2>6. QED
    BY <1>15, <1>17, <2>5
<1>19. Used(s, r, c, k)
  BY <1>8, <1>14, <1>15, <1>16, <1>17, <1>18 DEF Used, u, w, n
<1>20. Steady(r)
  BY <1>6, <1>14 DEF Steady, Longer, Books
<1>21. QED
  BY <1>13, <1>15, <1>19, <1>20, UsedRight
-----------------------------------------------------------------------------
(* The beginning and the end of a stream                                    *)

LEMMA NewStreamRight ==
  ASSUME NEW z \in BOOLEAN, NEW forward \in BOOLEAN, NEW s, s = Opened(z, forward)
  PROVE  WriterRight(s) /\ ~s.closed /\ s.status = "ok"
<1> DEFINE a == NewPyStream(z, forward)
           mark == Mark("START_MAGIC", NoBody)
           b == Put(a, mark)
           body == [metadata_refers_forward |-> forward]
           c == Put(b, Message(StreamHeaderId, body, b.compressed))
           C == {}
           none == << >>
<1>1. none \in [C -> Nat] /\ DOMAIN none = C /\ none \in Seq(Nat) /\ none \in Seq(PyCell)
      /\ Len(none) = 0 /\ C \in SUBSET File /\ ToSet(none) = {}
  BY DEF ToSet
<1>2. /\ a \in PyStreams(C) /\ a.wire = none /\ a.compressed = FALSE /\ a.bytes_written = 0
      /\ a.class_id = none /\ a.written_fdps = C /\ a.metadata_offsets = none
      /\ a.protoclass_offsets = none /\ a.closed = FALSE /\ a.status = "ok"
      /\ a.next_class_id = 0 /\ a.next_metadata_class_id = 1
      /\ a.metadata_refers_forward = forward
  <2> HIDE DEF none, C
  <2>1. a = [compression |-> z, metadata_refers_forward |-> forward,
             compressed |-> FALSE, closed |-> FALSE, bytes_written |-> 0, pre |-> 0, zbytes |-> 0,
             next_class_id |-> 0, next_metadata_class_id |-> 1, class_id |-> none,
             written_fdps |-> C, metadata_offsets |-> none, protoclass_offsets |-> none,
             wire |-> none, status |-> "ok"]
    BY DEF NewPyStream, none, C
  <2>2. 0 \in Nat /\ 1 \in Nat /\ C \in SUBSET File
    BY <1>1
  <2> HIDE DEF a
  <2>3. QED
    BY <1>1, <2>1, <2>2 DEF PyStreams
<1> HIDE DEF a
<1>3. mark \in PyCell /\ mark.kind = "START_MAGIC" /\ mark.z = FALSE
  BY DEF Mark, PyCell, PyBody
<1> HIDE DEF mark
<1>4. b \in PyStreams(C) /\ Longer(a, b, mark)
  BY <1>2, <1>3, PutIs
<1>5. /\ b.wire = Append(none, mark) /\ b.compressed = FALSE /\ b.bytes_written = 1
      /\ Books(a, b) /\ b.metadata_offsets = none /\ b.protoclass_offsets = none
  BY <1>2, <1>4 DEF Longer
<1>6. Grown(none, b.wire, mark, 0)
  BY <1>1, <1>3, <1>5, CellGrows
<1>7. CellRight(b.wire, 0, 1)
  <2>1. b.wire[1] = mark /\ 1 = 0 + 1 /\ ~(1 = 0 + 2) /\ ~(1 > 0 + 1)
    BY <1>6 DEF Grown
  <2>2. /\ ~HasId(mark, StreamHeaderId) /\ ~HasId(mark, EndCompressedSectionId)
        /\ ~HasId(mark, StartCompressedSectionId) /\ ~HasId(mark, StreamFooterId)
        /\ ~HasId(mark, ProtoClassId) /\ ~IsUserMessage(mark)
    BY <1>3 DEF HasId, IsUserMessage
  <2> HIDE DEF b
  <2>3. QED
    BY <1>3, <2>1, <2>2 DEF CellRight
<1>8. StreamTo(b.wire, 0, 1)
  BY <1>7 DEF StreamTo
<1>9. /\ Defining(none, 0, 0) = {} /\ Applying(none, 0, 0) = {} /\ Known(none, 0, 0) = {}
  BY DEF Defining, Applying, Known
<1> HIDE DEF b
<1>10. body \in PyBody /\ body \in [metadata_refers_forward : BOOLEAN] /\ StreamHeaderId \in Nat
  BY PyIdsDiffer DEF PyBody
<1> HIDE DEF body
<1> DEFINE e == Message(StreamHeaderId, body, b.compressed)
<1>11. e \in PyCell /\ e.kind = "message" /\ e.id = StreamHeaderId /\ e.body = body /\ e.z = FALSE
  <2>1. b.compressed \in BOOLEAN
    BY <1>5
  <2>2. QED
    BY <1>5, <1>10, <2>1, PyMessageIs
<1>12. b.wire \in Seq(PyCell) /\ 1 = Len(b.wire) /\ c = Put(b, e)
  BY <1>4, <1>6 DEF PyStreams, Grown
<1> HIDE DEF e
<1>13. c \in PyStreams(C) /\ Longer(b, c, e)
  BY <1>4, <1>11, <1>12, PutIs
<1> HIDE DEF c
<1>14. /\ c.wire = Append(b.wire, e) /\ c.compressed = FALSE /\ c.bytes_written = 2
       /\ Books(b, c) /\ c.metadata_offsets = none /\ c.protoclass_offsets = none
  BY <1>5, <1>13 DEF Longer
<1>15. Grown(b.wire, c.wire, e, 1)
  BY <1>11, <1>12, <1>14, CellGrows
<1>16. c.wire[2] = e /\ c.wire[1] = mark /\ Len(c.wire) = 2
  BY <1>6, <1>15 DEF Grown
<1>17. CellRight(c.wire, 0, 1 + 1)
  <2>1. 2 = 0 + 2 /\ ~(2 = 0 + 1) /\ 2 > 0 + 1 /\ 2 - 1 = 1 /\ 1 + 1 = 2
    OBVIOUS
  <2>2. /\ HasId(e, StreamHeaderId) /\ ~HasId(e, EndCompressedSectionId)
        /\ ~HasId(e, StartCompressedSectionId) /\ ~HasId(e, StreamFooterId)
        /\ ~HasId(e, ProtoClassId) /\ ~IsUserMessage(e)
    BY <1>11, PyIdsDiffer DEF HasId, IsUserMessage, FixedIds
  <2>3. ~Opens(mark) /\ ~HasId(mark, EndCompressedSectionId) /\ ~HasId(mark, StreamFooterId)
    BY <1>3 DEF Opens, IsMessage, HasId
  <2>4. CellRight(c.wire, 0, 2)
    BY <1>3, <1>10, <1>11, <1>16, <2>1, <2>2, <2>3 DEF CellRight
  <2>5. QED
    BY <2>1, <2>4
<1>18. StreamTo(c.wire, 0, 1 + 1)
  BY <1>8, <1>15, <1>17, StreamGrows
<1>19. Core(c, C) /\ ~c.compressed
  <2>1. ~Opens(e) /\ ~HasId(e, StreamFooterId) /\ ~HasId(e, EndCompressedSectionId)
    BY <1>11, PyIdsDiffer DEF HasId, Opens, IsMessage
  <2>2. Stands(c)
    BY <1>11, <1>14, <1>16, <2>1 DEF Stands
  <2>3. QED
    BY <1>13, <1>14, <1>16, <1>18, <2>2 DEF Core
<1>20. /\ Defining(c.wire, 0, 2) = {} /\ Applying(c.wire, 0, 2) = {} /\ Known(c.wire, 0, 2) = {}
  <2>1. ~HasId(mark, ProtoClassId) /\ ~IsMetadata(mark) /\ ~HasId(e, ProtoClassId) /\ ~IsMetadata(e)
    BY <1>3, <1>11, PyIdsDiffer DEF HasId, IsMetadata, IsUserMessage, FixedIds
  <2>2. 1 \in Nat /\ 0 + 1 = 1 /\ 1 + 1 = 2
    OBVIOUS
  <2>3. Defining(b.wire, 0, 1) = {} /\ Applying(b.wire, 0, 1) = {} /\ Known(b.wire, 0, 1) = {}
    BY <1>6, <1>9, <2>1, <2>2 DEF Grown
  <2>4. QED
    BY <1>15, <2>1, <2>2, <2>3 DEF Grown
<1>21. s = PyStartCompression(c)
  <2>1. Put(a, Mark("START_MAGIC", NoBody)) = b
    BY DEF b, mark
  <2>2. PyWriteHeader(a) = PyWriteMessage(b, StreamHeaderId, body)
    BY <1>2, <2>1 DEF PyWriteHeader, body
  <2>3. PyWriteHeader(a) = c
    BY <2>2 DEF PyWriteMessage, c, e
  <2>4. QED
    BY <2>3 DEF Opened, a
<1>22. /\ Core(s, C) /\ Between(c, s)
  BY <1>19, <1>21, StartSection
<1>23. /\ s.class_id = none /\ s.written_fdps = C /\ s.metadata_offsets = none
       /\ s.protoclass_offsets = none /\ s.closed = FALSE /\ s.status = "ok"
       /\ s.next_class_id = 0 /\ s.next_metadata_class_id = 1
  BY <1>2, <1>5, <1>14, <1>22 DEF Between, Books
<1>24. /\ Defining(s.wire, 0, Len(s.wire)) = {} /\ Applying(s.wire, 0, Len(s.wire)) = {}
       /\ Known(s.wire, 0, Len(s.wire)) = {}
  BY <1>16, <1>20, <1>22 DEF Between, Quiet
<1>25. Remembers(s)
  <2>1. Ascending(none) /\ ToSet(none) = {}
    BY <1>1 DEF Ascending
  <2>2. {Place(s.wire, j) - 0 : j \in {}} = {}
    OBVIOUS
  <2>3. QED
    BY <1>23, <1>24, <2>1, <2>2 DEF Remembers, Lists, Closed
<1>26. ClassesBound(s) /\ IdsRight(s) /\ ClassesUsedBy(s)
  BY <1>1, <1>23, <1>24 DEF ClassesBound, IdsRight, ClassesUsedBy
<1>27. QED
  BY <1>1, <1>22, <1>23, <1>25, <1>26 DEF WriterRight, Core

\* The footer fits.
LEMMA FooterFits ==
  ASSUME NEW s, WriterRight(s), ~s.closed, NEW q, Core(q, DOMAIN s.class_id), Between(s, q),
         ~q.compressed, NEW n, n = Len(q.wire), q.bytes_written = n
  PROVE  /\ PyFooter(q) \in PyBody
         /\ Fits(Append(q.wire, Message(StreamFooterId, PyFooter(q), q.compressed)), n,
                 StreamFooterId, q.compressed)
<1> DEFINE body == PyFooter(q)
           e == Message(StreamFooterId, body, q.compressed)
           v == Append(q.wire, e)
           k == n + 1
           w == s.wire
           C == DOMAIN s.class_id
<1>1. /\ q.wire \in Seq(PyCell) /\ n \in Nat /\ n >= 2 /\ q.compressed \in BOOLEAN
      /\ StreamFooterId \in Nat /\ q \in PyStreams(C) /\ q.bytes_written \in Nat
  BY WireIs, PyIdsDiffer DEF Core
<1>2. /\ body \in [size : Nat, metadata_offsets : Seq(Nat), protoclass_offsets : Seq(Nat),
                   class_count : {{}}]
      /\ body.size = n /\ body.metadata_offsets = q.metadata_offsets
      /\ body.protoclass_offsets = q.protoclass_offsets
  BY <1>1 DEF PyFooter, PyStreams
<1> HIDE DEF body
<1>3. body \in PyBody
  BY <1>2 DEF PyBody
<1>4. e \in PyCell /\ e.kind = "message" /\ e.id = StreamFooterId /\ e.body = body /\ e.z = FALSE
  BY <1>1, <1>3, PyMessageIs
<1> HIDE DEF e
<1>5. Grown(q.wire, v, e, n)
  BY <1>1, <1>4, CellGrows
<1> HIDE DEF v
<1>6. (k - 1) - 0 = n /\ k - 1 = n /\ k \in Nat
  BY <1>1
<1>7. ~HasId(e, ProtoClassId) /\ ~IsMetadata(e) /\ ~IsUserMessage(e)
  BY <1>4, PyIdsDiffer DEF HasId, IsMetadata, IsUserMessage, FixedIds
<1>8. /\ v[k] = e /\ (\A i \in 1 .. n : v[i] = q.wire[i])
      /\ Defining(v, 0, k) = Defining(q.wire, 0, n)
      /\ Applying(v, 0, k) = Applying(q.wire, 0, n)
  BY <1>5, <1>7 DEF Grown
<1>9. /\ Len(w) \in Nat /\ Len(w) <= n /\ (\A i \in 1 .. Len(w) : v[i] = w[i])
      /\ Defining(v, 0, k) = Defining(w, 0, Len(w))
      /\ Applying(v, 0, k) = Applying(w, 0, Len(w))
  <2>1. /\ Len(w) \in Nat /\ Len(w) <= n /\ (\A i \in 1 .. Len(w) : q.wire[i] = w[i])
        /\ Defining(q.wire, 0, n) = Defining(w, 0, Len(w))
        /\ Applying(q.wire, 0, n) = Applying(w, 0, Len(w))
    BY DEF Between, Quiet
  <2>2. \A i \in 1 .. Len(w) : i \in 1 .. n
    BY <1>1, <2>1
  <2>3. QED
    BY <1>8, <2>1, <2>2
<1>10. /\ Defining(w, 0, Len(w)) \in SUBSET (1 .. Len(w))
       /\ Applying(w, 0, Len(w)) \in SUBSET (1 .. Len(w))
  BY <1>9, SetsAre
<1> HIDE DEF k
<1>11. /\ Lists(body.metadata_offsets, v, 0, Applying(v, 0, k))
       /\ Lists(body.protoclass_offsets, v, 0, Defining(v, 0, k))
  <2>1. /\ Lists(s.metadata_offsets, w, 0, Applying(w, 0, Len(w)))
        /\ Lists(s.protoclass_offsets, w, 0, Defining(w, 0, Len(w)))
    BY DEF WriterRight, Remembers
  <2>2. Lists(s.metadata_offsets, v, 0, Applying(w, 0, Len(w)))
    BY <1>9, <1>10, <2>1, ListsSame
  <2>3. Lists(s.protoclass_offsets, v, 0, Defining(w, 0, Len(w)))
    BY <1>9, <1>10, <2>1, ListsSame
  <2>4. body.metadata_offsets = s.metadata_offsets /\ body.protoclass_offsets = s.protoclass_offsets
    BY <1>2 DEF Between
  <2>5. QED
    BY <1>9, <2>2, <2>3, <2>4
<1>12. ASSUME NEW j \in Defining(v, 0, k) PROVE UsedBehind(v, j, k - 1)
  <2>1. j \in Defining(w, 0, Len(w)) /\ j \in 1 .. Len(w)
    BY <1>9, <1>10
  <2>2. UsedBehind(w, j, Len(w))
    BY <2>1 DEF WriterRight, ClassesUsedBy
  <2>3. UsedBehind(v, j, n)
    BY <1>1, <1>9, <2>1, <2>2, UsedStill, Zenon
  <2>4. QED
    BY <1>6, <2>3
<1>13. SummaryRight(v, 0, k)
  BY <1>2, <1>4, <1>6, <1>8, <1>11, <1>12 DEF SummaryRight
<1>14. QED
  BY <1>1, <1>3, <1>13, PyIdsDiffer DEF Fits, FixedIds, v, e, k, body

\* The two marks behind a footer
LEMMA LengthRight ==
  ASSUME NEW v, NEW w, NEW n \in Nat, n >= 2, NEW c, Grown(w, v, c, n),
         c.kind = "FooterSize", c.z = FALSE, HasId(w[n], StreamFooterId), ~w[n].z
  PROVE  CellRight(v, 0, n + 1)
<1> DEFINE k == n + 1
<1>1. k - 1 = n /\ k # 0 + 1 /\ k # 0 + 2 /\ k > 0 + 1
  OBVIOUS
<1>2. v[k] = c /\ v[k - 1] = w[n]
  BY <1>1 DEF Grown
<1>3. /\ ~HasId(c, StreamHeaderId) /\ ~HasId(c, EndCompressedSectionId)
      /\ ~HasId(c, StartCompressedSectionId) /\ ~HasId(c, StreamFooterId)
      /\ ~HasId(c, ProtoClassId) /\ ~IsUserMessage(c)
  BY DEF HasId, IsUserMessage
<1>4. /\ ~Opens(w[n]) /\ ~HasId(w[n], EndCompressedSectionId) /\ w[n].kind = "message"
  BY PyIdsDiffer DEF Opens, HasId, IsMessage
<1> HIDE DEF k
<1>5. CellRight(v, 0, k)
  BY <1>1, <1>2, <1>3, <1>4 DEF CellRight
<1>6. QED
  BY <1>5 DEF k

LEMMA EndRight ==
  ASSUME NEW v, NEW w, NEW n \in Nat, n >= 2, NEW c, Grown(w, v, c, n),
         c.kind = "END_MAGIC", c.z = FALSE, w[n].kind = "FooterSize"
  PROVE  CellRight(v, 0, n + 1)
<1> DEFINE k == n + 1
<1>1. k - 1 = n /\ k # 0 + 1 /\ k # 0 + 2 /\ k > 0 + 1
  OBVIOUS
<1>2. v[k] = c /\ v[k - 1] = w[n]
  BY <1>1 DEF Grown
<1>3. /\ ~HasId(c, StreamHeaderId) /\ ~HasId(c, EndCompressedSectionId)
      /\ ~HasId(c, StartCompressedSectionId) /\ ~HasId(c, StreamFooterId)
      /\ ~HasId(c, ProtoClassId) /\ ~IsUserMessage(c)
  BY DEF HasId, IsUserMessage
<1>4. /\ ~Opens(w[n]) /\ ~HasId(w[n], EndCompressedSectionId) /\ ~HasId(w[n], StreamFooterId)
  BY DEF Opens, HasId, IsMessage
<1> HIDE DEF k
<1>5. CellRight(v, 0, k)
  BY <1>1, <1>2, <1>3, <1>4 DEF CellRight
<1>6. QED
  BY <1>5 DEF k

\* A stream with its footer
Ended(s, r) ==
    /\ r \in PyStreams(DOMAIN s.class_id) /\ r.class_id = s.class_id /\ r.closed = s.closed
    /\ r.status = s.status /\ Len(r.wire) > 0
    /\ StreamTo(r.wire, 0, Len(r.wire)) /\ r.wire[Len(r.wire)].kind = "END_MAGIC"
    /\ Remembers(r) /\ ClassesBound(r) /\ IdsRight(r)

LEMMA FinishedRight ==
  ASSUME NEW s, WriterRight(s), ~s.closed, NEW r, r = Finished(s)
  PROVE  Ended(s, r)
<1> DEFINE q == IF s.compressed THEN PyStopCompression(s) ELSE s
           C == DOMAIN s.class_id
           n == Len(q.wire)
           f == PyWriteMessage(q, StreamFooterId, PyFooter(q))
           size == Mark("FooterSize", [size |-> 1])
           g == [f EXCEPT !.wire = Append(@, size)]
           magic == Mark("END_MAGIC", NoBody)
<1>1. Core(s, C) /\ s.compressed \in BOOLEAN
  <2>1. Core(s, C)
    BY DEF WriterRight, Core
  <2>2. QED
    BY <2>1, WireIs
<1>2. Core(q, C) /\ Between(s, q) /\ ~q.compressed /\ q.bytes_written = Len(q.wire)
  <2>1. CASE s.compressed
    <3>1. q = PyStopCompression(s)
      BY <2>1
    <3> HIDE DEF q
    <3>2. QED
      BY <1>1, <2>1, <3>1, StopSection
  <2>2. CASE ~s.compressed
    <3>1. q = s
      BY <2>2
    <3>2. s.bytes_written = Len(s.wire) /\ Len(s.wire) \in Nat
      BY <1>1, <2>2, WireIs DEF Core, Stands
    <3>3. Between(s, s)
      BY <3>2 DEF Between, Books, Quiet
    <3>4. QED
      BY <1>1, <2>2, <3>1, <3>2, <3>3
  <2>3. QED
    BY <2>1, <2>2
<1>3. r = Put(g, magic)
  BY DEF Finished, PyWriteFooter
<1> HIDE DEF q
<1>4. n \in Nat /\ n >= 2 /\ q.compressed = FALSE
  BY <1>2, WireIs
<1>5. /\ PyFooter(q) \in PyBody
      /\ Fits(Append(q.wire, Message(StreamFooterId, PyFooter(q), q.compressed)), n,
              StreamFooterId, q.compressed)
  BY <1>2, FooterFits
<1>6. Wrote(q, f, StreamFooterId, PyFooter(q), n, C)
  <2>1. StreamFooterId \in Nat
    BY PyIdsDiffer
  <2>2. QED
    BY <1>2, <1>5, <2>1, WriteMessageRight
<1> HIDE DEF f, n
<1>7. /\ f \in PyStreams(C) /\ Longer(q, f, Message(StreamFooterId, PyFooter(q), q.compressed))
      /\ Grown(q.wire, f.wire, f.wire[n + 1], n)
      /\ HasId(f.wire[n + 1], StreamFooterId) /\ ~f.wire[n + 1].z
      /\ Len(f.wire) = n + 1 /\ StreamTo(f.wire, 0, n + 1) /\ f.wire \in Seq(PyCell)
  BY <1>4, <1>6 DEF Wrote, HasId, PyStreams
<1>8. /\ size \in PyCell /\ size.kind = "FooterSize" /\ size.z = FALSE
      /\ magic \in PyCell /\ magic.kind = "END_MAGIC" /\ magic.z = FALSE
  BY DEF Mark, PyCell, PyBody
<1> HIDE DEF size, magic
<1>9. /\ g \in PyStreams(C) /\ g.wire = Append(f.wire, size) /\ Books(f, g)
      /\ g.metadata_offsets = f.metadata_offsets /\ g.protoclass_offsets = f.protoclass_offsets
  <2>1. Append(f.wire, size) \in Seq(PyCell)
    BY <1>7, <1>8
  <2>2. QED
    BY <1>7, <2>1 DEF PyStreams, Books
<1> HIDE DEF g
<1>10. r \in PyStreams(C) /\ Longer(g, r, magic)
  BY <1>3, <1>8, <1>9, PutIs
<1>11. n + 1 \in Nat /\ n + 1 >= 2 /\ (n + 1) + 1 \in Nat /\ (n + 1) + 1 >= 2
  BY <1>4
<1>12. Grown(f.wire, g.wire, size, n + 1)
  BY <1>7, <1>8, <1>9, CellGrows
<1>13. Len(g.wire) = (n + 1) + 1 /\ g.wire[(n + 1) + 1] = size /\ g.wire \in Seq(PyCell)
  BY <1>12 DEF Grown
<1>14. Grown(g.wire, r.wire, magic, (n + 1) + 1)
  <2>1. r.wire = Append(g.wire, magic)
    BY <1>10 DEF Longer
  <2>2. QED
    BY <1>8, <1>13, <2>1, CellGrows
<1>15. Len(r.wire) = ((n + 1) + 1) + 1 /\ r.wire[((n + 1) + 1) + 1] = magic
  BY <1>14 DEF Grown
<1>16. StreamTo(r.wire, 0, Len(r.wire))
  <2>1. CellRight(g.wire, 0, (n + 1) + 1)
    BY <1>7, <1>8, <1>11, <1>12, LengthRight
  <2>2. StreamTo(g.wire, 0, (n + 1) + 1)
    BY <1>7, <1>11, <1>12, <2>1, StreamGrows
  <2>3. CellRight(r.wire, 0, ((n + 1) + 1) + 1)
    BY <1>8, <1>11, <1>13, <1>14, EndRight
  <2>4. StreamTo(r.wire, 0, ((n + 1) + 1) + 1)
    BY <1>11, <1>14, <2>2, <2>3, StreamGrows
  <2>5. QED
    BY <1>15, <2>4
<1>17. Quiet(s.wire, r.wire)
  <2>1. Quiet(q.wire, f.wire)
    <3>1. ~HasId(f.wire[n + 1], ProtoClassId) /\ ~IsMetadata(f.wire[n + 1])
      BY <1>7, PyIdsDiffer DEF HasId, IsMetadata, IsUserMessage, FixedIds
    <3>2. QED
      BY <1>4, <1>7, <3>1, QuietGrows DEF n
  <2>2. Quiet(f.wire, g.wire)
    <3>1. ~HasId(size, ProtoClassId) /\ ~IsMetadata(size)
      BY <1>8 DEF HasId, IsMetadata, IsUserMessage
    <3>2. QED
      BY <1>7, <1>11, <1>12, <3>1, QuietGrows
  <2>3. Quiet(g.wire, r.wire)
    <3>1. ~HasId(magic, ProtoClassId) /\ ~IsMetadata(magic)
      BY <1>8 DEF HasId, IsMetadata, IsUserMessage
    <3>2. QED
      BY <1>11, <1>13, <1>14, <3>1, QuietGrows
  <2>4. Quiet(s.wire, q.wire)
    BY <1>2 DEF Between
  <2>5. Quiet(s.wire, f.wire)
    BY <2>1, <2>4, QuietTwice
  <2>6. Quiet(s.wire, g.wire)
    BY <2>2, <2>5, QuietTwice
  <2>7. QED
    BY <2>3, <2>6, QuietTwice
<1>18. /\ Books(s, r) /\ r.metadata_offsets = s.metadata_offsets
       /\ r.protoclass_offsets = s.protoclass_offsets
  BY <1>2, <1>7, <1>9, <1>10 DEF Between, Longer, Books
<1> DEFINE w == s.wire
           u == r.wire
<1>19. /\ Len(w) \in Nat /\ (\A i \in 1 .. Len(w) : u[i] = w[i])
       /\ Defining(u, 0, Len(u)) = Defining(w, 0, Len(w))
       /\ Applying(u, 0, Len(u)) = Applying(w, 0, Len(w))
       /\ Known(u, 0, Len(u)) = Known(w, 0, Len(w))
  BY <1>17 DEF Quiet
<1>20. /\ Defining(w, 0, Len(w)) \in SUBSET (1 .. Len(w))
       /\ Applying(w, 0, Len(w)) \in SUBSET (1 .. Len(w))
  BY <1>19, SetsAre
<1>21. Remembers(s) /\ ClassesBound(s) /\ IdsRight(s)
  BY DEF WriterRight
<1>22. Remembers(r)
  <2>1. Lists(s.metadata_offsets, u, 0, Applying(w, 0, Len(w)))
    BY <1>19, <1>20, <1>21, ListsSame DEF Remembers
  <2>2. Lists(s.protoclass_offsets, u, 0, Defining(w, 0, Len(w)))
    BY <1>19, <1>20, <1>21, ListsSame DEF Remembers
  <2>3. r.written_fdps = Known(u, 0, Len(u)) /\ Closed(r.written_fdps)
    BY <1>18, <1>19, <1>21 DEF Remembers, Books
  <2>4. QED
    BY <1>18, <1>19, <2>1, <2>2, <2>3 DEF Remembers
<1>23. ClassesBound(r)
  <2>1. \A j \in Defining(w, 0, Len(w)) : u[j] = w[j]
    BY <1>19, <1>20
  <2>2. \A d \in DOMAIN s.class_id :
           \E j \in Defining(u, 0, Len(u)) :
               /\ u[j].body.class_id = s.class_id[d] /\ u[j].body.full_name = d
               /\ u[j].z <=> s.compression
    BY <1>19, <1>21, <2>1, SMTT(30) DEF ClassesBound
  <2>3. \A j \in Defining(u, 0, Len(u)) :
           \E d \in DOMAIN s.class_id :
               u[j].body.class_id = s.class_id[d] /\ u[j].body.full_name = d
    BY <1>19, <1>21, <2>1 DEF ClassesBound
  <2>4. QED
    BY <1>18, <2>2, <2>3 DEF ClassesBound, Books
<1>24. IdsRight(r)
  BY <1>18, <1>21 DEF IdsRight, Books
<1>25. Len(u) > 0 /\ u[Len(u)].kind = "END_MAGIC"
  BY <1>8, <1>11, <1>15
<1>26. QED
  BY <1>10, <1>16, <1>18, <1>22, <1>23, <1>24, <1>25 DEF Ended, Books
-----------------------------------------------------------------------------
(* The file                                                                 *)

LEMMA FileGrows ==
  ASSUME NEW f, FileRight(f), Untorn(f), NEW w \in Seq(PyCell), StreamTo(w, 0, Len(w)),
         NEW g, g = f \o w
  PROVE  FileRight(g) /\ (Untorn(w) => Untorn(g))
<1> DEFINE n == Len(f)
           m == Len(w)
<1>1. /\ f \in Seq(PyCell) /\ n \in Nat /\ m \in Nat /\ g \in Seq(PyCell)
      /\ Len(g) = n + m /\ DOMAIN g = 1 .. n + m /\ DOMAIN f = 1 .. n
  BY DEF FileRight
<1>2. /\ \A i \in 1 .. n : g[i] = f[i]
      /\ \A i \in 1 .. m : g[n + i] = w[i]
  BY <1>1
<1> HIDE DEF n, m
<1>3. ASSUME NEW i \in 1 .. n + m PROVE \E b \in 0 .. i - 1 : StreamTo(g, b, i)
  <2>1. CASE i <= n
    <3>1. i \in 1 .. n
      BY <1>1, <2>1
    <3>2. PICK b \in 0 .. i - 1 : StreamTo(f, b, i)
      BY <1>1, <3>1 DEF FileRight
    <3> DEFINE k == i - b
    <3>3. k \in Nat /\ b \in Nat /\ i = b + k
      BY <1>1
    <3>4. \A x \in b + 1 .. b + k : x \in 1 .. n
      BY <1>1, <2>1, <3>3
    <3> HIDE DEF k
    <3>5. Alike(f, b, g, b, k)
      <4>1. ASSUME NEW x \in b + 1 .. b + k, NEW y \in b + 1 .. b + k, Same(b, b, y, x)
            PROVE  g[x] = f[y]
        <5>1. x = y
          BY <1>1, <3>3, <4>1 DEF Same
        <5>2. QED
          BY <1>2, <3>4, <5>1
      <4>2. QED
        BY <4>1 DEF Alike
    <3>6. StreamTo(g, b, i)
      BY <3>2, <3>3, <3>5, StreamMoved
    <3>7. QED
      BY <3>6
  <2>2. CASE i > n
    <3> DEFINE k == i - n
    <3>1. k \in 1 .. m /\ k \in Nat /\ i = n + k /\ n \in 0 .. i - 1 /\ 0 \in Nat
      BY <1>1, <2>2
    <3> HIDE DEF k
    <3>2. Alike(w, 0, g, n, k)
      <4>1. ASSUME NEW x \in n + 1 .. n + k, NEW y \in 0 + 1 .. 0 + k, Same(0, n, y, x)
            PROVE  g[x] = w[y]
        <5>1. x = n + y /\ y \in 1 .. m
          BY <1>1, <3>1, <4>1 DEF Same
        <5>2. QED
          BY <1>2, <5>1
      <4>2. QED
        BY <4>1 DEF Alike
    <3>3. StreamTo(w, 0, 0 + k)
      <4>1. \A x \in 0 + 1 .. 0 + k : x \in 0 + 1 .. m
        BY <1>1, <3>1
      <4>2. QED
        BY <4>1 DEF StreamTo, m
    <3>4. StreamTo(g, n, i)
      BY <1>1, <3>1, <3>2, <3>3, StreamMoved
    <3>5. QED
      BY <3>1, <3>4
  <2>3. QED
    BY <1>1, <2>1, <2>2
<1>4. ASSUME NEW i \in 1 .. n + m, g[i].kind = "TORN_MAGIC"
      PROVE  i = n + m /\ ~Untorn(w)
  <2>1. ~(i <= n)
    BY <1>1, <1>2, <1>4 DEF Untorn
  <2> DEFINE k == i - n
  <2>2. k \in 1 .. m /\ i = n + k /\ m \in Nat /\ n \in Nat
    BY <1>1, <2>1
  <2> HIDE DEF k
  <2>3. w[k].kind = "TORN_MAGIC"
    BY <1>2, <1>4, <2>2
  <2>4. CASE k + 1 \in 1 .. m
    <3>1. CellRight(w, 0, k + 1)
      BY <2>4 DEF StreamTo, m
    <3>2. k + 1 > 0 + 1 /\ (k + 1) - 1 = k
      BY <2>2
    <3>3. w[k].kind \notin {"END_MAGIC", "TORN_MAGIC"}
      BY <3>1, <3>2 DEF CellRight
    <3>4. QED
      BY <2>3, <3>3
  <2>5. k = m
    BY <2>2, <2>4
  <2>6. k \in DOMAIN w
    BY <2>2 DEF m
  <2>7. QED
    BY <2>2, <2>3, <2>5, <2>6 DEF Untorn
<1>5. QED
  BY <1>1, <1>3, <1>4 DEF FileRight, Untorn

LEMMA WholeGrows ==
  ASSUME NEW f \in Seq(PyCell), Whole(f), NEW w \in Seq(PyCell), StreamTo(w, 0, Len(w)),
         Len(w) > 0, w[Len(w)].kind = "END_MAGIC", NEW g, g = f \o w
  PROVE  Whole(g)
<1> DEFINE n == Len(f)
           m == Len(w)
<1>1. /\ n \in Nat /\ m \in Nat /\ m > 0
      /\ Len(g) = n + m /\ DOMAIN g = 1 .. n + m /\ DOMAIN f = 1 .. n
      /\ \A i \in 1 .. n : g[i] = f[i]
      /\ \A i \in 1 .. m : g[n + i] = w[i]
  OBVIOUS
<1>2. w[m].kind = "END_MAGIC"
  OBVIOUS
<1> HIDE DEF n, m
<1>3. ASSUME NEW i \in 1 .. n + m, i = n + m \/ g[i + 1].kind = "START_MAGIC"
      PROVE  g[i].kind = "END_MAGIC"
  <2>1. CASE i < n
    <3>1. i \in 1 .. n /\ i + 1 \in 1 .. n /\ i # n + m
      BY <1>1, <2>1
    <3>2. f[i + 1].kind = "START_MAGIC"
      BY <1>1, <1>3, <3>1
    <3>3. f[i].kind = "END_MAGIC"
      BY <1>1, <3>1, <3>2 DEF Whole
    <3>4. QED
      BY <1>1, <3>1, <3>3
  <2>2. CASE i = n
    <3>1. i \in 1 .. n /\ i = Len(f)
      BY <1>1, <2>2 DEF n
    <3>2. f[i].kind = "END_MAGIC"
      BY <1>1, <3>1 DEF Whole
    <3>3. QED
      BY <1>1, <3>1, <3>2
  <2>3. CASE i > n
    <3> DEFINE k == i - n
    <3>1. k \in 1 .. m /\ i = n + k
      BY <1>1, <2>3
    <3> HIDE DEF k
    <3>2. CASE k = m
      BY <1>1, <1>2, <3>1, <3>2
    <3>3. CASE k # m
      <4>1. k + 1 \in 1 .. m /\ k + 1 \in 0 + 1 .. m /\ i + 1 = n + (k + 1) /\ i # n + m
        BY <1>1, <3>1, <3>3
      <4>2. w[k + 1].kind = "START_MAGIC"
        BY <1>1, <1>3, <4>1
      <4>3. CellRight(w, 0, k + 1)
        BY <4>1 DEF StreamTo, m
      <4>4. k + 1 = 0 + 1
        BY <4>2, <4>3, Zenon DEF CellRight
      <4>5. QED
        BY <3>1, <4>4
    <3>4. QED
      BY <3>2, <3>3
  <2>4. QED
    BY <1>1, <2>1, <2>2, <2>3
<1>4. QED
  BY <1>1, <1>3 DEF Whole

\* What a crash leaves of a stream
LEMMA BeginningRight ==
  ASSUME NEW w \in Seq(PyCell), StreamTo(w, 0, Len(w)), NEW n \in 0 .. Len(w),
         NEW v, v = SubSeq(w, 1, n)
  PROVE  v \in Seq(PyCell) /\ StreamTo(v, 0, Len(v))
<1>1. v \in Seq(PyCell) /\ Len(v) = n /\ n \in Nat /\ \A i \in 1 .. n : v[i] = w[i]
  OBVIOUS
<1>2. Alike(w, 0, v, 0, n)
  <2>1. ASSUME NEW x \in 0 + 1 .. 0 + n, NEW y \in 0 + 1 .. 0 + n, Same(0, 0, y, x)
        PROVE  v[x] = w[y]
    BY <1>1, <2>1 DEF Same
  <2>2. QED
    BY <2>1 DEF Alike
<1>3. StreamTo(w, 0, 0 + n)
  <2>1. \A x \in 0 + 1 .. 0 + n : x \in 0 + 1 .. Len(w)
    BY <1>1
  <2>2. QED
    BY <2>1 DEF StreamTo
<1>4. StreamTo(v, 0, 0 + n)
  BY <1>1, <1>2, <1>3, StreamMoved
<1>5. QED
  BY <1>1, <1>4
\* A stream is torn only where there is nothing behind its magic.
LEMMA NotTorn ==
  ASSUME NEW w \in Seq(PyCell), StreamTo(w, 0, Len(w)), Len(w) >= 2
  PROVE  Untorn(w) /\ \A n \in 0 .. Len(w) : Untorn(SubSeq(w, 1, n))
<1>1. Len(w) \in Nat /\ DOMAIN w = 1 .. Len(w)
  OBVIOUS
<1>2. ASSUME NEW i \in 1 .. Len(w) PROVE w[i].kind # "TORN_MAGIC"
  <2>1. i \in 0 + 1 .. Len(w) /\ CellRight(w, 0, i)
    BY <1>1 DEF StreamTo
  <2>2. CASE i = 1
    <3>1. 2 \in 0 + 1 .. Len(w)
      BY <1>1
    <3>2. CellRight(w, 0, 2)
      BY <3>1 DEF StreamTo
    <3>3. 2 > 0 + 1 /\ 2 - 1 = 1
      OBVIOUS
    <3>4. QED
      BY <2>2, <3>2, <3>3 DEF CellRight
  <2>3. CASE i # 1
    <3>1. ~(i = 0 + 1)
      BY <2>3
    <3>2. QED
      BY <2>1, <3>1 DEF CellRight
  <2>4. QED
    BY <2>2, <2>3
<1>3. ASSUME NEW n \in 0 .. Len(w), NEW i \in DOMAIN SubSeq(w, 1, n)
      PROVE  SubSeq(w, 1, n)[i].kind # "TORN_MAGIC"
  <2>1. i \in 1 .. Len(w) /\ SubSeq(w, 1, n)[i] = w[i]
    BY <1>1
  <2>2. QED
    BY <1>2, <2>1
<1>4. QED
  BY <1>1, <1>2, <1>3 DEF Untorn

LEMMA TwoCells ==
  ASSUME NEW n \in Nat, n > 0, n # 0 + 1
  PROVE  n >= 2
OBVIOUS

\* ... if it ends within a message of the client
LEMMA CutMessageRight ==
  ASSUME NEW w \in Seq(PyCell), StreamTo(w, 0, Len(w)), NEW n \in 1 .. Len(w),
         IsUserMessage(w[n]),
         NEW u, u = [SubSeq(w, 1, n) EXCEPT ![n].body = PyContent(@.class, FALSE)]
  PROVE  u \in Seq(PyCell) /\ StreamTo(u, 0, Len(u)) /\ Untorn(u)
<1> DEFINE v == SubSeq(w, 1, n - 1)
           c == w[n]
           e == [c EXCEPT !.body = PyContent(@.class, FALSE)]
           m == n - 1
<1>1. /\ n \in Nat /\ m \in Nat /\ n = m + 1 /\ m \in 0 .. Len(w) /\ Len(w) \in Nat
      /\ n \in 0 + 1 .. Len(w)
  OBVIOUS
<1>2. v \in Seq(PyCell) /\ Len(v) = m /\ StreamTo(v, 0, m) /\ \A i \in 1 .. m : v[i] = w[i]
  <2>1. v \in Seq(PyCell) /\ Len(v) = m /\ \A i \in 1 .. m : v[i] = w[i]
    BY <1>1
  <2>2. StreamTo(v, 0, Len(v))
    BY <1>1, BeginningRight
  <2>3. QED
    BY <2>1, <2>2
<1>3. CellRight(w, 0, n)
  BY <1>1 DEF StreamTo
<1>4. c \in PyCell /\ UsesRight(w, 0, n) /\ c.kind = "message"
  BY <1>1, <1>3 DEF CellRight, IsUserMessage
<1>5. n > 0 + 1 /\ m \in 1 .. m /\ n # 0 + 1
  <2>1. n # 0 + 1
    BY <1>3, <1>4 DEF CellRight
  <2>2. QED
    BY <1>1, <2>1
<1>6. /\ e \in PyCell /\ e.kind = c.kind /\ e.id = c.id /\ e.z = c.z
      /\ e.body = PyContent(c.body.class, FALSE)
      /\ e.body \in [class : Class, whole : BOOLEAN] /\ e.body.class = c.body.class
  <2>1. PyContent(c.body.class, FALSE) \in [class : Class, whole : BOOLEAN]
    BY <1>4 DEF UsesRight, PyContent
  <2>2. PyContent(c.body.class, FALSE) \in PyBody
    BY <2>1 DEF PyBody
  <2>3. e \in PyCell /\ e.kind = c.kind /\ e.id = c.id /\ e.z = c.z
        /\ e.body = PyContent(c.body.class, FALSE)
    BY <1>4, <2>2 DEF PyCell
  <2>4. PyContent(c.body.class, FALSE).class = c.body.class
    BY DEF PyContent
  <2>5. QED
    BY <2>1, <2>3, <2>4
<1>7. u = Append(v, e)
  <2> DEFINE t == SubSeq(w, 1, n)
  <2>1. t \in Seq(PyCell) /\ Len(t) = n /\ \A i \in 1 .. n : t[i] = w[i]
    BY <1>1
  <2> HIDE DEF t
  <2>2. u = [t EXCEPT ![n] = [t[n] EXCEPT !.body = PyContent(t[n].body.class, FALSE)]]
    BY DEF t
  <2>3. t[n] = c
    BY <1>1, <2>1
  <2> HIDE DEF e, v, c, m
  <2>4. u = [t EXCEPT ![n] = e]
    BY <2>2, <2>3 DEF e
  <2>5. \A i \in 1 .. m : i \in 1 .. n
    BY <1>1
  <2>6. v \in Seq(PyCell) /\ Len(v) = m /\ \A i \in 1 .. m : v[i] = t[i]
    BY <1>2, <2>1, <2>5
  <2>7. n > 0 /\ e \in PyCell
    BY <1>1, <1>6
  <2>8. n \in Nat /\ m \in Nat /\ n = m + 1
    BY <1>1
  <2>9. Append(v, e) = [t EXCEPT ![n] = e]
    <3> DEFINE r == [t EXCEPT ![n] = e]
               a == Append(v, e)
    <3>1. n \in 1 .. n /\ \A i \in 1 .. n : i = n \/ i \in 1 .. m
      BY <2>7, <2>8
    <3>2. t = [i \in 1 .. n |-> t[i]] /\ DOMAIN t = 1 .. n
      BY <2>1
    <3>3. r = [i \in 1 .. n |-> IF i = n THEN e ELSE t[i]]
      BY <3>2
    <3>4. a \in Seq(PyCell) /\ Len(a) = n /\ a[n] = e /\ \A i \in 1 .. m : a[i] = v[i]
      BY <2>6, <2>7, <2>8
    <3>5. r \in Seq(PyCell) /\ Len(r) = n
      BY <2>1, <2>7, <2>8
    <3>6. \A i \in 1 .. n : r[i] = a[i]
      BY <2>6, <3>1, <3>3, <3>4
    <3> HIDE DEF r, a
    <3>7. r = [i \in 1 .. n |-> r[i]] /\ a = [i \in 1 .. n |-> a[i]]
      BY <3>4, <3>5
    <3>8. r = a
      BY <3>6, <3>7
    <3>9. QED
      BY <3>8 DEF r, a
  <2>10. QED
    BY <2>4, <2>9
<1> HIDE DEF v, e, m, c
<1>8. Grown(v, u, e, m)
  BY <1>2, <1>6, <1>7, CellGrows
<1>9. /\ u[n] = e /\ u[m] = w[m] /\ n - 1 = m
      /\ Defining(u, 0, m) = Defining(w, 0, m) /\ \A j \in Defining(w, 0, m) : u[j] = w[j]
  <2>1. u[n] = e /\ n - 1 = m
    <3>1. n = m + 1 /\ n - 1 = m
      BY <1>1
    <3>2. u[m + 1] = e
      BY <1>8 DEF Grown
    <3>3. QED
      BY <3>1, <3>2
  <2>2. \A i \in 1 .. m : u[i] = w[i]
    BY <1>2, <1>8 DEF Grown
  <2>3. Defining(u, 0, m) = Defining(w, 0, m)
    <3>1. \A i \in 0 + 1 .. m : u[i] = w[i]
      BY <1>1, <2>2
    <3>2. QED
      BY <3>1 DEF Defining
  <2>4. \A j \in Defining(w, 0, m) : j \in 1 .. m
    BY DEF Defining
  <2>5. QED
    BY <1>5, <2>1, <2>2, <2>3, <2>4
<1>10. UsesRight(u, 0, n)
  <2>1. IsMetadata(e) = IsMetadata(c) /\ IsEvent(e) = IsEvent(c)
    BY <1>6 DEF IsMetadata, IsEvent, IsUserMessage
  <2>2. IsMetadata(e) => Leads(u, n)
    BY <1>4, <1>6, <1>9, <2>1 DEF UsesRight, Leads, c
  <2>3. \E j \in Defining(u, 0, m) :
           /\ u[j].body.class_id = e.id /\ u[j].body.full_name = e.body.class
           /\ e.z <=> u[j].z
    BY <1>4, <1>6, <1>9 DEF UsesRight, c
  <2>4. e.id \in {0, 1} /\ (IsEvent(e) => e.body.class \in EventClasses)
    BY <1>4, <1>6, <2>1 DEF UsesRight, c
  <2>5. QED
    BY <1>6, <1>9, <2>2, <2>3, <2>4 DEF UsesRight
<1>11. CellRight(u, 0, n)
  <2>1. /\ HasId(e, ProtoClassId) = HasId(c, ProtoClassId) /\ ~HasId(c, ProtoClassId)
        /\ ~HasId(c, StreamFooterId) /\ ~HasId(c, StreamHeaderId)
        /\ ~HasId(c, StartCompressedSectionId) /\ ~HasId(c, EndCompressedSectionId)
    BY <1>6 DEF HasId, IsUserMessage, FixedIds, c
  <2>2. /\ ~HasId(e, StreamFooterId) /\ ~HasId(e, StreamHeaderId)
        /\ ~HasId(e, StartCompressedSectionId) /\ ~HasId(e, EndCompressedSectionId)
    BY <1>6, <2>1 DEF HasId
  <2>3. n # 0 + 2
    BY <1>3, <2>1 DEF CellRight, c
  <2>4. /\ e.z <=> n > 0 + 1 /\ Opens(w[m])
        /\ ~HasId(w[m], EndCompressedSectionId) /\ ~HasId(w[m], StreamFooterId)
        /\ w[m].kind # "FooterSize" /\ w[m].kind \notin {"END_MAGIC", "TORN_MAGIC"}
    BY <1>3, <1>4, <1>5, <1>6, <1>9 DEF CellRight, c
  <2>5. e.kind = "message"
    BY <1>4, <1>6
  <2>6. QED
    BY <1>5, <1>9, <1>10, <2>1, <2>2, <2>3, <2>4, <2>5 DEF CellRight
<1>12. StreamTo(u, 0, m + 1)
  BY <1>1, <1>2, <1>8, <1>11, StreamGrows
<1>13. u \in Seq(PyCell) /\ Len(u) = n /\ n = m + 1 /\ n >= 2
  <2>1. u \in Seq(PyCell) /\ Len(u) = m + 1
    BY <1>8 DEF Grown
  <2>2. n > 0 /\ n # 0 + 1 /\ n = m + 1 /\ n \in Nat
    BY <1>1, <1>5
  <2>3. n >= 2
    BY <2>2, TwoCells
  <2>4. QED
    BY <2>1, <2>2, <2>3
<1>14. QED
  BY <1>12, <1>13, NotTorn

LEMMA TornRight ==
  /\ <<Torn>> \in Seq(PyCell) /\ Len(<<Torn>>) = 1 /\ StreamTo(<<Torn>>, 0, Len(<<Torn>>))
<1>1. NoBody \in PyBody
  BY DEF PyBody
<1>2. Torn \in PyCell /\ Torn.kind = "TORN_MAGIC" /\ Torn.z = FALSE
  BY <1>1 DEF Torn, Mark, PyCell
<1>3. <<Torn>> \in Seq(PyCell) /\ Len(<<Torn>>) = 1 /\ <<Torn>>[1] = Torn
  BY <1>2
<1>4. CellRight(<<Torn>>, 0, 1)
  <2> DEFINE w == <<Torn>>
  <2>1. w[1] = Torn
    OBVIOUS
  <2> HIDE DEF w
  <2>2. ~(1 > 0 + 1) /\ 1 # 0 + 2 /\ 1 = 0 + 1
    OBVIOUS
  <2>3. CellRight(w, 0, 1)
    BY <1>2, <2>1, <2>2 DEF CellRight, HasId, IsUserMessage
  <2>4. QED
    BY <2>3 DEF w
<1>5. \A k \in 0 + 1 .. 1 : k = 1
  OBVIOUS
<1>6. QED
  BY <1>3, <1>4, <1>5 DEF StreamTo
-----------------------------------------------------------------------------
(* What is written is right, always                                         *)

LEMMA WriterStepRight ==
  ASSUME ~SharedIds, WriterRight(po), WriterStep
  PROVE  WriterRight(po')
<1>1. po.closed => ~PyUsable
  BY DEF PyUsable
<1>2. CASE \E c \in EventClasses : RolesAllow(c, FALSE) /\ PyWrite(c)
  <2>1. PICK c \in EventClasses : RolesAllow(c, FALSE) /\ PyWrite(c)
    BY <1>2
  <2> DEFINE t == GetClassId(po, c, FALSE)
  <2>2. c \in Class /\ ~po.closed /\ Allowed(po, c, FALSE)
    BY <1>1, <2>1, PyRoundTripAssumption DEF PyWrite, RolesAllow, Allowed
  <2>3. PICK serialized \in BOOLEAN :
           po' = PyWriteMessage(t, t.class_id[c], PyContent(c, serialized))
    BY <2>1, PyOutputStreamAssumption DEF PyWrite
  <2>4. Going(t, c) /\ c \in DOMAIN t.class_id /\ t.class_id[c] = 0
    BY <2>2, ClassReady
  <2> HIDE DEF t
  <2>5. QED
    BY <2>2, <2>3, <2>4, EventWritten
<1>3. CASE \E c \in MetadataClasses : RolesAllow(c, TRUE) /\ PyMetadata(c)
  <2>1. PICK c \in MetadataClasses : RolesAllow(c, TRUE) /\ PyMetadata(c)
    BY <1>3
  <2> DEFINE t == GetClassId(po, c, TRUE)
  <2>2. c \in Class /\ ~po.closed /\ Allowed(po, c, TRUE)
    BY <1>1, <2>1, PyRoundTripAssumption DEF PyMetadata, RolesAllow, Allowed
  <2>3. PICK serialized \in BOOLEAN :
           po' = AtOffset(t, "metadata_offsets", t.class_id[c], PyContent(c, serialized))
    BY <2>1, PyOutputStreamAssumption DEF PyMetadata
  <2>4. Going(t, c) /\ c \in DOMAIN t.class_id /\ t.class_id[c] = 1
    BY <2>2, ClassReady
  <2> HIDE DEF t
  <2>5. QED
    BY <2>2, <2>3, <2>4, MetadataWritten
<1>4. ASSUME NEW e \in {"AttributeError", "ValueError"}, po' = [po EXCEPT !.status = e]
      PROVE  WriterRight(po')
  <2>1. po \in PyStreams(DOMAIN po.class_id) /\ DOMAIN po.class_id \in SUBSET Class
    BY DEF WriterRight
  <2>2. /\ po' \in PyStreams(DOMAIN po.class_id) /\ po'.wire = po.wire
        /\ po'.class_id = po.class_id /\ po'.closed = po.closed
        /\ po'.compressed = po.compressed /\ po'.zbytes = po.zbytes /\ po'.pre = po.pre
        /\ po'.bytes_written = po.bytes_written /\ po'.compression = po.compression
        /\ po'.metadata_offsets = po.metadata_offsets
        /\ po'.protoclass_offsets = po.protoclass_offsets
        /\ po'.written_fdps = po.written_fdps
        /\ po'.next_class_id = po.next_class_id
        /\ po'.next_metadata_class_id = po.next_metadata_class_id
    BY <1>4, <2>1 DEF PyStreams
  <2> DEFINE q == po'
  <2>3. q = po'
    OBVIOUS
  <2> HIDE DEF q
  <2>4. Stands(po) => Stands(q)
    BY <2>2, <2>3 DEF Stands
  <2>5. Remembers(po) => Remembers(q)
    BY <2>2, <2>3 DEF Remembers
  <2>6. ClassesBound(po) => ClassesBound(q)
    BY <2>2, <2>3, SMTT(30) DEF ClassesBound
  <2>7. /\ (ClassesUsedBy(po) => ClassesUsedBy(q)) /\ (IdsRight(po) => IdsRight(q))
        /\ Steady(po) => Steady(q)
    BY <2>2, <2>3 DEF ClassesUsedBy, IdsRight, Steady
  <2>8. WriterRight(q)
    BY <2>1, <2>2, <2>3, <2>4, <2>5, <2>6, <2>7 DEF WriterRight
  <2>9. QED
    BY <2>3, <2>8
<1>5. CASE PyFlush
  <2>1. CASE po.compressed
    BY <1>4, <1>5, <2>1 DEF PyFlush
  <2>2. CASE ~po.compressed
    BY <1>5, <2>2 DEF PyFlush
  <2>3. QED
    BY <2>1, <2>2
<1>6. CASE PyClose
  <2>1. CASE po.closed
    BY <1>4, <1>6, <2>1 DEF PyClose
  <2>2. CASE ~po.closed
    <3> DEFINE r == Finished(po)
               q == [r EXCEPT !.closed = TRUE]
    <3>1. po' = q
      BY <1>6, <2>2 DEF PyClose
    <3>2. Ended(po, r)
      BY <2>2, FinishedRight
    <3> HIDE DEF r
    <3>3. r \in PyStreams(DOMAIN po.class_id) /\ r.class_id = po.class_id
          /\ DOMAIN po.class_id \in SUBSET Class
      BY <3>2 DEF Ended, WriterRight
    <3>4. /\ q \in PyStreams(DOMAIN po.class_id) /\ q.wire = r.wire
          /\ q.class_id = r.class_id /\ q.closed = TRUE
          /\ q.compression = r.compression
          /\ q.metadata_offsets = r.metadata_offsets
          /\ q.protoclass_offsets = r.protoclass_offsets
          /\ q.written_fdps = r.written_fdps
          /\ q.next_class_id = r.next_class_id
          /\ q.next_metadata_class_id = r.next_metadata_class_id
      BY <3>3 DEF PyStreams
    <3> HIDE DEF q
    <3>5. Remembers(q)
      BY <3>2, <3>4 DEF Ended, Remembers
    <3>6. ClassesBound(q)
      BY <3>2, <3>4 DEF Ended, ClassesBound
    <3>7. IdsRight(q)
      BY <3>2, <3>4 DEF Ended, IdsRight
    <3>8. WriterRight(q)
      BY <3>2, <3>3, <3>4, <3>5, <3>6, <3>7 DEF WriterRight, Ended
    <3>9. QED
      BY <3>1, <3>8
  <2>3. QED
    BY <2>1, <2>2
<1>7. QED
  BY <1>2, <1>3, <1>5, <1>6 DEF WriterStep

\* The file behind what was added to it, and the writer that follows
LEMMA GoesRight ==
  ASSUME WrittenRight, NEW w \in Seq(PyCell), StreamTo(w, 0, Len(w)), phase = "write",
         Goes(w)
  PROVE  /\ phase' \in {"write", "read"}
         /\ phase' = "write" => WriterRight(po')
         /\ phase' = "read" => po' = NewPyStream(TRUE, TRUE)
         /\ FileRight(pfile') /\ (Untorn(w) => Untorn(pfile'))
<1>1. FileRight(pfile') /\ (Untorn(w) => Untorn(pfile'))
  BY FileGrows DEF Goes, WrittenRight
<1>2. \/ phase' = "read" /\ po' = NewPyStream(TRUE, TRUE)
      \/ /\ phase' = "write"
         /\ \E compression \in PyCompressions, forward \in PyDirections :
                 po' = Opened(compression, forward)
  BY DEF Goes
<1>3. CASE phase' = "read" /\ po' = NewPyStream(TRUE, TRUE)
  BY <1>1, <1>3
<1>4. CASE /\ phase' = "write"
           /\ \E compression \in PyCompressions, forward \in PyDirections :
                 po' = Opened(compression, forward)
  <2>1. PICK compression \in BOOLEAN, forward \in BOOLEAN : po' = Opened(compression, forward)
    BY <1>4, PyOutputStreamAssumption
  <2>2. WriterRight(po')
    BY <2>1, NewStreamRight
  <2>3. QED
    BY <1>1, <1>4, <2>2
<1>5. QED
  BY <1>2, <1>3, <1>4

LEMMA WrittenInit ==
  ASSUME Init
  PROVE  WrittenRight
<1>1. PICK compression \in BOOLEAN, forward \in BOOLEAN : po = Opened(compression, forward)
  BY PyOutputStreamAssumption DEF Init, PyInit
<1>2. WriterRight(po)
  BY <1>1, NewStreamRight
<1>3. pfile = << >> /\ pfile \in Seq(PyCell) /\ DOMAIN pfile = {}
  BY DEF Init
<1>4. FileRight(pfile) /\ Whole(pfile) /\ Untorn(pfile)
  BY <1>3 DEF FileRight, Whole, Untorn
<1>5. QED
  BY <1>2, <1>4 DEF Init, WrittenRight

LEMMA WrittenNext ==
  ASSUME ~SharedIds, WrittenRight, [Next]_vars
  PROVE  WrittenRight'
<1>1. CASE WriterStep
  <2>1. WriterRight(po')
    BY <1>1, WriterStepRight DEF WrittenRight, WriterStep
  <2>2. UNCHANGED <<pfile, phase, cut>> /\ phase = "write"
    BY <1>1 DEF WriterStep
  <2>3. QED
    BY <2>1, <2>2 DEF WrittenRight
<1>2. CASE AppendStream
  <2>1. /\ phase = "write" /\ po.closed /\ Goes(po.wire) /\ UNCHANGED cut
    BY <1>2 DEF AppendStream
  <2>2. /\ po.wire \in Seq(PyCell) /\ StreamTo(po.wire, 0, Len(po.wire))
        /\ po.wire[Len(po.wire)].kind = "END_MAGIC" /\ Len(po.wire) > 0
    BY <2>1 DEF WrittenRight, WriterRight, PyStreams
  <2>3. /\ phase' \in {"write", "read"}
        /\ phase' = "write" => WriterRight(po')
        /\ phase' = "read" => po' = NewPyStream(TRUE, TRUE)
        /\ FileRight(pfile') /\ Untorn(pfile')
    <3>1. Len(po.wire) \in Nat /\ Len(po.wire) >= 2
      <4>1. Len(po.wire) \in 0 + 1 .. Len(po.wire)
        BY <2>2
      <4>2. CellRight(po.wire, 0, Len(po.wire))
        BY <2>2, <4>1 DEF StreamTo
      <4>3. Len(po.wire) # 0 + 1
        BY <2>2, <4>2 DEF CellRight
      <4>4. Len(po.wire) \in Nat /\ Len(po.wire) > 0
        BY <2>2
      <4>5. QED
        BY <4>3, <4>4, TwoCells
    <3>2. Untorn(po.wire)
      BY <2>2, <3>1, NotTorn
    <3>3. QED
      BY <2>1, <2>2, <3>2, GoesRight
  <2>4. ~cut => Whole(pfile')
    <3>1. SUFFICES ASSUME ~cut PROVE Whole(pfile')
      OBVIOUS
    <3>2. Whole(pfile) /\ pfile \in Seq(PyCell) /\ pfile' = pfile \o po.wire
      BY <2>1, <3>1 DEF WrittenRight, FileRight, Goes
    <3>3. QED
      BY <2>2, <3>2, WholeGrows
  <2>5. QED
    BY <2>1, <2>3, <2>4 DEF WrittenRight
<1>3. CASE Crash
  <2> DEFINE w == Finished(po).wire
  <2>1. phase = "write" /\ ~po.closed /\ cut' = TRUE /\ WriterRight(po)
    BY <1>3 DEF Crash, WrittenRight
  <2>2. \/ Goes(<<Torn>>) /\ phase' = "read"
        \/ \E n \in 0 .. Len(w) - 1 : Goes(SubSeq(w, 1, n))
        \/ \E n \in 1 .. Len(w) :
              /\ IsUserMessage(w[n])
              /\ Goes([SubSeq(w, 1, n) EXCEPT ![n].body = PyContent(@.class, FALSE)])
    BY <1>3 DEF Crash
  <2>3. w \in Seq(PyCell) /\ StreamTo(w, 0, Len(w)) /\ Len(w) \in Nat /\ Len(w) >= 2
    <3>1. w \in Seq(PyCell) /\ StreamTo(w, 0, Len(w)) /\ w[Len(w)].kind = "END_MAGIC"
          /\ Len(w) > 0
      BY <2>1, FinishedRight DEF Ended, PyStreams
    <3> HIDE DEF w
    <3>2. Len(w) \in Nat /\ Len(w) \in 0 + 1 .. Len(w)
      BY <3>1
    <3>3. CellRight(w, 0, Len(w))
      BY <3>1, <3>2 DEF StreamTo
    <3>4. Len(w) # 0 + 1
      BY <3>1, <3>3 DEF CellRight
    <3>5. Len(w) > 0 /\ Len(w) \in Nat
      BY <3>1, <3>2
    <3>6. Len(w) >= 2
      BY <3>4, <3>5, TwoCells
    <3>7. QED
      BY <3>1, <3>5, <3>6
  <2> HIDE DEF w
  <2>4. PICK v \in Seq(PyCell) :
           /\ Goes(v) /\ StreamTo(v, 0, Len(v))
           /\ phase' = "read" \/ Untorn(v)
    <3>1. CASE Goes(<<Torn>>) /\ phase' = "read"
      BY <3>1, TornRight
    <3>2. ASSUME NEW n \in 0 .. Len(w) - 1, Goes(SubSeq(w, 1, n))
          PROVE  \E v \in Seq(PyCell) : Goes(v) /\ StreamTo(v, 0, Len(v)) /\ Untorn(v)
      <4> DEFINE v == SubSeq(w, 1, n)
      <4>1. n \in 0 .. Len(w)
        BY <2>3
      <4>2. v \in Seq(PyCell) /\ StreamTo(v, 0, Len(v))
        BY <2>3, <4>1, BeginningRight
      <4>3. Untorn(v)
        BY <2>3, <4>1, NotTorn
      <4>4. Goes(v)
        BY <3>2
      <4> HIDE DEF v
      <4>5. QED
        BY <4>2, <4>3, <4>4
    <3>3. ASSUME NEW n \in 1 .. Len(w), IsUserMessage(w[n]),
                 Goes([SubSeq(w, 1, n) EXCEPT ![n].body = PyContent(@.class, FALSE)])
          PROVE  \E v \in Seq(PyCell) : Goes(v) /\ StreamTo(v, 0, Len(v)) /\ Untorn(v)
      <4> DEFINE v == [SubSeq(w, 1, n) EXCEPT ![n].body = PyContent(@.class, FALSE)]
      <4>1. v \in Seq(PyCell) /\ StreamTo(v, 0, Len(v)) /\ Untorn(v)
        BY <2>3, <3>3, CutMessageRight
      <4>2. Goes(v)
        BY <3>3
      <4> HIDE DEF v
      <4>3. QED
        BY <4>1, <4>2
    <3>4. QED
      BY <2>2, <3>1, <3>2, <3>3
  <2>5. /\ phase' \in {"write", "read"}
        /\ phase' = "write" => WriterRight(po')
        /\ phase' = "read" => po' = NewPyStream(TRUE, TRUE)
        /\ FileRight(pfile') /\ (Untorn(v) => Untorn(pfile'))
    BY <2>1, <2>4, GoesRight
  <2>6. phase' = "write" => Untorn(v)
    BY <2>4
  <2>7. QED
    BY <2>1, <2>5, <2>6 DEF WrittenRight
<1>4. ASSUME UNCHANGED <<po, pfile, phase, cut>> PROVE WrittenRight'
  BY <1>4 DEF WrittenRight
<1>7. CASE Read(iter.mode = "none" /\ Construct)
  BY <1>4, <1>7 DEF Read, Construct
<1>8. CASE ReadOn
  <2>1. UNCHANGED pfile
    BY <1>8 DEF ReadOn, Read, BeginLoop, NextEvent, NextGroup, NextInGroup
  <2>2. QED
    BY <1>4, <1>8, <2>1 DEF ReadOn, Read
<1>9. CASE Read(ScanAllowed /\ (Clash /\ ~LateScan => iter.mode = "new") /\ Info)
  BY <1>4, <1>9 DEF Read, Info
<1>10. CASE Read(LeaveGroup)
  BY <1>4, <1>10 DEF Read, LeaveGroup
<1>11. CASE UNCHANGED vars
  BY <1>4, <1>11 DEF vars
<1>12. QED
  BY <1>1, <1>2, <1>3, <1>7, <1>8, <1>9, <1>10, <1>11 DEF Next

\* What writers leave behind is right, in every state: the invariant the reader can
\* rely on.  A writer may have died at any place the model lets it, and write_message may
\* have raised behind the size and id of any message (SerializeToString() at
\* stream.py:178), __exit__ closing the stream all the same.
THEOREM WrittenAlways ==
  ASSUME ~SharedIds
  PROVE  Spec => []WrittenRight
<1>1. Init => WrittenRight
  BY WrittenInit
<1>2. WrittenRight /\ [Next]_vars => WrittenRight'
  BY WrittenNext
<1>3. QED
  BY <1>1, <1>2, PTL DEF Spec
-----------------------------------------------------------------------------
(* The order of the files                                                   *)

FilesAt(w, i) == IF HasId(w[i], ProtoClassId) THEN w[i].body.file_descriptor ELSE << >>
Listed(w) == FlattenSeq([i \in DOMAIN w |-> FilesAt(w, i)])

LEMMA InOrderBehind ==
  ASSUME NEW s \in Seq(File), NEW t \in Seq(File), InOrder(s, {}), InOrder(t, ToSet(s)),
         ToSet(t) \cap ToSet(s) = {}
  PROVE  InOrder(s \o t, {}) /\ ToSet(s \o t) = ToSet(s) \cup ToSet(t)
<1> DEFINE m == Len(s)
           n == Len(t)
           r == s \o t
<1>1. /\ m \in Nat /\ n \in Nat /\ DOMAIN r = 1 .. m + n /\ DOMAIN s = 1 .. m /\ DOMAIN t = 1 .. n
      /\ (\A i \in 1 .. m : r[i] = s[i]) /\ (\A i \in 1 .. n : r[m + i] = t[i])
  OBVIOUS
<1> HIDE DEF m, n, r
<1>2. ASSUME NEW i \in 1 .. m + n, ~(i <= m)
      PROVE  i - m \in 1 .. n /\ r[i] = t[i - m]
  <2>1. i - m \in 1 .. n /\ m + (i - m) = i
    BY <1>1, <1>2
  <2>2. QED
    BY <1>1, <2>1
<1>3. ToSet(r) = ToSet(s) \cup ToSet(t)
  <2>1. \A i \in 1 .. m + n : r[i] \in ToSet(s) \cup ToSet(t)
    <3>1. ASSUME NEW i \in 1 .. m + n PROVE r[i] \in ToSet(s) \cup ToSet(t)
      <4>1. CASE i <= m
        <5>1. i \in 1 .. m
          BY <1>1, <4>1
        <5>2. QED
          BY <1>1, <5>1 DEF ToSet
      <4>2. CASE ~(i <= m)
        BY <1>1, <1>2, <4>2 DEF ToSet
      <4>3. QED
        BY <4>1, <4>2
    <3>2. QED
      BY <3>1
  <2>2. \A i \in 1 .. m : i \in 1 .. m + n /\ s[i] = r[i]
    BY <1>1
  <2>3. \A i \in 1 .. n : m + i \in 1 .. m + n /\ t[i] = r[m + i]
    BY <1>1
  <2>4. QED
    BY <1>1, <2>1, <2>2, <2>3, SMTT(30) DEF ToSet
<1>4. ASSUME NEW i \in 1 .. m + n
      PROVE  /\ \A j \in 1 .. i - 1 : r[j] # r[i]
             /\ Imports(r[i]) \subseteq {} \cup {r[j] : j \in 1 .. i - 1}
  <2>1. CASE i <= m
    <3>1. i \in 1 .. m /\ \A j \in 1 .. i - 1 : j \in 1 .. m
      BY <1>1, <2>1
    <3>2. r[i] = s[i] /\ \A j \in 1 .. i - 1 : r[j] = s[j]
      BY <1>1, <3>1
    <3>3. /\ \A j \in 1 .. i - 1 : s[j] # s[i]
          /\ Imports(s[i]) \subseteq {} \cup {s[j] : j \in 1 .. i - 1}
      BY <1>1, <3>1 DEF InOrder
    <3>4. QED
      BY <3>2, <3>3
  <2>2. CASE ~(i <= m)
    <3> DEFINE k == i - m
    <3>1. k \in 1 .. n /\ r[i] = t[k] /\ i = m + k
      BY <1>1, <1>2, <2>2
    <3>2. /\ \A j \in 1 .. k - 1 : t[j] # t[k]
          /\ Imports(t[k]) \subseteq ToSet(s) \cup {t[j] : j \in 1 .. k - 1}
      BY <1>1, <3>1 DEF InOrder
    <3>3. ASSUME NEW j \in 1 .. i - 1, ~(j <= m) PROVE j - m \in 1 .. k - 1 /\ r[j] = t[j - m]
      BY <1>1, <1>2, <3>1, <3>3
    <3>4. \A j \in 1 .. i - 1 : r[j] # r[i]
      <4>1. ASSUME NEW j \in 1 .. i - 1 PROVE r[j] # r[i]
        <5>1. CASE j <= m
          <6>1. j \in 1 .. m /\ r[j] = s[j]
            BY <1>1, <5>1
          <6>2. r[j] \in ToSet(s) /\ r[i] \in ToSet(t)
            BY <1>1, <3>1, <6>1 DEF ToSet
          <6>3. QED
            BY <6>2
        <5>2. CASE ~(j <= m)
          BY <3>1, <3>2, <3>3, <5>2
        <5>3. QED
          BY <5>1, <5>2
      <4>2. QED
        BY <4>1
    <3>5. ASSUME NEW x \in Imports(r[i]) PROVE \E j \in 1 .. i - 1 : r[j] = x
      <4>1. CASE x \in ToSet(s)
        <5>1. PICK j \in 1 .. m : s[j] = x
          BY <1>1, <4>1 DEF ToSet
        <5>2. j \in 1 .. i - 1
          BY <1>1, <2>2, <5>1
        <5>3. QED
          BY <1>1, <5>1, <5>2
      <4>2. CASE x \notin ToSet(s)
        <5>1. PICK j \in 1 .. k - 1 : t[j] = x
          BY <3>1, <3>2, <4>2
        <5>2. m + j \in 1 .. i - 1 /\ j \in 1 .. n
          BY <1>1, <3>1, <5>1
        <5>3. QED
          BY <1>1, <5>1, <5>2
      <4>3. QED
        BY <4>1, <4>2
    <3>6. QED
      BY <3>4, <3>5
  <2>3. QED
    BY <2>1, <2>2
<1>5. InOrder(r, {})
  BY <1>1, <1>4 DEF InOrder
<1>6. QED
  BY <1>3, <1>5 DEF r

LEMMA StreamInOrder ==
  ASSUME NEW w \in Seq(PyCell), StreamTo(w, 0, Len(w))
  PROVE  InOrder(Listed(w), {})
<1> DEFINE n == Len(w)
           ss == [i \in DOMAIN w |-> FilesAt(w, i)]
<1>1. n \in Nat /\ DOMAIN w = 1 .. n /\ \A i \in 1 .. n : i \in 0 + 1 .. n
  OBVIOUS
<1>2. ASSUME NEW i \in 1 .. n, HasId(w[i], ProtoClassId)
      PROVE  /\ w[i].body.file_descriptor \in Seq(File)
             /\ InOrder(w[i].body.file_descriptor, Known(w, 0, i - 1))
             /\ ToSet(w[i].body.file_descriptor) \cap Known(w, 0, i - 1) = {}
  <2>1. DefinesRight(w, 0, i)
    BY <1>1, <1>2 DEF StreamTo, CellRight
  <2>2. QED
    BY <2>1 DEF DefinesRight
<1>3. \A i \in 1 .. n : FilesAt(w, i) \in Seq(File)
  BY <1>2 DEF FilesAt
<1>4. ss \in Seq(Seq(File)) /\ Len(ss) = n /\ \A i \in 1 .. n : ss[i] = FilesAt(w, i)
  BY <1>1, <1>3
<1> HIDE DEF ss
<1>5. PICK h \in Flattening(File, ss) : FlattenSeq(ss) = h[n]
  BY <1>4, FlattenSteps
<1>6. /\ h \in [0 .. n -> Seq(File)] /\ h[0] = << >>
      /\ \A i \in 1 .. n : h[i] = h[i - 1] \o FilesAt(w, i)
  BY <1>4, <1>5 DEF Flattening
<1> DEFINE good == {k \in 0 .. n : InOrder(h[k], {}) /\ ToSet(h[k]) = Known(w, 0, k)}
<1>7. 0 \in good
  <2>1. Known(w, 0, 0) = {}
    BY DEF Known, Defining
  <2>2. InOrder(h[0], {}) /\ ToSet(h[0]) = {}
    BY <1>6 DEF InOrder, ToSet
  <2>3. QED
    <3>1. 0 \in 0 .. n /\ ToSet(h[0]) = Known(w, 0, 0)
      BY <1>1, <2>1, <2>2
    <3>2. QED
      BY <2>2, <3>1
<1>8. ASSUME NEW k \in 0 + 1 .. n, k - 1 \in good PROVE k \in good
  <2>1. /\ k \in 1 .. n /\ k \in 0 .. n /\ k - 1 \in 0 .. n
        /\ \A j \in 0 + 1 .. k : j \in 0 + 1 .. k - 1 \/ j = k
        /\ \A j \in 0 + 1 .. k - 1 : j \in 0 + 1 .. k
        /\ k \in 0 + 1 .. k
    BY <1>1
  <2>2. h[k - 1] \in Seq(File) /\ h[k] = h[k - 1] \o FilesAt(w, k)
    BY <1>6, <2>1
  <2>3. InOrder(h[k - 1], {}) /\ ToSet(h[k - 1]) = Known(w, 0, k - 1)
    BY <1>8
  <2>4. CASE HasId(w[k], ProtoClassId)
    <3>1. FilesAt(w, k) = w[k].body.file_descriptor
      BY <2>4 DEF FilesAt
    <3>2. /\ InOrder(h[k], {})
          /\ ToSet(h[k]) = Known(w, 0, k - 1) \cup ToSet(w[k].body.file_descriptor)
      BY <1>2, <2>1, <2>2, <2>3, <2>4, <3>1, InOrderBehind
    <3>3. Defining(w, 0, k) = Defining(w, 0, k - 1) \cup {k}
      BY <2>1, <2>4 DEF Defining
    <3>4. Known(w, 0, k) = Known(w, 0, k - 1) \cup ToSet(w[k].body.file_descriptor)
      BY <3>3 DEF Known
    <3>5. QED
      BY <2>1, <3>2, <3>4
  <2>5. CASE ~HasId(w[k], ProtoClassId)
    <3>1. h[k] = h[k - 1]
      BY <2>2, <2>5 DEF FilesAt
    <3>2. Defining(w, 0, k) = Defining(w, 0, k - 1)
      BY <2>1, <2>5 DEF Defining
    <3>3. Known(w, 0, k) = Known(w, 0, k - 1)
      BY <3>2 DEF Known
    <3>4. QED
      BY <2>1, <2>3, <3>1, <3>3
  <2>6. QED
    BY <2>4, <2>5
<1> HIDE DEF good, n
<1>9. \A k \in 0 .. n : k \in good
  BY <1>1, <1>7, <1>8, NumberByNumber
<1>10. n \in good
  BY <1>1, <1>9
<1>11. QED
  BY <1>5, <1>10 DEF good, Listed, ss

\* DependenciesFirst holds of every number of streams and messages: each .proto file
\* a stream writes is written once and behind the files it imports, over all of its
\* ProtoClass messages together.
THEOREM DependenciesAreFirst ==
  ASSUME ~SharedIds
  PROVE  Spec => []DependenciesFirst
<1>1. ASSUME WrittenRight PROVE DependenciesFirst
  <2>1. po.wire \in Seq(PyCell) /\ StreamTo(po.wire, 0, Len(po.wire))
    <3>1. CASE phase = "write"
      BY <1>1, <3>1 DEF WrittenRight, WriterRight, PyStreams
    <3>2. CASE phase = "read"
      <4>1. po.wire = << >> /\ << >> \in Seq(PyCell) /\ Len(<< >>) = 0
        BY <1>1, <3>2 DEF WrittenRight, NewPyStream
      <4>2. StreamTo(po.wire, 0, 0)
        BY DEF StreamTo
      <4>3. QED
        BY <4>1, <4>2
    <3>3. QED
      BY <1>1, <3>1, <3>2 DEF WrittenRight
  <2>2. InOrder(Listed(po.wire), {})
    BY <2>1, StreamInOrder
  <2>3. FilesWritten = Listed(po.wire)
    BY DEF FilesWritten, Listed, FilesAt
  <2>4. QED
    BY <2>2, <2>3 DEF DependenciesFirst, InOrder, Imports
<1>2. Spec => []WrittenRight
  BY WrittenAlways
<1>3. WrittenRight => DependenciesFirst
  BY <1>1
<1>4. QED
  BY <1>2, <1>3, PTL
-----------------------------------------------------------------------------
(* The positions                                                            *)

\* Where a message is said to be, it is.
Stated(w, o, j) ==
    \/ o + 1 \in DOMAIN w /\ o + 1 = j
    \/ /\ (o + 1) + 1 \in DOMAIN w /\ (o + 1) + 1 = j
       /\ HasId(w[o + 1], StartCompressedSectionId)

LEMMA PlaceStated ==
  ASSUME NEW w \in Seq(PyCell), NEW j \in 1 .. Len(w), Leads(w, j), NEW o \in Nat,
         o = Place(w, j) - 0
  PROVE  Stated(w, o, j)
<1>1. Len(w) \in Nat /\ DOMAIN w = 1 .. Len(w)
  OBVIOUS
<1>2. CASE w[j].z
  <2>1. o + 1 = j - 1 /\ (o + 1) + 1 = j /\ (o + 1) + 1 \in DOMAIN w
    BY <1>1, <1>2 DEF Place
  <2>2. HasId(w[o + 1], StartCompressedSectionId)
    BY <1>2, <2>1 DEF Leads
  <2>3. QED
    BY <2>1, <2>2 DEF Stated
<1>3. CASE ~w[j].z
  <2>1. o + 1 = j /\ o + 1 \in DOMAIN w
    BY <1>1, <1>3 DEF Place
  <2>2. QED
    BY <2>1 DEF Stated
<1>4. QED
  BY <1>2, <1>3

\* PyPositionsAddress holds of every number of streams and messages: the offsets the
\* writer keeps for its footer are those of its metadata and of its ProtoClasses - or of
\* the size and id that were written of metadata before its serialisation raised -, and
\* outside of a section it counts what it has written.
THEOREM PositionsAddressAlways ==
  ASSUME ~SharedIds
  PROVE  Spec => []PyPositionsAddress
<1>1. ASSUME WrittenRight, phase = "write" PROVE PyPositionsAddress
  <2> DEFINE w == po.wire
             n == Len(w)
  <2>1. WriterRight(po)
    BY <1>1 DEF WrittenRight
  <2>2. /\ w \in Seq(PyCell) /\ n \in Nat /\ StreamTo(w, 0, n) /\ Remembers(po)
        /\ po.metadata_offsets \in Seq(Nat) /\ po.protoclass_offsets \in Seq(Nat)
    BY <2>1 DEF WriterRight, PyStreams
  <2>3. ~po.compressed /\ ~po.closed => po.bytes_written = ByteCount(w)
    BY <2>1 DEF WriterRight, Stands, ByteCount
  <2>4. Applying(w, 0, n) \in SUBSET (1 .. n) /\ Defining(w, 0, n) \in SUBSET (1 .. n)
    BY <2>2, SetsAre
  <2>5. ASSUME NEW i \in DOMAIN po.metadata_offsets
        PROVE  OpensWith(po.metadata_offsets[i] + 1, IsUserMessage)
    <3> DEFINE o == po.metadata_offsets[i]
    <3>1. o \in Nat /\ o \in ToSet(po.metadata_offsets)
      BY <2>2 DEF ToSet
    <3>2. PICK j \in Applying(w, 0, n) : o = Place(w, j) - 0
      BY <2>2, <3>1 DEF Remembers, Lists
    <3>3. j \in 1 .. n /\ IsMetadata(w[j]) /\ IsUserMessage(w[j])
      BY <2>4 DEF Applying, IsMetadata
    <3>4. j \in 0 + 1 .. n
      BY <3>3
    <3>5. Leads(w, j)
      BY <2>2, <3>3, <3>4 DEF StreamTo, CellRight, UsesRight
    <3> HIDE DEF o
    <3>6. Stated(w, o, j)
      BY <2>2, <3>1, <3>2, <3>3, <3>5, PlaceStated
    <3>7. OpensWith(o + 1, IsUserMessage)
      BY <3>3, <3>6 DEF Stated, OpensWith
    <3>8. QED
      BY <3>7 DEF o
  <2>6. ASSUME NEW i \in DOMAIN po.protoclass_offsets
        PROVE  OpensWith(po.protoclass_offsets[i] + 1, LAMBDA c : HasId(c, ProtoClassId))
    <3> DEFINE o == po.protoclass_offsets[i]
    <3>1. o \in Nat /\ o \in ToSet(po.protoclass_offsets)
      BY <2>2 DEF ToSet
    <3>2. PICK j \in Defining(w, 0, n) : o = Place(w, j) - 0
      BY <2>2, <3>1 DEF Remembers, Lists
    <3>3. j \in 1 .. n /\ HasId(w[j], ProtoClassId)
      BY <2>4 DEF Defining
    <3>4. j \in 0 + 1 .. n
      BY <3>3
    <3>5. Leads(w, j)
      BY <2>2, <3>3, <3>4 DEF StreamTo, CellRight, DefinesRight
    <3> HIDE DEF o
    <3>6. Stated(w, o, j)
      BY <2>2, <3>1, <3>2, <3>3, <3>5, PlaceStated
    <3>7. OpensWith(o + 1, LAMBDA c : HasId(c, ProtoClassId))
      BY <3>3, <3>6 DEF Stated, OpensWith
    <3>8. QED
      BY <3>7 DEF o
  <2>7. QED
    BY <2>3, <2>5, <2>6 DEF PyPositionsAddress
<1>2. ASSUME WrittenRight, phase = "read" PROVE PyPositionsAddress
  <2>1. po = NewPyStream(TRUE, TRUE)
    BY <1>2 DEF WrittenRight
  <2>2. /\ po.bytes_written = 0 /\ po.wire = << >> /\ Len(<< >>) = 0
        /\ DOMAIN po.metadata_offsets = {} /\ DOMAIN po.protoclass_offsets = {}
    BY <2>1 DEF NewPyStream
  <2>3. QED
    BY <2>2 DEF PyPositionsAddress, ByteCount
<1>3. WrittenRight => PyPositionsAddress
  BY <1>1, <1>2 DEF WrittenRight
<1>4. Spec => []WrittenRight
  BY WrittenAlways
<1>5. QED
  BY <1>3, <1>4, PTL
-----------------------------------------------------------------------------
(* What a reader meets: one cell after the other                            *)

LEMMA CellIs ==
  ASSUME FileRight(pfile), NEW i \in DOMAIN pfile
  PROVE  /\ pfile[i] \in PyCell /\ i \in Nat /\ i >= 1 /\ i <= PyFileEnd /\ PyFileEnd \in Nat
         /\ \E b \in 0 .. i - 1 : CellRight(pfile, b, i)
<1>1. pfile \in Seq(PyCell) /\ \E b \in 0 .. i - 1 : StreamTo(pfile, b, i)
  BY DEF FileRight
<1>2. pfile[i] \in PyCell /\ i \in Nat /\ i >= 1 /\ i <= Len(pfile) /\ Len(pfile) \in Nat
  BY <1>1
<1>3. PICK b \in 0 .. i - 1 : StreamTo(pfile, b, i)
  BY <1>1
<1>4. i \in b + 1 .. i
  BY <1>2
<1>5. CellRight(pfile, b, i)
  BY <1>3, <1>4 DEF StreamTo
<1>6. QED
  BY <1>2, <1>5 DEF PyFileEnd

LEMMA SectionCells ==
  ASSUME FileRight(pfile), NEW i \in DOMAIN pfile
  PROVE  /\ HasId(pfile[i], StartCompressedSectionId) => ~pfile[i].z
         /\ HasId(pfile[i], StreamFooterId) => ~pfile[i].z
         /\ HasId(pfile[i], EndCompressedSectionId) => pfile[i].z
BY CellIs DEF CellRight

LEMMA NextCell ==
  ASSUME FileRight(pfile), NEW i \in DOMAIN pfile, i + 1 \in DOMAIN pfile
  PROVE  /\ HasId(pfile[i], EndCompressedSectionId) =>
               pfile[i + 1].kind = "ZlibEnd" \/ ~pfile[i + 1].z
         /\ HasId(pfile[i], StreamFooterId) =>
               pfile[i + 1].kind \in {"FooterSize", "START_MAGIC", "TORN_MAGIC"}
         /\ pfile[i].kind = "END_MAGIC" => pfile[i + 1].kind \in {"START_MAGIC", "TORN_MAGIC"}
         /\ pfile[i].kind = "START_MAGIC" =>
               \/ pfile[i + 1].kind \in {"START_MAGIC", "TORN_MAGIC"}
               \/ HasId(pfile[i + 1], StreamHeaderId)
         /\ pfile[i + 1].kind = "TORN_MAGIC" => i + 1 = PyFileEnd
<1>1. i \in Nat /\ i >= 1
  BY CellIs
<1>2. PICK b \in 0 .. (i + 1) - 1 : CellRight(pfile, b, i + 1)
  BY CellIs
<1>3. b \in Nat /\ b <= i /\ (i + 1) - 1 = i
  BY <1>1
<1> DEFINE v == pfile[i]
           c == pfile[i + 1]
<1>4. /\ c.kind \in {"START_MAGIC", "TORN_MAGIC"} <=> i + 1 = b + 1
      /\ HasId(c, StreamHeaderId) <=> i + 1 = b + 2
      /\ c.z <=> i + 1 > b + 1 /\ Opens(v)
      /\ c.kind = "ZlibEnd" <=> i + 1 > b + 1 /\ HasId(v, EndCompressedSectionId)
      /\ c.kind = "FooterSize" <=> i + 1 > b + 1 /\ HasId(v, StreamFooterId)
      /\ i + 1 > b + 1 => v.kind \notin {"END_MAGIC", "TORN_MAGIC"}
  BY <1>2, <1>3 DEF CellRight
<1>5. CASE b = i
  <2>1. c.kind \in {"START_MAGIC", "TORN_MAGIC"} /\ ~c.z
    BY <1>1, <1>4, <1>5
  <2>2. c.kind = "TORN_MAGIC" => i + 1 = PyFileEnd
    BY DEF FileRight, PyFileEnd
  <2>3. QED
    BY <2>1, <2>2
<1>6. CASE b # i
  <2>1. i + 1 > b + 1 /\ i > b
    BY <1>1, <1>3, <1>6
  <2>2. ASSUME v.kind = "START_MAGIC" PROVE HasId(c, StreamHeaderId)
    <3>1. \E e \in 0 .. i : StreamTo(pfile, e, i + 1)
      BY <1>3 DEF FileRight
    <3>2. PICK e \in 0 .. i : StreamTo(pfile, e, i + 1)
      BY <3>1
    <3>3. i + 1 \in e + 1 .. i + 1 /\ e \in Nat
      BY <1>1
    <3>4. CellRight(pfile, e, i + 1)
      BY <3>2, <3>3 DEF StreamTo
    <3>5. c.kind \notin {"START_MAGIC", "TORN_MAGIC"}
      <4> HIDE DEF c
      <4>1. QED
        BY <1>1, <1>3, <1>4, <1>6
    <3>6. e # i
      BY <1>1, <3>3, <3>4, <3>5 DEF CellRight
    <3>7. i \in e + 1 .. i + 1
      BY <1>1, <3>3, <3>6
    <3>8. CellRight(pfile, e, i)
      BY <3>2, <3>7 DEF StreamTo
    <3>9. i = e + 1
      BY <2>2, <3>8 DEF CellRight
    <3>10. HasId(pfile[i + 1], StreamHeaderId) <=> i + 1 = e + 2
      BY <3>4 DEF CellRight
    <3>11. i + 1 = e + 2
      BY <1>1, <3>3, <3>9
    <3>12. QED
      BY <3>10, <3>11
  <2>3. c.kind # "TORN_MAGIC"
    <3> HIDE DEF c
    <3>1. QED
      BY <1>1, <1>3, <1>4, <1>6
  <2>4. QED
    BY <1>4, <2>1, <2>2, <2>3
<1>7. QED
  BY <1>5, <1>6

\* Behind the end magic of a stream lies its footer, which is true.
LEMMA EndOfStream ==
  ASSUME FileRight(pfile), NEW i \in DOMAIN pfile, pfile[i].kind = "END_MAGIC"
  PROVE  \E b \in Nat :
            /\ b + 4 < i /\ i <= PyFileEnd /\ StreamTo(pfile, b, i)
            /\ pfile[i - 1].kind = "FooterSize" /\ HasId(pfile[i - 2], StreamFooterId)
            /\ SummaryRight(pfile, b, i - 2)
<1>1. i \in Nat /\ i >= 1 /\ i <= PyFileEnd
  BY CellIs
<1>2. PICK b \in 0 .. i - 1 : StreamTo(pfile, b, i)
  BY DEF FileRight
<1>3. b \in Nat /\ b + 1 <= i /\ i \in b + 1 .. i
  BY <1>1
<1>4. CellRight(pfile, b, i)
  BY <1>2, <1>3 DEF StreamTo
<1>5. i > b + 1 /\ pfile[i - 1].kind = "FooterSize"
  BY <1>4 DEF CellRight
<1>6. i - 1 \in b + 1 .. i /\ (i - 1) - 1 = i - 2
  BY <1>1, <1>3, <1>5
<1>7. CellRight(pfile, b, i - 1)
  BY <1>2, <1>6 DEF StreamTo
<1>8. i - 1 > b + 1 /\ HasId(pfile[i - 2], StreamFooterId)
  BY <1>5, <1>6, <1>7 DEF CellRight
<1>9. i - 2 \in b + 1 .. i
  BY <1>1, <1>3, <1>8
<1>10. CellRight(pfile, b, i - 2)
  BY <1>2, <1>9 DEF StreamTo
<1>11. SummaryRight(pfile, b, i - 2)
  BY <1>8, <1>10 DEF CellRight
<1>12. i - 2 # b + 1 /\ i - 2 # b + 2
  <2>1. i - 2 = b + 1 => pfile[i - 2].kind \in {"START_MAGIC", "TORN_MAGIC"}
    BY <1>10 DEF CellRight
  <2>2. i - 2 = b + 2 => HasId(pfile[i - 2], StreamHeaderId)
    BY <1>10 DEF CellRight
  <2>3. StreamHeaderId # StreamFooterId
    BY WireAssumption DEF StreamHeaderId, StreamFooterId
  <2>4. QED
    BY <1>8, <2>1, <2>2, <2>3 DEF HasId
<1>13. b + 4 < i
  BY <1>1, <1>3, <1>9, <1>12
<1>14. QED
  BY <1>1, <1>2, <1>3, <1>5, <1>8, <1>11, <1>13

HeaderCells == {i \in DOMAIN pfile : HasId(pfile[i], StreamHeaderId)}
FooterCells == {i \in DOMAIN pfile : HasId(pfile[i], StreamFooterId)}
MetadataCells == {i \in DOMAIN pfile : IsMetadata(pfile[i])}

\* Messages that can be reached from their places
Leading ==
    {i \in DOMAIN pfile : /\ IsMessage(pfile[i]) /\ pfile[i].id \notin CompressionIds
                          /\ Leads(pfile, i) /\ (pfile[i].z => i >= 2)}

LEMMA CellsLead ==
  ASSUME FileRight(pfile), NEW i \in DOMAIN pfile,
         IsMetadata(pfile[i]) \/ HasId(pfile[i], ProtoClassId)
  PROVE  i \in Leading
<1>1. i \in Nat /\ i >= 1
  BY CellIs
<1>2. PICK b \in 0 .. i - 1 : CellRight(pfile, b, i)
  BY CellIs
<1>3. /\ IsUserMessage(pfile[i]) => UsesRight(pfile, b, i)
      /\ HasId(pfile[i], ProtoClassId) => DefinesRight(pfile, b, i)
      /\ pfile[i].z => i > b + 1
  BY <1>2 DEF CellRight
<1>4. Leads(pfile, i)
  BY <1>3 DEF UsesRight, DefinesRight, IsMetadata
<1>5. pfile[i].z => i >= 2
  BY <1>1, <1>3
<1>6. IsMessage(pfile[i]) /\ pfile[i].id \notin CompressionIds
  BY PyIdsDiffer DEF IsMetadata, IsUserMessage, IsMessage, HasId, FixedIds, CompressionIds
<1>7. QED
  BY <1>4, <1>5, <1>6 DEF Leading

LEMMA LeadingIs ==
  ASSUME FileRight(pfile), NEW i \in Leading
  PROVE  /\ i \in Nat /\ i >= 1 /\ i \in DOMAIN pfile /\ Leads(pfile, i)
         /\ pfile[i].z => i >= 2 /\ i - 1 \in DOMAIN pfile
         /\ IsMessage(pfile[i]) /\ pfile[i].id \notin CompressionIds
<1>1. i \in DOMAIN pfile /\ i \in Nat /\ i >= 1 /\ DOMAIN pfile = 1 .. PyFileEnd
      /\ PyFileEnd \in Nat /\ i <= PyFileEnd
  BY CellIs DEF Leading, FileRight, PyFileEnd
<1>2. QED
  BY <1>1 DEF Leading

LEMMA MetadataLead ==
  ASSUME FileRight(pfile)
  PROVE  MetadataCells \subseteq Leading
BY CellsLead DEF MetadataCells

\* Each has a place of its own.
LEMMA PlacesDiffer ==
  ASSUME FileRight(pfile), NEW i \in Leading, NEW j \in Leading,
         Place(pfile, i) = Place(pfile, j)
  PROVE  i = j
<1>1. ASSUME NEW x \in Leading, NEW y \in Leading, pfile[x].z, ~pfile[y].z,
             Place(pfile, x) = Place(pfile, y)
      PROVE  FALSE
  <2>1. x \in Nat /\ y \in Nat /\ Leads(pfile, x) /\ pfile[y].id \notin CompressionIds
    BY LeadingIs
  <2>2. x - 2 = y - 1
    BY <1>1 DEF Place
  <2>3. y = x - 1
    BY <2>1, <2>2
  <2>4. pfile[y].id = StartCompressedSectionId
    BY <1>1, <2>1, <2>3 DEF Leads, HasId
  <2>5. QED
    BY <2>1, <2>4 DEF CompressionIds
<1>2. i \in Nat /\ j \in Nat
  BY LeadingIs
<1>3. CASE pfile[i].z
  <2>1. pfile[j].z
    BY <1>1, <1>3
  <2>2. i - 2 = j - 2
    BY <1>3, <2>1 DEF Place
  <2>3. QED
    BY <1>2, <2>2
<1>4. CASE ~pfile[i].z
  <2>1. ~pfile[j].z
    BY <1>1, <1>4
  <2>2. i - 1 = j - 1
    BY <1>4, <2>1 DEF Place
  <2>3. QED
    BY <1>2, <2>2
<1>5. QED
  BY <1>3, <1>4

\* The cells of a stream that was closed
LEMMA StreamIs ==
  ASSUME FileRight(pfile), NEW b \in Nat, NEW e \in DOMAIN pfile, b < e,
         StreamTo(pfile, b, e), pfile[e].kind = "END_MAGIC", NEW i \in b + 1 .. e
  PROVE  /\ i \in HeaderCells <=> i = b + 2
         /\ i \in FooterCells => i = e - 2
         /\ i \in MetadataCells => i \in Applying(pfile, b, e - 2)
<1>1. /\ e \in Nat /\ PyFileEnd \in Nat /\ DOMAIN pfile = 1 .. PyFileEnd /\ e <= PyFileEnd
      /\ i \in DOMAIN pfile /\ i \in Nat /\ b + 1 <= i /\ i <= e
  BY CellIs DEF FileRight, PyFileEnd
<1>2. \A k \in b + 1 .. e : CellRight(pfile, b, k)
  BY DEF StreamTo
<1>3. i \in HeaderCells <=> i = b + 2
  BY <1>1, <1>2 DEF CellRight, HeaderCells
<1>4. ASSUME i \in FooterCells PROVE i = e - 2
  <2>1. HasId(pfile[i], StreamFooterId)
    BY <1>4 DEF FooterCells
  <2>2. i # e
    BY <2>1 DEF HasId
  <2>3. i + 1 \in b + 1 .. e /\ (i + 1) - 1 = i /\ i + 1 > b + 1
    BY <1>1, <2>2
  <2>4. pfile[i + 1].kind = "FooterSize"
    BY <1>2, <2>1, <2>3 DEF CellRight
  <2>5. i + 1 # e
    BY <2>4
  <2>6. i + 2 \in b + 1 .. e /\ (i + 2) - 1 = i + 1 /\ i + 2 > b + 1
    BY <1>1, <2>3, <2>5
  <2>7. pfile[i + 2].kind = "END_MAGIC"
    BY <1>2, <2>4, <2>6 DEF CellRight
  <2>8. CASE i + 2 # e
    <3>1. i + 3 \in b + 1 .. e /\ (i + 3) - 1 = i + 2 /\ i + 3 > b + 1
      BY <1>1, <2>6, <2>8
    <3>2. QED
      BY <1>2, <2>7, <3>1 DEF CellRight
  <2>9. QED
    BY <1>1, <2>8
<1>5. ASSUME i \in MetadataCells PROVE i \in Applying(pfile, b, e - 2)
  <2>1. IsMetadata(pfile[i]) /\ pfile[i].kind = "message"
    BY <1>5 DEF MetadataCells, IsMetadata, IsUserMessage
  <2>2. i # e
    BY <2>1
  <2>3. e > b + 1 /\ pfile[e - 1].kind = "FooterSize"
    BY <1>1, <1>2 DEF CellRight
  <2>4. i # e - 1
    BY <2>1, <2>3
  <2>5. i \in b + 1 .. e - 2
    BY <1>1, <2>2, <2>4
  <2>6. QED
    BY <2>1, <2>5 DEF Applying
<1>6. QED
  BY <1>3, <1>4, <1>5

\* In a whole file a stream stands behind the end of another, or is the first.
LEMMA StreamsMeet ==
  ASSUME FileRight(pfile), Whole(pfile), NEW b \in Nat, NEW e \in DOMAIN pfile, b < e,
         StreamTo(pfile, b, e)
  PROVE  b = 0 \/ (b \in DOMAIN pfile /\ pfile[b].kind = "END_MAGIC")
<1>1. /\ e \in Nat /\ PyFileEnd \in Nat /\ DOMAIN pfile = 1 .. PyFileEnd /\ e <= PyFileEnd
  BY CellIs DEF FileRight, PyFileEnd
<1>2. b + 1 \in b + 1 .. e
  BY <1>1
<1>3. CellRight(pfile, b, b + 1)
  BY <1>2 DEF StreamTo
<1>4. pfile[b + 1].kind \in {"START_MAGIC", "TORN_MAGIC"}
  BY <1>3 DEF CellRight
<1>5. b # 0 => b \in DOMAIN pfile
  BY <1>1
<1>6. pfile[b + 1].kind # "TORN_MAGIC"
  BY <1>1 DEF FileRight, Whole, PyFileEnd
<1>7. QED
  BY <1>4, <1>5, <1>6 DEF Whole
=============================================================================
