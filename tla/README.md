# a4io: TLA+ models, model checking and proofs

a4io stores protobuf messages in self-describing files. A *stream* is a header,
messages with a numeric class id, and a footer with offsets and counts. A
message class is bound to an id by a ProtoClass message in the file itself,
*content* (events) has even ids and *metadata* odd ones, and metadata refers to
the events behind it or before it, as the header says. Streams can be
concatenated. The repository has this twice: a C++ library in `src/src` and a
Python package in `src/python/a4`, the latter with the pure Python protobuf
runtime it runs on, in `src/python/google/protobuf`. Both are modelled here.

Paths below start at `src/src`, `src/python/a4` or `src/python/google/protobuf`,
whichever the section is about, unless they start with `src/`.

## Inventory

The C++ library, `src/src`:

| component | code | state | operations | modelled |
|---|---|---|---|---|
| file format | `src/proto/a4/io/A4Stream.proto` | the message kinds and fixed class ids | - | `A4Wire` |
| OutputStream | `output_stream.cpp` | ids of the classes, two id counters, counts per id, two offset lists, the .proto files written, the compressor | open, write, metadata, set_compression, set_forward_metadata, close | `OutputStream` |
| InputStream | `input_stream_impl.{h,cpp}` | position, compressed section, the current metadata and a pending change of it, what discovery found per header, one message picked up by try_read | next, next_with_metadata, new_metadata, all_metadata, try_read, skip_to_next_metadata (and more, see below) | `InputStream`, `RoundTrip` |
| ProtoClassPool | `proto_class_pool.cpp` | class of each id, .proto files met | add_protoclass, parse_message | inside `InputStream` |
| A4Input | `input.cpp` | names, ready streams, processing, finished, error, reschedule counts, a mutex | add_stream, add_file, get_stream, the deleter | `A4Input` |
| A4Output | `output.cpp` | streams and file names per postfix, closed, a mutex | get_stream, the deleter, close, concatenate | `A4Output` |
| A4Message, merging | `message.cpp`, `dynamic_message.cpp` | lazy bytes or parsed message | message, operator+= | no |
| block compressors, resources | `compressed_stream.cpp`, `gzip_stream.cpp`, `zero_copy_resource.cpp`, `remote_io.cpp` | buffers, position, size | Next, BackUp, Flush, Seek, SeekBack, Tell | external |
| class registry, exceptions, apps, LZ4 | `register.cpp`, `exceptions.cpp`, `apps`, `lz4.cpp` | - | - | no |

The Python package, `src/python`:

| component | code | state | operations | modelled |
|---|---|---|---|---|
| OutputStream | `a4/stream.py:18-180`, `a4/zlib_stream.py` | ids, two counters, bytes written with those of the open section apart, two offset lists, .proto files written | write, metadata, flush, close | `PyOutputStream` |
| InputStream | `a4/stream.py:182-426`, `a4/zlib_stream.py` | raw and decompressed stream, headers, footers and metadata by place, size, current header and metadata | next, info, itermetadata, the scan of the footers | `PyInputStream`, `PyRoundTrip` |
| ProtoClassPool | `a4/proto_class_pool.py` | files, ids, a clean bit | report_proto_class, find_class_id, the build of the files | inside `PyInputStream` |
| Snappy streams | `a4/snappy_stream.py` | buffer | read, write | no |
| wire format | `google/protobuf/internal/{encoder,decoder,wire_format,type_checkers}.py` | none | sizers, encoders, decoders, skippers of every field type | `PbNumbers`, `PbSchema`, `PbEncoder`, `PbDecoder`, `PbCodec` |
| text format | `google/protobuf/text_format.py` | the tokenizer's place | PrintMessage, Merge | `PbText`, `PbCodec` |
| messages | `google/protobuf/internal/{python_message,containers,message_listener}.py` | fields, cached size, three bits, a listener | constructor, setters, getters, ClearField, Clear, add, extend, remove, MergeFrom, CopyFrom, MergeFromString, ByteSize, HasField, ListFields | `PbMessage` (and values in `PbDecoder`) |
| descriptors, reflection, C++ messages, services | `descriptor.py`, `descriptor_pb2.py`, `reflection.py`, `internal/cpp_message.py`, `service*.py` | immutable or not in the repository | - | no |
| scripts | `src/bin` | - | - | no |

How they interact. A C++ program asks A4Output for a stream per thread and writes
events and metadata to it; the deleter of the shared pointer closes the stream,
and A4Output::close() renames or concatenates the files. A4Input hands input
streams to threads; its deleter looks at good() and error() of the returned
stream and files it as finished, failed or to be tried again. A reader of a
stream whose metadata refers backward must know the metadata before the events:
it *discovers* all footers from the end of the file backwards, seeking through
the resource, and then returns to where it was. The Python reader does the same
with its own stream, pool and dictionaries, from inside next() when it first
needs metadata behind the place it reads, or from info(). The Python streams
put ByteSize() of a message before what SerializeToString() writes, and parse
with FromString(): the length prefixes of a file are as right as the cached
sizes of the messages, which setters keep up to date by a chain of listeners.

What is hard here:

- *numbers in the file that describe the file*: offsets are taken while a
  compressed section is closed and reopened around them; the footer counts what
  precedes it; discovery depends on every one of these numbers, with a
  different base in every concatenated stream;
- *order*: metadata of a backward stream takes effect one message after it is
  read; discovery meets streams last to first; .proto files must precede the
  files that import them;
- *sequences of calls*: try_read and skip_to_next_metadata go around next();
  open() can fail and leave a half-open object; ids jump over a reserved range;
  info() may be called in the middle of a loop; an iterator over groups reads one
  event too far;
- *stale state*: a cached size, three bits that are set and cleared in different
  calls, children of fields that were cleared;
- *two algorithms that must agree*: sizers and encoders, decoders and MergeFrom,
  IsInitialized and FindInitializationErrors, printer and tokenizer;
- *crash*: a dead writer leaves a file without footer, and other streams may be
  appended to it; bytes end anywhere;
- *threads*: C++ streams are handed out and returned concurrently, the program
  closes the output while pointers are in scope; Python getters race;
- *partial failure*: merging fails at one of several files; a parse stops in a
  submessage.

Correctness, per component: an OutputStream writes a file in which every message
can be decoded with what precedes it and every number is right; an InputStream
hands out the events that were written, each once, in order, with the metadata
that applies, and does not take a broken file for a complete one; an A4Input
processes each stream once and forgets none; an A4Output loses no message and
merges the streams in order, or says that it failed; the codecs are inverse to
each other, joined bytes are merged messages, cut bytes are refused and unknown
fields skipped; a Python message knows its size and its presence at any time.
`PROJECT.json` lists the hazards with their lines.

## Modules

C++ and the file format:

- `A4Wire` - a file is a sequence of *cells*, one per thing written in one go
  (magic, message, footer length). A cell has length 1, so a byte offset is a
  number of cells. The field `z` says that the cell lies in a compressed
  section, which can be read from its start only. Names, fields and payloads of
  messages are abstracted to the class and the cell. Two cells exist only in files
  that end too early: a message of the client that is not `whole` (its size and id,
  and some of its bytes or none), and `TORN_MAGIC`, some bytes of a start magic.
- `OutputStream` - one object, used by one thread; one action per public method.
  The helpers of the code (`WriteMessage`, `GetBytesWritten`, `FindClassId`,
  `WriteProtoClass`, ...) are operators from the object to the object that a
  method composes in the order of the code. A failed assertion, a FATAL, an
  empty pointer or an index out of bounds ends in `status`, and nothing of the
  method happens behind it. The files that write_protoclass collects are those
  of the class with all their imports (`FileDescriptors`) and the files of the
  extensions of the class and of its field types (`ExtensionFiles`), which the
  code adds without their imports. `OutputStreamProofs` has the theorems about it.
- `InputStream` - one reader over `file`. `Call(c)` starts a method; each
  following action is one round of its loop: a message of one kind
  (`ReadSection`, `ReadFooter`, `ReadProtoClass`, `ReadMetadata`, `ReadEvent`,
  `ReadGarbage`), one footer of discovery (`ScanFooter`), its end (`ScanDone`,
  `ScanFails`). `log` is what the client was handed, with the class it was
  decoded as and the `current_metadata()` of that moment, and the events among
  it.
- `EventReader` - the abstract specification: a file yields its events in order,
  each with the applicable metadata, which is defined on the file alone. What is
  left of an event that a cut has shortened may be delivered too, and then nothing
  is delivered behind it.
- `RoundTrip` - composes them: one OutputStream after the other writes, complete
  files are appended (`AppendStream`) or cut (`Crash`), and then one reader reads.
  A cut is between two cells, within a message of the client or within the start
  magic; one within any other cell has the outcome of the cut in front of it (see
  "Cut files" below).
  Reader and writer together implement `EventReader`
  (`Abstract == INSTANCE EventReader WITH delivered <- log.events`).
  `RoundTripProofs` has the theorems about it.
- `A4Input` - get_stream and the deleter hold the mutex from their first to
  their last line, so each is one action; reading happens between them.
  `A4InputProofs` has the theorems about it.
- `A4Output` - get_stream and close hold the mutex, the deleters and the writes do
  not; close() is one step for closing the streams and one for each postfix it
  merges, with every fault as a disjunct. A path is a sequence, joined as the code
  joins the parts with dots, so two paths are equal when the names are.
  `A4OutputProofs` has the theorems about it.

The Python streams:

- `ProtoFiles` - the imports of the .proto files, in order, without cycles.
- `PyOutputStream` - as `OutputStream`; a section ends with a cell of its own,
  what zlib writes when it is closed, so that bytes counted before and behind
  close() differ. write() and metadata() choose whether SerializeToString() returns
  or raises (`PySerializeResults`); when it raises, the size and the id have been
  written and counted, the offset of metadata has been recorded, and the client
  goes on with the object or closes it. `PyOutputStreamProofs` has the theorems
  about it.
- `PyInputStream` - a method is an operator from the object to the object, and
  what it raises ends in `status`. One action per call: `Construct`,
  `NextEvent`, `NextGroup`, `NextInGroup`, `LeaveGroup`, `Info`. next() of the
  code calls itself for every message that is no event, and read_message() behind
  every end of a section; `NextMessage` and `ReadMessage` are recursive functions
  of the number of these calls, of which there are no more than cells.
  A `ZlibInputStream` is the place it was made at, which its tell() keeps
  returning, and its next cell.
- `PyRoundTrip` - writers, `Crash` (with the same places of the cut) and one reader,
  against the same `EventReader`; `Meaning!Applicable` says of which events metadata
  is promised. `PyRoundTripProofs` has the theorems about it.

The protobuf runtime:

- `PbNumbers` (theorems in `PbProofs`), `PbSchema` - varints, zigzag, tags,
  fixed-width numbers, floats (sign, exponent, significand, infinities, NaN), UTF-8
  of one and two bytes; the type tables. A byte is a number below `2 * Group`, a
  varint has at most `MaxGroups` of them, so that TLC meets every boundary that the
  code's 7-bit groups and 32 and 64 bits have.
- `PbEncoder`, `PbDecoder`, `PbText` - sizers and encoders; decoders, skippers,
  InternalParse, MergeFrom; IsInitialized, which looks at every field that is stored,
  also one that only a getter has made, and FindInitializationErrors, which goes
  through ListFields and HasField; printer, tokenizer values and Merge.
  They are functions of a schema, and a message is the function from its field
  numbers to their values. Errors are outcomes (`refused`, `raised`) that carry
  the message as the exception leaves it.
- `PbCodec` - fills two messages field by field and states what holds of them.
- `PbMessage` - the book-keeping of message objects, over one recursive type with
  a field of every kind. `IsWave` is a call of `_Modified()` with all the
  listeners it reaches. Getters are two steps (look and make, then setdefault),
  MergeFrom and parsing one step per message, ByteSize one step per message,
  innermost first, the order in which the recursion fills the caches.
  `Collect` is the end of a message nobody holds, whose listener is a weak
  reference. Lists of scalars longer than `MaxScalar` count as that long (`Capped`),
  which is a bound of the model. `PbProofs` has the theorems about it.

`MC*.tla` give the constants that are no plain sets. `PbEncoder`, `PbDecoder`,
`PbText` and `PbCodec` have RECURSIVE operators, as the code recurses over trees,
and are for TLC only; the modules proved about have none. `Recursion` has the
lemmas about recursive functions that several proofs need.

## Runs

Deadlock is not checked, since every program here may stop (a closed stream, a
file read to its end, all threads gone).

| run | what it asks | bounds | time |
|---|---|---|---|
| `writer` | is every file of an OutputStream right, for every sequence of calls? | 3 classes that share a .proto file, each in either role; an extension of one, in a file that imports a third; no write starts behind 9 cells | 37 s |
| `reader` | do writer and reader together implement `EventReader`; is discovery exact, is every change of metadata signalled? | 1-2 streams of up to 2 messages, 2 event classes and 1 metadata class | 60 s |
| `reader_crash` | is a cut file noticed, and everything before the cut right; does reading end, on files and on pipes? | the cut between any two cells, within every message of the client and within a start magic, in the first or the last of 1-2 streams | 154 s |
| `reader_skip` | does skipping land where the next block begins? | 1 stream of up to 4 messages | 9 s |
| `input` | is each stream at one place, none forgotten, does every stream come to an end? | 3 threads, 2 additions of 2 files of 1 and 2 messages, one broken | 6 s |
| `output` | is no message lost, the result in order, everything merged eventually? | 2 threads, 3 streams of 1 message for each of 2 postfixes | 48 s |
| `py_streams` | do the Python writer and reader implement `EventReader` too; are offsets, imports, sizes and the scan right? | 1-2 streams, compressed or not, in either direction, of up to 3 messages together, one of which may fail to serialise; cut as in `reader_crash` | 206 s |
| `pb_codec` | do encoders, sizers, decoders, merges and text agree on every field type? | two messages with up to 2 values together, over 4 schemas and the older version of each; bytes cut everywhere | 180 s |
| `pb_message` | are cached sizes and presence right at every moment? | up to 4 message objects, 2 threads, weight at most 5 | 169 s |
| `py_class_ids`, `pb_message_set`, `output_disk_full` | statements of the code or its docs that the code does not keep, see below | as above | seconds |

Why the bounds are enough. In C++ the reserved range starts at 2 instead of 100 and
is 10 long, so the *second* class of a role jumps over it, and the count vector is
outgrown by the same class; three classes give every mix of roles. Two streams are
the least with a base other than 0 and a change of header; three would add no new
kind of neighbour. Two messages of a stream give metadata before, behind and next to
an event and two metadata messages in a row; skipping needs blocks to skip to and
gets four. In `reader` and its relatives the compressor is chosen per stream (`ZLIB`
by default, or none). Three threads are needed for one that leaves while two hold
streams. The postfix `1` is chosen because the file of that postfix has the name of
the first stream of no postfix. In Python the imports form a diamond, the least
graph in which a file is met twice on two ways. One message that could not be
serialised (`MaxUnserialized`) is enough: nothing behind it is followed. In
`pb_codec` a byte has 5 bits, 4 of them payload, varints up to 4 bytes, fixed32 2
and fixed64 3 bytes: numbers are 0, -1, the first that needs two groups, and the
extremes of each width, signed and unsigned; one string needs a length of two bytes;
two values are what a merge, a packed list and a cut between two elements need, and
nesting goes three deep. The properties of `PbMessage` are broken by at most a
grandparent, a parent, a child and a child that was replaced: four objects. `Weight`
counts objects, set fields and getters under way; `Light` bounds it by 4, or 5 when
all objects exist already, which keeps every combination of that many things. `View`
masks the cached size of dirty messages, which no step reads. The theorems below
need no bound.

Every property has a mutant: a plausible bug in one mapped definition, in
`PROJECT.json` under "mutants" and defined next to the definition it replaces.

### Fairness

- `RoundTrip`: `WF(ReadOn)`, a method that was called goes on (the reader has no
  wait), and `SF(CallNext)`, a client comes back to next(), whatever else it
  asks in between, which is the reading loop of `apps/a4dump.cpp` and of the
  tests. Strong, because other calls disable the next one for a while.
- `A4Input`: `WF(Work(w))`, a thread that has a stream reads or returns it, and
  one that has none asks; nothing says that it reads to the end. A thread killed
  by an exception ends the promise, because the others may have left.
- `A4Output`: `WF` of each deleter (threads end), of the first close() (the
  destructor calls it) and of the merging loop. Writing is not fair.
- The Python modules state no liveness: every call of theirs is one step, or a
  loop over a tree of messages that is finite by construction.

## Proofs

`OutputStreamProofs`, for every set of classes and .proto files, every reserved
range allowed by `WireAssumption` (even bounds, at least as long as the format's
own ids need), every number of calls and every outcome of open and
serialisation (`OutputStreamAssumption` only types the constants):

- `TypeCorrect`: `Spec => []TypeOK`. `TypeOK` says that the count vector has no
  gap, so it is more than a typing: `ResizeCounts` must fill. The methods are
  compositions, so there is one lemma per helper that says that it maps a well
  typed object to one with the same ids (`SameIds`), and the actions combine
  them. `StreamRecord(C, D)` fixes the domains of the map of ids and of the
  vector of counts; only find_class_id changes `C`, only the resize changes `D`.
- `IdsCorrect`: `FirstIds = {} /\ Spec => []ClassIdsDistinct` (the constructor
  with a file name). Distinctness alone is not inductive. `IdsInv` adds that the
  next ids have their parity, lie outside the reserved range (`NextIdsFree`) and
  above every id of their role (`IdsBelowNext`). That the jump is right is
  arithmetic about `SkipReserved`: since both ends of the range are even and the
  counters go up by two, each counter meets the first id of its role exactly.

`TypeOK` and `ClassIdsDistinct` are also invariants of the run `writer`.
`FirstIds = {}` is needed: see the deviations.

- `NothingAborts`: `Spec => []NoAbort`, if `OpenResults = {TRUE}`,
  `"UNCOMPRESSED" \notin LateCompressions` and `FirstIds = {}`. Without each of
  the three it is false, see the deviations. The invariant is `Sound`: besides
  the type and `IdsInv`, every id that was given lies within the counts
  (`IdsCounted`), so do the format's own ids, and an open stream is `Ready`: it
  has its file and something to write to, and a compressor exists for the section
  it may have to close and open again. Each helper leaves a ready stream ready;
  the asserted parity of a new id follows from `IdsInv`.

The file it writes, under the conditions of `NothingAborts`:

- `DefinitionsComeFirst`: `Spec => []DefinedBeforeUse`. `OffsetsAddress`:
  `PositionsAddress`. `FootersAreTrue`: `FooterTruthful`. `DefinedBeforeUse` asks
  that in front of a message stand the file of its class, all that this file imports
  at any depth (get_file_descriptors collects them from `Dependencies`, what each
  file imports itself; some of them may have been written with an earlier class),
  and the files of the extensions. It asks of every file but those of extensions
  that its imports come with it or in front of it. Of what a file of extensions
  imports it says nothing, since the code may leave that out (see the deviations).
- The three properties look at the file, the invariant `FileInv` relates the file
  to the object that goes on writing it. `ClassesDefined` and `FilesDefined` say
  that the ProtoClasses in the file are those of the classes that have an id,
  and that `_written_files` is what they hold: without it the next class could
  be bound twice, or miss a file. `Placed` says that the offsets recorded so far
  are the places of the metadata and ProtoClasses so far, `Counted` that the
  vector counts the messages so far: the footer copies these, which is why it is
  true. `FooterRight` is what the footer, once written, says of the cells in
  front of it.
- The argument is about growth: a method appends cells, and nothing changes a
  cell. `Wrote` says by which cells a helper lets the file grow; sections may be
  closed and opened around a message, which no offset refers to (`Grows`); an
  offset recorded in front of a cell still addresses it when more is appended.

The first half of `RoundTripProofs` has no theorem of its own, but what the second
one reads: `FileOK`, all that a reader may rely on in a file of several streams, one
of which a crash may have cut at any of the places of `Crash`. Offsets count from
the start of their own stream, so everything is said relative to the header in front
of a cell (`InStreamOf`), and carried over when a stream is appended (`FileAppend`),
from `FileInv` of the writer (`WrittenRight`). A beginning of a stream is right
(`CutFileOK`) because every property of the file looks from a cell to the cells in
front of it, never behind it. What is left of a message is the last cell of its
file, and what is left of a magic holds nothing.

The second half, for every number of streams, messages and classes, every
place of a cut, files and pipes:

- `MetadataChangesSignalled`: `RTSpec => []MetadataChangeSignalled`, with no
  condition at all, skipping, broken files and aborted readers included. The
  invariant is `Signalled`: whenever the current metadata is not what the client
  last saw, the flag of new_metadata() is up.
- `ReaderImplementsEventReader`: `ImplementsEventReader`, the refinement.
  `DiscoveryIsExact`: `DiscoveryExact`. `CutFilesAreNoticed`:
  `CutFileIsNoticed`. `HandedOutIsRight`: `HandedRight`, for clients that do not
  skip (the run `reader_skip` checks it for those that do). These four have
  three hypotheses:
  - `WritersWork`: `NothingAborts`' conditions, and no message fails to
    serialise. A writer that was stopped by an assertion leaves what a crash
    leaves; a message that was dropped leaves a footer with an offset for it.
  - `~MixedDirections`: with it the reader aborts, see the deviations.
  - `ClientReads`: the client does not skip (EventReader promises every event);
    and if it uses try_read, it does so beside next() only, not again while a
    message is kept, and asks for events. Other uses hand out events with
    the metadata of their neighbours or lose them, see the deviations. This is
    what the runs `reader` and `reader_crash` do, and more than each of them.
- `CutFileIsNoticed` does not say that every cut ends in an error: a cut within the
  start magic of a stream behind a complete one is taken for a regular end. What
  holds, and is proved, is that a reader that says it reached the end has handed
  out every event and stands behind a complete stream, or in such a magic.
- The invariant `ReaderInv` says where the reader can be. It is `Fresh`, or it
  has `Ended`, or it is `Busy` in the stream of some header: everything in front
  of it has been handed out (`HandedUpTo`), and it is `Decoding` or `Searching`.
  `Decoding` says that the pool holds only what this stream binds (`PoolSound`),
  and `CurrentRight` what the current metadata is: with metadata that refers
  forward the last one passed; backward, the entry after those passed in the
  list that discovery made, unless its change is still pending
  (`_do_reset_metadata`). `Searching` says what discovery has found of the last
  k streams, in the middle of its loop (`ScanRight`). `Known` says that what it
  found when it was done is the metadata of each stream. None of these is
  inductive alone: the next message is right because of the place in the list,
  the list because of the footers, those because of the writer. Before the proof TLC
  checked `FileOK` and `ReaderInv` on the constants of `reader` and
  `reader_crash`.
- There is a lemma for each action. `HandedInOrder` says that what a step hands
  out is the next message with no event left before it, so that it is the least
  of those that `EventReader` has left (`HandingDelivers`); `RightIsDelivered`
  that the metadata is what `Abstract!Applicable` defines by Max and Min over
  the file. Streams are counted by their headers (`NumbersGrow`), which
  relates an index of the reader's lists to a header of the file.

`A4InputProofs`, for every set of threads (not empty) and files, any number of
messages in each, any broken files, whether reading them throws or not:

- `StreamsPlacedOnce`: `PlacedOnce`. `OutcomesAreRight`: `OutcomeRight`.
  `NothingIsLeftBehind`: `NothingLeftBehind`.
- The invariant `Inv` splits `PlacedOnce` into what steps can keep: the places
  name streams that exist, the list of ready streams has no repetition, no two
  threads hold one stream, the places exclude each other, and each stream has
  one. A cardinality is only taken at the end (`OnePlace`). `HeldAreProcessing` is
  what the assertion in report_finished relies on: what a thread holds is in
  _processing. `SomeoneStays` says that not all have left while something waits:
  who brings a stream back asks again or is dead. `BringBackInv` is the deleter
  with its three outcomes, for a return and for an exception alike.

`A4OutputProofs`, for every set of threads, any number of streams and messages,
and any postfixes in the order in which a std::map of names has them (a name
comes before those that it begins: `A4OutputAssumption`), regular files or not,
whichever rename or open of a file fails:

- `NothingIsLost`: `DataKept`. `MergedAsAsked`: `MergedInOrder`.
  `OtherFailuresAreReported`: `FailureReported`, which `output_disk_full` refutes
  for write errors: they are the only ones that close() passes over.
- The hypotheses exclude what makes them false: a write error while files are
  copied (`"write" \notin Faults`, the run `output_disk_full`), and a program
  that goes on after close() (`Habits`, see the deviations). Closing while
  threads still hold streams (`close_early`) is allowed.
- The invariant `AInv` says where every stream is: in its own file, or, when the
  postfix it belongs to has been merged, in the file of that postfix (`PlaceOf`,
  by the `Stage` of close()), with what it was given and what went before it
  (`ContentOf`), and no other file exists (`InPlace`). `Flow` ties the place of the loop
  to the flags of the object and to the closed streams. After a failure nothing
  moves any more and `InPlace` is false, since a target may be half written;
  `KeptIn` is what remains, `DataKept` itself. TLC checked `AInv` on the
  constants of `output` before the proof.
- The argument: the file of a postfix can have the name of a stream of another
  one. By the order of the map that stream belongs to an earlier postfix
  (`TargetBefore`) and has been moved, so that unlinking or truncating the target
  destroys nothing (`MovedInPlace`), and a target half copied holds no stream
  that is not also in its own file (`HalfMergedIsKept`). `MergedInOrder` needs
  that the streams that were used are listed in order; the list is a recursive
  function, about which `StepByStep` and `NumberByNumber` of `Recursion` take the
  place of induction: a least counterexample exists, since < on Nat is
  well-founded.

`PyOutputStreamProofs`, for every number of streams and messages, any classes and
acyclic imports, compressed or not, in either direction, a crash of any writer, and
any number of messages whose serialisation raised:

- `DependenciesAreFirst`: `DependenciesFirst`. `PositionsAddressAlways`:
  `PyPositionsAddress`. `WrittenAlways`: `WrittenRight`, the invariant, which is
  also all that a reader may rely on.
- The hypothesis is `~SharedIds`: one class of events and one of metadata in a
  stream, which is all that the ids of the writer allow (see `py_class_ids`).
- `CellRight` says what a cell is by the cells in front of it, up to the start of
  its stream: where sections begin and end, that a ProtoClass holds the files it
  needs and none twice, that a message has the class its id was bound to, that the
  footer lists the right places. `FileRight` asks it of every cell of a file,
  complete or cut, since it never looks behind a cell. A message whose serialisation
  raised is a cell that is not whole; it has its place, its id and its size, so that
  the counter of bytes and the recorded offset are right all the same. `WriterRight`
  relates the object to what it wrote, as `FileInv` does in C++. `StreamMoved`
  carries a stream over to where it is appended: nothing in it depends on what
  precedes it.
- That the files come in order needs that `descriptors`, a recursive function over
  the imports, has a value at all (`PartialAll`: a file whose imports have values
  has one, and no set of files is without one that imports none of the set), and
  that a file stands in front of all it imports (`ImportsBehind`), so that the
  reversed list has them behind it, also without those that were written earlier
  (`NewFilesAre`).

`PyRoundTripProofs`, with the same hypothesis:

- `NoEventLeftOutAlways`: `PyNoEventLeftOut`. `ReaderAlways`: `ReaderRight`, the
  invariant: the object stands behind a message or a magic number, in a section only
  if the cell it is behind lies in that section (`Placed`), every event up to there
  was handed out but the one that itermetadata() keeps for the next group
  (`HandsOut`), and a client that left a group early is refused.
- `DiscoveryExactAlways` and `SizeExactAlways`: `PyDiscoveryExact` and
  `PySizeExact`. Their invariant is `ToldRight` (`ToldAlways`), of files that are
  whole: a reader that has scanned knows all headers, footers and metadata
  messages (`Discovered`), one that has not knows the headers and footers up to
  where it stands, and its size ends behind the last of these footers (`Met`). A
  scan forgets what the loop had found and ends in `Discovered` (`ReadAllFinds`):
  each round starts at the end of a stream (`ScanRight`), finds its footer two
  cells in front, and the counts in the footer add up to the length of the stream
  (`RoundFinds`), so that the next round starts at the end of the stream before.
  That the number of footers is that of the streams is a bijection
  (`FootersAreStarts`).
- A method is a function, so there is one lemma for each, which says which members
  of the object it leaves alone (`Reads`, `Scans`) and which cells it passed
  (`Took`, `Passes`, `Progress`). The recursion of read_message, next and of the
  scan is a recursive function of the number of calls; `CallByCall` shows that
  such a function exists, and `NumberByNumber` goes along it. A message, once
  read, lies behind the place of the call, so that after as many calls as there are
  cells none is left (`ReadMessageTakes`, `NextMessageMoves`).
- `PyReaderImplementsEventReader`: `PyImplementsEventReader`, the refinement of
  `EventReader`. Its further hypotheses are two of the departures below: no scan of
  an uncompressed file (`~ScanUncompressed`) and, where one id stands for different
  classes in two streams, none inside of a loop (`~LateScan`). The invariant is
  `ReadyRight` (`ReadyAlways`): behind every message the object holds the header of
  its stream (`Heading`) and, if metadata refers forward, the last metadata of it
  (`Latest`); if it refers backward, the next one (`Coming`) or none, to be looked
  up (`Carries`). The lookup is by the place in the file, which inside a section is
  that of the section; it finds the next metadata because all messages of such a
  file lie in sections (`Zipped`), metadata in one of their own. Behind a definition
  the pool knows the class of the events (`Named`), also after a scan that reports
  the definitions of all streams, since these then agree (`EventsAlike`). From
  `metadata_change` being set and the metadata that a group was opened with follows
  that no event of a group is behind other metadata (`Kept`, `Awaited`, `Entries`).
  `RightApplies` says that the metadata an event is right to come with is the one
  `EventReader` names, and `PromisedDelivers` that every step delivers the next
  event or stutters. The refinement mapping `PromisedLog` is that of the property:
  where nothing is promised of the metadata it puts what `EventReader` says.
- `NoErrorAlways`: `PyNoError`, which is about files that no crash cut and whose
  messages could all be serialised: a file closed behind one that could not ends in
  an exception when it is read (see the deviations). Its further hypotheses are
  three more departures below: no class with a field of a message type (`Nested =
  {}`), no read that ends in front of a checksum (`Splits = {FALSE}`), no scan of an
  uncompressed file (`~ScanUncompressed`). Each of these does end in an exception,
  so the theorem stops where the code does. The invariant is `UnfailingRight`: as
  long as the reader is not at the end, what comes next is a cell that `next` or
  read_message takes (`Faces`), every ProtoClass up to there was reported
  (`Reported`), and the pool holds, with each .proto file, those it imports and no
  class that could not be made (`PoolRight`), which together is `Continues`; and the
  iterator does not wait for a group that no metadata began. The one exception left
  is the refusal of the next group to a client that left one early (`Refused`). For
  the scan, which reads the definitions by the places in the footers, it needs that
  the places ascend, so that each definition is read behind those it builds on
  (`ListedBefore`, `ReadPlacesWorks`).

`PbProofs`, for every width: `ZigZagIsABijection`, `ZigZagKeepsTheWidth`,
`TagsAreUnpacked`; for any number of message objects and threads, any sizes of
scalars, and every sequence of the steps of `PbMessage`, assuming that the type
is no MessageSet (`~MessageSet`; with it `CachedSizeRight` is false, see
`pb_message_set`):

- `SizesAreRight`: `CachedSizeRight`. `PresenceIsRight`: `SetFieldsArePresent`.
  `GettersGetTheField`: `GettersAgree`. `StaleNoticesDoNoHarm`:
  `StaleNoticesHarmless`. `TypesAreKept`: `PbMessageTypeOK`, which besides the types
  says that what a message holds exists and notifies that message, so no
  two hold one, and that a listener exists or has been collected.
- The invariant behind them is `Inv`. That a clean message has the right size is
  not inductive: a change of a message must reach every message above, although
  a listener stops at the first one that knows. `Core` adds `HeldNotifies` (what
  a message holds notifies it), `DirtyAbove` (a dirty message has dirty messages
  above), `FlagMeansDirty` (a listener that keeps quiet is that of a dirty
  message) and `DirtyMeansPresent` (a message that is dirty has already told
  that it is present: `_Modified()` sets that bit only on the way from clean to
  dirty). `SizesKept` is then the property without its recursion. `WorkRight`
  says that the messages being parsed are dirty, so that a parse may change them
  without notice; `GettersRight` that what getters have made is apart from
  everything else until setdefault stores it; `HandedRight` that what clients
  were handed is still in the field.
- The argument: `WaveFacts` says what `_Modified()` does to the bits, which is
  all that is used of it. `ChangeKeepsCore` takes any change of the fields of one
  message followed by a wave, with new messages or without; `FieldCallKeeps`
  reduces the setters and clears to it, `AdditionsKeep`, `ParsingKeeps`,
  `MergeStepKeeps` and `GettersKeep` the calls that make messages, `BirthKeeps`
  does constructors; `ByteSizeKeeps` and `CollectKeeps` are the two steps that
  change the book-keeping without a change of fields. `StepInv` combines them.

Only model-checked, because the prover cannot reach it: liveness (`ReadingEnds`,
`AllProcessed`, `MergedEventually`), and the properties of `pb_codec`, which are
stated with the recursive operators of the encoder and the decoder. Only
model-checked so far: where skipping lands (`SkipReachesNextBlock`,
`SkipRefusesAtEnd`, and `HandedRight` for clients that skip), which is true only
within the bounds of `reader_skip`, see the deviations.

## Where the code departs from what it says

Checked by runs that TLC must refute, with the quoted lines in `PROJECT.json`
under "findings":

| run | |
|---|---|
| `output_disk_full` | the result of copying is not looked at, the sources are unlinked and close() returns true, `output.cpp:163` |
| `py_class_ids` | ids go up by one instead of two, so the second content class of a Python stream is read as metadata, `a4/stream.py:145` |
| `pb_message_set` | an extension parsed from a MessageSet gets no listener: later changes of it leave the set with a stale size, `decoder.py:606` |

The passing runs exclude the following by a constant. With the constant set as
said, and the named property alone in the cfg, TLC finds it violated. C++:

| constant | run, property | what the code does |
|---|---|---|
| `OpenResults = {TRUE, FALSE}` | `writer`, `RawOutPresent` | open() that failed leaves the object opened with no file; close() runs into its assertion, `output_stream.cpp:81` |
| `LateCompressions` with `UNCOMPRESSED` | `writer`, `NoAbort` | set_compression(UNCOMPRESSED) in an open section reaches `Control should not reach here.` at the next offset, `output_stream.cpp:233` |
| `FirstIds = {0, 1}` | `writer`, `NoAbort` | the constructor from a ZeroCopyOutputStream leaves the counters and the compression type uninitialised, `output_stream.cpp:59` |
| `MixedDirections = TRUE` | `reader`, `ReaderNoAbort` | a stream whose metadata refers backward, behind one whose metadata refers forward: discovery at the second header leaves the pool of the first one, and reading aborts on the files it meets again, `input_stream_impl.cpp:238` |
| none | `reader`, `MetadataPrecedesData` | next_with_metadata hands out metadata of a backward stream behind its events, although `a4/input_stream.h:47` says it is reordered, `input_stream_impl.h:368` |
| `MaxStreams = 2`, `MaxMessages = 2` | `reader_skip`, `SkipRefusesAtEnd` | skipping never gets behind the first header (`0 < header`), although it is not the end of the file, `input_stream_impl.cpp:347` |
| `MaxStreams = 2`, `MaxMessages = 2` | `reader_skip`, `SkipReachesNextBlock` | the list of directions is stored last to first, `input_stream_impl.cpp:286` |
| `Habits` with `skip at once` | `reader_skip`, `NoReaderError` | skipping as the first call starts the stream at an offset where no header is, `input_stream_impl.cpp:404` |
| `Habits` with `skip on` | `reader_skip`, `ReaderNoAbort` | a refused skip has dropped the decompressor already, `input_stream_impl.cpp:353` |
| `Habits` with `try again`, `Calls = {"next", "try_read"}` | `reader`, `ImplementsEventReader` | a second try_read overwrites the message that was kept, `input_stream_impl.h:193` |
| `try_read` beside `next_with_metadata` in `Calls`, three messages | `reader`, `ImplementsEventReader` | try_read does not apply the pending change of metadata, `input_stream_impl.h:159` |
| `Habits` with `close_twice` | `output`, `DataKept` | a second close() unlinks the merged file, `output.cpp:144` |
| `Habits` with `use_after_close` | `output`, `MergedEventually` | a stream asked for after close() is not merged, `output.cpp:53` |

Python:

| constant | run, property | what the code does |
|---|---|---|
| `SharedIds = TRUE` | `py_streams`, `PyImplementsEventReader` | the ids of `py_class_ids`, and one class in both roles, which shares one id |
| `ScanUncompressed = TRUE` | `py_streams`, `PyNoError` | the scan closes the raw file of an uncompressed stream, `a4/stream.py:320` |
| `LateScan = TRUE` | `py_streams`, `PyImplementsEventReader` | a scan inside a loop gives ids of the pool the meaning they have in another stream, `a4/stream.py:283` |
| `Nested` with a class | `py_streams`, `PyNoError` | a class with a singular message field cannot be built: its default is None, `a4/proto_class_pool.py:97` |
| `Splits = {TRUE}` | `py_streams`, `PyNoError` | a read that ends right before the checksum of a section leaves it in the raw stream, `a4/zlib_stream.py:38` |
| `Tops = {"Texts"}`, `ByteStrings <- MCHexStrings`, `MaxValues = 1` | `pb_codec`, `TextRoundTrips` | `\\x41`, an escaped backslash before x41, is taken for a hexadecimal escape, `text_format.py:682-691` |

Files of extensions. `write_protoclass` adds the files that declare extensions of
the class and of its field types, but not what these files import
(`output_stream.cpp:342-348`). `DefinedBeforeUse` leaves these imports out. When
one is missing, the reader's BuildFile fails for the extension's file, which is
not looked at (`proto_class_pool.cpp:143-148`): the messages are read with the
extensions as unknown fields. The name of the file is in
`_written_file_descriptor_set` by then, so a class declared in that file that is
written later does not bring it again, and reading it ends in the FATAL
`Couldn't find protoclass in pool`. The reader of the model has no extension
fields, and its pool takes a class for known when its ProtoClass was read.

Cut files. What the models follow:

- C++, a cut within a start magic (`TORN_MAGIC`): at the beginning of the file it
  is an error, behind a footer `read_header` comes to the end of the file and the
  reader takes it for a "slightly strange but regular end"
  (`input_stream_impl.cpp:130`, `input_stream_impl.h:292`). No event is lost with it;
  `CutFileIsNoticed` states exactly this.
- C++, a cut within a message of the client: when it lies between two fields the
  bytes parse, since `PushLimit(size)` does not ask for as many as `size`
  (`input_stream_impl.h:185-189`, `proto_class_pool.cpp:64`), and the event is
  handed out without its last fields, or the metadata becomes the current one. Else
  the parse fails and the reader stops in a FATAL. Both are steps (`ReadEvent`,
  `ReadMetadata`, `ReadGarbage`, `TryRead`). `EventReader` allows a shortened event
  as the last thing that is delivered.
- Python, a cut within a start magic: at the beginning an error, behind a footer
  the loop ends (`a4/stream.py:368`), and nothing is lost with it.
- Python, a cut within a message outside of a section: `FromString(read(size))` does
  not compare the lengths either (`a4/stream.py:333`), so that the last event may be
  handed out without its last fields. When the bytes do not parse it raises,
  which is what it does at a cut in front of the message too.

What is like a cut somewhere else, and therefore no step of its own: within a header,
a ProtoClass, a message that opens or closes a section, a footer, its
length or the end magic the C++ reader ends in an error or a FATAL, as it does for
the cut in front of it. In Python a header or another message of the format that
is cut raises in the parse, in the assertion about the version, or else at the
next read, which finds the end of the file; the end magic is compared like one
that is missing. Compressed bytes that are cut make ZlibInputStream.read ask for
more for ever (`hang`). What is not followed:
complete streams appended to what is left of a message, or in Python to what is
left of a magic, whose size or id would be read out of the bytes of the next
stream (`Crash` reads these files as they are).

A message that could not be serialised. In C++ it is counted, metadata has its
offset recorded, and nothing of it is written (`dropped`). In Python
`write_message` writes the size and the id and counts them before
SerializeToString() raises (`a4/stream.py:167-179`), metadata() has recorded the
offset (`a4/stream.py:157`), and `__exit__` closes the file all the same
(`a4/stream.py:80-81`). The file holds what was counted, so that `bytes_written`, the
size in the footer and every other offset stay right (`PyPositionsAddress`). A
reader takes the bytes behind the size and the id for the message, so such a
file cannot be read any further, which is why `PyNoError` is stated for files
without one. What a reader makes of these bytes is not followed: the reader of
the model stops as `misread`, and `PyImplementsEventReader` and
`PyNoEventLeftOut` hold up to there. A message of size 0 that could not be
serialised is, byte for byte, an empty message; the model has it as one that
failed.

Seen while reading and left out of the models, or let pass by the properties:

- C++: a compression level outside 1 to 9 builds an exception that is not thrown
  (`output_stream.cpp:189`).
- Python streams: a compressed section that is cut makes read() loop forever
  (`a4/zlib_stream.py:29`); a file cut right behind the length of a footer ends the
  loop with a printed line only (`PyNoEventLeftOut` takes it for the notice); in
  a cut file with metadata that refers backward, and for events no metadata
  applies to, the metadata of a neighbour is handed out
  (`PyImplementsEventReader` asks nothing of these).
- Codec: bytes that are no UTF-8 raise UnicodeDecodeError out of MergeFromString
  (`decoder.py:397`); an int32 written as an unsigned 32-bit varint reads back
  positive (`decoder.py:128-149`, no encoder writes one); SkipGroup compares no field
  number; a repeated element whose parse fails stays, half filled
  (`CutIsNoticed` asks that it holds nothing that was not written).
- Text: an undeclared enum number raises KeyError when printed; doubles lose
  their last digits (`Rounded` in the model); anything that starts with `inf` is
  infinity.
- Messages: merging a message into one that is below it never ends (`Apart`
  excludes it); a getter in one thread can make ListFields of another raise
  RuntimeError, since it iterates over the dictionary.

## Not modelled

- C++ InputStream: next_bare_message, close, footers, get_filedescriptors,
  seek_to without carry, and set_hint_copy with lazily parsed messages; the total
  bytes limit of the coded streams and their periodic reset.
- C++ ProtoClassPool: versions, dynamic against compiled descriptors.
- A4Output: the steps *inside* one OutputStream::close() when a deleter and
  close() run it at the same time; a crash of the process that merges.
- C++ A4Message and merging, the compressors and the resources: see the plan. The
  registry, exceptions, logging, applications and vendored code have no
  behaviour of their own worth a model.
- Python InputStream: Snappy sections (`snappy_stream.py` says of itself that it
  is not tested, and its writer uses names it does not define), and the bytes
  inside of zlib.
- Python ProtoClassPool: how field descriptors are built from their protos.
- Text format: white space, comments, line numbers and the regular expressions
  of the tokenizer, which hands tokens to the model.
- Python messages: a container of a repeated field that a client keeps after the
  field was cleared, equality, the moment between MergeFrom's look at a
  message field and its store of a new message (one step here, where a getter of
  another thread could come between),
  extensions as keys (they are fields).
- Python descriptors, reflection and services, whose data is immutable; the C++
  backed message class, whose other half is not in the repository; the scripts,
  which are loops over one reader.

## Plan

1. Done: the C++ streams, A4Input and A4Output; the Python streams; the wire and
   text formats; the message book-keeping; the theorems above.
2. Model, next: lazy messages with set_hint_copy, where a message must take its
   bytes before the reader moves on; merging of metadata (`operator+=`), its
   options and its half-done merge; the unlocked overlap of two closes of one
   stream; the remaining methods of InputStream; containers kept after a clear.
3. Proofs, next: `SkipReachesNextBlock`, `SkipRefusesAtEnd` and
   `HandedRight` of clients that skip, on a single stream whose metadata refers
   forward and for what else the code gets right.
