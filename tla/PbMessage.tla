----------------------------- MODULE PbMessage -----------------------------
(* The book-keeping of google.protobuf's Python messages: the cached size,  *)
(* the "dirty" bit that says it is stale, the presence bit, and the chain   *)
(* of listeners along which a change of a message reaches the messages      *)
(* that contain it.  Messages are of one recursive type with a field of     *)
(* every kind: an optional scalar, a repeated scalar, an optional message,  *)
(* a repeated message.                                                      *)
EXTENDS Naturals, Sequences, FiniteSetsExt

CONSTANTS
    Obj,          \* message objects
    Thread,       \* threads that read fields
    NoObj,        \* no object
    MaxScalar,    \* the largest encoding of a scalar, or of a list of scalars
    MessageSet    \* TRUE: the type is a MessageSet with a known extension

ASSUME PbMessageAssumption ==
    /\ NoObj \notin Obj
    /\ MaxScalar \in Nat \ {0}
    /\ MessageSet \in BOOLEAN

VARIABLES
    state,      \* "free", "made" by a getter, "live", "gone" once collected
    dirty,      \* _cached_byte_size_dirty
    flag,       \* _listener_for_children.dirty
    present,    \* _is_present_in_parent
    cached,     \* _cached_byte_size
    listener,   \* the message that _listener notifies, or NoObj
    scalar,     \* the size of the optional scalar, 0 when it is not in _fields
    rep,        \* the size of the repeated scalars
    child,      \* the optional message in _fields, or NoObj
    elems,      \* the messages in the repeated field
    pending,    \* what a thread's getter has made and not yet stored
    merging,    \* the calls of MergeFrom still to be made
    parsing,    \* the messages that _InternalParse is filling, innermost first
    handed      \* <<p, c>>: a client was given c as the message field of p

work    == <<merging, parsing>>
book    == <<dirty, flag, present>>
content == <<scalar, rep, child, elems>>
extent  == <<state, listener>>
reads   == <<pending, handed>>
vars    == <<state, dirty, flag, present, cached, listener, scalar, rep, child,
             elems, pending, merging, parsing, handed>>

Live == {o \in Obj : state[o] = "live"}
Free == {o \in Obj : state[o] = "free"}

\* No merge and no parse is under way.
Idle == merging = {} /\ parsing = <<>>

NoGetter == [of |-> NoObj, made |-> NoObj]

Init ==
    /\ state = [o \in Obj |-> "free"]
    /\ dirty = [o \in Obj |-> FALSE]
    /\ flag = [o \in Obj |-> FALSE]
    /\ present = [o \in Obj |-> FALSE]
    /\ cached = [o \in Obj |-> 0]
    /\ listener = [o \in Obj |-> NoObj]
    /\ scalar = [o \in Obj |-> 0]
    /\ rep = [o \in Obj |-> 0]
    /\ child = [o \in Obj |-> NoObj]
    /\ elems = [o \in Obj |-> {}]
    /\ pending = [t \in Thread |-> NoGetter]
    /\ merging = {}
    /\ parsing = <<>>
    /\ handed = {}

-----------------------------------------------------------------------------
(* What a message says of itself.                                           *)

\* c is held by p, as its message field or in its repeated field.
Holds(p, c) == c = child[p] \/ c \in elems[p]

\* The messages among the values ListFields returns.
ListedMessages(o) ==
    elems[o] \union {c \in {child[o]} \ {NoObj} : present[c]}

ListFields(o) == <<scalar[o], rep[o], ListedMessages(o)>>

\* Each message costs a tag and a length on top of its own size.
SizeOf(scalars, sizes) ==
    IF DOMAIN sizes = {} THEN scalars
    ELSE scalars + MapThenSumSet(LAMBDA p : 1 + sizes[p], DOMAIN sizes)

FieldsSize(o) ==
    SizeOf(scalar[o] + rep[o], [p \in ListedMessages(o) |-> cached[p]])

-----------------------------------------------------------------------------
(* Modified() of a message that is already dirty does nothing; of a clean   *)
(* one it sets the three bits and calls the listener, which passes the call *)
(* on unless its own bit says that its message is dirty, or its message has *)
(* been collected.  S is the set of messages whose bits the call sets.      *)

IsWave(o, S, notifies) ==
    /\ o \in S <=> ~dirty[o]
    /\ \A p \in Obj \ {o} :
        p \in S <=> /\ state[p] = "live"
                    /\ ~flag[p]
                    /\ ~dirty[p]
                    /\ \E q \in S : notifies[q] = p

\* Mutant of SetBits: _Modified() does not mark the message as present.
SetBitsNotPresent(S, alsoDirty) ==
    /\ dirty' = [o \in Obj |-> dirty[o] \/ o \in S \union alsoDirty]
    /\ flag' = [o \in Obj |-> flag[o] \/ o \in S]
    /\ UNCHANGED present

SetBits(S, alsoDirty) ==
    /\ dirty' = [o \in Obj |-> dirty[o] \/ o \in S \union alsoDirty]
    /\ flag' = [o \in Obj |-> flag[o] \/ o \in S]
    /\ present' = [o \in Obj |-> present[o] \/ o \in S]

ModifiedWith(o, notifies, alsoDirty) ==
    \E S \in SUBSET Obj : IsWave(o, S, notifies) /\ SetBits(S, alsoDirty)

Modified(o) == ModifiedWith(o, listener, {})

\* A mutating call on o: nothing of this kind runs during a merge or a parse.
Mutates(o) ==
    /\ o \in Live
    /\ Idle

\* The messages xs come into being, and notify p.
Make(xs, p) ==
    /\ xs \subseteq Free
    /\ state' = [o \in Obj |-> IF o \in xs THEN "live" ELSE state[o]]
    /\ listener' = [o \in Obj |-> IF o \in xs THEN p ELSE listener[o]]

\* The values of the scalar fields of o become n and r.
PutScalars(o, n, r) ==
    /\ scalar' = [scalar EXCEPT ![o] = n]
    /\ rep' = [rep EXCEPT ![o] = r]

PutMessages(o, c, es) ==
    /\ child' = [child EXCEPT ![o] = c]
    /\ elems' = [elems EXCEPT ![o] = es]

-----------------------------------------------------------------------------
(* A message made by a client.  Keyword arguments make it dirty and leave   *)
(* its other two bits alone: _Modified() finds the dirty bit set.           *)

New(o) ==
    /\ Idle
    /\ Make({o}, NoObj)
    /\ UNCHANGED <<book, content, cached, reads, work>>

NewWithScalars(o) == \E n, r \in 0..MaxScalar :
    /\ n + r > 0
    /\ Idle
    /\ Make({o}, NoObj)
    /\ dirty' = [dirty EXCEPT ![o] = TRUE]
    /\ PutScalars(o, n, r)
    /\ UNCHANGED <<flag, present, cached, child, elems, reads, work>>

\* The argument is copied into a message of the new message's own.
NewWithMessage(o, x, source) ==
    /\ Idle
    /\ source \in Live
    /\ o # x /\ {o, x} \subseteq Free
    /\ state' = [state EXCEPT ![o] = "live", ![x] = "live"]
    /\ listener' = [listener EXCEPT ![x] = o]
    /\ dirty' = [dirty EXCEPT ![o] = TRUE]
    /\ \/ PutMessages(o, x, {})
       \/ PutMessages(o, NoObj, {x})
    /\ merging' = {[into |-> x, from |-> source]}
    /\ UNCHANGED <<flag, present, cached, scalar, rep, reads, parsing>>

-----------------------------------------------------------------------------
(* Setting and clearing fields.  A list of scalars tells the listener of    *)
(* the message that made it, as does everything else a message holds.       *)

SetScalar(o) == \E n \in 1..MaxScalar :
    /\ Mutates(o)
    /\ PutScalars(o, n, rep[o])
    /\ Modified(o)
    /\ UNCHANGED <<cached, child, elems, extent, reads, work>>

\* append, insert, extend, remove, and assignment to or deletion of items
\* and slices.
ChangeRepeated(o) == \E r \in 0..MaxScalar :
    /\ Mutates(o)
    /\ PutScalars(o, scalar[o], r)
    /\ Modified(o)
    /\ UNCHANGED <<cached, child, elems, extent, reads, work>>

\* Mutant of Add: the element is not given the listener of the list.
AddWithoutListener(o, x) == \E n \in 0..MaxScalar :
    /\ Mutates(o)
    /\ Make({x}, NoObj)
    /\ PutMessages(o, child[o], elems[o] \union {x})
    /\ PutScalars(x, n, 0)
    /\ ModifiedWith(o, listener, {y \in {x} : n > 0})
    /\ UNCHANGED <<cached, reads, work>>

\* A message added with keyword arguments is dirty before it has a listener.
Add(o, x) == \E n \in 0..MaxScalar :
    /\ Mutates(o)
    /\ Make({x}, o)
    /\ PutMessages(o, child[o], elems[o] \union {x})
    /\ PutScalars(x, n, 0)
    /\ ModifiedWith(o, listener, {y \in {x} : n > 0})
    /\ UNCHANGED <<cached, reads, work>>

\* The new element is a copy of a message.
ExtendMessages(o, x, source) ==
    /\ Mutates(o)
    /\ source \in Live
    /\ Make({x}, o)
    /\ PutMessages(o, child[o], elems[o] \union {x})
    /\ Modified(o)
    /\ merging' = {[into |-> x, from |-> source]}
    /\ UNCHANGED <<scalar, rep, cached, reads, parsing>>

DeleteMessages(o) == \E es \in (SUBSET elems[o]) \ {{}} :
    /\ Mutates(o)
    /\ PutMessages(o, child[o], elems[o] \ es)
    /\ Modified(o)
    /\ UNCHANGED <<scalar, rep, cached, extent, reads, work>>

\* Mutant of ClearField: a field that was only read is cleared silently.
ClearFieldSilent(o) ==
    /\ Mutates(o)
    /\ PutMessages(o, NoObj, elems[o])
    /\ handed' = {h \in handed : h[1] # o}
    /\ IF child[o] = NoObj \/ present[child[o]] THEN Modified(o) ELSE UNCHANGED book
    /\ UNCHANGED <<scalar, rep, cached, state, listener, pending, work>>

\* A message that is cleared keeps its listener.
ClearField(o) ==
    /\ Mutates(o)
    /\ \/ /\ PutScalars(o, 0, rep[o])
          /\ UNCHANGED <<child, elems, handed>>
       \/ /\ PutScalars(o, scalar[o], 0)
          /\ UNCHANGED <<child, elems, handed>>
       \/ /\ PutMessages(o, NoObj, elems[o])
          /\ handed' = {h \in handed : h[1] # o}
          /\ UNCHANGED <<scalar, rep>>
       \/ /\ PutMessages(o, child[o], {})
          /\ UNCHANGED <<scalar, rep, handed>>
    /\ Modified(o)
    /\ UNCHANGED <<cached, state, listener, pending, work>>

Clear(o) ==
    /\ Mutates(o)
    /\ PutScalars(o, 0, 0)
    /\ PutMessages(o, NoObj, {})
    /\ handed' = {h \in handed : h[1] # o}
    /\ Modified(o)
    /\ UNCHANGED <<cached, state, listener, pending, work>>

SetInParent(o) ==
    /\ Mutates(o)
    /\ Modified(o)
    /\ UNCHANGED <<content, cached, extent, reads, work>>

-----------------------------------------------------------------------------
(* Reading a message field makes the message, in a step that the getter of  *)
(* another thread may precede: setdefault keeps what was stored first.      *)

GetPresent(o) ==
    /\ o \in Live
    /\ child[o] # NoObj
    /\ handed' = handed \union {<<o, child[o]>>}
    /\ UNCHANGED <<book, content, cached, extent, pending, work>>

GetAbsent(t, o, x) ==
    /\ o \in Live
    /\ pending[t] = NoGetter
    /\ child[o] = NoObj
    /\ x \in Free
    /\ state' = [state EXCEPT ![x] = "made"]
    /\ listener' = [listener EXCEPT ![x] = o]
    /\ pending' = [pending EXCEPT ![t] = [of |-> o, made |-> x]]
    /\ UNCHANGED <<book, content, cached, handed, work>>

\* Mutant of SetDefault: what the getter made is stored over what is there.
SetDefaultOverwrites(t) == LET o == pending[t].of  x == pending[t].made IN
    /\ pending[t] # NoGetter
    /\ PutMessages(o, x, elems[o])
    /\ handed' = handed \union {<<o, x>>}
    /\ state' = [state EXCEPT ![x] = "live"]
    /\ pending' = [pending EXCEPT ![t] = NoGetter]
    /\ UNCHANGED <<book, scalar, rep, listener, cached, work>>

SetDefault(t) == LET o == pending[t].of  x == pending[t].made IN
    /\ pending[t] # NoGetter
    /\ IF child[o] = NoObj
       THEN /\ PutMessages(o, x, elems[o])
            /\ handed' = handed \union {<<o, x>>}
            /\ state' = [state EXCEPT ![x] = "live"]
            /\ listener' = listener
       ELSE /\ handed' = handed \union {<<o, child[o]>>}
            /\ state' = [state EXCEPT ![x] = "free"]
            /\ listener' = [listener EXCEPT ![x] = NoObj]
            /\ UNCHANGED <<child, elems>>
    /\ pending' = [pending EXCEPT ![t] = NoGetter]
    /\ UNCHANGED <<book, scalar, rep, cached, work>>

-----------------------------------------------------------------------------
(* MergeFrom, one message at a time: the messages nested in the source are  *)
(* merged in turn.                                                          *)

\* A bound of the model: the code's lists have none.
Capped(n) == IF n > MaxScalar THEN MaxScalar ELSE n

\* o is neither root nor nested in it.
Apart(o, root) == \E S \in SUBSET Obj :
    /\ root \in S
    /\ o \notin S
    /\ \A p \in S : (elems[p] \union {child[p]}) \ {NoObj} \subseteq S

MergeFrom(o, source) ==
    /\ Mutates(o)
    /\ source \in Live
    /\ Apart(o, source)
    /\ merging' = {[into |-> o, from |-> source]}
    /\ UNCHANGED <<book, content, cached, extent, reads, parsing>>

\* What is left to merge, given the message that takes the field of the
\* source's and those that take the elements.
Nested(source, kid, copies) ==
    {[into |-> kid, from |-> c] : c \in {child[source]} \intersect ListedMessages(source)}
    \union {[into |-> copies[e], from |-> e] : e \in elems[source]}

\* The fields of source go into o: its message into kid, which o may have to
\* make first, and its elements into copies of their own.
Takes(o, source, fresh, kid, copies) ==
    /\ IF child[source] \in ListedMessages(source) /\ child[o] = NoObj
       THEN kid \in fresh /\ \A e \in elems[source] : copies[e] # kid
       ELSE kid = child[o]
    /\ fresh = {copies[e] : e \in elems[source]} \union ({kid} \intersect fresh)
    /\ \A d, e \in elems[source] : d # e => copies[d] # copies[e]
    /\ Make(fresh, o)
    /\ PutScalars(o, IF scalar[source] = 0 THEN scalar[o] ELSE scalar[source],
                  Capped(rep[o] + rep[source]))
    /\ PutMessages(o, kid, elems[o] \union {copies[e] : e \in elems[source]})

\* The fields are taken in no particular order, hence the merges too.
MergeStep == \E m \in merging, fresh \in SUBSET Free, kid \in Obj \union {NoObj} :
    \E copies \in [elems[m.from] -> fresh] :
        /\ Takes(m.into, m.from, fresh, kid, copies)
        /\ merging' = (merging \ {m}) \union Nested(m.from, kid, copies)
        /\ Modified(m.into)
        /\ UNCHANGED <<cached, reads, parsing>>

-----------------------------------------------------------------------------
(* MergeFromString: the message is marked as modified first, and then takes *)
(* the fields in the order of the bytes.                                    *)

Parse(o) ==
    /\ Mutates(o)
    /\ Modified(o)
    /\ parsing' = <<o>>
    /\ UNCHANGED <<content, cached, extent, reads, merging>>

Parses(o) == parsing # <<>> /\ Head(parsing) = o

ParseScalar(o) == \E n \in 1..MaxScalar :
    /\ Parses(o)
    /\ PutScalars(o, n, rep[o])
    /\ UNCHANGED <<book, child, elems, cached, extent, reads, work>>

ParseRepeated(o) ==
    /\ Parses(o)
    /\ PutScalars(o, scalar[o], Capped(rep[o] + 1))
    /\ Modified(o)
    /\ UNCHANGED <<child, elems, cached, extent, reads, work>>

\* The extension in an item of a MessageSet is given no listener.
ParseMessage(o) == \E x \in Obj :
    /\ Parses(o)
    /\ IF child[o] = NoObj
       THEN Make({x}, IF MessageSet THEN NoObj ELSE o)
       ELSE x = child[o] /\ UNCHANGED <<state, listener>>
    /\ PutMessages(o, x, elems[o])
    /\ ModifiedWith(x, listener', {})
    /\ parsing' = <<x>> \o parsing
    /\ UNCHANGED <<scalar, rep, cached, reads, merging>>

ParseElement(o, x) ==
    /\ Parses(o)
    /\ Make({x}, o)
    /\ PutMessages(o, child[o], elems[o] \union {x})
    /\ ModifiedWith(x, listener', {})
    /\ parsing' = <<x>> \o parsing
    /\ UNCHANGED <<scalar, rep, cached, reads, merging>>

ParseEnd(o) ==
    /\ Parses(o)
    /\ parsing' = Tail(parsing)
    /\ UNCHANGED <<book, content, cached, extent, reads, merging>>

\* A DecodeError, or whatever else ends the calls under way.
Raise ==
    /\ ~Idle
    /\ merging' = {}
    /\ parsing' = <<>>
    /\ UNCHANGED <<book, content, cached, extent, reads>>

-----------------------------------------------------------------------------
(* ByteSize() recurses into the fields it lists; one message is one step,   *)
(* the nested ones first, for each of these calls is also one that a client *)
(* may make by itself.                                                      *)

\* Mutant of ByteSize: the listener of the nested messages stays dirty.
ByteSizeKeepsFlag(o) ==
    /\ o \in Live
    /\ Idle
    /\ dirty[o]
    /\ \A p \in ListedMessages(o) : ~dirty[p]
    /\ cached' = [cached EXCEPT ![o] = FieldsSize(o)]
    /\ dirty' = [dirty EXCEPT ![o] = FALSE]
    /\ UNCHANGED <<flag, present, content, extent, reads, work>>

ByteSize(o) ==
    /\ o \in Live
    /\ Idle
    /\ dirty[o]
    /\ \A p \in ListedMessages(o) : ~dirty[p]
    /\ cached' = [cached EXCEPT ![o] = FieldsSize(o)]
    /\ dirty' = [dirty EXCEPT ![o] = FALSE]
    /\ flag' = [flag EXCEPT ![o] = FALSE]
    /\ UNCHANGED <<present, content, extent, reads, work>>

\* The last reference to o goes; a message that notified it still exists.
Collect(o) ==
    /\ o \in Live
    /\ Idle
    /\ \A p \in Live : ~Holds(p, o)
    /\ \A t \in Thread : o # pending[t].of
    /\ state' = [state EXCEPT ![o] = "gone"]
    /\ handed' = {h \in handed : h[1] # o}
    /\ PutScalars(o, 0, 0)
    /\ PutMessages(o, NoObj, {})
    /\ dirty' = [dirty EXCEPT ![o] = FALSE]
    /\ flag' = [flag EXCEPT ![o] = FALSE]
    /\ present' = [present EXCEPT ![o] = FALSE]
    /\ cached' = [cached EXCEPT ![o] = 0]
    /\ listener' = [listener EXCEPT ![o] = NoObj]
    /\ UNCHANGED <<pending, work>>

-----------------------------------------------------------------------------
Fields(o) == SetScalar(o) \/ ChangeRepeated(o) \/ DeleteMessages(o)
             \/ ClearField(o) \/ Clear(o) \/ SetInParent(o)

Additions(o) == \E x \in Obj : Add(o, x) \/ ParseElement(o, x)

Copies(o) == \E source \in Obj :
    \/ MergeFrom(o, source)
    \/ \E x \in Obj : NewWithMessage(o, x, source) \/ ExtendMessages(o, x, source)

Parsing(o) == Parse(o) \/ ParseScalar(o) \/ ParseRepeated(o) \/ ParseMessage(o)
              \/ ParseEnd(o)

Getters == \/ \E o \in Obj : GetPresent(o)
           \/ \E t \in Thread, o, x \in Obj : GetAbsent(t, o, x)
           \/ \E t \in Thread : SetDefault(t)

Next ==
    \/ \E o \in Obj : \/ New(o) \/ NewWithScalars(o) \/ Fields(o) \/ Additions(o)
                      \/ Copies(o) \/ Parsing(o) \/ ByteSize(o) \/ Collect(o)
    \/ Getters
    \/ MergeStep
    \/ Raise

Spec == Init /\ [][Next]_vars

-----------------------------------------------------------------------------
\* The types, and how the objects hang together: what a message holds exists
\* and notifies that message, and no other; a listener is never left at a
\* message that a getter is still making or that does not exist.
PbMessageTypeOK ==
    /\ state \in [Obj -> {"free", "made", "live", "gone"}]
    /\ {dirty, flag, present} \subseteq [Obj -> BOOLEAN]
    /\ {scalar, rep} \subseteq [Obj -> 0..MaxScalar]
    /\ listener \in [Obj -> Obj \union {NoObj}]
    /\ child \in [Obj -> Obj \union {NoObj}]
    /\ elems \in [Obj -> SUBSET Obj]
    /\ \A p \in Live, c \in Obj : Holds(p, c) => c \in Live /\ listener[c] = p
    /\ \A c \in Obj : listener[c] # NoObj => state[listener[c]] \in {"live", "gone"}
    /\ merging \subseteq [into : Obj, from : Obj]
    /\ parsing \in Seq(Obj)
    /\ handed \subseteq Obj \X Obj

\* A message that is not marked dirty would compute the size it has cached,
\* and so would every message it lists: the encoders write the cached size
\* in front of a message's bytes.
CachedSizeRight == \A o \in Live : ~dirty[o] =>
    /\ cached[o] = FieldsSize(o)
    /\ \A p \in ListedMessages(o) : ~dirty[p]

\* A message field in which anything has been set counts as present, so that
\* it is written, compared and merged ("foo.bar.baz.qux = 23" sets "bar").
SetFieldsArePresent == \A o \in Live :
    child[o] # NoObj /\ ListFields(child[o]) # <<0, 0, {}>> => present[child[o]]

\* What a getter returned, in whichever thread, is the message field until it
\* is cleared: two threads that read the same field never hold two messages.
GettersAgree == \A h \in handed : child[h[1]] = h[2]

\* A message that was cleared, or taken out of a list, still notifies its old
\* parent.  That can do no more than invalidate the parent's cached size: it
\* never makes the parent count as set in the message that holds it.
StaleNoticesHarmless == \A p, q \in Live :
    /\ p = child[q]
    /\ \E c \in Live : listener[c] = p /\ ~Holds(p, c)
    => present[p]
=============================================================================
